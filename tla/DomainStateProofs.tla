------------------------- MODULE DomainStateProofs -------------------------
(***************************************************************************)
(* The durable transition protocol, for every set of processes, every      *)
(* lifecycle and any number of crashes and store errors: its invariant,    *)
(* and that it implements the atomic lifecycle.                            *)
(***************************************************************************)
EXTENDS DomainState, TLAPS

USE EntityAssumption, ApplyAssumption

\* A stored revision is a positive number; a missing row reads as 0.
LEMMA ActualRevisionType ==
    ASSUME StoreTypeOK, NEW id \in Identity
    PROVE  /\ ActualRevision(id) \in Nat
           /\ current[id] # NoRow => /\ current[id] \in Row
                                     /\ ActualRevision(id) = current[id].revision
                                     /\ ActualRevision(id) > 0
  BY NoRowAssumption DEF StoreTypeOK, ActualRevision, Row

\* What a successful compare-and-swap leaves in the table.
LEMMA WriteEffect ==
    ASSUME StoreTypeOK, NEW id \in Identity, NEW r \in Nat, NEW s \in State,
           write_current(id, r, s)
    PROVE  /\ StoreTypeOK'
           /\ ActualRevision(id) = r
           /\ current'[id] = [revision |-> r + 1, state |-> s]
           /\ current'[id] # NoRow
           /\ ActualRevision(id)' = r + 1
           /\ \A i \in Identity \ {id} :
                /\ current'[i] = current[i]
                /\ ActualRevision(i)' = ActualRevision(i)
           /\ history' = history
           /\ \A i, n : history_exists(i, n)' <=> history_exists(i, n)
<1> DEFINE row == [revision |-> r + 1, state |-> s]
<1>1. row \in Row /\ row # NoRow
  BY NoRowAssumption DEF Row
<1>2. current' = [current EXCEPT ![id] = row] /\ history' = history
  BY DEF write_current
<1>3. StoreTypeOK'
  BY <1>1, <1>2 DEF StoreTypeOK
<1>4. current'[id] = row /\ ActualRevision(id)' = r + 1
  BY <1>1, <1>2 DEF StoreTypeOK, ActualRevision
<1>5. \A i \in Identity \ {id} :
         current'[i] = current[i] /\ ActualRevision(i)' = ActualRevision(i)
  BY <1>2 DEF StoreTypeOK, ActualRevision
<1>6. ActualRevision(id) = r
  BY DEF write_current, write_conflicts
<1>7. \A i, n : history_exists(i, n)' <=> history_exists(i, n)
  BY <1>2 DEF history_exists
<1> QED
  BY <1>1, <1>2, <1>3, <1>4, <1>5, <1>6, <1>7

\* What a successful append leaves in the tables.
LEMMA AppendEffect ==
    ASSUME StoreTypeOK, NEW id \in Identity, NEW r \in Nat \ {0},
           NEW s \in State, append_history(id, r, s)
    PROVE  /\ StoreTypeOK'
           /\ current' = current
           /\ \A i : ActualRevision(i)' = ActualRevision(i)
           /\ history' = history \cup
                {[identity |-> id, revision |-> r, state |-> s]}
           /\ \A i, n : history_exists(i, n)' <=>
                          history_exists(i, n) \/ (i = id /\ n = r)
<1> DEFINE row == [identity |-> id, revision |-> r, state |-> s]
<1>1. row \in HistoryRow /\ row.identity = id /\ row.revision = r
  BY DEF HistoryRow
<1>2. current' = current /\ history' = history \cup {row}
  BY DEF append_history
<1>3. StoreTypeOK'
  BY <1>1, <1>2 DEF StoreTypeOK
<1>4. \A i : ActualRevision(i)' = ActualRevision(i)
  BY <1>2 DEF ActualRevision
<1>5. \A i, n : history_exists(i, n)' <=>
                  history_exists(i, n) \/ (i = id /\ n = r)
  <2> TAKE i, n
  <2> HIDE DEF row
  <2> QED BY <1>1, <1>2 DEF history_exists
<1> QED
  BY <1>2, <1>3, <1>4, <1>5

----------------------------------------------------------------------------
\* The auxiliary trail after a write: one entry longer, the old ones kept.
LEMMA TrailEffect ==
    ASSUME NEW e \in Entity, NEW s \in EntityState,
           trail \in [Entity -> Seq(EntityState)],
           trail' = [trail EXCEPT ![e] = Append(@, s)]
    PROVE  /\ trail' \in [Entity -> Seq(EntityState)]
           /\ Len(trail[e]) \in Nat
           /\ Len(trail'[e]) = Len(trail[e]) + 1
           /\ trail'[e][Len(trail[e]) + 1] = s
           /\ \A r \in 1 .. Len(trail[e]) : trail'[e][r] = trail[e][r]
           /\ \A i \in Entity \ {e} : trail'[i] = trail[i]
<1>1. trail'[e] = Append(trail[e], s) /\ trail[e] \in Seq(EntityState)
  OBVIOUS
<1>2. Append(trail[e], s) \in Seq(EntityState)
  BY <1>1
<1>3. trail' \in [Entity -> Seq(EntityState)]
  BY <1>2
<1> QED
  BY <1>1, <1>3

\* A call that goes on keeps its entity and transition in a well-formed frame.
LEMMA MoveEffect ==
    ASSUME op \in [Process -> Frame \cup {NoOp}],
           NEW p \in Process, op[p] # NoOp,
           NEW stage \in Running \cup Outcome, NEW r \in Nat,
           NEW old \in EntityState, Move(p, stage, r, old)
    PROVE  /\ op' \in [Process -> Frame \cup {NoOp}]
           /\ op'[p] \in Frame /\ op'[p] # NoOp
           /\ op'[p].entity = op[p].entity
           /\ op'[p].transition = op[p].transition
           /\ op'[p].stage = stage
           /\ op'[p].revision = r
           /\ op'[p].old = old
           /\ \A s : At(p, s)' <=> s = stage
           /\ \A q \in Process \ {p} :
                op'[q] = op[q] /\ \A s : At(q, s)' <=> At(q, s)
<1> DEFINE f == [entity |-> op[p].entity, transition |-> op[p].transition,
                 stage |-> stage, revision |-> r, old |-> old]
<1>1. op[p] \in Frame
  OBVIOUS
<1>2. f \in Frame /\ f # NoOp
  BY <1>1, NoOpAssumption DEF Frame
<1>3. op' = [op EXCEPT ![p] = f]
  BY DEF Move
<1>4. op'[p] = f /\ op' \in [Process -> Frame \cup {NoOp}]
      /\ \A q \in Process \ {p} : op'[q] = op[q]
  BY <1>2, <1>3
<1> QED
  BY <1>2, <1>4 DEF At

\* A finished call keeps a well-formed frame that writes and appends nothing.
LEMMA FinishEffect ==
    ASSUME op \in [Process -> Frame \cup {NoOp}],
           NEW p \in Process, op[p] # NoOp, NEW o \in Outcome, Finish(p, o)
    PROVE  /\ op' \in [Process -> Frame \cup {NoOp}]
           /\ op'[p].stage = o /\ ~At(p, "write")' /\ ~At(p, "append")'
           /\ \A q \in Process \ {p} :
                op'[q] = op[q] /\ \A s : At(q, s)' <=> At(q, s)
<1>1. Move(p, o, 0, Initial) /\ 0 \in Nat /\ Initial \in EntityState
  BY DEF Finish
<1>2. o # "write" /\ o # "append" /\ o \in Running \cup Outcome
  BY DEF Outcome
<1>3. /\ op' \in [Process -> Frame \cup {NoOp}] /\ op'[p].stage = o
      /\ \A s : At(p, s)' <=> s = o
      /\ \A q \in Process \ {p} :
           op'[q] = op[q] /\ \A s : At(q, s)' <=> At(q, s)
  BY <1>1, <1>2, MoveEffect
<1> QED
  BY <1>2, <1>3

\* Steps that leave the tables and the trail alone and only move one
\* process's frame, not into a write or an append.
LEMMA FrameOnly ==
    ASSUME DomainInv, NEW p \in Process,
           UNCHANGED <<store, trail>>,
           op' \in [Process -> Frame \cup {NoOp}],
           \A q \in Process \ {p} : op'[q] = op[q],
           ~At(p, "write")', ~At(p, "append")',
           lost' = lost \cup LostBy(p)
    PROVE  DomainInv'
<1>0. /\ StoreTypeOK /\ op \in [Process -> Frame \cup {NoOp}]
      /\ trail \in [Entity -> Seq(EntityState)]
      /\ lost \in SUBSET (Entity \X (Nat \ {0}))
      /\ CurrentIsNewest /\ AppendHasOneOwner /\ DecisionsAreGrounded
      /\ LostIsOver /\ HistoryIsTruthful /\ HistoryIsAccountedFor
      /\ AppendNeverCollides
  BY DEF DomainInv, DomainStrengthening, DomainTypeOK
<1>1. current' = current /\ history' = history /\ trail' = trail
  BY DEF store
<1>2. \A q \in Process \ {p} : \A s : At(q, s)' <=> At(q, s)
  BY DEF At
<1>3. /\ \A i : ActualRevision(i)' = ActualRevision(i)
      /\ \A i, n : history_exists(i, n)' <=> history_exists(i, n)
  BY <1>1 DEF ActualRevision, history_exists
<1>4. ASSUME At(p, "append")
      PROVE  /\ op[p].entity \in Entity /\ op[p].revision \in Nat \ {0}
             /\ op[p].revision < ActualRevision(op[p].entity)
  <2>1. op[p] \in Frame
    BY <1>0, <1>4 DEF At
  <2>2. op[p].entity \in Entity /\ op[p].revision \in Nat
    BY <2>1 DEF Frame
  <2>3. op[p].revision \in 1 .. Len(trail[op[p].entity])
        /\ op[p].revision < Len(trail[op[p].entity])
    BY <1>0, <1>4 DEF DecisionsAreGrounded
  <2>4. ActualRevision(op[p].entity) = Len(trail[op[p].entity])
    BY <1>0, <2>2, <2>3 DEF CurrentIsNewest, ActualRevision
  <2> QED BY <2>2, <2>3, <2>4
<1>5. lost' \in SUBSET (Entity \X (Nat \ {0})) /\ LostIsOver'
  <2>1. CASE At(p, "append")
    BY <1>0, <1>3, <1>4, <2>1 DEF LostBy, LostIsOver
  <2>2. CASE ~At(p, "append")
    BY <1>0, <1>3, <2>2 DEF LostBy, LostIsOver
  <2> QED BY <2>1, <2>2
<1>6. StoreTypeOK' /\ CurrentIsNewest' /\ HistoryIsTruthful'
  BY <1>0, <1>1, <1>3 DEF StoreTypeOK, CurrentIsNewest, HistoryIsTruthful
<1>7. AppendHasOneOwner'
  BY <1>0, <1>2 DEF AppendHasOneOwner, Appending
<1>8. DecisionsAreGrounded'
  <2> SUFFICES ASSUME NEW q \in Process, At(q, "write")' \/ At(q, "append")'
               PROVE  DecisionsAreGrounded!(q)'
    BY DEF DecisionsAreGrounded
  <2>1. q # p /\ op'[q] = op[q]
    OBVIOUS
  <2>2. At(q, "append") => <<op[q].entity, op[q].revision>> \notin LostBy(p)
    BY <1>0, <2>1 DEF LostBy, AppendHasOneOwner, Appending
  <2> QED BY <1>0, <1>1, <1>2, <2>1, <2>2 DEF DecisionsAreGrounded
<1>9. HistoryIsAccountedFor'
  <2> SUFFICES ASSUME NEW e \in Entity, NEW r \in 1 .. ActualRevision(e) - 1,
                      NEW q \in Process, Appending(q, e, r)
               PROVE  \/ <<e, r>> \in lost'
                      \/ \E x \in Process : Appending(x, e, r)'
    BY <1>0, <1>3 DEF HistoryIsAccountedFor
  <2>1. CASE q = p
    BY <2>1 DEF Appending, LostBy
  <2>2. CASE q # p
    BY <2>2, <1>2 DEF Appending
  <2> QED BY <2>1, <2>2
<1>10. AppendNeverCollides'
  BY <1>0, <1>2, <1>3 DEF AppendNeverCollides
<1> QED
  BY <1>1, <1>0, <1>5, <1>6, <1>7, <1>8, <1>9, <1>10
     DEF DomainInv, DomainStrengthening, DomainTypeOK

----------------------------------------------------------------------------
\* The first write of a fresh entity.
LEMMA CreateStep ==
    ASSUME DomainInv, NEW e \in Entity, create(e)
    PROVE  DomainInv'
<1>0. /\ StoreTypeOK /\ op \in [Process -> Frame \cup {NoOp}]
      /\ trail \in [Entity -> Seq(EntityState)]
      /\ lost \in SUBSET (Entity \X (Nat \ {0}))
      /\ CurrentIsNewest /\ AppendHasOneOwner /\ DecisionsAreGrounded
      /\ LostIsOver /\ HistoryIsTruthful /\ HistoryIsAccountedFor
      /\ AppendNeverCollides
  BY DEF DomainInv, DomainStrengthening, DomainTypeOK
<1>1. e \in Identity /\ Initial \in State /\ write_current(e, 0, Initial)
      /\ trail' = [trail EXCEPT ![e] = <<Initial>>]
      /\ op' = op /\ lost' = lost
  BY DEF create
<1>2. /\ StoreTypeOK' /\ ActualRevision(e) = 0
      /\ current'[e] = [revision |-> 0 + 1, state |-> Initial]
      /\ current'[e] # NoRow /\ ActualRevision(e)' = 0 + 1
      /\ \A i \in Identity \ {e} : /\ current'[i] = current[i]
                                   /\ ActualRevision(i)' = ActualRevision(i)
      /\ history' = history
      /\ \A i, n : history_exists(i, n)' <=> history_exists(i, n)
  <2>1. 0 \in Nat
    OBVIOUS
  <2> QED BY <1>0, <1>1, <2>1, WriteEffect
<1>3. current[e] = NoRow /\ trail[e] = <<>>
  BY <1>0, <1>1, <1>2, ActualRevisionType DEF CurrentIsNewest
<1>4. /\ trail'[e] = <<Initial>> /\ trail' \in [Entity -> Seq(EntityState)]
      /\ Len(trail'[e]) = 1 /\ trail'[e][1] = Initial
      /\ \A i \in Entity \ {e} : trail'[i] = trail[i]
  BY <1>0, <1>1
<1>5. \A q \in Process : At(q, "write") \/ At(q, "append") =>
                           op[q].entity \in Entity \ {e}
  <2> SUFFICES ASSUME NEW q \in Process, At(q, "write") \/ At(q, "append"),
                      op[q].entity = e
               PROVE  FALSE
    BY <1>0 DEF At, Frame
  <2>1. op[q].revision \in 1 .. Len(trail[e])
    BY <1>0 DEF DecisionsAreGrounded
  <2> QED BY <1>3, <2>1
<1>6. \A q \in Process : \A s : At(q, s)' <=> At(q, s)
  BY <1>1 DEF At
<1>7. CurrentIsNewest'
  BY <1>0, <1>1, <1>2, <1>4 DEF CurrentIsNewest
<1>8. AppendHasOneOwner' /\ AppendNeverCollides'
  BY <1>0, <1>1, <1>2, <1>6 DEF AppendHasOneOwner, Appending, AppendNeverCollides
<1>9. DecisionsAreGrounded'
  BY <1>0, <1>1, <1>4, <1>5, <1>6 DEF DecisionsAreGrounded
<1>10. HistoryIsTruthful'
  <2> SUFFICES ASSUME NEW row \in history, row.identity \in Entity
               PROVE  /\ row.revision < ActualRevision(row.identity)'
                      /\ row.state = trail'[row.identity][row.revision]
    BY <1>2 DEF HistoryIsTruthful
  <2>1. row \in HistoryRow /\ row.revision < ActualRevision(row.identity)
    BY <1>0 DEF HistoryIsTruthful, StoreTypeOK
  <2>2. row.identity # e
    BY <1>2, <2>1 DEF HistoryRow
  <2> QED BY <1>0, <1>2, <1>4, <2>2 DEF HistoryIsTruthful
<1>11. HistoryIsAccountedFor'
  <2> SUFFICES ASSUME NEW i \in Entity, NEW r \in (1 .. ActualRevision(i) - 1)'
               PROVE  HistoryIsAccountedFor!(i)!(r)'
    BY DEF HistoryIsAccountedFor
  <2>1. i # e /\ ActualRevision(i)' = ActualRevision(i)
    BY <1>2
  <2>2. \A q \in Process : Appending(q, i, r)' <=> Appending(q, i, r)
    BY <1>1, <1>6 DEF Appending
  <2> QED BY <1>0, <1>1, <1>2, <2>1, <2>2 DEF HistoryIsAccountedFor
<1>12. LostIsOver'
  <2> SUFFICES ASSUME NEW loss \in lost
               PROVE  loss[2] < ActualRevision(loss[1])'
    BY <1>1 DEF LostIsOver
  <2>1. loss[1] \in Entity /\ loss[2] \in Nat \ {0}
        /\ loss[2] < ActualRevision(loss[1])
    BY <1>0 DEF LostIsOver
  <2>2. loss[1] # e
    BY <1>2, <2>1
  <2> QED BY <1>2, <2>1, <2>2
<1> QED
  BY <1>0, <1>1, <1>2, <1>4, <1>7, <1>8, <1>9, <1>10, <1>11, <1>12
     DEF DomainInv, DomainStrengthening, DomainTypeOK

\* The decision is taken on the row as it is at the read.
LEMMA ReadStep ==
    ASSUME DomainInv, NEW p \in Process, read_and_apply(p)
    PROVE  DomainInv'
<1>0. /\ StoreTypeOK /\ op \in [Process -> Frame \cup {NoOp}]
      /\ trail \in [Entity -> Seq(EntityState)]
      /\ lost \in SUBSET (Entity \X (Nat \ {0}))
      /\ CurrentIsNewest /\ AppendHasOneOwner /\ DecisionsAreGrounded
      /\ LostIsOver /\ HistoryIsTruthful /\ HistoryIsAccountedFor
      /\ AppendNeverCollides
  BY DEF DomainInv, DomainStrengthening, DomainTypeOK
<1> DEFINE e == op[p].entity
           row == current[e]
<1>1. op[p] \in Frame /\ op[p] # NoOp /\ e \in Entity /\ e \in Identity
      /\ ~At(p, "append") /\ ~At(p, "write")
  BY <1>0 DEF read_and_apply, At, Frame
<1>2. LostBy(p) = {} /\ UNCHANGED <<store, trail>> /\ lost' = lost
  BY <1>1 DEF read_and_apply, LostBy
<1>3. CASE Finish(p, "not_found") \/ Finish(p, "rejected")
  BY <1>0, <1>1, <1>2, <1>3, FinishEffect, FrameOnly DEF Outcome
<1>4. CASE /\ row # NoRow
           /\ apply(op[p].transition, row.state) # Rejected
           /\ Move(p, "write", row.revision, row.state)
  <2>1. /\ row \in Row /\ row.revision = Len(trail[e])
        /\ row.state = trail[e][Len(trail[e])]
    BY <1>0, <1>1, <1>4, ActualRevisionType DEF CurrentIsNewest
  <2>2. trail[e] \in Seq(EntityState) /\ Len(trail[e]) \in Nat \ {0}
        /\ row.revision \in Nat
    BY <1>0, <1>1, <2>1 DEF Row
  <2>3. row.state \in EntityState
    BY <2>1, <2>2
  <2>4. /\ op' \in [Process -> Frame \cup {NoOp}]
        /\ op'[p].entity = e /\ op'[p].transition = op[p].transition
        /\ op'[p].revision = row.revision /\ op'[p].old = row.state
        /\ At(p, "write")' /\ ~At(p, "append")'
        /\ \A q \in Process \ {p} :
             op'[q] = op[q] /\ \A s : At(q, s)' <=> At(q, s)
    <3>1. "write" \in Running \cup Outcome /\ "append" # "write"
      BY DEF Running
    <3> QED BY <1>0, <1>1, <1>4, <2>2, <2>3, <3>1, MoveEffect
  <2>5. /\ current' = current /\ history' = history /\ trail' = trail
        /\ \A i : ActualRevision(i)' = ActualRevision(i)
        /\ \A i, n : history_exists(i, n)' <=> history_exists(i, n)
    BY <1>2 DEF store, ActualRevision, history_exists
  <2>6. StoreTypeOK' /\ CurrentIsNewest' /\ HistoryIsTruthful' /\ LostIsOver'
    BY <1>0, <1>2, <2>5
       DEF StoreTypeOK, CurrentIsNewest, HistoryIsTruthful, LostIsOver
  <2>7. \A q \in Process : \A i, r : Appending(q, i, r)' <=> Appending(q, i, r)
    BY <1>1, <2>4 DEF Appending
  <2>8. AppendHasOneOwner'
    BY <1>0, <1>1, <2>4 DEF AppendHasOneOwner, Appending
  <2>9. AppendNeverCollides'
    BY <1>0, <2>4, <2>5 DEF AppendNeverCollides
  <2>10. DecisionsAreGrounded'
    <3>1. ASSUME NEW q \in Process \ {p} PROVE DecisionsAreGrounded!(q)'
      BY <1>0, <1>2, <2>4 DEF DecisionsAreGrounded
    <3>2. DecisionsAreGrounded!(p)'
      BY <1>4, <2>1, <2>2, <2>4, <2>5 DEF apply
    <3> QED BY <3>1, <3>2 DEF DecisionsAreGrounded
  <2>11. HistoryIsAccountedFor'
    BY <1>0, <1>2, <2>5, <2>7 DEF HistoryIsAccountedFor
  <2> QED
    BY <1>0, <1>2, <2>4, <2>6, <2>8, <2>9, <2>10, <2>11
       DEF DomainInv, DomainStrengthening, DomainTypeOK
<1> QED
  BY <1>1, <1>3, <1>4 DEF read_and_apply, read_current

\* A won compare-and-swap: the state that was read is the state superseded.
LEMMA SwapStep ==
    ASSUME DomainInv, NEW p \in Process, swap(p)
    PROVE  /\ DomainInv'
           /\ op[p].entity \in Entity /\ op[p].transition \in Transition
           /\ current[op[p].entity] # NoRow
           /\ current[op[p].entity].state = op[p].old
           /\ apply(op[p].transition, op[p].old) \in EntityState
           /\ current' = [current EXCEPT ![op[p].entity] =
                [revision |-> op[p].revision + 1,
                 state |-> apply(op[p].transition, op[p].old)]]
<1>0. /\ StoreTypeOK /\ op \in [Process -> Frame \cup {NoOp}]
      /\ trail \in [Entity -> Seq(EntityState)]
      /\ lost \in SUBSET (Entity \X (Nat \ {0}))
      /\ CurrentIsNewest /\ AppendHasOneOwner /\ DecisionsAreGrounded
      /\ LostIsOver /\ HistoryIsTruthful /\ HistoryIsAccountedFor
      /\ AppendNeverCollides
  BY DEF DomainInv, DomainStrengthening, DomainTypeOK
<1>1. op[p] \in Frame /\ op[p] # NoOp /\ At(p, "write") /\ ~At(p, "append")
      /\ op[p].entity \in Entity /\ op[p].revision \in Nat
      /\ op[p].transition \in Transition /\ op[p].old \in EntityState
  BY <1>0 DEF swap, At, Frame
<1>a. PICK e \in Entity, r \in Nat : e = op[p].entity /\ r = op[p].revision
  BY <1>1
<1>2. r \in 1 .. Len(trail[e]) /\ op[p].old = trail[e][r]
      /\ apply(op[p].transition, op[p].old) # Rejected
  BY <1>0, <1>1, <1>a DEF DecisionsAreGrounded
<1>3. apply(op[p].transition, op[p].old) \in EntityState
  BY <1>1, <1>2 DEF apply
<1>b. PICK new \in EntityState : new = apply(op[p].transition, op[p].old)
  BY <1>3
<1>4. /\ write_current(e, r, new)
      /\ trail' = [trail EXCEPT ![e] = Append(@, new)]
      /\ Move(p, "append", r, op[p].old) /\ lost' = lost
  BY <1>a, <1>b DEF swap
<1>5. /\ StoreTypeOK' /\ ActualRevision(e) = r
      /\ current'[e] = [revision |-> r + 1, state |-> new]
      /\ current'[e] # NoRow /\ ActualRevision(e)' = r + 1
      /\ \A i \in Identity \ {e} : /\ current'[i] = current[i]
                                   /\ ActualRevision(i)' = ActualRevision(i)
      /\ history' = history
      /\ \A i, n : history_exists(i, n)' <=> history_exists(i, n)
  BY <1>0, <1>4, WriteEffect
<1>6. /\ current[e] # NoRow /\ r = Len(trail[e])
      /\ current[e].state = op[p].old
  <2>1. current[e] # NoRow
    BY <1>2, <1>5 DEF ActualRevision
  <2>2. current[e].revision = Len(trail[e])
        /\ current[e].state = trail[e][Len(trail[e])]
    BY <1>0, <1>1, <2>1 DEF CurrentIsNewest
  <2>3. current[e].revision = r
    BY <1>0, <1>1, <1>5, <2>1, ActualRevisionType
  <2> QED BY <1>2, <2>1, <2>2, <2>3
<1>7. /\ trail' \in [Entity -> Seq(EntityState)] /\ Len(trail[e]) \in Nat
      /\ Len(trail'[e]) = r + 1 /\ trail'[e][r + 1] = new
      /\ \A n \in 1 .. r : trail'[e][n] = trail[e][n]
      /\ \A i \in Entity \ {e} : trail'[i] = trail[i]
  BY <1>0, <1>4, <1>6, TrailEffect
<1>8. /\ op' \in [Process -> Frame \cup {NoOp}]
      /\ op'[p].entity = e /\ op'[p].transition = op[p].transition
      /\ op'[p].revision = r /\ op'[p].old = op[p].old
      /\ At(p, "append")' /\ ~At(p, "write")'
      /\ \A q \in Process \ {p} :
           op'[q] = op[q] /\ \A s : At(q, s)' <=> At(q, s)
  <2>1. "append" \in Running \cup Outcome /\ "append" # "write"
    BY DEF Running
  <2> QED BY <1>0, <1>1, <1>a, <1>4, <2>1, MoveEffect
<1>9. \A q \in Process : At(q, "append") /\ op[q].entity = e =>
                            op[q].revision < r
  BY <1>0, <1>6 DEF DecisionsAreGrounded
<1>10. ~history_exists(e, r)
  <2> SUFFICES ASSUME NEW row \in history, row.identity = e, row.revision = r
               PROVE  FALSE
    BY DEF history_exists
  <2> QED BY <1>0, <1>1, <1>5 DEF HistoryIsTruthful
<1>11. <<e, r>> \notin lost
  BY <1>0, <1>1, <1>5 DEF LostIsOver
<1>12. CurrentIsNewest'
  <2> SUFFICES ASSUME NEW i \in Entity PROVE CurrentIsNewest!(i)'
    BY DEF CurrentIsNewest
  <2>1. CASE i = e
    BY <1>5, <1>7, <2>1
  <2>2. CASE i # e
    BY <1>0, <1>5, <1>7, <2>2 DEF CurrentIsNewest
  <2> QED BY <2>1, <2>2
<1>13. AppendHasOneOwner'
  BY <1>0, <1>1, <1>8, <1>9 DEF AppendHasOneOwner, Appending
<1>14. DecisionsAreGrounded'
  <2>1. ASSUME NEW q \in Process \ {p}, At(q, "write") \/ At(q, "append")
        PROVE  DecisionsAreGrounded!(q)'
    <3>1. op[q] \in Frame /\ op[q].entity \in Entity /\ op'[q] = op[q]
      BY <1>0, <1>8, <2>1 DEF At, Frame
    <3>2. /\ op[q].revision \in 1 .. Len(trail[op[q].entity])
          /\ op[q].old = trail[op[q].entity][op[q].revision]
          /\ apply(op[q].transition, op[q].old) # Rejected
          /\ At(q, "append") =>
               /\ op[q].revision < Len(trail[op[q].entity])
               /\ <<op[q].entity, op[q].revision>> \notin lost
      BY <1>0, <2>1 DEF DecisionsAreGrounded
    <3>3. CASE op[q].entity = e
      BY <1>1, <1>4, <1>6, <1>7, <1>8, <3>1, <3>2, <3>3 DEF apply
    <3>4. CASE op[q].entity # e
      BY <1>4, <1>7, <1>8, <3>1, <3>2, <3>4 DEF apply
    <3> QED BY <3>3, <3>4
  <2>2. ASSUME NEW q \in Process \ {p}, ~(At(q, "write") \/ At(q, "append"))
        PROVE  DecisionsAreGrounded!(q)'
    BY <1>8, <2>2
  <2>3. DecisionsAreGrounded!(p)'
    <3>a. r \in 1 .. r
      BY <1>2, <1>6
    <3>1. r \in 1 .. r + 1 /\ r < r + 1 /\ trail'[e][r] = trail[e][r]
      BY <1>7, <3>a
    <3>2. apply(op[p].transition, op[p].old)' # Rejected
      BY <1>2, <1>8 DEF apply
    <3> QED BY <1>2, <1>4, <1>7, <1>8, <1>11, <3>1, <3>2
  <2> QED BY <2>1, <2>2, <2>3 DEF DecisionsAreGrounded
<1>15. HistoryIsTruthful'
  <2> SUFFICES ASSUME NEW row \in history, row.identity \in Entity
               PROVE  /\ row.revision < ActualRevision(row.identity)'
                      /\ row.state = trail'[row.identity][row.revision]
    BY <1>5 DEF HistoryIsTruthful
  <2>1. /\ row.revision \in Nat \ {0}
        /\ row.revision < ActualRevision(row.identity)
        /\ row.state = trail[row.identity][row.revision]
    BY <1>0 DEF HistoryIsTruthful, StoreTypeOK, HistoryRow
  <2>2. CASE row.identity = e
    <3>1. row.revision < r + 1 /\ row.revision \in 1 .. r
      BY <1>1, <1>5, <2>1, <2>2
    <3> QED BY <1>5, <1>7, <2>1, <2>2, <3>1
  <2>3. CASE row.identity # e
    BY <1>5, <1>7, <2>1, <2>3
  <2> QED BY <2>2, <2>3
<1>16. HistoryIsAccountedFor'
  <2> SUFFICES ASSUME NEW i \in Entity, NEW n \in (1 .. ActualRevision(i) - 1)'
               PROVE  HistoryIsAccountedFor!(i)!(n)'
    BY DEF HistoryIsAccountedFor
  <2>1. \A q \in Process : Appending(q, i, n) => Appending(q, i, n)'
    BY <1>1, <1>8 DEF Appending
  <2>2. CASE i = e /\ n = r
    BY <1>8, <2>2 DEF Appending
  <2>3. CASE ~(i = e /\ n = r)
    <3>1. n \in 1 .. ActualRevision(i) - 1
      <4>1. CASE i = e
        BY <1>1, <1>5, <2>3, <4>1
      <4>2. CASE i # e
        BY <1>5, <4>2
      <4> QED BY <4>1, <4>2
    <3> QED BY <1>0, <1>4, <1>5, <2>1, <3>1 DEF HistoryIsAccountedFor
  <2> QED BY <2>2, <2>3
<1>17. AppendNeverCollides'
  <2>1. ASSUME NEW q \in Process \ {p}, At(q, "append")'
        PROVE  ~history_exists(op[q].entity, op[q].revision)'
    BY <1>0, <1>5, <1>8, <2>1 DEF AppendNeverCollides
  <2>2. ~history_exists(op[p].entity, op[p].revision)'
    BY <1>1, <1>5, <1>8, <1>10
  <2> QED BY <2>1, <2>2 DEF AppendNeverCollides
<1>18. LostIsOver'
  <2> SUFFICES ASSUME NEW loss \in lost
               PROVE  loss[2] < ActualRevision(loss[1])'
    BY <1>4 DEF LostIsOver
  <2>1. loss[1] \in Entity /\ loss[2] \in Nat \ {0}
        /\ loss[2] < ActualRevision(loss[1])
    BY <1>0 DEF LostIsOver
  <2>2. CASE loss[1] = e
    BY <1>1, <1>5, <2>1, <2>2
  <2>3. CASE loss[1] # e
    BY <1>5, <2>1, <2>3
  <2> QED BY <2>2, <2>3
<1>19. DomainInv'
  BY <1>0, <1>4, <1>5, <1>7, <1>8, <1>12, <1>13, <1>14, <1>15, <1>16, <1>17,
     <1>18 DEF DomainInv, DomainStrengthening, DomainTypeOK
<1> QED
  BY <1>1, <1>a, <1>b, <1>3, <1>4, <1>6, <1>19 DEF write_current

\* The append of the superseded state, at its own revision.
LEMMA AppendStep ==
    ASSUME DomainInv, NEW p \in Process, record_superseded(p)
    PROVE  DomainInv'
<1>0. /\ StoreTypeOK /\ op \in [Process -> Frame \cup {NoOp}]
      /\ trail \in [Entity -> Seq(EntityState)]
      /\ lost \in SUBSET (Entity \X (Nat \ {0}))
      /\ CurrentIsNewest /\ AppendHasOneOwner /\ DecisionsAreGrounded
      /\ LostIsOver /\ HistoryIsTruthful /\ HistoryIsAccountedFor
      /\ AppendNeverCollides
  BY DEF DomainInv, DomainStrengthening, DomainTypeOK
<1> DEFINE e == op[p].entity
           r == op[p].revision
<1>1. op[p] \in Frame /\ op[p] # NoOp /\ At(p, "append")
      /\ e \in Entity /\ e \in Identity /\ op[p].old \in State /\ r \in Nat
  BY <1>0 DEF record_superseded, At, Frame
<1>2. /\ r \in 1 .. Len(trail[e]) /\ r < Len(trail[e])
      /\ op[p].old = trail[e][r]
  BY <1>0, <1>1 DEF DecisionsAreGrounded
<1>3. r \in Nat \ {0} /\ r < ActualRevision(e)
  BY <1>0, <1>1, <1>2 DEF CurrentIsNewest, ActualRevision
<1>4. append_history(e, r, op[p].old) /\ Finish(p, "ok") /\ trail' = trail
      /\ lost' = lost
  BY DEF record_superseded
<1>5. /\ StoreTypeOK' /\ current' = current
      /\ \A i : ActualRevision(i)' = ActualRevision(i)
      /\ history' = history \cup
           {[identity |-> e, revision |-> r, state |-> op[p].old]}
      /\ \A i, n : history_exists(i, n)' <=>
                     history_exists(i, n) \/ (i = e /\ n = r)
  BY <1>0, <1>1, <1>3, <1>4, AppendEffect
<1>6. /\ op' \in [Process -> Frame \cup {NoOp}]
      /\ ~At(p, "write")' /\ ~At(p, "append")'
      /\ \A q \in Process \ {p} :
           op'[q] = op[q] /\ \A s : At(q, s)' <=> At(q, s)
  BY <1>0, <1>1, <1>4, FinishEffect DEF Outcome
<1>7. CurrentIsNewest' /\ LostIsOver'
  BY <1>0, <1>4, <1>5 DEF CurrentIsNewest, LostIsOver
<1>8. AppendHasOneOwner'
  BY <1>0, <1>6 DEF AppendHasOneOwner, Appending
<1>9. DecisionsAreGrounded'
  BY <1>0, <1>4, <1>6 DEF DecisionsAreGrounded
<1>10. HistoryIsTruthful'
  BY <1>0, <1>2, <1>3, <1>4, <1>5 DEF HistoryIsTruthful
<1>11. HistoryIsAccountedFor'
  <2> SUFFICES ASSUME NEW i \in Entity, NEW n \in 1 .. ActualRevision(i) - 1
               PROVE  HistoryIsAccountedFor!(i)!(n)'
    BY <1>5 DEF HistoryIsAccountedFor
  <2>1. \A q \in Process : Appending(q, i, n) =>
                             Appending(q, i, n)' \/ (i = e /\ n = r)
    BY <1>6 DEF Appending
  <2> QED BY <1>0, <1>4, <1>5, <2>1 DEF HistoryIsAccountedFor
<1>12. AppendNeverCollides'
  <2> SUFFICES ASSUME NEW q \in Process, At(q, "append")'
               PROVE  ~history_exists(op[q].entity, op[q].revision)'
    BY DEF AppendNeverCollides
  <2>1. q # p /\ op'[q] = op[q] /\ At(q, "append")
    BY <1>6
  <2>2. ~(op[q].entity = e /\ op[q].revision = r)
    BY <1>0, <1>1, <2>1 DEF AppendHasOneOwner, Appending
  <2>3. ~history_exists(op[q].entity, op[q].revision)
    BY <1>0, <2>1 DEF AppendNeverCollides
  <2>4. ~(\E row \in history' : /\ row.identity = op[q].entity
                                /\ row.revision = op[q].revision)
    BY <1>5, <2>2, <2>3 DEF history_exists
  <2> QED BY <2>1, <2>4 DEF history_exists
<1> QED
  BY <1>0, <1>4, <1>5, <1>6, <1>7, <1>8, <1>9, <1>10, <1>11, <1>12
     DEF DomainInv, DomainStrengthening, DomainTypeOK

----------------------------------------------------------------------------
\* Initially nothing is stored and nobody is in a call.
LEMMA DomainInvInit == DomainInit => DomainInv
<1> SUFFICES ASSUME DomainInit PROVE DomainInv
  OBVIOUS
<1>1. /\ current = [i \in Identity |-> NoRow] /\ history = {} /\ lost = {}
      /\ op = [p \in Process |-> NoOp] /\ trail = [e \in Entity |-> <<>>]
  BY DEF DomainInit, StoreInit
<1>2. \A p \in Process : \A s : ~At(p, s)
  BY <1>1 DEF At
<1>3. \A e \in Entity : current[e] = NoRow /\ ActualRevision(e) = 0
  BY <1>1 DEF ActualRevision
<1>4. DomainTypeOK
  BY <1>1 DEF DomainTypeOK, StoreTypeOK
<1>5. CurrentIsNewest /\ AppendHasOneOwner /\ DecisionsAreGrounded /\ LostIsOver
  BY <1>1, <1>2, <1>3
     DEF CurrentIsNewest, AppendHasOneOwner, DecisionsAreGrounded, LostIsOver
<1>6. HistoryIsTruthful /\ HistoryIsAccountedFor /\ AppendNeverCollides
  BY <1>1, <1>2, <1>3
     DEF HistoryIsTruthful, HistoryIsAccountedFor, AppendNeverCollides
<1> QED
  BY <1>4, <1>5, <1>6 DEF DomainInv, DomainStrengthening

\* Every step keeps the invariant: one case per action of the protocol.
LEMMA DomainInvStep == DomainInv /\ [DomainNext]_domainVars => DomainInv'
<1> SUFFICES ASSUME DomainInv, [DomainNext]_domainVars PROVE DomainInv'
  OBVIOUS
<1>0. op \in [Process -> Frame \cup {NoOp}]
  BY DEF DomainInv, DomainTypeOK
<1>1. CASE UNCHANGED domainVars
  <2>1. /\ current' = current /\ history' = history /\ op' = op
        /\ trail' = trail /\ lost' = lost
    BY <1>1 DEF domainVars
  <2>2. /\ \A i : ActualRevision(i)' = ActualRevision(i)
        /\ \A i, n : history_exists(i, n)' <=> history_exists(i, n)
        /\ \A q, s : At(q, s)' <=> At(q, s)
        /\ \A q, i, n : Appending(q, i, n)' <=> Appending(q, i, n)
    BY <2>1 DEF ActualRevision, history_exists, At, Appending
  <2>3. DomainTypeOK'
    BY <2>1 DEF DomainInv, DomainTypeOK, StoreTypeOK
  <2>4. CurrentIsNewest' /\ AppendHasOneOwner' /\ LostIsOver'
    BY <2>1, <2>2 DEF DomainInv, DomainStrengthening, CurrentIsNewest,
       AppendHasOneOwner, LostIsOver
  <2>5. DecisionsAreGrounded'
    BY <2>1, <2>2 DEF DomainInv, DomainStrengthening, DecisionsAreGrounded, apply
  <2>6. HistoryIsTruthful' /\ HistoryIsAccountedFor' /\ AppendNeverCollides'
    BY <2>1, <2>2 DEF DomainInv, HistoryIsTruthful, HistoryIsAccountedFor,
       AppendNeverCollides
  <2> QED
    BY <2>3, <2>4, <2>5, <2>6 DEF DomainInv, DomainStrengthening
<1>2. ASSUME NEW e \in Entity, create(e) PROVE DomainInv'
  BY <1>2, CreateStep
<1>3. ASSUME NEW p \in Process, NEW e \in Entity, NEW t \in Transition,
             begin(p, e, t)
      PROVE  DomainInv'
  <2> DEFINE f == [entity |-> e, transition |-> t, stage |-> "read",
                   revision |-> 0, old |-> Initial]
  <2>1. f \in Frame /\ f # NoOp
    BY NoOpAssumption DEF Frame, Running
  <2>2. op' = [op EXCEPT ![p] = f] /\ op[p] = NoOp
        /\ UNCHANGED <<store, trail, lost>>
    BY <1>3 DEF begin
  <2>3. op' \in [Process -> Frame \cup {NoOp}] /\ op'[p] = f
        /\ \A q \in Process \ {p} : op'[q] = op[q]
    BY <1>0, <2>1, <2>2
  <2>4. ~At(p, "write")' /\ ~At(p, "append")' /\ LostBy(p) = {}
    BY <2>2, <2>3 DEF At, LostBy
  <2> QED BY <2>2, <2>3, <2>4, FrameOnly
<1>4. ASSUME NEW p \in Process, read_and_apply(p) PROVE DomainInv'
  BY <1>4, ReadStep
<1>5. ASSUME NEW p \in Process, swap(p) PROVE DomainInv'
  BY <1>5, SwapStep
<1>6. ASSUME NEW p \in Process, lose_race(p) PROVE DomainInv'
  <2>1. op[p] # NoOp /\ Finish(p, "conflict") /\ UNCHANGED <<store, trail>>
        /\ lost' = lost /\ LostBy(p) = {}
    BY <1>6 DEF lose_race, At, LostBy
  <2> QED BY <1>0, <2>1, FinishEffect, FrameOnly DEF Outcome
<1>7. ASSUME NEW p \in Process, record_superseded(p) PROVE DomainInv'
  BY <1>7, AppendStep
<1>8. ASSUME NEW p \in Process, store_error(p) PROVE DomainInv'
  <2>1. op[p] # NoOp /\ Finish(p, "failed") /\ UNCHANGED <<store, trail>>
        /\ lost' = lost \cup LostBy(p)
    BY <1>8 DEF store_error
  <2> QED BY <1>0, <2>1, FinishEffect, FrameOnly DEF Outcome
<1>9. ASSUME NEW p \in Process, return(p) \/ abandon(p) PROVE DomainInv'
  <2>1. op' = [op EXCEPT ![p] = NoOp] /\ UNCHANGED <<store, trail>>
        /\ lost' = lost \cup LostBy(p)
    BY <1>9 DEF return, abandon, LostBy, At, Outcome
  <2>2. op' \in [Process -> Frame \cup {NoOp}] /\ op'[p] = NoOp
        /\ \A q \in Process \ {p} : op'[q] = op[q]
    BY <1>0, <2>1
  <2>3. ~At(p, "write")' /\ ~At(p, "append")'
    BY <2>2 DEF At
  <2> QED BY <2>1, <2>2, <2>3, FrameOnly
<1> QED
  BY <1>1, <1>2, <1>3, <1>4, <1>5, <1>6, <1>7, <1>8, <1>9
     DEF DomainNext, CallStep

\* The protocol keeps its inductive invariant.
THEOREM DomainInvariant == DomainSpec => []DomainInv
<1>1. DomainInit => DomainInv
  BY DomainInvInit
<1>2. DomainInv /\ [DomainNext]_domainVars => DomainInv'
  BY DomainInvStep
<1> QED
  BY <1>1, <1>2, PTL DEF DomainSpec

\* Type correctness of the protocol (the rows apply_*_transition stores,
\* the frames of its callers).
THEOREM DomainTypes == DomainSpec => []DomainTypeOK
<1>1. DomainInv => DomainTypeOK
  BY DEF DomainInv
<1> QED
  BY <1>1, DomainInvariant, PTL

\* apply_*_transition never records a false history: a historical record is
\* the state the entity had at that revision, for every interleaving, crash
\* and store error.
THEOREM HistoryTruth == DomainSpec => []HistoryIsTruthful
<1>1. DomainInv => HistoryIsTruthful
  BY DEF DomainInv
<1> QED
  BY <1>1, DomainInvariant, PTL

\* The only way a superseded state is missing from the history is that its
\* append failed or its process died (or is still about to append).
THEOREM HistoryAccounting == DomainSpec => []HistoryIsAccountedFor
<1>1. DomainInv => HistoryIsAccountedFor
  BY DEF DomainInv
<1> QED
  BY <1>1, DomainInvariant, PTL

\* append_history after a won write_current never meets HistoryAlreadyExists.
THEOREM NoCollision == DomainSpec => []AppendNeverCollides
<1>1. DomainInv => AppendNeverCollides
  BY DEF DomainInv
<1> QED
  BY <1>1, DomainInvariant, PTL

----------------------------------------------------------------------------
\* A step of the protocol is a step of the atomic lifecycle, or changes no
\* current state at all.
LEMMA RefinementStep ==
    ASSUME DomainInv, [DomainNext]_domainVars
    PROVE  [L!Next]_StoredState
<1>0. current \in [Identity -> Row \cup {NoRow}] /\ NoRow \notin EntityState
  BY NoRowAssumption DEF DomainInv, DomainTypeOK, StoreTypeOK
<1>1. CASE current' = current
  BY <1>1 DEF StoredState
<1>2. ASSUME NEW e \in Entity, create(e) PROVE L!Next
  <2>1. current[e] = NoRow
    BY <1>0, <1>2 DEF create, write_current, write_conflicts,
       ActualRevision, Row
  <2>2. current' = [current EXCEPT ![e] = [revision |-> 0 + 1, state |-> Initial]]
    BY <1>2 DEF create, write_current
  <2>a. [revision |-> 0 + 1, state |-> Initial] # NoRow
    BY NoRowAssumption
  <2>3. StoredState' = [StoredState EXCEPT ![e] = Initial]
    BY <1>0, <2>2, <2>a DEF StoredState
  <2>4. L!create(e)
    BY <2>1, <2>3 DEF L!create, StoredState
  <2> QED BY <2>4 DEF L!Next
<1>3. ASSUME NEW p \in Process, swap(p) PROVE L!Next
  <2> PICK e \in Entity, t \in Transition, s \in EntityState,
           new \in EntityState :
         /\ e = op[p].entity /\ t = op[p].transition /\ s = op[p].old
         /\ new = apply(t, s) /\ current[e] # NoRow /\ current[e].state = s
         /\ current' = [current EXCEPT ![e] =
              [revision |-> op[p].revision + 1, state |-> new]]
    <3>1. op[p] \in Frame
      BY <1>3 DEF DomainInv, DomainTypeOK, swap, At
    <3>2. op[p].old \in EntityState
      BY <3>1 DEF Frame
    <3>3. /\ op[p].entity \in Entity /\ op[p].transition \in Transition
          /\ current[op[p].entity] # NoRow
          /\ current[op[p].entity].state = op[p].old
          /\ apply(op[p].transition, op[p].old) \in EntityState
          /\ current' = [current EXCEPT ![op[p].entity] =
               [revision |-> op[p].revision + 1,
                state |-> apply(op[p].transition, op[p].old)]]
      BY <1>3, SwapStep
    <3> QED BY <3>2, <3>3
  <2>1. op[p].revision \in Nat
    BY <1>3 DEF DomainInv, DomainTypeOK, swap, At, Frame
  <2>2. [revision |-> op[p].revision + 1, state |-> new] # NoRow
    BY <2>1, NoRowAssumption
  <2>3. StoredState' = [StoredState EXCEPT ![e] = new]
    BY <1>0, <2>2 DEF StoredState
  <2>4. StoredState[e] = s /\ s # NoRow /\ Apply[t][s] = new /\ new # Rejected
    BY <1>0 DEF StoredState, apply
  <2>5. L!apply(e, t)
    BY <2>3, <2>4 DEF L!apply
  <2> QED BY <2>5 DEF L!Next
<1> QED
  BY <1>1, <1>2, <1>3
     DEF DomainNext, domainVars, CallStep, begin, read_and_apply, lose_race,
         record_superseded, append_history, store_error, return, abandon, store

\* For every lifecycle, the read / compare-and-swap / append protocol of
\* apply_*_transition implements the atomic `current state + explicit
\* transition -> new current state' contract of domain_state.rs.
THEOREM DomainRefinesLifecycle == DomainSpec => AtomicLifecycle
<1>1. DomainInit => L!Init
  BY DEF DomainInit, StoreInit, L!Init, StoredState
<1>2. DomainInv /\ [DomainNext]_domainVars => [L!Next]_StoredState
  BY RefinementStep
<1> QED
  BY <1>1, <1>2, DomainInvariant, PTL DEF DomainSpec, AtomicLifecycle, L!Spec

============================================================================
