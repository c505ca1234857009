---------------------------- MODULE DomainState ----------------------------
(***************************************************************************)
(* The durable transition protocol shared by watches and authenticated     *)
(* sessions (apply_watch_transition, apply_session_transition): read the   *)
(* current row, run the pure CurrentState::apply on the copy, write the    *)
(* result with a compare-and-swap on the revision that was read, and only  *)
(* then append the superseded state to the history.  These are three       *)
(* independent calls of the store: other processes run in between, a call  *)
(* may fail, and the process may die.                                      *)
(*                                                                         *)
(* The module is generic in the lifecycle, as domain_state.rs is: Apply is *)
(* the pure transition function, a parameter.                              *)
(***************************************************************************)
EXTENDS DomainPersistence, Sequences

CONSTANTS
    Process,        \* concurrent callers: tasks, or processes on one file
    Entity,         \* the identities that have this lifecycle
    EntityState, Transition, Initial, Rejected, Apply,
    NoOp,           \* the process is not in a transition call
    MaxRevision     \* bound: no transition is begun at this revision

ASSUME EntityAssumption ==
    Entity \subseteq Identity /\ EntityState \subseteq State
ASSUME ApplyAssumption ==
    /\ Initial \in EntityState
    /\ Rejected \notin EntityState
    /\ Apply \in [Transition -> [EntityState -> EntityState \cup {Rejected}]]
ASSUME RevisionBoundAssumption == MaxRevision \in Nat

VARIABLES
    op,       \* each process's call in progress
    trail,    \* auxiliary: every state an entity was ever in, by revision
    lost      \* auxiliary: superseded states whose append never happened

domainVars == <<current, history, op, trail, lost>>

Running == {"read", "write", "append"}
Outcome == {"ok", "not_found", "rejected", "conflict", "failed"}

Frame == [entity : Entity, transition : Transition,
          stage : Running \cup Outcome, revision : Nat, old : EntityState]

ASSUME NoOpAssumption == NoOp \notin Frame

DomainInit ==
    /\ StoreInit
    /\ op = [p \in Process |-> NoOp]
    /\ trail = [e \in Entity |-> <<>>]
    /\ lost = {}

At(p, stage) == op[p] # NoOp /\ op[p].stage = stage

Appending(p, e, revision) ==
    At(p, "append") /\ op[p].entity = e /\ op[p].revision = revision

\* The call of p goes on, or (Finish) returns to its caller.
Move(p, stage, revision, old) ==
    op' = [op EXCEPT ![p] = [entity |-> op[p].entity,
                             transition |-> op[p].transition, stage |-> stage,
                             revision |-> revision, old |-> old]]

Finish(p, outcome) == Move(p, outcome, 0, Initial)

\* What is never going to be appended when p stops here.
LostBy(p) == IF At(p, "append") THEN {<<op[p].entity, op[p].revision>>} ELSE {}

----------------------------------------------------------------------------
\* CurrentState::apply: the new state, or Rejected and nothing changes.
apply(transition, state) == Apply[transition][state]

\* A first write; identities are freshly minted, so nobody else writes it.
create(e) ==
    /\ write_current(e, 0, Initial)
    /\ trail' = [trail EXCEPT ![e] = <<Initial>>]
    /\ UNCHANGED <<op, lost>>

begin(p, e, t) ==
    /\ op[p] = NoOp
    /\ ActualRevision(e) < MaxRevision
    /\ op' = [op EXCEPT ![p] = [entity |-> e, transition |-> t,
                                stage |-> "read", revision |-> 0,
                                old |-> Initial]]
    /\ UNCHANGED <<store, trail, lost>>

\* read_current and the pure decision on the copy that was read.
read_and_apply(p) ==
    /\ At(p, "read")
    /\ LET row == read_current(op[p].entity)
       IN  \/ row = NoRow /\ Finish(p, "not_found")
           \/ /\ row # NoRow
              /\ apply(op[p].transition, row.state) = Rejected
              /\ Finish(p, "rejected")
           \/ /\ row # NoRow
              /\ apply(op[p].transition, row.state) # Rejected
              /\ Move(p, "write", row.revision, row.state)
    /\ UNCHANGED <<store, trail, lost>>

\* Plausible bug: the superseded state is not appended.
swap_without_append(p) ==
    /\ At(p, "write")
    /\ LET f == op[p]
           new == apply(f.transition, f.old)
       IN  /\ write_current(f.entity, f.revision, new)
           /\ trail' = [trail EXCEPT ![f.entity] = Append(@, new)]
    /\ Finish(p, "ok")
    /\ UNCHANGED lost

\* Plausible bug: on a conflict the write is retried on the new revision
\* without deciding again.
swap_with_fresh_revision(p) ==
    /\ At(p, "write")
    /\ LET f == op[p]
           new == apply(f.transition, f.old)
       IN  /\ write_current(f.entity, ActualRevision(f.entity), new)
           /\ trail' = [trail EXCEPT ![f.entity] = Append(@, new)]
    /\ Finish(p, "ok")
    /\ lost' = lost \cup {<<op[p].entity, ActualRevision(op[p].entity)>>}

\* write_current against the revision that was read.
swap(p) ==
    /\ At(p, "write")
    /\ LET f == op[p]
           new == apply(f.transition, f.old)
       IN  /\ write_current(f.entity, f.revision, new)
           /\ trail' = [trail EXCEPT ![f.entity] = Append(@, new)]
    /\ Move(p, "append", op[p].revision, op[p].old)
    /\ UNCHANGED lost

\* CurrentStateConflict: reported as ConcurrentModification, never retried.
lose_race(p) ==
    /\ At(p, "write")
    /\ write_conflicts(op[p].entity, op[p].revision)
    /\ Finish(p, "conflict")
    /\ UNCHANGED <<store, trail, lost>>

\* Plausible bugs: the superseded state is filed under the revision of its
\* successor, a finished append is retried.
record_under_successor(p) ==
    /\ At(p, "append")
    /\ append_history(op[p].entity, op[p].revision + 1, op[p].old)
    /\ Finish(p, "ok")
    /\ UNCHANGED <<trail, lost>>

record_again(p) ==
    /\ At(p, "append")
    /\ append_history(op[p].entity, op[p].revision, op[p].old)
    /\ UNCHANGED <<op, trail, lost>>

\* append_history of the superseded state, at the revision it had.
record_superseded(p) ==
    /\ At(p, "append")
    /\ append_history(op[p].entity, op[p].revision, op[p].old)
    /\ Finish(p, "ok")
    /\ UNCHANGED <<trail, lost>>

\* A Backend error of whichever store call is next; nothing is undone.
store_error(p) ==
    /\ op[p] # NoOp /\ op[p].stage \in Running
    /\ Finish(p, "failed")
    /\ lost' = lost \cup LostBy(p)
    /\ UNCHANGED <<store, trail>>

return(p) ==
    /\ op[p] # NoOp /\ op[p].stage \in Outcome
    /\ op' = [op EXCEPT ![p] = NoOp]
    /\ UNCHANGED <<store, trail, lost>>

\* The process dies inside the call.
abandon(p) ==
    /\ op[p] # NoOp
    /\ op' = [op EXCEPT ![p] = NoOp]
    /\ lost' = lost \cup LostBy(p)
    /\ UNCHANGED <<store, trail>>

CallStep(p) ==
    \/ read_and_apply(p) \/ swap(p) \/ lose_race(p) \/ record_superseded(p)

DomainNext ==
    \/ \E e \in Entity : create(e)
    \/ \E p \in Process :
         \/ \E e \in Entity, t \in Transition : begin(p, e, t)
         \/ CallStep(p) \/ store_error(p) \/ return(p) \/ abandon(p)

DomainSpec == DomainInit /\ [][DomainNext]_domainVars

----------------------------------------------------------------------------
\* Type correctness of the store, the trail and every call in progress.
DomainTypeOK ==
    /\ StoreTypeOK
    /\ op \in [Process -> Frame \cup {NoOp}]
    /\ trail \in [Entity -> Seq(EntityState)]
    /\ lost \in SUBSET (Entity \X (Nat \ {0}))

\* The current row is the newest entry of the trail: each successful
\* compare-and-swap moved the entity exactly one revision on.
CurrentIsNewest ==
    \A e \in Entity :
        IF current[e] = NoRow
          THEN trail[e] = <<>>
          ELSE /\ current[e].revision = Len(trail[e])
               /\ current[e].state = trail[e][Len(trail[e])]

\* A historical record says what the entity really was at that revision, and
\* only of revisions that are over -- however the appends of concurrent
\* transitions were reordered or delayed.
HistoryIsTruthful ==
    \A row \in history : row.identity \in Entity =>
        /\ row.revision < ActualRevision(row.identity)
        /\ row.state = trail[row.identity][row.revision]

\* No superseded state disappears silently: every revision that is over is
\* in the history, is about to be appended by the one process that
\* superseded it, or was lost with a failed append or a dead process.
HistoryIsAccountedFor ==
    \A e \in Entity : \A r \in 1 .. ActualRevision(e) - 1 :
        \/ history_exists(e, r)
        \/ <<e, r>> \in lost
        \/ \E p \in Process : Appending(p, e, r)

\* The append after a won compare-and-swap never meets an existing record:
\* apply_*_transition cannot fail with HistoryAlreadyExists.
AppendNeverCollides ==
    \A p \in Process :
        At(p, "append") => ~history_exists(op[p].entity, op[p].revision)

\* Superseded states are appended by one process only.
AppendHasOneOwner ==
    \A p, q \in Process :
        At(p, "append") /\ Appending(q, op[p].entity, op[p].revision) => p = q

\* A call between its read and its write decided on a state the entity had.
DecisionsAreGrounded ==
    \A p \in Process :
        /\ At(p, "write") \/ At(p, "append") =>
             /\ op[p].revision \in 1 .. Len(trail[op[p].entity])
             /\ op[p].old = trail[op[p].entity][op[p].revision]
             /\ apply(op[p].transition, op[p].old) # Rejected
        /\ At(p, "append") =>
             /\ op[p].revision < Len(trail[op[p].entity])
             /\ <<op[p].entity, op[p].revision>> \notin lost

\* Only a revision that is over can be lost.
LostIsOver == \A loss \in lost : loss[2] < ActualRevision(loss[1])

\* What a process in the middle of a call relies on; with the properties
\* above it is inductive.
DomainStrengthening ==
    /\ CurrentIsNewest /\ AppendHasOneOwner
    /\ DecisionsAreGrounded /\ LostIsOver

DomainInv ==
    /\ DomainTypeOK /\ DomainStrengthening
    /\ HistoryIsTruthful /\ HistoryIsAccountedFor /\ AppendNeverCollides

\* The compare-and-swap makes the three-call protocol atomic: seen through
\* the current row alone, every transition was applied to the state the
\* entity was in at that very step, and a rejected or raced one had no effect.
StoredState ==
    [e \in Entity |-> IF current[e] = NoRow THEN NoRow ELSE current[e].state]

L == INSTANCE Lifecycle WITH Absent <- NoRow, state <- StoredState

AtomicLifecycle == L!Spec

============================================================================
