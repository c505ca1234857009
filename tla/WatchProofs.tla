---------------------------- MODULE WatchProofs ----------------------------
(***************************************************************************)
(* Scheduled execution, for any number of processes, watches, ticks and    *)
(* pieces of evidence: a tick is fetched at most once and by the owner of  *)
(* its claim, a completed run stands for recorded and observed evidence,   *)
(* and every caller of one tick is given the same answer -- whatever store *)
(* calls fail and wherever processes die.  Change detection: an event      *)
(* relates evidence the watch observed, and its verdict is true.  Health:  *)
(* an assessment meets the observations of a watch in their order.         *)
(***************************************************************************)
EXTENDS WatchInsight, FiniteSetTheorems, TLAPS

\* The steps of a run that has minted its evidence.
EvidenceSteps == {"record", "observe", "observing", "complete"}

Recorded(e) == D!history_exists(e, 1)

\* The evidence a state of a watch names, if any, is in the ledger.
Resolvable(s) == s.value # Nothing => Recorded(s.value)

HasObserved(w, e) == \E r \in 1 .. Len(trail[w]) : trail[w][r] = Active(e)

\* Type correctness, as far as the proofs need it; the state of a watch is a
\* watch state, and its trail starts with its first row.
ScheduleTypes ==
    /\ current \in [Key -> D!Row \cup {NoRow}]
    /\ op \in [Process -> D!Frame \cup {NoOp}]
    /\ trail \in [WatchId -> Seq(WatchState)]
    /\ task \in [Process -> Task \cup {NoTask}]
    /\ fetches \in [Run -> Nat]
    /\ \A w \in WatchId :
         IF current[w] = NoRow THEN trail[w] = <<>>
                               ELSE current[w].state \in WatchState

\* A run knows its tick, and its evidence once it is minted.  The transition
\* in progress is the one its task asked for.
TaskHas(p) ==
    /\ task[p] # NoTask =>
         /\ task[p].step \in RunSteps => task[p].tick \in Tick
         /\ task[p].step \in EvidenceSteps => task[p].evidence \in Evidence
    /\ op[p] # NoOp =>
         /\ task[p] # NoTask
         /\ op[p].entity = task[p].watch
         /\ \/ /\ task[p].step = "observing"
               /\ op[p].transition = ObserveEvidence(task[p].evidence)
            \/ task[p].step = "apply" /\ op[p].transition = StopWatch
         /\ op[p].stage = "write" => op[p].old.kind = "Active"

TaskIsSound == \A p \in Process : TaskHas(p)

\* The record of a run and the count of its fetches say the same.
RunIsSound(run) ==
    /\ fetches[run] <= 1
    /\ RunRow(run) = NoRow => fetches[run] = 0
    /\ RunRow(run) # NoRow =>
         \/ RunRow(run).revision = 1 /\ RunRow(run).state = Claimed
         \/ /\ RunRow(run).revision = 2
            /\ \E e \in Evidence : RunRow(run).state = Completed(e)

\* An owner has not fetched before its fetch; a loser lost to a record.
ClaimantIsSound(p) ==
    /\ AtStep(p, "fetch") => fetches[TaskRun(p)] = 0
    /\ AtStep(p, "replay") => RunRow(TaskRun(p)) # NoRow

\* An answer is what the record of the run says.
AnswerIsStored(a) ==
    /\ <<a[1], a[2]>> \in Run
    /\ RunRow(<<a[1], a[2]>>) # NoRow
    /\ RunRow(<<a[1], a[2]>>).state = Completed(a[3])

ClaimsAreSound ==
    /\ \A run \in Run : RunIsSound(run)
    /\ ClaimIsExclusive
    /\ \A p \in Process : ClaimantIsSound(p)
    /\ \A a \in answers : AnswerIsStored(a)

\* Every state of a watch, stored, past or decided on, names evidence of the
\* ledger.
StatesAreResolvable ==
    /\ \A w \in WatchId : current[w] # NoRow => Resolvable(current[w].state)
    /\ \A w \in WatchId : \A r \in 1 .. Len(trail[w]) : Resolvable(trail[w][r])
    /\ \A p \in Process : op[p] # NoOp /\ op[p].stage = "write" =>
         Resolvable(op[p].old)

\* Evidence belongs to one run.
HasMinted(p) == task[p] # NoTask /\ task[p].step \in EvidenceSteps

EvidenceIsOwned ==
    \A p, q \in Process :
        HasMinted(p) /\ HasMinted(q)
          /\ task[p].evidence = task[q].evidence => p = q

\* The transition of p has not written yet, or has.
NotYetObserved(p) ==
    \/ AtStep(p, "observe")
    \/ AtStep(p, "observing") /\ op[p] # NoOp /\ op[p].stage \in {"read", "write"}

AlreadyObserved(p) ==
    \/ AtStep(p, "complete")
    \/ AtStep(p, "observing") /\ op[p] # NoOp /\ op[p].stage \in {"append", "ok"}

\* Evidence is recorded, then observed once, then named by the run's record.
ObservationIsSound(p) ==
    /\ AtStep(p, "observe") \/ AtStep(p, "observing") \/ AtStep(p, "complete")
         => Recorded(task[p].evidence)
    /\ NotYetObserved(p) =>
         \A w \in WatchId : ~HasObserved(w, task[p].evidence)
    /\ AlreadyObserved(p) => HasObserved(task[p].watch, task[p].evidence)

ObservedOnce ==
    \A w \in WatchId : \A r, s \in 1 .. Len(trail[w]) :
        trail[w][r] = trail[w][s] /\ trail[w][r].kind = "Active"
          /\ trail[w][r].value # Nothing => r = s

EvidenceIsSound ==
    /\ StatesAreResolvable /\ EvidenceIsOwned /\ ObservedOnce
    /\ \A p \in Process : ObservationIsSound(p)
    /\ CompletedRunIsBacked

ScheduleInv ==
    ScheduleTypes /\ TaskIsSound /\ ClaimsAreSound /\ EvidenceIsSound

----------------------------------------------------------------------------
\* The pure transition: a stopped watch accepts nothing.
LEMMA WatchApplyEffect ==
    ASSUME NEW t \in WatchTransition, NEW s \in WatchState
    PROVE  /\ s.kind = "Active" \/ s.kind = "Stopped"
           /\ s.kind = "Stopped" => WatchApply[t][s] = Rejected
           /\ s.kind = "Active" /\ t = StopWatch =>
                WatchApply[t][s] = Stopped(s.value)
           /\ \A e : s.kind = "Active" /\ t = ObserveEvidence(e) =>
                WatchApply[t][s] = Active(e)
           /\ s.kind = "Active" => WatchApply[t][s] \in WatchState
  BY DEF WatchApply, WatchTransition, WatchState, Active, Stopped, Payload,
     StopWatch, ObserveEvidence, last_evidence

\* A payload is one of the two lifecycle states, or a record of a run.
LEMMA Payloads ==
    /\ Active(Nothing) \in WatchState /\ Claimed \in StoredPayload
    /\ \A e \in Evidence : /\ Active(e) \in WatchState
                           /\ Completed(e) \in StoredPayload
                           /\ Completed(e).value = e /\ Completed(e) # Claimed
                           /\ ObserveEvidence(e) \in WatchTransition
    /\ StopWatch \in WatchTransition
    /\ WatchState \subseteq StoredPayload
    /\ \A e : Active(e).value = e /\ Stopped(e).value = e
              /\ Active(e).kind = "Active" /\ Stopped(e).kind = "Stopped"
  BY DEF WatchState, StoredPayload, RunRecord, Active, Stopped, Payload,
     Completed, Claimed, ObserveEvidence, StopWatch, WatchTransition

\* A run key is a key of the store and no watch.
LEMMA RunKeys ==
    /\ \A run \in Run : <<"run", run[1], run[2]>> \in Key \ WatchId
    /\ \A a, b \in Run : <<"run", a[1], a[2]>> = <<"run", b[1], b[2]>> => a = b
    /\ \A w \in WatchId : \A t \in Tick :
         /\ <<w, unix_seconds(t)>> \in Run
         /\ run_key(w, t) = <<"run", w, unix_seconds(t)>>
    /\ WatchId \subseteq Key
  BY KeyAssumption DEF Run, Key, DerivedKey, run_key

----------------------------------------------------------------------------
\* The write of apply_watch_transition.
CallWrites(p, new) ==
    /\ op[p].stage = "write" /\ op'[p].stage = "append"
    /\ D!ActualRevision(op[p].entity) = op[p].revision
    /\ new = WatchApply[op[p].transition][op[p].old]
    /\ current' = [current EXCEPT ![op[p].entity] =
                      [revision |-> op[p].revision + 1, state |-> new]]
    /\ trail' = [trail EXCEPT ![op[p].entity] = Append(@, new)]
    /\ history' = history

\* What a step inside apply_watch_transition does.
LEMMA CallEffect ==
    ASSUME ScheduleTypes, NEW p \in Process, TaskHas(p), transition_step(p)
    PROVE  /\ op[p] \in D!Frame /\ op[p] # NoOp /\ task' = task
           /\ op' \in [Process -> D!Frame \cup {NoOp}]
           /\ \A q \in Process \ {p} : op'[q] = op[q]
           /\ op'[p].entity = op[p].entity
           /\ op'[p].transition = op[p].transition
           /\ \/ /\ op[p].stage = "read"
                 /\ op'[p].stage \in {"not_found", "rejected", "write"}
                 /\ op'[p].stage = "write" =>
                      /\ current[op[p].entity] # NoRow
                      /\ op'[p].old = current[op[p].entity].state
                      /\ op'[p].old.kind = "Active"
                 /\ UNCHANGED <<current, history, trail>>
              \/ /\ op[p].stage = "write" /\ op'[p].stage = "conflict"
                 /\ UNCHANGED <<current, history, trail>>
              \/ \E new \in WatchState : CallWrites(p, new)
              \/ /\ op[p].stage = "append" /\ op'[p].stage = "ok"
                 /\ history \subseteq history'
                 /\ UNCHANGED <<current, trail>>
<1>0. op[p] # NoOp /\ task' = task
  BY DEF transition_step, D!CallStep, D!read_and_apply, D!swap, D!lose_race,
     D!record_superseded, D!At
<1>1. op[p] \in D!Frame
  BY <1>0 DEF ScheduleTypes
<1>2. /\ op[p].entity \in WatchId /\ op[p].transition \in WatchTransition
      /\ op[p].old \in WatchState /\ op[p].revision \in Nat
  BY <1>1 DEF D!Frame
<1>3. op \in [Process -> D!Frame \cup {NoOp}]
  BY DEF ScheduleTypes
<1>4. ASSUME NEW stage \in D!Running \cup D!Outcome, NEW r \in Nat,
             NEW old \in WatchState, D!Move(p, stage, r, old)
      PROVE  /\ op' \in [Process -> D!Frame \cup {NoOp}]
             /\ \A q \in Process \ {p} : op'[q] = op[q]
             /\ op'[p].entity = op[p].entity
             /\ op'[p].transition = op[p].transition
             /\ op'[p].stage = stage /\ op'[p].old = old
  <2> DEFINE f == [entity |-> op[p].entity, transition |-> op[p].transition,
                   stage |-> stage, revision |-> r, old |-> old]
  <2>1. f \in D!Frame
    BY <1>2 DEF D!Frame
  <2>2. op' = [op EXCEPT ![p] = f]
    BY <1>4 DEF D!Move
  <2> QED BY <1>3, <2>1, <2>2
<1>5. CASE D!read_and_apply(p)
  <2>1. CASE op[p].stage = "read" /\ D!Finish(p, "not_found")
    BY <1>0, <1>1, <1>4, <1>5, <2>1, Payloads
       DEF D!read_and_apply, D!Finish, D!Outcome, D!store
  <2>2. CASE op[p].stage = "read" /\ D!Finish(p, "rejected")
    BY <1>0, <1>1, <1>4, <1>5, <2>2, Payloads
       DEF D!read_and_apply, D!Finish, D!Outcome, D!store
  <2>3. CASE /\ op[p].stage = "read" /\ current[op[p].entity] # NoRow
             /\ D!apply(op[p].transition, current[op[p].entity].state) # Rejected
             /\ D!Move(p, "write", current[op[p].entity].revision,
                       current[op[p].entity].state)
    <3>1. /\ current[op[p].entity].state \in WatchState
          /\ current[op[p].entity].revision \in Nat
      BY <1>2, <2>3, RunKeys DEF ScheduleTypes, D!Row
    <3>2. current[op[p].entity].state.kind = "Active"
      BY <1>2, <2>3, <3>1, WatchApplyEffect DEF D!apply
    <3>3. UNCHANGED <<current, history, trail>>
      BY <1>5 DEF D!read_and_apply, D!store
    <3> QED
      BY <1>0, <1>1, <1>4, <2>3, <3>1, <3>2, <3>3 DEF D!Running
  <2> QED
    BY <1>5, <2>1, <2>2, <2>3
       DEF D!read_and_apply, D!At, D!read_current
<1>6. CASE D!swap(p)
  <2>1. /\ op[p].stage = "write"
        /\ D!write_current(op[p].entity, op[p].revision,
                           D!apply(op[p].transition, op[p].old))
        /\ trail' = [trail EXCEPT ![op[p].entity] =
             Append(@, D!apply(op[p].transition, op[p].old))]
        /\ D!Move(p, "append", op[p].revision, op[p].old)
    BY <1>6 DEF D!swap, D!At
  <2>2. WatchApply[op[p].transition][op[p].old] \in WatchState
    BY <1>0, <1>2, <2>1, WatchApplyEffect DEF TaskHas
  <2>3. /\ history' = history
        /\ D!ActualRevision(op[p].entity) = op[p].revision
        /\ current' = [current EXCEPT ![op[p].entity] =
             [revision |-> op[p].revision + 1,
              state |-> WatchApply[op[p].transition][op[p].old]]]
        /\ trail' = [trail EXCEPT ![op[p].entity] =
             Append(@, WatchApply[op[p].transition][op[p].old])]
    BY <2>1 DEF D!write_current, D!write_conflicts, D!apply
  <2>4. /\ op' \in [Process -> D!Frame \cup {NoOp}]
        /\ \A q \in Process \ {p} : op'[q] = op[q]
        /\ op'[p].entity = op[p].entity
        /\ op'[p].transition = op[p].transition /\ op'[p].stage = "append"
    BY <1>2, <1>4, <2>1 DEF D!Running
  <2>5. \E new \in WatchState : CallWrites(p, new)
    BY <2>1, <2>2, <2>3, <2>4 DEF CallWrites
  <2> QED
    BY <1>0, <1>1, <2>4, <2>5
<1>7. CASE D!lose_race(p)
  BY <1>0, <1>1, <1>4, <1>7, Payloads
     DEF D!lose_race, D!At, D!Finish, D!Outcome, D!store
<1>8. CASE D!record_superseded(p)
  <2>1. /\ op[p].stage = "append" /\ D!Finish(p, "ok")
        /\ history \subseteq history' /\ UNCHANGED <<current, trail>>
    BY <1>8 DEF D!record_superseded, D!At, D!append_history
  <2> QED
    BY <1>0, <1>1, <1>4, <2>1, Payloads DEF D!Finish, D!Outcome
<1> QED
  BY <1>5, <1>6, <1>7, <1>8 DEF transition_step, D!CallStep

----------------------------------------------------------------------------
\* A step of one process.
ActorStep(p) ==
    \/ Progress(p)
    \/ Failure(p) /\ UNCHANGED auxiliary
    \/ \E w \in WatchId :
         \/ define_watch(p, w) /\ UNCHANGED auxiliary
         \/ apply_watch_transition(p, w, StopWatch) /\ UNCHANGED auxiliary
         \/ define_watch_schedule(p, w)
         \/ \E tick \in Tick : execute_scheduled_watch_run(p, w, tick)

\* The ways a task goes on.
LEMMA TaskMoves ==
    ASSUME ScheduleTypes, NEW p \in Process
    PROVE  /\ End(p) => /\ task' \in [Process -> Task \cup {NoTask}]
                        /\ task'[p] = NoTask
                        /\ \A q \in Process \ {p} : task'[q] = task[q]
           /\ \A s \in Step : task[p] # NoTask /\ Goto(p, s) =>
                /\ task' \in [Process -> Task \cup {NoTask}]
                /\ task'[p] \in Task /\ task'[p] # NoTask
                /\ task'[p].step = s /\ task'[p].watch = task[p].watch
                /\ task'[p].tick = task[p].tick
                /\ task'[p].evidence = task[p].evidence
                /\ \A q \in Process \ {p} : task'[q] = task[q]
           /\ \A s \in Step, w \in WatchId, t \in Tick \cup {Nothing} :
                Start(p, s, w, t, Nothing, Nothing) =>
                /\ task' \in [Process -> Task \cup {NoTask}]
                /\ task[p] = NoTask /\ task'[p] \in Task /\ task'[p] # NoTask
                /\ task'[p].step = s /\ task'[p].watch = w /\ task'[p].tick = t
                /\ \A q \in Process \ {p} : task'[q] = task[q]
<1>1. task \in [Process -> Task \cup {NoTask}]
  BY DEF ScheduleTypes
<1>2. ASSUME NEW s \in Step, task[p] # NoTask, Goto(p, s)
      PROVE  /\ task' \in [Process -> Task \cup {NoTask}]
             /\ task'[p] \in Task /\ task'[p] # NoTask
             /\ task'[p].step = s /\ task'[p].watch = task[p].watch
             /\ task'[p].tick = task[p].tick
             /\ task'[p].evidence = task[p].evidence
             /\ \A q \in Process \ {p} : task'[q] = task[q]
  <2>1. task[p] \in Task /\ [task[p] EXCEPT !.step = s] \in Task
    BY <1>1, <1>2 DEF Task
  <2>2. task' = [task EXCEPT ![p] = [task[p] EXCEPT !.step = s]]
    BY <1>2 DEF Goto
  <2>3. task'[p] = [task[p] EXCEPT !.step = s]
    BY <1>1, <2>2
  <2> QED BY <1>1, <2>1, <2>2, <2>3, NoTaskAssumption DEF Task
<1>3. ASSUME NEW s \in Step, NEW w \in WatchId,
             NEW t \in Tick \cup {Nothing},
             Start(p, s, w, t, Nothing, Nothing)
      PROVE  /\ task' \in [Process -> Task \cup {NoTask}]
             /\ task[p] = NoTask /\ task'[p] \in Task /\ task'[p] # NoTask
             /\ task'[p].step = s /\ task'[p].watch = w /\ task'[p].tick = t
             /\ \A q \in Process \ {p} : task'[q] = task[q]
  <2> DEFINE new == [step |-> s, watch |-> w, tick |-> t,
                     evidence |-> Nothing, previous |-> Nothing]
  <2>1. new \in Task
    BY DEF Task
  <2>2. task' = [task EXCEPT ![p] = new] /\ task[p] = NoTask
    BY <1>3 DEF Start, Idle
  <2> QED BY <1>1, <2>1, <2>2, NoTaskAssumption
<1>4. ASSUME End(p)
      PROVE  /\ task' \in [Process -> Task \cup {NoTask}]
             /\ task'[p] = NoTask
             /\ \A q \in Process \ {p} : task'[q] = task[q]
  BY <1>1, <1>4 DEF End
<1> QED
  BY <1>2, <1>3, <1>4

\* The ways a call of apply_watch_transition starts and ends.
LEMMA OpMoves ==
    ASSUME ScheduleTypes, NEW p \in Process
    PROVE  /\ \A w \in WatchId, t \in WatchTransition : D!begin(p, w, t) =>
                /\ op' \in [Process -> D!Frame \cup {NoOp}]
                /\ op'[p].entity = w /\ op'[p].transition = t
                /\ op'[p].stage = "read" /\ op[p] = NoOp
                /\ \A q \in Process \ {p} : op'[q] = op[q]
                /\ UNCHANGED <<current, history, trail>>
           /\ D!return(p) \/ D!abandon(p) =>
                /\ op' \in [Process -> D!Frame \cup {NoOp}]
                /\ op'[p] = NoOp /\ op[p] # NoOp
                /\ \A q \in Process \ {p} : op'[q] = op[q]
                /\ UNCHANGED <<current, history, trail>>
           /\ D!store_error(p) =>
                /\ op' \in [Process -> D!Frame \cup {NoOp}]
                /\ op'[p].entity = op[p].entity /\ op[p] # NoOp
                /\ op'[p].transition = op[p].transition
                /\ op'[p].stage = "failed"
                /\ \A q \in Process \ {p} : op'[q] = op[q]
                /\ UNCHANGED <<current, history, trail>>
<1>1. op \in [Process -> D!Frame \cup {NoOp}]
  BY DEF ScheduleTypes
<1>2. ASSUME NEW w \in WatchId, NEW t \in WatchTransition, D!begin(p, w, t)
      PROVE  /\ op' \in [Process -> D!Frame \cup {NoOp}]
             /\ op'[p].entity = w /\ op'[p].transition = t
             /\ op'[p].stage = "read" /\ op[p] = NoOp
             /\ \A q \in Process \ {p} : op'[q] = op[q]
             /\ UNCHANGED <<current, history, trail>>
  <2> DEFINE f == [entity |-> w, transition |-> t, stage |-> "read",
                   revision |-> 0, old |-> Active(Nothing)]
  <2>1. f \in D!Frame
    BY Payloads DEF D!Frame, D!Running
  <2>2. op' = [op EXCEPT ![p] = f] /\ op[p] = NoOp
        /\ UNCHANGED <<current, history, trail>>
    BY <1>2 DEF D!begin, D!store
  <2> QED BY <1>1, <2>1, <2>2
<1>3. ASSUME D!store_error(p)
      PROVE  /\ op' \in [Process -> D!Frame \cup {NoOp}]
             /\ op'[p].entity = op[p].entity /\ op[p] # NoOp
             /\ op'[p].transition = op[p].transition
             /\ op'[p].stage = "failed"
             /\ \A q \in Process \ {p} : op'[q] = op[q]
             /\ UNCHANGED <<current, history, trail>>
  <2> DEFINE f == [entity |-> op[p].entity, transition |-> op[p].transition,
                   stage |-> "failed", revision |-> 0, old |-> Active(Nothing)]
  <2>1. op[p] # NoOp /\ op[p] \in D!Frame
    BY <1>1, <1>3 DEF D!store_error
  <2>2. f \in D!Frame
    BY <2>1, Payloads DEF D!Frame, D!Outcome
  <2>3. op' = [op EXCEPT ![p] = f] /\ UNCHANGED <<current, history, trail>>
    BY <1>3 DEF D!store_error, D!store, D!Finish, D!Move
  <2> QED BY <1>1, <2>1, <2>2, <2>3
<1>4. ASSUME D!return(p) \/ D!abandon(p)
      PROVE  /\ op' \in [Process -> D!Frame \cup {NoOp}]
             /\ op'[p] = NoOp /\ op[p] # NoOp
             /\ \A q \in Process \ {p} : op'[q] = op[q]
             /\ UNCHANGED <<current, history, trail>>
  BY <1>1, <1>4 DEF D!return, D!abandon, D!store
<1> QED
  BY <1>2, <1>3, <1>4

\* A step leaves the other processes alone; the actor's task keeps its inputs
\* and its transition.
LEMMA TaskStep ==
    ASSUME ScheduleTypes, NEW p \in Process, TaskHas(p), ActorStep(p)
    PROVE  /\ task' \in [Process -> Task \cup {NoTask}]
           /\ op' \in [Process -> D!Frame \cup {NoOp}]
           /\ \A q \in Process \ {p} : task'[q] = task[q] /\ op'[q] = op[q]
           /\ TaskHas(p)'
<1> DEFINE Goal == /\ task' \in [Process -> Task \cup {NoTask}]
                   /\ op' \in [Process -> D!Frame \cup {NoOp}]
                   /\ \A q \in Process \ {p} :
                        task'[q] = task[q] /\ op'[q] = op[q]
                   /\ TaskHas(p)'
<1>0. /\ task \in [Process -> Task \cup {NoTask}]
      /\ op \in [Process -> D!Frame \cup {NoOp}]
  BY DEF ScheduleTypes
<1>1. ASSUME End(p), op' = op, op[p] = NoOp PROVE Goal
  BY <1>0, <1>1, TaskMoves DEF TaskHas
<1>2. ASSUME End(p), D!return(p) \/ D!abandon(p) PROVE Goal
  BY <1>0, <1>2, TaskMoves, OpMoves DEF TaskHas
<1>3. ASSUME NEW s \in Step, task[p] # NoTask, Goto(p, s), op' = op,
             op[p] = NoOp,
             s \in RunSteps => task[p].step \in RunSteps,
             s \in EvidenceSteps => task[p].step \in EvidenceSteps
      PROVE  Goal
  BY <1>0, <1>3, TaskMoves DEF TaskHas
<1>4. CASE read_watch_schedule(p) \/ read_watch_definition(p) \/ claim_run(p)
           \/ lose_claim(p)
  <2>1. op' = op /\ op[p] = NoOp /\ task[p] # NoTask
    BY <1>4 DEF read_watch_schedule, read_watch_definition, claim_run,
       lose_claim, AtStep, TaskHas, domain
  <2>2. /\ task[p].step \in RunSteps
        /\ \/ End(p)
           \/ \E s \in {"read_definition", "claim", "fetch", "replay"} : Goto(p, s)
    BY <1>4 DEF read_watch_schedule, read_watch_definition, claim_run,
       lose_claim, AtStep, RunSteps
  <2> QED BY <1>1, <1>3, <2>1, <2>2 DEF EvidenceSteps, Step
<1>5. CASE replay_run(p) \/ complete_run(p) \/ initialize_state(p)
           \/ task_error(p)
  BY <1>1, <1>5 DEF replay_run, complete_run, initialize_state, D!create,
     task_error, AtStep, TaskHas, domain
<1>6. CASE fetch_page(p)
  <2>1. op' = op /\ op[p] = NoOp /\ task[p] # NoTask /\ task[p] \in Task
    BY <1>0, <1>6 DEF fetch_page, AtStep, TaskHas, domain
  <2>2. ASSUME NEW e \in Evidence,
               task' = [task EXCEPT ![p] =
                          [@ EXCEPT !.step = "record", !.evidence = e]]
        PROVE  Goal
    <3> DEFINE new == [task[p] EXCEPT !.step = "record", !.evidence = e]
    <3>1. new \in Task /\ new.step = "record" /\ new.evidence = e
          /\ new.tick = task[p].tick
      BY <2>1, <2>2 DEF Task, Step
    <3>2. task' = [task EXCEPT ![p] = new] /\ task'[p] = new
      BY <1>0, <2>2
    <3>3. task[p].tick \in Tick
      BY <1>6, <2>1 DEF fetch_page, AtStep, TaskHas, RunSteps
    <3> HIDE DEF new
    <3> QED
      BY <1>0, <2>1, <2>2, <3>1, <3>2, <3>3 DEF TaskHas
  <2> QED BY <1>1, <1>6, <2>1, <2>2 DEF fetch_page
<1>7. CASE record_evidence(p) \/ record_definition(p)
  <2>1. op' = op /\ op[p] = NoOp /\ task[p] # NoTask
    BY <1>7 DEF record_evidence, record_definition, AtStep, TaskHas
  <2>2. \/ task[p].step = "record" /\ Goto(p, "observe")
        \/ Goto(p, "initialize")
    BY <1>7 DEF record_evidence, record_definition, AtStep
  <2> QED BY <1>3, <2>1, <2>2 DEF EvidenceSteps, RunSteps, Step
<1>8. CASE observe_evidence(p)
  <2>1. /\ task[p] # NoTask /\ task[p].step = "observe" /\ task[p] \in Task
        /\ D!begin(p, task[p].watch, ObserveEvidence(task[p].evidence))
        /\ Goto(p, "observing")
    BY <1>0, <1>8 DEF observe_evidence, AtStep
  <2>2. task[p].evidence \in Evidence /\ task[p].tick \in Tick
        /\ task[p].watch \in WatchId
    BY <2>1 DEF TaskHas, EvidenceSteps, RunSteps, Task
  <2> QED
    BY <1>0, <2>1, <2>2, TaskMoves, OpMoves, Payloads DEF TaskHas, Step
<1>9. CASE observed(p)
  <2>1. /\ task[p] # NoTask /\ task[p].step = "observing" /\ D!return(p)
        /\ Goto(p, "complete") \/ End(p)
    BY <1>9 DEF observed, AtStep
  <2>2. CASE Goto(p, "complete")
    BY <1>0, <2>1, <2>2, TaskMoves, OpMoves
       DEF TaskHas, EvidenceSteps, RunSteps, Step
  <2> QED BY <1>2, <2>1, <2>2
<1>10. CASE transition_step(p)
  BY <1>0, <1>10, CallEffect DEF TaskHas, CallWrites
<1>11. CASE return_to_caller(p) \/ crash(p)
  BY <1>1, <1>2, <1>11 DEF return_to_caller, crash, domain
<1>12. CASE transition_error(p)
  BY <1>0, <1>12, OpMoves DEF TaskHas, transition_error
<1>13. ASSUME NEW w \in WatchId, define_watch(p, w) PROVE Goal
  <2>1. /\ Start(p, "define", w, Nothing, Nothing, Nothing) /\ op' = op
    BY <1>13 DEF define_watch, domain
  <2> QED BY <1>0, <1>13, <2>1, TaskMoves
     DEF TaskHas, RunSteps, EvidenceSteps, Step
<1>14. ASSUME NEW w \in WatchId, NEW t \in Tick,
              execute_scheduled_watch_run(p, w, t)
       PROVE  Goal
  <2>1. /\ Start(p, "read_schedule", w, t, Nothing, Nothing) /\ op' = op
    BY <1>14 DEF execute_scheduled_watch_run, domain
  <2> QED BY <1>0, <1>14, <2>1, TaskMoves
     DEF TaskHas, RunSteps, EvidenceSteps, Step
<1>15. ASSUME NEW w \in WatchId, apply_watch_transition(p, w, StopWatch)
       PROVE  Goal
  <2>1. /\ Start(p, "apply", w, Nothing, Nothing, Nothing)
        /\ D!begin(p, w, StopWatch)
    BY <1>15 DEF apply_watch_transition
  <2> QED
    BY <1>0, <1>15, <2>1, TaskMoves, OpMoves, Payloads
       DEF TaskHas, RunSteps, EvidenceSteps, Step
<1>16. ASSUME NEW w \in WatchId, define_watch_schedule(p, w) PROVE Goal
  BY <1>0, <1>16 DEF define_watch_schedule, TaskHas
<1> QED
  BY <1>4, <1>5, <1>6, <1>7, <1>8, <1>9, <1>10, <1>11, <1>12, <1>13, <1>14,
     <1>15, <1>16
     DEF ActorStep, Progress, RunStep, WatchStep, Failure

\* What a step does to the store: the history only grows, the records of the
\* runs change by a claim or a completion only, the trail with the watch.
LEMMA StoreStep ==
    ASSUME ScheduleTypes, NEW p \in Process, TaskHas(p), ActorStep(p)
    PROVE  /\ ScheduleTypes'
           /\ history \subseteq history'
           /\ claim_run(p) \/ complete_run(p)
              \/ \A run \in Run : RunRow(run)' = RunRow(run)
<1> DEFINE Rows == /\ current' \in [Key -> D!Row \cup {NoRow}]
                   /\ trail' \in [WatchId -> Seq(WatchState)]
                   /\ \A w \in WatchId :
                        IF current'[w] = NoRow THEN trail'[w] = <<>>
                        ELSE current'[w].state \in WatchState
           Runs == \A run \in Run : RunRow(run)' = RunRow(run)
           Goal == Rows /\ history \subseteq history'
                   /\ (claim_run(p) \/ complete_run(p) \/ Runs)
<1>0. /\ current \in [Key -> D!Row \cup {NoRow}]
      /\ trail \in [WatchId -> Seq(WatchState)]
      /\ task \in [Process -> Task \cup {NoTask}]
      /\ fetches \in [Run -> Nat]
      /\ \A w \in WatchId : IF current[w] = NoRow THEN trail[w] = <<>>
                            ELSE current[w].state \in WatchState
  BY DEF ScheduleTypes
<1>1. ASSUME current' = current, trail' = trail, history \subseteq history'
      PROVE  Goal
  BY <1>0, <1>1 DEF RunRow
<1>2. ASSUME NEW key \in Key, NEW n \in Nat, NEW s \in StoredPayload,
             current' = [current EXCEPT ![key] = [revision |-> n + 1,
                                                  state |-> s]]
      PROVE  /\ current' \in [Key -> D!Row \cup {NoRow}]
             /\ current'[key] # NoRow /\ current'[key].state = s
             /\ \A k \in Key \ {key} : current'[k] = current[k]
  <2> DEFINE row == [revision |-> n + 1, state |-> s]
  <2>1. row \in D!Row /\ row.state = s /\ row # NoRow
    BY <1>2, MissingRowAssumption DEF D!Row
  <2>2. current' = [current EXCEPT ![key] = row]
    BY <1>2
  <2> HIDE DEF row
  <2> QED BY <1>0, <1>2, <2>1, <2>2
<1>3. ASSUME claim_run(p) \/ complete_run(p)
      PROVE  Goal
  <2>1. /\ task[p] # NoTask /\ task[p] \in Task /\ task[p].tick \in Tick
        /\ task[p].step = "complete" => task[p].evidence \in Evidence
        /\ task[p].watch \in WatchId
    BY <1>0, <1>3 DEF claim_run, complete_run, AtStep, TaskHas, RunSteps,
       EvidenceSteps, Task
  <2>2. RunKey(p) \in Key \ WatchId
    BY <2>1, RunKeys DEF RunKey
  <2>3. /\ trail' = trail /\ history' = history
        /\ \E n \in Nat, s \in StoredPayload :
             current' = [current EXCEPT ![RunKey(p)] =
                           [revision |-> n + 1, state |-> s]]
    BY <1>3, <2>1, Payloads
       DEF claim_run, complete_run, AtStep, D!write_current
  <2>4. /\ current' \in [Key -> D!Row \cup {NoRow}]
        /\ \A k \in Key \ {RunKey(p)} : current'[k] = current[k]
    BY <1>2, <2>2, <2>3
  <2>5. \A w \in WatchId : current'[w] = current[w]
    BY <2>2, <2>4, RunKeys
  <2> QED BY <1>0, <1>3, <2>3, <2>4, <2>5
<1>4. ASSUME initialize_state(p)
      PROVE  Goal
  <2>1. task[p] # NoTask /\ task[p] \in Task /\ task[p].watch \in WatchId
    BY <1>0, <1>4 DEF initialize_state, AtStep, Task
  <2>2. /\ current' = [current EXCEPT ![task[p].watch] =
             [revision |-> 0 + 1, state |-> Active(Nothing)]]
        /\ trail' = [trail EXCEPT ![task[p].watch] = <<Active(Nothing)>>]
        /\ history' = history
    BY <1>4 DEF initialize_state, D!create, D!write_current
  <2>3. /\ current' \in [Key -> D!Row \cup {NoRow}]
        /\ current'[task[p].watch] # NoRow
        /\ current'[task[p].watch].state = Active(Nothing)
        /\ \A k \in Key \ {task[p].watch} : current'[k] = current[k]
    BY <1>2, <2>1, <2>2, Payloads, RunKeys
  <2>4. trail' \in [WatchId -> Seq(WatchState)]
        /\ \A w \in WatchId \ {task[p].watch} : trail'[w] = trail[w]
    <3>1. <<Active(Nothing)>> \in Seq(WatchState)
      BY Payloads
    <3> QED BY <1>0, <2>1, <2>2, <3>1
  <2>5. trail'[task[p].watch] = <<Active(Nothing)>>
    BY <1>0, <2>1, <2>2
  <2>6. Runs
    BY <2>1, <2>3, RunKeys DEF RunRow
  <2>7. \A w \in WatchId : IF current'[w] = NoRow THEN trail'[w] = <<>>
                            ELSE current'[w].state \in WatchState
    BY <1>0, <2>1, <2>3, <2>4, <2>5, Payloads, RunKeys
  <2> QED BY <2>2, <2>3, <2>4, <2>6, <2>7
<1>5. ASSUME transition_step(p)
      PROVE  Goal
  <2>1. ASSUME UNCHANGED <<current, trail>>, history \subseteq history'
        PROVE  Goal
    BY <1>1, <2>1
  <2>2. ASSUME NEW new \in WatchState, CallWrites(p, new) PROVE Goal
    <3>0. /\ current' = [current EXCEPT ![op[p].entity] =
               [revision |-> op[p].revision + 1, state |-> new]]
          /\ trail' = [trail EXCEPT ![op[p].entity] = Append(@, new)]
          /\ history' = history
      BY <2>2 DEF CallWrites
    <3>1. op[p].entity \in WatchId /\ op[p].revision \in Nat
      BY <1>5, CallEffect DEF D!Frame
    <3>2. /\ current' \in [Key -> D!Row \cup {NoRow}]
          /\ current'[op[p].entity] # NoRow
          /\ current'[op[p].entity].state = new
          /\ \A k \in Key \ {op[p].entity} : current'[k] = current[k]
      BY <1>2, <2>2, <3>0, <3>1, Payloads, RunKeys
    <3>3. /\ trail' \in [WatchId -> Seq(WatchState)]
          /\ \A w \in WatchId \ {op[p].entity} : trail'[w] = trail[w]
      BY <1>0, <2>2, <3>0, <3>1
    <3>4. Runs
      BY <3>1, <3>2, RunKeys DEF RunRow
    <3>5. \A w \in WatchId : IF current'[w] = NoRow THEN trail'[w] = <<>>
                              ELSE current'[w].state \in WatchState
      BY <1>0, <2>2, <3>0, <3>1, <3>2, <3>3, RunKeys
    <3> QED BY <2>2, <3>0, <3>2, <3>3, <3>4, <3>5
  <2>3. \/ UNCHANGED <<current, trail>> /\ history \subseteq history'
        \/ \E new \in WatchState : CallWrites(p, new)
    BY <1>5, CallEffect
  <2> HIDE DEF Goal
  <2> QED BY <2>1, <2>2, <2>3
<1>6. ASSUME read_watch_schedule(p) \/ read_watch_definition(p)
           \/ lose_claim(p) \/ replay_run(p) \/ fetch_page(p)
           \/ record_evidence(p) \/ task_error(p) \/ record_definition(p)
      PROVE  Goal
  BY <1>1, <1>6 DEF read_watch_schedule, read_watch_definition, lose_claim,
     replay_run, fetch_page, record_evidence, task_error, record_definition,
     D!append_history, domain
<1>7. ASSUME observe_evidence(p) \/ observed(p) \/ return_to_caller(p)
           \/ crash(p) \/ transition_error(p)
      PROVE  Goal
  BY <1>1, <1>7 DEF observe_evidence, observed, return_to_caller, crash,
     transition_error, domain, D!begin, D!return, D!abandon, D!store_error,
     D!store
<1>8. ASSUME NEW w \in WatchId,
             define_watch(p, w) \/ define_watch_schedule(p, w)
             \/ apply_watch_transition(p, w, StopWatch)
             \/ \E t \in Tick : execute_scheduled_watch_run(p, w, t)
      PROVE  Goal
  BY <1>1, <1>8 DEF define_watch, define_watch_schedule,
     apply_watch_transition, execute_scheduled_watch_run, domain, D!begin,
     D!store, D!append_history
<1>9. Goal
  <2> HIDE DEF Goal
  <2> QED
    BY <1>3, <1>4, <1>5, <1>6, <1>7, <1>8
       DEF ActorStep, Progress, RunStep, WatchStep, Failure
<1>10. fetches' = fetches \/ fetch_page(p)
  BY DEF ActorStep, Progress, RunStep, read_watch_schedule, auxiliary,
     read_watch_definition, lose_claim, claim_run, replay_run,
     record_evidence, observe_evidence, observed, complete_run,
     define_watch_schedule, execute_scheduled_watch_run
<1>11. fetches' \in [Run -> Nat]
  <2>1. CASE fetch_page(p)
    <3>1. task[p] # NoTask /\ task[p].tick \in Tick /\ task[p].watch \in WatchId
      BY <1>0, <2>1 DEF fetch_page, AtStep, TaskHas, RunSteps, Task
    <3>2. TaskRun(p) \in Run /\ fetches[TaskRun(p)] + 1 \in Nat
      BY <1>0, <3>1, RunKeys DEF TaskRun
    <3>3. fetches' = [fetches EXCEPT ![TaskRun(p)] = @ + 1]
      BY <2>1 DEF fetch_page
    <3> QED BY <1>0, <3>2, <3>3
  <2> QED BY <1>0, <1>10, <2>1
<1> QED
  BY <1>9, <1>11, TaskStep DEF ScheduleTypes

----------------------------------------------------------------------------
\* The run a task works on.
LEMMA TaskRunKeys ==
    ASSUME ScheduleTypes, TaskIsSound
    PROVE  \A q \in Process : task[q] # NoTask /\ task[q].step \in RunSteps =>
             /\ TaskRun(q) \in Run /\ RunKey(q) \in Key
             /\ RunKey(q) = <<"run", TaskRun(q)[1], TaskRun(q)[2]>>
             /\ RunRow(TaskRun(q)) = current[RunKey(q)]
             /\ TaskRun(q) = <<task[q].watch, unix_seconds(task[q].tick)>>
<1> SUFFICES ASSUME NEW q \in Process, task[q] # NoTask,
                    task[q].step \in RunSteps
             PROVE  /\ TaskRun(q) \in Run /\ RunKey(q) \in Key
                    /\ RunKey(q) = <<"run", TaskRun(q)[1], TaskRun(q)[2]>>
                    /\ RunRow(TaskRun(q)) = current[RunKey(q)]
                    /\ TaskRun(q) = <<task[q].watch, unix_seconds(task[q].tick)>>
  OBVIOUS
<1>1. task[q] \in Task /\ task[q].watch \in WatchId /\ task[q].tick \in Tick
  BY DEF ScheduleTypes, TaskIsSound, TaskHas, Task
<1> QED BY <1>1, RunKeys DEF TaskRun, RunKey, RunRow

\* What a compare-and-swap on the record of a run does to the records.
LEMMA RunWrite ==
    ASSUME ScheduleTypes, NEW run \in Run, NEW n \in Nat,
           NEW s \in StoredPayload,
           D!write_current(<<"run", run[1], run[2]>>, n, s)
    PROVE  /\ IF RunRow(run) = NoRow THEN n = 0 ELSE RunRow(run).revision = n
           /\ RunRow(run)' # NoRow /\ RunRow(run)'.revision = n + 1
           /\ RunRow(run)'.state = s
           /\ \A other \in Run \ {run} : RunRow(other)' = RunRow(other)
<1>0. current \in [Key -> D!Row \cup {NoRow}]
  BY DEF ScheduleTypes
<1> DEFINE key == <<"run", run[1], run[2]>>
           row == [revision |-> n + 1, state |-> s]
<1>1. key \in Key /\ RunRow(run) = current[key] /\ RunRow(run)' = current'[key]
      /\ \A other \in Run \ {run} : /\ <<"run", other[1], other[2]>> \in Key
                                    /\ <<"run", other[1], other[2]>> # key
  BY RunKeys DEF RunRow
<1>2. IF current[key] = NoRow THEN n = 0 ELSE current[key].revision = n
  BY DEF D!write_current, D!write_conflicts, D!ActualRevision
<1>3. current' = [current EXCEPT ![key] = row]
  BY DEF D!write_current
<1>4. row # NoRow /\ row.revision = n + 1 /\ row.state = s
  BY MissingRowAssumption
<1>5. \A other \in Run \ {run} : RunRow(other)' = RunRow(other)
  BY <1>0, <1>1, <1>3 DEF RunRow
<1> HIDE DEF row, key
<1> QED BY <1>0, <1>1, <1>2, <1>3, <1>4, <1>5

\* Claims, fetches, completions and answers.
LEMMA ClaimStep ==
    ASSUME ScheduleTypes, TaskIsSound, ClaimsAreSound,
           NEW p \in Process, ActorStep(p)
    PROVE  ClaimsAreSound'
<1>0. /\ TaskHas(p) /\ current \in [Key -> D!Row \cup {NoRow}]
      /\ task \in [Process -> Task \cup {NoTask}]
      /\ fetches \in [Run -> Nat]
      /\ \A run \in Run : RunIsSound(run)
      /\ ClaimIsExclusive
      /\ \A q \in Process : ClaimantIsSound(q)
      /\ \A a \in answers : AnswerIsStored(a)
  BY DEF ScheduleTypes, TaskIsSound, ClaimsAreSound
<1>1. /\ \A q \in Process \ {p} : task'[q] = task[q]
      /\ claim_run(p) \/ complete_run(p)
         \/ \A run \in Run : RunRow(run)' = RunRow(run)
  BY <1>0, TaskStep, StoreStep
<1>2. \A q \in Process \ {p} :
        /\ \A run : Owns(q, run)' <=> Owns(q, run)
        /\ \A s : AtStep(q, s)' <=> AtStep(q, s)
        /\ TaskRun(q)' = TaskRun(q)
  BY <1>1 DEF Owns, AtStep, TaskRun
<1>a. \A q \in Process : task[q] # NoTask /\ task[q].step \in RunSteps =>
        /\ TaskRun(q) \in Run /\ RunKey(q) \in Key
        /\ RunKey(q) = <<"run", TaskRun(q)[1], TaskRun(q)[2]>>
        /\ RunRow(TaskRun(q)) = current[RunKey(q)]
        /\ TaskRun(q) = <<task[q].watch, unix_seconds(task[q].tick)>>
  BY TaskRunKeys
<1>3. ASSUME \A run \in Run : RunRow(run)' = RunRow(run),
             fetches' = fetches, answers' = answers,
             \A run : Owns(p, run)' => Owns(p, run),
             AtStep(p, "fetch")' => AtStep(p, "fetch") /\ TaskRun(p)' = TaskRun(p),
             AtStep(p, "replay")' =>
               TaskRun(p)' \in Run /\ RunRow(TaskRun(p)') # NoRow
      PROVE  ClaimsAreSound'
  <2>1. \A run \in Run : RunIsSound(run)'
    BY <1>0, <1>3 DEF RunIsSound
  <2>2. ClaimIsExclusive'
    BY <1>0, <1>2, <1>3 DEF ClaimIsExclusive
  <2>3. ASSUME NEW q \in Process \ {p} PROVE ClaimantIsSound(q)'
    <3>1. ClaimantIsSound(q) /\ TaskRun(q)' = TaskRun(q)
      BY <1>0, <1>2, <2>3
    <3>2. AtStep(q, "fetch")' => fetches'[TaskRun(q)'] = 0
      BY <1>2, <1>3, <2>3, <3>1 DEF ClaimantIsSound
    <3>3. ASSUME AtStep(q, "replay")' PROVE RunRow(TaskRun(q))' # NoRow
      <4>1. AtStep(q, "replay") /\ RunRow(TaskRun(q)) # NoRow
        BY <1>2, <2>3, <3>1, <3>3 DEF ClaimantIsSound
      <4>2. TaskRun(q) \in Run
        BY <1>a, <2>3, <4>1 DEF AtStep, RunSteps
      <4>3. RunRow(TaskRun(q))' = RunRow(TaskRun(q))
        BY <1>3, <3>1, <4>2 DEF RunRow
      <4> QED BY <4>1, <4>3
    <3> QED BY <3>2, <3>3 DEF ClaimantIsSound
  <2>5. ClaimantIsSound(p)'
    <3>1. ClaimantIsSound(p)
      BY <1>0
    <3>2. AtStep(p, "fetch")' => fetches'[TaskRun(p)'] = 0
      BY <1>3, <3>1 DEF ClaimantIsSound
    <3>3. AtStep(p, "replay")' => RunRow(TaskRun(p))' # NoRow
      BY <1>3
    <3> QED BY <3>2, <3>3 DEF ClaimantIsSound
  <2>4. \A a \in answers' : AnswerIsStored(a)'
    BY <1>0, <1>3 DEF AnswerIsStored
  <2> QED BY <2>1, <2>2, <2>3, <2>4, <2>5 DEF ClaimsAreSound
<1>4. CASE claim_run(p)
  <2>1. /\ task[p] # NoTask /\ task[p].step = "claim" /\ Goto(p, "fetch")
        /\ D!write_current(RunKey(p), 0, Claimed)
        /\ fetches' = fetches /\ answers' = answers
    BY <1>4 DEF claim_run, AtStep, auxiliary
  <2>2. PICK run \in Run : /\ run = TaskRun(p)
                           /\ RunKey(p) = <<"run", run[1], run[2]>>
    BY <1>a, <2>1 DEF RunSteps
  <2>3. /\ RunRow(run) = NoRow
        /\ RunRow(run)' # NoRow /\ RunRow(run)'.revision = 1
        /\ RunRow(run)'.state = Claimed
        /\ \A other \in Run \ {run} : RunRow(other)' = RunRow(other)
    <3>1. RunRow(run) = NoRow \/ RunRow(run).revision \in {1, 2}
      BY <1>0 DEF RunIsSound
    <3> QED BY RunWrite, <2>1, <2>2, <3>1, Payloads
  <2>4. /\ task'[p] # NoTask /\ task'[p].step = "fetch" /\ TaskRun(p)' = run
    BY <1>0, <2>1, <2>2, TaskMoves DEF TaskRun, Step
  <2>5. \A r \in Run : RunIsSound(r)'
    BY <1>0, <2>1, <2>3 DEF RunIsSound
  <2>6. ClaimIsExclusive'
    <3>1. \A q \in Process : ~Owns(q, run)
      BY <1>0, <2>3 DEF ClaimIsExclusive
    <3>2. \A r : Owns(p, r)' <=> r = run
      BY <2>4 DEF Owns, OwnerSteps
    <3> QED BY <1>0, <1>2, <2>3, <3>1, <3>2 DEF ClaimIsExclusive
  <2>7. \A q \in Process : ClaimantIsSound(q)'
    <3>1. fetches[run] = 0
      BY <1>0, <2>3 DEF RunIsSound
    <3>2. ClaimantIsSound(p)'
      BY <2>1, <2>4, <3>1 DEF ClaimantIsSound, AtStep
    <3>3. ASSUME NEW q \in Process \ {p} PROVE ClaimantIsSound(q)'
      <4>1. AtStep(q, "replay") => TaskRun(q) \in Run
        BY <1>a DEF AtStep, RunSteps
      <4> QED
        BY <1>0, <1>2, <2>1, <2>3, <3>3, <4>1 DEF ClaimantIsSound
    <3> QED BY <3>2, <3>3
  <2>8. \A a \in answers' : AnswerIsStored(a)'
    <3> SUFFICES ASSUME NEW a \in answers PROVE AnswerIsStored(a)'
      BY <2>1
    <3>1. AnswerIsStored(a)
      BY <1>0
    <3>2. <<a[1], a[2]>> # run
      BY <2>3, <3>1 DEF AnswerIsStored
    <3> QED BY <2>3, <3>1, <3>2 DEF AnswerIsStored
  <2> QED BY <2>5, <2>6, <2>7, <2>8 DEF ClaimsAreSound
<1>5. CASE complete_run(p)
  <2>1. /\ task[p] # NoTask /\ task[p].step = "complete" /\ End(p)
        /\ D!write_current(RunKey(p), 1, Completed(task[p].evidence))
        /\ fetches' = fetches /\ Answer(p, task[p].evidence)
    BY <1>5 DEF complete_run, AtStep
  <2>2. PICK run \in Run :
          /\ run = TaskRun(p)
          /\ RunKey(p) = <<"run", run[1], run[2]>>
          /\ run = <<task[p].watch, unix_seconds(task[p].tick)>>
    BY <1>a, <2>1 DEF RunSteps
  <2>3. PICK e \in Evidence : e = task[p].evidence
    BY <1>0, <2>1 DEF TaskHas, EvidenceSteps
  <2>4. Owns(p, run)
    BY <2>1, <2>2 DEF Owns, OwnerSteps
  <2>5. /\ RunRow(run) # NoRow /\ RunRow(run).state = Claimed
        /\ \A q \in Process \ {p} : ~Owns(q, run)
    BY <1>0, <2>4 DEF ClaimIsExclusive
  <2>6. /\ RunRow(run)' # NoRow /\ RunRow(run)'.revision = 2
        /\ RunRow(run)'.state = Completed(e)
        /\ \A other \in Run \ {run} : RunRow(other)' = RunRow(other)
    BY RunWrite, <2>1, <2>2, <2>3, Payloads
  <2>7. task'[p] = NoTask
    BY <2>1, TaskMoves
  <2>8. \A r \in Run : RunIsSound(r)'
    BY <1>0, <2>1, <2>5, <2>6 DEF RunIsSound
  <2>9. ClaimIsExclusive'
    <3>1. \A r : ~Owns(p, r)'
      BY <2>7 DEF Owns
    <3> QED BY <1>0, <1>2, <2>5, <2>6, <3>1 DEF ClaimIsExclusive
  <2>10. \A q \in Process : ClaimantIsSound(q)'
    <3>1. ClaimantIsSound(p)'
      BY <2>7 DEF ClaimantIsSound, AtStep
    <3>2. ASSUME NEW q \in Process \ {p} PROVE ClaimantIsSound(q)'
      <4>1. AtStep(q, "replay") => TaskRun(q) \in Run
        BY <1>a DEF AtStep, RunSteps
      <4> QED
        BY <1>0, <1>2, <2>1, <2>6, <3>2, <4>1 DEF ClaimantIsSound
    <3> QED BY <3>1, <3>2
  <2>11. \A a \in answers' : AnswerIsStored(a)'
    <3> SUFFICES ASSUME NEW a \in answers' PROVE AnswerIsStored(a)'
      OBVIOUS
    <3>1. CASE a \in answers
      <4>1. AnswerIsStored(a)
        BY <1>0, <3>1
      <4>2. <<a[1], a[2]>> # run
        BY <2>5, <4>1 DEF AnswerIsStored, Completed, Claimed, Payload
      <4> QED BY <2>6, <4>1, <4>2 DEF AnswerIsStored
    <3>2. CASE a \notin answers
      <4>1. a = <<task[p].watch, unix_seconds(task[p].tick), e>>
        BY <2>1, <2>3, <3>2 DEF Answer
      <4>2. <<a[1], a[2]>> = run /\ a[3] = e
        BY <2>2, <4>1
      <4> QED BY <2>6, <4>2 DEF AnswerIsStored
    <3> QED BY <3>1, <3>2
  <2> QED BY <2>8, <2>9, <2>10, <2>11 DEF ClaimsAreSound
<1>6. CASE lose_claim(p)
  <2>1. /\ task[p] # NoTask /\ task[p].step = "claim" /\ Goto(p, "replay")
        /\ D!write_conflicts(RunKey(p), 0)
        /\ UNCHANGED <<current, fetches, answers>>
    BY <1>6 DEF lose_claim, AtStep, domain, auxiliary
  <2>2. TaskRun(p) \in Run /\ RunRow(TaskRun(p)) # NoRow
    BY <1>a, <2>1 DEF RunSteps, D!write_conflicts, D!ActualRevision
  <2>3. task'[p].step = "replay" /\ TaskRun(p)' = TaskRun(p)
    BY <2>1, TaskMoves DEF TaskRun, Step
  <2>4. \A run \in Run : RunRow(run)' = RunRow(run)
    BY <2>1 DEF RunRow
  <2> QED
    BY <1>3, <2>1, <2>2, <2>3, <2>4 DEF Owns, OwnerSteps, AtStep
<1>7. CASE replay_run(p)
  <2>1. /\ task[p] # NoTask /\ task[p].step = "replay" /\ End(p)
        /\ UNCHANGED <<current, fetches>>
        /\ \/ answers' = answers
           \/ /\ current[RunKey(p)].state # Claimed
              /\ Answer(p, current[RunKey(p)].state.value)
    BY <1>7 DEF replay_run, AtStep, domain, D!read_current
  <2>2. PICK run \in Run :
          /\ run = TaskRun(p) /\ RunRow(run) = current[RunKey(p)]
          /\ run = <<task[p].watch, unix_seconds(task[p].tick)>>
    BY <1>a, <2>1 DEF RunSteps
  <2>3. RunRow(run) # NoRow
    BY <1>0, <2>1, <2>2 DEF ClaimantIsSound, AtStep
  <2>4. /\ \A r \in Run : RunRow(r)' = RunRow(r)
        /\ task'[p] = NoTask
    BY <2>1, TaskMoves DEF RunRow
  <2>5. \A a \in answers' : AnswerIsStored(a)'
    <3> SUFFICES ASSUME NEW a \in answers' PROVE AnswerIsStored(a)'
      OBVIOUS
    <3>1. CASE a \in answers
      BY <1>0, <2>4, <3>1 DEF AnswerIsStored
    <3>2. CASE a \notin answers
      <4>1. /\ RunRow(run).state # Claimed
            /\ a = <<task[p].watch, unix_seconds(task[p].tick),
                     RunRow(run).state.value>>
        BY <2>1, <2>2, <3>2 DEF Answer
      <4>2. RunRow(run).state = Completed(RunRow(run).state.value)
        BY <1>0, <2>3, <4>1, Payloads DEF RunIsSound
      <4>3. <<a[1], a[2]>> = run /\ a[3] = RunRow(run).state.value
        BY <2>2, <4>1
      <4> QED BY <2>3, <2>4, <4>2, <4>3 DEF AnswerIsStored
    <3> QED BY <3>1, <3>2
  <2>6. \A r \in Run : RunIsSound(r)'
    BY <1>0, <2>1, <2>4 DEF RunIsSound
  <2>7. ClaimIsExclusive'
    <3>1. \A r : ~Owns(p, r)'
      BY <2>4 DEF Owns
    <3> QED BY <1>0, <1>2, <2>4, <3>1 DEF ClaimIsExclusive
  <2>8. \A q \in Process : ClaimantIsSound(q)'
    <3>1. ClaimantIsSound(p)'
      BY <2>4 DEF ClaimantIsSound, AtStep
    <3>2. ASSUME NEW q \in Process \ {p} PROVE ClaimantIsSound(q)'
      <4>1. AtStep(q, "replay") => TaskRun(q) \in Run
        BY <1>a DEF AtStep, RunSteps
      <4> QED
        BY <1>0, <1>2, <2>1, <2>4, <3>2, <4>1 DEF ClaimantIsSound
    <3> QED BY <3>1, <3>2
  <2> QED BY <2>5, <2>6, <2>7, <2>8 DEF ClaimsAreSound
<1>8. CASE fetch_page(p)
  <2>1. /\ task[p] # NoTask /\ task[p].step = "fetch"
        /\ fetches' = [fetches EXCEPT ![TaskRun(p)] = @ + 1]
        /\ UNCHANGED <<current, answers>>
        /\ \/ End(p)
           \/ \E e \in Evidence :
                task' = [task EXCEPT ![p] =
                           [@ EXCEPT !.step = "record", !.evidence = e]]
    BY <1>8 DEF fetch_page, AtStep, domain
  <2>2. PICK run \in Run : run = TaskRun(p)
    BY <1>a, <2>1 DEF RunSteps
  <2>3. Owns(p, run) /\ fetches[run] = 0
    BY <1>0, <2>1, <2>2 DEF Owns, OwnerSteps, ClaimantIsSound, AtStep
  <2>4. /\ RunRow(run) # NoRow /\ \A q \in Process \ {p} : ~Owns(q, run)
    BY <1>0, <2>3 DEF ClaimIsExclusive
  <2>5. /\ fetches'[run] = 1
        /\ \A r \in Run \ {run} : fetches'[r] = fetches[r]
    <3>1. fetches' = [fetches EXCEPT ![run] = fetches[run] + 1]
      BY <2>1, <2>2
    <3> QED BY <1>0, <2>3, <3>1
  <2>6. \A r \in Run : RunRow(r)' = RunRow(r)
    BY <2>1 DEF RunRow
  <2>7. /\ task'[p] = NoTask \/ task'[p].step = "record"
        /\ \A r : Owns(p, r)' => Owns(p, r)
    <3>1. CASE End(p)
      BY <3>1, TaskMoves DEF Owns
    <3>2. ASSUME NEW e \in Evidence,
                 task' = [task EXCEPT ![p] =
                            [@ EXCEPT !.step = "record", !.evidence = e]]
          PROVE  <2>7
      <4>1. task[p] \in Task
        BY <1>0, <2>1
      <4>2. task'[p] = [task[p] EXCEPT !.step = "record", !.evidence = e]
        BY <1>0, <3>2
      <4>3. /\ task'[p].step = "record" /\ task'[p].watch = task[p].watch
            /\ task'[p].tick = task[p].tick
        BY <4>1, <4>2 DEF Task
      <4> QED BY <2>1, <4>3 DEF Owns, OwnerSteps, TaskRun
    <3> QED BY <2>1, <3>1, <3>2
  <2>8. \A r \in Run : RunIsSound(r)'
    BY <1>0, <2>4, <2>5, <2>6 DEF RunIsSound
  <2>9. ClaimIsExclusive'
    BY <1>0, <1>2, <2>6, <2>7 DEF ClaimIsExclusive
  <2>10. \A q \in Process : ClaimantIsSound(q)'
    <3>1. ClaimantIsSound(p)'
      BY <2>7 DEF ClaimantIsSound, AtStep
    <3>2. ASSUME NEW q \in Process \ {p} PROVE ClaimantIsSound(q)'
      <4>1. AtStep(q, "replay") \/ AtStep(q, "fetch") => TaskRun(q) \in Run
        BY <1>a DEF AtStep, RunSteps
      <4>2. AtStep(q, "fetch") => TaskRun(q) # run
        BY <2>4 DEF AtStep, Owns, OwnerSteps
      <4> QED
        BY <1>0, <1>2, <2>5, <2>6, <3>2, <4>1, <4>2 DEF ClaimantIsSound
    <3> QED BY <3>1, <3>2
  <2>11. \A a \in answers' : AnswerIsStored(a)'
    BY <1>0, <2>1, <2>6 DEF AnswerIsStored
  <2> QED BY <2>8, <2>9, <2>10, <2>11 DEF ClaimsAreSound
<1>9. CASE record_evidence(p) \/ observe_evidence(p) \/ observed(p)
  <2>1. /\ task[p] # NoTask /\ task[p].step \in {"record", "observe", "observing"}
        /\ End(p) \/ \E s \in {"observe", "observing", "complete"} : Goto(p, s)
        /\ UNCHANGED <<fetches, answers>> /\ ~claim_run(p) /\ ~complete_run(p)
    BY <1>9 DEF record_evidence, observe_evidence, observed, AtStep, auxiliary,
       claim_run, complete_run
  <2>2. \/ task'[p] = NoTask
        \/ /\ task'[p].step \in {"observe", "observing", "complete"}
           /\ TaskRun(p)' = TaskRun(p)
    BY <2>1, TaskMoves DEF TaskRun, Step
  <2> QED
    BY <1>1, <1>3, <2>1, <2>2 DEF Owns, OwnerSteps, AtStep
<1>10. CASE \/ read_watch_schedule(p) \/ read_watch_definition(p)
            \/ /\ UNCHANGED auxiliary
               /\ \/ record_definition(p) \/ initialize_state(p)
                  \/ return_to_caller(p) \/ task_error(p) \/ crash(p)
  <2>1. /\ End(p) \/ \E s \in {"read_definition", "claim", "initialize"} :
                       Goto(p, s) /\ task[p] # NoTask
        /\ UNCHANGED <<fetches, answers>>
    BY <1>10 DEF read_watch_schedule, read_watch_definition, record_definition,
       initialize_state, return_to_caller, task_error, crash, AtStep, auxiliary
  <2>2. \/ task'[p] = NoTask
        \/ task'[p].step \in {"read_definition", "claim", "initialize"}
    BY <2>1, TaskMoves DEF Step
  <2>3. \A run : ~Owns(p, run)'
    BY <2>2 DEF Owns, OwnerSteps
  <2> QED
    BY <1>1, <1>3, <1>4, <1>5, <2>1, <2>2, <2>3 DEF AtStep
<1>11. CASE (transition_step(p) \/ transition_error(p)) /\ UNCHANGED auxiliary
  <2>1. task' = task /\ UNCHANGED <<fetches, answers>>
    BY <1>11 DEF transition_step, transition_error, auxiliary
  <2>2. /\ \A run : Owns(p, run)' <=> Owns(p, run)
        /\ \A s : AtStep(p, s)' <=> AtStep(p, s)
        /\ TaskRun(p)' = TaskRun(p)
    BY <2>1 DEF Owns, AtStep, TaskRun
  <2>3. AtStep(p, "replay") => TaskRun(p) \in Run /\ RunRow(TaskRun(p)) # NoRow
    BY <1>0, <1>a DEF AtStep, RunSteps, ClaimantIsSound
  <2> QED
    BY <1>1, <1>3, <1>4, <1>5, <2>1, <2>2, <2>3
<1>12. ASSUME NEW w \in WatchId,
              \/ define_watch(p, w) /\ UNCHANGED auxiliary
              \/ apply_watch_transition(p, w, StopWatch) /\ UNCHANGED auxiliary
              \/ \E t \in Tick : execute_scheduled_watch_run(p, w, t)
       PROVE  ClaimsAreSound'
  <2>1. /\ UNCHANGED <<fetches, answers>>
        /\ \E s \in {"define", "apply", "read_schedule"},
              t \in Tick \cup {Nothing} : Start(p, s, w, t, Nothing, Nothing)
    BY <1>12 DEF define_watch, apply_watch_transition,
       execute_scheduled_watch_run, auxiliary
  <2>2. task'[p].step \in {"define", "apply", "read_schedule"}
    BY <1>12, <2>1, TaskMoves DEF Step
  <2> QED
    BY <1>1, <1>3, <1>4, <1>5, <2>1, <2>2 DEF Owns, OwnerSteps, AtStep
<1>13. ASSUME NEW w \in WatchId, define_watch_schedule(p, w)
       PROVE  ClaimsAreSound'
  <2>1. task' = task /\ UNCHANGED <<fetches, answers>> /\ Idle(p)
    BY <1>13 DEF define_watch_schedule, auxiliary
  <2>2. task'[p] = NoTask
    BY <2>1 DEF Idle
  <2> QED
    BY <1>1, <1>3, <1>4, <1>5, <2>1, <2>2 DEF Owns, AtStep
<1>14. CASE RunStep(p)
  BY <1>4, <1>5, <1>6, <1>7, <1>8, <1>9, <1>10, <1>14 DEF RunStep
<1>15. CASE (WatchStep(p) \/ Failure(p)) /\ UNCHANGED auxiliary
  BY <1>10, <1>11, <1>15 DEF WatchStep, Failure
<1> QED
  BY <1>12, <1>13, <1>14, <1>15 DEF ActorStep, Progress

----------------------------------------------------------------------------
\* The trail and the row of one watch are extended by one state, the others
\* stay as they are.
Extends(w, new) ==
    /\ trail'[w] = Append(trail[w], new)
    /\ current'[w] # NoRow /\ current'[w].state = new
    /\ current'[w].revision = D!ActualRevision(w) + 1
    /\ \A v \in WatchId \ {w} : trail'[v] = trail[v] /\ current'[v] = current[v]

\* The write of the transition p is in.
Swaps(p, w, new) ==
    /\ op[p] # NoOp /\ op[p].stage = "write" /\ op'[p].stage = "append"
    /\ task' = task /\ task[p].watch = w
    /\ \/ task[p].step = "observing" /\ new = Active(task[p].evidence)
       \/ task[p].step = "apply" /\ new = Stopped(op[p].old.value)

\* A watch moves on by its first row or by the write of a transition.
LEMMA TrailStep ==
    ASSUME ScheduleTypes, NEW p \in Process, TaskHas(p), ActorStep(p)
    PROVE  \/ trail' = trail /\ \A w \in WatchId : current'[w] = current[w]
           \/ \E w \in WatchId, new \in WatchState :
                /\ Extends(w, new)
                /\ \/ new = Active(Nothing) /\ initialize_state(p)
                   \/ Swaps(p, w, new)
<1> DEFINE Same == trail' = trail /\ \A w \in WatchId : current'[w] = current[w]
           Moved == \E w \in WatchId, new \in WatchState :
                      /\ Extends(w, new)
                      /\ \/ new = Active(Nothing) /\ initialize_state(p)
                         \/ Swaps(p, w, new)
<1>0. /\ current \in [Key -> D!Row \cup {NoRow}]
      /\ trail \in [WatchId -> Seq(WatchState)]
      /\ task \in [Process -> Task \cup {NoTask}]
      /\ \A w \in WatchId : current[w] = NoRow => trail[w] = <<>>
      /\ WatchId \subseteq Key
  BY RunKeys DEF ScheduleTypes
<1>1. ASSUME initialize_state(p) PROVE Moved
  <2>1. task[p] # NoTask /\ task[p] \in Task
    BY <1>0, <1>1 DEF initialize_state, AtStep
  <2>2. PICK w \in WatchId : w = task[p].watch
    BY <2>1 DEF Task
  <2>3. /\ current' = [current EXCEPT ![w] =
             [revision |-> 0 + 1, state |-> Active(Nothing)]]
        /\ trail' = [trail EXCEPT ![w] = <<Active(Nothing)>>]
        /\ ~D!write_conflicts(w, 0)
    BY <1>1, <2>2 DEF initialize_state, D!create, D!write_current
  <2>4. current[w] = NoRow /\ D!ActualRevision(w) = 0
    BY <1>0, <2>3 DEF D!write_conflicts, D!ActualRevision, D!Row
  <2>5. trail'[w] = Append(trail[w], Active(Nothing))
    BY <1>0, <2>3, <2>4
  <2>6. /\ current'[w] = [revision |-> 0 + 1, state |-> Active(Nothing)]
        /\ \A v \in WatchId \ {w} : trail'[v] = trail[v] /\ current'[v] = current[v]
    BY <1>0, <2>3
  <2>7. [revision |-> 0 + 1, state |-> Active(Nothing)] # NoRow
    BY Payloads, MissingRowAssumption
  <2>8. Extends(w, Active(Nothing))
    BY <2>4, <2>5, <2>6, <2>7 DEF Extends
  <2> QED BY <1>1, <2>8, Payloads
<1>2. ASSUME transition_step(p) PROVE Same \/ Moved
  <2>1. ASSUME UNCHANGED <<current, trail>> PROVE Same
    BY <2>1
  <2>2. ASSUME NEW new \in WatchState, CallWrites(p, new) PROVE Moved
    <3>1. /\ op[p].stage = "write" /\ op'[p].stage = "append"
          /\ D!ActualRevision(op[p].entity) = op[p].revision
          /\ new = WatchApply[op[p].transition][op[p].old]
          /\ current' = [current EXCEPT ![op[p].entity] =
               [revision |-> op[p].revision + 1, state |-> new]]
          /\ trail' = [trail EXCEPT ![op[p].entity] = Append(@, new)]
      BY <2>2 DEF CallWrites
    <3>2. op[p] \in D!Frame /\ op[p] # NoOp /\ task' = task
      BY <1>2, CallEffect
    <3>3. PICK w \in WatchId : w = op[p].entity
      BY <3>2 DEF D!Frame
    <3>4. op[p].transition \in WatchTransition /\ op[p].old \in WatchState
          /\ op[p].revision \in Nat
      BY <3>2 DEF D!Frame
    <3>5. /\ op[p].old.kind = "Active" /\ task[p].watch = w
          /\ \/ /\ task[p].step = "observing"
                /\ op[p].transition = ObserveEvidence(task[p].evidence)
             \/ task[p].step = "apply" /\ op[p].transition = StopWatch
      BY <2>2, <3>1, <3>2, <3>3 DEF TaskHas
    <3>6. \/ task[p].step = "observing" /\ new = Active(task[p].evidence)
          \/ task[p].step = "apply" /\ new = Stopped(op[p].old.value)
      BY <2>2, <3>1, <3>4, <3>5, WatchApplyEffect
    <3>7. Extends(w, new)
      <4>1. current'[w] = [revision |-> op[p].revision + 1, state |-> new]
            /\ \A v \in WatchId \ {w} : current'[v] = current[v]
        BY <1>0, <3>1, <3>3
      <4>2. [revision |-> op[p].revision + 1, state |-> new] # NoRow
        BY <2>2, <3>4, Payloads, MissingRowAssumption
      <4>3. trail'[w] = Append(trail[w], new)
            /\ \A v \in WatchId \ {w} : trail'[v] = trail[v]
        BY <1>0, <3>1, <3>3
      <4>4. /\ current'[w] # NoRow /\ current'[w].state = new
            /\ current'[w].revision = op[p].revision + 1
        BY <4>1, <4>2
      <4>5. D!ActualRevision(w) = op[p].revision
        BY <3>1, <3>3
      <4> QED BY <4>1, <4>3, <4>4, <4>5 DEF Extends
    <3>8. Swaps(p, w, new)
      BY <2>2, <3>1, <3>2, <3>5, <3>6 DEF Swaps
    <3> QED BY <2>2, <3>1, <3>7, <3>8
  <2>3. UNCHANGED <<current, trail>> \/ \E new \in WatchState : CallWrites(p, new)
    BY <1>2, CallEffect
  <2> HIDE DEF Moved
  <2> QED BY <2>1, <2>2, <2>3
<1>3. ASSUME claim_run(p) \/ complete_run(p) PROVE Same
  <2>1. /\ task[p] # NoTask /\ task[p].tick \in Tick /\ task[p].watch \in WatchId
    BY <1>0, <1>3 DEF claim_run, complete_run, AtStep, TaskHas, RunSteps, Task
  <2>2. /\ trail' = trail
        /\ \E row : current' = [current EXCEPT ![RunKey(p)] = row]
    BY <1>3 DEF claim_run, complete_run, D!write_current
  <2>3. RunKey(p) \in Key \ WatchId
    BY <2>1, RunKeys DEF RunKey
  <2> QED BY <1>0, <2>2, <2>3
<1>4. ASSUME ~initialize_state(p), ~transition_step(p), ~claim_run(p),
             ~complete_run(p)
      PROVE  current' = current /\ trail' = trail
  <2>1. CASE RunStep(p)
    BY <1>4, <2>1 DEF RunStep, read_watch_schedule, read_watch_definition,
       lose_claim, replay_run, fetch_page, record_evidence, observe_evidence,
       observed, domain, D!append_history, D!begin, D!return, D!store
  <2>2. CASE WatchStep(p) \/ Failure(p)
    BY <1>4, <2>2 DEF WatchStep, Failure, record_definition, return_to_caller,
       transition_error, task_error, crash, domain, D!append_history,
       D!return, D!store_error, D!abandon, D!store
  <2>3. CASE \E w \in WatchId :
               \/ define_watch(p, w) \/ define_watch_schedule(p, w)
               \/ apply_watch_transition(p, w, StopWatch)
               \/ \E t \in Tick : execute_scheduled_watch_run(p, w, t)
    BY <2>3 DEF define_watch, define_watch_schedule, apply_watch_transition,
       execute_scheduled_watch_run, domain, D!append_history, D!begin, D!store
  <2> QED BY <2>1, <2>2, <2>3 DEF ActorStep, Progress
<1> QED
  BY <1>1, <1>2, <1>3, <1>4

\* What the trails say after a step: nothing observed is forgotten, and what
\* is new is what the actor's transition wrote.
LEMMA ObservedStep ==
    ASSUME ScheduleTypes, NEW p \in Process, TaskHas(p), ActorStep(p)
    PROVE  /\ \A w \in WatchId : \A e : HasObserved(w, e) => HasObserved(w, e)'
           /\ \A w \in WatchId : \A e \in Evidence :
                HasObserved(w, e)' =>
                  \/ HasObserved(w, e)
                  \/ /\ Swaps(p, w, Active(e)) /\ task[p].step = "observing"
                     /\ task[p].evidence = e
<1>0. trail \in [WatchId -> Seq(WatchState)]
  BY DEF ScheduleTypes
<1>1. CASE trail' = trail
  BY <1>1 DEF HasObserved
<1>2. ASSUME NEW w \in WatchId, NEW new \in WatchState, Extends(w, new),
             \/ new = Active(Nothing) /\ initialize_state(p)
             \/ Swaps(p, w, new)
      PROVE  /\ \A v \in WatchId : \A e : HasObserved(v, e) => HasObserved(v, e)'
             /\ \A v \in WatchId : \A e \in Evidence :
                  HasObserved(v, e)' =>
                    \/ HasObserved(v, e)
                    \/ /\ Swaps(p, v, Active(e)) /\ task[p].step = "observing"
                       /\ task[p].evidence = e
  <2>1. /\ trail[w] \in Seq(WatchState) /\ Len(trail[w]) \in Nat
        /\ trail'[w] = Append(trail[w], new)
        /\ \A v \in WatchId \ {w} : trail'[v] = trail[v]
    BY <1>0, <1>2 DEF Extends
  <2>2. /\ Len(trail'[w]) = Len(trail[w]) + 1
        /\ trail'[w][Len(trail[w]) + 1] = new
        /\ \A r \in 1 .. Len(trail[w]) : trail'[w][r] = trail[w][r]
    BY <2>1
  <2>3. \A e : HasObserved(w, e)' <=> HasObserved(w, e) \/ new = Active(e)
    BY <2>1, <2>2 DEF HasObserved
  <2>4. \A v \in WatchId \ {w} : \A e : HasObserved(v, e)' <=> HasObserved(v, e)
    BY <2>1 DEF HasObserved
  <2>5. ASSUME NEW e \in Evidence, new = Active(e)
        PROVE  /\ Swaps(p, w, Active(e)) /\ task[p].step = "observing"
               /\ task[p].evidence = e
    <3>1. new # Active(Nothing)
      BY <2>5, NothingAssumption DEF Active, Payload
    <3>2. Swaps(p, w, new)
      BY <1>2, <3>1
    <3>3. task[p].step = "observing" /\ new = Active(task[p].evidence)
      BY <2>5, <3>2 DEF Swaps, Active, Stopped, Payload
    <3> QED BY <2>5, <3>2, <3>3 DEF Active, Payload
  <2> QED BY <1>2, <2>3, <2>4, <2>5
<1> QED
  BY <1>1, <1>2, TrailStep

\* Every state of a watch stays resolvable.
LEMMA ResolvableStep ==
    ASSUME ScheduleTypes, TaskIsSound, StatesAreResolvable,
           \A q \in Process : ObservationIsSound(q),
           NEW p \in Process, ActorStep(p)
    PROVE  /\ StatesAreResolvable'
           /\ \A e : Recorded(e) => Recorded(e)'
<1>0. /\ TaskHas(p) /\ op \in [Process -> D!Frame \cup {NoOp}]
      /\ trail \in [WatchId -> Seq(WatchState)]
  BY DEF TaskIsSound, ScheduleTypes
<1>1. /\ history \subseteq history'
      /\ \A q \in Process \ {p} : task'[q] = task[q] /\ op'[q] = op[q]
  BY <1>0, TaskStep, StoreStep
<1>2. \A e : Recorded(e) => Recorded(e)'
  BY <1>1 DEF Recorded, D!history_exists
<1>3. \A s : Resolvable(s) => Resolvable(s)'
  BY <1>2 DEF Resolvable
<1>4. /\ \A w \in WatchId : current'[w] # NoRow => Resolvable(current[w].state)'
      /\ \A w \in WatchId : \A r \in 1 .. Len(trail'[w]) :
           Resolvable(trail[w][r])'
  <2>1. CASE trail' = trail /\ \A w \in WatchId : current'[w] = current[w]
    <3>1. \A w \in WatchId : current[w] # NoRow => Resolvable(current[w].state)'
      <4> TAKE w \in WatchId
      <4> HAVE current[w] # NoRow
      <4>1. current'[w].state = current[w].state
        BY <2>1
      <4>2. Resolvable(current[w].state)
        BY DEF StatesAreResolvable
      <4> QED BY <1>2, <4>1, <4>2 DEF Resolvable
    <3>2. \A w \in WatchId : \A r \in 1 .. Len(trail'[w]) :
            Resolvable(trail[w][r])'
      BY <1>2, <2>1 DEF Resolvable, StatesAreResolvable
    <3> QED BY <2>1, <3>1, <3>2
  <2>2. ASSUME NEW w \in WatchId, NEW new \in WatchState, Extends(w, new),
               \/ new = Active(Nothing) /\ initialize_state(p)
               \/ Swaps(p, w, new)
        PROVE  <1>4
    <3>1. Resolvable(new)
      <4>1. CASE new = Active(Nothing)
        BY <4>1, Payloads DEF Resolvable
      <4>2. CASE Swaps(p, w, new) /\ new = Active(task[p].evidence)
        <5>1. task[p].step = "observing" /\ task[p] # NoTask
          BY <1>0, <4>2, Payloads DEF Swaps, TaskHas
        <5> QED
          BY <4>2, <5>1, Payloads DEF Resolvable, ObservationIsSound, AtStep
      <4>3. CASE Swaps(p, w, new) /\ new = Stopped(op[p].old.value)
        BY <4>3, Payloads DEF Swaps, Resolvable, StatesAreResolvable
      <4> QED BY <2>2, <4>1, <4>2, <4>3 DEF Swaps
    <3>2. /\ trail'[w] = Append(trail[w], new) /\ current'[w].state = new
          /\ \A v \in WatchId \ {w} :
               trail'[v] = trail[v] /\ current'[v] = current[v]
      BY <2>2 DEF Extends
    <3>3. /\ Len(trail[w]) \in Nat /\ Len(trail'[w]) = Len(trail[w]) + 1
          /\ trail'[w][Len(trail[w]) + 1] = new
          /\ \A r \in 1 .. Len(trail[w]) : trail'[w][r] = trail[w][r]
      BY <1>0, <2>2, <3>2
    <3>4. \A v \in WatchId : current'[v] # NoRow => Resolvable(current[v].state)'
      BY <1>2, <3>1, <3>2 DEF Resolvable, StatesAreResolvable
    <3>5. \A v \in WatchId \ {w} : \A r \in 1 .. Len(trail'[v]) :
            Resolvable(trail[v][r])'
      BY <1>2, <3>2 DEF Resolvable, StatesAreResolvable
    <3>6. \A r \in 1 .. Len(trail'[w]) : Resolvable(trail[w][r])'
      <4> TAKE r \in 1 .. Len(trail'[w])
      <4>1. CASE r = Len(trail[w]) + 1
        BY <1>2, <3>1, <3>3, <4>1 DEF Resolvable
      <4>2. CASE r \in 1 .. Len(trail[w])
        BY <1>2, <2>2, <3>3, <4>2 DEF Resolvable, StatesAreResolvable
      <4> QED BY <3>3, <4>1, <4>2
    <3> QED BY <3>4, <3>5, <3>6
  <2> QED BY <1>0, <2>1, <2>2, TrailStep
<1>5. ASSUME NEW q \in Process, op'[q] # NoOp, op'[q].stage = "write"
      PROVE  Resolvable(op[q].old)'
  <2>1. CASE op'[q] = op[q]
    BY <1>2, <1>5, <2>1 DEF Resolvable, StatesAreResolvable
  <2>2. CASE q = p /\ transition_step(p)
    <3>1. /\ op[p] \in D!Frame /\ current[op[p].entity] # NoRow
          /\ op'[p].old = current[op[p].entity].state
      BY <1>0, <1>5, <2>2, CallEffect DEF CallWrites
    <3>2. op[p].entity \in WatchId
      BY <3>1 DEF D!Frame
    <3> QED
      BY <1>2, <2>2, <3>1, <3>2 DEF Resolvable, StatesAreResolvable
  <2>3. CASE q = p /\ ~transition_step(p) /\ op'[p] # op[p]
    <3>1. op'[p] = NoOp \/ op'[p].stage \in {"read", "failed"}
      <4>1. CASE RunStep(p)
        <5>1. observe_evidence(p) \/ observed(p)
          BY <2>3, <4>1 DEF RunStep, read_watch_schedule,
             read_watch_definition, claim_run, lose_claim, replay_run, domain,
             fetch_page, record_evidence, complete_run
        <5>2. CASE observe_evidence(p)
          BY <1>0, <5>2 DEF observe_evidence, D!begin
        <5>3. CASE observed(p)
          BY <1>0, <5>3 DEF observed, D!return
        <5> QED BY <5>1, <5>2, <5>3
      <4>2. CASE WatchStep(p) \/ Failure(p)
        BY <1>0, <2>3, <4>2, OpMoves DEF WatchStep, Failure, domain,
           record_definition, initialize_state, D!create, return_to_caller,
           transition_error, task_error, crash
      <4>3. CASE \E w \in WatchId :
                   \/ define_watch(p, w) \/ define_watch_schedule(p, w)
                   \/ apply_watch_transition(p, w, StopWatch)
                   \/ \E t \in Tick : execute_scheduled_watch_run(p, w, t)
        BY <1>0, <2>3, <4>3, OpMoves, Payloads DEF define_watch, domain,
           define_watch_schedule, apply_watch_transition,
           execute_scheduled_watch_run
      <4> QED BY <4>1, <4>2, <4>3 DEF ActorStep, Progress
    <3> QED BY <1>5, <2>3, <3>1
  <2> QED BY <1>1, <2>1, <2>2, <2>3
<1> QED
  BY <1>2, <1>4, <1>5 DEF StatesAreResolvable

\* No evidence is observed twice.
LEMMA ObservedOnceStep ==
    ASSUME ScheduleTypes, TaskIsSound, ObservedOnce,
           \A q \in Process : ObservationIsSound(q),
           NEW p \in Process, ActorStep(p)
    PROVE  ObservedOnce'
<1>0. TaskHas(p) /\ trail \in [WatchId -> Seq(WatchState)]
  BY DEF TaskIsSound, ScheduleTypes
<1>1. CASE trail' = trail
  BY <1>1 DEF ObservedOnce
<1>2. ASSUME NEW w \in WatchId, NEW new \in WatchState, Extends(w, new),
             \/ new = Active(Nothing) /\ initialize_state(p)
             \/ Swaps(p, w, new)
      PROVE  ObservedOnce'
  <2>1. /\ Len(trail[w]) \in Nat /\ Len(trail'[w]) = Len(trail[w]) + 1
        /\ trail'[w][Len(trail[w]) + 1] = new
        /\ \A r \in 1 .. Len(trail[w]) : trail'[w][r] = trail[w][r]
        /\ \A v \in WatchId \ {w} : trail'[v] = trail[v]
    <3>1. trail'[w] = Append(trail[w], new) /\ trail[w] \in Seq(WatchState)
      BY <1>0, <1>2 DEF Extends
    <3> QED BY <1>2, <3>1 DEF Extends
  <2>2. ASSUME new.kind = "Active", new.value # Nothing,
               NEW r \in 1 .. Len(trail[w])
        PROVE  trail[w][r] # new
    <3>1. new # Active(Nothing) /\ \A e : new # Stopped(e)
      BY <2>2, Payloads
    <3>2. /\ op[p] # NoOp /\ op[p].stage = "write"
          /\ task[p].step = "observing" /\ new = Active(task[p].evidence)
      BY <1>2, <3>1 DEF Swaps
    <3>3. AtStep(p, "observing")
      BY <1>0, <3>2 DEF TaskHas, AtStep
    <3>4. ~HasObserved(w, task[p].evidence)
      BY <1>2, <3>2, <3>3 DEF ObservationIsSound, NotYetObserved
    <3> QED BY <2>2, <3>2, <3>4 DEF HasObserved
  <2> SUFFICES ASSUME NEW v \in WatchId,
                      NEW r \in 1 .. Len(trail'[v]), NEW s \in 1 .. Len(trail'[v]),
                      trail'[v][r] = trail'[v][s], trail'[v][r].kind = "Active",
                      trail'[v][r].value # Nothing
               PROVE  r = s
    BY DEF ObservedOnce
  <2>3. CASE v # w
    BY <2>1, <2>3 DEF ObservedOnce
  <2>4. CASE v = w
    <3>1. CASE r \in 1 .. Len(trail[w]) /\ s \in 1 .. Len(trail[w])
      BY <1>2, <2>1, <2>4, <3>1 DEF ObservedOnce
    <3>2. CASE r = Len(trail[w]) + 1 /\ s \in 1 .. Len(trail[w])
      BY <2>1, <2>2, <2>4, <3>2
    <3>3. CASE r \in 1 .. Len(trail[w]) /\ s = Len(trail[w]) + 1
      BY <2>1, <2>2, <2>4, <3>3
    <3> QED BY <2>1, <2>4, <3>1, <3>2, <3>3
  <2> QED BY <2>3, <2>4
<1> QED
  BY <1>0, <1>1, <1>2, TrailStep

\* How the actor's own run moves along its evidence.
LEMMA RunMoves ==
    ASSUME ScheduleTypes, NEW p \in Process, TaskHas(p), ActorStep(p)
    PROVE  \/ ~HasMinted(p)'
           \/ fetch_page(p) /\ task'[p] # NoTask /\ task'[p].step = "record"
           \/ /\ HasMinted(p) /\ task'[p].evidence = task[p].evidence
              /\ task'[p].watch = task[p].watch
              /\ \/ record_evidence(p) /\ task'[p].step = "observe"
                 \/ /\ observe_evidence(p) /\ task'[p].step = "observing"
                    /\ op'[p].stage = "read"
                 \/ /\ observed(p) /\ op[p].stage = "ok" /\ op[p] # NoOp
                    /\ task'[p].step = "complete"
                 \/ transition_step(p) /\ task' = task
                 \/ /\ transition_error(p) /\ op'[p].stage = "failed"
                    /\ task' = task
<1>0. /\ task \in [Process -> Task \cup {NoTask}]
      /\ op \in [Process -> D!Frame \cup {NoOp}]
  BY DEF ScheduleTypes
<1>1. ASSUME End(p) PROVE ~HasMinted(p)'
  BY <1>1, TaskMoves DEF HasMinted
<1>2. ASSUME NEW s \in Step \ EvidenceSteps, Goto(p, s), task[p] # NoTask
      PROVE  ~HasMinted(p)'
  BY <1>2, TaskMoves DEF HasMinted
<1>3. ASSUME NEW s \in Step, Goto(p, s), task[p] # NoTask,
             task[p].step \in EvidenceSteps
      PROVE  /\ HasMinted(p) /\ task'[p].evidence = task[p].evidence
             /\ task'[p].watch = task[p].watch /\ task'[p].step = s
  BY <1>3, TaskMoves DEF HasMinted
<1>4. CASE read_watch_schedule(p) \/ read_watch_definition(p) \/ claim_run(p)
           \/ lose_claim(p) \/ replay_run(p) \/ complete_run(p)
           \/ record_definition(p) \/ initialize_state(p) \/ return_to_caller(p)
           \/ task_error(p) \/ crash(p)
  <2>1. End(p) \/ \E s \in {"read_definition", "claim", "fetch", "replay",
                            "initialize"} : Goto(p, s) /\ task[p] # NoTask
    BY <1>4 DEF read_watch_schedule, read_watch_definition, claim_run,
       lose_claim, replay_run, complete_run, record_definition,
       initialize_state, return_to_caller, task_error, crash, AtStep
  <2> QED BY <1>1, <1>2, <2>1 DEF Step, EvidenceSteps
<1>5. CASE fetch_page(p)
  <2>1. /\ task[p] # NoTask /\ task[p] \in Task
        /\ \/ End(p)
           \/ \E e \in Evidence :
                task' = [task EXCEPT ![p] =
                           [@ EXCEPT !.step = "record", !.evidence = e]]
    BY <1>0, <1>5 DEF fetch_page, AtStep
  <2>2. ASSUME NEW e \in Evidence,
               task' = [task EXCEPT ![p] =
                          [@ EXCEPT !.step = "record", !.evidence = e]]
        PROVE  task'[p].step = "record" /\ (task'[p] # NoTask \/ ~HasMinted(p)')
    BY <1>0, <2>1, <2>2 DEF Task, HasMinted
  <2> QED BY <1>1, <1>5, <2>1, <2>2
<1>6. CASE record_evidence(p)
  <2>1. task[p] # NoTask /\ task[p].step = "record" /\ Goto(p, "observe")
    BY <1>6 DEF record_evidence, AtStep
  <2> QED BY <1>3, <1>6, <2>1 DEF Step, EvidenceSteps
<1>7. CASE observe_evidence(p)
  <2>1. /\ task[p] # NoTask /\ task[p].step = "observe" /\ Goto(p, "observing")
        /\ op'[p].stage = "read"
    BY <1>0, <1>7 DEF observe_evidence, AtStep, D!begin
  <2> QED BY <1>3, <1>7, <2>1 DEF Step, EvidenceSteps
<1>8. CASE observed(p)
  <2>1. /\ task[p] # NoTask /\ task[p].step = "observing" /\ op[p] # NoOp
        /\ End(p) \/ (op[p].stage = "ok" /\ Goto(p, "complete"))
    BY <1>8 DEF observed, AtStep, D!return
  <2> QED BY <1>1, <1>3, <1>8, <2>1 DEF Step, EvidenceSteps
<1>9. CASE transition_step(p)
  BY <1>9 DEF transition_step, HasMinted
<1>10. CASE transition_error(p)
  BY <1>10, OpMoves DEF transition_error, HasMinted
<1>11. ASSUME NEW w \in WatchId,
              \/ define_watch(p, w) \/ apply_watch_transition(p, w, StopWatch)
              \/ define_watch_schedule(p, w)
              \/ \E t \in Tick : execute_scheduled_watch_run(p, w, t)
       PROVE  ~HasMinted(p)'
  <2>1. \/ task' = task /\ task[p] = NoTask
        \/ \E s \in {"define", "apply", "read_schedule"},
              t \in Tick \cup {Nothing} : Start(p, s, w, t, Nothing, Nothing)
    BY <1>11 DEF define_watch, apply_watch_transition, define_watch_schedule,
       execute_scheduled_watch_run, Idle
  <2>2. task'[p] = NoTask \/ task'[p].step \in {"define", "apply", "read_schedule"}
    BY <1>11, <2>1, TaskMoves DEF Step
  <2> QED BY <2>2 DEF HasMinted, EvidenceSteps
<1> QED
  <2>1. CASE RunStep(p)
    BY <1>4, <1>5, <1>6, <1>7, <1>8, <2>1 DEF RunStep
  <2>2. CASE WatchStep(p) \/ Failure(p)
    BY <1>4, <1>9, <1>10, <2>2 DEF WatchStep, Failure
  <2> QED BY <1>11, <2>1, <2>2 DEF ActorStep, Progress

\* The evidence of the ledger, of the watches and of the run records agree
\* after every step.
LEMMA EvidenceStep ==
    ASSUME ScheduleTypes, TaskIsSound, ClaimsAreSound, EvidenceIsSound,
           NEW p \in Process, ActorStep(p)
    PROVE  EvidenceIsSound'
<1>0. /\ TaskHas(p) /\ StatesAreResolvable /\ EvidenceIsOwned /\ ObservedOnce
      /\ \A q \in Process : ObservationIsSound(q)
      /\ CompletedRunIsBacked
      /\ task \in [Process -> Task \cup {NoTask}]
      /\ trail \in [WatchId -> Seq(WatchState)]
  BY DEF TaskIsSound, EvidenceIsSound, ScheduleTypes
<1>1. /\ StatesAreResolvable' /\ ObservedOnce'
      /\ \A e : Recorded(e) => Recorded(e)'
  BY <1>0, ResolvableStep, ObservedOnceStep
<1>2. \A q \in Process \ {p} :
        /\ task'[q] = task[q] /\ op'[q] = op[q]
        /\ HasMinted(q)' <=> HasMinted(q)
        /\ \A s : AtStep(q, s)' <=> AtStep(q, s)
  BY <1>0, TaskStep DEF HasMinted, AtStep
<1>3. \A q \in Process : HasMinted(q) => task[q].evidence \in Evidence
  BY DEF HasMinted, TaskIsSound, TaskHas
<1>4. /\ \A w \in WatchId : \A e : HasObserved(w, e) => HasObserved(w, e)'
      /\ \A w \in WatchId : \A e \in Evidence :
           HasObserved(w, e)' =>
             \/ HasObserved(w, e)
             \/ /\ Swaps(p, w, Active(e)) /\ task[p].step = "observing"
                /\ task[p].evidence = e
  BY <1>0, ObservedStep
<1>5. EvidenceIsOwned'
  <2>1. CASE HasMinted(p) /\ task'[p].evidence = task[p].evidence
    BY <1>0, <1>2, <2>1 DEF EvidenceIsOwned
  <2>2. CASE ~HasMinted(p)'
    BY <1>0, <1>2, <2>2 DEF EvidenceIsOwned
  <2>3. CASE fetch_page(p) /\ HasMinted(p)'
    <3>1. PICK e \in Evidence :
            /\ ~Recorded(e)
            /\ \A q \in Process : ~(AtStep(q, "record") /\ task[q].evidence = e)
            /\ task' = [task EXCEPT ![p] =
                          [@ EXCEPT !.step = "record", !.evidence = e]]
      BY <1>0, <2>3, TaskMoves DEF fetch_page, Recorded, HasMinted
    <3>2. task[p] \in Task
      BY <1>0, <2>3 DEF fetch_page, AtStep
    <3>3. task'[p].evidence = e
      BY <1>0, <3>1, <3>2 DEF Task
    <3>4. ASSUME NEW q \in Process \ {p}, HasMinted(q)
          PROVE  task[q].evidence # e
      <4>1. CASE AtStep(q, "record")
        BY <3>1, <4>1
      <4>2. CASE ~AtStep(q, "record")
        <5>1. \/ AtStep(q, "observe") \/ AtStep(q, "observing")
              \/ AtStep(q, "complete")
          BY <3>4, <4>2 DEF HasMinted, EvidenceSteps, AtStep
        <5> QED BY <1>0, <3>1, <3>4, <5>1 DEF ObservationIsSound
      <4> QED BY <4>1, <4>2
    <3> QED BY <1>0, <1>2, <3>3, <3>4 DEF EvidenceIsOwned
  <2> QED BY <1>0, <2>1, <2>2, <2>3, RunMoves
<1>6. ASSUME NEW q \in Process \ {p} PROVE ObservationIsSound(q)'
  <2>1. ObservationIsSound(q)
    BY <1>0
  <2>2. (NotYetObserved(q)' <=> NotYetObserved(q))
        /\ (AlreadyObserved(q)' <=> AlreadyObserved(q))
        /\ task'[q] = task[q]
    BY <1>2 DEF NotYetObserved, AlreadyObserved
  <2>3. NotYetObserved(q) \/ AlreadyObserved(q) =>
          /\ HasMinted(q) /\ task[q] # NoTask /\ task[q] \in Task
    BY <1>0 DEF NotYetObserved, AlreadyObserved, AtStep, HasMinted, EvidenceSteps
  <2>4. NotYetObserved(q)' =>
          \A w \in WatchId : ~HasObserved(w, task[q].evidence)'
    <3> SUFFICES ASSUME NotYetObserved(q), NEW w \in WatchId,
                        HasObserved(w, task[q].evidence)'
                 PROVE  FALSE
      BY <2>2
    <3>1. PICK e \in Evidence : e = task[q].evidence
      BY <1>3, <2>3
    <3>2. HasObserved(w, e)'
      BY <2>2, <3>1 DEF HasObserved
    <3>3. ~HasObserved(w, e)
      BY <2>1, <3>1 DEF ObservationIsSound
    <3>4. op[p] # NoOp /\ task[p].step = "observing" /\ task[p].evidence = e
      BY <1>4, <3>2, <3>3 DEF Swaps
    <3>5. HasMinted(p)
      BY <1>0, <3>4 DEF TaskHas, HasMinted, EvidenceSteps
    <3> QED BY <1>0, <2>3, <3>1, <3>4, <3>5 DEF EvidenceIsOwned
  <2>5. AlreadyObserved(q)' => HasObserved(task[q].watch, task[q].evidence)'
    <3> SUFFICES ASSUME AlreadyObserved(q)
                 PROVE  HasObserved(task[q].watch, task[q].evidence)'
      BY <2>2
    <3>1. PICK w \in WatchId : w = task[q].watch
      BY <2>3 DEF Task
    <3>2. PICK e : e = task[q].evidence
      OBVIOUS
    <3>3. HasObserved(w, e)'
      BY <1>4, <2>1, <3>1, <3>2 DEF ObservationIsSound
    <3> QED BY <2>2, <3>1, <3>2, <3>3 DEF HasObserved
  <2>6. AtStep(q, "observe")' \/ AtStep(q, "observing")' \/ AtStep(q, "complete")'
          => Recorded(task[q].evidence)'
    <3>1. AtStep(q, "observe") \/ AtStep(q, "observing") \/ AtStep(q, "complete")
            => Recorded(task[q].evidence)
      BY <2>1 DEF ObservationIsSound
    <3>2. \A e : e = task[q].evidence /\ Recorded(e)
                   => Recorded(task[q].evidence)'
      BY <1>1, <2>2 DEF Recorded
    <3> QED BY <1>2, <3>1, <3>2
  <2> QED BY <2>4, <2>5, <2>6 DEF ObservationIsSound
<1>7. ObservationIsSound(p)'
  <2>1. CASE ~HasMinted(p)'
    BY <2>1 DEF ObservationIsSound, NotYetObserved, AlreadyObserved, AtStep,
       HasMinted, EvidenceSteps
  <2>2. CASE task'[p] # NoTask /\ task'[p].step = "record"
    BY <2>2 DEF ObservationIsSound, NotYetObserved, AlreadyObserved, AtStep
  <2>3. ASSUME HasMinted(p), task'[p].evidence = task[p].evidence,
               task'[p].watch = task[p].watch,
               NEW e \in Evidence, e = task[p].evidence,
               NEW w \in WatchId, w = task[p].watch,
               Recorded(e)' \/ HasMinted(p)' = FALSE,
               NotYetObserved(p)' => \A v \in WatchId : ~HasObserved(v, e)',
               AlreadyObserved(p)' => HasObserved(w, e)'
        PROVE  ObservationIsSound(p)'
    <3>1. /\ Recorded(task[p].evidence)' <=> Recorded(e)'
          /\ \A v : HasObserved(v, task[p].evidence)' <=> HasObserved(v, e)'
          /\ HasObserved(task[p].watch, task[p].evidence)' <=> HasObserved(w, e)'
      BY <2>3 DEF Recorded, HasObserved
    <3> QED
      BY <2>3, <3>1 DEF ObservationIsSound, AtStep, HasMinted, EvidenceSteps
  <2>4. CASE /\ HasMinted(p) /\ task'[p].evidence = task[p].evidence
             /\ task'[p].watch = task[p].watch
             /\ \/ record_evidence(p) /\ task'[p].step = "observe"
                \/ /\ observe_evidence(p) /\ task'[p].step = "observing"
                   /\ op'[p].stage = "read"
                \/ /\ observed(p) /\ op[p].stage = "ok" /\ op[p] # NoOp
                   /\ task'[p].step = "complete"
                \/ transition_step(p) /\ task' = task
                \/ /\ transition_error(p) /\ op'[p].stage = "failed"
                   /\ task' = task
    <3>1. PICK e \in Evidence : e = task[p].evidence
      BY <1>3, <2>4
    <3>2. PICK w \in WatchId : w = task[p].watch
      BY <1>0, <2>4 DEF HasMinted, Task
    <3>3. \A v \in WatchId : HasObserved(v, e)' /\ ~HasObserved(v, e) =>
            op[p] # NoOp /\ op[p].stage = "write" /\ op'[p].stage = "append"
      BY <1>4 DEF Swaps
    <3>4. CASE record_evidence(p) /\ task'[p].step = "observe"
      <4>1. /\ ~Recorded(e) /\ Recorded(e)'
            /\ task[p].step = "record"
        <5>1. PICK bundle : D!append_history(task[p].evidence, 1, bundle)
          BY <3>4 DEF record_evidence
        <5>2. [identity |-> e, revision |-> 1, state |-> bundle] \in history'
          BY <3>1, <5>1 DEF D!append_history
        <5>3. Recorded(e)'
          BY <5>2 DEF Recorded, D!history_exists
        <5> QED
          BY <3>1, <3>4, <5>1, <5>3
             DEF D!append_history, Recorded, record_evidence, AtStep
      <4>2. \A v \in WatchId : ~HasObserved(v, e)
        BY <1>0, <4>1, Payloads, NothingAssumption
           DEF StatesAreResolvable, HasObserved, Resolvable
      <4>3. \A v \in WatchId : ~HasObserved(v, e)'
        BY <1>4, <4>1, <4>2
      <4>4. ~AlreadyObserved(p)'
        BY <3>4 DEF AlreadyObserved, AtStep
      <4> QED BY <2>3, <2>4, <3>1, <3>2, <4>1, <4>3, <4>4
    <3>5. CASE /\ observe_evidence(p) /\ task'[p].step = "observing"
               /\ op'[p].stage = "read"
      <4>1. AtStep(p, "observe")
        BY <3>5 DEF observe_evidence
      <4>2. Recorded(e)' /\ \A v \in WatchId : ~HasObserved(v, e)
        BY <1>0, <1>1, <3>1, <4>1 DEF ObservationIsSound, NotYetObserved
      <4>3. \A v \in WatchId : ~HasObserved(v, e)'
        BY <3>3, <3>5, <4>2
      <4>4. ~AlreadyObserved(p)'
        BY <3>5 DEF AlreadyObserved, AtStep
      <4> QED BY <2>3, <2>4, <3>1, <3>2, <4>2, <4>3, <4>4
    <3>6. CASE /\ observed(p) /\ op[p].stage = "ok" /\ op[p] # NoOp
               /\ task'[p].step = "complete"
      <4>1. AtStep(p, "observing")
        BY <3>6 DEF observed
      <4>2. Recorded(e)' /\ HasObserved(w, e)'
        BY <1>0, <1>1, <1>4, <3>1, <3>2, <3>6, <4>1
           DEF ObservationIsSound, AlreadyObserved
      <4>3. ~NotYetObserved(p)'
        BY <3>6 DEF NotYetObserved, AtStep
      <4> QED BY <2>3, <2>4, <3>1, <3>2, <4>2, <4>3
    <3>7. CASE transition_step(p) /\ task' = task
      <4>1. /\ \A s : AtStep(p, s)' <=> AtStep(p, s)
            /\ ~AtStep(p, "observe") /\ ~AtStep(p, "complete")
            /\ op[p] # NoOp
        BY <1>0, <3>7, CallEffect DEF AtStep, TaskHas
      <4>2. AtStep(p, "observing")
        BY <1>0, <2>4, <4>1 DEF TaskHas, HasMinted, EvidenceSteps, AtStep
      <4>3. Recorded(e)'
        BY <1>0, <1>1, <3>1, <4>2 DEF ObservationIsSound
      <4>4. \/ /\ op[p].stage = "read"
               /\ op'[p].stage \in {"not_found", "rejected", "write"}
            \/ op[p].stage = "write" /\ op'[p].stage = "conflict"
            \/ /\ op[p].stage = "write" /\ op'[p].stage = "append"
               /\ HasObserved(w, e)'
            \/ op[p].stage = "append" /\ op'[p].stage = "ok"
        <5>1. ASSUME NEW new \in WatchState, CallWrites(p, new)
              PROVE  /\ op[p].stage = "write" /\ op'[p].stage = "append"
                     /\ HasObserved(w, e)'
          <6>1. /\ op[p].stage = "write" /\ op'[p].stage = "append"
                /\ new = WatchApply[op[p].transition][op[p].old]
                /\ trail' = [trail EXCEPT ![w] = Append(@, new)]
            BY <1>0, <3>2, <4>1, <5>1 DEF CallWrites, TaskHas
          <6>2. /\ op[p].transition = ObserveEvidence(e)
                /\ op[p].old.kind = "Active" /\ op[p].old \in WatchState
            BY <1>0, <3>1, <3>7, <4>1, <4>2, <6>1, CallEffect
               DEF TaskHas, AtStep, D!Frame
          <6>3. new = Active(e)
            BY <6>1, <6>2, WatchApplyEffect, Payloads
          <6>4. trail'[w] = Append(trail[w], new) /\ trail[w] \in Seq(WatchState)
            BY <1>0, <6>1
          <6>5. /\ Len(trail[w]) + 1 \in 1 .. Len(trail'[w])
                /\ trail'[w][Len(trail[w]) + 1] = Active(e)
            BY <5>1, <6>3, <6>4
          <6> QED BY <6>1, <6>5 DEF HasObserved
        <5> QED BY <1>0, <3>7, <5>1, CallEffect
      <4>5. NotYetObserved(p)' => \A v \in WatchId : ~HasObserved(v, e)'
        <5> SUFFICES ASSUME NotYetObserved(p)'
                     PROVE  \A v \in WatchId : ~HasObserved(v, e)'
          OBVIOUS
        <5>1. op[p].stage = "read" /\ op'[p].stage = "write"
          BY <4>1, <4>4 DEF NotYetObserved
        <5>2. NotYetObserved(p)
          BY <4>1, <4>2, <5>1 DEF NotYetObserved
        <5> QED BY <1>0, <3>1, <3>3, <5>1, <5>2 DEF ObservationIsSound
      <4>6. AlreadyObserved(p)' => HasObserved(w, e)'
        <5> SUFFICES ASSUME AlreadyObserved(p)', ~HasObserved(w, e)' PROVE FALSE
          OBVIOUS
        <5>1. op[p].stage = "append"
          BY <4>1, <4>4 DEF AlreadyObserved
        <5>2. AlreadyObserved(p)
          BY <4>1, <4>2, <5>1 DEF AlreadyObserved
        <5> QED BY <1>0, <1>4, <3>1, <3>2, <5>2 DEF ObservationIsSound
      <4> QED BY <2>3, <2>4, <3>1, <3>2, <4>3, <4>5, <4>6
    <3>8. CASE /\ transition_error(p) /\ op'[p].stage = "failed"
               /\ task' = task
      <4>1. /\ \A s : AtStep(p, s)' <=> AtStep(p, s)
            /\ ~AtStep(p, "observe") /\ ~AtStep(p, "complete")
            /\ op[p] # NoOp
        BY <1>0, <3>8, OpMoves DEF AtStep, TaskHas, transition_error
      <4>2. AtStep(p, "observing")
        BY <1>0, <2>4, <4>1 DEF TaskHas, HasMinted, EvidenceSteps, AtStep
      <4>3. Recorded(e)'
        BY <1>0, <1>1, <3>1, <4>2 DEF ObservationIsSound
      <4>4. ~NotYetObserved(p)' /\ ~AlreadyObserved(p)'
        BY <3>8, <4>1 DEF NotYetObserved, AlreadyObserved
      <4> QED BY <2>3, <2>4, <3>1, <3>2, <4>3, <4>4
    <3> QED BY <2>4, <3>4, <3>5, <3>6, <3>7, <3>8
  <2> QED BY <1>0, <2>1, <2>2, <2>4, RunMoves
<1>8. CompletedRunIsBacked'
  <2>1. ASSUME NEW run \in Run, NEW e, RunRow(run)' # NoRow,
               RunRow(run)'.state # Claimed, e = RunRow(run)'.state.value
        PROVE  Recorded(e) /\ HasObserved(run[1], e)
    <3>1. CASE RunRow(run)' = RunRow(run)
      BY <1>0, <2>1, <3>1 DEF CompletedRunIsBacked, Recorded, HasObserved
    <3>2. CASE claim_run(p)
      <4>1. /\ task[p] # NoTask /\ task[p].step = "claim"
            /\ D!write_current(RunKey(p), 0, Claimed)
        BY <3>2 DEF claim_run, AtStep
      <4>2. PICK r \in Run : RunKey(p) = <<"run", r[1], r[2]>>
        BY <4>1, TaskRunKeys DEF RunSteps
      <4>3. /\ RunRow(r)'.state = Claimed
            /\ \A other \in Run \ {r} : RunRow(other)' = RunRow(other)
        BY <4>1, <4>2, RunWrite, Payloads
      <4> QED BY <2>1, <3>1, <4>3
    <3>3. CASE complete_run(p)
      <4>1. /\ task[p] # NoTask /\ task[p].step = "complete"
            /\ D!write_current(RunKey(p), 1, Completed(task[p].evidence))
        BY <3>3 DEF complete_run, AtStep
      <4>2. PICK r \in Run : /\ RunKey(p) = <<"run", r[1], r[2]>>
                             /\ r = <<task[p].watch, unix_seconds(task[p].tick)>>
        BY <4>1, TaskRunKeys DEF RunSteps
      <4>3. task[p].evidence \in Evidence
        BY <1>3, <4>1 DEF HasMinted, EvidenceSteps
      <4>4. /\ RunRow(r)'.state = Completed(task[p].evidence)
            /\ \A other \in Run \ {r} : RunRow(other)' = RunRow(other)
        BY <4>1, <4>2, <4>3, RunWrite, Payloads
      <4>5. Recorded(task[p].evidence)
            /\ HasObserved(task[p].watch, task[p].evidence)
        BY <1>0, <4>1 DEF ObservationIsSound, AlreadyObserved, AtStep
      <4> QED BY <2>1, <3>1, <4>2, <4>3, <4>4, <4>5, Payloads
    <3> QED BY <1>0, <3>1, <3>2, <3>3, StoreStep
  <2>2. ASSUME NEW run \in Run, NEW e, RunRow(run)' # NoRow,
               RunRow(run)'.state # Claimed, e = RunRow(run)'.state.value
        PROVE  Recorded(e)' /\ HasObserved(run[1], e)'
    <3>1. run[1] \in WatchId
      BY <2>2 DEF Run
    <3> QED BY <1>1, <1>4, <2>1, <2>2, <3>1
  <2> QED
    BY <2>2 DEF CompletedRunIsBacked, Recorded, HasObserved, RunRow
<1> QED
  BY <1>1, <1>5, <1>6, <1>7, <1>8 DEF EvidenceIsSound

----------------------------------------------------------------------------
\* Initially nothing is stored and nobody works.
LEMMA ScheduleInitInv == ScheduleInit => ScheduleInv
<1> SUFFICES ASSUME ScheduleInit PROVE ScheduleInv
  OBVIOUS
<1>1. /\ current = [k \in Key |-> NoRow] /\ history = {}
      /\ op = [p \in Process |-> NoOp] /\ trail = [w \in WatchId |-> <<>>]
      /\ task = [p \in Process |-> NoTask]
      /\ fetches = [run \in Run |-> 0] /\ answers = {}
  BY DEF ScheduleInit, WatchInit, D!DomainInit, D!StoreInit
<1>2. \A w \in WatchId : trail[w] = <<>> /\ current[w] = NoRow
  BY <1>1, RunKeys
<1>3. \A run \in Run : RunRow(run) = NoRow
  BY <1>1, RunKeys DEF RunRow
<1>4. \A p \in Process : task[p] = NoTask /\ op[p] = NoOp
  BY <1>1
<1>5. ScheduleTypes
  BY <1>1, <1>2 DEF ScheduleTypes
<1>6. TaskIsSound
  BY <1>4 DEF TaskIsSound, TaskHas
<1>7. ClaimsAreSound
  BY <1>1, <1>3, <1>4 DEF ClaimsAreSound, RunIsSound, ClaimIsExclusive, Owns,
     ClaimantIsSound, AtStep
<1>8. EvidenceIsSound
  <2>1. StatesAreResolvable /\ ObservedOnce
    BY <1>2, <1>4 DEF StatesAreResolvable, ObservedOnce
  <2>2. EvidenceIsOwned
    BY <1>4 DEF EvidenceIsOwned, HasMinted
  <2>3. \A p \in Process : ObservationIsSound(p)
    BY <1>4 DEF ObservationIsSound, NotYetObserved, AlreadyObserved, AtStep
  <2>4. CompletedRunIsBacked
    BY <1>3 DEF CompletedRunIsBacked
  <2> QED BY <2>1, <2>2, <2>3, <2>4 DEF EvidenceIsSound
<1> QED
  BY <1>5, <1>6, <1>7, <1>8 DEF ScheduleInv

\* Every step keeps the invariant.
LEMMA ScheduleStepInv ==
    ScheduleInv /\ [ScheduleNext]_scheduleVars => ScheduleInv'
<1> SUFFICES ASSUME ScheduleInv, [ScheduleNext]_scheduleVars PROVE ScheduleInv'
  OBVIOUS
<1>0. ScheduleTypes /\ TaskIsSound /\ ClaimsAreSound /\ EvidenceIsSound
  BY DEF ScheduleInv
<1>1. ASSUME NEW p \in Process, ActorStep(p) PROVE ScheduleInv'
  <2>1. TaskHas(p)
    BY <1>0 DEF TaskIsSound
  <2>2. ScheduleTypes' /\ ClaimsAreSound' /\ EvidenceIsSound'
    BY <1>0, <1>1, <2>1, StoreStep, ClaimStep, EvidenceStep
  <2>3. ASSUME NEW q \in Process PROVE TaskHas(q)'
    <3>1. CASE q = p
      BY <1>0, <1>1, <2>1, <3>1, TaskStep
    <3>2. CASE q # p
      BY <1>0, <1>1, <2>1, <2>3, <3>2, TaskStep DEF TaskIsSound, TaskHas
    <3> QED BY <3>1, <3>2
  <2> QED BY <2>2, <2>3 DEF ScheduleInv, TaskIsSound
<1>2. CASE UNCHANGED scheduleVars
  <2>1. UNCHANGED <<current, history, op, trail, task, fetches, answers>>
    BY <1>2 DEF scheduleVars
  <2>2. ScheduleTypes' /\ TaskIsSound'
    BY <1>0, <2>1 DEF ScheduleTypes, TaskIsSound, TaskHas
  <2>3. ClaimsAreSound'
    BY <1>0, <2>1 DEF ClaimsAreSound, RunIsSound, ClaimIsExclusive, Owns,
       ClaimantIsSound, AtStep, AnswerIsStored, RunRow, TaskRun
  <2>4. EvidenceIsSound'
    <3>1. StatesAreResolvable' /\ EvidenceIsOwned' /\ ObservedOnce'
      BY <1>0, <2>1 DEF EvidenceIsSound, StatesAreResolvable, EvidenceIsOwned,
         ObservedOnce, HasMinted, Resolvable, Recorded, D!history_exists
    <3>2. \A p \in Process : ObservationIsSound(p)'
      BY <1>0, <2>1 DEF EvidenceIsSound, ObservationIsSound, NotYetObserved,
         AlreadyObserved, AtStep, HasObserved, Recorded, D!history_exists
    <3>3. CompletedRunIsBacked'
      BY <1>0, <2>1 DEF EvidenceIsSound, CompletedRunIsBacked, RunRow,
         D!history_exists
    <3> QED BY <3>1, <3>2, <3>3 DEF EvidenceIsSound
  <2> QED BY <2>2, <2>3, <2>4 DEF ScheduleInv
<1> QED
  BY <1>1, <1>2 DEF ScheduleNext, ActorStep

\* The inductive invariant of scheduled execution.
THEOREM ScheduleInvariant == ScheduleSpec => []ScheduleInv
  BY ScheduleInitInv, ScheduleStepInv, PTL DEF ScheduleSpec

\* execute_scheduled_watch_run fetches the target of a tick at most once,
\* however often the tick is retried, replayed or raced.
THEOREM FetchOnce == ScheduleSpec => []FetchedAtMostOnce
<1>1. ScheduleInv => FetchedAtMostOnce
  BY DEF ScheduleInv, ClaimsAreSound, RunIsSound, FetchedAtMostOnce
<1> QED
  BY <1>1, ScheduleInvariant, PTL

\* The claim of a run has one owner, and nobody works on a run without it:
\* the write_current that completes the run cannot conflict.
THEOREM OneOwner == ScheduleSpec => []ClaimIsExclusive
<1>1. ScheduleInv => ClaimIsExclusive
  BY DEF ScheduleInv, ClaimsAreSound
<1> QED
  BY <1>1, ScheduleInvariant, PTL

\* A completed run record names evidence of the ledger that the watch really
\* observed, wherever its owner could have died.
THEOREM CompletionIsBacked == ScheduleSpec => []CompletedRunIsBacked
<1>1. ScheduleInv => CompletedRunIsBacked
  BY DEF ScheduleInv, EvidenceIsSound
<1> QED
  BY <1>1, ScheduleInvariant, PTL

\* All callers of one tick are given the same evidence.
THEOREM SameAnswer == ScheduleSpec => []AnswersAgree
<1>1. ScheduleInv => AnswersAgree
  <2> SUFFICES ASSUME ScheduleInv, NEW a \in answers, NEW b \in answers,
                      a[1] = b[1], a[2] = b[2]
               PROVE  a[3] = b[3]
    BY DEF AnswersAgree
  <2>1. AnswerIsStored(a) /\ AnswerIsStored(b)
    BY DEF ScheduleInv, ClaimsAreSound
  <2> QED BY <2>1 DEF AnswerIsStored, Completed, Payload
<1> QED
  BY <1>1, ScheduleInvariant, PTL

\* What a watch observed is in the ledger, and was observed once.
THEOREM ObservationsResolve == ScheduleSpec => []ObservedEvidenceIsRecorded
<1>1. ScheduleInv => ObservedEvidenceIsRecorded
  <2> SUFFICES ASSUME ScheduleInv, NEW w \in WatchId,
                      NEW r \in 1 .. Len(trail[w]),
                      trail[w][r].value # Nothing
               PROVE  /\ Recorded(trail[w][r].value)
                      /\ \A s \in 1 .. Len(trail[w]) :
                           /\ trail[w][r] = Active(trail[w][r].value)
                           /\ trail[w][s] = Active(trail[w][r].value)
                           => r = s
    BY DEF ObservedEvidenceIsRecorded, last_evidence, Recorded
  <2>1. StatesAreResolvable /\ ObservedOnce
    BY DEF ScheduleInv, EvidenceIsSound
  <2> QED
    BY <2>1, Payloads DEF StatesAreResolvable, Resolvable, ObservedOnce
<1> QED
  BY <1>1, ScheduleInvariant, PTL

\* A run record is final once completed, and a claimed one is completed by
\* its owner only: an abandoned claim stays as it is.
THEOREM FailClosed == ScheduleSpec => AbandonedRunStaysClaimed
<1>1. ASSUME ScheduleInv, [ScheduleNext]_scheduleVars, NEW run \in Run,
             RunRow(run) # NoRow, RunRow(run)' # RunRow(run)
      PROVE  \E p \in Process : Owns(p, run) /\ task[p].step = "complete"
  <2>0. ScheduleTypes /\ TaskIsSound /\ ClaimsAreSound
    BY <1>1 DEF ScheduleInv
  <2>1. PICK p \in Process : ActorStep(p)
    <3>1. ~UNCHANGED scheduleVars
      BY <1>1 DEF scheduleVars, RunRow
    <3> QED BY <1>1, <3>1 DEF ScheduleNext, ActorStep
  <2>2. claim_run(p) \/ complete_run(p)
    BY <1>1, <2>0, <2>1, StoreStep DEF TaskIsSound
  <2>3. CASE claim_run(p)
    <3>1. /\ task[p] # NoTask /\ task[p].step = "claim"
          /\ D!write_current(RunKey(p), 0, Claimed)
      BY <2>3 DEF claim_run, AtStep
    <3>2. PICK r \in Run : RunKey(p) = <<"run", r[1], r[2]>>
      BY <2>0, <3>1, TaskRunKeys DEF RunSteps
    <3>3. /\ RunRow(r) = NoRow \/ RunRow(r).revision = 0
          /\ \A other \in Run \ {r} : RunRow(other)' = RunRow(other)
      BY <2>0, <3>1, <3>2, RunWrite, Payloads
    <3>4. RunRow(run).revision \in {1, 2}
      BY <1>1, <2>0 DEF ClaimsAreSound, RunIsSound
    <3> QED BY <1>1, <3>3, <3>4
  <2>4. CASE complete_run(p)
    <3>1. /\ task[p] # NoTask /\ task[p].step = "complete"
          /\ D!write_current(RunKey(p), 1, Completed(task[p].evidence))
      BY <2>4 DEF complete_run, AtStep
    <3>2. PICK r \in Run : /\ RunKey(p) = <<"run", r[1], r[2]>>
                           /\ r = TaskRun(p)
      BY <2>0, <3>1, TaskRunKeys DEF RunSteps
    <3>3. task[p].evidence \in Evidence
      BY <2>0, <3>1 DEF TaskIsSound, TaskHas, EvidenceSteps
    <3>4. \A other \in Run \ {r} : RunRow(other)' = RunRow(other)
      BY <2>0, <3>1, <3>2, <3>3, RunWrite, Payloads
    <3> QED BY <1>1, <3>1, <3>2, <3>4 DEF Owns, OwnerSteps
  <2> QED BY <2>2, <2>3, <2>4
<1>2. ScheduleInv /\ [ScheduleNext]_scheduleVars =>
        [\A run \in Run :
           RunRow(run) # NoRow /\ RunRow(run)' # RunRow(run) =>
             \E p \in Process : Owns(p, run) /\ task[p].step = "complete"]_scheduleVars
  BY <1>1
<1> QED
  BY <1>2, ScheduleInvariant, PTL DEF ScheduleSpec, AbandonedRunStaysClaimed

----------------------------------------------------------------------------
(***************************************************************************)
(* Change detection.                                                       *)
(***************************************************************************)
\* A state of the watch, now or earlier, named that evidence.
Saw(w, e) == \E r \in 1 .. Len(trail[w]) : trail[w][r].value = e

\* What a detection can find of a watch, the watch did once see.
SeenIsPast ==
    /\ \A w \in WatchId :
         current[w] # NoRow => Saw(w, last_evidence(current[w].state))
    /\ \A row \in history : row.identity \in WatchId =>
         Saw(row.identity, last_evidence(row.state))
    /\ \A p \in Process : op[p] # NoOp /\ op[p].stage \in {"write", "append"} =>
         Saw(op[p].entity, last_evidence(op[p].old))

\* The event says the truth about two bundles of the ledger.
EventIsTrue(event, w, e, f) ==
    /\ Saw(w, e) /\ Saw(w, f)
    /\ \E before, after \in history :
         /\ before.identity = e /\ after.identity = f
         /\ event.state = compute_change_result(before.state, after.state)

\* Only watches have more than one historical record.
LedgerIsSound ==
    /\ \A row \in history : row.identity \notin WatchId =>
         /\ row.revision = 1
         /\ \A other \in history : other.identity = row.identity => other = row
    /\ \A row \in history : row.identity \in Evidence => row.state \in Bundle
    /\ \A row \in history : \A w \in WatchId, e, f \in Evidence :
         row.identity = change_key(w, e, f) => EventIsTrue(row, w, e, f)

\* What a detection has found so far, the watch saw.
FindSteps == {"previous_in_current", "previous_in_history",
              "current_in_current", "current_in_history", "compare"}

HealthSteps == {"health_history", "health_current", "assess"}

DetectionIsGrounded(p) ==
    task[p] # NoTask /\ task[p].step \in FindSteps =>
        /\ task[p].previous \in Evidence /\ task[p].evidence \in Evidence
        /\ task[p].step \in {"current_in_current", "current_in_history", "compare"}
             => Saw(task[p].watch, task[p].previous)
        /\ task[p].step = "compare" => Saw(task[p].watch, task[p].evidence)

InsightInv ==
    /\ ScheduleTypes /\ TaskIsSound
    /\ SeenIsPast /\ LedgerIsSound
    /\ \A p \in Process : DetectionIsGrounded(p)
----------------------------------------------------------------------------
\* Keys of different kinds differ, and the key of an event names its inputs.
LEMMA EventKeys ==
    /\ \A w \in WatchId, e, f \in Evidence :
         /\ change_key(w, e, f) \notin WatchId \cup Evidence
         /\ \A v \in WatchId :
              /\ definition_key(v) # change_key(w, e, f)
              /\ schedule_key(v) # change_key(w, e, f)
         /\ \A v \in WatchId, g, h \in Evidence :
              change_key(w, e, f) = change_key(v, g, h) =>
                w = v /\ e = g /\ f = h
    /\ \A w \in WatchId : /\ definition_key(w) \notin WatchId \cup Evidence
                          /\ schedule_key(w) \notin WatchId \cup Evidence
    /\ WatchId \cap Evidence = {}
<1>1. \A w \in WatchId, e, f \in Evidence : change_key(w, e, f) \in DerivedKey
  BY DEF DerivedKey
<1>2. \A w \in WatchId : definition_key(w) \in DerivedKey
                        /\ schedule_key(w) \in DerivedKey
  BY DEF DerivedKey
<1>3. \A w, v \in WatchId, e, f, g, h \in Evidence :
        /\ definition_key(v) # change_key(w, e, f)
        /\ schedule_key(v) # change_key(w, e, f)
        /\ change_key(w, e, f) = change_key(v, g, h) => w = v /\ e = g /\ f = h
  BY DEF definition_key, schedule_key, change_key
<1> QED BY <1>1, <1>2, <1>3, KeyAssumption

\* What a watch saw it does not forget, and its current state is part of it.
LEMMA SawStep ==
    ASSUME ScheduleTypes, SeenIsPast, NEW p \in Process, TaskHas(p), ActorStep(p)
    PROVE  /\ \A w \in WatchId : \A e : Saw(w, e) => Saw(w, e)'
           /\ \A w \in WatchId : current'[w] # NoRow =>
                Saw(w, last_evidence(current[w].state))'
<1>0. trail \in [WatchId -> Seq(WatchState)]
  BY DEF ScheduleTypes
<1>1. CASE trail' = trail /\ \A w \in WatchId : current'[w] = current[w]
  BY <1>1 DEF Saw, SeenIsPast, last_evidence
<1>2. ASSUME NEW w \in WatchId, NEW new \in WatchState, Extends(w, new)
      PROVE  /\ \A v \in WatchId : \A e : Saw(v, e) => Saw(v, e)'
             /\ \A v \in WatchId : current'[v] # NoRow =>
                  Saw(v, last_evidence(current[v].state))'
  <2>1. /\ trail[w] \in Seq(WatchState) /\ Len(trail[w]) \in Nat
        /\ trail'[w] = Append(trail[w], new) /\ current'[w].state = new
        /\ \A v \in WatchId \ {w} :
             trail'[v] = trail[v] /\ current'[v] = current[v]
    BY <1>0, <1>2 DEF Extends
  <2>2. /\ Len(trail'[w]) = Len(trail[w]) + 1
        /\ trail'[w][Len(trail[w]) + 1] = new
        /\ \A r \in 1 .. Len(trail[w]) : trail'[w][r] = trail[w][r]
    BY <2>1
  <2>3. \A e : Saw(w, e) => Saw(w, e)'
    BY <2>1, <2>2 DEF Saw
  <2>4. Saw(w, last_evidence(current[w].state))'
    BY <2>1, <2>2 DEF Saw, last_evidence
  <2>5. ASSUME NEW v \in WatchId \ {w}
        PROVE  /\ \A e : Saw(v, e) => Saw(v, e)'
               /\ current'[v] # NoRow => Saw(v, last_evidence(current[v].state))'
    <3>1. trail'[v] = trail[v] /\ current'[v] = current[v]
      BY <2>1
    <3>2. \A e : Saw(v, e)' <=> Saw(v, e)
      BY <3>1 DEF Saw
    <3> QED BY <3>1, <3>2 DEF SeenIsPast, last_evidence
  <2> QED BY <2>3, <2>4, <2>5
<1> QED
  BY <1>1, <1>2, TrailStep

\* A transition carries the state that it read.
LEMMA CarriedStep ==
    ASSUME ScheduleTypes, NEW p \in Process, TaskHas(p), ActorStep(p),
           op'[p] # NoOp, op'[p].stage \in {"write", "append"}
    PROVE  /\ op[p] # NoOp /\ op'[p].entity = op[p].entity
           /\ op[p].entity \in WatchId
           /\ \/ /\ op[p].stage \in {"write", "append"}
                 /\ op'[p].old = op[p].old
                 /\ op'[p].revision = op[p].revision
                 /\ op'[p].stage = op[p].stage \/ D!swap(p)
              \/ /\ current[op[p].entity] # NoRow
                 /\ op'[p].old = current[op[p].entity].state
                 /\ op'[p].revision = current[op[p].entity].revision
                 /\ op'[p].stage = "write"
<1>1. op \in [Process -> D!Frame \cup {NoOp}]
  BY DEF ScheduleTypes
<1>2. ASSUME op' = op
      PROVE  op[p] # NoOp /\ op[p].entity \in WatchId
             /\ op[p].stage \in {"write", "append"}
  BY <1>1, <1>2 DEF D!Frame
<1>3. CASE transition_step(p)
  <2>1. op[p] \in D!Frame /\ op[p] # NoOp /\ op'[p].entity = op[p].entity
        /\ op[p].entity \in WatchId
    BY <1>3, CallEffect DEF D!Frame
  <2>2. ASSUME NEW stage, NEW r, NEW old, D!Move(p, stage, r, old)
        PROVE  op'[p].stage = stage /\ op'[p].old = old
               /\ op'[p].revision = r
    BY <1>1, <2>2 DEF D!Move
  <2>3. CASE D!read_and_apply(p)
    BY <2>1, <2>2, <2>3 DEF D!read_and_apply, D!Finish, D!read_current
  <2>4. CASE D!swap(p)
    BY <2>1, <2>2, <2>4 DEF D!swap, D!At
  <2>5. CASE D!lose_race(p) \/ D!record_superseded(p)
    BY <2>2, <2>5 DEF D!lose_race, D!record_superseded, D!Finish
  <2> QED BY <1>3, <2>3, <2>4, <2>5 DEF transition_step, D!CallStep
<1>4. CASE observe_evidence(p)
  <2>1. task[p] # NoTask /\ task[p].step = "observe" /\ task[p] \in Task
    BY <1>4 DEF observe_evidence, AtStep, ScheduleTypes
  <2>2. task[p].watch \in WatchId /\ task[p].evidence \in Evidence
    BY <2>1 DEF Task, TaskHas, EvidenceSteps
  <2>3. op'[p].stage = "read"
    BY <1>4, <2>2, OpMoves, Payloads DEF observe_evidence
  <2> QED BY <2>3
<1>5. CASE observed(p) \/ return_to_caller(p) \/ transition_error(p)
  BY <1>5, OpMoves DEF observed, return_to_caller, transition_error
<1>6. CASE crash(p)
  BY <1>1, <1>2, <1>6, OpMoves DEF crash, domain
<1>7. ASSUME NEW w \in WatchId, apply_watch_transition(p, w, StopWatch)
      PROVE  FALSE
  BY <1>7, OpMoves, Payloads DEF apply_watch_transition
<1>8. CASE op' = op
  BY <1>2, <1>8
<1>9. CASE \/ read_watch_schedule(p) \/ read_watch_definition(p)
           \/ claim_run(p) \/ lose_claim(p) \/ replay_run(p) \/ fetch_page(p)
           \/ record_evidence(p) \/ complete_run(p)
           \/ record_definition(p) \/ initialize_state(p) \/ task_error(p)
  <2>1. op' = op
    BY <1>9 DEF read_watch_schedule, read_watch_definition, claim_run,
       lose_claim, replay_run, fetch_page, record_evidence, complete_run,
       record_definition, initialize_state, task_error, D!create, domain
  <2> QED BY <1>8, <2>1
<1>10. ASSUME NEW w \in WatchId,
              define_watch(p, w) \/ define_watch_schedule(p, w)
              \/ \E t \in Tick : execute_scheduled_watch_run(p, w, t)
       PROVE  op' = op
  BY <1>10 DEF define_watch, define_watch_schedule,
     execute_scheduled_watch_run, domain
<1> QED
  BY <1>3, <1>4, <1>5, <1>6, <1>7, <1>8, <1>9, <1>10
     DEF ActorStep, Progress, RunStep, WatchStep, Failure

\* The row that a step appends, if it does: the definition or the schedule of
\* a watch, a bundle, or the state a transition superseded.
NewRow(p, row) ==
    \/ /\ row.revision = 1
       /\ \E w \in WatchId : row.identity \in {definition_key(w), schedule_key(w)}
    \/ row.revision = 1 /\ row.identity \in Evidence /\ row.state \in Bundle
    \/ /\ op[p] # NoOp /\ op[p].stage = "append"
       /\ row.identity = op[p].entity /\ row.identity \in WatchId
       /\ row.state = op[p].old /\ row.revision = op[p].revision

LEMMA HistoryStep ==
    ASSUME ScheduleTypes, NEW p \in Process, TaskHas(p), ActorStep(p)
    PROVE  \/ history' = history
           \/ \E row : /\ history' = history \cup {row} /\ NewRow(p, row)
                       /\ ~D!history_exists(row.identity, row.revision)
<1> DEFINE Goal == \/ history' = history
                   \/ \E row : /\ history' = history \cup {row}
                               /\ NewRow(p, row)
                               /\ ~D!history_exists(row.identity, row.revision)
<1>1. ASSUME NEW id, NEW n, NEW s, D!append_history(id, n, s),
             NewRow(p, [identity |-> id, revision |-> n, state |-> s])
      PROVE  Goal
  <2> DEFINE row == [identity |-> id, revision |-> n, state |-> s]
  <2>1. /\ history' = history \cup {row} /\ NewRow(p, row)
        /\ row.identity = id /\ row.revision = n
    BY <1>1 DEF D!append_history
  <2>2. ~D!history_exists(row.identity, row.revision)
    BY <1>1, <2>1 DEF D!append_history
  <2> HIDE DEF row
  <2> QED BY <2>1, <2>2
<1>2. ASSUME record_definition(p) PROVE Goal
  <2>1. /\ task[p] # NoTask /\ task[p] \in Task
        /\ D!append_history(definition_key(task[p].watch), 1, Definition)
    BY <1>2 DEF record_definition, AtStep, ScheduleTypes
  <2>2. task[p].watch \in WatchId
    BY <2>1 DEF Task
  <2>3. NewRow(p, [identity |-> definition_key(task[p].watch), revision |-> 1,
                   state |-> Definition])
    BY <2>2 DEF NewRow
  <2> HIDE DEF Goal
  <2> QED BY <1>1, <2>1, <2>3
<1>3. ASSUME NEW w \in WatchId, define_watch_schedule(p, w) PROVE Goal
  <2>1. D!append_history(schedule_key(w), 1, Schedule)
    BY <1>3 DEF define_watch_schedule
  <2>2. NewRow(p, [identity |-> schedule_key(w), revision |-> 1,
                   state |-> Schedule])
    BY <1>3 DEF NewRow
  <2> HIDE DEF Goal
  <2> QED BY <1>1, <2>1, <2>2
<1>4. ASSUME record_evidence(p) PROVE Goal
  <2>1. PICK bundle \in Bundle : D!append_history(task[p].evidence, 1, bundle)
    BY <1>4 DEF record_evidence
  <2>2. task[p].evidence \in Evidence
    BY <1>4 DEF record_evidence, AtStep, TaskHas, EvidenceSteps
  <2>3. NewRow(p, [identity |-> task[p].evidence, revision |-> 1,
                   state |-> bundle])
    BY <2>2 DEF NewRow
  <2> HIDE DEF Goal
  <2> QED BY <1>1, <2>1, <2>3
<1>5. ASSUME transition_step(p) PROVE Goal
  <2>1. ASSUME D!record_superseded(p) PROVE Goal
    <3>1. /\ op[p] # NoOp /\ op[p].stage = "append"
          /\ D!append_history(op[p].entity, op[p].revision, op[p].old)
      BY <2>1 DEF D!record_superseded, D!At
    <3>2. op[p].entity \in WatchId
      BY <1>5, CallEffect DEF D!Frame
    <3>3. NewRow(p, [identity |-> op[p].entity, revision |-> op[p].revision,
                     state |-> op[p].old])
      BY <3>1, <3>2 DEF NewRow
    <3> HIDE DEF Goal
    <3> QED BY <1>1, <3>1, <3>3
  <2>2. ASSUME D!read_and_apply(p) \/ D!swap(p) \/ D!lose_race(p)
        PROVE  Goal
    BY <2>2 DEF D!read_and_apply, D!swap, D!lose_race, D!write_current, D!store
  <2> HIDE DEF Goal
  <2> QED BY <1>5, <2>1, <2>2 DEF transition_step, D!CallStep
<1>6. CASE \/ read_watch_schedule(p) \/ read_watch_definition(p)
           \/ claim_run(p) \/ lose_claim(p) \/ replay_run(p) \/ fetch_page(p)
           \/ complete_run(p) \/ initialize_state(p) \/ task_error(p)
  BY <1>6 DEF read_watch_schedule, read_watch_definition, claim_run,
     lose_claim, replay_run, fetch_page, complete_run, initialize_state,
     task_error, D!create, D!write_current, domain
<1>7. CASE observe_evidence(p) \/ observed(p) \/ return_to_caller(p)
           \/ transition_error(p) \/ crash(p)
  BY <1>7 DEF observe_evidence, observed, return_to_caller, transition_error,
     crash, D!begin, D!return, D!store_error, D!abandon, D!store, domain
<1>8. ASSUME NEW w \in WatchId,
             define_watch(p, w) \/ apply_watch_transition(p, w, StopWatch)
             \/ \E t \in Tick : execute_scheduled_watch_run(p, w, t)
      PROVE  history' = history
  BY <1>8 DEF define_watch, apply_watch_transition,
     execute_scheduled_watch_run, D!begin, D!store, domain
<1> HIDE DEF Goal
<1>9. history' = history => Goal
  BY DEF Goal
<1>10. Goal
  BY <1>2, <1>3, <1>4, <1>5, <1>6, <1>7, <1>8, <1>9
     DEF ActorStep, Progress, RunStep, WatchStep, Failure, Goal
<1> QED BY <1>10 DEF Goal

\* A step of a run or of a transition keeps what the watches saw...
LEMMA SeenStep ==
    ASSUME ScheduleTypes, SeenIsPast, NEW p \in Process, TaskHas(p), ActorStep(p)
    PROVE  SeenIsPast'
<1>1. /\ op \in [Process -> D!Frame \cup {NoOp}]
      /\ \A q \in Process \ {p} : op'[q] = op[q]
  BY TaskStep DEF ScheduleTypes
<1>2. \A w \in WatchId : \A e : Saw(w, e) => Saw(w, e)'
  BY SawStep
<1>3. \A w \in WatchId : current'[w] # NoRow =>
        Saw(w, last_evidence(current[w].state))'
  BY SawStep
<1>4. ASSUME NEW row \in history', row.identity \in WatchId
      PROVE  Saw(row.identity, last_evidence(row.state))'
  <2>1. CASE row \in history
    BY <1>2, <1>4, <2>1 DEF SeenIsPast
  <2>2. CASE row \notin history
    <3>1. NewRow(p, row)
      BY <1>4, <2>2, HistoryStep
    <3>2. /\ op[p] # NoOp /\ op[p].stage = "append"
          /\ row.identity = op[p].entity /\ row.state = op[p].old
      BY <1>4, <3>1, EventKeys DEF NewRow
    <3>3. Saw(row.identity, last_evidence(row.state))
      BY <3>2 DEF SeenIsPast
    <3> QED BY <1>2, <1>4, <3>3
  <2> QED BY <2>1, <2>2
<1>5. ASSUME NEW q \in Process, op'[q] # NoOp,
             op'[q].stage \in {"write", "append"}
      PROVE  Saw(op[q].entity, last_evidence(op[q].old))'
  <2>1. CASE q # p
    <3>1. op'[q] = op[q] /\ op[q] \in D!Frame
      BY <1>1, <1>5, <2>1
    <3>2. Saw(op[q].entity, last_evidence(op[q].old)) /\ op[q].entity \in WatchId
      BY <1>5, <3>1 DEF SeenIsPast, D!Frame
    <3>3. Saw(op[q].entity, last_evidence(op[q].old))' <=>
            \E r \in 1 .. Len(trail'[op[q].entity]) :
               trail'[op[q].entity][r].value = op[q].old.value
      BY <3>1 DEF Saw, last_evidence
    <3>4. \E r \in 1 .. Len(trail'[op[q].entity]) :
               trail'[op[q].entity][r].value = op[q].old.value
      BY <1>2, <3>2 DEF Saw, last_evidence
    <3> QED BY <3>3, <3>4
  <2>2. CASE q = p
    <3>1. /\ op[p] # NoOp /\ op'[p].entity = op[p].entity
          /\ op[p].entity \in WatchId
          /\ \/ op[p].stage \in {"write", "append"} /\ op'[p].old = op[p].old
             \/ /\ current[op[p].entity] # NoRow
                /\ op'[p].old = current[op[p].entity].state
      BY <1>5, <2>2, CarriedStep
    <3>2. PICK w \in WatchId : w = op'[p].entity
      BY <3>1
    <3>3. PICK e : e = last_evidence(op'[p].old)
      OBVIOUS
    <3>4. Saw(w, e)
      BY <3>1, <3>2, <3>3 DEF SeenIsPast, last_evidence
    <3>5. Saw(w, e)'
      BY <1>2, <3>4
    <3> QED BY <2>2, <3>2, <3>3, <3>5 DEF Saw, last_evidence
  <2> QED BY <2>1, <2>2
<1> QED
  BY <1>3, <1>4, <1>5 DEF SeenIsPast

\* ... and the events true.
LEMMA LedgerStep ==
    ASSUME ScheduleTypes, SeenIsPast, LedgerIsSound,
           NEW p \in Process, TaskHas(p), ActorStep(p)
    PROVE  LedgerIsSound'
<1>1. \A w \in WatchId : \A e : Saw(w, e) => Saw(w, e)'
  BY SawStep
<1>2. history \subseteq history'
  BY HistoryStep
<1>3. ASSUME NEW row \in history', row \notin history
      PROVE  /\ history' = history \cup {row} /\ NewRow(p, row)
             /\ ~D!history_exists(row.identity, row.revision)
  BY <1>3, HistoryStep
<1>4. ASSUME NEW row \in history', row.identity \notin WatchId
      PROVE  /\ row.revision = 1
             /\ \A other \in history' : other.identity = row.identity => other = row
  <2>1. CASE row \in history
    <3>1. row.revision = 1 /\ D!history_exists(row.identity, 1)
      BY <1>4, <2>1 DEF LedgerIsSound, D!history_exists
    <3>2. ASSUME NEW other \in history', other.identity = row.identity
          PROVE  other = row
      <4>1. CASE other \in history
        BY <1>4, <2>1, <3>2, <4>1 DEF LedgerIsSound
      <4>2. CASE other \notin history
        <5>1. NewRow(p, other) /\ ~D!history_exists(other.identity, other.revision)
          BY <1>3, <3>2, <4>2
        <5>2. other.revision = 1
          BY <1>4, <3>2, <5>1 DEF NewRow
        <5> QED BY <3>1, <3>2, <5>1, <5>2
      <4> QED BY <4>1, <4>2
    <3> QED BY <3>1, <3>2
  <2>2. CASE row \notin history
    <3>1. /\ history' = history \cup {row} /\ NewRow(p, row)
          /\ ~D!history_exists(row.identity, row.revision)
      BY <1>3, <1>4, <2>2
    <3>2. row.revision = 1
      BY <1>4, <3>1 DEF NewRow
    <3>3. \A other \in history : other.identity # row.identity
      BY <1>4, <3>1, <3>2 DEF LedgerIsSound, D!history_exists
    <3> QED BY <3>1, <3>2, <3>3
  <2> QED BY <2>1, <2>2
<1>5. ASSUME NEW row \in history', row.identity \in Evidence
      PROVE  row.state \in Bundle
  <2>1. CASE row \in history
    BY <1>5, <2>1 DEF LedgerIsSound
  <2>2. CASE row \notin history
    BY <1>3, <1>5, <2>2, EventKeys DEF NewRow
  <2> QED BY <2>1, <2>2
<1>6. ASSUME NEW row \in history', NEW w \in WatchId, NEW e \in Evidence,
             NEW f \in Evidence, row.identity = change_key(w, e, f)
      PROVE  EventIsTrue(row, w, e, f)'
  <2>1. row \in history
    BY <1>3, <1>6, EventKeys DEF NewRow
  <2>2. EventIsTrue(row, w, e, f)
    BY <1>6, <2>1 DEF LedgerIsSound
  <2> QED BY <1>1, <1>2, <2>2 DEF EventIsTrue
<1> QED
  BY <1>4, <1>5, <1>6 DEF LedgerIsSound

\* A run or a transition is no detection and no assessment.
LEMMA OtherTask ==
    ASSUME ScheduleTypes, NEW p \in Process, TaskHas(p), ActorStep(p)
    PROVE  \/ task'[p] = NoTask \/ task'[p] = task[p]
           \/ task'[p].step \notin FindSteps \cup HealthSteps
<1> DEFINE Goal == \/ task'[p] = NoTask \/ task'[p] = task[p]
                   \/ task'[p].step \notin FindSteps \cup HealthSteps
<1>0. task \in [Process -> Task \cup {NoTask}]
  BY DEF ScheduleTypes
<1>1. ASSUME End(p) PROVE Goal
  BY <1>1, TaskMoves
<1>2. ASSUME NEW s \in Step \ (FindSteps \cup HealthSteps),
             task[p] # NoTask, Goto(p, s)
      PROVE  Goal
  BY <1>2, TaskMoves
<1>3. ASSUME NEW s \in Step \ (FindSteps \cup HealthSteps), NEW w \in WatchId,
             NEW t \in Tick \cup {Nothing},
             Start(p, s, w, t, Nothing, Nothing)
      PROVE  Goal
  BY <1>3, TaskMoves
<1>4. {"define", "initialize", "apply"} \cup RunSteps
        \subseteq Step \ (FindSteps \cup HealthSteps)
  BY DEF Step, FindSteps, HealthSteps, RunSteps
<1>5. CASE read_watch_schedule(p) \/ read_watch_definition(p) \/ claim_run(p)
           \/ lose_claim(p) \/ record_evidence(p) \/ observe_evidence(p)
           \/ observed(p)
  <2>1. /\ task[p] # NoTask
        /\ \/ End(p)
           \/ \E s \in {"read_definition", "claim", "fetch", "replay", "observe",
                        "observing", "complete"} : Goto(p, s)
    BY <1>5 DEF read_watch_schedule, read_watch_definition, claim_run,
       lose_claim, record_evidence, observe_evidence, observed, AtStep
  <2> QED BY <1>1, <1>2, <1>4, <2>1 DEF RunSteps
<1>6. CASE replay_run(p) \/ complete_run(p) \/ initialize_state(p)
           \/ task_error(p) \/ return_to_caller(p) \/ crash(p)
  BY <1>1, <1>6 DEF replay_run, complete_run, initialize_state, task_error,
     return_to_caller, crash
<1>7. CASE record_definition(p)
  BY <1>2, <1>4, <1>7 DEF record_definition, AtStep
<1>8. CASE transition_step(p) \/ transition_error(p)
  BY <1>8 DEF transition_step, transition_error
<1>9. CASE fetch_page(p)
  <2>1. ASSUME NEW e \in Evidence,
               task' = [task EXCEPT ![p] =
                          [@ EXCEPT !.step = "record", !.evidence = e]]
        PROVE  Goal
    <3>1. task[p] \in Task
      BY <1>0, <1>9 DEF fetch_page, AtStep
    <3>2. task'[p] = [task[p] EXCEPT !.step = "record", !.evidence = e]
      BY <1>0, <2>1
    <3> QED BY <3>1, <3>2 DEF Task, FindSteps, HealthSteps
  <2> QED BY <1>1, <1>9, <2>1 DEF fetch_page
<1>10. ASSUME NEW w \in WatchId,
              define_watch(p, w) \/ apply_watch_transition(p, w, StopWatch)
       PROVE  Goal
  BY <1>3, <1>4, <1>10 DEF define_watch, apply_watch_transition
<1>11. ASSUME NEW w \in WatchId, NEW t \in Tick,
              execute_scheduled_watch_run(p, w, t)
       PROVE  Goal
  BY <1>3, <1>4, <1>11 DEF execute_scheduled_watch_run, RunSteps
<1>12. ASSUME NEW w \in WatchId, define_watch_schedule(p, w) PROVE Goal
  BY <1>12 DEF define_watch_schedule
<1> QED
  BY <1>5, <1>6, <1>7, <1>8, <1>9, <1>10, <1>11, <1>12
     DEF ActorStep, Progress, RunStep, WatchStep, Failure

\* What stays grounded when the watches forget nothing.
LEMMA StillGrounded ==
    ASSUME ScheduleTypes, NEW q \in Process, DetectionIsGrounded(q),
           task'[q] = task[q],
           \A w \in WatchId : \A e : Saw(w, e) => Saw(w, e)'
    PROVE  DetectionIsGrounded(q)'
<1>1. task[q] # NoTask => task[q].watch \in WatchId
  BY DEF ScheduleTypes, Task
<1> SUFFICES ASSUME task[q] # NoTask, task[q].step \in FindSteps
             PROVE  DetectionIsGrounded(q)'
  BY DEF DetectionIsGrounded
<1>2. PICK w \in WatchId : w = task[q].watch
  BY <1>1
<1>3. PICK e, f : e = task[q].previous /\ f = task[q].evidence
  OBVIOUS
<1>4. (Saw(w, e) => Saw(w, e)') /\ (Saw(w, f) => Saw(w, f)')
  OBVIOUS
<1> QED BY <1>2, <1>3, <1>4 DEF DetectionIsGrounded, Saw

\* Every step of runs, transitions and failures keeps the invariant.
LEMMA PipelineStepInv ==
    ASSUME InsightInv, NEW p \in Process, ActorStep(p)
    PROVE  InsightInv'
<1>0. /\ ScheduleTypes /\ TaskIsSound /\ SeenIsPast /\ LedgerIsSound
      /\ TaskHas(p)
  BY DEF InsightInv, TaskIsSound
<1>1. ScheduleTypes' /\ SeenIsPast' /\ LedgerIsSound'
  BY <1>0, StoreStep, SeenStep, LedgerStep
<1>2. \A q \in Process \ {p} : task'[q] = task[q] /\ op'[q] = op[q]
  BY <1>0, TaskStep
<1>3. ASSUME NEW q \in Process PROVE TaskHas(q)'
  <2>1. CASE q = p
    BY <1>0, <2>1, TaskStep
  <2>2. CASE q # p
    BY <1>0, <1>2, <1>3, <2>2 DEF TaskIsSound, TaskHas
  <2> QED BY <2>1, <2>2
<1>4. ASSUME NEW q \in Process PROVE DetectionIsGrounded(q)'
  <2>1. CASE task'[q] = task[q]
    BY <1>0, <2>1, SawStep, StillGrounded DEF InsightInv
  <2>2. CASE task'[q] # task[q]
    <3>1. task'[q] = NoTask \/ task'[q].step \notin FindSteps
      BY <1>0, <1>2, <1>4, <2>2, OtherTask
    <3> QED BY <3>1 DEF DetectionIsGrounded
  <2> QED BY <2>1, <2>2
<1> QED
  BY <1>1, <1>3, <1>4 DEF InsightInv, TaskIsSound

\* The moves of a detection and of an assessment.
LEMMA InsightMoves ==
    ASSUME ScheduleTypes, NEW p \in Process
    PROVE  /\ \A s \in Step : task[p] # NoTask /\ Goto(p, s) =>
                task'[p].previous = task[p].previous
           /\ \A w \in WatchId, e, f \in Evidence :
                Start(p, "previous_in_current", w, Nothing, f, e) =>
                /\ task' \in [Process -> Task \cup {NoTask}]
                /\ task[p] = NoTask /\ task'[p] # NoTask
                /\ task'[p].step = "previous_in_current"
                /\ task'[p].evidence = f /\ task'[p].previous = e
                /\ \A q \in Process \ {p} : task'[q] = task[q]
<1>1. task \in [Process -> Task \cup {NoTask}]
  BY DEF ScheduleTypes
<1>2. ASSUME NEW s \in Step, task[p] # NoTask, Goto(p, s)
      PROVE  task'[p].previous = task[p].previous
  <2>1. task[p] \in Task
    BY <1>1, <1>2
  <2>2. task'[p] = [task[p] EXCEPT !.step = s]
    BY <1>1, <1>2 DEF Goto
  <2> QED BY <2>1, <2>2 DEF Task
<1>3. ASSUME NEW w \in WatchId, NEW e \in Evidence, NEW f \in Evidence,
             Start(p, "previous_in_current", w, Nothing, f, e)
      PROVE  /\ task' \in [Process -> Task \cup {NoTask}]
             /\ task[p] = NoTask /\ task'[p] # NoTask
             /\ task'[p].step = "previous_in_current"
             /\ task'[p].evidence = f /\ task'[p].previous = e
             /\ \A q \in Process \ {p} : task'[q] = task[q]
  <2> DEFINE new == [step |-> "previous_in_current", watch |-> w,
                     tick |-> Nothing, evidence |-> f, previous |-> e]
  <2>1. new \in Task
    BY DEF Task, Step
  <2>2. task' = [task EXCEPT ![p] = new] /\ task[p] = NoTask
    BY <1>3 DEF Start, Idle
  <2> QED BY <1>1, <2>1, <2>2, NoTaskAssumption
<1> QED
  BY <1>2, <1>3

\* A row that has the only record of its identity is what resolve returns.
LEMMA ResolveIs ==
    ASSUME LedgerIsSound, NEW row \in history, row.identity \notin WatchId
    PROVE  resolve(row.identity) = row.state
<1>1. \A other \in history : other.identity = row.identity <=> other = row
  BY DEF LedgerIsSound
<1>2. (CHOOSE other \in history : other.identity = row.identity) = row
  BY <1>1
<1> QED BY <1>2 DEF resolve

\* A step of detection or assessment that writes nothing.
LEMMA QuietStep ==
    ASSUME InsightInv, NEW p \in Process,
           UNCHANGED <<current, history, op, trail, fetches>>,
           task' \in [Process -> Task \cup {NoTask}],
           \A q \in Process \ {p} : task'[q] = task[q],
           TaskHas(p)', DetectionIsGrounded(p)'
    PROVE  InsightInv'
<1>0. /\ ScheduleTypes /\ TaskIsSound /\ SeenIsPast /\ LedgerIsSound
      /\ \A q \in Process : DetectionIsGrounded(q)
  BY DEF InsightInv
<1>1. \A w, e : Saw(w, e)' <=> Saw(w, e)
  BY DEF Saw
<1>2. ScheduleTypes'
  BY <1>0 DEF ScheduleTypes
<1>3. SeenIsPast'
  BY <1>0, <1>1 DEF SeenIsPast, Saw
<1>4. LedgerIsSound'
  BY <1>0, <1>1 DEF LedgerIsSound, EventIsTrue
<1>5. \A q \in Process \ {p} : TaskHas(q)'
  BY <1>0 DEF TaskIsSound, TaskHas
<1>6. \A q \in Process \ {p} : DetectionIsGrounded(q)'
  BY <1>0, <1>1, StillGrounded
<1> QED
  BY <1>2, <1>3, <1>4, <1>5, <1>6 DEF InsightInv, TaskIsSound

\* A detection finds what the watch saw, whichever of its two reads finds it.
LEMMA FindStepInv ==
    ASSUME InsightInv, NEW p \in Process, find_in_current(p) \/ find_in_history(p)
    PROVE  InsightInv'
<1>0. /\ ScheduleTypes /\ TaskHas(p) /\ SeenIsPast /\ DetectionIsGrounded(p)
  BY DEF InsightInv, TaskIsSound
<1>1. /\ task[p] # NoTask /\ task[p] \in Task /\ task[p].step \in FindSteps
      /\ UNCHANGED <<current, history, op, trail, fetches>>
  BY <1>0 DEF find_in_current, find_in_history, AtStep, FindSteps, domain,
     auxiliary, ScheduleTypes
<1>2. PICK w \in WatchId, e \in Evidence, f \in Evidence :
        w = task[p].watch /\ e = task[p].previous /\ f = task[p].evidence
  BY <1>0, <1>1 DEF DetectionIsGrounded, Task
<1>3. op[p] = NoOp
  BY <1>0, <1>1 DEF TaskHas, FindSteps
<1>4. \A g : InCurrent(w, g) \/ InHistory(w, g) => Saw(w, g)
  BY <1>0 DEF InCurrent, InHistory, SeenIsPast, D!read_current, D!read_history
<1>5. ASSUME End(p) PROVE InsightInv'
  <2>1. TaskHas(p)' /\ DetectionIsGrounded(p)'
    BY <1>0, <1>1, <1>3, <1>5, TaskMoves DEF TaskHas, DetectionIsGrounded
  <2> QED BY <1>0, <1>1, <1>5, <2>1, TaskMoves, QuietStep
<1>6. ASSUME NEW s \in FindSteps, Goto(p, s),
             s \in {"current_in_current", "current_in_history", "compare"} => Saw(w, e),
             s = "compare" => Saw(w, f)
      PROVE  InsightInv'
  <2>1. s \in Step \ RunSteps
    BY DEF Step, FindSteps, RunSteps
  <2>2. /\ task' \in [Process -> Task \cup {NoTask}]
        /\ task'[p] # NoTask /\ task'[p].step = s /\ task'[p].watch = w
        /\ task'[p].previous = e /\ task'[p].evidence = f
        /\ \A q \in Process \ {p} : task'[q] = task[q]
    BY <1>0, <1>1, <1>2, <1>6, <2>1, TaskMoves, InsightMoves
  <2>3. TaskHas(p)'
    BY <1>1, <1>3, <2>1, <2>2 DEF TaskHas, RunSteps, EvidenceSteps
  <2>4. Saw(w, e)' = Saw(w, e) /\ Saw(w, f)' = Saw(w, f)
    BY <1>1 DEF Saw
  <2>5. DetectionIsGrounded(p)'
    BY <1>6, <2>2, <2>4 DEF DetectionIsGrounded, Saw
  <2> QED BY <1>1, <2>2, <2>3, <2>5, QuietStep
<1>7. CASE task[p].step \in {"previous_in_current", "previous_in_history"}
  <2>1. \/ End(p) \/ Goto(p, "previous_in_history")
        \/ Saw(w, e) /\ Goto(p, "current_in_current")
    BY <1>2, <1>4, <1>7 DEF find_in_current, find_in_history, AtStep
  <2> QED BY <1>5, <1>6, <2>1 DEF FindSteps
<1>8. CASE task[p].step \in {"current_in_current", "current_in_history"}
  <2>1. Saw(w, e)
    BY <1>0, <1>1, <1>2, <1>8 DEF DetectionIsGrounded
  <2>2. \/ End(p) \/ Goto(p, "current_in_history")
        \/ Saw(w, f) /\ Goto(p, "compare")
    BY <1>2, <1>4, <1>8 DEF find_in_current, find_in_history, AtStep
  <2> QED BY <1>5, <1>6, <2>1, <2>2 DEF FindSteps
<1> QED
  BY <1>7, <1>8 DEF find_in_current, find_in_history, AtStep

\* The event is appended once, and with the verdict about the two bundles.
LEMMA RecordStepInv ==
    ASSUME InsightInv, NEW p \in Process, record_change(p)
    PROVE  InsightInv'
<1>0. /\ ScheduleTypes /\ TaskIsSound /\ SeenIsPast /\ LedgerIsSound
      /\ TaskHas(p) /\ \A q \in Process : DetectionIsGrounded(q)
  BY DEF InsightInv, TaskIsSound
<1>1. /\ task[p] # NoTask /\ task[p] \in Task /\ task[p].step = "compare"
      /\ End(p) /\ UNCHANGED <<current, op, trail, fetches>>
  BY <1>0 DEF record_change, AtStep, auxiliary, ScheduleTypes, D!append_history
<1>2. PICK w \in WatchId, e \in Evidence, f \in Evidence :
        /\ w = task[p].watch /\ e = task[p].previous /\ f = task[p].evidence
        /\ Saw(w, e) /\ Saw(w, f)
  BY <1>0, <1>1 DEF DetectionIsGrounded, Task, FindSteps
<1>3. op[p] = NoOp
  BY <1>0, <1>1 DEF TaskHas
<1>4. /\ task' \in [Process -> Task \cup {NoTask}] /\ task'[p] = NoTask
      /\ \A q \in Process \ {p} : task'[q] = task[q]
  BY <1>0, <1>1, TaskMoves
<1>5. TaskHas(p)' /\ DetectionIsGrounded(p)'
  BY <1>1, <1>3, <1>4 DEF TaskHas, DetectionIsGrounded
<1>6. CASE history' = history
  BY <1>1, <1>4, <1>5, <1>6, QuietStep
<1>7. CASE history' # history
  <2> DEFINE new == [identity |-> change_key(w, e, f), revision |-> 1,
                     state |-> compute_change_result(resolve(e), resolve(f))]
  <2>1. /\ resolves(e) /\ resolves(f) /\ ~D!history_exists(change_key(w, e, f), 1)
        /\ history' = history \cup {new}
    BY <1>2, <1>7 DEF record_change, D!append_history
  <2>2. PICK before \in history, after \in history :
          before.identity = e /\ after.identity = f
    BY <2>1 DEF resolves, D!history_exists
  <2>3. resolve(e) = before.state /\ resolve(f) = after.state
    BY <1>0, <2>2, ResolveIs, EventKeys
  <2>4. /\ new.identity = change_key(w, e, f) /\ new.revision = 1
        /\ new.state = compute_change_result(before.state, after.state)
    BY <2>3
  <2>5. new.identity \notin WatchId \cup Evidence
    BY <2>4, EventKeys
  <2> HIDE DEF new
  <2>6. \A row \in history : row.identity # new.identity
    BY <1>0, <2>1, <2>4, <2>5 DEF LedgerIsSound, D!history_exists
  <2>7. \A v, g : Saw(v, g)' <=> Saw(v, g)
    BY <1>1 DEF Saw
  <2>8. SeenIsPast'
    BY <1>0, <1>1, <2>1, <2>5, <2>7 DEF SeenIsPast, Saw
  <2>9. LedgerIsSound'
    <3>1. ASSUME NEW row \in history', row.identity \notin WatchId
          PROVE  /\ row.revision = 1
                 /\ \A other \in history' :
                      other.identity = row.identity => other = row
      BY <1>0, <2>1, <2>4, <2>6, <3>1 DEF LedgerIsSound
    <3>2. ASSUME NEW row \in history', row.identity \in Evidence
          PROVE  row.state \in Bundle
      BY <1>0, <2>1, <2>5, <3>2 DEF LedgerIsSound
    <3>3. ASSUME NEW row \in history', NEW v \in WatchId, NEW g \in Evidence,
                 NEW h \in Evidence, row.identity = change_key(v, g, h)
          PROVE  EventIsTrue(row, v, g, h)'
      <4>1. CASE row \in history
        <5>1. EventIsTrue(row, v, g, h)
          BY <1>0, <3>3, <4>1 DEF LedgerIsSound
        <5> QED BY <2>1, <2>7, <5>1 DEF EventIsTrue
      <4>2. CASE row = new
        <5>1. v = w /\ g = e /\ h = f
          BY <2>4, <3>3, <4>2, EventKeys
        <5>2. before \in history' /\ after \in history'
          BY <2>1
        <5>3. Saw(w, e)' /\ Saw(w, f)'
          BY <1>2, <2>7
        <5> QED BY <2>2, <2>4, <4>2, <5>1, <5>2, <5>3 DEF EventIsTrue
      <4> QED BY <2>1, <3>3, <4>1, <4>2
    <3> QED BY <3>1, <3>2, <3>3 DEF LedgerIsSound
  <2>10. ScheduleTypes'
    BY <1>0, <1>1, <1>4 DEF ScheduleTypes
  <2>11. \A q \in Process : TaskHas(q)'
    BY <1>0, <1>1, <1>4, <1>5 DEF TaskIsSound, TaskHas
  <2>12. \A q \in Process : DetectionIsGrounded(q)'
    BY <1>0, <1>4, <1>5, <2>7, StillGrounded
  <2> QED BY <2>8, <2>9, <2>10, <2>11, <2>12 DEF InsightInv, TaskIsSound
<1> QED BY <1>6, <1>7

\* Starting a detection, and an assessment, which only reads.
LEMMA OtherStepInv ==
    ASSUME InsightInv, NEW p \in Process,
           \/ HealthStep(p)
           \/ \E w \in WatchId :
                \/ assess_watch_health(p, w)
                \/ \E e \in Evidence : \E f \in Evidence \ {e} :
                     detect_and_record_change(p, w, e, f)
    PROVE  InsightInv'
<1>0. ScheduleTypes /\ TaskHas(p)
  BY DEF InsightInv, TaskIsSound
<1>1. CASE HealthStep(p)
  <2>1. /\ task[p] # NoTask
        /\ task[p].step \in {"health_history", "health_current", "assess"}
        /\ UNCHANGED <<current, history, op, trail, fetches>>
        /\ End(p) \/ \E s \in {"health_current", "assess"} : Goto(p, s)
    BY <1>1 DEF HealthStep, read_superseded, read_latest, return_report,
       AtStep, domain, auxiliary
  <2>2. op[p] = NoOp
    BY <1>0, <2>1 DEF TaskHas
  <2>3. CASE End(p)
    <3>1. TaskHas(p)' /\ DetectionIsGrounded(p)'
      BY <1>0, <2>1, <2>2, <2>3, TaskMoves DEF TaskHas, DetectionIsGrounded
    <3> QED BY <1>0, <2>1, <2>3, <3>1, TaskMoves, QuietStep
  <2>4. ASSUME NEW s \in {"health_current", "assess"}, Goto(p, s)
        PROVE  InsightInv'
    <3>1. s \in Step
      BY DEF Step
    <3>2. /\ task' \in [Process -> Task \cup {NoTask}]
          /\ task'[p] # NoTask /\ task'[p].step = s
          /\ \A q \in Process \ {p} : task'[q] = task[q]
      BY <1>0, <2>1, <2>4, <3>1, TaskMoves
    <3>3. TaskHas(p)' /\ DetectionIsGrounded(p)'
      BY <2>1, <2>2, <3>2 DEF TaskHas, DetectionIsGrounded, RunSteps,
         EvidenceSteps, FindSteps
    <3> QED BY <2>1, <3>2, <3>3, QuietStep
  <2> QED BY <2>1, <2>3, <2>4
<1>2. ASSUME NEW w \in WatchId, assess_watch_health(p, w) PROVE InsightInv'
  <2>1. /\ Start(p, "health_history", w, Nothing, Nothing, Nothing)
        /\ UNCHANGED <<current, history, op, trail, fetches>>
    BY <1>2 DEF assess_watch_health, domain, auxiliary
  <2>2. /\ task' \in [Process -> Task \cup {NoTask}] /\ task[p] = NoTask
        /\ task'[p] # NoTask /\ task'[p].step = "health_history"
        /\ \A q \in Process \ {p} : task'[q] = task[q]
    BY <1>0, <2>1, TaskMoves DEF Step
  <2>3. TaskHas(p)' /\ DetectionIsGrounded(p)'
    BY <1>0, <2>1, <2>2 DEF TaskHas, DetectionIsGrounded, RunSteps,
       EvidenceSteps, FindSteps
  <2> QED BY <2>1, <2>2, <2>3, QuietStep
<1>3. ASSUME NEW w \in WatchId, NEW e \in Evidence, NEW f \in Evidence,
             detect_and_record_change(p, w, e, f)
      PROVE  InsightInv'
  <2>1. /\ Start(p, "previous_in_current", w, Nothing, f, e)
        /\ UNCHANGED <<current, history, op, trail, fetches>>
    BY <1>3 DEF detect_and_record_change, domain, auxiliary
  <2>2. /\ task' \in [Process -> Task \cup {NoTask}]
        /\ task[p] = NoTask /\ task'[p] # NoTask
        /\ task'[p].step = "previous_in_current"
        /\ task'[p].evidence = f /\ task'[p].previous = e
        /\ \A q \in Process \ {p} : task'[q] = task[q]
    BY <1>0, <2>1, InsightMoves
  <2>3. TaskHas(p)' /\ DetectionIsGrounded(p)'
    BY <1>0, <2>1, <2>2 DEF TaskHas, DetectionIsGrounded, RunSteps,
       EvidenceSteps
  <2> QED BY <2>1, <2>2, <2>3, QuietStep
<1> QED BY <1>1, <1>2, <1>3

LEMMA InsightInitInv == InsightInit => InsightInv
<1> SUFFICES ASSUME InsightInit PROVE InsightInv
  OBVIOUS
<1> DEFINE first == [revision |-> 1, state |-> Active(Nothing)]
<1>0. /\ fetches = [run \in Run |-> 0]
      /\ current = [key \in Key |-> IF key \in WatchId THEN first ELSE NoRow]
      /\ op = [p \in Process |-> NoOp]
      /\ trail = [w \in WatchId |-> <<Active(Nothing)>>]
      /\ task = [p \in Process |-> NoTask]
  BY DEF InsightInit
<1>1. first \in D!Row /\ first.state = Active(Nothing) /\ first # NoRow
  BY Payloads, MissingRowAssumption DEF D!Row
<1> HIDE DEF first
<1>2. \A w \in WatchId :
        /\ current[w] = first /\ current[w] # NoRow
        /\ current[w].state = Active(Nothing)
        /\ trail[w] = <<Active(Nothing)>>
  BY <1>0, <1>1, RunKeys
<1>3. <<Active(Nothing)>> \in Seq(WatchState)
  BY Payloads
<1>4. ScheduleTypes
  <2>1. current \in [Key -> D!Row \cup {NoRow}]
    BY <1>0, <1>1
  <2>2. trail \in [WatchId -> Seq(WatchState)]
    BY <1>0, <1>3
  <2> QED BY <1>0, <1>2, <2>1, <2>2, Payloads DEF ScheduleTypes
<1>5. TaskIsSound /\ \A p \in Process : DetectionIsGrounded(p)
  BY <1>0 DEF TaskIsSound, TaskHas, DetectionIsGrounded
<1>6. ASSUME NEW row \in history
      PROVE  /\ row.revision = 1
             /\ \E w \in WatchId :
                  row \in {[identity |-> definition_key(w), revision |-> 1,
                            state |-> Definition],
                           [identity |-> schedule_key(w), revision |-> 1,
                            state |-> Schedule]}
  BY <1>6 DEF InsightInit
<1>7. \A row \in history : \E w \in WatchId :
        row.identity \in {definition_key(w), schedule_key(w)}
  BY <1>6
<1>8. ASSUME NEW row \in history, NEW other \in history,
             other.identity = row.identity
      PROVE  other = row
  <2>1. \A v, w \in WatchId :
          /\ definition_key(v) # schedule_key(w)
          /\ definition_key(v) = definition_key(w) => v = w
          /\ schedule_key(v) = schedule_key(w) => v = w
    BY DEF definition_key, schedule_key
  <2> QED BY <1>6, <1>8, <2>1
<1>9. SeenIsPast
  <2>1. ASSUME NEW w \in WatchId
        PROVE  Saw(w, last_evidence(current[w].state))
    <3>1. /\ trail[w] = <<Active(Nothing)>>
          /\ last_evidence(current[w].state) = Active(Nothing).value
      BY <1>2 DEF last_evidence
    <3>2. 1 \in 1 .. Len(trail[w]) /\ trail[w][1] = Active(Nothing)
      BY <3>1
    <3> QED BY <3>1, <3>2 DEF Saw
  <2>2. \A row \in history : row.identity \notin WatchId
    BY <1>7, EventKeys
  <2>3. \A p \in Process : op[p] = NoOp
    BY <1>0
  <2> QED BY <2>1, <2>2, <2>3 DEF SeenIsPast
<1>10. LedgerIsSound
  BY <1>6, <1>7, <1>8, EventKeys DEF LedgerIsSound
<1> QED
  BY <1>4, <1>5, <1>9, <1>10 DEF InsightInv

\* Every step keeps the invariant.
LEMMA InsightStepInv == InsightInv /\ [InsightNext]_insightVars => InsightInv'
<1> SUFFICES ASSUME InsightInv, [InsightNext]_insightVars PROVE InsightInv'
  OBVIOUS
<1>1. CASE UNCHANGED insightVars
  <2>1. UNCHANGED <<current, history, op, trail, task, fetches>>
    BY <1>1 DEF insightVars
  <2>2. ScheduleTypes' /\ TaskIsSound'
    BY <2>1 DEF InsightInv, ScheduleTypes, TaskIsSound, TaskHas
  <2>3. SeenIsPast' /\ LedgerIsSound'
    BY <2>1 DEF InsightInv, SeenIsPast, LedgerIsSound, EventIsTrue, Saw
  <2>4. \A p \in Process : DetectionIsGrounded(p)'
    BY <2>1 DEF InsightInv, DetectionIsGrounded, Saw
  <2> QED BY <2>2, <2>3, <2>4 DEF InsightInv
<1>2. ASSUME NEW p \in Process,
             \/ Progress(p) /\ UNCHANGED ordered
             \/ DetectStep(p) \/ HealthStep(p)
             \/ /\ Failure(p) /\ ordered' = [ordered EXCEPT ![p] = <<>>]
                /\ UNCHANGED auxiliary
             \/ \E w \in WatchId :
                  \/ /\ apply_watch_transition(p, w, StopWatch)
                     /\ UNCHANGED <<auxiliary, ordered>>
                  \/ \E tick \in Tick : execute_scheduled_watch_run(p, w, tick)
                                        /\ UNCHANGED ordered
                  \/ \E e \in Evidence : \E f \in Evidence \ {e} :
                       detect_and_record_change(p, w, e, f)
                  \/ assess_watch_health(p, w)
      PROVE  InsightInv'
  <2>1. \/ ActorStep(p)
        \/ find_in_current(p) \/ find_in_history(p) \/ record_change(p)
        \/ HealthStep(p)
        \/ \E w \in WatchId :
             \/ assess_watch_health(p, w)
             \/ \E e \in Evidence : \E f \in Evidence \ {e} :
                  detect_and_record_change(p, w, e, f)
    BY <1>2 DEF ActorStep, DetectStep, auxiliary
  <2> QED BY <2>1, PipelineStepInv, FindStepInv, RecordStepInv, OtherStepInv
<1> QED BY <1>1, <1>2 DEF InsightNext

\* The inductive invariant of change detection.
THEOREM InsightInvariant == InsightSpec => []InsightInv
  BY InsightInitInv, InsightStepInv, PTL DEF InsightSpec

\* The verdict on two bundles says what it means.
LEMMA Verdict ==
    ASSUME NEW a \in Bundle, NEW b \in Bundle
    PROVE  /\ compute_change_result(a, b).kind = "Unchanged" <=>
                a = b /\ comparable(b)
           /\ compute_change_result(a, b).kind = "Changed" <=>
                a.kind = b.kind /\ comparable(b) /\ a.value # b.value
<1>1. a = [kind |-> a.kind, value |-> a.value]
      /\ b = [kind |-> b.kind, value |-> b.value]
  BY DEF Bundle, Payload
<1>2. a = b <=> a.kind = b.kind /\ a.value = b.value
  BY <1>1
<1> QED
  BY <1>1, <1>2 DEF compute_change_result, comparable, Payload

\* detect_and_record_change never records an event about evidence the watch
\* did not observe, nor a verdict that the two bundles do not bear out.
THEOREM EventsAreTrue == InsightSpec => []ChangeEventIsTruthful
<1>1. ASSUME InsightInv PROVE ChangeEventIsTruthful
  <2> SUFFICES ASSUME NEW w \in WatchId, NEW e \in Evidence, NEW f \in Evidence,
                      D!history_exists(change_key(w, e, f), 1)
               PROVE  LET verdict == resolve(change_key(w, e, f)).kind
                          before == resolve(e)
                          after == resolve(f)
                      IN  /\ e \in Observed(w) /\ f \in Observed(w)
                          /\ verdict = "Unchanged" <=>
                               before = after /\ comparable(after)
                          /\ verdict = "Changed" <=>
                               /\ before.kind = after.kind /\ comparable(after)
                               /\ before.value # after.value
    BY DEF ChangeEventIsTruthful
  <2>0. LedgerIsSound
    BY <1>1 DEF InsightInv
  <2>1. PICK row \in history : row.identity = change_key(w, e, f)
    BY DEF D!history_exists
  <2>2. EventIsTrue(row, w, e, f)
    BY <2>0, <2>1 DEF LedgerIsSound
  <2>3. PICK before \in history, after \in history :
          /\ before.identity = e /\ after.identity = f
          /\ row.state = compute_change_result(before.state, after.state)
    BY <2>2 DEF EventIsTrue
  <2>4. /\ resolve(change_key(w, e, f)) = row.state
        /\ resolve(e) = before.state /\ resolve(f) = after.state
    BY <2>0, <2>1, <2>3, ResolveIs, EventKeys
  <2>5. before.state \in Bundle /\ after.state \in Bundle
    BY <2>0, <2>3 DEF LedgerIsSound
  <2>6. e \in Observed(w) /\ f \in Observed(w)
    BY <2>2, NothingAssumption DEF EventIsTrue, Saw, Observed, last_evidence
  <2> QED BY <2>3, <2>4, <2>5, <2>6, Verdict
<1> QED
  BY <1>1, InsightInvariant, PTL

----------------------------------------------------------------------------
(***************************************************************************)
(* Health.                                                                 *)
(***************************************************************************)
\* The observations are met, in their order, among the first n states.
FoundInOrder(observations, states, n) ==
    \E place \in [1 .. Len(observations) -> 1 .. n] :
        /\ \A i \in 1 .. Len(observations) :
             states[place[i]].value = observations[i]
        /\ \A j \in 1 .. Len(observations) : \A i \in 1 .. j - 1 :
             place[i] < place[j]

\* What is stored or carried of a watch, it was at that revision; what is in
\* the history, or about to be, is over.
PastIsTrue ==
    /\ D!CurrentIsNewest
    /\ \A row \in history : row.identity \in WatchId =>
         /\ row.revision \in 1 .. Len(trail[row.identity]) - 1
         /\ row.state = trail[row.identity][row.revision]
    /\ \A p \in Process : op[p] # NoOp /\ op[p].stage \in {"write", "append"} =>
         /\ op[p].revision \in 1 .. Len(trail[op[p].entity])
         /\ op[p].old = trail[op[p].entity][op[p].revision]
         /\ op[p].stage = "append" => op[p].revision < Len(trail[op[p].entity])

\* An assessment has read of the past, and then of the present.
ReadingIsInOrder(p) ==
    task[p] # NoTask =>
        LET w == task[p].watch
        IN  /\ task[p].step = "health_current" =>
                 FoundInOrder(ordered[p], trail[w], Len(trail[w]) - 1)
            /\ task[p].step = "assess" =>
                 FoundInOrder(ordered[p], trail[w], Len(trail[w]))

HealthInv ==
    /\ ordered \in [Process -> Seq(Evidence)]
    /\ PastIsTrue
    /\ \A p \in Process : ReadingIsInOrder(p)

----------------------------------------------------------------------------
\* The numbers of a finite set are met in ascending order, each at its rank.
LEMMA NthAscends ==
    ASSUME NEW S \in SUBSET Nat, IsFiniteSet(S)
    PROVE  \A k \in 1 .. Cardinality(S) :
             /\ nth(S, k) \in S
             /\ \A j \in 1 .. k - 1 : nth(S, j) < nth(S, k)
<1> DEFINE Below(n) == {m \in S : m < n}
           size == Cardinality(S)
           rank == [n \in S |-> Cardinality(Below(n))]
<1>1. size \in Nat
  BY FS_CardinalityType
<1>2. ASSUME NEW n \in S
      PROVE  /\ IsFiniteSet(Below(n)) /\ Cardinality(Below(n)) \in Nat
             /\ Cardinality(Below(n)) < size
  <2>1. Below(n) \in SUBSET S /\ Below(n) # S
    BY <1>2
  <2>2. /\ IsFiniteSet(Below(n)) /\ Cardinality(Below(n)) <= size
        /\ size = Cardinality(Below(n)) => S = Below(n)
    BY <2>1, FS_Subset
  <2>3. Cardinality(Below(n)) \in Nat
    BY <2>2, FS_CardinalityType
  <2> HIDE DEF Below, size
  <2> QED BY <1>1, <2>1, <2>2, <2>3
<1>3. ASSUME NEW m \in S, NEW n \in S, m < n
      PROVE  Cardinality(Below(m)) < Cardinality(Below(n))
  <2>0. m \in Nat /\ n \in Nat /\ \A i \in S : i \in Nat
    OBVIOUS
  <2>1. Below(m) \in SUBSET Below(n) /\ Below(m) # Below(n)
    <3>1. \A i \in Below(m) : i \in Below(n)
      BY <1>3, <2>0
    <3>2. m \in Below(n) /\ m \notin Below(m)
      BY <1>3, <2>0
    <3> QED BY <3>1, <3>2
  <2>2. /\ Cardinality(Below(m)) <= Cardinality(Below(n))
        /\ Cardinality(Below(n)) = Cardinality(Below(m)) => Below(n) = Below(m)
    BY <1>2, <2>1, FS_Subset
  <2>3. Cardinality(Below(m)) \in Nat /\ Cardinality(Below(n)) \in Nat
    BY <1>2
  <2> HIDE DEF Below
  <2> QED BY <2>1, <2>2, <2>3
<1> HIDE DEF Below
<1>4. rank \in Injection(S, 0 .. size - 1)
  <2>1. rank \in [S -> 0 .. size - 1]
    BY <1>1, <1>2
  <2>2. ASSUME NEW m \in S, NEW n \in S, rank[m] = rank[n] PROVE m = n
    <3>1. Cardinality(Below(m)) = Cardinality(Below(n))
      BY <2>2
    <3>2. m \in Nat /\ n \in Nat
      OBVIOUS
    <3>3. Cardinality(Below(m)) \in Nat /\ Cardinality(Below(n)) \in Nat
      BY <1>2
    <3> QED BY <1>3, <3>1, <3>2, <3>3
  <2> HIDE DEF rank
  <2> QED BY <2>1, <2>2 DEF Injection, IsInjective
<1>5. IsFiniteSet(0 .. size - 1) /\ Cardinality(0 .. size - 1) = size
  <2>1. 0 \in Int /\ size - 1 \in Int
        /\ (IF 0 > size - 1 THEN 0 ELSE (size - 1) - 0 + 1) = size
    BY <1>1
  <2> QED BY <2>1, FS_Interval
<1>6. rank \in Surjection(S, 0 .. size - 1)
  <2> HIDE DEF rank
  <2> QED BY <1>4, <1>5, FS_Injection
<1>7. \A k \in 1 .. size : \E n \in S : Cardinality(Below(n)) = k - 1
  <2> TAKE k \in 1 .. size
  <2>1. k - 1 \in 0 .. size - 1
    BY <1>1
  <2>2. PICK n \in S : rank[n] = k - 1
    <3> HIDE DEF rank, size
    <3> QED BY <1>6, <2>1 DEF Surjection
  <2> QED BY <2>2
<1>8. ASSUME NEW k \in 1 .. size
      PROVE  nth(S, k) \in S /\ Cardinality(Below(nth(S, k))) = k - 1
  BY <1>7, <1>8 DEF nth, Below
<1>9. ASSUME NEW k \in 1 .. size, NEW j \in 1 .. k - 1
      PROVE  nth(S, j) < nth(S, k)
  <2>1. j \in 1 .. size /\ k \in Nat /\ j \in Nat /\ j < k
    BY <1>1, <1>9
  <2>2. /\ nth(S, j) \in S /\ Cardinality(Below(nth(S, j))) = j - 1
        /\ nth(S, k) \in S /\ Cardinality(Below(nth(S, k))) = k - 1
    BY <1>8, <1>9, <2>1
  <2> DEFINE a == nth(S, j)
             b == nth(S, k)
  <2>3. a \in S /\ b \in S /\ a \in Nat /\ b \in Nat
        /\ Cardinality(Below(a)) < Cardinality(Below(b))
    <3>1. j - 1 < k - 1
      BY <2>1
    <3> QED BY <2>2, <3>1
  <2>4. Cardinality(Below(a)) \in Nat /\ Cardinality(Below(b)) \in Nat
    BY <1>2, <2>3
  <2> HIDE DEF a, b
  <2>5. a < b
    BY <1>3, <2>3, <2>4
  <2> QED BY <2>5 DEF a, b
<1> QED BY <1>8, <1>9

\* The observations among some states, in the order of those states.
LEMMA ObservationsInOrder ==
    ASSUME NEW n \in Nat, NEW states \in [1 .. n -> WatchState]
    PROVE  LET obs == Observations(states)
           IN  obs \in Seq(Evidence) /\ FoundInOrder(obs, states, n)
<1> DEFINE O == {i \in 1 .. n : states[i].value # Nothing}
           obs == Observations(states)
           place == [k \in 1 .. Cardinality(O) |-> nth(O, k)]
<1>1. O \in SUBSET Nat /\ IsFiniteSet(O) /\ Cardinality(O) \in Nat
  <2>1. O \in SUBSET Nat /\ \A i \in O : i <= n
    OBVIOUS
  <2>2. IsFiniteSet(O)
    <3> HIDE DEF O
    <3> QED BY <2>1, FS_BoundedSetOfNaturals
  <2> QED BY <2>1, <2>2, FS_CardinalityType
<1>2. obs = [k \in 1 .. Cardinality(O) |-> states[nth(O, k)].value]
  <2>1. {i \in DOMAIN states : last_evidence(states[i]) # Nothing} = O
    BY DEF last_evidence
  <2> QED BY <2>1 DEF Observations, last_evidence
<1>3. \A i \in O : i \in 1 .. n /\ states[i].value \in Evidence
  BY DEF WatchState, Active, Stopped, Payload
<1> HIDE DEF O, obs
<1>4. \A k \in 1 .. Cardinality(O) :
        /\ nth(O, k) \in 1 .. n /\ states[nth(O, k)].value \in Evidence
        /\ \A j \in 1 .. k - 1 : nth(O, j) < nth(O, k)
  BY <1>1, <1>3, NthAscends
<1>5. obs \in Seq(Evidence) /\ Len(obs) = Cardinality(O)
  BY <1>1, <1>2, <1>4
<1>6. /\ place \in [1 .. Len(obs) -> 1 .. n]
      /\ \A i \in 1 .. Len(obs) : states[place[i]].value = obs[i]
      /\ \A j \in 1 .. Len(obs) : \A i \in 1 .. j - 1 : place[i] < place[j]
  BY <1>1, <1>2, <1>4, <1>5
<1> HIDE DEF place
<1>7. FoundInOrder(obs, states, n)
  BY <1>6 DEF FoundInOrder
<1> QED BY <1>5, <1>7 DEF obs

\* What read_history returns of a watch, by revision: states it was in, in
\* the order in which it was, and none of them the current one.
LEMMA SupersededInOrder ==
    ASSUME ScheduleTypes, PastIsTrue, NEW w \in WatchId
    PROVE  LET obs == Observations(superseded_states(w))
           IN  /\ obs \in Seq(Evidence)
               /\ FoundInOrder(obs, trail[w], Len(trail[w]) - 1)
<1> DEFINE R == Revisions(w)
           n == Cardinality(R)
           past == Len(trail[w]) - 1
           states == superseded_states(w)
           obs == Observations(states)
<1>0. trail[w] \in Seq(WatchState) /\ Len(trail[w]) \in Nat
  BY DEF ScheduleTypes
<1>1. ASSUME NEW r \in R
      PROVE  r \in 1 .. past /\ superseded_at(w, r) = trail[w][r]
  <2>1. \A row \in D!read_history(w) :
          /\ row.revision \in 1 .. past
          /\ row.state = trail[w][row.revision]
    BY DEF PastIsTrue, D!read_history
  <2>2. \E row \in D!read_history(w) : row.revision = r
    BY <1>1 DEF Revisions
  <2>3. PICK row \in D!read_history(w) :
          row.revision = r /\ superseded_at(w, r) = row.state
    BY <2>2 DEF superseded_at
  <2> QED BY <2>1, <2>3
<1>2. R \in SUBSET Nat /\ IsFiniteSet(R) /\ n \in Nat
  <2>1. R \in SUBSET Nat /\ \A r \in R : r <= Len(trail[w])
    BY <1>0, <1>1
  <2>2. IsFiniteSet(R)
    <3> HIDE DEF R
    <3> QED BY <1>0, <2>1, FS_BoundedSetOfNaturals
  <2> QED BY <2>1, <2>2, FS_CardinalityType
<1>3. \A k \in 1 .. n : /\ nth(R, k) \in R
                        /\ \A j \in 1 .. k - 1 : nth(R, j) < nth(R, k)
  BY <1>2, NthAscends
<1>4. states = [k \in 1 .. n |-> superseded_at(w, nth(R, k))]
  BY DEF superseded_states
<1> HIDE DEF R, n, states, obs
<1>5. ASSUME NEW k \in 1 .. n
      PROVE  /\ nth(R, k) \in 1 .. past
             /\ states[k] = trail[w][nth(R, k)] /\ states[k] \in WatchState
  BY <1>0, <1>1, <1>3, <1>4, <1>5
<1>6. states \in [1 .. n -> WatchState]
  BY <1>4, <1>5
<1>7. obs \in Seq(Evidence) /\ FoundInOrder(obs, states, n)
  BY <1>2, <1>6, ObservationsInOrder DEF obs
<1>8. FoundInOrder(obs, trail[w], past)
  <2>1. PICK place \in [1 .. Len(obs) -> 1 .. n] :
          /\ \A i \in 1 .. Len(obs) : states[place[i]].value = obs[i]
          /\ \A j \in 1 .. Len(obs) : \A i \in 1 .. j - 1 : place[i] < place[j]
    BY <1>7 DEF FoundInOrder
  <2> DEFINE revision == [i \in 1 .. Len(obs) |-> nth(R, place[i])]
  <2>2. /\ revision \in [1 .. Len(obs) -> 1 .. past]
        /\ \A i \in 1 .. Len(obs) : trail[w][revision[i]].value = obs[i]
    BY <1>5, <2>1
  <2>3. ASSUME NEW j \in 1 .. Len(obs), NEW i \in 1 .. j - 1
        PROVE  revision[i] < revision[j]
    <3>1. i \in 1 .. Len(obs)
      BY <1>7, <2>3
    <3>2. place[j] \in 1 .. n /\ place[i] \in 1 .. place[j] - 1
      BY <1>2, <2>1, <2>3, <3>1
    <3> QED BY <1>3, <2>3, <3>1, <3>2
  <2> HIDE DEF revision, past
  <2> QED BY <2>2, <2>3 DEF FoundInOrder
<1> QED BY <1>7, <1>8 DEF obs, states

\* The current state comes last, whatever the watch did since the first read.
LEMMA LatestInOrder ==
    ASSUME ScheduleTypes, PastIsTrue, NEW w \in WatchId,
           NEW seq \in Seq(Evidence),
           FoundInOrder(seq, trail[w], Len(trail[w]) - 1)
    PROVE  LET all == seq \o Observations(current_state(w))
           IN  /\ all \in Seq(Evidence)
               /\ FoundInOrder(all, trail[w], Len(trail[w]))
<1> DEFINE states == current_state(w)
           last == Observations(states)
           all == seq \o last
           n == Len(trail[w])
<1> HIDE DEF states, last, all, n
<1>0. trail[w] \in Seq(WatchState) /\ n \in Nat /\ Len(seq) \in Nat
  BY DEF ScheduleTypes, n
<1>1. PICK m \in {0, 1} : /\ states \in [1 .. m -> WatchState]
                          /\ m = 1 => n > 0 /\ states[1] = trail[w][n]
  <2>1. CASE current[w] = NoRow
    <3>1. states = <<>> /\ <<>> \in [1 .. 0 -> WatchState]
      BY <2>1 DEF states, current_state, D!read_current
    <3> QED BY <3>1
  <2>2. CASE current[w] # NoRow
    <3>1. /\ states = <<current[w].state>>
          /\ current[w].state = trail[w][n] /\ current[w].state \in WatchState
          /\ n > 0
      BY <2>2, RunKeys DEF current_state, D!read_current, PastIsTrue,
         D!CurrentIsNewest, ScheduleTypes, D!Row, states, n
    <3>2. states \in [1 .. 1 -> WatchState] /\ states[1] = current[w].state
      BY <3>1
    <3> QED BY <3>1, <3>2
  <2> QED BY <2>1, <2>2
<1>2. last \in Seq(Evidence) /\ FoundInOrder(last, states, m)
  <2>1. m \in Nat
    BY <1>1
  <2> QED BY <1>1, <2>1, ObservationsInOrder DEF last
<1> DEFINE extra == Len(last)
<1> HIDE DEF extra
<1>3. /\ extra \in Nat /\ extra <= 1
      /\ extra = 1 => n > 0 /\ last[1] = trail[w][n].value
  <2>1. PICK place \in [1 .. extra -> 1 .. m] :
          /\ \A i \in 1 .. extra : states[place[i]].value = last[i]
          /\ \A j \in 1 .. extra : \A i \in 1 .. j - 1 : place[i] < place[j]
    BY <1>2 DEF FoundInOrder, extra
  <2>2. extra \in Nat
    BY <1>2 DEF extra
  <2>3. ~(extra > 1)
    <3>1. SUFFICES ASSUME extra > 1 PROVE FALSE
      OBVIOUS
    <3>2. 1 \in 1 .. extra /\ 2 \in 1 .. extra /\ 1 \in 1 .. 2 - 1
      BY <2>2, <3>1
    <3>3. place[1] \in 1 .. m /\ place[2] \in 1 .. m /\ place[1] < place[2]
      BY <2>1, <3>2
    <3> QED BY <1>1, <3>3
  <2>4. ASSUME extra = 1 PROVE n > 0 /\ last[1] = trail[w][n].value
    <3>1. 1 \in 1 .. extra
      BY <2>4
    <3>2. place[1] \in 1 .. m /\ states[place[1]].value = last[1]
      BY <2>1, <3>1
    <3>3. m = 1 /\ place[1] = 1
      BY <1>1, <3>2
    <3> QED BY <1>1, <3>2, <3>3
  <2> QED BY <2>2, <2>3, <2>4
<1>4. /\ all \in Seq(Evidence) /\ Len(all) = Len(seq) + extra
      /\ \A i \in 1 .. Len(seq) : all[i] = seq[i]
      /\ extra = 1 => all[Len(seq) + 1] = last[1]
  BY <1>2 DEF all, extra
<1>5. FoundInOrder(all, trail[w], n)
  <2>1. PICK place \in [1 .. Len(seq) -> 1 .. n - 1] :
          /\ \A i \in 1 .. Len(seq) : trail[w][place[i]].value = seq[i]
          /\ \A j \in 1 .. Len(seq) : \A i \in 1 .. j - 1 : place[i] < place[j]
    BY DEF FoundInOrder, n
  <2> DEFINE revision ==
        [i \in 1 .. Len(all) |-> IF i <= Len(seq) THEN place[i] ELSE n]
  <2>0. Len(all) \in Nat
    BY <1>4
  <2>2. ASSUME NEW i \in 1 .. Len(all)
        PROVE  revision[i] \in 1 .. n /\ trail[w][revision[i]].value = all[i]
    <3>1. CASE i <= Len(seq)
      <4>1. i \in 1 .. Len(seq) /\ revision[i] = place[i]
        BY <1>0, <2>2, <3>1
      <4>2. place[i] \in 1 .. n - 1 /\ trail[w][place[i]].value = seq[i]
        BY <2>1, <4>1
      <4> QED BY <1>0, <1>4, <4>1, <4>2
    <3>2. CASE i > Len(seq)
      <4>1. i <= Len(seq) + extra /\ i \in Nat
        BY <1>4, <2>0, <2>2
      <4>2. extra = 1 /\ i = Len(seq) + 1
        BY <1>0, <1>3, <3>2, <4>1
      <4>3. revision[i] = n
        BY <1>0, <2>2, <3>2, <4>1
      <4> QED BY <1>0, <1>3, <1>4, <4>2, <4>3
    <3> QED BY <1>0, <2>2, <3>1, <3>2
  <2>3. ASSUME NEW j \in 1 .. Len(all), NEW i \in 1 .. j - 1
        PROVE  revision[i] < revision[j]
    <3>1. i \in 1 .. Len(seq) /\ i \in 1 .. Len(all) /\ revision[i] = place[i]
      <4>1. /\ i \in Nat /\ i >= 1 /\ j \in Nat /\ i <= j - 1
            /\ j <= Len(seq) + extra
        BY <1>4, <2>0, <2>3
      <4>2. i <= Len(seq)
        BY <1>0, <1>3, <4>1
      <4>3. i \in 1 .. Len(seq) /\ i \in 1 .. Len(all)
        BY <1>0, <1>4, <2>0, <4>1, <4>2
      <4> QED BY <4>2, <4>3
    <3>2. place[i] \in 1 .. n - 1
      BY <2>1, <3>1
    <3>3. CASE j <= Len(seq)
      <4>1. j \in 1 .. Len(seq) /\ revision[j] = place[j]
        BY <1>0, <2>3, <3>3
      <4> QED BY <2>1, <2>3, <3>1, <4>1
    <3>4. CASE j > Len(seq)
      <4>1. revision[j] = n
        BY <1>0, <2>3, <3>4
      <4> QED BY <1>0, <3>1, <3>2, <4>1
    <3> QED BY <1>0, <2>3, <3>3, <3>4
  <2>4. revision \in [1 .. Len(all) -> 1 .. n]
    BY <2>2
  <2> HIDE DEF revision
  <2> QED BY <2>2, <2>3, <2>4 DEF FoundInOrder
<1> QED BY <1>4, <1>5 DEF all, last, states, n
----------------------------------------------------------------------------
\* Trails only grow.
TrailsGrow ==
    \A w \in WatchId :
        /\ Len(trail'[w]) \in Nat /\ Len(trail[w]) <= Len(trail'[w])
        /\ \A r \in 1 .. Len(trail[w]) : trail'[w][r] = trail[w][r]

LEMMA GrowthStep ==
    ASSUME ScheduleTypes, NEW p \in Process, TaskHas(p), ActorStep(p)
    PROVE  TrailsGrow
<1>0. trail \in [WatchId -> Seq(WatchState)]
  BY DEF ScheduleTypes
<1>1. CASE trail' = trail
  BY <1>0, <1>1 DEF TrailsGrow
<1>2. ASSUME NEW w \in WatchId, NEW new \in WatchState, Extends(w, new)
      PROVE  TrailsGrow
  <2>1. /\ trail[w] \in Seq(WatchState) /\ trail'[w] = Append(trail[w], new)
        /\ \A v \in WatchId \ {w} : trail'[v] = trail[v]
    BY <1>0, <1>2 DEF Extends
  <2>2. /\ Len(trail'[w]) = Len(trail[w]) + 1 /\ Len(trail[w]) \in Nat
        /\ \A r \in 1 .. Len(trail[w]) : trail'[w][r] = trail[w][r]
    BY <2>1
  <2> QED BY <1>0, <2>1, <2>2 DEF TrailsGrow
<1> QED BY <1>1, <1>2, TrailStep

\* Runs and transitions keep the past true: the compare-and-swap that moves a
\* watch on is against the revision whose state is carried and then appended.
LEMMA PastStep ==
    ASSUME ScheduleTypes, PastIsTrue, NEW p \in Process, TaskHas(p), ActorStep(p)
    PROVE  PastIsTrue'
<1>0. /\ current \in [Key -> D!Row \cup {NoRow}]
      /\ trail \in [WatchId -> Seq(WatchState)]
      /\ op \in [Process -> D!Frame \cup {NoOp}]
      /\ \A q \in Process \ {p} : op'[q] = op[q]
  BY TaskStep DEF ScheduleTypes
<1>1. TrailsGrow
  BY GrowthStep
<1>2. \A w \in WatchId :
        /\ Len(trail[w]) \in Nat
        /\ D!ActualRevision(w) = Len(trail[w])
        /\ current[w] # NoRow =>
             /\ current[w].revision = Len(trail[w])
             /\ current[w].state = trail[w][Len(trail[w])]
             /\ Len(trail[w]) > 0
  BY <1>0, RunKeys DEF PastIsTrue, D!CurrentIsNewest, D!ActualRevision, D!Row
<1>3. D!CurrentIsNewest'
  <2>1. CASE trail' = trail /\ \A w \in WatchId : current'[w] = current[w]
    BY <2>1 DEF PastIsTrue, D!CurrentIsNewest
  <2>2. ASSUME NEW w \in WatchId, NEW new \in WatchState, Extends(w, new)
        PROVE  D!CurrentIsNewest'
    <3>1. /\ trail'[w] = Append(trail[w], new) /\ trail[w] \in Seq(WatchState)
          /\ current'[w] # NoRow /\ current'[w].state = new
          /\ current'[w].revision = Len(trail[w]) + 1
          /\ \A v \in WatchId \ {w} : trail'[v] = trail[v] /\ current'[v] = current[v]
      BY <1>0, <1>2, <2>2 DEF Extends
    <3>2. Len(trail'[w]) = Len(trail[w]) + 1 /\ trail'[w][Len(trail[w]) + 1] = new
      BY <3>1, <2>2
    <3> QED BY <3>1, <3>2 DEF PastIsTrue, D!CurrentIsNewest
  <2> QED BY <2>1, <2>2, TrailStep
<1>4. ASSUME NEW row \in history', row.identity \in WatchId
      PROVE  /\ row.revision \in 1 .. Len(trail'[row.identity]) - 1
             /\ row.state = trail'[row.identity][row.revision]
  <2>1. /\ row.revision \in 1 .. Len(trail[row.identity]) - 1
        /\ row.state = trail[row.identity][row.revision]
    <3>1. CASE row \in history
      BY <1>4, <3>1 DEF PastIsTrue
    <3>2. CASE row \notin history
      <4>1. NewRow(p, row)
        BY <3>2, HistoryStep
      <4>2. /\ op[p] # NoOp /\ op[p].stage = "append"
            /\ row.identity = op[p].entity
            /\ row.state = op[p].old /\ row.revision = op[p].revision
        BY <1>4, <4>1, EventKeys DEF NewRow
      <4> QED BY <1>2, <1>4, <4>2 DEF PastIsTrue
    <3> QED BY <3>1, <3>2
  <2>2. PICK w \in WatchId : w = row.identity
    BY <1>4
  <2> QED BY <1>1, <1>2, <2>1, <2>2 DEF TrailsGrow
<1>5. ASSUME NEW q \in Process, op'[q] # NoOp,
             op'[q].stage \in {"write", "append"}
      PROVE  /\ op'[q].revision \in 1 .. Len(trail'[op'[q].entity])
             /\ op'[q].old = trail'[op'[q].entity][op'[q].revision]
             /\ op'[q].stage = "append" =>
                  op'[q].revision < Len(trail'[op'[q].entity])
  <2>1. ASSUME NEW w \in WatchId, w = op'[q].entity,
               op'[q].revision \in 1 .. Len(trail[w]),
               op'[q].old = trail[w][op'[q].revision],
               op'[q].stage = "append" =>
                 op'[q].revision < Len(trail'[w])
        PROVE  /\ op'[q].revision \in 1 .. Len(trail'[op'[q].entity])
               /\ op'[q].old = trail'[op'[q].entity][op'[q].revision]
               /\ op'[q].stage = "append" =>
                    op'[q].revision < Len(trail'[op'[q].entity])
    BY <1>1, <1>2, <2>1 DEF TrailsGrow
  <2>2. CASE q # p
    <3>1. op'[q] = op[q] /\ op[q] \in D!Frame
      BY <1>0, <1>5, <2>2
    <3>2. PICK w \in WatchId : w = op[q].entity
      BY <3>1 DEF D!Frame
    <3>3. /\ op[q].revision \in 1 .. Len(trail[w])
          /\ op[q].old = trail[w][op[q].revision]
          /\ op[q].stage = "append" => op[q].revision < Len(trail[w])
      BY <1>5, <3>1, <3>2 DEF PastIsTrue
    <3>4. op[q].stage = "append" => op[q].revision < Len(trail'[w])
      BY <1>1, <1>2, <3>3 DEF TrailsGrow
    <3> QED BY <2>1, <3>1, <3>2, <3>3, <3>4
  <2>3. CASE q = p
    <3>1. /\ op[p] # NoOp /\ op'[p].entity = op[p].entity
          /\ op[p].entity \in WatchId
          /\ \/ /\ op[p].stage \in {"write", "append"}
                /\ op'[p].old = op[p].old
                /\ op'[p].revision = op[p].revision
                /\ op'[p].stage = op[p].stage \/ D!swap(p)
             \/ /\ current[op[p].entity] # NoRow
                /\ op'[p].old = current[op[p].entity].state
                /\ op'[p].revision = current[op[p].entity].revision
                /\ op'[p].stage = "write"
      BY <1>5, <2>3, CarriedStep
    <3>2. PICK w \in WatchId : w = op[p].entity
      BY <3>1
    <3>3. CASE /\ op[p].stage \in {"write", "append"}
               /\ op'[p].old = op[p].old /\ op'[p].revision = op[p].revision
               /\ op'[p].stage = op[p].stage \/ D!swap(p)
      <4>1. /\ op[p].revision \in 1 .. Len(trail[w])
            /\ op[p].old = trail[w][op[p].revision]
            /\ op[p].stage = "append" => op[p].revision < Len(trail[w])
        BY <3>1, <3>2, <3>3 DEF PastIsTrue
      <4>2. CASE op'[p].stage = op[p].stage
        <5>1. op[p].stage = "append" => op[p].revision < Len(trail'[w])
          BY <1>1, <1>2, <4>1 DEF TrailsGrow
        <5> QED BY <2>1, <2>3, <3>1, <3>2, <3>3, <4>1, <4>2, <5>1
      <4>3. CASE D!swap(p)
        <5>1. trail'[w] = Append(trail[w], D!apply(op[p].transition, op[p].old))
          BY <1>0, <3>2, <4>3 DEF D!swap
        <5>2. Len(trail'[w]) = Len(trail[w]) + 1
          BY <1>0, <5>1
        <5>3. op[p].revision < Len(trail'[w])
          BY <1>2, <4>1, <5>2
        <5> QED BY <2>1, <2>3, <3>1, <3>2, <3>3, <4>1, <5>3
      <4> QED BY <3>3, <4>2, <4>3
    <3>4. CASE /\ current[op[p].entity] # NoRow
               /\ op'[p].old = current[op[p].entity].state
               /\ op'[p].revision = current[op[p].entity].revision
               /\ op'[p].stage = "write"
      <4>1. op'[p].revision = Len(trail[w]) /\ op'[p].revision \in 1 .. Len(trail[w])
            /\ op'[p].old = trail[w][op'[p].revision]
        BY <1>2, <3>2, <3>4
      <4> QED BY <2>1, <2>3, <3>1, <3>2, <3>4, <4>1
    <3> QED BY <3>1, <3>3, <3>4
  <2> QED BY <2>2, <2>3
<1> QED
  BY <1>3, <1>4, <1>5 DEF PastIsTrue

----------------------------------------------------------------------------
\* A longer past has the same observations in the same order.
LEMMA OrderKept ==
    ASSUME ScheduleTypes, TrailsGrow, NEW w \in WatchId,
           NEW seq, NEW n \in Int, NEW m \in Int,
           n <= m, n <= Len(trail[w]), FoundInOrder(seq, trail[w], n)
    PROVE  FoundInOrder(seq, trail'[w], m)
<1>1. PICK place \in [1 .. Len(seq) -> 1 .. n] :
        /\ \A i \in 1 .. Len(seq) : trail[w][place[i]].value = seq[i]
        /\ \A j \in 1 .. Len(seq) : \A i \in 1 .. j - 1 : place[i] < place[j]
  BY DEF FoundInOrder
<1>2. Len(trail[w]) \in Nat
  BY DEF ScheduleTypes
<1>3. ASSUME NEW i \in 1 .. Len(seq)
      PROVE  place[i] \in 1 .. m /\ trail'[w][place[i]].value = seq[i]
  <2>1. place[i] \in 1 .. n /\ trail[w][place[i]].value = seq[i]
    BY <1>1, <1>3
  <2>2. place[i] \in 1 .. Len(trail[w]) /\ place[i] \in 1 .. m
    BY <1>2, <2>1
  <2> QED BY <2>1, <2>2 DEF TrailsGrow
<1>4. place \in [1 .. Len(seq) -> 1 .. m]
  BY <1>1, <1>3
<1> QED BY <1>1, <1>3, <1>4 DEF FoundInOrder

LEMMA NothingFound == \A states, n : FoundInOrder(<<>>, states, n)
<1> TAKE states, n
<1>1. <<>> \in [1 .. Len(<<>>) -> 1 .. n] /\ \A i \in 1 .. Len(<<>>) : FALSE
  OBVIOUS
<1> QED BY <1>1 DEF FoundInOrder

\* An assessment whose task stands still, or was just given up.
LEMMA StillInOrder ==
    ASSUME ScheduleTypes, TrailsGrow, NEW q \in Process, ReadingIsInOrder(q),
           task'[q] = task[q], ordered'[q] = ordered[q] \/ ordered'[q] = <<>>
    PROVE  ReadingIsInOrder(q)'
<1> SUFFICES ASSUME task[q] # NoTask PROVE ReadingIsInOrder(q)'
  BY DEF ReadingIsInOrder
<1>1. PICK w \in WatchId : w = task[q].watch
  BY DEF ScheduleTypes, Task
<1>2. /\ Len(trail[w]) \in Nat /\ Len(trail'[w]) \in Nat
      /\ Len(trail[w]) <= Len(trail'[w])
  BY DEF ScheduleTypes, TrailsGrow
<1>3. ASSUME task[q].step = "health_current"
      PROVE  FoundInOrder(ordered'[q], trail'[w], Len(trail'[w]) - 1)
  <2>1. FoundInOrder(ordered[q], trail[w], Len(trail[w]) - 1)
    BY <1>1, <1>3 DEF ReadingIsInOrder
  <2>2. FoundInOrder(ordered[q], trail'[w], Len(trail'[w]) - 1)
    <3>1. /\ Len(trail[w]) - 1 \in Int /\ Len(trail'[w]) - 1 \in Int
          /\ Len(trail[w]) - 1 <= Len(trail'[w]) - 1
          /\ Len(trail[w]) - 1 <= Len(trail[w])
      BY <1>2
    <3> QED BY <2>1, <3>1, OrderKept, Zenon
  <2> QED BY <2>2, NothingFound
<1>4. ASSUME task[q].step = "assess"
      PROVE  FoundInOrder(ordered'[q], trail'[w], Len(trail'[w]))
  <2>1. FoundInOrder(ordered[q], trail[w], Len(trail[w]))
    BY <1>1, <1>4 DEF ReadingIsInOrder
  <2>2. FoundInOrder(ordered[q], trail'[w], Len(trail'[w]))
    <3>1. /\ Len(trail[w]) \in Int /\ Len(trail'[w]) \in Int
          /\ Len(trail[w]) <= Len(trail[w])
      BY <1>2
    <3> QED BY <1>2, <2>1, <3>1, OrderKept, Zenon
  <2> QED BY <2>2, NothingFound
<1> QED BY <1>1, <1>3, <1>4 DEF ReadingIsInOrder

\* The other assessments go on from what they have read.
LEMMA HealthKept ==
    ASSUME ScheduleTypes, HealthInv, NEW p \in Process,
           TrailsGrow, PastIsTrue', ReadingIsInOrder(p)',
           ordered' \in [Process -> Seq(Evidence)],
           \A q \in Process \ {p} :
              task'[q] = task[q] /\ ordered'[q] = ordered[q]
    PROVE  HealthInv'
<1>1. ASSUME NEW q \in Process PROVE ReadingIsInOrder(q)'
  <2>1. CASE q = p
    BY <2>1
  <2>2. CASE q # p
    <3>1. task'[q] = task[q] /\ ordered'[q] = ordered[q] /\ ReadingIsInOrder(q)
      BY <1>1, <2>2 DEF HealthInv
    <3> QED BY <1>1, <3>1, StillInOrder
  <2> QED BY <2>1, <2>2
<1> QED BY <1>1 DEF HealthInv

LEMMA SameTrailsGrow == ASSUME ScheduleTypes, trail' = trail PROVE TrailsGrow
  BY DEF ScheduleTypes, TrailsGrow

\* A step of a run, of a transition or of a failure.
LEMMA PipelineStepHealth ==
    ASSUME InsightInv, HealthInv, NEW p \in Process, ActorStep(p),
           \/ ordered' = ordered
           \/ ordered' = [ordered EXCEPT ![p] = <<>>]
    PROVE  HealthInv'
<1>0. ScheduleTypes /\ TaskHas(p) /\ PastIsTrue /\ ReadingIsInOrder(p)
      /\ ordered \in [Process -> Seq(Evidence)]
  BY DEF InsightInv, TaskIsSound, HealthInv
<1>1. TrailsGrow /\ PastIsTrue'
  BY <1>0, GrowthStep, PastStep
<1>2. /\ \A q \in Process \ {p} : task'[q] = task[q] /\ ordered'[q] = ordered[q]
      /\ ordered'[p] = ordered[p] \/ ordered'[p] = <<>>
  BY <1>0, TaskStep
<1>3. ordered' \in [Process -> Seq(Evidence)]
  <2>1. <<>> \in Seq(Evidence)
    OBVIOUS
  <2> QED BY <1>0, <2>1
<1>4. ReadingIsInOrder(p)'
  <2>1. CASE task'[p] = task[p]
    BY <1>0, <1>1, <1>2, <2>1, StillInOrder
  <2>2. CASE task'[p] # task[p]
    <3>1. task'[p] = NoTask \/ task'[p].step \notin HealthSteps
      BY <1>0, <2>2, OtherTask
    <3> QED BY <3>1 DEF ReadingIsInOrder, HealthSteps
  <2> QED BY <2>1, <2>2
<1> QED BY <1>0, <1>1, <1>2, <1>3, <1>4, HealthKept

\* A step of a detection, or the start of an assessment, is no reading.
LEMMA OtherStepHealth ==
    ASSUME InsightInv, HealthInv, NEW p \in Process,
           \/ DetectStep(p)
           \/ \E w \in WatchId :
                \/ assess_watch_health(p, w)
                \/ \E e \in Evidence : \E f \in Evidence \ {e} :
                     detect_and_record_change(p, w, e, f)
    PROVE  HealthInv'
<1>0. ScheduleTypes /\ PastIsTrue /\ ordered \in [Process -> Seq(Evidence)]
      /\ task \in [Process -> Task \cup {NoTask}]
  BY DEF InsightInv, HealthInv, ScheduleTypes
<1>1. UNCHANGED <<current, op, trail, ordered>>
  BY DEF DetectStep, find_in_current, find_in_history, record_change,
     assess_watch_health, detect_and_record_change, D!append_history,
     domain, auxiliary
<1>2. PastIsTrue'
  <2>1. ASSUME NEW row \in history', row \notin history
        PROVE  row.identity \notin WatchId
    <3>1. record_change(p)
      BY <2>1 DEF DetectStep, find_in_current, find_in_history,
         assess_watch_health, detect_and_record_change, domain
    <3>2. /\ task[p] # NoTask /\ task[p].step = "compare"
          /\ row.identity =
               change_key(task[p].watch, task[p].previous, task[p].evidence)
      BY <2>1, <3>1 DEF record_change, AtStep, D!append_history
    <3>3. /\ task[p].watch \in WatchId
          /\ task[p].previous \in Evidence /\ task[p].evidence \in Evidence
      BY <1>0, <3>2 DEF InsightInv, DetectionIsGrounded, Task, FindSteps
    <3> QED BY <3>2, <3>3, EventKeys
  <2> QED BY <1>0, <1>1, <2>1 DEF PastIsTrue, D!CurrentIsNewest
<1>3. /\ \A q \in Process \ {p} : task'[q] = task[q]
      /\ \/ task'[p] = NoTask
         \/ task'[p].step \notin {"health_current", "assess"}
  <2>1. ASSUME NEW s \in FindSteps, task[p] # NoTask, End(p) \/ Goto(p, s)
        PROVE  /\ \A q \in Process \ {p} : task'[q] = task[q]
               /\ \/ task'[p] = NoTask
                  \/ task'[p].step \notin {"health_current", "assess"}
    <3>1. s \in Step /\ s \notin {"health_current", "assess"}
      BY <2>1 DEF FindSteps, Step
    <3> QED BY <1>0, <2>1, <3>1, TaskMoves
  <2>2. CASE DetectStep(p)
    <3>1. task[p] # NoTask /\ \E s \in FindSteps : End(p) \/ Goto(p, s)
      BY <2>2 DEF DetectStep, find_in_current, find_in_history, record_change,
         AtStep, FindSteps
    <3> QED BY <2>1, <3>1
  <2>3. ASSUME NEW w \in WatchId, assess_watch_health(p, w)
        PROVE  /\ \A q \in Process \ {p} : task'[q] = task[q]
               /\ task'[p].step = "health_history"
    BY <1>0, <2>3, TaskMoves DEF assess_watch_health, Step
  <2>4. ASSUME NEW w \in WatchId, NEW e \in Evidence, NEW f \in Evidence,
               detect_and_record_change(p, w, e, f)
        PROVE  /\ \A q \in Process \ {p} : task'[q] = task[q]
               /\ task'[p].step = "previous_in_current"
    BY <1>0, <2>4, InsightMoves DEF detect_and_record_change
  <2> QED BY <2>2, <2>3, <2>4
<1>4. ReadingIsInOrder(p)'
  BY <1>3 DEF ReadingIsInOrder
<1> QED BY <1>0, <1>1, <1>2, <1>3, <1>4, SameTrailsGrow, HealthKept

\* The two reads of an assessment, and its end.
LEMMA HealthStepHealth ==
    ASSUME InsightInv, HealthInv, NEW p \in Process, HealthStep(p)
    PROVE  HealthInv'
<1>0. /\ ScheduleTypes /\ PastIsTrue /\ ReadingIsInOrder(p)
      /\ ordered \in [Process -> Seq(Evidence)]
      /\ task \in [Process -> Task \cup {NoTask}]
  BY DEF InsightInv, HealthInv, ScheduleTypes
<1>1. UNCHANGED <<current, history, op, trail>>
  BY DEF HealthStep, read_superseded, read_latest, return_report, domain
<1>2. PastIsTrue'
  BY <1>0, <1>1 DEF PastIsTrue, D!CurrentIsNewest
<1>3. task[p] # NoTask
  BY DEF HealthStep, read_superseded, read_latest, return_report, AtStep
<1>4. PICK w \in WatchId : w = task[p].watch
  BY <1>0, <1>3 DEF Task
<1>5. ASSUME NEW seq \in Seq(Evidence), ordered' = [ordered EXCEPT ![p] = seq],
             \/ End(p)
             \/ /\ Goto(p, "health_current")
                /\ FoundInOrder(seq, trail[w], Len(trail[w]) - 1)
             \/ /\ Goto(p, "assess")
                /\ FoundInOrder(seq, trail[w], Len(trail[w]))
      PROVE  HealthInv'
  <2>1. /\ \A q \in Process \ {p} : task'[q] = task[q] /\ ordered'[q] = ordered[q]
        /\ ordered' \in [Process -> Seq(Evidence)] /\ ordered'[p] = seq
    BY <1>0, <1>3, <1>5, TaskMoves DEF Step
  <2>2. \/ task'[p] = NoTask
        \/ /\ task'[p].step = "health_current" /\ task'[p].watch = w
           /\ FoundInOrder(seq, trail[w], Len(trail[w]) - 1)
        \/ /\ task'[p].step = "assess" /\ task'[p].watch = w
           /\ FoundInOrder(seq, trail[w], Len(trail[w]))
    BY <1>0, <1>3, <1>4, <1>5, TaskMoves DEF Step
  <2>3. ReadingIsInOrder(p)'
    BY <1>1, <2>1, <2>2 DEF ReadingIsInOrder
  <2> QED BY <1>0, <1>1, <1>2, <2>1, <2>3, SameTrailsGrow, HealthKept
<1>6. CASE read_superseded(p)
  <2>1. PICK seq : seq = Observations(superseded_states(w))
    OBVIOUS
  <2>2. seq \in Seq(Evidence) /\ FoundInOrder(seq, trail[w], Len(trail[w]) - 1)
    BY <1>0, <2>1, SupersededInOrder
  <2>3. ordered' = [ordered EXCEPT ![p] = seq] /\ Goto(p, "health_current")
    BY <1>4, <1>6, <2>1 DEF read_superseded
  <2> QED BY <1>5, <2>2, <2>3
<1>7. CASE read_latest(p)
  <2>1. PICK seq : seq = ordered[p] \o Observations(current_state(w))
    OBVIOUS
  <2>2. /\ ordered[p] \in Seq(Evidence)
        /\ FoundInOrder(ordered[p], trail[w], Len(trail[w]) - 1)
    BY <1>0, <1>4, <1>7 DEF read_latest, AtStep, ReadingIsInOrder
  <2>3. seq \in Seq(Evidence) /\ FoundInOrder(seq, trail[w], Len(trail[w]))
    BY <1>0, <2>1, <2>2, LatestInOrder
  <2>4. ordered' = [ordered EXCEPT ![p] = seq] /\ Goto(p, "assess")
    BY <1>4, <1>7, <2>1 DEF read_latest
  <2> QED BY <1>5, <2>3, <2>4
<1>8. CASE return_report(p)
  <2>1. <<>> \in Seq(Evidence)
    OBVIOUS
  <2> QED BY <1>5, <1>8, <2>1 DEF return_report
<1> QED BY <1>6, <1>7, <1>8 DEF HealthStep

LEMMA HealthInitInv == InsightInit => HealthInv
<1> SUFFICES ASSUME InsightInit PROVE HealthInv
  OBVIOUS
<1> DEFINE first == [revision |-> 1, state |-> Active(Nothing)]
<1>1. /\ current = [key \in Key |-> IF key \in WatchId THEN first ELSE NoRow]
      /\ op = [p \in Process |-> NoOp]
      /\ trail = [w \in WatchId |-> <<Active(Nothing)>>]
      /\ task = [p \in Process |-> NoTask]
      /\ ordered = [p \in Process |-> <<>>]
  BY DEF InsightInit
<1>2. first # NoRow /\ first.revision = 1 /\ first.state = Active(Nothing)
  BY Payloads, MissingRowAssumption
<1> HIDE DEF first
<1>3. ordered \in [Process -> Seq(Evidence)]
  <2>1. <<>> \in Seq(Evidence)
    OBVIOUS
  <2> QED BY <1>1, <2>1
<1>4. D!CurrentIsNewest
  <2>1. ASSUME NEW w \in WatchId
        PROVE  /\ current[w] = first /\ trail[w] = <<Active(Nothing)>>
    BY <1>1, <2>1, RunKeys
  <2>2. ASSUME NEW w \in WatchId
        PROVE  /\ current[w] # NoRow
               /\ current[w].revision = Len(trail[w])
               /\ current[w].state = trail[w][Len(trail[w])]
    <3>1. Len(trail[w]) = 1 /\ trail[w][1] = Active(Nothing)
      BY <2>1, <2>2
    <3> QED BY <1>2, <2>1, <2>2, <3>1
  <2> QED BY <2>2 DEF D!CurrentIsNewest
<1>5. \A row \in history : row.identity \notin WatchId
  <2>1. \A row \in history : \E w \in WatchId :
          row.identity \in {definition_key(w), schedule_key(w)}
    BY DEF InsightInit
  <2> QED BY <2>1, EventKeys
<1>6. PastIsTrue /\ \A p \in Process : ReadingIsInOrder(p)
  BY <1>1, <1>4, <1>5 DEF PastIsTrue, ReadingIsInOrder
<1> QED BY <1>3, <1>6 DEF HealthInv

\* Every step keeps the invariant of the assessments.
LEMMA HealthStepInv ==
    InsightInv /\ HealthInv /\ [InsightNext]_insightVars => HealthInv'
<1> SUFFICES ASSUME InsightInv, HealthInv, [InsightNext]_insightVars
             PROVE  HealthInv'
  OBVIOUS
<1>1. CASE UNCHANGED insightVars
  <2>1. UNCHANGED <<current, history, op, trail, task, ordered>>
    BY <1>1 DEF insightVars
  <2>2. PastIsTrue'
    BY <2>1 DEF HealthInv, PastIsTrue, D!CurrentIsNewest
  <2>3. \A p \in Process : ReadingIsInOrder(p)'
    BY <2>1 DEF HealthInv, ReadingIsInOrder
  <2> QED BY <2>1, <2>2, <2>3 DEF HealthInv
<1>2. ASSUME NEW p \in Process,
             \/ Progress(p) /\ UNCHANGED ordered
             \/ DetectStep(p) \/ HealthStep(p)
             \/ /\ Failure(p) /\ ordered' = [ordered EXCEPT ![p] = <<>>]
                /\ UNCHANGED auxiliary
             \/ \E w \in WatchId :
                  \/ /\ apply_watch_transition(p, w, StopWatch)
                     /\ UNCHANGED <<auxiliary, ordered>>
                  \/ \E tick \in Tick : execute_scheduled_watch_run(p, w, tick)
                                        /\ UNCHANGED ordered
                  \/ \E e \in Evidence : \E f \in Evidence \ {e} :
                       detect_and_record_change(p, w, e, f)
                  \/ assess_watch_health(p, w)
      PROVE  HealthInv'
  <2>1. \/ /\ ActorStep(p)
           /\ ordered' = ordered \/ ordered' = [ordered EXCEPT ![p] = <<>>]
        \/ HealthStep(p)
        \/ DetectStep(p)
        \/ \E w \in WatchId :
             \/ assess_watch_health(p, w)
             \/ \E e \in Evidence : \E f \in Evidence \ {e} :
                  detect_and_record_change(p, w, e, f)
    BY <1>2 DEF ActorStep, auxiliary
  <2> QED
    BY <2>1, PipelineStepHealth, OtherStepHealth, HealthStepHealth
<1> QED BY <1>1, <1>2 DEF InsightNext

\* The inductive invariant of the assessments.
THEOREM HealthInvariant == InsightSpec => []HealthInv
  BY HealthInitInv, HealthStepInv, InsightInvariant, PTL DEF InsightSpec

\* assess_watch_health sees the observations of a watch in the order in which
\* they were made, whatever the watch did between its two reads and in
\* whatever order the superseded states were appended.
THEOREM HealthOrder == InsightSpec => []HealthOrderIsTruthful
<1>1. ASSUME InsightInv, HealthInv PROVE HealthOrderIsTruthful
  <2> SUFFICES ASSUME NEW p \in Process, AtStep(p, "assess"),
                      NEW i \in 1 .. Len(ordered[p]),
                      NEW j \in 1 .. Len(ordered[p]), i < j
               PROVE  \E r, s \in 1 .. Len(trail[task[p].watch]) :
                        /\ r < s
                        /\ last_evidence(trail[task[p].watch][r]) = ordered[p][i]
                        /\ last_evidence(trail[task[p].watch][s]) = ordered[p][j]
    BY DEF HealthOrderIsTruthful
  <2>1. /\ task[p] # NoTask /\ task[p].watch \in WatchId
        /\ FoundInOrder(ordered[p], trail[task[p].watch],
                        Len(trail[task[p].watch]))
    BY <1>1 DEF HealthInv, ReadingIsInOrder, AtStep, InsightInv,
       ScheduleTypes, Task
  <2>2. PICK w \in WatchId : w = task[p].watch
    BY <2>1
  <2>3. PICK place \in [1 .. Len(ordered[p]) -> 1 .. Len(trail[w])] :
          /\ \A k \in 1 .. Len(ordered[p]) :
               trail[w][place[k]].value = ordered[p][k]
          /\ \A l \in 1 .. Len(ordered[p]) : \A k \in 1 .. l - 1 :
               place[k] < place[l]
    BY <2>1, <2>2 DEF FoundInOrder
  <2>4. ordered[p] \in Seq(Evidence)
    BY <1>1 DEF HealthInv
  <2>5. i \in 1 .. j - 1
    BY <2>4
  <2>6. /\ place[i] \in 1 .. Len(trail[w]) /\ place[j] \in 1 .. Len(trail[w])
        /\ place[i] < place[j]
        /\ trail[w][place[i]].value = ordered[p][i]
        /\ trail[w][place[j]].value = ordered[p][j]
    BY <2>3, <2>5
  <2> QED BY <2>2, <2>6 DEF last_evidence
<1> QED
  BY <1>1, InsightInvariant, HealthInvariant, PTL

============================================================================
