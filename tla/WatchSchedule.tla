--------------------------- MODULE WatchSchedule ---------------------------
(***************************************************************************)
(* Scheduled execution of a watch (spider/src/features/watch_schedule.rs). *)
(* execute_scheduled_watch_run claims the run of one tick with a           *)
(* compare-and-swap, fetches the target, records the evidence, observes it *)
(* on the watch and completes the run record.  Several processes may       *)
(* execute the same tick, other ticks, or stop the watch at the same time; *)
(* each store call can fail and each process can die between any two.      *)
(***************************************************************************)
EXTENDS Watch

VARIABLES
    fetches,     \* auxiliary: acquisitions for each watch and second
    answers      \* auxiliary: <<watch, second, evidence>> returned to callers

Run == WatchId \X {unix_seconds(t) : t \in Tick}

scheduleVars == <<current, history, op, trail, lost, task, fetches, answers>>

auxiliary == <<fetches, answers>>

ScheduleInit ==
    /\ WatchInit
    /\ fetches = [run \in Run |-> 0]
    /\ answers = {}

RunKey(p) == run_key(task[p].watch, task[p].tick)

TaskRun(p) == <<task[p].watch, unix_seconds(task[p].tick)>>

Answer(p, evidence) ==
    answers' = answers \cup {<<task[p].watch, unix_seconds(task[p].tick), evidence>>}

----------------------------------------------------------------------------
\* One append; a second definition fails with HistoryAlreadyExists and an
\* invalid cadence is refused before the store is touched.
define_watch_schedule(p, w) ==
    /\ Idle(p)
    /\ D!append_history(schedule_key(w), 1, Schedule)
    /\ UNCHANGED <<op, trail, lost, task, auxiliary>>

(***************************************************************************)
(* execute_scheduled_watch_run, one action per store call or fetch.        *)
(***************************************************************************)
execute_scheduled_watch_run(p, w, tick) ==
    /\ Start(p, "read_schedule", w, tick, Nothing, Nothing)
    /\ UNCHANGED <<domain, auxiliary>>

read_watch_schedule(p) ==
    /\ AtStep(p, "read_schedule")
    /\ IF D!history_exists(schedule_key(task[p].watch), 1)
         THEN Goto(p, "read_definition")
         ELSE End(p)
    /\ UNCHANGED <<domain, auxiliary>>

read_watch_definition(p) ==
    /\ AtStep(p, "read_definition")
    /\ IF D!history_exists(definition_key(task[p].watch), 1)
         THEN Goto(p, "claim")
         ELSE End(p)
    /\ UNCHANGED <<domain, auxiliary>>

\* The claim: the first write of the run's record.
claim_run(p) ==
    /\ AtStep(p, "claim")
    /\ D!write_current(RunKey(p), 0, Claimed)
    /\ Goto(p, "fetch")
    /\ UNCHANGED <<op, trail, lost, auxiliary>>

lose_claim(p) ==
    /\ AtStep(p, "claim")
    /\ D!write_conflicts(RunKey(p), 0)
    /\ Goto(p, "replay")
    /\ UNCHANGED <<domain, auxiliary>>

\* Plausible bug: the loser answers with what the watch observed last.
replay_last_evidence(p) ==
    /\ AtStep(p, "replay")
    /\ LET record == D!read_current(RunKey(p)).state
       IN  IF record = Claimed
             THEN UNCHANGED answers
             ELSE Answer(p, last_evidence(current[task[p].watch].state))
    /\ End(p)
    /\ UNCHANGED <<domain, fetches>>

\* The loser reads the record: a completed run is replayed, a claimed one is
\* RunAlreadyInProgress.
replay_run(p) ==
    /\ AtStep(p, "replay")
    /\ LET record == D!read_current(RunKey(p)).state
       IN  IF record = Claimed
             THEN UNCHANGED answers
             ELSE Answer(p, record.value)
    /\ End(p)
    /\ UNCHANGED <<domain, fetches>>

\* Plausible bugs: a failed fetch is tried again; the evidence is observed
\* before it is recorded.
fetch_retries(p) ==
    /\ AtStep(p, "fetch")
    /\ fetches' = [fetches EXCEPT ![TaskRun(p)] = @ + 1]
    /\ UNCHANGED <<domain, answers, task>>

fetch_unrecorded(p) ==
    /\ AtStep(p, "fetch")
    /\ fetches' = [fetches EXCEPT ![TaskRun(p)] = @ + 1]
    /\ \E e \in Evidence :
         /\ ~D!history_exists(e, 1)
         /\ task' = [task EXCEPT ![p] =
              [@ EXCEPT !.step = "observe", !.evidence = e]]
    /\ UNCHANGED <<domain, answers>>

\* Binding and fetching fail, or produce a page whose evidence gets a fresh
\* identity.
fetch_page(p) ==
    /\ AtStep(p, "fetch")
    /\ fetches' = [fetches EXCEPT ![TaskRun(p)] = @ + 1]
    /\ \/ End(p)
       \/ \E e \in Evidence :
            /\ ~D!history_exists(e, 1)
            /\ \A q \in Process : ~(AtStep(q, "record") /\ task[q].evidence = e)
            /\ task' = [task EXCEPT ![p] =
                 [@ EXCEPT !.step = "record", !.evidence = e]]
    /\ UNCHANGED <<domain, answers>>

record_evidence(p) ==
    /\ AtStep(p, "record")
    /\ \E bundle \in Bundle : D!append_history(task[p].evidence, 1, bundle)
    /\ Goto(p, "observe")
    /\ UNCHANGED <<op, trail, lost, auxiliary>>

observe_evidence(p) ==
    /\ AtStep(p, "observe")
    /\ D!begin(p, task[p].watch, ObserveEvidence(task[p].evidence))
    /\ Goto(p, "observing")
    /\ UNCHANGED auxiliary

\* Plausible bugs: the outcome of the transition is ignored; a failed run
\* gives its claim back.
observed_ignoring_errors(p) ==
    /\ AtStep(p, "observing")
    /\ D!return(p)
    /\ Goto(p, "complete")
    /\ UNCHANGED auxiliary

observed_or_unclaimed(p) ==
    /\ AtStep(p, "observing")
    /\ op[p] # NoOp /\ op[p].stage \in {"rejected", "conflict", "failed"}
    /\ op' = [op EXCEPT ![p] = NoOp]
    /\ current' = [current EXCEPT ![RunKey(p)] = NoRow]
    /\ End(p)
    /\ UNCHANGED <<history, trail, lost, auxiliary>>

\* The transition is over; any error of it ends the run as it stands.
observed(p) ==
    /\ AtStep(p, "observing")
    /\ D!return(p)
    /\ IF op[p].stage = "ok" THEN Goto(p, "complete") ELSE End(p)
    /\ UNCHANGED auxiliary

\* write_current against the claim's revision, which is always 1.
complete_run(p) ==
    /\ AtStep(p, "complete")
    /\ D!write_current(RunKey(p), 1, Completed(task[p].evidence))
    /\ Answer(p, task[p].evidence)
    /\ End(p)
    /\ UNCHANGED <<op, trail, lost, fetches>>

RunStep(p) ==
    \/ read_watch_schedule(p) \/ read_watch_definition(p)
    \/ claim_run(p) \/ lose_claim(p) \/ replay_run(p)
    \/ fetch_page(p) \/ record_evidence(p)
    \/ observe_evidence(p) \/ observed(p) \/ complete_run(p)

\* Whatever a process is in the middle of.
Progress(p) == RunStep(p) \/ (WatchStep(p) /\ UNCHANGED auxiliary)

Failure(p) == transition_error(p) \/ task_error(p) \/ crash(p)

ScheduleNext ==
    \E p \in Process :
        \/ Progress(p)
        \/ Failure(p) /\ UNCHANGED auxiliary
        \/ \E w \in WatchId :
             \/ define_watch(p, w) /\ UNCHANGED auxiliary
             \/ apply_watch_transition(p, w, StopWatch) /\ UNCHANGED auxiliary
             \/ define_watch_schedule(p, w)
             \/ \E tick \in Tick : execute_scheduled_watch_run(p, w, tick)

ScheduleSpec == ScheduleInit /\ [][ScheduleNext]_scheduleVars

----------------------------------------------------------------------------
RunSteps == {"read_schedule", "read_definition", "claim", "replay", "fetch",
             "record", "observe", "observing", "complete"}

OwnerSteps == {"fetch", "record", "observe", "observing", "complete"}

\* Type correctness; a transition in progress is the one its task awaits.
ScheduleTypeOK ==
    /\ WatchTypeOK
    /\ \A p \in Process : task[p] # NoTask =>
         /\ task[p].step \in RunSteps \cup {"define", "initialize", "apply"}
         /\ op[p] # NoOp => task[p].step \in {"apply", "observing"}
    /\ fetches \in [Run -> Nat]
    /\ answers \subseteq WatchId \X Int \X Evidence

\* The stored record of a run, or NoRow.
RunRow(run) == current[<<"run", run[1], run[2]>>]

\* The process holds the claim of the run and is still working on it.
Owns(p, run) ==
    /\ task[p] # NoTask /\ task[p].step \in OwnerSteps
    /\ TaskRun(p) = run

\* The idempotency contract: however often a tick is retried, replayed or
\* raced, its target is fetched at most once.
FetchedAtMostOnce == \A run \in Run : fetches[run] <= 1

\* Nobody works on a run it has not claimed, and the claim has one owner: the
\* completing write_current can therefore never conflict.
ClaimIsExclusive ==
    \A run \in Run : \A p \in Process : Owns(p, run) =>
        /\ RunRow(run) # NoRow /\ RunRow(run).revision = 1
        /\ RunRow(run).state = Claimed
        /\ \A q \in Process : Owns(q, run) => p = q

\* A completed run names evidence that is in the ledger and that the watch
\* really observed: no crash point leaves a completed record ahead of the
\* work it stands for.
CompletedRunIsBacked ==
    \A run \in Run :
        RunRow(run) # NoRow /\ RunRow(run).state # Claimed =>
            LET e == RunRow(run).state.value
            IN  /\ D!history_exists(e, 1)
                /\ \E r \in 1 .. Len(trail[run[1]]) : trail[run[1]][r] = Active(e)

\* All callers of one tick, whether they executed it or replayed it, are
\* given the same evidence.
AnswersAgree ==
    \A a, b \in answers : a[1] = b[1] /\ a[2] = b[2] => a[3] = b[3]

\* An observation on a watch is always resolvable, and no evidence is
\* observed twice.
ObservedEvidenceIsRecorded ==
    \A w \in WatchId : \A r \in 1 .. Len(trail[w]) :
        LET e == last_evidence(trail[w][r])
        IN  /\ e # Nothing => D!history_exists(e, 1)
            /\ \A s \in 1 .. Len(trail[w]) :
                 e # Nothing /\ trail[w][r] = Active(e)
                             /\ trail[w][s] = Active(e) => r = s

\* A run record is final once completed, and once its owner is gone nobody
\* ever completes or re-claims a claimed one (fail closed).
AbandonedRunStaysClaimed ==
    [][\A run \in Run :
          RunRow(run) # NoRow /\ RunRow(run)' # RunRow(run) =>
              \E p \in Process : Owns(p, run) /\ task[p].step = "complete"]_scheduleVars

============================================================================
