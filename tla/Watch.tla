------------------------------- MODULE Watch -------------------------------
(***************************************************************************)
(* A durable watch (spider/src/features/watch.rs): its immutable           *)
(* definition, its lifecycle Active / Stopped, and the calls that define,  *)
(* update and stop it.  The lifecycle runs on the protocol of DomainState. *)
(*                                                                         *)
(* The module also fixes the key space and the payloads of everything the  *)
(* watch pipeline stores: definitions, schedules, scheduled runs, evidence *)
(* and change events live in the two tables of one store, under keys that  *)
(* never collide.                                                          *)
(***************************************************************************)
EXTENDS Integers, Sequences

CONSTANTS
    WatchId, Process,
    Evidence,       \* evidence identities that can be minted
    Tick,           \* the instants a schedule fires, in units of 1/PerSecond
                    \* seconds since the epoch, negative before it
    PerSecond,
    Hash,           \* content hashes a fetched page can have
    Nothing,        \* the code's None
    NoRow, NoOp, Rejected,
    NoTask,         \* the process is not in a call of the watch API
    MaxRevision     \* bound on the revision of a watch

----------------------------------------------------------------------------
(***************************************************************************)
(* Keys and payloads.  An evidence bundle is abstracted to what change     *)
(* detection compares: a body hash, or only a hash of the transformed      *)
(* text, or none.                                                          *)
(***************************************************************************)
definition_key(w) == <<"definition", w>>
schedule_key(w) == <<"schedule", w>>

\* Plausible bug: an instant before the epoch gets a key of its own.
run_key_floors(w, tick) == <<"run", w, tick \div PerSecond>>

\* Whole seconds since the epoch; an instant before it counts as 0.
unix_seconds(tick) == IF tick < 0 THEN 0 ELSE tick \div PerSecond

run_key(w, tick) == <<"run", w, unix_seconds(tick)>>
change_key(w, previous, cur) == <<"change", w, previous, cur>>

\* The keys that are derived from identities.
DerivedKey ==
    {definition_key(w) : w \in WatchId}
    \cup {schedule_key(w) : w \in WatchId}
    \cup {run_key(w, t) : w \in WatchId, t \in Tick}
    \cup {change_key(w, e, f) : w \in WatchId, e \in Evidence, f \in Evidence}

Key == WatchId \cup Evidence \cup DerivedKey

Payload(kind, value) == [kind |-> kind, value |-> value]

Active(evidence) == Payload("Active", evidence)
Stopped(evidence) == Payload("Stopped", evidence)

WatchState == {Active(e) : e \in Evidence \cup {Nothing}}
              \cup {Stopped(e) : e \in Evidence \cup {Nothing}}

Definition == Payload("Definition", Nothing)
Schedule == Payload("Schedule", Nothing)
Claimed == Payload("Claimed", Nothing)
Completed(evidence) == Payload("Completed", evidence)

RunRecord == {Claimed} \cup {Completed(e) : e \in Evidence}

Bundle == {Payload("Body", h) : h \in Hash}
          \cup {Payload("Transformed", h) : h \in Hash}
          \cup {Payload("NoHash", Nothing)}

ChangeResult == {Payload(k, Nothing) : k \in {"Unchanged", "Changed",
                                              "Uncomparable"}}

StoredPayload == WatchState \cup RunRecord \cup Bundle \cup ChangeResult
                 \cup {Definition, Schedule}

\* Identities of watches and of evidence are told apart, and no identity is a
\* derived key; None is no evidence, and a missing row is no row.
ASSUME KeyAssumption ==
    /\ WatchId \cap Evidence = {}
    /\ DerivedKey \cap (WatchId \cup Evidence) = {}
ASSUME NothingAssumption == Nothing \notin Evidence
ASSUME MissingRowAssumption ==
    NoRow \notin [revision : Nat, state : StoredPayload]

last_evidence(state) == state.value

----------------------------------------------------------------------------
(***************************************************************************)
(* The two transitions.                                                    *)
(***************************************************************************)
ObserveEvidence(evidence) == Payload("ObserveEvidence", evidence)
StopWatch == Payload("StopWatch", Nothing)

WatchTransition == {ObserveEvidence(e) : e \in Evidence} \cup {StopWatch}

WatchApply ==
    [t \in WatchTransition |-> [s \in WatchState |->
        CASE s.kind = "Stopped" -> Rejected
          [] s.kind = "Active" /\ t = StopWatch -> Stopped(last_evidence(s))
          [] s.kind = "Active" /\ t # StopWatch -> Active(t.value)]]

----------------------------------------------------------------------------
VARIABLES
    current, history,     \* the shared store
    op, trail, lost,      \* apply_watch_transition calls in progress
    task                  \* each process's call of the watch API

D == INSTANCE DomainState WITH
        Identity <- Key, State <- StoredPayload, Entity <- WatchId,
        EntityState <- WatchState, Transition <- WatchTransition,
        Initial <- Active(Nothing), Apply <- WatchApply

domain == <<current, history, op, trail, lost>>

watchVars == <<current, history, op, trail, lost, task>>

\* Where a call of the pipeline can be: defining, stopping, a scheduled run,
\* change detection, health.
Step ==
    {"define", "initialize", "apply"}
    \cup {"read_schedule", "read_definition", "claim", "replay", "fetch",
          "record", "observe", "observing", "complete"}
    \cup {"previous_in_current", "previous_in_history", "current_in_current",
          "current_in_history", "compare"}
    \cup {"health_history", "health_current", "assess"}

Task == [step : Step, watch : WatchId, tick : Tick \cup {Nothing},
         evidence : Evidence \cup {Nothing},
         previous : Evidence \cup {Nothing}]

ASSUME NoTaskAssumption == NoTask \notin Task

Idle(p) == task[p] = NoTask

AtStep(p, step) == task[p] # NoTask /\ task[p].step = step

Start(p, step, w, tick, evidence, previous) ==
    /\ Idle(p)
    /\ task' = [task EXCEPT ![p] =
         [step |-> step, watch |-> w, tick |-> tick, evidence |-> evidence,
          previous |-> previous]]

Goto(p, step) == task' = [task EXCEPT ![p] = [@ EXCEPT !.step = step]]

End(p) == task' = [task EXCEPT ![p] = NoTask]

WatchInit ==
    /\ D!DomainInit
    /\ task = [p \in Process |-> NoTask]

----------------------------------------------------------------------------
(***************************************************************************)
(* define_watch: the definition first, then the initial state, in two      *)
(* calls.  The identity is freshly minted, so no other call writes it.     *)
(***************************************************************************)
define_watch(p, w) ==
    /\ ~D!history_exists(definition_key(w), 1)
    /\ \A q \in Process : ~(AtStep(q, "define") /\ task[q].watch = w)
    /\ Start(p, "define", w, Nothing, Nothing, Nothing)
    /\ UNCHANGED domain

record_definition(p) ==
    /\ AtStep(p, "define")
    /\ D!append_history(definition_key(task[p].watch), 1, Definition)
    /\ Goto(p, "initialize")
    /\ UNCHANGED <<op, trail, lost>>

initialize_state(p) ==
    /\ AtStep(p, "initialize")
    /\ D!create(task[p].watch)
    /\ End(p)

(***************************************************************************)
(* apply_watch_transition as called directly: the steps are DomainState's; *)
(* the call returns when they are over, whatever the outcome.              *)
(***************************************************************************)
apply_watch_transition(p, w, t) ==
    /\ Start(p, "apply", w, Nothing, Nothing, Nothing)
    /\ D!begin(p, w, t)

transition_step(p) == D!CallStep(p) /\ UNCHANGED task

transition_error(p) == D!store_error(p) /\ UNCHANGED task

return_to_caller(p) ==
    /\ AtStep(p, "apply")
    /\ D!return(p)
    /\ End(p)

\* A Backend error outside apply_watch_transition: the call ends with it.
task_error(p) ==
    /\ ~Idle(p) /\ op[p] = NoOp
    /\ End(p)
    /\ UNCHANGED domain

\* The process dies; its calls are gone, what is stored stays.
crash(p) ==
    /\ ~Idle(p)
    /\ \/ D!abandon(p)
       \/ op[p] = NoOp /\ UNCHANGED domain
    /\ End(p)

WatchStep(p) ==
    \/ record_definition(p) \/ initialize_state(p)
    \/ transition_step(p) \/ return_to_caller(p)

WatchNext ==
    \E p \in Process :
        \/ \E w \in WatchId :
             \/ define_watch(p, w)
             \/ \E t \in WatchTransition : apply_watch_transition(p, w, t)
        \/ WatchStep(p) \/ transition_error(p) \/ task_error(p) \/ crash(p)

WatchSpec == WatchInit /\ [][WatchNext]_watchVars

----------------------------------------------------------------------------
\* Type correctness; a transition in progress belongs to a task.
WatchTypeOK ==
    /\ D!DomainTypeOK
    /\ task \in [Process -> Task \cup {NoTask}]
    /\ \A p \in Process : op[p] # NoOp => task[p] # NoTask

\* What the documentation says of the history: every superseded state of a
\* watch is in it once the calls that superseded them are over.
EverySupersededStateIsPreserved ==
    (\A p \in Process : Idle(p)) =>
        \A w \in WatchId : \A r \in 1 .. D!ActualRevision(w) - 1 :
            D!history_exists(w, r)

============================================================================
