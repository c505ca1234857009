------------------------------ MODULE IamTrace ------------------------------
(***************************************************************************)
(* The IAM callback inspector (scorpion_app/src/iam.rs on the lifecycle of *)
(* spider/src/features/iam_trace.rs).  A trace is created awaiting its     *)
(* callback; each delivered callback appends its observation first, at a   *)
(* revision found by counting the history, and then tries to mark the      *)
(* trace received, ignoring every failure of that second half.  Reading a  *)
(* trace back repairs a trace that has observations but is not marked.     *)
(*                                                                         *)
(* Callbacks and readers run concurrently, in any number of processes, on  *)
(* the store of DomainPersistence.                                         *)
(***************************************************************************)
EXTENDS DomainPersistence, FiniteSets

CONSTANTS
    Callback,      \* delivered callbacks; each is one request
    Reader,        \* readers of traces, who may read again and again
    NoTrace,       \* the request is not about a trace (yet)
    MaxRetries,    \* IAM_MAX_REVISION_RETRIES (5 in the code)
    MaxFailures    \* bound on store errors and dying requests

AwaitingCallback == "AwaitingCallback"
Received == "Received"
IamTraceState == {AwaitingCallback, Received}

ASSUME PayloadAssumption == State = IamTraceState \cup Callback
ASSUME RequestAssumption == Callback \cap (Reader \cup IamTraceState) = {}
ASSUME RetriesAssumption == MaxRetries \in Nat \ {0}

Request == Callback \cup Reader

VARIABLES
    step,        \* where each request stands
    trace,       \* the trace it is about
    revision,    \* the revision it computed or read last
    tries,       \* append attempts so far
    view,        \* what a reader has read: state, observations, failed repair
    failures     \* failures so far

iamVars == <<current, history, step, trace, revision, tries, view, failures>>

EmptyView == [state |-> AwaitingCallback, observations |-> {}, failed |-> FALSE]

IamInit ==
    /\ StoreInit
    /\ step = [q \in Request |-> "idle"]
    /\ trace = [q \in Request |-> NoTrace]
    /\ revision = [q \in Request |-> 0]
    /\ tries = [q \in Request |-> 0]
    /\ view = [q \in Reader |-> EmptyView]
    /\ failures = 0

Goto(q, label) == step' = [step EXCEPT ![q] = label]

Observations(t) == {row.state : row \in read_history(t)}

\* Where a request goes on when try_mark_received is over.
AfterMark(q) == IF q \in Callback THEN "acknowledged" ELSE "refresh"

----------------------------------------------------------------------------
\* create_trace: the first write of a freshly minted identity.
create_trace(t) ==
    /\ write_current(t, 0, AwaitingCallback)
    /\ UNCHANGED <<step, trace, revision, tries, view, failures>>

(***************************************************************************)
(* receive_callback.  The trace must exist and the request must parse;     *)
(* parsing touches no state, so its outcome is a choice.                   *)
(***************************************************************************)
\* Query, form or JSON parsing with classification and token decoding: the
\* request is accepted and goes on to its append, or it is refused.
parse_facts == {"count", "refused"}

receive_callback(c, t) ==
    /\ c \in Callback /\ step[c] = "idle"
    /\ IF read_current(t) = NoRow
         THEN Goto(c, "refused")
         ELSE \E next \in parse_facts : Goto(c, next)
    /\ trace' = [trace EXCEPT ![c] = t]
    /\ tries' = [tries EXCEPT ![c] = 1]
    /\ UNCHANGED <<store, revision, view, failures>>

\* Plausible bug: the revision is taken from the current state's row.
count_from_row(c) ==
    /\ step[c] = "count"
    /\ revision' = [revision EXCEPT ![c] = ActualRevision(trace[c]) + 1]
    /\ Goto(c, "append")
    /\ UNCHANGED <<store, trace, tries, view, failures>>

\* append_observation: next_revision is one more than the rows there are.
count_history(c) ==
    /\ step[c] = "count"
    /\ revision' = [revision EXCEPT
                     ![c] = Cardinality(read_history(trace[c])) + 1]
    /\ Goto(c, "append")
    /\ UNCHANGED <<store, trace, tries, view, failures>>

\* Plausible bug: the append is repeated after it succeeded.
append_twice(c) ==
    /\ step[c] = "append"
    /\ append_history(trace[c], revision[c], c)
    /\ \/ Goto(c, "mark_read") /\ UNCHANGED tries
       \/ /\ tries[c] < MaxRetries
          /\ Goto(c, "count") /\ tries' = [tries EXCEPT ![c] = @ + 1]
    /\ UNCHANGED <<trace, revision, view, failures>>

append_observation(c) ==
    /\ step[c] = "append"
    /\ append_history(trace[c], revision[c], c)
    /\ Goto(c, "mark_read")
    /\ UNCHANGED <<trace, revision, tries, view, failures>>

\* Plausible bug: a collision is not retried.
collide_gives_up(c) ==
    /\ step[c] = "append"
    /\ history_exists(trace[c], revision[c])
    /\ Goto(c, "exhausted")
    /\ UNCHANGED <<store, trace, revision, tries, view, failures>>

\* HistoryAlreadyExists: count again, while attempts remain.
append_collides(c) ==
    /\ step[c] = "append"
    /\ history_exists(trace[c], revision[c])
    /\ IF tries[c] < MaxRetries
         THEN Goto(c, "count") /\ tries' = [tries EXCEPT ![c] = @ + 1]
         ELSE Goto(c, "exhausted") /\ UNCHANGED tries
    /\ UNCHANGED <<store, trace, revision, view, failures>>

----------------------------------------------------------------------------
(***************************************************************************)
(* try_mark_received, shared by callbacks and readers: read, apply         *)
(* ReceiveCallback, compare-and-swap; rejection and conflict are ignored.  *)
(***************************************************************************)
\* ReceiveCallback's only rejection.
AlreadyReceived(state) == state = Received

mark_read(q) ==
    /\ step[q] = "mark_read"
    /\ LET row == read_current(trace[q])
       IN  IF AlreadyReceived(row.state)
             THEN Goto(q, AfterMark(q)) /\ UNCHANGED revision
             ELSE /\ revision' = [revision EXCEPT ![q] = row.revision]
                  /\ Goto(q, "mark_write")
    /\ UNCHANGED <<store, trace, tries, view, failures>>

mark_write(q) ==
    /\ step[q] = "mark_write"
    /\ \/ write_current(trace[q], revision[q], Received)
       \/ write_conflicts(trace[q], revision[q]) /\ UNCHANGED store
    /\ Goto(q, AfterMark(q))
    /\ UNCHANGED <<trace, revision, tries, view, failures>>

----------------------------------------------------------------------------
(***************************************************************************)
(* read_trace: the state, then the history, then -- when there are         *)
(* observations the state does not show -- the repair and a second read.   *)
(***************************************************************************)
read_trace(r, t) ==
    /\ r \in Reader /\ step[r] = "idle"
    /\ IF read_current(t) = NoRow
         THEN UNCHANGED <<step, trace, view>>
         ELSE /\ Goto(r, "history")
              /\ trace' = [trace EXCEPT ![r] = t]
              /\ view' = [view EXCEPT ![r] =
                   [EmptyView EXCEPT !.state = read_current(t).state]]
    /\ UNCHANGED <<store, revision, tries, failures>>

\* Plausible bugs: the stale state is answered without a repair; a trace in
\* need of repair is an error.
read_without_repair(r) ==
    /\ step[r] = "history"
    /\ view' = [view EXCEPT ![r] =
                   [@ EXCEPT !.observations = Observations(trace[r])]]
    /\ Goto(r, "returned")
    /\ UNCHANGED <<store, trace, revision, tries, failures>>

repair_is_an_error(r) ==
    /\ step[r] = "history"
    /\ IF view[r].state = AwaitingCallback /\ Observations(trace[r]) # {}
         THEN Goto(r, "idle") /\ view' = [view EXCEPT ![r] = EmptyView]
         ELSE /\ Goto(r, "returned")
              /\ view' = [view EXCEPT ![r] =
                   [@ EXCEPT !.observations = Observations(trace[r])]]
    /\ UNCHANGED <<store, trace, revision, tries, failures>>

read_observations(r) ==
    /\ step[r] = "history"
    /\ view' = [view EXCEPT ![r] =
                   [@ EXCEPT !.observations = Observations(trace[r])]]
    /\ IF view[r].state = AwaitingCallback /\ Observations(trace[r]) # {}
         THEN Goto(r, "mark_read")
         ELSE Goto(r, "returned")
    /\ UNCHANGED <<store, trace, revision, tries, failures>>

refresh_state(r) ==
    /\ step[r] = "refresh"
    /\ view' = [view EXCEPT ![r] =
                   [@ EXCEPT !.state = read_current(trace[r]).state]]
    /\ Goto(r, "returned")
    /\ UNCHANGED <<store, trace, revision, tries, failures>>

\* The reader has its answer and may ask again.
answer(r) ==
    /\ step[r] = "returned"
    /\ Goto(r, "idle")
    /\ trace' = [trace EXCEPT ![r] = NoTrace]
    /\ revision' = [revision EXCEPT ![r] = 0]
    /\ view' = [view EXCEPT ![r] = EmptyView]
    /\ UNCHANGED <<store, tries, failures>>

----------------------------------------------------------------------------
(***************************************************************************)
(* A store error.  It ends the append with an error and the reading of a   *)
(* trace with an error, but inside try_mark_received it is swallowed: the  *)
(* callback is still acknowledged and the reader goes on to read again.    *)
(***************************************************************************)
store_error(q) ==
    /\ failures < MaxFailures /\ failures' = failures + 1
    /\ \/ /\ step[q] \in {"mark_read", "mark_write"}
          /\ Goto(q, AfterMark(q))
          /\ view' = IF q \in Reader THEN [view EXCEPT ![q] = [@ EXCEPT !.failed = TRUE]]
                                     ELSE view
          /\ UNCHANGED <<trace, revision>>
       \/ /\ step[q] \in {"count", "append"}
          /\ Goto(q, "failed")
          /\ UNCHANGED <<trace, revision, view>>
       \/ /\ step[q] \in {"history", "refresh"}
          /\ Goto(q, "idle")
          /\ trace' = [trace EXCEPT ![q] = NoTrace]
          /\ revision' = [revision EXCEPT ![q] = 0]
          /\ view' = [view EXCEPT ![q] = EmptyView]
    /\ UNCHANGED <<store, tries>>

\* The process serving a callback dies.
crash(c) ==
    /\ failures < MaxFailures /\ failures' = failures + 1
    /\ step[c] \in {"count", "append", "mark_read", "mark_write"}
    /\ c \in Callback
    /\ Goto(c, "dead")
    /\ UNCHANGED <<store, trace, revision, tries, view>>

CallbackStep(c) ==
    \/ count_history(c) \/ append_observation(c) \/ append_collides(c)

MarkStep(q) == mark_read(q) \/ mark_write(q)

ReaderStep(r) == read_observations(r) \/ refresh_state(r) \/ answer(r)

IamNext ==
    \/ \E t \in Identity : create_trace(t)
    \/ \E c \in Callback : \/ \E t \in Identity : receive_callback(c, t)
                           \/ CallbackStep(c) \/ crash(c)
    \/ \E r \in Reader : \/ \E t \in Identity : read_trace(r, t)
                         \/ ReaderStep(r)
    \/ \E q \in Request : MarkStep(q) \/ store_error(q)

IamSpec == IamInit /\ [][IamNext]_iamVars

(***************************************************************************)
(* Requests that were started are driven on by the server, and operators   *)
(* keep reading the traces, which is the assumption iam.rs states for its  *)
(* repair.  Callbacks need not arrive at all.                              *)
(***************************************************************************)
IamFairness ==
    /\ \A q \in Request : WF_iamVars(CallbackStep(q) \/ MarkStep(q))
    /\ \A r \in Reader : WF_iamVars(ReaderStep(r))
    /\ \A r \in Reader, t \in Identity : SF_iamVars(read_trace(r, t))

FairIamSpec == IamSpec /\ IamFairness

----------------------------------------------------------------------------
Steps == {"idle", "count", "append", "mark_read", "mark_write", "refused",
          "exhausted", "failed", "dead", "acknowledged", "history",
          "refresh", "returned"}

\* Type correctness; in particular no callback tries more than MaxRetries times.
IamTypeOK ==
    /\ current \in [Identity -> [revision : Nat \ {0}, state : IamTraceState]
                                \cup {NoRow}]
    /\ history \in SUBSET [identity : Identity, revision : Nat \ {0},
                           state : Callback]
    /\ step \in [Request -> Steps]
    /\ trace \in [Request -> Identity \cup {NoTrace}]
    /\ revision \in [Request -> Nat]
    /\ tries \in [Request -> 0 .. MaxRetries]
    /\ view \in [Reader -> [state : IamTraceState,
                            observations : SUBSET Callback, failed : BOOLEAN]]
    /\ failures \in 0 .. MaxFailures

\* The observations of a trace are numbered 1, 2, 3, ... without a gap,
\* although every callback numbers its own by an unsynchronised count.
ObservationsAreContiguous ==
    \A t \in Identity :
        {row.revision : row \in read_history(t)}
            = 1 .. Cardinality(read_history(t))

\* "Durable proof first": an acknowledged callback is in the history of its
\* trace, and no callback is there twice, whatever was retried or collided.
AcknowledgedIsDurable ==
    \A c \in Callback :
        /\ step[c] = "acknowledged" => c \in Observations(trace[c])
        /\ \A row1, row2 \in history :
             row1.state = c /\ row2.state = c => row1 = row2

\* A callback is given up for contention only when enough others succeeded:
\* each lost attempt is an observation somebody else made durable.
ExhaustionNeedsContention ==
    \A c \in Callback : step[c] = "exhausted" =>
        Cardinality(read_history(trace[c])) >= MaxRetries

\* A readback never shows a received trace without observations, and -- unless
\* its own repair failed -- never observations under an awaiting trace.
ReadbackIsConsistent ==
    \A r \in Reader : step[r] = "returned" =>
        /\ view[r].state = Received => view[r].observations # {}
        /\ view[r].observations # {} /\ ~view[r].failed =>
             view[r].state = Received

\* "A trace can never get permanently stuck AwaitingCallback while real
\* observations accumulate": it is eventually marked, also when the callback
\* that made the observation died before marking and no other ever arrives.
ObservedIsMarked ==
    \A t \in Identity :
        Observations(t) # {} ~> current[t] # NoRow /\ current[t].state = Received

============================================================================
