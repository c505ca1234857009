--------------------------- MODULE IamTraceProofs ---------------------------
(***************************************************************************)
(* The callback inspector, for any number of traces, callbacks, readers    *)
(* and retries: observations are numbered without a gap although nobody    *)
(* locks anything, an acknowledged callback is durable exactly once, a     *)
(* callback that gives up lost against others, and a readback is           *)
(* consistent.                                                             *)
(***************************************************************************)
EXTENDS IamTrace, FiniteSetTheorems, TLAPS

USE PayloadAssumption, RequestAssumption, RetriesAssumption

\* The number of observations a trace has.
Count(t) == Cardinality(read_history(t))

View == [state : IamTraceState, observations : SUBSET Callback,
         failed : BOOLEAN]

\* The types the argument needs.
IamTypes ==
    /\ current \in [Identity -> [revision : Nat \ {0}, state : IamTraceState]
                                \cup {NoRow}]
    /\ history \subseteq [identity : Identity, revision : Nat \ {0},
                          state : Callback]
    /\ IsFiniteSet(history)
    /\ step \in [Request -> Steps]
    /\ trace \in [Request -> Identity \cup {NoTrace}]
    /\ revision \in [Request -> Nat]
    /\ tries \in [Request -> Nat]
    /\ view \in [Reader -> View]

\* A trace is written twice at most: it awaits its callback at revision 1 and
\* is received, with an observation to show, at revision 2.
TraceHasTwoRevisions ==
    \A t \in Identity : current[t] # NoRow =>
        \/ current[t].state = AwaitingCallback /\ current[t].revision = 1
        \/ /\ current[t].state = Received /\ current[t].revision = 2
           /\ read_history(t) # {}

\* A request at work is about a trace that exists, and whoever is about to
\* mark it has read it as awaiting.
WorkIsOnATrace ==
    \A q \in Request :
        /\ step[q] \in {"count", "append", "mark_read", "mark_write",
                        "acknowledged", "exhausted", "history", "refresh"} =>
             trace[q] \in Identity /\ current[trace[q]] # NoRow
        /\ step[q] = "mark_write" => revision[q] = 1

\* A callback has no observation before its append and one after it; the
\* revision it counted is at most one more than there are, and each failed
\* try stands for an observation of somebody else.
CountedCallback(c) ==
    /\ step[c] \notin {"history", "refresh", "returned"}
    /\ step[c] \in {"idle", "count", "append"} =>
         \A row \in history : row.state # c
    /\ step[c] \in {"mark_read", "mark_write", "acknowledged"} =>
         \E row \in read_history(trace[c]) : row.state = c
    /\ step[c] \in {"count", "append"} =>
         tries[c] \in 1 .. MaxRetries /\ Count(trace[c]) >= tries[c] - 1
    /\ step[c] = "append" =>
         tries[c] <= revision[c] /\ revision[c] <= Count(trace[c]) + 1
    /\ step[c] = "exhausted" => Count(trace[c]) >= MaxRetries

CallbackIsCounted == \A c \in Callback : CountedCallback(c)

\* No callback is observed twice.
ObservedOnce ==
    \A row1, row2 \in history : row1.state = row2.state => row1 = row2

\* What a reader has read was true and stays true: a received trace has
\* observations, and after the repair the trace is received.
SoundReader(r) ==
    /\ step[r] \in {"idle", "history", "mark_read", "mark_write", "refresh",
                    "returned"}
    /\ step[r] = "history" /\ view[r].state = Received =>
         read_history(trace[r]) # {}
    /\ step[r] \in {"mark_read", "mark_write", "refresh"} =>
         view[r].observations # {} /\ read_history(trace[r]) # {}
    /\ step[r] = "refresh" /\ ~view[r].failed =>
         current[trace[r]].state = Received

ReaderSawTheTrace == \A r \in Reader : SoundReader(r)

IamInv ==
    /\ IamTypes /\ TraceHasTwoRevisions /\ WorkIsOnATrace
    /\ ObservationsAreContiguous /\ ObservedOnce
    /\ CallbackIsCounted /\ ReaderSawTheTrace /\ ReadbackIsConsistent

----------------------------------------------------------------------------
\* The history of a trace is finite.
LEMMA CountType ==
    ASSUME IsFiniteSet(history), NEW t
    PROVE  IsFiniteSet(read_history(t)) /\ Count(t) \in Nat
  BY FS_Subset, FS_CardinalityType DEF read_history, Count

\* The initial states satisfy the invariant.
LEMMA IamInitInv == IamInit => IamInv
  <1> SUFFICES ASSUME IamInit PROVE IamInv
    OBVIOUS
  <1>1. history = {} /\ \A t : read_history(t) = {} /\ Count(t) = 0
    BY FS_EmptySet DEF IamInit, StoreInit, read_history, Count
  <1>2. IamTypes
    BY FS_EmptySet DEF IamInit, StoreInit, IamTypes, View, EmptyView, IamTraceState,
                       Steps
  <1>3. ObservationsAreContiguous
    BY <1>1 DEF ObservationsAreContiguous, Count
  <1>4. TraceHasTwoRevisions /\ WorkIsOnATrace /\ ObservedOnce
    BY <1>1 DEF IamInit, StoreInit, TraceHasTwoRevisions, WorkIsOnATrace,
                ObservedOnce
  <1>5. CallbackIsCounted /\ ReaderSawTheTrace /\ ReadbackIsConsistent
    BY <1>1 DEF IamInit, CallbackIsCounted, CountedCallback, ReaderSawTheTrace, SoundReader,
                ReadbackIsConsistent, Request
  <1>. QED BY <1>2, <1>3, <1>4, <1>5 DEF IamInv

----------------------------------------------------------------------------
\* What a successful append of an observation does to the history: it extends
\* its trace by the row it is numbered for, and leaves the others alone.
LEMMA AppendEffect ==
    ASSUME IamInv, NEW c \in Callback, append_observation(c)
    PROVE  LET row == [identity |-> trace[c], revision |-> revision[c],
                       state |-> c]
           IN  /\ trace[c] \in Identity /\ row \notin history
               /\ row \in [identity : Identity, revision : Nat \ {0},
                           state : Callback]
               /\ current' = current /\ trace' = trace
               /\ history' = history \cup {row}
               /\ IsFiniteSet(history')
               /\ \A t \in Identity :
                    /\ read_history(t)' = IF t = trace[c]
                                          THEN read_history(t) \cup {row}
                                          ELSE read_history(t)
                    /\ Count(t)' = IF t = trace[c] THEN Count(t) + 1 ELSE Count(t)
  <1> DEFINE row == [identity |-> trace[c], revision |-> revision[c],
                     state |-> c]
  <1>0. step[c] = "append" /\ c \in Request
    BY DEF append_observation, Request
  <1>1. trace[c] \in Identity /\ revision[c] \in Nat \ {0}
    BY <1>0 DEF IamInv, IamTypes, WorkIsOnATrace, CallbackIsCounted, CountedCallback
  <1>2. row \in [identity : Identity, revision : Nat \ {0}, state : Callback]
    BY <1>1
  <1>3. /\ current' = current /\ trace' = trace
        /\ history' = history \cup {row} /\ row \notin history
    BY DEF append_observation, append_history, history_exists
  <1>4. IsFiniteSet(history) /\ IsFiniteSet(history')
    BY <1>3, FS_AddElement DEF IamInv, IamTypes
  <1>a. row.identity = trace[c]
    OBVIOUS
  <1> HIDE DEF row
  <1>5. \A t \in Identity : read_history(t)' = IF t = trace[c]
                                               THEN read_history(t) \cup {row}
                                               ELSE read_history(t)
    BY <1>3, <1>a DEF read_history
  <1>6. \A t \in Identity :
            Count(t)' = IF t = trace[c] THEN Count(t) + 1 ELSE Count(t)
    <2> TAKE t \in Identity
    <2>1. CASE t = trace[c]
      <3>1. IsFiniteSet(read_history(t)) /\ row \notin read_history(t)
        BY <1>3, <1>4, CountType DEF read_history
      <3>2. read_history(t)' = read_history(t) \cup {row}
        BY <1>5, <2>1
      <3>. QED BY <2>1, <3>1, <3>2, FS_AddElement DEF Count
    <2>2. CASE t # trace[c]
      BY <1>5, <2>2 DEF Count
    <2>. QED BY <2>1, <2>2
  <1>. QED BY <1>1, <1>2, <1>3, <1>4, <1>5, <1>6 DEF row

\* Every other step leaves the history alone.
LEMMA OtherStepsKeepHistory ==
    ASSUME [IamNext]_iamVars
    PROVE  UNCHANGED history \/ \E c \in Callback : append_observation(c)
  BY DEF IamNext, create_trace, write_current, receive_callback, CallbackStep,
         count_history, append_collides, crash, read_trace, ReaderStep,
         read_observations, refresh_state, answer, MarkStep, mark_read,
         mark_write, store_error, iamVars, store

\* The history of a trace only grows.
LEMMA HistoryGrows ==
    ASSUME IamInv, [IamNext]_iamVars, NEW t \in Identity
    PROVE  /\ read_history(t) \subseteq read_history(t)'
           /\ Count(t) \in Nat /\ Count(t)' \in Nat
           /\ Count(t) <= Count(t)'
  <1>0. IsFiniteSet(history)
    BY DEF IamInv, IamTypes
  <1>1. CASE UNCHANGED history
    BY <1>0, <1>1, CountType DEF read_history, Count
  <1>2. ASSUME NEW c \in Callback, append_observation(c)
        PROVE  /\ read_history(t) \subseteq read_history(t)'
               /\ Count(t) \in Nat /\ Count(t)' \in Nat
               /\ Count(t) <= Count(t)'
    <2>1. /\ read_history(t) \subseteq read_history(t)'
          /\ Count(t)' = Count(t) \/ Count(t)' = Count(t) + 1
      BY <1>2, AppendEffect
    <2>2. Count(t) \in Nat
      BY <1>0, CountType
    <2>. QED BY <2>1, <2>2
  <1>. QED BY <1>1, <1>2, OtherStepsKeepHistory

\* The rows of the traces: created once, marked once.
LEMMA TraceStep ==
    ASSUME IamInv, [IamNext]_iamVars
    PROVE  /\ current' \in [Identity -> [revision : Nat \ {0}, state : IamTraceState]
                                        \cup {NoRow}]
           /\ TraceHasTwoRevisions'
           /\ \A t \in Identity : current[t] # NoRow => current'[t] # NoRow
           /\ \A t \in Identity : current[t] # NoRow /\ current[t].state = Received =>
                                    current'[t].state = Received
  <1>0. IamTypes /\ TraceHasTwoRevisions /\ WorkIsOnATrace /\ ReaderSawTheTrace
        /\ CallbackIsCounted
    BY DEF IamInv
  <1>1. CASE UNCHANGED current
    BY <1>0, <1>1, HistoryGrows DEF IamTypes, TraceHasTwoRevisions
  <1>2. ASSUME NEW t \in Identity, create_trace(t)
        PROVE  /\ current[t] = NoRow /\ history' = history
               /\ current' = [current EXCEPT ![t] =
                     [revision |-> 1, state |-> AwaitingCallback]]
    BY <1>0, <1>2 DEF create_trace, write_current, write_conflicts,
                      ActualRevision, IamTypes
  <1>3. ASSUME NEW q \in Request, mark_write(q), current' # current
        PROVE  /\ trace[q] \in Identity /\ current[trace[q]] # NoRow
               /\ read_history(trace[q]) # {}
               /\ current' = [current EXCEPT ![trace[q]] =
                     [revision |-> 2, state |-> Received]]
    BY <1>0, <1>3 DEF mark_write, write_current, store, WorkIsOnATrace,
                      ReaderSawTheTrace, SoundReader, CallbackIsCounted, CountedCallback, Request
  <1>4. \/ UNCHANGED current
        \/ \E t \in Identity : create_trace(t)
        \/ \E q \in Request : mark_write(q)
    BY DEF IamNext, receive_callback, CallbackStep, append_observation,
           append_history,
           count_history, append_collides, crash, read_trace, ReaderStep,
           read_observations, refresh_state, answer, MarkStep, mark_read,
           store_error, iamVars, store
  <1> DEFINE Goal ==
           /\ current' \in [Identity -> [revision : Nat \ {0}, state : IamTraceState]
                                        \cup {NoRow}]
           /\ TraceHasTwoRevisions'
           /\ \A t \in Identity : current[t] # NoRow => current'[t] # NoRow
           /\ \A t \in Identity : current[t] # NoRow /\ current[t].state = Received =>
                                    current'[t].state = Received
  <1>5. ASSUME NEW t \in Identity, create_trace(t) PROVE Goal
    <2> DEFINE row == [revision |-> 1, state |-> AwaitingCallback]
    <2>1. /\ row \in [revision : Nat \ {0}, state : IamTraceState]
          /\ row # NoRow /\ row.revision = 1 /\ row.state = AwaitingCallback
      BY NoRowAssumption DEF IamTraceState
    <2>2. /\ current[t] = NoRow /\ current' = [current EXCEPT ![t] = row]
          /\ \A i : read_history(i)' = read_history(i)
      BY <1>2, <1>5 DEF read_history
    <2> HIDE DEF row
    <2>. QED BY <1>0, <2>1, <2>2 DEF IamTypes, TraceHasTwoRevisions
  <1>6. ASSUME NEW q \in Request, mark_write(q), current' # current PROVE Goal
    BY <1>0, <1>3, <1>6, HistoryGrows, NoRowAssumption DEF IamTypes, TraceHasTwoRevisions,
       IamTraceState
  <1>. QED BY <1>1, <1>4, <1>5, <1>6

\* The types of the requests' variables.
LEMMA TypeStep ==
    ASSUME IamInv, [IamNext]_iamVars
    PROVE  IamTypes'
  <1>0. IamTypes
    BY DEF IamInv
  <1>1. /\ history' \subseteq [identity : Identity, revision : Nat \ {0},
                               state : Callback]
        /\ IsFiniteSet(history')
    BY <1>0, OtherStepsKeepHistory, AppendEffect DEF IamTypes
  <1>2. step' \in [Request -> Steps]
    BY <1>0
    DEF IamNext, create_trace, receive_callback, parse_facts, CallbackStep,
        count_history, append_observation, append_collides, crash, read_trace,
        ReaderStep, read_observations, refresh_state, answer, MarkStep,
        mark_read, mark_write, store_error, AfterMark, Goto, iamVars, IamTypes,
        Request, Steps
  <1>3. trace' \in [Request -> Identity \cup {NoTrace}]
    BY <1>0
    DEF IamNext, create_trace, receive_callback, CallbackStep,
        count_history, append_observation, append_collides, crash, read_trace,
        ReaderStep, read_observations, refresh_state, answer, MarkStep,
        mark_read, mark_write, store_error, iamVars, IamTypes,
        Request
  <1>4. tries' \in [Request -> Nat]
    BY <1>0
    DEF IamNext, create_trace, receive_callback, CallbackStep,
        count_history, append_observation, append_collides, crash, read_trace,
        ReaderStep, read_observations, refresh_state, answer, MarkStep,
        mark_read, mark_write, store_error, iamVars, IamTypes,
        Request
  <1>5. revision' \in [Request -> Nat]
    <2>1. ASSUME NEW c \in Callback, count_history(c)
          PROVE  revision' \in [Request -> Nat]
      <3>1. Count(trace[c]) \in Nat /\ c \in Request
        BY <1>0, CountType DEF IamTypes, Request
      <3>2. revision' = [revision EXCEPT ![c] = Count(trace[c]) + 1]
        BY <2>1 DEF count_history, Count
      <3>. QED BY <1>0, <3>1, <3>2 DEF IamTypes
    <2>2. ASSUME NEW q \in Request, mark_read(q)
          PROVE  revision' \in [Request -> Nat]
      <3>1. current[trace[q]].revision \in Nat
        BY <1>0, <2>2 DEF IamTypes, IamInv, WorkIsOnATrace, mark_read
      <3>. QED BY <1>0, <2>2, <3>1 DEF mark_read, read_current, IamTypes
    <2>3. ASSUME NEW r \in Request, answer(r) \/ store_error(r)
          PROVE  revision' \in [Request -> Nat]
      BY <1>0, <2>3 DEF answer, store_error, IamTypes
    <2>4. \/ UNCHANGED revision
          \/ \E c \in Callback : count_history(c)
          \/ \E q \in Request : mark_read(q) \/ answer(q) \/ store_error(q)
      BY DEF IamNext, create_trace, receive_callback, CallbackStep,
             append_observation, append_collides, crash, read_trace, ReaderStep,
             read_observations, refresh_state, MarkStep, mark_write, iamVars,
             Request
    <2>. QED BY <1>0, <2>1, <2>2, <2>3, <2>4 DEF IamTypes
  <1>6. view' \in [Reader -> View]
    <2>0. EmptyView \in View /\ view \in [Reader -> View]
      BY <1>0 DEF EmptyView, IamTypes, View, IamTraceState
    <2>1. ASSUME NEW r \in Reader, NEW t \in Identity, read_trace(r, t)
          PROVE  view' \in [Reader -> View]
      <3>1. CASE current[t] = NoRow
        BY <2>0, <2>1, <3>1 DEF read_trace, read_current
      <3>2. CASE current[t] # NoRow
        <4>1. current[t].state \in IamTraceState
          BY <1>0, <3>2 DEF IamTypes
        <4>2. [EmptyView EXCEPT !.state = current[t].state] \in View
          BY <4>1 DEF EmptyView, View
        <4>3. view' = [view EXCEPT ![r] = [EmptyView EXCEPT !.state = current[t].state]]
          BY <2>1, <3>2 DEF read_trace, read_current
        <4>. QED BY <2>0, <4>2, <4>3
      <3>. QED BY <3>1, <3>2
    <2>2. ASSUME NEW r \in Reader, read_observations(r)
          PROVE  view' \in [Reader -> View]
      <3>1. Observations(trace[r]) \in SUBSET Callback
        BY <1>0 DEF Observations, read_history, IamTypes
      <3>2. [view[r] EXCEPT !.observations = Observations(trace[r])] \in View
        BY <2>0, <3>1 DEF View
      <3>. QED BY <2>0, <2>2, <3>2 DEF read_observations
    <2>3. ASSUME NEW r \in Reader, refresh_state(r)
          PROVE  view' \in [Reader -> View]
      <3>1. current[trace[r]].state \in IamTraceState
        BY <1>0, <2>3 DEF IamTypes, IamInv, WorkIsOnATrace, refresh_state, Request
      <3>2. [view[r] EXCEPT !.state = current[trace[r]].state] \in View
        BY <2>0, <3>1 DEF View
      <3>. QED BY <2>0, <2>3, <3>2 DEF refresh_state, read_current
    <2>4. ASSUME NEW q \in Request, store_error(q)
          PROVE  view' \in [Reader -> View]
      <3>1. q \in Reader => [view[q] EXCEPT !.failed = TRUE] \in View
        BY <2>0 DEF View
      <3>2. \/ view' = view \/ view' = [view EXCEPT ![q] = EmptyView]
            \/ q \in Reader /\ view' = [view EXCEPT ![q] =
                                         [view[q] EXCEPT !.failed = TRUE]]
        BY <2>4 DEF store_error
      <3>. QED BY <2>0, <3>1, <3>2
    <2>5. ASSUME NEW r \in Reader, answer(r)
          PROVE  view' \in [Reader -> View]
      BY <2>0, <2>5 DEF answer
    <2>6. \/ UNCHANGED view
          \/ \E r \in Reader : \/ \E t \in Identity : read_trace(r, t)
                               \/ read_observations(r) \/ refresh_state(r)
                               \/ answer(r)
          \/ \E q \in Request : store_error(q)
      BY DEF IamNext, create_trace, receive_callback, CallbackStep,
             count_history, append_observation, append_collides, crash,
             ReaderStep, MarkStep, mark_read, mark_write, iamVars
    <2>. QED BY <2>0, <2>1, <2>2, <2>3, <2>4, <2>5, <2>6
  <1>7. current' \in [Identity -> [revision : Nat \ {0}, state : IamTraceState]
                              \cup {NoRow}]
    BY TraceStep
  <1>. QED BY <1>1, <1>2, <1>3, <1>4, <1>5, <1>6, <1>7 DEF IamTypes

\* Requests at work stay on a trace that exists.
LEMMA WorkStep ==
    ASSUME IamInv, [IamNext]_iamVars
    PROVE  WorkIsOnATrace'
  <1>0. /\ IamTypes /\ WorkIsOnATrace /\ TraceHasTwoRevisions
        /\ \A t \in Identity : current[t] # NoRow => current'[t] # NoRow
    BY TraceStep DEF IamInv
  <1>1. ASSUME NEW c \in Callback, NEW t \in Identity, receive_callback(c, t)
        PROVE  WorkIsOnATrace'
    BY <1>0, <1>1
    DEF receive_callback, parse_facts, read_current, Goto, store, WorkIsOnATrace,
        IamTypes, Request
  <1>2. ASSUME NEW c \in Callback, CallbackStep(c) \/ crash(c)
        PROVE  WorkIsOnATrace'
    BY <1>0, <1>2
    DEF CallbackStep, count_history, append_observation, append_collides, crash,
        append_history, Goto, store, WorkIsOnATrace, IamTypes, Request
  <1>3. ASSUME NEW r \in Reader, NEW t \in Identity, read_trace(r, t)
        PROVE  WorkIsOnATrace'
    BY <1>0, <1>3
    DEF read_trace, read_current, Goto, store, WorkIsOnATrace, IamTypes, Request
  <1>4. ASSUME NEW r \in Reader, ReaderStep(r)
        PROVE  WorkIsOnATrace'
    BY <1>0, <1>4
    DEF ReaderStep, read_observations, refresh_state, answer, Goto, store,
        WorkIsOnATrace, IamTypes, Request
  <1>5. ASSUME NEW q \in Request, mark_read(q)
        PROVE  WorkIsOnATrace'
    BY <1>0, <1>5
    DEF mark_read, AlreadyReceived, AfterMark, read_current, Goto, store,
        WorkIsOnATrace, TraceHasTwoRevisions, IamTypes, Request
  <1>6. ASSUME NEW q \in Request, mark_write(q) \/ store_error(q)
        PROVE  WorkIsOnATrace'
    BY <1>0, <1>6
    DEF mark_write, store_error, AfterMark, Goto, store, WorkIsOnATrace,
        IamTypes
  <1>7. CASE (\E t \in Identity : create_trace(t)) \/ UNCHANGED iamVars
    BY <1>0, <1>7 DEF create_trace, iamVars, WorkIsOnATrace, IamTypes
  <1>. QED BY <1>1, <1>2, <1>3, <1>4, <1>5, <1>6, <1>7 DEF IamNext, MarkStep

\* The numbering: a revision that is at most one more than there are, and is
\* not taken, is the next one.
LEMMA NumberingStep ==
    ASSUME IamInv, [IamNext]_iamVars
    PROVE  ObservationsAreContiguous' /\ ObservedOnce'
  <1>0. IamTypes /\ ObservationsAreContiguous /\ ObservedOnce /\ CallbackIsCounted
    BY DEF IamInv
  <1>1. CASE UNCHANGED history
    BY <1>0, <1>1
    DEF ObservationsAreContiguous, ObservedOnce, read_history
  <1>2. ASSUME NEW c \in Callback, append_observation(c)
        PROVE  ObservationsAreContiguous' /\ ObservedOnce'
    <2> DEFINE row == [identity |-> trace[c], revision |-> revision[c], state |-> c]
    <2>1. /\ trace[c] \in Identity /\ history' = history \cup {row}
          /\ \A t \in Identity :
               /\ read_history(t)' = IF t = trace[c]
                                     THEN read_history(t) \cup {row}
                                     ELSE read_history(t)
               /\ Count(t)' = IF t = trace[c] THEN Count(t) + 1 ELSE Count(t)
      BY <1>2, AppendEffect
    <2>2. row.state = c /\ row.revision = revision[c]
      OBVIOUS
    <2>3. revision[c] \in 1 .. Count(trace[c]) + 1 /\ Count(trace[c]) \in Nat
      BY <1>0, <1>2, CountType
      DEF append_observation, CallbackIsCounted, CountedCallback, IamTypes, Request
    <2>4. \A other \in read_history(trace[c]) : other.revision # revision[c]
      BY <1>2 DEF append_observation, append_history, history_exists, read_history
    <2>5. {other.revision : other \in read_history(trace[c])} = 1 .. Count(trace[c])
      BY <1>0, <2>1 DEF ObservationsAreContiguous, Count
    <2>6. revision[c] = Count(trace[c]) + 1
      BY <2>3, <2>4, <2>5
    <2>7. \A other \in history : other.state # c
      BY <1>0, <1>2 DEF append_observation, CallbackIsCounted, CountedCallback
    <2> HIDE DEF row
    <2>8. ObservedOnce'
      BY <1>0, <2>1, <2>2, <2>7 DEF ObservedOnce
    <2>9. ASSUME NEW t \in Identity
          PROVE  {other.revision : other \in read_history(t)}' = 1 .. Count(t)'
      <3>1. CASE t = trace[c]
        <4>1. read_history(t)' = read_history(t) \cup {row}
          BY <2>1, <3>1
        <4>2. {other.revision : other \in read_history(t)'} =
                {other.revision : other \in read_history(t)} \cup {row.revision}
          BY <4>1
        <4>3. Count(t)' = Count(t) + 1 /\ Count(t) \in Nat
          BY <2>1, <2>3, <3>1
        <4>4. (1 .. Count(t)) \cup {Count(t) + 1} = 1 .. Count(t) + 1
          BY <4>3
        <4>. QED BY <2>2, <2>5, <2>6, <3>1, <4>2, <4>3, <4>4
      <3>2. CASE t # trace[c]
        <4>1. read_history(t)' = read_history(t) /\ Count(t)' = Count(t)
          BY <2>1, <3>2
        <4>2. {other.revision : other \in read_history(t)} = 1 .. Count(t)
          BY <1>0 DEF ObservationsAreContiguous, Count
        <4>. QED BY <4>1, <4>2
      <3>. QED BY <3>1, <3>2
    <2>. QED BY <2>8, <2>9 DEF ObservationsAreContiguous, Count
  <1>. QED BY <1>1, <1>2, OtherStepsKeepHistory

\* A callback's count and tries, against whatever the others append.
LEMMA CallbackStepInv ==
    ASSUME IamInv, [IamNext]_iamVars
    PROVE  CallbackIsCounted'
  <1>0. /\ IamTypes /\ WorkIsOnATrace /\ CallbackIsCounted
        /\ ObservationsAreContiguous
        /\ \A t \in Identity : /\ read_history(t) \subseteq read_history(t)'
                               /\ Count(t) \in Nat /\ Count(t)' \in Nat
                               /\ Count(t) <= Count(t)'
    BY HistoryGrows DEF IamInv
  <1> SUFFICES ASSUME NEW c \in Callback
               PROVE  CountedCallback(c)'
    BY DEF CallbackIsCounted
  <1>1. c \in Request /\ CountedCallback(c)
    BY <1>0 DEF CallbackIsCounted, Request
  <1>2. ASSUME UNCHANGED <<step[c], trace[c], revision[c], tries[c]>>,
               \A row \in history' \ history : row.state # c
        PROVE  CountedCallback(c)'
    <2>1. CASE step[c] \in {"count", "append", "mark_read", "mark_write",
                            "acknowledged", "exhausted"}
      <3>1. PICK t \in Identity : trace[c] = t /\ trace'[c] = t
        BY <1>0, <1>1, <1>2, <2>1 DEF WorkIsOnATrace
      <3>2. Count(trace[c])' = Count(t)' /\ read_history(trace[c])' = read_history(t)'
        BY <3>1 DEF Count, read_history
      <3>3. Count(trace[c]) = Count(t) /\ read_history(trace[c]) = read_history(t)
        BY <3>1
      <3>. QED BY <1>0, <1>1, <1>2, <3>2, <3>3 DEF CountedCallback, IamTypes
    <2>2. CASE step[c] \notin {"count", "append", "mark_read", "mark_write",
                               "acknowledged", "exhausted"}
      BY <1>1, <1>2, <2>2 DEF CountedCallback
    <2>. QED BY <2>1, <2>2
  <1>3. ASSUME NEW t \in Identity, receive_callback(c, t)
        PROVE  CountedCallback(c)'
    <2>1. trace'[c] = t /\ tries'[c] = 1 /\ history' = history
      BY <1>0, <1>1, <1>3 DEF receive_callback, IamTypes, store
    <2>2. Count(trace[c])' = Count(t)'
      BY <2>1 DEF Count, read_history
    <2>3. step[c] = "idle" /\ step'[c] \in {"count", "refused"}
      BY <1>0, <1>1, <1>3 DEF receive_callback, parse_facts, Goto, IamTypes
    <2>. QED BY <1>0, <1>1, <2>1, <2>2, <2>3 DEF CountedCallback
  <1>4. ASSUME CallbackStep(c) \/ crash(c) \/ mark_read(c) \/ mark_write(c)
               \/ store_error(c)
        PROVE  CountedCallback(c)'
    <2>1. step[c] \in {"count", "append", "mark_read", "mark_write"}
      BY <1>1, <1>4 DEF CallbackStep, count_history, append_observation,
         append_collides, crash, mark_read, mark_write, store_error,
         CountedCallback
    <2>2. PICK t \in Identity : trace[c] = t
      BY <1>0, <1>1, <2>1 DEF WorkIsOnATrace
    <2>3. trace' = trace
      BY <1>1, <1>4 DEF CallbackStep, count_history, append_observation,
         append_collides, crash, mark_read, mark_write, store_error,
         CountedCallback
    <2>4. Count(trace[c])' = Count(t)' /\ read_history(trace[c])' = read_history(t)'
      BY <2>2, <2>3 DEF Count, read_history
    <2>5. Count(trace[c]) = Count(t) /\ read_history(trace[c]) = read_history(t)
      BY <2>2
    <2>6. CASE count_history(c)
      <3>1. /\ step[c] = "count" /\ step'[c] = "append" /\ history' = history
            /\ tries' = tries /\ revision'[c] = Count(t) + 1
        BY <1>0, <1>1, <2>2, <2>6 DEF count_history, Goto, store, Count, IamTypes
      <3>2. Count(t)' = Count(t)
        BY <3>1 DEF Count, read_history
      <3>. QED BY <1>0, <1>1, <2>4, <2>5, <3>1, <3>2 DEF CountedCallback, IamTypes
    <2>7. CASE append_observation(c)
      <3>1. step'[c] = "mark_read"
        BY <1>0, <1>1, <2>7 DEF append_observation, Goto, IamTypes
      <3>2. \E row \in read_history(t)' : row.state = c
        <4> DEFINE row == [identity |-> t, revision |-> revision[c], state |-> c]
        <4>1. read_history(t)' = read_history(t) \cup {row}
          BY <2>2, <2>7, AppendEffect
        <4>2. row \in read_history(t)' /\ row.state = c
          BY <4>1
        <4>. QED BY <4>2
      <3>. QED BY <2>4, <3>1, <3>2 DEF CountedCallback
    <2>8. CASE append_collides(c)
      <3>1. step[c] = "append" /\ history' = history /\ history_exists(t, revision[c])
        BY <2>2, <2>8 DEF append_collides, store
      <3>2. revision[c] \in {row.revision : row \in read_history(t)}
        BY <3>1 DEF history_exists, read_history
      <3>3. revision[c] <= Count(t)
        BY <1>0, <3>2 DEF ObservationsAreContiguous, Count
      <3>4. Count(t)' = Count(t)
        BY <3>1 DEF Count, read_history
      <3>5. \/ /\ tries[c] < MaxRetries /\ step'[c] = "count"
               /\ tries'[c] = tries[c] + 1
            \/ /\ ~(tries[c] < MaxRetries) /\ step'[c] = "exhausted"
        BY <1>0, <1>1, <2>8 DEF append_collides, Goto, IamTypes
      <3>6. tries[c] \in 1 .. MaxRetries /\ tries[c] <= revision[c]
        BY <1>1, <3>1 DEF CountedCallback
      <3>7. revision[c] \in Nat /\ Count(t) \in Nat
        BY <1>0, <1>1 DEF IamTypes
      <3>. QED BY <1>1, <2>4, <3>1, <3>3, <3>4, <3>5, <3>6, <3>7
           DEF CountedCallback
    <2>9. CASE mark_read(c) \/ mark_write(c)
      <3>1. /\ step[c] \in {"mark_read", "mark_write"}
            /\ step'[c] \in {"mark_write", "acknowledged"}
        BY <1>0, <1>1, <2>9 DEF mark_read, mark_write, AfterMark, Goto, IamTypes
      <3>. QED BY <1>0, <1>1, <2>4, <2>5, <3>1 DEF CountedCallback
    <2>10. CASE crash(c) \/ store_error(c)
      <3>1. \/ step'[c] \in {"dead", "failed"}
            \/ /\ step[c] \in {"mark_read", "mark_write"}
               /\ step'[c] = "acknowledged"
        BY <1>0, <1>1, <2>1, <2>10 DEF crash, store_error, AfterMark, Goto, IamTypes
      <3>. QED BY <1>0, <1>1, <2>4, <2>5, <3>1 DEF CountedCallback
    <2>. QED BY <1>4, <2>6, <2>7, <2>8, <2>9, <2>10 DEF CallbackStep
  <1>5. ASSUME \A t \in Identity : ~receive_callback(c, t),
               ~(CallbackStep(c) \/ crash(c) \/ mark_read(c) \/ mark_write(c)
                 \/ store_error(c))
        PROVE  UNCHANGED <<step[c], trace[c], revision[c], tries[c]>>
    <2>1. ASSUME NEW d \in Callback \ {c},
                 \/ \E t \in Identity : receive_callback(d, t)
                 \/ CallbackStep(d) \/ crash(d)
          PROVE  UNCHANGED <<step[c], trace[c], revision[c], tries[c]>>
      BY <1>0, <1>1, <2>1
      DEF receive_callback, CallbackStep, count_history, append_observation,
          append_collides, crash, Goto, IamTypes
    <2>2. ASSUME NEW r \in Reader,
                 (\E t \in Identity : read_trace(r, t)) \/ ReaderStep(r)
          PROVE  UNCHANGED <<step[c], trace[c], revision[c], tries[c]>>
      BY <1>0, <1>1, <2>2
      DEF read_trace, ReaderStep, read_observations, refresh_state, answer,
          Goto, IamTypes
    <2>3. ASSUME NEW q \in Request \ {c}, mark_read(q) \/ mark_write(q) \/ store_error(q)
          PROVE  UNCHANGED <<step[c], trace[c], revision[c], tries[c]>>
      BY <1>0, <1>1, <2>3
      DEF mark_read, mark_write, store_error, Goto, IamTypes
    <2>4. CASE (\E t \in Identity : create_trace(t)) \/ UNCHANGED iamVars
      BY <2>4 DEF create_trace, iamVars
    <2>. QED BY <1>1, <1>5, <2>1, <2>2, <2>3, <2>4 DEF IamNext, MarkStep
  <1>6. ASSUME ~append_observation(c)
        PROVE  \A row \in history' \ history : row.state # c
    <2>1. ASSUME NEW d \in Callback, append_observation(d)
          PROVE  \A row \in history' \ history : row.state # c
      <3> DEFINE obs == [identity |-> trace[d], revision |-> revision[d], state |-> d]
      <3>1. history' = history \cup {obs}
        BY <2>1, AppendEffect
      <3>2. d # c /\ obs.state = d
        BY <1>6, <2>1
      <3>. QED BY <3>1, <3>2
    <2>. QED BY <2>1, OtherStepsKeepHistory
  <1>. QED BY <1>2, <1>3, <1>4, <1>5, <1>6 DEF CallbackStep

\* What a reader saw stays true while it goes on, and its answer is consistent.
LEMMA ReaderStepInv ==
    ASSUME IamInv, [IamNext]_iamVars
    PROVE  ReaderSawTheTrace' /\ ReadbackIsConsistent'
  <1> DEFINE Consistent(r) ==
               step[r] = "returned" =>
                 /\ view[r].state = Received => view[r].observations # {}
                 /\ view[r].observations # {} /\ ~view[r].failed =>
                      view[r].state = Received
  <1>0. /\ IamTypes /\ WorkIsOnATrace /\ TraceHasTwoRevisions
        /\ \A t \in Identity : read_history(t) \subseteq read_history(t)'
        /\ \A t \in Identity : current[t] # NoRow /\ current[t].state = Received =>
                                 current'[t].state = Received
    BY HistoryGrows, TraceStep DEF IamInv
  <1> SUFFICES ASSUME NEW r \in Reader
               PROVE  SoundReader(r)' /\ Consistent(r)'
    BY DEF ReaderSawTheTrace, ReadbackIsConsistent
  <1>1. r \in Request /\ r \notin Callback /\ SoundReader(r) /\ Consistent(r)
    BY DEF Request, IamInv, ReaderSawTheTrace, ReadbackIsConsistent
  <1>2. ASSUME UNCHANGED <<step[r], trace[r], view[r]>>
        PROVE  SoundReader(r)' /\ Consistent(r)'
    <2>1. CASE step[r] \in {"history", "mark_read", "mark_write", "refresh"}
      <3>1. PICK t \in Identity : trace[r] = t /\ trace'[r] = t /\ current[t] # NoRow
        BY <1>0, <1>1, <1>2, <2>1 DEF WorkIsOnATrace
      <3>2. read_history(trace[r])' = read_history(t)'
        BY <3>1 DEF read_history
      <3>. QED BY <1>0, <1>1, <1>2, <2>1, <3>1, <3>2 DEF SoundReader
    <2>2. CASE step[r] \notin {"history", "mark_read", "mark_write", "refresh"}
      BY <1>1, <1>2, <2>2 DEF SoundReader
    <2>. QED BY <2>1, <2>2
  <1>3. ASSUME NEW t \in Identity, read_trace(r, t)
        PROVE  SoundReader(r)' /\ Consistent(r)'
    <2>1. CASE current[t] = NoRow
      BY <1>2, <1>3, <2>1 DEF read_trace, read_current
    <2>2. CASE current[t] # NoRow
      <3>1. /\ step'[r] = "history" /\ trace'[r] = t /\ history' = history
            /\ view'[r].state = current[t].state
        BY <1>0, <1>1, <1>3, <2>2
        DEF read_trace, read_current, Goto, store, IamTypes, EmptyView
      <3>2. current[t].state = Received => read_history(t) # {}
        BY <1>0, <2>2 DEF TraceHasTwoRevisions, AwaitingCallback, Received
      <3>3. read_history(trace[r])' = read_history(t)
        BY <3>1 DEF read_history
      <3>. QED BY <3>1, <3>2, <3>3 DEF SoundReader
    <2>. QED BY <2>1, <2>2
  <1>4. ASSUME read_observations(r)
        PROVE  SoundReader(r)' /\ Consistent(r)'
    <2>1. PICK t \in Identity : trace[r] = t
      BY <1>0, <1>1, <1>4 DEF WorkIsOnATrace, read_observations
    <2>2. /\ step[r] = "history" /\ trace' = trace /\ history' = history
          /\ view'[r].state = view[r].state
          /\ view'[r].observations = Observations(t)
      BY <1>0, <1>1, <1>4, <2>1 DEF read_observations, store, IamTypes, View
    <2>3. IF view[r].state = AwaitingCallback /\ Observations(t) # {}
            THEN step'[r] = "mark_read" ELSE step'[r] = "returned"
      BY <1>0, <1>1, <1>4, <2>1 DEF read_observations, Goto, IamTypes
    <2>4. Observations(t) # {} <=> read_history(t) # {}
      BY DEF Observations
    <2>5. read_history(trace[r])' = read_history(t)
      BY <2>1, <2>2 DEF read_history
    <2>6. view[r].state \in {AwaitingCallback, Received}
      BY <1>0 DEF IamTypes, View, IamTraceState
    <2>7. AwaitingCallback # Received
      BY DEF AwaitingCallback, Received
    <2>. QED BY <1>1, <2>1, <2>2, <2>3, <2>4, <2>5, <2>6, <2>7 DEF SoundReader
  <1>5. ASSUME mark_read(r) \/ mark_write(r)
        PROVE  SoundReader(r)' /\ Consistent(r)'
    <2>1. PICK t \in Identity : trace[r] = t /\ current[t] # NoRow
      BY <1>0, <1>1, <1>5 DEF WorkIsOnATrace, mark_read, mark_write
    <2>2. /\ step[r] \in {"mark_read", "mark_write"}
          /\ step'[r] \in {"mark_write", "refresh"}
          /\ trace' = trace /\ view' = view /\ history' = history
      BY <1>0, <1>1, <1>5
      DEF mark_read, mark_write, AfterMark, Goto, store, write_current, IamTypes
    <2>3. read_history(trace[r])' = read_history(t)
      BY <2>1, <2>2 DEF read_history
    <2>4. CASE mark_read(r)
      <3>1. step'[r] = "refresh" => current[t].state = Received /\ current' = current
        BY <1>0, <1>1, <2>1, <2>4
        DEF mark_read, read_current, AlreadyReceived, Goto, store, IamTypes
      <3>. QED BY <1>1, <2>1, <2>2, <2>3, <3>1 DEF SoundReader
    <2>5. CASE mark_write(r)
      <3>1. current'[t].state = Received
        <4>1. CASE write_current(t, revision[r], Received)
          BY <1>0, <4>1 DEF write_current, IamTypes
        <4>2. CASE write_conflicts(t, revision[r]) /\ current' = current
          BY <1>0, <1>1, <2>1, <2>5, <4>2
          DEF write_conflicts, ActualRevision, TraceHasTwoRevisions, mark_write,
              WorkIsOnATrace
        <4>. QED BY <2>1, <2>5, <4>1, <4>2 DEF mark_write, store
      <3>. QED BY <1>1, <2>1, <2>2, <2>3, <3>1 DEF SoundReader
    <2>. QED BY <1>5, <2>4, <2>5
  <1>6. ASSUME refresh_state(r)
        PROVE  SoundReader(r)' /\ Consistent(r)'
    <2>1. PICK t \in Identity : trace[r] = t /\ current[t] # NoRow
      BY <1>0, <1>1, <1>6 DEF WorkIsOnATrace, refresh_state
    <2>2. /\ step[r] = "refresh" /\ step'[r] = "returned"
          /\ view'[r].state = current[t].state
          /\ view'[r].observations = view[r].observations
          /\ view'[r].failed = view[r].failed
      BY <1>0, <1>1, <1>6, <2>1 DEF refresh_state, read_current, Goto, IamTypes, View
    <2>. QED BY <1>1, <2>1, <2>2 DEF SoundReader
  <1>7. ASSUME answer(r)
        PROVE  SoundReader(r)' /\ Consistent(r)'
    <2>1. step'[r] = "idle"
      BY <1>0, <1>1, <1>7 DEF answer, Goto, IamTypes
    <2>. QED BY <2>1 DEF SoundReader
  <1>8. ASSUME store_error(r)
        PROVE  SoundReader(r)' /\ Consistent(r)'
    <2>1. CASE step[r] \in {"mark_read", "mark_write"}
      <3>1. PICK t \in Identity : trace[r] = t
        BY <1>0, <1>1, <2>1 DEF WorkIsOnATrace
      <3>2. /\ step'[r] = "refresh" /\ trace' = trace /\ history' = history
            /\ view'[r].observations = view[r].observations
            /\ view'[r].failed = TRUE
        BY <1>0, <1>1, <1>8, <2>1
        DEF store_error, AfterMark, Goto, store, IamTypes, View
      <3>3. read_history(trace[r])' = read_history(t)
        BY <3>1, <3>2 DEF read_history
      <3>. QED BY <1>1, <2>1, <3>1, <3>2, <3>3 DEF SoundReader
    <2>2. CASE step[r] \notin {"mark_read", "mark_write"}
      <3>1. step'[r] = "idle"
        BY <1>0, <1>1, <1>8, <2>2 DEF store_error, Goto, IamTypes, SoundReader
      <3>. QED BY <3>1 DEF SoundReader
    <2>. QED BY <2>1, <2>2
  <1>9. ASSUME \A t \in Identity : ~read_trace(r, t),
               ~(ReaderStep(r) \/ mark_read(r) \/ mark_write(r) \/ store_error(r))
        PROVE  UNCHANGED <<step[r], trace[r], view[r]>>
    <2>1. ASSUME NEW d \in Callback,
                 \/ \E t \in Identity : receive_callback(d, t)
                 \/ CallbackStep(d) \/ crash(d)
          PROVE  UNCHANGED <<step[r], trace[r], view[r]>>
      BY <1>0, <1>1, <2>1
      DEF receive_callback, CallbackStep, count_history, append_observation,
          append_collides, crash, Goto, IamTypes
    <2>2. ASSUME NEW q \in Reader \ {r},
                 (\E t \in Identity : read_trace(q, t)) \/ ReaderStep(q)
          PROVE  UNCHANGED <<step[r], trace[r], view[r]>>
      BY <1>0, <1>1, <2>2
      DEF read_trace, ReaderStep, read_observations, refresh_state, answer,
          Goto, IamTypes
    <2>3. ASSUME NEW q \in Request \ {r}, mark_read(q) \/ mark_write(q) \/ store_error(q)
          PROVE  UNCHANGED <<step[r], trace[r], view[r]>>
      BY <1>0, <1>1, <2>3
      DEF mark_read, mark_write, store_error, Goto, IamTypes
    <2>4. CASE (\E t \in Identity : create_trace(t)) \/ UNCHANGED iamVars
      BY <2>4 DEF create_trace, iamVars
    <2>. QED BY <1>1, <1>9, <2>1, <2>2, <2>3, <2>4 DEF IamNext, MarkStep
  <1> HIDE DEF Consistent
  <1>. QED BY <1>2, <1>3, <1>4, <1>5, <1>6, <1>7, <1>8, <1>9 DEF ReaderStep

\* Every step preserves the invariant.
LEMMA IamStepInv == IamInv /\ [IamNext]_iamVars => IamInv'
  BY TypeStep, TraceStep, WorkStep, NumberingStep, CallbackStepInv, ReaderStepInv
  DEF IamInv

----------------------------------------------------------------------------
\* The inspector's invariant holds for every instance.
THEOREM IamInvariant == IamSpec => []IamInv
  BY IamInitInv, IamStepInv, PTL DEF IamSpec

\* Observations are numbered 1, 2, 3, ... although append_observation counts
\* and inserts in two calls.
THEOREM Contiguity == IamSpec => []ObservationsAreContiguous
  <1>1. IamInv => ObservationsAreContiguous
    BY DEF IamInv
  <1>. QED BY <1>1, IamInvariant, PTL

\* receive_callback acknowledges nothing that is not in the history, and
\* nothing is there twice.
THEOREM Durability == IamSpec => []AcknowledgedIsDurable
  <1>1. IamInv => AcknowledgedIsDurable
    BY DEF IamInv, AcknowledgedIsDurable, ObservedOnce, CallbackIsCounted,
           CountedCallback, Observations
  <1>. QED BY <1>1, IamInvariant, PTL

\* A callback gives up only after MaxRetries observations of others.
THEOREM Exhaustion == IamSpec => []ExhaustionNeedsContention
  <1>1. IamInv => ExhaustionNeedsContention
    BY DEF IamInv, ExhaustionNeedsContention, CallbackIsCounted, CountedCallback,
           Count
  <1>. QED BY <1>1, IamInvariant, PTL

\* read_trace answers a state and observations that fit together.
THEOREM Readback == IamSpec => []ReadbackIsConsistent
  <1>1. IamInv => ReadbackIsConsistent
    BY DEF IamInv
  <1>. QED BY <1>1, IamInvariant, PTL
=============================================================================
