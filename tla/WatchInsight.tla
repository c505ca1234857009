---------------------------- MODULE WatchInsight ----------------------------
(***************************************************************************)
(* What is derived from a watch's records: change detection                *)
(* (spider/src/features/change_detection.rs) and health assessment         *)
(* (spider/src/features/watch_health.rs).  Change detection compares two   *)
(* pieces of evidence of one watch and records the result under a          *)
(* content-addressed key; it reads the watch in several store calls while  *)
(* transitions go on.  Health only reads, but it reads the history and the *)
(* current state in two calls, so it too can see a watch in motion.        *)
(***************************************************************************)
EXTENDS WatchSchedule, FiniteSets

VARIABLE
    ordered      \* the evidence each health assessment has read so far

insightVars == <<current, history, op, trail, lost, task, fetches, answers,
                 ordered>>

----------------------------------------------------------------------------
(***************************************************************************)
(* The comparison.  Equal bases (both body hashes, or both transformed     *)
(* hashes) are compared; anything else is uncomparable.                    *)
(***************************************************************************)
comparable(bundle) == bundle.kind \in {"Body", "Transformed"}

\* Plausible bug: the hashes are compared whatever they are hashes of.
compare_any_basis(previous, cur) ==
    CASE comparable(previous) /\ previous.value = cur.value ->
           Payload("Unchanged", Nothing)
      [] comparable(previous) /\ comparable(cur)
           /\ previous.value # cur.value -> Payload("Changed", Nothing)
      [] ~comparable(previous) \/ ~comparable(cur) ->
           Payload("Uncomparable", Nothing)

compute_change_result(previous, cur) ==
    CASE comparable(previous) /\ previous = cur -> Payload("Unchanged", Nothing)
      [] comparable(previous) /\ previous.kind = cur.kind
           /\ previous # cur -> Payload("Changed", Nothing)
      [] ~comparable(previous) \/ previous.kind # cur.kind ->
           Payload("Uncomparable", Nothing)

\* The stored bundle of an evidence identity (EvidenceRef::resolve).
resolves(e) == D!history_exists(e, 1)

resolve(e) == (CHOOSE row \in history : row.identity = e).state

(***************************************************************************)
(* detect_and_record_change.  Membership of each evidence is looked up in  *)
(* the current state first and then in the history, two store calls; when  *)
(* the first finds it, what the second returns makes no difference.        *)
(***************************************************************************)
detect_and_record_change(p, w, previous, cur) ==
    /\ Start(p, "previous_in_current", w, Nothing, cur, previous)
    /\ UNCHANGED <<domain, auxiliary, ordered>>

InCurrent(w, e) ==
    /\ D!read_current(w) # NoRow
    /\ last_evidence(D!read_current(w).state) = e

InHistory(w, e) ==
    \E row \in D!read_history(w) : last_evidence(row.state) = e

find_in_current(p) ==
    /\ \/ /\ AtStep(p, "previous_in_current")
          /\ IF InCurrent(task[p].watch, task[p].previous)
               THEN Goto(p, "current_in_current")
               ELSE Goto(p, "previous_in_history")
       \/ /\ AtStep(p, "current_in_current")
          /\ IF InCurrent(task[p].watch, task[p].evidence)
               THEN Goto(p, "compare")
               ELSE Goto(p, "current_in_history")
    /\ UNCHANGED <<domain, auxiliary, ordered>>

\* EvidenceNotAssociatedWithWatch ends the call.
find_in_history(p) ==
    /\ \/ /\ AtStep(p, "previous_in_history")
          /\ IF InHistory(task[p].watch, task[p].previous)
               THEN Goto(p, "current_in_current") ELSE End(p)
       \/ /\ AtStep(p, "current_in_history")
          /\ IF InHistory(task[p].watch, task[p].evidence)
               THEN Goto(p, "compare") ELSE End(p)
    /\ UNCHANGED <<domain, auxiliary, ordered>>

\* Both bundles are resolved (they never change once recorded), compared and
\* the event appended; an event that is already there is a success, evidence
\* that does not resolve an error.
record_change(p) ==
    /\ AtStep(p, "compare")
    /\ LET previous == task[p].previous
           cur == task[p].evidence
           key == change_key(task[p].watch, previous, cur)
       IN  IF resolves(previous) /\ resolves(cur) /\ ~D!history_exists(key, 1)
             THEN D!append_history(key, 1,
                    compute_change_result(resolve(previous), resolve(cur)))
             ELSE UNCHANGED <<current, history>>
    /\ End(p)
    /\ UNCHANGED <<op, trail, lost, auxiliary, ordered>>

DetectStep(p) == find_in_current(p) \/ find_in_history(p) \/ record_change(p)

----------------------------------------------------------------------------
(***************************************************************************)
(* Health.  ordered_watch_evidence: the evidence of every superseded state *)
(* by revision, then -- in a later call -- that of the current state.      *)
(***************************************************************************)
\* The k-th smallest of a finite set of numbers.
nth(numbers, k) ==
    CHOOSE n \in numbers : Cardinality({m \in numbers : m < n}) = k - 1

Observations(states) ==
    LET observed_states == {i \in DOMAIN states : last_evidence(states[i]) # Nothing}
    IN  [k \in 1 .. Cardinality(observed_states) |->
            last_evidence(states[nth(observed_states, k)])]

Revisions(w) == {row.revision : row \in D!read_history(w)}

superseded_at(w, revision) ==
    (CHOOSE row \in D!read_history(w) : row.revision = revision).state

\* Plausible bug: ORDER BY revision DESC.
superseded_descending(w) ==
    LET n == Cardinality(Revisions(w))
    IN  [k \in 1 .. n |-> superseded_at(w, nth(Revisions(w), n + 1 - k))]

superseded_states(w) ==
    [k \in 1 .. Cardinality(Revisions(w)) |->
        superseded_at(w, nth(Revisions(w), k))]

current_state(w) ==
    IF D!read_current(w) = NoRow THEN <<>> ELSE <<D!read_current(w).state>>

\* WatchNotFound ends the call.
assess_watch_health(p, w) ==
    /\ D!history_exists(definition_key(w), 1)
    /\ Start(p, "health_history", w, Nothing, Nothing, Nothing)
    /\ UNCHANGED <<domain, auxiliary, ordered>>

read_superseded(p) ==
    /\ AtStep(p, "health_history")
    /\ ordered' = [ordered EXCEPT ![p] =
                     Observations(superseded_states(task[p].watch))]
    /\ Goto(p, "health_current")
    /\ UNCHANGED <<domain, auxiliary>>

read_latest(p) ==
    /\ AtStep(p, "health_current")
    /\ ordered' = [ordered EXCEPT ![p] =
                     @ \o Observations(current_state(task[p].watch))]
    /\ Goto(p, "assess")
    /\ UNCHANGED <<domain, auxiliary>>

assess_scheduling(w) ==
    IF D!history_exists(schedule_key(w), 1) THEN "Healthy" ELSE "Unknown"

assess_execution(observations) == IF observations = <<>> THEN "Unknown" ELSE "Healthy"

assess_evidence(observations) ==
    CASE observations = <<>> -> "Unknown"
      [] observations # <<>> /\ ~resolves(observations[Len(observations)]) -> "Failed"
      [] observations # <<>> /\ resolves(observations[Len(observations)]) ->
           IF \A i \in 1 .. Len(observations) : resolves(observations[i])
             THEN "Healthy" ELSE "Degraded"

assess_change_detection(w, observations) ==
    IF Len(observations) < 2 THEN "TypeLevelReady"
    ELSE LET key == change_key(w, observations[Len(observations) - 1],
                                  observations[Len(observations)])
         IN  IF ~D!history_exists(key, 1) THEN "TypeLevelReady"
             ELSE IF resolve(key).kind = "Uncomparable"
                    THEN "ExercisedDegraded" ELSE "ExercisedHealthy"

\* The report of an assessment that read `observations'.
health_report(w, observations) ==
    [scheduling |-> assess_scheduling(w),
     execution |-> assess_execution(observations),
     evidence |-> assess_evidence(observations),
     change_detection |-> assess_change_detection(w, observations)]

\* What is left to read never changes once it is there.
return_report(p) ==
    /\ AtStep(p, "assess")
    /\ ordered' = [ordered EXCEPT ![p] = <<>>]
    /\ End(p)
    /\ UNCHANGED <<domain, auxiliary>>

HealthStep(p) == read_superseded(p) \/ read_latest(p) \/ return_report(p)

(***************************************************************************)
(* Every watch has been defined and scheduled (WatchSchedule covers how);  *)
(* runs, stops, failures, detections and assessments interleave from there.*)
(***************************************************************************)
InsightInit ==
    /\ fetches = [run \in Run |-> 0] /\ answers = {}
    /\ current = [key \in Key |-> IF key \in WatchId
                     THEN [revision |-> 1, state |-> Active(Nothing)] ELSE NoRow]
    /\ history = UNION {{[identity |-> definition_key(w), revision |-> 1,
                         state |-> Definition],
                        [identity |-> schedule_key(w), revision |-> 1,
                         state |-> Schedule]} : w \in WatchId}
    /\ op = [p \in Process |-> NoOp]
    /\ trail = [w \in WatchId |-> <<Active(Nothing)>>]
    /\ lost = {}
    /\ task = [p \in Process |-> NoTask]
    /\ ordered = [p \in Process |-> <<>>]

InsightNext ==
    \E p \in Process :
        \/ Progress(p) /\ UNCHANGED ordered
        \/ DetectStep(p) \/ HealthStep(p)
        \/ /\ Failure(p) /\ ordered' = [ordered EXCEPT ![p] = <<>>]
           /\ UNCHANGED auxiliary
        \/ \E w \in WatchId :
             \/ /\ apply_watch_transition(p, w, StopWatch)
                /\ UNCHANGED <<auxiliary, ordered>>
             \/ \E tick \in Tick : execute_scheduled_watch_run(p, w, tick)
                                  /\ UNCHANGED ordered
             \/ \E e \in Evidence : \E f \in Evidence \ {e} :
                  detect_and_record_change(p, w, e, f)
             \/ assess_watch_health(p, w)

InsightSpec == InsightInit /\ [][InsightNext]_insightVars

----------------------------------------------------------------------------
\* The evidence a watch was ever associated with, from the auxiliary trail.
Observed(w) ==
    {last_evidence(trail[w][r]) : r \in 1 .. Len(trail[w])} \ {Nothing}

\* A change event relates two pieces of evidence of that very watch, and its
\* verdict is the truth about them: `Unchanged' is said of equal hashes of
\* the same kind only, `Changed' of different hashes of the same kind only --
\* however the detection interleaved with transitions, other detections and
\* the recording of the evidence.
ChangeEventIsTruthful ==
    \A w \in WatchId, e, f \in Evidence :
        D!history_exists(change_key(w, e, f), 1) =>
            LET verdict == resolve(change_key(w, e, f)).kind
                before == resolve(e)
                after == resolve(f)
            IN  /\ e \in Observed(w) /\ f \in Observed(w)
                /\ verdict = "Unchanged" <=> before = after /\ comparable(after)
                /\ verdict = "Changed" <=>
                     /\ before.kind = after.kind /\ comparable(after)
                     /\ before.value # after.value

\* The report an assessment is about to return.
Report(p) == health_report(task[p].watch, ordered[p])

\* An assessment sees the observations in the order they happened and each at
\* most once per state of the watch, whatever order the superseded states
\* were appended in and whatever the watch did between the two reads.
HealthOrderIsTruthful ==
    \A p \in Process : AtStep(p, "assess") =>
        LET past == trail[task[p].watch]
        IN  \A i, j \in 1 .. Len(ordered[p]) : i < j =>
              \E r, s \in 1 .. Len(past) :
                 /\ r < s
                 /\ last_evidence(past[r]) = ordered[p][i]
                 /\ last_evidence(past[s]) = ordered[p][j]

\* What the documentation says of readiness: production is exercised when an
\* event is recorded for the most recent consecutive evidence pair.  The pair
\* is read off the observations of the trail, once no call is in progress and
\* no record was lost.
ReadinessMatchesLastPair ==
    (\A p \in Process : Idle(p)) /\ lost = {} =>
        \A w \in WatchId :
            LET observed_states == SelectSeq(trail[w],
                    LAMBDA s : s.kind = "Active" /\ s.value # Nothing)
                n == Len(observed_states)
                reported == health_report(w,
                    Observations(superseded_states(w) \o current_state(w)))
            IN  n >= 2 /\ D!history_exists(change_key(w,
                    observed_states[n - 1].value, observed_states[n].value), 1) =>
                  reported.change_detection # "TypeLevelReady"

============================================================================
