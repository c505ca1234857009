-------------------------- MODULE ResearchSession --------------------------
(***************************************************************************)
(* Durable research runs (spider/src/features/research_session.rs).  A run *)
(* claims a fresh identity before it searches, acquires pages through an   *)
(* acquirer that records each page as durable evidence                     *)
(* (agent_acquisition.rs), and ends by binding the successful extractions  *)
(* as Source 1, Source 2, ..., turning the engine's result                 *)
(* (spider_agent/src/agent.rs, research) into a durable one and writing it *)
(* over the claim.  A run that fails or dies leaves its claim.             *)
(*                                                                         *)
(* The data of a page, an extraction and a summary is left out: what       *)
(* matters is which evidence each of them stands on.                       *)
(***************************************************************************)
EXTENDS DomainPersistence, FiniteSets, Sequences, SequencesExt

CONSTANTS
    Research,     \* research runs: each has the fresh identity it claims
    Evidence,     \* evidence identities
    Bundle,       \* the payload of a recorded evidence
    NoResult,     \* no runtime result, or no durable result
    MaxPages,     \* ResearchOptions::max_pages
    MaxCited      \* bound on the citations a model returns

ASSUME PagesAssumption == MaxPages \in Nat \ {0} /\ MaxCited \in Nat
ASSUME IdentityAssumption ==
    Identity = Research \cup Evidence /\ Research \cap Evidence = {}

VARIABLES
    step,         \* where each run stands
    results,      \* search results not tried yet
    retained,     \* the acquirer's retained evidence, in acquisition order
    extractions,  \* evidence of the successful extractions, in order
    runtime,      \* what the engine returned
    session       \* the terminal record the run is about to write

researchVars == <<current, history, step, results, retained, extractions,
                  runtime, session>>

engine == <<results, retained, extractions, runtime>>

\* The states that carry a durable result, and those with a synthesis.
Synthesized == {"CompletedSuccessfully", "CompletedSynthesisInsufficient"}
WithResult == Synthesized \cup {"CompletedWithoutSynthesisRequested",
                                "CompletedSynthesisFailed"}
ResearchSessionState == WithResult \cup
    {"Claimed", "SearchFailed", "CompletedNoSearchResults",
     "CompletedNoObservedAcquisitions", "CompletedNoExtractions"}

\* A numbered source, a durable result and the record of a session.
Binding == [source_number : Nat \ {0}, evidence : Evidence]

Result == [extractions : Seq(Binding), synthesis : Seq(Binding) \cup {NoResult}]

Session ==
    [state : ResearchSessionState,
     sources : Seq([evidence : Evidence, extracted : BOOLEAN]),
     source_bindings : Seq(Binding),
     successful_extractions : Nat,
     result : Result \cup {NoResult}]

\* What the engine hands back.
Runtime ==
    [found : BOOLEAN, backend_failure : BOOLEAN,
     synthesis_sufficient : {"none", "yes", "no"},
     synthesis_source_ids : Seq(Nat)]

\* An absent row or result is told from every present one.
ASSUME AbsenceAssumption ==
    /\ NoRow \notin [revision : Nat, state : Session]
    /\ NoResult \notin Runtime /\ NoResult \notin Result
    /\ NoResult \notin Seq(Binding)

ClaimedSession ==
    [state |-> "Claimed", sources |-> <<>>, source_bindings |-> <<>>,
     successful_extractions |-> 0, result |-> NoResult]

ResearchInit ==
    /\ StoreInit
    /\ step = [r \in Research |-> "idle"]
    /\ results = [r \in Research |-> 0]
    /\ retained = [r \in Research |-> <<>>]
    /\ extractions = [r \in Research |-> <<>>]
    /\ runtime = [r \in Research |-> NoResult]
    /\ session = [r \in Research |-> ClaimedSession]

Goto(r, label) == step' = [step EXCEPT ![r] = label]

----------------------------------------------------------------------------
(***************************************************************************)
(* claim_durable_research: persist_claim writes and appends the claim.     *)
(***************************************************************************)
claim_durable_research(r) ==
    /\ step[r] = "idle"
    /\ write_current(r, 0, ClaimedSession)
    /\ Goto(r, "append_claim")
    /\ UNCHANGED <<engine, session>>

append_claim(r) ==
    /\ step[r] = "append_claim"
    /\ append_history(r, 1, ClaimedSession)
    /\ Goto(r, "search")
    /\ UNCHANGED <<engine, session>>

(***************************************************************************)
(* Agent::research.  A search fails, finds nothing (with or without a      *)
(* failing backend), or finds some results; one fallback search is part of *)
(* the same step.                                                          *)
(***************************************************************************)
\* Plausible bug: the search is started before the claim is written.
search_unclaimed(r) ==
    /\ step[r] \in {"idle", "search"}
    /\ results' = [results EXCEPT ![r] = MaxPages]
    /\ Goto(r, "acquire")
    /\ UNCHANGED <<store, retained, extractions, runtime, session>>

EngineResult(found, failure, sufficient, cited) ==
    [found |-> found, backend_failure |-> failure,
     synthesis_sufficient |-> sufficient, synthesis_source_ids |-> cited]

search(r) ==
    /\ step[r] = "search"
    /\ \/ /\ \E n \in 1 .. MaxPages : results' = [results EXCEPT ![r] = n]
          /\ Goto(r, "acquire") /\ UNCHANGED runtime
       \/ /\ \E failure \in BOOLEAN : runtime' = [runtime EXCEPT ![r] =
                 EngineResult(FALSE, failure, "none", <<>>)]
          /\ Goto(r, "bind") /\ UNCHANGED results
       \/ Goto(r, "bind") /\ UNCHANGED <<results, runtime>>
    /\ UNCHANGED <<store, retained, extractions, session>>

\* One search result is tried in vain: nothing is retained.
acquire_fails(r) ==
    /\ step[r] = "acquire" /\ results[r] > 0
    /\ results' = [results EXCEPT ![r] = @ - 1]
    /\ UNCHANGED <<store, step, retained, extractions, runtime, session>>

\* The durable acquirer: the page is recorded under a fresh identity, and
\* retained once that record exists.
record_and_retain(r, e, observed) ==
    /\ append_history(e, 1, Bundle)
    /\ retained' = [retained EXCEPT ![r] =
         Append(@, [evidence |-> e, observed |-> observed])]

\* The status of an acquired page, its content or the model may still deny an
\* extraction; a page without a real response never yields one.
acquire(r, e) ==
    /\ step[r] = "acquire" /\ results[r] > 0
    /\ \E observed \in BOOLEAN :
         /\ record_and_retain(r, e, observed)
         /\ \/ UNCHANGED extractions
            \/ observed /\ extractions' = [extractions EXCEPT ![r] = Append(@, e)]
    /\ results' = [results EXCEPT ![r] = @ - 1]
    /\ UNCHANGED <<step, runtime, session>>

\* validate_research_synthesis: the labels are canonical, known, and there is
\* one when the evidence is found sufficient; one label may be there twice.
Citations(r) == SeqOf(1 .. Len(extractions[r]), MaxCited)

research_returns(r) ==
    /\ step[r] = "acquire" /\ results[r] = 0
    /\ \E sufficient \in {"none", "yes", "no"}, cited \in Citations(r) :
         /\ sufficient # "none" => extractions[r] # <<>>
         /\ sufficient = "none" => cited = <<>>
         /\ sufficient = "yes" => cited # <<>>
         /\ runtime' = [runtime EXCEPT ![r] =
              EngineResult(TRUE, FALSE, sufficient, cited)]
    /\ Goto(r, "bind")
    /\ UNCHANGED <<store, results, retained, extractions, session>>

----------------------------------------------------------------------------
(***************************************************************************)
(* finalize_claimed.                                                       *)
(***************************************************************************)
resolves(e) == history_exists(e, 1)

\* Plausible bug: Source N counts the acquisitions, not the extractions.
number_acquisitions(r) ==
    [n \in 1 .. Len(extractions[r]) |->
        [source_number |-> n, evidence |-> retained[r][n].evidence]]

\* bind_sources: Source N is the N-th successful extraction.
source_bindings(r) ==
    [n \in 1 .. Len(extractions[r]) |->
        [source_number |-> n, evidence |-> extractions[r][n]]]

\* bind_sources fails unless all it refers to was retained and resolves.
bindable(r) ==
    /\ \A n \in 1 .. Len(extractions[r]) :
         \E record \in Range(retained[r]) : record.evidence = extractions[r][n]
    /\ \A record \in Range(retained[r]) : resolves(record.evidence)

sources(r) ==
    [i \in 1 .. Len(retained[r]) |->
        [evidence |-> retained[r][i].evidence,
         extracted |-> retained[r][i].evidence \in Range(extractions[r])]]

observed_acquisitions(r) ==
    Cardinality({i \in 1 .. Len(retained[r]) : retained[r][i].observed})

terminal_state(r, synthesize) ==
    LET result == runtime[r]
    IN CASE result = NoResult -> "SearchFailed"
         [] result # NoResult /\ ~result.found ->
              IF result.backend_failure THEN "SearchFailed"
                                        ELSE "CompletedNoSearchResults"
         [] result # NoResult /\ result.found /\ extractions[r] = <<>> ->
              IF observed_acquisitions(r) = 0
                THEN "CompletedNoObservedAcquisitions"
                ELSE "CompletedNoExtractions"
         [] OTHER ->
              IF ~synthesize THEN "CompletedWithoutSynthesisRequested"
              ELSE CASE result.synthesis_sufficient = "yes" ->
                          "CompletedSuccessfully"
                     [] result.synthesis_sufficient = "no" ->
                          "CompletedSynthesisInsufficient"
                     [] OTHER -> "CompletedSynthesisFailed"

\* Plausible bug: a label cited twice is not refused.
result_buildable_twice(r, state) == TRUE

\* The errors of build_durable_result that its inputs can cause.
result_buildable(r, state) ==
    IF state \in Synthesized
      THEN IsInjective(runtime[r].synthesis_source_ids)
      ELSE state \in WithResult => runtime[r].synthesis_sufficient = "none"

build_durable_result(r, state) ==
    IF state \notin WithResult THEN NoResult
    ELSE [extractions |-> source_bindings(r),
          synthesis |->
            IF state \notin Synthesized THEN NoResult
            ELSE LET cited == runtime[r].synthesis_source_ids
                 IN  [i \in 1 .. Len(cited) |-> source_bindings(r)[cited[i]]]]

\* validate_session_result, the check of its own every write makes.
validate_session_result(s) ==
    /\ s.state \in WithResult <=> s.result # NoResult
    /\ s.result # NoResult =>
         /\ s.result.extractions # <<>>
         /\ Len(s.result.extractions) = s.successful_extractions
         /\ s.result.extractions = s.source_bindings
         /\ \A n \in 1 .. Len(s.source_bindings) :
              s.source_bindings[n].source_number = n
         /\ s.state \in Synthesized <=> s.result.synthesis # NoResult
         /\ s.result.synthesis # NoResult =>
              LET citations == s.result.synthesis
              IN  /\ IsInjective([i \in 1 .. Len(citations) |->
                                    citations[i].source_number])
                  /\ Range(citations) \subseteq Range(s.source_bindings)
                  /\ s.state = "CompletedSuccessfully" => citations # <<>>

\* `synthesize' is the caller's option; the engine synthesizes only if asked.
finalize_claimed(r) ==
    /\ step[r] = "bind"
    /\ \E synthesize \in BOOLEAN :
         LET state == terminal_state(r, synthesize)
             terminal == [state |-> state,
                          sources |-> sources(r),
                          source_bindings |-> source_bindings(r),
                          successful_extractions |-> Len(extractions[r]),
                          result |-> build_durable_result(r, state)]
         IN  /\ ~synthesize /\ runtime[r] # NoResult =>
                   runtime[r].synthesis_sufficient = "none"
             /\ IF bindable(r) /\ result_buildable(r, state)
                  THEN Goto(r, "persist") /\ session' = [session EXCEPT ![r] = terminal]
                  ELSE Goto(r, "failed") /\ UNCHANGED session
    /\ UNCHANGED <<store, engine>>

\* persist_terminal: validated, written over the claim, then appended.
persist_terminal(r) ==
    /\ step[r] = "persist"
    /\ IF validate_session_result(session[r])
         THEN write_current(r, 1, session[r]) /\ Goto(r, "append_terminal")
         ELSE Goto(r, "failed") /\ UNCHANGED store
    /\ UNCHANGED <<engine, session>>

append_terminal(r) ==
    /\ step[r] = "append_terminal"
    /\ append_history(r, 2, session[r])
    /\ Goto(r, "done")
    /\ UNCHANGED <<engine, session>>

\* A store call fails, or the process dies: the run ends where it stands.
run_ends(r) ==
    /\ step[r] \notin {"idle", "done", "failed"}
    /\ Goto(r, "failed")
    /\ UNCHANGED <<store, engine, session>>

ResearchNext ==
    \E r \in Research :
        \/ claim_durable_research(r) \/ append_claim(r) \/ search(r)
        \/ acquire_fails(r) \/ (\E e \in Evidence : acquire(r, e))
        \/ research_returns(r) \/ finalize_claimed(r)
        \/ persist_terminal(r) \/ append_terminal(r) \/ run_ends(r)

ResearchSpec == ResearchInit /\ [][ResearchNext]_researchVars

----------------------------------------------------------------------------
\* No side effect without a durable claim: whenever a run has recorded
\* evidence, its claim is in the history and its current row exists, however
\* the run ended.
ClaimPrecedesEffects ==
    \A r \in Research : retained[r] # <<>> =>
        /\ [identity |-> r, revision |-> 1, state |-> ClaimedSession] \in history
        /\ read_current(r) # NoRow

\* What a published session stands on: its sources are exactly the evidence
\* this run acquired and every one resolves, no source belongs to a second
\* session, and Source N, in the extractions and in each citation, is the
\* evidence of the N-th extraction the engine showed to the model -- also
\* when acquisitions in between yielded no extraction.
PublishedSourcesAreOwn ==
    \A r \in Research :
        LET row == read_current(r)
        IN  row # NoRow /\ row.state.state # "Claimed" =>
              /\ \A i \in 1 .. Len(row.state.sources) :
                   /\ row.state.sources[i].evidence = retained[r][i].evidence
                   /\ resolves(row.state.sources[i].evidence)
                   /\ \A q \in Research \ {r} : \A record \in Range(retained[q]) :
                        record.evidence # row.state.sources[i].evidence
              /\ row.state.result # NoResult =>
                   /\ [n \in 1 .. Len(extractions[r]) |->
                         row.state.result.extractions[n].evidence] = extractions[r]
                   /\ row.state.result.synthesis # NoResult =>
                        \A i \in 1 .. Len(row.state.result.synthesis) :
                            row.state.result.synthesis[i].evidence =
                              extractions[r][runtime[r].synthesis_source_ids[i]]

\* The two checks agree: whatever build_durable_result lets through,
\* validate_session_result accepts, so no run fails at its last write.
BuiltResultsAreValid ==
    \A r \in Research :
        step[r] = "persist" => validate_session_result(session[r])

============================================================================
