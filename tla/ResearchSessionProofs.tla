----------------------- MODULE ResearchSessionProofs -----------------------
(***************************************************************************)
(* Durable research for any number of runs and pages: what a run acquires   *)
(* stands on a claim, and what it publishes stands on what it acquired.     *)
(***************************************************************************)
EXTENDS ResearchSession, SequenceTheorems, TLAPS

\* The types the argument needs.
ResearchTypes ==
    /\ \A r \in Research :
          current[r] \in [revision : Nat, state : Session] \cup {NoRow}
    /\ DOMAIN current = Identity
    /\ step \in [Research -> {"idle", "append_claim", "search", "acquire", "bind",
                             "persist", "append_terminal", "done", "failed"}]
    /\ retained \in [Research -> Seq([evidence : Evidence, observed : BOOLEAN])]
    /\ extractions \in [Research -> Seq(Evidence)]
    /\ runtime \in [Research -> Runtime \cup {NoResult}]
    /\ session \in [Research -> Session]

ClaimRow(r) == [identity |-> r, revision |-> 1, state |-> ClaimedSession]

\* A run acquires nothing before its claim is in both tables, where it stays,
\* in the current one under whatever is written over it.
ClaimStands ==
    \A r \in Research :
        /\ step[r] \in {"idle", "append_claim", "search"} => retained[r] = <<>>
        /\ step[r] \notin {"idle", "failed"} => read_current(r) # NoRow
        /\ step[r] \notin {"idle", "append_claim", "failed"} => ClaimRow(r) \in history
        /\ retained[r] # <<>> => ClaimRow(r) \in history /\ read_current(r) # NoRow

\* What a run retained is recorded, under an identity no other run retained.
EvidenceStands ==
    \A r \in Research : \A i \in 1 .. Len(retained[r]) :
        /\ resolves(retained[r][i].evidence)
        /\ \A q \in Research \ {r} : \A j \in 1 .. Len(retained[q]) :
              retained[q][j].evidence # retained[r][i].evidence

\* What the engine returned cites extractions it has, and a synthesis has some.
RuntimeStands ==
    \A r \in Research : runtime[r] # NoResult =>
        /\ step[r] \notin {"idle", "append_claim", "search", "acquire"}
        /\ runtime[r].synthesis_source_ids \in Seq(1 .. Len(extractions[r]))
        /\ runtime[r].synthesis_sufficient = "yes" =>
              runtime[r].synthesis_source_ids # <<>>

\* The synthesis of a run: the bindings of the labels the model cited.
CitedBindings(r) ==
    [i \in 1 .. Len(runtime[r].synthesis_source_ids) |->
        source_bindings(r)[runtime[r].synthesis_source_ids[i]]]

\* A session record that says what its run did.
Truthful(r, s) ==
    /\ s.sources = sources(r)
    /\ s.result # NoResult =>
          /\ s.result.extractions = source_bindings(r)
          /\ s.result.synthesis # NoResult =>
                runtime[r] # NoResult /\ s.result.synthesis = CitedBindings(r)

\* The record a run is about to write is truthful and valid, and so stays what
\* it wrote: nothing is acquired any more.
SessionStands ==
    \A r \in Research :
        /\ step[r] = "persist" => /\ Truthful(r, session[r])
                                  /\ validate_session_result(session[r])
        /\ read_current(r) # NoRow =>
              \/ read_current(r).state = ClaimedSession
              \/ /\ step[r] \in {"append_terminal", "done", "failed"}
                 /\ Truthful(r, read_current(r).state)

ResearchInv ==
    /\ ResearchTypes
    /\ ClaimStands
    /\ EvidenceStands
    /\ RuntimeStands
    /\ SessionStands

----------------------------------------------------------------------------
(* The operators of finalize_claimed.                                      *)

\* The record finalize_claimed builds.
TerminalRecord(r, state) ==
    [state |-> state,
     sources |-> sources(r),
     source_bindings |-> source_bindings(r),
     successful_extractions |-> Len(extractions[r]),
     result |-> build_durable_result(r, state)]

\* A sequence given by its elements.
LEMMA SequenceOf ==
    ASSUME NEW S, NEW n \in Nat, NEW f \in [1 .. n -> S]
    PROVE  f \in Seq(S) /\ Len(f) = n
  BY SeqDef, LenProperties

\* Every acquisition is a source.
LEMMA SourcesType ==
    ASSUME ResearchTypes, NEW r \in Research
    PROVE  /\ sources(r) \in Seq([evidence : Evidence, extracted : BOOLEAN])
           /\ Len(sources(r)) = Len(retained[r])
           /\ \A i \in 1 .. Len(retained[r]) :
                 sources(r)[i].evidence = retained[r][i].evidence
  <1>1. Len(retained[r]) \in Nat
    BY DEF ResearchTypes
  <1>2. \A i \in 1 .. Len(retained[r]) : retained[r][i].evidence \in Evidence
    <2>1. retained[r] \in Seq([evidence : Evidence, observed : BOOLEAN])
      BY DEF ResearchTypes
    <2>2. \A i \in 1 .. Len(retained[r]) :
             retained[r][i] \in [evidence : Evidence, observed : BOOLEAN]
      BY <2>1, ElementOfSeq
    <2>. QED BY <2>2
  <1>3. \A i \in 1 .. Len(retained[r]) :
           /\ sources(r)[i] \in [evidence : Evidence, extracted : BOOLEAN]
           /\ sources(r)[i].evidence = retained[r][i].evidence
    BY <1>2 DEF sources
  <1>4. sources(r) \in [1 .. Len(retained[r]) -> [evidence : Evidence, extracted : BOOLEAN]]
    BY <1>2 DEF sources
  <1>. QED BY <1>1, <1>3, <1>4, SequenceOf

\* Source N is the N-th extraction.
LEMMA BindingsType ==
    ASSUME ResearchTypes, NEW r \in Research
    PROVE  /\ source_bindings(r) \in Seq(Binding)
           /\ Len(source_bindings(r)) = Len(extractions[r])
           /\ Len(extractions[r]) \in Nat
           /\ \A n \in 1 .. Len(extractions[r]) :
                 /\ source_bindings(r)[n].source_number = n
                 /\ source_bindings(r)[n].evidence = extractions[r][n]
  <1>1. Len(extractions[r]) \in Nat
    BY DEF ResearchTypes
  <1>2. \A n \in 1 .. Len(extractions[r]) : extractions[r][n] \in Evidence
    BY DEF ResearchTypes
  <1>3. \A n \in 1 .. Len(extractions[r]) :
           /\ source_bindings(r)[n] = [source_number |-> n, evidence |-> extractions[r][n]]
           /\ source_bindings(r)[n] \in Binding
    BY <1>1, <1>2 DEF source_bindings, Binding
  <1>4. source_bindings(r) \in [1 .. Len(extractions[r]) -> Binding]
    BY <1>1, <1>2 DEF source_bindings, Binding
  <1>5. source_bindings(r) \in Seq(Binding) /\ Len(source_bindings(r)) = Len(extractions[r])
    BY <1>1, <1>4, SequenceOf
  <1>6. \A n \in 1 .. Len(extractions[r]) :
           /\ source_bindings(r)[n].source_number = n
           /\ source_bindings(r)[n].evidence = extractions[r][n]
    <2> TAKE n \in 1 .. Len(extractions[r])
    <2>1. source_bindings(r)[n] = [source_number |-> n, evidence |-> extractions[r][n]]
      BY <1>3
    <2>. QED BY <2>1
  <1>. QED BY <1>1, <1>5, <1>6

\* A citation is the binding of a label the model returned.
LEMMA CitedType ==
    ASSUME ResearchTypes, RuntimeStands, NEW r \in Research, runtime[r] # NoResult
    PROVE  /\ CitedBindings(r) \in Seq(Binding)
           /\ Len(CitedBindings(r)) = Len(runtime[r].synthesis_source_ids)
           /\ \A i \in 1 .. Len(runtime[r].synthesis_source_ids) :
                 LET label == runtime[r].synthesis_source_ids[i]
                 IN  /\ label \in 1 .. Len(extractions[r])
                     /\ CitedBindings(r)[i] = source_bindings(r)[label]
                     /\ CitedBindings(r)[i].source_number = label
  <1> DEFINE ids == runtime[r].synthesis_source_ids
  <1>1. ids \in Seq(1 .. Len(extractions[r])) /\ Len(ids) \in Nat
    BY DEF RuntimeStands
  <1>2. \A i \in 1 .. Len(ids) : ids[i] \in 1 .. Len(extractions[r])
    BY <1>1
  <1>3. \A n \in 1 .. Len(extractions[r]) : source_bindings(r)[n] \in Binding
    BY BindingsType
  <1>4. \A i \in 1 .. Len(ids) :
           /\ CitedBindings(r)[i] = source_bindings(r)[ids[i]]
           /\ CitedBindings(r)[i] \in Binding
           /\ CitedBindings(r)[i].source_number = ids[i]
    <2>1. \A i \in 1 .. Len(ids) : CitedBindings(r)[i] = source_bindings(r)[ids[i]]
      BY DEF CitedBindings
    <2>. QED BY <1>2, <1>3, <2>1, BindingsType
  <1>5. CitedBindings(r) \in [1 .. Len(ids) -> Binding]
    BY <1>2, <1>3 DEF CitedBindings
  <1>. QED BY <1>1, <1>2, <1>4, <1>5, SequenceOf

\* A state with a result means that extractions were made; one with a
\* synthesis, that the engine returned one.
LEMMA TerminalStates ==
    ASSUME ResearchTypes, NEW r \in Research, NEW synthesize \in BOOLEAN,
           NEW state, state = terminal_state(r, synthesize)
    PROVE  /\ state \in ResearchSessionState /\ state # "Claimed"
           /\ state \in WithResult => runtime[r] # NoResult /\ extractions[r] # <<>>
           /\ state = "CompletedSuccessfully" => runtime[r].synthesis_sufficient = "yes"
  <1>1. CASE runtime[r] = NoResult
    BY <1>1 DEF terminal_state, ResearchSessionState, WithResult, Synthesized
  <1>2. CASE runtime[r] # NoResult /\ ~runtime[r].found
    BY <1>2 DEF terminal_state, ResearchSessionState, WithResult, Synthesized
  <1>3. CASE runtime[r] # NoResult /\ runtime[r].found /\ extractions[r] = <<>>
    BY <1>3 DEF terminal_state, ResearchSessionState, WithResult, Synthesized
  <1>4. CASE runtime[r] # NoResult /\ runtime[r].found /\ extractions[r] # <<>>
    BY <1>4 DEF terminal_state, ResearchSessionState, WithResult, Synthesized
  <1>. QED BY <1>1, <1>2, <1>3, <1>4

\* What build_durable_result lets through is a truthful record that
\* validate_session_result accepts.
LEMMA BuiltRecord ==
    ASSUME ResearchTypes, RuntimeStands, NEW r \in Research, NEW synthesize \in BOOLEAN,
           NEW state, state = terminal_state(r, synthesize), result_buildable(r, state)
    PROVE  /\ TerminalRecord(r, state) \in Session
           /\ TerminalRecord(r, state) # ClaimedSession
           /\ Truthful(r, TerminalRecord(r, state))
           /\ validate_session_result(TerminalRecord(r, state))
  <1> DEFINE ids == runtime[r].synthesis_source_ids
             result == build_durable_result(r, state)
             synthesis == IF state \in Synthesized THEN CitedBindings(r) ELSE NoResult
  <1>1. /\ state \in ResearchSessionState /\ state # "Claimed"
        /\ state \in WithResult => runtime[r] # NoResult /\ extractions[r] # <<>>
        /\ state = "CompletedSuccessfully" => runtime[r].synthesis_sufficient = "yes"
    BY TerminalStates
  <1>2. Synthesized \subseteq WithResult
    BY DEF WithResult
  <1>3. /\ source_bindings(r) \in Seq(Binding)
        /\ Len(source_bindings(r)) = Len(extractions[r]) /\ Len(extractions[r]) \in Nat
        /\ \A n \in 1 .. Len(extractions[r]) : source_bindings(r)[n].source_number = n
    BY BindingsType
  <1>4. result = IF state \in WithResult
                 THEN [extractions |-> source_bindings(r), synthesis |-> synthesis]
                 ELSE NoResult
    BY DEF build_durable_result, CitedBindings
  <1>5. ASSUME state \in Synthesized
        PROVE  /\ CitedBindings(r) \in Seq(Binding) /\ CitedBindings(r) # NoResult
               /\ IsInjective([i \in 1 .. Len(CitedBindings(r)) |->
                                 CitedBindings(r)[i].source_number])
               /\ Range(CitedBindings(r)) \subseteq Range(source_bindings(r))
               /\ state = "CompletedSuccessfully" => CitedBindings(r) # <<>>
    <2>0. runtime[r] # NoResult
      BY <1>1, <1>2, <1>5
    <2>1. /\ CitedBindings(r) \in Seq(Binding)
          /\ Len(CitedBindings(r)) = Len(ids)
          /\ \A i \in 1 .. Len(ids) :
                /\ ids[i] \in 1 .. Len(extractions[r])
                /\ CitedBindings(r)[i] = source_bindings(r)[ids[i]]
                /\ CitedBindings(r)[i].source_number = ids[i]
      BY <2>0, CitedType
    <2>2. DOMAIN ids = 1 .. Len(ids) /\ DOMAIN CitedBindings(r) = 1 .. Len(ids)
      BY <2>0, <2>1, LenProperties DEF RuntimeStands
    <2>3. IsInjective(ids)
      BY <1>5 DEF result_buildable
    <2>4. IsInjective([i \in 1 .. Len(CitedBindings(r)) |->
                         CitedBindings(r)[i].source_number])
      BY <2>1, <2>2, <2>3 DEF IsInjective
    <2>5. DOMAIN source_bindings(r) = 1 .. Len(extractions[r])
      BY <1>3, LenProperties
    <2>6. Range(CitedBindings(r)) \subseteq Range(source_bindings(r))
      BY <2>1, <2>2, <2>5 DEF Range
    <2>7. ASSUME state = "CompletedSuccessfully" PROVE CitedBindings(r) # <<>>
      <3>1. ids # <<>> /\ ids \in Seq(1 .. Len(extractions[r]))
        BY <1>1, <2>0, <2>7 DEF RuntimeStands
      <3>2. Len(ids) # 0
        BY <3>1, EmptySeq
      <3>. QED BY <2>1, <3>2, EmptySeq
    <2>. QED BY <2>1, <2>4, <2>6, <2>7, AbsenceAssumption
  <1>6. result \in Result \cup {NoResult}
    BY <1>3, <1>4, <1>5 DEF Result
  <1>7. state \in WithResult => result # NoResult
    BY <1>3, <1>4, <1>5, AbsenceAssumption DEF Result
  <1>8. TerminalRecord(r, state) \in Session
    BY <1>1, <1>3, <1>6, SourcesType DEF TerminalRecord, Session
  <1>9. TerminalRecord(r, state) # ClaimedSession
    <2>1. TerminalRecord(r, state).state # ClaimedSession.state
      BY <1>1 DEF TerminalRecord, ClaimedSession
    <2>. QED BY <2>1
  <1>10. Truthful(r, TerminalRecord(r, state))
    <2>1. result # NoResult => state \in WithResult
      BY <1>4
    <2>2. state \in WithResult =>
             /\ result.extractions = source_bindings(r) /\ runtime[r] # NoResult
             /\ result.synthesis # NoResult => result.synthesis = CitedBindings(r)
      BY <1>1, <1>4
    <2>. QED BY <2>1, <2>2 DEF Truthful, TerminalRecord
  <1>11. validate_session_result(TerminalRecord(r, state))
    <2>1. CASE state \notin WithResult
      BY <1>4, <2>1 DEF validate_session_result, TerminalRecord
    <2>2. CASE state \in WithResult
      <3>1. source_bindings(r) # <<>>
        <4>1. extractions[r] # <<>> /\ extractions[r] \in Seq(Evidence)
          BY <1>1, <2>2 DEF ResearchTypes
        <4>2. Len(extractions[r]) # 0
          BY <4>1, EmptySeq
        <4>. QED BY <1>3, <4>2, EmptySeq
      <3>2. /\ result.extractions = source_bindings(r) /\ result.synthesis = synthesis
            /\ result # NoResult
        BY <1>4, <1>7, <2>2
      <3>3. state \in Synthesized <=> synthesis # NoResult
        BY <1>5
      <3>. QED
        BY <1>2, <1>3, <1>5, <2>2, <3>1, <3>2, <3>3
        DEF validate_session_result, TerminalRecord
    <2>. QED BY <2>1, <2>2
  <1>. QED BY <1>8, <1>9, <1>10, <1>11

----------------------------------------------------------------------------
(* The steps of a run.                                                     *)

RunStep(r) ==
    \/ claim_durable_research(r) \/ append_claim(r) \/ search(r)
    \/ acquire_fails(r) \/ (\E e \in Evidence : acquire(r, e))
    \/ research_returns(r) \/ finalize_claimed(r)
    \/ persist_terminal(r) \/ append_terminal(r) \/ run_ends(r)

\* finalize_claimed ends with a record that is truthful and valid, or fails.
LEMMA FinalizeEffect ==
    ASSUME ResearchTypes, RuntimeStands, NEW r \in Research, finalize_claimed(r)
    PROVE  /\ step[r] = "bind" /\ UNCHANGED <<store, engine>>
           /\ \/ /\ step' = [step EXCEPT ![r] = "failed"] /\ session' = session
              \/ /\ step' = [step EXCEPT ![r] = "persist"]
                 /\ \E s \in Session :
                       /\ session' = [session EXCEPT ![r] = s]
                       /\ Truthful(r, s) /\ validate_session_result(s)
  <1>1. PICK synthesize \in BOOLEAN :
            LET state == terminal_state(r, synthesize)
            IN  IF bindable(r) /\ result_buildable(r, state)
                THEN /\ Goto(r, "persist")
                     /\ session' = [session EXCEPT ![r] = TerminalRecord(r, state)]
                ELSE Goto(r, "failed") /\ UNCHANGED session
    BY DEF finalize_claimed, TerminalRecord
  <1> DEFINE state == terminal_state(r, synthesize)
  <1>2. result_buildable(r, state) =>
           /\ TerminalRecord(r, state) \in Session
           /\ Truthful(r, TerminalRecord(r, state))
           /\ validate_session_result(TerminalRecord(r, state))
    BY BuiltRecord
  <1>3. step[r] = "bind" /\ UNCHANGED <<store, engine>>
    BY DEF finalize_claimed
  <1>. QED BY <1>1, <1>2, <1>3 DEF Goto

\* What persist_terminal does with a valid record.
LEMMA PersistEffect ==
    ASSUME SessionStands, NEW r \in Research, persist_terminal(r)
    PROVE  /\ step[r] = "persist" /\ UNCHANGED <<history, engine, session>>
           /\ step' = [step EXCEPT ![r] = "append_terminal"]
           /\ current' = [current EXCEPT ![r] = [revision |-> 2, state |-> session[r]]]
           /\ Truthful(r, session[r])
  BY DEF persist_terminal, SessionStands, write_current, Goto

\* The claim as a record and as a row.
LEMMA ClaimType ==
    /\ ClaimedSession \in Session
    /\ [revision |-> 1, state |-> ClaimedSession] # NoRow
    /\ \A s \in Session : [revision |-> 2, state |-> s] # NoRow
  <1>1. ClaimedSession \in Session
    BY EmptySeq DEF ClaimedSession, Session, ResearchSessionState
  <1>2. \A n \in Nat, s \in Session : [revision |-> n, state |-> s] # NoRow
    BY AbsenceAssumption
  <1>. QED BY <1>1, <1>2

\* A step of a run leaves the other runs alone, and takes nothing from a table.
LEMMA OthersKept ==
    ASSUME ResearchTypes, NEW r \in Research, RunStep(r)
    PROVE  /\ history \subseteq history'
           /\ \A q \in Research \ {r} :
                 /\ step'[q] = step[q] /\ retained'[q] = retained[q]
                 /\ extractions'[q] = extractions[q] /\ runtime'[q] = runtime[q]
                 /\ session'[q] = session[q] /\ current'[q] = current[q]
  BY IdentityAssumption
  DEF RunStep, claim_durable_research, append_claim, search, acquire_fails, acquire,
      record_and_retain, research_returns, finalize_claimed, persist_terminal,
      append_terminal, run_ends, write_current, append_history, Goto, engine, store,
      ResearchTypes

\* acquire appends one record to what the run retained, under an identity
\* nothing was recorded under.
LEMMA AcquireEffect ==
    ASSUME ResearchTypes, NEW r \in Research, NEW e \in Evidence, acquire(r, e)
    PROVE  /\ step[r] = "acquire" /\ UNCHANGED <<current, step, runtime, session>>
           /\ ~resolves(e)
           /\ history' = history \cup
                 {[identity |-> e, revision |-> 1, state |-> Bundle]}
           /\ retained' \in [Research -> Seq([evidence : Evidence, observed : BOOLEAN])]
           /\ extractions' \in [Research -> Seq(Evidence)]
           /\ Len(retained'[r]) = Len(retained[r]) + 1 /\ Len(retained[r]) \in Nat
           /\ \A i \in 1 .. Len(retained[r]) : retained'[r][i] = retained[r][i]
           /\ retained'[r][Len(retained[r]) + 1].evidence = e
  <1> DEFINE Acquired == [evidence : Evidence, observed : BOOLEAN]
  <1>1. PICK observed \in BOOLEAN :
            /\ append_history(e, 1, Bundle)
            /\ retained' = [retained EXCEPT ![r] =
                 Append(retained[r], [evidence |-> e, observed |-> observed])]
            /\ \/ extractions' = extractions
               \/ extractions' = [extractions EXCEPT ![r] = Append(extractions[r], e)]
    BY DEF acquire, record_and_retain
  <1>2. /\ step[r] = "acquire" /\ UNCHANGED <<step, runtime, session>>
    BY DEF acquire
  <1>3. retained[r] \in Seq(Acquired) /\ extractions[r] \in Seq(Evidence)
    BY DEF ResearchTypes
  <1>4. [evidence |-> e, observed |-> observed] \in Acquired
    OBVIOUS
  <1> DEFINE longer == Append(retained[r], [evidence |-> e, observed |-> observed])
  <1>5. /\ longer \in Seq(Acquired) /\ Len(longer) = Len(retained[r]) + 1
        /\ \A i \in 1 .. Len(retained[r]) : longer[i] = retained[r][i]
        /\ longer[Len(retained[r]) + 1] = [evidence |-> e, observed |-> observed]
    BY <1>3, <1>4, AppendProperties
  <1>6. Append(extractions[r], e) \in Seq(Evidence) /\ Len(retained[r]) \in Nat
    BY <1>3, AppendProperties, LenProperties
  <1>7. retained'[r] = longer
    BY <1>1 DEF ResearchTypes
  <1> HIDE DEF longer
  <1>8. /\ retained' \in [Research -> Seq(Acquired)]
        /\ extractions' \in [Research -> Seq(Evidence)]
    BY <1>1, <1>5, <1>6 DEF ResearchTypes, longer
  <1>9. /\ UNCHANGED current /\ ~resolves(e)
        /\ history' = history \cup {[identity |-> e, revision |-> 1, state |-> Bundle]}
    BY <1>1 DEF append_history, resolves
  <1>. QED BY <1>2, <1>5, <1>6, <1>7, <1>8, <1>9

\* What research returns is a runtime result that cites extractions.
LEMMA ReturnEffect ==
    ASSUME ResearchTypes, NEW r \in Research, research_returns(r)
    PROVE  /\ step[r] = "acquire" /\ step' = [step EXCEPT ![r] = "bind"]
           /\ UNCHANGED <<store, results, retained, extractions, session>>
           /\ \E result \in Runtime :
                 /\ runtime' = [runtime EXCEPT ![r] = result]
                 /\ result.synthesis_source_ids \in Seq(1 .. Len(extractions[r]))
                 /\ result.synthesis_sufficient = "yes" =>
                       result.synthesis_source_ids # <<>>
  <1>1. PICK sufficient \in {"none", "yes", "no"}, cited \in Citations(r) :
            /\ sufficient = "yes" => cited # <<>>
            /\ runtime' = [runtime EXCEPT ![r] =
                              EngineResult(TRUE, FALSE, sufficient, cited)]
    BY DEF research_returns
  <1>2. Len(extractions[r]) \in Nat
    BY LenProperties DEF ResearchTypes
  <1>3. cited \in Seq(1 .. Len(extractions[r]))
    <2>1. PICK m \in 0 .. MaxCited : cited \in [1 .. m -> 1 .. Len(extractions[r])]
      BY <1>1, PagesAssumption DEF Citations, SeqOf
    <2>2. m \in Nat
      BY PagesAssumption
    <2>. QED BY <2>1, <2>2, SequenceOf
  <1>4. cited \in Seq(Nat)
    BY <1>2, <1>3, SeqMonotonic
  <1>5. EngineResult(TRUE, FALSE, sufficient, cited) \in Runtime
    BY <1>4 DEF EngineResult, Runtime
  <1>. QED BY <1>1, <1>3, <1>5 DEF research_returns, EngineResult, Goto

\* What a search in vain returns cites nothing.
LEMMA SearchEffect ==
    ASSUME ResearchTypes, NEW r \in Research, search(r)
    PROVE  /\ step[r] = "search" /\ UNCHANGED <<store, retained, extractions, session>>
           /\ \/ step' = [step EXCEPT ![r] = "acquire"] /\ runtime' = runtime
              \/ step' = [step EXCEPT ![r] = "bind"] /\ runtime' = runtime
              \/ /\ step' = [step EXCEPT ![r] = "bind"]
                 /\ \E result \in Runtime :
                       /\ runtime' = [runtime EXCEPT ![r] = result]
                       /\ result.synthesis_source_ids = <<>>
                       /\ result.synthesis_sufficient = "none"
  <1>1. \A failure \in BOOLEAN :
           /\ EngineResult(FALSE, failure, "none", <<>>) \in Runtime
           /\ EngineResult(FALSE, failure, "none", <<>>).synthesis_source_ids = <<>>
           /\ EngineResult(FALSE, failure, "none", <<>>).synthesis_sufficient = "none"
    BY EmptySeq DEF EngineResult, Runtime
  <1>. QED BY <1>1 DEF search, Goto

\* The types are preserved.
LEMMA TypesStep ==
    ASSUME ResearchInv, NEW r \in Research, RunStep(r)
    PROVE  ResearchTypes'
  <1>0. ResearchTypes /\ RuntimeStands /\ SessionStands
    BY DEF ResearchInv
  <1> DEFINE Stored == [revision : Nat, state : Session] \cup {NoRow}
  <1>row. ASSUME NEW row \in Stored, current' = [current EXCEPT ![r] = row]
          PROVE  /\ \A q \in Research : current'[q] \in Stored
                 /\ DOMAIN current' = Identity
    BY <1>0, <1>row, IdentityAssumption DEF ResearchTypes
  <1>1. ASSUME claim_durable_research(r) PROVE ResearchTypes'
    <2>1. [revision |-> 1, state |-> ClaimedSession] \in Stored
      BY ClaimType
    <2>2. /\ current' = [current EXCEPT ![r] = [revision |-> 1, state |-> ClaimedSession]]
          /\ step' = [step EXCEPT ![r] = "append_claim"]
          /\ UNCHANGED <<engine, session>>
      BY <1>1 DEF claim_durable_research, write_current, Goto
    <2>3. /\ \A q \in Research : current'[q] \in Stored
          /\ DOMAIN current' = Identity
      BY <1>row, <2>1, <2>2
    <2>. QED BY <1>0, <2>2, <2>3 DEF engine, ResearchTypes
  <1>2. ASSUME append_claim(r) \/ append_terminal(r) \/ acquire_fails(r) \/ run_ends(r)
        PROVE  ResearchTypes'
    BY <1>0, <1>2
    DEF append_claim, append_terminal, append_history, acquire_fails, run_ends, Goto,
        engine, store, ResearchTypes
  <1>3. ASSUME search(r) PROVE ResearchTypes'
    <2>1. \E next \in {"acquire", "bind"} : step' = [step EXCEPT ![r] = next]
      BY <1>0, <1>3, SearchEffect
    <2>2. \/ runtime' = runtime
          \/ \E result \in Runtime : runtime' = [runtime EXCEPT ![r] = result]
      BY <1>0, <1>3, SearchEffect
    <2>3. runtime' \in [Research -> Runtime \cup {NoResult}]
      BY <1>0, <2>2 DEF ResearchTypes
    <2>4. UNCHANGED <<store, retained, extractions, session>>
      BY <1>0, <1>3, SearchEffect
    <2>. QED BY <1>0, <2>1, <2>3, <2>4 DEF store, ResearchTypes
  <1>4. ASSUME NEW e \in Evidence, acquire(r, e) PROVE ResearchTypes'
    BY <1>0, <1>4, AcquireEffect DEF ResearchTypes
  <1>5. ASSUME research_returns(r) PROVE ResearchTypes'
    <2>1. /\ step' = [step EXCEPT ![r] = "bind"]
          /\ UNCHANGED <<store, retained, extractions, session>>
          /\ \E result \in Runtime : runtime' = [runtime EXCEPT ![r] = result]
      BY <1>0, <1>5, ReturnEffect
    <2>2. runtime' \in [Research -> Runtime \cup {NoResult}]
      BY <1>0, <2>1 DEF ResearchTypes
    <2>. QED BY <1>0, <2>1, <2>2 DEF store, ResearchTypes
  <1>6. ASSUME finalize_claimed(r) PROVE ResearchTypes'
    BY <1>0, <1>6, FinalizeEffect DEF store, engine, ResearchTypes
  <1>7. ASSUME persist_terminal(r) PROVE ResearchTypes'
    <2>1. /\ current' = [current EXCEPT ![r] = [revision |-> 2, state |-> session[r]]]
          /\ step' = [step EXCEPT ![r] = "append_terminal"]
          /\ UNCHANGED <<engine, session>>
      BY <1>0, <1>7, PersistEffect
    <2>2. [revision |-> 2, state |-> session[r]] \in Stored
      BY <1>0 DEF ResearchTypes
    <2>3. /\ \A q \in Research : current'[q] \in Stored
          /\ DOMAIN current' = Identity
      BY <1>row, <2>1, <2>2
    <2>. QED BY <1>0, <2>1, <2>3 DEF engine, ResearchTypes
  <1>. QED BY <1>1, <1>2, <1>3, <1>4, <1>5, <1>6, <1>7 DEF RunStep

\* The claim stands: nothing is retained without one, and nothing removes it.
LEMMA ClaimStep ==
    ASSUME ResearchInv, NEW r \in Research, RunStep(r)
    PROVE  ClaimStands'
  <1>0. ResearchTypes /\ ClaimStands /\ SessionStands /\ history \subseteq history'
    BY OthersKept DEF ResearchInv
  <1> DEFINE Stands(q) ==
        /\ step[q] \in {"idle", "append_claim", "search"} => retained[q] = <<>>
        /\ step[q] \notin {"idle", "failed"} => read_current(q) # NoRow
        /\ step[q] \notin {"idle", "append_claim", "failed"} => ClaimRow(q) \in history
        /\ retained[q] # <<>> => ClaimRow(q) \in history /\ read_current(q) # NoRow
  <1>1. \A q \in Research : Stands(q)
    BY <1>0 DEF ClaimStands
  <1>2. ASSUME NEW q \in Research, q # r PROVE Stands(q)'
    BY <1>0, <1>1, <1>2, OthersKept DEF read_current, ClaimRow
  <1>3. Stands(r)'
    <2>1. ASSUME claim_durable_research(r) PROVE Stands(r)'
      BY <1>0, <1>1, <2>1, ClaimType, IdentityAssumption
      DEF claim_durable_research, write_current, Goto, engine, ResearchTypes,
          read_current, ClaimRow
    <2>2. ASSUME append_claim(r) PROVE Stands(r)'
      BY <1>0, <1>1, <2>2
      DEF append_claim, append_history, Goto, engine, ResearchTypes, read_current,
          ClaimRow
    <2>3. ASSUME append_terminal(r) \/ acquire_fails(r) \/ run_ends(r)
          PROVE  Stands(r)'
      BY <1>0, <1>1, <2>3
      DEF append_terminal, append_history, acquire_fails, run_ends, Goto, engine,
          store, ResearchTypes, read_current, ClaimRow
    <2>4. ASSUME search(r) PROVE Stands(r)'
      BY <1>0, <1>1, <2>4, SearchEffect DEF store, ResearchTypes, read_current, ClaimRow
    <2>5. ASSUME NEW e \in Evidence, acquire(r, e) PROVE Stands(r)'
      BY <1>0, <1>1, <2>5, AcquireEffect DEF ResearchTypes, read_current, ClaimRow
    <2>6. ASSUME research_returns(r) PROVE Stands(r)'
      BY <1>0, <1>1, <2>6, ReturnEffect DEF store, ResearchTypes, read_current, ClaimRow
    <2>7. ASSUME finalize_claimed(r) PROVE Stands(r)'
      <3>1. RuntimeStands
        BY DEF ResearchInv
      <3>. QED
        BY <1>0, <1>1, <2>7, <3>1, FinalizeEffect
        DEF store, engine, ResearchTypes, read_current, ClaimRow
    <2>8. ASSUME persist_terminal(r) PROVE Stands(r)'
      BY <1>0, <1>1, <2>8, PersistEffect, ClaimType, IdentityAssumption
      DEF engine, ResearchTypes, read_current, ClaimRow
    <2>. QED BY <2>1, <2>2, <2>3, <2>4, <2>5, <2>6, <2>7, <2>8 DEF RunStep
  <1>4. \A q \in Research : Stands(q)'
    BY <1>2, <1>3
  <1>. QED BY <1>4 DEF ClaimStands

\* A record that was appended stays resolvable, and only one run retains it.
LEMMA EvidenceStep ==
    ASSUME ResearchInv, NEW r \in Research, RunStep(r)
    PROVE  EvidenceStands'
  <1>0. ResearchTypes /\ EvidenceStands /\ history \subseteq history'
    BY OthersKept DEF ResearchInv
  <1>1. ASSUME NEW id, resolves(id) PROVE resolves(id)'
    BY <1>0, <1>1 DEF resolves, history_exists
  <1>2. CASE retained' = retained
    BY <1>0, <1>2 DEF EvidenceStands, resolves, history_exists
  <1>3. ASSUME NEW e \in Evidence, acquire(r, e) PROVE EvidenceStands'
    <2> DEFINE last == Len(retained[r]) + 1
    <2>0. [identity |-> e, revision |-> 1, state |-> Bundle] \in history' /\ ~resolves(e)
      BY <1>0, <1>3, AcquireEffect
    <2>1. /\ Len(retained'[r]) = last /\ Len(retained[r]) \in Nat
          /\ \A i \in 1 .. Len(retained[r]) : retained'[r][i] = retained[r][i]
          /\ retained'[r][last].evidence = e
      BY <1>0, <1>3, AcquireEffect
    <2>2. \A q \in Research \ {r} : retained'[q] = retained[q]
      BY <1>0, <1>3, OthersKept DEF RunStep
    <2>3. \A q \in Research : \A i \in 1 .. Len(retained[q]) :
             resolves(retained[q][i].evidence) /\ retained[q][i].evidence # e
      BY <1>0, <2>0 DEF EvidenceStands
    <2>4. \A i \in 1 .. Len(retained'[r]) :
             \/ i \in 1 .. Len(retained[r]) /\ retained'[r][i] = retained[r][i]
             \/ i = last /\ retained'[r][i].evidence = e
      BY <2>1
    <2>9. resolves(e)'
      BY <2>0 DEF resolves, history_exists
    <2>5. ASSUME NEW q \in Research, NEW i \in 1 .. Len(retained'[q]), NEW x,
                 x = retained'[q][i].evidence
          PROVE  resolves(x)'
      <3>1. x = e \/ resolves(x)
        BY <2>2, <2>3, <2>4, <2>5
      <3>. QED BY <1>1, <2>9, <3>1
    <2>7. \A q \in Research \ {r} :
            \A i \in 1 .. Len(retained[r]), j \in 1 .. Len(retained[q]) :
              retained[q][j].evidence # retained[r][i].evidence
      BY <1>0 DEF EvidenceStands
    <2>8. ASSUME NEW q \in Research \ {r}, NEW i \in 1 .. Len(retained'[r]),
                 NEW j \in 1 .. Len(retained[q])
          PROVE  retained[q][j].evidence # retained'[r][i].evidence
      <3>1. CASE i = last /\ retained'[r][i].evidence = e
        BY <2>3, <3>1
      <3>2. CASE i \in 1 .. Len(retained[r]) /\ retained'[r][i] = retained[r][i]
        BY <2>7, <3>2
      <3>. QED BY <2>4, <3>1, <3>2
    <2>6. ASSUME NEW p \in Research, NEW q \in Research \ {p},
                 NEW i \in 1 .. Len(retained'[p]), NEW j \in 1 .. Len(retained'[q])
          PROVE  retained'[q][j].evidence # retained'[p][i].evidence
      <3>1. CASE p = r
        BY <2>2, <2>8, <3>1
      <3>2. CASE q = r
        BY <2>2, <2>8, <3>2
      <3>3. CASE p # r /\ q # r
        BY <1>0, <2>2, <3>3 DEF EvidenceStands
      <3>. QED BY <3>1, <3>2, <3>3
    <2>. QED BY <2>5, <2>6 DEF EvidenceStands, resolves, history_exists
  <1>4. retained' = retained \/ \E e \in Evidence : acquire(r, e)
    BY DEF RunStep, claim_durable_research, append_claim, search, acquire_fails,
        research_returns, finalize_claimed, persist_terminal, append_terminal,
        run_ends, engine
  <1>. QED BY <1>2, <1>3, <1>4

\* The engine returns once, after its last acquisition.
LEMMA RuntimeStep ==
    ASSUME ResearchInv, NEW r \in Research, RunStep(r)
    PROVE  RuntimeStands'
  <1>0. ResearchTypes /\ RuntimeStands
    BY DEF ResearchInv
  <1> DEFINE Stands(q) == runtime[q] # NoResult =>
        /\ step[q] \notin {"idle", "append_claim", "search", "acquire"}
        /\ runtime[q].synthesis_source_ids \in Seq(1 .. Len(extractions[q]))
        /\ runtime[q].synthesis_sufficient = "yes" =>
              runtime[q].synthesis_source_ids # <<>>
  <1>1. \A q \in Research : Stands(q)
    BY <1>0 DEF RuntimeStands
  <1>2. ASSUME NEW q \in Research, q # r PROVE Stands(q)'
    BY <1>0, <1>1, <1>2, OthersKept
  <1>3. Stands(r)'
    <2>1. CASE runtime' = runtime /\ extractions' = extractions
               /\ step'[r] \in {step[r], "bind", "persist", "append_terminal", "done",
                               "failed"}
      BY <1>1, <2>1
    <2>2. ASSUME claim_durable_research(r) \/ append_claim(r) PROVE Stands(r)'
      BY <1>0, <1>1, <2>2
      DEF claim_durable_research, append_claim, Goto, engine, ResearchTypes
    <2>3. ASSUME search(r) PROVE Stands(r)'
      <3>1. <<>> \in Seq(1 .. Len(extractions[r]))
        BY EmptySeq
      <3>2. step[r] = "search" /\ extractions' = extractions
        BY <1>0, <2>3, SearchEffect
      <3>3. runtime[r] = NoResult
        BY <1>1, <3>2
      <3>4. \/ runtime'[r] = NoResult
            \/ /\ step'[r] = "bind"
               /\ runtime'[r].synthesis_source_ids = <<>>
               /\ runtime'[r].synthesis_sufficient = "none"
        BY <1>0, <2>3, <3>3, SearchEffect DEF ResearchTypes
      <3>. QED BY <3>1, <3>2, <3>4
    <2>4. ASSUME NEW e \in Evidence, acquire(r, e) PROVE Stands(r)'
      BY <1>0, <1>1, <2>4, AcquireEffect
    <2>5. ASSUME research_returns(r) PROVE Stands(r)'
      BY <1>0, <1>1, <2>5, ReturnEffect DEF ResearchTypes
    <2>6. ASSUME \/ acquire_fails(r) \/ finalize_claimed(r) \/ persist_terminal(r)
                 \/ append_terminal(r) \/ run_ends(r)
          PROVE  Stands(r)'
      BY <1>0, <2>1, <2>6
      DEF acquire_fails, finalize_claimed, persist_terminal, append_terminal, run_ends,
          Goto, engine, ResearchTypes
    <2>. QED BY <2>2, <2>3, <2>4, <2>5, <2>6 DEF RunStep
  <1>4. \A q \in Research : Stands(q)'
    BY <1>2, <1>3
  <1>. QED BY <1>4 DEF RuntimeStands

\* What was true of a run stays true of it while it acquires nothing and the
\* engine returns nothing.
LEMMA TruthKept ==
    ASSUME NEW q, NEW s, Truthful(q, s),
           retained'[q] = retained[q], extractions'[q] = extractions[q],
           runtime'[q] = runtime[q]
    PROVE  Truthful(q, s)'
  <1>1. sources(q)' = sources(q)
    BY DEF sources
  <1>2. source_bindings(q)' = source_bindings(q)
    BY DEF source_bindings
  <1>3. CitedBindings(q)' = CitedBindings(q)
    BY <1>2 DEF CitedBindings
  <1>. QED BY <1>1, <1>2, <1>3 DEF Truthful

\* A record is truthful and valid before it is written, and truthful after.
LEMMA SessionStep ==
    ASSUME ResearchInv, NEW r \in Research, RunStep(r)
    PROVE  SessionStands'
  <1>0. ResearchTypes /\ ClaimStands /\ RuntimeStands /\ SessionStands
    BY DEF ResearchInv
  <1> DEFINE Frozen(q) == /\ retained'[q] = retained[q]
                          /\ extractions'[q] = extractions[q]
                          /\ runtime'[q] = runtime[q]
  <1>1. ASSUME NEW q \in Research, NEW s, s = session'[q], step'[q] = "persist"
        PROVE  Truthful(q, s)' /\ validate_session_result(s)
    <2>1. CASE session'[q] = session[q] /\ step[q] = "persist" /\ Frozen(q)
      <3>1. Truthful(q, s) /\ validate_session_result(s)
        BY <1>0, <1>1, <2>1 DEF SessionStands
      <3>. QED BY <2>1, <3>1, TruthKept
    <2>2. CASE q = r /\ finalize_claimed(r)
      <3>1. Truthful(q, s) /\ validate_session_result(s)
        BY <1>0, <1>1, <2>2, FinalizeEffect DEF ResearchTypes
      <3>2. Frozen(q)
        BY <1>0, <2>2, FinalizeEffect DEF engine
      <3>. QED BY <3>1, <3>2, TruthKept
    <2>3. \/ session'[q] = session[q] /\ step[q] = "persist" /\ Frozen(q)
          \/ q = r /\ finalize_claimed(r)
      <3>1. CASE q # r
        BY <1>0, <1>1, <3>1, OthersKept
      <3>2. CASE q = r
        BY <1>0, <1>1, <3>2
        DEF RunStep, claim_durable_research, append_claim, search, acquire_fails,
            acquire, research_returns, persist_terminal, append_terminal, run_ends,
            Goto, engine, ResearchTypes
      <3>. QED BY <3>1, <3>2
    <2>. QED BY <2>1, <2>2, <2>3
  <1>2. ASSUME NEW q \in Research, NEW row, row = current'[q], row # NoRow
        PROVE  \/ row.state = ClaimedSession
               \/ /\ step'[q] \in {"append_terminal", "done", "failed"}
                  /\ Truthful(q, row.state)'
    <2>1. CASE current'[q] = current[q]
      <3>1. \/ row.state = ClaimedSession
            \/ /\ step[q] \in {"append_terminal", "done", "failed"}
               /\ Truthful(q, row.state)
        BY <1>0, <1>2, <2>1 DEF SessionStands, read_current
      <3>2. ASSUME step[q] \in {"append_terminal", "done", "failed"}
            PROVE  step'[q] \in {"append_terminal", "done", "failed"} /\ Frozen(q)
        <4>1. CASE q # r
          BY <1>0, <3>2, <4>1, OthersKept
        <4>2. CASE q = r
          BY <1>0, <3>2, <4>2
          DEF RunStep, claim_durable_research, append_claim, search, acquire_fails,
              acquire, research_returns, finalize_claimed, persist_terminal,
              append_terminal, run_ends, Goto, engine, ResearchTypes
        <4>. QED BY <4>1, <4>2
      <3>. QED BY <3>1, <3>2, TruthKept
    <2>2. CASE q = r /\ claim_durable_research(r)
      BY <1>0, <1>2, <2>2, IdentityAssumption
      DEF claim_durable_research, write_current, ResearchTypes
    <2>3. CASE q = r /\ persist_terminal(r)
      <3>1. /\ row = [revision |-> 2, state |-> session[r]] /\ Truthful(r, session[r])
            /\ step'[r] = "append_terminal" /\ Frozen(r)
        BY <1>0, <1>2, <2>3, PersistEffect, IdentityAssumption DEF engine, ResearchTypes
      <3>2. PICK s : s = session[r]
        OBVIOUS
      <3>3. Truthful(r, s)'
        BY <3>1, <3>2, TruthKept
      <3>4. row.state = s
        BY <3>1, <3>2
      <3>. QED BY <2>3, <3>1, <3>3, <3>4
    <2>4. \/ current'[q] = current[q]
          \/ q = r /\ (claim_durable_research(r) \/ persist_terminal(r))
      <3>1. CASE q # r
        BY <1>0, <3>1, OthersKept
      <3>2. CASE q = r
        BY <3>2
        DEF RunStep, append_claim, search, acquire_fails, acquire, record_and_retain,
            append_history, research_returns, finalize_claimed, append_terminal,
            run_ends, store
      <3>. QED BY <3>1, <3>2
    <2>. QED BY <2>1, <2>2, <2>3, <2>4
  <1>3. \A q \in Research : step'[q] = "persist" =>
           Truthful(q, session[q])' /\ validate_session_result(session[q])'
    BY <1>1 DEF Truthful
  <1>4. \A q \in Research : current'[q] # NoRow =>
           \/ current'[q].state = ClaimedSession
           \/ /\ step'[q] \in {"append_terminal", "done", "failed"}
              /\ Truthful(q, current[q].state)'
    BY <1>2 DEF Truthful
  <1>. QED BY <1>3, <1>4 DEF SessionStands, read_current, Truthful

----------------------------------------------------------------------------
\* Types, claims, evidence, runtime results and records are consistent for any
\* number of runs, pages, citations and pieces of evidence.
THEOREM ResearchInvariant == ResearchSpec => []ResearchInv
  <1>1. ResearchInit => ResearchInv
    <2> SUFFICES ASSUME ResearchInit PROVE ResearchInv
      OBVIOUS
    <2>1. \A r \in Research : /\ step[r] = "idle" /\ retained[r] = <<>>
                              /\ runtime[r] = NoResult /\ current[r] = NoRow
      BY IdentityAssumption DEF ResearchInit, StoreInit
    <2>2. ResearchTypes
      BY ClaimType, EmptySeq, IdentityAssumption DEF ResearchInit, StoreInit, ResearchTypes
    <2>3. \A r \in Research : Len(retained[r]) = 0
      BY <2>1, EmptySeq
    <2>. QED
      BY <2>1, <2>2, <2>3
      DEF ResearchInv, ClaimStands, EvidenceStands, RuntimeStands, SessionStands,
          read_current
  <1>2. ResearchInv /\ [ResearchNext]_researchVars => ResearchInv'
    <2>1. ASSUME ResearchInv, NEW r \in Research, RunStep(r) PROVE ResearchInv'
      BY <2>1, TypesStep, ClaimStep, EvidenceStep, RuntimeStep, SessionStep
      DEF ResearchInv
    <2>2. ASSUME ResearchInv, UNCHANGED researchVars PROVE ResearchInv'
      <3>1. ResearchTypes' /\ RuntimeStands'
        BY <2>2 DEF researchVars, ResearchInv, ResearchTypes, RuntimeStands
      <3>2. ClaimStands'
        BY <2>2 DEF researchVars, ResearchInv, ClaimStands, ClaimRow, read_current
      <3>3. EvidenceStands'
        BY <2>2 DEF researchVars, ResearchInv, EvidenceStands, resolves, history_exists
      <3>4. SessionStands'
        <4>1. \A r \in Research : Truthful(r, session[r]) => Truthful(r, session[r])'
          BY <2>2 DEF researchVars, Truthful, sources, source_bindings, CitedBindings
        <4>2. \A r \in Research : Truthful(r, current[r].state) =>
                                   Truthful(r, current[r].state)'
          BY <2>2 DEF researchVars, Truthful, sources, source_bindings, CitedBindings
        <4>. QED
          BY <2>2, <4>1, <4>2 DEF researchVars, ResearchInv, SessionStands, read_current
      <3>. QED BY <3>1, <3>2, <3>3, <3>4 DEF ResearchInv
    <2>. QED BY <2>1, <2>2 DEF ResearchNext, RunStep
  <1>. QED BY <1>1, <1>2, PTL DEF ResearchSpec

\* A run that recorded evidence has its claim in the history and a current row,
\* wherever it failed or died.
THEOREM ClaimFirst == ResearchSpec => []ClaimPrecedesEffects
  <1>1. ResearchInv => ClaimPrecedesEffects
    BY DEF ResearchInv, ClaimStands, ClaimRow, ClaimPrecedesEffects
  <1>. QED BY <1>1, ResearchInvariant, PTL

\* The two checks at the end of a run agree: build_durable_result lets nothing
\* through that validate_session_result refuses.
THEOREM ChecksAgree == ResearchSpec => []BuiltResultsAreValid
  <1>1. ResearchInv => BuiltResultsAreValid
    BY DEF ResearchInv, SessionStands, BuiltResultsAreValid
  <1>. QED BY <1>1, ResearchInvariant, PTL

\* Source N of a published session, in its extractions and in each citation, is
\* the N-th extraction of that very run, and its sources are its own evidence.
THEOREM SourcesAreOwn == ResearchSpec => []PublishedSourcesAreOwn
  <1>1. ResearchInv => PublishedSourcesAreOwn
    <2> SUFFICES ASSUME ResearchInv, NEW r \in Research, NEW row,
                        row = read_current(r), row # NoRow, row.state.state # "Claimed"
                 PROVE  /\ \A i \in 1 .. Len(row.state.sources) :
                             /\ row.state.sources[i].evidence = retained[r][i].evidence
                             /\ resolves(row.state.sources[i].evidence)
                             /\ \A q \in Research \ {r} :
                                   \A record \in Range(retained[q]) :
                                      record.evidence # row.state.sources[i].evidence
                        /\ row.state.result # NoResult =>
                             /\ [n \in 1 .. Len(extractions[r]) |->
                                   row.state.result.extractions[n].evidence] = extractions[r]
                             /\ row.state.result.synthesis # NoResult =>
                                  \A i \in 1 .. Len(row.state.result.synthesis) :
                                     row.state.result.synthesis[i].evidence =
                                       extractions[r][runtime[r].synthesis_source_ids[i]]
      BY DEF PublishedSourcesAreOwn
    <2>0. ResearchTypes /\ EvidenceStands /\ RuntimeStands /\ SessionStands
      BY DEF ResearchInv
    <2>1. Truthful(r, row.state)
      BY <2>0 DEF SessionStands, ClaimedSession
    <2>2. ASSUME NEW i \in 1 .. Len(row.state.sources)
          PROVE  /\ row.state.sources[i].evidence = retained[r][i].evidence
                 /\ resolves(row.state.sources[i].evidence)
                 /\ \A q \in Research \ {r} : \A record \in Range(retained[q]) :
                       record.evidence # row.state.sources[i].evidence
      <3>1. row.state.sources = sources(r)
        BY <2>1 DEF Truthful
      <3>2. /\ i \in 1 .. Len(retained[r])
            /\ row.state.sources[i].evidence = retained[r][i].evidence
        BY <2>0, <2>2, <3>1, SourcesType
      <3>3. ASSUME NEW q \in Research \ {r}, NEW record \in Range(retained[q])
            PROVE  record.evidence # retained[r][i].evidence
        <4>1. PICK j \in DOMAIN retained[q] : record = retained[q][j]
          BY DEF Range
        <4>2. DOMAIN retained[q] = 1 .. Len(retained[q])
          BY <2>0, LenProperties DEF ResearchTypes
        <4>. QED BY <2>0, <3>2, <4>1, <4>2 DEF EvidenceStands
      <3>. QED BY <2>0, <3>2, <3>3 DEF EvidenceStands
    <2>3. ASSUME row.state.result # NoResult
          PROVE  [n \in 1 .. Len(extractions[r]) |->
                     row.state.result.extractions[n].evidence] = extractions[r]
      <3>1. row.state.result.extractions = source_bindings(r)
        BY <2>1, <2>3 DEF Truthful
      <3>2. \A n \in 1 .. Len(extractions[r]) :
               source_bindings(r)[n].evidence = extractions[r][n]
        BY <2>0, BindingsType
      <3>3. extractions[r] \in [1 .. Len(extractions[r]) -> Evidence]
        BY <2>0, LenProperties DEF ResearchTypes
      <3>. QED BY <3>1, <3>2, <3>3
    <2>4. ASSUME row.state.result # NoResult, row.state.result.synthesis # NoResult,
                 NEW i \in 1 .. Len(row.state.result.synthesis)
          PROVE  row.state.result.synthesis[i].evidence =
                   extractions[r][runtime[r].synthesis_source_ids[i]]
      <3>0. runtime[r] # NoResult
        BY <2>1, <2>4 DEF Truthful
      <3>1. row.state.result.synthesis = CitedBindings(r)
        BY <2>1, <2>4 DEF Truthful
      <3>2. /\ runtime[r].synthesis_source_ids[i] \in 1 .. Len(extractions[r])
            /\ CitedBindings(r)[i] =
                  source_bindings(r)[runtime[r].synthesis_source_ids[i]]
        BY <2>0, <2>4, <3>0, <3>1, CitedType
      <3>. QED BY <2>0, <3>1, <3>2, BindingsType
    <2>. QED BY <2>2, <2>3, <2>4
  <1>. QED BY <1>1, ResearchInvariant, PTL
=============================================================================
