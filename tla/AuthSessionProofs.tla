------------------------- MODULE AuthSessionProofs -------------------------
(***************************************************************************)
(* Authenticated sessions, for any number of sessions, tokens and          *)
(* concurrent callers: the durable transition protocol keeps its invariant *)
(* for this lifecycle (its proof is that of DomainStateProofs), and a      *)
(* session is never active again without the token of the pause it ended.  *)
(***************************************************************************)
EXTENDS AuthSession, DomainStateProofs

\* A state that is active again was paused with the token presented.
LEMMA ResumeNeedsToken ==
    ASSUME NEW t \in SessionTransition, NEW s \in AuthSessionState,
           SessionApply[t][s] = Active
    PROVE  /\ t.kind = "resume" /\ t.continuity \in Token
           /\ s = Paused(t.continuity)
  BY ApplyAssumption, SessionAssumption
     DEF SessionApply, SessionTransition, PauseSession, ResumeSession,
         InvalidateSession, SessionState, AuthSessionState, Active, Paused,
         Invalidated

\* A step of a session is a step of the protocol.
LEMMA SessionIsProtocol ==
    [SessionNext]_sessionVars => [DomainNext]_domainVars
  BY SessionAssumption
     DEF SessionNext, DomainNext, sessionVars, domainVars, create_session,
         apply_session_transition, transition_step, call_ends

SessionInv == DomainInv /\ ResumePresentsThePausedToken

LEMMA SessionInvInit == SessionInit => SessionInv
<1> SUFFICES ASSUME SessionInit PROVE SessionInv
  OBVIOUS
<1>1. DomainInit
  BY DEF SessionInit
<1>2. DomainInv
  BY <1>1, DomainInvInit
<1>3. ResumePresentsThePausedToken
  BY <1>1 DEF DomainInit, ResumePresentsThePausedToken
<1> QED BY <1>2, <1>3 DEF SessionInv

LEMMA SessionInvStep == SessionInv /\ [SessionNext]_sessionVars => SessionInv'
<1> SUFFICES ASSUME SessionInv, [SessionNext]_sessionVars PROVE SessionInv'
  OBVIOUS
<1>1. DomainInv'
  BY SessionIsProtocol, DomainInvStep DEF SessionInv
<1>2. /\ DomainTypeOK /\ CurrentIsNewest /\ DecisionsAreGrounded
      /\ ResumePresentsThePausedToken
  BY DEF SessionInv, DomainInv, DomainStrengthening
<1>3. /\ current \in [Identity -> Row \cup {NoRow}]
      /\ trail \in [Entity -> Seq(AuthSessionState)]
      /\ Entity \subseteq Identity
  BY <1>2, EntityAssumption, SessionAssumption DEF DomainTypeOK, StoreTypeOK
<1>4. CASE trail' = trail
  <2>1. resumed \subseteq resumed'
    BY <1>4 DEF SessionNext, create_session, apply_session_transition,
       transition_step, call_ends, sessionVars
  <2>2. ResumePresentsThePausedToken'
    BY <1>2, <1>4, <2>1 DEF ResumePresentsThePausedToken
  <2> QED BY <1>1, <2>2 DEF SessionInv
<1>5. ASSUME NEW id \in Entity, create_session(id) PROVE SessionInv'
  <2>1. trail' = [trail EXCEPT ![id] = <<Active>>] /\ resumed' = resumed
    BY <1>5, SessionAssumption DEF create_session, create
  <2>2. \A i \in Entity \ {id} : trail'[i] = trail[i]
    BY <1>3, <2>1
  <2>3. Len(trail'[id]) = 1
    BY <1>3, <1>5, <2>1
  <2>4. ResumePresentsThePausedToken'
    <3> SUFFICES ASSUME NEW i \in Entity, NEW n \in 2 .. Len(trail'[i]),
                        trail'[i][n] = Active
                 PROVE  \E k \in Token : /\ trail'[i][n - 1] = Paused(k)
                                         /\ <<i, n - 1, k>> \in resumed'
      BY DEF ResumePresentsThePausedToken
    <3>1. i # id
      BY <2>3
    <3> QED BY <1>2, <2>1, <2>2, <3>1 DEF ResumePresentsThePausedToken
  <2> QED BY <1>1, <2>4 DEF SessionInv
<1>6. ASSUME NEW p \in Process, transition_step(p), swap(p) PROVE SessionInv'
  <2>1. /\ op[p] # NoOp /\ op[p].stage = "write" /\ At(p, "write")
        /\ write_current(op[p].entity, op[p].revision,
                           SessionApply[op[p].transition][op[p].old])
        /\ trail' = [trail EXCEPT ![op[p].entity] =
             Append(@, SessionApply[op[p].transition][op[p].old])]
    BY <1>6, SessionAssumption DEF swap, At, apply
  <2>2. /\ op[p].entity \in Entity /\ op[p].transition \in SessionTransition
        /\ op[p].old \in AuthSessionState /\ op[p].revision \in Nat
    BY <1>2, <2>1, SessionAssumption DEF DomainTypeOK, Frame
  <2>3. PICK id \in Entity, t \in SessionTransition,
             old \in AuthSessionState, r \in Nat :
          /\ id = op[p].entity /\ t = op[p].transition /\ old = op[p].old
          /\ r = op[p].revision
    BY <2>2
  <2>4. PICK new : new = SessionApply[t][old]
    OBVIOUS
  <2>5. /\ r \in 1 .. Len(trail[id]) /\ old = trail[id][r]
        /\ current[id] # NoRow => current[id].revision = Len(trail[id])
        /\ current[id] = NoRow => trail[id] = <<>>
        /\ new # Rejected
    BY <1>2, <2>1, <2>3, <2>4, SessionAssumption
       DEF DecisionsAreGrounded, CurrentIsNewest, apply
  <2>6. /\ current[id] # NoRow /\ current[id].revision = r
        /\ current' = [current EXCEPT ![id] = [revision |-> r + 1, state |-> new]]
        /\ trail' = [trail EXCEPT ![id] = Append(@, new)]
    <3>1. write_current(id, r, new)
      BY <2>1, <2>3, <2>4
    <3>2. /\ ActualRevision(id) = r
          /\ current' = [current EXCEPT ![id] = [revision |-> r + 1, state |-> new]]
      BY <2>3, <3>1 DEF write_current, write_conflicts
    <3>3. current[id] # NoRow /\ current[id].revision = r
      BY <2>3, <2>5, <3>2 DEF ActualRevision
    <3>4. trail' = [trail EXCEPT ![id] = Append(@, new)]
      BY <2>1, <2>3, <2>4
    <3> QED BY <3>2, <3>3, <3>4
  <2>7. new \in AuthSessionState /\ trail[id] \in Seq(AuthSessionState)
    <3>1. trail[id] \in Seq(AuthSessionState)
      BY <1>3, <2>3
    <3>2. SessionApply[t][old] \in AuthSessionState \cup {Rejected}
      BY <2>3, ApplyAssumption, SessionAssumption
    <3> QED BY <2>4, <2>5, <3>1, <3>2
  <2>8. /\ Len(trail[id]) = r /\ Len(trail'[id]) = r + 1
        /\ trail'[id][r + 1] = new
        /\ \A i \in 1 .. r : trail'[id][i] = trail[id][i]
        /\ \A i \in Entity \ {id} : trail'[i] = trail[i]
    <3>1. trail'[id] = Append(trail[id], new)
      BY <1>3, <2>6
    <3>2. Len(trail[id]) = r
      BY <2>5, <2>6
    <3>3. /\ Len(trail'[id]) = Len(trail[id]) + 1
          /\ trail'[id][Len(trail[id]) + 1] = new
          /\ \A i \in 1 .. Len(trail[id]) : trail'[id][i] = trail[id][i]
      <4>1. \A s \in Seq(AuthSessionState) :
               /\ Len(Append(s, new)) = Len(s) + 1
               /\ Append(s, new)[Len(s) + 1] = new
               /\ \A i \in 1 .. Len(s) : Append(s, new)[i] = s[i]
        BY <2>7
      <4> QED BY <2>7, <3>1, <4>1
    <3>4. \A i \in Entity \ {id} : trail'[i] = trail[i]
      BY <1>3, <2>6
    <3> QED BY <3>2, <3>3, <3>4
  <2>9. current' # current
    <3>1. current'[id] = [revision |-> r + 1, state |-> new]
      BY <1>3, <2>6
    <3> QED BY <2>6, <3>1
  <2>10. /\ resumed \subseteq resumed'
         /\ t.kind = "resume" => <<id, r, t.continuity>> \in resumed'
    BY <1>6, <2>1, <2>3, <2>9 DEF transition_step, At
  <2>11. new = Active => \E k \in Token : /\ trail'[id][r] = Paused(k)
                                         /\ <<id, r, k>> \in resumed'
    <3> SUFFICES ASSUME new = Active
                 PROVE  \E k \in Token : /\ trail'[id][r] = Paused(k)
                                         /\ <<id, r, k>> \in resumed'
      OBVIOUS
    <3>1. t.kind = "resume" /\ t.continuity \in Token /\ old = Paused(t.continuity)
      BY <2>4, ResumeNeedsToken
    <3>2. trail'[id][r] = old
      BY <2>5, <2>8
    <3> QED BY <2>10, <3>1, <3>2
  <2>12. ResumePresentsThePausedToken'
    <3> SUFFICES ASSUME NEW i \in Entity, NEW n \in 2 .. Len(trail'[i]),
                        trail'[i][n] = Active
                 PROVE  \E k \in Token : /\ trail'[i][n - 1] = Paused(k)
                                         /\ <<i, n - 1, k>> \in resumed'
      BY DEF ResumePresentsThePausedToken
    <3>1. CASE i = id /\ n = r + 1
      <4>1. trail'[i][n] = new /\ n - 1 = r
        BY <2>3, <2>8, <3>1
      <4>2. new = Active
        BY <4>1
      <4> QED BY <2>11, <3>1, <4>1, <4>2
    <3>2. CASE i = id /\ n # r + 1
      <4>1. n \in 2 .. Len(trail[i]) /\ n \in 1 .. r /\ n - 1 \in 1 .. r
        BY <2>8, <3>2
      <4>2. trail'[i][n] = trail[i][n] /\ trail'[i][n - 1] = trail[i][n - 1]
        BY <2>8, <3>2, <4>1
      <4> QED BY <1>2, <2>10, <4>1, <4>2 DEF ResumePresentsThePausedToken
    <3>3. CASE i # id
      BY <1>2, <2>8, <2>10, <3>3 DEF ResumePresentsThePausedToken
    <3> QED BY <3>1, <3>2, <3>3
  <2> QED BY <1>1, <2>12 DEF SessionInv
<1> QED
  BY <1>4, <1>5, <1>6
     DEF SessionNext, sessionVars, apply_session_transition, transition_step,
         call_ends, CallStep, begin, read_and_apply, lose_race,
         record_superseded, store_error, return, abandon

\* The invariant of the sessions; it includes that of the protocol.
THEOREM SessionInvariant == SessionSpec => []SessionInv
  BY SessionInvInit, SessionInvStep, PTL DEF SessionSpec

\* apply_session_transition makes a session active again only for a caller
\* that presented the token of the very pause it ended.
THEOREM ContinuityIsProved == SessionSpec => []ResumePresentsThePausedToken
<1>1. SessionInv => ResumePresentsThePausedToken
  BY DEF SessionInv
<1> QED
  BY <1>1, SessionInvariant, PTL

\* The atomicity of apply_session_transition: seen through the current row
\* alone, a session changes by transitions applied to the state it is in.
THEOREM SessionsAreAtomic == SessionSpec => AtomicLifecycle
<1>1. SessionInit => DomainInit
  BY DEF SessionInit
<1> QED
  BY <1>1, SessionIsProtocol, DomainRefinesLifecycle, PTL
     DEF SessionSpec, DomainSpec

============================================================================
