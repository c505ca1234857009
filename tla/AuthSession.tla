---------------------------- MODULE AuthSession ----------------------------
(***************************************************************************)
(* Durable authenticated sessions (spider/src/features/auth_session.rs):   *)
(* Active, Paused with the continuity token of the browser context kept    *)
(* alive, Invalidated.  A session is resumed only by presenting the token  *)
(* it was paused with.  The lifecycle runs on the protocol of DomainState. *)
(*                                                                         *)
(* The origin and the profile of a session are copied by every transition; *)
(* they are left out.                                                      *)
(***************************************************************************)
EXTENDS DomainState

CONSTANTS
    Token,          \* browser continuity tokens
    NoToken

SessionState(kind, token) == [kind |-> kind, continuity |-> token]

Active == SessionState("Active", NoToken)
Paused(token) == SessionState("Paused", token)
Invalidated == SessionState("Invalidated", NoToken)

AuthSessionState == {Active, Invalidated} \cup {Paused(k) : k \in Token}

PauseSession(token) == SessionState("pause", token)
ResumeSession(token) == SessionState("resume", token)
InvalidateSession == SessionState("invalidate", NoToken)

SessionTransition ==
    {PauseSession(k) : k \in Token} \cup {ResumeSession(k) : k \in Token}
    \cup {InvalidateSession}

\* Plausible bug: the presented token is not compared.
ResumeWithAnyToken ==
    [t \in SessionTransition |-> [s \in AuthSessionState |->
        CASE s = Active /\ t.kind = "pause" -> Paused(t.continuity)
          [] s.kind = "Paused" /\ t.kind = "resume" -> Active
          [] s # Invalidated /\ t = InvalidateSession -> Invalidated
          [] OTHER -> Rejected]]

\* Everything not listed is refused: Terminal from Invalidated,
\* ContinuityMismatch for another token, InvalidFromState otherwise.
SessionApply ==
    [t \in SessionTransition |-> [s \in AuthSessionState |->
        CASE s = Active /\ t.kind = "pause" -> Paused(t.continuity)
          [] t.kind = "resume" /\ s = Paused(t.continuity) -> Active
          [] s # Invalidated /\ t = InvalidateSession -> Invalidated
          [] OTHER -> Rejected]]

\* The entities of the protocol are sessions, its lifecycle is theirs.
ASSUME SessionAssumption ==
    /\ EntityState = AuthSessionState /\ Transition = SessionTransition
    /\ Initial = Active /\ Apply = SessionApply

----------------------------------------------------------------------------
VARIABLE
    resumed               \* auxiliary: <<session, revision, token presented>>

sessionVars == <<current, history, op, trail, lost, resumed>>

SessionInit == DomainInit /\ resumed = {}

create_session(id) == create(id) /\ UNCHANGED resumed

apply_session_transition(p, id, t) == begin(p, id, t) /\ UNCHANGED resumed

\* A step of the call; a resume that wins its compare-and-swap is noted with
\* the revision it ended.
transition_step(p) ==
    /\ CallStep(p)
    /\ resumed' = IF At(p, "write") /\ current' # current
                       /\ op[p].transition.kind = "resume"
                    THEN resumed \cup {<<op[p].entity, op[p].revision,
                                         op[p].transition.continuity>>}
                    ELSE resumed

call_ends(p) ==
    /\ store_error(p) \/ return(p) \/ abandon(p)
    /\ UNCHANGED resumed

SessionNext ==
    \/ \E id \in Entity : create_session(id)
    \/ \E p \in Process :
         \/ \E id \in Entity, t \in SessionTransition :
              apply_session_transition(p, id, t)
         \/ transition_step(p) \/ call_ends(p)

SessionSpec == SessionInit /\ [][SessionNext]_sessionVars

----------------------------------------------------------------------------
\* Continuity is never claimed without proof: whenever a session became
\* active again, one caller had presented the very token of the pause it
\* ended -- also when the session was paused, resumed and paused again with
\* another token while that caller was deciding.
ResumePresentsThePausedToken ==
    \A id \in Entity : \A r \in 2 .. Len(trail[id]) :
        trail[id][r] = Active =>
            \E k \in Token : /\ trail[id][r - 1] = Paused(k)
                             /\ <<id, r - 1, k>> \in resumed

============================================================================
