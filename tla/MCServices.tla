----------------------------- MODULE MCServices -----------------------------
(***************************************************************************)
(* The three concurrent services around a crawl: the request coalescer,    *)
(* the tab pool and the crawl sessions of the MCP server.  They share no   *)
(* state, so a behaviour is explored in which one of them works and the    *)
(* other two have not been used yet; every behaviour of each is covered.   *)
(***************************************************************************)
EXTENDS Coalesce, TabPool, CrawlSessions, TLC

CONSTANTS u1, r1, r2, r3

----------------------------------------------------------------------------
(* Coalesce: four calls for one URL.                                       *)

MCurl == [c \in Call |-> u1]

----------------------------------------------------------------------------
(* CrawlSessions: three sessions that evict one another, and pairs of      *)
(* requests with and without a browser, screenshots and Tor.               *)

MCRequest == {r1, r2, r3}

Asks(limit, pages) ==
    [limit |-> limit, headless |-> FALSE, screenshot |-> FALSE, tor |-> FALSE,
     pages |-> pages]

\* In the background, inline (INLINE_LIMIT is 1), and inline without a limit.
Session(pages) == Asks(MaxPages, pages)

Inline == Asks(1, 1)

Unlimited(pages) == Asks(0, pages)

OverTor(p) == [p EXCEPT !.tor = TRUE]

WithBrowser(p) == [p EXCEPT !.headless = TRUE]

WithScreenshot(p) == [WithBrowser(p) EXCEPT !.screenshot = TRUE]

Plan(p, ttl) == [params |-> p, running_ttl |-> ttl]

MCPlans ==
    {Plan(r1 :> Session(0) @@ r2 :> Session(0) @@ r3 :> Session(0), 0),
     Plan(r1 :> Session(0) @@ r2 :> Session(0) @@ r3 :> Session(0), 1),
     Plan(r1 :> WithScreenshot(Session(1)) @@ r2 :> WithBrowser(Inline), 0),
     Plan(r1 :> WithScreenshot(Inline) @@ r2 :> WithBrowser(Session(3)), 0),
     Plan(r1 :> WithBrowser(Session(1)) @@ r2 :> Session(1), 1),
     Plan(r1 :> OverTor(Inline) @@ r2 :> OverTor(Session(1)), 0),
     Plan(r1 :> Unlimited(2) @@ r2 :> WithBrowser(Unlimited(1)), 0)}

\* One session by HTTP; a browser crawl, inline or evicted, and one that waits.
MCLagPlans == {Plan(r1 :> Session(3), 0)}

MCAbortPlans ==
    {Plan(r1 :> WithBrowser(Inline) @@ r2 :> WithBrowser(Inline), 0),
     Plan(r1 :> WithBrowser(Session(1)) @@ r2 :> Session(0), 1)}

----------------------------------------------------------------------------
ServicesInit == CoalesceInit /\ PoolInit /\ SessionsInit

\* No session has been asked for; which plan it would be does not matter.
Unasked == SessionsInit /\ Plan(params, running_ttl) = CHOOSE plan \in Plans : TRUE

ServicesNext ==
    \/ /\ PoolInit /\ Unasked
       /\ CoalesceNext /\ UNCHANGED <<poolVars, sessionVars>>
    \/ /\ CoalesceInit /\ Unasked
       /\ PoolNext /\ UNCHANGED <<coalesceVars, sessionVars>>
    \/ /\ CoalesceInit /\ PoolInit
       /\ SessionsNext /\ UNCHANGED <<coalesceVars, poolVars>>

ServicesSpec ==
    /\ ServicesInit
    /\ [][ServicesNext]_<<coalesceVars, poolVars, sessionVars>>
    /\ CoalesceFairness /\ SessionsFairness
=============================================================================
