--------------------------- MODULE CrawlSessions ---------------------------
(***************************************************************************)
(* The crawls of the MCP server (spider_mcp/src/state.rs, tools/crawl.rs,  *)
(* spawn_crawl_task of tools/mod.rs).  A small crawl is answered inline by *)
(* the request that asked for it; a larger one becomes a session that a    *)
(* task of its own fills and that clients read later.  Both read the pages *)
(* of the crawl from a broadcast channel that keeps the last Capacity of   *)
(* them: a reader that falls further behind gets an error.                 *)
(*                                                                         *)
(* The sessions are in a DashMap, each access of which is one step.        *)
(* Requests that are refused before they start a crawl are left out.       *)
(***************************************************************************)
EXTENDS Integers, Sequences, FiniteSets

CONSTANTS
    Request,
    Plans,           \* which requests may come, what they ask for, and the
                     \* running_session_ttl of the server (0 if it is unset)
    InlineLimit,     \* INLINE_LIMIT (10)
    Capacity,        \* pages the channel keeps (16)
    MaxSessions,     \* MAX_SESSIONS (256)
    SessionTtl,      \* SESSION_TTL
    ChromePermits,   \* CHROME_EXECUTION_PERMITS (4)
    NoSession,
    MaxPages,        \* bound: pages a crawl sends
    MaxTime          \* bound: the clock

\* What a request asks for: at most how many pages, with a browser or not,
\* with screenshots (which imply a browser) or not, over Tor (which excludes
\* one) or not; and how many pages its crawl finds to send.  A crawl stays
\* within its limit (LimitIsKept of Crawl), but a limit of 0 wraps in a
\* release build and is none.
Params == {p \in [limit : 0 .. MaxPages, headless : BOOLEAN, screenshot : BOOLEAN,
                  tor : BOOLEAN, pages : 0 .. MaxPages] :
              /\ p.screenshot => p.headless
              /\ ~(p.tor /\ p.headless)
              /\ p.limit # 0 => p.pages <= p.limit}

ASSUME SessionsAssumption ==
    /\ \A plan \in Plans :
          /\ DOMAIN plan.params \subseteq Request /\ plan.running_ttl \in Nat
          /\ \A r \in DOMAIN plan.params : plan.params[r] \in Params
    /\ Capacity \in Nat \ {0} /\ MaxSessions \in Nat \ {0}
    /\ SessionTtl \in Nat \ {0}
    /\ ChromePermits \in Nat \ {0} /\ MaxPages \in Nat /\ MaxTime \in Nat

\* The pages of any inline crawl with a limit fit into the channel.
ASSUME InlineAssumption == InlineLimit \in Nat /\ InlineLimit <= Capacity

\* A stored session; removing it leaves none.
SessionRecord ==
    [status : {"Running", "Complete", "Failed"}, pages : Nat, started_at : Nat,
     error : BOOLEAN]

ASSUME NoSessionAssumption == NoSession \notin SessionRecord

VARIABLES
    params, running_ttl,       \* the requests and the environment
    time,
    handler,                   \* where the request of each crawl is
    crawl,                     \* the crawl: unborn, running or how it ended
    aborted,                   \* crawls whose handle was aborted
    sent,                      \* the pages it sent: was a response observed?
    permits,
    reader,                    \* where the task that reads the pages is
    read,                      \* how many it has read
    observed_response_count,
    sessions,
    now, todo, terminal, doomed, \* evict_stale_sessions, per request
    lagged,                    \* auxiliary: readers that fell behind
    crowded                    \* auxiliary: evictions that met another change

asked == <<params, running_ttl>>
crawls == <<crawl, aborted, sent, permits>>
readers == <<reader, read, observed_response_count, lagged>>
evictions == <<now, todo, terminal, doomed>>
sessionVars == <<asked, time, handler, crawls, readers, sessions, evictions, crowded>>

SessionsInit ==
    /\ \E plan \in Plans : params = plan.params /\ running_ttl = plan.running_ttl
    /\ time = 0
    /\ handler = [r \in Request |-> "new"]
    /\ crawl = [r \in Request |-> "unborn"]
    /\ aborted = {}
    /\ sent = [r \in Request |-> << >>]
    /\ permits = ChromePermits
    /\ reader = [r \in Request |-> "off"]
    /\ read = [r \in Request |-> 0]
    /\ observed_response_count = [r \in Request |-> 0]
    /\ sessions = [r \in Request |-> NoSession]
    /\ now = [r \in Request |-> 0]
    /\ todo = [r \in Request |-> {}]
    /\ terminal = [r \in Request |-> {}]
    /\ doomed = [r \in Request |-> {}]
    /\ lagged = {} /\ crowded = {}

Over(r) == crawl[r] \notin {"unborn", "running"}

\* A crawl above INLINE_LIMIT runs in the background, as a session.
Background(r) == params[r].limit > InlineLimit

\* A crawl whose end the code guarantees: by HTTP, where every fetch has a
\* timeout, and within a limit.  Nothing bounds how long a browser takes.
Bounded(r) == ~params[r].headless /\ params[r].limit # 0

\* AbortHandle::abort; nothing happens to a task that is over.
abort(r) == aborted' = IF crawl[r] = "running" THEN aborted \cup {r} ELSE aborted

Go(r, label) == handler' = [handler EXCEPT ![r] = label]

Stored == {k \in Request : sessions[k] # NoSession}

Terminal(k) == sessions[k].status \in {"Complete", "Failed"}

\* How old a session is at the instant t; duration_since saturates at zero.
Age(k, t) == IF t < sessions[k].started_at THEN 0 ELSE t - sessions[k].started_at

\* Requests inside evict_stale_sessions, up to the insertion that follows it.
Evicting == {r \in Request : handler[r] \in {"iter", "expire", "cap"}}

----------------------------------------------------------------------------
(* The request: run, and spawn_crawl_task.                                 *)

\* The crawl starts to run, in a task or, with a browser, in a thread of its
\* own; its request goes on to read its pages or to store a session.
spawn_crawl_task(r) ==
    /\ crawl' = [crawl EXCEPT ![r] = "running"]
    /\ IF Background(r)
       THEN /\ Go(r, "iter")
            /\ now' = [now EXCEPT ![r] = time]
            /\ todo' = [todo EXCEPT ![r] = Stored]
            /\ crowded' = IF Evicting = {} THEN crowded
                          ELSE crowded \cup Evicting \cup {r}
            /\ UNCHANGED reader
       ELSE /\ Go(r, "inline")
            /\ reader' = [reader EXCEPT ![r] = "recv"]
            /\ UNCHANGED <<now, todo, crowded>>
    /\ UNCHANGED <<asked, time, aborted, sent, read, observed_response_count,
                   sessions, terminal, doomed, lagged>>

run(r) ==
    /\ handler[r] = "new" /\ r \in DOMAIN params
    /\ IF params[r].headless
       THEN /\ Go(r, "acquire")
            /\ UNCHANGED <<asked, time, crawls, readers, sessions, evictions, crowded>>
       ELSE spawn_crawl_task(r) /\ UNCHANGED permits

\* A browser crawl waits for a permit before anything is evicted.
acquire(r) ==
    /\ handler[r] = "acquire" /\ permits > 0
    /\ permits' = permits - 1
    /\ spawn_crawl_task(r)

\* The client disconnects while its request waits: the future is dropped, and
\* with it AbortOnDrop, if there is a crawl already.
disconnect(r) ==
    /\ handler[r] \in {"acquire", "inline"}
    /\ Go(r, "dropped")
    /\ abort(r)
    /\ reader' = [reader EXCEPT ![r] = "done"]
    /\ UNCHANGED <<asked, time, crawl, sent, permits, read,
                   observed_response_count, sessions, evictions, lagged, crowded>>

----------------------------------------------------------------------------
(* evict_stale_sessions, called before a session is inserted.              *)

\* Expired at t: a terminal session past SESSION_TTL or, if a running TTL is
\* set, a running one past it.
Expired(k, t) ==
    IF Terminal(k) THEN Age(k, t) >= SessionTtl
    ELSE running_ttl # 0 /\ Age(k, t) >= running_ttl

\* Plausible bug: running sessions are candidates like the others.
Candidate_any(k, t) == ~Expired(k, t)

\* A candidate for the cap.
Candidate(k, t) == Terminal(k) /\ ~Expired(k, t)

\* The iteration visits a session: it is expired, a candidate, left alone, or
\* was removed meanwhile.
visit(r, k) ==
    /\ handler[r] = "iter" /\ k \in todo[r]
    /\ todo' = [todo EXCEPT ![r] = @ \ {k}]
    /\ doomed' = IF k \in Stored /\ Expired(k, now[r])
                 THEN [doomed EXCEPT ![r] = @ \cup {k}] ELSE doomed
    /\ terminal' = IF k \in Stored /\ Candidate(k, now[r])
                   THEN [terminal EXCEPT ![r] = @ \cup {<<k, sessions[k].started_at>>}]
                   ELSE terminal
    /\ UNCHANGED <<asked, time, handler, crawls, readers, sessions, now, crowded>>

iterated(r) ==
    /\ handler[r] = "iter" /\ todo[r] = {}
    /\ Go(r, "expire")
    /\ now' = [now EXCEPT ![r] = 0]
    /\ UNCHANGED <<asked, time, crawls, readers, sessions, todo, terminal, doomed,
                   crowded>>

\* abort_and_remove, for one doomed session after the other; one that another
\* request removed already is passed over.
abort_and_remove(r, k) ==
    /\ handler[r] \in {"expire", "cap"} /\ k \in doomed[r]
    /\ doomed' = [doomed EXCEPT ![r] = @ \ {k}]
    /\ sessions' = [sessions EXCEPT ![k] = NoSession]
    /\ IF k \in Stored THEN abort(k) ELSE UNCHANGED aborted
    /\ UNCHANGED <<asked, time, handler, crawl, sent, permits, readers, now, todo,
                   terminal, crowded>>

\* The oldest n of the candidates, or all of them; equal ages in any order.
Oldest(r, n) ==
    {{d[1] : d \in D} : D \in
        {C \in SUBSET terminal[r] :
            /\ \/ Cardinality(C) = n
               \/ C = terminal[r] /\ Cardinality(C) < n
            /\ \A d \in C, e \in terminal[r] \ C : d[2] <= e[2]}}

\* Plausible bug: no room is made for the session about to be inserted.
overflow_without_room == Cardinality(Stored) - MaxSessions

overflow == Cardinality(Stored) + 1 - MaxSessions

\* The expired are gone: if the cap is still reached, the oldest candidates go.
enforce_cap(r) ==
    /\ handler[r] = "expire" /\ doomed[r] = {}
    /\ IF Cardinality(Stored) >= MaxSessions
       THEN \E D \in Oldest(r, overflow) : doomed' = [doomed EXCEPT ![r] = D]
       ELSE UNCHANGED doomed
    /\ Go(r, "cap")
    /\ terminal' = [terminal EXCEPT ![r] = {}]
    /\ UNCHANGED <<asked, time, crawls, readers, sessions, now, todo, crowded>>

\* The session is inserted, its reader is spawned and the request answered.
\* An iteration that is under way may come by the new session or miss it.
insert_session(r) ==
    /\ handler[r] = "cap" /\ doomed[r] = {}
    /\ sessions' = [sessions EXCEPT ![r] =
                      [status |-> "Running", pages |-> 0, started_at |-> time,
                       error |-> FALSE]]
    /\ reader' = [reader EXCEPT ![r] = "recv"]
    /\ Go(r, "answered")
    /\ \E Q \in SUBSET {q \in Request : handler[q] = "iter"} :
          todo' = [q \in Request |-> IF q \in Q THEN todo[q] \cup {r} ELSE todo[q]]
    /\ UNCHANGED <<asked, time, crawls, read, observed_response_count, lagged,
                   now, terminal, doomed, crowded>>

----------------------------------------------------------------------------
(* The crawl.                                                              *)

\* A permit lives as long as the future that holds it.
Frees(r) == permits' = IF params[r].headless THEN permits + 1 ELSE permits

\* A page with an observed response, or the page of a refused acquisition.
channel_send_page(r, observed) ==
    /\ crawl[r] = "running" /\ Len(sent[r]) < params[r].pages
    /\ sent' = [sent EXCEPT ![r] = Append(@, observed)]
    /\ UNCHANGED <<asked, time, handler, crawl, aborted, permits, readers,
                   sessions, evictions, crowded>>

\* The crawl is over, its channel closes and its permit is free.
Ends(r, how) ==
    /\ crawl[r] = "running"
    /\ crawl' = [crawl EXCEPT ![r] = how]
    /\ aborted' = aborted \ {r}
    /\ Frees(r)
    /\ UNCHANGED <<asked, time, handler, sent, readers, sessions, evictions, crowded>>

\* By completion or by a panic, which unwinds the future: for the others the
\* crawl is over either way.
crawl_ends(r) == Ends(r, "over")

\* The one error a crawl returns: its transport could not be set up, and then
\* nothing was observed.
transport_fails(r) ==
    /\ Ends(r, "transport_error")
    /\ params[r].tor /\ TRUE \notin {sent[r][i] : i \in DOMAIN sent[r]}

\* An aborted task is dropped where it awaits.  The thread of a browser crawl
\* is not reached by the abort of the task that waits for it: it runs on.
cancelled(r) ==
    /\ r \in aborted /\ ~params[r].headless
    /\ Ends(r, "over")

\* crawl_join yields: the crawl is over, or its wrapping task was cancelled.
Joined(r) == Over(r) \/ (r \in aborted /\ params[r].headless)

TransportError(r) == crawl[r] = "transport_error"

----------------------------------------------------------------------------
(* The reader: `while let Ok(page) = rx.recv().await`, in the request for  *)
(* an inline crawl and in a task of its own for a session.                 *)

Lagged(r) == Len(sent[r]) - read[r] > Capacity

\* The session of r, if it is still stored, becomes s.
Update(r, s) ==
    sessions' = IF r \in Stored THEN [sessions EXCEPT ![r] = s] ELSE sessions

\* The request of an inline crawl returns; AbortOnDrop drops with it.
Return(r, answer) ==
    /\ Go(r, answer)
    /\ abort(r)

\* A page is transformed and kept.
recv_page(r) ==
    /\ reader[r] = "recv" /\ ~Lagged(r) /\ read[r] < Len(sent[r])
    /\ read' = [read EXCEPT ![r] = @ + 1]
    /\ observed_response_count' = IF sent[r][read[r] + 1]
                                  THEN [observed_response_count EXCEPT ![r] = @ + 1]
                                  ELSE observed_response_count
    /\ Update(r, [sessions[r] EXCEPT !.pages = @ + 1])
    /\ UNCHANGED <<asked, time, handler, crawls, reader, lagged, evictions, crowded>>

\* A page came without the screenshot that was asked for: reading stops with
\* a failure, the crawl of a session is left to itself.
screenshot_content_or_error(r) ==
    /\ reader[r] = "recv" /\ ~Lagged(r) /\ read[r] < Len(sent[r])
    /\ params[r].screenshot
    /\ reader' = [reader EXCEPT ![r] = "done"]
    /\ IF Background(r)
       THEN /\ Update(r, [sessions[r] EXCEPT !.status = "Failed"])
            /\ crowded' = crowded \cup Evicting
            /\ UNCHANGED <<handler, aborted>>
       ELSE Return(r, "refused") /\ UNCHANGED <<sessions, crowded>>
    /\ UNCHANGED <<asked, time, crawl, sent, permits, read,
                   observed_response_count, lagged, evictions>>

\* The channel is closed once the crawl is over and everything was read.
Closed(r) == ~Lagged(r) /\ read[r] = Len(sent[r]) /\ Over(r)

\* Plausible bug: every page counts, also the page of a refused acquisition.
Observed_any(r) == read[r] > 0

Observed(r) == observed_response_count[r] > 0

\* The loop ends at the first error of recv, a lag like a closed channel.
\* Without an observed response the outcome of the crawl is awaited.
drained(r) ==
    /\ reader[r] = "recv"
    /\ Lagged(r) \/ Closed(r)
    /\ lagged' = IF Lagged(r) THEN lagged \cup {r} ELSE lagged
    /\ IF Background(r)
       THEN /\ reader' = [reader EXCEPT ![r] = IF Observed(r) THEN "done" ELSE "join"]
            /\ IF Observed(r)
               THEN /\ Update(r, [sessions[r] EXCEPT !.status = "Complete"])
                    /\ crowded' = crowded \cup Evicting
               ELSE UNCHANGED <<sessions, crowded>>
            /\ UNCHANGED <<handler, aborted>>
       ELSE /\ IF read[r] = 0
               THEN /\ reader' = [reader EXCEPT ![r] = "join"]
                    /\ UNCHANGED <<handler, aborted>>
               ELSE /\ reader' = [reader EXCEPT ![r] = "done"]
                    /\ Return(r, IF Observed(r) THEN "success" ELSE "refused")
            /\ UNCHANGED <<sessions, crowded>>
    /\ UNCHANGED <<asked, time, crawl, sent, permits, read,
                   observed_response_count, evictions>>

\* Plausible bug: only a transport error makes the session fail.
joined_only_with_error(r) ==
    /\ reader[r] = "join" /\ Joined(r)
    /\ reader' = [reader EXCEPT ![r] = "done"]
    /\ IF Background(r)
       THEN /\ IF TransportError(r)
               THEN Update(r, [sessions[r] EXCEPT !.status = "Failed", !.error = TRUE])
               ELSE UNCHANGED sessions
            /\ crowded' = crowded \cup Evicting
            /\ UNCHANGED <<handler, aborted>>
       ELSE Return(r, "refused") /\ UNCHANGED <<sessions, crowded>>
    /\ UNCHANGED <<asked, time, crawl, sent, permits, read,
                   observed_response_count, lagged, evictions>>

\* crawl_join.await: the session fails, with the transport error if there is
\* one; an inline request without a page is refused either way.
joined(r) ==
    /\ reader[r] = "join" /\ Joined(r)
    /\ reader' = [reader EXCEPT ![r] = "done"]
    /\ IF Background(r)
       THEN /\ Update(r, [sessions[r] EXCEPT !.status = "Failed",
                                             !.error = TransportError(r)])
            /\ crowded' = crowded \cup Evicting
            /\ UNCHANGED <<handler, aborted>>
       ELSE Return(r, "refused") /\ UNCHANGED <<sessions, crowded>>
    /\ UNCHANGED <<asked, time, crawl, sent, permits, read,
                   observed_response_count, lagged, evictions>>

----------------------------------------------------------------------------
tick ==
    /\ time < MaxTime
    /\ time' = time + 1
    /\ UNCHANGED <<asked, handler, crawls, readers, sessions, evictions, crowded>>

EvictStep(r) ==
    \/ \E k \in Request : visit(r, k) \/ abort_and_remove(r, k)
    \/ iterated(r) \/ enforce_cap(r) \/ insert_session(r)

CrawlStep(r) ==
    \/ crawl_ends(r) \/ transport_fails(r) \/ cancelled(r)

ReaderStep(r) ==
    \/ recv_page(r) \/ screenshot_content_or_error(r) \/ drained(r) \/ joined(r)

SessionsNext ==
    \/ \E r \in Request :
          \/ run(r) \/ acquire(r) \/ disconnect(r)
          \/ EvictStep(r) \/ CrawlStep(r) \/ ReaderStep(r)
          \/ \E observed \in BOOLEAN : channel_send_page(r, observed)
    \/ tick

SessionsSpec == SessionsInit /\ [][SessionsNext]_sessionVars

(***************************************************************************)
(* The runtime drives the tasks and cancels the aborted ones, a bounded    *)
(* crawl ends (property CrawlEnds of Crawl), and a free permit is handed   *)
(* to somebody who waits: as long as one of these steps is possible, one   *)
(* of them happens.  A crawl with a browser, or without a limit, need not  *)
(* end.  Clients need not ask, disconnect or come back, and crawls need    *)
(* not send pages.                                                         *)
(***************************************************************************)
SessionsFairness ==
    WF_sessionVars(\E r \in Request :
        \/ acquire(r) \/ EvictStep(r) \/ ReaderStep(r) \/ cancelled(r)
        \/ CrawlStep(r) /\ Bounded(r))

----------------------------------------------------------------------------
(* Properties.                                                             *)

SessionsTypeOK ==
    /\ [params |-> params, running_ttl |-> running_ttl] \in Plans
    /\ time \in 0 .. MaxTime
    /\ handler \in [Request -> {"new", "acquire", "inline", "iter", "expire", "cap",
                                "answered", "success", "refused", "dropped"}]
    /\ crawl \in [Request -> {"unborn", "running", "over", "transport_error"}]
    /\ aborted \subseteq Request /\ permits \in 0 .. ChromePermits
    /\ sent \in [Request -> Seq(BOOLEAN)]
    /\ reader \in [Request -> {"off", "recv", "join", "done"}]
    /\ read \in [Request -> Nat] /\ observed_response_count \in [Request -> Nat]
    /\ sessions \in [Request -> {NoSession} \cup SessionRecord]
    /\ now \in [Request -> 0 .. MaxTime]
    /\ todo \in [Request -> SUBSET Request]
    /\ terminal \in [Request -> SUBSET (Request \X (0 .. MaxTime))]
    /\ doomed \in [Request -> SUBSET Request]
    /\ lagged \subseteq Request /\ crowded \subseteq Request

\* "In-flight sessions are never evicted", however evictions of several
\* requests overlap with readers that complete: a session leaves the map
\* while it is running only past the running TTL, if one is set.
RunningIsKept ==
    [][\A k \in Stored :
          sessions[k].status = "Running" /\ sessions'[k] = NoSession =>
              running_ttl # 0 /\ Age(k, time) >= running_ttl]_sessionVars

\* The channel keeps every page of an inline crawl that has a limit.
Fits(r) == params[r].limit \in 1 .. InlineLimit

\* Success is earned: a complete session, and an inline answer, rest on an
\* observed response; and unless the reader fell behind the channel, which an
\* inline request with a limit never does, the crawl is over and every page
\* it sent was delivered.
SuccessIsEarned ==
    \A r \in Request :
        /\ \/ handler[r] = "success"
           \/ r \in Stored /\ sessions[r].status = "Complete"
        => /\ \E i \in 1 .. read[r] : sent[r][i]
           /\ r \notin lagged \/ Fits(r) => Over(r) /\ read[r] = Len(sent[r])
           /\ r \in Stored => sessions[r].pages = read[r]

\* An eviction that met no other eviction, and during which no session came
\* to its end, makes room below the cap or leaves only running sessions.
EvictionMakesRoom ==
    \A r \in Request :
        handler[r] = "cap" /\ doomed[r] = {} /\ r \notin crowded =>
            \/ Cardinality(Stored) < MaxSessions
            \/ \A k \in Stored : ~Terminal(k)

\* The request has its answer, and its session, if it got one, is not (or no
\* longer) running.
Settled(r) ==
    /\ handler[r] \in {"answered", "success", "refused", "dropped"}
    /\ r \in Stored => sessions[r].status # "Running"

\* A request for a bounded crawl settles, whatever the others do: its reader
\* does not wait for ever, also when the channel lags or the crawl was aborted,
\* and it needs no permit.  The others settle too, those that wait for a
\* browser included, unless some unbounded crawl never ends: its session then
\* stays "running" and, if it has a browser, its permit is gone.
RequestsSettle ==
    \A r \in Request :
        \/ (handler[r] # "new") ~> Settled(r)
        \/ \E k \in Request :
              <>[](/\ handler[r] # "new" /\ ~Bounded(r)
                   /\ crawl[k] = "running" /\ ~Bounded(k))

\* What AbortOnDrop, abort_and_remove and spawn_crawl_task say of an abort,
\* by a client that disconnects or an eviction: the crawl stops, and the
\* browser and the permit it holds are released.
AbortReleasesTheBrowser ==
    \A r \in Request : (r \in aborted) ~> Over(r)

\* What abort_and_remove says of the sessions it evicts: "for terminal
\* sessions the crawl has already finished".
CrawlIsOverWhenTerminal ==
    \A k \in Stored : Terminal(k) => Over(k)
=============================================================================
