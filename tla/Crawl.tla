------------------------------- MODULE Crawl -------------------------------
(***************************************************************************)
(* The raw HTTP crawl of a Website (spider/src/website.rs: crawl_raw,      *)
(* setup, crawl_cache_phase, crawl_concurrent_raw).  One driver task owns  *)
(* the visited set, the budget and the frontier; it hands admitted links   *)
(* to worker tasks under a semaphore and joins their results.  Around it   *)
(* run the control handler (pause, resume, shutdown through a watch        *)
(* channel), producers of queued links, other crawls that share the        *)
(* semaphore, and the crawl timeout, which drops the driver at any await.  *)
(*                                                                         *)
(* Modelled: the build with the control and cache features and without     *)
(* disk and sitemap, where is_signature_allowed is true of every page, and *)
(* callbacks that do not rewrite links.  A worker's fetch stands for all   *)
(* its retries.  stop() needs the Website that the crawl borrows, so the   *)
(* shutdown flag is never set while a crawl runs.                          *)
(***************************************************************************)
EXTENDS Integers, FiniteSets, Sequences

CONSTANTS
    Link,           \* the URLs
    Seed,           \* Website.url
    Points,         \* the links found on the page of each URL
    Disallowed,     \* refused by allow and deny lists, robots or depth
    Outside,        \* refused by the transport boundary of the crawl
    Cached,         \* the HTTP cache may hold these; none if not configured
    Section,        \* the links under the one path that has a budget
    Budgets,        \* the budgets a caller may configure: "*" and Section
    NoLimit,        \* no such key in the budget
    MaxCounter,     \* the greatest value of a budget counter (u32::MAX)
    Permits,        \* permits of the semaphore
    ExtraLimit,     \* EXTRA_LINKS_MEMORY_LIMIT
    QueueCapacity,  \* capacity of the broadcast channel behind queue()
    NoLink,
    Event,          \* the kinds of events that are bounded
    Allowances      \* bound: how many of each kind one behaviour may have

ASSUME LinkAssumption ==
    /\ Seed \in Link /\ NoLink \notin Link
    /\ Points \in [Link -> SUBSET Link]
    /\ Disallowed \subseteq Link /\ Outside \subseteq Link
    /\ Cached \subseteq Link /\ Section \subseteq Link

\* URLs have a bounded length.
ASSUME SiteAssumption == IsFiniteSet(Link)

ASSUME LimitAssumption ==
    /\ NoLimit \notin Nat
    /\ MaxCounter \in Nat \ {0}
    /\ Budgets \subseteq [wild : (0 .. MaxCounter) \cup {NoLimit},
                          path : (0 .. MaxCounter) \cup {NoLimit}]

\* crawl: crawls of this Website; signal: control messages; link: links that
\* other tasks and callers hand in; hit: pages found in the cache; panic:
\* workers that panic; others: permits that other crawls may hold; tick:
\* steps of the crawl timeout (none if it is not configured); close: of an
\* externally owned semaphore.
ASSUME BoundAssumption ==
    /\ Permits \in Nat
    /\ ExtraLimit \in Nat /\ QueueCapacity \in Nat \ {0}
    /\ Event = {"crawl", "signal", "link", "hit", "panic", "others", "tick",
                "close"}
    /\ Allowances \subseteq [Event -> Nat]

VARIABLES
    \* the Website, which outlives a crawl
    visited,        \* links_visited
    extra,          \* extra_links
    skip_initial,
    status,         \* "Active" between crawls after persist_links
    budget,         \* inner_budget: the "*" key and the key of Section
    \* the driver
    phase,          \* where the driver is
    cur,            \* the link it is working on
    links,          \* the next batch
    stream,         \* what is left of the current batch
    misses,         \* cache_misses of the cache phase
    exceeded,       \* exceeded_budget
    worker,         \* the JoinSet: the state of the task of each link
    \* what surrounds it
    message,        \* last value of the control channel
    unseen,         \* the control handler has not looked at it yet
    handle,         \* the AtomicI8 of the crawl: 0 go, 1 pause, 2 shut down
    queue,          \* links queued by other tasks, not yet dequeued
    others,         \* permits other crawls hold
    closed,         \* an externally owned semaphore was closed
    clock,          \* 1: crawl_timeout passed; 2: also since crawl_breaker
    \* auxiliary
    limit,          \* the "*" budget of this crawl
    found,          \* links of this crawl's start, queue and fetched pages
    fetches,        \* fetches of each URL over the network in this crawl
    pages,          \* pages fetched or served from the cache in this crawl
    cause,          \* what made this crawl drop links without a trace
    late,           \* workers spawned since the handle said pause
    allow           \* how many events of each kind may still happen

website == <<visited, extra, skip_initial, status>>
frontier == <<cur, links, stream, misses, exceeded>>
control == <<message, unseen, handle>>
environment == <<queue, others, closed, clock>>
history == <<limit, found, fetches, pages, cause, late>>

vars == <<website, budget, phase, frontier, worker, control, environment,
          history, allow>>

Init ==
    /\ visited = {} /\ extra = {} /\ skip_initial = FALSE /\ status = "Idle"
    /\ budget = [wild |-> NoLimit, path |-> NoLimit]
    /\ phase = "idle" /\ cur = NoLink /\ links = {} /\ stream = {}
    /\ misses = {} /\ exceeded = FALSE
    /\ worker = [l \in Link |-> "none"]
    /\ message = "none" /\ unseen = FALSE /\ handle = 0
    /\ queue = <<>> /\ others = 0 /\ closed = FALSE /\ clock = 0
    /\ limit = NoLimit /\ found = {} /\ fetches = [l \in Link |-> 0]
    /\ pages = 0 /\ cause = {} /\ late = 0
    /\ allow \in Allowances

----------------------------------------------------------------------------
\* An event whose number is bounded.
spend(event) ==
    /\ allow[event] > 0
    /\ allow' = [allow EXCEPT ![event] = @ - 1]

(* The semaphore and the JoinSet.  A worker drops its permit before it     *)
(* returns, so a finished task that was not joined yet holds none.         *)
Working == {l \in Link : worker[l] # "none"}

Holding == {l \in Link : worker[l] = "running"}

\* available_permits() of the semaphore of the crawl.
Available == Permits - (Cardinality(Holding) + others)

\* What joining a finished task yields.
Result(l) == IF worker[l] = "full" THEN Points[l] ELSE {}

----------------------------------------------------------------------------
(* Admission: is_allowed and the budget it charges.                        *)

\* Allow and deny lists, robots and depth depend on the link alone.
is_allowed_default(l) == l \notin Disallowed

\* Plausible bug: the visited set is not consulted.
is_allowed_revisits(l) == is_allowed_default(l)

is_allowed_budgetless(l) == l \notin visited /\ is_allowed_default(l)

\* Plausible bug: the last unit of the budget is spent on a link, as if the
\* seed had been charged.
is_over_inner_budget_late(l) ==
    budget.wild = 0 \/ (l \in Section /\ budget.path = 0)

\* A "*" budget is over at 1, because the seed is never charged; the budget
\* of a path is over at 0.
is_over_inner_budget(l) ==
    budget.wild = 1 \/ (l \in Section /\ budget.path = 0)

\* The "*" key is charged before the path is looked at, and unsigned
\* arithmetic wraps: a budget of 0 is in effect unlimited.
charged(l) ==
    [wild |-> IF budget.wild \in {NoLimit, 1} THEN budget.wild
              ELSE IF budget.wild = 0 THEN MaxCounter ELSE budget.wild - 1,
     path |-> IF l \in Section /\ budget.wild # 1
                               /\ budget.path \notin {NoLimit, 0}
              THEN budget.path - 1 ELSE budget.path]

single_page == budget.wild = 1

\* extra_links after extra_links_extend(S): everything, or as much as fits.
extra_links_with(S) ==
    {extra \cup T : T \in {U \in SUBSET S :
        \/ U = S /\ Cardinality(extra \cup S) <= ExtraLimit
        \/ Cardinality(extra \cup U) = ExtraLimit
        \/ U = {} /\ Cardinality(extra) >= ExtraLimit}}

\* Drain the queue into the batch B, without charging the budget; the last
\* thing a step does, after it changed the visited set.
dequeue(B) ==
    /\ links' = B \cup {l \in Link :
                  /\ \E i \in DOMAIN queue : queue[i] = l
                  /\ is_allowed_budgetless(l)'}
    /\ found' = found \cup links'
    /\ queue' = <<>>

----------------------------------------------------------------------------
(* Between crawls.                                                         *)

\* The crawl is over: the driver's locals, its tasks, its queue receiver and
\* its control handler are gone.
set_crawl_status ==
    /\ phase' = "idle" /\ status' = "Idle"
    /\ cur' = NoLink /\ links' = {} /\ stream' = {} /\ misses' = {}
    /\ exceeded' = FALSE
    /\ worker' = [l \in Link |-> "none"]
    /\ unseen' = FALSE /\ handle' = 0 /\ late' = 0
    /\ queue' = <<>> /\ clock' = 0

\* A crawl starts: determine_limits copies the configured budget, setup
\* clears what the last crawl left unless persist_links was called, and the
\* new control handler has not seen the channel's last value, however old.
crawl_raw(b) ==
    /\ phase = "idle" /\ spend("crawl")
    /\ budget' = b
    /\ IF status = "Active"
       THEN /\ skip_initial' = (extra # {})
            /\ found' = IF extra = {} THEN {Seed} ELSE extra
            /\ UNCHANGED <<visited, extra>>
       ELSE /\ visited' = {} /\ extra' = {} /\ found' = {Seed}
            /\ UNCHANGED skip_initial
    /\ phase' = IF Cached = {} THEN "begin" ELSE "cache"
    /\ handle' = 0 /\ unseen' = (message # "none")
    /\ limit' = b.wild /\ fetches' = [l \in Link |-> 0] /\ pages' = 0
    /\ cause' = {} /\ late' = 0
    /\ UNCHANGED <<status, frontier, worker, message, environment>>

\* A one-page crawl whose page is cached needs no setup.
try_cache_shortcircuit(b) ==
    /\ phase = "idle" /\ spend("crawl")
    /\ b.wild = 1 /\ Seed \in Cached
    /\ visited' = visited \cup {Seed} /\ status' = "Idle"
    /\ budget' = b
    /\ limit' = b.wild /\ found' = {Seed} /\ fetches' = [l \in Link |-> 0]
    /\ pages' = 1 /\ cause' = {}
    /\ UNCHANGED <<extra, skip_initial, phase, frontier, worker, control,
                   environment, late>>

persist_links ==
    /\ phase = "idle" /\ status # "Active" /\ status' = "Active"
    /\ UNCHANGED <<visited, extra, skip_initial, budget, phase, frontier,
                   worker, control, environment, history, allow>>

set_extra_links(l) ==
    /\ phase = "idle" /\ spend("link")
    /\ extra' \in extra_links_with({l})
    /\ UNCHANGED <<visited, skip_initial, status, budget, phase, frontier,
                   worker, control, environment, history>>

----------------------------------------------------------------------------
(* crawl_cache_phase.  An entry may be evicted between any two lookups.    *)
(* The links of the current and of the next round are one set.             *)

cache_seed_miss ==
    /\ phase = "cache" /\ phase' = "begin"
    /\ UNCHANGED <<website, budget, frontier, worker, control, environment,
                   history, allow>>

\* The page of the seed is served; its links are followed unless
\* on_should_crawl refuses the page or one page is all that was asked for.
cache_seed_hit ==
    /\ phase = "cache" /\ Seed \in Cached /\ spend("hit")
    /\ visited' = visited \cup {Seed} /\ pages' = pages + 1
    /\ UNCHANGED <<extra, skip_initial, budget, message, others, closed, limit,
                   fetches, cause>>
    /\ \/ /\ set_crawl_status
          /\ UNCHANGED found
       \/ /\ ~single_page
          /\ phase' = "cache_loop" /\ status' = "Active"
          /\ links' = Points[Seed] /\ found' = found \cup Points[Seed]
          /\ UNCHANGED <<cur, stream, misses, exceeded, worker, unseen, handle,
                         late, queue, clock>>

\* One link of the cached crawl: over the budget the rest is dropped, a
\* blocked link is skipped, a miss is left to the network crawl, which will
\* charge the budget for it again, a hit yields links unless refused.
cache_link(l) ==
    /\ phase = "cache_loop" /\ l \in links
    /\ IF ~is_allowed_budgetless(l)
       THEN /\ links' = links \ {l}
            /\ UNCHANGED <<visited, budget, misses, found, pages, cause, allow>>
       ELSE /\ budget' = charged(l)
            /\ \/ /\ is_over_inner_budget(l)
                  /\ links' = {} /\ cause' = cause \cup {"budget"}
                  /\ UNCHANGED <<visited, misses, found, pages, allow>>
               \/ /\ ~is_over_inner_budget(l)
                  /\ links' = links \ {l} /\ misses' = misses \cup {l}
                  /\ UNCHANGED <<visited, found, pages, cause, allow>>
               \/ /\ ~is_over_inner_budget(l) /\ l \in Cached /\ spend("hit")
                  /\ visited' = visited \cup {l} /\ pages' = pages + 1
                  /\ \E new \in {Points[l], {}} :
                        /\ links' = (links \ {l}) \cup new
                        /\ found' = found \cup new
                  /\ UNCHANGED <<misses, cause>>
    /\ UNCHANGED <<extra, skip_initial, status, phase, cur, stream, exceeded,
                   worker, control, environment, limit, fetches, late>>

cache_end ==
    /\ phase = "cache_loop" /\ links = {}
    /\ IF misses = {}
       THEN /\ set_crawl_status
            /\ UNCHANGED <<extra, cause>>
       ELSE /\ extra' \in extra_links_with(misses)
            /\ cause' = IF misses \subseteq extra' THEN cause
                        ELSE cause \cup {"full"}
            /\ misses' = {} /\ phase' = "begin"
            /\ UNCHANGED <<status, cur, links, stream, exceeded, worker, unseen,
                           handle, late, queue, clock>>
    /\ UNCHANGED <<visited, skip_initial, budget, message, others, closed,
                   limit, found, fetches, pages, allow>>

----------------------------------------------------------------------------
(* crawl_concurrent_raw up to its loop.                                    *)

\* Links handed over by the cache phase or the caller replace the seed.  A
\* one-page crawl only establishes the base; otherwise the queue is
\* subscribed to and the batch starts with the extra links.
begin ==
    /\ phase = "begin"
    /\ status' = "Active"
    /\ skip_initial' = (skip_initial \/ extra # {})
    /\ cause' = IF skip_initial' /\ Seed \in found \ visited
                THEN cause \cup {"skipped"} ELSE cause
    /\ IF single_page
       THEN phase' = "single" /\ UNCHANGED <<extra, links>>
       ELSE phase' = "establish" /\ links' = extra /\ extra' = {}
    /\ queue' = <<>>
    /\ UNCHANGED <<visited, budget, cur, stream, misses, exceeded, worker,
                   control, others, closed, clock, limit, found, fetches, pages,
                   late, allow>>

\* _crawl_establish: the page of the seed, unless it is skipped or refused;
\* its links follow unless one page is all, or on_should_crawl says no.
_crawl_establish ==
    /\ phase \in {"single", "establish"}
    /\ IF skip_initial \/ ~is_allowed_default(Seed)
       THEN /\ UNCHANGED <<visited, fetches, pages>>
            /\ dequeue(links)
       ELSE /\ visited' = visited \cup {Seed}
            /\ fetches' = [fetches EXCEPT ![Seed] = @ + 1]
            /\ pages' = pages + 1
            /\ \E new \in {IF phase = "single" THEN {} ELSE Points[Seed], {}} :
                  dequeue(links \cup new)
    /\ phase' = IF phase = "single" THEN "store" ELSE "outer"
    /\ UNCHANGED <<extra, skip_initial, status, budget, cur, stream, misses,
                   exceeded, worker, control, others, closed, clock, limit,
                   cause, late, allow>>

----------------------------------------------------------------------------
(* The loop of crawl_concurrent_raw: batches of links, admitted one by one *)
(* and joined as they finish.                                              *)

next_batch ==
    /\ phase = "outer" /\ phase' = "select"
    /\ stream' = links /\ links' = {}
    /\ UNCHANGED <<website, budget, cur, misses, exceeded, worker, control,
                   environment, history, allow>>

\* The biased select! with its preconditions: a link while a permit is free
\* and crawl_duration_expired is false, else a finished task, else the end
\* of the batch with whatever is left of it.  A permit that is missing while
\* this crawl runs at most one task is another crawl's doing.
select ==
    /\ phase = "select"
    /\ IF stream # {} /\ Available > 0 /\ clock < 2
       THEN /\ \E l \in stream : cur' = l /\ stream' = stream \ {l}
            /\ phase' = "gate"
            /\ UNCHANGED cause
       ELSE /\ cause' = cause
               \cup (IF stream # {} /\ Available = 0 /\ Cardinality(Working) <= 1
                     THEN {"permits"} ELSE {})
               \cup (IF stream # {} /\ clock = 2 THEN {"timeout"} ELSE {})
            /\ IF Working # {}
               THEN phase' = "join" /\ UNCHANGED stream
               ELSE phase' = "guard" /\ stream' = {}
            /\ UNCHANGED cur
    /\ UNCHANGED <<website, budget, links, misses, exceeded, worker, control,
                   environment, limit, found, fetches, pages, late, allow>>

\* Plausible bug: a paused crawl does not wait.
handle_process_ignores_pause ==
    /\ phase = "gate"
    /\ phase' = "admit"
    /\ UNCHANGED <<website, budget, frontier, worker, control, environment,
                   history, allow>>

\* The first load of handle_process: wait while the crawl is paused.
handle_process ==
    /\ phase = "gate" /\ handle # 1
    /\ phase' = "admit"
    /\ UNCHANGED <<website, budget, frontier, worker, control, environment,
                   history, allow>>

\* Plausible bug: the rest of the batch is not kept.
shutdown_drops_the_batch ==
    /\ phase = "admit" /\ handle = 2
    /\ worker' = [l \in Link |-> "none"]
    /\ stream' = {} /\ cur' = NoLink
    /\ cause' = cause \cup {"shutdown"}
                      \cup (IF Working \subseteq Holding THEN {} ELSE {"aborted"})
    /\ phase' = "store"
    /\ UNCHANGED <<website, budget, links, misses, exceeded, control,
                   environment, limit, found, fetches, pages, late, allow>>

\* The second load says shut down: the tasks are aborted, the rest of the
\* batch is kept for a later crawl, the link at hand is not.
shutdown ==
    /\ phase = "admit" /\ handle = 2
    /\ worker' = [l \in Link |-> "none"]
    /\ extra' \in extra_links_with(stream)
    /\ stream' = {} /\ cur' = NoLink
    /\ cause' = cause \cup {"shutdown"}
                      \cup (IF Working \subseteq Holding THEN {} ELSE {"aborted"})
    /\ phase' = "store"
    /\ UNCHANGED <<visited, skip_initial, status, budget, links, misses,
                   exceeded, control, environment, limit, found, fetches, pages,
                   late, allow>>

\* A link is_allowed blocks, or the transport boundary refuses after the
\* budget was charged for it.
skip_link ==
    /\ phase = "admit" /\ handle # 2
    /\ \/ ~is_allowed_budgetless(cur) /\ UNCHANGED budget
       \/ /\ is_allowed_budgetless(cur) /\ ~is_over_inner_budget(cur)
          /\ cur \in Outside /\ budget' = charged(cur)
    /\ cur' = NoLink /\ phase' = "select"
    /\ UNCHANGED <<website, links, stream, misses, exceeded, worker, control,
                   environment, history, allow>>

\* Plausible bug: the link is put back for the next batch.
budget_exceeded_requeues ==
    /\ phase = "admit" /\ handle # 2
    /\ is_allowed_budgetless(cur) /\ is_over_inner_budget(cur)
    /\ budget' = charged(cur) /\ exceeded' = TRUE
    /\ links' = links \cup {cur} /\ stream' = {} /\ cur' = NoLink
    /\ cause' = cause \cup {"budget"}
    /\ phase' = "guard"
    /\ UNCHANGED <<website, misses, worker, control, environment, limit,
                   found, fetches, pages, late, allow>>

\* BudgetExceeded leaves the inner loop, past the code that would keep the
\* rest of the batch.
budget_exceeded ==
    /\ phase = "admit" /\ handle # 2
    /\ is_allowed_budgetless(cur) /\ is_over_inner_budget(cur)
    /\ budget' = charged(cur) /\ exceeded' = TRUE
    /\ stream' = {} /\ cur' = NoLink
    /\ cause' = cause \cup {"budget"}
    /\ phase' = "guard"
    /\ UNCHANGED <<website, links, misses, worker, control, environment, limit,
                   found, fetches, pages, late, allow>>

\* The link is visited from here on, before a permit is waited for.
insert_link ==
    /\ phase = "admit" /\ handle # 2
    /\ is_allowed_budgetless(cur) /\ ~is_over_inner_budget(cur)
    /\ cur \notin Outside
    /\ budget' = charged(cur)
    /\ visited' = visited \cup {cur}
    /\ phase' = "acquire"
    /\ UNCHANGED <<extra, skip_initial, status, frontier, worker, control,
                   environment, history, allow>>

spawn_page_fetch ==
    /\ phase = "acquire" /\ Available > 0 /\ ~closed
    /\ worker' = [worker EXCEPT ![cur] = "running"]
    /\ fetches' = [fetches EXCEPT ![cur] = @ + 1]
    /\ pages' = pages + 1
    /\ late' = IF handle = 1 THEN late + 1 ELSE late
    /\ cur' = NoLink /\ phase' = "check"
    /\ UNCHANGED <<website, budget, links, stream, misses, exceeded, control,
                   environment, limit, found, cause, allow>>

\* The semaphore is closed: the link is given back, the batch is not.
acquire_fails ==
    /\ phase = "acquire" /\ closed
    /\ visited' = visited \ {cur}
    /\ extra' \in extra_links_with({cur})
    /\ cur' = NoLink /\ stream' = {}
    /\ cause' = IF stream = {} THEN cause ELSE cause \cup {"closed"}
    /\ phase' = "guard"
    /\ UNCHANGED <<skip_initial, status, budget, links, misses, exceeded, worker,
                   control, environment, limit, found, fetches, pages, late,
                   allow>>

\* A task ends, its permit dropped.
worker_ends(l, how) ==
    /\ worker[l] = "running"
    /\ worker' = [worker EXCEPT ![l] = how]
    /\ UNCHANGED <<website, budget, phase, frontier, control, environment,
                   limit, fetches, pages, cause, late>>

\* The page is fetched, after retries, and its links are handed over.
page_fetched(l) ==
    /\ worker_ends(l, "full")
    /\ found' = found \cup Points[l]
    /\ UNCHANGED allow

\* The boundary or on_should_crawl refuses the page, or it has no content.
page_refused(l) == worker_ends(l, "empty") /\ UNCHANGED <<found, allow>>

page_panics(l) == worker_ends(l, "panicked") /\ spend("panic") /\ UNCHANGED found

page_fetch(l) == page_fetched(l) \/ page_refused(l) \/ page_panics(l)

\* extend_links keeps what was not visited.  A panic ends the batch.
join_next ==
    /\ phase = "join"
    /\ \E l \in Working \ Holding :
          /\ worker' = [worker EXCEPT ![l] = "none"]
          /\ IF worker[l] = "panicked"
             THEN /\ phase' = "guard" /\ stream' = {}
                  /\ cause' = IF stream = {} THEN cause ELSE cause \cup {"panic"}
                  /\ UNCHANGED links
             ELSE /\ phase' = "check"
                  /\ links' = links \cup (Result(l) \ visited)
                  /\ UNCHANGED <<stream, cause>>
    /\ UNCHANGED <<website, budget, cur, misses, exceeded, control, environment,
                   limit, found, fetches, pages, late, allow>>

\* Plausible bug: the tasks still running are forgotten.
check_forgets_tasks ==
    /\ phase = "check"
    /\ UNCHANGED visited
    /\ dequeue(links)
    /\ phase' = IF links' = {} /\ stream = {} THEN "store" ELSE "select"
    /\ UNCHANGED <<extra, skip_initial, status, budget, cur, stream, misses,
                   exceeded, worker, control, others, closed, clock, limit,
                   fetches, pages, cause, late, allow>>

\* After each event: done when nothing is queued or running (the rest of the
\* batch is dropped), or when the budget is spent (it is kept).
check ==
    /\ phase = "check"
    /\ UNCHANGED visited
    /\ dequeue(links)
    /\ IF exceeded
       THEN /\ phase' = "drain" /\ stream' = {}
            /\ extra' \in extra_links_with(stream)
       ELSE /\ UNCHANGED extra
            /\ IF links' = {} /\ Working = {}
               THEN phase' = "store" /\ stream' = {}
               ELSE phase' = "select" /\ UNCHANGED stream
    /\ UNCHANGED <<skip_initial, status, budget, cur, misses, exceeded, worker,
                   control, others, closed, clock, limit, fetches, pages, cause,
                   late, allow>>

\* Over the budget, the results of the tasks in flight are kept for later.
drain ==
    /\ phase = "drain"
    /\ IF Working = {}
       THEN phase' = "store" /\ UNCHANGED <<extra, worker>>
       ELSE \E l \in Working \ Holding :
              /\ worker' = [worker EXCEPT ![l] = "none"]
              /\ extra' \in extra_links_with(Result(l))
              /\ UNCHANGED phase
    /\ UNCHANGED <<visited, skip_initial, status, budget, frontier, control,
                   environment, history, allow>>

\* The end of a batch.
end_batch ==
    /\ phase = "guard"
    /\ UNCHANGED visited
    /\ dequeue(links)
    /\ phase' = IF links' = {} /\ Working = {} THEN "store" ELSE "outer"
    /\ UNCHANGED <<extra, skip_initial, status, budget, cur, stream, misses,
                   exceeded, worker, control, others, closed, clock, limit,
                   fetches, pages, cause, late, allow>>

store_extra_links ==
    /\ phase = "store"
    /\ extra' \in extra_links_with(links)
    /\ set_crawl_status
    /\ UNCHANGED <<visited, skip_initial, budget, message, others, closed, limit,
                   found, fetches, pages, cause, allow>>

----------------------------------------------------------------------------
(* What surrounds the driver.                                              *)

\* run_with_crawl_timeout drops the driver wherever it waits.
run_with_crawl_timeout ==
    /\ phase # "idle" /\ clock > 0
    /\ set_crawl_status
    /\ cause' = cause \cup {"timeout"}
    /\ UNCHANGED <<visited, extra, skip_initial, budget, message, others, closed,
                   limit, found, fetches, pages, allow>>

\* The crawl_breaker of the driver starts later than the timeout around it.
time_passes ==
    /\ phase # "idle" /\ clock < 2 /\ spend("tick")
    /\ clock' = clock + 1
    /\ UNCHANGED <<website, budget, phase, frontier, worker, control, queue,
                   others, closed, history>>

\* pause, resume, shutdown of this crawl, or a message for another: the
\* channel keeps only the last one.
send_control(m) ==
    /\ spend("signal")
    /\ message' = m /\ unseen' = (phase # "idle")
    /\ UNCHANGED <<website, budget, phase, frontier, worker, handle,
                   environment, history>>

\* The task of configure_handler.
control_handler ==
    /\ phase # "idle" /\ unseen
    /\ unseen' = FALSE
    /\ handle' = CASE message = "Resume" -> 0
                    [] message = "Pause" -> 1
                    [] message = "Shutdown" -> 2
                    [] OTHER -> handle
    /\ late' = IF handle = 1 THEN late ELSE 0
    /\ UNCHANGED <<website, budget, phase, frontier, worker, message,
                   environment, limit, found, fetches, pages, cause, allow>>

\* A producer sends on the queue; a full ring overwrites its oldest entry.
enqueue(l) ==
    /\ spend("link")
    /\ phase \notin {"idle", "cache", "cache_loop", "begin", "single"}
    /\ queue' = LET all == Append(queue, l)
                IN  IF Len(all) > QueueCapacity THEN Tail(all) ELSE all
    /\ UNCHANGED <<website, budget, phase, frontier, worker, control, others,
                   closed, clock, history>>

others_acquire ==
    /\ others < allow["others"] /\ Available > 0 /\ ~closed
    /\ others' = others + 1
    /\ UNCHANGED <<website, budget, phase, frontier, worker, control, queue,
                   closed, clock, history, allow>>

others_release ==
    /\ others > 0 /\ others' = others - 1
    /\ UNCHANGED <<website, budget, phase, frontier, worker, control, queue,
                   closed, clock, history, allow>>

close_semaphore ==
    /\ ~closed /\ closed' = TRUE /\ spend("close")
    /\ UNCHANGED <<website, budget, phase, frontier, worker, control, queue,
                   others, clock, history>>

----------------------------------------------------------------------------
Message == {"Pause", "Resume", "Shutdown", "other"}

\* The steps of the task that runs the crawl, the wait for a permit apart.
Driver ==
    \/ cache_seed_miss \/ cache_seed_hit \/ cache_end
    \/ \E l \in Link : cache_link(l)
    \/ begin \/ _crawl_establish
    \/ next_batch \/ select \/ handle_process
    \/ shutdown \/ skip_link \/ budget_exceeded \/ insert_link
    \/ acquire_fails
    \/ join_next \/ check \/ drain \/ end_batch \/ store_extra_links

Caller ==
    \/ \E b \in Budgets : crawl_raw(b) \/ try_cache_shortcircuit(b)
    \/ persist_links
    \/ \E l \in Link : set_extra_links(l)

Surroundings ==
    \/ run_with_crawl_timeout \/ time_passes
    \/ \E m \in Message : send_control(m)
    \/ control_handler
    \/ \E l \in Link : enqueue(l)
    \/ others_acquire \/ others_release \/ close_semaphore

Next ==
    \/ Driver \/ spawn_page_fetch
    \/ \E l \in Link : page_fetch(l)
    \/ Caller \/ Surroundings

Spec == Init /\ [][Next]_vars

\* The runtime polls every task that can move; tokio's semaphore is first in
\* first out, so a waiter is served if permits keep being returned; fetches
\* have timeouts, and so do those of the other crawls.
Fairness ==
    /\ WF_vars(Driver)
    /\ SF_vars(spawn_page_fetch)
    /\ \A l \in Link : WF_vars(page_fetch(l))
    /\ WF_vars(control_handler)
    /\ WF_vars(others_release)

FairSpec == Spec /\ Fairness

----------------------------------------------------------------------------
(* Properties.                                                             *)

TypeOK ==
    /\ visited \subseteq Link /\ extra \subseteq Link
    /\ skip_initial \in BOOLEAN /\ status \in {"Idle", "Active"}
    /\ budget \in [wild : (0 .. MaxCounter) \cup {NoLimit},
                   path : (0 .. MaxCounter) \cup {NoLimit}]
    /\ phase \in {"idle", "cache", "cache_loop", "begin", "single",
                  "establish", "outer", "select", "join", "gate", "admit",
                  "acquire", "check", "drain", "guard", "store"}
    /\ cur \in Link \cup {NoLink}
    /\ links \subseteq Link /\ stream \subseteq Link /\ misses \subseteq Link
    /\ exceeded \in BOOLEAN
    /\ worker \in [Link -> {"none", "running", "full", "empty", "panicked"}]
    /\ message \in Message \cup {"none"} /\ unseen \in BOOLEAN
    /\ handle \in 0 .. 2
    /\ queue \in Seq(Link) /\ others \in Nat /\ closed \in BOOLEAN
    /\ clock \in 0 .. 2
    /\ limit \in (0 .. MaxCounter) \cup {NoLimit}
    /\ found \subseteq Link /\ fetches \in [Link -> Nat] /\ pages \in Nat
    /\ cause \subseteq {"skipped", "budget", "permits", "timeout", "shutdown",
                       "closed", "panic", "full", "aborted"}
    /\ late \in Nat /\ allow \in [Event -> Nat]

\* One crawl fetches no URL twice, however often pages and queues name it:
\* a link is visited from its admission on, before its permit and its fetch.
NoUrlTwice == \A l \in Link : fetches[l] <= 1

\* A crawl with a page limit of at least 1 yields no more pages than that,
\* cached pages, the seed and queued links included, although the seed is
\* never charged and the counter stops at 1.
LimitIsKept == limit \in Nat \ {0} => pages <= limit

\* The links a finished crawl learnt of and neither visited nor refused nor
\* left in extra_links.
Lost == found \ (visited \cup Disallowed \cup Outside \cup extra)

\* A crawl that met none of the conditions under which the code drops links
\* (budget spent, no free permit, timeout, shutdown, panic, closed semaphore,
\* skipped seed, extra_links full) accounted for every link on a page that it
\* or a task of it fetched.
QuietEndLosesNothing ==
    (phase = "idle" /\ cause = {} /\ Cardinality(extra) < ExtraLimit)
        => Lost = {}

\* A shutdown that finds no finished task left to join keeps the rest of the
\* batch and the next one in extra_links: only the link that was being
\* admitted is lost.
ShutdownKeepsTheRest ==
    (phase = "idle" /\ cause = {"shutdown"} /\ Cardinality(extra) < ExtraLimit)
        => Cardinality(Lost) <= 1

\* After the control handler stored a pause, at most the one link already
\* past handle_process is still fetched by a worker.
PauseHolds == handle = 1 => late <= 1

\* A crawl that is not paused for good ends, whatever pages, queues, other
\* crawls and control messages do.
CrawlEnds ==
    ([]<>(handle # 1)) => ((phase # "idle") ~> (phase = "idle"))

=============================================================================
