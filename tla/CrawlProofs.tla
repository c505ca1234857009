---------------------------- MODULE CrawlProofs ----------------------------
(***************************************************************************)
(* Proofs about the raw crawl for every site, budget and number of permits: *)
(* no URL is fetched twice in a crawl, the page limit is kept, a pause lets *)
(* at most one more link through, a quiet end loses no link, and a shutdown *)
(* at most one.  The last two rest on an account of where every link is.    *)
(***************************************************************************)
EXTENDS Crawl, FiniteSetTheorems, TLAPS

\* The types of the frontier, the budget and the counters: the part of TypeOK
\* that the argument needs.
CoreTypes ==
    /\ visited \subseteq Link /\ extra \subseteq Link
    /\ phase \in {"gate", "admit", "acquire"} => cur \in Link
    /\ links \subseteq Link /\ stream \subseteq Link /\ misses \subseteq Link
    /\ budget \in [wild : (0 .. MaxCounter) \cup {NoLimit},
                   path : (0 .. MaxCounter) \cup {NoLimit}]
    /\ limit \in (0 .. MaxCounter) \cup {NoLimit}
    /\ fetches \in [Link -> Nat] /\ pages \in Nat

\* What was fetched over the network is visited; the link that waits for a
\* permit is visited and was not fetched; before the seed is established
\* nothing was fetched.
FetchedIsVisited ==
    /\ \A l \in Link : fetches[l] = 0 \/ (fetches[l] = 1 /\ l \in visited)
    /\ phase = "acquire" => fetches[cur] = 0 /\ cur \in visited
    /\ phase \in {"cache", "cache_loop", "begin", "single", "establish"} =>
          \A l \in Link : fetches[l] = 0

\* The driver may still yield a page it has not charged for (the seed), or has
\* charged for a page it has not yielded yet (or never will: a cache miss).
PageIsDue ==
    \/ phase \in {"cache", "begin", "single", "establish", "acquire"}
    \/ phase = "cache_loop" /\ misses # {}

\* The pages so far and what is left of the budget stay within the limit; the
\* counter stops at 1, the place of the seed.
BudgetCoversPages ==
    /\ misses # {} => phase = "cache_loop"
    /\ limit \in Nat \ {0} =>
          /\ budget.wild \in Nat \ {0}
          /\ pages + budget.wild <= limit + 1
          /\ PageIsDue => pages + budget.wild <= limit

\* Under a pause the one late link, if there was one, has left the driver.
PauseIsSeen ==
    handle = 1 => late = 0 \/ (late = 1 /\ phase \notin {"admit", "acquire"})

CrawlInv ==
    /\ CoreTypes
    /\ FetchedIsVisited
    /\ BudgetCoversPages
    /\ PauseIsSeen

----------------------------------------------------------------------------
\* extra_links only takes links.
LEMMA ExtraLinksType ==
    ASSUME extra \subseteq Link, NEW S \in SUBSET Link,
           NEW E \in extra_links_with(S)
    PROVE  E \subseteq Link
  BY DEF extra_links_with

\* Charging keeps a budget a budget.
LEMMA ChargedType ==
    ASSUME CoreTypes, NEW l
    PROVE  charged(l) \in [wild : (0 .. MaxCounter) \cup {NoLimit},
                           path : (0 .. MaxCounter) \cup {NoLimit}]
  BY LimitAssumption DEF charged, CoreTypes

\* Draining the queue yields links only.
LEMMA DequeueType ==
    ASSUME NEW B \in SUBSET Link, dequeue(B)
    PROVE  links' \subseteq Link
  BY DEF dequeue

\* Joining a task yields links only.
LEMMA ResultType ==
    ASSUME NEW l \in Working
    PROVE  Result(l) \in SUBSET Link
  BY LinkAssumption DEF Working, Result

\* A positive "*" budget stays positive when it is charged, and a link that is
\* not over it takes one unit.
LEMMA ChargedWild ==
    ASSUME CoreTypes, NEW l, budget.wild \in Nat \ {0}
    PROVE  /\ charged(l).wild \in Nat \ {0}
           /\ charged(l).wild <= budget.wild
           /\ ~is_over_inner_budget(l) => charged(l).wild = budget.wild - 1
  BY LimitAssumption DEF charged, CoreTypes, is_over_inner_budget

\* The types are preserved by every step.
LEMMA CoreTypesStep ==
    CoreTypes /\ [Next]_vars => CoreTypes'
  <1> SUFFICES ASSUME CoreTypes, [Next]_vars
               PROVE  CoreTypes'
    OBVIOUS
  <1>0. CoreTypes
    OBVIOUS
  <1>1. CASE cache_seed_hit
    BY <1>0, <1>1, LinkAssumption
    DEF cache_seed_hit, set_crawl_status, CoreTypes, website, frontier,
        control, environment, history
  <1>2. CASE cache_end
    BY <1>0, <1>2, LinkAssumption, ExtraLinksType
    DEF cache_end, set_crawl_status, CoreTypes, website, frontier,
        control, environment, history
  <1>3. ASSUME NEW l \in Link, cache_link(l)
        PROVE  CoreTypes'
    BY <1>0, <1>3, LinkAssumption, ChargedType
    DEF cache_link, CoreTypes, website, frontier, control, environment,
        history
  <1>4. CASE _crawl_establish
    BY <1>0, <1>4, LinkAssumption, DequeueType
    DEF _crawl_establish, CoreTypes, website, frontier, control,
        environment, history
  <1>5. CASE shutdown
    BY <1>0, <1>5, LinkAssumption, ExtraLinksType
    DEF shutdown, CoreTypes, website, frontier, control, environment,
        history
  <1>6. CASE skip_link
    BY <1>0, <1>6, LinkAssumption, ChargedType
    DEF skip_link, CoreTypes, website, frontier, control, environment,
        history
  <1>7. CASE budget_exceeded
    BY <1>0, <1>7, LinkAssumption, ChargedType
    DEF budget_exceeded, CoreTypes, website, frontier, control,
        environment, history
  <1>8. CASE insert_link
    BY <1>0, <1>8, LinkAssumption, ChargedType
    DEF insert_link, CoreTypes, website, frontier, control, environment,
        history
  <1>9. CASE acquire_fails
    BY <1>0, <1>9, LinkAssumption, ExtraLinksType
    DEF acquire_fails, CoreTypes, website, frontier, control, environment,
        history
  <1>10. CASE join_next
    BY <1>0, <1>10, LinkAssumption, ResultType
    DEF join_next, CoreTypes, website, frontier, control, environment,
        history, Working
  <1>11. CASE check
    BY <1>0, <1>11, LinkAssumption, ExtraLinksType, DequeueType
    DEF check, CoreTypes, website, frontier, control, environment, history
  <1>12. CASE drain
    BY <1>0, <1>12, LinkAssumption, ExtraLinksType, ResultType
    DEF drain, CoreTypes, website, frontier, control, environment, history
  <1>13. CASE end_batch
    BY <1>0, <1>13, LinkAssumption, DequeueType
    DEF end_batch, CoreTypes, website, frontier, control, environment,
        history
  <1>14. CASE store_extra_links
    BY <1>0, <1>14, LinkAssumption, ExtraLinksType
    DEF store_extra_links, set_crawl_status, CoreTypes, website, frontier,
        control, environment, history
  <1>15. CASE spawn_page_fetch
    BY <1>0, <1>15, LinkAssumption
    DEF spawn_page_fetch, CoreTypes, website, frontier, control,
        environment, history
  <1>16. ASSUME NEW b \in Budgets, crawl_raw(b)
         PROVE  CoreTypes'
    BY <1>0, <1>16, LinkAssumption, LimitAssumption
    DEF crawl_raw, CoreTypes, website, frontier, control, environment,
        history
  <1>17. ASSUME NEW b \in Budgets, try_cache_shortcircuit(b)
         PROVE  CoreTypes'
    BY <1>0, <1>17, LinkAssumption, LimitAssumption
    DEF try_cache_shortcircuit, CoreTypes, website, frontier, control,
        environment, history
  <1>18. ASSUME NEW l \in Link, set_extra_links(l)
         PROVE  CoreTypes'
    BY <1>0, <1>18, LinkAssumption, ExtraLinksType
    DEF set_extra_links, CoreTypes, website, frontier, control,
        environment, history
  <1>19. CASE \/ cache_seed_miss \/ begin \/ next_batch \/ select
              \/ handle_process \/ persist_links \/ run_with_crawl_timeout
              \/ time_passes \/ control_handler \/ others_acquire
              \/ others_release \/ close_semaphore
              \/ \E l \in Link : \/ page_fetch(l) \/ enqueue(l)
              \/ \E m \in Message : send_control(m)
    BY <1>0, <1>19
    DEF cache_seed_miss, begin, next_batch, select, handle_process,
        page_fetch, page_fetched, page_refused, page_panics, worker_ends,
        persist_links, run_with_crawl_timeout, set_crawl_status, time_passes,
        send_control, control_handler, enqueue, others_acquire,
        others_release, close_semaphore, CoreTypes, website, frontier,
        control, environment, history
  <1>20. CASE UNCHANGED vars
    BY <1>0, <1>20
    DEF vars, CoreTypes, website, frontier, control, environment, history
  <1>. QED
    BY <1>1, <1>2, <1>3, <1>4, <1>5, <1>6, <1>7, <1>8, <1>9, <1>10, <1>11,
       <1>12, <1>13, <1>14, <1>15, <1>16, <1>17, <1>18, <1>19, <1>20
    DEF Next, Driver, Caller, Surroundings

\* A link is fetched only when it was not visited before its admission.
LEMMA FetchStep ==
    CoreTypes /\ FetchedIsVisited /\ [Next]_vars => FetchedIsVisited'
  <1> SUFFICES ASSUME CoreTypes, FetchedIsVisited, [Next]_vars
               PROVE  FetchedIsVisited'
    OBVIOUS
  <1>0. CoreTypes /\ FetchedIsVisited
    OBVIOUS
  <1>1. CASE _crawl_establish
    BY <1>0, <1>1
    DEF _crawl_establish, CoreTypes, FetchedIsVisited, website, frontier,
        control, environment, history
  <1>2. CASE insert_link
    BY <1>0, <1>2
    DEF insert_link, CoreTypes, FetchedIsVisited, website, frontier,
        control, environment, history, is_allowed_budgetless
  <1>3. CASE acquire_fails
    BY <1>0, <1>3
    DEF acquire_fails, CoreTypes, FetchedIsVisited, website, frontier,
        control, environment, history
  <1>4. CASE spawn_page_fetch
    BY <1>0, <1>4
    DEF spawn_page_fetch, CoreTypes, FetchedIsVisited, website, frontier,
        control, environment, history
  <1>5. ASSUME NEW b \in Budgets, crawl_raw(b)
        PROVE  FetchedIsVisited'
    BY <1>0, <1>5
    DEF crawl_raw, CoreTypes, FetchedIsVisited, website, frontier,
        control, environment, history
  <1>6. ASSUME NEW b \in Budgets, try_cache_shortcircuit(b)
        PROVE  FetchedIsVisited'
    BY <1>0, <1>6
    DEF try_cache_shortcircuit, CoreTypes, FetchedIsVisited, website,
        frontier, control, environment, history
  <1>7. CASE \/ cache_seed_miss \/ cache_seed_hit \/ cache_end \/ begin
             \/ next_batch \/ select \/ handle_process \/ shutdown
             \/ skip_link \/ budget_exceeded \/ join_next \/ check \/ drain
             \/ end_batch \/ store_extra_links \/ persist_links
             \/ run_with_crawl_timeout \/ time_passes \/ control_handler
             \/ others_acquire \/ others_release \/ close_semaphore
             \/ \E l \in Link : \/ cache_link(l) \/ page_fetch(l)
                                \/ set_extra_links(l) \/ enqueue(l)
             \/ \E m \in Message : send_control(m)
    BY <1>0, <1>7
    DEF cache_seed_miss, cache_seed_hit, set_crawl_status, cache_end,
        cache_link, begin, next_batch, select, handle_process, shutdown,
        skip_link, budget_exceeded, join_next, check, drain, end_batch,
        store_extra_links, page_fetch, page_fetched, page_refused,
        page_panics, worker_ends, persist_links, set_extra_links,
        run_with_crawl_timeout, time_passes, send_control, control_handler,
        enqueue, others_acquire, others_release, close_semaphore, CoreTypes,
        FetchedIsVisited, website, frontier, control, environment, history
  <1>8. CASE UNCHANGED vars
    BY <1>0, <1>8
    DEF vars, CoreTypes, FetchedIsVisited, website, frontier, control,
        environment, history
  <1>. QED
    BY <1>1, <1>2, <1>3, <1>4, <1>5, <1>6, <1>7, <1>8
    DEF Next, Driver, Caller, Surroundings

\* Every page but the seed is charged before it is fetched or served.
LEMMA BudgetStep ==
    CoreTypes /\ BudgetCoversPages /\ [Next]_vars => BudgetCoversPages'
  <1> SUFFICES ASSUME CoreTypes, BudgetCoversPages, [Next]_vars
               PROVE  BudgetCoversPages'
    OBVIOUS
  <1>0. CoreTypes /\ BudgetCoversPages
    OBVIOUS
  <1>1. CASE cache_seed_hit
    BY <1>0, <1>1
    DEF cache_seed_hit, set_crawl_status, CoreTypes, BudgetCoversPages,
        PageIsDue, website, frontier, control, environment, history
  <1>2. CASE cache_end
    BY <1>0, <1>2
    DEF cache_end, set_crawl_status, CoreTypes, BudgetCoversPages,
        PageIsDue, website, frontier, control, environment, history
  <1>3. ASSUME NEW l \in Link, cache_link(l)
        PROVE  BudgetCoversPages'
    BY <1>0, <1>3, ChargedWild
    DEF cache_link, CoreTypes, BudgetCoversPages, PageIsDue, website,
        frontier, control, environment, history
  <1>4. CASE _crawl_establish
    BY <1>0, <1>4
    DEF _crawl_establish, CoreTypes, BudgetCoversPages, PageIsDue,
        website, frontier, control, environment, history
  <1>5. CASE skip_link
    BY <1>0, <1>5, ChargedWild
    DEF skip_link, CoreTypes, BudgetCoversPages, PageIsDue, website,
        frontier, control, environment, history
  <1>6. CASE budget_exceeded
    BY <1>0, <1>6, ChargedWild
    DEF budget_exceeded, CoreTypes, BudgetCoversPages, PageIsDue, website,
        frontier, control, environment, history
  <1>7. CASE insert_link
    BY <1>0, <1>7, ChargedWild
    DEF insert_link, CoreTypes, BudgetCoversPages, PageIsDue, website,
        frontier, control, environment, history
  <1>8. CASE spawn_page_fetch
    BY <1>0, <1>8
    DEF spawn_page_fetch, CoreTypes, BudgetCoversPages, PageIsDue,
        website, frontier, control, environment, history
  <1>9. ASSUME NEW b \in Budgets, crawl_raw(b)
        PROVE  BudgetCoversPages'
    BY <1>0, <1>9
    DEF crawl_raw, CoreTypes, BudgetCoversPages, PageIsDue, website,
        frontier, control, environment, history
  <1>10. ASSUME NEW b \in Budgets, try_cache_shortcircuit(b)
         PROVE  BudgetCoversPages'
    BY <1>0, <1>10
    DEF try_cache_shortcircuit, CoreTypes, BudgetCoversPages, PageIsDue,
        website, frontier, control, environment, history
  <1>11. CASE \/ cache_seed_miss \/ begin \/ next_batch \/ select
              \/ handle_process \/ shutdown \/ acquire_fails \/ join_next
              \/ check \/ drain \/ end_batch \/ store_extra_links
              \/ persist_links \/ run_with_crawl_timeout \/ time_passes
              \/ control_handler \/ others_acquire \/ others_release
              \/ close_semaphore
              \/ \E l \in Link : \/ page_fetch(l) \/ set_extra_links(l)
                                 \/ enqueue(l)
              \/ \E m \in Message : send_control(m)
    BY <1>0, <1>11
    DEF cache_seed_miss, begin, next_batch, select, handle_process,
        shutdown, acquire_fails, join_next, check, drain, end_batch,
        store_extra_links, set_crawl_status, page_fetch, page_fetched,
        page_refused, page_panics, worker_ends, persist_links,
        set_extra_links, run_with_crawl_timeout, time_passes, send_control,
        control_handler, enqueue, others_acquire, others_release,
        close_semaphore, CoreTypes, BudgetCoversPages, PageIsDue, website,
        frontier, control, environment, history
  <1>12. CASE UNCHANGED vars
    BY <1>0, <1>12
    DEF vars, CoreTypes, BudgetCoversPages, PageIsDue, website, frontier,
        control, environment, history
  <1>. QED
    BY <1>1, <1>2, <1>3, <1>4, <1>5, <1>6, <1>7, <1>8, <1>9, <1>10, <1>11,
       <1>12
    DEF Next, Driver, Caller, Surroundings

\* The driver passes handle_process only when the crawl is not paused.
LEMMA PauseStep ==
    PauseIsSeen /\ [Next]_vars => PauseIsSeen'
  <1> SUFFICES ASSUME PauseIsSeen, [Next]_vars
               PROVE  PauseIsSeen'
    OBVIOUS
  <1>0. PauseIsSeen
    OBVIOUS
  <1>1. CASE handle_process
    BY <1>0, <1>1
    DEF handle_process, PauseIsSeen, website, frontier, control,
        environment, history
  <1>2. CASE insert_link
    BY <1>0, <1>2
    DEF insert_link, PauseIsSeen, website, frontier, control, environment,
        history
  <1>3. CASE spawn_page_fetch
    BY <1>0, <1>3
    DEF spawn_page_fetch, PauseIsSeen, website, frontier, control,
        environment, history
  <1>4. CASE control_handler
    BY <1>0, <1>4
    DEF control_handler, PauseIsSeen, website, frontier, control,
        environment, history
  <1>5. CASE \/ cache_seed_miss \/ cache_seed_hit \/ cache_end \/ begin
             \/ _crawl_establish \/ next_batch \/ select \/ shutdown
             \/ skip_link \/ budget_exceeded \/ acquire_fails \/ join_next
             \/ check \/ drain \/ end_batch \/ store_extra_links
             \/ persist_links \/ run_with_crawl_timeout \/ time_passes
             \/ others_acquire \/ others_release \/ close_semaphore
             \/ \E l \in Link : \/ cache_link(l) \/ page_fetch(l)
                                \/ set_extra_links(l) \/ enqueue(l)
             \/ \E b \in Budgets : crawl_raw(b) \/ try_cache_shortcircuit(b)
             \/ \E m \in Message : send_control(m)
    BY <1>0, <1>5
    DEF cache_seed_miss, cache_seed_hit, set_crawl_status, cache_end,
        cache_link, begin, _crawl_establish, next_batch, select, shutdown,
        skip_link, budget_exceeded, acquire_fails, join_next, check, drain,
        end_batch, store_extra_links, page_fetch, page_fetched, page_refused,
        page_panics, worker_ends, crawl_raw, try_cache_shortcircuit,
        persist_links, set_extra_links, run_with_crawl_timeout, time_passes,
        send_control, enqueue, others_acquire, others_release,
        close_semaphore, PauseIsSeen, website, frontier, control, environment,
        history
  <1>6. CASE UNCHANGED vars
    BY <1>0, <1>6
    DEF vars, PauseIsSeen, website, frontier, control, environment,
        history
  <1>. QED
    BY <1>1, <1>2, <1>3, <1>4, <1>5, <1>6
    DEF Next, Driver, Caller, Surroundings

\* The initial states satisfy the invariant.
LEMMA CrawlInitInv == Init => CrawlInv
  BY LimitAssumption
  DEF Init, CrawlInv, CoreTypes, FetchedIsVisited, BudgetCoversPages,
      PageIsDue, PauseIsSeen

\* Every step of the driver, its tasks and their surroundings preserves it.
LEMMA CrawlStepInv == CrawlInv /\ [Next]_vars => CrawlInv'
  BY CoreTypesStep, FetchStep, BudgetStep, PauseStep DEF CrawlInv

----------------------------------------------------------------------------
\* The conjunction is an invariant of the raw crawl, for every site, cache,
\* budget, number of permits and sequence of surrounding events.
THEOREM CrawlInvariant == Spec => []CrawlInv
  BY CrawlInitInv, CrawlStepInv, PTL DEF Spec

\* One crawl_raw fetches no URL twice.
THEOREM FetchedOnce == Spec => []NoUrlTwice
  <1>1. CrawlInv => NoUrlTwice
    BY DEF CrawlInv, FetchedIsVisited, NoUrlTwice
  <1>. QED BY <1>1, CrawlInvariant, PTL

\* with_limit(n), n > 0, yields at most n pages, from the cache and the
\* network together.
THEOREM LimitKept == Spec => []LimitIsKept
  <1>1. CrawlInv => LimitIsKept
    BY DEF CrawlInv, CoreTypes, BudgetCoversPages, LimitIsKept
  <1>. QED BY <1>1, CrawlInvariant, PTL

\* After the handler stored a pause, handle_process lets one more link through
\* at most.
THEOREM PauseKept == Spec => []PauseHolds
  <1>1. CrawlInv => PauseHolds
    BY DEF CrawlInv, PauseIsSeen, PauseHolds
  <1>. QED BY <1>1, CrawlInvariant, PTL

----------------------------------------------------------------------------
(* Where the links go.                                                     *)

\* What a phase of the driver leaves empty: nothing runs before the first batch
\* or after the last, a batch is over before the next one begins, and cache
\* misses are handed over at once.  A drained crawl was over its budget, and a
\* crawl that was shut down only stores its links.
Emptied ==
    /\ phase \in {"idle", "cache", "cache_loop", "begin", "single", "establish",
                  "outer", "drain", "guard", "store"} => stream = {}
    /\ phase \in {"idle", "cache", "cache_loop", "begin", "single", "establish",
                  "store"} => \A l \in Link : worker[l] = "none"
    /\ phase \in {"idle", "cache", "begin"} => links = {}
    /\ misses # {} => phase = "cache_loop"
    /\ exceeded => phase # "idle" /\ "budget" \in cause
    /\ phase = "drain" => exceeded
    /\ "shutdown" \in cause => phase \in {"store", "idle"}

\* Every task is of a link that was fetched.  No more permits are out than
\* there are, and a link of the batch that waits
\* for one is waited with by two tasks, of which one is still there when the
\* other was joined: otherwise the batch is dropped, and cause says so.
PermitsSuffice ==
    /\ worker \in [Link -> {"none", "running", "full", "empty", "panicked"}]
    /\ \A l \in Link : worker[l] # "none" => fetches[l] > 0
    /\ others \in Nat /\ clock \in 0 .. 2
    /\ Cardinality(Holding) + others <= Permits
    /\ stream # {} /\ cause = {} =>
          /\ phase = "join" =>
                \E v, w \in Link : v # w /\ worker[v] # "none" /\ worker[w] #
                    "none"
          /\ phase = "check" => \E w \in Link : worker[w] # "none"

\* Where a link that the crawl learnt of may be: it is settled, queued in one
\* of the sets of the driver, on the page of a task that was not joined yet, at
\* hand, or the seed before it is established or skipped.
HasPlace(l) ==
    \/ l \in visited \cup Disallowed \cup Outside
    \/ l \in extra \cup links \cup stream \cup misses
    \/ \E w \in Link : worker[w] = "full" /\ l \in Points[w]
    \/ phase \in {"gate", "admit"} /\ l = cur
    \/ /\ l = Seed
       /\ \/ phase \in {"cache", "begin"}
          \/ phase \in {"single", "establish"} /\ ~skip_initial

\* extra_links has not been filled since the batch took what was in it.
HasRoom ==
    phase \in {"cache", "cache_loop", "begin"} \/ Cardinality(extra) <
        ExtraLimit

\* While nothing has made the crawl drop links, every link it learnt of has a
\* place; after a shutdown that aborts no finished task all but one have.
EveryLinkHasAPlace ==
    /\ HasRoom /\ cause = {} => \A l \in found : HasPlace(l)
    /\ HasRoom /\ cause = {"shutdown"} =>
          \E x \in Link : \A l \in found : l = x \/ HasPlace(l)

AccountInv ==
    /\ CrawlInv
    /\ Emptied
    /\ PermitsSuffice
    /\ EveryLinkHasAPlace

----------------------------------------------------------------------------
\* extra_links keeps what it has, and takes everything unless it is full.
LEMMA ExtraLinksKeep ==
    ASSUME extra \subseteq Link, NEW S \in SUBSET Link,
           NEW E \in extra_links_with(S)
    PROVE  /\ extra \subseteq E
           /\ Cardinality(E) < ExtraLimit =>
                 E = extra \cup S /\ Cardinality(extra) < ExtraLimit
  <1>1. E \subseteq Link /\ extra \subseteq E
    BY DEF extra_links_with
  <1>2. IsFiniteSet(E)
    BY <1>1, SiteAssumption, FS_Subset
  <1>3. /\ Cardinality(extra) \in Nat /\ Cardinality(E) \in Nat
        /\ Cardinality(extra) <= Cardinality(E)
    BY <1>1, <1>2, FS_Subset, FS_CardinalityType
  <1>4. PICK T \in SUBSET S :
            /\ E = extra \cup T
            /\ \/ T = S
               \/ Cardinality(extra \cup T) = ExtraLimit
               \/ T = {} /\ Cardinality(extra) >= ExtraLimit
    BY DEF extra_links_with
  <1>5. T = {} => E = extra
    BY <1>4
  <1>6. Cardinality(E) < ExtraLimit => E = extra \cup S
    BY <1>3, <1>4, <1>5, BoundAssumption
  <1>. QED BY <1>1, <1>3, <1>6, BoundAssumption

\* A select takes a link, or waits for a task, or ends a batch; when it leaves
\* links waiting without a reason to drop them, two tasks hold the permits.
LEMMA SelectEffect ==
    ASSUME PermitsSuffice, select
    PROVE  /\ phase = "select"
           /\ \/ /\ phase' = "gate" /\ cause' = cause
                 /\ \E l \in stream : cur' = l /\ stream' = stream \ {l}
              \/ /\ \E C \in SUBSET {"permits", "timeout"} : cause' = cause \cup
                  C
                 /\ \/ phase' = "join" /\ stream' = stream
                    \/ /\ phase' = "guard" /\ stream' = {}
                       /\ \A w \in Link : worker[w] = "none"
                 /\ stream # {} /\ cause' = {} =>
                      \E v, w \in Link :
                          v # w /\ worker[v] # "none" /\ worker[w] # "none"
  <1>1. CASE stream # {} /\ Available > 0 /\ clock < 2
    BY <1>1 DEF select
  <1>2. CASE ~(stream # {} /\ Available > 0 /\ clock < 2)
    <2>1. /\ phase = "select"
          /\ cause' = cause
               \cup (IF stream # {} /\ Available = 0 /\ Cardinality(Working) <=
                   1
                     THEN {"permits"} ELSE {})
               \cup (IF stream # {} /\ clock = 2 THEN {"timeout"} ELSE {})
          /\ IF Working # {}
             THEN phase' = "join" /\ UNCHANGED stream
             ELSE phase' = "guard" /\ stream' = {}
      BY <1>2 DEF select
    <2>2. \E C \in SUBSET {"permits", "timeout"} : cause' = cause \cup C
      <3> DEFINE C == (IF stream # {} /\ Available = 0 /\ Cardinality(Working)
          <= 1
                       THEN {"permits"} ELSE {})
                        \cup (IF stream # {} /\ clock = 2 THEN {"timeout"} ELSE
                            {})
      <3>1. C \in SUBSET {"permits", "timeout"} /\ cause' = cause \cup C
        BY <2>1
      <3>. QED BY <3>1
    <2>3. Working = {} => \A w \in Link : worker[w] = "none"
      BY DEF Working
    <2>4. ASSUME stream # {}, cause' = {}
          PROVE  \E v, w \in Link : v # w /\ worker[v] # "none" /\ worker[w] #
              "none"
      <3>1. clock # 2 /\ ~(Available = 0 /\ Cardinality(Working) <= 1)
        BY <2>1, <2>4
      <3>2. Cardinality(Holding) \in Nat
        BY SiteAssumption, FS_Subset, FS_CardinalityType DEF Holding
      <3>3. Available = 0
        BY <1>2, <2>4, <3>1, <3>2, BoundAssumption DEF PermitsSuffice, Available
      <3>4. ~(Cardinality(Working) <= 1)
        BY <3>1, <3>3
      <3>5. ASSUME NEW v \in Working, Working = {v}
            PROVE  FALSE
        <4>1. Cardinality({v}) = 1
          BY FS_Singleton
        <4>. QED BY <3>4, <3>5, <4>1
      <3>6. Working # {}
        BY <3>4, FS_EmptySet
      <3>. QED BY <3>5, <3>6 DEF Working
    <2>. QED BY <2>1, <2>2, <2>3, <2>4
  <1>. QED BY <1>1, <1>2

\* What a phase leaves empty stays so until the driver fills it.
LEMMA EmptiedStep ==
    ASSUME CoreTypes, Emptied, PermitsSuffice, [Next]_vars
    PROVE  Emptied'
  <1>0. CoreTypes /\ Emptied /\ PermitsSuffice
    OBVIOUS
  <1>1. ASSUME cache_seed_miss PROVE Emptied'
    BY <1>0, <1>1
    DEF cache_seed_miss, CoreTypes, Emptied, website, frontier, control,
        environment, history
  <1>2. ASSUME cache_seed_hit PROVE Emptied'
    BY <1>0, <1>2
    DEF cache_seed_hit, set_crawl_status, CoreTypes, Emptied
  <1>3. ASSUME NEW l \in Link, cache_link(l) PROVE Emptied'
    BY <1>0, <1>3
    DEF cache_link, CoreTypes, Emptied, control, environment
  <1>4. ASSUME cache_end PROVE Emptied'
    BY <1>0, <1>4
    DEF cache_end, set_crawl_status, CoreTypes, Emptied
  <1>5. ASSUME begin PROVE Emptied'
    BY <1>0, <1>5
    DEF begin, CoreTypes, Emptied, control
  <1>6. ASSUME _crawl_establish PROVE Emptied'
    BY <1>0, <1>6
    DEF _crawl_establish, CoreTypes, Emptied, dequeue, control
  <1>7. ASSUME next_batch PROVE Emptied'
    BY <1>0, <1>7
    DEF next_batch, CoreTypes, Emptied, website, control, environment, history
  <1>8. ASSUME select PROVE Emptied'
    BY <1>0, <1>8, SelectEffect
    DEF select, CoreTypes, Emptied, website, control, environment
  <1>9. ASSUME handle_process PROVE Emptied'
    BY <1>0, <1>9
    DEF handle_process, CoreTypes, Emptied, website, frontier, control,
        environment, history
  <1>10. ASSUME shutdown PROVE Emptied'
    BY <1>0, <1>10
    DEF shutdown, CoreTypes, Emptied, Working, control, environment
  <1>11. ASSUME skip_link PROVE Emptied'
    BY <1>0, <1>11
    DEF skip_link, CoreTypes, Emptied, website, control, environment, history
  <1>12. ASSUME budget_exceeded PROVE Emptied'
    BY <1>0, <1>12
    DEF budget_exceeded, CoreTypes, Emptied, website, control, environment
  <1>13. ASSUME insert_link PROVE Emptied'
    BY <1>0, <1>13
    DEF insert_link, CoreTypes, Emptied, frontier, control, environment, history
  <1>14. ASSUME acquire_fails PROVE Emptied'
    BY <1>0, <1>14
    DEF acquire_fails, CoreTypes, Emptied, control, environment
  <1>15. ASSUME join_next PROVE Emptied'
    BY <1>0, <1>15
    DEF join_next, CoreTypes, Emptied, Working, website, control, environment
  <1>16. ASSUME check PROVE Emptied'
    BY <1>0, <1>16
    DEF check, CoreTypes, Emptied, Working, dequeue, control
  <1>17. ASSUME drain PROVE Emptied'
    BY <1>0, <1>17
    DEF drain, CoreTypes, Emptied, Working, frontier, control, environment,
        history
  <1>18. ASSUME end_batch PROVE Emptied'
    BY <1>0, <1>18
    DEF end_batch, CoreTypes, Emptied, Working, dequeue, control
  <1>19. ASSUME store_extra_links PROVE Emptied'
    BY <1>0, <1>19
    DEF store_extra_links, set_crawl_status, CoreTypes, Emptied
  <1>20. ASSUME spawn_page_fetch PROVE Emptied'
    BY <1>0, <1>20
    DEF spawn_page_fetch, CoreTypes, Emptied, website, control, environment
  <1>21. ASSUME NEW l \in Link, page_fetch(l) PROVE Emptied'
    BY <1>0, <1>21
    DEF page_fetch, page_fetched, page_refused, page_panics, worker_ends,
        CoreTypes, Emptied, website, frontier, control, environment
  <1>22. ASSUME NEW b \in Budgets, crawl_raw(b) PROVE Emptied'
    BY <1>0, <1>22
    DEF crawl_raw, CoreTypes, Emptied, frontier, environment
  <1>23. ASSUME NEW b \in Budgets, try_cache_shortcircuit(b) PROVE Emptied'
    BY <1>0, <1>23
    DEF try_cache_shortcircuit, CoreTypes, Emptied, frontier, control,
        environment
  <1>24. ASSUME persist_links PROVE Emptied'
    BY <1>0, <1>24
    DEF persist_links, CoreTypes, Emptied, frontier, control, environment,
        history
  <1>25. ASSUME NEW l \in Link, set_extra_links(l) PROVE Emptied'
    BY <1>0, <1>25
    DEF set_extra_links, CoreTypes, Emptied, frontier, control, environment,
        history
  <1>26. ASSUME run_with_crawl_timeout PROVE Emptied'
    BY <1>0, <1>26
    DEF run_with_crawl_timeout, set_crawl_status, CoreTypes, Emptied
  <1>27. ASSUME time_passes PROVE Emptied'
    BY <1>0, <1>27
    DEF time_passes, CoreTypes, Emptied, website, frontier, control, history
  <1>28. ASSUME NEW m \in Message, send_control(m) PROVE Emptied'
    BY <1>0, <1>28
    DEF send_control, CoreTypes, Emptied, website, frontier, environment,
        history
  <1>29. ASSUME control_handler PROVE Emptied'
    BY <1>0, <1>29
    DEF control_handler, CoreTypes, Emptied, website, frontier, environment
  <1>30. ASSUME NEW l \in Link, enqueue(l) PROVE Emptied'
    BY <1>0, <1>30
    DEF enqueue, CoreTypes, Emptied, website, frontier, control, history
  <1>31. ASSUME others_acquire PROVE Emptied'
    BY <1>0, <1>31
    DEF others_acquire, CoreTypes, Emptied, website, frontier, control, history
  <1>32. ASSUME others_release PROVE Emptied'
    BY <1>0, <1>32
    DEF others_release, CoreTypes, Emptied, website, frontier, control, history
  <1>33. ASSUME close_semaphore PROVE Emptied'
    BY <1>0, <1>33
    DEF close_semaphore, CoreTypes, Emptied, website, frontier, control, history
  <1>34. CASE UNCHANGED vars
    BY <1>0, <1>34 DEF vars, CoreTypes, Emptied, Working, dequeue, website,
        frontier, control, environment, history
  <1>. QED
    BY <1>1, <1>2, <1>3, <1>4, <1>5, <1>6, <1>7, <1>8, <1>9, <1>10, <1>11,
        <1>12, <1>13, <1>14, <1>15, <1>16, <1>17, <1>18, <1>19, <1>20, <1>21,
        <1>22, <1>23, <1>24, <1>25, <1>26, <1>27, <1>28, <1>29, <1>30, <1>31,
        <1>32, <1>33, <1>34
    DEF Next, Driver, Caller, Surroundings

\* The permits out of the semaphore, when the tasks stay as they are, end, or
\* one starts.
LEMMA HoldingChanges ==
    /\ Cardinality(Holding) \in Nat
    /\ worker' = worker => Cardinality(Holding') = Cardinality(Holding)
    /\ (\A l \in Link : worker'[l] = "running" => worker[l] = "running") =>
          Cardinality(Holding') \in Nat /\ Cardinality(Holding') <=
              Cardinality(Holding)
    /\ \A k : (\A l \in Link : worker'[l] = "running" => worker[l] = "running"
        \/ l = k) =>
          Cardinality(Holding') \in Nat /\ Cardinality(Holding') <=
              Cardinality(Holding) + 1
  <1>1. IsFiniteSet(Holding)
    BY SiteAssumption, FS_Subset DEF Holding
  <1>2. worker' = worker => Holding' = Holding
    BY DEF Holding
  <1>3. Cardinality(Holding) \in Nat
    BY <1>1, FS_CardinalityType
  <1>4. ASSUME \A l \in Link : worker'[l] = "running" => worker[l] = "running"
        PROVE  Cardinality(Holding') \in Nat /\ Cardinality(Holding') <=
            Cardinality(Holding)
    <2>1. Holding' \subseteq Holding
      BY <1>4 DEF Holding
    <2>. QED BY <1>1, <2>1, FS_Subset, FS_CardinalityType
  <1>5. ASSUME NEW k,
               \A l \in Link : worker'[l] = "running" => worker[l] = "running"
                   \/ l = k
        PROVE  Cardinality(Holding') \in Nat /\ Cardinality(Holding') <=
            Cardinality(Holding) + 1
    <2>1. Holding' \subseteq Holding \cup {k}
      BY <1>5 DEF Holding
    <2>2. /\ IsFiniteSet(Holding \cup {k})
          /\ Cardinality(Holding \cup {k}) <= Cardinality(Holding) + 1
          /\ Cardinality(Holding \cup {k}) \in Nat
      <3>1. /\ IsFiniteSet(Holding \cup {k})
            /\ Cardinality(Holding \cup {k}) =
                  IF k \in Holding THEN Cardinality(Holding) ELSE
                      Cardinality(Holding) + 1
        BY <1>1, FS_AddElement
      <3>. QED BY <1>3, <3>1
    <2>3. /\ IsFiniteSet(Holding') /\ Cardinality(Holding') \in Nat
          /\ Cardinality(Holding') <= Cardinality(Holding \cup {k})
      BY <2>1, <2>2, FS_Subset, FS_CardinalityType
    <2>. QED BY <1>3, <2>2, <2>3
  <1>. QED BY <1>2, <1>3, <1>4, <1>5

\* Permits are counted through every step, and a batch waits in company.
LEMMA PermitsStep ==
    ASSUME CoreTypes, Emptied, PermitsSuffice, [Next]_vars
    PROVE  PermitsSuffice'
  <1>0. CoreTypes /\ Emptied /\ PermitsSuffice
    OBVIOUS
  <1>1. ASSUME cache_seed_miss PROVE PermitsSuffice'
    BY <1>0, <1>1, HoldingChanges
    DEF cache_seed_miss, CoreTypes, Emptied, PermitsSuffice, website, frontier,
        control, environment, history
  <1>2. ASSUME cache_seed_hit PROVE PermitsSuffice'
    BY <1>0, <1>2, HoldingChanges, BoundAssumption
    DEF cache_seed_hit, set_crawl_status, CoreTypes, Emptied, PermitsSuffice
  <1>3. ASSUME NEW l \in Link, cache_link(l) PROVE PermitsSuffice'
    BY <1>0, <1>3, HoldingChanges
    DEF cache_link, CoreTypes, Emptied, PermitsSuffice, control, environment
  <1>4. ASSUME cache_end PROVE PermitsSuffice'
    BY <1>0, <1>4, HoldingChanges, BoundAssumption
    DEF cache_end, set_crawl_status, CoreTypes, Emptied, PermitsSuffice
  <1>5. ASSUME begin PROVE PermitsSuffice'
    BY <1>0, <1>5, HoldingChanges
    DEF begin, CoreTypes, Emptied, PermitsSuffice, control
  <1>6. ASSUME _crawl_establish PROVE PermitsSuffice'
    BY <1>0, <1>6, HoldingChanges
    DEF _crawl_establish, CoreTypes, Emptied, PermitsSuffice, control
  <1>7. ASSUME next_batch PROVE PermitsSuffice'
    BY <1>0, <1>7, HoldingChanges
    DEF next_batch, CoreTypes, Emptied, PermitsSuffice, website, control,
        environment, history
  <1>8. ASSUME select PROVE PermitsSuffice'
    BY <1>0, <1>8, HoldingChanges, SelectEffect
    DEF select, CoreTypes, Emptied, PermitsSuffice, website, control,
        environment
  <1>9. ASSUME handle_process PROVE PermitsSuffice'
    BY <1>0, <1>9, HoldingChanges
    DEF handle_process, CoreTypes, Emptied, PermitsSuffice, website, frontier,
        control, environment, history
  <1>10. ASSUME shutdown PROVE PermitsSuffice'
    BY <1>0, <1>10, HoldingChanges, BoundAssumption
    DEF shutdown, CoreTypes, Emptied, PermitsSuffice, control, environment
  <1>11. ASSUME skip_link PROVE PermitsSuffice'
    BY <1>0, <1>11, HoldingChanges
    DEF skip_link, CoreTypes, Emptied, PermitsSuffice, website, control,
        environment, history
  <1>12. ASSUME budget_exceeded PROVE PermitsSuffice'
    BY <1>0, <1>12, HoldingChanges
    DEF budget_exceeded, CoreTypes, Emptied, PermitsSuffice, website, control,
        environment
  <1>13. ASSUME insert_link PROVE PermitsSuffice'
    BY <1>0, <1>13, HoldingChanges
    DEF insert_link, CoreTypes, Emptied, PermitsSuffice, frontier, control,
        environment, history
  <1>14. ASSUME acquire_fails PROVE PermitsSuffice'
    BY <1>0, <1>14, HoldingChanges
    DEF acquire_fails, CoreTypes, Emptied, PermitsSuffice, control, environment
  <1>15. ASSUME join_next PROVE PermitsSuffice'
    <2>1. PICK l \in Working \ Holding :
              /\ worker' = [worker EXCEPT ![l] = "none"]
              /\ IF worker[l] = "panicked"
                 THEN phase' = "guard" /\ stream' = {}
                 ELSE phase' = "check" /\ UNCHANGED <<stream, cause>>
      BY <1>15 DEF join_next
    <2>2. phase = "join" /\ UNCHANGED <<others, clock>>
      BY <1>15 DEF join_next, environment
    <2>3. \A v \in Link : worker'[v] = IF v = l THEN "none" ELSE worker[v]
      BY <1>0, <2>1 DEF PermitsSuffice
    <2>4. Cardinality(Holding') \in Nat /\ Cardinality(Holding') <=
        Cardinality(Holding)
      BY <2>3, HoldingChanges
    <2>5. ASSUME stream' # {}, cause' = {}
          PROVE  phase' = "check" /\ \E w \in Link : worker'[w] # "none"
      <3>1. phase' = "check" /\ UNCHANGED <<stream, cause>>
        BY <2>1, <2>5
      <3>2. PICK v, w \in Link : v # w /\ worker[v] # "none" /\ worker[w] #
          "none"
        BY <1>0, <2>2, <2>5, <3>1 DEF PermitsSuffice
      <3>. QED BY <2>3, <3>1, <3>2
    <2>7. fetches' = fetches
      BY <1>15 DEF join_next
    <2>6. worker' \in [Link -> {"none", "running", "full", "empty", "panicked"}]
      BY <1>0, <2>1 DEF PermitsSuffice
    <2>. QED
      BY <1>0, <2>2, <2>3, <2>4, <2>5, <2>6, <2>7, HoldingChanges,
          BoundAssumption DEF PermitsSuffice
  <1>16. ASSUME check PROVE PermitsSuffice'
    BY <1>0, <1>16, HoldingChanges
    DEF check, CoreTypes, Emptied, PermitsSuffice, control
  <1>17. ASSUME drain PROVE PermitsSuffice'
    BY <1>0, <1>17, HoldingChanges, BoundAssumption
    DEF drain, CoreTypes, Emptied, PermitsSuffice, frontier, control,
        environment, history
  <1>18. ASSUME end_batch PROVE PermitsSuffice'
    BY <1>0, <1>18, HoldingChanges
    DEF end_batch, CoreTypes, Emptied, PermitsSuffice, control
  <1>19. ASSUME store_extra_links PROVE PermitsSuffice'
    BY <1>0, <1>19, HoldingChanges, BoundAssumption
    DEF store_extra_links, set_crawl_status, CoreTypes, Emptied, PermitsSuffice
  <1>20. ASSUME spawn_page_fetch PROVE PermitsSuffice'
    BY <1>0, <1>20, HoldingChanges, BoundAssumption
    DEF spawn_page_fetch, Available, CoreTypes, Emptied, PermitsSuffice,
        website, control, environment
  <1>21. ASSUME NEW l \in Link, page_fetch(l) PROVE PermitsSuffice'
    BY <1>0, <1>21, HoldingChanges, BoundAssumption
    DEF page_fetch, page_fetched, page_refused, page_panics, worker_ends,
        CoreTypes, Emptied, PermitsSuffice, website, frontier, control,
        environment
  <1>22. ASSUME NEW b \in Budgets, crawl_raw(b) PROVE PermitsSuffice'
    BY <1>0, <1>22, HoldingChanges
    DEF crawl_raw, CoreTypes, Emptied, PermitsSuffice, frontier, environment
  <1>23. ASSUME NEW b \in Budgets, try_cache_shortcircuit(b) PROVE
      PermitsSuffice'
    BY <1>0, <1>23, HoldingChanges
    DEF try_cache_shortcircuit, CoreTypes, Emptied, PermitsSuffice, frontier,
        control, environment
  <1>24. ASSUME persist_links PROVE PermitsSuffice'
    BY <1>0, <1>24, HoldingChanges
    DEF persist_links, CoreTypes, Emptied, PermitsSuffice, frontier, control,
        environment, history
  <1>25. ASSUME NEW l \in Link, set_extra_links(l) PROVE PermitsSuffice'
    BY <1>0, <1>25, HoldingChanges
    DEF set_extra_links, CoreTypes, Emptied, PermitsSuffice, frontier, control,
        environment, history
  <1>26. ASSUME run_with_crawl_timeout PROVE PermitsSuffice'
    BY <1>0, <1>26, HoldingChanges, BoundAssumption
    DEF run_with_crawl_timeout, set_crawl_status, CoreTypes, Emptied,
        PermitsSuffice
  <1>27. ASSUME time_passes PROVE PermitsSuffice'
    BY <1>0, <1>27, HoldingChanges
    DEF time_passes, CoreTypes, Emptied, PermitsSuffice, website, frontier,
        control, history
  <1>28. ASSUME NEW m \in Message, send_control(m) PROVE PermitsSuffice'
    BY <1>0, <1>28, HoldingChanges
    DEF send_control, CoreTypes, Emptied, PermitsSuffice, website, frontier,
        environment, history
  <1>29. ASSUME control_handler PROVE PermitsSuffice'
    BY <1>0, <1>29, HoldingChanges
    DEF control_handler, CoreTypes, Emptied, PermitsSuffice, website, frontier,
        environment
  <1>30. ASSUME NEW l \in Link, enqueue(l) PROVE PermitsSuffice'
    BY <1>0, <1>30, HoldingChanges
    DEF enqueue, CoreTypes, Emptied, PermitsSuffice, website, frontier, control,
        history
  <1>31. ASSUME others_acquire PROVE PermitsSuffice'
    BY <1>0, <1>31, HoldingChanges, BoundAssumption
    DEF others_acquire, Available, CoreTypes, Emptied, PermitsSuffice, website,
        frontier, control, history
  <1>32. ASSUME others_release PROVE PermitsSuffice'
    BY <1>0, <1>32, HoldingChanges, BoundAssumption
    DEF others_release, CoreTypes, Emptied, PermitsSuffice, website, frontier,
        control, history
  <1>33. ASSUME close_semaphore PROVE PermitsSuffice'
    BY <1>0, <1>33, HoldingChanges
    DEF close_semaphore, CoreTypes, Emptied, PermitsSuffice, website, frontier,
        control, history
  <1>34. CASE UNCHANGED vars
    BY <1>0, <1>34, HoldingChanges, BoundAssumption DEF vars, CoreTypes,
        Emptied, PermitsSuffice, website, frontier, control, environment,
        history
  <1>. QED
    BY <1>1, <1>2, <1>3, <1>4, <1>5, <1>6, <1>7, <1>8, <1>9, <1>10, <1>11,
        <1>12, <1>13, <1>14, <1>15, <1>16, <1>17, <1>18, <1>19, <1>20, <1>21,
        <1>22, <1>23, <1>24, <1>25, <1>26, <1>27, <1>28, <1>29, <1>30, <1>31,
        <1>32, <1>33, <1>34
    DEF Next, Driver, Caller, Surroundings

\* A step on which no link loses its place, and every link that is new to the
\* crawl has one.
Carries ==
    HasRoom' /\ cause' \in {{}, {"shutdown"}} =>
        /\ HasRoom /\ cause' = cause
        /\ \A l \in found : HasPlace(l) => HasPlace(l)'
        /\ \A l \in found' : l \in found \/ HasPlace(l)'

\* Such a step keeps the account.
LEMMA PlacesCarry == EveryLinkHasAPlace /\ Carries => EveryLinkHasAPlace'
  BY DEF EveryLinkHasAPlace, Carries

\* Every step but the start of a crawl and a shutdown is one.
LEMMA CarryStep ==
    ASSUME CoreTypes, FetchedIsVisited, Emptied, PermitsSuffice, [Next]_vars
    PROVE  \/ Carries \/ shutdown
           \/ \E b \in Budgets : crawl_raw(b) \/ try_cache_shortcircuit(b)
  <1>0. CoreTypes /\ FetchedIsVisited /\ Emptied /\ PermitsSuffice
    OBVIOUS
  <1>1. ASSUME cache_seed_miss PROVE Carries
    BY <1>0, <1>1
    DEF cache_seed_miss, Carries, HasPlace, HasRoom, CoreTypes, Emptied,
        PermitsSuffice, 
        website, frontier, control, environment, history
  <1>2. ASSUME cache_seed_hit PROVE Carries
    BY <1>0, <1>2
    DEF cache_seed_hit, set_crawl_status, Carries, HasPlace, HasRoom, CoreTypes,
        Emptied, PermitsSuffice, 
        website, frontier, control, environment, history
  <1>3. ASSUME NEW l \in Link, cache_link(l) PROVE Carries
    BY <1>0, <1>3
    DEF cache_link, is_allowed_budgetless, is_allowed_default, Carries,
        HasPlace, HasRoom, CoreTypes, Emptied, PermitsSuffice, 
        website, frontier, control, environment, history
  <1>4. ASSUME cache_end PROVE Carries
    <2>0. /\ phase = "cache_loop" /\ links = {} /\ stream = {}
          /\ \A l \in Link : worker[l] = "none"
          /\ UNCHANGED <<visited, found>>
      BY <1>0, <1>4 DEF cache_end, Emptied
    <2>1. CASE misses = {}
      <3>1. cause' = cause /\ extra' = extra
        BY <1>4, <2>1 DEF cache_end
      <3>. QED
        BY <2>0, <2>1, <3>1 DEF Carries, HasPlace, HasRoom
    <2>2. CASE misses # {}
      <3>1. /\ phase' = "begin" /\ extra' \in extra_links_with(misses)
            /\ cause' = IF misses \subseteq extra' THEN cause
                        ELSE cause \cup {"full"}
        BY <1>4, <2>2 DEF cache_end
      <3>2. extra \subseteq extra'
        BY <1>0, <3>1, ExtraLinksKeep DEF CoreTypes
      <3>. QED
        BY <2>0, <3>1, <3>2 DEF Carries, HasPlace, HasRoom
    <2>. QED BY <2>1, <2>2
  <1>5. ASSUME begin PROVE Carries
    BY <1>0, <1>5
    DEF begin, Carries, HasPlace, HasRoom, CoreTypes, Emptied, PermitsSuffice, 
        website, frontier, control, environment, history
  <1>6. ASSUME _crawl_establish PROVE Carries
    BY <1>0, <1>6
    DEF _crawl_establish, dequeue, is_allowed_budgetless, is_allowed_default,
        Carries, HasPlace, HasRoom, CoreTypes, Emptied, PermitsSuffice, 
        website, frontier, control, environment, history
  <1>7. ASSUME next_batch PROVE Carries
    BY <1>0, <1>7
    DEF next_batch, Carries, HasPlace, HasRoom, CoreTypes, Emptied,
        PermitsSuffice, 
        website, frontier, control, environment, history
  <1>8. ASSUME select PROVE Carries
    <2>0. UNCHANGED <<visited, extra, skip_initial, links, misses, worker,
        found>>
      BY <1>8 DEF select, website
    <2>1. /\ phase = "select"
          /\ \/ /\ phase' = "gate" /\ cause' = cause
                /\ \E l \in stream : cur' = l /\ stream' = stream \ {l}
             \/ /\ cause \subseteq cause'
                /\ phase' = "join" /\ stream' = stream
             \/ /\ cause \subseteq cause'
                /\ phase' = "guard" /\ stream' = {}
                /\ cause' = {} => stream = {}
          /\ "shutdown" \notin cause'
      BY <1>0, <1>8, SelectEffect DEF Emptied
    <2>2. HasRoom' => HasRoom
      BY <2>0, <2>1 DEF HasRoom
    <2>3. cause' \in {{}, {"shutdown"}} => cause' = {} /\ cause = {}
      BY <2>1
    <2>. QED
      BY <2>0, <2>1, <2>2, <2>3 DEF Carries, HasPlace
  <1>9. ASSUME handle_process PROVE Carries
    BY <1>0, <1>9
    DEF handle_process, Carries, HasPlace, HasRoom, CoreTypes, Emptied,
        PermitsSuffice, 
        website, frontier, control, environment, history
  <1>10. ASSUME skip_link PROVE Carries
    BY <1>0, <1>10
    DEF skip_link, is_allowed_budgetless, is_allowed_default, Carries, HasPlace,
        HasRoom, CoreTypes, Emptied, PermitsSuffice, 
        website, frontier, control, environment, history
  <1>11. ASSUME budget_exceeded PROVE Carries
    BY <1>0, <1>11
    DEF budget_exceeded, Carries, HasPlace, HasRoom, CoreTypes, Emptied,
        PermitsSuffice, 
        website, frontier, control, environment, history
  <1>12. ASSUME insert_link PROVE Carries
    BY <1>0, <1>12
    DEF insert_link, Carries, HasPlace, HasRoom, CoreTypes, Emptied,
        PermitsSuffice, 
        website, frontier, control, environment, history
  <1>13. ASSUME acquire_fails PROVE Carries
    BY <1>0, <1>13, ExtraLinksKeep
    DEF acquire_fails, Carries, HasPlace, HasRoom, CoreTypes, Emptied,
        PermitsSuffice, 
        website, frontier, control, environment, history
  <1>14. ASSUME join_next PROVE Carries
    BY <1>0, <1>14
    DEF join_next, Result, Working, Carries, HasPlace, HasRoom, CoreTypes,
        Emptied, PermitsSuffice, 
        website, frontier, control, environment, history
  <1>15. ASSUME check PROVE Carries
    BY <1>0, <1>15, ExtraLinksKeep
    DEF check, dequeue, Working, Carries, HasPlace, HasRoom, CoreTypes, Emptied,
        PermitsSuffice, 
        website, frontier, control, environment, history
  <1>16. ASSUME drain PROVE Carries
    BY <1>0, <1>16, ExtraLinksKeep
    DEF drain, Result, Working, Carries, HasPlace, HasRoom, CoreTypes, Emptied,
        PermitsSuffice, 
        website, frontier, control, environment, history
  <1>17. ASSUME end_batch PROVE Carries
    BY <1>0, <1>17
    DEF end_batch, dequeue, Working, Carries, HasPlace, HasRoom, CoreTypes,
        Emptied, PermitsSuffice, 
        website, frontier, control, environment, history
  <1>18. ASSUME store_extra_links PROVE Carries
    BY <1>0, <1>18, ExtraLinksKeep
    DEF store_extra_links, set_crawl_status, Carries, HasPlace, HasRoom,
        CoreTypes, Emptied, PermitsSuffice, 
        website, frontier, control, environment, history
  <1>19. ASSUME spawn_page_fetch PROVE Carries
    BY <1>0, <1>19
    DEF spawn_page_fetch, FetchedIsVisited, Carries, HasPlace, HasRoom,
        CoreTypes, Emptied, PermitsSuffice, 
        website, frontier, control, environment, history
  <1>20. ASSUME NEW l \in Link, page_fetch(l) PROVE Carries
    BY <1>0, <1>20
    DEF page_fetch, page_fetched, page_refused, page_panics, worker_ends,
        Carries, HasPlace, HasRoom, CoreTypes, Emptied, PermitsSuffice, 
        website, frontier, control, environment, history
  <1>21. ASSUME persist_links PROVE Carries
    BY <1>0, <1>21
    DEF persist_links, Carries, HasPlace, HasRoom, CoreTypes, Emptied,
        PermitsSuffice, 
        website, frontier, control, environment, history
  <1>22. ASSUME NEW l \in Link, set_extra_links(l) PROVE Carries
    BY <1>0, <1>22, ExtraLinksKeep
    DEF set_extra_links, Carries, HasPlace, HasRoom, CoreTypes, Emptied,
        PermitsSuffice, 
        website, frontier, control, environment, history
  <1>23. ASSUME run_with_crawl_timeout PROVE Carries
    BY <1>0, <1>23
    DEF run_with_crawl_timeout, set_crawl_status, Carries, HasPlace, HasRoom,
        CoreTypes, Emptied, PermitsSuffice, 
        website, frontier, control, environment, history
  <1>24. ASSUME time_passes PROVE Carries
    BY <1>0, <1>24
    DEF time_passes, Carries, HasPlace, HasRoom, CoreTypes, Emptied,
        PermitsSuffice, 
        website, frontier, control, environment, history
  <1>25. ASSUME NEW m \in Message, send_control(m) PROVE Carries
    BY <1>0, <1>25
    DEF send_control, Carries, HasPlace, HasRoom, CoreTypes, Emptied,
        PermitsSuffice, 
        website, frontier, control, environment, history
  <1>26. ASSUME control_handler PROVE Carries
    BY <1>0, <1>26
    DEF control_handler, Carries, HasPlace, HasRoom, CoreTypes, Emptied,
        PermitsSuffice, 
        website, frontier, control, environment, history
  <1>27. ASSUME NEW l \in Link, enqueue(l) PROVE Carries
    BY <1>0, <1>27
    DEF enqueue, Carries, HasPlace, HasRoom, CoreTypes, Emptied, PermitsSuffice,
        
        website, frontier, control, environment, history
  <1>28. ASSUME others_acquire PROVE Carries
    BY <1>0, <1>28
    DEF others_acquire, Carries, HasPlace, HasRoom, CoreTypes, Emptied,
        PermitsSuffice, 
        website, frontier, control, environment, history
  <1>29. ASSUME others_release PROVE Carries
    BY <1>0, <1>29
    DEF others_release, Carries, HasPlace, HasRoom, CoreTypes, Emptied,
        PermitsSuffice, 
        website, frontier, control, environment, history
  <1>30. ASSUME close_semaphore PROVE Carries
    BY <1>0, <1>30
    DEF close_semaphore, Carries, HasPlace, HasRoom, CoreTypes, Emptied,
        PermitsSuffice, 
        website, frontier, control, environment, history
  <1>31. CASE UNCHANGED vars
    BY <1>0, <1>31
    DEF vars, Carries, HasPlace, HasRoom, website, frontier, control,
        environment, history
  <1>. QED
    BY <1>1, <1>2, <1>3, <1>4, <1>5, <1>6, <1>7, <1>8, <1>9, <1>10, <1>11,
        <1>12, <1>13, <1>14, <1>15, <1>16, <1>17, <1>18, <1>19, <1>20, <1>21,
        <1>22, <1>23, <1>24, <1>25, <1>26, <1>27, <1>28, <1>29, <1>30, <1>31
    DEF Next, Driver, Caller, Surroundings

\* A shutdown that aborts no finished task leaves only the link at hand behind.
LEMMA ShutdownPlaces ==
    ASSUME CoreTypes, Emptied, PermitsSuffice, EveryLinkHasAPlace, shutdown
    PROVE  EveryLinkHasAPlace'
  <1>0. /\ phase = "admit" /\ cur \in Link
        /\ phase' = "store" /\ stream' = {} /\ extra' \in
            extra_links_with(stream)
        /\ cause' = cause \cup {"shutdown"}
                          \cup (IF Working \subseteq Holding THEN {} ELSE
                              {"aborted"})
        /\ UNCHANGED <<visited, links, misses, found>>
    BY DEF shutdown, CoreTypes, history
  <1>1. SUFFICES ASSUME HasRoom', cause' = {"shutdown"}
                 PROVE  \A l \in found : l = cur \/ HasPlace(l)'
    BY <1>0 DEF EveryLinkHasAPlace
  <1>2. cause = {} /\ Working \subseteq Holding
    BY <1>0, <1>1 DEF Emptied
  <1>3. extra' = extra \cup stream /\ Cardinality(extra) < ExtraLimit
    BY <1>0, <1>1, ExtraLinksKeep DEF CoreTypes, HasRoom
  <1>4. \A l \in found : HasPlace(l)
    BY <1>0, <1>2, <1>3 DEF EveryLinkHasAPlace, HasRoom
  <1>5. \A w \in Link : worker[w] # "full"
    BY <1>2 DEF Working, Holding
  <1>. QED BY <1>0, <1>3, <1>4, <1>5 DEF HasPlace

\* A crawl starts with links that are places of their own: the seed, or what
\* extra_links holds.
LEMMA StartPlaces ==
    ASSUME CoreTypes, Emptied, EveryLinkHasAPlace, NEW b \in Budgets,
           crawl_raw(b) \/ try_cache_shortcircuit(b)
    PROVE  EveryLinkHasAPlace'
  <1>1. CASE crawl_raw(b)
    <2>1. cause' = {} /\ phase' \in {"begin", "cache"}
      BY <1>1 DEF crawl_raw
    <2>2. CASE extra = {} \/ status # "Active"
      <3>1. found' = {Seed}
        BY <1>1, <2>2 DEF crawl_raw
      <3>. QED BY <2>1, <3>1 DEF EveryLinkHasAPlace, HasPlace
    <2>3. CASE extra # {} /\ status = "Active"
      <3>1. found' = extra /\ extra' = extra
        BY <1>1, <2>3 DEF crawl_raw
      <3>. QED BY <2>1, <3>1 DEF EveryLinkHasAPlace, HasPlace
    <2>. QED BY <2>2, <2>3
  <1>2. CASE try_cache_shortcircuit(b)
    BY <1>2 DEF try_cache_shortcircuit, EveryLinkHasAPlace, HasPlace
  <1>. QED BY <1>1, <1>2

----------------------------------------------------------------------------
\* Where the links of a crawl are is known in every state.
THEOREM AccountInvariant == Spec => []AccountInv
  <1>1. Init => AccountInv
    <2>1. ASSUME Init PROVE Holding = {}
      BY <2>1 DEF Init, Holding
    <2>2. Init => CrawlInv
      BY CrawlInitInv
    <2>3. Init => Emptied /\ EveryLinkHasAPlace
      BY DEF Init, Emptied, EveryLinkHasAPlace
    <2>4. ASSUME Init PROVE PermitsSuffice
      <3>1. Cardinality(Holding) = 0
        BY <2>1, <2>4, FS_EmptySet
      <3>. QED
        BY <2>4, <3>1, BoundAssumption DEF Init, PermitsSuffice
    <2>. QED BY <2>2, <2>3, <2>4 DEF AccountInv
  <1>2. AccountInv /\ [Next]_vars => AccountInv'
    <2> SUFFICES ASSUME AccountInv, [Next]_vars
                 PROVE  AccountInv'
      OBVIOUS
    <2>0. /\ CoreTypes /\ FetchedIsVisited /\ CrawlInv
          /\ Emptied /\ PermitsSuffice /\ EveryLinkHasAPlace
      BY DEF AccountInv, CrawlInv
    <2>1. CrawlInv'
      BY <2>0, CrawlStepInv
    <2>2. Emptied' /\ PermitsSuffice'
      BY <2>0, EmptiedStep, PermitsStep
    <2>3. EveryLinkHasAPlace'
      BY <2>0, CarryStep, PlacesCarry, ShutdownPlaces, StartPlaces
    <2>. QED BY <2>1, <2>2, <2>3 DEF AccountInv
  <1>. QED BY <1>1, <1>2, PTL DEF Spec

\* What has a place when the driver is idle was not lost.
LEMMA IdlePlaces ==
    ASSUME Emptied, phase = "idle", NEW l, HasPlace(l)
    PROVE  l \notin Lost
  BY LinkAssumption DEF Emptied, HasPlace, Lost

\* A crawl that met none of the conditions under which the code drops links
\* visited, refused or kept every link it learnt of: those of the cached pages,
\* of the fetched ones and of the queue, on every path through the batches.
THEOREM NothingLost == Spec => []QuietEndLosesNothing
  <1>1. AccountInv => QuietEndLosesNothing
    <2> SUFFICES ASSUME AccountInv, phase = "idle", cause = {},
                        Cardinality(extra) < ExtraLimit
                 PROVE  Lost = {}
      BY DEF QuietEndLosesNothing
    <2>1. Emptied /\ \A l \in found : HasPlace(l)
      BY DEF AccountInv, EveryLinkHasAPlace, HasRoom
    <2>2. \A l \in found : l \notin Lost
      BY <2>1, IdlePlaces
    <2>. QED BY <2>2 DEF Lost
  <1>. QED BY <1>1, AccountInvariant, PTL

\* A shutdown with no finished task to join loses the link that was being
\* admitted, if any, and keeps the batches.
THEOREM ShutdownLosesOne == Spec => []ShutdownKeepsTheRest
  <1>1. AccountInv => ShutdownKeepsTheRest
    <2> SUFFICES ASSUME AccountInv, phase = "idle", cause = {"shutdown"},
                        Cardinality(extra) < ExtraLimit
                 PROVE  Cardinality(Lost) <= 1
      BY DEF ShutdownKeepsTheRest
    <2>1. Emptied
      BY DEF AccountInv
    <2>2. PICK x \in Link : \A l \in found : l = x \/ HasPlace(l)
      BY DEF AccountInv, EveryLinkHasAPlace, HasRoom
    <2>3. \A l \in found : l = x \/ l \notin Lost
      BY <2>1, <2>2, IdlePlaces
    <2>4. Lost \subseteq {x}
      BY <2>3 DEF Lost
    <2>5. IsFiniteSet({x}) /\ Cardinality({x}) = 1
      BY FS_Singleton
    <2>6. /\ IsFiniteSet(Lost) /\ Cardinality(Lost) \in Nat
          /\ Cardinality(Lost) <= Cardinality({x})
      BY <2>4, <2>5, FS_Subset, FS_CardinalityType
    <2>. QED BY <2>5, <2>6
  <1>. QED BY <1>1, AccountInvariant, PTL
=============================================================================
