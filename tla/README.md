# Scorpion: durable capabilities and crawls, specified and checked

This directory specifies, model-checks and proves two parts of Scorpion: the
part that keeps its promises across processes, failures and restarts (the
persistence seam and the capabilities built on it: watches, scheduled runs,
change detection, health, authenticated sessions, the IAM callback inspector,
research runs), and the concurrent core of a crawl with the services around it
(the raw crawl of a `Website`, request coalescing, the tab pool, the crawl
sessions of the MCP server).

## The system

Scorpion is a crawler and evidence engine (`spider`, with its CLI, MCP server,
HTTP service `scorpion_app`, agent crates and transports).  A crawl is one
driver task that admits links and worker tasks that fetch them, within one
process.  On top of it is a set of *durable capabilities* that share one SQLite
file.  There is no server that owns this file: the CLI, the
MCP server and the HTTP service each open it, several handles at a time.

| component | state it keeps | operations | talks to |
|---|---|---|---|
| domain persistence (`features/domain_persistence.rs`) | two tables: current state (identity, revision, bytes) and history (identity, revision, bytes) | `open`, `read_current`, `write_current` (compare-and-swap), `append_history`, `read_history` | SQLite |
| domain state (`features/domain_state.rs`) | none: a pure contract `current + transition -> new current + superseded` | `CurrentState::apply` | called by the capabilities |
| watch (`features/watch.rs`) | an immutable definition, a state `Active`/`Stopped` with the last evidence, the superseded states | `define_watch`, `apply_watch_transition(ObserveEvidence, StopWatch)` | persistence |
| scheduled execution (`features/watch_schedule.rs`) | an immutable schedule, one record `Claimed`/`Completed` per tick | `define_watch_schedule`, `execute_scheduled_watch_run` | persistence, acquisition, evidence, watch |
| evidence ledger (`utils/evidence.rs`) | one immutable bundle per evidence identity | `record_evidence`, `read_evidence` | persistence |
| change detection (`features/change_detection.rs`) | one immutable event per (watch, previous, current) | `detect_and_record_change` | watch, evidence, persistence |
| watch health (`features/watch_health.rs`) | none | `assess_watch_health` | reads all of the above |
| authenticated sessions (`features/auth_session.rs`) | `Active`/`Paused(token)`/`Invalidated` | `create_session`, `apply_session_transition` | persistence |
| IAM callback inspector (`scorpion_app/src/iam.rs`, `features/iam_trace.rs`) | a trace `AwaitingCallback`/`Received`, numbered observations | `create_trace`, `receive_callback`, `read_trace` (repairs) | persistence |
| research session (`features/research_session.rs`) | a claim and a terminal record per research run | `claim_durable_research`, `execute`, `read_research_session` | persistence, evidence, agent |
| transform lineage (`features/transform_lineage.rs`) | content-addressed immutable records | `record_lineage`, `read_lineage` | persistence |
| crawler (`website.rs`, `page.rs`) | visited links, frontier (`links`, `extra_links`), budgets, status | `crawl_raw` with its cache phase, `persist_links`, `set_extra_links`, `queue`, pause / resume / shutdown | network, HTTP cache, control channel, shared semaphore |
| request coalescer (`utils/coalesce.rs`) | the entry in flight of each URL | `try_start`, `complete`, `purge_stale` | fetching tasks |
| tab pool (`utils/tab_pool.rs`) | a stack of idle browser tabs: a head and slots | `acquire`, `release`, `clear` | browser |
| MCP crawl tool (`spider_mcp`) | a table of background crawls, permits of browser crawls | `run`, eviction, `crawl_status` | crawler, page channel |
| transports, search, browsers, models, agents, CLI | configuration | I/O | network, external services |

What is hard about it, and what the properties are about:

* **interleavings**: every capability is a sequence of independent store calls;
  other handles and processes run between any two of them;
* **crash points**: a process can die, a call can fail, between any two calls;
  nothing spans `write_current` and `append_history`;
* **stale decisions**: a transition is decided on a copy read earlier;
* **retries and replays**: a tick fires twice, a callback collides, an opener
  meets a locked file;
* **readers in motion**: change detection, health and readback read one entity
  in several calls;
* **tasks in one process**: the driver of a crawl, its workers, control
  messages, queue producers and a timeout that drops the driver at any await;
  maps and atomics that are read in one access and changed in the next;
* **limits**: page budgets that count from one, wrap at zero and are shared by
  two phases, rings that overwrite, permits and tables at capacity.

The complete list, with source lines and the properties that answer each
hazard, is `hazards` in `PROJECT.json`.

## The modules

| module | models | built from |
|---|---|---|
| `DomainPersistence` | the promise of the store: each call one atomic step | -- |
| `SqliteStore` | how the code keeps it: handles, WAL conversion, `BEGIN IMMEDIATE`, busy timeout, open's retry, rollback, death | extends `DomainPersistence`, and implements its `StoreSpec` |
| `SqliteStoreProofs` | theorems about `SqliteStore`, the refinement among them | extends `SqliteStore` |
| `Lifecycle` | the abstract contract of `domain_state.rs`: transitions applied atomically to the state an entity is in | -- |
| `DomainState` | the protocol read / apply / compare-and-swap / append, for any pure transition function | extends `DomainPersistence`; implements `Lifecycle` |
| `DomainStateProofs` | theorems about `DomainState` | extends `DomainState` |
| `Watch` | definitions and the lifecycle of a watch; keys and payloads of the pipeline | instance of `DomainState` |
| `WatchSchedule` | schedules, claims, fetch, evidence, observation, completion | extends `Watch` |
| `WatchInsight` | change detection and health | extends `WatchSchedule` |
| `WatchProofs` | theorems about scheduled runs, change detection and health | extends `WatchInsight` |
| `AuthSession` | authenticated sessions: states, transitions and tokens | extends `DomainState` |
| `AuthSessionProofs` | theorems about `AuthSession`, the refinement of `Lifecycle` among them | extends `AuthSession`, `DomainStateProofs` |
| `IamTrace` | the callback inspector | extends `DomainPersistence` |
| `IamTraceProofs` | theorems about `IamTrace` | extends `IamTrace` |
| `ResearchSession` | research runs: claim, acquisition, binding of sources, terminal record | extends `DomainPersistence` |
| `ResearchSessionProofs` | theorems about `ResearchSession` | extends `ResearchSession` |
| `Crawl` | the raw crawl: cache phase, seed, admission and budgets, the select loop, workers, control, queue, shared permits, timeout, consecutive crawls | -- |
| `CrawlProofs` | theorems about `Crawl` | extends `Crawl` |
| `Coalesce` | `RequestCoalescer`, one access of the map per step | -- |
| `TabPool` | `TabPool`, one access of head or slots per step | -- |
| `CrawlSessions` | the crawl tool of the MCP server: requests, crawls, readers, session table, eviction | -- |
| `ServicesProofs` | theorems about the three | extends `Coalesce`, `TabPool`, `CrawlSessions` |
| `MCServices` | instances of `Coalesce`, `TabPool` and `CrawlSessions` in one run | extends the three |
| `MC*` | instances and symmetry sets for TLC | the module they are named after |

How state and actions correspond to the code:

* `current` and `history` are the two SQL tables.  A revision of 0 is the
  code's `None`; a first write stores revision 1.
* Identities are freshly minted UUIDs in the code: the models take unused model
  values.  Serialised payloads are abstracted to what the code decides on: the
  lifecycle state, the run record, the kind and value of the compared hash.
  Serialisation errors are among the store errors, which end a call at any of
  its steps.
* One action is one store call together with the pure code up to the next one.
  `DomainState!read_and_apply`, `swap`, `record_superseded` are the three calls
  of `apply_watch_transition` and `apply_session_transition`; `lose_race`,
  `store_error` and `abandon` are what can happen instead.  In `WatchSchedule`
  the steps of `execute_scheduled_watch_run` carry the names of what they do.
* Auxiliary variables, which no guard reads: `trail` (every state an entity was
  ever in), `lost` (superseded states whose append never happened), `fetches`,
  `answers`, `resumed`.
* In `ResearchSession` the engine (`Agent::research`) is what it hands over:
  which pages were retained and extracted, in which order, and which labels the
  model cited.  A label cited twice passes the engine's validation and is
  refused by `build_durable_result`, as a test of `research_session.rs` wants;
  such a run ends with its claim.
* In `WatchSchedule` a tick is an instant and `unix_seconds` its whole seconds,
  zero before 1970, so that instants which share a run key are part of the model.
* In `Crawl` the variables of the first group are fields of `Website`, those of
  the second locals of `crawl_concurrent_raw`; `phase` says at which await, or
  between which branches, the driver is.  One action is what the driver does
  between two awaits.  Links are model values, `Points` says what is on each
  page; what `is_allowed_default` decides from lists, robots and depth is the set
  `Disallowed`, what the transport boundary refuses is `Outside`.  Budget
  counters wrap (`MaxCounter` is `u32::MAX`), because a budget of zero does.
  `cause` collects the conditions under which the code drops links silently, so
  that a property can say that there is no other.
* In `Coalesce` and `TabPool` every access of a `DashMap` or an atomic is a step
  of its own.  `disturbed` and `overlap` record that the windows between two
  accesses were hit; the properties say what holds until then, and what always.
* In `CrawlSessions` a request has a `limit`; at or below `InlineLimit` it is
  answered inline, above it becomes a session.  A crawl finds at most `limit`
  pages (`LimitIsKept` of `Crawl`), unless the limit is 0, which wraps in a
  release build.  The page channel is a ring of `Capacity` pages; a reader that
  is further behind gets `Lagged`.  An aborted task ends where it awaits, but a
  browser crawl runs on a thread of its own that the abort does not reach.
* Operators commented *Plausible bug* are no part of any specification.  Each
  is a mutated form of the action that follows it -- a dropped check, a swapped
  order, an off-by-one -- kept to show that the property named in
  `PROJECT.json` (`mutants`) would notice it.

## The runs

Bounds are small because the code has no behaviour that needs more of a kind:
identities never interact except through the keys modelled, so one entity, and
two or three processes (one holds, one races, one fails) with enough revisions
for a state to come back, exercise every interleaving shape.

| run | bounds | shows |
|---|---|---|
| `sqlite_store` | 2 handles, 1 identity, 2 payloads, 2 attempts, revisions up to 2 | the transactions implement the atomic store; nobody writes on a stale check; usable handles have tables; opens and calls end |
| `watch_history_gap` | 3 processes, 2 evidence identities | **violation**: a superseded state can be lost, which the documentation excludes |
| `watch_schedule` | 3 processes, 3 instants of which two (one before 1970) share a run key, 2 evidence identities | a tick is fetched at most once, by one owner; completed runs are backed; all callers get the same answer; abandoned claims stay |
| `watch_insight` | 2 processes, 2 ticks, 2 hashes | change events are true; health sees the observations in the order they happened |
| `watch_readiness` | as `watch_insight` | **violation**: after a stop, health does not find the comparison of the last two observations |
| `auth_session` | 3 processes, 1 session, 2 tokens, transitions begun below revision 4, so that states recur | the protocol of `DomainState`, as sessions use it: atomic transitions, truth and accounting of the history, no colliding append; a session is resumed only with the token of the pause it ends |
| `research_session` | 2 runs, 4 evidence identities, 3 pages, 2 citations | no evidence without a durable claim; a published session stands on its own durable evidence with Source N the N-th extraction; the rules a result is built by and the rules it is validated by agree |
| `iam_trace` | 3 callbacks, 1 reader, 2 retries, 1 failure | observations are numbered without gaps, acknowledged ones are durable once, giving up needs contention, a readback is consistent, an observed trace is eventually marked |
| `crawl` | 6 links, 2 permits, 5 budgets, 8 mixes of surrounding events | no URL is fetched twice; the page limit holds; links are lost only for a named cause; a shutdown keeps all but one link; a pause lets one more link through; a crawl ends |
| `services` | 4 calls of one URL; 2 tasks, 2 tabs, one clear; 7 plans of up to 3 requests | the coalescer leaves no dangling entry, shares fetches and wakes its waiters; a tab has one owner and is not leaked without an overlap; success is earned, running sessions are kept, eviction makes room, requests settle |
| `mcp_lag` | as `services`, one background session of 3 pages | **violation**: a session is complete while its crawl still runs |
| `mcp_abort` | as `services`, two inline browser crawls, or a browser session that is evicted | **violation**: an aborted browser crawl runs on and keeps its permit |

`MaxRevision` bounds *starting* a transition; `MaxAttempts` and `MaxRetries` are
the code's constants (5 and 5), lowered to 2 so that running out of them is
reached with two or three actors.  `MaxFailures` bounds store errors and deaths
in `IamTrace`; `MaxPages` and `MaxCited` of `ResearchSession` bound the pages a
run tries (three, so that a page without extraction can lie between two with
one) and the labels a model cites (two, so that one can be cited twice).

`Allowances` of `Crawl` bounds how many events of each kind a behaviour has: the
instance lists mixes of crawls, control messages, links handed in, cache hits,
panics, other crawls' permits, timeout steps and a closing semaphore, each mix
explored to its end; the events of different mixes act on different parts of
the driver.  The site has a page reached over two ways, a link back to the
seed, a blocked and an outside link, and a section with a budget of its own;
the budgets are none, 0 (which wraps), 1 (a single page), 3, and 5 with a
path budget of 1.  `ExtraLimit` (5 instead of the code's limit) and
`QueueCapacity` (1) are reached.

`Plans` of `CrawlSessions` lists the requests that come: three sessions that
evict one another with and without a running TTL, pairs with a browser, with
screenshots and over Tor, inline and in the background, and a pair without a
limit.  `InlineLimit` and `Capacity` are 1: as in the code (10 and 16) the pages
of an inline crawl with a limit fit into the ring, which `InlineAssumption`
states, and a session of up to `MaxPages` (3) laps it.  `MaxSessions`,
`SessionTtl` and `ChromePermits` are 1, so that the table overflows, sessions
expire and requests queue for a browser with two or three requests.  The three
components of `MCServices` share no state: the run explores the behaviours in
which one of them works and the others are untouched, which is every behaviour
of each.

Deadlock is checked where the system has no bounded end (`SqliteStore`,
`IamTrace`); elsewhere the bounds let it stop.

**Fairness.**  Weak fairness of the steps of a call or task that has begun: it is
polled by the runtime until it ends (or its process dies, which is always
possible).  Nobody is obliged to start a call, to send a control message or to
disconnect, with one exception that `iam.rs` states itself: a readback "is the
one access path guaranteed to be exercised for any trace an operator actually
cares about", so `IamFairness` lets readers keep reading.  In `Crawl` the wait
for a permit is strongly fair, because tokio's semaphore serves its waiters
first in, first out, and the other crawls' permits come back (their fetches
have timeouts).  In `Coalesce` and `CrawlSessions` one weak fairness condition
covers all internal steps: as long as some task can go on, one does; since each
task ends after finitely many steps, that is weaker than fairness of each and
still enough.  That condition of `CrawlSessions` obliges a crawl to end only if it goes
by HTTP and has a limit: its fetches have a timeout (`request_timeout`, 120 s by
default), and `CrawlEnds` shows that such a crawl ends unless it is paused for
good.  A crawl with a browser, for which the crawl tool sets no timeout, or
without a limit may run for ever.  `RequestsSettle` therefore says that a request
for a bounded crawl settles whatever the others do, and that the others do
unless an unbounded crawl never ends: its own session then stays "running", and
requests may wait for its permit for ever.

### The disagreements with the documentation

* `watch.rs` (135) and `watch_schedule.rs` (99) say that every superseded state
  is preserved by the append-only records.  The append is a second, independent
  call; a crash or store error between the two loses the state, and no later
  call repairs it.  `HistoryIsAccountedFor` states what does hold.
* `watch_health.rs` (81-91) ties readiness to the most recent consecutive
  evidence pair.  `StopWatch` carries the last evidence over into the stopped
  state, so the list health builds ends in the same evidence twice and the
  recorded comparison of the last two observations is not found.
* `state.rs` (88-89) and `tools/crawl.rs` (364-366) of the MCP server say that the
  crawl of a session is over when its pages were read.  The loop
  `while let Ok(page) = rx.recv().await` ends at any error, and a lag of the
  16-page ring is one: a background session that transforms pages more slowly
  than they come is `Complete` with what it has while its crawl goes on, and its
  eviction then aborts a running crawl (run `mcp_lag`).  An inline request has a
  limit of at most 10, which sitemap pages are charged to as well, and cannot
  lag; what `state.rs` (130-131) and `tools/crawl.rs` (194-195) say of it holds,
  except for `limit: 0`, which wraps in a release build and is no limit.
  `SuccessIsEarned` states all that does hold.
* `tools/mod.rs` (98-106), `state.rs` (63-64, 87-88, 128-129) say that an abort, by
  a client that disconnects or an eviction, stops a browser crawl and releases
  its browser and its permit.  `spawn_chrome_capable` runs the crawl in
  `block_on` on a thread that the abort does not reach; its own test
  (`chrome.rs` 2289) confirms it.  The crawl runs on and keeps its permit until
  it ends by itself (run `mcp_abort`).
* `utils/coalesce.rs` (3-5) says that of concurrent requests for one URL only one
  fetches.  `try_start` looks the entry up and inserts one in two accesses of the
  map, so two calls may both find none and both fetch; after 120 s a second call
  takes over by design.  No run refutes this; `OneFetchUnlessDisturbed` states
  what holds, until an entry ages or two calls meet in that window, and
  `WaitersWake` that nobody is left waiting even then.

### Observations

Behaviour met while modelling that contradicts no document, or only in passing;
the models contain it and the properties are stated around it.

* *Crawl.*  When no permit is free at the select (all taken by other crawls under
  `shared_queue`, or the only one by a task of this crawl) and no task is left to
  join, the rest of the batch is dropped and the crawl may end quietly.
  `BudgetExceeded` leaves the loop past the code that saves the rest of the
  batch.  A shutdown loses the link at hand and the results not joined yet, and
  aborted URLs stay visited.  A panicking worker drops the batch.
  `skip_initial` is never reset, so a later fresh crawl of the same `Website`
  skips its seed.  A cache miss is charged twice.  `with_limit(0)` wraps (or
  panics in a debug build).  A path budget that is spent ends the whole crawl.
  The control channel keeps only the last message, also one for another crawl,
  and a new crawl sees an old one.  A pause holds neither the seed nor cached
  pages.
* *Tab pool.*  An acquire that has claimed an index and not yet emptied its slot,
  met by a release that claims and fills the same slot, makes the release
  overwrite a tab, which is dropped without being closed.
* *MCP.*  A missing screenshot fails a session whose crawl runs on; a browser
  request waits for its permit before it evicts; concurrent requests can exceed
  `MAX_SESSIONS` (`EvictionMakesRoom` speaks of evictions that met no other).
* *Change detection.*  The second of two detections of one pair is answered with
  the event it computed, not with the stored one; their instants differ.  Their
  verdicts agree, because both are a function of the same two immutable bundles:
  `ChangeEventIsTruthful` compares a stored verdict with the bundles as they are
  at any later moment.

## The proofs

Every theorem holds for any values of the constants that satisfy the named
assumptions of the modules.  The assumptions are of three kinds: absent values
(`NoRow`, `NoOp`, `NoTask`, `NoResult`, ...) are distinct from ordinary ones, as
`None` is from `Some`; the constant functions and sets have the types the code
gives them; bounds are natural numbers, positive where the code's are.  Two
deserve a word:

* `KeyAssumption` (`Watch`): the identities of watches and of evidence are
  different, and none is a derived key.  In the code they are separately minted
  UUIDs, and derived keys have the forms `{id}#definition`, `{id}#schedule`,
  `{id}#run#{seconds}` and `change_{sha256}`.
* `SiteAssumption` (`Crawl`): a site has finitely many links.  The accounting
  theorems need it, because the extra-links queue is drained by a sequence of
  them.

Each proof has one lemma per shape of step (what a write, an append, a move of
the program counter changes), one per action and conjunct that the action
disturbs, and a step lemma that combines them.  Why each inductive invariant is
what it is:

**The store** (`SqliteStoreProofs`).  `SqliteInvariant` adds to the two properties
that the writer the model lets write is the one the file is locked by
(`LockOwnership`), that a call keeps its arguments (`CallIsKnown`) and that a
connection which creates tables has passed the WAL conversion (`FileIsPrepared`).
That a checked revision stays current until the commit is then the exclusion
between transactions.  `SqliteImplementsStore` proves `Spec => AtomicStore`: a
commit of a write is `write_current`, an insertion into the history is
`append_history`, every other step stutters -- rollbacks, busy timeouts, failed
opens and deaths included.

**The protocol** (`DomainStateProofs`).  `DomainInvariant`: the properties alone are
not inductive.  That an append cannot collide needs to know that nobody else
is about to append the same revision (`AppendHasOneOwner`), that what a process
carries from its read is a state the entity had (`DecisionsAreGrounded`), that
the current row is the newest entry of the trail (`CurrentIsNewest`) and that
only finished revisions can be lost (`LostIsOver`).  `DomainRefinesLifecycle`:
the row is mapped to the abstract state; `create` and a successful `swap` are
the abstract steps, every other step stutters.  The swap maps to a legal step
because the revision it compares pins the trail entry it decided on.

**Sessions** (`AuthSessionProofs`).  `AuthSession` is the protocol with the states and
transitions of sessions (`SessionAssumption`), so `DomainInvariant` holds of it and
every step is one of the protocol: `SessionsAreAtomic` is its refinement of
`Lifecycle`.  `SessionInvariant` adds the token argument: an `Active` entry of the
trail beyond the first was produced by a `resume`, the transition function
accepts it only from `Paused` with the same token, and the state it was applied
to is the preceding entry.

**Scheduled runs** (`WatchProofs`).  `ScheduleInvariant` has three parts.  Claims
(`ClaimsAreSound`): a run has no record, or revision 1 `Claimed`, or revision 2
`Completed`; nothing was fetched before the claim, nothing yet by the owner who
is about to, and an answer is what the record says.  Evidence
(`EvidenceIsSound`): it is recorded before it is observed and belongs to one run,
and every state of a watch -- stored, past, or carried by a transition that has
not swapped yet -- names recorded evidence.  Tasks (`TaskIsSound`): a task and the
transition it started agree on the watch.  Six properties follow;
`FailClosed` is an action property, so a claim whose owner is gone is left alone
by every step.

**Change detection** (`WatchProofs`).  A detection reads the current row, the history
and two bundles in separate calls, while runs and transitions go on and appends
lag behind.  `InsightInvariant` says that whatever it can find of a watch -- the
row, the history, the old state in the hands of a transition about to append it
-- the watch once saw (`SeenIsPast`), that what it has found so far stays seen
(`DetectionIsGrounded`), and that an identity other than a watch has one
immutable row (`LedgerIsSound`), so that the two bundles are the same whenever
they are read and every recorded event is true of them.

**Health** (`WatchProofs`).  The list an assessment judges is put together from two
reads, and the history may lag behind the row.  `HealthInvariant` says that each
state of a watch -- in the row, in the history, in the hands of a transition that
has not appended it yet -- is the one the trail has at that revision
(`PastIsTrue`), which the compare-and-swap makes so.  The history is sorted by
revision; that the k-th of a finite set of numbers ascends with k is the lemma
`NthAscends`.  The first read is then a subsequence of the trail, what the second
one adds is the current state and comes last, and later steps only lengthen the
trail (`ReadingIsInOrder`).  `HealthOrder` follows.

**IAM traces** (`IamTraceProofs`).  Counting and inserting are two calls, so a
callback's number may be taken when it comes.  `IamInvariant` says that the
number tried is at most one above what is recorded (`CallbackIsCounted`), so that
it is the next one unless it is taken; that each retry was paid for by an observation of
another; that a callback is recorded once it is acknowledged and never twice
(`ObservedOnce`); and that a trace has two revisions, so that what a reader saw
stays true while it repairs (`ReaderSawTheTrace`).

**Research runs** (`ResearchSessionProofs`).  `ResearchInvariant` says that the claim
stands under everything that follows, that what was retained is durable, that
the engine cites extractions it made, and that the record in the making is
truthful.  `ChecksAgree` is the implication between two lists of rules:
the one `build_durable_result` builds by and the one
`validate_research_session` rejects by.

**The crawl** (`CrawlProofs`).  `CrawlInvariant`: a fetch count of at most one is not
inductive, since the link that waits for a permit is fetched one step later; so
the invariant says that it is visited and not yet fetched (`FetchedIsVisited`).
Nor is the page limit: the seed is never charged, a link is charged before its
page comes and the counter stops at 1, so the invariant relates the pages to
what is left of the budget, one tighter while a page is due
(`BudgetCoversPages`, `PageIsDue`).  `PauseIsSeen` says that the one link a pause
may miss has left the driver.  `AccountInvariant` says where every link is --
visited, queued, in the batch, at hand, with a task -- as long as `cause` is
empty, what each phase leaves empty, and that a batch is only dropped when the
permits are accounted for elsewhere; from it follow `NothingLost` and
`ShutdownLosesOne`.

**The services** (`ServicesProofs`).  `CoalesceInvariant`: a stale entry, or a call
that saw one, is at a disturbed URL (`StaleIsDisturbed`), and at an undisturbed
one the fetching call owns the entry (`FetchOwnsEntry`).  `PoolInvariant`:
ownership of a tab depends on where a task is between its claim of an index and
its access to the slot, so `Places` says which tasks hold a tab and whose index
is one of a slot, and `NoneTwice` states ownership task by task and slot by slot.
That no tab leaks before an overlap is a conservation law, slot by slot: a claim
on an index is either over or will be honoured.  `SessionsInvariant`: the order of events in a
request, counts that were earned by pages sent, that a crawl sends no more than
its request may (`Within`), so that the reader of an inline crawl with a limit
never falls behind, and for the eviction that what
it collected is what the table held -- `RoomMade` then compares the number of
sessions before and after, by a bijection between the chosen ones and the
excess.

Every safety invariant the passing runs check is proved.  Only model-checked is
all liveness (`OperationsTerminate`, `ObservedIsMarked`, `CrawlEnds`,
`WaitersWake`, `RequestsSettle`), which is out of the prover's reach.

## Not modelled

SQLite's own durability (WAL recovery, torn pages) is assumed.  Text, hashing,
cron syntax, URL handling, parsing of callbacks, JWT and SAML decoding and all
network I/O are choices between outcomes.

Of the crawler: the statuses that record why a crawl failed; the browser, smart
and remote variants of the loop, which repeat the control of the raw one around
a browser; sitemaps; frontiers on disk and Bloom filters; parallel backends and
hedged requests; callbacks that rewrite links; the parsing of pages.  Of the
utilities: the rate limiter, adaptive concurrency, backoff and the retry
strategy, which compute delays from clocks and floating-point averages.  Of the
MCP server: the tools that answer one request from one fetch, and the browser
permits that the links and scrape tools also take.

The models cover a small share of the repository's lines, and most of the rest
has no state machine to check: HTML and link extraction and their tests, tables
of user agents and signatures, HTTP and browser drivers, model runtimes and
prompts, command-line and wire formats.  The browser, model and agent crates
are out of reach, as external programs decide their behaviour.

## Plan

1. *(done)* store, protocol, watch pipeline, sessions, IAM traces, research runs,
   the protocol's proof.
2. *(done)* the raw crawl, request coalescing, the tab pool, the crawl sessions
   of the MCP server; run keys of ticks; the proofs about the coalescer, the
   crawl and the tab pool.
3. *(done)* the proofs: the store and its refinement, scheduled runs, change
   detection, sessions, IAM traces, research runs, the rest of the crawl, the
   tab pool and the MCP sessions; the order health assesses; that sessions
   refine `Lifecycle`.
4. Proofs: that watches, as an instance of the protocol, refine `Lifecycle`.
5. `TransformLineage`, the parsing limits of the IAM inspector, the capacity of
   the HTTP service's background runs, the browser variant of the crawl loop.
