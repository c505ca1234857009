------------------------------ MODULE TabPool ------------------------------
(***************************************************************************)
(* TabPool (spider/src/utils/tab_pool.rs): a stack of idle browser tabs    *)
(* without a lock.  head is an atomic counter, slots a DashMap.  acquire   *)
(* and release claim an index with a compare-and-swap on head and touch    *)
(* the slot afterwards, so the two are never one step.  Dropping a Page    *)
(* does not close its tab: a dropped tab is leaked.                        *)
(***************************************************************************)
EXTENDS Integers, FiniteSets

CONSTANTS
    Task,       \* the tasks that acquire and release tabs
    Tab,        \* bound: the tabs the browser opens
    NoTab,
    max_size,   \* capacity of the pool
    MaxClears   \* bound: calls of clear

ASSUME PoolAssumption ==
    /\ NoTab \notin Tab
    /\ max_size \in Nat
    /\ MaxClears \in Nat

Slot == 0 .. max_size - 1

VARIABLES
    head,
    slots,      \* the tab in each slot of the map
    at,         \* where each task is
    current,    \* the value of head a task loaded, then the index it claimed
    page,       \* the tab a task owns
    closed,     \* tabs handed to the closer
    leaked,     \* tabs whose last handle was dropped unclosed
    clearing,   \* where the one task that clears is
    keys,       \* the keys it collected
    clears,
    overlap     \* auxiliary: a claim met another one on its slot, or a clear

pool == <<head, slots>>
tasks == <<at, current, page>>
clearer == <<clearing, keys, clears>>
poolVars == <<pool, tasks, closed, leaked, clearer, overlap>>

PoolInit ==
    /\ head = 0 /\ slots = [i \in Slot |-> NoTab]
    /\ at = [t \in Task |-> "idle"]
    /\ current = [t \in Task |-> 0]
    /\ page = [t \in Task |-> NoTab]
    /\ closed = {} /\ leaked = {}
    /\ clearing = "idle" /\ keys = {} /\ clears = 0
    /\ overlap = FALSE

Owned == {page[t] : t \in Task} \ {NoTab}

Pooled == {slots[i] : i \in Slot} \ {NoTab}

\* A call goes on without the index it has loaded, or returns.
Forget(t, label) ==
    /\ at' = [at EXCEPT ![t] = label]
    /\ current' = [current EXCEPT ![t] = 0]

----------------------------------------------------------------------------
(* acquire.                                                                *)

\* Load head; an empty pool leads to a new page.
acquire_load(t) ==
    /\ at[t] \in {"idle", "acquire"} /\ page[t] = NoTab
    /\ current' = [current EXCEPT ![t] = head]
    /\ at' = [at EXCEPT ![t] = IF head = 0 THEN "new_page" ELSE "pop"]
    /\ UNCHANGED <<pool, page, closed, leaked, clearer, overlap>>

\* compare_exchange from current to current - 1, or start over.
pop(t) ==
    /\ at[t] = "pop"
    /\ IF head = current[t]
       THEN /\ head' = head - 1
            /\ current' = [current EXCEPT ![t] = head - 1]
            /\ at' = [at EXCEPT ![t] = "take"]
       ELSE Forget(t, "acquire") /\ UNCHANGED head
    /\ UNCHANGED <<slots, page, closed, leaked, clearer, overlap>>

\* Plausible bug: the tab stays in its slot.
take_keeps_slot(t) ==
    /\ at[t] = "take"
    /\ IF slots[current[t]] = NoTab
       THEN /\ Forget(t, "new_page")
            /\ overlap' = TRUE
            /\ UNCHANGED page
       ELSE /\ page' = [page EXCEPT ![t] = slots[current[t]]]
            /\ Forget(t, "idle")
            /\ UNCHANGED overlap
    /\ UNCHANGED <<pool, closed, leaked, clearer>>

\* slots.remove: the tab, or nothing when its release has not filled it yet.
take(t) ==
    /\ at[t] = "take"
    /\ IF slots[current[t]] = NoTab
       THEN /\ Forget(t, "new_page")
            /\ overlap' = TRUE
            /\ UNCHANGED <<slots, page>>
       ELSE /\ page' = [page EXCEPT ![t] = slots[current[t]]]
            /\ slots' = [slots EXCEPT ![current[t]] = NoTab]
            /\ Forget(t, "idle")
            /\ UNCHANGED overlap
    /\ UNCHANGED <<head, closed, leaked, clearer>>

\* browser.new_page opens a tab or fails; which fresh tab it is does not matter.
new_page(t) ==
    /\ at[t] = "new_page"
    /\ at' = [at EXCEPT ![t] = "idle"]
    /\ LET fresh == Tab \ (Owned \cup Pooled \cup closed \cup leaked)
       IN  \/ UNCHANGED page
           \/ fresh # {} /\ page' = [page EXCEPT ![t] = CHOOSE x \in fresh : TRUE]
    /\ UNCHANGED <<pool, current, closed, leaked, clearer, overlap>>

----------------------------------------------------------------------------
(* release.                                                                *)

close_pooled_tab(t) ==
    /\ closed' = closed \cup {page[t]}
    /\ page' = [page EXCEPT ![t] = NoTab]
    /\ Forget(t, "idle")

\* At capacity the tab is closed; otherwise it goes to about:blank, and is
\* closed if that fails or takes too long.
release(t) ==
    /\ at[t] = "idle" /\ page[t] # NoTab
    /\ \/ close_pooled_tab(t)
       \/ /\ head < max_size
          /\ at' = [at EXCEPT ![t] = "release"]
          /\ UNCHANGED <<current, page, closed>>
    /\ UNCHANGED <<pool, leaked, clearer, overlap>>

\* Load head; the pool may have filled during the navigation.
release_load(t) ==
    /\ at[t] = "release"
    /\ IF head >= max_size
       THEN close_pooled_tab(t)
       ELSE /\ current' = [current EXCEPT ![t] = head]
            /\ at' = [at EXCEPT ![t] = "push"]
            /\ UNCHANGED <<page, closed>>
    /\ UNCHANGED <<pool, leaked, clearer, overlap>>

\* Plausible bug: the index is taken without comparing head.
push_without_compare(t) ==
    /\ at[t] = "push"
    /\ head' = current[t] + 1
    /\ at' = [at EXCEPT ![t] = "fill"]
    /\ UNCHANGED <<slots, current, page, closed, leaked, clearer, overlap>>

\* compare_exchange from current to current + 1, or load again.
push(t) ==
    /\ at[t] = "push"
    /\ IF head = current[t]
       THEN head' = head + 1 /\ at' = [at EXCEPT ![t] = "fill"] /\ UNCHANGED current
       ELSE Forget(t, "release") /\ UNCHANGED head
    /\ UNCHANGED <<slots, page, closed, leaked, clearer, overlap>>

\* slots.insert drops the tab it replaces: one that an acquire claimed and
\* has not taken yet.
fill(t) ==
    /\ at[t] = "fill"
    /\ slots' = [slots EXCEPT ![current[t]] = page[t]]
    /\ leaked' = leaked \cup ({slots[current[t]]} \ {NoTab})
    /\ overlap' = (overlap \/ \E d \in Task :
                       at[d] = "take" /\ current[d] = current[t])
    /\ page' = [page EXCEPT ![t] = NoTab]
    /\ Forget(t, "idle")
    /\ UNCHANGED <<head, closed, clearer>>

----------------------------------------------------------------------------
(* clear.                                                                  *)

clear_head ==
    /\ clearing = "idle" /\ clears < MaxClears
    /\ head' = 0 /\ clearing' = "collect" /\ clears' = clears + 1
    /\ overlap' = TRUE
    /\ UNCHANGED <<slots, tasks, closed, leaked, keys>>

clear_collect ==
    /\ clearing = "collect"
    /\ keys' = {i \in Slot : slots[i] # NoTab} /\ clearing' = "close"
    /\ UNCHANGED <<pool, tasks, closed, leaked, clears, overlap>>

clear_close ==
    /\ clearing = "close"
    /\ \E i \in keys :
          /\ keys' = keys \ {i}
          /\ closed' = closed \cup ({slots[i]} \ {NoTab})
          /\ slots' = [slots EXCEPT ![i] = NoTab]
    /\ UNCHANGED <<head, tasks, leaked, clearing, clears, overlap>>

\* What a release inserted meanwhile is dropped, not closed.
clear_sweep ==
    /\ clearing = "close" /\ keys = {}
    /\ leaked' = leaked \cup Pooled
    /\ slots' = [i \in Slot |-> NoTab] /\ clearing' = "idle"
    /\ UNCHANGED <<head, tasks, closed, keys, clears, overlap>>

PoolNext ==
    \/ \E t \in Task :
          \/ acquire_load(t) \/ pop(t) \/ take(t) \/ new_page(t)
          \/ release(t) \/ release_load(t) \/ push(t) \/ fill(t)
    \/ clear_head \/ clear_collect \/ clear_close \/ clear_sweep

PoolSpec == PoolInit /\ [][PoolNext]_poolVars

----------------------------------------------------------------------------
(* Properties.                                                             *)

PoolTypeOK ==
    /\ head \in 0 .. max_size
    /\ slots \in [Slot -> Tab \cup {NoTab}]
    /\ at \in [Task -> {"idle", "acquire", "pop", "take", "new_page",
                          "release", "push", "fill"}]
    /\ current \in [Task -> 0 .. max_size]
    /\ page \in [Task -> Tab \cup {NoTab}]
    /\ closed \subseteq Tab /\ leaked \subseteq Tab
    /\ clearing \in {"idle", "collect", "close"} /\ keys \subseteq Slot
    /\ clears \in 0 .. MaxClears /\ overlap \in BOOLEAN

\* A tab has one owner, whatever overlaps: no two tasks drive it, and no task
\* drives a tab that is in the pool, was closed or was dropped.
OneOwner ==
    /\ \A t, d \in Task : page[t] = page[d] /\ page[t] # NoTab => t = d
    /\ \A i, j \in Slot : slots[i] = slots[j] /\ slots[i] # NoTab => i = j
    /\ Owned \cap Pooled = {}
    /\ (Owned \cup Pooled) \cap (closed \cup leaked) = {}
    /\ closed \cap leaked = {}

\* As long as no release fills a slot that an acquire has claimed and not
\* taken, no acquire finds its slot unfilled and nobody clears, the pool
\* loses no tab: none is leaked, and none sits where no acquire will look.
NoLeakWithoutOverlap ==
    ~overlap =>
        /\ leaked = {}
        /\ \A i \in Slot :
              slots[i] # NoTab /\ i >= head =>
                  \E t \in Task : at[t] = "take" /\ current[t] = i
=============================================================================
