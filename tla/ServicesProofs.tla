--------------------------- MODULE ServicesProofs ---------------------------
(***************************************************************************)
(* Proofs about the three services around a crawl, for any number of calls *)
(* and URLs, tasks and tabs, requests and sessions.                        *)
(***************************************************************************)
EXTENDS Coalesce, TabPool, CrawlSessions, FiniteSetTheorems,
        FunctionTheorems, TLAPS

----------------------------------------------------------------------------
(***************************************************************************)
(* RequestCoalescer.  Neither property is inductive alone: that a second   *)
(* fetch needs a disturbance rests on where the disturbance comes from, so *)
(* the invariant also says that stale entries and calls about to remove    *)
(* one are at disturbed URLs, and that in an undisturbed URL the fetching  *)
(* call owns the entry.                                                    *)
(***************************************************************************)
\* An entry goes stale, and a call sees one stale, only at disturbed URLs.
StaleIsDisturbed ==
    \A c \in Call : c \in stale \/ step[c] = "remove" => url[c] \in disturbed

\* At an undisturbed URL the entry in the map is that of the fetching call.
FetchOwnsEntry ==
    \A c \in Call :
        step[c] = "fetch" /\ url[c] \notin disturbed => in_flight[url[c]] = c

CoalesceInv ==
    /\ CoalesceTypeOK
    /\ NoDanglingEntry
    /\ StaleIsDisturbed
    /\ FetchOwnsEntry

\* Leaves changes the place of its call and of the waiters only, and the
\* waiters only from "wait" to the label they wake with.
LEMMA LeavesSteps ==
    ASSUME CoalesceTypeOK,
           NEW u \in Url, NEW wake \in {"told", "closed"},
           NEW c \in Call \cup {NoCall},
           NEW next \in {"insert", "fetch", "done"},
           Leaves(u, wake, c, next)
    PROVE  /\ step' \in [Call -> {"start", "remove", "insert", "fetch", "wait",
                                  "told", "closed", "done"}]
           /\ \A d \in Call : d = c => step'[d] = next
           /\ \A d \in Call : d # c =>
                 \/ step'[d] = step[d]
                 \/ step[d] = "wait" /\ step'[d] = wake
  <1>1. step' = [d \in Call |->
                    IF d = c THEN next
                    ELSE IF d \in Waiters(in_flight[u]) THEN wake ELSE step[d]]
    BY DEF Leaves
  <1>2. \A d \in Waiters(in_flight[u]) : step[d] = "wait"
    BY DEF Waiters
  <1>3. step \in [Call -> {"start", "remove", "insert", "fetch", "wait", "told",
                           "closed", "done"}]
    BY DEF CoalesceTypeOK
  <1>. QED BY <1>1, <1>2, <1>3

\* The initial states satisfy the invariant.
LEMMA CoalesceInitInv == CoalesceInit => CoalesceInv
  BY CallAssumption
  DEF CoalesceInit, CoalesceInv, CoalesceTypeOK, NoDanglingEntry,
      StaleIsDisturbed, FetchOwnsEntry

\* Every step of a call, a purge or the clock preserves the invariant.
LEMMA CoalesceStepInv ==
    CoalesceInv /\ [CoalesceNext]_coalesceVars => CoalesceInv'
  <1> SUFFICES ASSUME CoalesceInv, [CoalesceNext]_coalesceVars
               PROVE  CoalesceInv'
    OBVIOUS
  <1>0. /\ CoalesceTypeOK /\ NoDanglingEntry /\ StaleIsDisturbed /\ FetchOwnsEntry
        /\ url \in [Call -> Url] /\ NoCall \notin Call
    BY CallAssumption DEF CoalesceInv
  <1>1. ASSUME NEW c \in Call, get(c) PROVE CoalesceInv'
    BY <1>0, <1>1
    DEF get, CoalesceInv, CoalesceTypeOK, NoDanglingEntry, StaleIsDisturbed,
        FetchOwnsEntry
  <1>2. ASSUME NEW c \in Call, remove(c) PROVE CoalesceInv'
    <2>1. /\ step[c] = "remove" /\ Leaves(url[c], "closed", c, "insert")
          /\ in_flight' = [in_flight EXCEPT ![url[c]] = NoCall]
          /\ UNCHANGED <<stale, waits_on, disturbed>>
      BY <1>2 DEF remove
    <2>2. url[c] \in Url
      BY <1>0
    <2>3. /\ step' \in [Call -> {"start", "remove", "insert", "fetch", "wait",
                                 "told", "closed", "done"}]
          /\ step'[c] = "insert"
          /\ \A d \in Call : d # c =>
                step'[d] = step[d] \/ (step[d] = "wait" /\ step'[d] = "closed")
      BY <1>0, <2>1, <2>2, LeavesSteps
    <2>. QED
      BY <1>0, <2>1, <2>2, <2>3
      DEF CoalesceInv, CoalesceTypeOK, NoDanglingEntry, StaleIsDisturbed,
          FetchOwnsEntry
  <1>3. ASSUME NEW c \in Call, insert(c) PROVE CoalesceInv'
    <2>1. /\ step[c] = "insert" /\ Leaves(url[c], "closed", c, "fetch")
          /\ in_flight' = [in_flight EXCEPT ![url[c]] = c]
          /\ disturbed' = IF in_flight[url[c]] = NoCall THEN disturbed
                          ELSE disturbed \cup {url[c]}
          /\ UNCHANGED <<stale, waits_on>>
      BY <1>3 DEF insert
    <2>2. url[c] \in Url
      BY <1>0
    <2>3. /\ step' \in [Call -> {"start", "remove", "insert", "fetch", "wait",
                                 "told", "closed", "done"}]
          /\ step'[c] = "fetch"
          /\ \A d \in Call : d # c =>
                step'[d] = step[d] \/ (step[d] = "wait" /\ step'[d] = "closed")
      BY <1>0, <2>1, <2>2, LeavesSteps
    <2>. QED
      BY <1>0, <2>1, <2>2, <2>3
      DEF CoalesceInv, CoalesceTypeOK, NoDanglingEntry, StaleIsDisturbed,
          FetchOwnsEntry
  <1>4. ASSUME NEW c \in Call, finish(c) PROVE CoalesceInv'
    <2>1. /\ step[c] = "fetch" /\ Leaves(url[c], "told", c, "done")
          /\ in_flight' = [in_flight EXCEPT ![url[c]] = NoCall]
          /\ UNCHANGED <<stale, waits_on, disturbed>>
      BY <1>4 DEF finish
    <2>2. url[c] \in Url
      BY <1>0
    <2>3. /\ step' \in [Call -> {"start", "remove", "insert", "fetch", "wait",
                                 "told", "closed", "done"}]
          /\ step'[c] = "done"
          /\ \A d \in Call : d # c =>
                step'[d] = step[d] \/ (step[d] = "wait" /\ step'[d] = "told")
      BY <1>0, <2>1, <2>2, LeavesSteps
    <2>. QED
      BY <1>0, <2>1, <2>2, <2>3
      DEF CoalesceInv, CoalesceTypeOK, NoDanglingEntry, StaleIsDisturbed,
          FetchOwnsEntry
  <1>5. ASSUME NEW u \in Url, purge_stale(u) PROVE CoalesceInv'
    <2>1. /\ in_flight[u] \in stale /\ Leaves(u, "closed", NoCall, "done")
          /\ in_flight' = [in_flight EXCEPT ![u] = NoCall]
          /\ UNCHANGED <<stale, waits_on, disturbed>>
      BY <1>5 DEF purge_stale
    <2>2. /\ step' \in [Call -> {"start", "remove", "insert", "fetch", "wait",
                                 "told", "closed", "done"}]
          /\ \A d \in Call :
                step'[d] = step[d] \/ (step[d] = "wait" /\ step'[d] = "closed")
      BY <1>0, <2>1, LeavesSteps
    <2>3. u \in disturbed
      BY <1>0, <2>1 DEF CoalesceTypeOK, NoDanglingEntry, StaleIsDisturbed
    <2>. QED
      BY <1>0, <2>1, <2>2, <2>3
      DEF CoalesceInv, CoalesceTypeOK, NoDanglingEntry, StaleIsDisturbed,
          FetchOwnsEntry
  <1>6. ASSUME NEW u \in Url, age(u) PROVE CoalesceInv'
    BY <1>0, <1>6
    DEF age, CoalesceInv, CoalesceTypeOK, NoDanglingEntry, StaleIsDisturbed,
        FetchOwnsEntry
  <1>7. CASE UNCHANGED coalesceVars
    BY <1>0, <1>7
    DEF coalesceVars, CoalesceInv, CoalesceTypeOK, NoDanglingEntry,
        StaleIsDisturbed, FetchOwnsEntry
  <1>. QED
    BY <1>1, <1>2, <1>3, <1>4, <1>5, <1>6, <1>7 DEF CoalesceNext

\* The conjunction is an invariant of RequestCoalescer for all calls and URLs.
THEOREM CoalesceInvariant == CoalesceSpec => []CoalesceInv
  BY CoalesceInitInv, CoalesceStepInv, PTL DEF CoalesceSpec

\* Guards that remove whatever entry their URL has never leave one behind
\* without a guard.
THEOREM NoDangling == CoalesceSpec => []NoDanglingEntry
  <1>1. CoalesceInv => NoDanglingEntry
    BY DEF CoalesceInv
  <1>. QED BY <1>1, CoalesceInvariant, PTL

\* A URL is fetched by two calls at once only after an entry of it went stale
\* or two calls met between try_start's lookup and its insertion.
THEOREM SingleFetch == CoalesceSpec => []OneFetchUnlessDisturbed
  <1>1. CoalesceInv => OneFetchUnlessDisturbed
    BY DEF CoalesceInv, FetchOwnsEntry, OneFetchUnlessDisturbed
  <1>. QED BY <1>1, CoalesceInvariant, PTL
----------------------------------------------------------------------------
(***************************************************************************)
(* TabPool.  A tab has one owner, and without overlap no tab is lost: the  *)
(* windows between head and slots, which do lose tabs, never hand one out  *)
(* twice, and until a push and a pop meet in one, who is about to take from *)
(* a slot and who is about to fill it balance the tab in it.               *)
(***************************************************************************)
\* The part of PoolTypeOK that the argument needs.
PoolTypes ==
    /\ head \in 0 .. max_size
    /\ slots \in [Slot -> Tab \cup {NoTab}]
    /\ at \in [Task -> {"idle", "acquire", "pop", "take", "new_page", "release",
                       "push", "fill"}]
    /\ current \in [Task -> 0 .. max_size]
    /\ page \in [Task -> Tab \cup {NoTab}]
    /\ closed \subseteq Tab /\ leaked \subseteq Tab
    /\ keys \subseteq Slot

\* Where each task is: one that acquires has no tab, one that releases has
\* one, and one that has claimed an index has a slot for it.
Places ==
    \A t \in Task :
        /\ at[t] \in {"acquire", "pop", "take", "new_page"} => page[t] = NoTab
        /\ at[t] \in {"release", "push", "fill"} => page[t] # NoTab
        /\ at[t] = "pop" => current[t] > 0
        /\ at[t] = "push" => current[t] < max_size
        /\ at[t] \in {"take", "fill"} => current[t] \in Slot

\* OneOwner without sets: tabs are told apart task by task and slot by slot.
NoneTwice ==
    /\ \A t, d \in Task : page[t] = page[d] /\ page[t] # NoTab => t = d
    /\ \A i, j \in Slot : slots[i] = slots[j] /\ slots[i] # NoTab => i = j
    /\ \A t \in Task, i \in Slot : page[t] = slots[i] => page[t] = NoTab
    /\ \A t \in Task : page[t] \notin closed /\ page[t] \notin leaked
    /\ \A i \in Slot : slots[i] \notin closed /\ slots[i] \notin leaked
    /\ closed \cap leaked = {}

PoolInv == PoolTypes /\ Places /\ NoneTwice

----------------------------------------------------------------------------
\* NoneTwice says what OneOwner says.
LEMMA NoneTwiceIsOneOwner == PoolTypes /\ NoneTwice => OneOwner
  BY PoolAssumption DEF PoolTypes, NoneTwice, OneOwner, Owned, Pooled

\* The initial states satisfy the invariant.
LEMMA PoolInitInv == PoolInit => PoolInv
  BY PoolAssumption
  DEF PoolInit, PoolInv, PoolTypes, Places, NoneTwice, Slot

\* Every step of a task, and of the task that clears, preserves the invariant.
LEMMA PoolStepInv == PoolInv /\ [PoolNext]_poolVars => PoolInv'
  <1> SUFFICES ASSUME PoolInv, [PoolNext]_poolVars
               PROVE  PoolInv'
    OBVIOUS
  <1>0. PoolTypes /\ Places /\ NoneTwice
    BY DEF PoolInv
  <1> USE PoolAssumption
  <1>1. ASSUME NEW t \in Task, acquire_load(t) PROVE PoolInv'
    BY <1>0, <1>1
    DEF acquire_load, PoolInv, PoolTypes, Places, NoneTwice, Slot, pool, clearer
  <1>2. ASSUME NEW t \in Task, pop(t) PROVE PoolInv'
    <2>0. /\ at[t] = "pop"
          /\ UNCHANGED <<slots, page, closed, leaked, keys>>
      BY <1>2 DEF pop, clearer
    <2>1. NoneTwice'
      BY <1>0, <2>0 DEF NoneTwice
    <2>2. CASE head = current[t]
      <3>1. head - 1 \in 0 .. max_size /\ head - 1 \in Slot
        BY <1>0, <2>0, <2>2 DEF PoolTypes, Places, Slot
      <3>2. /\ head' = head - 1
            /\ current' = [current EXCEPT ![t] = head - 1]
            /\ at' = [at EXCEPT ![t] = "take"]
        BY <1>2, <2>2 DEF pop
      <3>3. PoolTypes'
        BY <1>0, <2>0, <3>1, <3>2 DEF PoolTypes
      <3>4. Places'
        BY <1>0, <2>0, <3>1, <3>2 DEF PoolTypes, Places
      <3>. QED BY <2>1, <3>3, <3>4 DEF PoolInv
    <2>3. CASE head # current[t]
      <3>1. /\ head' = head
            /\ current' = [current EXCEPT ![t] = 0]
            /\ at' = [at EXCEPT ![t] = "acquire"]
        BY <1>2, <2>3 DEF pop, Forget
      <3>2. PoolTypes'
        BY <1>0, <2>0, <3>1 DEF PoolTypes
      <3>3. Places'
        BY <1>0, <2>0, <3>1 DEF PoolTypes, Places
      <3>. QED BY <2>1, <3>2, <3>3 DEF PoolInv
    <2>. QED BY <2>2, <2>3
  <1>3. ASSUME NEW t \in Task, take(t) PROVE PoolInv'
    <2>0. /\ at[t] = "take" /\ page[t] = NoTab /\ current[t] \in Slot
          /\ current' = [current EXCEPT ![t] = 0]
          /\ UNCHANGED <<head, closed, leaked, keys>>
      BY <1>0, <1>3 DEF take, Forget, Places, clearer
    <2>1. CASE slots[current[t]] = NoTab
      <3>1. at' = [at EXCEPT ![t] = "new_page"] /\ UNCHANGED <<slots, page>>
        BY <1>3, <2>1 DEF take, Forget
      <3>2. PoolTypes'
        BY <1>0, <2>0, <3>1 DEF PoolTypes
      <3>3. Places'
        BY <1>0, <2>0, <3>1 DEF PoolTypes, Places
      <3>4. NoneTwice'
        BY <1>0, <2>0, <3>1 DEF NoneTwice
      <3>. QED BY <3>2, <3>3, <3>4 DEF PoolInv
    <2>2. CASE slots[current[t]] # NoTab
      <3> DEFINE i == current[t]
      <3>1. /\ at' = [at EXCEPT ![t] = "idle"]
            /\ page' = [page EXCEPT ![t] = slots[i]]
            /\ slots' = [slots EXCEPT ![i] = NoTab]
        BY <1>3, <2>2 DEF take, Forget
      <3>0. i \in Slot /\ page[t] = NoTab
        BY <2>0
      <3>2. PoolTypes'
        BY <1>0, <2>0, <3>1 DEF PoolTypes
      <3>3. Places'
        BY <1>0, <2>0, <3>1 DEF PoolTypes, Places
      <3> HIDE DEF i
      <3>4. NoneTwice'
        BY <1>0, <2>0, <3>0, <3>1 DEF PoolTypes, NoneTwice
      <3>. QED BY <3>2, <3>3, <3>4 DEF PoolInv
    <2>. QED BY <2>1, <2>2
  <1>4. ASSUME NEW t \in Task, new_page(t) PROVE PoolInv'
    <2>0. /\ at[t] = "new_page" /\ page[t] = NoTab
          /\ at' = [at EXCEPT ![t] = "idle"]
          /\ UNCHANGED <<head, slots, current, closed, leaked, keys>>
      BY <1>0, <1>4 DEF new_page, Places, pool, clearer
    <2>1. CASE UNCHANGED page
      BY <1>0, <2>0, <2>1 DEF PoolInv, PoolTypes, Places, NoneTwice
    <2>2. CASE page' # page
      <3>1. PICK x \in Tab \ (Owned \cup Pooled \cup closed \cup leaked) :
                page' = [page EXCEPT ![t] = x]
        BY <1>4, <2>2 DEF new_page
      <3>2. /\ x \in Tab /\ x # NoTab /\ x \notin closed /\ x \notin leaked
            /\ \A d \in Task : page[d] # x
            /\ \A i \in Slot : slots[i] # x
        BY <3>1 DEF Owned, Pooled
      <3>3. PoolTypes'
        BY <1>0, <2>0, <3>1, <3>2 DEF PoolTypes
      <3>4. Places'
        BY <1>0, <2>0, <3>1, <3>2 DEF PoolTypes, Places
      <3>5. NoneTwice'
        BY <1>0, <2>0, <3>1, <3>2 DEF PoolTypes, NoneTwice
      <3>. QED BY <3>3, <3>4, <3>5 DEF PoolInv
    <2>. QED BY <2>1, <2>2
  <1>close. ASSUME NEW t \in Task, close_pooled_tab(t), page[t] # NoTab,
                UNCHANGED <<head, slots, leaked, keys>>
         PROVE  PoolInv'
    <2>0. /\ closed' = closed \cup {page[t]} /\ page[t] \in Tab
          /\ page' = [page EXCEPT ![t] = NoTab]
          /\ at' = [at EXCEPT ![t] = "idle"]
          /\ current' = [current EXCEPT ![t] = 0]
      BY <1>0, <1>close DEF close_pooled_tab, Forget, PoolTypes
    <2>1. PoolTypes'
      BY <1>0, <1>close, <2>0 DEF PoolTypes
    <2>2. Places'
      BY <1>0, <1>close, <2>0 DEF PoolTypes, Places
    <2>3. NoneTwice'
      BY <1>0, <1>close, <2>0 DEF PoolTypes, NoneTwice
    <2>. QED BY <2>1, <2>2, <2>3 DEF PoolInv
  <1>5. ASSUME NEW t \in Task, release(t) PROVE PoolInv'
    <2>0. page[t] # NoTab /\ UNCHANGED <<head, slots, leaked, keys>>
      BY <1>5 DEF release, pool, clearer
    <2>1. CASE close_pooled_tab(t)
      BY <1>close, <2>0, <2>1
    <2>2. CASE at' = [at EXCEPT ![t] = "release"] /\ UNCHANGED <<current, page, closed>>
      BY <1>0, <2>0, <2>2 DEF PoolInv, PoolTypes, Places, NoneTwice
    <2>. QED BY <1>5, <2>1, <2>2 DEF release
  <1>6. ASSUME NEW t \in Task, release_load(t) PROVE PoolInv'
    <2>0. at[t] = "release" /\ page[t] # NoTab /\ UNCHANGED <<head, slots, leaked, keys>>
      BY <1>0, <1>6 DEF release_load, Places, pool, clearer
    <2>1. CASE close_pooled_tab(t)
      BY <1>close, <2>0, <2>1
    <2>2. CASE /\ head < max_size
               /\ current' = [current EXCEPT ![t] = head]
               /\ at' = [at EXCEPT ![t] = "push"]
               /\ UNCHANGED <<page, closed>>
      <3>1. PoolTypes'
        BY <1>0, <2>0, <2>2 DEF PoolTypes
      <3>2. Places'
        BY <1>0, <2>0, <2>2 DEF PoolTypes, Places
      <3>3. NoneTwice'
        BY <1>0, <2>0, <2>2 DEF NoneTwice
      <3>. QED BY <3>1, <3>2, <3>3 DEF PoolInv
    <2>3. head < max_size \/ head >= max_size
      BY <1>0 DEF PoolTypes
    <2>. QED BY <1>6, <2>1, <2>2, <2>3 DEF release_load
  <1>7. ASSUME NEW t \in Task, push(t) PROVE PoolInv'
    <2>0. /\ at[t] = "push" /\ page[t] # NoTab /\ current[t] < max_size
          /\ UNCHANGED <<slots, page, closed, leaked, keys>>
      BY <1>0, <1>7 DEF push, Places, clearer
    <2>1. NoneTwice'
      BY <1>0, <2>0 DEF NoneTwice
    <2>2. CASE head = current[t]
      <3>1. head + 1 \in 0 .. max_size /\ current[t] \in Slot
        BY <1>0, <2>0, <2>2 DEF PoolTypes, Slot
      <3>2. head' = head + 1 /\ at' = [at EXCEPT ![t] = "fill"] /\ UNCHANGED current
        BY <1>7, <2>2 DEF push
      <3>3. PoolTypes'
        BY <1>0, <2>0, <3>1, <3>2 DEF PoolTypes
      <3>4. Places'
        BY <1>0, <2>0, <3>1, <3>2 DEF PoolTypes, Places
      <3>. QED BY <2>1, <3>3, <3>4 DEF PoolInv
    <2>3. CASE head # current[t]
      <3>1. /\ head' = head
            /\ current' = [current EXCEPT ![t] = 0]
            /\ at' = [at EXCEPT ![t] = "release"]
        BY <1>7, <2>3 DEF push, Forget
      <3>2. PoolTypes'
        BY <1>0, <2>0, <3>1 DEF PoolTypes
      <3>3. Places'
        BY <1>0, <2>0, <3>1 DEF PoolTypes, Places
      <3>. QED BY <2>1, <3>2, <3>3 DEF PoolInv
    <2>. QED BY <2>2, <2>3
  <1>8. ASSUME NEW t \in Task, fill(t) PROVE PoolInv'
    BY <1>0, <1>8
    DEF fill, Forget, PoolInv, PoolTypes, Places, NoneTwice, Slot, pool, clearer
  <1>9. CASE clear_head
    BY <1>0, <1>9
    DEF clear_head, PoolInv, PoolTypes, Places, NoneTwice, Slot, tasks
  <1>10. CASE clear_collect
    BY <1>0, <1>10
    DEF clear_collect, PoolInv, PoolTypes, Places, NoneTwice, Slot, pool, tasks
  <1>11. CASE clear_close
    BY <1>0, <1>11
    DEF clear_close, PoolInv, PoolTypes, Places, NoneTwice, Slot, tasks
  <1>12. CASE clear_sweep
    BY <1>0, <1>12
    DEF clear_sweep, Pooled, PoolInv, PoolTypes, Places, NoneTwice, Slot, tasks
  <1>13. CASE UNCHANGED poolVars
    BY <1>0, <1>13
    DEF poolVars, pool, tasks, clearer, PoolInv, PoolTypes, Places, NoneTwice
  <1>. QED
    BY <1>1, <1>2, <1>3, <1>4, <1>5, <1>6, <1>7, <1>8, <1>9, <1>10, <1>11,
       <1>12, <1>13
    DEF PoolNext

----------------------------------------------------------------------------
\* Types, places and ownership are invariants of the pool for every instance.
THEOREM PoolInvariant == PoolSpec => []PoolInv
  BY PoolInitInv, PoolStepInv, PTL DEF PoolSpec

\* acquire never hands out a tab that another task drives, that is still in the
\* pool, or that was closed or dropped.
THEOREM TabHasOneOwner == PoolSpec => []OneOwner
  <1>1. PoolInv => OneOwner
    BY NoneTwiceIsOneOwner DEF PoolInv
  <1>. QED BY <1>1, PoolInvariant, PTL

----------------------------------------------------------------------------
(* What becomes of the tabs: an account of the claims on every slot.       *)

Takers(i) == {t \in Task : at[t] = "take" /\ current[t] = i}

Fillers(i) == {t \in Task : at[t] = "fill" /\ current[t] = i}

\* The tab in a slot and those on their way into it are the ones on their way
\* out of it and, below head, the one that the next acquire will find.
Balanced(i) ==
    /\ IsFiniteSet(Takers(i)) /\ IsFiniteSet(Fillers(i))
    /\ Cardinality(Fillers(i)) + (IF slots[i] = NoTab THEN 0 ELSE 1)
          = Cardinality(Takers(i)) + (IF i < head THEN 1 ELSE 0)

\* The account holds, and nothing is lost, until two claims meet on a slot or
\* the pool is cleared.
Accounted ==
    ~overlap =>
        /\ clearing = "idle"
        /\ leaked = {}
        /\ \A i \in Slot : Balanced(i)

\* A balanced slot that nobody is about to take from is filled or about to be
\* filled at most once, and only below head.
LEMMA BalancedSlot ==
    ASSUME PoolTypes, NEW i \in Slot, Balanced(i), Takers(i) = {}
    PROVE  /\ slots[i] # NoTab => i < head
           /\ Fillers(i) # {} => slots[i] = NoTab
  <1>1. Cardinality(Takers(i)) = 0
    BY FS_EmptySet
  <1>2. /\ Cardinality(Fillers(i)) \in Nat
        /\ Cardinality(Fillers(i)) = 0 <=> Fillers(i) = {}
    BY FS_EmptySet, FS_CardinalityType DEF Balanced
  <1>. QED BY <1>1, <1>2 DEF Balanced

\* A step that leaves the claims, the slot and its place below or above head
\* alone leaves it balanced.
LEMMA BalanceKept ==
    ASSUME NEW i \in Slot, Balanced(i), slots'[i] = slots[i],
           i < head' <=> i < head,
           \A t \in Task :
              /\ at'[t] = "take" /\ current'[t] = i <=> at[t] = "take" /\ current[t] = i
              /\ at'[t] = "fill" /\ current'[t] = i <=> at[t] = "fill" /\ current[t] = i
    PROVE  Balanced(i)'
  <1>1. Takers(i)' = Takers(i) /\ Fillers(i)' = Fillers(i)
    BY DEF Takers, Fillers
  <1>. QED BY <1>1 DEF Balanced

\* The initial states are accounted for.
LEMMA AccountedInit == PoolInit => Accounted
  <1> SUFFICES ASSUME PoolInit, NEW i \in Slot
               PROVE  Balanced(i)
    BY DEF PoolInit, Accounted
  <1>1. Takers(i) = {} /\ Fillers(i) = {}
    BY DEF PoolInit, Takers, Fillers
  <1>2. Cardinality({}) = 0 /\ IsFiniteSet({})
    BY FS_EmptySet
  <1>3. slots[i] = NoTab /\ ~(i < head)
    BY DEF PoolInit, Slot
  <1>. QED BY <1>1, <1>2, <1>3 DEF Balanced

\* Every step keeps the account until it sets overlap.
LEMMA AccountedStep ==
    ASSUME PoolInv, Accounted, [PoolNext]_poolVars
    PROVE  Accounted'
  <1> SUFFICES ASSUME ~overlap'
               PROVE  clearing' = "idle" /\ leaked' = {} /\ \A i \in Slot : Balanced(i)'
    BY DEF Accounted
  <1>0. PoolTypes /\ Places
    BY DEF PoolInv
  <1> USE PoolAssumption
  <1>2. ~overlap
    BY DEF PoolNext, poolVars, acquire_load, pop, take, new_page, release,
        release_load, push, fill, clear_head, clear_collect, clear_close, clear_sweep
  <1>3. clearing = "idle" /\ leaked = {} /\ \A i \in Slot : Balanced(i)
    BY <1>2 DEF Accounted
  <1>4. ASSUME NEW t \in Task, pop(t)
        PROVE  clearing' = "idle" /\ leaked' = {} /\ \A i \in Slot : Balanced(i)'
    <2>0. /\ at[t] = "pop" /\ UNCHANGED <<slots, leaked, clearing>>
      BY <1>4 DEF pop, clearer
    <2>1. CASE head = current[t]
      <3>1. /\ head \in Nat /\ head - 1 \in Slot /\ head' = head - 1
            /\ current' = [current EXCEPT ![t] = head - 1]
            /\ at' = [at EXCEPT ![t] = "take"]
        BY <1>0, <1>4, <2>0, <2>1 DEF pop, PoolTypes, Places, Slot
      <3>2. ASSUME NEW i \in Slot, i # head - 1
            PROVE  Balanced(i)'
        BY <1>0, <1>3, <2>0, <3>1, <3>2, BalanceKept DEF PoolTypes, Slot
      <3>3. ASSUME NEW i \in Slot, i = head - 1
            PROVE  Balanced(i)'
        <4>1. /\ Takers(i)' = Takers(i) \cup {t} /\ t \notin Takers(i)
              /\ Fillers(i)' = Fillers(i)
          BY <1>0, <2>0, <3>1, <3>3 DEF PoolTypes, Takers, Fillers
        <4>2. /\ IsFiniteSet(Takers(i)') /\ Cardinality(Takers(i)') = Cardinality(Takers(i)) + 1
              /\ Cardinality(Takers(i)) \in Nat /\ Cardinality(Fillers(i)) \in Nat
          BY <1>3, <4>1, FS_AddElement, FS_CardinalityType DEF Balanced
        <4>3. i < head /\ ~(i < head')
          BY <3>1, <3>3
        <4>. QED BY <1>3, <2>0, <4>1, <4>2, <4>3 DEF Balanced
      <3>. QED BY <1>3, <2>0, <3>2, <3>3
    <2>2. CASE head # current[t]
      <3>1. /\ head' = head
            /\ current' = [current EXCEPT ![t] = 0]
            /\ at' = [at EXCEPT ![t] = "acquire"]
        BY <1>4, <2>2 DEF pop, Forget
      <3>. QED BY <1>0, <1>3, <2>0, <3>1, BalanceKept DEF PoolTypes
    <2>. QED BY <2>1, <2>2
  <1>5. ASSUME NEW t \in Task, push(t)
        PROVE  clearing' = "idle" /\ leaked' = {} /\ \A i \in Slot : Balanced(i)'
    <2>0. /\ at[t] = "push" /\ UNCHANGED <<slots, leaked, clearing>>
      BY <1>5 DEF push, clearer
    <2>1. CASE head = current[t]
      <3>1. /\ head \in Slot /\ head' = head + 1 /\ current' = current
            /\ at' = [at EXCEPT ![t] = "fill"]
        BY <1>0, <1>5, <2>0, <2>1 DEF push, PoolTypes, Places, Slot
      <3>2. ASSUME NEW i \in Slot, i # head
            PROVE  Balanced(i)'
        <4>1. i < head' <=> i < head
          BY <3>1, <3>2 DEF Slot
        <4>. QED
          BY <1>0, <1>3, <2>0, <2>1, <3>1, <3>2, <4>1, BalanceKept DEF PoolTypes
      <3>3. ASSUME NEW i \in Slot, i = head
            PROVE  Balanced(i)'
        <4>1. /\ Fillers(i)' = Fillers(i) \cup {t} /\ t \notin Fillers(i)
              /\ Takers(i)' = Takers(i)
          BY <1>0, <2>0, <2>1, <3>1, <3>3 DEF PoolTypes, Takers, Fillers
        <4>2. /\ IsFiniteSet(Fillers(i)') /\ Cardinality(Fillers(i)') = Cardinality(Fillers(i)) + 1
              /\ Cardinality(Takers(i)) \in Nat /\ Cardinality(Fillers(i)) \in Nat
          BY <1>3, <4>1, FS_AddElement, FS_CardinalityType DEF Balanced
        <4>3. ~(i < head) /\ i < head'
          BY <3>1, <3>3 DEF Slot
        <4>. QED BY <1>3, <2>0, <4>1, <4>2, <4>3 DEF Balanced
      <3>. QED BY <1>3, <2>0, <3>2, <3>3
    <2>2. CASE head # current[t]
      <3>1. /\ head' = head
            /\ current' = [current EXCEPT ![t] = 0]
            /\ at' = [at EXCEPT ![t] = "release"]
        BY <1>5, <2>2 DEF push, Forget
      <3>. QED BY <1>0, <1>3, <2>0, <3>1, BalanceKept DEF PoolTypes
    <2>. QED BY <2>1, <2>2
  <1>6. ASSUME NEW t \in Task, take(t)
        PROVE  clearing' = "idle" /\ leaked' = {} /\ \A i \in Slot : Balanced(i)'
    <2>k. PICK k \in Slot : k = current[t]
      BY <1>0, <1>6 DEF take, Places
    <2>0. /\ at[t] = "take" /\ current[t] = k /\ slots[k] # NoTab
          /\ slots' = [slots EXCEPT ![k] = NoTab]
          /\ at' = [at EXCEPT ![t] = "idle"]
          /\ current' = [current EXCEPT ![t] = 0]
          /\ UNCHANGED <<head, leaked, clearing>>
      BY <1>6, <2>k DEF take, Forget, clearer
    <2>1. ASSUME NEW i \in Slot, i # k
          PROVE  Balanced(i)'
      BY <1>0, <1>3, <2>0, <2>1, BalanceKept DEF PoolTypes
    <2>2. Balanced(k)'
      <3>1. /\ Takers(k)' = Takers(k) \ {t} /\ t \in Takers(k)
            /\ Fillers(k)' = Fillers(k)
        BY <1>0, <2>0 DEF PoolTypes, Takers, Fillers
      <3>2. /\ IsFiniteSet(Takers(k)') /\ Cardinality(Takers(k)') = Cardinality(Takers(k)) - 1
            /\ Cardinality(Takers(k)) \in Nat /\ Cardinality(Fillers(k)) \in Nat
        BY <1>3, <2>0, <3>1, FS_RemoveElement, FS_CardinalityType DEF Balanced
      <3>3. slots'[k] = NoTab
        BY <1>0, <2>0 DEF PoolTypes
      <3>. QED BY <1>3, <2>0, <3>1, <3>2, <3>3 DEF Balanced
    <2>. QED BY <1>3, <2>0, <2>1, <2>2
  <1>7. ASSUME NEW t \in Task, fill(t)
        PROVE  clearing' = "idle" /\ leaked' = {} /\ \A i \in Slot : Balanced(i)'
    <2>k. PICK k \in Slot : k = current[t]
      BY <1>0, <1>7 DEF fill, Places
    <2>0. /\ at[t] = "fill" /\ current[t] = k /\ page[t] # NoTab
          /\ slots' = [slots EXCEPT ![k] = page[t]]
          /\ leaked' = leaked \cup ({slots[k]} \ {NoTab})
          /\ at' = [at EXCEPT ![t] = "idle"]
          /\ current' = [current EXCEPT ![t] = 0]
          /\ UNCHANGED <<head, clearing>>
      BY <1>0, <1>7, <2>k DEF fill, Forget, Places, clearer
    <2>1. Takers(k) = {} /\ t \in Fillers(k)
      BY <1>7, <2>0 DEF fill, Takers, Fillers
    <2>2. slots[k] = NoTab
      BY <1>0, <1>3, <2>0, <2>1, BalancedSlot
    <2>3. ASSUME NEW i \in Slot, i # k
          PROVE  Balanced(i)'
      BY <1>0, <1>3, <2>0, <2>3, BalanceKept DEF PoolTypes
    <2>4. Balanced(k)'
      <3>1. /\ Fillers(k)' = Fillers(k) \ {t} /\ Takers(k)' = Takers(k)
        BY <1>0, <2>0 DEF PoolTypes, Takers, Fillers
      <3>2. /\ IsFiniteSet(Fillers(k)') /\ Cardinality(Fillers(k)') = Cardinality(Fillers(k)) - 1
            /\ Cardinality(Takers(k)) \in Nat /\ Cardinality(Fillers(k)) \in Nat
        BY <1>3, <2>0, <2>1, <3>1, FS_RemoveElement, FS_CardinalityType DEF Balanced
      <3>3. slots'[k] # NoTab
        BY <1>0, <2>0 DEF PoolTypes
      <3>. QED BY <1>3, <2>0, <2>2, <3>1, <3>2, <3>3 DEF Balanced
    <2>. QED BY <1>3, <2>0, <2>2, <2>3, <2>4
  <1>8. CASE \/ \E t \in Task : \/ acquire_load(t) \/ new_page(t)
                                 \/ release(t) \/ release_load(t)
             \/ UNCHANGED poolVars
    <2>1. /\ UNCHANGED <<head, slots, leaked, clearing>>
          /\ \A t \in Task :
              /\ at'[t] = "take" <=> at[t] = "take"
              /\ at'[t] = "fill" <=> at[t] = "fill"
              /\ at[t] \in {"take", "fill"} => current'[t] = current[t]
      BY <1>0, <1>8
      DEF acquire_load, new_page, release, release_load, close_pooled_tab, Forget,
          poolVars, pool, tasks, clearer, PoolTypes
    <2>. QED BY <1>3, <2>1, BalanceKept
  <1>9. CASE clear_head \/ clear_collect \/ clear_close \/ clear_sweep
    BY <1>3, <1>9 DEF clear_head, clear_collect, clear_close, clear_sweep
  <1>. QED
    BY <1>4, <1>5, <1>6, <1>7, <1>8, <1>9 DEF PoolNext

\* As long as no claim meets another one on its slot and nobody clears, a tab
\* that was released is in a slot below head or about to be taken, and no
\* handle is dropped.
THEOREM NoTabLeaks == PoolSpec => []NoLeakWithoutOverlap
  <1>1. PoolInv /\ Accounted => NoLeakWithoutOverlap
    <2> SUFFICES ASSUME PoolInv, Accounted, ~overlap, NEW i \in Slot,
                        slots[i] # NoTab, i >= head
                 PROVE  \E t \in Task : at[t] = "take" /\ current[t] = i
      BY DEF NoLeakWithoutOverlap, Accounted
    <2>1. PoolTypes /\ Balanced(i) /\ ~(i < head)
      BY DEF PoolInv, Accounted, PoolTypes, Slot
    <2>2. Takers(i) # {}
      BY <2>1, BalancedSlot
    <2>. QED BY <2>2 DEF Takers
  <1>2. PoolInit => Accounted
    BY AccountedInit
  <1>3. PoolInv /\ Accounted /\ [PoolNext]_poolVars => Accounted'
    BY AccountedStep
  <1>. QED BY <1>1, <1>2, <1>3, PoolInvariant, PTL DEF PoolSpec
----------------------------------------------------------------------------
(***************************************************************************)
(* The crawl sessions.  What an eviction is about to remove was seen in an *)
(* earlier step, and what a reader reports was counted in earlier ones:    *)
(* the invariant carries both from where they were seen to where they are  *)
(* used.  It rests on a session being stored at most once, so that a name  *)
(* an eviction holds cannot come to mean another session.                  *)
(***************************************************************************)
\* The part of SessionsTypeOK that the argument needs.
SessionTypes ==
    /\ time \in Nat /\ running_ttl \in Nat
    /\ handler \in [Request -> {"new", "acquire", "inline", "iter", "expire", "cap",
                                "answered", "success", "refused", "dropped"}]
    /\ crawl \in [Request -> {"unborn", "running", "over", "transport_error"}]
    /\ sent \in [Request -> Seq(BOOLEAN)]
    /\ reader \in [Request -> {"off", "recv", "join", "done"}]
    /\ read \in [Request -> Nat] /\ observed_response_count \in [Request -> Nat]
    /\ sessions \in [Request -> {NoSession} \cup SessionRecord]
    /\ now \in [Request -> Nat]
    /\ todo \in [Request -> SUBSET Request]
    /\ terminal \in [Request -> SUBSET (Request \X Nat)]
    /\ doomed \in [Request -> SUBSET Request]

\* A request that was answered with a session.
Answered(k) == handler[k] = "answered" /\ Background(k)

\* The order of events in one request: it is answered after the session is
\* stored, and nothing is read before.
Ordered ==
    \A r \in Request :
        /\ handler[r] \in {"new", "acquire", "iter", "expire", "cap"} => reader[r] = "off"
        /\ reader[r] = "off" => read[r] = 0 /\ observed_response_count[r] = 0
        /\ handler[r] \in {"iter", "expire", "cap"} => Background(r)
        /\ handler[r] \in {"new", "acquire"} => doomed[r] = {} /\ terminal[r] = {}
        /\ handler[r] # "iter" => todo[r] = {}
        /\ r \in Stored => Answered(r) /\ sessions[r].pages = read[r]

\* What an eviction holds are sessions that were stored.
Named ==
    \A r \in Request :
        /\ \A k \in todo[r] \cup doomed[r] : Answered(k)
        /\ \A d \in terminal[r] : Answered(d[1])

\* What was counted was read, and what was read was sent.
Counted ==
    \A r \in Request :
        /\ read[r] <= Len(sent[r])
        /\ observed_response_count[r] > 0 => \E i \in 1 .. read[r] : sent[r][i]

\* Who reports success counted a response, and read everything unless it
\* fell behind.
Earned ==
    \A r \in Request :
        \/ handler[r] = "success"
        \/ r \in Stored /\ sessions[r].status = "Complete"
        => /\ reader[r] = "done" /\ observed_response_count[r] > 0
           /\ r \notin lagged => Over(r) /\ read[r] = Len(sent[r])

\* A crawl sends the pages of a request that came, and no more than it finds;
\* a reader that fell behind left more unread than the channel keeps.
Within ==
    /\ \A r \in DOMAIN params : params[r] \in Params
    /\ \A r \in Request :
          /\ crawl[r] = "running" \/ handler[r] = "acquire" => r \in DOMAIN params
          /\ Len(sent[r]) > 0 => r \in DOMAIN params /\ Len(sent[r]) <= params[r].pages
          /\ r \in lagged => Len(sent[r]) > Capacity

\* What an eviction saw still holds: a doomed session that runs is past the
\* running TTL, and a candidate that is stored is terminal.
SeenStands ==
    \A r \in Request :
        /\ now[r] <= time
        /\ \A k \in doomed[r] :
              k \in Stored /\ sessions[k].status = "Running" =>
                  running_ttl # 0 /\ Age(k, time) >= running_ttl
        /\ \A d \in terminal[r] :
              d[1] \in Stored => Terminal(d[1]) /\ d[2] = sessions[d[1]].started_at

\* An eviction that met no other change accounts for every terminal session:
\* it is still to be visited, doomed, or a candidate; and once the cap was
\* enforced, what is left when the doomed are gone is below it.
Exhaustive(r) ==
    /\ \A q \in Evicting : q = r
    /\ handler[r] \in {"iter", "expire"} =>
          /\ todo[r] \cap doomed[r] = {}
          /\ \A d \in terminal[r] :
                d[1] \in Stored /\ d[1] \notin todo[r] \cup doomed[r]
          /\ \A k \in Stored : Terminal(k) =>
                k \in todo[r] \cup doomed[r] \/ <<k, sessions[k].started_at>> \in terminal[r]
    /\ handler[r] = "cap" =>
          \/ Cardinality(Stored \ doomed[r]) < MaxSessions
          \/ \A k \in Stored : Terminal(k) => k \in doomed[r]

Undisturbed ==
    /\ IsFiniteSet(Stored)
    /\ \A r \in Evicting \ crowded : Exhaustive(r)

SessionsInv ==
    /\ SessionTypes
    /\ Ordered
    /\ Named
    /\ Counted
    /\ Earned
    /\ Within
    /\ SeenStands
    /\ Undisturbed

\* A step of one request, its crawl and its reader.
RequestStep(r) ==
    \/ run(r) \/ acquire(r) \/ disconnect(r)
    \/ EvictStep(r) \/ CrawlStep(r) \/ ReaderStep(r)
    \/ \E observed \in BOOLEAN : channel_send_page(r, observed)

\* An update replaces a stored session, and stores none.
LEMMA UpdateEffect ==
    ASSUME SessionTypes, NEW r \in Request, NEW s,
           r \in Stored => s \in SessionRecord,
           Update(r, s)
    PROVE  /\ sessions' \in [Request -> {NoSession} \cup SessionRecord]
           /\ Stored' = Stored
           /\ \A k \in Request \ {r} : sessions'[k] = sessions[k]
           /\ r \in Stored => sessions'[r] = s
           /\ r \notin Stored => sessions'[r] = sessions[r]
  BY NoSessionAssumption DEF Update, Stored, SessionTypes

\* What the reader makes of a stored session.
LEMMA UpdatedRecords ==
    ASSUME SessionTypes, NEW r \in Request, r \in Stored,
           NEW status \in {"Complete", "Failed"}, NEW error \in BOOLEAN
    PROVE  /\ sessions[r] \in SessionRecord
           /\ [sessions[r] EXCEPT !.pages = @ + 1] \in SessionRecord
           /\ [sessions[r] EXCEPT !.status = status] \in SessionRecord
           /\ [sessions[r] EXCEPT !.status = status, !.error = error] \in SessionRecord
  <1>1. sessions[r] \in SessionRecord
    BY DEF SessionTypes, Stored
  <1>2. PICK s \in SessionRecord : s = sessions[r]
    BY <1>1
  <1>3. /\ [s EXCEPT !.pages = s.pages + 1] \in SessionRecord
        /\ [s EXCEPT !.status = status] \in SessionRecord
    BY DEF SessionRecord
  <1>4. [s EXCEPT !.status = status, !.error = error] \in SessionRecord
    BY DEF SessionRecord
  <1>. QED BY <1>2, <1>3, <1>4

\* A page is read: the session, if it is stored, keeps all but its pages.
LEMMA RecvEffect ==
    ASSUME SessionTypes, NEW r \in Request, recv_page(r)
    PROVE  /\ reader[r] = "recv" /\ read[r] < Len(sent[r])
           /\ UNCHANGED <<asked, time, handler, crawls, reader, lagged, evictions, crowded>>
           /\ read' = [read EXCEPT ![r] = read[r] + 1]
           /\ observed_response_count' = IF sent[r][read[r] + 1]
                  THEN [observed_response_count EXCEPT ![r] = observed_response_count[r] + 1]
                  ELSE observed_response_count
           /\ sessions' \in [Request -> {NoSession} \cup SessionRecord]
           /\ Stored' = Stored
           /\ \A k \in Stored : /\ sessions'[k].status = sessions[k].status
                                /\ sessions'[k].started_at = sessions[k].started_at
                                /\ sessions'[k].pages =
                                     IF k = r THEN sessions[k].pages + 1 ELSE sessions[k].pages
  <1> DEFINE s == [sessions[r] EXCEPT !.pages = @ + 1]
  <1>1. recv_page(r) /\ Update(r, s)
    BY DEF recv_page
  <1>2. r \in Stored => /\ s \in SessionRecord /\ s.status = sessions[r].status
                        /\ s.started_at = sessions[r].started_at
                        /\ s.pages = sessions[r].pages + 1
    BY UpdatedRecords DEF SessionTypes, Stored, SessionRecord
  <1> HIDE DEF s
  <1>3. /\ sessions' \in [Request -> {NoSession} \cup SessionRecord]
        /\ Stored' = Stored
        /\ \A k \in Request \ {r} : sessions'[k] = sessions[k]
        /\ r \in Stored => sessions'[r] = s
    BY <1>1, <1>2, UpdateEffect
  <1>4. Stored \subseteq Request
    BY DEF Stored
  <1>. QED BY <1>1, <1>2, <1>3, <1>4 DEF recv_page

\* Reading stops: nobody is told yet, or the session, if it is stored, comes
\* to its end, or the request returns.
LEMMA StopEffect ==
    ASSUME SessionTypes, NEW r \in Request,
           screenshot_content_or_error(r) \/ drained(r) \/ joined(r)
    PROVE  LET success == /\ reader'[r] = "done" /\ observed_response_count[r] > 0
                          /\ r \notin lagged' => Over(r) /\ read[r] = Len(sent[r])
           IN
           /\ reader[r] \in {"recv", "join"} /\ lagged \subseteq lagged'
           /\ UNCHANGED <<asked, time, crawl, sent, permits, read,
                          observed_response_count, evictions>>
           /\ \E next \in {"join", "done"} : reader' = [reader EXCEPT ![r] = next]
           /\ \/ UNCHANGED <<handler, sessions, crowded>>
              \/ /\ UNCHANGED handler /\ crowded' = crowded \cup Evicting
                 /\ sessions' \in [Request -> {NoSession} \cup SessionRecord]
                 /\ Stored' = Stored
                 /\ \A k \in Request \ {r} : sessions'[k] = sessions[k]
                 /\ r \in Stored => /\ sessions'[r].status \in {"Complete", "Failed"}
                                    /\ sessions'[r].pages = sessions[r].pages
                                    /\ sessions'[r].started_at = sessions[r].started_at
                                    /\ sessions'[r].status = "Complete" => success
              \/ /\ ~Background(r) /\ UNCHANGED <<sessions, crowded>>
                 /\ \E answer \in {"success", "refused"} :
                       /\ handler' = [handler EXCEPT ![r] = answer]
                       /\ answer = "success" => success
  <1> DEFINE success == /\ reader'[r] = "done" /\ observed_response_count[r] > 0
                        /\ r \notin lagged' => Over(r) /\ read[r] = Len(sent[r])
             kept == /\ UNCHANGED handler /\ crowded' = crowded \cup Evicting
             ended(s) == /\ s.status \in {"Complete", "Failed"}
                         /\ s.pages = sessions[r].pages
                         /\ s.started_at = sessions[r].started_at
                         /\ s.status = "Complete" => success
  <1>1. /\ reader[r] \in {"recv", "join"} /\ lagged \subseteq lagged'
        /\ UNCHANGED <<asked, time, crawl, sent, permits, read,
                       observed_response_count, evictions>>
        /\ \E next \in {"join", "done"} : reader' = [reader EXCEPT ![r] = next]
    BY DEF screenshot_content_or_error, drained, joined, readers, asked
  <1>2. \/ UNCHANGED <<handler, sessions, crowded>>
        \/ \E status \in {"Complete", "Failed"} :
              /\ kept /\ Update(r, [sessions[r] EXCEPT !.status = status])
              /\ status = "Complete" => success
        \/ \E error \in BOOLEAN :
              kept /\ Update(r, [sessions[r] EXCEPT !.status = "Failed", !.error = error])
        \/ /\ ~Background(r) /\ UNCHANGED <<sessions, crowded>>
           /\ \E answer \in {"success", "refused"} :
                 /\ handler' = [handler EXCEPT ![r] = answer]
                 /\ answer = "success" => success
    <2>1. CASE screenshot_content_or_error(r)
      BY <2>1 DEF screenshot_content_or_error, Return, Go
    <2>2. CASE drained(r)
      BY <2>2 DEF drained, Return, Go, Observed, Closed, SessionTypes
    <2>3. CASE joined(r)
      BY <2>3 DEF joined, Return, Go, TransportError
    <2>. QED BY <2>1, <2>2, <2>3
  <1>3. ASSUME NEW s, kept, Update(r, s),
               r \in Stored => s \in SessionRecord /\ ended(s)
        PROVE  /\ kept /\ sessions' \in [Request -> {NoSession} \cup SessionRecord]
               /\ Stored' = Stored
               /\ \A k \in Request \ {r} : sessions'[k] = sessions[k]
               /\ r \in Stored => ended(sessions'[r])
    BY <1>3, UpdateEffect
  <1>4. ASSUME NEW status \in {"Complete", "Failed"}, kept,
               Update(r, [sessions[r] EXCEPT !.status = status]),
               status = "Complete" => success
        PROVE  /\ kept /\ sessions' \in [Request -> {NoSession} \cup SessionRecord]
               /\ Stored' = Stored
               /\ \A k \in Request \ {r} : sessions'[k] = sessions[k]
               /\ r \in Stored => ended(sessions'[r])
    <2>1. PICK s : s = [sessions[r] EXCEPT !.status = status]
      OBVIOUS
    <2>2. r \in Stored => s \in SessionRecord /\ ended(s)
      BY <1>4, <2>1, UpdatedRecords DEF SessionTypes, Stored, SessionRecord
    <2>. QED BY <1>3, <1>4, <2>1, <2>2
  <1>5. ASSUME NEW error \in BOOLEAN, kept,
               Update(r, [sessions[r] EXCEPT !.status = "Failed", !.error = error])
        PROVE  /\ kept /\ sessions' \in [Request -> {NoSession} \cup SessionRecord]
               /\ Stored' = Stored
               /\ \A k \in Request \ {r} : sessions'[k] = sessions[k]
               /\ r \in Stored => ended(sessions'[r])
    <2>1. PICK s : s = [sessions[r] EXCEPT !.status = "Failed", !.error = error]
      OBVIOUS
    <2>2. r \in Stored => s \in SessionRecord /\ ended(s)
      BY <1>5, <2>1, UpdatedRecords DEF SessionTypes, Stored, SessionRecord
    <2>. QED BY <1>3, <1>5, <2>1, <2>2
  <1>. QED BY <1>1, <1>2, <1>4, <1>5

\* A crawl starts: its request goes on to read inline or to evict.
LEMMA StartEffect ==
    ASSUME SessionTypes, NEW r \in Request, run(r) \/ acquire(r)
    PROVE  /\ handler[r] \in {"new", "acquire"}
           /\ UNCHANGED <<asked, time, sent, read, observed_response_count, sessions,
                          terminal, doomed, lagged, aborted>>
           /\ \/ /\ handler' = [handler EXCEPT ![r] = "acquire"]
                 /\ UNCHANGED <<crawl, reader, now, todo, crowded>>
              \/ /\ crawl' = [crawl EXCEPT ![r] = "running"] /\ Background(r)
                 /\ handler' = [handler EXCEPT ![r] = "iter"] /\ reader' = reader
                 /\ now' = [now EXCEPT ![r] = time]
                 /\ todo' = [todo EXCEPT ![r] = Stored]
                 /\ crowded' = IF Evicting = {} THEN crowded
                               ELSE crowded \cup Evicting \cup {r}
              \/ /\ crawl' = [crawl EXCEPT ![r] = "running"] /\ ~Background(r)
                 /\ handler' = [handler EXCEPT ![r] = "inline"]
                 /\ reader' = [reader EXCEPT ![r] = "recv"]
                 /\ UNCHANGED <<now, todo, crowded>>
  BY DEF run, acquire, spawn_crawl_task, Go, crawls, readers, evictions, asked

\* The types are preserved.
LEMMA SessionTypesStep ==
    ASSUME SessionTypes, NEW r \in Request, RequestStep(r)
    PROVE  SessionTypes'
  <1>1. ASSUME run(r) \/ acquire(r) PROVE SessionTypes'
    <2>1. /\ handler' \in [Request -> {"new", "acquire", "inline", "iter", "expire",
                                        "cap", "answered", "success", "refused",
                                        "dropped"}]
          /\ crawl' \in [Request -> {"unborn", "running", "over", "transport_error"}]
          /\ reader' \in [Request -> {"off", "recv", "join", "done"}]
      <3>1. \E h \in {"acquire", "iter", "inline"} : handler' = [handler EXCEPT ![r] = h]
        BY <1>1, StartEffect
      <3>2. crawl' = crawl \/ crawl' = [crawl EXCEPT ![r] = "running"]
        BY <1>1, StartEffect
      <3>3. reader' = reader \/ reader' = [reader EXCEPT ![r] = "recv"]
        BY <1>1, StartEffect
      <3>4. handler' \in [Request -> {"new", "acquire", "inline", "iter", "expire", "cap",
                                      "answered", "success", "refused", "dropped"}]
        BY <3>1 DEF SessionTypes
      <3>5. crawl' \in [Request -> {"unborn", "running", "over", "transport_error"}]
        BY <3>2 DEF SessionTypes
      <3>6. reader' \in [Request -> {"off", "recv", "join", "done"}]
        BY <3>3 DEF SessionTypes
      <3>. QED BY <3>4, <3>5, <3>6
    <2>2. now' \in [Request -> Nat] /\ todo' \in [Request -> SUBSET Request]
      <3>1. Stored \in SUBSET Request /\ time \in Nat
        BY DEF Stored, SessionTypes
      <3>2. \/ now' = now /\ todo' = todo
            \/ /\ now' = [now EXCEPT ![r] = time]
               /\ todo' = [todo EXCEPT ![r] = Stored]
        BY <1>1, StartEffect
      <3>3. now \in [Request -> Nat] /\ todo \in [Request -> SUBSET Request]
        BY DEF SessionTypes
      <3>4. /\ [now EXCEPT ![r] = time] \in [Request -> Nat]
            /\ [todo EXCEPT ![r] = Stored] \in [Request -> SUBSET Request]
        BY <3>1, <3>3
      <3>. QED BY <3>2, <3>3, <3>4
    <2>3. UNCHANGED <<asked, time, sent, read, observed_response_count, sessions,
                      terminal, doomed>>
      BY <1>1, StartEffect
    <2>. QED BY <2>1, <2>2, <2>3 DEF SessionTypes, asked
  <1>2. ASSUME disconnect(r) PROVE SessionTypes'
    BY <1>2 DEF disconnect, Go, SessionTypes, asked, evictions
  <1>3. ASSUME NEW k \in Request, visit(r, k) PROVE SessionTypes'
    <2>1. k \in Stored => <<k, sessions[k].started_at>> \in Request \X Nat
      BY DEF SessionTypes, Stored, SessionRecord
    <2>. QED BY <1>3, <2>1 DEF visit, SessionTypes, asked, crawls, readers
  <1>4. ASSUME NEW k \in Request, abort_and_remove(r, k) PROVE SessionTypes'
    BY <1>4 DEF abort_and_remove, SessionTypes, asked, readers
  <1>5. ASSUME iterated(r) PROVE SessionTypes'
    BY <1>5 DEF iterated, Go, SessionTypes, asked, crawls, readers
  <1>6. ASSUME enforce_cap(r) PROVE SessionTypes'
    <2>1. \A n : \A D \in Oldest(r, n) : D \subseteq Request
      BY DEF Oldest, SessionTypes
    <2>2. doomed' \in [Request -> SUBSET Request]
      <3>1. \/ doomed' = doomed
            \/ \E D \in SUBSET Request : doomed' = [doomed EXCEPT ![r] = D]
        BY <1>6, <2>1 DEF enforce_cap
      <3>. QED BY <3>1 DEF SessionTypes
    <2>. QED BY <1>6, <2>2 DEF enforce_cap, Go, SessionTypes, asked, crawls, readers
  <1>7. ASSUME insert_session(r) PROVE SessionTypes'
    <2>1. [status |-> "Running", pages |-> 0, started_at |-> time, error |-> FALSE]
             \in SessionRecord
      BY DEF SessionTypes, SessionRecord
    <2>. QED BY <1>7, <2>1 DEF insert_session, Go, SessionTypes, asked, crawls
  <1>8. ASSUME NEW observed \in BOOLEAN, channel_send_page(r, observed)
        PROVE  SessionTypes'
    <2>1. Append(sent[r], observed) \in Seq(BOOLEAN)
      BY DEF SessionTypes
    <2>. QED
      BY <1>8, <2>1 DEF channel_send_page, SessionTypes, asked, readers, evictions
  <1>9. ASSUME CrawlStep(r) PROVE SessionTypes'
    BY <1>9
    DEF CrawlStep, crawl_ends, transport_fails, cancelled, Ends, SessionTypes, asked,
        readers, evictions
  <1>10. ASSUME recv_page(r) PROVE SessionTypes'
    <2>1. read' \in [Request -> Nat] /\ observed_response_count' \in [Request -> Nat]
      <3>1. /\ read' = [read EXCEPT ![r] = read[r] + 1]
            /\ \/ observed_response_count' = observed_response_count
               \/ observed_response_count' =
                     [observed_response_count EXCEPT ![r] = observed_response_count[r] + 1]
        <4>1. /\ read' = [read EXCEPT ![r] = read[r] + 1]
              /\ observed_response_count' = IF sent[r][read[r] + 1]
                    THEN [observed_response_count EXCEPT
                            ![r] = observed_response_count[r] + 1]
                    ELSE observed_response_count
          BY <1>10, RecvEffect
        <4>. QED BY <4>1
      <3>2. \A f \in [Request -> Nat] : [f EXCEPT ![r] = f[r] + 1] \in [Request -> Nat]
        OBVIOUS
      <3>. QED BY <3>1, <3>2 DEF SessionTypes
    <2>2. /\ UNCHANGED <<asked, time, handler, crawls, reader, lagged, evictions, crowded>>
          /\ sessions' \in [Request -> {NoSession} \cup SessionRecord]
      BY <1>10, RecvEffect
    <2>. QED BY <2>1, <2>2 DEF SessionTypes, asked, crawls, evictions
  <1>11. ASSUME screenshot_content_or_error(r) \/ drained(r) \/ joined(r)
         PROVE  SessionTypes'
    <2>1. handler' \in [Request -> {"new", "acquire", "inline", "iter", "expire",
                                     "cap", "answered", "success", "refused",
                                     "dropped"}]
      <3>1. \/ handler' = handler
            \/ \E answer \in {"success", "refused"} :
                  handler' = [handler EXCEPT ![r] = answer]
        BY <1>11, StopEffect
      <3>. QED BY <3>1 DEF SessionTypes
    <2>2. reader' \in [Request -> {"off", "recv", "join", "done"}]
      <3>1. \E next \in {"join", "done"} : reader' = [reader EXCEPT ![r] = next]
        BY <1>11, StopEffect
      <3>. QED BY <3>1 DEF SessionTypes
    <2>3. sessions' \in [Request -> {NoSession} \cup SessionRecord]
      BY <1>11, StopEffect DEF SessionTypes
    <2>4. UNCHANGED <<asked, time, crawl, sent, read, observed_response_count, evictions>>
      BY <1>11, StopEffect
    <2>. QED BY <2>1, <2>2, <2>3, <2>4 DEF SessionTypes, asked, evictions
  <1>. QED
    BY <1>1, <1>2, <1>3, <1>4, <1>5, <1>6, <1>7, <1>8, <1>9, <1>10, <1>11
    DEF RequestStep, EvictStep, ReaderStep

\* What an EXCEPT needs to know of the variables.
LEMMA SessionDomains ==
    SessionTypes =>
        /\ DOMAIN handler = Request /\ DOMAIN crawl = Request /\ DOMAIN sent = Request
        /\ DOMAIN reader = Request /\ DOMAIN read = Request
        /\ DOMAIN observed_response_count = Request /\ DOMAIN sessions = Request
        /\ DOMAIN now = Request /\ DOMAIN todo = Request /\ DOMAIN terminal = Request
        /\ DOMAIN doomed = Request
  BY DEF SessionTypes

\* What insert_session stores.
LEMMA InsertEffect ==
    ASSUME SessionTypes, NEW r \in Request, insert_session(r)
    PROVE  /\ handler[r] = "cap" /\ doomed[r] = {}
           /\ UNCHANGED <<asked, time, crawls, read, observed_response_count, lagged,
                          now, terminal, doomed, crowded>>
           /\ handler' = [handler EXCEPT ![r] = "answered"]
           /\ reader' = [reader EXCEPT ![r] = "recv"]
           /\ \A k \in Request \ {r} : sessions'[k] = sessions[k]
           /\ sessions'[r].status = "Running" /\ sessions'[r].pages = 0
           /\ Stored' = Stored \cup {r}
           /\ \A q \in Request : \/ todo'[q] = todo[q]
                                 \/ handler[q] = "iter" /\ todo'[q] = todo[q] \cup {r}
  <1> DEFINE s == [status |-> "Running", pages |-> 0, started_at |-> time, error |-> FALSE]
  <1>1. s \in SessionRecord /\ s # NoSession
    <2>1. time \in Nat
      BY DEF SessionTypes
    <2>2. s \in SessionRecord
      BY <2>1 DEF SessionRecord
    <2>. QED BY <2>2, NoSessionAssumption
  <1>2. sessions' = [sessions EXCEPT ![r] = s]
    BY DEF insert_session
  <1>3. /\ \A k \in Request \ {r} : sessions'[k] = sessions[k]
        /\ sessions'[r] = s
    BY <1>2 DEF SessionTypes
  <1>4. Stored' = Stored \cup {r}
    BY <1>1, <1>3 DEF Stored
  <1>5. s.status = "Running" /\ s.pages = 0
    OBVIOUS
  <1> HIDE DEF s
  <1>. QED BY <1>3, <1>4, <1>5 DEF insert_session, Go

\* What abort_and_remove removes.
LEMMA RemoveEffect ==
    ASSUME SessionTypes, NEW r \in Request, NEW k \in Request, abort_and_remove(r, k)
    PROVE  /\ handler[r] \in {"expire", "cap"} /\ k \in doomed[r]
           /\ UNCHANGED <<asked, time, handler, crawl, sent, permits, readers, now, todo,
                          terminal, crowded>>
           /\ doomed' = [doomed EXCEPT ![r] = doomed[r] \ {k}]
           /\ \A q \in Request \ {k} : sessions'[q] = sessions[q]
           /\ Stored' = Stored \ {k}
  BY DEF abort_and_remove, SessionTypes, Stored

\* What an eviction dooms for the cap are candidates.
LEMMA CapEffect ==
    ASSUME SessionTypes, NEW r \in Request, enforce_cap(r)
    PROVE  /\ handler[r] = "expire" /\ doomed[r] = {}
           /\ UNCHANGED <<asked, time, crawls, readers, sessions, now, todo, crowded>>
           /\ handler' = [handler EXCEPT ![r] = "cap"]
           /\ terminal' = [terminal EXCEPT ![r] = {}]
           /\ \A q \in Request \ {r} : doomed'[q] = doomed[q]
           /\ \A k \in doomed'[r] : \E d \in terminal[r] : k = d[1]
  <1>1. \A n : \A D \in Oldest(r, n) : \A k \in D : \E d \in terminal[r] : k = d[1]
    BY DEF Oldest
  <1>2. /\ handler[r] = "expire" /\ doomed[r] = {}
        /\ UNCHANGED <<asked, time, crawls, readers, sessions, now, todo, crowded>>
        /\ handler' = [handler EXCEPT ![r] = "cap"]
        /\ terminal' = [terminal EXCEPT ![r] = {}]
    BY DEF enforce_cap, Go
  <1>3. \/ doomed' = doomed
        \/ \E D \in Oldest(r, overflow) : doomed' = [doomed EXCEPT ![r] = D]
    BY DEF enforce_cap
  <1>4. CASE doomed' = doomed
    BY <1>2, <1>4
  <1>5. ASSUME NEW D \in Oldest(r, overflow), doomed' = [doomed EXCEPT ![r] = D]
        PROVE  /\ \A q \in Request \ {r} : doomed'[q] = doomed[q]
               /\ doomed'[r] = D
    BY <1>5 DEF SessionTypes
  <1>. QED BY <1>1, <1>2, <1>3, <1>4, <1>5

\* The events of a request stay in order.
LEMMA OrderedStep ==
    ASSUME SessionTypes, Ordered, NEW r \in Request, RequestStep(r)
    PROVE  Ordered'
  <1> USE DEF Background
  <1> DEFINE Ord(q) ==
        /\ handler[q] \in {"new", "acquire", "iter", "expire", "cap"} => reader[q] = "off"
        /\ reader[q] = "off" => read[q] = 0 /\ observed_response_count[q] = 0
        /\ handler[q] \in {"iter", "expire", "cap"} => Background(q)
        /\ handler[q] \in {"new", "acquire"} => doomed[q] = {} /\ terminal[q] = {}
        /\ handler[q] # "iter" => todo[q] = {}
        /\ q \in Stored => /\ handler[q] = "answered" /\ Background(q)
                           /\ sessions[q].pages = read[q]
  <1>0. /\ \A q \in Request : Ord(q)
        /\ Stored \subseteq Request
    BY DEF Ordered, Answered, Stored
  <1>1. ASSUME NEW q \in Request PROVE Ord(q)'
    <2>1. CASE run(r) \/ acquire(r)
      <3>1. Stored' = Stored
        BY <2>1, StartEffect DEF Stored
      <3>. QED BY <1>0, <2>1, <3>1, StartEffect, SessionDomains DEF asked
    <2>2. CASE disconnect(r)
      <3>1. Stored' = Stored
        BY <2>2 DEF disconnect, Stored
      <3>. QED BY <1>0, <2>2, <3>1, SessionDomains DEF disconnect, Go, asked, evictions
    <2>3. ASSUME NEW k \in Request, visit(r, k) PROVE Ord(q)'
      <3>1. Stored' = Stored
        BY <2>3 DEF visit, Stored
      <3>2. /\ handler[r] = "iter" /\ \A p \in Request \ {r} : todo'[p] = todo[p] /\
                 doomed'[p] = doomed[p] /\ terminal'[p] = terminal[p]
            /\ UNCHANGED <<params, handler, reader, read, observed_response_count, sessions>>
        BY <2>3, SessionDomains DEF visit, asked, readers
      <3>. QED BY <1>0, <3>1, <3>2
    <2>4. ASSUME NEW k \in Request, abort_and_remove(r, k) PROVE Ord(q)'
      BY <1>0, <2>4, RemoveEffect, SessionDomains DEF asked, readers
    <2>5. CASE iterated(r)
      <3>1. Stored' = Stored
        BY <2>5 DEF iterated, Stored
      <3>. QED BY <1>0, <2>5, <3>1, SessionDomains DEF iterated, Go, asked, readers
    <2>6. CASE enforce_cap(r)
      <3>1. Stored' = Stored
        BY <2>6, CapEffect DEF Stored
      <3>. QED BY <1>0, <2>6, <3>1, CapEffect, SessionDomains DEF asked, readers
    <2>7. CASE insert_session(r)
      BY <1>0, <2>7, InsertEffect, SessionDomains DEF asked
    <2>8. ASSUME NEW observed \in BOOLEAN, channel_send_page(r, observed)
          PROVE  Ord(q)'
      <3>1. Stored' = Stored
        BY <2>8 DEF channel_send_page, Stored
      <3>. QED BY <1>0, <2>8, <3>1 DEF channel_send_page, asked, readers, evictions
    <2>9. CASE CrawlStep(r)
      <3>1. UNCHANGED <<params, handler, readers, evictions, sessions>>
        BY <2>9 DEF CrawlStep, crawl_ends, transport_fails, cancelled, Ends, asked
      <3>2. Stored' = Stored
        BY <3>1 DEF Stored
      <3>. QED BY <1>0, <3>1, <3>2 DEF readers, evictions
    <2>10. CASE recv_page(r)
      <3>1. /\ reader[r] = "recv" /\ Stored' = Stored
            /\ UNCHANGED <<params, handler, reader, todo, terminal, doomed>>
            /\ \A k \in Stored : sessions'[k].pages =
                  IF k = r THEN sessions[k].pages + 1 ELSE sessions[k].pages
            /\ read' = [read EXCEPT ![r] = read[r] + 1]
            /\ \A p \in Request \ {r} :
                  observed_response_count'[p] = observed_response_count[p]
        BY <2>10, RecvEffect, SessionDomains DEF asked, evictions
      <3>2. CASE q = r
        BY <1>0, <3>1, <3>2, SessionDomains
      <3>3. CASE q # r
        BY <1>0, <3>1, <3>3, SessionDomains
      <3>. QED BY <3>2, <3>3
    <2>11. CASE screenshot_content_or_error(r) \/ drained(r) \/ joined(r)
      <3>1. /\ reader[r] \in {"recv", "join"}
            /\ UNCHANGED <<params, read, observed_response_count, todo, terminal, doomed>>
            /\ \E next \in {"join", "done"} : reader' = [reader EXCEPT ![r] = next]
        BY <2>11, StopEffect DEF asked, evictions
      <3>2. /\ Stored' = Stored
            /\ \A k \in Stored : sessions'[k].pages = sessions[k].pages
        BY <2>11, StopEffect DEF Stored
      <3>3. \/ handler' = handler
            \/ ~Background(r) /\ \E answer \in {"success", "refused"} :
                  handler' = [handler EXCEPT ![r] = answer]
        BY <2>11, StopEffect
      <3>. QED BY <1>0, <3>1, <3>2, <3>3, SessionDomains
    <2>. QED
      BY <2>1, <2>2, <2>3, <2>4, <2>5, <2>6, <2>7, <2>8, <2>9, <2>10, <2>11
      DEF RequestStep, EvictStep, ReaderStep
  <1>. QED BY <1>1 DEF Ordered, Answered

\* An eviction holds only sessions that were stored.
LEMMA NamedStep ==
    ASSUME SessionTypes, Ordered, Named, NEW r \in Request, RequestStep(r)
    PROVE  Named'
  <1> USE DEF Background
  <1> DEFINE Holds(q) == /\ \A k \in todo[q] \cup doomed[q] : Answered(k)
                         /\ \A d \in terminal[q] : Answered(d[1])
  <1>0. \A q \in Request : Holds(q)
    BY DEF Named
  <1>1. \A k \in Stored : Answered(k)
    BY DEF Ordered, Stored
  <1>2. \A k \in Request : Answered(k) => Answered(k)'
    <2>1. CASE run(r) \/ acquire(r)
      BY <2>1, StartEffect, SessionDomains DEF Answered, asked
    <2>2. CASE disconnect(r)
      BY <2>2, SessionDomains DEF disconnect, Go, Answered, asked
    <2>3. CASE EvictStep(r)
      BY <2>3, SessionDomains
      DEF EvictStep, visit, abort_and_remove, iterated, enforce_cap, insert_session, Go,
          Answered, asked
    <2>4. CASE CrawlStep(r) \/ \E observed \in BOOLEAN : channel_send_page(r, observed)
      BY <2>4
      DEF CrawlStep, crawl_ends, transport_fails, cancelled, Ends, channel_send_page,
          Answered, asked
    <2>5. CASE recv_page(r)
      BY <2>5, RecvEffect DEF Answered, asked
    <2>6. CASE screenshot_content_or_error(r) \/ drained(r) \/ joined(r)
      <3>1. \/ handler' = handler
            \/ ~Background(r) /\ \E answer \in {"success", "refused"} :
                  handler' = [handler EXCEPT ![r] = answer]
        BY <2>6, StopEffect
      <3>. QED BY <2>6, <3>1, StopEffect, SessionDomains DEF Answered, asked
    <2>. QED BY <2>1, <2>2, <2>3, <2>4, <2>5, <2>6 DEF RequestStep, ReaderStep
  <1>3. ASSUME NEW q \in Request
        PROVE  /\ \A k \in todo'[q] : k \in todo[q] \/ k \in Stored \/ Answered(k)'
               /\ \A k \in doomed'[q] : \/ k \in doomed[q] \/ k \in Stored
                                        \/ \E d \in terminal[q] : k = d[1]
               /\ \A d \in terminal'[q] : d \in terminal[q] \/ d[1] \in Stored
    <2>1. CASE run(r) \/ acquire(r)
      BY <2>1, StartEffect, SessionDomains
    <2>2. CASE \/ disconnect(r) \/ CrawlStep(r)
               \/ \E observed \in BOOLEAN : channel_send_page(r, observed)
      BY <2>2
      DEF disconnect, CrawlStep, crawl_ends, transport_fails, cancelled, Ends,
          channel_send_page, evictions
    <2>3. ASSUME NEW k \in Request, visit(r, k)
          PROVE  /\ todo'[q] \subseteq todo[q]
                 /\ \A i \in doomed'[q] : i \in doomed[q] \/ i \in Stored
                 /\ \A d \in terminal'[q] : d \in terminal[q] \/ d[1] \in Stored
      BY <2>3, SessionDomains DEF visit
    <2>4. ASSUME NEW k \in Request, abort_and_remove(r, k)
          PROVE  /\ todo'[q] = todo[q] /\ doomed'[q] \subseteq doomed[q]
                 /\ terminal'[q] = terminal[q]
      BY <2>4, RemoveEffect, SessionDomains
    <2>5. CASE iterated(r)
      BY <2>5 DEF iterated
    <2>6. CASE enforce_cap(r)
      BY <2>6, CapEffect, SessionDomains
    <2>7. CASE insert_session(r)
      <3>1. Answered(r)'
        BY <2>7, InsertEffect, SessionDomains DEF Answered, Ordered, asked
      <3>. QED BY <2>7, <3>1, InsertEffect
    <2>8. CASE ReaderStep(r)
      BY <2>8, RecvEffect, StopEffect DEF ReaderStep, evictions
    <2>. QED
      BY <2>1, <2>2, <2>3, <2>4, <2>5, <2>6, <2>7, <2>8
      DEF RequestStep, EvictStep
  <1>4. ASSUME NEW q \in Request PROVE Holds(q)'
    <2>1. todo[q] \subseteq Request /\ doomed[q] \subseteq Request
          /\ \A d \in terminal[q] : d[1] \in Request
      BY DEF SessionTypes
    <2>2. Stored \subseteq Request
      BY DEF Stored
    <2>3. \A k \in todo'[q] : Answered(k)'
      BY <1>0, <1>1, <1>2, <1>3, <2>1, <2>2
    <2>4. \A k \in doomed'[q] : Answered(k)'
      BY <1>0, <1>1, <1>2, <1>3, <2>1, <2>2
    <2>5. \A d \in terminal'[q] : Answered(d[1])'
      BY <1>0, <1>1, <1>2, <1>3, <2>1, <2>2
    <2>. QED BY <2>3, <2>4, <2>5
  <1>. QED BY <1>4 DEF Named

\* A sent page stays sent.
LEMMA SendEffect ==
    ASSUME SessionTypes, NEW r \in Request, NEW observed \in BOOLEAN,
           channel_send_page(r, observed)
    PROVE  /\ crawl[r] = "running"
           /\ UNCHANGED <<asked, time, handler, crawl, aborted, permits, readers,
                          sessions, evictions, crowded>>
           /\ \A q \in Request \ {r} : sent'[q] = sent[q]
           /\ Len(sent'[r]) = Len(sent[r]) + 1 /\ Len(sent[r]) \in Nat
           /\ \A i \in 1 .. Len(sent[r]) : sent'[r][i] = sent[r][i]
  <1>1. sent[r] \in Seq(BOOLEAN)
    BY DEF SessionTypes
  <1>2. PICK longer : longer = Append(sent[r], observed)
    OBVIOUS
  <1>3. /\ Len(longer) = Len(sent[r]) + 1 /\ Len(sent[r]) \in Nat
        /\ \A i \in 1 .. Len(sent[r]) : longer[i] = sent[r][i]
    BY <1>1, <1>2
  <1>4. sent' = [sent EXCEPT ![r] = longer]
    BY <1>2 DEF channel_send_page
  <1>5. sent'[r] = longer /\ \A q \in Request \ {r} : sent'[q] = sent[q]
    BY <1>4, SessionDomains
  <1>. QED BY <1>3, <1>5 DEF channel_send_page

\* The end of a crawl.
LEMMA EndEffect ==
    ASSUME SessionTypes, NEW r \in Request, CrawlStep(r)
    PROVE  /\ UNCHANGED <<asked, time, handler, sent, readers, sessions, evictions, crowded>>
           /\ \A q \in Request \ {r} : crawl'[q] = crawl[q]
           /\ crawl'[r] \notin {"unborn", "running"}
  BY SessionDomains DEF CrawlStep, crawl_ends, transport_fails, cancelled, Ends

\* What is counted was read, and what is read was sent.
LEMMA CountedStep ==
    ASSUME SessionTypes, Ordered, Counted, NEW r \in Request, RequestStep(r)
    PROVE  Counted'
  <1> DEFINE Count(q) ==
        /\ read[q] <= Len(sent[q])
        /\ observed_response_count[q] > 0 => \E i \in 1 .. read[q] : sent[q][i]
  <1>0. /\ \A q \in Request : Count(q)
        /\ \A q \in Request : Len(sent[q]) \in Nat /\ read[q] \in Nat
                              /\ observed_response_count[q] \in Nat
    BY DEF Counted, SessionTypes
  <1>1. CASE UNCHANGED <<sent, read, observed_response_count>>
    BY <1>0, <1>1 DEF Counted
  <1>2. ASSUME NEW observed \in BOOLEAN, channel_send_page(r, observed) PROVE Counted'
    <2>1. /\ \A q \in Request \ {r} : sent'[q] = sent[q]
          /\ Len(sent'[r]) = Len(sent[r]) + 1
          /\ \A i \in 1 .. Len(sent[r]) : sent'[r][i] = sent[r][i]
          /\ UNCHANGED <<read, observed_response_count>>
      BY <1>2, SendEffect DEF readers
    <2>2. \A q \in Request \ {r} : Count(q)'
      BY <1>0, <2>1
    <2>3. Count(r)'
      BY <1>0, <2>1
    <2>. QED BY <2>2, <2>3 DEF Counted
  <1>3. CASE recv_page(r)
    <2>1. /\ read[r] < Len(sent[r]) /\ sent' = sent
          /\ read'[r] = read[r] + 1
          /\ \A q \in Request \ {r} :
                /\ read'[q] = read[q]
                /\ observed_response_count'[q] = observed_response_count[q]
          /\ \/ sent[r][read[r] + 1]
             \/ observed_response_count'[r] = observed_response_count[r]
      BY <1>3, RecvEffect, SessionDomains DEF crawls
    <2>2. Count(r)'
      <3>1. read'[r] <= Len(sent'[r])
        BY <1>0, <2>1
      <3>2. CASE sent[r][read[r] + 1]
        BY <1>0, <2>1, <3>1, <3>2
      <3>3. CASE observed_response_count'[r] = observed_response_count[r]
        BY <1>0, <2>1, <3>1, <3>3
      <3>. QED BY <2>1, <3>2, <3>3
    <2>3. \A q \in Request \ {r} : Count(q)'
      BY <1>0, <2>1
    <2>. QED BY <2>2, <2>3 DEF Counted
  <1>4. CASE \/ run(r) \/ acquire(r) \/ disconnect(r) \/ EvictStep(r) \/ CrawlStep(r)
             \/ screenshot_content_or_error(r) \/ drained(r) \/ joined(r)
    <2>1. UNCHANGED <<sent, read, observed_response_count>>
      BY <1>4, StartEffect, EndEffect, StopEffect
      DEF disconnect, EvictStep, visit, abort_and_remove, iterated, enforce_cap,
          insert_session, crawls, readers
    <2>. QED BY <1>1, <2>1
  <1>. QED BY <1>2, <1>3, <1>4 DEF RequestStep, ReaderStep

\* A crawl sends no more than its request finds, and who falls behind missed
\* more than the channel keeps.
LEMMA WithinStep ==
    ASSUME SessionTypes, Counted, Within, NEW r \in Request, RequestStep(r)
    PROVE  Within'
  <1> DEFINE Born(q) == crawl[q] = "running" \/ handler[q] = "acquire" => q \in DOMAIN params
             Kept(q) == Len(sent[q]) > 0 => q \in DOMAIN params /\ Len(sent[q]) <= params[q].pages
             Missed(q) == q \in lagged => Len(sent[q]) > Capacity
  <1>0. /\ \A q \in Request : Born(q) /\ Kept(q) /\ Missed(q)
        /\ \A q \in Request : Len(sent[q]) \in Nat /\ read[q] \in Nat
        /\ \A q \in DOMAIN params : params[q] \in Params
        /\ Capacity \in Nat
    BY SessionsAssumption DEF Within, SessionTypes
  <1>1. params' = params
    BY StartEffect, EndEffect, RecvEffect, StopEffect
    DEF RequestStep, EvictStep, ReaderStep, disconnect, visit, abort_and_remove, iterated,
        enforce_cap, insert_session, channel_send_page, asked
  <1>2. ASSUME NEW q \in Request PROVE Born(q)'
    <2>1. CASE run(r) \/ acquire(r)
      <3>1. r \in DOMAIN params
        BY <1>0, <2>1 DEF run, acquire
      <3>. QED BY <1>0, <1>1, <2>1, <3>1, StartEffect, SessionDomains
    <2>2. CASE disconnect(r) \/ EvictStep(r)
      BY <1>0, <1>1, <2>2, SessionDomains
      DEF disconnect, EvictStep, visit, abort_and_remove, iterated, enforce_cap,
          insert_session, Go, crawls
    <2>3. CASE CrawlStep(r) \/ \E observed \in BOOLEAN : channel_send_page(r, observed)
      BY <1>0, <1>1, <2>3, EndEffect DEF channel_send_page
    <2>4. CASE ReaderStep(r)
      <3>1. crawl' = crawl /\ (handler'[q] = "acquire" => handler[q] = "acquire")
        BY <2>4, RecvEffect, StopEffect, SessionDomains DEF ReaderStep, crawls
      <3>. QED BY <1>0, <1>1, <3>1
    <2>. QED BY <2>1, <2>2, <2>3, <2>4 DEF RequestStep
  <1>3. ASSUME NEW q \in Request PROVE Kept(q)' /\ Missed(q)'
    <2>1. ASSUME NEW observed \in BOOLEAN, channel_send_page(r, observed)
          PROVE  Kept(q)' /\ Missed(q)'
      <3>1. /\ r \in DOMAIN params /\ params[r].pages \in Nat
            /\ Len(sent[r]) < params[r].pages /\ lagged' = lagged
        BY <1>0, <2>1, SessionsAssumption DEF channel_send_page, readers, Params
      <3>. QED BY <1>0, <1>1, <2>1, <3>1, SendEffect
    <2>2. CASE screenshot_content_or_error(r) \/ drained(r) \/ joined(r)
      <3>1. sent' = sent
        BY <2>2, StopEffect
      <3>2. lagged' = lagged \/ (lagged' = lagged \cup {r} /\ Lagged(r))
        BY <2>2 DEF screenshot_content_or_error, drained, joined
      <3>3. Lagged(r) => Len(sent[r]) > Capacity
        BY <1>0 DEF Lagged
      <3>. QED BY <1>0, <1>1, <3>1, <3>2, <3>3
    <2>3. CASE \/ run(r) \/ acquire(r) \/ disconnect(r) \/ EvictStep(r) \/ CrawlStep(r)
               \/ recv_page(r)
      <3>1. UNCHANGED <<sent, lagged>>
        BY <2>3, StartEffect, EndEffect, RecvEffect
        DEF disconnect, EvictStep, visit, abort_and_remove, iterated, enforce_cap,
            insert_session, crawls, readers
      <3>. QED BY <1>0, <1>1, <3>1
    <2>. QED BY <2>1, <2>2, <2>3 DEF RequestStep, ReaderStep
  <1>. QED BY <1>0, <1>1, <1>2, <1>3 DEF Within

\* The reader of an inline crawl that has a limit does not fall behind.
LEMMA InlineFits ==
    ASSUME SessionTypes, Within, NEW r \in Request, Fits(r)
    PROVE  r \notin lagged
  <1> SUFFICES ASSUME r \in lagged PROVE FALSE
    OBVIOUS
  <1>1. Len(sent[r]) \in Nat /\ Capacity \in Nat /\ InlineLimit \in Nat
        /\ InlineLimit <= Capacity
    BY SessionsAssumption, InlineAssumption DEF SessionTypes
  <1>2. /\ Len(sent[r]) > Capacity /\ params[r] \in Params
        /\ Len(sent[r]) <= params[r].pages
    BY <1>1 DEF Within
  <1>3. params[r].pages \in Nat /\ params[r].pages <= params[r].limit
        /\ params[r].limit \in 1 .. InlineLimit
    BY <1>1, <1>2, SessionsAssumption DEF Fits, Params
  <1>. QED BY <1>1, <1>2, <1>3

\* Success is reported by a reader that is done, and its crawl never resumes.
LEMMA EarnedStep ==
    ASSUME SessionTypes, Ordered, Earned, NEW r \in Request, RequestStep(r)
    PROVE  Earned'
  <1> DEFINE Succeeds(q) == \/ handler[q] = "success"
                            \/ q \in Stored /\ sessions[q].status = "Complete"
             Ready(q) == /\ reader[q] = "done" /\ observed_response_count[q] > 0
                         /\ q \notin lagged => /\ crawl[q] \notin {"unborn", "running"}
                                               /\ read[q] = Len(sent[q])
  <1>0. /\ \A q \in Request : Succeeds(q) => Ready(q)
        /\ \A q \in Request : q \in Stored => handler[q] = "answered"
    BY DEF Earned, Ordered, Answered, Over
  <1>1. ASSUME NEW q \in Request, Succeeds(q)' PROVE Ready(q)'
    <2>0. Stored = {k \in Request : sessions[k] # NoSession}
      BY DEF Stored
    <2>1. CASE run(r) \/ acquire(r)
      <3>1. Stored' = Stored
        BY <2>1, StartEffect DEF Stored
      <3>. QED BY <1>0, <1>1, <2>1, <3>1, StartEffect, SessionDomains
    <2>2. CASE disconnect(r)
      <3>1. Stored' = Stored
        BY <2>2 DEF disconnect, Stored
      <3>. QED BY <1>0, <1>1, <2>2, <3>1, SessionDomains DEF disconnect, Go
    <2>3. ASSUME NEW k \in Request, visit(r, k) PROVE Ready(q)'
      <3>1. Stored' = Stored
        BY <2>3 DEF visit, Stored
      <3>. QED BY <1>0, <1>1, <2>3, <3>1 DEF visit, crawls, readers
    <2>4. ASSUME NEW k \in Request, abort_and_remove(r, k) PROVE Ready(q)'
      <3>1. Succeeds(q)
        BY <1>1, <2>4, RemoveEffect
      <3>. QED BY <1>0, <2>4, <3>1, RemoveEffect DEF readers
    <2>5. CASE iterated(r)
      <3>1. Stored' = Stored
        BY <2>5 DEF iterated, Stored
      <3>. QED BY <1>0, <1>1, <2>5, <3>1, SessionDomains DEF iterated, Go, crawls, readers
    <2>6. CASE enforce_cap(r)
      <3>1. Stored' = Stored
        BY <2>6, CapEffect DEF Stored
      <3>. QED BY <1>0, <1>1, <2>6, <3>1, CapEffect, SessionDomains DEF crawls, readers
    <2>7. CASE insert_session(r)
      BY <1>0, <1>1, <2>7, InsertEffect, SessionDomains DEF crawls
    <2>8. ASSUME NEW observed \in BOOLEAN, channel_send_page(r, observed)
          PROVE  Ready(q)'
      <3>1. Stored' = Stored /\ UNCHANGED <<handler, sessions>>
        BY <2>8 DEF channel_send_page, Stored
      <3>2. Ready(q)
        BY <1>0, <1>1, <3>1
      <3>. QED BY <2>8, <3>2, SendEffect DEF readers
    <2>9. CASE CrawlStep(r)
      <3>1. Stored' = Stored /\ UNCHANGED <<handler, sessions>>
        BY <2>9, EndEffect DEF Stored
      <3>2. Ready(q)
        BY <1>0, <1>1, <3>1
      <3>. QED BY <2>9, <3>2, EndEffect DEF readers
    <2>10. CASE recv_page(r)
      <3>1. Succeeds(q)
        BY <1>1, <2>10, RecvEffect
      <3>2. Ready(q) /\ q # r
        BY <1>0, <2>10, <3>1, RecvEffect
      <3>. QED BY <2>10, <3>2, RecvEffect, SessionDomains DEF crawls
    <2>11. CASE screenshot_content_or_error(r) \/ drained(r) \/ joined(r)
      <3>1. /\ reader[r] \in {"recv", "join"} /\ lagged \subseteq lagged'
            /\ UNCHANGED <<crawl, sent, read, observed_response_count>>
            /\ \A k \in Request \ {r} : /\ reader'[k] = reader[k]
                                        /\ handler'[k] = handler[k]
                                        /\ sessions'[k] = sessions[k]
            /\ Stored' = Stored
        BY <2>11, StopEffect, SessionDomains DEF Stored
      <3>2. CASE q # r
        BY <1>0, <1>1, <3>1, <3>2
      <3>3. CASE q = r
        <4>1. ~Succeeds(r)
          BY <1>0, <3>1
        <4>2. Succeeds(r)' => /\ reader'[r] = "done" /\ observed_response_count[r] > 0
                              /\ r \notin lagged' => Over(r) /\ read[r] = Len(sent[r])
          <5>1. CASE UNCHANGED <<handler, sessions, crowded>>
            BY <3>1, <4>1, <5>1
          <5>2. CASE /\ UNCHANGED handler
                     /\ r \in Stored /\ sessions'[r].status = "Complete" =>
                          /\ reader'[r] = "done" /\ observed_response_count[r] > 0
                          /\ r \notin lagged' => Over(r) /\ read[r] = Len(sent[r])
            BY <3>1, <4>1, <5>2
          <5>3. CASE /\ UNCHANGED sessions
                     /\ \E answer \in {"success", "refused"} :
                          /\ handler' = [handler EXCEPT ![r] = answer]
                          /\ answer = "success" =>
                               /\ reader'[r] = "done" /\ observed_response_count[r] > 0
                               /\ r \notin lagged' => Over(r) /\ read[r] = Len(sent[r])
            BY <3>1, <4>1, <5>3, SessionDomains
          <5>. QED BY <2>11, <5>1, <5>2, <5>3, StopEffect
        <4>. QED BY <1>1, <3>1, <3>3, <4>2 DEF Over
      <3>. QED BY <3>2, <3>3
    <2>. QED
      BY <2>1, <2>2, <2>3, <2>4, <2>5, <2>6, <2>7, <2>8, <2>9, <2>10, <2>11
      DEF RequestStep, EvictStep, ReaderStep
  <1>. QED BY <1>1 DEF Earned, Over

\* What an eviction saw still holds when it acts on it.
LEMMA SeenStep ==
    ASSUME SessionTypes, Ordered, Named, SeenStands, NEW r \in Request, RequestStep(r)
    PROVE  SeenStands'
  <1> DEFINE DoomedStands(k) ==
               k \in Stored /\ sessions[k].status = "Running" =>
                   running_ttl # 0 /\ Age(k, time) >= running_ttl
             CandidateStands(d) ==
               d[1] \in Stored => Terminal(d[1]) /\ d[2] = sessions[d[1]].started_at
  <1>0. /\ \A q \in Request : now[q] <= time /\ now[q] \in Nat
        /\ \A q \in Request : \A k \in doomed[q] : DoomedStands(k)
        /\ \A q \in Request : \A d \in terminal[q] : CandidateStands(d)
        /\ time \in Nat /\ UNCHANGED <<time, running_ttl>>
    <2>1. UNCHANGED <<time, asked>>
      BY StartEffect, EndEffect, RecvEffect, StopEffect
      DEF RequestStep, disconnect, EvictStep, visit, abort_and_remove, iterated,
          enforce_cap, insert_session, ReaderStep, channel_send_page
    <2>. QED BY <2>1 DEF SeenStands, SessionTypes, asked
  <1>1. ASSUME NEW k \in Request, k \in Stored', Answered(k)
        PROVE  /\ k \in Stored
               /\ sessions'[k].started_at = sessions[k].started_at
               /\ sessions'[k].status \in {sessions[k].status, "Complete", "Failed"}
    <2>1. CASE insert_session(r)
      BY <1>1, <2>1, InsertEffect DEF Answered
    <2>2. CASE \E i \in Request : abort_and_remove(r, i)
      BY <1>1, <2>2, RemoveEffect
    <2>3. CASE UNCHANGED sessions
      BY <1>1, <2>3 DEF Stored
    <2>4. CASE recv_page(r)
      BY <1>1, <2>4, RecvEffect
    <2>5. CASE screenshot_content_or_error(r) \/ drained(r) \/ joined(r)
      BY <1>1, <2>5, StopEffect DEF Stored
    <2>6. \/ run(r) \/ acquire(r) \/ disconnect(r) \/ CrawlStep(r)
          \/ (\E i \in Request : visit(r, i)) \/ iterated(r) \/ enforce_cap(r)
          \/ (\E observed \in BOOLEAN : channel_send_page(r, observed))
          => UNCHANGED sessions
      BY StartEffect, EndEffect
      DEF disconnect, visit, iterated, enforce_cap, channel_send_page
    <2>. QED
      BY <2>1, <2>2, <2>3, <2>4, <2>5, <2>6 DEF RequestStep, EvictStep, ReaderStep
  <1>2. ASSUME NEW q \in Request
        PROVE  /\ \A k \in doomed'[q] :
                     \/ k \in doomed[q]
                     \/ \E d \in terminal[q] : k = d[1]
                     \/ k \in Stored /\ Expired(k, now[q])
               /\ \A d \in terminal'[q] :
                     \/ d \in terminal[q]
                     \/ d[1] \in Stored /\ Terminal(d[1]) /\ d[2] = sessions[d[1]].started_at
               /\ now'[q] \in {now[q], time, 0}
    <2>1. CASE run(r) \/ acquire(r)
      BY <2>1, StartEffect, SessionDomains
    <2>2. CASE \/ disconnect(r) \/ CrawlStep(r)
               \/ \E observed \in BOOLEAN : channel_send_page(r, observed)
      BY <2>2, EndEffect DEF disconnect, channel_send_page, evictions
    <2>3. ASSUME NEW k \in Request, visit(r, k)
          PROVE  /\ \A i \in doomed'[q] : i \in doomed[q] \/ (i = k /\ i \in Stored
                                             /\ q = r /\ Expired(i, now[r]))
                 /\ \A d \in terminal'[q] : d \in terminal[q] \/ (k \in Stored
                        /\ Terminal(k) /\ d = <<k, sessions[k].started_at>>)
                 /\ now' = now
      BY <2>3, SessionDomains DEF visit, Candidate
    <2>4. ASSUME NEW k \in Request, abort_and_remove(r, k)
          PROVE  doomed'[q] \subseteq doomed[q] /\ terminal' = terminal /\ now' = now
      BY <2>4, RemoveEffect, SessionDomains
    <2>5. CASE iterated(r)
      BY <2>5, SessionDomains DEF iterated
    <2>6. CASE enforce_cap(r)
      BY <2>6, CapEffect, SessionDomains
    <2>7. CASE insert_session(r)
      BY <2>7, InsertEffect
    <2>8. CASE ReaderStep(r)
      BY <2>8, RecvEffect, StopEffect DEF ReaderStep, evictions
    <2>. QED
      BY <2>1, <2>2, <2>3, <2>4, <2>5, <2>6, <2>7, <2>8 DEF RequestStep, EvictStep
  <1>3. /\ \A q \in Request : doomed[q] \subseteq Request
        /\ \A q \in Request : \A d \in terminal[q] : d[1] \in Request
        /\ \A k \in Stored : /\ Answered(k) /\ k \in Request
                             /\ sessions[k].started_at \in Nat
                             /\ sessions[k].status \in {"Running", "Complete", "Failed"}
    BY DEF SessionTypes, Ordered, Stored, SessionRecord
  <1>4. /\ \A q \in Request : \A k \in doomed[q] : Answered(k)
        /\ \A q \in Request : \A d \in terminal[q] : Answered(d[1])
    BY DEF Named
  <1>5. ASSUME NEW q \in Request, NEW k \in doomed'[q],
               k \in Stored', sessions'[k].status = "Running"
        PROVE  running_ttl' # 0 /\ Age(k, time)' >= running_ttl'
    <2>1. k \in Request /\ Answered(k)
      BY <1>2, <1>3, <1>4
    <2>2. /\ k \in Stored /\ sessions'[k].started_at = sessions[k].started_at
          /\ sessions[k].status = "Running"
      BY <1>1, <1>3, <1>5, <2>1
    <2>3. ~Terminal(k)
      BY <2>2 DEF Terminal
    <2>4. DoomedStands(k) \/ Expired(k, now[q])
      BY <1>0, <1>2, <2>2, <2>3
    <2>5. running_ttl # 0 /\ Age(k, time) >= running_ttl
      <3>1. running_ttl \in Nat /\ sessions[k].started_at \in Nat
        BY <1>3, <2>2 DEF SessionTypes
      <3>2. CASE Expired(k, now[q])
        BY <1>0, <2>3, <3>1, <3>2 DEF Expired, Age
      <3>. QED BY <2>2, <2>4, <3>2
    <2>. QED BY <1>0, <2>2, <2>5 DEF Age
  <1>6. ASSUME NEW q \in Request, NEW d \in terminal'[q], d[1] \in Stored'
        PROVE  Terminal(d[1])' /\ d[2] = sessions'[d[1]].started_at
    <2>1. d[1] \in Request /\ Answered(d[1])
      BY <1>2, <1>3, <1>4
    <2>2. /\ d[1] \in Stored
          /\ sessions'[d[1]].started_at = sessions[d[1]].started_at
          /\ sessions'[d[1]].status \in {sessions[d[1]].status, "Complete", "Failed"}
      BY <1>1, <1>6, <2>1
    <2>3. Terminal(d[1]) /\ d[2] = sessions[d[1]].started_at
      BY <1>0, <1>2, <2>2
    <2>. QED BY <2>2, <2>3 DEF Terminal
  <1>7. \A q \in Request : now'[q] <= time'
    BY <1>0, <1>2
  <1>. QED BY <1>5, <1>6, <1>7 DEF SeenStands

\* As many sessions go as the cap asks for, or all candidates: then too few
\* stay to reach the cap, or no candidate stays.
LEMMA RoomIsMade ==
    ASSUME IsFiniteSet(Stored), MaxSessions \in Nat \ {0}, NEW r \in Request,
           \A d \in terminal[r] : d[1] \in Stored /\ d = <<d[1], sessions[d[1]].started_at>>,
           Cardinality(Stored) >= MaxSessions,
           NEW D \in Oldest(r, overflow)
    PROVE  \/ Cardinality(Stored \ D) < MaxSessions
           \/ \A d \in terminal[r] : d[1] \in D
  <1>1. PICK C \in SUBSET terminal[r] :
            /\ D = {d[1] : d \in C}
            /\ Cardinality(C) = overflow \/ C = terminal[r]
    BY DEF Oldest
  <1>2. CASE C = terminal[r]
    BY <1>1, <1>2
  <1>3. CASE Cardinality(C) = overflow
    <2>1. D \subseteq Stored /\ IsFiniteSet(D) /\ Cardinality(D) \in Nat
      <3>1. D \in SUBSET Stored
        BY <1>1
      <3>2. IsFiniteSet(D)
        BY <3>1, FS_Subset
      <3>. QED BY <3>1, <3>2, FS_CardinalityType
    <2> DEFINE row == [k \in D |-> <<k, sessions[k].started_at>>]
    <2>2. row \in Bijection(D, C)
      <3>1. \A d \in C : d[1] \in D /\ d = row[d[1]]
        BY <1>1
      <3>2. \A k \in D : row[k] \in C
        <4> TAKE k \in D
        <4>1. PICK d \in C : k = d[1]
          BY <1>1
        <4>. QED BY <3>1, <4>1
      <3>3. \A k, j \in D : row[k] = row[j] => k = j
        OBVIOUS
      <3>4. row \in [D -> C]
        BY <3>2
      <3> HIDE DEF row
      <3>. QED BY <3>1, <3>3, <3>4, Fun_IsBij
    <2>3. Cardinality(C) = Cardinality(D)
      <3>1. ExistsBijection(D, C)
        BY <2>2 DEF ExistsBijection
      <3>. QED BY <2>1, <3>1, FS_Bijection
    <2>4. /\ Cardinality(Stored \ D) = Cardinality(Stored) - Cardinality(Stored \cap D)
          /\ Cardinality(Stored) \in Nat
      BY FS_Difference, FS_CardinalityType
    <2>5. Stored \cap D = D
      BY <2>1
    <2>6. Cardinality(Stored \ D) = Cardinality(Stored) - Cardinality(D)
      BY <2>4, <2>5
    <2>. QED BY <1>3, <2>1, <2>3, <2>4, <2>6 DEF overflow
  <1>. QED BY <1>1, <1>2, <1>3

\* The stored sessions stay finitely many.
LEMMA StoredStaysFinite ==
    ASSUME SessionTypes, IsFiniteSet(Stored), NEW r \in Request, RequestStep(r)
    PROVE  IsFiniteSet(Stored')
  <1>1. CASE insert_session(r)
    BY <1>1, InsertEffect, FS_AddElement
  <1>2. ASSUME NEW k \in Request, abort_and_remove(r, k) PROVE IsFiniteSet(Stored')
    BY <1>2, RemoveEffect, FS_RemoveElement
  <1>3. CASE \/ run(r) \/ acquire(r) \/ disconnect(r) \/ CrawlStep(r) \/ ReaderStep(r)
             \/ (\E k \in Request : visit(r, k)) \/ iterated(r) \/ enforce_cap(r)
             \/ (\E observed \in BOOLEAN : channel_send_page(r, observed))
    <2>1. Stored' = Stored
      <3>1. CASE ReaderStep(r)
        BY <3>1, RecvEffect, StopEffect DEF ReaderStep, Stored
      <3>2. UNCHANGED sessions => Stored' = Stored
        BY DEF Stored
      <3>. QED
        BY <1>3, <3>1, <3>2, StartEffect, EndEffect
        DEF disconnect, visit, iterated, enforce_cap, channel_send_page
    <2>. QED BY <2>1
  <1>. QED BY <1>1, <1>2, <1>3 DEF RequestStep, EvictStep

\* A step that changes nothing an eviction looks at.
LEMMA ExhaustiveKept ==
    ASSUME NEW q \in Request, Exhaustive(q),
           Evicting' = Evicting, handler'[q] = handler[q], Stored' = Stored,
           todo'[q] = todo[q], doomed'[q] = doomed[q], terminal'[q] = terminal[q],
           \A k \in Stored : /\ sessions'[k].status = sessions[k].status
                             /\ sessions'[k].started_at = sessions[k].started_at
    PROVE  Exhaustive(q)'
  <1>1. \A k \in Stored : /\ sessions'[k].started_at = sessions[k].started_at
                          /\ sessions'[k].status \in {"Complete", "Failed"} <=> Terminal(k)
    BY DEF Terminal
  <1>2. Cardinality(Stored \ doomed[q])' = Cardinality(Stored \ doomed[q])
    OBVIOUS
  <1>. QED BY <1>1, <1>2 DEF Exhaustive, Terminal

\* The steps of an eviction that met no other change.
LEMMA EvictionStep ==
    ASSUME SessionTypes, Ordered, SeenStands, IsFiniteSet(Stored),
           NEW r \in Request, EvictStep(r)
    PROVE  /\ r \in Evicting /\ Evicting' \subseteq Evicting /\ crowded' = crowded
           /\ r \notin crowded /\ Exhaustive(r) /\ r \in Evicting' => Exhaustive(r)'
  <1>0. /\ todo[r] \subseteq Request /\ doomed[r] \subseteq Request
        /\ \A d \in terminal[r] : d = <<d[1], d[2]>>
        /\ \A d \in terminal[r] : d[1] \in Stored => d[2] = sessions[d[1]].started_at
        /\ Stored \subseteq Request
    BY DEF SessionTypes, SeenStands, Stored
  <1>1. /\ r \in Evicting /\ Evicting' \subseteq Evicting /\ crowded' = crowded
    BY SessionDomains
    DEF EvictStep, visit, abort_and_remove, iterated, enforce_cap, insert_session, Go,
        Evicting
  <1>2. ASSUME r \notin crowded, Exhaustive(r), r \in Evicting'
        PROVE  Exhaustive(r)'
    <2>0. \A q \in Evicting' : q = r
      BY <1>1, <1>2 DEF Exhaustive
    <2>1. ASSUME NEW k \in Request, visit(r, k) PROVE Exhaustive(r)'
      <3>1. /\ handler[r] = "iter" /\ k \in todo[r] /\ UNCHANGED <<handler, sessions>>
            /\ todo'[r] = todo[r] \ {k}
            /\ doomed'[r] = IF k \in Stored /\ Expired(k, now[r])
                            THEN doomed[r] \cup {k} ELSE doomed[r]
            /\ terminal'[r] = IF k \in Stored /\ Candidate(k, now[r])
                              THEN terminal[r] \cup {<<k, sessions[k].started_at>>}
                              ELSE terminal[r]
        BY <2>1, SessionDomains DEF visit
      <3>2. Stored' = Stored /\ \A i : Terminal(i)' <=> Terminal(i)
        BY <3>1 DEF Stored, Terminal
      <3>3. /\ todo[r] \cap doomed[r] = {}
            /\ \A d \in terminal[r] : d[1] \in Stored /\ d[1] \notin todo[r] \cup doomed[r]
            /\ \A i \in Stored : Terminal(i) =>
                  i \in todo[r] \cup doomed[r] \/ <<i, sessions[i].started_at>> \in terminal[r]
        BY <1>2, <3>1 DEF Exhaustive
      <3>4. todo'[r] \cap doomed'[r] = {}
        BY <3>1, <3>3
      <3>5. \A d \in terminal'[r] : d[1] \in Stored /\ d[1] \notin todo'[r] \cup doomed'[r]
        BY <3>1, <3>3 DEF Candidate
      <3>6. \A i \in Stored : Terminal(i) =>
               i \in todo'[r] \cup doomed'[r] \/ <<i, sessions[i].started_at>> \in terminal'[r]
        BY <3>1, <3>3 DEF Candidate
      <3>. QED BY <2>0, <3>1, <3>2, <3>4, <3>5, <3>6 DEF Exhaustive
    <2>2. ASSUME NEW k \in Request, abort_and_remove(r, k) PROVE Exhaustive(r)'
      <3>1. /\ handler[r] \in {"expire", "cap"} /\ k \in doomed[r]
            /\ UNCHANGED <<handler, todo, terminal>>
            /\ doomed'[r] = doomed[r] \ {k} /\ Stored' = Stored \ {k}
            /\ \A i \in Request \ {k} : sessions'[i] = sessions[i]
        BY <2>2, RemoveEffect, SessionDomains
      <3>2. \A i \in Stored' : Terminal(i)' <=> Terminal(i)
        BY <1>0, <3>1 DEF Terminal
      <3>3. CASE handler[r] = "expire"
        <4>1. /\ todo[r] \cap doomed[r] = {}
              /\ \A d \in terminal[r] : d[1] \in Stored /\ d[1] \notin todo[r] \cup doomed[r]
              /\ \A i \in Stored : Terminal(i) => i \in todo[r] \cup doomed[r] \/
                                          <<i, sessions[i].started_at>> \in terminal[r]
          BY <1>2, <3>3 DEF Exhaustive
        <4>2. \A i \in Stored' : Terminal(i)' => i \in todo'[r] \cup doomed'[r] \/
                                          <<i, sessions'[i].started_at>> \in terminal'[r]
          BY <1>0, <3>1, <3>2, <4>1
        <4>3. /\ todo'[r] \cap doomed'[r] = {}
              /\ \A d \in terminal'[r] :
                    d[1] \in Stored' /\ d[1] \notin todo'[r] \cup doomed'[r]
          BY <3>1, <4>1
        <4>. QED BY <2>0, <3>1, <3>3, <4>2, <4>3 DEF Exhaustive
      <3>4. CASE handler[r] = "cap"
        <4>1. Stored' \ doomed'[r] = Stored \ doomed[r]
          BY <3>1
        <4>2. \/ Cardinality(Stored \ doomed[r]) < MaxSessions
              \/ \A i \in Stored : Terminal(i) => i \in doomed[r]
          BY <1>2, <3>4 DEF Exhaustive
        <4>3. \/ Cardinality(Stored' \ doomed'[r]) < MaxSessions
              \/ \A i \in Stored' : Terminal(i)' => i \in doomed'[r]
          BY <3>1, <3>2, <4>1, <4>2
        <4>. QED BY <2>0, <3>1, <3>4, <4>3 DEF Exhaustive
      <3>. QED BY <3>1, <3>3, <3>4
    <2>3. CASE iterated(r)
      <3>1. /\ handler[r] = "iter" /\ UNCHANGED <<sessions, todo, terminal, doomed>>
            /\ handler'[r] = "expire"
        BY <2>3, SessionDomains DEF iterated, Go
      <3>2. Stored' = Stored /\ \A i : Terminal(i)' <=> Terminal(i)
        BY <3>1 DEF Stored, Terminal
      <3>. QED BY <1>2, <2>0, <3>1, <3>2 DEF Exhaustive
    <2>4. CASE enforce_cap(r)
      <3>1. /\ handler[r] = "expire" /\ doomed[r] = {} /\ UNCHANGED sessions
            /\ handler'[r] = "cap" /\ todo[r] = {}
        BY <2>4, CapEffect, SessionDomains DEF Ordered
      <3>2. Stored' = Stored /\ \A i : Terminal(i)' <=> Terminal(i)
        BY <3>1 DEF Stored, Terminal
      <3>3. /\ \A d \in terminal[r] : d[1] \in Stored
            /\ \A i \in Stored : Terminal(i) => <<i, sessions[i].started_at>> \in terminal[r]
        BY <1>2, <3>1 DEF Exhaustive
      <3>4. \/ Cardinality(Stored \ doomed'[r]) < MaxSessions
            \/ \A i \in Stored : Terminal(i) => i \in doomed'[r]
        <4>1. CASE Cardinality(Stored) >= MaxSessions
          <5>1. PICK D \in Oldest(r, overflow) : doomed' = [doomed EXCEPT ![r] = D]
            BY <2>4, <4>1 DEF enforce_cap
          <5>2. doomed'[r] = D
            BY <5>1, SessionDomains
          <5>3. \A d \in terminal[r] :
                   d[1] \in Stored /\ d = <<d[1], sessions[d[1]].started_at>>
            BY <1>0, <3>3
          <5>4. MaxSessions \in Nat \ {0}
            BY SessionsAssumption
          <5>5. \/ Cardinality(Stored \ D) < MaxSessions
                \/ \A d \in terminal[r] : d[1] \in D
            BY <4>1, <5>3, <5>4, RoomIsMade
          <5>. QED BY <3>3, <5>2, <5>5
        <4>2. CASE ~(Cardinality(Stored) >= MaxSessions)
          <5>1. Stored \ doomed'[r] = Stored
            BY <2>4, <3>1, <4>2 DEF enforce_cap
          <5>2. Cardinality(Stored) \in Nat /\ MaxSessions \in Nat
            BY FS_CardinalityType, SessionsAssumption
          <5>. QED BY <4>2, <5>1, <5>2
        <4>. QED BY <4>1, <4>2
      <3>. QED BY <2>0, <3>1, <3>2, <3>4 DEF Exhaustive
    <2>5. CASE insert_session(r)
      BY <1>2, <2>5, InsertEffect, SessionDomains DEF Evicting
    <2>. QED BY <2>1, <2>2, <2>3, <2>4, <2>5 DEF EvictStep
  <1>. QED BY <1>1, <1>2

\* An eviction that met no other change is exhaustive.
LEMMA UndisturbedStep ==
    ASSUME SessionTypes, Ordered, SeenStands, Undisturbed, NEW r \in Request,
           RequestStep(r)
    PROVE  Undisturbed'
  <1>0. /\ IsFiniteSet(Stored) /\ \A q \in Evicting \ crowded : Exhaustive(q)
        /\ Evicting \subseteq Request
    BY DEF Undisturbed, Evicting
  <1>1. IsFiniteSet(Stored')
    BY <1>0, StoredStaysFinite
  <1> DEFINE Holds == \A q \in Evicting' \ crowded' : Exhaustive(q)'
  <1>2. ASSUME crowded' = crowded, Evicting' = Evicting, Stored' = Stored,
               \A q \in Evicting : /\ handler'[q] = handler[q] /\ todo'[q] = todo[q]
                                   /\ doomed'[q] = doomed[q] /\ terminal'[q] = terminal[q],
               \A k \in Stored : /\ sessions'[k].status = sessions[k].status
                                 /\ sessions'[k].started_at = sessions[k].started_at
        PROVE  Holds
    <2>1. ASSUME NEW q \in Request, q \in Evicting \ crowded PROVE Exhaustive(q)'
      BY <1>0, <1>2, <2>1, ExhaustiveKept
    <2>. QED BY <1>0, <1>2, <2>1
  <1>3. ASSUME run(r) \/ acquire(r) PROVE Holds
    <2>1. Stored' = Stored /\ sessions' = sessions /\ r \notin Evicting
      BY <1>3, StartEffect DEF Stored, Evicting
    <2>2. CASE /\ handler'[r] # "iter" /\ crowded' = crowded
      <3>1. Evicting' = Evicting
        BY <1>3, <2>1, <2>2, StartEffect, SessionDomains DEF Evicting
      <3>2. \A q \in Evicting : /\ handler'[q] = handler[q] /\ todo'[q] = todo[q]
                                /\ doomed'[q] = doomed[q] /\ terminal'[q] = terminal[q]
        BY <1>0, <1>3, <2>1, StartEffect, SessionDomains
      <3>. QED BY <1>2, <2>1, <2>2, <3>1, <3>2
    <2>3. CASE /\ handler' = [handler EXCEPT ![r] = "iter"]
               /\ todo' = [todo EXCEPT ![r] = Stored]
               /\ crowded' = IF Evicting = {} THEN crowded
                             ELSE crowded \cup Evicting \cup {r}
      <3>1. Evicting' = Evicting \cup {r}
        BY <2>3, SessionDomains DEF Evicting
      <3>2. CASE Evicting = {}
        <4>1. doomed'[r] = {} /\ terminal'[r] = {} /\ todo'[r] = Stored'
          BY <1>3, <2>1, <2>3, StartEffect, SessionDomains DEF Ordered
        <4>2. handler'[r] = "iter" /\ \A q \in Evicting' : q = r
          BY <2>3, <3>1, <3>2, SessionDomains
        <4>3. Exhaustive(r)'
          BY <4>1, <4>2 DEF Exhaustive
        <4>. QED BY <4>2, <4>3
      <3>3. CASE Evicting # {}
        BY <2>3, <3>1, <3>3
      <3>. QED BY <3>2, <3>3
    <2>4. \/ handler'[r] # "iter" /\ crowded' = crowded
          \/ /\ handler' = [handler EXCEPT ![r] = "iter"]
             /\ todo' = [todo EXCEPT ![r] = Stored]
             /\ crowded' = IF Evicting = {} THEN crowded
                           ELSE crowded \cup Evicting \cup {r}
      BY <1>3, StartEffect, SessionDomains
    <2>. QED BY <2>2, <2>3, <2>4
  <1>4. ASSUME EvictStep(r) PROVE Holds
    <2>1. ASSUME NEW q \in Evicting' \ crowded' PROVE Exhaustive(q)'
      <3>1. q \in Evicting \ crowded /\ r \in Evicting
        BY <1>0, <1>4, <2>1, EvictionStep
      <3>2. Exhaustive(q) /\ q = r
        BY <1>0, <3>1 DEF Exhaustive
      <3>. QED BY <1>0, <1>4, <2>1, <3>1, <3>2, EvictionStep
    <2>. QED BY <2>1
  <1>5. ASSUME \/ disconnect(r) \/ CrawlStep(r)
               \/ \E observed \in BOOLEAN : channel_send_page(r, observed)
        PROVE  Holds
    <2>1. /\ UNCHANGED <<sessions, evictions, crowded>>
          /\ Evicting' = Evicting /\ \A q \in Evicting : handler'[q] = handler[q]
      <3>1. CASE disconnect(r)
        BY <3>1, SessionDomains DEF disconnect, Go, Evicting
      <3>2. CASE CrawlStep(r) \/ \E observed \in BOOLEAN : channel_send_page(r, observed)
        BY <3>2, EndEffect DEF channel_send_page, Evicting
      <3>. QED BY <1>5, <3>1, <3>2
    <2>2. Stored' = Stored
      BY <2>1 DEF Stored
    <2>. QED BY <1>2, <2>1, <2>2 DEF evictions
  <1>6. ASSUME recv_page(r) PROVE Holds
    <2>1. /\ Stored' = Stored /\ UNCHANGED <<handler, todo, terminal, doomed, crowded>>
          /\ \A k \in Stored : /\ sessions'[k].status = sessions[k].status
                               /\ sessions'[k].started_at = sessions[k].started_at
      BY <1>6, RecvEffect DEF evictions
    <2>2. Evicting' = Evicting
      BY <2>1 DEF Evicting
    <2>. QED BY <1>2, <2>1, <2>2
  <1>7. ASSUME screenshot_content_or_error(r) \/ drained(r) \/ joined(r) PROVE Holds
    <2>1. UNCHANGED <<todo, terminal, doomed>> /\ r \notin Evicting
      BY <1>7, StopEffect DEF evictions, Ordered, Evicting
    <2>2. CASE UNCHANGED <<sessions, crowded>> /\
               (handler' = handler \/ \E answer \in {"success", "refused"} :
                                         handler' = [handler EXCEPT ![r] = answer])
      <3>1. Evicting' = Evicting /\ \A q \in Evicting : handler'[q] = handler[q]
        BY <2>1, <2>2, SessionDomains DEF Evicting
      <3>2. Stored' = Stored
        BY <2>2 DEF Stored
      <3>. QED BY <1>2, <2>1, <2>2, <3>1, <3>2
    <2>3. CASE UNCHANGED handler /\ crowded' = crowded \cup Evicting
      BY <2>3 DEF Evicting
    <2>4. \/ /\ UNCHANGED <<sessions, crowded>>
             /\ \/ handler' = handler
                \/ \E answer \in {"success", "refused"} :
                      handler' = [handler EXCEPT ![r] = answer]
          \/ UNCHANGED handler /\ crowded' = crowded \cup Evicting
      BY <1>7, StopEffect
    <2>. QED BY <2>2, <2>3, <2>4
  <1>8. Holds
    BY <1>3, <1>4, <1>5, <1>6, <1>7 DEF RequestStep, ReaderStep
  <1>. QED BY <1>1, <1>8 DEF Undisturbed

\* The clock, and a step that changes nothing.
LEMMA ClockStep ==
    ASSUME SessionsInv, tick \/ UNCHANGED sessionVars
    PROVE  SessionsInv'
  <1>0. SessionTypes /\ SeenStands
    BY DEF SessionsInv
  <1>1. /\ UNCHANGED <<asked, handler, crawls, readers, sessions, evictions, crowded>>
        /\ time' \in Nat /\ time' >= time /\ time \in Nat
    BY <1>0 DEF tick, sessionVars, SessionTypes
  <1>2. Stored' = Stored
    BY <1>1 DEF Stored
  <1>3. SessionTypes'
    BY <1>0, <1>1 DEF SessionTypes, asked, crawls, readers, evictions
  <1>4. Ordered' /\ Named' /\ Counted' /\ Earned' /\ Within'
    BY <1>1, <1>2
    DEF SessionsInv, Ordered, Named, Counted, Earned, Within, Answered, Background, Over,
        asked, crawls, readers, evictions
  <1>5. SeenStands'
    <2>1. ASSUME NEW q \in Request, NEW k \in doomed[q], k \in Stored,
                 sessions[k].status = "Running"
          PROVE  running_ttl # 0 /\ Age(k, time)' >= running_ttl
      <3>1. running_ttl # 0 /\ Age(k, time) >= running_ttl /\ running_ttl \in Nat
        BY <1>0, <2>1 DEF SeenStands, SessionTypes
      <3>2. sessions[k].started_at \in Nat
        BY <1>0, <2>1 DEF SessionTypes, Stored, SessionRecord
      <3>. QED BY <1>1, <3>1, <3>2 DEF Age
    <2>2. \A q \in Request : now[q] <= time' /\ now[q] \in Nat
      BY <1>0, <1>1 DEF SeenStands, SessionTypes
    <2>. QED
      BY <1>0, <1>1, <1>2, <2>1, <2>2 DEF SeenStands, Terminal, asked, evictions
  <1>6. Undisturbed'
    <2>1. \A q : Exhaustive(q) => Exhaustive(q)'
      BY <1>1, <1>2 DEF Exhaustive, Terminal, evictions, Evicting
    <2>. QED BY <1>1, <1>2, <2>1 DEF SessionsInv, Undisturbed, Evicting
  <1>. QED BY <1>3, <1>4, <1>5, <1>6 DEF SessionsInv

\* The invariant of the crawl sessions, for any requests, plans and limits.
THEOREM SessionsInvariant == SessionsSpec => []SessionsInv
  <1>1. SessionsInit => SessionsInv
    <2> SUFFICES ASSUME SessionsInit PROVE SessionsInv
      OBVIOUS
    <2>1. running_ttl \in Nat
      BY SessionsAssumption DEF SessionsInit
    <2>2. Stored = {} /\ Evicting = {}
      BY DEF SessionsInit, Stored, Evicting
    <2>3. SessionTypes
      BY <2>1 DEF SessionsInit, SessionTypes
    <2>4. Within
      <3>1. PICK plan \in Plans : params = plan.params
        BY DEF SessionsInit
      <3>2. \A r \in DOMAIN params : params[r] \in Params
        BY <3>1, SessionsAssumption
      <3>3. \A r \in Request : Len(sent[r]) = 0
        BY DEF SessionsInit
      <3>. QED BY <3>2, <3>3 DEF SessionsInit, Within
    <2>. QED
      BY <2>2, <2>3, <2>4, FS_EmptySet
      DEF SessionsInit, SessionsInv, Ordered, Named, Counted, Earned, SeenStands,
          Undisturbed
  <1>2. SessionsInv /\ [SessionsNext]_sessionVars => SessionsInv'
    <2>1. ASSUME SessionsInv, NEW r \in Request, RequestStep(r) PROVE SessionsInv'
      BY <2>1, SessionTypesStep, OrderedStep, NamedStep, CountedStep, EarnedStep,
         WithinStep, SeenStep, UndisturbedStep DEF SessionsInv
    <2>. QED BY <2>1, ClockStep DEF SessionsNext, RequestStep
  <1>. QED BY <1>1, <1>2, PTL DEF SessionsSpec

\* A complete session and an inline answer stand on an observed response; and
\* unless its reader fell behind, which an inline one with a limit never does,
\* the crawl is over and was read to its end.
THEOREM SuccessEarned == SessionsSpec => []SuccessIsEarned
  <1>1. SessionsInv => SuccessIsEarned
    BY InlineFits DEF SessionsInv, Earned, Counted, Ordered, SuccessIsEarned
  <1>. QED BY <1>1, SessionsInvariant, PTL

\* An eviction that met no other change makes room below the cap, or leaves
\* running sessions only.
THEOREM RoomMade == SessionsSpec => []EvictionMakesRoom
  <1>1. SessionsInv => EvictionMakesRoom
    <2> SUFFICES ASSUME SessionsInv, NEW r \in Request, handler[r] = "cap",
                        doomed[r] = {}, r \notin crowded
                 PROVE  \/ Cardinality(Stored) < MaxSessions
                        \/ \A k \in Stored : ~Terminal(k)
      BY DEF EvictionMakesRoom
    <2>1. Exhaustive(r)
      BY DEF SessionsInv, Undisturbed, Evicting
    <2>2. Stored \ doomed[r] = Stored
      OBVIOUS
    <2>. QED BY <2>1, <2>2 DEF Exhaustive
  <1>. QED BY <1>1, SessionsInvariant, PTL

\* A running session leaves the map only past the running TTL, whatever
\* evictions and readers do meanwhile.
THEOREM RunningKept == SessionsSpec => RunningIsKept
  <1> DEFINE Kept == \A k \in Stored :
               sessions[k].status = "Running" /\ sessions'[k] = NoSession =>
                   running_ttl # 0 /\ Age(k, time) >= running_ttl
  <1>1. SessionsInv /\ [SessionsNext]_sessionVars => [Kept]_sessionVars
    <2> SUFFICES ASSUME SessionsInv, SessionsNext, NEW k \in Stored,
                        sessions[k].status = "Running", sessions'[k] = NoSession
                 PROVE  running_ttl # 0 /\ Age(k, time) >= running_ttl
      BY DEF sessionVars
    <2>0. /\ SessionTypes /\ SeenStands
          /\ k \in Request /\ k \notin Stored' /\ sessions' # sessions
      BY DEF SessionsInv, Stored
    <2>1. PICK r \in Request : RequestStep(r)
      BY <2>0 DEF SessionsNext, RequestStep, tick
    <2>2. CASE \E i \in Request : abort_and_remove(r, i)
      BY <2>0, <2>2, RemoveEffect DEF SeenStands
    <2>3. CASE insert_session(r)
      BY <2>0, <2>3, InsertEffect
    <2>4. CASE ReaderStep(r)
      BY <2>0, <2>4, RecvEffect, StopEffect DEF ReaderStep, Stored
    <2>5. CASE \/ run(r) \/ acquire(r) \/ disconnect(r) \/ CrawlStep(r)
               \/ (\E i \in Request : visit(r, i)) \/ iterated(r) \/ enforce_cap(r)
               \/ (\E observed \in BOOLEAN : channel_send_page(r, observed))
      BY <2>0, <2>5, StartEffect, EndEffect
      DEF disconnect, visit, iterated, enforce_cap, channel_send_page
    <2>. QED BY <2>1, <2>2, <2>3, <2>4, <2>5 DEF RequestStep, EvictStep
  <1>. QED BY <1>1, SessionsInvariant, PTL DEF SessionsSpec, RunningIsKept
=============================================================================
