------------------------------ MODULE Coalesce ------------------------------
(***************************************************************************)
(* RequestCoalescer (spider/src/utils/coalesce.rs): concurrent calls for   *)
(* one URL are to share one fetch.  The first call inserts an entry and    *)
(* holds a guard, later ones subscribe to the entry's channel and wait.    *)
(*                                                                         *)
(* Each operation on the DashMap is one step; try_start is up to three of  *)
(* them, and other calls run in between.  An entry is named by the call    *)
(* that inserted it.  A broadcast channel wakes its receivers when it      *)
(* sends, and also, with an error, when its sender is dropped.             *)
(***************************************************************************)
EXTENDS FiniteSets

CONSTANTS
    Call,       \* the calls of try_start
    Url,
    url,        \* the URL of each call
    NoCall

ASSUME CallAssumption ==
    /\ url \in [Call -> Url]
    /\ NoCall \notin Call

VARIABLES
    in_flight,  \* the entry of each URL, by the call that inserted it
    stale,      \* entries older than STALE_TIMEOUT_SECS
    step,       \* where each call is
    waits_on,   \* the entry each call subscribed to
    disturbed   \* auxiliary: URLs where an entry aged or was replaced

coalesceVars == <<in_flight, stale, step, waits_on, disturbed>>

CoalesceInit ==
    /\ in_flight = [u \in Url |-> NoCall]
    /\ stale = {}
    /\ step = [c \in Call |-> "start"]
    /\ waits_on = [c \in Call |-> NoCall]
    /\ disturbed = {}

----------------------------------------------------------------------------
\* Who waits on the entry of e; nobody waits on no entry.
Waiters(e) == {c \in Call : step[c] = "wait" /\ waits_on[c] = e}

\* The entry of u leaves the map and its waiters wake: told that the fetch is
\* complete ("told"), or by an error because the sender is gone ("closed").
\* The call c moves on to next.
Leaves(u, wake, c, next) ==
    step' = [d \in Call |->
                IF d = c THEN next
                ELSE IF d \in Waiters(in_flight[u]) THEN wake ELSE step[d]]

\* Plausible bug: a fresh entry is not respected.
get_takes_over(c) ==
    /\ step[c] = "start"
    /\ step' = [step EXCEPT ![c] = IF in_flight[url[c]] = NoCall
                                   THEN "insert" ELSE "remove"]
    /\ UNCHANGED <<in_flight, stale, waits_on, disturbed>>

\* try_start, the lookup: subscribe to a fresh entry, under the shard lock.
get(c) ==
    /\ step[c] = "start"
    /\ LET e == in_flight[url[c]] IN
       IF e = NoCall
       THEN step' = [step EXCEPT ![c] = "insert"] /\ UNCHANGED waits_on
       ELSE IF e \in stale
       THEN step' = [step EXCEPT ![c] = "remove"] /\ UNCHANGED waits_on
       ELSE /\ step' = [step EXCEPT ![c] = "wait"]
            /\ waits_on' = [waits_on EXCEPT ![c] = e]
    /\ UNCHANGED <<in_flight, stale, disturbed>>

\* try_start removes the entry it saw stale, or whatever is there by now.
remove(c) ==
    /\ step[c] = "remove"
    /\ Leaves(url[c], "closed", c, "insert")
    /\ in_flight' = [in_flight EXCEPT ![url[c]] = NoCall]
    /\ UNCHANGED <<stale, waits_on, disturbed>>

\* try_start inserts its entry, over one that another call inserted since.
insert(c) ==
    /\ step[c] = "insert"
    /\ Leaves(url[c], "closed", c, "fetch")
    /\ in_flight' = [in_flight EXCEPT ![url[c]] = c]
    /\ disturbed' = IF in_flight[url[c]] = NoCall THEN disturbed
                    ELSE disturbed \cup {url[c]}
    /\ UNCHANGED <<stale, waits_on>>

\* Plausible bug: the entry is removed while its sender lives on, silent.
finish_forgets_to_send(c) ==
    /\ step[c] = "fetch"
    /\ step' = [step EXCEPT ![c] = "done"]
    /\ in_flight' = [in_flight EXCEPT ![url[c]] = NoCall]
    /\ UNCHANGED <<stale, waits_on, disturbed>>

\* Plausible bug: the guard of a stale entry leaves it in the map.
finish_ignores_stale(c) ==
    /\ step[c] = "fetch"
    /\ Leaves(url[c], "told", c, "done")
    /\ in_flight' = IF c \in stale THEN in_flight
                    ELSE [in_flight EXCEPT ![url[c]] = NoCall]
    /\ UNCHANGED <<stale, waits_on, disturbed>>

\* CoalesceGuard::finish, by complete or by Drop after an error or a panic:
\* the entry of the URL is removed, whoever inserted it, and its waiters are
\* told.
finish(c) ==
    /\ step[c] = "fetch"
    /\ Leaves(url[c], "told", c, "done")
    /\ in_flight' = [in_flight EXCEPT ![url[c]] = NoCall]
    /\ UNCHANGED <<stale, waits_on, disturbed>>

\* purge_stale drops the entries that are too old, one after the other.
purge_stale(u) ==
    /\ in_flight[u] \in stale
    /\ Leaves(u, "closed", NoCall, "done")
    /\ in_flight' = [in_flight EXCEPT ![u] = NoCall]
    /\ UNCHANGED <<stale, waits_on, disturbed>>

\* STALE_TIMEOUT_SECS pass while a guard is held.
age(u) ==
    /\ in_flight[u] \in Call \ stale
    /\ stale' = stale \cup {in_flight[u]}
    /\ disturbed' = disturbed \cup {u}
    /\ UNCHANGED <<in_flight, step, waits_on>>

CoalesceNext ==
    \/ \E c \in Call : get(c) \/ remove(c) \/ insert(c) \/ finish(c)
    \/ \E u \in Url : purge_stale(u) \/ age(u)

CoalesceSpec == CoalesceInit /\ [][CoalesceNext]_coalesceVars

\* try_start does not wait, and a guard is dropped at the latest when its
\* fetch times out: some call that can go on does.
CoalesceFairness ==
    WF_coalesceVars(\E c \in Call : remove(c) \/ insert(c) \/ finish(c))

----------------------------------------------------------------------------
(* Properties.                                                             *)

CoalesceTypeOK ==
    /\ in_flight \in [Url -> Call \cup {NoCall}]
    /\ stale \subseteq Call
    /\ step \in [Call -> {"start", "remove", "insert", "fetch", "wait", "told",
                          "closed", "done"}]
    /\ waits_on \in [Call -> Call \cup {NoCall}]
    /\ disturbed \subseteq Url

\* No dangling entries: an entry in the map has a guard that is still held,
\* although guards remove entries that are not theirs, late guards included.
NoDanglingEntry ==
    \A u \in Url : in_flight[u] # NoCall =>
        step[in_flight[u]] = "fetch" /\ url[in_flight[u]] = u

\* Until an entry of a URL has gone stale, or two calls met between lookup
\* and insertion, at most one call fetches it; afterwards one late guard is
\* enough to let ever more calls fetch side by side.
OneFetchUnlessDisturbed ==
    \A c, d \in Call :
        /\ step[c] = "fetch" /\ step[d] = "fetch"
        /\ url[c] = url[d] /\ url[c] \notin disturbed
        => c = d

\* Every waiter wakes: its entry is removed by a guard, replaced or purged.
WaitersWake == \A c \in Call : (step[c] = "wait") ~> (step[c] # "wait")
=============================================================================
