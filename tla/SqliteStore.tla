---------------------------- MODULE SqliteStore ----------------------------
(***************************************************************************)
(* How domain_persistence.rs keeps the promise of DomainPersistence when   *)
(* several handles -- processes, or independently opened values of one     *)
(* process -- share one SQLite file.  A handle has one pooled connection,  *)
(* so it runs one call at a time; handles exclude each other only through  *)
(* SQLite's write lock.  Every call is split at the points where another   *)
(* handle can run or where the handle's process can die.                   *)
(*                                                                         *)
(* SQLite is modelled from how the code uses it: one write lock per file,  *)
(* taken by BEGIN IMMEDIATE, by an auto-commit INSERT and, without any     *)
(* waiting, by the conversion of a new file to WAL; a connection that dies *)
(* rolls back and lets go of the lock; readers see committed rows only.    *)
(***************************************************************************)
EXTENDS DomainPersistence

CONSTANTS
    Handle,
    NoHandle,       \* the write lock is free
    NoCall,         \* the handle is between calls
    MaxAttempts,    \* MAX_ATTEMPTS of open (5 in the code)
    MaxRevision     \* bound on the revisions callers ask for

ASSUME HandleAssumption == NoHandle \notin Handle
ASSUME NoCallAssumption ==
    NoCall \notin [id : Identity, revision : Nat, state : State]
ASSUME MaxAttemptsAssumption == MaxAttempts \in Nat \ {0}
ASSUME MaxRevisionAssumption == MaxRevision \in Nat \ {0}

VARIABLES
    wal,        \* the file has been converted to WAL journal mode
    tables,     \* both tables exist (committed)
    lock,       \* the handle holding SQLite's write lock
    pc,         \* where each handle stands in its current call
    attempt,    \* open's attempt counter
    call,       \* the arguments of the call in progress
    seen        \* the last revision each handle read of each identity

vars == <<current, history, wal, tables, lock, pc, attempt, call, seen>>

Call == [id : Identity, revision : 0 .. MaxRevision, state : State]

Init ==
    /\ StoreInit
    /\ wal = FALSE /\ tables = FALSE /\ lock = NoHandle
    /\ pc = [h \in Handle |-> "closed"]
    /\ attempt = [h \in Handle |-> 0]
    /\ call = [h \in Handle |-> NoCall]
    /\ seen = [h \in Handle |-> [id \in Identity |-> 0]]

Goto(h, label) == pc' = [pc EXCEPT ![h] = label]

\* The handle gives the lock back if it has it (commit, rollback, death).
Release(h) == lock' = IF lock = h THEN NoHandle ELSE lock

LockHeldByOther(h) == lock \notin {h, NoHandle}

----------------------------------------------------------------------------
(***************************************************************************)
(* open: connect, convert a new file to WAL, create both tables under      *)
(* BEGIN IMMEDIATE.  SQLITE_BUSY is retried while attempts remain.         *)
(***************************************************************************)
open(h) ==
    /\ pc[h] = "closed"
    /\ Goto(h, "connect") /\ attempt' = [attempt EXCEPT ![h] = 1]
    /\ UNCHANGED <<store, wal, tables, lock, call, seen>>

\* Plausible bug: a file that is in WAL mode already is taken as complete.
connect_trusts_wal(h) ==
    /\ pc[h] = "connect"
    /\ \/ wal /\ Goto(h, "ready") /\ UNCHANGED lock
       \/ ~wal /\ lock = NoHandle /\ Goto(h, "convert") /\ lock' = h
    /\ UNCHANGED <<store, wal, tables, attempt, call, seen>>

\* The one-time conversion needs the lock at once; busy_timeout does not help.
connect(h) ==
    /\ pc[h] = "connect"
    /\ \/ wal /\ Goto(h, "create_begin") /\ UNCHANGED lock
       \/ ~wal /\ lock = NoHandle /\ Goto(h, "convert") /\ lock' = h
    /\ UNCHANGED <<store, wal, tables, attempt, call, seen>>

convert_to_wal(h) ==
    /\ pc[h] = "convert"
    /\ wal' = TRUE /\ Release(h) /\ Goto(h, "create_begin")
    /\ UNCHANGED <<store, tables, attempt, call, seen>>

create_begin(h) ==
    /\ pc[h] = "create_begin" /\ lock = NoHandle
    /\ lock' = h /\ Goto(h, "create_commit")
    /\ UNCHANGED <<store, wal, tables, attempt, call, seen>>

create_commit(h) ==
    /\ pc[h] = "create_commit"
    /\ tables' = TRUE /\ Release(h) /\ Goto(h, "ready")
    /\ UNCHANGED <<store, wal, attempt, call, seen>>

\* SQLITE_BUSY: at once during the conversion, after busy_timeout at BEGIN.
OpenMeetsLock(h) ==
    /\ pc[h] \in (IF wal THEN {"create_begin"} ELSE {"connect", "create_begin"})
    /\ LockHeldByOther(h)

\* Plausible bug: the attempts are not counted.
open_busy_forever(h) ==
    /\ OpenMeetsLock(h)
    /\ Goto(h, "connect")
    /\ UNCHANGED <<store, wal, tables, lock, attempt, call, seen>>

open_busy(h) ==
    /\ OpenMeetsLock(h)
    /\ IF attempt[h] < MaxAttempts
         THEN Goto(h, "connect") /\ attempt' = [attempt EXCEPT ![h] = @ + 1]
         ELSE Goto(h, "closed") /\ attempt' = [attempt EXCEPT ![h] = 0]
    /\ UNCHANGED <<store, wal, tables, lock, call, seen>>

\* Any other error ends open at once; the transaction is rolled back.
open_error(h) ==
    /\ pc[h] \in {"connect", "convert", "create_begin", "create_commit"}
    /\ Release(h) /\ Goto(h, "closed")
    /\ attempt' = [attempt EXCEPT ![h] = 0]
    /\ UNCHANGED <<store, wal, tables, call, seen>>

----------------------------------------------------------------------------
(***************************************************************************)
(* read_current: one SELECT outside any transaction, on committed rows.    *)
(***************************************************************************)
read(h) ==
    /\ pc[h] = "ready"
    /\ \E id \in Identity :
         seen' = [seen EXCEPT ![h] = [@ EXCEPT ![id] = ActualRevision(id)]]
    /\ UNCHANGED <<store, wal, tables, lock, pc, attempt, call>>

\* A caller asks for a write: a first write, or one after a read of its own.
start_write(h) ==
    /\ pc[h] = "ready"
    /\ \E c \in Call : /\ c.revision \in {0, seen[h][c.id]}
                       /\ c.revision < MaxRevision
                       /\ call' = [call EXCEPT ![h] = c]
    /\ Goto(h, "begin")
    /\ UNCHANGED <<store, wal, tables, lock, attempt, seen>>

begin_immediate(h) ==
    /\ pc[h] = "begin" /\ lock = NoHandle
    /\ lock' = h /\ Goto(h, "select")
    /\ UNCHANGED <<store, wal, tables, attempt, call, seen>>

\* Plausible bug: only the existence of a row is compared.
select_existence_only(h) ==
    /\ pc[h] = "select"
    /\ IF (ActualRevision(call[h].id) = 0) # (call[h].revision = 0)
         THEN /\ Release(h) /\ Goto(h, "ready")
              /\ call' = [call EXCEPT ![h] = NoCall]
         ELSE Goto(h, "commit") /\ UNCHANGED <<lock, call>>
    /\ UNCHANGED <<store, wal, tables, attempt, seen>>

\* The SELECT in the transaction and the comparison with expected_revision;
\* on a conflict the dropped transaction rolls back.
select_actual(h) ==
    /\ pc[h] = "select"
    /\ IF write_conflicts(call[h].id, call[h].revision)
         THEN /\ Release(h) /\ Goto(h, "ready")
              /\ call' = [call EXCEPT ![h] = NoCall]
         ELSE Goto(h, "commit") /\ UNCHANGED <<lock, call>>
    /\ UNCHANGED <<store, wal, tables, attempt, seen>>

\* UPDATE or INSERT, then COMMIT.  The row is written from the revision the
\* caller expected, not from what is stored now: the lock makes them equal.
commit(h) ==
    /\ pc[h] = "commit"
    /\ current' = [current EXCEPT
         ![call[h].id] = [revision |-> call[h].revision + 1,
                          state |-> call[h].state]]
    /\ seen' = [seen EXCEPT ![h] = [@ EXCEPT ![call[h].id] = call[h].revision + 1]]
    /\ Release(h) /\ Goto(h, "ready") /\ call' = [call EXCEPT ![h] = NoCall]
    /\ UNCHANGED <<history, wal, tables, attempt>>

----------------------------------------------------------------------------
(***************************************************************************)
(* append_history: a single INSERT that commits by itself.                 *)
(***************************************************************************)
start_append(h) ==
    /\ pc[h] = "ready"
    /\ \E c \in Call : /\ c.revision > 0
                       /\ call' = [call EXCEPT ![h] = c]
    /\ Goto(h, "insert")
    /\ UNCHANGED <<store, wal, tables, lock, attempt, seen>>

\* Plausible bug: INSERT OR REPLACE.
insert_or_replace(h) ==
    /\ pc[h] = "insert" /\ lock = NoHandle
    /\ history' = {row \in history : row.identity # call[h].id
                                     \/ row.revision # call[h].revision}
                  \cup {[identity |-> call[h].id, revision |-> call[h].revision,
                         state |-> call[h].state]}
    /\ Goto(h, "ready") /\ call' = [call EXCEPT ![h] = NoCall]
    /\ UNCHANGED <<current, wal, tables, lock, attempt, seen>>

insert_history(h) ==
    /\ pc[h] = "insert" /\ lock = NoHandle
    /\ \/ append_history(call[h].id, call[h].revision, call[h].state)
       \/ history_exists(call[h].id, call[h].revision) /\ UNCHANGED store
    /\ Goto(h, "ready") /\ call' = [call EXCEPT ![h] = NoCall]
    /\ UNCHANGED <<wal, tables, lock, attempt, seen>>

\* busy_timeout expires while another handle has the lock: a Backend error.
busy_timeout(h) ==
    /\ pc[h] \in {"begin", "insert"} /\ LockHeldByOther(h)
    /\ Goto(h, "ready") /\ call' = [call EXCEPT ![h] = NoCall]
    /\ UNCHANGED <<store, wal, tables, lock, attempt, seen>>

\* A statement or the COMMIT fails, or the caller drops the call: rollback.
backend_error(h) ==
    /\ pc[h] \in {"begin", "select", "commit", "insert"}
    /\ Release(h) /\ Goto(h, "ready") /\ call' = [call EXCEPT ![h] = NoCall]
    /\ UNCHANGED <<store, wal, tables, attempt, seen>>

\* The handle's process dies at any point; uncommitted work is rolled back.
crash(h) ==
    /\ pc[h] # "closed"
    /\ Release(h) /\ Goto(h, "closed")
    /\ attempt' = [attempt EXCEPT ![h] = 0]
    /\ call' = [call EXCEPT ![h] = NoCall]
    /\ seen' = [seen EXCEPT ![h] = [id \in Identity |-> 0]]
    /\ UNCHANGED <<store, wal, tables>>

----------------------------------------------------------------------------
OpenStep(h) == \/ connect(h) \/ convert_to_wal(h) \/ create_begin(h)
               \/ create_commit(h) \/ open_busy(h)

CallStep(h) == \/ begin_immediate(h) \/ select_actual(h) \/ commit(h)
               \/ insert_history(h) \/ busy_timeout(h)

Next == \E h \in Handle :
    \/ open(h) \/ OpenStep(h) \/ open_error(h)
    \/ read(h) \/ start_write(h) \/ start_append(h) \/ CallStep(h)
    \/ backend_error(h) \/ crash(h)

(***************************************************************************)
(* A started open or call keeps being driven by its task (or its process   *)
(* dies); nobody is obliged to start one.                                  *)
(***************************************************************************)
Fairness == \A h \in Handle : WF_vars(OpenStep(h)) /\ WF_vars(CallStep(h))

Spec == Init /\ [][Next]_vars

FairSpec == Spec /\ Fairness

----------------------------------------------------------------------------
\* Type correctness; in particular no open makes more than MaxAttempts attempts.
TypeOK ==
    /\ StoreTypeOK
    /\ wal \in BOOLEAN /\ tables \in BOOLEAN
    /\ lock \in Handle \cup {NoHandle}
    /\ pc \in [Handle -> {"closed", "connect", "convert", "create_begin",
                          "create_commit", "ready", "begin", "select",
                          "commit", "insert"}]
    /\ attempt \in [Handle -> 0 .. MaxAttempts]
    /\ call \in [Handle -> Call \cup {NoCall}]
    /\ seen \in [Handle -> [Identity -> 0 .. MaxRevision]]
    /\ \A h \in Handle : call[h] # NoCall <=>
                           pc[h] \in {"begin", "select", "commit", "insert"}
    /\ \A h \in Handle : call[h] # NoCall =>
         IF pc[h] = "insert" THEN call[h].revision > 0
                             ELSE call[h].revision < MaxRevision

\* The states in which a handle's connection has the write lock.
InTransaction(h) == pc[h] \in {"convert", "create_commit", "select", "commit"}

\* Two handles are never inside a write transaction of the file at once, and
\* the lock is held exactly by a handle that is (no lock survives a rollback,
\* an early return on a conflict or a dead process).
LockOwnership ==
    \A h \in Handle : InTransaction(h) <=> lock = h

\* The check of write_current still holds when its UPDATE runs: nobody
\* changed the row between the SELECT and the COMMIT.
CheckedRevisionIsCurrent ==
    \A h \in Handle :
        pc[h] = "commit" => ActualRevision(call[h].id) = call[h].revision

\* A usable handle always finds both tables, however many processes raced to
\* create the file and whichever of them died on the way.
ReadyHandleHasTables ==
    \A h \in Handle :
        pc[h] \in {"ready", "begin", "select", "commit", "insert"} =>
            wal /\ tables

\* The transactions implement the atomic compare-and-swap table and the
\* append-only log.
AtomicStore == StoreSpec

\* Every operation ends: an open succeeds or reports an error after a bounded
\* number of busy attempts, and a write_current or append_history call comes
\* back also when the handle it waits for dies or keeps the lock for longer
\* than busy_timeout.
OperationsTerminate ==
    \A h \in Handle : pc[h] \in {"connect", "begin", "insert"} ~>
                          pc[h] \in {"ready", "closed"}

============================================================================
