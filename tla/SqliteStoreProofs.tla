------------------------- MODULE SqliteStoreProofs -------------------------
(***************************************************************************)
(* The transactions of domain_persistence.rs, for any number of handles,   *)
(* identities and attempts: whoever passed the check of write_current      *)
(* still has the lock when it writes, a usable handle finds its tables,    *)
(* and the file implements the atomic store of DomainPersistence.          *)
(***************************************************************************)
EXTENDS SqliteStore, TLAPS

\* The types the argument needs.
SqliteTypes ==
    /\ StoreTypeOK
    /\ lock \in Handle \cup {NoHandle}
    /\ pc \in [Handle -> {"closed", "connect", "convert", "create_begin",
                          "create_commit", "ready", "begin", "select",
                          "commit", "insert"}]
    /\ call \in [Handle -> Call \cup {NoCall}]

\* A handle inside a call knows its arguments, those of an append included.
CallIsKnown ==
    \A h \in Handle :
        /\ pc[h] \in {"begin", "select", "commit", "insert"} => call[h] \in Call
        /\ pc[h] = "insert" => call[h].revision > 0

\* Nobody gets to the creation of the tables before the file is in WAL mode,
\* and nobody gets to a call before the tables exist.
FileIsPrepared ==
    /\ \A h \in Handle : pc[h] \in {"create_begin", "create_commit"} => wal
    /\ ReadyHandleHasTables

SqliteInv ==
    /\ SqliteTypes
    /\ LockOwnership
    /\ CallIsKnown
    /\ FileIsPrepared
    /\ CheckedRevisionIsCurrent

----------------------------------------------------------------------------
\* The initial states satisfy the invariant.
LEMMA SqliteInitInv == Init => SqliteInv
  BY HandleAssumption, NoCallAssumption
  DEF Init, StoreInit, SqliteInv, SqliteTypes, StoreTypeOK, LockOwnership,
      InTransaction, CallIsKnown, FileIsPrepared, ReadyHandleHasTables,
      CheckedRevisionIsCurrent

\* The lock: taken only when it is free, given back by whoever has it.
LEMMA LockStep ==
    ASSUME SqliteInv, [Next]_vars
    PROVE  LockOwnership'
  <1>0. SqliteTypes /\ LockOwnership /\ NoHandle \notin Handle
    BY HandleAssumption DEF SqliteInv
  <1>1. ASSUME NEW h \in Handle,
               open(h) \/ OpenStep(h) \/ open_error(h)
        PROVE  LockOwnership'
    BY <1>0, <1>1
    DEF open, OpenStep, connect, convert_to_wal, create_begin, create_commit,
        open_busy, OpenMeetsLock, LockHeldByOther, open_error, Goto, Release,
        LockOwnership, InTransaction, SqliteTypes
  <1>2. ASSUME NEW h \in Handle,
               read(h) \/ start_write(h) \/ start_append(h) \/ CallStep(h)
        PROVE  LockOwnership'
    BY <1>0, <1>2
    DEF read, start_write, start_append, CallStep, begin_immediate,
        select_actual, commit, insert_history, busy_timeout, LockHeldByOther,
        Goto, Release, LockOwnership, InTransaction, SqliteTypes
  <1>3. ASSUME NEW h \in Handle, backend_error(h) \/ crash(h)
        PROVE  LockOwnership'
    BY <1>0, <1>3
    DEF backend_error, crash, Goto, Release, LockOwnership, InTransaction,
        SqliteTypes
  <1>4. CASE UNCHANGED vars
    BY <1>0, <1>4 DEF vars, LockOwnership, InTransaction
  <1>. QED BY <1>1, <1>2, <1>3, <1>4 DEF Next

\* A committed write leaves a well-formed table with one row changed.
LEMMA CommitEffect ==
    ASSUME SqliteInv, NEW h \in Handle, commit(h)
    PROVE  /\ call[h] \in Call
           /\ StoreTypeOK'
           /\ write_current(call[h].id, ActualRevision(call[h].id), call[h].state)
  <1> DEFINE id == call[h].id
             row == [revision |-> call[h].revision + 1, state |-> call[h].state]
  <1>1. call[h] \in Call /\ ActualRevision(id) = call[h].revision
    BY DEF SqliteInv, CallIsKnown, CheckedRevisionIsCurrent, commit
  <1>2. id \in Identity /\ row \in Row
    BY <1>1, MaxRevisionAssumption DEF Call, Row
  <1>3. current' = [current EXCEPT ![id] = row] /\ history' = history
    BY DEF commit
  <1>4. StoreTypeOK'
    BY <1>2, <1>3 DEF SqliteInv, SqliteTypes, StoreTypeOK
  <1>. QED
    BY <1>1, <1>3, <1>4 DEF write_current, write_conflicts

\* The INSERT of append_history adds one well-formed row, or none.
LEMMA InsertEffect ==
    ASSUME SqliteInv, NEW h \in Handle, insert_history(h)
    PROVE  /\ StoreTypeOK'
           /\ current' = current
           /\ \/ UNCHANGED store
              \/ \E row \in history' \cap HistoryRow :
                    append_history(row.identity, row.revision, row.state)
  <1> DEFINE row == [identity |-> call[h].id, revision |-> call[h].revision,
                     state |-> call[h].state]
  <1>1. call[h] \in Call /\ call[h].revision > 0
    BY DEF SqliteInv, CallIsKnown, insert_history
  <1>2. row \in HistoryRow
    BY <1>1, MaxRevisionAssumption DEF Call, HistoryRow
  <1>3. CASE UNCHANGED store
    BY <1>3 DEF store, SqliteInv, SqliteTypes, StoreTypeOK
  <1>4. CASE append_history(call[h].id, call[h].revision, call[h].state)
    <2>1. history' = history \cup {row} /\ current' = current
      BY <1>4 DEF append_history
    <2>2. row \in history' \cap HistoryRow
      BY <1>2, <2>1
    <2>3. append_history(row.identity, row.revision, row.state)
      BY <1>4
    <2>4. StoreTypeOK'
      BY <1>2, <2>1 DEF SqliteInv, SqliteTypes, StoreTypeOK
    <2>. QED BY <2>1, <2>2, <2>3, <2>4
  <1>. QED BY <1>3, <1>4 DEF insert_history

\* Every other step leaves both tables alone.
LEMMA OtherStepsKeepStore ==
    ASSUME [Next]_vars
    PROVE  UNCHANGED store \/ \E h \in Handle : commit(h) \/ insert_history(h)
  BY DEF Next, open, OpenStep, connect, convert_to_wal, create_begin,
         create_commit, open_busy, open_error, read, start_write, start_append,
         CallStep, begin_immediate, select_actual, busy_timeout, backend_error,
         crash, vars, store

\* Types and the arguments of the calls in progress.
LEMMA TypeStep ==
    ASSUME SqliteInv, [Next]_vars
    PROVE  SqliteTypes' /\ CallIsKnown'
  <1>0. SqliteTypes /\ CallIsKnown
    BY DEF SqliteInv
  <1>1. StoreTypeOK'
    BY <1>0, OtherStepsKeepStore, CommitEffect, InsertEffect
    DEF SqliteTypes, StoreTypeOK, store
  <1>2. ASSUME NEW h \in Handle,
               open(h) \/ OpenStep(h) \/ open_error(h)
        PROVE  SqliteTypes' /\ CallIsKnown'
    BY <1>0, <1>1, <1>2
    DEF open, OpenStep, connect, convert_to_wal, create_begin, create_commit,
        open_busy, OpenMeetsLock, open_error, Goto, Release,
        SqliteTypes, CallIsKnown
  <1>3. ASSUME NEW h \in Handle,
               read(h) \/ start_write(h) \/ start_append(h) \/ CallStep(h)
        PROVE  SqliteTypes' /\ CallIsKnown'
    BY <1>0, <1>1, <1>3
    DEF read, start_write, start_append, CallStep, begin_immediate,
        select_actual, commit, insert_history, busy_timeout,
        Goto, Release, SqliteTypes, CallIsKnown
  <1>4. ASSUME NEW h \in Handle, backend_error(h) \/ crash(h)
        PROVE  SqliteTypes' /\ CallIsKnown'
    BY <1>0, <1>1, <1>4
    DEF backend_error, crash, Goto, Release, SqliteTypes, CallIsKnown
  <1>5. CASE UNCHANGED vars
    BY <1>0, <1>1, <1>5 DEF vars, SqliteTypes, CallIsKnown
  <1>. QED BY <1>2, <1>3, <1>4, <1>5 DEF Next

\* WAL and the tables are never taken back.
LEMMA FileStep ==
    ASSUME SqliteInv, [Next]_vars
    PROVE  FileIsPrepared'
  <1>0. SqliteTypes /\ FileIsPrepared
    BY DEF SqliteInv
  <1>1. ASSUME NEW h \in Handle,
               open(h) \/ OpenStep(h) \/ open_error(h)
        PROVE  FileIsPrepared'
    BY <1>0, <1>1
    DEF open, OpenStep, connect, convert_to_wal, create_begin, create_commit,
        open_busy, OpenMeetsLock, open_error, Goto, SqliteTypes,
        FileIsPrepared, ReadyHandleHasTables
  <1>2. ASSUME NEW h \in Handle,
               read(h) \/ start_write(h) \/ start_append(h) \/ CallStep(h)
        PROVE  FileIsPrepared'
    BY <1>0, <1>2
    DEF read, start_write, start_append, CallStep, begin_immediate,
        select_actual, commit, insert_history, busy_timeout,
        Goto, SqliteTypes, FileIsPrepared, ReadyHandleHasTables
  <1>3. ASSUME NEW h \in Handle, backend_error(h) \/ crash(h)
        PROVE  FileIsPrepared'
    BY <1>0, <1>3
    DEF backend_error, crash, Goto, SqliteTypes, FileIsPrepared,
        ReadyHandleHasTables
  <1>4. CASE UNCHANGED vars
    BY <1>0, <1>4 DEF vars, FileIsPrepared, ReadyHandleHasTables
  <1>. QED BY <1>1, <1>2, <1>3, <1>4 DEF Next

\* The one step that changes a row needs the lock, and so does everybody who
\* has compared a revision and not committed yet.
LEMMA CheckStep ==
    ASSUME SqliteInv, [Next]_vars
    PROVE  CheckedRevisionIsCurrent'
  <1>0. /\ SqliteTypes /\ LockOwnership /\ CheckedRevisionIsCurrent
        /\ LockOwnership'
    BY LockStep DEF SqliteInv
  <1> SUFFICES ASSUME NEW h \in Handle, pc'[h] = "commit"
               PROVE  ActualRevision(call[h].id)' = call'[h].revision
    BY DEF CheckedRevisionIsCurrent
  <1>1. ASSUME NEW g \in Handle, commit(g)
        PROVE  FALSE
    <2>1. lock = g /\ pc[g] = "commit" /\ pc' = [pc EXCEPT ![g] = "ready"]
      BY <1>0, <1>1 DEF LockOwnership, InTransaction, commit, Goto
    <2>2. h # g /\ pc[h] = "commit"
      BY <1>0, <2>1 DEF SqliteTypes
    <2>. QED BY <1>0, <2>1, <2>2 DEF LockOwnership, InTransaction
  <1>2. current' = current
    BY <1>1, OtherStepsKeepStore, InsertEffect DEF store
  <1>3. CASE pc[h] = "commit" /\ call'[h] = call[h]
    BY <1>0, <1>2, <1>3 DEF CheckedRevisionIsCurrent, ActualRevision
  <1>4. CASE select_actual(h)
    <2>1. /\ ActualRevision(call[h].id) = call[h].revision
          /\ call' = call
      BY <1>0, <1>4
      DEF select_actual, write_conflicts, Goto, SqliteTypes
    <2>. QED BY <1>2, <2>1 DEF ActualRevision
  <1>5. (pc[h] = "commit" /\ call'[h] = call[h]) \/ select_actual(h)
    BY <1>0, <1>1
    DEF Next, open, OpenStep, connect, convert_to_wal, create_begin,
        create_commit, open_busy, open_error, read, start_write, start_append,
        CallStep, begin_immediate, select_actual, insert_history, busy_timeout,
        backend_error, crash, Goto, vars, SqliteTypes
  <1>. QED BY <1>3, <1>4, <1>5

\* Every step preserves the invariant.
LEMMA SqliteStepInv == SqliteInv /\ [Next]_vars => SqliteInv'
  BY LockStep, TypeStep, FileStep, CheckStep DEF SqliteInv

----------------------------------------------------------------------------
\* Types, the lock, the arguments, the file and the check are invariants of
\* the transactions for every instance.
THEOREM SqliteInvariant == Spec => []SqliteInv
  BY SqliteInitInv, SqliteStepInv, PTL DEF Spec

\* write_current commits against the revision it compared.
THEOREM CheckHolds == Spec => []CheckedRevisionIsCurrent
  <1>1. SqliteInv => CheckedRevisionIsCurrent
    BY DEF SqliteInv
  <1>. QED BY <1>1, SqliteInvariant, PTL

\* open hands out no handle before both tables are committed.
THEOREM TablesExist == Spec => []ReadyHandleHasTables
  <1>1. SqliteInv => ReadyHandleHasTables
    BY DEF SqliteInv, FileIsPrepared
  <1>. QED BY <1>1, SqliteInvariant, PTL

\* Seen through the committed rows, the transactions of all handles are the
\* atomic compare-and-swaps and appends of DomainPersistence: commit is the
\* write, insert_history the append, every other step stutters.
THEOREM SqliteImplementsStore == Spec => AtomicStore
  <1>1. Init => StoreInit
    BY DEF Init
  <1>2. SqliteInv /\ [Next]_vars => [StoreNext]_store
    <2> SUFFICES ASSUME SqliteInv, [Next]_vars
                 PROVE  [StoreNext]_store
      OBVIOUS
    <2>1. ASSUME NEW h \in Handle, commit(h)
          PROVE  StoreNext
      <3>1. call[h].id \in Identity /\ call[h].state \in State
        BY <2>1, CommitEffect DEF Call
      <3>. QED BY <2>1, <3>1, CommitEffect DEF StoreNext
    <2>2. ASSUME NEW h \in Handle, insert_history(h)
          PROVE  [StoreNext]_store
      BY <2>2, InsertEffect DEF StoreNext
    <2>. QED BY <2>1, <2>2, OtherStepsKeepStore
  <1>. QED
    BY <1>1, <1>2, SqliteInvariant, PTL DEF Spec, AtomicStore, StoreSpec
=============================================================================
