------------------------- MODULE DomainPersistence -------------------------
(***************************************************************************)
(* The promise of the persistence seam every durable capability of         *)
(* Scorpion goes through (spider/src/features/domain_persistence.rs): a    *)
(* table of current states that only a compare-and-swap can change, and a  *)
(* table of historical records that is only ever appended to.  Each call   *)
(* of the seam is one atomic step here; module SqliteStore refines these   *)
(* steps into the SQLite transactions of the code.                         *)
(*                                                                         *)
(* The operators have no `Next' of a client built in: the modules of the   *)
(* capabilities (DomainState, Watch, IamTrace, ...) call them.             *)
(***************************************************************************)
EXTENDS Integers

CONSTANTS
    Identity,    \* the keys of both tables (the code's identity strings)
    State,       \* the payloads of both tables (the code's byte blobs)
    NoRow        \* what a read of an identity without a row returns

\* A missing row is distinguishable from every row and every payload.
ASSUME NoRowAssumption ==
    NoRow \notin [revision : Nat, state : State] /\ NoRow \notin State

VARIABLES
    current,     \* table scorpion_domain_current_state: one row per identity
    history      \* table scorpion_domain_history: a set of rows

store == <<current, history>>

Row == [revision : Nat \ {0}, state : State]

HistoryRow == [identity : Identity, revision : Nat \ {0}, state : State]

StoreInit == current = [id \in Identity |-> NoRow] /\ history = {}

----------------------------------------------------------------------------
(***************************************************************************)
(* The five operations.  A revision of 0 stands for the code's `None': no  *)
(* stored revision is ever 0, because a first write stores 1.              *)
(***************************************************************************)
read_current(id) == current[id]

ActualRevision(id) == IF current[id] = NoRow THEN 0 ELSE current[id].revision

\* CurrentStateConflict: the call writes nothing.
write_conflicts(id, expected) == ActualRevision(id) # expected

write_current(id, expected, new) ==
    /\ ~write_conflicts(id, expected)
    /\ current' = [current EXCEPT
                     ![id] = [revision |-> expected + 1, state |-> new]]
    /\ UNCHANGED history

read_history(id) == {row \in history : row.identity = id}

\* HistoryAlreadyExists: the primary key (identity, revision) is taken.
history_exists(id, revision) ==
    \E row \in history : row.identity = id /\ row.revision = revision

append_history(id, revision, state) ==
    /\ ~history_exists(id, revision)
    /\ history' = history \cup
         {[identity |-> id, revision |-> revision, state |-> state]}
    /\ UNCHANGED current

----------------------------------------------------------------------------
\* Some caller's step.  The appended row is taken from the new table, which
\* keeps the formula free of a quantifier over all revisions.
StoreNext ==
    \/ \E id \in Identity, state \in State :
           write_current(id, ActualRevision(id), state)
    \/ \E row \in history' \cap HistoryRow :
           append_history(row.identity, row.revision, row.state)

StoreSpec == StoreInit /\ [][StoreNext]_store

\* Type correctness of the two tables.
StoreTypeOK ==
    /\ current \in [Identity -> Row \cup {NoRow}]
    /\ history \in SUBSET HistoryRow

============================================================================
