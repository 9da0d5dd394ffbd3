------------------------------ MODULE SQLiteTx ------------------------------
(***************************************************************************)
(* The ledger file as internal/store uses it: one SQLite database in WAL   *)
(* mode, one connection per process (SetMaxOpenConns(1)), transactions     *)
(* opened with BeginTx(ctx, nil), that is BEGIN DEFERRED.                  *)
(*                                                                         *)
(* A deferred transaction takes its snapshot at its first SELECT and asks  *)
(* for the single write lock at its first write.  SQLite grants the lock   *)
(* only to a transaction whose snapshot is still the newest version; any   *)
(* other writer gets SQLITE_BUSY.  A process that dies loses its           *)
(* transaction.                                                            *)
(***************************************************************************)
CONSTANT Procs          \* the processes that have opened the ledger

VARIABLES
    fresh,              \* processes whose open snapshot is the newest version
    writer              \* {} or the one process that holds the write lock

txVars == <<fresh, writer>>

TxTypeOK == /\ fresh \in SUBSET Procs
            /\ writer \in {{}} \cup {{p} : p \in Procs}

TxInit == /\ fresh = {}
          /\ writer = {}

\* The first SELECT of a deferred transaction.
TxSnapshot(p) == /\ fresh' = fresh \cup {p}
                 /\ UNCHANGED writer

\* SQLite would give the write lock to p's transaction.
TxMayWrite(p) == writer = {} /\ p \in fresh

\* The first write of a transaction.
TxLock(p) == /\ TxMayWrite(p)
             /\ writer' = {p}
             /\ UNCHANGED fresh

\* SQLITE_BUSY: another process holds the lock, or committed after p's snapshot.
TxBusy(p) == ~TxMayWrite(p)

\* A commit that changed the database makes every other snapshot stale.
TxCommit(p) == /\ writer = {p}
               /\ writer' = {}
               /\ fresh' = {}

\* Rollback, explicit or because the process died.
TxRollback(p) == /\ writer' = writer \ {p}
                 /\ fresh' = fresh \ {p}

\* One INSERT or UPDATE outside a transaction that changes at least one row.
TxStatement == /\ writer = {}
               /\ fresh' = {}
               /\ UNCHANGED writer
=============================================================================
