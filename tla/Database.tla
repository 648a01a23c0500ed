------------------------------- MODULE Database -------------------------------
(***************************************************************************)
(* Threads that use the SQLite database through ConnectionPool: requests,  *)
(* which return their connection at the end (teardown_appcontext), and     *)
(* background threads, which do not. A transaction belongs to a connection *)
(* and not to a thread; SQLite has one writer.                             *)
(*                                                                         *)
(* A request imports a catalog (catalog_rebuild.py, one transaction for    *)
(* all its files), or adds an audit entry (read of the last hash, then     *)
(* insert). A row of the audit log is its place in the chain: the hash of  *)
(* the row before it as it was read, and whether its stored fields hash to *)
(* what was stored.                                                        *)
(***************************************************************************)
EXTENDS ConnectionPool

CONSTANTS
  Requests, Workers,  \* the threads
  CatalogSize,        \* files in a catalog
  MaxImports, MaxAudit, MaxDeaths, MaxLeaks  \* bounds

ASSUME DatabaseAssumption ==
  /\ Threads = Requests \cup Workers
  /\ Requests \cap Workers = {}
  /\ {CatalogSize, MaxImports, MaxAudit, MaxDeaths, MaxLeaks} \subseteq Nat

VARIABLES
  step,       \* where a thread is in its work
  seen,       \* previous_hash of the thread's audit entry
  batch,      \* the thread's import, by number
  inserted,   \* how many of its files the thread has inserted
  tx,         \* uncommitted rows of archived_files: connection, import, files
  archived,   \* committed rows: import, files
  audit,      \* audit_log
  imports,    \* imports started
  failed,     \* imports that raised, or whose connection died
  overlapped  \* two audit entries were being made at once

work == <<step, seen, batch, inserted, tx, archived, audit, imports, failed, overlapped>>
vars == <<poolVars, work>>

Steps == {"idle", "audit", "append", "set", "import", "write", "done"}

Imports == 1..MaxImports
Files   == 1..CatalogSize
NoRows  == [i \in Imports |-> {}]

Init ==
  /\ PoolInit
  /\ step = [t \in Threads |-> "idle"]
  /\ seen = [t \in Threads |-> 0]
  /\ batch = [t \in Threads |-> 0]
  /\ inserted = [t \in Threads |-> 0]
  /\ tx = [c \in Conns |-> NoRows]
  /\ archived = NoRows
  /\ audit = <<>>
  /\ imports = 0
  /\ failed = {}
  /\ overlapped = FALSE

-----------------------------------------------------------------------------
(* Transactions                                                            *)

\* A statement that writes needs the write lock of the file.
CanWrite(c) == \A d \in Conns \ {c} : tx[d] = NoRows

\* commit() makes permanent whatever the connection has, whoever left it.
Commit(c) ==
  /\ archived' = [i \in Imports |-> archived[i] \cup tx[c][i]]
  /\ tx' = [tx EXCEPT ![c] = NoRows]

GoTo(t, s) == step' = [step EXCEPT ![t] = s]

-----------------------------------------------------------------------------
(* Threads                                                                 *)

Begin(t) ==
  /\ step[t] = "idle"
  /\ t \in Workers => Cardinality(leaked) < MaxLeaks
  /\ \E s \in (IF t \in Requests THEN {"audit", "set"} ELSE {"write"}) :
       /\ s = "audit" => Len(audit) < MaxAudit
       /\ GoTo(t, s)
  /\ Ask(t)
  /\ UNCHANGED <<seen, batch, inserted, tx, archived, audit, imports, failed, overlapped>>

\* _get_last_audit_hash
\* Mutant of LastHash: the row that was there first.
FirstHash == 0
LastHash == Len(audit)

\* add_audit_log: _ensure_audit_table commits, the last hash is read, and no
\* lock is held.
ReadLastHash(t) ==
  /\ step[t] = "audit"
  /\ Ready(t)
  /\ seen' = [seen EXCEPT ![t] = LastHash]
  /\ GoTo(t, "append")
  /\ Commit(local[t])
  /\ overlapped' = (overlapped \/ \E s \in Threads \ {t} : step[s] = "append")
  /\ UNCHANGED <<poolVars, batch, inserted, audit, imports, failed>>

\* ... and the row inserted and committed. An entry that came as a dict
\* without a message (the settings route) was hashed with None for it and
\* is stored with ''.
AppendAudit(t) ==
  /\ step[t] = "append"
  /\ Ready(t)
  /\ CanWrite(local[t])
  /\ \E asDict \in BOOLEAN :
       audit' = Append(audit, [previous |-> seen[t], fields |-> ~asDict])
  /\ Commit(local[t])
  /\ GoTo(t, "done")
  /\ UNCHANGED <<poolVars, seen, batch, inserted, imports, failed, overlapped>>

\* import_to_database: each catalog begins with add_backup_set, which commits.
AddBackupSet(t) ==
  /\ step[t] = "set"
  /\ Ready(t)
  /\ imports < MaxImports
  /\ CanWrite(local[t])
  /\ Commit(local[t])
  /\ imports' = imports + 1
  /\ batch' = [batch EXCEPT ![t] = imports + 1]
  /\ GoTo(t, "import")
  /\ UNCHANGED <<poolVars, seen, inserted, audit, failed, overlapped>>

\* Mutant of ImportFile: each row is committed.
ImportsRowByRow(t) ==
  /\ step[t] = "import"
  /\ Ready(t)
  /\ inserted[t] < CatalogSize
  /\ CanWrite(local[t])
  /\ inserted' = [inserted EXCEPT ![t] = @ + 1]
  /\ archived' = [archived EXCEPT ![batch[t]] = @ \cup {inserted[t] + 1}]
  /\ UNCHANGED <<poolVars, step, seen, batch, tx, audit, imports, failed, overlapped>>

\* Mutant of ImportFile: a row more than the catalog has.
ImportsOneMore(t) ==
  /\ step[t] = "import"
  /\ Ready(t)
  /\ inserted[t] <= CatalogSize
  /\ CanWrite(local[t])
  /\ inserted' = [inserted EXCEPT ![t] = @ + 1]
  /\ tx' = [tx EXCEPT ![local[t]][batch[t]] = @ \cup {inserted[t] + 1}]
  /\ UNCHANGED <<poolVars, step, seen, batch, archived, audit, imports, failed, overlapped>>

\* One INSERT per file of the catalog.
ImportFile(t) ==
  /\ step[t] = "import"
  /\ Ready(t)
  /\ inserted[t] < CatalogSize
  /\ CanWrite(local[t])
  /\ inserted' = [inserted EXCEPT ![t] = @ + 1]
  /\ tx' = [tx EXCEPT ![local[t]][batch[t]] = @ \cup {inserted[t] + 1}]
  /\ UNCHANGED <<poolVars, step, seen, batch, archived, audit, imports, failed, overlapped>>

\* After the commit the next catalog's turn comes.
ImportCommit(t) ==
  /\ step[t] = "import"
  /\ Ready(t)
  /\ inserted[t] = CatalogSize
  /\ Commit(local[t])
  /\ inserted' = [inserted EXCEPT ![t] = 0]
  /\ \E s \in {"set", "done"} : GoTo(t, s)
  /\ UNCHANGED <<poolVars, seen, batch, audit, imports, failed, overlapped>>

\* The import under way, if rows of it were or could have been inserted.
FailsWith(t) == failed' = IF step[t] = "import" THEN failed \cup {batch[t]} ELSE failed

\* The catalog or one of its files lacks a field. The handler calls
\* db.rollback(), which Database does not have: the request fails with the
\* transaction open.
ImportFails(t) ==
  /\ step[t] \in {"set", "import"}
  /\ Ready(t)
  /\ inserted[t] < CatalogSize
  /\ FailsWith(t)
  /\ GoTo(t, "done")
  /\ UNCHANGED <<poolVars, seen, batch, inserted, tx, archived, audit, imports, overlapped>>

\* A background thread's update: one statement and its commit.
WorkerWrites(t) ==
  /\ step[t] = "write"
  /\ Ready(t)
  /\ CanWrite(local[t])
  /\ Commit(local[t])
  /\ GoTo(t, "done")
  /\ UNCHANGED <<poolVars, seen, batch, inserted, audit, imports, failed, overlapped>>

\* busy_timeout runs out: "database is locked".
Locked(t) ==
  /\ step[t] \in {"append", "set", "import", "write"}
  /\ Ready(t)
  /\ ~CanWrite(local[t])
  /\ FailsWith(t)
  /\ GoTo(t, "done")
  /\ UNCHANGED <<poolVars, seen, batch, inserted, tx, archived, audit, imports, overlapped>>

\* get_connection goes on. A dead connection takes its transaction with it.
Connect(t) ==
  /\ GetConnection(t)
  /\ step' = [step EXCEPT ![t] = IF need'[t] = "timeout" THEN "done" ELSE @]
  /\ UNCHANGED <<seen, batch, inserted, tx, archived, audit, imports, failed, overlapped>>

Forget(t) ==
  /\ seen' = [seen EXCEPT ![t] = 0]
  /\ batch' = [batch EXCEPT ![t] = 0]
  /\ inserted' = [inserted EXCEPT ![t] = 0]

\* A connection that is closed instead of returned loses its transaction.
Teardown(t) ==
  /\ t \in Requests
  /\ step[t] = "done"
  /\ Release(t)
  /\ tx' = [c \in Conns |-> IF c \in dead' THEN NoRows ELSE tx[c]]
  /\ GoTo(t, "idle")
  /\ Forget(t)
  /\ UNCHANGED <<archived, audit, imports, failed, overlapped>>

WorkerEnds(t) ==
  /\ t \in Workers
  /\ step[t] = "done"
  /\ EndThread(t)
  /\ GoTo(t, "idle")
  /\ Forget(t)
  /\ UNCHANGED <<tx, archived, audit, imports, failed, overlapped>>

ConnectionDies ==
  /\ Cardinality(dead) < MaxDeaths
  /\ \E c \in Conns :
       /\ Dies(c)
       /\ tx' = [tx EXCEPT ![c] = NoRows]
       /\ failed' = failed \cup {i \in Imports : tx[c][i] # {}}
  /\ UNCHANGED <<step, seen, batch, inserted, archived, audit, imports, overlapped>>

ThreadStep(t) ==
  \/ Begin(t) \/ Connect(t) \/ ReadLastHash(t) \/ AppendAudit(t)
  \/ AddBackupSet(t) \/ ImportFile(t) \/ ImportCommit(t) \/ ImportFails(t) \/ WorkerWrites(t)
  \/ Locked(t) \/ Teardown(t) \/ WorkerEnds(t)

Next == ConnectionDies \/ \E t \in Threads : ThreadStep(t)

Spec == Init /\ [][Next]_vars

-----------------------------------------------------------------------------
(* Properties                                                              *)

\* verify_audit_chain: each row names the row before it and its stored
\* fields hash to what was stored.
VerifyAuditChain == \A i \in 1..Len(audit) : audit[i].previous = i - 1 /\ audit[i].fields

TypeOK ==
  /\ PoolTypeOK
  /\ step \in [Threads -> Steps]
  /\ seen \in [Threads -> Nat]
  /\ batch \in [Threads -> 0..MaxImports]
  /\ inserted \in [Threads -> 0..CatalogSize]
  /\ tx \in [Conns -> [Imports -> SUBSET Files]]
  /\ archived \in [Imports -> SUBSET Files]
  /\ audit \in Seq([previous : Nat, fields : BOOLEAN])
  /\ imports \in 0..MaxImports
  /\ failed \subseteq Imports
  /\ overlapped \in BOOLEAN

\* The chain that add_audit_log builds is the one verify_audit_chain
\* accepts, if no two entries were made at the same time and none came as a
\* dict; with either, an untouched log counts as tampered with.
SerialAuditVerifies ==
  ~overlapped /\ (\A i \in 1..Len(audit) : audit[i].fields) => VerifyAuditChain

\* An import is visible as a whole or not at all, unless it failed: then a
\* later commit on its connection, by whoever got it from the pool, makes a
\* part of it permanent.
ImportsAreWhole ==
  \A i \in Imports \ failed : archived[i] \in {{}, Files}

\* SQLite has one writer: rows wait for a commit on one connection at most,
\* and that one is with a thread, or was left by an import that failed and
\* keeps everybody else from writing.
OneWriter ==
  \A c \in Conns : tx[c] # NoRows =>
    /\ \A d \in Conns \ {c} : tx[d] = NoRows
    /\ c \notin dead
    /\ \/ \E t \in Requests : local[t] = c /\ step[t] = "import"
       \/ \E i \in failed : tx[c][i] # {}
===============================================================================
