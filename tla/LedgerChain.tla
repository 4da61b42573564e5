----------------------------- MODULE LedgerChain -----------------------------
(***************************************************************************)
(* The hash-linked event table of neuromem_runtime/ledger.py and the two    *)
(* ways in which the runtime writes to it:                                  *)
(*                                                                          *)
(*   - MemoryLedger.append() without a connection opens one of its own,     *)
(*     SELECTs the last event_hash in autocommit mode and then INSERTs the  *)
(*     new row, so another connection may commit between the two;           *)
(*   - append(conn=...) runs inside SQLiteMemoryStore.transaction(), a      *)
(*     deferred BEGIN under the store's RLock: the first SELECT pins a WAL  *)
(*     snapshot, the first INSERT takes SQLite's single write lock and      *)
(*     fails when the database changed since the snapshot.                  *)
(*                                                                          *)
(* A writer is a thread of a process; the threads of one process share the  *)
(* RLock. An event is a number drawn from a counter that stands for uuid4:  *)
(* no two are equal. SHA-256 is taken to be injective, so the hash of a row *)
(* is named by its event.                                                   *)
(***************************************************************************)
EXTENDS Naturals, SequencesExt

CONSTANTS
    Writer,      \* threads that reach the database file
    Process,     \* operating-system processes
    ProcessOf,   \* ProcessOf[w]: the process that runs thread w
    Autonomous,  \* the writers that call append() without a connection
    MaxEvent,    \* bound on the events and transactions ever created
    MaxCommit,   \* bound on the commits up to which OtherWrite adds one
    Nobody       \* the holder of a lock nobody holds

ASSUME ProcessOfAssumption == ProcessOf \in [Writer -> Process]
ASSUME AutonomousAssumption == Autonomous \subseteq Writer
ASSUME NobodyAssumption == Nobody \notin Writer
ASSUME BoundAssumption == MaxEvent \in Nat /\ MaxCommit \in Nat

VARIABLES
    table,      \* the committed rows of ledger_events, by ledger_seq
    commits,    \* the commits of the database file so far (its WAL version)
    writeLock,  \* the writer whose connection holds SQLite's write lock
    procLock,   \* procLock[p]: the writer that holds the store's RLock in p
    mode,       \* mode[w]: where w is in append() or in transaction()
    event,      \* event[w]: the event w is appending
    head,       \* head[w]: the previous_hash w has read
    view,       \* view[w]: the rows w's open transaction sees
    base,       \* base[w]: the value of commits when w's snapshot was taken
    txn,        \* txn[w]: the transaction_id of w's open transaction
    fresh       \* the last number handed out by uuid4

vars == <<table, commits, writeLock, procLock, mode, event, head, view, base, txn, fresh>>

NoHash == 0     \* previous_hash IS NULL

Row == [txn : Nat, prev : Nat, hash : Nat]

Mode == {"idle", "selected", "begun", "open", "reading"}

InTransaction(w) == mode[w] \in {"begun", "open", "reading"}

LastHash(rows) == IF rows = <<>> THEN NoHash ELSE rows[Len(rows)].hash

\* (variant) an INSERT that leaves previous_hash out.
UnlinkedRow(w, t) == [txn |-> t, hash |-> event[w]]

NewRow(w, t) == [txn |-> t, prev |-> head[w], hash |-> event[w]]

Init ==
    /\ table = <<>>
    /\ commits = 0
    /\ writeLock = Nobody
    /\ procLock = [p \in Process |-> Nobody]
    /\ mode = [w \in Writer |-> "idle"]
    /\ event = [w \in Writer |-> 0]
    /\ head = [w \in Writer |-> NoHash]
    /\ view = [w \in Writer |-> <<>>]
    /\ base = [w \in Writer |-> 0]
    /\ txn = [w \in Writer |-> 0]
    /\ fresh = 0

-----------------------------------------------------------------------------
(* append() on a connection of its own                                      *)

\* SELECT event_hash ... ORDER BY ledger_seq DESC LIMIT 1, in autocommit mode:
\* the statement ends and pins nothing.
AppendSelect(w) ==
    /\ w \in Autonomous
    /\ mode[w] = "idle"
    /\ fresh < MaxEvent
    /\ fresh' = fresh + 1
    /\ event' = [event EXCEPT ![w] = fresh + 1]
    /\ head' = [head EXCEPT ![w] = LastHash(table)]
    /\ mode' = [mode EXCEPT ![w] = "selected"]
    /\ UNCHANGED <<table, commits, writeLock, procLock, view, base, txn>>

\* INSERT and the commit at the end of "with": ledger_seq is the next row of
\* the table as it is now, previous_hash is the head as it was read.
AppendInsert(w) ==
    /\ mode[w] = "selected"
    /\ writeLock = Nobody
    /\ table' = Append(table, NewRow(w, event[w]))
    /\ commits' = commits + 1
    /\ mode' = [mode EXCEPT ![w] = "idle"]
    /\ UNCHANGED <<writeLock, procLock, event, head, view, base, txn, fresh>>

\* The connection's timeout runs out while another one holds the write lock:
\* OperationalError leaves append() and nothing is written.
AppendBusy(w) ==
    /\ mode[w] = "selected"
    /\ writeLock # Nobody
    /\ mode' = [mode EXCEPT ![w] = "idle"]
    /\ UNCHANGED <<table, commits, writeLock, procLock, event, head, view, base, txn, fresh>>

\* record_experience, append_edge_evidence, an upsert of the store outside a
\* transaction: a commit that changes other tables of the same file.
OtherWrite(w) ==
    /\ mode[w] = "idle"
    /\ writeLock = Nobody
    /\ commits < MaxCommit
    /\ commits' = commits + 1
    /\ UNCHANGED <<table, writeLock, procLock, mode, event, head, view, base, txn, fresh>>

-----------------------------------------------------------------------------
(* append(conn=...) in a transaction of the store                           *)

\* transaction(): the RLock of the process, then BEGIN, which reads nothing.
TxBegin(w) ==
    /\ mode[w] = "idle"
    /\ procLock[ProcessOf[w]] = Nobody
    /\ fresh < MaxEvent
    /\ fresh' = fresh + 1
    /\ txn' = [txn EXCEPT ![w] = fresh + 1]
    /\ procLock' = [procLock EXCEPT ![ProcessOf[w]] = w]
    /\ mode' = [mode EXCEPT ![w] = "begun"]
    /\ UNCHANGED <<table, commits, writeLock, event, head, view, base>>

\* The SELECT of the first stage pins the snapshot, that of a later stage sees
\* the transaction's own rows.
TxSelect(w) ==
    /\ mode[w] \in {"begun", "open"}
    /\ fresh < MaxEvent
    /\ fresh' = fresh + 1
    /\ event' = [event EXCEPT ![w] = fresh + 1]
    /\ LET pinned == mode[w] = "open"
           rows   == IF pinned THEN view[w] ELSE table
       IN  /\ view' = [view EXCEPT ![w] = rows]
           /\ base' = [base EXCEPT ![w] = IF pinned THEN @ ELSE commits]
           /\ head' = [head EXCEPT ![w] = LastHash(rows)]
    /\ mode' = [mode EXCEPT ![w] = "reading"]
    /\ UNCHANGED <<table, commits, writeLock, procLock, txn>>

\* (variant) the upgrade without the test of the snapshot.
MayWriteStale(w) == writeLock \in {w, Nobody}

\* The upgrade from reader to writer that SQLite grants: the lock is free and
\* the snapshot is the latest version of the file.
MayWrite(w) == writeLock = w \/ (writeLock = Nobody /\ base[w] = commits)

\* (variant) an INSERT that commits at once: append() without conn=conn.
TxInsertAutocommit(w) ==
    /\ mode[w] = "reading"
    /\ writeLock = Nobody
    /\ table' = Append(table, NewRow(w, txn[w]))
    /\ view' = [view EXCEPT ![w] = table']
    /\ commits' = commits + 1
    /\ base' = [base EXCEPT ![w] = commits + 1]
    /\ mode' = [mode EXCEPT ![w] = "open"]
    /\ UNCHANGED <<writeLock, procLock, event, head, txn, fresh>>

TxInsert(w) ==
    /\ mode[w] = "reading"
    /\ MayWrite(w)
    /\ writeLock' = w
    /\ view' = [view EXCEPT ![w] = Append(@, NewRow(w, txn[w]))]
    /\ mode' = [mode EXCEPT ![w] = "open"]
    /\ UNCHANGED <<table, commits, procLock, event, head, base, txn, fresh>>

\* What every way out of transaction() releases.
Release(w) ==
    /\ writeLock' = IF writeLock = w THEN Nobody ELSE writeLock
    /\ procLock' = [procLock EXCEPT ![ProcessOf[w]] = Nobody]
    /\ mode' = [mode EXCEPT ![w] = "idle"]
    /\ UNCHANGED <<event, head, view, base, txn, fresh>>

\* (variant) waiting for a stale snapshot to become current again.
TxBusyWaits(w) ==
    /\ mode[w] = "reading"
    /\ writeLock \notin {w, Nobody}
    /\ Release(w)
    /\ UNCHANGED <<table, commits>>

\* SQLITE_BUSY or SQLITE_BUSY_SNAPSHOT: OperationalError, rollback, no row.
TxBusy(w) ==
    /\ mode[w] = "reading"
    /\ ~ MayWrite(w)
    /\ Release(w)
    /\ UNCHANGED <<table, commits>>

\* commit(): the pages the connection wrote replace those of its snapshot.
TxCommit(w) ==
    /\ mode[w] = "open"
    /\ table' = view[w]
    /\ commits' = commits + 1
    /\ Release(w)

\* An exception inside the block: rollback().
TxRollback(w) ==
    /\ mode[w] \in {"begun", "open"}
    /\ Release(w)
    /\ UNCHANGED <<table, commits>>

\* The process dies: its connections vanish, SQLite discards what they had not
\* committed, its locks are free when it starts again.
Crash(p) ==
    LET dead == {w \in Writer : ProcessOf[w] = p}
    IN  /\ \E w \in dead : mode[w] # "idle"
        /\ mode' = [w \in Writer |-> IF w \in dead THEN "idle" ELSE mode[w]]
        /\ writeLock' = IF writeLock \in dead THEN Nobody ELSE writeLock
        /\ procLock' = [procLock EXCEPT ![p] = Nobody]
        /\ UNCHANGED <<table, commits, event, head, view, base, txn, fresh>>

-----------------------------------------------------------------------------
Step(w) ==
    \/ AppendInsert(w) \/ AppendBusy(w)
    \/ TxSelect(w) \/ TxInsert(w) \/ TxBusy(w) \/ TxCommit(w) \/ TxRollback(w)

Next ==
    \/ \E w \in Writer : AppendSelect(w) \/ OtherWrite(w) \/ TxBegin(w) \/ Step(w)
    \/ \E p \in Process : Crash(p)

Spec == Init /\ [][Next]_vars

\* A started append or transaction runs to its end: its thread is scheduled
\* and every wait for the write lock has a timeout.
FairSpec == Spec /\ \A w \in Writer : WF_vars(Step(w))

-----------------------------------------------------------------------------
(* Properties                                                               *)

\* Type correctness of the table, the locks and the writers' registers.
TypeOK ==
    /\ table \in Seq(Row)
    /\ commits \in Nat
    /\ writeLock \in Writer \cup {Nobody}
    /\ procLock \in [Process -> Writer \cup {Nobody}]
    /\ mode \in [Writer -> Mode]
    /\ event \in [Writer -> Nat]
    /\ head \in [Writer -> Nat]
    /\ view \in [Writer -> Seq(Row)]
    /\ base \in [Writer -> Nat]
    /\ txn \in [Writer -> Nat]
    /\ fresh \in Nat

\* The rows are linked: each names the hash of the row before it.
Linked(rows) ==
    \A i \in 1..Len(rows) :
        rows[i].prev = IF i = 1 THEN NoHash ELSE rows[i - 1].hash

\* verify_hash_chain() returns True: the committed events form one chain in
\* ledger_seq order, whoever appended them.
ChainIntact == Linked(table)

\* The rows of one transaction are neighbours: no append of another writer
\* lands between the PROPOSED and the AUDITED row of a governed mutation.
TransactionContiguous ==
    \A i, k \in 1..Len(table) :
        table[i].txn = table[k].txn
            => \A j \in i..k : table[j].txn = table[i].txn

\* A reader never sees part of a transaction: as long as it is open, none of
\* its rows is in the table.
NoPartialTransaction ==
    \A w \in Writer : InTransaction(w) =>
        \A i \in 1..Len(table) : table[i].txn # txn[w]

\* A governed mutation is one thing in the ledger, for other writers and for readers.
TransactionAtomic == TransactionContiguous /\ NoPartialTransaction

\* At most one connection has uncommitted rows, and it saw every commit: what
\* its own commit publishes extends the table.
WriterSeesAll ==
    \A w \in Writer : writeLock = w =>
        /\ mode[w] \in {"open", "reading"}
        /\ base[w] = commits
        /\ IsStrictPrefix(table, view[w])

\* No step removes or rewrites a committed event.
AppendOnly == [][IsPrefix(table, table')]_vars

Committed == INSTANCE EventLog WITH log <- table

\* For a reader the table is a log that grows by whole transactions, whichever
\* ways of appending are mixed and wherever a process dies: no commit takes a row
\* away that another one added meanwhile, none publishes half of a transaction.
GrowsByTransactions == Committed!Spec

\* Every started append or transaction ends, with its rows or without.
EveryWriteEnds == \A w \in Writer : (mode[w] # "idle") ~> (mode[w] = "idle")

=============================================================================
