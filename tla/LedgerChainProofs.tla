-------------------------- MODULE LedgerChainProofs --------------------------
(***************************************************************************)
(* Proofs about LedgerChain, for every set of writers and of processes and  *)
(* every bound.                                                             *)
(***************************************************************************)
EXTENDS LedgerChain, SequenceTheorems, TLAPS

\* The only writer that appends on a connection of its own, if there is one,
\* is the only writer: the runtime used from one thread of one process. With
\* no such writer the assumption holds of any number of them.
SoleAppender == \A a \in Autonomous : Writer = {a}

\* The holder of the write lock is inside a transaction, with its rows, and
\* every open transaction that has read and not yet written is behind it.
LockInv ==
    /\ \A w \in Writer : writeLock = w => mode[w] \in {"open", "reading"}
    /\ \A w \in Writer : mode[w] = "open" => writeLock = w

\* A snapshot that is not older than the last commit is the table itself.
SnapshotInv ==
    \A w \in Writer : mode[w] \in {"open", "reading"} =>
        /\ base[w] <= commits
        /\ writeLock # w /\ base[w] = commits => view[w] = table

\* What WriterSeesAll says, on its own.
ViewInv ==
    \A w \in Writer : writeLock = w =>
        /\ base[w] = commits
        /\ IsStrictPrefix(table, view[w])

LogInv == LockInv /\ SnapshotInv /\ ViewInv

-----------------------------------------------------------------------------
(* Sequences                                                                *)

\* A prefix has the elements of the whole, in their places.
LEMMA PrefixElements ==
    ASSUME NEW S, NEW s \in Seq(S), NEW t \in Seq(S)
    PROVE  IsPrefix(s, t) <=> /\ Len(s) <= Len(t)
                              /\ \A i \in 1..Len(s) : s[i] = t[i]
  BY SMTT(30) DEF IsPrefix

\* A sequence is a strict prefix of what Append makes of it or of a longer one.
LEMMA AppendExtends ==
    ASSUME NEW S, NEW s \in Seq(S), NEW t \in Seq(S), NEW e \in S, IsPrefix(s, t)
    PROVE  IsStrictPrefix(s, Append(t, e))
<1>1. Append(t, e) \in Seq(S) /\ Len(Append(t, e)) = Len(t) + 1
  OBVIOUS
<1>2. \A i \in 1..Len(t) : Append(t, e)[i] = t[i]
  OBVIOUS
<1>3. Len(s) \in Nat /\ Len(t) \in Nat
  OBVIOUS
<1>4. Len(s) <= Len(t) /\ \A i \in 1..Len(s) : s[i] = t[i]
  BY PrefixElements
<1>5. IsPrefix(s, Append(t, e))
  <2>1. \A i \in 1..Len(s) : s[i] = Append(t, e)[i]
    BY <1>2, <1>3, <1>4
  <2>2. Len(s) <= Len(Append(t, e))
    BY <1>1, <1>3, <1>4
  <2> QED BY <1>1, <2>1, <2>2, PrefixElements
<1>6. s # Append(t, e)
  BY <1>1, <1>3, <1>4
<1> QED BY <1>5, <1>6 DEF IsStrictPrefix

\* Every sequence of rows is a prefix of itself.
LEMMA PrefixReflexive ==
    ASSUME NEW S, NEW s \in Seq(S)
    PROVE  IsPrefix(s, s)
  BY PrefixElements

-----------------------------------------------------------------------------
(* Types                                                                    *)

\* Every register keeps its type, whatever the writers and the crashes do.
THEOREM TypeCorrect == Spec => []TypeOK
<1> USE NobodyAssumption, ProcessOfAssumption, AutonomousAssumption
<1>1. Init => TypeOK
  BY DEF Init, TypeOK, Mode, Row, NoHash
<1>2. TypeOK /\ [Next]_vars => TypeOK'
  <2> SUFFICES ASSUME TypeOK, [Next]_vars PROVE TypeOK'
    OBVIOUS
  <2> USE DEF TypeOK, Mode
  <2>1. \A rows \in Seq(Row) : LastHash(rows) \in Nat
    <3> TAKE rows \in Seq(Row)
    <3>1. CASE rows = <<>>
      BY <3>1 DEF LastHash, NoHash
    <3>2. CASE rows # <<>>
      <4>1. rows[Len(rows)] \in Row
        BY <3>2
      <4> QED BY <3>2, <4>1 DEF LastHash, Row
    <3> QED BY <3>1, <3>2
  <2>2. \A w \in Writer, t \in Nat : NewRow(w, t) \in Row
    BY DEF NewRow, Row
  <2>3. ASSUME NEW w \in Writer, AppendSelect(w) PROVE TypeOK'
    BY <2>1, <2>3 DEF AppendSelect
  <2>4. ASSUME NEW w \in Writer, AppendInsert(w) PROVE TypeOK'
    BY <2>2, <2>4 DEF AppendInsert
  <2>5. ASSUME NEW w \in Writer, AppendBusy(w) PROVE TypeOK'
    BY <2>5 DEF AppendBusy
  <2>6. ASSUME NEW w \in Writer, OtherWrite(w) PROVE TypeOK'
    BY <2>6 DEF OtherWrite
  <2>7. ASSUME NEW w \in Writer, TxBegin(w) PROVE TypeOK'
    BY <2>7 DEF TxBegin
  <2>8. ASSUME NEW w \in Writer, TxSelect(w) PROVE TypeOK'
    <3> DEFINE rows == IF mode[w] = "open" THEN view[w] ELSE table
    <3>1. rows \in Seq(Row) /\ LastHash(rows) \in Nat
      BY <2>1
    <3>2. view' = [view EXCEPT ![w] = rows] /\ head' = [head EXCEPT ![w] = LastHash(rows)]
      BY <2>8 DEF TxSelect
    <3> HIDE DEF rows
    <3>3. view' \in [Writer -> Seq(Row)] /\ head' \in [Writer -> Nat]
      BY <3>1, <3>2
    <3> QED BY <2>8, <3>3 DEF TxSelect
  <2>9. ASSUME NEW w \in Writer, TxInsert(w) PROVE TypeOK'
    BY <2>2, <2>9 DEF TxInsert
  <2>10. ASSUME NEW w \in Writer, TxBusy(w) PROVE TypeOK'
    BY <2>10 DEF TxBusy, Release
  <2>11. ASSUME NEW w \in Writer, TxCommit(w) PROVE TypeOK'
    BY <2>11 DEF TxCommit, Release
  <2>12. ASSUME NEW w \in Writer, TxRollback(w) PROVE TypeOK'
    BY <2>12 DEF TxRollback, Release
  <2>13. ASSUME NEW p \in Process, Crash(p) PROVE TypeOK'
    BY <2>13 DEF Crash
  <2>14. CASE UNCHANGED vars
    BY <2>14 DEF vars
  <2> QED
    BY <2>3, <2>4, <2>5, <2>6, <2>7, <2>8, <2>9, <2>10, <2>11, <2>12, <2>13, <2>14 DEF Next, Step
<1> QED BY <1>1, <1>2, PTL DEF Spec

-----------------------------------------------------------------------------
(* The write lock                                                           *)

\* With nothing written and no lock taken, the lock invariants hold.
LEMMA LogInvInit == Init => LogInv
  BY NobodyAssumption DEF Init, LogInv, LockInv, SnapshotInv, ViewInv

\* No step of a writer, and no crash, lets two connections hold rows or lets
\* the holder of the write lock miss a commit.
LEMMA LogInvNext == TypeOK /\ TypeOK' /\ LogInv /\ [Next]_vars => LogInv'
<1> SUFFICES ASSUME TypeOK, TypeOK', LogInv, [Next]_vars PROVE LogInv'
  OBVIOUS
<1> USE NobodyAssumption, ProcessOfAssumption
<1> USE DEF LogInv, LockInv, SnapshotInv, ViewInv
<1>1. ASSUME NEW w \in Writer, AppendSelect(w) PROVE LogInv'
  BY <1>1 DEF AppendSelect, TypeOK
<1>2. ASSUME NEW w \in Writer, AppendInsert(w) PROVE LogInv'
  <2>1. writeLock' = Nobody /\ commits' = commits + 1 /\ commits \in Nat
    BY <1>2 DEF AppendInsert, TypeOK
  <2>2. LockInv'
    BY <1>2, <2>1 DEF AppendInsert, TypeOK
  <2>3. SnapshotInv'
    BY <1>2, <2>1 DEF AppendInsert, TypeOK
  <2>4. ViewInv'
    BY <2>1
  <2> QED BY <2>2, <2>3, <2>4
<1>3. ASSUME NEW w \in Writer, AppendBusy(w) PROVE LogInv'
  BY <1>3 DEF AppendBusy, TypeOK
<1>4. ASSUME NEW w \in Writer, OtherWrite(w) PROVE LogInv'
  <2>1. /\ commits' = commits + 1 /\ commits \in Nat /\ writeLock = Nobody
        /\ UNCHANGED <<table, writeLock, mode, view, base>>
    BY <1>4 DEF OtherWrite, TypeOK
  <2>2. LockInv'
    BY <2>1
  <2>3. SnapshotInv'
    <3> SUFFICES ASSUME NEW v \in Writer, mode[v] \in {"open", "reading"}
                 PROVE  base[v] <= commits' /\ base[v] # commits'
      BY <2>1
    <3>1. base[v] \in Nat /\ base[v] <= commits
      BY DEF TypeOK
    <3> QED BY <2>1, <3>1
  <2>4. ViewInv'
    BY <2>1
  <2> QED BY <2>2, <2>3, <2>4
<1>5. ASSUME NEW w \in Writer, TxBegin(w) PROVE LogInv'
  BY <1>5 DEF TxBegin, TypeOK
<1>6. ASSUME NEW w \in Writer, TxSelect(w) PROVE LogInv'
  <2>1. CASE mode[w] = "begun"
    <3>1. view' = [view EXCEPT ![w] = table] /\ base' = [base EXCEPT ![w] = commits]
      BY <1>6, <2>1 DEF TxSelect
    <3>2. writeLock # w
      BY <2>1
    <3> QED BY <1>6, <2>1, <3>1, <3>2 DEF TxSelect, TypeOK
  <2>2. CASE mode[w] = "open"
    <3>1. view' = view /\ base' = base
      BY <1>6, <2>2 DEF TxSelect, TypeOK
    <3> QED BY <1>6, <2>2, <3>1 DEF TxSelect, TypeOK
  <2> QED BY <1>6, <2>1, <2>2 DEF TxSelect
<1>7. ASSUME NEW w \in Writer, TxInsert(w) PROVE LogInv'
  <2>1. IsPrefix(table, view[w]) /\ base[w] = commits
    <3>1. CASE writeLock = w
      BY <3>1 DEF IsStrictPrefix
    <3>2. CASE writeLock = Nobody /\ base[w] = commits
      <4>1. view[w] = table
        BY <1>7, <3>2 DEF TxInsert
      <4> QED BY <3>2, <4>1, PrefixReflexive DEF TypeOK
    <3> QED BY <1>7, <3>1, <3>2 DEF TxInsert, MayWrite
  <2>2. NewRow(w, txn[w]) \in Row
    BY DEF NewRow, Row, TypeOK
  <2>3. IsStrictPrefix(table, Append(view[w], NewRow(w, txn[w])))
    BY <2>1, <2>2, AppendExtends DEF TypeOK
  <2>4. /\ writeLock' = w /\ table' = table /\ base' = base /\ commits' = commits
        /\ view'[w] = Append(view[w], NewRow(w, txn[w]))
        /\ \A v \in Writer \ {w} : view'[v] = view[v] /\ mode'[v] = mode[v]
        /\ mode'[w] = "open" /\ mode[w] = "reading"
    BY <1>7 DEF TxInsert, TypeOK
  <2>5. \A v \in Writer \ {w} : writeLock # v
    BY <1>7 DEF TxInsert, MayWrite
  <2>6. LockInv'
    BY <2>4, <2>5
  <2>7. SnapshotInv'
    BY <2>4, <2>5
  <2>8. ViewInv'
    BY <2>1, <2>3, <2>4
  <2> QED BY <2>6, <2>7, <2>8
<1>8. ASSUME NEW w \in Writer, TxBusy(w) PROVE LogInv'
  BY <1>8 DEF TxBusy, MayWrite, Release, TypeOK
<1>9. ASSUME NEW w \in Writer, TxCommit(w) PROVE LogInv'
  <2>1. writeLock = w /\ writeLock' = Nobody /\ commits' = commits + 1 /\ commits \in Nat
    BY <1>9 DEF TxCommit, Release, TypeOK
  <2>2. /\ base' = base /\ view' = view
        /\ \A v \in Writer : v # w => mode'[v] = mode[v] /\ mode[v] # "open"
        /\ mode'[w] = "idle"
    BY <1>9, <2>1 DEF TxCommit, Release, TypeOK
  <2>3. LockInv'
    BY <2>1, <2>2
  <2>4. SnapshotInv'
    <3> SUFFICES ASSUME NEW v \in Writer, mode'[v] \in {"open", "reading"}
                 PROVE  base'[v] <= commits' /\ base'[v] # commits'
      OBVIOUS
    <3>1. base'[v] = base[v] /\ base[v] \in Nat /\ base[v] <= commits
      BY <2>2 DEF TypeOK
    <3> QED BY <2>1, <3>1
  <2>5. ViewInv'
    BY <2>1
  <2> QED BY <2>3, <2>4, <2>5
<1>10. ASSUME NEW w \in Writer, TxRollback(w) PROVE LogInv'
  BY <1>10 DEF TxRollback, Release, TypeOK
<1>11. ASSUME NEW p \in Process, Crash(p) PROVE LogInv'
  <2> DEFINE dead == {w \in Writer : ProcessOf[w] = p}
  <2>1. /\ mode' = [w \in Writer |-> IF w \in dead THEN "idle" ELSE mode[w]]
        /\ writeLock' = IF writeLock \in dead THEN Nobody ELSE writeLock
        /\ UNCHANGED <<table, commits, view, base>>
    BY <1>11 DEF Crash
  <2>2. \A w \in Writer : writeLock' = w => writeLock = w /\ mode'[w] = mode[w]
    BY <2>1
  <2>3. \A w \in Writer : mode'[w] # "idle" => mode'[w] = mode[w] /\ (writeLock = w => writeLock' = w)
    BY <2>1
  <2> HIDE DEF dead
  <2> QED BY <2>1, <2>2, <2>3
<1>12. CASE UNCHANGED vars
  BY <1>12 DEF vars
<1> QED
  BY <1>1, <1>2, <1>3, <1>4, <1>5, <1>6, <1>7, <1>8, <1>9, <1>10, <1>11, <1>12 DEF Next, Step

\* The lock invariants hold throughout.
LEMMA LogInvCorrect == Spec => []LogInv
  BY LogInvInit, LogInvNext, TypeCorrect, PTL DEF Spec

\* Whoever holds the write lock has seen every committed row.
THEOREM WriterSeesAllCorrect == Spec => []WriterSeesAll
<1>1. LogInv => WriterSeesAll
  BY DEF LogInv, LockInv, ViewInv, WriterSeesAll
<1> QED BY <1>1, LogInvCorrect, PTL

\* A commit publishes the view of the writer that holds the lock, which
\* extends the table: nothing that was committed is lost or rewritten.
THEOREM AppendOnlyCorrect == Spec => AppendOnly
<1>1. TypeOK /\ TypeOK' /\ LogInv /\ [Next]_vars => [IsPrefix(table, table')]_vars
  <2> SUFFICES ASSUME TypeOK, TypeOK', LogInv, [Next]_vars PROVE IsPrefix(table, table')
    OBVIOUS
  <2>1. CASE table' = table
    BY <2>1, PrefixReflexive DEF TypeOK
  <2>2. ASSUME NEW w \in Writer, AppendInsert(w) PROVE IsPrefix(table, table')
    <3>1. NewRow(w, event[w]) \in Row
      BY DEF NewRow, Row, TypeOK
    <3>2. IsPrefix(table, table)
      BY PrefixReflexive DEF TypeOK
    <3> QED BY <2>2, <3>1, <3>2, AppendExtends DEF AppendInsert, TypeOK, IsStrictPrefix
  <2>3. ASSUME NEW w \in Writer, TxCommit(w) PROVE IsPrefix(table, table')
    BY <2>3 DEF TxCommit, LogInv, LockInv, ViewInv, IsStrictPrefix
  <2>4. ASSUME NEW p \in Process, Crash(p) PROVE table' = table
    BY <2>4 DEF Crash
  <2> QED
    BY <2>1, <2>2, <2>3, <2>4 DEF Next, Step, vars, AppendSelect, AppendBusy, OtherWrite,
       TxBegin, TxSelect, TxInsert, TxBusy, TxRollback
<1> QED BY <1>1, TypeCorrect, LogInvCorrect, PTL DEF Spec, AppendOnly

-----------------------------------------------------------------------------
(* The chain                                                                *)

\* Every hash that was read is still that of the last row it will follow.
ChainInv ==
    /\ \A w \in Writer : mode[w] = "selected" =>
           w \in Autonomous /\ head[w] = LastHash(table)
    /\ \A w \in Writer : mode[w] = "reading" => head[w] = LastHash(view[w])
    /\ \A w \in Writer : writeLock = w => Linked(view[w])
    /\ Linked(table)

\* A row that names the last hash extends a linked table to a linked table.
LEMMA LinkedAppend ==
    ASSUME NEW rows \in Seq(Row), NEW row \in Row, Linked(rows), row.prev = LastHash(rows)
    PROVE  Linked(Append(rows, row))
<1> DEFINE more == Append(rows, row)
<1>1. more \in Seq(Row) /\ Len(more) = Len(rows) + 1 /\ Len(rows) \in Nat
  OBVIOUS
<1>2. more[Len(rows) + 1] = row /\ \A i \in 1..Len(rows) : more[i] = rows[i]
  OBVIOUS
<1>3. rows = <<>> <=> Len(rows) = 0
  OBVIOUS
<1> HIDE DEF more
<1>4. SUFFICES ASSUME NEW i \in 1..Len(more)
               PROVE  more[i].prev = IF i = 1 THEN NoHash ELSE more[i - 1].hash
  BY DEF Linked, more
<1>5. CASE i = Len(rows) + 1
  <2>1. CASE i = 1
    BY <1>2, <1>3, <1>5, <2>1 DEF LastHash
  <2>2. CASE i # 1
    <3>1. i - 1 = Len(rows) /\ i - 1 \in 1..Len(rows) /\ rows # <<>>
      BY <1>1, <1>3, <1>5, <2>2
    <3> QED BY <1>2, <1>5, <2>2, <3>1 DEF LastHash
  <2> QED BY <2>1, <2>2
<1>6. CASE i \in 1..Len(rows)
  <2>1. rows[i].prev = IF i = 1 THEN NoHash ELSE rows[i - 1].hash
    BY <1>6 DEF Linked
  <2>2. i # 1 => i - 1 \in 1..Len(rows)
    BY <1>1, <1>6
  <2> QED BY <1>2, <1>6, <2>1, <2>2
<1> QED BY <1>1, <1>5, <1>6

\* The empty table is linked and nobody has read a head yet.
LEMMA ChainInvInit == Init => ChainInv
  BY NobodyAssumption DEF Init, ChainInv, Linked

\* Where one appender is the only active writer, every step keeps the table, the
\* views and the heads that were read linked.
LEMMA ChainInvNext ==
    ASSUME SoleAppender, TypeOK, TypeOK', LogInv, ChainInv, [Next]_vars
    PROVE  ChainInv'
<1> USE NobodyAssumption, ProcessOfAssumption
<1> USE DEF ChainInv
<1>0. \A v, w \in Writer : mode[v] = "selected" => v = w
  BY DEF SoleAppender
<1>1. ASSUME NEW w \in Writer, AppendSelect(w) PROVE ChainInv'
  BY <1>1 DEF AppendSelect, TypeOK
<1>2. ASSUME NEW w \in Writer, AppendInsert(w) PROVE ChainInv'
  <2>1. /\ mode[w] = "selected" /\ writeLock' = Nobody /\ view' = view /\ head' = head
        /\ table' = Append(table, NewRow(w, event[w]))
        /\ mode' = [mode EXCEPT ![w] = "idle"]
    BY <1>2 DEF AppendInsert
  <2>2. NewRow(w, event[w]) \in Row /\ NewRow(w, event[w]).prev = LastHash(table)
    BY <2>1 DEF NewRow, Row, TypeOK
  <2>3. Linked(table')
    BY <2>1, <2>2, LinkedAppend DEF TypeOK
  <2>4. \A v \in Writer : v = w /\ mode'[v] = "idle"
    BY <1>0, <2>1 DEF TypeOK
  <2> QED BY <2>1, <2>3, <2>4
<1>3. ASSUME NEW w \in Writer, AppendBusy(w) PROVE ChainInv'
  BY <1>3 DEF AppendBusy, TypeOK
<1>4. ASSUME NEW w \in Writer, OtherWrite(w) PROVE ChainInv'
  BY <1>4 DEF OtherWrite, TypeOK
<1>5. ASSUME NEW w \in Writer, TxBegin(w) PROVE ChainInv'
  BY <1>5 DEF TxBegin, TypeOK
<1>6. ASSUME NEW w \in Writer, TxSelect(w) PROVE ChainInv'
  <2> DEFINE rows == IF mode[w] = "open" THEN view[w] ELSE table
  <2>1. /\ view' = [view EXCEPT ![w] = rows]
        /\ head' = [head EXCEPT ![w] = LastHash(rows)]
        /\ mode' = [mode EXCEPT ![w] = "reading"]
        /\ table' = table /\ writeLock' = writeLock
    BY <1>6 DEF TxSelect
  <2>2. writeLock = w => Linked(rows)
    OBVIOUS
  <2> HIDE DEF rows
  <2>3. /\ view'[w] = rows /\ head'[w] = LastHash(rows) /\ mode'[w] = "reading"
        /\ \A v \in Writer : v # w =>
               view'[v] = view[v] /\ head'[v] = head[v] /\ mode'[v] = mode[v]
    BY <2>1 DEF TypeOK
  <2> QED BY <2>1, <2>2, <2>3
<1>7. ASSUME NEW w \in Writer, TxInsert(w) PROVE ChainInv'
  <2>1. /\ mode[w] = "reading" /\ mode'[w] = "open"
        /\ writeLock' = w /\ table' = table /\ head' = head
        /\ view'[w] = Append(view[w], NewRow(w, txn[w]))
        /\ \A v \in Writer : v # w => view'[v] = view[v] /\ mode'[v] = mode[v]
    BY <1>7 DEF TxInsert, TypeOK
  <2>2. Linked(view[w])
    <3>1. CASE writeLock = w
      BY <3>1
    <3>2. CASE writeLock = Nobody /\ base[w] = commits
      BY <2>1, <3>2 DEF LogInv, SnapshotInv
    <3> QED BY <1>7, <3>1, <3>2 DEF TxInsert, MayWrite
  <2>3. NewRow(w, txn[w]) \in Row /\ NewRow(w, txn[w]).prev = LastHash(view[w])
    BY <2>1 DEF NewRow, Row, TypeOK
  <2>4. Linked(view'[w])
    BY <2>1, <2>2, <2>3, LinkedAppend DEF TypeOK
  <2> QED BY <2>1, <2>4
<1>8. ASSUME NEW w \in Writer, TxBusy(w) PROVE ChainInv'
  BY <1>8 DEF TxBusy, Release, TypeOK
<1>9. ASSUME NEW w \in Writer, TxCommit(w) PROVE ChainInv'
  <2>1. /\ mode[w] = "open" /\ table' = view[w] /\ writeLock = w
        /\ view' = view /\ head' = head /\ writeLock' = Nobody
        /\ mode' = [mode EXCEPT ![w] = "idle"]
    BY <1>9 DEF TxCommit, Release, LogInv, LockInv
  <2>2. \A v \in Writer : mode'[v] # "selected"
    BY <1>0, <2>1 DEF TypeOK
  <2> QED BY <2>1, <2>2 DEF TypeOK
<1>10. ASSUME NEW w \in Writer, TxRollback(w) PROVE ChainInv'
  BY <1>10 DEF TxRollback, Release, TypeOK
<1>11. ASSUME NEW p \in Process, Crash(p) PROVE ChainInv'
  <2>1. /\ UNCHANGED <<table, head, view>>
        /\ \A v \in Writer : mode'[v] # "idle" => mode'[v] = mode[v]
        /\ \A v \in Writer : writeLock' = v => writeLock = v
    BY <1>11 DEF Crash, TypeOK
  <2> QED BY <2>1
<1>12. CASE UNCHANGED vars
  BY <1>12 DEF vars
<1> QED
  BY <1>1, <1>2, <1>3, <1>4, <1>5, <1>6, <1>7, <1>8, <1>9, <1>10, <1>11, <1>12 DEF Next, Step

\* verify_hash_chain() holds in every state as long as no other writer is
\* active beside one that appends on a connection of its own; transactions
\* alone keep the chain for any number of threads and processes.
THEOREM ChainIntactCorrect == ASSUME SoleAppender PROVE Spec => []ChainIntact
<1>1. ChainInv => ChainIntact
  BY DEF ChainInv, ChainIntact
<1>2. TypeOK /\ TypeOK' /\ LogInv /\ ChainInv /\ [Next]_vars => ChainInv'
  BY ChainInvNext, SoleAppender
<1> QED BY <1>1, <1>2, ChainInvInit, TypeCorrect, LogInvCorrect, PTL DEF Spec

-----------------------------------------------------------------------------
(* The transactions                                                         *)

Active(w) == mode[w] # "idle"

\* The transaction_id under which w's next row will be found.
Mark(w) == IF mode[w] = "selected" THEN event[w] ELSE txn[w]

Contiguous(rows) ==
    \A i, k \in 1..Len(rows) :
        rows[i].txn = rows[k].txn => \A j \in i..k : rows[j].txn = rows[i].txn

\* The marks of what is under way are new, distinct and not yet in the table;
\* the uncommitted rows of the lock's holder all bear its mark.
MarkInv ==
    /\ \A i \in 1..Len(table) : table[i].txn <= fresh
    /\ \A w \in Writer : Active(w) => Mark(w) <= fresh
    /\ \A v, w \in Writer : v # w /\ Active(v) /\ Active(w) => Mark(v) # Mark(w)
    /\ \A w \in Writer : Active(w) => \A i \in 1..Len(table) : table[i].txn # Mark(w)
    /\ \A w \in Writer : writeLock = w =>
           \A i \in Len(table) + 1 .. Len(view[w]) : view[w][i].txn = txn[w]
    /\ Contiguous(table)

\* Rows with a mark of their own, added after the others, leave them as they are.
LEMMA ContiguousExtension ==
    ASSUME NEW old \in Seq(Row), NEW new \in Seq(Row), NEW t,
           IsPrefix(old, new), Contiguous(old),
           \A i \in 1..Len(old) : old[i].txn # t,
           \A i \in Len(old) + 1 .. Len(new) : new[i].txn = t
    PROVE  Contiguous(new)
<1>1. Len(old) \in Nat /\ Len(new) \in Nat /\ Len(old) <= Len(new)
  BY PrefixElements
<1>2. \A i \in 1..Len(old) : new[i] = old[i]
  BY PrefixElements
<1> SUFFICES ASSUME NEW i \in 1..Len(new), NEW k \in 1..Len(new), NEW j \in i..k,
                    new[i].txn = new[k].txn
             PROVE  new[j].txn = new[i].txn
  BY DEF Contiguous
<1>3. CASE k \in 1..Len(old)
  <2>1. i \in 1..Len(old) /\ j \in 1..Len(old)
    BY <1>1, <1>3
  <2>2. old[i].txn = old[k].txn
    BY <1>2, <1>3, <2>1
  <2> QED BY <1>2, <1>3, <2>1, <2>2 DEF Contiguous
<1>4. CASE k \in Len(old) + 1 .. Len(new)
  <2>1. new[i].txn = t
    BY <1>4
  <2>2. i \in Len(old) + 1 .. Len(new)
    <3> SUFFICES i \notin 1..Len(old)
      BY <1>1
    <3> QED BY <1>2, <2>1
  <2>3. j \in Len(old) + 1 .. Len(new)
    BY <1>1, <2>2
  <2> QED BY <2>1, <2>3
<1> QED BY <1>1, <1>3, <1>4

\* No transaction has a number yet.
LEMMA MarkInvInit == Init => MarkInv
  BY NobodyAssumption DEF Init, MarkInv, Active, Contiguous

\* Every step keeps the numbers of the open transactions out of the table and
\* the rows of each finished one together.
LEMMA MarkInvNext ==
    ASSUME TypeOK, TypeOK', LogInv, MarkInv, [Next]_vars
    PROVE  MarkInv'
<1> USE NobodyAssumption, ProcessOfAssumption
<1> USE DEF MarkInv, Active, Mark
<1>0. /\ fresh \in Nat /\ \A i \in 1..Len(table) : table[i].txn \in Nat
      /\ \A w \in Writer : event[w] \in Nat /\ txn[w] \in Nat
  <2>1. \A i \in 1..Len(table) : table[i] \in Row
    BY DEF TypeOK
  <2> QED BY <2>1 DEF TypeOK, Row
\* A step that writes nothing, gives no mark and starts no writer.
<1>idle. ASSUME UNCHANGED <<table, event, view, txn, fresh>>,
                \A v \in Writer : mode'[v] # "idle" => mode'[v] = mode[v],
                \A v \in Writer : writeLock' = v => writeLock = v
         PROVE  MarkInv'
  <2>1. \A v \in Writer : Active(v)' => Active(v) /\ Mark(v)' = Mark(v)
    BY <1>idle
  <2> HIDE DEF Mark, Active
  <2> QED BY <1>idle, <2>1
<1>1. ASSUME NEW w \in Writer, AppendSelect(w) PROVE MarkInv'
  <2>1. /\ mode[w] = "idle" /\ mode'[w] = "selected" /\ event'[w] = fresh + 1
        /\ fresh' = fresh + 1 /\ UNCHANGED <<table, view, writeLock, txn>>
        /\ \A v \in Writer : v # w => mode'[v] = mode[v] /\ event'[v] = event[v]
    BY <1>1 DEF AppendSelect, TypeOK
  <2>2. /\ Mark(w)' = fresh + 1 /\ fresh + 1 > fresh
        /\ \A v \in Writer : v # w => Mark(v)' = Mark(v) /\ (Active(v)' <=> Active(v))
        /\ \A v \in Writer : Mark(v) \in Nat
    BY <1>0, <2>1
  <2> QED
    <3> HIDE DEF Mark, Active
    <3>1. \A i \in 1..Len(table') : table'[i].txn <= fresh'
      BY <1>0, <2>1
    <3>2. \A v \in Writer : Active(v)' => Mark(v)' <= fresh'
      BY <1>0, <2>1, <2>2
    <3>3. \A u, v \in Writer :
             u # v /\ Active(u)' /\ Active(v)' => Mark(u)' # Mark(v)'
      BY <1>0, <2>2
    <3>4. \A v \in Writer : Active(v)' => \A i \in 1..Len(table') : table'[i].txn # Mark(v)'
      BY <1>0, <2>1, <2>2
    <3> QED BY <2>1, <3>1, <3>2, <3>3, <3>4
<1>2. ASSUME NEW w \in Writer, AppendInsert(w) PROVE MarkInv'
  <2> DEFINE row == NewRow(w, event[w])
  <2>1. /\ mode[w] = "selected" /\ mode'[w] = "idle" /\ table' = Append(table, row)
        /\ writeLock' = Nobody /\ UNCHANGED <<event, txn, fresh, view>>
        /\ \A v \in Writer : v # w => mode'[v] = mode[v]
    BY <1>2 DEF AppendInsert, TypeOK
  <2>2. row \in Row /\ row.txn = event[w]
    BY DEF NewRow, Row, TypeOK
  <2> HIDE DEF row
  <2>3. /\ table' \in Seq(Row) /\ Len(table') = Len(table) + 1 /\ Len(table) \in Nat
        /\ table'[Len(table) + 1] = row
        /\ \A i \in 1..Len(table) : table'[i] = table[i]
    BY <2>1, <2>2 DEF TypeOK
  <2>4. IsPrefix(table, table')
    <3>1. table \in Seq(Row)
      BY DEF TypeOK
    <3> QED BY <2>3, <3>1, PrefixElements
  <2>5. \A i \in 1..Len(table') : i \in 1..Len(table) \/ i = Len(table) + 1
    BY <2>3
  <2>6. Contiguous(table')
    <3>1. \A i \in Len(table) + 1 .. Len(table') : table'[i].txn = event[w]
      BY <2>2, <2>3
    <3>2. \A i \in 1..Len(table) : table[i].txn # event[w]
      BY <2>1
    <3> QED BY <2>3, <2>4, <3>1, <3>2, ContiguousExtension DEF TypeOK
  <2>7. \A i \in 1..Len(table') : table'[i].txn = event[w] \/ (i \in 1..Len(table) /\ table'[i] = table[i])
    BY <2>2, <2>3, <2>5
  <2>8. \A i \in 1..Len(table') : table'[i].txn <= fresh'
    BY <2>1, <2>7
  <2>9. \A v \in Writer : v # w /\ Active(v)' => Active(v) /\ Mark(v)' = Mark(v) /\ Mark(v) # event[w]
    BY <2>1
  <2>10. \A v \in Writer : Active(v)' => v # w
    BY <2>1
  <2> QED BY <2>1, <2>6, <2>7, <2>8, <2>9, <2>10
<1>3. ASSUME NEW w \in Writer, AppendBusy(w) PROVE MarkInv'
  BY <1>3, <1>idle DEF AppendBusy, TypeOK
<1>4. ASSUME NEW w \in Writer, OtherWrite(w) PROVE MarkInv'
  BY <1>4, <1>idle DEF OtherWrite
<1>5. ASSUME NEW w \in Writer, TxBegin(w) PROVE MarkInv'
  <2>1. /\ mode[w] = "idle" /\ mode'[w] = "begun" /\ txn'[w] = fresh + 1
        /\ fresh' = fresh + 1 /\ UNCHANGED <<table, view, writeLock, event>>
        /\ \A v \in Writer : v # w => mode'[v] = mode[v] /\ txn'[v] = txn[v]
    BY <1>5 DEF TxBegin, TypeOK
  <2>2. writeLock # w
    BY <2>1 DEF LogInv, LockInv
  <2>3. Mark(w)' = fresh + 1 /\ Active(w)'
    BY <2>1
  <2>4. \A v \in Writer : v # w => Mark(v)' = Mark(v) /\ (Active(v)' <=> Active(v))
    BY <2>1
  <2>5. \A i \in 1..Len(table) : table[i].txn <= fresh' /\ table[i].txn # fresh + 1
    BY <1>0, <2>1
  <2>6. \A v \in Writer : Active(v) => Mark(v) <= fresh' /\ Mark(v) # fresh + 1
    <3>1. \A v \in Writer : Mark(v) \in Nat
      BY <1>0
    <3> QED BY <1>0, <2>1, <3>1
  <2>7. \A v \in Writer : writeLock = v => txn'[v] = txn[v]
    BY <2>1, <2>2
  <2> HIDE DEF Mark, Active
  <2>8. fresh + 1 <= fresh'
    BY <1>0, <2>1
  <2> QED BY <2>1, <2>3, <2>4, <2>5, <2>6, <2>7, <2>8
<1>6. ASSUME NEW w \in Writer, TxSelect(w) PROVE MarkInv'
  <2>1. /\ mode[w] \in {"begun", "open"} /\ mode'[w] = "reading"
        /\ fresh' = fresh + 1 /\ UNCHANGED <<table, writeLock, txn>>
        /\ \A v \in Writer : v # w =>
               mode'[v] = mode[v] /\ event'[v] = event[v] /\ view'[v] = view[v]
    BY <1>6 DEF TxSelect, TypeOK
  <2>2. writeLock = w => view'[w] = view[w]
    BY <1>6 DEF TxSelect, TypeOK, LogInv, LockInv
  <2>3. \A v \in Writer : writeLock = v => view'[v] = view[v]
    BY <2>1, <2>2
  <2>4. \A v \in Writer : Mark(v)' = Mark(v) /\ (Active(v)' <=> Active(v))
    BY <2>1
  <2>5. fresh <= fresh' /\ \A v \in Writer : Mark(v) \in Nat
    BY <1>0, <2>1
  <2>6. \A i \in 1..Len(table) : table[i].txn <= fresh'
    BY <1>0, <2>1
  <2>7. \A v \in Writer : Active(v) => Mark(v) <= fresh'
    BY <1>0, <2>1, <2>5
  <2> QED BY <2>1, <2>3, <2>4, <2>6, <2>7
<1>7. ASSUME NEW w \in Writer, TxInsert(w) PROVE MarkInv'
  <2> DEFINE row == NewRow(w, txn[w])
  <2>1. /\ mode[w] = "reading" /\ mode'[w] = "open" /\ view'[w] = Append(view[w], row)
        /\ writeLock' = w /\ UNCHANGED <<event, txn, fresh, table>>
        /\ \A v \in Writer : v # w => mode'[v] = mode[v]
    BY <1>7 DEF TxInsert, TypeOK
  <2>2. row \in Row /\ row.txn = txn[w]
    BY DEF NewRow, Row, TypeOK
  <2> HIDE DEF row
  <2>3. \A i \in Len(table) + 1 .. Len(view[w]) : view[w][i].txn = txn[w]
    <3>1. CASE writeLock = w
      BY <3>1
    <3>2. CASE writeLock = Nobody /\ base[w] = commits
      <4>1. view[w] = table
        BY <2>1, <3>2 DEF LogInv, SnapshotInv
      <4> QED BY <4>1 DEF TypeOK
    <3> QED BY <1>7, <3>1, <3>2 DEF TxInsert, MayWrite
  <2>4. /\ view[w] \in Seq(Row) /\ Len(view[w]) \in Nat /\ Len(table) \in Nat
    <3>1. view[w] \in Seq(Row) /\ table \in Seq(Row)
      BY DEF TypeOK
    <3> QED BY <3>1
  <2>5. \A i \in Len(table) + 1 .. Len(view'[w]) : view'[w][i].txn = txn[w]
    <3> TAKE i \in Len(table) + 1 .. Len(view'[w])
    <3>1. i \in Len(table) + 1 .. Len(view[w]) \/ i = Len(view[w]) + 1
      BY <2>1, <2>2, <2>4
    <3>2. CASE i \in Len(table) + 1 .. Len(view[w])
      <4>1. view'[w][i] = view[w][i]
        BY <2>1, <2>2, <2>4, <3>2
      <4> QED BY <2>3, <3>2, <4>1
    <3>3. CASE i = Len(view[w]) + 1
      BY <2>1, <2>2, <2>4, <3>3
    <3> QED BY <3>1, <3>2, <3>3
  <2>6. \A v \in Writer : Mark(v)' = Mark(v) /\ (Active(v)' <=> Active(v))
    BY <2>1
  <2>7. \A v \in Writer : writeLock' = v =>
           \A i \in Len(table') + 1 .. Len(view'[v]) : view'[v][i].txn = txn'[v]
    BY <2>1, <2>5
  <2> HIDE DEF Mark, Active, row
  <2>8. UNCHANGED <<table, fresh>>
    BY <2>1
  <2> QED BY <2>6, <2>7, <2>8
<1>8. ASSUME NEW w \in Writer, TxBusy(w) PROVE MarkInv'
  <2>1. /\ UNCHANGED <<table, event, view, txn, fresh>>
        /\ \A v \in Writer : mode'[v] # "idle" => mode'[v] = mode[v]
        /\ \A v \in Writer : writeLock' = v => writeLock = v
    BY <1>8 DEF TxBusy, Release, TypeOK
  <2> QED BY <2>1, <1>idle
<1>9. ASSUME NEW w \in Writer, TxCommit(w) PROVE MarkInv'
  <2>1. /\ mode[w] = "open" /\ mode'[w] = "idle" /\ table' = view[w]
        /\ writeLock = w /\ writeLock' = Nobody /\ UNCHANGED <<event, txn, fresh, view>>
        /\ \A v \in Writer : v # w => mode'[v] = mode[v]
    BY <1>9 DEF TxCommit, Release, TypeOK, LogInv, LockInv
  <2>2. IsPrefix(table, table')
    BY <2>1 DEF LogInv, ViewInv, IsStrictPrefix
  <2>3. /\ Len(table) <= Len(table') /\ Len(table) \in Nat /\ Len(table') \in Nat
        /\ \A i \in 1..Len(table) : table'[i] = table[i]
    <3>1. table \in Seq(Row) /\ table' \in Seq(Row)
      BY DEF TypeOK
    <3> HIDE DEF MarkInv
    <3> QED BY <2>2, <3>1, PrefixElements
  <2>4. \A i \in Len(table) + 1 .. Len(table') : table'[i].txn = txn[w]
    BY <2>1
  <2>5. Contiguous(table')
    <3>1. \A i \in 1..Len(table) : table[i].txn # txn[w]
      BY <2>1
    <3> QED BY <2>2, <2>4, <3>1, ContiguousExtension DEF TypeOK
  <2>6. \A i \in 1..Len(table') : table'[i].txn = txn[w] \/ (i \in 1..Len(table) /\ table'[i] = table[i])
    BY <2>3, <2>4
  <2>7. \A i \in 1..Len(table') : table'[i].txn <= fresh'
    BY <2>1, <2>6
  <2>8. \A v \in Writer : v # w /\ Active(v)' => Active(v) /\ Mark(v)' = Mark(v) /\ Mark(v) # txn[w]
    BY <2>1
  <2>9. \A v \in Writer : Active(v)' => v # w
    BY <2>1
  <2> QED BY <2>1, <2>5, <2>6, <2>7, <2>8, <2>9
<1>10. ASSUME NEW w \in Writer, TxRollback(w) PROVE MarkInv'
  <2>1. /\ UNCHANGED <<table, event, view, txn, fresh>>
        /\ \A v \in Writer : mode'[v] # "idle" => mode'[v] = mode[v]
        /\ \A v \in Writer : writeLock' = v => writeLock = v
    BY <1>10 DEF TxRollback, Release, TypeOK
  <2> QED BY <2>1, <1>idle
<1>11. ASSUME NEW p \in Process, Crash(p) PROVE MarkInv'
  <2>1. /\ UNCHANGED <<table, event, view, txn, fresh>>
        /\ \A v \in Writer : mode'[v] # "idle" => mode'[v] = mode[v]
        /\ \A v \in Writer : writeLock' = v => writeLock = v
    BY <1>11 DEF Crash, TypeOK
  <2> QED BY <2>1, <1>idle
<1>12. CASE UNCHANGED vars
  BY <1>12 DEF vars
<1> QED
  BY <1>1, <1>2, <1>3, <1>4, <1>5, <1>6, <1>7, <1>8, <1>9, <1>10, <1>11, <1>12 DEF Next, Step

\* Numbers of open transactions stay out of the table throughout.
LEMMA MarkInvCorrect == Spec => []MarkInv
<1>1. TypeOK /\ TypeOK' /\ LogInv /\ MarkInv /\ [Next]_vars => MarkInv'
  BY MarkInvNext
<1> QED BY <1>1, MarkInvInit, TypeCorrect, LogInvCorrect, PTL DEF Spec

\* The rows of one transaction are neighbours in ledger_seq order, even where
\* the hash chain forks.
THEOREM TransactionContiguousCorrect == Spec => []TransactionContiguous
<1>1. MarkInv => TransactionContiguous
  BY DEF MarkInv, Contiguous, TransactionContiguous
<1> QED BY <1>1, MarkInvCorrect, PTL

\* No row of a transaction that is still open can be read.
THEOREM NoPartialTransactionCorrect == Spec => []NoPartialTransaction
<1>1. MarkInv => NoPartialTransaction
  BY DEF MarkInv, Active, Mark, InTransaction, NoPartialTransaction
<1> QED BY <1>1, MarkInvCorrect, PTL

\* The stages of a governed mutation are neighbours, and are seen all or none.
THEOREM TransactionAtomicCorrect == Spec => []TransactionAtomic
<1>1. TransactionContiguous /\ NoPartialTransaction => TransactionAtomic
  BY DEF TransactionAtomic
<1> QED BY <1>1, TransactionContiguousCorrect, NoPartialTransactionCorrect, PTL

-----------------------------------------------------------------------------
(* The ledger as a log                                                      *)

\* A longer table whose new rows share a mark that is not yet in it has grown by
\* one transaction.
LEMMA ExtensionPublishes ==
    ASSUME NEW t, IsStrictPrefix(table, table'),
           \A i \in 1..Len(table) : table[i].txn # t,
           \A i \in Len(table) + 1 .. Len(table') : table'[i].txn = t
    PROVE  Committed!Publish
<1>1. Committed!IsStrictPrefix(table, table')
  BY DEF IsStrictPrefix, IsPrefix, Committed!IsStrictPrefix, Committed!IsPrefix
<1>2. \A i, j \in Len(table) + 1 .. Len(table') : table'[i].txn = table'[j].txn
  OBVIOUS
<1>3. \A i \in 1..Len(table), j \in Len(table) + 1 .. Len(table') : table[i].txn # table'[j].txn
  OBVIOUS
<1> QED BY <1>1, <1>2, <1>3 DEF Committed!Publish, Committed!Added

\* Only the end of an append and a commit change the table: the first adds a row
\* with the mark of its event, the second what the transaction has written.
LEMMA StepPublishes ==
    ASSUME TypeOK, TypeOK', LogInv, MarkInv, [Next]_vars
    PROVE  [Committed!Publish]_table
<1> USE NobodyAssumption
<1>1. ASSUME NEW w \in Writer, AppendInsert(w) PROVE Committed!Publish
  <2> DEFINE row == NewRow(w, event[w])
  <2>1. mode[w] = "selected" /\ table' = Append(table, row)
    BY <1>1 DEF AppendInsert
  <2>2. row \in Row /\ row.txn = event[w] /\ table \in Seq(Row)
    BY DEF NewRow, Row, TypeOK
  <2> HIDE DEF row
  <2>3. IsStrictPrefix(table, table')
    BY <2>1, <2>2, PrefixReflexive, AppendExtends
  <2>4. \A i \in 1..Len(table) : table[i].txn # event[w]
    BY <2>1 DEF MarkInv, Active, Mark
  <2>5. \A i \in Len(table) + 1 .. Len(table') : table'[i].txn = event[w]
    BY <2>1, <2>2
  <2> QED BY <2>3, <2>4, <2>5, ExtensionPublishes
<1>2. ASSUME NEW w \in Writer, TxCommit(w) PROVE Committed!Publish
  <2>1. mode[w] = "open" /\ table' = view[w] /\ writeLock = w
    BY <1>2 DEF TxCommit, LogInv, LockInv
  <2>2. IsStrictPrefix(table, table')
    BY <2>1 DEF LogInv, ViewInv
  <2>3. \A i \in 1..Len(table) : table[i].txn # txn[w]
    BY <2>1 DEF MarkInv, Active, Mark
  <2>4. \A i \in Len(table) + 1 .. Len(table') : table'[i].txn = txn[w]
    BY <2>1 DEF MarkInv
  <2> QED BY <2>2, <2>3, <2>4, ExtensionPublishes
<1>3. ASSUME NEW p \in Process, Crash(p) PROVE table' = table
  BY <1>3 DEF Crash
<1> QED
  BY <1>1, <1>2, <1>3 DEF Next, Step, vars, AppendSelect, AppendBusy, OtherWrite,
     TxBegin, TxSelect, TxInsert, TxBusy, TxRollback

\* Whatever writers, processes and ways of appending there are, and wherever they
\* die, the committed rows are a log that grows by whole transactions.
THEOREM GrowsByTransactionsCorrect == Spec => GrowsByTransactions
<1>1. Init => Committed!Init
  BY DEF Init, Committed!Init
<1>2. TypeOK /\ TypeOK' /\ LogInv /\ MarkInv /\ [Next]_vars => [Committed!Publish]_table
  BY StepPublishes
<1> QED
  BY <1>1, <1>2, TypeCorrect, LogInvCorrect, MarkInvCorrect, PTL
  DEF Spec, GrowsByTransactions, Committed!Spec

=============================================================================
