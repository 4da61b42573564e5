-------------------------- MODULE LedgerReplayProofs --------------------------
(***************************************************************************)
(* What LedgerReplay does for any number of namespaces, memories, edges and *)
(* transactions: nothing recorded is lost, the chain verifies, a content is *)
(* explained, an answered trace replayed, a committed state reconstructed.  *)
(***************************************************************************)
EXTENDS LedgerReplay, FiniteSetTheorems, SequenceTheorems, WellFoundedInduction, TLAPS

-----------------------------------------------------------------------------
(* Positions, rows and their order                                          *)

\* A set of numbers that has a member has a least one. (A number n is taken for
\* the set 0..n: finite sets have no endless chain of smaller ones.)
LEMMA LeastNatural ==
  ASSUME NEW T \in SUBSET Nat, NEW t \in T
  PROVE  \E n \in T : \A m \in T : n <= m
<1> DEFINE F == {0..n : n \in {m \in T : m <= t}}
<1>1. IsFiniteSet(0..t)
  BY FS_Interval
<1>2. F \subseteq FiniteSubsetsOf(0..t) /\ F # {}
  <2>1. \A U \in F : U \subseteq 0..t
    OBVIOUS
  <2>2. \A U \in F : IsFiniteSet(U)
    BY <1>1, <2>1, FS_Subset
  <2>3. 0..t \in F
    OBVIOUS
  <2> QED BY <2>1, <2>2, <2>3 DEF FiniteSubsetsOf
<1>3. \E U \in F : \A V \in F : <<V, U>> \notin StrictSubsetOrdering(0..t)
  <2> HIDE DEF F
  <2> QED BY <1>2, FS_StrictSubsetOrderingWellFounded, WFMin
<1>4. PICK n \in T : n <= t /\ \A V \in F : <<V, 0..n>> \notin StrictSubsetOrdering(0..t)
  BY <1>3
<1>5. ASSUME NEW m \in T, m < n PROVE FALSE
  <2>1. 0..m \in F /\ 0..m \subseteq 0..n /\ 0..n \subseteq 0..t
    BY <1>4, <1>5
  <2>2. n \in 0..n /\ n \notin 0..m
    BY <1>5
  <2> QED BY <1>4, <2>1, <2>2 DEF StrictSubsetOrdering
<1> QED BY <1>4, <1>5

\* A set of positions that has a member has a last one.
LEMMA GreatestPosition ==
  ASSUME NEW n \in Nat, NEW T \in SUBSET (1..n), NEW t \in T
  PROVE  Max(T) \in T /\ \A m \in T : m <= Max(T)
<1>1. {n - i : i \in T} \in SUBSET Nat /\ n - t \in {n - i : i \in T}
  OBVIOUS
<1>2. PICK d \in {n - i : i \in T} : \A e \in {n - i : i \in T} : d <= e
  BY <1>1, LeastNatural
<1>3. \E x \in T : \A y \in T : x >= y
  <2>1. PICK x \in T : d = n - x
    BY <1>2
  <2>2. \A y \in T : n - x <= n - y
    BY <1>2, <2>1
  <2> QED BY <2>2
<1>4. Max(T) \in T /\ \A m \in T : Max(T) >= m
  BY <1>3 DEF Max
<1> QED BY <1>4

\* The link to a row of a table is one a row may have.
LEMMA HashType ==
  ASSUME NEW rows \in Seq(Row), NEW i \in DOMAIN rows
  PROVE  Hash(rows, i) \in Seq(Int)
<1>1. i \in Int /\ rows[i] \in Row
  OBVIOUS
<1>2. rows[i].txn \in Int /\ rows[i].at \in Int
  BY <1>1 DEF Row
<1> QED BY <1>1, <1>2 DEF Hash

\* A row that is appended is the last one, says what it said, and is linked to
\* the row before it; the others stay what they are.
LEMMA ChainedFacts ==
  ASSUME NEW rows \in Seq(Row), NEW row \in Row
  PROVE  /\ Chained(rows, row) \in Seq(Row)
         /\ Len(Chained(rows, row)) = Len(rows) + 1
         /\ \A i \in 1..Len(rows) : Chained(rows, row)[i] = rows[i]
         /\ LET last == Chained(rows, row)[Len(rows) + 1]
            IN  last = [row EXCEPT !.prev = IF rows = <<>> THEN <<>> ELSE Hash(rows, Len(rows))]
<1> DEFINE prev == IF rows = <<>> THEN <<>> ELSE Hash(rows, Len(rows))
           last == [row EXCEPT !.prev = prev]
<1>1. Len(rows) \in Nat /\ DOMAIN rows = 1..Len(rows) /\ (rows # <<>> => Len(rows) \in DOMAIN rows)
  OBVIOUS
<1>2. <<>> \in Seq(Int)
  OBVIOUS
<1>3. prev \in Seq(Int)
  BY <1>1, <1>2, HashType
<1> HIDE DEF prev
<1>4. last \in Row
  BY <1>3 DEF Row
<1>5. Chained(rows, row) = Append(rows, last)
  BY DEF Chained, prev
<1> HIDE DEF last
<1>6. /\ Append(rows, last) \in Seq(Row)
      /\ Len(Append(rows, last)) = Len(rows) + 1
      /\ \A i \in 1..Len(rows) : Append(rows, last)[i] = rows[i]
      /\ Append(rows, last)[Len(rows) + 1] = last
  BY <1>1, <1>4
<1> QED BY <1>5, <1>6 DEF last, prev

\* ORDER BY loses no row and invents none: a row is placed where no other is,
\* since of two rows with different ledger_ids one is earlier.
LEMMA InOrderFacts ==
  ASSUME NEW rows \in Seq(Row),
         \A i, j \in DOMAIN rows : rows[i].txn = rows[j].txn => i = j
  PROVE  /\ InOrder(rows) \in Seq(Row)
         /\ DOMAIN InOrder(rows) = DOMAIN rows
         /\ \A k \in DOMAIN rows : \E i \in DOMAIN rows : InOrder(rows)[k] = rows[i]
         /\ \A i \in DOMAIN rows : \E k \in DOMAIN rows : InOrder(rows)[k] = rows[i]
<1> DEFINE n == Len(rows)
           D == 1..n
           Before(i) == {j \in D : Earlier(rows[j], rows[i])}
           rank == [i \in D |-> Cardinality(Before(i)) + 1]
<1>1. n \in Nat /\ DOMAIN rows = D /\ IsFiniteSet(D) /\ Cardinality(D) = n
  <2>1. n \in Nat /\ DOMAIN rows = D
    OBVIOUS
  <2>2. IsFiniteSet(1..n) /\ Cardinality(1..n) = IF 1 > n THEN 0 ELSE n - 1 + 1
    BY <2>1, FS_Interval
  <2> QED BY <2>1, <2>2
<1>2. \A i \in D : rows[i] \in Row /\ rows[i].txn \in Int /\ rows[i].at \in Int
  <2>1. \A i \in D : rows[i] \in Row
    BY <1>1
  <2> QED BY <2>1 DEF Row
<1>3. \A i \in D : IsFiniteSet(Before(i)) /\ Cardinality(Before(i)) \in Nat
  <2> TAKE i \in D
  <2>1. Before(i) \in SUBSET D
    OBVIOUS
  <2> QED BY <1>1, <2>1, FS_Subset, FS_CardinalityType
<1>4. ASSUME NEW i \in D, NEW j \in D, i # j, Cardinality(Before(i)) = Cardinality(Before(j))
      PROVE  FALSE
  <2>1. \A k, l \in D : Earlier(rows[k], rows[l]) => Before(k) \subseteq Before(l) /\ k \in Before(l) /\ k \notin Before(k)
    <3>1. \A x, y, z \in D : Earlier(rows[x], rows[y]) /\ Earlier(rows[y], rows[z]) => Earlier(rows[x], rows[z])
      <4> TAKE x, y, z \in D
      <4>1. /\ rows[x].at \in Int /\ rows[y].at \in Int /\ rows[z].at \in Int
            /\ rows[x].txn \in Int /\ rows[y].txn \in Int /\ rows[z].txn \in Int
        BY <1>2
      <4> HIDE DEF D
      <4> QED BY <4>1 DEF Earlier
    <3>2. \A x \in D : ~Earlier(rows[x], rows[x])
      BY <1>2 DEF Earlier
    <3> QED BY <3>1, <3>2
  <2>2. \A k, l \in D : Earlier(rows[k], rows[l]) => Cardinality(Before(k)) # Cardinality(Before(l))
    <3> TAKE k, l \in D
    <3> HAVE Earlier(rows[k], rows[l])
    <3>1. Before(k) \in SUBSET Before(l) /\ Before(k) # Before(l)
      BY <2>1
    <3>2. IsFiniteSet(Before(l))
      BY <1>3
    <3> HIDE DEF Before
    <3> QED BY <3>1, <3>2, FS_Subset
  <2>3. rows[i].txn # rows[j].txn
    BY <1>1, <1>4
  <2>4. Earlier(rows[i], rows[j]) \/ Earlier(rows[j], rows[i])
    BY <1>2, <2>3 DEF Earlier
  <2> HIDE DEF Before
  <2> QED BY <1>4, <2>2, <2>4
<1>5. \A i \in D : Cardinality(Before(i)) < n
  <2> TAKE i \in D
  <2>1. Before(i) \in SUBSET D /\ i \notin Before(i)
    BY <1>2 DEF Earlier
  <2>2. Cardinality(Before(i)) <= n /\ Cardinality(Before(i)) # n
    <3> HIDE DEF Before
    <3> QED BY <1>1, <2>1, FS_Subset
  <2> HIDE DEF Before
  <2> QED BY <1>1, <1>3, <2>2
<1>6. rank \in [D -> D]
  <2> HIDE DEF Before
  <2> QED BY <1>1, <1>3, <1>5
<1>7. rank \in Injection(D, D)
  <2>1. \A i, j \in D : rank[i] = rank[j] => i = j
    <3> HIDE DEF Before
    <3> QED BY <1>3, <1>4
  <2> HIDE DEF rank
  <2> QED BY <1>6, <2>1 DEF Injection, IsInjective
<1>8. rank \in Surjection(D, D)
  <2> HIDE DEF rank
  <2> QED BY <1>1, <1>7, FS_Injection
<1>9. \A k \in D : \E i \in D : rank[i] = k
  <2> HIDE DEF rank
  <2> QED BY <1>8 DEF Surjection
<1>10. \A k \in D : \E i \in D : Cardinality(Before(i)) = k - 1
  <2> TAKE k \in D
  <2>1. PICK i \in D : rank[i] = k
    BY <1>9
  <2>2. rank[i] = Cardinality(Before(i)) + 1
    OBVIOUS
  <2> HIDE DEF Before, rank
  <2>3. Cardinality(Before(i)) = k - 1
    BY <1>1, <1>3, <2>1, <2>2
  <2> QED BY <2>3
<1> DEFINE Placed(k) == CHOOSE i \in D : Cardinality(Before(i)) = k - 1
<1>11. \A k \in D : Placed(k) \in D /\ Cardinality(Before(Placed(k))) = k - 1
  <2> HIDE DEF Before
  <2> QED BY <1>10
<1>12. InOrder(rows) = [k \in D |-> rows[Placed(k)]]
  BY <1>1 DEF InOrder
<1>13. \A i \in D : rank[i] \in D /\ Placed(rank[i]) = i
  <2> TAKE i \in D
  <2>1. rank[i] \in D /\ rank[i] - 1 = Cardinality(Before(i))
    <3>1. rank[i] \in D
      <4> HIDE DEF rank
      <4> QED BY <1>6
    <3> HIDE DEF Before
    <3> QED BY <1>3, <3>1
  <2>2. Placed(rank[i]) \in D /\ Cardinality(Before(Placed(rank[i]))) = Cardinality(Before(i))
    <3> HIDE DEF Before, Placed, rank
    <3> QED BY <1>11, <2>1
  <2> HIDE DEF Before, Placed, rank
  <2> QED BY <1>4, <2>1, <2>2
<1> HIDE DEF Placed, rank, Before
<1>14. InOrder(rows) \in [D -> Row] /\ DOMAIN InOrder(rows) = D
  BY <1>1, <1>11, <1>12
<1>15. \A k \in D : InOrder(rows)[k] = rows[Placed(k)]
  BY <1>12
<1>16. InOrder(rows) \in Seq(Row)
  BY <1>1, <1>14
<1>17. \A k \in D : \E i \in D : InOrder(rows)[k] = rows[i]
  BY <1>11, <1>15
<1>18. \A i \in D : \E k \in D : InOrder(rows)[k] = rows[i]
  BY <1>13, <1>15
<1> QED BY <1>1, <1>14, <1>16, <1>17, <1>18

\* _rehash_chain() changes nothing but the links, and links every row.
LEMMA RehashedFacts ==
  ASSUME NEW rows \in Seq(Row)
  PROVE  /\ Rehashed(rows) \in Seq(Row)
         /\ DOMAIN Rehashed(rows) = DOMAIN rows
         /\ \A i \in DOMAIN rows :
                /\ Rehashed(rows)[i] = [rows[i] EXCEPT !.prev = Rehashed(rows)[i].prev]
                /\ Rehashed(rows)[i].prev = IF i = 1 THEN <<>> ELSE Hash(Rehashed(rows), i - 1)
<1> DEFINE Prev(i) == IF i = 1 THEN <<>> ELSE Hash(rows, i - 1)
<1>1. Len(rows) \in Nat /\ DOMAIN rows = 1..Len(rows) /\ \A i \in 1..Len(rows) : rows[i] \in Row
  OBVIOUS
<1>2. <<>> \in Seq(Int)
  OBVIOUS
<1>3. \A i \in 1..Len(rows) : Prev(i) \in Seq(Int)
  BY <1>1, <1>2, HashType
<1>4. Rehashed(rows) = [i \in 1..Len(rows) |-> [rows[i] EXCEPT !.prev = Prev(i)]]
  BY <1>1 DEF Rehashed
<1> HIDE DEF Prev
<1>5. \A i \in 1..Len(rows) :
        /\ [rows[i] EXCEPT !.prev = Prev(i)] \in Row
        /\ [rows[i] EXCEPT !.prev = Prev(i)].prev = Prev(i)
        /\ [rows[i] EXCEPT !.prev = Prev(i)].txn = rows[i].txn
        /\ [rows[i] EXCEPT !.prev = Prev(i)].at = rows[i].at
  BY <1>1, <1>3 DEF Row
<1>6. /\ Rehashed(rows) \in [1..Len(rows) -> Row]
      /\ \A i \in 1..Len(rows) : Rehashed(rows)[i] = [rows[i] EXCEPT !.prev = Prev(i)]
  BY <1>4, <1>5
<1>7. \A i \in 1..Len(rows) : i # 1 => Hash(Rehashed(rows), i - 1) = Hash(rows, i - 1)
  <2> TAKE i \in 1..Len(rows)
  <2> HAVE i # 1
  <2>1. i - 1 \in 1..Len(rows)
    BY <1>1
  <2>2. Rehashed(rows)[i - 1].txn = rows[i - 1].txn /\ Rehashed(rows)[i - 1].at = rows[i - 1].at
    BY <1>5, <1>6, <2>1
  <2> QED BY <2>2 DEF Hash
<1>8. \A i \in 1..Len(rows) : Prev(i) = IF i = 1 THEN <<>> ELSE Hash(Rehashed(rows), i - 1)
  BY <1>7 DEF Prev
<1>9. Rehashed(rows) \in Seq(Row) /\ DOMAIN Rehashed(rows) = 1..Len(rows)
  BY <1>1, <1>6
<1>10. \A i \in 1..Len(rows) : Rehashed(rows)[i].prev = Prev(i)
  BY <1>5, <1>6
<1> QED BY <1>1, <1>6, <1>8, <1>9, <1>10

-----------------------------------------------------------------------------
(* The inductive invariant                                                  *)

\* The records of a store that k transactions have seen.
Counted(k) == [body : 0..k, uses : 0..k]

Store == [Memory -> Counted(fresh) \cup {None}]

Links == [Link -> 0..fresh]

\* What every variable holds. No counter and no transaction is ahead of the
\* transactions drawn so far.
ShapeInv ==
    /\ fresh \in 0..MaxTxn
    /\ memory \in Store
    /\ link \in Links
    /\ table \in Seq(Row) /\ renamed \in Seq(Row)
    /\ \A i \in DOMAIN table : table[i].txn <= fresh /\ table[i].trace <= fresh
    /\ file \in {"old", "renamed", "created", "current"}
    /\ versions \subseteq [of : Memory, txn : 1..fresh, state : Counted(fresh)]
    /\ linked \subseteq [of : Link, txn : 1..fresh, state : 1..fresh]
    /\ claims \in [Claim -> Content \cup {None}]
    /\ impact \in Content \cup {None} /\ slots \in Seq(Content)
    /\ impact = None <=> slots = <<>>
    /\ traces \subseteq [txn : 1..fresh, selected : SUBSET Memory]
    /\ live \subseteq 1..fresh /\ answered \subseteq 1..fresh
    /\ mode \in {"down", "migrating", "idle", "searched", "logged", "persisted"}
    /\ after \in Seq([memory : Store, link : Links]) /\ Len(after) = fresh

\* Where the rows are while a file is migrated. Nothing is drawn before the
\* ledger is open.
FileInv ==
    /\ file # "current" => mode \in {"down", "migrating"} /\ fresh = 0
    /\ file = "old" => mode = "down" /\ table = OldRows /\ renamed = <<>>
    /\ file \in {"renamed", "created"} => table = <<>>
    /\ mode = "migrating" => file \in {"renamed", "created"}
    /\ renamed \in {<<>>, OldRows}

\* Once the file is renamed, every row is linked to the one before it.
ChainInv ==
    file # "old" => \A i \in DOMAIN table : table[i].prev = IF i = 1 THEN <<>> ELSE Hash(table, i - 1)

\* A row that memory m owes its content of transaction t to.
Explains(row, m, t) == row.txn = t /\ row.ns = HomeOf[m] /\ m \in row.memories

\* Every content that is not from before the ledger has such a row.
ContentInv ==
    \A m \in Present : memory[m].body # 0 => \E i \in DOMAIN table : Explains(table[i], m, memory[m].body)

\* A row of a query that found what it selected, and of nothing else.
OfQuery(row, selected) == row.targets = selected /\ selected \subseteq row.memories

\* What the process holds of the query it is in: a trace that no row or file
\* names before LogQuery, and one row names after it.
QueryInv ==
    /\ mode \in {"searched", "logged", "persisted"} =>
           /\ query.txn = fresh /\ fresh # 0 /\ query.ns \in Namespace /\ query.selected \subseteq Memory
    /\ mode = "searched" =>
           /\ query.selected \subseteq Accessed
           /\ \A i \in DOMAIN table : table[i].txn # fresh /\ table[i].trace # fresh
    /\ mode \in {"searched", "logged"} => \A f \in traces : f.txn # fresh
    /\ mode \in {"logged", "persisted"} =>
           /\ \E i \in DOMAIN table : table[i].trace = fresh
           /\ \A i \in DOMAIN table : table[i].trace = fresh => OfQuery(table[i], query.selected)

\* A trace file tells of its row, and every answer has left a row.
TraceInv ==
    /\ \A f \in traces : \A i \in DOMAIN table : table[i].trace = f.txn => OfQuery(table[i], f.selected)
    /\ \A t \in answered : \E i \in DOMAIN table : table[i].trace = t

\* The transactions follow one another in the ledger, the old rows before them;
\* a transaction has one namespace, and one that committed has left nothing but
\* its COMMITTED and AUDITED rows.
OrderInv ==
    \A i, j \in DOMAIN table :
        table[i].txn >= 1 =>
            /\ i <= j => table[i].txn <= table[j].txn
            /\ table[i].txn = table[j].txn =>
                   /\ table[i].ns = table[j].ns
                   /\ table[i].phase \in {"COMMITTED", "AUDITED"} => table[j].phase \in {"COMMITTED", "AUDITED"}

\* t is committed, by namespace n.
CommittedBy(t, n) ==
    \E i \in DOMAIN table : table[i].txn = t /\ table[i].ns = n /\ table[i].phase = "COMMITTED"

\* Every version is of a committed transaction and is what that transaction
\* left, and every target, edge and frame of a committed transaction has one.
VersionInv ==
    /\ \A v \in versions : v.state = after[v.txn].memory[v.of] /\ \E n \in Namespace : CommittedBy(v.txn, n)
    /\ \A v \in linked : v.state = v.txn /\ \E n \in Namespace : CommittedBy(v.txn, n)
    /\ \A i \in DOMAIN table :
           table[i].txn >= 1 /\ table[i].phase \in {"COMMITTED", "AUDITED"} =>
               /\ \A m \in table[i].targets : \E v \in versions : v.of = m /\ v.txn = table[i].txn
               /\ \A l \in table[i].links : \E v \in linked : v.of = l /\ v.txn = table[i].txn

\* Memory m was created by a transaction of its namespace, no later than t, that
\* left a version of it.
CreatedBy(m, t) == \E v \in versions : v.of = m /\ v.txn <= t /\ CommittedBy(v.txn, HomeOf[m])

\* So has every memory that came after the ledger.
CreationInv ==
    /\ \A m \in Present \ Stored : CreatedBy(m, fresh)
    /\ \A t \in DOMAIN after : \A m \in Memory \ Stored : after[t].memory[m] # None => CreatedBy(m, t)

IInv ==
    /\ ShapeInv /\ FileInv /\ ChainInv /\ ContentInv /\ QueryInv /\ TraceInv
    /\ OrderInv /\ VersionInv /\ CreationInv

-----------------------------------------------------------------------------
(* What the steps of the ledger write                                       *)

\* A row with these fields.
Says(row, t, trace, n, phase, targets, memories, links) ==
    /\ row.txn = t /\ row.trace = trace /\ row.ns = n /\ row.phase = phase
    /\ row.targets = targets /\ row.memories = memories /\ row.links = links

\* The link of a new last row.
Linked(rows, row) == row.prev = IF Len(rows) = 0 THEN <<>> ELSE Hash(rows, Len(rows))

\* "No record" is not a record.
LEMMA NoneIsNoRecord ==
  ASSUME NEW k \in 0..MaxTxn
  PROVE  None \notin Counted(k)
<1>1. Counted(k) \subseteq [body : 0..MaxTxn, uses : 0..MaxTxn]
  BY BoundAssumption DEF Counted
<1> QED BY <1>1, NoneAssumption

\* The positions of the table, and what stands there.
LEMMA RowTypes ==
  ASSUME ShapeInv
  PROVE  /\ Len(table) \in Nat /\ DOMAIN table = 1..Len(table)
         /\ \A i \in 1..Len(table) :
                /\ table[i] \in Row /\ table[i].txn \in Int /\ table[i].trace \in Int
                /\ table[i].txn <= fresh /\ table[i].trace <= fresh
<1>1. Len(table) \in Nat /\ DOMAIN table = 1..Len(table) /\ \A i \in 1..Len(table) : table[i] \in Row
  BY DEF ShapeInv
<1>2. \A row \in Row : row.txn \in Int /\ row.trace \in Int
  BY BoundAssumption DEF Row
<1> QED BY <1>1, <1>2 DEF ShapeInv

\* A new row is a row, wherever it goes.
LEMMA NewRowFacts ==
  ASSUME NEW rows \in Seq(Row), NEW t \in 1..MaxTxn, NEW n \in Namespace,
         NEW phase \in {"COMMITTED", "AUDITED", "REJECTED", "RETRIEVED"},
         NEW targets \in SUBSET Memory, NEW memories \in SUBSET Memory, NEW links \in SUBSET Link
  PROVE  LET more == Chained(rows, NewRow(t, t, n, phase, targets, memories, links))
             row == more[Len(rows) + 1]
         IN  /\ more \in Seq(Row) /\ Len(more) = Len(rows) + 1
             /\ \A i \in 1..Len(rows) : more[i] = rows[i]
             /\ Says(row, t, t, n, phase, targets, memories, links)
             /\ Linked(rows, row)
<1> DEFINE new == NewRow(t, t, n, phase, targets, memories, links)
           more == Chained(rows, new)
           prev == IF rows = <<>> THEN <<>> ELSE Hash(rows, Len(rows))
<1>1. <<>> \in Seq(Int)
  OBVIOUS
<1>2. new \in Row
  BY <1>1, BoundAssumption DEF NewRow, Row
<1>3. /\ more \in Seq(Row) /\ Len(more) = Len(rows) + 1
      /\ \A i \in 1..Len(rows) : more[i] = rows[i]
      /\ more[Len(rows) + 1] = [new EXCEPT !.prev = prev]
  <2> HIDE DEF new
  <2> QED BY <1>2, ChainedFacts
<1>4. rows = <<>> <=> Len(rows) = 0
  OBVIOUS
<1>5. Says([new EXCEPT !.prev = prev], t, t, n, phase, targets, memories, links)
  <2> HIDE DEF prev
  <2> QED BY DEF NewRow, Says
<1>6. [new EXCEPT !.prev = prev].prev = prev
  <2> HIDE DEF prev
  <2> QED BY DEF NewRow
<1> QED BY <1>3, <1>4, <1>5, <1>6 DEF Linked

\* What a governed transaction of n does to the store, and the two rows and the
\* versions it writes: made are the memories it creates, changes those whose
\* counters or contents change, changed the edges and frames.
Wrote(n, made, changes, changed, targets) ==
    /\ made \subseteq Memory \ Present /\ (\A m \in made : HomeOf[m] = n)
    /\ changes \subseteq Memory /\ changed \subseteq Link
    /\ targets \subseteq Present \cup made /\ (made # {} => targets = made)
    /\ memory' = [m \in Memory |-> memory'[m]]
    /\ \A m \in Memory :
         /\ memory'[m] = None <=> memory[m] = None /\ m \notin made
         /\ memory'[m] # None => memory'[m] \in Counted(fresh + 1)
         /\ \/ memory'[m] # None /\ memory'[m].body = fresh + 1 /\ m \in changes /\ HomeOf[m] = n
            \/ memory'[m] # None /\ memory[m] # None /\ memory'[m].body = memory[m].body
            \/ memory'[m] = None
    /\ link' = [l \in Link |-> IF l \in changed THEN fresh + 1 ELSE link[l]]
    /\ table' \in Seq(Row) /\ Len(table') = Len(table) + 2
    /\ \A i \in 1..Len(table) : table'[i] = table[i]
    /\ Says(table'[Len(table) + 1], fresh + 1, fresh + 1, n, "COMMITTED", targets, changes, changed)
    /\ Says(table'[Len(table) + 2], fresh + 1, fresh + 1, n, "AUDITED", targets, {}, {})
    /\ Linked(table, table'[Len(table) + 1])
    /\ table'[Len(table) + 2].prev = Hash(table', Len(table) + 1)
    /\ versions' = versions \cup {[of |-> m, txn |-> fresh + 1, state |-> memory'[m]] : m \in targets}
    /\ linked' = linked \cup {[of |-> l, txn |-> fresh + 1, state |-> fresh + 1] : l \in changed}

\* A governed transaction writes that.
LEMMA CommitFacts ==
  ASSUME ShapeInv, NEW n \in Namespace, Commit(n)
  PROVE  \E made, changes, changed, targets : Wrote(n, made, changes, changed, targets)
<1> DEFINE t == fresh + 1
<1>1. PICK made \in SUBSET {m \in Memory \ Present : HomeOf[m] = n},
           edited \in SUBSET MemoriesOf(n), used \in SUBSET MemoriesOf(n),
           changed \in SUBSET Link, named \in SUBSET Present :
        /\ Cardinality(edited) <= 1 /\ Cardinality(named) <= 1
        /\ used # {} => made \cup edited # {}
        /\ memory' = [m \in Memory |->
             IF m \in made THEN [body |-> t, uses |-> 0]
             ELSE IF m \in edited THEN [memory[m] EXCEPT !.body = t]
             ELSE IF m \in used THEN [memory[m] EXCEPT !.uses = @ + 1]
             ELSE memory[m]]
        /\ link' = [l \in Link |-> IF l \in changed THEN t ELSE link[l]]
        /\ LET targets == Targets(made, edited \cup used, named)
               delta == NewRow(t, t, n, "COMMITTED", targets, made \cup edited \cup used, changed)
           IN /\ table' = Chained(Chained(table, delta), NewRow(t, t, n, "AUDITED", targets, {}, {}))
              /\ versions' = versions \cup {[of |-> m, txn |-> t, state |-> memory'[m]] : m \in targets}
              /\ linked' = linked \cup {[of |-> l, txn |-> t, state |-> t] : l \in changed}
  BY Zenon DEF Commit
<1> DEFINE targets == Targets(made, edited \cup used, named)
           changes == made \cup edited \cup used
           delta == NewRow(t, t, n, "COMMITTED", targets, changes, changed)
           first == Chained(table, delta)
<1>2. t \in 1..MaxTxn /\ fresh \in 0..MaxTxn
  BY BoundAssumption DEF Commit, ShapeInv
<1>3. /\ Present \subseteq Memory /\ MemoriesOf(n) \subseteq Present
      /\ \A m \in MemoriesOf(n) : HomeOf[m] = n
  BY DEF Present, MemoriesOf
<1>4. /\ targets \in SUBSET Memory /\ targets \subseteq Present \cup made /\ (made # {} => targets = made)
      /\ changes \in SUBSET Memory /\ \A m \in changes : HomeOf[m] = n
  BY <1>3 DEF Targets
<1> HIDE DEF targets, changes
<1>5. /\ first \in Seq(Row) /\ Len(first) = Len(table) + 1
      /\ \A i \in 1..Len(table) : first[i] = table[i]
      /\ Says(first[Len(table) + 1], t, t, n, "COMMITTED", targets, changes, changed)
      /\ Linked(table, first[Len(table) + 1])
  BY <1>2, <1>4, NewRowFacts DEF ShapeInv
<1> HIDE DEF first
<1>6. table' = Chained(first, NewRow(t, t, n, "AUDITED", targets, {}, {}))
  BY <1>1 DEF first, targets, changes
<1>7. /\ table' \in Seq(Row) /\ Len(table') = Len(first) + 1
      /\ \A i \in 1..Len(first) : table'[i] = first[i]
      /\ Says(table'[Len(first) + 1], t, t, n, "AUDITED", targets, {}, {})
      /\ Linked(first, table'[Len(first) + 1])
  BY <1>2, <1>4, <1>5, <1>6, NewRowFacts
<1>8. Len(table) \in Nat /\ Len(first) \in Nat
  BY <1>5 DEF ShapeInv
<1>9. /\ Len(table') = Len(table) + 2
      /\ \A i \in 1..Len(table) : table'[i] = table[i]
      /\ table'[Len(table) + 1] = first[Len(table) + 1]
  BY <1>5, <1>7, <1>8
<1>10. table'[Len(table) + 2].prev = Hash(table', Len(table) + 1)
  BY <1>5, <1>7, <1>8, <1>9 DEF Linked, Hash
<1>11. Says(table'[Len(table) + 2], t, t, n, "AUDITED", targets, {}, {})
  BY <1>5, <1>7, <1>8
<1>12. ASSUME NEW m \in Memory
       PROVE  /\ memory'[m] = None <=> memory[m] = None /\ m \notin made
              /\ memory'[m] # None => memory'[m] \in Counted(t)
              /\ \/ memory'[m] # None /\ memory'[m].body = t /\ m \in changes /\ HomeOf[m] = n
                 \/ memory'[m] # None /\ memory[m] # None /\ memory'[m].body = memory[m].body
                 \/ memory'[m] = None
  <2>1. None \notin Counted(t)
    BY <1>2, NoneIsNoRecord
  <2>2. memory[m] # None => memory[m] \in Counted(fresh)
    BY DEF ShapeInv, Store
  <2>3. m \in edited \cup used => memory[m] # None
    BY <1>3 DEF Present
  <2>4. memory'[m] = IF m \in made THEN [body |-> t, uses |-> 0]
                     ELSE IF m \in edited THEN [memory[m] EXCEPT !.body = t]
                     ELSE IF m \in used THEN [memory[m] EXCEPT !.uses = @ + 1]
                     ELSE memory[m]
    BY <1>1
  <2>5. CASE m \in made
    <3>1. memory'[m] \in Counted(t) /\ memory'[m].body = t
      BY <1>2, <2>4, <2>5 DEF Counted
    <3> QED BY <1>4, <2>1, <2>5, <3>1 DEF changes
  <2>6. CASE m \notin made /\ m \in edited
    <3>1. memory'[m] \in Counted(t) /\ memory'[m].body = t
      BY <1>2, <2>2, <2>3, <2>4, <2>6 DEF Counted
    <3> QED BY <1>4, <2>1, <2>3, <2>6, <3>1 DEF changes
  <2>7. CASE m \notin made /\ m \notin edited /\ m \in used
    <3>1. memory'[m] \in Counted(t) /\ memory'[m].body = memory[m].body
      BY <1>2, <2>2, <2>3, <2>4, <2>7 DEF Counted
    <3> QED BY <2>1, <2>3, <2>7, <3>1
  <2>8. CASE m \notin made /\ m \notin edited /\ m \notin used
    <3>1. memory'[m] = memory[m]
      BY <2>4, <2>8
    <3>2. memory[m] # None => memory[m] \in Counted(t)
      BY <1>2, <2>2 DEF Counted
    <3> QED BY <2>8, <3>1, <3>2
  <2> QED BY <2>5, <2>6, <2>7, <2>8
<1>13. memory' = [m \in Memory |-> memory'[m]]
  BY <1>1
<1>14. /\ made \subseteq Memory \ Present /\ (\A m \in made : HomeOf[m] = n)
       /\ changes \subseteq Memory /\ changed \subseteq Link
       /\ targets \subseteq Present \cup made /\ (made # {} => targets = made)
  BY <1>4
<1>15. /\ link' = [l \in Link |-> IF l \in changed THEN t ELSE link[l]]
       /\ versions' = versions \cup {[of |-> m, txn |-> t, state |-> memory'[m]] : m \in targets}
       /\ linked' = linked \cup {[of |-> l, txn |-> t, state |-> t] : l \in changed}
  BY <1>1 DEF targets
<1>16. /\ Says(table'[Len(table) + 1], t, t, n, "COMMITTED", targets, changes, changed)
       /\ Linked(table, table'[Len(table) + 1])
  BY <1>5, <1>9
<1>17. Wrote(n, made, changes, changed, targets)
  <2>1. /\ \A m \in Memory : memory'[m] = None <=> memory[m] = None /\ m \notin made
        /\ \A m \in Memory : memory'[m] # None => memory'[m] \in Counted(t)
        /\ \A m \in Memory :
             \/ memory'[m] # None /\ memory'[m].body = t /\ m \in changes /\ HomeOf[m] = n
             \/ memory'[m] # None /\ memory[m] # None /\ memory'[m].body = memory[m].body
             \/ memory'[m] = None
    BY <1>12
  <2> QED BY <1>7, <1>9, <1>10, <1>11, <1>13, <1>14, <1>15, <1>16, <2>1, Zenon DEF Wrote
<1> QED BY <1>17

\* A rejection writes one row.
LEMMA RejectFacts ==
  ASSUME ShapeInv, NEW n \in Namespace, Reject(n)
  PROVE  /\ table' \in Seq(Row) /\ Len(table') = Len(table) + 1
         /\ \A i \in 1..Len(table) : table'[i] = table[i]
         /\ Says(table'[Len(table) + 1], fresh + 1, fresh + 1, n, "REJECTED", table'[Len(table) + 1].targets, {}, {})
         /\ Linked(table, table'[Len(table) + 1])
<1>1. fresh + 1 \in 1..MaxTxn /\ table \in Seq(Row)
  BY BoundAssumption DEF Reject, ShapeInv
<1>2. PICK named \in SUBSET Memory : table' = Chained(table, NewRow(fresh + 1, fresh + 1, n, "REJECTED", named, {}, {}))
  BY DEF Reject
<1>3. /\ table' \in Seq(Row) /\ Len(table') = Len(table) + 1
      /\ \A i \in 1..Len(table) : table'[i] = table[i]
      /\ Says(table'[Len(table) + 1], fresh + 1, fresh + 1, n, "REJECTED", named, {}, {})
      /\ Linked(table, table'[Len(table) + 1])
  BY <1>1, <1>2, NewRowFacts
<1> QED BY <1>3 DEF Says

\* So does a query: with what it selected and whose access it counted.
LEMMA LogQueryFacts ==
  ASSUME ShapeInv, QueryInv, LogQuery
  PROVE  /\ table' \in Seq(Row) /\ Len(table') = Len(table) + 1
         /\ \A i \in 1..Len(table) : table'[i] = table[i]
         /\ Says(table'[Len(table) + 1], fresh, fresh, query.ns, "RETRIEVED", query.selected, Accessed, {})
         /\ Linked(table, table'[Len(table) + 1])
<1>1. /\ query.txn = fresh /\ fresh \in 1..MaxTxn /\ table \in Seq(Row)
      /\ query.ns \in Namespace /\ query.selected \in SUBSET Memory
  BY BoundAssumption DEF LogQuery, ShapeInv, QueryInv
<1>2. Accessed \in SUBSET Memory
  BY DEF Accessed, Present
<1>3. table' = Chained(table, NewRow(fresh, fresh, query.ns, "RETRIEVED", query.selected, Accessed, {}))
  BY <1>1 DEF LogQuery
<1> QED BY <1>1, <1>2, <1>3, NewRowFacts

\* A search counts the access of what it found, of which some is selected.
LEMMA SearchFacts ==
  ASSUME ShapeInv, NEW n \in Namespace, Search(n)
  PROVE  /\ memory' = [m \in Memory |-> memory'[m]]
         /\ \A m \in Memory :
               /\ memory'[m] = None <=> memory[m] = None
               /\ memory'[m] # None => memory'[m] \in Counted(fresh + 1) /\ memory'[m].body = memory[m].body
         /\ query'.txn = fresh + 1 /\ query'.ns = n /\ query'.before = memory
         /\ query'.selected \subseteq Memory
         /\ \A m \in query'.selected : memory'[m] # None /\ memory'[m].uses # memory[m].uses
<1>1. PICK found \in SUBSET MemoriesOf(n) : \E selected \in SUBSET found :
        /\ memory' = [m \in Memory |-> IF m \in found THEN [memory[m] EXCEPT !.uses = @ + 1] ELSE memory[m]]
        /\ query' = [txn |-> fresh + 1, ns |-> n, before |-> memory, selected |-> selected]
  BY DEF Search
<1>2. PICK selected \in SUBSET found :
        query' = [txn |-> fresh + 1, ns |-> n, before |-> memory, selected |-> selected]
  BY <1>1
<1>3. \A m \in found : m \in Memory /\ memory[m] # None
  BY <1>1 DEF MemoriesOf, Present
<1>4. fresh \in 0..MaxTxn /\ fresh + 1 \in 0..MaxTxn
  BY BoundAssumption DEF Search, ShapeInv
<1>5. ASSUME NEW m \in Memory
      PROVE  /\ memory'[m] = None <=> memory[m] = None
             /\ memory'[m] # None => memory'[m] \in Counted(fresh + 1) /\ memory'[m].body = memory[m].body
             /\ m \in found => memory'[m].uses # memory[m].uses
  <2>1. None \notin Counted(fresh + 1)
    BY <1>4, NoneIsNoRecord
  <2>2. memory[m] # None => memory[m] \in Counted(fresh)
    BY DEF ShapeInv, Store
  <2>3. memory'[m] = IF m \in found THEN [memory[m] EXCEPT !.uses = @ + 1] ELSE memory[m]
    BY <1>1
  <2>4. CASE m \in found
    <3>1. /\ memory'[m] \in Counted(fresh + 1) /\ memory'[m].body = memory[m].body
          /\ memory'[m].uses # memory[m].uses
      BY <1>3, <1>4, <2>2, <2>3, <2>4 DEF Counted
    <3> QED BY <1>3, <2>1, <2>4, <3>1
  <2>5. CASE m \notin found
    BY <1>4, <2>2, <2>3, <2>5 DEF Counted
  <2> QED BY <2>4, <2>5
<1>6. query'.txn = fresh + 1 /\ query'.ns = n /\ query'.before = memory /\ query'.selected = selected
  BY <1>2
<1>7. memory' = [m \in Memory |-> memory'[m]]
  BY <1>1
<1> QED BY <1>3, <1>5, <1>6, <1>7

\* The migrated rows are the old ones, linked.
LEMMA CopyFacts ==
  ASSUME ShapeInv, FileInv, CopyRows
  PROVE  /\ table = <<>> /\ table' \in Seq(Row) /\ DOMAIN table' = DOMAIN renamed
         /\ \A i \in DOMAIN table' :
                /\ table'[i].txn <= 0 /\ table'[i].trace = 0
                /\ table'[i].prev = IF i = 1 THEN <<>> ELSE Hash(table', i - 1)
         /\ \A k \in DOMAIN renamed : \E i \in DOMAIN table' : table'[i] = [renamed[k] EXCEPT !.prev = table'[i].prev]
<1>1. renamed \in Seq(Row) /\ table = <<>>
  BY DEF ShapeInv, FileInv, CopyRows
<1>2. /\ \A i \in DOMAIN renamed : renamed[i].txn <= 0 /\ renamed[i].trace = 0
      /\ \A i, j \in DOMAIN renamed : renamed[i].txn = renamed[j].txn => i = j
  <2>1. CASE renamed = <<>>
    BY <2>1
  <2>2. CASE renamed = OldRows
    BY <2>2, OldRowsAssumption
  <2> QED BY <2>1, <2>2 DEF FileInv
<1> DEFINE rows == InOrder(renamed)
<1>3. /\ rows \in Seq(Row)
      /\ DOMAIN rows = DOMAIN renamed
      /\ \A k \in DOMAIN renamed : \E i \in DOMAIN renamed : rows[k] = renamed[i]
      /\ \A i \in DOMAIN renamed : \E k \in DOMAIN renamed : rows[k] = renamed[i]
  BY <1>1, <1>2, InOrderFacts
<1> HIDE DEF rows
<1>4. /\ Rehashed(rows) \in Seq(Row)
      /\ DOMAIN Rehashed(rows) = DOMAIN rows
      /\ \A i \in DOMAIN rows :
             /\ Rehashed(rows)[i] = [rows[i] EXCEPT !.prev = Rehashed(rows)[i].prev]
             /\ Rehashed(rows)[i].prev = IF i = 1 THEN <<>> ELSE Hash(Rehashed(rows), i - 1)
  BY <1>3, RehashedFacts
<1>5. table' = Rehashed(rows)
  BY DEF CopyRows, rows
<1>6. DOMAIN table' = DOMAIN renamed /\ table' \in Seq(Row)
  BY <1>3, <1>4, <1>5
<1>7. ASSUME NEW i \in DOMAIN table'
      PROVE  table'[i].txn <= 0 /\ table'[i].trace = 0
  <2>1. PICK k \in DOMAIN renamed : rows[i] = renamed[k]
    BY <1>3, <1>6
  <2>2. rows[i] \in Row
    BY <1>3, <1>6
  <2>3. rows[i].txn <= 0 /\ rows[i].trace = 0
    BY <1>2, <2>1
  <2>4. table'[i] = [rows[i] EXCEPT !.prev = table'[i].prev]
    BY <1>3, <1>4, <1>5, <1>6
  <2>5. table'[i].txn = rows[i].txn /\ table'[i].trace = rows[i].trace
    BY <2>2, <2>4 DEF Row
  <2> QED BY <2>3, <2>5
<1>8. \A i \in DOMAIN table' : table'[i].prev = IF i = 1 THEN <<>> ELSE Hash(table', i - 1)
  BY <1>3, <1>4, <1>5, <1>6
<1>9. ASSUME NEW k \in DOMAIN renamed
      PROVE  \E i \in DOMAIN table' : table'[i] = [renamed[k] EXCEPT !.prev = table'[i].prev]
  <2>1. PICK i \in DOMAIN renamed : rows[i] = renamed[k]
    BY <1>3
  <2>2. table'[i] = [rows[i] EXCEPT !.prev = table'[i].prev]
    BY <1>3, <1>4, <1>5
  <2> QED BY <1>6, <2>1, <2>2
<1> QED BY <1>1, <1>6, <1>7, <1>8, <1>9

-----------------------------------------------------------------------------
(* Types                                                                    *)

\* What was typed by the transactions so far stays so when one more is drawn.
LEMMA DrawnTypes ==
  ASSUME ShapeInv, fresh < MaxTxn, fresh' = fresh + 1
  PROVE  /\ fresh' \in 0..MaxTxn
         /\ Counted(fresh) \subseteq Counted(fresh') /\ Store \subseteq Store' /\ Links \subseteq Links'
         /\ versions \subseteq [of : Memory, txn : 1..fresh', state : Counted(fresh')]
         /\ linked \subseteq [of : Link, txn : 1..fresh', state : 1..fresh']
         /\ traces \subseteq [txn : 1..fresh', selected : SUBSET Memory]
         /\ live \subseteq 1..fresh' /\ answered \subseteq 1..fresh'
         /\ after \in Seq([memory : Store', link : Links'])
<1>1. fresh \in Nat /\ fresh' \in 0..MaxTxn /\ 0..fresh \subseteq 0..fresh' /\ 1..fresh \subseteq 1..fresh'
  BY BoundAssumption DEF ShapeInv
<1>2. Counted(fresh) \subseteq Counted(fresh')
  BY <1>1 DEF Counted
<1>3. Store \subseteq Store'
  BY <1>2 DEF Store
<1>4. Links \subseteq Links'
  BY <1>1 DEF Links
<1>5. /\ versions \subseteq [of : Memory, txn : 1..fresh', state : Counted(fresh')]
      /\ linked \subseteq [of : Link, txn : 1..fresh', state : 1..fresh']
      /\ traces \subseteq [txn : 1..fresh', selected : SUBSET Memory]
      /\ live \subseteq 1..fresh' /\ answered \subseteq 1..fresh'
  BY <1>1, <1>2 DEF ShapeInv
<1> DEFINE S == [memory : Store, link : Links]
           T == [memory : Store', link : Links']
<1>6. S \subseteq T
  <2>1. \A st \in Store, li \in Links : st \in Store' /\ li \in Links'
    BY <1>3, <1>4
  <2> QED BY <2>1
<1>7. after \in Seq(S)
  BY DEF ShapeInv
<1>8. after \in Seq(T)
  <2> HIDE DEF S, T
  <2> QED BY <1>6, <1>7
<1> QED BY <1>1, <1>2, <1>3, <1>4, <1>5, <1>8

\* The types are kept by every step.
LEMMA ShapeNext == ShapeInv /\ FileInv /\ QueryInv /\ [Next]_vars => ShapeInv'
<1> SUFFICES ASSUME ShapeInv, FileInv, QueryInv, [Next]_vars
             PROVE  ShapeInv'
  OBVIOUS
<1>1. fresh \in Nat /\ fresh \in 0..MaxTxn
  BY BoundAssumption DEF ShapeInv
<1>2. CASE Open
  BY <1>2 DEF Open, ShapeInv, Store, Links
<1>3. CASE Rename
  <2>1. <<>> \in Seq(Row)
    OBVIOUS
  <2>2. DOMAIN <<>> = {}
    OBVIOUS
  <2> QED BY <1>3, <2>1, <2>2 DEF Rename, ShapeInv, Store, Links
<1>4. CASE Create
  BY <1>4 DEF Create, ShapeInv, Store, Links
<1>5. CASE CopyRows
  <2>1. table' \in Seq(Row) /\ \A i \in DOMAIN table' : table'[i].txn <= 0 /\ table'[i].trace = 0
    BY <1>5, CopyFacts
  <2>2. \A i \in DOMAIN table' : table'[i] \in Row
    BY <2>1
  <2>3. \A i \in DOMAIN table' : table'[i].txn <= fresh /\ table'[i].trace <= fresh
    BY <1>1, <2>1, <2>2 DEF Row
  <2>4. <<>> \in Seq(Row)
    OBVIOUS
  <2> QED BY <1>5, <2>1, <2>3, <2>4 DEF CopyRows, ShapeInv, Store, Links
<1>6. CASE Crash
  BY <1>6 DEF Crash, diskVars, ShapeInv, Store, Links
<1>7. ASSUME NEW n \in Namespace, Commit(n) PROVE ShapeInv'
  <2>1. fresh < MaxTxn /\ fresh' = fresh + 1
    BY <1>7 DEF Commit
  <2>0. PICK made, changes, changed, targets : Wrote(n, made, changes, changed, targets)
    BY <1>7, CommitFacts
  <2>2. /\ made \subseteq Memory \ Present
        /\ changed \subseteq Link
        /\ targets \subseteq Present \cup made
        /\ memory' = [m \in Memory |-> memory'[m]]
        /\ \A m \in Memory :
             /\ memory'[m] = None <=> memory[m] = None /\ m \notin made
             /\ memory'[m] # None => memory'[m] \in Counted(fresh + 1)
        /\ link' = [l \in Link |-> IF l \in changed THEN fresh + 1 ELSE link[l]]
        /\ table' \in Seq(Row) /\ Len(table') = Len(table) + 2
        /\ \A i \in 1..Len(table) : table'[i] = table[i]
        /\ Says(table'[Len(table) + 1], fresh + 1, fresh + 1, n, "COMMITTED", targets, changes, changed)
        /\ Says(table'[Len(table) + 2], fresh + 1, fresh + 1, n, "AUDITED", targets, {}, {})
        /\ versions' = versions \cup {[of |-> m, txn |-> fresh + 1, state |-> memory'[m]] : m \in targets}
        /\ linked' = linked \cup {[of |-> l, txn |-> fresh + 1, state |-> fresh + 1] : l \in changed}
    BY <2>0 DEF Wrote
  <2>3. memory' \in Store'
    BY <2>1, <2>2 DEF Store
  <2>4. link' \in Links'
    BY <1>1, <2>1, <2>2 DEF Links, ShapeInv
  <2>5. \A i \in DOMAIN table' : table'[i].txn <= fresh' /\ table'[i].trace <= fresh'
    <3>1. Len(table) \in Nat /\ DOMAIN table = 1..Len(table) /\ DOMAIN table' = 1..(Len(table) + 2)
      BY <2>2 DEF ShapeInv
    <3>2. \A i \in 1..Len(table) : table'[i].txn <= fresh + 1 /\ table'[i].trace <= fresh + 1
      BY <1>1, <2>2, RowTypes
    <3>3. \A i \in (Len(table) + 1)..(Len(table) + 2) : table'[i].txn = fresh + 1 /\ table'[i].trace = fresh + 1
      BY <2>2, <3>1 DEF Says
    <3>4. \A i \in DOMAIN table' : i \in 1..Len(table) \/ i \in (Len(table) + 1)..(Len(table) + 2)
      BY <3>1
    <3> QED BY <1>1, <2>1, <3>2, <3>3, <3>4
  <2>6. versions' \subseteq [of : Memory, txn : 1..fresh', state : Counted(fresh')]
    <3>1. \A m \in targets : m \in Memory /\ memory'[m] # None
      BY <2>2 DEF Present
    <3>2. \A m \in targets : [of |-> m, txn |-> fresh + 1, state |-> memory'[m]] \in [of : Memory, txn : 1..fresh', state : Counted(fresh')]
      BY <1>1, <2>1, <2>2, <3>1
    <3> QED BY <2>1, <2>2, <3>2, DrawnTypes
  <2>7. linked' \subseteq [of : Link, txn : 1..fresh', state : 1..fresh']
    <3>1. \A l \in changed : [of |-> l, txn |-> fresh + 1, state |-> fresh + 1] \in [of : Link, txn : 1..fresh', state : 1..fresh']
      BY <1>1, <2>1, <2>2
    <3> QED BY <2>1, <2>2, <3>1, DrawnTypes
  <2>8. after' \in Seq([memory : Store', link : Links']) /\ Len(after') = fresh'
    <3> DEFINE T == [memory : Store', link : Links']
               new == [memory |-> memory', link |-> link']
    <3>1. after' = Append(after, new)
      BY <1>7 DEF Commit
    <3>2. new \in T
      BY <2>3, <2>4
    <3>3. after \in Seq(T) /\ Len(after) = fresh
      BY <2>1, DrawnTypes DEF ShapeInv
    <3> HIDE DEF T, new
    <3> QED BY <2>1, <3>1, <3>2, <3>3 DEF T
  <2>9. live' \subseteq 1..fresh' /\ answered' \subseteq 1..fresh'
    BY <1>1, <1>7, <2>1, DrawnTypes DEF Commit
  <2>10. fresh' \in 0..MaxTxn /\ traces' \subseteq [txn : 1..fresh', selected : SUBSET Memory]
    BY <1>7, <2>1, DrawnTypes DEF Commit
  <2>11. /\ renamed' \in Seq(Row) /\ file' \in {"old", "renamed", "created", "current"}
         /\ claims' \in [Claim -> Content \cup {None}]
         /\ impact' \in Content \cup {None} /\ slots' \in Seq(Content)
         /\ impact' = None <=> slots' = <<>>
         /\ mode' \in {"down", "migrating", "idle", "searched", "logged", "persisted"}
    BY <1>7 DEF Commit, ShapeInv
  <2> QED BY <2>2, <2>3, <2>4, <2>5, <2>6, <2>7, <2>8, <2>9, <2>10, <2>11 DEF ShapeInv
<1>8. ASSUME NEW n \in Namespace, Reject(n) PROVE ShapeInv'
  <2>1. fresh < MaxTxn /\ fresh' = fresh + 1
    BY <1>8 DEF Reject
  <2>2. /\ table' \in Seq(Row) /\ Len(table') = Len(table) + 1
        /\ \A i \in 1..Len(table) : table'[i] = table[i]
        /\ Says(table'[Len(table) + 1], fresh + 1, fresh + 1, n, "REJECTED", table'[Len(table) + 1].targets, {}, {})
    BY <1>8, RejectFacts
  <2>3. memory' \in Store' /\ link' \in Links'
    BY <1>8, <2>1, DrawnTypes DEF Reject, ShapeInv
  <2>4. \A i \in DOMAIN table' : table'[i].txn <= fresh' /\ table'[i].trace <= fresh'
    <3>1. Len(table) \in Nat /\ DOMAIN table = 1..Len(table) /\ DOMAIN table' = 1..(Len(table) + 1)
      BY <2>2 DEF ShapeInv
    <3>2. \A i \in 1..Len(table) : table'[i].txn <= fresh + 1 /\ table'[i].trace <= fresh + 1
      BY <1>1, <2>2, RowTypes
    <3> QED BY <1>1, <2>1, <2>2, <3>1, <3>2 DEF Says
  <2>5. after' \in Seq([memory : Store', link : Links']) /\ Len(after') = fresh'
    <3> DEFINE T == [memory : Store', link : Links']
               new == [memory |-> memory, link |-> link]
    <3>1. after' = Append(after, new)
      BY <1>8 DEF Reject
    <3>2. new \in T
      BY <1>8, <2>3 DEF Reject
    <3>3. after \in Seq(T) /\ Len(after) = fresh
      BY <2>1, DrawnTypes DEF ShapeInv
    <3> HIDE DEF T, new
    <3> QED BY <2>1, <3>1, <3>2, <3>3 DEF T
  <2>6. live' \subseteq 1..fresh' /\ answered' \subseteq 1..fresh'
    BY <1>1, <1>8, <2>1, DrawnTypes DEF Reject
  <2>7. /\ fresh' \in 0..MaxTxn /\ traces' \subseteq [txn : 1..fresh', selected : SUBSET Memory]
        /\ versions' \subseteq [of : Memory, txn : 1..fresh', state : Counted(fresh')]
        /\ linked' \subseteq [of : Link, txn : 1..fresh', state : 1..fresh']
    BY <1>8, <2>1, DrawnTypes DEF Reject
  <2>8. /\ renamed' \in Seq(Row) /\ file' \in {"old", "renamed", "created", "current"}
        /\ claims' \in [Claim -> Content \cup {None}]
        /\ impact' \in Content \cup {None} /\ slots' \in Seq(Content)
        /\ impact' = None <=> slots' = <<>>
        /\ mode' \in {"down", "migrating", "idle", "searched", "logged", "persisted"}
    BY <1>8 DEF Reject, ShapeInv
  <2> QED BY <2>2, <2>3, <2>4, <2>5, <2>6, <2>7, <2>8 DEF ShapeInv
<1>9. ASSUME NEW n \in Namespace, Search(n) PROVE ShapeInv'
  <2>1. fresh < MaxTxn /\ fresh' = fresh + 1
    BY <1>9 DEF Search
  <2>2. /\ memory' = [m \in Memory |-> memory'[m]]
        /\ \A m \in Memory : memory'[m] # None => memory'[m] \in Counted(fresh + 1)
    BY <1>9, SearchFacts
  <2>3. memory' \in Store' /\ link' \in Links'
    <3>1. memory' \in Store'
      BY <2>1, <2>2 DEF Store
    <3> QED BY <1>9, <2>1, <3>1, DrawnTypes DEF Search, ShapeInv
  <2>4. /\ table' \in Seq(Row)
        /\ \A i \in DOMAIN table' : table'[i].txn <= fresh' /\ table'[i].trace <= fresh'
    <3>1. table' = table
      BY <1>9 DEF Search
    <3>2. \A i \in 1..Len(table) : table[i].txn <= fresh + 1 /\ table[i].trace <= fresh + 1
      BY <1>1, RowTypes
    <3>3. DOMAIN table = 1..Len(table) /\ table \in Seq(Row)
      BY RowTypes DEF ShapeInv
    <3> QED BY <2>1, <3>1, <3>2, <3>3
  <2>5. after' \in Seq([memory : Store', link : Links']) /\ Len(after') = fresh'
    <3> DEFINE T == [memory : Store', link : Links']
               new == [memory |-> memory', link |-> link]
    <3>1. after' = Append(after, new)
      BY <1>9 DEF Search
    <3>2. new \in T
      BY <1>9, <2>3 DEF Search
    <3>3. after \in Seq(T) /\ Len(after) = fresh
      BY <2>1, DrawnTypes DEF ShapeInv
    <3> HIDE DEF T, new
    <3> QED BY <2>1, <3>1, <3>2, <3>3 DEF T
  <2>6. live' \subseteq 1..fresh' /\ answered' \subseteq 1..fresh'
    BY <1>1, <1>9, <2>1, DrawnTypes DEF Search
  <2>7. /\ fresh' \in 0..MaxTxn /\ traces' \subseteq [txn : 1..fresh', selected : SUBSET Memory]
        /\ versions' \subseteq [of : Memory, txn : 1..fresh', state : Counted(fresh')]
        /\ linked' \subseteq [of : Link, txn : 1..fresh', state : 1..fresh']
    BY <1>9, <2>1, DrawnTypes DEF Search
  <2>8. /\ renamed' \in Seq(Row) /\ file' \in {"old", "renamed", "created", "current"}
        /\ claims' \in [Claim -> Content \cup {None}]
        /\ impact' \in Content \cup {None} /\ slots' \in Seq(Content)
        /\ impact' = None <=> slots' = <<>>
        /\ mode' \in {"down", "migrating", "idle", "searched", "logged", "persisted"}
    BY <1>9 DEF Search, ShapeInv
  <2> QED BY <2>3, <2>4, <2>5, <2>6, <2>7, <2>8 DEF ShapeInv
<1>10. CASE Rebuild
  <2>1. link' \in Links'
    BY <1>1, <1>10 DEF Rebuild, ShapeInv, Links, Link
  <2> QED BY <1>10, <2>1 DEF Rebuild, ShapeInv, Store, Links
<1>11. CASE RecordClaim
  <2>1. claims' \in [Claim -> Content \cup {None}]
    BY <1>11 DEF RecordClaim, ClaimRecorded, ShapeInv
  <2> QED BY <1>11, <2>1 DEF RecordClaim, ShapeInv, Store, Links
<1>12. CASE RecordImpact
  <2>1. PICK content \in Content : impact' = content /\ slots' = Append(slots, content)
    BY <1>12 DEF RecordImpact
  <2>2. slots' \in Seq(Content) /\ slots' # <<>>
    <3>1. slots \in Seq(Content)
      BY DEF ShapeInv
    <3> QED BY <2>1, <3>1
  <2>3. impact' \in Content /\ impact' # None
    BY <2>1, NoneAssumption
  <2>4. impact' = None <=> slots' = <<>>
    BY <2>2, <2>3
  <2> QED BY <1>12, <2>2, <2>3, <2>4 DEF RecordImpact, ShapeInv, Store, Links
<1>13. CASE LogQuery
  <2>1. /\ table' \in Seq(Row) /\ Len(table') = Len(table) + 1
        /\ \A i \in 1..Len(table) : table'[i] = table[i]
        /\ Says(table'[Len(table) + 1], fresh, fresh, query.ns, "RETRIEVED", query.selected, Accessed, {})
    BY <1>13, LogQueryFacts
  <2>2. \A i \in DOMAIN table' : table'[i].txn <= fresh /\ table'[i].trace <= fresh
    <3>1. Len(table) \in Nat /\ DOMAIN table = 1..Len(table) /\ DOMAIN table' = 1..(Len(table) + 1)
      BY <2>1 DEF ShapeInv
    <3>2. \A i \in 1..Len(table) : table'[i].txn <= fresh /\ table'[i].trace <= fresh
      BY <2>1, <3>1 DEF ShapeInv
    <3> QED BY <1>1, <2>1, <3>1, <3>2 DEF Says
  <2> QED BY <1>13, <2>1, <2>2 DEF LogQuery, ShapeInv, Store, Links
<1>14. CASE PersistTrace
  <2>1. query.txn \in 1..fresh /\ query.selected \subseteq Memory
    BY <1>1, <1>14 DEF PersistTrace, QueryInv
  <2>2. traces' \subseteq [txn : 1..fresh, selected : SUBSET Memory]
    BY <1>14, <2>1 DEF PersistTrace, ShapeInv
  <2> QED BY <1>14, <2>2 DEF PersistTrace, ShapeInv, Store, Links
<1>15. CASE Answer
  <2>1. answered' \subseteq 1..fresh
    <3>1. query.txn \in 1..fresh /\ answered' = answered \cup {query.txn}
      BY <1>1, <1>15 DEF Answer, QueryInv
    <3> QED BY <3>1 DEF ShapeInv
  <2> QED BY <1>15, <2>1 DEF Answer, diskVars, ShapeInv, Store, Links
<1>16. CASE UNCHANGED vars
  BY <1>16 DEF vars, diskVars, ShapeInv, Store, Links
<1> QED BY <1>2, <1>3, <1>4, <1>5, <1>6, <1>7, <1>8, <1>9, <1>10, <1>11, <1>12, <1>13, <1>14, <1>15, <1>16 DEF Next

\* So is where the rows are.
LEMMA FileNext == ShapeInv /\ FileInv /\ [Next]_vars => FileInv'
<1> SUFFICES ASSUME ShapeInv, FileInv, [Next]_vars
             PROVE  FileInv'
  OBVIOUS
<1>2. CASE Open
  BY <1>2 DEF Open, FileInv
<1>3. CASE Rename
  BY <1>3 DEF Rename, FileInv
<1>4. CASE Create
  BY <1>4 DEF Create, FileInv
<1>5. CASE CopyRows
  BY <1>5 DEF CopyRows, FileInv
<1>6. CASE Crash
  BY <1>6 DEF Crash, diskVars, FileInv
<1>7. ASSUME NEW n \in Namespace, Commit(n) PROVE FileInv'
  BY <1>7 DEF Commit, FileInv
<1>8. ASSUME NEW n \in Namespace, Reject(n) PROVE FileInv'
  BY <1>8 DEF Reject, FileInv
<1>9. ASSUME NEW n \in Namespace, Search(n) PROVE FileInv'
  BY <1>9 DEF Search, FileInv
<1>10. CASE Rebuild
  BY <1>10 DEF Rebuild, FileInv
<1>11. CASE RecordClaim
  BY <1>11 DEF RecordClaim, FileInv
<1>12. CASE RecordImpact
  BY <1>12 DEF RecordImpact, FileInv
<1>13. CASE LogQuery
  BY <1>13 DEF LogQuery, FileInv
<1>14. CASE PersistTrace
  BY <1>14 DEF PersistTrace, FileInv
<1>15. CASE Answer
  BY <1>15 DEF Answer, diskVars, FileInv
<1>16. CASE UNCHANGED vars
  BY <1>16 DEF vars, diskVars, FileInv
<1> QED BY <1>2, <1>3, <1>4, <1>5, <1>6, <1>7, <1>8, <1>9, <1>10, <1>11, <1>12, <1>13, <1>14, <1>15, <1>16 DEF Next

-----------------------------------------------------------------------------
(* The rows                                                                 *)

\* The table holds what it held, followed by count more rows.
Longer(count) ==
    /\ table' \in Seq(Row) /\ Len(table') = Len(table) + count
    /\ \A i \in 1..Len(table) : table'[i] = table[i]

\* A step leaves the rows alone, puts new ones behind them, or migrates them.
LEMMA RowSteps ==
  ASSUME ShapeInv, FileInv, QueryInv, [Next]_vars
  PROVE  \/ table' = table /\ renamed' = renamed /\ (file' = file \/ file # "old")
         \/ /\ mode = "idle" /\ Longer(2) /\ renamed' = renamed /\ file' = file
            /\ Linked(table, table'[Len(table) + 1])
            /\ table'[Len(table) + 2].prev = Hash(table', Len(table) + 1)
         \/ /\ mode \in {"idle", "searched"} /\ Longer(1) /\ renamed' = renamed /\ file' = file
            /\ Linked(table, table'[Len(table) + 1])
         \/ Rename
         \/ CopyRows
<1>1. ASSUME NEW n \in Namespace, Commit(n)
      PROVE  /\ mode = "idle" /\ Longer(2) /\ renamed' = renamed /\ file' = file
             /\ Linked(table, table'[Len(table) + 1])
             /\ table'[Len(table) + 2].prev = Hash(table', Len(table) + 1)
  <2>1. mode = "idle" /\ renamed' = renamed /\ file' = file
    BY <1>1 DEF Commit
  <2>2. /\ Longer(2)
        /\ Linked(table, table'[Len(table) + 1])
        /\ table'[Len(table) + 2].prev = Hash(table', Len(table) + 1)
    <3>1. PICK made, changes, changed, targets : Wrote(n, made, changes, changed, targets)
      BY <1>1, CommitFacts
    <3> QED BY <3>1 DEF Longer, Wrote
  <2> QED BY <2>1, <2>2
<1>2. ASSUME NEW n \in Namespace, Reject(n)
      PROVE  /\ mode = "idle" /\ Longer(1) /\ renamed' = renamed /\ file' = file
             /\ Linked(table, table'[Len(table) + 1])
  <2>1. mode = "idle" /\ renamed' = renamed /\ file' = file
    BY <1>2 DEF Reject
  <2>2. Longer(1) /\ Linked(table, table'[Len(table) + 1])
    BY <1>2, RejectFacts DEF Longer
  <2> QED BY <2>1, <2>2
<1>3. ASSUME LogQuery
      PROVE  /\ mode = "searched" /\ Longer(1) /\ renamed' = renamed /\ file' = file
             /\ Linked(table, table'[Len(table) + 1])
  <2>1. mode = "searched" /\ renamed' = renamed /\ file' = file
    BY <1>3 DEF LogQuery
  <2>2. Longer(1) /\ Linked(table, table'[Len(table) + 1])
    BY <1>3, LogQueryFacts DEF Longer
  <2> QED BY <2>1, <2>2
<1>4. CASE Open
  BY <1>4 DEF Open
<1>5. CASE Create
  BY <1>5 DEF Create
<1>6. CASE Crash
  BY <1>6 DEF Crash, diskVars
<1>7. ASSUME NEW n \in Namespace, Search(n) PROVE table' = table /\ renamed' = renamed /\ file' = file
  BY <1>7 DEF Search
<1>8. CASE Rebuild \/ RecordClaim \/ RecordImpact \/ PersistTrace
  BY <1>8 DEF Rebuild, RecordClaim, RecordImpact, PersistTrace
<1>9. CASE Answer \/ UNCHANGED vars
  BY <1>9 DEF Answer, vars, diskVars
<1> QED BY <1>1, <1>2, <1>3, <1>4, <1>5, <1>6, <1>7, <1>8, <1>9 DEF Next

\* Every new row is linked to the one before it.
LEMMA ChainNext == ShapeInv /\ FileInv /\ QueryInv /\ ChainInv /\ [Next]_vars => ChainInv'
<1> SUFFICES ASSUME ShapeInv, FileInv, QueryInv, ChainInv, [Next]_vars
             PROVE  ChainInv'
  OBVIOUS
<1>1. Len(table) \in Nat /\ DOMAIN table = 1..Len(table)
  BY RowTypes
<1>2. CASE table' = table /\ (file' = file \/ file # "old")
  BY <1>2 DEF ChainInv, Hash
<1>3. ASSUME NEW count \in {1, 2}, mode \in {"idle", "searched"}, Longer(count),
             Linked(table, table'[Len(table) + 1]),
             count = 2 => table'[Len(table) + 2].prev = Hash(table', Len(table) + 1)
      PROVE  ChainInv'
  <2>1. DOMAIN table' = 1..(Len(table) + count)
    BY <1>1, <1>3 DEF Longer
  <2>2. file # "old"
    BY <1>3 DEF FileInv
  <2>3. ASSUME NEW i \in 1..Len(table)
        PROVE  table'[i].prev = IF i = 1 THEN <<>> ELSE Hash(table', i - 1)
    <3>1. table[i].prev = IF i = 1 THEN <<>> ELSE Hash(table, i - 1)
      BY <1>1, <2>2 DEF ChainInv
    <3>2. i # 1 => i - 1 \in 1..Len(table)
      BY <1>1
    <3> QED BY <1>3, <3>1, <3>2 DEF Hash, Longer
  <2>4. table'[Len(table) + 1].prev = IF Len(table) + 1 = 1 THEN <<>> ELSE Hash(table', (Len(table) + 1) - 1)
    <3>1. Len(table) # 0 => Hash(table', Len(table)) = Hash(table, Len(table))
      <4>1. Len(table) # 0 => Len(table) \in 1..Len(table)
        BY <1>1
      <4> QED BY <1>3, <4>1 DEF Hash, Longer
    <3>2. (Len(table) + 1) - 1 = Len(table) /\ (Len(table) + 1 = 1 <=> Len(table) = 0)
      BY <1>1
    <3> QED BY <1>3, <3>1, <3>2 DEF Linked
  <2>5. count = 2 => table'[Len(table) + 2].prev = IF Len(table) + 2 = 1 THEN <<>> ELSE Hash(table', (Len(table) + 2) - 1)
    <3>1. (Len(table) + 2) - 1 = Len(table) + 1 /\ Len(table) + 2 # 1
      BY <1>1
    <3> QED BY <1>3, <3>1
  <2>6. \A i \in DOMAIN table' : i \in 1..Len(table) \/ i = Len(table) + 1 \/ (count = 2 /\ i = Len(table) + 2)
    BY <1>1, <1>3, <2>1
  <2> QED BY <2>3, <2>4, <2>5, <2>6 DEF ChainInv
<1>4. CASE Rename
  BY <1>4 DEF Rename, ChainInv
<1>5. CASE CopyRows
  BY <1>5, CopyFacts DEF ChainInv
<1> QED BY <1>2, <1>3, <1>4, <1>5, RowSteps

\* A content is explained by the row of the transaction that wrote it, which
\* nothing takes away.
LEMMA ContentNext ==
  ShapeInv /\ FileInv /\ QueryInv /\ ContentInv /\ [Next]_vars => ContentInv'
<1> SUFFICES ASSUME ShapeInv, FileInv, QueryInv, ContentInv, [Next]_vars
             PROVE  ContentInv'
  OBVIOUS
<1>1. Len(table) \in Nat /\ DOMAIN table = 1..Len(table)
  BY RowTypes
<1>2. ASSUME NEW count \in 0..2, Longer(count), NEW i \in DOMAIN table
      PROVE  i \in DOMAIN table' /\ table'[i] = table[i]
  <2>1. DOMAIN table' = 1..(Len(table) + count)
    BY <1>1, <1>2 DEF Longer
  <2> QED BY <1>1, <1>2, <2>1 DEF Longer
<1>3. ASSUME NEW count \in 0..2, Longer(count),
             \A m \in Memory : memory'[m] # None /\ memory'[m].body # 0 =>
                 \/ memory[m] # None /\ memory'[m].body = memory[m].body
                 \/ \E i \in DOMAIN table' : Explains(table'[i], m, memory'[m].body)
      PROVE  ContentInv'
  <2> SUFFICES ASSUME NEW m \in Memory, memory'[m] # None, memory'[m].body # 0
               PROVE  \E i \in DOMAIN table' : Explains(table'[i], m, memory'[m].body)
    BY DEF ContentInv, Present
  <2>1. CASE memory[m] # None /\ memory'[m].body = memory[m].body
    <3>1. PICK i \in DOMAIN table : Explains(table[i], m, memory'[m].body)
      BY <2>1 DEF ContentInv, Present
    <3>2. i \in DOMAIN table' /\ table'[i] = table[i]
      BY <1>2, <1>3
    <3> QED BY <3>1, <3>2
  <2> QED BY <1>3, <2>1
<1>4. CASE UNCHANGED <<memory, table>>
  BY <1>4 DEF ContentInv, Present
<1>5. ASSUME fresh = 0, memory' = memory PROVE ContentInv'
  BY <1>5 DEF ContentInv, Present, ShapeInv, Store, Counted
<1>6. CASE Rename \/ CopyRows
  BY <1>5, <1>6 DEF Rename, CopyRows, FileInv
<1>7. ASSUME NEW n \in Namespace, Commit(n) PROVE ContentInv'
  <2>0. PICK made, changes, changed, targets : Wrote(n, made, changes, changed, targets)
    BY <1>7, CommitFacts
  <2>1. /\ \A m \in Memory :
             \/ memory'[m] # None /\ memory'[m].body = fresh + 1 /\ m \in changes /\ HomeOf[m] = n
             \/ memory'[m] # None /\ memory[m] # None /\ memory'[m].body = memory[m].body
             \/ memory'[m] = None
        /\ table' \in Seq(Row) /\ Len(table') = Len(table) + 2
        /\ \A i \in 1..Len(table) : table'[i] = table[i]
        /\ Says(table'[Len(table) + 1], fresh + 1, fresh + 1, n, "COMMITTED", targets, changes, changed)
    BY <2>0 DEF Wrote
  <2>2. Longer(2)
    BY <2>1 DEF Longer
  <2>3. \A m \in changes : HomeOf[m] = n => Explains(table'[Len(table) + 1], m, fresh + 1)
    BY <2>1 DEF Says, Explains
  <2>4. Len(table) + 1 \in DOMAIN table'
    BY <1>1, <2>1
  <2> QED BY <1>3, <2>1, <2>2, <2>3, <2>4
<1>8. ASSUME NEW n \in Namespace, Reject(n) PROVE ContentInv'
  <2>1. Longer(1) /\ memory' = memory
    BY <1>8, RejectFacts DEF Reject, Longer
  <2> QED BY <1>3, <2>1
<1>9. ASSUME NEW n \in Namespace, Search(n) PROVE ContentInv'
  <2>1. table' = table
    BY <1>9 DEF Search
  <2>2. Longer(0)
    BY <1>1, <2>1 DEF Longer, ShapeInv
  <2>3. \A m \in Memory : memory'[m] # None => memory[m] # None /\ memory'[m].body = memory[m].body
    BY <1>9, SearchFacts
  <2> QED BY <1>3, <2>2, <2>3
<1>10. CASE LogQuery
  <2>1. Longer(1) /\ memory' = memory
    BY <1>10, LogQueryFacts DEF LogQuery, Longer
  <2> QED BY <1>3, <2>1
<1>11. CASE Open \/ Create \/ Rebuild \/ RecordClaim \/ RecordImpact \/ PersistTrace
  BY <1>4, <1>11 DEF Open, Create, Rebuild, RecordClaim, RecordImpact, PersistTrace
<1>12. CASE Crash \/ Answer \/ UNCHANGED vars
  BY <1>4, <1>12 DEF Crash, Answer, vars, diskVars
<1> QED BY <1>6, <1>7, <1>8, <1>9, <1>10, <1>11, <1>12 DEF Next

-----------------------------------------------------------------------------
(* Queries and their traces                                                 *)

\* A query has its transaction to itself until it has written its row.
LEMMA QueryNext == ShapeInv /\ QueryInv /\ [Next]_vars => QueryInv'
<1> SUFFICES ASSUME ShapeInv, QueryInv, [Next]_vars
             PROVE  QueryInv'
  OBVIOUS
<1>1. /\ fresh \in Nat /\ Len(table) \in Nat /\ DOMAIN table = 1..Len(table)
      /\ \A i \in 1..Len(table) : /\ table[i].txn \in Int /\ table[i].trace \in Int
                                   /\ table[i].txn <= fresh /\ table[i].trace <= fresh
  BY RowTypes, BoundAssumption DEF ShapeInv
<1>2. CASE mode' \in {"down", "migrating", "idle"}
  BY <1>2 DEF QueryInv
<1>3. CASE UNCHANGED vars
  BY <1>3 DEF vars, diskVars, QueryInv, Accessed, Present
<1>4. CASE Open \/ Rename \/ CopyRows \/ Crash \/ Answer
  BY <1>2, <1>4 DEF Open, Rename, CopyRows, Crash, Answer
<1>5. CASE Create \/ Rebuild \/ RecordClaim \/ RecordImpact
  BY <1>2, <1>5 DEF Create, Rebuild, RecordClaim, RecordImpact
<1>6. ASSUME NEW n \in Namespace, Commit(n) \/ Reject(n) PROVE QueryInv'
  BY <1>2, <1>6 DEF Commit, Reject
<1>7. ASSUME NEW n \in Namespace, Search(n) PROVE QueryInv'
  <2>1. fresh' = fresh + 1 /\ mode' = "searched" /\ table' = table /\ traces' = traces
    BY <1>7 DEF Search
  <2>2. /\ query'.txn = fresh + 1 /\ query'.ns = n /\ query'.before = memory
        /\ query'.selected \subseteq Memory
        /\ \A m \in query'.selected : memory'[m] # None /\ memory'[m].uses # memory[m].uses
    BY <1>7, SearchFacts
  <2>3. query'.selected \subseteq Accessed'
    BY <2>2 DEF Accessed, Present
  <2>4. \A i \in DOMAIN table' : table'[i].txn # fresh' /\ table'[i].trace # fresh'
    BY <1>1, <2>1
  <2>5. \A f \in traces' : f.txn # fresh'
    <3>1. \A f \in traces : f.txn \in 1..fresh
      BY DEF ShapeInv
    <3> QED BY <1>1, <2>1, <3>1
  <2>6. fresh' # 0
    BY <1>1, <2>1
  <2> QED BY <2>1, <2>2, <2>3, <2>4, <2>5, <2>6 DEF QueryInv
<1>8. CASE LogQuery
  <2>1. /\ mode = "searched" /\ mode' = "logged" /\ fresh' = fresh /\ query' = query /\ traces' = traces
    BY <1>8 DEF LogQuery
  <2>2. /\ table' \in Seq(Row) /\ Len(table') = Len(table) + 1
        /\ \A i \in 1..Len(table) : table'[i] = table[i]
        /\ Says(table'[Len(table) + 1], fresh, fresh, query.ns, "RETRIEVED", query.selected, Accessed, {})
    BY <1>8, LogQueryFacts
  <2>3. DOMAIN table' = 1..(Len(table) + 1)
    BY <1>1, <2>2
  <2>4. table'[Len(table) + 1].trace = fresh /\ OfQuery(table'[Len(table) + 1], query.selected)
    BY <2>1, <2>2 DEF Says, OfQuery, QueryInv
  <2>5. \A i \in 1..Len(table) : table'[i].trace # fresh
    BY <1>1, <2>1, <2>2 DEF QueryInv
  <2>6. \A i \in DOMAIN table' : i \in 1..Len(table) \/ i = Len(table) + 1
    BY <1>1, <2>3
  <2>7. Len(table) + 1 \in DOMAIN table'
    BY <1>1, <2>3
  <2>8. /\ \E i \in DOMAIN table' : table'[i].trace = fresh'
        /\ \A i \in DOMAIN table' : table'[i].trace = fresh' => OfQuery(table'[i], query'.selected)
    BY <2>1, <2>4, <2>5, <2>6, <2>7
  <2> QED BY <2>1, <2>8 DEF QueryInv
<1>9. CASE PersistTrace
  <2>1. UNCHANGED <<fresh, query, table>> /\ mode = "logged" /\ mode' = "persisted"
    BY <1>9 DEF PersistTrace
  <2> QED BY <2>1 DEF QueryInv
<1> QED BY <1>3, <1>4, <1>5, <1>6, <1>7, <1>8, <1>9 DEF Next

\* Nothing writes another row for a trace that is in a file, and no row of an
\* answer goes away.
LEMMA TraceNext ==
  ShapeInv /\ FileInv /\ QueryInv /\ TraceInv /\ [Next]_vars => TraceInv'
<1> SUFFICES ASSUME ShapeInv, FileInv, QueryInv, TraceInv, [Next]_vars
             PROVE  TraceInv'
  OBVIOUS
<1>1. fresh \in Nat /\ Len(table) \in Nat /\ DOMAIN table = 1..Len(table)
  BY RowTypes, BoundAssumption DEF ShapeInv
<1>2. \A f \in traces : f.txn \in 1..fresh
  BY DEF ShapeInv
<1>3. ASSUME NEW count \in 1..2, Longer(count), traces' = traces,
             NEW t \in Nat,
             \A i \in (Len(table) + 1)..(Len(table) + count) : table'[i].trace = t,
             \A f \in traces : f.txn # t,
             answered' \subseteq answered \cup {t}
      PROVE  TraceInv'
  <2>1. DOMAIN table' = 1..(Len(table) + count) /\ \A i \in 1..Len(table) : table'[i] = table[i]
    BY <1>1, <1>3 DEF Longer
  <2>2. \A i \in DOMAIN table' : i \in 1..Len(table) \/ i \in (Len(table) + 1)..(Len(table) + count)
    BY <1>1, <2>1
  <2>3. Len(table) + 1 \in DOMAIN table' /\ table'[Len(table) + 1].trace = t
    BY <1>1, <1>3, <2>1
  <2>4. \A f \in traces' : \A i \in DOMAIN table' : table'[i].trace = f.txn => OfQuery(table'[i], f.selected)
    BY <1>1, <1>3, <2>1, <2>2 DEF TraceInv
  <2>5. \A x \in answered : \E i \in DOMAIN table' : table'[i].trace = x
    <3> TAKE x \in answered
    <3>1. PICK i \in DOMAIN table : table[i].trace = x
      BY DEF TraceInv
    <3>2. i \in DOMAIN table' /\ table'[i] = table[i]
      BY <1>1, <2>1
    <3> QED BY <3>1, <3>2
  <2> QED BY <1>3, <2>3, <2>4, <2>5 DEF TraceInv
<1>4. CASE UNCHANGED <<table, traces, answered>>
  BY <1>4 DEF TraceInv
<1>5. ASSUME fresh = 0, UNCHANGED <<traces, answered>> PROVE TraceInv'
  <2>1. traces = {} /\ answered = {}
    BY <1>5 DEF ShapeInv
  <2> QED BY <1>5, <2>1 DEF TraceInv
<1>6. CASE Rename \/ CopyRows
  BY <1>5, <1>6 DEF Rename, CopyRows, FileInv
<1>7. ASSUME NEW n \in Namespace, Commit(n) PROVE TraceInv'
  <2>0. PICK made, changes, changed, targets : Wrote(n, made, changes, changed, targets)
    BY <1>7, CommitFacts
  <2>1. /\ table' \in Seq(Row) /\ Len(table') = Len(table) + 2
        /\ \A i \in 1..Len(table) : table'[i] = table[i]
        /\ Says(table'[Len(table) + 1], fresh + 1, fresh + 1, n, "COMMITTED", targets, changes, changed)
        /\ Says(table'[Len(table) + 2], fresh + 1, fresh + 1, n, "AUDITED", targets, {}, {})
    BY <2>0 DEF Wrote
  <2>2. \A i \in (Len(table) + 1)..(Len(table) + 2) : table'[i].trace = fresh + 1
    BY <1>1, <2>1 DEF Says
  <2>3. Longer(2)
    BY <2>1 DEF Longer
  <2>4. traces' = traces /\ answered' = answered \cup {fresh + 1}
    BY <1>7 DEF Commit
  <2>5. fresh + 1 \in Nat /\ \A f \in traces : f.txn # fresh + 1
    BY <1>1, <1>2
  <2> QED BY <1>3, <2>2, <2>3, <2>4, <2>5
<1>8. ASSUME NEW n \in Namespace, Reject(n) PROVE TraceInv'
  <2>1. Longer(1) /\ table'[Len(table) + 1].trace = fresh + 1
    BY <1>8, RejectFacts DEF Longer, Says
  <2>2. traces' = traces /\ answered' = answered \cup {fresh + 1}
    BY <1>8 DEF Reject
  <2>3. fresh + 1 \in Nat /\ \A f \in traces : f.txn # fresh + 1
    BY <1>1, <1>2
  <2>4. \A i \in (Len(table) + 1)..(Len(table) + 1) : table'[i].trace = fresh + 1
    BY <1>1, <2>1
  <2> QED BY <1>3, <2>1, <2>2, <2>3, <2>4
<1>9. CASE LogQuery
  <2>1. Longer(1) /\ table'[Len(table) + 1].trace = fresh
    BY <1>9, LogQueryFacts DEF Longer, Says
  <2>2. traces' = traces /\ answered' = answered
    BY <1>9 DEF LogQuery
  <2>3. \A f \in traces : f.txn # fresh
    BY <1>9 DEF LogQuery, QueryInv
  <2>4. \A i \in (Len(table) + 1)..(Len(table) + 1) : table'[i].trace = fresh
    BY <1>1, <2>1
  <2> QED BY <1>1, <1>3, <2>1, <2>2, <2>3, <2>4
<1>10. CASE PersistTrace
  <2>1. /\ mode = "logged" /\ table' = table /\ answered' = answered
        /\ traces' = traces \cup {[txn |-> fresh, selected |-> query.selected]}
    BY <1>10 DEF PersistTrace, QueryInv
  <2> QED BY <2>1 DEF QueryInv, TraceInv
<1>11. CASE Answer
  <2>1. mode = "persisted" /\ table' = table /\ traces' = traces /\ answered' = answered \cup {fresh}
    BY <1>11 DEF Answer, diskVars, QueryInv
  <2> QED BY <2>1 DEF QueryInv, TraceInv
<1>12. ASSUME NEW n \in Namespace, Search(n) PROVE TraceInv'
  BY <1>4, <1>12 DEF Search
<1>13. CASE Open \/ Create \/ Rebuild \/ RecordClaim \/ RecordImpact
  BY <1>4, <1>13 DEF Open, Create, Rebuild, RecordClaim, RecordImpact
<1>14. CASE Crash \/ UNCHANGED vars
  BY <1>4, <1>14 DEF Crash, vars, diskVars
<1> QED BY <1>6, <1>7, <1>8, <1>9, <1>10, <1>11, <1>12, <1>13, <1>14 DEF Next

-----------------------------------------------------------------------------
(* The order of the transactions                                            *)

\* A transaction writes its rows at the end, at once, and for one namespace.
LEMMA OrderNext ==
  ShapeInv /\ FileInv /\ QueryInv /\ OrderInv /\ [Next]_vars => OrderInv'
<1> SUFFICES ASSUME ShapeInv, FileInv, QueryInv, OrderInv, [Next]_vars
             PROVE  OrderInv'
  OBVIOUS
<1>1. /\ fresh \in Nat /\ Len(table) \in Nat /\ DOMAIN table = 1..Len(table)
      /\ \A i \in 1..Len(table) : table[i].txn \in Int /\ table[i].txn <= fresh
  BY RowTypes, BoundAssumption DEF ShapeInv
<1>2. ASSUME NEW count \in 1..2, Longer(count), NEW t \in Nat, NEW n \in Namespace,
             \A i \in 1..Len(table) : table[i].txn < t,
             \A i \in DOMAIN table' \ DOMAIN table : table'[i].txn = t /\ table'[i].ns = n,
             \A i, j \in DOMAIN table' \ DOMAIN table :
                 table'[i].phase \in {"COMMITTED", "AUDITED"} => table'[j].phase \in {"COMMITTED", "AUDITED"}
      PROVE  OrderInv'
  <2>1. DOMAIN table' = 1..(Len(table) + count) /\ \A i \in 1..Len(table) : table'[i] = table[i]
    BY <1>1, <1>2 DEF Longer
  <2> DEFINE New == DOMAIN table' \ DOMAIN table
  <2>2. \A i \in New : i > Len(table) /\ i \in Int
    BY <1>1, <2>1
  <2> SUFFICES ASSUME NEW i \in DOMAIN table', NEW j \in DOMAIN table', table'[i].txn >= 1
               PROVE  /\ i <= j => table'[i].txn <= table'[j].txn
                      /\ table'[i].txn = table'[j].txn =>
                             /\ table'[i].ns = table'[j].ns
                             /\ table'[i].phase \in {"COMMITTED", "AUDITED"} => table'[j].phase \in {"COMMITTED", "AUDITED"}
    BY DEF OrderInv
  <2>3. CASE i \in DOMAIN table /\ j \in DOMAIN table
    BY <1>1, <2>1, <2>3 DEF OrderInv
  <2>4. CASE i \in DOMAIN table /\ j \in New
    BY <1>1, <1>2, <2>1, <2>4
  <2>5. CASE i \in New /\ j \in DOMAIN table
    <3>1. table'[i].txn = t /\ table'[j].txn < t /\ table'[j].txn \in Int
      BY <1>1, <1>2, <2>1, <2>5
    <3>2. ~(i <= j)
      BY <1>1, <2>2, <2>5
    <3> QED BY <3>1, <3>2
  <2>6. CASE i \in New /\ j \in New
    <3>1. table'[i].txn = t /\ table'[j].txn = t /\ table'[i].ns = n /\ table'[j].ns = n
      BY <1>2, <2>6
    <3> QED BY <1>2, <2>6, <3>1
  <2> QED BY <2>3, <2>4, <2>5, <2>6
<1>3. CASE UNCHANGED table
  BY <1>3 DEF OrderInv
<1>4. CASE Rename
  <2>1. table' = <<>>
    BY <1>4 DEF Rename
  <2> QED BY <2>1 DEF OrderInv
<1>5. CASE CopyRows
  <2>1. table' \in Seq(Row) /\ \A i \in DOMAIN table' : table'[i].txn <= 0
    BY <1>5, CopyFacts
  <2>2. \A i \in DOMAIN table' : table'[i].txn \in Int
    <3>1. \A i \in DOMAIN table' : table'[i] \in Row
      BY <2>1
    <3> QED BY <3>1 DEF Row
  <2>3. \A i \in DOMAIN table' : ~(table'[i].txn >= 1)
    BY <2>1, <2>2
  <2> QED BY <2>3 DEF OrderInv
<1>6. ASSUME NEW n \in Namespace, Commit(n) PROVE OrderInv'
  <2>0. PICK made, changes, changed, targets : Wrote(n, made, changes, changed, targets)
    BY <1>6, CommitFacts
  <2>1. /\ table' \in Seq(Row) /\ Len(table') = Len(table) + 2
        /\ \A i \in 1..Len(table) : table'[i] = table[i]
        /\ Says(table'[Len(table) + 1], fresh + 1, fresh + 1, n, "COMMITTED", targets, changes, changed)
        /\ Says(table'[Len(table) + 2], fresh + 1, fresh + 1, n, "AUDITED", targets, {}, {})
    BY <2>0 DEF Wrote
  <2>2. \A i \in DOMAIN table' \ DOMAIN table :
          table'[i].txn = fresh + 1 /\ table'[i].ns = n /\ table'[i].phase \in {"COMMITTED", "AUDITED"}
    <3>1. \A i \in DOMAIN table' \ DOMAIN table : i = Len(table) + 1 \/ i = Len(table) + 2
      BY <1>1, <2>1
    <3> QED BY <2>1, <3>1 DEF Says
  <2>3. Longer(2)
    BY <2>1 DEF Longer
  <2>4. fresh + 1 \in Nat /\ \A i \in 1..Len(table) : table[i].txn < fresh + 1
    BY <1>1
  <2> QED BY <1>2, <2>2, <2>3, <2>4
<1>7. ASSUME NEW n \in Namespace, Reject(n) PROVE OrderInv'
  <2>1. Longer(1) /\ table'[Len(table) + 1].txn = fresh + 1 /\ table'[Len(table) + 1].ns = n
    BY <1>7, RejectFacts DEF Longer, Says
  <2>2. /\ \A i \in DOMAIN table' \ DOMAIN table : table'[i].txn = fresh + 1 /\ table'[i].ns = n
        /\ \A i, j \in DOMAIN table' \ DOMAIN table : i = j
    <3>1. \A i \in DOMAIN table' \ DOMAIN table : i = Len(table) + 1
      BY <1>1, <2>1 DEF Longer
    <3> QED BY <2>1, <3>1
  <2>3. fresh + 1 \in Nat /\ \A i \in 1..Len(table) : table[i].txn < fresh + 1
    BY <1>1
  <2> QED BY <1>2, <2>1, <2>2, <2>3
<1>8. CASE LogQuery
  <2>1. Longer(1) /\ table'[Len(table) + 1].txn = fresh /\ table'[Len(table) + 1].ns = query.ns
    BY <1>8, LogQueryFacts DEF Longer, Says
  <2>2. /\ \A i \in DOMAIN table' \ DOMAIN table : table'[i].txn = fresh /\ table'[i].ns = query.ns
        /\ \A i, j \in DOMAIN table' \ DOMAIN table : i = j
    <3>1. \A i \in DOMAIN table' \ DOMAIN table : i = Len(table) + 1
      BY <1>1, <2>1 DEF Longer
    <3> QED BY <2>1, <3>1
  <2>3. (\A i \in 1..Len(table) : table[i].txn < fresh) /\ query.ns \in Namespace
    BY <1>1, <1>8 DEF LogQuery, QueryInv
  <2> QED BY <1>1, <1>2, <2>1, <2>2, <2>3
<1>9. ASSUME NEW n \in Namespace, Search(n) PROVE OrderInv'
  BY <1>3, <1>9 DEF Search
<1>10. CASE Open \/ Create \/ Rebuild \/ RecordClaim \/ RecordImpact \/ PersistTrace
  BY <1>3, <1>10 DEF Open, Create, Rebuild, RecordClaim, RecordImpact, PersistTrace
<1>11. CASE Crash \/ Answer \/ UNCHANGED vars
  BY <1>3, <1>11 DEF Crash, Answer, vars, diskVars
<1> QED BY <1>4, <1>5, <1>6, <1>7, <1>8, <1>9, <1>10, <1>11 DEF Next

-----------------------------------------------------------------------------
(* The versions                                                             *)

\* What a step leaves of the rows when it migrates none: all of them.
LEMMA RowsStay ==
  ASSUME ShapeInv, NEW count \in 0..2, Longer(count)
  PROVE  /\ DOMAIN table' = 1..(Len(table) + count)
         /\ \A i \in DOMAIN table : i \in DOMAIN table' /\ table'[i] = table[i]
         /\ \A t, n : CommittedBy(t, n) => CommittedBy(t, n)'
<1>1. Len(table) \in Nat /\ DOMAIN table = 1..Len(table)
  BY RowTypes
<1>2. DOMAIN table' = 1..(Len(table) + count)
  BY <1>1 DEF Longer
<1>3. \A i \in DOMAIN table : i \in DOMAIN table' /\ table'[i] = table[i]
  BY <1>1, <1>2 DEF Longer
<1>4. \A t, n : CommittedBy(t, n) => CommittedBy(t, n)'
  BY <1>3 DEF CommittedBy
<1> QED BY <1>2, <1>3, <1>4

\* The store a transaction left is not touched by the next one.
LEMMA AfterStays ==
  ASSUME ShapeInv, NEW entry, after' = Append(after, entry)
  PROVE  /\ DOMAIN after = 1..fresh /\ DOMAIN after' = 1..(fresh + 1)
         /\ \A t \in 1..fresh : after'[t] = after[t]
         /\ after'[fresh + 1] = entry
<1> DEFINE S == [memory : Store, link : Links]
<1>1. after \in Seq(S) /\ Len(after) = fresh
  BY DEF ShapeInv
<1> HIDE DEF S
<1> QED BY <1>1

\* Before the ledger is open nothing has been committed.
LEMMA NothingDrawn ==
  ASSUME ShapeInv, fresh = 0
  PROVE  versions = {} /\ linked = {} /\ DOMAIN after = {}
<1>1. versions = {} /\ linked = {}
  BY DEF ShapeInv
<1>2. DOMAIN after = 1..Len(after) /\ Len(after) = 0
  BY DEF ShapeInv
<1> QED BY <1>1, <1>2

\* A commit versions what it targets and changes, in the state it leaves it; a
\* version is never written again.
LEMMA VersionNext ==
  ShapeInv /\ FileInv /\ QueryInv /\ VersionInv /\ [Next]_vars => VersionInv'
<1> SUFFICES ASSUME ShapeInv, FileInv, QueryInv, VersionInv, [Next]_vars
             PROVE  VersionInv'
  OBVIOUS
<1>1. /\ fresh \in Nat /\ Len(table) \in Nat /\ DOMAIN table = 1..Len(table)
      /\ \A i \in 1..Len(table) : table[i].txn \in Int /\ table[i].txn <= fresh
  BY RowTypes, BoundAssumption DEF ShapeInv
<1>2. /\ \A v \in versions : v.txn \in 1..fresh
      /\ \A v \in linked : v.txn \in 1..fresh
  BY DEF ShapeInv
<1>3. CASE UNCHANGED <<table, versions, linked, after>>
  BY <1>3 DEF VersionInv, CommittedBy
<1>4. ASSUME NEW count \in 0..1, Longer(count), UNCHANGED <<versions, linked>>,
             count = 0 \/ table'[Len(table) + 1].phase \notin {"COMMITTED", "AUDITED"},
             \A t \in 1..fresh : after'[t] = after[t]
      PROVE  VersionInv'
  <2>1. /\ DOMAIN table' = 1..(Len(table) + count)
        /\ \A i \in DOMAIN table : table'[i] = table[i]
        /\ \A t, n : CommittedBy(t, n) => CommittedBy(t, n)'
    BY <1>4, RowsStay
  <2>2. \A v \in versions' : v.state = after'[v.txn].memory[v.of] /\ \E n \in Namespace : CommittedBy(v.txn, n)'
    BY <1>2, <1>4, <2>1 DEF VersionInv
  <2>3. \A v \in linked' : v.state = v.txn /\ \E n \in Namespace : CommittedBy(v.txn, n)'
    BY <1>4, <2>1 DEF VersionInv
  <2>4. \A i \in DOMAIN table' : i \in DOMAIN table \/ (count = 1 /\ i = Len(table) + 1)
    BY <1>1, <2>1
  <2>5. \A i \in DOMAIN table' :
          table'[i].txn >= 1 /\ table'[i].phase \in {"COMMITTED", "AUDITED"} =>
              /\ \A m \in table'[i].targets : \E v \in versions' : v.of = m /\ v.txn = table'[i].txn
              /\ \A l \in table'[i].links : \E v \in linked' : v.of = l /\ v.txn = table'[i].txn
    BY <1>4, <2>1, <2>4 DEF VersionInv
  <2> QED BY <2>2, <2>3, <2>5 DEF VersionInv
<1>5. CASE Rename
  <2>1. table' = <<>> /\ versions' = {} /\ linked' = {}
    BY <1>5, NothingDrawn DEF Rename, FileInv
  <2> QED BY <2>1 DEF VersionInv
<1>6. CASE CopyRows
  <2>1. versions' = {} /\ linked' = {}
    BY <1>6, NothingDrawn DEF CopyRows, FileInv
  <2>2. table' \in Seq(Row) /\ \A i \in DOMAIN table' : table'[i].txn <= 0
    BY <1>6, CopyFacts
  <2>3. \A i \in DOMAIN table' : ~(table'[i].txn >= 1)
    <3>1. \A i \in DOMAIN table' : table'[i] \in Row
      BY <2>2
    <3>2. \A i \in DOMAIN table' : table'[i].txn \in Int
      BY <3>1 DEF Row
    <3> QED BY <2>2, <3>2
  <2> QED BY <2>1, <2>3 DEF VersionInv
<1>7. ASSUME NEW n \in Namespace, Commit(n) PROVE VersionInv'
  <2>0. PICK made, changes, changed, targets : Wrote(n, made, changes, changed, targets)
    BY <1>7, CommitFacts
  <2>1. /\ table' \in Seq(Row) /\ Len(table') = Len(table) + 2
        /\ \A i \in 1..Len(table) : table'[i] = table[i]
        /\ Says(table'[Len(table) + 1], fresh + 1, fresh + 1, n, "COMMITTED", targets, changes, changed)
        /\ Says(table'[Len(table) + 2], fresh + 1, fresh + 1, n, "AUDITED", targets, {}, {})
        /\ versions' = versions \cup {[of |-> m, txn |-> fresh + 1, state |-> memory'[m]] : m \in targets}
        /\ linked' = linked \cup {[of |-> l, txn |-> fresh + 1, state |-> fresh + 1] : l \in changed}
    BY <2>0 DEF Wrote
  <2>2. Longer(2)
    BY <2>1 DEF Longer
  <2>3. /\ DOMAIN table' = 1..(Len(table) + 2)
        /\ \A i \in DOMAIN table : table'[i] = table[i]
        /\ \A t, k : CommittedBy(t, k) => CommittedBy(t, k)'
    BY <2>2, RowsStay
  <2>4. CommittedBy(fresh, n)'
    <3>1. Len(table) + 1 \in DOMAIN table' /\ Says(table'[Len(table) + 1], fresh + 1, fresh + 1, n, "COMMITTED", targets, changes, changed)
      BY <1>1, <2>1, <2>3
    <3>2. \E i \in DOMAIN table' : table'[i].txn = fresh + 1 /\ table'[i].ns = n /\ table'[i].phase = "COMMITTED"
      BY <3>1 DEF Says
    <3>3. fresh' = fresh + 1
      BY <1>7 DEF Commit
    <3> QED BY <3>2, <3>3 DEF CommittedBy
  <2>5. /\ fresh' = fresh + 1
        /\ \A t \in 1..fresh : after'[t] = after[t]
        /\ after'[fresh + 1].memory = memory'
    <3> DEFINE entry == [memory |-> memory', link |-> link']
    <3>1. fresh' = fresh + 1 /\ after' = Append(after, entry)
      BY <1>7 DEF Commit
    <3>2. entry.memory = memory'
      OBVIOUS
    <3> HIDE DEF entry
    <3>3. (\A t \in 1..fresh : after'[t] = after[t]) /\ after'[fresh + 1] = entry
      BY <3>1, AfterStays
    <3> QED BY <3>1, <3>2, <3>3
  <2>6. ASSUME NEW v \in versions'
        PROVE  v.state = after'[v.txn].memory[v.of] /\ \E k \in Namespace : CommittedBy(v.txn, k)'
    <3>1. CASE v \in versions
      BY <1>2, <2>3, <2>5, <3>1 DEF VersionInv
    <3>2. CASE v \notin versions
      <4>1. v.txn = fresh + 1 /\ v.state = memory'[v.of]
        BY <2>1, <3>2
      <4> QED BY <2>4, <2>5, <4>1
    <3> QED BY <3>1, <3>2
  <2>7. ASSUME NEW v \in linked'
        PROVE  v.state = v.txn /\ \E k \in Namespace : CommittedBy(v.txn, k)'
    <3>1. CASE v \in linked
      BY <2>3, <3>1 DEF VersionInv
    <3>2. CASE v \notin linked
      <4>1. v.txn = fresh + 1 /\ v.state = fresh + 1
        BY <2>1, <3>2
      <4> QED BY <2>4, <2>5, <4>1
    <3> QED BY <3>1, <3>2
  <2>8. ASSUME NEW i \in DOMAIN table', table'[i].txn >= 1, table'[i].phase \in {"COMMITTED", "AUDITED"}
        PROVE  /\ \A m \in table'[i].targets : \E v \in versions' : v.of = m /\ v.txn = table'[i].txn
               /\ \A l \in table'[i].links : \E v \in linked' : v.of = l /\ v.txn = table'[i].txn
    <3>1. versions \subseteq versions' /\ linked \subseteq linked'
      BY <2>1
    <3>2. CASE i \in DOMAIN table
      BY <2>3, <2>8, <3>1, <3>2 DEF VersionInv
    <3>3. CASE i \in {Len(table) + 1, Len(table) + 2}
      <4>1. table'[i].txn = fresh + 1 /\ table'[i].targets = targets /\ table'[i].links \subseteq changed
        BY <2>1, <3>3 DEF Says
      <4>2. \A m \in targets : [of |-> m, txn |-> fresh + 1, state |-> memory'[m]] \in versions'
        BY <2>1
      <4>3. \A l \in changed : [of |-> l, txn |-> fresh + 1, state |-> fresh + 1] \in linked'
        BY <2>1
      <4> QED BY <4>1, <4>2, <4>3
    <3> QED BY <1>1, <2>3, <3>2, <3>3
  <2> QED BY <2>6, <2>7, <2>8 DEF VersionInv
<1>8. ASSUME NEW n \in Namespace, Reject(n) PROVE VersionInv'
  <2>1. Longer(1) /\ table'[Len(table) + 1].phase \notin {"COMMITTED", "AUDITED"}
    BY <1>8, RejectFacts DEF Longer, Says
  <2>2. UNCHANGED <<versions, linked>>
    BY <1>8 DEF Reject
  <2>3. \A t \in 1..fresh : after'[t] = after[t]
    <3>1. after' = Append(after, [memory |-> memory, link |-> link])
      BY <1>8 DEF Reject
    <3> QED BY <3>1, AfterStays
  <2> QED BY <1>4, <2>1, <2>2, <2>3
<1>9. ASSUME NEW n \in Namespace, Search(n) PROVE VersionInv'
  <2>1. UNCHANGED <<table, versions, linked>>
    BY <1>9 DEF Search
  <2>2. Longer(0)
    BY <1>1, <2>1 DEF Longer, ShapeInv
  <2>3. \A t \in 1..fresh : after'[t] = after[t]
    <3>1. after' = Append(after, [memory |-> memory', link |-> link])
      BY <1>9 DEF Search
    <3> QED BY <3>1, AfterStays
  <2> QED BY <1>4, <2>1, <2>2, <2>3
<1>10. CASE LogQuery
  <2>1. Longer(1) /\ table'[Len(table) + 1].phase \notin {"COMMITTED", "AUDITED"}
    BY <1>10, LogQueryFacts DEF Longer, Says
  <2>2. UNCHANGED <<versions, linked, after>>
    BY <1>10 DEF LogQuery
  <2> QED BY <1>4, <2>1, <2>2
<1>11. CASE Open \/ Create \/ Rebuild \/ RecordClaim \/ RecordImpact \/ PersistTrace
  BY <1>3, <1>11 DEF Open, Create, Rebuild, RecordClaim, RecordImpact, PersistTrace
<1>12. CASE Crash \/ Answer \/ UNCHANGED vars
  BY <1>3, <1>12 DEF Crash, Answer, vars, diskVars
<1> QED BY <1>5, <1>6, <1>7, <1>8, <1>9, <1>10, <1>11, <1>12 DEF Next

\* The targets of a transaction that creates memories are these memories: none
\* comes into the store without a version.
LEMMA CreationNext ==
  ShapeInv /\ FileInv /\ QueryInv /\ CreationInv /\ [Next]_vars => CreationInv'
<1> SUFFICES ASSUME ShapeInv, FileInv, QueryInv, CreationInv, [Next]_vars
             PROVE  CreationInv'
  OBVIOUS
<1>1. /\ fresh \in Nat /\ Len(table) \in Nat /\ DOMAIN table = 1..Len(table)
      /\ DOMAIN after = 1..fresh /\ \A v \in versions : v.txn \in 1..fresh
  BY RowTypes, BoundAssumption DEF ShapeInv
<1>2. ASSUME NEW count \in 0..2, Longer(count), versions \subseteq versions',
             NEW m, NEW t \in Nat, NEW u \in Nat, CreatedBy(m, t), t <= u
      PROVE  CreatedBy(m, u)'
  <2>1. PICK v \in versions : v.of = m /\ v.txn <= t /\ CommittedBy(v.txn, HomeOf[m])
    BY <1>2 DEF CreatedBy
  <2>2. CommittedBy(v.txn, HomeOf[m])'
    BY <1>2, <2>1, RowsStay
  <2>3. v \in versions' /\ v.txn <= u
    BY <1>1, <1>2, <2>1
  <2> QED BY <2>1, <2>2, <2>3 DEF CreatedBy
<1>3. ASSUME NEW count \in 0..2, Longer(count), versions \subseteq versions', fresh' = fresh + 1,
             after' = Append(after, [memory |-> memory', link |-> link']),
             \A m \in Memory \ Stored : memory'[m] # None => memory[m] # None \/ CreatedBy(m, fresh)'
      PROVE  CreationInv'
  <2>1. \A m \in Memory \ Stored : memory'[m] # None => CreatedBy(m, fresh)'
    <3> TAKE m \in Memory \ Stored
    <3> HAVE memory'[m] # None
    <3>1. CASE memory[m] # None
      <4>1. CreatedBy(m, fresh)
        BY <3>1 DEF CreationInv, Present
      <4> QED BY <1>1, <1>2, <1>3, <4>1
    <3> QED BY <1>3, <3>1
  <2>2. \A m \in (Present \ Stored)' : CreatedBy(m, fresh)'
    BY <2>1 DEF Present
  <2>3. /\ DOMAIN after' = 1..(fresh + 1)
        /\ \A t \in 1..fresh : after'[t] = after[t]
        /\ after'[fresh + 1] = [memory |-> memory', link |-> link']
    BY <1>3, AfterStays
  <2>4. ASSUME NEW t \in DOMAIN after', NEW m \in Memory \ Stored, after'[t].memory[m] # None
        PROVE  CreatedBy(m, t)'
    <3>1. CASE t \in 1..fresh
      <4>1. CreatedBy(m, t) /\ t \in Nat /\ t <= t
        BY <1>1, <2>3, <2>4, <3>1 DEF CreationInv
      <4> QED BY <1>2, <1>3, <4>1
    <3>2. CASE t = fresh + 1
      <4>1. memory'[m] # None
        BY <2>3, <2>4, <3>2
      <4>2. t = fresh'
        BY <1>3, <3>2
      <4> QED BY <2>1, <4>1, <4>2 DEF CreatedBy
    <3> QED BY <1>1, <2>3, <3>1, <3>2
  <2> QED BY <2>2, <2>4 DEF CreationInv
<1>4. CASE UNCHANGED <<memory, table, versions, fresh, after>>
  BY <1>4 DEF CreationInv, CreatedBy, CommittedBy, Present
<1>5. CASE Rename \/ CopyRows
  <2>1. versions = {} /\ DOMAIN after = {} /\ UNCHANGED <<memory, versions, after, fresh>>
    BY <1>5, NothingDrawn DEF Rename, CopyRows, FileInv
  <2>2. Present \ Stored = {}
    BY <2>1 DEF CreationInv, CreatedBy
  <2> QED BY <2>1, <2>2 DEF CreationInv, Present
<1>6. ASSUME NEW n \in Namespace, Commit(n) PROVE CreationInv'
  <2>0. PICK made, changes, changed, targets : Wrote(n, made, changes, changed, targets)
    BY <1>6, CommitFacts
  <2>1. /\ made \subseteq Memory \ Present /\ (\A m \in made : HomeOf[m] = n)
        /\ targets \subseteq Present \cup made /\ (made # {} => targets = made)
        /\ \A m \in Memory :
             /\ memory'[m] = None <=> memory[m] = None /\ m \notin made
             /\ memory'[m] # None => memory'[m] \in Counted(fresh + 1)
        /\ table' \in Seq(Row) /\ Len(table') = Len(table) + 2
        /\ \A i \in 1..Len(table) : table'[i] = table[i]
        /\ Says(table'[Len(table) + 1], fresh + 1, fresh + 1, n, "COMMITTED", targets, changes, changed)
        /\ versions' = versions \cup {[of |-> m, txn |-> fresh + 1, state |-> memory'[m]] : m \in targets}
    BY <2>0 DEF Wrote
  <2>2. Longer(2) /\ versions \subseteq versions'
    BY <2>1 DEF Longer
  <2>3. fresh' = fresh + 1 /\ after' = Append(after, [memory |-> memory', link |-> link'])
    BY <1>6 DEF Commit
  <2>4. CommittedBy(fresh, n)'
    <3>1. Len(table) + 1 \in DOMAIN table' /\ Says(table'[Len(table) + 1], fresh + 1, fresh + 1, n, "COMMITTED", targets, changes, changed)
      BY <1>1, <2>1
    <3> QED BY <2>3, <3>1 DEF Says, CommittedBy
  <2>5. ASSUME NEW m \in made PROVE CreatedBy(m, fresh)'
    <3>1. [of |-> m, txn |-> fresh + 1, state |-> memory'[m]] \in versions'
      BY <2>1
    <3>2. PICK v \in versions' : v.of = m /\ v.txn = fresh'
      BY <2>3, <3>1
    <3>3. v.txn <= fresh'
      BY <1>1, <2>3, <3>2
    <3>4. CommittedBy(v.txn, HomeOf[m])'
      BY <2>1, <2>4, <3>2 DEF CommittedBy
    <3> QED BY <3>2, <3>3, <3>4 DEF CreatedBy
  <2>6. \A m \in Memory \ Stored : memory'[m] # None => memory[m] # None \/ CreatedBy(m, fresh)'
    BY <2>1, <2>5
  <2> QED BY <1>3, <2>2, <2>3, <2>6
<1>7. ASSUME NEW n \in Namespace, Reject(n) PROVE CreationInv'
  <2>1. Longer(1)
    BY <1>7, RejectFacts DEF Longer
  <2>2. UNCHANGED <<memory, link, versions>> /\ fresh' = fresh + 1 /\ after' = Append(after, [memory |-> memory', link |-> link'])
    BY <1>7 DEF Reject
  <2> QED BY <1>3, <2>1, <2>2
<1>8. ASSUME NEW n \in Namespace, Search(n) PROVE CreationInv'
  <2>1. UNCHANGED <<table, link, versions>> /\ fresh' = fresh + 1 /\ after' = Append(after, [memory |-> memory', link |-> link'])
    BY <1>8 DEF Search
  <2>2. Longer(0)
    BY <1>1, <2>1 DEF Longer, ShapeInv
  <2>3. \A m \in Memory : memory'[m] # None => memory[m] # None
    BY <1>8, SearchFacts
  <2> QED BY <1>3, <2>1, <2>2, <2>3
<1>9. CASE LogQuery
  <2>1. Longer(1) /\ UNCHANGED <<memory, versions, fresh, after>>
    BY <1>9, LogQueryFacts DEF LogQuery, Longer
  <2>2. \A m \in Present \ Stored : CreatedBy(m, fresh)'
    <3>1. \A m \in Present \ Stored : CreatedBy(m, fresh)
      BY DEF CreationInv
    <3> QED BY <1>1, <1>2, <2>1, <3>1
  <2>3. \A t \in 1..fresh : \A m \in Memory \ Stored : after[t].memory[m] # None => CreatedBy(m, t)'
    <3>1. \A t \in 1..fresh : \A m \in Memory \ Stored : after[t].memory[m] # None => CreatedBy(m, t)
      BY <1>1 DEF CreationInv
    <3> QED BY <1>1, <1>2, <2>1, <3>1
  <2> QED BY <1>1, <2>1, <2>2, <2>3 DEF CreationInv, Present
<1>10. CASE Open \/ Create \/ Rebuild \/ RecordClaim \/ RecordImpact \/ PersistTrace
  BY <1>4, <1>10 DEF Open, Create, Rebuild, RecordClaim, RecordImpact, PersistTrace
<1>11. CASE Crash \/ Answer \/ UNCHANGED vars
  BY <1>4, <1>11 DEF Crash, Answer, vars, diskVars
<1> QED BY <1>5, <1>6, <1>7, <1>8, <1>9, <1>10, <1>11 DEF Next

-----------------------------------------------------------------------------
(* The invariant, and what follows                                          *)

\* Every file that can be opened satisfies the invariant.
LEMMA InitIInv == Init => IInv
<1> SUFFICES ASSUME Init
             PROVE  IInv
  OBVIOUS
<1>1. <<>> \in Seq(Row) /\ <<>> \in Seq(Content) /\ Len(<<>>) = 0 /\ DOMAIN <<>> = {}
  OBVIOUS
<1>2. <<>> \in Seq([memory : Store, link : Links])
  OBVIOUS
<1>3. fresh = 0 /\ fresh \in 0..MaxTxn /\ 0 \in 0..0
  BY BoundAssumption DEF Init
<1>4. memory \in Store
  BY <1>3 DEF Init, Store, Counted
<1>5. link \in Links
  BY <1>3 DEF Init, Links
<1>6. /\ table \in Seq(Row)
      /\ \A i \in DOMAIN table : table[i].txn <= 0 /\ table[i].trace = 0
  <2>1. CASE table = <<>>
    BY <1>1, <2>1
  <2>2. CASE table = OldRows
    BY <2>2, OldRowsAssumption
  <2> QED BY <2>1, <2>2 DEF Init
<1>7. ShapeInv
  <2>1. \A i \in DOMAIN table : table[i].txn <= fresh /\ table[i].trace <= fresh
    BY <1>3, <1>6
  <2>2. claims \in [Claim -> Content \cup {None}] /\ impact = None /\ slots = <<>>
    BY DEF Init
  <2> QED BY <1>1, <1>2, <1>3, <1>4, <1>5, <1>6, <2>1, <2>2 DEF Init, ShapeInv
<1>8. FileInv
  BY DEF Init, FileInv
<1>9. ChainInv
  BY <1>1 DEF Init, ChainInv
<1>10. ContentInv
  BY DEF Init, ContentInv, Present
<1>11. QueryInv
  BY DEF Init, QueryInv
<1>12. TraceInv
  BY DEF Init, TraceInv
<1>13. \A i \in DOMAIN table : ~(table[i].txn >= 1)
  <2>1. \A i \in DOMAIN table : table[i] \in Row
    BY <1>6
  <2>2. \A i \in DOMAIN table : table[i].txn \in Int
    BY <2>1 DEF Row
  <2> QED BY <1>6, <2>2
<1>14. OrderInv /\ VersionInv
  BY <1>13 DEF Init, OrderInv, VersionInv
<1>15. CreationInv
  BY <1>1 DEF Init, CreationInv, Present
<1> QED BY <1>7, <1>8, <1>9, <1>10, <1>11, <1>12, <1>14, <1>15 DEF IInv

\* And every step keeps it.
LEMMA NextIInv == IInv /\ [Next]_vars => IInv'
BY ShapeNext, FileNext, ChainNext, ContentNext, QueryNext, TraceNext, OrderNext, VersionNext, CreationNext
   DEF IInv

\* The invariant holds throughout.
LEMMA IInvCorrect == Spec => []IInv
BY InitIInv, NextIInv, PTL DEF Spec

\* Types: no record and no version counts more than there were transactions,
\* and an assessment is stored exactly when a slot of it is.
THEOREM TypeCorrect == Spec => []TypeOK
<1>1. IInv => TypeOK
  <2> SUFFICES ASSUME ShapeInv
               PROVE  TypeOK
    BY DEF IInv
  <2>1. fresh \in 0..MaxTxn /\ 0..fresh \subseteq 0..MaxTxn /\ 1..fresh \subseteq Txn
    BY BoundAssumption DEF ShapeInv, Txn
  <2>2. Counted(fresh) \subseteq Record
    BY <2>1 DEF Counted, Record
  <2>3. memory \in [Memory -> Record \cup {None}]
    BY <2>2 DEF ShapeInv, Store
  <2>4. link \in [Link -> 0..MaxTxn]
    BY <2>1 DEF ShapeInv, Links
  <2>5. \A i \in DOMAIN table : table[i].txn \in Int /\ table[i].ns \in Namespace
    <3>1. \A i \in DOMAIN table : table[i] \in Row
      BY DEF ShapeInv
    <3> QED BY <3>1 DEF Row
  <2>6. /\ \A v \in versions : v.txn \in Txn /\ v.state \in Record
        /\ \A v \in linked : v.txn \in Txn /\ v.of \in Link
    BY <2>1, <2>2 DEF ShapeInv
  <2>7. live \cup answered \subseteq Txn
    BY <2>1 DEF ShapeInv
  <2> QED BY <2>3, <2>4, <2>5, <2>6, <2>7 DEF ShapeInv, TypeOK
<1> QED BY <1>1, IInvCorrect, PTL

\* The chain of an open ledger verifies, after a migration too, and
\* why_written() explains every content that is not older than the ledger.
THEOREM LedgerExplainsCorrect == Spec => []LedgerExplains
<1>1. IInv => LedgerExplains
  <2> SUFFICES ASSUME IInv, mode \notin {"down", "migrating"}
               PROVE  /\ \A i \in DOMAIN table : table[i].prev = IF i = 1 THEN <<>> ELSE Hash(table, i - 1)
                      /\ \A m \in Present : memory[m].body # 0 =>
                            \E i \in WhyWritten(m, HomeOf[m]) : table[i].txn = memory[m].body /\ m \in table[i].memories
    BY DEF LedgerExplains
  <2>1. file # "old"
    BY DEF IInv, FileInv
  <2>2. ASSUME NEW m \in Present, memory[m].body # 0
        PROVE  \E i \in WhyWritten(m, HomeOf[m]) : table[i].txn = memory[m].body /\ m \in table[i].memories
    <3>1. PICK i \in DOMAIN table : Explains(table[i], m, memory[m].body)
      BY <2>2 DEF IInv, ContentInv
    <3> QED BY <3>1 DEF Explains, WhyWritten
  <2> QED BY <2>1, <2>2 DEF IInv, ChainInv
<1> QED BY <1>1, IInvCorrect, PTL

\* Every answered trace can be replayed, by the process that answered it and by
\* the next one, and a selection that is in a file with its accesses.
THEOREM TraceReplaysCorrect == Spec => []TraceReplays
<1>1. IInv => TraceReplays
  <2> SUFFICES ASSUME IInv, NEW t \in answered
               PROVE  \E n \in Namespace :
                        LET replay == ReplayTrace(t, n) IN
                        /\ replay # None
                        /\ (\E f \in traces : f.txn = t) => replay.selected \subseteq replay.deltas
    BY DEF TraceReplays
  <2>1. PICK k \in DOMAIN table : table[k].trace = t
    BY DEF IInv, TraceInv
  <2>2. table[k] \in Row /\ table[k].ns \in Namespace
    <3>1. table[k] \in Row
      BY RowTypes DEF IInv
    <3> QED BY <3>1 DEF Row
  <2> DEFINE n == table[k].ns
             rows == OfTrace(t, n)
             files == {f \in traces : f.txn = t}
             deltas == UNION {table[i].memories : i \in rows}
             file1 == CHOOSE f \in files : TRUE
             fromFile == [selected |-> file1.selected, deltas |-> deltas]
             fromRow == [selected |-> table[Max(rows)].targets, deltas |-> deltas]
  <2>3. rows \in SUBSET (1..Len(table)) /\ Len(table) \in Nat /\ k \in rows
    BY <2>1, RowTypes DEF OfTrace, IInv
  <2>4. Max(rows) \in rows
    <3> HIDE DEF rows
    <3> QED BY <2>3, GreatestPosition
  <2>5. ReplayTrace(t, n) = fromFile \/ ReplayTrace(t, n) = fromRow
    BY <2>3 DEF ReplayTrace
  <2>6. files # {} => ReplayTrace(t, n).selected \subseteq deltas
    <3> SUFFICES ASSUME files # {}
                 PROVE  ReplayTrace(t, n).selected \subseteq deltas
      OBVIOUS
    <3>1. \A f \in files : \A i \in rows : OfQuery(table[i], f.selected)
      BY DEF IInv, TraceInv, OfTrace
    <3>2. \A i \in rows : table[i].memories \subseteq deltas
      OBVIOUS
    <3>3. file1 \in files
      OBVIOUS
    <3>4. file1.selected \subseteq deltas
      <4> HIDE DEF files, rows, deltas, file1
      <4> QED BY <2>3, <3>1, <3>2, <3>3 DEF OfQuery
    <3>5. table[Max(rows)].targets \subseteq deltas
      <4> HIDE DEF files, rows, deltas, file1
      <4> QED BY <2>4, <3>1, <3>2, <3>3 DEF OfQuery
    <3> HIDE DEF files, rows, deltas, file1
    <3> QED BY <2>5, <3>4, <3>5
  <2>7. ReplayTrace(t, n).deltas = deltas
    <3> HIDE DEF files, rows, deltas, file1
    <3> QED BY <2>5
  <2>8. ReplayTrace(t, n) # None
    <3>1. \A i \in rows : table[i].targets \in SUBSET Memory /\ table[i].memories \in SUBSET Memory
      <4>1. \A i \in rows : table[i] \in Row
        BY <2>3, RowTypes DEF IInv
      <4> HIDE DEF rows
      <4> QED BY <4>1 DEF Row
    <3>2. deltas \in SUBSET Memory /\ table[Max(rows)].targets \in SUBSET Memory
      <4> HIDE DEF rows
      <4> QED BY <2>4, <3>1
    <3>3. files # {} => file1.selected \in SUBSET Memory
      BY DEF IInv, ShapeInv
    <3>4. ReplayTrace(t, n) = fromRow \/ (files # {} /\ ReplayTrace(t, n) = fromFile)
      BY <2>3 DEF ReplayTrace
    <3> HIDE DEF files, rows, deltas, file1
    <3>5. fromRow \in [selected : SUBSET Memory, deltas : SUBSET Memory]
      BY <3>2
    <3>6. files # {} => fromFile \in [selected : SUBSET Memory, deltas : SUBSET Memory]
      BY <3>2, <3>3
    <3> QED BY <3>4, <3>5, <3>6, NoneAssumption
  <2> QED BY <2>2, <2>6, <2>7, <2>8
<1> QED BY <1>1, IInvCorrect, PTL

-----------------------------------------------------------------------------
(* Nothing recorded is lost                                                 *)

\* The rows of a table without their links.
Unlinked(rows) == {[rows[i] EXCEPT !.prev = <<>>] : i \in DOMAIN rows}

\* What Recorded says of the two tables.
LEMMA RecordedRows == Recorded.rows = Unlinked(table) \cup Unlinked(renamed) /\ Recorded.slots = Len(slots)
<1>1. Recorded.rows = {[r EXCEPT !.prev = <<>>] : r \in Range(table) \cup Range(renamed)}
  BY DEF Recorded
<1>2. \A x : x \in Recorded.rows <=> x \in Unlinked(table) \cup Unlinked(renamed)
  BY <1>1 DEF Unlinked, Range
<1> QED BY <1>2 DEF Recorded

\* No step takes a row out of both tables.
LEMMA RowsKept ==
  ASSUME ShapeInv, FileInv, QueryInv, [Next]_vars
  PROVE  Unlinked(table) \cup Unlinked(renamed) \subseteq Unlinked(table') \cup Unlinked(renamed')
<1>1. Unlinked(<<>>) = {}
  BY DEF Unlinked
<1>2. CASE table' = table /\ renamed' = renamed
  BY <1>2
<1>3. ASSUME NEW count \in 0..2, Longer(count), renamed' = renamed
      PROVE  Unlinked(table) \cup Unlinked(renamed) \subseteq Unlinked(table') \cup Unlinked(renamed')
  <2>1. \A i \in DOMAIN table : i \in DOMAIN table' /\ table'[i] = table[i]
    BY <1>3, RowsStay
  <2>2. Unlinked(table) \subseteq Unlinked(table')
    BY <2>1 DEF Unlinked
  <2> QED BY <1>3, <2>2
<1>4. CASE Rename
  <2>1. renamed = <<>> /\ renamed' = table
    BY <1>4 DEF Rename, FileInv
  <2> QED BY <1>1, <2>1
<1>5. CASE CopyRows
  <2>1. /\ table = <<>>
        /\ \A k \in DOMAIN renamed : \E i \in DOMAIN table' : table'[i] = [renamed[k] EXCEPT !.prev = table'[i].prev]
    BY <1>5, CopyFacts
  <2>2. ASSUME NEW k \in DOMAIN renamed
        PROVE  [renamed[k] EXCEPT !.prev = <<>>] \in Unlinked(table')
    <3>1. PICK i \in DOMAIN table' : table'[i] = [renamed[k] EXCEPT !.prev = table'[i].prev]
      BY <2>1
    <3>2. renamed[k] \in Row
      BY DEF ShapeInv
    <3>3. \A x, y : [[renamed[k] EXCEPT !.prev = x] EXCEPT !.prev = y] = [renamed[k] EXCEPT !.prev = y]
      BY <3>2 DEF Row
    <3>4. [table'[i] EXCEPT !.prev = <<>>] = [renamed[k] EXCEPT !.prev = <<>>]
      BY <3>1, <3>3
    <3> QED BY <3>4 DEF Unlinked
  <2>3. Unlinked(renamed) \subseteq Unlinked(table')
    BY <2>2 DEF Unlinked
  <2> QED BY <1>1, <2>1, <2>3
<1> QED BY <1>2, <1>3, <1>4, <1>5, RowSteps

\* Nothing else recorded goes away either: a version once written stays, a
\* claim keeps what it said first.
LEMMA TablesKept ==
  ASSUME ShapeInv, [Next]_vars
  PROVE  /\ versions \subseteq versions' /\ linked \subseteq linked'
         /\ Len(slots) <= Len(slots')
         /\ \A c \in Claim : claims[c] # None => claims'[c] = claims[c]
<1>1. Len(slots) \in Nat
  BY DEF ShapeInv
<1>2. CASE UNCHANGED <<versions, linked, slots, claims>>
  BY <1>1, <1>2
<1>3. ASSUME NEW n \in Namespace, Commit(n)
      PROVE  versions \subseteq versions' /\ linked \subseteq linked' /\ slots' = slots /\ claims' = claims
  <2>1. versions \subseteq versions' /\ linked \subseteq linked'
    <3>1. PICK made, changes, changed, targets : Wrote(n, made, changes, changed, targets)
      BY <1>3, CommitFacts
    <3> QED BY <3>1 DEF Wrote
  <2> QED BY <1>3, <2>1 DEF Commit
<1>4. ASSUME NEW n \in Namespace, Reject(n) \/ Search(n) PROVE UNCHANGED <<versions, linked, slots, claims>>
  BY <1>4 DEF Reject, Search
<1>5. CASE RecordClaim
  <2>1. PICK c \in Claim, content \in Content : claims' = [claims EXCEPT ![c] = IF @ = None THEN content ELSE @]
    BY <1>5 DEF RecordClaim, ClaimRecorded
  <2>2. \A d \in Claim : claims[d] # None => claims'[d] = claims[d]
    BY <2>1 DEF ShapeInv
  <2> QED BY <1>1, <1>5, <2>2 DEF RecordClaim
<1>6. CASE RecordImpact
  <2>1. \E content \in Content : slots' = Append(slots, content)
    BY <1>6 DEF RecordImpact
  <2>2. Len(slots') = Len(slots) + 1
    BY <2>1 DEF ShapeInv
  <2> QED BY <1>1, <1>6, <2>2 DEF RecordImpact
<1>7. CASE Open \/ Rename \/ Create \/ CopyRows \/ Crash
  BY <1>2, <1>7 DEF Open, Rename, Create, CopyRows, Crash, diskVars
<1>8. CASE Rebuild \/ LogQuery \/ PersistTrace \/ Answer \/ UNCHANGED vars
  BY <1>2, <1>8 DEF Rebuild, LogQuery, PersistTrace, Answer, vars, diskVars
<1> QED BY <1>1, <1>2, <1>3, <1>4, <1>5, <1>6, <1>7, <1>8 DEF Next

\* No step loses or rewrites what was recorded, the steps of a migration and
\* the death of the process between them included.
THEOREM HistoryKeptCorrect == Spec => HistoryKept
<1>1. IInv /\ [Next]_vars =>
        [ /\ Recorded.rows \subseteq Recorded'.rows
          /\ versions \subseteq versions' /\ linked \subseteq linked'
          /\ Recorded.slots <= Recorded'.slots
          /\ \A c \in Claim : claims[c] # None => claims'[c] = claims[c] ]_vars
  <2> SUFFICES ASSUME IInv, [Next]_vars
               PROVE  /\ Recorded.rows \subseteq Recorded'.rows
                      /\ versions \subseteq versions' /\ linked \subseteq linked'
                      /\ Recorded.slots <= Recorded'.slots
                      /\ \A c \in Claim : claims[c] # None => claims'[c] = claims[c]
    OBVIOUS
  <2>1. Recorded.rows = Unlinked(table) \cup Unlinked(renamed) /\ Recorded.slots = Len(slots)
    BY RecordedRows
  <2>2. Recorded'.rows = Unlinked(table') \cup Unlinked(renamed') /\ Recorded'.slots = Len(slots')
    <3>1. Recorded'.rows = {[r EXCEPT !.prev = <<>>] : r \in Range(table') \cup Range(renamed')} /\ Recorded'.slots = Len(slots')
      BY DEF Recorded
    <3>2. \A x : x \in Recorded'.rows <=> x \in Unlinked(table') \cup Unlinked(renamed')
      BY <3>1 DEF Unlinked, Range
    <3> QED BY <3>1, <3>2
  <2>3. Unlinked(table) \cup Unlinked(renamed) \subseteq Unlinked(table') \cup Unlinked(renamed')
    BY RowsKept DEF IInv
  <2> QED BY <2>1, <2>2, <2>3, TablesKept DEF IInv
<1> QED BY <1>1, IInvCorrect, PTL DEF Spec, HistoryKept

-----------------------------------------------------------------------------
(* A committed state can be read back                                       *)

\* The versions of kept that are of a transaction among the rows.
Own(kept, rows) == {v \in kept : v.txn \in {table[i].txn : i \in rows}}

\* _version_snapshot() has the ids of which a version is among the rows, each
\* in the state of the last of them.
LEMMA LatestFacts ==
  ASSUME NEW kept, NEW rows, NEW k \in Nat, \A v \in kept : v.txn \in 1..k
  PROVE  /\ DOMAIN Latest(kept, rows) = {v.of : v \in Own(kept, rows)}
         /\ \A x \in DOMAIN Latest(kept, rows) : \E v \in Own(kept, rows) :
                /\ v.of = x /\ Latest(kept, rows)[x] = v.state
                /\ \A w \in Own(kept, rows) : w.of = x => w.txn <= v.txn
<1> DEFINE own == Own(kept, rows)
           Last1(x) == CHOOSE v \in own : v.of = x /\ \A w \in own : w.of = x => w.txn <= v.txn
           states == Latest(kept, rows)
<1>1. states = [x \in {v.of : v \in own} |-> Last1(x).state]
  BY DEF Latest, Own
<1>2. own \subseteq kept
  BY DEF Own
<1> HIDE DEF own, states
<1>3. ASSUME NEW x \in {v.of : v \in own}
      PROVE  Last1(x) \in own /\ Last1(x).of = x /\ \A w \in own : w.of = x => w.txn <= Last1(x).txn
  <2> DEFINE T == {v.txn : v \in {w \in own : w.of = x}}
  <2>1. PICK v0 \in own : v0.of = x
    OBVIOUS
  <2>2. T \in SUBSET (1..k) /\ v0.txn \in T
    BY <1>2, <2>1
  <2>3. Max(T) \in T /\ \A u \in T : u <= Max(T)
    <3> HIDE DEF T
    <3> QED BY <2>2, GreatestPosition
  <2>4. PICK v \in own : v.of = x /\ v.txn = Max(T)
    BY <2>3
  <2>5. \A w \in own : w.of = x => w.txn <= v.txn
    BY <2>3, <2>4
  <2>6. \E y \in own : y.of = x /\ \A w \in own : w.of = x => w.txn <= y.txn
    BY <2>4, <2>5
  <2> QED BY <2>6
<1> HIDE DEF Last1
<1>4. DOMAIN states = {v.of : v \in own}
  BY <1>1
<1>5. ASSUME NEW x \in DOMAIN states
      PROVE  \E v \in own : v.of = x /\ states[x] = v.state /\ \A w \in own : w.of = x => w.txn <= v.txn
  BY <1>1, <1>3, <1>4
<1> QED BY <1>4, <1>5 DEF own, states

\* replay() up to a committed transaction t of n has the rows of the
\* transactions of n up to t, all of them, and no version of another one.
LEMMA ReplayFacts ==
  ASSUME IInv, NEW n \in Namespace, NEW t \in Committed(n)
  PROVE  /\ t \in 1..fresh
         /\ \A u \in Committed(n) : u <= t => u \in {table[i].txn : i \in Replay(t, n)}
         /\ \A v \in versions \cup linked : v.txn \in {table[i].txn : i \in Replay(t, n)} =>
                v.txn \in Committed(n) /\ v.txn <= t
<1>1. /\ fresh \in Nat /\ Len(table) \in Nat /\ DOMAIN table = 1..Len(table) /\ DOMAIN after = 1..fresh
      /\ \A i \in 1..Len(table) : table[i].txn \in Int /\ table[i].txn <= fresh
  BY RowTypes, BoundAssumption DEF IInv, ShapeInv
<1>2. \A u : u \in Committed(n) <=> u \in 1..fresh /\ CommittedBy(u, n)
  BY <1>1 DEF Committed, CommittedBy
<1>3. t \in 1..fresh /\ CommittedBy(t, n)
  BY <1>2
<1> DEFINE last == Max(OfTransaction(t))
<1>4. OfTransaction(t) # {} /\ OfTransaction(t) \in SUBSET (1..Len(table))
  BY <1>1, <1>3 DEF OfTransaction, CommittedBy
<1>5. last \in OfTransaction(t) /\ \A i \in OfTransaction(t) : i <= last
  BY <1>1, <1>4, GreatestPosition
<1>6. UpTo(t) = last
  BY <1>4 DEF UpTo
<1> HIDE DEF last
<1>7. last \in 1..Len(table) /\ table[last].txn = t
  BY <1>1, <1>5 DEF OfTransaction
<1>8. Replay(t, n) = {i \in 1..last : table[i].ns = n}
  BY <1>6 DEF Replay
<1>9. \A i, j \in 1..Len(table) :
        table[i].txn >= 1 =>
            /\ i <= j => table[i].txn <= table[j].txn
            /\ table[i].txn = table[j].txn => table[i].ns = table[j].ns
  BY <1>1 DEF IInv, OrderInv
<1>10. ASSUME NEW u \in Committed(n), u <= t
       PROVE  u \in {table[i].txn : i \in Replay(t, n)}
  <2>1. u \in 1..fresh
    BY <1>2
  <2>2. PICK i \in 1..Len(table) : table[i].txn = u /\ table[i].ns = n
    BY <1>1, <1>2 DEF CommittedBy
  <2>3. i <= last
    <3>1. CASE u = t
      BY <1>1, <1>5, <2>2, <3>1 DEF OfTransaction
    <3>2. CASE u # t
      <4>1. ~(last <= i)
        BY <1>1, <1>3, <1>7, <1>9, <1>10, <2>1, <2>2, <3>2
      <4> QED BY <1>1, <1>7, <4>1
    <3> QED BY <3>1, <3>2
  <2>4. i \in Replay(t, n)
    BY <1>1, <1>7, <1>8, <2>2, <2>3
  <2> QED BY <2>2, <2>4
<1>11. ASSUME NEW v \in versions \cup linked, v.txn \in {table[i].txn : i \in Replay(t, n)}
       PROVE  v.txn \in Committed(n) /\ v.txn <= t
  <2>1. PICK i \in Replay(t, n) : table[i].txn = v.txn
    BY <1>11
  <2>2. i \in 1..Len(table) /\ i <= last /\ table[i].ns = n
    BY <1>1, <1>7, <1>8
  <2>3. v.txn \in 1..fresh
    BY DEF IInv, ShapeInv
  <2>4. PICK k \in Namespace : CommittedBy(v.txn, k)
    BY DEF IInv, VersionInv
  <2>5. PICK j \in 1..Len(table) : table[j].txn = v.txn /\ table[j].ns = k
    BY <1>1, <2>4 DEF CommittedBy
  <2>6. k = n
    BY <1>1, <1>9, <2>1, <2>2, <2>3, <2>5
  <2>7. v.txn <= t
    BY <1>1, <1>7, <1>9, <2>1, <2>2, <2>3
  <2> QED BY <1>2, <2>3, <2>4, <2>6, <2>7
<1> QED BY <1>3, <1>10, <1>11

\* reconstruct() up to a committed transaction gives what ReconstructsStore
\* asks: nothing foreign and nothing later, everything that was created, and
\* what the transaction changed as it left it.
LEMMA ReconstructFacts ==
  ASSUME IInv, NEW n \in Namespace, NEW t \in Committed(n)
  PROVE  LET s == Reconstruct(t, n)
             upTo == {u \in Committed(n) : u <= t}
             own == {m \in Memory : HomeOf[m] = n}
             made == {m \in own \ Stored : after[t].memory[m] # None}
         IN /\ \A m \in DOMAIN s.memories : s.memories[m] # None =>
                   \E u \in upTo : s.memories[m] = after[u].memory[m]
            /\ made \subseteq DOMAIN s.memories
            /\ \A m \in TargetsOf(t) \cap own : s.memories[m] = after[t].memory[m]
            /\ \A u \in upTo : \A l \in LinksOf(u) \cap (IF made = {} THEN {} ELSE Link) :
                   l \in DOMAIN s.links /\ s.links[l] >= u /\ s.links[l] \in upTo
<1> DEFINE s == Reconstruct(t, n)
           upTo == {u \in Committed(n) : u <= t}
           own == {m \in Memory : HomeOf[m] = n}
           made == {m \in own \ Stored : after[t].memory[m] # None}
           rows == Replay(t, n)
           states == Latest(versions, rows)
           links == Latest(linked, rows)
           known == DOMAIN states \cap own
           whole == [memories |-> Restrict(states, known), links |-> links]
<1>1. /\ fresh \in Nat /\ t \in 1..fresh
      /\ \A v \in versions : v.txn \in 1..fresh
      /\ \A v \in linked : v.txn \in 1..fresh
      /\ DOMAIN table = 1..Len(table) /\ \A i \in DOMAIN table : table[i].txn \in Int
      /\ DOMAIN after = 1..fresh
  BY ReplayFacts, RowTypes, BoundAssumption DEF IInv, ShapeInv
<1>2. /\ \A v \in versions : v \in Own(versions, rows) <=> v.txn \in upTo
      /\ \A v \in linked : v \in Own(linked, rows) <=> v.txn \in upTo
  BY ReplayFacts DEF Own
<1>3. /\ DOMAIN states = {v.of : v \in Own(versions, rows)}
      /\ \A x \in DOMAIN states : \E v \in Own(versions, rows) :
             v.of = x /\ states[x] = v.state /\ \A w \in Own(versions, rows) : w.of = x => w.txn <= v.txn
  <2> HIDE DEF rows
  <2> QED BY <1>1, LatestFacts
<1>4. /\ DOMAIN links = {v.of : v \in Own(linked, rows)}
      /\ \A x \in DOMAIN links : \E v \in Own(linked, rows) :
             v.of = x /\ links[x] = v.state /\ \A w \in Own(linked, rows) : w.of = x => w.txn <= v.txn
  <2> HIDE DEF rows
  <2> QED BY <1>1, LatestFacts
<1>5. /\ known # {} => s = whole
      /\ s = whole \/ s = Folded(rows)
  BY DEF Reconstruct
<1>6. \A v \in Own(versions, rows) : v \in versions
  BY DEF Own
<1>7. \A v \in Own(linked, rows) : v \in linked
  BY DEF Own
<1> HIDE DEF states, links, rows, upTo
<1>8. /\ DOMAIN whole.memories = known /\ whole.links = links
      /\ \A m \in known : whole.memories[m] = states[m]
  BY DEF Restrict
<1> HIDE DEF whole, known, s
<1>9. ASSUME NEW m \in DOMAIN s.memories, s.memories[m] # None
      PROVE  \E u \in upTo : s.memories[m] = after[u].memory[m]
  <2>1. s = whole
    <3>1. \A x \in DOMAIN Folded(rows).memories : Folded(rows).memories[x] = None
      BY DEF Folded
    <3> QED BY <1>5, <1>9, <3>1
  <2>2. m \in DOMAIN states /\ s.memories[m] = states[m]
    BY <1>8, <1>9, <2>1 DEF known
  <2>3. PICK v \in Own(versions, rows) : v.of = m /\ states[m] = v.state
    BY <1>3, <2>2
  <2>4. v.state = after[v.txn].memory[m]
    BY <1>6, <2>3 DEF IInv, VersionInv
  <2>5. v.txn \in upTo
    BY <1>2, <1>6
  <2> QED BY <2>2, <2>3, <2>4, <2>5
<1>10. made \subseteq known
  <2> SUFFICES ASSUME NEW m \in made
               PROVE  m \in DOMAIN states
    BY DEF known
  <2>1. CreatedBy(m, t)
    BY <1>1 DEF IInv, CreationInv
  <2>2. PICK v \in versions : v.of = m /\ v.txn <= t /\ CommittedBy(v.txn, n)
    BY <2>1 DEF CreatedBy
  <2>3. v.txn \in upTo
    BY <1>1, <2>2 DEF upTo, Committed, CommittedBy
  <2> QED BY <1>2, <1>3, <2>2, <2>3
<1>11. made \subseteq DOMAIN s.memories /\ (made # {} => s = whole)
  BY <1>5, <1>8, <1>10
<1>12. \A i \in DOMAIN table : \A u \in upTo : table[i].txn = u => table[i].phase \in {"COMMITTED", "AUDITED"}
  <2> TAKE i \in DOMAIN table
  <2> TAKE u \in upTo
  <2> HAVE table[i].txn = u
  <2>1. PICK j \in DOMAIN table : table[j].txn = u /\ table[j].phase = "COMMITTED"
    BY DEF upTo, Committed
  <2>2. u \in 1..fresh
    BY <1>1 DEF upTo, Committed
  <2>3. table[j].txn >= 1
    BY <1>1, <2>1, <2>2
  <2> QED BY <2>1, <2>3 DEF IInv, OrderInv
<1>13. t \in upTo /\ \A u \in upTo : u \in 1..fresh /\ u <= t
  BY <1>1 DEF upTo, Committed
<1>14. ASSUME NEW m \in TargetsOf(t) \cap own
       PROVE  s.memories[m] = after[t].memory[m]
  <2>1. PICK i \in DOMAIN table : table[i].txn = t /\ m \in table[i].targets
    BY DEF TargetsOf, OfTransaction
  <2>2. table[i].phase \in {"COMMITTED", "AUDITED"} /\ table[i].txn >= 1
    BY <1>1, <1>12, <1>13, <2>1
  <2>3. PICK v \in versions : v.of = m /\ v.txn = t
    BY <2>1, <2>2 DEF IInv, VersionInv
  <2>4. v \in Own(versions, rows)
    BY <1>2, <1>13, <2>3
  <2>5. m \in DOMAIN states
    BY <1>3, <2>3, <2>4
  <2>6. PICK w \in Own(versions, rows) : w.of = m /\ states[m] = w.state /\ v.txn <= w.txn
    BY <1>3, <2>3, <2>4, <2>5
  <2>7. w.txn \in upTo /\ w.txn \in 1..fresh /\ w.txn <= t
    BY <1>2, <1>6, <1>13
  <2>8. w.txn = t
    BY <1>1, <2>3, <2>6, <2>7
  <2>9. w.state = after[t].memory[m]
    BY <1>6, <2>6, <2>8 DEF IInv, VersionInv
  <2>10. m \in known
    BY <2>5 DEF known
  <2> QED BY <1>5, <1>8, <2>6, <2>9, <2>10
<1>15. ASSUME NEW u \in upTo, NEW l \in LinksOf(u), made # {}
       PROVE  l \in DOMAIN s.links /\ s.links[l] >= u /\ s.links[l] \in upTo
  <2>1. PICK i \in DOMAIN table : table[i].txn = u /\ l \in table[i].links
    BY DEF LinksOf, OfTransaction
  <2>2. table[i].phase \in {"COMMITTED", "AUDITED"} /\ table[i].txn >= 1
    BY <1>1, <1>12, <1>13, <2>1
  <2>3. PICK v \in linked : v.of = l /\ v.txn = u
    BY <2>1, <2>2 DEF IInv, VersionInv
  <2>4. v \in Own(linked, rows)
    BY <1>2, <2>3
  <2>5. l \in DOMAIN links
    BY <1>4, <2>3, <2>4
  <2>6. PICK w \in Own(linked, rows) : w.of = l /\ links[l] = w.state /\ v.txn <= w.txn
    BY <1>4, <2>3, <2>4, <2>5
  <2>7. w.state = w.txn /\ w.txn \in upTo
    BY <1>2, <1>7 DEF IInv, VersionInv
  <2>8. s.links = links
    BY <1>8, <1>11, <1>15
  <2>9. w.txn >= u
    BY <1>1, <1>13, <2>3, <2>6, <2>7
  <2> QED BY <2>5, <2>6, <2>7, <2>8, <2>9
<1> QED BY <1>9, <1>11, <1>14, <1>15 DEF s, upTo

\* A committed state can be reconstructed from the versions.
THEOREM ReconstructsStoreCorrect == Spec => []ReconstructsStore
<1>1. IInv => ReconstructsStore
  BY ReconstructFacts DEF ReconstructsStore
<1> QED BY <1>1, IInvCorrect, PTL
=============================================================================
