---------------------------- MODULE LedgerReplay ----------------------------
(***************************************************************************)
(* What can be read back from the ledger: replay(), reconstruct(),          *)
(* why_written() and replay_trace() over the rows, the version snapshots    *)
(* and the trace files that mutations and queries leave behind; and the     *)
(* opening of a ledger whose event table has no ledger_seq yet.             *)
(*                                                                          *)
(* A transaction id is a number drawn in the order of the commits; it also  *)
(* names the trace, and stands for created_at: a later transaction has a    *)
(* later time stamp. Mutations are whole steps (GovernedTransaction has     *)
(* their inside and LedgerChain the order of their rows), a query is one    *)
(* step per commit. The process may die at any moment.                      *)
(***************************************************************************)
EXTENDS Integers, FiniteSetsExt, SequencesExt

CONSTANTS
    Namespace,   \* namespaces that share the database file
    Memory,      \* memory ids
    HomeOf,      \* HomeOf[m]: the namespace of m
    Stored,      \* memories from before the ledger kept versions
    Edge,        \* ids of associative and logic edges
    Frame,       \* ids of frames, which are versioned beside the edges
    OldRows,     \* rows of an event table without ledger_seq, by rowid
    Claim,       \* ids of grounded claims
    Content,     \* what a claim or an assessment may say
    MaxTxn,      \* bound on the transactions
    MaxImpact,   \* bound on the assessments recorded
    None         \* no record, no value

Link == Edge \cup Frame

ASSUME HomeAssumption == HomeOf \in [Memory -> Namespace] /\ Stored \subseteq Memory
ASSUME LinkAssumption == Edge \cap Frame = {}
ASSUME BoundAssumption == MaxTxn \in Nat /\ MaxImpact \in Nat
ASSUME NoneAssumption ==
    /\ None \notin Content
    /\ None \notin [body : 0..MaxTxn, uses : 0..MaxTxn]
    /\ None \notin [selected : SUBSET Memory, deltas : SUBSET Memory]

VARIABLES
    memory,     \* memory[m]: the stored record of m
    link,       \* link[l]: the transaction that last changed edge or frame l
    table,      \* ledger_events, by ledger_seq
    renamed,    \* ledger_events_old
    file,       \* how far the database file is on its way to ledger_seq
    versions,   \* memory_versions
    linked,     \* edge_versions: edges and frames, with the transaction
    claims,     \* grounded_claims
    impact,     \* impact_assessments: the last one of the event
    slots,      \* slot_impact_events
    traces,     \* the trace files
    live,       \* the traces the process remembers
    mode,       \* what the process is doing
    query,      \* the query it is in
    fresh,      \* the last transaction id drawn
    after,      \* after[t]: the store as transaction t left it (history)
    answered    \* the traces of the calls that returned (history)

diskVars == <<memory, link, table, renamed, file, versions, linked, claims, impact, slots, traces>>
vars == <<diskVars, live, mode, query, fresh, after, answered>>

Txn == 1..MaxTxn
Present == {m \in Memory : memory[m] # None}
MemoriesOf(n) == {m \in Present : HomeOf[m] = n}

\* A record: the transaction that last changed its content, and its counters.
Record == [body : 0..MaxTxn, uses : 0..MaxTxn]

Row == [txn : Int, trace : 0..MaxTxn, ns : Namespace, at : Int,
        phase : {"COMMITTED", "AUDITED", "REJECTED", "RETRIEVED"},
        targets : SUBSET Memory, memories : SUBSET Memory, links : SUBSET Link, prev : Seq(Int)]

\* Old rows come from before every transaction that is to come. ORDER BY breaks
\* a tie by ledger_id, the primary key: an old row has its number in txn.
ASSUME OldRowsAssumption ==
    /\ OldRows \in Seq(Row)
    /\ \A i \in DOMAIN OldRows : OldRows[i].txn <= 0 /\ OldRows[i].trace = 0
    /\ \A i, j \in DOMAIN OldRows : OldRows[i].txn = OldRows[j].txn => i = j

NewRow(t, trace, n, phase, targets, memories, links) ==
    [txn |-> t, trace |-> trace, ns |-> n, phase |-> phase, at |-> t,
     targets |-> targets, memories |-> memories, links |-> links, prev |-> <<>>]

\* The hash of row i is named by what it is computed from: its content and, with
\* previous_hash, the rows before it, of which it keeps how many there are.
Hash(rows, i) == <<i, rows[i].txn, rows[i].at>>

Chained(rows, row) ==
    Append(rows, [row EXCEPT !.prev = IF rows = <<>> THEN <<>> ELSE Hash(rows, Len(rows))])

NoQuery == [txn |-> 0, ns |-> None, before |-> None, selected |-> {}]

Init ==
    /\ memory = [m \in Memory |-> IF m \in Stored THEN [body |-> 0, uses |-> 0] ELSE None]
    /\ link = [l \in Link |-> 0]
    /\ \/ file = "old" /\ table = OldRows
       \/ file = "current" /\ table = <<>>
    /\ renamed = <<>>
    /\ versions = {}
    /\ linked = {}
    /\ claims = [c \in Claim |-> None]
    /\ impact = None
    /\ slots = <<>>
    /\ traces = {}
    /\ live = {}
    /\ mode = "down"
    /\ query = NoQuery
    /\ fresh = 0
    /\ after = <<>>
    /\ answered = {}

-----------------------------------------------------------------------------
(* Opening the database                                                     *)

\* A file without ledger_events, or with ledger_seq in it: nothing to migrate.
\* After a crash between the next steps CREATE TABLE IF NOT EXISTS has made a
\* new table, and the old rows stay where the crash left them.
Open ==
    /\ mode = "down"
    /\ file # "old"
    /\ file' = "current"
    /\ mode' = "idle"
    /\ UNCHANGED <<memory, link, table, renamed, versions, linked, claims, impact, slots, traces,
                   live, query, fresh, after, answered>>

\* ALTER TABLE ... RENAME, a commit of its own.
Rename ==
    /\ mode = "down"
    /\ file = "old"
    /\ renamed' = table
    /\ table' = <<>>
    /\ file' = "renamed"
    /\ mode' = "migrating"
    /\ UNCHANGED <<memory, link, versions, linked, claims, impact, slots, traces, live, query, fresh, after, answered>>

\* (variant) the renamed table is dropped here, where nothing is open yet.
CreateDropping ==
    /\ mode = "migrating"
    /\ file = "renamed"
    /\ file' = "created"
    /\ renamed' = <<>>
    /\ UNCHANGED <<memory, link, table, versions, linked, claims, impact, slots, traces,
                   live, mode, query, fresh, after, answered>>

\* CREATE TABLE with ledger_seq, another one.
Create ==
    /\ mode = "migrating"
    /\ file = "renamed"
    /\ file' = "created"
    /\ UNCHANGED <<memory, link, table, renamed, versions, linked, claims, impact, slots, traces,
                   live, mode, query, fresh, after, answered>>

Earlier(r, s) == r.at < s.at \/ (r.at = s.at /\ r.txn < s.txn)

\* ORDER BY created_at, ledger_id: a row comes after those that are earlier.
InOrder(rows) ==
    LET rank(i) == Cardinality({j \in DOMAIN rows : Earlier(rows[j], rows[i])}) IN
    [k \in DOMAIN rows |-> rows[CHOOSE i \in DOMAIN rows : rank(i) = k - 1]]

\* (variant) the rows keep the previous_hash they had.
NotRehashed(rows) == rows

\* _rehash_chain() links the rows anew.
Rehashed(rows) ==
    [i \in DOMAIN rows |-> [rows[i] EXCEPT !.prev = IF i = 1 THEN <<>> ELSE Hash(rows, i - 1)]]

\* INSERT ... SELECT begins a transaction; DROP TABLE and the new hashes are in
\* it and the end of "with" commits it.
CopyRows ==
    /\ mode = "migrating"
    /\ file = "created"
    /\ table' = Rehashed(InOrder(renamed))
    /\ renamed' = <<>>
    /\ file' = "current"
    /\ mode' = "idle"
    /\ UNCHANGED <<memory, link, versions, linked, claims, impact, slots, traces, live, query, fresh, after, answered>>

Crash ==
    /\ mode # "down"
    /\ mode' = "down"
    /\ live' = {}
    /\ query' = NoQuery
    /\ UNCHANGED <<diskVars, fresh, after, answered>>

-----------------------------------------------------------------------------
(* Mutations                                                                *)

\* (variant) the targets are the updated memories first.
TargetsUpdatedFirst(made, edited, named) ==
    IF edited # {} THEN edited ELSE IF made # {} THEN made ELSE named

\* created_ids or updated_ids or deleted_ids or _target_ids(); nothing deletes.
Targets(made, edited, named) ==
    IF made # {} THEN made ELSE IF edited # {} THEN edited ELSE named

\* A governed transaction of namespace n: made are created, edited changed in
\* content (an UPDATE, a LINK, a forget, a consolidation), used reinforced by
\* plasticity, changed are the edges and frames; named is the policy's target.
\* Only targets, edges and frames get a version.
Commit(n) ==
    LET t == fresh + 1 IN
    /\ mode = "idle"
    /\ fresh < MaxTxn
    /\ \E made \in SUBSET {m \in Memory \ Present : HomeOf[m] = n}, edited, used \in SUBSET MemoriesOf(n),
          changed \in SUBSET Link, named \in SUBSET Present :
        /\ Cardinality(edited) <= 1 /\ Cardinality(named) <= 1
        /\ used # {} => made \cup edited # {}
        /\ memory' = [m \in Memory |->
             IF m \in made THEN [body |-> t, uses |-> 0]
             ELSE IF m \in edited THEN [memory[m] EXCEPT !.body = t]
             ELSE IF m \in used THEN [memory[m] EXCEPT !.uses = @ + 1]
             ELSE memory[m]]
        /\ link' = [l \in Link |-> IF l \in changed THEN t ELSE link[l]]
        /\ LET targets == Targets(made, edited \cup used, named)
               delta == NewRow(t, t, n, "COMMITTED", targets, made \cup edited \cup used, changed)
           IN /\ table' = Chained(Chained(table, delta), NewRow(t, t, n, "AUDITED", targets, {}, {}))
              /\ versions' = versions \cup {[of |-> m, txn |-> t, state |-> memory'[m]] : m \in targets}
              /\ linked' = linked \cup {[of |-> l, txn |-> t, state |-> t] : l \in changed}
    /\ fresh' = t
    /\ live' = live \cup {t}
    /\ after' = Append(after, [memory |-> memory', link |-> link'])
    /\ answered' = answered \cup {t}
    /\ UNCHANGED <<renamed, file, claims, impact, slots, traces, mode, query>>

\* A rejection: rows that change nothing and name the policy's target, which need
\* not be stored.
Reject(n) ==
    LET t == fresh + 1 IN
    /\ mode = "idle"
    /\ fresh < MaxTxn
    /\ \E named \in SUBSET Memory :
        /\ Cardinality(named) <= 1
        /\ table' = Chained(table, NewRow(t, t, n, "REJECTED", named, {}, {}))
    /\ fresh' = t
    /\ live' = live \cup {t}
    /\ after' = Append(after, [memory |-> memory, link |-> link])
    /\ answered' = answered \cup {t}
    /\ UNCHANGED <<memory, link, renamed, file, versions, linked, claims, impact, slots, traces, mode, query>>

\* rebuild_projection() writes an edge anew from its evidence, without versions.
Rebuild ==
    /\ mode = "idle"
    /\ \E l \in Edge : link[l] # 0 /\ link' = [link EXCEPT ![l] = 0]
    /\ UNCHANGED <<memory, table, renamed, file, versions, linked, claims, impact, slots, traces,
                   live, mode, query, fresh, after, answered>>

\* (variant) INSERT OR REPLACE.
ClaimReplaced(c, content) == [claims EXCEPT ![c] = content]

\* INSERT OR IGNORE: a claim id that is there keeps what it says.
ClaimRecorded(c, content) == [claims EXCEPT ![c] = IF @ = None THEN content ELSE @]

RecordClaim ==
    /\ mode = "idle"
    /\ \E c \in Claim, content \in Content : claims' = ClaimRecorded(c, content)
    /\ UNCHANGED <<memory, link, table, renamed, file, versions, linked, impact, slots, traces,
                   live, mode, query, fresh, after, answered>>

\* (variant) the assessment is recorded without its slots.
RecordImpactAlone ==
    /\ mode = "idle"
    /\ Len(slots) < MaxImpact
    /\ \E content \in Content : impact' = content
    /\ UNCHANGED <<memory, link, table, renamed, file, versions, linked, claims, slots, traces,
                   live, mode, query, fresh, after, answered>>

\* INSERT OR REPLACE of the assessment, one more row per slot.
RecordImpact ==
    /\ mode = "idle"
    /\ Len(slots) < MaxImpact
    /\ \E content \in Content : impact' = content /\ slots' = Append(slots, content)
    /\ UNCHANGED <<memory, link, table, renamed, file, versions, linked, claims, traces,
                   live, mode, query, fresh, after, answered>>

-----------------------------------------------------------------------------
(* query()                                                                  *)

\* _memory_states(), then retrieve() counts the access of every result, also of
\* those that lens, suppression and top_k take out of the answer.
Search(n) ==
    /\ mode = "idle"
    /\ fresh < MaxTxn
    /\ \E found \in SUBSET MemoriesOf(n) : \E selected \in SUBSET found :
        /\ memory' = [m \in Memory |-> IF m \in found THEN [memory[m] EXCEPT !.uses = @ + 1] ELSE memory[m]]
        /\ query' = [txn |-> fresh + 1, ns |-> n, before |-> memory, selected |-> selected]
    /\ live' = live \cup {fresh + 1}
    /\ fresh' = fresh + 1
    /\ after' = Append(after, [memory |-> memory', link |-> link])
    /\ mode' = "searched"
    /\ UNCHANGED <<link, table, renamed, file, versions, linked, claims, impact, slots, traces, answered>>

Accessed == {m \in Present : memory[m].uses # query.before[m].uses}

\* (variant) the row is written without its trace.
LogQueryUntraced ==
    /\ mode = "searched"
    /\ table' = Chained(table, NewRow(query.txn, 0, query.ns, "RETRIEVED", query.selected, Accessed, {}))
    /\ mode' = "logged"
    /\ UNCHANGED <<memory, link, renamed, file, versions, linked, claims, impact, slots, traces,
                   live, query, fresh, after, answered>>

LogQuery ==
    /\ mode = "searched"
    /\ table' = Chained(table, NewRow(query.txn, query.txn, query.ns, "RETRIEVED", query.selected, Accessed, {}))
    /\ mode' = "logged"
    /\ UNCHANGED <<memory, link, renamed, file, versions, linked, claims, impact, slots, traces,
                   live, query, fresh, after, answered>>

PersistTrace ==
    /\ mode = "logged"
    /\ traces' = traces \cup {[txn |-> query.txn, selected |-> query.selected]}
    /\ mode' = "persisted"
    /\ UNCHANGED <<memory, link, table, renamed, file, versions, linked, claims, impact, slots,
                   live, query, fresh, after, answered>>

Answer ==
    /\ mode = "persisted"
    /\ answered' = answered \cup {query.txn}
    /\ query' = NoQuery
    /\ mode' = "idle"
    /\ UNCHANGED <<diskVars, live, fresh, after>>

Next ==
    \/ Open \/ Rename \/ Create \/ CopyRows \/ Crash
    \/ \E n \in Namespace : Commit(n) \/ Reject(n) \/ Search(n)
    \/ Rebuild \/ RecordClaim \/ RecordImpact
    \/ LogQuery \/ PersistTrace \/ Answer

Spec == Init /\ [][Next]_vars

-----------------------------------------------------------------------------
(* What is read back                                                        *)

\* The answers of the ledger, ORDER BY ledger_seq: the positions of their rows.
\* show_transaction(), events_for_trace(), why_written().
OfTransaction(t) == {i \in DOMAIN table : table[i].txn = t}
OfTrace(t, n) == {i \in DOMAIN table : table[i].trace = t /\ table[i].ns = n}
WhyWritten(m, n) == {i \in DOMAIN table : m \in table[i].targets \cup table[i].memories /\ table[i].ns = n}

\* The last row of t, or the last row of all for an id the ledger does not know.
UpTo(t) == IF OfTransaction(t) = {} THEN Len(table) ELSE Max(OfTransaction(t))

Replay(t, n) == {i \in 1..UpTo(t) : table[i].ns = n}

\* _version_snapshot(): of each id the version with the latest time stamp.
Latest(kept, rows) == LET own == {v \in kept : v.txn \in {table[i].txn : i \in rows}} IN
    [x \in {v.of : v \in own} |-> (CHOOSE v \in own : v.of = x /\ \A w \in own : w.of = x => w.txn <= v.txn).state]

\* Without versions: the deltas folded, of which an access count says nothing
\* about the content.
Folded(rows) ==
    [memories |-> [m \in UNION {table[i].memories : i \in rows} |-> None],
     links |-> [l \in UNION {table[i].links : i \in rows} \cap Edge |-> None]]

\* Versions of memories or edges are taken as the snapshot; frames alone are not.
Reconstruct(t, n) ==
    LET rows == Replay(t, n)
        states == Latest(versions, rows)
        links == Latest(linked, rows)
        own == DOMAIN states \cap {m \in Memory : HomeOf[m] = n}
    IN IF own = {} /\ DOMAIN links \cap Edge = {} THEN Folded(rows)
       ELSE [memories |-> Restrict(states, own), links |-> links]

\* replay_trace(): the trace in memory, else its file, else the audit of its
\* last row; the deltas always come from the ledger.
ReplayTrace(t, n) ==
    LET rows == OfTrace(t, n)
        files == {f \in traces : f.txn = t}
        deltas == UNION {table[i].memories : i \in rows}
    IN IF t \notin live /\ files = {} /\ rows = {} THEN None
       ELSE IF t \notin live /\ files # {}
            THEN [selected |-> (CHOOSE f \in files : TRUE).selected, deltas |-> deltas]
       ELSE [selected |-> IF rows = {} THEN query.selected ELSE table[Max(rows)].targets, deltas |-> deltas]

-----------------------------------------------------------------------------
(* Properties                                                               *)

\* Every record, row and version has its type.
TypeOK ==
    /\ memory \in [Memory -> Record \cup {None}]
    /\ link \in [Link -> 0..MaxTxn]
    /\ \A i \in DOMAIN table : table[i].txn \in Int /\ table[i].ns \in Namespace
    /\ file \in {"old", "renamed", "created", "current"}
    /\ \A v \in versions : v.txn \in Txn /\ v.state \in Record
    /\ \A v \in linked : v.txn \in Txn /\ v.of \in Link
    /\ claims \in [Claim -> Content \cup {None}]
    /\ impact = None <=> slots = <<>>
    /\ live \cup answered \subseteq Txn
    /\ mode \in {"down", "migrating", "idle", "searched", "logged", "persisted"}

Committed(n) == {t \in DOMAIN after : \E i \in DOMAIN table :
                    table[i].txn = t /\ table[i].ns = n /\ table[i].phase = "COMMITTED"}

TargetsOf(t) == UNION {table[i].targets : i \in OfTransaction(t)}
LinksOf(t) == UNION {table[i].links : i \in OfTransaction(t)}

\* reconstruct() up to a committed transaction t of namespace n: no memory of
\* another namespace or of the future, every memory that was created, each in
\* a state it had after a transaction of n up to t, what t changed itself as t
\* left it; edges and frames as the last transaction up to t left them.
ReconstructsStore ==
    \A n \in Namespace : \A t \in Committed(n) :
        LET s == Reconstruct(t, n)
            upTo == {u \in Committed(n) : u <= t}
            own == {m \in Memory : HomeOf[m] = n}
            made == {m \in own \ Stored : after[t].memory[m] # None}
        IN /\ \A m \in DOMAIN s.memories : s.memories[m] # None =>
                  \E u \in upTo : s.memories[m] = after[u].memory[m]
           /\ made \subseteq DOMAIN s.memories
           /\ \A m \in TargetsOf(t) \cap own : s.memories[m] = after[t].memory[m]
           /\ \A u \in upTo : \A l \in LinksOf(u) \cap (IF made = {} THEN {} ELSE Link) :
                  l \in DOMAIN s.links /\ s.links[l] >= u /\ s.links[l] \in upTo

\* The rows without their hashes and the rest of what was once recorded.
Recorded ==
    [rows |-> {[r EXCEPT !.prev = <<>>] : r \in Range(table) \cup Range(renamed)},
     slots |-> Len(slots)]

\* No step loses or rewrites what was recorded: a migration that dies half way
\* leaves the rows in the renamed table, a claim that is recorded again under
\* its id keeps what it said first.
HistoryKept ==
    [][ /\ Recorded.rows \subseteq Recorded'.rows
        /\ versions \subseteq versions' /\ linked \subseteq linked'
        /\ Recorded.slots <= Recorded'.slots
        /\ \A c \in Claim : claims[c] # None => claims'[c] = claims[c] ]_vars

\* Whatever query or mutation returned can be replayed, before and after a crash:
\* with the memories it selected, and each of them with its access or its change.
\* (forget() is neither: its row names no trace.)
TraceReplays ==
    \A t \in answered : \E n \in Namespace :
        LET replay == ReplayTrace(t, n) IN
        /\ replay # None
        /\ (\E f \in traces : f.txn = t) => replay.selected \subseteq replay.deltas

\* When the ledger is open, its chain verifies, after a migration too, and
\* every content in the store has a row of its transaction under why_written().
LedgerExplains ==
    mode \notin {"down", "migrating"} =>
        /\ \A i \in DOMAIN table : table[i].prev = IF i = 1 THEN <<>> ELSE Hash(table, i - 1)
        /\ \A m \in Present : memory[m].body # 0 =>
               \E i \in WhyWritten(m, HomeOf[m]) : table[i].txn = memory[m].body /\ m \in table[i].memories
=============================================================================
