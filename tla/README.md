# A TLA+ verification of neuromem_runtime

`neuromem_runtime` keeps the long-term memory of an agent in one SQLite file. Every
durable change is a *policy* that an executor validates, applies in a transaction and
reports in a hash-linked ledger; relations between memories are *evidence events*, from
which edges and a "worldview" are rebuilt; reads go through a cache with a singleflight.
The modules here model that core, what surrounds it (search, background jobs, sleep, the
routes of claims) and what can be read back later: what is written in which commit, what
another thread or process may do between two commits, what a crash, an exception or a
cancelled task leaves behind. TLC checks the models on small instances; TLAPS proves the
safety properties of eight of the ten components for every value of the constants.

Paths are relative to the repository (`src/neuromem_runtime/...` is "the runtime",
`src/neuromem/...` "the core").

## 1. The system

### Components, their state and their operations

| Component | State | Operations |
|---|---|---|
| Memory ledger (`neuromem_runtime/ledger.py`) | tables `ledger_events` (hash-linked, ordered by `ledger_seq`), experiences, claims, impact ledger, `edge_evidence_events`, `worldview_slots`, `worldview_candidates`, version tables | `append` (own connection or a borrowed one), `append_edge_evidence`, `upsert_worldview_*`, `clear_worldview_materialization`, `verify_hash_chain`, `replay`, `reconstruct` |
| SQLite store (`neuromem/stores/sqlite_store.py`) | memories, frames, associative and logic edges, traces; an `RLock`, the open transaction's connection | upserts (a commit each), `transaction()` |
| Policy executor (`neuromem_runtime/executor.py`) | none between calls; ledger rows of the mutation | `execute`: snapshot, validators, transaction with PROPOSED / VALIDATED / COMMITTED / AUDITED, or REJECTED, or ROLLED_BACK |
| Core runtime (`neuromem/core/runtime.py`) | `last_trace`, layers, the store | `observe`, `retrieve`, `before_step`, `retrieve_with_trace`, `_execute_validated_policy` |
| Facade (`neuromem_runtime/runtime.py`) | semantic and worldview version per namespace, cache, singleflight, job queue | `observe`, `observe_and_commit`, `observe_and_route`, `query`, `commit`, `forget`, `after_turn`, `sleep`, `resolve_worldview`, `materialize_worldview` |
| Retrieval cache, singleflight (`performance.py`) | LRU items with TTL; events by key | `get`, `set`, `invalidate`; `begin`, `wait`, `finish` |
| Embedding cache, batcher, job queue (`performance.py`) | a table of vectors by text and model; a worker thread, its queue, the last 50 jobs | `get_many`, `set_many`; `submit`, `recent` (there is no `drain` or `stop`) |
| Materializer (`materializer.py`) | none; rewrites edges, slots, candidates | `rebuild`, `aggregate` |
| Worldview resolver (`worldview.py`) | none | `resolve`, fallback, lenses, conflicts |
| Lifecycle, validators, claims, policies (`lifecycle.py`, `validators.py`, `claims.py`, `policy_v2.py`) | none | pure decisions |
| Sleep and consolidation (`sleep.py`, `crystallization.py`, `neuromem/modules/*`) | layers, batches | `sleep`, replay, crystallisation commits |
| Impact, retrieval, ranking (`impact.py`, `retrieval.py`, `neuromem/retrieval/*`) | indexes | scores and rankings |
| Providers, CLI, server, LangGraph adapters, evals | none of the runtime's | I/O around the facade |

### How they interact

* `commit`, `observe_and_commit`, `sleep` call the executor, the executor calls the core
  runtime's `_execute_validated_policy` inside `store.transaction()` and appends ledger
  rows on the same connection. Everything else (`query`'s retrieval row, `forget`'s rows,
  evidence, slots, candidates, experiences) is written on connections of their own, one
  commit per statement.
* `query` runs the core's `retrieve_with_trace` in a worker thread (`asyncio.to_thread`).
  The store's lock, the core's `last_trace`, the cache and the singleflight are shared.
* With `retrieval_graph_commit=async` the job queue's thread runs the executor and a
  rebuild beside the event loop. `nmem` commands and a second runtime are other processes
  on the same file.
* `forget`, `after_turn`, the claim route and graph commits append evidence and then
  rebuild; `query` and `resolve_worldview` rebuild and then read the view.

### What is hard about it

Two connections between which a SELECT and an INSERT are not atomic; a deferred BEGIN
whose snapshot is older than its lock; records read, ranked and written back while a
transaction commits; one `last_trace` for all threads; a key computed before the awaits
and used after them; events that somebody must set; views cleared and rewritten in many
commits; operations of several commits that may stop between any two. `PROJECT.json`
lists each at its line under `hazards`, with the properties that are for it.

### What makes each component correct

* Ledger: one chain, append-only, transactions contiguous and never half visible.
* Executor: nothing in the store that no committed row names, one outcome per transaction,
  serial changes, no record lost; the ledger's deltas are in the store.
* Gate: what is durable rests on an observed experience, nothing stored is changed or lost,
  a policy is carried out whole or answered as refused.
* Query: an answer reflects every change that had returned before the question; every call
  returns.
* Routes: an audited route is whole; a packet shows what the journal says of its claims,
  whatever was cut off before.
* Consolidation: structure hangs from what is stored, a reported sleep is complete, nothing
  that was inferred hides a memory.
* Read back: a committed state can be reconstructed, a content explained, and a migration
  loses no row.
* Search: what has ended yields to what holds; the paths of an activation go over edges that
  may carry it, those of a diffusion over edges to memories that are not stale.
* Jobs: every job is done once and in order; a vector is of the text it stands for.
* View: no source twice; a rebuild alone restores the exact view whatever came before;
  what is suppressed before a question is not in its answer.

## 2. The modules

| Module | Models | Checked by |
|---|---|---|
| `EventLog` | abstract: what the ledger is to those who read it | implemented by `LedgerChain` |
| `LedgerChain` | `ledger.append`, `store.transaction`, SQLite's locking | `MCLedgerChain` (2 runs), `LedgerChainProofs` |
| `FreshReads` | abstract: what `query` owes its callers | implemented by `RetrievalFlight` |
| `RetrievalFlight` | `query`, cache, singleflight, versions | `MCRetrievalFlight`, `RetrievalFlightProofs` |
| `GovernedTransaction` | `PolicyExecutor.execute` beside `retrieve_with_trace` | `MCGovernedTransaction`, `GovernedTransactionProofs` |
| `PolicyGate` | `commit`, the coercion of policies, the validators, what they write, the lifecycle | `MCPolicyGate`, `PolicyGateProofs` |
| `Worldview` | evidence, `rebuild`, `resolve` and the operations that call them | `MCWorldview`, `WorldviewProofs` |
| `Routing` | observations, their claims, impact decisions, routes, scores and lenses | `MCRouting` (2 runs), `PolicyGateProofs` |
| `Consolidation` | the semantic graph, automatic graph commits, `sleep` | `MCConsolidation`, `ConsolidationProofs` |
| `LedgerReplay` | `replay`, `reconstruct`, `why_written`, `replay_trace`, side tables, migration | `MCLedgerReplay`, `LedgerReplayProofs` |
| `Recall` | the search behind `retrieve`: channels, fusion, activation, gates, diffusion | `MCRecall`, `RetrievalFlightProofs` |
| `WorkQueue` | abstract: what the job queue owes who submits a job | implemented by `Jobs` |
| `Jobs` | the job queue and its worker, the embedding cache, batches and the vector index | `MCJobs`, `JobsProofs` |
| `Subsequences` | the elements of a sequence at given positions | used by `Jobs`, `Consolidation`, `Routing`, `Recall` |

How they divide the system: `LedgerChain` has the inside of one append, `GovernedTransaction`
the inside of one transaction, `PolicyGate` its content; `Consolidation` and `LedgerReplay`
take a transaction as one step and look at what comes after it; `Worldview` has the inside
of a rebuild, which `Routing` takes as one step where the event loop is alone;
`RetrievalFlight` has what surrounds a search, `Recall` its inside, `Jobs` what it leaves to
others.

Each `MC` module names the model values of its instances and nothing else; the `.cfg`
files give the constants their values. `PROJECT.json` maps every definition to its lines.
A definition marked `(variant)` in a module is a plausible mistake in the definition below
it; it is used by nothing and serves to show that the property named for it in
`PROJECT.json` would notice.

### EventLog and LedgerChain

`EventLog` is a log that grows by whole transactions and changes in no other way.
`GrowsByTransactions == Committed!Spec` says that `LedgerChain` implements it, with `log` mapped
to `table`: connections, snapshots and locks are what a reader does not see.

State: `table` is `ledger_events` by `ledger_seq`; `commits` the WAL version of the file;
`writeLock` SQLite's write lock; `procLock` the store's RLock per process; per writer the
place in `append()` or `transaction()`, the event it appends, the `previous_hash` it has
read, its snapshot (`view`, `base`) and transaction id.

`AppendSelect`, `AppendInsert`, `AppendBusy` are `append()` without a connection
(ledger.py:974-1015): the SELECT runs in autocommit mode, so the INSERT follows in a
transaction of its own. `TxBegin` ... `TxRollback` are `transaction()`
(sqlite_store.py:32-57) with `append(conn=...)`: BEGIN is deferred, the first SELECT pins
the snapshot, the first INSERT takes the write lock and fails (`TxBusy`) when the file has
changed since. `OtherWrite` is a commit to another table. `Crash` ends a process: what it
had not committed is gone. A hash is named by its event: SHA-256 is taken as injective and
uuid4 as never repeating.

### FreshReads and RetrievalFlight

`FreshReads` counts durable changes; an answer is the number of changes it reflects and
must lie between what had returned when the question was asked and what is durable.
`RetrievalFlight` has `query()` in steps (key, probe, begin, wait, recheck, retrieve,
compose, finish) for callers on threads of their own, and the mutators: durable, read the
version, write the version. A mutation may also return without a version
(`ReturnUnversioned`: `observe()` with claims, `materialize_worldview()`) or raise half done
(`MutationFails`), and be repeated (`Repeat`). `Fault` names the failures of an instance: expiry
of an entry, an exception of the retrieval, one outside the `try`, cancellation, an exception
of a mutation between its commit and its version. A call that leaves its key in flight without
`finish()` puts it into `abandoned`, and a version that advances notes in `published` what was
durable then; no action reads either. `AnswersAreFresh == Fresh!Spec` is the
refinement; the mapping is the identity on `store`, `acked`, `floor` and `answer`.

Two things the code does are bounded by the properties and not excluded, since they happen:
`WaiterHasFinisher` and `EveryQueryReturns` say that a caller waits for ever only on an
abandoned key (an exception outside the `try`, runtime.py:573-717, or a cancellation), and
`CacheIsCurrent` that a change which came without a version is missing from answers until the
next version and no longer.

### GovernedTransaction

A memory is the set of transactions whose change its record shows, so that "a stale record
was written back" and "the delta names a change that is not there" can be told apart.
`Snapshot` ... `Commit` follow `execute()` (executor.py:75-322) in the order of the code:
`before_memories` before the lock, the approved policies' writes, `last_trace` read after
them, delta from the two snapshots, rows and records in one commit. `Reject`,
`AssertionFails`, `NoteRollback`, `Record` are its two refusals with rows appended one at a
time; `Raise` any other exception. `Search`, `Touch`, `SetTrace`, `ReadSelection`, `Return`
are `retrieve_with_trace()` (core/runtime.py:355-542). Which policies the validators
approve is left open, hence every property holds whatever they decide. `AnswersAreWhole`
is stated for the reader: it does not hold once two calls share `last_trace`.

### PolicyGate

State: the experience events, the stored memories with kind, maturity, accesses and
evidence ids, the memories under suppression evidence, and the answer of the last call.
`CommitProposal` and `CommitLegacy` are the facade's `commit()` (runtime.py:727-769) in the
order of its questions: destructive (`Destructive`, then `Correct` or `Refuse`), without a
durable source (`Sourced`), a suppression (`Suppress`), else the executor: `Reject` or
`Execute`. `First` and `Writes` are the coercion of a V2 policy into one or several legacy
policies (executor.py:334-429), `Valid` the validator stack, `Written` and `After` what the
core writes and what consolidation makes of it, `LifecycleHolds` the transition check that
raises inside the transaction. `Observe`, `ObserveAndCommit` and `Retrieve` bring in
evidence and count accesses. Whole calls are steps here: how their commits interleave is
the subject of `GovernedTransaction`.

Abstractions: a memory is episodic or lasting (semantic, preference, procedural), the two
that consolidation tells apart; `blocked` stands for what a write gate may say against a
policy (risk, quarantine, conflict, decision); there is one namespace, no ACL and no date;
an evidence set is its ids, without the sentence that `promote()` adds; keywords, which
let memories be replayed together, are not written by policies and left out. The claims of
a correction are not kept, only which ids they hide: any, stored or not, for the code appends
evidence against whatever a claim targets (runtime.py:1469-1491); the evidence that structural
deltas leave behind is `Worldview`'s.

### Worldview

State: the evidence events in the order of `created_at`, the edge tables as one set, slot
ids by key, candidate rows; per thread the place in its operation and the registers of
`rebuild()`; four history variables that no action reads. An operation that appends
evidence (`Forget`, `AfterTurn`, `CommitGraph`, `RouteClaim`) prepares its events and
`AppendEvidence` writes one per commit; `ReadEvidence` ... `EndRebuild` are `rebuild()`
(materializer.py:127-287) commit by commit; `Ask`, `Resolve`, `Fallback` are
`resolve_worldview()` and the second half of `query()`. `Abort` is an exception or the end
of the process at any place. Abstractions: an event's `created_at` is taken in the step
that appends it; weights, scores, decay factors and kinds of edges are left out (an
aggregate of weight below 0.001, which the code skips, is not modelled); `suppress` and
`expire` behave as `inhibit`, `restore` as `reinforce`, `contradict`, `derive` and
`generalize` as `support`; only the `current` lens resolves.

### Routing

State: `journal`, the rows of all tables in the order of their commits; `view`, the
candidates of claims as last rebuilt; the operation in progress; the packet just answered.
`ObserveInput`, `Extract`, `RecordClaims`, `Assess` are `observe_and_route()` (runtime.py:230-290,
435-481), `Apply` is `apply_grounded_claims()`, which joins it at `RecordClaims`; `RouteRow`
commits one row of `Route` at a time (runtime.py:1427-1511), `Rebuild` and `Audit` end it.
`Status`, `Score`, `Built` are the materializer's, `Through`, `Shown`, `Selected` the
resolver's. `Crash` is an exception or the end of the process between any two commits.
These operations do not await anything, so that one is in progress at a time on the event
loop; other threads are `Worldview`'s. Abstractions: a claim id is its own or names what the
code hashes; confidence is in percent, scores in ten thousandths; memories and frames among
the candidates, conflicts, and the cut at five candidates and 24 slots are left out. The
rows of a kind are elements of `journal` at positions (`Subsequences`) and the weights of their
evidence a recursive function (`StrengthIn`), so that both can be proved about. The
decisions `append_evidence`, `propose_frame`, `propose_worldview_candidate`,
`ask_clarification` and `sleep_priority` are never made: `assess()` asks the claims only, and
`_classify()` (impact.py:331) has no caller; `_propose_candidate_from_experience()`
(runtime.py:1372) is unreachable for the same reason.

Two things differ from the documentation. `observe()` records the claims before their impact is
known, so the claims of a quarantined observation are in every later worldview, where
docs/api.md:84 says they are not: `QuarantinedStaysOut` states what the document says, and
`Routing_quarantine` shows it violated. `PacketFollowsCorrections` is about the claims of
observations without risk; of risky ones it says that their corrections count for nothing. And
contradict evidence marks no slot as conflicted (worldview.py:343 looks slots up by the name of
the relation).

### Consolidation

State: the memories that are stored, traced, impacted or unwanted; frames, edges, evidence;
the job queue; per thread the call, the stage of its policies and what it has still to
append. `GraphDeltas` is `semantic_graph.py`: sources, scores and relations of pairs;
`ReplayClusters` the choice of clusters by `sleep()` (runtime.py:1950-1990);
`SleepFrames` and `SleepEdges` the crystallisation. `CommitGraph`, `CommitCrystal`,
`CommitGiven` are one transaction each (`Execute`); `AppendEvidence` a commit per event;
`ReadEvidence` and `WriteEdges` the rebuild; `Crash` ends the process between any two.
Words and embeddings are given as pairs that are near (`Alike`, `Worded`). The code's loops
over sequences (without repetitions, of two members at least) are the elements at some
positions (`Subsequences`), and a group of `_fallback_sleep_clusters()` comes at the place
of its first memory; so their types can be proved, which those of a fold cannot.

### LedgerReplay

State: the stored records with the transaction that last wrote their content (`body`) and
their accesses; the event table, the renamed table of a migration, version rows, claims,
impact rows and slots, trace files; the query in progress. The row of a refusal names the
target of the policy, which need not be stored. `Open`, `Rename`, `Create`,
`CopyRows` are the migration, commit by commit (ledger.py:394-470); `Commit`, `Reject`,
`Rebuild`, `RecordClaim`, `RecordImpact` what operations leave in the tables; `Search`,
`LogQuery`, `PersistTrace`, `Answer` a query. `Replay`, `Reconstruct`, `ReplayTrace`,
`WhyWritten` are the functions that read. Time stamps are the numbers of the transactions;
old rows have stamps of their own, and a clock may have been set back before. A row is named
by its position: what the readers return are sets of positions, and `Hash` names a row by its
position, its transaction and its stamp. The copying of a migration, `INSERT ... SELECT ...
ORDER BY`, places each row after those that are earlier (`InOrder`); `ledger_id`, the last
criterion of the order, is told apart by the transaction of an old row (`OldRowsAssumption`).

### Recall

State: memories, edges, the shared index; the one search with its listing, channels, scores,
walk and results. `Sync` indexes the listing, `Search` fills the channels and fuses their
ranks, `Activate` spreads over the edges, `Decide` has both gates and the packing, `Diffuse`
the second pass, `Count` the accesses; `WriteMemory` and `WriteEdge` come between any two.
A text is its set of terms; similarity is overlap; scores are in percent and activation per
mille, both rounded down, so that the order of candidates that differ by less than a percent
may differ from the code's. The orders in which activation visits nodes are an input
(`Order`), for the code visits them as sets and dictionaries give them. A search reports the
paths of its activation (`paths`) and, before them, those of its diffusion (`led`, over the edges
in `web`): the latter follow contradictions too, and superseding edges both ways, so that
`PathsCarry` says one thing of the former and another of the latter. Sums, rounds, packing
and hops are folds (`FoldFunction`, `FoldLeft`), ranks are numbers of better candidates, and the
edges that a write leaves are a subsequence of those there were.

### WorkQueue and Jobs

`WorkQueue` is a queue whose jobs are done one at a time, in order, once, and each of them
in the end while the process lives: what is lost is lost with a process, and `process` counts
them. `Jobs` has two callers that embed the listed memories
and their question (`Lookup`, `Embed`, `Store`, `Use`: activation.py:370-500) through a
cache that a restart keeps, perhaps with another model, and then commit the graph of their
retrieval themselves or `Submit` it; `Take`, `Begin`, `Run`, `Finish` are the worker
(performance.py:389-405). `JobsAreDone == Work!Spec` is the refinement: `queue` maps to
`waiting`, the worker's job to `current`, the jobs that completed or failed to `ended`,
`crashes` to `process`.

The index is keyed by memory, as in the code, and a memory's card changes (`ChangeCard`:
activation.py:675-700 builds it from lifecycle and provenance), between a listing and its use
too; `past` keeps which texts a card has had. So a call may index the vector of an older card
after another has indexed the newer one, and `VectorsFit` says of the index only that its
vector is of a text that the card has or had. A batch may raise, come back right, one short or
one long (`Given`); the code compares the lengths of all batches together (activation.py:408),
so that a call with batches wrong both ways pairs vectors with the wrong texts: `crossed`
collects those texts, and `VectorsFit` exempts them. A label is the provider's class and the
model's name, not its address (runtime.py:1825-1833): models may share one, and then share
vectors, so that the property speaks of labels.

## 3. The runs

`pass` runs find no error; a `violation` run exhibits a disagreement between the code and
what the repository says of it, listed under `findings`.

| Run | Properties | Shows |
|---|---|---|
| `LedgerChain_shared` | `TypeOK`, `TransactionAtomic`, `GrowsByTransactions`, `EveryWriteEnds` | both ways of appending mixed, across processes with crashes: what transactions promise to each other and to readers, and that nobody waits for ever |
| `LedgerChain_fork` | violation of `ChainIntact` | two threads appending on connections of their own fork the chain |
| `RetrievalFlight_query` | `TypeOK`, `CacheIsCurrent`, `AnswersAreFresh`, `WaiterHasFinisher`, `EveryQueryReturns` | three callers of one question, eviction, expiry, every failure of a query and of a mutation: no answer older than what had returned with a version, and only an abandoned key strands a caller |
| `GovernedTransaction_shared` | `TypeOK`, `OnlyGovernedChanges`, `OneOutcome`, `NoWriteBelowTransaction`, `RecordsPersist` | two executors and a retrieval, with refusals, exceptions and crashes |
| `PolicyGate_commits` | `TypeOK`, `EvidenceGrounded`, `RecordsKept`, `AddsWhole` | policies of every intent, with up to two deltas, structures, claims, evidence and targets, in any order with observations and retrievals |
| `Worldview_rebuild` | `TypeOK`, `OneVisibleRow`, `UndisturbedRebuildIsExact` | rebuilds of two threads interleaved and aborted anywhere |
| `Routing_claims` | `RoutingTypeOK`, `RoutedWhole`, `PacketFollowsCorrections` | observations with claims that correct, derive or clash, claims applied later, an operation cut off anywhere, every lens |
| `Routing_quarantine` | violation of `QuarantinedStaysOut` | a quarantined observation's claims are in the next packet |
| `Consolidation_sleep` | `TypeOK`, `StructureRooted`, `SleepIsWhole`, `OnlyUnwantedIsHidden`, `EdgesAreEvidenced` | retrievals, sleep and callers' policies beside the job thread, with a crash between any two commits |
| `LedgerReplay_readback` | `TypeOK`, `ReconstructsStore`, `TraceReplays`, `LedgerExplains`, `HistoryKept` | two namespaces write and query, in a new file or one that is migrated, with crashes |
| `Recall_search` | `RecallTypeOK`, `StaleFactYields`, `PathsCarry` | four kinds of query over stores and graphs, beside a concurrent write |
| `Jobs_background` | `TypeOK`, `VectorsFit`, `JobsAreDone` | two callers, a cache that fails, batches that raise or come back short or long, a card that changes, jobs that raise, a restart with another model |

### What the code does otherwise than it says

`LedgerChain_fork` keeps the counterexample that costs most, a ledger that never verifies
again, and `Routing_quarantine` one that needs a single call. The following properties are in the
modules too and are left out of the runs; each takes a line or two to see, and `hazards` has them at their lines.

| To see | Change | Then TLC finds |
|---|---|---|
| a key that stays in flight | `WaiterHasFinisher` without `key[q] \in abandoned` | an exception outside the `try` (runtime.py:573-717) or a cancellation reaches no `finish()` |
| two mutating threads | `RetrievalFlight_query.cfg`: `Mutator = {m1, m2}`, `MaxStore = 3` | `CacheIsCurrent` and `AnswersAreFresh` violated: a slow one sets the version back to one whose entries are older |
| a lost change | `GovernedTransaction_shared.cfg`: `INVARIANT LedgerExplainsStore` | a retrieval writes back a record that it read before the commit (docs/api.md:11) |
| a crossed trace | `GovernedTransaction_shared.cfg`: `INVARIANT AnswersAreWhole` or `CommitsCarryOwnTrace` | one `last_trace` for all threads (docs/api.md:240) |
| a memory that comes back | `Worldview_rebuild.cfg`: `INVARIANT ForgottenStaysHidden` | the job thread's rebuild of before `forget()` (docs/api.md:311) |

### Bounds

* LedgerChain: `MaxEvent` 4 events and transactions, `MaxCommit` 2 or 3 other commits. Two
  writers make the fork and every conflict of locks; the proofs have any number. The
  properties relate two neighbouring rows or a row and an open transaction; four rows give
  each pattern a before and an after.
* RetrievalFlight: three callers (leader, waiter, a late leader of the same key), one question,
  one entry (so that the key of the next version evicts), one change and its repetitions: the
  keys differ by version, which is what the properties tell apart.
* GovernedTransaction: three calls, two memories, one of them there from the start. Every
  loss or crossing found so far needs two calls; the third is for one that stands between.
* Worldview: one memory, one frame about it and one claim, of which two share a slot, two
  events, two threads, four slot ids (two keys and one held by each thread). A stale
  rebuild needs one event after its reading; the second is there for a reinforcement.
* Routing: two observations of six kinds, one batch applied later of two, one operation cut
  off. A correction needs a claim to correct and one that corrects it; the second batch meets
  claims of an unfinished call.
* Consolidation: three memories, two of them near and one linked to one of those by an
  evidence id, clusters of two, five calls: two observations, a retrieval, a policy, a sleep.
* LedgerReplay: two namespaces, three memories of which one is older than the versions, one
  edge and one frame, two transactions (a state and a later one), two old rows out of order.
* Recall: four memories and paths of three nodes, so that a path is cut; three rounds of
  activation; stores in which a fact has none, one or two states; one write at any place.
* Jobs: two calls, one memory with two texts of which a question has both, batches of one text,
  so that the second text of a round has a batch of its own; one change of the card; one job
  remembered, so that one is dropped; one restart; two models with labels of their own (that
  labels may coincide is covered by the theorem).
* PolicyGate: two memories, so that one may support the other and be supported by it; one
  event; three counted accesses, at which an episode becomes procedural. The policies
  (`Proposals`, `LegacyPolicies`) are every intent with no delta, one, or two of ADD and
  LINK, with and without structures and sources, additions and links with all evidence
  chains of one or two ids that differ, suppressions of each target. Deadlock is checked.
* Elsewhere deadlock is not checked: each model stops when a bound on calls, events or changes is
  used up, and a program nobody calls does nothing. That calls end is checked as
  `EveryWriteEnds`, `EveryQueryReturns` and `JobsAreDone`.
* Symmetry is used in runs that check only safety and only over model values that the
  configuration treats alike.

### Fairness

`LedgerChain!FairSpec` asks weak fairness of each writer's steps within a started append
or transaction. The code justifies it: a thread in Python code is scheduled, a statement
that waits for the write lock gets it or raises when the connection's timeout runs out
(`AppendBusy`, `TxBusy` are those steps). It does not ask that anybody begins anything, and
not that a crash happens. `RetrievalFlight!FairSpec` asks weak fairness of each call's
steps; a caller in `event.wait()` has no enabled step, so fairness does not set its event
for it. Mutators need no fairness. `Jobs!Spec` asks weak fairness of the worker's four steps:
it is a thread that does nothing else, and what it runs ends or raises (a graph commit has no
unbounded wait: SQLite's timeout raises). Callers need none, and a restart drops what is
queued. The other modules have safety properties only.

## 4. The proofs

All proofs are for every value of the constants that the modules' assumptions allow: any
number of threads, processes, callers, memories, and any bounds.

**LedgerChainProofs.** `LogInv` is the inductive core, in three parts: only a writer inside
a transaction holds SQLite's write lock, and one that has inserted does (`LockInv`); a
snapshot is never newer than the file, and one that is as new equals the table
(`SnapshotInv`); the view of the lock's holder extends the table (`ViewInv`).
`WriterSeesAll` (the holder of the lock has seen every commit) and `AppendOnly` (no step
removes or rewrites a committed row), which are proved only, follow: a commit publishes a view, and without the second
part nothing says that the view still extends what is there. `ChainIntact` is false in
general (see `LedgerChain_fork`); it is proved under `SoleAppender`: a writer that appends
on connections of its own is the only writer, which holds in particular when there is none.
`ChainInv` adds that a `previous_hash` in use is the last hash of the rows it will follow.
`MarkInv` says that the numbers of transactions and events are unique and that the rows a
view adds carry its transaction's; it gives `TransactionContiguous` and
`NoPartialTransaction`, together `TransactionAtomic`, without that assumption. `LogInv` and
`MarkInv` together give the refinement `GrowsByTransactions`: only the end of an append and a
commit change the table, and both add rows of one mark that no row had before.

**RetrievalFlightProofs.** `WaiterHasFinisher` is proved from `FlightInv` (a key in flight
has a caller on the way to `finish()` or has been abandoned), without any assumption on the
failures. `AnswersAreFresh` is proved as a refinement: initial states map to
initial states and each step to a step of `FreshReads` or a stutter, from `FreshInv`: no
key is of a later version than the current one; entries and results under the current
version reflect all that was durable when it was made (`Current`), and those under a caller's
version reflect what its question asks for (`SameVersion`) - the latter is what survives the next
version. `CacheIsCurrent` follows from the first part. The one assumption, `OneMutator`, is one
mutating thread, which a single event loop gives: of two, a slow one may set the version back. Mutations that
fail, repeat, or return without a version are all allowed.

The same module has the inside of the search. The folds of `Recall` are functions defined by
recursion over the subsets of a finite set, each of which removes its greatest position. The
module shows that there is one such function (`RecursionExists`, `FoldExists`) and that it ends
in every set that holds its base and that all its steps stay in (`RecursionStays`,
`FoldStays`): a smallest subset where it does not would have a smaller one. With the right set
each fold is then a matter of one step. Sums stay among the numbers (`TotalType`). An activation
stays among the walks whose paths are empty, begin where they end, or are carried by edges
(`Walks`, `PassStays`): the third case needs the second, for a node that nothing has reached
extends the path of itself alone. Packing stays among the memories that no rule suppresses
(`PackFacts`), diffusion among the paths that lead from its seeds to memories that are stored and
not stale (`SpreadType`).
`RecallInv` types the call and holds what an answer shall promise from the decision on
(`Yields`), whatever is written meanwhile: which memories are about the fact is a matter of the
listing, never of the store. Two lemmas give it, one per gate (`PackFacts`, `RecallGateFacts`):
the first gate suppresses every memory that has ended unless the query is historical, which is
why only an answer of the second can need `CanonicalYields`. `RecallTypeOK` is the one with
arithmetic: the weights of a score sum up to 104 percent, not 100.

**GovernedTransactionProofs.** `StoreInv` is the inductive core: calls have numbers of
their own (`NumberInv`), a transaction's rows and what its executor has yet to append make
one of three stories (`StoryInv`), every record held anywhere is governed but for the own
change of the open transaction (`GovernedInv`), and the lock keeps the store still below
it. `OneOutcome`, `OnlyGovernedChanges` and `NoWriteBelowTransaction` follow. `OriginInv`
gives all copies of a record that retrievals hold one element in common with the committed
one, hence `RecordsPersist`. `SoloInv`, under `Undisturbed` (one executor, no retrieval at
work), gives `LedgerExplainsStore` and `CommitsCarryOwnTrace`: which TLC
refutes with company.

**WorldviewProofs.** `RowInv` (a source has one row per slot) gives `OneVisibleRow`: the
view joins a row with the one slot of its source's key. `ViewInv` is the inductive core of
`UndisturbedRebuildIsExact`: nobody in a rebuild holds evidence that is yet to be appended,
which tells the rebuild's slots from those of the claim route (`PendingInv`); while a
rebuild is alone, rows, slots and edges are exactly what it has written so far, whatever it
found (`AloneInv`); from its end to the next beginning they are those of the evidence it
read (`CleanInv`). The lemma behind it is that what the first n events say does not change
when one is appended. `ForgottenStaysHidden` is proved under `SoleThread`: then every
rebuild is alone and has read all evidence (`SoleInv`), and a further event hides no less,
but for what it shows again.

**PolicyGateProofs.** `RecordInv` is the inductive core: types, and that every stored
memory is fresh. Nothing else ever happens to a maturity: the core creates memories as
fresh, forgetting is append-only evidence, and a promotion out of fresh goes to linked,
which the lifecycle machine does not allow, so that the transaction raises. From this
follows `RecordsKept`: consolidation either changes nothing or is undone. `WrittenExtends`
and `AfterExtends` say what the writes keep; `WritesAreLegacy` that the coercion of any
proposal is a legacy policy; both are cited for every way through `commit()`.
`EvidenceGrounded` is inductive with it: new memories and links cite what was stored or
observed before, so a set that rests on itself would have done so already. `AddsWhole`
follows from `WritesAddAsked`: an accepted proposal without structures has as many ADD
writes as ADD deltas, and new memories get ids of their own.

The same module proves the properties of `Routing`, whose operations end in that gate. `RouteInv`
says which rows of the claim whose turn it is are in `journal`, and that all rows are there of
the claims before it, whatever cuts the operation off: from this follows `RoutedWhole`.
`CorrectionInv` keeps every correction that counts to a recorded claim of an event that is safe,
and `PacketInv` what the lenses show. `PacketFollowsCorrections` needs arithmetic too: a
corrected claim's status costs it more than rounding can give back, whatever the weights of its
evidence sum up to (`ScoreFacts`). A sum over rows is a recursive function of a number, and what it
computes is proved without the induction theorems: of the numbers for which a claim fails there
would be a least one (`LeastNatural`).

**ConsolidationProofs.** The inductive invariant is what is sound in every place where a
structure may wait. An event is `Sound` when the edge a rebuild would make of it is `Rooted`
(two different nodes of the store, a relation edges may have) and what it hides a caller asked
to hide. `ThreadInv` says so of the evidence that a thread has yet to append, that what a
rebuild has read is still in the table, and what a sleep has compiled so far: its frames are
stored with those of their members, and the events that say so are appended or pending
(`Crystallised`). `TablesInv` says it of the tables. `EdgesInv` excuses edges that no evidence
accounts for by a crash or by a thread that will still append or rewrite. Nothing is ever
removed but edges, which is why the invariant survives the steps of other threads (`Grows`,
`OthersStay`). From it come all five properties of the run. `StructureRooted` needs the
executor's checks of endpoints, as the mutant shows; `OnlyUnwantedIsHidden` needs that no
sources lead to a relation that hides (`GraphFacts`), whatever the keywords, evidence ids and
embeddings; the clusters of a sleep need only be non-empty sets of stored memories
(`ReplayType`). `PolicyAssumption`: callers name memories, frames or events that could exist,
an association of a memory ends at a memory.

**LedgerReplayProofs.** Nine parts. `FileInv`: where the rows are while a file is migrated, and
that nothing is written before the ledger is open. `ChainInv`: every row is linked to the one
before it, which the copying of a migration breaks and its rehashing, in the same commit,
restores. `ContentInv`: every content that is not older than the ledger has the row that wrote
it. With `QueryInv` (what the process holds of its query, and which rows and files name its
trace already) and `TraceInv`, these give `LedgerExplains` and `TraceReplays`. For
`ReconstructsStore`: transactions follow one another in the ledger, the old rows before them,
so that the rows up to a transaction are those of no later one (`OrderInv`); a version is of a
committed transaction and is what that one left, and what a committed transaction names has a
version (`VersionInv`); a memory has a version of its creation (`CreationInv`). `HistoryKept`
is proved step by step; the migration is the hard step, and `InOrderFacts` its lemma: ORDER BY
loses no row and invents none, since two rows of different `ledger_id` never rank alike.

**JobsProofs.** A call has a number that nothing has heard of before it submits its job
(`NumberInv`), and a job is in one place at a time, as its status says (`PlaceInv`). That gives
`TypeOK`, of which the list of the last jobs is the hard part, and the safety half of
`WorkQueue` as a refinement: initial states and steps map to those of `WorkQueue`. `EmbedInv`
is the strengthening of `VectorsFit`: the vectors of a call that is embedding are of its texts
as long as no batch was wrong, and if batches were wrong one way only, the vectors are too few or
too many and are not used (`Aligned`). `CardInv` says that a listing holds texts the cards have
or had, which is all that is left of it once a card changes. Nothing is assumed of labels.

Assumptions on `None` and `Nil` say that they are none of the values they stand beside; those on
the bounds that they are numbers. `Recall` assumes of its inputs that they have the types of
records, edges and queries (`InputAssumption`), and that memories and words are finitely many. TLC evaluates every one in the runs of its module.

Only model-checked:

* the liveness properties (`EveryWriteEnds`, `EveryQueryReturns`, and that every job is done in
  the end, the other half of `JobsAreDone`): fairness and ENABLED are beyond the prover;
* the violation runs, the table of section 3, and that the instances reach every action.

Every safety property and every action property of a passing run has a theorem. No module here
declares a RECURSIVE operator.

## 5. Plan

Order: what may corrupt the durable state first, then what may mislead a reader, then what
decides. Done: the ledger's chain, the cached query, the governed transaction, the view, the
gate, the routes of claims, sleep and the semantic graph, reading back, the search, the jobs,
and the safety proofs of all of these.

Next is a proof: the gate of `PolicyGate` as an abstraction of what `GovernedTransaction` leaves
open, so that what one shows of a transaction's content holds in the interleavings of the other.

## 6. Not modelled

* Impact scores, embeddings and texts as numbers and words; wording, formatting, packing of
  prompts and diagnostics of contexts and traces.
* HTTP providers, command line, server and LangGraph glue: I/O around the facade. What a
  provider proposes is arbitrary in `PolicyGate` and `Consolidation`; an `nmem` command is the
  second process of `LedgerChain`.
* The in-memory store of the tests; the evaluation harness (a quarter of the lines), which
  drives the runtime and keeps no state of it.
* Code that nothing calls: `GraphDeltaValidator` (executor.py:478), the classification of
  impacts behind `_classify()`, the routes of decisions that are never made, the core's
  `forget` behind `commit()`.
* Within the modelled parts: conflicts and trimming of packets, scores of memories and frames,
  decay, plasticity, the layers of the core, ACLs and dates, exports.

`PROJECT.json` gives the state of each component.
