------------------------- MODULE GovernedTransaction -------------------------
(***************************************************************************)
(* PolicyExecutor.execute() of neuromem_runtime/executor.py: snapshot,      *)
(* validation, one transaction of the store, delta capture, audit rows; and *)
(* beside it retrieve_with_trace() of neuromem/core/runtime.py, which       *)
(* query() runs in worker threads and which writes the memories it found    *)
(* back to the store.                                                       *)
(*                                                                          *)
(* All threads are of one process and share the store's RLock and the core  *)
(* runtime's last_trace. A call draws a number in the order of the calls;   *)
(* the number names its transaction and its trace. A memory is the set of   *)
(* the transactions whose change its record shows (0 for a record that is   *)
(* there at the start, the empty set for no record). Which policies the     *)
(* validators approve is left open. LedgerChain has the rows' order.        *)
(***************************************************************************)
EXTENDS Naturals, SequencesExt

CONSTANTS
    Executor,    \* threads that call PolicyExecutor.execute()
    Retriever,   \* worker threads that run retrieve_with_trace()
    Memory,      \* memory ids
    Stored,      \* the memories that are there at the start
    MaxCall,     \* bound on the calls ever made
    Nobody       \* the holder of a lock nobody holds

ASSUME MemoryAssumption == Stored \subseteq Memory
ASSUME NobodyAssumption == Nobody \notin Executor
ASSUME BoundAssumption == MaxCall \in Nat

VARIABLES
    memory,     \* memory[m]: the committed record of m
    log,        \* log[t]: the phases in the ledger rows of transaction t
    delta,      \* delta[t]: the memories in t's memory_delta_committed row
    source,     \* source[t]: the trace in that row
    lock,       \* the executor whose transaction holds the RLock
    lastTrace,  \* NeuroMemRuntime.last_trace
    fresh,      \* the last number drawn
    mode,       \* mode[e]: where e is in execute()
    txn,        \* txn[e]: transaction_id
    before,     \* before[e]: before_memories
    draft,      \* draft[e]: the memories as e's transaction sees them
    trace,      \* trace[e]: the trace e works on
    script,     \* script[e]: the phases e has yet to append on its own
    step,       \* step[r]: where r is in retrieve_with_trace()
    call,       \* call[r]: the number of r's call
    found,      \* found[r]: the records r has read
    todo,       \* todo[r]: the results r has yet to write back
    chosen,     \* chosen[r]: the trace whose selection r returns
    answer      \* answer[r]: the traces r's selection and trace come from

ledgerVars == <<log, delta, source>>
executorVars == <<mode, txn, before, draft, trace, script>>
retrieverVars == <<step, call, found, todo, chosen, answer>>
vars == <<memory, ledgerVars, lock, lastTrace, fresh, executorVars, retrieverVars>>

Call == 1..MaxCall
Records == [Memory -> SUBSET (0..MaxCall)]
Phase == {"PROPOSED", "VALIDATED", "COMMITTED", "REJECTED", "ROLLED_BACK", "AUDITED"}

Committed == <<"PROPOSED", "VALIDATED", "COMMITTED", "AUDITED">>
Rejected == <<"PROPOSED", "REJECTED", "AUDITED">>

\* (variant) a phase of its own for the row of the handler.
RolledBackUnknown == <<"ABORTED", "AUDITED">>

RolledBack == <<"ROLLED_BACK", "AUDITED">>

Init ==
    /\ memory = [m \in Memory |-> IF m \in Stored THEN {0} ELSE {}]
    /\ log = [t \in Call |-> <<>>]
    /\ delta = [t \in Call |-> {}]
    /\ source = [t \in Call |-> 0]
    /\ lock = Nobody
    /\ lastTrace = 0
    /\ fresh = 0
    /\ mode = [e \in Executor |-> "idle"]
    /\ txn = [e \in Executor |-> 0]
    /\ before = [e \in Executor |-> memory]
    /\ draft = [e \in Executor |-> memory]
    /\ trace = [e \in Executor |-> 0]
    /\ script = [e \in Executor |-> <<>>]
    /\ step = [r \in Retriever |-> "idle"]
    /\ call = [r \in Retriever |-> 0]
    /\ found = [r \in Retriever |-> memory]
    /\ todo = [r \in Retriever |-> {}]
    /\ chosen = [r \in Retriever |-> 0]
    /\ answer = [r \in Retriever |-> <<0, 0>>]

Goto(e, place) == mode' = [mode EXCEPT ![e] = place]

-----------------------------------------------------------------------------
(* PolicyExecutor.execute()                                                 *)

\* before_memories, before the transaction is open.
Snapshot(e) ==
    /\ mode[e] = "idle"
    /\ fresh < MaxCall
    /\ fresh' = fresh + 1
    /\ txn' = [txn EXCEPT ![e] = fresh + 1]
    /\ before' = [before EXCEPT ![e] = memory]
    /\ Goto(e, "validating")
    /\ UNCHANGED <<memory, ledgerVars, lock, lastTrace, draft, trace, script, retrieverVars>>

\* An unsupported policy or a failed validator: the rejected trace, then the
\* rows, each on a connection of its own.
Reject(e) ==
    /\ mode[e] = "validating"
    /\ lastTrace' = txn[e]
    /\ script' = [script EXCEPT ![e] = Rejected]
    /\ Goto(e, "recording")
    /\ UNCHANGED <<memory, ledgerVars, lock, fresh, txn, before, draft, trace, retrieverVars>>

\* (variant) the transaction works on the memories of the first snapshot.
OpenOnSnapshot(e) ==
    /\ mode[e] = "validating"
    /\ lock = Nobody
    /\ lock' = e
    /\ draft' = [draft EXCEPT ![e] = before[e]]
    /\ Goto(e, "open")
    /\ UNCHANGED <<memory, ledgerVars, lastTrace, fresh, txn, before, trace, script, retrieverVars>>

\* transaction(): the lock, then the snapshot the first statement pins. The
\* rows PROPOSED and VALIDATED are written in it and show when it commits.
Open(e) ==
    /\ mode[e] = "validating"
    /\ lock = Nobody
    /\ lock' = e
    /\ draft' = [draft EXCEPT ![e] = memory]
    /\ Goto(e, "open")
    /\ UNCHANGED <<memory, ledgerVars, lastTrace, fresh, txn, before, trace, script, retrieverVars>>

\* What the approved policies change: ADD (one per delta) creates records, LINK
\* extends one, a graph policy or a discarded observation none.
Applied(e, records) ==
    \/ \E created \in SUBSET {m \in Memory : draft[e][m] = {}} :
           records = [m \in Memory |-> IF m \in created THEN {txn[e]} ELSE draft[e][m]]
    \/ \E m \in Memory :
           /\ draft[e][m] # {}
           /\ records = [draft[e] EXCEPT ![m] = @ \cup {txn[e]}]

\* _execute_validated_policy(): a new last_trace, then the writes.
Apply(e) ==
    /\ mode[e] = "open"
    /\ lastTrace' = txn[e]
    /\ \E records \in Records :
        /\ Applied(e, records)
        /\ draft' = [draft EXCEPT ![e] = records]
    /\ Goto(e, "applied")
    /\ UNCHANGED <<memory, ledgerVars, lock, fresh, txn, before, trace, script, retrieverVars>>

\* trace = self.runtime.last_trace
TakeTrace(e) ==
    /\ mode[e] = "applied"
    /\ trace' = [trace EXCEPT ![e] = lastTrace]
    /\ Goto(e, "traced")
    /\ UNCHANGED <<memory, ledgerVars, lock, lastTrace, fresh, txn, before, draft, script, retrieverVars>>

\* _memory_deltas(before_memories, after_memories)
Delta(e) == {m \in Memory : before[e][m] # draft[e][m]}

\* (variant) AUDITED is appended after the commit, on a connection of its own.
CommitThenAudit(e) ==
    /\ mode[e] = "traced"
    /\ memory' = draft[e]
    /\ log' = [log EXCEPT ![txn[e]] = SubSeq(Committed, 1, 3)]
    /\ delta' = [delta EXCEPT ![txn[e]] = Delta(e)]
    /\ source' = [source EXCEPT ![txn[e]] = trace[e]]
    /\ script' = [script EXCEPT ![e] = <<"AUDITED">>]
    /\ lock' = Nobody
    /\ Goto(e, "recording")
    /\ UNCHANGED <<lastTrace, fresh, txn, before, draft, trace, retrieverVars>>

\* The rows COMMITTED and AUDITED, then commit(): records and rows show at once.
Commit(e) ==
    /\ mode[e] = "traced"
    /\ memory' = draft[e]
    /\ log' = [log EXCEPT ![txn[e]] = Committed]
    /\ delta' = [delta EXCEPT ![txn[e]] = Delta(e)]
    /\ source' = [source EXCEPT ![txn[e]] = trace[e]]
    /\ lock' = Nobody
    /\ Goto(e, "idle")
    /\ UNCHANGED <<lastTrace, fresh, txn, before, draft, trace, script, retrieverVars>>

\* (variant) the connection commits although the assertion failed.
AssertionFailsLate(e) ==
    /\ mode[e] \in {"applied", "traced"}
    /\ memory' = draft[e]
    /\ lock' = Nobody
    /\ Goto(e, "undone")
    /\ UNCHANGED <<ledgerVars, lastTrace, fresh, txn, before, draft, trace, script, retrieverVars>>

\* _PostCommitValidationError: a frame, edge or post-commit validator objects
\* and the transaction is rolled back.
AssertionFails(e) ==
    /\ mode[e] \in {"applied", "traced"}
    /\ lock' = Nobody
    /\ Goto(e, "undone")
    /\ UNCHANGED <<memory, ledgerVars, lastTrace, fresh, txn, before, draft, trace, script, retrieverVars>>

\* The handler: the trace of the rollback, then its rows outside any transaction.
NoteRollback(e) ==
    /\ mode[e] = "undone"
    /\ lastTrace' = txn[e]
    /\ script' = [script EXCEPT ![e] = RolledBack]
    /\ Goto(e, "recording")
    /\ UNCHANGED <<memory, ledgerVars, lock, fresh, txn, before, draft, trace, retrieverVars>>

\* One append() of _record_rejection() or of the handler; after the last one
\* execute() returns.
Record(e) ==
    /\ mode[e] = "recording"
    /\ script[e] # <<>>
    /\ log' = [log EXCEPT ![txn[e]] = Append(@, Head(script[e]))]
    /\ script' = [script EXCEPT ![e] = Tail(@)]
    /\ Goto(e, IF Len(script[e]) = 1 THEN "idle" ELSE "recording")
    /\ UNCHANGED <<memory, delta, source, lock, lastTrace, fresh, txn, before, draft, trace, retrieverVars>>

\* Any other exception leaves execute(); an open transaction is rolled back and
\* no row says so.
Raise(e) ==
    /\ mode[e] # "idle"
    /\ lock' = IF lock = e THEN Nobody ELSE lock
    /\ Goto(e, "idle")
    /\ UNCHANGED <<memory, ledgerVars, lastTrace, fresh, txn, before, draft, trace, script, retrieverVars>>

-----------------------------------------------------------------------------
(* retrieve_with_trace()                                                    *)

\* list_memories(), and which of them the ranking returns.
Search(r) ==
    /\ step[r] = "idle"
    /\ fresh < MaxCall
    /\ fresh' = fresh + 1
    /\ call' = [call EXCEPT ![r] = fresh + 1]
    /\ found' = [found EXCEPT ![r] = memory]
    /\ \E hits \in SUBSET {m \in Memory : memory[m] # {}} : todo' = [todo EXCEPT ![r] = hits]
    /\ step' = [step EXCEPT ![r] = "touching"]
    /\ UNCHANGED <<memory, ledgerVars, lock, lastTrace, executorVars, chosen, answer>>

\* (variant) upsert_memory() without the lock.
TouchUnlocked(r) ==
    /\ step[r] = "touching"
    /\ \E m \in todo[r] :
        /\ memory' = [memory EXCEPT ![m] = found[r][m]]
        /\ todo' = [todo EXCEPT ![r] = @ \ {m}]
    /\ UNCHANGED <<ledgerVars, lock, lastTrace, fresh, executorVars, step, call, found, chosen, answer>>

\* access_count += 1, then upsert_memory(): the record goes back as it was read,
\* under the lock and in a commit of its own.
Touch(r) ==
    /\ step[r] = "touching"
    /\ lock = Nobody
    /\ \E m \in todo[r] :
        /\ memory' = [memory EXCEPT ![m] = found[r][m]]
        /\ todo' = [todo EXCEPT ![r] = @ \ {m}]
    /\ UNCHANGED <<ledgerVars, lock, lastTrace, fresh, executorVars, step, call, found, chosen, answer>>

\* before_step() ends with a new last_trace.
SetTrace(r) ==
    /\ step[r] = "touching"
    /\ todo[r] = {}
    /\ lastTrace' = call[r]
    /\ step' = [step EXCEPT ![r] = "selecting"]
    /\ UNCHANGED <<memory, ledgerVars, lock, fresh, executorVars, call, found, todo, chosen, answer>>

\* self.last_trace.selected_memory_ids, ...
ReadSelection(r) ==
    /\ step[r] = "selecting"
    /\ chosen' = [chosen EXCEPT ![r] = lastTrace]
    /\ step' = [step EXCEPT ![r] = "returning"]
    /\ UNCHANGED <<memory, ledgerVars, lock, lastTrace, fresh, executorVars, call, found, todo, answer>>

\* ... and return results, self.last_trace
Return(r) ==
    /\ step[r] = "returning"
    /\ answer' = [answer EXCEPT ![r] = <<chosen[r], lastTrace>>]
    /\ step' = [step EXCEPT ![r] = "idle"]
    /\ UNCHANGED <<memory, ledgerVars, lock, lastTrace, fresh, executorVars, call, found, todo, chosen>>

\* A statement raises (the database is locked): what is written back stays.
SearchFails(r) ==
    /\ step[r] = "touching"
    /\ step' = [step EXCEPT ![r] = "idle"]
    /\ UNCHANGED <<memory, ledgerVars, lock, lastTrace, fresh, executorVars, call, found, todo, chosen, answer>>

-----------------------------------------------------------------------------
\* The process dies and starts again.
Crash ==
    /\ \/ \E e \in Executor : mode[e] # "idle"
       \/ \E r \in Retriever : step[r] # "idle"
    /\ lock' = Nobody
    /\ lastTrace' = 0
    /\ mode' = [e \in Executor |-> "idle"]
    /\ step' = [r \in Retriever |-> "idle"]
    /\ UNCHANGED <<memory, ledgerVars, fresh, txn, before, draft, trace, script, call, found, todo, chosen, answer>>

ExecutorStep(e) ==
    \/ Reject(e) \/ Open(e) \/ Apply(e) \/ TakeTrace(e) \/ Commit(e)
    \/ AssertionFails(e) \/ NoteRollback(e) \/ Record(e) \/ Raise(e)

RetrieverStep(r) ==
    \/ Touch(r) \/ SetTrace(r) \/ ReadSelection(r) \/ Return(r) \/ SearchFails(r)

Next ==
    \/ \E e \in Executor : Snapshot(e) \/ ExecutorStep(e)
    \/ \E r \in Retriever : Search(r) \/ RetrieverStep(r)
    \/ Crash

Spec == Init /\ [][Next]_vars

-----------------------------------------------------------------------------
(* Properties                                                               *)

\* Type correctness of the store, the ledger and the threads' registers.
TypeOK ==
    /\ memory \in Records
    /\ log \in [Call -> Seq(Phase)]
    /\ delta \in [Call -> SUBSET Memory]
    /\ source \in [Call -> 0..MaxCall]
    /\ lock \in Executor \cup {Nobody}
    /\ lastTrace \in 0..MaxCall
    /\ fresh \in 0..MaxCall
    /\ mode \in [Executor -> {"idle", "validating", "open", "applied", "traced", "undone", "recording"}]
    /\ txn \in [Executor -> 0..MaxCall]
    /\ before \in [Executor -> Records]
    /\ draft \in [Executor -> Records]
    /\ trace \in [Executor -> 0..MaxCall]
    /\ script \in [Executor -> Seq(Phase)]
    /\ step \in [Retriever -> {"idle", "touching", "selecting", "returning"}]
    /\ call \in [Retriever -> 0..MaxCall]
    /\ found \in [Retriever -> Records]
    /\ todo \in [Retriever -> SUBSET Memory]
    /\ chosen \in [Retriever -> 0..MaxCall]
    /\ answer \in [Retriever -> (0..MaxCall) \X (0..MaxCall)]

IsCommitted(t) == log[t] = Committed

\* Nothing durable is ungoverned: a change that shows in the store is in the
\* memory_delta of a committed transaction. Rejected and rolled back policies,
\* exceptions and crashes leave no mark, and no retrieval carries one over.
OnlyGovernedChanges ==
    \A m \in Memory : \A t \in memory[m] \ {0} : IsCommitted(t) /\ m \in delta[t]

\* The ledger tells one story of each transaction: committed whole, or the
\* beginning of a rejection or of a rollback, cut short only by a crash or an
\* exception.
OneOutcome ==
    \A t \in Call :
        \/ IsCommitted(t)
        \/ IsPrefix(log[t], Rejected)
        \/ IsPrefix(log[t], RolledBack)

\* A record is only ever replaced by a version of itself and never disappears,
\* although retrievals write records back that they read long before.
RecordsPersist ==
    [][\A m \in Memory : memory[m] # {} => memory[m] \cap memory'[m] # {}]_vars

\* Changes are serial: as long as a transaction holds the lock, the store is
\* what the transaction began with.
NoWriteBelowTransaction ==
    \A e \in Executor : mode[e] \in {"open", "applied", "traced"} =>
        /\ lock = e
        /\ \A m \in Memory : draft[e][m] \ {txn[e]} = memory[m]

\* The ledger explains the store: what a committed transaction's memory_delta
\* names shows the change of that transaction.
LedgerExplainsStore ==
    \A t \in Call : IsCommitted(t) => \A m \in delta[t] : t \in memory[m]

\* The committed row carries the trace of its own transaction.
CommitsCarryOwnTrace == \A t \in Call : IsCommitted(t) => source[t] = t

\* What a retrieval returns is of one piece: the selected memories and the
\* trace come from the same recall. The shared last_trace breaks this as soon
\* as a second retrieval or a policy runs beside the first.
AnswersAreWhole == \A r \in Retriever : answer[r][1] = answer[r][2]

=============================================================================
