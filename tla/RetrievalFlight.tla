--------------------------- MODULE RetrievalFlight ---------------------------
(***************************************************************************)
(* MemoryRuntime.query() of neuromem_runtime/runtime.py with the            *)
(* RetrievalCache and the SingleFlight of performance.py, against the       *)
(* mutators of the facade, which make a change durable and then advance the *)
(* namespace version that is part of every cache key.                       *)
(*                                                                          *)
(* Each call runs on a thread of its own (one event loop per thread, as in  *)
(* the singleflight test), so every access to the shared objects is a step; *)
(* on one event loop fewer interleavings happen. A context is named by the  *)
(* number of durable changes it reflects. The two counters of the key,      *)
(* semantic and worldview version, are one: a route that advances either    *)
(* changes the key.                                                         *)
(***************************************************************************)
EXTENDS Naturals, SequencesExt

CONSTANTS
    Caller,       \* the calls of query() that may be active together
    Mutator,      \* the threads that call mutating operations
    Question,     \* query text, lens, filters, budget: the rest of the key
    MaxEntries,   \* capacity of the cache
    CacheEnabled, \* retrieval_cache_ttl_seconds > 0
    Fault,        \* the failures that may happen, of those in FaultKind
    MaxStore,     \* bound on the durable changes
    None          \* a register that holds nothing

FaultKind == {"expiry", "retrieval", "compose", "cancel", "mutation"}

ASSUME CacheAssumption == MaxEntries \in Nat \ {0} /\ CacheEnabled \in BOOLEAN
ASSUME FaultAssumption == Fault \subseteq FaultKind
ASSUME StoreAssumption == MaxStore \in Nat
ASSUME NoneAssumption == None \notin Nat

VARIABLES
    store,      \* durable changes so far
    acked,      \* the last change that returned to its caller with a new version
    version,    \* _semantic_versions[ns] with _worldview_versions[ns]
    cache,      \* _items of the RetrievalCache, least recently used first
    published,  \* the durable changes when the version last advanced (history)
    inflight,   \* the keys of SingleFlight._events
    abandoned,  \* of these, the keys a caller has left without finish() (history)
    mode,       \* mode[q]: where q is in query()
    key,        \* key[q]: cache_key
    floor,      \* floor[q]: what the answer of q must reflect (history)
    result,     \* result[q]: the context q has computed
    answer,     \* answer[q]: the context q returned
    stage,      \* stage[m]: where m is in a mutating operation
    change,     \* change[m]: the change m has made durable
    seen        \* seen[m]: the version m has read in order to advance it

queryVars == <<cache, inflight, abandoned, mode, key, floor, result, answer>>
mutatorVars == <<store, acked, version, published, stage, change, seen>>
vars == <<queryVars, mutatorVars>>

Key == Question \X Nat
Entry == [key : Key, value : Nat]

Mode == {"idle", "probe", "begin", "wait", "recheck", "retrieve", "compose", "finish"}
Stage == {"idle", "durable", "advancing"}

Init ==
    /\ store = 0
    /\ acked = 0
    /\ version = 0
    /\ published = 0
    /\ cache = <<>>
    /\ inflight = {}
    /\ abandoned = {}
    /\ mode = [q \in Caller |-> "idle"]
    /\ key \in [Caller -> Question \X {0}]
    /\ floor = [q \in Caller |-> None]
    /\ result = [q \in Caller |-> None]
    /\ answer = [q \in Caller |-> None]
    /\ stage = [m \in Mutator |-> "idle"]
    /\ change = [m \in Mutator |-> 0]
    /\ seen = [m \in Mutator |-> 0]

-----------------------------------------------------------------------------
(* RetrievalCache and SingleFlight                                          *)

Cached(k) == {i \in 1..Len(cache) : cache[i].key = k}

Without(k) ==
    IF Cached(k) = {} THEN cache ELSE RemoveAt(cache, CHOOSE i \in Cached(k) : TRUE)

\* get(): a live entry moves to the end.
Hit(k, value) ==
    \E i \in Cached(k) :
        /\ value = cache[i].value
        /\ cache' = Append(Without(k), cache[i])

\* get(): nothing there, or an entry past its TTL, which is dropped.
Miss(k) ==
    \/ Cached(k) = {} /\ UNCHANGED cache
    \/ Cached(k) # {} /\ "expiry" \in Fault /\ cache' = Without(k)

\* (variant) a set() that never evicts.
StoredUnbounded(k, value) == Append(Without(k), [key |-> k, value |-> value])

\* set(): the newest entry goes to the end, the oldest ones go.
Stored(k, value) ==
    LET items == Append(Without(k), [key |-> k, value |-> value])
        extra == IF Len(items) > MaxEntries THEN Len(items) - MaxEntries ELSE 0
    IN  IF CacheEnabled THEN SubSeq(items, extra + 1, Len(items)) ELSE cache

\* What the caller's frame held is gone when the call ends.
Leave(q) ==
    /\ floor' = [floor EXCEPT ![q] = None]
    /\ result' = [result EXCEPT ![q] = None]

\* (variant) finish() drops the event without setting it.
ReleaseSilently(k, q) ==
    /\ inflight' = inflight \ {k}
    /\ abandoned' = abandoned \ {k}
    /\ mode' = [mode EXCEPT ![q] = "idle"]

\* finish() by q, on its way out: the event registered under the key, whoever
\* registered it, is removed and set. There is one unset event per key at
\* most, so those who wait on the key wait on this one.
Release(k, q) ==
    /\ inflight' = inflight \ {k}
    /\ abandoned' = abandoned \ {k}
    /\ mode' = [r \in Caller |->
                   IF r = q THEN "idle"
                   ELSE IF k \in inflight /\ mode[r] = "wait" /\ key[r] = k THEN "recheck"
                   ELSE mode[r]]

-----------------------------------------------------------------------------
(* query()                                                                  *)

\* The key is made from the version at the start of the call.
Ask(q) ==
    /\ mode[q] = "idle"
    /\ \E question \in Question : key' = [key EXCEPT ![q] = <<question, version>>]
    /\ floor' = [floor EXCEPT ![q] = acked]
    /\ answer' = [answer EXCEPT ![q] = None]
    /\ mode' = [mode EXCEPT ![q] = "probe"]
    /\ UNCHANGED <<cache, inflight, abandoned, result, mutatorVars>>

\* A hit in the cache, before begin() or after the wait, is the answer.
AnswerFromCache(q) ==
    /\ mode[q] \in {"probe", "recheck"}
    /\ \E value \in 0..store :
        /\ Hit(key[q], value)
        /\ answer' = [answer EXCEPT ![q] = value]
    /\ mode' = [mode EXCEPT ![q] = "idle"]
    /\ Leave(q)
    /\ UNCHANGED <<inflight, abandoned, key, mutatorVars>>

ProbeMiss(q) ==
    /\ mode[q] = "probe"
    /\ Miss(key[q])
    /\ mode' = [mode EXCEPT ![q] = "begin"]
    /\ UNCHANGED <<inflight, abandoned, key, floor, result, answer, mutatorVars>>

\* begin(): the first caller of the key leads, the others wait for its event.
Begin(q) ==
    /\ mode[q] = "begin"
    /\ inflight' = inflight \cup {key[q]}
    /\ mode' = [mode EXCEPT ![q] = IF key[q] \in inflight THEN "wait" ELSE "retrieve"]
    /\ UNCHANGED <<cache, abandoned, key, floor, result, answer, mutatorVars>>

\* A caller that waited and finds nothing computes the context itself.
RecheckMiss(q) ==
    /\ mode[q] = "recheck"
    /\ Miss(key[q])
    /\ mode' = [mode EXCEPT ![q] = "retrieve"]
    /\ UNCHANGED <<inflight, abandoned, key, floor, result, answer, mutatorVars>>

\* retrieve_with_trace() in a worker thread.
Retrieve(q) ==
    /\ mode[q] = "retrieve"
    /\ result' = [result EXCEPT ![q] = store]
    /\ mode' = [mode EXCEPT ![q] = "compose"]
    /\ UNCHANGED <<cache, inflight, abandoned, key, floor, answer, mutatorVars>>

\* (variant) the exception leaves without finish().
RetrieveFailsSilently(q) ==
    /\ "retrieval" \in Fault
    /\ mode[q] = "retrieve"
    /\ mode' = [mode EXCEPT ![q] = "idle"]
    /\ Leave(q)
    /\ UNCHANGED <<cache, inflight, abandoned, key, answer, mutatorVars>>

\* except Exception: finish(cache_key) and raise.
RetrieveFails(q) ==
    /\ "retrieval" \in Fault
    /\ mode[q] = "retrieve"
    /\ Release(key[q], q)
    /\ Leave(q)
    /\ UNCHANGED <<cache, key, answer, mutatorVars>>

\* A call that works on its key ends and calls no finish().
Abandon(q) ==
    /\ mode' = [mode EXCEPT ![q] = "idle"]
    /\ abandoned' = abandoned \cup ({key[q]} \cap inflight)
    /\ Leave(q)
    /\ UNCHANGED <<cache, inflight, key, answer, mutatorVars>>

\* The task is cancelled at the await of the retrieval: CancelledError is no
\* Exception, so nothing is finished.
Cancel(q) ==
    /\ "cancel" \in Fault
    /\ mode[q] = "retrieve"
    /\ Abandon(q)

\* The task is cancelled while it waits: the others' key is not its own to finish.
CancelWait(q) ==
    /\ "cancel" \in Fault
    /\ mode[q] = "wait"
    /\ mode' = [mode EXCEPT ![q] = "idle"]
    /\ Leave(q)
    /\ UNCHANGED <<cache, inflight, abandoned, key, answer, mutatorVars>>

\* (variant) the entry is stored under the version of the end of the call.
ComposeLate(q) ==
    /\ mode[q] = "compose"
    /\ cache' = Stored(<<key[q][1], version>>, result[q])
    /\ mode' = [mode EXCEPT ![q] = "finish"]
    /\ UNCHANGED <<inflight, abandoned, key, floor, result, answer, mutatorVars>>

\* Suppression filter, ledger row, worldview packet, then cache.set().
Compose(q) ==
    /\ mode[q] = "compose"
    /\ cache' = Stored(key[q], result[q])
    /\ mode' = [mode EXCEPT ![q] = "finish"]
    /\ UNCHANGED <<inflight, abandoned, key, floor, result, answer, mutatorVars>>

\* Outside the try: the listing of the states before the retrieval, or the
\* ledger row, the trace file or the rebuild after it, raises: no finish().
ComposeFails(q) ==
    /\ "compose" \in Fault
    /\ mode[q] \in {"retrieve", "compose"}
    /\ Abandon(q)

Finish(q) ==
    /\ mode[q] = "finish"
    /\ Release(key[q], q)
    /\ answer' = [answer EXCEPT ![q] = result[q]]
    /\ Leave(q)
    /\ UNCHANGED <<cache, key, mutatorVars>>

-----------------------------------------------------------------------------
(* Mutating operations: forget, after_turn, observe_and_commit, commit ...  *)

\* The edge evidence, the governed transaction: durable from here on.
MakeDurable(m) ==
    /\ stage[m] = "idle"
    /\ store < MaxStore
    /\ store' = store + 1
    /\ change' = [change EXCEPT ![m] = store + 1]
    /\ stage' = [stage EXCEPT ![m] = "durable"]
    /\ UNCHANGED <<acked, version, published, seen, queryVars>>

\* A caller repeats an operation that raised half done (or that advanced no
\* version): its rows are appended again, and a context shows the same.
Repeat(m) ==
    /\ stage[m] = "idle"
    /\ change[m] > acked
    /\ stage' = [stage EXCEPT ![m] = "durable"]
    /\ UNCHANGED <<store, acked, version, published, change, seen, queryVars>>

\* A later statement of the operation raises before the version advances.
MutationFails(m) ==
    /\ "mutation" \in Fault
    /\ stage[m] = "durable"
    /\ stage' = [stage EXCEPT ![m] = "idle"]
    /\ UNCHANGED <<store, acked, version, published, change, seen, queryVars>>

Acknowledged(m) == acked' = IF change[m] > acked THEN change[m] ELSE acked

\* observe() of an event with claims, which the next rebuild shows (and
\* materialize_worldview(), which rebuilds): it returns and has advanced no version.
ReturnUnversioned(m) ==
    /\ stage[m] = "durable"
    /\ stage' = [stage EXCEPT ![m] = "idle"]
    /\ UNCHANGED <<store, acked, version, published, change, seen, queryVars>>

\* _semantic_versions[ns] = _semantic_versions.get(ns, 0) + 1: read, ...
ReadVersion(m) ==
    /\ stage[m] = "durable"
    /\ seen' = [seen EXCEPT ![m] = version]
    /\ stage' = [stage EXCEPT ![m] = "advancing"]
    /\ UNCHANGED <<store, acked, version, published, change, queryVars>>

\* (variant) the mutation returns with the version as it was.
AdvanceNothing(m) ==
    /\ stage[m] = "advancing"
    /\ Acknowledged(m)
    /\ stage' = [stage EXCEPT ![m] = "idle"]
    /\ UNCHANGED <<store, version, published, change, seen, queryVars>>

\* ... and write. The operation counts as returned from here on.
AdvanceVersion(m) ==
    /\ stage[m] = "advancing"
    /\ version' = seen[m] + 1
    /\ published' = store
    /\ Acknowledged(m)
    /\ stage' = [stage EXCEPT ![m] = "idle"]
    /\ UNCHANGED <<store, change, seen, queryVars>>

-----------------------------------------------------------------------------
QueryStep(q) ==
    \/ AnswerFromCache(q) \/ ProbeMiss(q) \/ Begin(q) \/ RecheckMiss(q)
    \/ Retrieve(q) \/ RetrieveFails(q)
    \/ Compose(q) \/ ComposeFails(q) \/ Finish(q)

MutatorStep(m) ==
    \/ MutationFails(m) \/ ReturnUnversioned(m) \/ ReadVersion(m) \/ AdvanceVersion(m)

Next ==
    \/ \E q \in Caller : Ask(q) \/ Cancel(q) \/ CancelWait(q) \/ QueryStep(q)
    \/ \E m \in Mutator : MakeDurable(m) \/ Repeat(m) \/ MutatorStep(m)

Spec == Init /\ [][Next]_vars

\* A call that is under way is scheduled again and again; a caller blocked on
\* an event is not helped by that.
FairSpec == Spec /\ \A q \in Caller : WF_vars(QueryStep(q))

-----------------------------------------------------------------------------
(* Properties                                                               *)

\* Type correctness; a register is set where it is read, and the cache never
\* holds more than its capacity.
TypeOK ==
    /\ store \in Nat /\ acked \in Nat /\ version \in Nat /\ published \in Nat
    /\ cache \in Seq(Entry)
    /\ Len(cache) <= MaxEntries
    /\ inflight \subseteq Key /\ abandoned \subseteq inflight
    /\ mode \in [Caller -> Mode]
    /\ key \in [Caller -> Key]
    /\ floor \in [Caller -> Nat \cup {None}]
    /\ result \in [Caller -> Nat \cup {None}]
    /\ answer \in [Caller -> Nat \cup {None}]
    /\ \A q \in Caller : mode[q] # "idle" => floor[q] # None
    /\ \A q \in Caller : mode[q] \in {"compose", "finish"} => result[q] # None
    /\ stage \in [Mutator -> Stage]
    /\ change \in [Mutator -> Nat] /\ seen \in [Mutator -> Nat]

\* query() implements FreshReads: an answer, cached or computed, by a leader or
\* by a caller that waited, reflects every change that had returned with a new
\* version when the question was asked, and every change before that one.
Fresh == INSTANCE FreshReads WITH
    Caller <- Caller,
    None <- None,
    store <- store,
    acked <- acked,
    floor <- floor,
    answer <- answer

AnswersAreFresh == Fresh!Spec

\* What the cache holds for the current version reflects at least all that was
\* durable when that version was made, also the changes of mutations that
\* had failed before their own version: a half-done or unversioned change is
\* missing from answers until the next version at the latest.
CacheIsCurrent ==
    /\ acked <= published
    /\ \A i \in 1..Len(cache) :
          cache[i].key[2] = version => cache[i].value \in published..store

\* A caller that waits has somebody on the way to finish() for its key, or the
\* key has been left by a call that raised outside the try or was cancelled:
\* no other failure strands a waiter, nor does an eviction, an expiry or a
\* finish() that sets the event of a later leader.
WaiterHasFinisher ==
    \A q \in Caller : mode[q] = "wait" =>
        \/ \E r \in Caller : key[r] = key[q] /\ mode[r] \in {"retrieve", "compose", "finish"}
        \/ key[q] \in abandoned

\* Every call of query() returns or raises, but one that waits for a key that
\* has been left without finish().
EveryQueryReturns ==
    \A q \in Caller :
        (mode[q] # "idle") ~> (mode[q] = "idle" \/ (mode[q] = "wait" /\ key[q] \in abandoned))

=============================================================================
