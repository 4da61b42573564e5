------------------------ MODULE RetrievalFlightProofs ------------------------
(***************************************************************************)
(* Proofs about a retrieval: RetrievalFlight, what query() does around it,  *)
(* and Recall, the search itself; for any number of callers, questions,     *)
(* changes, memories and edges, and any capacity of the cache.              *)
(*                                                                          *)
(* Freshness rests on the versions: whatever is stored, or about to be      *)
(* stored, under the current version reflects every change that has         *)
(* returned, and all that was durable when that version was made (Current), *)
(* and whatever shares a version with an open question reflects what that   *)
(* question must reflect (SameVersion). A mutator that returns moves the    *)
(* version past every key in use, so Current holds vacuously again.         *)
(*                                                                          *)
(* What Recall computes is a fold: sums, ranks, activation, packing and     *)
(* diffusion. A fold is a function defined by recursion over the subsets of *)
(* a finite set; it exists (RecursionExists) and ends in each set that all  *)
(* of its steps stay in (RecursionStays). Activation stays in the walks     *)
(* whose paths edges carry (Walks), packing in what is not suppressed,      *)
(* diffusion in paths to what is stored; the invariant (RecallInv) is read  *)
(* off from these.                                                          *)
(***************************************************************************)
EXTENDS RetrievalFlight, Recall, SequenceTheorems, FiniteSetTheorems, WellFoundedInduction, TLAPS

\* The entries of the cache, their order left out.
Entries == {cache[i] : i \in 1..Len(cache)}

Working == {"retrieve", "compose", "finish"}

-----------------------------------------------------------------------------
(* The cache                                                                *)

\* Removing a position of a sequence leaves elements of the sequence.
LEMMA RemoveAtElements ==
    ASSUME NEW S, NEW s \in Seq(S), NEW i \in 1..Len(s)
    PROVE  /\ RemoveAt(s, i) \in Seq(S)
           /\ Len(RemoveAt(s, i)) = Len(s) - 1
           /\ \A j \in 1..Len(RemoveAt(s, i)) : \E n \in 1..Len(s) : RemoveAt(s, i)[j] = s[n]
<1> DEFINE a == SubSeq(s, 1, i - 1)
           b == SubSeq(s, i + 1, Len(s))
<1>1. /\ a \in Seq(S) /\ Len(a) = i - 1
      /\ \A j \in 1..(i - 1) : a[j] = s[j]
  BY SMTT(30)
<1>2. /\ b \in Seq(S) /\ Len(b) = Len(s) - i
      /\ \A j \in 1..(Len(s) - i) : b[j] = s[i + j]
  BY SMTT(30)
<1>3. RemoveAt(s, i) = a \o b
  BY DEF RemoveAt
<1> HIDE DEF a, b
<1>4. /\ a \o b \in Seq(S)
      /\ Len(a \o b) = Len(s) - 1
      /\ \A j \in 1..Len(a \o b) : (a \o b)[j] = IF j <= Len(a) THEN a[j] ELSE b[j - Len(a)]
  <2>1. /\ a \o b \in Seq(S)
        /\ Len(a \o b) = Len(a) + Len(b)
        /\ \A j \in 1..(Len(a) + Len(b)) :
              (a \o b)[j] = IF j <= Len(a) THEN a[j] ELSE b[j - Len(a)]
    BY <1>1, <1>2, ConcatProperties
  <2>2. Len(s) \in Nat
    OBVIOUS
  <2> QED BY <1>1, <1>2, <2>1, <2>2
<1>5. ASSUME NEW j \in 1..Len(a \o b)
      PROVE  \E n \in 1..Len(s) : (a \o b)[j] = s[n]
  <2>1. CASE j <= Len(a)
    BY <1>1, <1>4, <2>1
  <2>2. CASE j > Len(a)
    <3>1. /\ (a \o b)[j] = b[j - Len(a)]
          /\ j - Len(a) \in 1..(Len(s) - i)
      BY <1>1, <1>2, <1>4, <2>2
    <3>2. i + (j - Len(a)) \in 1..Len(s)
      BY <3>1, <1>1
    <3> QED BY <1>2, <3>1, <3>2
  <2>3. Len(a) \in Nat /\ j \in Nat
    BY <1>1
  <2> QED BY <2>1, <2>2, <2>3
<1> QED BY <1>3, <1>4, <1>5

\* What remains without a key is a cache of old entries.
LEMMA WithoutEntries ==
    ASSUME cache \in Seq(Entry), NEW k
    PROVE  /\ Without(k) \in Seq(Entry)
           /\ Len(Without(k)) <= Len(cache)
           /\ Cached(k) # {} => Len(Without(k)) < Len(cache)
           /\ \A j \in 1..Len(Without(k)) : Without(k)[j] \in Entries
<1>1. CASE Cached(k) = {}
  BY <1>1 DEF Without, Entries
<1>2. CASE Cached(k) # {}
  <2> DEFINE i == CHOOSE i \in Cached(k) : TRUE
  <2>1. i \in 1..Len(cache)
    BY <1>2 DEF Cached
  <2>2. Without(k) = RemoveAt(cache, i)
    BY <1>2 DEF Without
  <2> HIDE DEF i
  <2> QED BY <2>1, <2>2, RemoveAtElements DEF Entries
<1> QED BY <1>1, <1>2

\* A hit shows an entry of the key and brings no new one.
LEMMA HitEntries ==
    ASSUME cache \in Seq(Entry), NEW k, NEW value, Hit(k, value)
    PROVE  /\ cache' \in Seq(Entry)
           /\ Len(cache') <= Len(cache)
           /\ Entries' \subseteq Entries
           /\ \E e \in Entries : e.key = k /\ e.value = value
<1>1. PICK i \in Cached(k) : value = cache[i].value /\ cache' = Append(Without(k), cache[i])
  BY DEF Hit
<1>2. i \in 1..Len(cache) /\ cache[i].key = k /\ cache[i] \in Entry /\ cache[i] \in Entries
  BY <1>1 DEF Cached, Entries
<1>3. /\ Without(k) \in Seq(Entry)
      /\ Len(Without(k)) < Len(cache)
      /\ \A j \in 1..Len(Without(k)) : Without(k)[j] \in Entries
  BY <1>1, WithoutEntries
<1>4. /\ cache' \in Seq(Entry)
      /\ Len(cache') = Len(Without(k)) + 1
      /\ \A j \in 1..Len(cache') : cache'[j] \in Entries
  BY <1>1, <1>2, <1>3
<1>5. Entries' \subseteq Entries
  BY <1>4 DEF Entries
<1>6. \E e \in Entries : e.key = k /\ e.value = value
  BY <1>1, <1>2
<1>7. Len(cache') <= Len(cache)
  <2>1. Len(Without(k)) \in Nat /\ Len(cache) \in Nat
    BY <1>3
  <2> QED BY <1>3, <1>4, <2>1
<1> QED BY <1>4, <1>5, <1>6, <1>7

\* A miss brings no new entry.
LEMMA MissEntries ==
    ASSUME cache \in Seq(Entry), NEW k, Miss(k)
    PROVE  /\ cache' \in Seq(Entry)
           /\ Len(cache') <= Len(cache)
           /\ Entries' \subseteq Entries
<1>1. cache' = cache \/ cache' = Without(k)
  BY DEF Miss
<1> QED BY <1>1, WithoutEntries DEF Entries

\* set() adds one entry at most and keeps to the capacity.
LEMMA StoredEntries ==
    ASSUME cache \in Seq(Entry), Len(cache) <= MaxEntries,
           NEW k \in Key, NEW value \in Nat, cache' = Stored(k, value)
    PROVE  /\ cache' \in Seq(Entry)
           /\ Len(cache') <= MaxEntries
           /\ Entries' \subseteq Entries \cup {[key |-> k, value |-> value]}
<1> DEFINE e == [key |-> k, value |-> value]
           items == Append(Without(k), e)
           extra == IF Len(items) > MaxEntries THEN Len(items) - MaxEntries ELSE 0
<1>1. /\ Without(k) \in Seq(Entry)
      /\ Len(Without(k)) <= MaxEntries
      /\ \A j \in 1..Len(Without(k)) : Without(k)[j] \in Entries
  <2>1. /\ Without(k) \in Seq(Entry)
        /\ Len(Without(k)) <= Len(cache)
        /\ \A j \in 1..Len(Without(k)) : Without(k)[j] \in Entries
    BY WithoutEntries
  <2> QED BY <2>1, CacheAssumption
<1>2. e \in Entry
  BY DEF Entry
<1>3. /\ items \in Seq(Entry)
      /\ Len(items) = Len(Without(k)) + 1
      /\ \A j \in 1..Len(items) : items[j] \in Entries \cup {e}
  BY <1>1, <1>2
<1>4. cache' = IF CacheEnabled THEN SubSeq(items, extra + 1, Len(items)) ELSE cache
  BY DEF Stored
<1> HIDE DEF items, e
<1>5. CASE CacheEnabled
  <2>1. extra \in 0..1 /\ Len(items) - extra <= MaxEntries /\ extra <= Len(items)
    BY <1>1, <1>3, CacheAssumption
  <2>2. cache' = SubSeq(items, extra + 1, Len(items))
    BY <1>4, <1>5
  <2> HIDE DEF extra
  <2>3. /\ cache' \in Seq(Entry)
        /\ Len(cache') = Len(items) - extra
        /\ \A j \in 1..Len(cache') : cache'[j] = items[j + extra]
    BY <1>3, <2>1, <2>2, SMTT(30)
  <2>4. \A j \in 1..Len(cache') : cache'[j] \in Entries \cup {e}
    <3>1. ASSUME NEW j \in 1..Len(cache')
          PROVE  cache'[j] \in Entries \cup {e}
      <4>1. j + extra \in 1..Len(items)
        BY <1>3, <2>1, <2>3
      <4> QED BY <1>3, <2>3, <4>1
    <3> QED BY <3>1
  <2> QED BY <1>3, <2>1, <2>3, <2>4 DEF Entries, e
<1>6. CASE ~ CacheEnabled
  BY <1>4, <1>6 DEF Entries
<1> QED BY <1>5, <1>6

-----------------------------------------------------------------------------
(* Types                                                                    *)

\* Every register keeps its type and the cache its capacity, whatever fails.
THEOREM TypeCorrect == Spec => []TypeOK
<1>1. Init => TypeOK
  BY CacheAssumption DEF Init, TypeOK, Mode, Stage, Key
<1>2. TypeOK /\ [Next]_vars => TypeOK'
  <2> SUFFICES ASSUME TypeOK, [Next]_vars PROVE TypeOK'
    OBVIOUS
  <2> USE DEF TypeOK, Mode, Stage, queryVars, mutatorVars
  <2>1. ASSUME NEW q \in Caller, Ask(q) PROVE TypeOK'
    BY <2>1, NoneAssumption DEF Ask, Key
  <2>2. ASSUME NEW q \in Caller, AnswerFromCache(q) PROVE TypeOK'
    <3>1. PICK value \in 0..store : Hit(key[q], value) /\ answer' = [answer EXCEPT ![q] = value]
      BY <2>2 DEF AnswerFromCache
    <3>2. cache' \in Seq(Entry) /\ Len(cache') <= MaxEntries
      BY <3>1, HitEntries, CacheAssumption
    <3>3. /\ mode' = [mode EXCEPT ![q] = "idle"]
          /\ floor' = [floor EXCEPT ![q] = None]
          /\ result' = [result EXCEPT ![q] = None]
          /\ UNCHANGED <<inflight, abandoned, key, mutatorVars>>
      BY <2>2 DEF AnswerFromCache, Leave
    <3>4. value \in Nat
      BY <3>1
    <3>5. /\ \A r \in Caller : mode'[r] # "idle" => floor'[r] # None
          /\ \A r \in Caller : mode'[r] \in {"compose", "finish"} => result'[r] # None
      BY <3>3
    <3>6. answer' \in [Caller -> Nat \cup {None}]
      BY <3>1, <3>4
    <3> QED BY <3>2, <3>3, <3>5, <3>6
  <2>3. ASSUME NEW q \in Caller, ProbeMiss(q) PROVE TypeOK'
    <3>1. cache' \in Seq(Entry) /\ Len(cache') <= MaxEntries
      BY <2>3, MissEntries, CacheAssumption DEF ProbeMiss
    <3> QED BY <2>3, <3>1 DEF ProbeMiss
  <2>4. ASSUME NEW q \in Caller, Begin(q) PROVE TypeOK'
    BY <2>4 DEF Begin
  <2>5. ASSUME NEW q \in Caller, RecheckMiss(q) PROVE TypeOK'
    <3>1. cache' \in Seq(Entry) /\ Len(cache') <= MaxEntries
      BY <2>5, MissEntries, CacheAssumption DEF RecheckMiss
    <3> QED BY <2>5, <3>1 DEF RecheckMiss
  <2>6. ASSUME NEW q \in Caller, Retrieve(q) PROVE TypeOK'
    BY <2>6, NoneAssumption DEF Retrieve
  <2>7. ASSUME NEW q \in Caller, RetrieveFails(q) PROVE TypeOK'
    BY <2>7 DEF RetrieveFails, Release, Leave
  <2>8. ASSUME NEW q \in Caller, Compose(q) PROVE TypeOK'
    <3>1. key[q] \in Key /\ result[q] \in Nat /\ cache' = Stored(key[q], result[q])
      BY <2>8 DEF Compose
    <3>2. cache' \in Seq(Entry) /\ Len(cache') <= MaxEntries
      BY <3>1, StoredEntries
    <3>3. /\ mode' = [mode EXCEPT ![q] = "finish"] /\ mode[q] = "compose"
          /\ UNCHANGED <<inflight, abandoned, key, floor, result, answer, mutatorVars>>
      BY <2>8 DEF Compose
    <3>4. /\ \A r \in Caller : mode'[r] # "idle" => floor'[r] # None
          /\ \A r \in Caller : mode'[r] \in {"compose", "finish"} => result'[r] # None
      BY <3>3
    <3> QED BY <3>2, <3>3, <3>4
  <2>9. ASSUME NEW q \in Caller, ComposeFails(q) PROVE TypeOK'
    BY <2>9 DEF ComposeFails, Abandon, Leave
  <2>10. ASSUME NEW q \in Caller, Finish(q) PROVE TypeOK'
    BY <2>10 DEF Finish, Release, Leave
  <2>11. ASSUME NEW q \in Caller, Cancel(q) \/ CancelWait(q) PROVE TypeOK'
    BY <2>11 DEF Cancel, CancelWait, Abandon, Leave
  <2>12. ASSUME NEW m \in Mutator, MakeDurable(m) PROVE TypeOK'
    BY <2>12 DEF MakeDurable
  <2>13. ASSUME NEW m \in Mutator, MutationFails(m) \/ Repeat(m) PROVE TypeOK'
    BY <2>13 DEF MutationFails, Repeat
  <2>14. ASSUME NEW m \in Mutator, ReturnUnversioned(m) PROVE TypeOK'
    BY <2>14 DEF ReturnUnversioned
  <2>15. ASSUME NEW m \in Mutator, ReadVersion(m) PROVE TypeOK'
    BY <2>15 DEF ReadVersion
  <2>16. ASSUME NEW m \in Mutator, AdvanceVersion(m) PROVE TypeOK'
    BY <2>16 DEF AdvanceVersion, Acknowledged
  <2>17. CASE UNCHANGED vars
    BY <2>17 DEF vars
  <2> QED
    BY <2>1, <2>2, <2>3, <2>4, <2>5, <2>6, <2>7, <2>8, <2>9, <2>10, <2>11, <2>12, <2>13,
       <2>14, <2>15, <2>16, <2>17 DEF Next, QueryStep, MutatorStep
<1> QED
  BY <1>1, <1>2, PTL DEF Spec

-----------------------------------------------------------------------------
(* The waiters                                                              *)

\* A caller waits on an event that is registered, and whoever works on the key
\* will set it, but for a key that has been left without finish().
FlightInv ==
    /\ \A q \in Caller : mode[q] = "wait" => key[q] \in inflight
    /\ \A k \in inflight \ abandoned : \E r \in Caller : key[r] = k /\ mode[r] \in Working

\* Every step leaves each registered key to somebody who works on it, or marks
\* it as left.
LEMMA FlightInvNext ==
    ASSUME TypeOK, FlightInv, [Next]_vars
    PROVE  FlightInv'
<1> USE DEF Working
<1> DEFINE Kept == /\ inflight' = inflight /\ abandoned' = abandoned
                   /\ \A r \in Caller : mode[r] \in Working => mode'[r] \in Working /\ key'[r] = key[r]
                   /\ \A r \in Caller : mode'[r] = "wait" => mode[r] = "wait" /\ key'[r] = key[r]
<1>1. Kept => FlightInv'
  BY DEF FlightInv
<1>2. ASSUME NEW q \in Caller, Release(key[q], q), UNCHANGED key
      PROVE  FlightInv'
  <2>1. \A r \in Caller : mode'[r] = "wait" => mode[r] = "wait" /\ key[r] # key[q]
    BY <1>2 DEF Release, FlightInv
  <2>2. \A r \in Caller : mode[r] \in Working /\ key[r] # key[q] => mode'[r] \in Working
    BY <1>2 DEF Release
  <2> QED BY <1>2, <2>1, <2>2 DEF Release, FlightInv
<1> USE DEF TypeOK
<1>3. ASSUME NEW q \in Caller, Ask(q) PROVE FlightInv'
  BY <1>1, <1>3 DEF Ask
<1>4. ASSUME NEW q \in Caller, AnswerFromCache(q) PROVE FlightInv'
  BY <1>1, <1>4 DEF AnswerFromCache
<1>5. ASSUME NEW q \in Caller, ProbeMiss(q) PROVE FlightInv'
  BY <1>1, <1>5 DEF ProbeMiss
<1>6. ASSUME NEW q \in Caller, Begin(q) PROVE FlightInv'
  <2>1. \A r \in Caller : mode'[r] = "wait" => key[r] \in inflight'
    BY <1>6 DEF Begin, FlightInv
  <2>2. \A r \in Caller : mode[r] \in Working => mode'[r] \in Working
    BY <1>6 DEF Begin
  <2>3. \A k \in inflight \ abandoned : \E r \in Caller : key[r] = k /\ mode'[r] \in Working
    BY <2>2 DEF FlightInv
  <2>4. key[q] \notin inflight => mode'[q] \in Working
    BY <1>6 DEF Begin
  <2> QED BY <1>6, <2>1, <2>3, <2>4 DEF Begin, FlightInv
<1>7. ASSUME NEW q \in Caller, RecheckMiss(q) PROVE FlightInv'
  BY <1>1, <1>7 DEF RecheckMiss
<1>8. ASSUME NEW q \in Caller, Retrieve(q) PROVE FlightInv'
  BY <1>1, <1>8 DEF Retrieve
<1>9. ASSUME NEW q \in Caller, RetrieveFails(q) PROVE FlightInv'
  BY <1>2, <1>9 DEF RetrieveFails
<1>10. ASSUME NEW q \in Caller, Compose(q) PROVE FlightInv'
  BY <1>1, <1>10 DEF Compose
<1>11. ASSUME NEW q \in Caller, Finish(q) PROVE FlightInv'
  BY <1>2, <1>11 DEF Finish
<1>12. ASSUME NEW q \in Caller, ComposeFails(q) \/ Cancel(q) PROVE FlightInv'
  <2>1. /\ inflight' = inflight /\ key' = key
        /\ abandoned' = abandoned \cup ({key[q]} \cap inflight)
        /\ mode' = [mode EXCEPT ![q] = "idle"]
    BY <1>12 DEF ComposeFails, Cancel, Abandon
  <2>2. \A r \in Caller : mode'[r] = "wait" => mode[r] = "wait"
    BY <2>1
  <2>3. ASSUME NEW k \in inflight' \ abandoned'
        PROVE  \E r \in Caller : key'[r] = k /\ mode'[r] \in Working
    <3>1. k \in inflight \ abandoned /\ k # key[q]
      BY <2>1, <2>3
    <3>2. PICK r \in Caller : key[r] = k /\ mode[r] \in Working
      BY <3>1 DEF FlightInv
    <3> QED BY <2>1, <3>1, <3>2
  <2> QED BY <2>1, <2>2, <2>3 DEF FlightInv
<1>13. ASSUME NEW q \in Caller, CancelWait(q) PROVE FlightInv'
  BY <1>1, <1>13 DEF CancelWait
<1>14. ASSUME UNCHANGED queryVars PROVE FlightInv'
  BY <1>14 DEF queryVars, FlightInv
<1> QED
  BY <1>3, <1>4, <1>5, <1>6, <1>7, <1>8, <1>9, <1>10, <1>11, <1>12, <1>13, <1>14
     DEF Next, QueryStep, MutatorStep, vars, MakeDurable, Repeat, MutationFails, ReturnUnversioned,
         ReadVersion, AdvanceVersion

\* Whoever waits has somebody on the way to finish() for the key, or the key has
\* been left by a call that raised outside the try or was cancelled at its
\* retrieval; whatever fails, for any number of callers and questions.
THEOREM WaiterHasFinisherCorrect == Spec => []WaiterHasFinisher
<1>1. Init => FlightInv
  BY DEF Init, FlightInv
<1>2. TypeOK /\ FlightInv /\ [Next]_vars => FlightInv'
  BY FlightInvNext
<1>3. FlightInv => WaiterHasFinisher
  BY DEF FlightInv, WaiterHasFinisher, Working
<1> QED
  BY <1>1, <1>2, <1>3, TypeCorrect, PTL DEF Spec

-----------------------------------------------------------------------------
(* Freshness                                                                *)

\* The facade is mutated by one thread.
OneMutator == \A m, n \in Mutator : m = n

Ready == {"compose", "finish"}      \* the context of the caller is computed

\* What every version bounds.
VersionInv ==
    /\ acked <= published /\ published <= store
    /\ \A m \in Mutator : change[m] <= store
    /\ \A m \in Mutator : stage[m] = "advancing" => seen[m] = version
    /\ \A q \in Caller : mode[q] = "idle" => floor[q] = None
    /\ \A q \in Caller : mode[q] # "idle" => key[q][2] <= version /\ floor[q] <= acked
    /\ \A q \in Caller : mode[q] \in Ready => result[q] <= store
    /\ \A e \in Entries : e.key[2] <= version /\ e.value <= store

\* The current version stands for all that was durable when it was made.
Current ==
    /\ \A e \in Entries : e.key[2] = version => published <= e.value
    /\ \A q \in Caller : mode[q] \in Ready /\ key[q][2] = version => published <= result[q]

\* A question is answered by what shares its version.
SameVersion ==
    \A q \in Caller : mode[q] # "idle" =>
        /\ \A e \in Entries : e.key[2] = key[q][2] => floor[q] <= e.value
        /\ \A r \in Caller : mode[r] \in Ready /\ key[r][2] = key[q][2] => floor[q] <= result[r]

FreshInv == VersionInv /\ Current /\ SameVersion

\* A caller that computes nothing and a cache that gains nothing break nothing.
LEMMA FreshInvKept ==
    ASSUME TypeOK, FreshInv, NEW q \in Caller,
           Entries' \subseteq Entries,
           UNCHANGED <<store, acked, version, published, stage, change, seen, key>>,
           \A r \in Caller \ {q} :
               /\ floor'[r] = floor[r] /\ result'[r] = result[r]
               /\ (mode'[r] = "idle") = (mode[r] = "idle")
               /\ mode'[r] \in Ready => mode[r] \in Ready,
           \/ mode'[q] = "idle" /\ floor'[q] = None
           \/ /\ floor'[q] = floor[q] /\ result'[q] = result[q]
              /\ mode[q] # "idle" /\ mode'[q] # "idle"
              /\ mode'[q] \in Ready => mode[q] \in Ready
    PROVE  FreshInv'
<1> DEFINE Same(r) == /\ mode[r] # "idle" /\ key'[r] = key[r] /\ floor'[r] = floor[r]
                      /\ mode'[r] \in Ready => mode[r] \in Ready /\ result'[r] = result[r]
<1>1. \A r \in Caller : mode'[r] # "idle" => Same(r)
  OBVIOUS
<1>2. \A r \in Caller : mode'[r] = "idle" => floor'[r] = None
  BY DEF FreshInv, VersionInv
<1>3. \A r \in Caller : mode'[r] \in Ready => mode'[r] # "idle"
  BY DEF Ready
<1> HIDE DEF Same
<1>4. VersionInv'
  BY <1>1, <1>2, <1>3 DEF FreshInv, VersionInv, Same
<1>5. Current'
  BY <1>1, <1>3 DEF FreshInv, Current, Same
<1>6. SameVersion'
  BY <1>1, <1>3 DEF FreshInv, SameVersion, Same
<1> QED BY <1>4, <1>5, <1>6 DEF FreshInv

\* Every step of the facade keeps the versions honest.
LEMMA FreshInvNext ==
    ASSUME OneMutator, TypeOK, TypeOK', FreshInv, [Next]_vars
    PROVE  FreshInv'
<1> USE DEF TypeOK, mutatorVars
<1>1. ASSUME NEW q \in Caller, Ask(q) PROVE FreshInv'
  <2>1. /\ mode[q] = "idle" /\ mode' = [mode EXCEPT ![q] = "probe"]
        /\ floor' = [floor EXCEPT ![q] = acked]
        /\ key'[q][2] = version
        /\ \A r \in Caller \ {q} : key'[r] = key[r]
        /\ UNCHANGED <<cache, result, store, acked, version, published, stage, change, seen>>
    BY <1>1 DEF Ask, Key
  <2>2. Entries' = Entries
    BY <2>1 DEF Entries
  <2>3. VersionInv'
    BY <2>1, <2>2 DEF FreshInv, VersionInv, Ready
  <2>4. Current'
    BY <2>1, <2>2 DEF FreshInv, Current, Ready
  <2>5. \A e \in Entries : e.key[2] = version => acked <= e.value
    <3>1. \A e \in Entries : e.value \in Nat
      <4>1. \A i \in 1..Len(cache) : cache[i] \in Entry
        OBVIOUS
      <4> QED BY <4>1 DEF Entries, Entry
    <3> QED BY <3>1 DEF FreshInv, Current, VersionInv
  <2>6. \A r \in Caller : mode'[r] \in Ready => mode[r] \in Ready /\ key'[r] = key[r] /\ result'[r] = result[r]
    BY <2>1 DEF Ready
  <2>7. \A r \in Caller : mode[r] \in Ready /\ key[r][2] = version => acked <= result[r]
    <3>1. \A r \in Caller : mode[r] \in Ready => result[r] \in Nat
      BY NoneAssumption DEF Ready
    <3> QED BY <3>1 DEF FreshInv, Current, VersionInv
  <2>8. SameVersion'
    <3>1. ASSUME NEW r \in Caller \ {q}, mode'[r] # "idle"
          PROVE  mode[r] # "idle" /\ floor'[r] = floor[r] /\ key'[r] = key[r]
      BY <2>1, <3>1
    <3>2. floor'[q] = acked
      BY <2>1
    <3> QED BY <2>1, <2>2, <2>5, <2>6, <2>7, <3>1, <3>2 DEF FreshInv, SameVersion
  <2> QED BY <2>3, <2>4, <2>8 DEF FreshInv
<1>2. ASSUME NEW q \in Caller, AnswerFromCache(q) PROVE FreshInv'
  <2>1. PICK value \in 0..store : Hit(key[q], value)
    BY <1>2 DEF AnswerFromCache
  <2>2. Entries' \subseteq Entries
    BY <2>1, HitEntries
  <2> QED BY <1>2, <2>2, FreshInvKept DEF AnswerFromCache, Leave
<1>3. ASSUME NEW q \in Caller, ProbeMiss(q) \/ RecheckMiss(q) PROVE FreshInv'
  <2>1. Entries' \subseteq Entries
    BY <1>3, MissEntries DEF ProbeMiss, RecheckMiss
  <2> QED BY <1>3, <2>1, FreshInvKept DEF ProbeMiss, RecheckMiss, Ready
<1>4. ASSUME NEW q \in Caller, Begin(q) PROVE FreshInv'
  <2>1. Entries' \subseteq Entries
    BY <1>4 DEF Begin, Entries
  <2> QED BY <1>4, <2>1, FreshInvKept DEF Begin, Ready
<1>5. ASSUME NEW q \in Caller, Retrieve(q) PROVE FreshInv'
  <2>1. /\ mode[q] = "retrieve" /\ mode' = [mode EXCEPT ![q] = "compose"]
        /\ result' = [result EXCEPT ![q] = store]
        /\ UNCHANGED <<cache, key, floor, store, acked, version, published, stage, change, seen>>
    BY <1>5 DEF Retrieve
  <2>2. Entries' = Entries
    BY <2>1 DEF Entries
  <2>3. \A r \in Caller : mode[r] # "idle" => floor[r] <= store
    BY NoneAssumption DEF FreshInv, VersionInv
  <2>4. \A r \in Caller \ {q} : mode'[r] = mode[r] /\ result'[r] = result[r]
    BY <2>1
  <2>5. result'[q] = store /\ mode'[q] # "idle"
    BY <2>1
  <2>6. VersionInv'
    BY <2>1, <2>2, <2>4, <2>5 DEF FreshInv, VersionInv
  <2>7. Current'
    BY <2>1, <2>2, <2>4, <2>5 DEF FreshInv, Current, VersionInv
  <2>8. SameVersion'
    <3>1. ASSUME NEW r \in Caller, mode'[r] # "idle"
          PROVE  mode[r] # "idle" /\ floor'[r] = floor[r] /\ key'[r] = key[r]
      BY <2>1, <2>4, <3>1
    <3> QED BY <2>1, <2>2, <2>3, <2>4, <2>5, <3>1 DEF FreshInv, SameVersion
  <2> QED BY <2>6, <2>7, <2>8 DEF FreshInv
<1>6. ASSUME NEW q \in Caller, RetrieveFails(q) PROVE FreshInv'
  <2>1. Entries' \subseteq Entries
    BY <1>6 DEF RetrieveFails, Entries
  <2>2. \A r \in Caller \ {q} : mode'[r] = mode[r] \/ (mode[r] = "wait" /\ mode'[r] = "recheck")
    BY <1>6 DEF RetrieveFails, Release
  <2> QED BY <1>6, <2>1, <2>2, FreshInvKept DEF RetrieveFails, Release, Leave, Ready
<1>7. ASSUME NEW q \in Caller, Compose(q) PROVE FreshInv'
  <2> DEFINE e == [key |-> key[q], value |-> result[q]]
  <2>1. /\ mode[q] = "compose" /\ mode' = [mode EXCEPT ![q] = "finish"]
        /\ cache' = Stored(key[q], result[q])
        /\ UNCHANGED <<key, floor, result, store, acked, version, published, stage, change, seen>>
    BY <1>7 DEF Compose
  <2>2. key[q] \in Key /\ result[q] \in Nat
    BY <2>1
  <2>3. Entries' \subseteq Entries \cup {e}
    BY <2>1, <2>2, StoredEntries
  <2>4. \A r \in Caller : /\ mode'[r] \in Ready <=> mode[r] \in Ready
                         /\ mode'[r] = "idle" <=> mode[r] = "idle"
    BY <2>1 DEF Ready
  <2>5. mode[q] \in Ready /\ mode[q] # "idle"
    BY <2>1 DEF Ready
  <2>6. e.key = key[q] /\ e.value = result[q]
    OBVIOUS
  <2> HIDE DEF e
  <2>7. VersionInv'
    BY <2>1, <2>3, <2>4, <2>5, <2>6 DEF FreshInv, VersionInv
  <2>8. Current'
    BY <2>1, <2>3, <2>4, <2>5, <2>6 DEF FreshInv, Current
  <2>9. SameVersion'
    BY <2>1, <2>3, <2>4, <2>5, <2>6 DEF FreshInv, SameVersion
  <2> QED BY <2>7, <2>8, <2>9 DEF FreshInv
<1>8. ASSUME NEW q \in Caller, ComposeFails(q) \/ Cancel(q) \/ CancelWait(q) PROVE FreshInv'
  <2>1. Entries' \subseteq Entries
    BY <1>8 DEF ComposeFails, Cancel, CancelWait, Abandon, Entries
  <2> QED BY <1>8, <2>1, FreshInvKept DEF ComposeFails, Cancel, CancelWait, Abandon, Leave
<1>9. ASSUME NEW q \in Caller, Finish(q) PROVE FreshInv'
  <2>1. Entries' \subseteq Entries
    BY <1>9 DEF Finish, Entries
  <2>2. \A r \in Caller \ {q} : mode'[r] = mode[r] \/ (mode[r] = "wait" /\ mode'[r] = "recheck")
    BY <1>9 DEF Finish, Release
  <2> QED BY <1>9, <2>1, <2>2, FreshInvKept DEF Finish, Release, Leave, Ready
<1>10. ASSUME NEW m \in Mutator, MakeDurable(m) PROVE FreshInv'
  <2>1. Entries' = Entries
    BY <1>10 DEF MakeDurable, queryVars, Entries
  <2>2. /\ store' = store + 1
        /\ change' = [change EXCEPT ![m] = store + 1]
        /\ stage' = [stage EXCEPT ![m] = "durable"]
        /\ UNCHANGED <<acked, version, published, seen, mode, key, floor, result>>
    BY <1>10 DEF MakeDurable, queryVars
  <2>3. \A e \in Entries : e.value \in Nat
    <3>1. \A i \in 1..Len(cache) : cache[i] \in Entry
      OBVIOUS
    <3> QED BY <3>1 DEF Entries, Entry
  <2>4. \A q \in Caller : mode[q] \in Ready => result[q] \in Nat
    BY NoneAssumption DEF Ready
  <2>5. VersionInv'
    BY <2>1, <2>2, <2>3, <2>4 DEF FreshInv, VersionInv
  <2>6. Current' /\ SameVersion'
    BY <2>1, <2>2 DEF FreshInv, Current, SameVersion
  <2> QED BY <2>5, <2>6 DEF FreshInv
<1>11. ASSUME NEW m \in Mutator, MutationFails(m) \/ Repeat(m) \/ ReturnUnversioned(m) \/ ReadVersion(m) PROVE FreshInv'
  <2>1. Entries' = Entries
    BY <1>11 DEF MutationFails, Repeat, ReturnUnversioned, ReadVersion, queryVars, Entries
  <2>2. /\ \A n \in Mutator : stage'[n] = "advancing" => seen'[n] = version
        /\ UNCHANGED <<store, acked, version, published, change, mode, key, floor, result>>
    BY <1>11 DEF MutationFails, Repeat, ReturnUnversioned, ReadVersion, queryVars, FreshInv, VersionInv
  <2>3. VersionInv'
    BY <2>1, <2>2 DEF FreshInv, VersionInv
  <2>4. Current' /\ SameVersion'
    BY <2>1, <2>2 DEF FreshInv, Current, SameVersion
  <2> QED BY <2>3, <2>4 DEF FreshInv
<1>12. ASSUME NEW m \in Mutator, AdvanceVersion(m) PROVE FreshInv'
  <2>1. Entries' = Entries
    BY <1>12 DEF AdvanceVersion, queryVars, Entries
  <2>2. version' = version + 1
    BY <1>12 DEF AdvanceVersion, FreshInv, VersionInv
  <2>3. acked <= acked' /\ acked' <= store /\ published' = store
    BY <1>12 DEF AdvanceVersion, Acknowledged, FreshInv, VersionInv
  <2>4. \A n \in Mutator : stage'[n] # "advancing"
    BY <1>12 DEF AdvanceVersion, OneMutator
  <2>5. UNCHANGED <<store, change, mode, key, floor, result>>
    BY <1>12 DEF AdvanceVersion, queryVars
  <2>6. \A q \in Caller : mode[q] # "idle" => key[q][2] \in Nat /\ key[q][2] <= version /\ floor[q] \in Nat /\ floor[q] <= acked
    BY NoneAssumption DEF FreshInv, VersionInv, Key
  <2>7. \A e \in Entries : e.key[2] \in Nat /\ e.key[2] <= version
    <3>1. \A i \in 1..Len(cache) : cache[i] \in Entry
      OBVIOUS
    <3>2. \A i \in 1..Len(cache) : cache[i].key[2] \in Nat
      BY <3>1 DEF Entry, Key
    <3>3. \A e \in Entries : e.key[2] \in Nat
      BY <3>2 DEF Entries
    <3> QED BY <3>3 DEF FreshInv, VersionInv
  <2>8. VersionInv'
    <3>1. version \in Nat /\ acked \in Nat /\ acked' \in Nat
      OBVIOUS
    <3>2. \A q \in Caller : mode'[q] # "idle" => key'[q][2] <= version' /\ floor'[q] <= acked'
      BY <2>2, <2>3, <2>5, <2>6, <3>1
    <3>3. \A e \in Entries' : e.key[2] <= version' /\ e.value <= store'
      BY <2>1, <2>2, <2>5, <2>7, <3>1 DEF FreshInv, VersionInv
    <3> QED BY <2>3, <2>4, <2>5, <3>2, <3>3 DEF FreshInv, VersionInv
  <2>9. Current'
    <3>1. \A q \in Caller : mode'[q] \in Ready => mode[q] # "idle"
      BY <2>5 DEF Ready
    <3> QED BY <2>1, <2>2, <2>5, <2>6, <2>7, <3>1 DEF Current
  <2>10. SameVersion'
    BY <2>1, <2>5 DEF FreshInv, SameVersion
  <2> QED BY <2>8, <2>9, <2>10 DEF FreshInv
<1>13. CASE UNCHANGED vars
  <2>1. Entries' = Entries
    BY <1>13 DEF vars, queryVars, Entries
  <2> QED BY <1>13, <2>1 DEF vars, queryVars, FreshInv, VersionInv, Current, SameVersion
<1> QED
  BY <1>1, <1>2, <1>3, <1>4, <1>5, <1>6, <1>7, <1>8, <1>9, <1>10, <1>11, <1>12, <1>13
     DEF Next, QueryStep, MutatorStep

\* Every step of the facade is a step of FreshReads, or none.
LEMMA FreshStep ==
    ASSUME TypeOK, FreshInv, [Next]_vars
    PROVE  [Fresh!Next]_(Fresh!absVars)
<1> USE DEF TypeOK, mutatorVars, Fresh!absVars
<1>1. ASSUME NEW q \in Caller, Ask(q) PROVE Fresh!Next
  BY <1>1 DEF Ask, FreshInv, VersionInv, Fresh!Next, Fresh!Ask
<1>2. ASSUME NEW q \in Caller, AnswerFromCache(q) PROVE Fresh!Next
  <2>1. PICK value \in 0..store : Hit(key[q], value) /\ answer' = [answer EXCEPT ![q] = value]
    BY <1>2 DEF AnswerFromCache
  <2>2. PICK e \in Entries : e.key = key[q] /\ e.value = value
    BY <2>1, HitEntries
  <2>3. floor[q] # None /\ floor[q] \in Nat /\ floor[q] <= value
    BY <1>2, <2>2 DEF AnswerFromCache, FreshInv, SameVersion
  <2>4. value \in floor[q]..store
    BY <2>1, <2>3
  <2>5. floor' = [floor EXCEPT ![q] = None] /\ UNCHANGED <<store, acked>>
    BY <1>2 DEF AnswerFromCache, Leave
  <2> QED BY <2>1, <2>3, <2>4, <2>5 DEF Fresh!Next, Fresh!Answer
<1>3. ASSUME NEW q \in Caller, Finish(q) PROVE Fresh!Next
  <2>1. /\ mode[q] = "finish" /\ answer' = [answer EXCEPT ![q] = result[q]]
        /\ floor' = [floor EXCEPT ![q] = None] /\ UNCHANGED <<store, acked>>
    BY <1>3 DEF Finish, Leave
  <2>2. floor[q] # None /\ floor[q] \in Nat /\ result[q] \in Nat
    BY <2>1
  <2>3. floor[q] <= result[q] /\ result[q] <= store
    BY <2>1 DEF FreshInv, SameVersion, VersionInv, Ready
  <2>4. result[q] \in floor[q]..store
    BY <2>2, <2>3
  <2> QED BY <2>1, <2>2, <2>4 DEF Fresh!Next, Fresh!Answer
<1>4. ASSUME NEW q \in Caller, RetrieveFails(q) \/ ComposeFails(q) \/ Cancel(q) \/ CancelWait(q) PROVE Fresh!Next
  <2>1. /\ floor[q] # None /\ floor' = [floor EXCEPT ![q] = None]
        /\ UNCHANGED <<store, acked, answer>>
    BY <1>4 DEF RetrieveFails, ComposeFails, Cancel, CancelWait, Abandon, Leave
  <2> QED BY <2>1 DEF Fresh!Next, Fresh!GiveUp
<1>5. ASSUME NEW q \in Caller,
             ProbeMiss(q) \/ Begin(q) \/ RecheckMiss(q) \/ Retrieve(q) \/ Compose(q)
      PROVE  UNCHANGED <<store, acked, floor, answer>>
  BY <1>5 DEF ProbeMiss, Begin, RecheckMiss, Retrieve, Compose
<1>6. ASSUME NEW m \in Mutator, MakeDurable(m) PROVE Fresh!Next
  BY <1>6 DEF MakeDurable, queryVars, Fresh!Next, Fresh!Change
<1>7. ASSUME NEW m \in Mutator, AdvanceVersion(m) PROVE Fresh!Next
  <2>1. acked' \in acked..store /\ UNCHANGED <<store, floor, answer>>
    BY <1>7 DEF AdvanceVersion, Acknowledged, queryVars, FreshInv, VersionInv
  <2> QED BY <2>1 DEF Fresh!Next, Fresh!Acknowledge
<1>8. ASSUME NEW m \in Mutator,
             MutationFails(m) \/ Repeat(m) \/ ReturnUnversioned(m) \/ ReadVersion(m)
      PROVE  UNCHANGED <<store, acked, floor, answer>>
  BY <1>8 DEF MutationFails, Repeat, ReturnUnversioned, ReadVersion, queryVars
<1>9. CASE UNCHANGED vars
  BY <1>9 DEF vars, queryVars
<1> QED
  BY <1>1, <1>2, <1>3, <1>4, <1>5, <1>6, <1>7, <1>8, <1>9 DEF Next, QueryStep, MutatorStep

\* Before the first question nothing is stored and nothing durable.
LEMMA FreshInvInit == Init => FreshInv
<1> SUFFICES ASSUME Init PROVE FreshInv
  OBVIOUS
<1>1. Entries = {}
  BY DEF Init, Entries
<1> QED BY <1>1 DEF Init, FreshInv, VersionInv, Current, SameVersion, Ready

\* With one mutating thread no answer misses a change that had returned with a
\* new version, however the calls interleave, whichever entries are evicted or
\* expire and wherever a query or a mutation fails.
THEOREM AnswersAreFreshCorrect ==
    ASSUME OneMutator
    PROVE  Spec => AnswersAreFresh
<1>1. Init => FreshInv /\ Fresh!Init
  BY FreshInvInit DEF Init, Fresh!Init
<1>2. TypeOK /\ TypeOK' /\ FreshInv /\ [Next]_vars => FreshInv'
  BY FreshInvNext
<1>3. TypeOK /\ FreshInv /\ [Next]_vars => [Fresh!Next]_(Fresh!absVars)
  BY FreshStep
<1> QED
  BY <1>1, <1>2, <1>3, TypeCorrect, PTL DEF Spec, AnswersAreFresh, Fresh!Spec

-----------------------------------------------------------------------------
(* The cache                                                                *)

\* With one mutating thread, no entry of the current version is behind what was
\* durable when that version was made, although mutations fail half done or
\* return without a version and their changes are in no version of their own.
THEOREM CacheIsCurrentCorrect ==
    ASSUME OneMutator
    PROVE  Spec => []CacheIsCurrent
<1>1. Init => FreshInv
  BY FreshInvInit
<1>2. TypeOK /\ TypeOK' /\ FreshInv /\ [Next]_vars => FreshInv'
  BY FreshInvNext
<1>3. TypeOK /\ FreshInv => CacheIsCurrent
  <2> SUFFICES ASSUME TypeOK, FreshInv PROVE CacheIsCurrent
    OBVIOUS
  <2>1. ASSUME NEW i \in 1..Len(cache), cache[i].key[2] = version
        PROVE  cache[i].value \in published..store
    <3>1. cache[i] \in Entries /\ cache[i] \in Entry
      BY DEF Entries, TypeOK
    <3>2. published <= cache[i].value /\ cache[i].value <= store
      BY <2>1, <3>1 DEF FreshInv, Current, VersionInv
    <3> QED BY <3>1, <3>2 DEF TypeOK, Entry
  <2> QED BY <2>1 DEF CacheIsCurrent, FreshInv, VersionInv
<1> QED
  BY <1>1, <1>2, <1>3, TypeCorrect, PTL DEF Spec

-----------------------------------------------------------------------------
(* Recall: recursion over finite sets, and folds                            *)

\* A family of subsets of a finite set that has the empty set, and each set
\* whose rest without some element it has, has the whole set.
LEMMA SubsetFamily ==
  ASSUME NEW S, IsFiniteSet(S), NEW T, {} \in T,
         \A U \in SUBSET S : U # {} => \E x \in U : U \ {x} \in T => U \in T
  PROVE  S \in T
<1> DEFINE F == (SUBSET S) \ T
<1>1. SUFFICES ASSUME S \notin T PROVE FALSE
  OBVIOUS
<1>2. F \subseteq FiniteSubsetsOf(S) /\ F # {}
  <2>1. \A U \in SUBSET S : IsFiniteSet(U)
    BY FS_Subset
  <2> QED BY <1>1, <2>1 DEF FiniteSubsetsOf
<1>3. PICK U \in F : \A V \in F : <<V, U>> \notin StrictSubsetOrdering(S)
  <2> HIDE DEF F
  <2> QED BY <1>2, FS_StrictSubsetOrderingWellFounded, WFMin
<1>4. PICK x \in U : U \ {x} \in T => U \in T
  <2>1. U \in SUBSET S /\ U # {}
    OBVIOUS
  <2> QED BY <2>1
<1>5. U \ {x} \in F /\ U \ {x} \subseteq U /\ U \ {x} # U /\ U \subseteq S
  BY <1>4
<1> QED BY <1>3, <1>5 DEF StrictSubsetOrdering

\* What holds of zero, and of a number when it holds of the one before, holds of
\* every number.
LEMMA NumberFamily ==
  ASSUME NEW P, 0 \in P, \A i \in Nat : i \in P => i + 1 \in P
  PROVE  Nat \subseteq P
<1>1. SUFFICES ASSUME NEW n \in Nat PROVE n \in P
  OBVIOUS
<1> DEFINE T == {U \in SUBSET (1..n) : Cardinality(U) \in P}
<1>2. IsFiniteSet(1..n) /\ Cardinality(1..n) = n
  BY FS_Interval
<1>3. {} \in T
  BY FS_EmptySet
<1>4. \A U \in SUBSET (1..n) : U # {} => \E x \in U : U \ {x} \in T => U \in T
  <2> TAKE U \in SUBSET (1..n)
  <2> HAVE U # {}
  <2>1. PICK x : x \in U
    OBVIOUS
  <2>2. IsFiniteSet(U) /\ IsFiniteSet(U \ {x})
    BY <1>2, FS_Subset
  <2>3. Cardinality(U \ {x}) = Cardinality(U) - 1 /\ Cardinality(U) \in Nat /\ Cardinality(U \ {x}) \in Nat
    BY <2>1, <2>2, FS_RemoveElement, FS_CardinalityType
  <2>4. Cardinality(U \ {x}) \in P => Cardinality(U \ {x}) + 1 \in P
    BY <2>3
  <2>5. Cardinality(U \ {x}) + 1 = Cardinality(U)
    BY <2>3
  <2> QED BY <2>1, <2>4, <2>5
<1>5. 1..n \in T
  <2> HIDE DEF T
  <2> QED BY <1>2, <1>3, <1>4, SubsetFamily
<1> QED BY <1>2, <1>5

\* A finite set of numbers that is not empty has a largest and a smallest one.
LEMMA MaxFacts ==
  ASSUME NEW S \in SUBSET Int, IsFiniteSet(S), S # {}
  PROVE  Max(S) \in S /\ \A x \in S : Max(S) >= x
<1> DEFINE Has(U) == U = {} \/ \E x \in U : \A y \in U : x >= y
           T == {U \in SUBSET S : Has(U)}
<1>1. {} \in T
  OBVIOUS
<1>2. \A U \in SUBSET S : U # {} => \E x \in U : U \ {x} \in T => U \in T
  <2> TAKE U \in SUBSET S
  <2> HAVE U # {}
  <2>1. PICK x : x \in U
    OBVIOUS
  <2>2. ASSUME Has(U \ {x}) PROVE Has(U)
    <3>1. CASE U \ {x} = {}
      <4>1. x \in Int /\ \A y \in U : y = x
        BY <2>1, <3>1
      <4>2. \A y \in U : x >= y
        BY <4>1
      <4> QED BY <2>1, <4>2
    <3>2. CASE U \ {x} # {}
      <4>1. PICK z \in U \ {x} : \A y \in U \ {x} : z >= y
        BY <2>2, <3>2
      <4>2. x \in Int /\ z \in Int /\ \A y \in U : y \in Int /\ (y = x \/ z >= y)
        BY <2>1, <4>1
      <4>3. CASE x >= z
        <5>1. \A y \in U : x >= y
          BY <4>2, <4>3
        <5> QED BY <2>1, <5>1
      <4>4. CASE ~(x >= z)
        <5>1. \A y \in U : z >= y
          BY <4>2, <4>4
        <5> QED BY <4>1, <5>1
      <4> QED BY <4>3, <4>4
    <3> QED BY <3>1, <3>2
  <2> HIDE DEF Has
  <2> QED BY <2>1, <2>2
<1>3. S \in T
  <2> HIDE DEF T
  <2> QED BY <1>1, <1>2, SubsetFamily
<1>4. \E x \in S : \A y \in S : x >= y
  BY <1>3
<1> QED BY <1>4 DEF Max

\* Min() likewise.
LEMMA MinFacts ==
  ASSUME NEW S \in SUBSET Int, IsFiniteSet(S), S # {}
  PROVE  Min(S) \in S /\ \A x \in S : x >= Min(S)
<1> DEFINE N == {-x : x \in S}
           f == [x \in S |-> -x]
<1>1. f \in Surjection(S, N)
  BY DEF Surjection
<1>2. IsFiniteSet(N) /\ N \in SUBSET Int /\ N # {}
  <2>1. IsFiniteSet(N)
    <3> HIDE DEF N, f
    <3> QED BY <1>1, FS_Surjection
  <2>2. \A x \in S : -x \in Int
    OBVIOUS
  <2>3. N \in SUBSET Int
    BY <2>2
  <2>4. N # {}
    OBVIOUS
  <2> QED BY <2>1, <2>3, <2>4
<1>3. Max(N) \in N /\ \A x \in N : Max(N) >= x
  <2> HIDE DEF N
  <2> QED BY <1>2, MaxFacts
<1>4. PICK x \in S : Max(N) = -x
  BY <1>3
<1>5. \A y \in S : y >= x
  <2> TAKE y \in S
  <2>1. -y \in N /\ x \in Int /\ y \in Int
    OBVIOUS
  <2>2. -x >= -y
    <3> HIDE DEF N
    <3> QED BY <1>3, <1>4, <2>1
  <2> QED BY <2>1, <2>2
<1>6. \A y \in S : x <= y
  BY <1>5
<1> QED BY <1>6 DEF Min

\* c names an element of each subset of S; g is defined by recursion over them.
Chooses(c, S) == DOMAIN c = SUBSET S /\ \A U \in SUBSET S : U # {} => c[U] \in U
Recurs(g, S, base, c, G) == \A U \in SUBSET S : g[U] = IF U = {} THEN base ELSE G[<<c[U], g[U \ {c[U]}]>>]

\* A function defined by recursion over the subsets of a finite set exists.
LEMMA RecursionExists ==
  ASSUME NEW S, IsFiniteSet(S), NEW W, NEW base \in W, NEW c, Chooses(c, S),
         NEW G \in [S \X W -> W]
  PROVE  \E g \in [SUBSET S -> W] : Recurs(g, S, base, c, G)
<1> DEFINE Has(i) == \E g \in [SUBSET S -> W] : \A U \in SUBSET S : Cardinality(U) <= i =>
                         g[U] = IF U = {} THEN base ELSE G[<<c[U], g[U \ {c[U]}]>>]
           P == {i \in Nat : Has(i)}
<1>1. \A U \in SUBSET S : IsFiniteSet(U) /\ Cardinality(U) \in Nat
  BY FS_Subset, FS_CardinalityType
<1>2. \A U \in SUBSET S : U # {} => c[U] \in U
  BY DEF Chooses
<1>3. 0 \in P
  <2> DEFINE g == [U \in SUBSET S |-> base]
  <2>1. g \in [SUBSET S -> W]
    OBVIOUS
  <2>2. ASSUME NEW U \in SUBSET S, Cardinality(U) <= 0
        PROVE  U = {}
    <3>1. Cardinality(U) = 0
      BY <1>1, <2>2
    <3> QED BY <1>1, <3>1, FS_EmptySet
  <2>3. \A U \in SUBSET S : Cardinality(U) <= 0 => g[U] = IF U = {} THEN base ELSE G[<<c[U], g[U \ {c[U]}]>>]
    BY <2>2
  <2> HIDE DEF g
  <2> QED BY <2>1, <2>3
<1>4. \A i \in Nat : i \in P => i + 1 \in P
  <2> TAKE i \in Nat
  <2> HAVE i \in P
  <2>1. PICK g \in [SUBSET S -> W] : \A U \in SUBSET S : Cardinality(U) <= i =>
                g[U] = IF U = {} THEN base ELSE G[<<c[U], g[U \ {c[U]}]>>]
    OBVIOUS
  <2> DEFINE h == [U \in SUBSET S |-> IF U = {} THEN base ELSE G[<<c[U], g[U \ {c[U]}]>>]]
  <2>2. \A U \in SUBSET S : Cardinality(U) <= i => h[U] = g[U]
    BY <2>1
  <2>3. h \in [SUBSET S -> W]
    <3>1. \A U \in SUBSET S : U # {} => G[<<c[U], g[U \ {c[U]}]>>] \in W
      <4> TAKE U \in SUBSET S
      <4> HAVE U # {}
      <4>1. c[U] \in S /\ U \ {c[U]} \in SUBSET S
        BY <1>2
      <4>2. <<c[U], g[U \ {c[U]}]>> \in S \X W
        BY <2>1, <4>1
      <4> QED BY <4>2
    <3> QED BY <3>1
  <2>4. ASSUME NEW U \in SUBSET S, Cardinality(U) <= i + 1, U # {}
        PROVE  h[U] = G[<<c[U], h[U \ {c[U]}]>>]
    <3>1. c[U] \in U /\ U \ {c[U]} \in SUBSET S
      BY <1>2, <2>4
    <3>2. Cardinality(U \ {c[U]}) = Cardinality(U) - 1
      BY <1>1, <3>1, FS_RemoveElement
    <3>3. Cardinality(U \ {c[U]}) <= i
      BY <1>1, <2>4, <3>2
    <3>4. h[U \ {c[U]}] = g[U \ {c[U]}]
      <4> HIDE DEF h
      <4> QED BY <2>2, <3>1, <3>3
    <3>5. h[U] = G[<<c[U], g[U \ {c[U]}]>>]
      BY <2>4
    <3> HIDE DEF h
    <3> QED BY <3>4, <3>5
  <2>5. \A U \in SUBSET S : Cardinality(U) <= i + 1 =>
            h[U] = IF U = {} THEN base ELSE G[<<c[U], h[U \ {c[U]}]>>]
    <3>1. h[{}] = base
      OBVIOUS
    <3> HIDE DEF h
    <3> QED BY <2>4, <3>1
  <2>6. Has(i + 1)
    <3> HIDE DEF h
    <3> QED BY <2>3, <2>5
  <2> HIDE DEF h, Has
  <2> QED BY <2>6
<1>5. Cardinality(S) \in P
  <2>1. Cardinality(S) \in Nat
    BY FS_CardinalityType
  <2> HIDE DEF P
  <2> QED BY <1>3, <1>4, <2>1, NumberFamily
<1>6. \A U \in SUBSET S : Cardinality(U) <= Cardinality(S)
  BY FS_Subset
<1>7. Has(Cardinality(S))
  BY <1>5
<1> QED BY <1>6, <1>7 DEF Recurs

\* What such a function gives stays in a set that each step stays in.
LEMMA RecursionStays ==
  ASSUME NEW S, IsFiniteSet(S), NEW W, NEW g, g[{}] \in W,
         \A U \in SUBSET S : U # {} => \E x \in U : g[U \ {x}] \in W => g[U] \in W
  PROVE  g[S] \in W
<1> DEFINE T == {U \in SUBSET S : g[U] \in W}
<1>1. {} \in T
  OBVIOUS
<1>2. \A U \in SUBSET S : U # {} => \E x \in U : U \ {x} \in T => U \in T
  <2> TAKE U \in SUBSET S
  <2> HAVE U # {}
  <2>1. PICK x \in U : g[U \ {x}] \in W => g[U] \in W
    OBVIOUS
  <2> QED BY <2>1
<1>3. S \in T
  <2> HIDE DEF T
  <2> QED BY <1>1, <1>2, SubsetFamily
<1> QED BY <1>3

\* A sum of numbers is a number.
LEMMA TotalType ==
  ASSUME NEW f, IsFiniteSet(DOMAIN f), \A x \in DOMAIN f : f[x] \in Nat
  PROVE  Total(f) \in Nat
<1> DEFINE S == DOMAIN f
           Adds(g) == [U \in SUBSET S |->
                          IF U = {} THEN 0 ELSE f[CHOOSE x \in U : TRUE] + g[U \ {CHOOSE x \in U : TRUE}]]
           c == [U \in SUBSET S |-> CHOOSE x \in U : TRUE]
           G == [p \in S \X Nat |-> f[p[1]] + p[2]]
<1>1. Total(f) = (CHOOSE g : g = Adds(g))[S]
  BY DEF Total, FoldFunction, FoldFunctionOnSet, MapThenFoldSet
<1>2. \E g : g = Adds(g)
  <2>1. \A U \in SUBSET S : U # {} => c[U] \in U
    OBVIOUS
  <2>2. G \in [S \X Nat -> Nat]
    OBVIOUS
  <2>3. PICK g \in [SUBSET S -> Nat] : Recurs(g, S, 0, c, G)
    <3>1. IsFiniteSet(S) /\ 0 \in Nat /\ Chooses(c, S)
      BY <2>1 DEF Chooses
    <3> HIDE DEF G, c, S
    <3> QED BY <2>2, <3>1, RecursionExists
  <2>4. \A U \in SUBSET S : U # {} => G[<<c[U], g[U \ {c[U]}]>>] = f[c[U]] + g[U \ {c[U]}]
    <3> TAKE U \in SUBSET S
    <3> HAVE U # {}
    <3>1. <<c[U], g[U \ {c[U]}]>> \in S \X Nat
      BY <2>1
    <3> HIDE DEF c
    <3> QED BY <3>1
  <2>5. \A U \in SUBSET S : c[U] = CHOOSE x \in U : TRUE
    OBVIOUS
  <2>6. g = [U \in SUBSET S |-> IF U = {} THEN 0 ELSE f[c[U]] + g[U \ {c[U]}]]
    <3> HIDE DEF c, G
    <3> QED BY <2>3, <2>4 DEF Recurs
  <2>7. g = Adds(g)
    <3> HIDE DEF c
    <3> QED BY <2>5, <2>6
  <2> QED BY <2>7
<1>3. PICK g : g = Adds(g) /\ Total(f) = g[S]
  <2> HIDE DEF Adds
  <2> QED BY <1>1, <1>2
<1>4. g[{}] \in Nat
  BY <1>3
<1>5. \A U \in SUBSET S : U # {} => \E x \in U : g[U \ {x}] \in Nat => g[U] \in Nat
  <2> TAKE U \in SUBSET S
  <2> HAVE U # {}
  <2>1. (CHOOSE x \in U : TRUE) \in U
    OBVIOUS
  <2>2. g[U] = f[CHOOSE x \in U : TRUE] + g[U \ {CHOOSE x \in U : TRUE}]
    BY <1>3
  <2>3. f[CHOOSE x \in U : TRUE] \in Nat
    BY <2>1
  <2> DEFINE x == CHOOSE x \in U : TRUE
  <2>4. x \in U /\ (g[U \ {x}] \in Nat => g[U] \in Nat)
    BY <2>1, <2>2, <2>3
  <2> HIDE DEF x
  <2> QED BY <2>4
<1>6. g[S] \in Nat
  <2>1. IsFiniteSet(S)
    OBVIOUS
  <2> HIDE DEF S
  <2> QED BY <1>4, <1>5, <2>1, RecursionStays
<1> QED BY <1>3, <1>6

\* The largest of some positions is one of them.
LEMMA MaxInside ==
  ASSUME NEW n \in Nat, NEW U \in SUBSET (1..n), U # {}
  PROVE  Max(U) \in U /\ Max(U) \in 1..n
<1>1. IsFiniteSet(1..n)
  BY FS_Interval
<1>2. IsFiniteSet(U)
  BY <1>1, FS_Subset
<1>3. U \in SUBSET Int
  OBVIOUS
<1>4. Max(U) \in U
  BY <1>2, <1>3, MaxFacts
<1> QED BY <1>4

\* A fold over a sequence: the positions are taken from the last to the first.
Folds(g, n, base, G) == \A U \in SUBSET (1..n) : g[U] = IF U = {} THEN base ELSE G[<<Max(U), g[U \ {Max(U)}]>>]
Stays(g, n, W) == \A U \in SUBSET (1..n) : Max(U) \in 1..n /\ g[U \ {Max(U)}] \in W => U = {} \/ g[U] \in W

\* The function that a fold over a sequence is defined by exists.
LEMMA FoldExists ==
  ASSUME NEW n \in Nat, NEW W, NEW base \in W, NEW G \in [(1..n) \X W -> W]
  PROVE  \E g \in [SUBSET (1..n) -> W] : Folds(g, n, base, G)
<1> DEFINE c == [U \in SUBSET (1..n) |-> Max(U)]
<1>1. IsFiniteSet(1..n)
  BY FS_Interval
<1>2. \A U \in SUBSET (1..n) : U # {} => c[U] \in U
  <2> TAKE U \in SUBSET (1..n)
  <2> HAVE U # {}
  <2>1. Max(U) \in U /\ Max(U) \in 1..n
    BY MaxInside
  <2> QED BY <2>1
<1>3. PICK g \in [SUBSET (1..n) -> W] : Recurs(g, 1..n, base, c, G)
  <2> DEFINE S == 1..n
  <2>1. IsFiniteSet(S) /\ Chooses(c, S) /\ G \in [S \X W -> W]
    BY <1>1, <1>2 DEF Chooses
  <2>2. \E g \in [SUBSET S -> W] : Recurs(g, S, base, c, G)
    <3> HIDE DEF c, S
    <3> QED BY <2>1, RecursionExists
  <2> HIDE DEF c
  <2> QED BY <2>2
<1>4. \A U \in SUBSET (1..n) : c[U] = Max(U)
  OBVIOUS
<1> HIDE DEF c
<1>5. \A U \in SUBSET (1..n) : g[U] = IF U = {} THEN base ELSE G[<<c[U], g[U \ {c[U]}]>>]
  BY <1>3 DEF Recurs
<1>6. \A U \in SUBSET (1..n) : g[U] = IF U = {} THEN base ELSE G[<<Max(U), g[U \ {Max(U)}]>>]
  <2> TAKE U \in SUBSET (1..n)
  <2>1. c[U] = Max(U)
    BY <1>4
  <2>2. g[U] = IF U = {} THEN base ELSE G[<<c[U], g[U \ {c[U]}]>>]
    BY <1>5
  <2> QED BY <2>1, <2>2
<1>7. Folds(g, n, base, G)
  BY <1>6 DEF Folds
<1> QED BY <1>3, <1>7

\* A fold ends in a set that each of its steps stays in.
LEMMA FoldStays ==
  ASSUME NEW n \in Nat, NEW W, NEW g, g[{}] \in W, Stays(g, n, W)
  PROVE  g[1..n] \in W
<1>1. IsFiniteSet(1..n)
  BY FS_Interval
<1>2. \A U \in SUBSET (1..n) : U # {} => \E x \in U : g[U \ {x}] \in W => g[U] \in W
  <2> TAKE U \in SUBSET (1..n)
  <2> HAVE U # {}
  <2>1. Max(U) \in U /\ Max(U) \in 1..n
    BY MaxInside
  <2> QED BY <2>1 DEF Stays
<1> QED BY <1>1, <1>2, RecursionStays

\* Sorting a finite set by score gives a sequence of its elements: each place has
\* one, the one with as many before it.
LEMMA OrderedType ==
  ASSUME NEW S \in SUBSET Nat, IsFiniteSet(S), NEW score, \A m \in S : score[m] \in Int
  PROVE  Ordered(S, score) \in Seq(S)
<1> DEFINE n == Cardinality(S)
           D == 1..n
           Ahead(x, m) == score[x] > score[m] \/ (score[x] = score[m] /\ x < m)
           Before(m) == {x \in S : Ahead(x, m)}
           place == [m \in S |-> Cardinality(Before(m)) + 1]
<1>1. n \in Nat /\ IsFiniteSet(D) /\ Cardinality(D) = n
  BY FS_CardinalityType, FS_Interval
<1>2. \A m \in S : IsFiniteSet(Before(m)) /\ Cardinality(Before(m)) \in Nat
  <2> TAKE m \in S
  <2>1. Before(m) \in SUBSET S
    OBVIOUS
  <2> HIDE DEF Before
  <2> QED BY <2>1, FS_Subset, FS_CardinalityType
<1>3. \A x, y, z \in S : Ahead(x, y) /\ Ahead(y, z) => Ahead(x, z)
  <2> TAKE x, y, z \in S
  <2>1. x \in Nat /\ y \in Nat /\ z \in Nat /\ score[x] \in Int /\ score[y] \in Int /\ score[z] \in Int
    OBVIOUS
  <2> QED BY <2>1
<1>4. \A x, y \in S : x # y => Ahead(x, y) \/ Ahead(y, x)
  <2> TAKE x, y \in S
  <2>1. x \in Nat /\ y \in Nat /\ score[x] \in Int /\ score[y] \in Int
    OBVIOUS
  <2> QED BY <2>1
<1>5. \A m \in S : ~Ahead(m, m)
  <2> TAKE m \in S
  <2>1. m \in Nat /\ score[m] \in Int
    OBVIOUS
  <2> QED BY <2>1
<1>6. ASSUME NEW x \in S, NEW y \in S, Ahead(x, y)
      PROVE  Cardinality(Before(x)) # Cardinality(Before(y))
  <2>1. Before(x) \in SUBSET Before(y) /\ x \in Before(y) /\ x \notin Before(x)
    <3> HIDE DEF Ahead
    <3> QED BY <1>3, <1>5, <1>6
  <2>2. Before(x) # Before(y)
    BY <2>1
  <2> HIDE DEF Before
  <2> QED BY <1>2, <2>1, <2>2, FS_Subset
<1>7. \A x, y \in S : place[x] = place[y] => x = y
  <2> TAKE x, y \in S
  <2>1. x # y => Cardinality(Before(x)) # Cardinality(Before(y))
    <3> HIDE DEF Before, Ahead
    <3> QED BY <1>4, <1>6
  <2>2. place[x] = Cardinality(Before(x)) + 1 /\ place[y] = Cardinality(Before(y)) + 1
    OBVIOUS
  <2> HIDE DEF Before, place
  <2> QED BY <1>2, <2>1, <2>2
<1>8. \A m \in S : Cardinality(Before(m)) < n
  <2> TAKE m \in S
  <2>1. Before(m) \in SUBSET S /\ m \notin Before(m)
    <3> HIDE DEF Ahead
    <3> QED BY <1>5
  <2>2. Cardinality(Before(m)) <= n /\ Cardinality(Before(m)) # n
    <3> HIDE DEF Before
    <3> QED BY <2>1, FS_Subset
  <2> HIDE DEF Before
  <2> QED BY <1>1, <1>2, <2>2
<1>9. place \in [S -> D]
  <2>1. \A m \in S : Cardinality(Before(m)) + 1 \in D
    <3> HIDE DEF Before
    <3> QED BY <1>1, <1>2, <1>8
  <2> HIDE DEF Before, D
  <2> QED BY <2>1
<1>10. place \in Injection(S, D)
  <2> HIDE DEF place, D
  <2> QED BY <1>7, <1>9 DEF Injection, IsInjective
<1>11. place \in Surjection(S, D)
  <2> HIDE DEF place, D
  <2> QED BY <1>1, <1>10, FS_Injection
<1>12. \A k \in D : \E m \in S : Cardinality(Before(m)) = k - 1
  <2> TAKE k \in D
  <2>1. PICK m \in S : place[m] = k
    <3> HIDE DEF place, D
    <3> QED BY <1>11 DEF Surjection
  <2>2. place[m] = Cardinality(Before(m)) + 1
    OBVIOUS
  <2> HIDE DEF Before, place
  <2>3. Cardinality(Before(m)) = k - 1
    BY <1>1, <1>2, <2>1, <2>2
  <2> QED BY <2>3
<1> DEFINE Placed(k) == CHOOSE m \in S : Cardinality(Before(m)) = k - 1
<1>13. \A k \in D : Placed(k) \in S
  <2> HIDE DEF Before
  <2> QED BY <1>12
<1>14. Ordered(S, score) = [k \in D |-> Placed(k)]
  BY DEF Ordered
<1> HIDE DEF Placed
<1>15. \A k \in 1..n : Placed(k) \in S
  BY <1>13
<1>16. Ordered(S, score) = [k \in 1..n |-> Placed(k)]
  BY <1>14
<1> HIDE DEF n
<1> QED BY <1>1, <1>15, <1>16

\* What is packed is not suppressed.
LEMMA PackFacts ==
  ASSUME NEW S, NEW ranked \in Seq(S), NEW listing, NEW score, NEW q
  PROVE  Pack(ranked, listing, score, q) \in SUBSET {m \in S : ~Suppressed(listing[m], q)}
<1> DEFINE n == Len(ranked)
           W == SUBSET {m \in S : ~Suppressed(listing[m], q)}
           Packs(g) == [U \in SUBSET (DOMAIN ranked) |->
                          IF U = {} THEN {} ELSE Take(g[U \ {Max(U)}], ranked[Max(U)], listing, score, q)]
           G == [p \in (1..n) \X W |-> Take(p[2], ranked[p[1]], listing, score, q)]
<1>1. n \in Nat /\ DOMAIN ranked = 1..n
  OBVIOUS
<1> HIDE DEF n
<1>2. Pack(ranked, listing, score, q) = (CHOOSE g : g = Packs(g))[DOMAIN ranked]
  BY DEF Pack, FoldLeft, MapThenFoldSet
<1>3. \A i \in 1..n, w \in W : Take(w, ranked[i], listing, score, q) \in W
  <2> TAKE i \in 1..n, w \in W
  <2>1. ranked[i] \in S
    BY <1>1
  <2> QED BY <2>1 DEF Take
<1>4. \E g : g = Packs(g)
  <2>1. {} \in W
    OBVIOUS
  <2>2. G \in [(1..n) \X W -> W]
    <3> HIDE DEF W
    <3> QED BY <1>3
  <2>3. PICK g \in [SUBSET (1..n) -> W] : Folds(g, n, {}, G)
    <3> HIDE DEF W, G
    <3> QED BY <1>1, <2>1, <2>2, FoldExists
  <2>4. \A U \in SUBSET (1..n) : U # {} => G[<<Max(U), g[U \ {Max(U)}]>>] = Take(g[U \ {Max(U)}], ranked[Max(U)], listing, score, q)
    <3> TAKE U \in SUBSET (1..n)
    <3> HAVE U # {}
    <3>1. Max(U) \in 1..n
      BY <1>1, MaxInside
    <3>2. <<Max(U), g[U \ {Max(U)}]>> \in (1..n) \X W
      <4> HIDE DEF W
      <4> QED BY <2>3, <3>1
    <3> HIDE DEF W, n
    <3> QED BY <3>2
  <2> HIDE DEF G, W
  <2>5. g = [U \in SUBSET (1..n) |-> IF U = {} THEN {} ELSE Take(g[U \ {Max(U)}], ranked[Max(U)], listing, score, q)]
    BY <2>3, <2>4 DEF Folds
  <2> QED BY <1>1, <2>5
<1>5. PICK g : g = Packs(g) /\ Pack(ranked, listing, score, q) = g[1..n]
  <2> HIDE DEF Packs
  <2> QED BY <1>1, <1>2, <1>4
<1>6. g[{}] \in W
  BY <1>5
<1>7. Stays(g, n, W)
  <2>1. SUFFICES ASSUME NEW U \in SUBSET (1..n), Max(U) \in 1..n, g[U \ {Max(U)}] \in W, U # {}
                 PROVE  g[U] \in W
    <3> HIDE DEF W
    <3> QED BY DEF Stays
  <2>2. g[U] = Take(g[U \ {Max(U)}], ranked[Max(U)], listing, score, q)
    BY <1>1, <1>5, <2>1
  <2> HIDE DEF W
  <2> QED BY <1>3, <2>1, <2>2
<1>8. g[1..n] \in W
  <2> HIDE DEF W
  <2> QED BY <1>1, <1>6, <1>7, FoldStays
<1> QED BY <1>5, <1>8

-----------------------------------------------------------------------------
(* Shares and sums                                                          *)

\* Quotients of numbers.
LEMMA QuotientType ==
  ASSUME NEW a \in Nat, NEW b \in Nat, b > 0
  PROVE  a \div b \in Nat /\ a \div b <= a
<1>1. a \div b \in Int
  BY SMT
<1>2. a = b * (a \div b) + (a % b) /\ 0 <= a % b /\ a % b < b
  BY SMT
<1> DEFINE c == a \div b
           r == a % b
<1>3. c \in Int /\ r \in Int /\ a = b * c + r /\ 0 <= r /\ r < b
  BY <1>1, <1>2
<1> HIDE DEF c, r
<1>4. c >= 0
  <2>1. SUFFICES ASSUME c <= -1 PROVE FALSE
    BY <1>3
  <2>2. b * c <= b * (-1)
    BY <1>3, <2>1, SMT
  <2> QED BY <1>3, <2>2, SMT
<1>5. c <= a
  <2>1. c <= b * c
    BY <1>3, <1>4, SMT
  <2> QED BY <1>3, <2>1, SMT
<1> QED BY <1>3, <1>4, <1>5 DEF c

\* A part of a whole in percent.
LEMMA PercentOfWhole ==
  ASSUME NEW a \in Nat, NEW b \in Nat, b > 0, a <= b
  PROVE  (100 * a) \div b \in 0..100
<1> DEFINE c == (100 * a) \div b
           r == (100 * a) % b
<1>1. c \in Nat
  <2>1. 100 * a \in Nat
    BY SMT
  <2> QED BY <2>1, QuotientType
<1>2. 100 * a = b * c + r /\ 0 <= r /\ r \in Int
  BY SMT
<1> HIDE DEF c, r
<1>3. c <= 100
  <2>1. SUFFICES ASSUME c >= 101 PROVE FALSE
    BY <1>1, SMT
  <2>2. b * c >= b * 101
    BY <1>1, <2>1, SMT
  <2> QED BY <1>1, <1>2, <2>2, SMT
<1>4. c \in 0..100
  BY <1>1, <1>3, SMT
<1> QED BY <1>4 DEF c

\* A percentage of a percentage.
LEMMA PercentOfPercent ==
  ASSUME NEW a \in 0..100, NEW b \in 0..100
  PROVE  (a * b) \div 100 \in 0..100
<1>1. a * b \in Int /\ 0 <= a * b /\ a * b <= 10000
  <2>1. 0 <= a * b
    BY SMT
  <2>2. a * b <= 100 * b
    BY SMT
  <2>3. 100 * b <= 10000
    BY SMT
  <2> QED BY <2>1, <2>2, <2>3, SMT
<1> DEFINE p == a * b
<1> HIDE DEF p
<1>2. p \div 100 \in 0..100
  BY <1>1, SMT DEF p
<1> QED BY <1>2 DEF p

\* A share is a percentage, of an empty whole too.
LEMMA ShareType ==
  ASSUME NEW part, NEW whole, IsFiniteSet(whole)
  PROVE  Share(part, whole) \in 0..100
<1>1. part \cap whole \in SUBSET whole
  OBVIOUS
<1>2. /\ Cardinality(whole) \in Nat /\ Cardinality(part \cap whole) \in Nat
      /\ Cardinality(part \cap whole) <= Cardinality(whole)
  BY <1>1, FS_Subset, FS_CardinalityType
<1> DEFINE a == Cardinality(part \cap whole)
           b == Most(1, Cardinality(whole))
<1>3. a \in Nat /\ b \in Nat /\ b > 0 /\ a <= b
  BY <1>2 DEF Most
<1> HIDE DEF a, b
<1>4. (100 * a) \div b \in 0..100
  BY <1>3, PercentOfWhole
<1> QED BY <1>4 DEF Share, a, b

\* The overlap of two texts is a percentage.
LEMMA OverlapType ==
  ASSUME NEW one, NEW other, IsFiniteSet(one), IsFiniteSet(other)
  PROVE  Overlap(one, other) \in 0..100
<1>1. IsFiniteSet(one \cup other)
  BY FS_Union
<1> QED BY <1>1, ShareType DEF Overlap

\* There are finitely many percentages.
LEMMA PercentFinite == IsFiniteSet(0..100)
<1> DEFINE n == 100
<1>1. n \in Int
  OBVIOUS
<1> HIDE DEF n
<1>2. IsFiniteSet(0..n)
  BY <1>1, FS_Interval
<1> QED BY <1>2 DEF n

\* The largest of some percentages is one.
LEMMA MaxPercent ==
  ASSUME NEW S \in SUBSET (0..100), S # {}
  PROVE  Max(S) \in 0..100
<1>1. IsFiniteSet(S)
  <2> DEFINE P == 0..100
  <2>1. IsFiniteSet(P) /\ S \in SUBSET P
    BY PercentFinite
  <2> HIDE DEF P
  <2> QED BY <2>1, FS_Subset
<1>2. S \in SUBSET Int
  OBVIOUS
<1>3. Max(S) \in S
  BY <1>1, <1>2, MaxFacts
<1> QED BY <1>3

\* The terms of a text are finite in number.
LEMMA TermsFinite ==
  ASSUME NEW T \in SUBSET Term
  PROVE  IsFiniteSet(T) /\ Cardinality(T) \in Nat
BY TermAssumption, FS_Subset, FS_CardinalityType

\* Memories are finite in number.
LEMMA MemoriesFinite ==
  ASSUME NEW S \in SUBSET Memory
  PROVE  IsFiniteSet(S) /\ Cardinality(S) \in Nat /\ S \in SUBSET Nat
BY MemoryAssumption, FS_Subset, FS_CardinalityType

-----------------------------------------------------------------------------
(* Channels                                                                 *)

Listing == UNION {[S -> Record] : S \in SUBSET Memory}
Found == UNION {[S -> 0..100] : S \in SUBSET Memory}
ChannelName == Semantic \cup Context
Channels == [ChannelName -> Found]

\* What is listed are records with their cards.
LEMMA ListingFacts ==
  ASSUME NEW listing \in Listing
  PROVE  /\ DOMAIN listing \in SUBSET Memory
         /\ \A m \in DOMAIN listing : listing[m] \in Record /\ Card(listing[m]) \in SUBSET Term
<1>1. PICK S \in SUBSET Memory : listing \in [S -> Record]
  BY DEF Listing
<1>2. \A m \in S : listing[m] \in Record
  BY <1>1
<1>3. \A r \in Record : Card(r) \in SUBSET Term
  BY DEF Record, Card
<1> QED BY <1>1, <1>2, <1>3

\* What a channel gives to the memories it finds.
LEMMA FoundFacts ==
  ASSUME NEW f
  PROVE  /\ f \in Found => DOMAIN f \in SUBSET Memory /\ f \in [DOMAIN f -> 0..100]
         /\ \A S \in SUBSET Memory : f \in [S -> 0..100] => f \in Found
BY DEF Found

\* The relevance of cards to terms is a percentage.
LEMMA RelevanceType ==
  ASSUME NEW cards, NEW terms \in SUBSET Term, DOMAIN cards \in SUBSET Memory,
         \A m \in DOMAIN cards : cards[m] \in SUBSET Term
  PROVE  Relevance(cards, terms) \in [DOMAIN cards -> 0..100]
<1> DEFINE S == DOMAIN cards
           n == Cardinality(S)
           df(t) == Cardinality({m \in S : t \in cards[m]})
           weight(t) == (100 * (n - df(t)) + 50) \div df(t)
           raw == [m \in S |-> Total([t \in terms \cap cards[m] |-> weight(t)])]
           best == Max({raw[m] : m \in S} \cup {1})
<1>1. IsFiniteSet(S) /\ n \in Nat
  BY MemoriesFinite
<1>2. ASSUME NEW m \in S, NEW t \in cards[m]
      PROVE  weight(t) \in Nat
  <2> DEFINE T == {x \in S : t \in cards[x]}
  <2>1. T \in SUBSET S /\ T # {}
    BY <1>2
  <2>2. IsFiniteSet(T) /\ Cardinality(T) \in Nat /\ Cardinality(T) <= n /\ Cardinality(T) # 0
    <3> HIDE DEF T, S
    <3> QED BY <1>1, <2>1, FS_Subset, FS_CardinalityType, FS_EmptySet
  <2> DEFINE d == df(t)
  <2>3. d \in Nat /\ d <= n /\ d > 0
    BY <2>2
  <2> HIDE DEF d, n
  <2>4. 100 * (n - d) + 50 \in Nat
    BY <1>1, <2>3, SMT
  <2>5. (100 * (n - d) + 50) \div d \in Nat
    BY <2>3, <2>4, QuotientType
  <2> QED BY <2>5 DEF d
<1>3. \A m \in S : raw[m] \in Nat
  <2> TAKE m \in S
  <2> DEFINE f == [t \in terms \cap cards[m] |-> weight(t)]
  <2> HIDE DEF weight
  <2>1. \A t \in terms \cap cards[m] : weight(t) \in Nat
    BY <1>2
  <2>2. terms \cap cards[m] \in SUBSET Term
    OBVIOUS
  <2>3. DOMAIN f = terms \cap cards[m] /\ \A t \in DOMAIN f : f[t] \in Nat
    BY <2>1
  <2>4. IsFiniteSet(DOMAIN f)
    <3> HIDE DEF f
    <3> QED BY <2>2, <2>3, TermsFinite
  <2>5. raw[m] = Total(f)
    OBVIOUS
  <2> HIDE DEF f, raw
  <2> QED BY <2>3, <2>4, <2>5, TotalType
<1> HIDE DEF raw
<1>4. best \in Nat /\ best > 0 /\ \A m \in S : raw[m] <= best
  <2> DEFINE R == {raw[m] : m \in S}
             h == [m \in S |-> raw[m]]
  <2>1. h \in Surjection(S, R)
    BY DEF Surjection
  <2>2. IsFiniteSet(R)
    <3> HIDE DEF h, R, S
    <3> QED BY <1>1, <2>1, FS_Surjection
  <2>3. R \in SUBSET Nat
    BY <1>3
  <2> HIDE DEF R
  <2>4. IsFiniteSet(R \cup {1}) /\ R \cup {1} \in SUBSET Int /\ R \cup {1} # {}
    BY <2>2, <2>3, FS_AddElement
  <2>5. Max(R \cup {1}) \in R \cup {1} /\ \A x \in R \cup {1} : Max(R \cup {1}) >= x
    BY <2>4, MaxFacts
  <2>6. best = Max(R \cup {1})
    BY DEF R
  <2>7. \A m \in S : raw[m] \in R
    BY DEF R
  <2> HIDE DEF best, S
  <2>8. best \in R \cup {1} /\ \A x \in R \cup {1} : best >= x
    BY <2>5, <2>6
  <2>9. best \in Nat /\ best >= 1
    BY <2>3, <2>8
  <2>10. \A m \in S : raw[m] <= best
    BY <1>3, <2>7, <2>8, <2>9
  <2> QED BY <2>9, <2>10
<1> HIDE DEF best
<1>5. \A m \in S : (100 * raw[m]) \div best \in 0..100
  BY <1>3, <1>4, PercentOfWhole
<1>6. Relevance(cards, terms) = [m \in S |-> (100 * raw[m]) \div best]
  BY DEF Relevance, raw, best
<1> HIDE DEF S
<1> QED BY <1>5, <1>6 DEF S

\* What a channel finds is given a percentage.
LEMMA PositiveType ==
  ASSUME NEW f \in Found
  PROVE  /\ Restrict(f, {m \in DOMAIN f : f[m] > 0}) \in Found
         /\ DOMAIN Restrict(f, {m \in DOMAIN f : f[m] > 0}) \in SUBSET (DOMAIN f)
<1> DEFINE S == {m \in DOMAIN f : f[m] > 0}
<1>1. DOMAIN f \in SUBSET Memory /\ f \in [DOMAIN f -> 0..100]
  BY FoundFacts
<1>2. S \in SUBSET Memory /\ S \in SUBSET (DOMAIN f)
  BY <1>1
<1>3. Restrict(f, S) \in [S -> 0..100]
  <2> HIDE DEF S
  <2> QED BY <1>1, <1>2 DEF Restrict
<1> HIDE DEF S
<1> QED BY <1>2, <1>3, FoundFacts DEF S

\* Every channel gives percentages to memories.
LEMMA ChannelType ==
  ASSUME NEW listing \in Listing, NEW q \in Asking,
         memories \in [Memory -> Record \cup {Nil}], index \in [Memory -> (SUBSET Term) \cup {Nil}]
  PROVE  Channel(listing, q) \in Channels
<1> DEFINE D == DOMAIN listing
           cards == [m \in D |-> Card(listing[m])]
           S == {x \in Memory : memories[x] # Nil}
           stored == [m \in S |-> Card(memories[m])]
           found == Relevance(stored, q.terms)
           bm25 == Relevance(cards, q.terms)
           I == {m \in Memory : index[m] # Nil}
           vectors == {q.terms} \cup {{t} : t \in q.rewrites} \cup ({q.hyde} \ {{}})
           dense == [m \in I |-> Max({Overlap(index[m], v) : v \in vectors})]
           Positive(f) == Restrict(f, {m \in DOMAIN f : f[m] > 0})
<1>1. D \in SUBSET Memory /\ \A m \in D : listing[m] \in Record /\ cards[m] \in SUBSET Term
  BY ListingFacts
<1>2. S \in SUBSET Memory /\ \A m \in S : stored[m] \in SUBSET Term
  <2>1. \A m \in S : memories[m] \in Record
    OBVIOUS
  <2>2. \A r \in Record : Card(r) \in SUBSET Term
    BY DEF Record, Card
  <2> QED BY <2>1, <2>2
<1>3. /\ q.terms \in SUBSET Term /\ q.rewrites \in SUBSET Term
      /\ q.hyde \in SUBSET Term /\ q.entities \in SUBSET Term
  BY DEF Asking
<1>4. DOMAIN cards = D /\ DOMAIN stored = S
  OBVIOUS
<1> HIDE DEF cards, stored, D, S
<1>5. found \in Found /\ DOMAIN found = S /\ \A m \in S : found[m] \in 0..100
  <2>1. found \in [S -> 0..100]
    BY <1>2, <1>3, <1>4, RelevanceType
  <2> HIDE DEF found
  <2> QED BY <1>2, <2>1, FoundFacts
<1>6. bm25 \in Found
  <2>1. bm25 \in [D -> 0..100]
    BY <1>1, <1>3, <1>4, RelevanceType
  <2> HIDE DEF bm25
  <2> QED BY <1>1, <2>1, FoundFacts
<1>7. dense \in Found
  <2>1. vectors # {} /\ \A v \in vectors : v \in SUBSET Term
    BY <1>3
  <2> HIDE DEF vectors
  <2>2. ASSUME NEW m \in I
        PROVE  Max({Overlap(index[m], v) : v \in vectors}) \in 0..100
    <3>1. index[m] \in SUBSET Term
      <4>1. m \in Memory /\ index[m] # Nil
        OBVIOUS
      <4>2. index[m] \in (SUBSET Term) \cup {Nil}
        BY <4>1
      <4> QED BY <4>1, <4>2
    <3>2. \A v \in vectors : Overlap(index[m], v) \in 0..100
      BY <2>1, <3>1, TermsFinite, OverlapType
    <3> DEFINE O == {Overlap(index[m], v) : v \in vectors}
    <3>3. O \in SUBSET (0..100) /\ O # {}
      BY <2>1, <3>2
    <3> HIDE DEF O
    <3>4. Max(O) \in 0..100
      BY <3>3, MaxPercent
    <3> QED BY <3>4 DEF O
  <2>3. I \in SUBSET Memory
    OBVIOUS
  <2> HIDE DEF I
  <2>4. dense \in [I -> 0..100]
    BY <2>2
  <2> HIDE DEF dense
  <2> QED BY <2>3, <2>4, FoundFacts
<1>8. [m \in DOMAIN Positive(found) |-> FtsScore(found, m)] \in Found
  <2> DEFINE P == DOMAIN Positive(found)
  <2>1. P \in SUBSET S
    BY <1>5, PositiveType
  <2> HIDE DEF P, found
  <2>2. \A m \in P : FtsScore(found, m) \in 0..100
    BY <1>5, <2>1 DEF FtsScore
  <2>3. [m \in P |-> FtsScore(found, m)] \in [P -> 0..100]
    BY <2>2
  <2>4. P \in SUBSET Memory
    BY <1>2, <2>1
  <2>5. [m \in P |-> FtsScore(found, m)] \in Found
    BY <2>3, <2>4, FoundFacts
  <2> QED BY <2>5 DEF P
<1>9. \A f \in Found : Positive(f) \in Found
  BY PositiveType
<1> HIDE DEF found, bm25, dense
<1>10. \A T \in SUBSET Term : [m \in D |-> Share(cards[m], T)] \in Found
  <2> TAKE T \in SUBSET Term
  <2>1. \A m \in D : Share(cards[m], T) \in 0..100
    BY TermsFinite, ShareType
  <2>2. [m \in D |-> Share(cards[m], T)] \in [D -> 0..100]
    BY <2>1
  <2> QED BY <1>1, <2>2, FoundFacts
<1>11. [m \in D |-> Overlap(cards[m], q.terms)] \in Found
  <2>1. \A m \in D : Overlap(cards[m], q.terms) \in 0..100
    BY <1>1, <1>3, TermsFinite, OverlapType
  <2>2. [m \in D |-> Overlap(cards[m], q.terms)] \in [D -> 0..100]
    BY <2>1
  <2> QED BY <1>1, <2>2, FoundFacts
<1> DEFINE recent(m) == Least(100, Recency(listing[m].uses) + IF listing[m].maturity \in Stale THEN 0 ELSE 35)
           prefers(m) == 55 + (30 * listing[m].confidence) \div 100
           seeds(m) == Least(100, 30 + listing[m].utility + (20 * listing[m].confidence) \div 100)
<1>12. \A m \in D : recent(m) \in 0..100 /\ prefers(m) \in 0..100 /\ seeds(m) \in 0..100
  <2> TAKE m \in D
  <2> DEFINE r == listing[m]
             c == r.confidence
             u == r.utility
  <2>1. r \in Record
    BY <1>1
  <2>2. c \in 0..100 /\ u \in 0..100
    BY <2>1 DEF Record
  <2> HIDE DEF r
  <2>3. Recency(r.uses) \in 0..27
    BY DEF Recency
  <2>4. recent(m) \in 0..100
    <3> DEFINE a == Recency(r.uses)
               b == IF r.maturity \in Stale THEN 0 ELSE 35
    <3>1. a \in 0..27 /\ b \in 0..35
      BY <2>3
    <3>2. recent(m) = Least(100, a + b)
      BY DEF r
    <3> HIDE DEF a, b, recent
    <3> QED BY <3>1, <3>2 DEF Least
  <2> HIDE DEF c, u
  <2>5. (30 * c) \div 100 \in 0..30 /\ (20 * c) \div 100 \in 0..20
    BY <2>2, SMT
  <2>6. prefers(m) = 55 + (30 * c) \div 100 /\ seeds(m) = Least(100, 30 + u + (20 * c) \div 100)
    BY DEF r, c, u
  <2> DEFINE x == (30 * c) \div 100
             y == (20 * c) \div 100
  <2> HIDE DEF x, y, recent, prefers, seeds
  <2>7. x \in 0..30 /\ y \in 0..20 /\ prefers(m) = 55 + x /\ seeds(m) = Least(100, 30 + u + y)
    BY <2>5, <2>6 DEF x, y
  <2>8. prefers(m) \in 0..100 /\ seeds(m) \in 0..100
    BY <2>2, <2>7 DEF Least
  <2> QED BY <2>4, <2>8
<1>13. [m \in D |-> recent(m)] \in Found
  <2> HIDE DEF recent
  <2>1. [m \in D |-> recent(m)] \in [D -> 0..100]
    BY <1>12
  <2> QED BY <1>1, <2>1, FoundFacts
<1> DEFINE P == {x \in D : listing[x].type \in {"procedural", "preference", "schema"}}
           F == {x \in D : listing[x].tag \in q.facts}
           L == {x \in D : listing[x].linked}
<1>14. P \in SUBSET D /\ F \in SUBSET D /\ L \in SUBSET D
  OBVIOUS
<1> HIDE DEF P, F, L
<1>15. [m \in P |-> prefers(m)] \in Found /\ [m \in F |-> 100] \in Found /\ [m \in L |-> seeds(m)] \in Found
  <2> HIDE DEF prefers, seeds
  <2>1. /\ [m \in P |-> prefers(m)] \in [P -> 0..100] /\ [m \in F |-> 100] \in [F -> 0..100]
        /\ [m \in L |-> seeds(m)] \in [L -> 0..100]
    BY <1>12, <1>14
  <2>2. P \in SUBSET Memory /\ F \in SUBSET Memory /\ L \in SUBSET Memory
    BY <1>1, <1>14
  <2> QED BY <2>1, <2>2, FoundFacts
<1> DEFINE c1 == [m \in DOMAIN Positive(found) |-> FtsScore(found, m)]
           c2 == Positive(dense)
           c3 == Positive([m \in D |-> Share(cards[m], q.rewrites)])
           c4 == Positive([m \in D |-> Share(cards[m], q.hyde)])
           c5 == Positive(bm25)
           c6 == Positive([m \in D |-> Overlap(cards[m], q.terms)])
           c7 == Positive([m \in D |-> Share(cards[m], q.entities)])
           c8 == Positive([m \in D |-> recent(m)])
           c9 == [m \in P |-> prefers(m)]
           c10 == [m \in F |-> 100]
           c11 == [m \in L |-> seeds(m)]
<1>16. /\ c1 \in Found /\ c2 \in Found /\ c3 \in Found /\ c4 \in Found /\ c5 \in Found /\ c6 \in Found
       /\ c7 \in Found /\ c8 \in Found /\ c9 \in Found /\ c10 \in Found /\ c11 \in Found
  <2> HIDE DEF Positive, recent, prefers, seeds
  <2> QED BY <1>3, <1>6, <1>7, <1>8, <1>9, <1>10, <1>11, <1>13, <1>15
<1>17. Channel(listing, q) =
          [fts5 |-> c1, dense |-> c2, rewrite |-> c3, hyde |-> c4, bm25 |-> c5, lexical |-> c6, entity |-> c7,
           recent_current |-> c8, procedural_preference |-> c9, canonical_fact |-> c10, graph_seed |-> c11]
  BY DEF Channel, cards, stored, D, S, found, bm25, dense, P, F, L
<1> HIDE DEF c1, c2, c3, c4, c5, c6, c7, c8, c9, c10, c11
<1> QED BY <1>16, <1>17 DEF Channels, ChannelName, Semantic, Context

-----------------------------------------------------------------------------
(* Scores                                                                   *)

\* There are finitely many channels.
LEMMA ChannelNameFinite == IsFiniteSet(ChannelName)
<1> DEFINE s1 == {"dense", "entity"}
           s2 == s1 \cup {"canonical_fact"} \cup {"fts5"} \cup {"bm25"}
           s3 == s2 \cup {"lexical"} \cup {"rewrite"} \cup {"hyde"}
           s4 == s3 \cup {"recent_current"} \cup {"procedural_preference"} \cup {"graph_seed"}
<1>1. IsFiniteSet(s1)
  <2>1. s1 = {"dense"} \cup {"entity"}
    OBVIOUS
  <2> HIDE DEF s1
  <2> QED BY <2>1, FS_Singleton, FS_AddElement
<1>2. IsFiniteSet(s2)
  <2> HIDE DEF s1
  <2> QED BY <1>1, FS_AddElement
<1>3. IsFiniteSet(s3)
  <2> HIDE DEF s2
  <2> QED BY <1>2, FS_AddElement
<1>4. IsFiniteSet(s4)
  <2> HIDE DEF s3
  <2> QED BY <1>3, FS_AddElement
<1>5. s4 = ChannelName
  BY DEF ChannelName, Semantic, Context
<1> HIDE DEF s4
<1> QED BY <1>4, <1>5

\* A rank is a number.
LEMMA RankType ==
  ASSUME NEW name, NEW scores \in Found, NEW m
  PROVE  Rank(name, scores, m) \in Nat
<1> DEFINE better(x) == IF name = "fts5" THEN scores[x] < scores[m] ELSE scores[x] > scores[m]
           B == {x \in DOMAIN scores : better(x) \/ (scores[x] = scores[m] /\ x < m)}
<1>1. B \in SUBSET (DOMAIN scores)
  OBVIOUS
<1>2. Rank(name, scores, m) = 1 + Cardinality(B)
  BY DEF Rank
<1> HIDE DEF B
<1>3. B \in SUBSET Memory
  BY <1>1, FoundFacts
<1> QED BY <1>2, <1>3, MemoriesFinite

\* Fusion gives a percentage, whatever the channels found.
LEMMA FuseType ==
  ASSUME NEW live \in SUBSET Memory, NEW channels \in Channels, NEW m \in live
  PROVE  Fuse(live, channels, m) \in 0..100
<1> DEFINE hits == {n \in DOMAIN channels : m \in DOMAIN channels[n]}
           C == {x \in live : x <= m}
           share(n) == 2000 \div (60 + Rank(n, channels[n], m))
           sum == Total([n \in hits |-> share(n)])
<1>1. hits \in SUBSET ChannelName
  BY DEF Channels
<1>2. \A n \in hits : share(n) \in Nat
  <2> TAKE n \in hits
  <2>1. channels[n] \in Found
    BY <1>1 DEF Channels
  <2> DEFINE r == Rank(n, channels[n], m)
  <2>2. r \in Nat
    BY <2>1, RankType
  <2> HIDE DEF r
  <2>3. 60 + r \in Nat /\ 60 + r > 0 /\ 2000 \in Nat
    BY <2>2
  <2>4. 2000 \div (60 + r) \in Nat
    BY <2>3, QuotientType
  <2> QED BY <2>4 DEF r
<1>3. sum \in Nat
  <2> DEFINE f == [n \in hits |-> share(n)]
  <2> HIDE DEF share
  <2>1. DOMAIN f = hits /\ \A n \in DOMAIN f : f[n] \in Nat
    BY <1>2
  <2> HIDE DEF f, hits
  <2>2. IsFiniteSet(DOMAIN f)
    BY <1>1, <2>1, ChannelNameFinite, FS_Subset
  <2>3. Total(f) \in Nat
    BY <2>1, <2>2, TotalType
  <2> QED BY <2>3 DEF f
<1>4. 2000 \div (60 + Cardinality(C)) \in Nat
  <2>1. C \in SUBSET Memory
    OBVIOUS
  <2> DEFINE c == Cardinality(C)
  <2> HIDE DEF C
  <2>2. c \in Nat
    BY <2>1, MemoriesFinite
  <2> HIDE DEF c
  <2>3. 60 + c \in Nat /\ 60 + c > 0 /\ 2000 \in Nat
    BY <2>2
  <2>4. 2000 \div (60 + c) \in Nat
    BY <2>3, QuotientType
  <2> QED BY <2>4 DEF c
<1>5. RankSum(live, channels, m) = IF hits = {} THEN 2000 \div (60 + Cardinality(C)) ELSE sum
  BY DEF RankSum
<1> HIDE DEF hits, C, sum
<1>6. RankSum(live, channels, m) \in Nat
  BY <1>3, <1>4, <1>5
<1> QED BY <1>6 DEF Fuse, Least

\* The best of several channels.
LEMMA BestOfType ==
  ASSUME NEW channels \in Channels, NEW names \in SUBSET ChannelName, NEW m
  PROVE  BestOf(channels, names, m) \in 0..100
<1> DEFINE N == {c \in names : m \in DOMAIN channels[c]}
           B == {channels[n][m] : n \in N} \cup {0}
<1>1. \A n \in N : channels[n][m] \in 0..100
  <2> TAKE n \in N
  <2>1. channels[n] \in Found
    BY DEF Channels
  <2>2. channels[n] \in [DOMAIN channels[n] -> 0..100]
    BY <2>1, FoundFacts
  <2> QED BY <2>2
<1>2. B \in SUBSET (0..100) /\ B # {}
  <2> HIDE DEF N
  <2> QED BY <1>1
<1>3. BestOf(channels, names, m) = Max(B)
  BY DEF BestOf
<1> HIDE DEF B
<1> QED BY <1>2, <1>3, MaxPercent

\* Trust is a percentage.
LEMMA TrustType ==
  ASSUME NEW r \in Record
  PROVE  Trust(r) \in 0..100
<1> DEFINE a == r.confidence
           b == IF r.proven THEN 10 ELSE -12
           c == r.contradiction
           d == r.inhibition
<1>1. a \in Int /\ c \in Int /\ d \in Int
  BY DEF Record
<1>2. b \in Int
  OBVIOUS
<1>3. Trust(r) = Least(100, Most(5, a + b - c - d))
  BY DEF Trust
<1> HIDE DEF a, b, c, d
<1> QED BY <1>1, <1>2, <1>3, SMT DEF Least, Most

\* A score stays within the sum of its weights, 104.
LEMMA ScoreType ==
  ASSUME NEW r \in Record, NEW m, NEW q, NEW live \in SUBSET Memory, m \in live,
         NEW channels \in Channels, NEW graph \in 0..100
  PROVE  Score(r, m, q, live, channels, graph) \in 0..104
<1> DEFINE semantic == BestOf(channels, Semantic, m)
           context == BestOf(channels, Context, m)
           style == (IF semantic = 0 /\ r.type \in {"preference", "procedural", "schema"} THEN 12 ELSE 0)
                  + (IF /\ \A n \in Semantic : m \notin DOMAIN channels[n]
                        /\ \E n \in Context : m \in DOMAIN channels[n] THEN 20 ELSE 0)
           against == (35 * r.inhibition + 30 * r.contradiction) \div 100
           penalty == against + Staleness(r) + style + (IF q.proof /\ ~r.proven THEN 15 ELSE 0)
           f == Fuse(live, channels, m)
           t == Trust(r)
           b == Boost(r, q)
           u == r.utility
<1>1. /\ r.inhibition \in 0..100 /\ r.contradiction \in 0..100 /\ u \in 0..100 /\ r.staleness \in 0..100
  BY DEF Record
<1>2. semantic \in 0..100 /\ context \in 0..100
  <2>1. Semantic \in SUBSET ChannelName /\ Context \in SUBSET ChannelName
    BY DEF ChannelName
  <2> QED BY <2>1, BestOfType
<1>3. f \in 0..100 /\ t \in 0..100
  BY FuseType, TrustType
<1>4. b \in 0..100
  BY DEF Boost
<1>5. penalty \in Nat
  <2>1. against \in Nat
    <3> DEFINE i == r.inhibition
               c == r.contradiction
    <3>1. i \in 0..100 /\ c \in 0..100
      BY <1>1
    <3> HIDE DEF i, c
    <3>2. (35 * i + 30 * c) \div 100 \in Nat
      BY <3>1, SMT
    <3> QED BY <3>2 DEF i, c
  <2>2. Staleness(r) \in Nat
    <3>1. r.staleness \div 4 \in Nat
      BY <1>1, SMT
    <3> QED BY <3>1 DEF Staleness
  <2>3. style \in Nat
    OBVIOUS
  <2> HIDE DEF against, style
  <2> QED BY <2>1, <2>2, <2>3
<1>6. Score(r, m, q, live, channels, graph) =
         Most(0, (16 * f + 42 * semantic + 12 * context + 12 * graph + 12 * t + 4 * b + 6 * u) \div 100 - penalty)
  BY DEF Score
<1> HIDE DEF semantic, context, penalty, f, t, b, u
<1> DEFINE x == 16 * f + 42 * semantic + 12 * context + 12 * graph + 12 * t + 4 * b + 6 * u
<1>7. x \in Int /\ 0 <= x /\ x <= 10400
  BY <1>1, <1>2, <1>3, <1>4, SMT
<1>8. Score(r, m, q, live, channels, graph) = Most(0, x \div 100 - penalty)
  BY <1>6
<1> HIDE DEF x
<1> DEFINE y == x \div 100
<1>9. y \in Int /\ y <= 104
  BY <1>7, SMT
<1>10. Score(r, m, q, live, channels, graph) = Most(0, y - penalty)
  BY <1>8
<1> HIDE DEF y
<1>11. Most(0, y - penalty) \in 0..104
  BY <1>5, <1>9, SMT DEF Most
<1> QED BY <1>10, <1>11

-----------------------------------------------------------------------------
(* Activation                                                               *)

Amounts == [Memory -> Nat]
Level == 0..1000
Peaks == [Memory -> Level]
Paths == [Memory -> Seq(Memory)]
Walk == [now : Amounts, next : Amounts, score : Peaks, suppressed : SUBSET Memory, path : Paths]

\* What a path to m may be: there is none, it begins at m, or edges carry it to m.
PathTo(p, m, graph) ==
  \/ p = <<>>
  \/ p = <<m>>
  \/ Len(p) > 0 /\ p[Len(p)] = m /\ Carried(p, graph)

Walks(graph) == {w \in Walk : \A m \in Memory : PathTo(w.path[m], m, graph)}

\* What an edge transfers is a number.
LEMMA TransferType ==
  ASSUME NEW e \in Edge, NEW q
  PROVE  Transfer(e, q) \in Nat
<1> DEFINE a == Most(e.weight, 5)
           b == Most(e.confidence, 5)
           c == RelationWeight(e, q)
           d == Most(5, 100 - e.inhibition)
           f == Most(5, 100 - e.contradiction)
<1>1. /\ e.weight \in 0..100 /\ e.confidence \in 0..100 /\ e.inhibition \in 0..100
      /\ e.contradiction \in 0..100 /\ e.successes \in Nat
  BY DEF Edge
<1>2. a \in Nat /\ b \in Nat /\ d \in Nat /\ f \in Nat
  BY <1>1 DEF Most
<1>3. c \in Nat
  <2> DEFINE s == e.successes
  <2>1. s \in Nat
    BY <1>1
  <2> HIDE DEF s
  <2>2. 35 + Least(55, 8 * s) \in Nat
    BY <2>1, SMT DEF Least
  <2>3. \A r \in DOMAIN Weighed : Weighed[r] \in Nat
    BY DEF Weighed
  <2> DEFINE r == e.relation
             w == Weighed[r]
             u == 35 + Least(55, 8 * s)
  <2>4. (r \in DOMAIN Weighed => w \in Nat) /\ u \in Nat
    BY <2>2, <2>3
  <2>5. c = CASE r = "coactivated_with" -> u
              [] r = "procedure_for" -> IF q.intent = "procedural_recall" THEN 110 ELSE 35
              [] r = "preference_of" -> IF q.intent = "preference_recall" THEN 100 ELSE 30
              [] r \in DOMAIN Weighed -> w
              [] OTHER -> 35
    BY DEF RelationWeight, s
  <2> HIDE DEF c, r, w, u
  <2> QED BY <2>4, <2>5
<1>4. Transfer(e, q) = IF e.relation = "supersedes" THEN 100
                       ELSE Least(100, (((a * b * c) \div 10000) * d * f) \div 10000)
  BY DEF Transfer
<1> HIDE DEF a, b, c, d, f
<1>5. \A x, y \in Nat : x * y \in Nat
  BY SMT
<1>6. \A x \in Nat : x \div 10000 \in Nat
  BY SMT
<1>7. a * b \in Nat
  BY <1>2, <1>5
<1>8. (a * b) * c \in Nat
  BY <1>3, <1>5, <1>7
<1> DEFINE x == (a * b * c) \div 10000
<1>9. x \in Nat
  BY <1>6, <1>8
<1> HIDE DEF x
<1>10. x * d \in Nat
  BY <1>2, <1>5, <1>9
<1>11. (x * d) * f \in Nat
  BY <1>2, <1>5, <1>10
<1> DEFINE y == (x * d * f) \div 10000
<1>12. y \in Nat
  BY <1>6, <1>11
<1>13. Transfer(e, q) = IF e.relation = "supersedes" THEN 100 ELSE Least(100, y)
  BY <1>4 DEF x
<1> HIDE DEF y
<1> QED BY <1>12, <1>13 DEF Least

\* A sequence takes one more element that it does not have yet.
LEMMA InjectiveAppend ==
  ASSUME NEW S, NEW p \in Seq(S), NEW n \in S, IsInjective(p), ~Contains(p, n)
  PROVE  IsInjective(Append(p, n))
<1> DEFINE k == Len(p)
           r == Append(p, n)
<1>1. k \in Nat /\ DOMAIN p = 1..k
  OBVIOUS
<1>2. DOMAIN r = 1..(k + 1) /\ r[k + 1] = n /\ \A i \in 1..k : r[i] = p[i]
  OBVIOUS
<1>3. \A i \in 1..k : p[i] # n
  BY DEF Contains
<1> HIDE DEF k, r
<1>4. SUFFICES ASSUME NEW i \in 1..(k + 1), NEW j \in 1..(k + 1), r[i] = r[j] PROVE i = j
  BY <1>2 DEF IsInjective, r
<1>5. CASE i = k + 1 \/ j = k + 1
  <2>1. i \in 1..k \/ i = k + 1
    BY <1>1
  <2>2. j \in 1..k \/ j = k + 1
    BY <1>1
  <2> QED BY <1>2, <1>3, <1>4, <1>5, <2>1, <2>2
<1>6. CASE i # k + 1 /\ j # k + 1
  <2>1. i \in 1..k /\ j \in 1..k
    BY <1>1, <1>6
  <2>2. p[i] = p[j]
    BY <1>2, <1>4, <2>1
  <2> QED BY <1>1, <2>1, <2>2 DEF IsInjective
<1> QED BY <1>5, <1>6

\* One more edge carries a path further.
LEMMA PathExtends ==
  ASSUME NEW graph \in Seq(Edge), NEW e \in Range(graph), NEW m \in Memory, m \in {e.source, e.target},
         ~Blocked(e, m), NEW p \in Seq(Memory), p # <<>>, PathTo(p, m, graph), ~Contains(p, Other(e, m)),
         Len(Append(p, Other(e, m))) <= MaxPath
  PROVE  /\ Append(p, Other(e, m)) \in Seq(Memory)
         /\ PathTo(Append(p, Other(e, m)), Other(e, m), graph)
<1> DEFINE n == Other(e, m)
           k == Len(p)
           r == Append(p, n)
<1>1. e \in Edge
  BY DEF Range
<1>2. n \in Memory /\ {e.source, e.target} = {m, n}
  BY <1>1 DEF Other, Edge
<1>3. e.relation # "contradicts" /\ (e.relation = "supersedes" => e.source = n)
  BY <1>2 DEF Blocked, Other
<1>4. k \in Nat /\ k > 0 /\ DOMAIN p = 1..k /\ p[k] = m
  BY DEF PathTo
<1> HIDE DEF n
<1>5. r \in Seq(Memory) /\ Len(r) = k + 1 /\ DOMAIN r = 1..(k + 1) /\ r[k + 1] = n /\ \A i \in 1..k : r[i] = p[i]
  BY <1>2, <1>4
<1>6. \A i \in 1..k : p[i] # n
  BY <1>4 DEF Contains, n
<1>7. IsInjective(p) /\ \A i \in 1..(k - 1) : \E x \in Range(graph) :
          /\ {x.source, x.target} = {p[i], p[i + 1]}
          /\ x.relation # "contradicts"
          /\ x.relation = "supersedes" => x.source = p[i + 1]
  <2>1. CASE p = <<m>>
    <3>1. k = 1
      BY <2>1
    <3>2. \A i, j \in DOMAIN p : i = j
      BY <1>4, <3>1
    <3>3. 1..(k - 1) = {}
      BY <3>1
    <3> HIDE DEF k
    <3> QED BY <3>2, <3>3 DEF IsInjective
  <2>2. CASE Carried(p, graph)
    BY <2>2 DEF Carried
  <2> QED BY <2>1, <2>2 DEF PathTo
<1> HIDE DEF k, r
<1>8. IsInjective(r)
  BY <1>2, <1>7, InjectiveAppend DEF r, n
<1>9. ASSUME NEW i \in 1..k
      PROVE  \E x \in Range(graph) :
          /\ {x.source, x.target} = {r[i], r[i + 1]}
          /\ x.relation # "contradicts"
          /\ x.relation = "supersedes" => x.source = r[i + 1]
  <2>1. CASE i = k
    <3>1. r[i] = m /\ r[i + 1] = n
      BY <1>4, <1>5, <2>1
    <3> QED BY <1>2, <1>3, <3>1
  <2>2. CASE i # k
    <3>1. i \in 1..(k - 1) /\ i + 1 \in 1..k
      BY <1>4, <2>2
    <3>2. r[i] = p[i] /\ r[i + 1] = p[i + 1]
      BY <1>5, <3>1
    <3> QED BY <1>7, <3>1, <3>2
  <2> QED BY <2>1, <2>2
<1>10. Carried(r, graph)
  <2>1. Len(r) <= MaxPath
    BY DEF r, n
  <2>2. Len(r) - 1 = k
    BY <1>4, <1>5
  <2> QED BY <1>8, <1>9, <2>1, <2>2 DEF Carried
<1>11. PathTo(r, n, graph)
  <2>1. Len(r) > 0 /\ r[Len(r)] = n
    BY <1>4, <1>5
  <2> QED BY <1>10, <2>1 DEF PathTo
<1> QED BY <1>5, <1>11 DEF n, r

\* What one edge passes on leaves good paths, whatever was there.
LEMMA PassStays ==
  ASSUME NEW graph \in Seq(Edge), NEW e \in Range(graph), NEW q, NEW m \in Memory, NEW walk \in Walks(graph)
  PROVE  Pass(q, walk, m, e) \in Walks(graph)
<1> DEFINE n == Other(e, m)
           passed == (((walk.now[m] * 75) \div 100) * Transfer(e, q)) \div 100
           own == PathOf(walk, m)
           path == Append(own, n)
           next == [walk.next EXCEPT ![n] = @ + passed]
           better == ~Contains(own, n) /\ Len(path) <= MaxPath /\ Len(path) > Len(walk.path[n])
           paths == [walk.path EXCEPT ![n] = IF better THEN path ELSE @]
<1>1. e \in Edge
  BY DEF Range
<1>2. walk \in Walk /\ \A x \in Memory : PathTo(walk.path[x], x, graph)
  BY DEF Walks
<1>3. n \in Memory
  BY <1>1 DEF Other, Edge
<1>4. /\ walk.now \in [Memory -> Nat] /\ walk.next \in [Memory -> Nat] /\ walk.path \in [Memory -> Seq(Memory)]
      /\ walk.suppressed \in SUBSET Memory
  BY <1>2 DEF Walk, Amounts, Paths
<1>5. passed \in Nat
  <2> DEFINE a == walk.now[m]
             t == Transfer(e, q)
             b == (a * 75) \div 100
  <2>1. a \in Nat /\ t \in Nat
    BY <1>1, <1>4, TransferType
  <2> HIDE DEF a, t
  <2>2. b \in Nat
    BY <2>1, SMT
  <2> HIDE DEF b
  <2> DEFINE c == b * t
  <2>3. c \in Nat
    BY <2>1, <2>2, SMT
  <2> HIDE DEF c
  <2>4. c \div 100 \in Nat
    BY <2>3, SMT
  <2> QED BY <2>4 DEF a, b, c, t
<1>6. own \in Seq(Memory) /\ own # <<>> /\ PathTo(own, m, graph)
  <2>1. walk.path[m] \in Seq(Memory) /\ PathTo(walk.path[m], m, graph)
    BY <1>2, <1>4
  <2>2. <<m>> \in Seq(Memory) /\ <<m>> # <<>> /\ PathTo(<<m>>, m, graph)
    BY DEF PathTo
  <2> QED BY <2>1, <2>2 DEF PathOf
<1> HIDE DEF passed, own
<1>7. CASE m \in {e.source, e.target} /\ ~Blocked(e, m) /\ ~(passed < 20)
  <2>1. next \in [Memory -> Nat]
    BY <1>3, <1>4, <1>5
  <2>2. better => path \in Seq(Memory) /\ PathTo(path, n, graph)
    <3> HIDE DEF n
    <3> QED BY <1>6, <1>7, PathExtends DEF n
  <2> HIDE DEF better, path, n
  <2>3. paths \in [Memory -> Seq(Memory)] /\ \A x \in Memory : PathTo(paths[x], x, graph)
    <3>1. paths \in [Memory -> Seq(Memory)]
      BY <1>3, <1>4, <2>2
    <3>2. \A x \in Memory : paths[x] = IF x = n /\ better THEN path ELSE walk.path[x]
      BY <1>4
    <3> QED BY <1>2, <2>2, <3>1, <3>2
  <2> HIDE DEF next, paths
  <2>4. [walk EXCEPT !.next = next, !.path = paths] \in Walks(graph)
    <3>1. [walk EXCEPT !.next = next, !.path = paths] \in Walk
      <4>1. next \in Amounts /\ paths \in Paths
        BY <2>1, <2>3 DEF Amounts, Paths
      <4> QED BY <1>2, <4>1 DEF Walk
    <3>2. [walk EXCEPT !.next = next, !.path = paths].path = paths
      BY <1>2 DEF Walk
    <3> QED BY <2>3, <3>1, <3>2 DEF Walks
  <2>5. Pass(q, walk, m, e) = [walk EXCEPT !.next = next, !.path = paths]
    BY <1>2, <1>7 DEF Pass, passed, own, n, path, next, better, paths, Walk
  <2> QED BY <2>4, <2>5
<1>8. CASE m \in {e.source, e.target} /\ Blocked(e, m)
  <2> DEFINE suppressed == walk.suppressed \cup {n}
  <2>1. suppressed \in SUBSET Memory
    BY <1>3, <1>4
  <2>2. Pass(q, walk, m, e) = [walk EXCEPT !.suppressed = suppressed]
    BY <1>8 DEF Pass
  <2> HIDE DEF suppressed, n
  <2>3. [walk EXCEPT !.suppressed = suppressed] \in Walk /\ [walk EXCEPT !.suppressed = suppressed].path = walk.path
    BY <1>2, <2>1 DEF Walk
  <2> QED BY <1>2, <2>2, <2>3 DEF Walks
<1>9. CASE m \notin {e.source, e.target} \/ (m \in {e.source, e.target} /\ ~Blocked(e, m) /\ passed < 20)
  BY <1>9 DEF Pass, passed
<1> QED BY <1>7, <1>8, <1>9

\* A node that passes its activation on over all its edges leaves good paths.
LEMMA PassAllStays ==
  ASSUME NEW graph \in Seq(Edge), NEW q, NEW m \in Memory, NEW walk \in Walks(graph), walk.now[m] # 0
  PROVE  PassAll(q, walk, m, graph) \in Walks(graph)
<1> DEFINE n == Len(graph)
           W == Walks(graph)
           Unfolds(g) == [U \in SUBSET (DOMAIN graph) |->
                            IF U = {} THEN walk ELSE Pass(q, g[U \ {Max(U)}], m, graph[Max(U)])]
           G == [p \in (1..n) \X W |-> Pass(q, p[2], m, graph[p[1]])]
<1>1. n \in Nat /\ DOMAIN graph = 1..n
  OBVIOUS
<1> HIDE DEF n
<1>2. PassAll(q, walk, m, graph) = (CHOOSE g : g = Unfolds(g))[DOMAIN graph]
  BY DEF PassAll, FoldLeft, MapThenFoldSet
<1>3. \A i \in 1..n, w \in W : Pass(q, w, m, graph[i]) \in W
  <2> TAKE i \in 1..n, w \in W
  <2>1. graph[i] \in Range(graph)
    BY <1>1 DEF Range
  <2> QED BY <2>1, PassStays
<1>4. walk \in W
  OBVIOUS
<1> HIDE DEF W
<1>5. \E g : g = Unfolds(g)
  <2>1. G \in [(1..n) \X W -> W]
    BY <1>3
  <2>2. PICK g \in [SUBSET (1..n) -> W] : Folds(g, n, walk, G)
    <3> HIDE DEF G
    <3> QED BY <1>1, <1>4, <2>1, FoldExists
  <2>3. \A U \in SUBSET (1..n) : U # {} => G[<<Max(U), g[U \ {Max(U)}]>>] = Pass(q, g[U \ {Max(U)}], m, graph[Max(U)])
    <3> TAKE U \in SUBSET (1..n)
    <3> HAVE U # {}
    <3>1. Max(U) \in 1..n
      BY <1>1, MaxInside
    <3>2. <<Max(U), g[U \ {Max(U)}]>> \in (1..n) \X W
      BY <2>2, <3>1
    <3> QED BY <3>2
  <2> HIDE DEF G
  <2>4. g = [U \in SUBSET (1..n) |-> IF U = {} THEN walk ELSE Pass(q, g[U \ {Max(U)}], m, graph[Max(U)])]
    BY <2>2, <2>3 DEF Folds
  <2> QED BY <1>1, <2>4
<1>6. PICK g : g = Unfolds(g) /\ PassAll(q, walk, m, graph) = g[1..n]
  <2> HIDE DEF Unfolds
  <2> QED BY <1>1, <1>2, <1>5
<1>7. g[{}] \in W
  BY <1>4, <1>6
<1>8. Stays(g, n, W)
  <2>1. SUFFICES ASSUME NEW U \in SUBSET (1..n), Max(U) \in 1..n, g[U \ {Max(U)}] \in W, U # {}
                 PROVE  g[U] \in W
    BY DEF Stays
  <2>2. g[U] = Pass(q, g[U \ {Max(U)}], m, graph[Max(U)])
    BY <1>1, <1>6, <2>1
  <2> QED BY <1>3, <2>1, <2>2
<1>9. g[1..n] \in W
  BY <1>1, <1>7, <1>8, FoldStays
<1> QED BY <1>6, <1>9 DEF W

\* What the nodes pass on in a round.
Passing(q, begun, graph, order) == FoldLeft(LAMBDA w, m : PassAll(q, w, m, graph), begun, order)

\* So do all nodes, in any order.
LEMMA PassingStays ==
  ASSUME NEW graph \in Seq(Edge), NEW q, NEW order \in Seq(Memory), NEW begun \in Walks(graph)
  PROVE  Passing(q, begun, graph, order) \in Walks(graph)
<1> DEFINE n == Len(order)
           W == Walks(graph)
           Unfolds(g) == [U \in SUBSET (DOMAIN order) |->
                            IF U = {} THEN begun ELSE PassAll(q, g[U \ {Max(U)}], order[Max(U)], graph)]
           G == [p \in (1..n) \X W |-> PassAll(q, p[2], order[p[1]], graph)]
<1>1. n \in Nat /\ DOMAIN order = 1..n
  OBVIOUS
<1> HIDE DEF n
<1>2. Passing(q, begun, graph, order) = (CHOOSE g : g = Unfolds(g))[DOMAIN order]
  BY DEF Passing, FoldLeft, MapThenFoldSet
<1>3. \A i \in 1..n, w \in W : PassAll(q, w, order[i], graph) \in W
  <2> TAKE i \in 1..n, w \in W
  <2>1. order[i] \in Memory
    BY <1>1
  <2>2. w.now[order[i]] = 0 => PassAll(q, w, order[i], graph) = w
    BY DEF PassAll
  <2> QED BY <2>1, <2>2, PassAllStays
<1>4. begun \in W
  OBVIOUS
<1> HIDE DEF W
<1>5. \E g : g = Unfolds(g)
  <2>1. G \in [(1..n) \X W -> W]
    BY <1>3
  <2>2. PICK g \in [SUBSET (1..n) -> W] : Folds(g, n, begun, G)
    <3> HIDE DEF G
    <3> QED BY <1>1, <1>4, <2>1, FoldExists
  <2>3. \A U \in SUBSET (1..n) : U # {} => G[<<Max(U), g[U \ {Max(U)}]>>] = PassAll(q, g[U \ {Max(U)}], order[Max(U)], graph)
    <3> TAKE U \in SUBSET (1..n)
    <3> HAVE U # {}
    <3>1. Max(U) \in 1..n
      BY <1>1, MaxInside
    <3>2. <<Max(U), g[U \ {Max(U)}]>> \in (1..n) \X W
      BY <2>2, <3>1
    <3> QED BY <3>2
  <2> HIDE DEF G
  <2>4. g = [U \in SUBSET (1..n) |-> IF U = {} THEN begun ELSE PassAll(q, g[U \ {Max(U)}], order[Max(U)], graph)]
    BY <2>2, <2>3 DEF Folds
  <2> QED BY <1>1, <2>4
<1>6. PICK g : g = Unfolds(g) /\ Passing(q, begun, graph, order) = g[1..n]
  <2> HIDE DEF Unfolds
  <2> QED BY <1>1, <1>2, <1>5
<1>7. g[{}] \in W
  BY <1>4, <1>6
<1>8. Stays(g, n, W)
  <2>1. SUFFICES ASSUME NEW U \in SUBSET (1..n), Max(U) \in 1..n, g[U \ {Max(U)}] \in W, U # {}
                 PROVE  g[U] \in W
    BY DEF Stays
  <2>2. g[U] = PassAll(q, g[U \ {Max(U)}], order[Max(U)], graph)
    BY <1>1, <1>6, <2>1
  <2> QED BY <1>3, <2>1, <2>2
<1>9. g[1..n] \in W
  BY <1>1, <1>7, <1>8, FoldStays
<1> QED BY <1>6, <1>9 DEF W

\* The highest activation so far, at most one.
LEMMA PeakType ==
  ASSUME NEW x \in Level, NEW y \in Nat
  PROVE  Most(x, Least(1000, y)) \in Level
<1> DEFINE z == Least(1000, y)
<1>1. z \in Level
  BY DEF Least, Level
<1> HIDE DEF z
<1>2. Most(x, z) \in Level
  BY <1>1 DEF Most, Level
<1> QED BY <1>2 DEF z

\* A round leaves good paths, and no score of more than one.
LEMMA RoundStays ==
  ASSUME NEW graph \in Seq(Edge), NEW q, NEW order \in Seq(Memory), NEW walk \in Walks(graph), NEW seed \in Amounts
  PROVE  Round(q, walk, seed, graph, order) \in Walks(graph)
<1> DEFINE next == [m \in Memory |-> seed[m] \div 4]
           begun == [walk EXCEPT !.next = next]
           done == Passing(q, begun, graph, order)
           score == [m \in Memory |-> Most(done.score[m], Least(1000, done.next[m]))]
<1>1. next \in Amounts
  <2>1. \A x \in Nat : x \div 4 \in Nat
    BY SMT
  <2> QED BY <2>1 DEF Amounts
<1> HIDE DEF next
<1>2. begun \in Walks(graph)
  <2>1. walk \in Walk
    BY DEF Walks
  <2>2. begun \in Walk /\ begun.path = walk.path
    BY <1>1, <2>1 DEF Walk
  <2> QED BY <2>2 DEF Walks
<1> HIDE DEF begun
<1>3. done \in Walks(graph)
  BY <1>2, PassingStays
<1> HIDE DEF done
<1>4. done \in Walk /\ done.next \in Amounts /\ done.score \in Peaks
  BY <1>3 DEF Walks, Walk
<1>5. score \in Peaks
  <2> DEFINE peak(m) == Most(done.score[m], Least(1000, done.next[m]))
  <2>1. \A x \in Level, y \in Nat : Most(x, Least(1000, y)) \in Level
    BY PeakType
  <2>2. \A m \in Memory : done.score[m] \in Level /\ done.next[m] \in Nat
    BY <1>4 DEF Amounts, Peaks
  <2>3. \A m \in Memory : peak(m) \in Level
    BY <2>1, <2>2
  <2>4. score = [m \in Memory |-> peak(m)]
    OBVIOUS
  <2> HIDE DEF peak, score
  <2> QED BY <2>3, <2>4 DEF Peaks
<1>6. Round(q, walk, seed, graph, order) = [done EXCEPT !.now = done.next, !.score = score]
  BY <1>4 DEF Round, Passing, done, begun, next, Walk
<1> HIDE DEF score
<1>7. [done EXCEPT !.now = done.next, !.score = score] \in Walk
  BY <1>4, <1>5 DEF Walk
<1>8. [done EXCEPT !.now = done.next, !.score = score].path = done.path
  BY <1>4 DEF Walk
<1> QED BY <1>3, <1>6, <1>7, <1>8 DEF Walks

\* All rounds.
Rounds(q, begun, seed, graph, order) ==
  FoldLeft(LAMBDA walk, i : Round(q, walk, seed, graph, order), begun, [i \in 1..GraphSteps |-> i])

\* So do all rounds.
LEMMA RoundsStay ==
  ASSUME NEW graph \in Seq(Edge), NEW q, NEW order \in Seq(Memory), NEW begun \in Walks(graph), NEW seed \in Amounts
  PROVE  Rounds(q, begun, seed, graph, order) \in Walks(graph)
<1> DEFINE n == GraphSteps
           steps == [i \in 1..GraphSteps |-> i]
           W == Walks(graph)
           Unfolds(g) == [U \in SUBSET (DOMAIN steps) |->
                            IF U = {} THEN begun ELSE Round(q, g[U \ {Max(U)}], seed, graph, order)]
           G == [p \in (1..n) \X W |-> Round(q, p[2], seed, graph, order)]
<1>1. n \in Nat /\ DOMAIN steps = 1..n
  BY BoundAssumption
<1> HIDE DEF n, steps
<1>2. Rounds(q, begun, seed, graph, order) = (CHOOSE g : g = Unfolds(g))[DOMAIN steps]
  BY DEF Rounds, steps, FoldLeft, MapThenFoldSet
<1>3. \A i \in 1..n, w \in W : Round(q, w, seed, graph, order) \in W
  BY RoundStays
<1>4. begun \in W
  OBVIOUS
<1> HIDE DEF W
<1>5. \E g : g = Unfolds(g)
  <2>1. G \in [(1..n) \X W -> W]
    BY <1>3
  <2>2. PICK g \in [SUBSET (1..n) -> W] : Folds(g, n, begun, G)
    <3> HIDE DEF G
    <3> QED BY <1>1, <1>4, <2>1, FoldExists
  <2>3. \A U \in SUBSET (1..n) : U # {} => G[<<Max(U), g[U \ {Max(U)}]>>] = Round(q, g[U \ {Max(U)}], seed, graph, order)
    <3> TAKE U \in SUBSET (1..n)
    <3> HAVE U # {}
    <3>1. Max(U) \in 1..n
      BY <1>1, MaxInside
    <3>2. <<Max(U), g[U \ {Max(U)}]>> \in (1..n) \X W
      BY <2>2, <3>1
    <3> QED BY <3>2
  <2> HIDE DEF G
  <2>4. g = [U \in SUBSET (1..n) |-> IF U = {} THEN begun ELSE Round(q, g[U \ {Max(U)}], seed, graph, order)]
    BY <2>2, <2>3 DEF Folds
  <2> QED BY <1>1, <2>4
<1>6. PICK g : g = Unfolds(g) /\ Rounds(q, begun, seed, graph, order) = g[1..n]
  <2> HIDE DEF Unfolds
  <2> QED BY <1>1, <1>2, <1>5
<1>7. g[{}] \in W
  BY <1>4, <1>6
<1>8. Stays(g, n, W)
  <2>1. SUFFICES ASSUME NEW U \in SUBSET (1..n), Max(U) \in 1..n, g[U \ {Max(U)}] \in W, U # {}
                 PROVE  g[U] \in W
    BY DEF Stays
  <2>2. g[U] = Round(q, g[U \ {Max(U)}], seed, graph, order)
    BY <1>1, <1>6, <2>1
  <2> QED BY <1>3, <2>1, <2>2
<1>9. g[1..n] \in W
  BY <1>1, <1>7, <1>8, FoldStays
<1> QED BY <1>6, <1>9 DEF W

\* Activation reports paths that edges carry, and scores of at most one.
LEMMA ActivationFacts ==
  ASSUME NEW graph \in Seq(Edge), NEW q, NEW order \in Seq(Memory), NEW seeds \in SUBSET Memory
  PROVE  Activation(seeds, graph, q, order) \in Walks(graph)
<1> DEFINE seed == [m \in Memory |-> IF m \in seeds THEN 1000 \div Cardinality(seeds) ELSE 0]
           path == [m \in Memory |-> IF m \in seeds THEN <<m>> ELSE <<>>]
           begun == [now |-> seed, next |-> seed, score |-> seed, suppressed |-> {}, path |-> path]
<1>1. \A m \in Memory : seed[m] \in Level
  <2> TAKE m \in Memory
  <2> DEFINE c == Cardinality(seeds)
  <2>1. m \in seeds => c \in Nat /\ c > 0
    <3>1. IsFiniteSet(seeds) /\ c \in Nat
      BY MemoriesFinite
    <3>2. m \in seeds => c # 0
      BY <3>1, FS_EmptySet
    <3> HIDE DEF c
    <3> QED BY <3>1, <3>2
  <2> HIDE DEF c
  <2>2. m \in seeds => 1000 \div c \in Nat /\ 1000 \div c <= 1000
    <3>1. 1000 \in Nat
      OBVIOUS
    <3> QED BY <2>1, <3>1, QuotientType
  <2>3. seed[m] = IF m \in seeds THEN 1000 \div c ELSE 0
    BY DEF c
  <2> HIDE DEF seed
  <2>4. CASE m \in seeds
    <3> DEFINE x == 1000 \div c
    <3> HIDE DEF x
    <3>1. x \in Nat /\ x <= 1000 /\ seed[m] = x
      BY <2>2, <2>3, <2>4 DEF x
    <3> QED BY <3>1 DEF Level
  <2>5. CASE m \notin seeds
    BY <2>3, <2>5 DEF Level
  <2> QED BY <2>4, <2>5
<1>2. DOMAIN seed = Memory /\ seed = [m \in Memory |-> seed[m]]
  OBVIOUS
<1> HIDE DEF seed
<1>3. seed \in Amounts /\ seed \in Peaks
  <2>1. \A m \in Memory : seed[m] \in Nat
    <3> TAKE m \in Memory
    <3> DEFINE x == seed[m]
    <3>1. x \in Level
      BY <1>1
    <3> HIDE DEF x
    <3>2. x \in Nat
      BY <3>1 DEF Level
    <3> QED BY <3>2 DEF x
  <2> QED BY <1>1, <1>2, <2>1 DEF Amounts, Peaks
<1>4. path \in Paths /\ \A m \in Memory : PathTo(path[m], m, graph)
  BY DEF Paths, PathTo
<1> HIDE DEF path
<1>5. begun \in Walks(graph)
  <2>1. begun \in Walk /\ begun.path = path
    BY <1>3, <1>4 DEF Walk
  <2> HIDE DEF begun
  <2> QED BY <1>4, <2>1 DEF Walks
<1>6. Activation(seeds, graph, q, order) = Rounds(q, begun, seed, graph, order)
  BY DEF Activation, Rounds, seed, path
<1> HIDE DEF begun
<1> QED BY <1>3, <1>5, <1>6, RoundsStay

\* The paths reported.
LEMMA PathsFacts ==
  ASSUME NEW graph, NEW walk \in Walks(graph)
  PROVE  /\ PathsOf(walk) \in SUBSET Seq(Memory)
         /\ \A path \in PathsOf(walk) : Carried(path, graph)
         /\ \A m \in Memory : walk.score[m] \in Level
<1>1. walk \in Walk /\ \A m \in Memory : PathTo(walk.path[m], m, graph)
  BY DEF Walks
<1>2. walk.path \in [Memory -> Seq(Memory)] /\ walk.score \in [Memory -> Level]
  <2>1. walk.path \in Paths /\ walk.score \in Peaks
    BY <1>1 DEF Walk
  <2> QED BY <2>1 DEF Paths, Peaks
<1>3. ASSUME NEW m \in Memory, Len(walk.path[m]) > 1
      PROVE  Carried(walk.path[m], graph)
  <2>1. walk.path[m] # <<>> /\ walk.path[m] # <<m>>
    <3>1. Len(<<>>) = 0 /\ Len(<<m>>) = 1
      OBVIOUS
    <3> DEFINE p == walk.path[m]
    <3>2. p \in Seq(Memory) /\ Len(p) > 1
      BY <1>2, <1>3
    <3> HIDE DEF p
    <3>3. Len(p) # 0 /\ Len(p) # 1
      BY <3>2
    <3>4. p # <<>> /\ p # <<m>>
      BY <3>1, <3>3
    <3> QED BY <3>4 DEF p
  <2> QED BY <1>1, <2>1 DEF PathTo
<1> QED BY <1>2, <1>3 DEF PathsOf

-----------------------------------------------------------------------------
(* Diffusion                                                                *)

\* What the diffusion from the seeds reads, and the paths it may find.
WebOf(seeds) == [seeds |-> seeds, usable |-> Usable, edges |-> edges]

Spreads(seeds) ==
  {f \in [path : Seq(Memory), score : 0..100] : f.path # <<>> /\ Led(f.path, WebOf(seeds))}

\* What an edge lets through is a percentage.
LEMMA EdgeScoreType ==
  ASSUME edges \in Seq(Edge), NEW m, NEW n \in Neighbours(m)
  PROVE  EdgeScore(m, n) \in 0..100
<1> DEFINE strength(e) == (((e.weight * e.confidence) \div 100) * Most(10, 100 - e.inhibition) * Most(10, 100 - e.contradiction)) \div 10000
           between == {x \in Range(edges) : {x.source, x.target} = {m, n}}
           S == {strength(e) : e \in between}
<1>1. PICK i \in DOMAIN edges : {edges[i].source, edges[i].target} = {m, n}
  BY DEF Neighbours
<1>2. edges[i] \in between
  BY <1>1 DEF Range
<1>3. \A e \in between : e \in Edge
  BY DEF Range
<1>4. \A e \in Edge : strength(e) \in 0..100
  <2> TAKE e \in Edge
  <2> DEFINE w == e.weight
             c == e.confidence
             b == Most(10, 100 - e.inhibition)
             d == Most(10, 100 - e.contradiction)
             a == (w * c) \div 100
  <2>1. w \in 0..100 /\ c \in 0..100 /\ e.inhibition \in 0..100 /\ e.contradiction \in 0..100
    BY DEF Edge
  <2>2. b \in 0..100 /\ d \in 0..100
    <3>1. \A x \in 0..100 : Most(10, 100 - x) \in 0..100
      BY DEF Most
    <3> QED BY <2>1, <3>1
  <2> HIDE DEF w, c, b, d
  <2>3. a \in 0..100
    BY <2>1, PercentOfPercent
  <2>4. strength(e) = (a * b * d) \div 10000
    BY DEF w, c, b, d
  <2> HIDE DEF a, strength
  <2> DEFINE x == a * b
  <2>5. x \in Int /\ 0 <= x /\ x <= 10000
    <3>1. 0 <= x
      BY <2>2, <2>3, SMT
    <3>2. x <= 100 * b
      BY <2>2, <2>3, SMT
    <3> QED BY <2>2, <2>3, <3>1, <3>2, SMT
  <2>6. strength(e) = (x * d) \div 10000
    BY <2>4
  <2> HIDE DEF x
  <2> DEFINE y == x * d
  <2>7. y \in Int /\ 0 <= y /\ y <= 1000000
    <3>1. 0 <= y
      BY <2>2, <2>5, SMT
    <3>2. y <= 10000 * d
      BY <2>2, <2>5, SMT
    <3> QED BY <2>2, <2>5, <3>1, <3>2, SMT
  <2>8. strength(e) = y \div 10000
    BY <2>6
  <2> HIDE DEF y
  <2>9. y \div 10000 \in 0..100
    BY <2>7, SMT
  <2> QED BY <2>8, <2>9
<1>5. EdgeScore(m, n) = Max(S)
  BY DEF EdgeScore
<1> HIDE DEF strength, between
<1>6. S \in SUBSET (0..100) /\ S # {}
  BY <1>2, <1>3, <1>4
<1> HIDE DEF S
<1> QED BY <1>5, <1>6, MaxPercent

\* One more hop leads a path further.
LEMMA LedExtends ==
  ASSUME NEW seeds, NEW p \in Seq(Memory), p # <<>>, Led(p, WebOf(seeds)), Len(p) <= GraphDepth + 1,
         NEW n \in Neighbours(Last(p)), ~Contains(p, n)
  PROVE  Led(Append(p, n), WebOf(seeds))
<1> DEFINE web == WebOf(seeds)
           k == Len(p)
           r == Append(p, n)
<1>1. n \in Memory /\ n \in web.usable
  BY DEF Neighbours, Usable, WebOf
<1>2. \E e \in Range(web.edges) : {e.source, e.target} = {Last(p), n}
  BY DEF Neighbours, WebOf, Range
<1>3. k \in Nat /\ k > 0 /\ Last(p) = p[k] /\ k <= GraphDepth + 1 /\ GraphDepth \in Nat
  BY BoundAssumption DEF Last
<1>4. r \in Seq(Memory) /\ Len(r) = k + 1 /\ r[k + 1] = n /\ \A i \in 1..k : r[i] = p[i]
  BY <1>1
<1>5. IsInjective(p) /\ p[1] \in web.seeds
  BY DEF Led
<1>6. \A i \in 1..(k - 1) : /\ p[i + 1] \in web.usable
                           /\ \E e \in Range(web.edges) : {e.source, e.target} = {p[i], p[i + 1]}
  BY DEF Led
<1>7. IsInjective(r)
  BY <1>1, <1>5, InjectiveAppend
<1> HIDE DEF web, k, r
<1>8. ASSUME NEW i \in 1..k
      PROVE  r[i + 1] \in web.usable /\ \E e \in Range(web.edges) : {e.source, e.target} = {r[i], r[i + 1]}
  <2>1. CASE i = k
    BY <1>1, <1>2, <1>3, <1>4, <2>1
  <2>2. CASE i # k
    <3>1. i \in 1..(k - 1) /\ i + 1 \in 1..k
      BY <1>3, <2>2
    <3>2. r[i] = p[i] /\ r[i + 1] = p[i + 1]
      BY <1>4, <3>1
    <3> QED BY <1>6, <3>1, <3>2
  <2> QED BY <2>1, <2>2
<1>9. r[1] = p[1] /\ Len(r) <= GraphDepth + 2 /\ Len(r) - 1 = k
  BY <1>3, <1>4
<1>10. Led(r, web)
  BY <1>5, <1>7, <1>8, <1>9 DEF Led
<1> QED BY <1>10 DEF r, web

\* So does one round of the diffusion.
LEMMA ExtendStays ==
  ASSUME edges \in Seq(Edge), NEW seeds \in SUBSET Memory,
         NEW all \in SUBSET Spreads(seeds), NEW i \in 1..(GraphDepth + 1)
  PROVE  Extend(all, i) \in SUBSET Spreads(seeds)
<1> DEFINE fits(f) == {x \in Neighbours(Last(f.path)) : ~Contains(f.path, x) /\ Passed(f, x) >= 3}
           more(f, n) == [path |-> Append(f.path, n), score |-> Passed(f, n)]
           due == {g \in all : Len(g.path) = i}
<1>1. ASSUME NEW f \in due, NEW n \in fits(f)
      PROVE  more(f, n) \in Spreads(seeds)
  <2>1. f.path \in Seq(Memory) /\ f.score \in 0..100 /\ f.path # <<>> /\ Led(f.path, WebOf(seeds))
    BY DEF Spreads
  <2>2. n \in Neighbours(Last(f.path)) /\ ~Contains(f.path, n)
    OBVIOUS
  <2>3. n \in Memory
    BY <2>2 DEF Neighbours, Usable
  <2>4. Passed(f, n) \in 0..100
    <3> DEFINE s == f.score
               e == EdgeScore(Last(f.path), n)
               t == (s * 75) \div 100
    <3>1. e \in 0..100
      BY <2>2, EdgeScoreType
    <3>2. s \in 0..100
      BY <2>1
    <3> HIDE DEF s, e
    <3>3. t \in 0..100
      BY <3>2, SMT
    <3>4. Passed(f, n) = (t * e) \div 100
      BY DEF Passed, s, e
    <3> HIDE DEF t
    <3> QED BY <3>1, <3>3, <3>4, PercentOfPercent
  <2> DEFINE p == Append(f.path, n)
             r == f.path
  <2>5. Len(f.path) <= GraphDepth + 1
    <3>1. Len(f.path) = i
      OBVIOUS
    <3> QED BY <3>1, BoundAssumption
  <2>6. Led(p, WebOf(seeds))
    <3>1. r \in Seq(Memory) /\ r # <<>> /\ Led(r, WebOf(seeds)) /\ Len(r) <= GraphDepth + 1
          /\ n \in Neighbours(Last(r)) /\ ~Contains(r, n)
      BY <2>1, <2>2, <2>5
    <3> HIDE DEF r
    <3>2. Led(Append(r, n), WebOf(seeds))
      BY <3>1, LedExtends
    <3> QED BY <3>2 DEF r
  <2>7. p \in Seq(Memory) /\ p # <<>>
    <3>1. r \in Seq(Memory)
      BY <2>1
    <3> HIDE DEF r
    <3>2. Append(r, n) \in Seq(Memory) /\ Len(Append(r, n)) = Len(r) + 1 /\ Append(r, n)[Len(r) + 1] = n
      BY <2>3, <3>1
    <3>3. Append(r, n) # <<>>
      BY <2>3, <3>1, AppendProperties
    <3> QED BY <3>2, <3>3 DEF r
  <2> HIDE DEF p
  <2>8. more(f, n) = [path |-> p, score |-> Passed(f, n)]
    BY DEF p
  <2> HIDE DEF more
  <2>9. more(f, n) \in [path : Seq(Memory), score : 0..100] /\ more(f, n).path = p
    BY <2>4, <2>7, <2>8
  <2> QED BY <2>6, <2>7, <2>9 DEF Spreads
<1>2. Extend(all, i) = all \cup UNION {{more(f, n) : n \in fits(f)} : f \in due}
  BY DEF Extend
<1> HIDE DEF fits, more, due
<1> QED BY <1>1, <1>2

\* So does the whole diffusion.
LEMMA SpreadType ==
  ASSUME edges \in Seq(Edge), NEW seeds \in SUBSET Memory
  PROVE  Spread(seeds) \in SUBSET Spreads(seeds)
<1> DEFINE n == GraphDepth + 1
           hops == [i \in 1..(GraphDepth + 1) |-> i]
           base == {[path |-> <<m>>, score |-> 100] : m \in seeds}
           W == SUBSET Spreads(seeds)
           Unfolds(g) == [U \in SUBSET (DOMAIN hops) |->
                            IF U = {} THEN base ELSE Extend(g[U \ {Max(U)}], hops[Max(U)])]
           G == [p \in (1..n) \X W |-> Extend(p[2], hops[p[1]])]
<1>1. n \in Nat /\ DOMAIN hops = 1..n /\ n = GraphDepth + 1 /\ \A i \in 1..n : hops[i] = i
  BY BoundAssumption
<1> HIDE DEF n, hops
<1>2. Spread(seeds) = (CHOOSE g : g = Unfolds(g))[DOMAIN hops]
  BY DEF Spread, hops, base, FoldLeft, MapThenFoldSet
<1>3. \A i \in 1..n, w \in W : Extend(w, hops[i]) \in W
  BY <1>1, ExtendStays
<1>4. base \in W
  <2>1. \A m \in seeds : [path |-> <<m>>, score |-> 100] \in Spreads(seeds)
    <3> TAKE m \in seeds
    <3>1. <<m>> \in Seq(Memory) /\ <<m>> # <<>> /\ Len(<<m>>) = 1 /\ <<m>>[1] = m
      OBVIOUS
    <3> DEFINE p == <<m>>
    <3>2. DOMAIN p = {1}
      OBVIOUS
    <3> HIDE DEF p
    <3>3. p \in Seq(Memory) /\ p # <<>> /\ p[1] \in seeds /\ Len(p) = 1
      BY <3>1 DEF p
    <3>4. Led(p, WebOf(seeds))
      <4>1. IsInjective(p)
        BY <3>2 DEF IsInjective
      <4>2. Len(p) <= GraphDepth + 2 /\ 1..(Len(p) - 1) = {}
        BY <3>3, BoundAssumption
      <4> QED BY <3>3, <4>1, <4>2 DEF Led, WebOf
    <3>5. [path |-> p, score |-> 100] \in Spreads(seeds)
      BY <3>3, <3>4 DEF Spreads
    <3> QED BY <3>5 DEF p
  <2> QED BY <2>1
<1> HIDE DEF W, base
<1>5. \E g : g = Unfolds(g)
  <2>1. G \in [(1..n) \X W -> W]
    BY <1>3
  <2>2. PICK g \in [SUBSET (1..n) -> W] : Folds(g, n, base, G)
    <3> HIDE DEF G
    <3> QED BY <1>1, <1>4, <2>1, FoldExists
  <2>3. \A U \in SUBSET (1..n) : U # {} => G[<<Max(U), g[U \ {Max(U)}]>>] = Extend(g[U \ {Max(U)}], hops[Max(U)])
    <3> TAKE U \in SUBSET (1..n)
    <3> HAVE U # {}
    <3>1. Max(U) \in 1..n
      BY <1>1, MaxInside
    <3>2. <<Max(U), g[U \ {Max(U)}]>> \in (1..n) \X W
      BY <2>2, <3>1
    <3> QED BY <3>2
  <2> HIDE DEF G
  <2>4. g = [U \in SUBSET (1..n) |-> IF U = {} THEN base ELSE Extend(g[U \ {Max(U)}], hops[Max(U)])]
    BY <2>2, <2>3 DEF Folds
  <2>5. DOMAIN hops = 1..n
    BY <1>1
  <2> QED BY <2>4, <2>5
<1>6. PICK g : g = Unfolds(g) /\ Spread(seeds) = g[1..n]
  <2> HIDE DEF Unfolds
  <2> QED BY <1>1, <1>2, <1>5
<1>7. g[{}] \in W
  BY <1>4, <1>6
<1>8. Stays(g, n, W)
  <2>1. SUFFICES ASSUME NEW U \in SUBSET (1..n), Max(U) \in 1..n, g[U \ {Max(U)}] \in W, U # {}
                 PROVE  g[U] \in W
    BY DEF Stays
  <2>2. g[U] = Extend(g[U \ {Max(U)}], hops[Max(U)])
    BY <1>1, <1>6, <2>1
  <2> QED BY <1>3, <2>1, <2>2
<1>9. g[1..n] \in W
  BY <1>1, <1>7, <1>8, FoldStays
<1> QED BY <1>6, <1>9 DEF W

\* Whom diffusion reaches: the score is a percentage, and who has one is a result
\* or is stored.
LEMMA ReachedFacts ==
  ASSUME edges \in Seq(Edge), NEW seeds \in SUBSET Memory,
         NEW m \in Memory, NEW score, score = Max({f.score : f \in {g \in Spread(seeds) : Last(g.path) = m}} \cup {0})
  PROVE  score \in 0..100 /\ (score > 0 => m \in seeds \/ memories[m] # Nil)
<1> DEFINE R == {g \in Spread(seeds) : Last(g.path) = m}
           S == {f.score : f \in R} \cup {0}
<1>1. Spread(seeds) \in SUBSET Spreads(seeds)
  BY SpreadType
<1>2. \A f \in R : f.score \in 0..100 /\ (m \in seeds \/ memories[m] # Nil)
  <2> TAKE f \in R
  <2> DEFINE p == f.path
             k == Len(p)
             web == WebOf(seeds)
  <2>1. f \in Spreads(seeds) /\ Last(p) = m
    BY <1>1
  <2>2. p \in Seq(Memory) /\ p # <<>> /\ f.score \in 0..100 /\ Led(p, web)
    BY <2>1 DEF Spreads
  <2> HIDE DEF p, web
  <2>3. k \in Nat /\ k > 0 /\ p[k] = m
    BY <2>1, <2>2 DEF Last
  <2>4. p[1] \in web.seeds /\ \A i \in 1..(k - 1) : p[i + 1] \in web.usable
    BY <2>2 DEF Led
  <2> HIDE DEF k
  <2>5. CASE k = 1
    BY <2>2, <2>3, <2>4, <2>5 DEF web, WebOf
  <2>6. CASE k # 1
    <3>1. k - 1 \in 1..(k - 1) /\ (k - 1) + 1 = k
      BY <2>3, <2>6
    <3>2. p[k] \in web.usable
      BY <2>4, <3>1
    <3> QED BY <2>2, <2>3, <3>2 DEF web, WebOf, Usable
  <2> QED BY <2>5, <2>6
<1> HIDE DEF R
<1>3. S \in SUBSET (0..100) /\ S # {}
  <2> DEFINE P == 0..100
  <2>1. 0 \in P /\ \A f \in R : f.score \in P
    BY <1>2
  <2>2. S \in SUBSET P /\ S # {}
    <3> HIDE DEF P
    <3> QED BY <2>1
  <2> QED BY <2>2
<1>4. score = Max(S)
  BY DEF R
<1>5. score \in 0..100
  <2> HIDE DEF S
  <2> QED BY <1>3, <1>4, MaxPercent
<1>6. CASE R = {}
  <2>1. S = {0}
    BY <1>6
  <2>2. Max({0}) = 0
    <3> DEFINE Z == {0}
    <3>1. IsFiniteSet(Z)
      BY FS_Singleton
    <3>2. Z \in SUBSET Int /\ Z # {}
      OBVIOUS
    <3>3. Max(Z) \in Z
      <4> HIDE DEF Z
      <4> QED BY <3>1, <3>2, MaxFacts
    <3> QED BY <3>3
  <2>3. score = 0
    <3> HIDE DEF S
    <3> QED BY <1>4, <2>1, <2>2
  <2> QED BY <2>3
<1>7. CASE R # {}
  BY <1>2, <1>5, <1>7
<1> QED BY <1>6, <1>7

-----------------------------------------------------------------------------
(* The plan and the recall gate                                             *)

\* Planning leaves a question.
LEMMA PlanType ==
  ASSUME NEW q \in Asking
  PROVE  RecallPlan(ActivationPlan(q)) \in Asking
<1> DEFINE e == q.entities \cup q.terms
           h == q.historical \/ q.intent = "temporal_history"
           r == [q EXCEPT !.entities = e, !.historical = h]
<1>1. e \in SUBSET Term
  BY DEF Asking
<1>2. h \in BOOLEAN
  BY Zenon
<1>3. ActivationPlan(q) = r
  BY DEF ActivationPlan, Asking
<1> HIDE DEF e, h
<1>4. r \in Asking
  BY <1>1, <1>2 DEF Asking
<1> HIDE DEF r
<1> DEFINE t == CASE "current" \in r.says -> "current" [] "old" \in r.says -> "historical" [] OTHER -> "unknown"
           a == r.abstain \/ "unanswerable" \in r.says
           f == IF r.fact = Nil THEN r.implies ELSE r.fact
<1>5. t \in {"current", "historical", "unknown"}
  OBVIOUS
<1>6. a \in BOOLEAN
  BY Zenon
<1>7. f \in Term \cup {Nil}
  BY <1>4 DEF Asking
<1>8. RecallPlan(r) = [r EXCEPT !.temporal = t, !.abstain = a, !.fact = f]
  BY <1>4 DEF RecallPlan, Asking
<1> HIDE DEF t, a, f
<1>9. [r EXCEPT !.temporal = t, !.abstain = a, !.fact = f] \in Asking
  BY <1>4, <1>5, <1>6, <1>7 DEF Asking
<1> QED BY <1>3, <1>8, <1>9

\* A base score is a number.
LEMMA BaseType ==
  ASSUME NEW r \in Record, NEW q \in Asking, NEW score \in Int, NEW dense \in Int
  PROVE  Base(r, q, score, dense) \in Int
<1> DEFINE c == Cardinality(q.terms \cap Card(r))
           s == r.salience
           b == r.confidence
           i == r.inhibition
           w == CASE r.type = "procedural" -> 5 [] r.type = "semantic" -> 3 [] OTHER -> 0
           own == Least(100, 12 * c + (42 * s + 20 * b) \div 100) - (40 * i) \div 100 + w
<1>1. s \in Int /\ b \in Int /\ i \in Int
  BY DEF Record
<1>2. c \in Int
  <2>1. q.terms \cap Card(r) \in SUBSET Term
    BY DEF Asking
  <2> QED BY <2>1, TermsFinite
<1>3. w \in Int
  OBVIOUS
<1>4. Base(r, q, score, dense) = Max({own, score, dense})
  BY DEF Base
<1> HIDE DEF c, s, b, i, w
<1>5. (42 * s + 20 * b) \div 100 \in Int /\ (40 * i) \div 100 \in Int
  BY <1>1, SMT
<1>6. own \in Int
  <2> DEFINE x == (42 * s + 20 * b) \div 100
             y == (40 * i) \div 100
  <2>1. x \in Int /\ y \in Int
    BY <1>5
  <2>2. own = Least(100, 12 * c + x) - y + w
    OBVIOUS
  <2> HIDE DEF x, y, own
  <2> QED BY <1>2, <1>3, <2>1, <2>2 DEF Least
<1> HIDE DEF own
<1> DEFINE S == {own, score, dense}
<1>7. IsFiniteSet(S)
  <2>1. S = ({own} \cup {score}) \cup {dense}
    OBVIOUS
  <2>2. IsFiniteSet({own})
    BY FS_Singleton
  <2>3. IsFiniteSet({own} \cup {score})
    BY <2>2, FS_AddElement
  <2>4. IsFiniteSet(({own} \cup {score}) \cup {dense})
    BY <2>3, FS_AddElement
  <2> HIDE DEF S
  <2> QED BY <2>1, <2>4
<1>8. S \in SUBSET Int /\ S # {}
  BY <1>6
<1>9. Max(S) \in S
  <2> HIDE DEF S
  <2> QED BY <1>7, <1>8, MaxFacts
<1> QED BY <1>4, <1>8, <1>9

\* The score of the recall gate is a number.
LEMMA RecallScoreType ==
  ASSUME NEW r \in Record, NEW q \in Asking, NEW base \in Int, NEW bm25 \in Int, NEW graph \in Int
  PROVE  RecallScore(r, q, base, bm25, graph) \in Int
<1> DEFINE lexical == Overlap(q.terms, Card(r))
           recent == (Recency(r.uses) * 5) \div 4
           temporal == TemporalScore(r, q)
           shared == Share(Card(r), q.entities)
           about == FactScore(r, q)
           penalty == (IF Obsolete(r) THEN 45 ELSE 0)
                    + Most(r.inhibition, IF r.maturity = "inhibited" THEN 35 ELSE 0)
                    + Most(r.contradiction, IF q.temporal = "current" /\ Obsolete(r) THEN 25 ELSE 0)
                    + (IF r.maturity = "tagged" /\ r.confidence < 50 THEN 18 ELSE 0)
                    + (IF r.proven THEN 0 ELSE 8)
           sum == 24 * Most(base, lexical) + 20 * lexical + 18 * bm25 + 14 * graph + 8 * recent + 16 * temporal
                + 10 * shared + 22 * about
<1>1. lexical \in Int /\ shared \in Int
  <2>1. Card(r) \in SUBSET Term /\ q.terms \in SUBSET Term /\ q.entities \in SUBSET Term
    BY DEF Record, Card, Asking
  <2>2. lexical \in 0..100 /\ shared \in 0..100
    BY <2>1, TermsFinite, OverlapType, ShareType
  <2> HIDE DEF lexical, shared
  <2> QED BY <2>2
<1>2. recent \in Int
  <2> DEFINE x == Recency(r.uses)
  <2>1. x \in Int
    BY DEF Recency
  <2> HIDE DEF x
  <2>2. (x * 5) \div 4 \in Int
    BY <2>1, SMT
  <2> QED BY <2>2 DEF x
<1>3. temporal \in Int
  BY DEF TemporalScore
<1>4. about \in Int
  BY DEF FactScore
<1>5. penalty \in Int
  <2> DEFINE i == r.inhibition
             c == r.contradiction
             p1 == IF Obsolete(r) THEN 45 ELSE 0
             p2 == IF r.maturity = "inhibited" THEN 35 ELSE 0
             p3 == IF q.temporal = "current" /\ Obsolete(r) THEN 25 ELSE 0
             p4 == IF r.maturity = "tagged" /\ r.confidence < 50 THEN 18 ELSE 0
             p5 == IF r.proven THEN 0 ELSE 8
  <2>1. i \in Int /\ c \in Int
    BY DEF Record
  <2>2. p1 \in Int /\ p2 \in Int /\ p3 \in Int /\ p4 \in Int /\ p5 \in Int
    OBVIOUS
  <2>3. penalty = p1 + Most(i, p2) + Most(c, p3) + p4 + p5
    OBVIOUS
  <2> HIDE DEF i, c, p1, p2, p3, p4, p5, penalty
  <2> QED BY <2>1, <2>2, <2>3 DEF Most
<1>6. RecallScore(r, q, base, bm25, graph) = Most(0, sum \div 100 - penalty)
  BY DEF RecallScore
<1> HIDE DEF lexical, recent, temporal, shared, about, penalty
<1>7. sum \in Int
  <2>1. Most(base, lexical) \in Int
    BY <1>1 DEF Most
  <2> QED BY <1>1, <1>2, <1>3, <1>4, <2>1
<1> HIDE DEF sum
<1> DEFINE x == sum \div 100
<1>8. x \in Int
  BY <1>7, SMT
<1>9. RecallScore(r, q, base, bm25, graph) = Most(0, x - penalty)
  BY <1>6
<1> HIDE DEF x
<1> QED BY <1>5, <1>8, <1>9 DEF Most

\* What the recall gate lets through is in the view it opens with.
LEMMA RecallGateFacts ==
  ASSUME NEW listing \in Listing, NEW q \in Asking, NEW score, \A m \in DOMAIN listing : score[m] \in Int
  PROVE  RecallGate(listing, score, q) \in SUBSET Canonical(DOMAIN listing, listing, q)
<1> DEFINE S == DOMAIN listing
           view == Canonical(S, listing, q)
           about(m) == FactScore(listing[m], q) > 0
           moved == \E m \in S : about(m) /\ ~Obsolete(listing[m])
           gated == {m \in view : score[m] >= q.gate}
           aligned == \E m \in gated : about(m) \/ Card(listing[m]) \cap q.entities # {}
           first == {m \in gated : moved /\ about(m)}
           rest == gated \ first
           order == Ordered(first, score) \o Ordered(rest, score)
           Fits(i) == i = 1 \/ WordsOf(listing, {order[j] : j \in 1..i}) <= q.budget
           last == Min({i \in DOMAIN order : ~Fits(i)} \cup {Len(order) + 1}) - 1
           taken == {order[i] : i \in 1..Least(last, q.items)}
<1>1. view \in SUBSET S /\ S \in SUBSET Memory
  <2>1. S \in SUBSET Memory
    BY ListingFacts
  <2> QED BY <2>1 DEF Canonical
<1>2. gated \in SUBSET view
  OBVIOUS
<1> HIDE DEF view
<1>3. first \in SUBSET gated /\ rest \in SUBSET gated
  OBVIOUS
<1> HIDE DEF gated, S
<1>4. \A T \in SUBSET gated : Ordered(T, score) \in Seq(gated)
  <2> TAKE T \in SUBSET gated
  <2>1. T \in SUBSET Memory /\ \A m \in T : score[m] \in Int
    BY <1>1, <1>2 DEF S
  <2>2. T \in SUBSET Nat /\ IsFiniteSet(T)
    BY <2>1, MemoriesFinite
  <2>3. Ordered(T, score) \in Seq(T)
    BY <2>1, <2>2, OrderedType
  <2> HIDE DEF gated
  <2> QED BY <2>3
<1> HIDE DEF first, rest
<1>5. order \in Seq(gated)
  <2>1. Ordered(first, score) \in Seq(gated) /\ Ordered(rest, score) \in Seq(gated)
    BY <1>3, <1>4
  <2> QED BY <2>1
<1> HIDE DEF order
<1>6. last \in Int /\ last <= Len(order)
  <2> DEFINE n == Len(order)
             U == {i \in DOMAIN order : ~Fits(i)}
             V == U \cup {n + 1}
  <2>1. n \in Nat /\ DOMAIN order = 1..n
    BY <1>5
  <2>2. U \in SUBSET (1..n)
    BY <2>1
  <2> HIDE DEF n, U
  <2>3. IsFiniteSet(U)
    <3>1. IsFiniteSet(1..n)
      BY <2>1, FS_Interval
    <3> QED BY <2>2, <3>1, FS_Subset
  <2>4. IsFiniteSet(V)
    BY <2>3, FS_AddElement
  <2>5. V \in SUBSET Int /\ V # {} /\ n + 1 \in V
    BY <2>1, <2>2
  <2> DEFINE k == Min(V)
  <2>6. k \in V /\ \A x \in V : x >= k
    <3> HIDE DEF V
    <3> QED BY <2>4, <2>5, MinFacts
  <2>7. last = k - 1
    BY DEF n, U
  <2> HIDE DEF k, V, last
  <2>8. k \in Int /\ n + 1 >= k
    BY <2>5, <2>6
  <2>9. last \in Int /\ last <= n
    BY <2>1, <2>7, <2>8
  <2> QED BY <2>9 DEF n
<1> HIDE DEF last
<1>7. taken \in SUBSET gated
  <2> DEFINE n == Len(order)
  <2>1. n \in Nat /\ q.items \in Nat
    BY <1>5 DEF Asking
  <2> HIDE DEF n
  <2>2. \A i \in 1..Least(last, q.items) : i \in 1..n
    BY <1>6, <2>1 DEF Least, n
  <2>3. \A i \in 1..n : order[i] \in gated
    BY <1>5 DEF n
  <2> QED BY <2>2, <2>3
<1>8. RecallGate(listing, score, q) \in {{}, taken}
  BY DEF RecallGate, taken, last, order, first, rest, gated, view, S
<1> HIDE DEF taken
<1>9. taken \in SUBSET Canonical(DOMAIN listing, listing, q)
  BY <1>2, <1>7 DEF view, S
<1> QED BY <1>8, <1>9

-----------------------------------------------------------------------------
(* The inductive invariant                                                  *)

Scores == UNION {[S -> 0..104] : S \in SUBSET Memory}
Extra == [Memory -> 0..100]
Phase == {"listed", "synced", "found", "scored", "diffusing", "counting", "answered"}

Webs == [seeds : SUBSET Memory, usable : SUBSET Memory, edges : Seq(Edge)]

CallShape ==
  [phase : Phase, pass : {1, 2}, query : Asking, listing : Listing, paths : SUBSET Seq(Memory), graph : Seq(Edge),
   led : SUBSET Seq(Memory), web : Webs \cup {Nil}, extra : Extra, score : Scores, results : SUBSET Memory,
   counted : SUBSET Memory, channels : Channels \cup {<<>>}]

\* What StaleFactYields says of a call that has its results.
Yields(c) ==
  ~c.query.historical =>
    \A m \in c.results :
      FactScore(c.listing[m], c.query) > 0 /\ c.listing[m].maturity \in Stale =>
        \A x \in DOMAIN c.listing : FactScore(c.listing[x], c.query) > 0 => Obsolete(c.listing[x])

CallOK(c) ==
  /\ c \in CallShape
  /\ DOMAIN c.score \subseteq DOMAIN c.listing
  /\ c.results \subseteq DOMAIN c.listing
  /\ c.counted \subseteq c.results
  /\ c.phase \in {"found", "scored"} => c.channels \in Channels
  /\ c.phase \in {"counting", "answered"} => Yields(c)
  /\ c.phase \notin {"counting", "answered"} => c.counted = {}
  /\ \A path \in c.paths : Carried(path, c.graph)
  /\ \A path \in c.led : Led(path, c.web)

RecallInv ==
  /\ memories \in [Memory -> Record \cup {Nil}]
  /\ index \in [Memory -> (SUBSET Term) \cup {Nil}]
  /\ edges \in Seq(Edge)
  /\ call = Idle \/ CallOK(call)

\* No score is given yet.
LEMMA EmptyScores == <<>> \in Scores /\ DOMAIN <<>> = {}
<1>1. <<>> \in [{} -> 0..104] /\ DOMAIN <<>> = {}
  OBVIOUS
<1>2. {} \in SUBSET Memory
  OBVIOUS
<1> QED BY <1>1, <1>2 DEF Scores

\* The parts of a listing are listings.
LEMMA RestrictListing ==
  ASSUME NEW f, NEW S \in SUBSET Memory, \A m \in S : f[m] \in Record
  PROVE  Restrict(f, S) \in Listing /\ DOMAIN Restrict(f, S) = S
<1>1. Restrict(f, S) \in [S -> Record]
  BY DEF Restrict
<1> QED BY <1>1 DEF Listing

\* The fields of a call.
LEMMA CallFields ==
  ASSUME NEW c, CallOK(c)
  PROVE  /\ c \in CallShape
         /\ c.phase \in Phase /\ c.pass \in {1, 2} /\ c.query \in Asking /\ c.listing \in Listing
         /\ c.paths \in SUBSET Seq(Memory) /\ c.graph \in Seq(Edge) /\ c.led \in SUBSET Seq(Memory)
         /\ c.extra \in Extra /\ c.score \in Scores
         /\ c.results \in SUBSET Memory /\ c.counted \in SUBSET Memory /\ c.channels \in Channels \cup {<<>>}
         /\ c # Idle
<1>1. c \in CallShape
  BY DEF CallOK
<1>2. /\ c.phase \in Phase /\ c.pass \in {1, 2} /\ c.query \in Asking /\ c.listing \in Listing
      /\ c.paths \in SUBSET Seq(Memory) /\ c.graph \in Seq(Edge) /\ c.led \in SUBSET Seq(Memory)
         /\ c.extra \in Extra /\ c.score \in Scores
      /\ c.results \in SUBSET Memory /\ c.counted \in SUBSET Memory /\ c.channels \in Channels \cup {<<>>}
  BY <1>1 DEF CallShape
<1>3. c.phase # "idle" /\ Idle.phase = "idle"
  BY <1>2 DEF Phase, Idle
<1> QED BY <1>1, <1>2, <1>3

\* A call that is under way is no longer idle.
LEMMA CallOf ==
  ASSUME RecallInv, call.phase # "idle"
  PROVE  CallOK(call)
<1>1. Idle.phase = "idle"
  BY DEF Idle
<1> QED BY <1>1 DEF RecallInv

\* The invariant holds at first.
LEMMA RecallInvInit ==
  ASSUME RecallInit
  PROVE  RecallInv
<1>1. memories \in [Memory -> Record \cup {Nil}] /\ edges \in Seq(Edge)
  BY InputAssumption DEF RecallInit
<1>2. index \in [Memory -> (SUBSET Term) \cup {Nil}]
  BY DEF RecallInit
<1> QED BY <1>1, <1>2 DEF RecallInit, RecallInv

\* Writes of others: a memory.
LEMMA WriteMemoryInv ==
  ASSUME RecallInv, WriteMemory
  PROVE  RecallInv'
<1>1. PICK m \in Memory, d \in Draft : memories' = [memories EXCEPT ![m] = d]
  BY DEF WriteMemory
<1>2. d \in Record
  BY InputAssumption
<1>3. memories' \in [Memory -> Record \cup {Nil}]
  BY <1>1, <1>2 DEF RecallInv
<1> QED BY <1>3 DEF RecallInv, WriteMemory

\* The edges that stay when one is written are edges.
LEMMA EdgesStay ==
  ASSUME NEW S, NEW seq \in Seq(S), NEW positions \in SUBSET DOMAIN seq
  PROVE  At(seq, positions) \in Seq(S)
<1> DEFINE n == Cardinality(positions)
<1>1. Len(seq) \in Nat /\ DOMAIN seq = 1..Len(seq)
  OBVIOUS
<1>2. IsFiniteSet(positions) /\ n \in Nat
  <2>1. IsFiniteSet(1..Len(seq)) /\ positions \in SUBSET (1..Len(seq))
    BY <1>1, FS_Interval
  <2> QED BY <2>1, FS_Subset, FS_CardinalityType
<1>3. \A k \in 1..n : Position(positions, k) \in positions
  <2> TAKE k \in 1..n
  <2> DEFINE Late == {i \in positions : Cardinality({j \in positions : j <= i}) >= k}
  <2>1. positions \in SUBSET Int /\ positions # {}
    <3>1. positions \in SUBSET Int
      BY <1>1
    <3>2. n # 0
      BY <1>2
    <3> QED BY <1>2, <3>1, <3>2, FS_EmptySet
  <2> DEFINE m == Max(positions)
  <2>2. m \in positions /\ \A i \in positions : m >= i
    BY <1>2, <2>1, MaxFacts
  <2> HIDE DEF m
  <2>3. {j \in positions : j <= m} = positions
    BY <2>1, <2>2
  <2>4. m \in Late
    <3>1. n >= k
      BY <1>2
    <3>2. Cardinality({j \in positions : j <= m}) >= k
      BY <2>3, <3>1
    <3> QED BY <2>2, <3>2
  <2>5. Late \in SUBSET positions
    OBVIOUS
  <2>6. Position(positions, k) = Min(Late)
    BY DEF Position
  <2> HIDE DEF Late
  <2>7. IsFiniteSet(Late) /\ Late \in SUBSET Int /\ Late # {}
    BY <1>2, <2>1, <2>4, <2>5, FS_Subset
  <2>8. Min(Late) \in Late
    BY <2>7, MinFacts
  <2> QED BY <2>5, <2>6, <2>8
<1>4. \A k \in 1..n : seq[Position(positions, k)] \in S
  BY <1>1, <1>3
<1>5. At(seq, positions) = [k \in 1..n |-> seq[Position(positions, k)]]
  BY DEF At
<1> HIDE DEF n
<1> QED BY <1>2, <1>4, <1>5

\* Writes of others: an edge.
LEMMA WriteEdgeInv ==
  ASSUME RecallInv, WriteEdge
  PROVE  RecallInv'
<1>1. PICK e \in EdgeDraft :
        edges' = Append(At(edges, {i \in DOMAIN edges : edges[i].source # e.source \/ edges[i].target # e.target}), e)
  BY DEF WriteEdge
<1> DEFINE others == {i \in DOMAIN edges : edges[i].source # e.source \/ edges[i].target # e.target}
<1>2. e \in Edge /\ edges \in Seq(Edge)
  BY InputAssumption DEF RecallInv
<1>3. others \in SUBSET DOMAIN edges
  OBVIOUS
<1>4. edges' = Append(At(edges, others), e)
  BY <1>1
<1> HIDE DEF others
<1>5. At(edges, others) \in Seq(Edge)
  BY <1>2, <1>3, EdgesStay
<1>6. edges' \in Seq(Edge)
  BY <1>2, <1>4, <1>5
<1> QED BY <1>6 DEF RecallInv, WriteEdge

\* A search starts with a listing of what is stored.
LEMMA ListMemoriesInv ==
  ASSUME RecallInv, ListMemories
  PROVE  RecallInv'
<1> DEFINE S == {m \in Memory : memories[m] # Nil}
           listing == Restrict(memories, S)
           extra == [m \in Memory |-> 0]
<1>1. PICK q \in Query :
        call' = [phase |-> "listed", pass |-> 1, query |-> RecallPlan(ActivationPlan(q)), listing |-> listing,
                 paths |-> {}, graph |-> <<>>, led |-> {}, web |-> Nil, extra |-> extra, score |-> <<>>,
                 results |-> {}, counted |-> {}, channels |-> <<>>]
  BY DEF ListMemories
<1>2. RecallPlan(ActivationPlan(q)) \in Asking
  BY InputAssumption, PlanType
<1>3. listing \in Listing
  <2>1. S \in SUBSET Memory /\ \A m \in S : memories[m] \in Record
    BY DEF RecallInv
  <2> HIDE DEF S
  <2> QED BY <2>1, RestrictListing
<1>4. extra \in Extra
  BY DEF Extra
<1> HIDE DEF listing, extra
<1>5. <<>> \in Seq(Edge) /\ {} \in SUBSET Seq(Memory) /\ <<>> \in Channels \cup {<<>>} /\ {} \in SUBSET Memory
  OBVIOUS
<1>6. call' \in CallShape
  BY <1>1, <1>2, <1>3, <1>4, <1>5, EmptyScores DEF CallShape, Phase
<1>7. CallOK(call')
  <2>1. /\ call'.phase = "listed" /\ call'.score = <<>> /\ call'.results = {} /\ call'.counted = {} /\ call'.paths = {}
        /\ call'.led = {}
    BY <1>1
  <2> QED BY <1>6, <2>1, EmptyScores DEF CallOK
<1> QED BY <1>7 DEF RecallInv, ListMemories

\* The index takes the cards of the listing.
LEMMA SyncInv ==
  ASSUME RecallInv, Sync
  PROVE  RecallInv'
<1>1. CallOK(call)
  BY CallOf DEF Sync
<1>2. call' = [call EXCEPT !.phase = "synced"]
  BY DEF Sync
<1>3. call \in CallShape /\ call.listing \in Listing /\ call.phase = "listed"
  BY <1>1, CallFields DEF Sync
<1>4. call' \in CallShape
  BY <1>2, <1>3 DEF CallShape, Phase
<1>5. /\ call'.phase = "synced" /\ call'.score = call.score /\ call'.listing = call.listing /\ call'.results = call.results
      /\ call'.counted = call.counted /\ call'.paths = call.paths /\ call'.graph = call.graph
      /\ call'.led = call.led /\ call'.web = call.web
  BY <1>2, <1>3 DEF CallShape
<1>6. CallOK(call')
  BY <1>1, <1>3, <1>4, <1>5 DEF CallOK
<1>7. index' \in [Memory -> (SUBSET Term) \cup {Nil}]
  <2>1. index' = [m \in Memory |-> IF m \in Live(call.listing) THEN Card(call.listing[m]) ELSE index[m]]
    BY DEF Sync
  <2>2. \A m \in Live(call.listing) : Card(call.listing[m]) \in SUBSET Term
    BY <1>3, ListingFacts DEF Live
  <2> DEFINE V == (SUBSET Term) \cup {Nil}
             vector(m) == IF m \in Live(call.listing) THEN Card(call.listing[m]) ELSE index[m]
  <2>3. \A m \in Memory : index[m] \in V
    BY DEF RecallInv
  <2>4. \A m \in Live(call.listing) : Card(call.listing[m]) \in V
    BY <2>2
  <2> HIDE DEF V
  <2>5. \A m \in Memory : vector(m) \in V
    BY <2>3, <2>4
  <2>6. index' = [m \in Memory |-> vector(m)]
    BY <2>1
  <2> HIDE DEF vector
  <2>7. index' \in [Memory -> V]
    BY <2>5, <2>6
  <2> QED BY <2>7 DEF V
<1> QED BY <1>6, <1>7 DEF RecallInv, Sync

\* A failed search leaves nothing.
LEMMA FailInv ==
  ASSUME RecallInv, Fail
  PROVE  RecallInv'
BY DEF RecallInv, Fail

\* Nor does one that returns.
LEMMA ReturnInv ==
  ASSUME RecallInv, Return
  PROVE  RecallInv'
BY DEF RecallInv, Return

\* What of a listing is not deleted.
LEMMA LiveFacts ==
  ASSUME NEW listing \in Listing
  PROVE  /\ Live(listing) \in SUBSET (DOMAIN listing) /\ Live(listing) \in SUBSET Memory
         /\ Restrict(listing, Live(listing)) \in Listing
<1>1. Live(listing) \in SUBSET (DOMAIN listing) /\ DOMAIN listing \in SUBSET Memory
  BY ListingFacts DEF Live
<1>2. \A m \in Live(listing) : listing[m] \in Record
  BY <1>1, ListingFacts
<1> QED BY <1>1, <1>2, RestrictListing

\* The channels.
LEMMA SearchInv ==
  ASSUME RecallInv, Search
  PROVE  RecallInv'
<1> DEFINE channels == Channel(Restrict(call.listing, Live(call.listing)), call.query)
<1>1. CallOK(call)
  BY CallOf DEF Search
<1>2. call' = [call EXCEPT !.phase = "found", !.channels = channels]
  BY DEF Search
<1>3. call \in CallShape /\ call.listing \in Listing /\ call.query \in Asking /\ call.phase = "synced"
  BY <1>1, CallFields DEF Search
<1>4. channels \in Channels
  BY <1>3, LiveFacts, ChannelType DEF RecallInv
<1> HIDE DEF channels
<1>5. call' \in CallShape
  BY <1>2, <1>3, <1>4 DEF CallShape, Phase
<1>6. /\ call'.phase = "found" /\ call'.channels = channels /\ call'.score = call.score /\ call'.listing = call.listing
      /\ call'.results = call.results /\ call'.counted = call.counted /\ call'.paths = call.paths
      /\ call'.graph = call.graph
      /\ call'.led = call.led /\ call'.web = call.web
  BY <1>2, <1>3 DEF CallShape
<1>7. CallOK(call')
  BY <1>1, <1>3, <1>4, <1>5, <1>6 DEF CallOK
<1> QED BY <1>7 DEF RecallInv, Search

\* Where activation has ended: the call has scores, and paths that the edges it
\* has read carry.
LEMMA ActivateInv ==
  ASSUME RecallInv, Activate
  PROVE  RecallInv'
<1>1. call.phase = "found" /\ UNCHANGED <<memories, edges, index, writes, asked>>
  BY DEF Activate
<1>2. CallOK(call)
  BY <1>1, CallOf
<1>3. /\ call \in CallShape /\ call.listing \in Listing /\ call.query \in Asking /\ call.phase = "found"
      /\ call.extra \in Extra /\ call.channels \in Channels /\ edges \in Seq(Edge)
  BY <1>1, <1>2, CallFields DEF CallOK, RecallInv
<1> DEFINE q == call.query
           live == Live(call.listing)
           candidates == Candidates(live, call.channels)
           seeds == IF q.graph = "off" THEN {} ELSE candidates
<1>4. PICK order \in Order :
        LET walk == Activation(seeds, edges, q, order)
        IN call' = [call EXCEPT !.phase = "scored", !.graph = edges, !.paths = PathsOf(walk),
                     !.extra = [m \in Memory |-> IF walk.score[m] > 0 THEN walk.score[m] \div 10 ELSE call.extra[m]],
                     !.score = [m \in candidates |->
                         Score(call.listing[m], m, q, live, call.channels, walk.score[m] \div 10)]]
  BY DEF Activate
<1> DEFINE walk == Activation(seeds, edges, q, order)
           graph(m) == walk.score[m] \div 10
           extra == [m \in Memory |-> IF walk.score[m] > 0 THEN graph(m) ELSE call.extra[m]]
           scoreOf(m) == Score(call.listing[m], m, q, live, call.channels, graph(m))
           score == [m \in candidates |-> scoreOf(m)]
           paths == PathsOf(walk)
<1>5. candidates \in SUBSET live /\ live \in SUBSET (DOMAIN call.listing) /\ live \in SUBSET Memory
  BY <1>3, LiveFacts DEF Candidates
<1>6. call' = [call EXCEPT !.phase = "scored", !.graph = edges, !.paths = paths, !.extra = extra, !.score = score]
  BY <1>4
<1> HIDE DEF candidates
<1>7. walk \in Walks(edges)
  <2>1. seeds \in SUBSET Memory /\ order \in Seq(Memory)
    BY <1>5, InputAssumption
  <2> HIDE DEF seeds
  <2> QED BY <1>3, <2>1, ActivationFacts
<1> HIDE DEF walk
<1>8. /\ paths \in SUBSET Seq(Memory) /\ \A path \in paths : Carried(path, edges)
      /\ \A m \in Memory : walk.score[m] \in Level
  BY <1>7, PathsFacts
<1>9. \A m \in Memory : graph(m) \in 0..100
  <2> TAKE m \in Memory
  <2> DEFINE x == walk.score[m]
  <2>1. x \in Level
    BY <1>8
  <2> HIDE DEF x
  <2>2. x \div 10 \in 0..100
    BY <2>1, SMT DEF Level
  <2> QED BY <2>2 DEF x
<1> HIDE DEF graph
<1>10. extra \in Extra
  <2> DEFINE P == 0..100
             value(m) == IF walk.score[m] > 0 THEN graph(m) ELSE call.extra[m]
  <2>1. Extra = [Memory -> P] /\ \A m \in Memory : graph(m) \in P
    BY <1>9 DEF Extra
  <2> HIDE DEF P
  <2>2. \A m \in Memory : value(m) \in P
    BY <1>3, <2>1
  <2>3. extra = [m \in Memory |-> value(m)]
    OBVIOUS
  <2> HIDE DEF value, extra
  <2> QED BY <2>1, <2>2, <2>3
<1>11. score \in Scores /\ DOMAIN score = candidates
  <2> DEFINE P == 0..104
  <2>1. \A m \in candidates : scoreOf(m) \in P
    <3> TAKE m \in candidates
    <3>1. m \in live /\ m \in Memory /\ call.listing[m] \in Record /\ graph(m) \in 0..100
      BY <1>3, <1>5, <1>9, ListingFacts
    <3> HIDE DEF q, live
    <3>2. scoreOf(m) \in 0..104
      BY <1>3, <1>5, <3>1, ScoreType
    <3> QED BY <3>2
  <2>2. Scores = UNION {[S -> P] : S \in SUBSET Memory}
    BY DEF Scores
  <2> HIDE DEF P, scoreOf
  <2>3. score \in [candidates -> P] /\ DOMAIN score = candidates
    BY <2>1
  <2>4. candidates \in SUBSET Memory
    BY <1>5
  <2> HIDE DEF score
  <2> QED BY <2>2, <2>3, <2>4
<1> HIDE DEF paths, extra, score, q, live
<1>12. call' \in CallShape
  <2>1. "scored" \in Phase /\ paths \in SUBSET Seq(Memory) /\ extra \in Extra /\ score \in Scores /\ edges \in Seq(Edge)
    BY <1>3, <1>8, <1>10, <1>11 DEF Phase
  <2> QED BY <1>3, <1>6, <2>1 DEF CallShape
<1>13. /\ call'.phase = "scored" /\ call'.graph = edges /\ call'.paths = paths /\ call'.score = score
       /\ call'.listing = call.listing /\ call'.results = call.results /\ call'.counted = call.counted
       /\ call'.channels = call.channels /\ call'.led = call.led /\ call'.web = call.web
  BY <1>3, <1>6 DEF CallShape
<1>14. DOMAIN score \subseteq DOMAIN call.listing
  BY <1>5, <1>11
<1>15. CallOK(call')
  BY <1>2, <1>3, <1>8, <1>12, <1>13, <1>14 DEF CallOK
<1> QED BY <1>1, <1>15 DEF RecallInv

\* What the recall gate may let through yields.
LEMMA CanonicalYields ==
  ASSUME NEW S, NEW listing, NEW q, NEW m \in Canonical(S, listing, q), NEW x \in S,
         FactScore(listing[m], q) > 0, listing[m].maturity \in Stale, FactScore(listing[x], q) > 0
  PROVE  Obsolete(listing[x])
<1>1. Canonical(S, listing, q) \subseteq S /\ Obsolete(listing[m])
  BY DEF Canonical, Obsolete
<1> QED BY <1>1 DEF Canonical

\* The two gates: what activation selects is not suppressed, so nothing in it has
\* ended; what the recall gate lets through is in its view, which a memory that
\* has ended left if there was another.
LEMMA DecideInv ==
  ASSUME RecallInv, Decide
  PROVE  RecallInv'
<1>1. call.phase = "scored" /\ UNCHANGED <<memories, edges, index, writes, asked>>
  BY DEF Decide
<1>2. CallOK(call)
  BY <1>1, CallOf
<1>3. /\ call \in CallShape /\ call.listing \in Listing /\ call.query \in Asking /\ call.phase = "scored"
      /\ call.extra \in Extra /\ call.channels \in Channels /\ call.score \in Scores
      /\ DOMAIN call.score \subseteq DOMAIN call.listing
  BY <1>1, <1>2, CallFields DEF CallOK
<1> DEFINE q == call.query
           listing == call.listing
           candidates == DOMAIN call.score
           ranked == Ordered(candidates, call.score)
           shortlist == SubSeq(ranked, 1, Least(Len(ranked), 4 * q.items))
           selected == Pack(shortlist, listing, call.score, q)
           bm25 == Relevance([m \in DOMAIN listing |-> Card(listing[m])], q.terms)
           Of(f, m) == IF m \in DOMAIN f THEN f[m] ELSE 0
           dense(m) == IF m \in candidates THEN Of(call.channels.dense, m) ELSE 0
           base(m) == Base(listing[m], q, Of(call.score, m), dense(m))
           recall == [m \in DOMAIN listing |-> RecallScore(listing[m], q, base(m), bm25[m], call.extra[m])]
           gated == RecallGate(listing, recall, q)
           results == IF selected # {} THEN selected ELSE gated
           phase == IF q.graph = "diffuse" /\ call.pass = 1 /\ results # {} THEN "diffusing" ELSE "counting"
<1>4. call' = [call EXCEPT !.phase = phase, !.channels = <<>>, !.results = results]
  BY DEF Decide
<1>5. /\ DOMAIN listing \in SUBSET Memory
      /\ \A m \in DOMAIN listing : listing[m] \in Record /\ Card(listing[m]) \in SUBSET Term
  BY <1>3, ListingFacts
<1>6. candidates \in SUBSET (DOMAIN listing) /\ \A m \in candidates : call.score[m] \in Int
  <2>1. PICK S \in SUBSET Memory : call.score \in [S -> 0..104]
    BY <1>3 DEF Scores
  <2>2. \A m \in S : call.score[m] \in 0..104
    BY <2>1
  <2>3. \A x \in 0..104 : x \in Int
    OBVIOUS
  <2> QED BY <1>3, <2>1, <2>2, <2>3
<1>7. selected \in SUBSET {m \in candidates : ~Suppressed(listing[m], q)}
  <2>1. candidates \in SUBSET Memory
    BY <1>5, <1>6
  <2> HIDE DEF candidates
  <2>2. ranked \in Seq(candidates)
    BY <1>6, <2>1, MemoriesFinite, OrderedType
  <2> HIDE DEF ranked
  <2>3. shortlist \in Seq(candidates)
    <3> DEFINE n == Len(ranked)
               k == Least(n, 4 * q.items)
    <3>1. n \in Nat /\ q.items \in Nat
      BY <1>3, <2>2 DEF Asking
    <3>2. k \in Int /\ k <= n
      <4> DEFINE i == q.items
      <4> HIDE DEF n, i
      <4> QED BY <3>1 DEF Least, i
    <3>3. shortlist = SubSeq(ranked, 1, k)
      OBVIOUS
    <3> HIDE DEF k
    <3>4. SubSeq(ranked, 1, k) \in Seq(candidates)
      BY <2>2, <3>2, SubSeqProperties DEF n
    <3> QED BY <3>3, <3>4
  <2> HIDE DEF shortlist
  <2> QED BY <2>3, PackFacts
<1> HIDE DEF selected
<1>8. \A m \in DOMAIN listing : bm25[m] \in Int
  <2> DEFINE cards == [m \in DOMAIN listing |-> Card(listing[m])]
  <2>1. DOMAIN cards = DOMAIN listing /\ \A m \in DOMAIN cards : cards[m] \in SUBSET Term
    BY <1>5
  <2>2. q.terms \in SUBSET Term
    BY <1>3 DEF Asking
  <2> HIDE DEF cards, listing
  <2>3. Relevance(cards, q.terms) \in [DOMAIN cards -> 0..100]
    BY <1>5, <2>1, <2>2, RelevanceType
  <2>4. bm25 = Relevance(cards, q.terms)
    BY DEF cards
  <2> HIDE DEF bm25
  <2>5. \A m \in DOMAIN listing : bm25[m] \in 0..100
    BY <2>1, <2>3, <2>4
  <2>6. \A x \in 0..100 : x \in Int
    OBVIOUS
  <2> QED BY <2>5, <2>6
<1> HIDE DEF bm25
<1>9. \A m \in DOMAIN listing : base(m) \in Int
  <2> TAKE m \in DOMAIN listing
  <2>1. Of(call.score, m) \in Int
    BY <1>6
  <2>2. dense(m) \in Int
    <3>1. call.channels.dense \in Found
      <4>1. "dense" \in ChannelName
        BY DEF ChannelName, Semantic
      <4>2. call.channels["dense"] \in Found
        BY <1>3, <4>1 DEF Channels
      <4> QED BY <4>2
    <3> DEFINE d == call.channels.dense
    <3> HIDE DEF d
    <3>2. d \in [DOMAIN d -> 0..100]
      BY <3>1, FoundFacts DEF d
    <3>3. m \in DOMAIN d => d[m] \in Int
      <4>1. m \in DOMAIN d => d[m] \in 0..100
        BY <3>2
      <4>2. \A x \in 0..100 : x \in Int
        OBVIOUS
      <4> QED BY <4>1, <4>2
    <3>4. dense(m) = IF m \in candidates THEN IF m \in DOMAIN d THEN d[m] ELSE 0 ELSE 0
      BY DEF d
    <3> HIDE DEF dense
    <3> QED BY <3>3, <3>4
  <2> DEFINE s == Of(call.score, m)
             d == dense(m)
  <2>3. s \in Int /\ d \in Int /\ base(m) = Base(listing[m], q, s, d)
    BY <2>1, <2>2
  <2> HIDE DEF s, d, base
  <2> QED BY <1>3, <1>5, <2>3, BaseType
<1> HIDE DEF base
<1>10. \A m \in DOMAIN listing : recall[m] \in Int
  <2> TAKE m \in DOMAIN listing
  <2>1. call.extra[m] \in Int
    <3>1. call.extra[m] \in 0..100
      BY <1>3, <1>5 DEF Extra
    <3>2. \A x \in 0..100 : x \in Int
      OBVIOUS
    <3> QED BY <3>1, <3>2
  <2>2. RecallScore(listing[m], q, base(m), bm25[m], call.extra[m]) \in Int
    BY <1>3, <1>5, <1>8, <1>9, <2>1, RecallScoreType
  <2> QED BY <2>2
<1> HIDE DEF recall
<1>11. gated \in SUBSET Canonical(DOMAIN listing, listing, q)
  BY <1>3, <1>10, RecallGateFacts
<1> HIDE DEF gated
<1>12. results \in SUBSET (DOMAIN listing) /\ results \in SUBSET Memory
  <2>1. Canonical(DOMAIN listing, listing, q) \subseteq DOMAIN listing
    BY DEF Canonical
  <2> QED BY <1>5, <1>6, <1>7, <1>11, <2>1
<1>13. ASSUME ~q.historical, NEW m \in results, FactScore(listing[m], q) > 0, listing[m].maturity \in Stale,
              NEW x \in DOMAIN listing, FactScore(listing[x], q) > 0
       PROVE  Obsolete(listing[x])
  <2>1. CASE m \in selected
    <3>1. ~Suppressed(listing[m], q)
      BY <1>7, <2>1
    <3> QED BY <1>13, <3>1 DEF Suppressed, Stale
  <2>2. CASE m \in gated
    <3>1. m \in Canonical(DOMAIN listing, listing, q)
      BY <1>11, <2>2
    <3> QED BY <1>13, <3>1, CanonicalYields
  <2> QED BY <2>1, <2>2
<1> HIDE DEF results
<1>14. phase \in {"diffusing", "counting"}
  OBVIOUS
<1> HIDE DEF phase
<1>15. call' \in CallShape
  BY <1>3, <1>4, <1>12, <1>14 DEF CallShape, Phase
<1>16. /\ call'.phase = phase /\ call'.query = q /\ call'.results = results
       /\ call'.score = call.score /\ call'.listing = listing
       /\ call'.counted = call.counted /\ call'.paths = call.paths /\ call'.graph = call.graph
       /\ call'.led = call.led /\ call'.web = call.web
  BY <1>3, <1>4 DEF CallShape
<1>17. Yields(call')
  BY <1>13, <1>16 DEF Yields
<1>18. /\ call.counted = {} /\ \A path \in call.paths : Carried(path, call.graph)
       /\ \A path \in call.led : Led(path, call.web)
  BY <1>2, <1>3 DEF CallOK
<1> HIDE DEF q, listing
<1>19. CallOK(call')
  <2>1. DOMAIN call.score \subseteq DOMAIN listing
    BY <1>3 DEF listing
  <2> QED BY <1>12, <1>14, <1>15, <1>16, <1>17, <1>18, <2>1 DEF CallOK
<1> QED BY <1>1, <1>19 DEF RecallInv

\* Who joins a listing is stored.
LEMMA DiffuseInv ==
  ASSUME RecallInv, Diffuse
  PROVE  RecallInv'
<1>1. call.phase = "diffusing" /\ UNCHANGED <<memories, edges, index, writes, asked>>
  BY DEF Diffuse
<1>2. CallOK(call)
  BY <1>1, CallOf
<1>3. /\ call \in CallShape /\ call.listing \in Listing /\ call.query \in Asking /\ call.phase = "diffusing"
      /\ call.results \in SUBSET Memory /\ call.score \in Scores /\ call.results \subseteq DOMAIN call.listing
      /\ DOMAIN call.score \subseteq DOMAIN call.listing
  BY <1>1, <1>2, CallFields DEF CallOK
<1>4. memories \in [Memory -> Record \cup {Nil}] /\ edges \in Seq(Edge)
  BY DEF RecallInv
<1> DEFINE seeds == {m \in call.results : call.listing[m].maturity \notin {"deleted", "obsolete", "inhibited"}}
           spread == Spread(seeds)
           reach(m) == Max({f.score : f \in {g \in spread : Last(g.path) = m}} \cup {0})
           score == [m \in Memory |-> reach(m)]
           reached == {m \in Memory : score[m] > 0}
           ranked == Ordered(reached, score)
           joined == {ranked[i] : i \in 1..Least(Len(ranked), call.query.items)} \ call.results
           led == {f.path : f \in {g \in spread : Len(g.path) > 1}}
           web == [seeds |-> seeds, usable |-> Usable, edges |-> edges]
           D == DOMAIN call.listing \cup joined
           listing == [m \in D |-> IF m \in joined THEN memories[m] ELSE call.listing[m]]
<1>5. call' = [call EXCEPT !.phase = "listed", !.pass = 2, !.extra = score, !.led = led, !.web = web, !.listing = listing]
  BY DEF Diffuse
<1>6. led \in SUBSET Seq(Memory) /\ web \in Webs /\ \A path \in led : Led(path, web)
  <2>1. seeds \in SUBSET Memory /\ Usable \in SUBSET Memory
    BY <1>3 DEF Usable
  <2> HIDE DEF seeds
  <2>2. web = WebOf(seeds) /\ web \in Webs
    BY <1>4, <2>1 DEF WebOf, Webs
  <2>3. spread \in SUBSET Spreads(seeds)
    BY <1>4, <2>1, SpreadType
  <2> HIDE DEF web
  <2>4. \A f \in spread : f.path \in Seq(Memory) /\ Led(f.path, web)
    BY <2>2, <2>3 DEF Spreads
  <2> HIDE DEF spread
  <2> QED BY <2>2, <2>4
<1> HIDE DEF led, web
<1>7. \A m \in Memory : reach(m) \in 0..100 /\ (reach(m) > 0 => m \in seeds \/ memories[m] # Nil)
  <2>1. seeds \in SUBSET Memory
    BY <1>3
  <2> HIDE DEF seeds
  <2> TAKE m \in Memory
  <2> DEFINE r == reach(m)
  <2>2. r = Max({f.score : f \in {g \in Spread(seeds) : Last(g.path) = m}} \cup {0})
    OBVIOUS
  <2> HIDE DEF r
  <2>3. r \in 0..100 /\ (r > 0 => m \in seeds \/ memories[m] # Nil)
    BY <1>4, <2>1, <2>2, ReachedFacts
  <2> QED BY <2>3 DEF r
<1> HIDE DEF reach
<1>8. score \in Extra
  <2> DEFINE P == 0..100
  <2>1. Extra = [Memory -> P] /\ \A m \in Memory : reach(m) \in P
    BY <1>7 DEF Extra
  <2> HIDE DEF P
  <2> QED BY <2>1
<1>9. \A m \in reached : m \in seeds \/ memories[m] # Nil
  BY <1>7
<1>10. reached \in SUBSET Memory /\ \A m \in reached : score[m] \in Int
  <2>1. \A x \in 0..100 : x \in Int
    OBVIOUS
  <2> QED BY <1>7, <2>1
<1> HIDE DEF reached, score
<1>11. ranked \in Seq(reached)
  BY <1>10, MemoriesFinite, OrderedType
<1> HIDE DEF ranked
<1>12. joined \in SUBSET reached
  <2> DEFINE n == Len(ranked)
             k == call.query.items
  <2>1. n \in Nat /\ k \in Nat
    BY <1>3, <1>11 DEF Asking
  <2>2. \A i \in 1..n : ranked[i] \in reached
    BY <1>11
  <2> HIDE DEF n, k
  <2>3. \A i \in 1..Least(n, k) : i \in 1..n
    BY <2>1 DEF Least
  <2>4. joined = {ranked[i] : i \in 1..Least(n, k)} \ call.results
    BY DEF n, k
  <2> HIDE DEF joined
  <2> QED BY <2>2, <2>3, <2>4
<1>13. joined \in SUBSET Memory /\ \A m \in joined : memories[m] \in Record
  <2>1. \A m \in joined : m \notin seeds
    OBVIOUS
  <2>2. joined \in SUBSET Memory
    BY <1>10, <1>12
  <2> HIDE DEF joined, seeds
  <2>3. \A m \in joined : memories[m] # Nil
    BY <1>9, <1>12, <2>1
  <2> QED BY <1>4, <2>2, <2>3
<1> HIDE DEF joined
<1>14. D \in SUBSET Memory /\ \A m \in DOMAIN call.listing : call.listing[m] \in Record
  BY <1>3, <1>13, ListingFacts
<1>15. listing \in Listing /\ DOMAIN listing = D
  <2>1. \A m \in D : (IF m \in joined THEN memories[m] ELSE call.listing[m]) \in Record
    BY <1>13, <1>14
  <2> HIDE DEF D
  <2>2. listing \in [D -> Record]
    BY <2>1
  <2> HIDE DEF listing
  <2> QED BY <1>14, <2>2 DEF Listing
<1> HIDE DEF listing
<1>16. DOMAIN call.listing \subseteq DOMAIN listing
  BY <1>15
<1> HIDE DEF D
<1>17. call' \in CallShape
  <2>1. "listed" \in Phase /\ 2 \in {1, 2}
    BY DEF Phase
  <2> QED BY <1>3, <1>5, <1>8, <1>15, <1>6, <2>1 DEF CallShape
<1>18. /\ call'.phase = "listed" /\ call'.listing = listing /\ call'.results = call.results /\ call'.score = call.score
       /\ call'.counted = call.counted /\ call'.paths = call.paths /\ call'.graph = call.graph
       /\ call'.led = led /\ call'.web = web
  BY <1>3, <1>5 DEF CallShape
<1>19. call.counted = {} /\ \A path \in call.paths : Carried(path, call.graph)
  BY <1>2, <1>3 DEF CallOK
<1>20. CallOK(call')
  BY <1>3, <1>16, <1>17, <1>18, <1>19, <1>6 DEF CallOK
<1> QED BY <1>1, <1>20 DEF RecallInv

\* Counting writes back records.
LEMMA CountInv ==
  ASSUME RecallInv, Count
  PROVE  RecallInv'
<1>1. CallOK(call)
  BY CallOf DEF Count
<1>2. /\ call \in CallShape /\ call.listing \in Listing /\ call.phase = "counting" /\ call.results \in SUBSET Memory
      /\ call.results \subseteq DOMAIN call.listing /\ call.counted \subseteq call.results
  BY <1>1, CallFields DEF Count, CallOK
<1> DEFINE m == Min(call.results \ call.counted)
<1>3. CASE call.results = call.counted
  <2>1. call' = [call EXCEPT !.phase = "answered"] /\ memories' = memories
    BY <1>3 DEF Count
  <2>2. call' \in CallShape
    BY <1>2, <2>1 DEF CallShape, Phase
  <2>3. /\ call'.phase = "answered" /\ call'.listing = call.listing /\ call'.results = call.results
        /\ call'.score = call.score /\ call'.counted = call.counted /\ call'.paths = call.paths
        /\ call'.graph = call.graph
        /\ call'.led = call.led /\ call'.web = call.web /\ call'.query = call.query
    BY <1>2, <2>1 DEF CallShape
  <2>4. Yields(call) => Yields(call')
    BY <2>3 DEF Yields
  <2>5. CallOK(call')
    BY <1>1, <1>2, <2>2, <2>3, <2>4 DEF CallOK
  <2> QED BY <2>1, <2>5 DEF RecallInv, Count
<1>4. CASE call.results # call.counted
  <2>1. /\ memories' = [memories EXCEPT ![m] = [call.listing[m] EXCEPT !.uses = Least(@ + 1, MaxUses)]]
        /\ call' = [call EXCEPT !.counted = call.counted \cup {m}]
    BY <1>2, <1>4 DEF Count, CallShape
  <2>2. m \in call.results
    <3> DEFINE S == call.results \ call.counted
    <3>1. S \in SUBSET Memory /\ S # {}
      BY <1>2, <1>4
    <3> HIDE DEF S
    <3>2. IsFiniteSet(S) /\ S \in SUBSET Int
      BY <3>1, MemoriesFinite
    <3>3. Min(S) \in S
      BY <3>1, <3>2, MinFacts
    <3> QED BY <3>3 DEF S
  <2> HIDE DEF m
  <2>3. memories' \in [Memory -> Record \cup {Nil}]
    <3> DEFINE r == call.listing[m]
               u == Least(r.uses + 1, MaxUses)
    <3>1. r \in Record
      BY <1>2, <2>2, ListingFacts
    <3>2. u \in Nat
      <4>1. r.uses \in Nat /\ MaxUses \in Nat
        BY <3>1, BoundAssumption DEF Record
      <4> QED BY <4>1 DEF Least
    <3>3. memories' = [memories EXCEPT ![m] = [r EXCEPT !.uses = u]]
      BY <2>1, <3>1 DEF Record
    <3> HIDE DEF r, u
    <3>4. [r EXCEPT !.uses = u] \in Record
      BY <3>1, <3>2 DEF Record
    <3> DEFINE v == [r EXCEPT !.uses = u]
    <3> HIDE DEF v
    <3>5. memories' = [memories EXCEPT ![m] = v] /\ v \in Record
      BY <3>3, <3>4 DEF v
    <3> QED BY <3>5 DEF RecallInv
  <2> DEFINE counted == call.counted \cup {m}
  <2>4. counted \in SUBSET Memory /\ counted \subseteq call.results
    BY <1>2, <2>2
  <2>5. call' = [call EXCEPT !.counted = counted]
    BY <2>1
  <2> HIDE DEF counted
  <2>6. call' \in CallShape
    BY <1>2, <2>4, <2>5 DEF CallShape
  <2>7. /\ call'.phase = "counting" /\ call'.listing = call.listing /\ call'.results = call.results
        /\ call'.score = call.score /\ call'.counted = counted /\ call'.paths = call.paths
        /\ call'.graph = call.graph
        /\ call'.led = call.led /\ call'.web = call.web /\ call'.query = call.query
    BY <1>2, <2>5 DEF CallShape
  <2>8. Yields(call) => Yields(call')
    BY <2>7 DEF Yields
  <2>9. CallOK(call')
    BY <1>1, <1>2, <2>4, <2>6, <2>7, <2>8 DEF CallOK
  <2> QED BY <2>3, <2>9 DEF RecallInv, Count
<1> QED BY <1>3, <1>4

-----------------------------------------------------------------------------
(* The theorems                                                             *)

\* The invariant holds in every reachable state.
LEMMA RecallInvCorrect == RecallSpec => []RecallInv
<1>1. RecallInit => RecallInv
  BY RecallInvInit
<1>2. RecallInv /\ [RecallNext]_recallVars => RecallInv'
  <2> SUFFICES ASSUME RecallInv, [RecallNext]_recallVars PROVE RecallInv'
    OBVIOUS
  <2>1. CASE UNCHANGED recallVars
    BY <2>1 DEF recallVars, RecallInv
  <2>2. CASE WriteMemory
    BY <2>2, WriteMemoryInv
  <2>3. CASE WriteEdge
    BY <2>3, WriteEdgeInv
  <2>4. CASE ListMemories
    BY <2>4, ListMemoriesInv
  <2>5. CASE Sync
    BY <2>5, SyncInv
  <2>6. CASE Fail
    BY <2>6, FailInv
  <2>7. CASE Search
    BY <2>7, SearchInv
  <2>8. CASE Activate
    BY <2>8, ActivateInv
  <2>9. CASE Decide
    BY <2>9, DecideInv
  <2>10. CASE Diffuse
    BY <2>10, DiffuseInv
  <2>11. CASE Count
    BY <2>11, CountInv
  <2>12. CASE Return
    BY <2>12, ReturnInv
  <2> QED BY <2>1, <2>2, <2>3, <2>4, <2>5, <2>6, <2>7, <2>8, <2>9, <2>10, <2>11, <2>12 DEF RecallNext
<1> QED BY <1>1, <1>2, PTL DEF RecallSpec

\* It implies the three properties.
LEMMA RecallInvImplies == RecallInv => RecallTypeOK /\ StaleFactYields /\ PathsCarry
<1> SUFFICES ASSUME RecallInv PROVE RecallTypeOK /\ StaleFactYields /\ PathsCarry
  OBVIOUS
<1>1. Idle.phase = "idle"
  BY DEF Idle
<1>2. RecallTypeOK
  <2>1. CASE call = Idle
    BY <1>1, <2>1 DEF RecallInv, RecallTypeOK
  <2>2. CASE CallOK(call)
    <3>1. call.results \subseteq DOMAIN call.listing
      BY <2>2 DEF CallOK
    <3>2. \A m \in DOMAIN call.score : call.score[m] \in 0..104
      <4>1. call.score \in Scores
        BY <2>2, CallFields
      <4>2. PICK S \in SUBSET Memory : call.score \in [S -> 0..104]
        BY <4>1 DEF Scores
      <4> QED BY <4>2
    <3> QED BY <3>1, <3>2 DEF RecallInv, RecallTypeOK
  <2> QED BY <2>1, <2>2 DEF RecallInv
<1>3. Decided => CallOK(call)
  BY <1>1 DEF Decided, RecallInv
<1>4. StaleFactYields
  BY <1>3 DEF StaleFactYields, Decided, CallOK, Yields
<1>5. PathsCarry
  BY <1>3 DEF PathsCarry, CallOK
<1> QED BY <1>2, <1>4, <1>5

\* Every record, vector and score has its type in each reachable state, and a
\* score stays within the sum of its weights, for any memories, edges, questions
\* and writes of others (run_activation_retrieval() and _score()).
THEOREM RecallTypeCorrect == RecallSpec => []RecallTypeOK
BY RecallInvCorrect, RecallInvImplies, PTL

\* No answer has a memory about the fact that has ended while the listing has one
\* about it that is not stale, whichever gate it comes from (_gate_and_pack() and
\* run_recall()) and after diffusion too.
THEOREM StaleFactYieldsCorrect == RecallSpec => []StaleFactYields
BY RecallInvCorrect, RecallInvImplies, PTL

\* Every path that a search reports visits no memory twice and is not longer than
\* its limit. Those of the activation are carried by the edges it has read
\* (ppr_activate()); those of the diffusion lead from results that have not ended
\* over edges it has read, of any relation, to stored memories that are not stale
\* (graph_diffuse()).
THEOREM PathsCarryCorrect == RecallSpec => []PathsCarry
BY RecallInvCorrect, RecallInvImplies, PTL
=============================================================================
