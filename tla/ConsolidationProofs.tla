-------------------------- MODULE ConsolidationProofs --------------------------
(***************************************************************************)
(* What Consolidation does for any number of threads, memories and policies: *)
(* the structure stays rooted in the store, a sleep that reports is whole,    *)
(* nothing inferred hides a memory and no edge outlasts its evidence.         *)
(***************************************************************************)
EXTENDS Consolidation, FiniteSetTheorems, SequenceTheorems, WellFoundedInduction, TLAPS

-----------------------------------------------------------------------------
(* Minima and subsequences                                                  *)

\* A set of numbers that has a member has a least one. (A number n is taken for
\* the set 0..n: finite sets have no endless chain of smaller ones.)
LEMMA LeastNatural ==
  ASSUME NEW T \in SUBSET Nat, NEW t \in T
  PROVE  \E n \in T : \A m \in T : n <= m
<1> DEFINE F == {0..n : n \in {m \in T : m <= t}}
<1>1. IsFiniteSet(0..t)
  BY FS_Interval
<1>2. F \subseteq FiniteSubsetsOf(0..t) /\ F # {}
  <2>1. \A U \in F : U \subseteq 0..t
    OBVIOUS
  <2>2. \A U \in F : IsFiniteSet(U)
    BY <1>1, <2>1, FS_Subset
  <2>3. 0..t \in F
    OBVIOUS
  <2> QED BY <2>1, <2>2, <2>3 DEF FiniteSubsetsOf
<1>3. \E U \in F : \A V \in F : <<V, U>> \notin StrictSubsetOrdering(0..t)
  <2> HIDE DEF F
  <2> QED BY <1>2, FS_StrictSubsetOrderingWellFounded, WFMin
<1>4. PICK n \in T : n <= t /\ \A V \in F : <<V, 0..n>> \notin StrictSubsetOrdering(0..t)
  BY <1>3
<1>5. ASSUME NEW m \in T, m < n PROVE FALSE
  <2>1. 0..m \in F /\ 0..m \subseteq 0..n /\ 0..n \subseteq 0..t
    BY <1>4, <1>5
  <2>2. n \in 0..n /\ n \notin 0..m
    BY <1>5
  <2> QED BY <1>4, <2>1, <2>2 DEF StrictSubsetOrdering
<1> QED BY <1>4, <1>5

\* The k-th of at least k positions is one of them.
LEMMA PositionType ==
  ASSUME NEW n \in Nat, NEW S, \A i \in S : i \in Nat /\ 1 <= i /\ i <= n,
         NEW k \in Nat, 1 <= k, k <= Cardinality(S)
  PROVE  Position(S, k) \in S
<1> DEFINE Count(i) == Cardinality({j \in S : j <= i})
           Late == {i \in S : Count(i) >= k}
<1>1. S # {}
  BY FS_EmptySet
<1>2. \E m \in S : \A i \in S : i <= m
  <2>1. \A i \in S : n - i \in Nat
    OBVIOUS
  <2>2. \E d \in {n - i : i \in S} : \A e \in {n - i : i \in S} : d <= e
    BY <1>1, <2>1, LeastNatural
  <2>3. \E m \in S : \A i \in S : n - m <= n - i
    BY <2>2
  <2> QED BY <2>3
<1>3. PICK m \in S : \A i \in S : i <= m
  BY <1>2
<1>4. {j \in S : j <= m} = S
  BY <1>3
<1>5. m \in Late
  BY <1>3, <1>4
<1>6. Late \in SUBSET Nat /\ Late \subseteq S
  OBVIOUS
<1>7. \E i \in Late : \A j \in Late : i <= j
  <2> HIDE DEF Late
  <2> QED BY <1>5, <1>6, LeastNatural
<1>8. Min(Late) \in Late
  <2> HIDE DEF Late
  <2> QED BY <1>7 DEF Min
<1> QED BY <1>6, <1>8 DEF Position

\* What is left of a sequence when some of its elements are taken out, as
\* ReplayClusters leaves the clusters of one memory, is a sequence of its elements.
LEMMA SubsequenceType ==
  ASSUME NEW S, NEW seq \in Seq(S), NEW positions \in SUBSET DOMAIN seq
  PROVE  /\ At(seq, positions) \in Seq(S)
         /\ \A k \in DOMAIN At(seq, positions) : \E i \in positions : At(seq, positions)[k] = seq[i]
<1>1. Len(seq) \in Nat /\ DOMAIN seq = 1..Len(seq)
  OBVIOUS
<1>2. Cardinality(positions) \in Nat
  <2>1. IsFiniteSet(1..Len(seq)) /\ positions \in SUBSET (1..Len(seq))
    BY <1>1, FS_Interval
  <2> QED BY <2>1, FS_Subset, FS_CardinalityType
<1>3. \A k \in 1..Cardinality(positions) : Position(positions, k) \in positions
  BY <1>1, <1>2, PositionType
<1>4. At(seq, positions) \in [1..Cardinality(positions) -> S]
  BY <1>1, <1>3 DEF At
<1>5. \A k \in 1..Cardinality(positions) : At(seq, positions)[k] = seq[Position(positions, k)]
  BY DEF At
<1> QED BY <1>2, <1>3, <1>4, <1>5

\* The smaller of two numbers.
LEMMA MinOfTwo ==
  ASSUME NEW a \in Nat, NEW b \in Nat
  PROVE  Min({a, b}) = IF a <= b THEN a ELSE b
<1>1. \E x \in {a, b} : \A y \in {a, b} : x <= y
  OBVIOUS
<1> QED BY <1>1 DEF Min

-----------------------------------------------------------------------------
(* Nodes, deltas and clusters                                               *)

\* The kinds of nodes are distinct, and a node is about the memories it names.
LEMMA NodeFacts ==
  /\ \A m \in Memory : /\ Mem(m) \in NodeSet /\ Mem(m).kind = "memory" /\ Mem(m).of = {m}
                       /\ Outside(m) \in NodeSet /\ Outside(m).kind = "event"
                       /\ FrameOf(m) \in Frame /\ FrameOf(m).kind = "frame" /\ FrameOf(m).of = {m}
  /\ \A f \in Frame : f.kind \in {"frame", "sleep", "user"} /\ f \in NodeSet /\ f.of \subseteq Memory
<1>1. \A m \in Memory : /\ Mem(m) \in NodeSet /\ Mem(m).kind = "memory" /\ Mem(m).of = {m}
                        /\ Outside(m) \in NodeSet /\ Outside(m).kind = "event"
                        /\ FrameOf(m) \in Frame /\ FrameOf(m).kind = "frame" /\ FrameOf(m).of = {m}
  <2> TAKE m \in Memory
  <2>1. Mem(m).kind = "memory" /\ Mem(m).of = {m} /\ Outside(m).kind = "event"
    BY DEF Mem, Outside, Node
  <2>2. FrameOf(m).kind = "frame" /\ FrameOf(m).of = {m}
    BY DEF FrameOf, Node
  <2>3. Mem(m) \in NodeSet /\ Outside(m) \in NodeSet
    BY DEF NodeSet
  <2>4. FrameOf(m) \in Frame
    BY DEF Frame
  <2> QED BY <2>1, <2>2, <2>3, <2>4
<1>2. ASSUME NEW f \in Frame
      PROVE  f.kind \in {"frame", "sleep", "user"} /\ f \in NodeSet /\ f.of \subseteq Memory
  <2>1. CASE \E m \in Memory : f = FrameOf(m)
    BY <2>1 DEF FrameOf, Node, NodeSet
  <2>2. CASE \E c \in SUBSET Memory : f = Given(c)
    BY <2>2 DEF Given, Node, NodeSet
  <2>3. CASE \E c \in SUBSET Memory, i \in 1..MaxClusters + MaxGroups : f = Compiled(c, i)
    BY <2>3 DEF Compiled, Node, NodeSet
  <2> QED BY <2>1, <2>2, <2>3 DEF Frame
<1> QED BY <1>1, <1>2

\* The frame of a cluster of a sleep.
LEMMA CompiledFacts ==
  ASSUME NEW c \in SUBSET Memory, NEW i \in 1..MaxClusters + MaxGroups
  PROVE  Compiled(c, i) \in Frame /\ Compiled(c, i).kind = "sleep" /\ Compiled(c, i).of = c
BY DEF Compiled, Node, Frame

\* A delta relates two different stored memories, and never suppresses one.
LEMMA DeltaFacts ==
  ASSUME NEW selected, NEW targets, NEW clusters, stored \subseteq Memory,
         NEW d \in GraphDeltas(selected, targets, clusters)
  PROVE  /\ d.from \in stored /\ d.to \in stored /\ d.from # d.to
         /\ d.rel \in {"same_as", "derived_from", "evidence_for", "supports", "retrieved_with", "coactivated_with"}
         /\ Activation(d) \subseteq Associative
<1>1. PICK m \in stored, n \in stored : \E sources : \E r \in RelationOf(sources) :
        m < n /\ d = [from |-> m, to |-> n, rel |-> r, sources |-> sources]
  BY DEF GraphDeltas
<1>2. m # n
  BY <1>1, MemoryAssumption
<1>3. \A sources : RelationOf(sources) \subseteq
        {"same_as", "derived_from", "evidence_for", "supports", "retrieved_with", "coactivated_with"}
  BY DEF RelationOf
<1>4. Activation(d) \subseteq Associative
  BY DEF Activation, Associative
<1> QED BY <1>1, <1>2, <1>3, <1>4

\* What a slice, the removal of repetitions and that of small clusters leave.
LEMMA SliceType ==
  ASSUME NEW S, NEW seq \in Seq(S), NEW n \in Nat
  PROVE  /\ Upto(n, seq) \in Seq(S) /\ Len(Upto(n, seq)) <= n
         /\ \A k \in DOMAIN Upto(n, seq) : \E i \in DOMAIN seq : Upto(n, seq)[k] = seq[i]
<1> DEFINE last == Min({n, Len(seq)})
<1>1. last \in Nat /\ last <= n /\ last <= Len(seq) /\ Len(seq) \in Nat
  BY MinOfTwo
<1>2. \A i \in 1..last : seq[i] \in S /\ i \in DOMAIN seq
  BY <1>1
<1> HIDE DEF last
<1>3. /\ SubSeq(seq, 1, last) \in Seq(S) /\ Len(SubSeq(seq, 1, last)) = last
      /\ \A i \in 1..last : SubSeq(seq, 1, last)[i] = seq[i]
  BY <1>1, <1>2, SubSeqProperties
<1>4. Upto(n, seq) = SubSeq(seq, 1, last)
  BY DEF Upto, last
<1> QED BY <1>1, <1>2, <1>3, <1>4

\* Removing the repetitions of a sequence leaves some of its elements.
LEMMA DistinctType ==
  ASSUME NEW S, NEW seq \in Seq(S)
  PROVE  /\ Distinct(seq) \in Seq(S)
         /\ \A k \in DOMAIN Distinct(seq) : \E i \in DOMAIN seq : Distinct(seq)[k] = seq[i]
<1> DEFINE positions == {i \in DOMAIN seq : \A j \in 1..(i - 1) : seq[j] # seq[i]}
<1>1. positions \in SUBSET DOMAIN seq
  OBVIOUS
<1>2. Distinct(seq) = At(seq, positions)
  BY DEF Distinct
<1> HIDE DEF positions
<1> QED BY <1>1, <1>2, SubsequenceType

\* The clusters of more than one member are clusters, and none is empty.
LEMMA SeveralType ==
  ASSUME NEW S, NEW seq \in Seq(S)
  PROVE  /\ Several(seq) \in Seq(S)
         /\ \A k \in DOMAIN Several(seq) : \E i \in DOMAIN seq : Several(seq)[k] = seq[i] /\ seq[i] # {}
<1> DEFINE positions == {i \in DOMAIN seq : Cardinality(seq[i]) > 1}
<1>1. positions \in SUBSET DOMAIN seq
  OBVIOUS
<1>2. Several(seq) = At(seq, positions)
  BY DEF Several
<1>3. \A i \in positions : seq[i] # {}
  <2>1. Cardinality({}) = 0
    BY FS_EmptySet
  <2>2. \A i \in positions : Cardinality(seq[i]) # 0
    OBVIOUS
  <2> QED BY <2>1, <2>2
<1> HIDE DEF positions
<1> QED BY <1>1, <1>2, <1>3, SubsequenceType

\* The clusters from shared terms are sets of stored memories.
LEMMA FallbackType ==
  ASSUME stored \subseteq Memory
  PROVE  FallbackClusters \in Seq(SUBSET stored) /\ Len(FallbackClusters) <= MaxGroups
<1> DEFINE groups == [i \in 1..Cardinality(SharedTerms) |-> Carriers(TermOrder[i])]
<1>1. SharedTerms \subseteq UNION {TermsOf[m] : m \in Memory}
  BY DEF SharedTerms, First
<1>2. Cardinality(SharedTerms) \in Nat
  BY <1>1, TermAssumption, FS_Subset, FS_CardinalityType
<1>3. \A x : Carriers(x) \in SUBSET stored
  BY DEF Carriers
<1>4. groups \in Seq(SUBSET stored)
  BY <1>2, <1>3
<1>5. FallbackClusters = Upto(MaxGroups, Distinct(groups))
  BY DEF FallbackClusters
<1> HIDE DEF groups
<1>6. Distinct(groups) \in Seq(SUBSET stored)
  BY <1>4, DistinctType
<1> QED BY <1>5, <1>6, SliceType, BoundAssumption

\* The clusters a sleep plans are sets of stored memories, none of them empty.
LEMMA ReplayType ==
  ASSUME stored \subseteq Memory
  PROVE  /\ ReplayClusters \in Seq(SUBSET stored) /\ Len(ReplayClusters) <= MaxClusters
         /\ \A c \in ToSet(ReplayClusters) : c # {} /\ c \subseteq stored
<1> DEFINE conflict == {m \in stored : \E e \in evidence : e.to = Mem(m) /\ e.type \in Hiding}
           chosen == <<traced \cap stored, First(MaxMembers, impacted \cap stored), First(MaxMembers, conflict)>>
           all == chosen \o FallbackClusters
<1>1. all \in Seq(SUBSET stored)
  <2>1. chosen \in Seq(SUBSET stored)
    BY DEF First
  <2> HIDE DEF chosen
  <2> QED BY <2>1, FallbackType
<1>2. ReplayClusters = Upto(MaxClusters, Distinct(Several(all)))
  BY DEF ReplayClusters
<1> HIDE DEF all
<1>3. /\ Several(all) \in Seq(SUBSET stored)
      /\ \A k \in DOMAIN Several(all) : Several(all)[k] # {}
  BY <1>1, SeveralType
<1>4. /\ Distinct(Several(all)) \in Seq(SUBSET stored)
      /\ \A k \in DOMAIN Distinct(Several(all)) : Distinct(Several(all))[k] # {}
  BY <1>3, DistinctType
<1>5. /\ ReplayClusters \in Seq(SUBSET stored) /\ Len(ReplayClusters) <= MaxClusters
      /\ \A k \in DOMAIN ReplayClusters : ReplayClusters[k] # {}
  BY <1>2, <1>4, SliceType, BoundAssumption
<1> QED BY <1>5 DEF ToSet

-----------------------------------------------------------------------------
(* The inductive invariant                                                  *)

\* What threads hold and what is stored, with the types that TypeOK gives loosely.
WorkTypes ==
    /\ stage \in [Thread -> {"idle", "graph", "crystal", "given", "last"}]
    /\ step \in [Thread -> {"commit", "append", "write"}]
    /\ call \in [Thread -> [name : {"none", "observe", "retrieve", "propose", "forget", "sleep"}, of : SUBSET Memory]]
    /\ plan \in [Thread -> Seq(SUBSET Memory)] /\ \A t \in Thread : Len(plan[t]) <= MaxClusters
    /\ nodes \in [Thread -> Seq(Frame)]
    /\ pending \in [Thread -> SUBSET Event]
TableTypes ==
    /\ stored \subseteq Memory /\ traced \subseteq Memory /\ impacted \subseteq Memory
    /\ unwanted \subseteq Memory /\ queued \subseteq SUBSET Memory
    /\ frames \subseteq Frame /\ edges \subseteq Edge /\ evidence \subseteq Event
    /\ calls \in 0..MaxCalls /\ torn \in BOOLEAN
ShapeInv == WorkTypes /\ TableTypes /\ seen \in [Thread -> SUBSET Event]

\* An edge joins two different nodes of the store.
Rooted(e) == e.from # e.to /\ Known(e.from) /\ Known(e.to)

\* A rebuild makes an edge of the event.
Material(x) ==
    \/ x.from.kind = "memory" /\ x.to.kind = "memory"
    \/ {x.from, x.to} \subseteq Frame /\ x.rel \in Logic

\* Evidence that may be appended: its edge would be rooted, and what it hides a
\* caller asked to hide.
Sound(x) ==
    /\ Material(x) => Rooted(x) /\ x.rel \in Associative \cup Logic
    /\ x.type \in Hiding /\ x.to.kind = "memory" => x.to.of \subseteq unwanted

\* The evidence that one node derives from another.
Derive(n, f) == [type |-> "derive", from |-> n, to |-> f, rel |-> "derived_from"]

\* The frames that t's sleep compiled are stored with the frames of their
\* memories, the events say so, and they are those of the clusters it planned.
Crystallised(t, compiled, events) ==
    /\ \A f \in ToSet(compiled) :
        f \in frames /\ \A m \in f.of : FrameOf(m) \in frames /\ Derive(FrameOf(m), f) \in events
    /\ plan[t] # <<>> => compiled = SleepFrames(plan[t])

\* What holds of the work of a thread.
ThreadInv(t) ==
    /\ \A x \in pending[t] : Sound(x)
    /\ seen[t] \subseteq evidence
    /\ step[t] = "write" => pending[t] = {}
    /\ stage[t] = "crystal" => call[t].name = "sleep"
    /\ \A c \in ToSet(plan[t]) : c # {} /\ c \subseteq stored
    /\ call[t].name = "sleep" /\ ((stage[t] = "crystal" /\ step[t] # "commit") \/ stage[t] = "last") =>
        Crystallised(t, nodes[t], evidence \cup pending[t])
    /\ call[t].name = "sleep" /\ stage[t] = "last" =>
        \A f \in ToSet(nodes[t]), m \in UNION ToSet(plan[t]) : Derive(Mem(m), f) \in evidence \cup pending[t]

\* The tables are rooted in each other, and the edges that no evidence accounts
\* for are those of a crash or of a thread that has yet to append it.
TablesInv ==
    /\ \A f \in frames : f.of # {} /\ f.of \subseteq stored
    /\ \A e \in edges : Rooted(e)
    /\ \A x \in evidence : Sound(x)

Catching(t) == stage[t] # "idle" /\ step[t] \in {"append", "write"}
EdgesInv == torn \/ edges \subseteq Materialised(evidence) \/ \E t \in Thread : Catching(t)

WorkInv == (\A t \in Thread : ThreadInv(t)) /\ TablesInv /\ EdgesInv /\ SleepIsWhole

-----------------------------------------------------------------------------
(* Types                                                                    *)

\* The event that says that an edge was proposed.
LEMMA WitnessFacts ==
  ASSUME NEW op, NEW e
  PROVE  /\ Witness(op, e).from = e.from /\ Witness(op, e).to = e.to /\ Witness(op, e).rel = e.rel
         /\ Witness(op, e).type = EventType(op, e.rel)
         /\ e.from \in NodeSet /\ e.to \in NodeSet /\ e.rel \in Associative \cup Logic =>
              Witness(op, e) \in Event
<1>1. EventType(op, e.rel) \in {"support", "derive", "inhibit", "supersede"}
  BY DEF EventType
<1> QED BY <1>1 DEF Witness, Event

\* The evidence of a last stage is typed, makes no edge and hides no memory.
LEMMA LastEvidenceFacts ==
  ASSUME WorkTypes, NEW t \in Thread, NEW compiled \in Seq(Frame), NEW x \in LastEvidence(t, compiled)
  PROVE  x \in Event /\ ~Material(x) /\ x.type \notin Hiding
<1>1. call[t].of \subseteq Memory /\ \A m \in UNION ToSet(plan[t]) : m \in Memory
  BY DEF WorkTypes, ToSet
<1>2. \A f \in ToSet(compiled) : f \in Frame
  BY DEF ToSet
<1>3. CASE call[t].name = "observe"
  <2>1. PICK m \in Memory : x = [type |-> "support", from |-> Outside(m), to |-> Mem(m), rel |-> "supports"]
    BY <1>1, <1>3 DEF LastEvidence
  <2>2. x.from = Outside(m) /\ x.to = Mem(m) /\ x.type = "support"
    BY <2>1
  <2>3. Mem(m) \notin Frame
    BY NodeFacts
  <2> QED BY <2>1, <2>2, <2>3, NodeFacts DEF Event, Material, Hiding, Logic
<1>4. CASE call[t].name = "sleep"
  <2>1. PICK m \in Memory, f \in Frame : x = [type |-> "derive", from |-> Mem(m), to |-> f, rel |-> "derived_from"]
    BY <1>1, <1>2, <1>4 DEF LastEvidence
  <2>2. x.from = Mem(m) /\ x.to = f /\ x.type = "derive"
    BY <2>1
  <2>3. Mem(m) \notin Frame
    BY NodeFacts
  <2> QED BY <2>1, <2>2, <2>3, NodeFacts DEF Event, Material, Hiding, Logic
<1> QED BY <1>3, <1>4 DEF LastEvidence

\* A thread that leaves its stage keeps the types of its work.
LEMMA LeaveTypes ==
  ASSUME WorkTypes, NEW t \in Thread, NEW compiled \in Seq(Frame), Leave(t, compiled)
  PROVE  WorkTypes'
<1>1. After(t) \in {"idle", "crystal", "last"}
  BY DEF After
<1>2. LastEvidence(t, compiled) \subseteq Event
  BY LastEvidenceFacts
<1>3. stage' \in [Thread -> {"idle", "graph", "crystal", "given", "last"}]
  BY <1>1 DEF Leave, WorkTypes
<1>4. step' \in [Thread -> {"commit", "append", "write"}]
  BY DEF Leave, WorkTypes
<1>5. pending' \in [Thread -> SUBSET Event]
  BY <1>2 DEF Leave, WorkTypes
<1>6. nodes' \in [Thread -> Seq(Frame)]
  <2>1. <<>> \in Seq(Frame)
    OBVIOUS
  <2> QED BY <2>1 DEF Leave, WorkTypes
<1>7. call' \in [Thread -> [name : {"none", "observe", "retrieve", "propose", "forget", "sleep"}, of : SUBSET Memory]]
  <2>1. Nothing \in [name : {"none", "observe", "retrieve", "propose", "forget", "sleep"}, of : SUBSET Memory]
    BY DEF Nothing
  <2> QED BY <2>1 DEF Leave, WorkTypes
<1>8. plan' \in [Thread -> Seq(SUBSET Memory)] /\ \A u \in Thread : Len(plan'[u]) <= MaxClusters
  <2>1. <<>> \in Seq(SUBSET Memory) /\ Len(<<>>) <= MaxClusters
    BY BoundAssumption
  <2> QED BY <2>1 DEF Leave, WorkTypes
<1> QED BY <1>3, <1>4, <1>5, <1>6, <1>7, <1>8 DEF WorkTypes

\* A transaction of the executor keeps them.
LEMMA ExecuteTypes ==
  ASSUME ShapeInv, NEW t \in Thread, NEW f \in SUBSET Frame, NEW a \in SUBSET Edge, NEW l \in SUBSET Edge,
         NEW events \in SUBSET Event, NEW compiled \in Seq(Frame), NEW formed,
         Execute(t, f, a, l, events, compiled, formed)
  PROVE  WorkTypes' /\ frames' \subseteq Frame /\ edges' \subseteq Edge /\ traced' \subseteq Memory
<1>1. WorkTypes /\ frames \subseteq Frame /\ edges \subseteq Edge
  BY DEF ShapeInv, TableTypes
<1>2. traced' \subseteq Memory
  BY DEF Execute
<1>3. CASE /\ frames' = AddNodes(frames, f) /\ edges' = AddLogic(AddAssociations(edges, a), l)
           /\ pending' = [pending EXCEPT ![t] = events] /\ step' = [step EXCEPT ![t] = "append"]
           /\ nodes' = [nodes EXCEPT ![t] = compiled] /\ UNCHANGED <<stage, call, plan>>
  <2>1. WorkTypes'
    BY <1>1, <1>3 DEF WorkTypes
  <2>2. frames' \subseteq Frame /\ edges' \subseteq Edge
    BY <1>1, <1>3 DEF AddNodes, AddLogic, AddAssociations
  <2> QED BY <1>2, <2>1, <2>2
<1>4. CASE Leave(t, <<>>) /\ UNCHANGED <<frames, edges>>
  <2>1. <<>> \in Seq(Frame)
    OBVIOUS
  <2> QED BY <1>1, <1>2, <1>4, <2>1, LeaveTypes
<1> QED BY <1>3, <1>4 DEF Execute

\* The clusters of memories that a sleep compiles, planned or not.
LEMMA SleepTypes ==
  ASSUME NEW clusters \in Seq(SUBSET Memory), Len(clusters) <= MaxClusters + MaxGroups
  PROVE  /\ SleepFrames(clusters) \in Seq(Frame) /\ DOMAIN SleepFrames(clusters) = DOMAIN clusters
         /\ \A i \in DOMAIN clusters : SleepFrames(clusters)[i].kind = "sleep" /\ SleepFrames(clusters)[i].of = clusters[i]
         /\ SourceFrames(clusters) \subseteq Frame
         /\ \A e \in SleepEdges(clusters) :
              \E i \in DOMAIN clusters : \E m \in clusters[i] :
                e = [from |-> FrameOf(m), to |-> SleepFrames(clusters)[i], rel |-> "derived_from"]
         /\ \A i \in DOMAIN clusters : \A m \in clusters[i] :
              [from |-> FrameOf(m), to |-> SleepFrames(clusters)[i], rel |-> "derived_from"] \in SleepEdges(clusters)
<1>1. Len(clusters) \in Nat /\ DOMAIN clusters = 1..Len(clusters) /\ MaxClusters + MaxGroups \in Nat
  BY BoundAssumption
<1>2. \A i \in DOMAIN clusters : i \in 1..MaxClusters + MaxGroups /\ clusters[i] \in SUBSET Memory
  BY <1>1
<1>3. \A i \in DOMAIN clusters : /\ SleepFrames(clusters)[i] = Compiled(clusters[i], i)
                                 /\ SleepFrames(clusters)[i] \in Frame
                                 /\ SleepFrames(clusters)[i].kind = "sleep"
                                 /\ SleepFrames(clusters)[i].of = clusters[i]
  BY <1>2, CompiledFacts DEF SleepFrames
<1>4. DOMAIN SleepFrames(clusters) = DOMAIN clusters
  BY DEF SleepFrames
<1>5. SleepFrames(clusters) \in Seq(Frame)
  <2>1. SleepFrames(clusters) \in [1..Len(clusters) -> Frame]
    BY <1>1, <1>3 DEF SleepFrames
  <2> QED BY <1>1, <2>1
<1>6. SourceFrames(clusters) \subseteq Frame
  BY <1>2, NodeFacts DEF SourceFrames, ToSet
<1>7. \A e \in SleepEdges(clusters) :
        \E i \in DOMAIN clusters : \E m \in clusters[i] :
          e = [from |-> FrameOf(m), to |-> SleepFrames(clusters)[i], rel |-> "derived_from"]
  <2> TAKE e \in SleepEdges(clusters)
  <2>1. PICK f \in ToSet(SleepFrames(clusters)) :
          \E m \in f.of : e = [from |-> FrameOf(m), to |-> f, rel |-> "derived_from"]
    BY DEF SleepEdges
  <2>2. PICK i \in DOMAIN clusters : f = SleepFrames(clusters)[i]
    BY <1>4 DEF ToSet
  <2> QED BY <1>3, <2>1, <2>2
<1>8. \A i \in DOMAIN clusters : \A m \in clusters[i] :
        [from |-> FrameOf(m), to |-> SleepFrames(clusters)[i], rel |-> "derived_from"] \in SleepEdges(clusters)
  <2> TAKE i \in DOMAIN clusters
  <2>1. SleepFrames(clusters)[i] \in ToSet(SleepFrames(clusters)) /\ SleepFrames(clusters)[i].of = clusters[i]
    BY <1>3, <1>4 DEF ToSet
  <2> QED BY <2>1 DEF SleepEdges
<1> QED BY <1>3, <1>4, <1>5, <1>6, <1>7, <1>8

\* The edges of evidence are those of the events that are material.
LEMMA MaterialisedFacts ==
  ASSUME NEW events
  PROVE  \A e : e \in Materialised(events) <=> \E x \in events : Material(x) /\ e = Link(x)
BY DEF Materialised, Material

\* The edge of an event keeps its ends and its relation.
LEMMA LinkFacts == \A e : Link(e).from = e.from /\ Link(e).to = e.to /\ Link(e).rel = e.rel
BY DEF Link

\* The frames and edges that the deltas of a graph become.
LEMMA GraphFacts ==
  ASSUME stored \subseteq Memory, NEW selected, NEW targets, NEW clusters,
         NEW D \in SUBSET GraphDeltas(selected, targets, clusters)
  PROVE  /\ Endpoints(D) \subseteq Frame /\ Between(D) \subseteq [from : NodeSet, to : NodeSet, rel : {d.rel : d \in D}]
         /\ \A e \in Around(D) \cup {[from |-> Mem(d.from), to |-> Mem(d.to), rel |-> d.rel] : d \in D} :
              /\ e.from # e.to /\ e.from \in NodeSet /\ e.to \in NodeSet
              /\ e.from.kind = "memory" /\ e.to.kind = "memory" /\ (e.from.of \cup e.to.of) \subseteq stored
              /\ e.rel \in (Associative \cup Logic) \ {"supersedes"}
         /\ Around(D) \subseteq Edge
<1>1. \A d \in D : /\ d.from \in stored /\ d.to \in stored /\ d.from # d.to
                   /\ d.rel \in (Associative \cup Logic) \ {"supersedes"} /\ Activation(d) \subseteq Associative
  BY DeltaFacts DEF Associative, Logic
<1>2. \A m \in stored : /\ FrameOf(m) \in Frame /\ FrameOf(m) \in NodeSet
                        /\ Mem(m) \in NodeSet /\ Mem(m).kind = "memory" /\ Mem(m).of = {m}
  BY NodeFacts
<1>3. Endpoints(D) \subseteq Frame
  BY <1>1, <1>2 DEF Endpoints
<1>4. Between(D) \subseteq [from : NodeSet, to : NodeSet, rel : {d.rel : d \in D}]
  BY <1>1, <1>2 DEF Between
<1>5. ASSUME NEW d \in D, NEW r \in (Associative \cup Logic) \ {"supersedes"},
             NEW e, e = [from |-> Mem(d.from), to |-> Mem(d.to), rel |-> r]
      PROVE  /\ e.from # e.to /\ e.from \in NodeSet /\ e.to \in NodeSet
             /\ e.from.kind = "memory" /\ e.to.kind = "memory" /\ (e.from.of \cup e.to.of) \subseteq stored
             /\ e.rel \in (Associative \cup Logic) \ {"supersedes"}
  <2>1. e.from = Mem(d.from) /\ e.to = Mem(d.to) /\ e.rel = r
    BY <1>5
  <2>2. Mem(d.from) # Mem(d.to)
    BY <1>1, <1>2
  <2> QED BY <1>1, <1>2, <2>1, <2>2
<1>6. \A e \in Around(D) : \E d \in D : \E r \in Associative : e = [from |-> Mem(d.from), to |-> Mem(d.to), rel |-> r]
  BY <1>1 DEF Around
<1>7. Around(D) \subseteq Edge
  BY <1>1, <1>2, <1>6 DEF Edge
<1>8. Associative \subseteq (Associative \cup Logic) \ {"supersedes"}
  BY DEF Associative
<1>9. ASSUME NEW e \in Around(D) \cup {[from |-> Mem(d.from), to |-> Mem(d.to), rel |-> d.rel] : d \in D}
      PROVE  \E d \in D : \E r \in (Associative \cup Logic) \ {"supersedes"} :
               e = [from |-> Mem(d.from), to |-> Mem(d.to), rel |-> r]
  BY <1>1, <1>6, <1>8
<1> QED BY <1>3, <1>4, <1>5, <1>7, <1>9

\* Every variable keeps its type. (That edges have no relation of events only
\* needs evidence that is sound.)
LEMMA ShapeNext == ShapeInv /\ WorkInv /\ [Next]_vars => ShapeInv'
<1> SUFFICES ASSUME ShapeInv, WorkInv, [Next]_vars PROVE ShapeInv'
  OBVIOUS
<1> USE DEF tables, work
<1>a. WorkTypes /\ TableTypes /\ seen \in [Thread -> SUBSET Event]
  BY DEF ShapeInv
<1>b. stored \subseteq Memory /\ <<>> \in Seq(Frame)
  BY <1>a DEF TableTypes
<1>1. ASSUME NEW t \in Thread, CommitGraph(t) PROVE ShapeInv'
  <2> DEFINE selected == IF call[t].name = "observe" THEN {} ELSE call[t].of
             deltas == IF GraphMode = "off" THEN {} ELSE GraphDeltas(selected, call[t].of, plan[t])
             logic == {d \in deltas : d.rel \in Logic}
             said == Around(deltas) \cup {[from |-> Mem(d.from), to |-> Mem(d.to), rel |-> d.rel] : d \in deltas}
             events == {Witness("add_edge", e) : e \in said}
  <2>1. deltas \in SUBSET GraphDeltas(selected, call[t].of, plan[t]) /\ logic \in SUBSET deltas
    OBVIOUS
  <2>2. \/ Execute(t, Endpoints(logic), Around(deltas), Between(logic), events, <<>>, TRUE)
        \/ Leave(t, <<>>) /\ UNCHANGED <<frames, edges, traced>>
    BY <1>1 DEF CommitGraph
  <2>3. UNCHANGED <<stored, evidence, seen, impacted, queued, calls, report, unwanted, torn>>
    BY <1>1 DEF CommitGraph
  <2> HIDE DEF deltas
  <2>4. Endpoints(logic) \subseteq Frame /\ Between(logic) \subseteq Edge /\ Around(deltas) \subseteq Edge
    <3>1. /\ Endpoints(logic) \subseteq Frame
          /\ Between(logic) \subseteq [from : NodeSet, to : NodeSet, rel : {d.rel : d \in logic}]
          /\ Around(deltas) \subseteq Edge
      BY <1>b, <2>1, GraphFacts
    <3>2. {d.rel : d \in logic} \subseteq Logic
      OBVIOUS
    <3> HIDE DEF logic
    <3> QED BY <3>1, <3>2 DEF Edge
  <2>5. events \subseteq Event
    <3>1. \A e \in said : e.from \in NodeSet /\ e.to \in NodeSet /\ e.rel \in Associative \cup Logic
      BY <1>b, <2>1, GraphFacts
    <3> HIDE DEF said
    <3> QED BY <3>1, WitnessFacts
  <2> HIDE DEF logic, events
  <2> QED BY <1>a, <1>b, <2>2, <2>3, <2>4, <2>5, ExecuteTypes, LeaveTypes DEF ShapeInv, TableTypes
<1>2. ASSUME NEW t \in Thread, CommitCrystal(t) PROVE ShapeInv'
  <2> DEFINE clusters == IF plan[t] = <<>> THEN FallbackClusters ELSE plan[t]
             links == SleepEdges(clusters)
             events == {Witness("add_edge", e) : e \in links}
             given == SourceFrames(clusters) \cup ToSet(SleepFrames(clusters))
  <2>1. \/ Execute(t, given, {}, links, events, SleepFrames(clusters), TRUE)
        \/ Leave(t, <<>>) /\ UNCHANGED <<frames, edges, traced>>
    BY <1>2 DEF CommitCrystal
  <2>2. UNCHANGED <<stored, evidence, seen, impacted, queued, calls, report, unwanted, torn>>
    BY <1>2 DEF CommitCrystal
  <2>3. clusters \in Seq(SUBSET Memory) /\ Len(clusters) <= MaxClusters + MaxGroups
    <3>1. FallbackClusters \in Seq(SUBSET Memory) /\ Len(FallbackClusters) <= MaxGroups
      BY <1>b, FallbackType
    <3>2. plan[t] \in Seq(SUBSET Memory) /\ Len(plan[t]) <= MaxClusters
      BY <1>a DEF WorkTypes
    <3> QED BY <3>1, <3>2, BoundAssumption
  <2> HIDE DEF clusters
  <2>4. SleepFrames(clusters) \in Seq(Frame) /\ SourceFrames(clusters) \subseteq Frame
    BY <2>3, SleepTypes
  <2>5. given \in SUBSET Frame
    BY <2>4 DEF ToSet
  <2>6. \A e \in links : e.from \in NodeSet /\ e.to \in NodeSet /\ e.rel = "derived_from" /\ e \in Edge
    <3>1. \A m \in Memory : FrameOf(m) \in NodeSet
      BY NodeFacts
    <3>2. \A i \in DOMAIN clusters : SleepFrames(clusters)[i] \in NodeSet /\ clusters[i] \subseteq Memory
      BY <2>3, <2>4, SleepTypes, NodeFacts
    <3>3. \A e \in links : \E i \in DOMAIN clusters : \E m \in clusters[i] :
            e = [from |-> FrameOf(m), to |-> SleepFrames(clusters)[i], rel |-> "derived_from"]
      BY <2>3, SleepTypes
    <3> QED BY <3>1, <3>2, <3>3 DEF Edge, Logic
  <2>7. events \in SUBSET Event /\ links \in SUBSET Edge
    <3> HIDE DEF links
    <3> QED BY <2>6, WitnessFacts DEF Logic
  <2> HIDE DEF given, links, events
  <2> QED BY <1>a, <1>b, <2>1, <2>2, <2>4, <2>5, <2>7, ExecuteTypes, LeaveTypes DEF ShapeInv, TableTypes
<1>3. ASSUME NEW t \in Thread, CommitGiven(t) PROVE ShapeInv'
  <2>1. PICK p \in Policies :
          LET given(family) == {Link(e) : e \in {x \in p.edges : x.from.kind \in family}}
          IN  /\ Execute(t, p.frames, given({"memory"}), given({"frame", "sleep", "user"}),
                         {Witness(e.op, e) : e \in p.edges}, <<>>, p.formed)
              /\ unwanted' = unwanted \cup UNION {e.to.of : e \in {x \in p.edges :
                                 x.to.kind = "memory" /\ Witness(x.op, x).type \in Hiding}}
    BY <1>3 DEF CommitGiven
  <2> DEFINE given(family) == {Link(e) : e \in {x \in p.edges : x.from.kind \in family}}
             events == {Witness(e.op, e) : e \in p.edges}
  <2>2. \A e \in p.edges : e.from \in NodeSet /\ e.to \in NodeSet /\ e.rel \in Associative \cup Logic
    BY PolicyAssumption
  <2>3. given({"memory"}) \in SUBSET Edge /\ given({"frame", "sleep", "user"}) \in SUBSET Edge
    BY <2>2 DEF Link, Edge
  <2>4. events \in SUBSET Event
    BY <2>2, WitnessFacts
  <2>5. p.frames \in SUBSET Frame
    BY PolicyAssumption
  <2>6. unwanted' \subseteq Memory
    <3>1. \A n \in NodeSet : n.of \subseteq Memory
      BY NodeFacts DEF NodeSet, Mem, Outside, Node
    <3> QED BY <1>a, <2>1, <2>2, <3>1 DEF TableTypes
  <2>7. WorkTypes' /\ frames' \subseteq Frame /\ edges' \subseteq Edge /\ traced' \subseteq Memory
    <3>1. Execute(t, p.frames, given({"memory"}), given({"frame", "sleep", "user"}), events, <<>>, p.formed)
      BY <2>1
    <3> HIDE DEF given, events
    <3> QED BY <1>b, <2>3, <2>4, <2>5, <3>1, ExecuteTypes
  <2> QED BY <1>3, <1>a, <2>6, <2>7 DEF CommitGiven, ShapeInv, TableTypes
<1>4. ASSUME NEW t \in Thread, AppendEvidence(t) PROVE ShapeInv'
  <2>1. PICK e \in pending[t] : evidence' = evidence \cup {e} /\ pending' = [pending EXCEPT ![t] = @ \ {e}]
    BY <1>4 DEF AppendEvidence
  <2>2. e \in Event /\ pending' \in [Thread -> SUBSET Event]
    BY <1>a, <2>1 DEF WorkTypes
  <2> QED BY <1>a, <1>4, <2>1, <2>2 DEF AppendEvidence, ShapeInv, WorkTypes, TableTypes
<1>5. ASSUME NEW t \in Thread, ReadEvidence(t) PROVE ShapeInv'
  BY <1>a, <1>5 DEF ReadEvidence, ShapeInv, WorkTypes, TableTypes
<1>6. ASSUME NEW t \in Thread, WriteEdges(t) PROVE ShapeInv'
  <2>1. nodes[t] \in Seq(Frame) /\ seen[t] \subseteq Event
    BY <1>a DEF WorkTypes
  <2>2. edges' \subseteq Edge
    <3>1. \A x \in seen[t] : x \in Event /\ (Material(x) => x.rel \in Associative \cup Logic)
      BY <2>1 DEF WorkInv, ThreadInv, TablesInv, Sound
    <3>2. \A x \in seen[t] : Material(x) => Link(x) \in Edge
      BY <3>1 DEF Link, Edge, Event
    <3> QED BY <1>6, <3>2, MaterialisedFacts DEF WriteEdges
  <2> QED BY <1>a, <1>6, <2>1, <2>2, LeaveTypes DEF WriteEdges, ShapeInv, TableTypes
<1>7. ASSUME NEW t \in Thread, NEW name \in {"observe", "retrieve", "propose", "forget", "sleep"}, NEW of \in SUBSET Memory,
             NEW first \in {"idle", "graph", "given", "last"}, NEW at \in {"commit", "append"}, Call(t, name, of, first, at)
      PROVE  /\ stage' \in [Thread -> {"idle", "graph", "crystal", "given", "last"}]
             /\ step' \in [Thread -> {"commit", "append", "write"}]
             /\ call' \in [Thread -> [name : {"none", "observe", "retrieve", "propose", "forget", "sleep"}, of : SUBSET Memory]]
             /\ calls' \in 0..MaxCalls
  <2>1. /\ Nothing \in [name : {"none", "observe", "retrieve", "propose", "forget", "sleep"}, of : SUBSET Memory]
        /\ [name |-> name, of |-> of] \in [name : {"none", "observe", "retrieve", "propose", "forget", "sleep"}, of : SUBSET Memory]
    BY DEF Nothing
  <2> QED BY <1>a, <1>7, <2>1, BoundAssumption DEF Call, WorkTypes, TableTypes
<1>8. ASSUME NEW t \in Thread, NEW m \in Memory, Observe(t, m) PROVE ShapeInv'
  <2>1. {m} \in SUBSET Memory
    OBVIOUS
  <2> QED BY <1>a, <1>7, <1>8, <2>1 DEF Observe, ShapeInv, WorkTypes, TableTypes
<1>9. ASSUME NEW t \in Thread, NEW m \in Memory, Forget(t, m) PROVE ShapeInv'
  <2>1. {m} \in SUBSET Memory
    OBVIOUS
  <2>2. [type |-> "inhibit", from |-> Outside(m), to |-> Mem(m), rel |-> "inhibits"] \in Event
    BY NodeFacts DEF Event
  <2>3. pending' \in [Thread -> SUBSET Event]
    BY <1>a, <1>9, <2>2 DEF Forget, WorkTypes
  <2> QED BY <1>a, <1>7, <1>9, <2>1, <2>3 DEF Forget, ShapeInv, WorkTypes, TableTypes
<1>10. ASSUME NEW t \in Thread, NEW s \in SUBSET stored, Retrieve(t, s) PROVE ShapeInv'
  <2>1. s \in SUBSET Memory
    BY <1>b
  <2>2. \E first \in {"idle", "graph"} : Call(t, "retrieve", s, first, "commit")
    BY <1>10 DEF Retrieve
  <2>3. queued' \subseteq SUBSET Memory /\ traced' \subseteq Memory
    BY <1>a, <1>10, <2>1 DEF Retrieve, TableTypes
  <2> QED BY <1>a, <1>7, <1>10, <2>1, <2>2, <2>3 DEF Retrieve, ShapeInv, WorkTypes, TableTypes
<1>11. ASSUME NEW t \in Thread, NEW s \in SUBSET stored, TakeJob(t, s) PROVE ShapeInv'
  <2>1. [name |-> "retrieve", of |-> s] \in [name : {"none", "observe", "retrieve", "propose", "forget", "sleep"}, of : SUBSET Memory]
    BY <1>b
  <2> QED BY <1>a, <1>11, <2>1 DEF TakeJob, ShapeInv, WorkTypes, TableTypes
<1>12. ASSUME NEW t \in Thread, Propose(t) PROVE ShapeInv'
  BY <1>a, <1>7, <1>12 DEF Propose, ShapeInv, WorkTypes, TableTypes
<1>13. ASSUME NEW t \in Thread, Sleep(t) PROVE ShapeInv'
  <2>1. /\ ReplayClusters \in Seq(SUBSET Memory) /\ Len(ReplayClusters) <= MaxClusters
        /\ UNION ToSet(ReplayClusters) \in SUBSET Memory
    BY <1>b, ReplayType DEF ToSet
  <2>2. Call(t, "sleep", UNION ToSet(ReplayClusters), "graph", "commit") /\ plan' = [plan EXCEPT ![t] = ReplayClusters]
    BY <1>13 DEF Sleep
  <2>3. plan' \in [Thread -> Seq(SUBSET Memory)] /\ \A u \in Thread : Len(plan'[u]) <= MaxClusters
    BY <1>a, <2>1, <2>2 DEF WorkTypes
  <2> QED BY <1>a, <1>7, <1>13, <2>1, <2>2, <2>3 DEF Sleep, ShapeInv, WorkTypes, TableTypes
<1>14. CASE Crash
  <2>1. <<>> \in Seq(SUBSET Memory) /\ Len(<<>>) <= MaxClusters /\ <<>> \in Seq(Frame)
    BY BoundAssumption
  <2>2. Nothing \in [name : {"none", "observe", "retrieve", "propose", "forget", "sleep"}, of : SUBSET Memory]
    BY DEF Nothing
  <2>3. WorkTypes'
    BY <1>14, <2>1, <2>2 DEF Crash, WorkTypes
  <2>4. TableTypes'
    BY <1>a, <1>14, BoundAssumption DEF Crash, TableTypes
  <2> QED BY <1>14, <2>3, <2>4 DEF Crash, ShapeInv
<1>15. CASE UNCHANGED vars
  BY <1>a, <1>15 DEF vars, ShapeInv, WorkTypes, TableTypes
<1> QED
  BY <1>1, <1>2, <1>3, <1>4, <1>5, <1>6, <1>8, <1>9, <1>10, <1>11, <1>12, <1>13, <1>14, <1>15 DEF Next

-----------------------------------------------------------------------------
(* What stays                                                               *)

\* The tables only grow, but for the edges, and the work of u stays as it is.
Grows == stored \subseteq stored' /\ frames \subseteq frames' /\ evidence \subseteq evidence' /\ unwanted \subseteq unwanted'
Same(u) ==
    /\ stage'[u] = stage[u] /\ step'[u] = step[u] /\ call'[u] = call[u] /\ plan'[u] = plan[u]
    /\ pending'[u] = pending[u] /\ seen'[u] = seen[u] /\ nodes'[u] = nodes[u]

\* What was rooted, sound, or true of a thread stays so as long as the tables grow.
LEMMA RootedStays == \A e : Rooted(e) /\ Grows => Rooted(e)'
BY DEF Rooted, Known, Grows

\* Evidence that was sound stays so as long as the tables grow.
LEMMA SoundStays == \A x : Sound(x) /\ Grows => Sound(x)'
<1> SUFFICES ASSUME NEW x, Sound(x), Grows PROVE Sound(x)'
  OBVIOUS
<1>1. Material(x)' = Material(x)
  BY DEF Material
<1>2. Material(x) => Rooted(x)'
  BY RootedStays DEF Sound
<1>3. unwanted \subseteq unwanted'
  BY DEF Grows
<1> QED BY <1>1, <1>2, <1>3 DEF Sound

\* So does what holds of the threads that do not take the step ...
LEMMA OthersStay ==
  ASSUME WorkInv, Grows, NEW t, \A u \in Thread \ {t} : Same(u)
  PROVE  \A u \in Thread \ {t} : ThreadInv(u)'
<1> SUFFICES ASSUME NEW u \in Thread, u # t PROVE ThreadInv(u)'
  OBVIOUS
<1>1. ThreadInv(u) /\ Same(u)
  BY DEF WorkInv
<1>2. \A x \in pending[u] : Sound(x)'
  BY <1>1, SoundStays DEF ThreadInv
<1> QED BY <1>1, <1>2 DEF ThreadInv, Same, Grows, Crystallised

\* ... and of the last report.
LEMMA ReportStays == SleepIsWhole /\ Grows /\ report' = report => SleepIsWhole'
<1> SUFFICES ASSUME SleepIsWhole, Grows, report' = report, report # None PROVE SleepIsWhole'
  BY DEF SleepIsWhole
<1>1. frames \subseteq frames' /\ evidence \subseteq evidence'
  BY DEF Grows
<1>2. /\ report.nodes \cup {FrameOf(m) : m \in UNION {f.of : f \in report.nodes}} \subseteq frames
      /\ \A f \in report.nodes : \A m \in f.of :
            [type |-> "derive", from |-> FrameOf(m), to |-> f, rel |-> "derived_from"] \in evidence
      /\ \A f \in report.nodes, m \in report.replayed :
            [type |-> "derive", from |-> Mem(m), to |-> f, rel |-> "derived_from"] \in evidence
      /\ \A l \in report.links : l[1] \in report.nodes /\ l[1].of = l[2]
      /\ UNION {l[2] : l \in report.links} = report.replayed
  BY DEF SleepIsWhole
<1> QED BY <1>1, <1>2 DEF SleepIsWhole

\* The edges stay evidenced, or excused by a crash or by somebody who will write
\* them again, when a step leaves them alone and its thread goes on doing so.
LEMMA EdgesStay ==
  ASSUME EdgesInv, NEW t, \A u \in Thread \ {t} : Same(u), Catching(t) => Catching(t)',
         edges' = edges, torn' = torn, evidence \subseteq evidence'
  PROVE  EdgesInv'
<1>1. Materialised(evidence) \subseteq Materialised(evidence')
  BY MaterialisedFacts
<1>2. CASE torn \/ edges \subseteq Materialised(evidence)
  BY <1>1, <1>2 DEF EdgesInv
<1>3. CASE \E u \in Thread : Catching(u)
  BY <1>3 DEF EdgesInv, Catching, Same
<1> QED BY <1>2, <1>3 DEF EdgesInv

\* The tables stay sound when edges and evidence stay and memories come.
LEMMA TablesStay ==
  ASSUME TablesInv, Grows, edges' = edges, frames' = frames, evidence' = evidence
  PROVE  TablesInv'
<1>1. \A e \in edges : Rooted(e)'
  BY RootedStays DEF TablesInv
<1>2. \A x \in evidence : Sound(x)'
  BY SoundStays DEF TablesInv
<1> QED BY <1>1, <1>2 DEF TablesInv, Grows

\* A thread that leaves its stage, with a crystallization that is whole if it
\* comes from one.
LEMMA LeaveInv ==
  ASSUME WorkTypes, NEW t \in Thread, ThreadInv(t), Grows, NEW compiled \in Seq(Frame), Leave(t, compiled),
         seen'[t] \subseteq evidence', stage[t] = "crystal" => Crystallised(t, compiled, evidence)
  PROVE  /\ ThreadInv(t)'
         /\ \A u \in Thread \ {t} : /\ stage'[u] = stage[u] /\ step'[u] = step[u] /\ call'[u] = call[u]
                                    /\ plan'[u] = plan[u] /\ pending'[u] = pending[u] /\ nodes'[u] = nodes[u]
<1>1. \A u \in Thread \ {t} : /\ stage'[u] = stage[u] /\ step'[u] = step[u] /\ call'[u] = call[u]
                              /\ plan'[u] = plan[u] /\ pending'[u] = pending[u] /\ nodes'[u] = nodes[u]
  BY DEF Leave, WorkTypes
<1>2. /\ stage'[t] = After(t) /\ step'[t] = IF After(t) = "last" THEN "append" ELSE "commit"
      /\ pending'[t] = IF After(t) = "last" THEN LastEvidence(t, compiled) ELSE {}
      /\ nodes'[t] = IF After(t) = "idle" THEN <<>> ELSE compiled
      /\ call'[t] = IF After(t) = "idle" THEN Nothing ELSE call[t]
      /\ plan'[t] = IF After(t) = "idle" THEN <<>> ELSE plan[t]
  BY DEF Leave, WorkTypes
<1>3. stored \subseteq stored' /\ frames \subseteq frames' /\ evidence \subseteq evidence'
  BY DEF Grows
<1>4. \A c \in ToSet(plan'[t]) : c # {} /\ c \subseteq stored'
  <2>1. ToSet(<<>>) = {}
    BY DEF ToSet
  <2> QED BY <1>2, <1>3, <2>1 DEF ThreadInv
<1>5. CASE After(t) = "idle"
  <2>1. pending'[t] = {} /\ step'[t] = "commit" /\ stage'[t] = "idle" /\ call'[t].name = "none"
    BY <1>2, <1>5 DEF Nothing
  <2> QED BY <1>1, <1>4, <2>1 DEF ThreadInv
<1>6. CASE After(t) = "crystal"
  <2>1. pending'[t] = {} /\ step'[t] = "commit" /\ stage'[t] = "crystal" /\ call'[t] = call[t]
    BY <1>2, <1>6
  <2>2. call[t].name = "sleep"
    BY <1>6 DEF After
  <2> QED BY <1>1, <1>4, <2>1, <2>2 DEF ThreadInv
<1>7. CASE After(t) = "last"
  <2>1. \A x \in pending'[t] : Sound(x)'
    <3>1. \A x \in pending'[t] : ~Material(x) /\ x.type \notin Hiding
      BY <1>2, <1>7, LastEvidenceFacts
    <3> QED BY <3>1 DEF Sound, Material
  <2>2. ASSUME call[t].name = "sleep"
        PROVE  /\ Crystallised(t, compiled, evidence)
               /\ \A f \in ToSet(compiled), m \in UNION ToSet(plan[t]) : Derive(Mem(m), f) \in pending'[t]
    BY <1>2, <1>7, <2>2 DEF After, LastEvidence, Derive
  <2>3. /\ stage'[t] = "last" /\ step'[t] = "append" /\ call'[t] = call[t] /\ plan'[t] = plan[t]
        /\ nodes'[t] = compiled
    BY <1>2, <1>7
  <2>4. call[t].name = "sleep" => Crystallised(t, nodes[t], evidence \cup pending[t])'
    BY <1>3, <2>2, <2>3 DEF Crystallised
  <2> QED BY <1>1, <1>4, <2>1, <2>2, <2>3, <2>4 DEF ThreadInv
<1>8. After(t) \in {"idle", "crystal", "last"}
  BY DEF After
<1> QED BY <1>1, <1>5, <1>6, <1>7, <1>8

-----------------------------------------------------------------------------
(* The steps                                                                *)

\* The deltas of a transaction that passes.
Valid(f, a, l, formed) ==
    /\ formed
    /\ \A x \in f : FrameValid(x)
    /\ \A e \in a : AssociationValid(e)
    /\ \A e \in l : LogicValid(e, frames \cup f)

\* A transaction whose evidence is sound once its frames are stored, and that of
\* a crystallization stores what its evidence speaks of.
LEMMA ExecuteInv ==
  ASSUME ShapeInv, WorkInv, NEW t \in Thread, stage[t] # "last", step[t] = "commit",
         NEW f \in SUBSET Frame, NEW a, \A e \in a : e.from.kind = "memory" /\ e.to.kind = "memory",
         NEW l, NEW events, NEW compiled \in Seq(Frame), NEW formed,
         Execute(t, f, a, l, events, compiled, formed), stage[t] # "idle",
         UNCHANGED <<stored, evidence, seen, report, torn>>, unwanted \subseteq unwanted',
         Valid(f, a, l, formed) /\ frames' = frames \cup f => \A x \in events : Sound(x)',
         stage[t] = "crystal" =>
            /\ plan[t] # <<>> => Valid(f, a, l, formed) /\ compiled = SleepFrames(plan[t])
            /\ \A g \in ToSet(compiled) :
                 g \in f /\ \A m \in g.of : FrameOf(m) \in f /\ Derive(FrameOf(m), g) \in events
  PROVE  WorkInv'
<1>a. WorkTypes /\ TableTypes /\ ThreadInv(t) /\ TablesInv /\ EdgesInv /\ SleepIsWhole
  BY DEF ShapeInv, WorkInv
<1>1. CASE /\ Valid(f, a, l, formed) /\ frames' = AddNodes(frames, f)
           /\ edges' = AddLogic(AddAssociations(edges, a), l)
           /\ pending' = [pending EXCEPT ![t] = events] /\ step' = [step EXCEPT ![t] = "append"]
           /\ nodes' = [nodes EXCEPT ![t] = compiled] /\ UNCHANGED <<stage, call, plan>>
  <2>1. frames' = frames \cup f /\ edges' = edges \cup a \cup l
    BY <1>1 DEF AddNodes, AddLogic, AddAssociations
  <2>2. Grows
    BY <2>1 DEF Grows
  <2>3. /\ pending'[t] = events /\ step'[t] = "append" /\ nodes'[t] = compiled
        /\ stage'[t] = stage[t] /\ call'[t] = call[t] /\ plan'[t] = plan[t] /\ seen'[t] = seen[t]
        /\ \A u \in Thread \ {t} : Same(u)
    BY <1>a, <1>1 DEF WorkTypes, Same
  <2>4. ThreadInv(t)'
    <3>1. \A x \in events : Sound(x)'
      BY <1>1, <2>1
    <3>2. stage[t] = "crystal" => Crystallised(t, nodes[t], evidence \cup pending[t])'
      BY <2>1, <2>3 DEF Crystallised
    <3>3. \A c \in ToSet(plan[t]) : c # {} /\ c \subseteq stored
      BY <1>a DEF ThreadInv
    <3>4. seen[t] \subseteq evidence /\ (stage[t] = "crystal" => call[t].name = "sleep")
      BY <1>a DEF ThreadInv
    <3> QED BY <2>3, <3>1, <3>2, <3>3, <3>4 DEF ThreadInv
  <2>5. TablesInv'
    <3>1. \A x \in frames' : x.of # {} /\ x.of \subseteq stored'
      BY <1>a, <1>1, <2>1 DEF TablesInv, Valid, FrameValid
    <3>2. ASSUME NEW e \in a PROVE Rooted(e)'
      BY <1>1, <3>2 DEF Valid, AssociationValid, Rooted, Known
    <3>3. ASSUME NEW e \in l PROVE Rooted(e)'
      <4>1. e.from # e.to /\ e.from \in frames' /\ e.to \in frames'
        BY <1>1, <2>1 DEF Valid, LogicValid
      <4>2. \A g \in frames' : g.kind # "memory"
        BY <1>a, <2>1, NodeFacts DEF TableTypes
      <4> QED BY <4>1, <4>2 DEF Rooted, Known
    <3>4. \A e \in edges : Rooted(e)'
      BY <1>a, <2>2, RootedStays DEF TablesInv
    <3>5. \A e \in edges' : Rooted(e)'
      BY <2>1, <3>2, <3>3, <3>4
    <3>6. \A x \in evidence : Sound(x)'
      BY <1>a, <2>2, SoundStays DEF TablesInv
    <3> QED BY <3>1, <3>5, <3>6 DEF TablesInv
  <2>6. EdgesInv'
    BY <2>3 DEF EdgesInv, Catching
  <2> QED BY <1>a, <2>2, <2>3, <2>4, <2>5, <2>6, OthersStay, ReportStays DEF WorkInv
<1>2. CASE /\ ~Valid(f, a, l, formed) /\ Leave(t, <<>>) /\ UNCHANGED <<frames, edges>>
  <2>1. Grows /\ <<>> \in Seq(Frame) /\ ToSet(<<>>) = {}
    BY <1>2 DEF Grows, ToSet
  <2>2. stage[t] = "crystal" => Crystallised(t, <<>>, evidence)
    BY <1>2, <2>1 DEF Crystallised
  <2>3. seen'[t] \subseteq evidence'
    BY <1>a DEF ThreadInv
  <2>4. ThreadInv(t)' /\ \A u \in Thread \ {t} : Same(u)
    BY <1>a, <1>2, <2>1, <2>2, <2>3, LeaveInv DEF Same
  <2>5. EdgesInv'
    BY <1>a, <1>2, <2>4, EdgesStay DEF Catching
  <2> QED BY <1>a, <1>2, <2>1, <2>4, <2>5, OthersStay, ReportStays, TablesStay DEF WorkInv
<1> QED BY <1>1, <1>2 DEF Execute, Valid

\* A thread that leaves its stage without a transaction.
LEMMA SkipInv ==
  ASSUME ShapeInv, WorkInv, NEW t \in Thread, Leave(t, <<>>), step[t] = "commit",
         UNCHANGED <<stored, frames, edges, evidence, seen, report, unwanted, torn>>,
         stage[t] = "crystal" => plan[t] = <<>>
  PROVE  WorkInv'
<1>a. WorkTypes /\ ThreadInv(t) /\ TablesInv /\ EdgesInv /\ SleepIsWhole
  BY DEF ShapeInv, WorkInv
<1>1. Grows /\ <<>> \in Seq(Frame) /\ ToSet(<<>>) = {}
  BY DEF Grows, ToSet
<1>2. stage[t] = "crystal" => Crystallised(t, <<>>, evidence)
  BY <1>1 DEF Crystallised
<1>3. seen'[t] \subseteq evidence'
  BY <1>a DEF ThreadInv
<1>4. ThreadInv(t)' /\ \A u \in Thread \ {t} : Same(u)
  BY <1>a, <1>1, <1>2, <1>3, LeaveInv DEF Same
<1>5. EdgesInv'
  BY <1>a, <1>4, EdgesStay DEF Catching
<1> QED BY <1>a, <1>1, <1>4, <1>5, OthersStay, ReportStays, TablesStay DEF WorkInv

\* An idle thread that begins to work on what its call says.
LEMMA BeginInv ==
  ASSUME ShapeInv, WorkInv, NEW t \in Thread, stage[t] = "idle", \A u \in Thread \ {t} : Same(u),
         stored \subseteq stored', unwanted \subseteq unwanted',
         UNCHANGED <<frames, edges, evidence, report, torn>>, ThreadInv(t)'
  PROVE  WorkInv'
<1>1. Grows
  BY DEF Grows
<1>2. EdgesInv'
  BY EdgesStay DEF Catching, WorkInv
<1> QED BY <1>1, <1>2, OthersStay, ReportStays, TablesStay DEF WorkInv

\* What an operation that adds an edge of the graph witnesses suppresses nothing.
LEMMA AddedHidesNothing ==
  ASSUME NEW e, e.rel \in (Associative \cup Logic) \ {"supersedes"}
  PROVE  Witness("add_edge", e).type \notin Hiding
<1>1. e.rel # "inhibits" /\ e.rel # "supersedes"
  BY DEF Associative, Logic
<1>2. EventType("add_edge", e.rel) \in {"derive", "support"}
  BY <1>1 DEF EventType
<1> QED BY <1>2, WitnessFacts DEF Hiding

\* The three policies that a call may have to commit: the graph of a selection,
LEMMA CommitGraphInv == ASSUME ShapeInv, WorkInv, NEW t \in Thread, CommitGraph(t) PROVE WorkInv'
<1> DEFINE selected == IF call[t].name = "observe" THEN {} ELSE call[t].of
           deltas == IF GraphMode = "off" THEN {} ELSE GraphDeltas(selected, call[t].of, plan[t])
           logic == {d \in deltas : d.rel \in Logic}
           said == Around(deltas) \cup {[from |-> Mem(d.from), to |-> Mem(d.to), rel |-> d.rel] : d \in deltas}
           events == {Witness("add_edge", e) : e \in said}
<1>1. stored \subseteq Memory
  BY DEF ShapeInv, TableTypes
<1>2. \/ Execute(t, Endpoints(logic), Around(deltas), Between(logic), events, <<>>, TRUE)
      \/ Leave(t, <<>>) /\ UNCHANGED <<frames, edges, traced>>
  BY DEF CommitGraph
<1>3. /\ stage[t] = "graph" /\ step[t] = "commit"
      /\ UNCHANGED <<stored, evidence, seen, impacted, queued, calls, report, unwanted, torn>>
  BY DEF CommitGraph
<1>4. deltas \in SUBSET GraphDeltas(selected, call[t].of, plan[t]) /\ logic \in SUBSET deltas
  OBVIOUS
<1> HIDE DEF deltas
<1>5. Endpoints(logic) \in SUBSET Frame
  BY <1>1, <1>4, GraphFacts
<1>6. \A e \in said : /\ e.from # e.to /\ e.from.kind = "memory" /\ e.to.kind = "memory"
                      /\ (e.from.of \cup e.to.of) \subseteq stored
                      /\ e.rel \in (Associative \cup Logic) \ {"supersedes"}
  <2>1. \A e \in Around(deltas) \cup {[from |-> Mem(d.from), to |-> Mem(d.to), rel |-> d.rel] : d \in deltas} :
              /\ e.from # e.to /\ e.from \in NodeSet /\ e.to \in NodeSet
              /\ e.from.kind = "memory" /\ e.to.kind = "memory" /\ (e.from.of \cup e.to.of) \subseteq stored
              /\ e.rel \in (Associative \cup Logic) \ {"supersedes"}
    BY <1>1, <1>4, GraphFacts
  <2> HIDE DEF selected, logic
  <2> QED BY <2>1
<1>7. \A e \in Around(deltas) : e.from.kind = "memory" /\ e.to.kind = "memory"
  BY <1>6
<1> HIDE DEF logic, said
<1>8. \A x \in events : Sound(x)'
  <2> TAKE x \in events
  <2>1. PICK e \in said : x = Witness("add_edge", e)
    OBVIOUS
  <2>2. x.from = e.from /\ x.to = e.to /\ x.rel = e.rel /\ x.type \notin Hiding
    BY <1>6, <2>1, WitnessFacts, AddedHidesNothing
  <2>3. Rooted(x)'
    BY <1>3, <1>6, <2>2 DEF Rooted, Known
  <2>4. x.rel \in Associative \cup Logic
    BY <1>6, <2>2
  <2> QED BY <2>2, <2>3, <2>4 DEF Sound
<1>9. <<>> \in Seq(Frame)
  OBVIOUS
<1> HIDE DEF events
<1>10. CASE Execute(t, Endpoints(logic), Around(deltas), Between(logic), events, <<>>, TRUE)
  BY <1>3, <1>5, <1>7, <1>8, <1>9, <1>10, ExecuteInv
<1>11. CASE Leave(t, <<>>) /\ UNCHANGED <<frames, edges, traced>>
  BY <1>3, <1>11, SkipInv
<1> QED BY <1>2, <1>10, <1>11

\* the frames of a sleep,
LEMMA CommitCrystalInv == ASSUME ShapeInv, WorkInv, NEW t \in Thread, CommitCrystal(t) PROVE WorkInv'
<1> DEFINE clusters == IF plan[t] = <<>> THEN FallbackClusters ELSE plan[t]
           links == SleepEdges(clusters)
           events == {Witness("add_edge", e) : e \in links}
           given == SourceFrames(clusters) \cup ToSet(SleepFrames(clusters))
<1>1. \/ clusters # <<>> /\ Execute(t, given, {}, links, events, SleepFrames(clusters), TRUE)
      \/ clusters = <<>> /\ Leave(t, <<>>) /\ UNCHANGED <<frames, edges, traced>>
  BY DEF CommitCrystal
<1>2. /\ stage[t] = "crystal" /\ step[t] = "commit"
      /\ UNCHANGED <<stored, evidence, seen, impacted, queued, calls, report, unwanted, torn>>
  BY DEF CommitCrystal
<1>3. clusters \in Seq(SUBSET Memory) /\ Len(clusters) <= MaxClusters + MaxGroups
  <2>1. FallbackClusters \in Seq(SUBSET Memory) /\ Len(FallbackClusters) <= MaxGroups
    BY FallbackType DEF ShapeInv, TableTypes
  <2>2. plan[t] \in Seq(SUBSET Memory) /\ Len(plan[t]) <= MaxClusters
    BY DEF ShapeInv, WorkTypes
  <2> QED BY <2>1, <2>2, BoundAssumption
<1>4. plan[t] # <<>> => clusters = plan[t] /\ \A i \in DOMAIN clusters : clusters[i] # {} /\ clusters[i] \subseteq stored
  BY DEF WorkInv, ThreadInv, ToSet
<1>5. plan[t] = <<>> \/ clusters # <<>>
  OBVIOUS
<1> HIDE DEF clusters
<1>6. /\ SleepFrames(clusters) \in Seq(Frame) /\ SourceFrames(clusters) \subseteq Frame
      /\ ToSet(SleepFrames(clusters)) \subseteq Frame
      /\ \A g \in ToSet(SleepFrames(clusters)) :
           \E i \in DOMAIN clusters : g = SleepFrames(clusters)[i] /\ g.kind = "sleep" /\ g.of = clusters[i]
  BY <1>3, SleepTypes DEF ToSet
<1>7. ASSUME NEW i \in DOMAIN clusters, NEW m \in clusters[i]
      PROVE  /\ m \in Memory /\ FrameOf(m) \in SourceFrames(clusters)
             /\ SleepFrames(clusters)[i] \in ToSet(SleepFrames(clusters))
             /\ FrameOf(m) # SleepFrames(clusters)[i]
  <2>1. m \in Memory
    BY <1>3
  <2>2. FrameOf(m) \in SourceFrames(clusters)
    BY DEF SourceFrames, ToSet
  <2>3. SleepFrames(clusters)[i] \in ToSet(SleepFrames(clusters)) /\ SleepFrames(clusters)[i].kind = "sleep"
    BY <1>3, SleepTypes DEF ToSet
  <2>4. FrameOf(m).kind = "frame"
    BY <2>1, NodeFacts
  <2> QED BY <2>1, <2>2, <2>3, <2>4
<1>8. \A e \in links : /\ e.from # e.to /\ {e.from, e.to} \subseteq given /\ e.rel = "derived_from"
  <2> TAKE e \in links
  <2>1. PICK i \in DOMAIN clusters : \E m \in clusters[i] :
          e = [from |-> FrameOf(m), to |-> SleepFrames(clusters)[i], rel |-> "derived_from"]
    BY <1>3, SleepTypes
  <2> QED BY <1>7, <2>1
<1>9. plan[t] # <<>> => Valid(given, {}, links, TRUE) /\ SleepFrames(clusters) = SleepFrames(plan[t])
  <2> SUFFICES ASSUME plan[t] # <<>> PROVE Valid(given, {}, links, TRUE) /\ SleepFrames(clusters) = SleepFrames(plan[t])
    OBVIOUS
  <2>1. \A g \in SourceFrames(clusters) : FrameValid(g)
    <3>1. \A g \in SourceFrames(clusters) : \E i \in DOMAIN clusters : \E m \in clusters[i] : g = FrameOf(m)
      BY DEF SourceFrames, ToSet
    <3>2. \A i \in DOMAIN clusters : \A m \in clusters[i] : FrameOf(m).of = {m} /\ m \in stored
      BY <1>4, <1>7, NodeFacts
    <3> QED BY <3>1, <3>2 DEF FrameValid
  <2>2. \A g \in ToSet(SleepFrames(clusters)) : FrameValid(g)
    BY <1>4, <1>6 DEF FrameValid
  <2>3. \A e \in links : LogicValid(e, frames \cup given)
    BY <1>8 DEF LogicValid
  <2> HIDE DEF links
  <2> QED BY <1>4, <2>1, <2>2, <2>3 DEF Valid
<1>10. given \in SUBSET Frame
  BY <1>6
<1>11. ASSUME NEW g \in ToSet(SleepFrames(clusters))
       PROVE  g \in given /\ \A m \in g.of : FrameOf(m) \in given /\ Derive(FrameOf(m), g) \in events
  <2>1. PICK i \in DOMAIN clusters : g = SleepFrames(clusters)[i] /\ g.of = clusters[i]
    BY <1>6
  <2> SUFFICES ASSUME NEW m \in g.of PROVE FrameOf(m) \in given /\ Derive(FrameOf(m), g) \in events
    OBVIOUS
  <2>2. [from |-> FrameOf(m), to |-> g, rel |-> "derived_from"] \in links
    BY <1>3, <2>1, SleepTypes
  <2>3. Witness("add_edge", [from |-> FrameOf(m), to |-> g, rel |-> "derived_from"]) = Derive(FrameOf(m), g)
    BY DEF Witness, Derive, EventType
  <2> QED BY <1>7, <2>1, <2>2, <2>3
<1>12. Valid(given, {}, links, TRUE) /\ frames' = frames \cup given => \A x \in events : Sound(x)'
  <2> SUFFICES ASSUME frames' = frames \cup given, NEW x \in events PROVE Sound(x)'
    OBVIOUS
  <2>1. PICK e \in links : x = Witness("add_edge", e)
    OBVIOUS
  <2>2. e.from # e.to /\ {e.from, e.to} \subseteq given /\ e.rel = "derived_from"
    BY <1>8
  <2>3. x.from = e.from /\ x.to = e.to /\ x.rel = e.rel /\ x.type \notin Hiding
    BY <2>1, <2>2, WitnessFacts, AddedHidesNothing DEF Logic
  <2>4. x.from.kind # "memory" /\ x.to.kind # "memory"
    BY <1>10, <2>2, <2>3, NodeFacts
  <2>5. Rooted(x)'
    BY <2>2, <2>3, <2>4 DEF Rooted, Known
  <2> QED BY <2>2, <2>3, <2>5 DEF Sound, Logic
<1> HIDE DEF links, events, given
<1>13. CASE Execute(t, given, {}, links, events, SleepFrames(clusters), TRUE)
  BY <1>2, <1>6, <1>9, <1>10, <1>11, <1>12, <1>13, ExecuteInv
<1>14. CASE clusters = <<>> /\ Leave(t, <<>>) /\ UNCHANGED <<frames, edges, traced>>
  BY <1>2, <1>5, <1>14, SkipInv
<1> QED BY <1>1, <1>13, <1>14

\* and a policy that the caller brought.
LEMMA CommitGivenInv == ASSUME ShapeInv, WorkInv, NEW t \in Thread, CommitGiven(t) PROVE WorkInv'
<1>1. PICK p \in Policies :
        LET given(family) == {Link(e) : e \in {x \in p.edges : x.from.kind \in family}}
        IN  /\ Execute(t, p.frames, given({"memory"}), given({"frame", "sleep", "user"}),
                       {Witness(e.op, e) : e \in p.edges}, <<>>, p.formed)
            /\ unwanted' = unwanted \cup UNION {e.to.of : e \in {x \in p.edges :
                               x.to.kind = "memory" /\ Witness(x.op, x).type \in Hiding}}
  BY DEF CommitGiven
<1>2. /\ stage[t] = "given" /\ step[t] = "commit"
      /\ UNCHANGED <<stored, evidence, seen, impacted, queued, calls, report, torn>>
  BY DEF CommitGiven
<1> DEFINE given(family) == {Link(e) : e \in {x \in p.edges : x.from.kind \in family}}
           a == given({"memory"})
           l == given({"frame", "sleep", "user"})
           events == {Witness(e.op, e) : e \in p.edges}
<1>3. Execute(t, p.frames, a, l, events, <<>>, p.formed)
  BY <1>1
<1>4. /\ p.frames \in SUBSET Frame /\ <<>> \in Seq(Frame)
      /\ \A e \in p.edges : e.rel \in Associative \cup Logic /\ (e.from.kind = "memory" => e.to.kind = "memory")
  BY PolicyAssumption
<1>5. \A e \in a : e.from.kind = "memory" /\ e.to.kind = "memory"
  BY <1>4, LinkFacts
<1>6. ASSUME Valid(p.frames, a, l, p.formed), frames' = frames \cup p.frames, NEW x \in events PROVE Sound(x)'
  <2>1. PICK e \in p.edges : x = Witness(e.op, e)
    OBVIOUS
  <2>2. x.from = e.from /\ x.to = e.to /\ x.rel = e.rel
    BY <2>1, WitnessFacts
  <2>3. ASSUME e.from.kind = "memory" PROVE Rooted(x)'
    <3>1. Link(e) \in a /\ e.to.kind = "memory"
      BY <1>4, <2>3
    <3>2. e.from # e.to /\ (e.from.of \cup e.to.of) \subseteq stored
      BY <1>6, <3>1, LinkFacts DEF Valid, AssociationValid
    <3> QED BY <1>2, <2>2, <2>3, <3>1, <3>2 DEF Rooted, Known
  <2>4. ASSUME {e.from, e.to} \subseteq Frame PROVE Rooted(x)'
    <3>1. e.from.kind \in {"frame", "sleep", "user"} /\ e.to.kind \in {"frame", "sleep", "user"}
      BY <2>4, NodeFacts
    <3>2. Link(e) \in l
      BY <3>1
    <3>3. e.from # e.to /\ {e.from, e.to} \subseteq frames'
      BY <1>6, <3>2, LinkFacts DEF Valid, LogicValid
    <3> QED BY <2>2, <3>1, <3>3 DEF Rooted, Known
  <2>5. Material(x)' => Rooted(x)' /\ x.rel \in Associative \cup Logic
    BY <1>4, <2>2, <2>3, <2>4 DEF Material
  <2>6. x.type \in Hiding /\ x.to.kind = "memory" => x.to.of \subseteq unwanted'
    BY <1>1, <2>1, <2>2
  <2> QED BY <2>5, <2>6 DEF Sound
<1>7. unwanted \subseteq unwanted'
  BY <1>1
<1> HIDE DEF a, l, events
<1> QED BY <1>2, <1>3, <1>4, <1>5, <1>6, <1>7, ExecuteInv

\* The report of a sleep that ends is of what it committed.
LEMMA ReportInv ==
  ASSUME ShapeInv, WorkInv, Grows, NEW t \in Thread, stage[t] = "last", step[t] = "write", call[t].name = "sleep",
         report' = Report(t)
  PROVE  SleepIsWhole'
<1> DEFINE compiled == nodes[t]
           planned == plan[t]
           links == {<<compiled[i], planned[i]>> : i \in DOMAIN compiled \cap DOMAIN planned}
<1>1. /\ pending[t] = {} /\ Crystallised(t, compiled, evidence)
      /\ \A f \in ToSet(compiled), m \in UNION ToSet(planned) : Derive(Mem(m), f) \in evidence
  <2>1. ThreadInv(t)
    BY DEF WorkInv
  <2>2. pending[t] = {} /\ evidence \cup pending[t] = evidence
    BY <2>1 DEF ThreadInv
  <2> QED BY <2>1, <2>2 DEF ThreadInv
<1>2. /\ report'.nodes = ToSet(compiled) /\ report'.replayed = UNION ToSet(planned) /\ report'.links = links
  BY DEF Report
<1>3. /\ compiled \in Seq(Frame) /\ planned \in Seq(SUBSET Memory) /\ Len(planned) <= MaxClusters + MaxGroups
  <2>1. compiled \in Seq(Frame) /\ planned \in Seq(SUBSET Memory) /\ Len(planned) <= MaxClusters
    BY DEF ShapeInv, WorkTypes
  <2> QED BY <2>1, BoundAssumption
<1>4. planned # <<>> => /\ compiled = SleepFrames(planned)
                        /\ DOMAIN compiled = DOMAIN planned
                        /\ \A i \in DOMAIN planned : compiled[i].of = planned[i]
  <2>1. planned # <<>> => compiled = SleepFrames(planned)
    BY <1>1 DEF Crystallised
  <2> HIDE DEF compiled, planned
  <2> QED BY <1>3, <2>1, SleepTypes
<1>5. planned = <<>> => DOMAIN planned = {}
  OBVIOUS
<1> HIDE DEF compiled, planned
<1>6. \A l \in links : l[1] \in ToSet(compiled) /\ l[1].of = l[2]
  BY <1>4, <1>5 DEF ToSet
<1>7. UNION {l[2] : l \in links} = UNION ToSet(planned)
  <2>1. \A i \in DOMAIN planned : <<compiled[i], planned[i]>> \in links
    BY <1>4, <1>5
  <2>2. \A c : c \in ToSet(planned) <=> c \in {l[2] : l \in links}
    <3>1. ASSUME NEW c \in ToSet(planned) PROVE c \in {l[2] : l \in links}
      <4>1. PICK i \in DOMAIN planned : c = planned[i]
        BY DEF ToSet
      <4>2. <<compiled[i], planned[i]>> \in links /\ <<compiled[i], planned[i]>>[2] = c
        BY <2>1, <4>1
      <4> HIDE DEF links
      <4> QED BY <4>2
    <3>2. ASSUME NEW l \in links PROVE l[2] \in ToSet(planned)
      BY DEF ToSet
    <3> QED BY <3>1, <3>2
  <2> QED BY <2>2
<1> HIDE DEF links
<1>8. /\ \A f \in ToSet(compiled) : f \in frames' /\ \A m \in f.of : FrameOf(m) \in frames' /\ Derive(FrameOf(m), f) \in evidence'
      /\ \A f \in ToSet(compiled), m \in UNION ToSet(planned) : Derive(Mem(m), f) \in evidence'
  BY <1>1 DEF Crystallised, Grows
<1>9. report'.nodes \cup {FrameOf(m) : m \in UNION {f.of : f \in report'.nodes}} \subseteq frames'
  BY <1>2, <1>8
<1>10. /\ \A f \in report'.nodes : \A m \in f.of :
            [type |-> "derive", from |-> FrameOf(m), to |-> f, rel |-> "derived_from"] \in evidence'
       /\ \A f \in report'.nodes, m \in report'.replayed :
            [type |-> "derive", from |-> Mem(m), to |-> f, rel |-> "derived_from"] \in evidence'
  BY <1>2, <1>8 DEF Derive
<1>11. /\ \A l \in report'.links : l[1] \in report'.nodes /\ l[1].of = l[2]
       /\ UNION {l[2] : l \in report'.links} = report'.replayed
  BY <1>2, <1>6, <1>7
<1> QED BY <1>9, <1>10, <1>11 DEF SleepIsWhole

\* What threads have in hand and what the tables hold stays sound.
LEMMA WorkNext == ShapeInv /\ WorkInv /\ [Next]_vars => WorkInv'
<1> SUFFICES ASSUME ShapeInv, WorkInv, [Next]_vars PROVE WorkInv'
  OBVIOUS
<1> USE DEF tables, work
<1>a. /\ WorkTypes /\ TablesInv /\ EdgesInv /\ SleepIsWhole /\ stored \subseteq Memory
      /\ seen \in [Thread -> SUBSET Event]
  BY DEF ShapeInv, WorkInv, TableTypes
<1>1. ASSUME NEW t \in Thread, AppendEvidence(t) PROVE WorkInv'
  <2>1. PICK e \in pending[t] : evidence' = evidence \cup {e} /\ pending' = [pending EXCEPT ![t] = @ \ {e}]
    BY <1>1 DEF AppendEvidence
  <2>2. /\ stage[t] # "idle" /\ step[t] = "append"
        /\ UNCHANGED <<stored, frames, edges, stage, step, call, plan, seen, nodes, report, unwanted, torn>>
    BY <1>1 DEF AppendEvidence
  <2>3. Grows /\ pending'[t] = pending[t] \ {e} /\ \A u \in Thread \ {t} : Same(u)
    BY <1>a, <2>1, <2>2 DEF Grows, Same, WorkTypes
  <2>4. ThreadInv(t)
    BY DEF WorkInv
  <2>5. \A x \in pending[t] : Sound(x)'
    BY <2>3, <2>4, SoundStays DEF ThreadInv
  <2>6. ThreadInv(t)'
    <3>1. evidence' \cup pending'[t] = evidence \cup pending[t]
      BY <2>1, <2>3
    <3> QED BY <2>1, <2>2, <2>3, <2>4, <2>5, <3>1 DEF ThreadInv, Crystallised
  <2>7. TablesInv'
    <3>1. \A x \in evidence' : Sound(x)'
      BY <1>a, <2>1, <2>3, <2>5, SoundStays DEF TablesInv
    <3>2. \A x \in edges : Rooted(x)'
      BY <1>a, <2>3, RootedStays DEF TablesInv
    <3> QED BY <1>a, <2>2, <3>1, <3>2 DEF TablesInv
  <2>8. EdgesInv'
    BY <1>a, <2>1, <2>2, <2>3, EdgesStay DEF Catching
  <2> QED BY <1>a, <2>2, <2>3, <2>6, <2>7, <2>8, OthersStay, ReportStays DEF WorkInv
<1>2. ASSUME NEW t \in Thread, ReadEvidence(t) PROVE WorkInv'
  <2>1. /\ stage[t] # "idle" /\ step[t] = "append" /\ pending[t] = {}
        /\ UNCHANGED <<tables, stage, call, plan, pending, nodes, report, unwanted, torn>>
        /\ seen' = [seen EXCEPT ![t] = evidence] /\ step' = [step EXCEPT ![t] = "write"]
    BY <1>2 DEF ReadEvidence
  <2>2. Grows /\ seen'[t] = evidence /\ step'[t] = "write" /\ \A u \in Thread \ {t} : Same(u)
    BY <1>a, <2>1 DEF Grows, Same, WorkTypes
  <2>3. ThreadInv(t)
    BY DEF WorkInv
  <2>4. ThreadInv(t)'
    BY <2>1, <2>2, <2>3 DEF ThreadInv, Crystallised
  <2>5. EdgesInv'
    BY <1>a, <2>1, <2>2, EdgesStay DEF Catching
  <2> QED BY <1>a, <2>1, <2>2, <2>4, <2>5, OthersStay, ReportStays, TablesStay DEF WorkInv
<1>3. ASSUME NEW t \in Thread, WriteEdges(t) PROVE WorkInv'
  <2>1. /\ stage[t] # "idle" /\ step[t] = "write" /\ edges' = Materialised(seen[t])
        /\ seen' = [seen EXCEPT ![t] = {}] /\ Leave(t, nodes[t])
        /\ report' = IF stage[t] = "last" /\ call[t].name = "sleep" THEN Report(t) ELSE report
        /\ UNCHANGED <<stored, frames, evidence, unwanted>>
    BY <1>3 DEF WriteEdges
  <2>2. Grows /\ seen'[t] = {} /\ \A u \in Thread \ {t} : seen'[u] = seen[u]
    BY <1>a, <2>1 DEF Grows
  <2>3. ThreadInv(t) /\ nodes[t] \in Seq(Frame)
    BY <1>a DEF WorkInv, WorkTypes
  <2>4. stage[t] = "crystal" => Crystallised(t, nodes[t], evidence)
    <3>1. evidence \cup pending[t] = evidence
      BY <2>1, <2>3 DEF ThreadInv
    <3> QED BY <2>1, <2>3, <3>1 DEF ThreadInv
  <2>5. ThreadInv(t)' /\ \A u \in Thread \ {t} : Same(u)
    BY <1>a, <2>1, <2>2, <2>3, <2>4, LeaveInv DEF Same
  <2>6. seen[t] \subseteq evidence
    BY <2>3 DEF ThreadInv
  <2>7. TablesInv'
    <3>1. ASSUME NEW x \in seen[t], Material(x) PROVE Rooted(Link(x))'
      <4>1. Rooted(x)
        BY <1>a, <2>6, <3>1 DEF TablesInv, Sound
      <4> QED BY <2>1, <4>1, LinkFacts DEF Rooted, Known
    <3>2. \A e \in edges' : Rooted(e)'
      BY <2>1, <3>1, MaterialisedFacts
    <3>3. \A x \in evidence : Sound(x)'
      BY <1>a, <2>2, SoundStays DEF TablesInv
    <3> QED BY <1>a, <2>1, <3>2, <3>3 DEF TablesInv
  <2>8. EdgesInv'
    <3>1. edges' \subseteq Materialised(evidence')
      BY <2>1, <2>6, MaterialisedFacts
    <3> QED BY <3>1 DEF EdgesInv
  <2>9. SleepIsWhole'
    BY <1>a, <2>1, <2>2, ReportInv, ReportStays
  <2> QED BY <2>2, <2>5, <2>7, <2>8, <2>9, OthersStay DEF WorkInv
<1>4. ASSUME NEW t \in Thread, NEW m \in Memory, Observe(t, m) PROVE WorkInv'
  <2>1. /\ stage[t] = "idle" /\ stage'[t] = "graph" /\ step'[t] = "commit" /\ call'[t].name = "observe"
        /\ stored \subseteq stored' /\ UNCHANGED <<frames, edges, evidence, plan, pending, seen, nodes, report, unwanted, torn>>
        /\ \A u \in Thread \ {t} : Same(u)
    BY <1>a, <1>4 DEF Observe, Call, Same, WorkTypes
  <2>2. Grows /\ ThreadInv(t)
    BY <2>1 DEF Grows, WorkInv
  <2>3. \A x \in pending[t] : Sound(x)'
    BY <2>2, SoundStays DEF ThreadInv
  <2>4. ThreadInv(t)'
    BY <2>1, <2>2, <2>3 DEF ThreadInv
  <2> QED BY <2>1, <2>4, BeginInv
<1>5. ASSUME NEW t \in Thread, NEW m \in Memory, Forget(t, m) PROVE WorkInv'
  <2> DEFINE x == [type |-> "inhibit", from |-> Outside(m), to |-> Mem(m), rel |-> "inhibits"]
  <2>1. /\ stage[t] = "idle" /\ stage'[t] = "last" /\ step'[t] = "append" /\ call'[t].name = "forget"
        /\ unwanted' = unwanted \cup {m} /\ UNCHANGED <<tables, plan, seen, nodes, report, torn>>
        /\ pending'[t] = {x} /\ \A u \in Thread \ {t} : Same(u)
    BY <1>a, <1>5 DEF Forget, Call, Same, WorkTypes
  <2>2. Sound(x)'
    <3>1. x.from = Outside(m) /\ x.to = Mem(m)
      OBVIOUS
    <3>2. Outside(m).kind = "event" /\ Mem(m).of = {m} /\ Outside(m) \notin Frame
      BY NodeFacts
    <3> HIDE DEF x
    <3> QED BY <2>1, <3>1, <3>2 DEF Sound, Material
  <2>3. ThreadInv(t)
    BY DEF WorkInv
  <2> HIDE DEF x
  <2>4. ThreadInv(t)'
    BY <2>1, <2>2, <2>3 DEF ThreadInv
  <2> QED BY <2>1, <2>4, BeginInv
<1>6. ASSUME NEW t \in Thread, NEW s \in SUBSET stored, Retrieve(t, s) \/ TakeJob(t, s) PROVE WorkInv'
  <2>1. /\ stage[t] = "idle" /\ stage'[t] \in {"idle", "graph"} /\ step'[t] = "commit"
        /\ call'[t].name \in {"none", "retrieve"}
        /\ UNCHANGED <<tables, plan, pending, seen, nodes, report, unwanted, torn>>
        /\ \A u \in Thread \ {t} : Same(u)
    <3>1. CASE TakeJob(t, s)
      BY <1>a, <3>1 DEF TakeJob, Same, WorkTypes
    <3>2. CASE Retrieve(t, s)
      <4>1. \E first \in {"idle", "graph"} : Call(t, "retrieve", s, first, "commit")
        BY <3>2 DEF Retrieve
      <4>2. UNCHANGED <<tables, plan, pending, seen, nodes, report, unwanted, torn>>
        BY <3>2 DEF Retrieve
      <4> QED BY <1>a, <4>1, <4>2 DEF Call, Same, WorkTypes, Nothing
    <3> QED BY <1>6, <3>1, <3>2
  <2>2. ThreadInv(t)
    BY DEF WorkInv
  <2>3. ThreadInv(t)'
    BY <2>1, <2>2 DEF ThreadInv, Sound, Material, Rooted, Known
  <2> QED BY <2>1, <2>3, BeginInv
<1>7. ASSUME NEW t \in Thread, Propose(t) PROVE WorkInv'
  <2>1. /\ stage[t] = "idle" /\ stage'[t] = "given" /\ step'[t] = "commit"
        /\ call'[t].name = "propose"
        /\ UNCHANGED <<tables, plan, pending, seen, nodes, report, unwanted, torn>>
        /\ \A u \in Thread \ {t} : Same(u)
    BY <1>a, <1>7 DEF Propose, Call, Same, WorkTypes
  <2>2. ThreadInv(t)
    BY DEF WorkInv
  <2>3. ThreadInv(t)'
    BY <2>1, <2>2 DEF ThreadInv, Sound, Material, Rooted, Known
  <2> QED BY <2>1, <2>3, BeginInv
<1>8. ASSUME NEW t \in Thread, Sleep(t) PROVE WorkInv'
  <2>1. /\ stage[t] = "idle" /\ stage'[t] = "graph" /\ step'[t] = "commit"
        /\ plan'[t] = ReplayClusters
        /\ UNCHANGED <<tables, pending, seen, nodes, report, unwanted, torn>>
        /\ \A u \in Thread \ {t} : Same(u)
    BY <1>a, <1>8 DEF Sleep, Call, Same, WorkTypes
  <2>2. \A c \in ToSet(ReplayClusters) : c # {} /\ c \subseteq stored
    BY <1>a, ReplayType
  <2>3. ThreadInv(t)
    BY DEF WorkInv
  <2>4. ThreadInv(t)'
    BY <2>1, <2>2, <2>3 DEF ThreadInv, Sound, Material, Rooted, Known
  <2> QED BY <2>1, <2>4, BeginInv
<1>9. CASE Crash
  <2>1. UNCHANGED <<tables, report, unwanted>> /\ torn' = (torn \/ ~(edges \subseteq Materialised(evidence)))
    BY <1>9 DEF Crash
  <2>2. \A u \in Thread : /\ stage'[u] = "idle" /\ step'[u] = "commit" /\ call'[u].name = "none"
                          /\ plan'[u] = <<>> /\ pending'[u] = {} /\ seen'[u] = {}
    BY <1>9 DEF Crash, Nothing
  <2>3. ToSet(<<>>) = {}
    BY DEF ToSet
  <2>4. \A u \in Thread : ThreadInv(u)'
    BY <2>2, <2>3 DEF ThreadInv
  <2>5. Grows
    BY <2>1 DEF Grows
  <2>6. EdgesInv'
    BY <2>1 DEF EdgesInv, Materialised
  <2> QED BY <1>a, <2>1, <2>4, <2>5, <2>6, ReportStays, TablesStay DEF WorkInv
<1>10. CASE UNCHANGED vars
  <2>1. Grows /\ UNCHANGED <<edges, frames, evidence, report, torn>> /\ \A u \in Thread : Same(u)
    BY <1>10 DEF vars, Grows, Same
  <2>2. \A u \in Thread : ThreadInv(u)'
    BY <2>1, OthersStay
  <2>3. EdgesInv'
    BY <1>a, <2>1 DEF EdgesInv, Materialised, Catching, Same
  <2> QED BY <1>a, <2>1, <2>2, <2>3, ReportStays, TablesStay DEF WorkInv
<1> QED
  BY <1>1, <1>2, <1>3, <1>4, <1>5, <1>6, <1>7, <1>8, <1>9, <1>10,
     CommitGraphInv, CommitCrystalInv, CommitGivenInv DEF Next

-----------------------------------------------------------------------------
(* The theorems                                                             *)

\* The empty runtime is in a state of the invariant, ...
LEMMA InitInv == Init => ShapeInv /\ WorkInv
<1> SUFFICES ASSUME Init PROVE ShapeInv /\ WorkInv
  OBVIOUS
<1>1. <<>> \in Seq(SUBSET Memory) /\ <<>> \in Seq(Frame) /\ Len(<<>>) <= MaxClusters /\ ToSet(<<>>) = {}
  BY BoundAssumption DEF ToSet
<1>2. Nothing \in [name : {"none", "observe", "retrieve", "propose", "forget", "sleep"}, of : SUBSET Memory]
  BY DEF Nothing
<1>3. ShapeInv
  <2>1. WorkTypes
    BY <1>1, <1>2 DEF Init, WorkTypes
  <2>2. TableTypes
    <3>1. calls \in 0..MaxCalls
      BY BoundAssumption DEF Init
    <3>2. torn \in BOOLEAN
      BY Zenon DEF Init
    <3> QED BY <3>1, <3>2 DEF Init, TableTypes
  <2> QED BY <2>1, <2>2 DEF Init, ShapeInv
<1>4. \A t \in Thread : ThreadInv(t)
  BY <1>1 DEF Init, ThreadInv, Nothing
<1>5. TablesInv /\ EdgesInv /\ SleepIsWhole
  BY DEF Init, TablesInv, EdgesInv, SleepIsWhole
<1> QED BY <1>3, <1>4, <1>5 DEF WorkInv

\* ... and every step of a call, of the job queue or of a crash leads to another.
LEMMA InvCorrect == Spec => [](ShapeInv /\ WorkInv)
BY InitInv, ShapeNext, WorkNext, PTL DEF Spec

\* Every variable has its type in every reachable state; in particular no edge
\* has a relation that only events may have, and no relation that no source of a
\* candidate pair suggests.
THEOREM TypeCorrect == Spec => []TypeOK
<1>1. ShapeInv => TypeOK
  BY DEF ShapeInv, WorkTypes, TableTypes, TypeOK, ToSet
<1> QED BY <1>1, InvCorrect, PTL

\* Whatever transactions, rebuilds and crashes have run, in whatever order, every
\* frame is about stored memories and every edge joins two different nodes of
\* the store.
THEOREM StructureRootedCorrect == Spec => []StructureRooted
<1>1. WorkInv => StructureRooted
  <2> SUFFICES ASSUME TablesInv PROVE StructureRooted
    BY DEF WorkInv
  <2>1. ASSUME NEW x \in evidence, Material(x) PROVE Rooted(Link(x))
    BY <2>1, LinkFacts DEF TablesInv, Sound, Rooted
  <2>2. \A e \in Materialised(evidence) : Rooted(e)
    BY <2>1, MaterialisedFacts
  <2> QED BY <2>2 DEF TablesInv, StructureRooted, Rooted
<1> QED BY <1>1, InvCorrect, PTL

\* A sleep that reported its frames has left every frame and event they stand on,
\* however many other sleeps, observations and policies ran between its commits.
THEOREM SleepIsWholeCorrect == Spec => []SleepIsWhole
<1>1. WorkInv => SleepIsWhole
  BY DEF WorkInv
<1> QED BY <1>1, InvCorrect, PTL

\* No relation that the graph or a sleep infers ever suppresses a memory: each
\* one that is suppressed was named by a caller who asked for that.
THEOREM OnlyUnwantedIsHiddenCorrect == Spec => []OnlyUnwantedIsHidden
<1>1. WorkInv => OnlyUnwantedIsHidden
  BY DEF WorkInv, TablesInv, Sound, OnlyUnwantedIsHidden
<1> QED BY <1>1, InvCorrect, PTL

\* When no operation is under way the edges are those that the evidence accounts
\* for, unless a crash tore a transaction from its evidence since the last rebuild.
THEOREM EdgesAreEvidencedCorrect == Spec => []EdgesAreEvidenced
<1>1. WorkInv => EdgesAreEvidenced
  BY DEF WorkInv, EdgesInv, Catching, EdgesAreEvidenced
<1> QED BY <1>1, InvCorrect, PTL

=============================================================================
