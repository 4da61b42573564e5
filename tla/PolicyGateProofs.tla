-------------------------- MODULE PolicyGateProofs --------------------------
(***************************************************************************)
(* What may be recorded. The gate of PolicyGate, for any set of memories,   *)
(* events, proposals and legacy policies: the records are append-only, each  *)
(* rests on an experience, and no ADD of a committed proposal is dropped.    *)
(* The routes of Routing, for any proposals, observations and bounds: ids    *)
(* of claims are recorded once, a route that is audited is whole, and what   *)
(* a packet shows follows from the journal alone. The two components share   *)
(* no state; the second half of the module is about Routing.                 *)
(***************************************************************************)
EXTENDS PolicyGate, Routing, SequenceTheorems, FiniteSetTheorems, WellFoundedInduction, TLAPS

-----------------------------------------------------------------------------
(* What a proposal is coerced into                                          *)

\* What a proposal says, by a delta or by its intent.
Saying == [op : DeltaOperation \cup Intent, target : Target, kind : Kind]

\* Every saying of a well-formed proposal becomes a legacy policy.
LEMMA CoercedIsLegacy ==
    ASSUME NEW p, WellFormed(p), NEW d \in Saying
    PROVE  Coerced(p, d) \in Legacy
<1>1. p.evidence \in Seq(Id) /\ p.blocked \in BOOLEAN /\ <<>> \in Seq(Id)
  BY DEF WellFormed
<1>2. d.kind \in Kind /\ d.target \in Target /\ None \in Target
  BY DEF Saying, Target
<1>3. WriteOperation(p, Operation(p, d)) \in {"ADD", "UPDATE", "LINK", "NOOP"}
  BY DEF WriteOperation
<1> QED BY <1>1, <1>2, <1>3 DEF Coerced, Legacy

\* So do all the policies the executor is given for a proposal.
LEMMA WritesAreLegacy ==
    ASSUME NEW p, WellFormed(p)
    PROVE  /\ First(p) \in Legacy
           /\ Writes(p) \in Seq(Legacy)
<1>1. /\ p.deltas \in Seq(Delta) /\ p.intent \in Intent /\ p.selected \in Target
      /\ p.blocked \in BOOLEAN
  BY DEF WellFormed
<1>2. \A i \in DOMAIN p.deltas : p.deltas[i] \in Saying
  <2>1. \A i \in 1..Len(p.deltas) : p.deltas[i] \in Delta
    BY <1>1, ElementOfSeq
  <2>2. Delta \subseteq Saying
    BY DEF Delta, Saying
  <2> QED BY <1>1, <2>1, <2>2
<1>3. Said(p)[1] \in Saying
  <2>1. CASE p.deltas = <<>>
    BY <1>1, <2>1 DEF Said, Saying, Kind
  <2>2. CASE p.deltas # <<>>
    <3>1. 1 \in DOMAIN p.deltas
      BY <1>1, <2>2, EmptySeq
    <3> QED BY <1>2, <2>2, <3>1 DEF Said
  <2> QED BY <2>1, <2>2
<1>4. Nothing(p) \in Legacy
  BY <1>1 DEF Nothing, Legacy, Target, Kind
<1>5. First(p) \in Legacy
  BY <1>3, <1>4, CoercedIsLegacy DEF First
<1>6. CASE MultiAdd(p)
  <2>1. \A i \in 1..Len(p.deltas) : Coerced(p, p.deltas[i]) \in Legacy
    BY <1>1, <1>2, CoercedIsLegacy
  <2>2. Writes(p) = [i \in 1..Len(p.deltas) |-> Coerced(p, p.deltas[i])]
    BY <1>1, <1>6 DEF Writes
  <2> QED BY <1>1, <1>5, <2>1, <2>2
<1>7. CASE ~MultiAdd(p)
  BY <1>5, <1>7 DEF Writes
<1> QED BY <1>5, <1>6, <1>7

-----------------------------------------------------------------------------
(* What one execution does to the store                                     *)

\* Every stored memory is as new as when it was created, with evidence that
\* is known: what ADD and LINK leave, and consolidation may not change.
RecordInv ==
    /\ TypeOK
    /\ \A m \in Stored : store[m].maturity = "fresh"

\* after has what the store has, and cites what was known before.
Extends(after) ==
    /\ Stored \subseteq DOMAIN after /\ DOMAIN after \subseteq Memory
    /\ after \in [DOMAIN after -> Record]
    /\ \A m \in DOMAIN after :
        /\ after[m].maturity = "fresh"
        /\ after[m].evidence \subseteq experience \cup Stored
    /\ \A m \in Stored :
        /\ after[m].kind = store[m].kind
        /\ store[m].evidence \subseteq after[m].evidence

\* The machine allows no promotion of a fresh memory.
LEMMA FreshStaysFresh ==
    /\ "fresh" \in Maturity
    /\ Promoted("fresh") = "linked"
    /\ ~ValidTransition("fresh", "linked")
  BY DEF Maturity, AllowedTransitions, Promoted, ValidTransition

\* What validated policies cite is known.
LEMMA KnownEvidence ==
    ASSUME NEW l \in Legacy, Valid(l), l.write \in {"ADD", "LINK"}
    PROVE  /\ ToSet(l.evidence) \subseteq experience \cup Stored
           /\ ToSet(l.evidence) \subseteq Id
           /\ l.evidence[1] \in ToSet(l.evidence)
<1>1. l.evidence \in Seq(Id) /\ l.evidence # <<>>
  BY DEF Legacy, Valid, Evidence, Writing
<1>2. ToSet(l.evidence) \subseteq experience \cup Stored
  BY DEF Valid, Provenance, Writing
<1>3. 1 \in DOMAIN l.evidence /\ \A i \in DOMAIN l.evidence : l.evidence[i] \in Id
  BY <1>1, EmptySeq, ElementOfSeq
<1> QED BY <1>2, <1>3 DEF ToSet

\* Additions and links extend the store.
LEMMA WrittenExtends ==
    ASSUME RecordInv, NEW writes \in Seq(Legacy), \A i \in DOMAIN writes : Valid(writes[i]),
           NEW id \in FreshIds(writes)
    PROVE  /\ Extends(Written(writes, id))
           /\ DOMAIN Written(writes, id) = Stored \cup Range(id)
           /\ \A m \in Range(id) : Written(writes, id)[m].used = 0
<1> DEFINE after == Written(writes, id)
<1>1. /\ id \in [Adds(writes) -> Memory \ Stored] /\ DOMAIN id = Adds(writes)
      /\ Range(id) \subseteq Memory \ Stored
  BY DEF FreshIds, Injection, Range
<1>2. \A i \in DOMAIN writes : writes[i] \in Legacy
  BY ElementOfSeq
<1>3. DOMAIN after = Stored \cup Range(id)
  BY DEF Written
<1>4. ASSUME NEW m \in Stored
      PROVE  /\ after[m] \in Record
             /\ after[m].kind = store[m].kind /\ after[m].maturity = "fresh"
             /\ store[m].evidence \subseteq after[m].evidence
             /\ after[m].evidence \subseteq experience \cup Stored
  <2>1. store[m] \in Record /\ store[m].maturity = "fresh" /\ store[m].evidence \subseteq experience \cup Stored
    BY DEF RecordInv, TypeOK
  <2>2. Linked(writes, m) \subseteq Id /\ Linked(writes, m) \subseteq experience \cup Stored
    <3>1. ASSUME NEW i \in DOMAIN writes, writes[i].write = "LINK"
          PROVE  ToSet(writes[i].evidence) \subseteq Id \cap (experience \cup Stored)
      BY <1>2, <3>1, KnownEvidence
    <3> QED BY <3>1 DEF Linked
  <2>3. after[m] = [store[m] EXCEPT !.evidence = @ \cup Linked(writes, m)]
    BY <1>3 DEF Written
  <2>4. /\ after[m].kind = store[m].kind /\ after[m].maturity = "fresh"
        /\ after[m].used = store[m].used
        /\ after[m].evidence = store[m].evidence \cup Linked(writes, m)
    BY <2>1, <2>3 DEF Record
  <2>5. after[m] \in Record
    BY <2>1, <2>2, <2>3 DEF Record
  <2> QED BY <2>1, <2>2, <2>4, <2>5
<1>5. ASSUME NEW m \in Range(id)
      PROVE  /\ after[m] \in Record
             /\ after[m].maturity = "fresh" /\ after[m].used = 0
             /\ after[m].evidence \subseteq experience \cup Stored
  <2>1. PICK i \in DOMAIN id : i = (CHOOSE j \in DOMAIN id : id[j] = m)
    BY DEF Range
  <2>2. writes[i] \in Legacy /\ Valid(writes[i]) /\ writes[i].write = "ADD"
    BY <1>1, <1>2 DEF Adds
  <2>3. writes[i].evidence[1] \in Id \cap (experience \cup Stored)
    BY <2>2, KnownEvidence
  <2>4. after[m] = Created(writes[i])
    BY <1>1, <1>3, <2>1 DEF Written
  <2>5. writes[i].kind \in Kind
    BY <2>2 DEF Legacy
  <2>6. /\ after[m].maturity = "fresh" /\ after[m].used = 0
        /\ after[m].evidence = {writes[i].evidence[1]}
    BY <2>4 DEF Created
  <2>7. {writes[i].evidence[1]} \in (SUBSET Id) \ {{}}
    BY <2>3
  <2>8. 0 \in 0..MaxUse
    BY UseAssumption
  <2>9. Created(writes[i]) \in Record
    BY <2>5, <2>7, <2>8, FreshStaysFresh DEF Created, Record
  <2> QED BY <2>3, <2>4, <2>6, <2>9
<1>6. after \in [DOMAIN after -> Record]
  <2>1. after = [m \in DOMAIN after |-> after[m]]
    BY <1>3 DEF Written
  <2> QED BY <1>3, <1>4, <1>5, <2>1
<1>7. Stored \subseteq Memory
  BY DEF RecordInv, TypeOK
<1> HIDE DEF after
<1>8. Extends(after)
  BY <1>1, <1>3, <1>4, <1>5, <1>6, <1>7 DEF Extends
<1> QED BY <1>3, <1>5, <1>8 DEF after

\* So does a consolidation that the lifecycle machine lets through: it has
\* promoted nothing.
LEMMA AfterExtends ==
    ASSUME RecordInv, NEW writes \in Seq(Legacy), \A i \in DOMAIN writes : Valid(writes[i]),
           NEW id \in FreshIds(writes), LifecycleHolds(After(writes, id))
    PROVE  /\ Extends(After(writes, id))
           /\ DOMAIN After(writes, id) = Stored \cup Range(id)
<1> DEFINE written == Written(writes, id)
<1>1. /\ Extends(written) /\ DOMAIN written = Stored \cup Range(id)
      /\ \A m \in Range(id) : written[m].used = 0
  BY WrittenExtends
<1> HIDE DEF written
<1>2. CASE After(writes, id) = written
  BY <1>1, <1>2
<1>3. CASE After(writes, id) = Consolidated(written)
  <2>1. ASSUME NEW m \in DOMAIN written, written[m].kind = "episodic", written[m].used >= 1
        PROVE  FALSE
    <3>1. m \in Stored
      BY <1>1, <2>1
    <3>2. written[m] \in Record /\ written[m].maturity = "fresh" /\ store[m].maturity = "fresh"
      BY <1>1, <3>1 DEF Extends, RecordInv
    <3>3. Consolidated(written)[m].maturity = "linked"
      BY <2>1, <3>2, FreshStaysFresh DEF Consolidated, Record
    <3>4. ValidTransition("fresh", "linked")
      BY <1>3, <3>1, <3>2, <3>3 DEF LifecycleHolds
    <3> QED BY <3>4, FreshStaysFresh
  <2>2. Consolidated(written) = [m \in DOMAIN written |-> written[m]]
    BY <2>1 DEF Consolidated
  <2>3. Consolidated(written) = written
    BY <1>1, <2>2 DEF Extends
  <2> QED BY <1>1, <1>3, <2>3
<1> QED BY <1>2, <1>3 DEF After, written

-----------------------------------------------------------------------------
(* What a step does to the store                                            *)

\* Every commit leaves the store alone or extends it.
LEMMA ExecuteExtends ==
    ASSUME RecordInv, NEW writes \in Seq(Legacy), NEW unsupported, NEW structural, NEW asked \in Nat,
           Execute(writes, unsupported, structural, asked)
    PROVE  /\ experience' = experience /\ suppressed' = suppressed
           /\ answer' \in [outcome : Outcome, asked : Nat]
           /\ store' = store \/ Extends(store')
           /\ answer'.outcome = "committed" =>
                /\ answer'.asked = asked
                /\ \E id \in FreshIds(writes) : Stored' = Stored \cup Range(id)
<1>1. \A i \in DOMAIN writes : Valid(writes[i])
  BY DEF Execute
<1>2. PICK id \in FreshIds(writes) :
        \/ Keep("rolled back") \/ Keep("raised")
        \/ /\ LifecycleHolds(After(writes, id))
           /\ store' = After(writes, id)
           /\ answer' = [outcome |-> "committed", asked |-> asked]
           /\ UNCHANGED <<experience, suppressed>>
  BY DEF Execute
<1>3. CASE Keep("rolled back") \/ Keep("raised")
  <2>1. PICK outcome \in {"rolled back", "raised"} : Keep(outcome)
    BY <1>3
  <2>2. /\ experience' = experience /\ suppressed' = suppressed /\ store' = store
        /\ answer' = [outcome |-> outcome, asked |-> 0]
    BY <2>1 DEF Keep, Answer
  <2>3. outcome \in Outcome /\ outcome # "committed"
    BY DEF Outcome
  <2> QED BY <2>2, <2>3
<1>4. CASE /\ LifecycleHolds(After(writes, id))
           /\ store' = After(writes, id)
           /\ answer' = [outcome |-> "committed", asked |-> asked]
           /\ UNCHANGED <<experience, suppressed>>
  BY <1>1, <1>4, AfterExtends DEF Outcome, Stored
<1> QED BY <1>2, <1>3, <1>4

\* A step extends the store and what is known, or only counts accesses.
Step ==
    /\ experience \subseteq experience' /\ experience' \subseteq Event
    /\ suppressed' \subseteq Memory
    /\ answer' \in [outcome : Outcome, asked : Nat]
    /\ \/ Extends(store')
       \/ /\ store' \in [Stored -> Record]
          /\ \A m \in Stored :
                /\ store'[m].kind = store[m].kind
                /\ store'[m].maturity = store[m].maturity
                /\ store'[m].evidence = store[m].evidence

\* A step that keeps the store is one of those.
LEMMA KeepsStore ==
    ASSUME RecordInv, store' = store, experience' = experience,
           suppressed' \subseteq Memory,
           answer' \in [outcome : Outcome, asked : Nat]
    PROVE  Step
  BY DEF RecordInv, TypeOK, Step

\* An answer that leaves the records alone is such a step,
LEMMA KeepIsStep ==
    ASSUME RecordInv, NEW outcome \in Outcome, Keep(outcome)
    PROVE  Step
  BY KeepsStore DEF Keep, Answer, RecordInv, TypeOK

\* one execution of policies is,
LEMMA ExecuteIsStep ==
    ASSUME RecordInv, NEW writes \in Seq(Legacy), NEW unsupported, NEW structural, NEW asked \in Nat,
           Execute(writes, unsupported, structural, asked)
    PROVE  Step
<1>1. /\ experience' = experience /\ suppressed' = suppressed
      /\ answer' \in [outcome : Outcome, asked : Nat]
      /\ store' = store \/ Extends(store')
  BY ExecuteExtends
<1>2. CASE store' = store
  BY <1>1, <1>2, KeepsStore DEF RecordInv, TypeOK
<1>3. CASE Extends(store')
  BY <1>1, <1>3 DEF Step, RecordInv, TypeOK
<1> QED BY <1>1, <1>2, <1>3

\* and the suppression of a memory.
LEMMA SuppressIsStep ==
    ASSUME RecordInv, NEW l \in Legacy, Suppress(l)
    PROVE  Step
<1>1. CASE Keep("rejected")
  BY <1>1, KeepIsStep DEF Outcome
<1>2. CASE ~Keep("rejected")
  <2>1. /\ suppressed' \subseteq Memory
        /\ answer' = [outcome |-> "suppressed", asked |-> 0]
        /\ experience' = experience /\ store' = store
    BY <1>2 DEF Suppress, Answer, RecordInv, TypeOK
  <2> QED BY <2>1, KeepsStore DEF Outcome
<1> QED BY <1>1, <1>2

\* The ADD deltas of a proposal can be counted.
LEMMA AskedType ==
    ASSUME NEW p \in Proposal
    PROVE  Asked(p) \in Nat
<1>1. p.deltas \in Seq(Delta)
  BY ProposalAssumption DEF WellFormed
<1>2. PICK n \in Nat : DOMAIN p.deltas = 1..n
  BY <1>1
<1>3. IsFiniteSet(1..n)
  BY FS_Interval
<1>4. {i \in DOMAIN p.deltas : p.deltas[i].op = "ADD"} \subseteq 1..n
  BY <1>2
<1>5. IsFiniteSet({i \in DOMAIN p.deltas : p.deltas[i].op = "ADD"})
  BY <1>3, <1>4, FS_Subset
<1> QED BY <1>5, FS_CardinalityType DEF Asked

\* The commit of a proposal, whichever way it goes, is a step.
LEMMA ProposalIsStep ==
    ASSUME RecordInv, NEW p \in Proposal, CommitProposal(p)
    PROVE  Step
<1>1. First(p) \in Legacy /\ Writes(p) \in Seq(Legacy)
  BY WritesAreLegacy, ProposalAssumption
<1>2. Asked(p) \in Nat
  BY AskedType
<1>3. CASE Refuse(p)
  BY <1>3, KeepIsStep DEF Refuse, Outcome
<1>4. CASE Correct(p)
  BY <1>4, KeepsStore DEF Correct, Answer, Outcome, RecordInv, TypeOK
<1>5. CASE Suppress(First(p))
  BY <1>1, <1>5, SuppressIsStep
<1>6. CASE Reject(Writes(p), Unsupported(p))
  BY <1>6, KeepIsStep DEF Reject, Outcome
<1>7. CASE Execute(Writes(p), Unsupported(p), Structural(p), Asked(p))
  BY <1>1, <1>2, <1>7, ExecuteIsStep
<1> QED BY <1>3, <1>4, <1>5, <1>6, <1>7 DEF CommitProposal

\* A single policy adds one memory, or none.
LEMMA OneWrite ==
    ASSUME NEW l \in Legacy
    PROVE  /\ <<l>> \in Seq(Legacy)
           /\ Cardinality(Adds(<<l>>)) \in Nat
           /\ l.write = "ADD" => Adds(<<l>>) = {1} /\ Cardinality(Adds(<<l>>)) = 1
<1>1. Adds(<<l>>) \subseteq {1}
  BY DEF Adds
<1>2. IsFiniteSet(Adds(<<l>>))
  BY <1>1, FS_Singleton, FS_Subset
<1>3. l.write = "ADD" => Adds(<<l>>) = {1}
  BY DEF Adds
<1> QED BY <1>2, <1>3, FS_CardinalityType, FS_Singleton

\* The commit of a legacy policy is a step,
LEMMA LegacyIsStep ==
    ASSUME RecordInv, NEW l \in LegacyPolicy, CommitLegacy(l)
    PROVE  Step
<1>1. l \in Legacy
  BY LegacyAssumption
<1>2. CASE Keep("rejected")
  BY <1>2, KeepIsStep DEF Outcome
<1>3. CASE Suppress(l)
  BY <1>1, <1>3, SuppressIsStep
<1>4. CASE Reject(<<l>>, FALSE)
  BY <1>4, KeepIsStep DEF Reject, Outcome
<1>5. CASE Execute(<<l>>, FALSE, FALSE, Cardinality(Adds(<<l>>)))
  BY <1>1, <1>5, OneWrite, ExecuteIsStep
<1> QED BY <1>2, <1>3, <1>4, <1>5 DEF CommitLegacy

\* a retrieval with its consolidation is,
LEMMA RetrieveIsStep ==
    ASSUME RecordInv, NEW hits \in SUBSET Stored, Retrieve(hits)
    PROVE  Step
<1>1. /\ experience' = experience /\ suppressed' = suppressed
      /\ answer' = [outcome |-> "retrieved", asked |-> 0]
  BY DEF Retrieve, Answer
<1>2. DOMAIN store' = Stored /\ store' = [m \in Stored |-> store'[m]]
  BY DEF Retrieve
<1>3. ASSUME NEW m \in Stored
      PROVE  /\ store'[m] \in Record
             /\ store'[m].kind = store[m].kind
             /\ store'[m].maturity = store[m].maturity
             /\ store'[m].evidence = store[m].evidence
  <2>1. store[m] \in Record
    BY DEF RecordInv, TypeOK
  <2>2. CASE store'[m] = store[m]
    BY <2>1, <2>2
  <2>3. CASE store'[m] # store[m]
    <3>1. store'[m] = [store[m] EXCEPT !.used = store[m].used + 1] /\ store[m].used < MaxUse
      BY <2>3 DEF Retrieve
    <3>2. store[m].used + 1 \in 0..MaxUse
      BY <2>1, <3>1, UseAssumption DEF Record
    <3> QED BY <2>1, <3>1, <3>2 DEF Record
  <2> QED BY <2>2, <2>3
<1>4. store' \in [Stored -> Record]
  BY <1>2, <1>3
<1> QED BY <1>1, <1>3, <1>4 DEF Step, Outcome, RecordInv, TypeOK

\* and so is an observation, committed or not.
LEMMA EventIsStep ==
    ASSUME RecordInv, NEW e \in Event, Observe(e) \/ ObserveAndCommit(e)
    PROVE  Step
<1>1. CASE Observe(e)
  BY <1>1 DEF Observe, Answer, Step, Outcome, RecordInv, TypeOK
<1>2. CASE ObserveAndCommit(e)
  <2>1. PICK k \in Kind : Execute(<<EventPolicy(e, k)>>, FALSE, FALSE, 1)
    BY <1>2 DEF ObserveAndCommit
  <2>2. EventPolicy(e, k) \in Legacy
    BY DEF EventPolicy, Legacy, Target, Id
  <2> QED BY <2>1, <2>2, OneWrite, ExecuteIsStep
<1> QED BY <1>1, <1>2

\* Thus every call is.
LEMMA NextIsStep ==
    ASSUME RecordInv, Next
    PROVE  Step
  BY ProposalIsStep, LegacyIsStep, RetrieveIsStep, EventIsStep DEF Next

-----------------------------------------------------------------------------
(* The theorems                                                             *)

\* An empty runtime is grounded ...
LEMMA InitInv == Init => RecordInv /\ EvidenceGrounded
<1> SUFFICES ASSUME Init PROVE RecordInv /\ EvidenceGrounded
  OBVIOUS
<1>1. Stored = {} /\ store \in [{} -> Record]
  BY DEF Init, Stored
<1>2. answer \in [outcome : Outcome, asked : Nat]
  BY DEF Init, Outcome
<1> QED BY <1>1, <1>2 DEF Init, RecordInv, TypeOK, EvidenceGrounded

\* ... every call keeps the records as they must be ...
LEMMA RecordInvStep ==
    ASSUME RecordInv, [Next]_vars
    PROVE  RecordInv'
<1>1. CASE UNCHANGED vars
  BY <1>1 DEF vars, RecordInv, TypeOK, Stored
<1>2. CASE Next
  <2>1. Step
    BY <1>2, NextIsStep
  <2>2. CASE Extends(store')
    BY <2>1, <2>2 DEF Extends, Step, RecordInv, TypeOK, Stored
  <2>3. CASE ~Extends(store')
    <3>1. /\ store' \in [Stored -> Record] /\ Stored' = Stored
          /\ \A m \in Stored : store'[m].maturity = store[m].maturity
          /\ \A m \in Stored : store'[m].evidence = store[m].evidence
      BY <2>1, <2>3 DEF Step, Stored
    <3> QED BY <2>1, <3>1 DEF Step, RecordInv, TypeOK
  <2> QED BY <2>2, <2>3
<1> QED BY <1>1, <1>2

\* ... and so they are in every reachable state.
LEMMA RecordInvariant == Spec => []RecordInv
<1>1. Init => RecordInv
  BY InitInv
<1>2. RecordInv /\ [Next]_vars => RecordInv'
  BY RecordInvStep
<1> QED BY <1>1, <1>2, PTL DEF Spec

\* Every variable keeps its type and no evidence id dangles, whatever policies
\* commit() is called with.
THEOREM TypeCorrect == Spec => []TypeOK
<1>1. RecordInv => TypeOK
  BY DEF RecordInv
<1> QED BY <1>1, RecordInvariant, PTL

\* Memories that an extension leaves supporting only each other did so before:
\* what is new cites what was known, and what was cited is not taken back.
LEMMA GroundedStep ==
    ASSUME RecordInv, EvidenceGrounded, [Next]_vars
    PROVE  EvidenceGrounded'
<1>1. CASE UNCHANGED vars
  BY <1>1 DEF vars, EvidenceGrounded, Stored
<1>2. CASE Next
  <2>1. Step
    BY <1>2, NextIsStep
  <2>2. CASE Extends(store')
    <3> SUFFICES ASSUME NEW S \in SUBSET Stored', \A m \in S : store'[m].evidence \subseteq S
                 PROVE  S = {}
      BY DEF EvidenceGrounded
    <3>1. S \subseteq Memory /\ S \cap experience = {}
      BY <2>2, IdAssumption DEF Extends, Stored, RecordInv, TypeOK
    <3>2. \A m \in S \cap Stored : store[m].evidence \subseteq S \cap Stored
      BY <2>2, <3>1 DEF Extends, RecordInv, TypeOK
    <3>3. S \cap Stored = {}
      BY <3>2 DEF EvidenceGrounded
    <3>4. ASSUME NEW m \in S PROVE FALSE
      <4>1. store'[m].evidence \subseteq (experience \cup Stored) \cap S
        BY <2>2 DEF Extends, Stored
      <4>2. store'[m].evidence = {}
        BY <3>1, <3>3, <4>1
      <4>3. store'[m] \in Record
        BY <2>2 DEF Extends, Stored
      <4> QED BY <4>2, <4>3 DEF Record
    <3> QED BY <3>4
  <2>3. CASE ~Extends(store')
    <3>1. Stored' = Stored /\ \A m \in Stored : store'[m].evidence = store[m].evidence
      BY <2>1, <2>3 DEF Step, Stored
    <3> QED BY <3>1 DEF EvidenceGrounded
  <2> QED BY <2>2, <2>3
<1> QED BY <1>1, <1>2

\* Every stored memory rests on an observed experience, whatever policies are
\* committed, and however links cite other memories.
THEOREM EvidenceGroundedCorrect == Spec => []EvidenceGrounded
<1>1. Init => EvidenceGrounded
  BY InitInv
<1>2. RecordInv /\ EvidenceGrounded /\ [Next]_vars => EvidenceGrounded'
  BY GroundedStep
<1> QED BY <1>1, <1>2, RecordInvariant, PTL DEF Spec

\* No sequence of calls removes a memory, changes its kind or lifecycle state,
\* or takes evidence from it.
THEOREM RecordsKeptCorrect == Spec => RecordsKept
<1> DEFINE Kept ==
      \A m \in Stored :
        /\ m \in Stored'
        /\ store'[m].kind = store[m].kind
        /\ store'[m].maturity = store[m].maturity
        /\ store[m].evidence \subseteq store'[m].evidence
<1>1. ASSUME RecordInv, [Next]_vars PROVE [Kept]_vars
  <2>1. CASE UNCHANGED vars
    BY <2>1
  <2>2. CASE Next
    <3>1. Step
      BY <1>1, <2>2, NextIsStep
    <3>2. CASE Extends(store')
      BY <1>1, <3>2 DEF Extends, RecordInv, Stored
    <3>3. CASE ~Extends(store')
      <4>1. /\ Stored' = Stored
            /\ \A m \in Stored :
                /\ store'[m].kind = store[m].kind
                /\ store'[m].maturity = store[m].maturity
                /\ store'[m].evidence = store[m].evidence
        BY <3>1, <3>3 DEF Step, Stored
      <4> QED BY <4>1
    <3> QED BY <3>2, <3>3
  <2> QED BY <1>1, <2>1, <2>2
<1>2. RecordInv /\ [Next]_vars => [Kept]_vars
  BY <1>1
<1> QED BY <1>2, RecordInvariant, PTL DEF Spec, RecordsKept

\* A commit answers with as many new memories as its policies add.
LEMMA ExecuteAdds ==
    ASSUME RecordInv, NEW writes \in Seq(Legacy), NEW unsupported, NEW structural, NEW asked \in Nat,
           Execute(writes, unsupported, structural, asked), answer'.outcome = "committed"
    PROVE  /\ answer'.asked = asked
           /\ Cardinality(Stored' \ Stored) = Cardinality(Adds(writes))
<1>1. PICK id \in FreshIds(writes) : Stored' = Stored \cup Range(id)
  BY ExecuteExtends
<1>2. id \in Injection(Adds(writes), Memory \ Stored) /\ DOMAIN id = Adds(writes)
  BY DEF FreshIds, Injection
<1>3. Stored' \ Stored = Range(id)
  BY <1>1, <1>2 DEF Injection, Range
<1>4. id \in Bijection(Adds(writes), Range(id))
  BY <1>2 DEF Injection, Bijection, Surjection, Range
<1>5. IsFiniteSet(Adds(writes))
  <2>1. PICK n \in Nat : DOMAIN writes = 1..n
    OBVIOUS
  <2>2. IsFiniteSet(1..n)
    BY FS_Interval
  <2>3. Adds(writes) \subseteq 1..n
    BY <2>1 DEF Adds
  <2> QED BY <2>2, <2>3, FS_Subset
<1>6. Cardinality(Range(id)) = Cardinality(Adds(writes))
  BY <1>4, <1>5, FS_Bijection DEF ExistsBijection
<1> QED BY <1>3, <1>6, ExecuteExtends

\* The policies of a proposal that is executed add what its ADD deltas ask for.
LEMMA WritesAddAsked ==
    ASSUME NEW p \in Proposal, ~Destructive(p), ~Unsupported(p), First(p).forget \notin Suppressing,
           Asked(p) > 0
    PROVE  Asked(p) = Cardinality(Adds(Writes(p)))
<1>1. WellFormed(p) /\ p.deltas \in Seq(Delta)
  BY ProposalAssumption DEF WellFormed
<1>2. /\ ~Structural(p)
      /\ Asked(p) = Cardinality({i \in DOMAIN p.deltas : p.deltas[i].op = "ADD"})
  BY DEF Asked
<1>3. PICK k \in DOMAIN p.deltas : p.deltas[k].op = "ADD"
  <2>1. {i \in DOMAIN p.deltas : p.deltas[i].op = "ADD"} # {}
    BY <1>2, FS_EmptySet
  <2> QED BY <2>1
<1>4. p.intent # "DELETE_REQUEST"
  BY DEF Destructive
<1>5. CASE MultiAdd(p)
  <2>1. \A i \in DOMAIN p.deltas : p.deltas[i].op = "ADD"
    BY <1>5 DEF MultiAdd, ToSet
  <2>2. ASSUME NEW i \in DOMAIN p.deltas PROVE Coerced(p, p.deltas[i]).write = "ADD"
    BY <1>5, <2>1 DEF MultiAdd, Coerced, Operation, WriteOperation, Forgetting, Suppressing
  <2>3. Writes(p) = [i \in DOMAIN p.deltas |-> Coerced(p, p.deltas[i])]
    BY <1>5 DEF Writes
  <2>4. Adds(Writes(p)) = {i \in DOMAIN p.deltas : p.deltas[i].op = "ADD"}
    BY <2>1, <2>2, <2>3 DEF Adds
  <2> QED BY <1>2, <2>4
<1>6. CASE ~MultiAdd(p)
  <2>1. Len(p.deltas) = 1
    <3>1. ASSUME Len(p.deltas) > 1 PROVE FALSE
      <4>1. PICK o \in {"LINK", "UPDATE"} : \A d \in ToSet(p.deltas) : d.op = o
        BY <1>2, <1>6, <3>1 DEF Unsupported
      <4>2. p.deltas[k] \in ToSet(p.deltas)
        BY <1>3 DEF ToSet
      <4> QED BY <1>3, <4>1, <4>2
    <3>2. Len(p.deltas) \in Nat /\ k \in 1..Len(p.deltas)
      BY <1>1, <1>3
    <3>3. \A n \in Nat : k \in 1..n => n = 1 \/ n > 1
      OBVIOUS
    <3> QED BY <3>1, <3>2, <3>3
  <2>2. k = 1 /\ DOMAIN p.deltas = {1} /\ p.deltas # <<>>
    BY <1>1, <1>3, <2>1
  <2>3. First(p) = Coerced(p, p.deltas[1])
    BY <1>2, <2>2 DEF First, Said
  <2>4. p.intent # "SUPPRESS"
    BY <1>4, <2>3 DEF Coerced, Operation, Forgetting, Suppressing
  <2>5. First(p).write = "ADD"
    BY <1>3, <1>4, <2>2, <2>3, <2>4 DEF Coerced, Operation, WriteOperation, Forgetting, Suppressing
  <2>6. Adds(Writes(p)) = {1}
    BY <1>6, <2>5, WritesAreLegacy, <1>1, OneWrite DEF Writes
  <2>7. {i \in DOMAIN p.deltas : p.deltas[i].op = "ADD"} = {1}
    BY <1>3, <2>2
  <2> QED BY <1>2, <2>6, <2>7
<1> QED BY <1>5, <1>6

\* A proposal answered as committed has added every memory that its ADD deltas
\* ask for, in whatever company of deltas and intents they come, unless there
\* are structural deltas beside them.
THEOREM AddsWholeCorrect == Spec => AddsWhole
<1> DEFINE AddsAsked ==
      answer'.outcome = "committed" /\ answer'.asked > 0
        => Cardinality(Stored' \ Stored) = answer'.asked
<1>1. ASSUME RecordInv, [Next]_vars PROVE [AddsAsked]_vars
  <2> SUFFICES ASSUME Next, answer'.outcome = "committed", answer'.asked > 0
               PROVE  Cardinality(Stored' \ Stored) = answer'.asked
    BY <1>1
  <2>1. ASSUME NEW o, answer' = [outcome |-> o, asked |-> 0] PROVE FALSE
    BY <2>1
  <2>2. ASSUME NEW e \in Event, NEW k \in Kind, Execute(<<EventPolicy(e, k)>>, FALSE, FALSE, 1)
        PROVE  Cardinality(Stored' \ Stored) = answer'.asked
    <3>1. EventPolicy(e, k) \in Legacy /\ EventPolicy(e, k).write = "ADD"
      BY DEF EventPolicy, Legacy, Target, Id
    <3> QED BY <1>1, <2>2, <3>1, OneWrite, ExecuteAdds
  <2>3. ASSUME NEW l \in LegacyPolicy, CommitLegacy(l)
        PROVE  Cardinality(Stored' \ Stored) = answer'.asked
    <3>1. Execute(<<l>>, FALSE, FALSE, Cardinality(Adds(<<l>>)))
      BY <2>1, <2>3 DEF CommitLegacy, Suppress, Reject, Keep, Answer
    <3> QED BY <1>1, <3>1, LegacyAssumption, OneWrite, ExecuteAdds
  <2>4. ASSUME NEW p \in Proposal, CommitProposal(p)
        PROVE  Cardinality(Stored' \ Stored) = answer'.asked
    <3>1. /\ ~Destructive(p) /\ First(p).forget \notin Suppressing
          /\ Execute(Writes(p), Unsupported(p), Structural(p), Asked(p))
      BY <2>1, <2>4 DEF CommitProposal, Refuse, Correct, Suppress, Reject, Keep, Answer
    <3>2. Asked(p) \in Nat /\ Writes(p) \in Seq(Legacy)
      BY AskedType, WritesAreLegacy, ProposalAssumption
    <3>3. answer'.asked = Asked(p) /\ Cardinality(Stored' \ Stored) = Cardinality(Adds(Writes(p)))
      BY <1>1, <3>1, <3>2, ExecuteAdds
    <3>4. ~Unsupported(p)
      BY <3>1 DEF Execute
    <3> QED BY <3>1, <3>3, <3>4, WritesAddAsked
  <2> QED
    BY <2>1, <2>2, <2>3, <2>4 DEF Next, Observe, ObserveAndCommit, Retrieve, Answer
<1>2. RecordInv /\ [Next]_vars => [AddsAsked]_vars
  BY <1>1
<1> QED BY <1>2, RecordInvariant, PTL DEF Spec, AddsWhole

-----------------------------------------------------------------------------
(* Least and greatest numbers                                               *)

\* A set of numbers that has a member has a least one. (A number n is taken for
\* the set 0..n: finite sets have no endless chain of smaller ones.)
LEMMA LeastNatural ==
  ASSUME NEW T \in SUBSET Nat, NEW t \in T
  PROVE  \E n \in T : \A m \in T : n <= m
<1> DEFINE F == {0..n : n \in {m \in T : m <= t}}
<1>1. IsFiniteSet(0..t)
  BY FS_Interval
<1>2. F \subseteq FiniteSubsetsOf(0..t) /\ F # {}
  <2>1. \A U \in F : U \subseteq 0..t
    OBVIOUS
  <2>2. \A U \in F : IsFiniteSet(U)
    BY <1>1, <2>1, FS_Subset
  <2>3. 0..t \in F
    OBVIOUS
  <2> QED BY <2>1, <2>2, <2>3 DEF FiniteSubsetsOf
<1>3. \E U \in F : \A V \in F : <<V, U>> \notin StrictSubsetOrdering(0..t)
  <2> HIDE DEF F
  <2> QED BY <1>2, FS_StrictSubsetOrderingWellFounded, WFMin
<1>4. PICK n \in T : n <= t /\ \A V \in F : <<V, 0..n>> \notin StrictSubsetOrdering(0..t)
  BY <1>3
<1>5. ASSUME NEW m \in T, m < n PROVE FALSE
  <2>1. 0..m \in F /\ 0..m \subseteq 0..n /\ 0..n \subseteq 0..t
    BY <1>4, <1>5
  <2>2. n \in 0..n /\ n \notin 0..m
    BY <1>5
  <2> QED BY <1>4, <2>1, <2>2 DEF StrictSubsetOrdering
<1> QED BY <1>4, <1>5

\* A set of positions that has a member has a last one.
LEMMA GreatestPosition ==
  ASSUME NEW n \in Nat, NEW T \in SUBSET (1..n), NEW t \in T
  PROVE  Max(T) \in T /\ \A m \in T : m <= Max(T)
<1>1. {n - i : i \in T} \in SUBSET Nat /\ n - t \in {n - i : i \in T}
  OBVIOUS
<1>2. PICK d \in {n - i : i \in T} : \A e \in {n - i : i \in T} : d <= e
  BY <1>1, LeastNatural
<1>3. \E x \in T : \A y \in T : x >= y
  <2>1. PICK x \in T : d = n - x
    BY <1>2
  <2>2. \A y \in T : n - x <= n - y
    BY <1>2, <2>1
  <2> QED BY <2>2
<1>4. Max(T) \in T /\ \A m \in T : Max(T) >= m
  BY <1>3 DEF Max
<1> QED BY <1>4

\* Up to the k-th of them there are k; so no two have the same place.
LEMMA PositionCounts ==
  ASSUME NEW n \in Nat, NEW S \in SUBSET (1..n), NEW k \in 1..Cardinality(S)
  PROVE  /\ Position(S, k) \in S
         /\ Cardinality({j \in S : j <= Position(S, k)}) = k
<1> DEFINE UpTo(i) == {j \in S : j <= i}
           Late == {i \in S : Cardinality(UpTo(i)) >= k}
<1>1. IsFiniteSet(S) /\ Cardinality(S) \in Nat /\ k \in Nat /\ 1 <= k /\ k <= Cardinality(S)
  <2>1. IsFiniteSet(1..n)
    BY FS_Interval
  <2>2. IsFiniteSet(S)
    BY <2>1, FS_Subset
  <2> QED BY <2>2, FS_CardinalityType
<1>2. \A i \in S : i \in Nat /\ 1 <= i /\ i <= n
  OBVIOUS
<1>3. Late \in SUBSET S
  OBVIOUS
<1>4. \A i, j \in S : j \in UpTo(i) <=> j <= i
  OBVIOUS
<1>5. \A i \in S : IsFiniteSet(UpTo(i)) /\ Cardinality(UpTo(i)) \in Nat
  <2> TAKE i \in S
  <2>1. UpTo(i) \in SUBSET S
    OBVIOUS
  <2> HIDE DEF UpTo
  <2> QED BY <1>1, <2>1, FS_Subset, FS_CardinalityType
<1>6. Late # {}
  <2>1. S # {}
    BY <1>1, FS_EmptySet
  <2>2. PICK m \in S : \A i \in S : i <= m
    BY <2>1, GreatestPosition
  <2>3. UpTo(m) = S
    BY <2>2
  <2> HIDE DEF UpTo
  <2> QED BY <1>1, <2>2, <2>3
<1>7. Late \in SUBSET Nat
  <2> HIDE DEF Late
  <2> QED BY <1>2, <1>3
<1>8. PICK i \in Late : \A j \in Late : i <= j
  <2> HIDE DEF Late
  <2> QED BY <1>6, <1>7, LeastNatural
<1>9. i \in S /\ i \in Nat /\ Cardinality(UpTo(i)) >= k
  BY <1>2, <1>8
<1>10. Position(S, k) = i
  <2>1. Position(S, k) = Min(Late)
    BY DEF Position
  <2>2. \A x, y \in Nat : x <= y /\ y <= x => x = y
    OBVIOUS
  <2> HIDE DEF Late
  <2> QED BY <1>7, <1>8, <2>1, <2>2 DEF Min
<1>11. ASSUME Cardinality(UpTo(i)) > k PROVE FALSE
  <2> DEFINE rest == UpTo(i) \ {i}
  <2>1. i \in UpTo(i)
    BY <1>9
  <2>2. Cardinality(rest) = Cardinality(UpTo(i)) - 1 /\ IsFiniteSet(rest)
    <3> HIDE DEF UpTo
    <3> QED BY <1>5, <1>9, <2>1, FS_RemoveElement
  <2>3. Cardinality(rest) >= k
    <3> HIDE DEF UpTo, rest
    <3> QED BY <1>1, <1>5, <1>9, <1>11, <2>2
  <2>4. rest # {}
    <3> HIDE DEF rest
    <3> QED BY <1>1, <2>3, FS_EmptySet
  <2>5. rest \in SUBSET S
    OBVIOUS
  <2>6. PICK m \in rest : \A j \in rest : j <= m
    <3> HIDE DEF rest
    <3> QED BY <2>5, <2>4, GreatestPosition
  <2>7. m \in S /\ m \in Nat /\ m <= i /\ m # i
    BY <1>2, <2>6
  <2>8. UpTo(m) = rest
    <3>1. \A j \in S : j <= m <=> j <= i /\ j # i
      <4>1. \A j \in S : j <= i /\ j # i => j \in rest
        OBVIOUS
      <4> HIDE DEF rest, UpTo, Late
      <4> QED BY <1>2, <1>9, <2>6, <2>7, <4>1
    <3> QED BY <3>1
  <2>9. m \in Late
    <3> HIDE DEF rest, UpTo
    <3> QED BY <2>3, <2>7, <2>8
  <2> HIDE DEF Late, rest, UpTo
  <2> QED BY <1>9, <1>8, <2>7, <2>9
<1>12. Cardinality(UpTo(i)) = k
  <2> HIDE DEF UpTo
  <2> QED BY <1>1, <1>5, <1>11, <1>9
<1> QED BY <1>9, <1>10, <1>12

\* What is left of a sequence has its type, and each of its elements has a place
\* of its own there.
LEMMA SubsequenceFacts ==
  ASSUME NEW S, NEW seq \in Seq(S), NEW positions \in SUBSET DOMAIN seq
  PROVE  /\ At(seq, positions) \in Seq(S)
         /\ \A k \in DOMAIN At(seq, positions) : \E i \in positions : At(seq, positions)[k] = seq[i]
         /\ \A k, l \in DOMAIN At(seq, positions) : k # l =>
                \E i, j \in positions : i # j /\ At(seq, positions)[k] = seq[i] /\ At(seq, positions)[l] = seq[j]
<1>1. Len(seq) \in Nat /\ DOMAIN seq = 1..Len(seq) /\ positions \in SUBSET (1..Len(seq))
  OBVIOUS
<1>2. Cardinality(positions) \in Nat
  <2>1. IsFiniteSet(1..Len(seq))
    BY <1>1, FS_Interval
  <2> QED BY <1>1, <2>1, FS_Subset, FS_CardinalityType
<1>3. \A k \in 1..Cardinality(positions) :
        /\ Position(positions, k) \in positions
        /\ Cardinality({j \in positions : j <= Position(positions, k)}) = k
  BY <1>1, PositionCounts
<1>4. \A k, l \in 1..Cardinality(positions) : k # l => Position(positions, k) # Position(positions, l)
  BY <1>3
<1>5. At(seq, positions) \in [1..Cardinality(positions) -> S]
  <2>1. \A i \in positions : seq[i] \in S
    BY <1>1
  <2>2. \A k \in 1..Cardinality(positions) : seq[Position(positions, k)] \in S
    BY <1>3, <2>1
  <2> QED BY <2>2 DEF At
<1>6. \A k \in 1..Cardinality(positions) : At(seq, positions)[k] = seq[Position(positions, k)]
  BY DEF At
<1>7. At(seq, positions) \in Seq(S) /\ DOMAIN At(seq, positions) = 1..Cardinality(positions)
  BY <1>2, <1>5
<1>8. \A k \in DOMAIN At(seq, positions) : \E i \in positions : At(seq, positions)[k] = seq[i]
  BY <1>3, <1>6, <1>7
<1>9. ASSUME NEW k \in DOMAIN At(seq, positions), NEW l \in DOMAIN At(seq, positions), k # l
      PROVE  \E i, j \in positions : i # j /\ At(seq, positions)[k] = seq[i] /\ At(seq, positions)[l] = seq[j]
  <2>1. k \in 1..Cardinality(positions) /\ l \in 1..Cardinality(positions)
    BY <1>7
  <2> QED BY <1>3, <1>4, <1>6, <1>9, <2>1
<1> QED BY <1>7, <1>8, <1>9

-----------------------------------------------------------------------------
(* Claims, their rows and their evidence                                    *)

\* What a proposal may be recorded as is a row of a claim.
LEMMA ClaimTypes ==
  ASSUME NEW c \in ClaimRow
  PROVE  /\ c \in Row /\ c.table = "claim" /\ c.event \in 1..MaxEvents /\ c.id \in ClaimIds
         /\ c.kind \in DOMAIN Reliability /\ c.level \in DOMAIN Standing
         /\ c.confidence \in 0..100 /\ c.sources \in Nat
         /\ c.memories \in Seq(Range(c.memories)) /\ c.claims \in Seq(Range(c.claims))
         /\ Range(c.memories) \subseteq NamedMemories /\ Range(c.claims) \subseteq NamedClaims
<1>1. PICK e \in 1..MaxEvents, p \in Proposed, kind \in DOMAIN Reliability : c = ClaimAs(e, p, kind)
  BY DEF ClaimRow
<1>2. /\ c.table = "claim" /\ c.event = e /\ c.kind = kind /\ c.level = p.level /\ c.confidence = p.confidence
      /\ c.sources = p.sources /\ c.memories = p.memories /\ c.claims = p.claims
  BY <1>1 DEF ClaimAs
<1>3. Range(c.memories) \subseteq NamedMemories /\ Range(c.claims) \subseteq NamedClaims
  BY <1>2 DEF NamedMemories, NamedClaims
<1> QED BY <1>2, <1>3, ProposedAssumption DEF Row, ClaimIds

\* The proposals that are complete become claims.
LEMMA GroundedType ==
  ASSUME NEW e \in 1..MaxEvents, NEW proposals \in Seq(Proposed)
  PROVE  Grounded(e, proposals) \in Seq(ClaimRow)
<1> DEFINE kept == At(proposals, {i \in DOMAIN proposals : Complete(proposals[i])})
<1>1. kept \in Seq(Proposed)
  <2>1. {i \in DOMAIN proposals : Complete(proposals[i])} \in SUBSET DOMAIN proposals
    OBVIOUS
  <2> QED BY <2>1, SubsequenceFacts
<1>2. \A p \in Proposed : Claim(e, p) \in ClaimRow
  <2> TAKE p \in Proposed
  <2>1. KindOfSource(ExperienceOf(e).source) \in DOMAIN Reliability
    BY DEF KindOfSource, Reliability
  <2>2. (IF p.kind = Nil THEN KindOfSource(ExperienceOf(e).source) ELSE p.kind) \in DOMAIN Reliability
    BY <2>1, ProposedAssumption
  <2> HIDE DEF kept
  <2> QED BY <2>2 DEF Claim, ClaimRow
<1>3. Grounded(e, proposals) = [i \in DOMAIN kept |-> Claim(e, kept[i])]
  BY DEF Grounded
<1> HIDE DEF kept
<1>4. Len(kept) \in Nat /\ DOMAIN kept = 1..Len(kept) /\ \A i \in 1..Len(kept) : kept[i] \in Proposed
  BY <1>1
<1>5. Grounded(e, proposals) \in [1..Len(kept) -> ClaimRow]
  BY <1>2, <1>3, <1>4
<1> QED BY <1>4, <1>5

\* What is left of claims are claims, and what is inserted has ids that no claim
\* has that is recorded, and no two the same.
LEMMA InsertedFacts ==
  ASSUME NEW claims \in Seq(ClaimRow)
  PROVE  /\ Deduped(claims) \in Seq(ClaimRow)
         /\ Inserted(claims) \in Seq(ClaimRow)
         /\ \A k \in DOMAIN Inserted(claims) : \A j \in Claims : journal[j].id # Inserted(claims)[k].id
         /\ \A k, l \in DOMAIN Inserted(claims) : Inserted(claims)[k].id = Inserted(claims)[l].id => k = l
<1> DEFINE said == {i \in DOMAIN claims : \A j \in 1..(i - 1) : ~Same(claims[j], claims[i])}
           new == {i \in DOMAIN claims : /\ \A j \in 1..(i - 1) : claims[j].id # claims[i].id
                                         /\ \A j \in Claims : journal[j].id # claims[i].id}
<1>1. said \in SUBSET DOMAIN claims /\ new \in SUBSET DOMAIN claims
  OBVIOUS
<1>2. Deduped(claims) = At(claims, said) /\ Inserted(claims) = At(claims, new)
  BY DEF Deduped, Inserted
<1>3. \A i \in new : \A j \in Claims : journal[j].id # claims[i].id
  OBVIOUS
<1>4. \A i, j \in new : i # j => claims[i].id # claims[j].id
  <2>1. \A i \in new : i \in Int /\ 1 <= i /\ \A j \in 1..(i - 1) : claims[j].id # claims[i].id
    OBVIOUS
  <2>2. \A i, j \in new : i # j => i \in 1..(j - 1) \/ j \in 1..(i - 1)
    <3> HIDE DEF new
    <3> QED BY <2>1
  <2> HIDE DEF new
  <2> QED BY <2>1, <2>2
<1>5. Deduped(claims) \in Seq(ClaimRow)
  <2> HIDE DEF said
  <2> QED BY <1>1, <1>2, SubsequenceFacts
<1>6. /\ At(claims, new) \in Seq(ClaimRow)
      /\ \A k \in DOMAIN At(claims, new) : \E i \in new : At(claims, new)[k] = claims[i]
      /\ \A k, l \in DOMAIN At(claims, new) : k # l =>
             \E i, j \in new : i # j /\ At(claims, new)[k] = claims[i] /\ At(claims, new)[l] = claims[j]
  <2> HIDE DEF new
  <2> QED BY <1>1, SubsequenceFacts
<1> HIDE DEF new, said
<1> QED BY <1>2, <1>3, <1>4, <1>5, <1>6

\* The evidence that a claim supersedes another is of that claim.
Supersedes(c, r) ==
  r.source = c.id /\ (r.target \in Range(c.claims) \/ \E m \in Range(c.memories) : r.target = <<"memory", m>>)

\* The rows of a claim are of it.
LEMMA RowsFacts ==
  ASSUME NEW c \in ClaimRow, NEW decision \in Routed
  PROVE  /\ RowsOfClaim(c, decision) \in Seq(Row)
         /\ Len(RowsOfClaim(c, decision)) >= 2
         /\ \A k \in DOMAIN RowsOfClaim(c, decision) :
                LET r == RowsOfClaim(c, decision)[k]
                IN  /\ r.table \in {"candidate", "edge"}
                    /\ r.table = "candidate" => r.claim = c.id
                    /\ r.table = "edge" /\ r.type = "supersede" => Supersedes(c, r)
<1> DEFINE support == Edge("support", c, <<c.event>>, c.id)
           E == {"support", "contradict", "supersede", "inhibit"}
           M == OfMemories(c)
           C == OfCandidates(c)
<1>1. /\ c.event \in 1..MaxEvents /\ c.id \in ClaimIds /\ c.confidence \in 0..100
      /\ c.memories \in Seq(Range(c.memories)) /\ c.claims \in Seq(Range(c.claims))
  BY ClaimTypes
<1>2. \A type \in E, source, target \in Ids :
        LET r == Edge(type, c, source, target)
        IN  r \in Row /\ r.table = "edge" /\ r.type = type /\ r.source = source /\ r.target = target
  <2> TAKE type \in E, source, target \in Ids
  <2>1. DOMAIN Weight = E /\ Weight[type] \in {36, 62, 74, 66}
    BY DEF Weight
  <2>2. Weight[type] * c.confidence \in Nat
    <3> DEFINE w == Weight[type]
               x == c.confidence
    <3>1. w \in {36, 62, 74, 66} /\ x \in Nat
      <4>1. x \in Nat
        <5>1. c.confidence \in 0..100
          BY <1>1
        <5> QED BY <5>1
      <4>2. w \in {36, 62, 74, 66}
        BY <2>1
      <4> QED BY <4>1, <4>2
    <3> HIDE DEF w, x
    <3>2. 36 * x \in Nat /\ 62 * x \in Nat /\ 74 * x \in Nat /\ 66 * x \in Nat
      BY <3>1
    <3>3. w * x \in Nat
      BY <3>1, <3>2
    <3> QED BY <3>3 DEF w, x
  <2>3. Edge(type, c, source, target) \in [table : {"edge"}, type : DOMAIN Weight, source : Ids, target : Ids, strength : Nat]
    BY <2>1, <2>2 DEF Edge
  <2> QED BY <2>3 DEF Row, Edge
<1>3. /\ ClaimIds \subseteq Ids /\ <<c.event>> \in Ids /\ Range(c.claims) \subseteq Ids
      /\ \A m \in Range(c.memories) : <<"memory", m>> \in Ids
  <2>1. Range(c.memories) \subseteq NamedMemories /\ Range(c.claims) \subseteq NamedClaims
    BY ClaimTypes
  <2>2. \A m \in NamedMemories : <<"memory", m>> \in Ids
    BY DEF Ids
  <2>3. <<c.event>> \in {<<e>> : e \in 1..MaxEvents}
    BY <1>1
  <2> QED BY <2>1, <2>2, <2>3 DEF Ids
<1>4. Candidate(c, decision) \in Row /\ Candidate(c, decision).table = "candidate" /\ Candidate(c, decision).claim = c.id
  BY <1>1 DEF Candidate, Row
<1>5. support \in Row /\ support.table = "edge" /\ support.type = "support"
  BY <1>1, <1>2, <1>3
<1>6. \A k \in 1..(3 * Len(c.memories)) :
        /\ Against[((k - 1) % 3) + 1] \in E
        /\ c.memories[((k - 1) \div 3) + 1] \in Range(c.memories)
  <2> TAKE k \in 1..(3 * Len(c.memories))
  <2>1. Len(c.memories) \in Nat /\ DOMAIN c.memories = 1..Len(c.memories)
    BY <1>1
  <2>2. ((k - 1) % 3) + 1 \in 1..3 /\ ((k - 1) \div 3) + 1 \in 1..Len(c.memories)
    BY <2>1
  <2>3. Against[1] \in E /\ Against[2] \in E /\ Against[3] \in E
    BY DEF Against
  <2>4. ((k - 1) % 3) + 1 \in {1, 2, 3}
    BY <2>2
  <2> HIDE DEF E
  <2>5. Against[((k - 1) % 3) + 1] \in E
    BY <2>3, <2>4
  <2> QED BY <2>1, <2>2, <2>5 DEF Range
<1>7. /\ M \in Seq(Row) /\ DOMAIN M = 1..(3 * Len(c.memories))
      /\ \A k \in DOMAIN M : M[k].table = "edge" /\ (M[k].type = "supersede" => Supersedes(c, M[k]))
  <2>1. Len(c.memories) \in Nat /\ 3 * Len(c.memories) \in Nat
    BY <1>1
  <2>2. \A k \in 1..(3 * Len(c.memories)) :
            M[k] = Edge(Against[((k - 1) % 3) + 1], c, c.id, <<"memory", c.memories[((k - 1) \div 3) + 1]>>)
    BY DEF OfMemories
  <2> HIDE DEF E
  <2>3. \A k \in 1..(3 * Len(c.memories)) : M[k] \in Row /\ M[k].table = "edge" /\ Supersedes(c, M[k])
    <3> TAKE k \in 1..(3 * Len(c.memories))
    <3> DEFINE m == c.memories[((k - 1) \div 3) + 1]
               type == Against[((k - 1) % 3) + 1]
    <3>1. m \in Range(c.memories) /\ type \in E
      BY <1>6
    <3>2. M[k] = Edge(type, c, c.id, <<"memory", m>>)
      BY <2>2
    <3> HIDE DEF m, type, M
    <3>3. <<"memory", m>> \in Ids /\ c.id \in Ids
      BY <1>1, <1>3, <3>1
    <3>4. M[k] \in Row /\ M[k].table = "edge" /\ M[k].source = c.id /\ M[k].target = <<"memory", m>>
      BY <1>2, <3>1, <3>2, <3>3
    <3> QED BY <3>1, <3>4 DEF Supersedes
  <2>4. M \in [1..(3 * Len(c.memories)) -> Row]
    BY <2>3 DEF OfMemories
  <2> HIDE DEF M
  <2> QED BY <2>1, <2>3, <2>4
<1>8. /\ C \in Seq(Row) /\ \A k \in DOMAIN C : C[k].table = "edge" /\ Supersedes(c, C[k])
  <2>1. Len(c.claims) \in Nat /\ DOMAIN c.claims = 1..Len(c.claims) /\ \A k \in 1..Len(c.claims) : c.claims[k] \in Range(c.claims)
    BY <1>1 DEF Range
  <2>2. \A k \in 1..Len(c.claims) : C[k] = Edge("supersede", c, c.id, c.claims[k])
    BY <2>1 DEF OfCandidates
  <2>3. \A k \in 1..Len(c.claims) : C[k] \in Row /\ C[k].table = "edge" /\ Supersedes(c, C[k])
    BY <1>1, <1>2, <1>3, <2>1, <2>2 DEF Supersedes
  <2>4. C \in [1..Len(c.claims) -> Row]
    BY <2>1, <2>3 DEF OfCandidates
  <2> HIDE DEF C
  <2> QED BY <2>1, <2>3, <2>4
<1> DEFINE two == <<Candidate(c, decision), support>>
<1>9. RowsOfClaim(c, decision) = two \o M \o C
  BY DEF RowsOfClaim
<1> HIDE DEF support, E, M, C
<1>10. two \in Seq(Row) /\ Len(two) = 2 /\ two[1] = Candidate(c, decision) /\ two[2] = support
  BY <1>4, <1>5
<1> DEFINE Good(r) == /\ r.table \in {"candidate", "edge"}
                      /\ r.table = "candidate" => r.claim = c.id
                      /\ r.table = "edge" /\ r.type = "supersede" => Supersedes(c, r)
<1>11. Good(two[1]) /\ Good(two[2]) /\ (\A k \in DOMAIN M : Good(M[k])) /\ (\A k \in DOMAIN C : Good(C[k]))
  BY <1>4, <1>5, <1>7, <1>8, <1>10
<1> HIDE DEF two, Good
<1>12. /\ two \o M \in Seq(Row) /\ Len(two \o M) = 2 + Len(M) /\ Len(M) \in Nat
       /\ \A k \in 1..Len(two \o M) : (two \o M)[k] = IF k <= 2 THEN two[k] ELSE M[k - 2]
  <2>1. two \in Seq(Row) /\ M \in Seq(Row) /\ Len(M) \in Nat
    BY <1>7, <1>10
  <2>2. /\ two \o M \in Seq(Row) /\ Len(two \o M) = Len(two) + Len(M)
        /\ \A k \in 1..(Len(two) + Len(M)) : (two \o M)[k] = IF k <= Len(two) THEN two[k] ELSE M[k - Len(two)]
    BY <2>1, ConcatProperties
  <2> QED BY <1>10, <2>1, <2>2
<1>13. \A k \in 1..Len(two \o M) : Good((two \o M)[k])
  <2> TAKE k \in 1..Len(two \o M)
  <2>1. CASE k <= 2
    <3>1. k = 1 \/ k = 2
      BY <1>12, <2>1
    <3> QED BY <1>11, <1>12, <2>1, <3>1
  <2>2. CASE k > 2
    <3>1. k - 2 \in DOMAIN M
      BY <1>7, <1>12, <2>2
    <3> QED BY <1>11, <1>12, <2>2, <3>1
  <2> QED BY <1>12, <2>1, <2>2
<1> DEFINE head == two \o M
           all == RowsOfClaim(c, decision)
<1>14. /\ head \in Seq(Row) /\ Len(head) \in Nat /\ Len(head) = 2 + Len(M) /\ all = head \o C
       /\ \A k \in 1..Len(head) : Good(head[k])
  BY <1>9, <1>12, <1>13
<1> HIDE DEF head, all
<1>15. /\ all \in Seq(Row) /\ Len(all) = Len(head) + Len(C) /\ Len(C) \in Nat /\ DOMAIN C = 1..Len(C)
       /\ \A k \in 1..Len(all) : all[k] = IF k <= Len(head) THEN head[k] ELSE C[k - Len(head)]
  <2>1. head \in Seq(Row) /\ C \in Seq(Row) /\ Len(C) \in Nat /\ DOMAIN C = 1..Len(C)
    BY <1>8, <1>14
  <2>2. /\ head \o C \in Seq(Row) /\ Len(head \o C) = Len(head) + Len(C)
        /\ \A k \in 1..(Len(head) + Len(C)) : (head \o C)[k] = IF k <= Len(head) THEN head[k] ELSE C[k - Len(head)]
    BY <2>1, ConcatProperties
  <2> QED BY <1>14, <2>1, <2>2
<1>16. \A k \in 1..Len(all) : Good(all[k])
  <2> TAKE k \in 1..Len(all)
  <2>1. k \in Nat /\ 1 <= k /\ k <= Len(head) + Len(C)
    BY <1>14, <1>15
  <2>2. CASE k <= Len(head)
    <3>1. k \in 1..Len(head) /\ all[k] = head[k]
      BY <1>14, <1>15, <2>1, <2>2
    <3> QED BY <1>14, <3>1
  <2>3. CASE k > Len(head)
    <3>1. k - Len(head) \in DOMAIN C /\ all[k] = C[k - Len(head)]
      BY <1>14, <1>15, <2>1, <2>3
    <3> QED BY <1>11, <3>1
  <2> QED BY <1>14, <2>1, <2>2, <2>3
<1>17. DOMAIN all = 1..Len(all) /\ Len(all) >= 2
  BY <1>12, <1>14, <1>15
<1> QED BY <1>15, <1>16, <1>17 DEF Good, all

-----------------------------------------------------------------------------
(* The weight of evidence and the scores                                    *)

\* w sums up f.
Sums(w, f, n) == w = [i \in 0..n |-> IF i = 0 THEN 0 ELSE w[i - 1] + f[i]]

\* A function that is defined by recursion over the numbers up to n is there: of
\* the numbers without one, none is the least.
LEMMA SumExists ==
  ASSUME NEW n \in Nat, NEW f \in [1..n -> Nat]
  PROVE  \E w : Sums(w, f, n)
<1> DEFINE Has(m) == \E w \in [0..m -> Nat] : \A i \in 0..m : w[i] = IF i = 0 THEN 0 ELSE w[i - 1] + f[i]
           T == {m \in 0..n : ~Has(m)}
<1>1. Has(0)
  <2>1. [i \in 0..0 |-> 0] \in [0..0 -> Nat] /\ \A i \in 0..0 : [j \in 0..0 |-> 0][i] = IF i = 0 THEN 0 ELSE [j \in 0..0 |-> 0][i - 1] + f[i]
    OBVIOUS
  <2> QED BY <2>1
<1>2. ASSUME NEW m \in 1..n, Has(m - 1)
      PROVE  Has(m)
  <2>1. PICK w \in [0..(m - 1) -> Nat] : \A i \in 0..(m - 1) : w[i] = IF i = 0 THEN 0 ELSE w[i - 1] + f[i]
    BY <1>2
  <2> DEFINE v == [i \in 0..m |-> IF i < m THEN w[i] ELSE w[m - 1] + f[m]]
  <2>2. m - 1 \in 0..(m - 1) /\ f[m] \in Nat /\ w[m - 1] \in Nat
    OBVIOUS
  <2>3. v \in [0..m -> Nat]
    BY <2>2
  <2>4. \A i \in 0..m : v[i] = IF i = 0 THEN 0 ELSE v[i - 1] + f[i]
    <3> TAKE i \in 0..m
    <3>1. CASE i = m
      <4>1. v[m] = w[m - 1] + f[m] /\ v[m - 1] = w[m - 1]
        BY <2>2
      <4> HIDE DEF v
      <4> QED BY <3>1, <4>1
    <3>2. CASE i # m
      <4>1. i \in 0..(m - 1) /\ v[i] = w[i] /\ (i # 0 => v[i - 1] = w[i - 1])
        BY <3>2
      <4> HIDE DEF v
      <4> QED BY <2>1, <4>1
    <3> QED BY <3>1, <3>2
  <2> HIDE DEF v
  <2> QED BY <2>3, <2>4
<1>3. T = {}
  <2>1. SUFFICES ASSUME T # {} PROVE FALSE
    OBVIOUS
  <2>2. T \in SUBSET Nat
    OBVIOUS
  <2>3. PICK m \in T : \A k \in T : m <= k
    <3> HIDE DEF T
    <3> QED BY <2>1, <2>2, LeastNatural
  <2> HIDE DEF Has
  <2>4. m \in 1..n /\ ~Has(m)
    <3>1. m \in 0..n /\ ~Has(m)
      OBVIOUS
    <3> QED BY <1>1, <3>1
  <2>5. m - 1 \in 0..n /\ m - 1 \notin T
    <3>1. m \in Nat /\ m - 1 \in 0..n /\ ~(m <= m - 1)
      BY <2>4
    <3> HIDE DEF T
    <3> QED BY <2>3, <3>1
  <2> QED BY <1>2, <2>4, <2>5
<1>4. Has(n)
  <2> HIDE DEF Has
  <2> QED BY <1>3
<1>5. PICK w \in [0..n -> Nat] : \A i \in 0..n : w[i] = IF i = 0 THEN 0 ELSE w[i - 1] + f[i]
  BY <1>4
<1>6. w = [i \in 0..n |-> IF i = 0 THEN 0 ELSE w[i - 1] + f[i]]
  BY <1>5
<1> QED BY <1>6 DEF Sums

\* A sum of numbers is a number, and one of nothing is zero.
LEMMA SumFacts ==
  ASSUME NEW n \in Nat, NEW f \in [1..n -> Nat], NEW w, Sums(w, f, n)
  PROVE  /\ w[n] \in Nat
         /\ (\A i \in 1..n : f[i] = 0) => w[n] = 0
<1> DEFINE Right(i) == w[i] \in Nat /\ ((\A j \in 1..n : f[j] = 0) => w[i] = 0)
           T == {i \in 0..n : ~Right(i)}
<1>1. \A i \in 0..n : w[i] = IF i = 0 THEN 0 ELSE w[i - 1] + f[i]
  BY DEF Sums
<1>2. Right(0)
  BY <1>1
<1>3. ASSUME NEW i \in 1..n, Right(i - 1)
      PROVE  Right(i)
  <2>1. w[i] = w[i - 1] + f[i] /\ f[i] \in Nat
    BY <1>1
  <2> QED BY <1>3, <2>1
<1>4. T = {}
  <2>1. SUFFICES ASSUME T # {} PROVE FALSE
    OBVIOUS
  <2>2. T \in SUBSET Nat
    OBVIOUS
  <2>3. PICK i \in T : \A k \in T : i <= k
    <3> HIDE DEF T
    <3> QED BY <2>1, <2>2, LeastNatural
  <2> HIDE DEF Right
  <2>4. i \in 1..n /\ ~Right(i)
    <3>1. i \in 0..n /\ ~Right(i)
      OBVIOUS
    <3> QED BY <1>2, <3>1
  <2>5. i - 1 \in 0..n /\ i - 1 \notin T
    <3>1. i \in Nat /\ i - 1 \in 0..n /\ ~(i <= i - 1)
      BY <2>4
    <3> HIDE DEF T
    <3> QED BY <2>3, <3>1
  <2> QED BY <1>3, <2>4, <2>5
<1>5. Right(n)
  <2> HIDE DEF Right
  <2> QED BY <1>4
<1> QED BY <1>5

\* What a row adds to the weight of evidence.
Part(type, id, r) == IF r.table = "edge" /\ r.type = type /\ r.target = id THEN r.strength ELSE 0

\* The evidence of a kind for an id weighs nothing unless there is some.
LEMMA StrengthFacts ==
  ASSUME journal \in Seq(Row), NEW type, NEW id
  PROVE  /\ Strength(type, id) \in Nat
         /\ (~\E i \in EdgeEvidence : journal[i].type = type /\ journal[i].target = id) => Strength(type, id) = 0
<1> DEFINE n == Len(journal)
           f == [i \in 1..n |-> Part(type, id, journal[i])]
           w == CHOOSE s : s = [i \in 0..n |-> IF i = 0 THEN 0 ELSE s[i - 1] + Part(type, id, journal[i])]
<1>1. n \in Nat /\ DOMAIN journal = 1..n /\ \A i \in 1..n : journal[i] \in Row
  OBVIOUS
<1>2. \A i \in 1..n : journal[i].table = "edge" => journal[i].strength \in Nat
  BY <1>1 DEF Row, ClaimRow, ClaimAs
<1>3. f \in [1..n -> Nat]
  BY <1>2 DEF Part
<1>4. Strength(type, id) = w[n]
  BY DEF Strength, StrengthIn, Part
<1>5. \A s : Sums(s, f, n) <=> s = [i \in 0..n |-> IF i = 0 THEN 0 ELSE s[i - 1] + Part(type, id, journal[i])]
  <2> TAKE s
  <2>1. \A i \in 0..n : i # 0 => f[i] = Part(type, id, journal[i])
    BY <1>1
  <2> HIDE DEF f
  <2>2. [i \in 0..n |-> IF i = 0 THEN 0 ELSE s[i - 1] + Part(type, id, journal[i])] = [i \in 0..n |-> IF i = 0 THEN 0 ELSE s[i - 1] + f[i]]
    BY <2>1
  <2> QED BY <2>2 DEF Sums
<1>6. Sums(w, f, n)
  <2>1. \E s : Sums(s, f, n)
    <3> HIDE DEF f, n
    <3> QED BY <1>1, <1>3, SumExists
  <2>2. \E s : s = [i \in 0..n |-> IF i = 0 THEN 0 ELSE s[i - 1] + Part(type, id, journal[i])]
    BY <1>5, <2>1
  <2>3. w = [i \in 0..n |-> IF i = 0 THEN 0 ELSE w[i - 1] + Part(type, id, journal[i])]
    BY <2>2
  <2> HIDE DEF w, f
  <2> QED BY <1>5, <2>3
<1>7. w[n] \in Nat /\ ((\A i \in 1..n : f[i] = 0) => w[n] = 0)
  <2> HIDE DEF f, n, w
  <2> QED BY <1>1, <1>3, <1>6, SumFacts
<1>8. (~\E i \in EdgeEvidence : journal[i].type = type /\ journal[i].target = id) => \A i \in 1..n : f[i] = 0
  BY <1>1 DEF EdgeEvidence, RowsOf, Part
<1> HIDE DEF w, f
<1> QED BY <1>4, <1>7, <1>8

\* A claim that is hidden from a prompt.
Low(c) == Status(c) \in {"suppressed", "rejected"}

\* The parts of a score, of which a low status takes one away and adds another.
For(c, support) ==
    24 * Capped((c.confidence * Reliability[c.kind] * 62) \div 100 + support) + 18 * Capped(1800 * c.sources)
    + 14 * (IF Low(c) THEN 2000 ELSE 8500)
    + 16 * 100 * Standing[c.level] + 14 * (IF c.kind = "observed_user_fact" THEN 1800 ELSE 0)
Opposed(c, supersede) == 22 * (IF Low(c) THEN 6500 ELSE 0) + 24 * Capped(supersede)

Points(for, against) == (for - against) \div 100

\* What a score is capped to, and what a level and a kind add to it.
Scale == 0..Whole
Standings == 4..34
Bonus == {0, 1800}

\* Their bounds.
LEMMA ScaleFacts ==
  /\ Whole \in Int /\ Whole = 10000
  /\ \A x : x \in Scale <=> x \in Int /\ 0 <= x /\ x <= Whole
  /\ \A l \in Standings : l \in Int /\ 4 <= l /\ l <= 34
  /\ \A o \in Bonus : o \in Int /\ 0 <= o /\ o <= 1800
<1>1. Whole \in Int
  BY DEF Whole
<1>2. \A x : x \in Scale <=> x \in Int /\ 0 <= x /\ x <= Whole
  BY <1>1 DEF Scale
<1>3. \A l \in Standings : l \in Int /\ 4 <= l /\ l <= 34
  BY DEF Standings
<1>4. \A o \in Bonus : o \in Int /\ 0 <= o /\ o <= 1800
  BY DEF Bonus
<1>5. Whole = 10000
  BY DEF Whole
<1> QED BY <1>1, <1>2, <1>3, <1>4, <1>5

\* A score is capped to the scale.
LEMMA CappedType == ASSUME NEW x, x \in Int PROVE Capped(x) \in Scale
BY ScaleFacts, SMT DEF Capped

\* Capping keeps the order.
LEMMA CappedOrder ==
  ASSUME NEW x, NEW y, x \in Int, y \in Int
  PROVE  /\ x <= y => Capped(x) <= Capped(y)
         /\ x < y /\ x < Whole /\ 0 < y => Capped(x) < Capped(y)
BY ScaleFacts, SMT DEF Capped

\* The sums that a score is the points of.
HighSum(a, e, l, o) == 24 * a + 18 * e + 14 * 8500 + 1600 * l + 14 * o
LowSum(a, e, l, o) == 24 * a + 18 * e + 14 * 2000 + 1600 * l + 14 * o
LowLoss(h) == 22 * 6500 + 24 * h

\* A low status costs more than the points of a score are rounded down by.
LEMMA PointsFacts ==
  ASSUME NEW a \in Scale, NEW b \in Scale, NEW e \in Scale, NEW g \in Scale, NEW h \in Scale,
         NEW l \in Standings, NEW o \in Bonus, a >= b, e >= g
  PROVE  LET hi == Points(HighSum(a, e, l, o), 0)
             lo == Points(LowSum(b, g, l, o), LowLoss(h))
         IN  hi \in Int /\ lo \in Int /\ lo < hi /\ lo < Whole /\ 0 < hi
<1> DEFINE x == HighSum(a, e, l, o)
           y == LowSum(b, g, l, o) - LowLoss(h)
<1>1. x \in Int /\ y \in Int
  BY ScaleFacts, SMTT(30) DEF HighSum, LowSum, LowLoss
<1>2. y + 100 <= x
  BY ScaleFacts, SMTT(30) DEF HighSum, LowSum, LowLoss
<1>3. y <= 500000 /\ 100000 <= x
  BY ScaleFacts, SMTT(30) DEF HighSum, LowSum, LowLoss
<1>4. Points(HighSum(a, e, l, o), 0) = x \div 100 /\ Points(LowSum(b, g, l, o), LowLoss(h)) = y \div 100
  <2>1. HighSum(a, e, l, o) - 0 = HighSum(a, e, l, o)
    BY <1>1, SMT
  <2> QED BY <2>1, SMT DEF Points
<1> HIDE DEF x, y
<1>5. x \div 100 \in Int /\ y \div 100 \in Int /\ y \div 100 < x \div 100 /\ y \div 100 < 10000 /\ 0 < x \div 100
  BY <1>1, <1>2, <1>3, SMT
<1> QED BY <1>4, <1>5, ScaleFacts, SMT

\* What the provenance of a claim is worth.
Ground(c) == (c.confidence * Reliability[c.kind] * 62) \div 100

\* It grows with the confidence, and a level has a standing.
LEMMA GroundFacts ==
  /\ \A c \in ClaimRow : Ground(c) \in Int /\ Standing[c.level] \in 4..34 /\ c.sources \in Nat /\ 1800 * c.sources \in Int
  /\ \A c, d \in ClaimRow : c.kind = d.kind /\ c.confidence >= d.confidence => Ground(c) >= Ground(d)
  /\ \A c, d \in ClaimRow : c.sources >= d.sources => 1800 * c.sources >= 1800 * d.sources
<1>1. ASSUME NEW r \in {82, 90, 68, 42}, NEW x \in 0..100, NEW y \in 0..100
      PROVE  /\ (x * r * 62) \div 100 \in Int
             /\ x >= y => (x * r * 62) \div 100 >= (y * r * 62) \div 100
  <2>1. \A m, n \in Int : m >= n => m \div 100 >= n \div 100
    OBVIOUS
  <2>2. \A m \in Int : m \div 100 \in Int
    OBVIOUS
  <2>3. x * r * 62 \in Int /\ y * r * 62 \in Int /\ (x >= y => x * r * 62 >= y * r * 62)
    <3>1. r = 82 \/ r = 90 \/ r = 68 \/ r = 42
      OBVIOUS
    <3> QED BY <3>1
  <2> QED BY <2>1, <2>2, <2>3
<1>2. \A c \in ClaimRow : /\ c.kind \in DOMAIN Reliability /\ c.confidence \in 0..100
                          /\ c.level \in DOMAIN Standing /\ c.sources \in Nat
  BY ClaimTypes
<1>3. \A kind \in DOMAIN Reliability : Reliability[kind] \in {82, 90, 68, 42}
  BY DEF Reliability
<1>4. \A level \in DOMAIN Standing : Standing[level] \in 4..34
  <2>1. DOMAIN Standing = {"raw_experience", "candidate_frame", "durable_memory", "validated_logic", "compiled_schema"}
    BY DEF Standing
  <2>2. /\ Standing["raw_experience"] = 4 /\ Standing["candidate_frame"] = 8 /\ Standing["durable_memory"] = 20
        /\ Standing["validated_logic"] = 30 /\ Standing["compiled_schema"] = 34
    BY DEF Standing
  <2> QED BY <2>1, <2>2
<1>5. ASSUME NEW c \in ClaimRow
      PROVE  Ground(c) \in Int /\ Standing[c.level] \in 4..34 /\ c.sources \in Nat /\ 1800 * c.sources \in Int
  <2>1. Reliability[c.kind] \in {82, 90, 68, 42} /\ c.confidence \in 0..100
    BY <1>2, <1>3
  <2>2. Ground(c) \in Int
    BY <1>1, <2>1 DEF Ground
  <2>3. c.sources \in Nat /\ Standing[c.level] \in 4..34
    BY <1>2, <1>4
  <2>4. \A x \in Nat : 1800 * x \in Int
    OBVIOUS
  <2> QED BY <2>2, <2>3, <2>4
<1>6. ASSUME NEW c \in ClaimRow, NEW d \in ClaimRow, c.kind = d.kind, c.confidence >= d.confidence
      PROVE  Ground(c) >= Ground(d)
  <2> DEFINE r == Reliability[c.kind]
             x == c.confidence
             y == d.confidence
  <2>1. r \in {82, 90, 68, 42} /\ x \in 0..100 /\ y \in 0..100 /\ x >= y
    BY <1>2, <1>3, <1>6
  <2>2. Ground(c) = (x * r * 62) \div 100 /\ Ground(d) = (y * r * 62) \div 100
    BY <1>6 DEF Ground
  <2> HIDE DEF r, x, y
  <2>3. (x * r * 62) \div 100 >= (y * r * 62) \div 100
    BY <1>1, <2>1
  <2> QED BY <2>2, <2>3
<1>7. ASSUME NEW c \in ClaimRow, NEW d \in ClaimRow, c.sources >= d.sources
      PROVE  1800 * c.sources >= 1800 * d.sources
  <2>1. c.sources \in Nat /\ d.sources \in Nat
    BY <1>2
  <2>2. \A x, y \in Nat : x >= y => 1800 * x >= 1800 * y
    OBVIOUS
  <2> QED BY <1>7, <2>1, <2>2
<1> QED BY <1>5, <1>6, <1>7

\* The parts of a score that are capped, and what only a user's fact gets.
SupportScore(c, s) == Capped(Ground(c) + s)
SourceScore(c) == Capped(1800 * c.sources)
ObservedBonus(c) == IF c.kind = "observed_user_fact" THEN 1800 ELSE 0

\* The sums of a claim that is low, and of one that is not.
LEMMA PartsFacts ==
  ASSUME NEW c \in ClaimRow, NEW s, s \in Nat
  PROVE  /\ SupportScore(c, s) \in Scale /\ SourceScore(c) \in Scale /\ Standing[c.level] \in Standings
         /\ ObservedBonus(c) \in Bonus /\ Capped(s) \in Scale
         /\ For(c, s) \in Int /\ Opposed(c, s) \in Int
         /\ Low(c) => /\ For(c, s) = LowSum(SupportScore(c, s), SourceScore(c), Standing[c.level], ObservedBonus(c))
                      /\ Opposed(c, s) = LowLoss(Capped(s))
         /\ ~Low(c) => /\ For(c, s) = HighSum(SupportScore(c, s), SourceScore(c), Standing[c.level], ObservedBonus(c))
                       /\ (Capped(s) = 0 => Opposed(c, s) = 0)
<1> DEFINE f == IF Low(c) THEN 2000 ELSE 8500
           p == IF Low(c) THEN 6500 ELSE 0
           l == Standing[c.level]
           x == Ground(c) + s
           y == 1800 * c.sources
<1>1. x \in Int /\ y \in Int /\ l \in Standings /\ s \in Int
  BY GroundFacts, SMT DEF Standings
<1>2. SupportScore(c, s) = Capped(x) /\ SourceScore(c) = Capped(y)
  BY SMT DEF SupportScore, SourceScore
<1>3. ObservedBonus(c) \in Bonus
  BY SMT DEF ObservedBonus, Bonus
<1>4. (Low(c) => f = 2000 /\ p = 6500) /\ (~Low(c) => f = 8500 /\ p = 0)
  BY SMT
<1>5. For(c, s) = 24 * SupportScore(c, s) + 18 * SourceScore(c) + 14 * f + 16 * 100 * l + 14 * ObservedBonus(c)
  BY SMT DEF For, Ground, SupportScore, SourceScore, ObservedBonus
<1>6. Opposed(c, s) = 22 * p + 24 * Capped(s)
  BY SMT DEF Opposed
<1> HIDE DEF f, p, l, x, y
<1>7. SupportScore(c, s) \in Scale /\ SourceScore(c) \in Scale /\ Capped(s) \in Scale
  <2>1. Capped(x) \in Scale
    BY <1>1, CappedType
  <2>2. Capped(y) \in Scale
    BY <1>1, CappedType
  <2>3. Capped(s) \in Scale
    BY <1>1, CappedType
  <2> QED BY <1>2, <2>1, <2>2, <2>3
<1> DEFINE h == Capped(s)
           m == SupportScore(c, s)
           n == SourceScore(c)
           o == ObservedBonus(c)
<1>8. h \in Scale /\ m \in Scale /\ n \in Scale /\ o \in Bonus
  BY <1>3, <1>7
<1>9. For(c, s) = 24 * m + 18 * n + 14 * f + 16 * 100 * l + 14 * o /\ Opposed(c, s) = 22 * p + 24 * h
  BY <1>5, <1>6, SMT
<1> HIDE DEF h, m, n, o
<1>10. Low(c) => For(c, s) = LowSum(m, n, l, o) /\ Opposed(c, s) = LowLoss(h)
  BY <1>1, <1>4, <1>8, <1>9, ScaleFacts, SMT DEF LowSum, LowLoss
<1>11. ~Low(c) => For(c, s) = HighSum(m, n, l, o) /\ (h = 0 => Opposed(c, s) = 0)
  BY <1>1, <1>4, <1>8, <1>9, ScaleFacts, SMT DEF HighSum
<1>12. For(c, s) \in Int /\ Opposed(c, s) \in Int
  BY <1>1, <1>4, <1>8, <1>9, ScaleFacts, SMT
<1> QED BY <1>1, <1>3, <1>7, <1>10, <1>11, <1>12 DEF l, h, m, n, o

\* Scores are whole numbers up to ten thousand, and a claim that is low scores
\* less than one that is as well grounded and neither low nor corrected.
LEMMA ScoreFacts ==
  ASSUME journal \in Seq(Row), NEW c \in ClaimRow
  PROVE  /\ Score(c) \in 0..Whole
         /\ \A d \in ClaimRow :
                /\ ~Low(c) /\ Low(d) /\ ~Superseded(c.id)
                /\ c.kind = d.kind /\ c.level = d.level /\ c.confidence >= d.confidence /\ c.sources >= d.sources
                /\ Strength("support", c.id) >= Strength("support", d.id)
                => Score(c) > Score(d)
<1>1. \A type, id : Strength(type, id) \in Nat
  BY StrengthFacts
<1>2. \A x \in ClaimRow :
        Score(x) = Capped(Points(For(x, Strength("support", x.id)), Opposed(x, Strength("supersede", x.id))))
  BY DEF Score, For, Opposed, Points, Low
<1>3. Score(c) \in 0..Whole
  <2>1. \A m, n \in Int : Points(m, n) \in Int
    BY SMT DEF Points
  <2>2. For(c, Strength("support", c.id)) \in Int /\ Opposed(c, Strength("supersede", c.id)) \in Int
    BY <1>1, PartsFacts
  <2> DEFINE z == Points(For(c, Strength("support", c.id)), Opposed(c, Strength("supersede", c.id)))
  <2>3. z \in Int /\ Score(c) = Capped(z)
    BY <1>2, <2>1, <2>2
  <2> HIDE DEF z
  <2>4. Capped(z) \in Scale
    BY <2>3, CappedType
  <2> QED BY <2>3, <2>4 DEF Scale
<1>4. ASSUME NEW d \in ClaimRow, ~Low(c), Low(d), ~Superseded(c.id), c.kind = d.kind, c.level = d.level,
             c.confidence >= d.confidence, c.sources >= d.sources,
             Strength("support", c.id) >= Strength("support", d.id)
      PROVE  Score(c) > Score(d)
  <2> DEFINE s == Strength("support", c.id)
             t == Strength("support", d.id)
             u == Strength("supersede", d.id)
             l == Standing[c.level]
             a == SupportScore(c, s)
             b == SupportScore(d, t)
             e == SourceScore(c)
             g == SourceScore(d)
             o == ObservedBonus(c)
             h == Capped(u)
             hi == Points(For(c, s), Opposed(c, 0))
             lo == Points(For(d, t), Opposed(d, u))
  <2>1. s \in Nat /\ t \in Nat /\ u \in Nat /\ s >= t
    BY <1>1, <1>4
  <2>2. Strength("supersede", c.id) = 0
    BY <1>4, StrengthFacts DEF Superseded
  <2>3. Score(c) = Capped(hi) /\ Score(d) = Capped(lo)
    BY <1>2, <2>2
  <2> HIDE DEF s, t, u
  <2>4. For(c, s) = HighSum(a, e, l, o) /\ a \in Scale /\ e \in Scale /\ l \in Standings /\ o \in Bonus
    BY <1>4, <2>1, PartsFacts
  <2>5. Opposed(c, 0) = 0
    <3>1. Capped(0) = 0
      BY ScaleFacts, SMT DEF Capped
    <3> QED BY <1>4, <3>1, PartsFacts
  <2>6. For(d, t) = LowSum(b, g, l, o) /\ b \in Scale /\ g \in Scale
    <3>1. For(d, t) = LowSum(SupportScore(d, t), SourceScore(d), Standing[d.level], ObservedBonus(d))
      BY <1>4, <2>1, PartsFacts
    <3>2. SupportScore(d, t) \in Scale /\ SourceScore(d) \in Scale
      <4>1. SupportScore(d, t) \in Scale
        BY <1>4, <2>1, PartsFacts
      <4>2. SourceScore(d) \in Scale
        BY <1>4, <2>1, PartsFacts
      <4> QED BY <4>1, <4>2
    <3>3. Standing[d.level] = l /\ ObservedBonus(d) = ObservedBonus(c)
      BY <1>4 DEF ObservedBonus
    <3> QED BY <3>1, <3>2, <3>3
  <2>7. Opposed(d, u) = LowLoss(h) /\ h \in Scale
    <3>1. Opposed(d, u) = LowLoss(Capped(u))
      BY <1>4, <2>1, PartsFacts
    <3>2. Capped(u) \in Scale
      BY <2>1, CappedType
    <3> QED BY <3>1, <3>2
  <2>8. b <= a
    <3> DEFINE x == Ground(c) + s
               y == Ground(d) + t
    <3>1. Ground(c) \in Int /\ Ground(d) \in Int /\ Ground(c) >= Ground(d)
      BY <1>4, GroundFacts
    <3>2. x \in Int /\ y \in Int /\ y <= x
      BY <2>1, <3>1
    <3>3. a = Capped(x) /\ b = Capped(y)
      BY DEF SupportScore
    <3> HIDE DEF x, y, a, b
    <3> QED BY <3>2, <3>3, CappedOrder
  <2>9. g <= e
    <3> DEFINE x == 1800 * c.sources
               y == 1800 * d.sources
    <3>1. x \in Int /\ y \in Int /\ x >= y
      BY <1>4, GroundFacts, SMT
    <3>2. e = Capped(x) /\ g = Capped(y)
      BY SMT DEF SourceScore
    <3> HIDE DEF x, y, e, g
    <3>3. y <= x
      BY <3>1
    <3> QED BY <3>1, <3>2, <3>3, CappedOrder
  <2>10. hi = Points(HighSum(a, e, l, o), 0) /\ lo = Points(LowSum(b, g, l, o), LowLoss(h))
    BY <2>4, <2>5, <2>6, <2>7
  <2> HIDE DEF l, a, b, e, g, o, h, hi, lo
  <2>11. a >= b /\ e >= g
    <3>1. \A x, y \in Scale : y <= x => x >= y
      BY ScaleFacts, SMT
    <3> QED BY <2>4, <2>6, <2>8, <2>9, <3>1
  <2>12. hi \in Int /\ lo \in Int /\ lo < hi /\ lo < Whole /\ 0 < hi
    BY <2>4, <2>6, <2>7, <2>10, <2>11, PointsFacts
  <2>13. Capped(lo) < Capped(hi) /\ Capped(lo) \in Scale /\ Capped(hi) \in Scale
    BY <2>12, CappedType, CappedOrder
  <2>14. \A x, y \in Scale : x < y => y > x
    BY ScaleFacts, SMT
  <2> QED BY <2>3, <2>13, <2>14
<1> QED BY <1>3, <1>4

-----------------------------------------------------------------------------
(* The inductive invariant of Routing                                       *)

WrittenRows == {journal[i] : i \in DOMAIN journal}

Happened(e) == \E x \in Experiences : x.event = e

\* Its claims may be routed.
Safe(e) == \E x \in Experiences : x.event = e /\ ~x.risky

\* Of claim c all rows are written.
Complied(c, decision) == Range(RowsOfClaim(c, decision)) \subseteq WrittenRows

\* Of the claim whose turn it is, the rows before the next are written; of the
\* claims that are not left, all.
RouteInv ==
    op.at = "route" =>
        /\ op.todo \subseteq ClaimsOf(op.event)
        /\ op.todo # {} =>
               /\ op.row <= Len(RowsOfClaim(journal[Min(op.todo)], op.decision))
               /\ \A k \in 1..(op.row - 1) : RowsOfClaim(journal[Min(op.todo)], op.decision)[k] \in WrittenRows
        /\ \A i \in ClaimsOf(op.event) \ op.todo : Complied(journal[i], op.decision)
        /\ Safe(op.event)

AuditInv ==
    op.at = "audit" /\ op.decision \in Routed => \A i \in ClaimsOf(op.event) : Complied(journal[i], op.decision)

EventInv == op.at \in {"extract", "record", "assess"} => Happened(op.event)

\* Every correction is of a recorded claim that no risk was seen in.
CorrectionInv ==
    \A i \in EdgeEvidence : journal[i].type = "supersede" =>
        \E j \in Claims : Supersedes(journal[j], journal[i]) /\ Safe(journal[j].event)

PacketInv == packet # Nil => \E lens \in Lens : packet = Packet(lens, Built(Claims))

RoutingInv == RoutingTypeOK /\ RoutedWhole /\ RouteInv /\ AuditInv /\ EventInv /\ CorrectionInv /\ PacketInv

\* The rows of the journal and the operation, by kind.
LEMMA RowKinds ==
  ASSUME NEW r \in Row
  PROVE  /\ r.table = "claim" => r \in ClaimRow
         /\ r.table = "experience" => r.event \in 1..MaxEvents /\ r.risky \in BOOLEAN
<1>1. \A x \in ClaimRow : x.table = "claim"
  BY ClaimTypes
<1>2. r \in ClaimRow \/ r \in Row \ ClaimRow
  OBVIOUS
<1>3. CASE r \in ClaimRow
  BY <1>1, <1>3
<1>4. CASE r \in Row \ ClaimRow
  BY <1>4 DEF Row
<1> QED BY <1>2, <1>3, <1>4

\* The operation in progress, by where it is.
LEMMA OpKinds ==
  ASSUME RoutingTypeOK
  PROVE  /\ op.at \in {"idle", "extract", "record", "assess", "route", "audit"}
         /\ op.at = "idle" => op = Idle
         /\ op.at = "extract" =>
                op \in [at : {"extract"}, event : 1..MaxEvents, given : Seq(Proposed), routes : BOOLEAN, audits : BOOLEAN]
         /\ op.at \in {"record", "assess"} =>
                op \in [at : {"record", "assess"}, event : 1..MaxEvents, given : Seq(ClaimRow),
                        routes : BOOLEAN, audits : BOOLEAN]
         /\ op.at = "route" =>
                op \in [at : {"route"}, event : 1..MaxEvents, decision : Routed, todo : SUBSET Claims, row : Nat \ {0}]
         /\ op.at = "audit" => op \in [at : {"audit"}, event : 1..MaxEvents, decision : Routed \cup {"quarantine"}]
BY DEF RoutingTypeOK, Idle

\* What is in the journal stays there.
Grows ==
    /\ journal' \in Seq(Row) /\ Len(journal) <= Len(journal')
    /\ \A i \in 1..Len(journal) : journal'[i] = journal[i]

\* No claim is new.
SameClaims == \A i \in (Len(journal) + 1)..Len(journal') : journal'[i].table # "claim"

\* What a commit leaves.
LEMMA CommitAdds ==
  ASSUME journal \in Seq(Row), NEW rows \in Seq(Row), Commit(rows)
  PROVE  /\ Grows /\ Len(journal') = Len(journal) + Len(rows)
         /\ \A i \in 1..Len(rows) : journal'[Len(journal) + i] = rows[i]
<1>1. journal' = journal \o rows
  BY DEF Commit
<1>2. /\ journal \o rows \in Seq(Row) /\ Len(journal \o rows) = Len(journal) + Len(rows)
      /\ \A i \in 1..(Len(journal) + Len(rows)) :
            (journal \o rows)[i] = IF i <= Len(journal) THEN journal[i] ELSE rows[i - Len(journal)]
  BY ConcatProperties
<1>3. Len(journal) \in Nat /\ Len(rows) \in Nat
  OBVIOUS
<1>4. \A i \in 1..Len(rows) : Len(journal) + i \in 1..(Len(journal) + Len(rows)) /\ ~(Len(journal) + i <= Len(journal))
                              /\ Len(journal) + i - Len(journal) = i
  BY <1>3
<1>5. \A i \in 1..Len(rows) : (journal \o rows)[Len(journal) + i] = rows[i]
  BY <1>2, <1>4
<1>6. \A i \in 1..Len(journal) : (journal \o rows)[i] = journal[i]
  BY <1>2, <1>3
<1> QED BY <1>1, <1>2, <1>3, <1>5, <1>6 DEF Grows

\* What a commit of one row leaves.
LEMMA RowAdded ==
  ASSUME journal \in Seq(Row), NEW r \in Row, Commit(<<r>>)
  PROVE  /\ Grows /\ Len(journal') = Len(journal) + 1 /\ journal'[Len(journal) + 1] = r
         /\ r.table # "claim" => SameClaims
<1> DEFINE rows == <<r>>
<1>1. rows \in Seq(Row) /\ Len(rows) = 1 /\ rows[1] = r /\ 1 \in 1..Len(rows) /\ Commit(rows)
  OBVIOUS
<1> HIDE DEF rows
<1>2. Grows /\ Len(journal') = Len(journal) + 1 /\ journal'[Len(journal) + 1] = r
  <2>1. Grows /\ Len(journal') = Len(journal) + Len(rows) /\ \A i \in 1..Len(rows) : journal'[Len(journal) + i] = rows[i]
    BY <1>1, CommitAdds
  <2> QED BY <1>1, <2>1
<1>3. \A i \in (Len(journal) + 1)..Len(journal') : i = Len(journal) + 1
  BY <1>2
<1> QED BY <1>2, <1>3 DEF SameClaims

\* A row that was written is still there, an event that happened happened.
LEMMA GrowsFacts ==
  ASSUME journal \in Seq(Row), Grows
  PROVE  /\ DOMAIN journal = 1..Len(journal) /\ DOMAIN journal' = 1..Len(journal') /\ DOMAIN journal \subseteq DOMAIN journal'
         /\ \A i \in DOMAIN journal : journal'[i] = journal[i]
         /\ WrittenRows \subseteq WrittenRows'
         /\ \A e : (Happened(e) => Happened(e)') /\ (Safe(e) => Safe(e)')
         /\ Claims \subseteq Claims'
         /\ SameClaims => Claims' = Claims /\ \A e : ClaimsOf(e)' = ClaimsOf(e)
<1>1. /\ DOMAIN journal = 1..Len(journal) /\ DOMAIN journal' = 1..Len(journal') /\ Len(journal) \in Nat /\ Len(journal') \in Nat
      /\ \A i \in DOMAIN journal : i \in DOMAIN journal' /\ journal'[i] = journal[i]
  BY DEF Grows
<1>2. WrittenRows \subseteq WrittenRows'
  BY <1>1 DEF WrittenRows
<1>3. \A table : RowsOf(table) \subseteq RowsOf(table)'
  BY <1>1 DEF RowsOf
<1>4. Experiences \subseteq Experiences'
  <2> SUFFICES ASSUME NEW x \in Experiences PROVE x \in Experiences'
    OBVIOUS
  <2>1. PICK i \in RowsOf("experience") : x = journal[i]
    BY DEF Experiences
  <2>2. i \in DOMAIN journal /\ journal[i].table = "experience"
    BY <2>1 DEF RowsOf
  <2>3. i \in RowsOf("experience")' /\ x = journal'[i]
    BY <1>1, <2>1, <2>2 DEF RowsOf
  <2> QED BY <2>3 DEF Experiences
<1>5. Claims \subseteq Claims'
  BY <1>3 DEF Claims
<1>6. ASSUME SameClaims PROVE Claims' = Claims /\ \A e : ClaimsOf(e)' = ClaimsOf(e)
  <2>1. \A i \in DOMAIN journal' : journal'[i].table = "claim" => i \in DOMAIN journal
    BY <1>1, <1>6 DEF SameClaims
  <2>2. Claims' = Claims
    BY <1>1, <2>1 DEF Claims, RowsOf
  <2>3. \A i \in Claims : journal'[i] = journal[i]
    BY <1>1 DEF Claims, RowsOf
  <2> QED BY <2>2, <2>3 DEF ClaimsOf
<1> QED BY <1>1, <1>2, <1>4, <1>5, <1>6 DEF Happened, Safe

\* Claims are rows of claims.
LEMMA ClaimsFacts ==
  ASSUME journal \in Seq(Row)
  PROVE  /\ \A i \in Claims : i \in DOMAIN journal /\ journal[i] \in ClaimRow /\ journal[i].table = "claim"
         /\ \A e : ClaimsOf(e) \subseteq Claims /\ \A i \in ClaimsOf(e) : journal[i].event = e
<1>1. \A i \in Claims : i \in DOMAIN journal /\ journal[i] \in Row /\ journal[i].table = "claim"
  BY DEF Claims, RowsOf
<1> QED BY <1>1, RowKinds DEF ClaimsOf

\* A row that may be added: a candidate is of a claim, a correction too, of an
\* event that no risk was seen in, and a route is done.
Proper(r) ==
    /\ r \in Row /\ r.table # "claim"
    /\ r.table = "candidate" => \E j \in Claims : r.claim = journal[j].id
    /\ r.table = "edge" /\ r.type = "supersede" => \E j \in Claims : Supersedes(journal[j], r) /\ Safe(journal[j].event)
    /\ r.table = "route" /\ r.decision \in Routed => \A i \in ClaimsOf(r.event) : Complied(journal[i], r.decision)

\* The claim whose turn it is and its next row.
LEMMA TurnFacts ==
  ASSUME RoutingInv, op.at = "route", op.todo # {}
  PROVE  LET rows == RowsOfClaim(journal[Min(op.todo)], op.decision)
         IN  /\ Min(op.todo) \in op.todo /\ Min(op.todo) \in ClaimsOf(op.event) /\ journal[Min(op.todo)] \in ClaimRow
             /\ rows \in Seq(Row) /\ op.row \in DOMAIN rows /\ op.row \in Nat \ {0} /\ Len(rows) \in Nat
             /\ Proper(rows[op.row])
<1> DEFINE m == Min(op.todo)
           rows == RowsOfClaim(journal[m], op.decision)
<1>1. /\ op.event \in 1..MaxEvents /\ op.decision \in Routed /\ op.todo \subseteq ClaimsOf(op.event) /\ op.row \in Nat \ {0}
      /\ op.row <= Len(rows) /\ Safe(op.event) /\ journal \in Seq(Row)
  <2>1. op \in [at : {"route"}, event : 1..MaxEvents, decision : Routed, todo : SUBSET Claims, row : Nat \ {0}]
    BY OpKinds DEF RoutingInv
  <2> QED BY <2>1 DEF RoutingInv, RouteInv, RoutingTypeOK
<1>2. m \in op.todo
  <2>1. op.todo \in SUBSET Nat
    BY <1>1, ClaimsFacts
  <2>2. PICK i \in op.todo : \A j \in op.todo : i <= j
    BY <2>1, LeastNatural
  <2> QED BY <2>2 DEF Min
<1> HIDE DEF m
<1>3. m \in Claims /\ journal[m] \in ClaimRow /\ journal[m].event = op.event
  BY <1>1, <1>2, ClaimsFacts
<1>4. /\ rows \in Seq(Row) /\ Len(rows) >= 2
      /\ \A k \in DOMAIN rows : LET r == rows[k]
                                IN  /\ r.table \in {"candidate", "edge"}
                                    /\ r.table = "candidate" => r.claim = journal[m].id
                                    /\ r.table = "edge" /\ r.type = "supersede" => Supersedes(journal[m], r)
  BY <1>1, <1>3, RowsFacts
<1> HIDE DEF rows
<1>5. op.row \in DOMAIN rows /\ Len(rows) \in Nat
  BY <1>1, <1>4
<1>6. Proper(rows[op.row])
  BY <1>1, <1>3, <1>4, <1>5 DEF Proper
<1> QED BY <1>1, <1>2, <1>3, <1>4, <1>5, <1>6 DEF m, rows

\* A step adds nothing, or claims, or one row of its own.
LEMMA StepAdds ==
  ASSUME RoutingInv, [RoutingNext]_routingVars
  PROVE  journal' = journal \/ RecordClaims \/ \E r \in Row : Proper(r) /\ Commit(<<r>>)
<1> USE DEF RoutingInv
<1>1. ASSUME NEW input \in Input, NEW routes \in BOOLEAN, ObserveInput(input, routes)
      PROVE  \E r \in Row : Proper(r) /\ Commit(<<r>>)
  <2> DEFINE e == Cardinality(RowsOf("experience")) + 1
             r == [table |-> "experience", event |-> e, source |-> input.source, risky |-> input.risky]
  <2>1. e \in 1..MaxEvents
    <3>1. RowsOf("experience") \in SUBSET (1..Len(journal)) /\ Len(journal) \in Nat
      BY DEF RowsOf, RoutingTypeOK
    <3>2. Cardinality(RowsOf("experience")) \in Nat
      <4>1. IsFiniteSet(1..Len(journal))
        BY <3>1, FS_Interval
      <4> QED BY <3>1, <4>1, FS_Subset, FS_CardinalityType
    <3>3. Cardinality(RowsOf("experience")) < MaxEvents /\ MaxEvents \in Nat
      BY <1>1, BoundAssumption DEF ObserveInput
    <3> QED BY <3>2, <3>3
  <2>2. input.risky \in BOOLEAN /\ input.source \in {i.source : i \in Input}
    BY InputAssumption
  <2>3. Commit(<<r>>)
    BY <1>1 DEF ObserveInput
  <2> HIDE DEF e
  <2>4. r \in [table : {"experience"}, event : 1..MaxEvents, source : {i.source : i \in Input}, risky : BOOLEAN]
    BY <2>1, <2>2
  <2>5. r \in Row /\ r.table = "experience"
    BY <2>4 DEF Row
  <2> QED BY <2>3, <2>5 DEF Proper
<1>2. \A e \in 1..MaxEvents : Impact(e) \in Row /\ Proper(Impact(e))
  <2> TAKE e \in 1..MaxEvents
  <2>1. Impact(e) \in [table : {"impact"}, event : 1..MaxEvents, decision : Routed \cup {"quarantine", "ledger_only"}]
    BY DEF Impact, Decision, Routed
  <2>2. Impact(e) \in Row /\ Impact(e).table = "impact"
    BY <2>1 DEF Row
  <2> QED BY <2>2 DEF Proper
<1>3. ASSUME NEW e \in 1..MaxEvents, AssessImpact(e)
      PROVE  \E r \in Row : Proper(r) /\ Commit(<<r>>)
  BY <1>2, <1>3 DEF AssessImpact
<1>4. ASSUME Assess PROVE \E r \in Row : Proper(r) /\ Commit(<<r>>)
  <2>1. op.event \in 1..MaxEvents
    BY <1>4, OpKinds DEF Assess
  <2> QED BY <1>2, <1>4, <2>1 DEF Assess
<1>5. ASSUME RouteRow PROVE \E r \in Row : Proper(r) /\ Commit(<<r>>)
  <2> DEFINE r == RowsOfClaim(journal[Min(op.todo)], op.decision)[op.row]
  <2>1. op.at = "route" /\ op.todo # {} /\ Commit(<<r>>)
    BY <1>5 DEF RouteRow
  <2>2. Proper(r)
    BY <2>1, TurnFacts
  <2> HIDE DEF r
  <2> QED BY <2>1, <2>2 DEF Proper
<1>6. ASSUME Audit PROVE \E r \in Row : Proper(r) /\ Commit(<<r>>)
  <2> DEFINE r == [table |-> "route", event |-> op.event, decision |-> op.decision]
  <2>1. op.at = "audit" /\ Commit(<<r>>)
    BY <1>6 DEF Audit
  <2>2. r \in [table : {"route"}, event : 1..MaxEvents, decision : Routed \cup {"quarantine"}]
    BY <2>1, OpKinds
  <2>3. r \in Row /\ r.table = "route" /\ r.event = op.event /\ r.decision = op.decision
    BY <2>2 DEF Row
  <2>4. op.decision \in Routed => \A i \in ClaimsOf(op.event) : Complied(journal[i], op.decision)
    BY <2>1 DEF AuditInv
  <2> HIDE DEF r
  <2> QED BY <2>1, <2>3, <2>4 DEF Proper
<1>7. ASSUME NEW e \in 1..MaxEvents, NEW proposals \in Batch, Apply(e, proposals) PROVE journal' = journal
  BY <1>7 DEF Apply
<1>8. ASSUME NEW lens \in Lens, Resolve(lens) PROVE journal' = journal
  BY <1>8 DEF Resolve
<1>9. Extract \/ Rebuild \/ Crash \/ UNCHANGED routingVars => journal' = journal
  BY DEF Extract, Rebuild, Crash, routingVars
<1> QED BY <1>1, <1>3, <1>4, <1>5, <1>6, <1>7, <1>8, <1>9 DEF RoutingNext

\* The claims that are recorded have ids that no other has.
UniqueIds == \A i, j \in Claims : journal[i].id = journal[j].id => i = j

\* What RecordClaims adds.
LEMMA RecordAdds ==
  ASSUME RoutingInv, RecordClaims
  PROVE  /\ Grows
         /\ UniqueIds'
         /\ \A i \in DOMAIN journal' \ DOMAIN journal : journal'[i].table = "claim"
<1> DEFINE rows == Inserted(op.given)
<1>1. journal \in Seq(Row) /\ UniqueIds /\ op.given \in Seq(ClaimRow)
  <2>1. op.at = "record"
    BY DEF RecordClaims
  <2> QED BY <2>1, OpKinds DEF RoutingInv, RoutingTypeOK, UniqueIds
<1>2. /\ rows \in Seq(ClaimRow)
      /\ \A k \in DOMAIN rows : \A j \in Claims : journal[j].id # rows[k].id
      /\ \A k, l \in DOMAIN rows : rows[k].id = rows[l].id => k = l
  BY <1>1, InsertedFacts
<1>3. Commit(rows)
  BY DEF RecordClaims
<1> HIDE DEF rows
<1>4. Len(rows) \in Nat /\ DOMAIN rows = 1..Len(rows) /\ rows \in Seq(Row) /\ \A k \in DOMAIN rows : rows[k].table = "claim"
  <2>1. ClaimRow \subseteq Row
    BY ClaimTypes
  <2> QED BY <1>2, <2>1, ClaimTypes
<1>5. Grows /\ Len(journal') = Len(journal) + Len(rows) /\ \A i \in 1..Len(rows) : journal'[Len(journal) + i] = rows[i]
  BY <1>1, <1>3, <1>4, CommitAdds
<1>6. /\ DOMAIN journal = 1..Len(journal) /\ DOMAIN journal' = 1..Len(journal') /\ Len(journal) \in Nat
      /\ \A i \in DOMAIN journal : journal'[i] = journal[i]
  BY <1>1, <1>5, GrowsFacts
<1>7. \A i \in DOMAIN journal' : i \notin DOMAIN journal => \E k \in DOMAIN rows : i = Len(journal) + k /\ journal'[i] = rows[k]
  <2> SUFFICES ASSUME NEW i \in DOMAIN journal', i \notin DOMAIN journal
               PROVE  \E k \in DOMAIN rows : i = Len(journal) + k /\ journal'[i] = rows[k]
    OBVIOUS
  <2> DEFINE k == i - Len(journal)
  <2>1. k \in 1..Len(rows) /\ i = Len(journal) + k
    BY <1>4, <1>5, <1>6
  <2> HIDE DEF k
  <2> QED BY <1>4, <1>5, <2>1
<1>8. UniqueIds'
  <2>1. \A i \in Claims' : i \in DOMAIN journal'
    BY DEF Claims, RowsOf
  <2>2. \A i \in Claims' : i \in DOMAIN journal => i \in Claims /\ journal'[i] = journal[i]
    BY <1>6 DEF Claims, RowsOf
  <2> SUFFICES ASSUME NEW i \in Claims', NEW j \in Claims', journal'[i].id = journal'[j].id
               PROVE  i = j
    BY DEF UniqueIds
  <2>3. CASE i \in DOMAIN journal /\ j \in DOMAIN journal
    BY <1>1, <2>2, <2>3 DEF UniqueIds
  <2>4. CASE i \in DOMAIN journal /\ j \notin DOMAIN journal
    BY <1>2, <1>7, <2>1, <2>2, <2>4
  <2>5. CASE i \notin DOMAIN journal /\ j \in DOMAIN journal
    BY <1>2, <1>7, <2>1, <2>2, <2>5
  <2>6. CASE i \notin DOMAIN journal /\ j \notin DOMAIN journal
    <3>1. PICK k \in DOMAIN rows : i = Len(journal) + k /\ journal'[i] = rows[k]
      BY <1>7, <2>1, <2>6
    <3>2. PICK l \in DOMAIN rows : j = Len(journal) + l /\ journal'[j] = rows[l]
      BY <1>7, <2>1, <2>6
    <3> QED BY <1>2, <3>1, <3>2
  <2> QED BY <2>3, <2>4, <2>5, <2>6
<1> QED BY <1>4, <1>5, <1>7, <1>8

\* Whatever the step, the journal grows, and only RecordClaims adds claims.
LEMMA StepGrows ==
  ASSUME RoutingInv, [RoutingNext]_routingVars
  PROVE  Grows /\ UniqueIds' /\ (RecordClaims \/ SameClaims)
<1>1. journal \in Seq(Row) /\ UniqueIds /\ Len(journal) \in Nat
  BY DEF RoutingInv, RoutingTypeOK, UniqueIds
<1>2. ASSUME SameClaims, Grows PROVE UniqueIds'
  <2>1. Claims' = Claims /\ \A i \in Claims : journal'[i] = journal[i]
    BY <1>1, <1>2, GrowsFacts, ClaimsFacts
  <2> QED BY <1>1, <2>1 DEF UniqueIds
<1>3. CASE journal' = journal
  <2>1. Grows /\ SameClaims
    BY <1>1, <1>3 DEF Grows, SameClaims
  <2> QED BY <1>2, <2>1
<1>4. CASE RecordClaims
  BY <1>4, RecordAdds
<1>5. ASSUME NEW r \in Row, Proper(r), Commit(<<r>>)
      PROVE  Grows /\ UniqueIds' /\ SameClaims
  <2>1. r.table # "claim"
    BY <1>5 DEF Proper
  <2>2. Grows /\ SameClaims
    BY <1>1, <1>5, <2>1, RowAdded
  <2> QED BY <1>2, <2>2
<1> QED BY <1>3, <1>4, <1>5, StepAdds

\* What RoutedWhole says of one row.
RowsBefore(i) == {journal[j] : j \in 1..i}
WholeAt(i) ==
    /\ journal[i].table = "route" /\ journal[i].decision \in Routed =>
          \A c \in RowsBefore(i) :
              c.table = "claim" /\ c.event = journal[i].event =>
                  Range(RowsOfClaim(c, journal[i].decision)) \subseteq RowsBefore(i)
    /\ journal[i].table = "candidate" => \E c \in RowsBefore(i) : c.table = "claim" /\ c.id = journal[i].claim

\* What CorrectionInv says of one row.
CorrectAt(i) ==
    journal[i].table = "edge" /\ journal[i].type = "supersede" =>
        \E j \in Claims : Supersedes(journal[j], journal[i]) /\ Safe(journal[j].event)

\* The two invariants say it of every row.
LEMMA RowWise ==
  /\ RoutedWhole <=> \A i \in DOMAIN journal : WholeAt(i)
  /\ CorrectionInv <=> \A i \in DOMAIN journal : CorrectAt(i)
<1>1. RoutedWhole <=> \A i \in DOMAIN journal : WholeAt(i)
  BY DEF RoutedWhole, WholeAt, RowsBefore
<1>2. CorrectionInv <=> \A i \in DOMAIN journal : CorrectAt(i)
  BY DEF CorrectionInv, CorrectAt, EdgeEvidence, RowsOf
<1> QED BY <1>1, <1>2

\* The rows that were there say what they said.
LEMMA OldRows ==
  ASSUME RoutingInv, Grows, NEW i \in DOMAIN journal
  PROVE  WholeAt(i)' /\ CorrectAt(i)'
<1>1. journal \in Seq(Row) /\ WholeAt(i) /\ CorrectAt(i)
  BY RowWise DEF RoutingInv, RoutingTypeOK
<1>2. /\ DOMAIN journal = 1..Len(journal) /\ Len(journal) \in Nat /\ \A j \in DOMAIN journal : journal'[j] = journal[j]
      /\ Claims \subseteq Claims' /\ \A e : Safe(e) => Safe(e)'
  BY <1>1, GrowsFacts
<1>3. RowsBefore(i)' = RowsBefore(i) /\ journal'[i] = journal[i]
  <2>1. \A j \in 1..i : journal'[j] = journal[j]
    BY <1>2
  <2> QED BY <1>2, <2>1 DEF RowsBefore
<1>4. WholeAt(i)'
  BY <1>1, <1>3 DEF WholeAt
<1>5. \A j \in Claims : j \in Claims' /\ journal'[j] = journal[j]
  BY <1>1, <1>2, ClaimsFacts
<1>6. CorrectAt(i)'
  BY <1>1, <1>2, <1>3, <1>5 DEF CorrectAt
<1> QED BY <1>4, <1>6

\* The rows that a step adds are whole and correct, too.
LEMMA RowsNext ==
  ASSUME RoutingInv, [RoutingNext]_routingVars
  PROVE  RoutedWhole' /\ CorrectionInv'
<1>1. Grows /\ journal \in Seq(Row) /\ Len(journal) \in Nat
  BY StepGrows DEF RoutingInv, RoutingTypeOK
<1>2. /\ DOMAIN journal = 1..Len(journal) /\ DOMAIN journal' = 1..Len(journal')
      /\ \A j \in DOMAIN journal : journal'[j] = journal[j]
      /\ Claims \subseteq Claims' /\ \A e : Safe(e) => Safe(e)'
  BY <1>1, GrowsFacts
<1>3. ASSUME NEW i \in DOMAIN journal', i \notin DOMAIN journal
      PROVE  WholeAt(i)' /\ CorrectAt(i)'
  <2>1. CASE journal' = journal
    BY <1>3, <2>1
  <2>2. CASE RecordClaims
    <3>1. journal'[i].table = "claim"
      BY <1>3, <2>2, RecordAdds
    <3> QED BY <3>1 DEF WholeAt, CorrectAt
  <2>3. ASSUME NEW r \in Row, Proper(r), Commit(<<r>>)
        PROVE  WholeAt(i)' /\ CorrectAt(i)'
    <3>1. Len(journal') = Len(journal) + 1 /\ journal'[Len(journal) + 1] = r
      BY <1>1, <2>3, RowAdded
    <3>2. i = Len(journal) + 1 /\ journal'[i] = r /\ DOMAIN journal \subseteq 1..i
      BY <1>1, <1>2, <1>3, <3>1
    <3>3. \A j \in Claims : j \in Claims' /\ journal'[j] = journal[j] /\ journal[j].table = "claim" /\ journal[j] \in RowsBefore(i)'
      <4>1. \A j \in DOMAIN journal : journal'[j] \in RowsBefore(i)'
        BY <3>2 DEF RowsBefore
      <4> QED BY <1>1, <1>2, <4>1, ClaimsFacts
    <3>4. WrittenRows \subseteq RowsBefore(i)'
      <4>1. \A j \in DOMAIN journal : journal[j] \in RowsBefore(i)'
        BY <1>2, <3>2 DEF RowsBefore
      <4> QED BY <4>1 DEF WrittenRows
    <3>5. CorrectAt(i)'
      BY <1>2, <2>3, <3>2, <3>3 DEF CorrectAt, Proper
    <3>6. r.table = "candidate" => \E c \in RowsBefore(i)' : c.table = "claim" /\ c.id = r.claim
      BY <2>3, <3>3 DEF Proper
    <3>7. ASSUME r.table = "route", r.decision \in Routed, NEW c \in RowsBefore(i)', c.table = "claim", c.event = r.event
          PROVE  Range(RowsOfClaim(c, r.decision)) \subseteq RowsBefore(i)'
      <4>1. PICK j \in 1..i : c = journal'[j]
        BY DEF RowsBefore
      <4>2. j \in DOMAIN journal /\ c = journal[j]
        BY <1>1, <1>2, <3>2, <3>7, <4>1
      <4>3. j \in ClaimsOf(r.event)
        BY <3>7, <4>2 DEF ClaimsOf, Claims, RowsOf
      <4>4. Complied(c, r.decision)
        BY <2>3, <3>7, <4>2, <4>3 DEF Proper
      <4> QED BY <3>4, <4>4 DEF Complied
    <3> QED BY <3>2, <3>5, <3>6, <3>7 DEF WholeAt
  <2> QED BY <2>1, <2>2, <2>3, StepAdds
<1>4. \A i \in DOMAIN journal' : WholeAt(i)' /\ CorrectAt(i)'
  BY <1>1, <1>3, OldRows
<1>5. (RoutedWhole <=> \A i \in DOMAIN journal : WholeAt(i))' /\ (CorrectionInv <=> \A i \in DOMAIN journal : CorrectAt(i))'
  BY RowWise, PTL
<1> QED BY <1>4, <1>5

\* The candidates of claims.
LEMMA BuiltFacts ==
  ASSUME journal \in Seq(Row), NEW S \in SUBSET Claims
  PROVE  \A r \in Built(S) : r.score \in 0..Whole /\ r.status \in {"suppressed", "rejected", "active", "provisional"}
<1>1. SUFFICES ASSUME NEW i \in S
               PROVE  /\ CandidateOf(journal[i]).score \in 0..Whole
                      /\ CandidateOf(journal[i]).status \in {"suppressed", "rejected", "active", "provisional"}
  BY DEF Built
<1>2. journal[i] \in ClaimRow
  BY ClaimsFacts
<1>3. Score(journal[i]) \in 0..Whole
  BY <1>2, ScoreFacts
<1>4. Status(journal[i]) \in {"suppressed", "rejected", "active", "provisional"}
  BY DEF Status
<1> QED BY <1>3, <1>4 DEF CandidateOf

\* What RoutingTypeOK says of the operation.
OpType ==
    op \in {Idle}
       \cup [at : {"extract"}, event : 1..MaxEvents, given : Seq(Proposed), routes : BOOLEAN, audits : BOOLEAN]
       \cup [at : {"record", "assess"}, event : 1..MaxEvents, given : Seq(ClaimRow), routes : BOOLEAN, audits : BOOLEAN]
       \cup [at : {"route"}, event : 1..MaxEvents, decision : Routed, todo : SUBSET Claims, row : Nat \ {0}]
       \cup [at : {"audit"}, event : 1..MaxEvents, decision : Routed \cup {"quarantine"}]

\* An event that happened is one of the bound.
LEMMA HappenedType ==
  ASSUME journal \in Seq(Row), NEW e, Happened(e)
  PROVE  e \in 1..MaxEvents
<1>1. PICK i \in RowsOf("experience") : journal[i].event = e
  BY DEF Happened, Experiences
<1>2. journal[i] \in Row /\ journal[i].table = "experience"
  BY DEF RowsOf
<1> QED BY <1>1, <1>2, RowKinds

\* The operation keeps its type.
LEMMA OpNext ==
  ASSUME RoutingInv, [RoutingNext]_routingVars
  PROVE  OpType'
<1>1. /\ Grows /\ journal \in Seq(Row) /\ op.at \in {"idle", "extract", "record", "assess", "route", "audit"}
      /\ Claims \subseteq Claims'
  BY StepGrows, GrowsFacts, OpKinds DEF RoutingInv, RoutingTypeOK
<1>2. ASSUME NEW input \in Input, NEW routes \in BOOLEAN, ObserveInput(input, routes)
      PROVE  OpType'
  <2> DEFINE e == Cardinality(RowsOf("experience")) + 1
  <2>1. e \in 1..MaxEvents
    <3>1. RowsOf("experience") \in SUBSET (1..Len(journal)) /\ Len(journal) \in Nat
      BY <1>1 DEF RowsOf
    <3>2. Cardinality(RowsOf("experience")) \in Nat
      <4>1. IsFiniteSet(1..Len(journal))
        BY <3>1, FS_Interval
      <4> QED BY <3>1, <4>1, FS_Subset, FS_CardinalityType
    <3>3. Cardinality(RowsOf("experience")) < MaxEvents /\ MaxEvents \in Nat
      BY <1>2, BoundAssumption DEF ObserveInput
    <3> QED BY <3>2, <3>3
  <2>2. op' = [at |-> "extract", event |-> e, given |-> input.proposals, routes |-> routes, audits |-> routes]
    BY <1>2 DEF ObserveInput
  <2>3. input.proposals \in Seq(Proposed)
    BY InputAssumption
  <2> HIDE DEF e
  <2>4. op' \in [at : {"extract"}, event : 1..MaxEvents, given : Seq(Proposed), routes : BOOLEAN, audits : BOOLEAN]
    BY <2>1, <2>2, <2>3
  <2> QED BY <2>4 DEF OpType
<1>3. ASSUME Extract PROVE OpType'
  <2>1. op \in [at : {"extract"}, event : 1..MaxEvents, given : Seq(Proposed), routes : BOOLEAN, audits : BOOLEAN]
    BY <1>3, OpKinds DEF Extract, RoutingInv
  <2> DEFINE claims == Deduped(Grounded(op.event, op.given))
             at == IF claims = <<>> THEN "assess" ELSE "record"
  <2>2. claims \in Seq(ClaimRow)
    BY <2>1, GroundedType, InsertedFacts
  <2>3. op' = [op EXCEPT !.at = at, !.given = claims] /\ at \in {"record", "assess"}
    BY <1>3 DEF Extract
  <2> HIDE DEF claims, at
  <2>4. op' \in [at : {"record", "assess"}, event : 1..MaxEvents, given : Seq(ClaimRow), routes : BOOLEAN, audits : BOOLEAN]
    BY <2>1, <2>2, <2>3
  <2> QED BY <2>4 DEF OpType
<1>4. ASSUME NEW e \in 1..MaxEvents, NEW proposals \in Batch, Apply(e, proposals) PROVE OpType'
  <2>1. Grounded(e, proposals) \in Seq(ClaimRow)
    BY BatchAssumption, GroundedType
  <2>2. op' = [at |-> "record", event |-> e, given |-> Grounded(e, proposals), routes |-> TRUE, audits |-> FALSE]
    BY <1>4 DEF Apply
  <2>3. op' \in [at : {"record", "assess"}, event : 1..MaxEvents, given : Seq(ClaimRow), routes : BOOLEAN, audits : BOOLEAN]
    BY <2>1, <2>2
  <2> QED BY <2>3 DEF OpType
<1>5. ASSUME RecordClaims PROVE OpType'
  <2>1. /\ op \in [at : {"record", "assess"}, event : 1..MaxEvents, given : Seq(ClaimRow), routes : BOOLEAN, audits : BOOLEAN]
        /\ op' = [op EXCEPT !.at = "assess"]
    BY <1>5, OpKinds DEF RecordClaims, RoutingInv
  <2>2. op' \in [at : {"record", "assess"}, event : 1..MaxEvents, given : Seq(ClaimRow), routes : BOOLEAN, audits : BOOLEAN]
    BY <2>1
  <2> QED BY <2>2 DEF OpType
<1>6. ASSUME Assess PROVE OpType'
  <2>1. op \in [at : {"record", "assess"}, event : 1..MaxEvents, given : Seq(ClaimRow), routes : BOOLEAN, audits : BOOLEAN]
    BY <1>6, OpKinds DEF Assess, RoutingInv
  <2> DEFINE decision == Impact(op.event).decision
             all == ClaimsOf(op.event)
  <2>2. /\ op' = IF op.routes /\ decision \in Routed
                 THEN [at |-> "route", event |-> op.event, decision |-> decision, todo |-> all, row |-> 1]
                 ELSE IF op.audits /\ decision = "quarantine"
                 THEN [at |-> "audit", event |-> op.event, decision |-> "quarantine"]
                 ELSE Idle
    BY <1>6 DEF Assess, Route
  <2>3. all \in SUBSET Claims'
    BY <1>1, ClaimsFacts
  <2> HIDE DEF decision, all
  <2>4. CASE op.routes /\ decision \in Routed
    <3>1. op' \in [at : {"route"}, event : 1..MaxEvents, decision : Routed, todo : SUBSET Claims', row : Nat \ {0}]
      BY <2>1, <2>2, <2>3, <2>4
    <3> QED BY <3>1 DEF OpType
  <2>5. CASE ~(op.routes /\ decision \in Routed)
    <3>1. op' \in [at : {"audit"}, event : 1..MaxEvents, decision : Routed \cup {"quarantine"}] \/ op' = Idle
      BY <2>1, <2>2, <2>5
    <3> QED BY <3>1 DEF OpType
  <2> QED BY <2>4, <2>5
<1>7. ASSUME op.at = "route"
      PROVE  op \in [at : {"route"}, event : 1..MaxEvents, decision : Routed, todo : SUBSET Claims, row : Nat \ {0}]
  BY <1>7, OpKinds DEF RoutingInv
<1>8. ASSUME RouteRow PROVE OpType'
  <2> DEFINE claim == Min(op.todo)
             rows == RowsOfClaim(journal[claim], op.decision)
  <2>1. op' = IF op.row < Len(rows) THEN [op EXCEPT !.row = @ + 1] ELSE [op EXCEPT !.todo = @ \ {claim}, !.row = 1]
    BY <1>8 DEF RouteRow
  <2> HIDE DEF rows, claim
  <2>2. op \in [at : {"route"}, event : 1..MaxEvents, decision : Routed, todo : SUBSET Claims, row : Nat \ {0}]
    BY <1>7, <1>8 DEF RouteRow
  <2>3. op' \in [at : {"route"}, event : 1..MaxEvents, decision : Routed, todo : SUBSET Claims, row : Nat \ {0}]
    <3>1. op.row + 1 \in Nat \ {0} /\ op.todo \ {claim} \in SUBSET Claims
      BY <2>2
    <3>2. CASE op.row < Len(rows)
      <4> DEFINE next == op.row + 1
      <4>1. op' = [op EXCEPT !.row = next]
        BY <2>1, <3>2
      <4>2. next \in Nat \ {0}
        BY <3>1
      <4> HIDE DEF next
      <4> QED BY <2>2, <4>1, <4>2
    <3>3. CASE ~(op.row < Len(rows))
      <4> DEFINE left == op.todo \ {claim}
      <4>1. op' = [op EXCEPT !.todo = left, !.row = 1]
        BY <2>1, <3>3
      <4>2. left \in SUBSET Claims /\ 1 \in Nat \ {0}
        BY <3>1
      <4> HIDE DEF left
      <4> QED BY <2>2, <4>1, <4>2
    <3> QED BY <3>2, <3>3
  <2>4. op' \in [at : {"route"}, event : 1..MaxEvents, decision : Routed, todo : SUBSET Claims', row : Nat \ {0}]
    BY <1>1, <2>3
  <2> QED BY <2>4 DEF OpType
<1>9. ASSUME Rebuild PROVE OpType'
  <2>1. op' \in [at : {"audit"}, event : 1..MaxEvents, decision : Routed \cup {"quarantine"}]
    BY <1>7, <1>9 DEF Rebuild
  <2> QED BY <2>1 DEF OpType
<1>10. ASSUME Audit \/ Crash PROVE OpType'
  BY <1>10 DEF Audit, Crash, OpType
<1>11. ASSUME op' = op PROVE OpType'
  <2>1. op \in {Idle}
           \cup [at : {"extract"}, event : 1..MaxEvents, given : Seq(Proposed), routes : BOOLEAN, audits : BOOLEAN]
           \cup [at : {"record", "assess"}, event : 1..MaxEvents, given : Seq(ClaimRow),
                 routes : BOOLEAN, audits : BOOLEAN]
           \cup [at : {"route"}, event : 1..MaxEvents, decision : Routed, todo : SUBSET Claims, row : Nat \ {0}]
           \cup [at : {"audit"}, event : 1..MaxEvents, decision : Routed \cup {"quarantine"}]
    BY DEF RoutingInv, RoutingTypeOK
  <2>2. CASE op.at = "route"
    <3>1. op' \in [at : {"route"}, event : 1..MaxEvents, decision : Routed, todo : SUBSET Claims', row : Nat \ {0}]
      BY <1>1, <1>7, <1>11, <2>2
    <3> QED BY <3>1 DEF OpType
  <2>3. CASE op.at # "route"
    BY <1>11, <2>1, <2>3 DEF OpType
  <2> QED BY <2>2, <2>3
<1>12. ASSUME NEW e \in 1..MaxEvents, AssessImpact(e) PROVE OpType'
  BY <1>11, <1>12 DEF AssessImpact
<1>13. ASSUME NEW lens \in Lens, Resolve(lens) PROVE OpType'
  BY <1>11, <1>13 DEF Resolve
<1>14. ASSUME UNCHANGED routingVars PROVE OpType'
  BY <1>11, <1>14 DEF routingVars
<1> QED BY <1>2, <1>3, <1>4, <1>5, <1>6, <1>8, <1>9, <1>10, <1>12, <1>13, <1>14 DEF RoutingNext

\* Every variable keeps its type.
LEMMA RoutingTypeNext ==
  ASSUME RoutingInv, [RoutingNext]_routingVars
  PROVE  RoutingTypeOK'
<1>1. journal' \in Seq(Row) /\ UniqueIds' /\ OpType' /\ journal \in Seq(Row)
  BY StepGrows, OpNext DEF Grows, RoutingInv, RoutingTypeOK
<1>2. \A r \in view' : r.score \in 0..Whole /\ r.status \in {"suppressed", "rejected", "active", "provisional"}
  <2>1. view' = view \/ \E S \in SUBSET Claims : view' = Built(S)
    <3>1. Rebuild => view' = Built(Claims)
      BY DEF Rebuild
    <3>2. \A lens \in Lens : Resolve(lens) => view' = Built(Claims)
      BY DEF Resolve
    <3>3. Crash => view' = view \/ \E S \in SUBSET Claims : view' = Built(S)
      <4>1. \A n : {i \in Claims : i <= n} \in SUBSET Claims
        OBVIOUS
      <4> QED BY <4>1 DEF Crash
    <3>4. \A input, routes : ObserveInput(input, routes) => view' = view
      BY DEF ObserveInput
    <3>5. \A e, proposals : (AssessImpact(e) => view' = view) /\ (Apply(e, proposals) => view' = view)
      BY DEF AssessImpact, Apply
    <3>6. Extract \/ RecordClaims \/ Assess \/ RouteRow \/ Audit \/ UNCHANGED routingVars => view' = view
      BY DEF Extract, RecordClaims, Assess, RouteRow, Audit, routingVars
    <3> QED BY <3>1, <3>2, <3>3, <3>4, <3>5, <3>6 DEF RoutingNext
  <2>2. \A r \in view : r.score \in 0..Whole /\ r.status \in {"suppressed", "rejected", "active", "provisional"}
    BY DEF RoutingInv, RoutingTypeOK
  <2> QED BY <1>1, <2>1, <2>2, BuiltFacts
<1>3. applied' \in 0..MaxApplied /\ crashes' \in 0..MaxCrashes
  <2>1. applied \in 0..MaxApplied /\ crashes \in 0..MaxCrashes /\ MaxApplied \in Nat /\ MaxCrashes \in Nat
    BY BoundAssumption DEF RoutingInv, RoutingTypeOK
  <2>2. Crash => crashes' \in 0..MaxCrashes /\ applied' = applied
    BY <2>1 DEF Crash
  <2>3. \A e, proposals : Apply(e, proposals) => applied' \in 0..MaxApplied /\ crashes' = crashes
    BY <2>1 DEF Apply
  <2>4. \A input, routes, e, lens : ObserveInput(input, routes) \/ AssessImpact(e) \/ Resolve(lens) => UNCHANGED <<applied, crashes>>
    BY DEF ObserveInput, AssessImpact, Resolve
  <2>5. Extract \/ RecordClaims \/ Assess \/ RouteRow \/ Rebuild \/ Audit \/ UNCHANGED routingVars => UNCHANGED <<applied, crashes>>
    BY DEF Extract, RecordClaims, Assess, RouteRow, Rebuild, Audit, routingVars
  <2> QED BY <2>1, <2>2, <2>3, <2>4, <2>5 DEF RoutingNext
<1> QED BY <1>1, <1>2, <1>3 DEF RoutingTypeOK, UniqueIds, OpType

\* An experience that is cited is one of the event.
LEMMA ExperienceFacts ==
  ASSUME NEW e, Happened(e)
  PROVE  ExperienceOf(e) \in Experiences /\ ExperienceOf(e).event = e
BY DEF Happened, ExperienceOf

\* The steps that leave an operation where it is.
LEMMA OpSteps ==
  ASSUME RoutingInv, [RoutingNext]_routingVars
  PROVE  /\ op'.at = "route" => Assess \/ RouteRow \/ UNCHANGED <<journal, op>>
         /\ op'.at = "audit" => Assess \/ Rebuild \/ UNCHANGED <<journal, op>>
         /\ op'.at \in {"extract", "record", "assess"} =>
               \/ \E input \in Input, routes \in BOOLEAN : ObserveInput(input, routes)
               \/ Extract \/ RecordClaims \/ UNCHANGED <<journal, op>>
               \/ \E e \in 1..MaxEvents, proposals \in Batch : Apply(e, proposals)
<1>1. \A input, routes : ObserveInput(input, routes) => op'.at = "extract"
  BY DEF ObserveInput
<1>2. \A e, proposals : /\ AssessImpact(e) => op'.at = "idle"
                        /\ Apply(e, proposals) => op'.at = "record"
  BY DEF AssessImpact, Apply
<1>3. \A lens : Resolve(lens) => op'.at = "idle"
  BY DEF Resolve
<1>4. (Audit \/ Crash => op'.at = "idle") /\ (Rebuild => op'.at = "audit")
  BY DEF Rebuild, Audit, Crash, Idle
<1>5. Extract => op'.at \in {"record", "assess"}
  <2> SUFFICES ASSUME Extract PROVE op'.at \in {"record", "assess"}
    OBVIOUS
  <2> DEFINE claims == Deduped(Grounded(op.event, op.given))
             at == IF claims = <<>> THEN "assess" ELSE "record"
  <2>1. op \in [at : {"extract"}, event : 1..MaxEvents, given : Seq(Proposed), routes : BOOLEAN, audits : BOOLEAN]
    BY OpKinds DEF Extract, RoutingInv
  <2>2. op' = [op EXCEPT !.at = at, !.given = claims] /\ at \in {"record", "assess"}
    BY DEF Extract
  <2> HIDE DEF claims, at
  <2> QED BY <2>1, <2>2
<1>6. RecordClaims => op'.at = "assess"
  <2> SUFFICES ASSUME RecordClaims PROVE op'.at = "assess"
    OBVIOUS
  <2>1. op \in [at : {"record", "assess"}, event : 1..MaxEvents, given : Seq(ClaimRow), routes : BOOLEAN, audits : BOOLEAN]
    BY OpKinds DEF RecordClaims, RoutingInv
  <2>2. op' = [op EXCEPT !.at = "assess"]
    BY DEF RecordClaims
  <2> QED BY <2>1, <2>2
<1>7. Assess => op'.at \in {"route", "audit", "idle"}
  <2> SUFFICES ASSUME Assess PROVE op'.at \in {"route", "audit", "idle"}
    OBVIOUS
  <2> DEFINE d == Impact(op.event).decision
             todo == Route(op.event, op.given)
  <2>1. op' = IF op.routes /\ d \in Routed
              THEN [at |-> "route", event |-> op.event, decision |-> d, todo |-> todo, row |-> 1]
              ELSE IF op.audits /\ d = "quarantine"
              THEN [at |-> "audit", event |-> op.event, decision |-> "quarantine"]
              ELSE Idle
    BY DEF Assess
  <2> HIDE DEF d, todo
  <2> QED BY <2>1 DEF Idle
<1>8. RouteRow => op'.at = "route"
  <2> SUFFICES ASSUME RouteRow PROVE op'.at = "route"
    OBVIOUS
  <2> DEFINE m == Min(op.todo)
             rows == RowsOfClaim(journal[m], op.decision)
             next == op.row + 1
             left == op.todo \ {m}
  <2>1. op \in [at : {"route"}, event : 1..MaxEvents, decision : Routed, todo : SUBSET Claims, row : Nat \ {0}]
    BY OpKinds DEF RouteRow, RoutingInv
  <2>2. op' = IF op.row < Len(rows) THEN [op EXCEPT !.row = next] ELSE [op EXCEPT !.todo = left, !.row = 1]
    BY DEF RouteRow
  <2> HIDE DEF m, rows, next, left
  <2> QED BY <2>1, <2>2
<1> QED BY <1>1, <1>2, <1>3, <1>4, <1>5, <1>6, <1>7, <1>8 DEF RoutingNext, routingVars

\* All rows of the claims that are not left are written after a step too.
LEMMA RouteNext ==
  ASSUME RoutingInv, [RoutingNext]_routingVars
  PROVE  RouteInv'
<1>1. Grows /\ journal \in Seq(Row) /\ journal' \in Seq(Row)
  BY StepGrows DEF RoutingInv, RoutingTypeOK, Grows
<1>2. /\ DOMAIN journal = 1..Len(journal) /\ DOMAIN journal' = 1..Len(journal') /\ Len(journal) \in Nat
      /\ \A i \in DOMAIN journal : journal'[i] = journal[i]
      /\ WrittenRows \subseteq WrittenRows' /\ (\A e : Safe(e) => Safe(e)')
      /\ SameClaims => Claims' = Claims /\ \A e : ClaimsOf(e)' = ClaimsOf(e)
  BY <1>1, GrowsFacts
<1>3. \A e : \A i \in ClaimsOf(e) : journal[i] \in ClaimRow /\ i \in DOMAIN journal /\ journal'[i] = journal[i]
  BY <1>1, <1>2, ClaimsFacts
<1>4. SUFFICES ASSUME op'.at = "route"
      PROVE  RouteInv'
  BY DEF RouteInv
<1>5. CASE Assess
  <2>1. op.at = "assess" /\ Commit(<<Impact(op.event)>>) /\ Impact(op.event).decision \in Routed
    BY <1>4, <1>5 DEF Assess, Idle
  <2>2. op.event \in 1..MaxEvents /\ Happened(op.event)
    BY <2>1, OpKinds DEF RoutingInv, EventInv
  <2> DEFINE e == op.event
             decision == Impact(op.event).decision
  <2>3. op'.event = e /\ op'.decision = decision /\ op'.todo = ClaimsOf(e) /\ op'.row = 1
    BY <1>4, <1>5, <2>1 DEF Assess, Route, Idle
  <2>4. Safe(e)
    <3>1. ExperienceOf(e) \in Experiences /\ ExperienceOf(e).event = e
      BY <2>2, ExperienceFacts
    <3>2. ~ExperienceOf(e).risky
      BY <2>1 DEF Impact, Decision, Routed
    <3> QED BY <3>1, <3>2 DEF Safe
  <2>5. {i \in Claims' : journal'[i].event = e} = ClaimsOf(e)
    <3>1. Impact(e) \in Row /\ Impact(e).table # "claim"
      <4>1. Impact(e) \in [table : {"impact"}, event : 1..MaxEvents, decision : Routed \cup {"quarantine", "ledger_only"}]
        BY <2>2 DEF Impact, Decision, Routed
      <4> QED BY <4>1 DEF Row
    <3>2. SameClaims
      BY <1>1, <2>1, <3>1, RowAdded
    <3>3. Claims' = Claims
      BY <1>2, <3>2
    <3>4. \A i \in Claims : journal'[i] = journal[i]
      BY <1>1, <1>2, ClaimsFacts
    <3> QED BY <3>3, <3>4 DEF ClaimsOf
  <2>6. op'.todo # {} => 1 <= Len(RowsOfClaim(journal'[Min(op'.todo)], op'.decision))
    <3> SUFFICES ASSUME op'.todo # {} PROVE 1 <= Len(RowsOfClaim(journal'[Min(op'.todo)], op'.decision))
      OBVIOUS
    <3> DEFINE todo == op'.todo
    <3>1. todo \in SUBSET Nat /\ \A i \in todo : i \in ClaimsOf(e)
      BY <1>2, <1>3, <2>3
    <3>2. PICK i \in todo : \A j \in todo : i <= j
      <4> HIDE DEF todo
      <4>1. todo # {}
        BY DEF todo
      <4> QED BY <3>1, <4>1, LeastNatural
    <3>3. Min(todo) \in todo
      <4> HIDE DEF todo
      <4> QED BY <3>2 DEF Min
    <3>4. journal'[Min(todo)] \in ClaimRow
      BY <1>3, <3>1, <3>3
    <3>5. Len(RowsOfClaim(journal'[Min(todo)], decision)) >= 2 /\ RowsOfClaim(journal'[Min(todo)], decision) \in Seq(Row)
      <4> HIDE DEF todo, decision
      <4>1. decision \in Routed
        BY <2>1 DEF decision
      <4> QED BY <3>4, <4>1, RowsFacts
    <3>6. Len(RowsOfClaim(journal'[Min(todo)], decision)) \in Nat
      <4> HIDE DEF todo, decision
      <4> QED BY <3>5
    <3> QED BY <2>3, <3>5, <3>6
  <2>7. Safe(op.event)'
    <3>1. \E x \in Experiences' : x.event = op.event /\ ~x.risky
      BY <1>2, <2>4 DEF Safe
    <3>2. op'.event = op.event
      BY <2>3
    <3>3. \E x \in Experiences' : x.event = op'.event /\ ~x.risky
      BY <3>1, <3>2
    <3> QED BY <3>3 DEF Safe
  <2>8. 1..(op'.row - 1) = {} /\ op'.row = 1
    BY <2>3
  <2>9. ClaimsOf(op.event)' = op'.todo
    <3>1. {i \in Claims' : journal'[i].event = op'.event} = op'.todo
      BY <2>3, <2>5 DEF ClaimsOf
    <3> QED BY <3>1 DEF ClaimsOf
  <2> HIDE DEF e, decision
  <2> QED BY <2>6, <2>7, <2>8, <2>9 DEF RouteInv
<1>6. CASE RouteRow
  <2> DEFINE m == Min(op.todo)
             e == op.event
             decision == op.decision
             rows == RowsOfClaim(journal[m], decision)
  <2>1. op.at = "route" /\ op.todo # {} /\ Commit(<<rows[op.row]>>)
        /\ op' = IF op.row < Len(rows) THEN [op EXCEPT !.row = @ + 1] ELSE [op EXCEPT !.todo = @ \ {m}, !.row = 1]
    BY <1>6 DEF RouteRow
  <2>2. op \in [at : {"route"}, event : 1..MaxEvents, decision : Routed, todo : SUBSET Claims, row : Nat \ {0}]
    BY <2>1, OpKinds DEF RoutingInv
  <2>3. /\ m \in op.todo /\ m \in ClaimsOf(e) /\ journal[m] \in ClaimRow
        /\ rows \in Seq(Row) /\ op.row \in DOMAIN rows /\ op.row \in Nat \ {0} /\ Len(rows) \in Nat
        /\ Proper(rows[op.row])
    BY <2>1, TurnFacts
  <2>4. /\ op.todo \subseteq ClaimsOf(e) /\ (\A k \in 1..(op.row - 1) : rows[k] \in WrittenRows)
        /\ (\A i \in ClaimsOf(e) \ op.todo : Complied(journal[i], decision)) /\ Safe(e)
    BY <2>1 DEF RoutingInv, RouteInv
  <2>5. op'.event = e /\ op'.decision = decision
    BY <2>1, <2>2
  <2> HIDE DEF rows, m
  <2>6. SameClaims /\ rows[op.row] \in WrittenRows'
    <3>1. rows[op.row] \in Row /\ rows[op.row].table # "claim"
      BY <2>3 DEF Proper
    <3>2. SameClaims /\ Len(journal') = Len(journal) + 1 /\ journal'[Len(journal) + 1] = rows[op.row]
      BY <1>1, <2>1, <3>1, RowAdded
    <3>3. Len(journal) + 1 \in DOMAIN journal'
      BY <1>2, <3>2
    <3> QED BY <3>2, <3>3 DEF WrittenRows
  <2>7. ClaimsOf(op.event)' = ClaimsOf(e)
    <3>1. Claims' = Claims /\ \A i \in Claims : journal'[i] = journal[i]
      BY <1>1, <1>2, <2>6, ClaimsFacts
    <3>2. {i \in Claims' : journal'[i].event = op'.event} = {i \in Claims : journal[i].event = e}
      BY <2>5, <3>1
    <3> QED BY <3>2 DEF ClaimsOf
  <2>8. \A k \in 1..op.row : rows[k] \in WrittenRows'
    <3>1. \A k \in 1..op.row : k = op.row \/ k \in 1..(op.row - 1)
      BY <2>3
    <3> QED BY <1>2, <2>4, <2>6, <3>1
  <2>9. \A i \in ClaimsOf(e) \ op.todo : Range(RowsOfClaim(journal'[i], decision)) \subseteq WrittenRows'
    BY <1>2, <1>3, <2>4 DEF Complied
  <2>10. Safe(op.event)'
    <3>1. \E x \in Experiences' : x.event = op.event /\ ~x.risky
      BY <1>2, <2>4 DEF Safe
    <3>2. \E x \in Experiences' : x.event = op'.event /\ ~x.risky
      BY <2>5, <3>1
    <3> QED BY <3>2 DEF Safe
  <2>11. rows = RowsOfClaim(journal'[m], decision)
    BY <1>3, <2>3 DEF rows
  <2>12. CASE op.row < Len(rows)
    <3>1. op'.todo = op.todo /\ op'.row = op.row + 1 /\ op'.row \in Nat
      BY <2>1, <2>2, <2>12
    <3>2. op'.row <= Len(rows) /\ op'.row - 1 = op.row
      BY <2>3, <2>12, <3>1
    <3>3. RowsOfClaim(journal'[Min(op'.todo)], op'.decision) = rows
      BY <2>5, <2>11, <3>1 DEF m
    <3>4. \A i \in ClaimsOf(e) \ op'.todo : Range(RowsOfClaim(journal'[i], op'.decision)) \subseteq WrittenRows'
      BY <2>5, <2>9, <3>1
    <3>5. op'.todo \subseteq ClaimsOf(op.event)'
      BY <2>4, <2>7, <3>1
    <3>6. \A i \in ClaimsOf(op.event)' \ op'.todo : Range(RowsOfClaim(journal'[i], op'.decision)) \subseteq WrittenRows'
      BY <2>7, <3>4
    <3>7. /\ op'.row <= Len(RowsOfClaim(journal'[Min(op'.todo)], op'.decision))
          /\ \A k \in 1..(op'.row - 1) : RowsOfClaim(journal'[Min(op'.todo)], op'.decision)[k] \in WrittenRows'
      BY <2>8, <3>2, <3>3
    <3> HIDE DEF e, decision
    <3> QED BY <2>10, <3>5, <3>6, <3>7 DEF RouteInv, Complied
  <2>13. CASE ~(op.row < Len(rows))
    <3>1. op'.todo = op.todo \ {m} /\ op'.row = 1
      BY <2>1, <2>2, <2>13
    <3>2. op.row = Len(rows)
      BY <2>3, <2>13
    <3>3. Range(rows) \subseteq WrittenRows'
      <4>1. DOMAIN rows = 1..op.row
        BY <2>3, <3>2
      <4> QED BY <2>8, <4>1 DEF Range
    <3>4. \A i \in ClaimsOf(e) \ op'.todo : Range(RowsOfClaim(journal'[i], op'.decision)) \subseteq WrittenRows'
      <4>1. \A i \in ClaimsOf(e) \ op'.todo : i = m \/ i \in ClaimsOf(e) \ op.todo
        BY <3>1
      <4> QED BY <2>5, <2>9, <2>11, <3>3, <4>1
    <3>5. op'.todo \subseteq ClaimsOf(e)
      BY <2>4, <3>1
    <3>6. op'.todo # {} => 1 <= Len(RowsOfClaim(journal'[Min(op'.todo)], op'.decision))
      <4> SUFFICES ASSUME op'.todo # {} PROVE 1 <= Len(RowsOfClaim(journal'[Min(op'.todo)], op'.decision))
        OBVIOUS
      <4> DEFINE todo == op'.todo
      <4>1. todo \in SUBSET Nat /\ \A i \in todo : i \in ClaimsOf(e)
        BY <1>2, <1>3, <3>5
      <4>2. PICK i \in todo : \A j \in todo : i <= j
        <5> HIDE DEF todo
        <5>1. todo # {}
          BY DEF todo
        <5> QED BY <4>1, <5>1, LeastNatural
      <4>3. Min(todo) \in todo
        <5> HIDE DEF todo
        <5> QED BY <4>2 DEF Min
      <4>4. journal'[Min(todo)] \in ClaimRow
        BY <1>3, <4>1, <4>3
      <4>5. decision \in Routed
        BY <2>2
      <4> HIDE DEF todo, decision
      <4>6. Len(RowsOfClaim(journal'[Min(todo)], decision)) >= 2 /\ RowsOfClaim(journal'[Min(todo)], decision) \in Seq(Row)
        BY <4>4, <4>5, RowsFacts
      <4>7. Len(RowsOfClaim(journal'[Min(todo)], decision)) \in Nat
        BY <4>6
      <4> QED BY <2>5, <4>6, <4>7 DEF todo
    <3>7. 1..(op'.row - 1) = {} /\ op'.row = 1
      BY <3>1
    <3>8. op'.todo \subseteq ClaimsOf(op.event)'
      BY <2>7, <3>5
    <3>9. \A i \in ClaimsOf(op.event)' \ op'.todo : Range(RowsOfClaim(journal'[i], op'.decision)) \subseteq WrittenRows'
      BY <2>7, <3>4
    <3> HIDE DEF e, decision
    <3> QED BY <2>10, <3>6, <3>7, <3>8, <3>9 DEF RouteInv, Complied
  <2> QED BY <2>12, <2>13
<1>7. CASE UNCHANGED <<journal, op>>
  <2>1. RouteInv
    BY DEF RoutingInv
  <2>2. WrittenRows' = WrittenRows /\ ClaimsOf(op.event)' = ClaimsOf(op.event) /\ Safe(op.event)' = Safe(op.event)
    BY <1>7 DEF WrittenRows, ClaimsOf, Claims, RowsOf, Safe, Experiences
  <2> QED BY <1>7, <2>1, <2>2 DEF RouteInv, Complied
<1> QED BY <1>4, <1>5, <1>6, <1>7, OpSteps

\* An audit follows a rebuild, for which no claim is left, or a quarantine.
LEMMA AuditNext ==
  ASSUME RoutingInv, [RoutingNext]_routingVars
  PROVE  AuditInv'
<1>1. SUFFICES ASSUME op'.at = "audit", op'.decision \in Routed
      PROVE  AuditInv'
  BY DEF AuditInv
<1>2. ~Assess
  <2> SUFFICES ASSUME Assess PROVE FALSE
    OBVIOUS
  <2>1. op'.decision = "quarantine"
    BY <1>1 DEF Assess, Idle
  <2> QED BY <1>1, <2>1 DEF Routed
<1>3. CASE Rebuild
  <2>1. op.at = "route" /\ op.todo = {} /\ journal' = journal /\ op'.event = op.event /\ op'.decision = op.decision
    BY <1>3 DEF Rebuild
  <2>2. \A i \in ClaimsOf(op.event) : Complied(journal[i], op.decision)
    BY <2>1 DEF RoutingInv, RouteInv
  <2>3. ClaimsOf(op.event)' = ClaimsOf(op.event) /\ WrittenRows' = WrittenRows
    BY <2>1 DEF ClaimsOf, Claims, RowsOf, WrittenRows
  <2>4. \A i \in ClaimsOf(op.event)' : Range(RowsOfClaim(journal'[i], op'.decision)) \subseteq WrittenRows'
    BY <2>1, <2>2, <2>3 DEF Complied
  <2> QED BY <2>4 DEF AuditInv, Complied
<1>4. CASE UNCHANGED <<journal, op>>
  <2>1. AuditInv
    BY DEF RoutingInv
  <2>2. WrittenRows' = WrittenRows /\ ClaimsOf(op.event)' = ClaimsOf(op.event)
    BY <1>4 DEF WrittenRows, ClaimsOf, Claims, RowsOf
  <2> QED BY <1>4, <2>1, <2>2 DEF AuditInv, Complied
<1> QED BY <1>1, <1>2, <1>3, <1>4, OpSteps

\* An operation is about an event that happened.
LEMMA EventNext ==
  ASSUME RoutingInv, [RoutingNext]_routingVars
  PROVE  EventInv'
<1>1. Grows /\ journal \in Seq(Row) /\ journal' \in Seq(Row)
  BY StepGrows DEF RoutingInv, RoutingTypeOK, Grows
<1>2. SUFFICES ASSUME op'.at \in {"extract", "record", "assess"}
      PROVE  \E x \in Experiences' : x.event = op'.event
  BY DEF EventInv, Happened
<1>3. ASSUME NEW input \in Input, NEW routes \in BOOLEAN, ObserveInput(input, routes)
      PROVE  \E x \in Experiences' : x.event = op'.event
  <2> DEFINE e == Cardinality(RowsOf("experience")) + 1
             r == [table |-> "experience", event |-> e, source |-> input.source, risky |-> input.risky]
  <2>1. Commit(<<r>>) /\ op'.event = e
    BY <1>3 DEF ObserveInput
  <2> HIDE DEF e
  <2>2. r.table = "experience" /\ r.event = e
    OBVIOUS
  <2> HIDE DEF r
  <2>3. \E n \in DOMAIN journal' : journal'[n] = r
    <3>1. journal' = journal \o <<r>>
      BY <2>1 DEF Commit
    <3> DEFINE n == Len(journal) + 1
    <3>2. Len(journal) \in Nat /\ journal'[n] = r /\ Len(journal') = n
      BY <1>1, <3>1
    <3>3. n \in DOMAIN journal'
      BY <1>1, <3>2
    <3> QED BY <3>2, <3>3
  <2>4. r \in Experiences'
    BY <2>2, <2>3 DEF Experiences, RowsOf
  <2> QED BY <2>1, <2>2, <2>4
<1>4. \A e : Happened(e) => \E x \in Experiences' : x.event = e
  BY <1>1, GrowsFacts DEF Happened
<1>5. CASE Extract \/ RecordClaims
  <2>1. op.at \in {"extract", "record"} /\ op'.event = op.event
    <3>1. CASE Extract
      <4> DEFINE claims == Deduped(Grounded(op.event, op.given))
                 at == IF claims = <<>> THEN "assess" ELSE "record"
      <4>1. op.at = "extract" /\ op' = [op EXCEPT !.at = at, !.given = claims]
        BY <3>1 DEF Extract
      <4>2. op \in [at : {"extract"}, event : 1..MaxEvents, given : Seq(Proposed), routes : BOOLEAN, audits : BOOLEAN]
        BY <4>1, OpKinds DEF RoutingInv
      <4> HIDE DEF claims, at
      <4> QED BY <4>1, <4>2
    <3>2. CASE RecordClaims
      <4>1. op.at = "record" /\ op' = [op EXCEPT !.at = "assess"]
        BY <3>2 DEF RecordClaims
      <4>2. op \in [at : {"record", "assess"}, event : 1..MaxEvents, given : Seq(ClaimRow),
                     routes : BOOLEAN, audits : BOOLEAN]
        BY <4>1, OpKinds DEF RoutingInv
      <4> QED BY <4>1, <4>2
    <3> QED BY <1>5, <3>1, <3>2
  <2> QED BY <1>4, <2>1 DEF RoutingInv, EventInv
<1>6. ASSUME NEW e \in 1..MaxEvents, NEW proposals \in Batch, Apply(e, proposals)
      PROVE  \E x \in Experiences' : x.event = op'.event
  <2>1. Happened(e) /\ op'.event = e
    BY <1>6 DEF Apply, Happened
  <2> QED BY <1>4, <2>1
<1>7. CASE UNCHANGED <<journal, op>>
  <2>1. Happened(op.event)
    BY <1>2, <1>7 DEF RoutingInv, EventInv
  <2> QED BY <1>4, <1>7, <2>1
<1> QED BY <1>2, <1>3, <1>5, <1>6, <1>7, OpSteps

\* A packet is of the journal as it is.
LEMMA PacketNext ==
  ASSUME RoutingInv, [RoutingNext]_routingVars
  PROVE  PacketInv'
<1>1. ASSUME journal' = journal PROVE Built(Claims)' = Built(Claims)
  BY <1>1 DEF Built, CandidateOf, Score, Status, Superseded, EdgeEvidence, Claims, RowsOf, Strength
<1>2. ASSUME NEW lens \in Lens, Resolve(lens) PROVE PacketInv'
  <2>1. journal' = journal /\ packet' = Packet(lens, Built(Claims))
    BY <1>2 DEF Resolve
  <2>2. packet' = Packet(lens, Built(Claims)')
    BY <1>1, <2>1
  <2> QED BY <2>2 DEF PacketInv
<1>3. CASE UNCHANGED routingVars
  <2>1. packet' = packet /\ Built(Claims)' = Built(Claims)
    BY <1>1, <1>3 DEF routingVars
  <2>2. packet # Nil => \E lens \in Lens : packet = Packet(lens, Built(Claims))
    BY DEF RoutingInv, PacketInv
  <2>3. packet' # Nil => \E lens \in Lens : packet' = Packet(lens, Built(Claims)')
    BY <2>1, <2>2
  <2> QED BY <2>3 DEF PacketInv
<1>4. ASSUME packet' = Nil PROVE PacketInv'
  BY <1>4 DEF PacketInv
<1>5. \/ \E lens \in Lens : Resolve(lens)
      \/ packet' = Nil \/ UNCHANGED routingVars
  <2>1. \A input, routes, e, proposals : ObserveInput(input, routes) \/ AssessImpact(e) \/ Apply(e, proposals) => packet' = Nil
    BY DEF ObserveInput, AssessImpact, Apply
  <2>2. Extract \/ RecordClaims \/ Assess \/ RouteRow \/ Rebuild \/ Audit \/ Crash => packet' = Nil
    BY DEF Extract, RecordClaims, Assess, RouteRow, Rebuild, Audit, Crash
  <2> QED BY <2>1, <2>2 DEF RoutingNext
<1> QED BY <1>2, <1>3, <1>4, <1>5

\* The journal is empty, and nothing is in progress.
LEMMA RoutingInvInit == RoutingInit => RoutingInv
<1> SUFFICES ASSUME RoutingInit PROVE RoutingInv
  OBVIOUS
<1>1. journal = <<>> /\ view = {} /\ op = Idle /\ packet = Nil /\ applied = 0 /\ crashes = 0
  BY DEF RoutingInit
<1>2. DOMAIN journal = {} /\ journal \in Seq(Row)
  BY <1>1
<1>3. Claims = {} /\ EdgeEvidence = {}
  BY <1>2 DEF Claims, EdgeEvidence, RowsOf
<1>4. op.at = "idle"
  BY <1>1 DEF Idle
<1>5. RoutingTypeOK
  <2>1. 0 \in 0..MaxApplied /\ 0 \in 0..MaxCrashes
    BY BoundAssumption
  <2> QED BY <1>1, <1>2, <1>3, <2>1 DEF RoutingTypeOK
<1>6. RoutedWhole /\ CorrectionInv /\ PacketInv
  BY <1>1, <1>2, <1>3 DEF RoutedWhole, CorrectionInv, PacketInv
<1> QED BY <1>4, <1>5, <1>6 DEF RoutingInv, RouteInv, AuditInv, EventInv

\* The invariant of Routing.
LEMMA RoutingInvCorrect == RoutingSpec => []RoutingInv
<1>1. RoutingInit => RoutingInv
  BY RoutingInvInit
<1>2. RoutingInv /\ [RoutingNext]_routingVars => RoutingInv'
  <2> SUFFICES ASSUME RoutingInv, [RoutingNext]_routingVars PROVE RoutingInv'
    OBVIOUS
  <2> QED BY RoutingTypeNext, RowsNext, RouteNext, AuditNext, EventNext, PacketNext DEF RoutingInv
<1> QED BY <1>1, <1>2, PTL DEF RoutingSpec

\* Every variable keeps its type, every id of a claim is recorded once.
THEOREM RoutingTypeCorrect == RoutingSpec => []RoutingTypeOK
<1>1. RoutingInv => RoutingTypeOK
  BY DEF RoutingInv
<1> QED BY <1>1, RoutingInvCorrect, PTL

\* A route that is audited is whole.
THEOREM RoutedWholeCorrect == RoutingSpec => []RoutedWhole
<1>1. RoutingInv => RoutedWhole
  BY DEF RoutingInv
<1> QED BY <1>1, RoutingInvCorrect, PTL

-----------------------------------------------------------------------------
(* What a packet shows                                                      *)

\* The operators that PacketFollowsCorrections has under LET.
Recorded == {journal[i] : i \in Claims}

Corrected(d) == \E c \in Recorded :
    /\ d.id \in Range(c.claims) /\ c.event \in {x.event : x \in {y \in Experiences : ~y.risky}}
    /\ \E r \in {journal[i] : i \in EdgeEvidence} : r.type = "supersede" /\ r.source = c.id /\ r.target = d.id

Backed(c) == c.kind # "assistant_derivation" \/ c.eligible \/ c.level \in Firm

Fits(lens, c) ==
    CASE lens = "logical" -> SlotKind(c.type) \in {"fact", "preference", "constraint"} /\ c.level \in Firm \cup {"durable_memory"}
      [] lens = "procedural" -> SlotKind(c.type) \in {"procedure", "schema"} \/ c.slot \in Failure
      [] OTHER -> TRUE

Peers(c, d) ==
    /\ c.slot = d.slot /\ SlotKind(c.type) = SlotKind(d.type) /\ c.kind = d.kind /\ c.level = d.level
    /\ c.confidence >= d.confidence /\ c.sources >= d.sources
    /\ Strength("support", c.id) >= Strength("support", d.id)

\* The id of a claim is never one of a memory.
LEMMA ClaimNoMemory ==
  ASSUME NEW c \in ClaimRow, NEW m
  PROVE  c.id # <<"memory", m>>
<1>1. PICK e \in 1..MaxEvents, p \in Proposed, kind \in DOMAIN Reliability : c = ClaimAs(e, p, kind)
  BY DEF ClaimRow
<1>2. c.id = ClaimId(e, p, kind)
  BY <1>1 DEF ClaimAs
<1>3. \A a, b, x, y : Len(<<a>>) = 1 /\ Len(<<a, b>>) = 2 /\ Len(<<a, b, x, y>>) = 4
  OBVIOUS
<1>4. Len(c.id) \in {1, 4}
  BY <1>2, <1>3 DEF ClaimId
<1>5. Len(<<"memory", m>>) = 2
  BY <1>3
<1> QED BY <1>4, <1>5

\* A claim is superseded if a safe one corrects it, and only then.
LEMMA SupersededFacts ==
  ASSUME RoutingInv, NEW d \in Recorded
  PROVE  Superseded(d.id) <=> Corrected(d)
<1>1. d \in ClaimRow /\ journal \in Seq(Row)
  BY ClaimsFacts DEF RoutingInv, RoutingTypeOK, Recorded
<1>2. ASSUME Corrected(d) PROVE Superseded(d.id)
  BY <1>2 DEF Corrected, Superseded
<1>3. ASSUME Superseded(d.id) PROVE Corrected(d)
  <2>1. PICK i \in EdgeEvidence : journal[i].type = "supersede" /\ journal[i].target = d.id
    BY <1>3 DEF Superseded
  <2>2. PICK j \in Claims : Supersedes(journal[j], journal[i]) /\ Safe(journal[j].event)
    BY <2>1 DEF RoutingInv, CorrectionInv
  <2>3. journal[i].source = journal[j].id /\ d.id \in Range(journal[j].claims)
    BY <1>1, <2>1, <2>2, ClaimNoMemory DEF Supersedes
  <2>4. journal[j].event \in {x.event : x \in {y \in Experiences : ~y.risky}}
    BY <2>2 DEF Safe
  <2>5. journal[j] \in Recorded
    BY DEF Recorded
  <2> QED BY <2>1, <2>3, <2>4, <2>5 DEF Corrected
<1> QED BY <1>2, <1>3

\* The status of a claim.
LEMMA StatusFacts ==
  ASSUME NEW c
  PROVE  /\ Status(c) \in {"suppressed", "rejected", "active", "provisional"}
         /\ Low(c) <=> Superseded(c.id) \/ ~Backed(c)
         /\ ~Low(c) => (Status(c) = "active" <=> c.level \in Firm \cup {"durable_memory"})
BY DEF Status, Low, Backed

\* Which claims a lens shows.
LEMMA ShownFacts ==
  ASSUME NEW lens \in Lens, NEW c
  PROVE  CandidateOf(c) \in Shown(lens, Built(Claims))
         <=> /\ CandidateOf(c) \in Built(Claims)
             /\ lens \in Normal => ~Superseded(c.id) /\ Backed(c) /\ Fits(lens, c)
<1> DEFINE x == CandidateOf(c)
<1>1. x.kind = SlotKind(c.type) /\ x.status = Status(c) /\ x.slot = c.slot
  BY DEF CandidateOf
<1> HIDE DEF x
<1>2. lens \notin Normal => Through(lens, x)
  BY DEF Normal, Lens, Through
<1>3. lens \in Normal => lens \in {"logical", "procedural", "associative"}
  BY DEF Normal, Lens
<1>4. ASSUME lens \in Normal
      PROVE  Through(lens, x) /\ x.status \notin {"suppressed", "rejected"}
             <=> ~Superseded(c.id) /\ Backed(c) /\ Fits(lens, c)
  <2>1. x.status \notin {"suppressed", "rejected"} <=> ~Superseded(c.id) /\ Backed(c)
    BY <1>1, StatusFacts DEF Low
  <2>2. ASSUME x.status \notin {"suppressed", "rejected"} PROVE Through(lens, x) <=> Fits(lens, c)
    <3>1. CASE lens = "logical"
      <4>1. x.status = "active" <=> c.level \in Firm \cup {"durable_memory"}
        BY <1>1, <2>2, StatusFacts DEF Low
      <4> QED BY <1>1, <3>1, <4>1 DEF Through, Fits
    <3>2. CASE lens = "procedural"
      BY <1>1, <3>2 DEF Through, Fits
    <3>3. CASE lens = "associative"
      BY <1>1, <2>2, <3>3 DEF Through, Fits
    <3> QED BY <1>3, <1>4, <3>1, <3>2, <3>3
  <2> QED BY <2>1, <2>2
<1>5. x \in Shown(lens, Built(Claims))
      <=> x \in Built(Claims) /\ Through(lens, x) /\ (lens \in Normal => x.status \notin {"suppressed", "rejected"})
  BY DEF Shown
<1>6. CASE lens \in Normal
  BY <1>4, <1>5, <1>6 DEF x
<1>7. CASE lens \notin Normal
  BY <1>2, <1>5, <1>7 DEF x
<1> QED BY <1>6, <1>7

\* A packet follows from the journal alone.
LEMMA PacketFollows ==
  ASSUME RoutingInv
  PROVE  PacketFollowsCorrections
<1>1. SUFFICES ASSUME packet # Nil
      PROVE  /\ \A c \in Recorded :
                    c.id \in packet.shown <=> (packet.lens \in Normal => ~Corrected(c) /\ Backed(c) /\ Fits(packet.lens, c))
             /\ \A c, d \in Recorded : Corrected(d) /\ ~Corrected(c) /\ Backed(c) /\ Peers(c, d) => d.id \notin packet.selected
  BY DEF PacketFollowsCorrections, Recorded, Corrected, Backed, Fits, Peers
<1>2. PICK lens \in Lens : packet = Packet(lens, Built(Claims))
  BY <1>1 DEF RoutingInv, PacketInv
<1> DEFINE shown == Shown(lens, Built(Claims))
<1>3. packet.lens = lens /\ packet.shown = {r.id : r \in shown} /\ packet.selected = {r.id : r \in Selected(shown)}
  BY <1>2 DEF Packet
<1>4. /\ \A r \in shown : \E c \in Recorded : r = CandidateOf(c)
      /\ \A c \in Recorded : CandidateOf(c) \in Built(Claims) /\ CandidateOf(c).id = c.id
  BY DEF Shown, Built, Recorded, CandidateOf
<1>5. \A c \in Recorded : CandidateOf(c) \in shown
                          <=> (lens \in Normal => ~Corrected(c) /\ Backed(c) /\ Fits(lens, c))
  BY <1>4, ShownFacts, SupersededFacts
<1> HIDE DEF shown
<1>6. ASSUME NEW c \in Recorded
      PROVE  c.id \in packet.shown <=> CandidateOf(c) \in shown
  <2>1. ASSUME c.id \in packet.shown PROVE CandidateOf(c) \in shown
    <3>1. PICK r \in shown : r.id = c.id
      BY <1>3, <2>1
    <3>2. PICK y \in Recorded : r = CandidateOf(y)
      BY <1>4, <3>1
    <3>3. y.id = c.id
      BY <1>4, <3>1, <3>2
    <3>4. y = c
      BY <3>3 DEF Recorded, RoutingInv, RoutingTypeOK
    <3> QED BY <3>1, <3>2, <3>4
  <2>2. ASSUME CandidateOf(c) \in shown PROVE c.id \in packet.shown
    BY <1>3, <1>4, <2>2
  <2> QED BY <2>1, <2>2
<1>7. ASSUME NEW c \in Recorded, NEW d \in Recorded, Corrected(d), ~Corrected(c), Backed(c), Peers(c, d),
             d.id \in packet.selected
      PROVE  FALSE
  <2>1. CandidateOf(d) \in Selected(shown)
    <3>1. PICK s \in Selected(shown) : s.id = d.id
      BY <1>3, <1>7
    <3>2. s \in shown
      BY DEF Selected
    <3>3. PICK y \in Recorded : s = CandidateOf(y)
      BY <1>4, <3>2
    <3>4. y.id = d.id
      BY <1>4, <3>1, <3>3
    <3>5. y = d
      BY <3>4 DEF Recorded, RoutingInv, RoutingTypeOK
    <3> QED BY <3>3, <3>5
  <2>2. CandidateOf(d) \in shown /\ \A r \in shown : ~Better(r, CandidateOf(d))
    BY <2>1 DEF Selected
  <2>3. lens \notin Normal
    BY <1>5, <1>7, <2>2
  <2>4. CandidateOf(c) \in shown
    BY <1>5, <1>7, <2>3
  <2>5. Score(c) > Score(d)
    <3>1. journal \in Seq(Row) /\ c \in ClaimRow /\ d \in ClaimRow
      BY ClaimsFacts DEF RoutingInv, RoutingTypeOK, Recorded
    <3>2. Superseded(d.id) /\ ~Superseded(c.id)
      BY <1>7, SupersededFacts
    <3>3. Low(d) /\ ~Low(c)
      BY <1>7, <3>2, StatusFacts
    <3>4. /\ c.kind = d.kind /\ c.level = d.level /\ c.confidence >= d.confidence /\ c.sources >= d.sources
          /\ Strength("support", c.id) >= Strength("support", d.id)
      BY <1>7 DEF Peers
    <3> QED BY <3>1, <3>2, <3>3, <3>4, ScoreFacts
  <2>6. Better(CandidateOf(c), CandidateOf(d))
    BY <1>7, <2>5 DEF Better, CandidateOf, Peers
  <2> QED BY <2>2, <2>4, <2>6
<1> QED BY <1>3, <1>5, <1>6, <1>7

\* What a packet shows of the observations without risk follows from the journal
\* alone, and no slot selects a claim that was corrected where another is as well
\* grounded.
THEOREM PacketFollowsCorrectionsCorrect == RoutingSpec => []PacketFollowsCorrections
<1>1. RoutingInv => PacketFollowsCorrections
  BY PacketFollows
<1> QED BY <1>1, RoutingInvCorrect, PTL
=============================================================================
