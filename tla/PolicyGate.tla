----------------------------- MODULE PolicyGate -----------------------------
(***************************************************************************)
(* What may enter the durable memories: the facade's commit() with its      *)
(* refusals, corrections and append-only suppressions, the coercion of a    *)
(* MemoryPolicyV2 into legacy policies, the validators, the core's          *)
(* execution with consolidation, and the lifecycle machine that inspects    *)
(* the result inside the transaction.  One call at a time and one namespace *)
(* (how executors interleave is the subject of GovernedTransaction).        *)
(*                                                                          *)
(* A proposal is the record                                                 *)
(*   intent     what a MemoryPolicyV2 intends, in capitals                  *)
(*   deltas     its proposed deltas: operation, target, kind of the value   *)
(*   selected   the first memory of its target selector                     *)
(*   structure  "none", "frames" (frame or associative deltas only) or      *)
(*              "logic" (graph or logic deltas too)                         *)
(*   claims     "none", "derived" (of the assistant) or "truth" (one of     *)
(*              them of the user or of a tool)                              *)
(*   evidence   the ids of its evidence chain                               *)
(*   blocked    its write gate names a risk or a conflict, or is at odds    *)
(*              with what it writes                                         *)
(* and a legacy policy the record                                           *)
(*   write, target, kind, evidence, forget, forgets, consolidate, blocked   *)
(* with forgets the target of the forget plan.                              *)
(***************************************************************************)
EXTENDS Naturals, SequencesExt, FiniteSets

CONSTANTS
    Memory,         \* ids of memories: stored, not yet, or of none
    Event,          \* ids of experience events
    None,           \* no target
    Proposal,       \* the V2 policies that commit() is called with
    LegacyPolicy,   \* the legacy policies that commit() is called with
    MaxUse          \* bound on the accesses counted per memory

Id == Memory \cup Event
Target == Memory \cup {None}
Kind == {"episodic", "lasting"}    \* lasting: semantic, preference, procedural
Suppressing == {"DECAY", "INHIBIT", "INVALIDATE", "ARCHIVE"}
Forgetting == Suppressing \cup {"DELETE_REQUEST"}

\* core/policy.py: what a MemoryPolicy may say.
Legacy ==
    [write : {"ADD", "UPDATE", "LINK", "NOOP"}, target : Target, kind : Kind,
     evidence : Seq(Id), forget : Forgetting \cup {"NOOP"}, forgets : Target,
     consolidate : BOOLEAN, blocked : BOOLEAN]

\* policy_v2.py: what a MemoryPolicyV2 may say; one that is to change
\* something has evidence or structural deltas.
Intent == {"RETRIEVE", "ADD", "UPDATE", "LINK", "SUPPRESS", "SUPERSEDE", "CONSOLIDATE",
           "DELETE_REQUEST", "NOOP"}
DeltaOperation == {"ADD", "UPDATE", "LINK", "SUPPRESS", "DELETE", "NOOP"} \cup Forgetting
Delta == [op : DeltaOperation, target : Target, kind : Kind]
WellFormed(p) ==
    /\ p \in [intent : Intent, deltas : Seq(Delta), selected : Target,
              structure : {"none", "frames", "logic"}, claims : {"none", "derived", "truth"},
              evidence : Seq(Id), blocked : BOOLEAN]
    /\ p.intent \in {"RETRIEVE", "NOOP"} \/ p.evidence # <<>> \/ p.structure # "none"

ASSUME IdAssumption == Memory \cap Event = {} /\ None \notin Id
ASSUME UseAssumption == MaxUse \in Nat
ASSUME ProposalAssumption == \A p \in Proposal : WellFormed(p)
ASSUME LegacyAssumption == LegacyPolicy \subseteq Legacy

VARIABLES
    experience,     \* experience events in the ledger
    store,          \* the stored memories: kind, maturity, accesses, evidence ids
    suppressed,     \* ids with suppression evidence in the ledger
    answer          \* what the last call returned, and how many memories
                    \* its ADD deltas asked for (history)

vars == <<experience, store, suppressed, answer>>

Stored == DOMAIN store

Init ==
    /\ experience = {}
    /\ store = [m \in {} |-> None]
    /\ suppressed = {}
    /\ answer = [outcome |-> "none", asked |-> 0]

-----------------------------------------------------------------------------
(* The lifecycle machine and what consolidation does to a memory            *)

AllowedTransitions ==
    [fresh        |-> {"tagged", "captured", "inhibited", "obsolete", "archived"},
     observed     |-> {"provisional", "captured", "inhibited", "obsolete", "archived"},
     tagged       |-> {"captured", "inhibited", "obsolete", "archived"},
     provisional  |-> {"captured", "inhibited", "obsolete", "archived"},
     captured     |-> {"linked", "reinforced", "mature", "inhibited", "obsolete", "compressed", "archived"},
     linked       |-> {"reinforced", "consolidated", "mature", "inhibited", "obsolete", "compressed", "archived"},
     reinforced   |-> {"consolidated", "mature", "core", "inhibited", "obsolete", "compressed", "archived"},
     consolidated |-> {"mature", "core", "inhibited", "obsolete", "compressed", "archived"},
     mature       |-> {"core", "inhibited", "obsolete", "compressed", "archived"},
     core         |-> {"inhibited", "obsolete", "compressed", "archived"},
     inhibited    |-> {"captured", "linked", "obsolete", "archived", "deleted"},
     obsolete     |-> {"archived", "deleted"},
     compressed   |-> {"archived", "deleted"},
     archived     |-> {"deleted"},
     deleted      |-> {}]

Maturity == DOMAIN AllowedTransitions

ValidTransition(from, to) == to \in AllowedTransitions[from] \/ from = to

\* Where a promotion takes a memory.
Promoted(maturity) ==
    CASE maturity \in {"fresh", "captured"} -> "linked"
      [] maturity = "tagged" -> "captured"
      [] maturity = "linked" -> "reinforced"
      [] maturity = "reinforced" -> "mature"
      [] maturity = "mature" -> "core"
      [] OTHER -> maturity

\* Episodes that were retrieved are promoted, often used ones made procedural.
\* Without keywords no two memories are replayed together, and none counts a
\* consolidation. (The sentence that promote() adds to the evidence is no id.)
Consolidated(memories) ==
    [m \in DOMAIN memories |->
        IF memories[m].kind = "episodic" /\ memories[m].used >= 1
        THEN [memories[m] EXCEPT !.maturity = Promoted(@),
                                 !.kind = IF memories[m].used >= 3 THEN "lasting" ELSE @]
        ELSE memories[m]]

-----------------------------------------------------------------------------
(* The coercion of a proposal                                               *)

Structural(p) == p.structure # "none"

\* A proposal without deltas speaks by its intent and its selector.
Said(p) ==
    IF p.deltas = <<>> THEN <<[op |-> p.intent, target |-> p.selected, kind |-> "episodic"]>>
    ELSE p.deltas

Operation(p, d) ==
    IF p.intent = "DELETE_REQUEST" THEN "DELETE_REQUEST"
    ELSE IF p.intent = "SUPPRESS" \/ d.op = "SUPPRESS" THEN "INHIBIT"
    ELSE d.op

WriteOperation(p, said) ==
    IF "ADD" \in {said, p.intent} THEN "ADD"
    ELSE IF said = "UPDATE" \/ p.intent \in {"UPDATE", "SUPERSEDE"} THEN "UPDATE"
    ELSE IF "LINK" \in {said, p.intent} THEN "LINK"
    ELSE "NOOP"

Coerced(p, d) ==
    LET said == Operation(p, d)
        forget == said \in Forgetting
    IN  [write |-> IF forget THEN "NOOP" ELSE WriteOperation(p, said),
         target |-> IF forget THEN None ELSE d.target,
         kind |-> d.kind,
         evidence |-> IF forget THEN <<>> ELSE p.evidence,
         forget |-> IF forget THEN said ELSE "NOOP",
         forgets |-> IF forget THEN d.target ELSE None,
         consolidate |-> ~forget /\ p.intent = "CONSOLIDATE",
         blocked |-> p.blocked]

\* Structural deltas alone: nothing is written through the core.
Nothing(p) ==
    [write |-> "NOOP", target |-> None, kind |-> "episodic", evidence |-> <<>>,
     forget |-> "NOOP", forgets |-> None, consolidate |-> FALSE, blocked |-> p.blocked]

First(p) ==
    IF Structural(p) /\ p.deltas = <<>> THEN Nothing(p) ELSE Coerced(p, Said(p)[1])

MultiAdd(p) ==
    /\ Len(p.deltas) > 1
    /\ p.intent = "ADD"
    /\ \A d \in ToSet(p.deltas) : d.op = "ADD" /\ d.target = None

\* (variant) A proposal is always coerced by its first delta.
WritesOfFirst(p) == <<First(p)>>

Writes(p) ==
    IF MultiAdd(p) THEN [i \in DOMAIN p.deltas |-> Coerced(p, p.deltas[i])] ELSE <<First(p)>>

Unsupported(p) ==
    \/ p.intent = "SUPERSEDE" /\ p.structure # "logic"
    \/ /\ Len(p.deltas) > 1
       /\ ~MultiAdd(p)
       /\ ~\E o \in {"LINK", "UPDATE"} : \A d \in ToSet(p.deltas) : d.op = o
       /\ ~Structural(p)

Destructive(p) ==
    \/ First(p).write = "UPDATE" \/ First(p).forget = "DELETE_REQUEST"
    \/ p.intent \in {"UPDATE", "DELETE_REQUEST"}
    \/ \E d \in ToSet(p.deltas) : d.op \in {"UPDATE", "DELETE", "DELETE_REQUEST"}

DurableMutation(p) ==
    \/ p.intent \notin {"RETRIEVE", "NOOP"}
    \/ \E d \in ToSet(p.deltas) : d.op \notin {"DELETE", "NOOP"}
    \/ Structural(p)

\* durable_truth_claim_rejection_reason(), which no legacy policy is asked for.
Sourced(p) == DurableMutation(p) => p.claims = "truth"

-----------------------------------------------------------------------------
(* The validators, of a legacy policy                                       *)

Writing(l) == l.write \in {"ADD", "UPDATE", "LINK"}

Schema(l) == l.write # "UPDATE" /\ l.forget # "DELETE_REQUEST"
Evidence(l) == Writing(l) => l.evidence # <<>>
\* (variant) The target must be known, the evidence need not be.
ProvenanceOfTarget(l) == Writing(l) => l.target \in Stored \cup {None}

Provenance(l) == Writing(l) => ToSet(l.evidence) \subseteq experience \cup Stored
Scope(l) == {l.target, l.forgets} \subseteq Stored \cup {None}

Valid(l) == Schema(l) /\ Evidence(l) /\ Provenance(l) /\ Scope(l) /\ ~l.blocked

-----------------------------------------------------------------------------
(* The execution of validated policies                                      *)

Adds(writes) == {i \in DOMAIN writes : writes[i].write = "ADD"}

\* The core's observe() keeps the first evidence id of a new memory.
Created(l) ==
    [kind |-> l.kind, maturity |-> "fresh", used |-> 0, evidence |-> {l.evidence[1]}]

Linked(writes, m) ==
    UNION {ToSet(writes[i].evidence) :
            i \in {j \in DOMAIN writes : writes[j].write = "LINK" /\ writes[j].target = m}}

\* (variant) A link replaces the evidence of its target.
WrittenOver(writes, id) ==
    [m \in Stored \cup Range(id) |->
        IF m \notin Stored THEN Created(writes[CHOOSE i \in DOMAIN id : id[i] = m])
        ELSE IF Linked(writes, m) = {} THEN store[m]
        ELSE [store[m] EXCEPT !.evidence = Linked(writes, m)]]

\* What the store holds after the policies; id names the memories they add.
Written(writes, id) ==
    [m \in Stored \cup Range(id) |->
        IF m \in Stored
        THEN [store[m] EXCEPT !.evidence = @ \cup Linked(writes, m)]
        ELSE Created(writes[CHOOSE i \in DOMAIN id : id[i] = m])]

After(writes, id) ==
    IF \E i \in DOMAIN writes : writes[i].consolidate
    THEN Consolidated(Written(writes, id))
    ELSE Written(writes, id)

FreshIds(writes) == Injection(Adds(writes), Memory \ Stored)

\* (variant) Only the state of new memories is looked at.
LifecycleOfNew(after) == \A m \in DOMAIN after \ Stored : after[m].maturity = "fresh"

\* _lifecycle_deltas() raises at a change that the machine does not allow.
LifecycleHolds(after) ==
    \A m \in Stored : ValidTransition(store[m].maturity, after[m].maturity)

Answer(outcome) == answer' = [outcome |-> outcome, asked |-> 0]
Keep(outcome) == Answer(outcome) /\ UNCHANGED <<experience, store, suppressed>>

\* _record_rejection(): a policy the executor or a validator refuses.
Reject(writes, unsupported) ==
    /\ unsupported \/ \E i \in DOMAIN writes : ~Valid(writes[i])
    /\ Keep("rejected")

\* Everything is written and checked in one transaction. Frames and edges may
\* turn out invalid; then the lifecycle may forbid a change, which raises;
\* then an index may miss a memory whose record has changed.
Execute(writes, unsupported, structural, asked) ==
    /\ ~unsupported /\ \A i \in DOMAIN writes : Valid(writes[i])
    /\ \E id \in FreshIds(writes) :
        LET after == After(writes, id) IN
        \/ structural /\ Keep("rolled back")
        \/ ~LifecycleHolds(after) /\ Keep("raised")
        \/ LifecycleHolds(after) /\ after # store /\ Keep("rolled back")
        \/ /\ LifecycleHolds(after)
           /\ store' = after
           /\ answer' = [outcome |-> "committed", asked |-> asked]
           /\ UNCHANGED <<experience, suppressed>>

\* _append_only_suppression_from_policy(); a decay weakens without hiding.
Suppress(l) ==
    /\ l.forget \in Suppressing
    /\ \/ l.forgets \notin Stored /\ Keep("rejected")
       \/ /\ l.forgets \in Stored
          /\ suppressed' = IF l.forget = "DECAY" THEN suppressed ELSE suppressed \cup {l.forgets}
          /\ Answer("suppressed")
          /\ UNCHANGED <<experience, store>>

-----------------------------------------------------------------------------
(* The operations                                                           *)

Observe(e) ==
    /\ e \notin experience
    /\ experience' = experience \cup {e}
    /\ Answer("observed")
    /\ UNCHANGED <<store, suppressed>>

\* What observe_and_commit() hands to the executor for an event it recorded.
EventPolicy(e, k) ==
    [write |-> "ADD", target |-> None, kind |-> k, evidence |-> <<e>>, forget |-> "NOOP",
     forgets |-> None, consolidate |-> FALSE, blocked |-> FALSE]

ObserveAndCommit(e) ==
    /\ e \in experience
    /\ \E k \in Kind : Execute(<<EventPolicy(e, k)>>, FALSE, FALSE, 1)

\* A retrieval counts the accesses of what it returns.
Retrieve(hits) ==
    /\ hits \subseteq Stored
    /\ store' = [m \in Stored |->
                    IF m \in hits /\ store[m].used < MaxUse
                    THEN [store[m] EXCEPT !.used = @ + 1]
                    ELSE store[m]]
    /\ Answer("retrieved")
    /\ UNCHANGED <<experience, suppressed>>

\* _event_id_from_policy(): the first evidence id, or an id that a claim names.
Sources(p) == IF p.evidence = <<>> THEN Id ELSE {p.evidence[1]}

\* _append_only_correction_from_policy(): the claims of a destructive policy
\* are routed in its place, with suppression evidence against every id that
\* they target, whether a memory has it or not.
Correct(p) ==
    /\ p.claims # "none" /\ Sourced(p)
    /\ experience \cap Sources(p) # {}
    /\ \E hits \in SUBSET Memory : suppressed' = suppressed \cup hits
    /\ Answer("corrected")
    /\ UNCHANGED <<experience, store>>

\* A destructive policy that is not corrected, and one without a source.
Refuse(p) ==
    /\ \/ Destructive(p)
             /\ \/ p.claims = "none" \/ ~Sourced(p)
                \/ ~(Sources(p) \subseteq experience)
       \/ ~Destructive(p) /\ ~Sourced(p)
    /\ Keep("rejected")

\* The memories the deltas of p ask for. Structural deltas beside them switch
\* the refusal of several deltas off: those calls promise nothing here.
Asked(p) ==
    IF Structural(p) THEN 0 ELSE Cardinality({i \in DOMAIN p.deltas : p.deltas[i].op = "ADD"})

CommitProposal(p) ==
    \/ Refuse(p)
    \/ Destructive(p) /\ Correct(p)
    \/ /\ ~Destructive(p) /\ Sourced(p)
       /\ \/ Suppress(First(p))
          \/ /\ First(p).forget \notin Suppressing
             /\ \/ Reject(Writes(p), Unsupported(p))
                \/ Execute(Writes(p), Unsupported(p), Structural(p), Asked(p))

CommitLegacy(l) ==
    \/ ~Schema(l) /\ Keep("rejected")
    \/ Schema(l) /\ Suppress(l)
    \/ /\ Schema(l) /\ l.forget = "NOOP"
       /\ \/ Reject(<<l>>, FALSE)
          \/ Execute(<<l>>, FALSE, FALSE, Cardinality(Adds(<<l>>)))

Next ==
    \/ \E e \in Event : Observe(e) \/ ObserveAndCommit(e)
    \/ \E hits \in SUBSET Stored : Retrieve(hits)
    \/ \E p \in Proposal : CommitProposal(p)
    \/ \E l \in LegacyPolicy : CommitLegacy(l)

Spec == Init /\ [][Next]_vars

-----------------------------------------------------------------------------
(* Properties                                                               *)

Record ==
    [kind : Kind, maturity : Maturity, used : 0..MaxUse, evidence : (SUBSET Id) \ {{}}]
Outcome == {"none", "observed", "retrieved", "rejected", "rolled back", "raised", "suppressed",
            "corrected", "committed"}

\* Every variable has its type, and what supports a stored memory is an
\* experience or itself stored: the ids that ProvenanceValidator has accepted
\* never dangle. (An id that is suppressed may name no memory.)
TypeOK ==
    /\ experience \subseteq Event
    /\ Stored \subseteq Memory
    /\ store \in [Stored -> Record]
    /\ suppressed \subseteq Memory
    /\ answer \in [outcome : Outcome, asked : Nat]
    /\ \A m \in Stored : store[m].evidence \subseteq experience \cup Stored

\* Provenance is grounded: no memories support only each other, so every
\* stored memory rests, through whatever chain of memories was cited for it
\* when it was added or linked, on an observed experience.
EvidenceGrounded ==
    \A S \in SUBSET Stored : (\A m \in S : store[m].evidence \subseteq S) => S = {}

\* The memories are append-only: whatever sequence of policies, corrections,
\* suppressions, retrievals and consolidations comes, a stored memory stays,
\* keeps its kind and its lifecycle state, and loses no evidence.
RecordsKept ==
    [][\A m \in Stored :
        /\ m \in Stored'
        /\ store'[m].kind = store[m].kind
        /\ store'[m].maturity = store[m].maturity
        /\ store[m].evidence \subseteq store'[m].evidence]_vars

\* A call that asks to add memories and is answered as committed has added all
\* of them, each as a record of its own: no ADD delta is silently dropped.
AddsWhole ==
    [][answer'.outcome = "committed" /\ answer'.asked > 0
        => Cardinality(Stored' \ Stored) = answer'.asked]_vars
=============================================================================
