------------------------------- MODULE Routing -------------------------------
(***************************************************************************)
(* What becomes of an observation: its claims are extracted and recorded,    *)
(* its impact is assessed, and by the decision the claims are routed, with   *)
(* the evidence of what they correct, or the observation is quarantined;     *)
(* claims may be applied to it later; resolve_worldview() shows the claims   *)
(* through a lens.                                                           *)
(*                                                                           *)
(* Nil of these operations gives up the event loop, so one is in progress   *)
(* at a time, and each of its rows is a commit of its own: it may end in     *)
(* between, in an exception or with the process. The rows of all tables are  *)
(* in one journal, in the order of their commits; hash-chained audit rows    *)
(* are in it only where they say that a route is done. Confidence is in      *)
(* percent, scores are in ten thousandths, rounded down. Worldview has       *)
(* rebuilds that interleave, and memories and frames.                        *)
(***************************************************************************)
EXTENDS Subsequences, Functions

CONSTANTS
    Proposed,    \* claims that may be proposed
    Input,       \* observations: what they propose, their source, their risk
    Batch,       \* sequences of proposals that may be applied to an event later
    Failure,     \* slot keys that name a failure
    MaxEvents,   \* bound on the observations
    MaxApplied,  \* bound on apply_grounded_claims()
    MaxCrashes,  \* bound on the operations that do not end
    Nil          \* no id, kind, slot, statement or packet

VARIABLES
    journal,  \* the rows
    view,     \* the candidates of claims as last rebuilt
    op,       \* the operation in progress
    packet,   \* the packet that the last step answered
    applied,  \* number of apply_grounded_claims() so far
    crashes   \* number of operations that did not end

routingVars == <<journal, view, op, packet, applied, crashes>>

Idle == [at |-> "idle"]

RoutingInit ==
    /\ journal = <<>>
    /\ view = {}
    /\ op = Idle
    /\ packet = Nil
    /\ applied = 0
    /\ crashes = 0

\* Rows are named by their positions.
RowsOf(table) == {i \in DOMAIN journal : journal[i].table = table}

Experiences == {journal[i] : i \in RowsOf("experience")}
ExperienceOf(e) == CHOOSE x \in Experiences : x.event = e

\* grounded_claims(): in the order in which they were made.
Claims == RowsOf("claim")
ClaimsOf(e) == {i \in Claims : journal[i].event = e}

-----------------------------------------------------------------------------
(* Claims                                                                   *)

KindOfSource(source) ==
    CASE source = "tool" -> "tool_fact"
      [] source = "assistant" -> "assistant_derivation"
      [] OTHER -> "observed_user_fact"

\* A claim's own id, or one that its event, slot, statement and kind make.
ClaimId(e, p, kind) == IF p.id # Nil THEN <<p.id>> ELSE <<e, p.slot, p.statement, kind>>

\* from_mapping(): a proposal without a statement or a slot is dropped.
Complete(p) == p.statement # Nil /\ p.slot # Nil

ClaimAs(e, p, kind) ==
    [table |-> "claim", event |-> e, id |-> ClaimId(e, p, kind), slot |-> p.slot, statement |-> p.statement,
     type |-> p.type, kind |-> kind, level |-> p.level, memories |-> p.memories, claims |-> p.claims,
     correction |-> p.correction, eligible |-> p.eligible, confidence |-> p.confidence, sources |-> p.sources]

Claim(e, p) == ClaimAs(e, p, IF p.kind = Nil THEN KindOfSource(ExperienceOf(e).source) ELSE p.kind)

Grounded(e, proposals) ==
    LET kept == At(proposals, {i \in DOMAIN proposals : Complete(proposals[i])})
    IN [i \in DOMAIN kept |-> Claim(e, kept[i])]

\* _dedupe_claims()
Same(c, d) == c.slot = d.slot /\ c.statement = d.statement /\ c.kind = d.kind
Deduped(claims) == At(claims, {i \in DOMAIN claims : \A j \in 1..(i - 1) : ~Same(claims[j], claims[i])})

\* (variant) the INSERT does not ignore an id that is there.
InsertedAgain(claims) == claims

\* INSERT OR IGNORE of each, in one commit.
Inserted(claims) ==
    At(claims, {i \in DOMAIN claims : /\ \A j \in 1..(i - 1) : claims[j].id # claims[i].id
                                      /\ \A j \in Claims : journal[j].id # claims[i].id})

-----------------------------------------------------------------------------
(* Impact                                                                   *)

Corrects(c) == c.correction \/ c.memories # <<>> \/ c.claims # <<>>

\* (variant) a correction is routed whatever its risk.
DecisionByTarget(risky, claims) ==
    IF \E c \in claims : Corrects(c) THEN "append_supersession"
    ELSE IF risky THEN "quarantine"
    ELSE IF claims = {} THEN "ledger_only"
    ELSE IF \A c \in claims : c.kind = "assistant_derivation" THEN "append_derivation"
    ELSE "propose_candidate"

\* assess(): the other decisions of ImpactDecision are never made.
Decision(risky, claims) ==
    IF risky THEN "quarantine"
    ELSE IF claims = {} THEN "ledger_only"
    ELSE IF \E c \in claims : Corrects(c) THEN "append_supersession"
    ELSE IF \A c \in claims : c.kind = "assistant_derivation" THEN "append_derivation"
    ELSE "propose_candidate"

Routed == {"append_supersession", "append_derivation", "propose_candidate"}

\* _assess_experience(), of all claims of the event.
Impact(e) ==
    [table |-> "impact", event |-> e,
     decision |-> Decision(ExperienceOf(e).risky, {journal[i] : i \in ClaimsOf(e)})]

\* get_impact_assessment()
AssessedOf(e) == {i \in RowsOf("impact") : journal[i].event = e}

-----------------------------------------------------------------------------
(* Routes                                                                   *)

Candidate(c, decision) == [table |-> "candidate", claim |-> c.id, type |-> decision]

\* The evidence of claim c, with the size of its weight times its confidence.
Weight == [support |-> 36, contradict |-> 62, supersede |-> 74, inhibit |-> 66]
Edge(type, c, source, target) ==
    [table |-> "edge", type |-> type, source |-> source, target |-> target, strength |-> Weight[type] * c.confidence]

\* Three rows for each memory that it corrects.
Against == <<"contradict", "supersede", "inhibit">>
OfMemories(c) ==
    [k \in 1..(3 * Len(c.memories)) |->
        Edge(Against[((k - 1) % 3) + 1], c, c.id, <<"memory", c.memories[((k - 1) \div 3) + 1]>>)]

\* One for each claim.
OfCandidates(c) == [k \in DOMAIN c.claims |-> Edge("supersede", c, c.id, c.claims[k])]

\* The rows of one claim, in their order.
RowsOfClaim(c, decision) ==
    <<Candidate(c, decision), Edge("support", c, <<c.event>>, c.id)>> \o OfMemories(c) \o OfCandidates(c)

\* (variant) the claims just given, not all of the event.
RouteGiven(e, given) == {i \in ClaimsOf(e) : \E k \in DOMAIN given : given[k].id = journal[i].id}

\* _route_grounded_claims(): all claims of the event, those of earlier calls too.
Route(e, given) == ClaimsOf(e)

-----------------------------------------------------------------------------
(* The view and its lenses                                                  *)

\* edge_evidence_events()
EdgeEvidence == RowsOf("edge")

Superseded(id) == \E i \in EdgeEvidence : journal[i].type = "supersede" /\ journal[i].target = id

Firm == {"validated_logic", "compiled_schema"}

\* _candidate_status_for_claim()
Status(c) ==
    IF Superseded(c.id) THEN "suppressed"
    ELSE IF c.kind = "assistant_derivation" /\ ~c.eligible /\ c.level \notin Firm THEN "rejected"
    ELSE IF c.level \in Firm \cup {"durable_memory"} THEN "active" ELSE "provisional"

SlotKind(type) ==
    IF type \in {"fact", "preference", "constraint", "procedure", "schema", "hypothesis", "suppression"} THEN type
    ELSE IF type \in {"procedural", "rule"} THEN "procedure"
    ELSE IF type \in {"claim", "episode", "episodic", "entity"} THEN "fact" ELSE "hypothesis"

\* _event_index(): a route that is repeated counts again.
StrengthIn(rows, type, id) ==
    LET part(r) == IF r.table = "edge" /\ r.type = type /\ r.target = id THEN r.strength ELSE 0
        sum[i \in 0..Len(rows)] == IF i = 0 THEN 0 ELSE sum[i - 1] + part(rows[i])
    IN sum[Len(rows)]
Strength(type, id) == StrengthIn(journal, type, id)

Reliability == [observed_user_fact |-> 82, tool_fact |-> 90, llm_canonicalization |-> 68, assistant_derivation |-> 42]
Standing == [raw_experience |-> 4, candidate_frame |-> 8, durable_memory |-> 20, validated_logic |-> 30, compiled_schema |-> 34]

Whole == 10000
Capped(x) == IF x > Whole THEN Whole ELSE IF x < 0 THEN 0 ELSE x

\* _score_components_for_claim(), _candidate_score(); nothing contradicts, inhibits
\* or reinforces a claim.
Score(c) ==
    LET low == Status(c) \in {"suppressed", "rejected"}
        for == 24 * Capped((c.confidence * Reliability[c.kind] * 62) \div 100 + Strength("support", c.id))
               + 18 * Capped(1800 * c.sources) + 14 * (IF low THEN 2000 ELSE 8500)
               + 16 * 100 * Standing[c.level] + 14 * (IF c.kind = "observed_user_fact" THEN 1800 ELSE 0)
        against == 22 * (IF low THEN 6500 ELSE 0) + 24 * Capped(Strength("supersede", c.id))
    IN Capped((for - against) \div 100)

\* _materialize_claim_candidates(), of some claims.
CandidateOf(c) ==
    [id |-> c.id, slot |-> c.slot, kind |-> SlotKind(c.type), status |-> Status(c), score |-> Score(c),
     confidence |-> c.confidence]
Built(claims) == {CandidateOf(journal[i]) : i \in claims}

Lens == {"associative", "logical", "procedural", "historical", "audit"}
Normal == Lens \ {"historical", "audit"}

\* _apply_lens()
Through(lens, r) ==
    CASE lens = "logical" -> r.kind \in {"fact", "preference", "constraint"} /\ r.status = "active"
      [] lens = "procedural" -> r.kind \in {"procedure", "schema"} \/ r.slot \in Failure
      [] lens = "associative" -> r.status # "rejected"
      [] OTHER -> TRUE

\* resolve(); a slot's sixth candidate and the 25th slot are beyond the model.
Shown(lens, rows) ==
    {x \in rows : Through(lens, x) /\ (lens \in Normal => x.status \notin {"suppressed", "rejected"})}

\* The candidates that a slot may select: those of the best score and confidence.
Better(r, s) ==
    /\ r.slot = s.slot /\ r.kind = s.kind
    /\ r.score > s.score \/ (r.score = s.score /\ r.confidence > s.confidence)
Selected(shown) == {s \in shown : \A r \in shown : ~Better(r, s)}

Packet(lens, rows) ==
    [lens |-> lens, shown |-> {r.id : r \in Shown(lens, rows)}, selected |-> {r.id : r \in Selected(Shown(lens, rows))}]

-----------------------------------------------------------------------------
(* What may be proposed                                                     *)

ASSUME BoundAssumption == {MaxEvents, MaxApplied, MaxCrashes} \subseteq Nat
ASSUME ProposedAssumption ==
    \A p \in Proposed :
        /\ p.kind \in DOMAIN Reliability \cup {Nil} /\ p.level \in DOMAIN Standing
        /\ p.memories \in Seq(Range(p.memories)) /\ p.claims \in Seq(Range(p.claims))
        /\ p.confidence \in 0..100 /\ p.sources \in Nat
ASSUME InputAssumption == \A input \in Input : input.proposals \in Seq(Proposed) /\ input.risky \in BOOLEAN
ASSUME BatchAssumption == Batch \subseteq Seq(Proposed)

-----------------------------------------------------------------------------
(* Operations                                                               *)

Commit(rows) == journal' = journal \o rows

\* observe(), by itself or for observe_and_route().
ObserveInput(input, routes) ==
    /\ op.at = "idle"
    /\ Cardinality(RowsOf("experience")) < MaxEvents
    /\ LET e == Cardinality(RowsOf("experience")) + 1
       IN  /\ Commit(<<[table |-> "experience", event |-> e, source |-> input.source, risky |-> input.risky]>>)
           /\ op' = [at |-> "extract", event |-> e, given |-> input.proposals, routes |-> routes, audits |-> routes]
    /\ packet' = Nil
    /\ UNCHANGED <<view, applied, crashes>>

\* GroundedClaimExtractor.extract()
Extract ==
    /\ op.at = "extract"
    /\ LET claims == Deduped(Grounded(op.event, op.given))
       IN  op' = [op EXCEPT !.at = IF claims = <<>> THEN "assess" ELSE "record", !.given = claims]
    /\ packet' = Nil
    /\ UNCHANGED <<journal, view, applied, crashes>>

\* apply_grounded_claims(): it returns when no proposal is complete.
Apply(e, proposals) ==
    /\ op.at = "idle"
    /\ applied < MaxApplied
    /\ applied' = applied + 1
    /\ \E x \in Experiences : x.event = e
    /\ Grounded(e, proposals) # <<>>
    /\ op' = [at |-> "record", event |-> e, given |-> Grounded(e, proposals), routes |-> TRUE, audits |-> FALSE]
    /\ packet' = Nil
    /\ UNCHANGED <<journal, view, crashes>>

RecordClaims ==
    /\ op.at = "record"
    /\ Commit(Inserted(op.given))
    /\ op' = [op EXCEPT !.at = "assess"]
    /\ packet' = Nil
    /\ UNCHANGED <<view, applied, crashes>>

\* Assessment and dispatch.
Assess ==
    /\ op.at = "assess"
    /\ LET impact == Impact(op.event)
       IN  /\ Commit(<<impact>>)
           /\ op' = IF op.routes /\ impact.decision \in Routed
                    THEN [at |-> "route", event |-> op.event, decision |-> impact.decision,
                          todo |-> Route(op.event, op.given), row |-> 1]
                    ELSE IF op.audits /\ impact.decision = "quarantine"
                    THEN [at |-> "audit", event |-> op.event, decision |-> "quarantine"]
                    ELSE Idle
    /\ packet' = Nil
    /\ UNCHANGED <<view, applied, crashes>>

\* The next row of the first claim that is left.
RouteRow ==
    /\ op.at = "route"
    /\ op.todo # {}
    /\ LET claim == Min(op.todo)
           rows == RowsOfClaim(journal[claim], op.decision)
       IN  /\ Commit(<<rows[op.row]>>)
           /\ op' = IF op.row < Len(rows) THEN [op EXCEPT !.row = @ + 1]
                    ELSE [op EXCEPT !.todo = @ \ {claim}, !.row = 1]
    /\ packet' = Nil
    /\ UNCHANGED <<view, applied, crashes>>

\* _materialize_worldview_sync()
Rebuild ==
    /\ op.at = "route"
    /\ op.todo = {}
    /\ view' = Built(Claims)
    /\ op' = [at |-> "audit", event |-> op.event, decision |-> op.decision]
    /\ packet' = Nil
    /\ UNCHANGED <<journal, applied, crashes>>

\* _append_route_audit()
Audit ==
    /\ op.at = "audit"
    /\ Commit(<<[table |-> "route", event |-> op.event, decision |-> op.decision]>>)
    /\ op' = Idle
    /\ packet' = Nil
    /\ UNCHANGED <<view, applied, crashes>>

\* assess_impact(): an assessment that is there is returned.
AssessImpact(e) ==
    /\ op.at = "idle"
    /\ \E x \in Experiences : x.event = e
    /\ AssessedOf(e) = {}
    /\ Commit(<<Impact(e)>>)
    /\ packet' = Nil
    /\ UNCHANGED <<view, op, applied, crashes>>

\* resolve_worldview(): it rebuilds and reads.
Resolve(lens) ==
    /\ op.at = "idle"
    /\ view' = Built(Claims)
    /\ packet' = Packet(lens, Built(Claims))
    /\ UNCHANGED <<journal, op, applied, crashes>>

\* The operation raises, or the process ends; a rebuild may have written a part.
Crash ==
    /\ op.at # "idle"
    /\ crashes < MaxCrashes
    /\ crashes' = crashes + 1
    /\ op' = Idle
    /\ view' \in {view} \cup IF op.at = "route" /\ op.todo = {} THEN {Built({i \in Claims : i <= n}) : n \in DOMAIN journal} ELSE {}
    /\ packet' = Nil
    /\ UNCHANGED <<journal, applied>>

RoutingNext ==
    \/ \E input \in Input, routes \in BOOLEAN : ObserveInput(input, routes)
    \/ \E e \in 1..MaxEvents : AssessImpact(e) \/ \E proposals \in Batch : Apply(e, proposals)
    \/ Extract \/ RecordClaims \/ Assess \/ RouteRow \/ Rebuild \/ Audit
    \/ \E lens \in Lens : Resolve(lens)
    \/ Crash

RoutingSpec == RoutingInit /\ [][RoutingNext]_routingVars

-----------------------------------------------------------------------------
(* Properties                                                               *)

ClaimRow == {ClaimAs(e, p, kind) : e \in 1..MaxEvents, p \in Proposed, kind \in DOMAIN Reliability}
ClaimIds == {c.id : c \in ClaimRow}
NamedMemories == UNION {Range(p.memories) : p \in Proposed}
NamedClaims == UNION {Range(p.claims) : p \in Proposed}
Ids == ClaimIds \cup {<<e>> : e \in 1..MaxEvents} \cup NamedClaims \cup {<<"memory", m>> : m \in NamedMemories}

Row ==
    ClaimRow
    \cup [table : {"experience"}, event : 1..MaxEvents, source : {input.source : input \in Input}, risky : BOOLEAN]
    \cup [table : {"impact"}, event : 1..MaxEvents, decision : Routed \cup {"quarantine", "ledger_only"}]
    \cup [table : {"candidate"}, claim : ClaimIds, type : Routed]
    \cup [table : {"edge"}, type : DOMAIN Weight, source : Ids, target : Ids, strength : Nat]
    \cup [table : {"route"}, event : 1..MaxEvents, decision : Routed \cup {"quarantine"}]

\* Every variable has its type; a claim id is recorded once.
RoutingTypeOK ==
    /\ journal \in Seq(Row)
    /\ \A i, j \in Claims : journal[i].id = journal[j].id => i = j
    /\ \A r \in view : r.score \in 0..Whole /\ r.status \in {"suppressed", "rejected", "active", "provisional"}
    /\ op \in {Idle}
           \cup [at : {"extract"}, event : 1..MaxEvents, given : Seq(Proposed), routes : BOOLEAN, audits : BOOLEAN]
           \cup [at : {"record", "assess"}, event : 1..MaxEvents, given : Seq(ClaimRow),
                 routes : BOOLEAN, audits : BOOLEAN]
           \cup [at : {"route"}, event : 1..MaxEvents, decision : Routed, todo : SUBSET Claims, row : Nat \ {0}]
           \cup [at : {"audit"}, event : 1..MaxEvents, decision : Routed \cup {"quarantine"}]
    /\ applied \in 0..MaxApplied /\ crashes \in 0..MaxCrashes

\* A route that is audited is whole: every claim that its event had by then, those
\* of an operation that did not end among them, has its candidate event, its
\* support and the evidence against everything it corrects; and evidence is only
\* ever of claims that were recorded before it.
RoutedWhole ==
    LET before(i) == {journal[j] : j \in 1..i}
    IN \A i \in DOMAIN journal :
        /\ journal[i].table = "route" /\ journal[i].decision \in Routed =>
              \A c \in before(i) :
                  c.table = "claim" /\ c.event = journal[i].event =>
                      Range(RowsOfClaim(c, journal[i].decision)) \subseteq before(i)
        /\ journal[i].table = "candidate" => \E c \in before(i) : c.table = "claim" /\ c.id = journal[i].claim

\* Which claims of observations without risk a packet shows follows from the
\* journal alone, whatever operations did not end and whatever they left in the
\* view: through a normal lens, the claims of its kinds that no routed correction of
\* such an observation is against, and of the assistant's derivations only those
\* that are meant for a prompt or firm; the corrections of a risky observation
\* count for nothing, however its claims were applied. Through the other lenses
\* all of them are shown, but no slot selects a claim that was corrected where one
\* that was not is as well grounded.
PacketFollowsCorrections ==
    packet # Nil =>
        LET claims == {journal[i] : i \in Claims}
            safe == {x.event : x \in {y \in Experiences : ~y.risky}}
            against(c, d) ==
                /\ d.id \in Range(c.claims) /\ c.event \in safe
                /\ \E r \in {journal[i] : i \in EdgeEvidence} : r.type = "supersede" /\ r.source = c.id /\ r.target = d.id
            corrected(d) == \E c \in claims : against(c, d)
            grounded(c) == c.kind # "assistant_derivation" \/ c.eligible \/ c.level \in Firm
            fits(c) == CASE packet.lens = "logical" -> /\ SlotKind(c.type) \in {"fact", "preference", "constraint"}
                                                      /\ c.level \in Firm \cup {"durable_memory"}
                         [] packet.lens = "procedural" -> SlotKind(c.type) \in {"procedure", "schema"} \/ c.slot \in Failure
                         [] OTHER -> TRUE
            peers(c, d) ==
                /\ c.slot = d.slot /\ SlotKind(c.type) = SlotKind(d.type) /\ c.kind = d.kind /\ c.level = d.level
                /\ c.confidence >= d.confidence /\ c.sources >= d.sources
                /\ Strength("support", c.id) >= Strength("support", d.id)
        IN /\ \A c \in {x \in claims : x.event \in safe} :
                  c.id \in packet.shown <=> (packet.lens \in Normal => ~corrected(c) /\ grounded(c) /\ fits(c))
           /\ \A c, d \in claims :
                  c.event \in safe /\ corrected(d) /\ ~corrected(c) /\ grounded(c) /\ peers(c, d) => d.id \notin packet.selected

\* The input that observe_and_route() has quarantined does not enter the active
\* worldview (docs/api.md:84): a packet shows none of its claims through a
\* normal lens. The code records the claims before it assesses them, and every
\* rebuild makes candidates of all claims.
QuarantinedStaysOut ==
    packet # Nil /\ packet.lens \in Normal =>
        \A i \in Claims, j \in RowsOf("route") :
            journal[j].event = journal[i].event /\ journal[j].decision = "quarantine"
                => journal[i].id \notin packet.shown
=============================================================================
