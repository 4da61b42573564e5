------------------------------- MODULE Recall -------------------------------
(***************************************************************************)
(* The search of one retrieval: listing, vector index, candidate channels,   *)
(* rank fusion, activation over the edges, gate and packing, the recall gate *)
(* behind it, graph diffusion with its second pass, and the counting of the  *)
(* results, while others write memories and edges.                           *)
(*                                                                          *)
(* A text is the set of its terms and a vector the terms of the text it      *)
(* embeds; their similarity is their overlap. Scores are in percent,         *)
(* activation in per mille, both rounded down. Where the code takes a        *)
(* logarithm (rarity of a term, recency) the model takes a function that     *)
(* grows with it. RetrievalFlight has what query() does around this.         *)
(***************************************************************************)
EXTENDS Integers, FiniteSetsExt, SequencesExt, Subsequences

CONSTANTS
    Memory,      \* memory ids, ordered as the code orders them
    Term,        \* words
    Draft,       \* the records that may be written
    Query,       \* the queries that may be asked
    EdgeDraft,   \* the edges that may be written
    Library,     \* the stores to start from
    Graph,       \* the sequences of edges to start from
    Order,       \* the orders in which nodes may pass their activation on
    GraphSteps,  \* rounds of the activation
    MaxPath,     \* nodes of the longest path kept (5 in the code)
    GraphDepth,  \* hops of the diffusion
    MaxUses,     \* accesses are counted up to this
    MaxWrites,   \* bound on the writes
    MaxSearches, \* bound on the searches
    Nil          \* no memory, no vector, no fact

ASSUME MemoryAssumption == Memory \subseteq Nat /\ IsFiniteSet(Memory)
ASSUME TermAssumption == IsFiniteSet(Term)
ASSUME BoundAssumption == {GraphSteps, GraphDepth, MaxPath, MaxUses, MaxWrites, MaxSearches} \subseteq Nat

VARIABLES
    memories,   \* memories[m]: the stored record of m, its card and its FTS row
    edges,   \* the edges, in the order in which they are listed
    index,   \* index[m]: the terms that the vector of m embeds
    call,    \* the search in progress
    writes,  \* number of writes so far
    asked    \* number of searches so far

recallVars == <<memories, edges, index, call, writes, asked>>

Maturity == {"tagged", "fresh", "captured", "mature", "core", "inhibited", "obsolete", "archived", "deleted"}
Stale == {"inhibited", "obsolete", "archived", "deleted"}

\* old, current: whether the content says of itself that it is.
Record ==
    [type : {"episodic", "semantic", "procedural", "preference", "schema"}, maturity : Maturity,
     terms : SUBSET Term, labels : SUBSET Term, tag : Term \cup {Nil}, proven : BOOLEAN,
     confidence : 0..100, inhibition : 0..100, contradiction : 0..100, staleness : 0..100,
     utility : 0..100, salience : 0..100, words : Nat, old : BOOLEAN, current : BOOLEAN,
     linked : BOOLEAN, uses : Nat]

\* The relations whose weight is their own.
Weighed ==
    [supports |-> 100, same_as |-> 115, evidence_for |-> 95, retrieved_with |-> 15, associated_with |-> 45,
     precedes |-> 35, causes |-> 65, part_of |-> 45, generalizes |-> 55, specializes |-> 55]

\* The other relations of edges are as precedes.
Edge ==
    [source : Memory, target : Memory,
     relation : DOMAIN Weighed \cup {"coactivated_with", "procedure_for", "preference_of", "contradicts", "supersedes"},
     weight : 0..100, confidence : 0..100, inhibition : 0..100, contradiction : 0..100, successes : Nat]

\* says: what words of the question say; implies: the fact they ask for; graph:
\* what config and planner allow the edges to be used for. The other intents are as
\* unknown.
Asking ==
    [terms : SUBSET Term, says : SUBSET {"current", "old", "unanswerable"}, implies : Term \cup {Nil},
     rewrites : SUBSET Term, hyde : SUBSET Term, entities : SUBSET Term, facts : SUBSET Term,
     fact : Term \cup {Nil}, intent : {"unknown", "procedural_recall", "preference_recall", "temporal_history"},
     temporal : {"current", "historical", "unknown"}, historical : BOOLEAN, proof : BOOLEAN, abstain : BOOLEAN,
     align : BOOLEAN, graph : {"off", "activate", "diffuse"}, items : Nat, budget : Nat, least : Nat, gate : Nat]

ASSUME InputAssumption ==
    /\ Draft \subseteq Record /\ Library \subseteq [Memory -> Record \cup {Nil}]
    /\ EdgeDraft \subseteq Edge /\ \A graph \in Graph : graph \in Seq(Edge)
    /\ Query \subseteq Asking
    /\ \A order \in Order : order \in Seq(Memory)
ASSUME NilAssumption == Nil \notin Record /\ (\A terms \in SUBSET Term : terms # Nil)

Least(a, b) == IF a < b THEN a ELSE b
Most(a, b) == IF a > b THEN a ELSE b
Share(part, whole) == (100 * Cardinality(part \cap whole)) \div Most(1, Cardinality(whole))
Overlap(one, other) == Share(one \cap other, one \cup other)
Total(f) == FoldFunction(+, 0, f)

\* Memories by falling score, equal ones by id.
Ordered(S, score) ==
    LET before(m) == Cardinality({x \in S : score[x] > score[m] \/ (score[x] = score[m] /\ x < m)})
    IN [k \in 1..Cardinality(S) |-> CHOOSE m \in S : before(m) = k - 1]

-----------------------------------------------------------------------------
(* What is asked                                                            *)

\* The terms of a question are entities too; a question about history is
\* historical.
ActivationPlan(q) ==
    [q EXCEPT !.entities = @ \cup q.terms, !.historical = @ \/ q.intent = "temporal_history"]

\* Some words say which time is meant, that there may be no answer, or which fact
\* is asked for when no fact is given.
RecallPlan(q) ==
    [q EXCEPT !.temporal = CASE "current" \in q.says -> "current" [] "old" \in q.says -> "historical" [] OTHER -> "unknown",
              !.abstain = @ \/ "unanswerable" \in q.says,
              !.fact = IF @ = Nil THEN q.implies ELSE @]

-----------------------------------------------------------------------------
(* Candidate channels                                                       *)

Card(r) == r.terms \cup r.labels

\* The share of the best match. Rare terms weigh more.
Relevance(cards, terms) ==
    LET n == Cardinality(DOMAIN cards)
        df(t) == Cardinality({m \in DOMAIN cards : t \in cards[m]})
        raw == [m \in DOMAIN cards |-> Total([t \in terms \cap cards[m] |-> (100 * (n - df(t)) + 50) \div df(t)])]
        best == Max({raw[m] : m \in DOMAIN cards} \cup {1})
    IN [m \in DOMAIN cards |-> (100 * raw[m]) \div best]

\* search_memory_cards(): 1 - |rank| / worst, where the rank of the best match
\* is the largest: the order is by relevance, the score falls with it.
FtsScore(relevance, m) == 100 - relevance[m]

Recency(uses) == CASE uses = 0 -> 0 [] uses = 1 -> 13 [] uses = 2 -> 21 [] OTHER -> 27

Semantic == {"dense", "entity", "canonical_fact", "fts5", "bm25", "lexical", "rewrite", "hyde"}
Context == {"recent_current", "procedural_preference", "graph_seed"}

\* What a channel gives to each memory it finds; fts5 and dense rank what is
\* stored and indexed now, the others the listing.
Channel(listing, q) ==
    LET cards == [m \in DOMAIN listing |-> Card(listing[m])]
        stored == [m \in {x \in Memory : memories[x] # Nil} |-> Card(memories[m])]
        found == Relevance(stored, q.terms)
        bm25 == Relevance(cards, q.terms)
        indexed == {m \in Memory : index[m] # Nil}
        vectors == {q.terms} \cup {{t} : t \in q.rewrites} \cup ({q.hyde} \ {{}})
        dense == [m \in indexed |-> Max({Overlap(index[m], v) : v \in vectors})]
        Positive(f) == Restrict(f, {m \in DOMAIN f : f[m] > 0})
        Of(m) == listing[m]
        Over(P(_), f(_)) == [m \in {x \in DOMAIN listing : P(x)} |-> f(m)]
    IN [fts5 |-> [m \in DOMAIN Positive(found) |-> FtsScore(found, m)],
        dense |-> Positive(dense),
        rewrite |-> Positive([m \in DOMAIN listing |-> Share(cards[m], q.rewrites)]),
        hyde |-> Positive([m \in DOMAIN listing |-> Share(cards[m], q.hyde)]),
        bm25 |-> Positive(bm25),
        lexical |-> Positive([m \in DOMAIN listing |-> Overlap(cards[m], q.terms)]),
        entity |-> Positive([m \in DOMAIN listing |-> Share(cards[m], q.entities)]),
        recent_current |-> Positive([m \in DOMAIN listing |->
            Least(100, Recency(Of(m).uses) + IF Of(m).maturity \in Stale THEN 0 ELSE 35)]),
        procedural_preference |-> Over(LAMBDA m : Of(m).type \in {"procedural", "preference", "schema"},
                                       LAMBDA m : 55 + (30 * Of(m).confidence) \div 100),
        canonical_fact |-> Over(LAMBDA m : Of(m).tag \in q.facts, LAMBDA m : 100),
        graph_seed |-> Over(LAMBDA m : Of(m).linked,
                            LAMBDA m : Least(100, 30 + Of(m).utility + (20 * Of(m).confidence) \div 100))]

\* The rank of m in a channel; FTS rows are in the order of relevance.
Rank(name, scores, m) ==
    LET better(x) == IF name = "fts5" THEN scores[x] < scores[m] ELSE scores[x] > scores[m]
    IN 1 + Cardinality({x \in DOMAIN scores : better(x) \/ (scores[x] = scores[m] /\ x < m)})

RankSum(live, channels, m) ==
    LET hits == {n \in DOMAIN channels : m \in DOMAIN channels[n]}
    IN IF hits = {} THEN 2000 \div (60 + Cardinality({x \in live : x <= m}))
       ELSE Total([n \in hits |-> 2000 \div (60 + Rank(n, channels[n], m))])

\* (variant) the sum is not capped.
FuseUncapped(live, channels, m) == RankSum(live, channels, m)

\* Reciprocal rank fusion: 20 times the sum of 1 / (60 + rank), at most 1.
Fuse(live, channels, m) == Least(100, RankSum(live, channels, m))

\* Listed memories in some channel; all of them when no channel found one.
Candidates(live, channels) ==
    LET found == {m \in live : \E n \in DOMAIN channels : m \in DOMAIN channels[n]}
    IN IF found = {} THEN live ELSE found

-----------------------------------------------------------------------------
(* Activation over the edges                                                *)

Other(e, m) == IF e.source = m THEN e.target ELSE e.source

\* (variant) what was superseded passes nothing to what supersedes it.
BlockedBackwards(e, from) ==
    \/ e.relation = "contradicts"
    \/ e.relation = "supersedes" /\ e.target = from
    \/ e.relation # "supersedes" /\ (e.inhibition >= 80 \/ e.contradiction >= 80)

\* Nothing passes a contradiction, from a memory to what it supersedes, or over
\* an edge that is inhibited or contradicted itself.
Blocked(e, from) ==
    \/ e.relation = "contradicts"
    \/ e.relation = "supersedes" /\ e.source = from
    \/ e.relation # "supersedes" /\ (e.inhibition >= 80 \/ e.contradiction >= 80)

RelationWeight(e, q) ==
    CASE e.relation = "coactivated_with" -> 35 + Least(55, 8 * e.successes)
      [] e.relation = "procedure_for" -> IF q.intent = "procedural_recall" THEN 110 ELSE 35
      [] e.relation = "preference_of" -> IF q.intent = "preference_recall" THEN 100 ELSE 30
      [] e.relation \in DOMAIN Weighed -> Weighed[e.relation]
      [] OTHER -> 35

Transfer(e, q) ==
    IF e.relation = "supersedes" THEN 100
    ELSE Least(100, (((Most(e.weight, 5) * Most(e.confidence, 5) * RelationWeight(e, q)) \div 10000)
                     * Most(5, 100 - e.inhibition) * Most(5, 100 - e.contradiction)) \div 10000)

PathOf(walk, m) == IF walk.path[m] = <<>> THEN <<m>> ELSE walk.path[m]

\* What one edge of a node passes on. A longer path to the neighbour replaces a
\* shorter one.
Pass(q, walk, m, e) ==
    LET n == Other(e, m)
        passed == (((walk.now[m] * 75) \div 100) * Transfer(e, q)) \div 100
        path == Append(PathOf(walk, m), n)
    IN IF m \notin {e.source, e.target} THEN walk
       ELSE IF Blocked(e, m) THEN [walk EXCEPT !.suppressed = @ \cup {n}]
       ELSE IF passed < 20 THEN walk
       ELSE [walk EXCEPT !.next[n] = @ + passed,
                !.path[n] = IF ~Contains(PathOf(walk, m), n) /\ Len(path) <= MaxPath /\ Len(path) > Len(@)
                            THEN path ELSE @]

\* A node passes its activation on over its edges, as listed.
PassAll(q, walk, m, graph) ==
    IF walk.now[m] = 0 THEN walk ELSE FoldLeft(LAMBDA w, e : Pass(q, w, m, e), walk, graph)

\* One round with restart, the nodes in some order.
Round(q, walk, seed, graph, order) ==
    LET begun == [walk EXCEPT !.next = [m \in Memory |-> seed[m] \div 4]]
        done == FoldLeft(LAMBDA w, m : PassAll(q, w, m, graph), begun, order)
    IN [done EXCEPT !.now = done.next, !.score = [m \in Memory |-> Most(@[m], Least(1000, done.next[m]))]]

\* ppr_activate(): the score of a node is its highest one.
Activation(seeds, graph, q, order) ==
    LET seed == [m \in Memory |-> IF m \in seeds THEN 1000 \div Cardinality(seeds) ELSE 0]
        begun == [now |-> seed, next |-> seed, score |-> seed, suppressed |-> {},
                  path |-> [m \in Memory |-> IF m \in seeds THEN <<m>> ELSE <<>>]]
    IN FoldLeft(LAMBDA walk, i : Round(q, walk, seed, graph, order), begun, [i \in 1..GraphSteps |-> i])

-----------------------------------------------------------------------------
(* Scores, gate and packing                                                 *)

Trust(r) == Least(100, Most(5, r.confidence + (IF r.proven THEN 10 ELSE -12) - r.contradiction - r.inhibition))

Staleness(r) ==
    IF r.maturity = "inhibited" THEN 45 ELSE IF r.maturity \in Stale THEN 35 ELSE r.staleness \div 4

Boost(r, q) ==
    IF q.intent = "procedural_recall" /\ r.type = "procedural" THEN 100
    ELSE CASE r.maturity = "core" -> 100 [] r.maturity = "mature" -> 85 [] r.maturity = "captured" -> 55
           [] r.maturity = "fresh" -> 35 [] r.maturity = "tagged" -> 25 [] OTHER -> 0

BestOf(channels, names, m) == Max({channels[n][m] : n \in {c \in names : m \in DOMAIN channels[c]}} \cup {0})

Score(r, m, q, live, channels, graph) ==
    LET semantic == BestOf(channels, Semantic, m)
        style == (IF semantic = 0 /\ r.type \in {"preference", "procedural", "schema"} THEN 12 ELSE 0)
               + (IF /\ \A n \in Semantic : m \notin DOMAIN channels[n]
                     /\ \E n \in Context : m \in DOMAIN channels[n] THEN 20 ELSE 0)
        penalty == (35 * r.inhibition + 30 * r.contradiction) \div 100 + Staleness(r) + style
                 + (IF q.proof /\ ~r.proven THEN 15 ELSE 0)
    IN Most(0, (16 * Fuse(live, channels, m) + 42 * semantic + 12 * BestOf(channels, Context, m) + 12 * graph
                + 12 * Trust(r) + 4 * Boost(r, q) + 6 * r.utility) \div 100 - penalty)

\* (variant) an archived memory is not suppressed.
SuppressedNotArchived(r, q) ==
    \/ r.maturity = "deleted"
    \/ ~q.historical /\ r.maturity \in {"obsolete", "inhibited"}
    \/ r.inhibition >= 75 \/ r.contradiction >= 75
    \/ q.proof /\ ~r.proven

Suppressed(r, q) ==
    \/ r.maturity = "deleted"
    \/ ~q.historical /\ r.maturity \in {"obsolete", "inhibited", "archived"}
    \/ r.inhibition >= 75 \/ r.contradiction >= 75
    \/ q.proof /\ ~r.proven

Signature(r) == <<r.type, r.terms>>

WordsOf(listing, S) == Total([m \in S |-> listing[m].words])

\* _gate_and_pack() takes m or not, until the answer has all its items.
Take(kept, m, listing, score, q) ==
    LET r == listing[m] IN
    IF \/ Cardinality(kept) = q.items
       \/ Suppressed(r, q)
       \/ score[m] < q.least
       \/ r.type = "episodic" /\ \E x \in kept : Signature(listing[x]) = Signature(r)
       \/ kept # {} /\ WordsOf(listing, kept) + r.words > q.budget
    THEN kept ELSE kept \cup {m}

Pack(ranked, listing, score, q) == FoldLeft(LAMBDA kept, m : Take(kept, m, listing, score, q), {}, ranked)

-----------------------------------------------------------------------------
(* The recall gate behind it                                                *)

Obsolete(r) == r.maturity \in Stale \/ r.old

FactScore(r, q) ==
    CASE q.fact = Nil -> 0
      [] q.fact = r.tag \/ q.fact \in r.terms -> 100
      [] q.fact \in r.labels -> 65
      [] OTHER -> 0

TemporalScore(r, q) ==
    CASE q.temporal = "current" -> IF Obsolete(r) THEN 0 ELSE IF r.current THEN 100 ELSE 35
      [] q.temporal = "historical" /\ Obsolete(r) -> 85
      [] OTHER -> IF r.current THEN 45 ELSE 15

\* _base_score() of the listing, unless activation or the vectors say more.
Base(r, q, score, dense) ==
    LET own == Least(100, 12 * Cardinality(q.terms \cap Card(r)) + (42 * r.salience + 20 * r.confidence) \div 100)
             - (40 * r.inhibition) \div 100
             + (CASE r.type = "procedural" -> 5 [] r.type = "semantic" -> 3 [] OTHER -> 0)
    IN Max({own, score, dense})

RecallScore(r, q, base, bm25, graph) ==
    LET lexical == Overlap(q.terms, Card(r))
        penalty == (IF Obsolete(r) THEN 45 ELSE 0)
                 + Most(r.inhibition, IF r.maturity = "inhibited" THEN 35 ELSE 0)
                 + Most(r.contradiction, IF q.temporal = "current" /\ Obsolete(r) THEN 25 ELSE 0)
                 + (IF r.maturity = "tagged" /\ r.confidence < 50 THEN 18 ELSE 0)
                 + (IF r.proven THEN 0 ELSE 8)
    IN Most(0, (24 * Most(base, lexical) + 20 * lexical + 18 * bm25 + 14 * graph
                + 8 * ((Recency(r.uses) * 5) \div 4) + 16 * TemporalScore(r, q)
                + 10 * Share(Card(r), q.entities) + 22 * FactScore(r, q)) \div 100 - penalty)

\* Of the memories about the fact that is asked for, the stale ones leave when
\* there is one that is not.
Canonical(S, listing, q) ==
    LET about == {m \in S : FactScore(listing[m], q) > 0}
        stale == {m \in about : Obsolete(listing[m])}
    IN IF about \ stale = {} THEN S ELSE S \ stale

\* run_recall(): the view, the gate, abstention, alignment with the fact, and the
\* budget, which ends the answer at the first memory that exceeds it. The view
\* puts memories about the fact first.
RecallGate(listing, score, q) ==
    LET S == DOMAIN listing
        view == Canonical(S, listing, q)
        about(m) == FactScore(listing[m], q) > 0
        moved == \E m \in S : about(m) /\ ~Obsolete(listing[m])
        gated == {m \in view : score[m] >= q.gate}
        aligned == \E m \in gated : about(m) \/ Card(listing[m]) \cap q.entities # {}
        first == {m \in gated : moved /\ about(m)}
        order == Ordered(first, score) \o Ordered(gated \ first, score)
        Fits(i) == i = 1 \/ WordsOf(listing, {order[j] : j \in 1..i}) <= q.budget
        last == Min({i \in DOMAIN order : ~Fits(i)} \cup {Len(order) + 1}) - 1
    IN IF \/ q.abstain /\ ~aligned
          \/ q.align /\ q.fact # Nil /\ ~\E m \in gated : about(m)
       THEN {}
       ELSE {order[i] : i \in 1..Least(last, q.items)}

-----------------------------------------------------------------------------
(* A search                                                                 *)

Idle == [phase |-> "idle"]

RecallInit ==
    /\ memories \in Library
    /\ edges \in Graph
    /\ index = [m \in Memory |-> Nil]
    /\ call = Idle
    /\ writes = 0
    /\ asked = 0

\* Mutations of others: a memory is written with its card, or an edge.
WriteMemory ==
    /\ writes < MaxWrites
    /\ \E m \in Memory, d \in Draft : memories' = [memories EXCEPT ![m] = d]
    /\ writes' = writes + 1
    /\ UNCHANGED <<edges, index, call, asked>>

WriteEdge ==
    /\ writes < MaxWrites
    /\ \E e \in EdgeDraft :
        LET others == {i \in DOMAIN edges : edges[i].source # e.source \/ edges[i].target # e.target}
        IN edges' = Append(At(edges, others), e)
    /\ writes' = writes + 1
    /\ UNCHANGED <<memories, index, call, asked>>

\* retrieve(): list_memories().
ListMemories ==
    /\ call.phase = "idle"
    /\ asked < MaxSearches
    /\ asked' = asked + 1
    /\ \E q \in Query :
        call' = [phase |-> "listed", pass |-> 1, query |-> RecallPlan(ActivationPlan(q)),
                 listing |-> Restrict(memories, {m \in Memory : memories[m] # Nil}),
                 paths |-> {}, graph |-> <<>>, led |-> {}, web |-> Nil, extra |-> [m \in Memory |-> 0], score |-> <<>>, results |-> {},
                 counted |-> {}, channels |-> <<>>]
    /\ UNCHANGED <<memories, edges, index, writes>>

Live(listing) == {m \in DOMAIN listing : listing[m].maturity # "deleted"}

\* _sync_semantic_index(): the vectors of everything listed.
Sync ==
    /\ call.phase = "listed"
    /\ index' = [m \in Memory |-> IF m \in Live(call.listing) THEN Card(call.listing[m]) ELSE index[m]]
    /\ call' = [call EXCEPT !.phase = "synced"]
    /\ UNCHANGED <<memories, edges, writes, asked>>

\* The embedding provider raises, and so does the search.
Fail ==
    /\ call.phase \in {"listed", "synced"}
    /\ call' = Idle
    /\ UNCHANGED <<memories, edges, index, writes, asked>>

Search ==
    /\ call.phase = "synced"
    /\ call' = [call EXCEPT !.phase = "found",
                            !.channels = Channel(Restrict(call.listing, Live(call.listing)), call.query)]
    /\ UNCHANGED <<memories, edges, index, writes, asked>>

PathsOf(walk) == {walk.path[m] : m \in {x \in Memory : Len(walk.path[x]) > 1}}

\* ppr_activate() reads the edges here; _score().
Activate ==
    /\ call.phase = "found"
    /\ \E order \in Order :
       LET q == call.query
           live == Live(call.listing)
           candidates == Candidates(live, call.channels)
           walk == Activation(IF q.graph = "off" THEN {} ELSE candidates, edges, q, order)
       IN call' = [call EXCEPT !.phase = "scored", !.graph = edges, !.paths = PathsOf(walk),
                     !.extra = [m \in Memory |-> IF walk.score[m] > 0 THEN walk.score[m] \div 10 ELSE call.extra[m]],
                     !.score = [m \in candidates |->
                         Score(call.listing[m], m, q, live, call.channels, walk.score[m] \div 10)]]
    /\ UNCHANGED <<memories, edges, index, writes, asked>>

\* What activation selects is the answer; when it selects nothing, the answer is
\* what the recall gate lets through.
Decide ==
    /\ call.phase = "scored"
    /\ LET q == call.query
           candidates == DOMAIN call.score
           ranked == Ordered(candidates, call.score)
           selected == Pack(SubSeq(ranked, 1, Least(Len(ranked), 4 * q.items)), call.listing, call.score, q)
           bm25 == Relevance([m \in DOMAIN call.listing |-> Card(call.listing[m])], q.terms)
           Of(f, m) == IF m \in DOMAIN f THEN f[m] ELSE 0
           recall == [m \in DOMAIN call.listing |->
               LET r == call.listing[m]
                   dense == IF m \in candidates THEN Of(call.channels.dense, m) ELSE 0
               IN RecallScore(r, q, Base(r, q, Of(call.score, m), dense), bm25[m], call.extra[m])]
           results == IF selected # {} THEN selected ELSE RecallGate(call.listing, recall, q)
       IN call' = [call EXCEPT !.phase = IF q.graph = "diffuse" /\ call.pass = 1 /\ results # {}
                                         THEN "diffusing" ELSE "counting",
                               !.channels = <<>>, !.results = results]
    /\ UNCHANGED <<memories, edges, index, writes, asked>>

Usable == {m \in Memory : memories[m] # Nil /\ memories[m].maturity \notin Stale}

\* An edge leads both ways, whatever its relation.
Neighbours(m) ==
    {n \in Usable \ {m} : \E i \in DOMAIN edges : {edges[i].source, edges[i].target} = {m, n}}

EdgeScore(m, n) ==
    Max({(((e.weight * e.confidence) \div 100) * Most(10, 100 - e.inhibition) * Most(10, 100 - e.contradiction)) \div 10000 :
         e \in {x \in Range(edges) : {x.source, x.target} = {m, n}}})

\* What a path passes on; of several edges between two memories the best counts.
Passed(f, n) == (((f.score * 75) \div 100) * EdgeScore(Last(f.path), n)) \div 100

\* graph_diffuse() extends the paths of i nodes over usable neighbours, as they
\* are stored now.
Extend(all, i) ==
    all \cup UNION {{[path |-> Append(f.path, n), score |-> Passed(f, n)] :
                        n \in {x \in Neighbours(Last(f.path)) : ~Contains(f.path, x) /\ Passed(f, x) >= 3}} :
                    f \in {g \in all : Len(g.path) = i}}

\* Simple paths from the seeds; a path of depth + 1 nodes is extended once more.
Spread(seeds) ==
    FoldLeft(Extend, {[path |-> <<m>>, score |-> 100] : m \in seeds}, [i \in 1..(GraphDepth + 1) |-> i])

\* The best of what the results that are not stale lead to joins the listing, as
\* it is stored now, and the search is repeated. led is reported with the paths of
\* the second activation; web is what was read for it.
Diffuse ==
    /\ call.phase = "diffusing"
    /\ LET seeds == {m \in call.results : call.listing[m].maturity \notin {"deleted", "obsolete", "inhibited"}}
           spread == Spread(seeds)
           score == [m \in Memory |-> Max({f.score : f \in {g \in spread : Last(g.path) = m}} \cup {0})]
           ranked == Ordered({m \in Memory : score[m] > 0}, score)
           joined == {ranked[i] : i \in 1..Least(Len(ranked), call.query.items)} \ call.results
       IN call' = [call EXCEPT !.phase = "listed", !.pass = 2, !.extra = score,
                     !.led = {f.path : f \in {g \in spread : Len(g.path) > 1}},
                     !.web = [seeds |-> seeds, usable |-> Usable, edges |-> edges],
                     !.listing = [m \in DOMAIN call.listing \cup joined |->
                                     IF m \in joined THEN memories[m] ELSE call.listing[m]]]
    /\ UNCHANGED <<memories, edges, index, writes, asked>>

\* Every result is written back as it was listed, with its access counted.
Count ==
    /\ call.phase = "counting"
    /\ LET m == Min(call.results \ call.counted) IN
        IF call.results = call.counted
        THEN call' = [call EXCEPT !.phase = "answered"] /\ UNCHANGED memories
        ELSE /\ memories' = [memories EXCEPT ![m] = [call.listing[m] EXCEPT !.uses = Least(@ + 1, MaxUses)]]
             /\ call' = [call EXCEPT !.counted = @ \cup {m}]
    /\ UNCHANGED <<edges, index, writes, asked>>

Return ==
    /\ call.phase = "answered"
    /\ call' = Idle
    /\ UNCHANGED <<memories, edges, index, writes, asked>>

RecallNext == WriteMemory \/ WriteEdge \/ ListMemories \/ Sync \/ Fail \/ Search \/ Activate \/ Decide \/ Diffuse \/ Count \/ Return

RecallSpec == RecallInit /\ [][RecallNext]_recallVars

-----------------------------------------------------------------------------
(* Properties                                                               *)

\* Every record, vector and score has its type; a score stays within the sum
\* of its weights.
RecallTypeOK ==
    /\ memories \in [Memory -> Record \cup {Nil}]
    /\ index \in [Memory -> (SUBSET Term) \cup {Nil}]
    /\ call.phase # "idle" =>
        /\ call.results \subseteq DOMAIN call.listing
        /\ \A m \in DOMAIN call.score : call.score[m] \in 0..104

Decided == call.phase \in {"counting", "answered"}

\* When a query asks for a fact, and is not historical, no memory of an answer
\* that is about the fact has ended (obsolete, inhibited, archived or deleted)
\* while the listing has one about it that is not stale; whichever of the two
\* gates the answer comes from, and after diffusion too.
StaleFactYields ==
    Decided /\ ~call.query.historical =>
        \A m \in call.results :
            FactScore(call.listing[m], call.query) > 0 /\ call.listing[m].maturity \in Stale =>
                \A x \in DOMAIN call.listing :
                    FactScore(call.listing[x], call.query) > 0 => Obsolete(call.listing[x])

\* The path goes over edges as they were read, never over a contradiction and
\* never from a memory to one it supersedes, and visits no memory twice.
Carried(path, graph) ==
    /\ Len(path) <= MaxPath /\ IsInjective(path)
    /\ \A i \in 1..(Len(path) - 1) : \E e \in Range(graph) :
        /\ {e.source, e.target} = {path[i], path[i + 1]}
        /\ e.relation # "contradicts"
        /\ e.relation = "supersedes" => e.source = path[i + 1]

\* The path starts at one of the seeds and goes over edges as the diffusion read
\* them, each time to a memory that was stored and not stale.
Led(path, web) ==
    /\ path[1] \in web.seeds /\ Len(path) <= GraphDepth + 2 /\ IsInjective(path)
    /\ \A i \in 1..(Len(path) - 1) :
        /\ path[i + 1] \in web.usable
        /\ \E e \in Range(web.edges) : {e.source, e.target} = {path[i], path[i + 1]}

\* A search reports the paths of its activation and those of its diffusion. The
\* former are carried by the edges the activation has read, although paths are
\* replaced while others extend them and edges are written meanwhile. The latter
\* start at results that have not ended and lead over stored memories that are not
\* stale; they may go over contradictions, and over what supersedes both ways.
PathsCarry ==
    Decided =>
        /\ \A path \in call.paths : Carried(path, call.graph)
        /\ \A path \in call.led : Led(path, call.web)
=============================================================================
