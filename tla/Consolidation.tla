---------------------------- MODULE Consolidation ----------------------------
(***************************************************************************)
(* The semantic graph and sleep of neuromem_runtime: what observations,     *)
(* retrievals and sleep() propose about pairs and clusters of memories      *)
(* (semantic_graph.py, crystallization.py), how the executor validates and  *)
(* commits it, and the evidence and the rebuild that follow (runtime.py).   *)
(*                                                                          *)
(* A structural policy is one transaction, each event of evidence a commit  *)
(* of its own after it, the rebuild comes last; the process may die between *)
(* any two. A rebuild is here a read of the evidence and a replacement of   *)
(* the edges; Worldview has its commits. Weights and confidences are left   *)
(* out, except the score that makes a pair a candidate.                     *)
(***************************************************************************)
EXTENDS Naturals, FiniteSets, SequencesExt, Subsequences

CONSTANTS
    User,         \* threads that call the runtime
    Background,   \* threads of the job queue, which commit retrieval graphs
    Memory,       \* the memories, numbered in the order of created_at
    TermsOf,      \* TermsOf[m]: the keywords of m, numbered by name (no entities)
    Chained,      \* the pairs of memories that share an evidence id
    Alike,        \* the pairs whose embeddings, if usable, are near
    Worded,       \* the pairs whose words overlap, used without embeddings
    Policies,     \* structural policies that callers commit: each has frames,
                  \* edges of op, from, to and rel, and whether it is formed
    CommitModes,  \* values of retrieval_graph_commit in use
    GraphMode,    \* "off" or "deterministic"
    MaxMembers,   \* memories kept of a selection in a cluster (6 in the code)
    MaxGroups,    \* clusters from shared terms (3)
    MaxClusters,  \* clusters of a sleep (4)
    MaxCalls,     \* bound on the calls of the users
    None          \* no report

Thread == User \cup Background
Pair == {p \in SUBSET Memory : Cardinality(p) = 2}

ASSUME MemoryAssumption == Memory \subseteq Nat /\ IsFiniteSet(Memory)
ASSUME TermAssumption == TermsOf \in [Memory -> SUBSET Nat] /\ IsFiniteSet(UNION {TermsOf[m] : m \in Memory})
ASSUME PairAssumption == Chained \subseteq Pair /\ Alike \subseteq Pair /\ Worded \subseteq Pair
ASSUME ModeAssumption == CommitModes \subseteq {"off", "trace_only", "sync", "async"}
ASSUME BoundAssumption ==
    MaxMembers \in Nat /\ MaxGroups \in Nat /\ MaxClusters \in Nat /\ MaxCalls \in Nat

VARIABLES
    stored,     \* the memories of the store
    frames,     \* logic_nodes
    edges,      \* associative_edges and logic_edges
    evidence,   \* edge_evidence_events
    traced,     \* last_trace: the memories it selected
    impacted,   \* the memories a high-impact observation is about
    queued,     \* the selections that wait in the job queue
    calls,      \* calls so far
    stage,      \* stage[t]: the policy t works on
    step,       \* step[t]: and what it does next for it
    call,       \* call[t]: what t was called for, and the memories of it
    plan,       \* plan[t]: the clusters of t's sleep
    pending,    \* pending[t]: the evidence t has yet to append
    seen,       \* seen[t]: the evidence t's rebuild has read
    nodes,      \* nodes[t]: the frames t's sleep compiled
    report,     \* the report of the last sleep that ended
    unwanted,   \* memories a caller asked to hide (history)
    torn        \* a crash left edges of a transaction without evidence (history)

tables == <<stored, frames, edges, evidence>>
work == <<stage, step, call, plan, pending, seen, nodes>>
vars == <<tables, work, traced, impacted, queued, calls, report, unwanted, torn>>

\* A node is a memory, an outside event about one, the frame of a memory, a
\* frame compiled from the at-th cluster of a sleep, or a caller's frame.
Node(kind, of, at) == [kind |-> kind, of |-> of, at |-> at]
Mem(m) == Node("memory", {m}, 0)
Outside(m) == Node("event", {m}, 0)
FrameOf(m) == Node("frame", {m}, 0)
Compiled(c, i) == Node("sleep", c, i)
Given(c) == Node("user", c, 0)
Frame ==
    {FrameOf(m) : m \in Memory} \cup {Given(c) : c \in SUBSET Memory} \cup
    {Compiled(c, i) : c \in SUBSET Memory, i \in 1..MaxClusters + MaxGroups}
NodeSet == Frame \cup {Mem(m) : m \in Memory} \cup {Outside(m) : m \in Memory}

Associative == {"retrieved_with", "coactivated_with", "same_episode", "same_trace"}
Logic == {"supports", "same_as", "evidence_for", "derived_from", "supersedes"}
Edge == [from : NodeSet, to : NodeSet, rel : Associative \cup Logic]
Event == [type : {"support", "derive", "inhibit", "supersede"},
          from : NodeSet, to : NodeSet, rel : Associative \cup Logic \cup {"inhibits"}]

\* Associations are proposed by the ids of memories, never of frames.
ASSUME PolicyAssumption == \A p \in Policies :
    /\ p.frames \subseteq Frame
    /\ \A e \in p.edges :
        /\ e.from \in NodeSet /\ e.to \in NodeSet /\ e.rel \in Associative \cup Logic
        /\ e.from.kind = "memory" => e.to.kind = "memory"

-----------------------------------------------------------------------------
(* GraphCandidateGenerator and DeterministicRelationProposer                *)

\* What may speak for relating two memories, with the least it adds to the
\* score in thousandths; min_score is 0.18.
Weight == [co_use_outcome |-> 180, same_query_retrieval |-> 220, same_sleep_cluster |-> 460,
           embedding_similarity |-> 432, same_evidence_chain |-> 380, lexical_overlap |-> 72,
           same_canonical_fact_key |-> 500]
MinScore == 180

\* The min(n, Cardinality(s)) least numbers of s; _canonical_fact_key() is the
\* first three terms.
First(n, s) == {x \in s : Cardinality({y \in s : y < x}) < n}
FactKey(m) == First(3, TermsOf[m])

\* generate(): the sources of the pair of m and n, given the selected and the
\* target memories and the clusters of a sleep.
Sources(m, n, selected, targets, clusters) ==
    {s \in DOMAIN Weight \cup {"same_entity"} :
        CASE s = "co_use_outcome" ->
                <<m, n>> \in (selected \X targets) \cup (targets \X selected)
          [] s = "same_query_retrieval" -> {m, n} \subseteq selected \cup targets
          [] s = "same_sleep_cluster" -> \E c \in ToSet(clusters) : {m, n} \subseteq c
          [] s = "embedding_similarity" -> {m, n} \in Alike
          [] s = "same_evidence_chain" -> {m, n} \in Chained
          [] s = "same_entity" -> TermsOf[m] \cap TermsOf[n] # {}
          [] s = "same_canonical_fact_key" -> FactKey(m) = FactKey(n) /\ FactKey(m) # {}
          [] OTHER -> {m, n} \in Worded}

\* Shared terms count 0.12 and 0.04 for each, up to 0.28: one is not enough.
Score(m, n, sources) ==
    LET shared == Cardinality(First(4, TermsOf[m] \cap TermsOf[n]))
    IN  MapThenSumSet(LAMBDA s : IF s = "same_entity" THEN 120 + 40 * shared ELSE Weight[s],
                      sources)

\* (variant) the relation of equal facts is one the generator suggests for them
\* but the code does not choose.
RelationOfContradicting(sources) ==
    IF "same_canonical_fact_key" \in sources THEN {"contradicts"} ELSE {}
RelationOfSuperseding(sources) ==
    IF "same_canonical_fact_key" \in sources THEN {"supersedes"} ELSE {}

\* _choose_relation(): the first of these whose source is present.
RelationOf(sources) ==
    CASE "same_canonical_fact_key" \in sources -> {"same_as"}
      [] "same_sleep_cluster" \in sources -> {"derived_from"}
      [] "same_evidence_chain" \in sources -> {"evidence_for"}
      [] sources \cap {"co_use_outcome", "same_entity"} # {} -> {"supports"}
      [] "same_query_retrieval" \in sources -> {"retrieved_with"}
      [] "embedding_similarity" \in sources -> {"coactivated_with"}
      [] OTHER -> {}

\* propose_graph_deltas(): one delta for each candidate that has a relation.
\* The ids that order the two memories of an edge are random; here it is < .
GraphDeltas(selected, targets, clusters) ==
    UNION {LET sources == Sources(m, n, selected, targets, clusters)
           IN  {[from |-> m, to |-> n, rel |-> r, sources |-> sources] :
                   r \in IF m < n /\ Score(m, n, sources) >= MinScore
                         THEN RelationOf(sources) ELSE {}} :
           m \in stored, n \in stored}

\* _activation_associative_for_logic(), and _associative_relation_for_graph_delta()
\* for the evidence: the association that goes with a relation.
Activation(d) ==
    CASE d.rel \in Associative -> {d.rel}
      [] "same_sleep_cluster" \in d.sources -> {"same_episode"}
      [] "same_evidence_chain" \in d.sources -> {"same_trace"}
      [] "same_query_retrieval" \in d.sources -> {"retrieved_with"}
      [] "co_use_outcome" \in d.sources -> {"coactivated_with"}
      [] OTHER -> {}

\* _event_type_for_delta_operation(), and the event that a delta becomes.
EventType(op, rel) ==
    CASE op = "inhibit_edge" \/ rel = "inhibits" -> "inhibit"
      [] rel = "supersedes" -> "supersede"
      [] rel = "derived_from" -> "derive"
      [] OTHER -> "support"
Witness(op, e) == [type |-> EventType(op, e.rel), from |-> e.from, to |-> e.to, rel |-> e.rel]
Hiding == {"inhibit", "supersede"}   \* suppress and expire are like inhibit

\* The edge of a delta or of an event.
Link(e) == [from |-> e.from, to |-> e.to, rel |-> e.rel]

-----------------------------------------------------------------------------
(* Crystallization                                                          *)

\* The first n elements of a sequence, a sequence without its repetitions, and
\* the clusters that have more than one member.
Upto(n, seq) == SubSeq(seq, 1, Min({n, Len(seq)}))
Distinct(seq) == At(seq, {i \in DOMAIN seq : \A j \in 1..(i - 1) : seq[j] # seq[i]})
Several(seq) == At(seq, {i \in DOMAIN seq : Cardinality(seq[i]) > 1})

\* _fallback_sleep_clusters(): the memories that share one of their first four
\* terms, by the first memory with the term and then the term.
Carriers(x) == {m \in stored : x \in First(4, TermsOf[m])}
SharedTerms == {x \in UNION {First(4, TermsOf[m]) : m \in stored} : Cardinality(Carriers(x)) > 1}
TermOrder ==
    LET before(x, y) == LET a == Min(Carriers(x)) b == Min(Carriers(y))
                        IN  a < b \/ (a = b /\ x < y)
    IN  SetToSortSeq(SharedTerms, before)
FallbackClusters ==
    Upto(MaxGroups, Distinct([i \in 1..Cardinality(SharedTerms) |-> Carriers(TermOrder[i])]))

\* _select_sleep_replay_clusters(): what the last trace selected, what is of
\* high impact, what a conflict or a suppression was ever about, shared terms.
ReplayClusters ==
    LET conflict == {m \in stored : \E e \in evidence :
                        e.to = Mem(m) /\ e.type \in Hiding}
        chosen == <<traced \cap stored, First(MaxMembers, impacted \cap stored),
                    First(MaxMembers, conflict)>>
    IN  Upto(MaxClusters, Distinct(Several(chosen \o FallbackClusters)))

\* plan_sleep_frames() names a frame by the members and the place of its
\* cluster; _commit_sleep_crystallization() derives it from their frames.
SleepFrames(clusters) == [i \in DOMAIN clusters |-> Compiled(clusters[i], i)]
SourceFrames(clusters) == {FrameOf(m) : m \in UNION ToSet(clusters)}
\* (variant) the first memory of a cluster is left out.
SleepEdgesOfTheRest(clusters) ==
    UNION {{[from |-> FrameOf(m), to |-> f, rel |-> "derived_from"] : m \in f.of \ {Min(f.of)}} :
           f \in ToSet(SleepFrames(clusters))}
SleepEdges(clusters) ==
    UNION {{[from |-> FrameOf(m), to |-> f, rel |-> "derived_from"] : m \in f.of} :
           f \in ToSet(SleepFrames(clusters))}

\* DefaultFrameValidator, the validation of associations, and
\* DefaultLogicRelationValidator, which sees the frames of its transaction.
FrameValid(f) == f.of # {} /\ f.of \subseteq stored
AssociationValid(e) == e.from # e.to /\ (e.from.of \cup e.to.of) \subseteq stored
\* (variant) the endpoints are not looked up.
LogicValidAnyFrame(e, known) == e.from # e.to
LogicValid(e, known) == e.from # e.to /\ {e.from, e.to} \subseteq known

-----------------------------------------------------------------------------
(* The work on a policy                                                     *)

Nothing == [name |-> "none", of |-> {}]

Init ==
    /\ stored = {} /\ frames = {} /\ edges = {} /\ evidence = {}
    /\ stage = [t \in Thread |-> "idle"]
    /\ step = [t \in Thread |-> "commit"]
    /\ call = [t \in Thread |-> Nothing]
    /\ plan = [t \in Thread |-> <<>>]
    /\ pending = [t \in Thread |-> {}]
    /\ seen = [t \in Thread |-> {}]
    /\ nodes = [t \in Thread |-> <<>>]
    /\ traced = {} /\ impacted = {} /\ queued = {} /\ calls = 0
    /\ report = None /\ unwanted = {} /\ torn = FALSE

\* A call of a user begins, at the given step of the given stage.
Call(t, name, of, first, at) ==
    /\ t \in User /\ stage[t] = "idle" /\ calls < MaxCalls
    /\ calls' = calls + 1
    /\ call' = [call EXCEPT ![t] = IF first = "idle" THEN Nothing ELSE [name |-> name, of |-> of]]
    /\ stage' = [stage EXCEPT ![t] = first]
    /\ step' = [step EXCEPT ![t] = at]

\* What follows a stage: after the graph of an observation its own evidence,
\* after that of a sleep the crystallization and then the links to its frames.
After(t) ==
    CASE stage[t] = "graph" /\ call[t].name = "observe" -> "last"
      [] stage[t] = "graph" /\ call[t].name = "sleep" -> "crystal"
      [] stage[t] = "crystal" -> "last"
      [] OTHER -> "idle"

\* The evidence of the last stage of an observation and of a sleep, which says
\* that every frame it compiled derives from every memory it replayed.
LastEvidence(t, compiled) ==
    CASE call[t].name = "observe" ->
            {[type |-> "support", from |-> Outside(m), to |-> Mem(m), rel |-> "supports"] :
                m \in call[t].of}
      [] call[t].name = "sleep" ->
            {[type |-> "derive", from |-> Mem(m), to |-> f, rel |-> "derived_from"] :
                m \in UNION ToSet(plan[t]), f \in ToSet(compiled)}
      [] OTHER -> {}

\* t leaves its stage with these frames compiled: to idle, or to the next
\* stage, whose evidence is known at once if it has no policy of its own.
Leave(t, compiled) ==
    /\ stage' = [stage EXCEPT ![t] = After(t)]
    /\ step' = [step EXCEPT ![t] = IF After(t) = "last" THEN "append" ELSE "commit"]
    /\ pending' = [pending EXCEPT ![t] = IF After(t) = "last" THEN LastEvidence(t, compiled) ELSE {}]
    /\ nodes' = [nodes EXCEPT ![t] = IF After(t) = "idle" THEN <<>> ELSE compiled]
    /\ call' = [call EXCEPT ![t] = IF After(t) = "idle" THEN Nothing ELSE @]
    /\ plan' = [plan EXCEPT ![t] = IF After(t) = "idle" THEN <<>> ELSE @]

\* Upserts of the store: add_logic_node(), add_associative_edge() and
\* add_logic_edge().
AddNodes(table, new) == table \cup new
AddAssociations(table, new) == table \cup new
AddLogic(table, new) == table \cup new

\* PolicyExecutor.execute() on a policy with frames f, associations a and
\* logic edges l: one transaction, rolled back when a delta is not valid, or
\* not well formed (relation, evidence, proof obligation, confidence). It
\* leaves a trace that selects nothing.
Execute(t, f, a, l, events, compiled, formed) ==
    LET valid == /\ formed
                 /\ \A x \in f : FrameValid(x)
                 /\ \A e \in a : AssociationValid(e)
                 /\ \A e \in l : LogicValid(e, frames \cup f)
    IN  /\ traced' = {}
        /\ \/ /\ valid
              /\ frames' = AddNodes(frames, f)
              /\ edges' = AddLogic(AddAssociations(edges, a), l)
              /\ pending' = [pending EXCEPT ![t] = events]
              /\ step' = [step EXCEPT ![t] = "append"]
              /\ nodes' = [nodes EXCEPT ![t] = compiled]
              /\ UNCHANGED <<stage, call, plan>>
           \/ /\ ~valid
              /\ Leave(t, <<>>)
              /\ UNCHANGED <<frames, edges>>

\* graph_delta_to_structural(): the frames and edges of the deltas. The executor
\* keeps one frame of each id.
Endpoints(deltas) == UNION {{FrameOf(d.from), FrameOf(d.to)} : d \in deltas}
Between(deltas) == {[from |-> FrameOf(d.from), to |-> FrameOf(d.to), rel |-> d.rel] : d \in deltas}
Around(deltas) == UNION {{[from |-> Mem(d.from), to |-> Mem(d.to), rel |-> r] : r \in Activation(d)} :
                         d \in deltas}

\* _commit_auto_graph(): the deltas for what the call is about, as frames,
\* associations and logic edges of the executor, and as evidence between the
\* memories (_append_structural_evidence_from_policy()).
CommitGraph(t) ==
    LET sleeping == call[t].name = "sleep"
        selected == IF call[t].name = "observe" THEN {} ELSE call[t].of
        deltas == IF GraphMode = "off" THEN {} ELSE GraphDeltas(selected, call[t].of, plan[t])
        logic == {d \in deltas : d.rel \in Logic}
    IN  /\ stage[t] = "graph" /\ step[t] = "commit"
        /\ \/ /\ deltas # {}
              /\ Execute(t, Endpoints(logic), Around(deltas), Between(logic),
                         {Witness("add_edge", e) : e \in Around(deltas) \cup
                             {[from |-> Mem(d.from), to |-> Mem(d.to), rel |-> d.rel] : d \in deltas}},
                         <<>>, TRUE)
           \/ /\ deltas = {}
              /\ Leave(t, <<>>)
              /\ UNCHANGED <<frames, edges, traced>>
        /\ UNCHANGED <<stored, evidence, seen, impacted, queued, calls, report, unwanted, torn>>

\* _commit_sleep_crystallization(): the frames of the clusters, and of the
\* memories they derive from. A sleep that planned none tries again here.
CommitCrystal(t) ==
    LET clusters == IF plan[t] = <<>> THEN FallbackClusters ELSE plan[t]
        links == SleepEdges(clusters)
    IN  /\ stage[t] = "crystal" /\ step[t] = "commit"
        /\ \/ /\ clusters # <<>>
              /\ Execute(t, SourceFrames(clusters) \cup ToSet(SleepFrames(clusters)), {}, links,
                         {Witness("add_edge", e) : e \in links},
                         SleepFrames(clusters), TRUE)
           \/ /\ clusters = <<>>
              /\ Leave(t, <<>>)
              /\ UNCHANGED <<frames, edges, traced>>
        /\ UNCHANGED <<stored, evidence, seen, impacted, queued, calls, report, unwanted, torn>>

\* commit() of a caller's structural policy.
CommitGiven(t) ==
    /\ stage[t] = "given" /\ step[t] = "commit"
    /\ \E p \in Policies :
        LET given(family) == {Link(e) : e \in {x \in p.edges : x.from.kind \in family}}
        IN  /\ Execute(t, p.frames, given({"memory"}), given({"frame", "sleep", "user"}),
                       {Witness(e.op, e) : e \in p.edges}, <<>>, p.formed)
            /\ unwanted' = unwanted \cup UNION {e.to.of : e \in {x \in p.edges :
                               x.to.kind = "memory" /\ Witness(x.op, x).type \in Hiding}}
    /\ UNCHANGED <<stored, evidence, seen, impacted, queued, calls, report, torn>>

\* EdgeEvidenceAppender.append() of one event, in an order left open.
AppendEvidence(t) ==
    /\ stage[t] # "idle" /\ step[t] = "append" /\ pending[t] # {}
    /\ LET e == CHOOSE x \in pending[t] : TRUE
       IN  /\ evidence' = evidence \cup {e}
           /\ pending' = [pending EXCEPT ![t] = @ \ {e}]
    /\ UNCHANGED <<stored, frames, edges, stage, step, call, plan, seen, nodes,
                   traced, impacted, queued, calls, report, unwanted, torn>>

\* The edges that a rebuild makes of evidence: between two memories, and
\* between two frames.
Materialised(events) ==
    {Link(e) :
        e \in {x \in events : \/ x.from.kind = "memory" /\ x.to.kind = "memory"
                              \/ {x.from, x.to} \subseteq Frame /\ x.rel \in Logic}}

\* rebuild() reads the evidence ...
ReadEvidence(t) ==
    /\ stage[t] # "idle" /\ step[t] = "append" /\ pending[t] = {}
    /\ seen' = [seen EXCEPT ![t] = evidence]
    /\ step' = [step EXCEPT ![t] = "write"]
    /\ UNCHANGED <<tables, stage, call, plan, pending, nodes,
                   traced, impacted, queued, calls, report, unwanted, torn>>

\* sleep() returns its report: the compiled frames, and the memories of each,
\* by pairing the frames with the clusters it planned.
Report(t) ==
    [nodes |-> ToSet(nodes[t]), replayed |-> UNION ToSet(plan[t]),
     links |-> {<<nodes[t][i], plan[t][i]>> : i \in DOMAIN nodes[t] \cap DOMAIN plan[t]}]

\* (variant) the edges of before are not cleared.
WriteEdgesUncleared(t) ==
    /\ stage[t] # "idle" /\ step[t] = "write"
    /\ edges' = edges \cup Materialised(seen[t])
    /\ seen' = [seen EXCEPT ![t] = {}]
    /\ torn' = FALSE
    /\ Leave(t, nodes[t])
    /\ UNCHANGED <<stored, frames, evidence, traced, impacted, queued, calls, report, unwanted>>

\* ... and replaces the edges by those it makes; then t leaves the stage.
WriteEdges(t) ==
    /\ stage[t] # "idle" /\ step[t] = "write"
    /\ edges' = Materialised(seen[t])
    /\ seen' = [seen EXCEPT ![t] = {}]
    /\ torn' = FALSE
    /\ Leave(t, nodes[t])
    /\ report' = IF stage[t] = "last" /\ call[t].name = "sleep" THEN Report(t) ELSE report
    /\ UNCHANGED <<stored, frames, evidence, traced, impacted, queued, calls, unwanted>>

-----------------------------------------------------------------------------
(* The calls                                                                *)

\* observe_and_commit() stores a memory; its experience may be of high impact.
Observe(t, m) ==
    /\ m \notin stored
    /\ Call(t, "observe", {m}, "graph", "commit")
    /\ stored' = stored \cup {m}
    /\ impacted' \in {impacted, impacted \cup {m}}
    /\ traced' = {}
    /\ UNCHANGED <<frames, edges, evidence, plan, pending, seen, nodes, queued, report, unwanted, torn>>

\* _handle_retrieval_graph_commit() after a retrieval that selected s, of
\* which at most MaxMembers can matter to a sleep.
Retrieve(t, s) ==
    /\ \E kept \in SUBSET s :
        /\ Cardinality(kept) = Min({Cardinality(s), MaxMembers})
        /\ traced' = kept
    /\ \E mode \in CommitModes :
        LET pair == Cardinality(s) > 1
        IN  \/ /\ mode = "sync" /\ pair
               /\ Call(t, "retrieve", s, "graph", "commit")
               /\ UNCHANGED queued
            \/ /\ mode # "sync" \/ ~pair
               /\ Call(t, "retrieve", s, "idle", "commit")
               /\ queued' = IF mode = "async" /\ pair THEN queued \cup {s} ELSE queued
    /\ UNCHANGED <<tables, plan, pending, seen, nodes, impacted, report, unwanted, torn>>

\* The job queue runs a retrieval_graph_commit.
TakeJob(t, s) ==
    /\ t \in Background /\ stage[t] = "idle" /\ s \in queued
    /\ queued' = queued \ {s}
    /\ call' = [call EXCEPT ![t] = [name |-> "retrieve", of |-> s]]
    /\ stage' = [stage EXCEPT ![t] = "graph"]
    /\ step' = [step EXCEPT ![t] = "commit"]
    /\ UNCHANGED <<tables, plan, pending, seen, nodes, traced, impacted, calls, report, unwanted, torn>>

Propose(t) ==
    /\ Call(t, "propose", {}, "given", "commit")
    /\ UNCHANGED <<tables, plan, pending, seen, nodes, traced, impacted, queued, report, unwanted, torn>>

\* forget() of a memory: an event, then the rebuild.
Forget(t, m) ==
    /\ m \in stored
    /\ Call(t, "forget", {m}, "last", "append")
    /\ pending' = [pending EXCEPT ![t] =
                       {[type |-> "inhibit", from |-> Outside(m), to |-> Mem(m), rel |-> "inhibits"]}]
    /\ unwanted' = unwanted \cup {m}
    /\ UNCHANGED <<tables, plan, seen, nodes, traced, impacted, queued, report, torn>>

\* sleep() plans its clusters and writes its transaction of ledger rows.
Sleep(t) ==
    /\ Call(t, "sleep", UNION ToSet(ReplayClusters), "graph", "commit")
    /\ plan' = [plan EXCEPT ![t] = ReplayClusters]
    /\ UNCHANGED <<tables, pending, seen, nodes, traced, impacted, queued, report, unwanted, torn>>

\* The process dies and starts again: what is not in the database is gone.
Crash ==
    /\ \E t \in Thread : stage[t] # "idle"
    /\ calls < MaxCalls
    /\ calls' = calls + 1
    /\ stage' = [t \in Thread |-> "idle"]
    /\ step' = [t \in Thread |-> "commit"]
    /\ call' = [t \in Thread |-> Nothing]
    /\ plan' = [t \in Thread |-> <<>>]
    /\ pending' = [t \in Thread |-> {}]
    /\ seen' = [t \in Thread |-> {}]
    /\ nodes' = [t \in Thread |-> <<>>]
    /\ traced' = {} /\ queued' = {}
    /\ torn' = (torn \/ ~(edges \subseteq Materialised(evidence)))
    /\ UNCHANGED <<tables, impacted, report, unwanted>>

Next ==
    \/ \E t \in Thread :
        \/ CommitGraph(t) \/ CommitCrystal(t) \/ CommitGiven(t)
        \/ AppendEvidence(t) \/ ReadEvidence(t) \/ WriteEdges(t)
        \/ \E m \in Memory : Observe(t, m) \/ Forget(t, m)
        \/ \E s \in SUBSET stored : Retrieve(t, s) \/ TakeJob(t, s)
        \/ Propose(t) \/ Sleep(t)
    \/ Crash

Spec == Init /\ [][Next]_vars

-----------------------------------------------------------------------------
(* Properties                                                               *)

TypeOK ==
    /\ stored \subseteq Memory /\ traced \subseteq Memory /\ impacted \subseteq Memory
    /\ unwanted \subseteq Memory /\ queued \subseteq SUBSET Memory
    /\ frames \subseteq Frame
    /\ edges \subseteq Edge
    /\ evidence \subseteq Event
    /\ calls \in 0..MaxCalls /\ torn \in BOOLEAN
    /\ \A t \in Thread :
        /\ stage[t] \in {"idle", "graph", "crystal", "given", "last"}
        /\ step[t] \in {"commit", "append", "write"}
        /\ call[t].name \in {"none", "observe", "retrieve", "propose", "forget", "sleep"}
        /\ call[t].of \subseteq Memory
        /\ ToSet(plan[t]) \subseteq SUBSET Memory /\ ToSet(nodes[t]) \subseteq Frame
        /\ pending[t] \subseteq Event /\ seen[t] \subseteq Event

\* What an edge or an event may hang from: a stored memory, or a frame of the
\* store.
Known(n) == IF n.kind = "memory" THEN n.of \subseteq stored ELSE n \in frames

\* Every frame is about stored memories, and every edge joins two different
\* nodes of the store, whichever transactions, rebuilds and crashes went
\* before: the logic validator needs both frames in the transaction, and
\* evidence follows it, never the other way round.
StructureRooted ==
    /\ \A f \in frames : f.of # {} /\ f.of \subseteq stored
    /\ \A e \in edges : e.from # e.to /\ Known(e.from) /\ Known(e.to)
    /\ \A e \in Materialised(evidence) :
        e.from # e.to /\ Known(e.from) /\ Known(e.to)

\* A sleep that reports its frames has left all of them: the frame of each
\* memory of a cluster, the evidence that the compiled frame derives from it,
\* and, for each compiled frame, evidence from every memory replayed. A link of
\* the report names the memories its frame was compiled from, and the links
\* cover what was replayed.
SleepIsWhole ==
    report # None =>
        /\ report.nodes \cup {FrameOf(m) : m \in UNION {f.of : f \in report.nodes}} \subseteq frames
        /\ \A f \in report.nodes : \A m \in f.of :
            [type |-> "derive", from |-> FrameOf(m), to |-> f, rel |-> "derived_from"] \in evidence
        /\ \A f \in report.nodes, m \in report.replayed :
            [type |-> "derive", from |-> Mem(m), to |-> f, rel |-> "derived_from"] \in evidence
        /\ \A l \in report.links : l[1] \in report.nodes /\ l[1].of = l[2]
        /\ UNION {l[2] : l \in report.links} = report.replayed

\* What suppresses a memory is that a caller asked for it, by forget() or by a
\* policy of their own. What the graph and sleep infer never hides a memory,
\* although sleep replays the memories in conflict together.
OnlyUnwantedIsHidden ==
    \A e \in evidence : e.type \in Hiding /\ e.to.kind = "memory" =>
        e.to.of \subseteq unwanted

\* The edges that a policy's transaction writes do not outlast its rebuild
\* unless evidence says the same: when every operation has ended, the edges
\* are among those of the evidence. Only a crash between the two leaves more,
\* until the next rebuild.
EdgesAreEvidenced ==
    ~torn /\ (\A t \in Thread : stage[t] = "idle") => edges \subseteq Materialised(evidence)

=============================================================================
