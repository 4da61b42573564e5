------------------------------ MODULE Worldview ------------------------------
(***************************************************************************)
(* The materialised views of neuromem_runtime: edge evidence, the rebuild   *)
(* of edges, slots and candidates from it (WorldviewMaterializer.rebuild()  *)
(* of materializer.py), and the operations of runtime.py that append        *)
(* evidence and rebuild: forget(), after_turn(), the claims and the graph   *)
(* route; resolve_worldview() and the second half of query() rebuild and    *)
(* then read the view.                                                      *)
(*                                                                          *)
(* Every statement on the ledger's or the store's tables is a commit of its *)
(* own. Threads rebuild at the same time when the job queue commits         *)
(* retrieval graphs (retrieval_graph_commit=async) or a second process      *)
(* works on the file. An event's created_at, by which events are read back, *)
(* is taken in the step that appends it. Scores and weights are left out:   *)
(* an aggregate whose weight is within 0.001 of zero is not modelled.       *)
(***************************************************************************)
EXTENDS Naturals, SequencesExt

CONSTANTS
    Thread,       \* threads that work on the database
    Background,   \* those of the job queue, which only commit graphs
    Memory,       \* the memories of the namespace
    Frame,        \* its frames
    Claim,        \* its grounded claims
    SourcesOf,    \* SourcesOf[f]: source_memory_ids of frame f
    Key,          \* slot keys (key, kind, scope)
    KeyOf,        \* KeyOf[s]: the slot of a memory, frame or claim
    MaxEvidence,  \* bound on the evidence events
    MaxSlot,      \* bound on the slot ids in use at a time
    None          \* no edge, no slot, no rebuild

Source == Memory \cup Frame \cup Claim

ASSUME ThreadAssumption == Background \subseteq Thread
ASSUME KindAssumption ==
    /\ Memory \cap Frame = {} /\ Memory \cap Claim = {} /\ Frame \cap Claim = {}
ASSUME FrameAssumption == SourcesOf \in [Frame -> SUBSET Memory]
ASSUME KeyAssumption == KeyOf \in [Source -> Key]
ASSUME BoundAssumption == MaxEvidence \in Nat /\ MaxSlot \in Nat
ASSUME NoneAssumption == None \notin Nat /\ None \notin Memory \X Memory /\ None \notin Source

VARIABLES
    evidence,   \* edge_evidence_events, by created_at
    edges,      \* associative_edges and logic_edges
    slots,      \* slots[k]: slot_id of the row of worldview_slots with key k
    rows,       \* worldview_candidates
    mode,       \* mode[t]: what t does next
    asked,      \* asked[t]: t's rebuild is that of a query
    pending,    \* pending[t]: the evidence t has yet to append
    seen,       \* seen[t]: how many events t's rebuild has read
    left,       \* left[t]: the edges t has yet to write
    todo,       \* todo[t]: the sources t has yet to write candidates for
    source,     \* source[t]: the one it works on
    slot,       \* slot[t]: and the slot_id it holds for it
    packet,     \* packet[t]: the sources t's last answer shows
    hidden,     \* hidden[t]: suppressed since t asked (history)
    alone,      \* alone[t]: no other thread wrote during t's rebuild (history)
    clean       \* the events of the last rebuild that ran alone, until
                \* another one begins (history)

tables == <<evidence, edges, slots, rows>>
history == <<hidden, alone, clean>>
vars == <<tables, mode, asked, pending, seen, left, todo, source, slot, packet, history>>

Edge == Memory \X Memory
EventType == {"support", "supersede", "inhibit", "decay", "reinforce"}
Hiding == {"inhibit", "supersede"}    \* suppress and expire are like inhibit
Showing == {"reinforce"}              \* restore is like reinforce; contradict,
                                      \* derive and generalize are like support
Event == [type : EventType, target : Memory \cup Claim, edge : Edge \cup {None}]
SlotId == 1..MaxSlot
Row == [source : Source, slot : SlotId, status : {"active", "suppressed"}]

\* The modes of a thread inside rebuild(), and of one that writes a slot.
Rebuilding == {"edges", "write", "select", "insert", "candidate"}

Init ==
    /\ evidence = <<>>
    /\ edges = {}
    /\ slots = [k \in Key |-> None]
    /\ rows = {}
    /\ mode = [t \in Thread |-> "idle"]
    /\ asked = [t \in Thread |-> FALSE]
    /\ pending = [t \in Thread |-> {}]
    /\ seen = [t \in Thread |-> 0]
    /\ left = [t \in Thread |-> {}]
    /\ todo = [t \in Thread |-> {}]
    /\ source = [t \in Thread |-> None]
    /\ slot = [t \in Thread |-> None]
    /\ packet = [t \in Thread |-> {}]
    /\ hidden = [t \in Thread |-> {}]
    /\ alone = [t \in Thread |-> FALSE]
    /\ clean = None

Goto(t, place) == mode' = [mode EXCEPT ![t] = place]

\* active_suppressed_memory_ids() and the claims: what the first n events hide.
HiddenAfter(n) ==
    {x \in Memory \cup Claim :
        \E i \in 1..n :
            /\ evidence[i].target = x /\ evidence[i].type \in Hiding
            /\ \A j \in i..n : evidence[j].target = x => evidence[j].type \notin Showing}

\* aggregate(): one edge for each pair of memories that evidence connects.
EdgesAfter(n) == {evidence[i].edge : i \in 1..n} \ {None}

\* The sources that get a candidate: a memory that a frame stands for only if
\* it is suppressed.
Framed == UNION {SourcesOf[f] : f \in Frame}
Candidates(hid) == Claim \cup Frame \cup {m \in Memory : m \notin Framed \/ m \in hid}

\* The memories and claims a candidate speaks for.
About(s) == IF s \in Frame THEN SourcesOf[s] ELSE {s}

Status(s, hid) == IF About(s) \cap hid = {} THEN "active" ELSE "suppressed"

-----------------------------------------------------------------------------
(* Operations that append evidence                                          *)

\* What an operation is about to append; a rebuild follows.
Begin(t, events) ==
    /\ mode[t] = "idle"
    /\ Len(evidence) < MaxEvidence
    /\ pending' = [pending EXCEPT ![t] = events]
    /\ asked' = [asked EXCEPT ![t] = FALSE]

\* forget(), and the suppression policies of commit().
Forget(t, m) ==
    /\ \E type \in {"inhibit", "decay"} :
        Begin(t, {[type |-> type, target |-> m, edge |-> None]})
    /\ Goto(t, "append")
    /\ UNCHANGED <<tables, seen, left, todo, source, slot, packet, history>>

\* The pairs of the memories that a turn selected: each with those after it, a
\* single one with itself.
TurnPairs ==
    {{<<m, m>>} : m \in Memory} \cup
    {p \in SUBSET Edge :
        /\ p # {}
        /\ LET chosen == {e[1] : e \in p} \cup {e[2] : e \in p}
           IN  /\ \A a, b \in chosen : a # b => (<<a, b>> \in p <=> <<b, a>> \notin p)
               /\ \A a \in chosen : <<a, a>> \notin p
               /\ \A a, b, c \in chosen : <<a, b>> \in p /\ <<b, c>> \in p => <<a, c>> \in p}

\* after_turn(): a success reinforces the pairs, anything else inhibits them.
AfterTurn(t, pairs) ==
    /\ \E type \in {"reinforce", "inhibit"} :
        Begin(t, {[type |-> type, target |-> p[2], edge |-> p] : p \in pairs})
    /\ Goto(t, "append")
    /\ UNCHANGED <<tables, seen, left, todo, source, slot, packet, history>>

\* A governed graph policy: the executor commits the edge, its evidence is
\* appended after that.
CommitGraph(t, e) ==
    /\ \E type \in {"support", "supersede"} :
        Begin(t, {[type |-> type, target |-> e[2], edge |-> e]})
    /\ edges' = edges \cup {e}
    /\ Goto(t, "append")
    /\ UNCHANGED <<evidence, slots, rows, seen, left, todo, source, slot, packet, history>>

\* A slot id that uuid4 has not given before: one that is nowhere in use.
FreshSlot ==
    SlotId \ ({slots[k] : k \in Key} \cup {r.slot : r \in rows} \cup {slot[t] : t \in Thread})

\* (variant) the id of a new record is forgotten.
FindSlotOnly(t, s) ==
    /\ source' = [source EXCEPT ![t] = s]
    /\ slot' = [slot EXCEPT ![t] = slots[KeyOf[s]]]
    /\ Goto(t, "insert")

\* SELECT slot_id ... : the id that is there, or the new record's own.
FindSlot(t, s) ==
    /\ source' = [source EXCEPT ![t] = s]
    /\ IF slots[KeyOf[s]] # None
         THEN slot' = [slot EXCEPT ![t] = slots[KeyOf[s]]]
         ELSE \E id \in FreshSlot :
                /\ \A other \in FreshSlot : id <= other
                /\ slot' = [slot EXCEPT ![t] = id]
    /\ Goto(t, "insert")

\* The claims of an experience: _route_grounded_claims() finds the claim's slot,
\* supports the claim and supersedes what it corrects.
RouteClaim(t, c, targets) ==
    /\ Begin(t, {[type |-> "support", target |-> c, edge |-> None]} \cup
                {[type |-> "supersede", target |-> x, edge |-> None] : x \in targets})
    /\ FindSlot(t, c)
    /\ alone' = [u \in Thread |-> FALSE]
    /\ UNCHANGED <<tables, seen, left, todo, packet, hidden, clean>>

\* One append_edge_evidence(); after the last one the rebuild begins.
AppendEvidence(t) ==
    /\ mode[t] = "append"
    /\ Len(evidence) < MaxEvidence
    /\ \E e \in pending[t] :
        /\ evidence' = Append(evidence, e)
        /\ pending' = [pending EXCEPT ![t] = @ \ {e}]
        /\ Goto(t, IF pending[t] = {e} THEN "read" ELSE "append")
        /\ hidden' = [u \in Thread |-> IF e.type \in Showing THEN hidden[u] \ {e.target} ELSE hidden[u]]
    /\ UNCHANGED <<edges, slots, rows, asked, seen, left, todo, source, slot, packet, alone, clean>>

\* query() with include_worldview, resolve_worldview().
Ask(t) ==
    /\ mode[t] = "idle"
    /\ asked' = [asked EXCEPT ![t] = TRUE]
    /\ hidden' = [hidden EXCEPT ![t] = HiddenAfter(Len(evidence))]
    /\ packet' = [packet EXCEPT ![t] = {}]
    /\ Goto(t, "read")
    /\ UNCHANGED <<tables, pending, seen, left, todo, source, slot, alone, clean>>

-----------------------------------------------------------------------------
(* rebuild()                                                                *)

\* edge_evidence_events() and aggregate().
ReadEvidence(t) ==
    /\ mode[t] = "read"
    /\ seen' = [seen EXCEPT ![t] = Len(evidence)]
    /\ left' = [left EXCEPT ![t] = EdgesAfter(Len(evidence))]
    /\ alone' = [u \in Thread |-> u = t /\ \A v \in Thread \ {t} : mode[v] \notin Rebuilding]
    /\ clean' = None
    /\ Goto(t, "edges")
    /\ UNCHANGED <<tables, asked, pending, todo, source, slot, packet, hidden>>

\* _clear_materialized_edges(): both tables in one commit.
ClearEdges(t) ==
    /\ mode[t] = "edges"
    /\ edges' = {}
    /\ Goto(t, "write")
    /\ UNCHANGED <<evidence, slots, rows, asked, pending, seen, left, todo, source, slot, packet, history>>

\* add_associative_edge(), add_logic_edge(): an upsert each.
WriteEdge(t) ==
    /\ mode[t] = "write"
    /\ \E e \in left[t] :
        /\ edges' = edges \cup {e}
        /\ left' = [left EXCEPT ![t] = @ \ {e}]
    /\ UNCHANGED <<evidence, slots, rows, mode, asked, pending, seen, todo, source, slot, packet, history>>

\* (variant) the rebuild overwrites candidates and clears none.
ClearNothing(t) ==
    /\ mode[t] = "write"
    /\ left[t] = {}
    /\ todo' = [todo EXCEPT ![t] = Candidates(HiddenAfter(seen[t]))]
    /\ Goto(t, "select")
    /\ UNCHANGED <<tables, asked, pending, seen, left, source, slot, packet, history>>

\* clear_worldview_materialization(): both tables in one commit.
ClearView(t) ==
    /\ mode[t] = "write"
    /\ left[t] = {}
    /\ slots' = [k \in Key |-> None]
    /\ rows' = {}
    /\ todo' = [todo EXCEPT ![t] = Candidates(HiddenAfter(seen[t]))]
    /\ Goto(t, "select")
    /\ UNCHANGED <<evidence, edges, asked, pending, seen, left, source, slot, packet, history>>

\* Claims first, then frames, then memories.
NextSources(t) ==
    LET waiting(S) == todo[t] \cap S
    IN  IF waiting(Claim) # {} THEN waiting(Claim)
        ELSE IF waiting(Frame) # {} THEN waiting(Frame) ELSE todo[t]

\* upsert_worldview_slot(): the SELECT, ...
SelectSlot(t) ==
    /\ mode[t] = "select"
    /\ \E s \in NextSources(t) :
        /\ FindSlot(t, s)
        /\ todo' = [todo EXCEPT ![t] = @ \ {s}]
    /\ UNCHANGED <<tables, asked, pending, seen, left, packet, history>>

\* ... and INSERT ... ON CONFLICT(key) DO UPDATE SET updated_at: a row that is
\* there by now keeps its id, whatever id the thread holds.
InsertSlot(t) ==
    /\ mode[t] = "insert"
    /\ LET k == KeyOf[source[t]]
       IN  slots' = [slots EXCEPT ![k] = IF @ = None THEN slot[t] ELSE @]
    /\ Goto(t, IF pending[t] # {} THEN "append" ELSE "candidate")
    /\ UNCHANGED <<evidence, edges, rows, asked, pending, seen, left, todo, source, slot, packet, history>>

\* (variant) a random candidate_id: no row is ever replaced.
KeepsRow(r, t) == TRUE

\* candidate_id: a claim's own, a memory's or a frame's derived from its slot;
\* ON CONFLICT(candidate_id) replaces the row.
OtherRow(r, t) == r.source # source[t] \/ (source[t] \notin Claim /\ r.slot # slot[t])

\* upsert_worldview_candidate()
UpsertCandidate(t) ==
    /\ mode[t] = "candidate"
    /\ rows' = {r \in rows : OtherRow(r, t)} \cup
               {[source |-> source[t], slot |-> slot[t],
                 status |-> Status(source[t], HiddenAfter(seen[t]))]}
    /\ slot' = [slot EXCEPT ![t] = None]
    /\ source' = [source EXCEPT ![t] = None]
    /\ Goto(t, "select")
    /\ UNCHANGED <<evidence, edges, slots, asked, pending, seen, left, todo, packet, history>>

\* rebuild() returns; a query goes on to read the view.
EndRebuild(t) ==
    /\ mode[t] = "select"
    /\ todo[t] = {}
    /\ Goto(t, IF asked[t] THEN "resolve" ELSE "idle")
    /\ clean' = IF alone[t] THEN seen[t] ELSE clean
    /\ seen' = [seen EXCEPT ![t] = 0]
    /\ alone' = [alone EXCEPT ![t] = FALSE]
    /\ UNCHANGED <<tables, asked, pending, left, todo, source, slot, packet, hidden>>

-----------------------------------------------------------------------------
(* resolve()                                                                *)

\* worldview_candidates(): the rows joined with their slots.
Visible == {r \in rows : slots[KeyOf[r.source]] = r.slot}

\* The candidates that are not suppressed make the packet; no candidate at all
\* sends resolve() to the memories and frames.
Resolve(t) ==
    /\ mode[t] = "resolve"
    /\ IF Visible # {}
         THEN /\ packet' = [packet EXCEPT ![t] = {r.source : r \in {v \in Visible : v.status = "active"}}]
              /\ Goto(t, "idle")
         ELSE /\ UNCHANGED packet
              /\ Goto(t, "fallback")
    /\ UNCHANGED <<tables, asked, pending, seen, left, todo, source, slot, history>>

\* _fallback_candidates(), with suppressed_memory_ids read last.
Fallback(t) ==
    /\ mode[t] = "fallback"
    /\ packet' = [packet EXCEPT ![t] =
          {s \in Memory \cup Frame : Status(s, HiddenAfter(Len(evidence))) = "active"}]
    /\ Goto(t, "idle")
    /\ UNCHANGED <<tables, asked, pending, seen, left, todo, source, slot, history>>

-----------------------------------------------------------------------------
\* An exception ends the operation where it is (the database is locked), or the
\* thread's process dies.
Abort(t) ==
    /\ mode[t] # "idle"
    /\ Goto(t, "idle")
    /\ pending' = [pending EXCEPT ![t] = {}]
    /\ seen' = [seen EXCEPT ![t] = 0]
    /\ left' = [left EXCEPT ![t] = {}]
    /\ todo' = [todo EXCEPT ![t] = {}]
    /\ source' = [source EXCEPT ![t] = None]
    /\ slot' = [slot EXCEPT ![t] = None]
    /\ alone' = [alone EXCEPT ![t] = FALSE]
    /\ UNCHANGED <<tables, asked, packet, hidden, clean>>

RebuildStep(t) ==
    \/ ReadEvidence(t) \/ ClearEdges(t) \/ WriteEdge(t) \/ ClearView(t)
    \/ SelectSlot(t) \/ InsertSlot(t) \/ UpsertCandidate(t) \/ EndRebuild(t)

Next ==
    \/ \E t \in Thread \ Background :
        \/ \E m \in Memory : Forget(t, m)
        \/ \E pairs \in TurnPairs : AfterTurn(t, pairs)
        \/ \E c \in Claim, targets \in SUBSET (Memory \cup Claim) : RouteClaim(t, c, targets \ {c})
        \/ Ask(t) \/ Resolve(t) \/ Fallback(t)
    \/ \E t \in Thread :
        \/ \E e \in Edge : CommitGraph(t, e)
        \/ AppendEvidence(t) \/ RebuildStep(t) \/ Abort(t)

Spec == Init /\ [][Next]_vars

-----------------------------------------------------------------------------
(* Properties                                                               *)

\* Type correctness; a thread that writes a slot or a candidate has its ids.
TypeOK ==
    /\ evidence \in Seq(Event)
    /\ edges \subseteq Edge
    /\ slots \in [Key -> SlotId \cup {None}]
    /\ rows \subseteq Row
    /\ mode \in [Thread -> {"idle", "append", "read", "resolve", "fallback"} \cup Rebuilding]
    /\ asked \in [Thread -> BOOLEAN]
    /\ pending \in [Thread -> SUBSET Event]
    /\ seen \in [Thread -> Nat]
    /\ left \in [Thread -> SUBSET Edge]
    /\ todo \in [Thread -> SUBSET Source]
    /\ source \in [Thread -> Source \cup {None}]
    /\ slot \in [Thread -> SlotId \cup {None}]
    /\ packet \in [Thread -> SUBSET Source]
    /\ hidden \in [Thread -> SUBSET (Memory \cup Claim)]
    /\ alone \in [Thread -> BOOLEAN]
    /\ clean \in Nat \cup {None}
    /\ \A t \in Thread : mode[t] \in {"insert", "candidate"} => source[t] # None /\ slot[t] # None

\* However rebuilds interleave and wherever they stop, the view never shows a
\* memory, a frame or a claim twice.
OneVisibleRow ==
    \A r, v \in Visible : r.source = v.source => r = v

\* A rebuild that no other thread disturbed repairs what interleaved and
\* aborted ones left behind: the view has one row for each candidate, with the
\* status that the evidence gives it, and the edges of all evidence.
UndisturbedRebuildIsExact ==
    clean # None =>
        /\ {[source |-> r.source, status |-> r.status] : r \in Visible} =
              {[source |-> s, status |-> Status(s, HiddenAfter(clean))] :
                  s \in Candidates(HiddenAfter(clean))}
        /\ EdgesAfter(clean) \subseteq edges

\* What was suppressed before the question, and has been ever since, is in no
\* answer, neither itself nor a frame about it.
ForgottenStaysHidden ==
    \A t \in Thread : \A s \in packet[t] : About(s) \cap hidden[t] = {}

=============================================================================
