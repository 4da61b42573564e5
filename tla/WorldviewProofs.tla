--------------------------- MODULE WorldviewProofs ---------------------------
(***************************************************************************)
(* What the rebuilds of Worldview do for any number of threads, memories,   *)
(* frames, claims and slot keys: types, no source twice in the view, and    *)
(* the exact view of a rebuild that nobody disturbed.                       *)
(***************************************************************************)
EXTENDS Worldview, TLAPS

-----------------------------------------------------------------------------
(* Types                                                                    *)

\* No slot id is None.
LEMMA SlotIds == None \notin SlotId
  BY NoneAssumption, BoundAssumption DEF SlotId

\* A slot is found for a source: its key's, or one that is not in use.
LEMMA FindSlotTypes ==
    ASSUME TypeOK, NEW t \in Thread, NEW s \in Source, FindSlot(t, s)
    PROVE  /\ source' = [source EXCEPT ![t] = s]
           /\ mode' = [mode EXCEPT ![t] = "insert"]
           /\ slot' \in [Thread -> SlotId \cup {None}]
           /\ slot'[t] \in SlotId
           /\ slots[KeyOf[s]] # None => slot'[t] = slots[KeyOf[s]]
           /\ slots[KeyOf[s]] = None => slot'[t] \in FreshSlot
           /\ \A u \in Thread \ {t} : slot'[u] = slot[u]
<1>1. KeyOf[s] \in Key /\ slots[KeyOf[s]] \in SlotId \cup {None}
  BY KeyAssumption DEF TypeOK
<1>2. CASE slots[KeyOf[s]] # None
  BY <1>1, <1>2 DEF FindSlot, Goto, TypeOK
<1>3. CASE slots[KeyOf[s]] = None
  <2>1. PICK id \in FreshSlot : slot' = [slot EXCEPT ![t] = id]
    BY <1>3 DEF FindSlot
  <2>2. id \in SlotId
    BY DEF FreshSlot
  <2> QED BY <1>3, <2>1, <2>2 DEF FindSlot, Goto, TypeOK
<1> QED BY <1>2, <1>3

\* The candidates are sources.
LEMMA CandidateTypes ==
    ASSUME NEW hid PROVE Candidates(hid) \subseteq Source
  BY DEF Candidates, Source

\* The tables and registers keep their types.
THEOREM TypeCorrect == Spec => []TypeOK
<1> USE NoneAssumption
<1>1. Init => TypeOK
  BY DEF Init, TypeOK
<1>2. TypeOK /\ [Next]_vars => TypeOK'
  <2> SUFFICES ASSUME TypeOK, [Next]_vars PROVE TypeOK'
    OBVIOUS
  <2> USE DEF TypeOK, Goto, tables, history, Rebuilding
  <2>1. ASSUME NEW t \in Thread, NEW m \in Memory, Forget(t, m) PROVE TypeOK'
    <3>1. PICK type \in {"inhibit", "decay"} :
             Begin(t, {[type |-> type, target |-> m, edge |-> None]})
      BY <2>1 DEF Forget
    <3>2. [type |-> type, target |-> m, edge |-> None] \in Event
      BY DEF Event, EventType
    <3> QED BY <2>1, <3>1, <3>2 DEF Forget, Begin
  <2>2. ASSUME NEW t \in Thread, NEW pairs \in TurnPairs, AfterTurn(t, pairs) PROVE TypeOK'
    <3>1. PICK type \in {"reinforce", "inhibit"} :
             Begin(t, {[type |-> type, target |-> p[2], edge |-> p] : p \in pairs})
      BY <2>2 DEF AfterTurn
    <3>2. pairs \subseteq Edge
      BY DEF TurnPairs, Edge
    <3>3. ASSUME NEW p \in pairs PROVE [type |-> type, target |-> p[2], edge |-> p] \in Event
      BY <3>2 DEF Event, EventType, Edge
    <3>4. {[type |-> type, target |-> p[2], edge |-> p] : p \in pairs} \in SUBSET Event
      BY <3>3
    <3> QED BY <2>2, <3>1, <3>4 DEF AfterTurn, Begin
  <2>3. ASSUME NEW t \in Thread, NEW e \in Edge, CommitGraph(t, e) PROVE TypeOK'
    <3>1. PICK type \in {"support", "supersede"} :
             Begin(t, {[type |-> type, target |-> e[2], edge |-> e]})
      BY <2>3 DEF CommitGraph
    <3>2. [type |-> type, target |-> e[2], edge |-> e] \in Event
      BY DEF Event, EventType, Edge
    <3> QED BY <2>3, <3>1, <3>2 DEF CommitGraph, Begin
  <2>4. ASSUME NEW t \in Thread, NEW c \in Claim, NEW targets \in SUBSET (Memory \cup Claim),
               RouteClaim(t, c, targets)
        PROVE  TypeOK'
    <3>1. c \in Source
      BY DEF Source
    <3>2. /\ source' = [source EXCEPT ![t] = c]
          /\ mode' = [mode EXCEPT ![t] = "insert"]
          /\ slot' \in [Thread -> SlotId \cup {None}]
      BY <2>4, <3>1, FindSlotTypes DEF RouteClaim
    <3>3. slot'[t] \in SlotId /\ \A u \in Thread \ {t} : slot'[u] = slot[u]
      BY <2>4, <3>1, FindSlotTypes DEF RouteClaim
    <3>4. \A u \in Thread : mode'[u] \in {"insert", "candidate"} => source'[u] # None /\ slot'[u] # None
      BY <3>1, <3>2, <3>3, SlotIds
    <3>5. {[type |-> "support", target |-> c, edge |-> None]} \cup
          {[type |-> "supersede", target |-> x, edge |-> None] : x \in targets} \subseteq Event
      BY DEF Event, EventType
    <3> QED BY <2>4, <3>1, <3>2, <3>4, <3>5 DEF RouteClaim, Begin
  <2>5. ASSUME NEW t \in Thread, AppendEvidence(t) PROVE TypeOK'
    <3>1. PICK e \in pending[t] :
             /\ evidence' = Append(evidence, e)
             /\ pending' = [pending EXCEPT ![t] = @ \ {e}]
             /\ Goto(t, IF pending[t] = {e} THEN "read" ELSE "append")
             /\ hidden' = [u \in Thread |->
                  IF e.type \in Showing THEN hidden[u] \ {e.target} ELSE hidden[u]]
      BY <2>5 DEF AppendEvidence
    <3>2. e \in Event
      OBVIOUS
    <3>3. evidence' \in Seq(Event)
      BY <3>1, <3>2
    <3>4. hidden' \in [Thread -> SUBSET (Memory \cup Claim)]
      BY <3>1
    <3> QED BY <2>5, <3>1, <3>3, <3>4 DEF AppendEvidence
  <2>6. ASSUME NEW t \in Thread, Ask(t) PROVE TypeOK'
    <3>1. HiddenAfter(Len(evidence)) \subseteq Memory \cup Claim
      BY DEF HiddenAfter
    <3> QED BY <2>6, <3>1 DEF Ask
  <2>7. ASSUME NEW t \in Thread, ReadEvidence(t) PROVE TypeOK'
    <3>1. \A i \in 1..Len(evidence) : evidence[i] \in Event
      OBVIOUS
    <3>2. EdgesAfter(Len(evidence)) \subseteq Edge
      BY <3>1 DEF EdgesAfter, Event
    <3>3. Len(evidence) \in Nat
      OBVIOUS
    <3> QED BY <2>7, <3>2, <3>3 DEF ReadEvidence
  <2>8. ASSUME NEW t \in Thread, ClearEdges(t) PROVE TypeOK'
    BY <2>8 DEF ClearEdges
  <2>9. ASSUME NEW t \in Thread, WriteEdge(t) PROVE TypeOK'
    BY <2>9 DEF WriteEdge
  <2>10. ASSUME NEW t \in Thread, ClearView(t) PROVE TypeOK'
    BY <2>10, CandidateTypes DEF ClearView
  <2>11. ASSUME NEW t \in Thread, SelectSlot(t) PROVE TypeOK'
    <3>1. PICK s \in NextSources(t) : FindSlot(t, s) /\ todo' = [todo EXCEPT ![t] = @ \ {s}]
      BY <2>11 DEF SelectSlot
    <3>2. s \in Source
      BY DEF NextSources
    <3>3. /\ source' = [source EXCEPT ![t] = s]
          /\ mode' = [mode EXCEPT ![t] = "insert"]
          /\ slot' \in [Thread -> SlotId \cup {None}]
      BY <3>1, <3>2, FindSlotTypes
    <3>4. slot'[t] \in SlotId /\ \A u \in Thread \ {t} : slot'[u] = slot[u]
      BY <3>1, <3>2, FindSlotTypes
    <3>5. \A u \in Thread : mode'[u] \in {"insert", "candidate"} => source'[u] # None /\ slot'[u] # None
      BY <3>2, <3>3, <3>4, SlotIds
    <3> QED BY <2>11, <3>1, <3>2, <3>3, <3>5 DEF SelectSlot
  <2>12. ASSUME NEW t \in Thread, InsertSlot(t) PROVE TypeOK'
    <3>1. slots' \in [Key -> SlotId \cup {None}]
      BY <2>12 DEF InsertSlot
    <3> QED BY <2>12, <3>1 DEF InsertSlot
  <2>13. ASSUME NEW t \in Thread, EndRebuild(t) PROVE TypeOK'
    BY <2>13 DEF EndRebuild
  <2>14. ASSUME NEW t \in Thread, Resolve(t) PROVE TypeOK'
    <3>1. {r.source : r \in {v \in Visible : v.status = "active"}} \subseteq Source
      BY DEF Visible, Row
    <3>2. packet' \in [Thread -> SUBSET Source]
      BY <2>14, <3>1 DEF Resolve
    <3>3. \/ mode' = [mode EXCEPT ![t] = "idle"]
          \/ mode' = [mode EXCEPT ![t] = "fallback"]
      BY <2>14 DEF Resolve
    <3> QED BY <2>14, <3>2, <3>3 DEF Resolve
  <2>15. ASSUME NEW t \in Thread, Fallback(t) PROVE TypeOK'
    <3>1. {s \in Memory \cup Frame : Status(s, HiddenAfter(Len(evidence))) = "active"} \subseteq Source
      BY DEF Source
    <3> QED BY <2>15, <3>1 DEF Fallback
  <2>16. ASSUME NEW t \in Thread, Abort(t) PROVE TypeOK'
    BY <2>16 DEF Abort
  <2>17. ASSUME NEW t \in Thread, UpsertCandidate(t) PROVE TypeOK'
    <3>1. source[t] \in Source /\ slot[t] \in SlotId
      BY <2>17 DEF UpsertCandidate
    <3>2. Status(source[t], HiddenAfter(seen[t])) \in {"active", "suppressed"}
      BY DEF Status
    <3>3. rows' \subseteq Row
      BY <2>17, <3>1, <3>2 DEF UpsertCandidate, Row
    <3> QED BY <2>17, <3>3 DEF UpsertCandidate
  <2>18. CASE UNCHANGED vars
    BY <2>18 DEF vars
  <2> QED
    BY <2>1, <2>2, <2>3, <2>4, <2>5, <2>6, <2>7, <2>8, <2>9, <2>10, <2>11, <2>12, <2>13,
       <2>14, <2>15, <2>16, <2>17, <2>18 DEF Next, RebuildStep
<1> QED BY <1>1, <1>2, PTL DEF Spec

-----------------------------------------------------------------------------
(* No source twice                                                          *)

\* A source has one row per slot. (A claim has one row in all, but for the view
\* this is enough: it shows the rows of the one slot that the key has.)
RowInv == \A r, v \in rows : r.source = v.source /\ r.slot = v.slot => r = v

\* Rows are only removed, but for the one that replaces what is like it.
LEMMA RowInvNext ==
    ASSUME RowInv, [Next]_vars PROVE RowInv'
<1>1. ASSUME rows' \subseteq rows PROVE RowInv'
  BY <1>1 DEF RowInv
<1>2. ASSUME NEW t \in Thread, UpsertCandidate(t) PROVE RowInv'
  <2> DEFINE new == [source |-> source[t], slot |-> slot[t],
                     status |-> Status(source[t], HiddenAfter(seen[t]))]
  <2>1. rows' = {r \in rows : OtherRow(r, t)} \cup {new}
    BY <1>2 DEF UpsertCandidate
  <2>2. new.source = source[t] /\ new.slot = slot[t]
    OBVIOUS
  <2> HIDE DEF new
  <2>3. \A r \in rows : OtherRow(r, t) => ~ (r.source = new.source /\ r.slot = new.slot)
    BY <2>2 DEF OtherRow
  <2> QED BY <2>1, <2>3 DEF RowInv
<1>3. ASSUME NEW t \in Thread, ClearView(t) PROVE RowInv'
  BY <1>3, <1>1 DEF ClearView
<1> QED
  BY <1>1, <1>2, <1>3 DEF Next, RebuildStep, vars, tables, Forget, AfterTurn, RouteClaim, Ask,
     Resolve, Fallback, CommitGraph, AppendEvidence, ReadEvidence, ClearEdges, WriteEdge,
     SelectSlot, InsertSlot, EndRebuild, Abort

\* However many threads rebuild, route and abort: no source is shown twice.
THEOREM OneVisibleRowCorrect == Spec => []OneVisibleRow
<1>1. Init => RowInv
  BY DEF Init, RowInv
<1>2. RowInv => OneVisibleRow
  BY DEF RowInv, OneVisibleRow, Visible
<1> QED BY <1>1, <1>2, RowInvNext, PTL DEF Spec

-----------------------------------------------------------------------------
(* The rebuild that nobody disturbs                                         *)

\* EdgesAfter and HiddenAfter of a given sequence of events.
EdgesIn(events, n) == {events[i].edge : i \in 1..n} \ {None}

HiddenIn(events, n) ==
    {x \in Memory \cup Claim :
        \E i \in 1..n :
            /\ events[i].target = x /\ events[i].type \in Hiding
            /\ \A j \in i..n : events[j].target = x => events[j].type \notin Showing}

\* What a rebuild of the current evidence writes is what these say of it.
LEMMA ReadsEvidence ==
    \A n : EdgesAfter(n) = EdgesIn(evidence, n) /\ HiddenAfter(n) = HiddenIn(evidence, n)
  BY DEF EdgesAfter, EdgesIn, HiddenAfter, HiddenIn

\* What the first n events say does not change when one is appended.
LEMMA PastIsFixed ==
    ASSUME NEW S, NEW events \in Seq(S), NEW e \in S, NEW n \in Nat, n <= Len(events)
    PROVE  /\ EdgesIn(Append(events, e), n) = EdgesIn(events, n)
           /\ HiddenIn(Append(events, e), n) = HiddenIn(events, n)
<1> DEFINE more == Append(events, e)
<1>1. \A i \in 1..n : more[i] = events[i]
  OBVIOUS
<1>2. \A i \in 1..n : \A j \in i..n : more[j] = events[j]
  BY <1>1
<1> HIDE DEF more
<1>3. EdgesIn(more, n) = EdgesIn(events, n)
  BY <1>1 DEF EdgesIn
<1>4. HiddenIn(more, n) = HiddenIn(events, n)
  BY <1>1, <1>2 DEF HiddenIn
<1> QED BY <1>3, <1>4 DEF more

\* The rows rs are those of the sources S, each with its status.
Shows(rs, S, hid) ==
    /\ \A r \in rs : r.source \in S /\ r.status = Status(r.source, hid)
    /\ \A s \in S : \E r \in rs : r.source = s

\* Every row is in the slot of its source's key.
Placed(rs, at) == \A r \in rs : at[KeyOf[r.source]] = r.slot

\* What t's rebuild has written of its candidates.
Waiting(t) == IF mode[t] = "select" THEN todo[t] ELSE todo[t] \cup {source[t]}

\* While t's rebuild is alone the tables are what it has written so far.
AloneAt(t) ==
    LET hid == HiddenIn(evidence, seen[t])
        drawn == EdgesIn(evidence, seen[t])
    IN  /\ mode[t] \in Rebuilding
        /\ \A u \in Thread \ {t} : mode[u] \notin Rebuilding
        /\ seen[t] <= Len(evidence)
        /\ mode[t] = "edges" => drawn \subseteq left[t]
        /\ mode[t] = "write" => drawn \subseteq edges \cup left[t]
        /\ mode[t] \in {"select", "insert", "candidate"} =>
             /\ drawn \subseteq edges
             /\ todo[t] \subseteq Candidates(hid)
             /\ Placed(rows, slots)
             /\ Shows(rows, Candidates(hid) \ Waiting(t), hid)
        /\ mode[t] \in {"insert", "candidate"} => source[t] \in Candidates(hid) \ todo[t]
        /\ mode[t] = "insert" => slots[KeyOf[source[t]]] \in {None, slot[t]}
        /\ mode[t] = "candidate" => slots[KeyOf[source[t]]] = slot[t]

AloneInv == \A t \in Thread : alone[t] => AloneAt(t)

\* Evidence that is yet to be appended is held by those who append and by the
\* claim route, never by a rebuild that is alone.
PendingInv ==
    \A t \in Thread :
        /\ mode[t] \notin {"append", "insert"} => pending[t] = {}
        /\ alone[t] => pending[t] = {}

\* Since the last rebuild that was alone, nobody but the claim route has been
\* inside the tables.
CleanInv ==
    clean # None =>
        /\ clean <= Len(evidence)
        /\ \A t \in Thread : mode[t] \in Rebuilding => mode[t] = "insert" /\ pending[t] # {}
        /\ Placed(rows, slots)
        /\ Shows(rows, Candidates(HiddenIn(evidence, clean)), HiddenIn(evidence, clean))
        /\ EdgesIn(evidence, clean) \subseteq edges

ViewInv == PendingInv /\ AloneInv /\ CleanInv

\* A step that only appends evidence or adds an edge.
Additive ==
    /\ rows' = rows /\ slots' = slots /\ edges \subseteq edges'
    /\ evidence' = evidence \/ \E e \in Event : evidence' = Append(evidence, e)

\* The registers of t that its rebuild reads.
Undisturbed(t) ==
    /\ mode'[t] = mode[t] /\ seen'[t] = seen[t] /\ left'[t] = left[t] /\ todo'[t] = todo[t]
    /\ source'[t] = source[t] /\ slot'[t] = slot[t]

\* Such a step leaves what was read as it is.
LEMMA AdditiveKeepsPast ==
    ASSUME TypeOK, Additive, NEW n \in Nat, n <= Len(evidence)
    PROVE  /\ EdgesIn(evidence', n) = EdgesIn(evidence, n)
           /\ HiddenIn(evidence', n) = HiddenIn(evidence, n)
           /\ n <= Len(evidence')
<1>1. CASE evidence' = evidence
  BY <1>1
<1>2. CASE \E e \in Event : evidence' = Append(evidence, e)
  <2>1. PICK e \in Event : evidence' = Append(evidence, e)
    BY <1>2
  <2>2. evidence \in Seq(Event)
    BY DEF TypeOK
  <2>3. Len(evidence') = Len(evidence) + 1 /\ Len(evidence) \in Nat
    BY <2>1, <2>2
  <2> QED BY <2>1, <2>2, <2>3, PastIsFixed
<1> QED BY <1>1, <1>2 DEF Additive

\* It disturbs no rebuild of another thread, ...
LEMMA AdditiveKeepsAlone ==
    ASSUME TypeOK, Additive, NEW t \in Thread, AloneAt(t), Undisturbed(t),
           \A u \in Thread \ {t} : mode'[u] \notin Rebuilding
    PROVE  AloneAt(t)'
<1>1. seen[t] \in Nat /\ seen[t] <= Len(evidence)
  BY DEF TypeOK, AloneAt
<1>2. /\ EdgesIn(evidence', seen[t]) = EdgesIn(evidence, seen[t])
      /\ HiddenIn(evidence', seen[t]) = HiddenIn(evidence, seen[t])
      /\ seen[t] <= Len(evidence')
  BY <1>1, AdditiveKeepsPast
<1>3. Waiting(t)' = Waiting(t)
  BY DEF Waiting, Undisturbed
<1> QED BY <1>2, <1>3 DEF AloneAt, Undisturbed, Additive

\* ... and not what the last undisturbed one left.
LEMMA AdditiveKeepsClean ==
    ASSUME TypeOK, Additive, CleanInv, clean' = clean,
           \A t \in Thread : mode'[t] \in Rebuilding => mode'[t] = "insert" /\ pending'[t] # {}
    PROVE  CleanInv'
<1> SUFFICES ASSUME clean # None PROVE CleanInv'
  BY DEF CleanInv
<1>1. clean \in Nat /\ clean <= Len(evidence)
  BY DEF TypeOK, CleanInv
<1>2. /\ EdgesIn(evidence', clean) = EdgesIn(evidence, clean)
      /\ HiddenIn(evidence', clean) = HiddenIn(evidence, clean)
      /\ clean <= Len(evidence')
  BY <1>1, AdditiveKeepsPast
<1> QED BY <1>2 DEF CleanInv, Additive

\* Nobody who is about to append anything is overlooked.
LEMMA PendingInvNext ==
    ASSUME TypeOK, PendingInv, AloneInv, [Next]_vars PROVE PendingInv'
<1> USE DEF TypeOK, PendingInv, Goto, tables, history
<1>a. \A t \in Thread : alone[t] => mode[t] # "idle"
  BY DEF AloneInv, AloneAt, Rebuilding
<1>1. ASSUME NEW t \in Thread, NEW m \in Memory, Forget(t, m) PROVE PendingInv'
  BY <1>a, <1>1 DEF Forget, Begin
<1>2. ASSUME NEW t \in Thread, NEW pairs \in TurnPairs, AfterTurn(t, pairs) PROVE PendingInv'
  BY <1>a, <1>2 DEF AfterTurn, Begin
<1>3. ASSUME NEW t \in Thread, NEW e \in Edge, CommitGraph(t, e) PROVE PendingInv'
  BY <1>a, <1>3 DEF CommitGraph, Begin
<1>4. ASSUME NEW t \in Thread, NEW c \in Claim, NEW targets \in SUBSET (Memory \cup Claim),
             RouteClaim(t, c, targets)
      PROVE  PendingInv'
  BY <1>4 DEF RouteClaim, Begin, FindSlot
<1>5. ASSUME NEW t \in Thread, AppendEvidence(t) PROVE PendingInv'
  BY <1>5 DEF AppendEvidence
<1>6. ASSUME NEW t \in Thread, Ask(t) PROVE PendingInv'
  BY <1>6 DEF Ask
<1>7. ASSUME NEW t \in Thread, ReadEvidence(t) PROVE PendingInv'
  BY <1>7 DEF ReadEvidence
<1>8. ASSUME NEW t \in Thread, ClearEdges(t) \/ WriteEdge(t) \/ ClearView(t) PROVE PendingInv'
  BY <1>8 DEF ClearEdges, WriteEdge, ClearView
<1>9. ASSUME NEW t \in Thread, SelectSlot(t) PROVE PendingInv'
  BY <1>9 DEF SelectSlot, FindSlot
<1>10. ASSUME NEW t \in Thread, InsertSlot(t) PROVE PendingInv'
  BY <1>10 DEF InsertSlot
<1>11. ASSUME NEW t \in Thread, UpsertCandidate(t) \/ EndRebuild(t) PROVE PendingInv'
  BY <1>11 DEF UpsertCandidate, EndRebuild
<1>12. ASSUME NEW t \in Thread, Resolve(t) \/ Fallback(t) PROVE PendingInv'
  BY <1>12 DEF Resolve, Fallback
<1>13. ASSUME NEW t \in Thread, Abort(t) PROVE PendingInv'
  BY <1>13 DEF Abort
<1>14. CASE UNCHANGED vars
  BY <1>14 DEF vars
<1> QED
  BY <1>1, <1>2, <1>3, <1>4, <1>5, <1>6, <1>7, <1>8, <1>9, <1>10, <1>11, <1>12, <1>13, <1>14
     DEF Next, RebuildStep

-----------------------------------------------------------------------------
(* One step of a rebuild that is alone                                      *)

\* The steps by which a rebuild that is alone goes on; the others are elsewhere.
LEMMA AloneStep ==
    ASSUME TypeOK, NEW t \in Thread, AloneAt(t), pending[t] = {}, alone'[t],
           ReadEvidence(t) \/ ClearEdges(t) \/ WriteEdge(t) \/ ClearView(t) \/
           SelectSlot(t) \/ InsertSlot(t) \/ UpsertCandidate(t) \/ EndRebuild(t)
    PROVE  AloneAt(t)'
<1> USE DEF TypeOK, Goto, tables, history
<1> DEFINE hid == HiddenIn(evidence, seen[t])
           drawn == EdgesIn(evidence, seen[t])
<1>1. CASE ReadEvidence(t)
  BY <1>1 DEF ReadEvidence, AloneAt, Rebuilding
<1>2. CASE ClearEdges(t)
  BY <1>2 DEF ClearEdges, AloneAt, Rebuilding
<1>3. CASE WriteEdge(t)
  BY <1>3 DEF WriteEdge, AloneAt, Rebuilding
<1>4. CASE ClearView(t)
  <2>1. mode[t] = "write" /\ left[t] = {} /\ mode' = [mode EXCEPT ![t] = "select"]
    BY <1>4 DEF ClearView
  <2>2. rows' = {} /\ todo'[t] = Candidates(hid)
    BY <1>4, ReadsEvidence DEF ClearView
  <2>3. UNCHANGED <<evidence, edges, seen>>
    BY <1>4 DEF ClearView
  <2>4. Waiting(t)' = Candidates(hid)
    BY <2>1, <2>2 DEF Waiting
  <2>5. Shows(rows', Candidates(hid) \ Waiting(t)', hid) /\ Placed(rows', slots')
    BY <2>2, <2>4 DEF Shows, Placed
  <2>6. drawn \subseteq edges
    BY <2>1 DEF AloneAt
  <2> QED BY <2>1, <2>2, <2>3, <2>5, <2>6 DEF AloneAt, Rebuilding
<1>5. CASE SelectSlot(t)
  <2>1. PICK s \in NextSources(t) : FindSlot(t, s) /\ todo' = [todo EXCEPT ![t] = @ \ {s}]
    BY <1>5 DEF SelectSlot
  <2>2. mode[t] = "select" /\ UNCHANGED <<evidence, edges, slots, rows, seen>>
    BY <1>5 DEF SelectSlot
  <2>3. s \in todo[t] /\ s \in Source
    BY DEF NextSources
  <2>4. /\ source'[t] = s /\ mode' = [mode EXCEPT ![t] = "insert"]
        /\ slots[KeyOf[s]] \in {None, slot'[t]}
    BY <2>1, <2>3, FindSlotTypes
  <2>5. Waiting(t)' = Waiting(t)
    BY <2>1, <2>2, <2>3, <2>4 DEF Waiting
  <2>6. s \in Candidates(hid) \ todo'[t] /\ todo'[t] \subseteq Candidates(hid)
    BY <2>1, <2>2, <2>3 DEF AloneAt
  <2> QED BY <2>2, <2>4, <2>5, <2>6 DEF AloneAt, Rebuilding
<1>6. CASE InsertSlot(t)
  <2> DEFINE k == KeyOf[source[t]]
  <2>1. /\ mode[t] = "insert" /\ mode' = [mode EXCEPT ![t] = "candidate"]
        /\ slots' = [slots EXCEPT ![k] = IF @ = None THEN slot[t] ELSE @]
        /\ UNCHANGED <<evidence, edges, rows, seen, todo, source, slot>>
    BY <1>6 DEF InsertSlot
  <2>2. source[t] \in Source /\ k \in Key
    BY <2>1, KeyAssumption
  <2>3. slots'[k] = slot[t]
    BY <2>1, <2>2 DEF AloneAt
  <2>4. Placed(rows, slots')
    <3>1. Placed(rows, slots)
      BY <2>1 DEF AloneAt
    <3>2. ASSUME NEW r \in rows PROVE slots'[KeyOf[r.source]] = r.slot
      <4>1. KeyOf[r.source] \in Key /\ r.slot \in SlotId /\ slots[KeyOf[r.source]] = r.slot
        BY <3>1, KeyAssumption DEF Row, Placed
      <4> QED BY <2>1, <4>1, SlotIds
    <3> QED BY <3>2 DEF Placed
  <2>5. Waiting(t)' = Waiting(t)
    BY <2>1 DEF Waiting
  <2> QED BY <2>1, <2>3, <2>4, <2>5 DEF AloneAt, Rebuilding
<1>7. CASE UpsertCandidate(t)
  <2> DEFINE new == [source |-> source[t], slot |-> slot[t], status |-> Status(source[t], hid)]
  <2>1. /\ mode[t] = "candidate" /\ mode' = [mode EXCEPT ![t] = "select"]
        /\ UNCHANGED <<evidence, edges, slots, seen, todo>>
    BY <1>7 DEF UpsertCandidate
  <2>2. rows' = {r \in rows : OtherRow(r, t)} \cup {new}
    BY <1>7, ReadsEvidence DEF UpsertCandidate
  <2>3. /\ new.source = source[t] /\ new.slot = slot[t] /\ new.status = Status(source[t], hid)
        /\ slots[KeyOf[source[t]]] = slot[t] /\ source[t] \in Candidates(hid) \ todo[t]
    BY <2>1 DEF AloneAt
  <2> HIDE DEF new
  <2>4. /\ Shows(rows, Candidates(hid) \ (todo[t] \cup {source[t]}), hid) /\ Placed(rows, slots)
        /\ todo[t] \subseteq Candidates(hid) /\ drawn \subseteq edges
    BY <2>1 DEF AloneAt, Waiting
  <2>5. \A r \in rows : OtherRow(r, t)
    BY <2>4 DEF Shows, OtherRow
  <2>6. rows' = rows \cup {new}
    BY <2>2, <2>5
  <2>7. Placed(rows', slots)
    BY <2>3, <2>4, <2>6 DEF Placed
  <2>8. Shows(rows', Candidates(hid) \ todo[t], hid)
    BY <2>3, <2>4, <2>6 DEF Shows
  <2>9. Waiting(t)' = todo[t]
    BY <2>1 DEF Waiting
  <2> QED BY <2>1, <2>4, <2>7, <2>8, <2>9 DEF AloneAt, Rebuilding
<1>8. CASE EndRebuild(t)
  BY <1>8 DEF EndRebuild
<1> QED BY <1>1, <1>2, <1>3, <1>4, <1>5, <1>6, <1>7, <1>8

\* Every step leaves each rebuild that is alone exact as far as it went.
LEMMA AloneInvNext ==
    ASSUME TypeOK, PendingInv, AloneInv, [Next]_vars PROVE AloneInv'
<1> USE DEF TypeOK, Goto, tables, history
<1>a. \A t \in Thread : alone[t] => AloneAt(t) /\ mode[t] \in Rebuilding
  BY DEF AloneInv, AloneAt
<1>b. \A t \in Thread : alone[t] => \A u \in Thread \ {t} : mode[u] \notin Rebuilding
  BY DEF AloneInv, AloneAt
<1>c. \A t \in Thread : alone[t] => pending[t] = {}
  BY DEF PendingInv
\* A thread that is in no rebuild, before and after its additive step.
<1>1. ASSUME NEW a \in Thread, Additive, mode[a] \notin Rebuilding, mode'[a] \notin Rebuilding,
             \A t \in Thread : alone'[t] => alone[t],
             \A t \in Thread \ {a} : Undisturbed(t)
      PROVE  AloneInv'
  <2> SUFFICES ASSUME NEW t \in Thread, alone'[t] PROVE AloneAt(t)'
    BY DEF AloneInv
  <2>1. alone[t] /\ t # a
    BY <1>1, <1>a
  <2>2. \A u \in Thread \ {t} : mode'[u] \notin Rebuilding
    BY <1>1, <1>b, <2>1 DEF Undisturbed
  <2> QED BY <1>1, <1>a, <2>1, <2>2, AdditiveKeepsAlone
\* A thread inside a rebuild: nobody else is alone.
<1>2. ASSUME NEW a \in Thread,
             ReadEvidence(a) \/ ClearEdges(a) \/ WriteEdge(a) \/ ClearView(a) \/
             SelectSlot(a) \/ InsertSlot(a) \/ UpsertCandidate(a) \/ EndRebuild(a)
      PROVE  AloneInv'
  <2> SUFFICES ASSUME NEW t \in Thread, alone'[t] PROVE AloneAt(t)'
    BY DEF AloneInv
  <2>1. CASE ReadEvidence(a)
    <3>1. t = a
      BY <2>1 DEF ReadEvidence
    <3>2. \A u \in Thread \ {a} : mode[u] \notin Rebuilding
      BY <2>1, <3>1 DEF ReadEvidence
    <3>3. /\ mode' = [mode EXCEPT ![a] = "edges"] /\ evidence' = evidence
          /\ seen'[a] = Len(evidence) /\ left'[a] = EdgesIn(evidence, Len(evidence))
      BY <2>1, ReadsEvidence DEF ReadEvidence
    <3>4. Len(evidence) \in Nat
      OBVIOUS
    <3> QED BY <3>1, <3>2, <3>3, <3>4 DEF AloneAt, Rebuilding
  <2>2. CASE ~ ReadEvidence(a)
    <3>1. mode[a] \in Rebuilding /\ (alone'[t] => alone[t])
      BY <1>2, <2>2 DEF ClearEdges, WriteEdge, ClearView, SelectSlot, InsertSlot,
         UpsertCandidate, EndRebuild, Rebuilding
    <3>2. alone[t] /\ t = a
      BY <1>b, <3>1
    <3> QED BY <1>2, <1>a, <1>c, <3>2, AloneStep
  <2> QED BY <2>1, <2>2
<1>3. ASSUME NEW t \in Thread, NEW m \in Memory, Forget(t, m) PROVE AloneInv'
  BY <1>1, <1>3 DEF Forget, Begin, Additive, Undisturbed, Rebuilding
<1>4. ASSUME NEW t \in Thread, NEW pairs \in TurnPairs, AfterTurn(t, pairs) PROVE AloneInv'
  BY <1>1, <1>4 DEF AfterTurn, Begin, Additive, Undisturbed, Rebuilding
<1>5. ASSUME NEW t \in Thread, NEW e \in Edge, CommitGraph(t, e) PROVE AloneInv'
  BY <1>1, <1>5 DEF CommitGraph, Begin, Additive, Undisturbed, Rebuilding
<1>6. ASSUME NEW t \in Thread, NEW c \in Claim, NEW targets \in SUBSET (Memory \cup Claim),
             RouteClaim(t, c, targets)
      PROVE  AloneInv'
  BY <1>6 DEF RouteClaim, AloneInv
<1>7. ASSUME NEW t \in Thread, AppendEvidence(t) PROVE AloneInv'
  <2>1. \E e \in Event : evidence' = Append(evidence, e)
    BY <1>7 DEF AppendEvidence
  <2>2. \/ mode' = [mode EXCEPT ![t] = "read"]
        \/ mode' = [mode EXCEPT ![t] = "append"]
    BY <1>7 DEF AppendEvidence
  <2> QED BY <1>1, <1>7, <2>1, <2>2 DEF AppendEvidence, Additive, Undisturbed, Rebuilding
<1>8. ASSUME NEW t \in Thread, Ask(t) PROVE AloneInv'
  BY <1>1, <1>8 DEF Ask, Additive, Undisturbed, Rebuilding
<1>9. ASSUME NEW t \in Thread, Resolve(t) PROVE AloneInv'
  <2>1. \/ mode' = [mode EXCEPT ![t] = "idle"]
        \/ mode' = [mode EXCEPT ![t] = "fallback"]
    BY <1>9 DEF Resolve
  <2> QED BY <1>1, <1>9, <2>1 DEF Resolve, Additive, Undisturbed, Rebuilding
<1>10. ASSUME NEW t \in Thread, Fallback(t) PROVE AloneInv'
  BY <1>1, <1>10 DEF Fallback, Additive, Undisturbed, Rebuilding
<1>11. ASSUME NEW a \in Thread, Abort(a) PROVE AloneInv'
  <2> SUFFICES ASSUME NEW t \in Thread, alone'[t] PROVE AloneAt(t)'
    BY DEF AloneInv
  <2>1. alone[t] /\ t # a
    BY <1>11 DEF Abort
  <2>2. Additive /\ Undisturbed(t)
    BY <1>11, <2>1 DEF Abort, Additive, Undisturbed
  <2>3. \A u \in Thread \ {t} : mode'[u] \notin Rebuilding
    BY <1>11, <1>b, <2>1 DEF Abort, Rebuilding
  <2> QED BY <1>a, <2>1, <2>2, <2>3, AdditiveKeepsAlone
<1>12. CASE UNCHANGED vars
  <2> SUFFICES ASSUME NEW t \in Thread, alone'[t] PROVE AloneAt(t)'
    BY DEF AloneInv
  <2>1. alone[t] /\ Additive /\ Undisturbed(t) /\ mode' = mode
    BY <1>12 DEF vars, Additive, Undisturbed
  <2> QED BY <1>a, <1>b, <2>1, AdditiveKeepsAlone
<1> QED
  BY <1>2, <1>3, <1>4, <1>5, <1>6, <1>7, <1>8, <1>9, <1>10, <1>11, <1>12 DEF Next, RebuildStep

\* Every step leaves the exact view exact, until the next rebuild begins.
LEMMA CleanInvNext ==
    ASSUME TypeOK, PendingInv, AloneInv, CleanInv, [Next]_vars PROVE CleanInv'
<1> USE DEF TypeOK, Goto, tables, history
<1>a. clean # None => \A t \in Thread : mode[t] \in Rebuilding => mode[t] = "insert" /\ pending[t] # {}
  BY DEF CleanInv
\* A thread that enters no rebuild by its additive step.
<1>1. ASSUME NEW a \in Thread, Additive, clean' = clean, mode'[a] \notin Rebuilding,
             \A t \in Thread \ {a} : mode'[t] = mode[t] /\ pending'[t] = pending[t]
      PROVE  CleanInv'
  <2> SUFFICES ASSUME clean # None PROVE CleanInv'
    BY <1>1 DEF CleanInv
  <2> QED BY <1>1, <1>a, AdditiveKeepsClean
<1>2. ASSUME NEW t \in Thread, NEW m \in Memory, Forget(t, m) PROVE CleanInv'
  BY <1>1, <1>2 DEF Forget, Begin, Additive, Rebuilding
<1>3. ASSUME NEW t \in Thread, NEW pairs \in TurnPairs, AfterTurn(t, pairs) PROVE CleanInv'
  BY <1>1, <1>3 DEF AfterTurn, Begin, Additive, Rebuilding
<1>4. ASSUME NEW t \in Thread, NEW e \in Edge, CommitGraph(t, e) PROVE CleanInv'
  BY <1>1, <1>4 DEF CommitGraph, Begin, Additive, Rebuilding
<1>5. ASSUME NEW t \in Thread, NEW c \in Claim, NEW targets \in SUBSET (Memory \cup Claim),
             RouteClaim(t, c, targets)
      PROVE  CleanInv'
  <2>1. /\ mode' = [mode EXCEPT ![t] = "insert"] /\ clean' = clean /\ Additive
        /\ pending' = [pending EXCEPT ![t] =
              {[type |-> "support", target |-> c, edge |-> None]} \cup
              {[type |-> "supersede", target |-> x, edge |-> None] : x \in targets}]
    BY <1>5 DEF RouteClaim, Begin, FindSlot, Additive
  <2>2. pending'[t] # {} /\ mode'[t] = "insert"
    BY <2>1
  <2> SUFFICES ASSUME clean # None PROVE CleanInv'
    BY <2>1 DEF CleanInv
  <2>3. \A u \in Thread \ {t} : mode'[u] = mode[u] /\ pending'[u] = pending[u]
    BY <2>1
  <2> QED BY <1>a, <2>1, <2>2, <2>3, AdditiveKeepsClean
<1>6. ASSUME NEW t \in Thread, AppendEvidence(t) PROVE CleanInv'
  <2>1. \E e \in Event : evidence' = Append(evidence, e)
    BY <1>6 DEF AppendEvidence
  <2>2. \/ mode' = [mode EXCEPT ![t] = "read"]
        \/ mode' = [mode EXCEPT ![t] = "append"]
    BY <1>6 DEF AppendEvidence
  <2>3. \A u \in Thread \ {t} : pending'[u] = pending[u]
    BY <1>6 DEF AppendEvidence
  <2> QED BY <1>1, <1>6, <2>1, <2>2, <2>3 DEF AppendEvidence, Additive, Rebuilding
<1>7. ASSUME NEW t \in Thread, Ask(t) PROVE CleanInv'
  BY <1>1, <1>7 DEF Ask, Additive, Rebuilding
<1>8. ASSUME NEW t \in Thread, ReadEvidence(t) PROVE CleanInv'
  BY <1>8 DEF ReadEvidence, CleanInv
<1>9. ASSUME NEW t \in Thread,
             ClearEdges(t) \/ WriteEdge(t) \/ ClearView(t) \/ SelectSlot(t) \/ UpsertCandidate(t)
      PROVE  CleanInv'
  <2>1. clean = None /\ clean' = clean
    BY <1>9, <1>a DEF ClearEdges, WriteEdge, ClearView, SelectSlot, UpsertCandidate, Rebuilding
  <2> QED BY <2>1 DEF CleanInv
<1>10. ASSUME NEW t \in Thread, InsertSlot(t) PROVE CleanInv'
  <2> DEFINE k == KeyOf[source[t]]
  <2> SUFFICES ASSUME clean # None PROVE CleanInv'
    BY <1>10 DEF CleanInv, InsertSlot
  <2>1. pending[t] # {} /\ mode[t] = "insert"
    BY <1>10, <1>a DEF InsertSlot, Rebuilding
  <2>2. /\ mode' = [mode EXCEPT ![t] = "append"]
        /\ slots' = [slots EXCEPT ![k] = IF @ = None THEN slot[t] ELSE @]
        /\ UNCHANGED <<evidence, edges, rows, pending, clean>>
    BY <1>10, <2>1 DEF InsertSlot
  <2>3. Placed(rows, slots')
    <3>1. Placed(rows, slots)
      BY DEF CleanInv
    <3>2. ASSUME NEW r \in rows PROVE slots'[KeyOf[r.source]] = r.slot
      <4>1. KeyOf[r.source] \in Key /\ r.slot \in SlotId /\ slots[KeyOf[r.source]] = r.slot
        BY <3>1, KeyAssumption DEF Row, Placed
      <4> QED BY <2>2, <4>1, SlotIds
    <3> QED BY <3>2 DEF Placed
  <2> QED BY <2>2, <2>3, <1>a DEF CleanInv, Rebuilding
<1>11. ASSUME NEW t \in Thread, EndRebuild(t) PROVE CleanInv'
  <2>1. CASE alone[t]
    <3>1. /\ mode[t] = "select" /\ todo[t] = {} /\ clean' = seen[t]
          /\ mode'[t] \in {"resolve", "idle"}
          /\ \A u \in Thread \ {t} : mode'[u] = mode[u]
          /\ UNCHANGED <<evidence, edges, rows, slots>>
      BY <1>11, <2>1 DEF EndRebuild
    <3>2. /\ seen[t] <= Len(evidence) /\ Placed(rows, slots)
          /\ EdgesIn(evidence, seen[t]) \subseteq edges
          /\ \A u \in Thread \ {t} : mode[u] \notin Rebuilding
          /\ Shows(rows, Candidates(HiddenIn(evidence, seen[t])) \ Waiting(t), HiddenIn(evidence, seen[t]))
      BY <2>1, <3>1 DEF AloneInv, AloneAt
    <3>3. Waiting(t) = {}
      BY <3>1 DEF Waiting
    <3>4. Shows(rows, Candidates(HiddenIn(evidence, seen[t])), HiddenIn(evidence, seen[t]))
      BY <3>2, <3>3 DEF Shows
    <3>5. \A u \in Thread : mode'[u] \notin Rebuilding
      BY <3>1, <3>2 DEF Rebuilding
    <3> QED BY <3>1, <3>2, <3>4, <3>5 DEF CleanInv
  <2>2. CASE ~ alone[t]
    <3>1. clean = None /\ clean' = clean
      BY <1>11, <2>2, <1>a DEF EndRebuild, Rebuilding
    <3> QED BY <3>1 DEF CleanInv
  <2> QED BY <2>1, <2>2
<1>12. ASSUME NEW t \in Thread, Resolve(t) PROVE CleanInv'
  <2>1. \/ mode' = [mode EXCEPT ![t] = "idle"]
        \/ mode' = [mode EXCEPT ![t] = "fallback"]
    BY <1>12 DEF Resolve
  <2> QED BY <1>1, <1>12, <2>1 DEF Resolve, Additive, Rebuilding
<1>13. ASSUME NEW t \in Thread, Fallback(t) PROVE CleanInv'
  BY <1>1, <1>13 DEF Fallback, Additive, Rebuilding
<1>14. ASSUME NEW t \in Thread, Abort(t) PROVE CleanInv'
  BY <1>1, <1>14 DEF Abort, Additive, Rebuilding
<1>15. CASE UNCHANGED vars
  BY <1>15, <1>a, AdditiveKeepsClean DEF vars, Additive, CleanInv
<1> QED
  BY <1>2, <1>3, <1>4, <1>5, <1>6, <1>7, <1>8, <1>9, <1>10, <1>11, <1>12, <1>13, <1>14, <1>15
     DEF Next, RebuildStep

\* Whatever interleaved and aborted rebuilds left behind: after one that nobody
\* disturbed the view and the edges are those of the evidence it read, and stay
\* so until the next one begins.
THEOREM UndisturbedRebuildIsExactCorrect == Spec => []UndisturbedRebuildIsExact
<1>1. Init => ViewInv
  BY DEF Init, ViewInv, PendingInv, AloneInv, CleanInv
<1>2. TypeOK /\ ViewInv /\ [Next]_vars => ViewInv'
  BY PendingInvNext, AloneInvNext, CleanInvNext DEF ViewInv
<1>3. TypeOK /\ ViewInv => UndisturbedRebuildIsExact
  <2> SUFFICES ASSUME TypeOK, CleanInv, clean # None
               PROVE  UndisturbedRebuildIsExact
    BY DEF ViewInv, UndisturbedRebuildIsExact
  <2> DEFINE hid == HiddenAfter(clean)
  <2>1. /\ Placed(rows, slots) /\ Shows(rows, Candidates(hid), hid)
        /\ EdgesAfter(clean) \subseteq edges
    BY ReadsEvidence DEF CleanInv
  <2>2. Visible = rows
    BY <2>1 DEF Visible, Placed
  <2> HIDE DEF hid
  <2>3. {[source |-> r.source, status |-> r.status] : r \in rows} =
           {[source |-> s, status |-> Status(s, hid)] : s \in Candidates(hid)}
    BY <2>1 DEF Shows
  <2> QED BY <2>1, <2>2, <2>3 DEF UndisturbedRebuildIsExact, hid
<1> QED BY <1>1, <1>2, <1>3, TypeCorrect, PTL DEF Spec

-----------------------------------------------------------------------------
(* One thread                                                               *)

\* One event loop in one process, with retrieval_graph_commit other than async.
SoleThread == \A t, u \in Thread : t = u

Now == HiddenIn(evidence, Len(evidence))

\* A rebuild has read all evidence, and so has the view a question is answered
\* from; what is hidden since the question still is.
SoleInv ==
    \A t \in Thread :
        /\ hidden[t] \subseteq Now
        /\ \A s \in packet[t] : About(s) \cap hidden[t] = {}
        /\ mode[t] \in {"edges", "write", "select", "candidate"} \/ (mode[t] = "insert" /\ pending[t] = {}) =>
             alone[t] /\ seen[t] = Len(evidence)
        /\ mode[t] = "resolve" => clean = Len(evidence)

\* A further event shows what it shows again and hides no less than before.
LEMMA HiddenGrows ==
    ASSUME NEW events \in Seq(Event), NEW e \in Event
    PROVE  LET n == Len(events)
           IN  HiddenIn(events, n) \ (IF e.type \in Showing THEN {e.target} ELSE {})
                 \subseteq HiddenIn(Append(events, e), n + 1)
<1> DEFINE n == Len(events)
           more == Append(events, e)
<1>1. n \in Nat /\ \A i \in 1..n : more[i] = events[i]
  OBVIOUS
<1>2. more[n + 1] = e
  OBVIOUS
<1> HIDE DEF more, n
<1>3. ASSUME NEW x \in HiddenIn(events, n), e.type \in Showing => x # e.target
      PROVE  x \in HiddenIn(more, n + 1)
  <2>1. PICK i \in 1..n :
           /\ events[i].target = x /\ events[i].type \in Hiding
           /\ \A j \in i..n : events[j].target = x => events[j].type \notin Showing
    BY DEF HiddenIn
  <2>2. i \in 1..(n + 1) /\ more[i].target = x /\ more[i].type \in Hiding
    BY <1>1, <2>1
  <2>3. ASSUME NEW j \in i..(n + 1), more[j].target = x PROVE more[j].type \notin Showing
    <3>1. CASE j \in i..n
      <4>1. more[j] = events[j]
        BY <1>1, <3>1
      <4> QED BY <2>1, <2>3, <3>1, <4>1
    <3>2. CASE j = n + 1
      BY <1>2, <1>3, <2>3, <3>2
    <3> QED BY <1>1, <3>1, <3>2
  <2> QED BY <2>2, <2>3 DEF HiddenIn
<1> QED BY <1>3 DEF more, n

\* What is answered now is not hidden now.
LEMMA AnswerIsCurrent ==
    ASSUME TypeOK, ViewInv, SoleInv, NEW t \in Thread, Resolve(t) \/ Fallback(t)
    PROVE  \A s \in packet'[t] : About(s) \cap hidden[t] = {}
<1> USE DEF TypeOK
<1>1. ASSUME NEW s, Status(s, Now) = "active" PROVE About(s) \cap hidden[t] = {}
  <2>1. About(s) \cap Now = {}
    BY <1>1 DEF Status
  <2> QED BY <2>1 DEF SoleInv
<1>2. CASE Fallback(t)
  <2>1. packet'[t] \subseteq {s \in Memory \cup Frame : Status(s, Now) = "active"}
    BY <1>2, ReadsEvidence DEF Fallback, Now
  <2> QED BY <1>1, <2>1
<1>3. CASE Resolve(t)
  <2>1. CASE packet' = packet
    BY <2>1 DEF SoleInv
  <2>2. CASE packet' # packet
    <3>1. packet'[t] = {r.source : r \in {v \in Visible : v.status = "active"}} /\ mode[t] = "resolve"
      BY <1>3, <2>2 DEF Resolve
    <3>2. clean = Len(evidence) /\ Len(evidence) \in Nat
      BY <3>1 DEF SoleInv
    <3>3. clean # None
      BY <3>2, NoneAssumption
    <3>4. \A r \in rows : r.status = Status(r.source, Now)
      BY <3>2, <3>3 DEF ViewInv, CleanInv, Shows, Now
    <3> QED BY <1>1, <3>1, <3>4 DEF Visible
  <2> QED BY <2>1, <2>2
<1> QED BY <1>2, <1>3

\* The only thread keeps SoleInv.
LEMMA SoleInvNext ==
    ASSUME SoleThread, TypeOK, ViewInv, SoleInv, [Next]_vars PROVE SoleInv'
<1> USE DEF TypeOK, Goto, tables, history
<1>a. ASSUME NEW t \in Thread, NEW u \in Thread PROVE u = t
  BY DEF SoleThread
\* A step that neither reads nor appends evidence.
<1>1. ASSUME NEW t \in Thread, UNCHANGED <<evidence, packet, hidden>>,
             mode'[t] \in {"edges", "write", "select", "candidate"} \/ (mode'[t] = "insert" /\ pending'[t] = {}) =>
               /\ mode[t] \in {"edges", "write", "select", "candidate"} \/ (mode[t] = "insert" /\ pending[t] = {})
               /\ alone'[t] = alone[t] /\ seen'[t] = seen[t],
             mode'[t] = "resolve" => clean' = Len(evidence)
      PROVE  SoleInv'
  BY <1>1, <1>a DEF SoleInv, Now
<1>2. ASSUME NEW t \in Thread, NEW m \in Memory, Forget(t, m) PROVE SoleInv'
  BY <1>1, <1>2 DEF Forget, Begin
<1>3. ASSUME NEW t \in Thread, NEW pairs \in TurnPairs, AfterTurn(t, pairs) PROVE SoleInv'
  BY <1>1, <1>3 DEF AfterTurn, Begin
<1>4. ASSUME NEW t \in Thread, NEW e \in Edge, CommitGraph(t, e) PROVE SoleInv'
  BY <1>1, <1>4 DEF CommitGraph, Begin
<1>5. ASSUME NEW t \in Thread, NEW c \in Claim, NEW targets \in SUBSET (Memory \cup Claim),
             RouteClaim(t, c, targets)
      PROVE  SoleInv'
  <2>1. /\ mode' = [mode EXCEPT ![t] = "insert"]
        /\ pending' = [pending EXCEPT ![t] =
              {[type |-> "support", target |-> c, edge |-> None]} \cup
              {[type |-> "supersede", target |-> x, edge |-> None] : x \in targets}]
        /\ UNCHANGED <<evidence, packet, hidden>>
    BY <1>5 DEF RouteClaim, Begin, FindSlot
  <2>2. pending'[t] # {} /\ mode'[t] = "insert"
    BY <2>1
  <2> QED BY <1>1, <2>1, <2>2
<1>6. ASSUME NEW t \in Thread, AppendEvidence(t) PROVE SoleInv'
  <2>1. PICK e \in pending[t] :
           /\ evidence' = Append(evidence, e)
           /\ Goto(t, IF pending[t] = {e} THEN "read" ELSE "append")
           /\ hidden' = [u \in Thread |-> IF e.type \in Showing THEN hidden[u] \ {e.target} ELSE hidden[u]]
    BY <1>6 DEF AppendEvidence
  <2>2. e \in Event /\ evidence \in Seq(Event)
    OBVIOUS
  <2>3. Len(evidence') = Len(evidence) + 1
    BY <2>1, <2>2
  <2>4. Now \ (IF e.type \in Showing THEN {e.target} ELSE {}) \subseteq Now'
    BY <2>1, <2>2, <2>3, HiddenGrows DEF Now
  <2>5. \A u \in Thread : hidden'[u] \subseteq Now' /\ hidden'[u] \subseteq hidden[u]
    BY <2>1, <2>4 DEF SoleInv
  <2>6. mode'[t] \in {"read", "append"} /\ packet' = packet
    BY <1>6, <2>1 DEF AppendEvidence
  <2>7. \A u \in Thread : \A s \in packet'[u] : About(s) \cap hidden'[u] = {}
    BY <2>5, <2>6 DEF SoleInv
  <2>8. \A u \in Thread : mode'[u] \in {"read", "append"}
    BY <1>a, <2>6
  <2> QED BY <2>5, <2>7, <2>8 DEF SoleInv
<1>7. ASSUME NEW t \in Thread, Ask(t) PROVE SoleInv'
  <2>1. hidden'[t] = Now /\ packet'[t] = {} /\ mode'[t] = "read" /\ evidence' = evidence
    BY <1>7, ReadsEvidence DEF Ask, Now
  <2> QED BY <1>a, <2>1 DEF SoleInv, Now
<1>8. ASSUME NEW t \in Thread, ReadEvidence(t) PROVE SoleInv'
  <2>1. /\ mode'[t] = "edges" /\ seen'[t] = Len(evidence) /\ UNCHANGED <<evidence, packet, hidden>>
        /\ alone' = [u \in Thread |-> u = t /\ \A v \in Thread \ {t} : mode[v] \notin Rebuilding]
    BY <1>8 DEF ReadEvidence
  <2>2. alone'[t]
    BY <1>a, <2>1
  <2> QED BY <1>a, <2>1, <2>2 DEF SoleInv, Now
<1>9. ASSUME NEW t \in Thread, ClearEdges(t) \/ WriteEdge(t) \/ ClearView(t) PROVE SoleInv'
  BY <1>1, <1>9 DEF ClearEdges, WriteEdge, ClearView
<1>10. ASSUME NEW t \in Thread, SelectSlot(t) PROVE SoleInv'
  BY <1>1, <1>10 DEF SelectSlot, FindSlot
<1>11. ASSUME NEW t \in Thread, InsertSlot(t) PROVE SoleInv'
  BY <1>1, <1>11 DEF InsertSlot
<1>12. ASSUME NEW t \in Thread, UpsertCandidate(t) PROVE SoleInv'
  BY <1>1, <1>12 DEF UpsertCandidate
<1>13. ASSUME NEW t \in Thread, EndRebuild(t) PROVE SoleInv'
  <2>1. mode[t] = "select" /\ UNCHANGED <<evidence, packet, hidden>> /\ mode'[t] \in {"resolve", "idle"}
    BY <1>13 DEF EndRebuild
  <2>2. alone[t] /\ seen[t] = Len(evidence)
    BY <2>1 DEF SoleInv
  <2>3. clean' = Len(evidence)
    BY <1>13, <2>2 DEF EndRebuild
  <2> QED BY <1>1, <2>1, <2>3
<1>14. ASSUME NEW t \in Thread, Resolve(t) \/ Fallback(t) PROVE SoleInv'
  <2>1. \A s \in packet'[t] : About(s) \cap hidden[t] = {}
    BY <1>14, AnswerIsCurrent
  <2>2. mode'[t] \in {"idle", "fallback"} /\ UNCHANGED <<evidence, hidden>>
    BY <1>14 DEF Resolve, Fallback
  <2> QED BY <1>a, <2>1, <2>2 DEF SoleInv, Now
<1>15. ASSUME NEW t \in Thread, Abort(t) PROVE SoleInv'
  BY <1>1, <1>15 DEF Abort
<1>16. CASE UNCHANGED vars
  BY <1>16 DEF vars, SoleInv, Now
<1> QED
  BY <1>2, <1>3, <1>4, <1>5, <1>6, <1>7, <1>8, <1>9, <1>10, <1>11, <1>12, <1>13, <1>14, <1>15,
     <1>16 DEF Next, RebuildStep

\* On one thread, with aborts anywhere: what is suppressed when a question is
\* asked, and stays so, is in no answer to it.
THEOREM ForgottenStaysHiddenCorrect ==
    ASSUME SoleThread PROVE Spec => []ForgottenStaysHidden
<1>1. Init => ViewInv /\ SoleInv
  <2> SUFFICES ASSUME Init PROVE SoleInv
    BY DEF Init, ViewInv, PendingInv, AloneInv, CleanInv
  <2> QED BY DEF Init, SoleInv
<1>2. TypeOK /\ ViewInv /\ SoleInv /\ [Next]_vars => ViewInv' /\ SoleInv'
  BY PendingInvNext, AloneInvNext, CleanInvNext, SoleInvNext DEF ViewInv
<1>3. SoleInv => ForgottenStaysHidden
  BY DEF SoleInv, ForgottenStaysHidden
<1> QED BY <1>1, <1>2, <1>3, TypeCorrect, PTL DEF Spec
=============================================================================
