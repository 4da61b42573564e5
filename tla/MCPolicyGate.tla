---------------------------- MODULE MCPolicyGate ----------------------------
(* Instances of PolicyGate for TLC: two memories, one event, and the         *)
(* policies that differ in what the gate and the executor look at.           *)
EXTENDS PolicyGate, TLC

CONSTANTS m1, m2, e1

Say(intent, deltas, structure, claims, evidence, blocked) ==
    [intent |-> intent, deltas |-> deltas, selected |-> None, structure |-> structure,
     claims |-> claims, evidence |-> evidence, blocked |-> blocked]
Change(op, target) == [op |-> op, target |-> target, kind |-> "episodic"]
Proofs == {<<e1>>, <<m1>>, <<m2>>, <<e1, m2>>, <<m2, m1>>}

\* Sourced additions and links, with what may be wrong with them.
Writers ==
    {Say("ADD", <<Change("ADD", None)>>, "none", "truth", e, FALSE) : e \in Proofs}
    \cup {Say("ADD", <<Change("ADD", None)>>, "none", "truth", <<e1>>, TRUE)}
    \cup {Say("LINK", <<Change("LINK", t)>>, "none", "truth", e, FALSE) :
            t \in Target, e \in Proofs}

\* Every intent with up to two deltas, with structures, with no or other sources.
Add == <<Change("ADD", None)>>
Delete == <<Change("DELETE", None)>>
Pairs == {<<Change(a, None), Change(b, None)>> : a, b \in {"ADD", "LINK"}}
Mixed ==
    {Say(i, d, "none", "truth", <<e1>>, FALSE) : i \in Intent, d \in {<<>>, Add, Delete} \cup Pairs}
    \cup {Say(i, d, "none", c, <<e1>>, FALSE) : i \in Intent, d \in {<<>>, Delete}, c \in {"none", "derived"}}
    \cup {Say(i, d, "logic", "truth", <<e1>>, FALSE) : i \in Intent, d \in {<<>>, Add}}
    \cup {Say(i, <<>>, "frames", "truth", <<>>, FALSE) : i \in Intent}

\* Suppressions of a memory, by delta or by intent.
Hiders ==
    {Say("NOOP", <<Change(op, t)>>, "none", "truth", <<>>, FALSE) :
        op \in {"DECAY", "INHIBIT", "DELETE_REQUEST"}, t \in Target}
    \cup {[Say("SUPPRESS", <<>>, "none", "truth", <<e1>>, FALSE) EXCEPT !.selected = t] : t \in Target}

Proposals == Writers \cup Mixed \cup Hiders

Plain(write, target, evidence) ==
    [write |-> write, target |-> target, kind |-> "lasting", evidence |-> evidence,
     forget |-> "NOOP", forgets |-> None, consolidate |-> FALSE, blocked |-> FALSE]

LegacyPolicies ==
    {Plain(w, t, e) : w \in {"ADD", "LINK"}, t \in Target, e \in {<<>>, <<m1>>, <<m2>>}}
    \cup {Plain("UPDATE", None, <<e1>>)}
    \cup {[Plain(w, None, <<e1>>) EXCEPT !.consolidate = TRUE] : w \in {"ADD", "NOOP"}}
    \cup {[Plain(w, None, <<e1>>) EXCEPT !.forget = "INHIBIT", !.forgets = t] :
            w \in {"ADD", "NOOP"}, t \in Target}

MemorySymmetry == Permutations(Memory)
=============================================================================
