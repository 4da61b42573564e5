------------------------------ MODULE MCRecall ------------------------------
(***************************************************************************)
(* Instance of Recall for TLC.                                              *)
(***************************************************************************)
EXTENDS Recall

CONSTANTS fact, word

Fresh ==
    [type |-> "semantic", maturity |-> "fresh", terms |-> {fact}, labels |-> {word}, tag |-> fact, proven |-> TRUE,
     confidence |-> 60, inhibition |-> 0, contradiction |-> 0, staleness |-> 0, utility |-> 20, salience |-> 50,
     words |-> 2, old |-> FALSE, current |-> TRUE, linked |-> TRUE, uses |-> 0]

Noted ==
    [Fresh EXCEPT !.type = "episodic", !.terms = {word}, !.labels = {}, !.tag = Nil, !.proven = FALSE,
                  !.current = FALSE, !.linked = FALSE, !.salience = 0]

MCDraft ==
    {Fresh, Noted,
     [Fresh EXCEPT !.maturity = "archived", !.current = FALSE],
     [Fresh EXCEPT !.maturity = "inhibited", !.inhibition = 50],
     [Fresh EXCEPT !.maturity = "deleted"]}

Asked ==
    [terms |-> {fact, word}, says |-> {"current"}, implies |-> fact, rewrites |-> {}, hyde |-> {}, entities |-> {},
     facts |-> {fact}, fact |-> Nil, intent |-> "unknown", temporal |-> "unknown", historical |-> FALSE,
     proof |-> FALSE, abstain |-> FALSE, align |-> TRUE, graph |-> "activate", items |-> 2, budget |-> 4,
     least |-> 8, gate |-> 14]

MCQuery ==
    {Asked,
     [Asked EXCEPT !.least = 95, !.graph = "diffuse", !.says = {}, !.items = 3],
     [Asked EXCEPT !.intent = "temporal_history", !.says = {"old"}, !.proof = TRUE, !.graph = "off"],
     [Asked EXCEPT !.terms = {word}, !.facts = {}, !.implies = Nil, !.says = {"unanswerable"},
                   !.rewrites = {word}, !.hyde = {word}, !.items = 1, !.intent = "procedural_recall", !.graph = "diffuse"]}

Link(s, t, relation, inhibition) ==
    [source |-> s, target |-> t, relation |-> relation, weight |-> 100, confidence |-> 100,
     inhibition |-> inhibition, contradiction |-> 0, successes |-> 5]

MCEdgeDraft == {Link(1, 3, "supports", 0), Link(1, 2, "coactivated_with", 90)}

MCGraph ==
    {<<>>,
     <<Link(1, 2, "supersedes", 0), Link(2, 3, "same_as", 0), Link(3, 4, "same_as", 0)>>,
     <<Link(1, 2, "supports", 0), Link(2, 3, "contradicts", 0), Link(3, 1, "coactivated_with", 0), Link(1, 4, "same_as", 0)>>}

MCLibrary ==
    {[m \in Memory |-> IF m = 1 THEN Fresh ELSE IF m = 2 THEN d ELSE IF m = 3 THEN e ELSE Noted] : d \in MCDraft \cup {Nil}, e \in {x \in MCDraft : x.maturity \in {"fresh", "archived"}} \ {Fresh}}

MCOrder == {<<1, 2, 3, 4>>, <<4, 3, 2, 1>>}
=============================================================================
