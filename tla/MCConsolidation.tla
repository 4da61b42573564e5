--------------------------- MODULE MCConsolidation ---------------------------
(* Instances of Consolidation for TLC.                                      *)
EXTENDS Consolidation

CONSTANTS loop, job     \* threads

\* The first memory shares a keyword with the other two, too little to relate
\* them; those have the same keywords, and one evidence id is also the first's.
Keywords == <<{1, 2}, {2, 3}, {2, 3}>>
Chain == {{1, 3}}

\* A caller's frame about the first memory that replaces the second one's,
\* with an edge to a frame that may be missing; an inhibited association; the
\* same, not well formed.
Replacement == [frames |-> {Given({1})}, formed |-> TRUE,
    edges |-> {[op |-> "add_edge", from |-> Given({1}), to |-> FrameOf(2), rel |-> "supersedes"]}]
Inhibition(formed) == [frames |-> {}, formed |-> formed,
    edges |-> {[op |-> "inhibit_edge", from |-> Mem(1), to |-> Mem(2), rel |-> "coactivated_with"]}]
Proposals == {Replacement, Inhibition(TRUE), Inhibition(FALSE)}

=============================================================================
