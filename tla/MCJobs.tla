------------------------------- MODULE MCJobs -------------------------------
(***************************************************************************)
(* Instance of Jobs for TLC: a memory whose card changes, a question of two  *)
(* texts, and two models with labels of their own.                          *)
(***************************************************************************)
EXTENDS Jobs

CONSTANTS memory, before, after, small, large

MCMemory == {memory}
MCText == {before, after}
MCListing == {<<memory>>}
MCRound == {<<before, after>>}
MCProvider == {small, large}
MCLabel == [p \in MCProvider |-> p]
MCMode == {"async", "sync"}
=============================================================================
