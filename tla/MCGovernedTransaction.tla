------------------------ MODULE MCGovernedTransaction ------------------------
(* Instances of GovernedTransaction for TLC.                                *)
EXTENDS GovernedTransaction, TLC

CONSTANTS loop, job,      \* threads that execute policies
          w1, w2,         \* worker threads of query()
          old, new        \* memories

ExecutorSymmetry == Permutations({loop, job})
=============================================================================
