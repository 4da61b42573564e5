---------------------------- MODULE MCLedgerChain ----------------------------
(* Instances of LedgerChain for TLC.                                        *)
EXTENDS LedgerChain

CONSTANTS loop, worker, cli,    \* threads
          runtime, tool         \* processes

\* The event-loop thread and a second thread of one runtime (the job queue of
\* retrieval_graph_commit=async, or a thread that calls query() as the
\* singleflight test does), and an nmem command in a process of its own.
TwoThreads == {loop, worker}
TwoProcesses == {loop, cli}

HomeOf(threads) == [w \in threads |-> IF w = cli THEN tool ELSE runtime]
TwoHomes == HomeOf(TwoThreads)
SplitHomes == HomeOf(TwoProcesses)
=============================================================================
