------------------------------ MODULE EventLog ------------------------------
(***************************************************************************)
(* What the ledger is to those who read it, without connections, locks and  *)
(* snapshots: a log that grows by whole transactions. What is in it stays   *)
(* as it is, and a transaction whose rows are there gets no further ones.   *)
(***************************************************************************)
EXTENDS Naturals, SequencesExt

VARIABLE log     \* the rows that can be read; row.txn is its transaction

Init == log = <<>>

Added == Len(log) + 1 .. Len(log')

\* All rows of a transaction become readable at once, behind those there were.
Publish ==
    /\ IsStrictPrefix(log, log')
    /\ \A i, j \in Added : log'[i].txn = log'[j].txn
    /\ \A i \in 1..Len(log), j \in Added : log[i].txn # log'[j].txn

Spec == Init /\ [][Publish]_log

=============================================================================
