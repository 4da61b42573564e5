----------------------------- MODULE FreshReads -----------------------------
(***************************************************************************)
(* What query() owes its callers, without the cache: an answer reflects     *)
(* every durable change that had returned to its caller before the question *)
(* was asked, and nothing that is not durable. Changes are counted in the   *)
(* order in which they became durable; an answer is named by the number of  *)
(* changes it reflects.                                                     *)
(***************************************************************************)
EXTENDS Naturals

CONSTANTS
    Caller,     \* those who ask
    None        \* no open question, no answer yet

VARIABLES
    store,      \* the durable changes so far
    acked,      \* the last change that returned, and with it all before it
    floor,      \* floor[c]: the changes c's open question must reflect
    answer      \* answer[c]: the changes the answer to c's question reflects

absVars == <<store, acked, floor, answer>>

Init ==
    /\ store = 0
    /\ acked = 0
    /\ floor = [c \in Caller |-> None]
    /\ answer = [c \in Caller |-> None]

Change ==
    /\ store' = store + 1
    /\ UNCHANGED <<acked, floor, answer>>

Acknowledge ==
    /\ acked' \in acked..store
    /\ UNCHANGED <<store, floor, answer>>

Ask(c) ==
    /\ floor[c] = None
    /\ floor' = [floor EXCEPT ![c] = acked]
    /\ answer' = [answer EXCEPT ![c] = None]
    /\ UNCHANGED <<store, acked>>

Answer(c) ==
    /\ floor[c] # None
    /\ \E v \in floor[c]..store : answer' = [answer EXCEPT ![c] = v]
    /\ floor' = [floor EXCEPT ![c] = None]
    /\ UNCHANGED <<store, acked>>

\* The question ends in an exception.
GiveUp(c) ==
    /\ floor[c] # None
    /\ floor' = [floor EXCEPT ![c] = None]
    /\ UNCHANGED <<store, acked, answer>>

Next ==
    \/ Change
    \/ Acknowledge
    \/ \E c \in Caller : Ask(c) \/ Answer(c) \/ GiveUp(c)

Spec == Init /\ [][Next]_absVars

=============================================================================
