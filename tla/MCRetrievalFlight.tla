-------------------------- MODULE MCRetrievalFlight --------------------------
(* The instance of RetrievalFlight for TLC.                                 *)
EXTENDS RetrievalFlight

CONSTANTS q1, q2, q3,           \* calls of query()
          m1,                   \* the thread that mutates
          auth                  \* a question
=============================================================================
