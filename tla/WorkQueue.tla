----------------------------- MODULE WorkQueue -----------------------------
(***************************************************************************)
(* What a queue of jobs with one worker promises: jobs are done one at a     *)
(* time in the order in which they were accepted, none is done twice, and    *)
(* each one is done unless the process that accepted it ends before: only the *)
(* end of a process loses jobs.                                             *)
(***************************************************************************)
EXTENDS Naturals, Sequences

CONSTANTS
    Job,   \* the jobs
    None   \* no job, and none of them

VARIABLES
    accepted,  \* jobs accepted so far
    waiting,   \* those not begun, in order
    current,   \* the one being done
    ended,     \* those that have been done
    process    \* the process that runs, counting from 0

vars == <<accepted, waiting, current, ended, process>>

Init ==
    /\ accepted = {}
    /\ waiting = <<>>
    /\ current = None
    /\ ended = {}
    /\ process = 0

Accept(j) ==
    /\ j \notin accepted
    /\ accepted' = accepted \cup {j}
    /\ waiting' = Append(waiting, j)
    /\ UNCHANGED <<current, ended, process>>

Start ==
    /\ current = None
    /\ waiting # <<>>
    /\ current' = Head(waiting)
    /\ waiting' = Tail(waiting)
    /\ UNCHANGED <<accepted, ended, process>>

End ==
    /\ current # None
    /\ ended' = ended \cup {current}
    /\ current' = None
    /\ UNCHANGED <<accepted, waiting, process>>

\* The process ends, with the jobs that it has not done; another one starts.
Lose ==
    /\ process' = process + 1
    /\ waiting' = <<>>
    /\ current' = None
    /\ UNCHANGED <<accepted, ended>>

Next == (\E j \in Job : Accept(j)) \/ Start \/ End \/ Lose

Spec == Init /\ [][Next]_vars /\ WF_vars(Start) /\ WF_vars(End)
=============================================================================
