----------------------------- MODULE JobService -----------------------------
(***************************************************************************)
(* What ThreadPool promises to those who hand it jobs, without threads,    *)
(* locks or condition variables: a job that arrives before the destructor  *)
(* runs exactly once, jobs are started in the order they arrived, a job    *)
(* that arrives later is refused, and the destruction ends when everything *)
(* accepted has run.                                                       *)
(***************************************************************************)
EXTENDS Naturals, Sequences

CONSTANT Jobs

VARIABLES
    line,     \* accepted jobs that nobody started, oldest first
    running,  \* jobs being executed
    done,     \* jobs that have been executed
    refused,  \* jobs that came after the closing
    phase     \* "open", "closing" or "closed"

vars == <<line, running, done, refused, phase>>

Known == {line[i] : i \in DOMAIN line} \cup running \cup done \cup refused

Init ==
    /\ line = <<>>
    /\ running = {}
    /\ done = {}
    /\ refused = {}
    /\ phase = "open"

Accept(j) ==
    /\ phase = "open"
    /\ j \notin Known
    /\ line' = Append(line, j)
    /\ UNCHANGED <<running, done, refused, phase>>

Refuse(j) ==
    /\ phase = "closing"
    /\ j \notin Known
    /\ refused' = refused \cup {j}
    /\ UNCHANGED <<line, running, done, phase>>

Begin ==
    /\ line # <<>>
    /\ line' = Tail(line)
    /\ running' = running \cup {Head(line)}
    /\ UNCHANGED <<done, refused, phase>>

End(j) ==
    /\ j \in running
    /\ running' = running \ {j}
    /\ done' = done \cup {j}
    /\ UNCHANGED <<line, refused, phase>>

Close ==
    /\ phase = "open"
    /\ phase' = "closing"
    /\ UNCHANGED <<line, running, done, refused>>

Closed ==
    /\ phase = "closing"
    /\ line = <<>>
    /\ running = {}
    /\ phase' = "closed"
    /\ UNCHANGED <<line, running, done, refused>>

Next ==
    \/ \E j \in Jobs : Accept(j) \/ Refuse(j) \/ End(j)
    \/ Begin
    \/ Close
    \/ Closed

Fairness ==
    /\ WF_vars(Begin)
    /\ WF_vars(Closed)
    /\ \A j \in Jobs : WF_vars(End(j))

Promise == Init /\ [][Next]_vars
Spec == Promise /\ Fairness
=============================================================================
