---------------------------- MODULE JobExclusion ----------------------------
(***************************************************************************)
(* What run_once of app/core/locks.py promises of the scheduled jobs:      *)
(* whoever they are and whenever they die, one worker at a time executes a *)
(* job, unless a run has overrun its key, and then again once the job has  *)
(* come to rest.  The key itself is left out, and who was turned away.     *)
(***************************************************************************)
CONSTANTS Workers, Jobs

VARIABLES
    executing,      \* executing[j]: the workers that execute job j
    overrun         \* overrun[j]: a run of j goes on without its key

vars == <<executing, overrun>>

Init ==
    /\ executing = [j \in Jobs |-> {}]
    /\ overrun = [j \in Jobs |-> FALSE]

\* run_once lets a worker through
Start(j, w) ==
    /\ executing[j] = {} \/ overrun[j]
    /\ executing' = [executing EXCEPT ![j] = @ \cup {w}]
    /\ UNCHANGED overrun

\* runs end, or all those of a worker that dies; what was overrun may be over
\* where nobody is left
Stop ==
    /\ executing' \in [Jobs -> SUBSET Workers]
    /\ overrun' \in [Jobs -> BOOLEAN]
    /\ \A j \in Jobs :
        /\ executing'[j] \subseteq executing[j]
        /\ overrun'[j] # overrun[j] => overrun[j] /\ executing'[j] = {}

\* a key is gone before its run is over
Overrun(j) ==
    /\ overrun' = [overrun EXCEPT ![j] = TRUE]
    /\ UNCHANGED executing

Next ==
    \/ \E j \in Jobs, w \in Workers : Start(j, w)
    \/ Stop
    \/ \E j \in Jobs : Overrun(j)

Spec == Init /\ [][Next]_vars
=============================================================================
