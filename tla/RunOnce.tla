------------------------------ MODULE RunOnce ------------------------------
(***************************************************************************)
(* run_once of app/core/locks.py: the jobs of app/core/scheduler.py fire   *)
(* in every worker process, and the Redis key scheduler:lock:{job} lets    *)
(* one of them through.                                                    *)
(*                                                                         *)
(* The key holds WORKER_ID, the node name: the worker processes of one     *)
(* container write the same value.  APScheduler keeps each process to one  *)
(* instance of a job (max_instances=1).  Nothing bounds how long a run     *)
(* takes, so its key may be gone before it ends; overrun remembers that.   *)
(***************************************************************************)
CONSTANTS
    Processes,      \* worker processes, each with a scheduler of its own
    Hosts,          \* node names
    WORKER_ID,      \* the node a process runs on
    Jobs,           \* names of the scheduled jobs
    None            \* no such key

ASSUME WorkersAssumption == WORKER_ID \in [Processes -> Hosts]
ASSUME NoneAssumption == None \notin Hosts

VARIABLES
    lock,       \* lock[j]: the value of scheduler:lock:{j}
    pc,         \* pc[p][j]: where process p stands with job j
    up,         \* the processes that live
    overrun     \* overrun[j]: history; j lost its key to the TTL or to eviction
                \* while processes were busy with it, and some still are

vars == <<lock, pc, up, overrun>>

Labels == {"idle", "running", "checking", "deleting"}

Init ==
    /\ lock = [j \in Jobs |-> None]
    /\ pc = [p \in Processes |-> [j \in Jobs |-> "idle"]]
    /\ up = Processes
    /\ overrun = [j \in Jobs |-> FALSE]

Active(p, j) == pc[p][j] # "idle"

Busy(j) == \E p \in Processes : Active(p, j)

\* once nobody is busy with a job, it is over with what its key has missed
Remember == overrun' = [j \in Jobs |-> overrun[j] /\ Busy(j)']

Goto(p, j, label) == pc' = [pc EXCEPT ![p][j] = label]

\* two mistakes Acquire must not make: SET without NX, and a value that is not
\* the node name
AcquireAnyway(p, j) ==
    /\ p \in up
    /\ pc[p][j] = "idle"
    /\ lock' = [lock EXCEPT ![j] = WORKER_ID[p]]
    /\ Goto(p, j, "running")
    /\ Remember
    /\ UNCHANGED up

AcquireAsProcess(p, j) ==
    /\ p \in up
    /\ pc[p][j] = "idle"
    /\ lock[j] = None
    /\ lock' = [lock EXCEPT ![j] = p]
    /\ Goto(p, j, "running")
    /\ Remember
    /\ UNCHANGED up

\* SET NX EX: when the key exists the run is skipped, which changes nothing
Acquire(p, j) ==
    /\ p \in up
    /\ pc[p][j] = "idle"
    /\ lock[j] = None
    /\ lock' = [lock EXCEPT ![j] = WORKER_ID[p]]
    /\ Goto(p, j, "running")
    /\ Remember
    /\ UNCHANGED up

\* the job returns or raises
FinishRun(p, j) ==
    /\ pc[p][j] = "running"
    /\ Goto(p, j, "checking")
    /\ Remember
    /\ UNCHANGED <<lock, up>>

\* GET: only the owner goes on to delete
CheckOwner(p, j) ==
    /\ pc[p][j] = "checking"
    /\ Goto(p, j, IF lock[j] = WORKER_ID[p] THEN "deleting" ELSE "idle")
    /\ Remember
    /\ UNCHANGED <<lock, up>>

\* DEL, whoever owns the key by now
DeleteLock(p, j) ==
    /\ pc[p][j] = "deleting"
    /\ lock' = [lock EXCEPT ![j] = None]
    /\ Goto(p, j, "idle")
    /\ Remember
    /\ UNCHANGED up

\* a mistake: the key is written without EX
NeverExpire(j) == FALSE /\ lock[j] # None /\ UNCHANGED vars

\* the TTL is over or the key is evicted, whoever is still at work
Expire(j) ==
    /\ lock[j] # None
    /\ lock' = [lock EXCEPT ![j] = None]
    /\ overrun' = [overrun EXCEPT ![j] = Busy(j)]
    /\ UNCHANGED <<pc, up>>

\* a process dies in the middle of anything; its keys stay
Crash(p) ==
    /\ p \in up
    /\ up' = up \ {p}
    /\ pc' = [pc EXCEPT ![p] = [j \in Jobs |-> "idle"]]
    /\ Remember
    /\ UNCHANGED lock

Restart(p) ==
    /\ p \notin up
    /\ up' = up \cup {p}
    /\ UNCHANGED <<lock, pc, overrun>>

Unlock(p, j) == CheckOwner(p, j) \/ DeleteLock(p, j)

Next ==
    \/ \E p \in Processes, j \in Jobs :
          Acquire(p, j) \/ FinishRun(p, j) \/ Unlock(p, j)
    \/ \E j \in Jobs : Expire(j)
    \/ \E p \in Processes : Crash(p) \/ Restart(p)

Spec == Init /\ [][Next]_vars

(* A live process fires its jobs for ever, a run ends and a TTL ends.  A   *)
(* process may die as often as it likes and need not come back.            *)
Fairness ==
    /\ \A p \in Processes, j \in Jobs :
          /\ WF_vars(Acquire(p, j))
          /\ WF_vars(FinishRun(p, j))
          /\ WF_vars(Unlock(p, j))
    /\ \A j \in Jobs : WF_vars(Expire(j))

FairSpec == Spec /\ Fairness

----------------------------------------------------------------------------

TypeOK ==
    /\ lock \in [Jobs -> Hosts \cup {None}]
    /\ pc \in [Processes -> [Jobs -> Labels]]
    /\ up \subseteq Processes
    /\ overrun \in [Jobs -> BOOLEAN]

\* run_once: one worker executes a job at a time, across all processes of all
\* containers and although those of one container write the same value, unless
\* the key was gone before a run was over.
AtMostOneRuns ==
    \A j \in Jobs, p, q \in Processes :
        ~overrun[j] /\ pc[p][j] = "running" /\ pc[q][j] = "running" => p = q

\* No job starves while one process stays alive: others that die with the key
\* in their hands, as often as they like, delay it by a TTL and do not stop it.
JobsGoOn ==
    (\E p \in Processes : <>[](p \in up))
       => \A j \in Jobs : []<>(\E p \in Processes : pc[p][j] = "running")

----------------------------------------------------------------------------

\* who executes the function handed to run_once
Executing == [j \in Jobs |-> {p \in Processes : pc[p][j] = "running"}]

Exclusion == INSTANCE JobExclusion WITH Workers <- Processes, executing <- Executing

\* run_once implements the promise, with a key that may expire under a run, names
\* that processes share and workers that die: a second worker is let into a job
\* only after its key has gone under a run, DELs that then hit the key of another
\* included, and the job is exclusive again as soon as it has once been quiet.
ImplementsExclusion == Exclusion!Spec
=============================================================================
