--------------------------- MODULE TaskLifecycle ---------------------------
(***************************************************************************)
(* The life of the rows of the tasks table when every request handler of   *)
(* app/api/tasks.py and every job of app/core/scheduler.py runs on its own *)
(* (one handler, one step).  TaskTransactions takes the steps apart.       *)
(*                                                                         *)
(* A handler that answers with an error, or that recognises a repeated     *)
(* call (a claim by the present owner, an old progress_seq, a second       *)
(* submission with the same hash) leaves the table alone: it is a          *)
(* stuttering step.                                                        *)
(***************************************************************************)
EXTENDS TaskRow

Free == "free"
Done == "done"

ASSUME OwnerMarksAssumption == Free \notin Users /\ Done \notin Users

VARIABLE task       \* the table: one row per task id

vars == <<task>>

Init == task \in [Tasks -> {RowOf("absent", d, "manual") : d \in Departments}]

Update(t, row) == task' = [task EXCEPT ![t] = row]
Rewrite(S, written) ==
    task' = [t \in Tasks |-> IF t \in S THEN written[t] ELSE task[t]]

----------------------------------------------------------------------------
(* Requests of a user "me".                                                *)

CreateTask(t, me, d, s) ==
    /\ ~Exists(task[t])
    /\ MayCreateIn(me, d)
    /\ Update(t, RowOf("pending", d, s))

\* a request may name another user_id than the caller's, so only it counts
ClaimTask(t, u) ==
    /\ Claimable(task[t])
    /\ Update(t, Claimed(task[t], u))

StartTask(t, me) ==
    /\ Startable(task[t], me)
    /\ Update(t, Started(task[t]))

\* neither the status nor the assignee is looked at
ReportProgress(t, seq, pct) ==
    /\ FreshReport(task[t], seq)
    /\ Update(t, Reported(task[t], seq, pct))

SubmitResult(t, me, hash, model) ==
    /\ Submittable(task[t], me, hash)
    /\ Update(t, Submitted(task[t], hash, model))

ReleaseTask(t, me) ==
    /\ Releasable(task[t], me)
    /\ Update(t, Released(task[t]))

OverrideModel(t, me, model) ==
    /\ Exists(task[t])
    /\ MayManage(task[t], me)
    /\ Update(t, Overridden(task[t], model))

----------------------------------------------------------------------------
(* Jobs: each treats every row it selects and commits once.                *)

CheckClaimTimeouts ==
    LET due == {t \in Tasks : ClaimOverdue(task[t])}
    IN  due # {} /\ Rewrite(due, [t \in due |-> Released(task[t])])

CheckInactivityTimeouts ==
    LET due == {t \in Tasks : WorkOverdue(task[t])}
    IN  due # {} /\ Rewrite(due, [t \in due |-> Reclaimed(task[t])])

\* one run with these agents online, sorted by load (any load is possible)
AutoFallbackAssign(online, best, first) ==
    LET ready == {t \in Tasks : FallbackReady(task[t])}
    IN  /\ ready # {}
        /\ FirstOfOrder(online, best, first)
        /\ Rewrite(ready, [t \in ready |->
                             AutoAssigned(task[t], AgentUser[first[task[t].department]])])

SomeFallbackAssign ==
    \E online \in SUBSET Agents, best \in Agents, first \in [Departments -> Agents] :
        AutoFallbackAssign(online, best, first)

\* the part of check_agent_heartbeats that touches tasks: these agents are
\* found stale in one run
ReleaseAgentTasks(stale) ==
    LET lost == {t \in Tasks : \E a \in stale : HeldBy(task[t], AgentUser[a])}
    IN  lost # {} /\ Rewrite(lost, [t \in lost |-> Released(task[t])])

----------------------------------------------------------------------------
(* Time.                                                                   *)

TenMinutesPass(t) ==
    /\ Exists(task[t])
    /\ ~task[t].aged
    /\ Update(t, [task[t] EXCEPT !.aged = TRUE])

ClaimWindowEnds(t) ==
    /\ task[t].claim_timeout_at = "running"
    /\ Update(t, [task[t] EXCEPT !.claim_timeout_at = "due"])

InactivityWindowEnds(t) ==
    /\ task[t].inactivity_timeout_at = "running"
    /\ Update(t, [task[t] EXCEPT !.inactivity_timeout_at = "due"])

----------------------------------------------------------------------------

Request(t) ==
    \/ \E me \in Users, d \in Departments, s \in Strategies : CreateTask(t, me, d, s)
    \/ \E u \in Users : ClaimTask(t, u)
    \/ \E me \in Users : StartTask(t, me)
    \/ \E seq \in 1..MaxSeq, pct \in Pcts : ReportProgress(t, seq, pct)
    \/ \E me \in Users, hash \in Hashes, model \in Models \cup {None} :
          SubmitResult(t, me, hash, model)
    \/ \E me \in Users : ReleaseTask(t, me)
    \/ \E me \in Users, model \in Models : OverrideModel(t, me, model)

Job ==
    \/ CheckClaimTimeouts
    \/ CheckInactivityTimeouts
    \/ SomeFallbackAssign
    \/ \E stale \in SUBSET Agents : ReleaseAgentTasks(stale)

TimePasses(t) ==
    \/ TenMinutesPass(t)
    \/ ClaimWindowEnds(t)
    \/ InactivityWindowEnds(t)

Next == Job \/ \E t \in Tasks : Request(t) \/ TimePasses(t)

Spec == Init /\ [][Next]_vars

(* The jobs run every minute for as long as the process lives, a window    *)
(* that is not renewed ends, and some agent is online when the fallback    *)
(* job runs.  No user is obliged to do anything.                           *)
Fairness ==
    /\ WF_vars(CheckClaimTimeouts)
    /\ WF_vars(CheckInactivityTimeouts)
    /\ WF_vars(SomeFallbackAssign)
    /\ \A t \in Tasks :
          /\ WF_vars(TenMinutesPass(t))
          /\ WF_vars(ClaimWindowEnds(t))
          /\ WF_vars(InactivityWindowEnds(t))

FairSpec == Spec /\ Fairness

----------------------------------------------------------------------------
(* Invariants.                                                             *)

\* Every column keeps its type.
TypeOK == task \in [Tasks -> Row]

\* A task that is claimed, assigned or in processing has an owner, and one
\* that waits in the pool has none: every way out of the three held states
\* (release, two timeouts, a stale agent, and every combination of them)
\* takes status and assignee_id back together.
OwnedIffHeld == \A t \in Tasks : OwnedRow(task[t])

\* A held task has the deadline of its status (claim_timeout_at before the
\* start, inactivity_timeout_at after it; whether a job reads it is another
\* matter, see AssignmentDoesNotLast), and no claim deadline survives into the
\* pool or into processing, where it would recall a later claim too early.
HeldTasksHaveDeadlines ==
    \A t \in Tasks :
        /\ ArmedRow(task[t])
        /\ task[t].status \in {"absent", "pending", "processing"} =>
              task[t].claim_timeout_at = "unset"

\* The fallback job never takes a manual task, nor one that had less than
\* ten minutes in the pool since its creation.
AutoOnlyWhenEligible == \A t \in Tasks : EligibleRow(task[t])

\* A completed task has a result hash, and only a completed one has.
ResultIffCompleted ==
    \A t \in Tasks : (task[t].status = "completed") <=> (task[t].file_hash # None)

----------------------------------------------------------------------------
(* Action properties.                                                      *)

\* A task never passes from one user to another without going back to the
\* pool in between.
HandOverOnlyThroughPool ==
    [][\A t \in Tasks :
          task[t].status \in Held /\ task'[t].status \in Held
             => task'[t].assignee = task[t].assignee]_vars

\* Nothing takes a completed task back: no timeout, release, claim, start or
\* stale agent moves it out of "completed".
CompletedIsFinal ==
    [][\A t \in Tasks :
          task[t].status = "completed" => task'[t].status = "completed"]_vars

\* Neither a repeated claim nor anything else gives the holder of a claim a
\* new half hour: a claim deadline that is due is never renewed in place.
ClaimWindowNotRenewed ==
    [][\A t \in Tasks :
          task[t].claim_timeout_at = "due" => task'[t].claim_timeout_at # "running"]_vars

\* A late or repeated progress report never takes progress_seq back.
ProgressSeqGrows ==
    [][\A t \in Tasks :
          Exists(task[t]) => task'[t].progress_seq >= task[t].progress_seq]_vars

----------------------------------------------------------------------------
(* Liveness.                                                               *)

\* A claim that nobody starts does not last: it is started, submitted,
\* given up, or the claim-timeout job takes it back.
ClaimDoesNotLast ==
    \A t \in Tasks : task[t].status = "claimed" ~> task[t].status # "claimed"

\* Work without progress reports is recalled once its two hours are over,
\* unless a report (or the end of the work) comes first.
SilentWorkIsRecalled ==
    \A t \in Tasks : WorkOverdue(task[t]) ~> ~WorkOverdue(task[t])

\* An auto or hybrid task does not stay in the pool for ever.
FallbackHappens ==
    \A t \in Tasks :
        task[t].status = "pending" /\ task[t].strategy \in AutoStrategies
           ~> task[t].status # "pending"

\* PRD section 6: claimed and assigned_auto follow the same timeout rule
\* from there on; so an automatic assignment nobody starts does not last.
AssignmentDoesNotLast ==
    \A t \in Tasks : task[t].status = "assigned_auto" ~> task[t].status # "assigned_auto"

----------------------------------------------------------------------------
(* The refinement.                                                         *)

Owner(row) == CASE row.status \in {"absent", "pending"} -> Free
                [] row.status = "completed"             -> Done
                [] OTHER                                -> row.assignee

Ownership == INSTANCE TaskOwnership WITH owner <- [t \in Tasks |-> Owner(task[t])]

\* The lifecycle implements TaskOwnership.
ImplementsOwnership == Ownership!Spec
=============================================================================
