------------------------------ MODULE TaskRow ------------------------------
(***************************************************************************)
(* One row of the tasks table (app/models/task.py), the guards the request *)
(* handlers of app/api/tasks.py and the jobs of app/core/scheduler.py put  *)
(* on it, and the row each of them writes back.  The module has no state:  *)
(* TaskLifecycle runs every handler as one step on the table,              *)
(* TaskTransactions runs the same guards and writes inside transactions.   *)
(*                                                                         *)
(* Time is abstracted: a deadline column is unset, still running or due,   *)
(* and "aged" says that created_at lies at least ten minutes back.         *)
(***************************************************************************)
EXTENDS Integers, FiniteSets

CONSTANTS
    Tasks,          \* task ids
    Users,          \* user ids
    Departments,    \* department ids
    Agents,         \* rows of the agents table
    Role,           \* users.role
    DeptOf,         \* users.department_id
    AgentUser,      \* agents.user_id
    AgentDept,      \* agents.department_id
    Hashes,         \* values of file_hash
    Models,         \* model names
    Pcts,           \* values of progress_pct a client reports
    MaxSeq,         \* bound on progress_seq
    None            \* SQL NULL

ASSUME RolesAssumption == Role \in [Users -> {"member", "dept_head", "admin"}]
ASSUME DeptOfAssumption == DeptOf \in [Users -> Departments]
ASSUME AgentUserAssumption == AgentUser \in [Agents -> Users]
ASSUME AgentDeptAssumption == AgentDept \in [Agents -> Departments]
ASSUME PctsAssumption == Pcts \subseteq 0..100
ASSUME MaxSeqAssumption == MaxSeq \in Nat
ASSUME NoneAssumption == None \notin Users \cup Hashes \cup Models

----------------------------------------------------------------------------
(* The row.  "absent" stands for an id that has no row yet.                *)

Held == {"claimed", "assigned_auto", "processing"}
Status == {"absent", "pending", "completed"} \cup Held
Strategies == {"manual", "auto", "hybrid"}
AutoStrategies == {"auto", "hybrid"}
Deadline == {"unset", "running", "due"}

Row == [status                : Status,
        assignee              : Users \cup {None},
        department            : Departments,
        strategy              : Strategies,
        aged                  : BOOLEAN,
        claim_timeout_at      : Deadline,
        inactivity_timeout_at : Deadline,
        progress_seq          : 0..MaxSeq,
        progress_pct          : 0..100,
        file_hash             : Hashes \cup {None},
        override_model        : Models \cup {None}]

RowOf(st, d, s) ==
    [status |-> st, assignee |-> None, department |-> d, strategy |-> s,
     aged |-> FALSE, claim_timeout_at |-> "unset",
     inactivity_timeout_at |-> "unset", progress_seq |-> 0,
     progress_pct |-> 0, file_hash |-> None, override_model |-> None]

\* _load_task_or_404
Exists(row) == row.status # "absent"

----------------------------------------------------------------------------
(* Plausible mistakes in the guards and writes below.  None is part of the *)
(* model: each shows that a property would notice it (see README).         *)

ClaimableAgain(row) == row.status \in {"pending", "claimed"}
ReleasableUnlessPending(row, me) == row.status \notin {"absent", "pending"}
ReadyIfManual(row) == row.status = "pending" /\ row.aged
ReadyIfAutoOnly(row) == row.status = "pending" /\ row.strategy = "auto" /\ row.aged
ReadyIfAssigned(row) == row.strategy \in AutoStrategies /\ row.aged
HeldByAnyStatus(row, u) == row.assignee = u

ClaimedForEver(row, u) == [row EXCEPT !.status = "claimed", !.assignee = u]
StartedForEver(row) ==
    [row EXCEPT !.status = "processing", !.claim_timeout_at = "unset"]
ReportedSum(row, seq, pct) ==
    [row EXCEPT !.progress_seq = seq, !.progress_pct = @ + pct,
                !.inactivity_timeout_at = "running"]
SubmittedWithoutHash(row, hash, model) == [row EXCEPT !.status = "completed"]
ReclaimedStatusOnly(row) ==
    [row EXCEPT !.status = "pending", !.inactivity_timeout_at = "unset"]
ReclaimedOwnerOnly(row) == [row EXCEPT !.assignee = None]

----------------------------------------------------------------------------
(* Who may do what to a row.                                               *)

IsAdmin(me) == Role[me] = "admin"
Oversees(me) == Role[me] \in {"admin", "dept_head"}

\* the check of create_task: a member creates in the member's own department
MayCreateIn(me, d) == Role[me] = "member" => d = DeptOf[me]

\* the check of start_task and submit_result
MayWorkOn(row, me) == row.assignee = me \/ IsAdmin(me)

\* the check of release_task and override_model
MayManage(row, me) == row.assignee = me \/ Oversees(me)

Claimable(row) == row.status = "pending"
Startable(row, me) == MayWorkOn(row, me) /\ row.status \in {"claimed", "assigned_auto"}
Releasable(row, me) == MayManage(row, me) /\ row.status \in {"claimed", "assigned_auto"}
FreshReport(row, seq) == Exists(row) /\ seq > row.progress_seq

\* a submission is repeated when the row is completed with the same hash
Resubmitted(row, hash) == row.status = "completed" /\ row.file_hash = hash
Submittable(row, me, hash) ==
    Exists(row) /\ ~Resubmitted(row, hash) /\ MayWorkOn(row, me)

(* What the jobs select.                                                   *)
ClaimOverdue(row) == row.status = "claimed" /\ row.claim_timeout_at = "due"
WorkOverdue(row) == row.status = "processing" /\ row.inactivity_timeout_at = "due"
FallbackReady(row) ==
    row.status = "pending" /\ row.strategy \in AutoStrategies /\ row.aged
HeldBy(row, u) == row.assignee = u /\ row.status \in Held

----------------------------------------------------------------------------
(* What each handler and job writes.                                       *)

Claimed(row, u) ==
    [row EXCEPT !.status = "claimed", !.assignee = u, !.claim_timeout_at = "running"]

AutoAssigned(row, u) ==
    [row EXCEPT !.status = "assigned_auto", !.assignee = u,
                !.claim_timeout_at = "running"]

Started(row) ==
    [row EXCEPT !.status = "processing", !.inactivity_timeout_at = "running",
                !.claim_timeout_at = "unset"]

Reported(row, seq, pct) ==
    [row EXCEPT !.progress_seq = seq, !.progress_pct = pct,
                !.inactivity_timeout_at = "running"]

Submitted(row, hash, model) ==
    [row EXCEPT !.status = "completed", !.file_hash = hash, !.progress_pct = 100,
                !.override_model = IF model = None THEN @ ELSE model]

\* release_task, check_claim_timeouts and _release_agent_tasks write the same
Released(row) ==
    [row EXCEPT !.status = "pending", !.assignee = None, !.claim_timeout_at = "unset"]

Reclaimed(row) ==
    [row EXCEPT !.status = "pending", !.assignee = None,
                !.inactivity_timeout_at = "unset"]

Overridden(row, model) == [row EXCEPT !.override_model = model]

----------------------------------------------------------------------------
(* What a sound row looks like.                                            *)

\* owned while held, without an owner in the pool
OwnedRow(row) ==
    /\ row.status \in Held => row.assignee \in Users
    /\ row.status \in {"absent", "pending"} => row.assignee = None

\* while it is held, the deadline column of its status is set
ArmedRow(row) ==
    /\ row.status \in {"claimed", "assigned_auto"} => row.claim_timeout_at # "unset"
    /\ row.status = "processing" => row.inactivity_timeout_at # "unset"

\* assigned by the fallback job only if that job may take it
EligibleRow(row) ==
    row.status = "assigned_auto" => row.strategy \in AutoStrategies /\ row.aged

----------------------------------------------------------------------------
(* auto_fallback_assign sorts the online agents once per run; a task goes  *)
(* to the first agent of its department, else to the first of all.  "best" *)
(* is the head of that order, first[d] its first agent of department d.    *)

InDept(online, d) == {a \in online : AgentDept[a] = d}

FirstOfOrder(online, best, first) ==
    /\ best \in online
    /\ first[AgentDept[best]] = best
    /\ \A d \in Departments :
          IF InDept(online, d) = {} THEN first[d] = best
                                    ELSE first[d] \in InDept(online, d)
=============================================================================
