-------------------------- MODULE TaskTransactions --------------------------
(***************************************************************************)
(* The handlers and jobs of TaskRow taken apart at their awaits, as they   *)
(* really run: several coroutines in several worker processes, each with a *)
(* database session of its own, and the Redis lock task:lock:{id}.         *)
(*                                                                         *)
(* A session reads rows under READ COMMITTED, decides on what it has read, *)
(* and flushes an UPDATE ... WHERE id that takes the row lock.  The UPDATE *)
(* carries only the columns the handler changed (the ORM compares them     *)
(* with the values it loaded), so at COMMIT these columns are laid over    *)
(* whatever the row holds by then.  get_db commits after the handler       *)
(* returned, that is, after claim_task gave the Redis lock back.           *)
(***************************************************************************)
EXTENDS TaskRow

CONSTANTS
    Sessions,       \* database sessions that may be open at the same time
    Kinds,          \* the kinds of request and job that occur
    AutoHolder,     \* the holder name "system:auto" of the fallback job
    LocksExpire     \* whether the keys in Redis, those of run_once included, may go
                    \* while their holders are at work (TTL or eviction)

RequestKinds == {"claim", "start", "progress", "submit", "release", "override"}
JobKinds == {"claim_timeouts", "inactivity", "fallback", "stale"}
AllKinds == RequestKinds \cup JobKinds

ASSUME KindsAssumption == Kinds \subseteq AllKinds
ASSUME AutoAssumption == AutoHolder \notin Users \cup {None}
ASSUME LocksExpireAssumption == LocksExpire \in BOOLEAN
ASSUME SessionsAssumption == None \notin Sessions

VARIABLES
    task,       \* the committed table
    rowLock,    \* rowLock[t]: the session whose UPDATE of t is not committed
    redis,      \* redis[t]: the holder of task:lock:{t}
    pc,         \* pc[s]: where session s stands
    op,         \* op[s]: the request or job it runs
    key,        \* key[s]: the task the request names, or the job locks
    todo,       \* todo[s]: what the fallback job has still to lock
    batch,      \* batch[s]: the rows the session has changed
    snap        \* snap[s]: the rows as it read them

vars == <<task, rowLock, redis, pc, op, key, todo, batch, snap>>
local == <<op, key, todo, batch, snap>>

----------------------------------------------------------------------------
(* Requests and jobs as data.                                              *)

Requests ==
    [kind : {"claim", "start", "release"}, user : Users]
      \cup [kind : {"progress"}, seq : 1..MaxSeq, pct : Pcts]
      \cup [kind : {"submit"}, user : Users, hash : Hashes, model : Models \cup {None}]
      \cup [kind : {"override"}, user : Users, model : Models]

Jobs ==
    [kind : {"claim_timeouts", "inactivity"}]
      \cup [kind : {"fallback"}, first : [Departments -> Agents]]
      \cup [kind : {"stale"}, user : {AgentUser[a] : a \in Agents}]

\* the guard of the handler, or the WHERE clause of the job
Selects(o, row) ==
    CASE o.kind = "claim"          -> Claimable(row)
      [] o.kind = "start"          -> Startable(row, o.user)
      [] o.kind = "progress"       -> FreshReport(row, o.seq)
      [] o.kind = "submit"         -> Submittable(row, o.user, o.hash)
      [] o.kind = "release"        -> Releasable(row, o.user)
      [] o.kind = "override"       -> Exists(row) /\ MayManage(row, o.user)
      [] o.kind = "claim_timeouts" -> ClaimOverdue(row)
      [] o.kind = "inactivity"     -> WorkOverdue(row)
      [] o.kind = "fallback"       -> FallbackReady(row)
      [] o.kind = "stale"          -> HeldBy(row, o.user)

\* the row as the session leaves it
Written(o, row) ==
    CASE o.kind = "claim"          -> Claimed(row, o.user)
      [] o.kind = "start"          -> Started(row)
      [] o.kind = "progress"       -> Reported(row, o.seq, o.pct)
      [] o.kind = "submit"         -> Submitted(row, o.hash, o.model)
      [] o.kind = "override"       -> Overridden(row, o.model)
      [] o.kind = "inactivity"     -> Reclaimed(row)
      [] o.kind = "fallback"       -> AutoAssigned(row, AgentUser[o.first[row.department]])
      [] OTHER                     -> Released(row)

\* a mistake about the UPDATE: a deadline set again is taken for unchanged
RenewsNothing(o) == {}

\* the deadline columns it sets from the clock: a new timestamp, always written
Renews(o) ==
    CASE o.kind \in {"claim", "fallback"}  -> {"claim_timeout_at"}
      [] o.kind \in {"start", "progress"}  -> {"inactivity_timeout_at"}
      [] OTHER                             -> {}

\* a mistake: the UPDATE sends all columns, changed or not
OverlaidWhole(o, old, row) == Written(o, old)

\* the row once the UPDATE of a session that had read "old" is committed
Overlaid(o, old, row) ==
    [c \in DOMAIN row |->
        IF Written(o, old)[c] # old[c] \/ c \in Renews(o)
        THEN Written(o, old)[c] ELSE row[c]]

----------------------------------------------------------------------------

Init ==
    /\ task \in [Tasks -> {RowOf("pending", d, s) : d \in Departments, s \in Strategies}]
    /\ rowLock = [t \in Tasks |-> None]
    /\ redis = [t \in Tasks |-> None]
    /\ pc = [s \in Sessions |-> "idle"]
    /\ op = [s \in Sessions |-> None]
    /\ key = [s \in Sessions |-> None]
    /\ todo = [s \in Sessions |-> {}]
    /\ batch = [s \in Sessions |-> {}]
    /\ snap = [s \in Sessions |-> <<>>]

Goto(s, label) == pc' = [pc EXCEPT ![s] = label]

\* two mistakes Close must not make: the next session finds the old one's
\* rows, or everybody finds its row locks
CloseKeepingRows(s) ==
    /\ Goto(s, "idle")
    /\ op' = [op EXCEPT ![s] = None]
    /\ key' = [key EXCEPT ![s] = None]
    /\ snap' = [snap EXCEPT ![s] = <<>>]
    /\ rowLock' = [t \in Tasks |-> IF rowLock[t] = s THEN None ELSE rowLock[t]]
    /\ UNCHANGED <<todo, batch>>

CloseKeepingLocks(s) ==
    /\ Goto(s, "idle")
    /\ op' = [op EXCEPT ![s] = None]
    /\ key' = [key EXCEPT ![s] = None]
    /\ todo' = [todo EXCEPT ![s] = {}]
    /\ batch' = [batch EXCEPT ![s] = {}]
    /\ snap' = [snap EXCEPT ![s] = <<>>]
    /\ UNCHANGED rowLock

\* the session is closed and its row locks are gone
Close(s) ==
    /\ Goto(s, "idle")
    /\ op' = [op EXCEPT ![s] = None]
    /\ key' = [key EXCEPT ![s] = None]
    /\ todo' = [todo EXCEPT ![s] = {}]
    /\ batch' = [batch EXCEPT ![s] = {}]
    /\ snap' = [snap EXCEPT ![s] = <<>>]
    /\ rowLock' = [t \in Tasks |-> IF rowLock[t] = s THEN None ELSE rowLock[t]]

\* a request comes in; claim_task begins with the Redis lock
Arrive(s, o, t) ==
    /\ pc[s] = "idle"
    /\ o.kind \in Kinds
    /\ Goto(s, IF o.kind = "claim" THEN "locking" ELSE "reading")
    /\ op' = [op EXCEPT ![s] = o]
    /\ key' = [key EXCEPT ![s] = t]
    /\ UNCHANGED <<task, rowLock, redis, todo, batch, snap>>

\* a job fires; run_once keeps it to one run at a time, but for a run whose key
\* is gone before it ends (RunOnce)
Fire(s, o) ==
    /\ pc[s] = "idle"
    /\ o.kind \in Kinds
    /\ LocksExpire \/ \A other \in Sessions : pc[other] # "idle" => op[other].kind # o.kind
    /\ Goto(s, "reading")
    /\ op' = [op EXCEPT ![s] = o]
    /\ UNCHANGED <<task, rowLock, redis, key, todo, batch, snap>>

----------------------------------------------------------------------------
(* The Redis lock.                                                         *)

Holder(s) == IF op[s].kind = "fallback" THEN AutoHolder ELSE op[s].user

\* SET NX EX 10
TryLock(s) ==
    /\ pc[s] = "locking"
    /\ IF redis[key[s]] = None
       THEN /\ redis' = [redis EXCEPT ![key[s]] = Holder(s)]
            /\ Goto(s, "reading")
       ELSE Goto(s, "asking") /\ UNCHANGED redis
    /\ UNCHANGED <<task, rowLock, local>>

\* the lock was taken: its holder's own repeated claim goes on without it
AskHolder(s) ==
    /\ pc[s] = "asking"
    /\ UNCHANGED <<task, redis>>
    /\ \/ redis[key[s]] = Holder(s) /\ Goto(s, "reading") /\ UNCHANGED <<rowLock, local>>
       \/ redis[key[s]] # Holder(s) /\ Close(s)

\* where claim_task and the fallback job go on once the lock is dealt with
AfterUnlock(s) ==
    IF op[s].kind = "fallback" THEN Goto(s, "taking") /\ UNCHANGED <<rowLock, local>>
    ELSE IF batch[s] = {} THEN Close(s)
    ELSE Goto(s, "committing") /\ UNCHANGED <<rowLock, local>>

\* GET: only the holder gives the lock back
CheckHolder(s) ==
    /\ pc[s] = "unlocking"
    /\ UNCHANGED <<task, redis>>
    /\ \/ redis[key[s]] = Holder(s) /\ Goto(s, "deleting") /\ UNCHANGED <<rowLock, local>>
       \/ redis[key[s]] # Holder(s) /\ AfterUnlock(s)

\* DEL, whoever holds the lock by now
DeleteLock(s) ==
    /\ pc[s] = "deleting"
    /\ redis' = [redis EXCEPT ![key[s]] = None]
    /\ UNCHANGED task
    /\ AfterUnlock(s)

LockExpires(t) ==
    /\ LocksExpire
    /\ redis[t] # None
    /\ redis' = [redis EXCEPT ![t] = None]
    /\ UNCHANGED <<task, rowLock, pc, local>>

----------------------------------------------------------------------------
(* The database.                                                           *)

\* SELECT one row, check it, change it in memory
ReadRow(s) ==
    /\ pc[s] = "reading"
    /\ op[s].kind \in RequestKinds
    /\ UNCHANGED <<task, redis>>
    /\ \/ /\ Selects(op[s], task[key[s]])
          /\ Goto(s, "flushing")
          /\ batch' = [batch EXCEPT ![s] = {key[s]}]
          /\ snap' = [snap EXCEPT ![s] = task]
          /\ UNCHANGED <<rowLock, op, key, todo>>
       \/ /\ ~Selects(op[s], task[key[s]])
          /\ IF op[s].kind = "claim"
             THEN Goto(s, "unlocking") /\ UNCHANGED <<rowLock, local>>
             ELSE Close(s)

\* SELECT the rows of a job; the fallback job then locks them one by one
SelectRows(s) ==
    /\ pc[s] = "reading"
    /\ op[s].kind \in JobKinds
    /\ LET found == {t \in Tasks : Selects(op[s], task[t])}
       IN  \/ found = {} /\ Close(s)
           \/ /\ found # {}
              /\ snap' = [snap EXCEPT ![s] = task]
              /\ IF op[s].kind = "fallback"
                 THEN /\ Goto(s, "taking")
                      /\ todo' = [todo EXCEPT ![s] = found]
                      /\ UNCHANGED batch
                 ELSE /\ Goto(s, "flushing")
                      /\ batch' = [batch EXCEPT ![s] = found]
                      /\ UNCHANGED todo
              /\ UNCHANGED <<rowLock, op, key>>
    /\ UNCHANGED <<task, redis>>

\* the loop of auto_fallback_assign: SET NX, change the row, GET and DEL; the
\* row is not read again
TakeNext(s, t) ==
    /\ pc[s] = "taking"
    /\ t \in todo[s]
    /\ todo' = [todo EXCEPT ![s] = @ \ {t}]
    /\ \/ /\ redis[t] = None
          /\ redis' = [redis EXCEPT ![t] = AutoHolder]
          /\ batch' = [batch EXCEPT ![s] = @ \cup {t}]
          /\ key' = [key EXCEPT ![s] = t]
          /\ Goto(s, "unlocking")
       \/ redis[t] # None /\ UNCHANGED <<redis, batch, key, pc>>
    /\ UNCHANGED <<task, rowLock, op, snap>>

AllTaken(s) ==
    /\ pc[s] = "taking"
    /\ todo[s] = {}
    /\ Goto(s, "flushing")
    /\ UNCHANGED <<task, rowLock, redis, local>>

\* the UPDATEs wait for the row locks of others
Flush(s) ==
    /\ pc[s] = "flushing"
    /\ \A t \in batch[s] : rowLock[t] = None
    /\ rowLock' = [t \in Tasks |-> IF t \in batch[s] THEN s ELSE rowLock[t]]
    /\ Goto(s, IF op[s].kind = "claim" THEN "unlocking" ELSE "committing")
    /\ UNCHANGED <<task, redis, local>>

Commit(s) ==
    /\ pc[s] = "committing"
    /\ task' = [t \in Tasks |->
                  IF t \in batch[s] THEN Overlaid(op[s], snap[s][t], task[t])
                                    ELSE task[t]]
    /\ Close(s)
    /\ UNCHANGED redis

\* the worker dies or loses a connection: a rollback, the Redis lock stays
Abort(s) ==
    /\ pc[s] # "idle"
    /\ Close(s)
    /\ UNCHANGED <<task, redis>>

----------------------------------------------------------------------------
(* Time moves the columns of TaskLifecycle in the table itself.            *)

Elapse(t, row) ==
    /\ task' = [task EXCEPT ![t] = row]
    /\ UNCHANGED <<rowLock, redis, pc, local>>

TimePasses(t) ==
    \/ ~task[t].aged /\ Elapse(t, [task[t] EXCEPT !.aged = TRUE])
    \/ /\ task[t].claim_timeout_at = "running"
       /\ Elapse(t, [task[t] EXCEPT !.claim_timeout_at = "due"])
    \/ /\ task[t].inactivity_timeout_at = "running"
       /\ Elapse(t, [task[t] EXCEPT !.inactivity_timeout_at = "due"])

----------------------------------------------------------------------------

Progress(s) ==
    \/ TryLock(s) \/ AskHolder(s) \/ CheckHolder(s) \/ DeleteLock(s)
    \/ ReadRow(s) \/ SelectRows(s) \/ AllTaken(s) \/ Flush(s) \/ Commit(s)
    \/ \E t \in Tasks : TakeNext(s, t)

Step(s) ==
    \/ \E o \in Requests, t \in Tasks : Arrive(s, o, t)
    \/ \E o \in Jobs : Fire(s, o)
    \/ Progress(s)
    \/ Abort(s)

Next == \/ \E s \in Sessions : Step(s)
        \/ \E t \in Tasks : LockExpires(t) \/ TimePasses(t)

Spec == Init /\ [][Next]_vars

(* A session that can go on does; PostgreSQL serves the waiters for a row  *)
(* lock in turn, so a waiter that is let in again and again gets in.       *)
Fairness ==
    \A s \in Sessions : WF_vars(Progress(s)) /\ SF_vars(Flush(s))

FairSpec == Spec /\ Fairness

----------------------------------------------------------------------------
(* What holds whatever the interleaving.                                   *)

Labels == {"idle", "locking", "asking", "reading", "taking", "flushing",
           "unlocking", "deleting", "committing"}

TypeOK ==
    /\ task \in [Tasks -> Row]
    /\ rowLock \in [Tasks -> Sessions \cup {None}]
    /\ redis \in [Tasks -> Users \cup {AutoHolder, None}]
    /\ pc \in [Sessions -> Labels]
    /\ op \in [Sessions -> Requests \cup Jobs \cup {None}]
    /\ key \in [Sessions -> Tasks \cup {None}]
    /\ DOMAIN snap = Sessions
    /\ todo \in [Sessions -> SUBSET Tasks]
    /\ batch \in [Sessions -> SUBSET Tasks]
    /\ \A s \in Sessions :
          pc[s] # "idle" => \/ op[s] \in Requests /\ key[s] \in Tasks
                           \/ op[s] \in Jobs
    /\ \A s \in Sessions : batch[s] \cup todo[s] # {} => snap[s] \in [Tasks -> Row]

\* However stale the row a session decided on: the deadline column that belongs to
\* the status of a held task is set, since every UPDATE that clears one also writes
\* a status that does not need it.  A claim and a start are recalled by that
\* column; of assigned_auto no job reads it (AssignmentDoesNotLast).
HeldTasksHaveDeadlines == \A t \in Tasks : ArmedRow(task[t])

\* The fallback job never assigns a manual or a fresh task, even when it acts
\* on rows it read long before.
AutoOnlyWhenEligible == \A t \in Tasks : EligibleRow(task[t])

\* A completed task carries the hash of a result, whatever was laid over it.
CompletedHasResult ==
    \A t \in Tasks : task[t].status = "completed" => task[t].file_hash # None

\* One row under the whole handlers and jobs of TaskLifecycle.
Alone(t) == INSTANCE TaskLifecycle WITH Tasks <- {t}, task <- [x \in {t} |-> task[x]]

\* Since the row was "old", time has passed and nobody has written it.
OnlyAged(old, row) ==
    /\ \A c \in DOMAIN row \ {"aged", "claim_timeout_at", "inactivity_timeout_at"} :
          row[c] = old[c]
    /\ old.aged => row.aged
    /\ \A c \in {"claim_timeout_at", "inactivity_timeout_at"} :
          row[c] = old[c] \/ (old[c] = "running" /\ row[c] = "due")

\* Somebody has written t between the read and the commit of s.
Overtaken(s, t) == t \in batch[s] /\ ~OnlyAged(snap[s][t], task[t])

\* In a step: t undergoes what one handler or job does to it, or nothing.
LawfulStep(t) == [Alone(t)!Next]_(task[t])

\* Taken apart at their awaits, with columns laid over columns and locks that come
\* and go, handlers and jobs do to a row what they do as a whole, except when the
\* row was written by another session between their read and their commit.
OnlyOvertakenCommitsAreUnlawful ==
    [][\A t \in Tasks :
          \/ LawfulStep(t)
          \/ \E s \in Sessions :
                pc[s] = "committing" /\ pc'[s] = "idle" /\ Overtaken(s, t)]_vars

\* No request or job is stuck: none waits for ever for a row lock or for the
\* Redis lock, whatever the others do and wherever they die.
SessionsFinish == \A s \in Sessions : pc[s] # "idle" ~> pc[s] = "idle"

----------------------------------------------------------------------------
(* What the documents promise and the interleavings break.                 *)

\* PRD 7.3: of two users who claim the same task at the same time, exactly
\* one succeeds; so no commit hands a held task to another user.
OneClaimSucceeds ==
    [][\A t \in Tasks :
          task[t].status \in Held /\ task'[t].status \in Held
             => task'[t].assignee = task[t].assignee]_vars

\* Completed is the last state of a task.
CompletedIsFinal ==
    [][\A t \in Tasks :
          task[t].status = "completed" => task'[t].status = "completed"]_vars
=============================================================================
