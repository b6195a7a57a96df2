# openclaw-platform in TLA+

A verification project for the OpenCLAW collaboration platform: a FastAPI
backend (`src/dev/backend`), a polling agent node (`src/dev/agent`) and a React
frontend (`src/dev/frontend`). The centre of the system is a pool of tasks that
people and agent nodes claim, work on and submit, with background jobs that
take forgotten tasks back. The modules here model that centre (the rows of the
`tasks` table, everything that writes them, and the two Redis locks that are
meant to keep the writers apart), the watch over the agent nodes, the node
itself, and the requests by which departments, models and shared results are
administered.

Paths without `src/` are under `src/dev/backend/app`.

## 1. The system

| Component | State | Operations | Interacts with | Correct when |
|---|---|---|---|---|
| Task API (`api/tasks.py`, `models/task.py`) | table `tasks`: status, assignee, strategy, two deadlines, `progress_seq`, result hash, model | create, claim, start, progress, submit, release, override model | Redis lock `task:lock:{id}`, NATS events, audit log | one owner while held, none in the pool; a deadline while held; completed is final; a late report changes nothing |
| Task scheduler (`core/scheduler.py`) | none of its own | `check_claim_timeouts`, `check_inactivity_timeouts`, `auto_fallback_assign` (every minute), `check_agent_heartbeats` (every 30 s; releases the tasks of a stale agent) | all of the above, `run_once` | forgotten work returns to the pool; only eligible tasks are assigned; no job undoes what a request committed |
| Distributed locks (`core/locks.py`, `claim_task`) | Redis keys with a TTL | `run_once`: SET NX EX, run, GET, DEL; the same sequence written out in `claim_task` and the fallback job | every worker process of every container | one worker at a time runs a job, unless a run has lost its key; a dead holder delays and does not stop the others |
| Database sessions (`core/database.py`) | transaction, identity map | read, flush, commit when the handler has returned, rollback | PostgreSQL row locks, READ COMMITTED | no lost update, no wait without end |
| Agent presence (`api/agents.py`, `check_agent_heartbeats`) | `agents.status`, `last_seen_at`, heartbeat key in Redis | register, heartbeat, fallback heartbeat, suspected and stale marks | the stale mark releases tasks | a silent agent is found stale in time and its tasks return; one that answers is not taken for silent |
| Agent node (`src/dev/agent/agent.py`) | concurrency counter, running coroutines | register, heartbeat, poll, process a task | all task requests, over a network that loses them | it goes on polling whatever fails, takes what it is assigned, and its overload is bounded |
| Departments, quotas, model locks (`api/departments.py`) | `department_quotas`, `department_model_locks` | create a department, set quota, set and remove a lock, push over NATS | message bus | at most one lock for a department and task type; no update undoes another |
| Model registry (`api/models.py`) | `model_registry` | register, update, push | message bus | names are unique; messages come in the order of the commits |
| Shared results (`api/shared.py`) | `shared_results` | share, approve, refuse | tasks, departments | decided by the department it was shared with, status and approver together |
| Files (`api/files.py`) | objects in MinIO | upload with a hash check | submission | the stored bytes have the stated hash |
| Message bus (`core/nats_client.py`) | connection | publish, dropped when disconnected | nobody in the repository subscribes | nothing waits for it |
| Users, audit, authentication | `users`, `audit_logs`, tokens | single-row reads and writes | role tests of all handlers | |
| Frontend (`TaskDetail.tsx`, `taskStore.ts`) | the last row shown | five-second poll, action, reload | task API | an old answer does not hide a newer one |

What is hard here is concurrency: several worker processes (`uvicorn --workers
2`, and any number of containers), each with many coroutines and its own copy
of the scheduler, work on one table with read-check-write transactions under
READ COMMITTED, without `SELECT ... FOR UPDATE` and without a version column.
The only mutual exclusion is in Redis, with keys that expire (and may be
evicted: `docker-compose.yml` sets `allkeys-lru`). `PROJECT.json` lists the
hazards, each at the line where it bites.

## 2. The modules

    TaskRow              the row: guards and writes, no state
      |-- TaskLifecycle      one handler or job = one step    --implements--> TaskOwnership
      |     |-- AgentPresence  heartbeats, the job that watches them, the tasks it takes back
      |     |-- AgentNode      one node against the jobs and the other users
      |-- TaskTransactions   the same handlers at their awaits, in sessions
    RunOnce              run_once between worker processes --implements--> JobExclusion
    JobExclusion         one worker at a time in a job, unless a run has lost its key
    AdminTransactions    quotas, models, locks, shared results, in sessions

* **TaskRow** has one operator per guard (`Claimable`, `Startable`,
  `Submittable`, `ClaimOverdue`, `FallbackReady`, ...) and one per write
  (`Claimed`, `Started`, `Released`, ...). Both state machines use these, so
  they cannot differ in what a handler tests or writes.
  Time is abstract: a deadline column is `unset`, `running` or `due`, and
  `aged` says that `created_at` lies ten minutes back.
  Three places in the code (release, claim timeout, stale agent) write the same
  columns and share `Released`.
* **TaskLifecycle** is the table under whole handlers. The error answers and
  the idempotent answers of the code leave the row alone, so they are stuttering
  steps. `ClaimTask` takes any user: the request may name a `user_id` other than
  the caller's. `AutoFallbackAssign` treats a whole batch with one order of
  agents, as the code sorts them once per run; the order itself is free, because
  loads are not part of the model.
* **TaskOwnership** is the promise of all of these together: free, in the hands
  of one user, or done. `ImplementsOwnership` is the refinement, with `Owner`
  as the mapping.
* **TaskTransactions** takes the same handlers apart. A session walks through
  `locking` (SET NX), `asking` (GET, is it mine?), `reading` (SELECT),
  `taking` (the loop of the fallback job), `flushing` (the UPDATE takes the row
  lock), `unlocking` and `deleting` (GET and DEL of the `finally` block), and
  `committing`. The order is the one of the code: `claim_task` flushes, gives
  the Redis lock back, returns, and only then `get_db` commits. The ORM sends
  only the columns that differ from what it had loaded; `Overlaid` lays just
  these over the row as it is at commit, which is how a row can end up with the
  status of one handler and the assignee of another. A deadline taken from the
  clock always differs (`Renews`). `Abort` is a worker that dies or loses a
  connection, or an exception: the transaction is undone, the Redis lock stays.
  `Fire` keeps each job to one session while no lock expires. With `LocksExpire`
  two sessions may be in one job, as RunOnce shows of a run that has lost its key.
  `Alone(t)` is TaskLifecycle on the one row `t`, so that
  `OnlyOvertakenCommitsAreUnlawful` can compare a step of the sessions with a
  step of a whole handler: the two differ only if the commit finds a row that was
  written since the session read it (`Overtaken`), time aside (`OnlyAged`).
* **JobExclusion** is what the jobs may rely on: one worker at a time executes a
  job (`Start`, `Stop`), unless a key has gone before its run was over
  (`Overrun`); that lasts until nobody is left in the job. RunOnce implements it
  (`ImplementsExclusion`), whatever happens to the keys.
* **RunOnce** is `run_once` between worker processes. `WORKER_ID` is the node
  name, so two processes of one container write the same value. Nothing in the
  code bounds a run, so `Expire` (the TTL is over, or the key is evicted) may come
  at any time, and a slow process may then delete the key of the next. The
  history variable `overrun` remembers that a job has lost its key under a run,
  until nobody is `Busy` with it (`Remember`). A process may crash at any point and may
  or may not come back.
* **AgentPresence** has the rows of `agents` (status, user, age of
  `last_seen_at`) next to `silent`, the time since the backend really last heard
  of a node: the code has no such column, and what goes wrong is that the two
  differ. Time passes in ticks of 30 seconds, the period of both the heartbeats
  and the job, so the thresholds are 3 (90 s) and 4 (120 s). `Tick` waits until
  every live node has been heard and no run is under way; within a tick beats
  and runs come in any order and, if `Slack` is 1, at any time: what lies k ticks
  back is then k - 1 or k full periods old, and `Measured` lets the job see
  either. Such runs can find an agent stale that none has suspected: last
  seen at 20 s, it is 80 s old for the run at 100 s; the run at 130 s fails, and the
  one at 145 s sees 125 s. `check_agent_heartbeats` is `ScanAgents` (the
  SELECT, `Selected`) and `MarkAgents` (status of the agents, release of the tasks,
  commit), or `RunFails`; `late` remembers that some tick had no run.
  `agent_heartbeat` writes the row only if the status changes or Redis has
  failed (`Changes`), `heartbeat_fallback` always. `auto_fallback_assign` reads
  the agents (`SelectForFallback`) before it assigns (`Assign`), so the agent may
  have been marked in between.
* **AgentNode** is the process of one node. `PollTasks` takes the first page of
  what `list_tasks` gives (`Page`: the newest `PageSize` of those assigned to
  the user or created by the user), a coroutine per task is scheduled
  (`fetched`) and raises `current_concurrency` only when it begins (`Begin`), as
  `asyncio.create_task` does. `Post` is one request of a coroutine: the start,
  the reports, the submission. `handled` says whether the backend got it,
  `raised` whether the client gave up; both together are an answer that was
  lost. An error status is an answer the node does not look at, hence
  `Answered` leaves the row alone where the guards of TaskRow refuse. Only a
  start or a submission that raises ends the coroutine. `Backend` is what
  everybody else does to the tasks, with the actions of TaskLifecycle.
  `Unawaited` is a request that no coroutine waits for: the node gave it up or
  died, and the backend handles it only now, or the same user sent it from
  elsewhere. Starts, reports and submissions thus also arrive late, twice and out
  of order.
* **AdminTransactions** takes the requests of `departments.py`, `models.py` and
  `shared.py` apart as TaskTransactions does: `reading`, `flushing` under row locks and
  unique columns, `publishing`, `committing`. The order differs by request:
  `remove_model_lock` publishes before its flush, `set_model_lock` and
  `update_model` after it, all of them before the commit. The message about a
  model (`Message`) has the columns as the request read and patched them, so those it
  left alone may be old by then; an update that changes nothing has no row lock and
  publishes all the same. No request writes two
  of the four tables, so a behaviour is about one (`table`), and each kind of
  request is a record; its columns are a few that stand for all (`Fields`). A
  uuid of a deleted row is never used again (`Gone`).
* **MCTaskLifecycle, MCTaskTransactions, MCRunOnce, MCAgentPresence, MCAgentNode,
  MCAdminTransactions** give the constants values.

The modules also hold a few operators headed "mistakes". They belong to no
specification: each is a plausible slip in one guard or write (a forgotten
status test, a deadline not set, a lock not given back, a counter not taken
down), named next to what it would replace. Putting one in place of the
original must break a property; `PROJECT.json` ("mutants") says which breaks
which. They show that the properties can fail.

## 3. What is checked

| Run | Instance | What it shows |
|---|---|---|
| `lifecycle` | 1 task, 3 users (member, head, admin), 2 departments, 2 agents, 2 hashes, `progress_seq` to 2; 8 042 states | owner and result fit the status under all handlers and jobs, a completed task stays completed, a due deadline is not renewed, the refinement of TaskOwnership holds, and forgotten work comes back |
| `lifecycle_assigned` | the same | **violated**: `assigned_auto` never times out |
| `sessions_claims` | 1 task, 1 user, 2 sessions; claim, start, claim timeout, fallback; expiring locks and crashes; 101 304 states | a claimed task keeps the deadline its recall reads, the fallback never takes an ineligible task, even from a stale read, rows move otherwise than under whole handlers only in overtaken commits, and every session ends |
| `sessions_work` | 1 task, 1 user, 2 sessions; start, report, submission, release, inactivity job, fallback, stale agent, two runs of one job included; 2.3 million states | a held task always has its deadline column set and a completed one a result, whatever was laid over what; a row moves otherwise than under whole handlers only in overtaken commits |
| `double_claim` | 1 task, 2 users, claims only, no lock expires | **violated**: two claims succeed |
| `lost_completion` | 1 task; claim, start, submit, inactivity job | **violated**: a completed task returns to the pool |
| `run_once` | 3 processes in 2 containers, 2 jobs, crashes, keys that go at any time; 49 779 states | jobs go on, and JobExclusion is implemented: a second runner comes in only after a run has lost its key |
| `presence` | 2 nodes of one user, 1 task, ages to 5 ticks, beats and runs at any time in a tick; 425 252 states | a silent node is stale after the run that is due, a node that answers has been recorded within 150 s while the runs are on time, the tasks of a dead node return, a live one marked stale comes back |
| `live_stale` | 1 node, 1 task, `Slack` 0 | **violated**: a node that sends every heartbeat is found stale |
| `node` | 2 tasks, `max_concurrency` 1, pages of 2, 1 report, a second user with an agent; lost and late requests, lost answers, restarts; 43 200 states | the node runs at most a page less one beyond its limit, goes on polling, takes what it is assigned; started work ends |
| `administration` | 2 sessions, an administrator, 2 heads, 1 member; 2 departments, 1 model, 1 task type, 2 columns of 2 values, 3 uuids; 1.46 million states | decisions come from the target, columns not named are kept, an insert overwrites nothing, replacing a lock leaves no gap, messages about a model come one at a time and show the columns that were changed as they are committed, and a second lock or a revised decision comes only from a request that was overtaken |
| `duplicate_lock` | the same | **violated**: one task type is locked twice |

The bounds, and why they are enough:

* *Tasks.* The handlers touch one row; what a job does to a row does not depend
  on the others. One task shows all that happens to a row, and the theorems hold
  for any number. `node` has two, so that a page can bring the node over its
  limit.
* *Sessions.* Two: every race found, and every race we could describe, is one
  stale decision against one commit. `TaskTransactionsProofs` and
  `AdminTransactionsProofs` cover any number.
* *Users, agents, departments.* One user of each role, an agent inside and one
  outside the department, so that the role tests and the choice of an agent all
  have both outcomes. `sessions_claims` and `sessions_work` keep one user: what the
  kinds write to deadlines, strategies and hashes does not depend on who calls.
* *Values.* `MaxSeq` bounds `progress_seq`: with 2, a report can be newer,
  repeated or older. One percentage is enough as no guard reads it. One or two
  hashes tell a repeated submission from a new one.
* *Strategies.* `MCInit` leaves out `auto` in TaskTransactions, where all
  guards treat `auto` and `hybrid` alike; TaskLifecycle has all three.
* *Kinds.* A run of TaskTransactions names the kinds of request and job that
  occur; two sessions of all ten at once are beyond what is useful to
  enumerate. `sessions_claims` has what writes a task until it is started,
  `sessions_work` what writes an assigned one. The override of the model, which writes one
  column no guard reads, is in `lifecycle` only. The proofs have all kinds at once.
* *Ages.* `MaxAge` is 5, the stale threshold and the `Slack`: an age beyond it is
  treated like 5 by every test, so `DeadAgentFoundInTime` also speaks of nodes that
  have been silent for longer. `live_stale` takes `Slack` 0; its trace is one of `Slack` 1, too.
* *Requests of a coroutine.* One report instead of three (`MaxSeq` is 1); a
  second one repeats the first step. `PageSize` 2 over `max_concurrency` 1 is
  the smallest pair where a poll overshoots. The invariants are proved for all
  values.
* *Uuids.* `NewIds` is 3 and an id is not used twice, so a behaviour makes at
  most three locks or shared results: one to start with and one by each session.
* *Symmetry.* Sessions (and uuids in AdminTransactions) are interchangeable;
  the runs that use this have invariants and action properties only.

### Fairness

* TaskLifecycle: the timeout jobs and the fallback job run every minute for as
  long as the process lives, windows end, and a task reaches ten minutes of age.
  For the fallback job this includes that, again and again, some agent is online
  when it runs; with no agent it does nothing, and `FallbackHappens` says nothing
  then. No user is obliged to do anything.
* TaskTransactions: a session that can take a step takes it (a coroutine whose
  await is answered is resumed), and an UPDATE that gets its turn again and again
  gets through (strong fairness: PostgreSQL queues those who wait for a row lock). No
  fairness of `LockExpires`: a session must not depend on it. None of `Arrive`,
  `Fire` and `Abort`.
* RunOnce: a live process fires its jobs for ever, a run ends, a TTL ends. No
  fairness of `Restart`; `JobsGoOn` assumes only that some one process
  eventually stays up.
* AgentPresence: time passes, a live node sends heartbeats (both loops of the
  client catch every exception), the job starts its runs, and a job that tries
  again and again does not fail for ever (strong fairness of `MarkAgents`). No
  fairness of `Register`, of the fallback job or of the users: a dead node may
  stay dead.
* AgentNode: the poll loop and the coroutines go on, since every await has a
  timeout; a start that is sent again and again is answered at some time (strong
  fairness, needed by `AssignedTaskIsTaken` only); windows end and the inactivity
  job runs. No fairness of `Boot`, `Register` or any user.
* AdminTransactions states no liveness and no fairness.

## 4. What the code does otherwise than the documents say

Each of these is a violated run, with its quotation in `PROJECT.json`.

1. **Two claims of one task can succeed** (`api/tasks.py:253`). The lock is
   deleted in `finally`, the commit comes after the handler has returned.
2. **A completed task can return to the pool** (`core/scheduler.py:92`), when the
   submission commits between the SELECT and the UPDATE of the inactivity job.
3. **An automatic assignment never times out** (`core/scheduler.py:46`): the job
   selects `claimed` only, though the deadline is set.
4. **A live node can be found stale** (`api/agents.py:143`). The heartbeat of an
   online agent does not write `last_seen_at`, so the row of a node that beats
   every 30 seconds grows old until the job suspects it at 90 s, and only then
   does a heartbeat refresh it. If in that tick the heartbeat came before the
   run, and in the next one the run comes before the heartbeat, the node is
   found stale and loses its tasks, although neither was ever late.
   `AnsweringAgentIsFresh` is what does hold with a run in every tick: once the
   node has been heard in a tick, its row is younger than 150 s (120 s if beats
   and runs keep to their ticks).
5. **One task type of a department can be locked twice** (`api/departments.py:198`).
   Both requests delete the lock they read and both insert. From then on every
   `set_model_lock` for that type raises, until one of the locks is removed.

Others show in the models without a run of their own.

* *Tasks.* The fallback job selects first, locks later and does not read again,
  so it overwrites a claim committed in between (`core/scheduler.py:174`, against
  line 626 of the PRD). Two overlapping reports can set `progress_seq` back
  (`api/tasks.py:303`, against `api-definition.md:456`). The mechanism of 2 also
  lets a start race the claim timeout and leave a task in `processing` without
  an assignee; its inactivity deadline still recalls it
  (`HeldTasksHaveDeadlines`). For `assigned_auto` the same property shows a column
  that is set and, by 3, read by no job. `report_progress` and `submit_result` do not look
  at the status, where `api-definition.md` lists `TASK_NOT_ACTIVE`.
  `progress_seq` is not reset when a task is recalled: the reports of the next
  worker, counted from 1, are ignored and do not renew its window.
* *Locks.* If a run outlives its key, a second worker enters the job, and
  `run_once` can delete the key of another process, because all workers of a
  container share a name and GET and DEL are two commands (`core/locks.py:42`); then
  a third enters. The damage ends when the job has come to rest
  (`ImplementsExclusion`). The GET and DEL of `claim_task` have the
  same gap, and need no expiry: a second claim of the same user finds its own name
  in the lock and goes on without it, so two sessions give one lock
  back, the slower one perhaps that of a third. No
  property is stated of that lock.
* *Agents.* The fallback job may assign to an agent that was online when it
  read it and is marked stale before it commits. The release has then
  happened, a stale agent is not looked at again, and by 3 the assignment does not
  time out: the task waits for that node. `DeadAgentsTasksReturn` therefore
  speaks of agents the job still watches.
* *The node.* One poll starts the whole page, so a node with
  `max_concurrency: 2` and pages of five may run six tasks
  (`config.example.yaml:11`); `ConcurrencyBound` is the bound that does hold.
  Its page also lists tasks its user created and others were assigned; enough
  newer ones (`Crowded`) keep a task of its own off the page. It goes on with a
  task whose start was refused or that was recalled. `report_progress` asks neither for
  the status nor for the assignee, so its reports are accepted all the same: they raise
  `progress_seq` and hide those of the next worker (`api/tasks.py:303`).
* *Departments.* `create_department` reads `dept.id` before the flush that gives it
  a value, so the quota has no department and the request always fails
  (`api/departments.py:87`; `Taken`).
* *Shared results.* Two decisions on one request both read `pending`, and the
  second overwrites the first (`api/shared.py:182`, against
  `SHARED_RESULT_ALREADY_APPROVED` in `api-definition.md:1272`).
  `DecidedByTarget` is what remains true. `share_result` does not ask whether the task is
  completed (`api-definition.md:1173`).
* *Messages.* All are published before the commit, so a request that fails
  afterwards has announced what did not happen. The message of `update_model` has
  the whole row as the request saw it: a column changed by another update that has
  committed since is announced with its old value (`api/models.py:168`).
  `AnnouncedIsCommitted` says that this is all: the columns of the update itself are
  right.

Hence the difference between the two state machines of tasks: run one at a time,
the handlers keep a completed task completed, `progress_seq` monotone and ownership
exclusive (`lifecycle`, and theorems `Final`, `SeqGrows`, `HandOver`). Between their awaits they
do not. `OnlyOvertakenCommitsAreUnlawful` says how far they fall short: nothing
goes wrong with a row but in a commit that lays its columns over a write it
has not seen. Locks that expire, workers that die and jobs that decide on old rows do no
harm of their own, and a version column tested by the UPDATE (which would turn an
overtaken commit into an abort) would close the races of a row of `tasks`. What survives every
interleaving is in `sessions_claims`, `sessions_work` and the theorems of
`TaskTransactionsProofs`.

## 5. What is proved

All proofs are checked by tlapm, for every value of the constants that meets
their assumptions.

* **TaskRowProofs**: every write of TaskRow takes a `Row` to a `Row`, and, on a
  row its guard admits, a sound row to a sound row by a lawful step (`GoodStep`).
* **TaskLifecycleProofs**: `TypeCorrect`, `Owned`, `Armed`, `Eligible`,
  `Results` (invariants) and `HandOver`, `Final`, `NotRenewed`, `SeqGrows`
  (action properties). The invariant speaks of one row (`SoundRow`): owner,
  deadlines, eligibility and hash have to be known together, for example a
  release may clear the assignee only because it has seen the status, and a
  submission by an administrator keeps the row sound only because the
  completed state frees it from having an owner. That each write is a `GoodStep`
  is known from TaskRowProofs; the cases of `Next` only say which rows are
  written. The action properties follow from the same lemmas.
* **TaskRefinementProofs**: `Refinement`, Spec implements `TaskOwnership`, for any
  number of tasks. A batch assignment is one `Take`, a batch recall one
  `GiveBack`; reports, overrides, starts and the passing of time are stutters.
* **TaskTransactionsProofs**: `TypeCorrect`, `Armed`, `Eligible`, `Results` for
  any number of sessions and all kinds at once. The table alone is not
  inductive, since a commit lays columns over a row nobody has looked at for
  long. The invariant adds, for each session, that it has `Decided` on a row
  that met its guard, and that the present row `Follows` the row it read: its strategy is the
  same, its age only grows, and a result hash is not taken away. That the columns of
  one UPDATE belong together does the rest: whoever clears a deadline also writes
  the status that does not need it, so any overlay of a decided write on a safe
  row is safe again (`OverlaidSafe`); the actions
  are then instances of a few generic lemmas (`OpenSound`, `DecideSound`,
  `GotoSound`, `CloseSound`).

  `OvertakenOnly` compares the sessions with TaskLifecycle, for any number of
  sessions and all kinds at once. A row that has only aged since it was read
  still meets the guard (`StillSelected`), and the columns sent are then
  all that differ from it (`OverlaidIsWritten`), so the commit *is* the handler
  on the present row; `RacesAreOvertakings` and `RacesSpoilRows` draw from
  this what an overtaken commit alone can do. The other half is that
  overtaking takes two: with one session (`\A s, z \in Sessions : s = z`)
  nobody writes what it has read, the invariant being `Current`
  (`OnlyCommitsOvertake`). So `SerialLawful`, `SerialClaims`, `SerialCompletion` and
  `SerialSound`: the two violated runs `double_claim` and `lost_completion`
  state properties that hold of one session, with all its crashes and lost
  locks, and it is the interleaving that breaks them.
* **RunOnceProofs**: `TypeCorrect`, `MutualExclusion`, `Implementation`, for any
  number of processes, containers and jobs and keys that go at any time. The
  invariant (`Exclusive`): unless a job is overrun, at most one process is busy
  with it, and while one is, the key exists. The value in the key plays no part,
  so two processes may share a name. In `Implementation` an `Acquire` is a
  `Start`, the end of a run or of a process a `Stop`, a key that goes under a
  run an `Overrun`, and everything else about the key a stutter.
* **AgentPresenceProofs**: `TypeCorrect`, `DeadFound`, `AnsweringFresh`, for any
  number of nodes. The job marks rows it has read before, so the invariant
  (`PresenceInv`) has to carry what it saw across to the commit. `Unwritten` does: a
  node with an age or a silence other than 0 has not been written since the
  scan, because every write of a heartbeat sets the age to 0. `Recorded` says
  that `last_seen_at` is never younger than the last heartbeat, so silence
  implies age and a silent node is found. The other direction needs
  the course of the thresholds (`OnlineIsYoung`): while no tick is late, the
  age of an online row is below `SuspectedAge + Slack` ticks after the run of a tick and
  below one more before it, so a row that a heartbeat leaves alone is young enough.
* **AgentNodeProofs**: `TypeCorrect` and `Bounded`. `current_concurrency` is a
  counter that each coroutine raises and lowers, and the proof that it is never
  negative gives each coroutine an element of a finite set (`Coroutines`) whose
  cardinality the counter is. The bound on the page is that ranking a finite
  set of tasks by `created_at` and keeping those with fewer than `PageSize`
  before them keeps at most `PageSize` (lemma `PageFits`). `NodeLeavesSoundRows`: no request
  of a node, lost, repeated, late or of a coroutine whose task is long gone,
  leaves a row held without owner or deadline, or completed without a result.
* **AdminTransactionsProofs**: `TypeCorrect`, `TargetDecides`, `OneAtATime`
  (invariants), `AnnouncedTrue`, `OnlyNamedColumns`, `NoOverwrite`, `NoGap` (action properties),
  for any number of sessions, ids and columns. The invariant says of each
  session what still stands of the rows it read: a shared result keeps its
  source and target, a lock is as it was or gone (`Kept`); once it has
  flushed it holds the locks of all rows it writes (`Holds`); and no other
  session inserts the same uuid (`Apart`). `TargetDecides` rests on an asymmetry of
  the two decisions: the second writes the columns that *differ from pending*,
  which are always both, so status and approver stay a pair. `AnnouncedTrue` rests on
  the message being what the request read and patched (`MessageTyped`), which is
  also what the commit lays over the row (`OwnCommit`). `RacesAddLocks` and
  `RacesRevise` pin the two anomalies of section 4 on a request that committed
  what it had read too early; with one session the rows read are the rows
  there are (`UpToDate`), so `SerialLocks` and `SerialDecisions` hold:
  what `duplicate_lock` refutes is true of requests that come one at a time.

Every invariant and every action property of the passing runs is one of these
theorems. A few theorems state properties that are not run. For most of them a
checked one says as much or more: `ImplementsOwnership` for
`HandOverOnlyThroughPool`, `ImplementsExclusion` for `AtMostOneRuns`, the
properties of the same name in TaskTransactions for `HeldTasksHaveDeadlines` and
`AutoOnlyWhenEligible` of TaskLifecycle; `ProgressSeqGrows` is close to the guard of
`report_progress`. The serial theorems are the counterpart of the violated runs.

Assumptions: those named in `TaskRow` (roles, departments and agents are
functions of the right types, percentages lie in 0..100, `None` is no user,
hash or model); `OwnerMarksAssumption`; those of `TaskTransactions` and
`RunOnce` on their own constants; in AgentPresence that `Slack` is 0 or 1 and that `MaxAge`
reaches the stale threshold and the `Slack`; in AgentNode that the limits are positive, that there are
finitely many tasks and that no two were created at the same instant; in
AdminTransactions that `None` and `Gone` are no ids, users or rows. TLC
evaluates all of them. The theorems named `Serial...` assume one session.

Only model-checked: the liveness properties (`ClaimDoesNotLast`,
`SilentWorkIsRecalled`, `FallbackHappens`, `SessionsFinish`, `JobsGoOn`,
`DeadAgentsTasksReturn`, `LiveAgentComesBack`, `PollingGoesOn`,
`AssignedTaskIsTaken`, `StartedTaskEnds`), since the prover does not treat
fairness. The violated properties are, of course, not theorems.

## 6. What is left out

* Columns that no guard reads: title, description, priority, `claimed_at`,
  `started_at`, `completed_at`, result URL and format, checklist; the audit log
  and the task events in NATS, which nothing reads back.
* Handlers that only read, except `list_tasks` as the node uses it.
  `acquire_task_lock` and `release_task_lock`, which have no caller. Quotas and
  model locks are stored and shown; nothing enforces or reads them.
* Redis failing as a whole: `claim_task` then answers with an error and writes
  nothing. Eviction of a key is the same step as its expiry.
* In TaskTransactions: creating a task (a new id has no concurrent writer; its
  columns never change), so `Init` is a table of pending tasks; the order in which one
  session takes several row locks (`Flush` takes all or waits). The autoflush of
  `check_agent_heartbeats` can deadlock with another job over two rows;
  PostgreSQL ends that with a rollback, which is `Abort`.
* In AgentPresence: the loads by which the fallback job sorts (any order of
  agents is possible), a node registered again under another user, the keys
  `agent:heartbeat:*` in Redis, which nothing reads. `MarkAgents` writes agents
  and tasks in one step; what a request may do to a task between the SELECT and
  the UPDATE of a release is the kind `stale` of TaskTransactions.
* In AgentNode: the heartbeat loop (it is in AgentPresence), the back-off
  delays, the way a result is made.
* In AdminTransactions: two columns stand for all those a request may name; a
  quota is only asked for departments that exist.
* Not modelled at all. Users and the audit log (`api/admin.py`): statistics and
  lists, no request writes a user. Tokens and password hashes: pure functions
  of a library; their outcome, the user and the role, is in the guards. File
  upload: tests of one request and one write to MinIO. It is not part of
  any transaction, and a second upload of the same name replaces the bytes after
  a hash of the first was recorded (`api/files.py:64`, against line 544 of the
  PRD). Connection handling of NATS and Redis, application start and
  configuration: singletons. `seed.py` and `generate_prd.py`: scripts run once,
  by hand. The frontend: pages that display; the detail page may show an older
  poll after a newer reload (`TaskDetail.tsx:89`). nginx, Prometheus and the
  compose files: configuration, whose workers, restarts and eviction are inputs
  of RunOnce and TaskTransactions.

## 7. Plan

Done: TaskRow, TaskLifecycle, TaskOwnership, TaskTransactions, RunOnce,
JobExclusion, AgentPresence, AgentNode, AdminTransactions, with the proofs above. What could
follow, in this order:

1. The detail page of the frontend: polls and reloads that overtake each other.
2. The loads of the agents, sorted once per run and not updated while the
   fallback job assigns, next to `max_concurrency`.
3. File upload with submission: which bytes a recorded hash speaks of.
