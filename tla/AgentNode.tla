----------------------------- MODULE AgentNode -----------------------------
(***************************************************************************)
(* One agent node (src/dev/agent/agent.py) against the backend of          *)
(* TaskLifecycle: it registers, polls for the tasks that were assigned to  *)
(* its user, and runs a coroutine for each, which starts the task, reports *)
(* progress and submits a result.                                          *)
(*                                                                         *)
(* A request or its answer may be lost (a timeout of 30 seconds, a broken  *)
(* connection): the client raises, while the backend may handle what it    *)
(* was sent much later.  An answer with an error status is an answer, and  *)
(* the node does not look at it.  The heartbeats are in AgentPresence.     *)
(***************************************************************************)
EXTENDS TaskRow

CONSTANTS
    Me,             \* the user whose token the node has
    CreatedBy,      \* tasks.created_by
    CreatedAt,      \* tasks.created_at
    Percent,        \* progress_pct of the reports: 20, 50, 80 in the code
    ResultHash,     \* the hash of the result the node makes of a task
    MaxConcurrency, \* max_concurrency of the node
    PageSize        \* page_size of its polls, 5 in the code

ASSUME MeAssumption == Me \in Users
ASSUME CreatedByAssumption == CreatedBy \in [Tasks -> Users]
ASSUME CreatedAtAssumption ==
    /\ CreatedAt \in [Tasks -> Nat]
    /\ \A t, u \in Tasks : CreatedAt[t] = CreatedAt[u] => t = u
ASSUME PercentAssumption == Percent \in [1..MaxSeq -> Pcts]
ASSUME ResultHashAssumption == ResultHash \in [Tasks -> Hashes]
ASSUME LimitsAssumption == MaxConcurrency \in Nat \ {0} /\ PageSize \in Nat \ {0}
ASSUME FiniteAssumption == IsFiniteSet(Tasks)

VARIABLES
    task,       \* the table of tasks
    phase,      \* of the node: "down", "registering", "running"
    conc,       \* current_concurrency
    fetched,    \* tasks of the last poll whose coroutines have not begun
    work        \* work[t][n]: the coroutines of t whose next request is n

vars == <<task, phase, conc, fetched, work>>

Life == INSTANCE TaskLifecycle

----------------------------------------------------------------------------
(* The requests of process_task: 0 the start, 1..MaxSeq the reports (three *)
(* in the code), Last the submission.                                      *)

Last == MaxSeq + 1
Idle == [t \in Tasks |-> [n \in 0..Last |-> 0]]

\* list_tasks with status=assigned_auto and mine=true: for a node of a member,
\* the rows a member may see include these
Listed(t) ==
    /\ task[t].status = "assigned_auto"
    /\ task[t].assignee = Me \/ CreatedBy[t] = Me

Newer(t) == {u \in Tasks : Listed(u) /\ CreatedAt[u] > CreatedAt[t]}

\* the first page, newest first
Page == {t \in Tasks : Listed(t) /\ Cardinality(Newer(t)) < PageSize}

----------------------------------------------------------------------------
(* Plausible mistakes, none part of the model.                             *)

MayPollAtLimit == conc <= MaxConcurrency
CountUnlessRaised(raised) == IF raised THEN conc ELSE conc - 1
CountTwiceIfRaised(raised) == IF raised THEN conc - 2 ELSE conc - 1
StartUnread(row) == row

----------------------------------------------------------------------------

Init ==
    /\ task \in [Tasks -> {[RowOf("pending", d, "auto") EXCEPT !.aged = TRUE] :
                              d \in Departments}]
    /\ phase = "down"
    /\ conc = 0
    /\ fetched = {}
    /\ work = Idle

Boot ==
    /\ phase = "down"
    /\ phase' = "registering"
    /\ UNCHANGED <<task, conc, fetched, work>>

\* run: the loops start when a registration was answered; a failed one is tried
\* again, after at most 16 seconds
Register ==
    /\ phase = "registering"
    /\ phase' = "running"
    /\ UNCHANGED <<task, conc, fetched, work>>

\* the process stops or dies and its coroutines are gone; the backend is not told
GoDown ==
    /\ phase # "down"
    /\ phase' = "down"
    /\ conc' = 0
    /\ fetched' = {}
    /\ work' = Idle
    /\ UNCHANGED task

----------------------------------------------------------------------------
(* poll_tasks.                                                             *)

MayPoll == conc < MaxConcurrency

\* every task of the page gets a coroutine: current_concurrency, which the loop
\* looks at in between, does not move before they begin.  They have begun when
\* the next poll is due, five seconds later.
PollTasks ==
    /\ phase = "running"
    /\ fetched = {}
    /\ MayPoll
    /\ fetched' = Page
    /\ UNCHANGED <<task, phase, conc, work>>

----------------------------------------------------------------------------
(* process_task.                                                           *)

Begin(t) ==
    /\ t \in fetched
    /\ fetched' = fetched \ {t}
    /\ conc' = conc + 1
    /\ work' = [work EXCEPT ![t][0] = @ + 1]
    /\ UNCHANGED <<task, phase>>

\* what the backend does with the request n of the user Me
AfterStart(row) == IF Startable(row, Me) THEN Started(row) ELSE row
AfterReport(row, seq, pct) == IF FreshReport(row, seq) THEN Reported(row, seq, pct) ELSE row
AfterSubmit(row, hash) ==
    IF Submittable(row, Me, hash) THEN Submitted(row, hash, None) ELSE row

Answered(t, n) ==
    IF n = 0 THEN AfterStart(task[t])
    ELSE IF n = Last THEN AfterSubmit(task[t], ResultHash[t])
    ELSE AfterReport(task[t], n, Percent[n])

\* the last request is sent, or the start raised
Ends(n, raised) == n = Last \/ (raised /\ n = 0)

\* the finally block
Uncounted(raised) == conc - 1

\* a lost request or a lost answer raises; a report's exception is swallowed
Post(t, n, handled, raised) ==
    /\ work[t][n] > 0
    /\ handled \/ raised
    /\ task' = IF handled THEN [task EXCEPT ![t] = Answered(t, n)] ELSE task
    /\ IF Ends(n, raised)
       THEN /\ work' = [work EXCEPT ![t][n] = @ - 1]
            /\ conc' = Uncounted(raised)
       ELSE /\ work' = [work EXCEPT ![t][n] = @ - 1, ![t][n + 1] = @ + 1]
            /\ UNCHANGED conc
    /\ UNCHANGED <<phase, fetched>>

\* a request nobody waits for: the node gave it up, or died, and the backend
\* handles it only now; or the same user sent it from elsewhere
Unawaited(t, n) ==
    /\ task' = [task EXCEPT ![t] = Answered(t, n)]
    /\ UNCHANGED <<phase, conc, fetched, work>>

----------------------------------------------------------------------------
(* What else happens to the tasks: the jobs, the other users, and the user *)
(* of the node at the web frontend.                                        *)

Backend ==
    /\ \/ Life!SomeFallbackAssign
       \/ Life!CheckInactivityTimeouts
       \/ \E stale \in SUBSET Agents : Life!ReleaseAgentTasks(stale)
       \/ \E t \in Tasks :
             \/ Life!InactivityWindowEnds(t)
             \/ \E u \in Users \ {Me} : Life!StartTask(t, u)
             \/ \E u \in Users : Life!ReleaseTask(t, u)
    /\ UNCHANGED <<phase, conc, fetched, work>>

Next ==
    \/ Boot \/ Register \/ GoDown
    \/ PollTasks
    \/ \E t \in Tasks :
          \/ Begin(t)
          \/ \E n \in 0..Last :
                \/ \E handled, raised \in BOOLEAN : Post(t, n, handled, raised)
                \/ Unawaited(t, n)
    \/ Backend

Spec == Init /\ [][Next]_vars

(* The node's loop and coroutines go on; a start that is sent again and    *)
(* again gets through; a silent task's window ends and the job recalls it. *)
Fairness ==
    /\ WF_vars(PollTasks)
    /\ WF_vars(Backend /\ Life!CheckInactivityTimeouts)
    /\ \A t \in Tasks :
          /\ WF_vars(Begin(t))
          /\ SF_vars(Post(t, 0, TRUE, FALSE))
          /\ \A n \in 0..Last :
                WF_vars(\E handled, raised \in BOOLEAN : Post(t, n, handled, raised))
          /\ WF_vars(Backend /\ Life!InactivityWindowEnds(t))

FairSpec == Spec /\ Fairness

----------------------------------------------------------------------------

TypeOK ==
    /\ task \in [Tasks -> Row]
    /\ phase \in {"down", "registering", "running"}
    /\ conc \in Nat
    /\ fetched \subseteq Tasks
    /\ work \in [Tasks -> [0..Last -> Nat]]

\* A poll that comes just under the limit starts every task of its page, so the
\* node may run more than max_concurrency; but never more than one page too many.
ConcurrencyBound == conc + Cardinality(fetched) <= MaxConcurrency - 1 + PageSize

\* However often requests fail, current_concurrency falls below the limit again:
\* no coroutine leaves without the finally block, so polling goes on.
PollingGoesOn ==
    conc >= MaxConcurrency ~> conc < MaxConcurrency

\* Newer tasks fill the page, among them those the user created for others: the
\* poll does not show this one.
Crowded(t) == Cardinality(Newer(t)) >= PageSize

\* A running node takes up what the fallback job assigned to its user, unless
\* it is recalled or newer tasks keep it off the page.
AssignedTaskIsTaken ==
    \A t \in Tasks :
        phase = "running" /\ HeldBy(task[t], Me) /\ task[t].status = "assigned_auto"
            ~> \/ phase # "running" \/ Crowded(t)
               \/ ~(HeldBy(task[t], Me) /\ task[t].status = "assigned_auto")

\* Work does not end with the node that did it: whatever it loses, down to its
\* last coroutine, a started task is completed or comes back to the pool.
StartedTaskEnds ==
    \A t \in Tasks : task[t].status = "processing" ~> task[t].status # "processing"
=============================================================================
