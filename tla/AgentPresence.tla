--------------------------- MODULE AgentPresence ---------------------------
(***************************************************************************)
(* Whether an agent node is there: the rows of the agents table            *)
(* (app/models/agent.py), the registration and the two heartbeats of       *)
(* app/api/agents.py, the job check_agent_heartbeats, which takes the      *)
(* tasks of a stale agent back, and the job auto_fallback_assign, which    *)
(* gives tasks to online ones.  A job reads in one step and commits in     *)
(* another, so heartbeats fall in between.                                 *)
(*                                                                         *)
(* Time passes in ticks of 30 seconds, the period of the heartbeats and of *)
(* the job.  Within a tick, beats and runs of the job come in any order    *)
(* and, if Slack is 1, at any time: what lies k ticks back happened more   *)
(* than 30(k-1) and less than 30(k+1) seconds ago, that is, k - 1 or k     *)
(* full periods of 30 seconds.  With Slack 0 all ages are whole periods.   *)
(* The keys agent:heartbeat:* and agent:metrics:* of Redis are left out:   *)
(* nothing reads them.                                                     *)
(***************************************************************************)
EXTENDS TaskRow

CONSTANTS
    MaxAge,         \* bound on the ticks counted
    Slack           \* the periods by which an age may fall short of its ticks

SuspectedAge == 3   \* 90 seconds, in full periods
StaleAge == 4       \* 120 seconds, in full periods

ASSUME SlackAssumption == Slack \in {0, 1}
ASSUME MaxAgeAssumption == MaxAge \in Nat /\ MaxAge >= StaleAge + Slack

VARIABLES
    task,       \* the table of tasks
    agent,      \* the table of agents
    up,         \* up[a]: the node runs, is registered and reaches the backend
    silent,     \* silent[a]: ticks since the backend last heard of the node
    jobRan,     \* check_agent_heartbeats has committed a run in this tick
    late,       \* some tick went by without such a run
    scan,       \* what the run of check_agent_heartbeats got of the agents
    pick        \* what the run of auto_fallback_assign read

vars == <<task, agent, up, silent, jobRan, late, scan, pick>>

Life == INSTANCE TaskLifecycle

----------------------------------------------------------------------------
(* Plausible mistakes, none part of the model.                             *)

LaterWithoutBound(n) == n + 1
WatchedWhileOnline(row) == row.status = "online"
ChangesUnlessSuspected(row, redisOk) == row.status = "stale" \/ ~redisOk
ChangesIfSuspected(row, redisOk) == row.status = "suspected_failure" \/ ~redisOk
LostWhileOnline(read) ==
    {read[a].user : a \in {b \in Agents : read[b].status = "online" /\ read[b].age >= StaleAge}}

----------------------------------------------------------------------------
(* A row of agents; age is the time since last_seen_at.  Nothing writes    *)
(* "reconnecting", and "offline" is a default that registration overrides. *)

AgentStatus == {"absent", "online", "suspected_failure", "stale"}

AgentRow == [status : AgentStatus, user : Users \cup {None}, age : 0..MaxAge]

NoAgent == [status |-> "absent", user |-> None, age |-> 0]
Registered(row) == row.status # "absent"

\* what check_agent_heartbeats selects
Watched(row) == row.status \in {"online", "suspected_failure"}

\* what the job gets of a row
Selected(row) == IF Watched(row) THEN row ELSE NoAgent

\* a heartbeat writes the row only if the status changes or Redis has failed
Changes(row, redisOk) == row.status # "online" \/ ~redisOk

Seen(row) == [row EXCEPT !.status = "online", !.age = 0]

FoundStale(row) == Watched(row) /\ row.age >= StaleAge
FoundSuspected(row) == Watched(row) /\ ~FoundStale(row) /\ row.age >= SuspectedAge

\* the status column, laid over the row when a run that had read "old" commits
Marked(old, row) ==
    IF FoundStale(old) THEN [row EXCEPT !.status = "stale"]
    ELSE IF FoundSuspected(old) /\ old.status # "suspected_failure"
         THEN [row EXCEPT !.status = "suspected_failure"]
         ELSE row

\* the row with its age in full periods
Measured(row, short) == [row EXCEPT !.age = IF @ > short THEN @ - short ELSE 0]

Later(n) == IF n < MaxAge THEN n + 1 ELSE n

----------------------------------------------------------------------------

Init ==
    /\ task \in [Tasks -> {[RowOf("pending", d, "hybrid") EXCEPT !.aged = TRUE] :
                              d \in Departments}]
    /\ agent = [a \in Agents |-> NoAgent]
    /\ up = [a \in Agents |-> FALSE]
    /\ silent = [a \in Agents |-> 0]
    /\ jobRan = FALSE
    /\ late = FALSE
    /\ scan = None
    /\ pick = None

\* the node has been heard, and its row is written or not
Hear(a, row) ==
    /\ agent' = [agent EXCEPT ![a] = row]
    /\ silent' = [silent EXCEPT ![a] = 0]

----------------------------------------------------------------------------
(* The node.                                                               *)

\* register_agent, when a node starts or finds the backend again; the token of
\* a node is that of its user
Register(a) ==
    /\ ~up[a]
    /\ up' = [up EXCEPT ![a] = TRUE]
    /\ Hear(a, Seen([agent[a] EXCEPT !.user = AgentUser[a]]))
    /\ UNCHANGED <<task, jobRan, late, scan, pick>>

\* agent_heartbeat writes the row or leaves it
Heartbeat(row, redisOk) == IF Changes(row, redisOk) THEN Seen(row) ELSE row

\* heartbeat_fallback always writes it
HeartbeatFallback(row) == Seen(row)

\* send_heartbeat: the second request follows when the answer to the first is
\* lost, whether or not the first was handled
SendHeartbeat(a) ==
    /\ up[a]
    /\ \/ \E redisOk \in BOOLEAN : Hear(a, Heartbeat(agent[a], redisOk))
       \/ Hear(a, HeartbeatFallback(agent[a]))
    /\ UNCHANGED <<task, up, jobRan, late, scan, pick>>

\* the node stops, dies or is cut off; nothing tells the backend
GoSilent(a) ==
    /\ up[a]
    /\ up' = [up EXCEPT ![a] = FALSE]
    /\ UNCHANGED <<task, agent, silent, jobRan, late, scan, pick>>

----------------------------------------------------------------------------
(* check_agent_heartbeats.                                                 *)

ScanAgents ==
    /\ scan = None
    /\ scan' = [a \in Agents |-> Selected(agent[a])]
    /\ UNCHANGED <<task, agent, up, silent, jobRan, late, pick>>

\* the users whose tasks _release_agent_tasks takes back
Lost(read) == {read[a].user : a \in {b \in Agents : FoundStale(read[b])}}

\* the ages are those at the SELECT, and may each fall short of its ticks
MarkAgents ==
    /\ scan # None
    /\ \E short \in [Agents -> 0..Slack] :
          LET read == [a \in Agents |-> Measured(scan[a], short[a])]
          IN  /\ agent' = [a \in Agents |-> Marked(read[a], agent[a])]
              /\ task' = [t \in Tasks |-> IF \E u \in Lost(read) : HeldBy(task[t], u)
                                          THEN Released(task[t]) ELSE task[t]]
    /\ scan' = None
    /\ jobRan' = TRUE
    /\ UNCHANGED <<up, silent, late, pick>>

\* the run fails and is rolled back
RunFails ==
    /\ scan # None
    /\ scan' = None
    /\ UNCHANGED <<task, agent, up, silent, jobRan, late, pick>>

----------------------------------------------------------------------------
(* auto_fallback_assign, with the order of agents of TaskRow.              *)

SelectForFallback ==
    LET ready  == {t \in Tasks : FallbackReady(task[t])}
        online == {a \in Agents : agent[a].status = "online"}
    IN  /\ pick = None
        /\ ready # {}
        /\ \E best \in online, first \in [Departments -> Agents] :
              /\ FirstOfOrder(online, best, first)
              /\ pick' = [ready |-> ready,
                          user  |-> [d \in Departments |-> agent[first[d]].user]]
        /\ UNCHANGED <<task, agent, up, silent, jobRan, late, scan>>

\* the tasks whose Redis lock the job gets
Assign(taken) ==
    /\ pick # None
    /\ taken \subseteq pick.ready
    /\ task' = [t \in Tasks |-> IF t \in taken
                                THEN AutoAssigned(task[t], pick.user[task[t].department])
                                ELSE task[t]]
    /\ pick' = None
    /\ UNCHANGED <<agent, up, silent, jobRan, late, scan>>

----------------------------------------------------------------------------
(* The users and the nodes take tasks and start them; the details, and what *)
(* else happens to a task, are in TaskLifecycle.                           *)

Work(t, u) ==
    /\ Life!ClaimTask(t, u) \/ Life!StartTask(t, u)
    /\ UNCHANGED <<agent, up, silent, jobRan, late, scan, pick>>

\* 30 seconds: every node that is up has been heard, a run takes less
Tick ==
    /\ \A a \in Agents : up[a] => silent[a] = 0
    /\ scan = None
    /\ agent' = [a \in Agents |-> [agent[a] EXCEPT !.age = Later(@)]]
    /\ silent' = [a \in Agents |-> Later(silent[a])]
    /\ jobRan' = FALSE
    /\ late' = (late \/ ~jobRan)
    /\ UNCHANGED <<task, up, scan, pick>>

Next ==
    \/ \E a \in Agents : Register(a) \/ SendHeartbeat(a) \/ GoSilent(a)
    \/ ScanAgents \/ MarkAgents \/ RunFails
    \/ SelectForFallback
    \/ \E taken \in SUBSET Tasks : Assign(taken)
    \/ \E t \in Tasks, u \in Users : Work(t, u)
    \/ Tick

Spec == Init /\ [][Next]_vars

(* Time passes, a node that is up sends its heartbeats, the job is run     *)
(* again and again, and not every run fails.                               *)
Fairness ==
    /\ SF_vars(Tick)
    /\ WF_vars(ScanAgents)
    /\ SF_vars(MarkAgents)
    /\ \A a \in Agents : WF_vars(SendHeartbeat(a))

FairSpec == Spec /\ Fairness

----------------------------------------------------------------------------

TypeOK ==
    /\ task \in [Tasks -> Row]
    /\ agent \in [Agents -> AgentRow]
    /\ up \in [Agents -> BOOLEAN]
    /\ silent \in [Agents -> 0..MaxAge]
    /\ jobRan \in BOOLEAN
    /\ late \in BOOLEAN
    /\ scan \in [Agents -> AgentRow] \cup {None}
    /\ pick \in [ready : SUBSET Tasks, user : [Departments -> Users]] \cup {None}
    /\ \A a \in Agents : Registered(agent[a]) => agent[a].user \in Users

\* A run leaves no node unmarked whose silence is sure to have lasted 120 seconds,
\* although it decides on rows read earlier and heartbeats fall in between: with a
\* run in every tick, a dead node is stale when the run of the fifth is over.
DeadAgentFoundInTime ==
    \A a \in Agents :
        Registered(agent[a]) /\ jobRan /\ silent[a] >= StaleAge + Slack
              => agent[a].status = "stale"

\* The heartbeat of an online agent leaves last_seen_at to grow old.  Still, if
\* every tick has a run, a node heard in this tick was recorded less than 150
\* seconds ago (120 if beats and runs keep to the tick): a row that old is not
\* online any more, so the heartbeat writes it.
AnsweringAgentIsFresh ==
    \A a \in Agents : ~late /\ up[a] /\ silent[a] = 0 => agent[a].age < StaleAge + Slack

\* What the user of a node held when the node went silent comes back to the
\* pool, unless the node returns first.
DeadAgentsTasksReturn ==
    \A a \in Agents, t \in Tasks :
        ~up[a] /\ Watched(agent[a]) /\ HeldBy(task[t], AgentUser[a])
            ~> up[a] \/ ~HeldBy(task[t], AgentUser[a])

\* A node that was marked stale by mistake, or came back, is online again.
LiveAgentComesBack ==
    \A a \in Agents : up[a] /\ agent[a].status = "stale"
                         ~> ~up[a] \/ agent[a].status = "online"

\* PRD 6.2: an agent is stale, and loses its tasks, when its heartbeat is more
\* than 120 seconds late; so no run finds a node stale that sends them all, not
\* while the runs are on time.
LiveNodeNotFoundStale ==
    [][scan = None /\ scan' # None /\ ~late =>
          \A a \in Agents : up[a] => ~FoundStale(scan'[a])]_vars
=============================================================================
