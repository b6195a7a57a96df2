------------------------ MODULE AgentPresenceProofs ------------------------
(***************************************************************************)
(* TLAPS proofs about AgentPresence: types, and the two sides of the watch *)
(* over agents, for any number of agents and tasks.                        *)
(*                                                                         *)
(* The job marks rows it has read before.  The link from there to the rows *)
(* as they are is Unwritten: a row whose age is not 0 has not been written *)
(* since, as every heartbeat that writes sets the age to 0.                *)
(***************************************************************************)
EXTENDS AgentPresence, TaskRowProofs

\* A node that is up has registered, what is registered stays so, and
\* last_seen_at is not younger than the last heartbeat.
Recorded(a) ==
    /\ up[a] => Registered(agent[a])
    /\ scan # None /\ Registered(scan[a]) => Registered(agent[a])
    /\ Registered(agent[a]) => agent[a].age >= silent[a]

\* What the run has got of an agent is what it would get now, unless the agent was
\* seen since.
Unwritten(a) ==
    scan # None /\ (agent[a].age # 0 \/ silent[a] # 0) => scan[a] = Selected(agent[a])

\* After the run of a tick a silent node is stale.
SilentIsStale(a) ==
    Registered(agent[a]) /\ jobRan /\ silent[a] >= StaleAge + Slack
       => agent[a].status = "stale"

\* After the run of a tick, and a tick later, an online row is young.
OnlineIsYoung(a) ==
    ~late => /\ jobRan /\ agent[a].age >= SuspectedAge + Slack => agent[a].status # "online"
             /\ agent[a].age >= StaleAge + Slack => agent[a].status # "online"

Fresh(a) == ~late /\ up[a] /\ silent[a] = 0 => agent[a].age < StaleAge + Slack

Watch(a) ==
    /\ Recorded(a)
    /\ Unwritten(a)
    /\ SilentIsStale(a)
    /\ OnlineIsYoung(a)
    /\ Fresh(a)

PresenceInv == TypeOK /\ \A a \in Agents : Watch(a)
----------------------------------------------------------------------------
(* Rows of agents.                                                         *)

\* Writing a row in any of the ways of AgentPresence gives a row, and keeps
\* the user of a registered agent.
LEMMA AgentRows ==
    ASSUME NEW row \in AgentRow
    PROVE  /\ Seen(row) \in AgentRow /\ Seen(row).user = row.user
           /\ \A u \in Users : /\ Seen([row EXCEPT !.user = u]) \in AgentRow
                               /\ Seen([row EXCEPT !.user = u]).user = u
           /\ [row EXCEPT !.age = Later(@)] \in AgentRow
           /\ \A old : Marked(old, row) \in AgentRow
  <1>1. \A r \in AgentRow, v \in AgentStatus : [r EXCEPT !.status = v] \in AgentRow
    BY SMT DEF AgentRow
  <1>2. \A r \in AgentRow, v \in Users : [r EXCEPT !.user = v] \in AgentRow
    BY SMT DEF AgentRow
  <1>3. \A r \in AgentRow, v \in 0..MaxAge : [r EXCEPT !.age = v] \in AgentRow
    BY SMT DEF AgentRow
  <1>4. /\ "online" \in AgentStatus /\ "stale" \in AgentStatus
        /\ "suspected_failure" \in AgentStatus
    BY DEF AgentStatus
  <1>5. ASSUME NEW r \in AgentRow
        PROVE  Seen(r) \in AgentRow /\ Seen(r).user = r.user
    <2> DEFINE r1 == [r EXCEPT !.status = "online"]
               r2 == [r1 EXCEPT !.age = 0]
    <2>1. r1 \in AgentRow BY <1>1, <1>4
    <2>2. 0 \in 0..MaxAge BY MaxAgeAssumption, SlackAssumption, SMT
    <2>3. r2 \in AgentRow BY <1>3, <2>1, <2>2
    <2>4. Seen(r) = r2 BY SMT DEF Seen
    <2>5. Seen(r).user = r.user BY SMT DEF Seen, AgentRow
    <2> QED BY <2>3, <2>4, <2>5
  <1>6. ASSUME NEW u \in Users
        PROVE  Seen([row EXCEPT !.user = u]) \in AgentRow
               /\ Seen([row EXCEPT !.user = u]).user = u
    <2> DEFINE r == [row EXCEPT !.user = u]
    <2>1. r \in AgentRow BY <1>2
    <2>2. r.user = u BY SMT DEF AgentRow
    <2> HIDE DEF r
    <2>3. Seen(r) \in AgentRow /\ Seen(r).user = u BY <1>5, <2>1, <2>2
    <2> QED BY <2>3 DEF r
  <1>7. [row EXCEPT !.age = Later(@)] \in AgentRow
    <2>1. row.age \in 0..MaxAge BY DEF AgentRow
    <2>2. Later(row.age) \in 0..MaxAge BY <2>1, MaxAgeAssumption, SlackAssumption, SMT DEF Later
    <2> QED BY <1>3, <2>2
  <1>8. \A old : Marked(old, row) \in AgentRow BY <1>1, <1>4 DEF Marked
  <1> QED BY <1>5, <1>6, <1>7, <1>8

\* What a tick does to a counter.
LEMMA Ticks ==
    ASSUME NEW n \in 0..MaxAge
    PROVE  /\ Later(n) \in 0..MaxAge /\ Later(n) # 0
           /\ Later(n) >= n /\ Later(n) <= n + 1
           /\ \A k \in 0..MaxAge : k >= n => Later(k) >= Later(n)
  BY MaxAgeAssumption, SlackAssumption, SMT DEF Later, StaleAge

----------------------------------------------------------------------------
(* The steps, one agent at a time.                                         *)

\* In the first state nobody is registered.
LEMMA InitWatch ==
    ASSUME Init
    PROVE  PresenceInv
  <1>1. ASSUME NEW t \in Tasks PROVE task[t] \in Row
    <2>1. PICK d \in Departments :
             task[t] = [RowOf("pending", d, "hybrid") EXCEPT !.aged = TRUE]
      BY DEF Init
    <2>2. RowOf("pending", d, "hybrid") \in Row
      BY MaxSeqAssumption, SMT DEF RowOf, Row, Status, Held, Strategies, Deadline
    <2> QED BY <2>1, <2>2, WriteAged
  <1>2. task \in [Tasks -> Row]
    <2>1. task = [t \in Tasks |-> task[t]] BY DEF Init
    <2> QED BY <1>1, <2>1
  <1>3. NoAgent \in AgentRow
    BY MaxAgeAssumption, SlackAssumption, SMT DEF NoAgent, AgentRow, AgentStatus, StaleAge
  <1>4. TypeOK
    <2>1. agent \in [Agents -> AgentRow] BY <1>3 DEF Init
    <2>2. silent \in [Agents -> 0..MaxAge]
      BY MaxAgeAssumption, SlackAssumption, SMT DEF Init, StaleAge
    <2>3. \A a \in Agents : ~Registered(agent[a])
      BY DEF Init, NoAgent, Registered
    <2> QED BY <1>2, <2>1, <2>2, <2>3 DEF Init, TypeOK
  <1>5. ASSUME NEW a \in Agents PROVE Watch(a)
    BY MaxAgeAssumption, SlackAssumption, SMT
    DEF Init, Watch, Recorded, Unwritten, SilentIsStale, OnlineIsYoung, Fresh,
        NoAgent, Registered, StaleAge, SuspectedAge
  <1> QED BY <1>4, <1>5 DEF PresenceInv

\* An agent is heard: its row is written as seen just now, or was online and
\* is left alone.
LEMMA HearWatch ==
    ASSUME PresenceInv, NEW a \in Agents, NEW row \in AgentRow,
           Hear(a, row), UNCHANGED <<task, jobRan, late, scan, pick>>,
           row.status = "online", row.user \in Users,
           row.age = 0 \/ (row = agent[a] /\ up' = up),
           up' \in [Agents -> BOOLEAN], \A b \in Agents \ {a} : up'[b] = up[b]
    PROVE  PresenceInv'
  <1>1. TypeOK'
    <2>1. agent' \in [Agents -> AgentRow] BY DEF PresenceInv, TypeOK, Hear
    <2>2. silent' \in [Agents -> 0..MaxAge]
      BY MaxAgeAssumption, SlackAssumption, SMT DEF PresenceInv, TypeOK, Hear, StaleAge
    <2>3. \A b \in Agents : Registered(agent'[b]) => agent'[b].user \in Users
      BY DEF PresenceInv, TypeOK, Hear
    <2> QED BY <2>1, <2>2, <2>3 DEF PresenceInv, TypeOK
  <1>2. ASSUME NEW b \in Agents PROVE Watch(b)'
    <2>1. Watch(b) /\ agent[b] \in AgentRow BY DEF PresenceInv, TypeOK
    <2>2. /\ agent \in [Agents -> AgentRow] /\ silent \in [Agents -> 0..MaxAge]
          /\ up \in [Agents -> BOOLEAN]
      BY DEF PresenceInv, TypeOK
    <2>3. CASE b = a
      BY <2>1, <2>2, <2>3, MaxAgeAssumption, SlackAssumption, SMT
      DEF Watch, Recorded, Unwritten, SilentIsStale, OnlineIsYoung, Fresh,
          Hear, Registered, StaleAge, SuspectedAge, AgentRow
    <2>4. CASE b # a
      BY <2>1, <2>2, <2>4, SMT
      DEF Watch, Recorded, Unwritten, SilentIsStale, OnlineIsYoung, Fresh,
          Hear, Registered
    <2> QED BY <2>3, <2>4
  <1> QED BY <1>1, <1>2 DEF PresenceInv

\* A registration writes the row.
LEMMA RegisterWatch ==
    ASSUME PresenceInv, NEW a \in Agents, Register(a)
    PROVE  PresenceInv'
  <1> DEFINE row == Seen([agent[a] EXCEPT !.user = AgentUser[a]])
  <1>1. agent[a] \in AgentRow /\ AgentUser[a] \in Users
    BY AgentUserAssumption DEF PresenceInv, TypeOK
  <1>2. row \in AgentRow /\ row.user \in Users BY <1>1, AgentRows
  <1>3. row.status = "online" /\ row.age = 0 BY <1>1, SMT DEF Seen, AgentRow
  <1>4. up' \in [Agents -> BOOLEAN] /\ \A b \in Agents \ {a} : up'[b] = up[b]
    BY DEF Register, PresenceInv, TypeOK
  <1>5. Hear(a, row) /\ UNCHANGED <<task, jobRan, late, scan, pick>> BY DEF Register
  <1> HIDE DEF row
  <1> QED BY <1>2, <1>3, <1>4, <1>5, HearWatch

\* A heartbeat writes the row unless it is online already.
LEMMA HeartbeatWatch ==
    ASSUME PresenceInv, NEW a \in Agents, SendHeartbeat(a)
    PROVE  PresenceInv'
  <1>1. PICK row : /\ Hear(a, row)
                   /\ \/ row = Seen(agent[a])
                      \/ row = agent[a] /\ agent[a].status = "online"
    BY DEF SendHeartbeat, Heartbeat, HeartbeatFallback, Changes
  <1>2. /\ agent[a] \in AgentRow /\ Registered(agent[a])
        /\ agent[a].user \in Users
    BY DEF SendHeartbeat, PresenceInv, TypeOK, Watch, Recorded
  <1>3. Seen(agent[a]) \in AgentRow /\ Seen(agent[a]).user = agent[a].user
    BY <1>2, AgentRows
  <1>4. Seen(agent[a]).status = "online" /\ Seen(agent[a]).age = 0
    BY <1>2, SMT DEF Seen, AgentRow
  <1>5. /\ row \in AgentRow /\ row.status = "online" /\ row.user \in Users
        /\ row.age = 0 \/ row = agent[a]
    BY <1>1, <1>2, <1>3, <1>4
  <1>6. /\ UNCHANGED <<task, jobRan, late, scan, pick>> /\ up' = up
        /\ up' \in [Agents -> BOOLEAN]
    BY DEF SendHeartbeat, PresenceInv, TypeOK
  <1> QED BY <1>1, <1>5, <1>6, HearWatch

\* A node that goes silent is no longer held to be fresh.
LEMMA GoSilentWatch ==
    ASSUME PresenceInv, NEW a \in Agents, GoSilent(a)
    PROVE  PresenceInv'
  <1>1. TypeOK' BY DEF PresenceInv, TypeOK, GoSilent
  <1>2. ASSUME NEW b \in Agents PROVE Watch(b)'
    BY DEF PresenceInv, TypeOK, GoSilent, Watch, Recorded, Unwritten, SilentIsStale,
           OnlineIsYoung, Fresh
  <1> QED BY <1>1, <1>2 DEF PresenceInv

\* A run gets the rows as they are.
LEMMA ScanWatch ==
    ASSUME PresenceInv, ScanAgents
    PROVE  PresenceInv'
  <1>1. agent \in [Agents -> AgentRow] /\ NoAgent \in AgentRow
    BY MaxAgeAssumption, SlackAssumption, SMT
    DEF PresenceInv, TypeOK, NoAgent, AgentRow, AgentStatus, StaleAge
  <1>2. \A a \in Agents : Selected(agent[a]) \in AgentRow BY <1>1 DEF Selected
  <1>3. scan' \in [Agents -> AgentRow] BY <1>2 DEF ScanAgents
  <1>4. TypeOK' BY <1>3 DEF PresenceInv, TypeOK, ScanAgents
  <1>5. ASSUME NEW b \in Agents PROVE Watch(b)'
    <2>1. scan'[b] = Selected(agent[b]) /\ agent' = agent BY DEF ScanAgents
    <2>2. Registered(scan'[b]) => Registered(agent[b])
      BY <2>1 DEF Selected, NoAgent, Registered
    <2> QED BY <2>1, <2>2
        DEF PresenceInv, TypeOK, ScanAgents, Watch, Recorded, Unwritten,
            SilentIsStale, OnlineIsYoung, Fresh
  <1> QED BY <1>4, <1>5 DEF PresenceInv

\* A run that fails leaves no trace.
LEMMA RunFailsWatch ==
    ASSUME PresenceInv, RunFails
    PROVE  PresenceInv'
  <1>1. TypeOK' BY DEF PresenceInv, TypeOK, RunFails
  <1>2. ASSUME NEW b \in Agents PROVE Watch(b)'
    BY DEF PresenceInv, TypeOK, RunFails, Watch, Recorded, Unwritten,
           SilentIsStale, OnlineIsYoung, Fresh
  <1> QED BY <1>1, <1>2 DEF PresenceInv

\* A run marks by what it has read.  A row that was not seen since is as it was
\* read, so it is marked by what it is.
LEMMA MarkWatch ==
    ASSUME PresenceInv, MarkAgents
    PROVE  PresenceInv'
  <1>1. ASSUME NEW t \in Tasks PROVE task'[t] \in Row
    BY ReleasedRow DEF MarkAgents, PresenceInv, TypeOK
  <1>2. task' \in [Tasks -> Row]
    BY <1>1 DEF MarkAgents
  <1>3. scan # None /\ scan \in [Agents -> AgentRow] /\ agent \in [Agents -> AgentRow]
    BY DEF MarkAgents, PresenceInv, TypeOK
  <1>4. agent' \in [Agents -> AgentRow]
    <2>1. PICK read : agent' = [a \in Agents |-> Marked(read[a], agent[a])]
      BY DEF MarkAgents
    <2> QED BY <1>3, <2>1, AgentRows
  <1>5. ASSUME NEW a \in Agents
        PROVE  /\ Registered(agent'[a]) <=> Registered(agent[a])
               /\ agent'[a].user = agent[a].user /\ agent'[a].age = agent[a].age
               /\ agent'[a].status = agent[a].status
                     \/ agent'[a].status \in {"stale", "suspected_failure"}
               /\ scan[a] = Selected(agent[a]) /\ agent[a].age >= SuspectedAge + Slack
                     => agent'[a].status # "online"
               /\ scan[a] = Selected(agent[a]) /\ Registered(agent[a])
                     /\ agent[a].age >= StaleAge + Slack
                     => agent'[a].status = "stale"
    <2>1. PICK short \in 0..Slack : agent'[a] = Marked(Measured(scan[a], short), agent[a])
      <3>1. PICK short \in [Agents -> 0..Slack] :
               agent' = [b \in Agents |->
                            Marked([c \in Agents |-> Measured(scan[c], short[c])][b], agent[b])]
        BY DEF MarkAgents
      <3>2. agent'[a] = Marked(Measured(scan[a], short[a]), agent[a]) BY <3>1
      <3> QED BY <3>2
    <2>2. agent[a] \in AgentRow /\ scan[a] \in AgentRow BY <1>3
    <2>3. Registered(scan[a]) => Registered(agent[a])
      BY <1>3 DEF PresenceInv, Watch, Recorded
    <2> DEFINE read == Measured(scan[a], short)
    <2>4. /\ read.status = scan[a].status
          /\ \A n \in Nat : scan[a].age >= n + Slack => read.age >= n
      BY <2>2, SlackAssumption, SMT DEF Measured, AgentRow
    <2>5. Watched(read) <=> Watched(scan[a]) BY <2>4 DEF Watched
    <2>6. /\ scan[a].age >= SuspectedAge + Slack => read.age >= SuspectedAge
          /\ scan[a].age >= StaleAge + Slack => read.age >= StaleAge
      BY <2>4, SMT DEF SuspectedAge, StaleAge
    <2>7. Watched(read) => Registered(agent[a])
      BY <2>3, <2>5 DEF Watched, Registered
    <2> HIDE DEF read
    <2>8. agent'[a] = Marked(read, agent[a]) BY <2>1 DEF read
    <2>9. /\ Registered(agent'[a]) <=> Registered(agent[a])
          /\ agent'[a].user = agent[a].user /\ agent'[a].age = agent[a].age
          /\ agent'[a].status = agent[a].status
                \/ agent'[a].status \in {"stale", "suspected_failure"}
      BY <2>2, <2>7, <2>8, SMT
      DEF Marked, FoundStale, FoundSuspected, Watched, Registered, AgentRow, AgentStatus
    <2>10. ASSUME scan[a] = Selected(agent[a]), Watched(agent[a])
           PROVE  /\ agent[a].age >= SuspectedAge + Slack => agent'[a].status # "online"
                  /\ agent[a].age >= StaleAge + Slack => agent'[a].status = "stale"
      <3>1. Watched(read) /\ read.status = agent[a].status BY <2>4, <2>5, <2>10 DEF Selected, read
      <3>2. agent[a].age >= SuspectedAge + Slack => read.age >= SuspectedAge
        BY <2>6, <2>10 DEF Selected
      <3>3. agent[a].age >= StaleAge + Slack => read.age >= StaleAge
        BY <2>6, <2>10 DEF Selected
      <3> QED BY <2>2, <2>8, <3>1, <3>2, <3>3, SMT
          DEF Marked, FoundStale, FoundSuspected, Watched, AgentRow, AgentStatus
    <2>11. ASSUME scan[a] = Selected(agent[a]), ~Watched(agent[a])
           PROVE  agent'[a] = agent[a] /\ (Registered(agent[a]) => agent[a].status = "stale")
      <3>1. ~Watched(read) BY <2>5, <2>11 DEF Selected, Watched, NoAgent
      <3> QED BY <2>2, <2>8, <2>11, <3>1
          DEF Marked, FoundStale, FoundSuspected, Watched, Registered, AgentRow, AgentStatus
    <2>12. ~Watched(agent[a]) => agent[a].status # "online" BY DEF Watched
    <2> QED BY <2>9, <2>10, <2>11, <2>12
  <1>6. TypeOK'
    <2>1. \A a \in Agents : Registered(agent'[a]) => agent'[a].user \in Users
      BY <1>5 DEF PresenceInv, TypeOK
    <2> QED BY <1>2, <1>4, <2>1 DEF MarkAgents, PresenceInv, TypeOK
  <1>7. ASSUME NEW a \in Agents PROVE Watch(a)'
    <2>1. Watch(a) /\ agent[a].age \in 0..MaxAge /\ silent[a] \in 0..MaxAge
      BY DEF PresenceInv, TypeOK, AgentRow
    <2>2. silent' = silent /\ up' = up /\ late' = late /\ scan' = None
      BY DEF MarkAgents
    <2>3. /\ agent[a].age # 0 => scan[a] = Selected(agent[a])
          /\ silent[a] # 0 => scan[a] = Selected(agent[a])
      BY <1>3, <2>1 DEF Watch, Unwritten
    <2>4. SilentIsStale(a)'
      BY <1>5, <2>1, <2>2, <2>3, MaxAgeAssumption, SlackAssumption, SMT
      DEF Watch, Recorded, SilentIsStale, StaleAge, Registered
    <2>5. OnlineIsYoung(a)'
      BY <1>5, <2>1, <2>2, <2>3, MaxAgeAssumption, SlackAssumption, SMT
      DEF Watch, OnlineIsYoung, StaleAge, SuspectedAge, Watched
    <2>6. Recorded(a)' /\ Unwritten(a)' /\ Fresh(a)'
      BY <1>5, <2>1, <2>2 DEF Watch, Recorded, Unwritten, Fresh
    <2> QED BY <2>4, <2>5, <2>6 DEF Watch
  <1> QED BY <1>6, <1>7 DEF PresenceInv

\* What the fallback job is about to assign goes to users of online agents.
LEMMA SelectWatch ==
    ASSUME PresenceInv, SelectForFallback
    PROVE  PresenceInv'
  <1> DEFINE ready == {t \in Tasks : FallbackReady(task[t])}
             online == {a \in Agents : agent[a].status = "online"}
  <1>1. PICK best \in online, first \in [Departments -> Agents] :
           /\ FirstOfOrder(online, best, first)
           /\ pick' = [ready |-> ready,
                       user  |-> [d \in Departments |-> agent[first[d]].user]]
    BY DEF SelectForFallback
  <1>2. ASSUME NEW d \in Departments PROVE agent[first[d]].user \in Users
    <2>1. first[d] \in online BY <1>1 DEF FirstOfOrder, InDept
    <2> QED BY <2>1 DEF PresenceInv, TypeOK, Registered
  <1>3. UNCHANGED <<task, agent, up, silent, jobRan, late, scan>>
    BY DEF SelectForFallback
  <1>4. ready \in SUBSET Tasks OBVIOUS
  <1>5. [d \in Departments |-> agent[first[d]].user] \in [Departments -> Users] BY <1>2
  <1> HIDE DEF ready
  <1>6. pick' \in [ready : SUBSET Tasks, user : [Departments -> Users]]
    BY <1>1, <1>4, <1>5
  <1>7. TypeOK' BY <1>3, <1>6 DEF PresenceInv, TypeOK
  <1>8. ASSUME NEW b \in Agents PROVE Watch(b)'
    BY <1>3 DEF PresenceInv, Watch, Recorded, Unwritten, SilentIsStale,
                OnlineIsYoung, Fresh
  <1> QED BY <1>7, <1>8 DEF PresenceInv

\* A step that leaves the agents alone and writes rows keeps the invariant.
LEMMA TasksOnly ==
    ASSUME PresenceInv, task' \in [Tasks -> Row],
           pick' \in [ready : SUBSET Tasks, user : [Departments -> Users]] \cup {None},
           UNCHANGED <<agent, up, silent, jobRan, late, scan>>
    PROVE  PresenceInv'
  <1>1. TypeOK' BY DEF PresenceInv, TypeOK
  <1>2. ASSUME NEW b \in Agents PROVE Watch(b)'
    BY DEF PresenceInv, Watch, Recorded, Unwritten, SilentIsStale, OnlineIsYoung, Fresh
  <1> QED BY <1>1, <1>2 DEF PresenceInv

\* The fallback job assigns.
LEMMA AssignWatch ==
    ASSUME PresenceInv, NEW taken \in SUBSET Tasks, Assign(taken)
    PROVE  PresenceInv'
  <1>1. task \in [Tasks -> Row] /\ pick # None
        /\ pick \in [ready : SUBSET Tasks, user : [Departments -> Users]]
    BY DEF Assign, PresenceInv, TypeOK
  <1>2. ASSUME NEW t \in Tasks PROVE task'[t] \in Row
    <2>1. task[t] \in Row /\ task[t].department \in Departments BY <1>1 DEF Row
    <2>2. pick.user[task[t].department] \in Users BY <1>1, <2>1
    <2>3. AutoAssigned(task[t], pick.user[task[t].department]) \in Row
      BY <2>1, <2>2, AutoAssignedRow
    <2> QED BY <2>1, <2>3 DEF Assign
  <1>3. task' \in [Tasks -> Row] BY <1>2 DEF Assign
  <1>4. pick' = None /\ UNCHANGED <<agent, up, silent, jobRan, late, scan>> BY DEF Assign
  <1> QED BY <1>3, <1>4, TasksOnly

\* A user or a node takes a task or starts it.
LEMMA WorkWatch ==
    ASSUME PresenceInv, NEW t \in Tasks, NEW u \in Users, Work(t, u)
    PROVE  PresenceInv'
  <1>1. task \in [Tasks -> Row] BY DEF PresenceInv, TypeOK
  <1>2. Claimed(task[t], u) \in Row /\ Started(task[t]) \in Row
    BY <1>1, ClaimedRow, StartedRow
  <1>3. task' \in [Tasks -> Row]
    <2>1. Life!Claimed(task[t], u) = Claimed(task[t], u) BY DEF Life!Claimed, Claimed
    <2>2. Life!Started(task[t]) = Started(task[t]) BY DEF Life!Started, Started
    <2> QED BY <1>1, <1>2, <2>1, <2>2 DEF Work, Life!ClaimTask, Life!StartTask, Life!Update
  <1>4. UNCHANGED <<agent, up, silent, jobRan, late, scan, pick>> BY DEF Work
  <1>5. pick' \in [ready : SUBSET Tasks, user : [Departments -> Users]] \cup {None}
    BY <1>4 DEF PresenceInv, TypeOK
  <1> QED BY <1>3, <1>4, <1>5, TasksOnly

\* A tick ages every row and every silence alike.  Nobody was heard in the new
\* tick yet, and what the run of the old one has marked holds one tick more.
LEMMA TickWatch ==
    ASSUME PresenceInv, Tick
    PROVE  PresenceInv'
  <1>1. ASSUME NEW a \in Agents
        PROVE  /\ agent'[a] = [agent[a] EXCEPT !.age = Later(@)]
               /\ agent'[a] \in AgentRow
               /\ agent'[a].status = agent[a].status /\ agent'[a].user = agent[a].user
               /\ agent'[a].age = Later(agent[a].age)
               /\ silent'[a] = Later(silent[a])
               /\ agent[a].age \in 0..MaxAge /\ silent[a] \in 0..MaxAge
    <2>1. agent[a] \in AgentRow BY DEF PresenceInv, TypeOK
    <2> QED BY <2>1, AgentRows DEF Tick, AgentRow, PresenceInv, TypeOK
  <1>2. TypeOK'
    <2>1. agent' \in [Agents -> AgentRow] BY <1>1 DEF Tick
    <2>2. silent' \in [Agents -> 0..MaxAge] BY <1>1, Ticks DEF Tick
    <2>3. \A a \in Agents : Registered(agent'[a]) => agent'[a].user \in Users
      BY <1>1 DEF Registered, PresenceInv, TypeOK
    <2>4. late' \in BOOLEAN /\ jobRan' \in BOOLEAN BY DEF Tick, PresenceInv, TypeOK
    <2> QED BY <2>1, <2>2, <2>3, <2>4 DEF Tick, PresenceInv, TypeOK
  <1>3. ASSUME NEW a \in Agents PROVE Watch(a)'
    <2>1. Watch(a) BY DEF PresenceInv
    <2>2. /\ up' = up /\ scan = None /\ scan' = None /\ ~jobRan'
          /\ ~late' => ~late /\ jobRan
      BY DEF Tick
    <2>3. /\ Later(silent[a]) # 0
          /\ Later(silent[a]) <= silent[a] + 1
          /\ Later(agent[a].age) <= agent[a].age + 1
          /\ agent[a].age >= silent[a] => Later(agent[a].age) >= Later(silent[a])
      BY <1>1, Ticks
    <2>4. /\ Later(agent[a].age) \in Int /\ Later(silent[a]) \in Int
          /\ agent[a].age \in Int /\ silent[a] \in Int
      <3>1. \A n \in 0..MaxAge : n \in Int BY SMT
      <3> QED BY <1>1, Ticks, <3>1
    <2>5. /\ agent'[a].status = agent[a].status
          /\ agent'[a].age = Later(agent[a].age)
          /\ silent'[a] = Later(silent[a])
      BY <1>1
    <2>6. Recorded(a)' BY <1>1, <2>1, <2>2, <2>3 DEF Watch, Recorded, Registered
    <2>7. Unwritten(a)' BY <2>2 DEF Unwritten
    <2>8. SilentIsStale(a)'
      BY <2>1, <2>2, <2>3, <2>4, <2>5, SMT
      DEF Watch, SilentIsStale, Registered, StaleAge
    <2>9. OnlineIsYoung(a)'
      BY <2>1, <2>2, <2>3, <2>4, <2>5, SlackAssumption, SMT
      DEF Watch, OnlineIsYoung, StaleAge, SuspectedAge
    <2>10. Fresh(a)' BY <1>1, <2>3 DEF Fresh
    <2> QED BY <2>6, <2>7, <2>8, <2>9, <2>10 DEF Watch
  <1> QED BY <1>2, <1>3 DEF PresenceInv

----------------------------------------------------------------------------

\* Every step keeps the invariant.
LEMMA PresenceStep == PresenceInv /\ [Next]_vars => PresenceInv'
  <1> SUFFICES ASSUME PresenceInv, [Next]_vars PROVE PresenceInv'
    OBVIOUS
  <1>1. CASE \E a \in Agents : Register(a) BY <1>1, RegisterWatch
  <1>2. CASE \E a \in Agents : SendHeartbeat(a) BY <1>2, HeartbeatWatch
  <1>3. CASE \E a \in Agents : GoSilent(a) BY <1>3, GoSilentWatch
  <1>4. CASE ScanAgents BY <1>4, ScanWatch
  <1>5. CASE MarkAgents BY <1>5, MarkWatch
  <1>6. CASE RunFails BY <1>6, RunFailsWatch
  <1>7. CASE SelectForFallback BY <1>7, SelectWatch
  <1>8. CASE \E taken \in SUBSET Tasks : Assign(taken) BY <1>8, AssignWatch
  <1>9. CASE \E t \in Tasks, u \in Users : Work(t, u) BY <1>9, WorkWatch
  <1>10. CASE Tick BY <1>10, TickWatch
  <1>11. CASE UNCHANGED vars
    <2>1. TypeOK' BY <1>11 DEF vars, PresenceInv, TypeOK
    <2>2. ASSUME NEW b \in Agents PROVE Watch(b)'
      BY <1>11 DEF vars, PresenceInv, Watch, Recorded, Unwritten, SilentIsStale,
                   OnlineIsYoung, Fresh
    <2> QED BY <2>1, <2>2 DEF PresenceInv
  <1> QED BY <1>1, <1>2, <1>3, <1>4, <1>5, <1>6, <1>7, <1>8, <1>9, <1>10, <1>11 DEF Next

\* The invariant holds in every behaviour.
LEMMA Watching == Spec => []PresenceInv
  <1>1. Init => PresenceInv BY InitWatch
  <1> QED BY <1>1, PresenceStep, PTL DEF Spec

\* The tables and what the jobs have read keep their types, and whoever has
\* registered has a user.
THEOREM TypeCorrect == Spec => []TypeOK
  <1>1. PresenceInv => TypeOK BY DEF PresenceInv
  <1> QED BY <1>1, Watching, PTL

\* A run of check_agent_heartbeats leaves no agent unmarked whose silence is sure to
\* have lasted 120 seconds, whatever heartbeats came between SELECT and commit.
THEOREM DeadFound == Spec => []DeadAgentFoundInTime
  <1>1. PresenceInv => DeadAgentFoundInTime
    BY DEF PresenceInv, Watch, SilentIsStale, DeadAgentFoundInTime
  <1> QED BY <1>1, Watching, PTL

\* While every tick has a run, an agent that answers was recorded less than 150
\* seconds ago (120 if nothing happens between the ticks), although its heartbeats
\* leave last_seen_at alone.
THEOREM AnsweringFresh == Spec => []AnsweringAgentIsFresh
  <1>1. PresenceInv => AnsweringAgentIsFresh
    BY DEF PresenceInv, Watch, Fresh, AnsweringAgentIsFresh
  <1> QED BY <1>1, Watching, PTL
=============================================================================
