-------------------------- MODULE AgentNodeProofs --------------------------
(***************************************************************************)
(* TLAPS proofs about AgentNode: types, the bound on the tasks a node      *)
(* works on, for any number of tasks, any limit and any page size, and     *)
(* that every row stays sound whichever requests are lost or late.         *)
(*                                                                         *)
(* current_concurrency is a counter that every coroutine raises once and   *)
(* lowers once.  Coroutines gives each coroutine an element of its own, so *)
(* that the counter is the cardinality of a finite set, and never negative.*)
(***************************************************************************)
EXTENDS AgentNode, TaskRowProofs, FiniteSetTheorems, WellFoundedInduction

\* One element for each coroutine that "works" counts.
Coroutines(works) ==
    {c \in Tasks \X (0..Last) \X Nat : c[3] < works[c[1]][c[2]]}

Counted == IsFiniteSet(Coroutines(work)) /\ Cardinality(Coroutines(work)) = conc

NodeInv == TypeOK /\ Counted /\ ConcurrencyBound

----------------------------------------------------------------------------
(* The page.                                                               *)

\* Some task of a set was created first.
LEMMA Oldest ==
    ASSUME NEW S \in SUBSET Tasks, S # {}
    PROVE  \E t \in S : \A u \in S : u # t => CreatedAt[u] > CreatedAt[t]
  <1> DEFINE older(t) == {u \in S : CreatedAt[u] < CreatedAt[t]}
             R == StrictSubsetOrdering(Tasks)
             T == {older(t) : t \in S}
  <1>1. T \subseteq FiniteSubsetsOf(Tasks)
    BY FiniteAssumption, FS_Subset DEF FiniteSubsetsOf
  <1>2. PICK first \in T : \A other \in T : ~(<<other, first>> \in R)
    <2>1. T # {} OBVIOUS
    <2>2. IsWellFoundedOn(R, FiniteSubsetsOf(Tasks))
      BY FS_StrictSubsetOrderingWellFounded
    <2> HIDE DEF T, R
    <2> QED BY <1>1, <2>1, <2>2, WFMin
  <1>3. PICK t \in S : older(t) = first OBVIOUS
  <1>4. ASSUME NEW u \in S, u # t PROVE CreatedAt[u] > CreatedAt[t]
    <2>1. CreatedAt[u] # CreatedAt[t] BY <1>4, CreatedAtAssumption
    <2>2. \A v \in S : CreatedAt[v] \in Nat BY CreatedAtAssumption
    <2>3. SUFFICES ASSUME CreatedAt[u] < CreatedAt[t] PROVE FALSE
      BY <2>1, <2>2, SMT
    <2>4. older(u) \subseteq older(t) BY <2>2, <2>3, SMT
    <2>5. u \in older(t) /\ u \notin older(u) BY <2>2, <2>3, SMT
    <2>6. <<older(u), older(t)>> \in R
      BY <2>4, <2>5 DEF StrictSubsetOrdering
    <2> QED BY <1>2, <1>3, <2>6
  <1> QED BY <1>4

\* A poll gets no more than one page: all tasks of it but the oldest are newer
\* than that one.
LEMMA PageFits ==
    IsFiniteSet(Page) /\ Cardinality(Page) <= PageSize
  <1>1. IsFiniteSet(Page)
    <2>1. Page \in SUBSET Tasks BY DEF Page
    <2> QED BY <2>1, FS_Subset, FiniteAssumption
  <1>2. CASE Page = {} BY <1>2, FS_EmptySet, LimitsAssumption, SMT
  <1>3. CASE Page # {}
    <2>1. Page \in SUBSET Tasks BY DEF Page
    <2>2. PICK t \in Page : \A u \in Page : u # t => CreatedAt[u] > CreatedAt[t]
      BY <1>3, <2>1, Oldest
    <2>3. Page \ {t} \in SUBSET Newer(t) BY <2>2 DEF Page, Newer
    <2>4. IsFiniteSet(Newer(t)) 
      <3>1. Newer(t) \in SUBSET Tasks BY DEF Newer
      <3> QED BY <3>1, FS_Subset, FiniteAssumption
    <2>5. Cardinality(Page \ {t}) <= Cardinality(Newer(t)) BY <2>3, <2>4, FS_Subset
    <2>6. Cardinality(Page \ {t}) = Cardinality(Page) - 1 BY <1>1, FS_RemoveElement
    <2>7. Cardinality(Newer(t)) < PageSize BY DEF Page
    <2>8. Cardinality(Newer(t)) \in Nat /\ Cardinality(Page) \in Nat
      BY <1>1, <2>4, FS_CardinalityType
    <2> QED BY <1>1, <2>5, <2>6, <2>7, <2>8, LimitsAssumption, SMT
  <1> QED BY <1>2, <1>3, <1>1

----------------------------------------------------------------------------
(* Coroutines that begin and end.                                          *)

\* The requests are numbered from 0 to Last.
LEMMA Requests ==
    /\ Last \in Nat /\ Last = MaxSeq + 1 /\ 0 \in 0..Last
    /\ \A n \in 0..Last : n # Last => n + 1 \in 0..Last
    /\ \A n \in 0..Last : n # 0 /\ n # Last => n \in 1..MaxSeq
  BY MaxSeqAssumption, SMT DEF Last

\* The work with v coroutines at one place.
With(works, t, n, v) == [works EXCEPT ![t][n] = v]

\* What changes at one place is a table of work, the same everywhere else.
LEMMA ChangedAt ==
    ASSUME NEW works \in [Tasks -> [0..Last -> Nat]],
           NEW t \in Tasks, NEW n \in 0..Last, NEW v \in Nat
    PROVE  /\ With(works, t, n, v) \in [Tasks -> [0..Last -> Nat]]
           /\ \A u \in Tasks, m \in 0..Last :
                 With(works, t, n, v)[u][m] = IF u = t /\ m = n THEN v ELSE works[u][m]
  <1> DEFINE N == 0..Last
             row == [works[t] EXCEPT ![n] = v]
  <1>1. works \in [Tasks -> [N -> Nat]] /\ n \in N OBVIOUS
  <1> HIDE DEF N
  <1>2. row \in [N -> Nat] /\ \A m \in N : row[m] = IF m = n THEN v ELSE works[t][m]
    BY <1>1
  <1>3. With(works, t, n, v) = [works EXCEPT ![t] = row] BY DEF With
  <1> HIDE DEF row
  <1>4. [works EXCEPT ![t] = row] \in [Tasks -> [N -> Nat]] BY <1>1, <1>2
  <1>5. \A u \in Tasks : [works EXCEPT ![t] = row][u] = IF u = t THEN row ELSE works[u]
    BY <1>1
  <1>6. \A u \in Tasks, m \in N :
           With(works, t, n, v)[u][m] = IF u = t /\ m = n THEN v ELSE works[u][m]
    BY <1>2, <1>3, <1>5
  <1> QED BY <1>3, <1>4, <1>6 DEF N

\* A coroutine more.
LEMMA OneMore ==
    ASSUME NEW works \in [Tasks -> [0..Last -> Nat]], NEW t \in Tasks, NEW n \in 0..Last,
           IsFiniteSet(Coroutines(works)),
           NEW then, then = With(works, t, n, works[t][n] + 1)
    PROVE  /\ then \in [Tasks -> [0..Last -> Nat]]
           /\ IsFiniteSet(Coroutines(then))
           /\ Cardinality(Coroutines(then)) = Cardinality(Coroutines(works)) + 1
  <1> DEFINE c == <<t, n, works[t][n]>>
  <1>0. works[t][n] \in Nat /\ works[t][n] + 1 \in Nat
    <2>1. works[t][n] \in Nat OBVIOUS
    <2> QED BY <2>1
  <1>1. then \in [Tasks -> [0..Last -> Nat]] BY <1>0, ChangedAt
  <1>2. ASSUME NEW u \in Tasks, NEW m \in 0..Last
        PROVE  then[u][m] = IF u = t /\ m = n THEN works[u][m] + 1 ELSE works[u][m]
    BY <1>0, ChangedAt
  <1>3. Coroutines(then) = Coroutines(works) \cup {c}
    <2>1. ASSUME NEW d \in Tasks \X (0..Last) \X Nat
          PROVE  d[3] < then[d[1]][d[2]] <=> d[3] < works[d[1]][d[2]] \/ d = c
      <3>1. PICK u \in Tasks, m \in 0..Last, k \in Nat : d = <<u, m, k>> OBVIOUS
      <3>2. works[u][m] \in Nat OBVIOUS
      <3>3. then[u][m] = IF u = t /\ m = n THEN works[u][m] + 1 ELSE works[u][m]
        BY <1>2
      <3>4. k < then[u][m] <=> k < works[u][m] \/ (u = t /\ m = n /\ k = works[u][m])
        BY <3>2, <3>3, SMT
      <3> QED BY <3>1, <3>4
    <2>2. c \in Tasks \X (0..Last) \X Nat OBVIOUS
    <2> HIDE DEF c
    <2> QED BY <2>1, <2>2 DEF Coroutines
  <1>4. c \notin Coroutines(works) BY SMT DEF Coroutines
  <1>5. Cardinality(Coroutines(works) \cup {c}) = Cardinality(Coroutines(works)) + 1
    <2> HIDE DEF c
    <2> QED BY <1>4, FS_AddElement
  <1>6. IsFiniteSet(Coroutines(works) \cup {c}) BY FS_AddElement
  <1> QED BY <1>1, <1>3, <1>5, <1>6

\* A coroutine less.
LEMMA OneLess ==
    ASSUME NEW works \in [Tasks -> [0..Last -> Nat]], NEW t \in Tasks, NEW n \in 0..Last,
           IsFiniteSet(Coroutines(works)), works[t][n] > 0,
           NEW then, then = With(works, t, n, works[t][n] - 1)
    PROVE  /\ then \in [Tasks -> [0..Last -> Nat]]
           /\ IsFiniteSet(Coroutines(then))
           /\ Cardinality(Coroutines(then)) = Cardinality(Coroutines(works)) - 1
  <1> DEFINE c == <<t, n, works[t][n] - 1>>
  <1>1. works[t][n] \in Nat /\ works[t][n] - 1 \in Nat
    <2>1. works[t][n] \in Nat OBVIOUS
    <2> QED BY <2>1
  <1>2. then \in [Tasks -> [0..Last -> Nat]] BY <1>1, ChangedAt
  <1>3. ASSUME NEW u \in Tasks, NEW m \in 0..Last
        PROVE  then[u][m] = IF u = t /\ m = n THEN works[u][m] - 1 ELSE works[u][m]
    BY <1>1, ChangedAt
  <1>4. Coroutines(then) = Coroutines(works) \ {c}
    <2>1. ASSUME NEW d \in Tasks \X (0..Last) \X Nat
          PROVE  d[3] < then[d[1]][d[2]] <=> d[3] < works[d[1]][d[2]] /\ d # c
      <3>1. PICK u \in Tasks, m \in 0..Last, k \in Nat : d = <<u, m, k>> OBVIOUS
      <3>2. works[u][m] \in Nat OBVIOUS
      <3>3. then[u][m] = IF u = t /\ m = n THEN works[u][m] - 1 ELSE works[u][m]
        BY <1>3
      <3>4. k < then[u][m]
               <=> k < works[u][m] /\ ~(u = t /\ m = n /\ k = works[u][m] - 1)
        BY <3>2, <3>3, SMT
      <3> QED BY <3>1, <3>4
    <2> HIDE DEF c
    <2> QED BY <2>1 DEF Coroutines
  <1>5. c \in Coroutines(works) BY <1>1, SMT DEF Coroutines
  <1> HIDE DEF c
  <1> QED BY <1>2, <1>4, <1>5, FS_RemoveElement

\* With no work there is no coroutine.
LEMMA NoneLeft ==
    /\ Idle \in [Tasks -> [0..Last -> Nat]]
    /\ IsFiniteSet(Coroutines(Idle)) /\ Cardinality(Coroutines(Idle)) = 0
  <1>1. Coroutines(Idle) = {} BY SMT DEF Coroutines, Idle
  <1>2. Idle \in [Tasks -> [0..Last -> Nat]] BY DEF Idle
  <1> QED BY <1>1, <1>2, FS_EmptySet

----------------------------------------------------------------------------
(* The rows.                                                               *)

\* The requests of a node write rows.
LEMMA AnsweredRow ==
    ASSUME task \in [Tasks -> Row], NEW t \in Tasks, NEW n \in 0..Last
    PROVE  Answered(t, n) \in Row
  <1>1. task[t] \in Row OBVIOUS
  <1>2. AfterStart(task[t]) \in Row BY <1>1, StartedRow DEF AfterStart
  <1>3. AfterSubmit(task[t], ResultHash[t]) \in Row
    BY <1>1, ResultHashAssumption, SubmittedRow DEF AfterSubmit
  <1>4. CASE n = 0 BY <1>2, <1>4 DEF Answered
  <1>5. CASE n # 0 /\ n = Last BY <1>3, <1>5 DEF Answered
  <1>6. CASE n # 0 /\ n # Last
    <2>1. n \in 1..MaxSeq BY <1>6, Requests
    <2>2. Percent[n] \in 0..100 BY <2>1, PercentAssumption, PctsAssumption
    <2>3. AfterReport(task[t], n, Percent[n]) \in Row
      BY <1>1, <2>1, <2>2, ReportedRow DEF AfterReport
    <2> QED BY <1>6, <2>3 DEF Answered
  <1> QED BY <1>4, <1>5, <1>6

\* So does the rest of the backend.
LEMMA BackendRows ==
    ASSUME task \in [Tasks -> Row], Backend
    PROVE  task' \in [Tasks -> Row]
  <1>1. ASSUME NEW t \in Tasks
        PROVE  /\ task[t] \in Row
               /\ Life!Released(task[t]) \in Row
               /\ Life!Reclaimed(task[t]) \in Row
               /\ Life!Started(task[t]) \in Row
               /\ [task[t] EXCEPT !.inactivity_timeout_at = "due"] \in Row
               /\ \A u \in Users : Life!AutoAssigned(task[t], u) \in Row
    <2>1. task[t] \in Row OBVIOUS
    <2>2. Life!Released(task[t]) \in Row
      BY <2>1, ReleasedRow DEF Released, Life!Released
    <2>3. Life!Reclaimed(task[t]) \in Row
      BY <2>1, ReclaimedRow DEF Reclaimed, Life!Reclaimed
    <2>4. Life!Started(task[t]) \in Row
      BY <2>1, StartedRow DEF Started, Life!Started
    <2>5. [task[t] EXCEPT !.inactivity_timeout_at = "due"] \in Row
      BY <2>1, WriteInactivity, Constants
    <2>6. \A u \in Users : Life!AutoAssigned(task[t], u) \in Row
      BY <2>1, AutoAssignedRow DEF AutoAssigned, Life!AutoAssigned
    <2> QED BY <2>1, <2>2, <2>3, <2>4, <2>5, <2>6
  <1>2. CASE Life!SomeFallbackAssign
    <2>1. PICK online \in SUBSET Agents, best \in Agents,
               first \in [Departments -> Agents] :
             Life!AutoFallbackAssign(online, best, first)
      BY <1>2 DEF Life!SomeFallbackAssign
    <2>2. \A t \in Tasks : AgentUser[first[task[t].department]] \in Users
      BY AgentUserAssumption DEF Row
    <2> QED BY <1>1, <2>1, <2>2 DEF Life!AutoFallbackAssign, Life!Rewrite
  <1>3. CASE Life!CheckInactivityTimeouts
    BY <1>1, <1>3 DEF Life!CheckInactivityTimeouts, Life!Rewrite
  <1>4. CASE \E stale \in SUBSET Agents : Life!ReleaseAgentTasks(stale)
    BY <1>1, <1>4 DEF Life!ReleaseAgentTasks, Life!Rewrite
  <1>5. CASE \E t \in Tasks :
                \/ Life!InactivityWindowEnds(t)
                \/ \E u \in Users \ {Me} : Life!StartTask(t, u)
                \/ \E u \in Users : Life!ReleaseTask(t, u)
    BY <1>1, <1>5
    DEF Life!InactivityWindowEnds, Life!StartTask, Life!ReleaseTask, Life!Update
  <1> QED BY <1>2, <1>3, <1>4, <1>5 DEF Backend

----------------------------------------------------------------------------
(* The steps.                                                              *)

\* A node that is down has nothing to do.
LEMMA InitNode == Init => NodeInv
  <1> SUFFICES ASSUME Init PROVE NodeInv
    OBVIOUS
  <1>1. ASSUME NEW t \in Tasks PROVE task[t] \in Row
    <2>1. PICK d \in Departments :
             task[t] = [RowOf("pending", d, "auto") EXCEPT !.aged = TRUE]
      BY DEF Init
    <2>2. RowOf("pending", d, "auto") \in Row
      BY MaxSeqAssumption, SMT DEF RowOf, Row, Status, Held, Strategies, Deadline
    <2> QED BY <2>1, <2>2, WriteAged
  <1>2. task \in [Tasks -> Row]
    <2>1. task = [t \in Tasks |-> task[t]] BY DEF Init
    <2> QED BY <1>1, <2>1
  <1>3. TypeOK /\ Counted BY <1>2, NoneLeft DEF Init, TypeOK, Counted
  <1>4. ConcurrencyBound
    BY FS_EmptySet, LimitsAssumption, SMT DEF Init, ConcurrencyBound
  <1> QED BY <1>3, <1>4 DEF NodeInv

\* The cardinality of what a poll brought is a number.
LEMMA FetchedFinite ==
    ASSUME fetched \subseteq Tasks
    PROVE  IsFiniteSet(fetched) /\ Cardinality(fetched) \in Nat
  BY FiniteAssumption, FS_Subset, FS_CardinalityType

\* Down and up again.
LEMMA DownNode ==
    ASSUME NodeInv, Boot \/ Register \/ GoDown
    PROVE  NodeInv'
  <1>1. CASE Boot \/ Register
    BY <1>1 DEF NodeInv, TypeOK, Counted, ConcurrencyBound, Boot, Register
  <1>2. CASE GoDown
    <2>1. TypeOK' /\ Counted'
      BY <1>2, NoneLeft DEF NodeInv, TypeOK, Counted, GoDown
    <2>2. ConcurrencyBound'
      BY <1>2, FS_EmptySet, LimitsAssumption, SMT DEF GoDown, ConcurrencyBound
    <2> QED BY <2>1, <2>2 DEF NodeInv
  <1> QED BY <1>1, <1>2

\* A poll under the limit brings one page at most.
LEMMA PollNode ==
    ASSUME NodeInv, PollTasks
    PROVE  NodeInv'
  <1>1. TypeOK' /\ Counted'
    BY DEF NodeInv, TypeOK, Counted, PollTasks, Page
  <1>2. Cardinality(Page) \in Nat BY PageFits, FS_CardinalityType
  <1>3. conc < MaxConcurrency /\ conc' = conc /\ fetched' = Page /\ conc \in Nat
    BY DEF PollTasks, MayPoll, NodeInv, TypeOK
  <1>4. ConcurrencyBound'
    BY <1>2, <1>3, PageFits, LimitsAssumption, SMT DEF ConcurrencyBound
  <1> QED BY <1>1, <1>4 DEF NodeInv

\* A coroutine that begins is counted and no longer waits.
LEMMA BeginNode ==
    ASSUME NodeInv, NEW t \in Tasks, Begin(t)
    PROVE  NodeInv'
  <1>1. work \in [Tasks -> [0..Last -> Nat]] /\ Counted /\ conc \in Nat
        /\ fetched \subseteq Tasks
    BY DEF NodeInv, TypeOK
  <1>2. /\ work' \in [Tasks -> [0..Last -> Nat]]
        /\ IsFiniteSet(Coroutines(work'))
        /\ Cardinality(Coroutines(work')) = Cardinality(Coroutines(work)) + 1
    <2>1. work' = With(work, t, 0, work[t][0] + 1) BY DEF Begin, With
    <2> QED BY <1>1, <2>1, Requests, OneMore DEF Counted
  <1>3. /\ conc' = conc + 1 /\ fetched' = fetched \ {t} /\ t \in fetched
        /\ UNCHANGED <<task, phase>>
    BY DEF Begin
  <1>4. Counted' BY <1>1, <1>2, <1>3 DEF Counted
  <1>5. conc' \in Nat BY <1>1, <1>3
  <1>6. TypeOK' BY <1>1, <1>2, <1>3, <1>5 DEF NodeInv, TypeOK
  <1>7. ConcurrencyBound'
    <2>1. Cardinality(fetched') = Cardinality(fetched) - 1
      BY <1>1, <1>3, FetchedFinite, FS_RemoveElement
    <2>2. Cardinality(fetched) \in Nat BY <1>1, FetchedFinite
    <2> QED BY <1>1, <1>3, <2>1, <2>2, LimitsAssumption, SMT
        DEF NodeInv, ConcurrencyBound
  <1> QED BY <1>4, <1>6, <1>7 DEF NodeInv

\* A request ends its coroutine, which is no longer counted, or leads to the next.
LEMMA PostNode ==
    ASSUME NodeInv, NEW t \in Tasks, NEW n \in 0..Last,
           NEW handled \in BOOLEAN, NEW raised \in BOOLEAN, Post(t, n, handled, raised)
    PROVE  NodeInv'
  <1> DEFINE less == With(work, t, n, work[t][n] - 1)
  <1>1. work \in [Tasks -> [0..Last -> Nat]] /\ Counted /\ conc \in Nat
        /\ fetched \subseteq Tasks /\ task \in [Tasks -> Row]
    BY DEF NodeInv, TypeOK
  <1>2. /\ less \in [Tasks -> [0..Last -> Nat]]
        /\ IsFiniteSet(Coroutines(less))
        /\ Cardinality(Coroutines(less)) = Cardinality(Coroutines(work)) - 1
    BY <1>1, OneLess DEF Post, Counted
  <1>3. task' \in [Tasks -> Row]
    BY <1>1, AnsweredRow DEF Post
  <1>4. UNCHANGED <<phase, fetched>> BY DEF Post
  <1>5. CASE Ends(n, raised)
    <2>1. work' = less /\ conc' = conc - 1 BY <1>5 DEF Post, Uncounted, With
    <2>2. Counted' BY <1>1, <1>2, <2>1 DEF Counted
    <2>3. conc' \in Nat BY <1>2, <2>1, <2>2, FS_CardinalityType DEF Counted
    <2>4. TypeOK' BY <1>2, <1>3, <1>4, <2>1, <2>3 DEF NodeInv, TypeOK
    <2>5. ConcurrencyBound'
      BY <1>1, <1>4, <2>1, FetchedFinite, LimitsAssumption, SMT
      DEF NodeInv, ConcurrencyBound
    <2> QED BY <2>2, <2>4, <2>5 DEF NodeInv
  <1>6. CASE ~Ends(n, raised)
    <2>1. n + 1 \in 0..Last BY <1>6, Requests DEF Ends
    <2>2. work' = [work EXCEPT ![t][n] = @ - 1, ![t][n + 1] = @ + 1] /\ conc' = conc
      BY <1>6 DEF Post
    <2>3. work' = With(less, t, n + 1, less[t][n + 1] + 1)
      <3>1. n # n + 1 /\ n \in Int BY SMT
      <3>2. work[t][n] - 1 \in Nat
        <4>1. work[t][n] \in Nat /\ work[t][n] > 0 BY <1>1 DEF Post
        <4> QED BY <4>1
      <3>3. less[t][n + 1] = work[t][n + 1] BY <1>1, <2>1, <3>1, <3>2, ChangedAt
      <3> QED BY <2>2, <3>3 DEF With
    <2> HIDE DEF less
    <2>4. /\ work' \in [Tasks -> [0..Last -> Nat]]
          /\ IsFiniteSet(Coroutines(work'))
          /\ Cardinality(Coroutines(work')) = Cardinality(Coroutines(less)) + 1
      BY <1>2, <2>1, <2>3, OneMore
    <2>5. Counted'
      BY <1>1, <1>2, <2>2, <2>4, FS_CardinalityType, SMT DEF Counted
    <2>6. TypeOK' BY <1>1, <1>3, <1>4, <2>2, <2>4 DEF NodeInv, TypeOK
    <2>7. ConcurrencyBound'
      BY <1>4, <2>2 DEF NodeInv, ConcurrencyBound
    <2> QED BY <2>5, <2>6, <2>7 DEF NodeInv
  <1> QED BY <1>5, <1>6

\* Nor does a request nobody waits for touch the node.
LEMMA UnawaitedNode ==
    ASSUME NodeInv, NEW t \in Tasks, NEW n \in 0..Last, Unawaited(t, n)
    PROVE  NodeInv'
  <1>1. task \in [Tasks -> Row] BY DEF NodeInv, TypeOK
  <1>2. task' \in [Tasks -> Row] BY <1>1, AnsweredRow DEF Unawaited
  <1>3. UNCHANGED <<phase, conc, fetched, work>> BY DEF Unawaited
  <1> QED BY <1>2, <1>3 DEF NodeInv, TypeOK, Counted, ConcurrencyBound

\* What else happens to the tasks does not touch the node.
LEMMA BackendNode ==
    ASSUME NodeInv, Backend
    PROVE  NodeInv'
  <1>1. task' \in [Tasks -> Row] BY BackendRows DEF NodeInv, TypeOK
  <1>2. UNCHANGED <<phase, conc, fetched, work>> BY DEF Backend
  <1> QED BY <1>1, <1>2 DEF NodeInv, TypeOK, Counted, ConcurrencyBound

\* Every step keeps the invariant.
LEMMA NodeStep == NodeInv /\ [Next]_vars => NodeInv'
  <1> SUFFICES ASSUME NodeInv, [Next]_vars PROVE NodeInv'
    OBVIOUS
  <1>1. CASE Boot \/ Register \/ GoDown BY <1>1, DownNode
  <1>2. CASE PollTasks BY <1>2, PollNode
  <1>3. CASE \E t \in Tasks : Begin(t) BY <1>3, BeginNode
  <1>4. CASE \E t \in Tasks, n \in 0..Last, handled, raised \in BOOLEAN :
                Post(t, n, handled, raised)
    BY <1>4, PostNode
  <1>5. CASE Backend BY <1>5, BackendNode
  <1>6. CASE \E t \in Tasks, n \in 0..Last : Unawaited(t, n) BY <1>6, UnawaitedNode
  <1>7. CASE UNCHANGED vars
    BY <1>7 DEF vars, NodeInv, TypeOK, Counted, ConcurrencyBound
  <1> QED BY <1>1, <1>2, <1>3, <1>4, <1>5, <1>6, <1>7 DEF Next

\* The invariant holds in every behaviour.
LEMMA Node == Spec => []NodeInv
  <1> QED BY InitNode, NodeStep, PTL DEF Spec

\* current_concurrency is never negative, and the rows keep their types whatever
\* of the node's requests is lost or repeated.
THEOREM TypeCorrect == Spec => []TypeOK
  <1>1. NodeInv => TypeOK BY DEF NodeInv
  <1> QED BY <1>1, Node, PTL

\* A node never works on more tasks than max_concurrency less one and one page
\* together, for any limit and any size of a page.
THEOREM Bounded == Spec => []ConcurrencyBound
  <1>1. NodeInv => ConcurrencyBound BY DEF NodeInv
  <1> QED BY <1>1, Node, PTL

----------------------------------------------------------------------------
(* Sound rows.                                                             *)

\* A request of the node leaves a sound row sound.
LEMMA AnsweredSound ==
    ASSUME NEW t \in Tasks, NEW n \in 0..Last, SoundRow(task[t])
    PROVE  SoundRow(Answered(t, n))
  <1>1. SoundRow(AfterStart(task[t]))
    BY StartedSound DEF AfterStart, Startable, GoodStep
  <1>2. SoundRow(AfterSubmit(task[t], ResultHash[t]))
    BY SubmittedSound, ResultHashAssumption DEF AfterSubmit, GoodStep
  <1>3. CASE n = 0 BY <1>1, <1>3 DEF Answered
  <1>4. CASE n # 0 /\ n = Last BY <1>2, <1>4 DEF Answered
  <1>5. CASE n # 0 /\ n # Last
    <2>1. n \in 1..MaxSeq BY <1>5, Requests
    <2>2. Percent[n] \in Pcts BY <2>1, PercentAssumption
    <2>3. SoundRow(AfterReport(task[t], n, Percent[n]))
      BY <2>1, <2>2, ReportedSound DEF AfterReport, GoodStep
    <2> QED BY <1>5, <2>3 DEF Answered
  <1> QED BY <1>3, <1>4, <1>5

\* The table of sound rows.
Sound == \A t \in Tasks : SoundRow(task[t])

\* So does the rest of the backend.
LEMMA BackendSound ==
    ASSUME Sound, task \in [Tasks -> Row], Backend
    PROVE  Sound'
  <1> SUFFICES ASSUME NEW t \in Tasks PROVE SoundRow(task'[t])
    BY DEF Sound
  <1>0. SoundRow(task[t]) /\ task[t] \in Row BY DEF Sound
  <1>1. CASE Life!SomeFallbackAssign
    <2>1. PICK online \in SUBSET Agents, best \in Agents, first \in [Departments -> Agents] :
             Life!AutoFallbackAssign(online, best, first)
      BY <1>1 DEF Life!SomeFallbackAssign
    <2> DEFINE u == AgentUser[first[task[t].department]]
    <2>2. u \in Users BY <1>0, AgentUserAssumption DEF Row
    <2>3. \/ task'[t] = task[t]
          \/ FallbackReady(task[t]) /\ task'[t] = AutoAssigned(task[t], u)
      BY <2>1 DEF Life!AutoFallbackAssign, Life!Rewrite, Life!FallbackReady, Life!AutoStrategies,
         Life!AutoAssigned, FallbackReady, AutoStrategies, AutoAssigned
    <2> HIDE DEF u
    <2> QED BY <1>0, <2>2, <2>3, AutoAssignedSound DEF GoodStep
  <1>2. CASE Life!CheckInactivityTimeouts
    <2>1. \/ task'[t] = task[t]
          \/ WorkOverdue(task[t]) /\ task'[t] = Reclaimed(task[t])
      BY <1>2 DEF Life!CheckInactivityTimeouts, Life!Rewrite, Life!WorkOverdue, Life!Reclaimed,
         WorkOverdue, Reclaimed
    <2> QED BY <1>0, <2>1, ReclaimedSound DEF GoodStep
  <1>3. CASE \E stale \in SUBSET Agents : Life!ReleaseAgentTasks(stale)
    <2>1. \/ task'[t] = task[t]
          \/ task[t].status \in Held /\ task'[t] = Released(task[t])
      BY <1>3 DEF Life!ReleaseAgentTasks, Life!Rewrite, Life!HeldBy, Life!Held, Life!Released,
         Held, Released
    <2> QED BY <1>0, <2>1, ReleasedSound DEF GoodStep
  <1>4. ASSUME NEW x \in Tasks, Life!InactivityWindowEnds(x) PROVE SoundRow(task'[t])
    <2>1. \/ task'[t] = task[t]
          \/ /\ task[t].inactivity_timeout_at = "running"
             /\ task'[t] = [task[t] EXCEPT !.inactivity_timeout_at = "due"]
      BY <1>4 DEF Life!InactivityWindowEnds, Life!Update
    <2> QED BY <1>0, <2>1, ElapsedSound DEF GoodStep
  <1>5. ASSUME NEW x \in Tasks, NEW u \in Users, Life!StartTask(x, u) PROVE SoundRow(task'[t])
    <2>1. \/ task'[t] = task[t]
          \/ /\ task[t].status \in {"claimed", "assigned_auto"}
             /\ task'[t] = Started(task[t])
      BY <1>5 DEF Life!StartTask, Life!Startable, Life!Started, Life!Update, Started
    <2> QED BY <1>0, <2>1, StartedSound DEF GoodStep
  <1>6. ASSUME NEW x \in Tasks, NEW u \in Users, Life!ReleaseTask(x, u) PROVE SoundRow(task'[t])
    <2>1. \/ task'[t] = task[t]
          \/ /\ task[t].status \in {"claimed", "assigned_auto"}
             /\ task'[t] = Released(task[t])
      BY <1>6 DEF Life!ReleaseTask, Life!Releasable, Life!Released, Life!Update, Released
    <2> QED BY <1>0, <2>1, ReleasedSound DEF GoodStep, Held
  <1> QED BY <1>1, <1>2, <1>3, <1>4, <1>5, <1>6 DEF Backend

\* Every step keeps the rows sound.
LEMMA SoundStep == NodeInv /\ Sound /\ [Next]_vars => Sound'
  <1> SUFFICES ASSUME NodeInv, Sound, [Next]_vars PROVE Sound'
    OBVIOUS
  <1>0. task \in [Tasks -> Row] BY DEF NodeInv, TypeOK
  <1>1. ASSUME NEW t \in Tasks, NEW n \in 0..Last, NEW handled \in BOOLEAN,
               NEW raised \in BOOLEAN, Post(t, n, handled, raised) \/ Unawaited(t, n)
        PROVE  Sound'
    <2>1. task' = task \/ task' = [task EXCEPT ![t] = Answered(t, n)]
      BY <1>1 DEF Post, Unawaited
    <2>2. SoundRow(Answered(t, n)) BY AnsweredSound DEF Sound
    <2> QED BY <1>0, <2>1, <2>2 DEF Sound
  <1>2. CASE Backend BY <1>0, <1>2, BackendSound
  <1>3. CASE Boot \/ Register \/ GoDown \/ PollTasks \/ (\E t \in Tasks : Begin(t))
    BY <1>3 DEF Boot, Register, GoDown, PollTasks, Begin, Sound
  <1>4. CASE UNCHANGED vars BY <1>4 DEF vars, Sound
  <1> QED BY <1>1, <1>2, <1>3, <1>4 DEF Next

\* Whichever requests and answers are lost or late, and however often a task is started
\* again, no row is left that the lifecycle excludes: held without an owner or a
\* deadline column, or completed without its result.
THEOREM NodeLeavesSoundRows ==
    Spec => [](Life!OwnedIffHeld /\ Life!HeldTasksHaveDeadlines /\ Life!ResultIffCompleted)
  <1>1. Init => Sound
    <2> SUFFICES ASSUME Init, NEW t \in Tasks PROVE SoundRow(task[t])
      BY DEF Sound
    <2>1. PICK d \in Departments :
             task[t] = [RowOf("pending", d, "auto") EXCEPT !.aged = TRUE]
      BY DEF Init
    <2>2. SoundRow(RowOf("pending", d, "auto")) BY NewRowSound DEF Strategies
    <2> QED BY <2>1, <2>2, ElapsedSound DEF GoodStep
  <1>2. Sound => Life!OwnedIffHeld /\ Life!HeldTasksHaveDeadlines /\ Life!ResultIffCompleted
    BY DEF Sound, SoundRow, OwnedRow, ArmedRow, Held, Life!OwnedIffHeld, Life!OwnedRow, Life!Held,
       Life!HeldTasksHaveDeadlines, Life!ArmedRow, Life!ResultIffCompleted
  <1> QED BY <1>1, <1>2, SoundStep, Node, PTL DEF Spec
=============================================================================
