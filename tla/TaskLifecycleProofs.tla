------------------------ MODULE TaskLifecycleProofs ------------------------
(***************************************************************************)
(* TLAPS proofs about TaskLifecycle: type correctness, the invariants of a *)
(* row, and the action properties, for any number of tasks, users,         *)
(* departments and agents.                                                 *)
(*                                                                         *)
(* Every step rewrites rows, so the work is done row by row: a step of the *)
(* table changes each of its rows by a write of TaskRow or not at all, and *)
(* TaskRowProofs says what each write does to a sound row.                 *)
(***************************************************************************)
EXTENDS TaskLifecycle, TaskRowProofs

\* The inductive invariant: the table of sound rows.
IInv == /\ task \in [Tasks -> Row]
        /\ \A t \in Tasks : SoundRow(task[t])

----------------------------------------------------------------------------
(* From rows to the table.                                                 *)

\* Every row of the table changes lawfully, and stays sound.
GoodTable ==
    /\ task' \in [Tasks -> Row]
    /\ \A t \in Tasks : GoodStep(task[t], task'[t])

\* A request or the passing of time replaces one row.
LEMMA UpdateGood ==
    ASSUME IInv, NEW t \in Tasks, NEW row, GoodStep(task[t], row), Update(t, row)
    PROVE  GoodTable
  <1>1. row \in Row BY DEF GoodStep, SoundRow
  <1>2. task' \in [Tasks -> Row] BY <1>1 DEF IInv, Update
  <1>3. ASSUME NEW u \in Tasks PROVE GoodStep(task[u], task'[u])
    <2>1. CASE u = t BY <2>1 DEF IInv, Update
    <2>2. CASE u # t
      <3>1. task'[u] = task[u] BY <2>2 DEF IInv, Update
      <3>2. SoundRow(task[u]) BY DEF IInv
      <3> QED BY <3>1, <3>2, UnchangedGood
    <2> QED BY <2>1, <2>2
  <1> QED BY <1>2, <1>3 DEF GoodTable

\* A job computes the whole table anew.
LEMMA RewriteGood ==
    ASSUME IInv, NEW rows, task' = [t \in Tasks |-> rows[t]],
           \A t \in Tasks : GoodStep(task[t], rows[t])
    PROVE  GoodTable
  <1>1. \A t \in Tasks : task'[t] = rows[t] OBVIOUS
  <1>2. \A t \in Tasks : rows[t] \in Row BY DEF GoodStep, SoundRow
  <1> QED BY <1>1, <1>2 DEF GoodTable

----------------------------------------------------------------------------
(* The inductive invariant.                                                *)

\* A table without rows is sound.
LEMMA InitSound == Init => IInv
  <1> SUFFICES ASSUME Init PROVE IInv
    OBVIOUS
  <1>1. ASSUME NEW t \in Tasks PROVE SoundRow(task[t])
    <2>1. PICK d \in Departments : task[t] = RowOf("absent", d, "manual")
      BY DEF Init
    <2>2. "manual" \in Strategies BY DEF Strategies
    <2> QED BY <2>1, <2>2, NewRowSound
  <1>2. \A t \in Tasks : task[t] \in Row BY <1>1 DEF SoundRow
  <1>3. task \in [Tasks -> Row] BY <1>2 DEF Init
  <1> QED BY <1>1, <1>3 DEF IInv

\* A request changes each row by a good step or not at all.
LEMMA RequestGood ==
    ASSUME IInv, NEW t \in Tasks, Request(t)
    PROVE  GoodTable
  <1> DEFINE row == task[t]
  <1>0. SoundRow(row) BY DEF IInv
  <1>1. ASSUME NEW me \in Users, NEW d \in Departments, NEW s \in Strategies,
               CreateTask(t, me, d, s)
        PROVE  GoodTable
    <2>1. SoundRow(RowOf("pending", d, s)) BY NewRowSound
    <2>2. GoodStep(row, RowOf("pending", d, s))
      BY <1>0, <1>1, <2>1, SMT
      DEF GoodStep, Lawful, CreateTask, Exists, Held, SoundRow
    <2> QED BY <1>1, <2>2, UpdateGood DEF CreateTask
  <1>2. ASSUME NEW u \in Users, ClaimTask(t, u) PROVE GoodTable
    BY <1>0, <1>2, ClaimedSound, UpdateGood DEF ClaimTask
  <1>3. ASSUME NEW me \in Users, StartTask(t, me) PROVE GoodTable
    BY <1>0, <1>3, StartedSound, UpdateGood DEF StartTask, Startable
  <1>4. ASSUME NEW seq \in 1..MaxSeq, NEW pct \in Pcts, ReportProgress(t, seq, pct)
        PROVE  GoodTable
    BY <1>0, <1>4, ReportedSound, UpdateGood DEF ReportProgress
  <1>5. ASSUME NEW me \in Users, NEW h \in Hashes, NEW m \in Models \cup {None},
               SubmitResult(t, me, h, m)
        PROVE  GoodTable
    BY <1>0, <1>5, SubmittedSound, UpdateGood DEF SubmitResult
  <1>6. ASSUME NEW me \in Users, ReleaseTask(t, me) PROVE GoodTable
    BY <1>0, <1>6, ReleasedSound, UpdateGood DEF ReleaseTask, Releasable, Held
  <1>7. ASSUME NEW me \in Users, NEW m \in Models, OverrideModel(t, me, m)
        PROVE  GoodTable
    BY <1>0, <1>7, OverriddenSound, UpdateGood DEF OverrideModel
  <1> QED BY <1>1, <1>2, <1>3, <1>4, <1>5, <1>6, <1>7 DEF Request

\* A job changes each row by a good step or not at all.
LEMMA JobGood ==
    ASSUME IInv, Job
    PROVE  GoodTable
  <1>0. \A t \in Tasks : SoundRow(task[t]) /\ GoodStep(task[t], task[t])
    BY UnchangedGood DEF IInv
  <1>1. ASSUME CheckClaimTimeouts PROVE GoodTable
    <2> DEFINE rows == [t \in Tasks |-> IF ClaimOverdue(task[t]) THEN Released(task[t])
                                                                 ELSE task[t]]
    <2>1. task' = [t \in Tasks |-> rows[t]] BY <1>1 DEF CheckClaimTimeouts, Rewrite
    <2>2. \A t \in Tasks : GoodStep(task[t], rows[t])
      BY <1>0, ReleasedSound DEF ClaimOverdue, Held
    <2> QED BY <2>1, <2>2, RewriteGood
  <1>2. ASSUME CheckInactivityTimeouts PROVE GoodTable
    <2> DEFINE rows == [t \in Tasks |-> IF WorkOverdue(task[t]) THEN Reclaimed(task[t])
                                                                ELSE task[t]]
    <2>1. task' = [t \in Tasks |-> rows[t]] BY <1>2 DEF CheckInactivityTimeouts, Rewrite
    <2>2. \A t \in Tasks : GoodStep(task[t], rows[t]) BY <1>0, ReclaimedSound
    <2> QED BY <2>1, <2>2, RewriteGood
  <1>3. ASSUME NEW online \in SUBSET Agents, NEW best \in Agents,
               NEW first \in [Departments -> Agents],
               AutoFallbackAssign(online, best, first)
        PROVE  GoodTable
    <2> DEFINE to(t) == AgentUser[first[task[t].department]]
               rows == [t \in Tasks |-> IF FallbackReady(task[t])
                                        THEN AutoAssigned(task[t], to(t)) ELSE task[t]]
    <2>1. task' = [t \in Tasks |-> rows[t]] BY <1>3 DEF AutoFallbackAssign, Rewrite
    <2>2. ASSUME NEW t \in Tasks PROVE to(t) \in Users
      <3>1. task[t] \in Row BY <1>0 DEF SoundRow
      <3>2. task[t].department \in Departments BY <3>1, SMT DEF Row
      <3> QED BY <3>2, AgentUserAssumption
    <2>3. \A t \in Tasks : GoodStep(task[t], rows[t]) BY <1>0, <2>2, AutoAssignedSound
    <2> QED BY <2>1, <2>3, RewriteGood
  <1>4. ASSUME NEW stale \in SUBSET Agents, ReleaseAgentTasks(stale) PROVE GoodTable
    <2> DEFINE lost(t) == \E a \in stale : HeldBy(task[t], AgentUser[a])
               rows == [t \in Tasks |-> IF lost(t) THEN Released(task[t]) ELSE task[t]]
    <2>1. task' = [t \in Tasks |-> rows[t]] BY <1>4 DEF ReleaseAgentTasks, Rewrite
    <2>2. \A t \in Tasks : GoodStep(task[t], rows[t])
      BY <1>0, ReleasedSound DEF HeldBy
    <2> QED BY <2>1, <2>2, RewriteGood
  <1> QED BY <1>1, <1>2, <1>3, <1>4 DEF Job, SomeFallbackAssign

\* So does the passing of time.
LEMMA TimeGood ==
    ASSUME IInv, NEW t \in Tasks, TimePasses(t)
    PROVE  GoodTable
  <1>0. SoundRow(task[t]) BY DEF IInv
  <1>1. CASE TenMinutesPass(t)
    BY <1>0, <1>1, ElapsedSound, UpdateGood DEF TenMinutesPass
  <1>2. CASE ClaimWindowEnds(t)
    BY <1>0, <1>2, ElapsedSound, UpdateGood DEF ClaimWindowEnds
  <1>3. CASE InactivityWindowEnds(t)
    BY <1>0, <1>3, ElapsedSound, UpdateGood DEF InactivityWindowEnds
  <1> QED BY <1>1, <1>2, <1>3 DEF TimePasses

\* Whatever happens, every row changes lawfully and stays sound.
LEMMA NextGood == IInv /\ [Next]_vars => GoodTable
  <1> SUFFICES ASSUME IInv, [Next]_vars PROVE GoodTable
    OBVIOUS
  <1>1. CASE Next BY <1>1, RequestGood, JobGood, TimeGood DEF Next
  <1>2. CASE UNCHANGED vars
    <2>1. task' = task BY <1>2 DEF vars
    <2>2. \A t \in Tasks : GoodStep(task[t], task[t]) BY UnchangedGood DEF IInv
    <2> QED BY <2>1, <2>2 DEF GoodTable, IInv
  <1> QED BY <1>1, <1>2

\* Every step keeps the invariant.
LEMMA NextSound == IInv /\ [Next]_vars => IInv'
  BY NextGood DEF GoodTable, GoodStep, IInv

\* The inductive invariant holds in every reachable state.
THEOREM Soundness == Spec => []IInv
  BY InitSound, NextSound, PTL DEF Spec

----------------------------------------------------------------------------
(* The properties.                                                         *)

\* Every column keeps its type, for any handler and any job.
THEOREM TypeCorrect == Spec => []TypeOK
  <1>1. IInv => TypeOK BY DEF IInv, TypeOK
  <1> QED BY <1>1, Soundness, PTL

\* A held task has an owner, a task in the pool has none.
THEOREM Owned == Spec => []OwnedIffHeld
  <1>1. IInv => OwnedIffHeld BY DEF IInv, SoundRow, OwnedIffHeld
  <1> QED BY <1>1, Soundness, PTL

\* The deadline column of its status is set in every held task, and no claim
\* deadline outlives a claim.
THEOREM Armed == Spec => []HeldTasksHaveDeadlines
  <1>1. IInv => HeldTasksHaveDeadlines BY DEF IInv, SoundRow, HeldTasksHaveDeadlines
  <1> QED BY <1>1, Soundness, PTL

\* The fallback job assigns only auto and hybrid tasks older than ten minutes.
THEOREM Eligible == Spec => []AutoOnlyWhenEligible
  <1>1. IInv => AutoOnlyWhenEligible BY DEF IInv, SoundRow, AutoOnlyWhenEligible
  <1> QED BY <1>1, Soundness, PTL

\* A task has a result hash exactly when it is completed.
THEOREM Results == Spec => []ResultIffCompleted
  <1>1. IInv => ResultIffCompleted BY DEF IInv, SoundRow, ResultIffCompleted
  <1> QED BY <1>1, Soundness, PTL

\* A task passes from one user to another only through the pool.
THEOREM HandOver == Spec => HandOverOnlyThroughPool
  <1>1. IInv /\ [Next]_vars =>
          [\A t \in Tasks : task[t].status \in Held /\ task'[t].status \in Held
                              => task'[t].assignee = task[t].assignee]_vars
    BY NextGood DEF GoodTable, GoodStep, Lawful
  <1> QED BY <1>1, Soundness, PTL DEF Spec, HandOverOnlyThroughPool

\* A completed task stays completed.
THEOREM Final == Spec => CompletedIsFinal
  <1>1. IInv /\ [Next]_vars =>
          [\A t \in Tasks : task[t].status = "completed"
                              => task'[t].status = "completed"]_vars
    BY NextGood DEF GoodTable, GoodStep, Lawful
  <1> QED BY <1>1, Soundness, PTL DEF Spec, CompletedIsFinal

\* A claim deadline that is due is not renewed in place.
THEOREM NotRenewed == Spec => ClaimWindowNotRenewed
  <1>1. IInv /\ [Next]_vars =>
          [\A t \in Tasks : task[t].claim_timeout_at = "due"
                              => task'[t].claim_timeout_at # "running"]_vars
    BY NextGood DEF GoodTable, GoodStep, Lawful
  <1> QED BY <1>1, Soundness, PTL DEF Spec, ClaimWindowNotRenewed

\* progress_seq never goes back.
THEOREM SeqGrows == Spec => ProgressSeqGrows
  <1>1. IInv /\ [Next]_vars =>
          [\A t \in Tasks : Exists(task[t])
                              => task'[t].progress_seq >= task[t].progress_seq]_vars
    BY NextGood DEF GoodTable, GoodStep, Lawful
  <1> QED BY <1>1, Soundness, PTL DEF Spec, ProgressSeqGrows
=============================================================================
