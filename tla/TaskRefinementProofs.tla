----------------------- MODULE TaskRefinementProofs -----------------------
(***************************************************************************)
(* TLAPS proof that TaskLifecycle implements TaskOwnership: seen through   *)
(* the mapping of a row to its owner, every handler and job is a Take, a   *)
(* GiveBack, a Finish, or changes nothing.                                 *)
(***************************************************************************)
EXTENDS TaskLifecycleProofs

\* The owner a row maps to, read off a sound row and off each write.
LEMMA OwnerOfRow ==
    ASSUME NEW row, SoundRow(row)
    PROVE  /\ row.status \in {"absent", "pending"} => Owner(row) = Free
           /\ row.status \in Held => Owner(row) = row.assignee /\ Owner(row) \in Users
           /\ row.status = "completed" => Owner(row) = Done
           /\ row.status # "completed" => Owner(row) # Done
  <1>1. row.status \in {"absent", "pending", "completed"} \cup Held
    BY SMT DEF SoundRow, Row, Status
  <1>2. Free # Done BY SMT DEF Free, Done
  <1> QED BY <1>1, <1>2, OwnerMarksAssumption, SMT DEF SoundRow, OwnedRow, Owner, Held

\* The owner each write of TaskRow leaves.
LEMMA OwnerOfWrite ==
    ASSUME NEW row \in Row
    PROVE  /\ \A u \in Users : /\ Owner(Claimed(row, u)) = u
                               /\ Owner(AutoAssigned(row, u)) = u
           /\ Owner(Started(row)) = row.assignee
           /\ \A h, m : Owner(Submitted(row, h, m)) = Done
           /\ Owner(Released(row)) = Free
           /\ Owner(Reclaimed(row)) = Free
  <1>1. \A u \in Users : Owner(Claimed(row, u)) = u /\ Owner(AutoAssigned(row, u)) = u
    BY SMT DEF Owner, Claimed, AutoAssigned, Row
  <1>2. Owner(Started(row)) = row.assignee BY SMT DEF Owner, Started, Row
  <1>3. \A h, m : Owner(Submitted(row, h, m)) = Done BY SMT DEF Owner, Submitted, Row
  <1>4. Owner(Released(row)) = Free BY SMT DEF Owner, Released, Row
  <1>5. Owner(Reclaimed(row)) = Free BY SMT DEF Owner, Reclaimed, Row
  <1> QED BY <1>1, <1>2, <1>3, <1>4, <1>5

\* Reports, model changes and the passing of time leave the owner alone.
LEMMA ReportedOwner ==
    ASSUME NEW row \in Row, NEW seq, NEW pct
    PROVE  Owner(Reported(row, seq, pct)) = Owner(row)
  BY SMT DEF Owner, Reported, Row

\* A change of the model leaves the owner alone.
LEMMA OverriddenOwner ==
    ASSUME NEW row \in Row, NEW m
    PROVE  Owner(Overridden(row, m)) = Owner(row)
  BY SMT DEF Owner, Overridden, Row

\* The passing of time leaves the owner alone.
LEMMA ElapsedOwner ==
    ASSUME NEW row \in Row
    PROVE  /\ Owner([row EXCEPT !.aged = TRUE]) = Owner(row)
           /\ Owner([row EXCEPT !.claim_timeout_at = "due"]) = Owner(row)
           /\ Owner([row EXCEPT !.inactivity_timeout_at = "due"]) = Owner(row)
  <1>1. Owner([row EXCEPT !.aged = TRUE]) = Owner(row) BY SMT DEF Owner, Row
  <1>2. Owner([row EXCEPT !.claim_timeout_at = "due"]) = Owner(row) BY SMT DEF Owner, Row
  <1>3. Owner([row EXCEPT !.inactivity_timeout_at = "due"]) = Owner(row)
    BY SMT DEF Owner, Row
  <1> QED BY <1>1, <1>2, <1>3

----------------------------------------------------------------------------
(* How a change of rows shows in the mapped table.                         *)

owners == [t \in Tasks |-> Owner(task[t])]

\* Free rows that become owned: an abstract Take.
LEMMA TakeStep ==
    ASSUME NEW S \in SUBSET Tasks,
           \A t \in S : Owner(task[t]) = Free /\ Owner(task'[t]) \in Users,
           \A t \in Tasks \ S : task'[t] = task[t]
    PROVE  Ownership!Next
  <1> DEFINE to == [t \in S |-> Owner(task'[t])]
  <1>1. to \in [S -> Users] OBVIOUS
  <1>2. owners' = [t \in Tasks |-> IF t \in S THEN to[t] ELSE owners[t]]
    BY DEF owners
  <1>3. Ownership!Take(S, to) BY <1>2 DEF Ownership!Take, owners
  <1> QED BY <1>1, <1>3 DEF Ownership!Next

\* Owned rows that become free: an abstract GiveBack.
LEMMA GiveBackStep ==
    ASSUME NEW S \in SUBSET Tasks,
           \A t \in S : Owner(task[t]) \in Users /\ Owner(task'[t]) = Free,
           \A t \in Tasks \ S : task'[t] = task[t]
    PROVE  Ownership!Next
  <1>1. owners' = [t \in Tasks |-> IF t \in S THEN Free ELSE owners[t]]
    BY DEF owners
  <1>2. \A t \in S : owners[t] \in Users BY DEF owners
  <1>3. Ownership!GiveBack(S) BY <1>1, <1>2 DEF Ownership!GiveBack, owners
  <1> QED BY <1>3 DEF Ownership!Next

\* One row that becomes done: an abstract Finish.
LEMMA FinishStep ==
    ASSUME NEW t \in Tasks, Owner(task[t]) # Done, Owner(task'[t]) = Done,
           \A u \in Tasks \ {t} : task'[u] = task[u]
    PROVE  Ownership!Next
  <1>1. owners' = [u \in Tasks |-> IF u = t THEN Done ELSE owners[u]] BY DEF owners
  <1>2. owners' = [owners EXCEPT ![t] = Done] BY <1>1 DEF owners
  <1>3. owners[t] # Done BY DEF owners
  <1>4. Ownership!Finish(t) BY <1>2, <1>3 DEF Ownership!Finish, owners
  <1> QED BY <1>4 DEF Ownership!Next

\* Rows whose owners stay: an abstract stutter.
LEMMA KeepStep ==
    ASSUME \A t \in Tasks : Owner(task'[t]) = Owner(task[t])
    PROVE  UNCHANGED owners
  BY DEF owners

----------------------------------------------------------------------------
(* Every step.                                                             *)

OwnerStep == Ownership!Next \/ UNCHANGED owners

\* What an Update leaves alone, and what it makes of its row.
LEMMA UpdateRows ==
    ASSUME IInv, NEW t \in Tasks, NEW row, Update(t, row)
    PROVE  task'[t] = row /\ \A u \in Tasks \ {t} : task'[u] = task[u]
  BY DEF IInv, Update

\* Every request is an abstract step or a stutter.
LEMMA RequestOwner ==
    ASSUME IInv, NEW t \in Tasks, Request(t)
    PROVE  OwnerStep
  <1> DEFINE row == task[t]
  <1>0. SoundRow(row) /\ row \in Row BY DEF IInv, SoundRow
  <1>1. ASSUME NEW me \in Users, NEW d \in Departments, NEW s \in Strategies,
               CreateTask(t, me, d, s)
        PROVE  OwnerStep
    <2>1. SoundRow(RowOf("pending", d, s)) BY NewRowSound
    <2>2. RowOf("pending", d, s).status = "pending" BY DEF RowOf
    <2>3. Owner(RowOf("pending", d, s)) = Free BY <2>1, <2>2, OwnerOfRow
    <2>4. Owner(row) = Free BY <1>0, <1>1, OwnerOfRow DEF CreateTask, Exists
    <2>5. \A u \in Tasks : Owner(task'[u]) = Owner(task[u])
      BY <1>1, <2>3, <2>4, UpdateRows DEF CreateTask
    <2> QED BY <2>5, KeepStep DEF OwnerStep
  <1>2. ASSUME NEW u \in Users, ClaimTask(t, u) PROVE OwnerStep
    <2>1. Owner(row) = Free BY <1>0, <1>2, OwnerOfRow DEF ClaimTask, Claimable
    <2>2. Owner(Claimed(row, u)) \in Users BY <1>0, OwnerOfWrite
    <2>3. \A x \in {t} : Owner(task[x]) = Free /\ Owner(task'[x]) \in Users
      BY <1>2, <2>1, <2>2, UpdateRows DEF ClaimTask
    <2>4. \A x \in Tasks \ {t} : task'[x] = task[x] BY <1>2, UpdateRows DEF ClaimTask
    <2> QED BY <2>3, <2>4, TakeStep DEF OwnerStep
  <1>3. ASSUME NEW me \in Users, StartTask(t, me) PROVE OwnerStep
    <2>1. Owner(row) = row.assignee
      BY <1>0, <1>3, OwnerOfRow DEF StartTask, Startable, Held
    <2>2. Owner(Started(row)) = Owner(row) BY <1>0, <2>1, OwnerOfWrite
    <2>3. \A x \in Tasks : Owner(task'[x]) = Owner(task[x])
      BY <1>3, <2>2, UpdateRows DEF StartTask
    <2> QED BY <2>3, KeepStep DEF OwnerStep
  <1>4. ASSUME NEW seq \in 1..MaxSeq, NEW pct \in Pcts, ReportProgress(t, seq, pct)
        PROVE  OwnerStep
    <2>1. Owner(Reported(row, seq, pct)) = Owner(row) BY <1>0, ReportedOwner
    <2>2. \A x \in Tasks : Owner(task'[x]) = Owner(task[x])
      BY <1>4, <2>1, UpdateRows DEF ReportProgress
    <2> QED BY <2>2, KeepStep DEF OwnerStep
  <1>5. ASSUME NEW me \in Users, NEW h \in Hashes, NEW m \in Models \cup {None},
               SubmitResult(t, me, h, m)
        PROVE  OwnerStep
    <2>1. Owner(Submitted(row, h, m)) = Done BY <1>0, OwnerOfWrite
    <2>2. task'[t] = Submitted(row, h, m) /\ \A x \in Tasks \ {t} : task'[x] = task[x]
      BY <1>5, UpdateRows DEF SubmitResult
    <2>3. CASE row.status = "completed"
      <3>1. Owner(row) = Done BY <1>0, <2>3, OwnerOfRow
      <3>2. \A x \in Tasks : Owner(task'[x]) = Owner(task[x]) BY <2>1, <2>2, <3>1
      <3> QED BY <3>2, KeepStep DEF OwnerStep
    <2>4. CASE row.status # "completed"
      <3>1. Owner(row) # Done BY <1>0, <2>4, OwnerOfRow
      <3> QED BY <2>1, <2>2, <3>1, FinishStep DEF OwnerStep
    <2> QED BY <2>3, <2>4
  <1>6. ASSUME NEW me \in Users, ReleaseTask(t, me) PROVE OwnerStep
    <2>1. Owner(row) \in Users
      BY <1>0, <1>6, OwnerOfRow DEF ReleaseTask, Releasable, Held
    <2>2. Owner(Released(row)) = Free BY <1>0, OwnerOfWrite
    <2>3. \A x \in {t} : Owner(task[x]) \in Users /\ Owner(task'[x]) = Free
      BY <1>6, <2>1, <2>2, UpdateRows DEF ReleaseTask
    <2>4. \A x \in Tasks \ {t} : task'[x] = task[x] BY <1>6, UpdateRows DEF ReleaseTask
    <2>5. {t} \in SUBSET Tasks OBVIOUS
    <2> QED BY <2>3, <2>4, <2>5, GiveBackStep DEF OwnerStep
  <1>7. ASSUME NEW me \in Users, NEW m \in Models, OverrideModel(t, me, m)
        PROVE  OwnerStep
    <2>1. Owner(Overridden(row, m)) = Owner(row) BY <1>0, OverriddenOwner
    <2>2. \A x \in Tasks : Owner(task'[x]) = Owner(task[x])
      BY <1>7, <2>1, UpdateRows DEF OverrideModel
    <2> QED BY <2>2, KeepStep DEF OwnerStep
  <1> QED BY <1>1, <1>2, <1>3, <1>4, <1>5, <1>6, <1>7 DEF Request

\* Every job is an abstract step or a stutter.
LEMMA JobOwner ==
    ASSUME IInv, Job
    PROVE  OwnerStep
  <1>0. \A t \in Tasks : SoundRow(task[t]) /\ task[t] \in Row BY DEF IInv, SoundRow
  <1>1. ASSUME CheckClaimTimeouts PROVE OwnerStep
    <2> DEFINE S == {t \in Tasks : ClaimOverdue(task[t])}
    <2>1. \A t \in S : task'[t] = Released(task[t])
      BY <1>1 DEF CheckClaimTimeouts, Rewrite
    <2>2. \A t \in Tasks \ S : task'[t] = task[t]
      BY <1>1 DEF CheckClaimTimeouts, Rewrite
    <2>3. \A t \in S : Owner(task[t]) \in Users /\ Owner(task'[t]) = Free
      BY <1>0, <2>1, OwnerOfRow, OwnerOfWrite DEF ClaimOverdue, Held
    <2> HIDE DEF S
    <2> QED BY <2>2, <2>3, GiveBackStep DEF OwnerStep, S
  <1>2. ASSUME CheckInactivityTimeouts PROVE OwnerStep
    <2> DEFINE S == {t \in Tasks : WorkOverdue(task[t])}
    <2>1. \A t \in S : task'[t] = Reclaimed(task[t])
      BY <1>2 DEF CheckInactivityTimeouts, Rewrite
    <2>2. \A t \in Tasks \ S : task'[t] = task[t]
      BY <1>2 DEF CheckInactivityTimeouts, Rewrite
    <2>3. \A t \in S : Owner(task[t]) \in Users /\ Owner(task'[t]) = Free
      BY <1>0, <2>1, OwnerOfRow, OwnerOfWrite DEF WorkOverdue, Held
    <2> HIDE DEF S
    <2> QED BY <2>2, <2>3, GiveBackStep DEF OwnerStep, S
  <1>3. ASSUME NEW online \in SUBSET Agents, NEW best \in Agents,
               NEW first \in [Departments -> Agents],
               AutoFallbackAssign(online, best, first)
        PROVE  OwnerStep
    <2> DEFINE S == {t \in Tasks : FallbackReady(task[t])}
               to(t) == AgentUser[first[task[t].department]]
    <2>1. \A t \in S : task'[t] = AutoAssigned(task[t], to(t))
      BY <1>3 DEF AutoFallbackAssign, Rewrite
    <2>2. \A t \in Tasks \ S : task'[t] = task[t] BY <1>3 DEF AutoFallbackAssign, Rewrite
    <2>3. ASSUME NEW t \in Tasks PROVE to(t) \in Users
      <3>1. task[t].department \in Departments BY <1>0, SMT DEF Row
      <3> QED BY <3>1, AgentUserAssumption
    <2>4. \A t \in S : Owner(task[t]) = Free /\ Owner(task'[t]) \in Users
      BY <1>0, <2>1, <2>3, OwnerOfRow, OwnerOfWrite DEF FallbackReady
    <2> HIDE DEF S
    <2> QED BY <2>2, <2>4, TakeStep DEF OwnerStep, S
  <1>4. ASSUME NEW stale \in SUBSET Agents, ReleaseAgentTasks(stale) PROVE OwnerStep
    <2> DEFINE S == {t \in Tasks : \E a \in stale : HeldBy(task[t], AgentUser[a])}
    <2>1. \A t \in S : task'[t] = Released(task[t])
      BY <1>4 DEF ReleaseAgentTasks, Rewrite
    <2>2. \A t \in Tasks \ S : task'[t] = task[t]
      BY <1>4 DEF ReleaseAgentTasks, Rewrite
    <2>3. \A t \in S : Owner(task[t]) \in Users /\ Owner(task'[t]) = Free
      BY <1>0, <2>1, OwnerOfRow, OwnerOfWrite DEF HeldBy
    <2> HIDE DEF S
    <2> QED BY <2>2, <2>3, GiveBackStep DEF OwnerStep, S
  <1> QED BY <1>1, <1>2, <1>3, <1>4 DEF Job, SomeFallbackAssign

\* The passing of time is a stutter.
LEMMA TimeOwner ==
    ASSUME IInv, NEW t \in Tasks, TimePasses(t)
    PROVE  OwnerStep
  <1>0. task[t] \in Row BY DEF IInv
  <1>1. ASSUME NEW row, Update(t, row), Owner(row) = Owner(task[t])
        PROVE  OwnerStep
    <2>1. \A x \in Tasks : Owner(task'[x]) = Owner(task[x]) BY <1>1, UpdateRows
    <2> QED BY <2>1, KeepStep DEF OwnerStep
  <1>2. CASE TenMinutesPass(t) BY <1>0, <1>1, <1>2, ElapsedOwner DEF TenMinutesPass
  <1>3. CASE ClaimWindowEnds(t) BY <1>0, <1>1, <1>3, ElapsedOwner DEF ClaimWindowEnds
  <1>4. CASE InactivityWindowEnds(t)
    BY <1>0, <1>1, <1>4, ElapsedOwner DEF InactivityWindowEnds
  <1> QED BY <1>2, <1>3, <1>4 DEF TimePasses

\* The empty table is the abstract initial state.
LEMMA InitOwner == Init => Ownership!Init
  <1> SUFFICES ASSUME Init PROVE Ownership!Init
    OBVIOUS
  <1>1. ASSUME NEW t \in Tasks PROVE Owner(task[t]) = Free
    <2>1. PICK d \in Departments : task[t] = RowOf("absent", d, "manual")
      BY DEF Init
    <2> QED BY <2>1, SMT DEF Owner, RowOf
  <1> QED BY <1>1 DEF Ownership!Init

\* Every step is an abstract step or a stutter.
LEMMA NextOwner == IInv /\ [Next]_vars => [Ownership!Next]_owners
  <1> SUFFICES ASSUME IInv, [Next]_vars PROVE OwnerStep
    BY DEF OwnerStep
  <1>1. CASE Next BY <1>1, RequestOwner, JobOwner, TimeOwner DEF Next
  <1>2. CASE UNCHANGED vars BY <1>2 DEF vars, OwnerStep, owners
  <1> QED BY <1>1, <1>2

\* The handlers and jobs, run one at a time, keep the promise of TaskOwnership.
THEOREM Refinement == Spec => ImplementsOwnership
  <1>1. IInv /\ [Next]_vars => [Ownership!Next]_([t \in Tasks |-> Owner(task[t])])
    BY NextOwner DEF owners
  <1> QED BY <1>1, InitOwner, Soundness, PTL DEF Spec, ImplementsOwnership, Ownership!Spec
=============================================================================
