--------------------------- MODULE RunOnceProofs ---------------------------
(***************************************************************************)
(* TLAPS proofs about RunOnce: one worker at a time executes a job unless  *)
(* its key went while it was at it, whatever processes die and share a     *)
(* node name.                                                              *)
(*                                                                         *)
(* The argument: without an overrun the key exists for as long as anyone   *)
(* is between taking it and being done with it, so nobody takes it a       *)
(* second time; the value in the key plays no part.  An overrun ends when  *)
(* nobody is busy any more, and that is where the argument starts again,   *)
(* whatever keys have been deleted meanwhile.                              *)
(***************************************************************************)
EXTENDS RunOnce, TLAPS

\* An overrun lasts while somebody is busy.  Otherwise one process at most is,
\* and then the job's key exists.
Exclusive(j) ==
    /\ overrun[j] => Busy(j)
    /\ \A p, q \in Processes : ~overrun[j] /\ Active(p, j) /\ Active(q, j) => p = q
    /\ \A p \in Processes : ~overrun[j] /\ Active(p, j) => lock[j] # None

IInv == TypeOK /\ \A j \in Jobs : Exclusive(j)

----------------------------------------------------------------------------

\* What moving one process in one job leaves of pc.
LEMMA GotoEffect ==
    ASSUME TypeOK, NEW p \in Processes, NEW j \in Jobs, NEW label \in Labels,
           Goto(p, j, label)
    PROVE  /\ pc' \in [Processes -> [Jobs -> Labels]]
           /\ pc'[p][j] = label
           /\ \A q \in Processes, k \in Jobs : q # p \/ k # j => pc'[q][k] = pc[q][k]
  BY DEF TypeOK, Goto

\* What Remember makes of the history.
LEMMA Remembered ==
    ASSUME TypeOK, Remember
    PROVE  /\ overrun' \in [Jobs -> BOOLEAN]
           /\ \A j \in Jobs : overrun'[j] <=> overrun[j] /\ Busy(j)'
  BY DEF TypeOK, Remember, Busy, Active

\* A job that nobody new is busy with stays exclusive, if its key stays or the
\* last one, and only one, has left.
LEMMA Calmer ==
    ASSUME IInv, Remember, NEW k \in Jobs,
           \A q \in Processes : Active(q, k)' => Active(q, k),
           \/ lock'[k] = lock[k]
           \/ ~overrun[k] => \A q \in Processes : ~Active(q, k)'
    PROVE  Exclusive(k)'
  <1>1. overrun'[k] <=> overrun[k] /\ Busy(k)' BY Remembered DEF IInv
  <1>2. Exclusive(k) BY DEF IInv
  <1>3. CASE overrun[k] BY <1>1, <1>3 DEF Exclusive, Busy
  <1>4. CASE ~overrun[k] BY <1>1, <1>2, <1>4 DEF Exclusive
  <1> QED BY <1>3, <1>4

\* Nobody is busy at the start.
LEMMA InitSound == Init => IInv
  BY DEF Init, IInv, TypeOK, Labels, Exclusive, Active

\* Taking the key: it did not exist, so nobody was busy, or all were overrun.
LEMMA AcquireSound ==
    ASSUME IInv, NEW p \in Processes, NEW j \in Jobs, Acquire(p, j)
    PROVE  IInv'
  <1>1. /\ p \in up /\ pc[p][j] = "idle" /\ lock[j] = None
        /\ lock' = [lock EXCEPT ![j] = WORKER_ID[p]]
        /\ Goto(p, j, "running") /\ Remember /\ UNCHANGED up
    BY DEF Acquire
  <1>2. WORKER_ID[p] \in Hosts /\ WORKER_ID[p] # None
    BY WorkersAssumption, NoneAssumption
  <1>3. /\ pc' \in [Processes -> [Jobs -> Labels]]
        /\ pc'[p][j] = "running"
        /\ \A q \in Processes, k \in Jobs : q # p \/ k # j => pc'[q][k] = pc[q][k]
    BY <1>1, GotoEffect DEF IInv, Labels
  <1>4. TypeOK' BY <1>1, <1>2, <1>3, Remembered DEF IInv, TypeOK
  <1>5. Exclusive(j)'
    <2>1. Active(p, j)' BY <1>3 DEF Active
    <2>2. Busy(j)' BY <2>1 DEF Busy
    <2>3. overrun'[j] <=> overrun[j] BY <1>1, <2>2, Remembered DEF IInv
    <2>4. lock'[j] # None BY <1>1, <1>2 DEF IInv, TypeOK
    <2>5. \A q \in Processes : ~overrun[j] => ~Active(q, j)
      BY <1>1 DEF IInv, Exclusive
    <2>6. \A q \in Processes : ~overrun[j] /\ q # p => ~Active(q, j)'
      BY <1>3, <2>5 DEF Active
    <2> QED BY <2>2, <2>3, <2>4, <2>6 DEF Exclusive
  <1>6. ASSUME NEW k \in Jobs, k # j PROVE Exclusive(k)'
    <2>1. lock'[k] = lock[k] BY <1>1, <1>6 DEF IInv, TypeOK
    <2>2. \A q \in Processes : Active(q, k)' => Active(q, k) BY <1>3, <1>6 DEF Active
    <2> QED BY <1>1, <2>1, <2>2, Calmer
  <1> QED BY <1>4, <1>5, <1>6 DEF IInv

\* Going on, or giving the key up: nobody becomes busy, and without an overrun
\* the key only goes when the one busy process does.
LEMMA GoOnSound ==
    ASSUME IInv, NEW p \in Processes, NEW j \in Jobs,
           FinishRun(p, j) \/ CheckOwner(p, j) \/ DeleteLock(p, j)
    PROVE  IInv'
  <1>1. Active(p, j) /\ Remember /\ UNCHANGED up
    BY DEF FinishRun, CheckOwner, DeleteLock, Active
  <1>2. PICK label \in Labels : Goto(p, j, label) /\ (lock' = lock \/ label = "idle")
    BY DEF FinishRun, CheckOwner, DeleteLock, Labels
  <1>3. /\ lock' \in [Jobs -> Hosts \cup {None}]
        /\ \A k \in Jobs : k # j => lock'[k] = lock[k]
    BY DEF FinishRun, CheckOwner, DeleteLock, IInv, TypeOK
  <1>4. /\ pc' \in [Processes -> [Jobs -> Labels]]
        /\ pc'[p][j] = label
        /\ \A q \in Processes, k \in Jobs : q # p \/ k # j => pc'[q][k] = pc[q][k]
    BY <1>2, GotoEffect DEF IInv
  <1>5. TypeOK' BY <1>1, <1>3, <1>4, Remembered DEF IInv, TypeOK
  <1>6. \A q \in Processes, k \in Jobs : Active(q, k)' => Active(q, k)
    BY <1>1, <1>4 DEF Active
  <1>7. lock'[j] = lock[j] \/ (~overrun[j] => \A q \in Processes : ~Active(q, j)')
    <2>1. SUFFICES ASSUME label = "idle", ~overrun[j]
                   PROVE  \A q \in Processes : ~Active(q, j)'
      BY <1>2
    <2>2. \A q \in Processes : Active(q, j) => q = p BY <1>1, <2>1 DEF IInv, Exclusive
    <2> QED BY <1>4, <1>6, <2>1, <2>2 DEF Active
  <1>8. ASSUME NEW k \in Jobs PROVE Exclusive(k)'
    BY <1>1, <1>3, <1>6, <1>7, Calmer
  <1> QED BY <1>5, <1>8 DEF IInv

\* A key that goes while somebody is busy is an overrun; a process that dies is
\* not busy.
LEMMA AccidentSound ==
    ASSUME IInv,
           \/ \E j \in Jobs : Expire(j)
           \/ \E p \in Processes : Crash(p) \/ Restart(p)
    PROVE  IInv'
  <1>1. ASSUME NEW j \in Jobs, Expire(j) PROVE IInv'
    <2>1. /\ overrun' = [overrun EXCEPT ![j] = Busy(j)]
          /\ lock' = [lock EXCEPT ![j] = None] /\ UNCHANGED <<pc, up>>
      BY <1>1 DEF Expire
    <2>2. TypeOK' BY <2>1 DEF IInv, TypeOK, Busy
    <2>3. \A k \in Jobs : Busy(k)' <=> Busy(k) BY <2>1 DEF Busy, Active
    <2>4. ASSUME NEW k \in Jobs PROVE Exclusive(k)'
      <3>1. Exclusive(k) BY DEF IInv
      <3>2. CASE k = j
        <4>1. overrun'[k] <=> Busy(k)' BY <2>1, <2>3, <3>2 DEF IInv, TypeOK
        <4> QED BY <4>1 DEF Exclusive, Busy
      <3>3. CASE k # j
        <4>1. lock'[k] = lock[k] /\ overrun'[k] = overrun[k]
          BY <2>1, <3>3 DEF IInv, TypeOK
        <4> QED BY <2>1, <2>3, <3>1, <4>1 DEF Exclusive, Active
      <3> QED BY <3>2, <3>3
    <2> QED BY <2>2, <2>4 DEF IInv
  <1>2. ASSUME NEW p \in Processes, Crash(p) PROVE IInv'
    <2>1. /\ up' = up \ {p} /\ lock' = lock /\ Remember
          /\ pc' = [pc EXCEPT ![p] = [j \in Jobs |-> "idle"]]
      BY <1>2 DEF Crash
    <2>2. TypeOK' BY <2>1, Remembered DEF IInv, TypeOK, Labels
    <2>3. \A q \in Processes, k \in Jobs : pc'[q][k] \in {pc[q][k], "idle"}
      BY <2>1 DEF IInv, TypeOK
    <2>4. \A k \in Jobs : Exclusive(k)' BY <2>1, <2>3, Calmer DEF Active
    <2> QED BY <2>2, <2>4 DEF IInv
  <1>3. ASSUME NEW p \in Processes, Restart(p) PROVE IInv'
    BY <1>3 DEF Restart, IInv, TypeOK, Exclusive, Busy, Active
  <1> QED BY <1>1, <1>2, <1>3

\* Every step keeps the invariant, one lemma per kind of action.
LEMMA NextSound == IInv /\ [Next]_vars => IInv'
  <1> SUFFICES ASSUME IInv, [Next]_vars PROVE IInv' OBVIOUS
  <1>1. CASE UNCHANGED vars
    BY <1>1 DEF vars, IInv, TypeOK, Exclusive, Busy, Active
  <1>2. ASSUME NEW p \in Processes, NEW j \in Jobs,
               Acquire(p, j) \/ FinishRun(p, j) \/ Unlock(p, j)
        PROVE  IInv'
    BY <1>2, AcquireSound, GoOnSound DEF Unlock
  <1>3. CASE \/ \E j \in Jobs : Expire(j)
             \/ \E p \in Processes : Crash(p) \/ Restart(p)
    BY <1>3, AccidentSound
  <1> QED BY <1>1, <1>2, <1>3 DEF Next

\* The inductive invariant holds of every run of the schedulers.
THEOREM Soundness == Spec => []IInv
  BY InitSound, NextSound, PTL DEF Spec

\* The types of the keys and of the processes (every action).
THEOREM TypeCorrect == Spec => []TypeOK
  <1>1. IInv => TypeOK BY DEF IInv
  <1> QED BY <1>1, Soundness, PTL

\* Unless a key went while its job was at work, run_once lets one worker at a
\* time execute it, among any number of processes in any number of containers.
THEOREM MutualExclusion == Spec => []AtMostOneRuns
  <1>1. IInv => AtMostOneRuns BY DEF IInv, AtMostOneRuns, Exclusive, Active
  <1> QED BY <1>1, Soundness, PTL

----------------------------------------------------------------------------
(* run_once implements JobExclusion.                                       *)

\* If nobody new executes a job, runs have stopped.
LEMMA Stopped ==
    ASSUME IInv, Remember,
           \A j \in Jobs, p \in Processes : Active(p, j)' => Active(p, j),
           \A j \in Jobs, p \in Processes : pc'[p][j] = "running" => pc[p][j] = "running"
    PROVE  Exclusion!Next
  <1>1. /\ overrun' \in [Jobs -> BOOLEAN]
        /\ \A j \in Jobs : overrun'[j] <=> overrun[j] /\ Busy(j)'
    BY Remembered DEF IInv
  <1>2. Executing' \in [Jobs -> SUBSET Processes] BY DEF Executing
  <1>3. ASSUME NEW j \in Jobs
        PROVE  /\ Executing'[j] \subseteq Executing[j]
               /\ overrun'[j] # overrun[j] => overrun[j] /\ Executing'[j] = {}
    <2>1. Executing'[j] \subseteq Executing[j] BY DEF Executing
    <2>2. CASE Busy(j)' BY <1>1, <2>1, <2>2 DEF IInv, TypeOK
    <2>3. CASE ~Busy(j)'
      <3>1. Executing'[j] = {} BY <2>3 DEF Executing, Busy, Active
      <3> QED BY <1>1, <2>1, <3>1 DEF IInv, TypeOK
    <2> QED BY <2>2, <2>3
  <1> QED BY <1>1, <1>2, <1>3 DEF Exclusion!Next, Exclusion!Stop

\* Each step lets one worker into a job that nobody executes or that is overrun,
\* ends runs, or takes a key away under a run.
LEMMA ExclusionStep ==
    ASSUME IInv, [Next]_vars
    PROVE  Exclusion!Next \/ UNCHANGED <<Executing, overrun>>
  <1>1. ASSUME NEW p \in Processes, NEW j \in Jobs, Acquire(p, j) PROVE Exclusion!Next
    <2>1. /\ pc'[p][j] = "running" /\ pc' \in [Processes -> [Jobs -> Labels]]
          /\ \A q \in Processes, k \in Jobs : q # p \/ k # j => pc'[q][k] = pc[q][k]
      BY <1>1, GotoEffect DEF Acquire, IInv, Labels
    <2>2. Remember /\ lock[j] = None /\ pc[p][j] = "idle" BY <1>1 DEF Acquire
    <2>3. \A k \in Jobs : Busy(k) => Busy(k)'
      <3>1. \A q \in Processes, k \in Jobs : Active(q, k) => Active(q, k)'
        BY <2>1, <2>2 DEF Active
      <3> QED BY <3>1 DEF Busy
    <2>4. /\ overrun' \in [Jobs -> BOOLEAN]
          /\ \A k \in Jobs : overrun'[k] <=> overrun[k]
      BY <2>2, <2>3, Remembered DEF IInv, Exclusive
    <2>5. overrun' = overrun BY <2>4 DEF IInv, TypeOK
    <2>6. Executing[j] = {} \/ overrun[j]
      BY <2>2 DEF IInv, Exclusive, Executing, Active
    <2>7. {q \in Processes : pc'[q][j] = "running"}
             = {q \in Processes : pc[q][j] = "running"} \cup {p}
      BY <2>1
    <2>8. ASSUME NEW k \in Jobs, k # j
          PROVE  {q \in Processes : pc'[q][k] = "running"}
                    = {q \in Processes : pc[q][k] = "running"}
      BY <2>1, <2>8
    <2>9. Executing' = [Executing EXCEPT ![j] = @ \cup {p}] BY <2>7, <2>8 DEF Executing
    <2> QED BY <2>5, <2>6, <2>9 DEF Exclusion!Next, Exclusion!Start
  <1>2. ASSUME NEW p \in Processes, NEW j \in Jobs, FinishRun(p, j) \/ Unlock(p, j)
        PROVE  Exclusion!Next
    <2>1. PICK label \in Labels : Goto(p, j, label) /\ label # "running" /\ Remember
      BY <1>2 DEF FinishRun, Unlock, CheckOwner, DeleteLock, Labels
    <2>2. Active(p, j) BY <1>2 DEF FinishRun, Unlock, CheckOwner, DeleteLock, Active
    <2>3. /\ pc'[p][j] = label
          /\ \A q \in Processes, k \in Jobs : q # p \/ k # j => pc'[q][k] = pc[q][k]
      BY <2>1, GotoEffect DEF IInv
    <2> QED BY <2>1, <2>2, <2>3, Stopped DEF Active
  <1>3. ASSUME NEW j \in Jobs, Expire(j) PROVE Exclusion!Next
    <2>1. /\ overrun' = [overrun EXCEPT ![j] = Busy(j)] /\ pc' = pc
          /\ Busy(j) \in BOOLEAN
      BY <1>3 DEF Expire, Busy
    <2>2. Executing' = Executing BY <2>1 DEF Executing
    <2>3. CASE Busy(j)
      <3>1. overrun' = [overrun EXCEPT ![j] = TRUE] BY <2>1, <2>3
      <3> QED BY <2>2, <3>1 DEF Exclusion!Next, Exclusion!Overrun
    <2>4. CASE ~Busy(j)
      <3>1. overrun[j] = FALSE BY <2>4 DEF IInv, TypeOK, Exclusive
      <3>2. overrun' = overrun BY <2>1, <2>4, <3>1 DEF IInv, TypeOK
      <3>3. Executing \in [Jobs -> SUBSET Processes] BY DEF Executing
      <3>4. Exclusion!Stop BY <2>2, <3>2, <3>3 DEF Exclusion!Stop, IInv, TypeOK
      <3> QED BY <3>4 DEF Exclusion!Next
    <2> QED BY <2>3, <2>4
  <1>4. ASSUME NEW p \in Processes, Crash(p) PROVE Exclusion!Next
    <2>1. \A q \in Processes, k \in Jobs :
             pc'[q][k] = IF q = p THEN "idle" ELSE pc[q][k]
      BY <1>4 DEF Crash, IInv, TypeOK
    <2>2. Remember BY <1>4 DEF Crash
    <2> QED BY <2>1, <2>2, Stopped DEF Active
  <1>5. CASE UNCHANGED <<pc, overrun>> BY <1>5 DEF Executing
  <1> QED BY <1>1, <1>2, <1>3, <1>4, <1>5 DEF Next, Restart, vars

\* run_once is JobExclusion: a worker is let into a job only when nobody executes
\* it or its key went under a run, whatever keys are left behind or deleted by
\* another, and an overrun is over once nobody is busy.
THEOREM Implementation == Spec => ImplementsExclusion
  <1>1. Init => Exclusion!Init BY DEF Init, Exclusion!Init, Executing
  <1>2. IInv /\ [Next]_vars => [Exclusion!Next]_(Exclusion!vars)
    BY ExclusionStep DEF Exclusion!vars
  <1> QED BY <1>1, <1>2, Soundness, PTL DEF Spec, ImplementsExclusion, Exclusion!Spec
=============================================================================
