--------------------------- MODULE TaskRowProofs ---------------------------
(***************************************************************************)
(* Lemmas about the writes of TaskRow: each gives a row again, and a sound *)
(* row when its guard admits the one it had.  The record is wide, so the   *)
(* types go column by column.                                              *)
(***************************************************************************)
EXTENDS TaskRow, TLAPS

\* Writing one column with a value of its type gives a row again (one lemma
\* for each column the code writes).
LEMMA WriteStatus == \A row \in Row, v \in Status : [row EXCEPT !.status = v] \in Row
  BY SMT DEF Row

\* A user or NULL fits the column assignee_id.
LEMMA WriteAssignee == \A row \in Row, v \in Users \cup {None} : [row EXCEPT !.assignee = v] \in Row
  BY SMT DEF Row

\* A Boolean fits the abstract column "aged".
LEMMA WriteAged == \A row \in Row, v \in BOOLEAN : [row EXCEPT !.aged = v] \in Row
  BY SMT DEF Row

\* A deadline fits the column claim_timeout_at.
LEMMA WriteClaimTimeout == \A row \in Row, v \in Deadline : [row EXCEPT !.claim_timeout_at = v] \in Row
  BY SMT DEF Row

\* A deadline fits the column inactivity_timeout_at.
LEMMA WriteInactivity == \A row \in Row, v \in Deadline : [row EXCEPT !.inactivity_timeout_at = v] \in Row
  BY SMT DEF Row

\* A sequence number up to the bound fits the column progress_seq.
LEMMA WriteSeq == \A row \in Row, v \in 0..MaxSeq : [row EXCEPT !.progress_seq = v] \in Row
  BY SMT DEF Row

\* A percentage fits the column progress_pct.
LEMMA WritePct == \A row \in Row, v \in 0..100 : [row EXCEPT !.progress_pct = v] \in Row
  BY SMT DEF Row

\* A hash or NULL fits the column file_hash.
LEMMA WriteHash == \A row \in Row, v \in Hashes \cup {None} : [row EXCEPT !.file_hash = v] \in Row
  BY SMT DEF Row

\* A model or NULL fits the column override_model.
LEMMA WriteModel == \A row \in Row, v \in Models \cup {None} : [row EXCEPT !.override_model = v] \in Row
  BY SMT DEF Row

\* The values the writes use are of their types.
LEMMA Constants ==
    /\ "pending" \in Status /\ "completed" \in Status /\ "claimed" \in Status
    /\ "assigned_auto" \in Status /\ "processing" \in Status
    /\ "unset" \in Deadline /\ "running" \in Deadline /\ "due" \in Deadline
    /\ None \in Users \cup {None} /\ 100 \in 0..100
    /\ \A u \in Users : u \in Users \cup {None}
    /\ \A h \in Hashes : h \in Hashes \cup {None}
    /\ \A m \in Models : m \in Models \cup {None}
    /\ \A seq \in 1..MaxSeq : seq \in 0..MaxSeq
    /\ \A pct \in Pcts : pct \in 0..100
  BY MaxSeqAssumption, PctsAssumption, SMT DEF Status, Held, Deadline

\* What claim_task writes is a row.
LEMMA ClaimedRow ==
    ASSUME NEW row \in Row, NEW u \in Users
    PROVE  Claimed(row, u) \in Row
  <1> DEFINE r1 == [row EXCEPT !.status = "claimed"]
             r2 == [r1 EXCEPT !.assignee = u]
             r3 == [r2 EXCEPT !.claim_timeout_at = "running"]
  <1>1. r1 \in Row BY WriteStatus, Constants
  <1>2. r2 \in Row BY <1>1, WriteAssignee, Constants
  <1>3. r3 \in Row BY <1>2, WriteClaimTimeout, Constants
  <1>4. Claimed(row, u) = r3 BY SMT DEF Claimed
  <1> QED BY <1>3, <1>4

\* What auto_fallback_assign writes is a row.
LEMMA AutoAssignedRow ==
    ASSUME NEW row \in Row, NEW u \in Users
    PROVE  AutoAssigned(row, u) \in Row
  <1> DEFINE r1 == [row EXCEPT !.status = "assigned_auto"]
             r2 == [r1 EXCEPT !.assignee = u]
             r3 == [r2 EXCEPT !.claim_timeout_at = "running"]
  <1>1. r1 \in Row BY WriteStatus, Constants
  <1>2. r2 \in Row BY <1>1, WriteAssignee, Constants
  <1>3. r3 \in Row BY <1>2, WriteClaimTimeout, Constants
  <1>4. AutoAssigned(row, u) = r3 BY SMT DEF AutoAssigned
  <1> QED BY <1>3, <1>4

\* What start_task writes is a row.
LEMMA StartedRow ==
    ASSUME NEW row \in Row
    PROVE  Started(row) \in Row
  <1> DEFINE r1 == [row EXCEPT !.status = "processing"]
             r2 == [r1 EXCEPT !.inactivity_timeout_at = "running"]
             r3 == [r2 EXCEPT !.claim_timeout_at = "unset"]
  <1>1. r1 \in Row BY WriteStatus, Constants
  <1>2. r2 \in Row BY <1>1, WriteInactivity, Constants
  <1>3. r3 \in Row BY <1>2, WriteClaimTimeout, Constants
  <1>4. Started(row) = r3 BY SMT DEF Started
  <1> QED BY <1>3, <1>4

\* What report_progress writes is a row.
LEMMA ReportedRow ==
    ASSUME NEW row \in Row, NEW seq \in 1..MaxSeq, NEW pct \in 0..100
    PROVE  Reported(row, seq, pct) \in Row
  <1> DEFINE r1 == [row EXCEPT !.progress_seq = seq]
             r2 == [r1 EXCEPT !.progress_pct = pct]
             r3 == [r2 EXCEPT !.inactivity_timeout_at = "running"]
  <1>1. r1 \in Row BY WriteSeq, Constants
  <1>2. r2 \in Row BY <1>1, WritePct, Constants
  <1>3. r3 \in Row BY <1>2, WriteInactivity, Constants
  <1>4. Reported(row, seq, pct) = r3 BY SMT DEF Reported
  <1> QED BY <1>3, <1>4

\* What release_task, the claim timeout and a stale agent write is a row.
LEMMA ReleasedRow ==
    ASSUME NEW row \in Row
    PROVE  Released(row) \in Row
  <1> DEFINE r1 == [row EXCEPT !.status = "pending"]
             r2 == [r1 EXCEPT !.assignee = None]
             r3 == [r2 EXCEPT !.claim_timeout_at = "unset"]
  <1>1. r1 \in Row BY WriteStatus, Constants
  <1>2. r2 \in Row BY <1>1, WriteAssignee, Constants
  <1>3. r3 \in Row BY <1>2, WriteClaimTimeout, Constants
  <1>4. Released(row) = r3 BY SMT DEF Released
  <1> QED BY <1>3, <1>4

\* What the inactivity timeout writes is a row.
LEMMA ReclaimedRow ==
    ASSUME NEW row \in Row
    PROVE  Reclaimed(row) \in Row
  <1> DEFINE r1 == [row EXCEPT !.status = "pending"]
             r2 == [r1 EXCEPT !.assignee = None]
             r3 == [r2 EXCEPT !.inactivity_timeout_at = "unset"]
  <1>1. r1 \in Row BY WriteStatus, Constants
  <1>2. r2 \in Row BY <1>1, WriteAssignee, Constants
  <1>3. r3 \in Row BY <1>2, WriteInactivity, Constants
  <1>4. Reclaimed(row) = r3 BY SMT DEF Reclaimed
  <1> QED BY <1>3, <1>4

\* What submit_result writes is a row.
LEMMA SubmittedRow ==
    ASSUME NEW row \in Row, NEW h \in Hashes, NEW m \in Models \cup {None}
    PROVE  Submitted(row, h, m) \in Row
  <1> DEFINE model == IF m = None THEN row.override_model ELSE m
             r1 == [row EXCEPT !.status = "completed"]
             r2 == [r1 EXCEPT !.file_hash = h]
             r3 == [r2 EXCEPT !.progress_pct = 100]
             r4 == [r3 EXCEPT !.override_model = model]
  <1>1. r1 \in Row BY WriteStatus, Constants
  <1>2. r2 \in Row BY <1>1, WriteHash, Constants
  <1>3. r3 \in Row BY <1>2, WritePct, Constants
  <1>4. model \in Models \cup {None} BY SMT DEF Row
  <1>5. Submitted(row, h, m) = r4 BY SMT DEF Submitted
  <1> HIDE DEF model, r3
  <1>6. r4 \in Row BY <1>3, <1>4, WriteModel
  <1> QED BY <1>5, <1>6

\* What override_model writes is a row.
LEMMA OverriddenRow ==
    ASSUME NEW row \in Row, NEW m \in Models
    PROVE  Overridden(row, m) \in Row
  BY WriteModel, Constants DEF Overridden

----------------------------------------------------------------------------
(* Sound rows.                                                             *)

\* The inductive invariant of one row.  The claim deadline is unset outside
\* the states it belongs to: without this a start or a release of a row
\* could leave an old deadline behind.
SoundRow(row) ==
    /\ row \in Row
    /\ OwnedRow(row)
    /\ ArmedRow(row)
    /\ row.status \in {"absent", "pending", "processing"} => row.claim_timeout_at = "unset"
    /\ EligibleRow(row)
    /\ (row.status = "completed") <=> (row.file_hash # None)

\* What a step may do to one row: the row-wise form of the action properties.
Lawful(row, new) ==
    /\ row.status \in Held /\ new.status \in Held => new.assignee = row.assignee
    /\ row.status = "completed" => new.status = "completed"
    /\ row.claim_timeout_at = "due" => new.claim_timeout_at # "running"
    /\ Exists(row) => new.progress_seq >= row.progress_seq

GoodStep(row, new) == SoundRow(new) /\ Lawful(row, new)

----------------------------------------------------------------------------
(* Each write, on a row its guard admits, gives a sound row.               *)

\* The row a creation inserts, and the rows of the initial table.
LEMMA NewRowSound ==
    ASSUME NEW d \in Departments, NEW s \in Strategies, NEW st \in {"absent", "pending"}
    PROVE  SoundRow(RowOf(st, d, s))
  BY MaxSeqAssumption, SMT
  DEF SoundRow, RowOf, Row, OwnedRow, ArmedRow, EligibleRow, Status, Held,
      Deadline, Strategies

\* claim_task, from the pool, is a good step of a row.
LEMMA ClaimedSound ==
    ASSUME NEW row, SoundRow(row), Claimable(row), NEW u \in Users
    PROVE  GoodStep(row, Claimed(row, u))
  <1>1. row \in Row BY DEF SoundRow
  <1>2. Claimed(row, u) \in Row BY <1>1, ClaimedRow
  <1> QED BY <1>1, <1>2, SMT
      DEF GoodStep, Lawful, Exists, SoundRow, Claimable, Claimed, Row,
          OwnedRow, ArmedRow, EligibleRow, Held

\* auto_fallback_assign, on a row it selects, is a good step.
LEMMA AutoAssignedSound ==
    ASSUME NEW row, SoundRow(row), FallbackReady(row), NEW u \in Users
    PROVE  GoodStep(row, AutoAssigned(row, u))
  <1>1. row \in Row BY DEF SoundRow
  <1>2. AutoAssigned(row, u) \in Row BY <1>1, AutoAssignedRow
  <1> QED BY <1>1, <1>2, SMT
      DEF GoodStep, Lawful, Exists, SoundRow, FallbackReady, AutoAssigned, Row,
          OwnedRow, ArmedRow, EligibleRow, Held

\* start_task, on a claimed or assigned row, is a good step.
LEMMA StartedSound ==
    ASSUME NEW row, SoundRow(row), row.status \in {"claimed", "assigned_auto"}
    PROVE  GoodStep(row, Started(row))
  <1>1. row \in Row BY DEF SoundRow
  <1>2. Started(row) \in Row BY <1>1, StartedRow
  <1> QED BY <1>1, <1>2, SMT
      DEF GoodStep, Lawful, Exists, SoundRow, Started, Row,
          OwnedRow, ArmedRow, EligibleRow, Held

\* report_progress with a fresh sequence number is a good step.
LEMMA ReportedSound ==
    ASSUME NEW row, SoundRow(row), NEW seq \in 1..MaxSeq, NEW pct \in Pcts,
           FreshReport(row, seq)
    PROVE  GoodStep(row, Reported(row, seq, pct))
  <1>1. row \in Row BY DEF SoundRow
  <1>2. Reported(row, seq, pct) \in Row BY <1>1, ReportedRow, Constants
  <1> QED BY <1>1, <1>2, SMT
      DEF GoodStep, Lawful, Exists, SoundRow, FreshReport, Reported, Row,
          OwnedRow, ArmedRow, EligibleRow, Held

\* submit_result is a good step of any existing row.
LEMMA SubmittedSound ==
    ASSUME NEW row, SoundRow(row), NEW h \in Hashes, NEW m \in Models \cup {None}
    PROVE  GoodStep(row, Submitted(row, h, m))
  <1>1. row \in Row BY DEF SoundRow
  <1>2. Submitted(row, h, m) \in Row BY <1>1, SubmittedRow
  <1> QED BY <1>1, <1>2, NoneAssumption, SMT
      DEF GoodStep, Lawful, Exists, SoundRow, Submitted, Row,
          OwnedRow, ArmedRow, EligibleRow, Held

\* Giving a held row back is a good step, whoever does it.
LEMMA ReleasedSound ==
    ASSUME NEW row, SoundRow(row), row.status \in Held
    PROVE  GoodStep(row, Released(row))
  <1>1. row \in Row BY DEF SoundRow
  <1>2. Released(row) \in Row BY <1>1, ReleasedRow
  <1> QED BY <1>1, <1>2, SMT
      DEF GoodStep, Lawful, Exists, SoundRow, Released, Row,
          OwnedRow, ArmedRow, EligibleRow, Held

\* The inactivity timeout, on a row it selects, is a good step.
LEMMA ReclaimedSound ==
    ASSUME NEW row, SoundRow(row), WorkOverdue(row)
    PROVE  GoodStep(row, Reclaimed(row))
  <1>1. row \in Row BY DEF SoundRow
  <1>2. Reclaimed(row) \in Row BY <1>1, ReclaimedRow
  <1> QED BY <1>1, <1>2, SMT
      DEF GoodStep, Lawful, Exists, SoundRow, WorkOverdue, Reclaimed, Row,
          OwnedRow, ArmedRow, EligibleRow, Held

\* override_model is a good step.
LEMMA OverriddenSound ==
    ASSUME NEW row, SoundRow(row), NEW m \in Models
    PROVE  GoodStep(row, Overridden(row, m))
  <1>1. row \in Row BY DEF SoundRow
  <1>2. Overridden(row, m) \in Row BY <1>1, OverriddenRow
  <1> QED BY <1>1, <1>2, SMT
      DEF GoodStep, Lawful, Exists, SoundRow, Overridden, Row,
          OwnedRow, ArmedRow, EligibleRow, Held

\* The passing of time ages a row or makes a running deadline due.
LEMMA ElapsedSound ==
    ASSUME NEW row, SoundRow(row)
    PROVE  /\ GoodStep(row, [row EXCEPT !.aged = TRUE])
           /\ row.claim_timeout_at = "running" =>
                 GoodStep(row, [row EXCEPT !.claim_timeout_at = "due"])
           /\ row.inactivity_timeout_at = "running" =>
                 GoodStep(row, [row EXCEPT !.inactivity_timeout_at = "due"])
  <1>1. row \in Row BY DEF SoundRow
  <1>2. [row EXCEPT !.aged = TRUE] \in Row BY <1>1, WriteAged
  <1>3. [row EXCEPT !.claim_timeout_at = "due"] \in Row
    BY <1>1, WriteClaimTimeout, Constants
  <1>4. [row EXCEPT !.inactivity_timeout_at = "due"] \in Row
    BY <1>1, WriteInactivity, Constants
  <1> QED BY <1>1, <1>2, <1>3, <1>4, SMT
      DEF GoodStep, Lawful, Exists, SoundRow, Row,
          OwnedRow, ArmedRow, EligibleRow, Held

\* A row that does not change changes lawfully.
LEMMA UnchangedGood ==
    ASSUME NEW row, SoundRow(row)
    PROVE  GoodStep(row, row)
  BY SMT DEF GoodStep, Lawful, SoundRow, Row
=============================================================================
