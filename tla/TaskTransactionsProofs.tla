---------------------- MODULE TaskTransactionsProofs ----------------------
(***************************************************************************)
(* TLAPS proofs about TaskTransactions: what every interleaving of         *)
(* requests, jobs, expiring locks and dying workers leaves true.           *)
(*                                                                         *)
(* A session writes columns it decided on long ago.  The argument is that  *)
(* the table only moves forward in the columns its decision rests on       *)
(* (Follows), and that the columns one UPDATE lays over a row belong       *)
(* together: whoever clears a deadline also writes the status that does    *)
(* not need it.                                                            *)
(***************************************************************************)
EXTENDS TaskTransactions, TaskRowProofs

\* What holds of every committed row.
SafeRow(row) ==
    /\ ArmedRow(row)
    /\ EligibleRow(row)
    /\ row.status = "completed" => row.file_hash # None
    /\ row.status # "absent"

\* A later state of the row whose earlier state is "old".
Follows(old, row) ==
    /\ row.strategy = old.strategy
    /\ old.aged => row.aged
    /\ old.file_hash # None => row.file_hash # None

\* The rows a session has decided to change are still as decided, in its
\* memory, and the table has only moved on since.
Decided(s) ==
    \A t \in batch[s] \cup todo[s] :
        /\ pc[s] # "idle"
        /\ Selects(op[s], snap[s][t])
        /\ Follows(snap[s][t], task[t])

\* A session that has not read yet has nothing to write; only claims wait
\* for the Redis lock.
InOrder(s) ==
    /\ pc[s] \in {"idle", "locking", "asking", "reading"} => batch[s] \cup todo[s] = {}
    /\ pc[s] = "locking" => op[s].kind = "claim"

IInv == /\ TypeOK
        /\ \A t \in Tasks : SafeRow(task[t])
        /\ \A s \in Sessions : Decided(s) /\ InOrder(s)

----------------------------------------------------------------------------
(* One row.                                                                *)

\* What a session leaves in memory is a row again.
LEMMA WrittenRow ==
    ASSUME NEW o \in Requests \cup Jobs, NEW old \in Row
    PROVE  Written(o, old) \in Row
  <1>1. CASE o.kind = "claim"
    <2>1. o.user \in Users BY <1>1, SMT DEF Requests, Jobs
    <2> QED BY <1>1, <2>1, ClaimedRow DEF Written
  <1>2. CASE o.kind = "start" BY <1>2, StartedRow DEF Written
  <1>3. CASE o.kind = "progress"
    <2>1. o.seq \in 1..MaxSeq /\ o.pct \in Pcts BY <1>3, SMT DEF Requests, Jobs
    <2> QED BY <1>3, <2>1, ReportedRow, PctsAssumption DEF Written
  <1>4. CASE o.kind = "submit"
    <2>1. o.hash \in Hashes /\ o.model \in Models \cup {None}
      BY <1>4, SMT DEF Requests, Jobs
    <2> QED BY <1>4, <2>1, SubmittedRow DEF Written
  <1>5. CASE o.kind = "override"
    <2>1. o.model \in Models BY <1>5, SMT DEF Requests, Jobs
    <2> QED BY <1>5, <2>1, OverriddenRow DEF Written
  <1>6. CASE o.kind = "inactivity" BY <1>6, ReclaimedRow DEF Written
  <1>7. CASE o.kind = "fallback"
    <2>1. o.first \in [Departments -> Agents] BY <1>7, SMT DEF Requests, Jobs
    <2>2. old.department \in Departments BY SMT DEF Row
    <2>3. AgentUser[o.first[old.department]] \in Users
      BY <2>1, <2>2, AgentUserAssumption
    <2> QED BY <1>7, <2>3, AutoAssignedRow DEF Written
  <1>8. CASE o.kind \notin {"claim", "start", "progress", "submit", "override",
                           "inactivity", "fallback"}
    BY <1>8, ReleasedRow DEF Written
  <1> QED BY <1>1, <1>2, <1>3, <1>4, <1>5, <1>6, <1>7, <1>8

\* Laying columns of one row over another gives a row.
LEMMA OverlaidRow ==
    ASSUME NEW o \in Requests \cup Jobs, NEW old \in Row, NEW row \in Row
    PROVE  Overlaid(o, old, row) \in Row
  <1> DEFINE new == Written(o, old)
  <1>1. new \in Row BY WrittenRow
  <1> HIDE DEF new
  <1>2. [c \in DOMAIN row |-> IF new[c] # old[c] \/ c \in Renews(o)
                             THEN new[c] ELSE row[c]] \in Row
    BY <1>1, SMT DEF Row
  <1> QED BY <1>2 DEF Overlaid, new

\* The columns of an overlaid row that matter here, one by one: "w" is what
\* the session wrote in memory.
LEMMA OverlaidColumns ==
    ASSUME NEW o, NEW old \in Row, NEW row \in Row, NEW w, w = Written(o, old),
           NEW new, new = Overlaid(o, old, row)
    PROVE  /\ Renews(o) \cap {"status", "strategy", "aged", "file_hash"} = {} =>
                 /\ new.status = IF w.status # old.status THEN w.status ELSE row.status
                 /\ w.strategy = old.strategy => new.strategy = row.strategy
                 /\ w.aged = old.aged => new.aged = row.aged
                 /\ new.file_hash = IF w.file_hash # old.file_hash THEN w.file_hash
                                                                 ELSE row.file_hash
           /\ "claim_timeout_at" \in Renews(o) => new.claim_timeout_at = w.claim_timeout_at
           /\ /\ "claim_timeout_at" \notin Renews(o)
              /\ w.claim_timeout_at = old.claim_timeout_at
              => new.claim_timeout_at = row.claim_timeout_at
           /\ "inactivity_timeout_at" \in Renews(o) =>
                 new.inactivity_timeout_at = w.inactivity_timeout_at
           /\ /\ "inactivity_timeout_at" \notin Renews(o)
              /\ w.inactivity_timeout_at = old.inactivity_timeout_at
              => new.inactivity_timeout_at = row.inactivity_timeout_at
  <1>1. DOMAIN row = {"status", "assignee", "department", "strategy", "aged",
                      "claim_timeout_at", "inactivity_timeout_at", "progress_seq",
                      "progress_pct", "file_hash", "override_model"}
    BY SMT DEF Row
  <1>2. \A c \in DOMAIN row : new[c] = IF w[c] # old[c] \/ c \in Renews(o)
                                       THEN w[c] ELSE row[c]
    BY DEF Overlaid
  <1> QED BY <1>1, <1>2, SMT

\* Whatever a session had read, its UPDATE leaves a safe row safe, and never
\* takes back the strategy, the age or the hash.
LEMMA OverlaidSafe ==
    ASSUME NEW o \in Requests \cup Jobs, NEW old \in Row, NEW row \in Row,
           Selects(o, old), Follows(old, row), SafeRow(row)
    PROVE  SafeRow(Overlaid(o, old, row)) /\ Follows(row, Overlaid(o, old, row))
  <1> DEFINE w == Written(o, old)
             new == Overlaid(o, old, row)
  <1>0. w \in Row /\ new \in Row BY WrittenRow, OverlaidRow
  <1>c. /\ Renews(o) \cap {"status", "strategy", "aged", "file_hash"} = {} =>
              /\ new.status = IF w.status # old.status THEN w.status ELSE row.status
              /\ w.strategy = old.strategy => new.strategy = row.strategy
              /\ w.aged = old.aged => new.aged = row.aged
              /\ new.file_hash = IF w.file_hash # old.file_hash THEN w.file_hash
                                                              ELSE row.file_hash
        /\ "claim_timeout_at" \in Renews(o) => new.claim_timeout_at = w.claim_timeout_at
        /\ /\ "claim_timeout_at" \notin Renews(o)
           /\ w.claim_timeout_at = old.claim_timeout_at
           => new.claim_timeout_at = row.claim_timeout_at
        /\ "inactivity_timeout_at" \in Renews(o) =>
              new.inactivity_timeout_at = w.inactivity_timeout_at
        /\ /\ "inactivity_timeout_at" \notin Renews(o)
           /\ w.inactivity_timeout_at = old.inactivity_timeout_at
           => new.inactivity_timeout_at = row.inactivity_timeout_at
    BY OverlaidColumns
  <1> HIDE DEF w, new
  <1>1. CASE o.kind = "claim"
    <2>1. w = Claimed(old, o.user) /\ Renews(o) = {"claim_timeout_at"}
      BY <1>1, SMT DEF w, Written, Renews
    <2>2. old.status = "pending"
      BY <1>1, SMT DEF Selects, Claimable
    <2>3. w.strategy = old.strategy /\ w.aged = old.aged
          /\ w.status = "claimed" /\ w.claim_timeout_at = "running"
          /\ w.file_hash = old.file_hash
      BY <2>1, SMT DEF Claimed, Row
    <2>4. new.strategy = row.strategy /\ new.aged = row.aged
          /\ new.status = "claimed" /\ new.claim_timeout_at = "running"
          /\ new.file_hash = row.file_hash
      BY <1>c, <2>1, <2>2, <2>3, SMT
    <2> QED BY <2>4, SMT DEF SafeRow, Follows, ArmedRow, EligibleRow, new
  <1>2. CASE o.kind = "start"
    <2>1. w = Started(old) /\ Renews(o) = {"inactivity_timeout_at"}
      BY <1>2, SMT DEF w, Written, Renews
    <2>2. old.status \in {"claimed", "assigned_auto"}
      BY <1>2, SMT DEF Selects, Startable
    <2>3. w.strategy = old.strategy /\ w.aged = old.aged
          /\ w.status = "processing" /\ w.inactivity_timeout_at = "running"
          /\ w.file_hash = old.file_hash
      BY <2>1, SMT DEF Started, Row
    <2>4. new.strategy = row.strategy /\ new.aged = row.aged
          /\ new.status = "processing" /\ new.inactivity_timeout_at = "running"
          /\ new.file_hash = row.file_hash
      BY <1>c, <2>1, <2>2, <2>3, SMT
    <2> QED BY <2>4, SMT DEF SafeRow, Follows, ArmedRow, EligibleRow, new
  <1>3. CASE o.kind = "progress"
    <2>1. w = Reported(old, o.seq, o.pct) /\ Renews(o) = {"inactivity_timeout_at"}
      BY <1>3, SMT DEF w, Written, Renews
    <2>3. w.strategy = old.strategy /\ w.aged = old.aged
          /\ w.status = old.status /\ w.inactivity_timeout_at = "running"
          /\ w.claim_timeout_at = old.claim_timeout_at /\ w.file_hash = old.file_hash
      BY <2>1, SMT DEF Reported, Row
    <2>4. new.strategy = row.strategy /\ new.aged = row.aged
          /\ new.status = row.status /\ new.inactivity_timeout_at = "running"
          /\ new.claim_timeout_at = row.claim_timeout_at /\ new.file_hash = row.file_hash
      BY <1>c, <2>1, <2>3, SMT
    <2> QED BY <2>4, SMT DEF SafeRow, Follows, ArmedRow, EligibleRow, new
  <1>4. CASE o.kind = "submit"
    <2>1. w = Submitted(old, o.hash, o.model) /\ Renews(o) = {}
      BY <1>4, SMT DEF w, Written, Renews
    <2>2. o.hash # None
      BY <1>4, NoneAssumption, SMT DEF Requests, Jobs
    <2>3. w.strategy = old.strategy /\ w.aged = old.aged
          /\ w.status = "completed" /\ w.file_hash = o.hash
          /\ w.claim_timeout_at = old.claim_timeout_at
          /\ w.inactivity_timeout_at = old.inactivity_timeout_at
      BY <2>1, SMT DEF Submitted, Row
    <2>4. new.strategy = row.strategy /\ new.aged = row.aged
          /\ new.status \in {"completed", row.status} /\ new.file_hash # None
          /\ new.claim_timeout_at = row.claim_timeout_at
          /\ new.inactivity_timeout_at = row.inactivity_timeout_at
      BY <1>c, <2>1, <2>2, <2>3, SMT DEF Follows
    <2> QED BY <2>4, SMT DEF SafeRow, Follows, ArmedRow, EligibleRow, new
  <1>5. CASE o.kind \in {"release", "claim_timeouts", "stale"}
    <2>1. w = Released(old) /\ Renews(o) = {}
      BY <1>5, SMT DEF w, Written, Renews
    <2>2. old.status \in Held
      <3>1. CASE o.kind = "release" BY <3>1, SMT DEF Selects, Releasable, Held
      <3>2. CASE o.kind = "claim_timeouts" BY <3>2, SMT DEF Selects, ClaimOverdue, Held
      <3>3. CASE o.kind = "stale" BY <3>3, SMT DEF Selects, HeldBy
      <3> QED BY <1>5, <3>1, <3>2, <3>3
    <2>3. w.strategy = old.strategy /\ w.aged = old.aged
          /\ w.status = "pending" /\ w.file_hash = old.file_hash
      BY <2>1, SMT DEF Released, Row
    <2>4. new.strategy = row.strategy /\ new.aged = row.aged
          /\ new.status = "pending" /\ new.file_hash = row.file_hash
      BY <1>c, <2>1, <2>2, <2>3, SMT DEF Held
    <2> QED BY <2>4, SMT DEF SafeRow, Follows, ArmedRow, EligibleRow, new
  <1>6. CASE o.kind = "override"
    <2>1. w = Overridden(old, o.model) /\ Renews(o) = {}
      BY <1>6, SMT DEF w, Written, Renews
    <2>3. w.strategy = old.strategy /\ w.aged = old.aged
          /\ w.status = old.status /\ w.file_hash = old.file_hash
          /\ w.claim_timeout_at = old.claim_timeout_at
          /\ w.inactivity_timeout_at = old.inactivity_timeout_at
      BY <2>1, SMT DEF Overridden, Row
    <2>4. new.strategy = row.strategy /\ new.aged = row.aged
          /\ new.status = row.status /\ new.file_hash = row.file_hash
          /\ new.claim_timeout_at = row.claim_timeout_at
          /\ new.inactivity_timeout_at = row.inactivity_timeout_at
      BY <1>c, <2>1, <2>3, SMT
    <2> QED BY <2>4, SMT DEF SafeRow, Follows, ArmedRow, EligibleRow, new
  <1>7. CASE o.kind = "inactivity"
    <2>1. w = Reclaimed(old) /\ Renews(o) = {}
      BY <1>7, SMT DEF w, Written, Renews
    <2>2. old.status = "processing"
      BY <1>7, SMT DEF Selects, WorkOverdue
    <2>3. w.strategy = old.strategy /\ w.aged = old.aged
          /\ w.status = "pending" /\ w.file_hash = old.file_hash
      BY <2>1, SMT DEF Reclaimed, Row
    <2>4. new.strategy = row.strategy /\ new.aged = row.aged
          /\ new.status = "pending" /\ new.file_hash = row.file_hash
      BY <1>c, <2>1, <2>2, <2>3, SMT
    <2> QED BY <2>4, SMT DEF SafeRow, Follows, ArmedRow, EligibleRow, new
  <1>8. CASE o.kind = "fallback"
    <2>1. w = AutoAssigned(old, AgentUser[o.first[old.department]]) /\ Renews(o) = {"claim_timeout_at"}
      BY <1>8, SMT DEF w, Written, Renews
    <2>2. old.status = "pending" /\ old.strategy \in AutoStrategies /\ old.aged
      BY <1>8, SMT DEF Selects, FallbackReady
    <2>3. w.strategy = old.strategy /\ w.aged = old.aged
          /\ w.status = "assigned_auto" /\ w.claim_timeout_at = "running"
          /\ w.file_hash = old.file_hash
      BY <2>1, SMT DEF AutoAssigned, Row
    <2>4. new.strategy = row.strategy /\ new.aged = row.aged
          /\ new.status = "assigned_auto" /\ new.claim_timeout_at = "running"
          /\ new.file_hash = row.file_hash
      BY <1>c, <2>1, <2>2, <2>3, SMT
    <2> QED BY <2>2, <2>4, SMT DEF SafeRow, Follows, ArmedRow, EligibleRow, new
  <1>9. o.kind \in {"claim", "start", "progress", "submit", "release", "override",
                    "claim_timeouts", "stale", "inactivity", "fallback"}
    BY SMT DEF Requests, Jobs
  <1> QED BY <1>1, <1>2, <1>3, <1>4, <1>5, <1>6, <1>7, <1>8, <1>9

\* Time only ages a row or makes a running deadline due.
LEMMA ElapsedSafe ==
    ASSUME NEW row \in Row, SafeRow(row), NEW new,
           \/ new = [row EXCEPT !.aged = TRUE]
           \/ new = [row EXCEPT !.claim_timeout_at = "due"]
           \/ new = [row EXCEPT !.inactivity_timeout_at = "due"]
    PROVE  new \in Row /\ SafeRow(new) /\ Follows(row, new)
  <1>1. CASE new = [row EXCEPT !.aged = TRUE]
    <2>1. new \in Row BY <1>1, WriteAged
    <2> QED BY <1>1, <2>1, SMT DEF SafeRow, Follows, ArmedRow, EligibleRow, Row
  <1>2. CASE new = [row EXCEPT !.claim_timeout_at = "due"]
    <2>1. new \in Row BY <1>2, WriteClaimTimeout, Constants
    <2> QED BY <1>2, <2>1, SMT DEF SafeRow, Follows, ArmedRow, EligibleRow, Row
  <1>3. CASE new = [row EXCEPT !.inactivity_timeout_at = "due"]
    <2>1. new \in Row BY <1>3, WriteInactivity, Constants
    <2> QED BY <1>3, <2>1, SMT DEF SafeRow, Follows, ArmedRow, EligibleRow, Row
  <1> QED BY <1>1, <1>2, <1>3

\* A later state of a later state is a later state.
LEMMA FollowsTransitive ==
    ASSUME NEW r1, NEW r2, NEW r3, Follows(r1, r2), Follows(r2, r3)
    PROVE  Follows(r1, r3)
  BY DEF Follows

\* Every row follows itself.
LEMMA FollowsReflexive == ASSUME NEW row PROVE Follows(row, row)
  BY DEF Follows

----------------------------------------------------------------------------
(* A row nobody has written since it was read.                             *)

\* The kinds of requests and jobs are the ones Selects and Written list.
LEMMA KindsOfAll == ASSUME NEW o \in Requests \cup Jobs PROVE o.kind \in AllKinds
  BY SMT DEF Requests, Jobs, AllKinds, RequestKinds, JobKinds

\* What a session decided to do to a row it would still do.
LEMMA StillSelected ==
    ASSUME NEW o \in Requests \cup Jobs, NEW old \in Row, NEW row \in Row,
           Selects(o, old), OnlyAged(old, row)
    PROVE  Selects(o, row)
  <1>1. /\ row.status = old.status /\ row.assignee = old.assignee
        /\ row.strategy = old.strategy /\ row.progress_seq = old.progress_seq
        /\ row.file_hash = old.file_hash
        /\ old.aged => row.aged
        /\ old.claim_timeout_at = "due" => row.claim_timeout_at = "due"
        /\ old.inactivity_timeout_at = "due" => row.inactivity_timeout_at = "due"
    BY SMT DEF OnlyAged, Row
  <1>2. CASE o.kind = "claim" BY <1>1, <1>2, SMT DEF Selects, Claimable
  <1>3. CASE o.kind = "start" BY <1>1, <1>3, SMT DEF Selects, Startable, MayWorkOn
  <1>4. CASE o.kind = "progress" BY <1>1, <1>4, SMT DEF Selects, FreshReport, Exists
  <1>5. CASE o.kind = "submit"
    BY <1>1, <1>5, SMT DEF Selects, Submittable, Resubmitted, MayWorkOn, Exists
  <1>6. CASE o.kind = "release" BY <1>1, <1>6, SMT DEF Selects, Releasable, MayManage
  <1>7. CASE o.kind = "override" BY <1>1, <1>7, SMT DEF Selects, Exists, MayManage
  <1>8. CASE o.kind = "claim_timeouts" BY <1>1, <1>8, SMT DEF Selects, ClaimOverdue
  <1>9. CASE o.kind = "inactivity" BY <1>1, <1>9, SMT DEF Selects, WorkOverdue
  <1>10. CASE o.kind = "fallback" BY <1>1, <1>10, SMT DEF Selects, FallbackReady
  <1>11. CASE o.kind = "stale" BY <1>1, <1>11, SMT DEF Selects, HeldBy
  <1> QED BY KindsOfAll, <1>2, <1>3, <1>4, <1>5, <1>6, <1>7, <1>8, <1>9, <1>10, <1>11
          DEF AllKinds, RequestKinds, JobKinds

\* The columns of a row, and the two that time moves.
Columns == {"status", "assignee", "department", "strategy", "aged",
            "claim_timeout_at", "inactivity_timeout_at", "progress_seq",
            "progress_pct", "file_hash", "override_model"}
Clocks == {"claim_timeout_at", "inactivity_timeout_at"}

\* A write to the columns C of the row as it was read is the same write to the
\* row as it is.
LEMMA OverlaidAsWritten ==
    ASSUME NEW o \in Requests \cup Jobs, NEW old \in Row, NEW row \in Row, OnlyAged(old, row),
           NEW w, w = Written(o, old), NEW v, v \in Row,
           NEW C \in SUBSET Columns, "aged" \notin C, Renews(o) \subseteq C,
           \A c \in Columns \ C : w[c] = old[c] /\ v[c] = row[c],
           \A c \in C : w[c] = v[c],
           \A c \in (C \cap Clocks) \ Renews(o) : w[c] = "unset"
    PROVE  Overlaid(o, old, row) = v
  <1>1. DOMAIN row = Columns /\ DOMAIN v = Columns BY SMT DEF Row, Columns
  <1>2. v = [c \in Columns |-> v[c]] BY SMT DEF Row, Columns
  <1>3. ASSUME NEW c \in Columns
        PROVE  v[c] = IF w[c] # old[c] \/ c \in Renews(o) THEN w[c] ELSE row[c]
    <2>1. CASE c \notin C BY <2>1
    <2>2. CASE c \in C /\ (w[c] # old[c] \/ c \in Renews(o)) BY <2>2
    <2>3. CASE c \in C /\ w[c] = old[c] /\ c \notin Renews(o) /\ c \in Clocks
      <3>1. row[c] = old[c] \/ old[c] = "running" BY <2>3 DEF OnlyAged, Clocks
      <3> QED BY <2>3, <3>1
    <2>4. CASE c \in C /\ w[c] = old[c] /\ c \notin Renews(o) /\ c \notin Clocks
      <3>1. row[c] = old[c] BY <1>1, <2>4 DEF OnlyAged, Clocks
      <3> QED BY <2>4, <3>1
    <2> QED BY <2>1, <2>2, <2>3, <2>4
  <1>4. Overlaid(o, old, row) = [c \in Columns |-> IF w[c] # old[c] \/ c \in Renews(o)
                                                 THEN w[c] ELSE row[c]]
    BY <1>1 DEF Overlaid
  <1> QED BY <1>2, <1>3, <1>4

\* and the UPDATE leaves the row as if it had been read just now.
LEMMA OverlaidIsWritten ==
    ASSUME NEW o \in Requests \cup Jobs, NEW old \in Row, NEW row \in Row,
           Selects(o, old), OnlyAged(old, row)
    PROVE  Overlaid(o, old, row) = Written(o, row)
  <1> DEFINE w == Written(o, old)
             v == Written(o, row)
  <1>0. w \in Row /\ v \in Row BY WrittenRow
  <1> SUFFICES ASSUME TRUE
               PROVE  \E C \in SUBSET Columns :
                         /\ "aged" \notin C /\ Renews(o) \subseteq C
                         /\ \A c \in Columns \ C : w[c] = old[c] /\ v[c] = row[c]
                         /\ \A c \in C : w[c] = v[c]
                         /\ \A c \in (C \cap Clocks) \ Renews(o) : w[c] = "unset"
    <2> HIDE DEF w, v
    <2>1. PICK C \in SUBSET Columns :
                         /\ "aged" \notin C /\ Renews(o) \subseteq C
                         /\ \A c \in Columns \ C : w[c] = old[c] /\ v[c] = row[c]
                         /\ \A c \in C : w[c] = v[c]
                         /\ \A c \in (C \cap Clocks) \ Renews(o) : w[c] = "unset"
      OBVIOUS
    <2>2. w = Written(o, old) BY DEF w
    <2> QED BY <1>0, <2>1, <2>2, OverlaidAsWritten DEF v
  <1>d. DOMAIN old = Columns /\ DOMAIN row = Columns BY SMT DEF Row, Columns
  <1>e. row.department = old.department /\ row.override_model = old.override_model
    BY <1>d DEF OnlyAged, Columns
  <1>1. CASE o.kind = "claim"
    <2> DEFINE C == {"status", "assignee", "claim_timeout_at"}
    <2>1. w = Claimed(old, o.user) /\ v = Claimed(row, o.user)
          /\ Renews(o) = {"claim_timeout_at"}
      BY <1>1, SMT DEF Written, Renews
    <2> HIDE DEF w, v
    <2>2. \A c \in Columns \ C : w[c] = old[c] /\ v[c] = row[c]
      BY <1>d, <2>1 DEF Claimed
    <2>3. \A c \in C : w[c] = v[c] BY <1>d, <2>1 DEF Claimed, Columns
    <2>4. C \in SUBSET Columns /\ "aged" \notin C /\ Renews(o) \subseteq C
      BY <2>1, SMT DEF Columns
    <2>5. \A c \in (C \cap Clocks) \ Renews(o) : w[c] = "unset"
      BY <1>d, <2>1 DEF Clocks, Columns, Claimed
    <2> HIDE DEF C
    <2> QED BY <2>2, <2>3, <2>4, <2>5
  <1>2. CASE o.kind = "start"
    <2> DEFINE C == {"status", "claim_timeout_at", "inactivity_timeout_at"}
    <2>1. w = Started(old) /\ v = Started(row)
          /\ Renews(o) = {"inactivity_timeout_at"}
      BY <1>2, SMT DEF Written, Renews
    <2> HIDE DEF w, v
    <2>2. \A c \in Columns \ C : w[c] = old[c] /\ v[c] = row[c]
      BY <1>d, <2>1 DEF Started
    <2>3. \A c \in C : w[c] = v[c] BY <1>d, <2>1 DEF Started, Columns
    <2>4. C \in SUBSET Columns /\ "aged" \notin C /\ Renews(o) \subseteq C
      BY <2>1, SMT DEF Columns
    <2>5. \A c \in (C \cap Clocks) \ Renews(o) : w[c] = "unset"
      BY <1>d, <2>1 DEF Clocks, Columns, Started
    <2> HIDE DEF C
    <2> QED BY <2>2, <2>3, <2>4, <2>5
  <1>3. CASE o.kind = "progress"
    <2> DEFINE C == {"progress_seq", "progress_pct", "inactivity_timeout_at"}
    <2>1. w = Reported(old, o.seq, o.pct) /\ v = Reported(row, o.seq, o.pct)
          /\ Renews(o) = {"inactivity_timeout_at"}
      BY <1>3, SMT DEF Written, Renews
    <2> HIDE DEF w, v
    <2>2. \A c \in Columns \ C : w[c] = old[c] /\ v[c] = row[c]
      BY <1>d, <2>1 DEF Reported
    <2>3. \A c \in C : w[c] = v[c] BY <1>d, <2>1 DEF Reported, Columns
    <2>4. C \in SUBSET Columns /\ "aged" \notin C /\ Renews(o) \subseteq C
      BY <2>1, SMT DEF Columns
    <2>5. \A c \in (C \cap Clocks) \ Renews(o) : w[c] = "unset"
      BY <1>d, <2>1 DEF Clocks, Columns, Reported
    <2> HIDE DEF C
    <2> QED BY <2>2, <2>3, <2>4, <2>5
  <1>4. CASE o.kind = "submit"
    <2> DEFINE C == {"status", "file_hash", "progress_pct", "override_model"}
    <2>1. w = Submitted(old, o.hash, o.model) /\ v = Submitted(row, o.hash, o.model)
          /\ Renews(o) = {}
      BY <1>4, SMT DEF Written, Renews
    <2> HIDE DEF w, v
    <2>2. \A c \in Columns \ C : w[c] = old[c] /\ v[c] = row[c]
      BY <1>d, <2>1 DEF Submitted
    <2>3. \A c \in C : w[c] = v[c] BY <1>d, <2>1, <1>e DEF Submitted, Columns
    <2>4. C \in SUBSET Columns /\ "aged" \notin C /\ Renews(o) \subseteq C
      BY <2>1, SMT DEF Columns
    <2>5. \A c \in (C \cap Clocks) \ Renews(o) : w[c] = "unset"
      BY <1>d, <2>1 DEF Clocks, Columns, Submitted
    <2> HIDE DEF C
    <2> QED BY <2>2, <2>3, <2>4, <2>5
  <1>5. CASE o.kind = "override"
    <2> DEFINE C == {"override_model"}
    <2>1. w = Overridden(old, o.model) /\ v = Overridden(row, o.model)
          /\ Renews(o) = {}
      BY <1>5, SMT DEF Written, Renews
    <2> HIDE DEF w, v
    <2>2. \A c \in Columns \ C : w[c] = old[c] /\ v[c] = row[c]
      BY <1>d, <2>1 DEF Overridden
    <2>3. \A c \in C : w[c] = v[c] BY <1>d, <2>1 DEF Overridden, Columns
    <2>4. C \in SUBSET Columns /\ "aged" \notin C /\ Renews(o) \subseteq C
      BY <2>1, SMT DEF Columns
    <2>5. \A c \in (C \cap Clocks) \ Renews(o) : w[c] = "unset"
      BY <1>d, <2>1 DEF Clocks, Columns, Overridden
    <2> HIDE DEF C
    <2> QED BY <2>2, <2>3, <2>4, <2>5
  <1>6. CASE o.kind = "inactivity"
    <2> DEFINE C == {"status", "assignee", "inactivity_timeout_at"}
    <2>1. w = Reclaimed(old) /\ v = Reclaimed(row)
          /\ Renews(o) = {}
      BY <1>6, SMT DEF Written, Renews
    <2> HIDE DEF w, v
    <2>2. \A c \in Columns \ C : w[c] = old[c] /\ v[c] = row[c]
      BY <1>d, <2>1 DEF Reclaimed
    <2>3. \A c \in C : w[c] = v[c] BY <1>d, <2>1 DEF Reclaimed, Columns
    <2>4. C \in SUBSET Columns /\ "aged" \notin C /\ Renews(o) \subseteq C
      BY <2>1, SMT DEF Columns
    <2>5. \A c \in (C \cap Clocks) \ Renews(o) : w[c] = "unset"
      BY <1>d, <2>1 DEF Clocks, Columns, Reclaimed
    <2> HIDE DEF C
    <2> QED BY <2>2, <2>3, <2>4, <2>5
  <1>7. CASE o.kind = "fallback"
    <2> DEFINE C == {"status", "assignee", "claim_timeout_at"}
    <2>1. w = AutoAssigned(old, AgentUser[o.first[old.department]]) /\ v = AutoAssigned(row, AgentUser[o.first[old.department]])
          /\ Renews(o) = {"claim_timeout_at"}
      BY <1>7, <1>e, SMT DEF Written, Renews
    <2> HIDE DEF w, v
    <2>2. \A c \in Columns \ C : w[c] = old[c] /\ v[c] = row[c]
      BY <1>d, <2>1 DEF AutoAssigned
    <2>3. \A c \in C : w[c] = v[c] BY <1>d, <2>1 DEF AutoAssigned, Columns
    <2>4. C \in SUBSET Columns /\ "aged" \notin C /\ Renews(o) \subseteq C
      BY <2>1, SMT DEF Columns
    <2>5. \A c \in (C \cap Clocks) \ Renews(o) : w[c] = "unset"
      BY <1>d, <2>1 DEF Clocks, Columns, AutoAssigned
    <2> HIDE DEF C
    <2> QED BY <2>2, <2>3, <2>4, <2>5
  <1>8. CASE o.kind \in {"release", "claim_timeouts", "stale"}
    <2> DEFINE C == {"status", "assignee", "claim_timeout_at"}
    <2>1. w = Released(old) /\ v = Released(row)
          /\ Renews(o) = {}
      BY <1>8, SMT DEF Written, Renews
    <2> HIDE DEF w, v
    <2>2. \A c \in Columns \ C : w[c] = old[c] /\ v[c] = row[c]
      BY <1>d, <2>1 DEF Released
    <2>3. \A c \in C : w[c] = v[c] BY <1>d, <2>1 DEF Released, Columns
    <2>4. C \in SUBSET Columns /\ "aged" \notin C /\ Renews(o) \subseteq C
      BY <2>1, SMT DEF Columns
    <2>5. \A c \in (C \cap Clocks) \ Renews(o) : w[c] = "unset"
      BY <1>d, <2>1 DEF Clocks, Columns, Released
    <2> HIDE DEF C
    <2> QED BY <2>2, <2>3, <2>4, <2>5
  <1> QED BY KindsOfAll, <1>1, <1>2, <1>3, <1>4, <1>5, <1>6, <1>7, <1>8
          DEF AllKinds, RequestKinds, JobKinds

\* What a session that selects the row writes is a step of TaskLifecycle.
LEMMA WrittenLawful ==
    ASSUME NEW t \in Tasks, task[t] \in Row, NEW o \in Requests \cup Jobs,
           Selects(o, task[t]), task'[t] = Written(o, task[t])
    PROVE  Alone(t)!Next
  <1>1. CASE o.kind = "claim"
    <2>1. o.user \in Users BY <1>1, SMT DEF Requests, Jobs
    <2>2. Claimable(task[t]) /\ task'[t] = Claimed(task[t], o.user)
      BY <1>1, SMT DEF Selects, Written
    <2>3. Alone(t)!ClaimTask(t, o.user)
      BY <2>2 DEF Alone!ClaimTask, Alone!Update, Claimable, Claimed, Alone!Claimable,
        Alone!Claimed
    <2> QED BY <2>1, <2>3 DEF Alone!Next, Alone!Request
  <1>2. CASE o.kind = "start"
    <2>1. o.user \in Users BY <1>2, SMT DEF Requests, Jobs
    <2>2. Startable(task[t], o.user) /\ task'[t] = Started(task[t])
      BY <1>2, SMT DEF Selects, Written
    <2>3. Alone(t)!StartTask(t, o.user)
      BY <2>2 DEF Alone!StartTask, Alone!Update, Startable, MayWorkOn, IsAdmin,
        Started, Alone!Startable, Alone!MayWorkOn, Alone!IsAdmin, Alone!Started
    <2> QED BY <2>1, <2>3 DEF Alone!Next, Alone!Request
  <1>3. CASE o.kind = "progress"
    <2>1. o.seq \in 1..MaxSeq /\ o.pct \in Pcts BY <1>3, SMT DEF Requests, Jobs
    <2>2. FreshReport(task[t], o.seq) /\ task'[t] = Reported(task[t], o.seq, o.pct)
      BY <1>3, SMT DEF Selects, Written
    <2>3. Alone(t)!ReportProgress(t, o.seq, o.pct)
      BY <2>2 DEF Alone!ReportProgress, Alone!Update, FreshReport, Exists, Reported,
        Alone!FreshReport, Alone!Exists, Alone!Reported
    <2> QED BY <2>1, <2>3 DEF Alone!Next, Alone!Request
  <1>4. CASE o.kind = "submit"
    <2>1. o.user \in Users /\ o.hash \in Hashes /\ o.model \in Models \cup {None} BY <1>4, SMT DEF Requests, Jobs
    <2>2. Submittable(task[t], o.user, o.hash) /\ task'[t] = Submitted(task[t], o.hash, o.model)
      BY <1>4, SMT DEF Selects, Written
    <2>3. Alone(t)!SubmitResult(t, o.user, o.hash, o.model)
      BY <2>2 DEF Alone!SubmitResult, Alone!Update, Submittable, Resubmitted,
        MayWorkOn, IsAdmin, Exists, Submitted, Alone!Submittable,
        Alone!Resubmitted, Alone!MayWorkOn, Alone!IsAdmin, Alone!Exists,
        Alone!Submitted
    <2> QED BY <2>1, <2>3 DEF Alone!Next, Alone!Request
  <1>5. CASE o.kind = "release"
    <2>1. o.user \in Users BY <1>5, SMT DEF Requests, Jobs
    <2>2. Releasable(task[t], o.user) /\ task'[t] = Released(task[t])
      BY <1>5, SMT DEF Selects, Written
    <2>3. Alone(t)!ReleaseTask(t, o.user)
      BY <2>2 DEF Alone!ReleaseTask, Alone!Update, Releasable, MayManage, Oversees,
        Released, Alone!Releasable, Alone!MayManage, Alone!Oversees,
        Alone!Released
    <2> QED BY <2>1, <2>3 DEF Alone!Next, Alone!Request
  <1>6. CASE o.kind = "override"
    <2>1. o.user \in Users /\ o.model \in Models BY <1>6, SMT DEF Requests, Jobs
    <2>2. Exists(task[t]) /\ MayManage(task[t], o.user) /\ task'[t] = Overridden(task[t], o.model)
      BY <1>6, SMT DEF Selects, Written
    <2>3. Alone(t)!OverrideModel(t, o.user, o.model)
      BY <2>2 DEF Alone!OverrideModel, Alone!Update, Exists, MayManage, Oversees,
        Overridden, Alone!Exists, Alone!MayManage, Alone!Oversees,
        Alone!Overridden
    <2> QED BY <2>1, <2>3 DEF Alone!Next, Alone!Request
  <1>7. CASE o.kind = "claim_timeouts"
    <2>1. ClaimOverdue(task[t]) /\ task'[t] = Released(task[t])
      BY <1>7, SMT DEF Selects, Written
    <2>2. Alone(t)!CheckClaimTimeouts
      BY <2>1 DEF Alone!CheckClaimTimeouts, Alone!Rewrite, ClaimOverdue, Released,
         Alone!ClaimOverdue, Alone!Released
    <2> QED BY <2>2 DEF Alone!Next, Alone!Job
  <1>8. CASE o.kind = "inactivity"
    <2>1. WorkOverdue(task[t]) /\ task'[t] = Reclaimed(task[t])
      BY <1>8, SMT DEF Selects, Written
    <2>2. Alone(t)!CheckInactivityTimeouts
      BY <2>1 DEF Alone!CheckInactivityTimeouts, Alone!Rewrite, WorkOverdue, Reclaimed,
         Alone!WorkOverdue, Alone!Reclaimed
    <2> QED BY <2>2 DEF Alone!Next, Alone!Job
  <1>9. CASE o.kind = "fallback"
    <2> DEFINE d == task[t].department
               a == o.first[d]
               first == [x \in Departments |-> a]
    <2>0. FallbackReady(task[t]) /\ task'[t] = AutoAssigned(task[t], AgentUser[a])
      BY <1>9, SMT DEF Selects, Written
    <2>1. o.first \in [Departments -> Agents] BY <1>9, SMT DEF Requests, Jobs
    <2>2. d \in Departments BY SMT DEF Row
    <2>3. a \in Agents BY <2>1, <2>2
    <2> HIDE DEF a
    <2>4. first \in [Departments -> Agents] /\ first[d] = a BY <2>2, <2>3
    <2>5. Alone(t)!FirstOfOrder({a}, a, first)
      BY <2>3, AgentDeptAssumption DEF Alone!FirstOfOrder, Alone!InDept
    <2> HIDE DEF first
    <2>6. Alone(t)!AutoFallbackAssign({a}, a, first)
      BY <2>0, <2>4, <2>5 DEF Alone!AutoFallbackAssign, Alone!Rewrite, FallbackReady, AutoStrategies,
         AutoAssigned, Alone!FallbackReady, Alone!AutoStrategies, Alone!AutoAssigned
    <2>7. Alone(t)!SomeFallbackAssign BY <2>3, <2>4, <2>6 DEF Alone!SomeFallbackAssign
    <2> QED BY <2>7 DEF Alone!Next, Alone!Job
  <1>10. CASE o.kind = "stale"
    <2>0. HeldBy(task[t], o.user) /\ task'[t] = Released(task[t])
      BY <1>10, SMT DEF Selects, Written
    <2>1. PICK a \in Agents : o.user = AgentUser[a]
      BY <1>10, SMT DEF Requests, Jobs
    <2>2. Alone(t)!ReleaseAgentTasks({a})
      BY <2>0, <2>1 DEF Alone!ReleaseAgentTasks, Alone!Rewrite, HeldBy, Held, Released,
         Alone!HeldBy, Alone!Held, Alone!Released
    <2>3. {a} \in SUBSET Agents OBVIOUS
    <2> QED BY <2>2, <2>3 DEF Alone!Next, Alone!Job
  <1> QED BY <1>1, <1>2, <1>3, <1>4, <1>5, <1>6, <1>7, <1>8, <1>9, <1>10, KindsOfAll
          DEF AllKinds, RequestKinds, JobKinds

\* Time passes for one row as it does in TaskLifecycle.
LEMMA ElapsedLawful ==
    ASSUME NEW t \in Tasks, TimePasses(t), task \in [Tasks -> Row], task[t].status # "absent"
    PROVE  Alone(t)!Next
  <1>1. CASE ~task[t].aged /\ Elapse(t, [task[t] EXCEPT !.aged = TRUE])
    <2>1. task'[t] = [task[t] EXCEPT !.aged = TRUE] BY <1>1 DEF Elapse
    <2>2. Alone(t)!TenMinutesPass(t)
      BY <1>1, <2>1 DEF Alone!TenMinutesPass, Alone!Exists, Alone!Update
    <2> QED BY <2>2 DEF Alone!Next, Alone!TimePasses
  <1>2. CASE /\ task[t].claim_timeout_at = "running"
             /\ Elapse(t, [task[t] EXCEPT !.claim_timeout_at = "due"])
    <2>1. task'[t] = [task[t] EXCEPT !.claim_timeout_at = "due"] BY <1>2 DEF Elapse
    <2>2. Alone(t)!ClaimWindowEnds(t) BY <1>2, <2>1 DEF Alone!ClaimWindowEnds, Alone!Update
    <2> QED BY <2>2 DEF Alone!Next, Alone!TimePasses
  <1>3. CASE /\ task[t].inactivity_timeout_at = "running"
             /\ Elapse(t, [task[t] EXCEPT !.inactivity_timeout_at = "due"])
    <2>1. task'[t] = [task[t] EXCEPT !.inactivity_timeout_at = "due"] BY <1>3 DEF Elapse
    <2>2. Alone(t)!InactivityWindowEnds(t)
      BY <1>3, <2>1 DEF Alone!InactivityWindowEnds, Alone!Update
    <2> QED BY <2>2 DEF Alone!Next, Alone!TimePasses
  <1> QED BY <1>1, <1>2, <1>3 DEF TimePasses

----------------------------------------------------------------------------
(* What a step leaves to the sessions.                                     *)

\* A step of the table: safe rows again, each following the row it was.
TableMoves ==
    /\ task' \in [Tasks -> Row]
    /\ \A t \in Tasks : SafeRow(task'[t]) /\ Follows(task[t], task'[t])

\* A table that does not change has moved nowhere.
LEMMA TableStays == ASSUME IInv, task' = task PROVE TableMoves
  BY FollowsReflexive DEF IInv, TypeOK, TableMoves

\* A session that decides nothing new stays decided while the table moves on.
LEMMA DecidedKept ==
    ASSUME IInv, TableMoves, NEW u \in Sessions,
           batch'[u] \cup todo'[u] \subseteq batch[u] \cup todo[u],
           pc'[u] # "idle" \/ pc[u] = "idle", op'[u] = op[u], snap'[u] = snap[u]
    PROVE  Decided(u)'
  <1> SUFFICES ASSUME NEW t \in batch'[u] \cup todo'[u]
               PROVE  /\ pc'[u] # "idle" /\ Selects(op'[u], snap'[u][t])
                      /\ Follows(snap'[u][t], task'[t])
    BY DEF Decided
  <1>1. t \in batch[u] \cup todo[u] OBVIOUS
  <1>2. t \in Tasks BY <1>1 DEF IInv, TypeOK
  <1>3. /\ pc[u] # "idle" /\ Selects(op[u], snap[u][t])
        /\ Follows(snap[u][t], task[t])
    BY <1>1 DEF IInv, Decided
  <1>4. Follows(task[t], task'[t]) BY <1>2 DEF TableMoves
  <1>5. Follows(snap[u][t], task'[t]) BY <1>3, <1>4, FollowsTransitive
  <1> QED BY <1>3, <1>5

\* A session that closes forgets what it decided; the table has moved on.
LEMMA CloseSound ==
    ASSUME IInv, TableMoves, NEW s \in Sessions, Close(s),
           redis' \in [Tasks -> Users \cup {AutoHolder, None}]
    PROVE  IInv'
  <1>1. \A u \in Sessions : u # s =>
           /\ pc'[u] = pc[u] /\ op'[u] = op[u] /\ key'[u] = key[u]
           /\ todo'[u] = todo[u] /\ batch'[u] = batch[u] /\ snap'[u] = snap[u]
    BY DEF IInv, TypeOK, Close, Goto
  <1>2. pc'[s] = "idle" /\ batch'[s] = {} /\ todo'[s] = {}
    BY DEF IInv, TypeOK, Close, Goto
  <1>3. TypeOK'
    <2>1. pc' \in [Sessions -> Labels] BY DEF IInv, TypeOK, Close, Goto, Labels
    <2>2. todo' \in [Sessions -> SUBSET Tasks] /\ batch' \in [Sessions -> SUBSET Tasks]
      BY DEF IInv, TypeOK, Close
    <2>3. rowLock' \in [Tasks -> Sessions \cup {None}] BY DEF IInv, TypeOK, Close
    <2>4. \A u \in Sessions : pc'[u] # "idle" => \/ op'[u] \in Requests /\ key'[u] \in Tasks
                                                \/ op'[u] \in Jobs
      BY <1>1, <1>2 DEF IInv, TypeOK
    <2>5. \A u \in Sessions : batch'[u] \cup todo'[u] # {} => snap'[u] \in [Tasks -> Row]
      BY <1>1, <1>2 DEF IInv, TypeOK
    <2>6. /\ op' \in [Sessions -> Requests \cup Jobs \cup {None}]
          /\ key' \in [Sessions -> Tasks \cup {None}]
          /\ DOMAIN snap' = Sessions
      BY DEF IInv, TypeOK, Close
    <2> QED BY <2>1, <2>2, <2>3, <2>4, <2>5, <2>6 DEF TypeOK, TableMoves
  <1>4. ASSUME NEW u \in Sessions PROVE Decided(u)' /\ InOrder(u)'
    <2>1. CASE u = s
      <3>1. batch'[u] \cup todo'[u] = {} BY <1>2, <2>1
      <3> QED BY <1>2, <2>1, <3>1 DEF Decided, InOrder
    <2>2. CASE u # s
      <3>1. Decided(u)' BY <1>1, <2>2, DecidedKept
      <3> QED BY <1>1, <2>2, <3>1 DEF IInv, InOrder
    <2> QED BY <2>1, <2>2
  <1> QED BY <1>3, <1>4 DEF IInv, TableMoves

\* A session that only goes on keeps what it decided.
LEMMA GotoSound ==
    ASSUME IInv, NEW s \in Sessions, NEW label \in Labels \ {"idle", "locking"},
           pc[s] # "idle", label \in {"asking", "reading"} => batch[s] \cup todo[s] = {},
           Goto(s, label), UNCHANGED <<task, local>>,
           rowLock' \in [Tasks -> Sessions \cup {None}],
           redis' \in [Tasks -> Users \cup {AutoHolder, None}]
    PROVE  IInv'
  <1>1. /\ pc' \in [Sessions -> Labels]
        /\ \A u \in Sessions : pc'[u] = IF u = s THEN label ELSE pc[u]
    BY DEF IInv, TypeOK, Goto
  <1>2. TypeOK'
    <2>1. task' \in [Tasks -> Row] BY DEF IInv, TypeOK
    <2>2. todo' \in [Sessions -> SUBSET Tasks] /\ batch' \in [Sessions -> SUBSET Tasks]
      BY DEF IInv, TypeOK, local
    <2>3. ASSUME NEW u \in Sessions, pc'[u] # "idle"
          PROVE  \/ op'[u] \in Requests /\ key'[u] \in Tasks
                 \/ op'[u] \in Jobs
      <3>1. pc[u] # "idle" BY <1>1, <2>3
      <3> QED BY <3>1 DEF IInv, TypeOK, local
    <2>4. \A u \in Sessions : batch'[u] \cup todo'[u] # {} => snap'[u] \in [Tasks -> Row]
      BY DEF IInv, TypeOK, local
    <2>5. /\ op' \in [Sessions -> Requests \cup Jobs \cup {None}]
          /\ key' \in [Sessions -> Tasks \cup {None}]
          /\ DOMAIN snap' = Sessions
      BY DEF IInv, TypeOK, local
    <2> QED BY <1>1, <2>1, <2>2, <2>3, <2>4, <2>5 DEF TypeOK
  <1>3. ASSUME NEW u \in Sessions PROVE Decided(u)' /\ InOrder(u)'
    <2>1. TableMoves BY TableStays
    <2>2. Decided(u)' BY <1>1, <2>1, DecidedKept DEF local
    <2>3. InOrder(u)' BY <1>1 DEF IInv, InOrder, local
    <2> QED BY <2>2, <2>3
  <1> QED BY <1>2, <1>3 DEF IInv

\* A session that has just read decides on rows that pass its test; what it
\* remembers is the table itself.
LEMMA DecideSound ==
    ASSUME IInv, NEW s \in Sessions, pc[s] = "reading",
           NEW label \in {"flushing", "taking"}, Goto(s, label),
           NEW B \in SUBSET Tasks, batch' = [batch EXCEPT ![s] = B],
           NEW D \in SUBSET Tasks, todo' = [todo EXCEPT ![s] = D],
           \A t \in B \cup D : Selects(op[s], task[t]),
           snap' = [snap EXCEPT ![s] = task],
           UNCHANGED <<task, rowLock, redis, op, key>>
    PROVE  IInv'
  <1>1. \A u \in Sessions : u # s =>
           /\ pc'[u] = pc[u] /\ todo'[u] = todo[u]
           /\ batch'[u] = batch[u] /\ snap'[u] = snap[u]
    BY DEF IInv, TypeOK, Goto
  <1>2. pc'[s] = label /\ batch'[s] = B /\ todo'[s] = D /\ snap'[s] = task
    BY DEF IInv, TypeOK, Goto
  <1>3. TypeOK'
    <2>1. pc' \in [Sessions -> Labels] BY DEF IInv, TypeOK, Goto, Labels
    <2>2. todo' \in [Sessions -> SUBSET Tasks] /\ batch' \in [Sessions -> SUBSET Tasks]
      BY DEF IInv, TypeOK
    <2>3. ASSUME NEW u \in Sessions, pc'[u] # "idle"
          PROVE  \/ op'[u] \in Requests /\ key'[u] \in Tasks
                 \/ op'[u] \in Jobs
      <3>1. pc[u] # "idle" BY <1>1, <2>3
      <3> QED BY <3>1 DEF IInv, TypeOK
    <2>4. ASSUME NEW u \in Sessions, batch'[u] \cup todo'[u] # {}
          PROVE  snap'[u] \in [Tasks -> Row]
      <3>1. CASE u = s BY <1>2, <3>1 DEF IInv, TypeOK
      <3>2. CASE u # s BY <1>1, <2>4, <3>2 DEF IInv, TypeOK
      <3> QED BY <3>1, <3>2
    <2>5. /\ op' \in [Sessions -> Requests \cup Jobs \cup {None}]
          /\ key' \in [Sessions -> Tasks \cup {None}]
          /\ DOMAIN snap' = Sessions
          /\ task' \in [Tasks -> Row]
          /\ rowLock' \in [Tasks -> Sessions \cup {None}]
          /\ redis' \in [Tasks -> Users \cup {AutoHolder, None}]
      BY DEF IInv, TypeOK
    <2> QED BY <2>1, <2>2, <2>3, <2>4, <2>5 DEF TypeOK
  <1>4. ASSUME NEW u \in Sessions PROVE Decided(u)' /\ InOrder(u)'
    <2>0. TableMoves BY TableStays
    <2>1. CASE u = s
      <3>1. \A t \in B \cup D : Follows(task[t], task[t]) BY FollowsReflexive
      <3>2. Decided(u)' BY <1>2, <2>1, <3>1 DEF Decided
      <3> QED BY <1>2, <2>1, <3>2 DEF InOrder
    <2>2. CASE u # s
      <3>1. Decided(u)' BY <1>1, <2>0, <2>2, DecidedKept
      <3> QED BY <1>1, <2>2, <3>1 DEF IInv, InOrder
    <2> QED BY <2>1, <2>2
  <1> QED BY <1>3, <1>4 DEF IInv

----------------------------------------------------------------------------
(* One lemma per action that does more than go on or close.                *)

\* Opening a session decides nothing.
LEMMA OpenSound ==
    ASSUME IInv, NEW s \in Sessions, pc[s] = "idle",
           NEW label \in {"locking", "reading"}, Goto(s, label),
           NEW o \in Requests \cup Jobs, op' = [op EXCEPT ![s] = o],
           label = "locking" => o.kind = "claim",
           key' \in [Sessions -> Tasks \cup {None}],
           \A u \in Sessions : u # s => key'[u] = key[u],
           o \in Jobs \/ key'[s] \in Tasks,
           UNCHANGED <<task, rowLock, redis, todo, batch, snap>>
    PROVE  IInv'
  <1>1. \A u \in Sessions : u # s => pc'[u] = pc[u] /\ op'[u] = op[u]
    BY DEF IInv, TypeOK, Goto
  <1>2. pc'[s] = label /\ op'[s] = o BY DEF IInv, TypeOK, Goto
  <1>3. TypeOK'
    <2>1. pc' \in [Sessions -> Labels] BY DEF IInv, TypeOK, Goto, Labels
    <2>2. ASSUME NEW u \in Sessions, pc'[u] # "idle"
          PROVE  \/ op'[u] \in Requests /\ key'[u] \in Tasks
                 \/ op'[u] \in Jobs
      <3>1. CASE u = s BY <1>2, <3>1
      <3>2. CASE u # s BY <1>1, <2>2, <3>2 DEF IInv, TypeOK
      <3> QED BY <3>1, <3>2
    <2>3. op' \in [Sessions -> Requests \cup Jobs \cup {None}] BY DEF IInv, TypeOK
    <2> QED BY <2>1, <2>2, <2>3 DEF IInv, TypeOK
  <1>4. ASSUME NEW u \in Sessions PROVE Decided(u)' /\ InOrder(u)'
    <2>0. TableMoves BY TableStays
    <2>1. CASE u = s
      <3>1. batch'[u] \cup todo'[u] = {} BY <2>1 DEF IInv, InOrder
      <3> QED BY <1>2, <2>1, <3>1 DEF Decided, InOrder
    <2>2. CASE u # s
      <3>1. Decided(u)' BY <1>1, <2>0, <2>2, DecidedKept
      <3> QED BY <1>1, <2>2, <3>1 DEF IInv, InOrder
    <2> QED BY <2>1, <2>2
  <1> QED BY <1>3, <1>4 DEF IInv

\* A request comes in.
LEMMA ArriveSound ==
    ASSUME IInv, NEW s \in Sessions, NEW o \in Requests, NEW t \in Tasks, Arrive(s, o, t)
    PROVE  IInv'
  <1> DEFINE label == IF o.kind = "claim" THEN "locking" ELSE "reading"
  <1>1. /\ pc[s] = "idle" /\ Goto(s, label)
        /\ op' = [op EXCEPT ![s] = o]
        /\ UNCHANGED <<task, rowLock, redis, todo, batch, snap>>
    BY DEF Arrive
  <1>2. /\ key' \in [Sessions -> Tasks \cup {None}]
        /\ \A u \in Sessions : u # s => key'[u] = key[u]
        /\ key'[s] \in Tasks
    BY DEF Arrive, IInv, TypeOK
  <1>3. label \in {"locking", "reading"} /\ (label = "locking" => o.kind = "claim")
    OBVIOUS
  <1>4. o \in Requests \cup Jobs OBVIOUS
  <1> HIDE DEF label
  <1> QED BY <1>1, <1>2, <1>3, <1>4, OpenSound

\* A job fires.
LEMMA FireSound ==
    ASSUME IInv, NEW s \in Sessions, NEW o \in Jobs, Fire(s, o)
    PROVE  IInv'
  <1>1. /\ pc[s] = "idle" /\ Goto(s, "reading")
        /\ op' = [op EXCEPT ![s] = o]
        /\ UNCHANGED <<task, rowLock, redis, key, todo, batch, snap>>
    BY DEF Fire
  <1>2. /\ key' \in [Sessions -> Tasks \cup {None}]
        /\ \A u \in Sessions : u # s => key'[u] = key[u]
    BY <1>1 DEF IInv, TypeOK
  <1>3. o \in Requests \cup Jobs OBVIOUS
  <1> QED BY <1>1, <1>2, <1>3, OpenSound

\* The claim takes the Redis lock or goes to ask who holds it.
LEMMA TryLockSound ==
    ASSUME IInv, NEW s \in Sessions, TryLock(s)
    PROVE  IInv'
  <1>1. pc[s] = "locking" /\ UNCHANGED <<task, rowLock, local>> BY DEF TryLock
  <1>2. batch[s] \cup todo[s] = {} BY <1>1 DEF IInv, InOrder
  <1>3. rowLock' \in [Tasks -> Sessions \cup {None}] BY <1>1 DEF IInv, TypeOK
  <1>4. CASE redis[key[s]] = None
    <2>1. redis' = [redis EXCEPT ![key[s]] = Holder(s)] /\ Goto(s, "reading")
      BY <1>4 DEF TryLock
    <2>2. op[s].kind = "claim" /\ op[s] \in Requests \cup Jobs
      BY <1>1 DEF IInv, TypeOK, InOrder
    <2>3. op[s].user \in Users BY <2>2, SMT DEF Requests, Jobs
    <2>4. Holder(s) \in Users BY <2>2, <2>3 DEF Holder
    <2>5. redis' \in [Tasks -> Users \cup {AutoHolder, None}]
      BY <2>1, <2>4 DEF IInv, TypeOK
    <2> QED BY <1>1, <1>2, <1>3, <2>1, <2>5, GotoSound DEF Labels
  <1>5. CASE redis[key[s]] # None
    <2>1. Goto(s, "asking") /\ UNCHANGED redis BY <1>5 DEF TryLock
    <2>2. redis' \in [Tasks -> Users \cup {AutoHolder, None}] BY <2>1 DEF IInv, TypeOK
    <2> QED BY <1>1, <1>2, <1>3, <2>1, <2>2, GotoSound DEF Labels
  <1> QED BY <1>4, <1>5

\* The user's own lock lets the claim through, another's turns it away.
LEMMA AskHolderSound ==
    ASSUME IInv, NEW s \in Sessions, AskHolder(s)
    PROVE  IInv'
  <1>1. pc[s] = "asking" /\ UNCHANGED <<task, redis>> BY DEF AskHolder
  <1>2. redis' \in [Tasks -> Users \cup {AutoHolder, None}] BY <1>1 DEF IInv, TypeOK
  <1>3. CASE Goto(s, "reading") /\ UNCHANGED <<rowLock, local>>
    <2>1. batch[s] \cup todo[s] = {} BY <1>1 DEF IInv, InOrder
    <2>2. rowLock' \in [Tasks -> Sessions \cup {None}] BY <1>3 DEF IInv, TypeOK
    <2> QED BY <1>1, <1>2, <1>3, <2>1, <2>2, GotoSound DEF Labels
  <1>4. CASE Close(s)
    <2>1. TableMoves BY <1>1, TableStays
    <2> QED BY <1>2, <1>4, <2>1, CloseSound
  <1> QED BY <1>3, <1>4 DEF AskHolder

\* Wherever a session goes once the Redis lock is dealt with.
LEMMA AfterUnlockSound ==
    ASSUME IInv, NEW s \in Sessions, pc[s] # "idle", AfterUnlock(s), UNCHANGED task,
           redis' \in [Tasks -> Users \cup {AutoHolder, None}]
    PROVE  IInv'
  <1>1. CASE Close(s)
    <2>1. TableMoves BY TableStays
    <2> QED BY <1>1, <2>1, CloseSound
  <1>2. ASSUME NEW label \in {"taking", "committing"}, Goto(s, label),
               UNCHANGED <<rowLock, local>>
        PROVE  IInv'
    <2>1. rowLock' \in [Tasks -> Sessions \cup {None}] BY <1>2 DEF IInv, TypeOK
    <2>2. label \in Labels \ {"idle", "locking"} /\ label \notin {"asking", "reading"}
      BY DEF Labels
    <2> QED BY <1>2, <2>1, <2>2, GotoSound
  <1> QED BY <1>1, <1>2 DEF AfterUnlock

\* Giving the Redis lock back: the question and the deletion.
LEMMA UnlockSound ==
    ASSUME IInv, NEW s \in Sessions, CheckHolder(s) \/ DeleteLock(s)
    PROVE  IInv'
  <1>1. CASE CheckHolder(s)
    <2>1. pc[s] = "unlocking" /\ UNCHANGED <<task, redis>> BY <1>1 DEF CheckHolder
    <2>2. redis' \in [Tasks -> Users \cup {AutoHolder, None}] BY <2>1 DEF IInv, TypeOK
    <2>3. CASE Goto(s, "deleting") /\ UNCHANGED <<rowLock, local>>
      <3>1. rowLock' \in [Tasks -> Sessions \cup {None}] BY <2>3 DEF IInv, TypeOK
      <3> QED BY <2>1, <2>2, <2>3, <3>1, GotoSound DEF Labels
    <2>4. CASE AfterUnlock(s) BY <2>1, <2>2, <2>4, AfterUnlockSound
    <2> QED BY <1>1, <2>3, <2>4 DEF CheckHolder
  <1>2. CASE DeleteLock(s)
    <2>1. pc[s] = "deleting" /\ UNCHANGED task /\ AfterUnlock(s) BY <1>2 DEF DeleteLock
    <2>2. redis' \in [Tasks -> Users \cup {AutoHolder, None}]
      BY <1>2 DEF DeleteLock, IInv, TypeOK
    <2> QED BY <2>1, <2>2, AfterUnlockSound
  <1> QED BY <1>1, <1>2

\* The read of a request: a decision about one row, or the end of it.
LEMMA ReadRowSound ==
    ASSUME IInv, NEW s \in Sessions, ReadRow(s)
    PROVE  IInv'
  <1>1. /\ pc[s] = "reading" /\ op[s].kind \in RequestKinds
        /\ UNCHANGED <<task, redis>>
    BY DEF ReadRow
  <1>2. batch[s] \cup todo[s] = {} BY <1>1 DEF IInv, InOrder
  <1>3. redis' \in [Tasks -> Users \cup {AutoHolder, None}] BY <1>1 DEF IInv, TypeOK
  <1>4. CASE Selects(op[s], task[key[s]])
    <2>1. /\ Goto(s, "flushing") /\ batch' = [batch EXCEPT ![s] = {key[s]}]
          /\ snap' = [snap EXCEPT ![s] = task] /\ UNCHANGED <<rowLock, op, key, todo>>
      BY <1>4 DEF ReadRow
    <2>2. key[s] \in Tasks
      <3>1. op[s] \in Requests \/ op[s] \in Jobs BY <1>1 DEF IInv, TypeOK
      <3>2. op[s] \notin Jobs BY <1>1, SMT DEF RequestKinds, Jobs
      <3> QED BY <1>1, <3>1, <3>2 DEF IInv, TypeOK
    <2>3. todo' = [todo EXCEPT ![s] = {}] BY <1>2, <2>1 DEF IInv, TypeOK
    <2>4. {key[s]} \in SUBSET Tasks /\ {} \in SUBSET Tasks BY <2>2
    <2>5. \A t \in {key[s]} \cup {} : Selects(op[s], task[t]) BY <1>4
    <2>6. UNCHANGED <<task, rowLock, redis, op, key>> BY <1>1, <2>1
    <2> QED BY <1>1, <2>1, <2>3, <2>4, <2>5, <2>6, DecideSound
  <1>5. CASE ~Selects(op[s], task[key[s]])
    <2>1. CASE Goto(s, "unlocking") /\ UNCHANGED <<rowLock, local>>
      <3>1. rowLock' \in [Tasks -> Sessions \cup {None}] BY <2>1 DEF IInv, TypeOK
      <3> QED BY <1>1, <1>3, <2>1, <3>1, GotoSound DEF Labels
    <2>2. CASE Close(s)
      <3>1. TableMoves BY <1>1, TableStays
      <3> QED BY <1>3, <2>2, <3>1, CloseSound
    <2> QED BY <1>5, <2>1, <2>2 DEF ReadRow
  <1> QED BY <1>4, <1>5

\* The read of a job: a decision about all the rows it selects, or none.
LEMMA SelectRowsSound ==
    ASSUME IInv, NEW s \in Sessions, SelectRows(s)
    PROVE  IInv'
  <1> DEFINE found == {t \in Tasks : Selects(op[s], task[t])}
  <1>1. pc[s] = "reading" /\ UNCHANGED <<task, redis>> BY DEF SelectRows
  <1>2. batch[s] \cup todo[s] = {} BY <1>1 DEF IInv, InOrder
  <1>3. redis' \in [Tasks -> Users \cup {AutoHolder, None}] BY <1>1 DEF IInv, TypeOK
  <1>4. CASE Close(s)
    <2>1. TableMoves BY <1>1, TableStays
    <2> QED BY <1>3, <1>4, <2>1, CloseSound
  <1>5. CASE ~Close(s)
    <2>1. /\ snap' = [snap EXCEPT ![s] = task]
          /\ IF op[s].kind = "fallback"
             THEN /\ Goto(s, "taking")
                  /\ todo' = [todo EXCEPT ![s] = found]
                  /\ UNCHANGED batch
             ELSE /\ Goto(s, "flushing")
                  /\ batch' = [batch EXCEPT ![s] = found]
                  /\ UNCHANGED todo
          /\ UNCHANGED <<rowLock, op, key>>
      BY <1>5 DEF SelectRows
    <2>2. found \in SUBSET Tasks /\ {} \in SUBSET Tasks OBVIOUS
    <2>3. \A t \in found : Selects(op[s], task[t]) OBVIOUS
    <2> HIDE DEF found
    <2>4. CASE op[s].kind = "fallback"
      <3>1. /\ Goto(s, "taking") /\ todo' = [todo EXCEPT ![s] = found]
            /\ batch' = [batch EXCEPT ![s] = {}]
        BY <1>2, <2>1, <2>4 DEF IInv, TypeOK
      <3>2. \A t \in {} \cup found : Selects(op[s], task[t]) BY <2>3
      <3>3. UNCHANGED <<task, rowLock, redis, op, key>> BY <1>1, <2>1
      <3> QED BY <1>1, <2>1, <2>2, <3>1, <3>2, <3>3, DecideSound
    <2>5. CASE op[s].kind # "fallback"
      <3>1. /\ Goto(s, "flushing") /\ batch' = [batch EXCEPT ![s] = found]
            /\ todo' = [todo EXCEPT ![s] = {}]
        BY <1>2, <2>1, <2>5 DEF IInv, TypeOK
      <3>2. \A t \in found \cup {} : Selects(op[s], task[t]) BY <2>3
      <3>3. UNCHANGED <<task, rowLock, redis, op, key>> BY <1>1, <2>1
      <3> QED BY <1>1, <2>1, <2>2, <3>1, <3>2, <3>3, DecideSound
    <2> QED BY <2>4, <2>5
  <1> QED BY <1>4, <1>5

\* The fallback job moves a row from the list to the batch, or drops it.
LEMMA TakeNextSound ==
    ASSUME IInv, NEW s \in Sessions, NEW t \in Tasks, TakeNext(s, t)
    PROVE  IInv'
  <1>1. /\ pc[s] = "taking" /\ t \in todo[s]
        /\ todo' = [todo EXCEPT ![s] = @ \ {t}]
        /\ UNCHANGED <<task, rowLock, op, snap>>
    BY DEF TakeNext
  <1>2. \/ /\ redis' = [redis EXCEPT ![t] = AutoHolder]
           /\ batch' = [batch EXCEPT ![s] = @ \cup {t}]
           /\ key' = [key EXCEPT ![s] = t]
           /\ Goto(s, "unlocking")
        \/ UNCHANGED <<redis, batch, key, pc>>
    BY DEF TakeNext
  <1>3. /\ redis' \in [Tasks -> Users \cup {AutoHolder, None}]
        /\ key' \in [Sessions -> Tasks \cup {None}]
        /\ pc' \in [Sessions -> Labels]
        /\ todo' \in [Sessions -> SUBSET Tasks]
        /\ batch' \in [Sessions -> SUBSET Tasks]
    <2>1. todo' \in [Sessions -> SUBSET Tasks] BY <1>1 DEF IInv, TypeOK
    <2> QED BY <1>2, <2>1 DEF IInv, TypeOK, Goto, Labels
  <1>4. /\ pc'[s] \in {"taking", "unlocking"}
        /\ batch'[s] \cup todo'[s] \subseteq batch[s] \cup todo[s]
    BY <1>1, <1>2 DEF IInv, TypeOK, Goto
  <1>5. \A u \in Sessions : u # s =>
           /\ pc'[u] = pc[u] /\ key'[u] = key[u]
           /\ batch'[u] = batch[u] /\ todo'[u] = todo[u]
    BY <1>1, <1>2 DEF IInv, TypeOK, Goto
  <1>6. TypeOK'
    <2>1. ASSUME NEW u \in Sessions, pc'[u] # "idle"
          PROVE  \/ op'[u] \in Requests /\ key'[u] \in Tasks
                 \/ op'[u] \in Jobs
      <3>1. \/ op[u] \in Requests /\ key[u] \in Tasks
            \/ op[u] \in Jobs
        BY <1>1, <1>5, <2>1 DEF IInv, TypeOK
      <3>2. key'[u] \in {key[u], t} BY <1>2 DEF IInv, TypeOK
      <3> QED BY <1>1, <3>1, <3>2
    <2>2. ASSUME NEW u \in Sessions, batch'[u] \cup todo'[u] # {}
          PROVE  snap'[u] \in [Tasks -> Row]
      <3>1. batch[u] \cup todo[u] # {}
        <4>1. CASE u = s BY <1>1, <4>1
        <4>2. CASE u # s BY <1>5, <2>2, <4>2
        <4> QED BY <4>1, <4>2
      <3> QED BY <1>1, <3>1 DEF IInv, TypeOK
    <2>3. /\ op' \in [Sessions -> Requests \cup Jobs \cup {None}]
          /\ DOMAIN snap' = Sessions
          /\ task' \in [Tasks -> Row]
          /\ rowLock' \in [Tasks -> Sessions \cup {None}]
      BY <1>1 DEF IInv, TypeOK
    <2> QED BY <1>3, <2>1, <2>2, <2>3 DEF TypeOK
  <1>7. ASSUME NEW u \in Sessions PROVE Decided(u)' /\ InOrder(u)'
    <2>0. TableMoves BY <1>1, TableStays
    <2>1. CASE u = s
      <3>1. Decided(u)' BY <1>1, <1>4, <2>0, <2>1, DecidedKept
      <3> QED BY <1>4, <2>1, <3>1 DEF InOrder
    <2>2. CASE u # s
      <3>1. Decided(u)' BY <1>1, <1>5, <2>0, <2>2, DecidedKept
      <3> QED BY <1>1, <1>5, <2>2, <3>1 DEF IInv, InOrder
    <2> QED BY <2>1, <2>2
  <1>8. TableMoves BY <1>1, TableStays
  <1> QED BY <1>6, <1>7, <1>8 DEF IInv, TableMoves

\* From the list to the flush, and from the flush to the commit.
LEMMA FlushSound ==
    ASSUME IInv, NEW s \in Sessions, AllTaken(s) \/ Flush(s)
    PROVE  IInv'
  <1>1. CASE AllTaken(s)
    <2>1. /\ pc[s] = "taking" /\ Goto(s, "flushing")
          /\ UNCHANGED <<task, rowLock, redis, local>>
      BY <1>1 DEF AllTaken
    <2>2. /\ rowLock' \in [Tasks -> Sessions \cup {None}]
          /\ redis' \in [Tasks -> Users \cup {AutoHolder, None}]
      BY <2>1 DEF IInv, TypeOK
    <2> QED BY <2>1, <2>2, GotoSound DEF Labels
  <1>2. CASE Flush(s)
    <2> DEFINE label == IF op[s].kind = "claim" THEN "unlocking" ELSE "committing"
    <2>1. /\ pc[s] = "flushing" /\ Goto(s, label) /\ UNCHANGED <<task, redis, local>>
          /\ rowLock' = [t \in Tasks |-> IF t \in batch[s] THEN s ELSE rowLock[t]]
      BY <1>2 DEF Flush
    <2>2. /\ rowLock' \in [Tasks -> Sessions \cup {None}]
          /\ redis' \in [Tasks -> Users \cup {AutoHolder, None}]
      BY <2>1 DEF IInv, TypeOK
    <2>3. label \in Labels \ {"idle", "locking"} /\ label \notin {"asking", "reading"}
      BY DEF Labels
    <2> HIDE DEF label
    <2> QED BY <2>1, <2>2, <2>3, GotoSound
  <1> QED BY <1>1, <1>2

\* A commit lays columns over rows that followed the ones it read: safe.
LEMMA CommitSound ==
    ASSUME IInv, NEW s \in Sessions, Commit(s)
    PROVE  IInv'
  <1>1. /\ pc[s] = "committing" /\ Close(s) /\ UNCHANGED redis
        /\ task' = [t \in Tasks |->
                      IF t \in batch[s] THEN Overlaid(op[s], snap[s][t], task[t])
                                        ELSE task[t]]
    BY DEF Commit
  <1>2. redis' \in [Tasks -> Users \cup {AutoHolder, None}] BY <1>1 DEF IInv, TypeOK
  <1>3. ASSUME NEW t \in Tasks
        PROVE  task'[t] \in Row /\ SafeRow(task'[t]) /\ Follows(task[t], task'[t])
    <2>1. task[t] \in Row /\ SafeRow(task[t]) BY DEF IInv, TypeOK
    <2>2. CASE t \in batch[s]
      <3>1. op[s] \in Requests \cup Jobs BY <1>1 DEF IInv, TypeOK
      <3>2. snap[s][t] \in Row BY <2>2 DEF IInv, TypeOK
      <3>3. Selects(op[s], snap[s][t]) /\ Follows(snap[s][t], task[t])
        BY <2>2 DEF IInv, Decided
      <3>4. Overlaid(op[s], snap[s][t], task[t]) \in Row
        BY <2>1, <3>1, <3>2, OverlaidRow
      <3>5. /\ SafeRow(Overlaid(op[s], snap[s][t], task[t]))
            /\ Follows(task[t], Overlaid(op[s], snap[s][t], task[t]))
        BY <2>1, <3>1, <3>2, <3>3, OverlaidSafe
      <3>6. task'[t] = Overlaid(op[s], snap[s][t], task[t]) BY <1>1, <2>2
      <3> QED BY <3>4, <3>5, <3>6
    <2>3. CASE t \notin batch[s]
      <3>1. task'[t] = task[t] BY <1>1, <2>3
      <3> QED BY <2>1, <3>1, FollowsReflexive
    <2> QED BY <2>2, <2>3
  <1>4. TableMoves BY <1>1, <1>3 DEF TableMoves
  <1> QED BY <1>1, <1>2, <1>4, CloseSound

\* Death of a worker, expiry of a lock, passing of time.
LEMMA AccidentSound ==
    ASSUME IInv,
           \/ \E s \in Sessions : Abort(s)
           \/ \E t \in Tasks : LockExpires(t) \/ TimePasses(t)
    PROVE  IInv'
  <1>1. ASSUME NEW s \in Sessions, Abort(s) PROVE IInv'
    <2>1. Close(s) /\ UNCHANGED <<task, redis>> BY <1>1 DEF Abort
    <2>2. redis' \in [Tasks -> Users \cup {AutoHolder, None}] BY <2>1 DEF IInv, TypeOK
    <2>3. TableMoves BY <2>1, TableStays
    <2> QED BY <2>1, <2>2, <2>3, CloseSound
  <1>2. ASSUME TableMoves, UNCHANGED <<rowLock, pc, local>>,
               redis' \in [Tasks -> Users \cup {AutoHolder, None}]
        PROVE  IInv'
    <2>1. /\ rowLock' \in [Tasks -> Sessions \cup {None}]
          /\ pc' \in [Sessions -> Labels]
          /\ op' \in [Sessions -> Requests \cup Jobs \cup {None}]
          /\ key' \in [Sessions -> Tasks \cup {None}]
          /\ DOMAIN snap' = Sessions
          /\ todo' \in [Sessions -> SUBSET Tasks]
          /\ batch' \in [Sessions -> SUBSET Tasks]
      BY <1>2 DEF IInv, TypeOK, local
    <2>2. /\ \A u \in Sessions : pc'[u] # "idle" =>
                \/ op'[u] \in Requests /\ key'[u] \in Tasks
                \/ op'[u] \in Jobs
          /\ \A u \in Sessions : batch'[u] \cup todo'[u] # {} => snap'[u] \in [Tasks -> Row]
      BY <1>2 DEF IInv, TypeOK, local
    <2>3. TypeOK' BY <1>2, <2>1, <2>2 DEF TypeOK, TableMoves
    <2>4. ASSUME NEW u \in Sessions PROVE Decided(u)' /\ InOrder(u)'
      <3>1. Decided(u)' BY <1>2, DecidedKept DEF local
      <3>2. InOrder(u)' BY <1>2 DEF IInv, InOrder, local
      <3> QED BY <3>1, <3>2
    <2> QED BY <1>2, <2>3, <2>4 DEF IInv, TableMoves
  <1>3. ASSUME NEW t \in Tasks, LockExpires(t) PROVE IInv'
    <2>1. UNCHANGED <<task, rowLock, pc, local>> /\ redis' = [redis EXCEPT ![t] = None]
      BY <1>3 DEF LockExpires
    <2>2. redis' \in [Tasks -> Users \cup {AutoHolder, None}] BY <2>1 DEF IInv, TypeOK
    <2>3. TableMoves BY <2>1, TableStays
    <2> QED BY <1>2, <2>1, <2>2, <2>3
  <1>4. ASSUME NEW t \in Tasks, TimePasses(t) PROVE IInv'
    <2>1. PICK new : /\ Elapse(t, new)
                     /\ \/ new = [task[t] EXCEPT !.aged = TRUE]
                        \/ new = [task[t] EXCEPT !.claim_timeout_at = "due"]
                        \/ new = [task[t] EXCEPT !.inactivity_timeout_at = "due"]
      BY <1>4 DEF TimePasses
    <2>2. task[t] \in Row /\ SafeRow(task[t]) BY DEF IInv, TypeOK
    <2>3. new \in Row /\ SafeRow(new) /\ Follows(task[t], new)
      BY <2>1, <2>2, ElapsedSafe
    <2>4. task' = [task EXCEPT ![t] = new] /\ UNCHANGED <<rowLock, redis, pc, local>>
      BY <2>1 DEF Elapse
    <2>5. task' \in [Tasks -> Row] BY <2>3, <2>4 DEF IInv, TypeOK
    <2>6. ASSUME NEW u \in Tasks PROVE SafeRow(task'[u]) /\ Follows(task[u], task'[u])
      <3>1. CASE u = t
        <4>1. task'[u] = new BY <2>4, <3>1 DEF IInv, TypeOK
        <4> QED BY <2>3, <3>1, <4>1
      <3>2. CASE u # t
        <4>1. task'[u] = task[u] BY <2>4, <3>2 DEF IInv, TypeOK
        <4> QED BY <4>1, FollowsReflexive DEF IInv
      <3> QED BY <3>1, <3>2
    <2>7. TableMoves BY <2>5, <2>6 DEF TableMoves
    <2>8. redis' \in [Tasks -> Users \cup {AutoHolder, None}] BY <2>4 DEF IInv, TypeOK
    <2> QED BY <1>2, <2>4, <2>7, <2>8
  <1> QED BY <1>1, <1>3, <1>4

----------------------------------------------------------------------------

\* A table of fresh pending tasks with no session open is sound.
LEMMA InitSound == Init => IInv
  <1> SUFFICES ASSUME Init PROVE IInv OBVIOUS
  <1>1. ASSUME NEW t \in Tasks PROVE task[t] \in Row /\ SafeRow(task[t])
    <2>1. PICK d \in Departments, s \in Strategies : task[t] = RowOf("pending", d, s)
      BY DEF Init
    <2>2. RowOf("pending", d, s) \in Row BY MaxSeqAssumption, SMT DEF RowOf, Row, Status, Deadline
    <2>3. SafeRow(RowOf("pending", d, s))
      BY SMT DEF SafeRow, ArmedRow, EligibleRow, RowOf
    <2> QED BY <2>1, <2>2, <2>3
  <1>2. task \in [Tasks -> Row]
    <2>1. task \in [Tasks -> {RowOf("pending", d, s) : d \in Departments, s \in Strategies}]
      BY DEF Init
    <2>2. \A t \in Tasks : task[t] \in Row BY <1>1
    <2> QED BY <2>1, <2>2
  <1>3. TypeOK BY <1>2 DEF Init, TypeOK, Labels
  <1>4. \A s \in Sessions : Decided(s) /\ InOrder(s) BY DEF Init, Decided, InOrder
  <1> QED BY <1>1, <1>3, <1>4 DEF IInv

\* Every step keeps the invariant, one lemma per action.
LEMMA NextSound == IInv /\ [Next]_vars => IInv'
  <1> SUFFICES ASSUME IInv, [Next]_vars PROVE IInv' OBVIOUS
  <1>1. CASE UNCHANGED vars
    <2>1. UNCHANGED <<task, rowLock, redis, pc, op, key, todo, batch, snap>>
      BY <1>1 DEF vars
    <2>2. TypeOK' BY <2>1 DEF IInv, TypeOK
    <2>3. \A u \in Sessions : Decided(u)' /\ InOrder(u)' BY <2>1 DEF IInv, Decided, InOrder
    <2> QED BY <2>1, <2>2, <2>3 DEF IInv
  <1>2. ASSUME NEW s \in Sessions, Step(s) PROVE IInv'
    <2>1. CASE \E o \in Requests, t \in Tasks : Arrive(s, o, t) BY <2>1, ArriveSound
    <2>2. CASE \E o \in Jobs : Fire(s, o) BY <2>2, FireSound
    <2>3. CASE Progress(s)
      <3>1. CASE TryLock(s) BY <3>1, TryLockSound
      <3>2. CASE AskHolder(s) BY <3>2, AskHolderSound
      <3>3. CASE CheckHolder(s) \/ DeleteLock(s) BY <3>3, UnlockSound
      <3>4. CASE ReadRow(s) BY <3>4, ReadRowSound
      <3>5. CASE SelectRows(s) BY <3>5, SelectRowsSound
      <3>6. CASE AllTaken(s) \/ Flush(s) BY <3>6, FlushSound
      <3>7. CASE Commit(s) BY <3>7, CommitSound
      <3>8. CASE \E t \in Tasks : TakeNext(s, t) BY <3>8, TakeNextSound
      <3> QED BY <2>3, <3>1, <3>2, <3>3, <3>4, <3>5, <3>6, <3>7, <3>8 DEF Progress
    <2>4. CASE Abort(s) BY <2>4, AccidentSound
    <2> QED BY <1>2, <2>1, <2>2, <2>3, <2>4 DEF Step
  <1>3. CASE \E t \in Tasks : LockExpires(t) \/ TimePasses(t) BY <1>3, AccidentSound
  <1> QED BY <1>1, <1>2, <1>3 DEF Next

\* The inductive invariant holds of every interleaving.
THEOREM Soundness == Spec => []IInv
  BY InitSound, NextSound, PTL DEF Spec

\* The types of the table, the locks and the sessions (every action).
THEOREM TypeCorrect == Spec => []TypeOK
  <1>1. IInv => TypeOK BY DEF IInv
  <1> QED BY <1>1, Soundness, PTL

\* The deadline column of its status is set in every claimed, assigned or processing
\* task (claim_timeout_at, inactivity_timeout_at), however stale the rows that
\* handlers and jobs wrote.  It says nothing of a job that reads the column: for
\* assigned_auto there is none.
THEOREM Armed == Spec => []HeldTasksHaveDeadlines
  <1>1. IInv => HeldTasksHaveDeadlines BY DEF IInv, SafeRow, HeldTasksHaveDeadlines
  <1> QED BY <1>1, Soundness, PTL

\* auto_fallback_assign never takes a manual task or one younger than ten
\* minutes, although it writes rows it read before it locked them.
THEOREM Eligible == Spec => []AutoOnlyWhenEligible
  <1>1. IInv => AutoOnlyWhenEligible BY DEF IInv, SafeRow, AutoOnlyWhenEligible
  <1> QED BY <1>1, Soundness, PTL

\* A completed task has a result, whatever was laid over its row.
THEOREM Results == Spec => []CompletedHasResult
  <1>1. IInv => CompletedHasResult BY DEF IInv, SafeRow, CompletedHasResult
  <1> QED BY <1>1, Soundness, PTL

----------------------------------------------------------------------------
(* What the interleaving costs.                                            *)

\* One step of the sessions does to one row what a handler does as a whole,
\* unless it is the commit of a session that was overtaken there.
LEMMA StepLawful ==
    ASSUME IInv, [Next]_vars, NEW t \in Tasks
    PROVE  \/ LawfulStep(t)
           \/ \E s \in Sessions :
                 pc[s] = "committing" /\ pc'[s] = "idle" /\ Overtaken(s, t)
  <1>1. CASE UNCHANGED task BY <1>1 DEF LawfulStep
  <1>2. ASSUME NEW s \in Sessions, Commit(s)
        PROVE  LawfulStep(t) \/ (pc[s] = "committing" /\ pc'[s] = "idle" /\ Overtaken(s, t))
    <2>1. /\ pc[s] = "committing" /\ pc'[s] = "idle"
          /\ task'[t] = IF t \in batch[s] THEN Overlaid(op[s], snap[s][t], task[t])
                                          ELSE task[t]
      BY <1>2 DEF Commit, Close, Goto, IInv, TypeOK
    <2>2. CASE t \notin batch[s] BY <2>1, <2>2 DEF LawfulStep
    <2>3. CASE t \in batch[s] /\ OnlyAged(snap[s][t], task[t])
      <3>1. /\ op[s] \in Requests \cup Jobs /\ task[t] \in Row /\ snap[s][t] \in Row
            /\ Selects(op[s], snap[s][t])
        BY <2>1, <2>3 DEF IInv, TypeOK, Decided
      <3>2. task'[t] = Written(op[s], task[t]) BY <2>1, <2>3, <3>1, OverlaidIsWritten
      <3>3. Selects(op[s], task[t]) BY <2>3, <3>1, StillSelected
      <3>4. Alone(t)!Next BY <3>1, <3>2, <3>3, WrittenLawful
      <3> QED BY <3>4 DEF LawfulStep
    <2>4. CASE t \in batch[s] /\ ~OnlyAged(snap[s][t], task[t])
      BY <2>1, <2>4 DEF Overtaken
    <2> QED BY <2>2, <2>3, <2>4
  <1>3. ASSUME NEW u \in Tasks, TimePasses(u) PROVE LawfulStep(t)
    <2>1. CASE u = t
      <3>1. task \in [Tasks -> Row] /\ task[t].status # "absent"
        BY DEF IInv, TypeOK, SafeRow
      <3> QED BY <1>3, <2>1, <3>1, ElapsedLawful DEF LawfulStep
    <2>2. CASE u # t
      <3>1. task'[t] = task[t] BY <1>3, <2>2 DEF TimePasses, Elapse, IInv, TypeOK
      <3> QED BY <3>1 DEF LawfulStep
    <2> QED BY <2>1, <2>2
  <1>4. ASSUME NEW s \in Sessions, Step(s), ~Commit(s) PROVE UNCHANGED task
    BY <1>4 DEF Step, Progress, Arrive, Fire, TryLock, AskHolder, CheckHolder, DeleteLock,
       ReadRow, SelectRows, TakeNext, AllTaken, Flush, Abort
  <1>5. ASSUME NEW u \in Tasks, LockExpires(u) PROVE UNCHANGED task
    BY <1>5 DEF LockExpires
  <1>6. CASE UNCHANGED vars BY <1>1, <1>6 DEF vars
  <1> QED BY <1>1, <1>2, <1>3, <1>4, <1>5, <1>6 DEF Next

\* Interleaved at their awaits, handlers and jobs do to a row what they do as
\* a whole, except where get_db commits on a row that another session has
\* written since the handler read it.
THEOREM OvertakenOnly == Spec => OnlyOvertakenCommitsAreUnlawful
  <1>1. ASSUME IInv, [Next]_vars
        PROVE  \A t \in Tasks :
                  \/ LawfulStep(t)
                  \/ \E s \in Sessions :
                        pc[s] = "committing" /\ pc'[s] = "idle" /\ Overtaken(s, t)
    BY <1>1, StepLawful
  <1> QED BY <1>1, Soundness, PTL DEF Spec, OnlyOvertakenCommitsAreUnlawful

----------------------------------------------------------------------------
(* One session at a time.                                                  *)

\* Nobody has written what the session read.
Current(s) == \A t \in batch[s] \cup todo[s] : OnlyAged(snap[s][t], task[t])

\* A row that has only aged and ages on has only aged.
LEMMA AgesOn ==
    ASSUME NEW old \in Row, NEW row \in Row, OnlyAged(old, row), NEW new,
           \/ new = [row EXCEPT !.aged = TRUE]
           \/ row.claim_timeout_at = "running" /\ new = [row EXCEPT !.claim_timeout_at = "due"]
           \/ /\ row.inactivity_timeout_at = "running"
              /\ new = [row EXCEPT !.inactivity_timeout_at = "due"]
    PROVE  OnlyAged(old, new)
  <1>1. DOMAIN row = Columns BY SMT DEF Row, Columns
  <1>2. DOMAIN new = Columns BY <1>1
  <1>3. \A c \in Columns \ {"aged", "claim_timeout_at", "inactivity_timeout_at"} :
           new[c] = row[c]
    BY <1>1 DEF Columns
  <1>4. old.aged => new.aged BY <1>1 DEF OnlyAged, Columns
  <1>5. \A c \in Clocks : new[c] = row[c] \/ (row[c] = "running" /\ new[c] = "due")
    BY <1>1 DEF Clocks, Columns
  <1> QED BY <1>1, <1>2, <1>3, <1>4, <1>5 DEF OnlyAged, Clocks

\* A session is overtaken by nothing but the commit of another one.
LEMMA OnlyCommitsOvertake ==
    ASSUME IInv, [Next]_vars, NEW s \in Sessions, Current(s),
           \A z \in Sessions : z # s => ~Commit(z)
    PROVE  Current(s)'
  <1> SUFFICES ASSUME NEW t \in batch'[s] \cup todo'[s]
               PROVE  OnlyAged(snap'[s][t], task'[t])
    BY DEF Current
  <1>0. \A row : OnlyAged(row, row) BY DEF OnlyAged
  <1>1. CASE UNCHANGED vars BY <1>1 DEF vars, Current
  <1>2. ASSUME NEW u \in Tasks, TimePasses(u)
        PROVE  OnlyAged(snap'[s][t], task'[t])
    <2>1. t \in batch[s] \cup todo[s] /\ snap'[s] = snap[s]
      BY <1>2 DEF TimePasses, Elapse, local
    <2>2. t \in Tasks /\ task[t] \in Row /\ snap[s][t] \in Row
      BY <2>1 DEF IInv, TypeOK
    <2>3. OnlyAged(snap[s][t], task[t]) BY <2>1 DEF Current
    <2>4. CASE u # t
      <3>1. task'[t] = task[t] BY <1>2, <2>2, <2>4 DEF TimePasses, Elapse, IInv, TypeOK
      <3> QED BY <2>1, <2>3, <3>1
    <2>5. CASE u = t
      <3>1. \/ task'[t] = [task[t] EXCEPT !.aged = TRUE]
            \/ /\ task[t].claim_timeout_at = "running"
               /\ task'[t] = [task[t] EXCEPT !.claim_timeout_at = "due"]
            \/ /\ task[t].inactivity_timeout_at = "running"
               /\ task'[t] = [task[t] EXCEPT !.inactivity_timeout_at = "due"]
        BY <1>2, <2>2, <2>5 DEF TimePasses, Elapse, IInv, TypeOK
      <3> QED BY <2>1, <2>2, <2>3, <3>1, AgesOn
    <2> QED BY <2>4, <2>5
  <1>3. ASSUME NEW u \in Tasks, LockExpires(u)
        PROVE  OnlyAged(snap'[s][t], task'[t])
    BY <1>3 DEF LockExpires, local, Current
  <1>4. ASSUME NEW z \in Sessions, Close(z), task' = task \/ z = s
        PROVE  OnlyAged(snap'[s][t], task'[t])
    <2>1. z # s BY <1>4 DEF Close, IInv, TypeOK
    <2>2. snap'[s] = snap[s] /\ batch'[s] = batch[s] /\ todo'[s] = todo[s]
      BY <1>4, <2>1 DEF Close, IInv, TypeOK
    <2> QED BY <1>4, <2>1, <2>2 DEF Current
  <1>5. ASSUME UNCHANGED <<task, batch, todo, snap>>
        PROVE  OnlyAged(snap'[s][t], task'[t])
    BY <1>5 DEF Current
  <1>6. ASSUME NEW z \in Sessions, ReadRow(z) \/ SelectRows(z)
        PROVE  OnlyAged(snap'[s][t], task'[t])
    <2>1. task' = task BY <1>6 DEF ReadRow, SelectRows
    <2>2. \/ Close(z)
          \/ UNCHANGED <<batch, todo, snap>>
          \/ snap' = [snap EXCEPT ![z] = task]
      BY <1>6 DEF ReadRow, SelectRows, local
    <2>3. CASE Close(z) BY <1>4, <2>1, <2>3
    <2>4. CASE UNCHANGED <<batch, todo, snap>> BY <1>5, <2>1, <2>4
    <2>5. CASE snap' = [snap EXCEPT ![z] = task]
      <3>1. CASE z = s BY <1>0, <2>1, <2>5, <3>1 DEF IInv, TypeOK
      <3>2. CASE z # s
        <4>1. snap'[s] = snap[s] BY <2>5, <3>2 DEF IInv, TypeOK
        <4>2. batch'[s] = batch[s] /\ todo'[s] = todo[s]
          BY <1>6, <3>2 DEF ReadRow, SelectRows, Close, local, IInv, TypeOK
        <4> QED BY <2>1, <4>1, <4>2 DEF Current
      <3> QED BY <3>1, <3>2
    <2> QED BY <2>2, <2>3, <2>4, <2>5
  <1>7. ASSUME NEW z \in Sessions, NEW u \in Tasks, TakeNext(z, u)
        PROVE  OnlyAged(snap'[s][t], task'[t])
    <2>1. UNCHANGED <<task, snap>> /\ u \in todo[z] BY <1>7 DEF TakeNext
    <2>2. todo' = [todo EXCEPT ![z] = @ \ {u}]
          /\ (batch' = [batch EXCEPT ![z] = @ \cup {u}] \/ batch' = batch)
      BY <1>7 DEF TakeNext
    <2>3. t \in batch[s] \cup todo[s]
      <3>1. CASE z = s BY <2>1, <2>2, <3>1 DEF IInv, TypeOK
      <3>2. CASE z # s BY <2>2, <3>2 DEF IInv, TypeOK
      <3> QED BY <3>1, <3>2
    <2> QED BY <2>1, <2>3 DEF Current
  <1>8. ASSUME NEW z \in Sessions, Step(z) PROVE OnlyAged(snap'[s][t], task'[t])
    <2>1. CASE (\E o \in Requests, u \in Tasks : Arrive(z, o, u)) \/ (\E o \in Jobs : Fire(z, o))
      BY <1>5, <2>1 DEF Arrive, Fire
    <2>2. CASE TryLock(z) \/ AllTaken(z) \/ Flush(z)
      BY <1>5, <2>2 DEF TryLock, AllTaken, Flush, local
    <2>3. CASE AskHolder(z) \/ CheckHolder(z) \/ DeleteLock(z)
      <3>1. task' = task /\ (Close(z) \/ UNCHANGED <<batch, todo, snap>>)
        BY <2>3 DEF AskHolder, CheckHolder, DeleteLock, AfterUnlock, local
      <3> QED BY <1>4, <1>5, <3>1
    <2>4. CASE Commit(z)
      <3>1. z = s /\ Close(z) BY <2>4 DEF Commit
      <3> QED BY <1>4, <3>1
    <2>5. CASE Abort(z) BY <1>4, <2>5 DEF Abort
    <2> QED BY <1>6, <1>7, <1>8, <2>1, <2>2, <2>3, <2>4, <2>5 DEF Step, Progress
  <1> QED BY <1>1, <1>2, <1>3, <1>8 DEF Next

\* With one session at a time (one worker that awaits nothing in between) every
\* request and job, timeout and crash is what TaskLifecycle makes of it as a
\* whole: the interleaving is all that the races of the handlers come from.
THEOREM SerialLawful ==
    ASSUME \A s, z \in Sessions : s = z
    PROVE  Spec => [][\A t \in Tasks : LawfulStep(t)]_vars
  <1> DEFINE Fresh == \A s \in Sessions : Current(s)
  <1>1. Init => Fresh BY DEF Init, Current
  <1>2. IInv /\ Fresh /\ [Next]_vars => Fresh'
    <2> SUFFICES ASSUME IInv, Fresh, [Next]_vars, NEW s \in Sessions PROVE Current(s)'
      OBVIOUS
    <2>1. \A z \in Sessions : z # s => ~Commit(z) OBVIOUS
    <2> QED BY <2>1, OnlyCommitsOvertake
  <1>3. IInv /\ Fresh /\ [Next]_vars => [\A t \in Tasks : LawfulStep(t)]_vars
    <2> SUFFICES ASSUME IInv, Fresh, [Next]_vars, NEW t \in Tasks PROVE LawfulStep(t)
      OBVIOUS
    <2>1. \A s \in Sessions : ~Overtaken(s, t) BY DEF Overtaken, Current
    <2> QED BY <2>1, StepLawful
  <1> HIDE DEF Fresh
  <1> QED BY <1>1, <1>2, <1>3, Soundness, PTL DEF Spec

----------------------------------------------------------------------------
(* The races the documents exclude.                                        *)

\* What a whole handler, job or passing of time never does to a row: hand a
\* held task to another user, or take a completed one back.
NoHandOver(old, new) ==
    old.status \in Held /\ new.status \in Held => new.assignee = old.assignee
StaysCompleted(old, new) == old.status = "completed" => new.status = "completed"

\* Whatever TaskLifecycle does to a row leaves its holder and its completion.
LEMMA LawfulOutcome ==
    ASSUME NEW t \in Tasks, task[t] \in Row, task'[t] \in Row, LawfulStep(t)
    PROVE  NoHandOver(task[t], task'[t]) /\ StaysCompleted(task[t], task'[t])
  <1> DEFINE Good == NoHandOver(task[t], task'[t]) /\ StaysCompleted(task[t], task'[t])
  <1>1. CASE task'[t] = task[t] BY <1>1 DEF NoHandOver, StaysCompleted
  <1>2. ASSUME NEW x \in {t}, Alone(t)!Request(x) PROVE Good
    <2>1. CASE \E me \in Users, d \in Departments, s \in Strategies : Alone(t)!CreateTask(x, me, d, s)
      <3>1. task[t].status = "absent" BY <2>1 DEF Alone!CreateTask, Alone!Exists
      <3> QED BY <3>1 DEF NoHandOver, StaysCompleted, Held
    <2>2. CASE \E u \in Users : Alone(t)!ClaimTask(x, u)
      <3>1. task[t].status = "pending" BY <2>2 DEF Alone!ClaimTask, Alone!Claimable
      <3> QED BY <3>1 DEF NoHandOver, StaysCompleted, Held
    <2>3. CASE \E me \in Users : Alone(t)!StartTask(x, me)
      <3>1. task[t].status \in {"claimed", "assigned_auto"}
        BY <2>3 DEF Alone!StartTask, Alone!Startable
      <3>2. task'[t] = Started(task[t])
        BY <2>3 DEF Alone!StartTask, Alone!Started, Alone!Update, Started
      <3>3. task'[t].assignee = task[t].assignee BY <3>2, SMT DEF Started, Row
      <3> QED BY <3>1, <3>3 DEF NoHandOver, StaysCompleted, Held
    <2>4. CASE \E seq \in 1..MaxSeq, pct \in Pcts : Alone(t)!ReportProgress(x, seq, pct)
      <3>1. PICK seq \in 1..MaxSeq, pct \in Pcts : Alone(t)!ReportProgress(t, seq, pct)
        BY <2>4
      <3>2. task'[t] = Reported(task[t], seq, pct)
        BY <3>1 DEF Alone!ReportProgress, Alone!Reported, Alone!Update, Reported
      <3>3. task'[t].status = task[t].status /\ task'[t].assignee = task[t].assignee
        BY <3>2, SMT DEF Reported, Row
      <3> QED BY <3>3 DEF NoHandOver, StaysCompleted, Held
    <2>5. CASE \E me \in Users, hash \in Hashes, model \in Models \cup {None} :
                  Alone(t)!SubmitResult(x, me, hash, model)
      <3>1. PICK me \in Users, hash \in Hashes, model \in Models \cup {None} :
               Alone(t)!SubmitResult(t, me, hash, model)
        BY <2>5
      <3>2. task'[t] = Submitted(task[t], hash, model)
        BY <3>1 DEF Alone!SubmitResult, Alone!Submitted, Alone!Update, Submitted
      <3>3. task'[t].status = "completed" BY <3>2, SMT DEF Submitted, Row
      <3> QED BY <3>3 DEF NoHandOver, StaysCompleted, Held
    <2>6. CASE \E me \in Users : Alone(t)!ReleaseTask(x, me)
      <3>1. task[t].status \in {"claimed", "assigned_auto"} /\ task'[t].status = "pending"
        BY <2>6 DEF Alone!ReleaseTask, Alone!Releasable, Alone!Released, Alone!Update, Row
      <3> QED BY <3>1 DEF NoHandOver, StaysCompleted, Held
    <2>7. CASE \E me \in Users, model \in Models : Alone(t)!OverrideModel(x, me, model)
      <3>1. task'[t].status = task[t].status /\ task'[t].assignee = task[t].assignee
        BY <2>7 DEF Alone!OverrideModel, Alone!Overridden, Alone!Update, Row
      <3> QED BY <3>1 DEF NoHandOver, StaysCompleted, Held
    <2> QED BY <1>2, <2>1, <2>2, <2>3, <2>4, <2>5, <2>6, <2>7 DEF Alone!Request, Alone!Strategies, Strategies
  <1>3. CASE Alone(t)!Job
    <2>1. CASE Alone(t)!CheckClaimTimeouts
      <3>1. ClaimOverdue(task[t]) /\ task'[t] = Released(task[t])
        BY <2>1 DEF Alone!CheckClaimTimeouts, Alone!Rewrite, Alone!ClaimOverdue, Alone!Released,
           ClaimOverdue, Released
      <3>2. task[t].status = "claimed" /\ task'[t].status = "pending"
        BY <3>1, SMT DEF ClaimOverdue, Released, Row
      <3> QED BY <3>2 DEF NoHandOver, StaysCompleted, Held
    <2>2. CASE Alone(t)!CheckInactivityTimeouts
      <3>1. WorkOverdue(task[t]) /\ task'[t] = Reclaimed(task[t])
        BY <2>2 DEF Alone!CheckInactivityTimeouts, Alone!Rewrite, Alone!WorkOverdue,
           Alone!Reclaimed, WorkOverdue, Reclaimed
      <3>2. task[t].status = "processing" /\ task'[t].status = "pending"
        BY <3>1, SMT DEF WorkOverdue, Reclaimed, Row
      <3> QED BY <3>2 DEF NoHandOver, StaysCompleted, Held
    <2>3. CASE Alone(t)!SomeFallbackAssign
      <3>1. task[t].status = "pending"
        BY <2>3 DEF Alone!SomeFallbackAssign, Alone!AutoFallbackAssign, Alone!FallbackReady
      <3> QED BY <3>1 DEF NoHandOver, StaysCompleted, Held
    <2>4. CASE \E stale \in SUBSET Agents : Alone(t)!ReleaseAgentTasks(stale)
      <3>1. (\E u : HeldBy(task[t], u)) /\ task'[t] = Released(task[t])
        BY <2>4 DEF Alone!ReleaseAgentTasks, Alone!Rewrite, Alone!HeldBy, Alone!Released,
           Alone!Held, HeldBy, Released, Held
      <3>2. task[t].status \in Held /\ task'[t].status = "pending"
        BY <3>1, SMT DEF HeldBy, Released, Row
      <3> QED BY <3>2 DEF NoHandOver, StaysCompleted, Held
    <2> QED BY <1>3, <2>1, <2>2, <2>3, <2>4 DEF Alone!Job
  <1>4. ASSUME NEW x \in {t}, Alone(t)!TimePasses(x) PROVE Good
    <2>1. task'[t].status = task[t].status /\ task'[t].assignee = task[t].assignee
      BY <1>4 DEF Alone!TimePasses, Alone!TenMinutesPass, Alone!ClaimWindowEnds,
         Alone!InactivityWindowEnds, Alone!Update, Row
    <2> QED BY <2>1 DEF NoHandOver, StaysCompleted
  <1> QED BY <1>1, <1>2, <1>3, <1>4 DEF LawfulStep, Alone!Next

\* The race behind PRD 7.3: a held task changes hands, or a completed one comes
\* back, only where a commit meets a row that was written after its read.
THEOREM RacesAreOvertakings ==
    Spec => [][\A t \in Tasks :
                  \/ NoHandOver(task[t], task'[t]) /\ StaysCompleted(task[t], task'[t])
                  \/ \E s \in Sessions : pc[s] = "committing" /\ Overtaken(s, t)]_vars
  <1>1. ASSUME IInv, IInv', [Next]_vars, NEW t \in Tasks
        PROVE  \/ NoHandOver(task[t], task'[t]) /\ StaysCompleted(task[t], task'[t])
               \/ \E s \in Sessions : pc[s] = "committing" /\ Overtaken(s, t)
    <2>1. task[t] \in Row /\ task'[t] \in Row BY <1>1 DEF IInv, TypeOK
    <2>2. CASE LawfulStep(t) BY <2>1, <2>2, LawfulOutcome
    <2> QED BY <1>1, <2>2, StepLawful
  <1>2. IInv /\ IInv' /\ [Next]_vars =>
          [\A t \in Tasks :
              \/ NoHandOver(task[t], task'[t]) /\ StaysCompleted(task[t], task'[t])
              \/ \E s \in Sessions : pc[s] = "committing" /\ Overtaken(s, t)]_vars
    BY <1>1
  <1> QED BY <1>2, Soundness, PTL DEF Spec

\* One session at a time, exactly one of two claims succeeds (PRD 7.3).
THEOREM SerialClaims ==
    ASSUME \A s, z \in Sessions : s = z
    PROVE  Spec => OneClaimSucceeds
  <1>1. IInv /\ IInv' /\ [\A t \in Tasks : LawfulStep(t)]_vars =>
          [\A t \in Tasks :
              task[t].status \in Held /\ task'[t].status \in Held
                 => task'[t].assignee = task[t].assignee]_vars
    BY LawfulOutcome DEF IInv, TypeOK, NoHandOver
  <1>2. Spec => [][\A t \in Tasks : LawfulStep(t)]_vars BY SerialLawful
  <1> QED BY <1>1, <1>2, Soundness, PTL DEF OneClaimSucceeds

\* One session at a time, a completed task stays completed.
THEOREM SerialCompletion ==
    ASSUME \A s, z \in Sessions : s = z
    PROVE  Spec => CompletedIsFinal
  <1>1. IInv /\ IInv' /\ [\A t \in Tasks : LawfulStep(t)]_vars =>
          [\A t \in Tasks :
              task[t].status = "completed" => task'[t].status = "completed"]_vars
    BY LawfulOutcome DEF IInv, TypeOK, StaysCompleted
  <1>2. Spec => [][\A t \in Tasks : LawfulStep(t)]_vars BY SerialLawful
  <1> QED BY <1>1, <1>2, Soundness, PTL DEF CompletedIsFinal

\* What a handler or job writes to a sound row it selects is a good step of it.
LEMMA WrittenGood ==
    ASSUME NEW o \in Requests \cup Jobs, NEW row, SoundRow(row), Selects(o, row)
    PROVE  GoodStep(row, Written(o, row))
  <1>0. row \in Row BY DEF SoundRow
  <1>1. CASE o.kind = "claim"
    <2>1. o.user \in Users BY <1>1, SMT DEF Requests, Jobs
    <2>2. Claimable(row) /\ Written(o, row) = Claimed(row, o.user)
      BY <1>1, SMT DEF Selects, Written
    <2> QED BY <2>1, <2>2, ClaimedSound
  <1>2. CASE o.kind = "start"
    <2>1. Startable(row, o.user) /\ Written(o, row) = Started(row)
      BY <1>2, SMT DEF Selects, Written
    <2> QED BY <2>1, StartedSound DEF Startable
  <1>3. CASE o.kind = "progress"
    <2>1. o.seq \in 1..MaxSeq /\ o.pct \in Pcts BY <1>3, SMT DEF Requests, Jobs
    <2>2. FreshReport(row, o.seq) /\ Written(o, row) = Reported(row, o.seq, o.pct)
      BY <1>3, SMT DEF Selects, Written
    <2> QED BY <2>1, <2>2, ReportedSound
  <1>4. CASE o.kind = "submit"
    <2>1. o.hash \in Hashes /\ o.model \in Models \cup {None}
      BY <1>4, SMT DEF Requests, Jobs
    <2>2. Written(o, row) = Submitted(row, o.hash, o.model) BY <1>4, SMT DEF Written
    <2> QED BY <2>1, <2>2, SubmittedSound
  <1>5. CASE o.kind \in {"release", "claim_timeouts", "stale"}
    <2>1. row.status \in Held
      <3>1. CASE o.kind = "release" BY <3>1, SMT DEF Selects, Releasable, Held
      <3>2. CASE o.kind = "claim_timeouts" BY <3>2, SMT DEF Selects, ClaimOverdue, Held
      <3>3. CASE o.kind = "stale" BY <3>3, SMT DEF Selects, HeldBy
      <3> QED BY <1>5, <3>1, <3>2, <3>3
    <2>2. Written(o, row) = Released(row) BY <1>5, SMT DEF Written
    <2> QED BY <2>1, <2>2, ReleasedSound
  <1>6. CASE o.kind = "override"
    <2>1. o.model \in Models BY <1>6, SMT DEF Requests, Jobs
    <2>2. Written(o, row) = Overridden(row, o.model) BY <1>6, SMT DEF Written
    <2> QED BY <2>1, <2>2, OverriddenSound
  <1>7. CASE o.kind = "inactivity"
    <2>1. WorkOverdue(row) /\ Written(o, row) = Reclaimed(row)
      BY <1>7, SMT DEF Selects, Written
    <2> QED BY <2>1, ReclaimedSound
  <1>8. CASE o.kind = "fallback"
    <2> DEFINE u == AgentUser[o.first[row.department]]
    <2>1. o.first \in [Departments -> Agents] /\ row.department \in Departments
      BY <1>0, <1>8, SMT DEF Requests, Jobs, Row
    <2>2. u \in Users BY <2>1, AgentUserAssumption
    <2>3. FallbackReady(row) /\ Written(o, row) = AutoAssigned(row, u)
      BY <1>8, SMT DEF Selects, Written
    <2> HIDE DEF u
    <2> QED BY <2>2, <2>3, AutoAssignedSound
  <1> QED BY <1>1, <1>2, <1>3, <1>4, <1>5, <1>6, <1>7, <1>8, KindsOfAll
          DEF AllKinds, RequestKinds, JobKinds

\* A sound row takes good steps, but for overtaken commits.
LEMMA StepGood ==
    ASSUME IInv, [Next]_vars, NEW t \in Tasks, SoundRow(task[t])
    PROVE  \/ GoodStep(task[t], task'[t])
           \/ \E s \in Sessions : pc[s] = "committing" /\ Overtaken(s, t)
  <1>1. ASSUME NEW s \in Sessions, Commit(s), ~Overtaken(s, t) PROVE GoodStep(task[t], task'[t])
    <2>1. /\ pc[s] = "committing"
          /\ task'[t] = IF t \in batch[s] THEN Overlaid(op[s], snap[s][t], task[t])
                                          ELSE task[t]
      BY <1>1 DEF Commit
    <2>2. CASE t \in batch[s]
      <3>1. OnlyAged(snap[s][t], task[t]) BY <1>1, <2>2 DEF Overtaken
      <3>2. /\ op[s] \in Requests \cup Jobs /\ task[t] \in Row /\ snap[s][t] \in Row
            /\ Selects(op[s], snap[s][t])
        BY <2>1, <2>2 DEF IInv, TypeOK, Decided
      <3>3. task'[t] = Written(op[s], task[t]) BY <2>1, <2>2, <3>1, <3>2, OverlaidIsWritten
      <3> QED BY <3>1, <3>2, <3>3, StillSelected, WrittenGood
    <2> QED BY <2>1, <2>2, UnchangedGood
  <1>2. ASSUME NEW s \in Sessions, Commit(s)
        PROVE  GoodStep(task[t], task'[t]) \/ (pc[s] = "committing" /\ Overtaken(s, t))
    BY <1>1, <1>2 DEF Commit
  <1>3. ASSUME NEW u \in Tasks, TimePasses(u) PROVE GoodStep(task[t], task'[t])
    <2>1. \/ task'[t] = task[t]
          \/ task'[t] = [task[t] EXCEPT !.aged = TRUE]
          \/ /\ task[t].claim_timeout_at = "running"
             /\ task'[t] = [task[t] EXCEPT !.claim_timeout_at = "due"]
          \/ /\ task[t].inactivity_timeout_at = "running"
             /\ task'[t] = [task[t] EXCEPT !.inactivity_timeout_at = "due"]
      BY <1>3 DEF TimePasses, Elapse, IInv, TypeOK
    <2> QED BY <2>1, ElapsedSound, UnchangedGood
  <1>4. ASSUME NEW s \in Sessions, Step(s), ~Commit(s) PROVE UNCHANGED task
    BY <1>4 DEF Step, Progress, Arrive, Fire, TryLock, AskHolder, CheckHolder, DeleteLock,
       ReadRow, SelectRows, TakeNext, AllTaken, Flush, Abort
  <1>5. ASSUME NEW u \in Tasks, LockExpires(u) PROVE UNCHANGED task
    BY <1>5 DEF LockExpires
  <1>6. UNCHANGED vars => UNCHANGED task BY DEF vars
  <1> QED BY <1>2, <1>3, <1>4, <1>5, <1>6, UnchangedGood DEF Next

\* What a race can do to a sound row (an owner without a held task, a held task
\* without an owner, a result without completion; new hands, a completion or a
\* report taken back, a due deadline renewed), it does in an overtaken commit.
THEOREM RacesSpoilRows ==
    Spec => [][\A t \in Tasks :
                  SoundRow(task[t]) =>
                     \/ GoodStep(task[t], task'[t])
                     \/ \E s \in Sessions : pc[s] = "committing" /\ Overtaken(s, t)]_vars
  <1>1. IInv /\ [Next]_vars =>
          [\A t \in Tasks :
              SoundRow(task[t]) =>
                 \/ GoodStep(task[t], task'[t])
                 \/ \E s \in Sessions : pc[s] = "committing" /\ Overtaken(s, t)]_vars
    BY StepGood
  <1> QED BY <1>1, Soundness, PTL DEF Spec

\* One session at a time, every row stays sound (owned exactly while it is held,
\* with its deadline, with a result exactly when it is completed), and progress_seq
\* only grows.
THEOREM SerialSound ==
    ASSUME \A s, z \in Sessions : s = z
    PROVE  Spec => /\ [](\A t \in Tasks : SoundRow(task[t]))
                   /\ [][\A t \in Tasks :
                            task'[t].progress_seq >= task[t].progress_seq]_vars
  <1> DEFINE Fresh == \A s \in Sessions : Current(s)
             Sound == \A t \in Tasks : SoundRow(task[t])
  <1>1. Init => Fresh /\ Sound
    <2>1. Init => Fresh BY DEF Init, Current
    <2>2. ASSUME Init, NEW t \in Tasks PROVE SoundRow(task[t])
      <3>1. PICK d \in Departments, s \in Strategies : task[t] = RowOf("pending", d, s)
        BY <2>2 DEF Init
      <3> QED BY <3>1, NewRowSound
    <2> QED BY <2>1, <2>2
  <1>2. IInv /\ Fresh /\ Sound /\ [Next]_vars => Fresh' /\ Sound'
    <2> SUFFICES ASSUME IInv, Fresh, Sound, [Next]_vars PROVE Fresh' /\ Sound'
      OBVIOUS
    <2>1. Fresh' BY OnlyCommitsOvertake
    <2>2. \A s \in Sessions, t \in Tasks : ~Overtaken(s, t) BY DEF Overtaken, Current
    <2>3. Sound' BY <2>2, StepGood DEF GoodStep
    <2> QED BY <2>1, <2>3
  <1>3. Sound => \A t \in Tasks : SoundRow(task[t]) OBVIOUS
  <1>4. IInv /\ Fresh /\ Sound /\ [Next]_vars =>
          [\A t \in Tasks : task'[t].progress_seq >= task[t].progress_seq]_vars
    <2> SUFFICES ASSUME IInv, Fresh, Sound, [Next]_vars, NEW t \in Tasks
                 PROVE  task'[t].progress_seq >= task[t].progress_seq
      OBVIOUS
    <2>1. \A s \in Sessions : ~Overtaken(s, t) BY DEF Overtaken, Current
    <2>2. Lawful(task[t], task'[t]) BY <2>1, StepGood DEF GoodStep
    <2>3. Exists(task[t]) BY DEF IInv, SafeRow, Exists
    <2> QED BY <2>2, <2>3 DEF Lawful
  <1> HIDE DEF Fresh, Sound
  <1> QED BY <1>1, <1>2, <1>3, <1>4, Soundness, PTL DEF Spec

=============================================================================
