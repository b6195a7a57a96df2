---------------------- MODULE AdminTransactionsProofs ----------------------
(***************************************************************************)
(* TLAPS proofs about AdminTransactions: types, the decision on a shared   *)
(* result, and what inserts, updates and removals leave intact, for any    *)
(* number of sessions, rows and columns.                                   *)
(*                                                                         *)
(* A request decides on rows it has read and writes later.  The invariant  *)
(* says what of those rows still stands by then (Kept), that whoever has   *)
(* flushed holds the locks of all rows it is to write (Holds), and that    *)
(* nobody else writes to the id of an insert (Apart).                      *)
(***************************************************************************)
EXTENDS AdminTransactions, FiniteSetTheorems, TLAPS

\* What the table of this behaviour may hold.
Fits(row) ==
    \/ table \in {"quotas", "models"} /\ row \in Record
    \/ table = "locks" /\ row \in Lock
    \/ table = "shared" /\ row \in Shared

\* What waits for a decision was shared with others, a decision is the target's.
Sound(row) ==
    /\ row.approved_by # None => MayRun(row.approved_by, row.target)
    /\ row.approved_by = None <=>
          row.approval_status = "pending" \/ row.target \in {None, row.source}
    /\ row.approval_status = "pending" => row.target \notin {None, row.source}

GoodRow(row) == Fits(row) /\ (table = "shared" => Sound(row))

\* What stays of a row that was read.
Kept(old, row) ==
    /\ table \in {"quotas", "models"} => row \in Record
    /\ table = "locks" => row \in {old, Gone}
    /\ table = "shared" => GoodRow(row) /\ row.source = old.source /\ row.target = old.target

\* What a request knows of a row it is about to write.
Known(o, i, old) ==
    /\ o.kind \in {"update_quota", "update_model", "remove_lock", "approve"}
    /\ i = o.id
    /\ o.kind = "approve" => /\ MayRun(o.user, old.target)
                             /\ old.approval_status = "pending"

KnownLock(o, old) ==
    o.kind = "set_lock" /\ old.department = o.row.department
                        /\ old.task_type = o.row.task_type

ByFreshId == {"share", "set_lock"}
Announced == {"set_lock", "update_model", "remove_lock"}

\* Between its SELECT and its COMMIT.
HasRead(s) == pc[s] \in {"flushing", "publishing", "committing"}

\* Between its flush and its COMMIT.
Flushed(s) ==
    pc[s] = "committing" \/ (pc[s] = "publishing" /\ op[s].kind # "remove_lock")

Informed(s) ==
    /\ \A i \in DOMAIN seen[s] :
          /\ i \in Ids
          /\ GoodRow(seen[s][i])
          /\ Kept(seen[s][i], rows[i])
          /\ Known(op[s], i, seen[s][i]) \/ KnownLock(op[s], seen[s][i])
    /\ new[s] # None =>
          /\ op[s].kind \in {"create_model", "update_quota"} \cup ByFreshId
          /\ op[s].kind \in ByFreshId => new[s] \in NewIds /\ rows[new[s]] = None
          /\ op[s].kind \notin ByFreshId => new[s] = op[s].id
    /\ op[s].kind = "set_lock" => new[s] # None
    /\ op[s].kind = "update_model" => op[s].id \in DOMAIN seen[s]

Holds(s) ==
    /\ \A i \in Touched(s) : rowLock[i] = s
    /\ new[s] # None => rowLock[new[s]] = s /\ rows[new[s]] = None

GoodSession(s) ==
    /\ pc[s] # "idle" => op[s] \in Requests(table) /\ Permitted(op[s])
    /\ ~HasRead(s) => seen[s] = <<>> /\ new[s] = None /\ sent[s] = None
    /\ HasRead(s) => Informed(s)
    /\ Flushed(s) => Holds(s)
    /\ sent[s] # None /\ op[s].kind = "update_model" => Flushed(s)
    /\ pc[s] = "publishing" => op[s].kind \in Announced
    /\ pc[s] = "committing" /\ op[s].kind = "update_model"
          => sent[s] = Message(op[s], seen[s])

Apart(s, z) ==
    s # z /\ table \in {"locks", "shared"} => new[s] = None \/ new[s] # new[z]

AdminInv ==
    /\ TypeOK
    /\ op = [s \in Sessions |-> op[s]]
    /\ seen = [s \in Sessions |-> seen[s]]
    /\ \A i \in Ids : rows[i] \in {None, Gone} \/ GoodRow(rows[i])
    /\ \A s \in Sessions : GoodSession(s)
    /\ \A s, z \in Sessions : Apart(s, z)

----------------------------------------------------------------------------
(* Requests and rows.                                                      *)

\* A request, spelt out.
Shape(o) ==
    /\ o.user \in Users
    /\ \/ table = "quotas" /\ o.kind = "update_quota" /\ o.id \in Departments /\ o.set \in Patch
       \/ table = "quotas" /\ o.kind = "create_department"
       \/ table = "models" /\ o.kind = "create_model" /\ o.id \in ModelNames /\ o.row \in Record
       \/ table = "models" /\ o.kind = "update_model" /\ o.id \in ModelNames /\ o.set \in Patch
       \/ table = "locks" /\ o.kind = "set_lock" /\ o.row \in Lock
       \/ table = "locks" /\ o.kind = "remove_lock" /\ o.id \in NewIds
       \/ table = "shared" /\ o.kind = "share" /\ o.target \in Departments \cup {None}
       \/ table = "shared" /\ o.kind = "approve" /\ o.id \in NewIds
                           /\ o.action \in {"approved", "rejected"}

\* Every request has the shape of one of its kinds.
LEMMA Shapes ==
    ASSUME table \in Tables, NEW o \in Requests(table)
    PROVE  Shape(o)
  <1>1. CASE table = "quotas" BY <1>1, SMT DEF Requests, Shape
  <1>2. CASE table = "models" BY <1>2, SMT DEF Requests, Shape
  <1>3. CASE table = "locks" BY <1>3, SMT DEF Requests, Shape
  <1>4. CASE table = "shared" BY <1>4, SMT DEF Requests, Shape
  <1> QED BY <1>1, <1>2, <1>3, <1>4 DEF Tables

\* NULL and the mark of a deleted row are no rows, and a row fits its table.
LEMMA RowFacts ==
    ASSUME NEW row, GoodRow(row)
    PROVE  /\ row \in Rows /\ row # None /\ row # Gone
           /\ table \in {"quotas", "models"} => row \in Record
           /\ table = "locks" => row \in Lock
           /\ table = "shared" => row \in Shared /\ Sound(row)
  BY NoRowAssumption DEF GoodRow, Fits, Rows

\* A row that was just read is kept.
LEMMA KeptAtOnce ==
    ASSUME NEW row, GoodRow(row)
    PROVE  Kept(row, row)
  BY RowFacts DEF Kept

\* A patch of a record is a record.
LEMMA PatchedRecord ==
    ASSUME NEW row \in Record, NEW set \in Patch
    PROVE  Patched(row, set) \in Record
  BY DEF Patched, Record, Patch

\* What a request inserts is a good row of its table.
LEMMA NewRowGood ==
    ASSUME NEW o, Shape(o), table \in Tables,
           o.kind \in {"create_model", "update_quota"} \cup ByFreshId
    PROVE  GoodRow(NewRow(o))
  <1>1. CASE o.kind = "create_model"
    BY <1>1, SMT DEF Shape, NewRow, GoodRow, Fits, ByFreshId
  <1>2. CASE o.kind = "update_quota"
    <2>1. [f \in Fields |-> Default] \in Record BY DefaultAssumption DEF Record
    <2>2. o.set \in Patch /\ table = "quotas" BY <1>2 DEF Shape
    <2>3. Patched([f \in Fields |-> Default], o.set) \in Record
      BY <2>1, <2>2, PatchedRecord
    <2> QED BY <1>2, <2>2, <2>3 DEF NewRow, GoodRow, Fits
  <1>3. CASE o.kind = "set_lock"
    BY <1>3, SMT DEF Shape, NewRow, GoodRow, Fits, ByFreshId
  <1>4. CASE o.kind = "share"
    <2>1. /\ o.user \in Users /\ o.target \in Departments \cup {None} /\ table = "shared"
          /\ DeptOf[o.user] \in Departments
      BY <1>4, AdminDeptAssumption DEF Shape
    <2>2. NewRow(o) = SharedRow(o.user, o.target) BY <1>4 DEF NewRow
    <2> DEFINE row == SharedRow(o.user, o.target)
    <2>3. row \in Shared BY <2>1, SMT DEF SharedRow, Shared
    <2>4. Sound(row) BY <2>1, SMT DEF SharedRow, Sound
    <2> QED BY <2>1, <2>2, <2>3, <2>4 DEF GoodRow, Fits
  <1> QED BY <1>1, <1>2, <1>3, <1>4 DEF ByFreshId

\* An UPDATE of a record changes columns to values the request names.
LEMMA OverlaidRecord ==
    ASSUME NEW o, Shape(o), o.kind \in {"update_quota", "update_model"},
           NEW old \in Record, NEW row \in Record
    PROVE  /\ Overlaid(o, old, row) \in Record
           /\ \A f \in Fields : Overlaid(o, old, row)[f] # row[f]
                                   => Overlaid(o, old, row)[f] = o.set[f]
  <1>1. o.set \in Patch /\ ~Deletes(o) /\ o.kind # "approve" BY DEF Shape, Deletes
  <1>2. Written(o, old) = Patched(old, o.set) BY <1>1 DEF Written
  <1>3. Patched(old, o.set) \in Record BY <1>1, PatchedRecord
  <1>4. DOMAIN row = Fields /\ DOMAIN old = Fields BY DEF Record
  <1>5. Overlaid(o, old, row) =
           [f \in Fields |-> IF f \in Changed(o, old) THEN Patched(old, o.set)[f] ELSE row[f]]
    BY <1>1, <1>2, <1>4 DEF Overlaid
  <1>6. Overlaid(o, old, row) \in Record BY <1>3, <1>5 DEF Record
  <1>7. ASSUME NEW f \in Fields, Overlaid(o, old, row)[f] # row[f]
        PROVE  Overlaid(o, old, row)[f] = o.set[f]
    <2>1. f \in Changed(o, old) /\ Overlaid(o, old, row)[f] = Patched(old, o.set)[f]
      BY <1>5, <1>7
    <2>2. Patched(old, o.set)[f] # old[f] BY <1>2, <2>1 DEF Changed
    <2> QED BY <2>1, <2>2 DEF Patched
  <1> QED BY <1>6, <1>7

\* A decision changes the status and the approver together, whatever the row
\* has become, as both differ from what was read.
LEMMA OverlaidShared ==
    ASSUME NEW o, Shape(o), o.kind = "approve", table = "shared",
           NEW old, GoodRow(old), MayRun(o.user, old.target), old.approval_status = "pending",
           NEW row, Kept(old, row)
    PROVE  /\ GoodRow(Overlaid(o, old, row))
           /\ Overlaid(o, old, row).source = row.source
           /\ Overlaid(o, old, row).target = row.target
  <1> DEFINE n == Overlaid(o, old, row)
             columns == {"source", "target", "approval_status", "approved_by"}
  <1>1. /\ o.user \in Users /\ o.action \in {"approved", "rejected"} /\ ~Deletes(o)
        /\ o.user # None
    BY NullAssumption DEF Shape, Deletes
  <1>2. old \in Shared /\ Sound(old) /\ row \in Shared /\ Sound(row)
        /\ row.source = old.source /\ row.target = old.target
    BY RowFacts DEF Kept
  <1>3. DOMAIN row = columns /\ DOMAIN old = columns BY <1>2, SMT DEF Shared
  <1>4. Written(o, old) = [old EXCEPT !.approval_status = o.action, !.approved_by = o.user]
    BY <1>1 DEF Written
  <1>5. /\ Written(o, old).approval_status = o.action
        /\ Written(o, old).approved_by = o.user
        /\ Written(o, old).source = old.source
        /\ Written(o, old).target = old.target
    BY <1>2, <1>4, SMT DEF Shared
  <1>6. Changed(o, old) = {"approval_status", "approved_by"}
    <2>1. old.approved_by = None BY <1>2 DEF Sound
    <2>2. "approval_status" \in Changed(o, old) /\ "approved_by" \in Changed(o, old)
      BY <1>1, <1>3, <1>5, <2>1, SMT DEF Changed
    <2>3. "source" \notin Changed(o, old) /\ "target" \notin Changed(o, old)
      BY <1>5, SMT DEF Changed
    <2>4. Changed(o, old) \subseteq columns BY <1>3 DEF Changed
    <2> QED BY <2>2, <2>3, <2>4
  <1>7. n = [c \in columns |-> IF c \in Changed(o, old) THEN Written(o, old)[c] ELSE row[c]]
    BY <1>1, <1>3 DEF Overlaid
  <1>8. /\ n.approval_status = o.action /\ n.approved_by = o.user
        /\ n.source = row.source /\ n.target = row.target
    BY <1>5, <1>6, <1>7, SMT
  <1>9. n \in Shared
    <2>1. /\ row.source \in Departments /\ row.target \in Departments \cup {None}
      BY <1>2, SMT DEF Shared
    <2>2. n = [c \in columns |-> n[c]] BY <1>7
    <2> HIDE DEF n
    <2> QED BY <1>1, <1>8, <2>1, <2>2, SMT DEF Shared
  <1>10. Sound(n)
    <2>1. row.target \notin {None, row.source} BY <1>2 DEF Sound
    <2> HIDE DEF n
    <2> QED BY <1>1, <1>2, <1>8, <2>1 DEF Sound
  <1> HIDE DEF n
  <1> QED BY <1>8, <1>9, <1>10 DEF GoodRow, Fits, n

\* An UPDATE or DELETE leaves a good row or none, and keeps what others have read.
LEMMA OverlaidGood ==
    ASSUME NEW o, Shape(o), NEW i, NEW old, GoodRow(old), table \in Tables,
           Known(o, i, old) \/ KnownLock(o, old),
           NEW row, Kept(old, row)
    PROVE  /\ Overlaid(o, old, row) = Gone \/ GoodRow(Overlaid(o, old, row))
           /\ \A other : Kept(other, row) => Kept(other, Overlaid(o, old, row))
  <1>1. CASE table \in {"quotas", "models"}
    <2>1. o.kind \in {"update_quota", "update_model"} /\ row \in Record /\ old \in Record
      BY <1>1, RowFacts DEF Shape, Known, KnownLock, Kept
    <2>2. Overlaid(o, old, row) \in Record BY <2>1, OverlaidRecord
    <2> QED BY <1>1, <2>2 DEF GoodRow, Fits, Kept
  <1>2. CASE table = "locks"
    <2>1. Overlaid(o, old, row) = Gone
      BY <1>2 DEF Shape, Known, KnownLock, Overlaid, Deletes
    <2> QED BY <1>2, <2>1 DEF Kept
  <1>3. CASE table = "shared"
    <2>1. /\ o.kind = "approve" /\ MayRun(o.user, old.target)
          /\ old.approval_status = "pending"
      BY <1>3 DEF Shape, Known, KnownLock
    <2>2. /\ GoodRow(Overlaid(o, old, row))
          /\ Overlaid(o, old, row).source = row.source
          /\ Overlaid(o, old, row).target = row.target
      BY <1>3, <2>1, OverlaidShared
    <2> QED BY <1>3, <2>2 DEF Kept
  <1> QED BY <1>1, <1>2, <1>3 DEF Tables

----------------------------------------------------------------------------
(* Sessions.                                                               *)

\* In the first state nothing is going on.
LEMMA InitAdmin == Init => AdminInv
  <1> SUFFICES ASSUME Init PROVE AdminInv
    OBVIOUS
  <1>1. [f \in Fields |-> Default] \in Record BY DefaultAssumption DEF Record
  <1>2. ASSUME NEW i \in Ids PROVE rows[i] \in {None, Gone} \/ GoodRow(rows[i])
    <2>1. rows[i] = None \/ (rows[i] = [f \in Fields |-> Default] /\ table = "quotas")
      BY DEF Init
    <2> QED BY <1>1, <2>1 DEF GoodRow, Fits
  <1>3. TypeOK
    <2>1. rows \in [Ids -> Rows \cup {None, Gone}] BY <1>1 DEF Init, Rows
    <2>2. pc \in [Sessions -> Labels] BY DEF Init, Labels
    <2> QED BY <2>1, <2>2 DEF Init, TypeOK
  <1>4. ASSUME NEW s \in Sessions PROVE GoodSession(s)
    BY DEF Init, GoodSession, HasRead, Flushed
  <1>5. op = [s \in Sessions |-> op[s]] /\ seen = [s \in Sessions |-> seen[s]]
    BY DEF Init
  <1>6. \A s, z \in Sessions : Apart(s, z) BY DEF Init, Apart
  <1> QED BY <1>2, <1>3, <1>4, <1>5, <1>6 DEF AdminInv

\* What the invariant says of one session.
LEMMA SessionFacts ==
    ASSUME AdminInv, NEW s \in Sessions
    PROVE  /\ GoodSession(s) /\ table \in Tables
           /\ pc[s] # "idle" => op[s] \in Requests(table) /\ Shape(op[s])
  BY Shapes DEF AdminInv, GoodSession, TypeOK

\* A session others do not disturb: its rows are kept, its new id stays free
\* and it keeps its locks.
Undisturbed(z) ==
    /\ UNCHANGED <<pc[z], op[z], seen[z], new[z], sent[z], table>>
    /\ \A i \in DOMAIN seen[z] : Kept(seen[z][i], rows[i]) => Kept(seen[z][i], rows'[i])
    /\ new[z] # None /\ (op[z].kind \in ByFreshId \/ Flushed(z)) => rows'[new[z]] = rows[new[z]]
    /\ \A i \in Ids : rowLock[i] = z => rowLock'[i] = z

\* Such a session stays good.
LEMMA StaysGood ==
    ASSUME AdminInv, NEW z \in Sessions, HasRead(z) => Undisturbed(z),
           UNCHANGED <<pc[z], op[z], seen[z], new[z], sent[z], table>>
    PROVE  GoodSession(z)'
  <1>1. GoodSession(z) BY DEF AdminInv
  <1>2. HasRead(z)' <=> HasRead(z) BY DEF HasRead
  <1>3. Flushed(z)' <=> Flushed(z) BY DEF Flushed
  <1>4. Touched(z)' = Touched(z)
    BY DEF Touched, Changed, Written, Deletes, Patched
  <1>5. ASSUME HasRead(z) PROVE Informed(z)'
    <2>1. Undisturbed(z) /\ Informed(z) BY <1>1, <1>5 DEF GoodSession
    <2>2. ASSUME NEW i \in DOMAIN seen[z]
          PROVE  /\ i \in Ids /\ GoodRow(seen[z][i])' /\ Kept(seen[z][i], rows[i])'
                 /\ Known(op[z], i, seen[z][i])' \/ KnownLock(op[z], seen[z][i])'
      <3>1. /\ i \in Ids /\ GoodRow(seen[z][i]) /\ Kept(seen[z][i], rows'[i])
            /\ Known(op[z], i, seen[z][i]) \/ KnownLock(op[z], seen[z][i])
        BY <2>1 DEF Informed, Undisturbed
      <3>2. GoodRow(seen[z][i])' BY <3>1 DEF GoodRow, Fits, Sound, MayRun, IsAdmin
      <3>3. Kept(seen[z][i], rows[i])'
        BY <3>1 DEF Kept, GoodRow, Fits, Sound, MayRun, IsAdmin
      <3>4. Known(op[z], i, seen[z][i])' \/ KnownLock(op[z], seen[z][i])'
        BY <3>1 DEF Known, KnownLock, MayRun, IsAdmin
      <3> QED BY <3>1, <3>2, <3>3, <3>4
    <2>3. /\ new'[z] # None =>
               /\ op'[z].kind \in {"create_model", "update_quota"} \cup ByFreshId
               /\ op'[z].kind \in ByFreshId => new'[z] \in NewIds /\ rows'[new'[z]] = None
               /\ op'[z].kind \notin ByFreshId => new'[z] = op'[z].id
          /\ op'[z].kind = "set_lock" => new'[z] # None
          /\ op'[z].kind = "update_model" => op'[z].id \in DOMAIN seen'[z]
      BY <2>1 DEF Informed, Undisturbed
    <2> QED BY <2>2, <2>3 DEF Informed
  <1>6. ASSUME Flushed(z) PROVE Holds(z)'
    <2>1. HasRead(z) BY <1>6 DEF HasRead, Flushed
    <2>2. Undisturbed(z) /\ Holds(z) /\ Informed(z) BY <1>1, <1>6, <2>1 DEF GoodSession
    <2>3. new[z] \in Ids \cup {None} BY DEF AdminInv, TypeOK
    <2>4. Touched(z) \subseteq Ids BY <2>2 DEF Touched, Informed
    <2> QED BY <1>4, <1>6, <2>2, <2>3, <2>4 DEF Holds, Undisturbed
  <1>7. pc'[z] # "idle" => op'[z] \in Requests(table') /\ Permitted(op[z])'
    BY <1>1 DEF GoodSession, Permitted, IsAdmin, MayRun
  <1>8. Message(op[z], seen[z])' = Message(op[z], seen[z])
    BY DEF Message, Written, Deletes, Patched
  <1> QED BY <1>1, <1>2, <1>3, <1>5, <1>6, <1>7, <1>8 DEF GoodSession

\* A session that closes is good.
LEMMA ClosedGood ==
    ASSUME AdminInv, NEW s \in Sessions, Close(s)
    PROVE  /\ GoodSession(s)'
           /\ pc' \in [Sessions -> Labels]
           /\ rowLock' \in [Ids -> Sessions \cup {None}]
           /\ op' = [z \in Sessions |-> op'[z]] /\ seen' = [z \in Sessions |-> seen'[z]]
           /\ new' \in [Sessions -> Ids \cup {None}] /\ sent' \in [Sessions -> Messages \cup {None}]
           /\ \A z \in Sessions \ {s} :
                 /\ UNCHANGED <<pc[z], op[z], seen[z], new[z], sent[z]>>
                 /\ \A i \in Ids : rowLock[i] = z => rowLock'[i] = z
           /\ op'[s] = None /\ new'[s] = None
  <1>1. pc'[s] = "idle" /\ op'[s] = None /\ seen'[s] = <<>> /\ new'[s] = None /\ sent'[s] = None
    BY DEF Close, Goto, AdminInv, TypeOK
  <1>2. GoodSession(s)' BY <1>1 DEF GoodSession, HasRead, Flushed
  <1>3. pc' \in [Sessions -> Labels] BY DEF Close, Goto, Labels, AdminInv, TypeOK
  <1>4. rowLock' \in [Ids -> Sessions \cup {None}] BY DEF Close, AdminInv, TypeOK
  <1>5. new' \in [Sessions -> Ids \cup {None}] /\ sent' \in [Sessions -> Messages \cup {None}]
    BY DEF Close, AdminInv, TypeOK
  <1>6. op' = [z \in Sessions |-> op'[z]] /\ seen' = [z \in Sessions |-> seen'[z]]
    BY DEF Close, AdminInv
  <1>7. \A z \in Sessions \ {s} :
           /\ UNCHANGED <<pc[z], op[z], seen[z], new[z], sent[z]>>
           /\ \A i \in Ids : rowLock[i] = z => rowLock'[i] = z
    BY DEF Close, Goto, AdminInv, TypeOK
  <1> QED BY <1>1, <1>2, <1>3, <1>4, <1>5, <1>6, <1>7

\* A session that closes without a commit disturbs nobody.
LEMMA GiveUpStep ==
    ASSUME AdminInv, NEW s \in Sessions, Close(s), UNCHANGED <<table, rows>>
    PROVE  AdminInv'
  <1>1. TypeOK'
    <2>1. \A z \in Sessions : op'[z] \in Requests(table') \cup {None}
      BY ClosedGood DEF AdminInv, TypeOK
    <2> QED BY <2>1, ClosedGood DEF AdminInv, TypeOK
  <1>2. ASSUME NEW z \in Sessions PROVE GoodSession(z)'
    <2>1. CASE z = s BY <2>1, ClosedGood
    <2>2. CASE z # s
      <3>1. Undisturbed(z) BY <2>2, ClosedGood DEF Undisturbed
      <3> QED BY <3>1, StaysGood DEF Undisturbed
    <2> QED BY <2>1, <2>2
  <1>3. \A i \in Ids : rows'[i] \in {None, Gone} \/ GoodRow(rows[i])'
    BY DEF AdminInv, GoodRow, Fits, Sound, MayRun, IsAdmin
  <1>4. ASSUME NEW x \in Sessions, NEW z \in Sessions PROVE Apart(x, z)'
    <2>1. Apart(x, z) BY DEF AdminInv
    <2>2. new'[x] \in {new[x], None} /\ (new'[z] = new[z] \/ new'[z] = None)
      BY ClosedGood
    <2> QED BY <2>1, <2>2 DEF Apart
  <1> QED BY <1>1, <1>2, <1>3, <1>4, ClosedGood DEF AdminInv

\* A session that goes on without a commit disturbs nobody, provided it is good
\* itself, takes no lock from others and reserves no id of theirs.
LEMMA GoOnStep ==
    ASSUME AdminInv, NEW s \in Sessions, UNCHANGED <<table, rows>>,
           NEW label \in Labels, pc' = [pc EXCEPT ![s] = label],
           NEW o \in Requests(table) \cup {None}, op' = [op EXCEPT ![s] = o],
           NEW read, seen' = [seen EXCEPT ![s] = read],
           NEW id \in Ids \cup {None}, new' = [new EXCEPT ![s] = id],
           NEW said \in Messages \cup {None}, sent' = [sent EXCEPT ![s] = said],
           rowLock' \in [Ids -> Sessions \cup {None}],
           \A i \in Ids : rowLock[i] \in Sessions \ {s} => rowLock'[i] = rowLock[i],
           \A z \in Sessions : id # None /\ z # s /\ table \in {"locks", "shared"}
                                  => id # new[z],
           GoodSession(s)'
    PROVE  AdminInv'
  <1>1. \A z \in Sessions \ {s} :
           UNCHANGED <<pc[z], op[z], seen[z], new[z], sent[z]>>
    BY DEF AdminInv, TypeOK
  <1>2. op'[s] = o /\ new'[s] = id BY DEF AdminInv, TypeOK
  <1>3. TypeOK'
    <2>1. pc' \in [Sessions -> Labels] /\ new' \in [Sessions -> Ids \cup {None}]
          /\ sent' \in [Sessions -> Messages \cup {None}]
      BY DEF AdminInv, TypeOK
    <2>2. \A z \in Sessions : op'[z] \in Requests(table') \cup {None}
      BY <1>1, <1>2 DEF AdminInv, TypeOK
    <2> QED BY <2>1, <2>2 DEF AdminInv, TypeOK
  <1>4. op' = [z \in Sessions |-> op'[z]] /\ seen' = [z \in Sessions |-> seen'[z]]
    BY DEF AdminInv
  <1>5. ASSUME NEW z \in Sessions PROVE GoodSession(z)'
    <2>1. CASE z # s
      <3>1. Undisturbed(z) BY <1>1, <2>1 DEF Undisturbed
      <3> QED BY <3>1, StaysGood DEF Undisturbed
    <2> QED BY <2>1
  <1>6. \A i \in Ids : rows'[i] \in {None, Gone} \/ GoodRow(rows[i])'
    BY DEF AdminInv, GoodRow, Fits, Sound, MayRun, IsAdmin
  <1>7. ASSUME NEW x \in Sessions, NEW z \in Sessions PROVE Apart(x, z)'
    <2>1. Apart(x, z) BY DEF AdminInv
    <2>2. CASE x # s /\ z # s BY <1>1, <2>1, <2>2 DEF Apart
    <2>3. CASE x = s BY <1>1, <1>2, <2>3 DEF Apart
    <2>4. CASE z = s BY <1>1, <1>2, <2>4 DEF Apart
    <2> QED BY <2>2, <2>3, <2>4
  <1> QED BY <1>3, <1>4, <1>5, <1>6, <1>7 DEF AdminInv

\* A request arrives.
LEMMA ArriveStep ==
    ASSUME AdminInv, NEW s \in Sessions, NEW o \in Requests(table), Arrive(s, o)
    PROVE  AdminInv'
  <1>1. /\ pc' = [pc EXCEPT ![s] = "reading"] /\ op' = [op EXCEPT ![s] = o]
        /\ UNCHANGED <<table, rows, rowLock, seen, new, sent>> /\ Permitted(o)
        /\ pc[s] = "idle"
    BY DEF Arrive, Goto
  <1>2. /\ seen' = [seen EXCEPT ![s] = seen[s]] /\ new' = [new EXCEPT ![s] = new[s]]
        /\ sent' = [sent EXCEPT ![s] = sent[s]]
    BY <1>1 DEF AdminInv, TypeOK
  <1>3. /\ "reading" \in Labels /\ new[s] \in Ids \cup {None} /\ sent[s] \in Messages \cup {None}
        /\ rowLock' \in [Ids -> Sessions \cup {None}]
    BY <1>1 DEF AdminInv, TypeOK, Labels
  <1>4. seen[s] = <<>> /\ new[s] = None /\ sent[s] = None
    BY <1>1, SessionFacts DEF GoodSession, HasRead
  <1>5. GoodSession(s)'
    <2>1. pc'[s] = "reading" /\ op'[s] = o BY <1>1 DEF AdminInv, TypeOK
    <2>2. Permitted(op[s])' BY <1>1, <2>1 DEF Permitted, MayRun, IsAdmin
    <2> QED BY <1>1, <1>4, <2>1, <2>2 DEF GoodSession, HasRead, Flushed
  <1> QED BY <1>1, <1>2, <1>3, <1>4, <1>5, GoOnStep

\* A request that was not refused knows the rows it has found.
LEMMA FoundKnown ==
    ASSUME AdminInv, NEW o \in Requests(table), ~Refused(o), NEW i \in Found(o)
    PROVE  /\ i \in Ids /\ GoodRow(rows[i])
           /\ Known(o, i, rows[i]) \/ KnownLock(o, rows[i])
  <1>1. Shape(o) BY Shapes DEF AdminInv, TypeOK
  <1>2. i \in Present BY DEF Found
  <1>3. i \in Ids /\ GoodRow(rows[i]) BY <1>2 DEF Present, AdminInv
  <1>4. CASE o.kind \in {"create_department", "share"} BY <1>4 DEF Found
  <1>5. CASE o.kind = "create_model" BY <1>5 DEF Refused
  <1>6. CASE o.kind = "set_lock" BY <1>3, <1>6 DEF Found, KnownLock
  <1>7. CASE o.kind \in {"update_quota", "update_model", "remove_lock"}
    BY <1>3, <1>7 DEF Found, Known
  <1>8. CASE o.kind = "approve"
    <2>1. MayDecide(o.user, rows[i]) /\ rows[i].approval_status = "pending"
      BY <1>8 DEF Refused
    <2> QED BY <1>3, <1>8, <2>1 DEF Found, Known, MayDecide
  <1> QED BY <1>1, <1>3, <1>4, <1>5, <1>6, <1>7, <1>8 DEF Shape

\* A request that reads is refused, or knows what it will write.
LEMMA ReadStep ==
    ASSUME AdminInv, NEW s \in Sessions, Read(s)
    PROVE  AdminInv'
  <1>1. CASE Refused(op[s]) /\ Close(s) BY <1>1, GiveUpStep DEF Read
  <1>2. CASE /\ ~Refused(op[s])
             /\ Goto(s, AfterRead(op[s]))
             /\ seen' = [seen EXCEPT ![s] = [i \in Found(op[s]) |-> rows[i]]]
             /\ IF Inserts(op[s], Found(op[s]))
                THEN \E i \in Ids : IdFor(op[s], i) /\ new' = [new EXCEPT ![s] = i]
                ELSE UNCHANGED new
             /\ UNCHANGED <<rowLock, op, sent>>
    <2> DEFINE o == op[s]
               read == [i \in Found(o) |-> rows[i]]
               label == AfterRead(o)
    <2>1. /\ pc[s] = "reading" /\ UNCHANGED <<table, rows>> BY DEF Read
    <2>2. /\ o \in Requests(table) /\ Shape(o) /\ Permitted(o)
          /\ new[s] = None /\ sent[s] = None
      BY <2>1, SessionFacts DEF GoodSession, HasRead
    <2>3. label \in {"publishing", "flushing"} /\ (label = "publishing" <=> o.kind = "remove_lock")
      BY DEF AfterRead
    <2>4. PICK id \in Ids \cup {None} :
             /\ new' = [new EXCEPT ![s] = id]
             /\ id = None => ~Inserts(o, Found(o))
             /\ id # None => Inserts(o, Found(o)) /\ IdFor(o, id)
      <3>1. CASE Inserts(o, Found(o))
        <4>1. PICK i \in Ids : IdFor(o, i) /\ new' = [new EXCEPT ![s] = i] BY <1>2, <3>1
        <4>2. i # None BY NullAssumption
        <4> QED BY <3>1, <4>1, <4>2
      <3>2. CASE ~Inserts(o, Found(o))
        <4>1. new' = [new EXCEPT ![s] = None] BY <1>2, <2>2, <3>2 DEF AdminInv, TypeOK
        <4> QED BY <3>2, <4>1
      <3> QED BY <3>1, <3>2
    <2>5. /\ id # None =>
               /\ o.kind \in {"create_model", "update_quota"} \cup ByFreshId
               /\ o.kind \in ByFreshId =>
                     /\ id \in NewIds /\ rows[id] = None
                     /\ \A z \in Sessions : new[z] # id
               /\ o.kind \notin ByFreshId => id = o.id
          /\ o.kind = "set_lock" => id # None
          /\ o.kind = "update_model" => o.id \in Found(o)
      <3>1. o.kind = "update_model" => o.id \in Found(o)
        BY <1>2 DEF Refused, Found
      <3> QED BY <2>4, <3>1 DEF Inserts, IdFor, ByFreshId
    <2>6. table \in {"locks", "shared"} => o.kind \notin {"create_model", "update_quota"}
      BY <2>2 DEF Shape
    <2>7. /\ pc'[s] = label /\ op'[s] = o /\ seen'[s] = read /\ new'[s] = id
          /\ sent'[s] = sent[s]
      BY <1>2, <2>4 DEF Goto, AdminInv, TypeOK
    <2>8. Informed(s)'
      <3>1. ASSUME NEW i \in Found(o)
            PROVE  /\ i \in Ids /\ GoodRow(rows[i])' /\ Kept(rows[i], rows[i])'
                   /\ Known(o, i, rows[i])' \/ KnownLock(o, rows[i])'
        <4>1. /\ i \in Ids /\ GoodRow(rows[i])
              /\ Known(o, i, rows[i]) \/ KnownLock(o, rows[i])
          BY <1>2, <2>2, FoundKnown
        <4>2. Kept(rows[i], rows[i]) BY <4>1, KeptAtOnce
        <4> QED BY <1>2, <2>1, <4>1, <4>2
            DEF GoodRow, Fits, Sound, MayRun, IsAdmin, Kept, Known, KnownLock
      <3>2. DOMAIN read = Found(o) /\ \A i \in Found(o) : read[i] = rows[i] OBVIOUS
      <3>3. rows' = rows BY <2>1
      <3> HIDE DEF read
      <3>4. \A i \in DOMAIN seen'[s] :
               /\ i \in Ids /\ GoodRow(seen[s][i])' /\ Kept(seen[s][i], rows[i])'
               /\ Known(op[s], i, seen[s][i])' \/ KnownLock(op[s], seen[s][i])'
        BY <1>2, <2>1, <2>7, <3>1, <3>2, <3>3
        DEF GoodRow, Fits, Sound, MayRun, IsAdmin, Kept, Known, KnownLock
      <3> QED BY <2>5, <2>7, <3>2, <3>3, <3>4 DEF Informed
    <2>9. Permitted(op[s])' BY <2>2, <2>7 DEF Permitted, MayRun, IsAdmin
    <2>10. GoodSession(s)'
      <3>1. ~Flushed(s)' /\ HasRead(s)' /\ pc'[s] # "idle"
        BY <2>3, <2>7 DEF Flushed, HasRead
      <3>2. pc'[s] # "committing" /\ (pc'[s] = "publishing" => o.kind \in Announced)
        BY <2>3, <2>7 DEF Announced
      <3> QED BY <2>1, <2>2, <2>7, <2>8, <2>9, <3>1, <3>2 DEF GoodSession
    <2>11. pc' = [pc EXCEPT ![s] = label] BY <1>2 DEF Goto
    <2>12. /\ op' = [op EXCEPT ![s] = o] /\ sent' = [sent EXCEPT ![s] = sent[s]]
           /\ rowLock' \in [Ids -> Sessions \cup {None}] /\ sent[s] \in Messages \cup {None}
      BY <1>2 DEF AdminInv, TypeOK
    <2>13. label \in Labels BY <2>3 DEF Labels
    <2>14. seen' = [seen EXCEPT ![s] = read] BY <1>2
    <2>15. /\ \A z \in Sessions : id # None /\ z # s /\ table \in {"locks", "shared"}
                                    => id # new[z]
           /\ new' = [new EXCEPT ![s] = id] /\ UNCHANGED <<table, rows, rowLock>>
      BY <1>2, <2>1, <2>4, <2>5, <2>6
    <2> HIDE DEF read, label, o
    <2>16. o \in Requests(table) \cup {None} BY <2>2
    <2> QED BY <2>10, <2>11, <2>12, <2>13, <2>14, <2>15, <2>16, GoOnStep
  <1> QED BY <1>1, <1>2 DEF Read

\* Informed and Touched look at no step of the program and no lock.
LEMMA StaysInformed ==
    ASSUME NEW s \in Sessions, Informed(s), UNCHANGED <<table, rows, op[s], seen[s], new[s]>>
    PROVE  Informed(s)' /\ Touched(s)' = Touched(s)
  <1>1. Informed(s)'
    BY DEF Informed, GoodRow, Fits, Sound, MayRun, IsAdmin, Kept, Known, KnownLock
  <1>2. Touched(s)' = Touched(s) BY DEF Touched, Changed, Written, Deletes, Patched
  <1> QED BY <1>1, <1>2

\* The rows a session touches are rows of the table, and no new ones.
LEMMA TouchedKept ==
    ASSUME AdminInv, NEW s \in Sessions, HasRead(s)
    PROVE  /\ Touched(s) \subseteq Ids /\ Touched(s) \subseteq DOMAIN seen[s]
           /\ \A i \in Touched(s) : /\ Kept(seen[s][i], rows[i])
                                    /\ GoodRow(seen[s][i])
                                    /\ rows[i] # None
  <1>1. Informed(s) /\ table \in Tables BY SessionFacts DEF GoodSession
  <1>2. Touched(s) \subseteq DOMAIN seen[s] BY DEF Touched
  <1>3. ASSUME NEW i \in DOMAIN seen[s]
        PROVE  i \in Ids /\ Kept(seen[s][i], rows[i]) /\ GoodRow(seen[s][i]) /\ rows[i] # None
    <2>1. i \in Ids /\ Kept(seen[s][i], rows[i]) /\ GoodRow(seen[s][i])
      BY <1>1 DEF Informed
    <2>2. CASE table \in {"quotas", "models"}
      BY <2>1, <2>2, NoRowAssumption DEF Kept, Rows
    <2>3. CASE table = "locks" BY <2>1, <2>3, RowFacts, NullAssumption DEF Kept
    <2>4. CASE table = "shared" BY <2>1, <2>4, RowFacts DEF Kept
    <2> QED BY <1>1, <2>1, <2>2, <2>3, <2>4 DEF Tables
  <1> QED BY <1>2, <1>3

\* A flush fails, or takes the locks of all it is to write.
LEMMA FlushStep ==
    ASSUME AdminInv, NEW s \in Sessions, Flush(s)
    PROVE  AdminInv'
  <1> DEFINE mine == Touched(s) \cup ({new[s]} \ {None})
  <1>1. /\ pc[s] = "flushing" /\ \A i \in mine : rowLock[i] = None
        /\ UNCHANGED <<table, rows>>
    BY DEF Flush
  <1>2. CASE Taken(op[s], new[s]) /\ Close(s) BY <1>1, <1>2, GiveUpStep
  <1>3. CASE /\ ~Taken(op[s], new[s])
             /\ rowLock' = [i \in Ids |-> IF i \in mine THEN s ELSE rowLock[i]]
             /\ Goto(s, AfterFlush(op[s]))
             /\ UNCHANGED <<op, seen, new, sent>>
    <2>1. HasRead(s) BY <1>1 DEF HasRead
    <2>2. /\ Informed(s) /\ op[s] \in Requests(table) /\ Permitted(op[s])
          /\ ~(sent[s] # None /\ op[s].kind = "update_model")
      BY <1>1, <2>1, SessionFacts DEF GoodSession, Flushed
    <2>3. /\ pc'[s] = AfterFlush(op[s]) /\ AfterFlush(op[s]) \in {"publishing", "committing"}
          /\ UNCHANGED <<op[s], seen[s], new[s], sent[s]>>
      BY <1>3 DEF Goto, AfterFlush, AdminInv, TypeOK
    <2>4. Informed(s)' /\ Touched(s)' = Touched(s) BY <1>1, <2>2, <2>3, StaysInformed
    <2>5. Touched(s) \subseteq Ids BY <2>1, TouchedKept
    <2>6. new[s] \in Ids \cup {None} /\ sent[s] \in Messages \cup {None} BY DEF AdminInv, TypeOK
    <2>7. Holds(s)'
      <3>1. \A i \in Touched(s) : rowLock'[i] = s BY <1>3, <2>5
      <3>2. new[s] # None => rowLock'[new[s]] = s /\ rows[new[s]] = None
        BY <1>3, <2>6 DEF Taken
      <3> QED BY <1>1, <2>3, <2>4, <3>1, <3>2 DEF Holds
    <2>8. Permitted(op[s])' BY <2>2, <2>3 DEF Permitted, MayRun, IsAdmin
    <2>9. GoodSession(s)'
      <3>1. HasRead(s)' BY <2>3 DEF HasRead
      <3>2. /\ pc'[s] = "publishing" => op[s].kind \in Announced
            /\ op[s].kind = "update_model" => pc'[s] # "committing"
        BY <2>3 DEF AfterFlush, Announced
      <3> QED BY <1>1, <2>2, <2>3, <2>4, <2>7, <2>8, <3>1, <3>2 DEF GoodSession
    <2>10. /\ pc' = [pc EXCEPT ![s] = AfterFlush(op[s])] /\ AfterFlush(op[s]) \in Labels
           /\ op' = [op EXCEPT ![s] = op[s]] /\ seen' = [seen EXCEPT ![s] = seen[s]]
           /\ new' = [new EXCEPT ![s] = new[s]] /\ sent' = [sent EXCEPT ![s] = sent[s]]
      BY <1>3, <2>3 DEF Goto, Labels, AdminInv, TypeOK
    <2>11. /\ rowLock' \in [Ids -> Sessions \cup {None}]
           /\ \A i \in Ids : rowLock[i] \in Sessions \ {s} => rowLock'[i] = rowLock[i]
      <3>1. \A i \in mine : rowLock[i] \notin Sessions BY <1>1, NullAssumption
      <3> QED BY <1>3, <3>1 DEF AdminInv, TypeOK
    <2>12. \A z \in Sessions : new[s] # None /\ z # s /\ table \in {"locks", "shared"}
                                  => new[s] # new[z]
      BY DEF AdminInv, Apart
    <2> QED BY <1>1, <2>2, <2>6, <2>9, <2>10, <2>11, <2>12, GoOnStep
  <1> QED BY <1>2, <1>3 DEF Flush

\* A message shows a model, a lock or the id of one.
LEMMA MessageTyped ==
    ASSUME AdminInv, NEW s \in Sessions, Informed(s), Shape(op[s]), op[s].kind \in Announced,
           table \in Tables, op[s] \in Requests(table)
    PROVE  Message(op[s], seen[s]) \in Messages
  <1>1. CASE op[s].kind = "update_model"
    <2>1. op[s].id \in DOMAIN seen[s] /\ table = "models" /\ op[s].set \in Patch
      BY <1>1 DEF Informed, Shape
    <2>2. seen[s][op[s].id] \in Record BY <2>1, RowFacts DEF Informed
    <2>3. Written(op[s], seen[s][op[s].id]) \in Record
      BY <1>1, <2>1, <2>2, PatchedRecord DEF Written, Deletes
    <2> QED BY <1>1, <2>3 DEF Message, Messages
  <1>2. CASE op[s].kind = "set_lock"
    BY <1>2, SMT DEF Shape, Message, Messages
  <1>3. CASE op[s].kind = "remove_lock"
    <2>1. table = "locks" BY <1>3 DEF Shape
    <2>2. op[s].dept \in Departments /\ op[s].id \in NewIds
      BY <1>3, <2>1, SMT DEF Requests
    <2> QED BY <1>3, <2>2, SMT DEF Message, Messages
  <1> QED BY <1>1, <1>2, <1>3 DEF Announced

\* A message changes nothing but that it was sent.
LEMMA PublishStep ==
    ASSUME AdminInv, NEW s \in Sessions, Publish(s)
    PROVE  AdminInv'
  <1> DEFINE label == IF AfterRead(op[s]) = "publishing" THEN "flushing" ELSE "committing"
  <1>1. /\ pc[s] = "publishing" /\ pc' = [pc EXCEPT ![s] = label]
        /\ sent' = [sent EXCEPT ![s] = Message(op[s], seen[s])]
        /\ UNCHANGED <<table, rows, rowLock, op, seen, new>>
    BY DEF Publish, Goto
  <1>2. HasRead(s) BY <1>1 DEF HasRead
  <1>3. /\ Informed(s) /\ op[s] \in Requests(table) /\ Permitted(op[s])
        /\ op[s].kind # "remove_lock" => Holds(s)
        /\ Shape(op[s]) /\ op[s].kind \in Announced /\ table \in Tables
    BY <1>1, <1>2, SessionFacts DEF GoodSession, Flushed
  <1>m. Message(op[s], seen[s]) \in Messages BY <1>3, MessageTyped
  <1>n. sent'[s] = Message(op[s], seen[s]) /\ Message(op[s], seen[s])' = Message(op[s], seen[s])
    BY <1>1 DEF AdminInv, TypeOK, Message
  <1>4. /\ label \in {"flushing", "committing"}
        /\ label = "flushing" <=> op[s].kind = "remove_lock"
    BY DEF AfterRead
  <1>5. pc'[s] = label /\ UNCHANGED <<op[s], seen[s], new[s]>>
    BY <1>1 DEF AdminInv, TypeOK
  <1>6. Informed(s)' /\ Touched(s)' = Touched(s) BY <1>1, <1>3, <1>5, StaysInformed
  <1>7. op[s].kind # "remove_lock" => Holds(s)' BY <1>1, <1>3, <1>6 DEF Holds
  <1>8. Permitted(op[s])' BY <1>3, <1>5 DEF Permitted, MayRun, IsAdmin
  <1>9. GoodSession(s)'
    <2>1. HasRead(s)' /\ (Flushed(s)' <=> op[s].kind # "remove_lock")
      BY <1>4, <1>5 DEF HasRead, Flushed
    <2>2. op[s].kind = "update_model" => op[s].kind # "remove_lock" OBVIOUS
    <2>3. pc'[s] # "publishing" BY <1>4, <1>5
    <2>4. sent'[s] = Message(op[s], seen[s])' BY <1>n
    <2> QED BY <1>1, <1>3, <1>5, <1>6, <1>7, <1>8, <2>1, <2>2, <2>3, <2>4 DEF GoodSession
  <1>10. /\ label \in Labels /\ op' = [op EXCEPT ![s] = op[s]]
         /\ seen' = [seen EXCEPT ![s] = seen[s]] /\ new' = [new EXCEPT ![s] = new[s]]
         /\ new[s] \in Ids \cup {None} /\ rowLock' \in [Ids -> Sessions \cup {None}]
    BY <1>1, <1>4 DEF Labels, AdminInv, TypeOK
  <1>11. \A z \in Sessions : new[s] # None /\ z # s /\ table \in {"locks", "shared"}
                                => new[s] # new[z]
    BY DEF AdminInv, Apart
  <1> HIDE DEF label
  <1> QED BY <1>1, <1>3, <1>m, <1>9, <1>10, <1>11, GoOnStep

Inserted(s, i) ==
    /\ i = new[s] /\ rows[i] = None /\ rowLock[i] = s
    /\ rows'[i] = NewRow(op[s]) /\ GoodRow(rows'[i])

Rewritten(s, i) ==
    /\ i \in Touched(s) /\ i # new[s] /\ rows[i] # None /\ rowLock[i] = s
    /\ rows'[i] = Overlaid(op[s], seen[s][i], rows[i])
    /\ rows'[i] = Gone \/ GoodRow(rows'[i])
    /\ \A other : Kept(other, rows[i]) => Kept(other, rows'[i])

Left(s, i) == i # new[s] /\ i \notin Touched(s) /\ rows'[i] = rows[i]

\* A commit inserts a row where there was none, overlays or deletes the rows the
\* session holds, and leaves the others.
LEMMA CommitRows ==
    ASSUME AdminInv, NEW s \in Sessions, Commit(s), NEW i \in Ids
    PROVE  Inserted(s, i) \/ Rewritten(s, i) \/ Left(s, i)
  <1>1. HasRead(s) /\ Flushed(s) BY DEF Commit, HasRead, Flushed
  <1>2. /\ Informed(s) /\ Holds(s) /\ table \in Tables /\ Shape(op[s])
    BY <1>1, SessionFacts DEF GoodSession, HasRead
  <1>3. rows'[i] = IF i = new[s] THEN NewRow(op[s])
                   ELSE IF i \in Touched(s) THEN Overlaid(op[s], seen[s][i], rows[i])
                   ELSE rows[i]
    BY DEF Commit
  <1>4. CASE i = new[s]
    <2>1. new[s] # None BY <1>4, NullAssumption
    <2>2. rows[i] = None /\ rowLock[i] = s BY <1>2, <1>4, <2>1 DEF Holds
    <2>3. GoodRow(NewRow(op[s])) BY <1>2, <2>1, NewRowGood DEF Informed
    <2> QED BY <1>3, <1>4, <2>2, <2>3 DEF Inserted
  <1>5. CASE i # new[s] /\ i \in Touched(s)
    <2>1. /\ i \in DOMAIN seen[s] /\ Kept(seen[s][i], rows[i]) /\ GoodRow(seen[s][i])
          /\ rows[i] # None /\ rowLock[i] = s
      BY <1>1, <1>2, <1>5, TouchedKept DEF Holds
    <2>2. Known(op[s], i, seen[s][i]) \/ KnownLock(op[s], seen[s][i])
      BY <1>2, <2>1 DEF Informed
    <2> QED BY <1>2, <1>3, <1>5, <2>1, <2>2, OverlaidGood DEF Rewritten
  <1>6. CASE i # new[s] /\ i \notin Touched(s) BY <1>3, <1>6 DEF Left
  <1> QED BY <1>4, <1>5, <1>6

\* A commit keeps what the other sessions have read, reserved or locked.
LEMMA CommitStep ==
    ASSUME AdminInv, NEW s \in Sessions, Commit(s)
    PROVE  AdminInv'
  <1>1. Close(s) /\ table' = table BY DEF Commit
  <1>2. ASSUME NEW i \in Ids PROVE rows'[i] \in {None, Gone} \/ GoodRow(rows'[i])
    BY CommitRows DEF AdminInv, Inserted, Rewritten, Left
  <1>3. TypeOK'
    <2>1. \A z \in Sessions : op'[z] \in Requests(table') \cup {None}
      BY <1>1, ClosedGood DEF AdminInv, TypeOK
    <2>2. rows' \in [Ids -> Rows \cup {None, Gone}]
      <3>1. \A i \in Ids : rows'[i] \in Rows \cup {None, Gone} BY <1>2, RowFacts
      <3> QED BY <3>1 DEF Commit
    <2> QED BY <1>1, <2>1, <2>2, ClosedGood DEF AdminInv, TypeOK
  <1>4. ASSUME NEW z \in Sessions PROVE GoodSession(z)'
    <2>1. CASE z = s BY <1>1, <2>1, ClosedGood
    <2>2. CASE z # s
      <3>1. UNCHANGED <<pc[z], op[z], seen[z], new[z], sent[z], table>>
        BY <1>1, <2>2, ClosedGood
      <3>2. ASSUME HasRead(z) PROVE Undisturbed(z)
        <4>1. Informed(z) /\ (Flushed(z) => Holds(z)) /\ op[z] \in Requests(table)
              /\ Shape(op[z])
          BY <3>2, SessionFacts DEF GoodSession, HasRead
        <4>2. ASSUME NEW i \in DOMAIN seen[z], Kept(seen[z][i], rows[i])
              PROVE  Kept(seen[z][i], rows'[i])
          <5>1. i \in Ids /\ table \in Tables BY <4>1, SessionFacts DEF Informed
          <5>2. rows[i] # None
            <6>1. CASE table \in {"quotas", "models"}
              BY <4>2, <6>1, NoRowAssumption DEF Kept, Rows
            <6>2. CASE table = "locks"
              <7>1. GoodRow(seen[z][i]) BY <4>1 DEF Informed
              <7> QED BY <4>2, <6>2, <7>1, RowFacts, NullAssumption DEF Kept
            <6>3. CASE table = "shared" BY <4>2, <6>3, RowFacts DEF Kept
            <6> QED BY <5>1, <6>1, <6>2, <6>3 DEF Tables
          <5> QED BY <4>2, <5>1, <5>2, CommitRows DEF Inserted, Rewritten, Left
        <4>3. ASSUME new[z] # None, op[z].kind \in ByFreshId \/ Flushed(z)
              PROVE  rows'[new[z]] = rows[new[z]]
          <5>1. new[z] \in Ids BY <4>3 DEF AdminInv, TypeOK
          <5>2. rows[new[z]] = None BY <4>1, <4>3 DEF Informed, Holds
          <5>3. ~Inserted(s, new[z])
            <6>1. CASE op[z].kind \in ByFreshId
              <7>1. table \in {"locks", "shared"} BY <4>1, <6>1 DEF Shape, ByFreshId
              <7>2. new[z] # new[s] BY <2>2, <4>3, <7>1 DEF AdminInv, Apart
              <7> QED BY <7>2 DEF Inserted
            <6>2. CASE Flushed(z)
              <7>1. rowLock[new[z]] = z BY <4>1, <4>3, <6>2 DEF Holds
              <7> QED BY <2>2, <7>1 DEF Inserted
            <6> QED BY <4>3, <6>1, <6>2
          <5> QED BY <5>1, <5>2, <5>3, CommitRows DEF Rewritten, Left
        <4>4. \A i \in Ids : rowLock[i] = z => rowLock'[i] = z
          BY <1>1, <2>2, ClosedGood
        <4> QED BY <3>1, <4>2, <4>3, <4>4 DEF Undisturbed
      <3> QED BY <3>1, <3>2, StaysGood
    <2> QED BY <2>1, <2>2
  <1>5. \A i \in Ids : rows'[i] \in {None, Gone} \/ GoodRow(rows[i])'
    BY <1>1, <1>2 DEF GoodRow, Fits, Sound, MayRun, IsAdmin
  <1>6. ASSUME NEW x \in Sessions, NEW z \in Sessions PROVE Apart(x, z)'
    <2>1. Apart(x, z) BY DEF AdminInv
    <2>2. new'[x] \in {new[x], None} /\ (new'[z] = new[z] \/ new'[z] = None)
      BY <1>1, ClosedGood
    <2> QED BY <1>1, <2>1, <2>2 DEF Apart
  <1> QED BY <1>1, <1>3, <1>4, <1>5, <1>6, ClosedGood DEF AdminInv

\* Every step keeps the invariant.
LEMMA AdminStep == AdminInv /\ [Next]_vars => AdminInv'
  <1> SUFFICES ASSUME AdminInv, [Next]_vars PROVE AdminInv'
    OBVIOUS
  <1>1. ASSUME NEW s \in Sessions, Step(s) PROVE AdminInv'
    <2>1. CASE \E o \in Requests(table) : Arrive(s, o) BY <2>1, ArriveStep
    <2>2. CASE Read(s) BY <2>2, ReadStep
    <2>3. CASE Flush(s) BY <2>3, FlushStep
    <2>4. CASE Publish(s) BY <2>4, PublishStep
    <2>5. CASE Commit(s) BY <2>5, CommitStep
    <2>6. CASE Abort(s) BY <2>6, GiveUpStep DEF Abort
    <2> QED BY <1>1, <2>1, <2>2, <2>3, <2>4, <2>5, <2>6 DEF Step
  <1>2. CASE UNCHANGED vars
    <2>1. UNCHANGED <<table, rows, rowLock, pc, op, seen, new, sent>> BY <1>2 DEF vars
    <2>2. ASSUME NEW z \in Sessions PROVE GoodSession(z)'
      <3>1. Undisturbed(z) BY <2>1 DEF Undisturbed
      <3> QED BY <3>1, StaysGood DEF Undisturbed
    <2>3. TypeOK' BY <2>1 DEF AdminInv, TypeOK
    <2>4. \A i \in Ids : rows'[i] \in {None, Gone} \/ GoodRow(rows[i])'
      BY <2>1 DEF AdminInv, GoodRow, Fits, Sound, MayRun, IsAdmin
    <2>5. \A x, z \in Sessions : Apart(x, z)' BY <2>1 DEF AdminInv, Apart
    <2> QED BY <2>1, <2>2, <2>3, <2>4, <2>5 DEF AdminInv
  <1> QED BY <1>1, <1>2 DEF Next

\* The invariant holds in every behaviour.
LEMMA Administered == Spec => []AdminInv
  <1> QED BY InitAdmin, AdminStep, PTL DEF Spec

----------------------------------------------------------------------------
(* The properties.                                                         *)

\* The rows, the row locks and the requests keep their types, for any number of
\* sessions.
THEOREM TypeCorrect == Spec => []TypeOK
  <1>1. AdminInv => TypeOK BY DEF AdminInv
  <1> QED BY <1>1, Administered, PTL

\* A shared result is decided on by the head of the department it was shared
\* with or an administrator, and status and approver come from one decision.
THEOREM TargetDecides == Spec => []DecidedByTarget
  <1>1. AdminInv => DecidedByTarget
    <2> SUFFICES ASSUME AdminInv, NEW i \in Present, table = "shared"
                 PROVE  Sound(rows[i])
      BY DEF DecidedByTarget, Sound
    <2>1. GoodRow(rows[i]) BY DEF AdminInv, Present
    <2> QED BY <2>1 DEF GoodRow
  <1> QED BY <1>1, Administered, PTL

\* Two updates of one model that change something announce it one after the other:
\* the second waits for the row lock of the first before it publishes.
THEOREM OneAtATime == Spec => []OneMessageAtATime
  <1>1. AdminInv => OneMessageAtATime
    <2> SUFFICES ASSUME AdminInv, NEW s \in Sessions, NEW z \in Sessions, s # z,
                        AnnouncesModel(s), AnnouncesModel(z), op[s].id = op[z].id,
                        Touched(s) # {}, Touched(z) # {}
                 PROVE  FALSE
      BY DEF OneMessageAtATime
    <2>1. ASSUME NEW x \in {s, z} PROVE op[x].id \in Touched(x) /\ rowLock[op[x].id] = x
      <3>1. /\ sent[x] # None /\ op[x].kind = "update_model" /\ pc[x] # "idle"
            /\ x \in Sessions /\ Touched(x) # {}
        BY DEF AnnouncesModel, Runs
      <3>2. GoodSession(x) BY <3>1 DEF AdminInv
      <3>3. Flushed(x) /\ HasRead(x) BY <3>1, <3>2 DEF GoodSession, Flushed, HasRead
      <3>4. Informed(x) /\ Holds(x) BY <3>2, <3>3 DEF GoodSession
      <3>5. Touched(x) \subseteq {op[x].id}
        BY <3>1, <3>4 DEF Touched, Informed, Known, KnownLock
      <3> QED BY <3>1, <3>4, <3>5 DEF Holds
    <2> QED BY <2>1
  <1> QED BY <1>1, Administered, PTL

\* Only a commit writes rows.
LEMMA OnlyCommits ==
    ASSUME AdminInv, [Next]_vars
    PROVE  rows' = rows \/ \E s \in Sessions : Commit(s)
  BY DEF Next, Step, Arrive, Read, Flush, Publish, Abort, vars

\* A commit is one of a session that is committing and then closes.
LEMMA CommitCloses ==
    ASSUME AdminInv, NEW s \in Sessions, Commit(s), NEW kinds, op[s].kind \in kinds
    PROVE  Commits(s, kinds)
  BY DEF AdminInv, TypeOK, Commit, Close, Goto, Commits, Runs

\* A column of a quota or a model changes only to a value that the request names.
THEOREM OnlyNamedColumns == Spec => ColumnsKept
  <1> DEFINE A == \A i \in Ids, f \in Fields :
                     table \in {"quotas", "models"} /\ rows[i] # None
                        /\ rows'[i][f] # rows[i][f]
                        => \E s \in Sessions : /\ Commits(s, {"update_quota", "update_model"})
                                               /\ op[s].id = i
                                               /\ op[s].set[f] = rows'[i][f]
  <1>1. AdminInv /\ [Next]_vars => A
    <2> SUFFICES ASSUME AdminInv, [Next]_vars, NEW i \in Ids, NEW f \in Fields,
                        table \in {"quotas", "models"}, rows[i] # None,
                        rows'[i][f] # rows[i][f]
                 PROVE  \E s \in Sessions :
                           /\ Commits(s, {"update_quota", "update_model"})
                           /\ op[s].id = i /\ op[s].set[f] = rows'[i][f]
      OBVIOUS
    <2>1. PICK s \in Sessions : Commit(s) BY OnlyCommits
    <2>2. Rewritten(s, i) BY <2>1, CommitRows DEF Inserted, Left
    <2>3. HasRead(s) /\ Shape(op[s]) BY <2>1, SessionFacts DEF Commit, HasRead
    <2>4. Informed(s) BY <2>3, SessionFacts DEF GoodSession
    <2>5. i \in DOMAIN seen[s] /\ GoodRow(seen[s][i]) /\ Kept(seen[s][i], rows[i])
      BY <2>2, <2>3, TouchedKept DEF Rewritten
    <2>6. Known(op[s], i, seen[s][i])
      BY <2>3, <2>4, <2>5 DEF Informed, KnownLock, Shape
    <2>7. op[s].kind \in {"update_quota", "update_model"} /\ op[s].id = i
      BY <2>3, <2>6 DEF Known, Shape
    <2>8. seen[s][i] \in Record /\ rows[i] \in Record BY <2>5, RowFacts DEF Kept
    <2>9. op[s].set[f] = rows'[i][f] BY <2>2, <2>3, <2>7, <2>8, OverlaidRecord DEF Rewritten
    <2> QED BY <2>1, <2>7, <2>9, CommitCloses
  <1>2. AdminInv /\ [Next]_vars => [A]_vars BY <1>1
  <1> QED BY <1>2, Administered, PTL DEF Spec, ColumnsKept

\* The step that ends a request that was to commit is its own.
LEMMA OwnCommit ==
    ASSUME AdminInv, [Next]_vars, NEW s \in Sessions, pc'[s] # pc[s], rows' # rows
    PROVE  Commit(s)
  <1>1. PICK z \in Sessions : Commit(z) BY OnlyCommits
  <1>2. z # s => pc'[s] = pc[s] BY <1>1 DEF Commit, Close, Goto, AdminInv, TypeOK
  <1> QED BY <1>1, <1>2

\* What a message about a model shows of a column the update changes is committed,
\* and of another column it shows what was read: it is wrong only if somebody else
\* has changed that one since.
THEOREM AnnouncedTrue == Spec => AnnouncedIsCommitted
  <1> DEFINE A == \A s \in Sessions :
                     Commits(s, {"update_model"}) /\ (rows' # rows \/ Touched(s) = {})
                        => LET i == op[s].id
                           IN  \A f \in Fields :
                                  sent[s][f] # rows'[i][f]
                                     => /\ f \notin Changed(op[s], seen[s][i])
                                        /\ rows[i][f] # seen[s][i][f]
  <1>1. AdminInv /\ [Next]_vars => A
    <2> SUFFICES ASSUME AdminInv, [Next]_vars, NEW s \in Sessions, NEW f \in Fields,
                        Commits(s, {"update_model"}), rows' # rows \/ Touched(s) = {},
                        sent[s][f] # rows'[op[s].id][f]
                 PROVE  /\ f \notin Changed(op[s], seen[s][op[s].id])
                        /\ rows[op[s].id][f] # seen[s][op[s].id][f]
      OBVIOUS
    <2> DEFINE i == op[s].id
               old == seen[s][i]
               changed == Changed(op[s], old)
    <2>1. /\ pc[s] = "committing" /\ pc'[s] = "idle" /\ op[s].kind = "update_model"
          /\ HasRead(s)
      BY DEF Commits, Runs, HasRead
    <2>2. /\ Shape(op[s]) /\ Informed(s) /\ sent[s] = Message(op[s], seen[s])
          /\ table = "models"
      BY <2>1, SessionFacts DEF GoodSession, Shape
    <2>3. /\ i \in DOMAIN seen[s] /\ i \in Ids /\ GoodRow(old) /\ Kept(old, rows[i])
          /\ new[s] = None
      BY <2>1, <2>2 DEF Informed, ByFreshId
    <2>4. old \in Record /\ rows[i] \in Record
      BY <2>2, <2>3, RowFacts DEF Kept
    <2>5. sent[s][f] = Written(op[s], old)[f] BY <2>1, <2>2 DEF Message
    <2>6. DOMAIN old = Fields /\ DOMAIN rows[i] = Fields BY <2>4 DEF Record
    <2>7. f \notin changed => Written(op[s], old)[f] = old[f] BY <2>6 DEF Changed
    <2>8. i \notin Touched(s) => changed = {} BY <2>3 DEF Touched
    <2>9. rows'[i][f] = IF f \in changed THEN Written(op[s], old)[f] ELSE rows[i][f]
      <3>1. CASE rows' = rows BY <2>8, <3>1
      <3>2. CASE rows' # rows
        <4>1. Commit(s) BY <2>1, <3>2, OwnCommit
        <4>2. ~Inserted(s, i) BY <2>3, NullAssumption DEF Inserted
        <4>3. CASE Rewritten(s, i)
          <5>1. rows'[i] = Overlaid(op[s], old, rows[i]) BY <4>3 DEF Rewritten
          <5> QED BY <2>1, <2>6, <5>1 DEF Overlaid, Deletes
        <4>4. CASE Left(s, i) BY <2>8, <4>4 DEF Left
        <4> QED BY <2>3, <4>1, <4>2, <4>3, <4>4, CommitRows
      <3> QED BY <3>1, <3>2
    <2> HIDE DEF i, old, changed
    <2>10. f \notin changed /\ rows[i][f] # old[f] BY <2>5, <2>7, <2>9 DEF i
    <2> QED BY <2>10 DEF i, old, changed
  <1>2. AdminInv /\ [Next]_vars => [A]_vars BY <1>1
  <1> QED BY <1>2, Administered, PTL DEF Spec, AnnouncedIsCommitted

\* An insert that finds a row of the same name or department leaves it alone.
THEOREM NoOverwrite == Spec => InsertsDoNotOverwrite
  <1> DEFINE A == \A i \in Ids, s \in Sessions :
                     Commits(s, {"create_model", "update_quota"}) /\ new[s] = i
                        /\ rows[i] # None
                        => rows'[i] = rows[i]
  <1>1. AdminInv => A
    <2> SUFFICES ASSUME AdminInv, NEW i \in Ids, NEW s \in Sessions,
                        Commits(s, {"create_model", "update_quota"}), new[s] = i,
                        rows[i] # None
                 PROVE  FALSE
      OBVIOUS
    <2>1. Flushed(s) BY DEF Commits, Flushed
    <2>2. Holds(s) BY <2>1, SessionFacts DEF GoodSession
    <2>3. new[s] # None BY NullAssumption
    <2> QED BY <2>2, <2>3 DEF Holds
  <1>2. AdminInv /\ [Next]_vars => [A]_vars BY <1>1
  <1> QED BY <1>2, Administered, PTL DEF Spec, InsertsDoNotOverwrite

\* A task type that is locked is unlocked only by a removal: replacing the lock
\* deletes and inserts in one transaction.
THEOREM NoGap == Spec => LockGoesOnlyByRemoval
  <1> DEFINE A == \A d \in Departments, type \in TaskTypes :
                     Locks(d, type) # {} /\ Locks(d, type)' = {}
                        => \E s \in Sessions : Commits(s, {"remove_lock"})
  <1>1. AdminInv /\ [Next]_vars => [A]_vars
    <2> SUFFICES ASSUME AdminInv, [Next]_vars, UNCHANGED vars \/ Next,
                        NEW d \in Departments, NEW type \in TaskTypes,
                        Locks(d, type) # {}, Locks(d, type)' = {}
                 PROVE  \E s \in Sessions : Commits(s, {"remove_lock"})
      OBVIOUS
    <2>1. PICK i \in Ids : /\ rows[i] \notin {None, Gone} /\ table = "locks"
                           /\ rows[i].department = d /\ rows[i].task_type = type
      BY DEF Locks, Present
    <2>2. table' = table
      BY DEF Next, Step, Arrive, Read, Flush, Publish, Abort, Commit, vars
    <2>3. rows' # rows BY <2>1, <2>2 DEF Locks, Present
    <2>4. PICK s \in Sessions : Commit(s) BY <2>3, OnlyCommits
    <2>5. HasRead(s) /\ Shape(op[s]) BY <2>4, SessionFacts DEF Commit, HasRead
    <2>6. Informed(s) BY <2>5, SessionFacts DEF GoodSession
    <2>7. CASE op[s].kind = "remove_lock" BY <2>4, <2>7, CommitCloses
    <2>8. CASE op[s].kind = "set_lock"
      <3>1. op[s].row \in Lock BY <2>5, <2>8 DEF Shape
      <3>2. new[s] \in Ids /\ new[s] # None
        BY <2>6, <2>8 DEF Informed, AdminInv, TypeOK
      <3>3. rows'[new[s]] = op[s].row /\ GoodRow(rows'[new[s]])
        BY <2>4, <2>8, <3>2, CommitRows DEF Inserted, Rewritten, Left, NewRow
      <3>4. CASE op[s].row.department = d /\ op[s].row.task_type = type
        <4>1. new[s] \in Locks(d, type)' BY <2>1, <2>2, <3>2, <3>3, <3>4, RowFacts
                                         DEF Locks, Present
        <4> QED BY <4>1
      <3>5. CASE ~(op[s].row.department = d /\ op[s].row.task_type = type)
        <4>1. ~Inserted(s, i) BY <2>1 DEF Inserted
        <4>2. ~Rewritten(s, i)
          <5>1. SUFFICES ASSUME i \in Touched(s) PROVE FALSE BY DEF Rewritten
          <5>2. i \in DOMAIN seen[s] /\ Kept(seen[s][i], rows[i])
            BY <2>5, <5>1, TouchedKept
          <5>3. KnownLock(op[s], seen[s][i])
            BY <2>6, <2>8, <5>2 DEF Informed, Known
          <5>4. seen[s][i] = rows[i] BY <2>1, <5>2 DEF Kept
          <5> QED BY <2>1, <3>5, <5>3, <5>4 DEF KnownLock
        <4>3. rows'[i] = rows[i] BY <2>4, <4>1, <4>2, CommitRows DEF Left
        <4>4. i \in Locks(d, type)' BY <2>1, <2>2, <4>3 DEF Locks, Present
        <4> QED BY <4>4
      <3> QED BY <3>4, <3>5
    <2> QED BY <2>1, <2>5, <2>7, <2>8 DEF Shape
  <1> QED BY <1>1, Administered, PTL DEF Spec, LockGoesOnlyByRemoval

\* What a commit of set_lock leaves of the locks: those it had not found, and
\* the new one.  No other commit adds a lock.
LEMMA LockCommit ==
    ASSUME AdminInv, NEW s \in Sessions, Commit(s),
           NEW d \in Departments, NEW type \in TaskTypes, NEW i \in Locks(d, type)'
    PROVE  \/ i \in Locks(d, type) /\ (op[s].kind = "set_lock" => i \notin DOMAIN seen[s])
           \/ /\ i = new[s] /\ op[s].kind = "set_lock" /\ rows[i] = None
              /\ op[s].row.department = d /\ op[s].row.task_type = type
  <1>1. /\ i \in Ids /\ rows'[i] \notin {None, Gone} /\ table = "locks"
        /\ rows'[i].department = d /\ rows'[i].task_type = type
    BY DEF Locks, Present, Commit
  <1>2. HasRead(s) /\ Shape(op[s]) BY SessionFacts DEF Commit, HasRead
  <1>3. Informed(s) BY <1>2, SessionFacts DEF GoodSession
  <1>4. op[s].kind \in {"set_lock", "remove_lock"} BY <1>1, <1>2 DEF Shape
  <1>5. CASE Inserted(s, i)
    <2>1. op[s].kind = "set_lock"
      BY <1>1, <1>3, <1>4, <1>5, NullAssumption DEF Inserted, Informed, ByFreshId
    <2> QED BY <1>1, <1>5, <2>1 DEF Inserted, NewRow
  <1>6. ~Rewritten(s, i)
    BY <1>1, <1>4 DEF Rewritten, Overlaid, Deletes
  <1>7. CASE Left(s, i)
    <2>1. i \in Locks(d, type) BY <1>1, <1>7 DEF Left, Locks, Present
    <2>2. op[s].kind = "set_lock" => i \notin DOMAIN seen[s]
      BY <1>7 DEF Left, Touched, Deletes
    <2> QED BY <2>1, <2>2
  <1> QED BY <1>1, <1>5, <1>6, <1>7, CommitRows

\* A second lock of a task type comes from a request that read before the first
\* was committed, and from nothing else.
THEOREM RacesAddLocks == Spec => OnlyRacesAddLocks
  <1> DEFINE A == \A d \in Departments, type \in TaskTypes :
                    \A i \in Locks(d, type)' \ Locks(d, type) :
                      \A k \in Locks(d, type)' \ {i} :
                        \E s \in Sessions :
                          Commits(s, {"set_lock"}) /\ new[s] = i /\ k \notin DOMAIN seen[s]
  <1>1. AdminInv /\ [Next]_vars => [A]_vars
    <2> SUFFICES ASSUME AdminInv, [Next]_vars, vars' # vars,
                        NEW d \in Departments, NEW type \in TaskTypes,
                        NEW i \in Locks(d, type)' \ Locks(d, type),
                        NEW k \in Locks(d, type)' \ {i}
                 PROVE  \E s \in Sessions : /\ Commits(s, {"set_lock"}) /\ new[s] = i
                                             /\ k \notin DOMAIN seen[s]
      OBVIOUS
    <2>1. table' = table
      BY DEF Next, Step, Arrive, Read, Flush, Publish, Abort, Commit, vars
    <2>2. rows' # rows BY <2>1 DEF Locks, Present
    <2>3. PICK s \in Sessions : Commit(s) BY <2>2, OnlyCommits
    <2>4. i = new[s] /\ op[s].kind = "set_lock" BY <2>3, LockCommit
    <2>5. k \in Locks(d, type)' /\ k # i OBVIOUS
    <2>6. k \notin DOMAIN seen[s] BY <2>3, <2>4, <2>5, LockCommit
    <2> QED BY <2>3, <2>4, <2>6, CommitCloses
  <1> QED BY <1>1, Administered, PTL DEF Spec, OnlyRacesAddLocks

\* A decision on a shared result is revised only by one that was taken while it
\* was pending.
THEOREM RacesRevise == Spec => OnlyRacesReviseDecisions
  <1> DEFINE A == \A i \in Present :
                     table = "shared" /\ rows[i].approval_status # "pending"
                        /\ rows'[i] # rows[i]
                        => \E s \in Sessions : /\ Commits(s, {"approve"})
                                               /\ op[s].id = i
                                               /\ seen[s][i].approval_status = "pending"
  <1>1. AdminInv /\ [Next]_vars => [A]_vars
    <2> SUFFICES ASSUME AdminInv, [Next]_vars, NEW i \in Present, table = "shared",
                        rows'[i] # rows[i]
                 PROVE  \E s \in Sessions : /\ Commits(s, {"approve"}) /\ op[s].id = i
                                             /\ seen[s][i].approval_status = "pending"
      OBVIOUS
    <2>1. i \in Ids /\ rows[i] # None BY DEF Present
    <2>2. PICK s \in Sessions : Commit(s) BY OnlyCommits
    <2>3. Rewritten(s, i) BY <2>1, <2>2, CommitRows DEF Inserted, Left
    <2>4. HasRead(s) /\ Shape(op[s]) BY <2>2, SessionFacts DEF Commit, HasRead
    <2>5. Informed(s) /\ i \in DOMAIN seen[s]
      BY <2>3, <2>4, SessionFacts, TouchedKept DEF GoodSession, Rewritten
    <2>6. op[s].kind = "approve" /\ Known(op[s], i, seen[s][i])
      BY <2>4, <2>5 DEF Informed, Known, KnownLock, Shape
    <2> QED BY <2>2, <2>6, CommitCloses DEF Known
  <1> QED BY <1>1, Administered, PTL DEF Spec, OnlyRacesReviseDecisions

----------------------------------------------------------------------------
(* One request at a time.                                                  *)

\* A request that has read knows the table as it is, and a task type has one lock.
UpToDate ==
    /\ \A s \in Sessions :
          HasRead(s) => seen[s] = [i \in Found(op[s]) |-> rows[i]]
    /\ \A d \in Departments, type \in TaskTypes :
          \A i, k \in Locks(d, type) : i = k

\* With one session nothing is written between a SELECT and the COMMIT.
LEMMA SerialStep ==
    ASSUME \A s, z \in Sessions : s = z, AdminInv, UpToDate, [Next]_vars
    PROVE  UpToDate'
  <1>1. CASE UNCHANGED vars
    <2>1. rows' = rows /\ table' = table /\ pc' = pc /\ op' = op /\ seen' = seen
      BY <1>1 DEF vars
    <2>2. \A s \in Sessions : HasRead(s)' = HasRead(s) /\ Found(op[s])' = Found(op[s])
      BY <2>1 DEF HasRead, Found, Present
    <2>3. \A d \in Departments, type \in TaskTypes : Locks(d, type)' = Locks(d, type)
      BY <2>1 DEF Locks, Present
    <2> QED BY <2>1, <2>2, <2>3 DEF UpToDate
  <1>2. ASSUME NEW s \in Sessions, Step(s) PROVE UpToDate'
    <2>1. table' = table BY <1>2 DEF Step, Arrive, Read, Flush, Publish, Abort, Commit
    <2>2. ASSUME NEW d \in Departments, NEW type \in TaskTypes,
                 NEW i \in Locks(d, type)', NEW k \in Locks(d, type)'
          PROVE  i = k
      <3>1. CASE Commit(s)
        <4>1. HasRead(s) BY <3>1 DEF Commit, HasRead
        <4>2. DOMAIN seen[s] = Found(op[s]) BY <4>1 DEF UpToDate
        <4>3. ASSUME op[s].kind = "set_lock", op[s].row.department = d,
                     op[s].row.task_type = type
              PROVE  Locks(d, type) \subseteq DOMAIN seen[s]
          BY <4>2, <4>3 DEF Found, Locks
        <4>4. \A j, l \in Locks(d, type) : j = l BY DEF UpToDate
        <4> QED BY <3>1, <4>3, <4>4, LockCommit
      <3>2. CASE ~Commit(s)
        <4>1. rows' = rows BY <1>2, <3>2 DEF Step, Arrive, Read, Flush, Publish, Abort
        <4> QED BY <2>1, <4>1 DEF UpToDate, Locks, Present
      <3> QED BY <3>1, <3>2
    <2>3. ASSUME HasRead(s)' PROVE seen'[s] = [i \in Found(op[s])' |-> rows'[i]]
      <3>1. ~Close(s) BY <2>3, ClosedGood DEF HasRead, Close, Goto, AdminInv, TypeOK
      <3>2. rows' = rows BY <1>2, <3>1 DEF Step, Arrive, Read, Flush, Publish, Abort, Commit
      <3>3. CASE Read(s)
        <4>1. seen'[s] = [i \in Found(op[s]) |-> rows[i]] /\ op'[s] = op[s]
          BY <3>1, <3>3 DEF Read, AdminInv
        <4>2. Found(op[s])' = Found(op[s]) BY <3>2, <4>1 DEF Found, Present
        <4> QED BY <3>2, <4>1, <4>2
      <3>4. CASE Flush(s) \/ Publish(s)
        <4>1. HasRead(s) /\ seen'[s] = seen[s] /\ op'[s] = op[s]
          BY <3>1, <3>4 DEF Flush, Publish, HasRead
        <4>2. Found(op[s])' = Found(op[s]) BY <3>2, <4>1 DEF Found, Present
        <4>3. seen[s] = [i \in Found(op[s]) |-> rows[i]] BY <4>1 DEF UpToDate
        <4> QED BY <3>2, <4>1, <4>2, <4>3
      <3>5. ASSUME NEW o \in Requests(table), Arrive(s, o) PROVE FALSE
        BY <2>3, <3>5 DEF Arrive, Goto, HasRead, AdminInv, TypeOK
      <3> QED BY <1>2, <3>1, <3>3, <3>4, <3>5 DEF Step, Abort, Commit
    <2> QED BY <2>2, <2>3 DEF UpToDate
  <1> QED BY <1>1, <1>2 DEF Next

\* If the requests came one at a time, a task type of a department would have one
\* lock at most, as api-definition 3.3 has it: what breaks that is concurrency.
THEOREM SerialLocks ==
    ASSUME \A s, z \in Sessions : s = z
    PROVE  Spec => []OneLockPerTaskType
  <1>1. Init => UpToDate
    BY NullAssumption DEF Init, UpToDate, HasRead, Locks, Present
  <1>2. AdminInv /\ UpToDate /\ [Next]_vars => UpToDate' BY SerialStep
  <1>3. UpToDate => OneLockPerTaskType
    <2> SUFFICES ASSUME UpToDate, NEW d \in Departments, NEW type \in TaskTypes
                 PROVE  Cardinality(Locks(d, type)) <= 1
      BY DEF OneLockPerTaskType
    <2>1. CASE Locks(d, type) = {} BY <2>1, FS_EmptySet
    <2>2. ASSUME NEW i \in Locks(d, type) PROVE Cardinality(Locks(d, type)) <= 1
      <3>1. Locks(d, type) = {i} BY <2>2 DEF UpToDate
      <3>2. Cardinality({i}) = 1 BY FS_Singleton
      <3> QED BY <3>1, <3>2
    <2> QED BY <2>1, <2>2
  <1> QED BY <1>1, <1>2, <1>3, Administered, PTL DEF Spec

\* If the requests came one at a time, a decision on a shared result would be final.
THEOREM SerialDecisions ==
    ASSUME \A s, z \in Sessions : s = z
    PROVE  Spec => [][\A i \in Present :
                         table = "shared" /\ rows[i].approval_status # "pending"
                            => rows'[i] = rows[i]]_vars
  <1> DEFINE A == \A i \in Present :
                     table = "shared" /\ rows[i].approval_status # "pending"
                        => rows'[i] = rows[i]
             B == \A i \in Present :
                     table = "shared" /\ rows[i].approval_status # "pending"
                        /\ rows'[i] # rows[i]
                        => \E s \in Sessions : /\ Commits(s, {"approve"})
                                               /\ op[s].id = i
                                               /\ seen[s][i].approval_status = "pending"
  <1>1. Init => UpToDate
    BY NullAssumption DEF Init, UpToDate, HasRead, Locks, Present
  <1>2. AdminInv /\ UpToDate /\ [Next]_vars => UpToDate' BY SerialStep
  <1>3. UpToDate /\ [B]_vars => [A]_vars
    <2> SUFFICES ASSUME UpToDate, B PROVE A OBVIOUS
    <2> SUFFICES ASSUME NEW i \in Present, table = "shared",
                        rows[i].approval_status # "pending", rows'[i] # rows[i]
                 PROVE  FALSE
      OBVIOUS
    <2>1. PICK s \in Sessions : /\ Commits(s, {"approve"}) /\ op[s].id = i
                                /\ seen[s][i].approval_status = "pending"
      OBVIOUS
    <2>2. seen[s] = [k \in Found(op[s]) |-> rows[k]]
      BY <2>1 DEF UpToDate, HasRead, Commits
    <2>3. i \in Found(op[s]) BY <2>1 DEF Found, Commits, Runs
    <2> QED BY <2>1, <2>2, <2>3
  <1>4. Spec => [][B]_vars BY RacesRevise DEF OnlyRacesReviseDecisions
  <1> QED BY <1>1, <1>2, <1>3, <1>4, Administered, PTL DEF Spec
=============================================================================
