------------------------- MODULE AdminTransactions -------------------------
(***************************************************************************)
(* The requests that configure the platform and share its results, taken   *)
(* apart at their awaits: quotas, departments and model locks              *)
(* (app/api/departments.py), the model registry (app/api/models.py) and    *)
(* shared results (app/api/shared.py).                                     *)
(*                                                                         *)
(* The sessions are those of TaskTransactions: a request reads under READ  *)
(* COMMITTED, decides, flushes what it changed under row locks, and get_db *)
(* commits after the handler returned.  Some requests publish what they    *)
(* did over NATS before that.  No request writes two of the four tables,   *)
(* so a behaviour follows the requests to one of them.  The audit log is   *)
(* left out.                                                               *)
(***************************************************************************)
EXTENDS Integers, FiniteSets

CONSTANTS
    Sessions,       \* database sessions that may be open at the same time
    Users,          \* user ids
    Departments,    \* department ids
    Role,           \* users.role
    DeptOf,         \* users.department_id
    ModelNames,     \* names of models
    TaskTypes,      \* task types a model may be locked for
    Fields,         \* the columns an update of a quota or a model may name
    Values,         \* the values of such a column
    Default,        \* the one it has by default
    NewIds,         \* ids of shared results and model locks, uuids
    Gone,           \* what is left of a deleted row: its id, never used again
    None            \* SQL NULL, no row

Ids == Departments \cup ModelNames \cup NewIds

ASSUME AdminRolesAssumption == Role \in [Users -> {"member", "dept_head", "admin"}]
ASSUME AdminDeptAssumption == DeptOf \in [Users -> Departments]
ASSUME DefaultAssumption == Default \in Values
ASSUME NullAssumption ==
    /\ None \notin Sessions \cup Users \cup Departments \cup Values \cup Ids
    /\ Gone # None

VARIABLES
    table,      \* the table this behaviour is about
    rows,       \* its committed rows
    rowLock,    \* rowLock[i]: the session whose write of row i is not committed
    pc,         \* pc[s]: where session s stands
    op,         \* op[s]: its request
    seen,       \* seen[s]: the rows it has read
    new,        \* new[s]: the id of the row it inserts
    sent        \* sent[s]: the message about its change it has published

vars == <<table, rows, rowLock, pc, op, seen, new, sent>>

----------------------------------------------------------------------------
(* Rows and requests.  A patch names some columns and leaves the others.   *)

Tables == {"quotas", "models", "locks", "shared"}

Record == [Fields -> Values]
Patch == [Fields -> Values \cup {None}]
Lock == [department : Departments, task_type : TaskTypes, locked_model : ModelNames]
Shared == [source : Departments, target : Departments \cup {None},
           approval_status : {"pending", "approved", "rejected"},
           approved_by : Users \cup {None}]
Rows == Record \cup Lock \cup Shared

\* what is published: the model, the new lock, or what is left of the old one
Messages == Record \cup Lock \cup [department : Departments, lock_id : NewIds]

ASSUME NoRowAssumption == None \notin Rows /\ Gone \notin Rows

Requests(which) ==
    CASE which = "quotas" ->
           [kind : {"update_quota"}, user : Users, id : Departments, set : Patch]
             \cup [kind : {"create_department"}, user : Users]
      [] which = "models" ->
           [kind : {"create_model"}, user : Users, id : ModelNames, row : Record]
             \cup [kind : {"update_model"}, user : Users, id : ModelNames, set : Patch]
      [] which = "locks" ->
           [kind : {"set_lock"}, user : Users, row : Lock]
             \cup [kind : {"remove_lock"}, user : Users, dept : Departments, id : NewIds]
      [] which = "shared" ->
           [kind : {"share"}, user : Users, target : Departments \cup {None}]
             \cup [kind : {"approve"}, user : Users, id : NewIds,
                   action : {"approved", "rejected"}]

----------------------------------------------------------------------------
(* Plausible mistakes, none part of the model.                             *)

MayDecideAnyShare(me, row) == Role[me] \in {"admin", "dept_head"}
AllColumns(o, old) == DOMAIN old
PublishFirst(o) == IF o.kind \in {"remove_lock", "update_model"} THEN "publishing" ELSE "flushing"
NeverTaken(o, id) == FALSE
MessageBeforeUpdate(o, read) == IF o.kind = "update_model" THEN read[o.id] ELSE None
PatchedWithNull(row, set) == set
InsertsUnlessFound(o, found) ==
    \/ o.kind \in {"create_model", "share"}
    \/ o.kind \in {"update_quota", "set_lock"} /\ found = {}

----------------------------------------------------------------------------
(* Who may ask for what.                                                   *)

IsAdmin(me) == Role[me] = "admin"

\* require_role("dept_head") and the comparison of departments after it
MayRun(me, d) == IsAdmin(me) \/ (Role[me] = "dept_head" /\ DeptOf[me] = d)

\* a department head decides on what was shared with the own department
MayDecide(me, row) == MayRun(me, row.target)

Permitted(o) ==
    CASE o.kind \in {"create_department", "create_model", "update_model"} -> IsAdmin(o.user)
      [] o.kind = "update_quota" -> MayRun(o.user, o.id)
      [] o.kind = "set_lock"     -> MayRun(o.user, o.row.department)
      [] o.kind = "remove_lock"  -> MayRun(o.user, o.dept)
      [] o.kind = "approve"      -> Role[o.user] \in {"admin", "dept_head"}
      [] o.kind = "share"        -> TRUE

----------------------------------------------------------------------------
(* What a request reads, and when it stops there with an error.            *)

Present == {i \in Ids : rows[i] \notin {None, Gone}}

\* the lock of the same department and task type; another id is looked up
Found(o) ==
    CASE o.kind = "set_lock" ->
           {i \in Present : /\ rows[i].department = o.row.department
                            /\ rows[i].task_type = o.row.task_type}
      [] o.kind = "remove_lock" -> {i \in Present \cap {o.id} : rows[i].department = o.dept}
      [] o.kind \in {"share", "create_department"} -> {}
      [] OTHER -> Present \cap {o.id}

\* a mistake: the decision does not ask whether one was taken
DecidesAgain(o) ==
    \/ o.kind \in {"update_model", "remove_lock", "approve"} /\ Found(o) = {}
    \/ o.kind = "create_model" /\ Found(o) # {}
    \/ o.kind = "set_lock" /\ Cardinality(Found(o)) > 1
    \/ o.kind = "approve" /\ \E i \in Found(o) : ~MayDecide(o.user, rows[i])

\* 404, 403, 409; and scalar_one_or_none raises when it finds two locks
Refused(o) ==
    LET found == Found(o)
    IN  \/ o.kind \in {"update_model", "remove_lock", "approve"} /\ found = {}
        \/ o.kind = "create_model" /\ found # {}
        \/ o.kind = "set_lock" /\ Cardinality(found) > 1
        \/ /\ o.kind = "approve"
           /\ \E i \in found : \/ ~MayDecide(o.user, rows[i])
                               \/ rows[i].approval_status # "pending"

----------------------------------------------------------------------------
(* What it writes.                                                         *)

Inserts(o, found) ==
    \/ o.kind \in {"create_model", "set_lock", "share"}
    \/ o.kind = "update_quota" /\ found = {}

Deletes(o) == o.kind \in {"set_lock", "remove_lock"}

Patched(row, set) == [f \in Fields |-> IF set[f] = None THEN row[f] ELSE set[f]]

\* share_result: what goes to another department waits for its approval
SharedRow(me, target) ==
    [source |-> DeptOf[me], target |-> target,
     approval_status |-> IF target \in {None, DeptOf[me]} THEN "approved" ELSE "pending",
     approved_by |-> None]

NewRow(o) ==
    CASE o.kind \in {"create_model", "set_lock"} -> o.row
      [] o.kind = "update_quota" -> Patched([f \in Fields |-> Default], o.set)
      [] o.kind = "share" -> SharedRow(o.user, o.target)

Written(o, old) ==
    IF Deletes(o) THEN Gone
    ELSE IF o.kind = "approve"
         THEN [old EXCEPT !.approval_status = o.action, !.approved_by = o.user]
         ELSE Patched(old, o.set)

\* the columns of the UPDATE: those that differ from what was loaded
Changed(o, old) == {c \in DOMAIN old : Written(o, old)[c] # old[c]}

\* the UPDATE laid over the row as it is by then; a DELETE needs no row
Overlaid(o, old, row) ==
    IF Deletes(o) THEN Gone
    ELSE [c \in DOMAIN row |-> IF c \in Changed(o, old) THEN Written(o, old)[c] ELSE row[c]]

\* a mistake: set_model_lock adds the new lock and leaves the old one
LeavesOldLock(s) ==
    {i \in DOMAIN seen[s] :
        op[s].kind # "set_lock"
            /\ (Deletes(op[s]) \/ Changed(op[s], seen[s][i]) # {})}

Touched(s) ==
    {i \in DOMAIN seen[s] : Deletes(op[s]) \/ Changed(op[s], seen[s][i]) # {}}

----------------------------------------------------------------------------

Init ==
    /\ table \in Tables
    /\ rows \in [Ids -> {None, [f \in Fields |-> Default]}]
    /\ \A i \in Ids : rows[i] # None => table = "quotas" /\ i \in Departments
    /\ rowLock = [i \in Ids |-> None]
    /\ pc = [s \in Sessions |-> "idle"]
    /\ op = [s \in Sessions |-> None]
    /\ seen = [s \in Sessions |-> <<>>]
    /\ new = [s \in Sessions |-> None]
    /\ sent = [s \in Sessions |-> None]

Goto(s, label) == pc' = [pc EXCEPT ![s] = label]

Close(s) ==
    /\ Goto(s, "idle")
    /\ op' = [op EXCEPT ![s] = None]
    /\ seen' = [seen EXCEPT ![s] = <<>>]
    /\ new' = [new EXCEPT ![s] = None]
    /\ sent' = [sent EXCEPT ![s] = None]
    /\ rowLock' = [i \in Ids |-> IF rowLock[i] = s THEN None ELSE rowLock[i]]

Arrive(s, o) ==
    /\ pc[s] = "idle"
    /\ Permitted(o)
    /\ Goto(s, "reading")
    /\ op' = [op EXCEPT ![s] = o]
    /\ UNCHANGED <<table, rows, rowLock, seen, new, sent>>

\* remove_model_lock publishes before it flushes
AfterRead(o) == IF o.kind = "remove_lock" THEN "publishing" ELSE "flushing"
AfterFlush(o) == IF o.kind \in {"set_lock", "update_model"} THEN "publishing" ELSE "committing"

\* the id of a new row: the name or department asked for, or a fresh uuid
IdFor(o, i) ==
    IF o.kind \in {"share", "set_lock"}
    THEN i \in NewIds /\ rows[i] = None /\ \A z \in Sessions : new[z] # i
    ELSE i = o.id

Read(s) ==
    /\ pc[s] = "reading"
    /\ UNCHANGED <<table, rows>>
    /\ \/ Refused(op[s]) /\ Close(s)
       \/ /\ ~Refused(op[s])
          /\ Goto(s, AfterRead(op[s]))
          /\ seen' = [seen EXCEPT ![s] = [i \in Found(op[s]) |-> rows[i]]]
          /\ IF Inserts(op[s], Found(op[s]))
             THEN \E i \in Ids : IdFor(op[s], i) /\ new' = [new EXCEPT ![s] = i]
             ELSE UNCHANGED new
          /\ UNCHANGED <<rowLock, op, sent>>

\* create_department passes the id of a department that has none before the
\* flush to its quota: NOT NULL fails.  A unique column fails when the other
\* insert was committed.
Taken(o, id) == o.kind = "create_department" \/ (id # None /\ rows[id] # None)

\* a write waits for the row locks of others, an insert for the unique column
Flush(s) ==
    LET mine == Touched(s) \cup ({new[s]} \ {None})
    IN  /\ pc[s] = "flushing"
        /\ \A i \in mine : rowLock[i] = None
        /\ \/ Taken(op[s], new[s]) /\ Close(s)
           \/ /\ ~Taken(op[s], new[s])
              /\ rowLock' = [i \in Ids |-> IF i \in mine THEN s ELSE rowLock[i]]
              /\ Goto(s, AfterFlush(op[s]))
              /\ UNCHANGED <<op, seen, new, sent>>
        /\ UNCHANGED <<table, rows>>

\* The message shows the columns of a model as the request has read and patched
\* them; by now others may have changed those it leaves alone.
Message(o, read) ==
    CASE o.kind = "update_model" -> Written(o, read[o.id])
      [] o.kind = "set_lock"     -> o.row
      [] o.kind = "remove_lock"  -> [department |-> o.dept, lock_id |-> o.id]

\* publish_config_change: the message may be lost, the request goes on
Publish(s) ==
    /\ pc[s] = "publishing"
    /\ Goto(s, IF AfterRead(op[s]) = "publishing" THEN "flushing" ELSE "committing")
    /\ sent' = [sent EXCEPT ![s] = Message(op[s], seen[s])]
    /\ UNCHANGED <<table, rows, rowLock, op, seen, new>>

Commit(s) ==
    /\ pc[s] = "committing"
    /\ rows' = [i \in Ids |->
                  IF i = new[s] THEN NewRow(op[s])
                  ELSE IF i \in Touched(s) THEN Overlaid(op[s], seen[s][i], rows[i])
                  ELSE rows[i]]
    /\ Close(s)
    /\ UNCHANGED table

\* the worker dies or loses a connection
Abort(s) ==
    /\ pc[s] # "idle"
    /\ Close(s)
    /\ UNCHANGED <<table, rows>>

Step(s) ==
    \/ \E o \in Requests(table) : Arrive(s, o)
    \/ Read(s) \/ Flush(s) \/ Publish(s) \/ Commit(s)
    \/ Abort(s)

Next == \E s \in Sessions : Step(s)

Spec == Init /\ [][Next]_vars

----------------------------------------------------------------------------

Labels == {"idle", "reading", "flushing", "publishing", "committing"}

TypeOK ==
    /\ table \in Tables
    /\ rows \in [Ids -> Rows \cup {None, Gone}]
    /\ rowLock \in [Ids -> Sessions \cup {None}]
    /\ pc \in [Sessions -> Labels]
    /\ \A s \in Sessions : op[s] \in Requests(table) \cup {None}
    /\ new \in [Sessions -> Ids \cup {None}]
    /\ sent \in [Sessions -> Messages \cup {None}]

Runs(s, kinds) == pc[s] # "idle" /\ op[s].kind \in kinds

\* in a step: this session closes after the commit, or dies just before
Commits(s, kinds) == Runs(s, kinds) /\ pc[s] = "committing" /\ pc'[s] = "idle"

Locks(d, type) ==
    {i \in Present : table = "locks" /\ rows[i].department = d /\ rows[i].task_type = type}

\* What was shared with another department is approved or rejected only by its
\* head or an administrator, however many decide at once and whoever commits
\* last: status and approver always come from one decision.
DecidedByTarget ==
    \A i \in Present :
        table = "shared" =>
            /\ rows[i].approved_by # None => MayRun(rows[i].approved_by, rows[i].target)
            /\ rows[i].approved_by = None <=>
                  \/ rows[i].approval_status = "pending"
                  \/ rows[i].target \in {None, rows[i].source}

\* A column of a quota or a model changes only to a value a request names for
\* it: an update that lets a column alone never writes back what it had read.
ColumnsKept ==
    [][\A i \in Ids, f \in Fields :
          table \in {"quotas", "models"} /\ rows[i] # None /\ rows'[i][f] # rows[i][f]
             => \E s \in Sessions : /\ Commits(s, {"update_quota", "update_model"})
                                    /\ op[s].id = i
                                    /\ op[s].set[f] = rows'[i][f]]_vars

\* Two administrators who add the same model or the same first quota do not
\* overwrite each other: the one who comes second fails.
InsertsDoNotOverwrite ==
    [][\A i \in Ids, s \in Sessions :
          Commits(s, {"create_model", "update_quota"}) /\ new[s] = i /\ rows[i] # None
             => rows'[i] = rows[i]]_vars

\* Replacing a lock leaves no gap: a department whose task type is locked is
\* without a lock only after a removal.
LockGoesOnlyByRemoval ==
    [][\A d \in Departments, type \in TaskTypes :
          Locks(d, type) # {} /\ Locks(d, type)' = {}
             => \E s \in Sessions : Commits(s, {"remove_lock"})]_vars

\* A second lock of a task type comes only from a set_model_lock whose SELECT
\* came too early to find the first; whatever it found it replaces.
OnlyRacesAddLocks ==
    [][\A d \in Departments, type \in TaskTypes :
          \A i \in Locks(d, type)' \ Locks(d, type) : \A k \in Locks(d, type)' \ {i} :
              \E s \in Sessions :
                  Commits(s, {"set_lock"}) /\ new[s] = i /\ k \notin DOMAIN seen[s]]_vars

\* The decision on a shared result is final, but for one who decided while it was
\* still pending and commits second.
OnlyRacesReviseDecisions ==
    [][\A i \in Present :
          table = "shared" /\ rows[i].approval_status # "pending" /\ rows'[i] # rows[i]
             => \E s \in Sessions : /\ Commits(s, {"approve"})
                                    /\ op[s].id = i
                                    /\ seen[s][i].approval_status = "pending"]_vars

AnnouncesModel(s) == sent[s] # None /\ Runs(s, {"update_model"})

\* From the message about a change of a model until the end of its request nobody
\* else publishes another change of that model, so the messages come in the order
\* of the commits.  An update that changes nothing has no row lock and may publish
\* in between.
OneMessageAtATime ==
    \A s, z \in Sessions :
        s # z /\ AnnouncesModel(s) /\ AnnouncesModel(z) /\ op[s].id = op[z].id
           => Touched(s) = {} \/ Touched(z) = {}

\* When an update of a model commits, its message has shown every column it changed
\* as it is committed.  Another column may be shown as it was before a request that
\* committed since this one read it: nothing else makes a message wrong.
AnnouncedIsCommitted ==
    [][\A s \in Sessions :
          Commits(s, {"update_model"}) /\ (rows' # rows \/ Touched(s) = {})
             => LET i == op[s].id
                IN  \A f \in Fields :
                       sent[s][f] # rows'[i][f]
                          => /\ f \notin Changed(op[s], seen[s][i])
                             /\ rows[i][f] # seen[s][i][f]]_vars

----------------------------------------------------------------------------

\* api-definition 3.3: a task type of a department that is locked is not locked
\* a second time; so it has one lock at most.
OneLockPerTaskType ==
    \A d \in Departments, type \in TaskTypes : Cardinality(Locks(d, type)) <= 1
=============================================================================
