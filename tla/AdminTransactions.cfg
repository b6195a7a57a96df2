SPECIFICATION Spec
CONSTANTS
    alice = alice  head1 = head1  head2 = head2  root = root
    d1 = d1  d2 = d2
    Sessions = {s1, s2}
    Users = {alice, head1, head2, root}
    Departments = {d1, d2}
    Role <- MCRole
    DeptOf <- MCDeptOf
    ModelNames = {m1}
    TaskTypes = {y1}
    Fields = {"cost_per_call", "status"}
    Values = {v0, v1}
    Default = v0
    NewIds = {i1, i2, i3}
    Gone = Gone
    None = None
INVARIANTS TypeOK DecidedByTarget OneMessageAtATime
PROPERTIES ColumnsKept InsertsDoNotOverwrite LockGoesOnlyByRemoval
PROPERTIES OnlyRacesAddLocks OnlyRacesReviseDecisions AnnouncedIsCommitted
SYMMETRY Symmetry
