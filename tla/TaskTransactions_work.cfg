SPECIFICATION MCSpec
CONSTANTS
    alice = alice  bob = bob  root = root  d1 = d1  a1 = a1
    Tasks = {t1}
    Users = {alice}
    Departments = {d1}
    Agents = {a1}
    Role <- MCRole
    DeptOf <- MCDeptOf
    AgentUser <- MCAgentUser
    AgentDept <- MCAgentDept
    Hashes = {h1}
    Models = {m1}
    Pcts = {50}
    MaxSeq = 1
    None = None
    Sessions = {s1, s2}
    Kinds = {"start", "progress", "submit", "release", "inactivity", "fallback", "stale"}
    AutoHolder = AutoHolder
    LocksExpire = TRUE
INVARIANTS HeldTasksHaveDeadlines CompletedHasResult
PROPERTIES OnlyOvertakenCommitsAreUnlawful
SYMMETRY SessionSymmetry
