SPECIFICATION FairSpec
CONSTANTS
    alice = alice  d1 = d1  a1 = a1  t1 = t1  t2 = t2  h1 = h1
    Me = alice
    Tasks = {t1, t2}
    Users = {alice, bob}
    Departments = {d1}
    Agents = {a1, a2}
    Role <- MCRole
    DeptOf <- MCDeptOf
    AgentUser <- MCAgentUser
    AgentDept <- MCAgentDept
    CreatedBy <- MCCreatedBy
    CreatedAt <- MCCreatedAt
    Percent <- MCPercent
    ResultHash <- MCResultHash
    Hashes = {h1}
    Models = {}
    Pcts = {50}
    MaxSeq = 1
    MaxConcurrency = 1
    PageSize = 2
    None = None
INVARIANTS TypeOK ConcurrencyBound
PROPERTIES PollingGoesOn AssignedTaskIsTaken StartedTaskEnds
