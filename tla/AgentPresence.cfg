SPECIFICATION FairSpec
CONSTANTS
    alice = alice  d1 = d1
    Tasks = {t1}
    Users = {alice}
    Departments = {d1}
    Agents = {a1, a2}
    Role <- MCRole
    DeptOf <- MCDeptOf
    AgentUser <- MCAgentUser
    AgentDept <- MCAgentDept
    Hashes = {}
    Models = {}
    Pcts = {}
    MaxSeq = 0
    None = None
    MaxAge = 5
    Slack = 1
INVARIANTS TypeOK DeadAgentFoundInTime AnsweringAgentIsFresh
PROPERTIES DeadAgentsTasksReturn LiveAgentComesBack
