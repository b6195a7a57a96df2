SPECIFICATION MCSpec
CONSTANTS
    alice = alice  bob = bob  root = root  d1 = d1  a1 = a1
    Tasks = {t1}
    Users = {alice}
    Departments = {d1}
    Agents = {a1}
    Role <- MCRole
    DeptOf <- MCDeptOf
    AgentUser <- MCAgentUser
    AgentDept <- MCAgentDept
    Hashes = {h1}
    Models = {}
    Pcts = {}
    MaxSeq = 0
    None = None
    Sessions = {s1, s2}
    Kinds = {"claim", "start", "submit", "inactivity"}
    AutoHolder = AutoHolder
    LocksExpire = FALSE
PROPERTIES CompletedIsFinal
