SPECIFICATION FairSpec
CONSTANTS
    alice = alice  head = head  root = root
    d1 = d1  d2 = d2  a1 = a1  a2 = a2
    Tasks = {t1}
    Users = {alice, head, root}
    Departments = {d1, d2}
    Agents = {a1, a2}
    Role <- MCRole
    DeptOf <- MCDeptOf
    AgentUser <- MCAgentUser
    AgentDept <- MCAgentDept
    Hashes = {h1, h2}
    Models = {m1}
    Pcts = {50}
    MaxSeq = 2
    None = None
PROPERTIES AssignmentDoesNotLast
