SPECIFICATION FairSpec
CONSTANTS
    h1 = h1  h2 = h2  p3 = p3
    Processes = {p1, p2, p3}
    Hosts = {h1, h2}
    WORKER_ID <- MCWorkers
    Jobs = {"check_claim_timeouts", "auto_fallback_assign"}
    None = None
INVARIANTS TypeOK
PROPERTIES JobsGoOn ImplementsExclusion
