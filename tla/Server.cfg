SPECIFICATION MCSpec
CONSTANTS
    r1 = r1
    w1 = w1
    w2 = w2
    c1 = c1
    p1 = p1
    Repos = {r1}
    Workers = {w1}
    Clients = {c1}
    Procs = {p1}
    ProcOf <- OneProc
    Descs = {1, 2}
    Teams = {"t1"}
    NoTeam = NoTeam
    Absent = Absent
    NoRepo = NoRepo
    Ops = {"create", "trigger", "push", "get", "edit", "delete", "own", "dropteam"}
    Faults = {"db", "redis"}
    MaxTasks = 1
    MaxCrashes = 1
    Processes = {"p", "q"}
    Files = {1, 2, 3, 4}
    Needs <- MCNeeds
    Encrypt = 3
    Tables <- MCTables
    Walkers = {"a", "b"}
    Repositories = {"r1", "r2", "r3"}
    Terms = {"t", "u"}
    Foreign = {"r3", "stranger"}
    Drafts <- MCDrafts
    Names = {"SLO", "slo", "API"}
    Lower <- MCLower
    Limit = 2
INVARIANTS StaleOnlyIfBypassed SchemaHolds AnswersHold ContentHolds
CHECK_DEADLOCK FALSE
