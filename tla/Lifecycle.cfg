SPECIFICATION MCSpec
CONSTANTS
    r1 = r1
    w1 = w1
    w2 = w2
    c1 = c1
    p1 = p1
    Repos = {r1}
    Workers = {w1, w2}
    Clients = {c1}
    Procs = {p1}
    ProcOf <- OneProc
    Descs = {1}
    Teams = {}
    NoTeam = NoTeam
    Absent = Absent
    NoRepo = NoRepo
    Ops = {"create", "trigger", "push", "get", "delete"}
    Faults = {}
    MaxTasks = 2
    MaxCrashes = 1
INVARIANTS TypeOK SyncingIsRunning
PROPERTIES ImplementsLifecycle SyncingEnds QueuedIsSynced AcceptedIsProcessed
CHECK_DEADLOCK FALSE
