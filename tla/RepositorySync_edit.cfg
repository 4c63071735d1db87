SPECIFICATION Spec
CONSTANTS
    r1 = r1
    w1 = w1
    w2 = w2
    c1 = c1
    p1 = p1
    Repos = {r1}
    Workers = {w1}
    Clients = {c1}
    Procs = {p1}
    ProcOf <- OneProc
    Descs = {1,2}
    Teams = {}
    NoTeam = NoTeam
    Absent = Absent
    NoRepo = NoRepo
    Ops = {"create", "edit"}
    Faults = {}
    MaxTasks = 1
    MaxCrashes = 0
INVARIANTS SyncingIsRunning
