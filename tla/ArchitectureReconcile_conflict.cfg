SPECIFICATION MCSpec
CONSTANTS
    a = a
    b = b
    n = n
    Parts = {"people"}
    Repos = {a, b}
    Names = {n}
    Shas = {1, 2}
    Content <- Trees
    NoRow = NoRow
    NoFact = NoFact
    Syncers = {"s1"}
    Clients = {}
    Ids = {1, 2, 3}
    Faults = {}
    MidReadCommits = FALSE
    MaxRuns = 3
    MaxCrashes = 0
    Repositories = {1, 2, 3, 4}
    OrgOf <- Organizations
    APIOf <- OneAPI
    Links <- OneLink
    Rels = {1}
    DefaultLimit = 2
INVARIANTS ConflictIsSeen
