SPECIFICATION MCSpec
CONSTANTS
    a = a
    b = b
    n = n
    Parts = {"people", "failures", "view", "declare"}
    Repos = {a, b}
    Names = {n}
    Shas = {1, 2}
    Content <- Trees
    NoRow = NoRow
    NoFact = NoFact
    Syncers = {"s1"}
    Clients = {"c1"}
    Ids = {1, 2}
    Faults = {}
    MidReadCommits = FALSE
    MaxRuns = 3
    MaxCrashes = 1
    Repositories = {1, 2, 3, 4}
    OrgOf <- Organizations
    APIOf <- OneAPI
    Links <- OneLink
    Rels = {1}
    DefaultLimit = 2
INVARIANTS TypeOK OneDerivedRow GraphFollowsFacts ContestedIsNotAsserted GraphViewHolds
PROPERTIES HumansKeepTheirRows NothingCorrectSwept
