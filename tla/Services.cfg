SPECIFICATION MCSpec
CONSTANTS
    Deliveries = {d1, d2}
    Pushes = {d1}
    Receivers = {h1, h2}
    Workers = {w1, w2}
    Absent = Absent
    NoDelivery = NoDelivery
    Syncs = {"s1", "s2", "s3"}
    MaxRetries = 3
    MaxSends = 3
    MaxFailures = 2
    MaxCrashes = 2
    c1 = c1
    c2 = c2
    Clients = {c1, c2}
    Submitters = {c1, c2}
    People = {"ana", "bob"}
    PageSize = 2
    Budget = 2
    Costs = {1, 2}
    Repos <- MCRepos
    Trees <- MCTrees
    Languages <- MCLanguages
    Dominant <- MCDominant
    NoTreeSHA <- MCNoTreeSHA
    Caps <- MCCaps
    Unsteady = {"compose", "payments-k8s"}
    Faults = {"db", "read", "process"}
    MaxSyncs = 3
    MaxRuns = 2
    MaxFaults = 1
SYMMETRY Symmetry
INVARIANTS
    CompletedIsSynced SyncedAtMostOnce HooksAreHeardUnlessCut
    TypesOK VersionsHoldUnlessStale GenerationEndsOnceUnlessCut SpentWithinBudget HostIsToldTruly
    FactsAreProven CatalogFollowsFacts
PROPERTIES CompletedIsFinal NothingNamedIsRetired
CHECK_DEADLOCK FALSE
