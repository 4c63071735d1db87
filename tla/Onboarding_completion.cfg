SPECIFICATION MCSpec
CONSTANTS
    c1 = c1
    c2 = c2
    f1 = f1
    f2 = f2
    Clients = {c1}
    Flows = {f1, f2}
    StepIds = {1, 2, 3, 4}
    NoRow = NoRow
    Statuses = {"done", "skipped"}
    Faults = {}
    MaxEdits = 2
INVARIANTS CompletionFollowsOutcomes
CHECK_DEADLOCK FALSE
