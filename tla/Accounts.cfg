SPECIFICATION MCSpec
CONSTANTS
    c1 = c1
    c2 = c2
    Clients = {c1, c2}
    admin = admin
    viewer = viewer
    Roles = {admin, viewer}
    NoRole = NoRole
    Outsider = Outsider
    MaxFamilies = 1
    MaxTokens = 6
    MaxChanges = 1
    Users = {"u", "v"}
    Orgs = {"o"}
    MaxInvites = 1
SYMMETRY Symmetry
INVARIANTS
    TypeOK FamiliesEndUnlessRaced RoleIsCurrentUnlessStale MembershipHoldsUnlessRaced
    OwnershipHoldsUnlessRaced CoverageIsAccounted
CHECK_DEADLOCK FALSE
