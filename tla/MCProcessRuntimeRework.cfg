SPECIFICATION Spec
CONSTANTS
    u1 = u1
    u2 = u2
    r1 = r1
    r2 = r2
    Steps <- MCSteps
    Versions = {"again"}
    Definition <- MCDefinition
    Layouts <- MCLayouts
    Users = {u1}
    Requests = {r1}
    MaxActivations = 2
    MaxVersion = 2
CHECK_DEADLOCK FALSE
INVARIANTS
    JoinFollowsItsBranches
