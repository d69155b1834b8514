SPECIFICATION Spec
CONSTANTS
    u1 = u1
    u2 = u2
    r1 = r1
    r2 = r2
    Steps <- MCSteps
    Versions = {"joined", "rework", "apart", "halting"}
    Definition <- MCDefinition
    Layouts <- MCLayouts
    Users <- MCUsers
    Requests = {r1, r2}
    MaxActivations = 2
    MaxVersion = 4
SYMMETRY Symmetric
CHECK_DEADLOCK FALSE
INVARIANTS
    StepsMatchItems
    RunningHasWork
    JoinFollowsItsBranches
PROPERTIES
    ActsOnWhatWasSeen
