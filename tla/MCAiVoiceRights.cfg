SPECIFICATION Spec
CONSTANTS
    a = a
    c1 = c1
    c2 = c2
    Sessions <- MCSessions
    TeamSessions = {2}
    Actors = {a}
    Actor <- SameActor
    Calls <- MCCalls
    MaxDuration = 2
    MaxClock = 4
    Allowance = 3
    BatchSize = 1
    WrapperIsDefiner = FALSE
CHECK_DEADLOCK FALSE
INVARIANTS
    HangUpIsHonoured
