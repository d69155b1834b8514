SPECIFICATION FairSpec
CONSTANTS
    a = a
    c1 = c1
    c2 = c2
    Sessions <- MCSessions
    TeamSessions = {2}
    Actors = {a}
    Actor <- SameActor
    Calls <- OneCall
    MaxDuration = 2
    MaxClock = 4
    Allowance = 3
    BatchSize = 2
    WrapperIsDefiner = TRUE
CHECK_DEADLOCK FALSE
PROPERTIES
    ExpiredSessionsEnd
    EndedSessionsSettle
