SPECIFICATION Spec
CONSTANTS
    i1 = i1
    i2 = i2
    i3 = i3
    i4 = i4
    Invocations <- MCInvocations
    MaxCallsPerHour = 2
    MaxCallsPerDay = 3
    MaxConcurrent = 2
    LeaseTime = 3
    CallTime = 1
    MaxDelay = 1
    HourLength = 2
    DayLength = 4
    MaxClock = 7
SYMMETRY Symmetric
CHECK_DEADLOCK FALSE
INVARIANTS
    VolumeCapsHold
    CallsWithinConcurrency
