SPECIFICATION FairSpec
CONSTANTS
    first = first
    retry = retry
    again = again
    fresh = fresh
    old = old
    body = body
    other = other
    Requests <- MCRequests
    Keys <- MCKeys
    KeyOf <- MCKeyOf
    Fingerprint <- MCFingerprint
    Units <- MCUnits
    Legacy <- MCLegacy
    Faults = TRUE
CHECK_DEADLOCK FALSE
INVARIANTS
    FinanceAgrees
    AuditTruthful
    AnswersHold
PROPERTIES
    ExecutesOnceWhileReserved
    InterruptedRunsFinish
    ClosedRunsGetAudited
    KeepsCreditContract
