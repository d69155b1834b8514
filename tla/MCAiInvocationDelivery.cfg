SPECIFICATION Spec
CONSTANTS
    first = first
    retry = retry
    again = again
    fresh = fresh
    old = old
    body = body
    other = other
    Requests <- MCRequests
    Keys <- MCKeys
    KeyOf <- MCKeyOf
    Fingerprint <- MCFingerprint
    Units <- MCUnits
    Legacy <- MCLegacy
    Faults = FALSE
CHECK_DEADLOCK FALSE
INVARIANTS
    ChargedResultIsDelivered
