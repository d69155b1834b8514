SPECIFICATION Spec
CONSTANTS
    Keys = {k1}
    Payloads = {p1, p2}
    Terms = {t1, t2}
    Requests = {r1, r2}
    Lifetime = 1
    MaxClock = 1
    MaxWire = 1
SYMMETRY Symmetry
INVARIANTS
    TypeOK
    ExecutesAtMostOnce
    StatusTellsEffect
    AnswersHold
    ConsentBinds
PROPERTY StartsInTime
