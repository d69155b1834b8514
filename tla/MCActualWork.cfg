SPECIFICATION Spec
CONSTANTS
    c1 = c1
    c2 = c2
    c3 = c3
    p1 = p1
    p2 = p2
    p3 = p3
    north = north
    south = south
    Entries = {e1}
    Contents = {c1, c2, c3}
    Periods = {p1, p2, p3}
    Administrations = {north, south}
    AdministrationOf <- MCAdministrationOf
    Writers = {w1}
    Admins = {a1}
    Runs = {r1}
    NoEntry = NoEntry
    NoContent = NoContent
    NoPeriod = NoPeriod
    MaxRevisions = 3
    MaxCorrections = 1
    MaxMappings <- MCMaxMappings
SYMMETRY Symmetry
CHECK_DEADLOCK FALSE
INVARIANTS
    HistoryTellsTheEntry
    ApprovedAsReviewed
    PaidInOnePeriod
    PaidWasApproved
PROPERTIES
    QuietOnceClosed
