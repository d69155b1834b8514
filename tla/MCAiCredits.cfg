SPECIFICATION Spec
CONSTANTS
    ann = ann
    bob = bob
    i1 = i1
    i2 = i2
    s1 = s1
    grant = grant
    Actors <- MCActors
    Invocations <- MCInvocations
    Sessions <- MCSessions
    Grants <- MCGrants
    Owner <- MCOwner
    Prices <- MCPrices
    VoicePrices <- MCVoicePrices
    Quota <- MCQuota
    Allowance = 2
    GrantAmount = 2
    GrantLife = 3
    MonthLength = 2
    Months <- MCMonths
    MaxWait = 1
INVARIANTS
    BooksBalance
    LimitsHold
    OpenReservationsCanClose
PROPERTIES
    ExpiredBatchesStayShut
    SoonestExpiryFirst
    KeepsCreditContract
