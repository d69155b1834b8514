SPECIFICATION FairSpec
CONSTANTS
    notice = notice
    document = document
    w1 = w1
    w2 = w2
    Jobs = {notice, document}
    Reminders = {notice}
    Workers = {w1, w2}
    Languages = {"nl"}
    MaxAttempts <- MCMaxAttempts
    MaxRequeues <- MCMaxRequeues
CHECK_DEADLOCK FALSE
INVARIANTS
    AvailableHasItsFile
PROPERTIES
    HolderIsLeftAlone
    KeepsContract
    JobsSettle
