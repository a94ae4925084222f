SPECIFICATION FairSpec
CONSTANTS
    Msgs = {m1, m2}
    Runs = {r1, r2}
    NoMsg = NoMsg
    NoRun = NoRun
    LegacyMsgs = {m1}
    RequireWriteApproval = FALSE
    ApprovalExpires = FALSE
    MaxCrashes = 1
    MaxJournalErrors = 0
CHECK_DEADLOCK FALSE
PROPERTIES
    AcceptedIsWorkedOff
    QueuedIsSettled
