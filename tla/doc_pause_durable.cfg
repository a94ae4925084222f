SPECIFICATION Spec
CONSTANTS
    Msgs = {m1}
    Runs = {r1}
    NoMsg = NoMsg
    NoRun = NoRun
    LegacyMsgs = {}
    RequireWriteApproval = TRUE
    ApprovalExpires = FALSE
    MaxCrashes = 0
    MaxJournalErrors = 0
CHECK_DEADLOCK FALSE
PROPERTY
    PauseIsDurable
