SPECIFICATION FairSpec
CONSTANTS
    Msgs = {m1}
    Runs = {r1, r2}
    NoMsg = NoMsg
    NoRun = NoRun
    LegacyMsgs = {m1}
    RequireWriteApproval = TRUE
    ApprovalExpires = TRUE
    MaxCrashes = 1
    MaxJournalErrors = 1
CHECK_DEADLOCK FALSE
INVARIANTS
    KernelInv
    RowMatchesJournal
    CompletedMeansDelivered
PROPERTIES
    ContractKept
    PauseEnds
