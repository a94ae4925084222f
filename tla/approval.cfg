SPECIFICATION Spec
CONSTANTS
    Msgs = {m1, m2}
    Runs = {r1, r2}
    NoMsg = NoMsg
    NoRun = NoRun
    LegacyMsgs = {m1}
    RequireWriteApproval = TRUE
    ApprovalExpires = TRUE
    MaxCrashes = 1
    MaxJournalErrors = 0
CHECK_DEADLOCK FALSE
SYMMETRY RunSymmetry
INVARIANTS
    AtMostOneDispatchPerMessage
    PausedReplyNeedsGrant
    NoDanglingRun
PROPERTIES
    PauseHoldsUntilDecided
