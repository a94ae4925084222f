SPECIFICATION Spec
CHECK_DEADLOCK FALSE
CONSTANTS
    TOTAL_MODEL_CALL_BUDGET = 2
    INITIAL_ATTEMPTS = 2
    Attempts = {a1, a2}
    Threads = {t1, t2}
    NoOne = NoOne
    MaxDiskFaults = 1
    MaxHarnessCrashes = 1
    Callers = {c1, c2}
    Keys = {k1, k2}
    k1 = k1
    k2 = k2
    m1 = m1
    Messages = {m1}
    KeyMessage <- MCKeyMessage
    KeyKind <- MCKeyKind
    MaxKernelCrashes = 1
    MaxUnsettled = 1
    MaxFaults = 2
INVARIANTS
    HandlerEnteredOnce
    ProposalIsBacked
    RunningIsOwned
    RejectedBeforeNext
PROPERTIES
    ContractSpec
SYMMETRY MCSymmetry
