SPECIFICATION LoopSpec
CONSTANTS
    Runs = {r1, r2, r3}
    NoRun = NoRun
    MaxUserRuns = 1
    MaxKernelCrashes = 1
    PageLimit = 2
    MaxAutomaticRuns = 1
    MaxLost = 1
    MaxSaveFailures = 1
    MaxHarnessCrashes = 1
CHECK_DEADLOCK FALSE
INVARIANTS
    ContinuedOnce
    AutomaticRunsBounded
    CursorSkipsNothing
PROPERTIES
    ContinuationIsWorkedOff
    YieldIsResolved
