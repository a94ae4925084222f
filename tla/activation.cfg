SPECIFICATION Spec
CONSTANTS
    Manifests = {"calc", "tool1", "tool2", "broken"}
    Ops = {"calculator", "tool"}
    OperationName <- MCOperationName
    NameOrder <- MCNameOrder
    Interruptions = {1}
    Defect <- MCDefect
    ManifestOf <- MCManifestOf
    LegacySnapshots <- MCLegacySnapshots
    NoBinding = NoBinding
    NoSnapshot = NoSnapshot
    Proposals = {t1, a1}
    Trusted = {t1}
    DecisionIds = {d1, d2}
    NoDecision = NoDecision
    HostThreads = {h1, h2}
    NoRecord = NoRecord
    NoRun = NoRun
    NoThread = NoThread
    NoAnswer = NoAnswer
    OperatorManifests = {"tool1", "broken"}
    MaxCrashes = 1
    MaxChanges = 1
SYMMETRY Interchangeable
INVARIANTS
    CacheCoherent
    AnswerIsRecorded
    ApprovedIsWhole
    ServedIsApproved
PROPERTIES
    OneOperationAtATime
    DecidedOnceTogether
