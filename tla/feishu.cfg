SPECIFICATION Spec
CONSTANTS
    Messages = {m1}
    Tasks = {t1, t2, t3}
    Requests = {r1, r2}
    Nothing = Nothing
    MaxDeliveries = 2
    MaxCrashes = 1
    MaxFailures = 2
    MaxExpiries = 1
SYMMETRY Interchangeable
CHECK_DEADLOCK FALSE
INVARIANTS
    SentOncePerFault
    AnsweredShowsNothing
    StrayReactionsBounded
