SPECIFICATION Spec
CONSTANTS
    Components = {"page"}
    Deployments = {"v1", "v2"}
    ComponentOf <- MCOneComponent
    Version <- MCVersion
    Threads = {h1, h2}
    Controls = {d1, d2}
    Nothing = Nothing
    MaxStarts = 4
    MaxLeaks = 1
    MaxCrashes = 1
    MaxTimeouts = 1
    MaxExits = 1
SYMMETRY Interchangeable
INVARIANTS
    RegisteredIsApproved
    ProcessesBounded
    OwnedUntilSettled
    EndpointStaysValid
PROPERTIES
    LineageKept
