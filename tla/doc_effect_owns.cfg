SPECIFICATION Spec
CONSTANTS
    Components = {"page"}
    Deployments = {"v1", "v2"}
    ComponentOf <- MCOneComponent
    Version <- MCVersion
    Threads = {h1, h2}
    Controls = {d1}
    Nothing = Nothing
    MaxStarts = 2
    MaxLeaks = 0
    MaxCrashes = 0
    MaxTimeouts = 0
    MaxExits = 0
INVARIANT EffectOwnsComponent
