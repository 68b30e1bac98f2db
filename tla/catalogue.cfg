SPECIFICATION Spec
CONSTANTS
    Definitions = {d1}
    Calls = {c1, c2}
    Sweeps = {s1, s2}
    Caps = {1, 2}
    FirstCap = 2
    MaxDay = 2
    MaxInstances = 2
    MaxVersions = 2
    MaxUnderway = 2
    MaxEdits = 2
SYMMETRY Symmetry
INVARIANTS
    OnlyEditsStrand
    EditsBuildOnWhatWasSeen
PROPERTIES
    OnlyOverlapMisleads
