\* Two releases of two builds each, every shape of a spec; two failed requests, kills or
\* lost trees.
SPECIFICATION FairSpec
CONSTANTS
    Releases = {1, 2}
    Stable = {1}
    Paths = {1, 2, 3}
    Script = 3
    Specs <- MCSpecs
    MaxDownloads = 2
    MaxUploads = 1
    MaxBuild = 2
    MaxFaults = 2
INVARIANTS
    ServedResolves
PROPERTIES
    Converges
CHECK_DEADLOCK FALSE
