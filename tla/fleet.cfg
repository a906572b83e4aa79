\* Two sources of one spec, their packages published in any order, a failure or a kill
\* anywhere, on_error edited between runs.
SPECIFICATION FairSpec
CONSTANTS
    Specs <- MCSpecs
    Names <- MCNames
    Illegal = {"U"}
    Published <- MCPublished
    Rehoming = FALSE
    None = None
    MaxReleases = 3
    MaxFaults = 1
    MaxEdits = 1
INVARIANTS
    SuccessLands
PROPERTIES
    NotOverwritten
    Converges
