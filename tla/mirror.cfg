\* One package, its versions released in any order beneath a vendor's pointer, synced run
\* after run with a cap of two versions.
SPECIFICATION FairSpec
CONSTANTS
    Versions = {1, 2, 3, 4, 5}
    Platforms = {1, 2}
    Prereleases = {4}
    Malformed = {5}
    Ambiguous <- MCAmbiguous
    SkipPrereleases = TRUE
    Config <- MCConfig
    None = None
    Offered <- MCOffered
    Released <- MCReleased
    Pointers = {2, 3}
    Options <- MCOptions
    Stamped = TRUE
    MaxFaults = 1
INVARIANTS
    SuccessIsComplete
    PublishedIsWanted
PROPERTIES
    TagsMoveForward
    Converges
