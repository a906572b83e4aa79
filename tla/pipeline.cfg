\* Two versions, one of two platforms; one run with red tests, one failed command or
\* kill, one edit of the metadata with its patch.  The jobs may all have nothing to do.
SPECIFICATION FairSpec
CONSTANTS
    Tiles <- MCTiles
    Offered <- MCOffered
    Windows <- MCWindows
    MaxRetries = 1
    MaxRevision = 1
    MaxReds = 1
    MaxFaults = 1
INVARIANTS
    UncuratedIsReported
PROPERTIES
    AliasesAwaitTests
    WholeVersionRolls
    SuccessIsCurated
    PatchIsWhole
    Converges
CHECK_DEADLOCK FALSE
