\* Three releases, one of which ocx cannot parse, two of them a run; an environment per
\* libc and a plain one; one run with a red, one fault, one move of the index.  Between
\* the runs there may be nothing to do.
SPECIFICATION FairSpec
CONSTANTS
    Versions <- MCVersions
    Semver <- MCSemver
    Keys <- DualKeys
    Legs <- DualLegs
    Wheels <- DualWheels
    NewPerRun = 2
    NewestFirst = TRUE
    MaxRevision = 1
    MaxReds = 1
    MaxFaults = 1
PROPERTIES
    ServedWasTested
    PublishedUnmoved
    LatestMovesWhole
    ReportedIsServed
    Converges
CHECK_DEADLOCK FALSE
