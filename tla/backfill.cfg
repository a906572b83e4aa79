SPECIFICATION FairSpec
CONSTANTS
    Digests = {1, 2, 3, 4}
    Children <- Manifests
    Tags = {1, 2, 3}
    Reserved = {3}
    Candidates <- Signers
    Me <- Us
    Modes <- CommandLines
    Scheduled <- Plain
    Cap = 1
    MaxRetries = 1
    MaxOthers = 1
    MaxFaults = 1
    MaxRuns = 1
INVARIANTS EverySubjectHasItsRow SuccessIsSigned OneSignatureEach
PROPERTIES Converges
CHECK_DEADLOCK FALSE
