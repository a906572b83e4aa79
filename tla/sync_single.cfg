\* One run at a time over one package, in every mode; a root that is damaged, a cache
\* directory that is lost, filters edited between runs.  One tag is outside the OCI
\* grammar: no package with it is ever skipped.
SPECIFICATION FairSpec
CONSTANTS
    Runs = {r1}
    Packages = {p1}
    t1 = t1
    t2 = t2
    c1 = c1
    c2 = c2
    d1 = d1
    d2 = d2
    Tags = {t1, t2}
    Contents = {c1, c2}
    Descs = {d1, d2}
    None = None
    UpstreamRoots <- MixedRoots
    IllegalTags = {t2}
    NotIndex = {}
    MaxPackages = 2
    Modes = {"sync", "repair", "dry", "fail_fast"}
    Reverts = FALSE
    OperatorActs = {"damage", "cache", "widen"}
    MaxReleases = 3
    MaxFaults = 1
    MaxEdits = 1
INVARIANTS
    SuccessfulRunMirrored
    DescriptionsKept
PROPERTIES
    IsAppendOnlyMirror
    Converges
