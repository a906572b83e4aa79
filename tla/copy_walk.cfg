\* Two packages copied by one run, run after run, into a registry without a Referrers API;
\* an index whose second child is the one with a referrer.
SPECIFICATION Spec
CONSTANTS
    r1 = r1
    r2 = r2
    wide = wide
    narrow = narrow
    left = left
    right = right
    sig = sig
    cosign = cosign
    b1 = b1
    b2 = b2
    None = None
    Own = Own
    Repositories = {r1, r2}
    Manifests <- MCManifests
    Blobs <- MCBlobs
    Children <- MCChildren
    Layers <- MCLayers
    Referrers <- MCReferrers
    Sidecar <- MCSidecar
    Plan <- MCPlan
    Fallback = TRUE
    MaxBlobs = 1
    ChildFanout = 2
    MaxFaults = 1
INVARIANTS
    ManifestsComplete
    LocationsTrue
    CopiedIsSigned
