\* Two runs on one tree, which the docs ask operators to prevent; a tree that is
\* checked out, damaged and trimmed between runs; a content that is no image index.
SPECIFICATION Spec
CONSTANTS
    Runs = {r1, r2}
    Packages = {p1}
    t1 = t1
    t2 = t2
    c1 = c1
    c2 = c2
    d1 = d1
    d2 = d2
    Tags = {t1, t2}
    Contents = {c1, c2}
    Descs = {d1, d2}
    None = None
    UpstreamRoots <- MCRoots
    IllegalTags = {}
    NotIndex = {c2}
    MaxPackages = 2
    Modes = {"sync", "repair"}
    Reverts = FALSE
    OperatorActs = {"checkout", "delete", "damage"}
    MaxReleases = 1
    MaxFaults = 1
    MaxEdits = 2
INVARIANTS
    PublishedContentHeld
    DispatchObjectsServed
