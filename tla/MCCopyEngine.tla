---------------------------- MODULE MCCopyEngine ----------------------------
(* Small instances of CopyEngine for TLC.                                     *)
EXTENDS CopyEngine

CONSTANTS r1, r2,           \* two packages' repositories
          wide, narrow,     \* image indexes over `left` and `right`, and over `right`
          left, right,      \* image manifests
          sig, cosign,      \* a referrer of `right`, a cosign sidecar of `left`
          b1, b2

MCManifests == {wide, narrow, left, right, sig, cosign}
MCBlobs == {b1, b2}

\* The error of `left` comes first, and drops `right` wherever its referrer's carry stands.
MCChildren == [m \in MCManifests |->
    CASE m = wide -> <<left, right>> [] m = narrow -> <<right>> [] OTHER -> <<>>]
MCLayers == [m \in MCManifests |->
    CASE m = left -> {b1} [] m = right -> {b1} [] m = sig -> {b2} [] OTHER -> {}]
MCReferrers == [m \in MCManifests |-> IF m = right THEN <<sig>> ELSE <<>>]
MCSidecar == [m \in MCManifests |-> IF m = left THEN cosign ELSE None]

\* One package with three tags over two indexes that share a platform, and one with
\* the second index alone.
MCPlan == [r \in {r1, r2} |-> IF r = r1 THEN <<wide, narrow, wide>> ELSE <<narrow>>]

=============================================================================
