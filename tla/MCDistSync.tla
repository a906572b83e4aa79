----------------------------- MODULE MCDistSync -----------------------------
(* Small instances of DistSync for TLC.                                       *)
EXTENDS DistSync

Every ==
    [upload |-> TRUE, retain_archives |-> FALSE, checksums |-> TRUE, path |-> TRUE,
     snapshots |-> TRUE, installers |-> TRUE, min_version |-> 1, layout |-> [r \in Releases |-> r]]

\* Every template of a layout that gives the releases one path, or the manifest's or
\* the installer's.
OnePath == [r \in Releases |-> 1]
OnManifest == [r \in Releases |-> IF r = 1 THEN 1 ELSE dist]
OnInstaller == [r \in Releases |-> IF r = 1 THEN 1 ELSE Script]

\* A staged mirror, a shipped tree beside a store that tells no checksums, a tree on its
\* own, a store of snapshots only, and the layouts that collide.
MCSpecs ==
    {Every,
     [Every EXCEPT !.retain_archives = TRUE, !.checksums = FALSE, !.snapshots = FALSE,
                    !.installers = FALSE],
     [Every EXCEPT !.upload = FALSE, !.installers = FALSE],
     [Every EXCEPT !.path = FALSE, !.installers = FALSE, !.min_version = 2],
     [Every EXCEPT !.layout = OnePath], [Every EXCEPT !.layout = OnManifest],
     [Every EXCEPT !.layout = OnInstaller],
     [Every EXCEPT !.layout = OnInstaller, !.installers = FALSE]}

=============================================================================
