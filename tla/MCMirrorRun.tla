---------------------------- MODULE MCMirrorRun ----------------------------
(* A small instance of MirrorRun for TLC.                                     *)
EXTENDS MirrorRun

\* Up to the version the vendor stands behind, itself included; two versions a run.
MCConfig == [min |-> MinEdge(1),
             max |-> [MaxEdge(0) EXCEPT !.from = "pointer", !.inclusive = TRUE],
             new_per_run |-> 2, backfill |-> "newest_first"]

\* A prerelease and a version that cannot be tagged are there from the start.
MCOffered == {<<4, 1>>, <<5, 1>>}
MCReleased == {<<1, 1>>, <<1, 2>>, <<2, 1>>, <<2, 2>>, <<3, 1>>, <<3, 2>>}
MCAmbiguous == {<<1, 2>>}

MCOptions == {[version |-> {}, latest |-> FALSE], [version |-> {}, latest |-> TRUE],
              [version |-> {1}, latest |-> FALSE]}
=============================================================================
