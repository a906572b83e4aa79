--------------------------- MODULE MCPublication ---------------------------
EXTENDS Publication, TLC

\* The first version has two platforms and the second one: a version completed by a
\* later run, and a `latest` that mixes versions.
MCTiles == {<<1, 1>>, <<1, 2>>, <<2, 1>>, <<2, 2>>}

\* The second version has an asset for the second platform too, and is excluded there.
MCOffered == {<<2, 2>>}
MCWindows == (1 :> [min |-> 0, max |-> 3, exclude |-> {}]) @@ (2 :> [min |-> 1, max |-> 3, exclude |-> {2}])
=============================================================================
