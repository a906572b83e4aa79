--------------------------- MODULE MCRegistrySync ---------------------------
(* Small instances of RegistrySync for TLC.                                   *)
EXTENDS RegistrySync, TLC

CONSTANTS t1, t2, c1, c2, d1, d2

\* Three roots of one package: a first release; `t1` re-pointed, `t2` added and
\* a new description; `t1` retired.
First == [tags |-> (t1 :> c1 @@ t2 :> None), desc |-> d1]
Moved == [tags |-> (t1 :> c2 @@ t2 :> c1), desc |-> d2]
Retired == [tags |-> (t1 :> None @@ t2 :> c1), desc |-> d2]

MCRoots == {First, Moved, Retired}

\* As Moved, without the tag.
Reworded == [Moved EXCEPT !.tags[t2] = None]
MixedRoots == {First, Reworded, Moved}

=============================================================================
