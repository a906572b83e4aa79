--------------------------- MODULE MCRegistryFleet ---------------------------
(* Small instances of RegistryFleet for TLC: two sources, and the destination  *)
(* templates under which their packages meet.                                 *)
EXTENDS RegistryFleet

Slot(kind) == [kind |-> kind, text |-> <<>>]
Text(chars) == [kind |-> "literal", text |-> chars]

Source(as, index) == [as |-> as, index |-> index, include |-> {}, exclude |-> {},
                      https |-> TRUE, trusted |-> FALSE]
Two == <<Source(<<"x">>, "a"), Source(<<"x", "y">>, "b")>>

File(destination, sources, failFast) ==
    [destination |-> destination, sources |-> sources, registry |-> <<"r">>,
     repository |-> <<"m">>, rewrite_pointers |-> FALSE, fail_fast |-> failFast,
     max_packages |-> 2, max_blobs |-> 1]

Joined == <<Slot("registry"), Slot("package")>>
Preserving == <<Slot("upstream_host"), Text(<<"/">>), Slot("upstream_repository")>>
Landing == <<Slot("registry"), Text(<<"/">>), Slot("package")>>
\* The upstream repository alone: `h/u` and `g/u` are one destination.
Hostless == <<Slot("upstream_repository")>>

\* `x` + `yz` and `xy` + `z` are one destination.
MCNames == <<[namespace |-> <<"n">>, package |-> <<"y", "z">>],
             [namespace |-> <<"n">>, package |-> <<"z">>]>>

Root(host, repository, content) == [host |-> host, repository |-> repository, content |-> content]

\* Index `a` serves its package from a repository no path can name until content 2; `b`
\* serves one of that key from another registry, and then the same upstream package.
MCPublished ==
    [a |-> <<{Root(<<"h">>, <<"U">>, 1), Root(<<"h">>, <<"u">>, 2)}, {}>>,
     b |-> <<{Root(<<"g">>, <<"u">>, 1), Root(<<"h">>, <<"u">>, 2)},
             {Root(<<"h">>, <<"s">>, 1)}>>]

MCSpecs ==
    {File(t, Two, ff) : t \in {Joined, Preserving, Landing, Hostless}, ff \in BOOLEAN}
    \cup {File(<<Slot("package")>>, Two, FALSE),
          File(Landing, <<Source(<<"x">>, "a"), Source(<<"x">>, "b")>>, FALSE)}

\* The operator moves the packages beneath another prefix.
MCMoved == {File(Landing, Two, FALSE), File(<<Text(<<"v", "/">>)>> \o Landing, Two, FALSE)}

\* With MCSpecs the instance is as the theorems about RegistryFleet suppose; with the specs
\* above it is not.
ASSUME FleetHypotheses == Specs = MCSpecs => ~Rehoming /\ ContentTellsRoots
=============================================================================
