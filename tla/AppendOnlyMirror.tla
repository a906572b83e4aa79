-------------------------- MODULE AppendOnlyMirror --------------------------
(* What the mirrored index promises the fleet that resolves names through it, *)
(* whatever the copying and the writing in between look like:                 *)
(*   - a tag the index has once published stays published, though it may move *)
(*     to another content;                                                    *)
(*   - the index never names a content the destination registry lacks.        *)
(* docs/reference/registry-yml.md, "What a re-run does" and "It never         *)
(* deletes".                                                                  *)
CONSTANTS Packages, Tags, Contents, None

VARIABLES
    stored,     \* the contents a fleet can pull, per package
    published   \* the tag -> content map a fleet resolves, per package

Published(p) == {t \in Tags : published[p][t] # None}

Init ==
    /\ stored = [p \in Packages |-> {}]
    /\ published = [p \in Packages |-> [t \in Tags |-> None]]

\* A content arrives at the destination registry.
Store(p, c) ==
    /\ stored' = [stored EXCEPT ![p] = @ \cup {c}]
    /\ UNCHANGED published

\* One package's index document is replaced in one step.
Publish(p, tags) ==
    /\ \A t \in Tags : tags[t] # None => tags[t] \in stored[p]
    /\ \A t \in Published(p) : tags[t] # None
    /\ published' = [published EXCEPT ![p] = tags]
    /\ UNCHANGED stored

Next == \E p \in Packages :
            \/ \E c \in Contents : Store(p, c)
            \/ \E tags \in [Tags -> Contents \cup {None}] : Publish(p, tags)

Spec == Init /\ [][Next]_<<stored, published>>

=============================================================================
