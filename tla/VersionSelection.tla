-------------------------- MODULE VersionSelection --------------------------
(* Which of the versions upstream has a run is left to mirror: the asset every *)
(* platform resolves to, the version window with an edge that may be a moving  *)
(* vendor pointer, and the filter over both.  Pure operators, modelled from    *)
(*   crates/ocx_mirror_spec/src/{filter,versions_config,value_source,          *)
(*   normalizer}.rs, crates/ocx_mirror_source/src/resolver.rs and              *)
(*   src/command/package/sync.rs                                               *)
(*                                                                            *)
(* A version is its place in the order of versions.  The spec has one variant. *)
EXTENDS Naturals, FiniteSets, FiniteSetsExt, Optional

CONSTANTS
    Versions, Platforms,
    Prereleases,    \* the versions upstream marks as prereleases
    Malformed,      \* the versions with no tag: X.Y, or a build of their own
    Ambiguous,      \* the (version, platform) pairs two assets match
    SkipPrereleases,
    Config          \* versions: min, max, new_per_run and backfill

Edges == [from : {"literal", "pointer"}, at : Nat, inclusive : BOOLEAN]

\* The shorthand edges: from min on, up to and without max.
MinEdge(v) == [from |-> "literal", at |-> v, inclusive |-> TRUE]
MaxEdge(v) == [from |-> "literal", at |-> v, inclusive |-> FALSE]

VersionsConfig == [min : Edges \cup {None}, max : Edges \cup {None},
                   new_per_run : (Nat \ {0}) \cup {None},
                   backfill : {"newest_first", "oldest_first"}]

ASSUME VersionAssumption == Versions \subseteq Nat \ {0} /\ IsFiniteSet(Versions)
ASSUME NoEdge == None \notin Edges

\* validate: an edge that is written down is a version; what a pointer serves is checked
\* when it is read.
Valid(edge) == edge # None /\ edge.from = "literal" => edge.at # 0

ASSUME ConfigAssumption ==
    /\ Config \in VersionsConfig /\ SkipPrereleases \in BOOLEAN
    /\ Valid(Config.min) /\ Valid(Config.max)

Tasks == Versions \X Platforms
VersionsOf(tasks) == {t[1] : t \in tasks}

-----------------------------------------------------------------------------
(* The window.  What a pointer serves that is no version is no answer.         *)

NoAnswer == 0
HasPointer(edge) == edge # None /\ edge.from = "pointer"
Points == HasPointer(Config.min) \/ HasPointer(Config.max)

\* Faulty variant of Resolvable: a pointer that does not answer holds nothing back.
FailsOpen(answer) == TRUE

\* An edge without its answer ends the run: an absent bound would admit everything.
Resolvable(answer) == Points => answer # NoAnswer

\* resolve_bound.
Resolve(edge, answer) ==
    IF ~HasPointer(edge) THEN edge
    ELSE IF answer = NoAnswer THEN None ELSE [edge EXCEPT !.at = answer]

\* resolve_version_bounds.
Bounds(answer) == [min |-> Resolve(Config.min, answer), max |-> Resolve(Config.max, answer)]

version_cmp(v, bound) == IF v < bound THEN "less" ELSE IF v > bound THEN "greater" ELSE "equal"

\* Beyond an edge, on the side where this comparison is.
Beyond(v, edge, side) ==
    edge # None /\ \/ version_cmp(v, edge.at) = side
                   \/ version_cmp(v, edge.at) = "equal" /\ ~edge.inclusive

\* ResolvedBounds::admits.
Admits(bounds, v) == ~Beyond(v, bounds.min, "less") /\ ~Beyond(v, bounds.max, "greater")

-----------------------------------------------------------------------------
(* The filter.                                                                *)

\* resolve_assets: one ambiguous platform is the whole version's.
Resolved(source) == {t \in source : \A p \in Platforms : <<t[1], p>> \notin source \cap Ambiguous}

\* normalize_version: X.Y.Z, and no build where one is to be stamped.
Taggable(v) == v \notin Malformed

\* What may be mirrored at all; a version that cannot be tagged is skipped.
Eligible(source, bounds, exact) ==
    {t \in Resolved(source) :
        /\ Taggable(t[1])
        /\ exact # {} => t[1] \in exact
        /\ SkipPrereleases => t[1] \notin Prereleases
        /\ Admits(bounds, t[1])}

Newest(vs, n) == {v \in vs : Cardinality({w \in vs : w > v}) < n}
Oldest(vs, n) == {v \in vs : Cardinality({w \in vs : w < v}) < n}
Capped(vs) ==
    IF Config.new_per_run = None THEN vs
    ELSE IF Config.backfill = "newest_first" THEN Newest(vs, Config.new_per_run)
         ELSE Oldest(vs, Config.new_per_run)

\* Faulty variant of Selected: the cap is taken before what is published goes.
CappedFirst(source, bounds, seen, options) ==
    LET eligible == Eligible(source, bounds, options.version)
        vs == VersionsOf(eligible)
    IN  {t \in eligible \ seen : t[1] \in IF options.latest THEN Newest(vs, 1) ELSE Capped(vs)}

\* filter_versions: --latest before what is published goes, the cap after it.
Selected(source, bounds, seen, options) ==
    LET eligible == Eligible(source, bounds, options.version)
        left == eligible \ seen
    IN  IF options.latest THEN {t \in left : t[1] \in Newest(VersionsOf(eligible), 1)}
        ELSE {t \in left : t[1] \in Capped(VersionsOf(left))}
=============================================================================
