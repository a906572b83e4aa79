--------------------------- MODULE RegistryFleet ---------------------------
(* One `registry.yml` over several index sources: the checks its file passes, *)
(* the destination every package expands to, the pre-flight over all sources, *)
(* and the copy, source after source, that lands packages at those            *)
(* destinations.  Modelled from                                               *)
(*   crates/ocx_mirror_spec/src/{registry,destination,glob}.rs and            *)
(*   crates/ocx_mirror_pipeline/src/registry_sync.rs, registry_sync/plan.rs   *)
(*                                                                            *)
(* A package has one tag here and its copy is one step: RegistrySync opens the *)
(* package, CopyEngine the copy.  A name is a sequence of characters, because  *)
(* what an expansion concatenates decides which packages meet.                 *)
EXTENDS Naturals, Sequences, FiniteSets, SequencesExt

CONSTANTS
    Specs,          \* the spec files an operator may have in place
    Names,          \* the catalog keys of the sources in order, as [namespace, package]
    Illegal,        \* characters that no OCI repository path has
    Published,      \* upstream: index |-> key |-> the root documents it may serve
    Rehoming,       \* may an edit change where packages land
    None,
    MaxReleases,    \* bound: root documents served
    MaxFaults,      \* bound: failures and kills
    MaxEdits        \* bound: edits of the spec

Keys == 1..Len(Names)
Indexes == DOMAIN Published

Placeholders == {"registry", "namespace", "package", "upstream_host", "upstream_repository"}

\* A template is its segments, a literal's text beside its kind.
TemplateSegments == [kind : Placeholders \cup {"literal", "unknown"}, text : Seq(STRING)]

\* A pattern is the set of keys it matches.
RegistrySources == [as : Seq(STRING), index : Indexes, include : SUBSET SUBSET Keys,
                    exclude : SUBSET SUBSET Keys, https : BOOLEAN, trusted : BOOLEAN]

RegistrySpecs ==
    [registry : Seq(STRING), repository : Seq(STRING), destination : Seq(TemplateSegments),
     rewrite_pointers : BOOLEAN, fail_fast : BOOLEAN, sources : Seq(RegistrySources),
     max_packages : Nat, max_blobs : Nat]

\* What an index serves of a package.
RootDocuments == [host : Seq(STRING), repository : Seq(STRING), content : Nat]

ASSUME SpecAssumption == Specs \subseteq RegistrySpecs
ASSUME PublishedAssumption ==
    \A x \in Indexes : /\ DOMAIN Published[x] = Keys
                       /\ \A k \in Keys : Published[x][k] \subseteq RootDocuments
ASSUME NoneAssumption == None \notin RootDocuments
ASSUME FleetBounds == MaxReleases \in Nat /\ MaxFaults \in Nat /\ MaxEdits \in Nat

VARIABLES
    spec,       \* registry.yml
    upstream,   \* the root each index serves for a key, or None
    tree,       \* the output tree: as-name |-> key |-> mirrored root, or None
    record,     \* the cache directory: what the last clean run of a source saw
    dest,       \* the destination's repositories: contents held, and whose the tag is
    run,        \* the run under way
    releases, faults, edits

vars == <<spec, upstream, tree, record, dest, run, releases, faults, edits>>

-----------------------------------------------------------------------------
(* Destination templates.                                                     *)

Uses(template, placeholder) == \E j \in DOMAIN template : template[j].kind = placeholder
Parses(template) ==
    \A j \in DOMAIN template : template[j].kind \in Placeholders \cup {"literal"}
NeedsUpstream(template) == Uses(template, "upstream_host") \/ Uses(template, "upstream_repository")

\* expand: the segments' texts, one after the other.
Expand(template, as, key, root) ==
    LET text(segment) ==
            CASE segment.kind = "literal" -> segment.text
              [] segment.kind = "registry" -> as
              [] segment.kind = "namespace" -> Names[key].namespace
              [] segment.kind = "package" -> Names[key].package
              [] segment.kind = "upstream_host" -> root.host
              [] segment.kind = "upstream_repository" -> root.repository
    IN  FlattenSeq([j \in DOMAIN template |-> text(template[j])])

\* An OCI path: non-empty components of legal characters.
LegalPath(path) ==
    /\ path # <<>> /\ Head(path) # "/" /\ Last(path) # "/"
    /\ \A j \in 1..(Len(path) - 1) : ~(path[j] = "/" /\ path[j + 1] = "/")
    /\ \A j \in DOMAIN path : path[j] \notin Illegal

\* physical_repository: beneath the target's prefix.
Physical(s, expanded) == s.repository \o <<"/">> \o expanded

PathOf(s, i, key, root) == Physical(s, Expand(s.destination, s.sources[i].as, key, root))

\* What of a spec decides where packages land.
Homes(s) == <<s.registry, s.repository, s.destination>>

\* wire_pointer: what the mirrored root names, under rewrite_pointers.
Pointer(s, root, path) ==
    IF s.rewrite_pointers THEN <<s.registry, path>> ELSE <<root.host, root.repository>>

-----------------------------------------------------------------------------
(* What a spec file must satisfy to be run.                                   *)

ValidTarget(s) == LegalPath(s.repository) /\ "/" \notin ToSet(s.registry)

ValidDestination(s) ==
    /\ Parses(s.destination)
    /\ Len(s.sources) > 1 =>
         Uses(s.destination, "registry") \/ Uses(s.destination, "upstream_repository")

ValidName(as) == "/" \notin ToSet(as) /\ LegalPath(as)

\* index_transport_error: a plaintext index is for a host the operator named.
ValidTransport(source) == source.https \/ source.trusted

\* Faulty variant of ValidSources: two sources may have one name.
SharedNames(s) ==
    \A i \in DOMAIN s.sources : ValidName(s.sources[i].as) /\ ValidTransport(s.sources[i])

ValidSources(s) ==
    /\ \A i \in DOMAIN s.sources : ValidName(s.sources[i].as) /\ ValidTransport(s.sources[i])
    /\ \A i, j \in DOMAIN s.sources : s.sources[i].as = s.sources[j].as => i = j

\* Zero is no width: it would poll nothing, or hand out no permit, for ever.
Accepted(s) ==
    /\ s.sources # <<>> /\ s.max_blobs > 0 /\ s.max_packages > 0
    /\ ValidTarget(s) /\ ValidDestination(s) /\ ValidSources(s)

\* package_selected.
Selected(source, key) ==
    /\ source.include = {} \/ \E pattern \in source.include : key \in pattern
    /\ ~\E pattern \in source.exclude : key \in pattern

-----------------------------------------------------------------------------
(* The pre-flight's plans.                                                    *)

AsNames == UNION {{s.sources[i].as : i \in DOMAIN s.sources} : s \in Specs}
NoRoots == [k \in Keys |-> None]
Served(catalog) == {k \in Keys : catalog[k] # None}

Work(i, plan) == {k \in Served(plan.catalog) : Selected(spec.sources[i], k)}

CacheRecord(catalog, local) == [source |-> catalog, mirrored |-> local]

\* short_circuit: the record is of this catalog and this tree, and the tree has it all.
ShortCircuited(i, catalog, local) ==
    /\ record[spec.sources[i].as] # None
    /\ record[spec.sources[i].as] = CacheRecord(catalog, local)
    /\ \A k \in Served(catalog) : Selected(spec.sources[i], k) => local[k] # None

\* plan_source.
SourcePlan(i) ==
    LET source == spec.sources[i]
        catalog == upstream[source.index]
        local == tree[source.as]
    IN  [catalog |-> catalog, local |-> local, short |-> ShortCircuited(i, catalog, local)]

\* expand_source: an upstream placeholder is left for the copy, which has the root.
Expressible(i, plan) ==
    NeedsUpstream(spec.destination)
        \/ \A k \in Work(i, plan) : LegalPath(PathOf(spec, i, k, plan.catalog[k]))

\* Faulty variant of Expansions: a source with nothing to copy claims nothing.
BusyExpansions(plans) ==
    IF NeedsUpstream(spec.destination) THEN {}
    ELSE UNION {{<<spec.sources[i].as, k, PathOf(spec, i, k, plans[i].catalog[k])>>
                    : k \in Work(i, plans[i])} : i \in {i \in DOMAIN plans : ~plans[i].short}}

\* expansions: what every source claims, short-circuited ones too.
Expansions(plans) ==
    IF NeedsUpstream(spec.destination) THEN {}
    ELSE UNION {{<<spec.sources[i].as, k, PathOf(spec, i, k, plans[i].catalog[k])>>
                    : k \in Work(i, plans[i])} : i \in DOMAIN plans}

\* detect_collisions.
Collide(plans) ==
    \E e, f \in Expansions(plans) : e[3] = f[3] /\ <<e[1], e[2]>> # <<f[1], f[2]>>

-----------------------------------------------------------------------------

IdleRun == [pc |-> "idle", plans |-> <<>>, at |-> 0, todo |-> {}, flying |-> {},
            failed |-> FALSE, red |-> FALSE]

Init ==
    /\ spec \in Specs
    /\ upstream = [x \in Indexes |-> NoRoots]
    /\ tree = [as \in AsNames |-> NoRoots] /\ record = [as \in AsNames |-> None]
    /\ dest = [path \in {} |-> None]
    /\ run = IdleRun
    /\ releases = 0 /\ faults = 0 /\ edits = 0

\* An index serves a new root document for a key.
Release ==
    /\ releases < MaxReleases
    /\ \E x \in Indexes, k \in Keys : \E root \in Published[x][k] :
         /\ upstream[x][k] # None =>
              root # upstream[x][k] /\ root.content >= upstream[x][k].content
         /\ upstream' = [upstream EXCEPT ![x][k] = root]
    /\ releases' = releases + 1
    /\ UNCHANGED <<spec, tree, record, dest, run, faults, edits>>

Edit ==
    /\ run.pc = "idle" /\ edits < MaxEdits
    /\ \E s \in Specs \ {spec} :
         /\ s.sources = spec.sources
         /\ Rehoming \/ Homes(s) = Homes(spec)
         /\ spec' = s
    /\ edits' = edits + 1
    /\ UNCHANGED <<upstream, tree, record, dest, run, releases, faults>>

\* load_registry_spec refuses the file.
Refuse == run.pc = "idle" /\ ~Accepted(spec) /\ UNCHANGED vars

Start ==
    /\ run.pc = "idle" /\ Accepted(spec)
    /\ run' = [IdleRun EXCEPT !.pc = "preflight"]
    /\ UNCHANGED <<spec, upstream, tree, record, dest, releases, faults, edits>>

Stop == run' = IdleRun /\ UNCHANGED <<spec, upstream, tree, record, dest, releases, edits>>

\* prepare_source, one source after the other.
Preflight ==
    /\ run.pc = "preflight" /\ Len(run.plans) < Len(spec.sources)
    /\ LET i == Len(run.plans) + 1 IN
       IF Expressible(i, SourcePlan(i))
       THEN /\ run' = [run EXCEPT !.plans = Append(@, SourcePlan(i))]
            /\ UNCHANGED <<spec, upstream, tree, record, dest, releases, edits>>
       ELSE Stop
    /\ UNCHANGED faults

Planned == run.pc = "preflight" /\ Len(run.plans) = Len(spec.sources)

RefuseCollision == Planned /\ Collide(run.plans) /\ Stop /\ UNCHANGED faults

\* Where the copy enters a source: at the first from i on that has something to do.
Entering(i) ==
    LET busy == {j \in i..Len(spec.sources) : ~run.plans[j].short}
    IN  IF busy = {} THEN [run EXCEPT !.pc = "report", !.todo = {}]
        ELSE LET j == CHOOSE j \in busy : \A h \in busy : j <= h
             IN  [run EXCEPT !.pc = "copy", !.at = j, !.failed = FALSE,
                             !.todo = Work(j, run.plans[j])]

BeginCopy ==
    /\ Planned /\ ~Collide(run.plans)
    /\ run' = Entering(1)
    /\ UNCHANGED <<spec, upstream, tree, record, dest, releases, faults, edits>>

-----------------------------------------------------------------------------
(* The copy of one source.                                                    *)

\* Nothing after the first failure is copied: no two packages fly together.
Width == IF spec.fail_fast THEN 1 ELSE spec.max_packages

As == spec.sources[run.at].as
PlanHere == run.plans[run.at]

Failing(key) == run' = [run EXCEPT !.todo = @ \ {key}, !.failed = TRUE, !.red = TRUE]
Stopped == spec.fail_fast /\ run.failed

\* should_skip: the mirrored root is in the catalog and has the tag's content.
ShouldSkip(root, local, entry) == local # None /\ entry = local /\ local.content = root.content

\* sync_package up to its copy: the root as it is now, skipped, refused or begun.
Take(key) ==
    /\ run.pc = "copy" /\ ~Stopped /\ Cardinality(run.flying) < Width
    /\ key \in run.todo /\ \A k \in run.todo : key <= k
    /\ LET root == upstream[spec.sources[run.at].index][key]
           path == PathOf(spec, run.at, key, root)
       IN  IF ShouldSkip(root, tree[As][key], PlanHere.local[key])
           THEN run' = [run EXCEPT !.todo = @ \ {key}]
           ELSE IF LegalPath(path)
                THEN run' = [run EXCEPT !.todo = @ \ {key},
                                 !.flying = @ \cup {[key |-> key, root |-> root, path |-> path,
                                                     landed |-> FALSE]}]
                ELSE Failing(key)
    /\ UNCHANGED <<spec, upstream, tree, record, dest, releases, faults, edits>>

\* The copy: the content, and the tag that names it.
Land(p) ==
    /\ run.pc = "copy" /\ p \in run.flying /\ ~p.landed
    /\ LET held == {p.root.content} \cup IF p.path \in DOMAIN dest THEN dest[p.path].held ELSE {}
       IN  dest' = [path \in DOMAIN dest \cup {p.path} |->
                        IF path = p.path THEN [held |-> held, writer |-> <<run.at, p.key>>]
                        ELSE dest[path]]
    /\ run' = [run EXCEPT !.flying = (@ \ {p}) \cup {[p EXCEPT !.landed = TRUE]}]
    /\ UNCHANGED <<spec, upstream, tree, record, releases, faults, edits>>

\* write_package.
Publish(p) ==
    /\ run.pc = "copy" /\ p \in run.flying /\ p.landed
    /\ tree' = [tree EXCEPT ![As][p.key] =
                    [content |-> p.root.content, pointer |-> Pointer(spec, p.root, p.path)]]
    /\ run' = [run EXCEPT !.flying = @ \ {p}]
    /\ UNCHANGED <<spec, upstream, record, dest, releases, faults, edits>>

\* A tag that will not copy, a write the tree refuses: the package fails.
FailPackage(p) ==
    /\ run.pc = "copy" /\ p \in run.flying /\ faults < MaxFaults
    /\ run' = [run EXCEPT !.flying = @ \ {p}, !.failed = TRUE, !.red = TRUE]
    /\ faults' = faults + 1
    /\ UNCHANGED <<spec, upstream, tree, record, dest, releases, edits>>

\* Faulty variant of CloseSource: one source's failure is the end of the run.
CloseOrStop ==
    /\ run.pc = "copy" /\ run.todo = {} /\ run.flying = {} /\ ~Stopped
    /\ record' = IF run.failed THEN record
                 ELSE [record EXCEPT ![As] = CacheRecord(PlanHere.catalog, PlanHere.local)]
    /\ run' = IF run.failed THEN [run EXCEPT !.pc = "report"] ELSE Entering(run.at + 1)
    /\ UNCHANGED <<spec, upstream, tree, dest, releases, faults, edits>>

\* Faulty variant of CloseSource: what is recorded is the catalog, whatever failed.
CloseAndRecord ==
    /\ run.pc = "copy" /\ run.todo = {} /\ run.flying = {} /\ ~Stopped
    /\ record' = [record EXCEPT ![As] = CacheRecord(PlanHere.catalog, tree[As])]
    /\ run' = Entering(run.at + 1)
    /\ UNCHANGED <<spec, upstream, tree, dest, releases, faults, edits>>

\* The catalog is recorded of a source nothing failed in; the next source is entered.
CloseSource ==
    /\ run.pc = "copy" /\ run.todo = {} /\ run.flying = {} /\ ~Stopped
    /\ record' = IF run.failed THEN record
                 ELSE [record EXCEPT ![As] = CacheRecord(PlanHere.catalog, PlanHere.local)]
    /\ run' = Entering(run.at + 1)
    /\ UNCHANGED <<spec, upstream, tree, dest, releases, faults, edits>>

\* fail_fast: neither this source's rest nor the sources after it.
StopEarly ==
    /\ run.pc = "copy" /\ Stopped /\ run.flying = {}
    /\ run' = [run EXCEPT !.pc = "report", !.todo = {}]
    /\ UNCHANGED <<spec, upstream, tree, record, dest, releases, faults, edits>>

\* A read without an answer, or a kill, ends the run where it is.
Abort == run.pc \in {"preflight", "copy"} /\ faults < MaxFaults /\ faults' = faults + 1 /\ Stop

Report == run.pc = "report" /\ Stop /\ UNCHANGED faults

Step ==
    \/ Preflight \/ RefuseCollision \/ BeginCopy \/ CloseSource \/ StopEarly \/ Report
    \/ \E key \in Keys : Take(key)
    \/ \E p \in run.flying : Land(p) \/ Publish(p)

Next == Release \/ Edit \/ Refuse \/ Start \/ Step \/ Abort \/ \E p \in run.flying : FailPackage(p)

Spec == Init /\ [][Next]_vars

\* A run goes on unless it is stopped, and runs keep being started.
FairSpec == Spec /\ WF_vars(Step) /\ WF_vars(Start)

-----------------------------------------------------------------------------
(* What the theorems suppose of the packages served upstream.                 *)

\* Two roots of a package never have the same content.
ContentTellsRoots ==
    \A x \in Indexes : \A k \in Keys : \A r, q \in Published[x][k] :
        r.content = q.content => r = q

-----------------------------------------------------------------------------
(* Properties.                                                                *)

\* Under a template of the three placeholders the pre-flight resolves, the tag of a
\* destination never passes to another package of the fleet, whichever of them is published
\* first and whatever is short-circuited (detect_collisions).  A template with an upstream
\* placeholder is outside of it: expand_source leaves its packages out of the comparison,
\* and under `{upstream_repository}` alone, which validate_destination accepts, two upstream
\* packages do take one destination over from one another.
NotOverwritten ==
    [][~NeedsUpstream(spec.destination) =>
          \A path \in DOMAIN dest : dest'[path].writer = dest[path].writer]_dest

\* A run that reports success leaves every package it was to mirror, and that has not
\* moved on since, at the destination its spec names, short-circuited sources included.
SuccessLands ==
    run.pc = "report" /\ ~run.red =>
        \A i \in DOMAIN run.plans : \A k \in Work(i, run.plans[i]) :
            LET root == upstream[spec.sources[i].index][k]
                path == PathOf(spec, i, k, root)
            IN  root = run.plans[i].catalog[k] =>
                    path \in DOMAIN dest /\ root.content \in dest[path].held

\* What stands between the packages served now and a mirror of all of them.
Unhindered ==
    /\ Accepted(spec) /\ ~spec.fail_fast
    /\ LET plans == [i \in DOMAIN spec.sources |-> SourcePlan(i)]
       IN  ~Collide(plans) /\ \A i \in DOMAIN plans : Expressible(i, plans[i])

\* Every selected package whose destination can be named is mirrored in the end, with
\* the content served last, whatever packages of its own and other sources keep failing.
Converges ==
    <>[](Unhindered =>
            \A i \in DOMAIN spec.sources : \A k \in Keys :
                LET root == upstream[spec.sources[i].index][k] IN
                root # None /\ Selected(spec.sources[i], k)
                  /\ LegalPath(PathOf(spec, i, k, root)) =>
                    /\ tree[spec.sources[i].as][k] # None
                    /\ tree[spec.sources[i].as][k].content = root.content)
=============================================================================
