---------------------------- MODULE RegistrySync ----------------------------
(* `ocx-mirror registry sync`: copying one upstream index source into a       *)
(* registry the operator controls, and writing the servable index tree        *)
(* (`c/index.json`, `p/<pkg>.json`, `p/<pkg>/o/`, `config.json`) that points   *)
(* at the copies.  Modelled from                                              *)
(*   crates/ocx_mirror_pipeline/src/registry_sync.rs                          *)
(*   crates/ocx_mirror_pipeline/src/registry_sync/{plan,index_write,cache}.rs *)
(*                                                                            *)
(* A digest is the value it is the digest of (hashes do not collide), so the  *)
(* catalog entry of a root is that root, and a catalog fingerprint is the     *)
(* catalog.  The copy ladder of registry_copy.rs is one step per tag here;    *)
(* module CopyEngine opens it.                                                *)
EXTENDS Naturals, Sequences, FiniteSets

CONSTANTS
    Runs,           \* invocations of `registry sync` on one output tree
    Packages,       \* catalog keys of the source
    Tags,           \* tag names
    Contents,       \* `content` digests of tags
    Descs,          \* package-level fields, the objects `desc` names included
    None,           \* "absent": a tag, a root, a record, the free lock
    UpstreamRoots,  \* the root documents the upstream publisher may serve
    IllegalTags,    \* tag names the OCI grammar cannot express
    NotIndex,       \* contents that are not an OCI image index
    MaxPackages,    \* concurrency.max_packages
    Modes,          \* how runs are started: plainly, --dry-run, --repair-catalog, --fail-fast
    Reverts,        \* may the publisher serve a byte-identical older root again
    OperatorActs,   \* what happens to the tree and the spec between runs
    MaxReleases,    \* bound: roots published per package
    MaxFaults,      \* bound: failures and interruptions in a behaviour
    MaxEdits        \* bound: operator acts in a behaviour

RunModes == {"sync", "dry", "repair", "fail_fast"}

TagMap == [Tags -> Contents \cup {None}]
Roots == [tags : TagMap, desc : Descs]
Catalogs == [Packages -> Roots \cup {None}]
Records == [source : Catalogs, mirrored : Catalogs]
Trees == [dispatch : [Packages -> SUBSET Contents], described : [Packages -> SUBSET Descs],
          root : Catalogs, catalog : Catalogs, config : BOOLEAN]

ASSUME NoneAssumption ==
    None \notin Contents /\ None \notin Roots /\ None \notin Descs /\ None \notin Records
ASSUME BoundAssumption ==
    /\ MaxReleases \in Nat /\ MaxFaults \in Nat /\ MaxEdits \in Nat
    /\ MaxPackages \in Nat \ {0}
ASSUME OptionAssumption ==
    /\ Reverts \in BOOLEAN
    /\ Modes \subseteq RunModes
ASSUME UpstreamAssumption ==
    UpstreamRoots \subseteq Roots /\ IllegalTags \subseteq Tags /\ NotIndex \subseteq Contents

VARIABLES
    releases,   \* upstream: the roots served so far for each package, oldest first
    listed,     \* upstream: which of them the source's c/index.json names, 0 for none
    held,       \* destination registry: contents present, with all they reference
    heldDesc,   \* destination registry: what `__ocx.desc` of each package points at
    dispatch,   \* index tree: dispatch objects, p/<pkg>/o/<digest>.json
    described,  \* index tree: README/logo objects beside them
    root,       \* index tree: p/<pkg>.json
    catalog,    \* index tree: c/index.json
    config,     \* index tree: whether config.json exists
    committed,  \* the tree as last committed and pushed by the CI job
    damaged,    \* packages whose root file no longer parses
    included,   \* what include:/exclude: select
    record,     \* <as>.digest in the cache directory
    lock,       \* the source's catalog lock: None or the <<run, package>> holding it
    run,        \* phase of each run and what its pre-flight read
    task,       \* per run and package: progress of sync_package
    faults, edits   \* bounds only

upstream == <<releases, listed>>
destination == <<held, heldDesc>>
tree == <<dispatch, described, root, catalog, config>>
operator == <<committed, damaged, included, edits>>
vars == <<upstream, destination, tree, operator, record, lock, run, task, faults>>

\* The index tree as one value, for what commits it and checks it out.
TreeNow == [dispatch |-> dispatch, described |-> described, root |-> root,
            catalog |-> catalog, config |-> config]

NoTags == [t \in Tags |-> None]
NothingListed == [p \in Packages |-> None]

RunPhases == {"idle", "repair", "catalog", "record", "plan", "copy", "done"}
TaskPhases == {"waiting", "fetched", "tags", "objects", "readme", "begin", "root", "commit",
               "prune", "config", "done"}

IdleRun == [pc |-> "idle", mode |-> "sync", cat |-> [p \in Packages |-> 0], read |-> None,
            local |-> NothingListed, failed |-> FALSE]
WaitingTask == [pc |-> "waiting", src |-> 0, base |-> None, todo |-> {}, confirmed |-> {},
                failed |-> FALSE]

RunStates == [pc : RunPhases, mode : RunModes, cat : [Packages -> Nat],
              read : Records \cup {None}, local : Catalogs, failed : BOOLEAN]
TaskStates == [pc : TaskPhases, src : Nat, base : Roots \cup {None}, todo : SUBSET Tags,
               confirmed : SUBSET Tags, failed : BOOLEAN]

-----------------------------------------------------------------------------
(* Documents and the pure decisions taken over them.                          *)

\* The source catalog as a run read it: the digest of every listed root.
SourceCatalog(cat) ==
    [p \in Packages |-> IF cat[p] = 0 THEN None ELSE releases[p][cat[p]]]

\* The packages a run works on: listed, and selected by the spec's filters.
Work(r) == {p \in included : run[r].cat[p] # 0}

\* The root this task fetched.
Source(r, p) == releases[p][task[r][p].src]

TagsOf(doc) == {t \in Tags : doc.tags[t] # None}

\* plan.rs: what a fully successful run records -- the catalog pre-flight FOUND.
CacheRecord(cat, mirrored) == [source |-> SourceCatalog(cat), mirrored |-> mirrored]

\* Faulty variant of ShortCircuit: no subset test.
ShortCircuitWithoutSubset(cat, read, local, names) == read = CacheRecord(cat, local)

\* plan.rs short_circuit: same source catalog, same mirrored catalog as recorded,
\* and every selected name is a key of the mirrored catalog.
ShortCircuit(cat, read, local, names) ==
    /\ read = CacheRecord(cat, local)
    /\ \A p \in names : local[p] # None

\* Faulty variant of ShouldSkip: key sets instead of key->digest pairs.
ShouldSkipOnKeys(src, base, entry) ==
    base # None /\ TagsOf(src) \subseteq TagsOf(base) /\ entry = base /\ src.desc = base.desc

\* index_write.rs should_skip: root present, every source tag->digest PAIR mirrored,
\* catalog entry equal to the root's digest, package-level fields equal.
ShouldSkip(src, base, entry) ==
    /\ base # None
    /\ \A t \in TagsOf(src) : base.tags[t] = src.tags[t]
    /\ entry = base
    /\ src.desc = base.desc

\* Faulty variant of MergeTags: the destination's tags forgotten.
MergeConfirmedOnly(src, base, confirmed) ==
    [src EXCEPT !.tags = [t \in Tags |-> IF t \in confirmed THEN src.tags[t] ELSE None]]

\* index_write.rs merge_root_tags: the source's fields; the destination's tags
\* united with this run's confirmed tags, this run winning.
MergeTags(src, base, confirmed) ==
    [src EXCEPT !.tags = [t \in Tags |->
        IF t \in confirmed THEN src.tags[t] ELSE IF base = None THEN None ELSE base.tags[t]]]

-----------------------------------------------------------------------------
(* The upstream publisher: a root document, then the catalog entry naming it. *)

Init ==
    /\ releases = [p \in Packages |-> <<>>]
    /\ listed = [p \in Packages |-> 0]
    /\ held = [p \in Packages |-> {}]
    /\ heldDesc = [p \in Packages |-> None]
    /\ dispatch = [p \in Packages |-> {}]
    /\ described = [p \in Packages |-> {}]
    /\ root = NothingListed
    /\ catalog = NothingListed
    /\ config = FALSE
    /\ committed = TreeNow
    /\ damaged = {}
    /\ included \in IF "widen" \in OperatorActs THEN SUBSET Packages ELSE {Packages}
    /\ record = None
    /\ lock = None
    /\ run = [r \in Runs |-> IdleRun]
    /\ task = [r \in Runs |-> [p \in Packages |-> WaitingTask]]
    /\ faults = 0
    /\ edits = 0

PublishRoot(p, doc) ==
    /\ Len(releases[p]) < MaxReleases
    /\ \A i \in 1..Len(releases[p]) : releases[p][i] = doc => Reverts /\ i < Len(releases[p])
    /\ releases' = [releases EXCEPT ![p] = Append(@, doc)]
    /\ UNCHANGED <<listed, destination, tree, operator, record, lock, run, task, faults>>

ListRoot(p) ==
    /\ listed[p] # Len(releases[p])
    /\ listed' = [listed EXCEPT ![p] = Len(releases[p])]
    /\ UNCHANGED <<releases, destination, tree, operator, record, lock, run, task, faults>>

-----------------------------------------------------------------------------
(* What happens to the tree, the cache and the spec while no run is active.   *)

Operator(act) ==
    /\ act \in OperatorActs
    /\ edits < MaxEdits
    /\ edits' = edits + 1
    /\ \A r \in Runs : run[r].pc = "idle"
    /\ UNCHANGED <<upstream, destination, lock, run, task, faults>>

\* The CI job's `git commit && git push` after a run, and the checkout before one.
CommitTree ==
    /\ Operator("checkout")
    /\ committed # TreeNow
    /\ committed' = TreeNow
    /\ UNCHANGED <<tree, damaged, included, record>>

CheckoutTree ==
    /\ Operator("checkout")
    /\ committed # TreeNow
    /\ dispatch' = committed.dispatch
    /\ described' = committed.described
    /\ root' = committed.root
    /\ catalog' = committed.catalog
    /\ config' = committed.config
    /\ damaged' = {}
    /\ UNCHANGED <<committed, included, record>>

\* `rm <output>/<as>/p/<namespace>/<package>.json`.
DeleteRoot(p) ==
    /\ Operator("delete")
    /\ root[p] # None
    /\ root' = [root EXCEPT ![p] = None]
    /\ damaged' = damaged \ {p}
    /\ UNCHANGED <<dispatch, described, catalog, config, committed, included, record>>

\* A root file is corrupted in place, and put right again.
DamageRoot(p) ==
    /\ Operator("damage")
    /\ root[p] # None
    /\ damaged' = IF p \in damaged THEN damaged \ {p} ELSE damaged \cup {p}
    /\ UNCHANGED <<tree, committed, included, record>>

\* include:/exclude: are edited, to select more or otherwise.
EditFilters(names) ==
    /\ Operator(IF included \subseteq names THEN "widen" ELSE "narrow")
    /\ names # included
    /\ included' = names
    /\ UNCHANGED <<tree, committed, damaged, record>>

\* The cache directory is lost.
LoseRecord ==
    /\ Operator("cache")
    /\ record # None
    /\ record' = None
    /\ UNCHANGED <<tree, committed, damaged, included>>

-----------------------------------------------------------------------------
(* A run: bootstrap and repair, the pre-flight reads, the copy phase.         *)

Failure == faults < MaxFaults /\ faults' = faults + 1

\* A run changes only its own record of itself.
SetRun(r, state) == run' = [run EXCEPT ![r] = state]
GoTo(r, pc) == SetRun(r, [run[r] EXCEPT !.pc = pc])

\* The process exits; the next invocation starts from nothing.
Reset(r) ==
    /\ SetRun(r, IdleRun)
    /\ task' = [task EXCEPT ![r] = [p \in Packages |-> WaitingTask]]

StartRun(r, mode) ==
    /\ run[r].pc = "idle"
    /\ mode \in Modes
    /\ SetRun(r, [run[r] EXCEPT !.mode = mode,
                                !.pc = IF mode = "repair" THEN "repair" ELSE "catalog"])
    /\ UNCHANGED <<upstream, destination, tree, operator, record, lock, task, faults>>

\* repair_catalogs: c/index.json re-derived from the roots on disk, ahead of the
\* pre-flight; a root that does not parse aborts the run instead.
RepairCatalog(r) ==
    /\ run[r].pc = "repair"
    /\ lock = None
    /\ damaged = {}
    /\ catalog' = root
    /\ GoTo(r, "catalog")
    /\ UNCHANGED <<upstream, destination, dispatch, described, root, config, operator, record,
                   lock, task, faults>>

AbortRepair(r) ==
    /\ run[r].pc = "repair"
    /\ lock = None
    /\ damaged # {}
    /\ Reset(r)
    /\ UNCHANGED <<upstream, destination, tree, operator, record, lock, faults>>

\* prepare_source: the source's catalog, then the recorded digest, then the
\* mirrored catalog -- three reads other actors may come between.
FetchCatalog(r) ==
    /\ run[r].pc = "catalog"
    /\ SetRun(r, [run[r] EXCEPT !.pc = "record", !.cat = listed])
    /\ UNCHANGED <<upstream, destination, tree, operator, record, lock, task, faults>>

ReadRecord(r) ==
    /\ run[r].pc = "record"
    /\ SetRun(r, [run[r] EXCEPT !.pc = "plan", !.read = record])
    /\ UNCHANGED <<upstream, destination, tree, operator, record, lock, task, faults>>

PlanSource(r) ==
    /\ run[r].pc = "plan"
    /\ SetRun(r, [run[r] EXCEPT
           !.local = catalog,
           !.pc = IF ShortCircuit(run[r].cat, run[r].read, catalog, Work(r))
                  THEN "done" ELSE "copy"])
    /\ UNCHANGED <<upstream, destination, tree, operator, record, lock, task, faults>>

\* copy_sources: the record is replaced by a fully successful, real run only.
RecordDigest(r) ==
    IF run[r].failed \/ run[r].mode = "dry" THEN record
    ELSE CacheRecord(run[r].cat, run[r].local)

\* Under fail_fast nothing starts after a failure.
StopsAfter(r) == run[r].mode = "fail_fast" /\ run[r].failed

\* The fold over the packages.
FinishRun(r) ==
    /\ run[r].pc = "copy"
    /\ \A p \in Work(r) : \/ task[r][p].pc = "done"
                         \/ (StopsAfter(r) /\ task[r][p].pc = "waiting")
    /\ record' = RecordDigest(r)
    /\ GoTo(r, "done")
    /\ UNCHANGED <<upstream, destination, tree, operator, lock, task, faults>>

ExitRun(r) ==
    /\ run[r].pc = "done"
    /\ Reset(r)
    /\ UNCHANGED <<upstream, destination, tree, operator, record, lock, faults>>

\* The whole-run abort class (an unanswered source or destination read, a local
\* write failure, a lock timeout) and a killed process: every package in flight
\* is dropped where it stands, and the operating system frees a held file lock.
StopRun(r) ==
    /\ run[r].pc \notin {"idle", "done"}
    /\ Failure
    /\ Reset(r)
    /\ lock' = IF lock # None /\ lock \in {r} \X Packages THEN None ELSE lock
    /\ UNCHANGED <<upstream, destination, tree, operator, record>>

-----------------------------------------------------------------------------
(* sync_package: one package of one run.                                      *)

Active(r) == {p \in Packages : task[r][p].pc \notin {"waiting", "done"}}
Width(r) == IF run[r].mode = "fail_fast" THEN 1 ELSE MaxPackages

At(r, p, pc) == run[r].pc = "copy" /\ task[r][p].pc = pc
SetTask(r, p, job) == task' = [task EXCEPT ![r][p] = job]
Advance(r, p, pc) == SetTask(r, p, [task[r][p] EXCEPT !.pc = pc])

\* The package's row: Copied or Skipped when nothing failed, Failed otherwise.
Settle(r, p, failed) ==
    /\ SetTask(r, p, [task[r][p] EXCEPT !.pc = "done", !.failed = failed])
    /\ SetRun(r, [run[r] EXCEPT !.failed = run[r].failed \/ failed])

FetchRoot(r, p) ==
    /\ At(r, p, "waiting")
    /\ p \in Work(r)
    /\ Cardinality(Active(r)) < Width(r)
    /\ ~StopsAfter(r)
    /\ SetTask(r, p, [task[r][p] EXCEPT !.pc = "fetched", !.src = Len(releases[p])])
    /\ UNCHANGED <<upstream, destination, tree, operator, record, lock, run, faults>>

\* read_root_uncatalogued answered Err: the package fails before anything else.
Unreadable(p) == p \in damaged

\* What the task takes for the mirrored root.
LocalRoot(p) == IF p \in damaged THEN None ELSE root[p]

Skip(r, p) ==
    /\ At(r, p, "fetched")
    /\ ~Unreadable(p)
    /\ ShouldSkip(Source(r, p), LocalRoot(p), run[r].local[p])
    /\ Settle(r, p, FALSE)
    /\ UNCHANGED <<upstream, destination, tree, operator, record, lock, faults>>

FailUnread(r, p) ==
    /\ At(r, p, "fetched")
    /\ Unreadable(p)
    /\ Settle(r, p, TRUE)
    /\ UNCHANGED <<upstream, destination, tree, operator, record, lock, faults>>

\* A destination that cannot be composed, or description objects that do not
\* validate (under --dry-run, a manifest that cannot be walked either).
FailBeforeCopy(r, p) ==
    /\ At(r, p, "fetched")
    /\ ~Unreadable(p)
    /\ ~ShouldSkip(Source(r, p), LocalRoot(p), run[r].local[p])
    /\ Failure
    /\ Settle(r, p, TRUE)
    /\ UNCHANGED <<upstream, destination, tree, operator, record, lock>>

\* Under --dry-run the walk measures and writes nothing.
Measure(r, p) ==
    /\ At(r, p, "fetched")
    /\ run[r].mode = "dry"
    /\ ~Unreadable(p)
    /\ ~ShouldSkip(Source(r, p), LocalRoot(p), run[r].local[p])
    /\ Settle(r, p, FALSE)
    /\ UNCHANGED <<upstream, destination, tree, operator, record, lock, faults>>

\* tag_copy_plan drops the tags OCI cannot express; the mirrored root read here
\* is the base of the merge, however late the merge comes.
BeginCopy(r, p) ==
    /\ At(r, p, "fetched")
    /\ run[r].mode # "dry"
    /\ ~Unreadable(p)
    /\ ~ShouldSkip(Source(r, p), LocalRoot(p), run[r].local[p])
    /\ SetTask(r, p, [task[r][p] EXCEPT !.pc = "tags", !.base = LocalRoot(p),
                                        !.todo = TagsOf(Source(r, p)) \ IllegalTags])
    /\ UNCHANGED <<upstream, destination, tree, operator, record, lock, run, faults>>

\* copy_manifest_tree, or tag_manifest for content an earlier tag brought: the
\* content is at the destination, and only then is the tag confirmed.
CopyTag(r, p, t) ==
    /\ At(r, p, "tags")
    /\ t \in task[r][p].todo
    /\ held' = [held EXCEPT ![p] = @ \cup {Source(r, p).tags[t]}]
    /\ SetTask(r, p, [task[r][p] EXCEPT !.todo = @ \ {t}, !.confirmed = @ \cup {t}])
    /\ UNCHANGED <<upstream, heldDesc, tree, operator, record, lock, run, faults>>

\* Faulty variant of RecordTag: the tag joins `confirmed` whatever its copy did.
RecordFailedTag(job, t) == [job EXCEPT !.todo = @ \ {t}, !.confirmed = @ \cup {t}, !.failed = TRUE]

\* record_tag on Err: the tag is a failure of the package and is not confirmed.
RecordTag(job, t) == [job EXCEPT !.todo = @ \ {t}, !.failed = TRUE]

\* A copy that fails may still have placed the content itself (a referrer failed).
FailTag(r, p, t) ==
    /\ At(r, p, "tags")
    /\ t \in task[r][p].todo
    /\ Failure
    /\ \E got \in SUBSET {Source(r, p).tags[t]} :
           held' = [held EXCEPT ![p] = @ \cup got]
    /\ SetTask(r, p, RecordTag(task[r][p], t))
    /\ UNCHANGED <<upstream, heldDesc, tree, operator, record, lock, run>>

\* Nothing confirmed, something failed and no root before: no root is written.
GivesUp(job) == job.failed /\ job.confirmed = {} /\ job.base = None

\* What `__ocx.desc` of the source registry points at now.
CarriedDescription(p) == releases[p][Len(releases[p])].desc

\* The last step before the tree is written: `__ocx.desc`, which no tag walk reaches.
CopyDescription(r, p) ==
    /\ At(r, p, "tags")
    /\ task[r][p].todo = {}
    /\ heldDesc' = [heldDesc EXCEPT ![p] = CarriedDescription(p)]
    /\ IF GivesUp(task[r][p]) THEN Settle(r, p, TRUE) ELSE Advance(r, p, "objects") /\ UNCHANGED run
    /\ UNCHANGED <<upstream, held, tree, operator, record, lock, faults>>

FailDescription(r, p) ==
    /\ At(r, p, "tags")
    /\ task[r][p].todo = {}
    /\ Failure
    /\ IF GivesUp([task[r][p] EXCEPT !.failed = TRUE]) THEN Settle(r, p, TRUE)
       ELSE /\ SetTask(r, p, [task[r][p] EXCEPT !.pc = "objects", !.failed = TRUE])
            /\ UNCHANGED run
    /\ UNCHANGED <<upstream, destination, tree, operator, record, lock>>

\* The distinct contents of the confirmed tags, whose bytes the copy verified.
Gathered(r, p) == {Source(r, p).tags[t] : t \in task[r][p].confirmed}

\* Faulty variant of Refused: a content that is not an image index is skipped over.
RefusesNothing(r, p) == FALSE

\* A confirmed content is not an image index.
Refused(r, p) == Gathered(r, p) \cap NotIndex # {}

WriteDispatchObjects(r, p) ==
    /\ At(r, p, "objects")
    /\ ~Refused(r, p)
    /\ dispatch' = [dispatch EXCEPT ![p] = @ \cup (Gathered(r, p) \ NotIndex)]
    /\ Advance(r, p, "readme")
    /\ UNCHANGED <<upstream, destination, described, root, catalog, config, operator, record,
                   lock, run, faults>>

\* The refusal fails the package after the objects before it were written.
RefuseDispatchObject(r, p) ==
    /\ At(r, p, "objects")
    /\ Refused(r, p)
    /\ \E written \in SUBSET (Gathered(r, p) \ NotIndex) :
           dispatch' = [dispatch EXCEPT ![p] = @ \cup written]
    /\ Settle(r, p, TRUE)
    /\ UNCHANGED <<upstream, destination, described, root, catalog, config, operator, record,
                   lock, faults>>

\* fetch_description_objects: the objects this run's root names.
DescriptionWrites(r, p) == {Source(r, p).desc}

WriteDescriptionObjects(r, p) ==
    /\ At(r, p, "readme")
    /\ described' = [described EXCEPT ![p] = @ \cup DescriptionWrites(r, p)]
    /\ Advance(r, p, "begin")
    /\ UNCHANGED <<upstream, destination, dispatch, root, catalog, config, operator, record,
                   lock, run, faults>>

BeginTransaction(r, p) ==
    /\ At(r, p, "begin")
    /\ lock = None
    /\ lock' = <<r, p>>
    /\ Advance(r, p, "root")
    /\ UNCHANGED <<upstream, destination, tree, operator, record, run, faults>>

WriteRoot(r, p) ==
    /\ At(r, p, "root")
    /\ root' = [root EXCEPT
           ![p] = MergeTags(Source(r, p), task[r][p].base, task[r][p].confirmed)]
    /\ damaged' = damaged \ {p}
    /\ Advance(r, p, "commit")
    /\ UNCHANGED <<upstream, destination, dispatch, described, catalog, config, committed,
                   included, edits, record, lock, run, faults>>

\* The catalog entry of the root just written; the lock is released.
CommitCatalog(r, p) ==
    /\ At(r, p, "commit")
    /\ catalog' = [catalog EXCEPT ![p] = root[p]]
    /\ lock' = None
    /\ Advance(r, p, "prune")
    /\ UNCHANGED <<upstream, destination, dispatch, described, root, config, operator, record,
                   run, faults>>

\* Faulty variants of Kept: nothing is pruned; everything is.
KeepsAll(r, p) == Descs
KeepsNone(r, p) == {}

\* What prune_description_objects keeps: the objects THIS run's root names.
Kept(r, p) == {Source(r, p).desc}

PruneDescriptionObjects(r, p) ==
    /\ At(r, p, "prune")
    /\ described' = [described EXCEPT ![p] = @ \cap Kept(r, p)]
    /\ Advance(r, p, "config")
    /\ UNCHANGED <<upstream, destination, dispatch, root, catalog, config, operator, record,
                   lock, run, faults>>

\* Written if absent, under the lock the transaction has given back.
WriteConfigJson(r, p) ==
    /\ At(r, p, "config")
    /\ lock = None
    /\ config' = TRUE
    /\ Settle(r, p, task[r][p].failed)
    /\ UNCHANGED <<upstream, destination, dispatch, described, root, catalog, operator, record,
                   lock, faults>>

-----------------------------------------------------------------------------

Publisher == \E p \in Packages : ListRoot(p) \/ \E doc \in UpstreamRoots : PublishRoot(p, doc)

Interference ==
    \/ CommitTree \/ CheckoutTree \/ LoseRecord
    \/ \E p \in Packages : DeleteRoot(p) \/ DamageRoot(p)
    \/ \E names \in SUBSET Packages : EditFilters(names)

RunStep(r) ==
    \/ RepairCatalog(r) \/ AbortRepair(r) \/ FetchCatalog(r) \/ ReadRecord(r) \/ PlanSource(r)
    \/ FinishRun(r) \/ ExitRun(r)

CopyStep(r, p) ==
    \/ FetchRoot(r, p) \/ Skip(r, p) \/ FailUnread(r, p) \/ FailBeforeCopy(r, p)
    \/ Measure(r, p) \/ BeginCopy(r, p)
    \/ \E t \in Tags : CopyTag(r, p, t) \/ FailTag(r, p, t)
    \/ CopyDescription(r, p) \/ FailDescription(r, p)

WriteStep(r, p) ==
    \/ WriteDispatchObjects(r, p) \/ RefuseDispatchObject(r, p)
    \/ WriteDescriptionObjects(r, p) \/ BeginTransaction(r, p) \/ WriteRoot(r, p)
    \/ CommitCatalog(r, p) \/ PruneDescriptionObjects(r, p) \/ WriteConfigJson(r, p)

Next ==
    \/ Publisher \/ Interference
    \/ \E r \in Runs :
         \/ RunStep(r) \/ StopRun(r) \/ \E mode \in Modes : StartRun(r, mode)
         \/ \E p \in Packages : CopyStep(r, p) \/ WriteStep(r, p)

Spec == Init /\ [][Next]_vars

\* The schedule starts a plain run again and again, whatever others are started between,
\* and a started run is executed; the publisher lists what it published.  Nothing is asked of publishing, failures,
\* interruptions or operators, which the bounds end.
Fairness ==
    /\ WF_vars(\E p \in Packages : ListRoot(p))
    /\ \A r \in Runs :
         /\ SF_vars(StartRun(r, "sync"))
         /\ WF_vars(RunStep(r))
         /\ \A p \in Packages : WF_vars(CopyStep(r, p) \/ WriteStep(r, p))

FairSpec == Spec /\ Fairness

-----------------------------------------------------------------------------
(* Properties.                                                                *)

UpstreamTypes == releases \in [Packages -> Seq(Roots)] /\ listed \in [Packages -> Nat]
DestinationTypes ==
    held \in [Packages -> SUBSET Contents] /\ heldDesc \in [Packages -> Descs \cup {None}]
TreeTypes == TreeNow \in Trees /\ committed \in Trees
OperatorTypes == damaged \subseteq Packages /\ included \subseteq Packages /\ edits \in Nat
RunTypes ==
    /\ run \in [Runs -> RunStates] /\ task \in [Runs -> [Packages -> TaskStates]]
    /\ record \in Records \cup {None} /\ lock \in (Runs \X Packages) \cup {None}
    /\ faults \in Nat

\* Every variable has its type.
TypeOK == UpstreamTypes /\ DestinationTypes /\ TreeTypes /\ OperatorTypes /\ RunTypes

\* A root, if there is one, names no content outside `present`.
NamesOnly(doc, present) == doc # None => \A t \in TagsOf(doc) : doc.tags[t] \in present

\* What a mirrored root names is at the destination registry (C-047: a tag whose
\* copy failed is never published, whatever was published for it before).
PublishedContentHeld == \A p \in Packages : NamesOnly(root[p], held[p])

\* Root exists => the dispatch objects of its tags exist (C-030, C-033), at
\* every instant, interrupted runs included.
DispatchObjectsServed == \A p \in Packages : NamesOnly(root[p], dispatch[p])

\* The mirrored root carries everything OCI can express of this source root.
Covers(mirrored, src) ==
    /\ mirrored # None
    /\ \A t \in TagsOf(src) \ IllegalTags : mirrored.tags[t] = src.tags[t]
    /\ mirrored.desc = src.desc

Successful(r) == run[r].pc = "done" /\ ~run[r].failed /\ run[r].mode # "dry"

\* The publisher named something -- a tag's content, the description -- dropped it for
\* another and went back to it.  The merged root, which keeps what the source no longer
\* names, can then become an earlier one again; so can what a run found, and recorded.
TookBack(p) ==
    \E i, j, k \in DOMAIN releases[p] :
        LET before == releases[p][i]  between == releases[p][j]  after == releases[p][k] IN
        /\ i < j /\ j < k
        /\ \/ before.desc = after.desc /\ between.desc # after.desc
           \/ \E t \in TagsOf(before) \cap TagsOf(between) \cap TagsOf(after) :
                 before.tags[t] = after.tags[t] /\ between.tags[t] # after.tags[t]

NothingTakenBack == \A p \in Packages : ~TookBack(p)

\* A run that reports no failure -- short-circuited or not -- leaves every package
\* it was asked for mirrored at least as new as the catalog it read, with the
\* catalog entry of its root, unless the publisher took something back: the record
\* names two catalogs and nothing of how the tree came by the second.  They are compared
\* whole, so that what one package took back speaks for the others.
SuccessfulRunMirrored ==
    NothingTakenBack => \A r \in Runs : Successful(r) => \A p \in Work(r) :
        /\ \E i \in run[r].cat[p]..Len(releases[p]) : Covers(root[p], releases[p][i])
        /\ catalog[p] = root[p]

\* Root exists => the README/logo objects its `desc` names exist (C-048): the prune
\* removes nothing a published root names.
\* And unless something failed or was interrupted (or taken back: the tag is read later than
\* the root and may be ahead of it), a successful run leaves `__ocx.desc` at
\* the destination as new as the catalog it read, no README or logo on disk that no
\* root names, and a config.json beside a tree with a root in it.
DescriptionsKept ==
    /\ \A p \in Packages : root[p] # None => root[p].desc \in described[p]
    /\ faults = 0 /\ NothingTakenBack => \A r \in Runs : Successful(r) => \A p \in Work(r) :
        /\ \E i \in run[r].cat[p]..Len(releases[p]) : heldDesc[p] = releases[p][i].desc
        /\ root[p] # None => described[p] = {root[p].desc} /\ config

\* The tag -> content maps the mirrored roots publish.
PublishedTags == [p \in Packages |-> IF root[p] = None THEN NoTags ELSE root[p].tags]

AppendOnly == INSTANCE AppendOnlyMirror WITH stored <- held, published <- PublishedTags

\* A single run at a time implements the append-only mirror: every step stores a
\* content, replaces one package's document by one that keeps its tags and names
\* stored contents only, or is invisible to the fleet.
IsAppendOnlyMirror == AppendOnly!Spec

\* Once publishing, failures and interruptions stop, the mirror catches up and
\* stays: every selected package covers upstream's newest root and is cataloged.
Converges ==
    <>[](\A p \in included \ damaged : releases[p] # <<>> =>
            Covers(root[p], releases[p][Len(releases[p])]) /\ catalog[p] = root[p])

=============================================================================
