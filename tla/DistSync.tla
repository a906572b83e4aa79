------------------------------ MODULE DistSync ------------------------------
(* `dist sync`: runs that mirror the release archives of a distribution, and   *)
(* the manifest and installers that name them, into an output tree and a store *)
(* consumers read.  Modelled from crates/ocx_mirror_pipeline/src/dist_sync.rs,  *)
(* dist_sync/{upload,manifest,installers,report}.rs, download.rs and           *)
(* crates/ocx_mirror_spec/src/dist.rs.                                         *)
(*                                                                            *)
(* Releases are numbered in their order; upstream lists the newest first.  An  *)
(* archive is the release it was built for and the build it is of, which is    *)
(* what its digest tells; a manifest is the set of archives it names.          *)
EXTENDS Naturals, FiniteSets, FiniteSetsExt

CONSTANTS
    Releases,       \* the releases upstream may publish
    Stable,         \* the releases of the stable channel
    Paths,          \* the paths archives may be laid out on
    Script,         \* the one of them the rolling installer has, where there is one
    Specs,          \* the specs an operator may have written: see SpecShape
    MaxDownloads,   \* concurrency.max_downloads
    MaxUploads,     \* concurrency.max_uploads
    MaxBuild,       \* bound: builds of one release
    MaxFaults       \* bound: failed requests, kills and lost trees

VARIABLES
    spec,       \* the spec all runs share
    upstream,   \* upstream: the build of each release, 0 for none
    store,      \* what the store serves: archives, snapshots, dist and installers
    tree,       \* what is under `output:`
    run,        \* the run under way
    faults

vars == <<spec, upstream, store, tree, run, faults>>

Archives == Releases \X (1..MaxBuild)
Manifests == {m \in SUBSET Archives : \A a, b \in m : a[1] = b[1] => a = b}
Nothing == <<0, 0>>     \* no object on a path
Broken == <<0, 1>>      \* a partial or foreign object
Objects == Archives \cup {Nothing, Broken}
dist == 0               \* the path of the rolling manifest, which archives must avoid

\* What `validate` lets through: an installer names a manifest that is published.
SpecShape ==
    [upload : BOOLEAN, retain_archives : BOOLEAN, checksums : BOOLEAN, path : BOOLEAN,
     snapshots : BOOLEAN, installers : BOOLEAN, min_version : Releases,
     layout : [Releases -> Paths \cup {dist}]]

ASSUME ReleaseAssumption ==
    Releases \subseteq Nat \ {0} /\ IsFiniteSet(Releases) /\ Stable \subseteq Releases
ASSUME BoundAssumption ==
    /\ MaxBuild \in Nat \ {0} /\ MaxFaults \in Nat /\ dist \notin Paths /\ Script \in Paths
    /\ MaxDownloads \in Nat \ {0} /\ MaxUploads \in Nat \ {0}
ASSUME SpecAssumption ==
    Specs \subseteq {s \in SpecShape : s.installers => s.path /\ s.snapshots}

NoRun == [step |-> "idle", manifest |-> {}, rows |-> [r \in {} |-> "done"]]

\* The steps of a run, in their order.
Tail == <<"snapshot", "dist", "put_snapshot", "put_dist", "put_pinned",
          "put_version", "put_rolling">>
TailSteps == {Tail[i] : i \in DOMAIN Tail}
RowSteps == {"queued", "retain", "fetch", "staged", "done", "failed"}

TypeOK ==
    /\ spec \in Specs /\ upstream \in [Releases -> 0..MaxBuild] /\ faults \in 0..MaxFaults
    /\ store.archives \in [Paths -> Objects] /\ tree.archives \in [Paths -> Objects]
    /\ store.snapshots \cup store.dist \cup store.pinned \subseteq Manifests
    /\ tree.snapshots \cup tree.dist \subseteq Manifests
    /\ Cardinality(store.dist) <= 1 /\ Cardinality(tree.dist) <= 1
    /\ store.version \in [Releases -> SUBSET Manifests]
    /\ run.step \in {"idle", "rows"} \cup TailSteps /\ run.manifest \in Manifests
    /\ DOMAIN run.rows \subseteq Releases /\ \A r \in DOMAIN run.rows : run.rows[r] \in RowSteps
    /\ run.step \in TailSteps => \A r \in DOMAIN run.rows : run.rows[r] = "done"

\* The store may hold something else on one of the paths.
Init ==
    /\ spec \in Specs /\ upstream = [r \in Releases |-> 0] /\ faults = 0
    /\ \E foreign \in SUBSET Paths :
         /\ Cardinality(foreign) <= 1
         /\ store = [archives |-> [p \in Paths |-> IF p \in foreign THEN Broken ELSE Nothing],
                     snapshots |-> {}, dist |-> {}, pinned |-> {},
                     version |-> [r \in Releases |-> {}], rolling |-> FALSE]
    /\ tree = [archives |-> [p \in Paths |-> Nothing], snapshots |-> {}, dist |-> {}]
    /\ run = NoRun

Failure == faults < MaxFaults /\ faults' = faults + 1
retain_archives_resolved == spec.retain_archives \/ ~spec.upload
Path(r) == spec.layout[r]
Stored(r) == store.archives[Path(r)]
Staged(r) == tree.archives[Path(r)]

-----------------------------------------------------------------------------
(* Upstream.                                                                  *)

Release(r) ==
    /\ upstream[r] = 0 /\ upstream' = [upstream EXCEPT ![r] = 1]
    /\ UNCHANGED <<spec, store, tree, run, faults>>

\* The archive of a release is replaced, and the manifest upstream with it.
Rebuild(r) ==
    /\ upstream[r] \in 1..(MaxBuild - 1) /\ upstream' = [upstream EXCEPT ![r] = @ + 1]
    /\ UNCHANGED <<spec, store, tree, run, faults>>

\* A runner that starts with an empty tree.
LoseTree ==
    /\ run.step = "idle" /\ Failure
    /\ tree' = [archives |-> [p \in Paths |-> Nothing], snapshots |-> {}, dist |-> {}]
    /\ UNCHANGED <<spec, upstream, store, run>>

-----------------------------------------------------------------------------
(* The rows of a run.                                                         *)

fetch_manifest == {<<r, upstream[r]>> : r \in {r \in Releases : upstream[r] > 0}}
apply_select(manifest) == {a \in manifest : a[1] >= spec.min_version}
ReleasesOf(manifest) == {a[1] : a \in manifest}
Selected == ReleasesOf(apply_select(fetch_manifest))

\* Faulty variant of claims: only the manifest has a path of its own.
ManifestClaims == {dist}

\* The paths that are taken before any row is planned.
claims == {dist} \cup IF spec.installers THEN {Script} ELSE {}

\* Rows are planned newest first; one on a path that is taken is refused.
Claims(rows) ==
    {r \in rows : Path(r) \notin claims /\ ~\E s \in rows : s > r /\ Path(s) = Path(r)}

\* A run reads the upstream manifest once.  One that cannot, that selects nothing, that
\* cannot prepare its installers or that is a --dry-run ends without a trace.
Start ==
    /\ run.step = "idle" /\ Selected # {}
    /\ run' = [step |-> "rows", manifest |-> apply_select(fetch_manifest),
               rows |-> [r \in Selected |-> IF r \in Claims(Selected) THEN "queued" ELSE "failed"]]
    /\ UNCHANGED <<spec, upstream, store, tree, faults>>

In(states) == {r \in DOMAIN run.rows : run.rows[r] \in states}
Active == In({"retain", "fetch", "staged"})
Row(r) == CHOOSE a \in run.manifest : a[1] = r
Becomes(r, state) == run' = [run EXCEPT !.rows[r] = state]

\* A store without checksums vouches for a path, one with them for the bytes.
Vouched(object, archive) ==
    IF spec.checksums THEN object = archive ELSE object # Nothing

\* Faulty variant of Held: what the store has, the tree need not.
StoreSuffices == {"done"}

\* What is left of a row whose archive the store holds: the tree, if it is kept.
Held == IF retain_archives_resolved THEN {"retain"} ELSE {"done"}

discard_staged(p) == [tree EXCEPT !.archives[p] = IF retain_archives_resolved THEN @ ELSE Nothing]

\* The destination is asked before anything is fetched.
Probe(r) ==
    /\ run.step = "rows" /\ run.rows[r] = "queued"
    /\ Cardinality(Active) < MaxDownloads
    /\ LET held == spec.upload /\ Vouched(Stored(r), Row(r)) IN
         /\ \E state \in IF held THEN Held ELSE {IF spec.upload THEN "fetch" ELSE "retain"} :
              Becomes(r, state)
         /\ tree' = IF held THEN discard_staged(Path(r)) ELSE tree
    /\ UNCHANGED <<spec, upstream, store, faults>>

Fetching(r) == run.step = "rows" /\ run.rows[r] \in {"retain", "fetch"}
Fetched(r) == Becomes(r, IF run.rows[r] = "retain" THEN "done" ELSE "staged")

\* A verified local copy is used again.
Reuse(r) ==
    /\ Fetching(r) /\ Staged(r) = Row(r) /\ Fetched(r)
    /\ UNCHANGED <<spec, upstream, store, tree, faults>>

\* Upstream serves what it has by now; bytes of another digest stay where they are.
Download(r) ==
    /\ Fetching(r) /\ Staged(r) # Row(r)
    /\ LET served == <<r, upstream[r]>> IN
         /\ tree' = [tree EXCEPT !.archives[Path(r)] = served]
         /\ IF served = Row(r) THEN Fetched(r) ELSE Becomes(r, "failed")
    /\ UNCHANGED <<spec, upstream, store, faults>>

\* A download that fails has created its file.
FailDownload(r) ==
    /\ Fetching(r) /\ Staged(r) # Row(r) /\ Failure
    /\ tree' = [tree EXCEPT !.archives[Path(r)] = Broken]
    /\ Becomes(r, "failed")
    /\ UNCHANGED <<spec, upstream, store>>

\* The store once these staged files are in it.
Uploaded(rows) ==
    [store EXCEPT !.archives = [p \in Paths |->
        IF \E r \in rows : Path(r) = p THEN tree.archives[p] ELSE @[p]]]

\* The staged file is read when the upload starts, and discarded after the answer.
Upload(r) ==
    /\ run.step = "rows" /\ run.rows[r] = "staged"
    /\ store' = Uploaded({r})
    /\ tree' = discard_staged(Path(r))
    /\ Becomes(r, "done")
    /\ UNCHANGED <<spec, upstream, faults>>

\* write_output replaces a file in place: one that is cut short has lost what was there.
Torn(files, documents) ==
    [files EXCEPT !.snapshots = IF "snapshot" \in documents THEN @ \ {run.manifest} ELSE @,
                  !.dist = IF "dist" \in documents THEN {} ELSE @]

\* A probe without an answer, a rejected upload or a kill ends the run where it is.  Of
\* the uploads in flight, no more than there are permits, some arrive; a document whose
\* write is cut short cannot be read.
Abort ==
    /\ run.step # "idle" /\ Failure
    /\ \E arrived \in SUBSET In({"staged"}), cut \in SUBSET In({"retain", "fetch"}),
          torn \in SUBSET ({run.step} \cap {"snapshot", "dist"}) :
         /\ Cardinality(arrived) <= MaxUploads
         /\ \A r \in cut : Staged(r) # Row(r)
         /\ store' = Uploaded(arrived)
         /\ tree' = Torn([archives |-> [p \in Paths |->
                              IF \E r \in cut : Path(r) = p THEN Broken ELSE tree.archives[p]],
                          snapshots |-> tree.snapshots, dist |-> tree.dist], torn)
    /\ run' = NoRun
    /\ UNCHANGED <<spec, upstream>>

-----------------------------------------------------------------------------
(* The documents, once every row is through.                                  *)

\* A run with a failed row publishes nothing.
Complete == In({"failed"}) = {}

EndRows ==
    /\ run.step = "rows" /\ In({"done", "failed"}) = DOMAIN run.rows
    /\ run' = IF Complete THEN [run EXCEPT !.step = "snapshot"] ELSE NoRun
    /\ UNCHANGED <<spec, upstream, store, tree, faults>>

\* Without `upload:` the tree is all there is.
After(step) ==
    LET i == CHOOSE i \in DOMAIN Tail : Tail[i] = step IN
    IF step = "put_rolling" \/ (step = "dist" /\ ~spec.upload) THEN NoRun
    ELSE [run EXCEPT !.step = Tail[i + 1]]

\* Faulty variant of Order: the rolling documents go first.
RollingFirst(step) ==
    CASE step = "put_snapshot" -> "put_rolling"
      [] step = "put_rolling" -> "put_snapshot"
      [] OTHER -> step

\* What each upload is of.
Order(step) == step

\* The tree holds every document, whatever is switched off for the store.
WriteTree ==
    /\ run.step \in {"snapshot", "dist"}
    /\ tree' = IF run.step = "snapshot" THEN [tree EXCEPT !.snapshots = @ \cup {run.manifest}]
               ELSE [tree EXCEPT !.dist = {run.manifest}]
    /\ run' = After(run.step)
    /\ UNCHANGED <<spec, upstream, store, faults>>

\* The release the stable pointer names, if one is left.
latest(manifest) == Max({0} \cup (ReleasesOf(manifest) \cap Stable))

\* Faulty variant of Placed: what is there already is left alone.
KeepFirst(old, manifest) == IF old = {} THEN {manifest} ELSE old

\* A rolling path is written whether or not the store has it.
Placed(old, manifest) == {manifest}

\* The store once this document is in it.
upload_manifest(step) ==
    CASE step = "put_snapshot" /\ spec.snapshots ->
           [store EXCEPT !.snapshots = @ \cup {run.manifest}]
      [] step = "put_dist" /\ spec.path -> [store EXCEPT !.dist = Placed(@, run.manifest)]
      [] OTHER -> store

\* Pinned installers and the copies of the newest stable release name the snapshot, the
\* rolling ones dist.json.
upload_installers(step) ==
    CASE step = "put_pinned" -> [store EXCEPT !.pinned = @ \cup {run.manifest}]
      [] step = "put_version" /\ latest(run.manifest) # 0 ->
           [store EXCEPT !.version[latest(run.manifest)] = Placed(@, run.manifest)]
      [] step = "put_rolling" -> [store EXCEPT !.rolling = TRUE]
      [] OTHER -> store

With(step) ==
    IF step \in {"put_snapshot", "put_dist"} THEN upload_manifest(step)
    ELSE IF spec.installers THEN upload_installers(step) ELSE store

Put ==
    /\ run.step \in TailSteps \ {"snapshot", "dist"}
    /\ store' = With(Order(run.step))
    /\ run' = After(run.step)
    /\ UNCHANGED <<spec, upstream, tree, faults>>

-----------------------------------------------------------------------------
RunStep ==
    \/ \E r \in DOMAIN run.rows :
          Probe(r) \/ Reuse(r) \/ Download(r) \/ Upload(r)
    \/ EndRows \/ WriteTree \/ Put

Next ==
    \/ \E r \in Releases : Release(r) \/ Rebuild(r)
    \/ LoseTree \/ Start \/ RunStep \/ Abort
    \/ \E r \in DOMAIN run.rows : FailDownload(r)

Spec == Init /\ [][Next]_vars

\* A schedule starts runs again and again, and a run goes on while nothing stops it.
FairSpec == Spec /\ WF_vars(Start) /\ WF_vars(RunStep)

-----------------------------------------------------------------------------
(* Properties.                                                                *)

\* Upstream has not replaced this archive since, and no other release is laid out on its
\* path, as the reference asks of a layout.
Current(a) == upstream[a[1]] = a[2]
Alone(r) == \A s \in Selected : s # r => Path(s) # Path(r)

\* Whatever a consumer reads, at any moment of any run: an installer names a manifest the
\* store has, no archive lies on an installer's path, no manifest is empty, and each archive one names is there by the digest it
\* names, as far as the store can tell (the publish order of dist_sync.rs).
StoreResolves ==
    /\ \A m \in store.snapshots \cup store.dist :
          m # {} /\ \A a \in m : Current(a) /\ Alone(a[1]) => Vouched(Stored(a[1]), a)
    /\ store.pinned \cup UNION {store.version[r] : r \in Releases} \subseteq store.snapshots
    /\ store.rolling => store.dist # {}
    /\ spec.installers => store.archives[Script] \notin Archives

\* A tree that is kept is a mirror of its own: its manifests name archives it contains,
\* whether or not the store held them first (mirror_row: "a store hit must not leave a
\* retained tree naming an archive it does not contain").
TreeResolves ==
    retain_archives_resolved =>
       \A m \in tree.snapshots \cup tree.dist : \A a \in m :
          Current(a) /\ Alone(a[1]) => Staged(a[1]) = a

\* What the store serves and what a kept tree names is there, at every instant.
ServedResolves == StoreResolves /\ TreeResolves

Published(m) ==
    /\ tree.dist = {m} /\ m \in tree.snapshots
    /\ retain_archives_resolved => \A a \in m : Staged(a[1]) = a
    /\ spec.upload =>
          /\ \A a \in m : Vouched(Stored(a[1]), a)
          /\ spec.path => store.dist = {m}
          /\ spec.snapshots => m \in store.snapshots
          /\ spec.installers => 
                store.rolling /\ (latest(m) # 0 => store.version[latest(m)] = {m})

\* Once upstream rests, a layout with a path for each release is mirrored by its runs,
\* whatever failed, was killed or was lost before.
Converges ==
    <>[]((Selected # {} /\ \A r \in Selected : Alone(r) /\ Path(r) \notin claims) =>
            Published({<<r, upstream[r]>> : r \in Selected}))

=============================================================================
