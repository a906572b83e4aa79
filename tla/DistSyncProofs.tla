--------------------------- MODULE DistSyncProofs ---------------------------
(* Theorems about DistSync, for every value of its constants: any releases,    *)
(* layouts and specs, any pools of downloads and uploads, and any number of    *)
(* rebuilds, failures, kills and lost trees.                                   *)
EXTENDS DistSync, FiniteSetTheorems, TLAPS

-----------------------------------------------------------------------------
(* Types, and what a run's rows are rows of.                                  *)

Stores ==
    [archives : [Paths -> Objects], snapshots : SUBSET Manifests, dist : SUBSET Manifests,
     pinned : SUBSET Manifests, version : [Releases -> SUBSET Manifests], rolling : BOOLEAN]

Trees == [archives : [Paths -> Objects], snapshots : SUBSET Manifests, dist : SUBSET Manifests]

Runs ==
    [step : {"idle", "rows"} \cup TailSteps, manifest : Manifests,
     rows : UNION {[rows -> RowSteps] : rows \in SUBSET Releases}]

Puts == TailSteps \ {"snapshot", "dist"}

TypesOK ==
    /\ spec \in Specs /\ upstream \in [Releases -> 0..MaxBuild] /\ faults \in 0..MaxFaults
    /\ store \in Stores /\ tree \in Trees /\ run \in Runs
    /\ Cardinality(store.dist) <= 1 /\ Cardinality(tree.dist) <= 1

\* A run has a row for each release of its manifest, which upstream has had; what it puts
\* into the store it was asked to.
RunOK ==
    /\ DOMAIN run.rows = ReleasesOf(run.manifest)
    /\ DOMAIN run.rows \subseteq Selected
    /\ \A a \in run.manifest : a[2] <= upstream[a[1]]
    /\ run.step # "idle" <=> run.manifest # {}
    /\ run.step \in TailSteps => \A r \in DOMAIN run.rows : run.rows[r] = "done"
    /\ run.step \in Puts => spec.upload

TypeInv == TypesOK /\ RunOK

LEMMA TailIs ==
  /\ TailSteps = {"snapshot", "dist", "put_snapshot", "put_dist", "put_pinned",
                  "put_version", "put_rolling"}
  /\ Puts = {"put_snapshot", "put_dist", "put_pinned", "put_version", "put_rolling"}
<1>1. DOMAIN Tail = 1..7
  BY DEF Tail
<1>2. TailSteps = {"snapshot", "dist", "put_snapshot", "put_dist", "put_pinned",
                   "put_version", "put_rolling"}
  BY <1>1 DEF TailSteps, Tail
<1> QED
  BY <1>2 DEF Puts

\* The step that follows.
Following ==
    [snapshot |-> "dist", dist |-> "put_snapshot", put_snapshot |-> "put_dist",
     put_dist |-> "put_pinned", put_pinned |-> "put_version", put_version |-> "put_rolling"]

LEMMA AfterIs ==
  ASSUME NEW step \in TailSteps
  PROVE  \/ After(step) = NoRun /\ (step = "put_rolling" \/ (step = "dist" /\ ~spec.upload))
         \/ /\ After(step) = [run EXCEPT !.step = Following[step]]
            /\ step # "put_rolling" /\ (step = "dist" => spec.upload)
            /\ Following[step] \in TailSteps
<1>1. DOMAIN Tail = 1..7
  BY DEF Tail
<1>2. CASE step = "put_rolling" \/ (step = "dist" /\ ~spec.upload)
  BY <1>2 DEF After
<1>3. CASE step = "snapshot"
  <2>1. (CHOOSE i \in DOMAIN Tail : Tail[i] = step) = 1
    BY <1>1, <1>3 DEF Tail
  <2> QED
    BY <1>3, <2>1, TailIs DEF After, Following, Tail
<1>4. CASE step = "dist" /\ spec.upload
  <2>1. (CHOOSE i \in DOMAIN Tail : Tail[i] = step) = 2
    BY <1>1, <1>4 DEF Tail
  <2> QED
    BY <1>4, <2>1, TailIs DEF After, Following, Tail
<1>5. CASE step = "put_snapshot"
  <2>1. (CHOOSE i \in DOMAIN Tail : Tail[i] = step) = 3
    BY <1>1, <1>5 DEF Tail
  <2> QED
    BY <1>5, <2>1, TailIs DEF After, Following, Tail
<1>6. CASE step = "put_dist"
  <2>1. (CHOOSE i \in DOMAIN Tail : Tail[i] = step) = 4
    BY <1>1, <1>6 DEF Tail
  <2> QED
    BY <1>6, <2>1, TailIs DEF After, Following, Tail
<1>7. CASE step = "put_pinned"
  <2>1. (CHOOSE i \in DOMAIN Tail : Tail[i] = step) = 5
    BY <1>1, <1>7 DEF Tail
  <2> QED
    BY <1>7, <2>1, TailIs DEF After, Following, Tail
<1>8. CASE step = "put_version"
  <2>1. (CHOOSE i \in DOMAIN Tail : Tail[i] = step) = 6
    BY <1>1, <1>8 DEF Tail
  <2> QED
    BY <1>8, <2>1, TailIs DEF After, Following, Tail
<1> QED
  BY <1>2, <1>3, <1>4, <1>5, <1>6, <1>7, <1>8, TailIs

LEMMA SpecTypes ==
  ASSUME spec \in Specs
  PROVE  /\ spec \in SpecShape /\ spec.layout \in [Releases -> Paths \cup {dist}]
         /\ spec.min_version \in Releases /\ spec.upload \in BOOLEAN
         /\ spec.installers => spec.path /\ spec.snapshots
BY SpecAssumption DEF SpecShape

\* An archive is neither no object nor a broken one.
LEMMA ArchiveTypes ==
  ASSUME NEW a \in Archives
  PROVE  /\ a = <<a[1], a[2]>> /\ a[1] \in Releases /\ a[2] \in 1..MaxBuild /\ a[2] \in Nat \ {0}
         /\ a \in Objects /\ a # Nothing /\ a # Broken
<1>1. a = <<a[1], a[2]>> /\ a[1] \in Releases /\ a[2] \in 1..MaxBuild
  BY DEF Archives
<1>2. a[1] # 0 /\ a[2] \in Nat \ {0}
  BY <1>1, ReleaseAssumption, BoundAssumption
<1> QED
  BY <1>1, <1>2 DEF Objects, Nothing, Broken

\* What is selected of what an upstream has.
LEMMA SelectedOf ==
  ASSUME NEW up \in [Releases -> 0..MaxBuild], NEW least
  PROVE  LET listed == {<<r, up[r]>> : r \in {r \in Releases : up[r] > 0}}
             m == {a \in listed : a[1] >= least}
             kept == {r \in Releases : up[r] > 0 /\ r >= least}
         IN  m = {<<r, up[r]>> : r \in kept} /\ ReleasesOf(m) = kept /\ m \in Manifests
<1> DEFINE listed == {<<r, up[r]>> : r \in {r \in Releases : up[r] > 0}}
           m == {a \in listed : a[1] >= least}
           kept == {r \in Releases : up[r] > 0 /\ r >= least}
           all == {<<r, up[r]>> : r \in kept}
<1>1. m = all
  OBVIOUS
<1>2. ReleasesOf(all) = kept
  <2>1. ASSUME NEW r \in kept PROVE r \in ReleasesOf(all)
    <3>1. <<r, up[r]>> \in all /\ <<r, up[r]>>[1] = r
      OBVIOUS
    <3> HIDE DEF all
    <3> QED
      BY <3>1 DEF ReleasesOf
  <2>2. ASSUME NEW a \in all PROVE a[1] \in kept
    OBVIOUS
  <2> HIDE DEF all
  <2> QED
    BY <2>1, <2>2 DEF ReleasesOf
<1>3. all \in Manifests
  <2>1. \A r \in kept : r \in Releases /\ up[r] \in 1..MaxBuild
    BY BoundAssumption
  <2>2. \A a \in all : a \in Archives
    BY <2>1 DEF Archives
  <2>3. \A a, b \in all : a[1] = b[1] => a = b
    OBVIOUS
  <2> HIDE DEF all
  <2> QED
    BY <2>2, <2>3 DEF Manifests
<1> HIDE DEF m, all
<1>4. m = all /\ ReleasesOf(m) = kept /\ m \in Manifests
  BY <1>1, <1>2, <1>3
<1> QED
  BY <1>4 DEF m, all

LEMMA SelectedIs ==
  ASSUME upstream \in [Releases -> 0..MaxBuild]
  PROVE  /\ Selected = {r \in Releases : upstream[r] > 0 /\ r >= spec.min_version}
         /\ apply_select(fetch_manifest) = {<<r, upstream[r]>> : r \in Selected}
         /\ apply_select(fetch_manifest) \in Manifests
BY SelectedOf DEF Selected, apply_select, fetch_manifest

\* A manifest names one archive of a release.
LEMMA NamedOnce ==
  ASSUME NEW m \in Manifests
  PROVE  /\ \A r \in ReleasesOf(m) :
              LET row == CHOOSE a \in m : a[1] = r IN row \in m /\ row \in Archives /\ row[1] = r
         /\ \A a \in m : a[1] \in ReleasesOf(m) /\ a = CHOOSE b \in m : b[1] = a[1]
<1>1. ASSUME NEW r \in ReleasesOf(m)
      PROVE  LET row == CHOOSE a \in m : a[1] = r IN row \in m /\ row \in Archives /\ row[1] = r
  <2>1. \E a \in m : a[1] = r
    BY DEF ReleasesOf
  <2>2. m \subseteq Archives
    BY DEF Manifests
  <2> QED
    BY <2>1, <2>2
<1>2. ASSUME NEW a \in m
      PROVE  a[1] \in ReleasesOf(m) /\ a = CHOOSE b \in m : b[1] = a[1]
  <2>1. a[1] \in ReleasesOf(m)
    BY DEF ReleasesOf
  <2>2. \A b \in m : b[1] = a[1] => b = a
    BY DEF Manifests
  <2> QED
    BY <1>1, <2>1, <2>2
<1> QED
  BY <1>1, <1>2

\* The row of a release has the archive the run's manifest names for it.
LEMMA RowIs ==
  ASSUME run.manifest \in Manifests, DOMAIN run.rows = ReleasesOf(run.manifest)
  PROVE  /\ \A r \in DOMAIN run.rows :
              Row(r) \in run.manifest /\ Row(r) \in Archives /\ Row(r)[1] = r
         /\ \A a \in run.manifest : a[1] \in DOMAIN run.rows /\ Row(a[1]) = a
BY NamedOnce DEF Row

LEMMA BecomesIs ==
  ASSUME run \in Runs, NEW r \in DOMAIN run.rows, NEW state \in RowSteps, Becomes(r, state)
  PROVE  /\ run' \in Runs /\ run'.step = run.step /\ run'.manifest = run.manifest
         /\ DOMAIN run'.rows = DOMAIN run.rows /\ run'.rows[r] = state
         /\ \A s \in DOMAIN run.rows : s # r => run'.rows[s] = run.rows[s]
<1>1. PICK rows \in SUBSET Releases : run.rows \in [rows -> RowSteps]
  BY DEF Runs
<1> DEFINE new == [run.rows EXCEPT ![r] = state]
<1>2. new \in [rows -> RowSteps] /\ DOMAIN new = DOMAIN run.rows /\ new[r] = state
      /\ \A s \in DOMAIN run.rows : s # r => new[s] = run.rows[s]
  BY <1>1
<1>3. run' = [run EXCEPT !.rows = new]
  BY DEF Becomes, Runs
<1> HIDE DEF new
<1> QED
  BY <1>1, <1>2, <1>3 DEF Runs

\* What the store is once the staged files of some rows are in it.
LEMMA UploadedIs ==
  ASSUME TypesOK, NEW rows
  PROVE  /\ Uploaded(rows) \in Stores
         /\ Uploaded(rows).snapshots = store.snapshots /\ Uploaded(rows).dist = store.dist
         /\ Uploaded(rows).pinned = store.pinned /\ Uploaded(rows).version = store.version
         /\ Uploaded(rows).rolling = store.rolling
         /\ \A p \in Paths : Uploaded(rows).archives[p] =
              IF \E r \in rows : Path(r) = p THEN tree.archives[p] ELSE store.archives[p]
<1> DEFINE new == [p \in Paths |-> IF \E r \in rows : Path(r) = p THEN tree.archives[p]
                                   ELSE store.archives[p]]
<1>1. new \in [Paths -> Objects]
  BY DEF TypesOK, Stores, Trees
<1>2. Uploaded(rows) = [store EXCEPT !.archives = new]
  BY DEF Uploaded, TypesOK, Stores
<1>3. \A p \in Paths : new[p] =
        IF \E r \in rows : Path(r) = p THEN tree.archives[p] ELSE store.archives[p]
  OBVIOUS
<1> HIDE DEF new
<1> QED
  BY <1>1, <1>2, <1>3 DEF TypesOK, Stores

LEMMA DiscardIs ==
  ASSUME TypesOK, NEW p \in Paths
  PROVE  /\ discard_staged(p) \in Trees
         /\ discard_staged(p).snapshots = tree.snapshots /\ discard_staged(p).dist = tree.dist
         /\ retain_archives_resolved => discard_staged(p).archives = tree.archives
         /\ \A q \in Paths : q # p => discard_staged(p).archives[q] = tree.archives[q]
BY DEF discard_staged, TypesOK, Trees, Objects

LEMMA NoRunTypes ==
  /\ NoRun \in Runs /\ NoRun.step = "idle" /\ NoRun.manifest = {} /\ DOMAIN NoRun.rows = {}
<1>1. {} \in Manifests
  BY DEF Manifests
<1>2. [r \in {} |-> "done"] \in [{} -> RowSteps]
  OBVIOUS
<1> QED
  BY <1>1, <1>2 DEF NoRun, Runs

LEMMA EndedRun ==
  ASSUME run' = NoRun
  PROVE  run' \in Runs /\ RunOK'
<1>1. /\ run' \in Runs /\ run'.step = "idle" /\ run'.manifest = {} /\ DOMAIN run'.rows = {}
  BY NoRunTypes
<1>2. run'.step \notin TailSteps /\ run'.step \notin Puts
  BY <1>1, TailIs
<1>3. ReleasesOf(run'.manifest) = {}
  BY <1>1 DEF ReleasesOf
<1> QED
  BY <1>1, <1>2, <1>3 DEF RunOK

\* A step of one row.
LEMMA RowStepOK ==
  ASSUME TypeInv, run.step = "rows", NEW r \in DOMAIN run.rows, NEW state \in RowSteps,
         Becomes(r, state), UNCHANGED <<spec, upstream>>
  PROVE  run' \in Runs /\ RunOK'
<1>1. /\ run' \in Runs /\ run'.step = run.step /\ run'.manifest = run.manifest
      /\ DOMAIN run'.rows = DOMAIN run.rows
  BY BecomesIs DEF TypeInv, TypesOK
<1>2. run'.step \notin TailSteps /\ run'.step \notin Puts
  BY <1>1, TailIs
<1>3. Selected' = Selected
  BY DEF Selected, ReleasesOf, apply_select, fetch_manifest
<1> QED
  BY <1>1, <1>2, <1>3 DEF TypeInv, RunOK, ReleasesOf

\* Upstream only gains releases.
LEMMA SelectedGrows ==
  ASSUME upstream \in [Releases -> 0..MaxBuild], upstream' \in [Releases -> 0..MaxBuild],
         spec' = spec, \A r \in Releases : upstream[r] <= upstream'[r],
         spec.min_version \in Nat
  PROVE  Selected \subseteq Selected'
<1>1. Selected = {r \in Releases : upstream[r] > 0 /\ r >= spec.min_version}
  BY SelectedIs
<1>2. Selected' = {r \in Releases : upstream'[r] > 0 /\ r >= spec'.min_version}
  <2> DEFINE up == upstream'
             least == spec'.min_version
  <2>1. Selected' = ReleasesOf({a \in {<<r, up[r]>> : r \in {r \in Releases : up[r] > 0}} :
                                    a[1] >= least})
    BY DEF Selected, apply_select, fetch_manifest
  <2>2. up \in [Releases -> 0..MaxBuild]
    OBVIOUS
  <2> HIDE DEF up, least
  <2>3. Selected' = {r \in Releases : up[r] > 0 /\ r >= least}
    BY <2>1, <2>2, SelectedOf
  <2> QED
    BY <2>3 DEF up, least
<1>3. ASSUME NEW r \in Releases, upstream[r] > 0 PROVE upstream'[r] > 0
  BY <1>3, BoundAssumption
<1> QED
  BY <1>1, <1>2, <1>3

LEMMA InitTypes == Init => TypeInv
<1> SUFFICES ASSUME Init PROVE TypeInv
  OBVIOUS
<1>1. {} \in SUBSET Manifests /\ Cardinality({}) = 0
  BY FS_EmptySet
<1>2. store \in Stores /\ store.dist = {}
  BY <1>1 DEF Init, Stores, Objects
<1>3. tree \in Trees /\ tree.dist = {}
  BY <1>1 DEF Init, Trees, Objects
<1>4. run \in Runs /\ RunOK
  <2>1. run = NoRun
    BY DEF Init
  <2>2. run.step \notin TailSteps /\ run.step \notin Puts
    BY <2>1, NoRunTypes, TailIs
  <2>3. ReleasesOf(run.manifest) = {}
    BY <2>1, NoRunTypes DEF ReleasesOf
  <2> QED
    BY <2>1, <2>2, <2>3, NoRunTypes DEF RunOK
<1>5. spec \in Specs /\ upstream \in [Releases -> 0..MaxBuild] /\ faults \in 0..MaxFaults
  BY BoundAssumption DEF Init
<1> QED
  BY <1>1, <1>2, <1>3, <1>4, <1>5 DEF TypeInv, TypesOK

\* A release that appears, or is built again.
LEMMA UpstreamGrows ==
  ASSUME TypeInv, NEW r \in Releases, Release(r) \/ Rebuild(r)
  PROVE  /\ upstream' \in [Releases -> 0..MaxBuild] /\ upstream'[r] = upstream[r] + 1
         /\ \A s \in Releases : s # r => upstream'[s] = upstream[s]
         /\ UNCHANGED <<spec, store, tree, run, faults>>
<1>1. upstream \in [Releases -> 0..MaxBuild] /\ MaxBuild \in Nat \ {0}
  BY BoundAssumption DEF TypeInv, TypesOK
<1>2. CASE Release(r)
  BY <1>1, <1>2 DEF Release
<1>3. CASE Rebuild(r)
  BY <1>1, <1>3 DEF Rebuild
<1> QED
  BY <1>2, <1>3

LEMMA UpstreamTypes ==
  ASSUME TypeInv, NEW r \in Releases, Release(r) \/ Rebuild(r)
  PROVE  TypeInv' /\ Selected \subseteq Selected'
<1>1. /\ upstream \in [Releases -> 0..MaxBuild] /\ upstream' \in [Releases -> 0..MaxBuild]
      /\ \A s \in Releases : upstream[s] <= upstream'[s]
  BY UpstreamGrows, BoundAssumption DEF TypeInv, TypesOK
<1>2. UNCHANGED <<spec, store, tree, run, faults>>
  BY UpstreamGrows
<1>3. spec.min_version \in Nat
  BY SpecTypes, ReleaseAssumption DEF TypeInv, TypesOK
<1>4. Selected \subseteq Selected'
  BY <1>1, <1>2, <1>3, SelectedGrows
<1>5. ASSUME NEW a \in run.manifest PROVE a[2] <= upstream'[a[1]]
  <2>1. a \in Archives
    BY DEF TypeInv, TypesOK, Runs, Manifests
  <2>2. a[1] \in Releases /\ a[2] \in Nat /\ a[2] <= upstream[a[1]]
    BY <2>1, ArchiveTypes DEF TypeInv, RunOK
  <2>3. upstream[a[1]] \in Nat /\ upstream'[a[1]] \in Nat /\ upstream[a[1]] <= upstream'[a[1]]
    BY <1>1, <2>2, BoundAssumption
  <2> QED
    BY <2>2, <2>3
<1>6. RunOK'
  BY <1>2, <1>4, <1>5 DEF TypeInv, RunOK
<1> QED
  BY <1>1, <1>2, <1>4, <1>6 DEF TypeInv, TypesOK

LEMMA LoseTreeTypes ==
  ASSUME TypeInv, LoseTree
  PROVE  TypeInv'
<1>1. tree' \in Trees /\ Cardinality(tree'.dist) <= 1
  <2>1. tree'.dist = {}
    BY DEF LoseTree
  <2> QED
    BY <2>1, FS_EmptySet DEF LoseTree, Trees, Objects
<1>2. faults' \in 0..MaxFaults
  BY BoundAssumption DEF LoseTree, Failure, TypeInv, TypesOK
<1>3. RunOK'
  BY DEF LoseTree, TypeInv, RunOK, Selected, apply_select, fetch_manifest
<1> QED
  BY <1>1, <1>2, <1>3 DEF TypeInv, TypesOK, LoseTree

LEMMA StartIs ==
  ASSUME TypeInv, Start
  PROVE  /\ run' \in Runs /\ run'.step = "rows" /\ run'.manifest = {<<r, upstream[r]>> : r \in Selected}
         /\ DOMAIN run'.rows = Selected /\ Selected # {} /\ Selected \subseteq Releases
         /\ \A r \in Selected : run'.rows[r] = IF r \in Claims(Selected) THEN "queued" ELSE "failed"
         /\ UNCHANGED <<spec, upstream, store, tree, faults>>
<1>1. upstream \in [Releases -> 0..MaxBuild]
  BY DEF TypeInv, TypesOK
<1>2. /\ Selected \subseteq Releases /\ apply_select(fetch_manifest) \in Manifests
      /\ apply_select(fetch_manifest) = {<<r, upstream[r]>> : r \in Selected}
  BY <1>1, SelectedIs
<1> DEFINE m == apply_select(fetch_manifest)
           rows == [r \in Selected |-> IF r \in Claims(Selected) THEN "queued" ELSE "failed"]
<1>3. run' = [step |-> "rows", manifest |-> m, rows |-> rows]
  BY DEF Start
<1>4. rows \in [Selected -> RowSteps] /\ DOMAIN rows = Selected
      /\ \A r \in Selected : rows[r] = IF r \in Claims(Selected) THEN "queued" ELSE "failed"
  BY DEF RowSteps
<1> HIDE DEF m, rows
<1>5. run' \in Runs
  BY <1>2, <1>3, <1>4 DEF Runs, m
<1> QED
  BY <1>2, <1>3, <1>4, <1>5 DEF Start, m

LEMMA StartTypes ==
  ASSUME TypeInv, Start
  PROVE  TypeInv'
<1>1. upstream \in [Releases -> 0..MaxBuild]
  BY DEF TypeInv, TypesOK
<1>2. Selected' = Selected
  BY StartIs DEF Selected, apply_select, fetch_manifest
<1>3. ReleasesOf(run'.manifest) = Selected
  <2>1. run'.manifest = apply_select(fetch_manifest)
    BY DEF Start
  <2> QED
    BY <2>1 DEF Selected
<1>4. \A a \in run'.manifest : a[2] <= upstream[a[1]]
  <2> SUFFICES ASSUME NEW r \in Selected PROVE upstream[r] <= upstream[r]
    BY StartIs
  <2> QED
    BY <1>1, StartIs, BoundAssumption
<1>5. run'.manifest # {}
  BY StartIs
<1>6. run'.step \notin TailSteps /\ run'.step \notin Puts
  BY StartIs, TailIs
<1>7. RunOK'
  BY <1>2, <1>3, <1>4, <1>5, <1>6, StartIs DEF RunOK
<1> QED
  BY <1>7, StartIs DEF TypeInv, TypesOK

\* What the tree is once there is something else on one of its paths.
LEMMA TreeWrite ==
  ASSUME TypesOK, NEW p, NEW object \in Objects
  PROVE  /\ [tree EXCEPT !.archives[p] = object] \in Trees
         /\ [tree EXCEPT !.archives[p] = object].snapshots = tree.snapshots
         /\ [tree EXCEPT !.archives[p] = object].dist = tree.dist
         /\ p \in Paths => [tree EXCEPT !.archives[p] = object].archives[p] = object
         /\ \A q \in Paths : q # p => [tree EXCEPT !.archives[p] = object].archives[q] = tree.archives[q]
BY DEF TypesOK, Trees

\* What a step of one row does to the tree.
LEMMA RowTree ==
  ASSUME TypeInv, NEW r \in DOMAIN run.rows,
         Probe(r) \/ Reuse(r) \/ Download(r) \/ FailDownload(r) \/ Upload(r)
  PROVE  \E object \in Objects : tree' = tree \/ tree' = [tree EXCEPT !.archives[Path(r)] = object]
<1>1. Nothing \in Objects /\ Broken \in Objects
  BY DEF Objects
<1>2. r \in Releases /\ r \in Selected
  BY DEF TypeInv, TypesOK, RunOK, Runs
<1>3. <<r, upstream[r]>> \in Objects
  <2>1. upstream[r] \in 1..MaxBuild
    BY <1>2, SelectedIs, BoundAssumption DEF TypeInv, TypesOK
  <2> QED
    BY <1>2, <2>1 DEF Objects, Archives
<1>4. CASE Download(r)
  BY <1>3, <1>4 DEF Download
<1>5. CASE FailDownload(r)
  BY <1>1, <1>5 DEF FailDownload
<1>6. CASE Reuse(r)
  BY <1>1, <1>6 DEF Reuse
<1>7. CASE tree' = discard_staged(Path(r))
  <2>1. CASE retain_archives_resolved
    <3>1. tree' = tree
      BY <1>7, <2>1 DEF discard_staged, TypeInv, TypesOK, Trees
    <3> QED
      BY <1>1, <3>1
  <2>2. CASE ~retain_archives_resolved
    BY <1>1, <1>7, <2>2 DEF discard_staged
  <2> QED
    BY <2>1, <2>2
<1> QED
  BY <1>1, <1>4, <1>5, <1>6, <1>7 DEF Probe, Upload

\* ... and to the row.
LEMMA RowBecomes ==
  ASSUME TypeInv, NEW r \in DOMAIN run.rows,
         Probe(r) \/ Reuse(r) \/ Download(r) \/ FailDownload(r) \/ Upload(r)
  PROVE  /\ run.step = "rows" /\ UNCHANGED <<spec, upstream>>
         /\ \E state \in RowSteps : Becomes(r, state)
         /\ run' \in Runs /\ RunOK'
<1>1. run.step = "rows" /\ UNCHANGED <<spec, upstream>>
  BY DEF Probe, Reuse, Download, FailDownload, Upload, Fetching
<1>2. \E state \in RowSteps : Becomes(r, state)
  <2>1. CASE Probe(r)
    BY <2>1 DEF Probe, Held, RowSteps
  <2>2. CASE ~Probe(r)
    BY <2>2 DEF Reuse, Download, FailDownload, Upload, Fetched, RowSteps
  <2> QED
    BY <2>1, <2>2
<1> QED
  BY <1>1, <1>2, RowStepOK

LEMMA RowTypes ==
  ASSUME TypeInv, NEW r \in DOMAIN run.rows,
         Probe(r) \/ Reuse(r) \/ Download(r) \/ FailDownload(r) \/ Upload(r)
  PROVE  TypeInv'
<1>1. UNCHANGED <<spec, upstream>> /\ run' \in Runs /\ RunOK'
  BY RowBecomes
<1>2. tree' \in Trees /\ tree'.dist = tree.dist
  <2>1. PICK object \in Objects : tree' = tree \/ tree' = [tree EXCEPT !.archives[Path(r)] = object]
    BY RowTree
  <2>2. TypesOK /\ tree \in Trees
    BY DEF TypeInv, TypesOK
  <2>3. CASE tree' = [tree EXCEPT !.archives[Path(r)] = object]
    <3> DEFINE new == [tree EXCEPT !.archives[Path(r)] = object]
    <3>1. new \in Trees /\ new.dist = tree.dist
      BY <2>2, TreeWrite
    <3> HIDE DEF new
    <3> QED
      BY <2>3, <3>1 DEF new
  <2> QED
    BY <2>1, <2>2, <2>3
<1>3. store' \in Stores /\ store'.dist = store.dist
  BY UploadedIs DEF Probe, Reuse, Download, FailDownload, Upload, TypeInv, TypesOK
<1>4. faults' \in 0..MaxFaults
  BY BoundAssumption DEF Probe, Reuse, Download, FailDownload, Upload, Failure, TypeInv, TypesOK
<1> QED
  BY <1>1, <1>2, <1>3, <1>4 DEF TypeInv, TypesOK

\* The tree of a run that was cut short.
LEMMA AbortIs ==
  ASSUME TypeInv, Abort
  PROVE  \E arrived \in SUBSET In({"staged"}), cut \in SUBSET In({"retain", "fetch"}) :
           /\ \A r \in cut : Staged(r) # Row(r)
           /\ store' = Uploaded(arrived)
           /\ tree' \in Trees /\ tree'.snapshots \subseteq tree.snapshots
           /\ tree'.dist \subseteq tree.dist /\ (tree'.dist = tree.dist \/ tree'.dist = {})
           /\ \A p \in Paths : tree'.archives[p] =
                IF \E r \in cut : Path(r) = p THEN Broken ELSE tree.archives[p]
<1>1. PICK arrived \in SUBSET In({"staged"}), cut \in SUBSET In({"retain", "fetch"}),
           torn \in SUBSET ({run.step} \cap {"snapshot", "dist"}) :
         /\ \A r \in cut : Staged(r) # Row(r)
         /\ store' = Uploaded(arrived)
         /\ tree' = Torn([archives |-> [p \in Paths |->
                              IF \E r \in cut : Path(r) = p THEN Broken ELSE tree.archives[p]],
                          snapshots |-> tree.snapshots, dist |-> tree.dist], torn)
  BY DEF Abort
<1> DEFINE new == [p \in Paths |-> IF \E r \in cut : Path(r) = p THEN Broken ELSE tree.archives[p]]
           files == [archives |-> new, snapshots |-> tree.snapshots, dist |-> tree.dist]
<1>2. /\ new \in [Paths -> Objects]
      /\ \A p \in Paths : new[p] = IF \E r \in cut : Path(r) = p THEN Broken ELSE tree.archives[p]
  BY DEF TypeInv, TypesOK, Trees, Objects
<1> HIDE DEF new
<1>3. files \in Trees
  BY <1>2 DEF TypeInv, TypesOK, Trees
<1>4. /\ Torn(files, torn) \in Trees /\ Torn(files, torn).archives = new
      /\ Torn(files, torn).snapshots \subseteq tree.snapshots
      /\ Torn(files, torn).dist = tree.dist \/ Torn(files, torn).dist = {}
  BY <1>3 DEF Torn, Trees
<1>5. tree' = Torn(files, torn)
  BY <1>1 DEF new
<1>6. /\ tree' \in Trees /\ tree'.snapshots \subseteq tree.snapshots
      /\ tree'.dist \subseteq tree.dist /\ (tree'.dist = tree.dist \/ tree'.dist = {})
      /\ tree'.archives = new
  BY <1>4, <1>5
<1>7. \A p \in Paths : tree'.archives[p] =
         IF \E r \in cut : Path(r) = p THEN Broken ELSE tree.archives[p]
  BY <1>2, <1>6
<1> QED
  BY <1>1, <1>6, <1>7

LEMMA AbortTypes ==
  ASSUME TypeInv, Abort
  PROVE  TypeInv'
<1>1. run' \in Runs /\ RunOK'
  BY EndedRun DEF Abort
<1>2. tree' \in Trees /\ Cardinality(tree'.dist) <= 1
  BY AbortIs, FS_EmptySet DEF TypeInv, TypesOK
<1>3. store' \in Stores /\ store'.dist = store.dist
  BY AbortIs, UploadedIs DEF TypeInv
<1>4. faults' \in 0..MaxFaults
  BY BoundAssumption DEF Abort, Failure, TypeInv, TypesOK
<1> QED
  BY <1>1, <1>2, <1>3, <1>4 DEF TypeInv, TypesOK, Abort

\* A run that goes on to a later step.
LEMMA NextStepOK ==
  ASSUME TypeInv, NEW step \in TailSteps, run' = [run EXCEPT !.step = step],
         run.step # "idle", \A r \in DOMAIN run.rows : run.rows[r] = "done",
         step \in Puts => spec.upload, UNCHANGED <<spec, upstream>>
  PROVE  /\ run' \in Runs /\ RunOK' /\ run'.step = step
         /\ run'.manifest = run.manifest /\ run'.rows = run.rows
<1>1. /\ run' \in Runs /\ run'.step = step
      /\ run'.manifest = run.manifest /\ run'.rows = run.rows
  BY DEF TypeInv, TypesOK, Runs
<1>2. Selected' = Selected
  BY DEF Selected, apply_select, fetch_manifest
<1>3. step # "idle"
  BY TailIs
<1> QED
  BY <1>1, <1>2, <1>3 DEF TypeInv, RunOK

LEMMA EndRowsTypes ==
  ASSUME TypeInv, EndRows
  PROVE  /\ TypeInv' /\ UNCHANGED <<spec, upstream, store, tree>>
         /\ \/ run' = NoRun
            \/ /\ run'.step = "snapshot" /\ run'.manifest = run.manifest
               /\ run'.rows = run.rows
<1>1. UNCHANGED <<spec, upstream, store, tree, faults>>
  BY DEF EndRows
<1>2. /\ run' \in Runs /\ RunOK'
      /\ \/ run' = NoRun
         \/ /\ run'.step = "snapshot" /\ run'.manifest = run.manifest
            /\ run'.rows = run.rows
  <2>1. CASE run' = NoRun
    BY <2>1, EndedRun
  <2>2. CASE Complete /\ run' = [run EXCEPT !.step = "snapshot"]
    <3>1. \A r \in DOMAIN run.rows : run.rows[r] = "done"
      BY <2>2 DEF EndRows, Complete, In
    <3>2. run.step # "idle"
      BY DEF EndRows
    <3> QED
      BY <1>1, <2>2, <3>1, <3>2, NextStepOK, TailIs
  <2> QED
    BY <2>1, <2>2 DEF EndRows
<1> QED
  BY <1>1, <1>2 DEF TypeInv, TypesOK

\* What the run is after a document.
LEMMA AfterTypes ==
  ASSUME TypeInv, run.step \in TailSteps, run' = After(run.step), UNCHANGED <<spec, upstream>>
  PROVE  /\ run' \in Runs /\ RunOK'
         /\ \/ run' = NoRun
            \/ /\ run.step # "put_rolling" /\ run'.step = Following[run.step]
               /\ run'.manifest = run.manifest /\ run'.rows = run.rows
<1>1. CASE run' = NoRun
  BY <1>1, EndedRun
<1>2. CASE /\ run' = [run EXCEPT !.step = Following[run.step]]
           /\ run.step # "put_rolling" /\ (run.step = "dist" => spec.upload)
           /\ Following[run.step] \in TailSteps
  <2>1. run.step # "idle" /\ \A r \in DOMAIN run.rows : run.rows[r] = "done"
    BY TailIs DEF TypeInv, RunOK
  <2>2. Following[run.step] \in Puts => run.step = "dist" \/ run.step \in Puts
    BY <1>2, TailIs DEF Following
  <2>3. Following[run.step] \in Puts => spec.upload
    BY <1>2, <2>2 DEF TypeInv, RunOK
  <2> QED
    BY <1>2, <2>1, <2>3, NextStepOK
<1> QED
  BY <1>1, <1>2, AfterIs

LEMMA WriteTreeTypes ==
  ASSUME TypeInv, WriteTree
  PROVE  TypeInv'
<1>1. /\ run.step \in TailSteps /\ run' = After(run.step)
      /\ UNCHANGED <<spec, upstream, store, faults>>
  BY TailIs DEF WriteTree
<1>2. run' \in Runs /\ RunOK'
  BY <1>1, AfterTypes
<1>3. run.manifest \in Manifests
  BY DEF TypeInv, TypesOK, Runs
<1>4. tree' \in Trees /\ Cardinality(tree'.dist) <= 1
  <2>1. tree \in Trees /\ Cardinality(tree.dist) <= 1
    BY DEF TypeInv, TypesOK
  <2>2. Cardinality({run.manifest}) = 1
    BY FS_Singleton
  <2> QED
    BY <1>3, <2>1, <2>2 DEF WriteTree, Trees
<1> QED
  BY <1>1, <1>2, <1>4 DEF TypeInv, TypesOK

\* What the store is once a document is in it.
LEMMA WithIs ==
  ASSUME TypeInv
  PROVE  /\ With(run.step) \in Stores /\ Cardinality(With(run.step).dist) <= 1
         /\ With(run.step).archives = store.archives
<1>1. store \in Stores /\ Cardinality(store.dist) <= 1 /\ run.manifest \in Manifests
  BY DEF TypeInv, TypesOK, Runs
<1>2. Cardinality({run.manifest}) = 1
  BY FS_Singleton
<1>3. CASE With(run.step) = store
  BY <1>1, <1>3
<1>4. CASE With(run.step) = [store EXCEPT !.snapshots = @ \cup {run.manifest}]
  BY <1>1, <1>4 DEF Stores
<1>5. CASE With(run.step) = [store EXCEPT !.dist = {run.manifest}]
  BY <1>1, <1>2, <1>5 DEF Stores
<1>6. CASE With(run.step) = [store EXCEPT !.pinned = @ \cup {run.manifest}]
  BY <1>1, <1>6 DEF Stores
<1>7. CASE With(run.step) = [store EXCEPT !.version[latest(run.manifest)] = {run.manifest}]
  BY <1>1, <1>7 DEF Stores
<1>8. CASE With(run.step) = [store EXCEPT !.rolling = TRUE]
  BY <1>1, <1>8 DEF Stores
<1> QED
  BY <1>3, <1>4, <1>5, <1>6, <1>7, <1>8 DEF With, upload_manifest, upload_installers, Placed

LEMMA PutTypes ==
  ASSUME TypeInv, Put
  PROVE  TypeInv'
<1>1. /\ run.step \in TailSteps /\ run' = After(run.step) /\ store' = With(run.step)
      /\ UNCHANGED <<spec, upstream, tree, faults>>
  BY DEF Put, Order
<1> QED
  BY <1>1, AfterTypes, WithIs DEF TypeInv, TypesOK

LEMMA NextTypes ==
  ASSUME TypeInv, [Next]_vars
  PROVE  TypeInv'
<1>1. CASE UNCHANGED vars
  BY <1>1 DEF vars, TypeInv, TypesOK, RunOK, Selected, apply_select, fetch_manifest
<1> QED
  BY <1>1, UpstreamTypes, LoseTreeTypes, StartTypes, RowTypes, AbortTypes, EndRowsTypes,
     WriteTreeTypes, PutTypes DEF Next, RunStep

\* The store, the tree and the run keep their types: no manifest names two archives of a
\* release, and `dist.json` is one manifest.
THEOREM TypeCorrect == Spec => []TypeOK
<1>1. Init => TypeInv
  BY InitTypes
<1>2. TypeInv /\ [Next]_vars => TypeInv'
  BY NextTypes
<1>3. TypeInv => TypeOK
  <2> SUFFICES ASSUME TypeInv PROVE TypeOK
    OBVIOUS
  <2>1. PICK rows \in SUBSET Releases : run.rows \in [rows -> RowSteps]
    BY DEF TypeInv, TypesOK, Runs
  <2> QED
    BY <2>1 DEF TypeInv, TypesOK, RunOK, TypeOK, Stores, Trees, Runs
<1> QED
  BY <1>1, <1>2, <1>3, PTL DEF Spec

-----------------------------------------------------------------------------
(* What is served resolves.                                                   *)

Live == In(RowSteps \ {"failed"})

\* Rows that were not refused have paths of their own.
PathsApart ==
    \A r \in Live :
        /\ Path(r) \in Paths /\ Path(r) \notin claims
        /\ \A s \in Live : Path(s) = Path(r) => s = r

\* What a row has behind it at each of its steps.
RowsHold ==
    \A r \in DOMAIN run.rows :
        /\ run.rows[r] \in {"fetch", "staged"} => spec.upload
        /\ run.rows[r] = "staged" => Staged(r) = Row(r)
        /\ run.rows[r] \in {"retain", "done"} /\ spec.upload => Vouched(Stored(r), Row(r))
        /\ run.rows[r] = "done" /\ retain_archives_resolved => Staged(r) = Row(r)

Named == store.snapshots \cup store.dist \cup tree.snapshots \cup tree.dist

\* What a manifest names is no newer than upstream, and what it names that upstream still
\* has is what the run under way is mirroring.
NamedOK ==
    \A m \in Named :
        /\ m # {}
        /\ \A a \in m :
             /\ Path(a[1]) \in Paths /\ a[2] <= upstream[a[1]]
             /\ a[1] \in DOMAIN run.rows /\ Current(a) => Row(a[1]) = a

\* A document is in the store before the ones that name it.
OrderOK ==
    /\ run.step \in {"put_dist", "put_pinned", "put_version", "put_rolling"} /\ spec.snapshots
          => run.manifest \in store.snapshots
    /\ run.step \in {"put_pinned", "put_version", "put_rolling"} /\ spec.path => store.dist # {}

ServedInv == TypeInv /\ PathsApart /\ RowsHold /\ NamedOK /\ OrderOK /\ ServedResolves

LEMMA NamedTypes ==
  ASSUME TypeInv, NEW m \in Named
  PROVE  m \in Manifests /\ m \subseteq Archives
BY DEF Named, TypeInv, TypesOK, Stores, Trees, Manifests

LEMMA VouchedFor ==
  ASSUME NEW a \in Archives
  PROVE  Vouched(a, a)
BY ArchiveTypes DEF Vouched

LEMMA RowsAre ==
  ASSUME TypeInv
  PROVE  /\ \A r \in DOMAIN run.rows :
              /\ r \in Selected /\ r \in Releases
              /\ Row(r) \in run.manifest /\ Row(r) \in Archives /\ Row(r)[1] = r
         /\ \A a \in run.manifest : a[1] \in DOMAIN run.rows /\ Row(a[1]) = a
BY RowIs DEF TypeInv, TypesOK, RunOK, Runs

\* Uploads of staged files disturb nothing that is served.
LEMMA UploadServes ==
  ASSUME ServedInv, NEW rows, rows \subseteq In({"staged"}), store' = Uploaded(rows),
         UNCHANGED <<spec, upstream>>
  PROVE  /\ StoreResolves'
         /\ \A r \in rows : store'.archives[Path(r)] = Row(r)
         /\ \A p \in Paths : (\A r \in rows : Path(r) # p) => store'.archives[p] = store.archives[p]
         /\ UNCHANGED <<store.snapshots, store.dist>>
<1> USE DEF ServedInv
<1>1. ASSUME NEW r \in rows
      PROVE  /\ r \in Live /\ r \in DOMAIN run.rows /\ r \in Selected /\ Row(r) \in Archives
             /\ Path(r) \in Paths /\ Path(r) \notin claims /\ Staged(r) = Row(r)
  <2>1. r \in DOMAIN run.rows /\ run.rows[r] = "staged"
    BY DEF In
  <2>2. r \in Live
    BY <2>1 DEF Live, In, RowSteps
  <2> QED
    BY <2>1, <2>2, RowsAre DEF PathsApart, RowsHold
<1>2. /\ UNCHANGED <<store.snapshots, store.dist, store.pinned, store.version, store.rolling>>
      /\ \A p \in Paths : store'.archives[p] =
           IF \E r \in rows : Path(r) = p THEN tree.archives[p] ELSE store.archives[p]
  BY UploadedIs DEF TypeInv
<1>3. \A r \in rows : store'.archives[Path(r)] = Row(r)
  BY <1>1, <1>2 DEF Staged
<1>4. \A p \in Paths : (\A r \in rows : Path(r) # p) => store'.archives[p] = store.archives[p]
  BY <1>2
<1>5. ASSUME NEW m \in store.snapshots \cup store.dist, NEW a \in m, Current(a), Alone(a[1])
      PROVE  Vouched(store'.archives[Path(a[1])], a)
  <2>1. m \in Named /\ a \in Archives /\ Path(a[1]) \in Paths
    BY <1>5, NamedTypes DEF Named, NamedOK
  <2>2. CASE \A r \in rows : Path(r) # Path(a[1])
    <3>1. Vouched(Stored(a[1]), a)
      BY <1>5 DEF ServedResolves, StoreResolves
    <3> QED
      BY <1>4, <2>1, <2>2, <3>1 DEF Stored
  <2>3. ASSUME NEW r \in rows, Path(r) = Path(a[1])
        PROVE  Vouched(store'.archives[Path(a[1])], a)
    <3>1. r = a[1]
      BY <1>1, <1>5, <2>3 DEF Alone
    <3>2. Row(r) = a
      BY <1>1, <1>5, <2>1, <3>1 DEF NamedOK
    <3> QED
      BY <1>3, <2>1, <2>3, <3>2, VouchedFor
  <2> QED
    BY <2>2, <2>3
<1>6. spec.installers => store'.archives[Script] \notin Archives
  <2>1. spec.installers => \A r \in rows : Path(r) # Script
    BY <1>1 DEF claims
  <2>2. Script \in Paths
    BY BoundAssumption
  <2> QED
    BY <1>4, <2>1, <2>2 DEF ServedResolves, StoreResolves
<1>7. StoreResolves'
  <2>1. \A m \in store.snapshots \cup store.dist : m # {}
    BY DEF ServedResolves, StoreResolves
  <2>2. \A m \in store'.snapshots \cup store'.dist :
           m # {} /\ \A a \in m : Current(a) /\ Alone(a[1]) =>
              Vouched(store'.archives[Path(a[1])], a)
    BY <1>2, <1>5, <2>1
  <2>3. \A m \in store'.snapshots \cup store'.dist :
           m # {} /\ \A a \in m : Current(a)' /\ Alone(a[1])' => Vouched(Stored(a[1]), a)'
    BY <2>2 DEF Current, Alone, Selected, ReleasesOf, apply_select, fetch_manifest, Path, Stored, Vouched
  <2> QED
    BY <1>2, <1>6, <2>3 DEF ServedResolves, StoreResolves
<1> QED
  BY <1>2, <1>3, <1>4, <1>7

\* Neither do writes under the paths of rows that are being fetched.
LEMMA FetchServes ==
  ASSUME ServedInv, NEW cut, cut \subseteq In({"retain", "fetch"}),
         \A r \in cut : Staged(r) # Row(r),
         retain_archives_resolved =>
            \A p \in Paths : (\A r \in cut : Path(r) # p) => tree'.archives[p] = tree.archives[p],
         tree'.snapshots \subseteq tree.snapshots, tree'.dist \subseteq tree.dist,
         UNCHANGED <<spec, upstream>>
  PROVE  TreeResolves'
<1> USE DEF ServedInv
<1>1. ASSUME retain_archives_resolved,
             NEW m \in tree.snapshots \cup tree.dist, NEW a \in m, Current(a), Alone(a[1])
      PROVE  tree'.archives[Path(a[1])] = a
  <2>1. m \in Named /\ a \in Archives /\ Path(a[1]) \in Paths
    BY <1>1, NamedTypes DEF Named, NamedOK
  <2>2. Staged(a[1]) = a
    BY <1>1 DEF ServedResolves, TreeResolves
  <2>3. ASSUME NEW r \in cut, Path(r) = Path(a[1])
        PROVE  FALSE
    <3>1. r \in DOMAIN run.rows /\ r \in Selected
      BY RowsAre DEF In
    <3>2. r = a[1]
      BY <1>1, <2>3, <3>1 DEF Alone
    <3>3. Row(r) = a
      BY <1>1, <2>1, <3>1, <3>2 DEF NamedOK
    <3> QED
      BY <2>2, <3>2, <3>3
  <2> QED
    BY <1>1, <2>1, <2>2, <2>3 DEF Staged
<1> QED
  BY <1>1 DEF TreeResolves, Current, Alone, Selected, ReleasesOf, apply_select, fetch_manifest, Path,
              Staged, retain_archives_resolved

\* The run is over, and no manifest is new.
LEMMA EndedServed ==
  ASSUME NamedOK, run' = NoRun, Named' \subseteq Named, UNCHANGED <<spec, upstream>>
  PROVE  PathsApart' /\ RowsHold' /\ NamedOK' /\ OrderOK'
<1>1. DOMAIN run'.rows = {} /\ run'.step = "idle"
  BY NoRunTypes
<1> QED
  BY <1>1 DEF PathsApart, RowsHold, NamedOK, OrderOK, Live, In, Current, Path

\* What is to be shown of a row when it goes on.
LEMMA RowServed ==
  ASSUME ServedInv, run.step = "rows", NEW r \in Live, NEW state \in RowSteps, Becomes(r, state),
         UNCHANGED <<spec, upstream>>, Named' \subseteq Named,
         \A p \in Paths : p # Path(r) => /\ tree'.archives[p] = tree.archives[p]
                                         /\ store'.archives[p] = store.archives[p],
         state \in {"fetch", "staged"} => spec.upload,
         state \in {"retain", "done"} /\ spec.upload => Vouched(store'.archives[Path(r)], Row(r)),
         state = "staged" \/ (state = "done" /\ retain_archives_resolved)
            => tree'.archives[Path(r)] = Row(r)
  PROVE  PathsApart' /\ RowsHold' /\ NamedOK' /\ OrderOK'
<1> USE DEF ServedInv
<1>1. r \in DOMAIN run.rows /\ run.rows[r] # "failed"
  BY DEF Live, In
<1>2. /\ run'.step = "rows" /\ run'.manifest = run.manifest
      /\ DOMAIN run'.rows = DOMAIN run.rows /\ run'.rows[r] = state
      /\ \A s \in DOMAIN run.rows : s # r => run'.rows[s] = run.rows[s]
  BY <1>1, BecomesIs DEF TypeInv, TypesOK
<1>3. Live' \subseteq Live
  BY <1>1, <1>2 DEF Live, In, TypeInv, TypesOK, Runs
<1>4. PathsApart'
  BY <1>3 DEF PathsApart, Path, claims
<1>5. \A s \in DOMAIN run.rows : Row(s)' = Row(s)
  BY <1>2 DEF Row
<1>6. ASSUME NEW s \in DOMAIN run.rows, s # r, run.rows[s] # "failed"
      PROVE  Path(s) \in Paths /\ Staged(s)' = Staged(s) /\ Stored(s)' = Stored(s)
  <2>1. s \in Live
    BY <1>6 DEF Live, In, TypeInv, TypesOK, Runs
  <2>2. Path(s) \in Paths /\ Path(s) # Path(r)
    BY <1>6, <2>1 DEF PathsApart
  <2> QED
    BY <2>2 DEF Staged, Stored, Path
<1>7. RowsHold'
  <2> SUFFICES ASSUME NEW s \in DOMAIN run.rows
               PROVE  /\ run'.rows[s] \in {"fetch", "staged"} => spec.upload
                      /\ run'.rows[s] = "staged" => Staged(s)' = Row(s)
                      /\ run'.rows[s] \in {"retain", "done"} /\ spec.upload => Vouched(Stored(s)', Row(s))
                      /\ run'.rows[s] = "done" /\ retain_archives_resolved => Staged(s)' = Row(s)
    BY <1>2, <1>5 DEF RowsHold, retain_archives_resolved, Vouched
  <2>1. CASE s = r
    BY <1>2, <2>1 DEF Staged, Stored, Path
  <2>2. CASE s # r
    BY <1>2, <1>6, <2>2 DEF RowsHold
  <2> QED
    BY <2>1, <2>2
<1>8. NamedOK'
  BY <1>2, <1>5 DEF NamedOK, Current, Path
<1>9. OrderOK'
  BY <1>2 DEF OrderOK
<1> QED
  BY <1>4, <1>7, <1>8, <1>9

\* Nothing is served anew, and nothing that is served is taken away.
LEMMA StoreKept ==
  ASSUME ServedInv, UNCHANGED <<spec, upstream, store>>
  PROVE  StoreResolves'
BY DEF ServedInv, ServedResolves, StoreResolves, Current, Alone, Selected, ReleasesOf, apply_select,
       fetch_manifest, Path, Stored, Vouched

LEMMA TreeKept ==
  ASSUME ServedInv, UNCHANGED <<spec, upstream, tree.snapshots, tree.dist>>,
         retain_archives_resolved => tree'.archives = tree.archives
  PROVE  TreeResolves'
BY DEF ServedInv, ServedResolves, TreeResolves, Current, Alone, Selected, ReleasesOf, apply_select,
       fetch_manifest, Path, Staged, retain_archives_resolved

LEMMA ProbeServed ==
  ASSUME ServedInv, NEW r \in DOMAIN run.rows, Probe(r)
  PROVE  ServedInv'
<1> USE DEF ServedInv
<1>1. TypeInv'
  BY RowTypes
<1>2. /\ run.step = "rows" /\ run.rows[r] = "queued" /\ UNCHANGED <<spec, upstream, store>>
  BY DEF Probe
<1>3. r \in Live /\ Path(r) \in Paths
  BY <1>2 DEF Live, In, RowSteps, PathsApart
<1> DEFINE held == spec.upload /\ Vouched(Stored(r), Row(r))
<1>4. PICK state \in IF held THEN Held ELSE {IF spec.upload THEN "fetch" ELSE "retain"} :
         Becomes(r, state)
  BY DEF Probe
<1>5. tree' = IF held THEN discard_staged(Path(r)) ELSE tree
  BY DEF Probe
<1>6. state \in RowSteps /\ state \in {"fetch", "retain", "done"}
  BY <1>4 DEF Held, RowSteps
<1>7. /\ state = "fetch" => spec.upload
      /\ state \in {"retain", "done"} /\ spec.upload => held
      /\ state = "done" => ~retain_archives_resolved
  BY <1>4 DEF Held
<1>8. /\ UNCHANGED <<tree.snapshots, tree.dist>>
      /\ retain_archives_resolved => tree'.archives = tree.archives
      /\ \A p \in Paths : p # Path(r) => tree'.archives[p] = tree.archives[p]
  BY <1>3, <1>5, DiscardIs DEF TypeInv
<1>9. Named' = Named
  BY <1>2, <1>8 DEF Named
<1>10. PathsApart' /\ RowsHold' /\ NamedOK' /\ OrderOK'
  BY <1>2, <1>3, <1>4, <1>6, <1>7, <1>8, <1>9, RowServed DEF Stored
<1>11. StoreResolves' /\ TreeResolves'
  BY <1>2, <1>8, StoreKept, TreeKept
<1> QED
  BY <1>1, <1>10, <1>11 DEF ServedResolves

LEMMA FetchServed ==
  ASSUME ServedInv, NEW r \in DOMAIN run.rows, Reuse(r) \/ Download(r) \/ FailDownload(r)
  PROVE  ServedInv'
<1> USE DEF ServedInv
<1>1. TypeInv'
  BY RowTypes
<1>2. /\ run.step = "rows" /\ run.rows[r] \in {"retain", "fetch"} /\ UNCHANGED <<spec, upstream, store>>
  BY DEF Reuse, Download, FailDownload, Fetching
<1>3. r \in Live /\ Path(r) \in Paths
  BY <1>2 DEF Live, In, RowSteps, PathsApart
<1>4. spec.upload /\ run.rows[r] = "retain" => Vouched(store'.archives[Path(r)], Row(r))
  BY <1>2 DEF RowsHold, Stored
<1>5. run.rows[r] = "fetch" => spec.upload
  BY DEF RowsHold
<1>6. StoreResolves'
  BY <1>2, StoreKept
<1>7. CASE Reuse(r)
  <2>1. UNCHANGED tree /\ Staged(r) = Row(r)
    BY <1>7 DEF Reuse
  <2>2. PICK state \in RowSteps : Becomes(r, state) /\ state = IF run.rows[r] = "retain" THEN "done" ELSE "staged"
    BY <1>7 DEF Reuse, Fetched, RowSteps
  <2>3. Named' = Named
    BY <1>2, <2>1 DEF Named
  <2>4. PathsApart' /\ RowsHold' /\ NamedOK' /\ OrderOK'
    BY <1>2, <1>3, <1>4, <1>5, <2>1, <2>2, <2>3, RowServed DEF Staged
  <2>5. TreeResolves'
    BY <1>2, <2>1, TreeKept
  <2> QED
    BY <1>1, <1>6, <2>4, <2>5 DEF ServedResolves
<1>8. ASSUME NEW object \in Objects, NEW state \in RowSteps, Becomes(r, state), Staged(r) # Row(r),
             tree' = [tree EXCEPT !.archives[Path(r)] = object],
             \/ state = "failed"
             \/ object = Row(r) /\ state = IF run.rows[r] = "retain" THEN "done" ELSE "staged"
      PROVE  ServedInv'
  <2>1. /\ UNCHANGED <<tree.snapshots, tree.dist>> /\ tree'.archives[Path(r)] = object
        /\ \A p \in Paths : p # Path(r) => tree'.archives[p] = tree.archives[p]
    BY <1>3, <1>8, TreeWrite DEF TypeInv, TypesOK, Trees
  <2>2. Named' = Named
    BY <1>2, <2>1 DEF Named
  <2>3. PathsApart' /\ RowsHold' /\ NamedOK' /\ OrderOK'
    BY <1>2, <1>3, <1>4, <1>5, <1>8, <2>1, <2>2, RowServed
  <2>4. TreeResolves'
    <3> DEFINE cut == {r}
    <3>1. cut \subseteq In({"retain", "fetch"})
      BY <1>2 DEF In
    <3>2. \A s \in cut : Staged(s) # Row(s)
      BY <1>8
    <3>3. \A p \in Paths : (\A s \in cut : Path(s) # p) => tree'.archives[p] = tree.archives[p]
      BY <2>1
    <3>4. tree'.snapshots \subseteq tree.snapshots /\ tree'.dist \subseteq tree.dist
      BY <2>1
    <3> HIDE DEF cut
    <3> QED
      BY <1>2, <3>1, <3>2, <3>3, <3>4, FetchServes
  <2> QED
    BY <1>1, <1>6, <2>3, <2>4 DEF ServedResolves
<1>9. CASE Download(r)
  <2> DEFINE object == <<r, upstream[r]>>
             state == IF object # Row(r) THEN "failed"
                      ELSE IF run.rows[r] = "retain" THEN "done" ELSE "staged"
  <2>1. object \in Objects
    <3>1. r \in Selected
      BY RowsAre
    <3>2. r \in Releases /\ upstream[r] \in 1..MaxBuild
      BY <3>1, SelectedIs, BoundAssumption DEF TypeInv, TypesOK
    <3> QED
      BY <3>2 DEF Objects, Archives
  <2>2. Becomes(r, state) /\ state \in RowSteps
    BY <1>9 DEF Download, Fetched, RowSteps
  <2>3. Staged(r) # Row(r) /\ tree' = [tree EXCEPT !.archives[Path(r)] = object]
    BY <1>9 DEF Download
  <2>4. \/ state = "failed"
        \/ object = Row(r) /\ state = IF run.rows[r] = "retain" THEN "done" ELSE "staged"
    OBVIOUS
  <2> HIDE DEF object, state
  <2> QED
    BY <1>8, <2>1, <2>2, <2>3, <2>4
<1>10. CASE FailDownload(r)
  <2>1. Broken \in Objects /\ "failed" \in RowSteps
    BY DEF Objects, RowSteps
  <2> QED
    BY <1>8, <1>10, <2>1 DEF FailDownload
<1> QED
  BY <1>7, <1>9, <1>10

LEMMA UploadServed ==
  ASSUME ServedInv, NEW r \in DOMAIN run.rows, Upload(r)
  PROVE  ServedInv'
<1> USE DEF ServedInv
<1>1. TypeInv'
  BY RowTypes
<1>2. /\ run.step = "rows" /\ run.rows[r] = "staged" /\ UNCHANGED <<spec, upstream>>
      /\ store' = Uploaded({r}) /\ tree' = discard_staged(Path(r)) /\ Becomes(r, "done")
  BY DEF Upload
<1>3. r \in Live /\ Path(r) \in Paths /\ Staged(r) = Row(r) /\ Row(r) \in Archives
  BY <1>2, RowsAre DEF Live, In, RowSteps, PathsApart, RowsHold
<1>4. {r} \subseteq In({"staged"})
  BY <1>2 DEF In
<1>5. /\ StoreResolves' /\ store'.archives[Path(r)] = Row(r)
      /\ \A p \in Paths : p # Path(r) => store'.archives[p] = store.archives[p]
      /\ UNCHANGED <<store.snapshots, store.dist>>
  BY <1>2, <1>4, UploadServes
<1>6. /\ UNCHANGED <<tree.snapshots, tree.dist>>
      /\ retain_archives_resolved => tree'.archives = tree.archives
      /\ \A p \in Paths : p # Path(r) => tree'.archives[p] = tree.archives[p]
  BY <1>2, <1>3, DiscardIs DEF TypeInv
<1>7. Named' = Named
  BY <1>5, <1>6 DEF Named
<1>8. Vouched(store'.archives[Path(r)], Row(r)) /\ "done" \in RowSteps
  BY <1>3, <1>5, VouchedFor DEF RowSteps
<1>9. retain_archives_resolved => tree'.archives[Path(r)] = Row(r)
  BY <1>3, <1>6 DEF Staged
<1>10. PathsApart' /\ RowsHold' /\ NamedOK' /\ OrderOK'
  BY <1>2, <1>3, <1>5, <1>6, <1>7, <1>8, <1>9, RowServed
<1>11. TreeResolves'
  BY <1>2, <1>6, TreeKept
<1> QED
  BY <1>1, <1>5, <1>10, <1>11 DEF ServedResolves

LEMMA AbortServed ==
  ASSUME ServedInv, Abort
  PROVE  ServedInv'
<1> USE DEF ServedInv
<1>1. TypeInv'
  BY AbortTypes
<1>2. PICK arrived \in SUBSET In({"staged"}), cut \in SUBSET In({"retain", "fetch"}) :
         /\ \A r \in cut : Staged(r) # Row(r)
         /\ store' = Uploaded(arrived)
         /\ tree'.snapshots \subseteq tree.snapshots /\ tree'.dist \subseteq tree.dist
         /\ \A p \in Paths : tree'.archives[p] =
              IF \E r \in cut : Path(r) = p THEN Broken ELSE tree.archives[p]
  BY AbortIs
<1>3. run' = NoRun /\ UNCHANGED <<spec, upstream>>
  BY DEF Abort
<1>4. StoreResolves' /\ UNCHANGED <<store.snapshots, store.dist>>
  BY <1>2, <1>3, UploadServes
<1>5. TreeResolves'
  BY <1>2, <1>3, FetchServes
<1>6. Named' \subseteq Named
  BY <1>2, <1>4 DEF Named
<1> QED
  BY <1>1, <1>3, <1>4, <1>5, <1>6, EndedServed DEF ServedResolves

LEMMA LoseTreeServed ==
  ASSUME ServedInv, LoseTree
  PROVE  ServedInv'
<1> USE DEF ServedInv
<1>1. TypeInv'
  BY LoseTreeTypes
<1>2. /\ run.step = "idle" /\ UNCHANGED <<spec, upstream, store, run>>
      /\ tree'.snapshots = {} /\ tree'.dist = {}
  BY DEF LoseTree
<1>3. DOMAIN run.rows = {}
  BY <1>2 DEF TypeInv, RunOK, ReleasesOf
<1>4. PathsApart' /\ RowsHold' /\ OrderOK'
  BY <1>2, <1>3 DEF PathsApart, RowsHold, OrderOK, Live, In
<1>5. NamedOK'
  <2>1. Named' \subseteq Named
    BY <1>2 DEF Named
  <2> QED
    BY <1>2, <2>1 DEF NamedOK, Current, Path, Row
<1>6. StoreResolves' /\ TreeResolves'
  BY <1>2, StoreKept DEF TreeResolves
<1> QED
  BY <1>1, <1>4, <1>5, <1>6 DEF ServedResolves

\* A release that appears, or is built again, is none that a manifest names.
LEMMA UpstreamServed ==
  ASSUME ServedInv, NEW r \in Releases, Release(r) \/ Rebuild(r)
  PROVE  ServedInv'
<1> USE DEF ServedInv
<1>1. TypeInv' /\ Selected \subseteq Selected'
  BY UpstreamTypes
<1>2. /\ UNCHANGED <<spec, store, tree, run>> /\ upstream'[r] = upstream[r] + 1
      /\ \A s \in Releases : s # r => upstream'[s] = upstream[s]
  BY UpstreamGrows
<1>3. upstream \in [Releases -> Nat]
  BY BoundAssumption DEF TypeInv, TypesOK
<1>4. Named' = Named
  BY <1>2 DEF Named
<1>5. ASSUME NEW m \in Named, NEW a \in m
      PROVE  /\ a[2] <= upstream'[a[1]] /\ (Current(a)' => Current(a))
             /\ (Alone(a[1])' => Alone(a[1]))
  <2>1. a \in Archives /\ a[1] \in Releases /\ a[2] \in Nat
    BY NamedTypes, ArchiveTypes
  <2>2. a[2] <= upstream[a[1]]
    BY DEF NamedOK
  <2>3. a[2] <= upstream'[a[1]] /\ (Current(a)' => Current(a))
    BY <1>2, <1>3, <2>1, <2>2 DEF Current
  <2>4. Alone(a[1])' => Alone(a[1])
    BY <1>1, <1>2 DEF Alone, Path
  <2> QED
    BY <2>3, <2>4
<1>6. PathsApart' /\ RowsHold' /\ OrderOK'
  BY <1>2 DEF PathsApart, RowsHold, OrderOK, Live, In, Path, claims, Staged, Stored, Row, Vouched,
              retain_archives_resolved
<1>7. NamedOK'
  BY <1>2, <1>4, <1>5 DEF NamedOK, Path, Row
<1>8. StoreResolves' /\ TreeResolves'
  <2>1. /\ \A m \in store.snapshots \cup store.dist : m \in Named
        /\ \A m \in tree.snapshots \cup tree.dist : m \in Named
    BY DEF Named
  <2> QED
    BY <1>2, <1>5, <2>1 DEF ServedResolves, StoreResolves, TreeResolves, Path, Stored, Staged, Vouched,
       retain_archives_resolved
<1> QED
  BY <1>1, <1>6, <1>7, <1>8 DEF ServedResolves

LEMMA StartServed ==
  ASSUME ServedInv, Start
  PROVE  ServedInv'
<1> USE DEF ServedInv
<1>1. TypeInv'
  BY StartTypes
<1>2. /\ run' \in Runs /\ run'.step = "rows" /\ run'.manifest = {<<r, upstream[r]>> : r \in Selected}
      /\ DOMAIN run'.rows = Selected /\ Selected \subseteq Releases
      /\ \A r \in Selected : run'.rows[r] = IF r \in Claims(Selected) THEN "queued" ELSE "failed"
      /\ UNCHANGED <<spec, upstream, store, tree, faults>>
  BY StartIs
<1>3. \A r \in Live' : r \in Claims(Selected)
  BY <1>2 DEF Live, In
<1>4. PathsApart'
  <2>1. ASSUME NEW r \in Claims(Selected)
        PROVE  Path(r) \in Paths /\ Path(r) \notin claims
    <3>1. r \in Releases /\ Path(r) \notin claims
      BY <1>2, <2>1 DEF Claims
    <3>2. Path(r) \in Paths \cup {dist}
      BY <3>1, SpecTypes DEF TypeInv, TypesOK, Path
    <3> QED
      BY <3>1, <3>2 DEF claims
  <2>2. ASSUME NEW r \in Claims(Selected), NEW s \in Claims(Selected), Path(s) = Path(r)
        PROVE  s = r
    <3>1. r \in Nat /\ s \in Nat /\ r \in Selected /\ s \in Selected
      BY <1>2, ReleaseAssumption DEF Claims
    <3>2. ~(s > r) /\ ~(r > s)
      BY <2>2, <3>1 DEF Claims
    <3> QED
      BY <3>1, <3>2
  <2> QED
    BY <1>2, <1>3, <2>1, <2>2 DEF PathsApart, Path, claims
<1>5. RowsHold' /\ OrderOK'
  BY <1>2 DEF RowsHold, OrderOK
<1>6. ASSUME NEW m \in Named, NEW a \in m, a[1] \in Selected, Current(a)
      PROVE  Row(a[1])' = a
  <2>1. a \in Archives
    BY <1>6, NamedTypes
  <2>2. a = <<a[1], upstream[a[1]]>>
    BY <1>6, <2>1, ArchiveTypes DEF Current
  <2>3. a \in run'.manifest /\ run'.manifest \in Manifests
    BY <1>2, <1>6, <2>2 DEF Runs
  <2> QED
    BY <2>3, NamedOnce DEF Row
<1>7. NamedOK'
  BY <1>2, <1>6 DEF NamedOK, Named, Current, Path
<1>8. StoreResolves' /\ TreeResolves'
  BY <1>2, StoreKept, TreeKept
<1> QED
  BY <1>1, <1>4, <1>5, <1>7, <1>8 DEF ServedResolves

LEMMA EndRowsServed ==
  ASSUME ServedInv, EndRows
  PROVE  ServedInv'
<1> USE DEF ServedInv
<1>1. TypeInv' /\ UNCHANGED <<spec, upstream, store, tree>>
  BY EndRowsTypes
<1>2. StoreResolves' /\ TreeResolves' /\ Named' = Named
  BY <1>1, StoreKept, TreeKept DEF Named
<1>3. CASE run' = NoRun
  BY <1>1, <1>2, <1>3, EndedServed DEF ServedResolves
<1>4. CASE run'.step = "snapshot" /\ run'.manifest = run.manifest /\ run'.rows = run.rows
  <2>1. PathsApart' /\ RowsHold' /\ OrderOK'
    BY <1>1, <1>4 DEF PathsApart, RowsHold, OrderOK, Live, In, Path, claims, Staged, Stored, Row, Vouched,
                retain_archives_resolved
  <2>2. NamedOK'
    BY <1>1, <1>2, <1>4 DEF NamedOK, Current, Path, Row
  <2> QED
    BY <1>1, <1>2, <2>1, <2>2 DEF ServedResolves
<1> QED
  BY <1>3, <1>4, EndRowsTypes

\* What the manifest of a run names, once its rows are done.
LEMMA ManifestServed ==
  ASSUME ServedInv, run.step \in TailSteps
  PROVE  /\ run.manifest \in Manifests /\ run.manifest # {}
         /\ \A a \in run.manifest :
              /\ Path(a[1]) \in Paths /\ a[2] <= upstream[a[1]] /\ Row(a[1]) = a
              /\ spec.upload => Vouched(Stored(a[1]), a)
              /\ retain_archives_resolved => Staged(a[1]) = a
<1> USE DEF ServedInv
<1>1. run.manifest \in Manifests /\ run.manifest # {}
  BY TailIs DEF TypeInv, TypesOK, RunOK, Runs
<1>2. ASSUME NEW a \in run.manifest
      PROVE  /\ Path(a[1]) \in Paths /\ a[2] <= upstream[a[1]] /\ Row(a[1]) = a
             /\ spec.upload => Vouched(Stored(a[1]), a)
             /\ retain_archives_resolved => Staged(a[1]) = a
  <2>1. a[1] \in DOMAIN run.rows /\ Row(a[1]) = a
    BY RowsAre
  <2>2. run.rows[a[1]] = "done" /\ a[2] <= upstream[a[1]]
    BY <2>1 DEF TypeInv, RunOK
  <2>3. a[1] \in Live
    BY <2>1, <2>2 DEF Live, In, RowSteps
  <2> QED
    BY <2>1, <2>2, <2>3 DEF PathsApart, RowsHold
<1> QED
  BY <1>1, <1>2

\* The run goes on from a document, and names at most its own manifest anew.
LEMMA DocumentServed ==
  ASSUME ServedInv, run.step \in TailSteps, run' = After(run.step), UNCHANGED <<spec, upstream>>,
         Named' \subseteq Named \cup {run.manifest},
         tree'.archives = tree.archives, store'.archives = store.archives
  PROVE  PathsApart' /\ RowsHold' /\ NamedOK'
<1> USE DEF ServedInv
<1>1. /\ run.manifest # {}
      /\ \A a \in run.manifest : Path(a[1]) \in Paths /\ a[2] <= upstream[a[1]] /\ Row(a[1]) = a
  BY ManifestServed
<1>2. CASE run' = NoRun
  <2>1. DOMAIN run'.rows = {}
    BY <1>2, NoRunTypes
  <2> QED
    BY <1>1, <2>1 DEF PathsApart, RowsHold, NamedOK, Live, In, Path, Current
<1>3. CASE run'.manifest = run.manifest /\ run'.rows = run.rows
  <2>1. PathsApart' /\ RowsHold'
    BY <1>3 DEF PathsApart, RowsHold, Live, In, Path, claims, Staged, Stored, Row, Vouched,
                retain_archives_resolved
  <2>2. NamedOK'
    BY <1>1, <1>3 DEF NamedOK, Path, Current, Row
  <2> QED
    BY <2>1, <2>2
<1> QED
  BY <1>2, <1>3, AfterTypes

LEMMA WriteTreeServed ==
  ASSUME ServedInv, WriteTree
  PROVE  ServedInv'
<1> USE DEF ServedInv
<1>1. TypeInv'
  BY WriteTreeTypes
<1>2. /\ run.step \in {"snapshot", "dist"} /\ run.step \in TailSteps /\ run' = After(run.step)
      /\ UNCHANGED <<spec, upstream, store>>
  BY TailIs DEF WriteTree
<1>3. /\ tree'.archives = tree.archives
      /\ tree'.snapshots \cup tree'.dist \subseteq tree.snapshots \cup tree.dist \cup {run.manifest}
  BY DEF WriteTree, TypeInv, TypesOK, Trees
<1>4. Named' \subseteq Named \cup {run.manifest}
  BY <1>2, <1>3 DEF Named
<1>5. PathsApart' /\ RowsHold' /\ NamedOK'
  BY <1>2, <1>3, <1>4, DocumentServed
<1>6. OrderOK'
  <2>1. run'.step \in {"idle", "dist", "put_snapshot"}
    BY <1>2, AfterTypes, NoRunTypes DEF Following
  <2> QED
    BY <2>1 DEF OrderOK
<1>7. StoreResolves'
  BY <1>2, StoreKept
<1>8. TreeResolves'
  <2>1. retain_archives_resolved => \A a \in run.manifest : Staged(a[1]) = a
    BY <1>2, ManifestServed
  <2> QED
    BY <1>2, <1>3, <2>1 DEF ServedResolves, TreeResolves, Current, Alone, Selected, ReleasesOf,
       apply_select, fetch_manifest, Path, Staged, retain_archives_resolved
<1> QED
  BY <1>1, <1>5, <1>6, <1>7, <1>8 DEF ServedResolves

\* What a document adds to the store, which has what the document names already.
LEMMA PutIs ==
  ASSUME ServedInv, run.step \in Puts, store' = With(run.step)
  PROVE  /\ store'.snapshots \cup store'.dist \subseteq store.snapshots \cup store.dist \cup {run.manifest}
         /\ store.snapshots \subseteq store'.snapshots
         /\ store.dist # {} => store'.dist # {}
         /\ store'.pinned \subseteq store'.snapshots
         /\ \A r \in Releases : store'.version[r] \subseteq store'.snapshots
         /\ store'.rolling => store'.dist # {}
         /\ run.step = "put_snapshot" /\ spec.snapshots => run.manifest \in store'.snapshots
         /\ run.step = "put_dist" /\ spec.path => store'.dist # {}
<1> USE DEF ServedInv
<1>1. store \in Stores
  BY DEF TypeInv, TypesOK
<1>2. /\ store.pinned \subseteq store.snapshots
      /\ \A r \in Releases : store.version[r] \subseteq store.snapshots
      /\ store.rolling => store.dist # {}
  BY DEF ServedResolves, StoreResolves
<1>3. spec.installers => spec.path /\ spec.snapshots
  BY SpecTypes DEF TypeInv, TypesOK
<1>4. /\ run.step \in {"put_pinned", "put_version"} /\ spec.installers => run.manifest \in store.snapshots
      /\ run.step = "put_rolling" /\ spec.installers => store.dist # {}
  BY <1>3 DEF OrderOK
<1>5. CASE run.step = "put_snapshot"
  <2>1. CASE spec.snapshots
    <3>1. store' = [store EXCEPT !.snapshots = @ \cup {run.manifest}]
      BY <1>5, <2>1 DEF With, upload_manifest
    <3> QED
      BY <1>1, <1>2, <1>5, <3>1 DEF Stores
  <2>2. CASE ~spec.snapshots
    <3>1. store' = store
      BY <1>5, <2>2 DEF With, upload_manifest
    <3> QED
      BY <1>2, <1>5, <2>2, <3>1
  <2> QED
    BY <2>1, <2>2
<1>6. CASE run.step = "put_dist"
  <2>1. CASE spec.path
    <3>1. store' = [store EXCEPT !.dist = {run.manifest}]
      BY <1>6, <2>1 DEF With, upload_manifest, Placed
    <3> QED
      BY <1>1, <1>2, <1>6, <3>1 DEF Stores
  <2>2. CASE ~spec.path
    <3>1. store' = store
      BY <1>6, <2>2 DEF With, upload_manifest
    <3> QED
      BY <1>2, <1>6, <2>2, <3>1
  <2> QED
    BY <2>1, <2>2
<1>7. CASE run.step \in {"put_pinned", "put_version", "put_rolling"} /\ store' = store
  BY <1>2, <1>7
<1>8. CASE run.step = "put_pinned" /\ spec.installers
  <2>1. store' = [store EXCEPT !.pinned = @ \cup {run.manifest}]
    BY <1>8 DEF With, upload_installers
  <2> QED
    BY <1>1, <1>2, <1>4, <1>8, <2>1 DEF Stores
<1>9. CASE run.step = "put_version" /\ spec.installers /\ latest(run.manifest) # 0
  <2>1. store' = [store EXCEPT !.version[latest(run.manifest)] = {run.manifest}]
    BY <1>9 DEF With, upload_installers, Placed
  <2>2. \A r \in Releases : store'.version[r] = store.version[r] \/ store'.version[r] = {run.manifest}
    BY <1>1, <2>1 DEF Stores
  <2>3. UNCHANGED <<store.snapshots, store.dist, store.pinned, store.rolling>>
    BY <1>1, <2>1 DEF Stores
  <2> QED
    BY <1>2, <1>4, <1>9, <2>2, <2>3
<1>10. CASE run.step = "put_rolling" /\ spec.installers
  <2>1. store' = [store EXCEPT !.rolling = TRUE]
    BY <1>10 DEF With, upload_installers
  <2> QED
    BY <1>1, <1>2, <1>4, <1>10, <2>1 DEF Stores
<1>11. CASE run.step \in {"put_pinned", "put_version", "put_rolling"}
  BY <1>7, <1>8, <1>9, <1>10, <1>11 DEF With, upload_installers
<1> QED
  BY <1>5, <1>6, <1>11, TailIs

LEMMA PutServed ==
  ASSUME ServedInv, Put
  PROVE  ServedInv'
<1> USE DEF ServedInv
<1>1. TypeInv'
  BY PutTypes
<1>2. /\ run.step \in Puts /\ run.step \in TailSteps /\ run' = After(run.step)
      /\ store' = With(run.step) /\ UNCHANGED <<spec, upstream, tree>>
  BY DEF Put, Puts, Order
<1>3. store'.archives = store.archives
  BY <1>2, WithIs
<1>4. Named' \subseteq Named \cup {run.manifest}
  BY <1>2, PutIs DEF Named
<1>5. PathsApart' /\ RowsHold' /\ NamedOK'
  BY <1>2, <1>3, <1>4, DocumentServed
<1>6. OrderOK'
  <2>1. CASE run' = NoRun
    BY <2>1, NoRunTypes DEF OrderOK
  <2>2. CASE /\ run'.step = Following[run.step] /\ run'.manifest = run.manifest
             /\ run.step # "put_rolling"
    <3>1. /\ run'.step \in {"put_dist", "put_pinned", "put_version", "put_rolling"} /\ spec.snapshots
               => run.manifest \in store'.snapshots
          /\ run'.step \in {"put_pinned", "put_version", "put_rolling"} /\ spec.path => store'.dist # {}
      BY <1>2, <2>2, PutIs, TailIs DEF OrderOK, Following
    <3> QED
      BY <1>2, <2>2, <3>1 DEF OrderOK
  <2> QED
    BY <1>2, <2>1, <2>2, AfterTypes
<1>7. StoreResolves'
  <2>1. spec.upload
    BY <1>2 DEF TypeInv, RunOK
  <2>2. run.manifest # {} /\ \A a \in run.manifest : Vouched(Stored(a[1]), a)
    BY <1>2, <2>1, ManifestServed
  <2>3. \A m \in store'.snapshots \cup store'.dist :
           m # {} /\ \A a \in m : Current(a)' /\ Alone(a[1])' => Vouched(Stored(a[1]), a)'
    BY <1>2, <1>3, <2>2, PutIs DEF ServedResolves, StoreResolves, Current, Alone, Selected, ReleasesOf,
       apply_select, fetch_manifest, Path, Stored, Vouched
  <2>4. spec'.installers => store'.archives[Script] \notin Archives
    BY <1>2, <1>3 DEF ServedResolves, StoreResolves
  <2>5. /\ store'.pinned \cup UNION {store'.version[r] : r \in Releases} \subseteq store'.snapshots
        /\ store'.rolling => store'.dist # {}
    BY <1>2, PutIs
  <2> QED
    BY <2>3, <2>4, <2>5 DEF StoreResolves
<1>8. TreeResolves'
  BY <1>2, TreeKept
<1> QED
  BY <1>1, <1>5, <1>6, <1>7, <1>8 DEF ServedResolves

LEMMA InitServed == Init => ServedInv
<1> SUFFICES ASSUME Init PROVE ServedInv
  OBVIOUS
<1>1. TypeInv
  BY InitTypes
<1>2. run = NoRun /\ DOMAIN run.rows = {} /\ run.step = "idle"
  BY NoRunTypes DEF Init
<1>3. /\ store.snapshots = {} /\ store.dist = {} /\ tree.snapshots = {} /\ tree.dist = {}
      /\ store.pinned = {} /\ store.rolling = FALSE /\ \A r \in Releases : store.version[r] = {}
      /\ store.archives[Script] \in {Broken, Nothing}
  BY BoundAssumption DEF Init
<1>4. PathsApart /\ RowsHold /\ NamedOK /\ OrderOK
  BY <1>2, <1>3 DEF PathsApart, RowsHold, NamedOK, OrderOK, Live, In, Named
<1>5. store.archives[Script] \notin Archives
  BY <1>3, ArchiveTypes
<1>6. ServedResolves
  BY <1>3, <1>5 DEF ServedResolves, StoreResolves, TreeResolves
<1> QED
  BY <1>1, <1>4, <1>6 DEF ServedInv

LEMMA NextServed ==
  ASSUME ServedInv, [Next]_vars
  PROVE  ServedInv'
<1>1. CASE UNCHANGED vars
  BY <1>1, NextTypes DEF vars, ServedInv, PathsApart, RowsHold, NamedOK, OrderOK, ServedResolves,
     StoreResolves, TreeResolves, Named, Live, In, Path, claims, Staged, Stored, Row, Vouched,
     Current, Alone, Selected, ReleasesOf, apply_select, fetch_manifest, retain_archives_resolved
<1>2. ASSUME NEW r \in DOMAIN run.rows,
             Probe(r) \/ Reuse(r) \/ Download(r) \/ FailDownload(r) \/ Upload(r)
      PROVE  ServedInv'
  BY <1>2, ProbeServed, FetchServed, UploadServed
<1> QED
  BY <1>1, <1>2, UpstreamServed, LoseTreeServed, StartServed, AbortServed, EndRowsServed,
     WriteTreeServed, PutServed DEF Next, RunStep

\* At every instant of every run, whatever is rebuilt upstream, fails, is killed or is
\* lost: what the store serves and what a kept tree names is there, as far as upstream
\* still has it and its path is its own.
THEOREM AlwaysServed == Spec => []ServedResolves
<1>1. Init => ServedInv
  BY InitServed
<1>2. ServedInv /\ [Next]_vars => ServedInv'
  BY NextServed
<1>3. ServedInv => ServedResolves
  BY DEF ServedInv
<1> QED
  BY <1>1, <1>2, <1>3, PTL DEF Spec
=============================================================================
