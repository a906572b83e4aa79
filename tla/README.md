# A TLA+ specification of ocx-mirror

`ocx-mirror` copies upstream software into OCI registries. It has three parts that share
little state: *index synchronisation* (`registry sync`), which mirrors whole index sources;
the *package pipeline* (`package sync`, `package pipeline ...` and the workflows it
generates), which builds packages out of upstream release archives or Python wheels,
tests, publishes, signs and announces them; and *distribution sync* (`dist sync`), which
mirrors a tool's release archives to a plain host.

These modules specify all three, down to the steps that another process, a failure or a
kill can come between. What they leave out is listed in 1.3: HTTP, parsing, text.

| file | content |
| --- | --- |
| `RegistrySync.tla` | `registry sync` of one source: runs, packages, the index tree, the operator, the publisher |
| `AppendOnlyMirror.tla` | what a served index promises its readers, in two actions |
| `RegistryFleet.tla` | `registry sync` of a spec with several sources: destinations, collisions, order, `on_error` |
| `CopyEngine.tla` | `copy_manifest_tree`: blobs, children, referrers, signature tags |
| `TaskPrepare.tla` | `prepare_task`: the resumable directory of one task |
| `VersionSelection.tla` | which versions and platforms are to be mirrored: bounds, pointers, caps, cascades |
| `MirrorRun.tla` | `package sync`: what is read, selected, prepared and pushed, run after run |
| `Publication.tla` | the CI pipeline of an archive source: publish, patch, cascade repair, announce, notify |
| `EnvMirror.tla` | the CI pipeline of a Python source: environments by libc, wheels, the test gate |
| `SignBackfill.tla` | `package pipeline sign`: signing what is already published |
| `DistSync.tla` | `dist sync`: archives, snapshots, the rolling manifest, installers |
| `SpecLoad.tla` | loading a `mirror.yml`: `extends:` chain, merge, the validations |
| `CiGeneration.tla` | `generate ci`, the drift guard, and runs of a generated workflow |
| `Optional.tla` | `None`, the value of a field that is not there, which the pipeline's modules share |
| `RegistrySyncProofs.tla`, `RegistryFleetProofs.tla`, `CopyEngineProofs.tla`, `PublicationProofs.tla`, `EnvMirrorProofs.tla`, `DistSyncProofs.tla`, `SignBackfillProofs.tla` | theorems about the module of that name, for every value of the constants |
| `PipelineProofs.tla` | theorems about `MirrorRun`, `TaskPrepare` and `CiGeneration` |
| `MC*.tla`, `*.cfg` | the values of the constants for TLC |
| `PROJECT.json` | components, runs, mutants, the map to source lines, hazards, findings, theorems |

Paths below are relative to `src/crates/ocx_mirror_pipeline/src/` unless they start
with `docs/`, `crates/` or `src/` (the repository's root, its crates, its binary).

## 1. Inventory

### 1.1 Index synchronisation

**Registry sync** (`registry_sync.rs`, `registry_sync/{plan,index_write,cache}.rs`).
State: the output tree (`config.json`, and per source `c/index.json`, `p/<pkg>.json`,
`p/<pkg>/o/*`), the recorded digest `<as>.digest` in a cache directory, and in memory
the pre-flight's view of both plus one task per package. Operations: bootstrap,
`--repair-catalog`, the pre-flight with its short-circuit and its collision check,
`sync_package` (skip test, copies, description, merge, writes under the catalog lock,
prune), the record.
Hard: packages run concurrently and commit to one catalog; a base is read minutes before
it is written back; a run may stop between any two file writes; two kinds of cached
knowledge (the recorded digest, `should_skip`) decide that there is nothing to do; several
sources expand to destinations of one registry.
Correct when: the tree names only what can be pulled and served, at every instant; it
never loses a tag; a run that reports success has mirrored what it read; no package
overwrites another's destination. (`RegistrySync`, `RegistryFleet`.)

**Source catalog client** (`registry_sync/catalog.rs`). Keeps no
state. Decides which failures abort a whole run (no answer) and which fail one package
(a malformed root). (`RegistrySync`.)

**Copy engine** (`registry_copy.rs`). State: the destination registry and, in memory,
`CopyContext`: `mounted_from`, `carried_referrers`, the permit pool of blob buffers.
Operations: the recursive walk, the blob ladder (known, probe, mount, upload), manifest
push, referrer carry and fallback index, signature tags, the description, the measurement
of a dry run.
Hard: children run concurrently and are dropped together when one fails; the memory of
a run is shared by all its packages; a claim must not outlive its failure.
Correct when: nothing that is there dangles, the memory of a run is true, and a content
reported copied has been signed as it was at the source. (`CopyEngine`.)

### 1.2 The package pipeline and distribution sync

**Mirror orchestrator** (`orchestrator.rs`). `execute_mirror` groups tasks by
version, prepares them concurrently, pushes them sequentially, oldest version first, and then
signs the image index. `prepare_task` keeps a resumable directory per task: archive,
sidecar, authoring metadata, bundle. Hard: resuming after a crash between any two files of
that directory; a prepare task that panics leaves an empty slot; a version with some
platforms failed. Correct when: what is pushed was built from the archive that was
verified and from the metadata of this spec, and every planned task is reported.
(`TaskPrepare`, `MirrorRun`.)

**Package sync command** (`src/command/package/sync.rs`), **version and platform
selection** (`crates/ocx_mirror_spec/src/{filter,version_platform_map}.rs`). Lists the
source, reads the vendor's pointer and the target, selects, plans, calls the orchestrator,
turns results into an exit status. Correct when every wanted version is published in the
end, and nothing else. (`VersionSelection`, `MirrorRun`.)

**Pipeline plan, prepare, push** (`src/command/package/pipeline/`). The jobs of a CI
run: what is outstanding, the builds, and the job that publishes what they built. A version is
pushed when its verdicts, taken together over the gating legs, allow it; rolling aliases
move afterwards; a summary is written; a sweep signs the indexes; the index is announced.
Hard: verdicts are files of other jobs and may be missing; a push fails between platforms;
a runner is killed anywhere. Correct when: nothing untested is published, no alias moves
onto what is not whole, and what is published gets signed and known. (`Publication` for
archive sources, `EnvMirror` for Python ones, `CiGeneration` for the gate against the legs
of the generated matrix.)

**Describe, patch, cascade, announce, notify.** Jobs beside the publish runs, on schedules
and by hand: `patch` republishes images under new metadata, `cascade` moves the rolling
tags where they belong, `announce --tags-from-registry` catches the index up, `notify`
reads the summary a run left. Hard: they share tags with publish runs, and only some share a
concurrency group. (`Publication`; `describe` pushes what no other job reads.)

**Sign backfill** (`sign_backfill.rs`). Signs what is published, skipping by subject
digest, continuing past failures. Correct when repeated passes converge to "everything
signed", no subject is signed twice or left out of the report. (`SignBackfill`.)

**Python mirror** (`python_prepare.rs`, `python_push.rs`, `lock_derive.rs`). One lock per
version, one environment package per `wheels:` key, wheel layers shared between them.
Correct when what is served was tested on each libc it claims. (`EnvMirror`.)

**Dist sync** (`dist_sync.rs` and beside it). Archives first, then the snapshot, then the
rolling `dist.json`, then the installers; a partial run writes no manifest. Correct when
whatever the store serves at any moment resolves. (`DistSync`.)

**Spec model and validation** (`crates/ocx_mirror_spec`), **CI workflow generation**
(`src/command/package/pipeline/generate/`). A chain of YAML files is merged and
validated; workflows are rendered from it and guarded against drift. Correct when what the
loader accepts is fit to generate from, a green guard means current workflows, and an edit
wakes the workflow of each spec it concerns. (`SpecLoad`, `CiGeneration`.)

### 1.3 What no module models

- **HTTP client and retry, sources and asset resolution**: input and output. What a listing
  returns is an input of `MirrorRun`, `Publication` and `EnvMirror`; a failed request is a
  failure of the step that makes it.
- **Reports, `discord.rs`, JUnit and pylock parsing, YAML syntax, glob and template
  syntax, single-field checks** (patterns, URLs, names): text in, text out, with nothing
  between two actors. The decisions taken on them (a verdict, an alarm, an expansion) are in
  the modules.
- **Errors, exit codes, tracing, build info**: classification and printing. Where an exit
  code decides something (`SignBackfill`'s worst exit, `SpecLoad`'s refusals) it is modelled.
- **ocx** (`external/ocx`): a submodule with no files here. Its index store, catalog
  transaction, publisher, `sign`, `announce` and `cascade repair` are modelled as `src/` uses
  them, and marked external in the map.

### 1.4 How the parts meet

- `registry sync` calls the copy engine once per distinct content of a package and once
  for its description; several packages of a run share one `CopyContext`. `RegistrySync`
  takes the copy of one tag as a step whose outcome `CopyEngine` opens; `RegistryFleet`
  takes the copy of one package as a step that `RegistrySync` opens.
- Packages of a run, and several runs, share the output tree. The catalog lock covers
  one `begin_catalog_transaction ... commit` at a time, not a run.
- A CI job commits and pushes the tree after a run and checks it out before the next;
  the cache directory lives elsewhere, so the two may be of different ages.
- The upstream publisher changes roots and its catalog at any time.
- The pipeline's jobs exchange files (plan, bundles, verdicts, summary), not calls; they
  share the registry's tags and the package index. `MirrorRun`, `Publication` and
  `EnvMirror` each take the preparation of a task as an outcome that `TaskPrepare` opens.
- `CiGeneration` renders the jobs that `Publication` and `EnvMirror` run: the gates of the
  push are stated there against the matrix the spec gave rise to.

## 2. RegistrySync

### 2.1 State

| variable | in the code |
| --- | --- |
| `releases`, `listed` | the source: the roots served for each package, and which one `c/index.json` names |
| `held`, `heldDesc` | destination registry: contents complete at the destination, the description tag |
| `dispatch`, `described` | `p/<pkg>/o/<digest>.json` and the description objects beside them |
| `root`, `catalog`, `config` | `p/<pkg>.json`, `c/index.json`, existence of `config.json` |
| `committed` | the tree the CI job last committed |
| `damaged` | root files that do not parse |
| `included` | what `include:`/`exclude:` select |
| `record` | `<as>.digest`: source catalog digest and fingerprint of the mirrored catalog |
| `lock` | the catalog lock |
| `run[r]` | phase, mode, the catalog read, the record read, the mirrored catalog found, whether a package failed |
| `task[r][p]` | phase of `sync_package`, the root fetched, the merge base, tags to do, tags confirmed |

A digest is the value it is the digest of: hashes do not collide. So the catalog entry of
a root is that root, and the fingerprint of a catalog is that catalog. A root is its
`tags{}` map and one value for its package-level fields, the objects its `desc` names
included.

### 2.2 Actions

One action per step that another actor may come before or after: each network read, each
file write, each acquisition of the lock.

| code | actions |
| --- | --- |
| bootstrap, `repair_catalogs` | `StartRun`, `RepairCatalog`, `AbortRepair` |
| `prepare_source`, `plan_source` | `FetchCatalog`, `ReadRecord`, `PlanSource` |
| `copy_sources` | `FinishRun` with `RecordDigest`, `ExitRun`, `StopRun` |
| `sync_package`, reads | `FetchRoot`, `Skip`, `FailUnread`, `FailBeforeCopy`, `Measure` (dry run), `BeginCopy` |
| `sync_package`, copies | `CopyTag`, `FailTag`, `CopyDescription`, `FailDescription` |
| `write_package` | `WriteDispatchObjects`, `RefuseDispatchObject`, `WriteDescriptionObjects`, `BeginTransaction`, `WriteRoot`, `CommitCatalog`, `PruneDescriptionObjects`, `WriteConfigJson` |
| environment | `PublishRoot`, `ListRoot`, `CommitTree`, `CheckoutTree`, `DeleteRoot`, `DamageRoot`, `EditFilters`, `LoseRecord` |

Three decisions are operators of their own because several proofs and mutants turn on
them: `ShortCircuit` (plan.rs), `ShouldSkip` and `MergeTags` (index_write.rs).

Failures. `StopRun` is the class of errors that abort a run and also a killed process:
every task is dropped where it stands, the lock is freed by the operating system, what
was written stays. `FailTag`, `FailDescription`, `FailUnread`, `FailBeforeCopy` and
`RefuseDispatchObject` are the errors that fail one package. An aborted `--repair-catalog`
(a root that does not parse) is `AbortRepair`.

### 2.3 What is abstracted

- One source per run; `RegistryFleet` has several.
- The copy of one tag is one step here. What `CopyTag` assumes, that a content copied
  without error is complete at the destination, is `ManifestsComplete` of `CopyEngine`.
- Host and format validation, size caps, the byte estimate of a dry run.
- Reports: a run is `failed` or not.

### 2.4 Properties

- `PublishedContentHeld`: every tag of every mirrored root names a content the
  destination holds, at every instant, whatever two runs and an operator do.
- `DispatchObjectsServed`: and its dispatch object is on disk. This is the order of
  writes in `write_package`.
- `SuccessfulRunMirrored`: a run that ends with success leaves in the tree, for each
  package it was asked for, every tag of the root its catalog named, and the catalog entry
  of the root on disk. It relates the record of an *earlier* run, the short-circuit, the skip
  test and every failure path. It does not hold where the publisher of any package went back
  to something it had dropped (`NothingTakenBack`; 14, "a record that fits again"): records
  compare whole catalogs, so a package that goes back hides another one's delay.
- `DescriptionsKept`: the objects a published root's `desc` names are on disk at every
  instant; and with no failure in the history and nothing taken back a successful run leaves
  the description tag at least as new as the root, nothing else beside the root, and
  `config.json` in place.
- `IsAppendOnlyMirror`: `RegistrySync` implements `AppendOnlyMirror`, with `stored <- held`
  and the published tags of the roots. The abstract module has two actions, storing a
  content and publishing tags over stored contents; the detailed one has thirty-five. No
  tag is ever lost, and a tag never names what is not stored.
- `Converges`: once the publisher stops and failures stop, the mirror of every selected
  package catches up with all of upstream's newest root that OCI can express, and stays.

### 2.5 Fairness

`FairSpec` assumes weak fairness of the steps of a run (a process that is started is
executed), of starting a plain run strong fairness (`docs/reference/registry-yml.md:390`
runs the command as a scheduled job; a dry run or a repair in between does not count), and
of the publisher listing a root it published. Nothing is assumed of failures,
interruptions or operators: those are bounded, so they stop, which is exactly the
hypothesis "once it stops failing".

## 3. CopyEngine

### 3.1 State and actions

`heldM`, `heldB`, `fallback` and `sidecar` are the destination registry: manifests, blobs,
the tag-schema referrer index of each subject, and the signature tag of each subject.
`location` and `claims` are the run's memory, `mounted_from` and `carried_referrers`.
`dropped` is a history: the referrers whose carry a sibling's error dropped, which no guard
reads.
`calls[r]` is the tree of activations of `copy_manifest_tree_at` under way in repository
`r`: a function from call paths to a phase and the stage of each blob. Dropping a
Rust future is dropping every path below it, without a step of its own: that is `SetCall`,
and it is where the code's hazards are.

| code | actions |
| --- | --- |
| tags of one package, `tag_manifest` | `SkipCopied`, `BeginTag`, `EndTag` |
| manifest fetch and verification | `Fetch`, `FailRead` |
| children, `buffered(8)` at the top, 1 below | `CallChild`, `TakeChild`, `FailChild` |
| `ensure_blob`, `mount`, `upload` | `SkipBlob`, `ProbeBlob`, `MountBlob`, `QueueBlob`, `AcquirePermit`, `UploadBlob`, `FailUpload` |
| `push_manifest` | `Push`, `FailPush` |
| `copy_referrers`, `append_fallback` | `SkipReferrer`, `ClaimReferrer`, `EndReferrer`, `FailReferrer`, `EndReferrers` |
| `copy_sidecars` | `CallSidecar`, `Return`, `FailSidecar` |
| process | `NextRun`, `Abort` |
| the operator of the destination | `OperatorSigns` |

A push that fails may have landed all the same (the answer was lost); both outcomes are
enumerated in `FailPush` and `FailUpload`. `Missing` is what the measurement of a dry run
finds a copy would have to do.

### 3.2 What is abstracted

Retries happen inside the step that makes the request: a retried step succeeds or fails
once. One signature-tag suffix stands for the three. `BLOB_FANOUT_CEILING` (64) never
binds on instances with two blobs. The ceilings on size, depth and referrers are a
nondeterministic `FailRead`. Whether the destination has a Referrers API is a constant,
`Fallback`. The operator signs between walks only.

### 3.3 Properties

- `ManifestsComplete`: at every instant, each manifest at the destination has its blobs and
  its children there. An interruption makes a breach permanent.
- `LocationsTrue`: a blob is remembered at a repository only if it is there.
- `CopiedIsSigned`: a content reported copied has, at every level, its referrers
  discoverable and its signature tag set (or set by the operator to something else); and a
  dry run of it finds nothing left to do, except over a signature tag that differs. This has
  one exception, which the code makes and its comment denies (14, "claims"): a referrer whose
  carry was dropped with its call by an earlier sibling's error keeps its claim, so that the
  walks after it skip it and what refers to it. `Forgone` is what is reached through these and
  no more; a carry that fails, or is aborted, excuses nothing.

## 4. TaskPrepare

### 4.1 State and actions

The disk of one task directory: `archive` (the downloaded bytes under each asset name),
`tree` (what was laid out in `content/`), `authoring`, `bundle`, `compiled` (the sidecar where
`ocx package create` writes it) and `sidecar` (the same under its published name). A bundle
is what it was made from and the metadata it was made with; a sidecar also has the
`binaries` claim a scan gave it. `spec` is what the task asks now, `served` what upstream
has, `job` the task as the run under way read it.

| code | actions |
| --- | --- |
| `prepare_task`, resume test and digest re-check | `Begin`, `Resume` |
| removal of a sidecar no bundle vouches for | `DropSidecar` |
| `download`: presence test, `File::create`, body | `SkipDownload`, `OpenDownload`, `ReadBody` |
| `verify` | `Verify` |
| `package::extract` | `Extract` |
| authoring file, `ocx package create`, rename of its sidecar | `WriteAuthoring`, `Create`, `Accept` |
| `reject_empty_scan` | `RejectEmptyScan` |
| push, `clean_task_dir` file by file | `Push`, `Unlink` in `Clean`, `EndClean` |
| a kill or an error at any step | `Stop` |
| a spec edited, an asset replaced upstream | `EditSpec`, `Replace` |

Abstracted: a digest is the content it is the digest of; a fetch of a checksum file is part
of the step that verifies; files other than the download are written whole or not at all (a
torn authoring file differs from every rendering, and a torn bundle is `create`'s concern);
`strip_components` and `asset_type` are fixed for a directory. Two runs on one work directory
are not modelled: nothing in the code serves that case.

### 4.2 Properties

- `ReadyIsDeclared`: what is handed to the push was made from the bytes the publisher
  declared. A resume re-checks the archive, not what the bundle was made from, so this relates
  files written by different runs.
- `ReadyIsCurrent`: it was created from one asset and from the metadata this spec renders,
  and a scanning task's sidecar claims a command.
- `Recovers` (liveness): runs finish the task in the end, unless the directory stays in one of
  the states of `Wedged`, which names every way of failing for good.

`PairedOnDisk`, that a bundle and a sidecar side by side come from one create, in the
middle of a removal too, is proved and is what the resume test rests on.

`FairPrepareSpec` has weak fairness of the steps of a run: runs are started again (the command is
scheduled) and go on unless stopped. Faults and edits are bounded, so they cease.

## 5. VersionSelection and MirrorRun

### 5.1 Selection

`VersionSelection` has the pure part: `Bounds` resolves the `min:`/`max:` edges of a spec
against the vendor's pointer (`Resolvable`, `Resolve`), `Admits` tells whether a version is
within them, `Eligible` takes prereleases, malformed and ambiguous versions and what is
published out, `Capped` applies `new_per_run` in the order of `backfill:`, `Selected` is all
of it under a command line. Versions are numbers in their order.

### 5.2 State and actions of MirrorRun

`source` is what upstream has released, platform by platform, `ceiling` what the vendor's
pointer names. The target is `stamped` (builds under a tag of their own), `bare` (the build
each version's own tag has for a platform), `latest` (which stands for all the broader
rolling tags), `signed` and `indexed`. `run` is what `execute_mirror` holds: the plan, the
tasks left, the results, the version map `known`.

| code | actions |
| --- | --- |
| `Sync::execute`: list, read the pointer and the target, filter | `Plan`, with `Views`, `Answers`; `PlanNothing`, `AbortPlan` |
| phase 1, the concurrent preparations | `Prepare`, with an outcome for each task |
| phase 2, ranges oldest first | `BeginRange`, `TakeSlot` |
| `push_and_cascade`, tag by tag | `PushPrimary`, `MoveTag` with `Blocked`, `SignPlatform`, `FailPush` |
| the index signature of a range | `SignIndex`, `SkipIndex` |
| report, a kill | `Exit`, `Crash` |
| upstream, the vendor | `Release`, `Raise` |

`push_cascade` is ocx's. From `push.rs` and `version_platform_map.rs` it is known to merge a
platform into the tag's index and to hold a rolling tag back where one of the versions
it is handed is newer and has the platform; the order of its tag writes is left open.
`fail_fast` is chosen where a run first looks at it. Releases happen between runs, since a
run lists upstream once. One variant, `cascade: true` and a `sign:` block are assumed. A
pointer that gives no answer aborts the plan: "falling back to unbounded would mirror every
release the pointer exists to hold back".

### 5.3 Properties

- `TagsMoveForward`: a version tag that has a build for a platform is not moved to another,
  and `latest` never goes back, whatever order versions are released, backfilled and retried in.
- `PublishedIsWanted`: whatever was ever published is what the spec lets through.
- `SuccessIsComplete`: a run that reports success has published and signed all it planned,
  indexes included, unless a preparation panicked.
- `Converges` (liveness): each released platform of each wanted version is published in the end.

`FairSpec` has weak fairness of a run's steps and strong fairness of starting a run without
options: runs are scheduled, and one that is interrupted or limited by `--latest` or
`--version` between does not count. Faults are bounded, which `Converges` needs: under
`newest_first` with a cap a version that fails for ever keeps the older ones out.

## 6. RegistryFleet

One `registry.yml` over several index sources. A template is its segments, a name a sequence of
characters, because what `Expand` concatenates decides which packages meet; a pattern is
the set of keys it matches. `ValidTarget`, `ValidDestination`, `ValidName`,
`ValidTransport` and `ValidSources` are the checks of `registry.rs` and `destination.rs`;
`Accepted` is all of them. `upstream` is what each index serves, `tree` the output tree and
`record` the cache of each source, `dest` the destination repositories with who wrote
their tag last, `run` the run with one plan per source.

| code | actions |
| --- | --- |
| load and validate | `Refuse`, `Start` |
| pre-flight of all sources, `detect_collisions` | `Preflight`, `RefuseCollision`, `BeginCopy` |
| the packages of a source, at most `max_packages` at a time | `Take`, `Land`, `Publish`, `FailPackage` |
| the end of a source, `fail_fast` | `CloseSource`, `StopEarly` |
| report; no answer, a kill | `Report`, `Abort` |
| publishers, operator | `Release`, `Edit` |

- `NotOverwritten`: under a template of the three placeholders the pre-flight resolves, a
  destination's tag never passes to another package of the fleet. The template with an upstream
  placeholder is outside of its condition: the pre-flight does not compare such packages, and
  under `{upstream_repository}` alone two of them do overwrite one another (14, "overwrite").
  The instance has two templates of each kind.
- `SuccessLands`: a run that reports success leaves every package it was to mirror at the
  destination its spec names, short-circuited sources included.
- `Converges`: a package whose destination can be named is mirrored in the end, whatever
  packages of its own and of other sources keep failing.

Weak fairness of a run's steps and of starting one; releases, faults and edits are bounded.
An edit keeps the sources and, unless `Rehoming`, what decides where packages land (`Homes`:
registry, repository and template). With `Rehoming`, `SuccessLands` is false (14, "rehoming").

## 7. Publication

### 7.1 State and actions

The CI pipeline of one mirrored archive source. `tags` are the registry's indexes, `signed`
and `sealed` which images and which indexes carry a signature, `listed` and `fresh` what the
package index curates and by which digest. `run` is the publish run, `summary` the file it
leaves, `patch` the patch job. Versions and platforms are numbers in their order; an image is
the version and the metadata revision it was built from; `latest` stands for the rolling tags.

| code | actions |
| --- | --- |
| `plan`, windows and excludes | `Plan` with `platform_applies` |
| `prepare` and test jobs | `Test` |
| signing material that does not resolve | `Unresolved` |
| verdicts of a version, before any of its pushes | `BeginVersion` |
| `ocx package push` with retries | `Push`, `SkipExisting`, `FailPush`, `FailSignature` |
| end of a version: alias, re-cascade, tag union | `EndVersion` |
| `finalize_run` | `WriteSummary` (outcome `interrupted`), `Sweep`, `Announce` |
| a cancelled runner | `Kill` |
| `patch` | `StartPatch`, `ReadImages`, `Republish`, `RefuseImage`, `NextVersion`, `PatchSweep`, `PatchAnnounce`, `AbortPatch` |
| `cascade.yml`, `announce-from-registry.yml` | `Repair`, `CatchUp` |
| `notify` | `build_messages`, read by a property |
| upstream, the operator | `Release`, `EditSpec` |

A patch has a concurrency group of its own, so its steps interleave with those of a publish
run; `Repair` is in the group of those, `CatchUp` runs beside everything. One step is coarser
than the code: `EndVersion` reads the version's images and re-emits them at once, where
`cascade_backfilled_entries` (alias.rs:233-295) reads them and then pushes one platform after
the other. A patch that republishes an image between that read and its re-emission would have
the image reverted; no run shows it, and `PatchIsWhole` would excuse it, since a publish run
pushed meanwhile.

### 7.2 Properties

- `AliasesAwaitTests`: a publish run moves `latest` onto a version only while no platform of
  that version has a red or missing verdict, from this run or an earlier one.
- `WholeVersionRolls`: a version that ends a run whole is what `latest` holds, or something
  newer, for each of its platforms, those that earlier runs published while it was partial
  included.
- `SuccessIsCurated`: a run that exits with success has signed and curated what it reports,
  and each tag it wrote serves a signed index known by its digest, unless a patch interfered.
- `UncuratedIsReported`: a tag the package index has never seen is one the notification
  raises an alarm over, whatever was killed.
- `PatchIsWhole`: a green patch leaves every image of the versions it touched at its
  revision under a signed index, unless a publish run pushed meanwhile.
- `Converges`: in the end what is released within the windows is published and nothing else,
  `latest` holds the newest version of each platform, and the index knows each tag by its digest.

Fairness: `versions.poll_interval` starts publish runs, `cascade.yml` and
`announce-from-registry.yml` have schedules, and the steps of a job follow each other. Nothing
is assumed of patches, which are started by hand.

## 8. EnvMirror

The pipeline of a Python source (`source.type: pypi`). `Keys` are the `wheels:` keys in the
push's order, each a platform and the libc it claims; `Legs` the legs of the generated
matrix; `tags` the environment of each key under each tag, an environment being the version
and the revision of the package index its lock was derived from; `wheels` those registered
on their own.

| code | actions |
| --- | --- |
| `plan/env.rs`, `derive_lock` | `Plan` with `Outstanding`, `Candidates`, `Lock` |
| `python_prepare` | `Prepare` |
| the legs, each composing what it picked | `Test` with `Picked` |
| `gating.rs`: the legs of the key's libc | `BeginVersion` with `Gating`, `Green` |
| `python_push`: register wheels, push, cascade | `Push`, `SkipExisting`, `FailPush` |
| phases 2b and 3: repair, alias | `EndVersion` |
| `finalize_run`; a cancelled runner | `Finish`; `Kill` |
| the package index | `Release`, `MoveIndex` |

- `ServedWasTested`: every leg an environment claims to run on has tested this environment,
  green, in this run, and there is such a leg.
- `PublishedUnmoved`: an environment of a parsed version stays what it is, although a later
  run would derive another lock.
- `LatestMovesWhole`: the end of a version moves `latest` only onto one served under every
  key, and onto one ocx cannot parse only when nothing newer is published.
- `ReportedIsServed`: what a push job reports is there, and its wheels can be mounted.
- `Converges`: every release is served whole in the end.

Signing, announcing and the summary are `Publication`'s and are left out here. Fairness as
there.

## 9. SignBackfill

`signatures` counts, per manifest, the signatures of each identity; `tags` what each tag
resolves to; `run` the pass: its plan of targets grouped by subject, the rows reported, the
attempt, and what it wrote (for the properties).

| code | actions |
| --- | --- |
| list, group by digest, plan | `StartScheduled`, `StartByHand`, with `Plan` |
| `already_signed` under a constraint, `--dry-run`, a failed listing | `SkipSigned`, `SkipDry`, `FailListing` |
| the `ocx sign` child | `StartChild`, `ChildSigns`, `ChildFindsNothing`, `ChildFails`, `ChildTimesOut` |
| Ctrl-C, a kill, the report | `Interrupt`, `Kill`, `Finish` |
| publish runs and other signers | `MoveTag`, `SignElsewhere` |

- `EverySubjectHasItsRow`: a subject that two tags, or a tag and an index, lead to has one
  row, and one that an interrupt left behind has its row too.
- `SuccessIsSigned`: success leaves every subject under a signature the pass respects.
- `OneSignatureEach`: no subject is signed twice, but for an attempt whose outcome was lost.
- `Converges`: everything served is signed in the end, and passes stop adding signatures.

The schedule is the operator's timer (`docs/reference/cli.md:384`), which `FairSpec` assumes.
ocx lists at most `Cap` signatures of a subject: which of more it sees is a choice.

## 10. DistSync

`store` is what consumers read: archives by path, snapshots, `dist.json`, the installers;
`tree` the directory under `output:`; `run` the step of a run and the state of each row. An
archive is the release and the build, which is what its digest tells.

| code | actions |
| --- | --- |
| fetch, select, claims of the fixed paths | `Start` with `apply_select`, `ManifestClaims` |
| `mirror_row` | `Probe`, `Reuse`, `Download`, `FailDownload`, `Upload` |
| the end of the rows, a failed one | `EndRows` |
| manifest and snapshot in the tree, in order | `WriteTree` |
| uploads in order: snapshot, dist, installers | `Put` with `Tail` |
| a kill at any step, files torn | `Abort` |
| upstream, a lost tree | `Release`, `Rebuild`, `LoseTree` |

- `ServedResolves`: whatever the store serves, at any instant of any run, resolves: an
  installer names a manifest that is there, a manifest archives that are there by their
  digest; a tree that is kept contains what its manifests name.
- `Converges`: once upstream rests, a layout with a path for each release is mirrored.

## 11. SpecLoad and CiGeneration

`SpecLoad` is a pure module over files that are records: `resolve_extends_chain` (cycles,
missing and malformed bases), `shallow_merge`, `pre_scan` and `refuse_raw_sign_shapes` on
the raw document, `Deserializes`, the usage gate, and `MirrorSpec_validate` as the set of
rules that are broken. `CiGeneration` puts it to use in a mirror repository: `files`,
`scripts` and `flows` are committed, `tool` is the locked version, `guard` the last verdict
of `verify-generated`, `woken` the workflows the last commit triggers, `flowRun` a run of a
mirror workflow.

| code | actions |
| --- | --- |
| an operator's commits | `EditKey`, `DropKey`, `CreateFile`, `DeleteFile`, `ToggleScript`, `HandEdit` |
| a new locked version; `generate ci`; removing stale files | `Upgrade`, `Generate`, `RemoveStale` |
| `verify-generated.yml`: render, compare modulo pins | part of every commit its triggers see (`Check`) |
| a run: matrix, legs, push gate | `Start`, `RunLeg`, `PushRun`, `EndRun` |

- `GreenIsCurrent`: as long as the last guard was green, under the tool that is locked, the
  specs load and the committed workflows are what they render, none left over.
- `EditWakesItsSpec`: with a green guard, a commit that changes what a spec says, in its
  own file or any base, or a script in its directory, runs that spec's workflow.
- `PublishedWasTested`: a platform is published only after every container it declares ran
  every declared test green, when the container ids tell the containers apart.
- `AcceptedIsSound`: what the loader accepts is fit to generate from: one owner per tag, the
  legs and wheels of an env spec name the same platforms, a leg with a container image has the
  libc its platform claims (a leg without one says nothing of its libc), signing finds its
  material and its permissions.

Limits: a run reads the commit it started on, so commits wait for it to end; registry
credentials, the resolution of the git root and a guard whose own job was disarmed by hand
are not modelled; a root spec's scripts elsewhere than in its trees, and scripts outside a
nested spec's directory, are unwatched as the trigger note documents. What of a catalog is on
disk is part of the document: deleting a root `CATALOG.md`, which the guard does not list and
without which `catalog` is refused (`crates/ocx_mirror_spec/src/lib.rs:420`), is not an edit here.

## 12. The runs

| run | instance | distinct states | shows |
| --- | --- | --- | --- |
| `sync_single` | 1 run at a time, 1 package, 3 roots in any order, one tag OCI cannot express, 1 failure, 1 operator act; plain, dry, repair and fail_fast modes | 853 000 | success means mirrored, descriptions are kept, the append-only mirror is implemented, it converges |
| `sync_hostile` | 2 concurrent runs, 2 operator acts of checkout, delete, damage, a content that is no index | 1 609 000 | the index names only what can be pulled and served |
| `copy_walk` | 2 repositories, 6 manifests, 2 blobs, 1 permit, child width 2, 1 failure, no Referrers API | 451 000 | nothing dangles, memory is true, what is copied is signed but for dropped carries |
| `prepare` | 1 asset, 2 contents (one without executables), 2 metadata (one declaring `binaries`), every spec over them, 2 edits, 2 faults | 564 000 | what is handed over is declared and current; what recovers |
| `mirror` | 5 versions (a prerelease, a malformed one), 2 platforms, an ambiguous asset, a pointer that is raised, a cap of 2, `--latest` and `--version`, 1 fault | 316 000 | tags go forward, what is published is wanted, success is complete, it converges |
| `fleet` | 2 sources, 4 templates with and without fail_fast and specs that are refused, 3 releases, 1 fault, 1 edit | 360 000 | no overwrite where the pre-flight resolves the template, success lands, one broken package keeps no other out |
| `pipeline` | 2 versions of 2 platforms, windows with an exclude, 1 retry, 1 red run, 1 fault, 1 edit of the metadata | 910 000 | the gate, the aliases, the curation, the alarm, the patch |
| `env` | 3 releases (one ocx cannot parse), glibc, musl and plain keys, a cap of 2, 1 red run, 1 fault, 1 move of the index | 669 000 | what is served was tested and stays |
| `backfill` | 4 manifests, 2 indexes among them that share an image, 3 tags (one reserved), `Cap` 1, 4 command lines, 1 each of retries, acts of others, faults, hand runs | 363 000 | every subject has one row and one signature |
| `dist` | 2 releases of 2 builds, 8 specs (four of them colliding layouts), 2 faults | 971 000 | what is served resolves |
| `ci` | 2 specs over 2 bases, 2 commits, 1 before a run, 1 upgrade | 23 000 | the guard, the triggers, the gate, the loader |
| `v_shared` | a spec with two containers of one id | | a stated promise broken: see 14 |

Why the bounds are enough. In `sync_single` three releases give each kind of root
transition, in any order: a tag moved, one added, one retired, a description changed, and
either taken back. A record is made by one run and misread by a later one: runs are not
bounded, only failures, releases and operator acts are. One failure is the one that leaves
something behind; with two of them and two releases, or in three modes three releases,
nothing new shows. In `copy_walk` the plan of `r1` is a wide index, then a manifest they
share, then the first again (so that "copied before" is reached); `r2` has the shared one,
so that mounts between repositories happen; the permit pool of 1 makes waiting happen. The
wide index lists the child that has a referrer last, so that the error of the first one drops it
wherever the carry stands, and the later tags meet the claim it leaves. In `prepare` two faults allow a run cut short and a second
one cut short in what the first left, two edits a spec changed and changed back; the
content without executables makes the empty scan happen. In `mirror` three versions within
the pointer against a cap of two leave one outstanding in every full run, so backfill,
retry and late releases meet; two platforms tell "a newer version exists" from "a newer
version has this platform". In `pipeline` the first version can be completed by a later
run, and `latest` can mix versions; the one red, the one fault and the one patch meet in
every order. In `env` one version comes back in every run because ocx cannot parse it, two
fit in a run, and a libc leg can be red while the other is green. In `backfill` a tag and
an index lead to one image, and a tag can move under a pass. In `dist` a build is replaced
under its path, and a run is cut off in a run that repairs one that was cut off. In
`fleet` the names are chosen so that `x` + `yz` and `xy` + `z` are one destination, and
one source's package has a repository no path can name; the template `Hostless` gives two
upstream packages one destination. In `ci` an edit changes the
`extends:` chain itself, and two edits make and undo each flaw that the loader should
refuse.

`CHECK_DEADLOCK` is off where the program may have nothing to do: between jobs that find
nothing outstanding (`pipeline`, `env`, `dist`, `backfill`), and once the edits are used up
(`ci`, `v_shared`). In the other runs there is always another run to start.

Fairness is stated with each module above. In every case it is that a started job goes on
unless something stops it, and that a schedule the repository documents or generates starts
the next; failures are bounded, never fair.

## 13. Proofs

All theorems hold for every value of the constants that satisfies the `ASSUME`s of the
module concerned.

**`RegistrySyncProofs`**, for all sets of runs, packages, tags, contents and descriptions,
all bounds, modes and operator acts:

- `TypeCorrect`. The inductive invariant is `TypeInv`: `TypeOK` alone is not inductive, since a
  run holds indices into `releases` and dereferences them; `IndicesOK` adds that each such
  index is within what was published, which `PublishRoot` preserves because it appends only.
- `ContentHeld == Spec => []PublishedContentHeld`, by `ContentInv`: besides the published
  roots, the merge base a task carries, the committed tree and the tags a task has confirmed
  all name held contents. The base is stale by the time it is used; what makes it harmless
  is that `held` only grows, and the proof is exactly that.
- `ObjectsServed == Spec => []DispatchObjectsServed`, by `ObjectsInv`: from the phase after
  the dispatch objects on, a task's confirmed contents are on disk, as are those of its base;
  the committed tree is closed in the same sense. `CheckoutTree` takes dispatch objects *away*,
  so the invariant also needs `TasksIdle`: no task is under way while no run is.
- `MirrorRefined == Spec => IsAppendOnlyMirror`, the step simulation of `AppendOnlyMirror`, for
  one run at a time (`OneRun`: `Runs` has at most one member) over a tree that no checkout or
  deletion takes roots from (`TreeKept`). Both are needed: what keeps the tags is `BaseCurrent`,
  that the root a task merges into, read before the copy, is still the one on disk. One lemma
  says which steps store a content, one that a root is written by a merge alone.
- `SuccessMirrored == ... Spec => []SuccessfulRunMirrored` and `DescriptionsHeld == ... Spec =>
  []DescriptionsKept`, by one invariant, `SyncInv`. What a success rests on may be a record that
  an earlier run left, so the invariant is about the history behind it. `NotLater` says the
  publisher's history may lead from one document to another field by field, and `OrderInv`
  that what is recorded is not later than what a run found, nor that than what is listed,
  nor that than what is on disk: roots only move forward. As a history that takes nothing back
  is one way only (`Straight`), a record that fits what is listed was left by a run from which
  nothing moved on since, and what it brought (`Mirrored`) is still what the tree has
  (`RecordInv`). `OriginInv`, `ReadsInv` and `JobsInv` say where documents come from and what a
  task has established at each step, `TidyInv` what is beside a root.
  Four conditions; without any one of them TLC finds a counterexample: `OneRun` and `TreeKept` as above; `WidensOnly`, that an
  operator's edits of the filters only add packages (otherwise 14, "backfill of a root"); and
  that the publisher never serves a root a second time, byte for byte (`~Reverts`; 14, "a crash
  between the root write and the catalog commit"). The run `sync_single` satisfies the four.

**`CopyEngineProofs`**, for all graphs of manifests, plans, pools, fan-outs, failures, dropped
calls and aborted runs:

- `TypeCorrect`, `NothingDangles == Spec => []ManifestsComplete` and `MemoryTrue == Spec =>
  []LocationsTrue`, by `Inv`, which needs all three together: a blob is passed over on what the
  run remembers, and a push relies on the blobs that were. What it adds is `TreeOK` of each
  walk. `StateOK` says what a call has placed where it stands (the children before the one it
  waits for, the blobs it no longer works on, its manifest once it is past its push), and
  `LinkOK` what a call waits for when there are calls below it. A walk is closed under
  prefixes, so a call that has called nothing for what it waits for has nothing below it: that
  is why the step after a push, or after the last referrer, leaves no call without its caller.
  One lemma for each change of a walk (a step, a cut, a call, a child taken) and one per action.
- `CopiedSigned == ASSUME SoundGraph PROVE Spec => []CopiedIsSigned`, by `SignedInv`. Most calls
  do not carry the referrers they pass: they skip the ones another call claimed, so what is
  reported copied relies on the end of a carry elsewhere. The invariant follows each claim
  (`ClaimOK`): its carry is under way, or was dropped, or came to its end with the referrer whole
  at the destination. A call that skips a referrer under way relies on that carry: if the carry
  fails, its walk fails with it (`Unbroken`), and nothing is reported. A carry is held to more
  (`Excused`): a failure of its own may be given back and be met by another tag, so it may rely on
  no other carry, and it does not, as its content's referrers are carried by itself alone
  (`CarriedByOne`). The second half, that a dry run finds nothing more to do, is about the
  recursive `Missing`: that its equation has a solution on every acyclic graph, and that a manifest
  of least rank which lacked something would lack nothing. The theorem holds for every width of
  the walk, every order of the children and every failure; `SoundGraph` is about what is copied,
  and the graph of `copy_walk` satisfies it. `Acyclic`: past its ceilings on depth and hops the
  code refuses a walk. `OneSubject`: an OCI manifest names one. `ImagesAreLeaves`: one has layers
  or children. `ReferrersApart`: what refers to a manifest is no index, and no index lists it, which
  is what signatures and attestations are; a referrer that is an index could come to its end
  relying on a carry below another call, which then fails and gives its claim back.

**`RegistryFleetProofs`**, for all packages, roots, specs with any number of sources, pool
sizes, failures and kills, while the operator moves no destination (`~Rehoming`). `OwnerInv` is
the types, with `PlansOK` (what a plan knows of an index was served, and is served still or was
replaced), `CopyOK` (the run copies only once no two packages of the fleet meet in a path, and
what is under way is of the plan) and `DestOK` (a destination's tag was written by a selected
package of the fleet that expands to it, and is in the run's plan).

- `DestinationsNotOverwritten == Spec => NotOverwritten`. When a package lands at a destination,
  the tag's last writer is in the plan too, by `DestOK`, so the collision check has compared the
  two and found them in different places, or they are one. It assumes nothing of the packages
  served; the template with an upstream placeholder is left out by the property itself.
- `SuccessIsLanded == Spec => []SuccessLands`, by `LandInv`: what a record says was seen is at
  its destination if it is still served (`RecordOK`), each mirrored root is of a content that was
  copied there (`TreeOK`), so a short-circuited source is settled (`ShortOK`), and so is each
  source the run is through with unless it is red (`DoneOK`). It assumes `ContentTellsRoots`, that
  two roots of a package differ in their content: `should_skip` and the short-circuit compare
  digests. The run `fleet` satisfies both conditions.

**`PipelineProofs`, `TaskPrepare`**, for any number of edits and faults:

- `TaskTypeCorrect`, `PairedHolds == PrepareSpec => []PairedOnDisk` and `ReadyCurrent ==
  PrepareSpec => []ReadyIsCurrent`, by `TaskInv`. Beside the types it has `SidecarOK` (until a run accepts what
  `create` wrote there is no `metadata.json`, and one beside a bundle is that bundle's, of the
  authoring file beside it) and `FreshOK` (what a run past its resume test has established at
  each step). `PairedOnDisk` alone is not inductive: what keeps it is that a sidecar is
  dropped before a bundle is made.
- `ReadyDeclared`: under `OneAsset(asset)`, that every spec selects the same asset name,
  `PrepareSpec => []ReadyIsDeclared`. The strengthening `KeptOK` says an archive still on disk is what
  the bundle beside it was made from. With two asset names it is not: the resume key has
  neither the name nor `asset_type`.

**`PipelineProofs`, `MirrorRun`**, for all versions, platforms, releases, windows, caps, command lines,
failures and kills. The base is `TypeInv`: `TypeOK` and `CursorOK`, which says where the cursor
of a push is (the range is the lowest version still to do, a task under way is of it, what was
pushed is planned and no longer to do).

- `TypeCorrect`.
- `ForwardOnly == ASSUME Stamped PROVE Spec => TagsMoveForward`. By `OpenInv`: what a run has
  still to do is on no version tag, but for the task under way once it has moved its tag. By
  `ForwardInv`: `latest` is `Backed` by a build, `Landed` says the task under way has its own,
  and `Ahead` that what is left to do is of no older version than `latest` has, or that the run
  knows the build that will hold it back. The last is what the ascending order of versions and
  the blockers read at the start are for. Without a stamp there are no blockers and the theorem
  is false (14, "unstamped builds").
- `WantedOnly`, by `WantedInv`: what is planned is wanted as much as what is published; a
  raised pointer lets through what it let through before (`RaisedStillAdmits`), and a run
  without an answer has a plan only when no edge is a pointer. It assumes that the lower edge
  is no pointer: one that is raised stops wanting what was published under it.
- `SuccessComplete`, by `CompleteInv`: a run's stamps are above all it knows (`StampsAhead`, so
  that no build holds back its version tag), what is pushed has its tag and its signature, and
  either the run has something to report or each planned task is still to do or pushed, and
  each version the run has left has its index.

**`PipelineProofs`, `CiGeneration`**, for all files and edits of them, chains of bases, sets of
specs, hand edits and upgrades. `FilesAssumption` asks that the repository's files are
finitely many and that each key holds what a file can write there (`ValueOK`). Paths are words
in an order, so that a least one exists.

- `PublishedIsTested == CiSpec => []PublishedWasTested`, by `RunOK`: an artifact is green only if
  a leg of its platform and id is, and names that leg's tests; what was published was judged on
  the artifacts once no leg was left. The spec the push reads may be newer than the legs.
- `GreenGuardIsCurrent == CiSpec => []GreenIsCurrent`, by `GuardOK`: a verdict is of a tool no
  newer than the locked one, and a green one of this tool says that the specs the guard names
  load and render to what is committed. The step that matters is a commit to one file that the
  guard's triggers do not see. By `AgreedGuardSees` they see each named spec and each base of its
  chain, since the committed guard is what these specs render to; so the commit is to none of
  them, and by `SameLoad` each spec loads as before. That rests on what the walk over `extends:`
  computes: its chain is the one sequence of distinct files that starts at the spec, each
  file naming the next, whose last names none (`ResolvedIsChained` and its converse), and depends
  on no other file. The walk is over after as many steps as there are files.
- `EditsWakeTheirSpecs == ASSUME SuffixesTellApart PROVE CiSpec => EditWakesItsSpec`. Adds
  `CommittedOK`, that the guard names no more than a set of specs `generate ci` was called with.
  The mirror workflow of each is then what the spec renders to (`MirrorIsItsSpecs`), and watches
  its chain and its directory. It assumes that no two specs of a set share a suffix: otherwise one
  workflow has overwritten the other's. `reject_colliding_slots` does not ensure it, since it
  compares neighbours in path order only (14, "slots"). The run `ci` satisfies it.
- `AcceptedSpecsAreSound == CiSpec => []AcceptedIsSound`. `MergedIsOK`: each key of a merged
  document was written by a file of the chain. One lemma for each part of the property then shows
  which of the loader's rules it follows from, on the merged document.

**`PublicationProofs`**, for all tiles, windows, retries, revisions, failures and kills. The
base is `TypeInv`: `TypeOK`, `RunOK` and `PatchOK`, which relate each step of a job to what it
may hold at that step.

- `TypeCorrect`: among the rest, that a version's tag only ever names images of that version.
- `UncuratedReported`, by `ReportInv`: before the sweep and the announce are tried, a summary
  with a pending outcome that names the tags is on disk.
- `AliasesGated`, by `GateInv`: a tile whose last verdict is red is held by no tag, and once a
  run is past its verdicts it counts the version's red platforms as failed. So neither the
  run's own pushes nor the re-cascade of its end reach `latest` with one.
- `SuccessCurated`, by `CuratedInv`: what a run has landed is signed; its union is covered by
  what the sweep sealed and the announce curated, as long as no patch raced it.
- `WholeVersionRolled`, by `CascadeInv`: while a version is being pushed whole, each platform
  already pushed is at `latest`, or a newer version has it.
- `PatchWhole`, by `WholePatch`: each version a patch is past is at its revision throughout.

**`EnvMirrorProofs`**, for all keys, legs, wheels, caps, any versions parsed or not. The base
is `TypeInv`: `TypeOK` and `RunOK`.

- `TypeCorrect`.
- `PublishedIsKept`, by `FreshInv`: what a run has left to do of a parsed version was not on
  its tag when it planned and is not now, since only the run itself adds to it.
- `ReportedIsThere`, by `DoneInv`: each environment that has left the list of what is to do
  while the run is not red is on its exact tag, from the lock of this run.
- `LatestIsWhole`, by `CoveredInv`: what the tag of a version lacks is in the run's plan for it,
  so that a version with nothing failed or missing has every key.
- `ServedIsTested`, by `GatedInv`: what is ready to be pushed had all its gating legs green.
  It assumes `KeysApart`: that two keys of one platform differ in their libc and none of two
  goes without. The code does not ensure it (14, "a key without a libc").

**`DistSyncProofs`**, for all releases, layouts, specs, pools, rebuilds, failures, kills and
lost trees. The base is `TypeInv`: `TypesOK` and `RunOK`, that a run has a row for each release
of its manifest and that upstream has had it.

- `TypeCorrect`.
- `AlwaysServed == Spec => []ServedResolves`, by `ServedInv`: rows that are not refused have
  paths of their own (`PathsApart`); what a row has behind it at each of its steps
  (`RowsHold`); a served manifest names nothing upstream has not had, and of what upstream
  still has, what the run is mirroring (`NamedOK`); a document is in the store before those that
  name it (`OrderOK`).

**`SignBackfillProofs`**, for all manifests, indexes, tags, signature kinds and command lines,
and any number of passes, moved tags, failures, retries, interrupts and kills. `Inv` is
`TypesOK`, stated of `run` as one record, and `PassInv`. The plan is treated first, for any
registry: `PlanCovers`, that the subjects of its targets are what the tags serve;
`PlanDistinct`, that no two targets have one subject, though each digest may be reached from
several tags, as an index or as a child; `PlanReaches`, that the child of a target acts on its
subject alone.

- `TypeCorrect`.
- `EverySubjectOnce == Spec => []EverySubjectHasItsRow`, by `Planned`: a target of the plan is
  still to do or has one row.
- `SuccessSigned == Spec => []SuccessIsSigned`, by `RowOK`: what a row says of its subject stays
  true while tags stay, since no step takes a signature away; and by `FailuresExit`, that the
  worst of some failures is no success.
- `SignedOnce == Spec => []OneSignatureEach`, by `Counted`: a subject has the signatures of its
  lost attempts, and one more once its target is done.

A moved tag makes the last two vacuous until the next pass, as the properties say; the first
holds all the same, since `run.found` is what the pass was about.

Invariants are split in named parts, with one lemma per action that disturbs a part and frame
lemmas for the rest; the temporal step cites `Init => Inv`, `Inv /\ [Next]_vars => Inv'` and
`Inv => property`.

Only model-checked: liveness and the use of fairness, which the prover does not reach
(`Converges` in each module, `Recovers`). Every safety and action property of the passing runs is
a theorem. Induction over data, which is out of its reach too, is not needed: where a proof asks
for a least number, a shortest walk or a manifest of least rank, it takes one from a
well-founded order on finite sets (`MinimalSet`).

## 14. What the specification found

Kept as a run with a property that states the quoted promise:

- **shared ids** (`v_shared`; `src/command/package/pipeline/push/gating.rs:98`). Two
  containers of one platform with the same `id:`, or the same image, write one JUnit
  artifact; the gate reads the one file for both. `push/verdict.rs:24` says "all containers
  must be green".

Met while modelling, against a text of the repository; each is a case the properties leave
out by a named condition, or that shows under other constants:

- **description** (`registry_sync.rs:831`). A failed description copy fails the package but
  does not hold back its root; the root satisfies `should_skip`, so no later run copies the
  description. `registry_copy.rs:615` says the next ordinary run repairs it.
- **claims** (`registry_copy.rs:1979`). A referrer's claim is released when its carry returns
  an error, not when its future is dropped. An earlier child's error drops a sibling that
  holds a claim, wherever its carry stands; the next tag that shares the manifest skips the
  referrer and is reported copied. `registry_copy.rs:1955` says "The claim is released on every
  error path, so it records only a *completed* carry". `CopiedIsSigned` names the exception,
  `Forgone`; with `dropped` left empty (`FailChild` without its last conjunct but one) `copy_walk`
  shows the trace in which the unsigned content is reported copied.
- **backfill of a root** (`registry_sync/plan.rs:367`). Deleting a root to backfill it, as
  `docs/reference/registry-yml.md:305` advises, leaves `c/index.json` as recorded, and the next
  run short-circuits. The same lines pass over a package mirrored under an earlier, wider filter.
- **a record that fits again** (`registry_sync/plan.rs`, the short circuit). A run that succeeds
  records the catalog it read and the mirrored catalog it found. Let it find X, read the
  upstream's second root and publish it; let the next run fetch the third root, which takes a
  tag back to what X named and is served but not listed yet, and fail on another tag of it. The
  merged root is X again, so the run after sees both catalogs as recorded and reports success
  over a root that covers neither release. It lasts until the listing moves. The same holds of
  a description taken back: its tag is read after the root and may be ahead of it, and a
  root that is skipped copies nothing. And it reaches beyond the package that goes back: the
  two digests are of whole catalogs, so if the package's way back makes them fit again, a
  second package is passed over with it, one whose newest root was written but never listed
  because that run was killed before the catalog commit. The proof of `SuccessMirrored` stopped
  at that case. `NothingTakenBack` in `SuccessfulRunMirrored` and `DescriptionsKept` names all
  three.
- **overwrite** (`crates/ocx_mirror_spec/src/registry.rs:247`). `{upstream_repository}` alone is
  accepted with several sources and left out of the collision check, and so is a template with
  `{upstream_host}` alone; packages of two upstream registries that share a path overwrite one
  another. `docs/reference/registry-yml.md:196`: "It cannot become a silent overwrite".
  The comment at registry.rs:241-244 says so too: "a duplicate rather than an overwrite".
  `NotOverwritten` is stated without these templates; without its condition the run `fleet`
  violates it, under the template `Hostless`.
- **rehoming** (`registry_sync/index_write.rs:675`). Neither the short-circuit nor
  `should_skip` looks at where a package landed: after an edit of `destination:` nothing is
  copied to the new path until its root changes. `docs/reference/registry-yml.md:205`: "The next run copies every
  package again under the new paths". (`Specs <- MCMoved`, `Rehoming = TRUE`, against
  `SuccessLands`.)
- **download** (`download.rs`, `File::create`). A download that fails after its response
  headers leaves an empty file, and the next run asks only whether the file exists: a plain
  binary is bundled empty, an archive fails for good; the same for wheels. `download.rs:29`
  refuses an empty body, and `orchestrator.rs:456` keeps the directory to resume.
- **unstamped builds** (`crates/ocx_mirror_spec/src/version_platform_map.rs:73`). Cascade
  blockers are the versions with a build part. Under `build_timestamp: none` there are none,
  so the backfill of an older version moves `latest` back to it. `push.rs:22` says they
  "already provide correct blocking semantics".
- **a partial version with an alias** (`src/command/package/pipeline/push.rs`). Verdicts are
  decided before any push, but a push that fails after another platform of the version was
  pushed with `--cascade` leaves the aliases on a version that ends partial.
  `docs/reference/mirror-yml.md:1277`: "A version any platform of which failed never gets
  one"; `push.rs:864` relies on it for the announce.
- **a dist row that clobbers** (`dist_sync/upload.rs`). An archive that upstream replaces under
  its path overwrites the store's while the `dist.json` served still names the old digest;
  if the run fails after, it stays so. `docs/reference/dist-yml.md:410`: "its previous,
  internally consistent manifest". `Current` in `ServedResolves` is this case.
- **`package sync` and windows**. The per-platform `min_version`, `max_version` and `exclude`
  are read by the pipeline only; `docs/reference/mirror-yml.md:1070` says such a pair is "never
  resolved", and `:3` that `package sync` reads the same file.
- **`cascade: false` with a build stamp**. The bare `X.Y.Z` is never written, which is what the
  plan asks the target for, so `package sync` publishes the version again in each run
  (`docs/reference/mirror-yml.md:690`, `:807`).
- **untested publication**. `tests:` is said to be required (`docs/reference/mirror-yml.md:26`), but
  a platform with an empty list of its own is published untested, and per-platform tests
  never pass `validate_tests`.
- **a key without a libc** beside one with it, on one platform, is gated by a leg that tested
  the other environment: `KeysApart` excludes it in the proof.
- **slots** (`generate/ci.rs`). `reject_colliding_slots` compares adjacent specs only;
  `docs/reference/mirror-yml.md:1493` says two specs in a directory are rejected.

Consequences of the code that are documented, or that no text of the repository denies, and
so are limits of the runs rather than findings:

- Two runs on one tree lose tags (the base is read before the copy, outside the lock), and
  one run's prune may remove a description object the other has just published (the prune is
  outside the lock). `docs/reference/registry-yml.md:422` asks operators to prevent two runs.
- The record fingerprints the mirrored catalog a run *found*; a tree put back to that commit
  short-circuits.
- A crash between the root write and the catalog commit is repaired by the third condition
  of `should_skip`, unless the upstream reverts to the recorded catalog first (`Reverts`).
- A signature the destination's operator makes between the read of the signature tag and its
  push is overwritten; a dry run counts a signature tag that differs as a copy to come.
- Without a Referrers API, a referrer claimed for one subject is not appended to the index
  of a second subject of the same package that names it.
- A package that upstream delists keeps its mirrored root but no longer claims its destination.
- A push cut short after it moved the version's tag reads as published: no later `package sync`
  moves the tags it had left. The signature is a sign backfill's work.
- A preparation that panics leaves no result: the run reports success without it, and the
  next run plans it again. Under a `datetime` stamp a later run has another directory.
- A killed run that left a newer version partial blocks an older version's cascade until the
  scheduled repair. One version's failing prepare reds the whole run, though others publish.
- A patch that races a publish run may leave an image of the old revision; its early error
  returns skip the sweep and the announce; `latest` with images of two versions is left
  unsigned. The next sweep or catch-up repairs the index's view.
- In `dist sync` a store that tells no checksums is trusted to hold what it says; the rendered
  files are not replaced atomically, so a kill may leave one torn in the tree.
- A Python plan is aborted whole by one lock that cannot be solved. With a cap no greater than the
  number of versions ocx cannot parse, which come back in each run, the others starve. The
  cascade of an older parsed version takes `latest` back from a newer one ocx cannot parse.
- When only the musl key of a version is outstanding, a red glibc leg still reds the run.
- The drift guard is not triggered by a change of the locked tool; the next relevant commit finds it.

## 15. What is left

1. **Compositions**: a `TaskPrepare` per task inside `Publication`; several `package sync`
   variants of one spec, whose tags are kept apart by `TagsHaveOneOwner` only.
2. **The fleet while its destinations move** (`Rehoming`): what a record still says of a
   destination that was left.
