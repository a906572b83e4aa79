---------------------------- MODULE TaskPrepare ----------------------------
(* The directory of one task, `{work_dir}/{version}/{platform_slug}/`, under   *)
(* run after run of `prepare_task`: the download, its check, the extracted     *)
(* tree, the input and the two outputs of `ocx package create`, the resume     *)
(* that reuses them and the clean-up after a push.  Modelled from              *)
(*   crates/ocx_mirror_pipeline/src/orchestrator.rs, download.rs, verify.rs,   *)
(*   package.rs and ocx_cli/create.rs                                         *)
(*                                                                            *)
(* A run may be killed at any step, the spec edited and the upstream asset     *)
(* replaced.  A digest is the content it is the digest of.                     *)
EXTENDS Naturals, Optional

CONSTANTS
    Assets,         \* asset names a spec can select for the task
    Contents,       \* complete contents of an asset
    HasCommands,    \* the contents in which a bin_scan finds an executable
    Metas,          \* authoring metadata, as rendered from a spec
    Declaring,      \* the metadata that list `binaries` themselves
    Specs,          \* what a spec can ask of the task
    PlainBinary,    \* asset_type: binary and not compressed, so copied unread
    Torn,           \* the bytes of a download that did not complete
    MaxChanges,     \* bound: edits of the spec and replacements upstream
    MaxKills        \* bound: failures and kills

SpecRecords == [asset : Assets, meta : Metas, scan : BOOLEAN,
                digest : Contents \cup {None}, require : BOOLEAN]

ASSUME SpecAssumption == Specs \subseteq SpecRecords /\ Specs # {}
ASSUME SubsetAssumption == HasCommands \subseteq Contents /\ Declaring \subseteq Metas
ASSUME TaskBounds ==
    MaxChanges \in Nat /\ MaxKills \in Nat /\ PlainBinary \in BOOLEAN

VARIABLES
    spec,       \* what the spec asks now
    served,     \* upstream: the content under each asset name
    archive,    \* disk: the downloaded bytes of each asset name
    tree,       \* disk: `content/`, as the set of bytes laid out in it
    authoring,  \* disk: `authoring-metadata.json`, create's input
    bundle,     \* disk: `bundle.tar.xz`
    compiled,   \* disk: `bundle-metadata.json`, create's sidecar
    sidecar,    \* disk: `metadata.json`, the sidecar under its published name
    stage,      \* where the run under way is
    job,        \* the task as that run read it
    changes, kills

outside == <<spec, served, changes>>
created == <<bundle, compiled, sidecar>>
disk == <<archive, tree, authoring, created>>
taskVars == <<outside, disk, stage, job, kills>>

Bytes == Contents \cup {Torn}
Files == [from : SUBSET Bytes, meta : Metas \cup {None}]
Sidecars == [from : SUBSET Bytes, meta : Metas \cup {None}, claim : {"absent", "empty", "named"}]
Stages == {"idle", "resume", "download", "body", "verify", "extract", "author",
           "create", "accept", "ready", "clean"}

ASSUME TaskNone ==
    None \notin Bytes /\ None \notin Metas /\ None \notin Files /\ None \notin Sidecars
ASSUME TornAssumption == Torn \notin Contents

TaskTypeOK ==
    /\ spec \in Specs /\ served \in [Assets -> Contents]
    /\ archive \in [Assets -> Bytes \cup {None}] /\ tree \subseteq Bytes
    /\ authoring \in Metas \cup {None} /\ bundle \in Files \cup {None}
    /\ compiled \in Sidecars \cup {None} /\ sidecar \in Sidecars \cup {None}
    /\ stage \in Stages /\ job \in Specs
    /\ changes \in 0..MaxChanges /\ kills \in 0..MaxKills

PrepareInit ==
    /\ spec \in Specs /\ served \in [Assets -> Contents]
    /\ archive = [a \in Assets |-> None] /\ tree = {} /\ authoring = None
    /\ bundle = None /\ compiled = None /\ sidecar = None
    /\ stage = "idle" /\ job = spec
    /\ changes = 0 /\ kills = 0

-----------------------------------------------------------------------------

Edit == changes < MaxChanges /\ changes' = changes + 1

\* The maintainer edits the spec, or the source lists another digest.
EditSpec ==
    /\ Edit
    /\ spec' \in Specs \ {spec}
    /\ UNCHANGED <<served, disk, stage, job, kills>>

\* Upstream replaces an asset under the same name.
Replace ==
    /\ Edit
    /\ \E a \in Assets, c \in Contents : c # served[a] /\ served' = [served EXCEPT ![a] = c]
    /\ UNCHANGED <<spec, disk, stage, job, kills>>

Fault == kills < MaxKills /\ kills' = kills + 1

\* The run goes on to `step` with the disk as it is.
GoTo(step) == stage' = step /\ UNCHANGED <<outside, disk, job>>

\* The run is killed, or one of its steps fails before it changes the disk.
Stop ==
    /\ stage # "idle"
    /\ Fault
    /\ GoTo("idle")

\* A refusal: the task fails and the directory stays as it is.
Refuse == GoTo("idle") /\ UNCHANGED kills

Begin ==
    /\ stage = "idle"
    /\ job' = spec
    /\ stage' = "resume"
    /\ UNCHANGED <<outside, disk, kills>>

-----------------------------------------------------------------------------
(* The resume.                                                                *)

\* Faulty variant of Resumable: without the resume key.
ResumableWithoutKey(j) == bundle # None /\ sidecar # None

\* The metadata the spec renders is what the sidecar on disk was compiled from.
Resumable(j) == bundle # None /\ sidecar # None /\ authoring = j.meta

\* reject_empty_scan lets a claim pass.
Claims(j, claim) == j.scan => claim = "named"

\* Faulty variant of Rechecked: with the archive gone the bundle is adopted.
RecheckedIfPresent(j) ==
    IF j.digest # None THEN archive[j.asset] \in {None, j.digest} ELSE ~j.require

\* Faulty variant of Rechecked: no bundle is adopted without its archive.
RecheckedWithArchive(j) ==
    archive[j.asset] # None /\ (IF j.digest # None THEN archive[j.asset] = j.digest ELSE ~j.require)

\* The check of the declared digest a resume can still make.
Rechecked(j) == IF j.digest # None THEN archive[j.asset] = j.digest ELSE ~j.require

Resume ==
    /\ stage = "resume"
    /\ Resumable(job)
    /\ \/ Rechecked(job) /\ Claims(job, sidecar.claim) /\ GoTo("ready") /\ UNCHANGED kills
       \/ ~(Rechecked(job) /\ Claims(job, sidecar.claim)) /\ Refuse

\* Whatever sidecar is here was compiled from other input.
DropSidecar ==
    /\ stage = "resume"
    /\ ~Resumable(job)
    /\ sidecar' = None
    /\ stage' = "download"
    /\ UNCHANGED <<outside, archive, tree, authoring, bundle, compiled, job, kills>>

-----------------------------------------------------------------------------
(* Download and verify.                                                       *)

SkipDownload ==
    /\ stage = "download"
    /\ archive[job.asset] # None
    /\ GoTo("verify") /\ UNCHANGED kills

\* The response is good, and its file is made before the body is read.
OpenDownload ==
    /\ stage = "download"
    /\ archive[job.asset] = None
    /\ archive' = [archive EXCEPT ![job.asset] = Torn]
    /\ stage' = "body"
    /\ UNCHANGED <<outside, tree, authoring, created, job, kills>>

ReadBody ==
    /\ stage = "body"
    /\ archive' = [archive EXCEPT ![job.asset] = served[job.asset]]
    /\ stage' = "verify"
    /\ UNCHANGED <<outside, tree, authoring, created, job, kills>>

Verified(j) == IF j.digest # None THEN archive[j.asset] = j.digest ELSE ~j.require

Verify ==
    /\ stage = "verify"
    /\ \/ Verified(job) /\ GoTo("extract") /\ UNCHANGED kills
       \/ ~Verified(job) /\ Refuse

-----------------------------------------------------------------------------
(* Extract, create and accept.                                                *)

\* `content/` once it is emptied and `bytes` are laid out in it.
LaidOut(bytes) == {bytes}

\* An archive that did not complete cannot be extracted; a plain binary is copied.
Extract ==
    /\ stage = "extract"
    /\ tree' = LaidOut(archive[job.asset])
    /\ stage' = IF archive[job.asset] = Torn /\ ~PlainBinary THEN "idle" ELSE "author"
    /\ UNCHANGED <<outside, archive, authoring, created, job, kills>>

WriteAuthoring ==
    /\ stage = "author"
    /\ authoring' = job.meta
    /\ stage' = "create"
    /\ UNCHANGED <<outside, archive, tree, created, job, kills>>

\* The `binaries` of the compiled sidecar: as declared, scanned, or left out.
Claim(meta, scan, from) ==
    IF meta \in Declaring THEN "named"
    ELSE IF ~scan THEN "absent"
    ELSE IF from \cap HasCommands # {} THEN "named" ELSE "empty"

Bundle == [from |-> tree, meta |-> authoring]
Compiled ==
    [from |-> tree, meta |-> authoring, claim |-> Claim(authoring, job.scan, tree)]

\* `ocx package create` writes its two files, or is refused or killed with some.
Create ==
    /\ stage = "create"
    /\ UNCHANGED <<outside, archive, tree, authoring, sidecar, job>>
    /\ \/ bundle' = Bundle /\ compiled' = Compiled /\ stage' = "accept" /\ UNCHANGED kills
       \/ /\ Fault
          /\ stage' = "idle"
          /\ \/ bundle' = Bundle /\ UNCHANGED compiled
             \/ compiled' = Compiled /\ UNCHANGED bundle

\* The compiled sidecar takes the name CI and resume look for; the tree may be left.
Accept ==
    /\ stage = "accept"
    /\ Claims(job, compiled.claim)
    /\ sidecar' = compiled /\ compiled' = None
    /\ tree' \in {{}, tree}
    /\ stage' = "ready"
    /\ UNCHANGED <<outside, archive, authoring, bundle, job, kills>>

RejectEmptyScan ==
    /\ stage = "accept"
    /\ ~Claims(job, compiled.claim)
    /\ Refuse

-----------------------------------------------------------------------------
(* What follows the task: a push and, once it succeeded, clean_task_dir.       *)

Push ==
    /\ stage = "ready"
    /\ GoTo("clean") /\ UNCHANGED kills

\* One more file of the directory is gone, in whatever order it is listed; create's
\* own sidecar is not among them, as Accept renamed it.
Unlink ==
    \/ /\ \E a \in Assets : archive[a] # None /\ archive' = [archive EXCEPT ![a] = None]
       /\ UNCHANGED <<tree, authoring, created>>
    \/ tree # {} /\ tree' = {} /\ UNCHANGED <<archive, authoring, created>>
    \/ authoring # None /\ authoring' = None /\ UNCHANGED <<archive, tree, created>>
    \/ bundle # None /\ bundle' = None /\ UNCHANGED <<archive, tree, authoring, compiled, sidecar>>
    \/ sidecar # None /\ sidecar' = None /\ UNCHANGED <<archive, tree, authoring, bundle, compiled>>

Clean ==
    /\ stage = "clean"
    /\ Unlink
    /\ UNCHANGED <<outside, stage, job, kills>>

Emptied == <<[a \in Assets |-> None], {}, None, <<None, None, None>>>>

EndClean ==
    /\ stage = "clean"
    /\ disk = Emptied
    /\ GoTo("idle") /\ UNCHANGED kills

-----------------------------------------------------------------------------

Run == \/ Begin \/ Resume \/ DropSidecar
       \/ SkipDownload \/ OpenDownload \/ ReadBody \/ Verify
       \/ Extract \/ WriteAuthoring \/ Create \/ Accept \/ RejectEmptyScan
       \/ Push \/ Clean \/ EndClean

PrepareNext == Run \/ Stop \/ EditSpec \/ Replace

PrepareSpec == PrepareInit /\ [][PrepareNext]_taskVars

\* Runs are started again and again, and a run that is not killed goes on.
FairPrepareSpec == PrepareSpec /\ WF_taskVars(Run)

-----------------------------------------------------------------------------
(* Properties.                                                                *)

\* What a run hands to the push was made from the bytes the publisher declared,
\* and `require` never lets an undeclared asset through: the digest a resume
\* re-checks against the archive is the digest of what the bundle was made from,
\* across kills, clean-ups cut short and assets replaced upstream (prepare_task).
ReadyIsDeclared ==
    stage = "ready" =>
        /\ job.digest # None => bundle.from = {job.digest}
        /\ job.require => job.digest # None

\* What a run hands to the push is the spec it read: bundle and sidecar come from
\* one create, of the metadata the spec renders, over one asset, and the sidecar
\* of a scanning task claims a command (prepare_task, reject_empty_scan).
ReadyIsCurrent ==
    stage = "ready" =>
        /\ bundle.meta = job.meta
        /\ sidecar = [from |-> bundle.from, meta |-> job.meta, claim |-> sidecar.claim]
        /\ \E bytes \in Bytes : bundle.from = {bytes}
        /\ job.scan => sidecar.claim = "named"

\* A bundle and a `metadata.json` found in the directory at any time, by the CI
\* step that copies the two or by a later run, come from the same create.
PairedOnDisk ==
    bundle # None /\ sidecar # None =>
        bundle.from = sidecar.from /\ bundle.meta = sidecar.meta

\* What makes a directory fail every run until a person removes files from it or
\* changes the spec: the policy, a kept or served asset that is not the declared one,
\* a bundle to re-check whose archive is gone, a download cut short, an empty scan.
Wedged ==
    LET kept == archive[spec.asset]
        next == IF kept = None THEN served[spec.asset] ELSE kept
    IN  \/ spec.require /\ spec.digest = None
        \/ spec.digest # None /\ next # spec.digest
        \/ spec.digest # None /\ kept = None /\ Resumable(spec)
        \/ kept = Torn /\ ~PlainBinary
        \/ spec.scan /\ Resumable(spec) /\ sidecar.claim # "named"
        \/ Claim(spec.meta, spec.scan, {next}) = "empty"

\* Whatever an interrupted run leaves, later runs finish the task, unless the
\* directory is in one of the listed states for good (execute_mirror: "the next run
\* can resume from whatever stage completed").
Recovers == <>[]Wedged \/ []<>(stage = "clean")
=============================================================================
