---------------------------- MODULE Publication ----------------------------
(* The CI pipeline of one mirrored package and the registry it publishes to:   *)
(* publish runs (plan, prepare, test, push, sign, announce), `pipeline patch`,  *)
(* the scheduled cascade repair and the announce from the registry.  Modelled  *)
(* from src/src/command/package/pipeline/{plan,prepare,push,patch,cascade,      *)
(* announce,sign}.rs, push/{alias,verdict,bundles}.rs and                      *)
(* crates/ocx_mirror_pipeline/src/ocx_cli/{push,announce,sign}.rs              *)
(*                                                                            *)
(* The spec mirrors an archive source with `cascade: true`, a `sign:` and an   *)
(* `announce:` block, and a credential for each.  `latest` stands for the      *)
(* rolling tags.  The digest of an index is its content, the digest of an      *)
(* image the version and the metadata revision it was built from.              *)
EXTENDS Naturals, FiniteSets, FiniteSetsExt

CONSTANTS
    Tiles,          \* the (version, platform) pairs upstream may release; versions are
                    \* numbered in their order, platforms in that of the spec
    Offered,        \* those that are there from the start
    Windows,        \* platforms: [min, max, exclude] of each platform
    MaxRetries,     \* concurrency.max_retries of a push
    MaxRevision,    \* bound: edits of the spec's metadata
    MaxReds,        \* bound: runs with a failed preparation or a red test
    MaxFaults       \* bound: failed commands and kills

ASSUME TileAssumption == Tiles \subseteq (Nat \ {0}) \X Nat /\ IsFiniteSet(Tiles)
ASSUME OfferedAssumption == Offered \subseteq Tiles
ASSUME WindowAssumption ==
    Windows \in [{t[2] : t \in Tiles} -> [min : Nat, max : Nat, exclude : SUBSET Nat]]
ASSUME BoundAssumption == MaxRetries \in Nat /\ MaxRevision \in Nat
ASSUME FaultAssumption == MaxReds \in Nat /\ MaxFaults \in Nat

VARIABLES
    source,     \* upstream: the released (version, platform) tiles
    revision,   \* the revision of the metadata in the spec
    tags,       \* registry: the index of each tag, empty when there is no tag
    signed,     \* registry: the signed images, with their platforms
    sealed,     \* registry: the tags that serve a signed index
    listed,     \* package index: the tags it curates
    fresh,      \* those of them it has the digest of that the registry serves
    run,        \* the publish run under way
    summary,    \* run-summary.json of the latest run
    patch,      \* the patch job under way
    red,        \* the tiles whose last JUnit reports were red or missing
    reds,
    faults

tests == <<red, reds>>
registry == <<tags, signed, sealed>>
index == <<listed, fresh>>
published == <<registry, index>>
vars == <<source, revision, published, run, summary, patch, tests, faults>>

VersionsOf(tiles) == {t[1] : t \in tiles}
Versions == VersionsOf(Tiles)
Platforms == {t[2] : t \in Tiles}
latest == 0
Tags == Versions \cup {latest}
None == <<0, 0>>
Images == Versions \X (0..MaxRevision)
Index == [Platforms -> Images \cup {None}]
Absent == [p \in Platforms |-> None]

NoRun == [step |-> "idle", revision |-> 0, plan |-> {}, todo |-> {}, version |-> 0,
          ready |-> {}, failed |-> {}, pushed |-> {}, wrote |-> {}, attempt |-> 0,
          landed |-> {}, union |-> {}, red |-> FALSE, stranded |-> {}, swept |-> TRUE,
          raced |-> FALSE]
NoSummary == [announce |-> "none", union |-> {}, any_red |-> FALSE, any_new_green |-> FALSE]
NoPatch == [step |-> "idle", revision |-> 0, todo |-> {}, version |-> 0, images |-> {},
            patched |-> {}, ok |-> TRUE, raced |-> FALSE]

RunSteps == {"idle", "test", "version", "push", "sweep", "announce"}
PatchSteps == {"idle", "version", "image", "sweep", "announce"}
Outcomes == {"none", "interrupted", "nothing", "announced", "failed"}

RunStates ==
    [step : RunSteps, revision : 0..MaxRevision, plan : SUBSET Tiles, todo : SUBSET Tiles,
     version : Tags, ready : SUBSET Platforms, failed : SUBSET Platforms,
     pushed : SUBSET Platforms, wrote : SUBSET Tags, attempt : 0..MaxRetries,
     landed : SUBSET Tiles, union : SUBSET Tags, red : BOOLEAN, stranded : SUBSET Tags,
     swept : BOOLEAN, raced : BOOLEAN]
Summaries ==
    [announce : Outcomes, union : SUBSET Tags, any_red : BOOLEAN, any_new_green : BOOLEAN]
PatchStates ==
    [step : PatchSteps, revision : 0..MaxRevision, todo : SUBSET Versions, version : Tags,
     images : SUBSET Platforms, patched : SUBSET Versions, ok : BOOLEAN, raced : BOOLEAN]

\* The jobs, the world they read, and the registry and index they write to.
RunTypes ==
    /\ run \in RunStates /\ run.todo \subseteq run.plan
    /\ run.ready \cap (run.failed \cup run.pushed) = {}
JobTypes == RunTypes /\ summary \in Summaries /\ patch \in PatchStates
WorldTypes ==
    /\ source \subseteq Tiles /\ red \subseteq Tiles
    /\ revision \in 0..MaxRevision /\ reds \in 0..MaxReds /\ faults \in 0..MaxFaults
TagTypes ==
    /\ tags \in [Tags -> Index]
    /\ \A v \in Versions : \A p \in Platforms : tags[v][p][1] \in {0, v}
RegistryTypes ==
    /\ TagTypes /\ fresh \subseteq listed /\ listed \subseteq Tags
    /\ signed \subseteq Platforms \X Images /\ sealed \subseteq Tags

TypeOK == JobTypes /\ WorldTypes /\ RegistryTypes

Init ==
    /\ source = Offered /\ revision = 0 /\ red = {} /\ reds = 0 /\ faults = 0
    /\ tags = [t \in Tags |-> Absent] /\ listed = {} /\ fresh = {}
    /\ signed = {} /\ sealed = {}
    /\ run = NoRun /\ summary = NoSummary /\ patch = NoPatch

Failure == faults < MaxFaults /\ faults' = faults + 1

\* A listing of the repository; one that fails ends the job that asked (issue #157).
Served == {t \in Tags : tags[t] # Absent}

\* The platforms in a tag's index, and the images it names.
Holds(v) == {p \in Platforms : tags[v][p] # None}
index_children(v) == [p \in Holds(v) |-> tags[v][p]]

\* The metadata an image's config blob records.
fetch_published_metadata(image) == image[2]

\* The registry's tags become these.  A signature is filed against a digest: a tag that
\* takes the index of another has its signature too.
Write(new) ==
    /\ tags' = new
    /\ sealed' = {t \in Tags : \E u \in sealed : tags[u] = new[t]}
    /\ fresh' = {t \in fresh : new[t] = tags[t]}

\* The indexes behind these tags are signed.
Seal(ts) == sealed' = sealed \cup {t \in Tags : \E u \in ts : tags[t] = tags[u]}

\* Upstream releases a tile.  A run lists upstream once, at its start.
Release ==
    /\ run.step = "idle"
    /\ \E t \in Tiles \ source : source' = source \cup {t}
    /\ UNCHANGED <<revision, published, run, summary, patch, tests, faults>>

\* The maintainer edits the metadata every image is published with.
EditSpec ==
    /\ revision < MaxRevision /\ revision' = revision + 1
    /\ UNCHANGED <<source, published, run, summary, patch, tests, faults>>

-----------------------------------------------------------------------------
(* Plan, prepare and test.                                                    *)

within_bounds(v, window) == window.min <= v /\ v < window.max
exclude_hit(t) == t[1] \in Windows[t[2]].exclude

\* A tile outside its platform's window, or in a hole of it, is never scheduled.
platform_applies(t) == within_bounds(t[1], Windows[t[2]]) /\ ~exclude_hit(t)
Applicable == {t \in source : platform_applies(t)}

\* The tiles a version tag holds.
Published == {t \in Tiles : t[1] \in Served /\ t[2] \in Holds(t[1])}

\* Faulty variant of Outstanding: a version with a tag is done.
NewVersionsOnly == {t \in Applicable : t[1] \notin VersionsOf(Published)}

\* Faulty variant of Outstanding: whatever has an asset is scheduled.
EveryTile == source \ Published

\* New versions and the missing platforms of the others.  Drift of what is published is
\* reported, and left to a patch.
Outstanding == Applicable \ Published

\* An entry for every version with something outstanding; the metadata is read with it.
Planned == [NoRun EXCEPT !.step = "test", !.revision = revision, !.plan = Outstanding]

Plan ==
    /\ run.step = "idle" /\ Outstanding # {}
    /\ run' = Planned
    /\ summary' = NoSummary
    /\ UNCHANGED <<source, revision, published, patch, tests, faults>>

\* What the plan asks of a version's prepare job.
plan_entries_for_version(v) == {t \in run.plan : t[1] = v}

\* One prepare job per version: it uploads every bundle of the version or none.
Bundles(built) == UNION {plan_entries_for_version(v) : v \in built}

\* If any prepare job fails no test job starts.  The push job runs nevertheless, on the
\* bundles there are; a tile without a JUnit report is red.
Test ==
    /\ run.step = "test"
    /\ \E built \in SUBSET VersionsOf(run.plan) :
         LET bundles == Bundles(built) IN
         \E green \in SUBSET bundles :
           /\ built # VersionsOf(run.plan) => green = {}
           /\ IF green = run.plan THEN UNCHANGED reds ELSE reds < MaxReds /\ reds' = reds + 1
           /\ run' = [run EXCEPT !.step = "version", !.plan = bundles, !.todo = bundles]
           /\ red' = (red \ bundles) \cup (bundles \ green)
    /\ UNCHANGED <<source, revision, published, summary, patch, faults>>

-----------------------------------------------------------------------------
(* Push: the versions oldest first.                                           *)

\* A reference of the `sign:` block that names no variable or file: the push job ends
\* before its first push, and leaves no summary.
Unresolved ==
    /\ run.step = "version" /\ run.todo = run.plan /\ run.union = {} /\ Failure
    /\ run' = NoRun
    /\ UNCHANGED <<source, revision, published, summary, patch, tests>>

\* Phase 1: every platform of the version is decided before any is pushed.
BeginVersion ==
    /\ run.step = "version" /\ run.todo # {}
    /\ LET v == Min(VersionsOf(run.todo))
           legs == {t[2] : t \in {t \in run.todo : t[1] = v}}
       IN  run' = [run EXCEPT !.step = "push", !.version = v,
                              !.todo = {t \in @ : t[1] # v},
                              !.ready = {p \in legs : <<v, p>> \notin red},
                              !.failed = {p \in legs : <<v, p>> \in red}]
    /\ UNCHANGED <<source, revision, published, summary, patch, tests, faults>>

\* A cascade push stops at a tag when a newer version holds the platform.
Blocked(v, p) == \E w \in Versions : w > v /\ tags[w][p] # None

\* `ocx package push`: the exact tag, and under --cascade the rolling tags; only the
\* pushed platform's entry of each index changes.
Pushed(v, p, image, cascade) ==
    [tags EXCEPT ![v][p] = image,
                 ![latest][p] = IF cascade /\ ~Blocked(v, p) THEN image ELSE @]
Wrote(v, p, cascade) == {v} \cup IF cascade /\ ~Blocked(v, p) THEN {latest} ELSE {}

\* Faulty variant of Cascades: the push is decided for itself.
AlwaysCascades == TRUE

\* Phase 2: a push cascades when nothing of the version has failed so far.
Cascades == run.failed = {}

Leg == Min(run.ready)
Built == <<run.version, run.revision>>
Pushing == run.step = "push" /\ run.ready # {}
Raced == [patch EXCEPT !.raced = patch.step # "idle"]

\* The leg counts as pushed, and its report lists the tags it wrote.
Reported ==
    run' = [run EXCEPT !.ready = @ \ {Leg}, !.pushed = @ \cup {Leg}, !.attempt = 0,
                       !.landed = @ \cup {<<run.version, Leg>>},
                       !.wrote = @ \cup Wrote(run.version, Leg, Cascades)]

\* The leg's push landed: tags and signature.
Push ==
    /\ Pushing /\ tags[run.version][Leg] # Built
    /\ Write(Pushed(run.version, Leg, Built, Cascades))
    /\ signed' = signed \cup {<<Leg, Built>>}
    /\ Reported
    /\ patch' = Raced
    /\ UNCHANGED <<source, revision, listed, summary, tests, faults>>

\* The exact tag holds this very image already: skipped_existing, and nothing is
\* written or signed.
SkipExisting ==
    /\ Pushing /\ tags[run.version][Leg] = Built
    /\ run' = [run EXCEPT !.ready = @ \ {Leg}, !.attempt = 0]
    /\ UNCHANGED <<source, revision, published, summary, patch, tests, faults>>

\* Faulty variants of GivenUp: the failed leg counts as pushed, or is not taken away.
CountedPushed == run' = [run EXCEPT !.ready = @ \ {Leg}, !.pushed = @ \cup {Leg},
                                    !.landed = @ \cup {<<run.version, Leg>>}, !.attempt = 0]

\* What the run makes of a failed push: exit 75 and timeouts are retried.
Retried == run.attempt < MaxRetries /\ run' = [run EXCEPT !.attempt = @ + 1]
GivenUp == run' = [run EXCEPT !.ready = @ \ {Leg}, !.failed = @ \cup {Leg}, !.attempt = 0]

\* A push that fails before it wrote a tag.
FailPush ==
    /\ Pushing /\ Failure
    /\ Retried \/ GivenUp
    /\ UNCHANGED <<source, revision, published, summary, patch, tests>>

\* A push that wrote its tags and could not sign: exit 75.
FailSignature ==
    /\ Pushing /\ tags[run.version][Leg] # Built /\ Failure
    /\ Write(Pushed(run.version, Leg, Built, Cascades))
    /\ IF run.attempt < MaxRetries THEN Retried ELSE GivenUp
    /\ patch' = Raced
    /\ UNCHANGED <<source, revision, signed, listed, summary, tests>>

\* Faulty variant of Awaiting: the platforms of earlier runs are left behind.
OwnLegsOnly == {}

\* The platforms of the version that earlier runs published without a cascade.
Awaiting == IF run.failed = {} /\ run.pushed # {} THEN Holds(run.version) \ run.pushed ELSE {}

\* The tags the version's entry in the summary names: those its pushes report, and those
\* of the cascades that moved these platforms.
TagsWritten(moved) == run.wrote \cup IF moved = {} THEN {} ELSE {latest}

\* The tags the run announces: those of every version that published.
TagUnion(moved) == run.union \cup TagsWritten(moved)

\* The tags once these platforms' images are pushed again, as they are, with a cascade.
Recascaded(moved) ==
    [tags EXCEPT ![latest] = [p \in Platforms |->
        IF p \in moved THEN index_children(run.version)[p] ELSE @[p]]]

\* The end of a version.  The cascade of an awaiting platform is attempted once, and a
\* failure is a warning; its exact tag and image stay what they are.
EndVersion ==
    /\ run.step = "push" /\ run.ready = {}
    /\ \E lost \in SUBSET Awaiting :
         LET moved == {p \in Awaiting \ lost : ~Blocked(run.version, p)}
         IN  /\ IF lost = {} THEN UNCHANGED faults ELSE Failure
             /\ Write(Recascaded(moved))
             /\ run' = [run EXCEPT !.step = "version", !.version = 0,
                            !.failed = {}, !.pushed = {}, !.wrote = {},
                            !.red = @ \/ run.failed # {},
                            !.stranded = IF lost # {} \/ run.failed # {} \/ run.pushed = {}
                                         THEN @ \cup {run.version} ELSE @,
                            !.union = TagUnion(moved)]
    /\ UNCHANGED <<source, revision, signed, listed, summary, patch, tests>>

\* Faulty variant of Pending: no announce is owed before there has been one.
NotYet == "nothing"

\* The outcome in the summary a killed run leaves behind.
Pending == "interrupted"

\* finalize_run: the summary is on disk before anything else is attempted.
WriteSummary ==
    /\ run.step = "version" /\ run.todo = {}
    /\ run' = [run EXCEPT !.step = "sweep"]
    /\ summary' = [announce |-> Pending, union |-> run.union,
                   any_red |-> run.red, any_new_green |-> run.landed # {}]
    /\ UNCHANGED <<source, revision, published, patch, tests, faults>>

\* The indexes behind the run's tags are signed in one sweep; its failure is held.
Sweep ==
    /\ run.step = "sweep"
    /\ \/ Seal(run.union) /\ run' = [run EXCEPT !.step = "announce"] /\ UNCHANGED faults
       \/ run' = [run EXCEPT !.step = "announce", !.swept = FALSE] /\ Failure /\ UNCHANGED sealed
    /\ UNCHANGED <<source, revision, tags, signed, index, summary, patch, tests>>

\* What an announce takes its tags from: a tags file, or the registry.
TagsFile(ts) == [from |-> "file", tags |-> ts]
FromRegistry == [from |-> "registry", tags |-> {}]
Named(tagsource) == IF tagsource.from = "registry" THEN Served ELSE tagsource.tags

\* `ocx package announce`: the named tags, and those the entry already curates, as the
\* registry has them now.
Curate(tagsource) == listed' = listed \cup Named(tagsource) /\ fresh' = listed'

\* The exit code: the sweep's failure first, then a red tile, then a failed announce.
ExitsGreen(outcome) == run.swept /\ ~run.red /\ outcome \in {"nothing", "announced"}

\* One announce ends the run, whatever the sweep came to.
Announce ==
    /\ run.step = "announce"
    /\ \E outcome \in Outcomes :
         /\ \/ outcome = "nothing" /\ run.union = {} /\ UNCHANGED <<index, faults>>
            \/ outcome = "announced" /\ run.union # {} /\ Curate(TagsFile(run.union)) /\ UNCHANGED faults
            \/ outcome = "failed" /\ run.union # {} /\ Failure /\ UNCHANGED index
         /\ summary' = [summary EXCEPT !.announce = outcome]
    /\ run' = NoRun
    /\ UNCHANGED <<source, revision, registry, patch, tests>>

\* A cancelled or reclaimed runner.  The exact tag of the push it interrupts may be
\* written already, and its rolling tags not.
Kill ==
    /\ run.step # "idle" /\ Failure
    /\ \/ UNCHANGED <<tags, sealed, fresh>>
          /\ UNCHANGED patch
       \/ Pushing /\ Write(Pushed(run.version, Leg, Built, FALSE)) /\ patch' = Raced
    /\ run' = NoRun
    /\ UNCHANGED <<source, revision, signed, listed, summary, tests>>

PublishStep ==
    \/ Test \/ BeginVersion \/ Push \/ SkipExisting \/ FailPush \/ FailSignature
    \/ EndVersion \/ WriteSummary \/ Sweep \/ Announce

-----------------------------------------------------------------------------
(* Patch: the published images again, with the metadata of the spec as it is   *)
(* now.  Its workflow has a concurrency group of its own: a publish run may be *)
(* under way.                                                                  *)

\* The images of a version whose metadata is not what the spec has at this revision.
Drifted(v, rev) ==
    {p \in Holds(v) : fetch_published_metadata(index_children(v)[p]) # rev}

\* The selected versions; a patch that finds nothing drifted changes nothing.
StartPatch ==
    /\ patch.step = "idle"
    /\ \E chosen \in SUBSET VersionsOf(Published) :
         /\ \E v \in chosen : Drifted(v, revision) # {}
         /\ patch' = [NoPatch EXCEPT !.step = "version", !.revision = revision,
                                     !.todo = chosen]
    /\ UNCHANGED <<source, revision, published, run, summary, tests, faults>>

\* The images of the next version's tag whose metadata has drifted.
ReadImages ==
    /\ patch.step = "version" /\ patch.todo # {}
    /\ LET v == Min(patch.todo) IN
         patch' = [patch EXCEPT !.step = "image", !.version = v, !.todo = @ \ {v},
                                !.images = Drifted(v, patch.revision)]
    /\ UNCHANGED <<source, revision, published, run, summary, tests, faults>>

Target == Min(patch.images)

\* The image again: its published layers by digest, under the spec's metadata.
Reemitted == <<patch.version, patch.revision>>

Republish ==
    /\ patch.step = "image" /\ patch.images # {}
    /\ Write(Pushed(patch.version, Target, Reemitted, TRUE))
    /\ signed' = signed \cup {<<Target, Reemitted>>}
    /\ patch' = [patch EXCEPT !.images = @ \ {Target}, !.patched = @ \cup {patch.version}]
    /\ run' = [run EXCEPT !.raced = run.step # "idle"]
    /\ UNCHANGED <<source, revision, listed, summary, tests, faults>>

\* A dependency or a layout it refuses to change, or a push that failed: the one attempt
\* was all.
RefuseImage ==
    /\ patch.step = "image" /\ patch.images # {} /\ Failure
    /\ patch' = [patch EXCEPT !.images = @ \ {Target}, !.ok = FALSE]
    /\ UNCHANGED <<source, revision, published, run, summary, tests>>

NextVersion ==
    /\ patch.step = "image" /\ patch.images = {}
    /\ patch' = [patch EXCEPT !.step = IF patch.todo = {} THEN "sweep" ELSE "version",
                              !.version = 0]
    /\ UNCHANGED <<source, revision, published, run, summary, tests, faults>>

\* Faulty variant of LeafTags: nothing that a patch moved is signed again.
NoLeafTags == {}

\* The tags whose index the patch signs: of the versions it republished, not the aliases.
LeafTags == patch.patched

PatchSweep ==
    /\ patch.step = "sweep"
    /\ \/ Seal(LeafTags) /\ patch' = [patch EXCEPT !.step = "announce"] /\ UNCHANGED faults
       \/ patch' = [patch EXCEPT !.step = "announce", !.ok = FALSE] /\ Failure /\ UNCHANGED sealed
    /\ UNCHANGED <<source, revision, tags, signed, index, run, summary, tests>>

\* The closing announce takes its tags from the registry.
PatchAnnounce ==
    /\ patch.step = "announce"
    /\ \/ patch.patched = {} /\ UNCHANGED <<index, faults>>
       \/ patch.patched # {} /\ Curate(FromRegistry) /\ UNCHANGED faults
       \/ patch.patched # {} /\ Failure /\ UNCHANGED index
    /\ patch' = NoPatch
    /\ UNCHANGED <<source, revision, registry, run, summary, tests>>

\* A read that fails ends the patch where it is, as a kill does: no sweep, no announce.
AbortPatch ==
    /\ patch.step # "idle" /\ Failure
    /\ patch' = NoPatch
    /\ UNCHANGED <<source, revision, published, run, summary, tests>>

\* The exit code: no refusal, no failed push, sweep or announce.
PatchExitsGreen == patch.step = "announce" /\ patch'.step = "idle" /\ patch.ok

PatchStep ==
    \/ ReadImages \/ Republish \/ RefuseImage \/ NextVersion \/ PatchSweep \/ PatchAnnounce

-----------------------------------------------------------------------------
(* The scheduled workflows.                                                   *)

\* What the rolling tag ought to hold: for each platform, its newest version's image.
Rolling ==
    [p \in Platforms |->
        LET vs == {v \in Versions : tags[v][p] # None}
        IN  IF vs = {} THEN None ELSE tags[Max(vs)][p]]

\* `ocx package cascade repair`.
Repaired == [tags EXCEPT ![latest] = Rolling]

\* The tags file it leaves: what it moved.
Moved == {t \in Tags : Repaired[t] # tags[t]}

\* In the concurrency group of the publish runs.  It announces the tags it moved.
Repair ==
    /\ run.step = "idle" /\ Moved # {}
    /\ tags' = Repaired /\ sealed' = {t \in Tags : \E u \in sealed : tags[u] = Repaired[t]}
    /\ \/ Curate(TagsFile(Moved)) /\ UNCHANGED faults
       \/ fresh' = fresh \ Moved /\ Failure /\ UNCHANGED listed
    /\ UNCHANGED <<source, revision, signed, run, summary, patch, tests>>

\* `pipeline announce --tags-from-registry`, beside whatever else runs.
CatchUp ==
    /\ fresh # Served
    /\ Curate(FromRegistry)
    /\ UNCHANGED <<source, revision, registry, run, summary, patch, tests, faults>>

-----------------------------------------------------------------------------
(* Notify: what the maintainer is sent of a run, from the summary it left.     *)

\* A run that published nothing and failed in nothing is passed over in silence.
Notifies(s) == s.any_new_green \/ s.any_red

\* The row that tells whether the index knows.
announce_field(outcome) == IF outcome \in {"failed", "interrupted"} THEN "alarm" ELSE "fine"

\* One message per version pushed or failed; the first carries the index's row.
build_messages(s) == IF Notifies(s) THEN announce_field(s.announce) ELSE "silence"

-----------------------------------------------------------------------------
Next ==
    \/ Release \/ EditSpec
    \/ Plan \/ PublishStep \/ Unresolved \/ Kill
    \/ StartPatch \/ PatchStep \/ AbortPatch
    \/ Repair \/ CatchUp

Spec == Init /\ [][Next]_vars

\* A job's steps follow each other; poll_interval and the schedules of cascade.yml and
\* announce-from-registry.yml start theirs again and again.
FairSpec ==
    /\ Spec
    /\ WF_vars(Plan) /\ WF_vars(PublishStep) /\ WF_vars(PatchStep)
    /\ WF_vars(Repair) /\ WF_vars(CatchUp)

-----------------------------------------------------------------------------
(* Properties.                                                                *)

\* The tests gate the rolling tags: a publish run moves `latest` onto a version only
\* while no platform of that version has a red or missing verdict, from this run or an
\* earlier one (push.rs decides a version's platforms before it pushes any).
AliasesAwaitTests ==
    [][\A p \in Platforms :
          LET v == tags'[latest][p][1] IN
          run.step = "push" /\ patch'.images = patch.images /\ v # tags[latest][p][1] =>
             \A q \in Platforms : <<v, q>> \notin red]_vars

\* A version that ends a run whole is what `latest` holds, or something newer, for every
\* platform of it that no newer version has, those included that earlier runs published
\* while it was partial.
WholeVersionRolls ==
    [][run.step = "push" /\ run'.step = "version" /\ run.version \notin run'.stranded =>
          \A p \in Holds(run.version) :
             tags'[latest][p][1] >= run.version \/ Blocked(run.version, p)]_vars

Succeeds == run.step = "announce" /\ run'.step = "idle" /\ ExitsGreen(summary'.announce)

\* A publish run that exits with success has signed every image it reports pushed and
\* curated its version; and each tag the run wrote serves a signed index that the
\* package index knows by its digest, unless a patch moved tags meanwhile.
SuccessIsCurated ==
    [][Succeeds =>
          /\ \A t \in run.landed : t[1] \in listed' /\ \E i \in signed : i[1] = t[2] /\ i[2][1] = t[1]
          /\ ~run.raced => run.union \subseteq fresh' \cap sealed']_vars

\* A tag that a run's summary names and the package index has never seen is one the
\* notification raises an alarm over, whatever was killed between the push, the sweep and
\* the announce.
UncuratedIsReported == summary.union \subseteq listed \/ build_messages(summary) = "alarm"

\* A patch that ends without a failure leaves every image of the versions it touched at
\* its revision, under a signed index, unless a publish run pushed meanwhile.
PatchIsWhole ==
    [][PatchExitsGreen /\ ~patch.raced =>
          \A v \in patch.patched :
             v \in sealed /\ \A p \in Holds(v) : tags[v][p][2] = patch.revision]_vars

\* In the end every released tile is published that its platform's window lets through,
\* and no other (mirror-yml.md, "Version applicability"), `latest` holds the newest version of
\* each platform, and the package index knows every tag by the digest it serves, whatever
\* was killed or failed on the way.
Converges ==
    <>[](Published = Applicable /\ tags[latest] = Rolling /\ fresh = Served)

=============================================================================
