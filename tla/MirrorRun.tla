----------------------------- MODULE MirrorRun -----------------------------
(* `package sync` over one mirrored package, run after run: what a run reads   *)
(* of the target, what the filter leaves it to do, the outcomes of its         *)
(* preparations, and the sequential push that moves the tags.  Modelled from   *)
(*   src/command/package/sync.rs, crates/ocx_mirror_pipeline/src/              *)
(*   orchestrator.rs, push.rs and target_registry.rs, and                      *)
(*   crates/ocx_mirror_spec/src/filter.rs and version_platform_map.rs          *)
(*                                                                            *)
(* The spec has `cascade: true` and a `sign:` block.  Of the rolling tags the  *)
(* broadest, `latest`, stands for all; a version's own tag is one too when     *)
(* builds are stamped.  A build's stamp is its place among its version's.      *)
EXTENDS VersionSelection

CONSTANTS
    Offered,        \* upstream: the assets of the first run
    Released,       \* upstream: the assets it releases later
    Pointers,       \* what the vendor's pointer comes to name
    Options,        \* the command lines, as [version, latest]
    Stamped,        \* build_timestamp: datetime, or none
    MaxFaults       \* bound: failures and kills

ASSUME AssetAssumption ==
    Offered \cup Released \subseteq Tasks /\ Pointers \subseteq Versions /\ Pointers # {}
ASSUME OptionAssumption ==
    Stamped \in BOOLEAN /\ Options \subseteq [version : SUBSET Versions, latest : BOOLEAN]
ASSUME BoundAssumption == MaxFaults \in Nat

VARIABLES
    source,     \* upstream: the released (version, platform) pairs
    ceiling,    \* the version the vendor's pointer names
    stamped,    \* target: the builds under a stamped tag of their own
    bare,       \* target: the build each version tag has for a platform, or 0
    latest,     \* target: the version `latest` has for a platform, or 0
    signed,     \* target: the builds whose platform manifest is signed
    indexed,    \* target: version tags whose index is signed, with its platforms
    pc,         \* where the run under way is
    run,        \* its options, plan, stamps, results and version map
    outcome,    \* what its preparations came to
    range,      \* the version it is pushing
    task,       \* the task it is pushing
    pending,    \* the rolling tags that push has still to move
    faults

target == <<stamped, bare, latest, signed, indexed>>
cursor == <<range, task, pending>>
vars == <<source, ceiling, target, pc, run, outcome, cursor, faults>>

Builds == [version : Versions, stamp : Nat, platform : Platforms]
Outcomes == {"none", "ready", "failed", "lost"}
Steps == {"idle", "prepare", "range", "slot", "primary", "cascade"}

NoTask == <<0, 0>>
NoOutcome == [t \in Tasks |-> "none"]
NoRun == [plan |-> {}, todo |-> {}, pushed |-> {}, failed |-> FALSE, failFast |-> BOOLEAN,
          stamp |-> [v \in Versions |-> 0], known |-> {}]

TypeOK ==
    /\ source \subseteq Tasks /\ ceiling \in Pointers /\ stamped \subseteq Builds /\ signed \subseteq Builds
    /\ bare \in [Tasks -> Nat] /\ latest \in [Platforms -> Versions \cup {0}]
    /\ indexed \subseteq Versions \X Nat \X SUBSET Platforms
    /\ pc \in Steps
    /\ run \in [plan : SUBSET Tasks, todo : SUBSET Tasks, pushed : SUBSET Tasks,
                failed : BOOLEAN, failFast : SUBSET BOOLEAN,
                stamp : [Versions -> Nat], known : SUBSET (Versions \X Nat)]
    /\ outcome \in [Tasks -> Outcomes]
    /\ range \in Versions \cup {0}
    /\ IF pc \in {"primary", "cascade"} THEN task \in run.todo /\ task[1] = range ELSE task = NoTask
    /\ pending \subseteq {"bare", "latest"} /\ faults \in 0..MaxFaults

Init ==
    /\ source = Offered /\ ceiling \in Pointers /\ stamped = {} /\ signed = {} /\ indexed = {}
    /\ bare = [t \in Tasks |-> 0] /\ latest = [p \in Platforms |-> 0]
    /\ pc = "idle" /\ run = NoRun /\ outcome = NoOutcome
    /\ range = 0 /\ task = NoTask /\ pending = {} /\ faults = 0

Failure == faults < MaxFaults /\ faults' = faults + 1

\* Upstream releases one more platform of a version, in any order of versions.  A run
\* lists upstream once, at its start: a release during a run is one after it.
Release ==
    /\ pc = "idle"
    /\ \E t \in Released \ source : source' = source \cup {t}
    /\ UNCHANGED <<ceiling, target, pc, run, outcome, cursor, faults>>

\* The vendor stands behind a newer version.
Raise ==
    /\ pc = "idle"
    /\ \E v \in Pointers : v > ceiling /\ ceiling' = v
    /\ UNCHANGED <<source, target, pc, run, outcome, cursor, faults>>

-----------------------------------------------------------------------------
(* The plan.                                                                  *)

\* fetch_published_platforms reads the version tags; an error other than not-found
\* ends the run before it has a plan.
Published == {t \in Tasks : bare[t] # 0}

\* Faulty variant of Views: a tag that could not be read counts as absent.
LossyViews == {Published} \cup {{t \in Published : t[1] # v} : v \in Versions}

Views == {Published}

\* What the run's one read of the pointer comes to.
Answers == {ceiling, NoAnswer}

\* The build-tagged versions among the tags listed at the start.
StampedTags == {<<b.version, b.stamp>> : b \in stamped}
NextStamp(v) == 1 + Max({0} \cup {k[2] : k \in {k \in StampedTags : k[1] = v}})

Plan(options) ==
    /\ pc = "idle"
    /\ \E seen \in Views, answer \in Answers :
         LET plan == Selected(source, Bounds(answer), seen, options) IN
         /\ answer = NoAnswer => Failure
         /\ answer # NoAnswer => UNCHANGED faults
         /\ Resolvable(answer) /\ plan # {}
         /\ run' = [NoRun EXCEPT !.plan = plan, !.todo = plan,
                                 !.stamp = [v \in Versions |-> NextStamp(v)],
                                 !.known = StampedTags]
    /\ pc' = "prepare"
    /\ UNCHANGED <<source, ceiling, target, outcome, cursor>>

\* "Nothing to mirror", or --dry-run.
PlanNothing ==
    /\ pc = "idle"
    /\ \E seen \in Views, options \in Options, dryRun \in BOOLEAN :
         dryRun \/ Selected(source, Bounds(ceiling), seen, options) = {}
    /\ UNCHANGED vars

\* Upstream, the pointer, the target or the signing key cannot be read.
AbortPlan ==
    /\ pc = "idle" /\ Failure
    /\ UNCHANGED <<source, ceiling, target, pc, run, outcome, cursor>>

\* Every task is prepared on its own; a preparation that panics leaves no result.
Prepare ==
    /\ pc = "prepare"
    /\ \E unready \in SUBSET run.plan, how \in {"failed", "lost"} :
         /\ unready # {} => Failure
         /\ unready = {} => how = "failed" /\ UNCHANGED faults
         /\ outcome' = [t \in Tasks |->
                IF t \in unready THEN how ELSE IF t \in run.plan THEN "ready" ELSE "none"]
    /\ pc' = "range"
    /\ UNCHANGED <<source, ceiling, target, run, cursor>>

-----------------------------------------------------------------------------
(* The push, version by version, oldest first.                                *)

Lowest(tasks) == Min(VersionsOf(tasks))

InRange == {t \in run.todo : t[1] = range}

BeginRange ==
    /\ pc = "range" /\ run.todo # {}
    /\ range' = Lowest(run.todo)
    /\ pc' = "slot"
    /\ UNCHANGED <<source, ceiling, target, run, outcome, task, pending, faults>>

\* A failure is a result.  With fail_fast it is the last one, but for the index of the
\* range, signed all the same.  The option is chosen where the run first asks for it.
Failed(todo) ==
    \E failFast \in run.failFast :
        run' = [run EXCEPT !.todo = IF failFast THEN {} ELSE todo,
                           !.failed = TRUE, !.failFast = {failFast}]

Fail(t) ==
    /\ Failed(run.todo \ {t})
    /\ pc' = "slot"
    /\ task' = NoTask /\ pending' = {}
    /\ UNCHANGED <<source, ceiling, target, outcome, range>>

TakeSlot(t) ==
    /\ pc = "slot" /\ t \in InRange
    /\ \/ /\ outcome[t] = "ready"
          /\ task' = t
          /\ pc' = "primary"
          /\ UNCHANGED <<source, ceiling, target, run, outcome, range, pending, faults>>
       \/ /\ outcome[t] = "failed"
          /\ Fail(t)
          /\ UNCHANGED faults
       \/ /\ outcome[t] = "lost"
          /\ run' = [run EXCEPT !.todo = @ \ {t}]
          /\ UNCHANGED <<source, ceiling, target, pc, outcome, cursor, faults>>

Build == [version |-> range, stamp |-> run.stamp[range], platform |-> task[2]]

\* The task's own tag: one of this run, or the version's.
PushPrimary ==
    /\ pc = "primary"
    /\ IF Stamped
       THEN stamped' = stamped \cup {Build} /\ pending' = {"bare", "latest"} /\ UNCHANGED bare
       ELSE bare' = [bare EXCEPT ![task] = @ + 1] /\ pending' = {"latest"} /\ UNCHANGED stamped
    /\ pc' = "cascade"
    /\ UNCHANGED <<source, ceiling, latest, signed, indexed, run, outcome, range, task, faults>>

\* Faulty variant of CascadeVersions: the versions of this run only.
PlannedVersions == {k \in run.known : k[1] \in VersionsOf(run.plan)}

\* The version map's build-tagged versions, as the blockers a push is handed.
CascadeVersions == run.known

\* A newer build of the same tag that holds this platform keeps it.
Blocked(tag) ==
    \E k \in CascadeVersions :
        /\ [version |-> k[1], stamp |-> k[2], platform |-> task[2]] \in stamped
        /\ IF tag = "bare" THEN k[1] = range /\ k[2] > Build.stamp
           ELSE k[1] > range \/ (k[1] = range /\ k[2] > Build.stamp)

MoveTag(tag) ==
    /\ pc = "cascade" /\ tag \in pending
    /\ pending' = pending \ {tag}
    /\ bare' = IF tag = "bare" /\ ~Blocked(tag) THEN [bare EXCEPT ![task] = Build.stamp] ELSE bare
    /\ latest' = IF tag = "latest" /\ ~Blocked(tag) THEN [latest EXCEPT ![task[2]] = range] ELSE latest
    /\ UNCHANGED <<source, ceiling, stamped, signed, indexed, pc, run, outcome, range, task, faults>>

\* The push, one of its tags or the signature fails; what was written stays.
FailPush ==
    /\ pc \in {"primary", "cascade"}
    /\ Failure
    /\ Fail(task)

\* Faulty variant of SignPlatform: a push is a result before it is signed.
SkipSigning ==
    /\ pc = "cascade" /\ pending = {}
    /\ run' = [run EXCEPT !.todo = @ \ {task}, !.pushed = @ \cup {task}]
    /\ pc' = "slot"
    /\ task' = NoTask
    /\ UNCHANGED <<source, ceiling, target, outcome, range, pending, faults>>

\* The platform manifest is signed, and the version map learns of the push.
SignPlatform ==
    /\ pc = "cascade" /\ pending = {}
    /\ signed' = signed \cup {[Build EXCEPT !.stamp = IF Stamped THEN @ ELSE bare[task]]}
    /\ run' = [run EXCEPT !.todo = @ \ {task}, !.pushed = @ \cup {task},
                          !.known = IF Stamped THEN @ \cup {<<range, Build.stamp>>} ELSE @]
    /\ pc' = "slot"
    /\ task' = NoTask
    /\ UNCHANGED <<source, ceiling, stamped, bare, latest, indexed, outcome, range, pending, faults>>

\* The platforms in the image index a range has pushed into.
IndexPlatforms ==
    {p \in Platforms : IF Stamped THEN [Build EXCEPT !.platform = p] \in stamped
                                  ELSE bare[<<range, p>>] # 0}

SignIndex ==
    /\ pc = "slot" /\ InRange = {}
    /\ range \in VersionsOf(run.pushed)
    /\ \/ /\ indexed' = indexed \cup {<<range, run.stamp[range], IndexPlatforms>>}
          /\ UNCHANGED <<run, faults>>
       \/ /\ Failure
          /\ Failed(run.todo)
          /\ UNCHANGED indexed
    /\ pc' = "range" /\ range' = 0
    /\ UNCHANGED <<source, ceiling, stamped, bare, latest, signed, outcome, task, pending>>

SkipIndex ==
    /\ pc = "slot" /\ InRange = {}
    /\ range \notin VersionsOf(run.pushed)
    /\ pc' = "range" /\ range' = 0
    /\ UNCHANGED <<source, ceiling, target, run, outcome, task, pending, faults>>

Reporting == pc = "range" /\ run.todo = {}

Forget ==
    /\ pc' = "idle" /\ run' = NoRun /\ outcome' = NoOutcome
    /\ range' = 0 /\ task' = NoTask /\ pending' = {}
    /\ UNCHANGED <<source, ceiling, target>>

Exit == Reporting /\ Forget /\ UNCHANGED faults
Crash == pc # "idle" /\ ~Reporting /\ Failure /\ Forget

Step == \/ Prepare \/ BeginRange \/ (\E t \in Tasks : TakeSlot(t))
        \/ PushPrimary \/ (\E tag \in {"bare", "latest"} : MoveTag(tag)) \/ SignPlatform
        \/ SignIndex \/ SkipIndex \/ Exit

Next == \/ Release \/ Raise \/ PlanNothing \/ AbortPlan \/ \E options \in Options : Plan(options)
        \/ Step \/ FailPush \/ Crash

Spec == Init /\ [][Next]_vars

Scheduled == [version |-> {}, latest |-> FALSE]

\* A run goes on unless it is killed, and runs without options keep being started.
FairSpec == Spec /\ WF_vars(Step) /\ SF_vars(Plan(Scheduled))

-----------------------------------------------------------------------------
(* Properties.                                                                *)

\* Tags only move forward.  A version tag that has a build for a platform is not moved
\* to another: what is published is not taken for absent and published again
\* (target_registry.rs).  `latest` never goes back to an older version, whatever order
\* versions are released, backfilled and retried in.
TagsMoveForward ==
    [][/\ \A t \in Tasks : bare[t] # 0 => bare'[t] = bare[t]
       /\ \A p \in Platforms : latest'[p] >= latest[p]]_vars

\* A run that reports success, and had no preparation panic, has published and signed
\* every task it planned, and signed each version's index with all its platforms.
SuccessIsComplete ==
    Reporting /\ ~run.failed /\ (\A t \in run.plan : outcome[t] # "lost") =>
        \A t \in run.plan :
            /\ bare[t] # 0
            /\ \E b \in signed : b.version = t[1] /\ b.platform = t[2] /\ b.stamp = bare[t]
            /\ \E x \in indexed : x[1] = t[1] /\ x[2] = run.stamp[t[1]]
                   /\ {p \in Platforms : <<t[1], p>> \in run.plan} \subseteq x[3]

\* Whatever was ever published is what the spec lets through, under every pointer a run
\* can have read: nothing a vendor's pointer held back ("falling back to unbounded would
\* mirror every release the pointer exists to hold back"), and no prerelease.
PublishedIsWanted ==
    \A t \in Tasks : bare[t] # 0 \/ (\E b \in stamped : b.version = t[1] /\ b.platform = t[2])
        => t \in Eligible({t}, Bounds(ceiling), {})

\* Every released platform of every version that is to be mirrored is published in the
\* end: a run's cap, its failures, --latest and --version keep none out for good.
Converges == <>[](\A t \in Eligible(source, Bounds(ceiling), {}) : bare[t] # 0)
=============================================================================
