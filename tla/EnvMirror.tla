----------------------------- MODULE EnvMirror -----------------------------
(* The pipeline of a Python mirror (source.type pypi): one lock per version,    *)
(* one environment package per declared wheels key, shared wheel layers, the   *)
(* test matrix of the generated workflow, and the push that gates each key on  *)
(* the legs of its libc.  Modelled from                                        *)
(* src/src/command/package/pipeline/{plan/env,prepare,push}.rs,                 *)
(* push/{gating,verdict,alias}.rs, generate/ci/matrix.rs,                      *)
(* generate/templates/workflow.yml and                                         *)
(* crates/ocx_mirror_pipeline/src/{python_prepare,python_push,lock_derive}.rs   *)
(*                                                                            *)
(* Versions are numbered in PEP 440 order; only some parse as X.Y.Z, which is   *)
(* what ocx cascades and the plan's map of published versions can hold.        *)
(* `latest` stands for the rolling tags.  An environment is the version and    *)
(* the revision of the package index its lock was derived from.                *)
EXTENDS Naturals, Sequences, FiniteSets, FiniteSetsExt

CONSTANTS
    Versions,       \* the releases of the package, in PEP 440 order
    Semver,         \* those that parse as X.Y.Z
    Keys,           \* the wheels keys in the push's order: [base, libc], libc being
                    \* "glibc", "musl" or, for a plain key, "none"
    Legs,           \* the legs of the test matrix: [base, libc], libc being "glibc" or
                    \* "musl" for a container and "native" for a bare runner
    Wheels,         \* the wheels of each key's environment
    NewPerRun,      \* versions.new_per_run
    NewestFirst,    \* versions.backfill
    MaxRevision,    \* bound: uploads to the index that change what a lock holds
    MaxReds,        \* bound: runs with a failed preparation or a flaky leg
    MaxFaults       \* bound: failed commands and kills

Entries == DOMAIN Keys

ASSUME VersionAssumption == Versions \subseteq Nat \ {0} /\ IsFiniteSet(Versions)
ASSUME SemverAssumption == Semver \subseteq Versions
ASSUME KeyAssumption == Keys \in Seq([base : STRING, libc : {"none", "glibc", "musl"}])
ASSUME LegAssumption == \A l \in Legs : l.libc \in {"native", "glibc", "musl"}
ASSUME PlanAssumption == NewPerRun \in Nat \ {0} /\ NewestFirst \in BOOLEAN
ASSUME BoundAssumption == MaxRevision \in Nat /\ MaxReds \in Nat /\ MaxFaults \in Nat

VARIABLES
    released,   \* index: the releases
    revision,   \* index: what its other packages are at
    tags,       \* registry: the environment of each key under each tag
    wheels,     \* registry: the wheels registered on their own
    run,        \* the run under way
    reds,
    faults

index == <<released, revision>>
registry == <<tags, wheels>>
bounds == <<reds, faults>>
vars == <<index, registry, run, bounds>>

latest == 0
Tags == Versions \cup {latest}
None == <<0, 0>>
Envs == (Versions \X (0..MaxRevision)) \cup {None}
Absent == [e \in Entries |-> None]
AllWheels == UNION {Wheels[e] : e \in Entries}

NoRun == [step |-> "idle", revision |-> 0, plan |-> {}, green |-> {}, todo |-> {},
          version |-> 0, ready |-> {}, failed |-> {}, pushed |-> {}, known |-> {},
          red |-> FALSE]
Steps == {"idle", "prepare", "test", "version", "push"}

RunStates ==
    [step : Steps, revision : 0..MaxRevision, plan : SUBSET (Versions \X Entries),
     green : SUBSET (Versions \X Legs), todo : SUBSET (Versions \X Entries), version : Tags,
     ready : SUBSET Entries, failed : SUBSET Entries, pushed : SUBSET Entries,
     known : SUBSET AllWheels, red : BOOLEAN]

TagTypes ==
    /\ tags \in [Tags -> [Entries -> Envs]]
    /\ \A v \in Versions : \A e \in Entries : tags[v][e][1] \in {0, v}
RunTypes ==
    /\ run \in RunStates /\ run.todo \subseteq run.plan /\ run.known \subseteq wheels
    /\ run.ready \cap (run.failed \cup run.pushed) = {}
WorldTypes ==
    /\ released \subseteq Versions /\ revision \in 0..MaxRevision /\ wheels \subseteq AllWheels
    /\ reds \in 0..MaxReds /\ faults \in 0..MaxFaults

TypeOK == TagTypes /\ RunTypes /\ WorldTypes

Init ==
    /\ released = {} /\ revision = 0
    /\ tags = [t \in Tags |-> Absent] /\ wheels = {}
    /\ run = NoRun /\ reds = 0 /\ faults = 0

Failure == faults < MaxFaults /\ faults' = faults + 1
Holds(v) == {e \in Entries : tags[v][e] # None}
VersionsOf(pairs) == {t[1] : t \in pairs}

\* A release is uploaded, a late one of an old series included.
Release ==
    /\ run.step = "idle"
    /\ \E v \in Versions \ released : released' = released \cup {v}
    /\ UNCHANGED <<revision, registry, run, bounds>>

\* Other packages of the index move on: a lock derived from now on is another one.
MoveIndex ==
    /\ revision < MaxRevision /\ revision' = revision + 1
    /\ UNCHANGED <<released, registry, run, bounds>>

-----------------------------------------------------------------------------
(* Plan and prepare.                                                          *)

\* Faulty variant of Outstanding: a version with a key missing is published whole.
WholeAgain(v) == IF v \in Semver /\ Holds(v) = Entries THEN {} ELSE Entries

\* The keys a version still needs.  One that does not parse is in no map of published
\* versions: all of it is outstanding, in every run.
Outstanding(v) == {e \in Entries : v \notin Semver \/ tags[v][e] = None}

\* What an index lists: neither a yanked version nor one with an unsafe name.
Listed == released

Candidates == {v \in Listed : Outstanding(v) # {}}

\* Faulty variant of Selected: one short of the cap.
OneShort == {v \in Candidates : NewPerRun > 1 + Cardinality(
                 {w \in Candidates : IF NewestFirst THEN w > v ELSE w < v})}

\* select_pypi_candidates: sorted, then cut to the cap at one end.
Selected == {v \in Candidates : NewPerRun > Cardinality(
                 {w \in Candidates : IF NewestFirst THEN w > v ELSE w < v})}

\* `uv pip compile` of one version against the index as it is, into the plan's artifact.
Lock == revision

\* One lock per candidate; one that cannot be derived ends the plan, and the run.
Plan ==
    /\ run.step = "idle" /\ Candidates # {}
    /\ run' = [NoRun EXCEPT !.step = "prepare", !.revision = Lock,
                            !.plan = {t \in Selected \X Entries : t[2] \in Outstanding(t[1])}]
    /\ UNCHANGED <<index, registry, bounds>>

\* The tasks of a version's prepare job: the keys of its plan entry, no key it has.
Tasks(v) == {t \in run.plan : t[1] = v}

\* What the jobs leave: every environment of a plan entry, or none of them.
Composed(broken) == {t \in run.plan : Tasks(t[1]) \cap broken = {}}

\* One prepare job per version.  A wheel that cannot be fetched, verified or repacked
\* breaks its environment; then no test job starts, and the push job runs on what there is.
Prepare ==
    /\ run.step = "prepare"
    /\ \E broken \in SUBSET run.plan :
         LET envs == Composed(broken)
             whole == broken = {}
         IN  /\ IF whole THEN UNCHANGED reds ELSE reds < MaxReds /\ reds' = reds + 1
             /\ run' = [run EXCEPT !.step = IF whole THEN "test" ELSE "version",
                                   !.plan = envs, !.todo = envs]
    /\ UNCHANGED <<index, registry, faults>>

-----------------------------------------------------------------------------
(* Test: one job per leg, which goes through the planned versions in order.   *)

Built(v) == {e \in Entries : <<v, e>> \in run.plan}

\* Faulty variant of Picked: the first environment of the platform.
FirstOfBase(v, l) ==
    LET es == {e \in Built(v) : Keys[e].base = l.base} IN {e \in es : e = Min(es)}

\* The environment a leg tests: that of its own libc, else that of the plain key.  A
\* native leg declares no libc.
Picked(v, l) ==
    LET of(libc) == {e \in Built(v) : Keys[e] = [base |-> l.base, libc |-> libc]}
        own == of(IF l.libc = "native" THEN "none" ELSE l.libc)
    IN  IF own # {} THEN own ELSE of("none")

\* A leg skips the versions whose plan does not name its platform.
Tested == {t \in VersionsOf(run.plan) \X Legs : \E e \in Built(t[1]) : Keys[e].base = t[2].base}

\* A leg that finds no environment for a version reports a failed test.
Sound == {t \in Tested : Picked(t[1], t[2]) # {}}

\* The leg writes a version's JUnit report and, if it is red, exits: the versions after
\* it have none.
Test ==
    /\ run.step = "test"
    /\ \E flaky \in SUBSET Sound :
         /\ IF flaky = {} THEN UNCHANGED reds ELSE reds < MaxReds /\ reds' = reds + 1
         /\ run' = [run EXCEPT !.step = "version",
                !.green = {t \in Sound : \A u \in Tested :
                              u[2] = t[2] /\ u[1] <= t[1] => u \in Sound \ flaky}]
    /\ UNCHANGED <<index, registry, faults>>

-----------------------------------------------------------------------------
(* Push: the versions in PEP 440 order.                                       *)

\* The legs whose reports an environment needs: a plain key those of every container, a
\* key with a libc those of its libc; a native runner counts as glibc.
Gating(e) ==
    {l \in Legs : /\ l.base = Keys[e].base
                  /\ \/ Keys[e].libc \in {"none", l.libc}
                     \/ l.libc = "native" /\ Keys[e].libc = "glibc"}

\* No leg at all is red; so is a missing report.
Green(v, e) == Gating(e) # {} /\ \A l \in Gating(e) : <<v, l>> \in run.green

\* Phase 1: every environment of the version is decided before any is pushed.
BeginVersion ==
    /\ run.step = "version" /\ run.todo # {}
    /\ LET v == Min(VersionsOf(run.todo)) IN
         run' = [run EXCEPT !.step = "push", !.version = v,
                            !.todo = {t \in @ : t[1] # v},
                            !.ready = {e \in Built(v) : Green(v, e)},
                            !.failed = {e \in Built(v) : ~Green(v, e)}]
    /\ UNCHANGED <<index, registry, bounds>>

\* ocx cascades a version it can parse past those it can: a newer one that holds the
\* key keeps the tag.
Blocked(v, e) == \E w \in Semver : w > v /\ tags[w][e] # None

\* Phase 2: `--cascade` when ocx can parse the version and nothing of it has failed.
Cascades == run.version \in Semver /\ run.failed = {}

Pushing == run.step = "push" /\ run.ready # {}
Leg == Min(run.ready)

\* The job reads the lock in the plan's artifact and derives none of its own.
PlannedLock == run.revision

\* The environment of a version's key: what its lock selects, repacked and composed.
Env == <<run.version, PlannedLock>>

\* `ocx package push` of the environment, to the exact tag and what it cascades to.
Pushed(cascade) ==
    [tags EXCEPT ![run.version][Leg] = Env,
                 ![latest][Leg] = IF cascade /\ ~Blocked(run.version, Leg) THEN Env ELSE @]

\* Faulty variant of Registered: a wheel is known before anything is known of it.
KnownAnyway(missed) ==
    /\ wheels' = wheels \cup (Wheels[Leg] \ (run.known \cup missed))
    /\ run' = [run EXCEPT !.known = @ \cup Wheels[Leg],
                          !.ready = @ \ {Leg}, !.pushed = @ \cup {Leg}]

\* The wheels of the environment are registered first, each that this run does not know
\* to be there.  One that cannot be checked or pushed is left for a later environment.
Registered(missed) ==
    /\ wheels' = wheels \cup (Wheels[Leg] \ (run.known \cup missed))
    /\ run' = [run EXCEPT !.known = @ \cup (Wheels[Leg] \ missed),
                          !.ready = @ \ {Leg}, !.pushed = @ \cup {Leg}]

Push ==
    /\ Pushing
    /\ \E missed \in SUBSET (Wheels[Leg] \ run.known) :
         /\ IF missed = {} THEN UNCHANGED faults ELSE Failure
         /\ Registered(missed)
    /\ tags' = Pushed(Cascades)
    /\ UNCHANGED <<index, reds>>

\* The exact tag serves this very environment: ocx may say so and write nothing.
SkipExisting ==
    /\ Pushing /\ tags[run.version][Leg] = Env
    /\ run' = [run EXCEPT !.ready = @ \ {Leg}]
    /\ UNCHANGED <<index, registry, bounds>>

\* Faulty variant of GivenUp: the version's environments are told apart no more.
Forgotten == run' = [run EXCEPT !.ready = @ \ {Leg}]

GivenUp == run' = [run EXCEPT !.ready = @ \ {Leg}, !.failed = @ \cup {Leg}]

\* A push that is out of retries, before or after it wrote its tags.
FailPush ==
    /\ Pushing /\ Failure
    /\ tags' \in {tags, Pushed(FALSE), Pushed(Cascades)}
    /\ GivenUp
    /\ UNCHANGED <<index, wheels, reds>>

\* Faulty variant of Awaiting: whatever else became of the version.
AwaitingAnyway == IF run.version \in Semver /\ run.pushed # {}
                  THEN {e \in Holds(run.version) \ run.pushed : ~Blocked(run.version, e)} ELSE {}

\* Phase 2b: the environments an earlier run published, cascaded after the last of them.
Awaiting == IF run.version \in Semver /\ run.failed = {} /\ run.pushed # {}
            THEN {e \in Holds(run.version) \ run.pushed : ~Blocked(run.version, e)} ELSE {}

\* Phase 3: the `latest` of a version ocx cannot cascade, if this run and the registry
\* have none newer.
Aliased == IF /\ run.version \notin Semver /\ run.failed = {}
              /\ run.version = Max(VersionsOf(run.plan))
              /\ \A w \in Versions : w > run.version => Holds(w) = {}
           THEN run.pushed ELSE {}

\* The end of a version: each alias is attempted once, and a failure is a warning.
EndVersion ==
    /\ run.step = "push" /\ run.ready = {}
    /\ \E lost \in SUBSET (Awaiting \cup Aliased) :
         /\ IF lost = {} THEN UNCHANGED faults ELSE Failure
         /\ tags' = [tags EXCEPT ![latest] = [e \in Entries |->
                        IF e \in (Awaiting \cup Aliased) \ lost
                        THEN tags[run.version][e] ELSE @[e]]]
    /\ run' = [run EXCEPT !.step = "version", !.version = 0, !.failed = {}, !.pushed = {},
                          !.red = @ \/ run.failed # {}]
    /\ UNCHANGED <<index, wheels, reds>>

\* finalize_run: what it signs and announces is Publication's.
Finish ==
    /\ run.step = "version" /\ run.todo = {}
    /\ run' = NoRun
    /\ UNCHANGED <<index, registry, bounds>>

\* A cancelled or reclaimed runner, the push it interrupts having written what it may.
Kill ==
    /\ run.step # "idle" /\ Failure
    /\ tags' \in {tags} \cup IF Pushing THEN {Pushed(FALSE)} ELSE {}
    /\ run' = NoRun
    /\ UNCHANGED <<index, wheels, reds>>

RunStep ==
    \/ Prepare \/ Test \/ BeginVersion \/ Push \/ SkipExisting \/ FailPush
    \/ EndVersion \/ Finish

Next == Release \/ MoveIndex \/ Plan \/ RunStep \/ Kill

Spec == Init /\ [][Next]_vars

\* versions.poll_interval starts runs again and again, and a job's steps follow each
\* other.
FairSpec == Spec /\ WF_vars(Plan) /\ WF_vars(RunStep)

-----------------------------------------------------------------------------
(* Properties.                                                                *)

\* What an environment claims to run on, by the key it is published under.
RunsOn(e, l) ==
    /\ l.base = Keys[e].base
    /\ Keys[e].libc = "none" \/ Keys[e].libc = IF l.libc = "native" THEN "glibc" ELSE l.libc

\* No environment reaches the registry on another one's test: every leg it claims to run
\* on has tested this environment, green, in this run, and there is such a leg.
ServedWasTested ==
    [][run.step = "push" =>
          \A e \in Entries : tags'[run.version][e] # tags[run.version][e] =>
             /\ \E l \in Legs : RunsOn(e, l)
             /\ \A l \in Legs : RunsOn(e, l) =>
                   <<run.version, l>> \in run.green /\ Picked(run.version, l) = {e}]_vars

\* An environment that consumers may have locked stays what it is: a later run, which
\* would derive another lock, never publishes a key of a parsed version again.
PublishedUnmoved ==
    [][\A v \in Semver : \A e \in Entries :
          tags[v][e] # None => tags'[v][e] = tags[v][e]]_vars

\* The repair of phase 2b and the alias of phase 3 move `latest` only onto a version
\* every key of which is served, and no alias onto one older than what is published.
LatestMovesWhole ==
    [][run.step = "push" /\ run'.step = "version" /\ tags'[latest] # tags[latest] =>
          /\ Holds(run.version) = Entries
          /\ run.version \notin Semver => \A w \in Versions : w > run.version => Holds(w) = {}]_vars

\* What a push job reports is there.  A job that exits with success has every
\* environment of its manifests on its exact tag, as it was prepared; after a push whose
\* registrations all went through, its wheels can be mounted from their own
\* repositories, whatever failed for an earlier environment.
ReportedIsServed ==
    [][/\ run.step = "version" /\ run'.step = "idle" /\ run.todo = {} /\ ~run.red =>
              \A t \in run.plan : tags[t[1]][t[2]] = <<t[1], run.revision>>
       /\ Pushing /\ run'.pushed # run.pushed /\ faults' = faults =>
              Wheels[Leg] \subseteq wheels']_vars

\* In the end every release is served whole, although runs fail, legs are flaky, the cap
\* cuts and the versions that do not parse come back in every run.
Converges == <>[](\A v \in released : Holds(v) = Entries)

=============================================================================
