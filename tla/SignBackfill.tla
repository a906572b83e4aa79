---------------------------- MODULE SignBackfill ----------------------------
(* `ocx-mirror package pipeline sign`: the passes that sign in place what the  *)
(* target repository already holds.  Modelled from                             *)
(* crates/ocx_mirror_pipeline/src/sign_backfill.rs, src/command/package/       *)
(* pipeline/sign.rs, ocx_cli/sign.rs and the subject reads of target_registry. *)
(*                                                                            *)
(* A pass lists the tags, groups what they serve by digest, and signs each     *)
(* distinct subject that carries no signature it respects.  Publish runs move  *)
(* tags meanwhile, and other signers attach signatures of their own.           *)
EXTENDS Naturals, FiniteSets, FiniteSetsExt

CONSTANTS
    Digests,        \* manifests, numbered in the order of their digests
    Children,       \* Children[d]: the <<platform, digest>> entries of an index;
                    \* empty for a bare manifest
    Tags,           \* tags, numbered in the order of their names
    Reserved,       \* those of ocx's own namespace (__ocx.*, sha256-<hex>)
    Candidates,     \* <<identity, issuer>> of a signature; 0 when it cannot be read
    Me,             \* what this spec's `sign:` block signs as
    Modes,          \* the command lines operators use
    Scheduled,      \* the command line of the job on a timer
    Cap,            \* ocx lists this many signatures of a subject, and no more
    MaxRetries,     \* concurrency.max_retries
    MaxOthers,      \* bound: tags moved by publish runs and signatures of others
    MaxFaults,      \* bound: failed reads and children, kills and interrupts
    MaxRuns         \* bound: passes beside those of the timer

ASSUME DigestAssumption == Digests \subseteq Nat \ {0} /\ IsFiniteSet(Digests)
ASSUME TagAssumption == Tags \subseteq Nat \ {0} /\ Reserved \subseteq Tags
ASSUME ChildAssumption ==
    /\ Children \in [Digests -> SUBSET ((Nat \ {0}) \X Digests)]
    /\ \A d \in Digests : \A e \in Children[d] :
         /\ Children[e[2]] = {} /\ \A f \in Children[d] : f[1] = e[1] => f = e
ASSUME ModeAssumption ==
    /\ Me \in Candidates /\ Scheduled \in Modes
    /\ Modes \subseteq [force : BOOLEAN, dry : BOOLEAN, identity : Nat, issuer : Nat]
ASSUME BoundAssumption == {Cap, MaxRetries, MaxOthers, MaxFaults, MaxRuns} \subseteq Nat

VARIABLES
    tags,       \* registry: the digest each tag resolves to, 0 when there is no tag
    signatures, \* registry: how many signatures of each kind a manifest carries
    run,        \* the pass under way
    spent       \* how much of each bound is used up

vars == <<tags, signatures, run, spent>>

\* Exits of an ocx child or a failed read, of the kinds ocx's taxonomy tells apart here,
\* ranked by how soon the operator can act on them.
Failures == {"temp_fail", "unavailable", "data_error"}
severity_rank == [f \in Failures |->
                    CASE f = "temp_fail" -> 0 [] f = "unavailable" -> 4 [] OTHER -> 5]

Targets == [tag : Tags, platform : Nat, subject : Digests]
Rows == [target : Targets,
         outcome : {"succeeded", "already_signed", "dry_run", "cancelled"} \cup Failures]
NoRun == [step |-> "idle", mode |-> Scheduled, todo |-> {}, rows |-> {}, attempt |-> 0,
          plan |-> {}, found |-> {}, moved |-> FALSE, lost |-> 0,
          wrote |-> [d \in Digests |-> 0]]
Bounds == [others |-> MaxOthers, faults |-> MaxFaults, runs |-> MaxRuns]

\* The targets a pass has reported on.
Targeted == {r.target : r \in run.rows}

TypeOK ==
    /\ tags \in [Tags -> Digests \cup {0}]
    /\ signatures \in [Digests -> [Candidates -> Nat]]
    /\ run.step \in {"idle", "sign", "child", "report"} /\ run.mode \in Modes
    /\ run.plan \subseteq Targets /\ run.rows \subseteq Rows
    /\ run.step # "idle" => run.plan \ run.todo = Targeted /\ run.todo \subseteq run.plan
    /\ run.attempt \in 0..MaxRetries /\ run.wrote \in [Digests -> Nat] /\ run.lost \in Nat
    /\ run.moved \in BOOLEAN /\ run.found \subseteq Digests
    /\ DOMAIN spent = DOMAIN Bounds /\ \A b \in DOMAIN Bounds : spent[b] \in 0..Bounds[b]

Init ==
    /\ tags \in [Tags -> Digests \cup {0}]
    /\ \A t \in Reserved : tags[t] # 0 /\ Children[tags[t]] = {}
    /\ signatures = [d \in Digests |-> [c \in Candidates |-> 0]]
    /\ run = NoRun
    /\ spent = [b \in DOMAIN Bounds |-> 0]

Spend(b) == spent[b] < Bounds[b] /\ spent' = [spent EXCEPT ![b] = @ + 1]

-----------------------------------------------------------------------------
(* The others.                                                                *)

\* A publish run points a tag at another index or manifest.
MoveTag ==
    /\ Spend("others")
    /\ \E t \in Tags \ Reserved, d \in Digests : tags[t] # d /\ tags' = [tags EXCEPT ![t] = d]
    /\ run' = [run EXCEPT !.moved = run.step # "idle"]
    /\ UNCHANGED signatures

Served == {d \in Digests : \E t \in Tags \ Reserved :
                tags[t] # 0 /\ (d = tags[t] \/ \E e \in Children[tags[t]] : e[2] = d)}

\* Somebody else signs: another identity, or a sidecar that names nobody.
SignElsewhere ==
    /\ Spend("others")
    /\ \E d \in Served, c \in Candidates \ {Me} :
         signatures' = [signatures EXCEPT ![d][c] = @ + 1]
    /\ UNCHANGED <<tags, run>>

-----------------------------------------------------------------------------
(* The plan.                                                                  *)

\* What the listing finds.  A reserved tag is not published content: a keep tag pins a
\* manifest, and a `sha256-<hex>` tag is the signatures themselves.
Listed == {t \in Tags \ Reserved : tags[t] # 0}
Published == {tags[t] : t \in Listed}

\* The lowest tag that serves a digest speaks for it.
Representative(d) == Min({t \in Listed : tags[t] = d})

\* The digests the targets before this entry were made of: those of earlier indexes and
\* their children.
Earlier(d) == {e \in Published : e < d}
Seen(ds) == ds \cup {e[2] : e \in UNION {Children[d] : d \in ds}}

\* Faulty variant of KnownToIndexes: each pass is deduplicated for itself.
PublishedOnly(d) == Earlier(d)

\* An index, or a tag's bare manifest, that an earlier index has as a child is left to it.
KnownToIndexes(d) == Seen(Earlier(d))

IndexTargets ==
    {[tag |-> Representative(d), platform |-> 0, subject |-> d] :
        d \in {d \in Published : d \notin KnownToIndexes(d)}}

\* Two platforms of one index that name the same manifest are one subject.
PlatformTargets ==
    UNION {{[tag |-> Representative(d), platform |-> e[1], subject |-> e[2]] :
                e \in {e \in Children[d] :
                         /\ e[2] \notin Seen(Earlier(d)) \cup {d}
                         /\ \A f \in Children[d] : f[2] = e[2] => e[1] <= f[1]}} :
            d \in {d \in Published : d \notin KnownToIndexes(d)}}

\* Faulty variant of Plan: the images are left to the pushes.
IndexesOnly == IndexTargets

Plan == IndexTargets \cup PlatformTargets

\* Indexes before platforms, each by tag and platform.
Precedes(a, b) ==
    \/ a.platform = 0 /\ b.platform # 0
    \/ (a.platform = 0) = (b.platform = 0) /\ a.tag < b.tag
    \/ a.platform # 0 /\ a.tag = b.tag /\ a.platform < b.platform

\* A pass starts with its signing material resolved and every tag read: a missing
\* variable, or a tag the registry cannot answer for, ends it before it begins.
Begin(mode) ==
    /\ run.step = "idle"
    /\ run' = [NoRun EXCEPT !.step = IF Plan = {} THEN "report" ELSE "sign", !.mode = mode,
                            !.plan = Plan, !.todo = Plan, !.found = Published]
    /\ UNCHANGED <<tags, signatures>>

StartScheduled == Begin(Scheduled) /\ UNCHANGED spent
StartByHand == (\E mode \in Modes : Begin(mode)) /\ Spend("runs")

-----------------------------------------------------------------------------
(* One subject after another.                                                 *)

Target == CHOOSE t \in run.todo : \A u \in run.todo \ {t} : Precedes(t, u)

\* The pass is done with these targets.
Rest(done) == IF run.todo \subseteq done THEN "report" ELSE "sign"
Report(done, outcome) ==
    run' = [run EXCEPT !.step = Rest(done), !.todo = @ \ done, !.attempt = 0,
                       !.rows = @ \cup {[target |-> t, outcome |-> outcome] : t \in done}]

\* Faulty variant of Matches: the two halves may come from two signatures.
HalfMatches(c) ==
    \/ c[1] = run.mode.identity \/ c[2] = run.mode.issuer
    \/ run.mode.identity = 0 /\ run.mode.issuer = 0

\* Exactly the identity and the issuer asked for, on one signature.
Matches(c) == run.mode.identity \in {0, c[1]} /\ run.mode.issuer \in {0, c[2]}

\* How many signatures of these kinds a subject carries.
Carried(d, kinds) == MapThenSumSet(LAMBDA c : signatures[d][c], kinds)

\* ocx lists Cap signatures, in the order the registry likes: whether a match is among
\* them is open once there are Cap others.
MayFind(d) == \E c \in Candidates : Matches(c) /\ signatures[d][c] > 0
MayMiss(d) ==
    \/ ~MayFind(d)
    \/ Carried(d, {c \in Candidates : ~Matches(c)}) >= Cap

Signing == run.step = "sign"

SkipSigned ==
    /\ Signing /\ ~run.mode.force /\ MayFind(Target.subject)
    /\ Report({Target}, "already_signed")
    /\ UNCHANGED <<tags, signatures, spent>>

Unsigned == Signing /\ (run.mode.force \/ MayMiss(Target.subject))

SkipDry ==
    /\ Unsigned /\ run.mode.dry
    /\ Report({Target}, "dry_run")
    /\ UNCHANGED <<tags, signatures, spent>>

\* A registry that cannot answer is not one without signatures.
FailListing ==
    /\ Signing /\ Spend("faults")
    /\ Report({Target}, "unavailable")
    /\ UNCHANGED <<tags, signatures>>

StartChild ==
    /\ Unsigned /\ ~run.mode.dry
    /\ run' = [run EXCEPT !.step = "child"]
    /\ UNCHANGED <<tags, signatures, spent>>

\* What `ocx --remote package sign [-p platform] repository:tag` acts on: the tag as the
\* registry has it by then.
Resolved ==
    LET d == tags[Target.tag] IN
    IF Target.platform = 0 THEN {d} ELSE {e[2] : e \in {e \in Children[d] : e[1] = Target.platform}}

\* The signatures once this one is attached: `ocx package sign` appends.
Attached(d) == [signatures EXCEPT ![d][Me] = @ + 1]
Wrote(d) == [run.wrote EXCEPT ![d] = @ + 1]

ChildSigns ==
    /\ run.step = "child"
    /\ \E d \in Resolved :
         /\ signatures' = Attached(d)
         /\ run' = [run EXCEPT !.step = Rest({Target}), !.todo = @ \ {Target}, !.attempt = 0,
                        !.rows = @ \cup {[target |-> Target, outcome |-> "succeeded"]},
                        !.wrote = Wrote(d)]
    /\ UNCHANGED <<tags, spent>>

\* The index the tag moved to has no such platform.
ChildFindsNothing ==
    /\ run.step = "child" /\ Resolved = {}
    /\ Report({Target}, "unavailable")
    /\ UNCHANGED <<tags, signatures, spent>>

\* The child fails: the transient exit is retried, any other is the row's.
ChildFails ==
    /\ run.step = "child" /\ Spend("faults")
    /\ \E exit \in Failures :
         IF exit = "temp_fail" /\ run.attempt < MaxRetries
         THEN run' = [run EXCEPT !.attempt = @ + 1]
         ELSE Report({Target}, exit)
    /\ UNCHANGED <<tags, signatures>>

\* It is killed at its time limit, which counts as transient, and had signed.
ChildTimesOut ==
    /\ run.step = "child" /\ Spend("faults")
    /\ \E d \in Resolved :
         /\ signatures' = Attached(d)
         /\ run' = [run EXCEPT
                !.attempt = IF run.attempt < MaxRetries THEN @ + 1 ELSE 0,
                !.lost = @ + 1, !.wrote = Wrote(d),
                !.step = IF run.attempt < MaxRetries THEN @ ELSE Rest({Target}),
                !.todo = IF run.attempt < MaxRetries THEN @ ELSE @ \ {Target},
                !.rows = IF run.attempt < MaxRetries THEN @
                         ELSE @ \cup {[target |-> Target, outcome |-> "temp_fail"]}]
    /\ UNCHANGED tags

\* Faulty variant of Unattempted: the report stops where the pass did.
InFlightOnly == {Target}

\* The subjects the pass never finished.
Unattempted == run.todo

\* The child in flight is killed: the registry has its signature or never saw it.
InFlight ==
    \/ UNCHANGED signatures
    \/ run.step = "child" /\ \E d \in Resolved : signatures' = Attached(d)

\* An interrupt abandons the subject in flight and every one behind it.
Interrupt ==
    /\ run.step \in {"sign", "child"} /\ Spend("faults") /\ InFlight
    /\ run' = [run EXCEPT !.step = "report", !.todo = {}, !.attempt = 0,
                          !.rows = @ \cup {[target |-> t, outcome |-> "cancelled"] : t \in Unattempted}]
    /\ UNCHANGED tags

\* The process ends without a report.
Kill ==
    /\ run.step # "idle" /\ Spend("faults") /\ InFlight
    /\ run' = NoRun
    /\ UNCHANGED tags

Finish ==
    /\ run.step = "report"
    /\ run' = NoRun
    /\ UNCHANGED <<tags, signatures, spent>>

Pass ==
    \/ SkipSigned \/ SkipDry \/ FailListing \/ StartChild \/ ChildSigns
    \/ ChildFindsNothing \/ ChildFails \/ ChildTimesOut \/ Finish

-----------------------------------------------------------------------------
Next ==
    \/ MoveTag \/ SignElsewhere
    \/ StartScheduled \/ StartByHand
    \/ Pass \/ Interrupt \/ Kill

Spec == Init /\ [][Next]_vars

\* The operator's timer starts a pass again and again, and a pass goes on by itself.
FairSpec == Spec /\ WF_vars(StartScheduled) /\ WF_vars(Pass)

-----------------------------------------------------------------------------
(* Properties.                                                                *)

\* A signature counts for this command line.
Counts(c) ==
    /\ run.mode.identity # 0 => c[1] = run.mode.identity
    /\ run.mode.issuer # 0 => c[2] = run.mode.issuer

Subjects(targets) == {t.subject : t \in targets}
Outcomes == {r.outcome : r \in run.rows}
\* Exit of the pass: the worst of its rows' failures, success when there is none.
worst_exit ==
    LET failed == Outcomes \cap Failures IN
    IF failed = {} THEN "success"
    ELSE CHOOSE f \in failed : \A g \in failed : severity_rank[f] <= severity_rank[g]


\* Each subject a pass found has one row, interrupted or not: a subject that two tags, or
\* a tag and an index, lead to is not two, and one the pass never reached is not dropped.
EverySubjectHasItsRow ==
    run.step = "report" =>
       /\ Subjects(Targeted) = Seen(run.found)
       /\ \A r, s \in run.rows : r.target.subject = s.target.subject => r = s

\* A pass that exits with success and was neither interrupted nor dry leaves every subject
\* under a signature it respects, or its own, unless a tag moved meanwhile.
SuccessIsSigned ==
    run.step = "report" /\ ~run.moved /\ worst_exit = "success"
    /\ Outcomes \cap {"dry_run", "cancelled"} = {} =>
       \A d \in Subjects(run.plan) :
          \/ signatures[d][Me] > 0
          \/ ~run.mode.force /\ \E c \in Candidates : Counts(c) /\ signatures[d][c] > 0

\* A pass attaches one signature to a subject at most, and another only for an attempt
\* whose outcome it lost, however many tags and indexes lead to the subject and whatever
\* it was told to force: ocx verifies Cap of them.
OneSignatureEach ==
    ~run.moved => \A d \in Digests : run.wrote[d] <= 1 + run.lost

\* In the end everything the tags serve is signed, and no pass adds a signature.
Converges ==
    /\ <>[](\A d \in Served : Carried(d, Candidates) > 0)
    /\ <>[][UNCHANGED signatures]_vars

=============================================================================
