--------------------------- MODULE PipelineProofs ----------------------------
(* Theorems about the package pipeline, for every value of the constants of    *)
(* the three modules: the orchestrator of one mirror (MirrorRun), one prepare  *)
(* task on a disk that kills leave behind (TaskPrepare), and the generated CI  *)
(* of a mirror repository (CiGeneration).                                      *)
EXTENDS MirrorRun, TaskPrepare, CiGeneration, FiniteSetTheorems, WellFoundedInduction, TLAPS

-----------------------------------------------------------------------------
(* MirrorRun: any versions, platforms, releases, options, windows and caps. *)

-----------------------------------------------------------------------------
(* Minima and maxima of sets of naturals.                                    *)

\* A family of finite sets has a member of which no other is a strict subset.
LEMMA MinimalSet ==
  ASSUME NEW T, T # {}, \A X \in T : IsFiniteSet(X)
  PROVE  \E X \in T : \A Y \in T : Y \subseteq X => Y = X
<1>1. T \subseteq FiniteSubsetsOf(UNION T)
  BY DEF FiniteSubsetsOf
<1>2. PICK X \in T : \A Y \in T : ~(<<Y, X>> \in StrictSubsetOrdering(UNION T))
  BY <1>1, FS_StrictSubsetOrderingWellFounded, WFMin
<1>3. ASSUME NEW Y \in T, Y \subseteq X, Y # X PROVE FALSE
  <2>1. <<Y, X>> \in (SUBSET UNION T) \X (SUBSET UNION T)
    OBVIOUS
  <2> QED
    BY <1>2, <1>3, <2>1 DEF StrictSubsetOrdering
<1> QED
  BY <1>3

\* Min(S) is a member of S and no greater than the others: of the intervals that end at a
\* member, one has no strict subset among them.
LEMMA SmallestOf ==
  ASSUME NEW S \in SUBSET Nat, S # {}
  PROVE  Min(S) \in S /\ \A x \in S : Min(S) <= x
<1> DEFINE Down(x) == 0..x
           Downs == {Down(x) : x \in S}
<1>1. \A x \in S : IsFiniteSet(Down(x))
  BY FS_Interval
<1>2. \A x, m \in S : x < m => Down(x) \subseteq Down(m) /\ Down(x) # Down(m)
  OBVIOUS
<1> HIDE DEF Down
<1>3. \E X \in Downs : \A Y \in Downs : Y \subseteq X => Y = X
  <2>1. Downs # {} /\ \A X \in Downs : IsFiniteSet(X)
    BY <1>1
  <2> HIDE DEF Downs
  <2> QED
    BY <2>1, MinimalSet
<1>4. PICK m \in S : \A x \in S : m <= x
  BY <1>2, <1>3
<1> QED
  BY <1>4 DEF Min

\* Max(S) is a member of a finite S and no less than the others, in the same way.
LEMMA LargestOf ==
  ASSUME NEW S \in SUBSET Nat, S # {}, IsFiniteSet(S)
  PROVE  Max(S) \in S /\ \A x \in S : x <= Max(S)
<1> DEFINE Up(x) == {y \in S : x <= y}
           Ups == {Up(x) : x \in S}
<1>1. \A x \in S : Up(x) \in SUBSET S
  OBVIOUS
<1>2. ASSUME NEW x \in S, NEW m \in S, m < x PROVE Up(x) \subseteq Up(m) /\ Up(x) # Up(m)
  <2>1. m \in Up(m) /\ m \notin Up(x)
    BY <1>2
  <2>2. \A y \in S : x <= y => m <= y
    BY <1>2
  <2> QED
    BY <2>1, <2>2
<1> HIDE DEF Up
<1>3. \E X \in Ups : \A Y \in Ups : Y \subseteq X => Y = X
  <2>1. \A x \in S : IsFiniteSet(Up(x))
    BY <1>1, FS_Subset
  <2>2. Ups # {} /\ \A X \in Ups : IsFiniteSet(X)
    BY <2>1
  <2> HIDE DEF Ups
  <2> QED
    BY <2>2, MinimalSet
<1>4. PICK m \in S : \A x \in S : x <= m
  BY <1>2, <1>3
<1> QED
  BY <1>4 DEF Max

-----------------------------------------------------------------------------
(* Types, and where the cursor of a run is.                                   *)

RunStates ==
    [plan : SUBSET Tasks, todo : SUBSET Tasks, pushed : SUBSET Tasks,
     failed : BOOLEAN, failFast : SUBSET BOOLEAN,
     stamp : [Versions -> Nat], known : SUBSET (Versions \X Nat)]

\* The range is the lowest version there is still something to do for.
CursorOK ==
    /\ IsFiniteSet(stamped)
    /\ pc \in {"idle", "prepare", "range"} => range = 0
    /\ pc = "idle" => run.plan = {}
    /\ pc = "prepare" => run.todo = run.plan
    /\ run.todo \subseteq run.plan
    /\ run.pushed \subseteq run.plan \ run.todo
    /\ \A t \in run.todo : range <= t[1]

TypeInv == TypeOK /\ CursorOK

LEMMA Numbers ==
  /\ Versions \subseteq Nat \ {0} /\ Versions \subseteq Nat
  /\ \A t \in Tasks : t = <<t[1], t[2]>> /\ t[1] \in Versions /\ t[1] \in Nat \ {0} /\ t[2] \in Platforms
<1>1. Versions \subseteq Nat \ {0} /\ Versions \subseteq Nat
  BY VersionAssumption
<1>2. ASSUME NEW t \in Versions \X Platforms
      PROVE  t = <<t[1], t[2]>> /\ t[1] \in Versions /\ t[2] \in Platforms
  OBVIOUS
<1> QED
  BY <1>1, <1>2 DEF Tasks

LEMMA TypedRun == TypeOK => run \in RunStates
BY DEF TypeOK, RunStates

LEMMA Fields ==
  ASSUME NEW r \in RunStates
  PROVE  /\ r.plan \in SUBSET Tasks /\ r.todo \in SUBSET Tasks /\ r.pushed \in SUBSET Tasks
         /\ r.failed \in BOOLEAN /\ r.failFast \in SUBSET BOOLEAN
         /\ r.stamp \in [Versions -> Nat] /\ r.known \in SUBSET (Versions \X Nat)
BY DEF RunStates

\* What a run selects is something upstream has and the target was not seen to have.
LEMMA SelectedIsOpen ==
  ASSUME NEW src \in SUBSET Tasks, NEW bounds, NEW seen, NEW options
  PROVE  /\ Selected(src, bounds, seen, options) \subseteq Eligible(src, bounds, options.version)
         /\ Selected(src, bounds, seen, options) \cap seen = {}
         /\ Selected(src, bounds, seen, options) \subseteq src
<1> DEFINE eligible == Eligible(src, bounds, options.version)
           newest == Newest(VersionsOf(eligible), 1)
           capped == Capped(VersionsOf(eligible \ seen))
<1>1. eligible \subseteq src
  BY DEF Eligible, Resolved
<1>2. Selected(src, bounds, seen, options)
        = IF options.latest THEN {t \in eligible \ seen : t[1] \in newest}
          ELSE {t \in eligible \ seen : t[1] \in capped}
  BY DEF Selected
<1> HIDE DEF eligible, newest, capped
<1>3. /\ Selected(src, bounds, seen, options) \subseteq eligible \ seen
  BY <1>2
<1> QED
  BY <1>1, <1>3 DEF eligible

\* What a function takes on a finite set is a finite set.
LEMMA ImageIsFinite ==
  ASSUME NEW S, IsFiniteSet(S), NEW f, f = [x \in S |-> f[x]]
  PROVE  IsFiniteSet({f[x] : x \in S})
<1> DEFINE T == {f[x] : x \in S}
<1>1. f \in [S -> T]
  OBVIOUS
<1>2. f \in Surjection(S, T)
  BY <1>1 DEF Surjection
<1> QED
  BY <1>2, FS_Surjection

\* A stamp is a number above every stamp the version has.
LEMMA StampIsNew ==
  ASSUME stamped \subseteq Builds, IsFiniteSet(stamped), NEW v \in Versions
  PROVE  /\ NextStamp(v) \in Nat \ {0}
         /\ \A k \in StampedTags : k[1] = v => k[2] < NextStamp(v)
<1> DEFINE tag == [b \in stamped |-> <<b.version, b.stamp>>]
           own == {k \in StampedTags : k[1] = v}
           stamp == [k \in own |-> k[2]]
           all == {k[2] : k \in own}
           S == {0} \cup all
<1>1. StampedTags \subseteq Versions \X Nat
  BY DEF StampedTags, Builds
<1>2. IsFiniteSet(StampedTags)
  <2>1. StampedTags = {tag[b] : b \in stamped}
    BY Zenon DEF StampedTags
  <2>2. tag = [b \in stamped |-> tag[b]]
    OBVIOUS
  <2> HIDE DEF tag
  <2> QED
    BY <2>1, <2>2, ImageIsFinite
<1>3. IsFiniteSet(own)
  BY <1>2, FS_Subset
<1>4. IsFiniteSet(all)
  <2>1. all = {stamp[k] : k \in own} /\ stamp = [k \in own |-> stamp[k]]
    OBVIOUS
  <2> HIDE DEF stamp, all, own
  <2> QED
    BY <1>3, <2>1, ImageIsFinite
<1>5. IsFiniteSet(S) /\ S # {} /\ S \in SUBSET Nat
  <2>1. IsFiniteSet({0})
    BY FS_Singleton
  <2>2. all \subseteq Nat
    BY <1>1
  <2> HIDE DEF all
  <2>3. IsFiniteSet({0} \cup all)
    BY <1>4, <2>1, FS_Union
  <2> QED
    BY <2>2, <2>3
<1>6. NextStamp(v) = 1 + Max(S)
  BY DEF NextStamp
<1>7. Max(S) \in Nat /\ \A x \in S : x <= Max(S)
  <2> HIDE DEF S
  <2> QED
    BY <1>5, LargestOf
<1>8. ASSUME NEW k \in StampedTags, k[1] = v PROVE k[2] \in S /\ k[2] \in Nat
  BY <1>1, <1>8
<1> HIDE DEF S
<1> QED
  BY <1>6, <1>7, <1>8

-----------------------------------------------------------------------------
(* Type correctness.                                                          *)

LEMMA NoRunTypes == NoRun \in RunStates
BY DEF NoRun, RunStates

LEMMA InitTypes == Init => TypeInv
<1> SUFFICES ASSUME Init PROVE TypeInv
  OBVIOUS
<1> USE DEF Init
<1>1. source \subseteq Tasks
  BY AssetAssumption
<1>2. run \in RunStates
  BY NoRunTypes
<1>3. TypeOK
  BY <1>1, <1>2, BoundAssumption DEF TypeOK, RunStates, NoTask, NoOutcome, Outcomes, Steps
<1>4. CursorOK
  BY FS_EmptySet DEF CursorOK, NoRun
<1> QED
  BY <1>3, <1>4 DEF TypeInv

\* A plan of a run is of tasks upstream has, under a fresh stamp for each version.
LEMMA PlanTypes ==
  ASSUME TypeInv, NEW options, Plan(options)
  PROVE  TypeInv'
<1> USE DEF TypeInv
<1>1. PICK seen \in Views, answer \in Answers :
         LET plan == Selected(source, Bounds(answer), seen, options) IN
         /\ answer = NoAnswer => Failure
         /\ answer # NoAnswer => UNCHANGED faults
         /\ run' = [NoRun EXCEPT !.plan = plan, !.todo = plan,
                                 !.stamp = [v \in Versions |-> NextStamp(v)],
                                 !.known = StampedTags]
  BY DEF Plan
<1> DEFINE plan == Selected(source, Bounds(answer), seen, options)
           stamps == [v \in Versions |-> NextStamp(v)]
<1>2. plan \in SUBSET Tasks
  <2>1. source \in SUBSET Tasks
    BY DEF TypeOK
  <2> QED
    BY <2>1, SelectedIsOpen
<1>3. stamps \in [Versions -> Nat] /\ StampedTags \in SUBSET (Versions \X Nat)
  <2>1. stamped \subseteq Builds /\ IsFiniteSet(stamped)
    BY DEF TypeOK, CursorOK
  <2>2. \A v \in Versions : NextStamp(v) \in Nat
    BY <2>1, StampIsNew
  <2> QED
    BY <2>1, <2>2 DEF StampedTags, Builds
<1>4. /\ run' \in RunStates /\ run'.plan = plan /\ run'.todo = plan /\ run'.pushed = {}
  <2> HIDE DEF plan, stamps
  <2>1. run' = [NoRun EXCEPT !.plan = plan, !.todo = plan, !.stamp = stamps, !.known = StampedTags]
    BY <1>1 DEF plan, stamps
  <2> QED
    BY <1>2, <1>3, <2>1, NoRunTypes DEF RunStates, NoRun
<1>5. faults' \in 0..MaxFaults
  BY <1>1, BoundAssumption DEF Failure, TypeOK
<1>6. /\ pc = "idle" /\ pc' = "prepare"
      /\ UNCHANGED <<source, ceiling, target, outcome, cursor>>
  BY DEF Plan
<1> HIDE DEF plan
<1>7. TypeOK'
  BY <1>4, <1>5, <1>6 DEF TypeOK, RunStates, target, cursor, Steps
<1>8. CursorOK'
  <2>1. range = 0
    BY <1>6 DEF CursorOK
  <2> QED
    BY <1>2, <1>4, <1>6, <2>1, Numbers DEF CursorOK, target, cursor
<1> QED
  BY <1>7, <1>8

LEMMA IdleTypes ==
  ASSUME TypeInv, Release \/ Raise \/ PlanNothing \/ AbortPlan \/ UNCHANGED vars
  PROVE  TypeInv'
<1>1. CASE Release
  <2>1. source' \subseteq Tasks
    BY <1>1, AssetAssumption DEF Release, TypeInv, TypeOK
  <2> QED
    BY <1>1, <2>1 DEF TypeInv, TypeOK, CursorOK, Release, target, cursor
<1>2. CASE Raise
  BY <1>2 DEF TypeInv, TypeOK, CursorOK, Raise, target, cursor
<1>3. CASE PlanNothing
  BY <1>3 DEF TypeInv, TypeOK, CursorOK, PlanNothing, vars, target, cursor
<1>4. CASE AbortPlan
  BY <1>4, BoundAssumption DEF TypeInv, TypeOK, CursorOK, AbortPlan, Failure, target, cursor
<1>5. CASE UNCHANGED vars
  BY <1>5 DEF TypeInv, TypeOK, CursorOK, vars, target, cursor
<1> QED
  BY <1>1, <1>2, <1>3, <1>4, <1>5

LEMMA PrepareTypes ==
  ASSUME TypeInv, Prepare
  PROVE  TypeInv'
<1>1. outcome' \in [Tasks -> Outcomes]
  BY DEF Prepare, Outcomes
<1>2. faults' \in 0..MaxFaults
  BY BoundAssumption DEF Prepare, Failure, TypeInv, TypeOK
<1> QED
  BY <1>1, <1>2 DEF TypeInv, TypeOK, CursorOK, Prepare, Steps, target, cursor

\* A run that ends, by its report or by a kill.
LEMMA ForgetTypes ==
  ASSUME TypeInv, Exit \/ Crash
  PROVE  TypeInv'
<1>1. Forget /\ faults' \in 0..MaxFaults
  BY BoundAssumption DEF Exit, Crash, Failure, TypeInv, TypeOK
<1>2. run' \in RunStates
  BY <1>1, NoRunTypes DEF Forget
<1>3. TypeOK'
  BY <1>1, <1>2 DEF TypeInv, TypeOK, Forget, RunStates, target, Steps, NoTask, NoOutcome, Outcomes
<1>4. CursorOK'
  BY <1>1 DEF TypeInv, CursorOK, Forget, NoRun, target
<1> QED
  BY <1>3, <1>4 DEF TypeInv

LEMMA BeginRangeTypes ==
  ASSUME TypeInv, BeginRange
  PROVE  TypeInv' /\ range' \in VersionsOf(run.todo)
<1>1. run.todo \in SUBSET Tasks /\ run.todo # {}
  BY DEF TypeInv, TypeOK, BeginRange
<1>2. /\ VersionsOf(run.todo) \in SUBSET Nat /\ VersionsOf(run.todo) # {}
      /\ VersionsOf(run.todo) \subseteq Versions
  BY <1>1, Numbers DEF VersionsOf
<1>3. /\ range' \in VersionsOf(run.todo)
      /\ \A x \in VersionsOf(run.todo) : range' <= x
  BY <1>2, SmallestOf DEF BeginRange, Lowest
<1>4. \A t \in run.todo : range' <= t[1]
  BY <1>3 DEF VersionsOf
<1>5. TypeOK'
  BY <1>2, <1>3 DEF TypeInv, TypeOK, BeginRange, Steps, target
<1>6. CursorOK'
  BY <1>4 DEF TypeInv, CursorOK, BeginRange, target
<1> QED
  BY <1>3, <1>5, <1>6 DEF TypeInv

\* A failure leaves at most these tasks to do.
LEMMA FailedTypes ==
  ASSUME TypeInv, NEW todo, todo \subseteq run.todo, Failed(todo)
  PROVE  /\ run' \in RunStates /\ run'.plan = run.plan /\ run'.pushed = run.pushed
         /\ run'.todo \subseteq todo /\ run'.failed /\ run'.stamp = run.stamp
         /\ run'.known = run.known
<1>1. run \in RunStates
  BY TypedRun DEF TypeInv
<1>2. PICK failFast \in run.failFast :
        run' = [run EXCEPT !.todo = IF failFast THEN {} ELSE todo,
                           !.failed = TRUE, !.failFast = {failFast}]
  BY DEF Failed
<1>3. failFast \in BOOLEAN
  BY <1>1, Fields
<1>4. PICK left \in SUBSET todo : run' = [run EXCEPT !.todo = left, !.failed = TRUE, !.failFast = {failFast}]
  BY <1>2
<1>5. left \in SUBSET Tasks /\ {failFast} \in SUBSET BOOLEAN
  BY <1>1, <1>3, <1>4, Fields
<1> QED
  BY <1>1, <1>4, <1>5 DEF RunStates

LEMMA FailTypes ==
  ASSUME TypeInv, NEW t \in Tasks, Fail(t), faults' \in 0..MaxFaults
  PROVE  TypeInv'
<1>1. /\ run' \in RunStates /\ run'.plan = run.plan /\ run'.pushed = run.pushed
      /\ run'.todo \subseteq run.todo
  BY FailedTypes DEF Fail
<1>2. TypeOK'
  BY <1>1 DEF TypeInv, TypeOK, Fail, RunStates, target, Steps
<1>3. CursorOK'
  BY <1>1 DEF TypeInv, CursorOK, Fail, target
<1> QED
  BY <1>2, <1>3 DEF TypeInv
\* What is being pushed is the range's, and still to do.
LEMMA TaskOfRange ==
  ASSUME TypeInv, pc \in {"primary", "cascade"}
  PROVE  /\ task \in run.todo /\ task \in Tasks /\ task = <<range, task[2]>>
         /\ range \in Versions /\ task[2] \in Platforms /\ Build \in Builds
         /\ Build = [version |-> range, stamp |-> run.stamp[range], platform |-> task[2]]
<1>1. task \in run.todo /\ task[1] = range /\ run.todo \subseteq Tasks
  BY DEF TypeInv, TypeOK
<1>2. /\ task \in Tasks /\ task = <<range, task[2]>> /\ range \in Versions
      /\ task[2] \in Platforms
  BY <1>1, Numbers
<1>3. run.stamp[range] \in Nat
  BY <1>2 DEF TypeInv, TypeOK
<1> QED
  BY <1>1, <1>2, <1>3 DEF Build, Builds

LEMMA TakeSlotTypes ==
  ASSUME TypeInv, NEW t \in Tasks, TakeSlot(t)
  PROVE  TypeInv'
<1>1. pc = "slot" /\ t \in run.todo /\ t[1] = range
  BY DEF TakeSlot, InRange
<1>2. CASE outcome[t] = "ready" /\ task' = t /\ pc' = "primary"
           /\ UNCHANGED <<source, ceiling, target, run, outcome, range, pending, faults>>
  BY <1>1, <1>2 DEF TypeInv, TypeOK, CursorOK, target, Steps
<1>3. CASE Fail(t) /\ UNCHANGED faults
  BY <1>3, FailTypes DEF TypeInv, TypeOK
<1>4. CASE run' = [run EXCEPT !.todo = @ \ {t}]
           /\ UNCHANGED <<source, ceiling, target, pc, outcome, cursor, faults>>
  <2>1. run' \in RunStates /\ run'.plan = run.plan /\ run'.pushed = run.pushed
        /\ run'.todo = run.todo \ {t}
    BY <1>4, TypedRun DEF TypeInv, RunStates
  <2>2. TypeOK'
    BY <1>1, <1>4, <2>1 DEF TypeInv, TypeOK, target, cursor, RunStates
  <2>3. CursorOK'
    BY <1>1, <1>4, <2>1 DEF TypeInv, CursorOK, target, cursor
  <2> QED
    BY <2>2, <2>3 DEF TypeInv
<1> QED
  BY <1>2, <1>3, <1>4 DEF TakeSlot

LEMMA PushPrimaryTypes ==
  ASSUME TypeInv, PushPrimary
  PROVE  TypeInv'
<1>1. pc = "primary" /\ pc' = "cascade"
  BY DEF PushPrimary
<1>2. task \in Tasks /\ Build \in Builds
  BY <1>1, TaskOfRange
<1>3. bare' \in [Tasks -> Nat] /\ pending' \subseteq {"bare", "latest"}
  BY <1>2 DEF PushPrimary, TypeInv, TypeOK
<1>4. stamped' \subseteq Builds /\ IsFiniteSet(stamped')
  <2>1. IsFiniteSet(stamped \cup {Build})
    BY FS_AddElement DEF TypeInv, CursorOK
  <2>2. stamped \subseteq Builds
    BY DEF TypeInv, TypeOK
  <2> QED
    BY <1>2, <2>1, <2>2 DEF PushPrimary, TypeInv, CursorOK
<1>5. TypeOK'
  BY <1>1, <1>3, <1>4 DEF TypeInv, TypeOK, PushPrimary, Steps
<1>6. CursorOK'
  BY <1>1, <1>4 DEF TypeInv, CursorOK, PushPrimary
<1> QED
  BY <1>5, <1>6 DEF TypeInv

LEMMA MoveTagTypes ==
  ASSUME TypeInv, NEW tag \in {"bare", "latest"}, MoveTag(tag)
  PROVE  TypeInv'
<1>1. pc = "cascade" /\ pc' = pc
  BY DEF MoveTag
<1>2. /\ task \in Tasks /\ range \in Versions /\ task[2] \in Platforms /\ Build.stamp \in Nat
  <2>1. run.stamp \in [Versions -> Nat]
    BY DEF TypeInv, TypeOK
  <2> QED
    BY <1>1, <2>1, TaskOfRange
<1>3. bare' \in [Tasks -> Nat]
  BY <1>2 DEF MoveTag, TypeInv, TypeOK
<1>4. latest' \in [Platforms -> Versions \cup {0}]
  BY <1>2 DEF MoveTag, TypeInv, TypeOK
<1>5. TypeOK'
  BY <1>1, <1>3, <1>4 DEF TypeInv, TypeOK, MoveTag
<1>6. CursorOK'
  BY DEF TypeInv, CursorOK, MoveTag
<1> QED
  BY <1>5, <1>6 DEF TypeInv

LEMMA FailPushTypes ==
  ASSUME TypeInv, FailPush
  PROVE  TypeInv'
<1>1. pc \in {"primary", "cascade"} /\ Fail(task)
  BY DEF FailPush
<1>2. faults' \in 0..MaxFaults
  BY BoundAssumption DEF FailPush, Failure, TypeInv, TypeOK
<1> QED
  BY <1>1, <1>2, TaskOfRange, FailTypes

LEMMA SignPlatformTypes ==
  ASSUME TypeInv, SignPlatform
  PROVE  /\ TypeInv'
         /\ run'.todo = run.todo \ {task} /\ run'.pushed = run.pushed \cup {task}
         /\ run'.plan = run.plan /\ run'.failed = run.failed /\ run'.stamp = run.stamp
         /\ run'.known = IF Stamped THEN run.known \cup {<<range, Build.stamp>>} ELSE run.known
<1>1. pc = "cascade"
  BY DEF SignPlatform
<1>2. /\ task \in run.todo /\ task \in Tasks /\ task = <<range, task[2]>> /\ range \in Versions
      /\ Build \in Builds /\ Build.stamp = run.stamp[range]
  BY <1>1, TaskOfRange
<1>3. run \in RunStates
  BY TypedRun DEF TypeInv
<1>4. run.stamp[range] \in Nat
  BY <1>2, <1>3, Fields
<1> DEFINE known == IF Stamped THEN run.known \cup {<<range, Build.stamp>>} ELSE run.known
<1>5. known \in SUBSET (Versions \X Nat)
  BY <1>2, <1>3, <1>4, Fields
<1>6. /\ run' \in RunStates
      /\ run'.todo = run.todo \ {task} /\ run'.pushed = run.pushed \cup {task}
      /\ run'.plan = run.plan /\ run'.failed = run.failed /\ run'.stamp = run.stamp
      /\ run'.known = known
  <2>1. run' = [run EXCEPT !.todo = @ \ {task}, !.pushed = @ \cup {task}, !.known = known]
    BY <1>3 DEF SignPlatform, RunStates
  <2> HIDE DEF known
  <2> QED
    BY <1>2, <1>3, <1>5, <2>1 DEF RunStates
<1>7. signed' \subseteq Builds
  <2>1. bare[task] \in Nat
    BY <1>2 DEF TypeInv, TypeOK
  <2>2. [Build EXCEPT !.stamp = IF Stamped THEN @ ELSE bare[task]] \in Builds
    BY <1>2, <2>1 DEF Builds
  <2> QED
    BY <2>2 DEF SignPlatform, TypeInv, TypeOK
<1>8. TypeOK'
  BY <1>1, <1>6, <1>7 DEF TypeInv, TypeOK, SignPlatform, RunStates, Steps
<1>9. CursorOK'
  <2>1. run'.pushed \subseteq run'.plan \ run'.todo
    BY <1>2, <1>6 DEF TypeInv, CursorOK
  <2> QED
    BY <1>6, <2>1 DEF TypeInv, CursorOK, SignPlatform
<1> QED
  BY <1>6, <1>8, <1>9 DEF TypeInv

LEMMA SignIndexTypes ==
  ASSUME TypeInv, SignIndex
  PROVE  TypeInv'
<1>1. pc = "slot" /\ pc' = "range" /\ range' = 0
      /\ UNCHANGED <<source, ceiling, stamped, bare, latest, signed, outcome, task, pending>>
  BY DEF SignIndex
<1>2. \/ run' = run /\ UNCHANGED faults
      \/ Failed(run.todo) /\ faults' \in 0..MaxFaults
  BY BoundAssumption DEF SignIndex, Failure, TypeInv, TypeOK
<1>3. /\ run' \in RunStates /\ run'.plan = run.plan /\ run'.pushed = run.pushed
      /\ run'.todo \subseteq run.todo
  BY <1>2, FailedTypes, TypedRun DEF TypeInv
<1>4. faults' \in 0..MaxFaults
  BY <1>2 DEF TypeInv, TypeOK
<1>5. indexed' \subseteq Versions \X Nat \X SUBSET Platforms
  <2>1. range \in VersionsOf(run.pushed) /\ run.pushed \subseteq Tasks
    BY DEF SignIndex, TypeInv, TypeOK
  <2>2. range \in Versions
    BY <2>1, Numbers DEF VersionsOf
  <2>3. run.stamp[range] \in Nat /\ IndexPlatforms \in SUBSET Platforms
    BY <2>2 DEF TypeInv, TypeOK, IndexPlatforms
  <2>4. <<range, run.stamp[range], IndexPlatforms>> \in Versions \X Nat \X SUBSET Platforms
    BY <2>2, <2>3
  <2>5. indexed \subseteq Versions \X Nat \X SUBSET Platforms
    BY DEF TypeInv, TypeOK
  <2> QED
    BY <2>4, <2>5 DEF SignIndex
<1>6. TypeOK'
  BY <1>1, <1>3, <1>4, <1>5 DEF TypeInv, TypeOK, RunStates, Steps
<1>7. CursorOK'
  <2>1. \A t \in run'.todo : t \in Tasks
    BY <1>3, Fields
  <2> QED
    BY <1>1, <1>3, <2>1, Numbers DEF TypeInv, CursorOK
<1> QED
  BY <1>6, <1>7 DEF TypeInv

LEMMA SkipIndexTypes ==
  ASSUME TypeInv, SkipIndex
  PROVE  TypeInv'
<1>1. TypeOK'
  BY DEF SkipIndex, TypeInv, TypeOK, target, Steps
<1>2. CursorOK'
  <2>1. \A t \in run.todo : t[1] \in Nat
    BY Numbers DEF TypeInv, TypeOK
  <2> QED
    BY <2>1 DEF SkipIndex, TypeInv, CursorOK, target
<1> QED
  BY <1>1, <1>2 DEF TypeInv

LEMMA NextTypes ==
  ASSUME TypeInv, [Next]_vars
  PROVE  TypeInv'
<1>1. ASSUME NEW t \in Tasks, TakeSlot(t) PROVE TypeInv'
  BY <1>1, TakeSlotTypes
<1>2. ASSUME NEW tag \in {"bare", "latest"}, MoveTag(tag) PROVE TypeInv'
  BY <1>2, MoveTagTypes
<1>3. CASE Step
  BY <1>1, <1>2, <1>3, PrepareTypes, BeginRangeTypes, PushPrimaryTypes, SignPlatformTypes,
     SignIndexTypes, SkipIndexTypes, ForgetTypes DEF Step
<1>4. CASE \E options \in Options : Plan(options)
  BY <1>4, PlanTypes
<1> QED
  BY <1>3, <1>4, IdleTypes, FailPushTypes, ForgetTypes DEF Next

\* The target's tags, the run and its cursor keep their types through every failure and
\* kill: what is being pushed is still to do and of the range the push is in.
THEOREM TypeCorrect == Spec => []TypeOK
<1>1. Init => TypeInv
  BY InitTypes
<1>2. TypeInv /\ [Next]_vars => TypeInv'
  BY NextTypes
<1>3. TypeInv => TypeOK
  BY DEF TypeInv
<1> QED
  BY <1>1, <1>2, <1>3, PTL DEF Spec

-----------------------------------------------------------------------------
(* Tags only move forward.                                                    *)

\* What a run has still to do is not published, but for the task under way once its
\* version tag has moved.
Unpublished ==
    \A t \in run.todo : bare[t] = 0 \/ (pc = "cascade" /\ t = task /\ "bare" \notin pending)

OpenInv == TypeInv /\ Unpublished

\* These steps leave the version tags alone, and nothing more to do.
LEMMA UnpublishedKept ==
  ASSUME Unpublished, bare' = bare, run'.todo \subseteq run.todo,
         pc # "cascade" \/ (pc' = pc /\ task' = task /\ pending' = pending) \/ task \notin run'.todo
  PROVE  Unpublished'
BY DEF Unpublished

LEMMA InitOpen == Init => OpenInv
<1> SUFFICES ASSUME Init PROVE OpenInv
  OBVIOUS
<1>1. run.todo = {}
  BY DEF Init, NoRun
<1> QED
  BY <1>1, InitTypes DEF OpenInv, Unpublished

LEMMA PlanOpens ==
  ASSUME OpenInv, NEW options, Plan(options)
  PROVE  Unpublished' /\ run'.todo \cap Published = {}
<1>1. PICK answer \in Answers :
        run' = [NoRun EXCEPT !.plan = Selected(source, Bounds(answer), Published, options),
                             !.todo = Selected(source, Bounds(answer), Published, options),
                             !.stamp = [v \in Versions |-> NextStamp(v)],
                             !.known = StampedTags]
  BY DEF Plan, Views
<1>2. run'.todo = Selected(source, Bounds(answer), Published, options)
  BY <1>1 DEF NoRun
<1>3. source \in SUBSET Tasks
  BY DEF OpenInv, TypeInv, TypeOK
<1>4. run'.todo \subseteq source /\ run'.todo \cap Published = {}
  BY <1>2, <1>3, SelectedIsOpen
<1>5. \A t \in run'.todo : bare[t] = 0
  BY <1>3, <1>4 DEF Published
<1> QED
  BY <1>4, <1>5 DEF Unpublished, Plan, target

LEMMA MoveTagOpen ==
  ASSUME OpenInv, NEW tag \in {"bare", "latest"}, MoveTag(tag)
  PROVE  /\ Unpublished'
         /\ \A t \in Tasks : bare[t] # 0 => bare'[t] = bare[t]
<1>1. pc = "cascade" /\ tag \in pending /\ UNCHANGED <<pc, run, task>> /\ pending' = pending \ {tag}
  BY DEF MoveTag
<1>2. task \in run.todo /\ task \in Tasks /\ bare \in [Tasks -> Nat]
  BY <1>1, TaskOfRange DEF OpenInv, TypeInv, TypeOK
<1>3. CASE tag = "latest"
  <2>1. bare' = bare
    BY <1>3 DEF MoveTag
  <2> QED
    BY <1>1, <1>3, <2>1 DEF OpenInv, Unpublished
<1>4. CASE tag = "bare"
  <2>1. bare[task] = 0
    BY <1>1, <1>2, <1>4 DEF OpenInv, Unpublished
  <2>2. \A t \in Tasks : t # task => bare'[t] = bare[t]
    BY <1>2 DEF MoveTag
  <2>3. \A t \in run.todo : t \in Tasks
    BY DEF OpenInv, TypeInv, TypeOK
  <2> QED
    BY <1>1, <1>4, <2>1, <2>2, <2>3 DEF OpenInv, Unpublished
<1> QED
  BY <1>3, <1>4

LEMMA PushPrimaryOpen ==
  ASSUME OpenInv, PushPrimary
  PROVE  /\ Unpublished'
         /\ \A t \in Tasks : bare[t] # 0 => bare'[t] = bare[t]
<1>1. /\ pc = "primary" /\ pc' = "cascade" /\ UNCHANGED <<run, task>>
  BY DEF PushPrimary
<1>2. /\ task \in run.todo /\ task \in Tasks /\ bare \in [Tasks -> Nat] /\ run.todo \subseteq Tasks
  BY <1>1, TaskOfRange DEF OpenInv, TypeInv, TypeOK
<1>3. \A t \in run.todo : bare[t] = 0
  BY <1>1 DEF OpenInv, Unpublished
<1>4. CASE Stamped
  <2>1. bare' = bare
    BY <1>4 DEF PushPrimary
  <2> QED
    BY <1>1, <1>3, <2>1 DEF Unpublished
<1>5. CASE ~Stamped
  <2>1. bare' = [bare EXCEPT ![task] = @ + 1] /\ pending' = {"latest"}
    BY <1>5 DEF PushPrimary
  <2> QED
    BY <1>1, <1>2, <1>3, <2>1 DEF Unpublished
<1> QED
  BY <1>4, <1>5

\* Every step but those two leaves the version tags alone.
LEMMA OthersOpen ==
  ASSUME OpenInv, [Next]_vars, ~PushPrimary, \A tag \in {"bare", "latest"} : ~MoveTag(tag)
  PROVE  Unpublished' /\ bare' = bare
<1> USE DEF OpenInv
<1>1. CASE \E options \in Options : Plan(options)
  BY <1>1, PlanOpens DEF Plan, target
<1>2. CASE Release \/ Raise \/ PlanNothing \/ AbortPlan \/ UNCHANGED vars
  <2>1. UNCHANGED <<bare, run, pc, task, pending>>
    BY <1>2 DEF Release, Raise, PlanNothing, AbortPlan, vars, target, cursor
  <2> QED
    BY <2>1, UnpublishedKept
<1>3. CASE Prepare \/ BeginRange
  <2>1. UNCHANGED <<bare, run, task, pending>> /\ pc # "cascade"
    BY <1>3 DEF Prepare, BeginRange, target, cursor
  <2> QED
    BY <2>1, UnpublishedKept
<1>4. CASE Exit \/ Crash
  <2>1. bare' = bare /\ run'.todo = {}
    BY <1>4 DEF Exit, Crash, Forget, NoRun, target
  <2> QED
    BY <2>1 DEF Unpublished
<1>5. ASSUME NEW t \in Tasks, TakeSlot(t) PROVE Unpublished' /\ bare' = bare
  <2>1. pc # "cascade" /\ bare' = bare
    BY <1>5 DEF TakeSlot, Fail, target
  <2>2. CASE Fail(t)
    BY <2>1, <2>2, FailedTypes, UnpublishedKept DEF Fail
  <2>3. CASE run' = run
    BY <2>1, <2>3, UnpublishedKept
  <2>4. CASE run' = [run EXCEPT !.todo = @ \ {t}]
    <3>1. run'.todo \subseteq run.todo
      BY <2>4, TypedRun DEF TypeInv, RunStates
    <3> QED
      BY <2>1, <3>1, UnpublishedKept
  <2> QED
    BY <1>5, <2>2, <2>3, <2>4 DEF TakeSlot
<1>6. CASE FailPush
  <2>1. bare' = bare /\ Failed(run.todo \ {task})
    BY <1>6 DEF FailPush, Fail, target
  <2>2. run'.todo \subseteq run.todo \ {task}
    BY <2>1, FailedTypes
  <2> QED
    BY <2>1, <2>2, UnpublishedKept
<1>7. CASE SignPlatform
  <2>1. bare' = bare /\ run'.todo = run.todo \ {task}
    BY <1>7, SignPlatformTypes DEF SignPlatform
  <2> QED
    BY <2>1, UnpublishedKept
<1>8. CASE SignIndex
  <2>1. bare' = bare /\ pc # "cascade" /\ (run' = run \/ Failed(run.todo))
    BY <1>8 DEF SignIndex
  <2>2. run'.todo \subseteq run.todo
    BY <2>1, FailedTypes
  <2> QED
    BY <2>1, <2>2, UnpublishedKept
<1>9. CASE SkipIndex
  <2>1. bare' = bare /\ pc # "cascade" /\ run' = run
    BY <1>9 DEF SkipIndex, target
  <2> QED
    BY <2>1, UnpublishedKept
<1> QED
  BY <1>1, <1>2, <1>3, <1>4, <1>5, <1>6, <1>7, <1>8, <1>9 DEF Next, Step

LEMMA NextOpen ==
  ASSUME OpenInv, [Next]_vars
  PROVE  OpenInv' /\ \A t \in Tasks : bare[t] # 0 => bare'[t] = bare[t]
<1>1. TypeInv'
  BY NextTypes DEF OpenInv
<1>2. Unpublished' /\ \A t \in Tasks : bare[t] # 0 => bare'[t] = bare[t]
  BY MoveTagOpen, PushPrimaryOpen, OthersOpen
<1> QED
  BY <1>1, <1>2 DEF OpenInv

\* `latest` has, for each platform, a version with a build of it.
Backed ==
    \A p \in Platforms : latest[p] # 0 =>
        \E b \in stamped : b.version = latest[p] /\ b.platform = p

\* What is left to do is of no older version than `latest` has, or the run knows the build
\* that will hold it back.
Ahead ==
    \A p \in Platforms : \A t \in run.todo :
        \/ latest[p] <= t[1]
        \/ \E k \in run.known :
             k[1] = latest[p] /\ [version |-> k[1], stamp |-> k[2], platform |-> p] \in stamped

Landed == pc = "cascade" => [version |-> range, stamp |-> run.stamp[range], platform |-> task[2]] \in stamped

ForwardInv == TypeInv /\ Backed /\ Ahead /\ Landed

\* A step that leaves `latest` alone, no build behind and nothing more to do.
LEMMA ForwardKept ==
  ASSUME ForwardInv, latest' = latest, stamped \subseteq stamped', run'.todo \subseteq run.todo,
         run.known \subseteq run'.known
  PROVE  Backed' /\ Ahead'
<1>1. Backed'
  BY DEF ForwardInv, Backed
<1>2. Ahead'
  <2> SUFFICES ASSUME NEW p \in Platforms, NEW t \in run'.todo, ~(latest[p] <= t[1])
               PROVE  \E k \in run'.known :
                          k[1] = latest[p] /\ [version |-> k[1], stamp |-> k[2], platform |-> p] \in stamped'
    BY DEF Ahead
  <2> QED
    BY DEF ForwardInv, Ahead
<1> QED
  BY <1>1, <1>2

LEMMA InitForward == Init => ForwardInv
<1> SUFFICES ASSUME Init PROVE ForwardInv
  OBVIOUS
<1>1. run.todo = {} /\ pc = "idle" /\ \A p \in Platforms : latest[p] = 0
  BY DEF Init, NoRun
<1> QED
  BY <1>1, InitTypes DEF ForwardInv, Backed, Ahead, Landed

\* A plan knows every stamped build there is.
LEMMA PlanForward ==
  ASSUME ForwardInv, NEW options, Plan(options)
  PROVE  Backed' /\ Ahead' /\ Landed'
<1>1. /\ run'.known = StampedTags /\ latest' = latest /\ stamped' = stamped /\ pc' = "prepare"
  BY DEF Plan, NoRun, target
<1>2. \A t \in run'.todo : t[1] \in Nat
  <2>1. TypeOK'
    BY PlanTypes DEF ForwardInv, TypeInv
  <2> QED
    BY <2>1, Numbers DEF TypeOK
<1>3. ASSUME NEW p \in Platforms, latest[p] # 0
      PROVE  \E k \in StampedTags :
                k[1] = latest[p] /\ [version |-> k[1], stamp |-> k[2], platform |-> p] \in stamped
  <2>1. PICK b \in stamped : b.version = latest[p] /\ b.platform = p
    BY <1>3 DEF ForwardInv, Backed
  <2>2. b \in Builds
    BY DEF ForwardInv, TypeInv, TypeOK
  <2>3. b = [version |-> b.version, stamp |-> b.stamp, platform |-> p]
    BY <2>1, <2>2 DEF Builds
  <2>4. <<b.version, b.stamp>> \in StampedTags
    BY DEF StampedTags
  <2> QED
    BY <2>1, <2>3, <2>4
<1>4. Ahead'
  <2> SUFFICES ASSUME NEW p \in Platforms, NEW t \in run'.todo, ~(latest[p] <= t[1])
               PROVE  \E k \in run'.known :
                          k[1] = latest[p] /\ [version |-> k[1], stamp |-> k[2], platform |-> p] \in stamped'
    BY <1>1 DEF Ahead
  <2>1. latest[p] # 0
    BY <1>2
  <2> QED
    BY <1>1, <1>3, <2>1
<1> QED
  BY <1>1, <1>4 DEF ForwardInv, Backed, Landed

\* An unblocked `latest` was on no newer version.
LEMMA MoveTagForward ==
  ASSUME ForwardInv, NEW tag \in {"bare", "latest"}, MoveTag(tag)
  PROVE  /\ Backed' /\ Ahead' /\ Landed'
         /\ \A p \in Platforms : latest'[p] >= latest[p]
<1>1. pc = "cascade" /\ UNCHANGED <<pc, run, task, range, stamped>>
  BY DEF MoveTag
<1>2. Landed'
  BY <1>1 DEF ForwardInv, Landed
<1>3. latest \in [Platforms -> Nat]
  BY Numbers DEF ForwardInv, TypeInv, TypeOK
<1>4. CASE latest' = latest
  BY <1>1, <1>2, <1>3, <1>4, ForwardKept
<1>5. CASE tag = "latest" /\ ~Blocked(tag)
  <2>1. latest' = [latest EXCEPT ![task[2]] = range]
    BY <1>5 DEF MoveTag
  <2>2. /\ task \in run.todo /\ task[1] = range /\ task[2] \in Platforms /\ range \in Nat \ {0}
        /\ run.todo \subseteq Tasks
    BY <1>1, TaskOfRange, Numbers DEF ForwardInv, TypeInv, TypeOK
  <2>3. latest[task[2]] <= range
    <3>1. ASSUME NEW k \in run.known, k[1] = latest[task[2]],
                 [version |-> k[1], stamp |-> k[2], platform |-> task[2]] \in stamped
          PROVE  ~(latest[task[2]] > range)
      BY <1>5, <3>1 DEF Blocked, CascadeVersions
    <3>2. latest[task[2]] \in Nat /\ range \in Nat
      BY <1>3, <2>2
    <3>3. \/ latest[task[2]] <= task[1]
          \/ \E k \in run.known :
                 /\ k[1] = latest[task[2]]
                 /\ [version |-> k[1], stamp |-> k[2], platform |-> task[2]] \in stamped
      BY <2>2 DEF ForwardInv, Ahead
    <3>4. ASSUME latest[task[2]] <= task[1]
          PROVE  latest[task[2]] <= range
      BY <2>2, <3>4
    <3>5. ASSUME NEW k \in run.known, k[1] = latest[task[2]],
                 [version |-> k[1], stamp |-> k[2], platform |-> task[2]] \in stamped
          PROVE  latest[task[2]] <= range
      <4>1. ~(latest[task[2]] > range)
        BY <3>1, <3>5
      <4> QED
        BY <3>2, <4>1
    <3> QED
      BY <3>3, <3>4, <3>5
  <2>4. \A p \in Platforms : latest'[p] >= latest[p]
    BY <1>3, <2>1, <2>2, <2>3
  <2>5. Backed'
    <3>1. [version |-> range, stamp |-> run.stamp[range], platform |-> task[2]] \in stamped
      BY <1>1 DEF ForwardInv, Landed
    <3> SUFFICES ASSUME NEW p \in Platforms, latest'[p] # 0
                 PROVE  \E b \in stamped : b.version = latest'[p] /\ b.platform = p
      BY <1>1 DEF Backed
    <3>2. CASE p = task[2]
      BY <1>3, <2>1, <2>2, <3>1, <3>2
    <3>3. CASE p # task[2]
      BY <1>3, <2>1, <2>2, <3>3 DEF ForwardInv, Backed
    <3> QED
      BY <3>2, <3>3
  <2>6. Ahead'
    <3> SUFFICES ASSUME NEW p \in Platforms, NEW t \in run.todo, ~(latest'[p] <= t[1])
                 PROVE  \E k \in run.known :
                            k[1] = latest'[p]
                            /\ [version |-> k[1], stamp |-> k[2], platform |-> p] \in stamped
      BY <1>1 DEF Ahead
    <3>1. range <= t[1]
      BY DEF ForwardInv, TypeInv, CursorOK
    <3>2. p # task[2]
      BY <1>3, <2>1, <2>2, <3>1
    <3> QED
      BY <1>3, <2>1, <2>2, <3>2 DEF ForwardInv, Ahead
  <2> QED
    BY <1>2, <2>4, <2>5, <2>6
<1> QED
  BY <1>4, <1>5 DEF MoveTag

\* Every other step leaves `latest` alone.
LEMMA OthersForward ==
  ASSUME Stamped, ForwardInv, [Next]_vars, \A options \in Options : ~Plan(options),
         \A tag \in {"bare", "latest"} : ~MoveTag(tag)
  PROVE  Backed' /\ Ahead' /\ Landed' /\ latest' = latest
<1> USE DEF ForwardInv
<1>1. CASE Release \/ Raise \/ PlanNothing \/ AbortPlan \/ UNCHANGED vars
  <2>1. UNCHANGED <<latest, stamped, run, pc, task, range>>
    BY <1>1 DEF Release, Raise, PlanNothing, AbortPlan, vars, target, cursor
  <2> QED
    BY <2>1, ForwardKept DEF Landed
<1>2. CASE Prepare \/ BeginRange \/ SkipIndex
  <2>1. UNCHANGED <<latest, stamped, run>> /\ pc' # "cascade"
    BY <1>2 DEF Prepare, BeginRange, SkipIndex, target, cursor
  <2> QED
    BY <2>1, ForwardKept DEF Landed
<1>3. CASE Exit \/ Crash
  <2>1. UNCHANGED <<latest, stamped>> /\ run'.todo = {} /\ pc' = "idle"
    BY <1>3 DEF Exit, Crash, Forget, NoRun, target
  <2> QED
    BY <2>1 DEF Backed, Ahead, Landed
<1>4. ASSUME NEW t \in Tasks, TakeSlot(t) PROVE Backed' /\ Ahead' /\ Landed' /\ latest' = latest
  <2>1. UNCHANGED <<latest, stamped>> /\ pc' # "cascade"
    BY <1>4 DEF TakeSlot, Fail, target
  <2>2. CASE Fail(t)
    <3>1. run'.todo \subseteq run.todo /\ run'.known = run.known
      BY <2>2, FailedTypes DEF Fail
    <3> QED
      BY <2>1, <3>1, ForwardKept DEF Landed
  <2>3. CASE run' = run
    BY <2>1, <2>3, ForwardKept DEF Landed
  <2>4. CASE run' = [run EXCEPT !.todo = @ \ {t}]
    <3>1. run'.todo \subseteq run.todo /\ run'.known = run.known
      BY <2>4, TypedRun DEF TypeInv, RunStates
    <3> QED
      BY <2>1, <3>1, ForwardKept DEF Landed
  <2> QED
    BY <1>4, <2>2, <2>3, <2>4 DEF TakeSlot
<1>5. CASE FailPush
  <2>1. /\ UNCHANGED <<latest, stamped>> /\ pc' = "slot" /\ Failed(run.todo \ {task})
    BY <1>5 DEF FailPush, Fail, target
  <2>2. run'.todo \subseteq run.todo /\ run'.known = run.known
    BY <2>1, FailedTypes
  <2> QED
    BY <2>1, <2>2, ForwardKept DEF Landed
<1>6. CASE PushPrimary
  <2>1. /\ UNCHANGED <<latest, run, range, task>> /\ stamped' = stamped \cup {Build} /\ pc = "primary"
    BY <1>6 DEF PushPrimary
  <2>2. Build = [version |-> range, stamp |-> run.stamp[range], platform |-> task[2]]
    BY <2>1, TaskOfRange
  <2>3. Landed'
    BY <2>1, <2>2 DEF Landed
  <2> QED
    BY <2>1, <2>3, ForwardKept
<1>7. CASE SignPlatform
  <2>1. UNCHANGED <<latest, stamped>> /\ pc' = "slot"
    BY <1>7 DEF SignPlatform
  <2>2. run'.todo \subseteq run.todo /\ run.known \subseteq run'.known
    BY <1>7, SignPlatformTypes
  <2> QED
    BY <2>1, <2>2, ForwardKept DEF Landed
<1>8. CASE SignIndex
  <2>1. UNCHANGED <<latest, stamped>> /\ pc' = "range" /\ (run' = run \/ Failed(run.todo))
    BY <1>8 DEF SignIndex
  <2>2. run'.todo \subseteq run.todo /\ run'.known = run.known
    BY <2>1, FailedTypes
  <2> QED
    BY <2>1, <2>2, ForwardKept DEF Landed
<1> QED
  BY <1>1, <1>2, <1>3, <1>4, <1>5, <1>6, <1>7, <1>8 DEF Next, Step

LEMMA NextForward ==
  ASSUME Stamped, ForwardInv, [Next]_vars
  PROVE  ForwardInv' /\ \A p \in Platforms : latest'[p] >= latest[p]
<1>1. TypeInv'
  BY NextTypes DEF ForwardInv
<1>2. latest \in [Platforms -> Nat]
  BY Numbers DEF ForwardInv, TypeInv, TypeOK
<1>3. CASE \E options \in Options : Plan(options)
  <2>1. latest' = latest
    BY <1>3 DEF Plan, target
  <2> QED
    BY <1>1, <1>2, <1>3, <2>1, PlanForward DEF ForwardInv
<1>4. CASE \E tag \in {"bare", "latest"} : MoveTag(tag)
  BY <1>1, <1>4, MoveTagForward DEF ForwardInv
<1>5. CASE (\A options \in Options : ~Plan(options)) /\ \A tag \in {"bare", "latest"} : ~MoveTag(tag)
  BY <1>1, <1>2, <1>5, OthersForward DEF ForwardInv
<1> QED
  BY <1>3, <1>4, <1>5

\* When builds are stamped, whatever order versions are released, backfilled, failed and
\* retried in: a version tag that has a build for a platform keeps it, and `latest` never
\* goes back.  What makes it so is that a run knows, from its start, every stamped build
\* that could hold a tag back, and pushes its versions oldest first.
THEOREM ForwardOnly ==
  ASSUME Stamped
  PROVE  Spec => TagsMoveForward
<1>1. Init => OpenInv /\ ForwardInv
  BY InitOpen, InitForward
<1>2. OpenInv /\ ForwardInv /\ [Next]_vars => (OpenInv /\ ForwardInv)'
  BY NextOpen, NextForward
<1>3. OpenInv /\ ForwardInv /\ [Next]_vars =>
        [/\ \A t \in Tasks : bare[t] # 0 => bare'[t] = bare[t]
         /\ \A p \in Platforms : latest'[p] >= latest[p]]_vars
  BY NextOpen, NextForward
<1> QED
  BY <1>1, <1>2, <1>3, PTL DEF Spec, TagsMoveForward

-----------------------------------------------------------------------------
(* What is published is wanted.                                               *)

Wants(t) == t \in Eligible({t}, Bounds(ceiling), {})

\* What is planned is wanted as much as what is published.
Wanted ==
    \A t \in Tasks :
        \/ t \in run.plan
        \/ bare[t] # 0
        \/ \E b \in stamped : b.version = t[1] /\ b.platform = t[2]
        => Wants(t)

WantedInv == TypeInv /\ Wanted

\* A task is wanted when no two assets match it and its version can be tagged and is let
\* through.
LEMMA WantsIs ==
  ASSUME NEW t \in Tasks, NEW bounds
  PROVE  t \in Eligible({t}, bounds, {}) <=>
            /\ t \notin Ambiguous /\ Taggable(t[1])
            /\ SkipPrereleases => t[1] \notin Prereleases
            /\ Admits(bounds, t[1])
<1>1. t = <<t[1], t[2]>> /\ t[2] \in Platforms
  BY Numbers
<1>2. t \in Resolved({t}) <=> t \notin Ambiguous
  BY <1>1 DEF Resolved
<1> QED
  BY <1>2 DEF Eligible

\* What a run selects is wanted under the pointer it has read.
LEMMA SelectedIsWanted ==
  ASSUME NEW src \in SUBSET Tasks, NEW bounds, NEW seen, NEW options,
         NEW t \in Selected(src, bounds, seen, options)
  PROVE  t \in Eligible({t}, bounds, {})
<1>1. t \in Eligible(src, bounds, options.version) /\ t \in src /\ t \in Tasks
  BY SelectedIsOpen
<1>2. t \in Resolved(src)
  BY <1>1 DEF Eligible
<1>3. t \notin Ambiguous
  <2>1. t = <<t[1], t[2]>> /\ t[2] \in Platforms
    BY <1>1, Numbers
  <2> QED
    BY <1>1, <1>2, <2>1 DEF Resolved
<1> QED
  BY <1>1, <1>3, WantsIs DEF Eligible

\* A vendor's pointer that is only a ceiling lets through, raised, all that it let through.
LEMMA RaisedStillAdmits ==
  ASSUME ~HasPointer(Config.min), NEW c \in Nat \ {0}, NEW d \in Nat \ {0}, c < d, NEW v \in Nat,
         Admits(Bounds(c), v)
  PROVE  Admits(Bounds(d), v)
<1>1. Bounds(d).min = Bounds(c).min
  BY DEF Bounds, Resolve
<1>2. CASE ~HasPointer(Config.max)
  <2>1. Bounds(d).max = Bounds(c).max
    BY <1>2 DEF Bounds, Resolve
  <2> QED
    BY <1>1, <2>1 DEF Admits
<1>3. CASE HasPointer(Config.max)
  <2>1. Config.max \in Edges
    BY <1>3, ConfigAssumption DEF HasPointer, VersionsConfig
  <2>2. /\ Bounds(c).max = [Config.max EXCEPT !.at = c]
        /\ Bounds(d).max = [Config.max EXCEPT !.at = d]
    BY <1>3 DEF Bounds, Resolve, NoAnswer
  <2>3. /\ Bounds(c).max.at = c /\ Bounds(d).max.at = d
        /\ Bounds(d).max.inclusive = Bounds(c).max.inclusive
    BY <2>1, <2>2 DEF Edges
  <2>4. Bounds(c).max # None
    BY <2>1, <2>2, NoEdge DEF Edges
  <2>5. v <= c
    BY <2>3, <2>4 DEF Admits, Beyond, version_cmp
  <2>6. version_cmp(v, d) = "less"
    BY <2>5 DEF version_cmp
  <2>7. ~Beyond(v, Bounds(d).max, "greater")
    BY <2>3, <2>6 DEF Beyond
  <2> QED
    BY <1>1, <2>7 DEF Admits
<1> QED
  BY <1>2, <1>3

\* A step of the push that leaves the pointer alone, and adds to what is published only
\* what is planned.
LEMMA WantedKept ==
  ASSUME Wanted, ceiling' = ceiling, run'.plan \subseteq run.plan,
         \A t \in Tasks : bare'[t] # 0 => bare[t] # 0 \/ t \in run.plan,
         \A t \in Tasks, b \in stamped' :
            b.version = t[1] /\ b.platform = t[2] => b \in stamped \/ t \in run.plan
  PROVE  Wanted'
<1> SUFFICES ASSUME NEW t \in Tasks,
                    \/ t \in run'.plan
                    \/ bare'[t] # 0
                    \/ \E b \in stamped' : b.version = t[1] /\ b.platform = t[2]
             PROVE  Wants(t)
  BY DEF Wanted, Wants
<1>1. \/ t \in run.plan
      \/ bare[t] # 0
      \/ \E b \in stamped : b.version = t[1] /\ b.platform = t[2]
  OBVIOUS
<1> QED
  BY <1>1 DEF Wanted

LEMMA InitWanted == Init => WantedInv
<1> SUFFICES ASSUME Init PROVE WantedInv
  OBVIOUS
<1>1. run.plan = {} /\ stamped = {} /\ \A t \in Tasks : bare[t] = 0
  BY DEF Init, NoRun
<1> QED
  BY <1>1, InitTypes DEF WantedInv, Wanted

LEMMA PlanWanted ==
  ASSUME WantedInv, NEW options, Plan(options)
  PROVE  Wanted'
<1>1. PICK seen \in Views, answer \in Answers :
        /\ run' = [NoRun EXCEPT !.plan = Selected(source, Bounds(answer), seen, options),
                                !.todo = Selected(source, Bounds(answer), seen, options),
                                !.stamp = [v \in Versions |-> NextStamp(v)],
                                !.known = StampedTags]
        /\ Resolvable(answer)
  BY DEF Plan
<1>2. run'.plan = Selected(source, Bounds(answer), seen, options)
  BY <1>1 DEF NoRun
<1>3. source \in SUBSET Tasks
  BY DEF WantedInv, TypeInv, TypeOK
<1>4. Bounds(answer) = Bounds(ceiling)
  <2>1. CASE answer = ceiling
    BY <2>1
  <2>2. CASE answer = NoAnswer
    <3>1. ~HasPointer(Config.min) /\ ~HasPointer(Config.max)
      BY <1>1, <2>2 DEF Resolvable, Points
    <3> QED
      BY <3>1 DEF Bounds, Resolve
  <2> QED
    BY <1>1, <2>1, <2>2 DEF Answers
<1>5. \A t \in run'.plan : t \in Eligible({t}, Bounds(ceiling), {})
  BY <1>2, <1>3, <1>4, SelectedIsWanted
<1>6. UNCHANGED <<ceiling, bare, stamped>>
  BY DEF Plan, target
<1> QED
  BY <1>5, <1>6 DEF WantedInv, Wanted, Wants

LEMMA RaiseWanted ==
  ASSUME ~HasPointer(Config.min), WantedInv, Raise
  PROVE  Wanted'
<1>1. /\ ceiling \in Nat \ {0} /\ ceiling' \in Nat \ {0} /\ ceiling < ceiling'
      /\ UNCHANGED <<run, bare, stamped>>
  BY AssetAssumption, VersionAssumption DEF Raise, WantedInv, TypeInv, TypeOK, target
<1>2. ASSUME NEW t \in Tasks, Wants(t) PROVE Wants(t)'
  <2>1. t[1] \in Nat
    BY Numbers
  <2>2. Admits(Bounds(ceiling), t[1])
    BY <1>2, WantsIs DEF Wants
  <2>3. Admits(Bounds(ceiling'), t[1])
    BY <1>1, <2>1, <2>2, RaisedStillAdmits
  <2>4. t \in Eligible({t}, Bounds(ceiling'), {})
    <3>1. /\ t \notin Ambiguous /\ Taggable(t[1])
          /\ SkipPrereleases => t[1] \notin Prereleases
      BY <1>2, WantsIs DEF Wants
    <3> QED
      BY <2>3, <3>1, WantsIs
  <2> QED
    BY <2>4 DEF Wants
<1> QED
  BY <1>1, <1>2 DEF WantedInv, Wanted

LEMMA PushWanted ==
  ASSUME WantedInv, PushPrimary \/ \E tag \in {"bare", "latest"} : MoveTag(tag)
  PROVE  Wanted'
<1>1. pc \in {"primary", "cascade"} /\ UNCHANGED <<ceiling, run>>
  BY DEF PushPrimary, MoveTag
<1>2. /\ task \in run.todo /\ task \in Tasks /\ task = <<range, task[2]>>
      /\ Build = [version |-> range, stamp |-> run.stamp[range], platform |-> task[2]]
  BY <1>1, TaskOfRange DEF WantedInv
<1>3. task \in run.plan
  BY <1>2 DEF WantedInv, TypeInv, CursorOK
<1>4. \A t \in Tasks : t # task => bare'[t] = bare[t]
  BY <1>2 DEF PushPrimary, MoveTag, WantedInv, TypeInv, TypeOK
<1>5. stamped' \subseteq stamped \cup {Build}
  BY DEF PushPrimary, MoveTag
<1>6. ASSUME NEW t \in Tasks, Build.version = t[1], Build.platform = t[2]
      PROVE  t \in run.plan
  <2>1. t = <<t[1], t[2]>>
    BY Numbers
  <2> QED
    BY <1>2, <1>3, <1>6, <2>1
<1> QED
  BY <1>1, <1>3, <1>4, <1>5, <1>6, WantedKept DEF WantedInv

LEMMA OthersWanted ==
  ASSUME WantedInv, [Next]_vars, ~Raise, \A options \in Options : ~Plan(options),
         ~PushPrimary, \A tag \in {"bare", "latest"} : ~MoveTag(tag)
  PROVE  Wanted'
<1> USE DEF WantedInv
<1> SUFFICES UNCHANGED <<ceiling, bare, stamped>> /\ run'.plan \subseteq run.plan
  BY WantedKept
<1>1. CASE Release \/ PlanNothing \/ AbortPlan \/ Prepare \/ BeginRange \/ SkipIndex \/ UNCHANGED vars
  BY <1>1 DEF Release, PlanNothing, AbortPlan, Prepare, BeginRange, SkipIndex, vars, target
<1>2. CASE Exit \/ Crash
  BY <1>2 DEF Exit, Crash, Forget, NoRun, target
<1>3. ASSUME NEW t \in Tasks, TakeSlot(t)
      PROVE  UNCHANGED <<ceiling, bare, stamped>> /\ run'.plan \subseteq run.plan
  <2>1. UNCHANGED <<ceiling, bare, stamped>>
    BY <1>3 DEF TakeSlot, Fail, target
  <2>2. CASE Fail(t)
    BY <2>1, <2>2, FailedTypes DEF Fail
  <2>3. CASE run' = run
    BY <2>1, <2>3
  <2>4. CASE run' = [run EXCEPT !.todo = @ \ {t}]
    <3>1. run'.plan = run.plan
      BY <2>4, TypedRun DEF TypeInv, RunStates
    <3> QED
      BY <2>1, <3>1
  <2> QED
    BY <1>3, <2>2, <2>3, <2>4 DEF TakeSlot
<1>4. CASE FailPush
  <2>1. UNCHANGED <<ceiling, bare, stamped>> /\ Failed(run.todo \ {task})
    BY <1>4 DEF FailPush, Fail, target
  <2> QED
    BY <2>1, FailedTypes
<1>5. CASE SignPlatform
  BY <1>5, SignPlatformTypes DEF SignPlatform
<1>6. CASE SignIndex
  <2>1. UNCHANGED <<ceiling, bare, stamped>> /\ (run' = run \/ Failed(run.todo))
    BY <1>6 DEF SignIndex
  <2> QED
    BY <2>1, FailedTypes
<1> QED
  BY <1>1, <1>2, <1>3, <1>4, <1>5, <1>6 DEF Next, Step

\* Nothing a vendor's pointer holds back, no prerelease the spec skips, no ambiguous asset
\* and no version that cannot be tagged is ever published, whatever fails or is killed:
\* an unanswered pointer ends the run.  A pointer for the lower edge is left out, as one
\* that is raised stops wanting what was published under it.
THEOREM WantedOnly ==
  ASSUME ~HasPointer(Config.min)
  PROVE  Spec => []PublishedIsWanted
<1>1. Init => WantedInv
  BY InitWanted
<1>2. WantedInv /\ [Next]_vars => WantedInv'
  <2> SUFFICES ASSUME WantedInv, [Next]_vars PROVE WantedInv'
    OBVIOUS
  <2>1. TypeInv'
    BY NextTypes DEF WantedInv
  <2>2. Wanted'
    BY PlanWanted, RaiseWanted, PushWanted, OthersWanted
  <2> QED
    BY <2>1, <2>2 DEF WantedInv
<1>3. WantedInv => PublishedIsWanted
  BY DEF WantedInv, Wanted, Wants, PublishedIsWanted
<1> QED
  BY <1>1, <1>2, <1>3, PTL DEF Spec

-----------------------------------------------------------------------------
(* A run that reports success is complete.                                    *)

\* A run's stamps are above every stamp the version had when the run read the target.
StampsAhead ==
    /\ \A k \in run.known : k[2] <= run.stamp[k[1]]
    /\ pc # "idle" => \A v \in Versions : run.stamp[v] # 0

PlannedBuild(t) == [version |-> t[1], stamp |-> run.stamp[t[1]], platform |-> t[2]]

\* A version tag that the push under way has moved has this push's build.
Moved ==
    pc = "cascade" =>
        /\ Stamped => PlannedBuild(task) \in stamped
        /\ "bare" \notin pending => bare[task] # 0 /\ (Stamped => bare[task] = run.stamp[range])

\* A push is a result once its tag has moved and its manifest is signed.
PushedComplete ==
    \A t \in run.pushed :
        /\ bare[t] # 0
        /\ \E b \in signed : b.version = t[1] /\ b.platform = t[2] /\ b.stamp = bare[t]
        /\ Stamped => PlannedBuild(t) \in stamped

\* What a run reports as a failure, or loses.
Unhappy == run.failed \/ \E t \in run.plan : outcome[t] = "lost"

AllPushed == \A t \in run.plan : t \in run.todo \/ t \in run.pushed

\* Every version the run has pushed to and left has its index signed with all it planned.
PlanIndexed(t) ==
    \E x \in indexed : x[1] = t[1] /\ x[2] = run.stamp[t[1]]
                       /\ {p \in Platforms : <<t[1], p>> \in run.plan} \subseteq x[3]

AllIndexed == \A t \in run.pushed : t[1] = range \/ PlanIndexed(t)

CompleteInv ==
    /\ TypeInv /\ StampsAhead /\ Moved /\ PushedComplete
    /\ Unhappy \/ (AllPushed /\ AllIndexed)

LEMMA InitComplete == Init => CompleteInv
<1> SUFFICES ASSUME Init PROVE CompleteInv
  OBVIOUS
<1>1. run.plan = {} /\ run.pushed = {} /\ run.known = {} /\ pc = "idle"
  BY DEF Init, NoRun
<1> QED
  BY <1>1, InitTypes
  DEF CompleteInv, StampsAhead, Moved, PushedComplete, AllPushed, AllIndexed

\* The same, for a run that is over.
LEMMA ForgetComplete ==
  ASSUME CompleteInv, Exit \/ Crash
  PROVE  CompleteInv'
<1>1. TypeInv'
  BY ForgetTypes DEF CompleteInv
<1>2. run'.plan = {} /\ run'.pushed = {} /\ run'.known = {} /\ pc' = "idle"
  BY DEF Exit, Crash, Forget, NoRun
<1> QED
  BY <1>1, <1>2 DEF CompleteInv, StampsAhead, Moved, PushedComplete, AllPushed, AllIndexed

LEMMA PlanComplete ==
  ASSUME CompleteInv, NEW options, Plan(options)
  PROVE  CompleteInv'
<1>1. TypeInv'
  BY PlanTypes DEF CompleteInv
<1>2. PICK seen \in Views, answer \in Answers :
        run' = [NoRun EXCEPT !.plan = Selected(source, Bounds(answer), seen, options),
                             !.todo = Selected(source, Bounds(answer), seen, options),
                             !.stamp = [v \in Versions |-> NextStamp(v)],
                             !.known = StampedTags]
  BY DEF Plan
<1>3. /\ run'.todo = run'.plan /\ run'.pushed = {} /\ run'.known = StampedTags
      /\ run'.stamp = [v \in Versions |-> NextStamp(v)] /\ pc' = "prepare"
  BY <1>2 DEF Plan, NoRun
<1>4. stamped \subseteq Builds /\ IsFiniteSet(stamped)
  BY DEF CompleteInv, TypeInv, TypeOK, CursorOK
<1>5. \A v \in Versions : NextStamp(v) \in Nat \ {0}
  BY <1>4, StampIsNew
<1>6. ASSUME NEW k \in StampedTags
      PROVE  k[2] <= run'.stamp[k[1]]
  <2>1. k[1] \in Versions /\ k[2] \in Nat
    BY <1>4 DEF StampedTags, Builds
  <2>2. k[2] < NextStamp(k[1]) /\ NextStamp(k[1]) \in Nat
    BY <1>4, <2>1, StampIsNew
  <2> QED
    BY <1>3, <2>1, <2>2
<1> QED
  BY <1>1, <1>3, <1>5, <1>6
  DEF CompleteInv, StampsAhead, Moved, PushedComplete, AllPushed, AllIndexed

LEMMA PrepareComplete ==
  ASSUME CompleteInv, Prepare
  PROVE  CompleteInv'
<1>1. TypeInv'
  BY PrepareTypes DEF CompleteInv
<1>2. /\ pc = "prepare" /\ pc' = "range"
      /\ UNCHANGED <<bare, stamped, signed, indexed, run, task, range, pending>>
  BY DEF Prepare, target, cursor
<1>3. run.todo = run.plan /\ run.pushed = {}
  BY <1>2 DEF CompleteInv, TypeInv, CursorOK
<1> QED
  BY <1>1, <1>2, <1>3
  DEF CompleteInv, StampsAhead, Moved, PushedComplete, AllPushed, AllIndexed

\* A step of the push that reports and forgets nothing: the tags, the signatures and what
\* the run knows stay, and what leaves the list of things to do makes the run unhappy.
LEMMA CompleteKept ==
  ASSUME CompleteInv, TypeInv', UNCHANGED <<bare, stamped, signed, outcome>>,
         pc # "idle", pc' # "cascade", indexed \subseteq indexed',
         UNCHANGED <<run.plan, run.pushed, run.stamp, run.known>>,
         run'.failed \/ Unhappy \/ (run'.todo = run.todo /\ AllIndexed'),
         run.failed => run'.failed
  PROVE  CompleteInv'
<1>1. StampsAhead'
  BY DEF CompleteInv, StampsAhead
<1>2. PushedComplete'
  BY DEF CompleteInv, PushedComplete, PlannedBuild
<1>3. Unhappy' \/ (AllPushed' /\ AllIndexed')
  BY DEF CompleteInv, Unhappy, AllPushed
<1> QED
  BY <1>1, <1>2, <1>3 DEF CompleteInv, Moved

LEMMA FailuresComplete ==
  ASSUME CompleteInv, (\E t \in Tasks : TakeSlot(t)) \/ FailPush
  PROVE  CompleteInv'
<1> USE DEF CompleteInv
<1>1. TypeInv'
  BY TakeSlotTypes, FailPushTypes
<1>2. ASSUME NEW t \in Tasks, TakeSlot(t) PROVE CompleteInv'
  <2>1. UNCHANGED <<bare, stamped, signed, indexed, outcome, range>> /\ pc = "slot" /\ pc' # "cascade"
    BY <1>2 DEF TakeSlot, Fail, target, cursor
  <2>2. CASE Fail(t)
    <3>1. run'.failed /\ UNCHANGED <<run.plan, run.pushed, run.stamp, run.known>>
      BY <2>2, FailedTypes DEF Fail
    <3> QED
      BY <1>1, <2>1, <3>1, CompleteKept
  <2>3. CASE run' = run
    <3>1. Unhappy \/ AllIndexed'
      BY <2>1, <2>3 DEF AllIndexed, PlanIndexed
    <3> QED
      BY <1>1, <2>1, <2>3, <3>1, CompleteKept
  <2>4. CASE run' = [run EXCEPT !.todo = @ \ {t}] /\ outcome[t] = "lost"
    <3>1. UNCHANGED <<run.plan, run.pushed, run.stamp, run.known, run.failed>>
      BY <2>4, TypedRun DEF TypeInv, RunStates
    <3>2. t \in run.plan
      BY <1>2 DEF TakeSlot, InRange, TypeInv, CursorOK
    <3>3. Unhappy
      BY <2>4, <3>2 DEF Unhappy
    <3> QED
      BY <1>1, <2>1, <3>1, <3>3, CompleteKept
  <2> QED
    BY <1>2, <2>2, <2>3, <2>4 DEF TakeSlot
<1>3. CASE FailPush
  <2>1. /\ UNCHANGED <<bare, stamped, signed, indexed, outcome, range>>
        /\ pc # "idle" /\ pc' = "slot" /\ Failed(run.todo \ {task})
    BY <1>3 DEF FailPush, Fail, target
  <2>2. run'.failed /\ UNCHANGED <<run.plan, run.pushed, run.stamp, run.known>>
    BY <2>1, FailedTypes
  <2> QED
    BY <1>1, <2>1, <2>2, CompleteKept
<1> QED
  BY <1>2, <1>3

LEMMA RangeComplete ==
  ASSUME CompleteInv, BeginRange \/ SkipIndex
  PROVE  CompleteInv'
<1> USE DEF CompleteInv
<1>1. TypeInv'
  BY BeginRangeTypes, SkipIndexTypes
<1>2. /\ UNCHANGED <<bare, stamped, signed, indexed, outcome, run>>
      /\ pc \in {"range", "slot"} /\ pc' # "cascade"
  BY DEF BeginRange, SkipIndex, target
<1>3. AllIndexed => \A t \in run.pushed : PlanIndexed(t)
  <2>1. run.pushed \subseteq Tasks
    BY DEF TypeInv, TypeOK
  <2>2. CASE BeginRange
    <3>1. range = 0
      BY <2>2 DEF BeginRange, TypeInv, CursorOK
    <3> QED
      BY <2>1, <3>1, Numbers DEF AllIndexed
  <2>3. CASE SkipIndex
    BY <2>3 DEF SkipIndex, AllIndexed, VersionsOf
  <2> QED
    BY <2>2, <2>3
<1>4. Unhappy \/ AllIndexed'
  BY <1>2, <1>3 DEF AllIndexed, PlanIndexed
<1> QED
  BY <1>1, <1>2, <1>4, CompleteKept

\* The index of a version that nothing was lost of and that did not fail has a build of
\* every platform that was planned.
LEMMA IndexIsWhole ==
  ASSUME CompleteInv, ~Unhappy, InRange = {}, range \in VersionsOf(run.pushed)
  PROVE  {p \in Platforms : <<range, p>> \in run.plan} \subseteq IndexPlatforms
<1> USE DEF CompleteInv
<1>1. range \in Versions
  BY Numbers DEF TypeInv, TypeOK, VersionsOf
<1> SUFFICES ASSUME NEW p \in Platforms, <<range, p>> \in run.plan
             PROVE  p \in IndexPlatforms
  OBVIOUS
<1> DEFINE t == <<range, p>>
<1>2. t \in run.pushed
  <2>1. t \notin run.todo
    BY DEF InRange
  <2> QED
    BY <2>1 DEF AllPushed
<1>3. bare[t] # 0 /\ (Stamped => PlannedBuild(t) \in stamped)
  BY <1>2 DEF PushedComplete
<1>4. Stamped => [Build EXCEPT !.platform = p] \in stamped
  <2>1. [Build EXCEPT !.platform = p] = [version |-> range, stamp |-> run.stamp[range], platform |-> p]
    BY DEF Build
  <2> QED
    BY <1>3, <2>1 DEF PlannedBuild
<1> QED
  BY <1>3, <1>4 DEF IndexPlatforms

LEMMA SignIndexComplete ==
  ASSUME CompleteInv, SignIndex
  PROVE  CompleteInv'
<1> USE DEF CompleteInv
<1>1. TypeInv'
  BY SignIndexTypes
<1>2. /\ UNCHANGED <<bare, stamped, signed, outcome>> /\ pc = "slot" /\ pc' = "range" /\ range' = 0
      /\ InRange = {} /\ range \in VersionsOf(run.pushed)
  BY DEF SignIndex
<1>3. CASE Failed(run.todo) /\ indexed' = indexed
  <2>1. run'.failed /\ UNCHANGED <<run.plan, run.pushed, run.stamp, run.known>>
    BY <1>3, FailedTypes
  <2> QED
    BY <1>1, <1>2, <1>3, <2>1, CompleteKept
<1>4. CASE indexed' = indexed \cup {<<range, run.stamp[range], IndexPlatforms>>} /\ run' = run
  <2>1. ASSUME ~Unhappy PROVE AllIndexed'
    <3> SUFFICES ASSUME NEW t \in run.pushed
                 PROVE  PlanIndexed(t)'
      BY <1>4 DEF AllIndexed
    <3>1. CASE t[1] = range
      <4> DEFINE x == <<range, run.stamp[range], IndexPlatforms>>
      <4>1. x \in indexed' /\ x[1] = t[1] /\ x[2] = run.stamp[t[1]]
        BY <1>4, <3>1
      <4>2. {p \in Platforms : <<t[1], p>> \in run.plan} \subseteq x[3]
        BY <1>2, <2>1, <3>1, IndexIsWhole
      <4> HIDE DEF x
      <4> QED
        BY <1>4, <4>1, <4>2 DEF PlanIndexed
    <3>2. CASE t[1] # range
      <4>1. PlanIndexed(t)
        BY <2>1, <3>2 DEF AllIndexed
      <4> QED
        BY <1>4, <4>1 DEF PlanIndexed
    <3> QED
      BY <3>1, <3>2
  <2> QED
    BY <1>1, <1>2, <1>4, <2>1, CompleteKept
<1> QED
  BY <1>3, <1>4 DEF SignIndex

LEMMA PushPrimaryComplete ==
  ASSUME CompleteInv, PushPrimary
  PROVE  CompleteInv'
<1> USE DEF CompleteInv
<1>1. TypeInv'
  BY PushPrimaryTypes
<1>2. /\ pc = "primary" /\ pc' = "cascade"
      /\ UNCHANGED <<signed, indexed, run, outcome, range, task>>
  BY DEF PushPrimary
<1>3. /\ task \in run.todo /\ task \in Tasks /\ task = <<range, task[2]>>
      /\ Build = PlannedBuild(task)
  BY <1>2, TaskOfRange DEF PlannedBuild
<1>4. task \notin run.pushed /\ run.pushed \subseteq Tasks /\ bare \in [Tasks -> Nat]
  BY <1>3 DEF TypeInv, TypeOK, CursorOK
<1>5. /\ stamped \subseteq stamped' /\ \A t \in Tasks : t # task => bare'[t] = bare[t]
  BY <1>4 DEF PushPrimary
<1>6. StampsAhead'
  BY <1>2 DEF StampsAhead
<1>7. Moved'
  <2>1. CASE Stamped
    BY <1>2, <1>3, <2>1 DEF PushPrimary, Moved, PlannedBuild
  <2>2. CASE ~Stamped
    <3>1. bare'[task] # 0
      BY <1>3, <1>4, <2>2 DEF PushPrimary
    <3> QED
      BY <1>2, <2>2, <3>1 DEF Moved
  <2> QED
    BY <2>1, <2>2
<1>8. PushedComplete'
  BY <1>2, <1>4, <1>5 DEF PushedComplete, PlannedBuild
<1>9. Unhappy' \/ (AllPushed' /\ AllIndexed')
  BY <1>2 DEF Unhappy, AllPushed, AllIndexed, PlanIndexed
<1> QED
  BY <1>1, <1>6, <1>7, <1>8, <1>9

\* No newer build than this run's holds its version tag: its stamp is above all the run knows.
LEMMA BareIsFree ==
  ASSUME CompleteInv, pc = "cascade"
  PROVE  ~Blocked("bare")
<1> USE DEF CompleteInv
<1>1. run \in RunStates
  BY TypedRun DEF TypeInv
<1>2. range \in Versions /\ Build.stamp = run.stamp[range]
  BY TaskOfRange
<1>3. run.stamp[range] \in Nat /\ \A k \in run.known : k[2] \in Nat
  BY <1>1, <1>2, Fields
<1>4. \A k \in run.known : k[1] = range => ~(k[2] > Build.stamp)
  BY <1>2, <1>3 DEF StampsAhead
<1> QED
  BY <1>4 DEF Blocked, CascadeVersions

LEMMA MoveTagComplete ==
  ASSUME CompleteInv, NEW tag \in {"bare", "latest"}, MoveTag(tag)
  PROVE  CompleteInv'
<1> USE DEF CompleteInv
<1>1. TypeInv'
  BY MoveTagTypes
<1>2. /\ pc = "cascade" /\ pending' = pending \ {tag} /\ tag \in pending
      /\ UNCHANGED <<stamped, signed, indexed, pc, run, outcome, range, task>>
  BY DEF MoveTag
<1>3. /\ task \in run.todo /\ task \in Tasks /\ range \in Versions
      /\ Build.stamp = run.stamp[range]
  BY <1>2, TaskOfRange
<1>4. task \notin run.pushed /\ run.pushed \subseteq Tasks /\ bare \in [Tasks -> Nat]
  BY <1>3 DEF TypeInv, TypeOK, CursorOK
<1>5. \A t \in Tasks : t # task => bare'[t] = bare[t]
  BY <1>4 DEF MoveTag
<1>6. StampsAhead'
  BY <1>2 DEF StampsAhead
<1>7. Moved'
  <2>1. CASE tag = "bare"
    <3>1. bare'[task] = run.stamp[range]
      BY <1>2, <1>3, <1>4, <2>1, BareIsFree DEF MoveTag
    <3>2. run.stamp[range] # 0
      BY <1>2, <1>3 DEF StampsAhead
    <3> QED
      BY <1>2, <3>1, <3>2 DEF Moved, PlannedBuild
  <2>2. CASE tag = "latest"
    <3>1. bare' = bare
      BY <2>2 DEF MoveTag
    <3> QED
      BY <1>2, <2>2, <3>1 DEF Moved, PlannedBuild
  <2> QED
    BY <2>1, <2>2
<1>8. PushedComplete'
  BY <1>2, <1>4, <1>5 DEF PushedComplete, PlannedBuild
<1>9. Unhappy' \/ (AllPushed' /\ AllIndexed')
  BY <1>2 DEF Unhappy, AllPushed, AllIndexed, PlanIndexed
<1> QED
  BY <1>1, <1>6, <1>7, <1>8, <1>9

LEMMA SignPlatformComplete ==
  ASSUME CompleteInv, SignPlatform
  PROVE  CompleteInv'
<1> USE DEF CompleteInv
<1>1. /\ TypeInv'
      /\ run'.todo = run.todo \ {task} /\ run'.pushed = run.pushed \cup {task}
      /\ run'.plan = run.plan /\ run'.failed = run.failed /\ run'.stamp = run.stamp
      /\ run'.known = IF Stamped THEN run.known \cup {<<range, Build.stamp>>} ELSE run.known
  BY SignPlatformTypes
<1>2. /\ pc = "cascade" /\ pc' = "slot" /\ pending = {}
      /\ UNCHANGED <<stamped, bare, indexed, outcome, range>>
      /\ signed' = signed \cup {[Build EXCEPT !.stamp = IF Stamped THEN @ ELSE bare[task]]}
  BY DEF SignPlatform
<1>3. /\ task \in run.todo /\ task \in Tasks /\ task[1] = range /\ range \in Versions
      /\ Build = [version |-> range, stamp |-> run.stamp[range], platform |-> task[2]]
  BY <1>2, TaskOfRange DEF TypeInv, TypeOK
<1>4. StampsAhead'
  <2>1. run.stamp[range] \in Nat
    BY <1>3 DEF TypeInv, TypeOK
  <2>2. \A k \in run'.known : k[2] <= run.stamp[k[1]]
    BY <1>1, <1>3, <2>1 DEF StampsAhead
  <2> QED
    BY <1>1, <1>2, <2>2 DEF StampsAhead
<1>5. bare[task] # 0 /\ (Stamped => bare[task] = run.stamp[range] /\ PlannedBuild(task) \in stamped)
  BY <1>2 DEF Moved
<1>6. \E b \in signed' : b.version = task[1] /\ b.platform = task[2] /\ b.stamp = bare[task]
  <2> DEFINE b == [Build EXCEPT !.stamp = IF Stamped THEN @ ELSE bare[task]]
  <2>1. b.version = task[1] /\ b.platform = task[2] /\ b.stamp = bare[task]
    BY <1>3, <1>5
  <2>2. b \in signed'
    BY <1>2
  <2> HIDE DEF b
  <2> QED
    BY <2>1, <2>2
<1>7. PushedComplete'
  <2>1. ASSUME NEW t \in run'.pushed
        PROVE  /\ bare[t] # 0
               /\ \E b \in signed' : b.version = t[1] /\ b.platform = t[2] /\ b.stamp = bare[t]
               /\ Stamped => PlannedBuild(t) \in stamped
    <3>1. CASE t = task
      BY <1>5, <1>6, <3>1
    <3>2. CASE t \in run.pushed
      BY <1>2, <3>2 DEF PushedComplete
    <3> QED
      BY <1>1, <3>1, <3>2
  <2> QED
    BY <1>1, <1>2, <2>1 DEF PushedComplete, PlannedBuild
<1>8. Unhappy' \/ (AllPushed' /\ AllIndexed')
  BY <1>1, <1>2, <1>3 DEF Unhappy, AllPushed, AllIndexed, PlanIndexed
<1> QED
  BY <1>1, <1>2, <1>4, <1>7, <1>8 DEF Moved

\* The steps outside of a run.
LEMMA IdleComplete ==
  ASSUME CompleteInv, Release \/ Raise \/ PlanNothing \/ AbortPlan \/ UNCHANGED vars
  PROVE  CompleteInv'
<1>1. TypeInv'
  BY IdleTypes DEF CompleteInv
<1>2. UNCHANGED <<bare, stamped, signed, indexed, pc, run, outcome, range, task, pending>>
  BY DEF Release, Raise, PlanNothing, AbortPlan, vars, target, cursor
<1> QED
  BY <1>1, <1>2
  DEF CompleteInv, StampsAhead, Moved, PushedComplete, PlannedBuild, Unhappy, AllPushed,
      AllIndexed, PlanIndexed

\* A run that reports success, and lost no task to a panic, has published every task it
\* planned and signed its manifest, and signed an index of each version with all that was
\* planned for it, whatever earlier runs failed at or were killed in.
THEOREM SuccessComplete == Spec => []SuccessIsComplete
<1>1. Init => CompleteInv
  BY InitComplete
<1>2. CompleteInv /\ [Next]_vars => CompleteInv'
  <2> SUFFICES ASSUME CompleteInv, [Next]_vars PROVE CompleteInv'
    OBVIOUS
  <2>1. CASE Step
    BY <2>1, PrepareComplete, RangeComplete, FailuresComplete, PushPrimaryComplete,
       MoveTagComplete, SignPlatformComplete, SignIndexComplete, ForgetComplete DEF Step
  <2> QED
    BY <2>1, IdleComplete, PlanComplete, FailuresComplete, ForgetComplete DEF Next
<1>3. CompleteInv => SuccessIsComplete
  <2> SUFFICES ASSUME CompleteInv, Reporting, ~run.failed,
                      \A t \in run.plan : outcome[t] # "lost",
                      NEW t \in run.plan
               PROVE  /\ bare[t] # 0
                      /\ \E b \in signed : b.version = t[1] /\ b.platform = t[2] /\ b.stamp = bare[t]
                      /\ PlanIndexed(t)
    BY DEF SuccessIsComplete, PlanIndexed
  <2>1. t \in run.pushed /\ AllIndexed
    BY DEF CompleteInv, Unhappy, AllPushed, Reporting
  <2>2. t[1] # range
    <3>1. range = 0 /\ t \in Tasks
      BY DEF CompleteInv, TypeInv, TypeOK, CursorOK, Reporting
    <3> QED
      BY <3>1, Numbers
  <2> QED
    BY <2>1, <2>2 DEF CompleteInv, PushedComplete, AllIndexed
<1> QED
  BY <1>1, <1>2, <1>3, PTL DEF Spec

-----------------------------------------------------------------------------
(* TaskPrepare: any asset names, contents, metadata, kills and edits.       *)

FreshStages == {"download", "body", "verify", "extract", "author", "create", "accept"}

-----------------------------------------------------------------------------
(* The inductive invariant.                                                   *)

\* Until create's answer is accepted, `metadata.json` is not there; whenever it is,
\* it is beside what the same create wrote, made from one asset and from the
\* authoring file beside it.
SidecarOK ==
    /\ stage \in FreshStages => sidecar = None
    /\ sidecar # None => compiled = None
    /\ sidecar # None /\ bundle # None =>
        /\ bundle.from = sidecar.from /\ bundle.meta = sidecar.meta
        /\ \E bytes \in Bytes : bundle.from = {bytes}
        /\ authoring # None => bundle.meta = authoring

\* What a fresh run has established by the step it is at.
FreshOK ==
    /\ stage \in FreshStages \ {"download"} => archive[job.asset] # None
    /\ stage \in {"extract", "author", "create", "accept"} => Verified(job)
    /\ stage \in {"author", "create", "accept"} => tree = {archive[job.asset]}
    /\ stage \in {"create", "accept"} => authoring = job.meta
    /\ stage = "accept" => bundle = Bundle /\ compiled = Compiled

TaskInv == TaskTypeOK /\ SidecarOK /\ FreshOK /\ ReadyIsCurrent

-----------------------------------------------------------------------------

LEMMA TaskInitInv == PrepareInit => TaskInv
  BY SpecAssumption, TaskBounds
  DEF PrepareInit, TaskInv, TaskTypeOK, SidecarOK, FreshOK, ReadyIsCurrent, FreshStages, SpecRecords, Stages

\* Every variable keeps its type; create's files are made of what is on the disk.
LEMMA TypeStep ==
  ASSUME TaskTypeOK, FreshOK,
         [PrepareNext]_taskVars
  PROVE  TaskTypeOK'
<1> USE SpecAssumption, TaskBounds
<1> USE DEF TaskTypeOK, SpecRecords, Stages
<1>1. CASE Begin
  BY <1>1 DEF Begin, outside, disk, created
<1>2. CASE Resume
  BY <1>2 DEF Resume, Refuse, GoTo, outside, disk, created
<1>3. CASE DropSidecar
  BY <1>3 DEF DropSidecar, outside, disk, created
<1>4. CASE SkipDownload
  BY <1>4 DEF SkipDownload, GoTo, outside, disk, created
<1>5. CASE OpenDownload
  BY <1>5 DEF OpenDownload, outside, created, Bytes
<1>6. CASE ReadBody
  BY <1>6 DEF ReadBody, outside, created, Bytes
<1>7. CASE Verify
  BY <1>7 DEF Verify, Refuse, GoTo, outside, disk, created
<1>8. CASE Extract
  BY <1>8 DEF Extract, outside, created, LaidOut, FreshOK, FreshStages
<1>9. CASE WriteAuthoring
  BY <1>9 DEF WriteAuthoring, outside, created
<1>10. CASE Create
  <2>1. Bundle \in Files /\ Compiled \in Sidecars
    BY DEF Bundle, Compiled, Claim, Files, Sidecars
  <2>. QED
    BY <1>10, <2>1 DEF Create, outside, Fault
<1>11. CASE Accept
  BY <1>11 DEF Accept, outside
<1>12. CASE RejectEmptyScan
  BY <1>12 DEF RejectEmptyScan, Refuse, GoTo, outside, disk, created
<1>13. CASE Push
  BY <1>13 DEF Push, GoTo, outside, disk, created
<1>14. CASE Clean
  BY <1>14 DEF Clean, Unlink, outside, created
<1>15. CASE EndClean
  BY <1>15 DEF EndClean, GoTo, outside, disk, created
<1>16. CASE Stop
  BY <1>16 DEF Stop, Fault, GoTo, outside, disk, created
<1>17. CASE EditSpec
  BY <1>17 DEF EditSpec, Edit, disk, created
<1>18. CASE Replace
  BY <1>18 DEF Replace, Edit, disk, created
<1>19. CASE UNCHANGED taskVars
  BY <1>19 DEF taskVars, outside, disk, created
<1>. QED
  BY <1>1, <1>2, <1>3, <1>4, <1>5, <1>6, <1>7, <1>8, <1>9, <1>10, <1>11, <1>12, <1>13, <1>14, <1>15, <1>16, <1>17, <1>18, <1>19 DEF PrepareNext, Run

\* The sidecar and what is beside it: removed together with nothing else, and written
\* only by Accept, when FreshOK says that bundle and sidecar are of one create.
LEMMA SidecarStep ==
  ASSUME TaskTypeOK, SidecarOK, FreshOK,
         [PrepareNext]_taskVars
  PROVE  SidecarOK'
<1> USE TaskNone
<1> USE DEF SidecarOK, FreshStages
<1>1. CASE Begin
  BY <1>1 DEF Begin, outside, disk, created
<1>2. CASE Resume
  BY <1>2 DEF Resume, Refuse, GoTo, outside, disk, created
<1>3. CASE DropSidecar
  BY <1>3 DEF DropSidecar, outside, disk, created
<1>4. CASE SkipDownload
  BY <1>4 DEF SkipDownload, GoTo, outside, disk, created
<1>5. CASE OpenDownload
  BY <1>5 DEF OpenDownload, outside, created
<1>6. CASE ReadBody
  BY <1>6 DEF ReadBody, outside, created
<1>7. CASE Verify
  BY <1>7 DEF Verify, Refuse, GoTo, outside, disk, created
<1>8. CASE Extract
  BY <1>8 DEF Extract, outside, created, LaidOut
<1>9. CASE WriteAuthoring
  BY <1>9 DEF WriteAuthoring, outside, created
<1>10. CASE Create
  BY <1>10 DEF Create, outside, Fault, Bundle, Compiled
<1>11. CASE Accept
  <2>1. /\ archive[job.asset] \in Bytes /\ tree = {archive[job.asset]}
        /\ bundle = Bundle /\ compiled = Compiled
    BY <1>11, SpecAssumption DEF Accept, FreshOK, TaskTypeOK, SpecRecords
  <2>. QED
    BY <1>11, <2>1 DEF Accept, outside, Bundle, Compiled
<1>12. CASE RejectEmptyScan
  BY <1>12 DEF RejectEmptyScan, Refuse, GoTo, outside, disk, created
<1>13. CASE Push
  BY <1>13 DEF Push, GoTo, outside, disk, created
<1>14. CASE Clean
  BY <1>14 DEF Clean, Unlink, outside, created
<1>15. CASE EndClean
  BY <1>15 DEF EndClean, GoTo, outside, disk, created
<1>16. CASE Stop
  BY <1>16 DEF Stop, Fault, GoTo, outside, disk, created
<1>17. CASE EditSpec
  BY <1>17 DEF EditSpec, Edit, disk, created
<1>18. CASE Replace
  BY <1>18 DEF Replace, Edit, disk, created
<1>19. CASE UNCHANGED taskVars
  BY <1>19 DEF taskVars, outside, disk, created
<1>. QED
  BY <1>1, <1>2, <1>3, <1>4, <1>5, <1>6, <1>7, <1>8, <1>9, <1>10, <1>11, <1>12, <1>13, <1>14, <1>15, <1>16, <1>17, <1>18, <1>19 DEF PrepareNext, Run

\* What a fresh run has established survives its own steps and those of others.
LEMMA FreshStep ==
  ASSUME TaskTypeOK, FreshOK,
         [PrepareNext]_taskVars
  PROVE  FreshOK'
<1> USE TaskNone
<1> USE DEF FreshOK, FreshStages, Verified, Bundle, Compiled
<1>1. CASE Begin
  BY <1>1 DEF Begin, outside, disk, created
<1>2. CASE Resume
  BY <1>2 DEF Resume, Refuse, GoTo, outside, disk, created
<1>3. CASE DropSidecar
  BY <1>3 DEF DropSidecar, outside, disk, created
<1>4. CASE SkipDownload
  BY <1>4 DEF SkipDownload, GoTo, outside, disk, created
<1>5. CASE OpenDownload
  <2>1. archive[job.asset]' = Torn /\ Torn \in Bytes
    BY <1>5, SpecAssumption DEF OpenDownload, TaskTypeOK, SpecRecords, Bytes
  <2>. QED
    BY <1>5, <2>1 DEF OpenDownload
<1>6. CASE ReadBody
  <2>1. archive[job.asset]' = served[job.asset] /\ served[job.asset] \in Bytes
    BY <1>6, SpecAssumption DEF ReadBody, TaskTypeOK, SpecRecords, Bytes
  <2>. QED
    BY <1>6, <2>1 DEF ReadBody
<1>7. CASE Verify
  BY <1>7 DEF Verify, Refuse, GoTo, outside, disk, created
<1>8. CASE Extract
  BY <1>8 DEF Extract, outside, created, LaidOut
<1>9. CASE WriteAuthoring
  BY <1>9 DEF WriteAuthoring, outside, created
<1>10. CASE Create
  BY <1>10 DEF Create, outside, Fault, Bundle, Compiled
<1>11. CASE Accept
  BY <1>11 DEF Accept, outside
<1>12. CASE RejectEmptyScan
  BY <1>12 DEF RejectEmptyScan, Refuse, GoTo, outside, disk, created
<1>13. CASE Push
  BY <1>13 DEF Push, GoTo, outside, disk, created
<1>14. CASE Clean
  BY <1>14 DEF Clean, Unlink, outside, created
<1>15. CASE EndClean
  BY <1>15 DEF EndClean, GoTo, outside, disk, created
<1>16. CASE Stop
  BY <1>16 DEF Stop, Fault, GoTo, outside, disk, created
<1>17. CASE EditSpec
  BY <1>17 DEF EditSpec, Edit, disk, created
<1>18. CASE Replace
  BY <1>18 DEF Replace, Edit, disk, created
<1>19. CASE UNCHANGED taskVars
  BY <1>19 DEF taskVars, outside, disk, created
<1>. QED
  BY <1>1, <1>2, <1>3, <1>4, <1>5, <1>6, <1>7, <1>8, <1>9, <1>10, <1>11, <1>12, <1>13, <1>14, <1>15, <1>16, <1>17, <1>18, <1>19 DEF PrepareNext, Run

\* A run becomes ready by a resume or by accepting what it created.
LEMMA ReadyStep ==
  ASSUME TaskTypeOK, SidecarOK, FreshOK, ReadyIsCurrent,
         [PrepareNext]_taskVars
  PROVE  ReadyIsCurrent'
<1> USE TaskNone
<1> USE DEF ReadyIsCurrent
<1>1. CASE Begin
  BY <1>1 DEF Begin, outside, disk, created
<1>2. CASE Resume
  <2>1. CASE stage' = "ready"
    <3>1. /\ sidecar \in Sidecars /\ bundle # None /\ authoring = job.meta /\ authoring # None
          /\ Claims(job, sidecar.claim)
      BY <1>2, <2>1, SpecAssumption DEF Resume, Resumable, Refuse, GoTo, TaskTypeOK, SpecRecords
    <3>. QED
      BY <1>2, <3>1 DEF Resume, Refuse, GoTo, disk, created, SidecarOK, Claims, Sidecars
  <2>. QED
    BY <1>2, <2>1
<1>3. CASE DropSidecar
  BY <1>3 DEF DropSidecar, outside, disk, created
<1>4. CASE SkipDownload
  BY <1>4 DEF SkipDownload, GoTo, outside, disk, created
<1>5. CASE OpenDownload
  BY <1>5 DEF OpenDownload, outside, created
<1>6. CASE ReadBody
  BY <1>6 DEF ReadBody, outside, created
<1>7. CASE Verify
  BY <1>7 DEF Verify, Refuse, GoTo, outside, disk, created
<1>8. CASE Extract
  BY <1>8 DEF Extract, outside, created, LaidOut
<1>9. CASE WriteAuthoring
  BY <1>9 DEF WriteAuthoring, outside, created
<1>10. CASE Create
  BY <1>10 DEF Create, outside, Fault, Bundle, Compiled
<1>11. CASE Accept
  <2>1. /\ archive[job.asset] \in Bytes /\ tree = {archive[job.asset]}
        /\ bundle = Bundle /\ compiled = Compiled /\ authoring = job.meta
    BY <1>11, SpecAssumption DEF Accept, FreshOK, FreshStages, TaskTypeOK, SpecRecords
  <2>2. Claims(job, compiled.claim)
    BY <1>11 DEF Accept
  <2>. QED
    BY <1>11, <2>1, <2>2 DEF Accept, outside, Bundle, Compiled, Claims
<1>12. CASE RejectEmptyScan
  BY <1>12 DEF RejectEmptyScan, Refuse, GoTo, outside, disk, created
<1>13. CASE Push
  BY <1>13 DEF Push, GoTo, outside, disk, created
<1>14. CASE Clean
  BY <1>14 DEF Clean, Unlink, outside, created
<1>15. CASE EndClean
  BY <1>15 DEF EndClean, GoTo, outside, disk, created
<1>16. CASE Stop
  BY <1>16 DEF Stop, Fault, GoTo, outside, disk, created
<1>17. CASE EditSpec
  BY <1>17 DEF EditSpec, Edit, disk, created
<1>18. CASE Replace
  BY <1>18 DEF Replace, Edit, disk, created
<1>19. CASE UNCHANGED taskVars
  BY <1>19 DEF taskVars, outside, disk, created
<1>. QED
  BY <1>1, <1>2, <1>3, <1>4, <1>5, <1>6, <1>7, <1>8, <1>9, <1>10, <1>11, <1>12, <1>13, <1>14, <1>15, <1>16, <1>17, <1>18, <1>19 DEF PrepareNext, Run

LEMMA NextInv == TaskInv /\ [PrepareNext]_taskVars => TaskInv'
  BY TypeStep, SidecarStep, FreshStep, ReadyStep DEF TaskInv

LEMMA Invariance == PrepareSpec => []TaskInv
<1>. QED
  BY TaskInitInv, NextInv, PTL DEF PrepareSpec

\* Every variable keeps its type: the files of the directory are what some run
\* downloaded, rendered or created.
THEOREM TaskTypeCorrect == PrepareSpec => []TaskTypeOK
<1>1. TaskInv => TaskTypeOK
  BY DEF TaskInv
<1>. QED
  BY <1>1, Invariance, PTL

\* A bundle and a sidecar found side by side in the directory, whatever kills and
\* clean-ups cut short have done to it, come from one create.
THEOREM PairedHolds == PrepareSpec => []PairedOnDisk
<1>1. TaskInv => PairedOnDisk
  BY DEF TaskInv, SidecarOK, PairedOnDisk
<1>. QED
  BY <1>1, Invariance, PTL

\* What a run hands to the push was created from one asset and from the metadata the
\* spec renders for that run, and does not claim that a scanned package has no command.
THEOREM ReadyCurrent == PrepareSpec => []ReadyIsCurrent
<1>1. TaskInv => ReadyIsCurrent
  BY DEF TaskInv
<1>. QED
  BY <1>1, Invariance, PTL

-----------------------------------------------------------------------------
(* The declared digest, when every spec of the task selects the same asset    *)
(* name.  Without that a second archive beside the bundle may be re-checked    *)
(* in place of the one the bundle was made from.                              *)

OneAsset(asset) == \A s \in Specs : s.asset = asset

\* A kept archive is the one the bundle was made from.
KeptOK(asset) ==
    sidecar # None /\ bundle # None /\ archive[asset] # None => bundle.from = {archive[asset]}

DeclaredInv(asset) == KeptOK(asset) /\ ReadyIsDeclared

\* The archive of a bundle that may be resumed is only ever removed.
LEMMA KeptStep ==
  ASSUME NEW asset, OneAsset(asset), TaskTypeOK, SidecarOK, FreshOK, KeptOK(asset),
         [PrepareNext]_taskVars
  PROVE  KeptOK(asset)'
<1> USE TaskNone
<1> USE DEF KeptOK
<1>1. CASE Begin
  BY <1>1 DEF Begin, outside, disk, created
<1>2. CASE Resume
  BY <1>2 DEF Resume, Refuse, GoTo, outside, disk, created
<1>3. CASE DropSidecar
  BY <1>3, SpecAssumption DEF DropSidecar, outside, disk, created, SidecarOK, FreshOK, FreshStages, OneAsset, TaskTypeOK, Bundle
<1>4. CASE SkipDownload
  BY <1>4 DEF SkipDownload, GoTo, outside, disk, created
<1>5. CASE OpenDownload
  BY <1>5, SpecAssumption DEF OpenDownload, outside, created, SidecarOK, FreshOK, FreshStages, OneAsset, TaskTypeOK, Bundle
<1>6. CASE ReadBody
  BY <1>6, SpecAssumption DEF ReadBody, outside, created, SidecarOK, FreshOK, FreshStages, OneAsset, TaskTypeOK, Bundle
<1>7. CASE Verify
  BY <1>7 DEF Verify, Refuse, GoTo, outside, disk, created
<1>8. CASE Extract
  BY <1>8 DEF Extract, outside, created, LaidOut
<1>9. CASE WriteAuthoring
  BY <1>9 DEF WriteAuthoring, outside, created
<1>10. CASE Create
  BY <1>10, SpecAssumption DEF Create, outside, Fault, Compiled, SidecarOK, FreshOK, FreshStages, OneAsset, TaskTypeOK, Bundle
<1>11. CASE Accept
  BY <1>11, SpecAssumption DEF Accept, outside, SidecarOK, FreshOK, FreshStages, OneAsset, TaskTypeOK, Bundle
<1>12. CASE RejectEmptyScan
  BY <1>12 DEF RejectEmptyScan, Refuse, GoTo, outside, disk, created
<1>13. CASE Push
  BY <1>13 DEF Push, GoTo, outside, disk, created
<1>14. CASE Clean
  <2>1. archive'[asset] \in {archive[asset], None}
    <3>1. asset \in Assets
      BY SpecAssumption DEF OneAsset, TaskTypeOK, SpecRecords
    <3>. QED
      BY <1>14, <3>1 DEF Clean, Unlink, TaskTypeOK
  <2>2. /\ sidecar' # None => sidecar' = sidecar
        /\ bundle' # None => bundle' = bundle
    BY <1>14 DEF Clean, Unlink, created
  <2>. QED
    BY <2>1, <2>2
<1>15. CASE EndClean
  BY <1>15 DEF EndClean, GoTo, outside, disk, created
<1>16. CASE Stop
  BY <1>16 DEF Stop, Fault, GoTo, outside, disk, created
<1>17. CASE EditSpec
  BY <1>17 DEF EditSpec, Edit, disk, created
<1>18. CASE Replace
  BY <1>18 DEF Replace, Edit, disk, created
<1>19. CASE UNCHANGED taskVars
  BY <1>19 DEF taskVars, outside, disk, created
<1>. QED
  BY <1>1, <1>2, <1>3, <1>4, <1>5, <1>6, <1>7, <1>8, <1>9, <1>10, <1>11, <1>12, <1>13, <1>14, <1>15, <1>16, <1>17, <1>18, <1>19 DEF PrepareNext, Run

\* A resume re-checks the archive, and a fresh run has verified it.
LEMMA DeclaredStep ==
  ASSUME NEW asset, OneAsset(asset), TaskTypeOK, SidecarOK, FreshOK, KeptOK(asset), ReadyIsDeclared,
         [PrepareNext]_taskVars
  PROVE  ReadyIsDeclared'
<1> USE TaskNone
<1> USE DEF ReadyIsDeclared
<1>1. CASE Begin
  BY <1>1 DEF Begin, outside, disk, created
<1>2. CASE Resume
  <2>1. CASE stage' = "ready"
    <3>1. sidecar # None /\ bundle # None /\ Rechecked(job)
      BY <1>2, <2>1 DEF Resume, Resumable, Refuse, GoTo
    <3>2. job.asset = asset /\ job.digest \in Contents \cup {None}
      BY SpecAssumption DEF OneAsset, TaskTypeOK, SpecRecords
    <3>3. job.digest # None => bundle.from = {job.digest}
      BY <3>1, <3>2 DEF Rechecked, KeptOK
    <3>. QED
      BY <1>2, <3>1, <3>3 DEF Resume, Refuse, GoTo, disk, created, Rechecked
  <2>. QED
    BY <1>2, <2>1
<1>3. CASE DropSidecar
  BY <1>3 DEF DropSidecar, outside, disk, created
<1>4. CASE SkipDownload
  BY <1>4 DEF SkipDownload, GoTo, outside, disk, created
<1>5. CASE OpenDownload
  BY <1>5 DEF OpenDownload, outside, created
<1>6. CASE ReadBody
  BY <1>6 DEF ReadBody, outside, created
<1>7. CASE Verify
  BY <1>7 DEF Verify, Refuse, GoTo, outside, disk, created
<1>8. CASE Extract
  BY <1>8 DEF Extract, outside, created, LaidOut
<1>9. CASE WriteAuthoring
  BY <1>9 DEF WriteAuthoring, outside, created
<1>10. CASE Create
  BY <1>10 DEF Create, outside, Fault, Bundle, Compiled
<1>11. CASE Accept
  <2>1. bundle.from = {archive[job.asset]} /\ Verified(job)
    BY <1>11 DEF Accept, FreshOK, FreshStages, Bundle
  <2>. QED
    BY <1>11, <2>1 DEF Accept, outside, Verified
<1>12. CASE RejectEmptyScan
  BY <1>12 DEF RejectEmptyScan, Refuse, GoTo, outside, disk, created
<1>13. CASE Push
  BY <1>13 DEF Push, GoTo, outside, disk, created
<1>14. CASE Clean
  BY <1>14 DEF Clean, Unlink, outside, created
<1>15. CASE EndClean
  BY <1>15 DEF EndClean, GoTo, outside, disk, created
<1>16. CASE Stop
  BY <1>16 DEF Stop, Fault, GoTo, outside, disk, created
<1>17. CASE EditSpec
  BY <1>17 DEF EditSpec, Edit, disk, created
<1>18. CASE Replace
  BY <1>18 DEF Replace, Edit, disk, created
<1>19. CASE UNCHANGED taskVars
  BY <1>19 DEF taskVars, outside, disk, created
<1>. QED
  BY <1>1, <1>2, <1>3, <1>4, <1>5, <1>6, <1>7, <1>8, <1>9, <1>10, <1>11, <1>12, <1>13, <1>14, <1>15, <1>16, <1>17, <1>18, <1>19 DEF PrepareNext, Run

\* What a run hands to the push was made from the bytes whose digest was declared for
\* that run, and `require` never passes an asset without one.
THEOREM ReadyDeclared ==
  ASSUME NEW CONSTANT asset, OneAsset(asset)
  PROVE  PrepareSpec => []ReadyIsDeclared
<1>1. PrepareInit => DeclaredInv(asset)
  BY DEF PrepareInit, DeclaredInv, KeptOK, ReadyIsDeclared
<1>2. TaskInv /\ DeclaredInv(asset) /\ [PrepareNext]_taskVars => DeclaredInv(asset)'
  BY KeptStep, DeclaredStep DEF TaskInv, DeclaredInv
<1>3. DeclaredInv(asset) => ReadyIsDeclared
  BY DEF DeclaredInv
<1>. QED
  BY <1>1, <1>2, <1>3, Invariance, PTL DEF PrepareSpec

-----------------------------------------------------------------------------
(* CiGeneration: any files, extends chains, spec sets, edits and upgrades.  *)

-----------------------------------------------------------------------------
(* A run of a mirror workflow.                                                *)

Names(l) == {t.name : t \in ToSet(l.tests)}

\* A run's junit files are what its finished legs uploaded, and what it published was
\* judged on them once no leg was left.
RunOK ==
    flowRun # None =>
        /\ flowRun = [doc |-> flowRun.doc, legs |-> flowRun.legs, current |-> flowRun.current,
                      results |-> flowRun.results, junit |-> flowRun.junit,
                      pushed |-> flowRun.pushed, published |-> flowRun.published]
        /\ flowRun.current => flowRun.legs = build_matrix(flowRun.doc)
        /\ DOMAIN flowRun.results \subseteq flowRun.legs
        /\ \A key \in DOMAIN flowRun.junit : \E l \in DOMAIN flowRun.results :
            /\ key = <<l.platform, l.container_id>>
            /\ flowRun.junit[key].green => flowRun.results[l] = "green"
            /\ flowRun.junit[key].names = Names(l)
        /\ flowRun.published # {} => flowRun.legs \subseteq DOMAIN flowRun.results
        /\ \A p \in flowRun.published : p \in DOMAIN Declared(flowRun.doc) /\ evaluate_junit(flowRun, p)

LEMMA RunStep ==
  ASSUME RunOK, [CiNext]_ciVars
  PROVE  RunOK'
<1>1. CASE \E key \in DOMAIN flows : Start(key)
  <2>1. PICK key \in DOMAIN flows : Start(key)
    BY <1>1
  <2>2. PICK mirror \in Named(flows[key]) :
          LET loaded == load_spec(files, mirror)
          IN  flowRun' = [doc |-> loaded.doc, legs |-> flows[key].body.legs,
                          current |-> flows[key].body.legs = build_matrix(loaded.doc),
                          results |-> [l \in {} |-> None], junit |-> [k \in {} |-> None],
                          pushed |-> FALSE, published |-> {}]
    BY <2>1 DEF Start
  <2> DEFINE doc == load_spec(files, mirror).doc
             legs == flows[key].body.legs
  <2>3. flowRun' = [doc |-> doc, legs |-> legs, current |-> legs = build_matrix(doc),
                    results |-> [l \in {} |-> None], junit |-> [k \in {} |-> None],
                    pushed |-> FALSE, published |-> {}]
    BY <2>2
  <2> HIDE DEF doc, legs
  <2> QED
    BY <2>3 DEF RunOK
<1>2. ASSUME NEW leg \in flowRun.legs, NEW result \in {"green", "red", "lost"}, RunLeg(leg, result)
      PROVE  RunOK'
  <2> DEFINE key == <<leg.platform, leg.container_id>>
             file == [green |-> result = "green", names |-> Names(leg)]
             kept == \/ result = "lost" \/ key \in DOMAIN flowRun.junit
                     \/ leg.platform \notin DOMAIN Declared(flowRun.doc)
             junit == IF kept THEN flowRun.junit ELSE Put(flowRun.junit, key, file)
             results == Put(flowRun.results, leg, result)
  <2>1. /\ flowRun # None /\ leg \notin DOMAIN flowRun.results
        /\ flowRun' = [flowRun EXCEPT !.results = results, !.junit = junit]
    BY <1>2 DEF RunLeg, Names
  <2>2. flowRun = [doc |-> flowRun.doc, legs |-> flowRun.legs, current |-> flowRun.current,
                   results |-> flowRun.results, junit |-> flowRun.junit,
                   pushed |-> flowRun.pushed, published |-> flowRun.published]
    BY <2>1 DEF RunOK
  <2>3. flowRun' = [doc |-> flowRun.doc, legs |-> flowRun.legs, current |-> flowRun.current,
                    results |-> results, junit |-> junit,
                    pushed |-> flowRun.pushed, published |-> flowRun.published]
    <3> HIDE DEF results, junit
    <3> QED
      BY <2>1, <2>2
  <2>4. flowRun.published = {}
    BY <2>1 DEF RunOK
  <2>5. /\ DOMAIN results = DOMAIN flowRun.results \cup {leg} /\ results[leg] = result
        /\ \A l \in DOMAIN flowRun.results : results[l] = flowRun.results[l]
    BY <2>1 DEF Put
  <2>6. ASSUME NEW k \in DOMAIN junit
        PROVE  \E l \in DOMAIN results :
                 /\ k = <<l.platform, l.container_id>>
                 /\ junit[k].green => results[l] = "green"
                 /\ junit[k].names = Names(l)
    <3>1. CASE k \in DOMAIN flowRun.junit /\ junit[k] = flowRun.junit[k]
      <4> HIDE DEF results, junit
      <4> QED
        BY <2>1, <2>5, <3>1 DEF RunOK
    <3>2. CASE ~kept /\ k = key /\ junit[k] = file
      <4>1. junit[k].green = (result = "green") /\ junit[k].names = Names(leg)
        BY <3>2
      <4> HIDE DEF results, junit, file, kept
      <4> QED
        BY <2>5, <3>2, <4>1
    <3>3. CASE kept
      BY <3>1, <3>3
    <3>4. ASSUME ~kept
          PROVE  (k = key /\ junit[k] = file) \/ (k \in DOMAIN flowRun.junit /\ junit[k] = flowRun.junit[k])
      <4>1. junit = Put(flowRun.junit, key, file)
        BY <3>4
      <4> HIDE DEF key, file, kept
      <4> QED
        BY <4>1 DEF Put
    <3> QED
      BY <3>1, <3>2, <3>3, <3>4
  <2> HIDE DEF results, junit
  <2>7. /\ flowRun'.doc = flowRun.doc /\ flowRun'.legs = flowRun.legs /\ flowRun'.current = flowRun.current
        /\ flowRun'.results = results /\ flowRun'.junit = junit
        /\ flowRun'.published = {} /\ flowRun'.pushed = flowRun.pushed
    BY <2>3, <2>4
  <2>8. /\ flowRun.current => flowRun.legs = build_matrix(flowRun.doc)
        /\ DOMAIN results \subseteq flowRun.legs
    BY <1>2, <2>1, <2>5 DEF RunOK
  <2>9. flowRun' = [doc |-> flowRun'.doc, legs |-> flowRun'.legs, current |-> flowRun'.current,
                      results |-> flowRun'.results, junit |-> flowRun'.junit,
                      pushed |-> flowRun'.pushed, published |-> flowRun'.published]
    BY <2>3
  <2> QED
    BY <2>9, <2>6, <2>7, <2>8 DEF RunOK
<1>3. CASE PushRun
  <2> DEFINE good == {p \in DOMAIN Declared(flowRun.doc) : evaluate_junit(flowRun, p)}
  <2>1. /\ flowRun # None /\ DOMAIN flowRun.results = flowRun.legs
        /\ flowRun' = [flowRun EXCEPT !.pushed = TRUE, !.published = good]
    BY <1>3 DEF PushRun
  <2>2. flowRun = [doc |-> flowRun.doc, legs |-> flowRun.legs, current |-> flowRun.current,
                   results |-> flowRun.results, junit |-> flowRun.junit,
                   pushed |-> flowRun.pushed, published |-> flowRun.published]
    BY <2>1 DEF RunOK
  <2>3. \A p \in good : p \in DOMAIN Declared(flowRun.doc) /\ evaluate_junit(flowRun, p)
    OBVIOUS
  <2> HIDE DEF good
  <2>4. flowRun' = [doc |-> flowRun.doc, legs |-> flowRun.legs, current |-> flowRun.current,
                    results |-> flowRun.results, junit |-> flowRun.junit,
                    pushed |-> TRUE, published |-> good]
    BY <2>1, <2>2
  <2>5. /\ flowRun'.doc = flowRun.doc /\ flowRun'.legs = flowRun.legs /\ flowRun'.current = flowRun.current
        /\ flowRun'.results = flowRun.results /\ flowRun'.junit = flowRun.junit
        /\ flowRun'.published = good /\ flowRun'.pushed = TRUE
    BY <2>4
  <2>6. \A p \in good : evaluate_junit(flowRun', p)
    BY <2>3, <2>5 DEF evaluate_junit
  <2>7. flowRun' = [doc |-> flowRun'.doc, legs |-> flowRun'.legs, current |-> flowRun'.current,
                      results |-> flowRun'.results, junit |-> flowRun'.junit,
                      pushed |-> flowRun'.pushed, published |-> flowRun'.published]
    BY <2>4
  <2> QED
    BY <2>1, <2>3, <2>5, <2>6, <2>7 DEF RunOK
<1>4. CASE EndRun
  BY <1>4 DEF EndRun, RunOK
<1>5. CASE UNCHANGED flowRun
  BY <1>5 DEF RunOK, evaluate_junit
<1> QED
  BY <1>1, <1>2, <1>3, <1>4, <1>5
  DEF CiNext, ciVars, EditKey, DropKey, CreateFile, Change, DeleteFile, ToggleScript, HandEdit,
      Upgrade, Generate, RemoveStale, Commit

\* Of two containers of a platform that resolve to different ids, each has a leg.
LEMMA LegsOfIds ==
  ASSUME NEW doc, NEW p \in DOMAIN Declared(doc), NEW leg \in platform_legs(doc, p)
  PROVE  leg.platform = p /\ leg.container_id \in container_ids_from_config(Declared(doc)[p])
  BY DEF platform_legs, container_ids_from_config, ToSet

\* Where the ids tell a platform's containers apart, they tell its legs apart.
LEMMA LegsToldApart ==
  ASSUME NEW doc, NEW p \in DOMAIN Declared(doc),
         NEW l \in platform_legs(doc, p), NEW k \in platform_legs(doc, p),
         l.container_id = k.container_id,
         Declared(doc)[p].containers \notin {None, <<>>} =>
             \A i, j \in DOMAIN Declared(doc)[p].containers :
                 resolved_id(Declared(doc)[p].containers[i]) = resolved_id(Declared(doc)[p].containers[j])
                     => i = j
  PROVE  l = k
  BY DEF platform_legs

LEMMA TestedFromRun == RunOK => PublishedWasTested
<1> SUFFICES ASSUME RunOK, flowRun # None, NEW p \in flowRun.published
             PROVE  LET config == Declared(flowRun.doc)[p]
                        Distinct == config.containers \notin {None, <<>>} =>
                            \A i, j \in DOMAIN config.containers :
                                resolved_id(config.containers[i]) = resolved_id(config.containers[j]) => i = j
                        Green == {l \in DOMAIN flowRun.results : l.platform = p /\ flowRun.results[l] = "green"}
                    IN  /\ \A id \in container_ids_from_config(config) :
                            \E l \in Green : l.container_id = id
                                /\ test_names_for_platform(flowRun.doc, p) \subseteq {t.name : t \in ToSet(l.tests)}
                        /\ flowRun.current /\ Distinct => platform_legs(flowRun.doc, p) \subseteq Green
  BY DEF PublishedWasTested
<1> DEFINE doc == flowRun.doc
           config == Declared(doc)[p]
           Green == {l \in DOMAIN flowRun.results : l.platform = p /\ flowRun.results[l] = "green"}
<1>1. p \in DOMAIN Declared(doc) /\ evaluate_junit(flowRun, p)
  BY DEF RunOK
<1>2. ASSUME NEW id \in container_ids_from_config(config)
      PROVE  \E l \in Green : l.container_id = id /\ test_names_for_platform(doc, p) \subseteq Names(l)
  <2>1. /\ <<p, id>> \in DOMAIN flowRun.junit /\ flowRun.junit[<<p, id>>].green
        /\ test_names_for_platform(doc, p) \subseteq flowRun.junit[<<p, id>>].names
    BY <1>1 DEF evaluate_junit
  <2>2. PICK l \in DOMAIN flowRun.results :
          /\ <<p, id>> = <<l.platform, l.container_id>>
          /\ flowRun.junit[<<p, id>>].green => flowRun.results[l] = "green"
          /\ flowRun.junit[<<p, id>>].names = Names(l)
    BY <2>1 DEF RunOK
  <2> QED
    BY <2>1, <2>2
<1>3. ASSUME flowRun.current,
             config.containers \notin {None, <<>>} =>
                 \A i, j \in DOMAIN config.containers :
                     resolved_id(config.containers[i]) = resolved_id(config.containers[j]) => i = j,
             NEW leg \in platform_legs(doc, p)
      PROVE  leg \in Green
  <2>1. leg.container_id \in container_ids_from_config(config)
    BY <1>1, LegsOfIds
  <2>2. PICK l \in Green : l.container_id = leg.container_id
    BY <1>2, <2>1
  <2>3. l \in build_matrix(doc)
    BY <1>3 DEF RunOK
  <2>4. l \in platform_legs(doc, p)
    BY <2>2, <2>3, LegsOfIds DEF build_matrix
  <2>5. l = leg
    BY <1>1, <1>3, <2>2, <2>4, LegsToldApart
  <2> QED
    BY <2>2, <2>5
<1> QED
  BY <1>2, <1>3 DEF Names

\* A platform is published only after every container it declares ran every declared
\* test green, whatever legs were lost, ran twice or uploaded first (the push gate of
\* push/{gating,verdict}.rs on the artifacts of the generated workflow).
THEOREM PublishedIsTested == CiSpec => []PublishedWasTested
<1>1. CiInit => RunOK
  BY DEF CiInit, RunOK
<1>2. RunOK /\ [CiNext]_ciVars => RunOK'
  BY RunStep
<1> QED
  BY <1>1, <1>2, TestedFromRun, PTL DEF CiSpec

\* A set of numbers has a least member: of the intervals that end at a
\* member, one has no strict subset among them.
LEMMA LeastOf ==
  ASSUME NEW S \in SUBSET Nat, S # {}
  PROVE  \E m \in S : \A x \in S : m <= x
<1> DEFINE Down(x) == 0..x
           Downs == {Down(x) : x \in S}
<1>1. \A x \in S : IsFiniteSet(Down(x))
  BY FS_Interval
<1>2. \A x, m \in S : x < m => Down(x) \subseteq Down(m) /\ Down(x) # Down(m)
  OBVIOUS
<1> HIDE DEF Down
<1>3. \E X \in Downs : \A Y \in Downs : Y \subseteq X => Y = X
  <2>1. Downs # {} /\ \A X \in Downs : IsFiniteSet(X)
    BY <1>1
  <2> HIDE DEF Downs
  <2> QED
    BY <2>1, MinimalSet
<1> QED
  BY <1>2, <1>3

\* Counting up from 0 reaches every number.
LEMMA CountingUp ==
  ASSUME NEW S \in SUBSET Nat, 0 \in S, \A n \in S : n + 1 \in S
  PROVE  S = Nat
<1>1. SUFFICES ASSUME Nat \ S # {} PROVE FALSE
  OBVIOUS
<1>2. PICK m \in Nat \ S : \A x \in Nat \ S : m <= x
  BY <1>1, LeastOf
<1>3. m # 0 /\ m - 1 \in Nat /\ m - 1 \in S
  BY <1>2
<1> QED
  BY <1>2, <1>3

-----------------------------------------------------------------------------
(* Walking the `extends:` chain.                                              *)

Leaving(path) == [chain |-> <<>>, at |-> path, open |-> TRUE, exit |-> Ok]
Further(fs, path, w) == IF w.open THEN Follow(fs, path, w) ELSE w

LEMMA WalkSteps ==
  ASSUME NEW fs, NEW path, NEW last \in Nat
  PROVE  /\ Walk(fs, path, last)[0] = Leaving(path)
         /\ \A n \in 0 .. last - 1 :
              Walk(fs, path, last)[n + 1] = Further(fs, path, Walk(fs, path, last)[n])
<1> DEFINE Body(f, n) == IF n = 0 THEN Leaving(path) ELSE Further(fs, path, f[n - 1])
           S == {m \in Nat : \E f : f = [n \in 0 .. m |-> Body(f, n)]}
<1>1. 0 \in S
  <2> DEFINE f == [n \in 0 .. 0 |-> Leaving(path)]
  <2>1. f = [n \in 0 .. 0 |-> Body(f, n)]
    OBVIOUS
  <2> QED
    BY <2>1
<1>2. ASSUME NEW m \in S PROVE m + 1 \in S
  <2>1. PICK f : f = [n \in 0 .. m |-> Body(f, n)]
    OBVIOUS
  <2> DEFINE g == [n \in 0 .. m + 1 |-> Body(f, n)]
  <2>2. \A n \in 0 .. m : g[n] = f[n]
    BY <2>1
  <2>3. ASSUME NEW n \in 0 .. m + 1 PROVE Body(g, n) = Body(f, n)
    <3>1. CASE n = 0
      BY <3>1
    <3>2. CASE n # 0
      <4>1. n - 1 \in 0 .. m
        BY <3>2
      <4>2. g[n - 1] = f[n - 1]
        BY <2>2, <4>1
      <4> HIDE DEF g
      <4> QED
        BY <3>2, <4>2
    <3> QED
      BY <3>1, <3>2
  <2>4. g = [n \in 0 .. m + 1 |-> Body(g, n)]
    <3> HIDE DEF Body
    <3> QED
      BY <2>3
  <2>5. \E h : h = [n \in 0 .. m + 1 |-> Body(h, n)]
    <3> HIDE DEF g, Body
    <3> QED
      BY <2>4
  <2> QED
    BY <2>5
<1>3. last \in S
  <2> HIDE DEF S
  <2>1. S \in SUBSET Nat
    BY DEF S
  <2> QED
    BY <1>1, <1>2, <2>1, CountingUp
<1> DEFINE w == Walk(fs, path, last)
<1>4. w = CHOOSE f : f = [n \in 0 .. last |-> Body(f, n)]
  BY DEF Walk, Leaving, Further
<1>5. w = [n \in 0 .. last |-> Body(w, n)]
  <2> HIDE DEF w
  <2> QED
    BY <1>3, <1>4
<1> HIDE DEF w
<1>6. w[0] = Leaving(path) /\ \A n \in 0 .. last - 1 : w[n + 1] = Further(fs, path, w[n])
  BY <1>5
<1> QED
  BY <1>6 DEF w

-----------------------------------------------------------------------------
\* From `path` on, each file names the next of `chain`, none twice.
Node(path, chain, i) == IF i = 0 THEN path ELSE chain[i]
Leads(fs, path, chain) ==
    \A i \in 1 .. Len(chain) :
        /\ "extends" \in DOMAIN fs[Node(path, chain, i - 1)].doc
        /\ fs[Node(path, chain, i - 1)].doc["extends"] = chain[i]
        /\ chain[i] # None /\ chain[i] # path /\ fs[chain[i]].parses
        /\ \A j \in 1 .. i - 1 : chain[j] # chain[i]
Ends(fs, path, chain) == "extends" \notin DOMAIN fs[Node(path, chain, Len(chain))].doc

\* What the walk has after n steps: an open one has followed n links.
WalkOK(fs, path, n, w) ==
    /\ w = [chain |-> w.chain, at |-> w.at, open |-> w.open, exit |-> w.exit]
    /\ w.chain \in Seq(DOMAIN fs)
    /\ w.open \in BOOLEAN
    /\ w.open => /\ Leads(fs, path, w.chain) /\ Len(w.chain) = n
                 /\ w.at = Node(path, w.chain, n)
                 /\ w.exit = Ok
    /\ ~w.open /\ w.exit = Ok => Leads(fs, path, w.chain) /\ Ends(fs, path, w.chain)

LEMMA LeadsFurther ==
  ASSUME NEW fs, NEW path, NEW chain \in Seq(DOMAIN fs), NEW next \in DOMAIN fs,
         Leads(fs, path, chain),
         "extends" \in DOMAIN fs[Node(path, chain, Len(chain))].doc,
         next = fs[Node(path, chain, Len(chain))].doc["extends"],
         next # None, next # path, next \notin ToSet(chain), fs[next].parses
  PROVE  Leads(fs, path, Append(chain, next))
<1> DEFINE longer == Append(chain, next)
<1>1. /\ longer \in Seq(DOMAIN fs) /\ Len(longer) = Len(chain) + 1 /\ Len(chain) \in Nat
      /\ longer[Len(chain) + 1] = next
      /\ \A i \in 1 .. Len(chain) : longer[i] = chain[i]
  OBVIOUS
<1>2. \A j \in 1 .. Len(chain) : chain[j] # next
  BY DEF ToSet
<1> HIDE DEF longer
<1>3. \A i \in 0 .. Len(chain) : Node(path, longer, i) = Node(path, chain, i)
  BY <1>1 DEF Node
<1>4. ASSUME NEW i \in 1 .. Len(longer)
      PROVE  /\ "extends" \in DOMAIN fs[Node(path, longer, i - 1)].doc
             /\ fs[Node(path, longer, i - 1)].doc["extends"] = longer[i]
             /\ longer[i] # None /\ longer[i] # path /\ fs[longer[i]].parses
             /\ \A j \in 1 .. i - 1 : longer[j] # longer[i]
  <2>0. i - 1 \in 0 .. Len(chain) /\ Node(path, longer, i - 1) = Node(path, chain, i - 1)
    BY <1>1, <1>3
  <2>1. CASE i = Len(chain) + 1
    BY <1>1, <1>2, <2>0, <2>1
  <2>2. CASE i \in 1 .. Len(chain)
    <3>1. \A j \in 1 .. i - 1 : j \in 1 .. Len(chain) /\ longer[j] = chain[j]
      BY <1>1, <2>2
    <3> QED
      BY <1>1, <2>0, <2>2, <3>1 DEF Leads
  <2> QED
    BY <1>1, <2>1, <2>2
<1> QED
  BY <1>4 DEF Leads, longer

LEMMA WalkGoesOn ==
  ASSUME NEW fs, NEW path, NEW n \in Nat, NEW w, WalkOK(fs, path, n, w)
  PROVE  WalkOK(fs, path, n + 1, Further(fs, path, w))
<1> DEFINE doc == fs[w.at].doc
           next == doc["extends"]
           v == Further(fs, path, w)
<1>0. w = [chain |-> w.chain, at |-> w.at, open |-> w.open, exit |-> w.exit] /\ w.open \in BOOLEAN
  BY DEF WalkOK
<1>1. CASE ~w.open
  BY <1>1 DEF WalkOK, Further
<1>2. CASE w.open /\ "extends" \notin DOMAIN doc
  <2>1. v = [chain |-> w.chain, at |-> w.at, open |-> FALSE, exit |-> Ok]
    BY <1>0, <1>2 DEF Further, Follow
  <2> QED
    BY <1>2, <2>1 DEF WalkOK, Ends
<1>3. CASE w.open /\ "extends" \in DOMAIN doc
           /\ (next = None \/ next \notin DOMAIN fs \/ next \in {path} \cup ToSet(w.chain) \/ ~fs[next].parses)
  <2>1. v = [chain |-> w.chain, at |-> w.at, open |-> FALSE, exit |-> DataError]
    BY <1>0, <1>3 DEF Further, Follow
  <2> QED
    BY <1>3, <2>1 DEF WalkOK, Ok, DataError
<1>4. CASE w.open /\ "extends" \in DOMAIN doc /\ next # None /\ next \in DOMAIN fs
           /\ next \notin {path} \cup ToSet(w.chain) /\ fs[next].parses
  <2>1. v = [chain |-> Append(w.chain, next), at |-> next, open |-> TRUE, exit |-> w.exit]
    BY <1>0, <1>4 DEF Further, Follow
  <2>2. /\ w.chain \in Seq(DOMAIN fs) /\ Len(w.chain) = n /\ Leads(fs, path, w.chain)
        /\ w.at = Node(path, w.chain, n) /\ w.exit = Ok
    BY <1>4 DEF WalkOK
  <2>3. Leads(fs, path, Append(w.chain, next))
    BY <1>4, <2>2, LeadsFurther
  <2>4. /\ Append(w.chain, next) \in Seq(DOMAIN fs) /\ Len(Append(w.chain, next)) = n + 1
        /\ Append(w.chain, next)[n + 1] = next
    BY <1>4, <2>2
  <2> QED
    BY <2>1, <2>2, <2>3, <2>4 DEF WalkOK, Node
<1> QED
  BY <1>0, <1>1, <1>2, <1>3, <1>4

LEMMA WalkIsOK ==
  ASSUME NEW fs, NEW path, NEW last \in Nat
  PROVE  WalkOK(fs, path, last, Walk(fs, path, last)[last])
<1> DEFINE w == Walk(fs, path, last)
           S == {n \in Nat : n <= last => WalkOK(fs, path, n, w[n])}
<1>1. w[0] = Leaving(path) /\ \A n \in 0 .. last - 1 : w[n + 1] = Further(fs, path, w[n])
  BY WalkSteps
<1> HIDE DEF w
<1>2. 0 \in S
  <2>1. WalkOK(fs, path, 0, Leaving(path))
    BY DEF WalkOK, Leaving, Leads, Node
  <2> QED
    BY <1>1, <2>1
<1>3. ASSUME NEW n \in S PROVE n + 1 \in S
  <2>1. n + 1 <= last => n \in 0 .. last - 1 /\ n <= last
    OBVIOUS
  <2>2. n + 1 <= last => WalkOK(fs, path, n + 1, Further(fs, path, w[n]))
    BY <2>1, WalkGoesOn
  <2> QED
    BY <1>1, <2>1, <2>2
<1>4. S \in SUBSET Nat
  OBVIOUS
<1> HIDE DEF S
<1>5. last \in S
  BY <1>2, <1>3, <1>4, CountingUp
<1> QED
  BY <1>5 DEF S, w

\* No file is visited twice, so there are fewer links than files.
LEMMA LinksAreFew ==
  ASSUME NEW fs, IsFiniteSet(DOMAIN fs), NEW path \in DOMAIN fs, NEW chain \in Seq(DOMAIN fs),
         Leads(fs, path, chain)
  PROVE  Len(chain) + 1 <= Cardinality(DOMAIN fs) /\ Cardinality(DOMAIN fs) \in Nat
<1> DEFINE f == [i \in 0 .. Len(chain) |-> Node(path, chain, i)]
<1>1. Len(chain) \in Nat /\ \A i \in 1 .. Len(chain) : chain[i] \in DOMAIN fs
  OBVIOUS
<1>2. \A i \in 0 .. Len(chain) : Node(path, chain, i) \in DOMAIN fs
  BY <1>1 DEF Node
<1>3. ASSUME NEW i \in 0 .. Len(chain), NEW j \in 0 .. Len(chain), j < i
      PROVE  Node(path, chain, i) # Node(path, chain, j)
  BY <1>1, <1>3 DEF Node, Leads
<1>4. \A i, j \in 0 .. Len(chain) : f[i] = f[j] => i = j
  BY <1>1, <1>3
<1>5. f \in Injection(0 .. Len(chain), DOMAIN fs)
  BY <1>2, <1>4 DEF Injection, IsInjective
<1>6. Cardinality(0 .. Len(chain)) = Len(chain) + 1
  BY <1>1, FS_Interval
<1> HIDE DEF f
<1>7. Cardinality(0 .. Len(chain)) <= Cardinality(DOMAIN fs)
  BY <1>5, FS_Injection
<1> QED
  BY <1>6, <1>7, FS_CardinalityType

\* A walk that ends well has followed every link, and the files say which way it goes.
Chained(fs, path, chain) ==
    fs[path].parses /\ Leads(fs, path, chain) /\ Ends(fs, path, chain)

LEMMA ResolvedIsChained ==
  ASSUME NEW fs, IsFiniteSet(DOMAIN fs), NEW path \in DOMAIN fs,
         resolve_extends_chain(fs, path).exit = Ok
  PROVE  /\ resolve_extends_chain(fs, path).chain \in Seq(DOMAIN fs)
         /\ Chained(fs, path, resolve_extends_chain(fs, path).chain)
<1> DEFINE last == Cardinality(DOMAIN fs) + 1
           end == Walk(fs, path, last)[last]
<1>1. last \in Nat
  BY FS_CardinalityType
<1>2. WalkOK(fs, path, last, end)
  BY <1>1, WalkIsOK
<1>3. fs[path].parses /\ resolve_extends_chain(fs, path) = [chain |-> end.chain, exit |-> end.exit]
  <2> HIDE DEF end
  <2>1. ~fs[path].parses => resolve_extends_chain(fs, path).exit = DataError
    BY DEF resolve_extends_chain
  <2> QED
    BY <2>1 DEF resolve_extends_chain, Ok, DataError, end
<1> HIDE DEF end
<1>4. end.exit = Ok /\ end.chain \in Seq(DOMAIN fs) /\ end.open \in BOOLEAN
  BY <1>2, <1>3 DEF WalkOK
<1>5. ~end.open
  <2> SUFFICES ASSUME end.open PROVE FALSE
    BY <1>4
  <2>1. Leads(fs, path, end.chain) /\ Len(end.chain) = last
    BY <1>2 DEF WalkOK
  <2> QED
    BY <1>1, <1>4, <2>1, LinksAreFew, FS_CardinalityType
<1> QED
  BY <1>2, <1>3, <1>4, <1>5 DEF WalkOK, Chained

LEMMA ChainedIsResolved ==
  ASSUME NEW fs, IsFiniteSet(DOMAIN fs), NEW path \in DOMAIN fs, NEW chain \in Seq(DOMAIN fs),
         Chained(fs, path, chain)
  PROVE  resolve_extends_chain(fs, path) = [chain |-> chain, exit |-> Ok]
<1> DEFINE last == Cardinality(DOMAIN fs) + 1
           w == Walk(fs, path, last)
           m == Len(chain)
           Upto(n) == [chain |-> SubSeq(chain, 1, n), at |-> Node(path, chain, n), open |-> TRUE, exit |-> Ok]
           Over == [chain |-> chain, at |-> Node(path, chain, m), open |-> FALSE, exit |-> Ok]
           S == {n \in Nat : n <= last => w[n] = IF n <= m THEN Upto(n) ELSE Over}
<1>1. last \in Nat /\ m \in Nat /\ m + 1 <= last - 1
  BY FS_CardinalityType, LinksAreFew DEF Chained
<1>2. w[0] = Leaving(path) /\ \A n \in 0 .. last - 1 : w[n + 1] = Further(fs, path, w[n])
  BY <1>1, WalkSteps
<1> HIDE DEF w
<1>3. 0 \in S
  <2>1. SubSeq(chain, 1, 0) = <<>>
    OBVIOUS
  <2>2. Upto(0) = Leaving(path)
    BY <2>1 DEF Leaving, Node
  <2>3. w[0] = IF 0 <= m THEN Upto(0) ELSE Over
    <3> HIDE DEF Upto, Over
    <3> QED
      BY <1>1, <1>2, <2>2
  <2> HIDE DEF Upto, Over
  <2> QED
    BY <2>3
<1>4. Further(fs, path, Over) = Over
  BY DEF Further
<1>5. Further(fs, path, Upto(m)) = Over
  <2>1. SubSeq(chain, 1, m) = chain
    OBVIOUS
  <2>2. "extends" \notin DOMAIN fs[Node(path, chain, m)].doc
    BY DEF Chained, Ends
  <2> QED
    BY <2>1, <2>2 DEF Further, Follow
<1>6. ASSUME NEW n \in 0 .. m - 1 PROVE Further(fs, path, Upto(n)) = Upto(n + 1)
  <2>0. n + 1 \in 1 .. m /\ n \in 0 .. m /\ n + 1 - 1 = n
    BY <1>1
  <2>1. /\ "extends" \in DOMAIN fs[Node(path, chain, n)].doc
        /\ fs[Node(path, chain, n)].doc["extends"] = chain[n + 1]
        /\ chain[n + 1] # None /\ chain[n + 1] # path /\ fs[chain[n + 1]].parses
        /\ \A j \in 1 .. n : chain[j] # chain[n + 1]
    BY <2>0 DEF Chained, Leads
  <2>2. chain[n + 1] \in DOMAIN fs
    BY <2>0
  <2>3. chain[n + 1] \notin ToSet(SubSeq(chain, 1, n))
    <3>1. \A j \in DOMAIN SubSeq(chain, 1, n) : j \in 1 .. n /\ SubSeq(chain, 1, n)[j] = chain[j]
      BY <2>0
    <3> QED
      BY <2>1, <3>1 DEF ToSet
  <2>4. SubSeq(chain, 1, n + 1) = Append(SubSeq(chain, 1, n), chain[n + 1])
    BY <2>0
  <2>5. Node(path, chain, n + 1) = chain[n + 1]
    BY <2>0 DEF Node
  <2>6. Upto(n).open /\ Upto(n).at = Node(path, chain, n) /\ Upto(n).chain = SubSeq(chain, 1, n)
    OBVIOUS
  <2>7. Further(fs, path, Upto(n)) = [Upto(n) EXCEPT !.chain = Append(@, chain[n + 1]), !.at = chain[n + 1]]
    BY <2>1, <2>2, <2>3, <2>6 DEF Further, Follow
  <2> QED
    BY <2>4, <2>5, <2>7
<1>7. ASSUME NEW n \in S PROVE n + 1 \in S
  <2> SUFFICES ASSUME n + 1 <= last PROVE w[n + 1] = IF n + 1 <= m THEN Upto(n + 1) ELSE Over
    OBVIOUS
  <2>1. n \in 0 .. last - 1 /\ n <= last
    BY <1>1
  <2>2. w[n + 1] = Further(fs, path, w[n]) /\ w[n] = IF n <= m THEN Upto(n) ELSE Over
    BY <1>2, <2>1
  <2> HIDE DEF Upto, Over
  <2>3. CASE n + 1 <= m
    BY <1>1, <1>6, <2>2, <2>3
  <2>4. CASE n = m
    BY <1>1, <1>5, <2>2, <2>4
  <2>5. CASE n > m
    BY <1>1, <1>4, <2>2, <2>5
  <2> QED
    BY <1>1, <2>3, <2>4, <2>5
<1>8. S \in SUBSET Nat
  OBVIOUS
<1> HIDE DEF S
<1>9. last \in S
  BY <1>1, <1>3, <1>7, <1>8, CountingUp
<1>10. w[last] = Over
  BY <1>1, <1>9 DEF S
<1> QED
  BY <1>10 DEF resolve_extends_chain, w, Chained

\* Files that agree on a chain give the same chain.
SameThere(fs, gs, path, chain) ==
    \A p \in {path} \cup ToSet(chain) : p \in DOMAIN fs /\ p \in DOMAIN gs /\ gs[p] = fs[p]

LEMMA SameChain ==
  ASSUME NEW fs, NEW gs, IsFiniteSet(DOMAIN fs), IsFiniteSet(DOMAIN gs),
         NEW path \in DOMAIN fs, resolve_extends_chain(fs, path).exit = Ok,
         SameThere(fs, gs, path, resolve_extends_chain(fs, path).chain)
  PROVE  resolve_extends_chain(gs, path) = resolve_extends_chain(fs, path)
<1> DEFINE chain == resolve_extends_chain(fs, path).chain
<1>1. chain \in Seq(DOMAIN fs) /\ Chained(fs, path, chain)
  BY ResolvedIsChained
<1>2. resolve_extends_chain(fs, path) = [chain |-> chain, exit |-> Ok]
  BY <1>1, ChainedIsResolved
<1> HIDE DEF chain
<1>3. /\ \A i \in 1 .. Len(chain) : chain[i] \in DOMAIN gs /\ gs[chain[i]] = fs[chain[i]]
      /\ path \in DOMAIN gs /\ gs[path] = fs[path] /\ Len(chain) \in Nat
  BY <1>1 DEF SameThere, ToSet, chain
<1>4. \A i \in 0 .. Len(chain) : gs[Node(path, chain, i)] = fs[Node(path, chain, i)]
  BY <1>3 DEF Node
<1>5. Ends(gs, path, chain) /\ gs[path].parses
  BY <1>1, <1>3, <1>4 DEF Chained, Ends
<1>6. Leads(gs, path, chain)
  <2> SUFFICES ASSUME NEW i \in 1 .. Len(chain)
               PROVE  /\ "extends" \in DOMAIN gs[Node(path, chain, i - 1)].doc
                      /\ gs[Node(path, chain, i - 1)].doc["extends"] = chain[i]
                      /\ chain[i] # None /\ chain[i] # path /\ gs[chain[i]].parses
                      /\ \A j \in 1 .. i - 1 : chain[j] # chain[i]
    BY DEF Leads
  <2>1. gs[Node(path, chain, i - 1)] = fs[Node(path, chain, i - 1)]
    BY <1>3, <1>4
  <2> QED
    BY <1>1, <1>3, <2>1 DEF Chained, Leads
<1>7. chain \in Seq(DOMAIN gs)
  <2>1. chain \in [1 .. Len(chain) -> DOMAIN gs]
    BY <1>1, <1>3
  <2> QED
    BY <1>3, <2>1
<1> QED
  BY <1>2, <1>3, <1>5, <1>6, <1>7, ChainedIsResolved DEF Chained

\* Files that agree on what a spec is made of make the same of it.
LEMMA MergedIsResolved ==
  ASSUME NEW fs, NEW path, load_one(fs, path).exit = Ok
  PROVE  /\ path \in DOMAIN fs
         /\ resolve_extends_chain(fs, path).exit = Ok
         /\ load_one(fs, path) = load_spec(fs, path)
         /\ load_one(fs, path).chain = resolve_extends_chain(fs, path).chain
<1>1. load_one(fs, path) = load_spec(fs, path)
  <2> DEFINE refused == path \in DOMAIN fs /\ fs[path].parses /\ "ocx_install" \in DOMAIN fs[path].doc
             refusal == [exit |-> UsageError, doc |-> <<>>, chain |-> <<>>]
  <2>1. load_one(fs, path) = IF refused THEN refusal ELSE load_spec(fs, path)
    BY DEF load_one
  <2>2. refusal.exit # Ok
    BY DEF UsageError, Ok
  <2> HIDE DEF refused, refusal
  <2> QED
    BY <2>1, <2>2
<1> DEFINE merged == resolve_and_merge(fs, path)
           doc == merged.doc
           code == IF merged.exit # Ok THEN merged.exit ELSE Gates(doc)
<1>2. load_spec(fs, path) = [merged EXCEPT !.exit = code]
  BY DEF load_spec
<1>3. code = Ok => merged.exit = Ok
  OBVIOUS
<1>4. \E d, c, e : merged = [exit |-> e, doc |-> d, chain |-> c]
  <2>1. CASE path \notin DOMAIN fs
    BY <2>1 DEF resolve_and_merge
  <2>2. CASE path \in DOMAIN fs
    <3> DEFINE walked == resolve_extends_chain(fs, path)
               layers == <<path>> \o walked.chain
               both == shallow_merge([i \in DOMAIN layers |-> fs[layers[i]].doc])
               whole == [k \in DOMAIN both \ {"extends"} |-> both[k]]
    <3>1. merged = IF walked.exit # Ok THEN [exit |-> walked.exit, doc |-> <<>>, chain |-> walked.chain]
                   ELSE [exit |-> Ok, chain |-> walked.chain, doc |-> whole]
      BY <2>2 DEF resolve_and_merge
    <3> HIDE DEF merged, walked, whole
    <3> QED
      BY <3>1
  <2> QED
    BY <2>1, <2>2
<1> HIDE DEF merged, code
<1>5. load_spec(fs, path).exit = code /\ load_spec(fs, path).chain = merged.chain
  BY <1>2, <1>4
<1>6. merged.exit = Ok
  BY <1>1, <1>3, <1>5
<1>7. path \in DOMAIN fs
  <2>1. path \notin DOMAIN fs => merged.exit = NotFound
    BY DEF resolve_and_merge, merged
  <2> QED
    BY <1>6, <2>1 DEF NotFound, Ok
<1>8. resolve_extends_chain(fs, path).exit = Ok /\ merged.chain = resolve_extends_chain(fs, path).chain
  <2> DEFINE walked == resolve_extends_chain(fs, path)
             layers == <<path>> \o walked.chain
             both == shallow_merge([i \in DOMAIN layers |-> fs[layers[i]].doc])
             whole == [k \in DOMAIN both \ {"extends"} |-> both[k]]
  <2>1. merged = IF walked.exit # Ok THEN [exit |-> walked.exit, doc |-> <<>>, chain |-> walked.chain]
                 ELSE [exit |-> Ok, chain |-> walked.chain, doc |-> whole]
    BY <1>7 DEF resolve_and_merge, merged
  <2> HIDE DEF walked, whole
  <2> QED
    BY <1>6, <2>1 DEF walked
<1> QED
  BY <1>1, <1>5, <1>7, <1>8

LEMMA SameLoad ==
  ASSUME NEW fs, NEW gs, IsFiniteSet(DOMAIN fs), IsFiniteSet(DOMAIN gs), DOMAIN fs \subseteq Paths,
         NEW path, load_one(fs, path).exit = Ok,
         SameThere(fs, gs, path, load_one(fs, path).chain)
  PROVE  load_one(gs, path) = load_one(fs, path)
<1> DEFINE walked == resolve_extends_chain(fs, path)
<1>1. /\ path \in DOMAIN fs /\ walked.exit = Ok /\ load_one(fs, path) = load_spec(fs, path)
      /\ load_one(fs, path).chain = walked.chain
  BY MergedIsResolved
<1>2. resolve_extends_chain(gs, path) = walked /\ walked.chain \in Seq(DOMAIN fs)
  BY <1>1, SameChain, ResolvedIsChained
<1> DEFINE layers == <<path>> \o walked.chain
           docs(hs) == [i \in DOMAIN layers |-> hs[layers[i]].doc]
<1>3. path \in DOMAIN gs /\ gs[path] = fs[path]
  BY <1>1 DEF SameThere
<1>4. \A i \in DOMAIN layers : gs[layers[i]] = fs[layers[i]]
  <2> HIDE DEF walked
  <2>0. \A i \in 1 .. Len(walked.chain) : gs[walked.chain[i]] = fs[walked.chain[i]]
    BY <1>1, <1>2 DEF SameThere, ToSet
  <2> SUFFICES ASSUME NEW i \in DOMAIN layers PROVE gs[layers[i]] = fs[layers[i]]
    OBVIOUS
  <2>1. i \in 1 .. Len(walked.chain) + 1 /\ Len(walked.chain) \in Nat
    BY <1>1, <1>2
  <2>2. CASE i = 1
    BY <1>2, <1>3, <2>2
  <2>3. CASE i # 1
    <3>1. layers[i] = walked.chain[i - 1] /\ i - 1 \in 1 .. Len(walked.chain)
      BY <1>1, <1>2, <2>1, <2>3
    <3> QED
      BY <2>0, <3>1
  <2> QED
    BY <2>2, <2>3
<1>5. docs(gs) = docs(fs)
  <2> HIDE DEF layers
  <2> QED
    BY <1>4
<1>6. resolve_and_merge(gs, path) = resolve_and_merge(fs, path)
  <2> DEFINE Whole(both) == [k \in DOMAIN both \ {"extends"} |-> both[k]]
             Read(hs, w) == shallow_merge([i \in DOMAIN (<<path>> \o w.chain) |-> hs[(<<path>> \o w.chain)[i]].doc])
             Made(hs, w) == IF w.exit # Ok THEN [exit |-> w.exit, doc |-> <<>>, chain |-> w.chain]
                            ELSE [exit |-> Ok, chain |-> w.chain, doc |-> Whole(Read(hs, w))]
  <2>1. resolve_and_merge(fs, path) = Made(fs, walked)
    BY <1>1 DEF resolve_and_merge
  <2>2. resolve_and_merge(gs, path) = Made(gs, resolve_extends_chain(gs, path))
    BY <1>3 DEF resolve_and_merge
  <2>3. Read(gs, walked) = shallow_merge(docs(gs)) /\ Read(fs, walked) = shallow_merge(docs(fs))
    OBVIOUS
  <2>4. Read(gs, walked) = Read(fs, walked)
    <3> HIDE DEF docs, Read
    <3> QED
      BY <1>5, <2>3
  <2>5. Made(gs, walked) = Made(fs, walked)
    <3> HIDE DEF Read, Whole, walked
    <3> QED
      BY <2>4
  <2> HIDE DEF Made, walked
  <2> QED
    BY <1>2, <2>1, <2>2, <2>5
<1>7. load_spec(gs, path) = load_spec(fs, path)
  BY <1>6 DEF load_spec
<1>8. ~(fs[path].parses /\ "ocx_install" \in DOMAIN fs[path].doc)
  <2>1. (fs[path].parses /\ "ocx_install" \in DOMAIN fs[path].doc)
            => load_one(fs, path) = [exit |-> UsageError, doc |-> <<>>, chain |-> <<>>]
    BY <1>1 DEF load_one
  <2> QED
    BY <2>1 DEF UsageError, Ok
<1> QED
  BY <1>1, <1>3, <1>7, <1>8 DEF load_one

-----------------------------------------------------------------------------
(* What a spec's triggers watch.                                              *)

Sees(triggers, c) == c \in triggers.files \/ \E t \in triggers.trees : Under(c, t)

LEMMA UnderItsDirectory ==
  ASSUME NEW path \in Paths, dir(path) # <<>>
  PROVE  Under(path, dir(path))
<1>1. dir(path) = SubSeq(path, 1, Len(path) - 1) /\ Len(path) \in Nat
  BY DEF dir, Front, Paths
<1>2. Len(path) # 0
  BY <1>1 DEF Paths
<1>3. /\ Len(dir(path)) = Len(path) - 1 /\ dir(path) \in Seq(Seq(Nat))
      /\ \A i \in 1 .. Len(path) - 1 : dir(path)[i] = path[i]
  BY <1>1, <1>2 DEF Paths
<1>4. dir(path) # path
  BY <1>1, <1>2, <1>3
<1>5. IsPrefix(dir(path), path)
  BY <1>1, <1>2, <1>3 DEF IsPrefix, Paths
<1> QED
  BY <1>4, <1>5 DEF Under, IsStrictPrefix

LEMMA SlotSeesItsChain ==
  ASSUME NEW path \in Paths, NEW chain, NEW trees, NEW c \in {path} \cup ToSet(chain)
  PROVE  LET s == slot(path, chain)
             own == subtree_entries(s, trees)
         IN  \/ c \in own.files \cup extends_entries(s)
             \/ \E t \in own.trees : Under(c, t)
<1>1. c = path /\ dir(path) # <<>> => Under(c, dir(path))
  BY UnderItsDirectory
<1> QED
  BY <1>1 DEF slot, subtree_entries, extends_entries

LEMMA MirrorSeesItsChain ==
  ASSUME NEW path \in Paths, NEW chain, NEW c \in {path} \cup ToSet(chain), NEW stem
  PROVE  Sees(trigger_paths(slot(path, chain), RootTrees, stem), c)
BY SlotSeesItsChain DEF trigger_paths, Sees

LEMMA GuardSeesEveryChain ==
  ASSUME NEW slots, NEW by, NEW path \in Paths, NEW chain, slot(path, chain) \in slots,
         NEW c \in {path} \cup ToSet(chain)
  PROVE  Sees(render_verify_generated(by, slots).triggers, c)
<1> DEFINE s == slot(path, chain)
           own == {subtree_entries(z, RootTrees) : z \in slots}
           mine == subtree_entries(s, RootTrees)
           above == {extends_entries(z) : z \in slots}
           bases == extends_entries(s)
<1>1. c \in mine.files \cup bases \/ \E t \in mine.trees : Under(c, t)
  BY SlotSeesItsChain
<1>2. mine \in own
  OBVIOUS
<1>3. /\ render_verify_generated(by, slots).triggers.files
            = (UNION {o.files : o \in own}) \cup (UNION above)
      /\ render_verify_generated(by, slots).triggers.trees = UNION {o.trees : o \in own}
  BY DEF render_verify_generated, Workflow
<1>4. bases \in above
  OBVIOUS
<1> DEFINE triggers == render_verify_generated(by, slots).triggers
<1> HIDE DEF own, mine, above, bases, s, triggers
<1>5. mine.files \subseteq triggers.files
  BY <1>2, <1>3 DEF triggers
<1>6. mine.trees \subseteq triggers.trees
  BY <1>2, <1>3 DEF triggers
<1>7. bases \subseteq triggers.files
  BY <1>3, <1>4 DEF triggers
<1>8. Sees(triggers, c)
  BY <1>1, <1>5, <1>6, <1>7 DEF Sees
<1> QED
  BY <1>8 DEF triggers

-----------------------------------------------------------------------------
(* A green guard.                                                             *)

IsWorkflow(w) ==
    w = [by |-> w.by, specs |-> w.specs, triggers |-> w.triggers, schedule |-> w.schedule,
         grants |-> w.grants, body |-> w.body, pins |-> w.pins, actions |-> w.actions,
         logic |-> w.logic]

Agrees(fs, fl, by) ==
    /\ Places(Placed(fs, Named(fl[Guard])))
    /\ check_drift(render(by, Placed(fs, Named(fl[Guard]))), fl)
Believed(fl, g, by) == Guard \in DOMAIN fl /\ g # None /\ g.green /\ g.by = by

FilesOK(fs) == IsFiniteSet(DOMAIN fs) /\ DOMAIN fs \subseteq Paths
FlowsOK(fl) ==
    /\ fl = [k \in DOMAIN fl |-> fl[k]]
    /\ Guard \in DOMAIN fl => IsWorkflow(fl[Guard]) /\ fl[Guard].triggers.all

\* A verdict is of a tool no newer than the locked one, and one that is believed holds.
GuardOK ==
    /\ FilesOK(files) /\ FlowsOK(flows)
    /\ tool \in Nat
    /\ guard # None => guard.by \in Nat /\ guard.by <= tool
    /\ Believed(flows, guard, tool) => Agrees(files, flows, tool)

LEMMA GuardIsVerdict == GuardOK => GreenIsCurrent
  BY DEF GuardOK, GreenIsCurrent, Believed, Agrees

LEMMA PlacedOf ==
  ASSUME NEW fs, NEW specs
  PROVE  Placed(fs, specs) = {[doc |-> load_one(fs, p).doc, exit |-> load_one(fs, p).exit,
                               slot |-> slot(p, load_one(fs, p).chain)] : p \in specs}
<1> DEFINE L(p) == load_one(fs, p)
           Made(loaded) == [doc |-> loaded[2].doc, exit |-> loaded[2].exit,
                            slot |-> slot(loaded[1], loaded[2].chain)]
           Of(p) == [doc |-> L(p).doc, exit |-> L(p).exit, slot |-> slot(p, L(p).chain)]
<1>1. Placed(fs, specs) = {Made(loaded) : loaded \in {<<p, L(p)>> : p \in specs}}
  BY DEF Placed
<1>2. \A p \in specs : Made(<<p, L(p)>>) = Of(p)
  <2> HIDE DEF L
  <2> QED
    OBVIOUS
<1> HIDE DEF Made, Of, L
<1>3. {Made(loaded) : loaded \in {<<p, L(p)>> : p \in specs}} = {Made(<<p, L(p)>>) : p \in specs}
  OBVIOUS
<1>4. {Made(<<p, L(p)>>) : p \in specs} = {Of(p) : p \in specs}
  BY <1>2
<1>5. Placed(fs, specs) = {Of(p) : p \in specs}
  BY <1>1, <1>3, <1>4
<1> QED
  BY <1>5 DEF Of, L

LEMMA CheckAgrees ==
  ASSUME NEW fs, NEW existing, NEW fl, NEW by, Check(fs, existing, fl, by)
  PROVE  Agrees(fs, fl, by)
  BY DEF Check, Agrees

\* The fields of what the guard compares.
LEMMA SameButPins ==
  ASSUME NEW v, NEW w, IsWorkflow(v), IsWorkflow(w), normalize_for_drift(v) = normalize_for_drift(w)
  PROVE  /\ v.specs = w.specs /\ v.triggers = w.triggers
<1> DEFINE Bare(x) == [x EXCEPT !.pins = None]
<1>1. Bare(v).specs = v.specs /\ Bare(v).triggers = v.triggers
  BY DEF IsWorkflow
<1>2. Bare(w).specs = w.specs /\ Bare(w).triggers = w.triggers
  BY DEF IsWorkflow
<1>3. Bare(v) = Bare(w)
  BY DEF normalize_for_drift
<1> HIDE DEF Bare
<1> QED
  BY <1>1, <1>2, <1>3

LEMMA RenderedGuard ==
  ASSUME NEW by, NEW placed, Guard \in DOMAIN render(by, placed)
  PROVE  /\ render(by, placed)[Guard] = render_verify_generated(by, {one.slot : one \in placed})
         /\ IsWorkflow(render(by, placed)[Guard])
         /\ render(by, placed)[Guard].triggers.all
<1>1. render(by, placed)[Guard] = render_verify_generated(by, {one.slot : one \in placed})
  BY DEF render
<1>2. \A slots : IsWorkflow(render_verify_generated(by, slots)) /\ render_verify_generated(by, slots).triggers.all
  BY DEF render_verify_generated, Workflow, IsWorkflow
<1> QED
  BY <1>1, <1>2

\* A guard that agrees watches every file its specs are made of.
LEMMA AgreedGuardSees ==
  ASSUME NEW fs, NEW fl, NEW by, Guard \in DOMAIN fl, FlowsOK(fl), Agrees(fs, fl, by), FilesOK(fs),
         NEW path \in Named(fl[Guard]), NEW c \in {path} \cup ToSet(load_one(fs, path).chain)
  PROVE  Sees(fl[Guard].triggers, c)
<1> DEFINE placed == Placed(fs, Named(fl[Guard]))
           one == load_one(fs, path)
           slots == {z.slot : z \in placed}
           rendered == render(by, placed)
<1>1. [doc |-> one.doc, exit |-> one.exit, slot |-> slot(path, one.chain)] \in placed
  BY PlacedOf
<1>2. one.exit = Ok /\ slot(path, one.chain) \in slots
  <2> HIDE DEF one, placed
  <2> QED
    BY <1>1 DEF Agrees, Places, placed
<1>3. path \in Paths
  BY <1>2, MergedIsResolved DEF FilesOK
<1>4. Guard \in DOMAIN rendered /\ normalize_for_drift(fl[Guard]) = normalize_for_drift(rendered[Guard])
  <2> HIDE DEF rendered
  <2>1. check_drift(rendered, fl)
    BY DEF Agrees, rendered
  <2> QED
    BY <2>1 DEF check_drift, stale_generated
<1>5. fl[Guard].triggers = rendered[Guard].triggers
  BY <1>4, RenderedGuard, SameButPins DEF FlowsOK
<1>6. Sees(render_verify_generated(by, slots).triggers, c)
  <2> HIDE DEF slots
  <2> QED
    BY <1>2, <1>3, GuardSeesEveryChain
<1> QED
  BY <1>4, <1>5, <1>6, RenderedGuard

LEMMA AgreedSpecLoads ==
  ASSUME NEW fs, NEW fl, NEW by, Agrees(fs, fl, by), NEW p \in Named(fl[Guard])
  PROVE  load_one(fs, p).exit = Ok
<1> DEFINE one == load_one(fs, p)
           specs == Named(fl[Guard])
<1>1. [doc |-> one.doc, exit |-> one.exit, slot |-> slot(p, one.chain)] \in Placed(fs, specs)
  BY PlacedOf
<1> HIDE DEF one, specs
<1>2. one.exit = Ok
  BY <1>1 DEF Agrees, Places, specs
<1> QED
  BY <1>2 DEF one

\* A change outside a spec's own chain leaves what it says.
LEMMA LoadStays ==
  ASSUME NEW fs, NEW gs, FilesOK(fs), FilesOK(gs), NEW p, load_one(fs, p).exit = Ok,
         NEW c, c \notin {p} \cup ToSet(load_one(fs, p).chain),
         \A q \in DOMAIN fs \ {c} : q \in DOMAIN gs /\ gs[q] = fs[q]
  PROVE  load_one(gs, p) = load_one(fs, p)
<1> DEFINE one == load_one(fs, p)
<1>1. /\ p \in DOMAIN fs /\ one.chain = resolve_extends_chain(fs, p).chain
      /\ resolve_extends_chain(fs, p).exit = Ok
  BY MergedIsResolved
<1>2. one.chain \in Seq(DOMAIN fs)
  BY <1>1, ResolvedIsChained DEF FilesOK
<1>3. SameThere(fs, gs, p, one.chain)
  <2> HIDE DEF one
  <2>1. ToSet(one.chain) \subseteq DOMAIN fs
    BY <1>2 DEF ToSet
  <2> QED
    BY <1>1, <2>1 DEF SameThere, one
<1> QED
  BY <1>3, SameLoad DEF FilesOK

\* A change to a file the guard does not watch changes nothing the guard renders.
LEMMA UnseenChange ==
  ASSUME NEW fs, NEW gs, NEW fl, NEW by, NEW c, FilesOK(fs), FilesOK(gs), FlowsOK(fl),
         Guard \in DOMAIN fl, Agrees(fs, fl, by), ~Sees(fl[Guard].triggers, c),
         \A p \in DOMAIN fs \ {c} : p \in DOMAIN gs /\ gs[p] = fs[p]
  PROVE  Agrees(gs, fl, by)
<1> DEFINE specs == Named(fl[Guard])
<1>1. ASSUME NEW p \in specs PROVE load_one(gs, p) = load_one(fs, p)
  <2>1. load_one(fs, p).exit = Ok
    BY AgreedSpecLoads
  <2>2. c \notin {p} \cup ToSet(load_one(fs, p).chain)
    BY AgreedGuardSees
  <2> QED
    BY <2>1, <2>2, LoadStays
<1>2. Placed(gs, specs) = Placed(fs, specs)
  <2> DEFINE Of(one, p) == [doc |-> one.doc, exit |-> one.exit, slot |-> slot(p, one.chain)]
  <2>1. /\ Placed(fs, specs) = {Of(load_one(fs, p), p) : p \in specs}
        /\ Placed(gs, specs) = {Of(load_one(gs, p), p) : p \in specs}
    BY PlacedOf
  <2> HIDE DEF Of, specs
  <2> QED
    BY <1>1, <2>1
<1> QED
  BY <1>2 DEF Agrees

\* A commit the guard watches leaves its verdict on what the commit left.
LEMMA WokenGuard ==
  ASSUME NEW changed, Commit(changed), Guard \in DOMAIN flows', Triggers(flows'[Guard], changed)
  PROVE  /\ guard'.by = tool'
         /\ Believed(flows', guard', tool') => Agrees(files', flows', tool')
<1>1. guard' = [green |-> Check(files', scripts', flows', tool'), by |-> tool']
  BY DEF Commit
<1>2. guard'.by = tool' /\ guard'.green = Check(files', scripts', flows', tool')
  BY <1>1
<1>3. Check(files', scripts', flows', tool') => Agrees(files', flows', tool')
  BY DEF Check, Agrees
<1> QED
  BY <1>2, <1>3 DEF Believed

LEMMA GuardAfter ==
  ASSUME NEW changed, Commit(changed)
  PROVE  \/ /\ Guard \in DOMAIN flows' /\ Triggers(flows'[Guard], changed)
            /\ guard' = [green |-> Check(files', scripts', flows', tool'), by |-> tool']
         \/ ~(Guard \in DOMAIN flows' /\ Triggers(flows'[Guard], changed)) /\ guard' = guard
  BY DEF Commit

\* What a commit leaves, when it left the tool alone.
LEMMA CommitLeaves ==
  ASSUME GuardOK, NEW changed, Commit(changed), FilesOK(files'), FlowsOK(flows'), tool' = tool,
         Guard \in DOMAIN flows' /\ ~Triggers(flows'[Guard], changed) /\ Believed(flows', guard, tool)
             => Agrees(files', flows', tool)
  PROVE  GuardOK'
<1>1. CASE Guard \in DOMAIN flows' /\ Triggers(flows'[Guard], changed)
  <2>1. guard'.by = tool' /\ (Believed(flows', guard', tool') => Agrees(files', flows', tool'))
    BY <1>1, WokenGuard
  <2> QED
    BY <2>1 DEF GuardOK
<1>2. CASE ~(Guard \in DOMAIN flows' /\ Triggers(flows'[Guard], changed))
  <2>1. guard' = guard
    BY <1>2, GuardAfter
  <2>2. Believed(flows', guard', tool') => Agrees(files', flows', tool')
    BY <1>2, <2>1 DEF Believed
  <2> QED
    BY <2>1, <2>2 DEF GuardOK
<1> QED
  BY <1>1, <1>2

LEMMA FileCommit ==
  ASSUME GuardOK, NEW c, Commit(OnlyFile(c)), UNCHANGED <<flows, tool>>, FilesOK(files'),
         \A p \in DOMAIN files \ {c} : p \in DOMAIN files' /\ files'[p] = files[p]
  PROVE  GuardOK'
<1>1. ASSUME Guard \in DOMAIN flows', ~Triggers(flows'[Guard], OnlyFile(c)), Believed(flows', guard, tool)
      PROVE  Agrees(files', flows', tool)
  <2>1. Believed(flows, guard, tool) /\ Guard \in DOMAIN flows
    BY <1>1
  <2>2. ~Sees(flows[Guard].triggers, c)
    BY <1>1 DEF Triggers, OnlyFile, Sees
  <2> QED
    BY <2>1, <2>2, UnseenChange DEF GuardOK
<1> QED
  BY <1>1, CommitLeaves DEF GuardOK

\* The guard watches every workflow, its own too.
LEMMA FlowCommit ==
  ASSUME GuardOK, NEW changed, Commit(changed), changed.flows # {}, UNCHANGED <<files, tool>>,
         FlowsOK(flows')
  PROVE  GuardOK'
  BY CommitLeaves DEF GuardOK, FlowsOK, Triggers

LEMMA FilesStep ==
  ASSUME GuardOK,
         \/ \E path \in DOMAIN Candidates : \E key \in DOMAIN Candidates[path] :
              EditKey(path, key) \/ DropKey(path, key)
         \/ \E path \in DOMAIN Fresh : CreateFile(path)
         \/ \E path \in DOMAIN files : DeleteFile(path)
  PROVE  GuardOK'
<1>1. ASSUME NEW path \in Paths, NEW doc, Change(path, doc)
      PROVE  GuardOK'
  <2>1. files' = Put(files, path, [parses |-> TRUE, doc |-> doc]) /\ Commit(OnlyFile(path)) /\ UNCHANGED <<flows, tool>>
    BY <1>1 DEF Change
  <2>2. DOMAIN files' = DOMAIN files \cup {path} /\ \A p \in DOMAIN files \ {path} : files'[p] = files[p]
    <3> DEFINE held == [parses |-> TRUE, doc |-> doc]
    <3> HIDE DEF held
    <3>1. files' = Put(files, path, held)
      BY <2>1 DEF held
    <3> QED
      BY <3>1 DEF Put
  <2>3. FilesOK(files')
    BY <2>2, FS_AddElement DEF FilesOK, GuardOK
  <2> QED
    BY <2>1, <2>2, <2>3, FileCommit
<1>2. ASSUME NEW path \in DOMAIN files, DeleteFile(path)
      PROVE  GuardOK'
  <2>1. files' = [p \in DOMAIN files \ {path} |-> files[p]] /\ Commit(OnlyFile(path)) /\ UNCHANGED <<flows, tool>>
    BY <1>2 DEF DeleteFile
  <2>2. DOMAIN files' = DOMAIN files \ {path} /\ \A p \in DOMAIN files \ {path} : files'[p] = files[p]
    BY <2>1
  <2>3. FilesOK(files')
    BY <2>2, FS_RemoveElement DEF FilesOK, GuardOK
  <2> QED
    BY <2>1, <2>2, <2>3, FileCommit
<1>3. DOMAIN files \subseteq Paths /\ DOMAIN Fresh \subseteq Paths
  BY FilesAssumption DEF GuardOK, FilesOK
<1> QED
  BY <1>1, <1>2, <1>3 DEF EditKey, DropKey, CreateFile

LEMMA ScriptStep ==
  ASSUME GuardOK, NEW path, ToggleScript(path)
  PROVE  GuardOK'
<1>1. Commit(OnlyFile(path)) /\ UNCHANGED <<files, flows, tool>>
  BY DEF ToggleScript
<1> QED
  BY <1>1, CommitLeaves DEF GuardOK

LEMMA HandEditStep ==
  ASSUME GuardOK, NEW key \in DOMAIN flows, HandEdit(key)
  PROVE  GuardOK'
<1>1. Commit(OnlyFlow(key)) /\ UNCHANGED <<files, tool>> /\ OnlyFlow(key).flows # {}
  BY DEF HandEdit, OnlyFlow
<1>2. CASE flows' = [k \in DOMAIN flows \ {key} |-> flows[k]]
  <2>1. FlowsOK(flows')
    BY <1>2 DEF GuardOK, FlowsOK
  <2> QED
    BY <1>1, <2>1, FlowCommit
<1>3. ASSUME NEW w,
             \/ w \in {[flows[key] EXCEPT !.pins = "bumped"], [flows[key] EXCEPT !.actions = "other"],
                       [flows[key] EXCEPT !.logic = "other"]}
             \/ \E S \in SUBSET flows[key].specs : w = [flows[key] EXCEPT !.specs = S],
             flows' = [flows EXCEPT ![key] = w]
      PROVE  GuardOK'
  <2>1. IsWorkflow(flows[key]) => IsWorkflow(w) /\ w.triggers = flows[key].triggers
    BY <1>3 DEF IsWorkflow
  <2>2. /\ flows' = [k \in DOMAIN flows |-> flows'[k]] /\ DOMAIN flows' = DOMAIN flows
        /\ flows'[key] = w /\ \A k \in DOMAIN flows \ {key} : flows'[k] = flows[k]
    BY <1>3
  <2>3. FlowsOK(flows')
    BY <2>1, <2>2 DEF GuardOK, FlowsOK
  <2> QED
    BY <1>1, <2>3, FlowCommit
<1> QED
  BY <1>2, <1>3 DEF HandEdit

LEMMA UpgradeStep == ASSUME GuardOK, Upgrade PROVE GuardOK'
<1> DEFINE changed == [files |-> {}, flows |-> {}]
<1>1. tool' = tool + 1 /\ UNCHANGED <<files, flows>> /\ Commit(changed)
  BY DEF Upgrade
<1>2. ~Triggers(flows'[Guard], changed)
  BY DEF Triggers
<1>3. guard' = guard
  BY <1>1, <1>2, GuardAfter
<1>4. guard # None => guard.by \in Nat /\ guard.by <= tool' /\ guard.by # tool'
  BY <1>1 DEF GuardOK
<1> QED
  BY <1>1, <1>3, <1>4 DEF GuardOK, Believed

LEMMA GenerateStep == ASSUME GuardOK, NEW specs, Generate(specs) PROVE GuardOK'
<1> DEFINE placed == Placed(files, specs)
           rendered == render(tool, placed)
           changed == [files |-> {}, flows |-> {k \in DOMAIN flows' : k \notin DOMAIN flows \/ flows'[k] # flows[k]}]
<1>1. /\ flows' # flows /\ UNCHANGED <<files, tool>> /\ Commit(changed)
      /\ \E n \in 1 .. Cardinality(DOMAIN rendered) : flows' = write_files(rendered, n)
  BY DEF Generate
<1> HIDE DEF placed
<1>2. PICK n : flows' = write_files(rendered, n)
  BY <1>1
<1> DEFINE written == {k \in DOMAIN rendered : Cardinality({j \in DOMAIN rendered : KeyLT(j, k)}) < n}
<1>3. /\ flows' = [k \in DOMAIN flows \cup written |-> IF k \in written THEN rendered[k] ELSE flows[k]]
      /\ written \subseteq DOMAIN rendered
  BY <1>2 DEF write_files
<1> HIDE DEF written, rendered
<1>4. /\ flows' = [k \in DOMAIN flows' |-> flows'[k]] /\ DOMAIN flows \subseteq DOMAIN flows'
      /\ \A k \in DOMAIN flows' : flows'[k] = IF k \in written THEN rendered[k] ELSE flows[k]
      /\ DOMAIN flows' = DOMAIN flows \cup written
  BY <1>3
<1>5. FlowsOK(flows')
  <2>1. CASE Guard \in written
    <3>1. IsWorkflow(rendered[Guard]) /\ rendered[Guard].triggers.all
      BY <1>3, <2>1, RenderedGuard DEF rendered
    <3> QED
      BY <1>4, <2>1, <3>1 DEF FlowsOK
  <2>2. CASE Guard \notin written
    BY <1>4, <2>2 DEF FlowsOK, GuardOK
  <2> QED
    BY <2>1, <2>2
<1>6. changed.flows # {}
  <2> SUFFICES ASSUME \A k \in DOMAIN flows' : k \in DOMAIN flows /\ flows'[k] = flows[k] PROVE FALSE
    OBVIOUS
  <2>1. DOMAIN flows' = DOMAIN flows
    BY <1>4
  <2>2. flows = [k \in DOMAIN flows |-> flows[k]]
    BY DEF GuardOK, FlowsOK
  <2>3. flows' = flows
    BY <1>4, <2>1, <2>2
  <2> QED
    BY <1>1, <2>3
<1> HIDE DEF changed
<1> QED
  BY <1>1, <1>5, <1>6, FlowCommit

LEMMA RemoveStaleStep == ASSUME GuardOK, NEW specs, RemoveStale(specs) PROVE GuardOK'
<1>1. PICK stale \in {stale_generated(render(tool, Placed(files, specs)), flows)} :
        /\ stale # {}
        /\ flows' = [k \in DOMAIN flows \ stale |-> flows[k]]
        /\ UNCHANGED <<files, scripts, tool>>
        /\ Commit([files |-> {}, flows |-> stale])
  BY DEF RemoveStale
<1> DEFINE changed == [files |-> {}, flows |-> stale]
<1>2. FlowsOK(flows')
  BY <1>1 DEF GuardOK, FlowsOK
<1>3. changed.flows # {} /\ Commit(changed) /\ UNCHANGED <<files, tool>>
  BY <1>1
<1> HIDE DEF changed
<1> QED
  BY <1>2, <1>3, FlowCommit

LEMMA GuardStep == GuardOK /\ [CiNext]_ciVars => GuardOK'
<1> SUFFICES ASSUME GuardOK, [CiNext]_ciVars PROVE GuardOK'
  OBVIOUS
<1>1. UNCHANGED repo => GuardOK'
  BY DEF GuardOK, repo, FilesOK, FlowsOK, Believed, Agrees
<1>2. ASSUME NEW key \in DOMAIN flows, Start(key) PROVE UNCHANGED repo
  BY <1>2 DEF Start
<1>3. ASSUME NEW leg, NEW result, RunLeg(leg, result) PROVE UNCHANGED repo
  BY <1>3 DEF RunLeg
<1>4. PushRun \/ EndRun \/ UNCHANGED ciVars => UNCHANGED repo
  BY DEF PushRun, EndRun, ciVars
<1> QED
  BY <1>1, <1>2, <1>3, <1>4, FilesStep, ScriptStep, HandEditStep, UpgradeStep, GenerateStep, RemoveStaleStep
  DEF CiNext

\* A guard names the specs it was rendered from.
LEMMA GuardNamesItsSpecs ==
  ASSUME NEW fs, NEW specs, NEW by, Guard \in DOMAIN render(by, Placed(fs, specs))
  PROVE  Named(render(by, Placed(fs, specs))[Guard]) = specs
<1> DEFINE placed == Placed(fs, specs)
           slots == {one.slot : one \in placed}
           Of(p) == [doc |-> load_one(fs, p).doc, exit |-> load_one(fs, p).exit,
                     slot |-> slot(p, load_one(fs, p).chain)]
<1>1. placed = {Of(p) : p \in specs} /\ \A p \in specs : Of(p).slot.relative = p
  BY PlacedOf DEF slot
<1>2. specs # {}
  <2>1. \E one \in placed : ~Get(one.doc, "allow_manual_edits", FALSE)
    <3> DEFINE own == [one \in placed |-> render_spec(by, one.doc, one.slot)]
    <3>1. \A one \in placed : Guard \notin DOMAIN own[one]
      <4>1. \A doc, s : Guard \notin DOMAIN render_spec(by, doc, s)
        BY DEF render_spec, SpecStems, Guard
      <4> QED
        BY <4>1
    <3> HIDE DEF placed
    <3>2. DOMAIN render(by, placed) = (UNION {DOMAIN own[one] : one \in placed})
             \cup (IF \E one \in placed : ~Get(one.doc, "allow_manual_edits", FALSE) THEN {Guard} ELSE {})
      BY DEF render
    <3> HIDE DEF own
    <3> QED
      BY <3>1, <3>2 DEF placed
  <2> HIDE DEF Of
  <2> QED
    BY <1>1, <2>1
<1>3. {s.relative : s \in slots} = specs
  <2> HIDE DEF Of, placed
  <2> QED
    BY <1>1
<1>4. Named(render(by, placed)[Guard]) = IF verify_spec_args(slots) = {} THEN {DefaultSpec} ELSE verify_spec_args(slots)
  <2>1. \A z : render_verify_generated(by, z).specs = verify_spec_args(z)
    BY DEF render_verify_generated, Workflow
  <2>2. render(by, placed)[Guard] = render_verify_generated(by, slots)
    BY RenderedGuard
  <2> HIDE DEF slots, placed
  <2> QED
    BY <2>1, <2>2 DEF Named
<1>5. verify_spec_args(slots) = IF \A p \in specs : p = DefaultSpec THEN {} ELSE specs
  <2> HIDE DEF slots
  <2> QED
    BY <1>3 DEF verify_spec_args, is_default
<1> HIDE DEF slots, placed
<1> QED
  BY <1>2, <1>4, <1>5 DEF placed

LEMMA GuardInit == CiInit => GuardOK
<1> SUFFICES ASSUME CiInit PROVE GuardOK
  OBVIOUS
<1>1. PICK specs \in SpecSets : Places(Placed(files, specs)) /\ flows = render(0, Placed(files, specs))
  BY DEF CiInit
<1> DEFINE placed == Placed(files, specs)
<1>2. flows = [k \in DOMAIN flows |-> flows[k]]
  BY <1>1 DEF render
<1>3. Guard \in DOMAIN flows => Named(flows[Guard]) = specs /\ IsWorkflow(flows[Guard]) /\ flows[Guard].triggers.all
  BY <1>1, GuardNamesItsSpecs, RenderedGuard
<1>4. check_drift(flows, flows)
  BY DEF check_drift, stale_generated
<1>5. Guard \in DOMAIN flows => Agrees(files, flows, 0)
  BY <1>1, <1>3, <1>4 DEF Agrees
<1>6. /\ tool = 0 /\ files = FirstFiles
      /\ guard = IF Guard \in DOMAIN flows THEN [green |-> TRUE, by |-> 0] ELSE None
  BY DEF CiInit
<1>7. FilesOK(files)
  BY <1>6, FilesAssumption DEF FilesOK
<1>8. Guard \in DOMAIN flows => guard.by = 0
  BY <1>6
<1> QED
  BY <1>2, <1>3, <1>5, <1>6, <1>7, <1>8 DEF GuardOK, FlowsOK, Believed

LEMMA GuardHolds == CiSpec => []GuardOK
  BY GuardInit, GuardStep, PTL DEF CiSpec

(* As long as the guard's last verdict is green and was given by the tool that *)
(* is locked, the committed workflows are what the specs it names render to:   *)
(* no commit that would change that goes by the guard.                         *)
THEOREM GreenGuardIsCurrent == CiSpec => []GreenIsCurrent
  BY GuardHolds, GuardIsVerdict, PTL

-----------------------------------------------------------------------------
(* What wakes a spec's mirror workflow.                                       *)

\* Every committed file is a workflow, and the guard's was rendered for one of the sets
\* of specs, or has been narrowed since.
CommittedOK ==
    /\ \A k \in DOMAIN flows : IsWorkflow(flows[k])
    /\ Guard \in DOMAIN flows => \E S \in SpecSets : flows[Guard].specs \subseteq S

LEMMA RenderedAreWorkflows ==
  ASSUME NEW by, NEW placed, NEW k \in DOMAIN render(by, placed)
  PROVE  IsWorkflow(render(by, placed)[k])
<1> DEFINE own == [one \in placed |-> render_spec(by, one.doc, one.slot)]
<1>1. ASSUME NEW doc, NEW s, NEW key \in DOMAIN render_spec(by, doc, s)
      PROVE  IsWorkflow(render_spec(by, doc, s)[key])
  <2>1. /\ IsWorkflow(render_workflow(by, doc, s)) /\ IsWorkflow(render_describe(by, doc, s))
        /\ IsWorkflow(render_patch(by, doc, s)) /\ IsWorkflow(render_cascade(by, doc, s))
        /\ IsWorkflow(render_announce_from_registry(by, doc, s))
    BY DEF render_workflow, render_describe, render_patch, render_cascade,
           render_announce_from_registry, Workflow, IsWorkflow
  <2>2. render_spec(by, doc, s)[key] \in
          {render_workflow(by, doc, s), render_describe(by, doc, s), render_patch(by, doc, s),
           render_cascade(by, doc, s), render_announce_from_registry(by, doc, s)}
    BY DEF render_spec
  <2> QED
    BY <2>1, <2>2
<1>2. CASE k = Guard
  BY <1>2, RenderedGuard
<1>3. CASE k # Guard
  <2>1. k \in UNION {DOMAIN own[one] : one \in placed}
    BY <1>3 DEF render
  <2>2. render(by, placed)[k] = own[CHOOSE one \in placed : k \in DOMAIN own[one]][k]
    BY <1>3 DEF render
  <2>3. PICK one \in placed : one = CHOOSE z \in placed : k \in DOMAIN own[z]
    <3> HIDE DEF own
    <3> QED
      BY <2>1
  <2>4. k \in DOMAIN own[one]
    <3> HIDE DEF own
    <3> QED
      BY <2>1, <2>3
  <2> QED
    BY <1>1, <2>2, <2>3, <2>4
<1> QED
  BY <1>2, <1>3

LEMMA NarrowedGuard ==
  ASSUME NEW by, NEW fs, NEW specs, Guard \in DOMAIN render(by, Placed(fs, specs))
  PROVE  render(by, Placed(fs, specs))[Guard].specs \subseteq specs
<1> DEFINE g == render(by, Placed(fs, specs))[Guard]
<1>1. Named(g) = specs
  BY GuardNamesItsSpecs
<1> HIDE DEF g
<1>2. g.specs \subseteq specs
  BY <1>1 DEF Named
<1> QED
  BY <1>2 DEF g

LEMMA CommittedStep ==
  ASSUME CommittedOK, [CiNext]_ciVars
  PROVE  CommittedOK'
<1>1. ASSUME NEW gone, flows' = [k \in DOMAIN flows \ gone |-> flows[k]]
      PROVE  CommittedOK'
  BY <1>1 DEF CommittedOK
<1>2. ASSUME NEW specs \in SpecSets, Generate(specs)
      PROVE  CommittedOK'
  <2> DEFINE rendered == render(tool, Placed(files, specs))
  <2>1. \E n \in 1 .. Cardinality(DOMAIN rendered) : flows' = write_files(rendered, n)
    BY <1>2 DEF Generate
  <2>2. \E written \in SUBSET DOMAIN rendered :
          flows' = [k \in DOMAIN flows \cup written |-> IF k \in written THEN rendered[k] ELSE flows[k]]
    <3> HIDE DEF rendered
    <3> QED
      BY <2>1 DEF write_files
  <2>3. PICK written \in SUBSET DOMAIN rendered :
          flows' = [k \in DOMAIN flows \cup written |-> IF k \in written THEN rendered[k] ELSE flows[k]]
    BY <2>2
  <2>4. \A k \in DOMAIN rendered : IsWorkflow(rendered[k])
    BY RenderedAreWorkflows
  <2>5. Guard \in DOMAIN rendered => rendered[Guard].specs \subseteq specs
    BY NarrowedGuard
  <2> HIDE DEF rendered
  <2> QED
    BY <2>3, <2>4, <2>5 DEF CommittedOK
<1>3. ASSUME NEW key \in DOMAIN flows, HandEdit(key)
      PROVE  CommittedOK'
  <2>1. CASE flows' = [k \in DOMAIN flows \ {key} |-> flows[k]]
    BY <1>1, <2>1
  <2>2. ASSUME NEW w,
               \/ w \in {[flows[key] EXCEPT !.pins = "bumped"], [flows[key] EXCEPT !.actions = "other"],
                         [flows[key] EXCEPT !.logic = "other"]}
               \/ \E S \in SUBSET flows[key].specs : w = [flows[key] EXCEPT !.specs = S],
               flows' = [flows EXCEPT ![key] = w]
        PROVE  CommittedOK'
    <3>1. IsWorkflow(flows[key])
      BY DEF CommittedOK
    <3>2. IsWorkflow(w) /\ w.specs \subseteq flows[key].specs
      BY <2>2, <3>1 DEF IsWorkflow
    <3>3. /\ DOMAIN flows' = DOMAIN flows /\ flows'[key] = w
          /\ \A k \in DOMAIN flows \ {key} : flows'[k] = flows[k]
      BY <2>2
    <3> QED
      BY <3>2, <3>3 DEF CommittedOK
  <2> QED
    BY <1>3, <2>1, <2>2 DEF HandEdit
<1>4. UNCHANGED flows => CommittedOK'
  BY DEF CommittedOK
<1>5. ASSUME NEW specs, RemoveStale(specs)
      PROVE  CommittedOK'
  <2>1. \E stale \in {stale_generated(render(tool, Placed(files, specs)), flows)} :
          flows' = [k \in DOMAIN flows \ stale |-> flows[k]]
    BY <1>5 DEF RemoveStale
  <2> QED
    BY <1>1, <2>1
<1> QED
  BY <1>2, <1>3, <1>4, <1>5
  DEF CiNext, ciVars, repo, EditKey, DropKey, CreateFile, Change, DeleteFile, ToggleScript, Upgrade,
      Start, RunLeg, PushRun, EndRun

LEMMA CommittedHolds == CiSpec => []CommittedOK
<1>1. CiInit => CommittedOK
  <2> SUFFICES ASSUME CiInit PROVE CommittedOK
    OBVIOUS
  <2>1. PICK specs \in SpecSets : flows = render(0, Placed(files, specs))
    BY DEF CiInit
  <2> QED
    BY <2>1, RenderedAreWorkflows, NarrowedGuard DEF CommittedOK
<1>2. CommittedOK /\ [CiNext]_ciVars => CommittedOK'
  BY CommittedStep
<1> QED
  BY <1>1, <1>2, PTL DEF CiSpec

\* Where suffixes tell the specs apart, the committed mirror workflow of each watches
\* every file the spec is made of and all of its directory.
LEMMA MirrorIsItsSpecs ==
  ASSUME SuffixesTellApart, GuardOK, CommittedOK, Believed(flows, guard, tool),
         NEW mirror \in Named(flows[Guard])
  PROVE  LET key == <<"mirror", suffix(mirror)>>
         IN  /\ key \in DOMAIN flows
             /\ flows[key].triggers
                  = trigger_paths(slot(mirror, load_one(files, mirror).chain), RootTrees, "mirror")
<1> DEFINE key == <<"mirror", suffix(mirror)>>
           specs == Named(flows[Guard])
           placed == Placed(files, specs)
           Of(p) == [doc |-> load_one(files, p).doc, exit |-> load_one(files, p).exit,
                     slot |-> slot(p, load_one(files, p).chain)]
           own == [one \in placed |-> render_spec(tool, one.doc, one.slot)]
           rendered == render(tool, placed)
           Watched(w) == w.triggers = trigger_paths(slot(mirror, load_one(files, mirror).chain), RootTrees, "mirror")
<1>1. /\ placed = {Of(p) : p \in specs} /\ \A p \in specs : Of(p).slot.relative = p
      /\ Of(mirror).slot = slot(mirror, load_one(files, mirror).chain)
  BY PlacedOf DEF slot
<1>2. \A p, q \in specs : suffix(p) = suffix(q) => p = q
  <2>1. \E S \in SpecSets : flows[Guard].specs \subseteq S
    BY DEF CommittedOK, Believed
  <2> QED
    BY <2>1 DEF SuffixesTellApart, Named
<1>3. \A doc, s, k : k \in DOMAIN render_spec(tool, doc, s) => k[2] = suffix(s.relative)
  BY DEF render_spec
<1>4. \A doc, s : /\ <<"mirror", suffix(s.relative)>> \in DOMAIN render_spec(tool, doc, s)
                  /\ render_spec(tool, doc, s)[<<"mirror", suffix(s.relative)>>] = render_workflow(tool, doc, s)
  <2> SUFFICES ASSUME NEW doc, NEW s
               PROVE  /\ <<"mirror", suffix(s.relative)>> \in DOMAIN render_spec(tool, doc, s)
                      /\ render_spec(tool, doc, s)[<<"mirror", suffix(s.relative)>>] = render_workflow(tool, doc, s)
    OBVIOUS
  <2>1. "mirror" \in SpecStems(doc)
    BY DEF SpecStems
  <2> QED
    BY <2>1 DEF render_spec
<1>5. \A doc, s : render_workflow(tool, doc, s).triggers = trigger_paths(s, RootTrees, "mirror")
  BY DEF render_workflow, Workflow
<1> HIDE DEF Of
<1>6. key \in DOMAIN own[Of(mirror)] /\ Of(mirror) \in placed
  BY <1>1, <1>4
<1>7. ASSUME NEW one \in placed, key \in DOMAIN own[one]
      PROVE  one = Of(mirror)
  <2>1. PICK p \in specs : one = Of(p)
    BY <1>1
  <2>2. key[2] = suffix(one.slot.relative)
    BY <1>3, <1>7
  <2> QED
    BY <1>1, <1>2, <2>1, <2>2
<1>8. key # Guard
  BY DEF Guard
<1>9. key \in DOMAIN rendered /\ rendered[key] = own[CHOOSE one \in placed : key \in DOMAIN own[one]][key]
  <2>1. key \in UNION {DOMAIN own[one] : one \in placed}
    <3> HIDE DEF own, placed
    <3> QED
      BY <1>6
  <2> QED
    BY <1>8, <2>1 DEF render
<1>10. rendered[key] = own[Of(mirror)][key]
  <2> HIDE DEF own, placed
  <2> QED
    BY <1>6, <1>7, <1>9
<1>11. Watched(rendered[key])
  BY <1>1, <1>4, <1>5, <1>6, <1>10
<1>12. key \in DOMAIN flows /\ normalize_for_drift(flows[key]) = normalize_for_drift(rendered[key])
  <2>1. check_drift(rendered, flows)
    BY DEF GuardOK, Agrees
  <2> HIDE DEF rendered, key
  <2> QED
    BY <1>9, <2>1 DEF check_drift
<1>13. flows[key].triggers = rendered[key].triggers
  <2>1. IsWorkflow(rendered[key]) /\ IsWorkflow(flows[key])
    BY <1>9, <1>12, RenderedAreWorkflows DEF CommittedOK
  <2> QED
    BY <1>12, <2>1, SameButPins
<1> HIDE DEF rendered
<1> QED
  BY <1>11, <1>12, <1>13

\* A commit to a file wakes the mirror workflows that watch it.
LEMMA MirrorWoken ==
  ASSUME SuffixesTellApart, GuardOK, CommittedOK, Believed(flows, guard, tool),
         NEW mirror \in Named(flows[Guard]), NEW c, Commit(OnlyFile(c)), flows' = flows,
         Sees(trigger_paths(slot(mirror, load_one(files, mirror).chain), RootTrees, "mirror"), c)
  PROVE  MirrorWakes(mirror)
<1> DEFINE key == <<"mirror", suffix(mirror)>>
<1>1. /\ key \in DOMAIN flows
      /\ flows[key].triggers = trigger_paths(slot(mirror, load_one(files, mirror).chain), RootTrees, "mirror")
  BY MirrorIsItsSpecs
<1>2. woken' = {k \in DOMAIN flows' : Triggers(flows'[k], OnlyFile(c))}
  BY DEF Commit
<1> HIDE DEF key
<1>3. Triggers(flows'[key], OnlyFile(c))
  BY <1>1 DEF Triggers, OnlyFile, Sees
<1> QED
  BY <1>1, <1>2, <1>3 DEF MirrorWakes, key

LEMMA FileWakes ==
  ASSUME SuffixesTellApart, GuardOK, CommittedOK, Believed(flows, guard, tool),
         NEW mirror \in Named(flows[Guard]), NEW c, Commit(OnlyFile(c)), flows' = flows, FilesOK(files'),
         \A p \in DOMAIN files \ {c} : p \in DOMAIN files' /\ files'[p] = files[p],
         load_one(files', mirror) # load_one(files, mirror)
  PROVE  MirrorWakes(mirror)
<1>1. load_one(files, mirror).exit = Ok
  BY AgreedSpecLoads DEF GuardOK
<1>2. c \in {mirror} \cup ToSet(load_one(files, mirror).chain)
  BY <1>1, LoadStays DEF GuardOK
<1>3. mirror \in Paths
  BY <1>1, MergedIsResolved DEF GuardOK, FilesOK
<1>4. Sees(trigger_paths(slot(mirror, load_one(files, mirror).chain), RootTrees, "mirror"), c)
  BY <1>2, <1>3, MirrorSeesItsChain
<1> QED
  BY <1>4, MirrorWoken

LEMMA ScriptWakes ==
  ASSUME SuffixesTellApart, GuardOK, CommittedOK, Believed(flows, guard, tool),
         NEW mirror \in Named(flows[Guard]), NEW c, ToggleScript(c), Concerns(mirror)
  PROVE  MirrorWakes(mirror)
<1>1. /\ scripts' = IF c \in scripts THEN scripts \ {c} ELSE scripts \cup {c}
      /\ UNCHANGED <<files, flows, tool>> /\ Commit(OnlyFile(c))
  BY DEF ToggleScript
<1>2. dir(mirror) # <<>> /\ Under(c, dir(mirror))
  BY <1>1 DEF Concerns
<1>3. Sees(trigger_paths(slot(mirror, load_one(files, mirror).chain), RootTrees, "mirror"), c)
  BY <1>2 DEF Sees, trigger_paths, subtree_entries, slot
<1> QED
  BY <1>1, <1>3, MirrorWoken

LEMMA EditWakes ==
  ASSUME SuffixesTellApart, GuardOK, CommittedOK, [CiNext]_ciVars, Believed(flows, guard, tool),
         NEW mirror \in Named(flows[Guard]), Concerns(mirror)
  PROVE  MirrorWakes(mirror)
<1>1. \/ load_one(files, mirror).doc # load_one(files', mirror).doc
      \/ (scripts \ scripts') \cup (scripts' \ scripts) # {}
  BY DEF Concerns
<1>2. ASSUME UNCHANGED <<files, scripts>> PROVE FALSE
  BY <1>1, <1>2
<1>3. DOMAIN files \subseteq Paths /\ DOMAIN Fresh \subseteq Paths /\ IsFiniteSet(DOMAIN files)
  BY FilesAssumption DEF GuardOK, FilesOK
<1>4. ASSUME NEW path \in Paths, NEW doc, Change(path, doc)
      PROVE  MirrorWakes(mirror)
  <2>1. files' = Put(files, path, [parses |-> TRUE, doc |-> doc]) /\ Commit(OnlyFile(path))
        /\ UNCHANGED <<flows, scripts, tool>>
    BY <1>4 DEF Change
  <2>2. DOMAIN files' = DOMAIN files \cup {path} /\ \A p \in DOMAIN files \ {path} : files'[p] = files[p]
    <3> DEFINE held == [parses |-> TRUE, doc |-> doc]
    <3> HIDE DEF held
    <3>1. files' = Put(files, path, held)
      BY <2>1 DEF held
    <3> QED
      BY <3>1 DEF Put
  <2>3. FilesOK(files')
    BY <1>3, <2>2, FS_AddElement DEF FilesOK
  <2>4. load_one(files', mirror) # load_one(files, mirror)
    BY <1>1, <2>1
  <2> QED
    BY <2>1, <2>2, <2>3, <2>4, FileWakes
<1>5. ASSUME NEW path \in DOMAIN files, DeleteFile(path)
      PROVE  MirrorWakes(mirror)
  <2>1. files' = [p \in DOMAIN files \ {path} |-> files[p]] /\ Commit(OnlyFile(path))
        /\ UNCHANGED <<flows, scripts, tool>>
    BY <1>5 DEF DeleteFile
  <2>2. DOMAIN files' = DOMAIN files \ {path} /\ \A p \in DOMAIN files \ {path} : files'[p] = files[p]
    BY <2>1
  <2>3. FilesOK(files')
    BY <1>3, <2>2, FS_RemoveElement DEF FilesOK
  <2>4. load_one(files', mirror) # load_one(files, mirror)
    BY <1>1, <2>1
  <2> QED
    BY <2>1, <2>2, <2>3, <2>4, FileWakes
<1>6. \/ \E path \in DOMAIN Candidates : \E key \in DOMAIN Candidates[path] :
           EditKey(path, key) \/ DropKey(path, key)
      \/ \E path \in DOMAIN Fresh : CreateFile(path)
      \/ \E path \in DOMAIN files : DeleteFile(path)
      \/ \E path \in Scripts : ToggleScript(path)
      \/ UNCHANGED <<files, scripts>>
  BY DEF CiNext, ciVars, repo, HandEdit, Start, Upgrade, Generate, RemoveStale, RunLeg, PushRun, EndRun
<1> QED
  BY <1>2, <1>3, <1>4, <1>5, <1>6, ScriptWakes DEF EditKey, DropKey, CreateFile

(* With a green guard, no commit changes what a spec says, in its own file or  *)
(* any base of its chain, or its scripts, and leaves its mirror workflow       *)
(* asleep: the committed triggers list every file the merged spec is made of.  *)
THEOREM EditsWakeTheirSpecs == ASSUME SuffixesTellApart PROVE CiSpec => EditWakesItsSpec
<1>1. GuardOK /\ CommittedOK /\ [CiNext]_ciVars
        => [(Guard \in DOMAIN flows /\ guard # None /\ guard.green /\ guard.by = tool)
              => \A mirror \in Named(flows[Guard]) : Concerns(mirror) => MirrorWakes(mirror)]_ciVars
  BY EditWakes DEF Believed
<1> QED
  BY <1>1, GuardHolds, CommittedHolds, PTL DEF CiSpec, EditWakesItsSpec

-----------------------------------------------------------------------------
(* What the loader accepts.                                                   *)

LEMMA NearestWrites ==
  ASSUME NEW n \in Nat, NEW docs, DOMAIN docs = 1 .. n, NEW k \in DOMAIN shallow_merge(docs)
  PROVE  \E i \in 1 .. n : k \in DOMAIN docs[i] /\ shallow_merge(docs)[k] = docs[i][k]
<1> DEFINE Writes(i) == /\ k \in DOMAIN docs[i]
                        /\ \A j \in DOMAIN docs : k \in DOMAIN docs[j] => i <= j
           nearest == CHOOSE i \in DOMAIN docs : Writes(i)
           S == {i \in 1 .. n : k \in DOMAIN docs[i]}
<1>1. DOMAIN shallow_merge(docs) = UNION {DOMAIN docs[i] : i \in DOMAIN docs}
  BY DEF shallow_merge
<1>2. S # {} /\ S \in SUBSET Nat
  BY <1>1
<1>3. \E i \in S : \A j \in S : i <= j
  <2> HIDE DEF S
  <2> QED
    BY <1>2, LeastOf
<1>4. \E i \in DOMAIN docs : Writes(i)
  BY <1>3
<1>5. nearest \in DOMAIN docs /\ Writes(nearest)
  <2> HIDE DEF Writes
  <2> QED
    BY <1>4
<1>6. shallow_merge(docs)[k] = docs[nearest][k]
  BY <1>1 DEF shallow_merge
<1> HIDE DEF nearest
<1> QED
  BY <1>5, <1>6

DocsOK(fs) == \A p \in DOMAIN fs : DocumentOK(fs[p].doc)

LEMMA MergedIsOK ==
  ASSUME NEW fs, FilesOK(fs), DocsOK(fs), NEW path, load_one(fs, path).exit = Ok
  PROVE  \A k \in DOMAIN load_one(fs, path).doc : k # "extends" /\ ValueOK(k, load_one(fs, path).doc[k])
<1> DEFINE walked == resolve_extends_chain(fs, path)
           layers == <<path>> \o walked.chain
           docs == [i \in DOMAIN layers |-> fs[layers[i]].doc]
           merged == shallow_merge(docs)
           whole == [k \in DOMAIN merged \ {"extends"} |-> merged[k]]
<1>1. /\ path \in DOMAIN fs /\ walked.exit = Ok /\ load_one(fs, path) = load_spec(fs, path)
  BY MergedIsResolved
<1>2. walked.chain \in Seq(DOMAIN fs)
  BY <1>1, ResolvedIsChained DEF FilesOK
<1>3. load_spec(fs, path).doc = whole
  <2>1. resolve_and_merge(fs, path) = [exit |-> Ok, chain |-> walked.chain, doc |-> whole]
    BY <1>1 DEF resolve_and_merge
  <2> HIDE DEF whole, walked
  <2> QED
    BY <2>1 DEF load_spec
<1>4. layers \in Seq(DOMAIN fs)
  <2> HIDE DEF walked
  <2> QED
    BY <1>1, <1>2
<1>5. DOMAIN docs = 1 .. Len(layers) /\ Len(layers) \in Nat
      /\ \A i \in 1 .. Len(layers) : docs[i] = fs[layers[i]].doc /\ layers[i] \in DOMAIN fs
  <2> HIDE DEF layers
  <2> QED
    BY <1>4
<1>6. ASSUME NEW k \in DOMAIN whole
      PROVE  k # "extends" /\ ValueOK(k, whole[k])
  <2>1. k \in DOMAIN merged /\ k # "extends" /\ whole[k] = merged[k]
    <3> HIDE DEF merged
    <3> QED
      OBVIOUS
  <2> HIDE DEF docs, layers
  <2>2. PICK i \in 1 .. Len(layers) : k \in DOMAIN docs[i] /\ merged[k] = docs[i][k]
    BY <1>5, <2>1, NearestWrites
  <2> HIDE DEF merged, whole
  <2> QED
    BY <1>5, <2>1, <2>2 DEF DocsOK, DocumentOK
<1> QED
  BY <1>1, <1>3, <1>6

\* The gates a document has passed.
LEMMA LoadedPasses ==
  ASSUME NEW fs, NEW path, load_one(fs, path).exit = Ok
  PROVE  LET doc == load_one(fs, path).doc
         IN  validate_sign_config(Opt(doc, "sign")) /\ MirrorSpec_validate(doc) = {}
<1> DEFINE merged == resolve_and_merge(fs, path)
           doc == merged.doc
           code == IF merged.exit # Ok THEN merged.exit ELSE Gates(doc)
<1>1. /\ path \in DOMAIN fs /\ load_one(fs, path) = load_spec(fs, path)
      /\ resolve_extends_chain(fs, path).exit = Ok
  BY MergedIsResolved
<1>2. load_spec(fs, path) = [merged EXCEPT !.exit = code]
  BY DEF load_spec
<1>3. \E d, c, e : merged = [exit |-> e, doc |-> d, chain |-> c]
  <2> DEFINE walked == resolve_extends_chain(fs, path)
             layers == <<path>> \o walked.chain
             both == shallow_merge([i \in DOMAIN layers |-> fs[layers[i]].doc])
             whole == [k \in DOMAIN both \ {"extends"} |-> both[k]]
  <2>1. merged = [exit |-> Ok, chain |-> walked.chain, doc |-> whole]
    BY <1>1 DEF resolve_and_merge
  <2> HIDE DEF merged, walked, whole
  <2> QED
    BY <2>1
<1>4. code = Ok => validate_sign_config(Opt(doc, "sign")) /\ MirrorSpec_validate(doc) = {}
  BY DEF Gates, UsageError, DataError, Ok
<1> HIDE DEF merged, code
<1>5. load_spec(fs, path).exit = code /\ load_spec(fs, path).doc = merged.doc
  BY <1>2, <1>3
<1> QED
  BY <1>1, <1>4, <1>5

LEMMA ValidatedParts ==
  ASSUME NEW doc, MirrorSpec_validate(doc) = {}
  PROVE  /\ validate_assets_or_variants(doc) = {}
         /\ Opt(doc, "platforms") # None => validate_platforms(doc["platforms"]) = {}
  BY DEF MirrorSpec_validate

LEMMA NoErrors ==
  ASSUME NEW rules, Errors(rules) = {}
  PROVE  \A r \in DOMAIN rules : ~rules[r]
  BY DEF Errors

DocOK(doc) == \A k \in DOMAIN doc : k # "extends" /\ ValueOK(k, doc[k])

LEMMA Written ==
  ASSUME NEW doc, NEW k, Opt(doc, k) # None
  PROVE  k \in DOMAIN doc /\ Opt(doc, k) = doc[k]
  BY DEF Opt, Get

LEMMA Accepted_Tags ==
  ASSUME NEW doc, DocOK(doc), MirrorSpec_validate(doc) = {}
  PROVE  TagsHaveOneOwner(doc)
<1> SUFFICES ASSUME Opt(doc, "variants") # None
             PROVE  /\ \A i, j \in DOMAIN doc["variants"] : i # j =>
                         VariantTags(doc["variants"][i]) \cap VariantTags(doc["variants"][j]) = {}
                    /\ \E v \in ToSet(doc["variants"]) : <<"", "version">> \in VariantTags(v)
  BY DEF TagsHaveOneOwner
<1> DEFINE variants == doc["variants"]
           defaults == {i \in DOMAIN variants : variants[i].default}
<1>1. /\ Opt(doc, "variants") = variants /\ IsFiniteSet(DOMAIN variants)
  BY Written DEF DocOK, ValueOK
<1>2. validate_variants(variants) = {}
  <2>1. validate_assets_or_variants(doc) = {}
    BY ValidatedParts
  <2>2. ~is_env(doc["source"])
    <3> DEFINE rules == [env_assets |-> Opt(doc, "assets") # None, env_variants |-> Opt(doc, "variants") # None,
                         env_wheels |-> Opt(doc, "wheels") = None]
    <3>1. is_env(doc["source"]) => Errors(rules) \subseteq validate_assets_or_variants(doc)
      BY DEF validate_assets_or_variants
    <3>2. rules["env_variants"] /\ "env_variants" \in DOMAIN rules
      OBVIOUS
    <3> HIDE DEF rules
    <3> QED
      BY <2>1, <3>1, <3>2, NoErrors
  <2>3. Opt(doc, "assets") = None
    <3> DEFINE assets == Opt(doc, "assets")
               rules == [archive_wheels |-> Opt(doc, "wheels") # None,
                     both |-> assets # None /\ Opt(doc, "variants") # None,
                     neither |-> assets = None /\ Opt(doc, "variants") = None,
                     regex |-> assets = "bad" /\ Opt(doc, "variants") = None]
    <3>1. Errors(rules) \subseteq validate_assets_or_variants(doc)
      BY <2>2 DEF validate_assets_or_variants
    <3>2. assets # None => rules["both"] /\ "both" \in DOMAIN rules
      OBVIOUS
    <3> HIDE DEF rules
    <3> QED
      BY <2>1, <3>1, <3>2, NoErrors
  <2> QED
    BY <1>1, <2>1, <2>2, <2>3 DEF validate_assets_or_variants
<1> HIDE DEF variants
<1>3. /\ Cardinality(defaults) = 1
      /\ ~\E v \in ToSet(variants) : v.name \in {"Bad_Name", ""}
      /\ ~\E v \in ToSet(variants) : v.name = "latest"
      /\ ~\E i, j \in DOMAIN variants : i # j /\ variants[i].name = variants[j].name
  <2> DEFINE rules ==
        [one_default |-> Cardinality(defaults) # 1,
         name |-> \E v \in ToSet(variants) : v.name \in {"Bad_Name", ""},
         reserved |-> \E v \in ToSet(variants) : v.name = "latest",
         unnamed |-> \E v \in ToSet(variants) : v.name = None /\ ~v.default,
         duplicate |-> \E i, j \in DOMAIN variants : i # j /\ variants[i].name = variants[j].name,
         assets |-> \E v \in ToSet(variants) : "regex" \in v.flaws,
         variant_metadata |-> \E v \in ToSet(variants) : "metadata" \in v.flaws]
  <2>1. Errors(rules) = {}
    BY <1>2 DEF validate_variants
  <2>2. /\ "one_default" \in DOMAIN rules /\ "name" \in DOMAIN rules /\ "reserved" \in DOMAIN rules /\ "duplicate" \in DOMAIN rules
        /\ rules["one_default"] <=> Cardinality(defaults) # 1
        /\ rules["name"] <=> \E v \in ToSet(variants) : v.name \in {"Bad_Name", ""}
        /\ rules["reserved"] <=> \E v \in ToSet(variants) : v.name = "latest"
        /\ rules["duplicate"] <=> \E i, j \in DOMAIN variants : i # j /\ variants[i].name = variants[j].name
    OBVIOUS
  <2> HIDE DEF rules
  <2> QED
    BY <2>1, <2>2, NoErrors
<1>4. \A i \in DOMAIN variants : variants[i].name # "" /\ variants[i].name # "latest"
  BY <1>3 DEF ToSet
<1>5. PICK d : defaults = {d}
  <2>1. IsFiniteSet(defaults)
    BY <1>1, FS_Subset
  <2> HIDE DEF defaults
  <2> QED
    BY <1>3, <2>1, FS_Singleton
<1>6. ASSUME NEW v, v.default PROVE <<"", "version">> \in VariantTags(v)
  <2> DEFINE names == (IF v.name = None THEN {} ELSE {v.name}) \cup (IF v.default THEN {""} ELSE {})
  <2>1. "" \in names
    BY <1>6
  <2>2. VariantTags(v) = {<<n, "version">> : n \in names}
            \cup {<<IF n = "" THEN "latest" ELSE n, "latest">> : n \in names}
    BY DEF VariantTags
  <2> HIDE DEF names
  <2> QED
    BY <2>1, <2>2
<1>7. \E v \in ToSet(variants) : <<"", "version">> \in VariantTags(v)
  <2>1. d \in DOMAIN variants /\ variants[d].default /\ variants[d] \in ToSet(variants)
    BY <1>5 DEF ToSet
  <2> QED
    BY <1>6, <2>1
<1>8. ASSUME NEW i \in DOMAIN variants, NEW j \in DOMAIN variants, i # j
      PROVE  VariantTags(variants[i]) \cap VariantTags(variants[j]) = {}
  <2> DEFINE Called(v) == (IF v.name = None THEN {} ELSE {v.name}) \cup (IF v.default THEN {""} ELSE {})
             Bare(n) == IF n = "" THEN "latest" ELSE n
  <2>1. ASSUME NEW v
        PROVE  VariantTags(v) = {<<n, "version">> : n \in Called(v)} \cup {<<Bare(n), "latest">> : n \in Called(v)}
    BY DEF VariantTags
  <2>2. Called(variants[i]) \cap Called(variants[j]) = {}
    <3>1. ~(variants[i].default /\ variants[j].default)
      BY <1>5, <1>8
    <3>2. "" \notin (IF variants[i].name = None THEN {} ELSE {variants[i].name})
      BY <1>4
    <3>3. "" \notin (IF variants[j].name = None THEN {} ELSE {variants[j].name})
      BY <1>4
    <3>4. variants[i].name # variants[j].name
      BY <1>3, <1>8
    <3>5. CASE variants[i].default
      BY <3>1, <3>2, <3>3, <3>4, <3>5
    <3>6. CASE ~variants[i].default
      BY <3>1, <3>2, <3>3, <3>4, <3>6
    <3> QED
      BY <3>5, <3>6
  <2>3. \A k \in DOMAIN variants : "latest" \notin Called(variants[k])
    BY <1>4
  <2> HIDE DEF Called
  <2>4. \A n, m : Bare(n) = Bare(m) => n = m \/ n = "latest" \/ m = "latest"
    OBVIOUS
  <2> HIDE DEF Bare
  <2> QED
    BY <2>1, <2>2, <2>3, <2>4
<1> QED
  BY <1>7, <1>8 DEF variants

LEMMA PlatformsOfLegs ==
  ASSUME NEW doc, DocOK(doc)
  PROVE  /\ {l.platform : l \in build_matrix(doc)} = DOMAIN Declared(doc)
         /\ Opt(doc, "platforms") = None => DOMAIN Declared(doc) = {}
         /\ Opt(doc, "platforms") # None => Declared(doc) = Opt(doc, "platforms")
<1>1. /\ Opt(doc, "platforms") = None => DOMAIN Declared(doc) = {}
      /\ Opt(doc, "platforms") # None => Declared(doc) = Opt(doc, "platforms")
  BY DEF DocOK, ValueOK, Opt, Get, Declared
<1>2. ASSUME NEW p \in DOMAIN Declared(doc) PROVE \E l \in platform_legs(doc, p) : l.platform = p
  <2>1. Opt(doc, "platforms") # None /\ "platforms" \in DOMAIN doc /\ Declared(doc) = doc["platforms"]
    BY <1>1, Written
  <2>2. Declared(doc)[p].containers \in {None, <<>>} \/ DOMAIN Declared(doc)[p].containers # {}
    BY <2>1 DEF DocOK, ValueOK
  <2>3. platform_legs(doc, p) # {}
    <3>1. CASE Declared(doc)[p].containers \in {None, <<>>}
      BY <3>1 DEF platform_legs
    <3>2. CASE Declared(doc)[p].containers \notin {None, <<>>}
      <4>1. PICK i \in DOMAIN Declared(doc)[p].containers : TRUE
        BY <2>2, <3>2
      <4> QED
        BY <3>2, <4>1 DEF platform_legs
    <3> QED
      BY <3>1, <3>2
  <2> QED
    BY <2>3, LegsOfIds
<1>3. ASSUME NEW p \in DOMAIN Declared(doc), NEW l \in platform_legs(doc, p) PROVE l.platform = p
  BY LegsOfIds
<1>4. ASSUME NEW p \in DOMAIN Declared(doc) PROVE p \in {l.platform : l \in build_matrix(doc)}
  <2>1. PICK l \in platform_legs(doc, p) : l.platform = p
    BY <1>2
  <2>2. l \in build_matrix(doc)
    BY <2>1 DEF build_matrix
  <2> QED
    BY <2>1, <2>2
<1>5. ASSUME NEW l \in build_matrix(doc) PROVE l.platform \in DOMAIN Declared(doc)
  <2>1. PICK p \in DOMAIN Declared(doc) : l \in platform_legs(doc, p)
    BY DEF build_matrix
  <2> QED
    BY <1>3, <2>1
<1> QED
  BY <1>1, <1>4, <1>5

LEMMA Accepted_Wheels ==
  ASSUME NEW doc, DocOK(doc), MirrorSpec_validate(doc) = {}
  PROVE  LegsMatchWheels(doc)
<1> SUFFICES ASSUME is_env(doc["source"]), build_matrix(doc) # {}
             PROVE  {l.platform : l \in build_matrix(doc)} = {base_platform_key(p) : p \in DOMAIN doc["wheels"]}
  BY DEF LegsMatchWheels
<1> DEFINE wheels == Opt(doc, "wheels")
           platforms == Opt(doc, "platforms")
           legs == IF platforms = None THEN {} ELSE DOMAIN platforms
           covered == {base_platform_key(p) : p \in DOMAIN wheels}
<1>1. validate_assets_or_variants(doc) = {}
  BY ValidatedParts
<1>2. wheels # None
  <2> DEFINE rules == [env_assets |-> Opt(doc, "assets") # None, env_variants |-> Opt(doc, "variants") # None,
                       env_wheels |-> wheels = None]
  <2>1. Errors(rules) \subseteq validate_assets_or_variants(doc)
    BY DEF validate_assets_or_variants
  <2>2. wheels = None => rules["env_wheels"] /\ "env_wheels" \in DOMAIN rules
    OBVIOUS
  <2> HIDE DEF rules
  <2> QED
    BY <1>1, <2>1, <2>2, NoErrors
<1>3. validate_wheels_platform_coverage(wheels, platforms) = {}
  BY <1>1, <1>2 DEF validate_assets_or_variants
<1>4. (legs # {} => covered \subseteq legs) /\ legs \subseteq covered
  <2> DEFINE rules == [undeclared |-> legs # {} /\ ~(covered \subseteq legs),
                       uncovered |-> ~(legs \subseteq covered)]
  <2>1. Errors(rules) = {}
    BY <1>3 DEF validate_wheels_platform_coverage
  <2>2. /\ "undeclared" \in DOMAIN rules /\ "uncovered" \in DOMAIN rules
        /\ rules["undeclared"] <=> legs # {} /\ ~(covered \subseteq legs)
        /\ rules["uncovered"] <=> ~(legs \subseteq covered)
    OBVIOUS
  <2> HIDE DEF rules
  <2> QED
    BY <2>1, <2>2, NoErrors
<1>5. legs = DOMAIN Declared(doc) /\ {l.platform : l \in build_matrix(doc)} = DOMAIN Declared(doc)
  BY PlatformsOfLegs
<1>6. wheels = doc["wheels"]
  BY <1>2, Written
<1>7. legs # {}
  BY <1>5
<1> QED
  BY <1>4, <1>5, <1>6, <1>7

LEMMA Accepted_Libc ==
  ASSUME NEW doc, DocOK(doc), MirrorSpec_validate(doc) = {}
  PROVE  LibcClaimsTested(doc)
<1> SUFFICES ASSUME NEW l \in build_matrix(doc),
                    l.platform.feats \cap {"libc.glibc", "libc.musl"} # {}, l.image # None
             PROVE  libc_family_feature(l.libc) \in l.platform.feats
  BY DEF LibcClaimsTested
<1>1. PICK p \in DOMAIN Declared(doc) : l \in platform_legs(doc, p)
  BY DEF build_matrix
<1> DEFINE config == Declared(doc)[p]
<1>2. l.platform = p
  BY <1>1, LegsOfIds
<1>3. PICK i \in DOMAIN config.containers :
        /\ config.containers # None /\ l.libc = infer_libc_from_image(config.containers[i].image)
  BY <1>1 DEF platform_legs
<1>4. Opt(doc, "platforms") # None /\ Declared(doc) = doc["platforms"] /\ p \in DOMAIN doc["platforms"]
  BY PlatformsOfLegs, Written
<1>5. validate_platforms(doc["platforms"]) = {}
  BY <1>4, ValidatedParts
<1> DEFINE c == config.containers[i]
           declared == {f \in p.feats : f \in {"libc.glibc", "libc.musl"}}
           libc == libc_family_feature(infer_libc_from_image(c.image))
<1>6. /\ ParsesAsPlatform(p)
      /\ validate_container(p, c) = {}
  <2> DEFINE rules == [platform_key |-> ~ParsesAsPlatform(p),
                runner |-> config.runner # "ok",
                window |-> BadBound(config.min) \/ BadBound(config.max),
                window_inverted |-> Inverted(config.min, config.max),
                no_containers |-> config.containers = <<>>,
                linux_containers |-> config.containers \notin {None, <<>>} /\ p.os # "linux"]
             each == UNION {validate_exclude_entry(e) : e \in config.exclude}
             whole == Errors(rules) \cup each
                        \cup (IF config.containers = None THEN {}
                              ELSE UNION {validate_container(p, z) : z \in ToSet(config.containers)})
  <2>1. whole \subseteq validate_platforms(doc["platforms"])
    BY <1>4 DEF validate_platforms
  <2>2. ~ParsesAsPlatform(p) => rules["platform_key"] /\ "platform_key" \in DOMAIN rules
    OBVIOUS
  <2> HIDE DEF rules, each
  <2>3. Errors(rules) = {} /\ UNION {validate_container(p, z) : z \in ToSet(config.containers)} = {}
    BY <1>3, <1>5, <2>1
  <2>4. c \in ToSet(config.containers)
    BY <1>3 DEF ToSet
  <2> QED
    BY <2>2, <2>3, <2>4, NoErrors
<1>7. ~(declared # {} /\ libc \notin declared)
  <2> DEFINE rules == [shell |-> c.shell = None /\ infer_shell_from_image(c.image) = None,
                       libc |-> ParsesAsPlatform(p) /\ declared # {} /\ libc \notin declared]
  <2>1. Errors(rules) = {}
    BY <1>6 DEF validate_container
  <2>2. /\ "libc" \in DOMAIN rules
        /\ rules["libc"] <=> ParsesAsPlatform(p) /\ declared # {} /\ libc \notin declared
    OBVIOUS
  <2> HIDE DEF rules
  <2> QED
    BY <1>6, <2>1, <2>2, NoErrors
<1> QED
  BY <1>2, <1>3, <1>7

LEMMA Accepted_Sign ==
  ASSUME NEW doc, validate_sign_config(Opt(doc, "sign"))
  PROVE  SignMaterialArrives(doc)
<1> SUFFICES ASSUME Opt(doc, "sign") # None
             PROVE  /\ \A r \in SignVars(doc["sign"]) \cup SignSecrets(doc["sign"]) :
                         r # None /\ r.form = "env" => r.text \in DOMAIN render_sign_env(doc)
                    /\ \A r \in SignSecrets(doc["sign"]) :
                         r # None => r.form # "number" /\ (r.form = "env" => render_sign_env(doc)[r.text] = "secrets")
                    /\ doc["sign"].keyless # None =>
                         \A granted \in {render_push_permissions(doc), render_patch_permissions(doc)} :
                             /\ {"id-token:write", "contents:read"} \subseteq granted
                             /\ Ghcr(doc) => "packages:write" \in granted
  BY DEF SignMaterialArrives
<1> DEFINE sign == doc["sign"]
<1>1. Opt(doc, "sign") = sign
  BY Written
<1>2. \A r \in SignSecrets(sign) : r # None => r.form # "number"
  <2>1. \A ref, plain : check_sign_ref(ref, plain) /\ ref # None => ref.form # "number"
    BY DEF check_sign_ref
  <2>2. \/ sign.keyless # None /\ sign.key = None /\ check_keyless(sign.keyless)
        \/ sign.keyless = None /\ sign.key # None /\ check_key(sign.key)
    BY <1>1 DEF validate_sign_config
  <2> HIDE DEF sign
  <2> QED
    BY <2>1, <2>2 DEF SignSecrets, check_keyless, check_key
<1>3. render_sign_env(doc) = [n \in EnvNames(SignVars(sign)) \cup EnvNames(SignSecrets(sign)) |->
                                IF n \in EnvNames(SignSecrets(sign)) THEN "secrets" ELSE "vars"]
  BY DEF render_sign_env
<1>4. \A refs, r : r \in refs /\ r # None /\ r.form = "env" => r.text \in EnvNames(refs)
  BY DEF EnvNames
<1>5. ASSUME sign.keyless # None,
             NEW granted \in {render_push_permissions(doc), render_patch_permissions(doc)}
      PROVE  /\ {"id-token:write", "contents:read"} \subseteq granted
             /\ Ghcr(doc) => "packages:write" \in granted
  <2>1. signs_keyless(doc)
    BY <1>5 DEF signs_keyless
  <2>2. IdToken(doc) = {"id-token:write"}
    BY <2>1 DEF IdToken
  <2> QED
    BY <2>1, <2>2 DEF render_push_permissions, render_patch_permissions
<1> HIDE DEF sign
<1>6. \A r \in SignVars(sign) \cup SignSecrets(sign) :
        r # None /\ r.form = "env" => r.text \in DOMAIN render_sign_env(doc)
  BY <1>3, <1>4
<1>7. \A r \in SignSecrets(sign) : r # None /\ r.form = "env" => render_sign_env(doc)[r.text] = "secrets"
  BY <1>3, <1>4
<1> QED
  BY <1>2, <1>5, <1>6, <1>7 DEF sign

\* What the repository's files hold, on every commit.
LEMMA DocsInit == CiInit => DocsOK(files)
  BY FilesAssumption DEF CiInit, DocsOK

LEMMA ChangeKeepsDocs ==
  ASSUME DocsOK(files), NEW path, NEW doc, DocumentOK(doc), Change(path, doc)
  PROVE  DocsOK(files')
<1> DEFINE held == [parses |-> TRUE, doc |-> doc]
<1>1. files' = Put(files, path, held) /\ held.doc = doc
  BY DEF Change
<1> HIDE DEF held
<1>2. ASSUME NEW p \in DOMAIN files' PROVE DocumentOK(files'[p].doc)
  <2>1. p \in DOMAIN files \cup {path} /\ files'[p] = IF p = path THEN held ELSE files[p]
    BY <1>1 DEF Put
  <2> QED
    BY <1>1, <2>1 DEF DocsOK
<1> QED
  BY <1>2 DEF DocsOK

LEMMA DocsStep == ASSUME DocsOK(files), [CiNext]_ciVars PROVE DocsOK(files')
<1>1. ASSUME NEW path \in DOMAIN Candidates, NEW key \in DOMAIN Candidates[path], EditKey(path, key)
      PROVE  DocsOK(files')
  <2>1. PICK value \in Candidates[path][key] : Change(path, Put(files[path].doc, key, value))
    BY <1>1 DEF EditKey
  <2>2. ValueOK(key, value) /\ DocumentOK(files[path].doc)
    BY <1>1, FilesAssumption DEF DocsOK, EditKey
  <2>3. DocumentOK(Put(files[path].doc, key, value))
    BY <2>2 DEF DocumentOK, Put
  <2> QED
    BY <2>1, <2>3, ChangeKeepsDocs
<1>2. ASSUME NEW path, NEW key, DropKey(path, key) PROVE DocsOK(files')
  <2>1. DocumentOK([k \in DOMAIN files[path].doc \ {key} |-> files[path].doc[k]])
    BY <1>2 DEF DocsOK, DocumentOK, DropKey
  <2> QED
    BY <1>2, <2>1, ChangeKeepsDocs DEF DropKey
<1>3. ASSUME NEW path \in DOMAIN Fresh, CreateFile(path) PROVE DocsOK(files')
  BY <1>3, FilesAssumption, ChangeKeepsDocs DEF CreateFile
<1>4. ASSUME NEW path \in DOMAIN files, DeleteFile(path) PROVE DocsOK(files')
  <2>1. DOMAIN files' = DOMAIN files \ {path} /\ \A p \in DOMAIN files \ {path} : files'[p] = files[p]
    BY <1>4 DEF DeleteFile
  <2> QED
    BY <2>1 DEF DocsOK
<1>5. ASSUME UNCHANGED files PROVE DocsOK(files')
  BY <1>5
<1>6. ASSUME NEW path, ToggleScript(path) PROVE UNCHANGED files
  BY <1>6 DEF ToggleScript
<1>7. ASSUME NEW key, HandEdit(key) \/ Start(key) PROVE UNCHANGED files
  BY <1>7 DEF HandEdit, Start, repo
<1>8. ASSUME NEW specs, Generate(specs) \/ RemoveStale(specs) PROVE UNCHANGED files
  BY <1>8 DEF Generate, RemoveStale
<1>9. ASSUME NEW leg, NEW result, RunLeg(leg, result) PROVE UNCHANGED files
  BY <1>9 DEF RunLeg, repo
<1>10. ASSUME Upgrade \/ PushRun \/ EndRun \/ UNCHANGED ciVars PROVE UNCHANGED files
  BY <1>10 DEF Upgrade, PushRun, EndRun, repo, ciVars
<1> QED
  BY <1>1, <1>2, <1>3, <1>4, <1>5, <1>6, <1>7, <1>8, <1>9, <1>10 DEF CiNext

LEMMA AcceptedFromFiles == ASSUME FilesOK(files), DocsOK(files) PROVE AcceptedIsSound
<1> SUFFICES ASSUME NEW mirror \in DOMAIN files, load_one(files, mirror).exit = Ok
             PROVE  LET doc == load_one(files, mirror).doc
                    IN  TagsHaveOneOwner(doc) /\ LegsMatchWheels(doc)
                            /\ LibcClaimsTested(doc) /\ SignMaterialArrives(doc)
  BY DEF AcceptedIsSound
<1> DEFINE doc == load_one(files, mirror).doc
<1>1. DocOK(doc)
  BY MergedIsOK DEF DocOK
<1>2. validate_sign_config(Opt(doc, "sign")) /\ MirrorSpec_validate(doc) = {}
  BY LoadedPasses
<1> HIDE DEF doc
<1>3. TagsHaveOneOwner(doc) /\ LegsMatchWheels(doc) /\ LibcClaimsTested(doc)
  BY <1>1, <1>2, Accepted_Tags, Accepted_Wheels, Accepted_Libc
<1>4. SignMaterialArrives(doc)
  BY <1>2, Accepted_Sign
<1> QED
  BY <1>3, <1>4 DEF doc

(* Whatever a commit leaves in the files, and whichever file of a chain wrote *)
(* a key, a spec the loader accepts writes no tag twice, has a default for    *)
(* the bare tags, tests every platform it has wheels for and no other, tests  *)
(* a libc claim with that libc, and is rendered with what its signer needs.   *)
THEOREM AcceptedSpecsAreSound == CiSpec => []AcceptedIsSound
<1>1. CiSpec => []DocsOK(files)
  <2>1. DocsOK(files) /\ [CiNext]_ciVars => DocsOK(files)'
    BY DocsStep
  <2> QED
    BY DocsInit, <2>1, PTL DEF CiSpec
<1>2. GuardOK /\ DocsOK(files) => AcceptedIsSound
  BY AcceptedFromFiles DEF GuardOK
<1> QED
  BY GuardHolds, <1>1, <1>2, PTL
=============================================================================
