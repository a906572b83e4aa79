--------------------------- MODULE EnvMirrorProofs ---------------------------
(* Theorems about EnvMirror, for every value of its constants: any releases,   *)
(* wheels keys, legs and caps, and any number of moves of the index, red legs, *)
(* failures and kills.                                                         *)
EXTENDS EnvMirror, FiniteSetTheorems, WellFoundedInduction, TLAPS

-----------------------------------------------------------------------------
(* Minima of sets of naturals.                                               *)

\* A family of finite sets has a member of which no other is a strict subset.
LEMMA MinimalSet ==
  ASSUME NEW T, T # {}, \A X \in T : IsFiniteSet(X)
  PROVE  \E X \in T : \A Y \in T : Y \subseteq X => Y = X
<1>1. T \subseteq FiniteSubsetsOf(UNION T)
  BY DEF FiniteSubsetsOf
<1>2. PICK X \in T : \A Y \in T : ~(<<Y, X>> \in StrictSubsetOrdering(UNION T))
  BY <1>1, FS_StrictSubsetOrderingWellFounded, WFMin
<1>3. ASSUME NEW Y \in T, Y \subseteq X, Y # X PROVE FALSE
  <2>1. <<Y, X>> \in (SUBSET UNION T) \X (SUBSET UNION T)
    OBVIOUS
  <2> QED
    BY <1>2, <1>3, <2>1 DEF StrictSubsetOrdering
<1> QED
  BY <1>3

\* Min(S) is a member of S and no greater than the others: of the intervals that end at a
\* member, one has no strict subset among them.
LEMMA SmallestOf ==
  ASSUME NEW S \in SUBSET Nat, S # {}
  PROVE  Min(S) \in S /\ \A x \in S : Min(S) <= x
<1> DEFINE Down(x) == 0..x
           Downs == {Down(x) : x \in S}
<1>1. \A x \in S : IsFiniteSet(Down(x))
  BY FS_Interval
<1>2. \A x, m \in S : x < m => Down(x) \subseteq Down(m) /\ Down(x) # Down(m)
  OBVIOUS
<1> HIDE DEF Down
<1>3. \E X \in Downs : \A Y \in Downs : Y \subseteq X => Y = X
  <2>1. Downs # {} /\ \A X \in Downs : IsFiniteSet(X)
    BY <1>1
  <2> HIDE DEF Downs
  <2> QED
    BY <2>1, MinimalSet
<1>4. PICK m \in S : \A x \in S : m <= x
  BY <1>2, <1>3
<1> QED
  BY <1>4 DEF Min

-----------------------------------------------------------------------------
(* Entries, versions and the registry's tags.                                 *)

LEMMA Numbers ==
  /\ Versions \subseteq Nat \ {0} /\ Versions \subseteq Nat /\ latest \notin Versions
  /\ Entries \subseteq Nat /\ Semver \subseteq Versions
  /\ \A e \in Entries : Keys[e].libc \in {"none", "glibc", "musl"}
  /\ \A e \in Entries : Keys[e] \in [base : STRING, libc : {"none", "glibc", "musl"}]
<1> DEFINE Records == [base : STRING, libc : {"none", "glibc", "musl"}]
<1>1. Keys \in Seq(Records)
  BY KeyAssumption
<1>2. ASSUME NEW e \in Entries PROVE e \in Nat /\ Keys[e] \in Records
  <2>. HIDE DEF Records
  <2>. QED
    BY <1>1, <1>2 DEF Entries
<1>3. \A e \in Entries : Keys[e].libc \in {"none", "glibc", "musl"}
  BY <1>2
<1>. QED
  BY <1>2, <1>3, VersionAssumption, SemverAssumption DEF latest

LEMMA FirstEntry ==
  ASSUME NEW S \in SUBSET Entries, S # {}
  PROVE  Min(S) \in S
  BY Numbers, SmallestOf

\* What a run is at in each of its steps.
RunOK ==
    /\ run.step = "idle" => run.plan = {}
    /\ run.step = "push" => run.version \in VersionsOf(run.plan) /\ run.ready \subseteq Built(run.version)
    /\ run.step # "push" => run.ready = {} /\ run.failed = {} /\ run.pushed = {}

TypeInv == TypeOK /\ RunOK

LEMMA NoRunTypes ==
  /\ NoRun \in RunStates /\ NoRun.step = "idle" /\ NoRun.plan = {} /\ NoRun.todo = {}
  /\ NoRun.ready = {} /\ NoRun.failed = {} /\ NoRun.pushed = {} /\ NoRun.known = {}
  /\ NoRun.green = {} /\ NoRun.red = FALSE
  BY BoundAssumption DEF NoRun, RunStates, Steps, Tags, latest

LEMMA InitTypes == Init => TypeInv
<1> SUFFICES ASSUME Init PROVE TypeInv
  OBVIOUS
<1> USE DEF Init
<1>1. TagTypes
  BY Numbers DEF TagTypes, Tags, Absent, Envs, None
<1>. QED
  BY <1>1, NoRunTypes, BoundAssumption DEF TypeInv, TypeOK, RunTypes, WorldTypes, RunOK

LEMMA PlanVersions ==
  ASSUME TypeInv
  PROVE  /\ VersionsOf(run.plan) \subseteq Versions
         /\ VersionsOf(run.todo) \subseteq VersionsOf(run.plan)
  BY DEF VersionsOf, TypeInv, TypeOK, RunTypes, RunStates

\* What a push needs: an environment of the run's version, for a key of its plan.
LEMMA LegTypes ==
  ASSUME TypeInv, Pushing
  PROVE  /\ Leg \in run.ready /\ Leg \in Entries /\ Leg \in Built(run.version)
         /\ run.version \in Versions
         /\ Env \in Envs /\ Env[1] = run.version /\ Env # None /\ Env = <<run.version, run.revision>>
<1>1. run.ready \in SUBSET Entries /\ run.ready # {} /\ run.revision \in 0..MaxRevision
  BY DEF TypeInv, TypeOK, RunTypes, RunStates, Pushing
<1>2. Leg \in run.ready
  BY <1>1, FirstEntry DEF Leg
<1>3. run.version \in Versions /\ run.version # 0
  BY PlanVersions, Numbers DEF TypeInv, RunOK, Pushing
<1>. QED
  BY <1>1, <1>2, <1>3 DEF TypeInv, RunOK, Pushing, Env, PlannedLock, Envs, None

\* The tags as the push of an environment leaves them.
LEMMA PushedTags ==
  ASSUME TypeInv, Pushing, NEW cascade \in BOOLEAN
  PROVE  LET new == Pushed(cascade) IN
         /\ new \in [Tags -> [Entries -> Envs]]
         /\ new[run.version][Leg] = Env
         /\ \A w \in Versions : \A q \in Entries :
               ~(w = run.version /\ q = Leg) => new[w][q] = tags[w][q]
<1> DEFINE new == Pushed(cascade)
           mid == [tags EXCEPT ![run.version] = [tags[run.version] EXCEPT ![Leg] = Env]]
           top == IF cascade /\ ~Blocked(run.version, Leg) THEN Env ELSE tags[latest][Leg]
<1>1. run.version \in Tags /\ latest \in Tags /\ latest # run.version /\ Leg \in Entries /\ Env \in Envs
  BY LegTypes, Numbers DEF Tags
<1>2. tags \in [Tags -> [Entries -> Envs]]
  BY DEF TypeInv, TypeOK, TagTypes
<1>3. /\ mid \in [Tags -> [Entries -> Envs]] /\ mid[latest] = tags[latest]
      /\ mid[run.version] = [tags[run.version] EXCEPT ![Leg] = Env]
      /\ \A w \in Tags : w # run.version => mid[w] = tags[w]
  BY <1>1, <1>2
<1>4. top \in Envs
  BY <1>1, <1>2
<1>5. new = [mid EXCEPT ![latest] = [tags[latest] EXCEPT ![Leg] = top]]
  BY <1>1, <1>2, <1>3 DEF Pushed
<1>. HIDE DEF new, mid, top
<1>6. [tags[latest] EXCEPT ![Leg] = top] \in [Entries -> Envs]
  BY <1>1, <1>2, <1>4
<1>7. /\ new \in [Tags -> [Entries -> Envs]]
      /\ \A w \in Tags : w # latest => new[w] = mid[w]
  BY <1>1, <1>3, <1>5, <1>6
<1>8. /\ new[run.version] = [tags[run.version] EXCEPT ![Leg] = Env]
      /\ \A w \in Versions : w # run.version => new[w] = tags[w]
  BY <1>1, <1>3, <1>7, Numbers DEF Tags
<1>9. tags[run.version] \in [Entries -> Envs]
  BY <1>1, <1>2
<1>. QED
  BY <1>1, <1>7, <1>8, <1>9 DEF new

\* A version's tag changes where a leg is pushed, and becomes that environment.
LEMMA VersionTagStep ==
  ASSUME TypeInv, [Next]_vars
  PROVE  /\ TagTypes'
         /\ \A v \in Versions : \A e \in Entries :
               \/ tags'[v][e] = tags[v][e]
               \/ /\ Pushing /\ v = run.version /\ e = Leg /\ tags'[v][e] = Env
                  /\ Push \/ FailPush \/ Kill
<1>0. TagTypes
  BY DEF TypeInv, TypeOK
<1>1. CASE UNCHANGED tags
  BY <1>0, <1>1 DEF TagTypes
<1>2. ASSUME NEW cascade \in BOOLEAN, Pushing, tags' = Pushed(cascade), Push \/ FailPush \/ Kill
      PROVE  /\ TagTypes'
             /\ \A v \in Versions : \A e \in Entries :
                   \/ tags'[v][e] = tags[v][e]
                   \/ /\ Pushing /\ v = run.version /\ e = Leg /\ tags'[v][e] = Env
                      /\ Push \/ FailPush \/ Kill
  <2>1. /\ tags' \in [Tags -> [Entries -> Envs]] /\ tags'[run.version][Leg] = Env
        /\ \A w \in Versions : \A q \in Entries :
              ~(w = run.version /\ q = Leg) => tags'[w][q] = tags[w][q]
    BY <1>2, PushedTags
  <2>2. \A v \in Versions : \A e \in Entries : tags'[v][e][1] \in {0, v}
    BY <1>0, <1>2, <2>1, LegTypes DEF TagTypes
  <2>. QED
    BY <1>2, <2>1, <2>2 DEF TagTypes
<1>3. CASE Push \/ FailPush \/ Kill
  <2>1. Cascades \in BOOLEAN /\ FALSE \in BOOLEAN
    BY DEF Cascades
  <2>2. CASE Push
    <3>1. Pushing /\ tags' = Pushed(Cascades)
      BY <2>2 DEF Push
    <3>. QED
      BY <1>2, <2>1, <2>2, <3>1
  <2>3. CASE FailPush
    <3>1. Pushing /\ (UNCHANGED tags \/ tags' = Pushed(FALSE) \/ tags' = Pushed(Cascades))
      BY <2>3 DEF FailPush
    <3>. QED
      BY <1>1, <1>2, <2>1, <2>3, <3>1
  <2>4. CASE Kill
    <3>1. UNCHANGED tags \/ (Pushing /\ tags' = Pushed(FALSE))
      BY <2>4 DEF Kill
    <3>. QED
      BY <1>1, <1>2, <2>1, <2>4, <3>1
  <2>. QED
    BY <1>3, <2>2, <2>3, <2>4
<1>4. CASE EndVersion
  <2>1. PICK lost : tags' = [tags EXCEPT ![latest] = [e \in Entries |->
                        IF e \in (Awaiting \cup Aliased) \ lost
                        THEN tags[run.version][e] ELSE tags[latest][e]]]
    BY <1>4 DEF EndVersion
  <2> DEFINE top == [e \in Entries |-> IF e \in (Awaiting \cup Aliased) \ lost
                        THEN tags[run.version][e] ELSE tags[latest][e]]
  <2>2. run.version \in Tags /\ latest \in Tags
    BY DEF TypeInv, TypeOK, RunTypes, RunStates, Tags
  <2>3. top \in [Entries -> Envs]
    BY <1>0, <2>2 DEF TagTypes
  <2>. HIDE DEF top
  <2>4. tags' = [tags EXCEPT ![latest] = top]
    BY <2>1 DEF top
  <2>5. tags' \in [Tags -> [Entries -> Envs]] /\ \A v \in Versions : tags'[v] = tags[v]
    BY <1>0, <2>2, <2>3, <2>4, Numbers DEF TagTypes, Tags
  <2>. QED
    BY <1>0, <2>5 DEF TagTypes
<1>5. CASE Release \/ MoveIndex \/ Plan \/ Prepare \/ Test \/ BeginVersion \/ SkipExisting \/ Finish
           \/ UNCHANGED vars
  <2>1. UNCHANGED tags
    BY <1>5 DEF Release, MoveIndex, Plan, Prepare, Test, BeginVersion, SkipExisting, Finish, vars, registry
  <2>. QED
    BY <1>1, <2>1
<1>. QED
  BY <1>3, <1>4, <1>5 DEF Next, RunStep

\* The version a run begins: the first of those it has left.
LEMMA NextVersion ==
  ASSUME TypeInv, run.todo # {}
  PROVE  LET v == Min(VersionsOf(run.todo)) IN
         v \in VersionsOf(run.todo) /\ v \in VersionsOf(run.plan) /\ v \in Versions
<1>1. VersionsOf(run.todo) \subseteq Versions /\ VersionsOf(run.todo) \subseteq VersionsOf(run.plan)
  BY PlanVersions
<1>2. VersionsOf(run.todo) # {}
  BY DEF VersionsOf
<1>3. VersionsOf(run.todo) \in SUBSET Nat
  BY <1>1, Numbers
<1>4. Min(VersionsOf(run.todo)) \in VersionsOf(run.todo)
  BY <1>2, <1>3, SmallestOf
<1>. QED
  BY <1>1, <1>4

\* The registration of an environment's wheels.
LEMMA RegisteredTypes ==
  ASSUME TypeInv, Pushing, NEW missed \in SUBSET (Wheels[Leg] \ run.known), Registered(missed)
  PROVE  RunTypes' /\ RunOK' /\ wheels' \subseteq AllWheels
<1>1. /\ run \in RunStates /\ run.todo \subseteq run.plan /\ run.known \subseteq wheels
      /\ run.ready \cap (run.failed \cup run.pushed) = {} /\ wheels \subseteq AllWheels
  BY DEF TypeInv, TypeOK, RunTypes, WorldTypes
<1>2. Leg \in run.ready /\ Leg \in Entries
  BY LegTypes
<1>3. Wheels[Leg] \subseteq AllWheels
  BY <1>2 DEF AllWheels
<1>4. run' = [run EXCEPT !.known = run.known \cup (Wheels[Leg] \ missed),
                         !.ready = run.ready \ {Leg}, !.pushed = run.pushed \cup {Leg}]
  BY DEF Registered
<1>5. wheels' = wheels \cup (Wheels[Leg] \ (run.known \cup missed))
  BY DEF Registered
<1>. HIDE DEF AllWheels
<1>6. /\ run' \in RunStates /\ run'.ready = run.ready \ {Leg} /\ run'.pushed = run.pushed \cup {Leg}
      /\ run'.failed = run.failed /\ run'.plan = run.plan /\ run'.todo = run.todo
      /\ run'.step = run.step /\ run'.version = run.version
      /\ run'.known = run.known \cup (Wheels[Leg] \ missed)
  BY <1>1, <1>2, <1>3, <1>4 DEF RunStates
<1>7. RunTypes'
  BY <1>1, <1>5, <1>6 DEF RunTypes
<1>8. RunOK'
  BY <1>6 DEF RunOK, TypeInv, Pushing, Built
<1>. QED
  BY <1>1, <1>3, <1>5, <1>7, <1>8

\* A step keeps what the run is at.
LEMMA RunTypesStep ==
  ASSUME TypeInv, [Next]_vars
  PROVE  RunTypes' /\ RunOK'
<1>1. /\ run \in RunStates /\ run.todo \subseteq run.plan /\ run.known \subseteq wheels
      /\ run.ready \cap (run.failed \cup run.pushed) = {}
  BY DEF TypeInv, TypeOK, RunTypes
<1>2. RunOK
  BY DEF TypeInv
<1>3. CASE Release \/ MoveIndex \/ UNCHANGED vars
  <2>1. UNCHANGED <<run, wheels>>
    BY <1>3 DEF Release, MoveIndex, vars, registry
  <2>. QED
    BY <1>1, <1>2, <2>1 DEF RunTypes, RunOK, Built
<1>4. CASE Finish \/ Kill
  <2>1. run' = NoRun /\ UNCHANGED wheels
    BY <1>4 DEF Finish, Kill, registry
  <2>. QED
    BY <2>1, NoRunTypes DEF RunTypes, RunOK
<1>5. CASE Plan
  <2> DEFINE plan == {t \in Selected \X Entries : t[2] \in Outstanding(t[1])}
  <2>1. /\ run' = [NoRun EXCEPT !.step = "prepare", !.revision = revision, !.plan = plan]
        /\ UNCHANGED wheels
    BY <1>5 DEF Plan, Lock, registry
  <2>2. plan \in SUBSET (Versions \X Entries)
    BY DEF Selected, Candidates, Listed, TypeInv, TypeOK, WorldTypes
  <2>3. revision \in 0..MaxRevision
    BY DEF TypeInv, TypeOK, WorldTypes
  <2>. HIDE DEF plan
  <2>4. /\ run' \in RunStates /\ run'.step = "prepare" /\ run'.todo = {} /\ run'.known = {}
        /\ run'.ready = {} /\ run'.failed = {} /\ run'.pushed = {}
    BY <2>1, <2>2, <2>3, NoRunTypes DEF RunStates, Steps
  <2>. QED
    BY <2>4 DEF RunTypes, RunOK
<1>6. CASE Prepare
  <2>1. PICK broken \in SUBSET run.plan :
          run' = [run EXCEPT !.step = IF broken = {} THEN "test" ELSE "version",
                             !.plan = Composed(broken), !.todo = Composed(broken)]
    BY <1>6 DEF Prepare
  <2>2. Composed(broken) \in SUBSET run.plan /\ UNCHANGED wheels /\ run.step = "prepare"
    BY <1>6 DEF Composed, Prepare, registry
  <2>3. /\ run' \in RunStates /\ run'.step \in {"test", "version"} /\ run'.todo = run'.plan
        /\ run'.known = run.known /\ run'.ready = run.ready /\ run'.failed = run.failed
        /\ run'.pushed = run.pushed
    BY <1>1, <2>1, <2>2 DEF RunStates, Steps
  <2>. QED
    BY <1>1, <1>2, <2>2, <2>3 DEF RunTypes, RunOK
<1>7. CASE Test
  <2>1. PICK flaky \in SUBSET Sound :
          run' = [run EXCEPT !.step = "version",
                !.green = {t \in Sound : \A u \in Tested :
                              u[2] = t[2] /\ u[1] <= t[1] => u \in Sound \ flaky}]
    BY <1>7 DEF Test
  <2>2. Sound \in SUBSET (Versions \X Legs)
    BY PlanVersions DEF Sound, Tested
  <2>3. {t \in Sound : \A u \in Tested :
            u[2] = t[2] /\ u[1] <= t[1] => u \in Sound \ flaky} \in SUBSET (Versions \X Legs)
    BY <2>2
  <2>4. UNCHANGED wheels /\ run.step = "test"
    BY <1>7 DEF Test, registry
  <2>5. /\ run' \in RunStates /\ run'.step = "version" /\ run'.todo = run.todo
        /\ run'.plan = run.plan /\ run'.known = run.known /\ run'.ready = run.ready
        /\ run'.failed = run.failed /\ run'.pushed = run.pushed
    BY <1>1, <2>1, <2>3 DEF RunStates, Steps
  <2>. QED
    BY <1>1, <1>2, <2>4, <2>5 DEF RunTypes, RunOK
<1>8. CASE BeginVersion
  <2> DEFINE v == Min(VersionsOf(run.todo))
             good == {e \in Built(v) : Green(v, e)}
             bad == {e \in Built(v) : ~Green(v, e)}
             rest == {t \in run.todo : t[1] # v}
  <2>1. v \in VersionsOf(run.plan) /\ v \in Versions
    BY <1>8, NextVersion DEF BeginVersion
  <2>2. /\ run' = [run EXCEPT !.step = "push", !.version = v, !.todo = rest,
                              !.ready = good, !.failed = bad]
        /\ UNCHANGED wheels /\ run.step = "version"
    BY <1>8 DEF BeginVersion, registry
  <2>3. /\ good \subseteq Entries /\ bad \subseteq Entries /\ good \cap bad = {}
        /\ good \subseteq Built(v) /\ rest \subseteq run.todo
    BY DEF Built
  <2>. HIDE DEF good, bad, rest, v
  <2>4. /\ run' \in RunStates /\ run'.step = "push" /\ run'.todo = rest /\ run'.plan = run.plan
        /\ run'.version = v /\ run'.ready = good /\ run'.failed = bad
        /\ run'.known = run.known /\ run'.pushed = run.pushed
    BY <1>1, <2>1, <2>2, <2>3 DEF RunStates, Steps, Tags
  <2>5. {e \in Entries : <<v, e>> \in run'.plan} = Built(v)
    BY <2>4 DEF Built
  <2>6. RunTypes'
    BY <1>1, <1>2, <2>2, <2>3, <2>4 DEF RunTypes, RunOK
  <2>. QED
    BY <2>1, <2>3, <2>4, <2>5, <2>6 DEF RunOK, Built
<1>9. CASE Push
  BY <1>9, RegisteredTypes DEF Push
<1>10. CASE SkipExisting \/ FailPush
  <2>1. Leg \in run.ready /\ Leg \in Entries /\ run.step = "push" /\ UNCHANGED wheels
    BY <1>10, LegTypes DEF SkipExisting, FailPush, registry, Pushing
  <2>2. PICK f \in SUBSET {Leg} :
          run' = [run EXCEPT !.ready = run.ready \ {Leg}, !.failed = run.failed \cup f]
    <3>1. CASE SkipExisting
      <4>1. run' = [run EXCEPT !.ready = run.ready \ {Leg}]
        BY <3>1 DEF SkipExisting
      <4>2. run' = [run EXCEPT !.ready = run.ready \ {Leg}, !.failed = run.failed \cup {}]
        BY <1>1, <4>1 DEF RunStates
      <4>. QED
        BY <4>2
    <3>2. CASE FailPush
      BY <3>2 DEF FailPush, GivenUp
    <3>. QED
      BY <1>10, <3>1, <3>2
  <2>3. /\ run' \in RunStates /\ run'.step = run.step /\ run'.todo = run.todo
        /\ run'.plan = run.plan /\ run'.version = run.version /\ run'.ready = run.ready \ {Leg}
        /\ run'.failed = run.failed \cup f /\ run'.known = run.known /\ run'.pushed = run.pushed
    BY <1>1, <2>1, <2>2 DEF RunStates
  <2>. QED
    BY <1>1, <1>2, <2>1, <2>3 DEF RunTypes, RunOK, Built
<1>11. CASE EndVersion
  <2>1. /\ run' = [run EXCEPT !.step = "version", !.version = 0, !.failed = {}, !.pushed = {},
                              !.red = run.red \/ run.failed # {}]
        /\ run.ready = {} /\ UNCHANGED wheels
    BY <1>11 DEF EndVersion
  <2>2. /\ run' \in RunStates /\ run'.step = "version" /\ run'.todo = run.todo
        /\ run'.plan = run.plan /\ run'.ready = {} /\ run'.failed = {}
        /\ run'.pushed = {} /\ run'.known = run.known
    BY <1>1, <2>1 DEF RunStates, Steps, Tags, latest
  <2>. QED
    BY <1>1, <2>1, <2>2 DEF RunTypes, RunOK
<1>. QED
  BY <1>3, <1>4, <1>5, <1>6, <1>7, <1>8, <1>9, <1>10, <1>11 DEF Next, RunStep

\* A step keeps the world's types.
LEMMA WorldTypesStep ==
  ASSUME TypeInv, [Next]_vars
  PROVE  WorldTypes'
<1>1. /\ released \subseteq Versions /\ revision \in 0..MaxRevision /\ wheels \subseteq AllWheels
      /\ reds \in 0..MaxReds /\ faults \in 0..MaxFaults /\ MaxReds \in Nat /\ MaxFaults \in Nat
      /\ MaxRevision \in Nat
  BY BoundAssumption DEF TypeInv, TypeOK, WorldTypes
<1>2. released' \subseteq Versions
  BY <1>1 DEF Next, RunStep, Release, MoveIndex, Plan, Prepare, Test, BeginVersion, Push,
      SkipExisting, FailPush, EndVersion, Finish, Kill, vars, index
<1>3. revision' \in 0..MaxRevision
  <2>1. UNCHANGED revision \/ MoveIndex
    BY DEF Next, RunStep, Release, Plan, Prepare, Test, BeginVersion, Push,
        SkipExisting, FailPush, EndVersion, Finish, Kill, vars, index
  <2>2. CASE MoveIndex
    <3>1. revision < MaxRevision /\ revision' = revision + 1
      BY <2>2 DEF MoveIndex
    <3>. QED
      BY <1>1, <3>1
  <2>. QED
    BY <1>1, <2>1, <2>2
<1>4. wheels' \subseteq AllWheels
  <2>1. CASE Push
    BY <2>1, RegisteredTypes DEF Push
  <2>2. CASE ~Push
    <3>1. UNCHANGED wheels
      BY <2>2 DEF Next, RunStep, Release, MoveIndex, Plan, Prepare, Test, BeginVersion,
          SkipExisting, FailPush, EndVersion, Finish, Kill, vars, registry
    <3>. QED
      BY <1>1, <3>1 DEF AllWheels
  <2>. QED
    BY <2>1, <2>2
<1>5. reds' \in 0..MaxReds
  <2>1. \/ UNCHANGED reds \/ (reds < MaxReds /\ reds' = reds + 1)
    BY DEF Next, RunStep, Release, MoveIndex, Plan, Prepare, Test, BeginVersion, Push,
        SkipExisting, FailPush, EndVersion, Finish, Kill, vars, bounds
  <2>. QED
    BY <1>1, <2>1
<1>6. faults' \in 0..MaxFaults
  <2>1. UNCHANGED faults \/ Failure
    BY DEF Next, RunStep, Release, MoveIndex, Plan, Prepare, Test, BeginVersion, Push,
        SkipExisting, FailPush, EndVersion, Finish, Kill, vars, bounds
  <2>. QED
    BY <1>1, <2>1 DEF Failure
<1>. QED
  BY <1>2, <1>3, <1>4, <1>5, <1>6 DEF WorldTypes, AllWheels

LEMMA TypeStep == TypeInv /\ [Next]_vars => TypeInv'
  BY VersionTagStep, RunTypesStep, WorldTypesStep DEF TypeInv, TypeOK

\* Every variable keeps its type: a tag of a version holds an environment of that very
\* version, a run has nothing prepared for another version than the one it pushes, no
\* environment is ready and decided at once, and what a run knows to be registered is.
THEOREM TypeCorrect == Spec => []TypeOK
<1>1. TypeInv /\ [Next]_vars => TypeInv'
  BY TypeStep
<1>2. TypeInv => TypeOK
  BY DEF TypeInv
<1>. QED
  BY InitTypes, <1>1, <1>2, PTL DEF Spec

-----------------------------------------------------------------------------
(* What each step does to the run.                                            *)

LEMMA DecideFrame ==
  ASSUME TypeInv, Push \/ SkipExisting \/ FailPush
  PROVE  /\ Pushing /\ run'.step = "push" /\ run'.plan = run.plan /\ run'.todo = run.todo
         /\ run'.version = run.version /\ run'.green = run.green
         /\ run'.revision = run.revision /\ run'.red = run.red
         /\ run'.ready = run.ready \ {Leg}
         /\ Push => run'.failed = run.failed /\ tags' = Pushed(Cascades)
         /\ SkipExisting => run'.failed = run.failed /\ tags[run.version][Leg] = Env
         /\ FailPush => run'.failed = run.failed \cup {Leg}
<1>1. run \in RunStates
  BY DEF TypeInv, TypeOK, RunTypes
<1>2. CASE Push
  <2>1. PICK missed : run' = [run EXCEPT !.known = run.known \cup (Wheels[Leg] \ missed),
                         !.ready = run.ready \ {Leg}, !.pushed = run.pushed \cup {Leg}]
    BY <1>2 DEF Push, Registered
  <2>2. Pushing /\ tags' = Pushed(Cascades)
    BY <1>2 DEF Push
  <2>3. ~FailPush
    <3>1. FailPush => run'.ready = run.ready \ {Leg} /\ run'.pushed = run.pushed
      BY <1>1 DEF FailPush, GivenUp, RunStates
    <3>2. Leg \in run'.pushed /\ Leg \notin run.pushed
      BY <1>1, <2>1, <2>2, LegTypes DEF RunStates, TypeInv, TypeOK, RunTypes
    <3>. QED
      BY <3>1, <3>2
  <2>4. ~SkipExisting
    <3>1. SkipExisting => run'.pushed = run.pushed
      BY <1>1 DEF SkipExisting, RunStates
    <3>2. Leg \in run'.pushed /\ Leg \notin run.pushed
      BY <1>1, <2>1, <2>2, LegTypes DEF RunStates, TypeInv, TypeOK, RunTypes
    <3>. QED
      BY <3>1, <3>2
  <2>. QED
    BY <1>1, <2>1, <2>2, <2>3, <2>4 DEF RunStates, Pushing
<1>3. CASE SkipExisting /\ ~Push
  <2>1. /\ run' = [run EXCEPT !.ready = run.ready \ {Leg}] /\ Pushing
        /\ tags[run.version][Leg] = Env
    BY <1>3 DEF SkipExisting
  <2>2. ~FailPush
    <3>1. FailPush => run'.failed = run.failed \cup {Leg}
      BY <1>1 DEF FailPush, GivenUp, RunStates
    <3>2. run'.failed = run.failed /\ Leg \notin run.failed
      BY <1>1, <2>1, LegTypes DEF RunStates, TypeInv, TypeOK, RunTypes
    <3>. QED
      BY <3>1, <3>2
  <2>. QED
    BY <1>1, <1>3, <2>1, <2>2 DEF RunStates, Pushing
<1>4. CASE FailPush /\ ~Push /\ ~SkipExisting
  <2>1. run' = [run EXCEPT !.ready = run.ready \ {Leg}, !.failed = run.failed \cup {Leg}] /\ Pushing
    BY <1>4 DEF FailPush, GivenUp
  <2>. QED
    BY <1>1, <1>4, <2>1 DEF RunStates, Pushing
<1>. QED
  BY <1>2, <1>3, <1>4

LEMMA BeginFrame ==
  ASSUME TypeInv, BeginVersion, NEW v, v = Min(VersionsOf(run.todo))
  PROVE  /\ run.step = "version" /\ run'.step = "push" /\ run'.plan = run.plan
         /\ run'.todo = {t \in run.todo : t[1] # v} /\ run'.version = v
         /\ run'.green = run.green /\ run'.revision = run.revision /\ run'.red = run.red
         /\ run'.ready = {e \in Built(v) : Green(v, e)}
         /\ run'.failed = {e \in Built(v) : ~Green(v, e)}
         /\ UNCHANGED tags /\ v \in VersionsOf(run.todo) /\ v \in Versions
<1>1. run \in RunStates
  BY DEF TypeInv, TypeOK, RunTypes
<1>2. /\ run' = [run EXCEPT !.step = "push", !.version = v,
                            !.todo = {t \in run.todo : t[1] # v},
                            !.ready = {e \in Built(v) : Green(v, e)},
                            !.failed = {e \in Built(v) : ~Green(v, e)}]
      /\ run.step = "version" /\ run.todo # {} /\ UNCHANGED tags
  BY DEF BeginVersion, registry
<1>. QED
  BY <1>1, <1>2, NextVersion DEF RunStates

LEMMA EndFrame ==
  ASSUME TypeInv, EndVersion
  PROVE  /\ run.step = "push" /\ run.ready = {} /\ run'.step = "version"
         /\ run'.plan = run.plan /\ run'.todo = run.todo /\ run'.green = run.green
         /\ run'.revision = run.revision /\ run'.red = (run.red \/ run.failed # {})
         /\ run'.ready = {}
<1>1. run \in RunStates
  BY DEF TypeInv, TypeOK, RunTypes
<1>. QED
  BY <1>1 DEF EndVersion, RunStates

LEMMA PlanFrame ==
  ASSUME TypeInv, Plan
  PROVE  /\ run'.step = "prepare" /\ run'.todo = {} /\ run'.ready = {} /\ run'.green = {}
         /\ run'.plan = {t \in Selected \X Entries : t[2] \in Outstanding(t[1])}
         /\ Selected \subseteq Versions /\ UNCHANGED tags
<1>1. run' = [NoRun EXCEPT !.step = "prepare", !.revision = Lock,
                           !.plan = {t \in Selected \X Entries : t[2] \in Outstanding(t[1])}]
  BY DEF Plan
<1>2. Selected \subseteq Versions
  BY DEF Selected, Candidates, Listed, TypeInv, TypeOK, WorldTypes
<1>. QED
  BY <1>1, <1>2, NoRunTypes DEF RunStates, Plan, registry

LEMMA PrepareFrame ==
  ASSUME TypeInv, Prepare
  PROVE  \E broken \in SUBSET run.plan :
         /\ run.step = "prepare" /\ run'.step \in {"test", "version"}
         /\ run'.plan = Composed(broken) /\ run'.todo = Composed(broken)
         /\ run'.green = run.green /\ run'.ready = run.ready /\ UNCHANGED tags
<1>1. run \in RunStates
  BY DEF TypeInv, TypeOK, RunTypes
<1>2. PICK broken \in SUBSET run.plan :
        run' = [run EXCEPT !.step = IF broken = {} THEN "test" ELSE "version",
                           !.plan = Composed(broken), !.todo = Composed(broken)]
  BY DEF Prepare
<1>. QED
  BY <1>1, <1>2 DEF RunStates, Prepare, registry

LEMMA TestFrame ==
  ASSUME TypeInv, Test
  PROVE  /\ run.step = "test" /\ run'.step = "version" /\ run'.plan = run.plan
         /\ run'.todo = run.todo /\ run'.ready = run.ready /\ run'.green \subseteq Sound
         /\ UNCHANGED tags
<1>1. run \in RunStates
  BY DEF TypeInv, TypeOK, RunTypes
<1>2. PICK flaky \in SUBSET Sound :
          run' = [run EXCEPT !.step = "version",
                !.green = {t \in Sound : \A u \in Tested :
                              u[2] = t[2] /\ u[1] <= t[1] => u \in Sound \ flaky}]
  BY DEF Test
<1>. QED
  BY <1>1, <1>2 DEF RunStates, Test, registry

\* The steps that start no run and move none on.
LEMMA OtherSteps ==
  ASSUME TypeInv, [Next]_vars
  PROVE  \/ UNCHANGED <<run, tags>> \/ run' = NoRun
         \/ Plan \/ Prepare \/ Test \/ BeginVersion \/ Push \/ SkipExisting \/ FailPush
         \/ EndVersion
  BY DEF Next, RunStep, Release, MoveIndex, Finish, Kill, vars, registry

-----------------------------------------------------------------------------
(* What a run pushes is not there yet.                                        *)

\* The environments of a version are left together, and a version is pushed once.
Grouped ==
    /\ run.step = "test" => run.todo = run.plan
    /\ \A t \in run.plan : t[1] \in VersionsOf(run.todo) => t \in run.todo
    /\ run.step = "push" => run.version \notin VersionsOf(run.todo)

\* What a run has prepared or left to push of a parsed version is in no tag.
Fresh ==
    /\ run.step = "prepare" =>
          \A t \in run.plan : t[1] \in Semver => tags[t[1]][t[2]] = None
    /\ \A t \in run.todo : t[1] \in Semver => tags[t[1]][t[2]] = None
    /\ \A e \in run.ready : run.version \in Semver => tags[run.version][e] = None

FreshInv == TypeInv /\ Grouped /\ Fresh

LEMMA InitFresh == Init => FreshInv
  BY InitTypes, NoRunTypes DEF Init, FreshInv, Grouped, Fresh

LEMMA GroupedStep ==
  ASSUME TypeInv, Grouped, [Next]_vars
  PROVE  Grouped'
<1>1. CASE UNCHANGED <<run, tags>>
  BY <1>1 DEF Grouped, VersionsOf
<1>2. CASE run' = NoRun
  BY <1>2, NoRunTypes DEF Grouped, VersionsOf
<1>3. CASE Plan
  BY <1>3, PlanFrame DEF Grouped, VersionsOf
<1>4. CASE Prepare
  <2>1. run'.todo = run'.plan /\ run'.step # "push"
    BY <1>4, PrepareFrame
  <2>. QED
    BY <2>1 DEF Grouped
<1>5. CASE Test
  BY <1>5, TestFrame DEF Grouped, VersionsOf
<1>6. CASE BeginVersion
  <2>1. PICK v : v = Min(VersionsOf(run.todo))
    OBVIOUS
  <2>2. /\ run'.step = "push" /\ run'.plan = run.plan /\ run'.version = v
        /\ run'.todo = {t \in run.todo : t[1] # v}
    BY <1>6, <2>1, BeginFrame
  <2>. QED
    BY <2>2 DEF Grouped, VersionsOf
<1>7. CASE Push \/ SkipExisting \/ FailPush
  BY <1>7, DecideFrame DEF Grouped, VersionsOf, Pushing
<1>8. CASE EndVersion
  BY <1>8, EndFrame DEF Grouped, VersionsOf
<1>. QED
  BY <1>1, <1>2, <1>3, <1>4, <1>5, <1>6, <1>7, <1>8, OtherSteps

LEMMA FreshStep == FreshInv /\ [Next]_vars => FreshInv'
<1> SUFFICES ASSUME FreshInv, [Next]_vars PROVE FreshInv'
  OBVIOUS
<1>0. TypeInv /\ Grouped /\ Fresh
  BY DEF FreshInv
<1>1. TypeInv' /\ Grouped'
  BY <1>0, TypeStep, GroupedStep
<1>2. CASE UNCHANGED <<run, tags>>
  BY <1>0, <1>1, <1>2 DEF FreshInv, Fresh
<1>3. CASE run' = NoRun
  BY <1>1, <1>3, NoRunTypes DEF FreshInv, Fresh
<1>4. CASE Plan
  <2>1. /\ run'.step = "prepare" /\ run'.todo = {} /\ run'.ready = {} /\ UNCHANGED tags
        /\ run'.plan = {t \in Selected \X Entries : t[2] \in Outstanding(t[1])}
    BY <1>0, <1>4, PlanFrame
  <2>2. \A t \in run'.plan : t[1] \in Semver => tags[t[1]][t[2]] = None
    BY <2>1 DEF Outstanding
  <2>. QED
    BY <1>1, <2>1, <2>2 DEF FreshInv, Fresh
<1>5. CASE Prepare
  <2>1. /\ run.step = "prepare" /\ run'.step # "prepare" /\ run'.todo \subseteq run.plan
        /\ run'.ready = {} /\ UNCHANGED tags
    BY <1>0, <1>5, PrepareFrame DEF Composed, TypeInv, RunOK
  <2>. QED
    BY <1>0, <1>1, <2>1 DEF FreshInv, Fresh
<1>6. CASE Test
  <2>1. run'.step # "prepare" /\ run'.todo = run.todo /\ run'.ready = {} /\ UNCHANGED tags
    BY <1>0, <1>6, TestFrame DEF TypeInv, RunOK
  <2>. QED
    BY <1>0, <1>1, <2>1 DEF FreshInv, Fresh
<1>7. CASE BeginVersion
  <2>1. PICK v : v = Min(VersionsOf(run.todo))
    OBVIOUS
  <2>2. /\ run'.step = "push" /\ run'.version = v /\ run'.todo \subseteq run.todo /\ UNCHANGED tags
        /\ run'.ready \subseteq Built(v) /\ v \in VersionsOf(run.todo)
    BY <1>0, <1>7, <2>1, BeginFrame
  <2>3. \A e \in run'.ready : <<v, e>> \in run.todo
    BY <1>0, <2>2 DEF Grouped, Built
  <2>. QED
    BY <1>0, <1>1, <2>2, <2>3 DEF FreshInv, Fresh
<1>8. CASE Push \/ SkipExisting \/ FailPush
  <2>1. /\ Pushing /\ run'.step = "push" /\ run'.todo = run.todo /\ run'.version = run.version
        /\ run'.ready = run.ready \ {Leg}
    BY <1>0, <1>8, DecideFrame
  <2>2. /\ \A t \in run.todo : t \in Versions \X Entries /\ t[1] # run.version
        /\ run.ready \subseteq Entries /\ run.version \in Versions
    BY <1>0, <2>1, LegTypes DEF Grouped, VersionsOf, Pushing, TypeInv, TypeOK, RunTypes, RunStates
  <2>3. /\ \A t \in run.todo : tags'[t[1]][t[2]] = tags[t[1]][t[2]]
        /\ \A e \in run'.ready : tags'[run.version][e] = tags[run.version][e]
    BY <1>0, <2>1, <2>2, VersionTagStep
  <2>. QED
    BY <1>0, <1>1, <2>1, <2>3 DEF FreshInv, Fresh
<1>9. CASE EndVersion
  <2>1. run.step = "push" /\ run'.step = "version" /\ run'.todo = run.todo /\ run'.ready = {}
    BY <1>0, <1>9, EndFrame
  <2>2. /\ ~Pushing
        /\ \A t \in run.todo : t[1] \in Versions /\ t[2] \in Entries
    BY <1>0, <1>9, EndFrame DEF Pushing, TypeInv, TypeOK, RunTypes, RunStates
  <2>3. \A t \in run.todo : tags'[t[1]][t[2]] = tags[t[1]][t[2]]
    BY <1>0, <2>2, VersionTagStep
  <2>. QED
    BY <1>0, <1>1, <2>1, <2>3 DEF FreshInv, Fresh
<1>. QED
  BY <1>0, <1>2, <1>3, <1>4, <1>5, <1>6, <1>7, <1>8, <1>9, OtherSteps

\* A published environment of a version ocx can parse is never published again, with
\* however many runs after it, killed, red or failed: plan reads the registry once
\* (plan/env.rs), and the push job of that run, which may write much later, still writes
\* only what was missing then.
THEOREM PublishedIsKept == Spec => PublishedUnmoved
<1>1. FreshInv /\ [Next]_vars =>
        [\A v \in Semver : \A e \in Entries : tags[v][e] # None => tags'[v][e] = tags[v][e]]_vars
  <2> SUFFICES ASSUME FreshInv, [Next]_vars, NEW v \in Semver, NEW e \in Entries,
                      tags[v][e] # None
               PROVE  tags'[v][e] = tags[v][e]
    OBVIOUS
  <2>1. TypeInv /\ Fresh /\ v \in Versions
    BY Numbers DEF FreshInv
  <2>2. \/ tags'[v][e] = tags[v][e]
        \/ Pushing /\ v = run.version /\ e = Leg
    BY <2>1, VersionTagStep
  <2>3. ~(Pushing /\ v = run.version /\ e = Leg)
    BY <2>1, LegTypes DEF Fresh
  <2>. QED
    BY <2>2, <2>3
<1>. QED
  BY InitFresh, FreshStep, <1>1, PTL DEF Spec, PublishedUnmoved

-----------------------------------------------------------------------------
(* What a run has finished is there.                                          *)

\* The environments a run has put behind it are on their tags, unless it is red, and of
\* the version it is at each that is neither left nor failed is.
Done ==
    /\ run.step \in {"version", "push"} /\ ~run.red =>
          \A t \in run.plan \ run.todo :
             \/ run.step = "push" /\ t[1] = run.version
             \/ tags[t[1]][t[2]] = <<t[1], run.revision>>
    /\ run.step = "push" =>
          \A e \in Built(run.version) : \/ e \in run.ready \cup run.failed
                                        \/ tags[run.version][e] = Env

DoneInv == TypeInv /\ Grouped /\ Done

LEMMA InitDone == Init => DoneInv
  BY InitTypes, NoRunTypes DEF Init, DoneInv, Grouped, Done

LEMMA DoneStep == DoneInv /\ [Next]_vars => DoneInv'
<1> SUFFICES ASSUME DoneInv, [Next]_vars PROVE DoneInv'
  OBVIOUS
<1>0. TypeInv /\ Grouped /\ Done
  BY DEF DoneInv
<1>1. TypeInv' /\ Grouped'
  BY <1>0, TypeStep, GroupedStep
<1>a. run.plan \subseteq Versions \X Entries /\ run.todo \subseteq run.plan
  BY <1>0 DEF TypeInv, TypeOK, RunTypes, RunStates
<1>2. CASE UNCHANGED <<run, tags>>
  BY <1>0, <1>1, <1>2 DEF DoneInv, Done, Built, Env, PlannedLock
<1>3. CASE run' = NoRun
  BY <1>1, <1>3, NoRunTypes DEF DoneInv, Done
<1>4. CASE Plan
  <2>1. run'.step = "prepare"
    BY <1>0, <1>4, PlanFrame
  <2>. QED
    BY <1>1, <2>1 DEF DoneInv, Done
<1>5. CASE Prepare
  <2>1. run'.step # "push" /\ run'.todo = run'.plan
    BY <1>0, <1>5, PrepareFrame
  <2>. QED
    BY <1>1, <2>1 DEF DoneInv, Done
<1>6. CASE Test
  <2>1. run'.step = "version" /\ run'.todo = run'.plan
    BY <1>0, <1>6, TestFrame DEF Grouped
  <2>. QED
    BY <1>1, <2>1 DEF DoneInv, Done
<1>7. CASE BeginVersion
  <2>1. PICK v : v = Min(VersionsOf(run.todo))
    OBVIOUS
  <2>2. /\ run.step = "version" /\ run'.step = "push" /\ run'.version = v /\ run'.plan = run.plan
        /\ run'.todo = {t \in run.todo : t[1] # v} /\ UNCHANGED tags
        /\ run'.revision = run.revision /\ run'.red = run.red
        /\ run'.ready = {e \in Built(v) : Green(v, e)}
        /\ run'.failed = {e \in Built(v) : ~Green(v, e)}
    BY <1>0, <1>7, <2>1, BeginFrame
  <2>3. run'.step \in {"version", "push"} /\ ~run'.red =>
          \A t \in run'.plan \ run'.todo :
             \/ run'.step = "push" /\ t[1] = run'.version
             \/ tags'[t[1]][t[2]] = <<t[1], run'.revision>>
    BY <1>0, <2>2 DEF Done
  <2>4. \A e \in Built(v) : e \in run'.ready \cup run'.failed
    BY <2>2
  <2>5. Built(v) = {e \in Entries : <<v, e>> \in run'.plan}
    BY <2>2 DEF Built
  <2>. QED
    BY <1>1, <2>2, <2>3, <2>4, <2>5 DEF DoneInv, Done, Built
<1>8. CASE Push \/ SkipExisting \/ FailPush
  <2>1. /\ Pushing /\ run'.step = "push" /\ run'.plan = run.plan /\ run'.todo = run.todo
        /\ run'.version = run.version /\ run'.revision = run.revision /\ run'.red = run.red
        /\ run'.ready = run.ready \ {Leg} /\ run.failed \subseteq run'.failed
    BY <1>0, <1>8, DecideFrame
  <2>2. Leg \in run'.failed \/ tags'[run.version][Leg] = Env
    <3>1. CASE FailPush
      BY <1>0, <3>1, DecideFrame
    <3>2. CASE SkipExisting
      <4>1. tags[run.version][Leg] = Env /\ UNCHANGED tags
        BY <1>0, <3>2, DecideFrame DEF SkipExisting, registry
      <4>. QED
        BY <4>1
    <3>3. CASE Push
      <4>1. tags' = Pushed(Cascades) /\ Cascades \in BOOLEAN
        BY <1>0, <3>3, DecideFrame DEF Cascades
      <4>2. Pushed(Cascades)[run.version][Leg] = Env
        BY <1>0, <2>1, <4>1, PushedTags
      <4>. QED
        BY <4>1, <4>2
    <3>. QED
      BY <1>8, <3>1, <3>2, <3>3
  <2>3. run'.step \in {"version", "push"} /\ ~run'.red =>
          \A t \in run'.plan \ run'.todo :
             \/ run'.step = "push" /\ t[1] = run'.version
             \/ tags'[t[1]][t[2]] = <<t[1], run'.revision>>
    <3> SUFFICES ASSUME ~run.red, NEW t \in run.plan \ run.todo, t[1] # run.version
                 PROVE  tags'[t[1]][t[2]] = <<t[1], run.revision>>
      BY <2>1
    <3>1. t[1] \in Versions /\ t[2] \in Entries
      BY <1>a
    <3>2. tags'[t[1]][t[2]] = tags[t[1]][t[2]]
      BY <1>0, <3>1, VersionTagStep
    <3>. QED
      BY <1>0, <2>1, <3>2 DEF Done, Pushing
  <2>4. /\ run.version \in Versions /\ Built(run.version) \subseteq Entries
        /\ Built(run.version) = {e \in Entries : <<run.version, e>> \in run'.plan}
        /\ Env = <<run'.version, run'.revision>>
    BY <1>0, <2>1, LegTypes DEF Built
  <2>5. \A e \in Built(run.version) : \/ e \in run'.ready \cup run'.failed
                                      \/ tags'[run.version][e] = Env
    <3> SUFFICES ASSUME NEW e \in Built(run.version), e # Leg
                 PROVE  e \in run'.ready \cup run'.failed \/ tags'[run.version][e] = Env
      BY <2>2
    <3>1. e \in run.ready \cup run.failed \/ tags[run.version][e] = Env
      BY <1>0, <2>1 DEF Done, Pushing
    <3>2. tags'[run.version][e] = tags[run.version][e]
      BY <1>0, <2>4, VersionTagStep
    <3>. QED
      BY <2>1, <3>1, <3>2
  <2>6. DEFINE there == {e \in Entries : <<run'.version, e>> \in run'.plan}
  <2>7. \A e \in there : e \in run'.ready \cup run'.failed
                         \/ tags'[run'.version][e] = <<run'.version, run'.revision>>
    BY <2>1, <2>4, <2>5
  <2>. QED
    BY <1>1, <2>1, <2>3, <2>7 DEF DoneInv, Done, Built, Env, PlannedLock
<1>9. CASE EndVersion
  <2>1. /\ run.step = "push" /\ run.ready = {} /\ run'.step = "version" /\ run'.plan = run.plan
        /\ run'.todo = run.todo /\ run'.revision = run.revision
        /\ run'.red = (run.red \/ run.failed # {})
    BY <1>0, <1>9, EndFrame
  <2>2. ~Pushing
    BY <2>1 DEF Pushing
  <2> SUFFICES ASSUME ~run'.red, NEW t \in run.plan \ run.todo
               PROVE  tags'[t[1]][t[2]] = <<t[1], run.revision>>
    BY <1>1, <2>1 DEF DoneInv, Done
  <2>3. t \in Versions \X Entries /\ t = <<t[1], t[2]>>
    BY <1>a
  <2>4. ~run.red /\ run.failed = {}
    BY <2>1
  <2>5. tags'[t[1]][t[2]] = tags[t[1]][t[2]]
    BY <1>0, <2>2, <2>3, VersionTagStep
  <2>6. CASE t[1] # run.version
    BY <1>0, <2>1, <2>4, <2>5, <2>6 DEF Done
  <2>7. CASE t[1] = run.version
    <3>1. t[2] \in Built(run.version)
      BY <2>3, <2>7 DEF Built
    <3>. QED
      BY <1>0, <2>1, <2>4, <2>5, <2>7, <3>1 DEF Done, Env, PlannedLock
  <2>. QED
    BY <2>6, <2>7
<1>. QED
  BY <1>0, <1>2, <1>3, <1>4, <1>5, <1>6, <1>7, <1>8, <1>9, OtherSteps

\* A push job that exits with success has every environment of its manifests on its exact
\* tag (the verdicts of push/verdict.rs lose none, in whatever order the keys fail), and
\* the wheels of an environment it has pushed can be mounted when their registrations
\* went through, those an earlier environment of the run registered included
\* (python_push.rs marks only what it has seen).
THEOREM ReportedIsThere == Spec => ReportedIsServed
<1>1. DoneInv /\ [Next]_vars =>
        [/\ run.step = "version" /\ run'.step = "idle" /\ run.todo = {} /\ ~run.red =>
                \A t \in run.plan : tags[t[1]][t[2]] = <<t[1], run.revision>>
         /\ Pushing /\ run'.pushed # run.pushed /\ faults' = faults =>
                Wheels[Leg] \subseteq wheels']_vars
  <2> SUFFICES ASSUME DoneInv, [Next]_vars
               PROVE  /\ run.step = "version" /\ run.todo = {} /\ ~run.red =>
                            \A t \in run.plan : tags[t[1]][t[2]] = <<t[1], run.revision>>
                      /\ Pushing /\ run'.pushed # run.pushed /\ faults' = faults =>
                            Wheels[Leg] \subseteq wheels'
    OBVIOUS
  <2>1. run.step = "version" /\ run.todo = {} /\ ~run.red =>
          \A t \in run.plan : tags[t[1]][t[2]] = <<t[1], run.revision>>
    BY DEF DoneInv, Done
  <2>2. ASSUME Pushing, run'.pushed # run.pushed, faults' = faults
        PROVE  Wheels[Leg] \subseteq wheels'
    <3>1. /\ run \in RunStates /\ run.known \subseteq wheels /\ faults \in Nat
          /\ run.step = "push" /\ run.ready # {}
      BY <2>2, BoundAssumption
         DEF DoneInv, TypeInv, TypeOK, RunTypes, WorldTypes, Pushing
    <3>2. ~Failure
      BY <2>2, <3>1 DEF Failure
    <3>3. ~FailPush /\ ~Kill
      BY <3>2 DEF FailPush, Kill
    <3>4. ~SkipExisting
      BY <2>2, <3>1 DEF SkipExisting, RunStates
    <3>5. Push
      BY <2>2, <3>1, <3>3, <3>4 DEF Next, RunStep, Release, MoveIndex, Plan, Prepare, Test,
          BeginVersion, EndVersion, Finish, vars
    <3>6. PICK missed : (missed = {} \/ Failure) /\ Registered(missed)
      BY <3>5 DEF Push
    <3>7. wheels' = wheels \cup (Wheels[Leg] \ run.known)
      BY <3>2, <3>6 DEF Registered
    <3>. QED
      BY <3>1, <3>7
  <2>. QED
    BY <2>1, <2>2
<1>. QED
  BY InitDone, DoneStep, <1>1, PTL DEF Spec, ReportedIsServed

-----------------------------------------------------------------------------
(* What the aliases move onto.                                                *)

\* A key of a planned version is in the plan or in the registry already.
Covered ==
    \A v \in VersionsOf(run.plan) : \A e \in Entries : <<v, e>> \in run.plan \/ tags[v][e] # None

CoveredInv == DoneInv /\ Covered

LEMMA InitCovered == Init => CoveredInv
  BY InitDone, NoRunTypes DEF Init, CoveredInv, Covered, VersionsOf

\* What a tag of a version holds it keeps, or holds a newer environment of it.
LEMMA HeldKept ==
  ASSUME TypeInv, [Next]_vars, NEW v \in Versions, NEW e \in Entries, tags[v][e] # None
  PROVE  tags'[v][e] # None
  BY VersionTagStep, LegTypes

LEMMA CoveredStep == CoveredInv /\ [Next]_vars => CoveredInv'
<1> SUFFICES ASSUME CoveredInv, [Next]_vars PROVE CoveredInv'
  OBVIOUS
<1>0. DoneInv /\ TypeInv /\ Covered
  BY DEF CoveredInv, DoneInv
<1>1. DoneInv'
  BY <1>0, DoneStep
<1>2. VersionsOf(run.plan) \subseteq Versions
  BY <1>0, PlanVersions
<1>3. ASSUME run'.plan = run.plan PROVE Covered'
  <2>1. \A v \in VersionsOf(run.plan) : \A e \in Entries :
           <<v, e>> \in run.plan \/ tags'[v][e] # None
    BY <1>0, <1>2, HeldKept DEF Covered
  <2>. QED
    BY <1>3, <2>1 DEF Covered, VersionsOf
<1>4. CASE run' = NoRun
  BY <1>1, <1>4, NoRunTypes DEF CoveredInv, Covered, VersionsOf
<1>5. CASE Plan
  <2>1. /\ run'.plan = {t \in Selected \X Entries : t[2] \in Outstanding(t[1])}
        /\ Selected \subseteq Versions /\ UNCHANGED tags
    BY <1>0, <1>5, PlanFrame
  <2> SUFFICES ASSUME NEW p \in run'.plan, NEW e \in Entries
               PROVE  <<p[1], e>> \in run'.plan \/ tags[p[1]][e] # None
    BY <1>1, <2>1 DEF CoveredInv, Covered, VersionsOf
  <2>2. p[1] \in Selected
    BY <2>1
  <2>3. e \in Outstanding(p[1]) \/ tags[p[1]][e] # None
    BY DEF Outstanding
  <2>. QED
    BY <2>1, <2>2, <2>3
<1>6. CASE Prepare
  <2>1. PICK broken \in SUBSET run.plan : run'.plan = Composed(broken) /\ UNCHANGED tags
    BY <1>0, <1>6, PrepareFrame
  <2> SUFFICES ASSUME NEW p \in run'.plan, NEW e \in Entries
               PROVE  <<p[1], e>> \in run'.plan \/ tags[p[1]][e] # None
    BY <1>1, <2>1 DEF CoveredInv, Covered, VersionsOf
  <2>2. p \in run.plan /\ Tasks(p[1]) \cap broken = {}
    BY <2>1 DEF Composed
  <2>3. <<p[1], e>> \in run.plan \/ tags[p[1]][e] # None
    BY <1>0, <2>2 DEF Covered, VersionsOf
  <2>. QED
    BY <2>1, <2>2, <2>3 DEF Composed
<1>7. CASE UNCHANGED <<run, tags>> \/ Test \/ BeginVersion \/ Push \/ SkipExisting \/ FailPush
           \/ EndVersion
  <2>1. BeginVersion => run'.plan = run.plan
    BY <1>0, BeginFrame
  <2>2. run'.plan = run.plan
    BY <1>0, <1>7, <2>1, TestFrame, DecideFrame, EndFrame
  <2>. QED
    BY <1>1, <1>3, <2>2 DEF CoveredInv
<1>. QED
  BY <1>0, <1>4, <1>5, <1>6, <1>7, OtherSteps

\* `latest` is moved by the end of a version only onto one that is served under every key
\* (push/verdict.rs asks for no failed key, and what the plan left out is there), and by
\* the alias of one ocx cannot parse only when nothing newer is published (push/alias.rs).
THEOREM LatestIsWhole == Spec => LatestMovesWhole
<1>1. CoveredInv /\ [Next]_vars =>
        [run.step = "push" /\ run'.step = "version" /\ tags'[latest] # tags[latest] =>
            /\ Holds(run.version) = Entries
            /\ run.version \notin Semver => \A w \in Versions : w > run.version => Holds(w) = {}]_vars
  <2> SUFFICES ASSUME CoveredInv, [Next]_vars, run.step = "push", run'.step = "version",
                      tags'[latest] # tags[latest]
               PROVE  /\ Holds(run.version) = Entries
                      /\ run.version \notin Semver =>
                            \A w \in Versions : w > run.version => Holds(w) = {}
    OBVIOUS
  <2>0. DoneInv /\ TypeInv /\ Covered /\ Done /\ RunOK
    BY DEF CoveredInv, DoneInv, TypeInv
  <2>1. EndVersion
    <3>1. Push \/ SkipExisting \/ FailPush => run'.step = "push"
      BY <2>0, DecideFrame
    <3>2. run'.step # "idle" /\ run' # run
      BY NoRunTypes
    <3>. QED
      BY <3>1, <3>2, NoRunTypes DEF Next, RunStep, Release, MoveIndex, Plan, Prepare, Test,
         BeginVersion, Finish, Kill, vars
  <2>2. PICK lost : tags' = [tags EXCEPT ![latest] = [e \in Entries |->
                        IF e \in (Awaiting \cup Aliased) \ lost
                        THEN tags[run.version][e] ELSE tags[latest][e]]]
    BY <2>1 DEF EndVersion
  <2>3. tags \in [Tags -> [Entries -> Envs]] /\ latest \in Tags
    BY <2>0 DEF TypeInv, TypeOK, TagTypes, Tags
  <2>4. Awaiting \cup Aliased # {}
    <3> SUFFICES ASSUME Awaiting \cup Aliased = {} PROVE FALSE
      OBVIOUS
    <3>1. tags' = [tags EXCEPT ![latest] = [e \in Entries |-> tags[latest][e]]]
      BY <2>2
    <3>2. [e \in Entries |-> tags[latest][e]] = tags[latest]
      BY <2>3
    <3>. QED
      BY <2>3, <3>1, <3>2
  <2>5. run.failed = {} /\ run.ready = {}
    BY <2>0, <2>1, <2>4, EndFrame DEF Awaiting, Aliased
  <2>6. run.version \in VersionsOf(run.plan) /\ run.version \in Versions /\ run.version # 0
    BY <2>0, PlanVersions, Numbers DEF RunOK
  <2>7. Env # None
    BY <2>6 DEF Env, None
  <2>8. \A e \in Entries : tags[run.version][e] # None
    BY <2>0, <2>5, <2>6, <2>7 DEF Covered, Done, Built
  <2>9. run.version \notin Semver => \A w \in Versions : w > run.version => Holds(w) = {}
    BY <2>4 DEF Awaiting, Aliased
  <2>. QED
    BY <2>8, <2>9 DEF Holds
<1>. QED
  BY InitCovered, CoveredStep, <1>1, PTL DEF Spec, LatestMovesWhole

-----------------------------------------------------------------------------
(* What has been tested.                                                      *)

\* The keys of a platform differ in their libc, and none of two goes without.
KeysApart ==
    \A d, e \in Entries : d # e /\ Keys[d].base = Keys[e].base =>
        Keys[d].libc # Keys[e].libc /\ Keys[d].libc # "none"

\* A leg is green on a version only if it found an environment to test; what is ready has
\* all the legs that gate it green.
Gated ==
    /\ run.step \in {"idle", "prepare", "test"} => run.green = {}
    /\ \A t \in run.green : t[2] \in Legs /\ Picked(t[1], t[2]) # {}
    /\ run.step = "push" => \A e \in run.ready : Green(run.version, e)

GatedInv == TypeInv /\ Gated

LEMMA InitGated == Init => GatedInv
  BY InitTypes, NoRunTypes DEF Init, GatedInv, Gated

LEMMA GatedStep == GatedInv /\ [Next]_vars => GatedInv'
<1> SUFFICES ASSUME GatedInv, [Next]_vars PROVE GatedInv'
  OBVIOUS
<1>0. TypeInv /\ Gated
  BY DEF GatedInv
<1>1. TypeInv'
  BY <1>0, TypeStep
<1>2. ASSUME run'.plan = run.plan, run'.green = run.green,
             run'.step \in {"idle", "prepare", "test"} =>
                run.step \in {"idle", "prepare", "test"},
             run'.step = "push" => \A e \in run'.ready : Green(run'.version, e)
      PROVE  Gated'
  <2>1. \A t \in run'.green : t[2] \in Legs /\ Picked(t[1], t[2])' # {}
    BY <1>0, <1>2 DEF Gated, Picked, Built
  <2>2. ASSUME NEW v, NEW e, Green(v, e)
        PROVE  Gating(e) # {} /\ \A l \in Gating(e) : <<v, l>> \in run'.green
    BY <1>2, <2>2 DEF Green
  <2>3. run'.step = "push" => \A e \in run'.ready :
           Gating(e) # {} /\ \A l \in Gating(e) : <<run'.version, l>> \in run'.green
    BY <1>2, <2>2
  <2>. QED
    BY <1>0, <1>2, <2>1, <2>3 DEF Gated, Green
<1>3. CASE UNCHANGED <<run, tags>>
  BY <1>0, <1>1, <1>2, <1>3 DEF GatedInv, Gated
<1>4. CASE run' = NoRun
  BY <1>1, <1>4, NoRunTypes DEF GatedInv, Gated
<1>5. CASE Plan
  BY <1>0, <1>1, <1>5, PlanFrame DEF GatedInv, Gated
<1>6. CASE Prepare
  <2>1. run.step = "prepare" /\ run'.step # "push" /\ run'.green = {}
    BY <1>0, <1>6, PrepareFrame DEF Gated
  <2>. QED
    BY <1>1, <2>1 DEF GatedInv, Gated
<1>7. CASE Test
  <2>1. run'.step = "version" /\ run'.plan = run.plan /\ run'.green \subseteq Sound
    BY <1>0, <1>7, TestFrame
  <2>2. \A t \in Sound : t[2] \in Legs /\ Picked(t[1], t[2]) # {}
    BY DEF Sound, Tested
  <2>3. \A t \in run'.green : t[2] \in Legs /\ Picked(t[1], t[2])' # {}
    BY <2>1, <2>2 DEF Picked, Built
  <2>. QED
    BY <1>1, <2>1, <2>3 DEF GatedInv, Gated
<1>8. CASE BeginVersion
  <2>1. PICK v : v = Min(VersionsOf(run.todo))
    OBVIOUS
  <2>2. /\ run'.step = "push" /\ run'.version = v /\ run'.plan = run.plan
        /\ run'.green = run.green /\ run'.ready = {e \in Built(v) : Green(v, e)}
    BY <1>0, <1>8, <2>1, BeginFrame
  <2>. QED
    BY <1>1, <1>2, <2>2 DEF GatedInv
<1>9. CASE Push \/ SkipExisting \/ FailPush
  <2>1. /\ run.step = "push" /\ run'.step = "push" /\ run'.plan = run.plan
        /\ run'.version = run.version /\ run'.green = run.green /\ run'.ready \subseteq run.ready
    BY <1>0, <1>9, DecideFrame DEF Pushing
  <2>. QED
    BY <1>0, <1>1, <1>2, <2>1 DEF GatedInv, Gated
<1>10. CASE EndVersion
  <2>1. run'.step = "version" /\ run'.plan = run.plan /\ run'.green = run.green
    BY <1>0, <1>10, EndFrame
  <2>. QED
    BY <1>1, <1>2, <2>1 DEF GatedInv
<1>. QED
  BY <1>0, <1>3, <1>4, <1>5, <1>6, <1>7, <1>8, <1>9, <1>10, OtherSteps

\* The legs that gate a key (push/gating.rs) are those it claims to run on.
LEMMA GatingIsRunsOn ==
  ASSUME NEW e \in Entries, NEW l \in Legs
  PROVE  RunsOn(e, l) <=> l \in Gating(e)
  BY Numbers, LegAssumption DEF RunsOn, Gating

\* When the keys of a platform are told apart, a leg that gates a key and finds an
\* environment finds that key's.
LEMMA LegPicksItsKey ==
  ASSUME TypeInv, KeysApart, NEW v, NEW e \in Built(v), NEW l \in Gating(e), Picked(v, l) # {}
  PROVE  Picked(v, l) = {e}
<1> DEFINE of(libc) == {d \in Built(v) : Keys[d] = [base |-> l.base, libc |-> libc]}
           own == of(IF l.libc = "native" THEN "none" ELSE l.libc)
<1>1. Picked(v, l) = IF own # {} THEN own ELSE of("none")
  BY DEF Picked
<1>2. e \in Entries /\ Built(v) \subseteq Entries /\ l \in Legs /\ l.base = Keys[e].base
  BY DEF Built, Gating
<1>3. \A d \in Built(v) : d # e /\ Keys[d].base = Keys[e].base =>
         Keys[d].libc # Keys[e].libc /\ Keys[d].libc # "none" /\ Keys[e].libc # "none"
  BY <1>2 DEF KeysApart
<1>4. \A libc : \A d \in of(libc) : d \in Built(v) /\ Keys[d].base = Keys[e].base /\ Keys[d].libc = libc
  BY <1>2
<1>5. \A libc : Keys[e].libc = libc => e \in of(libc) /\ of(libc) = {e}
  <2> SUFFICES ASSUME NEW libc, Keys[e].libc = libc PROVE e \in of(libc) /\ of(libc) = {e}
    OBVIOUS
  <2>1. Keys[e] = [base |-> l.base, libc |-> libc]
    <3>1. Keys[e] \in [base : STRING, libc : {"none", "glibc", "musl"}]
      BY <1>2, Numbers
    <3>. QED
      BY <1>2, <3>1
  <2>2. e \in of(libc)
    BY <2>1
  <2>3. \A d \in of(libc) : d = e
    BY <1>3, <1>4
  <2>. QED
    BY <2>2, <2>3
<1>6. \A libc : Keys[e].libc # libc /\ Keys[e].libc = "none" => of(libc) = {}
  BY <1>3, <1>4
<1>7. Keys[e].libc # "none" => of("none") = {}
  BY <1>3, <1>4
<1>8. \/ Keys[e].libc \in {"none", l.libc}
      \/ l.libc = "native" /\ Keys[e].libc = "glibc"
  BY DEF Gating
<1>9. Keys[e].libc # "native"
  BY <1>2, Numbers
<1>. HIDE DEF of
<1>. QED
  BY <1>1, <1>5, <1>6, <1>7, <1>8, <1>9

\* When the keys of a platform are told apart by their libc, no environment is published
\* on another one's test: the legs push/gating.rs asks for are those the environment
\* claims to run on, and each picked this very environment.
THEOREM ServedIsTested ==
  ASSUME KeysApart
  PROVE  Spec => ServedWasTested
<1>1. GatedInv /\ [Next]_vars =>
        [run.step = "push" =>
            \A e \in Entries : tags'[run.version][e] # tags[run.version][e] =>
               /\ \E l \in Legs : RunsOn(e, l)
               /\ \A l \in Legs : RunsOn(e, l) =>
                     <<run.version, l>> \in run.green /\ Picked(run.version, l) = {e}]_vars
  <2> SUFFICES ASSUME GatedInv, [Next]_vars, run.step = "push", NEW e \in Entries,
                      tags'[run.version][e] # tags[run.version][e]
               PROVE  /\ \E l \in Legs : RunsOn(e, l)
                      /\ \A l \in Legs : RunsOn(e, l) =>
                            <<run.version, l>> \in run.green /\ Picked(run.version, l) = {e}
    OBVIOUS
  <2>1. TypeInv /\ Gated /\ RunOK
    BY DEF GatedInv, TypeInv
  <2>2. run.version \in Versions
    BY <2>1, PlanVersions DEF RunOK
  <2>3. Pushing /\ e = Leg
    BY <2>1, <2>2, VersionTagStep
  <2>4. e \in run.ready /\ e \in Built(run.version)
    BY <2>1, <2>3, LegTypes
  <2>5. Gating(e) # {} /\ \A l \in Gating(e) : <<run.version, l>> \in run.green
    BY <2>1, <2>4 DEF Gated, Green
  <2>6. Gating(e) \subseteq Legs
    BY DEF Gating
  <2>7. \A l \in Gating(e) : Picked(run.version, l) = {e}
    <3> SUFFICES ASSUME NEW l \in Gating(e) PROVE Picked(run.version, l) = {e}
      OBVIOUS
    <3>1. Picked(run.version, l) # {}
      BY <2>1, <2>5 DEF Gated
    <3>. QED
      BY <2>1, <2>4, <3>1, LegPicksItsKey
  <2>. QED
    BY <2>5, <2>6, <2>7, GatingIsRunsOn
<1>. QED
  BY InitGated, GatedStep, <1>1, PTL DEF Spec, ServedWasTested

=============================================================================
