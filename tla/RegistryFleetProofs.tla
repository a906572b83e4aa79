------------------------ MODULE RegistryFleetProofs -------------------------
(* Theorems about RegistryFleet, for every value of its constants: any        *)
(* packages, roots, sources and specs, pool sizes, failures and kills.  They  *)
(* suppose that an edit moves no destination (~Rehoming), and the second that *)
(* two roots of a package differ in their content (ContentTellsRoots).        *)
EXTENDS RegistryFleet, FiniteSetTheorems, WellFoundedInduction, TLAPS

-----------------------------------------------------------------------------
(* The inductive invariant.                                                   *)

Option(S) == S \cup {None}
Paths == {PathOf(s, i, k, r) : s \in Specs, i \in Nat, k \in Keys, r \in RootDocuments}
Pointers == {Pointer(s, r, path) : s \in Specs, r \in RootDocuments, path \in Paths}
Mirrored == [content : Nat, pointer : Pointers]
Catalogs == [Keys -> Option(RootDocuments)]
Trees == [Keys -> Option(Mirrored)]
Plans == [catalog : Catalogs, local : Trees, short : BOOLEAN]
Flights == [key : Keys, root : RootDocuments, path : Paths, landed : BOOLEAN]
Runs == [pc : {"idle", "preflight", "copy", "report"}, plans : Seq(Plans), at : Nat,
         todo : SUBSET Keys, flying : SUBSET Flights, failed : BOOLEAN, red : BOOLEAN]
Records == [source : Catalogs, mirrored : Trees]

TypeInv ==
    /\ spec \in Specs
    /\ upstream \in [Indexes -> Catalogs]
    /\ \A x \in Indexes : \A k \in Keys : upstream[x][k] \in Option(Published[x][k])
    /\ tree \in [AsNames -> Trees]
    /\ record \in [AsNames -> Option(Records)]
    /\ run \in Runs

Current(i, k) == upstream[spec.sources[i].index][k]

\* What was served when a catalog was read is served still, or has been replaced.
Earlier(s, up, i, k, root) ==
    root # None =>
        /\ up[s.sources[i].index][k] # None
        /\ root \in Published[s.sources[i].index][k]
        /\ root.content <= up[s.sources[i].index][k].content
Past(s, up, i, catalog) == \A k \in Keys : Earlier(s, up, i, k, catalog[k])

\* The root is at the destination the spec gives it.
Landed(s, d, i, k, root) ==
    /\ PathOf(s, i, k, root) \in DOMAIN d
    /\ root.content \in d[PathOf(s, i, k, root)].held

\* What a catalog has and the index still serves is where the spec puts it.
Settled(s, up, d, i, catalog) ==
    \A k \in Keys :
        /\ catalog[k] # None /\ Selected(s.sources[i], k)
        /\ up[s.sources[i].index][k] = catalog[k]
        => Landed(s, d, i, k, catalog[k])

\* A run's plans are of catalogs its sources served.
PlansOK ==
    /\ run.pc = "idle" => run = IdleRun
    /\ run.pc # "idle" => Accepted(spec)
    /\ run.pc = "preflight" => run.flying = {} /\ ~run.failed /\ ~run.red
    /\ Len(run.plans) <= Len(spec.sources)
    /\ \A i \in DOMAIN run.plans : Past(spec, upstream, i, run.plans[i].catalog)

\* A package under way is one of its source's plan, as the index served it since.
Aloft(s, up, i, plan, p) ==
    /\ p.key \in Served(plan.catalog) /\ Selected(s.sources[i], p.key)
    /\ Earlier(s, up, i, p.key, p.root)
    /\ plan.catalog[p.key].content <= p.root.content
    /\ p.path = PathOf(s, i, p.key, p.root)

\* The copy works on packages of a plan that no two packages of the fleet meet in.
CopyOK ==
    /\ run.pc \in {"copy", "report"} =>
        Len(run.plans) = Len(spec.sources) /\ ~Collide(run.plans)
    /\ run.pc = "copy" =>
        /\ run.at \in DOMAIN spec.sources /\ run.todo \subseteq Work(run.at, PlanHere)
        /\ \A p \in run.flying : Aloft(spec, upstream, run.at, PlanHere, p)

\* A tag is of a selected package that is served and planned, and at that package's path.
Owned(s, up, plans, path, writer) ==
    \E i \in DOMAIN s.sources, k \in Keys : \E root \in Published[s.sources[i].index][k] :
        /\ writer = <<i, k>>
        /\ path = PathOf(s, i, k, root)
        /\ Selected(s.sources[i], k) /\ up[s.sources[i].index][k] # None
        /\ i \in DOMAIN plans => plans[i].catalog[k] # None

DestOK == \A path \in DOMAIN dest : Owned(spec, upstream, run.plans, path, dest[path].writer)

OwnerInv == TypeInv /\ PlansOK /\ CopyOK /\ DestOK

-----------------------------------------------------------------------------
(* The least of a set of numbers.                                             *)

\* A family of finite sets has a member of which no other is a strict subset.
LEMMA MinimalSet ==
  ASSUME NEW T, T # {}, \A X \in T : IsFiniteSet(X)
  PROVE  \E X \in T : \A Y \in T : Y \subseteq X => Y = X
<1>1. T \subseteq FiniteSubsetsOf(UNION T)
  BY DEF FiniteSubsetsOf
<1>2. PICK X \in T : \A Y \in T : ~(<<Y, X>> \in StrictSubsetOrdering(UNION T))
  BY <1>1, FS_StrictSubsetOrderingWellFounded, WFMin
<1>3. ASSUME NEW Y \in T, Y \subseteq X, Y # X PROVE FALSE
  <2>1. <<Y, X>> \in (SUBSET UNION T) \X (SUBSET UNION T)
    OBVIOUS
  <2> QED
    BY <1>2, <1>3, <2>1 DEF StrictSubsetOrdering
<1> QED
  BY <1>3

\* A set of numbers has a least member: of the intervals that end at a
\* member, one has no strict subset among them.
LEMMA LeastOf ==
  ASSUME NEW S \in SUBSET Nat, S # {}
  PROVE  \E m \in S : \A x \in S : m <= x
<1> DEFINE Down(x) == 0..x
           Downs == {Down(x) : x \in S}
<1>1. \A x \in S : IsFiniteSet(Down(x))
  BY FS_Interval
<1>2. \A x, m \in S : x < m => Down(x) \subseteq Down(m) /\ Down(x) # Down(m)
  OBVIOUS
<1> HIDE DEF Down
<1>3. \E X \in Downs : \A Y \in Downs : Y \subseteq X => Y = X
  <2>1. Downs # {} /\ \A X \in Downs : IsFiniteSet(X)
    BY <1>1
  <2> HIDE DEF Downs
  <2> QED
    BY <2>1, MinimalSet
<1> QED
  BY <1>2, <1>3

-----------------------------------------------------------------------------
(* What a step leaves: homes, a served root or a later one, what has landed.  *)

SameHomes(s, t) == t.sources = s.sources /\ Homes(t) = Homes(s)
Moves(x, k, old, new) ==
    new # old =>
        /\ new \in Published[x][k]
        /\ old # None => new.content >= old.content
Grows(d, e) == \A path \in DOMAIN d : path \in DOMAIN e /\ d[path].held \subseteq e[path].held
Forward ==
    /\ SameHomes(spec, spec')
    /\ \A x \in Indexes : \A k \in Keys : Moves(x, k, upstream[x][k], upstream'[x][k])
    /\ Grows(dest, dest')

LEMMA SourceFacts ==
  ASSUME NEW s \in Specs
  PROVE  /\ s.sources \in Seq(RegistrySources)
         /\ \A i \in DOMAIN s.sources : s.sources[i].index \in Indexes /\ s.sources[i].as \in AsNames
<1>1. s.sources \in Seq(RegistrySources)
  BY SpecAssumption DEF RegistrySpecs
<1>2. ASSUME NEW i \in DOMAIN s.sources PROVE s.sources[i].index \in Indexes /\ s.sources[i].as \in AsNames
  <2>1. s.sources[i] \in RegistrySources
    BY <1>1
  <2>2. s.sources[i].as \in {s.sources[j].as : j \in DOMAIN s.sources}
    OBVIOUS
  <2> QED
    BY <2>1, <2>2 DEF RegistrySources, AsNames
<1> QED
  BY <1>1, <1>2

LEMMA SamePaths ==
  ASSUME NEW s, NEW t, SameHomes(s, t)
  PROVE  \A i, k, root : PathOf(t, i, k, root) = PathOf(s, i, k, root)
BY DEF SameHomes, Homes, PathOf, Physical

LEMMA NoneFacts ==
  \A x \in Indexes : \A k \in Keys :
    /\ DOMAIN Published[x] = Keys
    /\ Published[x][k] \subseteq RootDocuments /\ None \notin Published[x][k]
BY PublishedAssumption, NoneAssumption

LEMMA StepsForward ==
  ASSUME ~Rehoming, TypeInv, [Next]_vars
  PROVE  Forward
<1>1. CASE Release
  <2>0. PICK x \in Indexes, k \in Keys : \E root \in Published[x][k] :
          /\ upstream[x][k] # None => root # upstream[x][k] /\ root.content >= upstream[x][k].content
          /\ upstream' = [upstream EXCEPT ![x][k] = root]
    BY <1>1 DEF Release
  <2>1. PICK root \in Published[x][k] :
          /\ upstream[x][k] # None => root # upstream[x][k] /\ root.content >= upstream[x][k].content
          /\ upstream' = [upstream EXCEPT ![x][k] = root]
    BY <2>0
  <2>2. SameHomes(spec, spec') /\ Grows(dest, dest')
    BY <1>1 DEF Release, SameHomes, Grows
  <2>3. \A y \in Indexes : \A l \in Keys :
          upstream'[y][l] = IF y = x /\ l = k THEN root ELSE upstream[y][l]
    BY <2>1 DEF TypeInv, Catalogs
  <2> QED
    BY <2>1, <2>2, <2>3 DEF Forward, Moves
<1>2. CASE Edit
  BY <1>2 DEF Edit, Forward, SameHomes, Moves, Grows
<1>3. ASSUME NEW p \in run.flying, Land(p) PROVE Forward
  BY <1>3 DEF Land, Forward, SameHomes, Moves, Grows
<1>4. ASSUME spec' = spec, upstream' = upstream, dest' = dest PROVE Forward
  BY <1>4 DEF Forward, SameHomes, Moves, Grows
<1> QED
  BY <1>1, <1>2, <1>3, <1>4
  DEF Next, vars, Refuse, Start, Step, Preflight, RefuseCollision, BeginCopy, Take, Publish, FailPackage,
      CloseSource, StopEarly, Abort, Report, Stop

\* What the past is of stays past.
LEMMA EarlierStays ==
  ASSUME TypeInv, Forward,
         NEW i \in DOMAIN spec.sources, NEW k \in Keys, NEW root,
         Earlier(spec, upstream, i, k, root)
  PROVE  Earlier(spec', upstream', i, k, root)
<1> DEFINE x == spec.sources[i].index
<1>1. x \in Indexes /\ spec'.sources[i].index = x
  BY SourceFacts DEF TypeInv, Forward, SameHomes
<1>2. Moves(x, k, upstream[x][k], upstream'[x][k])
  BY <1>1 DEF Forward
<1>3. upstream[x][k] \in Option(Published[x][k]) /\ Published[x][k] \subseteq RootDocuments
        /\ None \notin Published[x][k]
  BY <1>1, NoneFacts DEF TypeInv
<1>4. root # None => upstream[x][k] # None /\ root \in Published[x][k] /\ root.content <= upstream[x][k].content
  BY DEF Earlier
<1> HIDE DEF x
<1>5. root # None => upstream'[x][k] # None /\ root.content <= upstream'[x][k].content
  BY <1>2, <1>3, <1>4 DEF Moves, Option, RootDocuments
<1> QED
  BY <1>1, <1>4, <1>5 DEF Earlier

LEMMA PastStays ==
  ASSUME TypeInv, Forward,
         NEW i \in DOMAIN spec.sources, NEW catalog, Past(spec, upstream, i, catalog)
  PROVE  Past(spec', upstream', i, catalog)
BY EarlierStays DEF Past

LEMMA AloftStays ==
  ASSUME TypeInv, Forward,
         NEW i \in DOMAIN spec.sources, NEW plan, NEW p \in Flights,
         Aloft(spec, upstream, i, plan, p)
  PROVE  Aloft(spec', upstream', i, plan, p)
<1>1. p.key \in Keys
  BY DEF Flights
<1>2. Earlier(spec', upstream', i, p.key, p.root)
  BY <1>1, EarlierStays DEF Aloft
<1>3. spec'.sources = spec.sources /\ PathOf(spec', i, p.key, p.root) = PathOf(spec, i, p.key, p.root)
  BY SamePaths DEF Forward, SameHomes
<1> QED
  BY <1>2, <1>3 DEF Aloft
-----------------------------------------------------------------------------
(* The types, and who owns a destination.                                     *)

\* A copy enters the first source that is not short-circuited, with all its work.
LEMMA EnteringFacts ==
  ASSUME TypeInv, Len(run.plans) = Len(spec.sources), NEW i \in Nat \ {0}
  PROVE  /\ Entering(i) \in Runs
         /\ Entering(i).plans = run.plans /\ Entering(i).red = run.red
         /\ Entering(i).flying = run.flying
         /\ \/ /\ Entering(i).pc = "report"
               /\ \A j \in DOMAIN spec.sources : i <= j => run.plans[j].short
            \/ /\ Entering(i).pc = "copy" /\ Entering(i).at \in DOMAIN spec.sources
               /\ i <= Entering(i).at /\ ~Entering(i).failed
               /\ Entering(i).todo = Work(Entering(i).at, run.plans[Entering(i).at])
               /\ \A j \in DOMAIN spec.sources : i <= j /\ j < Entering(i).at => run.plans[j].short
<1> DEFINE busy == {j \in i..Len(spec.sources) : ~run.plans[j].short}
<1>0. run \in Runs /\ spec.sources \in Seq(RegistrySources)
  BY SourceFacts DEF TypeInv
<1>1. CASE busy = {}
  <2>1. Entering(i) = [run EXCEPT !.pc = "report", !.todo = {}]
    BY <1>1 DEF Entering
  <2>2. \A j \in DOMAIN spec.sources : i <= j => j \in i..Len(spec.sources)
    BY <1>0
  <2> QED
    BY <1>0, <1>1, <2>1, <2>2 DEF Runs
<1>2. CASE busy # {}
  <2> DEFINE j == CHOOSE j \in busy : \A h \in busy : j <= h
  <2>1. busy \in SUBSET Nat
    BY <1>0
  <2>2. j \in busy /\ \A h \in busy : j <= h
    <3> HIDE DEF busy
    <3> QED
      BY <1>2, <2>1, LeastOf
  <2>3. Entering(i) = [run EXCEPT !.pc = "copy", !.at = j, !.failed = FALSE,
                                  !.todo = Work(j, run.plans[j])]
    BY <1>2 DEF Entering
  <2>4. Work(j, run.plans[j]) \in SUBSET Keys
    BY DEF Work, Served
  <2>5. j \in Nat /\ j \in DOMAIN spec.sources /\ i <= j
    BY <1>0, <2>2
  <2> HIDE DEF j
  <2>6. ASSUME NEW h \in DOMAIN spec.sources, i <= h, h < j PROVE run.plans[h].short
    <3>1. h \in i..Len(spec.sources) /\ h \notin busy
      BY <1>0, <2>2, <2>5, <2>6
    <3> QED
      BY <3>1
  <2> QED
    BY <1>0, <2>3, <2>4, <2>5, <2>6 DEF Runs
<1> QED
  BY <1>1, <1>2

LEMMA SourcePlanFacts ==
  ASSUME TypeInv, NEW i \in DOMAIN spec.sources
  PROVE  SourcePlan(i) \in Plans /\ Past(spec, upstream, i, SourcePlan(i).catalog)
<1>1. spec.sources[i].index \in Indexes /\ spec.sources[i].as \in AsNames
  BY SourceFacts DEF TypeInv
<1>2. upstream[spec.sources[i].index] \in Catalogs /\ tree[spec.sources[i].as] \in Trees
        /\ \A k \in Keys : Current(i, k) \in Option(Published[spec.sources[i].index][k])
  BY <1>1 DEF TypeInv, Current
<1>3. ShortCircuited(i, upstream[spec.sources[i].index], tree[spec.sources[i].as]) \in BOOLEAN
  BY DEF ShortCircuited
<1>4. SourcePlan(i) \in Plans /\ SourcePlan(i).catalog = upstream[spec.sources[i].index]
  BY <1>2, <1>3 DEF SourcePlan, Plans
<1>5. \A k \in Keys : Earlier(spec, upstream, i, k, Current(i, k))
  BY <1>1, <1>2, NoneFacts DEF Earlier, Current, Option, RootDocuments
<1> QED
  BY <1>4, <1>5 DEF Past, Current

LEMMA InitOwner == Init => OwnerInv
<1> SUFFICES ASSUME Init PROVE OwnerInv
  OBVIOUS
<1>1. IdleRun \in Runs
  BY DEF IdleRun, Runs
<1>2. NoRoots \in Catalogs /\ NoRoots \in Trees
  BY DEF NoRoots, Catalogs, Trees, Option
<1>3. TypeInv
  BY <1>1, <1>2 DEF Init, TypeInv, Option, NoRoots
<1>4. PlansOK
  BY SourceFacts DEF Init, PlansOK, IdleRun
<1>5. CopyOK /\ DestOK
  BY DEF Init, CopyOK, DestOK, IdleRun
<1> QED
  BY <1>3, <1>4, <1>5 DEF OwnerInv

LEMMA CollideSame ==
  ASSUME spec' = spec, run'.plans = run.plans
  PROVE  Collide(run.plans)' <=> Collide(run.plans)
BY DEF Collide, Expansions, Work, Served, Selected, PathOf, Physical, NeedsUpstream

LEMMA WorkSame ==
  ASSUME spec' = spec, NEW i, NEW plan
  PROVE  Work(i, plan)' = Work(i, plan)
BY DEF Work, Served, Selected

\* Neither what a package of the fleet owns nor the plans are lost when the rest moves on.
LEMMA OwnedStays ==
  ASSUME TypeInv, Forward, NEW plans, NEW path, NEW writer, Owned(spec, upstream, plans, path, writer)
  PROVE  Owned(spec', upstream', plans, path, writer)
<1>1. PICK i \in DOMAIN spec.sources, k \in Keys : \E root \in Published[spec.sources[i].index][k] :
        /\ writer = <<i, k>>
        /\ path = PathOf(spec, i, k, root)
        /\ Selected(spec.sources[i], k) /\ upstream[spec.sources[i].index][k] # None
        /\ i \in DOMAIN plans => plans[i].catalog[k] # None
  BY DEF Owned
<1>2. Earlier(spec, upstream, i, k, Current(i, k))
  <2>1. spec.sources[i].index \in Indexes
    BY SourceFacts DEF TypeInv
  <2>2. Current(i, k) \in Option(Published[spec.sources[i].index][k])
    BY <2>1 DEF TypeInv, Current
  <2> QED
    BY <2>1, <2>2, NoneFacts DEF Earlier, Current, Option, RootDocuments
<1>3. upstream'[spec'.sources[i].index][k] # None
  BY <1>1, <1>2, EarlierStays DEF Earlier, Current
<1>4. spec'.sources = spec.sources /\ \A root : PathOf(spec', i, k, root) = PathOf(spec, i, k, root)
  BY SamePaths DEF Forward, SameHomes
<1> QED
  BY <1>1, <1>3, <1>4 DEF Owned

LEMMA OwnedPlans ==
  ASSUME NEW s, NEW up, NEW plans, NEW more, NEW path, NEW writer, Owned(s, up, plans, path, writer),
         \A i \in DOMAIN more : \/ i \in DOMAIN plans /\ more[i] = plans[i]
                                \/ more[i].catalog = up[s.sources[i].index]
  PROVE  Owned(s, up, more, path, writer)
BY DEF Owned

LEMMA OwnerFrame ==
  ASSUME ~Rehoming, OwnerInv, [Next]_vars, run' = run
  PROVE  PlansOK' /\ CopyOK' /\ (UNCHANGED dest => DestOK')
<1>1. Forward /\ TypeInv
  BY StepsForward DEF OwnerInv
<1>2. run.pc # "idle" => spec' = spec
  BY DEF Next, vars, Edit, Release, Refuse, Start, Step, Preflight, RefuseCollision, BeginCopy, Take, Land,
         Publish, FailPackage, CloseSource, StopEarly, Abort, Report, Stop
<1>3. spec'.sources = spec.sources
  BY <1>1 DEF Forward, SameHomes
<1>4. DOMAIN run.plans \subseteq DOMAIN spec.sources
  BY SourceFacts DEF OwnerInv, TypeInv, PlansOK, Runs
<1>5. PlansOK'
  <2>1. \A i \in DOMAIN run.plans : Past(spec', upstream', i, run.plans[i].catalog)
    BY <1>1, <1>4, PastStays DEF OwnerInv, PlansOK
  <2> QED
    BY <1>2, <1>3, <2>1 DEF OwnerInv, PlansOK, Accepted
<1>6. CopyOK'
  <2>1. ASSUME run.pc = "copy", NEW p \in run.flying
        PROVE  Aloft(spec', upstream', run.at, PlanHere, p)
    BY <1>1, <2>1, AloftStays DEF OwnerInv, TypeInv, CopyOK, Runs
  <2>2. run.pc # "idle" => (Collide(run.plans)' <=> Collide(run.plans))
    BY <1>2, CollideSame
  <2>3. run.pc = "copy" => Work(run.at, PlanHere)' = Work(run.at, PlanHere)
    BY <1>2 DEF Work, Served, Selected, PlanHere
  <2> QED
    BY <1>3, <2>1, <2>2, <2>3 DEF OwnerInv, CopyOK, PlanHere
<1>7. UNCHANGED dest => DestOK'
  BY <1>1, OwnedStays DEF OwnerInv, DestOK
<1> QED
  BY <1>5, <1>6, <1>7

\* A run that is over, or that has only read, leaves the rest as it was.
LEMMA OwnerRestart ==
  ASSUME ~Rehoming, OwnerInv, [Next]_vars, spec' = spec, upstream' = upstream, dest' = dest,
         tree' = tree, record' = record,
         \/ run' = IdleRun
         \/ run' = [IdleRun EXCEPT !.pc = "preflight"] /\ Accepted(spec)
  PROVE  OwnerInv'
<1>1. run' \in Runs /\ run'.plans = <<>> /\ run'.flying = {} /\ ~run'.failed /\ ~run'.red
        /\ (run' = IdleRun \/ (run'.pc = "preflight" /\ Accepted(spec))) /\ IdleRun.pc = "idle"
  <2>1. CASE run' = IdleRun
    BY <2>1 DEF IdleRun, Runs
  <2>2. CASE run' = [IdleRun EXCEPT !.pc = "preflight"] /\ Accepted(spec)
    <3>1. run' = [pc |-> "preflight", plans |-> <<>>, at |-> 0, todo |-> {}, flying |-> {},
                  failed |-> FALSE, red |-> FALSE]
      <4>1. run' = [IdleRun EXCEPT !.pc = "preflight"]
        BY <2>2
      <4> QED
        BY ONLY <4>1 DEF IdleRun
    <3>2. IdleRun.pc = "idle"
      BY DEF IdleRun
    <3>3. Accepted(spec)
      BY <2>2
    <3> QED
      BY ONLY <3>1, <3>2, <3>3 DEF Runs
  <2> QED
    BY <2>1, <2>2
<1>2. TypeInv'
  BY <1>1 DEF OwnerInv, TypeInv
<1>3. PlansOK'
  BY <1>1, SourceFacts DEF OwnerInv, TypeInv, PlansOK
<1>4. CopyOK'
  BY <1>1 DEF CopyOK
<1>5. DestOK'
  <2>1. ASSUME NEW path \in DOMAIN dest PROVE Owned(spec, upstream, run'.plans, path, dest[path].writer)
    BY <1>1, OwnedPlans DEF OwnerInv, DestOK
  <2> QED
    BY <2>1 DEF DestOK
<1> QED
  BY <1>2, <1>3, <1>4, <1>5 DEF OwnerInv

LEMMA OwnerPreflight ==
  ASSUME ~Rehoming, OwnerInv, Preflight
  PROVE  OwnerInv'
<1> DEFINE i == Len(run.plans) + 1
<1>0. run \in Runs /\ spec.sources \in Seq(RegistrySources) /\ i \in DOMAIN spec.sources /\ run.pc = "preflight"
        /\ TypeInv
  BY SourceFacts DEF OwnerInv, TypeInv, Preflight, Runs
<1>1. CASE Expressible(i, SourcePlan(i))
  <2>1. SourcePlan(i) \in Plans /\ Past(spec, upstream, i, SourcePlan(i).catalog)
          /\ SourcePlan(i).catalog = upstream[spec.sources[i].index]
    BY <1>0, SourcePlanFacts DEF SourcePlan
  <2>2. /\ run' = [run EXCEPT !.plans = Append(@, SourcePlan(i))]
        /\ UNCHANGED <<spec, upstream, tree, record, dest>>
    BY <1>1 DEF Preflight
  <2> DEFINE plan == SourcePlan(i)
  <2> HIDE DEF plan
  <2>3. /\ run' \in Runs /\ run'.pc = "preflight" /\ run'.flying = run.flying
        /\ run'.failed = run.failed /\ run'.red = run.red
        /\ Len(run'.plans) = i /\ DOMAIN run'.plans = DOMAIN run.plans \cup {i}
        /\ run'.plans[i] = plan /\ \A j \in DOMAIN run.plans : run'.plans[j] = run.plans[j]
    <3>1. run.plans \in Seq(Plans) /\ plan \in Plans
      BY <1>0, <2>1 DEF Runs, plan
    <3>2. run'.plans = Append(run.plans, plan) /\ run' = [run EXCEPT !.plans = Append(run.plans, plan)]
      BY <1>0, <2>2 DEF Runs, plan
    <3>3. Append(run.plans, plan) \in Seq(Plans)
      BY <3>1
    <3>4. run' \in Runs /\ run'.pc = "preflight" /\ run'.flying = run.flying
            /\ run'.failed = run.failed /\ run'.red = run.red
      BY <1>0, <3>2, <3>3 DEF Runs
    <3>5. Len(run'.plans) = i /\ DOMAIN run'.plans = DOMAIN run.plans \cup {i}
            /\ run'.plans[i] = plan /\ \A j \in DOMAIN run.plans : run'.plans[j] = run.plans[j]
      BY <3>1, <3>2
    <3> QED
      BY <3>4, <3>5
  <2>4. TypeInv'
    BY <1>0, <2>2, <2>3 DEF TypeInv
  <2>5. PlansOK'
    BY <1>0, <2>1, <2>2, <2>3 DEF OwnerInv, PlansOK, plan
  <2>6. CopyOK'
    BY <2>3 DEF CopyOK
  <2>7. DestOK'
    <3>1. ASSUME NEW path \in DOMAIN dest PROVE Owned(spec, upstream, run'.plans, path, dest[path].writer)
      <4>1. Owned(spec, upstream, run.plans, path, dest[path].writer)
        BY DEF OwnerInv, DestOK
      <4>2. \A j \in DOMAIN run'.plans : \/ j \in DOMAIN run.plans /\ run'.plans[j] = run.plans[j]
                                       \/ run'.plans[j].catalog = upstream[spec.sources[j].index]
        BY <2>1, <2>3 DEF plan
      <4> QED
        BY <4>1, <4>2, OwnedPlans
    <3> QED
      BY <2>2, <3>1 DEF DestOK
  <2> QED
    BY <2>4, <2>5, <2>6, <2>7 DEF OwnerInv
<1>2. CASE ~Expressible(i, SourcePlan(i))
  <2>1. run' = IdleRun /\ UNCHANGED <<spec, upstream, tree, record, dest>>
    BY <1>2 DEF Preflight, Stop
  <2>2. [Next]_vars
    BY DEF Next, Step
  <2> QED
    BY <2>1, <2>2, OwnerRestart
<1> QED
  BY <1>1, <1>2

\* The copy goes on with the plans it has, and what is to do and under way is of its source.
LEMMA OwnerCopy ==
  ASSUME OwnerInv, spec' = spec, upstream' = upstream, run' \in Runs, run'.plans = run.plans,
         run.pc # "idle", run'.pc \in {"copy", "report"},
         Len(run.plans) = Len(spec.sources), ~Collide(run.plans),
         run'.pc = "copy" =>
            /\ run'.at \in DOMAIN spec.sources /\ run'.todo \subseteq Work(run'.at, run.plans[run'.at])
            /\ \A p \in run'.flying : Aloft(spec, upstream, run'.at, run.plans[run'.at], p)
  PROVE  PlansOK' /\ CopyOK' /\ (dest' = dest => DestOK')
<1>1. PlansOK'
  BY DEF OwnerInv, PlansOK
<1>2. CopyOK'
  <2>1. ~Collide(run.plans)'
    BY CollideSame
  <2> QED
    BY <2>1 DEF CopyOK, PlanHere, Work, Served, Selected
<1>3. dest' = dest => DestOK'
  BY DEF OwnerInv, DestOK
<1> QED
  BY <1>1, <1>2, <1>3

LEMMA OwnerBegin ==
  ASSUME OwnerInv, BeginCopy
  PROVE  OwnerInv'
<1>1. /\ run.pc = "preflight" /\ Len(run.plans) = Len(spec.sources) /\ ~Collide(run.plans)
      /\ run' = Entering(1) /\ UNCHANGED <<spec, upstream, tree, record, dest>>
      /\ run.flying = {}
  BY DEF BeginCopy, Planned, OwnerInv, PlansOK
<1>2. /\ Entering(1) \in Runs /\ Entering(1).plans = run.plans /\ Entering(1).flying = {}
      /\ Entering(1).pc \in {"copy", "report"}
      /\ Entering(1).pc = "copy" =>
            /\ Entering(1).at \in DOMAIN spec.sources
            /\ Entering(1).todo = Work(Entering(1).at, run.plans[Entering(1).at])
  <2>1. TypeInv /\ 1 \in Nat \ {0}
    BY DEF OwnerInv
  <2> QED
    BY <1>1, <2>1, EnteringFacts
<1> DEFINE into == Entering(1)
<1> HIDE DEF into
<1>3. PlansOK' /\ CopyOK' /\ DestOK'
  BY <1>1, <1>2, OwnerCopy DEF into
<1>4. TypeInv'
  BY <1>1, <1>2 DEF OwnerInv, TypeInv
<1> QED
  BY <1>3, <1>4 DEF OwnerInv

LEMMA OwnerClose ==
  ASSUME OwnerInv, CloseSource
  PROVE  OwnerInv'
<1>1. /\ run.pc = "copy" /\ Len(run.plans) = Len(spec.sources) /\ ~Collide(run.plans)
      /\ run' = Entering(run.at + 1) /\ UNCHANGED <<spec, upstream, tree, dest>>
      /\ run.flying = {} /\ run \in Runs /\ run.at \in DOMAIN spec.sources
      /\ spec.sources \in Seq(RegistrySources)
  BY SourceFacts DEF CloseSource, OwnerInv, TypeInv, CopyOK
<1>2. /\ run' \in Runs /\ run'.plans = run.plans /\ run'.flying = {}
      /\ run'.pc \in {"copy", "report"}
      /\ run'.pc = "copy" =>
            /\ run'.at \in DOMAIN spec.sources
            /\ run'.todo = Work(run'.at, run.plans[run'.at])
  <2>1. TypeInv /\ run.at + 1 \in Nat \ {0}
    BY <1>1 DEF OwnerInv
  <2> QED
    BY <1>1, <2>1, EnteringFacts
<1>3. PlansOK' /\ CopyOK' /\ DestOK'
  BY <1>1, <1>2, OwnerCopy
<1>4. TypeInv'
  <2>1. PlanHere \in Plans
    BY <1>1 DEF PlanHere, Runs
  <2>2. CacheRecord(PlanHere.catalog, PlanHere.local) \in Records
    BY <2>1 DEF CacheRecord, Plans, Records
  <2>3. record' \in [AsNames -> Option(Records)]
    BY <2>2 DEF CloseSource, OwnerInv, TypeInv, Option
  <2> QED
    BY <1>1, <1>2, <2>3 DEF OwnerInv, TypeInv
<1> QED
  BY <1>3, <1>4 DEF OwnerInv

LEMMA OwnerTake ==
  ASSUME OwnerInv, NEW key \in Keys, Take(key)
  PROVE  OwnerInv'
<1> DEFINE root == Current(run.at, key)
           path == PathOf(spec, run.at, key, root)
           flight == [key |-> key, root |-> root, path |-> path, landed |-> FALSE]
<1>1. /\ run.pc = "copy" /\ Len(run.plans) = Len(spec.sources) /\ ~Collide(run.plans)
      /\ UNCHANGED <<spec, upstream, tree, record, dest>>
      /\ run \in Runs /\ run.at \in DOMAIN spec.sources /\ key \in run.todo
      /\ run.todo \subseteq Work(run.at, PlanHere)
      /\ \A p \in run.flying : Aloft(spec, upstream, run.at, PlanHere, p)
      /\ spec.sources \in Seq(RegistrySources) /\ spec \in Specs
  BY SourceFacts DEF Take, OwnerInv, TypeInv, CopyOK
<1>2. \/ run' = [run EXCEPT !.todo = @ \ {key}]
      \/ run' = [run EXCEPT !.todo = @ \ {key}, !.flying = @ \cup {flight}]
      \/ run' = [run EXCEPT !.todo = @ \ {key}, !.failed = TRUE, !.red = TRUE]
  BY DEF Take, Failing, Current
<1>3. flight \in Flights /\ Aloft(spec, upstream, run.at, PlanHere, flight)
  <2>1. Past(spec, upstream, run.at, PlanHere.catalog)
    <3>1. run.at \in DOMAIN run.plans
      BY <1>1 DEF Runs
    <3> QED
      BY <3>1 DEF OwnerInv, PlansOK, PlanHere
  <2>2. key \in Served(PlanHere.catalog) /\ Selected(spec.sources[run.at], key)
          /\ PlanHere.catalog[key] # None
    BY <1>1 DEF Work, Served
  <2>3. Earlier(spec, upstream, run.at, key, PlanHere.catalog[key])
    BY <2>1 DEF Past
  <2>4. root # None /\ PlanHere.catalog[key].content <= root.content
    BY <2>2, <2>3 DEF Earlier, Current
  <2>5. spec.sources[run.at].index \in Indexes
    BY <1>1, SourceFacts
  <2>6. root \in Published[spec.sources[run.at].index][key] /\ root \in RootDocuments
    BY <2>4, <2>5, NoneFacts DEF OwnerInv, TypeInv, Current, Option
  <2>7. Earlier(spec, upstream, run.at, key, root)
    BY <2>6 DEF Earlier, Current, RootDocuments
  <2>8. path \in Paths
    BY <1>1, <2>6 DEF Paths
  <2> HIDE DEF root, path
  <2> QED
    BY <2>2, <2>4, <2>6, <2>7, <2>8 DEF Flights, Aloft, path
<1> HIDE DEF flight
<1>4. /\ run' \in Runs /\ run'.plans = run.plans /\ run'.pc = "copy" /\ run'.at = run.at
      /\ run'.todo \subseteq run.todo /\ run'.flying \subseteq run.flying \cup {flight}
  <2>1. CASE run' = [run EXCEPT !.todo = @ \ {key}]
    BY <1>1, <2>1 DEF Runs
  <2>2. CASE run' = [run EXCEPT !.todo = @ \ {key}, !.flying = @ \cup {flight}]
    BY <1>1, <1>3, <2>2 DEF Runs
  <2>3. CASE run' = [run EXCEPT !.todo = @ \ {key}, !.failed = TRUE, !.red = TRUE]
    BY <1>1, <2>3 DEF Runs
  <2> QED
    BY <1>2, <2>1, <2>2, <2>3
<1>5. PlansOK' /\ CopyOK' /\ DestOK'
  BY <1>1, <1>3, <1>4, OwnerCopy DEF PlanHere
<1>6. TypeInv'
  BY <1>1, <1>4 DEF OwnerInv, TypeInv
<1> QED
  BY <1>5, <1>6 DEF OwnerInv

\* A package under way is a package of the copy, and can be set aside or marked as landed.
LEMMA FlyingFacts ==
  ASSUME OwnerInv, run.pc = "copy", NEW p \in run.flying
  PROVE  /\ Len(run.plans) = Len(spec.sources) /\ ~Collide(run.plans)
         /\ run \in Runs /\ run.at \in DOMAIN spec.sources /\ run.at \in DOMAIN run.plans
         /\ spec.sources \in Seq(RegistrySources) /\ DOMAIN spec.sources = DOMAIN run.plans
         /\ run.todo \subseteq Work(run.at, PlanHere)
         /\ \A q \in run.flying : Aloft(spec, upstream, run.at, PlanHere, q)
         /\ p \in Flights /\ p.key \in Keys /\ p.root \in Published[spec.sources[run.at].index][p.key]
         /\ p.root \in RootDocuments
         /\ [p EXCEPT !.landed = TRUE] \in Flights
         /\ Aloft(spec, upstream, run.at, PlanHere, [p EXCEPT !.landed = TRUE])
         /\ Earlier(spec, upstream, run.at, p.key, p.root)
         /\ p.path = PathOf(spec, run.at, p.key, p.root)
<1>1. /\ Len(run.plans) = Len(spec.sources) /\ ~Collide(run.plans)
      /\ run \in Runs /\ run.at \in DOMAIN spec.sources
      /\ run.todo \subseteq Work(run.at, PlanHere)
      /\ \A q \in run.flying : Aloft(spec, upstream, run.at, PlanHere, q)
      /\ spec.sources \in Seq(RegistrySources)
  BY SourceFacts DEF OwnerInv, TypeInv, CopyOK
<1>2. p \in Flights /\ p.key \in Keys /\ p.root \in RootDocuments
  BY <1>1 DEF Runs, Flights
<1>3. p.root # None
  BY <1>2, NoneAssumption
<1>4. Aloft(spec, upstream, run.at, PlanHere, p)
  BY <1>1
<1> DEFINE q == [p EXCEPT !.landed = TRUE]
<1>5. q \in Flights /\ q.key = p.key /\ q.root = p.root /\ q.path = p.path
  BY <1>2 DEF Flights
<1> HIDE DEF q
<1>6. Aloft(spec, upstream, run.at, PlanHere, q)
  BY <1>4, <1>5 DEF Aloft
<1>7. run.at \in DOMAIN run.plans /\ DOMAIN spec.sources = DOMAIN run.plans
  BY <1>1 DEF Runs
<1> QED
  BY <1>1, <1>2, <1>3, <1>4, <1>5, <1>6, <1>7 DEF Aloft, Earlier, q

LEMMA OwnerLand ==
  ASSUME OwnerInv, NEW p \in run.flying, Land(p)
  PROVE  OwnerInv'
<1> DEFINE q == [p EXCEPT !.landed = TRUE]
           writer == <<run.at, p.key>>
<1>1. /\ run.pc = "copy" /\ UNCHANGED <<spec, upstream, tree, record>>
      /\ run' = [run EXCEPT !.flying = (@ \ {p}) \cup {q}]
      /\ DOMAIN dest' = DOMAIN dest \cup {p.path}
      /\ dest'[p.path].writer = writer
      /\ \A path \in DOMAIN dest : path # p.path => dest'[path] = dest[path]
  BY DEF Land
<1>2. run \in Runs /\ q \in Flights
  BY <1>1, FlyingFacts
<1>3. /\ run' \in Runs /\ run'.plans = run.plans /\ run'.pc = "copy" /\ run'.at = run.at
      /\ run'.todo = run.todo /\ run'.flying \subseteq run.flying \cup {q}
  <2> HIDE DEF q
  <2> QED
    BY <1>1, <1>2 DEF Runs
<1>4. PlansOK' /\ CopyOK'
  BY <1>1, <1>3, OwnerCopy, FlyingFacts DEF PlanHere
<1>5. TypeInv'
  BY <1>1, <1>3 DEF OwnerInv, TypeInv
<1>6. Owned(spec, upstream, run.plans, p.path, writer)
  <2>1. /\ Selected(spec.sources[run.at], p.key) /\ upstream[spec.sources[run.at].index][p.key] # None
        /\ PlanHere.catalog[p.key] # None
        /\ p.key \in Keys /\ run.at \in DOMAIN spec.sources
        /\ p.root \in Published[spec.sources[run.at].index][p.key]
        /\ p.path = PathOf(spec, run.at, p.key, p.root)
    <3>1. p.root # None
      BY <1>1, FlyingFacts, NoneAssumption
    <3> QED
      BY <1>1, <3>1, FlyingFacts DEF Aloft, Earlier, Served
  <2> QED
    BY <2>1 DEF Owned, PlanHere
<1>7. DestOK'
  <2> HIDE DEF writer
  <2> QED
    BY <1>1, <1>3, <1>6 DEF OwnerInv, DestOK
<1> QED
  BY <1>4, <1>5, <1>7 DEF OwnerInv

\* A package leaves the copy: published, with its root in the tree, or failed.
LEMMA OwnerAway ==
  ASSUME OwnerInv, NEW p \in run.flying, Publish(p) \/ FailPackage(p)
  PROVE  OwnerInv'
<1>1. run.pc = "copy" /\ UNCHANGED <<spec, upstream, record, dest>>
  BY DEF Publish, FailPackage
<1>2. /\ run' \in Runs /\ run'.plans = run.plans /\ run'.pc = "copy" /\ run'.at = run.at
      /\ run'.todo = run.todo /\ run'.flying \subseteq run.flying
  <2>0. run \in Runs
    BY <1>1, FlyingFacts
  <2>1. CASE Publish(p)
    <3>1. run' = [run EXCEPT !.flying = @ \ {p}]
      BY <2>1 DEF Publish
    <3> QED
      BY <2>0, <1>1, <3>1 DEF Runs
  <2>2. CASE FailPackage(p)
    <3>1. run' = [run EXCEPT !.flying = @ \ {p}, !.failed = TRUE, !.red = TRUE]
      BY <2>2 DEF FailPackage
    <3> QED
      BY <2>0, <1>1, <3>1 DEF Runs
  <2> QED
    BY <2>1, <2>2
<1>3. PlansOK' /\ CopyOK' /\ DestOK'
  BY <1>1, <1>2, OwnerCopy, FlyingFacts DEF PlanHere
<1>4. tree' \in [AsNames -> Trees]
  <2>1. CASE Publish(p)
    <3> DEFINE entry == [content |-> p.root.content, pointer |-> Pointer(spec, p.root, p.path)]
    <3>1. tree' = [tree EXCEPT ![As][p.key] = entry] /\ tree \in [AsNames -> Trees]
      BY <2>1 DEF Publish, OwnerInv, TypeInv
    <3>2. p.root \in RootDocuments /\ p.path \in Paths /\ spec \in Specs
      BY <1>1, FlyingFacts DEF Flights, OwnerInv, TypeInv
    <3>3. Pointer(spec, p.root, p.path) \in Pointers
      BY <3>2 DEF Pointers
    <3>4. entry \in Mirrored
      BY <3>2, <3>3 DEF Mirrored, RootDocuments
    <3> HIDE DEF entry
    <3> QED
      BY <3>1, <3>4 DEF Trees, Option
  <2>2. CASE FailPackage(p)
    BY <2>2 DEF FailPackage, OwnerInv, TypeInv
  <2> QED
    BY <2>1, <2>2
<1>5. TypeInv'
  BY <1>1, <1>2, <1>4 DEF OwnerInv, TypeInv
<1> QED
  BY <1>3, <1>5 DEF OwnerInv

LEMMA OwnerStop ==
  ASSUME OwnerInv, StopEarly
  PROVE  OwnerInv'
<1>1. /\ run.pc = "copy" /\ run' = [run EXCEPT !.pc = "report", !.todo = {}]
      /\ UNCHANGED <<spec, upstream, tree, record, dest>> /\ run \in Runs
      /\ Len(run.plans) = Len(spec.sources) /\ ~Collide(run.plans)
  BY DEF StopEarly, OwnerInv, TypeInv, CopyOK
<1>2. run' \in Runs /\ run'.plans = run.plans /\ run'.pc = "report"
  BY <1>1 DEF Runs
<1>3. PlansOK' /\ CopyOK' /\ DestOK'
  BY <1>1, <1>2, OwnerCopy
<1>4. TypeInv'
  BY <1>1, <1>2 DEF OwnerInv, TypeInv
<1> QED
  BY <1>3, <1>4 DEF OwnerInv

LEMMA OwnerOutside ==
  ASSUME ~Rehoming, OwnerInv, Release \/ Edit \/ UNCHANGED vars
  PROVE  OwnerInv'
<1>1. [Next]_vars /\ run' = run /\ UNCHANGED <<tree, record, dest>>
  BY DEF Next, Release, Edit, vars
<1>2. TypeInv'
  <2>1. CASE Release
    <3>1. PICK x \in Indexes, k \in Keys : \E root \in Published[x][k] :
            upstream' = [upstream EXCEPT ![x][k] = root]
      BY <2>1 DEF Release
    <3>2. PICK root \in Published[x][k] : upstream' = [upstream EXCEPT ![x][k] = root]
      BY <3>1
    <3>3. root \in RootDocuments
      BY NoneFacts
    <3>4. upstream' \in [Indexes -> Catalogs]
      BY <3>2, <3>3 DEF OwnerInv, TypeInv, Catalogs, Option
    <3>5. \A y \in Indexes : \A l \in Keys :
            upstream'[y][l] = IF y = x /\ l = k THEN root ELSE upstream[y][l]
      BY <3>2 DEF OwnerInv, TypeInv, Catalogs
    <3>6. \A y \in Indexes : \A l \in Keys : upstream'[y][l] \in Option(Published[y][l])
      BY <3>5 DEF OwnerInv, TypeInv, Option
    <3> QED
      BY <1>1, <2>1, <3>4, <3>6 DEF Release, OwnerInv, TypeInv
  <2>2. CASE Edit
    BY <1>1, <2>2 DEF Edit, OwnerInv, TypeInv
  <2>3. CASE UNCHANGED vars
    BY <1>1, <2>3 DEF vars, OwnerInv, TypeInv
  <2> QED
    BY <2>1, <2>2, <2>3
<1> QED
  BY <1>1, <1>2, OwnerFrame DEF OwnerInv

LEMMA OwnerStep ==
  ASSUME ~Rehoming, OwnerInv, [Next]_vars
  PROVE  OwnerInv'
<1>1. CASE Release \/ Edit \/ Refuse \/ UNCHANGED vars
  BY <1>1, OwnerOutside DEF Refuse
<1>2. CASE Start \/ RefuseCollision \/ Report \/ Abort
  BY <1>2, OwnerRestart DEF Start, RefuseCollision, Report, Abort, Stop
<1>3. CASE Preflight \/ BeginCopy \/ CloseSource \/ StopEarly
  BY <1>3, OwnerPreflight, OwnerBegin, OwnerClose, OwnerStop
<1>4. ASSUME NEW key \in Keys, Take(key) PROVE OwnerInv'
  BY <1>4, OwnerTake
<1>5. ASSUME NEW p \in run.flying, Land(p) \/ Publish(p) \/ FailPackage(p) PROVE OwnerInv'
  BY <1>5, OwnerLand, OwnerAway
<1> QED
  BY <1>1, <1>2, <1>3, <1>4, <1>5 DEF Next, Step

LEMMA OwnerHolds == ASSUME ~Rehoming PROVE Spec => []OwnerInv
<1>1. Init => OwnerInv
  BY InitOwner
<1>2. OwnerInv /\ [Next]_vars => OwnerInv'
  BY OwnerStep
<1> QED
  BY <1>1, <1>2, PTL DEF Spec

-----------------------------------------------------------------------------
(* No destination is taken over.                                              *)

\* Without an upstream placeholder a package's destination is the same for any root.
LEMMA OnePath ==
  ASSUME NEW s, NEW i, NEW k, NEW r, NEW q, Parses(s.destination), ~NeedsUpstream(s.destination)
  PROVE  PathOf(s, i, k, r) = PathOf(s, i, k, q)
<1> DEFINE template == s.destination
           as == s.sources[i].as
           text(segment, root) ==
             CASE segment.kind = "literal" -> segment.text
               [] segment.kind = "registry" -> as
               [] segment.kind = "namespace" -> Names[k].namespace
               [] segment.kind = "package" -> Names[k].package
               [] segment.kind = "upstream_host" -> root.host
               [] segment.kind = "upstream_repository" -> root.repository
<1>1. ASSUME NEW j \in DOMAIN template PROVE text(template[j], r) = text(template[j], q)
  <2>1. template[j].kind \in {"literal", "registry", "namespace", "package"}
    BY DEF Parses, NeedsUpstream, Uses, Placeholders
  <2> QED
    BY <2>1
<1> HIDE DEF text
<1>2. [j \in DOMAIN template |-> text(template[j], r)] = [j \in DOMAIN template |-> text(template[j], q)]
  BY <1>1
<1>3. Expand(template, as, k, r) = Expand(template, as, k, q)
  BY <1>2 DEF Expand, text
<1> QED
  BY <1>3 DEF PathOf

\* Two packages that no collision is found between, under a template it looks at, are apart.
LEMMA PlannedApart ==
  ASSUME OwnerInv, ~Collide(run.plans), Len(run.plans) = Len(spec.sources),
         Accepted(spec), ~NeedsUpstream(spec.destination),
         NEW i \in DOMAIN spec.sources, NEW k \in Work(i, run.plans[i]), NEW r,
         NEW j \in DOMAIN spec.sources, NEW l \in Work(j, run.plans[j]), NEW q,
         PathOf(spec, i, k, r) = PathOf(spec, j, l, q)
  PROVE  <<i, k>> = <<j, l>>
<1> SUFFICES ASSUME <<i, k>> # <<j, l>> PROVE FALSE
  OBVIOUS
<1> DEFINE e == <<spec.sources[i].as, k, PathOf(spec, i, k, run.plans[i].catalog[k])>>
           f == <<spec.sources[j].as, l, PathOf(spec, j, l, run.plans[j].catalog[l])>>
           claims(h) == {<<spec.sources[h].as, m, PathOf(spec, h, m, run.plans[h].catalog[m])>> :
                           m \in Work(h, run.plans[h])}
<1>1. Parses(spec.destination) /\ (spec.sources[i].as = spec.sources[j].as => i = j)
  BY DEF Accepted, ValidDestination, ValidSources
<1>2. e[3] = f[3]
  BY <1>1, OnePath
<1>3. e \in claims(i) /\ f \in claims(j)
  OBVIOUS
<1>4. i \in DOMAIN run.plans /\ j \in DOMAIN run.plans
  BY SourceFacts DEF OwnerInv, TypeInv, Runs
<1>5. Expansions(run.plans) = UNION {claims(h) : h \in DOMAIN run.plans}
  BY DEF Expansions
<1>6. e \in Expansions(run.plans) /\ f \in Expansions(run.plans)
  <2> HIDE DEF claims, e, f
  <2> QED
    BY <1>3, <1>4, <1>5
<1>7. <<e[1], e[2]>> # <<f[1], f[2]>>
  BY <1>1
<1> HIDE DEF e, f
<1> QED
  BY <1>2, <1>6, <1>7 DEF Collide

LEMMA LandKeepsOwner ==
  ASSUME OwnerInv, ~NeedsUpstream(spec.destination), NEW p \in run.flying, Land(p),
         NEW path \in DOMAIN dest
  PROVE  dest'[path].writer = dest[path].writer
<1>1. run.pc = "copy" /\ (path # p.path => dest'[path] = dest[path])
        /\ (path = p.path => dest'[path].writer = <<run.at, p.key>>)
  BY DEF Land
<1>2. PICK i \in DOMAIN spec.sources, k \in Keys : \E root \in Published[spec.sources[i].index][k] :
        /\ dest[path].writer = <<i, k>>
        /\ path = PathOf(spec, i, k, root)
        /\ Selected(spec.sources[i], k)
        /\ i \in DOMAIN run.plans => run.plans[i].catalog[k] # None
  BY DEF OwnerInv, DestOK, Owned
<1>3. PICK root \in Published[spec.sources[i].index][k] : path = PathOf(spec, i, k, root)
  BY <1>2
<1>4. /\ Len(run.plans) = Len(spec.sources) /\ ~Collide(run.plans)
      /\ run.at \in DOMAIN spec.sources
      /\ p.path = PathOf(spec, run.at, p.key, p.root)
      /\ Aloft(spec, upstream, run.at, PlanHere, p)
      /\ p.key \in Keys
  BY <1>1, FlyingFacts
<1>5. p.key \in Work(run.at, run.plans[run.at])
  BY <1>4 DEF Aloft, Work, PlanHere
<1>6. k \in Work(i, run.plans[i])
  <2>1. i \in DOMAIN run.plans
    BY <1>4, SourceFacts DEF OwnerInv, TypeInv, Runs
  <2> QED
    BY <1>2, <2>1 DEF Work, Served
<1>7. Accepted(spec)
  BY <1>1 DEF OwnerInv, PlansOK
<1>8. path = p.path => <<i, k>> = <<run.at, p.key>>
  <2> DEFINE at == run.at key == p.key last == p.root
  <2>1. /\ at \in DOMAIN spec.sources /\ key \in Work(at, run.plans[at])
        /\ path = p.path => PathOf(spec, i, k, root) = PathOf(spec, at, key, last)
    BY <1>3, <1>4, <1>5
  <2> HIDE DEF at, key, last
  <2>2. path = p.path => <<i, k>> = <<at, key>>
    BY <1>4, <1>6, <1>7, <2>1, PlannedApart
  <2> QED
    BY <2>2 DEF at, key
<1> QED
  BY <1>1, <1>2, <1>8

\* Under a template of the placeholders the pre-flight resolves, a destination's tag never
\* passes to another package of the fleet, run after run, whatever was short-circuited in
\* between, as long as the packages are not moved elsewhere (detect_collisions).
THEOREM DestinationsNotOverwritten ==
  ASSUME ~Rehoming
  PROVE  Spec => NotOverwritten
<1> DEFINE Kept == ~NeedsUpstream(spec.destination) =>
                     \A path \in DOMAIN dest : dest'[path].writer = dest[path].writer
<1>1. OwnerInv /\ [Next]_vars => [Kept]_dest
  <2> SUFFICES ASSUME OwnerInv, [Next]_vars, dest' # dest PROVE Kept
    OBVIOUS
  <2>1. PICK p \in run.flying : Land(p)
    BY DEF Next, vars, Release, Edit, Refuse, Start, Step, Preflight, RefuseCollision, BeginCopy, Take, Publish,
           FailPackage, CloseSource, StopEarly, Abort, Report, Stop
  <2> QED
    BY <2>1, LandKeepsOwner
<1> QED
  BY <1>1, OwnerHolds, PTL DEF Spec, NotOverwritten

-----------------------------------------------------------------------------
(* A run that reports success has landed what it was to mirror.               *)

\* What the last clean run of a source saw is where the spec puts it, if it is served still.
RecordOK ==
    \A i \in DOMAIN spec.sources :
        LET seen == record[spec.sources[i].as] IN
        seen # None => Past(spec, upstream, i, seen.source) /\ Settled(spec, upstream, dest, i, seen.source)

\* What the tree has of a package is the content of a root that is at its destination.
TreeOK ==
    \A i \in DOMAIN spec.sources : \A k \in Keys :
        LET entry == tree[spec.sources[i].as][k] IN
        entry # None =>
            \E root \in Published[spec.sources[i].index][k] :
                root.content = entry.content /\ Landed(spec, dest, i, k, root)

ShortOK ==
    \A i \in DOMAIN run.plans :
        run.plans[i].short => Settled(spec, upstream, dest, i, run.plans[i].catalog)

\* All of a plan's work is done, but what is to do or under way.
Done(s, up, d, i, plan, todo, flying) ==
    \A k \in Keys :
        k \in Served(plan.catalog) /\ Selected(s.sources[i], k) =>
            \/ k \in todo \/ \E p \in flying : p.key = k
            \/ up[s.sources[i].index][k] = plan.catalog[k] => Landed(s, d, i, k, plan.catalog[k])

\* A run that nothing failed in has settled every source it is through with.
DoneOK ==
    /\ run.pc = "copy" =>
        /\ \A p \in run.flying : p.landed => Landed(spec, dest, run.at, p.key, p.root)
        /\ run.failed => run.red
        /\ ~run.failed => Done(spec, upstream, dest, run.at, PlanHere, run.todo, run.flying)
        /\ ~run.red => \A i \in DOMAIN spec.sources :
                i < run.at => Settled(spec, upstream, dest, i, run.plans[i].catalog)
    /\ run.pc = "report" /\ ~run.red =>
        \A i \in DOMAIN spec.sources : Settled(spec, upstream, dest, i, run.plans[i].catalog)

LandInv == RecordOK /\ TreeOK /\ ShortOK /\ DoneOK

\* An index never returns to a root it has replaced, and a destination keeps what it holds.
LEMMA KeyStays ==
  ASSUME ContentTellsRoots, TypeInv, Forward,
         NEW i \in DOMAIN spec.sources, NEW k \in Keys, NEW root, root # None,
         Earlier(spec, upstream, i, k, root),
         Current(i, k) = root => Landed(spec, dest, i, k, root),
         upstream'[spec'.sources[i].index][k] = root
  PROVE  Landed(spec', dest', i, k, root)
<1> DEFINE x == spec.sources[i].index
<1>1. x \in Indexes /\ spec'.sources[i].index = x
  BY SourceFacts DEF TypeInv, Forward, SameHomes
<1>2. Moves(x, k, upstream[x][k], upstream'[x][k])
  BY <1>1 DEF Forward
<1>3. upstream[x][k] \in Option(Published[x][k]) /\ Published[x][k] \subseteq RootDocuments
        /\ None \notin Published[x][k]
  BY <1>1, NoneFacts DEF TypeInv
<1>4. upstream[x][k] # None /\ root \in Published[x][k] /\ root.content <= upstream[x][k].content
  BY DEF Earlier
<1>5. upstream'[x][k] = root
  BY <1>1
<1>6. upstream[x][k] = root
  <2> SUFFICES ASSUME upstream[x][k] # root PROVE FALSE
    OBVIOUS
  <2>1. root.content >= upstream[x][k].content
    BY <1>2, <1>4, <1>5 DEF Moves
  <2>2. upstream[x][k] \in Published[x][k]
    BY <1>3, <1>4 DEF Option
  <2>3. root.content \in Nat /\ upstream[x][k].content \in Nat
    BY <1>3, <1>4, <2>2 DEF RootDocuments
  <2>4. root.content = upstream[x][k].content
    BY <1>4, <2>1, <2>3
  <2> QED
    BY <1>1, <1>4, <2>2, <2>4 DEF ContentTellsRoots
<1>7. Landed(spec, dest, i, k, root)
  BY <1>6 DEF Current
<1>8. PathOf(spec', i, k, root) = PathOf(spec, i, k, root)
  BY SamePaths DEF Forward
<1> QED
  BY <1>7, <1>8 DEF Landed, Forward, Grows

LEMMA LandedStays ==
  ASSUME Forward, NEW i, NEW k, NEW root, Landed(spec, dest, i, k, root)
  PROVE  Landed(spec', dest', i, k, root)
<1>1. PathOf(spec', i, k, root) = PathOf(spec, i, k, root)
  BY SamePaths DEF Forward
<1> QED
  BY <1>1 DEF Landed, Forward, Grows

LEMMA SettledStays ==
  ASSUME ContentTellsRoots, TypeInv, Forward,
         NEW i \in DOMAIN spec.sources, NEW catalog,
         Past(spec, upstream, i, catalog), Settled(spec, upstream, dest, i, catalog)
  PROVE  Settled(spec', upstream', dest', i, catalog)
<1>1. SUFFICES ASSUME NEW k \in Keys, catalog[k] # None, Selected(spec'.sources[i], k),
                      upstream'[spec'.sources[i].index][k] = catalog[k]
               PROVE  Landed(spec', dest', i, k, catalog[k])
  BY DEF Settled
<1> DEFINE root == catalog[k]
<1>2. Earlier(spec, upstream, i, k, root)
  BY DEF Past
<1>3. Current(i, k) = root => Landed(spec, dest, i, k, root)
  BY <1>1 DEF Settled, Current, Forward, SameHomes
<1>4. root # None /\ upstream'[spec'.sources[i].index][k] = root
  BY <1>1
<1> HIDE DEF root
<1>5. Landed(spec', dest', i, k, root)
  BY <1>2, <1>3, <1>4, KeyStays
<1> QED
  BY <1>5 DEF root

LEMMA DoneStays ==
  ASSUME ContentTellsRoots, TypeInv, Forward,
         NEW i \in DOMAIN spec.sources, NEW plan, NEW todo, NEW flying,
         Past(spec, upstream, i, plan.catalog), Done(spec, upstream, dest, i, plan, todo, flying)
  PROVE  Done(spec', upstream', dest', i, plan, todo, flying)
<1>1. SUFFICES ASSUME NEW k \in Keys, k \in Served(plan.catalog), Selected(spec'.sources[i], k),
                      k \notin todo, ~\E p \in flying : p.key = k,
                      upstream'[spec'.sources[i].index][k] = plan.catalog[k]
               PROVE  Landed(spec', dest', i, k, plan.catalog[k])
  BY DEF Done
<1> DEFINE root == plan.catalog[k]
<1>2. Earlier(spec, upstream, i, k, root)
  BY DEF Past
<1>3. Current(i, k) = root => Landed(spec, dest, i, k, root)
  BY <1>1 DEF Done, Current, Forward, SameHomes
<1>4. root # None /\ upstream'[spec'.sources[i].index][k] = root
  BY <1>1 DEF Served
<1> HIDE DEF root
<1>5. Landed(spec', dest', i, k, root)
  BY <1>2, <1>3, <1>4, KeyStays
<1> QED
  BY <1>5 DEF root

\* The records and the tree stay true of what is served, whatever else happens.
LEMMA RecordStays ==
  ASSUME ContentTellsRoots, TypeInv, Forward, RecordOK, TreeOK
  PROVE  (record' = record => RecordOK') /\ (tree' = tree => TreeOK')
<1>1. spec'.sources = spec.sources
  BY DEF Forward, SameHomes
<1>2. ASSUME record' = record PROVE RecordOK'
  BY <1>1, <1>2, PastStays, SettledStays DEF RecordOK
<1>3. ASSUME tree' = tree PROVE TreeOK'
  BY <1>1, <1>3, LandedStays DEF TreeOK
<1> QED
  BY <1>2, <1>3

LEMMA InitLand == Init => LandInv
<1> SUFFICES ASSUME Init PROVE LandInv
  OBVIOUS
<1>1. \A i \in DOMAIN spec.sources : spec.sources[i].as \in AsNames
  BY SourceFacts DEF Init
<1>2. RecordOK /\ TreeOK
  BY <1>1 DEF Init, RecordOK, TreeOK, NoRoots
<1>3. ShortOK /\ DoneOK
  BY DEF Init, IdleRun, ShortOK, DoneOK
<1> QED
  BY <1>2, <1>3 DEF LandInv

\* What goes on outside the run leaves what the run knows true.
LEMMA LandOutside ==
  ASSUME ~Rehoming, ContentTellsRoots, OwnerInv, LandInv, Forward, run' = run,
         tree' = tree, record' = record
  PROVE  LandInv'
<1>1. /\ TypeInv /\ RecordOK /\ TreeOK
      /\ spec'.sources = spec.sources /\ spec.sources \in Seq(RegistrySources) /\ run \in Runs
      /\ DOMAIN run.plans \subseteq DOMAIN spec.sources
  BY SourceFacts DEF OwnerInv, LandInv, Forward, SameHomes, TypeInv, PlansOK, Runs
<1>2. RecordOK' /\ TreeOK'
  BY <1>1, RecordStays
<1>3. \A i \in DOMAIN run.plans :
        Settled(spec, upstream, dest, i, run.plans[i].catalog) =>
          Settled(spec', upstream', dest', i, run.plans[i].catalog)
  BY <1>1, SettledStays DEF OwnerInv, PlansOK
<1>4. ShortOK'
  BY <1>3 DEF LandInv, ShortOK
<1>5. DoneOK'
  <2>1. CASE run.pc = "copy"
    <3>1. run.at \in DOMAIN run.plans /\ DOMAIN run.plans = DOMAIN spec.sources
      BY <1>1, <2>1 DEF OwnerInv, CopyOK, Runs
    <3>2. \A p \in run.flying : p.landed => Landed(spec', dest', run.at, p.key, p.root)
      BY <2>1, LandedStays DEF LandInv, DoneOK
    <3>3. ~run.failed => Done(spec', upstream', dest', run.at, PlanHere, run.todo, run.flying)
      <4>1. Past(spec, upstream, run.at, PlanHere.catalog)
        BY <3>1 DEF OwnerInv, PlansOK, PlanHere
      <4> QED
        BY <1>1, <2>1, <3>1, <4>1, DoneStays DEF LandInv, DoneOK
    <3> QED
      BY <1>1, <1>3, <2>1, <3>1, <3>2, <3>3 DEF LandInv, DoneOK, PlanHere
  <2>2. CASE run.pc = "report"
    <3>1. DOMAIN run.plans = DOMAIN spec.sources
      BY <1>1, <2>2 DEF OwnerInv, CopyOK, Runs
    <3> QED
      BY <1>1, <1>3, <2>2, <3>1 DEF LandInv, DoneOK
  <2>3. CASE run.pc \notin {"copy", "report"}
    BY <2>3 DEF DoneOK
  <2> QED
    BY <2>1, <2>2, <2>3
<1> QED
  BY <1>2, <1>4, <1>5 DEF LandInv

\* A run that is over, or about to read, has promised nothing.
LEMMA LandRestart ==
  ASSUME ContentTellsRoots, OwnerInv, LandInv, Forward, run'.plans = <<>>,
         run'.pc \in {"idle", "preflight"}, tree' = tree, record' = record
  PROVE  LandInv'
<1>1. RecordOK' /\ TreeOK'
  BY RecordStays DEF OwnerInv, LandInv
<1>2. ShortOK' /\ DoneOK'
  BY DEF ShortOK, DoneOK
<1> QED
  BY <1>1, <1>2 DEF LandInv

\* A source is short-circuited on a record of the very catalog it serves.
LEMMA ShortSettled ==
  ASSUME TypeInv, RecordOK, NEW i \in DOMAIN spec.sources, SourcePlan(i).short
  PROVE  Settled(spec, upstream, dest, i, SourcePlan(i).catalog)
<1>1. LET seen == record[spec.sources[i].as] IN seen # None /\ seen.source = SourcePlan(i).catalog
  BY DEF SourcePlan, ShortCircuited, CacheRecord
<1> QED
  BY <1>1 DEF RecordOK

LEMMA LandPreflight ==
  ASSUME ~Rehoming, ContentTellsRoots, OwnerInv, LandInv, Forward, Preflight
  PROVE  LandInv'
<1> DEFINE i == Len(run.plans) + 1
<1>0. /\ run \in Runs /\ spec.sources \in Seq(RegistrySources) /\ i \in DOMAIN spec.sources
      /\ run.pc = "preflight" /\ TypeInv
  BY SourceFacts DEF OwnerInv, TypeInv, Preflight, Runs
<1>1. CASE Expressible(i, SourcePlan(i))
  <2>1. SourcePlan(i) \in Plans
    BY <1>0, SourcePlanFacts
  <2>2. SourcePlan(i).short => Settled(spec, upstream, dest, i, SourcePlan(i).catalog)
    BY <1>0, ShortSettled DEF LandInv
  <2>3. /\ run' = [run EXCEPT !.plans = Append(@, SourcePlan(i))]
        /\ UNCHANGED <<spec, upstream, tree, record, dest>>
    BY <1>1 DEF Preflight
  <2> DEFINE plan == SourcePlan(i)
  <2> HIDE DEF plan
  <2>4. /\ run'.pc = "preflight" /\ DOMAIN run'.plans = DOMAIN run.plans \cup {i}
        /\ run'.plans[i] = plan /\ \A j \in DOMAIN run.plans : run'.plans[j] = run.plans[j]
    <3>1. run.plans \in Seq(Plans) /\ plan \in Plans
      BY <1>0, <2>1 DEF Runs, plan
    <3>2. run'.plans = Append(run.plans, plan) /\ run'.pc = "preflight"
      BY <1>0, <2>3 DEF Runs, plan
    <3> QED
      BY <3>1, <3>2
  <2>5. RecordOK' /\ TreeOK'
    BY <2>3, RecordStays DEF OwnerInv, LandInv
  <2>6. ShortOK'
    BY <2>2, <2>3, <2>4 DEF LandInv, ShortOK, plan
  <2>7. DoneOK'
    BY <2>4 DEF DoneOK
  <2> QED
    BY <2>5, <2>6, <2>7 DEF LandInv
<1>2. CASE ~Expressible(i, SourcePlan(i))
  <2>1. run' = IdleRun /\ UNCHANGED <<tree, record>>
    BY <1>2 DEF Preflight, Stop
  <2>2. run'.plans = <<>> /\ run'.pc = "idle"
    BY ONLY <2>1 DEF IdleRun
  <2> QED
    BY <2>1, <2>2, LandRestart
<1> QED
  BY <1>1, <1>2

\* The copy enters a source with all its work to do; what it passes over is short-circuited.
LEMMA LandEnter ==
  ASSUME TypeInv, ShortOK, NEW n \in Nat \ {0}, Len(run.plans) = Len(spec.sources),
         run' = Entering(n), UNCHANGED <<spec, upstream, dest>>, run.flying = {},
         ~run.red => \A i \in DOMAIN spec.sources :
            i < n => Settled(spec, upstream, dest, i, run.plans[i].catalog)
  PROVE  ShortOK' /\ DoneOK'
<1>0. spec' = spec /\ upstream' = upstream /\ dest' = dest
  OBVIOUS
<1>1. spec.sources \in Seq(RegistrySources) /\ run.plans \in Seq(Plans)
  BY SourceFacts DEF TypeInv, Runs
<1>2. /\ run'.plans = run.plans /\ run'.red = run.red /\ run'.flying = {}
      /\ \/ /\ run'.pc = "report"
            /\ \A j \in DOMAIN spec.sources : n <= j => run.plans[j].short
         \/ /\ run'.pc = "copy" /\ run'.at \in DOMAIN spec.sources
            /\ n <= run'.at /\ ~run'.failed
            /\ run'.todo = Work(run'.at, run.plans[run'.at])
            /\ \A j \in DOMAIN spec.sources : n <= j /\ j < run'.at => run.plans[j].short
  BY EnteringFacts
<1>3. ShortOK'
  BY <1>2 DEF ShortOK
<1>4. \A j \in DOMAIN spec.sources : run.plans[j].short => Settled(spec, upstream, dest, j, run.plans[j].catalog)
  BY <1>1 DEF ShortOK
<1>5. CASE run'.pc = "report"
  <2>1. \A i \in DOMAIN spec.sources : ~run.red => Settled(spec, upstream, dest, i, run.plans[i].catalog)
    BY <1>1, <1>2, <1>4, <1>5
  <2> QED
    BY <1>0, <1>2, <1>3, <1>5, <2>1 DEF DoneOK
<1>6. CASE run'.pc = "copy"
  <2>1. \A i \in DOMAIN spec.sources :
          ~run.red /\ i < run'.at => Settled(spec, upstream, dest, i, run.plans[i].catalog)
    BY <1>1, <1>2, <1>4, <1>6
  <2>2. Done(spec, upstream, dest, run'.at, run.plans[run'.at], run'.todo, run'.flying)
    BY <1>2, <1>6 DEF Done, Work
  <2> QED
    BY <1>0, <1>2, <1>3, <1>6, <2>1, <2>2 DEF DoneOK, PlanHere
<1> QED
  BY <1>2, <1>5, <1>6

LEMMA LandBegin ==
  ASSUME ContentTellsRoots, OwnerInv, LandInv, Forward, BeginCopy
  PROVE  LandInv'
<1>1. /\ run.pc = "preflight" /\ Len(run.plans) = Len(spec.sources)
      /\ run' = Entering(1) /\ UNCHANGED <<spec, upstream, tree, record, dest>>
      /\ run.flying = {} /\ spec.sources \in Seq(RegistrySources)
  BY SourceFacts DEF BeginCopy, Planned, OwnerInv, TypeInv, PlansOK
<1>2. RecordOK' /\ TreeOK'
  BY <1>1, RecordStays DEF OwnerInv, LandInv
<1>3. ShortOK' /\ DoneOK'
  <2>1. \A i \in DOMAIN spec.sources : ~(i < 1)
    BY <1>1
  <2>2. TypeInv /\ ShortOK /\ 1 \in Nat \ {0}
    BY DEF OwnerInv, LandInv
  <2> QED
    BY <1>1, <2>1, <2>2, LandEnter
<1> QED
  BY <1>2, <1>3 DEF LandInv

\* A source nothing failed in, with nothing left to do, is settled, and so is its record.
LEMMA LandClose ==
  ASSUME ContentTellsRoots, OwnerInv, LandInv, Forward, CloseSource
  PROVE  LandInv'
<1> DEFINE at == run.at
           catalog == PlanHere.catalog
<1>1. /\ run.pc = "copy" /\ Len(run.plans) = Len(spec.sources)
      /\ run' = Entering(at + 1) /\ UNCHANGED <<spec, upstream, tree, dest>>
      /\ run.todo = {} /\ run.flying = {} /\ run \in Runs
      /\ at \in DOMAIN spec.sources /\ at \in DOMAIN run.plans
      /\ spec.sources \in Seq(RegistrySources) /\ Accepted(spec)
  BY SourceFacts DEF CloseSource, OwnerInv, TypeInv, CopyOK, PlansOK, Runs
<1>2. ~run.failed => Settled(spec, upstream, dest, at, catalog)
  BY <1>1 DEF LandInv, DoneOK, Done, Settled, Served
<1>3. Past(spec, upstream, at, catalog)
  BY <1>1 DEF OwnerInv, PlansOK, PlanHere
<1>4. RecordOK'
  <2>1. CASE run.failed
    <3>1. record' = record
      BY <2>1 DEF CloseSource
    <3> QED
      BY <3>1, RecordStays DEF OwnerInv, LandInv
  <2>2. CASE ~run.failed
    <3>1. record' = [record EXCEPT ![As] = CacheRecord(catalog, PlanHere.local)]
      BY <2>2 DEF CloseSource
    <3>2. As \in AsNames /\ record \in [AsNames -> Option(Records)]
      BY <1>1, SourceFacts DEF As, OwnerInv, TypeInv
    <3> SUFFICES ASSUME NEW i \in DOMAIN spec.sources, record'[spec.sources[i].as] # None
                 PROVE  /\ Past(spec, upstream, i, record'[spec.sources[i].as].source)
                        /\ Settled(spec, upstream, dest, i, record'[spec.sources[i].as].source)
      BY <1>1 DEF RecordOK
    <3>3. CASE i = at
      <4>1. record'[As] = CacheRecord(catalog, PlanHere.local) /\ spec.sources[i].as = As
        BY <3>1, <3>2, <3>3 DEF As
      <4>2. record'[spec.sources[i].as].source = catalog
        BY <4>1 DEF CacheRecord
      <4> QED
        BY <1>2, <1>3, <2>2, <3>3, <4>2
    <3>4. CASE i # at
      <4>1. spec.sources[i].as # As
        BY <1>1, <3>4 DEF Accepted, ValidSources, As
      <4>2. record'[spec.sources[i].as] = record[spec.sources[i].as]
        BY <3>1, <3>2, <4>1
      <4> QED
        BY <4>2 DEF LandInv, RecordOK
    <3> QED
      BY <3>3, <3>4
  <2> QED
    BY <2>1, <2>2
<1>5. TreeOK'
  BY <1>1, RecordStays DEF OwnerInv, LandInv
<1>6. ShortOK' /\ DoneOK'
  <2>1. ~run.red => \A i \in DOMAIN spec.sources :
          i < at + 1 => Settled(spec, upstream, dest, i, run.plans[i].catalog)
    <3>1. ~run.red => ~run.failed
      BY <1>1 DEF LandInv, DoneOK
    <3>2. \A i \in DOMAIN spec.sources : i < at + 1 => i = at \/ i < at
      BY <1>1
    <3>3. ~run.red => \A i \in DOMAIN spec.sources :
            i < at => Settled(spec, upstream, dest, i, run.plans[i].catalog)
      BY <1>1 DEF LandInv, DoneOK
    <3> QED
      BY <1>2, <3>1, <3>2, <3>3 DEF PlanHere
  <2>2. TypeInv /\ ShortOK /\ at + 1 \in Nat \ {0}
    BY <1>1 DEF OwnerInv, LandInv
  <2> HIDE DEF at
  <2> QED
    BY <1>1, <2>1, <2>2, LandEnter
<1> QED
  BY <1>4, <1>5, <1>6 DEF LandInv

\* In the copy of a source, a package leaves the work to do, is under way, or is done with.
LEMMA LandCopy ==
  ASSUME LandInv, run.pc = "copy", UNCHANGED <<spec, upstream>>,
         run'.pc = "copy", run'.plans = run.plans, run'.at = run.at, run'.at \in DOMAIN spec.sources,
         DOMAIN spec.sources = DOMAIN run.plans,
         Grows(dest, dest'),
         \A p \in run'.flying : p.landed => p \in run.flying \/ Landed(spec', dest', run.at, p.key, p.root),
         \/ /\ run'.failed = run.failed /\ run'.red = run.red
            /\ \A k \in Keys : k \in Work(run.at, PlanHere) =>
                 \/ k \in run'.todo \/ \E p \in run'.flying : p.key = k
                 \/ k \notin run.todo /\ \A p \in run.flying : p.key # k
                 \/ Current(run.at, k) = PlanHere.catalog[k] =>
                      Landed(spec', dest', run.at, k, PlanHere.catalog[k])
         \/ run'.failed /\ run'.red
  PROVE  ShortOK' /\ DoneOK'
<1>0. spec' = spec /\ upstream' = upstream
  OBVIOUS
<1>1. \A i, k, root : Landed(spec, dest, i, k, root) => Landed(spec', dest', i, k, root)
  BY <1>0 DEF Landed, Grows
<1>2. \A i, catalog : Settled(spec, upstream, dest, i, catalog) => Settled(spec', upstream', dest', i, catalog)
  BY <1>0, <1>1 DEF Settled
<1>3. ShortOK'
  BY <1>2 DEF LandInv, ShortOK
<1>4. \A p \in run'.flying : p.landed => Landed(spec', dest', run.at, p.key, p.root)
  BY <1>1 DEF LandInv, DoneOK
<1>5. (run'.failed => run'.red) /\ (~run'.red => ~run.red)
  BY DEF LandInv, DoneOK
<1>6. ~run'.failed => Done(spec', upstream', dest', run.at, PlanHere, run'.todo, run'.flying)
  <2> SUFFICES ASSUME ~run'.failed, NEW k \in Keys, k \in Served(PlanHere.catalog),
                      Selected(spec.sources[run.at], k), k \notin run'.todo, ~\E p \in run'.flying : p.key = k,
                      Current(run.at, k) = PlanHere.catalog[k]
               PROVE  Landed(spec', dest', run.at, k, PlanHere.catalog[k])
    BY <1>0 DEF Done, Current
  <2>1. k \in Work(run.at, PlanHere)
    BY DEF Work
  <2>2. CASE k \notin run.todo /\ \A p \in run.flying : p.key # k
    <3>1. Done(spec, upstream, dest, run.at, PlanHere, run.todo, run.flying)
      BY DEF LandInv, DoneOK
    <3> QED
      BY <1>1, <2>2, <3>1 DEF Done, Current
  <2>3. CASE Landed(spec', dest', run.at, k, PlanHere.catalog[k])
    BY <2>3
  <2> QED
    BY <2>1, <2>2, <2>3
<1>7. ~run'.red => \A i \in DOMAIN spec.sources :
        i < run.at => Settled(spec', upstream', dest', i, run.plans[i].catalog)
  BY <1>2, <1>5 DEF LandInv, DoneOK
<1>8. DoneOK'
  BY <1>0, <1>4, <1>5, <1>6, <1>7 DEF DoneOK, PlanHere
<1> QED
  BY <1>3, <1>8

\* What is skipped is mirrored already: the tree's content is of the very root that is served.
LEMMA SkippedLanded ==
  ASSUME ContentTellsRoots, TypeInv, TreeOK, NEW i \in DOMAIN spec.sources, NEW k \in Keys,
         tree[spec.sources[i].as][k] # None, Current(i, k) # None,
         tree[spec.sources[i].as][k].content = Current(i, k).content
  PROVE  Landed(spec, dest, i, k, Current(i, k))
<1>1. PICK root \in Published[spec.sources[i].index][k] :
        root.content = Current(i, k).content /\ Landed(spec, dest, i, k, root)
  BY DEF TreeOK
<1>2. spec.sources[i].index \in Indexes
  BY SourceFacts DEF TypeInv
<1>3. Current(i, k) \in Published[spec.sources[i].index][k]
  BY <1>2 DEF TypeInv, Current, Option
<1> QED
  BY <1>1, <1>2, <1>3 DEF ContentTellsRoots

LEMMA LandTake ==
  ASSUME ContentTellsRoots, OwnerInv, LandInv, Forward, NEW key \in Keys, Take(key)
  PROVE  LandInv'
<1> DEFINE root == Current(run.at, key)
           flight == [key |-> key, root |-> root, path |-> PathOf(spec, run.at, key, root), landed |-> FALSE]
<1>1. /\ run.pc = "copy" /\ UNCHANGED <<spec, upstream, tree, record, dest>>
      /\ run \in Runs /\ run.at \in DOMAIN spec.sources /\ DOMAIN spec.sources = DOMAIN run.plans
      /\ key \in Served(PlanHere.catalog)
      /\ spec.sources \in Seq(RegistrySources)
  BY SourceFacts DEF Take, OwnerInv, TypeInv, CopyOK, Work, Runs
<1>2. \/ /\ ShouldSkip(root, tree[As][key], PlanHere.local[key])
         /\ run' = [run EXCEPT !.todo = @ \ {key}]
      \/ run' = [run EXCEPT !.todo = @ \ {key}, !.flying = @ \cup {flight}]
      \/ run' = [run EXCEPT !.todo = @ \ {key}, !.failed = TRUE, !.red = TRUE]
  BY DEF Take, Failing, Current
<1>3. root # None
  <2>1. Past(spec, upstream, run.at, PlanHere.catalog)
    BY <1>1 DEF OwnerInv, PlansOK, PlanHere
  <2> QED
    BY <1>1, <2>1 DEF Past, Earlier, Served, Current
<1> HIDE DEF root
<1>4. ~flight.landed /\ flight.key = key
  OBVIOUS
<1> HIDE DEF flight
<1>5. /\ run'.pc = "copy" /\ run'.plans = run.plans /\ run'.at = run.at
      /\ \A p \in run'.flying : p.landed => p \in run.flying
      /\ \/ /\ run'.failed = run.failed /\ run'.red = run.red /\ run.todo \subseteq run'.todo \cup {key}
            /\ run.flying \subseteq run'.flying
            /\ \/ \E p \in run'.flying : p.key = key
               \/ root = PlanHere.catalog[key] => Landed(spec, dest, run.at, key, PlanHere.catalog[key])
         \/ run'.failed /\ run'.red
  <2>1. CASE /\ ShouldSkip(root, tree[As][key], PlanHere.local[key])
             /\ run' = [run EXCEPT !.todo = @ \ {key}]
    <3>1. Landed(spec, dest, run.at, key, root)
      BY <1>1, <1>3, <2>1, SkippedLanded DEF ShouldSkip, As, LandInv, OwnerInv, root
    <3> QED
      BY <1>1, <2>1, <3>1 DEF Runs
  <2>2. CASE run' = [run EXCEPT !.todo = @ \ {key}, !.flying = @ \cup {flight}]
    BY <1>1, <1>4, <2>2 DEF Runs
  <2>3. CASE run' = [run EXCEPT !.todo = @ \ {key}, !.failed = TRUE, !.red = TRUE]
    BY <1>1, <2>3 DEF Runs
  <2> QED
    BY <1>2, <2>1, <2>2, <2>3
<1>6. ShortOK' /\ DoneOK'
  <2>1. Grows(dest, dest')
    BY DEF Forward
  <2>2. run'.failed = run.failed /\ run'.red = run.red /\ run.todo \subseteq run'.todo \cup {key}
            /\ run.flying \subseteq run'.flying
            /\ (\/ \E p \in run'.flying : p.key = key
                \/ root = PlanHere.catalog[key] => Landed(spec, dest, run.at, key, PlanHere.catalog[key]))
        => \A k \in Keys : k \in Work(run.at, PlanHere) =>
                 \/ k \in run'.todo \/ \E p \in run'.flying : p.key = k
                 \/ k \notin run.todo /\ \A p \in run.flying : p.key # k
                 \/ Current(run.at, k) = PlanHere.catalog[k] =>
                      Landed(spec', dest', run.at, k, PlanHere.catalog[k])
    BY <1>1 DEF root
  <2> QED
    BY <1>1, <1>5, <2>1, <2>2, LandCopy
<1>7. RecordOK' /\ TreeOK'
  BY <1>1, RecordStays DEF OwnerInv, LandInv
<1> QED
  BY <1>6, <1>7 DEF LandInv

LEMMA LandLand ==
  ASSUME ContentTellsRoots, OwnerInv, LandInv, Forward, NEW p \in run.flying, Land(p)
  PROVE  LandInv'
<1> DEFINE q == [p EXCEPT !.landed = TRUE]
<1>1. /\ run.pc = "copy" /\ UNCHANGED <<spec, upstream, tree, record>>
      /\ run' = [run EXCEPT !.flying = (@ \ {p}) \cup {q}]
      /\ p.path \in DOMAIN dest' /\ p.root.content \in dest'[p.path].held
  <2> DEFINE held == {p.root.content} \cup IF p.path \in DOMAIN dest THEN dest[p.path].held ELSE {}
             entry == [held |-> held, writer |-> <<run.at, p.key>>]
  <2>1. /\ run.pc = "copy" /\ UNCHANGED <<spec, upstream, tree, record>>
        /\ run' = [run EXCEPT !.flying = (@ \ {p}) \cup {q}]
        /\ dest' = [path \in DOMAIN dest \cup {p.path} |-> IF path = p.path THEN entry ELSE dest[path]]
    BY DEF Land
  <2>2. entry.held = held /\ p.root.content \in held
    OBVIOUS
  <2> HIDE DEF entry, held, q
  <2> QED
    BY <2>1, <2>2
<1>2. /\ run \in Runs /\ run.at \in DOMAIN spec.sources /\ DOMAIN spec.sources = DOMAIN run.plans
      /\ p.path = PathOf(spec, run.at, p.key, p.root) /\ p \in Flights
  BY <1>1, FlyingFacts
<1>3. q.key = p.key /\ q.root = p.root
  BY <1>2 DEF Flights
<1> HIDE DEF q
<1>4. Landed(spec', dest', run.at, q.key, q.root)
  BY <1>1, <1>2, <1>3 DEF Landed
<1>5. /\ run'.pc = "copy" /\ run'.plans = run.plans /\ run'.at = run.at /\ run'.todo = run.todo
      /\ run'.failed = run.failed /\ run'.red = run.red
      /\ run'.flying = (run.flying \ {p}) \cup {q}
  BY <1>1, <1>2 DEF Runs
<1>6. \A k \in Keys : \/ \E r \in run'.flying : r.key = k
                      \/ \A r \in run.flying : r.key # k
  BY <1>3, <1>5
<1>7. ShortOK' /\ DoneOK'
  <2>1. Grows(dest, dest')
    BY DEF Forward
  <2>2. \A r \in run'.flying : r.landed => r \in run.flying \/ Landed(spec', dest', run.at, r.key, r.root)
    BY <1>4, <1>5
  <2> QED
    BY <1>1, <1>2, <1>5, <1>6, <2>1, <2>2, LandCopy
<1>8. RecordOK' /\ TreeOK'
  BY <1>1, RecordStays DEF OwnerInv, LandInv
<1> QED
  BY <1>7, <1>8 DEF LandInv

LEMMA LandFail ==
  ASSUME ContentTellsRoots, OwnerInv, LandInv, Forward, NEW p \in run.flying, FailPackage(p)
  PROVE  LandInv'
<1>1. /\ run.pc = "copy" /\ UNCHANGED <<spec, upstream, tree, record, dest>>
      /\ run' = [run EXCEPT !.flying = @ \ {p}, !.failed = TRUE, !.red = TRUE]
  BY DEF FailPackage
<1>2. run \in Runs /\ run.at \in DOMAIN spec.sources /\ DOMAIN spec.sources = DOMAIN run.plans
  BY <1>1, FlyingFacts
<1>3. /\ run'.pc = "copy" /\ run'.plans = run.plans /\ run'.at = run.at
      /\ run'.failed /\ run'.red /\ run'.flying \subseteq run.flying
  BY <1>1, <1>2 DEF Runs
<1>4. ShortOK' /\ DoneOK'
  <2>1. Grows(dest, dest')
    BY DEF Forward
  <2> QED
    BY <1>1, <1>2, <1>3, <2>1, LandCopy
<1>5. RecordOK' /\ TreeOK'
  BY <1>1, RecordStays DEF OwnerInv, LandInv
<1> QED
  BY <1>4, <1>5 DEF LandInv

LEMMA LandStop ==
  ASSUME ContentTellsRoots, OwnerInv, LandInv, Forward, StopEarly
  PROVE  LandInv'
<1>1. /\ run.pc = "copy" /\ run.failed /\ UNCHANGED <<spec, upstream, tree, record, dest>>
      /\ run' = [run EXCEPT !.pc = "report", !.todo = {}] /\ run \in Runs
  BY DEF StopEarly, Stopped, OwnerInv, TypeInv
<1>2. run'.pc = "report" /\ run'.plans = run.plans /\ run'.red = run.red /\ run.red
  BY <1>1 DEF Runs, LandInv, DoneOK
<1>3. ShortOK' /\ DoneOK'
  BY <1>1, <1>2 DEF LandInv, ShortOK, DoneOK
<1>4. RecordOK' /\ TreeOK'
  BY <1>1, RecordStays DEF OwnerInv, LandInv
<1> QED
  BY <1>3, <1>4 DEF LandInv

\* The tree's new entry is of what the copy has landed.
LEMMA LandPublish ==
  ASSUME ContentTellsRoots, OwnerInv, LandInv, Forward, NEW p \in run.flying, Publish(p)
  PROVE  LandInv'
<1> DEFINE entry == [content |-> p.root.content, pointer |-> Pointer(spec, p.root, p.path)]
<1>1. /\ run.pc = "copy" /\ p.landed /\ UNCHANGED <<spec, upstream, record, dest>>
      /\ run' = [run EXCEPT !.flying = @ \ {p}]
      /\ tree' = [tree EXCEPT ![As][p.key] = entry] /\ entry.content = p.root.content
  BY DEF Publish
<1>2. /\ run \in Runs /\ run.at \in DOMAIN spec.sources /\ DOMAIN spec.sources = DOMAIN run.plans
      /\ spec.sources \in Seq(RegistrySources)
      /\ p.key \in Keys /\ p.root \in Published[spec.sources[run.at].index][p.key]
      /\ p.root \in RootDocuments
      /\ Aloft(spec, upstream, run.at, PlanHere, p)
      /\ Earlier(spec, upstream, run.at, p.key, p.root)
  BY <1>1, FlyingFacts
<1> HIDE DEF entry
<1>3. Landed(spec, dest, run.at, p.key, p.root)
  BY <1>1 DEF LandInv, DoneOK
<1>4. TreeOK'
  <2>0. As \in AsNames /\ tree \in [AsNames -> Trees] /\ Accepted(spec)
    BY <1>1, <1>2, SourceFacts DEF As, OwnerInv, TypeInv, PlansOK
  <2>1. \A as \in AsNames : \A k \in Keys :
          tree'[as][k] = IF as = As /\ k = p.key THEN entry ELSE tree[as][k]
    BY <1>1, <2>0 DEF Trees
  <2>2. SUFFICES ASSUME NEW i \in DOMAIN spec.sources, NEW k \in Keys,
                        tree'[spec.sources[i].as][k] # None
                 PROVE  \E root \in Published[spec.sources[i].index][k] :
                          /\ root.content = tree'[spec.sources[i].as][k].content
                          /\ Landed(spec, dest, i, k, root)
    BY <1>1 DEF TreeOK
  <2>3. spec.sources[i].as \in AsNames
    BY SourceFacts DEF OwnerInv, TypeInv
  <2>4. CASE spec.sources[i].as = As /\ k = p.key
    <3>1. i = run.at
      BY <1>2, <2>0, <2>4 DEF Accepted, ValidSources, As
    <3> QED
      BY <1>1, <1>2, <1>3, <2>1, <2>3, <2>4, <3>1
  <2>5. CASE ~(spec.sources[i].as = As /\ k = p.key)
    <3>1. tree'[spec.sources[i].as][k] = tree[spec.sources[i].as][k]
      BY <2>1, <2>3, <2>5
    <3> QED
      BY <2>2, <3>1 DEF LandInv, TreeOK
  <2> QED
    BY <2>4, <2>5
<1>5. Current(run.at, p.key) = PlanHere.catalog[p.key] =>
        Landed(spec, dest, run.at, p.key, PlanHere.catalog[p.key])
  <2> DEFINE x == spec.sources[run.at].index
             old == PlanHere.catalog[p.key]
             key == p.key
             root == p.root
  <2> SUFFICES ASSUME Current(run.at, key) = old PROVE root = old
    BY <1>3
  <2>1. Past(spec, upstream, run.at, PlanHere.catalog) /\ old # None
    BY <1>2 DEF OwnerInv, PlansOK, PlanHere, Aloft, Served
  <2>2. x \in Indexes /\ old \in Published[x][key] /\ root \in Published[x][key] /\ key \in Keys
    BY <1>2, <2>1, SourceFacts DEF Past, Earlier, OwnerInv, TypeInv
  <2>3. old.content \in Nat /\ root.content \in Nat
    BY <2>2, NoneFacts DEF RootDocuments
  <2>4. old.content <= root.content
    BY <1>2 DEF Aloft
  <2>5. root.content <= old.content
    BY <1>2, NoneAssumption DEF Earlier, Current
  <2> HIDE DEF x, old, key, root
  <2>6. old.content = root.content
    BY <2>3, <2>4, <2>5
  <2> QED
    BY <2>2, <2>6 DEF ContentTellsRoots
<1>6. /\ run'.pc = "copy" /\ run'.plans = run.plans /\ run'.at = run.at /\ run'.todo = run.todo
      /\ run'.failed = run.failed /\ run'.red = run.red
      /\ run'.flying = run.flying \ {p}
  BY <1>1, <1>2 DEF Runs
<1>7. \A k \in Keys :
         \/ \E r \in run'.flying : r.key = k
         \/ \A r \in run.flying : r.key # k
         \/ Current(run.at, k) = PlanHere.catalog[k] => Landed(spec', dest', run.at, k, PlanHere.catalog[k])
  BY <1>1, <1>5, <1>6
<1>8. ShortOK' /\ DoneOK'
  <2>1. Grows(dest, dest')
    BY DEF Forward
  <2> QED
    BY <1>1, <1>2, <1>6, <1>7, <2>1, LandCopy
<1>9. RecordOK'
  BY <1>1, RecordStays DEF OwnerInv, LandInv
<1> QED
  BY <1>4, <1>8, <1>9 DEF LandInv

LEMMA LandStep ==
  ASSUME ~Rehoming, ContentTellsRoots, OwnerInv, LandInv, [Next]_vars
  PROVE  LandInv'
<1>1. Forward
  BY StepsForward DEF OwnerInv
<1>2. CASE Release \/ Edit \/ Refuse \/ UNCHANGED vars
  BY <1>1, <1>2, LandOutside DEF Release, Edit, Refuse, vars
<1>3. CASE Start \/ RefuseCollision \/ Report \/ Abort
  <2>1. tree' = tree /\ record' = record /\ (run' = IdleRun \/ run' = [IdleRun EXCEPT !.pc = "preflight"])
    BY <1>3 DEF Start, RefuseCollision, Report, Abort, Stop
  <2>2. run'.plans = <<>> /\ run'.pc \in {"idle", "preflight"}
    BY ONLY <2>1 DEF IdleRun
  <2> QED
    BY <1>1, <2>1, <2>2, LandRestart
<1>4. CASE Preflight \/ BeginCopy \/ CloseSource \/ StopEarly
  BY <1>1, <1>4, LandPreflight, LandBegin, LandClose, LandStop
<1>5. ASSUME NEW key \in Keys, Take(key) PROVE LandInv'
  BY <1>1, <1>5, LandTake
<1>6. ASSUME NEW p \in run.flying, Land(p) \/ Publish(p) \/ FailPackage(p) PROVE LandInv'
  BY <1>1, <1>6, LandLand, LandPublish, LandFail
<1> QED
  BY <1>2, <1>3, <1>4, <1>5, <1>6 DEF Next, Step

\* A run that reports success has every package it was to mirror, and that is still served as
\* its catalog had it, at the destination the spec names: what it copied, what it skipped, and
\* the sources it passed over on the record of an earlier run.
THEOREM SuccessIsLanded ==
  ASSUME ~Rehoming, ContentTellsRoots
  PROVE  Spec => []SuccessLands
<1>1. Init => LandInv
  BY InitLand
<1>2. OwnerInv /\ LandInv /\ [Next]_vars => LandInv'
  BY LandStep
<1>3. OwnerInv /\ LandInv => SuccessLands
  <2> SUFFICES ASSUME OwnerInv, LandInv, run.pc = "report", ~run.red,
                      NEW i \in DOMAIN run.plans, NEW k \in Work(i, run.plans[i]),
                      Current(i, k) = run.plans[i].catalog[k]
               PROVE  Landed(spec, dest, i, k, Current(i, k))
    BY DEF SuccessLands, Current, Landed
  <2>1. i \in DOMAIN spec.sources
    BY SourceFacts DEF OwnerInv, TypeInv, CopyOK, Runs
  <2> QED
    BY <2>1 DEF LandInv, DoneOK, Settled, Work, Served, Current
<1> QED
  BY <1>1, <1>2, <1>3, OwnerHolds, PTL DEF Spec
=============================================================================
