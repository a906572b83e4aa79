------------------------- MODULE SignBackfillProofs -------------------------
(* Theorems about SignBackfill, for every value of its constants: any          *)
(* manifests and tags, any command lines, and any number of passes, moved      *)
(* tags, signatures of others, failures, retries, interrupts and kills.        *)
EXTENDS SignBackfill, FiniteSetTheorems, WellFoundedInduction, TLAPS

-----------------------------------------------------------------------------
(* Minima of sets of naturals.                                               *)

\* A family of finite sets has a member of which no other is a strict subset.
LEMMA MinimalSet ==
  ASSUME NEW T, T # {}, \A X \in T : IsFiniteSet(X)
  PROVE  \E X \in T : \A Y \in T : Y \subseteq X => Y = X
<1>1. T \subseteq FiniteSubsetsOf(UNION T)
  BY DEF FiniteSubsetsOf
<1>2. PICK X \in T : \A Y \in T : ~(<<Y, X>> \in StrictSubsetOrdering(UNION T))
  BY <1>1, FS_StrictSubsetOrderingWellFounded, WFMin
<1>3. ASSUME NEW Y \in T, Y \subseteq X, Y # X PROVE FALSE
  <2>1. <<Y, X>> \in (SUBSET UNION T) \X (SUBSET UNION T)
    OBVIOUS
  <2> QED
    BY <1>2, <1>3, <2>1 DEF StrictSubsetOrdering
<1> QED
  BY <1>3

\* Min(S) is a member of S and no greater than the others: of the intervals that end at a
\* member, one has no strict subset among them.
LEMMA SmallestOf ==
  ASSUME NEW S \in SUBSET Nat, S # {}
  PROVE  Min(S) \in S /\ \A x \in S : Min(S) <= x
<1> DEFINE Down(x) == 0..x
           Downs == {Down(x) : x \in S}
<1>1. \A x \in S : IsFiniteSet(Down(x))
  BY FS_Interval
<1>2. \A x, m \in S : x < m => Down(x) \subseteq Down(m) /\ Down(x) # Down(m)
  OBVIOUS
<1> HIDE DEF Down
<1>3. \E X \in Downs : \A Y \in Downs : Y \subseteq X => Y = X
  <2>1. Downs # {} /\ \A X \in Downs : IsFiniteSet(X)
    BY <1>1
  <2> HIDE DEF Downs
  <2> QED
    BY <2>1, MinimalSet
<1>4. PICK m \in S : \A x \in S : m <= x
  BY <1>2, <1>3
<1> QED
  BY <1>4 DEF Min

-----------------------------------------------------------------------------
(* The plan: every subject once, under a target that reaches it.              *)

\* What the registry serves for a target.
Reaches(t) ==
    IF t.platform = 0 THEN {tags[t.tag]}
    ELSE {e[2] : e \in {e \in Children[tags[t.tag]] : e[1] = t.platform}}

TagsOK == tags \in [Tags -> Digests \cup {0}]

LEMMA GraphFacts ==
    ASSUME NEW d \in Digests
    PROVE  /\ d \in Nat /\ d # 0
           /\ \A e \in Children[d] :
                /\ e[1] \in Nat /\ e[1] # 0 /\ e[2] \in Digests /\ e = <<e[1], e[2]>>
                /\ Children[e[2]] = {} /\ \A f \in Children[d] : f[1] = e[1] => f = e
<1>1. Children[d] \subseteq (Nat \ {0}) \X Digests
  BY ChildAssumption
<1>2. \A e \in Children[d] : e[1] \in Nat \ {0} /\ e[2] \in Digests /\ e = <<e[1], e[2]>>
  BY <1>1
<1> QED
  BY <1>2, ChildAssumption, DigestAssumption

LEMMA SeenOf ==
    ASSUME NEW ds, NEW x
    PROVE  x \in Seen(ds) <=> \E d \in ds : x = d \/ \E e \in Children[d] : e[2] = x
  BY DEF Seen

LEMMA PublishedFacts ==
    ASSUME TagsOK, NEW d \in Published
    PROVE  /\ d \in Digests /\ Representative(d) \in Tags /\ Representative(d) \in Nat
           /\ tags[Representative(d)] = d
<1> DEFINE S == {t \in Listed : tags[t] = d}
<1>1. S \in SUBSET Nat /\ S # {} /\ S \subseteq Tags /\ d \in Digests
  BY TagAssumption DEF Published, Listed, TagsOK
<1>2. Min(S) \in S
  <2> HIDE DEF S
  <2> QED
    BY <1>1, SmallestOf
<1>3. Representative(d) = Min(S)
  BY DEF Representative
<1> QED
  BY <1>1, <1>2, <1>3

\* A target of the plan is an index's, or one of its platforms'.
OfIndex(t, d) ==
    /\ d \notin KnownToIndexes(d)
    /\ t = [tag |-> Representative(d), platform |-> 0, subject |-> d]
OfPlatform(t, d, e) ==
    /\ d \notin KnownToIndexes(d)
    /\ e[2] \notin Seen(Earlier(d)) /\ e[2] # d
    /\ \A f \in Children[d] : f[2] = e[2] => e[1] <= f[1]
    /\ t = [tag |-> Representative(d), platform |-> e[1], subject |-> e[2]]

LEMMA PlanOf ==
    ASSUME NEW t
    PROVE  t \in Plan <=> \/ \E d \in Published : OfIndex(t, d)
                          \/ \E d \in Published : \E e \in Children[d] : OfPlatform(t, d, e)
<1>1. t \in IndexTargets <=> \E d \in Published : OfIndex(t, d)
  BY DEF IndexTargets, OfIndex
<1>2. t \in PlatformTargets <=> \E d \in Published : \E e \in Children[d] : OfPlatform(t, d, e)
  <2>1. ASSUME t \in PlatformTargets
        PROVE  \E d \in Published : \E e \in Children[d] : OfPlatform(t, d, e)
    <3>1. PICK d \in {d \in Published : d \notin KnownToIndexes(d)} :
            t \in {[tag |-> Representative(d), platform |-> e[1], subject |-> e[2]] :
                       e \in {e \in Children[d] :
                                /\ e[2] \notin Seen(Earlier(d)) \cup {d}
                                /\ \A f \in Children[d] : f[2] = e[2] => e[1] <= f[1]}}
      BY <2>1 DEF PlatformTargets
    <3>2. PICK e \in Children[d] :
            /\ e[2] \notin Seen(Earlier(d)) \cup {d}
            /\ \A f \in Children[d] : f[2] = e[2] => e[1] <= f[1]
            /\ t = [tag |-> Representative(d), platform |-> e[1], subject |-> e[2]]
      BY <3>1
    <3> QED
      BY <3>1, <3>2 DEF OfPlatform
  <2>2. ASSUME NEW d \in Published, NEW e \in Children[d], OfPlatform(t, d, e)
        PROVE  t \in PlatformTargets
    <3>1. t \in {[tag |-> Representative(d), platform |-> f[1], subject |-> f[2]] :
                     f \in {f \in Children[d] :
                              /\ f[2] \notin Seen(Earlier(d)) \cup {d}
                              /\ \A g \in Children[d] : g[2] = f[2] => f[1] <= g[1]}}
      BY <2>2 DEF OfPlatform
    <3>2. d \in {c \in Published : c \notin KnownToIndexes(c)}
      BY <2>2 DEF OfPlatform
    <3> QED
      BY <3>1, <3>2 DEF PlatformTargets
  <2> QED
    BY <2>1, <2>2
<1> QED
  BY <1>1, <1>2 DEF Plan

LEMMA PlanTyped ==
    ASSUME TagsOK
    PROVE  Plan \subseteq Targets /\ Published \subseteq Digests
<1> SUFFICES ASSUME NEW t \in Plan PROVE t \in Targets
  BY PublishedFacts
<1>1. CASE \E d \in Published : OfIndex(t, d)
  BY <1>1, PublishedFacts DEF OfIndex, Targets
<1>2. ASSUME NEW d \in Published, NEW e \in Children[d], OfPlatform(t, d, e) PROVE t \in Targets
  <2>1. d \in Digests /\ Representative(d) \in Tags
    BY PublishedFacts
  <2>2. e[1] \in Nat /\ e[2] \in Digests
    BY <2>1, GraphFacts
  <2> QED
    BY <1>2, <2>1, <2>2 DEF OfPlatform, Targets
<1> QED
  BY <1>1, <1>2, PlanOf

\* A target of the plan reaches its subject and nothing else.
LEMMA PlanReaches ==
    ASSUME TagsOK, NEW t \in Plan
    PROVE  Reaches(t) = {t.subject}
<1>1. ASSUME NEW d \in Published, OfIndex(t, d) PROVE Reaches(t) = {t.subject}
  BY <1>1, PublishedFacts DEF OfIndex, Reaches
<1>2. ASSUME NEW d \in Published, NEW e \in Children[d], OfPlatform(t, d, e)
      PROVE  Reaches(t) = {t.subject}
  <2>1. d \in Digests /\ tags[Representative(d)] = d
    BY PublishedFacts
  <2>2. e[1] # 0 /\ \A f \in Children[d] : f[1] = e[1] => f = e
    BY <2>1, GraphFacts
  <2>3. t.platform = e[1] /\ t.subject = e[2] /\ tags[t.tag] = d
    BY <1>2, <2>1 DEF OfPlatform
  <2>4. Reaches(t) = {f[2] : f \in {f \in Children[d] : f[1] = e[1]}}
    BY <2>2, <2>3 DEF Reaches
  <2> QED
    BY <2>2, <2>3, <2>4
<1> QED
  BY <1>1, <1>2, PlanOf

\* No two targets are of one tag and platform.
LEMMA PlanKeyed ==
    ASSUME TagsOK, NEW t \in Plan, NEW u \in Plan, t.tag = u.tag, t.platform = u.platform
    PROVE  t = u
<1>1. t \in Targets /\ u \in Targets
  BY PlanTyped
<1>2. Reaches(t) = Reaches(u)
  BY DEF Reaches
<1>3. t.subject = u.subject
  BY <1>2, PlanReaches
<1> QED
  BY <1>1, <1>3 DEF Targets

\* No two targets have one subject.
LEMMA PlanDistinct ==
    ASSUME TagsOK, NEW t \in Plan, NEW u \in Plan, t.subject = u.subject
    PROVE  t = u
<1>1. \A d \in Published : d \in Nat /\ d \in Digests
  BY PublishedFacts, GraphFacts
<1>2. ASSUME NEW c \in Published, NEW d \in Published, OfIndex(t, c), OfIndex(u, d)
      PROVE  t = u
  BY <1>2 DEF OfIndex
<1>3. ASSUME NEW x \in Plan, NEW y \in Plan, x.subject = y.subject,
             NEW c \in Published, NEW d \in Published, NEW e \in Children[d],
             OfIndex(x, c), OfPlatform(y, d, e)
      PROVE  FALSE
  <2>1. /\ e[2] = c /\ c # d
        /\ c \notin Seen(Earlier(c)) /\ c \notin Seen(Earlier(d))
    BY <1>3 DEF OfIndex, OfPlatform, KnownToIndexes
  <2>2. ~(d < c)
    BY <2>1, SeenOf DEF Earlier
  <2>3. ~(c < d)
    BY <2>1, SeenOf DEF Earlier
  <2> QED
    BY <2>1, <2>2, <2>3, <1>1
<1>4. ASSUME NEW c \in Published, NEW e \in Children[c], OfPlatform(t, c, e),
             NEW d \in Published, NEW f \in Children[d], OfPlatform(u, d, f)
      PROVE  t = u
  <2>1. /\ e[2] = f[2] /\ e[2] \notin Seen(Earlier(c)) /\ e[2] \notin Seen(Earlier(d))
        /\ \A g \in Children[c] : g[2] = e[2] => e[1] <= g[1]
        /\ \A g \in Children[d] : g[2] = f[2] => f[1] <= g[1]
        /\ t = [tag |-> Representative(c), platform |-> e[1], subject |-> e[2]]
        /\ u = [tag |-> Representative(d), platform |-> f[1], subject |-> f[2]]
    BY <1>4 DEF OfPlatform
  <2>2. ~(d < c) /\ ~(c < d)
    BY <2>1, SeenOf DEF Earlier
  <2>3. c = d
    BY <2>2, <1>1
  <2>4. e[1] \in Nat /\ f[1] \in Nat
    BY <1>1, GraphFacts
  <2>5. e[1] = f[1]
    BY <2>1, <2>3, <2>4
  <2> QED
    BY <2>1, <2>3, <2>5
<1> QED
  BY <1>2, <1>3, <1>4, PlanOf

\* Every digest that the tags serve is a target's subject, and no other is.
LEMMA PlanCovers ==
    ASSUME TagsOK
    PROVE  Subjects(Plan) = Seen(Published)
<1>1. \A d \in Published : d \in Nat /\ d \in Digests
  BY PublishedFacts, GraphFacts
<1>2. ASSUME NEW t \in Plan PROVE t.subject \in Seen(Published)
  BY PlanOf, SeenOf DEF OfIndex, OfPlatform
<1>3. ASSUME NEW x \in Seen(Published) PROVE \E t \in Plan : t.subject = x
  <2> DEFINE S == {d \in Published : x = d \/ \E e \in Children[d] : e[2] = x}
             d == Min(S)
  <2>1. S \in SUBSET Nat /\ S # {}
    BY <1>1, <1>3, SeenOf
  <2>2. d \in S /\ \A c \in S : d <= c
    <3> HIDE DEF S
    <3> QED
      BY <2>1, SmallestOf
  <2> HIDE DEF d
  <2>3. d \in Published /\ d \in Nat /\ d \in Digests /\ (x = d \/ \E e \in Children[d] : e[2] = x)
    BY <1>1, <2>2
  <2>4. x \notin Seen(Earlier(d))
    <3> SUFFICES ASSUME NEW c \in Earlier(d), x = c \/ \E e \in Children[c] : e[2] = x
                 PROVE  FALSE
      BY SeenOf
    <3>1. c \in S /\ c < d /\ c \in Nat
      BY <1>1 DEF Earlier
    <3> QED
      BY <3>1, <2>2, <2>3
  <2> HIDE DEF S
  <2>5. CASE x = d
    <3>1. OfIndex([tag |-> Representative(d), platform |-> 0, subject |-> d], d)
      BY <2>4, <2>5 DEF OfIndex, KnownToIndexes
    <3> QED
      BY <3>1, <2>3, <2>5, PlanOf
  <2>6. CASE x # d
    <3>1. PICK e0 \in Children[d] : e0[2] = x
      BY <2>3, <2>6
    <3> DEFINE P == {e[1] : e \in {e \in Children[d] : e[2] = x}}
    <3>2. P \in SUBSET Nat /\ P # {}
      BY <2>3, <3>1, GraphFacts
    <3>3. Min(P) \in P /\ \A p \in P : Min(P) <= p
      <4> HIDE DEF P
      <4> QED
        BY <3>2, SmallestOf
    <3>4. PICK e \in Children[d] : e[2] = x /\ e[1] = Min(P)
      BY <3>3
    <3>5. \A f \in Children[d] : f[2] = e[2] => e[1] <= f[1]
      BY <3>3, <3>4
    <3>6. d \notin KnownToIndexes(d)
      <4> SUFFICES ASSUME NEW c \in Earlier(d), d = c \/ \E f \in Children[c] : f[2] = d
                   PROVE  FALSE
        BY SeenOf DEF KnownToIndexes
      <4>1. c \in Published /\ c < d /\ c \in Digests
        BY <1>1 DEF Earlier
      <4>2. Children[d] # {}
        BY <3>1
      <4> QED
        BY <4>1, <4>2, <2>3, GraphFacts
    <3>7. OfPlatform([tag |-> Representative(d), platform |-> e[1], subject |-> e[2]], d, e)
      BY <2>4, <2>6, <3>4, <3>5, <3>6 DEF OfPlatform
    <3> QED
      BY <3>4, <3>7, <2>3, PlanOf
  <2> QED
    BY <2>5, <2>6
<1> QED
  BY <1>2, <1>3 DEF Subjects

-----------------------------------------------------------------------------
(* The inductive invariant.                                                   *)

Steps == {"idle", "sign", "child", "report"}
AllOutcomes == {"succeeded", "already_signed", "dry_run", "cancelled"} \cup Failures
Runs == [step : Steps, mode : Modes, todo : SUBSET Targets, rows : SUBSET Rows,
         attempt : 0..MaxRetries, plan : SUBSET Targets, found : SUBSET Digests,
         moved : BOOLEAN, lost : Nat, wrote : [Digests -> Nat]]

SpentOK == DOMAIN spent = DOMAIN Bounds /\ \A b \in DOMAIN Bounds : spent[b] \in 0..Bounds[b]

TypesOK ==
    /\ TagsOK
    /\ signatures \in [Digests -> [Candidates -> Nat]]
    /\ run \in Runs
    /\ SpentOK

\* Each target of a pass is still to do or has one row, and no two have one subject.
Planned(r) ==
    /\ \A t, u \in r.plan : t.subject = u.subject => t = u
    /\ \A t, u \in r.plan : t.tag = u.tag /\ t.platform = u.platform => t = u
    /\ Subjects(r.plan) = Seen(r.found)
    /\ r.todo \subseteq r.plan
    /\ {x.target : x \in r.rows} = r.plan \ r.todo
    /\ \A x, y \in r.rows : x.target = y.target => x = y
    /\ r.step = "report" <=> r.todo = {}

\* A signature counts for a command line.
CountsFor(mode, c) ==
    /\ mode.identity # 0 => c[1] = mode.identity
    /\ mode.issuer # 0 => c[2] = mode.issuer
Respected(mode, held) == ~mode.force /\ \E c \in Candidates : CountsFor(mode, c) /\ held[c] > 0

\* What a row of a pass says of its subject, of which the registry has `held`.
RowOK(r, outcome, held) ==
    /\ outcome = "succeeded" /\ ~r.moved => held[Me] > 0
    /\ outcome = "already_signed" => Respected(r.mode, held)

\* One signature for each target done, and one for each attempt lost.
Counted(r) ==
    \A d \in Digests : r.wrote[d] <= r.lost + (IF d \in Subjects(r.plan \ r.todo) THEN 1 ELSE 0)

PassOK(r, sigs) ==
    /\ Planned(r)
    /\ \A x \in r.rows : RowOK(r, x.outcome, sigs[x.target.subject])
    /\ ~r.moved => Counted(r)

PassInv ==
    /\ run.step = "idle" => run = NoRun
    /\ run.step # "idle" => PassOK(run, signatures) /\ \A t \in run.plan : tags[t.tag] # 0
    /\ run.step # "idle" /\ ~run.moved => \A t \in run.plan : Reaches(t) = {t.subject}

Inv == TypesOK /\ PassInv

-----------------------------------------------------------------------------
(* The target a pass stands at.                                               *)

LEMMA FirstTarget ==
    ASSUME NEW S \in SUBSET Targets, S # {},
           \A t, u \in S : t.tag = u.tag /\ t.platform = u.platform => t = u
    PROVE  \E t \in S : \A u \in S \ {t} : Precedes(t, u)
<1>1. \A t \in S : t.tag \in Nat /\ t.platform \in Nat
  BY TagAssumption DEF Targets
<1> DEFINE I == {t \in S : t.platform = 0}
           A == IF I # {} THEN I ELSE S
           X == {t.tag : t \in A}
           B == {t \in A : t.tag = Min(X)}
           Y == {t.platform : t \in B}
<1>2. A \subseteq S /\ A # {}
  OBVIOUS
<1>3. Min(X) \in X /\ \A x \in X : Min(X) <= x
  <2> HIDE DEF A
  <2>1. X \in SUBSET Nat /\ X # {}
    BY <1>1, <1>2
  <2> HIDE DEF X
  <2> QED
    BY <2>1, SmallestOf
<1>4. Min(Y) \in Y /\ \A y \in Y : Min(Y) <= y
  <2> HIDE DEF A
  <2>1. B # {} /\ B \subseteq S
    BY <1>2, <1>3
  <2> HIDE DEF B
  <2>2. Y \in SUBSET Nat /\ Y # {}
    BY <1>1, <2>1
  <2> HIDE DEF Y
  <2> QED
    BY <2>2, SmallestOf
<1>5. PICK t \in A : t.tag = Min(X) /\ t.platform = Min(Y)
  <2> HIDE DEF A, X
  <2> QED
    BY <1>4
<1>6. \A u \in A : t.tag <= u.tag /\ (u.tag = t.tag => t.platform <= u.platform)
  <2> HIDE DEF A
  <2>1. \A u \in A : u.tag \in X
    OBVIOUS
  <2>2. \A u \in A : u.tag = t.tag => u.platform \in Y
    BY <1>5
  <2> HIDE DEF X, Y
  <2> QED
    BY <2>1, <2>2, <1>3, <1>4, <1>5
<1> SUFFICES ASSUME NEW u \in S, u # t PROVE Precedes(t, u)
  BY <1>2, <1>5
<1>7. /\ t \in S /\ t.tag \in Nat /\ t.platform \in Nat /\ u.tag \in Nat /\ u.platform \in Nat
      /\ (I # {} => t.platform = 0) /\ (u \notin A => u.platform # 0 /\ I # {})
      /\ (I = {} => t.platform # 0 /\ u.platform # 0)
  BY <1>1, <1>2, <1>5
<1> HIDE DEF A, I
<1>8. CASE u \in A
  BY <1>6, <1>7, <1>8 DEF Precedes
<1>9. CASE u \notin A
  BY <1>7, <1>9 DEF Precedes
<1> QED
  BY <1>8, <1>9

LEMMA TargetFacts ==
    ASSUME Inv, run.step \in {"sign", "child"}
    PROVE  /\ Target \in run.todo /\ Target \in run.plan /\ Target \in Targets
           /\ Target.subject \in Digests
           /\ Resolved = Reaches(Target)
<1>1. run \in Runs /\ Planned(run)
  BY DEF Inv, TypesOK, PassInv, PassOK
<1>2. run.todo \in SUBSET Targets /\ run.todo # {} /\ run.todo \subseteq run.plan
      /\ \A t, u \in run.todo : t.tag = u.tag /\ t.platform = u.platform => t = u
  BY <1>1 DEF Runs, Planned
<1>3. \E t \in run.todo : \A u \in run.todo \ {t} : Precedes(t, u)
  BY <1>2, FirstTarget
<1>4. Target \in run.todo
  BY <1>3 DEF Target
<1> QED
  BY <1>2, <1>4 DEF Targets, Resolved, Reaches

-----------------------------------------------------------------------------
(* The pass moves on.                                                         *)

\* From `r` to `r2` the targets in `done` are reported.
Advanced(r, r2, done, outcome) ==
    /\ r2.mode = r.mode /\ r2.plan = r.plan /\ r2.found = r.found /\ r2.moved = r.moved
    /\ r2.step = IF r.todo \subseteq done THEN "report" ELSE "sign"
    /\ r2.todo = r.todo \ done
    /\ r2.rows = r.rows \cup {[target |-> t, outcome |-> outcome] : t \in done}

LEMMA AdvancedPlanned ==
    ASSUME NEW r, NEW r2, NEW done \in SUBSET r.todo, NEW outcome, Advanced(r, r2, done, outcome),
           Planned(r)
    PROVE  Planned(r2)
<1> DEFINE new == {[target |-> t, outcome |-> outcome] : t \in done}
<1>1. {x.target : x \in new} = done
  <2>1. \A t \in done : [target |-> t, outcome |-> outcome] \in new
                        /\ [target |-> t, outcome |-> outcome].target = t
    OBVIOUS
  <2>2. \A x \in new : x.target \in done
    OBVIOUS
  <2> HIDE DEF new
  <2> QED
    BY <2>1, <2>2
<1>2. \A x \in new : x.target \in done /\ x.target \in r.todo
  OBVIOUS
<1>3. \A x, y \in new : x.target = y.target => x = y
  OBVIOUS
<1>4. r2.rows = r.rows \cup new
  BY DEF Advanced
<1> HIDE DEF new
<1>5. {x.target : x \in r2.rows} = {x.target : x \in r.rows} \cup done
  BY <1>1, <1>4
<1>6. {x.target : x \in r2.rows} = r2.plan \ r2.todo
  <2>1. {x.target : x \in r.rows} = r.plan \ r.todo /\ r.todo \subseteq r.plan
    BY DEF Planned
  <2>2. r2.plan = r.plan /\ r2.todo = r.todo \ done
    BY DEF Advanced
  <2> QED
    BY <1>5, <2>1, <2>2
<1>7. \A x \in r.rows : x.target \notin r.todo
  BY DEF Planned
<1>8. \A x, y \in r2.rows : x.target = y.target => x = y
  BY <1>2, <1>3, <1>4, <1>7 DEF Planned
<1>9. r2.step = "report" <=> r2.todo = {}
  BY DEF Advanced
<1>10. r2.todo \subseteq r2.plan /\ r2.plan = r.plan /\ r2.found = r.found
  BY DEF Advanced, Planned
<1> QED
  BY <1>6, <1>8, <1>9, <1>10 DEF Planned

\* The registry loses no signature.
Kept == \A d \in Digests : \A c \in Candidates : signatures[d][c] <= signatures'[d][c]

LEMMA RowsKept ==
    ASSUME TypesOK, TypesOK', Kept, NEW r, NEW r2, r2.mode = r.mode, ~r2.moved => ~r.moved,
           NEW outcome, NEW d \in Digests, RowOK(r, outcome, signatures[d])
    PROVE  RowOK(r2, outcome, signatures'[d])
<1>1. \A c \in Candidates : /\ signatures[d][c] \in Nat /\ signatures'[d][c] \in Nat
                            /\ signatures[d][c] <= signatures'[d][c]
  BY DEF TypesOK, Kept
<1>2. \A c \in Candidates : signatures[d][c] > 0 => signatures'[d][c] > 0
  BY <1>1
<1>3. Me \in Candidates
  BY ModeAssumption
<1> QED
  BY <1>2, <1>3 DEF RowOK, Respected

LEMMA AdvancedKeeps ==
    ASSUME Inv, TypesOK', Kept, UNCHANGED tags, run.step \in {"sign", "child"},
           NEW done \in SUBSET run.todo, NEW outcome, Advanced(run, run', done, outcome),
           \A t \in done : RowOK(run, outcome, signatures'[t.subject]),
           ~run.moved => Counted(run')
    PROVE  PassInv'
<1>1. run \in Runs /\ PassOK(run, signatures)
  BY DEF Inv, TypesOK, PassInv
<1>2. run'.step \in {"sign", "report"} /\ run'.moved = run.moved /\ run'.plan = run.plan
      /\ run'.mode = run.mode
      /\ run'.rows = run.rows \cup {[target |-> t, outcome |-> outcome] : t \in done}
  BY DEF Advanced
<1>3. Planned(run')
  BY <1>1, AdvancedPlanned DEF PassOK
<1>4. ASSUME NEW x \in run.rows PROVE RowOK(run', x.outcome, signatures'[x.target.subject])
  <2>1. x.target.subject \in Digests
    BY <1>1 DEF Runs, Rows, Targets
  <2>2. RowOK(run, x.outcome, signatures[x.target.subject])
    BY <1>1 DEF PassOK
  <2> QED
    BY <2>1, <2>2, <1>2, RowsKept DEF Inv
<1>5. ASSUME NEW t \in done PROVE RowOK(run', outcome, signatures'[t.subject])
  BY <1>2 DEF RowOK
<1>6. PassOK(run', signatures')
  BY <1>2, <1>3, <1>4, <1>5 DEF PassOK
<1>7. ~run'.moved => \A t \in run'.plan : Reaches(t)' = {t.subject}
  BY <1>2 DEF Reaches, Inv, PassInv
<1>8. \A t \in run'.plan : tags'[t.tag] # 0
  BY <1>2 DEF Inv, PassInv
<1> QED
  BY <1>2, <1>6, <1>7, <1>8 DEF PassInv

\* The pass stays where it is, or goes from looking at a subject to signing it.
LEMMA StayingKeeps ==
    ASSUME Inv, TypesOK', Kept, run.step # "idle", run'.step # "idle",
           run'.step = "report" <=> run.step = "report",
           run'.mode = run.mode, run'.plan = run.plan, run'.found = run.found,
           run'.todo = run.todo, run'.rows = run.rows,
           ~run'.moved => ~run.moved /\ UNCHANGED tags /\ Counted(run'),
           \A t \in run.plan : tags'[t.tag] # 0
    PROVE  PassInv'
<1>1. run \in Runs /\ PassOK(run, signatures)
  BY DEF Inv, TypesOK, PassInv
<1>2. Planned(run')
  <2>1. Planned(run)
    BY <1>1 DEF PassOK
  <2> QED
    BY <2>1 DEF Planned
<1>3. ASSUME NEW x \in run'.rows PROVE RowOK(run', x.outcome, signatures'[x.target.subject])
  <2>1. x.target.subject \in Digests
    BY <1>1 DEF Runs, Rows, Targets
  <2>2. RowOK(run, x.outcome, signatures[x.target.subject])
    BY <1>1 DEF PassOK
  <2> QED
    BY <2>1, <2>2, RowsKept DEF Inv
<1>4. PassOK(run', signatures')
  BY <1>2, <1>3 DEF PassOK
<1>5. ~run'.moved => \A t \in run'.plan : Reaches(t)' = {t.subject}
  BY DEF Reaches, Inv, PassInv
<1> QED
  BY <1>4, <1>5 DEF PassInv

-----------------------------------------------------------------------------
(* Types.                                                                     *)

LEMMA SpendTyped ==
    ASSUME SpentOK, NEW b \in DOMAIN Bounds, Spend(b)
    PROVE  SpentOK'
<1>1. \A c \in DOMAIN Bounds : Bounds[c] \in Nat
  BY BoundAssumption DEF Bounds
<1>2. DOMAIN spent' = DOMAIN spent /\ spent'[b] = spent[b] + 1 /\ spent[b] < Bounds[b]
      /\ \A c \in DOMAIN Bounds \ {b} : spent'[c] = spent[c]
  BY DEF Spend, SpentOK
<1>3. spent[b] \in 0..Bounds[b] /\ Bounds[b] \in Nat
  BY <1>1 DEF SpentOK
<1>4. spent'[b] \in 0..Bounds[b]
  BY <1>2, <1>3
<1> QED
  BY <1>2, <1>4 DEF SpentOK

LEMMA BoundNames == DOMAIN Bounds = {"others", "faults", "runs"}
  BY DEF Bounds

LEMMA NoRunTyped == NoRun \in Runs
<1>1. Scheduled \in Modes /\ 0 \in 0..MaxRetries
  BY ModeAssumption, BoundAssumption
<1> QED
  BY <1>1 DEF NoRun, Runs, Steps

LEMMA NoRunKeeps ==
    ASSUME TypesOK', run' = NoRun
    PROVE  Inv'
<1>1. run'.step = "idle"
  BY DEF NoRun
<1> QED
  BY <1>1 DEF Inv, PassInv

LEMMA SignTyped ==
    ASSUME signatures \in [Digests -> [Candidates -> Nat]], NEW d \in Digests, NEW c \in Candidates,
           signatures' = [signatures EXCEPT ![d][c] = @ + 1]
    PROVE  signatures' \in [Digests -> [Candidates -> Nat]] /\ Kept /\ signatures'[d][c] > 0
<1>1. \A e \in Digests, f \in Candidates :
        signatures[e][f] \in Nat
        /\ signatures'[e][f] = IF e = d /\ f = c THEN signatures[e][f] + 1 ELSE signatures[e][f]
  OBVIOUS
<1>2. \A e \in Digests, f \in Candidates :
        signatures[e][f] <= signatures'[e][f] /\ signatures'[e][f] \in Nat
  BY <1>1
<1>3. signatures'[d][c] > 0
  BY <1>1
<1> QED
  BY <1>2, <1>3 DEF Kept

LEMMA SameKept ==
    ASSUME signatures \in [Digests -> [Candidates -> Nat]], UNCHANGED signatures
    PROVE  Kept
<1>1. \A e \in Digests, f \in Candidates : signatures[e][f] \in Nat
  OBVIOUS
<1> QED
  BY <1>1 DEF Kept

\* What a child acts on is a manifest of the registry's.
LEMMA ResolvedTyped ==
    ASSUME Inv, run.step \in {"sign", "child"}
    PROVE  Resolved \subseteq Digests /\ (~run.moved => Resolved = {Target.subject})
<1>1. Target \in run.plan /\ Target \in Targets /\ Resolved = Reaches(Target)
  BY TargetFacts
<1>2. tags[Target.tag] \in Digests
  BY <1>1 DEF Inv, TypesOK, PassInv, TagsOK, Targets
<1>3. Reaches(Target) \subseteq Digests
  BY <1>2, GraphFacts DEF Reaches
<1> QED
  BY <1>1, <1>3 DEF Inv, PassInv

LEMMA AttachedTyped ==
    ASSUME Inv, NEW d \in Digests, signatures' = Attached(d)
    PROVE  signatures' \in [Digests -> [Candidates -> Nat]] /\ Kept /\ signatures'[d][Me] > 0
  BY SignTyped, ModeAssumption DEF Attached, Inv, TypesOK

LEMMA InFlightTyped ==
    ASSUME Inv, InFlight
    PROVE  signatures' \in [Digests -> [Candidates -> Nat]] /\ Kept
<1>1. CASE UNCHANGED signatures
  BY <1>1, SameKept DEF Inv, TypesOK
<1>2. ASSUME run.step = "child", NEW d \in Resolved, signatures' = Attached(d)
      PROVE  signatures' \in [Digests -> [Candidates -> Nat]] /\ Kept
  BY <1>2, ResolvedTyped, AttachedTyped
<1> QED
  BY <1>1, <1>2 DEF InFlight

-----------------------------------------------------------------------------
(* A report.                                                                  *)

LEMMA RowTyped ==
    ASSUME NEW done \in SUBSET Targets, NEW outcome \in AllOutcomes
    PROVE  {[target |-> t, outcome |-> outcome] : t \in done} \subseteq Rows
<1> SUFFICES ASSUME NEW t \in done PROVE [target |-> t, outcome |-> outcome] \in Rows
  OBVIOUS
<1> QED
  BY DEF Rows, AllOutcomes

LEMMA ReportFacts ==
    ASSUME run \in Runs, NEW done \in SUBSET run.todo, NEW outcome \in AllOutcomes,
           Report(done, outcome)
    PROVE  /\ run' \in Runs /\ Advanced(run, run', done, outcome)
           /\ run'.wrote = run.wrote /\ run'.lost = run.lost
<1>1. done \in SUBSET Targets /\ 0 \in 0..MaxRetries
  BY BoundAssumption DEF Runs
<1> DEFINE new == {[target |-> t, outcome |-> outcome] : t \in done}
<1>2. new \subseteq Rows
  BY <1>1, RowTyped
<1>3. run' = [run EXCEPT !.step = Rest(done), !.todo = @ \ done, !.attempt = 0, !.rows = @ \cup new]
  BY DEF Report
<1>4. Rest(done) \in Steps
  BY DEF Rest, Steps
<1> HIDE DEF new
<1>5. run' \in Runs
  BY <1>1, <1>2, <1>3, <1>4 DEF Runs
<1>6. /\ run'.mode = run.mode /\ run'.plan = run.plan /\ run'.found = run.found
      /\ run'.moved = run.moved /\ run'.step = Rest(done) /\ run'.todo = run.todo \ done
      /\ run'.rows = run.rows \cup new /\ run'.wrote = run.wrote /\ run'.lost = run.lost
  BY <1>3 DEF Runs
<1> QED
  BY <1>5, <1>6 DEF Advanced, Rest, new

\* The pass has no more targets to do, and no fewer done.
LEMMA CountedKept ==
    ASSUME NEW r \in Runs, NEW r2 \in Runs, Counted(r), r2.wrote = r.wrote, r2.lost = r.lost,
           r2.plan = r.plan, r2.todo \subseteq r.todo
    PROVE  Counted(r2)
<1> SUFFICES ASSUME NEW d \in Digests
             PROVE  r2.wrote[d] <= r2.lost + (IF d \in Subjects(r2.plan \ r2.todo) THEN 1 ELSE 0)
  BY DEF Counted
<1>1. r.wrote[d] <= r.lost + (IF d \in Subjects(r.plan \ r.todo) THEN 1 ELSE 0)
  BY DEF Counted
<1>2. d \in Subjects(r.plan \ r.todo) => d \in Subjects(r2.plan \ r2.todo)
  BY DEF Subjects
<1>3. r.wrote[d] \in Nat /\ r.lost \in Nat
  BY DEF Runs
<1> QED
  BY <1>1, <1>2, <1>3

LEMMA ReportKeeps ==
    ASSUME Inv, run.step \in {"sign", "child"}, UNCHANGED tags, SpentOK',
           signatures' \in [Digests -> [Candidates -> Nat]], Kept,
           NEW done \in SUBSET run.todo, NEW outcome \in AllOutcomes, Report(done, outcome),
           \A t \in done : RowOK(run, outcome, signatures'[t.subject])
    PROVE  Inv'
<1>1. run \in Runs /\ TagsOK' /\ PassOK(run, signatures)
  BY DEF Inv, TypesOK, TagsOK, SpentOK, PassInv
<1>2. /\ run' \in Runs /\ Advanced(run, run', done, outcome)
      /\ run'.wrote = run.wrote /\ run'.lost = run.lost
  BY <1>1, ReportFacts
<1>3. TypesOK'
  BY <1>1, <1>2 DEF TypesOK
<1>4. ~run.moved => Counted(run')
  <2>1. run'.plan = run.plan /\ run'.todo \subseteq run.todo
    BY <1>2 DEF Advanced
  <2> QED
    BY <1>1, <1>2, <2>1, CountedKept DEF PassOK
<1> QED
  BY <1>2, <1>3, <1>4, AdvancedKeeps DEF Inv

-----------------------------------------------------------------------------
(* The actions.                                                               *)

LEMMA MatchesCounts ==
    ASSUME NEW c, Matches(c)
    PROVE  CountsFor(run.mode, c)
  BY DEF Matches, CountsFor

LEMMA MoveTagKeeps ==
    ASSUME Inv, MoveTag
    PROVE  Inv'
<1>1. PICK t \in Tags \ Reserved, d \in Digests : tags' = [tags EXCEPT ![t] = d]
  BY DEF MoveTag
<1>2. run \in Runs /\ TagsOK /\ signatures \in [Digests -> [Candidates -> Nat]] /\ SpentOK
  BY DEF Inv, TypesOK
<1>3. run' = [run EXCEPT !.moved = (run.step # "idle")] /\ UNCHANGED signatures
  BY DEF MoveTag
<1>4. run' \in Runs
  BY <1>2, <1>3 DEF Runs
<1>5. TypesOK'
  <2>1. SpentOK'
    BY <1>2, SpendTyped, BoundNames DEF MoveTag
  <2>2. TagsOK'
    BY <1>1, <1>2 DEF TagsOK
  <2> QED
    BY <1>2, <1>3, <1>4, <2>1, <2>2 DEF TypesOK
<1>6. CASE run.step = "idle"
  <2>1. run = NoRun
    BY <1>6 DEF Inv, PassInv
  <2>2. run' = NoRun
    BY <1>3, <2>1 DEF NoRun
  <2> QED
    BY <1>5, <2>2, NoRunKeeps
<1>7. CASE run.step # "idle"
  <2>1. /\ run'.moved /\ run'.step = run.step /\ run'.mode = run.mode /\ run'.plan = run.plan
        /\ run'.found = run.found /\ run'.todo = run.todo /\ run'.rows = run.rows
    BY <1>2, <1>3, <1>7 DEF Runs
  <2>2. Kept
    BY <1>2, <1>3, SameKept
  <2>3. \A u \in run.plan : tags'[u.tag] # 0
    <3>1. \A u \in run.plan : u.tag \in Tags /\ tags[u.tag] # 0
      BY <1>2, <1>7 DEF Runs, Targets, Inv, PassInv
    <3>2. d # 0
      BY DigestAssumption
    <3> QED
      BY <1>1, <1>2, <3>1, <3>2 DEF TagsOK
  <2> QED
    BY <1>5, <1>7, <2>1, <2>2, <2>3, StayingKeeps DEF Inv
<1> QED
  BY <1>6, <1>7

LEMMA SignElsewhereKeeps ==
    ASSUME Inv, SignElsewhere
    PROVE  Inv'
<1>1. PICK d \in Served, c \in Candidates \ {Me} : signatures' = [signatures EXCEPT ![d][c] = @ + 1]
  BY DEF SignElsewhere
<1>2. run \in Runs /\ TagsOK /\ signatures \in [Digests -> [Candidates -> Nat]] /\ SpentOK
  BY DEF Inv, TypesOK
<1>3. UNCHANGED <<tags, run>>
  BY DEF SignElsewhere
<1>4. signatures' \in [Digests -> [Candidates -> Nat]] /\ Kept
  BY <1>1, <1>2, SignTyped DEF Served
<1>5. TypesOK'
  <2>1. SpentOK'
    BY <1>2, SpendTyped, BoundNames DEF SignElsewhere
  <2> QED
    BY <1>2, <1>3, <1>4, <2>1 DEF TypesOK, TagsOK
<1>6. CASE run.step = "idle"
  BY <1>3, <1>5, <1>6 DEF Inv, PassInv
<1>7. CASE run.step # "idle"
  <2>1. run.moved \in BOOLEAN
    BY <1>2 DEF Runs
  <2>2. \A t \in run.plan : tags'[t.tag] # 0
    BY <1>3, <1>7 DEF Inv, PassInv
  <2>3. ~run'.moved => Counted(run')
    BY <1>3, <1>7 DEF Inv, PassInv, PassOK
  <2> QED
    BY <1>3, <1>4, <1>5, <1>7, <2>1, <2>2, <2>3, StayingKeeps DEF Inv
<1> QED
  BY <1>6, <1>7

LEMMA BeginKeeps ==
    ASSUME Inv, NEW mode \in Modes, Begin(mode), SpentOK'
    PROVE  Inv'
<1>1. TagsOK /\ signatures \in [Digests -> [Candidates -> Nat]] /\ UNCHANGED <<tags, signatures>>
  BY DEF Inv, TypesOK, Begin
<1> DEFINE first == IF Plan = {} THEN "report" ELSE "sign"
<1>2. run' = [NoRun EXCEPT !.step = first, !.mode = mode, !.plan = Plan, !.todo = Plan,
                           !.found = Published]
  BY DEF Begin
<1>3. Plan \in SUBSET Targets /\ Published \in SUBSET Digests /\ first \in Steps
  BY <1>1, PlanTyped DEF Steps
<1>4. run' \in Runs
  <2> HIDE DEF first
  <2> QED
    BY <1>2, <1>3, NoRunTyped DEF Runs
<1>5. /\ run'.step = first /\ run'.plan = Plan /\ run'.todo = Plan /\ run'.found = Published
      /\ run'.rows = {} /\ run'.wrote = [d \in Digests |-> 0] /\ run'.lost = 0
  BY <1>2 DEF NoRun
<1> HIDE DEF first
<1>6. TypesOK'
  BY <1>1, <1>4 DEF TypesOK, TagsOK
<1>7. Planned(run')
  <2>1. \A t, u \in Plan : t.subject = u.subject => t = u
    BY <1>1, PlanDistinct
  <2>2. \A t, u \in Plan : t.tag = u.tag /\ t.platform = u.platform => t = u
    BY <1>1, PlanKeyed
  <2>3. Subjects(Plan) = Seen(Published)
    BY <1>1, PlanCovers
  <2>4. {x.target : x \in run'.rows} = run'.plan \ run'.todo
    BY <1>5
  <2>5. run'.step = "report" <=> run'.todo = {}
    BY <1>5 DEF first
  <2> QED
    BY <1>5, <2>1, <2>2, <2>3, <2>4, <2>5 DEF Planned
<1>8. Counted(run')
  <2> SUFFICES ASSUME NEW d \in Digests
               PROVE  run'.wrote[d] <= run'.lost + (IF d \in Subjects(run'.plan \ run'.todo) THEN 1 ELSE 0)
    BY DEF Counted
  <2>1. run'.wrote[d] = 0 /\ run'.lost = 0
    BY <1>5
  <2> QED
    BY <2>1
<1>9. PassOK(run', signatures')
  BY <1>5, <1>7, <1>8 DEF PassOK
<1>10. \A t \in run'.plan : tags'[t.tag] # 0 /\ Reaches(t)' = {t.subject}
  <2> SUFFICES ASSUME NEW t \in Plan PROVE tags[t.tag] # 0 /\ Reaches(t) = {t.subject}
    BY <1>1, <1>5 DEF Reaches
  <2>1. \A d \in Published : tags[Representative(d)] # 0
    BY <1>1, PublishedFacts, DigestAssumption
  <2>2. tags[t.tag] # 0
    BY <2>1, PlanOf DEF OfIndex, OfPlatform
  <2> QED
    BY <1>1, <2>2, PlanReaches
<1>11. run'.step # "idle"
  BY <1>5 DEF first
<1> QED
  BY <1>6, <1>9, <1>10, <1>11 DEF Inv, PassInv

LEMMA StartKeeps ==
    ASSUME Inv, StartScheduled \/ StartByHand
    PROVE  Inv'
<1>1. SpentOK
  BY DEF Inv, TypesOK
<1>2. CASE StartScheduled
  <2>1. SpentOK'
    BY <1>1, <1>2 DEF StartScheduled, SpentOK
  <2> QED
    BY <1>2, <2>1, BeginKeeps, ModeAssumption DEF StartScheduled
<1>3. CASE StartByHand
  <2>1. SpentOK'
    BY <1>1, <1>3, SpendTyped, BoundNames DEF StartByHand
  <2> QED
    BY <1>3, <2>1, BeginKeeps DEF StartByHand
<1> QED
  BY <1>2, <1>3

\* A row for the target the pass stands at, without a signature attached.
LEMMA RowKeeps ==
    ASSUME Inv, run.step \in {"sign", "child"}, UNCHANGED <<tags, signatures>>, SpentOK',
           NEW outcome \in AllOutcomes, Report({Target}, outcome),
           outcome # "succeeded",
           outcome = "already_signed" => ~run.mode.force /\ MayFind(Target.subject)
    PROVE  Inv'
<1>1. Target \in run.todo
  BY TargetFacts
<1>2. signatures \in [Digests -> [Candidates -> Nat]] /\ signatures' = signatures
  BY DEF Inv, TypesOK
<1>3. Kept
  BY <1>2, SameKept
<1>4. RowOK(run, outcome, signatures'[Target.subject])
  BY <1>2, MatchesCounts DEF RowOK, Respected, MayFind
<1>5. {Target} \in SUBSET run.todo
  BY <1>1
<1> QED
  BY <1>2, <1>3, <1>4, <1>5, ReportKeeps

LEMMA SkipsKeep ==
    ASSUME Inv, SkipSigned \/ SkipDry \/ FailListing \/ ChildFindsNothing
    PROVE  Inv'
<1>1. SpentOK
  BY DEF Inv, TypesOK
<1>2. CASE SkipSigned
  <2>1. SpentOK'
    BY <1>1, <1>2 DEF SkipSigned, SpentOK
  <2> QED
    BY <1>2, <2>1, RowKeeps DEF SkipSigned, Signing, AllOutcomes
<1>3. CASE SkipDry
  <2>1. SpentOK'
    BY <1>1, <1>3 DEF SkipDry, SpentOK
  <2> QED
    BY <1>3, <2>1, RowKeeps DEF SkipDry, Unsigned, Signing, AllOutcomes
<1>4. CASE FailListing
  <2>1. SpentOK'
    BY <1>1, <1>4, SpendTyped, BoundNames DEF FailListing
  <2> QED
    BY <1>4, <2>1, RowKeeps DEF FailListing, Signing, AllOutcomes, Failures
<1>5. CASE ChildFindsNothing
  <2>1. SpentOK'
    BY <1>1, <1>5 DEF ChildFindsNothing, SpentOK
  <2> QED
    BY <1>5, <2>1, RowKeeps DEF ChildFindsNothing, AllOutcomes, Failures
<1> QED
  BY <1>2, <1>3, <1>4, <1>5

LEMMA StartChildKeeps ==
    ASSUME Inv, StartChild
    PROVE  Inv'
<1>1. run \in Runs /\ TagsOK /\ signatures \in [Digests -> [Candidates -> Nat]] /\ SpentOK
  BY DEF Inv, TypesOK
<1>2. /\ run.step = "sign" /\ run' = [run EXCEPT !.step = "child"]
      /\ UNCHANGED <<tags, signatures, spent>>
  BY DEF StartChild, Unsigned, Signing
<1>3. run' \in Runs
  BY <1>1, <1>2 DEF Runs, Steps
<1>4. TypesOK'
  BY <1>1, <1>2, <1>3 DEF TypesOK, TagsOK, SpentOK
<1>5. /\ run'.step = "child" /\ run'.mode = run.mode /\ run'.plan = run.plan
      /\ run'.found = run.found /\ run'.todo = run.todo /\ run'.rows = run.rows
      /\ run'.moved = run.moved /\ run'.wrote = run.wrote /\ run'.lost = run.lost
  BY <1>1, <1>2 DEF Runs
<1>6. ~run'.moved => Counted(run')
  <2>1. ~run.moved => Counted(run)
    BY <1>2 DEF Inv, PassInv, PassOK
  <2> QED
    BY <1>1, <1>3, <1>5, <2>1, CountedKept
<1>7. Kept /\ \A t \in run.plan : tags'[t.tag] # 0
  BY <1>1, <1>2, SameKept DEF Inv, PassInv
<1> QED
  BY <1>2, <1>4, <1>5, <1>6, <1>7, StayingKeeps DEF Inv

\* The subject the pass stands at is not one it is done with.
LEMMA TargetOpen ==
    ASSUME Inv, run.step \in {"sign", "child"}
    PROVE  /\ Target.subject \notin Subjects(run.plan \ run.todo)
           /\ Target.subject \in Subjects(run.plan \ (run.todo \ {Target}))
<1>1. Planned(run) /\ Target \in run.todo /\ Target \in run.plan
  BY TargetFacts DEF Inv, PassInv, PassOK
<1>2. \A t \in run.plan : t.subject = Target.subject => t = Target
  BY <1>1 DEF Planned
<1> QED
  BY <1>1, <1>2 DEF Subjects

\* A signature attached by the pass to the subject it stands at is the row's, or one of an
\* attempt that was lost.
LEMMA WroteCounted ==
    ASSUME Inv, run.step \in {"sign", "child"}, ~run.moved, NEW r2 \in Runs,
           NEW d \in Digests, d = Target.subject, r2.wrote = Wrote(d), r2.plan = run.plan,
           \/ r2.lost = run.lost /\ r2.todo = run.todo \ {Target}
           \/ r2.lost = run.lost + 1 /\ r2.todo \subseteq run.todo
    PROVE  Counted(r2)
<1>1. run \in Runs /\ Counted(run)
  BY DEF Inv, TypesOK, PassInv, PassOK
<1> SUFFICES ASSUME NEW e \in Digests
             PROVE  r2.wrote[e] <= r2.lost + (IF e \in Subjects(r2.plan \ r2.todo) THEN 1 ELSE 0)
  BY DEF Counted
<1>2. /\ run.wrote[e] \in Nat /\ run.lost \in Nat
      /\ run.wrote[e] <= run.lost + (IF e \in Subjects(run.plan \ run.todo) THEN 1 ELSE 0)
  BY <1>1 DEF Counted, Runs
<1>3. r2.wrote[e] = IF e = d THEN run.wrote[e] + 1 ELSE run.wrote[e]
  BY <1>1 DEF Wrote, Runs
<1>4. e \in Subjects(run.plan \ run.todo) => e \in Subjects(r2.plan \ r2.todo)
  BY DEF Subjects
<1>5. CASE e # d
  BY <1>2, <1>3, <1>4, <1>5
<1>6. CASE e = d
  <2>1. e \notin Subjects(run.plan \ run.todo)
    BY <1>6, TargetOpen
  <2>2. run.wrote[e] <= run.lost
    BY <1>2, <2>1
  <2>3. CASE r2.lost = run.lost /\ r2.todo = run.todo \ {Target}
    <3>1. e \in Subjects(r2.plan \ r2.todo)
      BY <1>6, <2>3, TargetOpen
    <3> QED
      BY <1>2, <1>3, <1>6, <2>2, <2>3, <3>1
  <2>4. CASE r2.lost = run.lost + 1 /\ r2.todo \subseteq run.todo
    BY <1>2, <1>3, <1>6, <2>2, <2>4
  <2> QED
    BY <2>3, <2>4
<1> QED
  BY <1>5, <1>6

\* The target the pass stands at is reported with a signature attached.
LEMMA SignedRowKeeps ==
    ASSUME Inv, run.step \in {"sign", "child"}, UNCHANGED tags, TypesOK',
           NEW d \in Resolved, signatures' = Attached(d),
           NEW outcome, outcome \in {"succeeded", "temp_fail"},
           Advanced(run, run', {Target}, outcome), run'.wrote = Wrote(d),
           run'.lost = run.lost \/ run'.lost = run.lost + 1
    PROVE  Inv'
<1>1. d \in Digests /\ (~run.moved => d = Target.subject)
  BY ResolvedTyped
<1>2. Kept /\ signatures'[d][Me] > 0
  BY <1>1, AttachedTyped
<1>3. Target \in run.todo
  BY TargetFacts
<1>4. RowOK(run, outcome, signatures'[Target.subject])
  BY <1>1, <1>2 DEF RowOK
<1>5. ~run.moved => Counted(run')
  <2>1. run' \in Runs
    BY DEF TypesOK
  <2>2. run'.plan = run.plan /\ run'.todo = run.todo \ {Target}
    BY DEF Advanced
  <2> QED
    BY <1>1, <2>1, <2>2, WroteCounted
<1>6. {Target} \in SUBSET run.todo
  BY <1>3
<1> QED
  BY <1>2, <1>4, <1>5, <1>6, AdvancedKeeps DEF Inv

LEMMA ChildSignsKeeps ==
    ASSUME Inv, ChildSigns
    PROVE  Inv'
<1>1. run \in Runs /\ TagsOK /\ SpentOK /\ run.step = "child" /\ UNCHANGED <<tags, spent>>
  BY DEF Inv, TypesOK, ChildSigns
<1> DEFINE new == {[target |-> Target, outcome |-> "succeeded"]}
<1>2. PICK d \in Resolved :
        /\ signatures' = Attached(d)
        /\ run' = [run EXCEPT !.step = Rest({Target}), !.todo = @ \ {Target}, !.attempt = 0,
                              !.rows = @ \cup new, !.wrote = Wrote(d)]
  BY DEF ChildSigns
<1>3. d \in Digests
  BY <1>1, ResolvedTyped
<1>4. Target \in Targets
  BY <1>1, TargetFacts
<1>5. new \subseteq Rows
  BY <1>4 DEF Rows
<1>6. Wrote(d) \in [Digests -> Nat]
  BY <1>1, <1>3 DEF Wrote, Runs
<1>7. Rest({Target}) \in Steps /\ 0 \in 0..MaxRetries
  BY BoundAssumption DEF Rest, Steps
<1> HIDE DEF new
<1>8. run' \in Runs
  BY <1>1, <1>2, <1>5, <1>6, <1>7 DEF Runs
<1>9. /\ run'.mode = run.mode /\ run'.plan = run.plan /\ run'.found = run.found
      /\ run'.moved = run.moved /\ run'.step = Rest({Target}) /\ run'.todo = run.todo \ {Target}
      /\ run'.rows = run.rows \cup new /\ run'.wrote = Wrote(d) /\ run'.lost = run.lost
  BY <1>1, <1>2 DEF Runs
<1>10. Advanced(run, run', {Target}, "succeeded")
  <2>1. new = {[target |-> t, outcome |-> "succeeded"] : t \in {Target}}
    BY DEF new
  <2> QED
    BY <1>9, <2>1 DEF Advanced, Rest
<1>11. signatures' \in [Digests -> [Candidates -> Nat]]
  BY <1>2, <1>3, AttachedTyped
<1>12. TypesOK'
  BY <1>1, <1>8, <1>11 DEF TypesOK, TagsOK, SpentOK
<1> QED
  BY <1>1, <1>2, <1>9, <1>10, <1>12, SignedRowKeeps

LEMMA ChildFailsKeeps ==
    ASSUME Inv, ChildFails
    PROVE  Inv'
<1>1. /\ run \in Runs /\ TagsOK /\ SpentOK /\ run.step = "child"
      /\ signatures \in [Digests -> [Candidates -> Nat]] /\ UNCHANGED <<tags, signatures>>
  BY DEF Inv, TypesOK, ChildFails
<1>2. SpentOK'
  BY <1>1, SpendTyped, BoundNames DEF ChildFails
<1>3. PICK exit \in Failures :
        IF exit = "temp_fail" /\ run.attempt < MaxRetries
        THEN run' = [run EXCEPT !.attempt = @ + 1]
        ELSE Report({Target}, exit)
  BY DEF ChildFails
<1>4. CASE run.attempt < MaxRetries /\ run' = [run EXCEPT !.attempt = @ + 1]
  <2>1. run.attempt + 1 \in 0..MaxRetries
    BY <1>1, <1>4, BoundAssumption DEF Runs
  <2>2. run' \in Runs
    BY <1>1, <1>4, <2>1 DEF Runs
  <2>3. /\ run'.step = run.step /\ run'.mode = run.mode /\ run'.plan = run.plan
        /\ run'.found = run.found /\ run'.todo = run.todo /\ run'.rows = run.rows
        /\ run'.moved = run.moved /\ run'.wrote = run.wrote /\ run'.lost = run.lost
    BY <1>1, <1>4 DEF Runs
  <2>4. TypesOK'
    BY <1>1, <1>2, <2>2 DEF TypesOK, TagsOK
  <2>5. ~run'.moved => Counted(run')
    <3>1. ~run.moved => Counted(run)
      BY <1>1 DEF Inv, PassInv, PassOK
    <3> QED
      BY <1>1, <2>2, <2>3, <3>1, CountedKept
  <2>6. Kept /\ \A t \in run.plan : tags'[t.tag] # 0
    BY <1>1, SameKept DEF Inv, PassInv
  <2> QED
    BY <1>1, <2>3, <2>4, <2>5, <2>6, StayingKeeps DEF Inv
<1>5. CASE Report({Target}, exit)
  <2>1. exit \in AllOutcomes /\ exit # "succeeded" /\ exit # "already_signed"
    BY DEF AllOutcomes, Failures
  <2> QED
    BY <1>1, <1>2, <1>5, <2>1, RowKeeps
<1> QED
  BY <1>3, <1>4, <1>5

LEMMA ChildTimesOutKeeps ==
    ASSUME Inv, ChildTimesOut
    PROVE  Inv'
<1>1. run \in Runs /\ TagsOK /\ SpentOK /\ run.step = "child" /\ UNCHANGED tags
  BY DEF Inv, TypesOK, ChildTimesOut
<1>2. SpentOK'
  BY <1>1, SpendTyped, BoundNames DEF ChildTimesOut
<1> DEFINE again == run.attempt < MaxRetries
           new == {[target |-> Target, outcome |-> "temp_fail"]}
           attempt2 == IF again THEN run.attempt + 1 ELSE 0
           step2 == IF again THEN run.step ELSE Rest({Target})
           todo2 == IF again THEN run.todo ELSE run.todo \ {Target}
           rows2 == IF again THEN run.rows ELSE run.rows \cup new
<1>3. PICK d \in Resolved :
        /\ signatures' = Attached(d)
        /\ run' = [run EXCEPT !.attempt = attempt2, !.lost = @ + 1, !.wrote = Wrote(d),
                              !.step = step2, !.todo = todo2, !.rows = rows2]
  BY DEF ChildTimesOut
<1>4. d \in Digests /\ (~run.moved => d = Target.subject)
  BY <1>1, ResolvedTyped
<1>5. Target \in Targets
  BY <1>1, TargetFacts
<1>6. new \subseteq Rows
  BY <1>5 DEF Rows, Failures
<1>7. Wrote(d) \in [Digests -> Nat]
  BY <1>1, <1>4 DEF Wrote, Runs
<1>8. step2 \in Steps
  BY <1>1 DEF Rest, Steps
<1>9. attempt2 \in 0..MaxRetries
  BY <1>1, BoundAssumption DEF Runs
<1>10. todo2 \subseteq run.todo /\ todo2 \in SUBSET Targets
  BY <1>1 DEF Runs
<1> HIDE DEF new
<1>11. rows2 \in SUBSET Rows
  BY <1>1, <1>6 DEF Runs
<1>12. run.lost + 1 \in Nat
  BY <1>1 DEF Runs
<1> HIDE DEF attempt2, step2, todo2, rows2
<1>13. run' \in Runs
  BY <1>1, <1>3, <1>7, <1>8, <1>9, <1>10, <1>11, <1>12 DEF Runs
<1>14. /\ run'.mode = run.mode /\ run'.plan = run.plan /\ run'.found = run.found
       /\ run'.moved = run.moved /\ run'.step = step2 /\ run'.todo = todo2
       /\ run'.rows = rows2 /\ run'.wrote = Wrote(d) /\ run'.lost = run.lost + 1
  BY <1>1, <1>3 DEF Runs
<1>15. signatures' \in [Digests -> [Candidates -> Nat]] /\ Kept
  BY <1>3, <1>4, AttachedTyped
<1>16. TypesOK'
  BY <1>1, <1>2, <1>13, <1>15 DEF TypesOK, TagsOK
<1>17. CASE again
  <2>1. step2 = run.step /\ todo2 = run.todo /\ rows2 = run.rows
    BY <1>17 DEF step2, todo2, rows2
  <2>2. ~run'.moved => Counted(run')
    BY <1>1, <1>4, <1>10, <1>13, <1>14, WroteCounted
  <2>3. \A t \in run.plan : tags'[t.tag] # 0
    BY <1>1 DEF Inv, PassInv
  <2> QED
    BY <1>1, <1>14, <1>15, <1>16, <2>1, <2>2, <2>3, StayingKeeps DEF Inv
<1>18. CASE ~again
  <2>1. Advanced(run, run', {Target}, "temp_fail")
    <3>1. new = {[target |-> t, outcome |-> "temp_fail"] : t \in {Target}}
      BY DEF new
    <3> QED
      BY <1>14, <1>18, <3>1 DEF Advanced, Rest, step2, todo2, rows2
  <2> QED
    BY <1>1, <1>3, <1>14, <1>16, <2>1, SignedRowKeeps
<1> QED
  BY <1>17, <1>18

LEMMA InterruptKeeps ==
    ASSUME Inv, Interrupt
    PROVE  Inv'
<1>1. run \in Runs /\ SpentOK /\ run.step \in {"sign", "child"} /\ UNCHANGED tags /\ InFlight
  BY DEF Inv, TypesOK, Interrupt
<1>2. SpentOK'
  BY <1>1, SpendTyped, BoundNames DEF Interrupt
<1>3. signatures' \in [Digests -> [Candidates -> Nat]] /\ Kept
  BY <1>1, InFlightTyped
<1>4. Report(run.todo, "cancelled")
  <2>1. run' = [run EXCEPT !.step = "report", !.todo = {}, !.attempt = 0,
                           !.rows = @ \cup {[target |-> t, outcome |-> "cancelled"] : t \in run.todo}]
    BY DEF Interrupt, Unattempted
  <2>2. Rest(run.todo) = "report" /\ run.todo \ run.todo = {}
    BY DEF Rest
  <2> QED
    BY <2>1, <2>2 DEF Report
<1>5. \A t \in run.todo : RowOK(run, "cancelled", signatures'[t.subject])
  BY DEF RowOK
<1>6. run.todo \in SUBSET run.todo /\ "cancelled" \in AllOutcomes
  BY DEF AllOutcomes
<1> QED
  BY <1>1, <1>2, <1>3, <1>4, <1>5, <1>6, ReportKeeps

LEMMA EndsKeep ==
    ASSUME Inv, Kill \/ Finish
    PROVE  Inv'
<1>1. TagsOK /\ SpentOK /\ run' = NoRun /\ UNCHANGED tags
      /\ signatures \in [Digests -> [Candidates -> Nat]]
  BY DEF Inv, TypesOK, Kill, Finish
<1>2. SpentOK'
  <2>1. CASE Kill
    BY <1>1, <2>1, SpendTyped, BoundNames DEF Kill
  <2>2. CASE Finish
    BY <1>1, <2>2 DEF Finish, SpentOK
  <2> QED
    BY <2>1, <2>2
<1>3. signatures' \in [Digests -> [Candidates -> Nat]]
  BY <1>1, InFlightTyped DEF Kill, Finish
<1>4. TypesOK'
  BY <1>1, <1>2, <1>3, NoRunTyped DEF TypesOK, TagsOK
<1> QED
  BY <1>1, <1>4, NoRunKeeps

-----------------------------------------------------------------------------
(* The theorems.                                                              *)

LEMMA InitInv == Init => Inv
<1> SUFFICES ASSUME Init PROVE Inv
  OBVIOUS
<1>1. run = NoRun /\ run.step = "idle"
  BY DEF Init, NoRun
<1>2. SpentOK
  <2>1. \A b \in DOMAIN Bounds : Bounds[b] \in Nat
    BY BoundAssumption DEF Bounds
  <2> QED
    BY <2>1 DEF Init, SpentOK
<1>3. TypesOK
  BY <1>1, <1>2, NoRunTyped DEF Init, TypesOK, TagsOK, SpentOK
<1> QED
  BY <1>1, <1>3 DEF Inv, PassInv

LEMMA NextKeepsInv ==
    ASSUME Inv, [Next]_vars
    PROVE  Inv'
<1>1. CASE UNCHANGED vars
  BY <1>1 DEF vars, Inv, TypesOK, TagsOK, SpentOK, PassInv, PassOK, Planned, Counted, Reaches
<1>2. CASE MoveTag
  BY <1>2, MoveTagKeeps
<1>3. CASE SignElsewhere
  BY <1>3, SignElsewhereKeeps
<1>4. CASE StartScheduled \/ StartByHand
  BY <1>4, StartKeeps
<1>5. CASE SkipSigned \/ SkipDry \/ FailListing \/ ChildFindsNothing
  BY <1>5, SkipsKeep
<1>6. CASE StartChild
  BY <1>6, StartChildKeeps
<1>7. CASE ChildSigns
  BY <1>7, ChildSignsKeeps
<1>8. CASE ChildFails
  BY <1>8, ChildFailsKeeps
<1>9. CASE ChildTimesOut
  BY <1>9, ChildTimesOutKeeps
<1>10. CASE Interrupt
  BY <1>10, InterruptKeeps
<1>11. CASE Kill \/ Finish
  BY <1>11, EndsKeep
<1> QED
  BY <1>1, <1>2, <1>3, <1>4, <1>5, <1>6, <1>7, <1>8, <1>9, <1>10, <1>11 DEF Next, Pass

LEMMA PassesKeep == Spec => []Inv
  BY InitInv, NextKeepsInv, PTL DEF Spec

LEMMA InvTyped ==
    ASSUME Inv
    PROVE  TypeOK
<1>1. run \in Runs /\ TagsOK /\ signatures \in [Digests -> [Candidates -> Nat]] /\ SpentOK
  BY DEF Inv, TypesOK
<1>2. run.step # "idle" => run.plan \ run.todo = Targeted /\ run.todo \subseteq run.plan
  BY DEF Inv, PassInv, PassOK, Planned, Targeted
<1>3. /\ run.step \in {"idle", "sign", "child", "report"} /\ run.mode \in Modes
      /\ run.plan \subseteq Targets /\ run.rows \subseteq Rows
      /\ run.attempt \in 0..MaxRetries /\ run.wrote \in [Digests -> Nat] /\ run.lost \in Nat
      /\ run.moved \in BOOLEAN /\ run.found \subseteq Digests
  BY <1>1 DEF Runs, Steps
<1> QED
  BY <1>1, <1>2, <1>3 DEF TypeOK, TagsOK, SpentOK

\* The registry, the pass under way and the bounds stay within their types: a pass is at a
\* target it planned, and has reported on those it is done with.
THEOREM TypeCorrect == Spec => []TypeOK
  BY PassesKeep, InvTyped, PTL

LEMMA InvRows ==
    ASSUME Inv
    PROVE  EverySubjectHasItsRow
<1> SUFFICES ASSUME run.step = "report"
             PROVE  /\ Subjects(Targeted) = Seen(run.found)
                    /\ \A r, s \in run.rows : r.target.subject = s.target.subject => r = s
  BY DEF EverySubjectHasItsRow
<1>1. Planned(run)
  BY DEF Inv, PassInv, PassOK
<1>2. Targeted = run.plan
  BY <1>1 DEF Planned, Targeted
<1>3. \A r \in run.rows : r.target \in run.plan
  BY <1>2 DEF Targeted
<1> QED
  BY <1>1, <1>2, <1>3 DEF Planned

\* Whatever tags and indexes lead to a manifest, and however the pass ended, the report has
\* a row for each manifest the tags served when it began, and one row.
THEOREM EverySubjectOnce == Spec => []EverySubjectHasItsRow
  BY PassesKeep, InvRows, PTL

\* The exit of a pass with a failed row is that of a failure.
LEMMA FailuresExit ==
    ASSUME Outcomes \cap Failures # {}
    PROVE  worst_exit # "success"
<1> DEFINE failed == Outcomes \cap Failures
<1>1. /\ severity_rank["temp_fail"] = 0 /\ severity_rank["unavailable"] = 4
      /\ severity_rank["data_error"] = 5
  BY DEF severity_rank, Failures
<1>2. failed \subseteq {"temp_fail", "unavailable", "data_error"} /\ failed # {}
  BY DEF Failures
<1> HIDE DEF failed
<1>3. \E f \in failed : \A g \in failed : severity_rank[f] <= severity_rank[g]
  <2>1. CASE "temp_fail" \in failed
    BY <1>1, <1>2, <2>1
  <2>2. CASE "temp_fail" \notin failed /\ "unavailable" \in failed
    BY <1>1, <1>2, <2>2
  <2>3. CASE "temp_fail" \notin failed /\ "unavailable" \notin failed
    <3>1. failed = {"data_error"}
      BY <1>2, <2>3
    <3>2. severity_rank["data_error"] <= severity_rank["data_error"]
      BY <1>1
    <3> QED
      BY <3>1, <3>2
  <2> QED
    BY <2>1, <2>2, <2>3
<1>4. (CHOOSE f \in failed : \A g \in failed : severity_rank[f] <= severity_rank[g]) \in failed
  BY <1>3
<1>5. worst_exit = CHOOSE f \in failed : \A g \in failed : severity_rank[f] <= severity_rank[g]
  BY <1>2 DEF worst_exit, failed
<1> QED
  BY <1>2, <1>4, <1>5

LEMMA InvSigned ==
    ASSUME Inv
    PROVE  SuccessIsSigned
<1> SUFFICES ASSUME run.step = "report", ~run.moved, worst_exit = "success",
                    Outcomes \cap {"dry_run", "cancelled"} = {},
                    NEW d \in Subjects(run.plan)
             PROVE  \/ signatures[d][Me] > 0
                    \/ ~run.mode.force /\ \E c \in Candidates : Counts(c) /\ signatures[d][c] > 0
  BY DEF SuccessIsSigned
<1>1. PassOK(run, signatures) /\ run \in Runs
  BY DEF Inv, TypesOK, PassInv
<1>2. {x.target : x \in run.rows} = run.plan
  BY <1>1 DEF PassOK, Planned
<1>3. PICK t \in run.plan : t.subject = d
  BY DEF Subjects
<1>4. PICK x \in run.rows : x.target = t
  BY <1>2
<1>5. x.outcome \in AllOutcomes /\ x.outcome \in Outcomes
  BY <1>1 DEF Runs, Rows, AllOutcomes, Outcomes
<1>6. x.outcome \in {"succeeded", "already_signed"}
  BY <1>5, FailuresExit DEF AllOutcomes
<1>7. RowOK(run, x.outcome, signatures[d])
  BY <1>1, <1>3, <1>4 DEF PassOK
<1> QED
  BY <1>6, <1>7 DEF RowOK, Respected, CountsFor, Counts

\* A pass that exits with success leaves each subject under a signature its command line
\* respects, or one of its own: `already_signed` and `succeeded` stand for what the
\* registry still holds, since no signature is ever removed and no tag moved.
THEOREM SuccessSigned == Spec => []SuccessIsSigned
  BY PassesKeep, InvSigned, PTL

LEMMA InvOnce ==
    ASSUME Inv
    PROVE  OneSignatureEach
<1> SUFFICES ASSUME ~run.moved, NEW d \in Digests PROVE run.wrote[d] <= 1 + run.lost
  BY DEF OneSignatureEach
<1>1. run \in Runs /\ run.wrote[d] \in Nat /\ run.lost \in Nat
  BY DEF Inv, TypesOK, Runs
<1>2. CASE run.step = "idle"
  BY <1>1, <1>2 DEF Inv, PassInv, NoRun
<1>3. CASE run.step # "idle"
  <2>1. run.wrote[d] <= run.lost + (IF d \in Subjects(run.plan \ run.todo) THEN 1 ELSE 0)
    BY <1>3 DEF Inv, PassInv, PassOK, Counted
  <2> QED
    BY <1>1, <2>1
<1> QED
  BY <1>2, <1>3

\* One signature for each subject, and one more for each attempt whose outcome was lost.
THEOREM SignedOnce == Spec => []OneSignatureEach
  BY PassesKeep, InvOnce, PTL

=============================================================================
