-------------------------- MODULE PublicationProofs --------------------------
(* Theorems about Publication, for every value of its constants: any releases, *)
(* platforms and windows, and any number of retries, edits, red runs, failures *)
(* and kills, beside any number of patches.                                    *)
EXTENDS Publication, FiniteSetTheorems, WellFoundedInduction, TLAPS

-----------------------------------------------------------------------------
(* Minima and maxima of sets of naturals.                                    *)

\* A family of finite sets has a member of which no other is a strict subset.
LEMMA MinimalSet ==
  ASSUME NEW T, T # {}, \A X \in T : IsFiniteSet(X)
  PROVE  \E X \in T : \A Y \in T : Y \subseteq X => Y = X
<1>1. T \subseteq FiniteSubsetsOf(UNION T)
  BY DEF FiniteSubsetsOf
<1>2. PICK X \in T : \A Y \in T : ~(<<Y, X>> \in StrictSubsetOrdering(UNION T))
  BY <1>1, FS_StrictSubsetOrderingWellFounded, WFMin
<1>3. ASSUME NEW Y \in T, Y \subseteq X, Y # X PROVE FALSE
  <2>1. <<Y, X>> \in (SUBSET UNION T) \X (SUBSET UNION T)
    OBVIOUS
  <2> QED
    BY <1>2, <1>3, <2>1 DEF StrictSubsetOrdering
<1> QED
  BY <1>3

\* Min(S) is a member of S and no greater than the others: of the intervals that end at a
\* member, one has no strict subset among them.
LEMMA SmallestOf ==
  ASSUME NEW S \in SUBSET Nat, S # {}
  PROVE  Min(S) \in S /\ \A x \in S : Min(S) <= x
<1> DEFINE Down(x) == 0..x
           Downs == {Down(x) : x \in S}
<1>1. \A x \in S : IsFiniteSet(Down(x))
  BY FS_Interval
<1>2. \A x, m \in S : x < m => Down(x) \subseteq Down(m) /\ Down(x) # Down(m)
  OBVIOUS
<1> HIDE DEF Down
<1>3. \E X \in Downs : \A Y \in Downs : Y \subseteq X => Y = X
  <2>1. Downs # {} /\ \A X \in Downs : IsFiniteSet(X)
    BY <1>1
  <2> HIDE DEF Downs
  <2> QED
    BY <2>1, MinimalSet
<1>4. PICK m \in S : \A x \in S : m <= x
  BY <1>2, <1>3
<1> QED
  BY <1>4 DEF Min

\* Max(S) is a member of a finite S and no less than the others, in the same way.
LEMMA LargestOf ==
  ASSUME NEW S \in SUBSET Nat, S # {}, IsFiniteSet(S)
  PROVE  Max(S) \in S /\ \A x \in S : x <= Max(S)
<1> DEFINE Up(x) == {y \in S : x <= y}
           Ups == {Up(x) : x \in S}
<1>1. \A x \in S : Up(x) \in SUBSET S
  OBVIOUS
<1>2. ASSUME NEW x \in S, NEW m \in S, m < x PROVE Up(x) \subseteq Up(m) /\ Up(x) # Up(m)
  <2>1. m \in Up(m) /\ m \notin Up(x)
    BY <1>2
  <2>2. \A y \in S : x <= y => m <= y
    BY <1>2
  <2> QED
    BY <2>1, <2>2
<1> HIDE DEF Up
<1>3. \E X \in Ups : \A Y \in Ups : Y \subseteq X => Y = X
  <2>1. \A x \in S : IsFiniteSet(Up(x))
    BY <1>1, FS_Subset
  <2>2. Ups # {} /\ \A X \in Ups : IsFiniteSet(X)
    BY <2>1
  <2> HIDE DEF Ups
  <2> QED
    BY <2>2, MinimalSet
<1>4. PICK m \in S : \A x \in S : x <= m
  BY <1>2, <1>3
<1> QED
  BY <1>4 DEF Max

-----------------------------------------------------------------------------
(* Versions, platforms and the registry's tags.                               *)

LEMMA Numbers ==
  /\ Versions \subseteq Nat /\ latest \notin Versions /\ latest \in Nat
  /\ Platforms \subseteq Nat
  /\ None \notin Images /\ Absent \in Index
  /\ \A t \in Tiles : t = <<t[1], t[2]>> /\ t[1] \in Versions /\ t[2] \in Platforms
<1>1. \A t \in Tiles : t = <<t[1], t[2]>> /\ t[1] \in Nat \ {0} /\ t[2] \in Nat
  BY TileAssumption
<1>2. Versions \subseteq Nat \ {0} /\ Platforms \subseteq Nat
  BY <1>1 DEF Versions, VersionsOf, Platforms
<1>3. \A t \in Tiles : t[1] \in Versions /\ t[2] \in Platforms
  BY DEF Versions, VersionsOf, Platforms
<1>4. None \notin Images
  BY <1>2 DEF None, Images
<1>. QED
  BY <1>1, <1>2, <1>3, <1>4 DEF latest, Absent, Index

LEMMA FiniteVersions == IsFiniteSet(Versions)
<1> DEFINE f == [t \in Tiles |-> t[1]]
<1>1. f \in Surjection(Tiles, Versions)
  BY DEF Surjection, Versions, VersionsOf
<1>. QED
  BY <1>1, FS_Surjection, TileAssumption

LEMMA VersionsOfTiles ==
  ASSUME NEW S \in SUBSET Tiles
  PROVE  VersionsOf(S) \in SUBSET Versions /\ \A t \in S : t[1] \in VersionsOf(S)
  BY DEF VersionsOf, Versions

LEMMA OldestVersion ==
  ASSUME NEW S \in SUBSET Tiles, S # {}
  PROVE  Min(VersionsOf(S)) \in VersionsOf(S) /\ Min(VersionsOf(S)) \in Versions
<1>1. VersionsOf(S) \in SUBSET Nat /\ VersionsOf(S) # {} /\ VersionsOf(S) \subseteq Versions
  BY Numbers, VersionsOfTiles
<1>. QED
  BY <1>1, SmallestOf

LEMMA FirstPlatform ==
  ASSUME NEW S \in SUBSET Platforms, S # {}
  PROVE  Min(S) \in S
  BY Numbers, SmallestOf

\* Every version's tag holds images of that version; an index names known images.
TagsOK(new) ==
    /\ new \in [Tags -> Index]
    /\ \A v \in Versions : \A p \in Platforms : new[v][p][1] \in {0, v}

\* What a push leaves: well-formed tags, and no platform fewer in any version.
LEMMA PushedTags ==
  ASSUME TagsOK(tags), NEW v \in Versions, NEW p \in Platforms, NEW image \in Images,
         image[1] = v, NEW cascade \in BOOLEAN
  PROVE  LET new == Pushed(v, p, image, cascade) IN
         /\ TagsOK(new)
         /\ new[v][p] = image
         /\ \A w \in Versions : \A q \in Platforms : <<w, q>> # <<v, p>> => new[w][q] = tags[w][q]
         /\ \A q \in Platforms : q # p => new[latest][q] = tags[latest][q]
         /\ new[latest][p] = IF cascade /\ ~Blocked(v, p) THEN image ELSE tags[latest][p]
<1> DEFINE new == Pushed(v, p, image, cascade)
           mid == [tags EXCEPT ![v] = [tags[v] EXCEPT ![p] = image]]
           top == IF cascade /\ ~Blocked(v, p) THEN image ELSE tags[latest][p]
<1>1. v \in Tags /\ latest \in Tags /\ latest # v
  BY Numbers DEF Tags
<1>2. mid \in [Tags -> Index] /\ mid[v] = [tags[v] EXCEPT ![p] = image] /\ mid[latest] = tags[latest]
  BY <1>1 DEF TagsOK, Index
<1>3. top \in Images \cup {None}
  BY <1>1 DEF TagsOK, Index
<1>4. new = [mid EXCEPT ![latest] = [tags[latest] EXCEPT ![p] = top]]
  BY <1>1, <1>2 DEF Pushed
<1>5. /\ new \in [Tags -> Index]
      /\ new[latest] = [tags[latest] EXCEPT ![p] = top]
      /\ new[v] = [tags[v] EXCEPT ![p] = image]
      /\ \A w \in Versions : w # v => new[w] = tags[w]
  <2>1. [tags[latest] EXCEPT ![p] = top] \in Index
    BY <1>1, <1>3 DEF TagsOK, Index
  <2>2. mid \in [Tags -> Index] /\ \A w \in Versions : w # v => mid[w] = tags[w]
    BY <1>1, <1>2 DEF TagsOK, Tags
  <2>3. \A w \in Versions : w # latest /\ w \in Tags
    BY Numbers DEF Tags
  <2>. HIDE DEF new, mid, top
  <2>. QED
    BY <1>1, <1>2, <1>4, <2>1, <2>2, <2>3
<1>. HIDE DEF mid, top
<1>6. /\ new[v][p] = image
      /\ \A w \in Versions : \A q \in Platforms : <<w, q>> # <<v, p>> => new[w][q] = tags[w][q]
      /\ \A q \in Platforms : q # p => new[latest][q] = tags[latest][q]
      /\ new[latest][p] = top
  <2>1. /\ \A w \in Versions : tags[w] \in [Platforms -> Images \cup {None}]
        /\ tags[latest] \in [Platforms -> Images \cup {None}]
    BY <1>1 DEF TagsOK, Index, Tags
  <2>. HIDE DEF new
  <2>. QED
    BY <1>5, <2>1
<1>. HIDE DEF new
<1>7. \A w \in Versions : \A q \in Platforms : new[w][q][1] \in {0, w}
  BY <1>6 DEF TagsOK
<1>. QED
  BY <1>5, <1>6, <1>7 DEF TagsOK, new, top

\* The cascade of images a version has already touches the rolling tag alone.
LEMMA RecascadedTags ==
  ASSUME TagsOK(tags), NEW moved \in SUBSET Platforms, run.version \in Versions,
         moved \subseteq Holds(run.version)
  PROVE  LET new == Recascaded(moved) IN
         /\ TagsOK(new)
         /\ \A w \in Versions : new[w] = tags[w]
         /\ \A q \in Platforms : new[latest][q] = IF q \in moved THEN tags[run.version][q]
                                                 ELSE tags[latest][q]
<1> DEFINE top == [q \in Platforms |-> IF q \in moved THEN tags[run.version][q] ELSE tags[latest][q]]
<1>1. latest \in Tags /\ run.version \in Tags
  BY DEF Tags
<1>2. Recascaded(moved) = [tags EXCEPT ![latest] = top]
  BY <1>1 DEF Recascaded, index_children, Holds
<1>3. top \in Index
  BY <1>1 DEF TagsOK, Index
<1>. HIDE DEF top
<1>4. /\ Recascaded(moved) \in [Tags -> Index] /\ Recascaded(moved)[latest] = top
      /\ \A w \in Versions : Recascaded(moved)[w] = tags[w]
  BY <1>1, <1>2, <1>3, Numbers DEF TagsOK, Tags
<1>. QED
  BY <1>4 DEF TagsOK, top

\* So does the repair, which gives it each platform's newest image.
LEMMA RepairedTags ==
  ASSUME TagsOK(tags)
  PROVE  TagsOK(Repaired) /\ \A w \in Versions : Repaired[w] = tags[w]
<1> DEFINE Holding(p) == {v \in Versions : tags[v][p] # None}
<1>1. latest \in Tags /\ latest \notin Versions
  BY Numbers DEF Tags
<1>2. ASSUME NEW p \in Platforms PROVE Rolling[p] \in Images \cup {None}
  <2>1. CASE Holding(p) = {}
    BY <2>1 DEF Rolling
  <2>2. CASE Holding(p) # {}
    <3>1. Max(Holding(p)) \in Versions
      <4>1. Holding(p) \in SUBSET Versions /\ Holding(p) \in SUBSET Nat
        BY Numbers
      <4>2. IsFiniteSet(Holding(p))
        BY <4>1, FiniteVersions, FS_Subset
      <4>3. Max(Holding(p)) \in Holding(p)
        BY <2>2, <4>1, <4>2, LargestOf
      <4>. QED
        BY <4>1, <4>3
    <3>2. Rolling[p] = tags[Max(Holding(p))][p]
      BY <2>2 DEF Rolling
    <3>. QED
      BY <3>1, <3>2 DEF TagsOK, Index, Tags
  <2>. QED
    BY <2>1, <2>2
<1>3. Rolling \in Index
  BY <1>2 DEF Rolling, Index
<1>. QED
  BY <1>1, <1>3 DEF Repaired, TagsOK, Tags

-----------------------------------------------------------------------------
(* Type correctness, with what the steps of the jobs need of each other.      *)

\* A run works on a version of its plan while it pushes, and on none otherwise.
RunOK ==
    /\ run.step = "push" => run.version \in Versions
    /\ \A p \in run.ready : <<run.version, p>> \in Tiles
    /\ run.step # "push" => run.ready = {} /\ run.failed = {} /\ run.pushed = {} /\ run.wrote = {}

\* A patch works on images its version's tag holds.
PatchOK ==
    patch.step = "image" => patch.version \in Versions /\ patch.images \subseteq Holds(patch.version)

TypeInv == TypeOK /\ RunOK /\ PatchOK

LEMMA InitTypes == Init => TypeInv
<1> SUFFICES ASSUME Init PROVE TypeInv
  OBVIOUS
<1> USE DEF Init
<1>1. tags \in [Tags -> Index] /\ \A v \in Versions : \A p \in Platforms : tags[v][p][1] \in {0, v}
  BY Numbers DEF Tags, Absent, None
<1>2. run \in RunStates /\ summary \in Summaries /\ patch \in PatchStates
  BY BoundAssumption DEF NoRun, NoSummary, NoPatch, RunStates, Summaries, PatchStates, RunSteps,
     PatchSteps, Outcomes, Tags, latest
<1>3. TypeOK
  BY <1>1, <1>2, OfferedAssumption, BoundAssumption, FaultAssumption DEF TypeOK, JobTypes, RunTypes, WorldTypes, RegistryTypes, TagTypes, NoRun
<1>. QED
  BY <1>3 DEF TypeInv, RunOK, PatchOK, NoRun, NoPatch

LEMMA WriteTypes ==
  ASSUME NEW new, TagsOK(new), Write(new)
  PROVE  TagTypes' /\ sealed' \subseteq Tags /\ fresh' \subseteq fresh
  BY DEF Write, TagsOK, TagTypes

\* What a leg's push needs: an image of the run's version, for one of its platforms.
LEMMA LegTypes ==
  ASSUME TypeInv, Pushing
  PROVE  /\ Leg \in run.ready /\ Leg \in Platforms /\ run.version \in Versions
         /\ Built \in Images /\ Built[1] = run.version
         /\ <<run.version, Leg>> \in Tiles
<1>1. run.ready \in SUBSET Platforms /\ run.ready # {} /\ run.revision \in 0..MaxRevision
  BY DEF TypeInv, TypeOK, JobTypes, RunTypes, RunStates, Pushing
<1>2. Leg \in run.ready
  BY <1>1, FirstPlatform DEF Leg
<1>. QED
  BY <1>1, <1>2 DEF TypeInv, RunOK, Pushing, Built, Images

LEMMA TargetTypes ==
  ASSUME TypeInv, patch.step = "image", patch.images # {}
  PROVE  /\ Target \in patch.images /\ Target \in Holds(patch.version) /\ Target \in Platforms
         /\ patch.version \in Versions /\ Reemitted \in Images /\ Reemitted[1] = patch.version
<1>1. patch.images \in SUBSET Platforms /\ patch.revision \in 0..MaxRevision
  BY DEF TypeInv, TypeOK, JobTypes, PatchStates
<1>2. Target \in patch.images
  BY <1>1, FirstPlatform DEF Target
<1>. QED
  BY <1>1, <1>2 DEF TypeInv, PatchOK, Reemitted, Images

\* A push of a leg leaves well-formed tags, whether it cascades or not.
LEMMA LegTags ==
  ASSUME TypeInv, Pushing, NEW cascade \in BOOLEAN
  PROVE  TagsOK(Pushed(run.version, Leg, Built, cascade))
  BY LegTypes, PushedTags DEF TypeInv, TypeOK, RegistryTypes, TagTypes, TagsOK

\* The tags as a leg's push and as a patch's push leave them.
LEMMA LegPushed ==
  ASSUME TypeInv, Pushing, NEW cascade \in BOOLEAN,
         tags' = Pushed(run.version, Leg, Built, cascade)
  PROVE  /\ tags'[run.version][Leg] = Built
         /\ \A w \in Versions : \A q \in Platforms :
               ~(w = run.version /\ q = Leg) => tags'[w][q] = tags[w][q]
         /\ \A q \in Platforms : q # Leg => tags'[latest][q] = tags[latest][q]
         /\ tags'[latest][Leg] = IF cascade /\ ~Blocked(run.version, Leg) THEN Built
                                 ELSE tags[latest][Leg]
<1>1. TagsOK(tags)
  BY DEF TypeInv, TypeOK, RegistryTypes, TagTypes, TagsOK
<1>. QED
  BY <1>1, LegTypes, PushedTags

LEMMA ImagePatched ==
  ASSUME TypeInv, Republish
  PROVE  /\ tags'[patch.version][Target] = Reemitted
         /\ \A w \in Versions : \A q \in Platforms :
               ~(w = patch.version /\ q = Target) => tags'[w][q] = tags[w][q]
         /\ \A q \in Platforms : q # Target => tags'[latest][q] = tags[latest][q]
         /\ tags'[latest][Target] = IF ~Blocked(patch.version, Target) THEN Reemitted
                                    ELSE tags[latest][Target]
<1>1. TagsOK(tags)
  BY DEF TypeInv, TypeOK, RegistryTypes, TagTypes, TagsOK
<1>2. tags' = Pushed(patch.version, Target, Reemitted, TRUE)
  BY DEF Republish, Write
<1>3. ASSUME NEW v \in Versions, NEW p \in Platforms, NEW image \in Images, image[1] = v,
             NEW cascade \in BOOLEAN, tags' = Pushed(v, p, image, cascade)
      PROVE  /\ tags'[v][p] = image
             /\ \A w \in Versions : \A q \in Platforms :
                   ~(w = v /\ q = p) => tags'[w][q] = tags[w][q]
             /\ \A q \in Platforms : q # p => tags'[latest][q] = tags[latest][q]
             /\ tags'[latest][p] = IF cascade /\ ~Blocked(v, p) THEN image ELSE tags[latest][p]
  BY <1>1, <1>3, PushedTags
<1>. QED
  BY <1>2, <1>3, TargetTypes DEF Republish

\* What a version's tag holds is an image of that version.
LEMMA VersionImage ==
  ASSUME TypeInv, NEW v \in Versions, NEW p \in Holds(v)
  PROVE  p \in Platforms /\ tags[v][p] \in Images /\ tags[v][p][1] = v
<1>1. TagsOK(tags) /\ p \in Platforms /\ tags[v][p] # None
  BY DEF TypeInv, TypeOK, RegistryTypes, TagTypes, TagsOK, Holds
<1>2. tags[v][p] \in Images
  BY <1>1 DEF TagsOK, Index, Tags
<1>. QED
  BY <1>1, <1>2, Numbers DEF TagsOK, Images, latest

\* What the world, the summary and a patch are left with: no step writes out of range.
LEMMA WorldStep ==
  ASSUME TypeOK, [Next]_vars
  PROVE  WorldTypes'
<1> USE BoundAssumption, FaultAssumption DEF TypeOK, WorldTypes, tests, registry, index, published
<1>1. CASE Release
  BY <1>1 DEF Release
<1>2. CASE EditSpec
  BY <1>2 DEF EditSpec
<1>3. CASE Plan
  BY <1>3 DEF Plan
<1>4. CASE Test
  <2>1. \A t \in run.plan : t \in Tiles
    BY DEF JobTypes, RunTypes, RunStates
  <2>0. PICK built \in SUBSET VersionsOf(run.plan) : \E green \in SUBSET Bundles(built) :
          red' = (red \ Bundles(built)) \cup (Bundles(built) \ green)
    BY <1>4 DEF Test
  <2>2. PICK green \in SUBSET Bundles(built) :
          red' = (red \ Bundles(built)) \cup (Bundles(built) \ green)
    BY <2>0
  <2>3. Bundles(built) \subseteq Tiles
    BY <2>1 DEF Bundles, plan_entries_for_version
  <2>4. red' \subseteq Tiles
    BY <2>2, <2>3
  <2>5. reds' \in 0..MaxReds /\ UNCHANGED <<source, revision, faults>>
    BY <1>4 DEF Test
  <2>. QED
    BY <2>4, <2>5
<1>5. ASSUME UNCHANGED <<source, revision, tests>>, UNCHANGED faults \/ Failure
      PROVE  WorldTypes'
  BY <1>5 DEF Failure
<1>7. CASE \/ Unresolved \/ FailPush \/ FailSignature \/ Kill \/ RefuseImage \/ AbortPatch
            \/ EndVersion \/ Sweep \/ Announce \/ PatchSweep \/ PatchAnnounce \/ Repair
  <2>1. UNCHANGED <<source, revision, tests>> /\ (UNCHANGED faults \/ Failure)
    <3>1. CASE Unresolved
      BY <3>1 DEF Unresolved
    <3>2. CASE FailPush
      BY <3>2 DEF FailPush
    <3>3. CASE FailSignature
      BY <3>3 DEF FailSignature
    <3>4. CASE Kill
      BY <3>4 DEF Kill
    <3>5. CASE RefuseImage
      BY <3>5 DEF RefuseImage
    <3>6. CASE AbortPatch
      BY <3>6 DEF AbortPatch
    <3>7. CASE EndVersion
      BY <3>7 DEF EndVersion
    <3>8. CASE Sweep
      BY <3>8 DEF Sweep
    <3>9. CASE Announce
      BY <3>9 DEF Announce
    <3>10. CASE PatchSweep
      BY <3>10 DEF PatchSweep
    <3>11. CASE PatchAnnounce
      BY <3>11 DEF PatchAnnounce
    <3>12. CASE Repair
      BY <3>12 DEF Repair
    <3>. QED
      BY <1>7, <3>1, <3>2, <3>3, <3>4, <3>5, <3>6, <3>7, <3>8, <3>9, <3>10, <3>11, <3>12
  <2>. QED
    BY <1>5, <2>1
<1>6. CASE BeginVersion \/ Push \/ SkipExisting \/ WriteSummary
  BY <1>6 DEF BeginVersion, Push, SkipExisting, WriteSummary
<1>8. CASE StartPatch \/ ReadImages \/ Republish \/ NextVersion \/ CatchUp
  BY <1>8 DEF StartPatch, ReadImages, Republish, NextVersion, CatchUp
<1>9. CASE UNCHANGED vars
  BY <1>9 DEF vars
<1>. QED
  BY <1>1, <1>2, <1>3, <1>4, <1>6, <1>7, <1>8, <1>9 DEF Next, PublishStep, PatchStep

\* What the registry and the index are left with.
LEMMA RegistryStep ==
  ASSUME TypeInv, [Next]_vars
  PROVE  RegistryTypes'
<1> USE DEF TypeInv, TypeOK, RegistryTypes, registry, index, published, tests
<1>0. TagsOK(tags)
  BY DEF TagsOK, TagTypes
<1>1. CASE UNCHANGED published
  BY <1>1 DEF TagTypes
<1>2. CASE Push
  <2>1. TagTypes' /\ sealed' \subseteq Tags /\ fresh' \subseteq fresh
    BY <1>2, LegTags, WriteTypes DEF Push, Cascades
  <2>2. signed' \subseteq Platforms \X Images
    BY <1>2, LegTypes DEF Push
  <2>. QED
    BY <1>2, <2>1, <2>2 DEF Push
<1>3. CASE FailSignature
  <2>1. TagTypes' /\ sealed' \subseteq Tags /\ fresh' \subseteq fresh
    BY <1>3, LegTags, WriteTypes DEF FailSignature, Cascades
  <2>. QED
    BY <1>3, <2>1 DEF FailSignature
<1>4. CASE EndVersion
  <2>1. PICK lost \in SUBSET Awaiting :
          Write(Recascaded({p \in Awaiting \ lost : ~Blocked(run.version, p)}))
    BY <1>4 DEF EndVersion
  <2> DEFINE moved == {p \in Awaiting \ lost : ~Blocked(run.version, p)}
  <2>2. moved \in SUBSET Platforms /\ moved \subseteq Holds(run.version) /\ run.version \in Versions
    BY <1>4 DEF EndVersion, Awaiting, Holds, RunOK
  <2>. HIDE DEF moved
  <2>3. TagsOK(Recascaded(moved))
    BY <1>0, <2>2, RecascadedTags
  <2>4. TagTypes' /\ sealed' \subseteq Tags /\ fresh' \subseteq fresh
    BY <2>1, <2>3, WriteTypes DEF moved
  <2>. QED
    BY <1>4, <2>4 DEF EndVersion
<1>5. CASE Sweep
  BY <1>5 DEF Sweep, Seal, TagTypes
<1>6. CASE Announce
  <2>1. run.union \subseteq Tags
    BY DEF JobTypes, RunTypes, RunStates
  <2>. QED
    BY <1>6, <2>1 DEF Announce, Curate, Named, TagsFile, TagTypes
<1>7. CASE Kill
  <2>1. CASE UNCHANGED <<tags, sealed, fresh>>
    BY <1>7, <2>1 DEF Kill, TagTypes
  <2>2. CASE Pushing /\ Write(Pushed(run.version, Leg, Built, FALSE))
    <3>1. TagTypes' /\ sealed' \subseteq Tags /\ fresh' \subseteq fresh
      BY <2>2, LegTags, WriteTypes
    <3>. QED
      BY <1>7, <3>1 DEF Kill
  <2>. QED
    BY <1>7, <2>1, <2>2 DEF Kill
<1>8. CASE Republish
  <2>1. TagsOK(Pushed(patch.version, Target, Reemitted, TRUE))
    BY <1>0, <1>8, TargetTypes, PushedTags DEF Republish
  <2>2. TagTypes' /\ sealed' \subseteq Tags /\ fresh' \subseteq fresh
    BY <1>8, <2>1, WriteTypes DEF Republish
  <2>3. signed' \subseteq Platforms \X Images
    BY <1>8, TargetTypes DEF Republish
  <2>. QED
    BY <1>8, <2>2, <2>3 DEF Republish
<1>9. CASE PatchSweep
  BY <1>9 DEF PatchSweep, Seal, TagTypes
<1>10. CASE PatchAnnounce
  BY <1>10 DEF PatchAnnounce, Curate, Named, FromRegistry, Served, TagTypes
<1>11. CASE Repair
  <2>1. TagTypes'
    BY <1>0, <1>11, RepairedTags DEF Repair, TagsOK, TagTypes
  <2>. QED
    BY <1>11, <2>1 DEF Repair, Curate, Named, TagsFile, Moved
<1>12. CASE CatchUp
  BY <1>12 DEF CatchUp, Curate, Named, FromRegistry, Served, TagTypes
<1>13. CASE \/ Release \/ EditSpec \/ Plan \/ Test \/ Unresolved \/ BeginVersion \/ SkipExisting
             \/ FailPush \/ WriteSummary \/ StartPatch \/ ReadImages \/ RefuseImage
             \/ NextVersion \/ AbortPatch \/ UNCHANGED vars
  <2>1. UNCHANGED published
    BY <1>13 DEF Release, EditSpec, Plan, Test, Unresolved, BeginVersion, SkipExisting, FailPush,
       WriteSummary, StartPatch, ReadImages, RefuseImage, NextVersion, AbortPatch, vars
  <2>. QED
    BY <1>1, <2>1
<1>. QED
  BY <1>2, <1>3, <1>4, <1>5, <1>6, <1>7, <1>8, <1>9, <1>10, <1>11, <1>12, <1>13
  DEF Next, PublishStep, PatchStep

LEMMA NoRunTypes ==
  /\ NoRun \in RunStates /\ NoRun.step = "idle"
  /\ NoRun.todo = {} /\ NoRun.ready = {} /\ NoRun.failed = {} /\ NoRun.pushed = {} /\ NoRun.wrote = {}
  /\ NoRun.landed = {} /\ NoRun.union = {}
  BY BoundAssumption DEF NoRun, RunStates, RunSteps, Tags, latest

LEMMA IdleRun ==
  ASSUME run' = NoRun
  PROVE  RunTypes' /\ RunOK'
  BY NoRunTypes DEF RunTypes, RunOK

\* What a leg's push makes of its run.
LEMMA LegStep ==
  ASSUME TypeInv, Pushing, NEW n \in 0..MaxRetries,
         \/ run' = [run EXCEPT !.attempt = n]
         \/ run' = [run EXCEPT !.ready = @ \ {Leg}, !.attempt = n]
         \/ run' = [run EXCEPT !.ready = @ \ {Leg}, !.failed = @ \cup {Leg}, !.attempt = n]
         \/ Reported
  PROVE  RunTypes' /\ RunOK'
<1> USE DEF TypeInv, TypeOK, JobTypes, RunTypes, RunStates, RunOK, Pushing
<1>0. Leg \in run.ready /\ Leg \in Platforms /\ run.version \in Versions /\ <<run.version, Leg>> \in Tiles
  BY LegTypes
<1>1. CASE run' = [run EXCEPT !.attempt = n]
  BY <1>1
<1>2. CASE run' = [run EXCEPT !.ready = @ \ {Leg}, !.attempt = n]
  BY <1>2
<1>3. CASE run' = [run EXCEPT !.ready = @ \ {Leg}, !.failed = @ \cup {Leg}, !.attempt = n]
  BY <1>0, <1>3
<1>4. CASE Reported
  <2> DEFINE wrote == Wrote(run.version, Leg, Cascades)
  <2>1. wrote \in SUBSET Tags
    BY <1>0 DEF Wrote, Tags
  <2>2. run' = [run EXCEPT !.ready = @ \ {Leg}, !.pushed = @ \cup {Leg}, !.attempt = 0,
                           !.landed = @ \cup {<<run.version, Leg>>}, !.wrote = @ \cup wrote]
    BY <1>4 DEF Reported
  <2>. HIDE DEF wrote
  <2> DEFINE half == [run EXCEPT !.ready = @ \ {Leg}, !.pushed = @ \cup {Leg}, !.attempt = 0]
             landed == run.landed \cup {<<run.version, Leg>>}
  <2>4. 0 \in 0..MaxRetries
    BY BoundAssumption
  <2>5. half \in RunStates /\ half.wrote = run.wrote
    <3> HIDE DEF wrote
    <3> QED
      BY <1>0, <2>4
  <2>6. run' = [half EXCEPT !.landed = landed, !.wrote = run.wrote \cup wrote]
    BY <2>2
  <2>7. landed \in SUBSET Tiles /\ run.wrote \cup wrote \in SUBSET Tags
    BY <1>0, <2>1
  <2>3. run' \in RunStates
    <3> HIDE DEF half, landed
    <3> QED
      BY <2>5, <2>6, <2>7
  <2>8. /\ run'.ready = run.ready \ {Leg} /\ run'.failed = run.failed
        /\ run'.pushed = run.pushed \cup {Leg} /\ run'.todo = run.todo /\ run'.plan = run.plan
        /\ run'.step = run.step /\ run'.version = run.version
    BY <2>2
  <2>. QED
    BY <1>0, <2>3, <2>8
<1>. QED
  BY <1>1, <1>2, <1>3, <1>4

LEMMA RunStateStep ==
  ASSUME TypeInv, [Next]_vars
  PROVE  RunTypes' /\ RunOK'
<1> USE BoundAssumption
<1> USE DEF TypeInv, TypeOK, JobTypes, RunTypes, RunStates, RunSteps, RunOK
<1>1. CASE UNCHANGED run
  BY <1>1
<1>2. CASE Unresolved \/ Announce \/ Kill
  <2>1. run' = NoRun
    BY <1>2 DEF Unresolved, Announce, Kill
  <2>. QED
    BY <2>1, IdleRun
<1>3. CASE Plan
  <2>1. Outstanding \in SUBSET Tiles
    BY DEF WorldTypes, Outstanding, Applicable
  <2>2. run' = [NoRun EXCEPT !.step = "test", !.revision = revision, !.plan = Outstanding]
    BY <1>3 DEF Plan, Planned
  <2>. QED
    BY <2>1, <2>2, NoRunTypes DEF WorldTypes
<1>4. CASE Test
  <2>1. PICK built \in SUBSET VersionsOf(run.plan) :
          run' = [run EXCEPT !.step = "version", !.plan = Bundles(built), !.todo = Bundles(built)]
    BY <1>4 DEF Test
  <2>2. Bundles(built) \in SUBSET Tiles
    BY DEF Bundles, plan_entries_for_version
  <2>. QED
    BY <1>4, <2>1, <2>2 DEF Test
<1>5. CASE BeginVersion
  <2> DEFINE v == Min(VersionsOf(run.todo))
             legs == {t[2] : t \in {t \in run.todo : t[1] = v}}
  <2>1. run' = [run EXCEPT !.step = "push", !.version = v,
                           !.todo = {t \in @ : t[1] # v},
                           !.ready = {p \in legs : <<v, p>> \notin red},
                           !.failed = {p \in legs : <<v, p>> \in red}]
    BY <1>5 DEF BeginVersion
  <2>2. v \in Versions /\ v \in Tags
    BY <1>5, OldestVersion DEF BeginVersion, Tags
  <2>3. \A p \in legs : p \in Platforms /\ <<v, p>> \in Tiles
    BY Numbers
  <2>4. run.step = "version" /\ run.pushed = {} /\ run.wrote = {}
    BY <1>5 DEF BeginVersion
  <2>. HIDE DEF v, legs
  <2>. QED
    BY <2>1, <2>2, <2>3, <2>4
<1>6. CASE Push
  BY <1>6, LegStep DEF Push
<1>7. CASE SkipExisting
  <2>1. Pushing /\ run' = [run EXCEPT !.ready = @ \ {Leg}, !.attempt = 0] /\ 0 \in 0..MaxRetries
    BY <1>7 DEF SkipExisting
  <2>. QED
    BY <2>1, LegStep
<1>8. CASE FailPush \/ FailSignature
  <2>1. Pushing /\ (Retried \/ GivenUp)
    BY <1>8 DEF FailPush, FailSignature
  <2>2. CASE Retried
    <3>1. run' = [run EXCEPT !.attempt = run.attempt + 1] /\ run.attempt + 1 \in 0..MaxRetries
      BY <2>2 DEF Retried
    <3>. QED
      BY <2>1, <3>1, LegStep
  <2>3. CASE GivenUp
    <3>1. /\ run' = [run EXCEPT !.ready = @ \ {Leg}, !.failed = @ \cup {Leg}, !.attempt = 0]
          /\ 0 \in 0..MaxRetries
      BY <2>3 DEF GivenUp
    <3>. QED
      BY <2>1, <3>1, LegStep
  <2>. QED
    BY <2>1, <2>2, <2>3
<1>9. CASE EndVersion
  <2>1. PICK lost \in SUBSET Awaiting :
          LET moved == {p \in Awaiting \ lost : ~Blocked(run.version, p)}
          IN  run' = [run EXCEPT !.step = "version", !.version = 0,
                           !.failed = {}, !.pushed = {}, !.wrote = {},
                           !.red = @ \/ run.failed # {},
                           !.stranded = IF lost # {} \/ run.failed # {} \/ run.pushed = {}
                                        THEN @ \cup {run.version} ELSE @,
                           !.union = TagUnion(moved)]
    BY <1>9 DEF EndVersion
  <2> DEFINE moved == {p \in Awaiting \ lost : ~Blocked(run.version, p)}
             left == IF lost # {} \/ run.failed # {} \/ run.pushed = {}
                     THEN run.stranded \cup {run.version} ELSE run.stranded
  <2>2. TagUnion(moved) \in SUBSET Tags
    BY DEF TagUnion, TagsWritten, Tags
  <2>3. left \in SUBSET Tags /\ 0 \in Tags /\ (run.red \/ run.failed # {}) \in BOOLEAN
    BY DEF Tags, latest
  <2>4. run' = [run EXCEPT !.step = "version", !.version = 0,
                           !.failed = {}, !.pushed = {}, !.wrote = {},
                           !.red = run.red \/ run.failed # {},
                           !.stranded = left, !.union = TagUnion(moved)]
    BY <2>1
  <2>5. run.ready = {}
    BY <1>9 DEF EndVersion
  <2>. HIDE DEF left, moved
  <2>. QED
    BY <2>2, <2>3, <2>4, <2>5
<1>10. CASE WriteSummary
  BY <1>10 DEF WriteSummary
<1>11. CASE Sweep
  BY <1>11 DEF Sweep
<1>12. CASE Republish
  BY <1>12 DEF Republish
<1>13. CASE \/ Release \/ EditSpec \/ StartPatch \/ ReadImages \/ RefuseImage \/ NextVersion
             \/ PatchSweep \/ PatchAnnounce \/ AbortPatch \/ Repair \/ CatchUp \/ UNCHANGED vars
  <2>1. UNCHANGED run
    BY <1>13 DEF Release, EditSpec, StartPatch, ReadImages, RefuseImage, NextVersion, PatchSweep,
       PatchAnnounce, AbortPatch, Repair, CatchUp, vars
  <2>. QED
    BY <1>1, <2>1
<1>. QED
  BY <1>2, <1>3, <1>4, <1>5, <1>6, <1>7, <1>8, <1>9, <1>10, <1>11, <1>12, <1>13
  DEF Next, PublishStep, PatchStep

\* Versions' tags are written by the push of a leg and by a patch of an image they hold.
LEMMA VersionTagStep ==
  ASSUME TypeInv, [Next]_vars, NEW v \in Versions, NEW p \in Platforms
  PROVE  \/ tags'[v][p] = tags[v][p]
         \/ tags'[v][p] # None /\ Pushing /\ v = run.version /\ p = Leg
         \/ tags'[v][p] # None /\ tags[v][p] # None
<1> USE DEF TypeInv, TypeOK, RegistryTypes, registry, index, published
<1>0. TagsOK(tags) /\ None \notin Images
  BY Numbers DEF TagsOK, TagTypes
<1>1. CASE Push \/ FailSignature \/ Kill
  <2>1. CASE UNCHANGED tags
    BY <2>1
  <2>2. ASSUME NEW cascade \in BOOLEAN, Pushing, Write(Pushed(run.version, Leg, Built, cascade))
        PROVE  tags'[v][p] = tags[v][p] \/ (tags'[v][p] # None /\ v = run.version /\ p = Leg)
    BY <1>0, <2>2, LegTypes, LegPushed DEF Write
  <2>3. Cascades \in BOOLEAN /\ FALSE \in BOOLEAN
    BY DEF Cascades
  <2>. QED
    BY <1>1, <2>1, <2>2, <2>3 DEF Push, FailSignature, Kill
<1>2. CASE Republish
  <2>1. patch.step = "image" /\ patch.images # {}
    BY <1>2 DEF Republish
  <2>. QED
    BY <1>0, <1>2, <2>1, TargetTypes, ImagePatched DEF Holds
<1>3. CASE EndVersion
  <2>1. PICK lost \in SUBSET Awaiting :
          Write(Recascaded({q \in Awaiting \ lost : ~Blocked(run.version, q)}))
    BY <1>3 DEF EndVersion
  <2> DEFINE moved == {q \in Awaiting \ lost : ~Blocked(run.version, q)}
  <2>2. moved \in SUBSET Platforms /\ moved \subseteq Holds(run.version) /\ run.version \in Versions
    BY <1>3 DEF EndVersion, Awaiting, Holds, RunOK
  <2>3. tags' = Recascaded(moved)
    BY <2>1 DEF Write
  <2>. HIDE DEF moved
  <2>. QED
    BY <1>0, <2>2, <2>3, RecascadedTags
<1>4. CASE Repair
  BY <1>0, <1>4, RepairedTags DEF Repair
<1>5. CASE \/ Release \/ EditSpec \/ Plan \/ Test \/ Unresolved \/ BeginVersion \/ SkipExisting
            \/ FailPush \/ WriteSummary \/ Sweep \/ Announce
            \/ StartPatch \/ ReadImages \/ RefuseImage
            \/ NextVersion \/ PatchSweep \/ PatchAnnounce \/ AbortPatch \/ CatchUp \/ UNCHANGED vars
  <2>1. UNCHANGED tags
    BY <1>5 DEF Release, EditSpec, Plan, Test, Unresolved, BeginVersion, SkipExisting, FailPush,
       WriteSummary, Sweep, Announce, StartPatch, ReadImages, RefuseImage, NextVersion, PatchSweep,
       PatchAnnounce, AbortPatch, CatchUp, vars
  <2>. QED
    BY <2>1
<1>. QED
  BY <1>1, <1>2, <1>3, <1>4, <1>5 DEF Next, PublishStep, PatchStep

\* No version loses a platform.
LEMMA HoldsStep ==
  ASSUME TypeInv, [Next]_vars, NEW v \in Versions
  PROVE  Holds(v) \subseteq Holds(v)'
  BY VersionTagStep DEF Holds

LEMMA PatchStateStep ==
  ASSUME TypeInv, [Next]_vars
  PROVE  patch' \in PatchStates /\ PatchOK'
<1> USE DEF TypeInv, TypeOK, JobTypes, PatchStates, PatchSteps, PatchOK
<1>1. \A v \in Versions : Holds(v) \subseteq Holds(v)'
  BY HoldsStep
<1>2. ASSUME UNCHANGED <<patch>> PROVE patch' \in PatchStates /\ PatchOK'
  BY <1>1, <1>2
<1>3. ASSUME patch' = Raced PROVE patch' \in PatchStates /\ PatchOK'
  BY <1>1, <1>3 DEF Raced
<1>4. ASSUME patch' = NoPatch PROVE patch' \in PatchStates /\ PatchOK'
  BY <1>4, BoundAssumption DEF NoPatch, Tags, latest
<1>5. CASE Push \/ FailSignature \/ Kill
  BY <1>2, <1>3, <1>5 DEF Push, FailSignature, Kill
<1>6. CASE StartPatch
  <2>1. VersionsOf(Published) \subseteq Versions
    BY VersionsOfTiles DEF Published
  <2>2. PICK chosen \in SUBSET VersionsOf(Published) :
          patch' = [NoPatch EXCEPT !.step = "version", !.revision = revision, !.todo = chosen]
    BY <1>6 DEF StartPatch
  <2>. QED
    BY <2>1, <2>2 DEF NoPatch, WorldTypes, Tags, latest
<1>7. CASE ReadImages
  <2>1. Min(patch.todo) \in Versions
    BY <1>7, Numbers, SmallestOf DEF ReadImages
  <2>2. PICK v \in Versions : v = Min(patch.todo)
    BY <2>1
  <2>3. patch' = [patch EXCEPT !.step = "image", !.version = v, !.todo = @ \ {v},
                               !.images = Drifted(v, patch.revision)]
    BY <1>7, <2>2 DEF ReadImages
  <2>4. Drifted(v, patch.revision) \subseteq Holds(v) /\ Holds(v) \subseteq Platforms
    BY DEF Drifted, Holds
  <2>. QED
    BY <1>1, <2>3, <2>4 DEF Tags
<1>8. CASE Republish
  <2>1. patch.version \in Versions /\ patch.step = "image"
    BY <1>8, TargetTypes DEF Republish
  <2>2. patch' = [patch EXCEPT !.images = @ \ {Target}, !.patched = @ \cup {patch.version}]
    BY <1>8 DEF Republish
  <2>. QED
    BY <1>1, <2>1, <2>2
<1>9. CASE RefuseImage
  BY <1>1, <1>9 DEF RefuseImage
<1>10. CASE NextVersion
  BY <1>10 DEF NextVersion, Tags, latest
<1>11. CASE PatchSweep
  BY <1>11 DEF PatchSweep
<1>12. CASE PatchAnnounce \/ AbortPatch
  BY <1>4, <1>12 DEF PatchAnnounce, AbortPatch
<1>13. CASE \/ Release \/ EditSpec \/ Plan \/ Test \/ Unresolved \/ BeginVersion \/ SkipExisting
             \/ FailPush \/ EndVersion \/ WriteSummary \/ Sweep \/ Announce \/ Repair \/ CatchUp
             \/ UNCHANGED vars
  <2>1. UNCHANGED patch
    BY <1>13 DEF Release, EditSpec, Plan, Test, Unresolved, BeginVersion, SkipExisting, FailPush,
       EndVersion, WriteSummary, Sweep, Announce, Repair, CatchUp, vars
  <2>. QED
    BY <1>2, <2>1
<1>. QED
  BY <1>5, <1>6, <1>7, <1>8, <1>9, <1>10, <1>11, <1>12, <1>13 DEF Next, PublishStep, PatchStep

LEMMA SummaryStep ==
  ASSUME TypeInv, [Next]_vars
  PROVE  summary' \in Summaries
<1> USE DEF TypeInv, TypeOK, JobTypes, Summaries
<1>1. CASE Plan
  BY <1>1 DEF Plan, NoSummary, Outcomes
<1>2. CASE WriteSummary
  BY <1>2 DEF WriteSummary, Pending, Outcomes, RunTypes, RunStates
<1>3. CASE Announce
  BY <1>3 DEF Announce
<1>4. CASE \/ Release \/ EditSpec \/ Test \/ Unresolved \/ BeginVersion \/ Push \/ SkipExisting
            \/ FailPush \/ FailSignature \/ EndVersion \/ Sweep \/ Kill \/ StartPatch \/ ReadImages
            \/ Republish \/ RefuseImage \/ NextVersion \/ PatchSweep \/ PatchAnnounce \/ AbortPatch
            \/ Repair \/ CatchUp \/ UNCHANGED vars
  BY <1>4 DEF Release, EditSpec, Test, Unresolved, BeginVersion, Push, SkipExisting, FailPush,
     FailSignature, EndVersion, Sweep, Kill, StartPatch, ReadImages, Republish, RefuseImage,
     NextVersion, PatchSweep, PatchAnnounce, AbortPatch, Repair, CatchUp, vars
<1>. QED
  BY <1>1, <1>2, <1>3, <1>4 DEF Next, PublishStep, PatchStep

LEMMA TypeStep ==
  ASSUME TypeInv, [Next]_vars
  PROVE  TypeInv'
  BY WorldStep, RegistryStep, RunStateStep, PatchStateStep, SummaryStep DEF TypeInv, TypeOK, JobTypes

\* Every job, the registry and the index keep their types, whatever fails or is killed.
THEOREM TypeCorrect == Spec => []TypeOK
<1>1. Init => TypeInv
  BY InitTypes
<1>2. TypeInv /\ [Next]_vars => TypeInv'
  BY TypeStep
<1>3. TypeInv => TypeOK
  BY DEF TypeInv
<1>. QED
  BY <1>1, <1>2, <1>3, PTL DEF Spec

LEMMA TypeInvHolds == Spec => []TypeInv
<1>1. Init => TypeInv
  BY InitTypes
<1>2. TypeInv /\ [Next]_vars => TypeInv'
  BY TypeStep
<1>. QED
  BY <1>1, <1>2, PTL DEF Spec

-----------------------------------------------------------------------------
(* The record of a run.                                                       *)

\* A run that has tags to announce has landed a leg; from its summary on, the summary
\* names those tags, and says so until the index has them.
ReportInv ==
    /\ run.union # {} \/ run.wrote # {} \/ run.pushed # {} => run.landed # {}
    /\ run.step \in {"sweep", "announce"} =>
          summary.announce = "interrupted" /\ summary.union = run.union
    /\ summary.union # {} => summary.any_new_green
    /\ summary.union \subseteq listed \/ summary.announce \in {"failed", "interrupted"}

\* No step takes a tag out of the index.
LEMMA ListedGrows ==
  ASSUME TypeInv, [Next]_vars
  PROVE  listed \subseteq listed'
<1> USE DEF index, published
<1>1. CASE Announce \/ PatchAnnounce \/ Repair \/ CatchUp
  BY <1>1 DEF Announce, PatchAnnounce, Repair, CatchUp, Curate
<1>2. CASE \/ Release \/ EditSpec \/ Plan \/ Test \/ Unresolved \/ BeginVersion \/ Push \/ SkipExisting
            \/ FailPush \/ FailSignature \/ EndVersion \/ WriteSummary \/ Sweep \/ Kill \/ StartPatch
            \/ ReadImages \/ Republish \/ RefuseImage \/ NextVersion \/ PatchSweep \/ AbortPatch
            \/ UNCHANGED vars
  BY <1>2 DEF Release, EditSpec, Plan, Test, Unresolved, BeginVersion, Push, SkipExisting, FailPush,
     FailSignature, EndVersion, WriteSummary, Sweep, Kill, StartPatch, ReadImages, Republish, RefuseImage,
     NextVersion, PatchSweep, AbortPatch, vars
<1>. QED
  BY <1>1, <1>2 DEF Next, PublishStep, PatchStep

LEMMA ReportStep ==
  ASSUME TypeInv, ReportInv, [Next]_vars
  PROVE  ReportInv'
<1> USE DEF ReportInv
<1>0. listed \subseteq listed' /\ run \in RunStates /\ summary \in Summaries
  BY ListedGrows DEF TypeInv, TypeOK, JobTypes, RunTypes
<1>1. ASSUME UNCHANGED summary, run' = NoRun PROVE ReportInv'
  BY <1>0, <1>1, NoRunTypes
<1>2. ASSUME UNCHANGED summary, UNCHANGED <<run.union, run.wrote, run.pushed, run.landed, run.step>>
      PROVE  ReportInv'
  BY <1>0, <1>2
<1>3. CASE Unresolved \/ Kill
  BY <1>1, <1>3 DEF Unresolved, Kill
<1>4. CASE Plan
  BY <1>0, <1>4, NoRunTypes DEF Plan, Planned, NoSummary, RunStates
<1>5. CASE Test
  <2>1. PICK bundles : run' = [run EXCEPT !.step = "version", !.plan = bundles, !.todo = bundles]
    BY <1>5 DEF Test
  <2>. QED
    BY <1>0, <1>5, <2>1 DEF Test, RunStates
<1>6. CASE BeginVersion
  <2>1. /\ UNCHANGED <<run.union, run.wrote, run.pushed, run.landed, summary>>
        /\ run'.step = "push"
    BY <1>0, <1>6 DEF BeginVersion, RunStates
  <2>. QED
    BY <1>0, <2>1
<1>7. CASE Push
  <2>1. /\ UNCHANGED <<run.union, summary, run.step>> /\ run'.landed # {} /\ run.step = "push"
    BY <1>0, <1>7 DEF Push, Reported, Pushing, RunStates
  <2>. QED
    BY <1>0, <2>1
<1>8. CASE SkipExisting \/ FailPush \/ FailSignature
  <2>1. UNCHANGED <<run.union, run.wrote, run.pushed, run.landed, run.step, summary>>
    BY <1>0, <1>8 DEF SkipExisting, FailPush, FailSignature, Retried, GivenUp, RunStates
  <2>. QED
    BY <1>2, <2>1
<1>9. CASE EndVersion
  <2>1. PICK moved \in SUBSET Awaiting :
          /\ UNCHANGED <<run.landed, summary>> /\ run'.step = "version"
          /\ run'.wrote = {} /\ run'.pushed = {} /\ run'.union = TagUnion(moved)
    <3>1. PICK lost \in SUBSET Awaiting :
            LET moved == {p \in Awaiting \ lost : ~Blocked(run.version, p)}
            IN  run' = [run EXCEPT !.step = "version", !.version = 0,
                           !.failed = {}, !.pushed = {}, !.wrote = {},
                           !.red = @ \/ run.failed # {},
                           !.stranded = IF lost # {} \/ run.failed # {} \/ run.pushed = {}
                                        THEN @ \cup {run.version} ELSE @,
                           !.union = TagUnion(moved)]
      BY <1>9 DEF EndVersion
    <3> DEFINE gone == {p \in Awaiting \ lost : ~Blocked(run.version, p)}
    <3>2. /\ run'.step = "version" /\ run'.landed = run.landed
          /\ run'.wrote = {} /\ run'.pushed = {} /\ run'.union = TagUnion(gone)
      BY <1>0, <3>1 DEF RunStates
    <3>3. gone \in SUBSET Awaiting /\ UNCHANGED summary
      BY <1>9 DEF EndVersion
    <3>. HIDE DEF gone
    <3>. QED
      BY <3>2, <3>3
  <2>2. TagUnion(moved) # {} => run.union # {} \/ run.wrote # {} \/ run.pushed # {}
    BY DEF TagUnion, TagsWritten, Awaiting
  <2>. QED
    BY <1>0, <2>1, <2>2
<1>10. CASE WriteSummary
  <2>1. /\ UNCHANGED <<run.union, run.wrote, run.pushed, run.landed>>
        /\ summary'.announce = "interrupted" /\ summary'.union = run.union
        /\ summary'.any_new_green = (run.landed # {})
    BY <1>0, <1>10 DEF WriteSummary, Pending, RunStates
  <2>. QED
    BY <2>1
<1>11. CASE Sweep
  <2>1. UNCHANGED <<run.union, run.wrote, run.pushed, run.landed, summary>> /\ run.step = "sweep"
    BY <1>0, <1>11 DEF Sweep, RunStates
  <2>. QED
    BY <1>0, <2>1
<1>12. CASE Announce
  <2>1. PICK outcome \in Outcomes :
          /\ \/ outcome = "nothing" /\ run.union = {}
             \/ outcome = "announced" /\ Curate(TagsFile(run.union))
             \/ outcome = "failed"
          /\ summary' = [summary EXCEPT !.announce = outcome]
    BY <1>12 DEF Announce
  <2>2. summary'.announce = outcome /\ UNCHANGED <<summary.union, summary.any_new_green>>
    BY <1>0, <2>1 DEF Summaries
  <2>3. run' = NoRun /\ summary.union = run.union
    BY <1>12 DEF Announce
  <2>. QED
    BY <1>0, <2>1, <2>2, <2>3, NoRunTypes DEF Curate, Named, TagsFile
<1>13. CASE Republish
  BY <1>0, <1>2, <1>13 DEF Republish, RunStates
<1>14. CASE \/ Release \/ EditSpec \/ StartPatch \/ ReadImages \/ RefuseImage \/ NextVersion
             \/ PatchSweep \/ PatchAnnounce \/ AbortPatch \/ Repair \/ CatchUp \/ UNCHANGED vars
  <2>1. UNCHANGED <<run, summary>>
    BY <1>14 DEF Release, EditSpec, StartPatch, ReadImages, RefuseImage, NextVersion, PatchSweep,
       PatchAnnounce, AbortPatch, Repair, CatchUp, vars
  <2>. QED
    BY <1>2, <2>1
<1>. QED
  BY <1>3, <1>4, <1>5, <1>6, <1>7, <1>8, <1>9, <1>10, <1>11, <1>12, <1>13, <1>14
  DEF Next, PublishStep, PatchStep

\* Whatever fails, is killed or runs beside it: the summary of the latest run never names
\* a tag that the index has not seen without the notification that raises the alarm
\* (finalize_run writes it with a pending outcome first).
THEOREM UncuratedReported == Spec => []UncuratedIsReported
<1>1. Init => ReportInv
  BY NoRunTypes DEF Init, ReportInv, NoSummary
<1>2. TypeInv /\ ReportInv /\ [Next]_vars => ReportInv'
  BY ReportStep
<1>3. TypeInv /\ ReportInv => UncuratedIsReported
  BY DEF ReportInv, UncuratedIsReported, build_messages, Notifies, announce_field
<1>. QED
  BY <1>1, <1>2, <1>3, TypeInvHolds, PTL DEF Spec

-----------------------------------------------------------------------------
(* The gate of the rolling tag.                                               *)

\* What the end of a version leaves of a run and the tags.
LEMMA VersionEnds ==
  ASSUME TypeInv, EndVersion
  PROVE  \E lost \in SUBSET Awaiting :
           LET moved == {p \in Awaiting \ lost : ~Blocked(run.version, p)} IN
           /\ tags' = Recascaded(moved)
           /\ \A t \in Tags : t \in sealed /\ tags'[t] = tags[t] => t \in sealed'
           /\ run'.step = "version" /\ run'.todo = run.todo /\ run'.landed = run.landed
           /\ run'.union = TagUnion(moved)
           /\ run.version \notin run'.stranded => lost = {} /\ run.failed = {} /\ run.pushed # {}
<1>1. run \in RunStates
  BY DEF TypeInv, TypeOK, JobTypes, RunTypes
<1>2. PICK lost \in SUBSET Awaiting :
        LET moved == {p \in Awaiting \ lost : ~Blocked(run.version, p)}
        IN  /\ Write(Recascaded(moved))
            /\ run' = [run EXCEPT !.step = "version", !.version = 0,
                           !.failed = {}, !.pushed = {}, !.wrote = {},
                           !.red = @ \/ run.failed # {},
                           !.stranded = IF lost # {} \/ run.failed # {} \/ run.pushed = {}
                                        THEN @ \cup {run.version} ELSE @,
                           !.union = TagUnion(moved)]
  BY DEF EndVersion
<1> DEFINE moved == {p \in Awaiting \ lost : ~Blocked(run.version, p)}
<1>3. /\ run'.step = "version" /\ run'.todo = run.todo /\ run'.landed = run.landed
      /\ run'.union = TagUnion(moved)
      /\ run.version \notin run'.stranded => lost = {} /\ run.failed = {} /\ run.pushed # {}
  BY <1>1, <1>2 DEF RunStates
<1>4. tags' = Recascaded(moved) /\ \A t \in Tags : t \in sealed /\ tags'[t] = tags[t] => t \in sealed'
  BY <1>2 DEF Write
<1>. HIDE DEF moved
<1>. QED
  BY <1>3, <1>4 DEF moved

\* A tile with a red verdict is one that a platform's window lets through and that no
\* version's tag holds; a run that publishes its version has it among the failed legs.
GateInv ==
    /\ red \subseteq Applicable /\ red \cap Published = {}
    /\ run.step = "test" => red \subseteq run.plan /\ run.plan \subseteq Applicable \ Published
    /\ run.step \in {"version", "push"} =>
          \A t \in red : t[1] \in VersionsOf(run.todo) => t \in run.todo
    /\ run.step = "push" => \A q \in Platforms : <<run.version, q>> \in red => q \in run.failed

LEMMA PublishedStep ==
  ASSUME TypeInv, [Next]_vars
  PROVE  \A t \in Published' : t \in Published \/ (Pushing /\ t = <<run.version, Leg>>)
<1> SUFFICES ASSUME NEW t \in Published'
             PROVE  t \in Published \/ (Pushing /\ t = <<run.version, Leg>>)
  OBVIOUS
<1>1. t \in Tiles /\ t = <<t[1], t[2]>> /\ t[1] \in Versions /\ t[2] \in Platforms /\ t[2] \in Holds(t[1])'
  BY Numbers DEF Published
<1>2. t[2] \in Holds(t[1]) \/ (Pushing /\ t[1] = run.version /\ t[2] = Leg)
  <2>1. tags'[t[1]][t[2]] # None
    BY <1>1 DEF Holds
  <2>2. tags[t[1]][t[2]] # None \/ (Pushing /\ t[1] = run.version /\ t[2] = Leg)
    BY <1>1, <2>1, VersionTagStep
  <2>. QED
    BY <1>1, <2>2 DEF Holds
<1>3. ASSUME t[2] \in Holds(t[1]) PROVE t \in Published
  <2>1. tags[t[1]][t[2]] # None /\ Absent[t[2]] = None
    BY <1>1, <1>3 DEF Holds, Absent
  <2>. QED
    BY <1>1, <1>3, <2>1 DEF Published, Served, Tags
<1>. QED
  BY <1>1, <1>2, <1>3

LEMMA GateStep ==
  ASSUME TypeInv, GateInv, [Next]_vars
  PROVE  GateInv'
<1> USE DEF GateInv
<1>0. /\ run \in RunStates /\ run.ready \cap run.failed = {} /\ red \subseteq Tiles
      /\ run.step # "push" => run.ready = {}
  BY DEF TypeInv, TypeOK, JobTypes, RunTypes, WorldTypes, RunOK
<1>1. Applicable \subseteq Applicable'
  <2>1. source \subseteq source'
    BY DEF Next, PublishStep, PatchStep, Release, EditSpec, Plan, Test, Unresolved, BeginVersion, Push,
       SkipExisting, FailPush, FailSignature, EndVersion, WriteSummary, Sweep, Announce, Kill, StartPatch,
       ReadImages, Republish, RefuseImage, NextVersion, PatchSweep, PatchAnnounce, AbortPatch, Repair,
       CatchUp, vars
  <2>. QED
    BY <2>1 DEF Applicable, platform_applies, exclude_hit
<1>2. red \cap Published' = {}
  <2> SUFFICES ASSUME NEW t \in red, t \in Published' PROVE FALSE
    OBVIOUS
  <2>1. Pushing /\ t = <<run.version, Leg>>
    BY PublishedStep
  <2>2. Leg \in run.ready /\ Leg \in Platforms /\ run.step = "push"
    BY <2>1, LegTypes DEF Pushing
  <2>. QED
    BY <1>0, <2>1, <2>2
<1>3. run.step = "test" => Published' \subseteq Published
  BY PublishedStep DEF Pushing
<1>4. ASSUME UNCHANGED <<red, run.step, run.plan, run.todo, run.version>>, run.failed \subseteq run'.failed
      PROVE  GateInv'
  BY <1>1, <1>2, <1>3, <1>4 DEF VersionsOf
<1>5. ASSUME UNCHANGED red, run' = NoRun PROVE GateInv'
  BY <1>1, <1>2, <1>5, NoRunTypes
<1>6. CASE Unresolved \/ Announce \/ Kill
  BY <1>5, <1>6 DEF Unresolved, Announce, Kill, tests
<1>7. CASE Plan
  <2>1. /\ run'.step = "test" /\ run'.plan = Applicable \ Published
        /\ UNCHANGED <<red, Applicable, Published>>
    BY <1>7, NoRunTypes DEF Plan, Planned, Outstanding, RunStates, tests, published, registry, Applicable,
       platform_applies, exclude_hit, Published, Served, Holds
  <2>. QED
    BY <2>1
<1>8. CASE Test
  <2>1. PICK built \in SUBSET VersionsOf(run.plan) : \E green \in SUBSET Bundles(built) :
          /\ run' = [run EXCEPT !.step = "version", !.plan = Bundles(built), !.todo = Bundles(built)]
          /\ red' = (red \ Bundles(built)) \cup (Bundles(built) \ green)
    BY <1>8 DEF Test
  <2>2. Bundles(built) \subseteq run.plan /\ \A t \in run.plan : t[1] \in built => t \in Bundles(built)
    BY DEF Bundles, plan_entries_for_version
  <2>3. \A t \in Bundles(built) : t[1] \in built
    BY DEF Bundles, plan_entries_for_version
  <2>4. run.step = "test" /\ UNCHANGED <<Applicable, Published>>
    BY <1>8 DEF Test, published, registry, Applicable, platform_applies, exclude_hit, Published, Served, Holds
  <2>5. run'.step = "version" /\ run'.todo = Bundles(built)
    BY <1>0, <2>1 DEF RunStates
  <2>6. red' \subseteq run.plan
    BY <2>1, <2>2, <2>4
  <2>7. \A v \in VersionsOf(Bundles(built)) : v \in built
    BY <2>3 DEF VersionsOf
  <2>. QED
    BY <2>2, <2>4, <2>5, <2>6, <2>7
<1>9. CASE BeginVersion
  <2>1. PICK v : /\ v = Min(VersionsOf(run.todo))
                 /\ run' = [run EXCEPT !.step = "push", !.version = v,
                              !.todo = {t \in @ : t[1] # v},
                              !.ready = {p \in {t[2] : t \in {t \in run.todo : t[1] = v}} : <<v, p>> \notin red},
                              !.failed = {p \in {t[2] : t \in {t \in run.todo : t[1] = v}} : <<v, p>> \in red}]
    BY <1>9 DEF BeginVersion
  <2>2. v \in VersionsOf(run.todo) /\ v \in Versions
    BY <1>0, <1>9, <2>1, OldestVersion DEF BeginVersion, RunStates
  <2>3. /\ run'.step = "push" /\ run'.version = v /\ run'.todo = {t \in run.todo : t[1] # v}
        /\ run'.failed = {p \in {t[2] : t \in {t \in run.todo : t[1] = v}} : <<v, p>> \in red}
        /\ run.step = "version" /\ UNCHANGED red
    BY <1>0, <1>9, <2>1 DEF RunStates, BeginVersion, tests
  <2>4. \A t \in red : t[1] \in VersionsOf(run'.todo) => t \in run'.todo
    BY <2>3 DEF VersionsOf
  <2>5. ASSUME NEW q \in Platforms, <<v, q>> \in red PROVE q \in run'.failed
    <3>1. <<v, q>> \in run.todo
      BY <2>2, <2>3, <2>5
    <3>. QED
      BY <2>3, <2>5, <3>1
  <2>. QED
    BY <1>1, <1>2, <2>3, <2>4, <2>5
<1>10. CASE EndVersion
  <2>1. run'.step = "version" /\ run'.todo = run.todo /\ run.step = "push" /\ UNCHANGED red
    BY <1>10, VersionEnds DEF EndVersion, tests
  <2>. QED
    BY <1>1, <1>2, <2>1
<1>11. CASE WriteSummary \/ Sweep
  <2>1. run'.step \in {"sweep", "announce"} /\ UNCHANGED red
    BY <1>0, <1>11 DEF WriteSummary, Sweep, RunStates, tests
  <2>. QED
    BY <1>1, <1>2, <2>1
<1>12. CASE Push \/ SkipExisting \/ FailPush \/ FailSignature
  <2>1. CASE Push
    BY <1>0, <1>4, <2>1 DEF Push, Reported, RunStates, tests
  <2>2. CASE SkipExisting
    BY <1>0, <1>4, <2>2 DEF SkipExisting, RunStates, tests
  <2>3. CASE FailPush \/ FailSignature
    <3>1. UNCHANGED red /\ (Retried \/ GivenUp)
      BY <2>3 DEF FailPush, FailSignature, tests
    <3>2. UNCHANGED <<run.step, run.plan, run.todo, run.version>> /\ run.failed \subseteq run'.failed
      BY <1>0, <3>1 DEF Retried, GivenUp, RunStates
    <3>. QED
      BY <1>4, <3>1, <3>2
  <2>. QED
    BY <1>12, <2>1, <2>2, <2>3
<1>13. CASE Republish
  BY <1>0, <1>4, <1>13 DEF Republish, RunStates, tests
<1>14. CASE \/ Release \/ EditSpec \/ StartPatch \/ ReadImages \/ RefuseImage \/ NextVersion
             \/ PatchSweep \/ PatchAnnounce \/ AbortPatch \/ Repair \/ CatchUp \/ UNCHANGED vars
  <2>1. UNCHANGED <<run, red>>
    BY <1>14 DEF Release, EditSpec, StartPatch, ReadImages, RefuseImage, NextVersion, PatchSweep,
       PatchAnnounce, AbortPatch, Repair, CatchUp, vars, tests
  <2>. QED
    BY <1>4, <2>1
<1>. QED
  BY <1>6, <1>7, <1>8, <1>9, <1>10, <1>11, <1>12, <1>13, <1>14 DEF Next, PublishStep, PatchStep

LEMMA AliasStep ==
  ASSUME TypeInv, GateInv, [Next]_vars, NEW p \in Platforms, run.step = "push",
         patch'.images = patch.images, tags'[latest][p][1] # tags[latest][p][1]
  PROVE  \A q \in Platforms : <<tags'[latest][p][1], q>> \notin red
<1>1. run.failed = {} => \A q \in Platforms : <<run.version, q>> \notin red
  BY DEF GateInv
<1>2. CASE Push \/ FailSignature \/ Kill
  <2>1. ASSUME NEW cascade \in BOOLEAN, cascade => run.failed = {}, Pushing,
               tags' = Pushed(run.version, Leg, Built, cascade)
        PROVE  tags'[latest][p][1] = run.version /\ run.failed = {}
    BY <2>1, LegTypes, LegPushed
  <2>2. Cascades \in BOOLEAN /\ FALSE \in BOOLEAN /\ (Cascades => run.failed = {})
    BY DEF Cascades
  <2>3. UNCHANGED tags \/ (tags'[latest][p][1] = run.version /\ run.failed = {})
    BY <1>2, <2>1, <2>2 DEF Push, FailSignature, Kill, Write
  <2>. QED
    BY <1>1, <2>3
<1>3. CASE EndVersion
  <2>1. PICK lost \in SUBSET Awaiting :
          tags' = Recascaded({q \in Awaiting \ lost : ~Blocked(run.version, q)})
    BY <1>3, VersionEnds
  <2> DEFINE moved == {q \in Awaiting \ lost : ~Blocked(run.version, q)}
  <2>2. /\ moved \in SUBSET Platforms /\ moved \subseteq Holds(run.version) /\ run.version \in Versions
        /\ moved # {} => run.failed = {}
    BY <1>3 DEF EndVersion, Awaiting, Holds, TypeInv, RunOK
  <2>3. TagsOK(tags)
    BY DEF TypeInv, TypeOK, RegistryTypes, TagTypes, TagsOK
  <2>. HIDE DEF moved
  <2>4. tags'[latest][p] = IF p \in moved THEN tags[run.version][p] ELSE tags[latest][p]
    BY <2>1, <2>2, <2>3, RecascadedTags DEF moved
  <2>5. p \in moved
    BY <2>4
  <2>7. tags[run.version][p][1] = run.version
    BY <2>2, <2>5, VersionImage
  <2>. QED
    BY <1>1, <2>2, <2>4, <2>5, <2>7
<1>4. CASE Republish
  <2>1. Target \in patch.images /\ patch'.images = patch.images \ {Target}
    BY <1>4, TargetTypes DEF Republish, TypeInv, TypeOK, JobTypes, PatchStates
  <2>. QED
    BY <2>1
<1>5. CASE \/ Release \/ EditSpec \/ Plan \/ Test \/ Unresolved \/ BeginVersion \/ SkipExisting
            \/ FailPush \/ WriteSummary \/ Sweep \/ Announce \/ Repair
            \/ StartPatch \/ ReadImages \/ RefuseImage
            \/ NextVersion \/ PatchSweep \/ PatchAnnounce \/ AbortPatch \/ CatchUp \/ UNCHANGED vars
  <2>1. UNCHANGED tags
    BY <1>5 DEF Release, EditSpec, Plan, Test, Unresolved, BeginVersion, SkipExisting, FailPush,
       WriteSummary, Sweep, Announce, Repair, StartPatch, ReadImages, RefuseImage, NextVersion,
       PatchSweep, PatchAnnounce, AbortPatch, CatchUp, vars, registry, published
  <2>. QED
    BY <2>1
<1>. QED
  BY <1>2, <1>3, <1>4, <1>5 DEF Next, PublishStep, PatchStep

LEMMA GateHolds == Spec => []GateInv
<1>1. Init => GateInv
  BY NoRunTypes DEF Init, GateInv
<1>2. TypeInv /\ GateInv /\ [Next]_vars => GateInv'
  BY GateStep
<1>. QED
  BY <1>1, <1>2, TypeInvHolds, PTL DEF Spec

\* A publish run never moves `latest` onto a version one of whose platforms has a red or
\* missing verdict, whatever its pushes meet and whichever run the verdict is from
\* (push.rs: a version's platforms are all decided before any of them is pushed).
THEOREM AliasesGated == Spec => AliasesAwaitTests
<1> DEFINE Gated ==
      \A p \in Platforms :
          LET v == tags'[latest][p][1] IN
          run.step = "push" /\ patch'.images = patch.images /\ v # tags[latest][p][1] =>
             \A q \in Platforms : <<v, q>> \notin red
<1>1. TypeInv /\ GateInv /\ [Next]_vars => [Gated]_vars
  BY AliasStep
<1>2. [][Gated]_vars => AliasesAwaitTests
  BY DEF AliasesAwaitTests
<1>. QED
  BY <1>1, <1>2, TypeInvHolds, GateHolds, PTL DEF Spec

-----------------------------------------------------------------------------
(* A run that exits with success.                                             *)

\* Every leg that landed is signed, and its version among the tags the run announces;
\* once the sweep is over they serve signed indexes, if no patch came between.
CuratedInv ==
    /\ \A t \in run.landed : \E i \in signed : i[1] = t[2] /\ i[2][1] = t[1]
    /\ \A t \in run.landed : t[1] \in run.union \cup run.wrote
    /\ run.step = "announce" /\ run.swept /\ ~run.raced => run.union \subseteq sealed

LEMMA SignedGrows ==
  ASSUME [Next]_vars
  PROVE  signed \subseteq signed'
  BY DEF Next, PublishStep, PatchStep, Release, EditSpec, Plan, Test, Unresolved, BeginVersion, Push,
     SkipExisting, FailPush, FailSignature, EndVersion, WriteSummary, Sweep, Announce, Kill, StartPatch,
     ReadImages, Republish, RefuseImage, NextVersion, PatchSweep, PatchAnnounce, AbortPatch, Repair,
     CatchUp, vars, published, registry

LEMMA CuratedStep ==
  ASSUME TypeInv, CuratedInv, [Next]_vars
  PROVE  CuratedInv'
<1> USE DEF CuratedInv
<1>0. signed \subseteq signed' /\ run \in RunStates
  BY SignedGrows DEF TypeInv, TypeOK, JobTypes, RunTypes
<1>1. ASSUME run' = NoRun PROVE CuratedInv'
  BY <1>1 DEF NoRun
<1>2. ASSUME UNCHANGED <<run.landed, run.union, run.wrote, run.step>>, run.step # "announce"
      PROVE  CuratedInv'
  BY <1>0, <1>2
<1>3. CASE Unresolved \/ Announce \/ Kill
  BY <1>1, <1>3 DEF Unresolved, Announce, Kill
<1>4. CASE Plan
  <2>1. run' = Planned
    BY <1>4 DEF Plan
  <2>2. Planned.landed = {} /\ Planned.step = "test"
    BY DEF Planned, NoRun
  <2>. QED
    BY <2>1, <2>2
<1>5. CASE Test
  <2>1. PICK bundles : run' = [run EXCEPT !.step = "version", !.plan = bundles, !.todo = bundles]
    BY <1>5 DEF Test
  <2>2. run'.step = "version" /\ UNCHANGED <<run.landed, run.union, run.wrote>>
    BY <1>0, <2>1 DEF RunStates
  <2>. QED
    BY <1>0, <2>2
<1>6. CASE BeginVersion
  <2>1. run'.step = "push" /\ UNCHANGED <<run.landed, run.union, run.wrote>>
    BY <1>0, <1>6 DEF BeginVersion, RunStates
  <2>. QED
    BY <1>0, <2>1
<1>7. CASE Push
  <2>1. /\ run'.landed = run.landed \cup {<<run.version, Leg>>} /\ run'.union = run.union
        /\ run'.wrote = run.wrote \cup Wrote(run.version, Leg, Cascades) /\ run'.step = "push"
    BY <1>0, <1>7 DEF Push, Reported, Pushing, RunStates
  <2>2. run.version \in run'.wrote
    BY <2>1 DEF Wrote
  <2>3. <<Leg, Built>> \in signed' /\ Built[1] = run.version
    BY <1>7, LegTypes DEF Push
  <2>4. \E i \in signed' : i[1] = Leg /\ i[2][1] = run.version
    BY <2>3
  <2>. QED
    BY <1>0, <2>1, <2>2, <2>4
<1>8. CASE SkipExisting \/ FailPush \/ FailSignature
  <2>1. UNCHANGED <<run.landed, run.union, run.wrote, run.step>> /\ run.step = "push"
    BY <1>0, <1>8 DEF SkipExisting, FailPush, FailSignature, Retried, GivenUp, Pushing, RunStates
  <2>. QED
    BY <1>2, <2>1
<1>9. CASE EndVersion
  <2>1. /\ run'.step = "version" /\ run'.landed = run.landed
        /\ \E moved \in SUBSET Awaiting : run'.union = TagUnion(moved)
    BY <1>9, VersionEnds
  <2>2. run.union \cup run.wrote \subseteq run'.union
    BY <2>1 DEF TagUnion, TagsWritten
  <2>. QED
    BY <1>0, <2>1, <2>2
<1>10. CASE WriteSummary
  <2>1. run'.step = "sweep" /\ UNCHANGED <<run.landed, run.union, run.wrote>>
    BY <1>0, <1>10 DEF WriteSummary, RunStates
  <2>. QED
    BY <1>0, <2>1
<1>11. CASE Sweep
  <2>1. UNCHANGED <<run.landed, run.union, run.wrote>> /\ (run'.swept => Seal(run.union))
    BY <1>0, <1>11 DEF Sweep, RunStates
  <2>2. run.union \subseteq Tags
    BY <1>0 DEF RunStates
  <2>3. run'.swept => run.union \subseteq sealed'
    BY <2>1, <2>2 DEF Seal
  <2>. QED
    BY <1>0, <2>1, <2>3
<1>12. CASE Republish
  <2>1. /\ UNCHANGED <<run.landed, run.union, run.wrote, run.step>>
        /\ run.step # "idle" => run'.raced
    BY <1>0, <1>12 DEF Republish, RunStates
  <2>. QED
    BY <1>0, <2>1
<1>13. CASE PatchSweep
  <2>1. UNCHANGED run /\ sealed \subseteq sealed'
    BY <1>13 DEF PatchSweep, Seal
  <2>. QED
    BY <1>0, <2>1
<1>14. CASE Repair
  <2>1. UNCHANGED run /\ run.step = "idle"
    BY <1>14 DEF Repair
  <2>. QED
    BY <1>0, <2>1
<1>15. CASE \/ Release \/ EditSpec \/ StartPatch \/ ReadImages \/ RefuseImage \/ NextVersion
             \/ PatchAnnounce \/ AbortPatch \/ CatchUp \/ UNCHANGED vars
  <2>1. UNCHANGED <<run, sealed>>
    BY <1>15 DEF Release, EditSpec, StartPatch, ReadImages, RefuseImage, NextVersion,
       PatchAnnounce, AbortPatch, CatchUp, vars, published, registry
  <2>. QED
    BY <1>0, <2>1
<1>. QED
  BY <1>3, <1>4, <1>5, <1>6, <1>7, <1>8, <1>9, <1>10, <1>11, <1>12, <1>13, <1>14, <1>15
  DEF Next, PublishStep, PatchStep

\* The step that ends a run with success is its announce: a killed run's summary is not green.
LEMMA SuccessAnnounces ==
  ASSUME TypeInv, ReportInv, [Next]_vars, Succeeds
  PROVE  Announce
<1>1. /\ run.step = "announce" /\ run'.step = "idle" /\ run \in RunStates
      /\ summary'.announce \in {"nothing", "announced"}
  BY DEF Succeeds, ExitsGreen, TypeInv, TypeOK, JobTypes, RunTypes
<1>2. CASE Kill
  BY <1>1, <1>2 DEF Kill, ReportInv
<1>3. CASE Republish
  <2>1. run'.step = run.step
    BY <1>1, <1>3 DEF Republish, RunStates
  <2>. QED
    BY <1>1, <2>1
<1>4. CASE \/ Release \/ EditSpec \/ StartPatch \/ ReadImages \/ RefuseImage \/ NextVersion
            \/ PatchSweep \/ PatchAnnounce \/ AbortPatch \/ Repair \/ CatchUp \/ UNCHANGED vars
  <2>1. UNCHANGED run
    BY <1>4 DEF Release, EditSpec, StartPatch, ReadImages, RefuseImage, NextVersion, PatchSweep,
       PatchAnnounce, AbortPatch, Repair, CatchUp, vars
  <2>. QED
    BY <1>1, <2>1
<1>5. CASE \/ Plan \/ Test \/ Unresolved \/ BeginVersion \/ Push \/ SkipExisting \/ FailPush
            \/ FailSignature \/ EndVersion \/ WriteSummary \/ Sweep
  BY <1>1, <1>5 DEF Plan, Test, Unresolved, BeginVersion, Push, SkipExisting, FailPush, FailSignature,
     Pushing, EndVersion, WriteSummary, Sweep
<1>. QED
  BY <1>2, <1>3, <1>4, <1>5 DEF Next, PublishStep, PatchStep

\* A publish run that exits with success left every image it reports signed and curated,
\* and every tag it wrote fresh in the index behind a signature, unless a patch moved
\* tags meanwhile (finalize_run: the sweep, then the announce, then the exit code).
THEOREM SuccessCurated == Spec => SuccessIsCurated
<1> DEFINE Curated ==
      Succeeds =>
          /\ \A t \in run.landed : t[1] \in listed' /\ \E i \in signed : i[1] = t[2] /\ i[2][1] = t[1]
          /\ ~run.raced => run.union \subseteq fresh' \cap sealed'
<1>1. Init => ReportInv /\ CuratedInv
  BY NoRunTypes DEF Init, ReportInv, CuratedInv, NoRun, NoSummary
<1>2. TypeInv /\ ReportInv /\ CuratedInv /\ [Next]_vars => ReportInv' /\ CuratedInv'
  BY ReportStep, CuratedStep
<1>3. TypeInv /\ ReportInv /\ CuratedInv /\ [Next]_vars => [Curated]_vars
  <2> SUFFICES ASSUME TypeInv, ReportInv, CuratedInv, [Next]_vars, Succeeds PROVE Curated
    OBVIOUS
  <2>1. Announce /\ run.swept /\ run.step = "announce" /\ run.wrote = {}
    BY SuccessAnnounces DEF Succeeds, ExitsGreen, TypeInv, RunOK
  <2>2. PICK outcome \in Outcomes :
          /\ \/ outcome = "nothing" /\ run.union = {}
             \/ outcome = "announced" /\ Curate(TagsFile(run.union))
             \/ outcome = "failed"
          /\ summary' = [summary EXCEPT !.announce = outcome]
    BY <2>1 DEF Announce
  <2>3. summary'.announce = outcome /\ outcome \in {"nothing", "announced"}
    BY <2>2 DEF Succeeds, ExitsGreen, TypeInv, TypeOK, JobTypes, Summaries
  <2>4. run.union \subseteq listed' /\ run.union \subseteq fresh'
    BY <2>2, <2>3 DEF Curate, Named, TagsFile
  <2>5. UNCHANGED sealed
    BY <2>1 DEF Announce, registry
  <2>. QED
    BY <2>1, <2>4, <2>5 DEF CuratedInv
<1>4. [][Curated]_vars => SuccessIsCurated
  BY DEF SuccessIsCurated
<1>. QED
  BY <1>1, <1>2, <1>3, <1>4, TypeInvHolds, PTL DEF Spec

-----------------------------------------------------------------------------
(* A version that ends whole.                                                 *)

\* A pushed leg is in its version's tag, and while nothing of the version has failed the
\* rolling tag has it too, or something newer.
CascadeInv ==
    run.step = "push" =>
        /\ run.pushed \subseteq Holds(run.version)
        /\ run.failed = {} =>
              \A p \in run.pushed :
                 tags[latest][p][1] >= run.version \/ Blocked(run.version, p)

LEMMA BlockedStays ==
  ASSUME TypeInv, [Next]_vars, NEW v \in Versions, NEW p \in Platforms, Blocked(v, p)
  PROVE  Blocked(v, p)'
<1>1. PICK w \in Versions : w > v /\ tags[w][p] # None
  BY DEF Blocked
<1>2. tags'[w][p] # None
  BY <1>1, VersionTagStep
<1>. QED
  BY <1>1, <1>2 DEF Blocked

\* What a leg that is being pushed does to the rolling tag.
LEMMA LegRolls ==
  ASSUME TypeInv, CascadeInv, [Next]_vars, NEW cascade \in BOOLEAN, Pushing, run.failed = {},
         tags' = Pushed(run.version, Leg, Built, cascade), NEW v \in Versions, v = run.version
  PROVE  /\ \A p \in run.pushed : tags'[latest][p][1] >= v \/ Blocked(v, p)'
         /\ \A p \in Platforms : cascade /\ p = Leg => tags'[latest][p][1] >= v \/ Blocked(v, p)'
<1>1. /\ run.pushed \subseteq Platforms /\ Leg \notin run.pushed /\ Leg \in Platforms
      /\ Built[1] = run.version /\ v \in Nat
  BY LegTypes, Numbers DEF TypeInv, TypeOK, JobTypes, RunTypes, RunStates
<1>2. \A p \in Platforms : Blocked(v, p) => Blocked(v, p)'
  BY BlockedStays
<1>3. \A p \in run.pushed : tags'[latest][p] = tags[latest][p]
  BY <1>1, LegPushed
<1>4. \A p \in run.pushed : tags'[latest][p][1] >= v \/ Blocked(v, p)'
  BY <1>1, <1>2, <1>3 DEF CascadeInv, Pushing
<1>5. cascade => tags'[latest][Leg] = Built \/ Blocked(v, Leg)
  BY <1>1, LegPushed
<1>. QED
  BY <1>1, <1>2, <1>4, <1>5

\* A failed attempt leaves what the run has pushed, and forgets no failure.
LEMMA AttemptFails ==
  ASSUME TypeInv, Retried \/ GivenUp
  PROVE  /\ UNCHANGED <<run.version, run.pushed, run.step>>
         /\ run.failed \subseteq run'.failed
<1>1. run \in RunStates
  BY DEF TypeInv, TypeOK, JobTypes, RunTypes
<1>2. CASE Retried
  BY <1>1, <1>2 DEF Retried, RunStates
<1>3. CASE GivenUp
  BY <1>1, <1>3 DEF GivenUp, RunStates
<1>. QED
  BY <1>2, <1>3

\* The steps before a run pushes, and after it, lead to no push.
LEMMA NotPushing ==
  ASSUME TypeInv, Plan \/ Test \/ Unresolved \/ WriteSummary \/ Sweep \/ Announce \/ Kill
  PROVE  run'.step # "push"
<1>1. run \in RunStates
  BY DEF TypeInv, TypeOK, JobTypes, RunTypes
<1>2. ASSUME run' = NoRun PROVE run'.step # "push"
  BY <1>2 DEF NoRun
<1>3. CASE Plan
  <2>1. run' = Planned
    BY <1>3 DEF Plan
  <2>. QED
    BY <2>1 DEF Planned, NoRun
<1>4. CASE Test
  <2>1. PICK bundles : run' = [run EXCEPT !.step = "version", !.plan = bundles, !.todo = bundles]
    BY <1>4 DEF Test
  <2>. QED
    BY <1>1, <2>1 DEF RunStates
<1>5. CASE WriteSummary \/ Sweep
  BY <1>1, <1>5 DEF WriteSummary, Sweep, RunStates
<1>6. CASE Unresolved \/ Announce \/ Kill
  BY <1>2, <1>6 DEF Unresolved, Announce, Kill
<1>. QED
  BY <1>3, <1>4, <1>5, <1>6

LEMMA CascadeStep ==
  ASSUME TypeInv, CascadeInv, [Next]_vars
  PROVE  CascadeInv'
<1> SUFFICES ASSUME run'.step = "push" PROVE CascadeInv'
  BY DEF CascadeInv
<1>0. /\ run \in RunStates /\ run.version \in Versions => run.version \in Nat
      /\ run.ready \cap run.pushed = {}
  BY Numbers DEF TypeInv, TypeOK, JobTypes, RunTypes
<1>1. CASE BeginVersion
  <2>1. run.pushed = {} /\ run'.pushed = run.pushed
    BY <1>0, <1>1 DEF BeginVersion, RunStates, TypeInv, RunOK
  <2>. QED
    BY <2>1 DEF CascadeInv
<1>2. ASSUME UNCHANGED run.version, run.step = "push",
             \A p \in run'.pushed : p \in run.pushed \/ (p = Leg /\ Pushing /\ tags'[run.version][Leg] # None),
             \A v \in Versions : v = run.version /\ run'.failed = {} =>
                \A p \in run'.pushed : tags'[latest][p][1] >= v \/ Blocked(v, p)'
      PROVE  CascadeInv'
  <2>1. PICK v \in Versions : v = run.version /\ v = run'.version
    BY <1>2 DEF TypeInv, RunOK
  <2>2. Holds(v) \subseteq Holds(v)' /\ run.pushed \subseteq Holds(v)
    BY <1>2, <2>1, HoldsStep DEF CascadeInv
  <2>3. Pushing => Leg \in Platforms
    BY LegTypes
  <2>4. run'.pushed \subseteq Holds(v)'
    BY <1>2, <2>1, <2>2, <2>3 DEF Holds
  <2>5. run'.failed = {} => \A p \in run'.pushed : tags'[latest][p][1] >= v \/ Blocked(v, p)'
    BY <1>2, <2>1
  <2>. QED
    BY <1>2, <2>1, <2>4, <2>5 DEF CascadeInv, Holds, Blocked
<1>3. CASE Push
  <2>1. /\ UNCHANGED <<run.version, run.failed, run.step>> /\ run.step = "push" /\ Pushing
        /\ run'.pushed = run.pushed \cup {Leg}
    BY <1>0, <1>3 DEF Push, Reported, Pushing, RunStates
  <2>2. tags' = Pushed(run.version, Leg, Built, Cascades) /\ Cascades \in BOOLEAN
    BY <1>3 DEF Push, Write, Cascades
  <2>3. tags'[run.version][Leg] # None
    BY <2>1, <2>2, LegTypes, LegPushed, Numbers
  <2>4. ASSUME NEW v \in Versions, v = run.version, run.failed = {}
        PROVE  \A p \in run'.pushed : tags'[latest][p][1] >= v \/ Blocked(v, p)'
    <3>1. Cascades
      BY <2>4 DEF Cascades
    <3>2. Leg \in Platforms
      BY <2>1, LegTypes
    <3>. QED
      BY <2>1, <2>2, <2>4, <3>1, <3>2, LegRolls
  <2>. QED
    BY <1>2, <2>1, <2>3, <2>4
<1>4. CASE FailSignature
  <2>1. /\ UNCHANGED <<run.version, run.pushed, run.step>> /\ run.step = "push" /\ Pushing
        /\ run.failed \subseteq run'.failed
    BY <1>4, AttemptFails DEF FailSignature, Pushing
  <2>2. tags' = Pushed(run.version, Leg, Built, Cascades) /\ Cascades \in BOOLEAN
    BY <1>4 DEF FailSignature, Write, Cascades
  <2>3. ASSUME NEW v \in Versions, v = run.version, run.failed = {}
        PROVE  \A p \in run'.pushed : tags'[latest][p][1] >= v \/ Blocked(v, p)'
    BY <2>1, <2>2, <2>3, LegRolls
  <2>. QED
    BY <1>2, <2>1, <2>3
<1>5. ASSUME UNCHANGED <<run.version, run.pushed, run.step, tags>>, run.failed \subseteq run'.failed
      PROVE  CascadeInv'
  <2>1. ASSUME NEW v \in Versions, v = run.version, run.failed = {}
        PROVE  \A p \in run'.pushed : tags'[latest][p][1] >= v \/ Blocked(v, p)'
    BY <1>5, <2>1 DEF CascadeInv, Blocked
  <2>. QED
    BY <1>2, <1>5, <2>1
<1>6. CASE SkipExisting \/ FailPush
  <2>1. UNCHANGED tags
    BY <1>6 DEF SkipExisting, FailPush, published, registry
  <2>2. CASE SkipExisting
    <3>1. UNCHANGED <<run.version, run.pushed, run.step, run.failed>>
      BY <1>0, <2>2 DEF SkipExisting, RunStates
    <3>. QED
      BY <1>5, <2>1, <3>1
  <2>3. CASE FailPush
    BY <1>5, <2>1, <2>3, AttemptFails DEF FailPush
  <2>. QED
    BY <1>6, <2>2, <2>3
<1>7. CASE Republish
  <2>1. UNCHANGED <<run.version, run.pushed, run.failed, run.step>>
    BY <1>0, <1>7 DEF Republish, RunStates
  <2>2. /\ Target \in Platforms /\ patch.version \in Nat /\ patch.version \in Versions
        /\ Reemitted[1] = patch.version
    BY <1>7, TargetTypes, Numbers DEF Republish
  <2>3. ASSUME NEW v \in Versions, v = run.version, run.failed = {}, NEW p \in run.pushed
        PROVE  tags'[latest][p][1] >= v \/ Blocked(v, p)'
    <3>1. p \in Holds(v) /\ p \in Platforms /\ v \in Nat
      BY <2>1, <2>3, Numbers DEF CascadeInv, Holds
    <3>2. Blocked(v, p) => Blocked(v, p)'
      BY <2>3, <3>1, BlockedStays
    <3>3. CASE p = Target /\ ~Blocked(patch.version, Target)
      <4>1. tags'[latest][p][1] = patch.version
        BY <1>7, <2>2, <3>3, ImagePatched
      <4>2. ~(v > patch.version)
        BY <2>3, <3>1, <3>3 DEF Blocked, Holds
      <4>. QED
        BY <2>2, <3>1, <4>1, <4>2
    <3>4. CASE p # Target \/ Blocked(patch.version, Target)
      <4>1. tags'[latest][p] = tags[latest][p]
        BY <1>7, <3>1, <3>4, ImagePatched
      <4>. QED
        BY <2>1, <2>3, <3>2, <4>1 DEF CascadeInv
    <3>. QED
      BY <3>3, <3>4
  <2>. QED
    BY <1>2, <2>1, <2>3
<1>8. CASE Repair
  BY <1>8 DEF Repair
<1>9. CASE \/ Plan \/ Test \/ Unresolved \/ EndVersion \/ WriteSummary \/ Sweep \/ Announce \/ Kill
  <2>1. CASE EndVersion
    BY <2>1, VersionEnds
  <2>. QED
    BY <1>9, <2>1, NotPushing
<1>10. CASE \/ Release \/ EditSpec \/ StartPatch \/ ReadImages \/ RefuseImage \/ NextVersion
             \/ PatchSweep \/ PatchAnnounce \/ AbortPatch \/ CatchUp \/ UNCHANGED vars
  <2>1. UNCHANGED <<run, tags>>
    BY <1>10 DEF Release, EditSpec, StartPatch, ReadImages, RefuseImage, NextVersion,
       PatchSweep, PatchAnnounce, AbortPatch, CatchUp, vars, published, registry
  <2>. QED
    BY <1>5, <2>1
<1>. QED
  BY <1>1, <1>3, <1>4, <1>6, <1>7, <1>8, <1>9, <1>10 DEF Next, PublishStep, PatchStep

\* A version ends only by the step that cascades what earlier runs left of it.
LEMMA VersionEndStep ==
  ASSUME TypeInv, CascadeInv, [Next]_vars, run.step = "push", run'.step = "version",
         run.version \notin run'.stranded, NEW p \in Holds(run.version)
  PROVE  tags'[latest][p][1] >= run.version \/ Blocked(run.version, p)
<1>0. /\ run \in RunStates /\ run.version \in Versions /\ run.version \in Nat /\ p \in Platforms
  BY Numbers DEF TypeInv, TypeOK, JobTypes, RunTypes, RunOK, Holds
<1>1. EndVersion
  <2>1. ~(Push \/ SkipExisting \/ FailPush \/ FailSignature)
    <3>1. Push \/ SkipExisting => run'.step = run.step
      BY <1>0 DEF Push, Reported, SkipExisting, RunStates
    <3>2. FailPush \/ FailSignature => run'.step = run.step
      BY AttemptFails DEF FailPush, FailSignature
    <3>. QED
      BY <3>1, <3>2
  <2>2. ~(Plan \/ Test \/ Unresolved \/ BeginVersion \/ WriteSummary \/ Sweep \/ Announce \/ Kill)
    <3>1. Kill => run'.step = "idle"
      BY NoRunTypes DEF Kill
    <3>. QED
      BY <3>1 DEF Plan, Test, Unresolved, BeginVersion, WriteSummary, Sweep, Announce
  <2>3. ~Republish
    BY <1>0 DEF Republish, RunStates
  <2>4. ~(\/ Release \/ EditSpec \/ StartPatch \/ ReadImages \/ RefuseImage \/ NextVersion
          \/ PatchSweep \/ PatchAnnounce \/ AbortPatch \/ Repair \/ CatchUp \/ UNCHANGED vars)
    BY DEF Release, EditSpec, StartPatch, ReadImages, RefuseImage, NextVersion,
       PatchSweep, PatchAnnounce, AbortPatch, Repair, CatchUp, vars
  <2>. QED
    BY <2>1, <2>2, <2>3, <2>4 DEF Next, PublishStep, PatchStep
<1>2. PICK lost \in SUBSET Awaiting :
        /\ tags' = Recascaded({q \in Awaiting \ lost : ~Blocked(run.version, q)})
        /\ lost = {} /\ run.failed = {} /\ run.pushed # {}
  BY <1>1, VersionEnds
<1> DEFINE moved == {q \in Awaiting \ lost : ~Blocked(run.version, q)}
<1>3. /\ moved \in SUBSET Platforms /\ moved \subseteq Holds(run.version)
      /\ p \in run.pushed \/ p \in moved \/ Blocked(run.version, p)
      /\ p \in run.pushed => p \notin moved
  BY <1>2 DEF Awaiting, Holds
<1>4. TagsOK(tags)
  BY DEF TypeInv, TypeOK, RegistryTypes, TagTypes, TagsOK
<1>. HIDE DEF moved
<1>5. tags'[latest][p] = IF p \in moved THEN tags[run.version][p] ELSE tags[latest][p]
  BY <1>0, <1>2, <1>3, <1>4, RecascadedTags DEF moved
<1>6. tags[run.version][p][1] = run.version
  BY <1>0, VersionImage
<1>. QED
  BY <1>0, <1>2, <1>3, <1>5, <1>6 DEF CascadeInv

\* A version that a publish run ends with nothing failed is rolled onto by `latest` for
\* every platform that no newer version holds, the platforms of earlier runs included
\* (push.rs: entries_awaiting_cascade), whatever a patch republishes meanwhile.
THEOREM WholeVersionRolled == Spec => WholeVersionRolls
<1> DEFINE Rolled ==
      run.step = "push" /\ run'.step = "version" /\ run.version \notin run'.stranded =>
          \A p \in Holds(run.version) :
             tags'[latest][p][1] >= run.version \/ Blocked(run.version, p)
<1>1. Init => CascadeInv
  BY NoRunTypes DEF Init, CascadeInv, NoRun
<1>2. TypeInv /\ CascadeInv /\ [Next]_vars => CascadeInv'
  BY CascadeStep
<1>3. TypeInv /\ CascadeInv /\ [Next]_vars => [Rolled]_vars
  BY VersionEndStep
<1>4. [][Rolled]_vars => WholeVersionRolls
  BY DEF WholeVersionRolls
<1>. QED
  BY <1>1, <1>2, <1>3, <1>4, TypeInvHolds, PTL DEF Spec

-----------------------------------------------------------------------------
(* A patch that ends without a failure.                                       *)

\* Of the versions a patch has touched, and of the one it is at, every image is at its
\* revision or still to be done; once swept, their indexes are signed.
WholePatch ==
    /\ patch.step = "idle" => patch.patched = {}
    /\ patch.ok /\ ~patch.raced =>
        /\ \A v \in Versions : \A p \in Holds(v) :
              v \in patch.patched \/ (patch.step = "image" /\ v = patch.version) =>
                 \/ tags[v][p][2] = patch.revision
                 \/ patch.step = "image" /\ v = patch.version /\ p \in patch.images
        /\ patch.step = "announce" => patch.patched \subseteq sealed

LEMMA WholePatchStep ==
  ASSUME TypeInv, WholePatch, [Next]_vars
  PROVE  WholePatch'
<1> USE DEF WholePatch
<1>0. patch \in PatchStates /\ TagsOK(tags) /\ Versions \subseteq Tags
  BY DEF TypeInv, TypeOK, JobTypes, RegistryTypes, TagTypes, TagsOK, Tags
<1>1. ASSUME UNCHANGED patch, \A v \in Versions : tags'[v] = tags[v],
             \A v \in Versions : v \in sealed => v \in sealed'
      PROVE  WholePatch'
  <2>1. \A v \in Versions : Holds(v)' = Holds(v)
    BY <1>1 DEF Holds
  <2>2. patch.patched \subseteq Versions
    BY <1>0 DEF PatchStates
  <2>. QED
    BY <1>1, <2>1, <2>2
<1>2. ASSUME patch' = NoPatch PROVE WholePatch'
  BY <1>2 DEF NoPatch
<1>3. ASSUME patch' = Raced PROVE WholePatch'
  <2>1. UNCHANGED <<patch.step, patch.patched>> /\ (patch.step # "idle" => patch'.raced)
    BY <1>0, <1>3 DEF Raced, PatchStates
  <2>. QED
    BY <2>1
<1>4. CASE Republish
  <2>1. /\ patch'.step = "image" /\ patch'.version = patch.version
        /\ patch'.images = patch.images \ {Target} /\ patch'.patched = patch.patched \cup {patch.version}
        /\ UNCHANGED <<patch.ok, patch.raced, patch.revision>> /\ patch.step = "image"
    BY <1>0, <1>4 DEF Republish, PatchStates
  <2>2. /\ Target \in Platforms /\ patch.version \in Versions
        /\ tags'[patch.version][Target][2] = patch.revision
    <3>1. Reemitted[2] = patch.revision
      BY DEF Reemitted
    <3>. QED
      BY <1>4, <3>1, TargetTypes, ImagePatched DEF Republish
  <2>3. ASSUME NEW v \in Versions, NEW p \in Platforms, ~(v = patch.version /\ p = Target)
        PROVE  tags'[v][p] = tags[v][p]
    BY <1>4, <2>3, ImagePatched
  <2>. QED
    BY <2>1, <2>2, <2>3 DEF Holds
<1>5. CASE ReadImages
  <2>1. /\ patch'.step = "image" /\ patch'.images = Drifted(patch'.version, patch.revision)
        /\ UNCHANGED <<patch.ok, patch.raced, patch.revision, patch.patched, tags>>
        /\ patch.step = "version"
    BY <1>0, <1>5 DEF ReadImages, PatchStates, published, registry
  <2>2. \A v \in Versions : Holds(v)' = Holds(v)
    BY <2>1 DEF Holds
  <2>3. \A v \in Versions : \A p \in Holds(v) : tags[v][p][2] = patch.revision \/ p \in Drifted(v, patch.revision)
    BY DEF Drifted, fetch_published_metadata, index_children
  <2>. QED
    BY <2>1, <2>2, <2>3
<1>6. CASE NextVersion
  <2>1. /\ patch'.step \in {"version", "sweep"} /\ patch.step = "image" /\ patch.images = {}
        /\ UNCHANGED <<patch.ok, patch.raced, patch.revision, patch.patched, tags>>
    BY <1>0, <1>6 DEF NextVersion, PatchStates, published, registry
  <2>2. \A v \in Versions : Holds(v)' = Holds(v)
    BY <2>1 DEF Holds
  <2>. QED
    BY <2>1, <2>2
<1>7. CASE PatchSweep
  <2>1. /\ patch.step = "sweep" /\ UNCHANGED <<patch.raced, patch.revision, patch.patched, tags>>
        /\ patch'.step = "announce" /\ (patch'.ok => patch.ok /\ Seal(LeafTags))
    BY <1>0, <1>7 DEF PatchSweep, PatchStates
  <2>2. patch'.ok => patch.patched \subseteq sealed'
    BY <1>0, <2>1 DEF Seal, LeafTags, PatchStates
  <2>3. \A v \in Versions : Holds(v)' = Holds(v)
    BY <2>1 DEF Holds
  <2>. QED
    BY <2>1, <2>2, <2>3
<1>8. CASE RefuseImage
  BY <1>0, <1>8 DEF RefuseImage, PatchStates
<1>9. CASE StartPatch
  <2>1. PICK chosen : patch' = [NoPatch EXCEPT !.step = "version", !.revision = revision, !.todo = chosen]
    BY <1>9 DEF StartPatch
  <2>. QED
    BY <2>1 DEF NoPatch
<1>10. CASE PatchAnnounce \/ AbortPatch
  BY <1>2, <1>10 DEF PatchAnnounce, AbortPatch
<1>11. CASE Push \/ FailSignature \/ Kill
  BY <1>1, <1>3, <1>11 DEF Push, FailSignature, Kill
<1>12. CASE EndVersion
  <2>1. PICK lost \in SUBSET Awaiting :
          /\ tags' = Recascaded({p \in Awaiting \ lost : ~Blocked(run.version, p)})
          /\ \A t \in Tags : t \in sealed /\ tags'[t] = tags[t] => t \in sealed'
    BY <1>12, VersionEnds
  <2> DEFINE moved == {p \in Awaiting \ lost : ~Blocked(run.version, p)}
  <2>2. moved \in SUBSET Platforms /\ moved \subseteq Holds(run.version) /\ run.version \in Versions
    BY <1>12 DEF EndVersion, Awaiting, Holds, TypeInv, RunOK
  <2>. HIDE DEF moved
  <2>3. \A v \in Versions : tags'[v] = tags[v]
    BY <1>0, <2>1, <2>2, RecascadedTags DEF moved
  <2>4. UNCHANGED patch
    BY <1>12 DEF EndVersion
  <2>. QED
    BY <1>0, <1>1, <2>1, <2>3, <2>4
<1>13. CASE Repair
  <2>1. /\ tags' = Repaired /\ sealed' = {t \in Tags : \E u \in sealed : tags[u] = Repaired[t]}
        /\ UNCHANGED patch
    BY <1>13 DEF Repair
  <2>2. \A v \in Versions : tags'[v] = tags[v]
    BY <1>0, <2>1, RepairedTags
  <2>. QED
    BY <1>0, <1>1, <2>1, <2>2
<1>14. CASE Sweep
  <2>1. sealed \subseteq sealed' /\ UNCHANGED <<patch, tags>>
    BY <1>14 DEF Sweep, Seal
  <2>. QED
    BY <1>1, <2>1
<1>15. CASE \/ Release \/ EditSpec \/ Plan \/ Test \/ Unresolved \/ BeginVersion \/ SkipExisting
             \/ FailPush \/ WriteSummary \/ Announce \/ CatchUp \/ UNCHANGED vars
  <2>1. UNCHANGED <<patch, tags, sealed>>
    BY <1>15 DEF Release, EditSpec, Plan, Test, Unresolved, BeginVersion, SkipExisting,
       FailPush, WriteSummary, Announce, CatchUp, vars, published, registry
  <2>. QED
    BY <1>1, <2>1
<1>. QED
  BY <1>4, <1>5, <1>6, <1>7, <1>8, <1>9, <1>10, <1>11, <1>12, <1>13, <1>14, <1>15
  DEF Next, PublishStep, PatchStep

\* A patch whose exit is green left every image of the versions it touched at its revision
\* and their indexes signed, whatever the repair and other runs did beside it, unless a
\* publish run pushed meanwhile (patch.rs: one refusal or failed push makes it red).
THEOREM PatchWhole == Spec => PatchIsWhole
<1> DEFINE Whole ==
      PatchExitsGreen /\ ~patch.raced =>
          \A v \in patch.patched :
             v \in sealed /\ \A p \in Holds(v) : tags[v][p][2] = patch.revision
<1>1. Init => WholePatch
  BY DEF Init, WholePatch, NoPatch
<1>2. TypeInv /\ WholePatch /\ [Next]_vars => WholePatch'
  BY WholePatchStep
<1>3. TypeInv /\ WholePatch /\ [Next]_vars => [Whole]_vars
  <2> SUFFICES ASSUME TypeInv, WholePatch, PatchExitsGreen, ~patch.raced PROVE Whole
    OBVIOUS
  <2>1. patch.patched \subseteq Versions /\ patch.step = "announce" /\ patch.ok
    BY DEF PatchExitsGreen, TypeInv, TypeOK, JobTypes, PatchStates
  <2>. QED
    BY <2>1 DEF WholePatch
<1>4. [][Whole]_vars => PatchIsWhole
  BY DEF PatchIsWhole
<1>. QED
  BY <1>1, <1>2, <1>3, <1>4, TypeInvHolds, PTL DEF Spec
=============================================================================
