-------------------------- MODULE CopyEngineProofs --------------------------
(* Theorems about CopyEngine, for all graphs of manifests, plans, pools and    *)
(* fan-outs, failures, dropped calls and aborted runs: nothing at a            *)
(* destination dangles, what a run remembers of a blob is so, and what was     *)
(* reported copied is signed.                                                  *)
EXTENDS CopyEngine, FiniteSetTheorems, WellFoundedInduction, SequenceTheorems, TLAPS

-----------------------------------------------------------------------------
(* Minima of sets of naturals.                                               *)

\* A family of finite sets has a member of which no other is a strict subset.
LEMMA MinimalSet ==
  ASSUME NEW T, T # {}, \A X \in T : IsFiniteSet(X)
  PROVE  \E X \in T : \A Y \in T : Y \subseteq X => Y = X
<1>1. T \subseteq FiniteSubsetsOf(UNION T)
  BY DEF FiniteSubsetsOf
<1>2. PICK X \in T : \A Y \in T : ~(<<Y, X>> \in StrictSubsetOrdering(UNION T))
  BY <1>1, FS_StrictSubsetOrderingWellFounded, WFMin
<1>3. ASSUME NEW Y \in T, Y \subseteq X, Y # X PROVE FALSE
  <2>1. <<Y, X>> \in (SUBSET UNION T) \X (SUBSET UNION T)
    OBVIOUS
  <2> QED
    BY <1>2, <1>3, <2>1 DEF StrictSubsetOrdering
<1> QED
  BY <1>3

\* Min(S) is a member of S and no greater than the others: of the intervals that end at a
\* member, one has no strict subset among them.
LEMMA SmallestOf ==
  ASSUME NEW S \in SUBSET Nat, S # {}
  PROVE  Min(S) \in S /\ \A x \in S : Min(S) <= x
<1> DEFINE Down(x) == 0..x
           Downs == {Down(x) : x \in S}
<1>1. \A x \in S : IsFiniteSet(Down(x))
  BY FS_Interval
<1>2. \A x, m \in S : x < m => Down(x) \subseteq Down(m) /\ Down(x) # Down(m)
  OBVIOUS
<1> HIDE DEF Down
<1>3. \E X \in Downs : \A Y \in Downs : Y \subseteq X => Y = X
  <2>1. Downs # {} /\ \A X \in Downs : IsFiniteSet(X)
    BY <1>1
  <2> HIDE DEF Downs
  <2> QED
    BY <2>1, MinimalSet
<1>4. PICK m \in S : \A x \in S : m <= x
  BY <1>2, <1>3
<1> QED
  BY <1>4 DEF Min

-----------------------------------------------------------------------------
(* Paths.                                                                     *)

\* The call at `q` was made, directly or not, by the call at `p`.
Under(p, q) == Len(p) < Len(q) /\ \A i \in 1..Len(p) : q[i] = p[i]

Paths == Seq(Links) \ {<<>>}

LEMMA PathLast ==
    ASSUME NEW path \in Paths
    PROVE  Len(path) \in Nat \ {0} /\ Last(path) \in Links /\ Content(path) \in Manifests
<1>1. Len(path) \in Nat \ {0}
  BY EmptySeq DEF Paths
<1>2. path[Len(path)] \in Links
  BY <1>1, ElementOfSeq DEF Paths
<1> QED
  BY <1>1, <1>2 DEF Last, Content, Links

LEMMA LinkEqual ==
    ASSUME NEW a \in Links, NEW b \in Links, a.as = b.as, a.pos = b.pos, a.content = b.content
    PROVE  a = b
  BY DEF Links

LEMMA PathAppend ==
    ASSUME NEW path \in Paths, NEW link \in Links
    PROVE  /\ Append(path, link) \in Paths
           /\ Len(Append(path, link)) = Len(path) + 1
           /\ Last(Append(path, link)) = link
           /\ \A i \in 1..Len(path) : Append(path, link)[i] = path[i]
           /\ Append(path, link)[Len(path) + 1] = link
<1>1. path \in Seq(Links) /\ Len(path) \in Nat
  BY LenProperties DEF Paths
<1>2. Append(path, link) \in Seq(Links) /\ Len(Append(path, link)) = Len(path) + 1
  BY <1>1
<1>3. Append(path, link) # <<>>
  BY <1>1, <1>2, EmptySeq
<1>4. Append(path, link)[Len(path) + 1] = link
  BY <1>1
<1>5. \A i \in 1..Len(path) : Append(path, link)[i] = path[i]
  BY <1>1
<1> QED
  BY <1>2, <1>3, <1>4, <1>5 DEF Last, Paths

\* The first `n` links of a path.
LEMMA PathPrefix ==
    ASSUME NEW path \in Seq(Links), NEW n \in 1..Len(path)
    PROVE  /\ SubSeq(path, 1, n) \in Paths
           /\ Len(SubSeq(path, 1, n)) = n
           /\ \A i \in 1..n : SubSeq(path, 1, n)[i] = path[i]
<1>1. Len(path) \in Nat /\ n \in Int /\ n \in Nat /\ 1 <= n
  BY LenProperties
<1>2. \A i \in 1..n : path[i] \in Links
  BY <1>1, ElementOfSeq
<1>3. /\ SubSeq(path, 1, n) \in Seq(Links)
      /\ Len(SubSeq(path, 1, n)) = IF 1 <= n THEN n - 1 + 1 ELSE 0
      /\ \A i \in 1 .. n - 1 + 1 : SubSeq(path, 1, n)[i] = path[1 + i - 1]
  BY <1>1, <1>2, SubSeqProperties
<1>4. Len(SubSeq(path, 1, n)) = n /\ n - 1 + 1 = n
  BY <1>1, <1>3
<1>5. \A i \in 1..n : 1 + i - 1 = i
  OBVIOUS
<1>6. SubSeq(path, 1, n) # <<>>
  BY <1>1, <1>4, EmptySeq
<1> QED
  BY <1>3, <1>4, <1>5, <1>6 DEF Paths

\* Two paths of one length that agree link by link are one.
LEMMA PathEqual ==
    ASSUME NEW p \in Seq(Links), NEW q \in Seq(Links), Len(p) = Len(q),
           \A i \in 1..Len(p) : p[i] = q[i]
    PROVE  p = q
  BY SeqEqual

LEMMA PrefixIsUnder ==
    ASSUME NEW p \in Paths, NEW q \in Paths
    PROVE  /\ IsStrictPrefix(p, q) <=> Under(p, q)
           /\ IsPrefix(p, q) <=> (p = q \/ Under(p, q))
<1>1. p \in Seq(Links) /\ q \in Seq(Links) /\ Len(p) \in Nat \ {0} /\ Len(q) \in Nat \ {0}
  BY PathLast DEF Paths
<1>2. SubSeq(p, 1, Len(p)) = p
  BY <1>1, SubSeqFull
<1>3. CASE Len(p) > Len(q)
  <2>1. ~IsPrefix(p, q) /\ ~Under(p, q) /\ p # q
    BY <1>1, <1>3 DEF IsPrefix, Under
  <2> QED
    BY <2>1 DEF IsStrictPrefix
<1>4. CASE Len(p) <= Len(q)
  <2> DEFINE s == SubSeq(q, 1, Len(p))
  <2>1. /\ s \in Paths /\ Len(s) = Len(p)
        /\ \A i \in 1..Len(p) : s[i] = q[i]
    <3>1. Len(p) \in 1..Len(q)
      BY <1>1, <1>4
    <3> QED
      BY <1>1, <3>1, PathPrefix
  <2>2. IsPrefix(p, q) <=> p = s
    BY <1>2, <1>4 DEF IsPrefix
  <2> HIDE DEF s
  <2>3. p = s <=> \A i \in 1..Len(p) : q[i] = p[i]
    BY <1>1, <2>1, PathEqual DEF Paths
  <2>4. (Len(p) = Len(q) /\ \A i \in 1..Len(p) : q[i] = p[i]) => p = q
    BY <1>1, PathEqual
  <2>5. (p = q) => \A i \in 1..Len(p) : q[i] = p[i]
    OBVIOUS
  <2>6. IsPrefix(p, q) <=> \A i \in 1..Len(p) : q[i] = p[i]
    BY <2>2, <2>3
  <2>7. IsPrefix(p, q) <=> (p = q \/ Under(p, q))
    BY <1>1, <1>4, <2>4, <2>5, <2>6 DEF Under
  <2>8. Under(p, q) => p # q
    BY <1>1 DEF Under
  <2> QED
    BY <2>7, <2>8 DEF IsStrictPrefix
<1> QED
  BY <1>1, <1>3, <1>4

-----------------------------------------------------------------------------
(* The calls of one walk, `tree`, into a repository that holds the manifests  *)
(* `hm` and the blobs `hb`.                                                   *)

Pushed == {"referrers", "sidecars", "done"}

\* What a call has placed where it stands.
StateOK(path, call, hm, hb) ==
    /\ call \in Calls
    /\ call.pc = "fetch" => call.head = 1 /\ call.next = 1
    /\ call.pc = "parts" =>
         /\ call.head <= call.next /\ call.next <= Len(Children[Content(path)]) + 1
         /\ \A i \in 1..(call.head - 1) : Children[Content(path)][i] \in hm
         /\ \A b \in Layers[Content(path)] : call.blob[b] = "none" => b \in hb
    /\ call.pc = "sidecars" => call.head = 1
    /\ call.pc \in Pushed => Content(path) \in hm

\* What a call waits for, when there is a call below it reached by `link`.
LinkOK(path, call, link) ==
    \/ /\ call.pc = "parts" /\ link.as = "child"
       /\ call.head <= link.pos /\ link.pos < call.next
       /\ link.content = Children[Content(path)][link.pos]
    \/ /\ call.pc = "referrers" /\ link.as = "referrer"
       /\ link.pos = call.head /\ call.head <= Len(Referrers[Content(path)])
       /\ link.content = Referrers[Content(path)][call.head]
    \/ /\ call.pc = "sidecars" /\ link.as = "sidecar" /\ link.pos = 1
       /\ link.content = SourceSidecar(Content(path))

TreeOK(tree, hm, hb) ==
    /\ DOMAIN tree \subseteq Paths
    /\ \A q \in DOMAIN tree : \A n \in 1..Len(q) : SubSeq(q, 1, n) \in DOMAIN tree
    /\ \A q \in DOMAIN tree : StateOK(q, tree[q], hm, hb)
    /\ \A p, q \in DOMAIN tree : Under(p, q) => LinkOK(p, tree[p], q[Len(p) + 1])

\* More held at the destination leaves a walk as it is.
LEMMA TreeGrows ==
    ASSUME NEW tree, NEW hm, NEW hb, NEW hm2, NEW hb2, TreeOK(tree, hm, hb),
           hm \subseteq hm2, hb \subseteq hb2
    PROVE  TreeOK(tree, hm2, hb2)
<1>1. \A q \in DOMAIN tree : StateOK(q, tree[q], hm2, hb2)
  BY DEF TreeOK, StateOK
<1> QED
  BY <1>1 DEF TreeOK

\* The call at `path` becomes `call`, and every call below it is dropped.
LEMMA TreeCut ==
    ASSUME NEW tree, NEW hm, NEW hb, TreeOK(tree, hm, hb), NEW path \in DOMAIN tree,
           NEW call, StateOK(path, call, hm, hb), NEW tree2,
           DOMAIN tree2 = {q \in DOMAIN tree : ~Under(path, q)},
           \A q \in DOMAIN tree2 : tree2[q] = IF q = path THEN call ELSE tree[q]
    PROVE  TreeOK(tree2, hm, hb)
<1>1. DOMAIN tree2 \subseteq Paths
  BY DEF TreeOK
<1>2. \A q \in DOMAIN tree2 : StateOK(q, tree2[q], hm, hb)
  BY DEF TreeOK
<1>3. ASSUME NEW q \in DOMAIN tree2, NEW n \in 1..Len(q)
      PROVE  SubSeq(q, 1, n) \in DOMAIN tree2
  <2> DEFINE s == SubSeq(q, 1, n)
  <2>1. s \in DOMAIN tree
    BY DEF TreeOK
  <2>2. q \in Paths /\ path \in Paths /\ Len(q) \in Nat \ {0} /\ Len(path) \in Nat \ {0}
    BY PathLast DEF TreeOK
  <2>3. Len(s) = n /\ \A i \in 1..n : s[i] = q[i]
    BY <2>2, PathPrefix DEF Paths
  <2> HIDE DEF s
  <2>4. Under(path, s) => Under(path, q)
    BY <2>2, <2>3 DEF Under
  <2>5. ~Under(path, s)
    BY <2>4
  <2> QED
    BY <2>1, <2>5 DEF s
<1>4. ASSUME NEW p \in DOMAIN tree2, NEW q \in DOMAIN tree2, Under(p, q)
      PROVE  LinkOK(p, tree2[p], q[Len(p) + 1])
  <2>1. p # path
    BY <1>4
  <2> QED
    BY <2>1, <1>4 DEF TreeOK
<1> QED
  BY <1>1, <1>2, <1>3, <1>4 DEF TreeOK

\* The call at `path` becomes `call`, which suits the calls below it.
LEMMA TreeStep ==
    ASSUME NEW tree, NEW hm, NEW hb, TreeOK(tree, hm, hb), NEW path \in DOMAIN tree,
           NEW call, StateOK(path, call, hm, hb), NEW tree2,
           \A q \in DOMAIN tree : Under(path, q) => LinkOK(path, call, q[Len(path) + 1]),
           DOMAIN tree2 = DOMAIN tree,
           \A q \in DOMAIN tree2 : tree2[q] = IF q = path THEN call ELSE tree[q]
    PROVE  TreeOK(tree2, hm, hb)
<1>1. DOMAIN tree2 \subseteq Paths
      /\ \A q \in DOMAIN tree2 : \A n \in 1..Len(q) : SubSeq(q, 1, n) \in DOMAIN tree2
  BY DEF TreeOK
<1>2. \A q \in DOMAIN tree2 : StateOK(q, tree2[q], hm, hb)
  BY DEF TreeOK
<1>3. ASSUME NEW p \in DOMAIN tree2, NEW q \in DOMAIN tree2, Under(p, q)
      PROVE  LinkOK(p, tree2[p], q[Len(p) + 1])
  BY <1>3 DEF TreeOK
<1> QED
  BY <1>1, <1>2, <1>3 DEF TreeOK

\* The call at `path` becomes `call` and calls one further level down.
LEMMA TreeBelow ==
    ASSUME NEW tree, NEW hm, NEW hb, TreeOK(tree, hm, hb), NEW path \in DOMAIN tree,
           NEW call, StateOK(path, call, hm, hb), NEW tree2, NEW link \in Links,
           \A q \in DOMAIN tree : Under(path, q) => LinkOK(path, call, q[Len(path) + 1]),
           LinkOK(path, call, link), Append(path, link) \notin DOMAIN tree,
           DOMAIN tree2 = DOMAIN tree \cup {Append(path, link)},
           \A q \in DOMAIN tree2 : tree2[q] =
               IF q = path THEN call ELSE IF q \in DOMAIN tree THEN tree[q] ELSE Entered
    PROVE  TreeOK(tree2, hm, hb)
<1> DEFINE new == Append(path, link)
<1>0. path \in Paths /\ Len(path) \in Nat \ {0} /\ path \in Seq(Links)
  BY PathLast DEF TreeOK, Paths
<1>N. /\ new \in Paths /\ new \in Seq(Links) /\ Len(new) = Len(path) + 1
      /\ \A i \in 1..Len(path) : new[i] = path[i]
      /\ new[Len(path) + 1] = link
  BY <1>0, PathAppend DEF Paths
<1>1. DOMAIN tree2 \subseteq Paths
  BY <1>N DEF TreeOK
<1>E. \A q \in {new} : StateOK(q, Entered, hm, hb)
  BY DEF StateOK, Entered, Calls, Phases, Stages, NoBlobs, Pushed
<1>2. \A q \in DOMAIN tree2 : StateOK(q, tree2[q], hm, hb)
  BY <1>E DEF TreeOK
<1>P. ASSUME NEW q \in Paths, Under(q, new)
      PROVE  q = path \/ Under(q, path)
  <2>1. Len(q) \in Nat /\ Len(q) <= Len(path) /\ q \in Seq(Links)
    BY <1>P, <1>0, <1>N, PathLast DEF Under, Paths
  <2>2. \A i \in 1..Len(q) : q[i] = path[i]
    BY <1>P, <1>0, <1>N, <2>1 DEF Under
  <2>3. CASE Len(q) = Len(path)
    BY <2>1, <2>2, <2>3, <1>0, PathEqual
  <2>4. CASE Len(q) < Len(path)
    BY <2>2, <2>4 DEF Under
  <2> QED
    BY <1>0, <2>1, <2>3, <2>4
<1>3. ASSUME NEW q \in DOMAIN tree2, NEW n \in 1..Len(q)
      PROVE  SubSeq(q, 1, n) \in DOMAIN tree2
  <2>1. CASE q \in DOMAIN tree
    BY <2>1 DEF TreeOK
  <2>2. CASE q = new
    <3> DEFINE s == SubSeq(new, 1, n)
    <3>0. n \in 1..Len(new)
      BY <2>2
    <3>1. s \in Paths /\ Len(s) = n /\ \A i \in 1..n : s[i] = new[i]
      BY <1>N, <3>0, PathPrefix
    <3>2. CASE n = Len(new)
      <4>1. s = new
        BY <3>2, <1>N, SubSeqFull
      <4> QED
        BY <4>1, <2>2
    <3>3. CASE n < Len(new)
      <4>1. n \in 1..Len(path)
        BY <3>3, <1>0, <1>N
      <4>2. SubSeq(path, 1, n) \in DOMAIN tree
        BY <4>1 DEF TreeOK
      <4>3. /\ SubSeq(path, 1, n) \in Paths /\ Len(SubSeq(path, 1, n)) = n
            /\ \A i \in 1..n : SubSeq(path, 1, n)[i] = path[i]
        BY <1>0, <4>1, PathPrefix
      <4>4. s = SubSeq(path, 1, n)
        <5> DEFINE t == SubSeq(path, 1, n)
        <5>1. s \in Seq(Links) /\ t \in Seq(Links) /\ Len(s) = Len(t)
          BY <3>1, <4>3 DEF Paths
        <5>2. \A i \in 1..n : i \in 1..Len(path)
          BY <1>0, <4>1
        <5>3. \A i \in 1..n : s[i] = t[i]
          BY <3>1, <4>3, <5>2, <1>N
        <5>4. Len(s) = n
          BY <3>1
        <5> HIDE DEF s, t
        <5> QED
          BY <5>1, <5>3, <5>4, PathEqual DEF t
      <4> QED
        BY <4>2, <4>4, <2>2
    <3>4. n <= Len(new) /\ n \in Nat /\ Len(new) \in Nat
      BY <3>0, <1>0, <1>N
    <3> QED
      BY <3>2, <3>3, <3>4
  <2> QED
    BY <2>1, <2>2
<1>4. ASSUME NEW p \in DOMAIN tree2, NEW q \in DOMAIN tree2, Under(p, q)
      PROVE  LinkOK(p, tree2[p], q[Len(p) + 1])
  <2>0. p \in Paths /\ Len(p) \in Nat \ {0}
    BY <1>1, PathLast
  <2>1. CASE p \in DOMAIN tree /\ q \in DOMAIN tree
    BY <2>1, <1>4 DEF TreeOK
  <2>2. CASE p \in DOMAIN tree /\ q = new
    <3>1. CASE p = path
      BY <3>1, <2>2, <1>N
    <3>2. CASE p # path
      <4>1. Under(p, path)
        BY <3>2, <2>2, <2>0, <1>4, <1>P
      <4>2. Len(p) + 1 \in 1..Len(path)
        BY <4>1, <2>0, <1>0 DEF Under
      <4>3. new[Len(p) + 1] = path[Len(p) + 1]
        BY <4>2, <1>N
      <4>4. LinkOK(p, tree[p], path[Len(p) + 1])
        BY <4>1, <2>2 DEF TreeOK
      <4> HIDE DEF new
      <4> QED
        BY <4>3, <4>4, <3>2, <2>2
    <3> QED
      BY <3>1, <3>2
  <2>3. CASE p = new
    <3> SUFFICES ASSUME q # new PROVE FALSE
      BY <2>3, <1>4, <1>0, <1>N DEF Under
    <3>1. q \in DOMAIN tree /\ q \in Paths /\ Len(q) \in Nat /\ Len(new) < Len(q)
      BY <1>1, <2>3, <1>4, PathLast DEF Under
    <3>2. Len(path) + 1 \in 1..Len(q)
      BY <3>1, <1>0, <1>N
    <3>3. SubSeq(q, 1, Len(path) + 1) \in DOMAIN tree
      BY <3>1, <3>2 DEF TreeOK
    <3> DEFINE s == SubSeq(q, 1, Len(path) + 1)
    <3>4. s \in Seq(Links) /\ Len(s) = Len(new) /\ \A i \in 1..Len(new) : s[i] = q[i]
      BY <3>1, <3>2, <1>N, PathPrefix DEF Paths
    <3>5. \A i \in 1..Len(new) : q[i] = new[i]
      BY <2>3, <1>4 DEF Under
    <3> HIDE DEF s, new
    <3>6. \A i \in 1..Len(s) : s[i] = new[i]
      BY <3>4, <3>5
    <3>7. s = new
      BY <3>4, <3>6, <1>N, PathEqual
    <3> QED
      BY <3>3, <3>7 DEF s, new
  <2> QED
    BY <2>1, <2>2, <2>3
<1> QED
  BY <1>1, <1>2, <1>3, <1>4 DEF TreeOK

\* The callees of `path` for the child it waits for.
Awaited(tree, path) ==
    {q \in DOMAIN tree : Len(q) = Len(path) + 1 /\ IsPrefix(path, q)
                              /\ Last(q).as = "child" /\ Last(q).pos = tree[path].head}

\* `after` is `before`, waiting for the next child.
Advanced(before, after) ==
    after.pc = before.pc /\ after.head = before.head + 1 /\ after.next = before.next
    /\ after.blob = before.blob

\* They are taken, one of them done, and it waits for the next.
LEMMA TreeTake ==
    ASSUME NEW tree, NEW hm, NEW hb, TreeOK(tree, hm, hb), NEW path \in DOMAIN tree,
           tree[path].pc = "parts", NEW c \in Awaited(tree, path), tree[c].pc = "done",
           NEW next \in Calls, Advanced(tree[path], next),
           NEW tree2, DOMAIN tree2 = DOMAIN tree \ Awaited(tree, path),
           \A q \in DOMAIN tree2 : tree2[q] = IF q = path THEN next ELSE tree[q]
    PROVE  TreeOK(tree2, hm, hb)
<1> DEFINE taken == Awaited(tree, path)
<1>A. /\ taken \in SUBSET DOMAIN tree
      /\ \A q \in DOMAIN tree : q \in taken <=>
            (Len(q) = Len(path) + 1 /\ IsPrefix(path, q)
                 /\ Last(q).as = "child" /\ Last(q).pos = tree[path].head)
  BY DEF Awaited
<1>B. DOMAIN tree2 = DOMAIN tree \ taken /\ c \in taken /\ tree[c].pc = "done"
  OBVIOUS
<1> HIDE DEF taken
<1> DEFINE call == tree[path]
           wanted == Children[Content(path)][call.head]
<1>0. path \in Paths /\ Len(path) \in Nat \ {0} /\ path \in Seq(Links)
  BY PathLast DEF TreeOK, Paths
<1>S. StateOK(path, call, hm, hb)
  BY DEF TreeOK
<1>1. ASSUME NEW q \in taken
      PROVE  /\ q \in Paths /\ q \in Seq(Links) /\ Len(q) = Len(path) + 1 /\ Under(path, q)
             /\ Last(q) \in Links /\ Last(q) = q[Len(path) + 1] /\ Content(q) = Last(q).content
             /\ Last(q).as = "child" /\ Last(q).pos = call.head
             /\ Last(q).content = wanted /\ call.head < call.next
  <2>1. q \in DOMAIN tree /\ q \in Paths /\ Len(q) = Len(path) + 1 /\ IsPrefix(path, q)
        /\ Last(q).as = "child" /\ Last(q).pos = call.head
    BY <1>A DEF TreeOK
  <2>2. q # path
    BY <2>1, <1>0
  <2>3. Under(path, q)
    BY <2>1, <2>2, <1>0, PrefixIsUnder
  <2>4. Last(q) \in Links /\ Last(q) = q[Len(path) + 1]
    BY <2>1, PathLast DEF Last
  <2>5. LinkOK(path, call, Last(q))
    BY <2>1, <2>3, <2>4 DEF TreeOK
  <2>6. Last(q).content = wanted /\ call.head < call.next
    BY <2>5, <2>1 DEF LinkOK
  <2> QED
    BY <2>1, <2>3, <2>4, <2>6 DEF Content, Paths
<1>2. c \in taken /\ c \in DOMAIN tree /\ tree[c].pc = "done"
  BY <1>A, <1>B
<1>3. ASSUME NEW q \in DOMAIN tree, Under(path, q), q[Len(path) + 1].as = "child",
             q[Len(path) + 1].pos = call.head
      PROVE  q \in taken
  <2>1. q \in Paths /\ q \in Seq(Links) /\ Len(q) \in Nat /\ Len(path) < Len(q)
    BY <1>3, PathLast DEF TreeOK, Under, Paths
  <2>2. Len(path) + 1 \in 1..Len(q)
    BY <2>1, <1>0
  <2>3. q[Len(path) + 1] \in Links
    BY <2>1, <2>2, ElementOfSeq
  <2>4. LinkOK(path, call, q[Len(path) + 1])
    BY <1>3 DEF TreeOK
  <2>5. q[Len(path) + 1].content = wanted
    BY <2>4, <1>3 DEF LinkOK
  <2>6. q[Len(path) + 1] = Last(c)
    <3> DEFINE a == q[Len(path) + 1]
               b == Last(c)
    <3>1. a \in Links /\ a.as = "child" /\ a.pos = call.head /\ a.content = wanted
      BY <2>3, <2>5, <1>3
    <3>2. b \in Links /\ b.as = "child" /\ b.pos = call.head /\ b.content = wanted
      BY <1>1, <1>2
    <3> HIDE DEF a, b
    <3>3. a = b
      BY <3>1, <3>2, LinkEqual
    <3> QED
      BY <3>3 DEF a, b
  <2>7. \A i \in 1..Len(c) : q[i] = c[i]
    <3>1. \A i \in 1..Len(path) : q[i] = path[i] /\ c[i] = path[i]
      BY <1>3, <1>1, <1>2 DEF Under
    <3>2. Len(c) = Len(path) + 1 /\ q[Len(path) + 1] = c[Len(path) + 1]
      BY <2>6, <1>1, <1>2
    <3> QED
      BY <3>1, <3>2, <1>0
  <2>8. ~Under(c, q)
    <3> SUFFICES ASSUME Under(c, q) PROVE FALSE
      OBVIOUS
    <3>1. LinkOK(c, tree[c], q[Len(c) + 1])
      BY <1>2 DEF TreeOK
    <3> QED
      BY <3>1, <1>2 DEF LinkOK
  <2>9. Len(q) = Len(c)
    BY <2>7, <2>8, <2>1, <1>0, <1>1, <1>2 DEF Under
  <2>10. q = c
    BY <2>7, <2>9, <2>1, <1>1, <1>2, PathEqual
  <2> QED
    BY <2>10, <1>2
<1>4. wanted \in hm
  <2>1. StateOK(c, tree[c], hm, hb)
    BY <1>2 DEF TreeOK
  <2>2. Content(c) \in hm
    BY <2>1, <1>2 DEF StateOK, Pushed
  <2> QED
    BY <2>2, <1>1, <1>2
<1>5. StateOK(path, next, hm, hb)
  <2>1. call.head < call.next
    BY <1>1, <1>2
  <2>2. /\ call \in Calls /\ call.head \in Nat \ {0} /\ call.next \in Nat
        /\ call.next <= Len(Children[Content(path)]) + 1
        /\ \A i \in 1..(call.head - 1) : Children[Content(path)][i] \in hm
        /\ \A b \in Layers[Content(path)] : call.blob[b] = "none" => b \in hb
    BY <1>S DEF StateOK, Calls
  <2>3. /\ next \in Calls /\ next.pc = "parts" /\ next.head = call.head + 1
        /\ next.next = call.next /\ next.blob = call.blob
    BY <2>2 DEF Advanced
  <2>4. \A i \in 1..(next.head - 1) : i \in 1..(call.head - 1) \/ i = call.head
    BY <2>2, <2>3
  <2>5. \A i \in 1..(next.head - 1) : Children[Content(path)][i] \in hm
    BY <2>2, <2>4, <1>4
  <2>6. next.head <= next.next /\ next.next <= Len(Children[Content(path)]) + 1
    BY <2>1, <2>2, <2>3
  <2> QED
    BY <2>2, <2>3, <2>5, <2>6 DEF StateOK, Pushed
<1>6. DOMAIN tree2 \subseteq Paths /\ DOMAIN tree2 \subseteq DOMAIN tree
  BY <1>B DEF TreeOK
<1>7. \A q \in DOMAIN tree2 : StateOK(q, tree2[q], hm, hb)
  BY <1>5, <1>6 DEF TreeOK
<1>8. ASSUME NEW q \in DOMAIN tree2, NEW n \in 1..Len(q)
      PROVE  SubSeq(q, 1, n) \in DOMAIN tree2
  <2> DEFINE s == SubSeq(q, 1, n)
  <2>1. s \in DOMAIN tree /\ q \in DOMAIN tree
    BY <1>6 DEF TreeOK
  <2>2. q \in Paths /\ q \in Seq(Links) /\ Len(q) \in Nat \ {0}
    BY <2>1, PathLast DEF TreeOK, Paths
  <2>3. s \in Paths /\ Len(s) = n /\ \A i \in 1..n : s[i] = q[i]
    BY <2>2, PathPrefix
  <2> SUFFICES ASSUME s \in taken PROVE FALSE
    BY <2>1, <1>B
  <2>4. n = Len(path) + 1
    BY <1>1, <2>3
  <2>5. Under(path, q)
    <3>0. Under(path, s)
      BY <1>1
    <3>1. \A i \in 1..Len(path) : s[i] = path[i] /\ i \in 1..n
      <4> HIDE DEF s
      <4> QED
        BY <1>0, <2>4, <3>0 DEF Under
    <3>2. \A i \in 1..Len(path) : q[i] = path[i]
      BY <3>1, <2>3
    <3>3. Len(path) < Len(q)
      BY <1>0, <2>2, <2>4
    <3> QED
      BY <3>2, <3>3 DEF Under
  <2>6. Last(s) = q[Len(path) + 1]
    BY <2>3, <2>4, <1>0 DEF Last
  <2>7. q[Len(path) + 1].as = "child" /\ q[Len(path) + 1].pos = call.head
    BY <2>6, <1>1
  <2>8. q \in taken
    BY <1>3, <2>1, <2>5, <2>7
  <2> QED
    BY <2>8, <1>B
<1>9. ASSUME NEW p \in DOMAIN tree2, NEW q \in DOMAIN tree2, Under(p, q)
      PROVE  LinkOK(p, tree2[p], q[Len(p) + 1])
  <2>1. LinkOK(p, tree[p], q[Len(p) + 1]) /\ q \in DOMAIN tree /\ q \notin taken
    BY <1>9, <1>6, <1>B DEF TreeOK
  <2>2. CASE p # path
    BY <2>1, <2>2
  <2>3. CASE p = path
    <3> DEFINE link == q[Len(path) + 1]
    <3>1. /\ link.as = "child" /\ call.head <= link.pos /\ link.pos < call.next
          /\ link.content = Children[Content(path)][link.pos]
      BY <2>1, <2>3 DEF LinkOK
    <3>2. link.pos # call.head
      BY <3>1, <1>3, <1>9, <2>1, <2>3
    <3>3. link.pos \in Nat
      <4>1. q \in Seq(Links) /\ Len(q) \in Nat /\ Len(path) < Len(q)
        BY <1>6, <1>9, <2>3, PathLast DEF Under, Paths
      <4>2. Len(path) + 1 \in 1..Len(q)
        BY <4>1, <1>0
      <4>3. link \in Links
        BY <4>1, <4>2, ElementOfSeq
      <4> QED
        BY <4>3 DEF Links
    <3>4. tree2[path] = next /\ call.head \in Nat
      BY <2>3, <1>S DEF StateOK, Calls
    <3>5. tree2[path].pc = "parts" /\ tree2[path].head = call.head + 1 /\ tree2[path].next = call.next
      BY <3>4 DEF Advanced
    <3>6. call.head + 1 <= link.pos
      BY <3>1, <3>2, <3>3, <3>4
    <3> QED
      BY <3>1, <3>5, <3>6, <2>3 DEF LinkOK
  <2> QED
    BY <2>2, <2>3
<1> QED
  BY <1>6, <1>7, <1>8, <1>9 DEF TreeOK

-----------------------------------------------------------------------------
(* The inductive invariant.                                                   *)

TypesOK ==
    /\ DestinationTypes
    /\ position \in [Repositories -> Nat \ {0}]
    /\ copied \in [Repositories -> SUBSET Manifests]
    /\ location \in [Blobs -> Repositories \cup {None}]
    /\ claims \subseteq Repositories \X Manifests
    /\ dropped \in [Repositories -> SUBSET Manifests]
    /\ faults \in Nat

WalksOK ==
    /\ DOMAIN calls = Repositories
    /\ \A r \in Repositories : TreeOK(calls[r], heldM[r], heldB[r])

Inv == TypesOK /\ WalksOK /\ ManifestsComplete /\ LocationsTrue

\* What a step does to the destination: nothing is taken away.
Grown == \A s \in Repositories : heldM[s] \subseteq heldM'[s] /\ heldB[s] \subseteq heldB'[s]

\* Nothing is placed, and nothing is remembered of a blob.
Still == UNCHANGED <<heldM, heldB, location>>

LEMMA StillKeeps ==
    ASSUME Inv, Still
    PROVE  Grown /\ ManifestsComplete' /\ LocationsTrue'
  BY DEF Inv, Still, Grown, ManifestsComplete, LocationsTrue

LEMMA WalkReplaced ==
    ASSUME WalksOK, Grown, NEW r \in Repositories, NEW tree2,
           calls' = [calls EXCEPT ![r] = tree2],
           TreeOK(tree2, heldM'[r], heldB'[r])
    PROVE  WalksOK'
<1>1. DOMAIN calls' = Repositories /\ calls'[r] = tree2
  BY DEF WalksOK
<1>2. ASSUME NEW s \in Repositories, s # r
      PROVE  TreeOK(calls'[s], heldM'[s], heldB'[s])
  <2>1. calls'[s] = calls[s] /\ TreeOK(calls[s], heldM[s], heldB[s])
    BY <1>2 DEF WalksOK
  <2>2. heldM[s] \subseteq heldM'[s] /\ heldB[s] \subseteq heldB'[s]
    BY DEF Grown
  <2> QED
    BY <2>1, <2>2, TreeGrows
<1> QED
  BY <1>1, <1>2 DEF WalksOK

LEMMA WalkStep ==
    ASSUME WalksOK, Grown, NEW r \in Repositories, NEW path \in DOMAIN calls[r], NEW call,
           Step(r, path, call), StateOK(path, call, heldM'[r], heldB'[r]),
           \A q \in DOMAIN calls[r] : Under(path, q) => LinkOK(path, call, q[Len(path) + 1])
    PROVE  WalksOK'
<1> DEFINE tree2 == [calls[r] EXCEPT ![path] = call]
<1>1. calls' = [calls EXCEPT ![r] = tree2]
  BY DEF Step
<1>2. DOMAIN tree2 = DOMAIN calls[r]
      /\ \A q \in DOMAIN tree2 : tree2[q] = IF q = path THEN call ELSE calls[r][q]
  OBVIOUS
<1>3. TreeOK(calls[r], heldM'[r], heldB'[r])
  BY TreeGrows DEF WalksOK, Grown
<1> HIDE DEF tree2
<1>4. TreeOK(tree2, heldM'[r], heldB'[r])
  BY <1>2, <1>3, TreeStep
<1> QED
  BY <1>1, <1>4, WalkReplaced

LEMMA WalkCut ==
    ASSUME WalksOK, Grown, NEW r \in Repositories, NEW path \in DOMAIN calls[r], NEW call,
           SetCall(r, path, call), StateOK(path, call, heldM'[r], heldB'[r])
    PROVE  WalksOK'
<1> DEFINE tree2 == [q \in DOMAIN calls[r] \ Below(r, path) |->
                        IF q = path THEN call ELSE calls[r][q]]
<1>1. calls' = [calls EXCEPT ![r] = tree2]
  BY DEF SetCall, EndCalls, WalksOK
<1>2. TreeOK(calls[r], heldM'[r], heldB'[r])
  BY TreeGrows DEF WalksOK, Grown
<1>3. \A q \in DOMAIN calls[r] : IsStrictPrefix(path, q) <=> Under(path, q)
  BY <1>2, PrefixIsUnder DEF TreeOK
<1>4. DOMAIN tree2 = {q \in DOMAIN calls[r] : ~Under(path, q)}
  BY <1>3 DEF Below
<1>5. \A q \in DOMAIN tree2 : tree2[q] = IF q = path THEN call ELSE calls[r][q]
  OBVIOUS
<1> HIDE DEF tree2
<1>6. TreeOK(tree2, heldM'[r], heldB'[r])
  BY <1>2, <1>4, <1>5, TreeCut
<1> QED
  BY <1>1, <1>6, WalkReplaced

LEMMA WalkBelow ==
    ASSUME WalksOK, Grown, NEW r \in Repositories, NEW path \in DOMAIN calls[r], NEW call,
           NEW link \in Links, CallBelow(r, path, call, link),
           StateOK(path, call, heldM'[r], heldB'[r]), LinkOK(path, call, link),
           Append(path, link) \notin DOMAIN calls[r],
           \A q \in DOMAIN calls[r] : Under(path, q) => LinkOK(path, call, q[Len(path) + 1])
    PROVE  WalksOK'
<1> DEFINE tree2 == [q \in DOMAIN calls[r] \cup {Append(path, link)} |->
               IF q = path THEN call ELSE IF q \in DOMAIN calls[r] THEN calls[r][q] ELSE Entered]
<1>1. calls' = [calls EXCEPT ![r] = tree2]
  BY DEF CallBelow, WalksOK
<1>2. TreeOK(calls[r], heldM'[r], heldB'[r])
  BY TreeGrows DEF WalksOK, Grown
<1>3. DOMAIN tree2 = DOMAIN calls[r] \cup {Append(path, link)}
      /\ \A q \in DOMAIN tree2 : tree2[q] =
             IF q = path THEN call ELSE IF q \in DOMAIN calls[r] THEN calls[r][q] ELSE Entered
  OBVIOUS
<1> HIDE DEF tree2
<1>4. TreeOK(tree2, heldM'[r], heldB'[r])
  BY <1>2, <1>3, TreeBelow
<1> QED
  BY <1>1, <1>4, WalkReplaced

-----------------------------------------------------------------------------
(* What the invariant says of one call.                                       *)

LEMMA CallFacts ==
    ASSUME Inv, NEW r \in Repositories, NEW path \in DOMAIN calls[r]
    PROVE  /\ path \in Paths /\ Content(path) \in Manifests
           /\ calls[r][path] \in Calls
           /\ StateOK(path, calls[r][path], heldM[r], heldB[r])
           /\ \A q \in DOMAIN calls[r] :
                Under(path, q) => LinkOK(path, calls[r][path], q[Len(path) + 1])
<1>1. TreeOK(calls[r], heldM[r], heldB[r])
  BY DEF Inv, WalksOK
<1>2. path \in Paths /\ StateOK(path, calls[r][path], heldM[r], heldB[r])
  BY <1>1 DEF TreeOK
<1>3. Content(path) \in Manifests
  BY <1>2, PathLast
<1>4. calls[r][path] \in Calls
  BY <1>2 DEF StateOK
<1> QED
  BY <1>1, <1>2, <1>3, <1>4 DEF TreeOK

LEMMA GraphFacts ==
    ASSUME NEW m \in Manifests
    PROVE  /\ Children[m] \in Seq(Manifests) /\ Len(Children[m]) \in Nat
           /\ Referrers[m] \in Seq(Manifests) /\ Len(Referrers[m]) \in Nat
           /\ \A i \in 1..Len(Children[m]) : Children[m][i] \in Manifests
           /\ \A i \in 1..Len(Referrers[m]) : Referrers[m][i] \in Manifests
           /\ Layers[m] \subseteq Blobs
           /\ SourceSidecar(m) # None => SourceSidecar(m) \in Manifests
<1>1. Children[m] \in Seq(Manifests) /\ Referrers[m] \in Seq(Manifests)
      /\ Layers[m] \subseteq Blobs /\ Sidecar[m] \in Manifests \cup {None}
  BY GraphAssumption
<1>2. Len(Children[m]) \in Nat /\ Len(Referrers[m]) \in Nat
  BY <1>1, LenProperties
<1> QED
  BY <1>1, <1>2, ElementOfSeq DEF SourceSidecar

LEMMA NoneUnder ==
    ASSUME Inv, NEW r \in Repositories, NEW path \in DOMAIN calls[r], Below(r, path) = {}
    PROVE  \A q \in DOMAIN calls[r] : ~Under(path, q)
<1>1. \A q \in DOMAIN calls[r] : q \in Paths
  BY CallFacts
<1> QED
  BY <1>1, PrefixIsUnder DEF Below

\* A call that has called nothing for what it waits for has nothing below it.
LEMMA NoneCalled ==
    ASSUME Inv, NEW r \in Repositories, NEW path \in DOMAIN calls[r],
           calls[r][path].pc = "referrers", Callee(r, path, "referrer") = {}
    PROVE  \A q \in DOMAIN calls[r] : ~Under(path, q)
<1> SUFFICES ASSUME NEW q \in DOMAIN calls[r], Under(path, q)
             PROVE  FALSE
  OBVIOUS
<1>1. path \in Paths /\ Len(path) \in Nat \ {0} /\ q \in Paths /\ q \in Seq(Links)
      /\ Len(q) \in Nat /\ Len(path) < Len(q)
  BY CallFacts, PathLast DEF Under, Paths
<1> DEFINE n == Len(path) + 1
           s == SubSeq(q, 1, n)
<1>2. n \in 1..Len(q)
  BY <1>1
<1>3. s \in DOMAIN calls[r]
  BY <1>2 DEF Inv, WalksOK, TreeOK
<1>4. s \in Paths /\ Len(s) = n /\ \A i \in 1..n : s[i] = q[i]
  BY <1>1, <1>2, PathPrefix
<1> HIDE DEF s
<1>5. LinkOK(path, calls[r][path], q[n])
  BY CallFacts
<1>6. q[n].as = "referrer" /\ q[n].pos = calls[r][path].head
  BY <1>5 DEF LinkOK
<1>7. Last(s) = q[n]
  BY <1>1, <1>4 DEF Last
<1>8. \A i \in 1..Len(path) : i \in 1..n
  BY <1>1
<1>9. Under(path, s)
  BY <1>1, <1>4, <1>8 DEF Under
<1>10. IsPrefix(path, s)
  BY <1>1, <1>4, <1>9, PrefixIsUnder
<1> QED
  BY <1>3, <1>4, <1>6, <1>7, <1>10 DEF Callee

\* A step that moves nothing and learns nothing of a blob.
LEMMA QuietKeeps ==
    ASSUME Inv, UNCHANGED <<destination, position, copied, location>>,
           claims' \subseteq Repositories \X Manifests,
           dropped' \in [Repositories -> SUBSET Manifests], faults' \in Nat
    PROVE  TypesOK' /\ Grown /\ ManifestsComplete' /\ LocationsTrue'
<1>1. Still
  BY DEF Still, destination
<1>2. TypesOK'
  BY DEF Inv, TypesOK, DestinationTypes, destination
<1> QED
  BY <1>1, <1>2, StillKeeps

\* A blob lands, or is seen, and where is remembered only then.
LEMMA BlobKeeps ==
    ASSUME Inv, NEW r \in Repositories, NEW b \in Blobs, Grown,
           heldB' \in [Repositories -> SUBSET Blobs],
           UNCHANGED <<heldM, fallback, sidecar, position, copied, claims, dropped>>, faults' \in Nat,
           UNCHANGED location \/ (RecordLocation(b, r) /\ b \in heldB'[r])
    PROVE  TypesOK' /\ ManifestsComplete' /\ LocationsTrue'
<1>1. location' \in [Blobs -> Repositories \cup {None}]
  BY DEF RecordLocation, Inv, TypesOK
<1>2. TypesOK'
  BY <1>1 DEF Inv, TypesOK, DestinationTypes
<1>3. ManifestsComplete'
  BY DEF Inv, ManifestsComplete, Grown
<1>4. ASSUME NEW a \in Blobs, location'[a] # None
      PROVE  a \in heldB'[location'[a]]
  <2>1. location \in [Blobs -> Repositories \cup {None}]
    BY DEF Inv, TypesOK
  <2>2. CASE location'[a] = location[a]
    BY <1>4, <2>1, <2>2 DEF Inv, LocationsTrue, Grown
  <2>3. CASE location'[a] # location[a]
    <3>1. a = b /\ location'[a] = r
      BY <2>1, <2>3 DEF RecordLocation
    <3> QED
      BY <3>1, <2>3
  <2> QED
    BY <2>2, <2>3
<1> QED
  BY <1>2, <1>3, <1>4 DEF LocationsTrue

LEMMA BlobStage ==
    ASSUME Inv, Grown, NEW r \in Repositories, NEW path \in DOMAIN calls[r], NEW b \in Blobs,
           calls[r][path].pc = "parts", NEW stage \in Stages, SetBlob(r, path, b, stage),
           stage = "none" => b \in heldB'[r]
    PROVE  WalksOK'
<1> DEFINE call == calls[r][path]
           next == [call EXCEPT !.blob[b] = stage]
<1>1. /\ call \in Calls /\ StateOK(path, call, heldM[r], heldB[r])
      /\ \A q \in DOMAIN calls[r] : Under(path, q) => LinkOK(path, call, q[Len(path) + 1])
      /\ heldM[r] \subseteq heldM'[r] /\ heldB[r] \subseteq heldB'[r]
  BY CallFacts DEF Grown
<1>2. /\ next \in Calls /\ next.pc = "parts" /\ next.head = call.head /\ next.next = call.next
      /\ \A a \in Blobs : next.blob[a] = IF a = b THEN stage ELSE call.blob[a]
  BY <1>1 DEF Calls
<1>3. Layers[Content(path)] \subseteq Blobs
  BY CallFacts, GraphFacts
<1>S. Step(r, path, next)
  BY DEF SetBlob
<1> HIDE DEF next
<1>4. StateOK(path, next, heldM'[r], heldB'[r])
  BY <1>1, <1>2, <1>3 DEF StateOK, Pushed
<1>5. \A q \in DOMAIN calls[r] : Under(path, q) => LinkOK(path, next, q[Len(path) + 1])
  BY <1>1, <1>2 DEF LinkOK
<1> QED
  BY <1>S, <1>4, <1>5, WalkStep DEF Inv

LEMMA FailKeeps ==
    ASSUME Inv, Grown, NEW r \in Repositories, NEW path \in DOMAIN calls[r], Fail(r, path)
    PROVE  WalksOK'
<1> DEFINE next == [calls[r][path] EXCEPT !.pc = "failed", !.blob = NoBlobs]
<1>1. calls[r][path] \in Calls
  BY CallFacts
<1>2. next \in Calls /\ next.pc = "failed"
  BY <1>1 DEF Calls, Phases, NoBlobs, Stages
<1>S. SetCall(r, path, next)
  BY DEF Fail
<1> HIDE DEF next
<1>3. StateOK(path, next, heldM'[r], heldB'[r])
  BY <1>2 DEF StateOK, Pushed
<1> QED
  BY <1>S, <1>3, WalkCut DEF Inv

-----------------------------------------------------------------------------
(* One lemma per action.                                                      *)

LEMMA FailureCounts ==
    ASSUME Inv, Failure
    PROVE  faults' \in Nat
  BY DEF Inv, TypesOK, Failure

\* No call under way.
LEMMA NoTree ==
    ASSUME NEW hm, NEW hb
    PROVE  TreeOK(NoCalls, hm, hb)
  BY DEF TreeOK, NoCalls

LEMMA TagKeeps ==
    ASSUME Inv, NEW r \in Repositories, SkipCopied(r) \/ BeginTag(r) \/ EndTag(r)
    PROVE  Inv'
<1>0. position' \in [Repositories -> Nat \ {0}]
  BY DEF Inv, TypesOK, SkipCopied, BeginTag, EndTag
<1>1. UNCHANGED <<heldM, heldB, fallback, sidecar, location, claims, dropped, faults>>
  BY DEF SkipCopied, BeginTag, EndTag, destination, memory
<1>2. Grown /\ ManifestsComplete' /\ LocationsTrue'
  BY <1>1, StillKeeps DEF Still
<1>3. copied' \in [Repositories -> SUBSET Manifests]
  <2>1. CASE UNCHANGED copied
    BY <2>1 DEF Inv, TypesOK
  <2>2. CASE EndTag(r)
    <3>1. PICK path \in DOMAIN calls[r] :
            copied' = [copied EXCEPT ![r] =
                IF calls[r][path].pc = "done" THEN @ \cup {Content(path)} ELSE @]
      BY <2>2 DEF EndTag
    <3>2. Content(path) \in Manifests
      BY CallFacts
    <3> QED
      BY <3>1, <3>2 DEF Inv, TypesOK
  <2> QED
    BY <2>1, <2>2 DEF SkipCopied, BeginTag
<1>4. TypesOK'
  BY <1>0, <1>1, <1>3 DEF Inv, TypesOK, DestinationTypes
<1>5. WalksOK'
  <2>1. CASE SkipCopied(r)
    BY <1>1, <2>1 DEF SkipCopied, Inv, WalksOK
  <2>2. CASE BeginTag(r)
    <3> DEFINE root == [as |-> "tag", pos |-> position[r], content |-> Plan[r][position[r]]]
               tree2 == [path \in {<<root>>} |-> Entered]
    <3>1. root \in Links
      <4>1. position[r] \in 1..Len(Plan[r]) /\ position[r] \in Nat /\ Plan[r] \in Seq(Manifests)
        <5>1. position[r] \in Nat \ {0} /\ Plan[r] \in Seq(Manifests)
          BY GraphAssumption DEF Inv, TypesOK
        <5>2. Len(Plan[r]) \in Nat /\ position[r] <= Len(Plan[r])
          BY <5>1, <2>2, LenProperties DEF BeginTag
        <5> QED
          BY <5>1, <5>2
      <4>2. Plan[r][position[r]] \in Manifests
        BY <4>1, ElementOfSeq
      <4> QED
        BY <4>1, <4>2 DEF Links, Roles
    <3>2. calls' = [calls EXCEPT ![r] = tree2]
      BY <2>2 DEF BeginTag
    <3> HIDE DEF root
    <3>3. <<root>> \in Paths /\ <<root>> \in Seq(Links) /\ Len(<<root>>) = 1
      BY <3>1, EmptySeq DEF Paths
    <3>4. TreeOK(tree2, heldM'[r], heldB'[r])
      <4>1. DOMAIN tree2 = {<<root>>} /\ tree2[<<root>>] = Entered
        OBVIOUS
      <4> HIDE DEF tree2
      <4>2. StateOK(<<root>>, Entered, heldM'[r], heldB'[r])
        BY DEF StateOK, Entered, Calls, Phases, Stages, NoBlobs, Pushed
      <4>3. SubSeq(<<root>>, 1, 1) = <<root>>
        BY <3>3, SubSeqFull
      <4>4. ~Under(<<root>>, <<root>>)
        BY <3>3 DEF Under
      <4>5. \A n \in 1..Len(<<root>>) : n = 1
        BY <3>3
      <4> QED
        BY <4>1, <4>2, <4>3, <4>4, <4>5, <3>3 DEF TreeOK
    <3> HIDE DEF tree2
    <3> QED
      BY <3>2, <3>4, <1>2, WalkReplaced DEF Inv
  <2>3. CASE EndTag(r)
    <3>1. calls' = [calls EXCEPT ![r] = NoCalls]
      BY <2>3 DEF EndTag
    <3> QED
      BY <3>1, <1>2, NoTree, WalkReplaced DEF Inv
  <2> QED
    BY <2>1, <2>2, <2>3
<1> QED
  BY <1>2, <1>4, <1>5 DEF Inv

LEMMA FetchKeeps ==
    ASSUME Inv, NEW r \in Repositories, NEW path \in DOMAIN calls[r], Fetch(r, path)
    PROVE  Inv'
<1> DEFINE call == calls[r][path]
           next == [call EXCEPT !.pc = "parts",
                        !.blob = [b \in Blobs |-> IF b \in Layers[Content(path)] THEN "probe" ELSE "none"]]
<1>1. TypesOK' /\ Grown /\ ManifestsComplete' /\ LocationsTrue'
  BY QuietKeeps DEF Fetch, memory, Inv, TypesOK
<1>2. /\ call \in Calls /\ StateOK(path, call, heldM[r], heldB[r]) /\ Content(path) \in Manifests
      /\ \A q \in DOMAIN calls[r] : Under(path, q) => LinkOK(path, call, q[Len(path) + 1])
      /\ call.pc = "fetch"
  BY CallFacts DEF Fetch, At
<1>3. Layers[Content(path)] \subseteq Blobs /\ Len(Children[Content(path)]) \in Nat
  BY <1>2, GraphFacts
<1>4. /\ next \in Calls /\ next.pc = "parts" /\ next.head = 1 /\ next.next = 1
      /\ \A b \in Layers[Content(path)] : next.blob[b] = "probe"
  BY <1>2, <1>3 DEF Calls, Phases, Stages, StateOK
<1>S. Step(r, path, next)
  BY DEF Fetch
<1> HIDE DEF next
<1>5. StateOK(path, next, heldM'[r], heldB'[r])
  BY <1>3, <1>4 DEF StateOK, Pushed
<1>6. \A q \in DOMAIN calls[r] : Under(path, q) => LinkOK(path, next, q[Len(path) + 1])
  BY <1>2 DEF LinkOK
<1>7. WalksOK'
  BY <1>1, <1>S, <1>5, <1>6, WalkStep DEF Inv
<1> QED
  BY <1>1, <1>7 DEF Inv

\* The failures that touch nothing at the destination.
LEMMA FailuresKeep ==
    ASSUME Inv, NEW r \in Repositories, NEW path \in DOMAIN calls[r],
           FailRead(r, path) \/ FailChild(r, path) \/ FailSidecar(r, path)
    PROVE  Inv'
<1>1. UNCHANGED <<destination, position, copied, location, claims>> /\ Fail(r, path)
  BY DEF FailRead, FailChild, FailSidecar, memory
<1>2. faults' \in Nat
  BY FailureCounts DEF FailRead, FailChild, FailSidecar, Inv, TypesOK
<1>D. dropped' \in [Repositories -> SUBSET Manifests]
  <2>1. CASE UNCHANGED dropped
    BY <2>1 DEF Inv, TypesOK
  <2>2. CASE FailChild(r, path)
    <3>1. {Content(q) : q \in {q \in Below(r, path) : Last(q).as = "referrer"}} \subseteq Manifests
      BY CallFacts DEF Below
    <3> QED
      BY <2>2, <3>1 DEF FailChild, Inv, TypesOK
  <2> QED
    BY <2>1, <2>2 DEF FailRead, FailSidecar, memory
<1>3. TypesOK' /\ Grown /\ ManifestsComplete' /\ LocationsTrue'
  BY <1>1, <1>2, <1>D, QuietKeeps DEF Inv, TypesOK
<1>4. WalksOK'
  BY <1>1, <1>3, FailKeeps
<1> QED
  BY <1>3, <1>4 DEF Inv

LEMMA CallChildKeeps ==
    ASSUME Inv, NEW r \in Repositories, NEW path \in DOMAIN calls[r], CallChild(r, path)
    PROVE  Inv'
<1> DEFINE call == calls[r][path]
           next == [call EXCEPT !.next = @ + 1]
           link == [as |-> "child", pos |-> call.next, content |-> Children[Content(path)][call.next]]
<1>1. TypesOK' /\ Grown /\ ManifestsComplete' /\ LocationsTrue'
  BY QuietKeeps DEF CallChild, memory, Inv, TypesOK
<1>2. /\ call \in Calls /\ StateOK(path, call, heldM[r], heldB[r]) /\ Content(path) \in Manifests
      /\ \A q \in DOMAIN calls[r] : Under(path, q) => LinkOK(path, call, q[Len(path) + 1])
      /\ path \in Paths
      /\ call.pc = "parts" /\ call.next <= Len(Children[Content(path)])
  BY CallFacts DEF CallChild, At
<1>3. /\ Len(Children[Content(path)]) \in Nat
      /\ \A i \in 1..Len(Children[Content(path)]) : Children[Content(path)][i] \in Manifests
  BY <1>2, GraphFacts
<1>4. call.head \in Nat \ {0} /\ call.next \in Nat \ {0} /\ call.head <= call.next
  BY <1>2 DEF Calls, StateOK
<1>5. /\ next \in Calls /\ next.pc = "parts" /\ next.head = call.head
      /\ next.next = call.next + 1 /\ next.blob = call.blob
  BY <1>2, <1>4 DEF Calls
<1>6. /\ link \in Links /\ link.as = "child" /\ link.pos = call.next
      /\ link.content = Children[Content(path)][call.next]
  BY <1>2, <1>3, <1>4 DEF Links, Roles
<1>S. CallBelow(r, path, next, link)
  BY DEF CallChild
<1> HIDE DEF next, link
<1>7. StateOK(path, next, heldM'[r], heldB'[r])
  <2>1. heldM[r] \subseteq heldM'[r] /\ heldB[r] \subseteq heldB'[r]
    BY <1>1 DEF Grown
  <2>2. next.head <= next.next /\ next.next <= Len(Children[Content(path)]) + 1
    BY <1>2, <1>3, <1>4, <1>5
  <2> QED
    BY <1>2, <1>5, <2>1, <2>2 DEF StateOK, Pushed
<1>8. \A q \in DOMAIN calls[r] : Under(path, q) => LinkOK(path, next, q[Len(path) + 1])
  <2> SUFFICES ASSUME NEW q \in DOMAIN calls[r], Under(path, q)
               PROVE  LinkOK(path, next, q[Len(path) + 1])
    OBVIOUS
  <2> DEFINE l == q[Len(path) + 1]
  <2>1. /\ l.as = "child" /\ call.head <= l.pos /\ l.pos < call.next
        /\ l.content = Children[Content(path)][l.pos]
    BY <1>2 DEF LinkOK
  <2>2. l.pos \in Nat
    <3>1. Len(path) \in Nat /\ q \in Seq(Links) /\ Len(q) \in Nat /\ Len(path) < Len(q)
      BY <1>2, CallFacts, PathLast DEF Under, Paths
    <3>2. Len(path) + 1 \in 1..Len(q)
      BY <3>1
    <3>3. l \in Links
      BY <3>1, <3>2, ElementOfSeq
    <3> QED
      BY <3>3 DEF Links
  <2>3. l.pos < next.next
    BY <1>4, <1>5, <2>1, <2>2
  <2> QED
    BY <1>5, <2>1, <2>3 DEF LinkOK
<1>9. LinkOK(path, next, link)
  BY <1>4, <1>5, <1>6 DEF LinkOK
<1>10. Append(path, link) \notin DOMAIN calls[r]
  <2> SUFFICES ASSUME Append(path, link) \in DOMAIN calls[r] PROVE FALSE
    OBVIOUS
  <2>1. /\ Append(path, link) \in Paths /\ Len(path) \in Nat
        /\ Len(Append(path, link)) = Len(path) + 1
        /\ \A i \in 1..Len(path) : Append(path, link)[i] = path[i]
        /\ Append(path, link)[Len(path) + 1] = link
    BY <1>2, <1>6, PathAppend, PathLast
  <2>2. Under(path, Append(path, link))
    BY <2>1 DEF Under
  <2>3. LinkOK(path, call, link)
    BY <2>1, <2>2, <1>2
  <2> QED
    BY <2>3, <1>2, <1>4, <1>6 DEF LinkOK
<1>11. WalksOK'
  BY <1>1, <1>S, <1>6, <1>7, <1>8, <1>9, <1>10, WalkBelow DEF Inv
<1> QED
  BY <1>1, <1>11 DEF Inv

LEMMA TakeChildKeeps ==
    ASSUME Inv, NEW r \in Repositories, NEW path \in DOMAIN calls[r], TakeChild(r, path)
    PROVE  Inv'
<1>1. TypesOK' /\ Grown /\ ManifestsComplete' /\ LocationsTrue'
  BY QuietKeeps DEF TakeChild, memory, Inv, TypesOK
<1> DEFINE tree == calls[r]
           next == [tree[path] EXCEPT !.head = @ + 1]
           tree2 == [q \in DOMAIN tree \ Awaited(tree, path) |-> IF q = path THEN next ELSE tree[q]]
<1>2. Callee(r, path, "child") = Awaited(tree, path)
  BY DEF Callee, Awaited
<1>3. tree[path] \in Calls
  BY CallFacts
<1>4. next \in Calls /\ Advanced(tree[path], next)
  BY <1>3 DEF Calls, Advanced
<1>5. EndCalls(r, path, Awaited(tree, path), next)
  BY <1>2 DEF TakeChild
<1> HIDE DEF next
<1>6. calls' = [calls EXCEPT ![r] = tree2]
  BY <1>5 DEF EndCalls, Inv, WalksOK
<1>7. tree[path].pc = "parts" /\ \E c \in Awaited(tree, path) : tree[c].pc = "done"
  BY <1>2 DEF TakeChild, At, Answered
<1>8. TreeOK(tree, heldM'[r], heldB'[r])
  BY <1>1, TreeGrows DEF Inv, WalksOK, Grown
<1>9. DOMAIN tree2 = DOMAIN tree \ Awaited(tree, path)
      /\ \A q \in DOMAIN tree2 : tree2[q] = IF q = path THEN next ELSE tree[q]
  OBVIOUS
<1> HIDE DEF tree2
<1>10. TreeOK(tree2, heldM'[r], heldB'[r])
  BY <1>4, <1>7, <1>8, <1>9, TreeTake
<1>11. WalksOK'
  BY <1>1, <1>6, <1>10, WalkReplaced DEF Inv
<1> QED
  BY <1>1, <1>11 DEF Inv

\* The steps of a blob that neither land it nor see it.
LEMMA BlobWaits ==
    ASSUME Inv, NEW r \in Repositories, NEW path \in DOMAIN calls[r], NEW b \in Blobs,
           SkipBlob(r, path, b) \/ QueueBlob(r, path, b) \/ AcquirePermit(r, path, b)
    PROVE  Inv'
<1>1. TypesOK' /\ Grown /\ ManifestsComplete' /\ LocationsTrue'
  BY QuietKeeps DEF SkipBlob, QueueBlob, AcquirePermit, memory, Inv, TypesOK
<1>2. calls[r][path].pc = "parts"
  BY DEF SkipBlob, QueueBlob, AcquirePermit, BlobAt, At
<1>3. CASE SkipBlob(r, path, b)
  <2>1. location[b] = r /\ location[b] # None
    BY <1>3, NoneAssumption DEF SkipBlob, ConfirmedHere
  <2>2. b \in heldB[r]
    BY <2>1 DEF Inv, LocationsTrue
  <2>3. b \in heldB'[r] /\ SetBlob(r, path, b, "none") /\ "none" \in Stages
    BY <1>3, <2>2, <1>1 DEF SkipBlob, Grown, Stages
  <2>4. WalksOK'
    BY <1>1, <1>2, <2>3, BlobStage
  <2> QED
    BY <1>1, <2>4 DEF Inv
<1>4. CASE QueueBlob(r, path, b) \/ AcquirePermit(r, path, b)
  <2>1. \E stage \in {"queue", "hold"} : SetBlob(r, path, b, stage)
    BY <1>4 DEF QueueBlob, AcquirePermit
  <2>2. WalksOK'
    BY <1>1, <1>2, <2>1, BlobStage DEF Stages
  <2> QED
    BY <1>1, <2>2 DEF Inv
<1> QED
  BY <1>3, <1>4

\* The steps that land a blob, or see it.
LEMMA BlobLands ==
    ASSUME Inv, NEW r \in Repositories, NEW path \in DOMAIN calls[r], NEW b \in Blobs,
           ProbeBlob(r, path, b) \/ MountBlob(r, path, b) \/ UploadBlob(r, path, b)
    PROVE  Inv'
<1>0. heldB \in [Repositories -> SUBSET Blobs] /\ faults' \in Nat
  BY DEF Inv, TypesOK, DestinationTypes, ProbeBlob, MountBlob, UploadBlob
<1>1. UNCHANGED <<heldM, fallback, sidecar, position, copied, claims, dropped>>
  BY DEF ProbeBlob, MountBlob, UploadBlob, destination
<1>2. heldB' = heldB \/ heldB' = [heldB EXCEPT ![r] = @ \cup {b}]
  BY DEF ProbeBlob, MountBlob, UploadBlob, destination
<1>3. heldB' \in [Repositories -> SUBSET Blobs] /\ Grown
  BY <1>0, <1>1, <1>2 DEF Grown
<1>4. \/ UNCHANGED location /\ SetBlob(r, path, b, "mount")
      \/ RecordLocation(b, r) /\ b \in heldB'[r] /\ SetBlob(r, path, b, "none")
  BY <1>0 DEF ProbeBlob, MountBlob, UploadBlob, destination
<1>5. TypesOK' /\ ManifestsComplete' /\ LocationsTrue'
  BY <1>0, <1>1, <1>3, <1>4, BlobKeeps
<1>6. calls[r][path].pc = "parts"
  BY DEF ProbeBlob, MountBlob, UploadBlob, BlobAt, At
<1>7. WalksOK'
  BY <1>3, <1>4, <1>6, BlobStage DEF Stages
<1> QED
  BY <1>3, <1>5, <1>7 DEF Inv

LEMMA FailUploadKeeps ==
    ASSUME Inv, NEW r \in Repositories, NEW path \in DOMAIN calls[r], NEW b \in Blobs,
           FailUpload(r, path, b)
    PROVE  Inv'
<1>0. heldB \in [Repositories -> SUBSET Blobs]
  BY DEF Inv, TypesOK, DestinationTypes
<1>1. UNCHANGED <<heldM, fallback, sidecar, position, copied, memory>> /\ Fail(r, path)
  BY DEF FailUpload
<1>2. faults' \in Nat
  BY FailureCounts DEF FailUpload
<1>3. heldB' \in [Repositories -> SUBSET Blobs] /\ Grown
  <2>1. PICK landed \in SUBSET {b} : heldB' = [heldB EXCEPT ![r] = @ \cup landed]
    BY DEF FailUpload
  <2> QED
    BY <1>0, <1>1, <2>1 DEF Grown
<1>4. TypesOK' /\ ManifestsComplete' /\ LocationsTrue'
  BY <1>1, <1>2, <1>3, BlobKeeps DEF memory
<1>5. WalksOK'
  BY <1>1, <1>3, FailKeeps
<1> QED
  BY <1>3, <1>4, <1>5 DEF Inv

\* A push places a manifest whose parts are placed.
LEMMA PlaceKeeps ==
    ASSUME Inv, NEW r \in Repositories, NEW path \in DOMAIN calls[r],
           At(r, path, "parts"), PartsPlaced(r, path), Place(r, path) \/ UNCHANGED <<heldM, sidecar>>,
           UNCHANGED <<heldB, fallback, position, copied, memory>>, faults' \in Nat
    PROVE  TypesOK' /\ Grown /\ ManifestsComplete' /\ LocationsTrue'
<1> DEFINE c == Content(path)
           call == calls[r][path]
<1>1. /\ heldM \in [Repositories -> SUBSET Manifests] /\ heldB \in [Repositories -> SUBSET Blobs]
      /\ sidecar \in [Repositories -> [Manifests -> Manifests \cup {None, Own}]]
  BY DEF Inv, TypesOK, DestinationTypes
<1>2. /\ c \in Manifests /\ call \in Calls /\ StateOK(path, call, heldM[r], heldB[r])
      /\ call.pc = "parts"
  BY CallFacts DEF At
<1> HIDE DEF c
<1>3. heldM' = heldM \/ heldM' = [heldM EXCEPT ![r] = @ \cup {c}]
  BY DEF Place, c
<1>4. heldM' \in [Repositories -> SUBSET Manifests] /\ Grown
  BY <1>1, <1>2, <1>3 DEF Grown
<1>5. sidecar' \in [Repositories -> [Manifests -> Manifests \cup {None, Own}]]
  <2>1. sidecar' = sidecar \/ \E m : sidecar' = [sidecar EXCEPT ![r][m] = c]
    BY DEF Place, c
  <2> QED
    BY <1>1, <1>2, <2>1
<1>6. TypesOK'
  BY <1>1, <1>4, <1>5 DEF Inv, TypesOK, DestinationTypes, memory
<1>7. Layers[c] \subseteq heldB[r]
  <2>1. \A b \in Layers[c] : b \in Blobs
    BY <1>2, GraphFacts
  <2>2. \A b \in Layers[c] : call.blob[b] = "none"
    BY <2>1 DEF PartsPlaced, NoBlobs
  <2> QED
    BY <1>2, <2>2 DEF StateOK, c
<1>8. Range(Children[c]) \subseteq heldM[r]
  <2>1. Children[c] \in Seq(Manifests) /\ Len(Children[c]) \in Nat
    BY <1>2, GraphFacts
  <2>2. call.head > Len(Children[c]) /\ call.head \in Nat \ {0}
    BY <1>2 DEF PartsPlaced, Calls, c
  <2>3. \A i \in 1..Len(Children[c]) : i \in 1..(call.head - 1)
    BY <2>1, <2>2
  <2>4. \A i \in 1..Len(Children[c]) : Children[c][i] \in heldM[r]
    BY <1>2, <2>3 DEF StateOK, c
  <2>5. DOMAIN Children[c] = 1..Len(Children[c])
    BY <2>1, LenProperties
  <2> QED
    BY <2>4, <2>5 DEF Range
<1>9. ManifestsComplete'
  <2> SUFFICES ASSUME NEW s \in Repositories, NEW m \in heldM'[s]
               PROVE  Layers[m] \subseteq heldB'[s] /\ Range(Children[m]) \subseteq heldM'[s]
    BY DEF ManifestsComplete
  <2>1. heldM[s] \subseteq heldM'[s] /\ heldB[s] \subseteq heldB'[s]
    BY <1>4 DEF Grown
  <2>2. CASE m \in heldM[s]
    BY <2>1, <2>2 DEF Inv, ManifestsComplete
  <2>3. CASE m \notin heldM[s]
    <3>1. s = r /\ m = c
      BY <1>1, <1>3, <2>3
    <3> QED
      BY <3>1, <2>1, <1>7, <1>8
  <2> QED
    BY <2>2, <2>3
<1>10. LocationsTrue'
  BY DEF Inv, LocationsTrue, memory
<1> QED
  BY <1>4, <1>6, <1>9, <1>10

\* A call moves to another phase, at the first of what it has to do there.
LEMMA CallMoves ==
    ASSUME NEW call \in Calls, NEW phase \in Phases
    PROVE  /\ [call EXCEPT !.pc = phase, !.head = 1, !.next = 1] \in Calls
           /\ [call EXCEPT !.pc = phase, !.head = 1, !.next = 1].pc = phase
           /\ [call EXCEPT !.pc = phase, !.head = 1, !.next = 1].head = 1
           /\ [call EXCEPT !.pc = phase, !.head = 1] \in Calls
           /\ [call EXCEPT !.pc = phase, !.head = 1].pc = phase
           /\ [call EXCEPT !.pc = phase, !.head = 1].head = 1
<1> DEFINE first == [call EXCEPT !.pc = phase, !.head = 1, !.next = 1]
           second == [call EXCEPT !.pc = phase, !.head = 1]
<1>1. first.pc = phase /\ first.head = 1 /\ first.next = 1 /\ first.blob = call.blob
  BY DEF Calls
<1>2. second.pc = phase /\ second.head = 1 /\ second.next = call.next /\ second.blob = call.blob
  BY DEF Calls
<1>3. 1 \in Nat \ {0}
  OBVIOUS
<1>4. first \in Calls
  BY <1>1, <1>3 DEF Calls
<1>5. second \in Calls
  BY <1>2, <1>3 DEF Calls
<1> QED
  BY <1>1, <1>2, <1>4, <1>5

LEMMA PushKeeps ==
    ASSUME Inv, NEW r \in Repositories, NEW path \in DOMAIN calls[r], Push(r, path)
    PROVE  Inv'
<1> DEFINE call == calls[r][path]
           phase == IF Swept(path) THEN "referrers" ELSE "done"
           next == [call EXCEPT !.pc = phase, !.head = 1, !.next = 1]
<1>1. TypesOK' /\ Grown /\ ManifestsComplete' /\ LocationsTrue'
  BY PlaceKeeps DEF Push, Inv, TypesOK
<1>2. /\ Content(path) \in Manifests /\ call \in Calls /\ StateOK(path, call, heldM[r], heldB[r])
      /\ call.pc = "parts"
      /\ \A q \in DOMAIN calls[r] : Under(path, q) => LinkOK(path, call, q[Len(path) + 1])
      /\ path \in Paths
  BY CallFacts DEF Push, At
<1>3. Content(path) \in heldM'[r]
  <2>1. heldM' = [heldM EXCEPT ![r] = @ \cup {Content(path)}]
    BY DEF Push, Place
  <2>2. heldM \in [Repositories -> SUBSET Manifests]
    BY DEF Inv, TypesOK, DestinationTypes
  <2> QED
    BY <2>1, <2>2
<1>S. Step(r, path, next)
  BY DEF Push
<1>P. phase \in {"referrers", "done"}
  OBVIOUS
<1> HIDE DEF phase
<1>4. next \in Calls /\ next.pc \in {"referrers", "done"} /\ next.head = 1
  <2>1. phase \in Phases
    BY <1>P DEF Phases
  <2>2. next \in Calls /\ next.pc = phase /\ next.head = 1
    BY <1>2, <2>1, CallMoves, Zenon
  <2> QED
    BY <1>P, <2>2
<1> HIDE DEF next
<1>5. StateOK(path, next, heldM'[r], heldB'[r])
  BY <1>3, <1>4 DEF StateOK, Pushed
<1>6. \A q \in DOMAIN calls[r] : ~Under(path, q)
  <2> SUFFICES ASSUME NEW q \in DOMAIN calls[r], Under(path, q) PROVE FALSE
    OBVIOUS
  <2> DEFINE l == q[Len(path) + 1]
  <2>1. call.head <= l.pos /\ l.pos < call.next
    BY <1>2 DEF LinkOK
  <2>2. l.pos \in Nat
    <3>1. Len(path) \in Nat /\ q \in Seq(Links) /\ Len(q) \in Nat /\ Len(path) < Len(q)
      BY <1>2, CallFacts, PathLast DEF Under, Paths
    <3>2. Len(path) + 1 \in 1..Len(q)
      BY <3>1
    <3>3. l \in Links
      BY <3>1, <3>2, ElementOfSeq
    <3> QED
      BY <3>3 DEF Links
  <2>3. /\ call.head \in Nat /\ call.next \in Nat /\ Len(Children[Content(path)]) \in Nat
        /\ call.next <= Len(Children[Content(path)]) + 1
        /\ call.head > Len(Children[Content(path)])
    BY <1>2, GraphFacts DEF StateOK, Calls, Push, PartsPlaced
  <2> QED
    BY <2>1, <2>2, <2>3
<1>7. WalksOK'
  BY <1>1, <1>S, <1>5, <1>6, WalkStep DEF Inv
<1> QED
  BY <1>1, <1>7 DEF Inv

LEMMA FailPushKeeps ==
    ASSUME Inv, NEW r \in Repositories, NEW path \in DOMAIN calls[r], FailPush(r, path)
    PROVE  Inv'
<1>1. faults' \in Nat
  BY FailureCounts DEF FailPush
<1>2. TypesOK' /\ Grown /\ ManifestsComplete' /\ LocationsTrue'
  BY <1>1, PlaceKeeps DEF FailPush
<1>3. WalksOK'
  BY <1>2, FailKeeps DEF FailPush
<1> QED
  BY <1>2, <1>3 DEF Inv

\* The sweep over the referrers moves to the next, or ends.
LEMMA ReferrerSteps ==
    ASSUME Inv, NEW r \in Repositories, NEW path \in DOMAIN calls[r],
           SkipReferrer(r, path) \/ EndReferrers(r, path)
    PROVE  Inv'
<1> DEFINE call == calls[r][path]
           skipped == [call EXCEPT !.head = @ + 1]
           swept == [call EXCEPT !.pc = "sidecars", !.head = 1]
<1>1. TypesOK' /\ Grown /\ ManifestsComplete' /\ LocationsTrue'
  BY QuietKeeps DEF SkipReferrer, EndReferrers, memory, Inv, TypesOK
<1>2. /\ Content(path) \in Manifests /\ call \in Calls /\ StateOK(path, call, heldM[r], heldB[r])
      /\ call.pc = "referrers"
      /\ \A q \in DOMAIN calls[r] : Under(path, q) => LinkOK(path, call, q[Len(path) + 1])
  BY CallFacts DEF SkipReferrer, EndReferrers, CarryingNext, At
<1>3. Content(path) \in heldM'[r]
  <2>1. heldM[r] \subseteq heldM'[r]
    BY <1>1 DEF Grown
  <2>2. Content(path) \in heldM[r]
    BY <1>2 DEF StateOK, Pushed
  <2> QED
    BY <2>1, <2>2
<1>4. skipped \in Calls /\ skipped.pc = "referrers"
  BY <1>2 DEF Calls
<1>5. swept \in Calls /\ swept.pc = "sidecars" /\ swept.head = 1
  <2>1. "sidecars" \in Phases
    BY DEF Phases
  <2> QED
    BY <1>2, <2>1, CallMoves, Zenon
<1>6. \A q \in DOMAIN calls[r] : ~Under(path, q)
  <2>1. CASE SkipReferrer(r, path)
    BY <2>1, <1>2, NoneCalled DEF SkipReferrer
  <2>2. CASE EndReferrers(r, path)
    <3>1. call.head > Len(Referrers[Content(path)]) /\ call.head \in Nat
          /\ Len(Referrers[Content(path)]) \in Nat
      BY <2>2, <1>2, GraphFacts DEF EndReferrers, Calls
    <3> QED
      BY <3>1, <1>2 DEF LinkOK
  <2> QED
    BY <2>1, <2>2
<1>7. Step(r, path, skipped) \/ Step(r, path, swept)
  BY DEF SkipReferrer, EndReferrers
<1> HIDE DEF skipped, swept
<1>8. StateOK(path, skipped, heldM'[r], heldB'[r]) /\ StateOK(path, swept, heldM'[r], heldB'[r])
  BY <1>3, <1>4, <1>5 DEF StateOK, Pushed
<1>9. WalksOK'
  BY <1>1, <1>6, <1>7, <1>8, WalkStep DEF Inv
<1> QED
  BY <1>1, <1>9 DEF Inv

LEMMA ClaimKeeps ==
    ASSUME Inv, NEW r \in Repositories, NEW path \in DOMAIN calls[r], ClaimReferrer(r, path)
    PROVE  Inv'
<1> DEFINE call == calls[r][path]
           link == [as |-> "referrer", pos |-> call.head, content |-> Referrer(r, path)]
<1>1. /\ Content(path) \in Manifests /\ call \in Calls /\ StateOK(path, call, heldM[r], heldB[r])
      /\ call.pc = "referrers" /\ call.head <= Len(Referrers[Content(path)]) /\ path \in Paths
  BY CallFacts DEF ClaimReferrer, CarryingNext, At
<1>2. Referrer(r, path) \in Manifests /\ Referrer(r, path) = Referrers[Content(path)][call.head]
  <2>1. call.head \in Nat \ {0} /\ Len(Referrers[Content(path)]) \in Nat
    BY <1>1, GraphFacts DEF Calls
  <2>2. call.head \in 1..Len(Referrers[Content(path)])
    BY <2>1, <1>1
  <2> QED
    BY <2>2, <1>1, GraphFacts DEF Referrer
<1>3. TypesOK' /\ Grown /\ ManifestsComplete' /\ LocationsTrue'
  <2>1. UNCHANGED <<destination, position, copied, location, dropped, faults>>
        /\ claims' = claims \cup {<<r, Referrer(r, path)>>}
    BY DEF ClaimReferrer
  <2>2. claims' \subseteq Repositories \X Manifests /\ faults' \in Nat
        /\ dropped' \in [Repositories -> SUBSET Manifests]
    BY <2>1, <1>2 DEF Inv, TypesOK
  <2> QED
    BY <2>1, <2>2, QuietKeeps
<1>4. /\ link \in Links /\ link.as = "referrer" /\ link.pos = call.head
      /\ link.content = Referrers[Content(path)][call.head]
  BY <1>1, <1>2 DEF Links, Roles, Calls
<1>S. CallBelow(r, path, call, link)
  BY DEF ClaimReferrer
<1> HIDE DEF link
<1>5. \A q \in DOMAIN calls[r] : ~Under(path, q)
  BY <1>1, NoneCalled DEF ClaimReferrer
<1>6. LinkOK(path, call, link)
  BY <1>1, <1>4 DEF LinkOK
<1>7. StateOK(path, call, heldM'[r], heldB'[r])
  BY <1>1, <1>3 DEF StateOK, Pushed, Grown
<1>8. Append(path, link) \notin DOMAIN calls[r]
  <2>1. /\ Append(path, link) \in Paths /\ Len(path) \in Nat
        /\ Len(Append(path, link)) = Len(path) + 1
        /\ \A i \in 1..Len(path) : Append(path, link)[i] = path[i]
    BY <1>1, <1>4, PathAppend, PathLast
  <2>2. Under(path, Append(path, link))
    BY <2>1 DEF Under
  <2> QED
    BY <2>2, <1>5
<1>9. WalksOK'
  BY <1>3, <1>4, <1>5, <1>6, <1>7, <1>8, <1>S, WalkBelow DEF Inv
<1> QED
  BY <1>3, <1>9 DEF Inv

LEMMA EndReferrerKeeps ==
    ASSUME Inv, NEW r \in Repositories, NEW path \in DOMAIN calls[r], EndReferrer(r, path)
    PROVE  Inv'
<1> DEFINE call == calls[r][path]
           next == [call EXCEPT !.head = @ + 1]
<1>1. /\ Content(path) \in Manifests /\ call \in Calls /\ StateOK(path, call, heldM[r], heldB[r])
      /\ call.pc = "referrers" /\ call.head <= Len(Referrers[Content(path)])
  BY CallFacts DEF EndReferrer, CarryingNext, At
<1>2. Referrer(r, path) \in Manifests
  <2>1. call.head \in Nat \ {0} /\ Len(Referrers[Content(path)]) \in Nat
    BY <1>1, GraphFacts DEF Calls
  <2>2. call.head \in 1..Len(Referrers[Content(path)])
    BY <2>1, <1>1
  <2> QED
    BY <2>2, <1>1, GraphFacts DEF Referrer
<1>3. UNCHANGED <<heldM, heldB, sidecar, position, copied, location, claims, dropped, faults>>
      /\ fallback' = Appended(r, path)
  BY DEF EndReferrer, memory
<1>4. fallback' \in [Repositories -> [Manifests -> SUBSET Manifests]]
  BY <1>1, <1>2, <1>3 DEF Appended, Inv, TypesOK, DestinationTypes
<1>5. TypesOK'
  BY <1>3, <1>4 DEF Inv, TypesOK, DestinationTypes
<1>6. Grown /\ ManifestsComplete' /\ LocationsTrue'
  BY <1>3, StillKeeps DEF Still
<1>7. next \in Calls /\ next.pc = "referrers"
  BY <1>1 DEF Calls
<1>S. SetCall(r, path, next)
  BY DEF EndReferrer
<1> HIDE DEF next
<1>8. StateOK(path, next, heldM'[r], heldB'[r])
  BY <1>1, <1>3, <1>7 DEF StateOK, Pushed
<1>9. WalksOK'
  BY <1>6, <1>8, <1>S, WalkCut DEF Inv
<1> QED
  BY <1>5, <1>6, <1>9 DEF Inv

LEMMA FailReferrerKeeps ==
    ASSUME Inv, NEW r \in Repositories, NEW path \in DOMAIN calls[r], FailReferrer(r, path)
    PROVE  Inv'
<1>1. UNCHANGED <<destination, position, copied, location, dropped>> /\ Fail(r, path)
  BY DEF FailReferrer
<1>2. claims' \subseteq Repositories \X Manifests /\ dropped' \in [Repositories -> SUBSET Manifests]
  BY DEF FailReferrer, ReleaseReferrer, Inv, TypesOK
<1>3. faults' \in Nat
  BY FailureCounts DEF FailReferrer, Inv, TypesOK
<1>4. TypesOK' /\ Grown /\ ManifestsComplete' /\ LocationsTrue'
  BY <1>1, <1>2, <1>3, QuietKeeps
<1>5. WalksOK'
  BY <1>1, <1>4, FailKeeps
<1> QED
  BY <1>4, <1>5 DEF Inv

LEMMA CallSidecarKeeps ==
    ASSUME Inv, NEW r \in Repositories, NEW path \in DOMAIN calls[r], CallSidecar(r, path)
    PROVE  Inv'
<1> DEFINE call == calls[r][path]
           link == [as |-> "sidecar", pos |-> 1, content |-> SourceSidecar(Content(path))]
<1>1. TypesOK' /\ Grown /\ ManifestsComplete' /\ LocationsTrue'
  BY QuietKeeps DEF CallSidecar, memory, Inv, TypesOK
<1>2. /\ Content(path) \in Manifests /\ call \in Calls /\ StateOK(path, call, heldM[r], heldB[r])
      /\ call.pc = "sidecars" /\ path \in Paths
  BY CallFacts DEF CallSidecar, At
<1>3. SourceSidecar(Content(path)) \in Manifests
  BY <1>2, GraphFacts DEF CallSidecar
<1>4. /\ link \in Links /\ link.as = "sidecar" /\ link.pos = 1
      /\ link.content = SourceSidecar(Content(path))
  BY <1>3 DEF Links, Roles
<1>S. CallBelow(r, path, call, link)
  BY DEF CallSidecar
<1> HIDE DEF link
<1>5. \A q \in DOMAIN calls[r] : ~Under(path, q)
  BY NoneUnder DEF CallSidecar
<1>6. LinkOK(path, call, link)
  BY <1>2, <1>4 DEF LinkOK
<1>7. StateOK(path, call, heldM'[r], heldB'[r])
  BY <1>1, <1>2 DEF StateOK, Pushed, Grown
<1>8. Append(path, link) \notin DOMAIN calls[r]
  <2>1. /\ Append(path, link) \in Paths /\ Len(path) \in Nat
        /\ Len(Append(path, link)) = Len(path) + 1
        /\ \A i \in 1..Len(path) : Append(path, link)[i] = path[i]
    BY <1>2, <1>4, PathAppend, PathLast
  <2>2. Under(path, Append(path, link))
    BY <2>1 DEF Under
  <2> QED
    BY <2>2, <1>5
<1>9. WalksOK'
  BY <1>1, <1>4, <1>5, <1>6, <1>7, <1>8, <1>S, WalkBelow DEF Inv
<1> QED
  BY <1>1, <1>9 DEF Inv

LEMMA ReturnKeeps ==
    ASSUME Inv, NEW r \in Repositories, NEW path \in DOMAIN calls[r], Return(r, path)
    PROVE  Inv'
<1> DEFINE call == calls[r][path]
           next == [call EXCEPT !.pc = "done"]
<1>1. TypesOK' /\ Grown /\ ManifestsComplete' /\ LocationsTrue'
  BY QuietKeeps DEF Return, memory, Inv, TypesOK
<1>2. call \in Calls /\ StateOK(path, call, heldM[r], heldB[r]) /\ call.pc = "sidecars"
  BY CallFacts DEF Return, At
<1>3. next \in Calls /\ next.pc = "done"
  BY <1>2 DEF Calls, Phases
<1>S. SetCall(r, path, next)
  BY DEF Return
<1> HIDE DEF next
<1>4. StateOK(path, next, heldM'[r], heldB'[r])
  BY <1>1, <1>2, <1>3 DEF StateOK, Pushed, Grown
<1>5. WalksOK'
  BY <1>1, <1>4, <1>S, WalkCut DEF Inv
<1> QED
  BY <1>1, <1>5 DEF Inv

LEMMA ForgetKeeps ==
    ASSUME Inv, NextRun \/ Abort
    PROVE  Inv'
<1>1. ForgetRun /\ faults' \in Nat
  BY FailureCounts DEF NextRun, Abort, Inv, TypesOK
<1>2. UNCHANGED <<heldM, heldB, fallback, sidecar>> /\ location' = [b \in Blobs |-> None]
  BY <1>1 DEF ForgetRun, destination
<1>3. TypesOK'
  BY <1>1, <1>2 DEF ForgetRun, Inv, TypesOK, DestinationTypes
<1>4. ManifestsComplete' /\ LocationsTrue'
  BY <1>2 DEF Inv, ManifestsComplete, LocationsTrue
<1>5. DOMAIN calls' = Repositories /\ \A r \in Repositories : calls'[r] = NoCalls
  BY <1>1 DEF ForgetRun
<1>6. WalksOK'
  BY <1>5, NoTree DEF WalksOK
<1> QED
  BY <1>3, <1>4, <1>6 DEF Inv

LEMMA OperatorKeeps ==
    ASSUME Inv, NEW r \in Repositories, NEW m \in Manifests, OperatorSigns(r, m)
    PROVE  Inv'
<1>1. UNCHANGED <<heldM, heldB, fallback, calls, position, copied, location, claims, dropped, faults>>
      /\ sidecar' = [sidecar EXCEPT ![r][m] = Own]
  BY DEF OperatorSigns, memory
<1>2. TypesOK'
  BY <1>1 DEF Inv, TypesOK, DestinationTypes
<1>3. WalksOK' /\ ManifestsComplete' /\ LocationsTrue'
  BY <1>1 DEF Inv, WalksOK, ManifestsComplete, LocationsTrue
<1> QED
  BY <1>2, <1>3 DEF Inv

-----------------------------------------------------------------------------

LEMMA InvInit == Init => Inv
<1> SUFFICES ASSUME Init PROVE Inv
  OBVIOUS
<1>1. TypesOK
  BY DEF Init, TypesOK, DestinationTypes
<1>2. WalksOK
  BY NoTree DEF Init, WalksOK
<1>3. ManifestsComplete /\ LocationsTrue
  BY DEF Init, ManifestsComplete, LocationsTrue
<1> QED
  BY <1>1, <1>2, <1>3 DEF Inv

LEMMA InvNext == Inv /\ [Next]_vars => Inv'
<1> SUFFICES ASSUME Inv, [Next]_vars PROVE Inv'
  OBVIOUS
<1>1. CASE UNCHANGED vars
  BY <1>1 DEF vars, destination, memory, Inv, TypesOK, DestinationTypes, WalksOK,
              ManifestsComplete, LocationsTrue
<1>2. CASE NextRun \/ Abort
  BY <1>2, ForgetKeeps
<1>3. ASSUME NEW r \in Repositories, NEW m \in Manifests, OperatorSigns(r, m)
      PROVE  Inv'
  BY <1>3, OperatorKeeps
<1>4. ASSUME NEW r \in Repositories, SkipCopied(r) \/ BeginTag(r) \/ EndTag(r)
      PROVE  Inv'
  BY <1>4, TagKeeps
<1>5. ASSUME NEW r \in Repositories, NEW path \in DOMAIN calls[r], CopyParts(r, path)
      PROVE  Inv'
  <2>1. ASSUME NEW b \in Blobs, CopyBlob(r, path, b)
        PROVE  Inv'
    BY <2>1, BlobWaits, BlobLands, FailUploadKeeps DEF CopyBlob
  <2> QED
    BY <1>5, <2>1, FetchKeeps, FailuresKeep, CallChildKeeps, TakeChildKeeps, PushKeeps, FailPushKeeps
       DEF CopyParts
<1>6. ASSUME NEW r \in Repositories, NEW path \in DOMAIN calls[r], CopySignatures(r, path)
      PROVE  Inv'
  BY <1>6, ReferrerSteps, ClaimKeeps, EndReferrerKeeps, FailReferrerKeeps, CallSidecarKeeps,
     ReturnKeeps, FailuresKeep DEF CopySignatures
<1> QED
  BY <1>1, <1>2, <1>3, <1>4, <1>5, <1>6 DEF Next, CopyStep

\* The invariant's typing of a walk is the component's.
LEMMA InvTypes == Inv => TypeOK
<1> SUFFICES ASSUME Inv PROVE TypeOK
  OBVIOUS
<1>1. ASSUME NEW r \in Repositories
      PROVE  CallTree(calls[r])
  <2> SUFFICES ASSUME NEW path \in DOMAIN calls[r]
               PROVE  /\ path \in Seq(Links) /\ path # <<>> /\ calls[r][path] \in Calls
                      /\ Len(path) > 1 => Front(path) \in DOMAIN calls[r]
    BY DEF CallTree
  <2>1. path \in Paths /\ calls[r][path] \in Calls /\ Len(path) \in Nat
    BY CallFacts, PathLast
  <2>2. ASSUME Len(path) > 1
        PROVE  SubSeq(path, 1, Len(path) - 1) \in DOMAIN calls[r]
    <3>1. Len(path) - 1 \in 1..Len(path)
      BY <2>1, <2>2
    <3> QED
      BY <3>1 DEF Inv, WalksOK, TreeOK
  <2> QED
    BY <2>1, <2>2 DEF Paths, Front
<1> QED
  BY <1>1 DEF Inv, TypesOK, TypeOK, RunTypes

LEMMA SpecInv == Spec => []Inv
  BY InvInit, InvNext, PTL DEF Spec

-----------------------------------------------------------------------------

\* Every variable has its type in every state: in particular each call under way
\* was made by a call under way.
THEOREM TypeCorrect == Spec => []TypeOK
  BY SpecInv, InvTypes, PTL

\* A manifest at the destination has its blobs and its manifests there too, whatever
\* fails, is dropped, lands unanswered or is killed (copy_manifest_tree_at).
THEOREM NothingDangles == Spec => []ManifestsComplete
<1>1. Inv => ManifestsComplete
  BY DEF Inv
<1> QED
  BY <1>1, SpecInv, PTL

\* A repository remembered for a blob holds it (record_location, `mounted_from`).
THEOREM MemoryTrue == Spec => []LocationsTrue
<1>1. Inv => LocationsTrue
  BY DEF Inv
<1> QED
  BY <1>1, SpecInv, PTL


-----------------------------------------------------------------------------
(* A content reported copied is signed throughout, what was dropped excepted.  *)
(* A call that skips a claimed referrer relies on whoever claimed it, so the   *)
(* invariant follows every claim: it is of a carry under way, or of one that   *)
(* was dropped, or of one that came to its end.  A skip of a carry under way   *)
(* is sound because its failure would reach the call that made the skip, a     *)
(* carry itself excepted: of a carry's content no other call is under way.     *)

\* What a copy of `m` goes on to.
Heirs(m) == Range(Children[m]) \cup Range(Referrers[m])

\* A walk comes to an end: past a ceiling on depth or hops it would be refused.
Descending(rank) ==
    /\ rank \in [Manifests -> Nat]
    /\ \A m \in Manifests : \A n \in Heirs(m) : rank[n] < rank[m]
Acyclic == \E rank : Descending(rank)
Rank == CHOOSE rank : Descending(rank)

\* A manifest has one subject, and either layers or children.
OneSubject ==
    \A m, n \in Manifests : Range(Referrers[m]) \cap Range(Referrers[n]) # {} => m = n
ImagesAreLeaves == \A m \in Manifests : Layers[m] = {} \/ Children[m] = <<>>

\* What refers to a manifest is no index, and no index lists it.
ReferrersApart ==
    \A m \in Manifests : \A n \in Range(Referrers[m]) :
        Children[n] = <<>> /\ \A x \in Manifests : n \notin Range(Children[x])

SoundGraph == Acyclic /\ OneSubject /\ ImagesAreLeaves /\ ReferrersApart

\* What a destination repository holds.
Site(r) == [held |-> heldM[r], index |-> fallback[r], tags |-> sidecar[r]]

\* The manifests in `S` are held with their signatures and the children and signatures are
\* in `S` too, the signatures in `X` excepted.
Carries(d, X, S) ==
    \A m \in S :
        /\ m \in d.held
        /\ Fallback => Range(Referrers[m]) \ X \subseteq d.index[m]
        /\ Sidecar[m] # None => d.tags[m] # None
        /\ Range(Children[m]) \subseteq S
        /\ Range(Referrers[m]) \ X \subseteq S

\* The contents held with every signature of their tree but those in `X`.
Whole(d, X) == UNION {S \in SUBSET Manifests : Carries(d, X, S)}

\* The carry of `n` came to its end.
Settled(n, d, X) ==
    /\ n \in Whole(d, X)
    /\ \E m \in Manifests : n \in Range(Referrers[m]) /\ (Fallback => n \in d.index[m])

\* `n` is excepted, or has been carried as a referrer of `m`.
CarriedAs(m, n, d, X) == n \in X \/ (n \in Whole(d, X) /\ (Fallback => n \in d.index[m]))

\* The path of a call: a descent, once swept.
PathOK(q) ==
    /\ q[1].as = "tag"
    /\ \A i \in 2..Len(q) : q[i].as # "tag"
    /\ Swept(q) => \A i \in 1..(Len(q) - 1) : Rank[Content(q)] < Rank[q[i].content]

\* What holds of a call whatever has failed.
Fits(q, call, tags) ==
    /\ PathOK(q)
    /\ \A b \in Blobs : call.blob[b] # "none" => call.pc = "parts" /\ b \in Layers[Content(q)]
    /\ call.pc \in {"referrers", "sidecars"} => Swept(q)
    /\ call.pc = "done" /\ Last(q).as = "sidecar" => tags[Content(Front(q))] # None

\* What a call has carried where it stands.
SignedOK(q, call, d, X) ==
    /\ call.pc = "parts" /\ Swept(q) =>
         \A i \in 1..(call.head - 1) : Children[Content(q)][i] \in Whole(d, X)
    /\ call.pc \in {"referrers", "sidecars"} =>
         /\ Range(Children[Content(q)]) \subseteq Whole(d, X)
         /\ \A i \in 1..Len(Referrers[Content(q)]) :
              (call.pc = "sidecars" \/ i < call.head) =>
                  CarriedAs(Content(q), Referrers[Content(q)][i], d, X)
    /\ call.pc = "done" /\ Swept(q) => Content(q) \in Whole(d, X)

\* A carry, what is being carried, and a walk that no failure will end.
Carry(q) == Last(q).as = "referrer"
Live(tree) == {Content(q) : q \in {p \in DOMAIN tree : Carry(p)}}
Unbroken(tree) == \A q \in DOMAIN tree : tree[q].pc # "failed"

\* A carry relies on no other; any other call does, but not once the walk is to fail.
Excused(q, tree, lost) == IF Carry(q) THEN lost ELSE lost \cup Live(tree)
Trusted(q, tree) == Carry(q) \/ Unbroken(tree)

WalkSigned(tree, lost, d) ==
    /\ \A p, q \in DOMAIN tree : p[1] = q[1]
    /\ \A q \in DOMAIN tree :
         /\ Fits(q, tree[q], d.tags)
         /\ Trusted(q, tree) => SignedOK(q, tree[q], d, Excused(q, tree, lost))

\* What is being carried is claimed, and is carried once.
CarriesClaimed(tree, held) ==
    /\ \A q \in DOMAIN tree : Carry(q) => Content(q) \in held
    /\ \A p, q \in DOMAIN tree : Carry(p) /\ Carry(q) /\ Content(p) = Content(q) => p = q

ClaimOK(n, tree, lost, d) == n \in Live(tree) \/ n \in lost \/ Settled(n, d, lost)

TagsHeld(d) == \A m \in Manifests : d.tags[m] \in Manifests => d.tags[m] \in d.held

\* One repository: its walk, the claims `held` in it, the carries `lost` in it and the
\* contents `done` in it.
RepositoryOK(tree, held, lost, done, d) ==
    /\ WalkSigned(tree, lost, d)
    /\ CarriesClaimed(tree, held)
    /\ \A n \in held : ClaimOK(n, tree, lost, d)
    /\ done \subseteq Whole(d, lost)
    /\ TagsHeld(d)

ClaimsIn(r) == {n \in Manifests : <<r, n>> \in claims}

SignedInv == \A r \in Repositories :
    RepositoryOK(calls[r], ClaimsIn(r), dropped[r], copied[r], Site(r))

-----------------------------------------------------------------------------
(* The tree of a content.                                                     *)

LEMMA HeirsTyped ==
    ASSUME NEW m \in Manifests
    PROVE  /\ Range(Children[m]) \subseteq Manifests /\ Range(Referrers[m]) \subseteq Manifests
           /\ Heirs(m) \subseteq Manifests
           /\ \A i \in 1..Len(Children[m]) : Children[m][i] \in Range(Children[m])
           /\ \A i \in 1..Len(Referrers[m]) : Referrers[m][i] \in Range(Referrers[m])
           /\ \A n \in Range(Children[m]) : \E i \in 1..Len(Children[m]) : n = Children[m][i]
           /\ \A n \in Range(Referrers[m]) : \E i \in 1..Len(Referrers[m]) : n = Referrers[m][i]
<1>1. /\ Children[m] \in Seq(Manifests) /\ Referrers[m] \in Seq(Manifests)
      /\ \A i \in 1..Len(Children[m]) : Children[m][i] \in Manifests
      /\ \A i \in 1..Len(Referrers[m]) : Referrers[m][i] \in Manifests
  BY GraphFacts
<1>2. DOMAIN Children[m] = 1..Len(Children[m]) /\ DOMAIN Referrers[m] = 1..Len(Referrers[m])
  BY <1>1, LenProperties
<1> QED
  BY <1>1, <1>2 DEF Range, Heirs

LEMMA TreeHolds ==
    ASSUME NEW c \in Manifests
    PROVE  /\ Tree[c] \subseteq Manifests /\ c \in Tree[c]
           /\ \A m \in Tree[c] : Heirs(m) \subseteq Tree[c]
<1>1. Tree[c] = {m \in Manifests : \A S \in SUBSET Manifests :
                    (c \in S /\ \A n \in S : Heirs(n) \subseteq S) => m \in S}
  BY DEF Tree, Heirs
<1>2. ASSUME NEW m \in Tree[c], NEW n \in Heirs(m) PROVE n \in Tree[c]
  <2>1. m \in Manifests /\ n \in Manifests
    BY <1>1, HeirsTyped
  <2>2. ASSUME NEW S \in SUBSET Manifests, c \in S, \A x \in S : Heirs(x) \subseteq S PROVE n \in S
    BY <1>1, <2>2
  <2> QED
    BY <1>1, <2>1, <2>2
<1> QED
  BY <1>1, <1>2

\* A content is whole with what it goes on to, and with what else makes a whole.
LEMMA WholeHolds ==
    ASSUME NEW d, NEW X
    PROVE  Whole(d, X) \in SUBSET Manifests /\ Carries(d, X, Whole(d, X))
<1>1. ASSUME NEW m \in Whole(d, X)
      PROVE  /\ m \in Manifests /\ m \in d.held
             /\ Fallback => Range(Referrers[m]) \ X \subseteq d.index[m]
             /\ Sidecar[m] # None => d.tags[m] # None
             /\ Range(Children[m]) \subseteq Whole(d, X)
             /\ Range(Referrers[m]) \ X \subseteq Whole(d, X)
  <2>1. PICK S \in SUBSET Manifests : Carries(d, X, S) /\ m \in S
    BY DEF Whole
  <2>2. S \subseteq Whole(d, X)
    BY <2>1 DEF Whole
  <2> QED
    BY <2>1, <2>2 DEF Carries
<1> QED
  BY <1>1 DEF Carries

LEMMA WholeTakes ==
    ASSUME NEW d, NEW X, NEW S \in SUBSET Manifests, Carries(d, X, S \cup Whole(d, X))
    PROVE  S \subseteq Whole(d, X)
<1>1. S \cup Whole(d, X) \in SUBSET Manifests
  BY WholeHolds
<1> QED
  BY <1>1 DEF Whole

\* A content is whole when it and all it goes on to are.
LEMMA WholeFrom ==
    ASSUME NEW d, NEW X, NEW c \in Manifests, c \in d.held,
           Fallback => Range(Referrers[c]) \ X \subseteq d.index[c],
           Sidecar[c] # None => d.tags[c] # None,
           Range(Children[c]) \subseteq Whole(d, X), Range(Referrers[c]) \ X \subseteq Whole(d, X)
    PROVE  c \in Whole(d, X)
<1>1. Carries(d, X, {c} \cup Whole(d, X))
  BY WholeHolds DEF Carries
<1> QED
  BY <1>1, WholeTakes

\* The destination gains and loses nothing.
Gains(d, d2) ==
    /\ d.held \subseteq d2.held
    /\ \A m \in Manifests : d.index[m] \subseteq d2.index[m] /\ (d.tags[m] # None => d2.tags[m] # None)

\* What is whole stays so when the destination gains, and when what is no longer excepted
\* is settled.
LEMMA WholeMoves ==
    ASSUME OneSubject, NEW d, NEW d2, Gains(d, d2), NEW X, NEW Y,
           \A n \in X \ Y : Settled(n, d2, Y)
    PROVE  Whole(d, X) \subseteq Whole(d2, Y)
<1> DEFINE A == Whole(d, X)
           B == Whole(d2, Y)
<1>1. A \in SUBSET Manifests /\ Carries(d, X, A) /\ B \in SUBSET Manifests /\ Carries(d2, Y, B)
  BY WholeHolds
<1>2. \A n \in X \ Y :
          n \in B /\ \E s \in Manifests : n \in Range(Referrers[s]) /\ (Fallback => n \in d2.index[s])
  BY DEF Settled
<1> HIDE DEF A, B
<1>3. ASSUME NEW m \in A, NEW n \in Range(Referrers[m]), n \in X \ Y
      PROVE  n \in B /\ (Fallback => n \in d2.index[m])
  <2>1. PICK s \in Manifests : n \in Range(Referrers[s]) /\ (Fallback => n \in d2.index[s])
    BY <1>2, <1>3
  <2>2. m \in Manifests
    BY <1>1
  <2>3. s = m
    BY <2>1, <2>2 DEF OneSubject
  <2> QED
    BY <2>1, <2>3, <1>2, <1>3
<1>4. ASSUME NEW m \in A
      PROVE  /\ m \in d2.held
             /\ Fallback => Range(Referrers[m]) \ Y \subseteq d2.index[m]
             /\ Sidecar[m] # None => d2.tags[m] # None
             /\ Range(Children[m]) \subseteq A \cup B
             /\ Range(Referrers[m]) \ Y \subseteq A \cup B
  <2>1. m \in Manifests
    BY <1>1
  <2>2. /\ m \in d.held
        /\ Fallback => Range(Referrers[m]) \ X \subseteq d.index[m]
        /\ Sidecar[m] # None => d.tags[m] # None
        /\ Range(Children[m]) \subseteq A /\ Range(Referrers[m]) \ X \subseteq A
    BY <1>1 DEF Carries
  <2> QED
    BY <2>1, <2>2, <1>3 DEF Gains
<1>5. Carries(d2, Y, A \cup B)
  BY <1>1, <1>4 DEF Carries
<1>6. A \subseteq B
  BY <1>1, <1>5, WholeTakes DEF B
<1> QED
  BY <1>6 DEF A, B

\* A content that is whole has in its tree nothing but what is whole and what was excepted.
LEMMA TreeWhole ==
    ASSUME NEW d, NEW X \in SUBSET Manifests, NEW c \in Whole(d, X)
    PROVE  \A m \in Tree[c] : m \in Whole(d, X) \/ m \in UNION {Tree[n] : n \in X}
<1> DEFINE W == Whole(d, X)
           F == UNION {Tree[n] : n \in X}
           S == W \cup F
<1>1. W \in SUBSET Manifests /\ Carries(d, X, W) /\ c \in W
  BY WholeHolds
<1>2. \A n \in X : Tree[n] \subseteq Manifests /\ n \in Tree[n] /\ \A m \in Tree[n] : Heirs(m) \subseteq Tree[n]
  BY TreeHolds
<1> HIDE DEF W
<1>3. \A m \in F : m \in Manifests /\ Heirs(m) \subseteq F
  BY <1>2
<1>4. \A n \in X : n \in F
  BY <1>2
<1> HIDE DEF F
<1>5. \A m \in W : Heirs(m) \subseteq S
  BY <1>1, <1>4 DEF Carries, Heirs
<1>6. S \in SUBSET Manifests /\ c \in S /\ \A n \in S : Range(Children[n]) \cup Range(Referrers[n]) \subseteq S
  BY <1>1, <1>3, <1>5 DEF Heirs
<1> HIDE DEF S
<1>7. c \in Manifests
  BY <1>1
<1>8. Tree[c] \subseteq S
  BY <1>6, <1>7 DEF Tree
<1> QED
  BY <1>8 DEF S, W, F

-----------------------------------------------------------------------------
(* What a call of a walk says of its caller.                                  *)

LEMMA CallerFacts ==
    ASSUME NEW tree, NEW hm, NEW hb, TreeOK(tree, hm, hb), NEW q \in DOMAIN tree,
           q[1].as = "tag", Last(q).as # "tag"
    PROVE  /\ Len(q) > 1 /\ Front(q) \in DOMAIN tree /\ Front(q) \in Paths
           /\ Len(Front(q)) = Len(q) - 1 /\ \A i \in 1..(Len(q) - 1) : Front(q)[i] = q[i]
           /\ Under(Front(q), q) /\ Content(Front(q)) \in Manifests
           /\ LinkOK(Front(q), tree[Front(q)], Last(q))
<1>1. q \in Paths /\ q \in Seq(Links) /\ Len(q) \in Nat \ {0}
  BY PathLast DEF TreeOK, Paths
<1>2. Len(q) > 1
  BY <1>1 DEF Last
<1>3. Len(q) - 1 \in 1..Len(q)
  BY <1>1, <1>2
<1>4. /\ Front(q) \in DOMAIN tree /\ Front(q) \in Paths /\ Len(Front(q)) = Len(q) - 1
      /\ \A i \in 1..(Len(q) - 1) : Front(q)[i] = q[i]
  BY <1>1, <1>3, PathPrefix DEF TreeOK, Front
<1>5. Under(Front(q), q)
  BY <1>1, <1>2, <1>4 DEF Under
<1>6. LinkOK(Front(q), tree[Front(q)], q[Len(Front(q)) + 1])
  BY <1>4, <1>5 DEF TreeOK
<1>7. q[Len(Front(q)) + 1] = Last(q)
  BY <1>1, <1>4 DEF Last
<1>8. Content(Front(q)) \in Manifests
  BY <1>4, PathLast
<1> QED
  BY <1>2, <1>4, <1>5, <1>6, <1>7, <1>8

LEMMA SweptOf ==
    ASSUME NEW q \in Paths
    PROVE  /\ Swept(q) <=> \A i \in 1..Len(q) : q[i].as # "sidecar"
           /\ \A i \in 1..Len(q) : q[i] \in Links
<1>1. q \in Seq(Links) /\ DOMAIN q = 1..Len(q)
  BY LenProperties DEF Paths
<1> QED
  BY <1>1, ElementOfSeq DEF Swept

\* A carry is on a path that is swept, through a caller that sweeps.
LEMMA CarryFacts ==
    ASSUME NEW tree, NEW hm, NEW hb, NEW lost, NEW d, TreeOK(tree, hm, hb),
           WalkSigned(tree, lost, d), NEW q \in DOMAIN tree, Carry(q)
    PROVE  /\ Len(q) > 1 /\ Front(q) \in DOMAIN tree /\ Under(Front(q), q)
           /\ tree[Front(q)].pc = "referrers"
           /\ Swept(q) /\ Swept(Front(q))
           /\ Content(Front(q)) \in Manifests /\ Content(q) \in Range(Referrers[Content(Front(q))])
<1>0. Last(q).as = "referrer"
  BY DEF Carry
<1>1. /\ Len(q) > 1 /\ Front(q) \in DOMAIN tree /\ Under(Front(q), q) /\ Front(q) \in Paths
      /\ Len(Front(q)) = Len(q) - 1 /\ \A i \in 1..(Len(q) - 1) : Front(q)[i] = q[i]
      /\ Content(Front(q)) \in Manifests /\ LinkOK(Front(q), tree[Front(q)], Last(q))
  BY <1>0, CallerFacts DEF WalkSigned, Fits, PathOK
<1>2. /\ tree[Front(q)].pc = "referrers"
      /\ tree[Front(q)].head <= Len(Referrers[Content(Front(q))])
      /\ Last(q).content = Referrers[Content(Front(q))][tree[Front(q)].head]
  BY <1>0, <1>1 DEF LinkOK
<1>3. Swept(Front(q))
  BY <1>1, <1>2 DEF WalkSigned, Fits
<1>4. q \in Paths /\ Len(q) \in Nat
  BY PathLast DEF TreeOK
<1>5. Swept(q)
  <2>1. \A i \in 1..Len(q) : i \in 1..(Len(q) - 1) \/ i = Len(q)
    BY <1>4
  <2>2. \A i \in 1..(Len(q) - 1) : q[i].as # "sidecar"
    BY <1>1, <1>3, SweptOf
  <2> QED
    BY <1>0, <1>4, <2>1, <2>2, SweptOf DEF Last
<1>6. tree[Front(q)].head \in 1..Len(Referrers[Content(Front(q))])
  <2>1. tree[Front(q)] \in Calls
    BY <1>1 DEF TreeOK, StateOK
  <2> QED
    BY <1>1, <1>2, <2>1, GraphFacts DEF Calls
<1>7. Content(q) \in Range(Referrers[Content(Front(q))])
  BY <1>1, <1>2, <1>6, HeirsTyped DEF Content
<1> QED
  BY <1>1, <1>2, <1>3, <1>5, <1>7

-----------------------------------------------------------------------------
(* What has been carried stays so.                                            *)

\* The call keeps what it carried when the destination gains, and when what is no longer
\* excepted is settled.
LEMMA SignedMoves ==
    ASSUME OneSubject, NEW d, NEW d2, Gains(d, d2), NEW X, NEW Y, \A n \in X \ Y : Settled(n, d2, Y),
           NEW q \in Paths, NEW call, SignedOK(q, call, d, X)
    PROVE  SignedOK(q, call, d2, Y)
<1> DEFINE m == Content(q)
<1>1. Whole(d, X) \subseteq Whole(d2, Y)
  BY WholeMoves
<1>2. m \in Manifests
  BY PathLast
<1> HIDE DEF m
<1>3. ASSUME NEW n \in Range(Referrers[m]), CarriedAs(m, n, d, X)
      PROVE  CarriedAs(m, n, d2, Y)
  <2>1. CASE n \in X \ Y
    <3>1. PICK s \in Manifests : n \in Range(Referrers[s]) /\ (Fallback => n \in d2.index[s])
      BY <2>1 DEF Settled
    <3>2. s = m
      BY <3>1, <1>2, <1>3 DEF OneSubject
    <3>3. n \in Whole(d2, Y)
      BY <2>1 DEF Settled
    <3> QED
      BY <3>1, <3>2, <3>3 DEF CarriedAs
  <2>2. CASE n \in Y
    BY <2>2 DEF CarriedAs
  <2>3. CASE n \notin X
    <3>1. n \in Whole(d, X) /\ (Fallback => n \in d.index[m])
      BY <2>3, <1>3 DEF CarriedAs
    <3> QED
      BY <3>1, <1>1, <1>2 DEF CarriedAs, Gains
  <2> QED
    BY <2>1, <2>2, <2>3
<1>4. \A i \in 1..Len(Referrers[m]) : CarriedAs(m, Referrers[m][i], d, X) => CarriedAs(m, Referrers[m][i], d2, Y)
  BY <1>2, <1>3, HeirsTyped
<1> QED
  BY <1>1, <1>4 DEF SignedOK, m

LEMMA FitsMoves ==
    ASSUME NEW d, NEW d2, Gains(d, d2), NEW q, NEW call, Fits(q, call, d.tags),
           Last(q).as = "sidecar" => Content(Front(q)) \in Manifests
    PROVE  Fits(q, call, d2.tags)
  BY DEF Gains, Fits

\* A carry that came to its end has come to it when the destination gains, and more is excepted.
LEMMA SettledMoves ==
    ASSUME OneSubject, NEW d, NEW d2, Gains(d, d2), NEW X, NEW Y, X \subseteq Y,
           NEW n, Settled(n, d, X)
    PROVE  Settled(n, d2, Y)
<1>1. Whole(d, X) \subseteq Whole(d2, Y)
  BY WholeMoves
<1> QED
  BY <1>1 DEF Settled, Gains

-----------------------------------------------------------------------------
(* The conditions on the graph.                                               *)

LEMMA RankFalls ==
    ASSUME Acyclic
    PROVE  /\ Rank \in [Manifests -> Nat]
           /\ \A m \in Manifests : \A n \in Heirs(m) : Rank[n] < Rank[m]
<1>1. Descending(Rank)
  BY DEF Acyclic, Rank
<1> QED
  BY <1>1 DEF Descending

LEMMA EmptyRange ==
    ASSUME NEW s, s = <<>>
    PROVE  Range(s) = {}
  BY DEF Range

\* A call made by a call whose path is in order has its path in order.
LEMMA PathGrows ==
    ASSUME Acyclic, NEW path \in Paths, PathOK(path), NEW link \in Links,
           \/ link.as = "child" /\ link.content \in Range(Children[Content(path)])
           \/ link.as = "referrer" /\ link.content \in Range(Referrers[Content(path)])
           \/ link.as = "sidecar"
    PROVE  PathOK(Append(path, link))
<1> DEFINE new == Append(path, link)
           c == Content(path)
<1>1. c \in Manifests /\ Len(path) \in Nat \ {0} /\ c = path[Len(path)].content
  BY PathLast DEF Content, Last
<1>2. /\ new \in Paths /\ Len(new) = Len(path) + 1 /\ Content(new) = link.content
      /\ \A i \in 1..Len(path) : new[i] = path[i]
      /\ new[Len(path) + 1] = link
  BY PathAppend DEF Content
<1>3. new[1] = path[1]
  <2>1. 1 \in 1..Len(path)
    BY <1>1
  <2> QED
    BY <2>1, <1>2
<1> HIDE DEF new
<1>4. ASSUME Swept(new)
      PROVE  Swept(path) /\ link.as # "sidecar"
  <2>1. Len(path) + 1 \in 1..Len(new) /\ \A i \in 1..Len(path) : i \in 1..Len(new)
    BY <1>1, <1>2
  <2> QED
    BY <2>1, <1>2, <1>4, SweptOf
<1>5. ASSUME Swept(new)
      PROVE  link.content \in Heirs(c)
  BY <1>4, <1>5 DEF Heirs
<1>6. ASSUME Swept(new), NEW i \in 1..(Len(new) - 1)
      PROVE  Rank[Content(new)] < Rank[new[i].content]
  <2>1. Rank[Content(new)] < Rank[c]
    BY <1>1, <1>2, <1>5, <1>6, RankFalls
  <2>2. i \in 1..Len(path)
    BY <1>1, <1>2
  <2>3. CASE i = Len(path)
    BY <2>1, <2>2, <2>3, <1>1, <1>2
  <2>4. CASE i # Len(path)
    <3>1. i \in 1..(Len(path) - 1)
      BY <2>2, <2>4, <1>1
    <3>2. Rank[c] < Rank[path[i].content]
      BY <3>1, <1>4, <1>6 DEF PathOK
    <3>3. path[i].content \in Manifests /\ link.content \in Manifests
      BY <2>2, SweptOf DEF Links
    <3>4. Rank[c] \in Nat /\ Rank[path[i].content] \in Nat /\ Rank[link.content] \in Nat
      BY <1>1, <3>3, RankFalls
    <3>5. new[i] = path[i]
      BY <2>2, <1>2
    <3> HIDE DEF c
    <3> QED
      BY <2>1, <3>2, <3>4, <3>5, <1>2
  <2> QED
    BY <2>3, <2>4
<1>7. ASSUME NEW i \in 2..Len(new)
      PROVE  new[i].as # "tag"
  <2>1. i \in 2..Len(path) \/ i = Len(path) + 1
    BY <1>1, <1>2
  <2>2. CASE i \in 2..Len(path)
    <3>1. i \in 1..Len(path)
      BY <2>2
    <3> QED
      BY <3>1, <2>2, <1>2 DEF PathOK
  <2> QED
    BY <2>1, <2>2, <1>2
<1> QED
  BY <1>3, <1>6, <1>7 DEF PathOK, new

-----------------------------------------------------------------------------
(* Calls of one content.                                                      *)

\* Two calls below `path` through one link are one, or one under the other.
LEMMA SameCallee ==
    ASSUME NEW tree, NEW hm, NEW hb, TreeOK(tree, hm, hb), NEW path \in DOMAIN tree,
           NEW c \in DOMAIN tree, Under(path, c), Len(c) = Len(path) + 1,
           NEW q \in DOMAIN tree, Under(path, q),
           q[Len(path) + 1].as = Last(c).as, q[Len(path) + 1].pos = Last(c).pos
    PROVE  q = c \/ Under(c, q)
<1> DEFINE n == Len(path) + 1
<1>1. /\ path \in Paths /\ Len(path) \in Nat \ {0}
      /\ c \in Paths /\ c \in Seq(Links) /\ Last(c) = c[n]
      /\ q \in Paths /\ q \in Seq(Links) /\ Len(q) \in Nat /\ Len(path) < Len(q)
  BY PathLast DEF TreeOK, Paths, Last, Under
<1>2. n \in 1..Len(c) /\ n \in 1..Len(q)
  BY <1>1
<1>3. c[n] \in Links /\ q[n] \in Links
  BY <1>1, <1>2, SweptOf
<1>4. LinkOK(path, tree[path], c[n]) /\ LinkOK(path, tree[path], q[n])
  BY DEF TreeOK
<1>5. c[n].content = q[n].content
  BY <1>1, <1>4 DEF LinkOK
<1>6. c[n] = q[n]
  <2> DEFINE a == c[n]
             b == q[n]
  <2>1. a \in Links /\ b \in Links /\ a.as = b.as /\ a.pos = b.pos /\ a.content = b.content
    BY <1>1, <1>3, <1>5
  <2> HIDE DEF a, b
  <2>2. a = b
    BY <2>1, LinkEqual
  <2> QED
    BY <2>2 DEF a, b
<1>7. \A i \in 1..Len(c) : q[i] = c[i]
  <2>1. \A i \in 1..Len(path) : q[i] = path[i] /\ c[i] = path[i]
    BY DEF Under
  <2>2. \A i \in 1..Len(c) : i \in 1..Len(path) \/ i = n
    BY <1>1
  <2> QED
    BY <2>1, <2>2, <1>6
<1>8. CASE Len(q) = Len(c)
  BY <1>1, <1>7, <1>8, PathEqual
<1>9. CASE Len(q) # Len(c)
  <2>1. Len(c) < Len(q)
    BY <1>1, <1>9
  <2> QED
    BY <2>1, <1>7 DEF Under
<1> QED
  BY <1>8, <1>9

\* The callee that `path` waits for has answered: no other call is below it that way.
LEMMA OneAnswers ==
    ASSUME Inv, NEW r \in Repositories, NEW path \in DOMAIN calls[r], NEW as \in Roles,
           NEW c \in Callee(r, path, as), calls[r][c].pc \in {"done", "failed"},
           NEW q \in DOMAIN calls[r], Under(path, q), q[Len(path) + 1].as = as,
           q[Len(path) + 1].pos = calls[r][path].head
    PROVE  q = c
<1>1. c \in DOMAIN calls[r] /\ Len(c) = Len(path) + 1 /\ IsPrefix(path, c)
      /\ Last(c).as = as /\ Last(c).pos = calls[r][path].head
  BY DEF Callee
<1>2. path \in Paths /\ c \in Paths /\ Len(path) \in Nat
  BY <1>1, CallFacts, PathLast
<1>3. Under(path, c)
  BY <1>1, <1>2, PrefixIsUnder
<1>4. TreeOK(calls[r], heldM[r], heldB[r])
  BY DEF Inv, WalksOK
<1>5. ~Under(c, q)
  BY <1>1, CallFacts DEF LinkOK
<1> QED
  BY <1>1, <1>3, <1>4, <1>5, SameCallee

\* A carry of what refers to a carry's content is made by that carry: no other call of the
\* content is under way.
LEMMA CarriedByOne ==
    ASSUME Acyclic, OneSubject, ReferrersApart, NEW tree, NEW hm, NEW hb, NEW lost, NEW d, NEW held,
           TreeOK(tree, hm, hb), WalkSigned(tree, lost, d), CarriesClaimed(tree, held),
           NEW path \in DOMAIN tree, Carry(path),
           NEW q \in DOMAIN tree, Carry(q), Content(q) \in Range(Referrers[Content(path)])
    PROVE  Front(q) = path
<1> DEFINE p == Front(q)
           m == Content(path)
<1>1. /\ p \in DOMAIN tree /\ Swept(p) /\ Content(p) \in Manifests
      /\ Content(q) \in Range(Referrers[Content(p)])
  BY CarryFacts
<1>2. /\ Len(path) > 1 /\ Swept(path) /\ Content(Front(path)) \in Manifests
      /\ m \in Range(Referrers[Content(Front(path))])
  BY CarryFacts
<1>3. /\ path \in Paths /\ Len(path) \in Nat /\ m \in Manifests /\ PathOK(path)
      /\ p \in Paths /\ Len(p) \in Nat \ {0} /\ PathOK(p) /\ Last(p) \in Links
      /\ p[1] = path[1]
  BY <1>1, PathLast DEF TreeOK, WalkSigned, Fits
<1> HIDE DEF p
<1>4. Content(p) = m
  BY <1>1, <1>3 DEF OneSubject
<1>5. CASE Last(p).as = "tag"
  <2>2. Len(p) = 1
    <3> DEFINE n == Len(p)
    <3>1. n \in Nat \ {0} /\ p[n].as = "tag" /\ \A i \in 2..n : p[i].as # "tag"
      BY <1>3, <1>5 DEF PathOK, Last
    <3> HIDE DEF n
    <3>2. n = 1
      BY <3>1
    <3> QED
      BY <3>2 DEF n
  <2> HIDE DEF m
  <2>3. path[1].content = m
    <3>1. Content(p) = p[1].content
      BY <2>2 DEF Content, Last
    <3> QED
      BY <3>1, <1>3, <1>4
  <2>4. 1 \in 1..(Len(path) - 1)
    BY <1>2, <1>3
  <2>5. Rank[m] < Rank[path[1].content]
    BY <2>4, <1>2, <1>3 DEF PathOK, m
  <2>6. Rank[m] \in Nat
    BY <1>3, RankFalls
  <2> QED
    BY <2>3, <2>5, <2>6
<1>6. CASE Last(p).as = "child"
  <2> DEFINE f == Front(p)
  <2>1. /\ f \in DOMAIN tree /\ Content(f) \in Manifests /\ LinkOK(f, tree[f], Last(p))
    BY <1>1, <1>3, <1>6, CallerFacts DEF PathOK
  <2> HIDE DEF f
  <2>2. /\ tree[f].head <= Last(p).pos /\ Last(p).pos < tree[f].next
        /\ m = Children[Content(f)][Last(p).pos] /\ tree[f].pc = "parts"
    BY <2>1, <1>4, <1>6 DEF LinkOK, Content
  <2>3. StateOK(f, tree[f], hm, hb)
    BY <2>1 DEF TreeOK
  <2>4. /\ tree[f].head \in Nat \ {0} /\ tree[f].next \in Nat
        /\ tree[f].next <= Len(Children[Content(f)]) + 1
    BY <2>2, <2>3 DEF StateOK, Calls
  <2>5. Last(p).pos \in Nat /\ Len(Children[Content(f)]) \in Nat
    BY <2>1, <1>3, GraphFacts DEF Links
  <2>6. Last(p).pos \in 1..Len(Children[Content(f)])
    BY <2>2, <2>4, <2>5
  <2>7. m \in Range(Children[Content(f)])
    BY <2>1, <2>2, <2>6, HeirsTyped
  <2> QED
    BY <2>1, <2>7, <1>2 DEF ReferrersApart
<1>7. CASE Last(p).as = "referrer"
  BY <1>1, <1>4, <1>7 DEF CarriesClaimed, Carry, p
<1>8. Last(p).as # "sidecar"
  <2>1. Len(p) \in 1..Len(p)
    BY <1>3
  <2> QED
    BY <2>1, <1>1, <1>3, SweptOf DEF Last
<1> QED
  BY <1>3, <1>5, <1>6, <1>7, <1>8 DEF Links, Roles, p

-----------------------------------------------------------------------------
(* The changes of a state.                                                    *)

\* A step places at the destination of `r` alone, and takes nothing away.
Placed(r) ==
    /\ Gains(Site(r), Site(r)')
    /\ TagsHeld(Site(r)')
    /\ \A s \in Repositories \ {r} : Site(s)' = Site(s)

\* A carry that ends gives its claim back, is dropped or has come to its end, and no
\* failure is forgotten, nor is a claim given back without one.
Kept(r) ==
    /\ dropped[r] \subseteq dropped'[r]
    /\ \A n \in Live(calls[r]) : <<r, n>> \in claims' =>
         n \in Live(calls'[r]) \/ n \in dropped'[r] \/ Settled(n, Site(r)', dropped'[r])
    /\ Unbroken(calls'[r]) =>
         /\ Unbroken(calls[r])
         /\ \A n \in Manifests : <<r, n>> \in claims => <<r, n>> \in claims'

\* What a call of `r` is held to after the step.
SignedNext(r, q, call) ==
    Trusted(q, calls'[r]) => SignedOK(q, call, Site(r)', Excused(q, calls'[r], dropped'[r]))

\* The call at `path` becomes `call`, those in `ended` are no more and those in `new` are made.
Changed(r, path, ended, new, call) ==
    /\ \A s \in Repositories \ {r} : calls'[s] = calls[s]
    /\ DOMAIN calls'[r] = (DOMAIN calls[r] \ ended) \cup new
    /\ \A q \in DOMAIN calls'[r] : calls'[r][q] =
         IF q = path THEN call ELSE IF q \in DOMAIN calls[r] THEN calls[r][q] ELSE Entered

\* The claims and the dropped carries of the other repositories.
Apart(r) == \A s \in Repositories \ {r} :
    ClaimsIn(s)' = ClaimsIn(s) /\ dropped'[s] = dropped[s] /\ copied'[s] = copied[s]

LEMMA ChangedEnd ==
    ASSUME Inv, NEW r \in Repositories, NEW path \in DOMAIN calls[r], NEW ended, NEW call,
           EndCalls(r, path, ended, call)
    PROVE  Changed(r, path, ended, {}, call)
<1> DEFINE tree2 == [q \in DOMAIN calls[r] \ ended |-> IF q = path THEN call ELSE calls[r][q]]
<1>1. calls' = [calls EXCEPT ![r] = tree2]
  BY DEF EndCalls, Inv, WalksOK
<1>2. calls'[r] = tree2 /\ \A s \in Repositories \ {r} : calls'[s] = calls[s]
  BY <1>1 DEF Inv, WalksOK
<1>3. /\ DOMAIN tree2 = DOMAIN calls[r] \ ended
      /\ \A q \in DOMAIN tree2 : tree2[q] = IF q = path THEN call ELSE calls[r][q]
  OBVIOUS
<1> HIDE DEF tree2
<1> QED
  BY <1>2, <1>3 DEF Changed

LEMMA ChangedStep ==
    ASSUME Inv, NEW r \in Repositories, NEW path \in DOMAIN calls[r], NEW call, Step(r, path, call)
    PROVE  Changed(r, path, {}, {}, call)
<1> DEFINE tree2 == [calls[r] EXCEPT ![path] = call]
<1>1. calls' = [calls EXCEPT ![r] = tree2]
  BY DEF Step
<1>2. calls'[r] = tree2 /\ \A s \in Repositories \ {r} : calls'[s] = calls[s]
  BY <1>1 DEF Inv, WalksOK
<1>3. /\ DOMAIN tree2 = DOMAIN calls[r]
      /\ \A q \in DOMAIN tree2 : tree2[q] = IF q = path THEN call ELSE calls[r][q]
  OBVIOUS
<1> HIDE DEF tree2
<1> QED
  BY <1>2, <1>3 DEF Changed

LEMMA ChangedBelow ==
    ASSUME Inv, NEW r \in Repositories, NEW path \in DOMAIN calls[r], NEW call, NEW link,
           CallBelow(r, path, call, link)
    PROVE  Changed(r, path, {}, {Append(path, link)}, call)
<1> DEFINE tree2 == [q \in DOMAIN calls[r] \cup {Append(path, link)} |->
               IF q = path THEN call ELSE IF q \in DOMAIN calls[r] THEN calls[r][q] ELSE Entered]
<1>1. calls' = [calls EXCEPT ![r] = tree2]
  BY DEF CallBelow, Inv, WalksOK
<1>2. calls'[r] = tree2 /\ \A s \in Repositories \ {r} : calls'[s] = calls[s]
  BY <1>1 DEF Inv, WalksOK
<1>3. /\ DOMAIN tree2 = DOMAIN calls[r] \cup {Append(path, link)}
      /\ \A q \in DOMAIN tree2 : tree2[q] =
             IF q = path THEN call ELSE IF q \in DOMAIN calls[r] THEN calls[r][q] ELSE Entered
  OBVIOUS
<1> HIDE DEF tree2
<1> QED
  BY <1>2, <1>3 DEF Changed

LEMMA PlacedNothing ==
    ASSUME SignedInv, NEW r \in Repositories, UNCHANGED <<heldM, fallback, sidecar>>
    PROVE  Placed(r)
<1>1. \A s \in Repositories : Site(s)' = Site(s)
  BY DEF Site
<1>2. TagsHeld(Site(r))
  BY DEF SignedInv, RepositoryOK
<1>3. TagsHeld(Site(r)')
  BY <1>1, <1>2
<1>4. Gains(Site(r), Site(r)')
  BY <1>1 DEF Gains
<1> QED
  BY <1>1, <1>3, <1>4 DEF Placed

\* What the invariant says of one repository.
LEMMA SignedFacts ==
    ASSUME Inv, SignedInv, NEW r \in Repositories
    PROVE  /\ TreeOK(calls[r], heldM[r], heldB[r])
           /\ WalkSigned(calls[r], dropped[r], Site(r))
           /\ CarriesClaimed(calls[r], ClaimsIn(r))
           /\ \A n \in ClaimsIn(r) : ClaimOK(n, calls[r], dropped[r], Site(r))
           /\ copied[r] \subseteq Whole(Site(r), dropped[r]) /\ TagsHeld(Site(r))
           /\ Site(r) = [held |-> heldM[r], index |-> fallback[r], tags |-> sidecar[r]]
           /\ \A q \in DOMAIN calls[r] : q \in Paths /\ Content(q) \in Manifests
           /\ \A n : n \in ClaimsIn(r) <=> n \in Manifests /\ <<r, n>> \in claims
<1>1. RepositoryOK(calls[r], ClaimsIn(r), dropped[r], copied[r], Site(r))
  BY DEF SignedInv
<1> QED
  BY <1>1, CallFacts DEF RepositoryOK, Inv, WalksOK, Site, ClaimsIn

\* A call is held after a step to what it was held to before.
LEMMA SignedStays ==
    ASSUME OneSubject, Inv, SignedInv, NEW r \in Repositories, Placed(r), Kept(r),
           NEW q \in DOMAIN calls[r]
    PROVE  /\ SignedNext(r, q, calls[r][q])
           /\ Fits(q, calls[r][q], Site(r).tags) /\ Fits(q, calls[r][q], Site(r)'.tags)
           /\ PathOK(q) /\ q \in Paths /\ Content(q) \in Manifests
<1> DEFINE call == calls[r][q]
           d == Site(r)
           d2 == Site(r)'
           lost == dropped[r]
           lost2 == dropped'[r]
           tree == calls[r]
           tree2 == calls'[r]
<1>1. /\ TreeOK(tree, heldM[r], heldB[r]) /\ WalkSigned(tree, lost, d) /\ CarriesClaimed(tree, ClaimsIn(r))
      /\ q \in Paths /\ Content(q) \in Manifests
      /\ Gains(d, d2) /\ lost \subseteq lost2
      /\ \A n : n \in ClaimsIn(r) <=> n \in Manifests /\ <<r, n>> \in claims
  BY SignedFacts DEF Placed, Kept
<1>2. Fits(q, call, d.tags) /\ PathOK(q) /\ (Trusted(q, tree) => SignedOK(q, call, d, Excused(q, tree, lost)))
  BY <1>1 DEF WalkSigned, Fits
<1>3. Last(q).as = "sidecar" => Content(Front(q)) \in Manifests
  BY <1>1, <1>2, CallerFacts DEF PathOK
<1>4. \A n \in Live(tree) : n \in ClaimsIn(r)
  BY <1>1 DEF Live, CarriesClaimed
<1>5. ASSUME Unbroken(tree2), NEW n \in Live(tree), n \notin Live(tree2), n \notin lost2
      PROVE  Settled(n, d2, lost2)
  BY <1>1, <1>4, <1>5 DEF Kept
<1>6. Unbroken(tree2) => Unbroken(tree)
  BY DEF Kept
<1> HIDE DEF d, d2, lost, lost2, tree, tree2, call
<1>7. Fits(q, call, d2.tags)
  BY <1>1, <1>2, <1>3, FitsMoves
<1>8. ASSUME Trusted(q, tree2)
      PROVE  SignedOK(q, call, d2, Excused(q, tree2, lost2))
  <2>1. CASE Carry(q)
    <3>1. SignedOK(q, call, d, lost)
      BY <1>2, <2>1 DEF Trusted, Excused
    <3>2. SignedOK(q, call, d2, lost2)
      BY <1>1, <3>1, SignedMoves
    <3> QED
      BY <3>2, <2>1 DEF Excused
  <2>2. CASE ~Carry(q)
    <3> DEFINE X == lost \cup Live(tree)
               Y == lost2 \cup Live(tree2)
    <3>1. Unbroken(tree2)
      BY <1>8, <2>2 DEF Trusted
    <3>2. SignedOK(q, call, d, X)
      BY <1>2, <1>6, <2>2, <3>1 DEF Trusted, Excused
    <3>3. ASSUME NEW n \in X \ Y PROVE Settled(n, d2, Y)
      <4>1. Settled(n, d2, lost2)
        BY <1>1, <1>5, <3>1
      <4>2. Gains(d2, d2) /\ lost2 \subseteq Y
        BY DEF Gains
      <4> HIDE DEF Y
      <4> QED
        BY <4>1, <4>2, SettledMoves
    <3> HIDE DEF X, Y
    <3>4. SignedOK(q, call, d2, Y)
      BY <1>1, <3>2, <3>3, SignedMoves
    <3> QED
      BY <3>4, <2>2 DEF Excused, Y
  <2> QED
    BY <2>1, <2>2
<1> QED
  BY <1>1, <1>2, <1>7, <1>8 DEF SignedNext, d, d2, lost2, tree2, call

\* The carries that a change ends, and the failures it leaves.
LEMMA KeptOf ==
    ASSUME NEW r \in Repositories, NEW path, NEW ended, NEW new, NEW call,
           Changed(r, path, ended, new, call), path \in DOMAIN calls[r] \ ended,
           dropped[r] \subseteq dropped'[r],
           \A q \in DOMAIN calls[r] : q \in ended /\ Carry(q) /\ <<r, Content(q)>> \in claims' =>
               Content(q) \in dropped'[r] \/ Settled(Content(q), Site(r)', dropped'[r]),
           call.pc # "failed" =>
               /\ claims' = claims \/ \E n : claims' = claims \cup {<<r, n>>}
               /\ \A q \in DOMAIN calls[r] : q \in ended \/ q = path => calls[r][q].pc # "failed"
    PROVE  Kept(r)
<1>1. ASSUME NEW n \in Live(calls[r]), <<r, n>> \in claims'
      PROVE  n \in Live(calls'[r]) \/ n \in dropped'[r] \/ Settled(n, Site(r)', dropped'[r])
  <2>1. PICK q \in DOMAIN calls[r] : Carry(q) /\ Content(q) = n
    BY DEF Live
  <2>2. CASE q \in ended
    BY <1>1, <2>1, <2>2
  <2>3. CASE q \notin ended
    BY <2>1, <2>3 DEF Changed, Live
  <2> QED
    BY <2>2, <2>3
<1>2. ASSUME Unbroken(calls'[r])
      PROVE  Unbroken(calls[r]) /\ \A n \in Manifests : <<r, n>> \in claims => <<r, n>> \in claims'
  <2>1. call.pc # "failed"
    BY <1>2 DEF Unbroken, Changed
  <2>2. ASSUME NEW q \in DOMAIN calls[r] PROVE calls[r][q].pc # "failed"
    <3>1. CASE q \in ended \/ q = path
      BY <2>1, <3>1
    <3>2. CASE ~(q \in ended \/ q = path)
      BY <1>2, <3>2 DEF Changed, Unbroken
    <3> QED
      BY <3>1, <3>2
  <2> QED
    BY <2>1, <2>2 DEF Unbroken
<1> QED
  BY <1>1, <1>2 DEF Kept

LEMMA SignedElsewhere ==
    ASSUME SignedInv, NEW r \in Repositories, Placed(r), Apart(r),
           \A s \in Repositories \ {r} : calls'[s] = calls[s],
           RepositoryOK(calls'[r], ClaimsIn(r)', dropped'[r], copied'[r], Site(r)')
    PROVE  SignedInv'
<1> SUFFICES ASSUME NEW s \in Repositories, s # r
             PROVE  RepositoryOK(calls'[s], ClaimsIn(s)', dropped'[s], copied'[s], Site(s)')
  BY DEF SignedInv
<1>1. RepositoryOK(calls[s], ClaimsIn(s), dropped[s], copied[s], Site(s))
  BY DEF SignedInv
<1> QED
  BY <1>1 DEF Placed, Apart

\* A change after which every call has carried what it is held to.
LEMMA SignedChange ==
    ASSUME OneSubject, Inv, SignedInv, NEW r \in Repositories, NEW path, NEW ended, NEW new, NEW call,
           Changed(r, path, ended, new, call), path \in DOMAIN calls[r] \ ended,
           Placed(r), Kept(r), Apart(r), copied'[r] = copied[r],
           ClaimsIn(r)' \subseteq ClaimsIn(r) \cup Live(calls'[r]),
           CarriesClaimed(calls'[r], ClaimsIn(r)'),
           Fits(path, call, Site(r)'.tags), SignedNext(r, path, call),
           \A q \in new : PathOK(q) /\ q[1] = path[1]
    PROVE  SignedInv'
<1> DEFINE d == Site(r)
           d2 == Site(r)'
           lost == dropped[r]
           lost2 == dropped'[r]
           tree == calls[r]
           tree2 == calls'[r]
           held == ClaimsIn(r)
           held2 == ClaimsIn(r)'
<1>1. /\ WalkSigned(tree, lost, d) /\ copied[r] \subseteq Whole(d, lost)
      /\ \A n \in held : ClaimOK(n, tree, lost, d)
      /\ Gains(d, d2) /\ TagsHeld(d2) /\ lost \subseteq lost2
      /\ \A n \in held2 : n \in Manifests /\ <<r, n>> \in claims'
  BY SignedFacts DEF Placed, Kept, ClaimsIn
<1>2. \A q \in DOMAIN tree2 :
        \/ q = path /\ tree2[q] = call
        \/ q \in DOMAIN tree /\ q # path /\ tree2[q] = tree[q]
        \/ q \in new /\ q # path /\ tree2[q] = Entered
  BY DEF Changed
<1>3. \A q \in DOMAIN tree2 : q \in DOMAIN tree \/ q \in new
  BY DEF Changed
<1>4. ASSUME NEW q \in DOMAIN tree2
      PROVE  /\ Fits(q, tree2[q], d2.tags)
             /\ Trusted(q, tree2) => SignedOK(q, tree2[q], d2, Excused(q, tree2, lost2))
  <2>1. CASE q = path /\ tree2[q] = call
    BY <2>1 DEF SignedNext
  <2>2. CASE q \in DOMAIN tree /\ tree2[q] = tree[q]
    BY <2>2, SignedStays DEF SignedNext
  <2>3. CASE q \in new /\ tree2[q] = Entered
    <3>1. Fits(q, Entered, d2.tags)
      BY <2>3 DEF Fits, Entered, NoBlobs
    <3>2. SignedOK(q, Entered, d2, Excused(q, tree2, lost2))
      BY DEF SignedOK, Entered
    <3> QED
      BY <3>1, <3>2, <2>3
  <2> QED
    BY <1>2, <2>1, <2>2, <2>3
<1>5. \A p, q \in DOMAIN tree2 : p[1] = q[1]
  <2>1. path \in DOMAIN tree /\ \A p, q \in DOMAIN tree : p[1] = q[1]
    BY <1>1 DEF WalkSigned
  <2>2. \A q \in DOMAIN tree2 : q[1] = path[1]
    BY <2>1, <1>3
  <2> QED
    BY <2>2
<1>6. ASSUME NEW n \in held2, n \notin Live(tree2), n \notin lost2
      PROVE  Settled(n, d2, lost2)
  <2>1. n \in held
    BY <1>6
  <2>2. CASE n \in Live(tree)
    BY <1>1, <1>6, <2>2 DEF Kept
  <2>3. CASE n \notin Live(tree)
    <3>1. Settled(n, d, lost)
      BY <1>1, <1>6, <2>1, <2>3 DEF ClaimOK
    <3> HIDE DEF d, d2, lost, lost2
    <3> QED
      BY <1>1, <3>1, SettledMoves
  <2> QED
    BY <2>2, <2>3
<1>7. copied'[r] \subseteq Whole(d2, lost2)
  <2> HIDE DEF d, d2, lost, lost2
  <2>1. Whole(d, lost) \subseteq Whole(d2, lost2)
    BY <1>1, WholeMoves
  <2> QED
    BY <2>1, <1>1
<1>8. WalkSigned(tree2, lost2, d2)
  <2> HIDE DEF d2, lost2, tree2
  <2> QED
    BY <1>4, <1>5 DEF WalkSigned
<1>9. RepositoryOK(tree2, held2, lost2, copied'[r], d2)
  <2>1. CarriesClaimed(tree2, held2) /\ TagsHeld(d2)
    BY <1>1
  <2> HIDE DEF d2, lost2, tree2, held2
  <2> QED
    BY <2>1, <1>6, <1>7, <1>8 DEF RepositoryOK, ClaimOK
<1>10. \A s \in Repositories \ {r} : calls'[s] = calls[s]
  BY DEF Changed
<1> QED
  BY <1>9, <1>10, SignedElsewhere

\* Calls end, and each carry that remains keeps its claim.
LEMMA CarriesRemain ==
    ASSUME Inv, SignedInv, NEW r \in Repositories, NEW path, NEW ended, NEW call,
           Changed(r, path, ended, {}, call),
           \A q \in DOMAIN calls'[r] : Carry(q) => <<r, Content(q)>> \in claims'
    PROVE  CarriesClaimed(calls'[r], ClaimsIn(r)')
<1>1. \A q \in DOMAIN calls'[r] : q \in DOMAIN calls[r]
  BY DEF Changed
<1>2. CarriesClaimed(calls[r], ClaimsIn(r)) /\ \A q \in DOMAIN calls[r] : Content(q) \in Manifests
  BY SignedFacts
<1> QED
  BY <1>1, <1>2 DEF CarriesClaimed, ClaimsIn

\* A call moves on, and calls that have not failed and carry nothing end.
LEMMA QuietKept ==
    ASSUME Inv, SignedInv, NEW r \in Repositories, NEW path \in DOMAIN calls[r], NEW ended, NEW call,
           Changed(r, path, ended, {}, call), path \notin ended, UNCHANGED <<claims, dropped>>,
           calls[r][path].pc # "failed",
           \A q \in DOMAIN calls[r] : q \in ended => ~Carry(q) /\ calls[r][q].pc # "failed"
    PROVE  Kept(r)
  BY KeptOf

LEMMA SignedMove ==
    ASSUME OneSubject, Inv, SignedInv, NEW r \in Repositories, NEW path \in DOMAIN calls[r],
           NEW ended, NEW call, Changed(r, path, ended, {}, call), path \notin ended, Placed(r), Kept(r),
           UNCHANGED <<copied, claims, dropped>>, Fits(path, call, Site(r)'.tags),
           SignedNext(r, path, call)
    PROVE  SignedInv'
<1>1. \A s \in Repositories : ClaimsIn(s)' = ClaimsIn(s)
  BY DEF ClaimsIn
<1>2. \A q \in DOMAIN calls'[r] : Carry(q) => <<r, Content(q)>> \in claims'
  <2>1. \A q \in DOMAIN calls'[r] : q \in DOMAIN calls[r]
    BY DEF Changed
  <2> QED
    BY <2>1, SignedFacts DEF CarriesClaimed
<1>3. CarriesClaimed(calls'[r], ClaimsIn(r)')
  BY <1>2, CarriesRemain
<1> QED
  BY <1>1, <1>3, SignedChange DEF Apart


-----------------------------------------------------------------------------
(* One lemma per action, or for the actions that move alike.                  *)

\* What is below a call.
LEMMA BelowIs ==
    ASSUME Inv, NEW r \in Repositories, NEW path \in DOMAIN calls[r]
    PROVE  /\ \A q \in DOMAIN calls[r] : q \in Below(r, path) <=> Under(path, q)
           /\ path \notin Below(r, path)
<1>1. \A q \in DOMAIN calls[r] : q \in Paths
  BY CallFacts
<1>2. \A q \in DOMAIN calls[r] : q \in Below(r, path) <=> Under(path, q)
  BY <1>1, PrefixIsUnder DEF Below
<1> QED
  BY <1>2 DEF Below, IsStrictPrefix

\* A call fails: the carries it drops have no claim left or count as dropped, and every
\* other carry keeps its claim.
LEMMA SignedFail ==
    ASSUME OneSubject, Inv, SignedInv, NEW r \in Repositories, NEW path \in DOMAIN calls[r],
           Fail(r, path), Placed(r), UNCHANGED copied, dropped[r] \subseteq dropped'[r],
           claims' \subseteq claims,
           \A s \in Repositories \ {r} : /\ \A n \in Manifests : <<s, n>> \in claims' <=> <<s, n>> \in claims
                                         /\ dropped'[s] = dropped[s],
           \A q \in DOMAIN calls[r] : Carry(q) =>
               IF Under(path, q) THEN <<r, Content(q)>> \in claims' => Content(q) \in dropped'[r]
                                 ELSE <<r, Content(q)>> \in claims'
    PROVE  SignedInv'
<1> DEFINE next == [calls[r][path] EXCEPT !.pc = "failed", !.blob = NoBlobs]
<1>1. next.pc = "failed" /\ next.blob = NoBlobs
  BY CallFacts DEF Calls
<1>2. EndCalls(r, path, Below(r, path), next)
  BY DEF Fail, SetCall
<1> HIDE DEF next
<1>3. Changed(r, path, Below(r, path), {}, next)
  BY <1>2, ChangedEnd
<1>4. Kept(r)
  BY <1>1, <1>3, BelowIs, KeptOf
<1>5. Fits(path, next, Site(r)'.tags) /\ SignedNext(r, path, next)
  <2>1. PathOK(path)
    BY <1>4, SignedStays
  <2> QED
    BY <1>1, <2>1 DEF Fits, NoBlobs, SignedNext, SignedOK
<1>6. CarriesClaimed(calls'[r], ClaimsIn(r)')
  <2>1. ASSUME NEW q \in DOMAIN calls'[r], Carry(q) PROVE <<r, Content(q)>> \in claims'
    <3>1. q \in DOMAIN calls[r] /\ ~Under(path, q)
      BY <1>3, BelowIs DEF Changed
    <3> QED
      BY <3>1, <2>1
  <2> QED
    BY <1>3, <2>1, CarriesRemain
<1>7. Apart(r) /\ copied'[r] = copied[r] /\ ClaimsIn(r)' \subseteq ClaimsIn(r)
  BY DEF Apart, ClaimsIn
<1> QED
  BY <1>3, <1>4, <1>5, <1>6, <1>7, BelowIs, SignedChange

\* A call fails that drops no carry.
LEMMA SignedFailAlone ==
    ASSUME OneSubject, Inv, SignedInv, NEW r \in Repositories, NEW path \in DOMAIN calls[r],
           Fail(r, path), Placed(r), UNCHANGED <<copied, claims, dropped>>,
           \A q \in DOMAIN calls[r] : Under(path, q) => ~Carry(q)
    PROVE  SignedInv'
<1>1. \A q \in DOMAIN calls[r] : Carry(q) => <<r, Content(q)>> \in claims
  BY SignedFacts DEF CarriesClaimed
<1> QED
  BY <1>1, SignedFail

LEMMA FailReadSigned ==
    ASSUME OneSubject, Inv, SignedInv, NEW r \in Repositories, NEW path \in DOMAIN calls[r],
           FailRead(r, path)
    PROVE  SignedInv'
<1>1. UNCHANGED <<heldM, fallback, sidecar, copied, claims, dropped>> /\ Fail(r, path)
  BY DEF FailRead, destination, memory
<1>2. \A q \in DOMAIN calls[r] : ~Under(path, q)
  BY NoneUnder DEF FailRead
<1> QED
  BY <1>1, <1>2, PlacedNothing, SignedFailAlone

\* The carries that go with the other children are dropped, their claims kept.
LEMMA FailChildSigned ==
    ASSUME OneSubject, Inv, SignedInv, NEW r \in Repositories, NEW path \in DOMAIN calls[r],
           FailChild(r, path)
    PROVE  SignedInv'
<1> DEFINE lost == {Content(q) : q \in {q \in Below(r, path) : Last(q).as = "referrer"}}
<1>1. UNCHANGED <<heldM, fallback, sidecar, copied, claims>> /\ Fail(r, path)
      /\ dropped' = [dropped EXCEPT ![r] = @ \cup lost]
  BY DEF FailChild, destination, memory
<1>2. \A q \in DOMAIN calls[r] : Under(path, q) /\ Carry(q) => Content(q) \in lost
  BY BelowIs DEF Carry
<1> HIDE DEF lost
<1>3. dropped'[r] = dropped[r] \cup lost /\ \A s \in Repositories \ {r} : dropped'[s] = dropped[s]
  BY <1>1 DEF Inv, TypesOK
<1>4. \A q \in DOMAIN calls[r] : Carry(q) => <<r, Content(q)>> \in claims'
  BY <1>1, SignedFacts DEF CarriesClaimed
<1>5. claims' = claims /\ Placed(r) /\ UNCHANGED copied
  BY <1>1, PlacedNothing
<1> QED
  BY <1>1, <1>2, <1>3, <1>4, <1>5, SignedFail

\* No child is under way below a call with none left to wait for.
LEMMA NoChildUnder ==
    ASSUME Inv, NEW r \in Repositories, NEW path \in DOMAIN calls[r], calls[r][path].pc = "parts",
           calls[r][path].head > Len(Children[Content(path)]) \/ Children[Content(path)] = <<>>
    PROVE  \A q \in DOMAIN calls[r] : ~Under(path, q)
<1> SUFFICES ASSUME NEW q \in DOMAIN calls[r], Under(path, q) PROVE FALSE
  OBVIOUS
<1> DEFINE call == calls[r][path]
           link == q[Len(path) + 1]
<1>1. /\ LinkOK(path, call, link) /\ Content(path) \in Manifests
      /\ StateOK(path, call, heldM[r], heldB[r]) /\ call \in Calls
  BY CallFacts
<1>2. /\ call.head <= link.pos /\ link.pos < call.next
  BY <1>1 DEF LinkOK
<1>3. link.pos \in Nat
  <2>1. q \in Paths /\ Len(q) \in Nat /\ path \in Paths /\ Len(path) \in Nat
    BY CallFacts, PathLast
  <2>2. Len(path) + 1 \in 1..Len(q)
    BY <2>1 DEF Under
  <2>3. link \in Links
    BY <2>1, <2>2, SweptOf
  <2> QED
    BY <2>3 DEF Links
<1>4. call.head \in Nat \ {0} /\ call.next \in Nat /\ call.next <= Len(Children[Content(path)]) + 1
      /\ Len(Children[Content(path)]) \in Nat
  BY <1>1, GraphFacts DEF StateOK, Calls
<1>5. Children[Content(path)] = <<>> => Len(Children[Content(path)]) = 0
  OBVIOUS
<1> HIDE DEF call, link
<1> QED
  BY <1>2, <1>3, <1>4, <1>5 DEF call

\* An image manifest has no children that its failure could drop.
LEMMA FailUploadSigned ==
    ASSUME OneSubject, ImagesAreLeaves, Inv, SignedInv, NEW r \in Repositories,
           NEW path \in DOMAIN calls[r], NEW b \in Blobs, FailUpload(r, path, b)
    PROVE  SignedInv'
<1>1. UNCHANGED <<heldM, fallback, sidecar, copied, claims, dropped>> /\ Fail(r, path)
      /\ calls[r][path].pc = "parts" /\ calls[r][path].blob[b] = "hold"
  BY DEF FailUpload, memory, BlobAt, At
<1>2. Fits(path, calls[r][path], Site(r).tags) /\ Content(path) \in Manifests
  BY SignedFacts DEF WalkSigned
<1>3. Children[Content(path)] = <<>>
  BY <1>1, <1>2 DEF Fits, ImagesAreLeaves
<1>4. \A q \in DOMAIN calls[r] : ~Under(path, q)
  BY <1>1, <1>3, NoChildUnder
<1> QED
  BY <1>1, <1>4, PlacedNothing, SignedFailAlone

\* What a push places.
LEMMA PlacePlaces ==
    ASSUME Inv, SignedInv, NEW r \in Repositories, NEW path \in DOMAIN calls[r],
           Place(r, path), UNCHANGED fallback
    PROVE  /\ Placed(r) /\ Content(path) \in heldM'[r]
           /\ Last(path).as = "sidecar" => sidecar'[r][Content(Front(path))] # None
<1> DEFINE c == Content(path)
           f == Content(Front(path))
<1>1. /\ heldM \in [Repositories -> SUBSET Manifests]
      /\ sidecar \in [Repositories -> [Manifests -> Manifests \cup {None, Own}]]
      /\ c \in Manifests
  BY CallFacts DEF Inv, TypesOK, DestinationTypes
<1>2. Last(path).as = "sidecar" => f \in Manifests
  <2>1. TreeOK(calls[r], heldM[r], heldB[r]) /\ path[1].as = "tag"
    BY SignedFacts DEF WalkSigned, Fits, PathOK
  <2> QED
    BY <2>1, CallerFacts
<1>3. /\ heldM' = [heldM EXCEPT ![r] = @ \cup {c}]
      /\ sidecar' = IF Last(path).as = "sidecar" THEN [sidecar EXCEPT ![r][f] = c] ELSE sidecar
  BY DEF Place
<1> HIDE DEF c, f
<1>4. /\ heldM'[r] = heldM[r] \cup {c}
      /\ \A s \in Repositories \ {r} : heldM'[s] = heldM[s] /\ sidecar'[s] = sidecar[s]
  BY <1>1, <1>3
<1>5. \A m \in Manifests : sidecar'[r][m] =
          IF Last(path).as = "sidecar" /\ m = f THEN c ELSE sidecar[r][m]
  BY <1>1, <1>2, <1>3
<1>6. \A m \in Manifests : sidecar[r][m] \in Manifests => sidecar[r][m] \in heldM[r]
  BY SignedFacts DEF TagsHeld, Site
<1>7. c # None
  BY <1>1, NoneAssumption
<1>8. Placed(r)
  <2>1. Gains(Site(r), Site(r)')
    BY <1>4, <1>5, <1>7 DEF Gains, Site
  <2>2. TagsHeld(Site(r)')
    BY <1>4, <1>5, <1>6 DEF TagsHeld, Site
  <2>3. \A s \in Repositories \ {r} : Site(s)' = Site(s)
    BY <1>4 DEF Site
  <2> QED
    BY <2>1, <2>2, <2>3 DEF Placed
<1> QED
  BY <1>2, <1>4, <1>5, <1>7, <1>8 DEF c, f

LEMMA FailPushSigned ==
    ASSUME OneSubject, Inv, SignedInv, NEW r \in Repositories, NEW path \in DOMAIN calls[r],
           FailPush(r, path)
    PROVE  SignedInv'
<1>1. UNCHANGED <<fallback, copied, claims, dropped>> /\ Fail(r, path) /\ calls[r][path].pc = "parts"
      /\ calls[r][path].head > Len(Children[Content(path)])
      /\ (Place(r, path) \/ UNCHANGED <<heldM, sidecar>>)
  BY DEF FailPush, memory, At, PartsPlaced
<1>2. Placed(r)
  BY <1>1, PlacePlaces, PlacedNothing
<1>3. \A q \in DOMAIN calls[r] : ~Under(path, q)
  BY <1>1, NoChildUnder
<1> QED
  BY <1>1, <1>2, <1>3, SignedFailAlone

\* What a sidecar's call drops carries no referrer: nothing is swept under a sidecar.
LEMMA NoneUnderSidecar ==
    ASSUME Inv, SignedInv, NEW r \in Repositories, NEW path \in DOMAIN calls[r],
           calls[r][path].pc = "sidecars", NEW q \in DOMAIN calls[r], Under(path, q)
    PROVE  ~Carry(q)
<1> SUFFICES ASSUME Carry(q) PROVE FALSE
  OBVIOUS
<1>1. TreeOK(calls[r], heldM[r], heldB[r]) /\ WalkSigned(calls[r], dropped[r], Site(r))
  BY SignedFacts
<1>2. Swept(q) /\ q \in Paths /\ Len(q) \in Nat /\ Len(path) \in Nat
  BY <1>1, CarryFacts, CallFacts, PathLast
<1>3. Len(path) + 1 \in 1..Len(q)
  BY <1>2 DEF Under
<1>4. q[Len(path) + 1].as = "sidecar"
  BY CallFacts DEF LinkOK
<1> QED
  BY <1>2, <1>3, <1>4, SweptOf

LEMMA FailSidecarSigned ==
    ASSUME OneSubject, Inv, SignedInv, NEW r \in Repositories, NEW path \in DOMAIN calls[r],
           FailSidecar(r, path)
    PROVE  SignedInv'
<1>1. UNCHANGED <<heldM, fallback, sidecar, copied, claims, dropped>> /\ Fail(r, path)
      /\ calls[r][path].pc = "sidecars"
  BY DEF FailSidecar, destination, memory, At
<1> QED
  BY <1>1, PlacedNothing, NoneUnderSidecar, SignedFailAlone

\* The referrer under way is all there is below its caller once it has answered.
LEMMA CarriedAlone ==
    ASSUME Inv, NEW r \in Repositories, NEW path \in DOMAIN calls[r],
           CarryingNext(r, path), NEW c \in Callee(r, path, "referrer"),
           calls[r][c].pc \in {"done", "failed"}, NEW q \in DOMAIN calls[r], Under(path, q)
    PROVE  q = c /\ Content(q) = Referrer(r, path)
<1>1. LinkOK(path, calls[r][path], q[Len(path) + 1]) /\ calls[r][path].pc = "referrers"
  BY CallFacts DEF CarryingNext, At
<1>2. /\ q[Len(path) + 1].as = "referrer" /\ q[Len(path) + 1].pos = calls[r][path].head
      /\ q[Len(path) + 1].content = Referrer(r, path)
  BY <1>1 DEF LinkOK, Referrer
<1>3. q = c
  BY <1>2, OneAnswers DEF Roles
<1>4. Len(c) = Len(path) + 1
  BY DEF Callee
<1> QED
  BY <1>2, <1>3, <1>4 DEF Content, Last

\* The one carry that ends gives its claim back; no other carry is of that content.
LEMMA FailReferrerSigned ==
    ASSUME OneSubject, Inv, SignedInv, NEW r \in Repositories, NEW path \in DOMAIN calls[r],
           FailReferrer(r, path)
    PROVE  SignedInv'
<1> DEFINE n == Referrer(r, path)
<1>1. UNCHANGED <<heldM, fallback, sidecar, copied, dropped>> /\ Fail(r, path) /\ CarryingNext(r, path)
      /\ claims' = claims \ {<<r, n>>}
  BY DEF FailReferrer, destination, ReleaseReferrer
<1>2. PICK c \in Callee(r, path, "referrer") : calls[r][c].pc \in {"done", "failed"}
  BY DEF FailReferrer, Answered
<1>3. \A q \in DOMAIN calls[r] : Under(path, q) => Content(q) = n
  BY <1>1, <1>2, CarriedAlone
<1>4. c \in DOMAIN calls[r] /\ Carry(c) /\ Under(path, c)
  <2>1. c \in DOMAIN calls[r] /\ Len(c) = Len(path) + 1 /\ IsPrefix(path, c) /\ Last(c).as = "referrer"
    BY DEF Callee
  <2>2. path \in Paths /\ c \in Paths /\ Len(path) \in Nat
    BY <2>1, CallFacts, PathLast
  <2> QED
    BY <2>1, <2>2, PrefixIsUnder DEF Carry
<1> HIDE DEF n
<1>5. CarriesClaimed(calls[r], ClaimsIn(r))
  BY SignedFacts
<1>6. ASSUME NEW q \in DOMAIN calls[r], Carry(q), ~Under(path, q)
      PROVE  <<r, Content(q)>> \in claims'
  <2>1. Content(q) # n
    BY <1>3, <1>4, <1>5, <1>6 DEF CarriesClaimed
  <2>2. <<r, Content(q)>> \in claims
    BY <1>5, <1>6, SignedFacts DEF CarriesClaimed
  <2> QED
    BY <2>1, <2>2, <1>1
<1>7. ASSUME NEW q \in DOMAIN calls[r], Under(path, q)
      PROVE  <<r, Content(q)>> \notin claims'
  BY <1>1, <1>3, <1>7
<1>8. claims' \subseteq claims /\ UNCHANGED dropped
      /\ \A s \in Repositories \ {r} : \A x \in Manifests : <<s, x>> \in claims' <=> <<s, x>> \in claims
  BY <1>1
<1> QED
  BY <1>1, <1>6, <1>7, <1>8, PlacedNothing, SignedFail

LEMMA FetchSigned ==
    ASSUME OneSubject, Inv, SignedInv, NEW r \in Repositories, NEW path \in DOMAIN calls[r],
           Fetch(r, path)
    PROVE  SignedInv'
<1> DEFINE call == calls[r][path]
           next == [call EXCEPT !.pc = "parts",
                        !.blob = [b \in Blobs |-> IF b \in Layers[Content(path)] THEN "probe" ELSE "none"]]
<1>1. /\ UNCHANGED <<heldM, fallback, sidecar, copied, claims, dropped>> /\ Step(r, path, next)
      /\ call.pc = "fetch"
  BY DEF Fetch, destination, memory, At
<1>2. call \in Calls /\ call.head = 1 /\ call.next = 1
  BY <1>1, CallFacts DEF StateOK
<1>3. /\ next.pc = "parts" /\ next.head = 1 /\ next.next = 1
      /\ \A b \in Blobs : next.blob[b] # "none" => b \in Layers[Content(path)]
  BY <1>2 DEF Calls
<1> HIDE DEF next
<1>4. Changed(r, path, {}, {}, next) /\ Placed(r)
  BY <1>1, ChangedStep, PlacedNothing
<1>5. Kept(r)
  BY <1>1, <1>4, QuietKept
<1>6. PathOK(path)
  BY <1>4, <1>5, SignedStays
<1>7. Fits(path, next, Site(r)'.tags) /\ SignedNext(r, path, next)
  BY <1>3, <1>6 DEF Fits, SignedNext, SignedOK
<1> QED
  BY <1>1, <1>4, <1>5, <1>7, SignedMove

LEMMA BlobSigned ==
    ASSUME OneSubject, Inv, SignedInv, NEW r \in Repositories, NEW path \in DOMAIN calls[r],
           NEW b \in Blobs, CopyBlob(r, path, b), ~FailUpload(r, path, b)
    PROVE  SignedInv'
<1> DEFINE call == calls[r][path]
<1>1. /\ UNCHANGED <<heldM, fallback, sidecar, copied, claims, dropped>>
      /\ call.pc = "parts" /\ call.blob[b] # "none"
      /\ \E stage : SetBlob(r, path, b, stage)
  BY DEF CopyBlob, SkipBlob, ProbeBlob, MountBlob, QueueBlob, AcquirePermit, UploadBlob, destination,
         memory, BlobAt, At
<1>2. PICK stage : SetBlob(r, path, b, stage)
  BY <1>1
<1> DEFINE next == [call EXCEPT !.blob[b] = stage]
<1>3. Placed(r) /\ Step(r, path, next)
  BY <1>1, <1>2, PlacedNothing DEF SetBlob
<1>4. call \in Calls
  BY CallFacts
<1>5. /\ next.pc = call.pc /\ next.head = call.head /\ next.next = call.next
      /\ \A a \in Blobs : a # b => next.blob[a] = call.blob[a]
  BY <1>4 DEF Calls
<1> HIDE DEF next
<1>6. Changed(r, path, {}, {}, next)
  BY <1>3, ChangedStep
<1>7. Kept(r)
  BY <1>1, <1>6, QuietKept
<1>8. SignedNext(r, path, call) /\ Fits(path, call, Site(r)'.tags)
  BY <1>3, <1>7, SignedStays
<1>9. Fits(path, next, Site(r)'.tags)
  BY <1>1, <1>5, <1>8 DEF Fits
<1>10. SignedNext(r, path, next)
  BY <1>1, <1>5, <1>8 DEF SignedNext, SignedOK
<1> QED
  BY <1>1, <1>3, <1>6, <1>7, <1>9, <1>10, SignedMove

\* A callee of a swept call that is done has carried what its content names, the exceptions
\* of the callee taken into account.
LEMMA DoneIsWhole ==
    ASSUME OneSubject, Inv, SignedInv, NEW r \in Repositories, NEW path \in DOMAIN calls[r], Placed(r), Kept(r),
           Swept(path), NEW as \in {"child", "referrer"}, NEW c \in Callee(r, path, as),
           calls[r][c].pc = "done"
    PROVE  /\ c \in DOMAIN calls[r] /\ Under(path, c) /\ Last(c).as = as
           /\ Trusted(c, calls'[r]) =>
                Content(c) \in Whole(Site(r)', Excused(c, calls'[r], dropped'[r]))
           /\ as = "child" => Content(c) = Children[Content(path)][calls[r][path].head]
           /\ as = "referrer" => Content(c) = Referrers[Content(path)][calls[r][path].head]
<1>1. /\ c \in DOMAIN calls[r] /\ Len(c) = Len(path) + 1 /\ IsPrefix(path, c)
      /\ Last(c).as = as /\ Last(c).pos = calls[r][path].head
  BY DEF Callee
<1>2. /\ path \in Paths /\ Len(path) \in Nat /\ c \in Paths /\ SignedNext(r, c, calls[r][c])
  BY <1>1, SignedStays, PathLast
<1>3. Under(path, c)
  BY <1>1, <1>2, PrefixIsUnder
<1>4. Last(c) = c[Len(path) + 1]
  BY <1>1 DEF Last
<1>5. Swept(c)
  <2>1. \A i \in 1..Len(c) : i \in 1..Len(path) \/ i = Len(path) + 1
    BY <1>1, <1>2
  <2>2. \A i \in 1..Len(path) : c[i].as # "sidecar"
    BY <1>2, <1>3, SweptOf DEF Under
  <2> QED
    BY <2>1, <2>2, <1>1, <1>2, <1>4, SweptOf
<1>6. LinkOK(path, calls[r][path], c[Len(path) + 1])
  BY <1>1, <1>3, CallFacts
<1>7. Trusted(c, calls'[r]) =>
          Content(c) \in Whole(Site(r)', Excused(c, calls'[r], dropped'[r]))
  BY <1>2, <1>5 DEF SignedNext, SignedOK
<1> QED
  BY <1>1, <1>3, <1>4, <1>6, <1>7 DEF LinkOK, Content

\* A child is taken in by a call that is no carry: what refers to a manifest has no children.
LEMMA TakeChildSigned ==
    ASSUME OneSubject, ReferrersApart, Inv, SignedInv, NEW r \in Repositories,
           NEW path \in DOMAIN calls[r], TakeChild(r, path)
    PROVE  SignedInv'
<1> DEFINE call == calls[r][path]
           next == [call EXCEPT !.head = @ + 1]
           ended == Callee(r, path, "child")
           good == Whole(Site(r)', Excused(path, calls'[r], dropped'[r]))
<1>1. /\ UNCHANGED <<heldM, fallback, sidecar, copied, claims, dropped>> /\ call.pc = "parts"
      /\ EndCalls(r, path, ended, next)
  BY DEF TakeChild, destination, memory, At
<1>2. Placed(r) /\ Changed(r, path, ended, {}, next)
  BY <1>1, PlacedNothing, ChangedEnd
<1>3. PICK c \in ended : calls[r][c].pc = "done"
  BY DEF TakeChild, Answered
<1>4. path \notin ended
  <2>1. Len(path) \in Nat
    BY CallFacts, PathLast
  <2> QED
    BY <2>1 DEF Callee
<1>5. call \in Calls /\ call.head \in Nat \ {0}
  BY CallFacts DEF Calls
<1>6. ASSUME NEW q \in ended
      PROVE  q \in DOMAIN calls[r] /\ Under(path, q) /\ Last(q).as = "child" /\ q[Len(path) + 1].as = "child"
             /\ q[Len(path) + 1].pos = call.head
  <2>1. /\ q \in DOMAIN calls[r] /\ Len(q) = Len(path) + 1 /\ IsPrefix(path, q)
        /\ Last(q).as = "child" /\ Last(q).pos = call.head
    BY DEF Callee
  <2>2. path \in Paths /\ q \in Paths /\ Len(path) \in Nat
    BY <2>1, CallFacts, PathLast
  <2> QED
    BY <2>1, <2>2, PrefixIsUnder DEF Last
<1>7. \A q \in ended : ~Carry(q) /\ calls[r][q].pc # "failed"
  <2>1. \A q \in ended : q = c
    BY <1>3, <1>6, OneAnswers DEF Roles
  <2> QED
    BY <2>1, <1>3, <1>6 DEF Carry
<1>8. Kept(r)
  BY <1>1, <1>2, <1>4, <1>7, QuietKept
<1>9. /\ SignedNext(r, path, call) /\ Fits(path, call, Site(r)'.tags)
      /\ Content(path) \in Manifests /\ PathOK(path)
  BY <1>2, <1>8, SignedStays
<1>10. ~Carry(path)
  <2> SUFFICES ASSUME Carry(path) PROVE FALSE
    OBVIOUS
  <2>1. Children[Content(path)] = <<>>
    BY SignedFacts, CarryFacts DEF ReferrersApart
  <2> QED
    BY <1>1, <1>3, <1>6, <2>1, NoChildUnder
<1>11. next.pc = "parts" /\ next.head = call.head + 1 /\ next.next = call.next /\ next.blob = call.blob
  BY <1>1, <1>5 DEF Calls
<1>12. ASSUME Trusted(path, calls'[r]), Swept(path)
       PROVE  Children[Content(path)][call.head] \in good
  <2>1. ~Carry(c) /\ Trusted(c, calls'[r])
    BY <1>3, <1>7, <1>10, <1>12 DEF Trusted
  <2>2. Excused(c, calls'[r], dropped'[r]) = Excused(path, calls'[r], dropped'[r])
    BY <2>1, <1>10 DEF Excused
  <2> QED
    BY <2>1, <2>2, <1>2, <1>3, <1>8, <1>12, DoneIsWhole
<1> HIDE DEF next, ended
<1>13. Fits(path, next, Site(r)'.tags)
  BY <1>1, <1>9, <1>11 DEF Fits
<1>14. SignedNext(r, path, next)
  <2> SUFFICES ASSUME Trusted(path, calls'[r])
               PROVE  SignedOK(path, next, Site(r)', Excused(path, calls'[r], dropped'[r]))
    BY DEF SignedNext
  <2>1. Swept(path) => \A i \in 1..(call.head - 1) : Children[Content(path)][i] \in good
    BY <1>1, <1>9 DEF SignedNext, SignedOK
  <2>2. \A i \in 1..(next.head - 1) : i \in 1..(call.head - 1) \/ i = call.head
    BY <1>5, <1>11
  <2>3. Swept(path) => \A i \in 1..(next.head - 1) : Children[Content(path)][i] \in good
    BY <2>1, <2>2, <1>12
  <2> QED
    BY <2>3, <1>11 DEF SignedOK
<1> QED
  BY <1>1, <1>2, <1>4, <1>8, <1>13, <1>14, SignedMove

LEMMA PushSigned ==
    ASSUME OneSubject, Inv, SignedInv, NEW r \in Repositories, NEW path \in DOMAIN calls[r],
           Push(r, path)
    PROVE  SignedInv'
<1> DEFINE call == calls[r][path]
           phase == IF Swept(path) THEN "referrers" ELSE "done"
           next == [call EXCEPT !.pc = phase, !.head = 1, !.next = 1]
           good == Whole(Site(r)', Excused(path, calls'[r], dropped'[r]))
           m == Content(path)
<1>1. /\ UNCHANGED <<fallback, copied, claims, dropped>> /\ Place(r, path) /\ Step(r, path, next)
      /\ call.pc = "parts" /\ call.blob = NoBlobs /\ call.head > Len(Children[m])
  BY DEF Push, memory, At, PartsPlaced
<1>2. Placed(r) /\ (Last(path).as = "sidecar" => sidecar'[r][Content(Front(path))] # None)
      /\ Changed(r, path, {}, {}, next)
  BY <1>1, PlacePlaces, ChangedStep
<1>3. Kept(r)
  BY <1>1, <1>2, QuietKept
<1>4. call \in Calls /\ m \in Manifests /\ SignedNext(r, path, call) /\ call.head \in Nat /\ PathOK(path)
  BY <1>2, <1>3, CallFacts, SignedStays DEF Calls
<1>5. ASSUME Trusted(path, calls'[r]), Swept(path)
      PROVE  Range(Children[m]) \subseteq good
  <2>1. \A i \in 1..(call.head - 1) : Children[m][i] \in good
    BY <1>1, <1>4, <1>5 DEF SignedNext, SignedOK
  <2>2. Len(Children[m]) \in Nat
    BY <1>4, GraphFacts
  <2>3. \A i \in 1..Len(Children[m]) : i \in 1..(call.head - 1)
    BY <2>2, <1>1, <1>4
  <2> QED
    BY <2>1, <2>3, <1>4, HeirsTyped
<1>6. next.pc = phase /\ next.head = 1 /\ next.blob = NoBlobs
  BY <1>1, <1>4 DEF Calls
<1> HIDE DEF next, good, m
<1>7. Site(r)'.tags = sidecar'[r]
  BY DEF Site
<1>8. Fits(path, next, Site(r)'.tags)
  BY <1>2, <1>4, <1>6, <1>7 DEF Fits, NoBlobs
<1>9. \A i \in 1..Len(Referrers[m]) : ~(i < next.head)
  BY <1>6
<1>10. SignedNext(r, path, next)
  BY <1>5, <1>6, <1>9 DEF SignedNext, SignedOK, good, m
<1> QED
  BY <1>1, <1>2, <1>3, <1>8, <1>10, SignedMove

LEMMA EndReferrersSigned ==
    ASSUME OneSubject, Inv, SignedInv, NEW r \in Repositories, NEW path \in DOMAIN calls[r],
           EndReferrers(r, path)
    PROVE  SignedInv'
<1> DEFINE call == calls[r][path]
           next == [call EXCEPT !.pc = "sidecars", !.head = 1]
           m == Content(path)
<1>1. /\ UNCHANGED <<heldM, fallback, sidecar, copied, claims, dropped>> /\ Step(r, path, next)
      /\ call.pc = "referrers" /\ call.head > Len(Referrers[m])
  BY DEF EndReferrers, destination, memory, At
<1>2. Placed(r) /\ Changed(r, path, {}, {}, next)
  BY <1>1, PlacedNothing, ChangedStep
<1>3. Kept(r)
  BY <1>1, <1>2, QuietKept
<1>4. call \in Calls /\ SignedNext(r, path, call) /\ m \in Manifests /\ call.head \in Nat
      /\ Fits(path, call, Site(r)'.tags)
  BY <1>2, <1>3, SignedStays, CallFacts DEF Calls
<1>5. next.pc = "sidecars" /\ next.blob = call.blob
  BY <1>1, <1>4 DEF Calls
<1>6. \A i \in 1..Len(Referrers[m]) : i < call.head
  <2>1. Len(Referrers[m]) \in Nat
    BY <1>4, GraphFacts
  <2> QED
    BY <2>1, <1>1, <1>4
<1> HIDE DEF next
<1>7. Fits(path, next, Site(r)'.tags)
  BY <1>1, <1>4, <1>5 DEF Fits
<1>8. SignedNext(r, path, next)
  BY <1>1, <1>4, <1>5, <1>6 DEF SignedNext, SignedOK
<1> QED
  BY <1>1, <1>2, <1>3, <1>7, <1>8, SignedMove

LEMMA ReferrerTyped ==
    ASSUME Inv, NEW r \in Repositories, NEW path \in DOMAIN calls[r], CarryingNext(r, path)
    PROVE  /\ calls[r][path].pc = "referrers" /\ calls[r][path] \in Calls
           /\ calls[r][path].head \in Nat \ {0}
           /\ Referrer(r, path) = Referrers[Content(path)][calls[r][path].head]
           /\ Referrer(r, path) \in Range(Referrers[Content(path)])
           /\ Referrer(r, path) \in Manifests
<1> DEFINE call == calls[r][path]
<1>1. /\ Content(path) \in Manifests /\ call \in Calls /\ call.pc = "referrers"
      /\ call.head <= Len(Referrers[Content(path)])
  BY CallFacts DEF CarryingNext, At
<1>2. call.head \in Nat \ {0} /\ Len(Referrers[Content(path)]) \in Nat
  BY <1>1, GraphFacts DEF Calls
<1>3. call.head \in 1..Len(Referrers[Content(path)])
  BY <1>1, <1>2
<1> QED
  BY <1>1, <1>2, <1>3, GraphFacts, HeirsTyped DEF Referrer

\* A carry that came to its end is one its subject has carried.
LEMMA SettledCarries ==
    ASSUME OneSubject, NEW d, NEW X, NEW Y, X \subseteq Y, NEW m \in Manifests,
           NEW n \in Range(Referrers[m]), Settled(n, d, X)
    PROVE  CarriedAs(m, n, d, Y)
<1>1. Gains(d, d)
  BY DEF Gains
<1>2. Settled(n, d, Y)
  BY <1>1, SettledMoves
<1> QED
  BY <1>2 DEF Settled, CarriedAs, OneSubject

\* The call at `path` has carried the referrer it stands at, and goes on to the next.
LEMMA CarriedOn ==
    ASSUME Inv, NEW r \in Repositories, NEW path \in DOMAIN calls[r], CarryingNext(r, path),
           SignedNext(r, path, calls[r][path]), Fits(path, calls[r][path], Site(r)'.tags),
           Trusted(path, calls'[r]) =>
               CarriedAs(Content(path), Referrer(r, path), Site(r)', Excused(path, calls'[r], dropped'[r]))
    PROVE  /\ SignedNext(r, path, [calls[r][path] EXCEPT !.head = @ + 1])
           /\ Fits(path, [calls[r][path] EXCEPT !.head = @ + 1], Site(r)'.tags)
           /\ [calls[r][path] EXCEPT !.head = @ + 1].pc = "referrers"
<1> DEFINE call == calls[r][path]
           next == [call EXCEPT !.head = @ + 1]
           d == Site(r)'
           X == Excused(path, calls'[r], dropped'[r])
           m == Content(path)
<1>1. /\ call.pc = "referrers" /\ call \in Calls /\ call.head \in Nat \ {0}
      /\ Referrer(r, path) = Referrers[m][call.head]
  BY ReferrerTyped
<1>2. next.pc = "referrers" /\ next.head = call.head + 1 /\ next.blob = call.blob
  BY <1>1 DEF Calls
<1>3. Fits(path, next, Site(r)'.tags)
  BY <1>1, <1>2 DEF Fits
<1> HIDE DEF next
<1>4. ASSUME Trusted(path, calls'[r])
      PROVE  SignedOK(path, next, d, X)
  <2>1. SignedOK(path, call, d, X) /\ CarriedAs(m, Referrers[m][call.head], d, X)
    BY <1>1, <1>4 DEF SignedNext
  <2> HIDE DEF d, X, m
  <2>2. /\ Range(Children[m]) \subseteq Whole(d, X)
        /\ \A i \in 1..Len(Referrers[m]) : i < call.head => CarriedAs(m, Referrers[m][i], d, X)
    BY <1>1, <2>1 DEF SignedOK, m
  <2>3. \A i \in 1..Len(Referrers[m]) : i < next.head => CarriedAs(m, Referrers[m][i], d, X)
    <3>1. \A i \in 1..Len(Referrers[m]) : i < next.head => i < call.head \/ i = call.head
      BY <1>1, <1>2
    <3> QED
      BY <3>1, <2>1, <2>2
  <2> QED
    BY <1>2, <2>2, <2>3 DEF SignedOK, m
<1> QED
  BY <1>2, <1>3, <1>4 DEF SignedNext, next

\* What is claimed is being carried by another call, or was dropped, or has been carried.
LEMMA SkipReferrerSigned ==
    ASSUME Acyclic, OneSubject, ReferrersApart, Inv, SignedInv, NEW r \in Repositories,
           NEW path \in DOMAIN calls[r], SkipReferrer(r, path)
    PROVE  SignedInv'
<1> DEFINE n == Referrer(r, path)
           next == [calls[r][path] EXCEPT !.head = @ + 1]
           d == Site(r)
           lost == dropped[r]
           m == Content(path)
<1>1. /\ UNCHANGED <<heldM, fallback, sidecar, copied, claims, dropped>> /\ CarryingNext(r, path)
      /\ Callee(r, path, "referrer") = {} /\ <<r, n>> \in claims
      /\ Step(r, path, next)
  BY DEF SkipReferrer, destination, memory, Claimed
<1>2. Placed(r) /\ Changed(r, path, {}, {}, next)
  BY <1>1, PlacedNothing, ChangedStep
<1>3. calls[r][path].pc = "referrers" /\ n \in Range(Referrers[m]) /\ n \in Manifests
  BY <1>1, ReferrerTyped
<1>4. Kept(r)
  BY <1>1, <1>2, <1>3, QuietKept
<1>5. /\ SignedNext(r, path, calls[r][path]) /\ Fits(path, calls[r][path], Site(r)'.tags)
      /\ m \in Manifests
  BY <1>2, <1>4, SignedStays
<1>6. \A q \in DOMAIN calls[r] : ~Under(path, q)
  BY <1>1, <1>3, NoneCalled
<1>7. /\ TreeOK(calls[r], heldM[r], heldB[r]) /\ WalkSigned(calls[r], lost, d)
      /\ CarriesClaimed(calls[r], ClaimsIn(r)) /\ ClaimOK(n, calls[r], lost, d)
  BY <1>1, <1>3, SignedFacts
<1>8. Site(r)' = d /\ dropped'[r] = lost
  BY <1>1 DEF Site
<1>9. Live(calls'[r]) = Live(calls[r])
  BY <1>2 DEF Changed, Live
<1> HIDE DEF n, m, d, lost, next
<1>10. CarriedAs(m, n, Site(r)', Excused(path, calls'[r], dropped'[r]))
  <2>1. CASE Carry(path)
    <3>1. CarriedAs(m, n, d, lost)
      <4>1. n \notin Live(calls[r])
        <5> SUFFICES ASSUME NEW q \in DOMAIN calls[r], Carry(q), Content(q) = n PROVE FALSE
          BY DEF Live
        <5>1. Front(q) = path
          BY <1>3, <1>7, <2>1, CarriedByOne DEF m
        <5>2. Under(Front(q), q)
          BY <1>7, CarryFacts
        <5> QED
          BY <5>1, <5>2, <1>6
      <4>2. n \in lost \/ Settled(n, d, lost)
        BY <4>1, <1>7 DEF ClaimOK
      <4> QED
        BY <4>2, <1>3, <1>5, SettledCarries DEF CarriedAs
    <3> QED
      BY <3>1, <1>8, <2>1 DEF Excused
  <2>2. CASE ~Carry(path)
    <3> DEFINE X == lost \cup Live(calls[r])
    <3>1. lost \subseteq X /\ (n \in Live(calls[r]) \/ n \in lost => n \in X)
      OBVIOUS
    <3>2. Excused(path, calls'[r], dropped'[r]) = X
      BY <1>8, <1>9, <2>2 DEF Excused
    <3> HIDE DEF X
    <3>3. CarriedAs(m, n, d, X)
      BY <3>1, <1>3, <1>5, <1>7, SettledCarries DEF CarriedAs, ClaimOK
    <3> QED
      BY <3>2, <3>3, <1>8
  <2> QED
    BY <2>1, <2>2
<1>11. SignedNext(r, path, next) /\ Fits(path, next, Site(r)'.tags)
  BY <1>1, <1>5, <1>10, CarriedOn DEF m, n, next
<1> QED
  BY <1>1, <1>2, <1>4, <1>11, SignedMove

\* The carry that is done has been carried whole, and its subject's index lists it.
LEMMA EndReferrerSigned ==
    ASSUME OneSubject, Inv, SignedInv, NEW r \in Repositories, NEW path \in DOMAIN calls[r],
           EndReferrer(r, path)
    PROVE  SignedInv'
<1> DEFINE n == Referrer(r, path)
           m == Content(path)
           next == [calls[r][path] EXCEPT !.head = @ + 1]
           ended == Below(r, path)
<1>1. /\ UNCHANGED <<heldM, sidecar, copied, claims, dropped>> /\ CarryingNext(r, path)
      /\ fallback' = Appended(r, path) /\ EndCalls(r, path, ended, next)
  BY DEF EndReferrer, memory, SetCall
<1>2. PICK c \in Callee(r, path, "referrer") : calls[r][c].pc = "done"
  BY DEF EndReferrer, Answered
<1>3. m \in Manifests /\ n \in Manifests /\ n \in Range(Referrers[m]) /\ calls[r][path].pc = "referrers"
      /\ n = Referrers[m][calls[r][path].head]
  BY <1>1, ReferrerTyped, CallFacts
<1>4. /\ \A s \in Repositories \ {r} : fallback'[s] = fallback[s]
      /\ \A x \in Manifests : fallback[r][x] \subseteq fallback'[r][x]
      /\ Fallback => n \in fallback'[r][m]
  <2>1. fallback \in [Repositories -> [Manifests -> SUBSET Manifests]]
    BY DEF Inv, TypesOK, DestinationTypes
  <2>2. fallback' = IF Fallback THEN [fallback EXCEPT ![r][m] = @ \cup {n}] ELSE fallback
    BY <1>1 DEF Appended
  <2> HIDE DEF m, n
  <2> QED
    BY <2>1, <2>2, <1>3
<1>5. Placed(r)
  <2>1. TagsHeld(Site(r))
    BY SignedFacts
  <2>2. Gains(Site(r), Site(r)') /\ TagsHeld(Site(r)')
    BY <2>1, <1>1, <1>4 DEF Gains, TagsHeld, Site
  <2>3. \A s \in Repositories \ {r} : Site(s)' = Site(s)
    BY <1>1, <1>4 DEF Site
  <2> QED
    BY <2>2, <2>3 DEF Placed
<1>6. Changed(r, path, ended, {}, next) /\ path \notin ended
  BY <1>1, ChangedEnd, BelowIs
<1>7. /\ c \in DOMAIN calls[r] /\ Carry(c) /\ Under(path, c)
      /\ \A q \in DOMAIN calls[r] : q \in ended => q = c /\ Content(q) = n
  <2>1. c \in DOMAIN calls[r] /\ Len(c) = Len(path) + 1 /\ IsPrefix(path, c) /\ Last(c).as = "referrer"
    BY DEF Callee
  <2>2. path \in Paths /\ c \in Paths /\ Len(path) \in Nat
    BY <2>1, CallFacts, PathLast
  <2>3. Under(path, c)
    BY <2>1, <2>2, PrefixIsUnder
  <2>4. \A q \in DOMAIN calls[r] : q \in ended => Under(path, q)
    BY BelowIs
  <2> QED
    BY <2>1, <2>3, <2>4, <1>1, <1>2, CarriedAlone DEF Carry
<1>8. Content(c) = n
  BY <1>7, BelowIs
<1> HIDE DEF n, m, next, ended
<1>9. Settled(n, Site(r)', dropped'[r])
  <2>1. /\ TreeOK(calls[r], heldM[r], heldB[r]) /\ WalkSigned(calls[r], dropped[r], Site(r))
    BY SignedFacts
  <2>2. Swept(c)
    BY <2>1, <1>7, CarryFacts
  <2>3. SignedOK(c, calls[r][c], Site(r), dropped[r])
    BY <2>1, <1>7 DEF WalkSigned, Trusted, Excused
  <2>4. n \in Whole(Site(r), dropped[r])
    BY <2>2, <2>3, <1>2, <1>8 DEF SignedOK
  <2>5. Gains(Site(r), Site(r)') /\ dropped'[r] = dropped[r]
    BY <1>1, <1>5 DEF Placed
  <2>6. Whole(Site(r), dropped[r]) \subseteq Whole(Site(r)', dropped'[r])
    BY <2>5, WholeMoves
  <2>7. Fallback => n \in Site(r)'.index[m]
    BY <1>4 DEF Site
  <2> QED
    BY <2>4, <2>6, <2>7, <1>3 DEF Settled
<1>10. next.pc = "referrers"
  BY <1>3, CallFacts DEF Calls, next
<1>11. Kept(r)
  <2>1. \A q \in DOMAIN calls[r] : q \in ended \/ q = path => calls[r][q].pc # "failed"
    BY <1>2, <1>3, <1>7
  <2>2. \A q \in DOMAIN calls[r] : q \in ended /\ Carry(q) /\ <<r, Content(q)>> \in claims' =>
               Content(q) \in dropped'[r] \/ Settled(Content(q), Site(r)', dropped'[r])
    BY <1>7, <1>9
  <2>3. dropped[r] \subseteq dropped'[r] /\ claims' = claims /\ path \in DOMAIN calls[r] \ ended
    BY <1>1, <1>6
  <2> QED
    BY <2>1, <2>2, <2>3, <1>6, KeptOf
<1>12. /\ SignedNext(r, path, calls[r][path]) /\ Fits(path, calls[r][path], Site(r)'.tags)
  BY <1>5, <1>11, SignedStays
<1>13. CarriedAs(m, n, Site(r)', Excused(path, calls'[r], dropped'[r]))
  <2>1. dropped'[r] \subseteq Excused(path, calls'[r], dropped'[r])
    BY DEF Excused
  <2> QED
    BY <2>1, <1>3, <1>9, SettledCarries
<1>14. SignedNext(r, path, next) /\ Fits(path, next, Site(r)'.tags)
  BY <1>1, <1>12, <1>13, CarriedOn DEF m, n, next
<1> QED
  BY <1>1, <1>5, <1>6, <1>11, <1>14, SignedMove

LEMMA ReturnSigned ==
    ASSUME OneSubject, Inv, SignedInv, NEW r \in Repositories, NEW path \in DOMAIN calls[r],
           Return(r, path)
    PROVE  SignedInv'
<1> DEFINE call == calls[r][path]
           next == [call EXCEPT !.pc = "done"]
           ended == Below(r, path)
           m == Content(path)
           d == Site(r)'
           X == Excused(path, calls'[r], dropped'[r])
<1>1. /\ UNCHANGED <<heldM, fallback, sidecar, copied, claims, dropped>> /\ call.pc = "sidecars"
      /\ EndCalls(r, path, ended, next)
  BY DEF Return, destination, memory, At, SetCall
<1>2. Placed(r) /\ Changed(r, path, ended, {}, next) /\ path \notin ended
  BY <1>1, PlacedNothing, ChangedEnd, BelowIs
<1>3. \A q \in DOMAIN calls[r] : q \in ended => Under(path, q)
  BY BelowIs
<1>4. \/ ended = {} /\ (Sidecar[m] = None \/ sidecar[r][m] \notin {None, Sidecar[m]})
      \/ \E c \in Callee(r, path, "sidecar") : calls[r][c].pc = "done"
  BY DEF Return, Answered, SourceSidecar, Conflicts, DestinationTag
<1>5. ASSUME NEW c \in Callee(r, path, "sidecar"), calls[r][c].pc = "done"
      PROVE  /\ \A q \in DOMAIN calls[r] : Under(path, q) => q = c
             /\ sidecar[r][m] # None
  <2>1. c \in DOMAIN calls[r] /\ Len(c) = Len(path) + 1 /\ IsPrefix(path, c) /\ Last(c).as = "sidecar"
    BY DEF Callee
  <2>2. /\ Fits(c, calls[r][c], Site(r).tags) /\ c \in Paths /\ path \in Paths /\ Len(path) \in Nat
        /\ TreeOK(calls[r], heldM[r], heldB[r])
    BY <2>1, CallFacts, PathLast, SignedFacts DEF WalkSigned
  <2>3. Front(c) \in Paths /\ Len(Front(c)) = Len(c) - 1 /\ \A i \in 1..(Len(c) - 1) : Front(c)[i] = c[i]
    BY <2>1, <2>2, CallerFacts DEF Fits, PathOK
  <2>4. Under(path, c)
    BY <2>1, <2>2, PrefixIsUnder
  <2>5. Front(c) = path
    BY <2>1, <2>2, <2>3, <2>4, PathEqual DEF Under, Paths
  <2>6. sidecar[r][m] # None
    BY <2>1, <2>2, <2>5, <1>5 DEF Fits, Site
  <2>7. call.head = 1
    BY <1>1, CallFacts DEF StateOK
  <2>8. \A q \in DOMAIN calls[r] : Under(path, q) => q[Len(path) + 1].as = "sidecar"
                                                      /\ q[Len(path) + 1].pos = call.head
    BY <1>1, <2>7, CallFacts DEF LinkOK
  <2> QED
    BY <2>6, <2>8, <1>5, OneAnswers DEF Roles
<1>6. Kept(r)
  <2>1. \A q \in DOMAIN calls[r] : q \in ended => ~Carry(q)
    BY <1>1, <1>3, NoneUnderSidecar
  <2>2. \A q \in DOMAIN calls[r] : q \in ended => calls[r][q].pc # "failed"
    BY <1>3, <1>4, <1>5
  <2> QED
    BY <2>1, <2>2, <1>1, <1>2, QuietKept
<1>7. /\ call \in Calls /\ path \in Paths /\ m \in Manifests /\ m \in heldM[r]
      /\ SignedNext(r, path, call) /\ Fits(path, call, Site(r)'.tags)
  <2>1. StateOK(path, call, heldM[r], heldB[r])
    BY CallFacts
  <2> QED
    BY <2>1, <1>1, <1>2, <1>6, SignedStays, CallFacts DEF StateOK, Pushed
<1>8. next.pc = "done" /\ next.blob = call.blob
  BY <1>7 DEF Calls, Phases
<1>9. Swept(path) /\ PathOK(path) /\ \A b \in Blobs : call.blob[b] = "none"
  BY <1>1, <1>7 DEF Fits
<1>10. Last(path).as # "sidecar"
  <2>1. Len(path) \in 1..Len(path)
    BY <1>7, PathLast
  <2> QED
    BY <2>1, <1>7, <1>9, SweptOf DEF Last
<1>11. m \in d.held /\ (Sidecar[m] # None => d.tags[m] # None)
  BY <1>1, <1>4, <1>5, <1>7 DEF Site
<1>12. ASSUME Trusted(path, calls'[r])
       PROVE  m \in Whole(d, X)
  <2>1. SignedOK(path, call, d, X)
    BY <1>7, <1>12 DEF SignedNext
  <2>2. /\ Range(Children[m]) \subseteq Whole(d, X)
        /\ \A i \in 1..Len(Referrers[m]) : CarriedAs(m, Referrers[m][i], d, X)
    BY <1>1, <2>1 DEF SignedOK
  <2> HIDE DEF d, X, m
  <2>3. Range(Referrers[m]) \ X \subseteq Whole(d, X) /\ (Fallback => Range(Referrers[m]) \ X \subseteq d.index[m])
    BY <2>2, <1>7, HeirsTyped DEF CarriedAs
  <2> QED
    BY <2>2, <2>3, <1>7, <1>11, WholeFrom
<1> HIDE DEF next, d, X, m
<1>13. Fits(path, next, Site(r)'.tags)
  BY <1>8, <1>9, <1>10 DEF Fits
<1>14. SignedNext(r, path, next)
  BY <1>8, <1>12 DEF SignedNext, SignedOK, m, d, X
<1> QED
  BY <1>1, <1>2, <1>6, <1>13, <1>14, SignedMove

\* A call makes another: a carry claims what nobody has claimed.
LEMMA SignedBelow ==
    ASSUME Acyclic, OneSubject, Inv, SignedInv, NEW r \in Repositories, NEW path \in DOMAIN calls[r],
           NEW call, NEW link \in Links, CallBelow(r, path, call, link),
           UNCHANGED <<heldM, fallback, sidecar, copied, dropped>>,
           call.pc = calls[r][path].pc, call.head = calls[r][path].head,
           call.blob = calls[r][path].blob, call.pc # "failed",
           \/ link.as = "child" /\ link.content \in Range(Children[Content(path)])
           \/ link.as = "referrer" /\ link.content \in Range(Referrers[Content(path)])
           \/ link.as = "sidecar",
           IF link.as = "referrer"
           THEN <<r, link.content>> \notin claims /\ claims' = claims \cup {<<r, link.content>>}
           ELSE claims' = claims
    PROVE  SignedInv'
<1> DEFINE new == Append(path, link)
<1>1. Changed(r, path, {}, {new}, call) /\ Placed(r)
  BY ChangedBelow, PlacedNothing
<1>2. claims' = claims \/ \E n : claims' = claims \cup {<<r, n>>}
  OBVIOUS
<1>3. Kept(r)
  <2>1. path \in DOMAIN calls[r] \ {} /\ dropped[r] \subseteq dropped'[r]
    OBVIOUS
  <2>2. \A q \in DOMAIN calls[r] : q \in {} \/ q = path => calls[r][q].pc # "failed"
    OBVIOUS
  <2> HIDE DEF new
  <2> QED
    BY <1>1, <1>2, <2>1, <2>2, KeptOf
<1>4. /\ SignedNext(r, path, calls[r][path]) /\ Fits(path, calls[r][path], Site(r)'.tags)
      /\ PathOK(path) /\ path \in Paths
  BY <1>1, <1>3, SignedStays
<1>5. SignedNext(r, path, call) /\ Fits(path, call, Site(r)'.tags)
  BY <1>4 DEF SignedNext, SignedOK, Fits
<1>6. PathOK(new) /\ Last(new) = link /\ Content(new) = link.content /\ new[1] = path[1]
  <2>1. Len(path) \in Nat \ {0} /\ 1 \in 1..Len(path)
    BY <1>4, PathLast
  <2>2. /\ new \in Paths /\ Len(new) = Len(path) + 1 /\ Last(new) = link
        /\ \A i \in 1..Len(path) : new[i] = path[i]
    BY <1>4, PathAppend
  <2> QED
    BY <2>1, <2>2, <1>4, PathGrows DEF Content
<1> HIDE DEF new
<1>7. /\ DOMAIN calls'[r] = DOMAIN calls[r] \cup {new} /\ link.content \in Manifests
      /\ CarriesClaimed(calls[r], ClaimsIn(r))
      /\ \A n : n \in ClaimsIn(r) <=> n \in Manifests /\ <<r, n>> \in claims
      /\ \A n : n \in ClaimsIn(r)' <=> n \in Manifests /\ <<r, n>> \in claims'
  BY <1>1, SignedFacts DEF Changed, Links, ClaimsIn
<1>8. CarriesClaimed(calls'[r], ClaimsIn(r)')
  <2>1. ASSUME NEW q \in DOMAIN calls'[r], Carry(q)
        PROVE  /\ Content(q) \in ClaimsIn(r)'
               /\ q # new => q \in DOMAIN calls[r] /\ Content(q) \in ClaimsIn(r)
    <3>1. CASE q = new
      BY <3>1, <2>1, <1>6, <1>7 DEF Carry
    <3>2. CASE q # new
      BY <3>2, <2>1, <1>7 DEF CarriesClaimed
    <3> QED
      BY <3>1, <3>2
  <2>2. Carry(new) => Content(new) \notin ClaimsIn(r)
    BY <1>6, <1>7 DEF Carry
  <2>3. ASSUME NEW p \in DOMAIN calls'[r], NEW q \in DOMAIN calls'[r], Carry(p), Carry(q), Content(p) = Content(q)
        PROVE  p = q
    <3>1. CASE p = new \/ q = new
      BY <3>1, <2>1, <2>2, <2>3
    <3>2. CASE p # new /\ q # new
      BY <3>2, <2>1, <2>3, <1>7 DEF CarriesClaimed
    <3> QED
      BY <3>1, <3>2
  <2> QED
    BY <2>1, <2>3 DEF CarriesClaimed
<1>9. ClaimsIn(r)' \subseteq ClaimsIn(r) \cup Live(calls'[r])
  <2>1. link.as = "referrer" => link.content \in Live(calls'[r])
    BY <1>6, <1>7 DEF Live, Carry
  <2>2. ASSUME NEW n \in ClaimsIn(r)', n \notin ClaimsIn(r)
        PROVE  link.as = "referrer" /\ n = link.content
    <3>1. n \in Manifests /\ <<r, n>> \in claims' /\ <<r, n>> \notin claims
      BY <2>2, <1>7
    <3>2. link.as = "referrer" /\ <<r, n>> = <<r, link.content>>
      BY <3>1
    <3> QED
      BY <3>2
  <2> QED
    BY <2>1, <2>2
<1>10. Apart(r) /\ copied'[r] = copied[r]
  BY DEF Apart, ClaimsIn
<1> QED
  BY <1>1, <1>3, <1>5, <1>6, <1>8, <1>9, <1>10, SignedChange

LEMMA CallChildSigned ==
    ASSUME Acyclic, OneSubject, Inv, SignedInv, NEW r \in Repositories,
           NEW path \in DOMAIN calls[r], CallChild(r, path)
    PROVE  SignedInv'
<1> DEFINE call == calls[r][path]
           next == [call EXCEPT !.next = @ + 1]
           link == [as |-> "child", pos |-> call.next, content |-> Children[Content(path)][call.next]]
<1>1. /\ UNCHANGED <<heldM, fallback, sidecar, copied, claims, dropped>>
      /\ CallBelow(r, path, next, link)
      /\ call.pc = "parts" /\ call.next <= Len(Children[Content(path)])
  BY DEF CallChild, destination, memory, At
<1>2. call \in Calls /\ Content(path) \in Manifests /\ call.next \in Nat \ {0}
  BY CallFacts DEF Calls
<1>3. call.next \in 1..Len(Children[Content(path)])
  <2>1. Len(Children[Content(path)]) \in Nat
    BY <1>2, GraphFacts
  <2> QED
    BY <2>1, <1>1, <1>2
<1>4. /\ next.pc = call.pc /\ next.head = call.head /\ next.blob = call.blob /\ next.pc # "failed"
  BY <1>1, <1>2 DEF Calls
<1>5. link.content \in Range(Children[Content(path)]) /\ link.content \in Manifests
  BY <1>2, <1>3, HeirsTyped, GraphFacts
<1>6. link \in Links /\ link.as = "child"
  BY <1>2, <1>5 DEF Links, Roles
<1> HIDE DEF next, link
<1> QED
  BY <1>1, <1>4, <1>5, <1>6, SignedBelow

LEMMA CallSidecarSigned ==
    ASSUME Acyclic, OneSubject, Inv, SignedInv, NEW r \in Repositories,
           NEW path \in DOMAIN calls[r], CallSidecar(r, path)
    PROVE  SignedInv'
<1> DEFINE call == calls[r][path]
           link == [as |-> "sidecar", pos |-> 1, content |-> SourceSidecar(Content(path))]
<1>1. /\ UNCHANGED <<heldM, fallback, sidecar, copied, claims, dropped>>
      /\ CallBelow(r, path, call, link)
      /\ SourceSidecar(Content(path)) # None /\ call.pc = "sidecars"
  BY DEF CallSidecar, destination, memory, At
<1>2. link \in Links /\ link.as = "sidecar"
  BY <1>1, CallFacts, GraphFacts DEF Links, Roles
<1> HIDE DEF link
<1> QED
  BY <1>1, <1>2, SignedBelow

LEMMA ClaimReferrerSigned ==
    ASSUME Acyclic, OneSubject, Inv, SignedInv, NEW r \in Repositories,
           NEW path \in DOMAIN calls[r], ClaimReferrer(r, path)
    PROVE  SignedInv'
<1> DEFINE call == calls[r][path]
           link == [as |-> "referrer", pos |-> call.head, content |-> Referrer(r, path)]
<1>1. /\ UNCHANGED <<heldM, fallback, sidecar, copied, dropped>> /\ CarryingNext(r, path)
      /\ <<r, Referrer(r, path)>> \notin claims
      /\ claims' = claims \cup {<<r, Referrer(r, path)>>} /\ CallBelow(r, path, call, link)
  BY DEF ClaimReferrer, destination, Claimed
<1>2. /\ link \in Links /\ link.as = "referrer" /\ link.content = Referrer(r, path)
      /\ link.content \in Range(Referrers[Content(path)]) /\ call.pc = "referrers"
  BY <1>1, ReferrerTyped DEF Links, Roles
<1> HIDE DEF link
<1> QED
  BY <1>1, <1>2, SignedBelow

\* With no call under way, every claim is of a carry that was dropped or came to its end.
LEMMA NoCallsSigned ==
    ASSUME NEW held, NEW lost, NEW done, NEW d, done \subseteq Whole(d, lost),
           \A n \in held : n \in lost \/ Settled(n, d, lost), TagsHeld(d)
    PROVE  RepositoryOK(NoCalls, held, lost, done, d)
  BY DEF RepositoryOK, WalkSigned, CarriesClaimed, ClaimOK, NoCalls

LEMMA BeginTagSigned ==
    ASSUME Inv, SignedInv, NEW r \in Repositories, BeginTag(r)
    PROVE  SignedInv'
<1> DEFINE root == [as |-> "tag", pos |-> position[r], content |-> Plan[r][position[r]]]
           tree2 == [path \in {<<root>>} |-> Entered]
           d == Site(r)
           lost == dropped[r]
<1>1. /\ UNCHANGED <<heldM, fallback, sidecar, copied, claims, dropped>> /\ calls[r] = NoCalls
      /\ calls' = [calls EXCEPT ![r] = tree2]
  BY DEF BeginTag, destination, memory
<1>2. calls'[r] = tree2 /\ \A s \in Repositories \ {r} : calls'[s] = calls[s]
  BY <1>1 DEF Inv, WalksOK
<1>3. RepositoryOK(NoCalls, ClaimsIn(r), lost, copied[r], d)
  BY <1>1 DEF SignedInv
<1>4. DOMAIN tree2 = {<<root>>} /\ tree2[<<root>>] = Entered
  OBVIOUS
<1>5. <<root>>[1].as = "tag" /\ Len(<<root>>) = 1 /\ Last(<<root>>).as = "tag"
  BY DEF Last
<1> HIDE DEF root, tree2
<1>6. PathOK(<<root>>)
  <2>1. 1..(Len(<<root>>) - 1) = {} /\ 2..Len(<<root>>) = {}
    BY <1>5
  <2> QED
    BY <1>5, <2>1 DEF PathOK
<1>7. Fits(<<root>>, Entered, d.tags)
  BY <1>6 DEF Fits, Entered, NoBlobs
<1>8. \A X : SignedOK(<<root>>, Entered, d, X)
  BY DEF SignedOK, Entered
<1>9. ~Carry(<<root>>)
  BY <1>5 DEF Carry
<1> HIDE DEF d, lost
<1>10. WalkSigned(tree2, lost, d)
  BY <1>4, <1>7, <1>8 DEF WalkSigned
<1>11. CarriesClaimed(tree2, ClaimsIn(r))
  BY <1>4, <1>9 DEF CarriesClaimed
<1>12. \A n \in ClaimsIn(r) : ClaimOK(n, tree2, lost, d)
  BY <1>3 DEF RepositoryOK, ClaimOK, NoCalls, Live
<1>13. RepositoryOK(tree2, ClaimsIn(r), lost, copied[r], d)
  BY <1>3, <1>10, <1>11, <1>12 DEF RepositoryOK
<1>14. ClaimsIn(r)' = ClaimsIn(r) /\ Site(r)' = Site(r) /\ Apart(r) /\ Placed(r)
  BY <1>1, PlacedNothing DEF ClaimsIn, Site, Apart
<1> QED
  BY <1>1, <1>2, <1>13, <1>14, SignedElsewhere DEF d, lost

\* A walk that has ended has ended alone, and is not a carry.
LEMMA EndTagSigned ==
    ASSUME Inv, SignedInv, NEW r \in Repositories, EndTag(r)
    PROVE  SignedInv'
<1> DEFINE d == Site(r)
           lost == dropped[r]
<1>1. UNCHANGED <<heldM, fallback, sidecar, claims, dropped>> /\ calls' = [calls EXCEPT ![r] = NoCalls]
  BY DEF EndTag, destination, memory
<1>2. PICK path \in DOMAIN calls[r] :
          /\ Len(path) = 1 /\ calls[r][path].pc \in {"done", "failed"}
          /\ copied' = [copied EXCEPT ![r] =
                 IF calls[r][path].pc = "done" THEN @ \cup {Content(path)} ELSE @]
  BY DEF EndTag
<1>3. /\ WalkSigned(calls[r], lost, d) /\ path \in Paths /\ path[1] = Last(path)
      /\ \A n \in ClaimsIn(r) : ClaimOK(n, calls[r], lost, d)
      /\ copied[r] \subseteq Whole(d, lost) /\ TagsHeld(d)
  BY <1>2, SignedFacts DEF Last
<1>4. PathOK(path)
  BY <1>3 DEF WalkSigned, Fits
<1>5. /\ calls'[r] = NoCalls /\ \A s \in Repositories \ {r} : calls'[s] = calls[s]
      /\ \A s \in Repositories \ {r} : copied'[s] = copied[s]
      /\ copied'[r] = IF calls[r][path].pc = "done" THEN copied[r] \cup {Content(path)} ELSE copied[r]
  BY <1>1, <1>2 DEF Inv, WalksOK, TypesOK
<1>6. \A q \in DOMAIN calls[r] : q = path
  <2> SUFFICES ASSUME NEW q \in DOMAIN calls[r] PROVE q = path
    OBVIOUS
  <2>1. /\ q \in Paths /\ Len(q) \in Nat \ {0} /\ q[1] = path[1]
    BY <1>3, CallFacts, PathLast DEF WalkSigned
  <2>2. ~Under(path, q)
    BY <1>2, CallFacts DEF LinkOK
  <2>3. Len(q) = 1
    <3>0. Len(path) = 1
      BY <1>2
    <3>1. \A i \in 1..Len(path) : q[i] = path[i]
      BY <3>0, <2>1
    <3>2. ~(1 < Len(q))
      BY <3>0, <3>1, <2>2 DEF Under
    <3> DEFINE n == Len(q)
    <3>3. n \in Nat \ {0} /\ ~(1 < n)
      BY <3>2, <2>1
    <3> HIDE DEF n
    <3>4. n = 1
      BY <3>3
    <3> QED
      BY <3>4 DEF n
  <2>4. q \in Seq(Links) /\ path \in Seq(Links)
    BY <2>1, <1>3 DEF Paths
  <2>5. \A i \in 1..Len(q) : q[i] = path[i]
    BY <2>1, <2>3
  <2> QED
    BY <2>3, <2>4, <2>5, <1>2, <1>3, <2>1, PathEqual
<1>7. Live(calls[r]) = {}
  <2>1. ~Carry(path)
    BY <1>3, <1>4 DEF Carry, PathOK
  <2> QED
    BY <2>1, <1>6 DEF Live
<1>8. calls[r][path].pc = "done" => Content(path) \in Whole(d, lost)
  <2> SUFFICES ASSUME calls[r][path].pc = "done" PROVE Content(path) \in Whole(d, lost)
    OBVIOUS
  <2>1. Unbroken(calls[r])
    BY <1>6 DEF Unbroken
  <2>2. Trusted(path, calls[r]) /\ Excused(path, calls[r], lost) = lost
    BY <2>1, <1>7 DEF Trusted, Excused
  <2>3. SignedOK(path, calls[r][path], d, lost)
    BY <2>2, <1>3 DEF WalkSigned
  <2>4. \A i \in 1..Len(path) : path[i].as # "sidecar"
    BY <1>2, <1>4 DEF PathOK
  <2>5. Swept(path)
    BY <2>4, <1>3, SweptOf
  <2> QED
    BY <2>3, <2>5 DEF SignedOK
<1>9. \A n \in ClaimsIn(r) : n \in lost \/ Settled(n, d, lost)
  BY <1>3, <1>7 DEF ClaimOK
<1>10. copied'[r] \subseteq Whole(d, lost)
  BY <1>3, <1>5, <1>8
<1> HIDE DEF d, lost
<1>11. RepositoryOK(NoCalls, ClaimsIn(r), lost, copied'[r], d)
  BY <1>3, <1>9, <1>10, NoCallsSigned
<1>12. ClaimsIn(r)' = ClaimsIn(r) /\ Site(r)' = Site(r) /\ Apart(r) /\ Placed(r)
  BY <1>1, <1>5, PlacedNothing DEF ClaimsIn, Site, Apart
<1> QED
  BY <1>1, <1>5, <1>11, <1>12, SignedElsewhere DEF d, lost

LEMMA OperatorSigned ==
    ASSUME OneSubject, Inv, SignedInv, NEW r \in Repositories, NEW m \in Manifests, OperatorSigns(r, m)
    PROVE  SignedInv'
<1>1. /\ UNCHANGED <<heldM, fallback, calls, copied, claims, dropped>> /\ sidecar[r][m] = None
      /\ sidecar' = [sidecar EXCEPT ![r][m] = Own] /\ calls[r] = NoCalls
  BY DEF OperatorSigns, memory
<1>2. /\ \A x \in Manifests : sidecar'[r][x] = IF x = m THEN Own ELSE sidecar[r][x]
      /\ \A s \in Repositories \ {r} : sidecar'[s] = sidecar[s]
  BY <1>1 DEF Inv, TypesOK, DestinationTypes
<1>3. /\ TagsHeld(Site(r)) /\ copied[r] \subseteq Whole(Site(r), dropped[r])
      /\ \A n \in ClaimsIn(r) : ClaimOK(n, calls[r], dropped[r], Site(r))
  BY SignedFacts
<1>4. Gains(Site(r), Site(r)') /\ TagsHeld(Site(r)')
  <2>1. None # Own \/ None = Own
    OBVIOUS
  <2> QED
    BY <1>1, <1>2, <1>3, NoneAssumption DEF Gains, TagsHeld, Site
<1>5. Placed(r)
  BY <1>1, <1>2, <1>4 DEF Placed, Site
<1>6. \A n \in ClaimsIn(r) : n \in dropped[r] \/ Settled(n, Site(r), dropped[r])
  BY <1>1, <1>3 DEF ClaimOK, Live, NoCalls
<1>7. Whole(Site(r), dropped[r]) \subseteq Whole(Site(r)', dropped[r])
  BY <1>4, WholeMoves
<1>8. \A n \in ClaimsIn(r) : n \in dropped[r] \/ Settled(n, Site(r)', dropped[r])
  BY <1>4, <1>6, SettledMoves
<1>9. RepositoryOK(NoCalls, ClaimsIn(r), dropped[r], copied[r], Site(r)')
  BY <1>3, <1>4, <1>7, <1>8, NoCallsSigned
<1>10. ClaimsIn(r)' = ClaimsIn(r) /\ Apart(r)
  BY <1>1 DEF ClaimsIn, Apart
<1> QED
  BY <1>1, <1>5, <1>9, <1>10, SignedElsewhere

\* A run that ends or is killed leaves what it placed.
LEMMA ForgetSigned ==
    ASSUME SignedInv, ForgetRun
    PROVE  SignedInv'
<1> SUFFICES ASSUME NEW r \in Repositories
             PROVE  RepositoryOK(calls'[r], ClaimsIn(r)', dropped'[r], copied'[r], Site(r)')
  BY DEF SignedInv
<1>1. /\ UNCHANGED <<heldM, fallback, sidecar>> /\ calls'[r] = NoCalls /\ copied'[r] = {} /\ claims' = {}
  BY DEF ForgetRun, destination
<1>2. ClaimsIn(r)' = {} /\ Site(r)' = Site(r)
  BY <1>1 DEF ClaimsIn, Site
<1>3. TagsHeld(Site(r))
  BY DEF SignedInv, RepositoryOK
<1> QED
  BY <1>1, <1>2, <1>3, NoCallsSigned

LEMMA SignedInit == Init => SignedInv
<1> SUFFICES ASSUME Init, NEW r \in Repositories
             PROVE  RepositoryOK(calls[r], ClaimsIn(r), dropped[r], copied[r], Site(r))
  BY DEF SignedInv
<1>1. /\ calls[r] = NoCalls /\ ClaimsIn(r) = {} /\ copied[r] = {}
      /\ \A m \in Manifests : sidecar[r][m] = None
  BY DEF Init, ClaimsIn
<1>2. TagsHeld(Site(r))
  BY <1>1, NoneAssumption DEF TagsHeld, Site
<1> QED
  BY <1>1, <1>2, NoCallsSigned

LEMMA SignedStep ==
    ASSUME SoundGraph
    PROVE  Inv /\ SignedInv /\ [Next]_vars => SignedInv'
<1> SUFFICES ASSUME Inv, SignedInv, [Next]_vars PROVE SignedInv'
  OBVIOUS
<1>0. Acyclic /\ OneSubject /\ ImagesAreLeaves /\ ReferrersApart
  BY DEF SoundGraph
<1>1. CASE UNCHANGED <<heldM, fallback, sidecar, calls, copied, claims, dropped>>
  BY <1>1 DEF SignedInv, ClaimsIn, Site
<1>2. CASE NextRun \/ Abort
  BY <1>2, ForgetSigned DEF NextRun, Abort
<1>3. ASSUME NEW r \in Repositories, NEW m \in Manifests, OperatorSigns(r, m)
      PROVE  SignedInv'
  BY <1>0, <1>3, OperatorSigned
<1>4. ASSUME NEW r \in Repositories, SkipCopied(r) \/ BeginTag(r) \/ EndTag(r)
      PROVE  SignedInv'
  BY <1>1, <1>4, BeginTagSigned, EndTagSigned DEF SkipCopied, destination, memory
<1>5. ASSUME NEW r \in Repositories, NEW path \in DOMAIN calls[r], CopyParts(r, path)
      PROVE  SignedInv'
  <2>1. ASSUME NEW b \in Blobs, CopyBlob(r, path, b)
        PROVE  SignedInv'
    BY <1>0, <2>1, BlobSigned, FailUploadSigned
  <2> QED
    BY <1>0, <1>5, <2>1, FetchSigned, FailReadSigned, CallChildSigned, TakeChildSigned, FailChildSigned,
       PushSigned, FailPushSigned DEF CopyParts
<1>6. ASSUME NEW r \in Repositories, NEW path \in DOMAIN calls[r], CopySignatures(r, path)
      PROVE  SignedInv'
  BY <1>0, <1>6, SkipReferrerSigned, ClaimReferrerSigned, EndReferrerSigned, FailReferrerSigned,
     EndReferrersSigned, CallSidecarSigned, ReturnSigned, FailSidecarSigned DEF CopySignatures
<1> QED
  BY <1>1, <1>2, <1>3, <1>4, <1>5, <1>6 DEF Next, CopyStep, vars, destination, memory

LEMMA SignedHolds ==
    ASSUME SoundGraph
    PROVE  Spec => [](Inv /\ SignedInv)
  BY InvInit, InvNext, SignedInit, SignedStep, PTL DEF Spec

-----------------------------------------------------------------------------
(* What a dry run measures.                                                   *)

Tallies == [Manifests -> [BOOLEAN -> SUBSET Blobs]]

\* What the measure of a manifest is made of, `tally` being that of what it goes on to.
Tallied(r, tally, m, swept) ==
    (Layers[m] \ heldB[r])
    \cup (UNION {tally[n][swept] : n \in Range(Children[m])})
    \cup (IF ~swept THEN {} ELSE
           UNION ({tally[n][TRUE] : n \in Range(Referrers[m])}
                  \cup {tally[n][FALSE] : n \in {SourceSidecar(m)} \ {None}}))

\* What is in it, one blob at a time.
LEMMA TalliedOf ==
    ASSUME NEW r, NEW tally, NEW m \in Manifests, NEW swept \in BOOLEAN, NEW b
    PROVE  b \in Tallied(r, tally, m, swept) <=>
             \/ b \in Layers[m] /\ b \notin heldB[r]
             \/ \E n \in Range(Children[m]) : b \in tally[n][swept]
             \/ swept /\ \E n \in Range(Referrers[m]) : b \in tally[n][TRUE]
             \/ swept /\ SourceSidecar(m) # None /\ b \in tally[SourceSidecar(m)][FALSE]
<1> DEFINE own == Layers[m] \ heldB[r]
           below == UNION {tally[n][swept] : n \in Range(Children[m])}
           refers == UNION {tally[n][TRUE] : n \in Range(Referrers[m])}
           tags == {tally[n][FALSE] : n \in {SourceSidecar(m)} \ {None}}
<1>1. b \in below <=> \E n \in Range(Children[m]) : b \in tally[n][swept]
  OBVIOUS
<1>2. b \in refers <=> \E n \in Range(Referrers[m]) : b \in tally[n][TRUE]
  OBVIOUS
<1>3. b \in UNION tags <=> SourceSidecar(m) # None /\ b \in tally[SourceSidecar(m)][FALSE]
  OBVIOUS
<1>4. UNION ({tally[n][TRUE] : n \in Range(Referrers[m])} \cup tags) = refers \cup UNION tags
  OBVIOUS
<1>5. CASE swept = TRUE
  <2>1. Tallied(r, tally, m, TRUE) = own \cup below \cup (refers \cup UNION tags)
    BY <1>4, <1>5 DEF Tallied
  <2> HIDE DEF below, refers, tags
  <2> QED
    BY <2>1, <1>1, <1>2, <1>3, <1>5
<1>6. CASE swept = FALSE
  <2>1. Tallied(r, tally, m, swept) = own \cup below
    BY <1>6 DEF Tallied
  <2> HIDE DEF below
  <2> QED
    BY <2>1, <1>1, <1>6
<1> QED
  BY <1>5, <1>6

LEMMA GoesOnTo ==
    ASSUME NEW m \in Manifests
    PROVE  /\ Layers[m] \subseteq Blobs
           /\ \A n \in Range(Children[m]) \cup Range(Referrers[m]) : n \in Manifests
           /\ SourceSidecar(m) # None => SourceSidecar(m) \in Manifests
  BY GraphFacts, HeirsTyped

LEMMA TalliedTyped ==
    ASSUME NEW r, NEW tally \in Tallies, NEW m \in Manifests, NEW swept \in BOOLEAN
    PROVE  Tallied(r, tally, m, swept) \subseteq Blobs
<1>1. \A n \in Manifests : tally[n][swept] \subseteq Blobs /\ tally[n][TRUE] \subseteq Blobs
                           /\ tally[n][FALSE] \subseteq Blobs
  BY DEF Tallies
<1> QED
  BY <1>1, TalliedOf, GoesOnTo

LEMMA TalliedGrows ==
    ASSUME NEW r, NEW f, NEW g, NEW m \in Manifests, NEW swept \in BOOLEAN,
           \A n \in Manifests : \A s \in BOOLEAN : f[n][s] \subseteq g[n][s]
    PROVE  Tallied(r, f, m, swept) \subseteq Tallied(r, g, m, swept)
<1>1. \A n \in Manifests : /\ f[n][swept] \subseteq g[n][swept] /\ f[n][TRUE] \subseteq g[n][TRUE]
                           /\ f[n][FALSE] \subseteq g[n][FALSE]
  OBVIOUS
<1> QED
  BY <1>1, TalliedOf, GoesOnTo

\* The least tally there is: what the recursion of missing_descriptors comes to.
LEMMA TallyExists ==
    ASSUME NEW r
    PROVE  \E tally : tally = [m \in Manifests |-> [swept \in BOOLEAN |-> Tallied(r, tally, m, swept)]]
<1> DEFINE Closed == {f \in Tallies : \A m \in Manifests : \A s \in BOOLEAN :
                          Tallied(r, f, m, s) \subseteq f[m][s]}
           least == [m \in Manifests |-> [s \in BOOLEAN |-> {b \in Blobs : \A f \in Closed : b \in f[m][s]}]]
           next == [m \in Manifests |-> [s \in BOOLEAN |-> Tallied(r, least, m, s)]]
<1>1. least \in Tallies
  BY DEF Tallies
<1>2. \A m \in Manifests : \A s \in BOOLEAN :
          least[m][s] = {b \in Blobs : \A f \in Closed : b \in f[m][s]}
  OBVIOUS
<1>3. \A m \in Manifests : \A s \in BOOLEAN : next[m][s] = Tallied(r, least, m, s)
  OBVIOUS
<1>4. next \in Tallies
  <2>1. \A m \in Manifests : \A s \in BOOLEAN : Tallied(r, least, m, s) \in SUBSET Blobs
    <3> HIDE DEF least
    <3> QED
      BY <1>1, TalliedTyped
  <2> HIDE DEF least
  <2> QED
    BY <2>1 DEF Tallies
<1>0. \A f : f \in Closed <=> f \in Tallies /\ \A m \in Manifests : \A s \in BOOLEAN :
                                                    Tallied(r, f, m, s) \subseteq f[m][s]
  OBVIOUS
<1> HIDE DEF Closed, least, next
<1>5. ASSUME NEW m \in Manifests, NEW s \in BOOLEAN
      PROVE  Tallied(r, least, m, s) \subseteq least[m][s]
  <2> SUFFICES ASSUME NEW f \in Closed PROVE Tallied(r, least, m, s) \subseteq f[m][s]
    BY <1>1, <1>2, TalliedTyped
  <2>1. \A n \in Manifests : \A t \in BOOLEAN : least[n][t] \subseteq f[n][t]
    BY <1>2
  <2>2. Tallied(r, least, m, s) \subseteq Tallied(r, f, m, s)
    BY <2>1, TalliedGrows
  <2> QED
    BY <2>2, <1>0
<1>6. next \in Closed
  <2>1. \A n \in Manifests : \A t \in BOOLEAN : next[n][t] \subseteq least[n][t]
    BY <1>3, <1>5
  <2>2. \A m \in Manifests : \A s \in BOOLEAN : Tallied(r, next, m, s) \subseteq Tallied(r, least, m, s)
    BY <2>1, TalliedGrows
  <2>3. \A m \in Manifests : \A s \in BOOLEAN : Tallied(r, next, m, s) \subseteq next[m][s]
    BY <2>2, <1>3
  <2> QED
    BY <2>3, <1>0, <1>4
<1>7. \A m \in Manifests : \A s \in BOOLEAN : least[m][s] = Tallied(r, least, m, s)
  <2>1. \A m \in Manifests : \A s \in BOOLEAN : least[m][s] \subseteq next[m][s]
    BY <1>2, <1>6
  <2> QED
    BY <2>1, <1>3, <1>5
<1>8. least = [m \in Manifests |-> [s \in BOOLEAN |-> Tallied(r, least, m, s)]]
  <2>1. least = [m \in Manifests |-> [s \in BOOLEAN |-> least[m][s]]]
    BY <1>1 DEF Tallies
  <2> QED
    BY <2>1, <1>7
<1> QED
  BY <1>8

LEMMA MissingIs ==
    ASSUME NEW r, NEW m \in Manifests, NEW swept \in BOOLEAN
    PROVE  Missing(r)[m][swept] = Tallied(r, Missing(r), m, swept)
<1>1. Missing(r) = CHOOSE tally :
          tally = [n \in Manifests |-> [s \in BOOLEAN |-> Tallied(r, tally, n, s)]]
  BY DEF Missing, Tallied
<1>2. Missing(r) = [n \in Manifests |-> [s \in BOOLEAN |-> Tallied(r, Missing(r), n, s)]]
  BY <1>1, TallyExists
<1> QED
  BY <1>2

\* Of some manifests the one of the least rank.
LEMMA LowestOf ==
    ASSUME Acyclic, NEW S \in SUBSET Manifests, S # {}
    PROVE  \E m \in S : \A n \in S : ~(Rank[n] < Rank[m])
<1> DEFINE T == {Rank[m] : m \in S}
<1>1. \A m \in Manifests : Rank[m] \in Nat
  BY RankFalls
<1>2. T \in SUBSET Nat /\ T # {}
  BY <1>1
<1>3. Min(T) \in T /\ \A x \in T : Min(T) <= x
  <2> HIDE DEF T
  <2> QED
    BY <1>2, SmallestOf
<1>4. PICK m \in S : Rank[m] = Min(T)
  BY <1>3
<1>5. \A n \in S : Rank[m] <= Rank[n]
  BY <1>3, <1>4
<1>6. \A n \in S : Rank[m] \in Nat /\ Rank[n] \in Nat
  BY <1>1
<1> QED
  BY <1>5, <1>6

\* A manifest that is held lacks nothing of what it names.
LEMMA HeldLacksNothing ==
    ASSUME Acyclic, ManifestsComplete, NEW r \in Repositories, heldM[r] \subseteq Manifests
    PROVE  \A m \in heldM[r] : Missing(r)[m][FALSE] = {}
<1> DEFINE S == {m \in heldM[r] : Missing(r)[m][FALSE] # {}}
<1> SUFFICES ASSUME S # {} PROVE FALSE
  OBVIOUS
<1>1. S \in SUBSET Manifests
  OBVIOUS
<1>2. PICK m \in S : \A n \in S : ~(Rank[n] < Rank[m])
  <2> HIDE DEF S
  <2> QED
    BY <1>1, LowestOf
<1>3. PICK b : b \in Missing(r)[m][FALSE]
  BY <1>2
<1>4. m \in Manifests /\ m \in heldM[r] /\ b \in Tallied(r, Missing(r), m, FALSE)
  BY <1>1, <1>2, <1>3, MissingIs
<1>5. \/ b \in Layers[m] /\ b \notin heldB[r]
      \/ \E n \in Range(Children[m]) : b \in Missing(r)[n][FALSE]
  BY <1>4, TalliedOf
<1>6. Layers[m] \subseteq heldB[r] /\ Range(Children[m]) \subseteq heldM[r]
  BY <1>4 DEF ManifestsComplete
<1>7. PICK n \in Range(Children[m]) : b \in Missing(r)[n][FALSE]
  BY <1>5, <1>6
<1>8. n \in S
  BY <1>6, <1>7
<1>9. Rank[n] < Rank[m]
  BY <1>4, RankFalls DEF Heirs
<1> QED
  BY <1>2, <1>8, <1>9

\* A content that is whole but for what was dropped lacks nothing but what is withheld.
LEMMA WholeLacksWithheld ==
    ASSUME Acyclic, ManifestsComplete, NEW r \in Repositories, heldM[r] \subseteq Manifests,
           TagsHeld(Site(r)), NEW c \in Whole(Site(r), dropped[r])
    PROVE  Missing(r)[c][TRUE] \subseteq Withheld(r, c)
<1> DEFINE W == Whole(Site(r), dropped[r])
           S == {m \in Tree[c] : m \in W /\ ~(Missing(r)[m][TRUE] \subseteq Withheld(r, c))}
<1>1. W \in SUBSET Manifests /\ Carries(Site(r), dropped[r], W) /\ c \in W
  BY WholeHolds
<1> HIDE DEF W
<1>2. c \in Manifests /\ c \in Tree[c] /\ Tree[c] \subseteq Manifests /\ \A m \in Tree[c] : Heirs(m) \subseteq Tree[c]
  BY <1>1, TreeHolds
<1> SUFFICES ASSUME S # {} PROVE FALSE
  BY <1>1, <1>2
<1>3. S \in SUBSET Manifests
  BY <1>2
<1>4. PICK m \in S : \A n \in S : ~(Rank[n] < Rank[m])
  <2> HIDE DEF S
  <2> QED
    BY <1>3, LowestOf
<1>5. PICK b : b \in Missing(r)[m][TRUE] /\ b \notin Withheld(r, c)
  BY <1>4
<1>6. /\ m \in Manifests /\ m \in Tree[c] /\ m \in W /\ m \in heldM[r]
      /\ Sidecar[m] # None => sidecar[r][m] # None
      /\ Range(Children[m]) \subseteq W /\ Range(Referrers[m]) \ dropped[r] \subseteq W
      /\ b \in Tallied(r, Missing(r), m, TRUE)
  BY <1>1, <1>3, <1>4, <1>5, MissingIs DEF Carries, Site
<1>7. CASE b \in Layers[m] /\ b \notin heldB[r]
  BY <1>6, <1>7 DEF ManifestsComplete
<1>8. ASSUME NEW n \in Range(Children[m]) \cup Range(Referrers[m]), b \in Missing(r)[n][TRUE]
      PROVE  FALSE
  <2>1. n \in Heirs(m)
    BY DEF Heirs
  <2>2. CASE n \in dropped[r]
    BY <2>2, <1>5, <1>8 DEF Withheld
  <2>3. CASE n \in W
    <3>1. n \in S
      BY <2>1, <2>3, <1>2, <1>5, <1>6, <1>8
    <3>2. Rank[n] < Rank[m]
      BY <2>1, <1>6, RankFalls
    <3> QED
      BY <3>1, <3>2, <1>4
  <2> QED
    BY <2>2, <2>3, <1>6
<1>9. CASE SourceSidecar(m) # None /\ b \in Missing(r)[SourceSidecar(m)][FALSE]
  <2>1. CASE Conflicts(r, m)
    BY <2>1, <1>5, <1>6, <1>9 DEF Withheld
  <2>2. CASE ~Conflicts(r, m)
    <3>1. sidecar[r][m] = SourceSidecar(m) /\ SourceSidecar(m) \in Manifests
      BY <2>2, <1>6, <1>9, GraphFacts DEF Conflicts, DestinationTag, SourceSidecar
    <3>2. SourceSidecar(m) \in heldM[r]
      BY <3>1, <1>6 DEF TagsHeld, Site
    <3>3. Missing(r)[SourceSidecar(m)][FALSE] = {}
      BY <3>2, HeldLacksNothing
    <3> QED
      BY <3>3, <1>9
  <2> QED
    BY <2>1, <2>2
<1>10. \/ b \in Layers[m] /\ b \notin heldB[r]
       \/ \E n \in Range(Children[m]) \cup Range(Referrers[m]) : b \in Missing(r)[n][TRUE]
       \/ SourceSidecar(m) # None /\ b \in Missing(r)[SourceSidecar(m)][FALSE]
  BY <1>6, TalliedOf
<1> QED
  BY <1>7, <1>8, <1>9, <1>10

\* Of a content whose copy reported success, every signature the source lists in its tree
\* is at the destination and discoverable, but what refers through a carry that a failed
\* sibling dropped; and a dry run after it would move nothing but that and the sidecars that
\* conflict.  However many children are walked at a time, in whatever order, and whatever
\* fails: on graphs that a walk comes to the end of, in which a manifest has one subject,
\* either layers or children, and what refers to one is neither an index nor listed by one
\* (copy_manifest_tree_at, copy_referrers, copy_sidecars, ClaimedReferrer,
\* missing_descriptors).
THEOREM CopiedSigned ==
    ASSUME SoundGraph
    PROVE  Spec => []CopiedIsSigned
<1>1. Inv /\ SignedInv => CopiedIsSigned
  <2> SUFFICES ASSUME Inv, SignedInv, NEW r \in Repositories, NEW c \in copied[r]
               PROVE  /\ \A m \in Tree[c] \ Forgone(r) : SignaturesCarried(r, m)
                      /\ Missing(r)[c][TRUE] \subseteq Withheld(r, c)
    BY DEF CopiedIsSigned
  <2> DEFINE d == Site(r)
             lost == dropped[r]
             W == Whole(d, lost)
  <2>1. c \in W /\ TagsHeld(d) /\ d = [held |-> heldM[r], index |-> fallback[r], tags |-> sidecar[r]]
    BY SignedFacts
  <2>2. heldM[r] \subseteq Manifests /\ ManifestsComplete /\ lost \in SUBSET Manifests
    BY DEF Inv, TypesOK, DestinationTypes
  <2>3. W \in SUBSET Manifests /\ Carries(d, lost, W)
    BY WholeHolds
  <2>4. Missing(r)[c][TRUE] \subseteq Withheld(r, c)
    BY <2>1, <2>2, WholeLacksWithheld DEF SoundGraph
  <2> HIDE DEF d, lost
  <2>5. \A m \in Tree[c] : m \in W \/ m \in UNION {Tree[n] : n \in lost}
    BY <2>1, <2>2, TreeWhole
  <2> HIDE DEF W
  <2>6. ASSUME NEW m \in W PROVE SignaturesCarried(r, m)
    BY <2>1, <2>3 DEF Carries, SignaturesCarried, lost
  <2> QED
    BY <2>4, <2>5, <2>6 DEF Forgone, lost
<1> QED
  BY <1>1, SignedHolds, PTL
=============================================================================
