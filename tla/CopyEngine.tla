----------------------------- MODULE CopyEngine -----------------------------
(* The copy ladder under `registry sync`: `copy_manifest_tree` walks one tag's *)
(* manifest tree and places it, blob by blob and manifest by manifest, in a    *)
(* destination repository, signatures included.  Modelled from                 *)
(*   crates/ocx_mirror_pipeline/src/registry_copy.rs                           *)
(*                                                                            *)
(* A walk is a tree of calls of one recursive async function.  A call is named *)
(* by its path from the walk's root; `calls[r]` holds the calls under way in   *)
(* repository `r`.  An error drops the calls below it, as dropping a future    *)
(* does.  A digest is the value it is the digest of; a request that is rate    *)
(* limited is retried inside the step that makes it, and a step that fails has *)
(* spent its retries.                                                         *)
EXTENDS Naturals, Sequences, FiniteSets, SequencesExt

CONSTANTS
    Repositories,   \* destination repositories, one per package under way
    Manifests,      \* image indexes, image manifests, referrers and sidecars
    Blobs,
    Children,       \* the manifests[] of an index, <<>> for an image manifest
    Layers,         \* config and layers of an image manifest
    Referrers,      \* what the source lists as referrers of a manifest
    Sidecar,        \* what the source's cosign tag of a manifest points at, or None
    Plan,           \* the contents one run copies into a repository, in order
    None,
    Own,            \* a signature the operator made at the destination
    Fallback,       \* whether the destination has no Referrers API
    MaxBlobs,       \* concurrency.max_blobs
    ChildFanout,    \* CHILD_FANOUT_CEILING
    MaxFaults       \* bound: failures and interruptions in a behaviour

ASSUME GraphAssumption ==
    /\ Children \in [Manifests -> Seq(Manifests)]
    /\ Layers \in [Manifests -> SUBSET Blobs]
    /\ Referrers \in [Manifests -> Seq(Manifests)]
    /\ Sidecar \in [Manifests -> Manifests \cup {None}]
    /\ Plan \in [Repositories -> Seq(Manifests)]
ASSUME NoneAssumption == None \notin Manifests /\ None \notin Repositories /\ Own \notin Manifests
ASSUME BoundAssumption ==
    /\ MaxBlobs \in Nat \ {0} /\ ChildFanout \in Nat \ {0} /\ MaxFaults \in Nat
    /\ Fallback \in BOOLEAN

VARIABLES
    heldM,      \* destination: manifests per repository
    heldB,      \* destination: blobs per repository
    fallback,   \* destination: the referrers tag-schema index of each subject
    sidecar,    \* destination: what the cosign tag of each manifest points at
    calls,      \* per repository: the calls of copy_manifest_tree_at under way
    position,   \* per repository: the next entry of its plan
    copied,     \* per repository: contents this run confirmed
    location,   \* the run's mounted_from: a repository known to hold a blob
    claims,     \* the run's carried_referrers
    dropped,    \* history only: per repository, the referrers whose carry was dropped
    faults      \* bound only

destination == <<heldM, heldB, fallback, sidecar>>
memory == <<location, claims, dropped>>
vars == <<destination, calls, position, copied, memory, faults>>

Roles == {"tag", "child", "referrer", "sidecar"}
Links == [as : Roles, pos : Nat, content : Manifests]
Stages == {"none", "probe", "mount", "queue", "hold"}
Phases == {"fetch", "parts", "referrers", "sidecars", "done", "failed"}
Calls == [pc : Phases, head : Nat \ {0}, next : Nat \ {0}, blob : [Blobs -> Stages]]

NoCalls == [path \in {} |-> {}]
NoBlobs == [b \in Blobs |-> "none"]
Entered == [pc |-> "fetch", head |-> 1, next |-> 1, blob |-> NoBlobs]

-----------------------------------------------------------------------------
(* The call tree.                                                             *)

Content(path) == Last(path).content
Below(r, path) == {q \in DOMAIN calls[r] : IsStrictPrefix(path, q)}

\* The call at `path` becomes `call`, and the calls in `ended` are no more.
EndCalls(r, path, ended, call) ==
    calls' = [calls EXCEPT ![r] =
        [q \in DOMAIN @ \ ended |-> IF q = path THEN call ELSE @[q]]]

\* The call at `path` becomes `call`, and every call below it is dropped.
SetCall(r, path, call) == EndCalls(r, path, Below(r, path), call)

\* The call at `path` becomes `call` and calls one further level down.
CallBelow(r, path, call, link) ==
    calls' = [calls EXCEPT ![r] =
        [q \in DOMAIN @ \cup {Append(path, link)} |->
            IF q = path THEN call ELSE IF q \in DOMAIN @ THEN @[q] ELSE Entered]]

\* The call at `path` becomes `call`, its callees untouched.
Step(r, path, call) == calls' = [calls EXCEPT ![r][path] = call]

At(r, path, pc) == path \in DOMAIN calls[r] /\ calls[r][path].pc = pc

\* The callee of `path` for the entry it waits for, if it has called it.
Callee(r, path, as) ==
    {q \in DOMAIN calls[r] :
        Len(q) = Len(path) + 1 /\ IsPrefix(path, q) /\ Last(q).as = as
        /\ Last(q).pos = calls[r][path].head}
Answered(r, path, as, pc) == \E q \in Callee(r, path, as) : calls[r][q].pc = pc

Failure == faults < MaxFaults /\ faults' = faults + 1

\* Under a sidecar nothing is swept: Carriage::sidecar has no hop.
Swept(path) == \A i \in DOMAIN path : path[i].as # "sidecar"

\* An index has `buffered(width)` children under way at the top, one below it.
Width(path) == IF \A i \in DOMAIN path : path[i].as # "child" THEN ChildFanout ELSE 1

-----------------------------------------------------------------------------

Init ==
    /\ heldM = [r \in Repositories |-> {}]
    /\ heldB = [r \in Repositories |-> {}]
    /\ fallback = [r \in Repositories |-> [m \in Manifests |-> {}]]
    /\ sidecar = [r \in Repositories |-> [m \in Manifests |-> None]]
    /\ calls = [r \in Repositories |-> NoCalls]
    /\ position = [r \in Repositories |-> 1]
    /\ copied = [r \in Repositories |-> {}]
    /\ location = [b \in Blobs |-> None]
    /\ claims = {}
    /\ dropped = [r \in Repositories |-> {}]
    /\ faults = 0

-----------------------------------------------------------------------------
(* A package's contents, one tag after another.                               *)

\* The tag's content was brought by an earlier tag: tag_manifest, no walk.
SkipCopied(r) ==
    /\ calls[r] = NoCalls
    /\ position[r] <= Len(Plan[r])
    /\ Plan[r][position[r]] \in copied[r]
    /\ position' = [position EXCEPT ![r] = @ + 1]
    /\ UNCHANGED <<destination, calls, copied, memory, faults>>

BeginTag(r) ==
    /\ calls[r] = NoCalls
    /\ position[r] <= Len(Plan[r])
    /\ Plan[r][position[r]] \notin copied[r]
    /\ LET root == [as |-> "tag", pos |-> position[r], content |-> Plan[r][position[r]]]
       IN calls' = [calls EXCEPT ![r] = [path \in {<<root>>} |-> Entered]]
    /\ UNCHANGED <<destination, position, copied, memory, faults>>

EndTag(r) ==
    /\ \E path \in DOMAIN calls[r] :
         /\ Len(path) = 1
         /\ calls[r][path].pc \in {"done", "failed"}
         /\ copied' = [copied EXCEPT ![r] =
                IF calls[r][path].pc = "done" THEN @ \cup {Content(path)} ELSE @]
    /\ calls' = [calls EXCEPT ![r] = NoCalls]
    /\ position' = [position EXCEPT ![r] = @ + 1]
    /\ UNCHANGED <<destination, memory, faults>>

-----------------------------------------------------------------------------
(* copy_manifest_tree_at: the manifest, what it references, its own push.     *)

Fetch(r, path) ==
    /\ At(r, path, "fetch")
    /\ Step(r, path, [calls[r][path] EXCEPT
           !.pc = "parts",
           !.blob = [b \in Blobs |-> IF b \in Layers[Content(path)] THEN "probe" ELSE "none"]])
    /\ UNCHANGED <<destination, position, copied, memory, faults>>

Fail(r, path) == SetCall(r, path, [calls[r][path] EXCEPT !.pc = "failed", !.blob = NoBlobs])

\* Unreachable, gone, not what its digest says, malformed or past a ceiling; a
\* source that does not answer for the referrers or the sidecar.
FailRead(r, path) ==
    /\ \E pc \in {"fetch", "referrers", "sidecars"} : At(r, path, pc)
    /\ Below(r, path) = {}
    /\ Failure
    /\ Fail(r, path)
    /\ UNCHANGED <<destination, position, copied, memory>>

CallChild(r, path) ==
    LET call == calls[r][path] IN
    /\ At(r, path, "parts")
    /\ call.next <= Len(Children[Content(path)])
    /\ call.next < call.head + Width(path)
    /\ CallBelow(r, path, [call EXCEPT !.next = @ + 1],
                 [as |-> "child", pos |-> call.next, content |-> Children[Content(path)][call.next]])
    /\ UNCHANGED <<destination, position, copied, memory, faults>>

\* `buffered` yields in order: a later child that is done waits for its turn.
TakeChild(r, path) ==
    /\ At(r, path, "parts")
    /\ Answered(r, path, "child", "done")
    /\ EndCalls(r, path, Callee(r, path, "child"), [calls[r][path] EXCEPT !.head = @ + 1])
    /\ UNCHANGED <<destination, position, copied, memory, faults>>

\* The stream is dropped, and with it every child under way: a claim that is held below
\* one of them stays, for no error reaches the code that would release it.
FailChild(r, path) ==
    /\ At(r, path, "parts")
    /\ Answered(r, path, "child", "failed")
    /\ Fail(r, path)
    /\ dropped' = [dropped EXCEPT ![r] = @ \cup
           {Content(q) : q \in {q \in Below(r, path) : Last(q).as = "referrer"}}]
    /\ UNCHANGED <<destination, position, copied, location, claims, faults>>

-----------------------------------------------------------------------------
(* ensure_blob: what the run knows, a probe, a mount, an upload.              *)

BlobAt(r, path, b, stage) == At(r, path, "parts") /\ calls[r][path].blob[b] = stage
SetBlob(r, path, b, stage) == Step(r, path, [calls[r][path] EXCEPT !.blob[b] = stage])

\* record_location: the first repository is remembered, a later one is not.
RecordLocation(b, r) ==
    location' = IF location[b] = None THEN [location EXCEPT ![b] = r] ELSE location

\* Faulty variant of ConfirmedHere: known to be somewhere, taken for here.
ConfirmedAnywhere(b, r) == location[b] # None

ConfirmedHere(b, r) == location[b] = r

SkipBlob(r, path, b) ==
    /\ BlobAt(r, path, b, "probe")
    /\ ConfirmedHere(b, r)
    /\ SetBlob(r, path, b, "none")
    /\ UNCHANGED <<destination, position, copied, memory, faults>>

ProbeBlob(r, path, b) ==
    /\ BlobAt(r, path, b, "probe")
    /\ ~ConfirmedHere(b, r)
    /\ IF b \in heldB[r]
       THEN SetBlob(r, path, b, "none") /\ RecordLocation(b, r)
       ELSE SetBlob(r, path, b, "mount") /\ UNCHANGED location
    /\ UNCHANGED <<destination, position, copied, claims, dropped, faults>>

Mountable(b, r) == location[b] \notin {None, r}

MountBlob(r, path, b) ==
    /\ BlobAt(r, path, b, "mount")
    /\ Mountable(b, r)
    /\ b \in heldB[location[b]]
    /\ heldB' = [heldB EXCEPT ![r] = @ \cup {b}]
    /\ SetBlob(r, path, b, "none")
    /\ RecordLocation(b, r)
    /\ UNCHANGED <<heldM, fallback, sidecar, position, copied, claims, dropped, faults>>

\* Faulty variant of QueueBlob: recorded before it is uploaded.
QueueRecorded(r, path, b) ==
    /\ BlobAt(r, path, b, "mount")
    /\ SetBlob(r, path, b, "queue")
    /\ RecordLocation(b, r)
    /\ UNCHANGED <<destination, position, copied, claims, dropped, faults>>

\* Nothing to mount from, or the registry declines: the upload path.
QueueBlob(r, path, b) ==
    /\ BlobAt(r, path, b, "mount")
    /\ SetBlob(r, path, b, "queue")
    /\ UNCHANGED <<destination, position, copied, memory, faults>>

Holding(r) ==
    {held \in (DOMAIN calls[r]) \X Blobs : calls[r][held[1]].blob[held[2]] = "hold"}

\* Permits taken from the run-scoped blob_semaphore.
Held(r) == Cardinality(UNION {{s} \X Holding(s) : s \in Repositories})

AcquirePermit(r, path, b) ==
    /\ BlobAt(r, path, b, "queue")
    /\ Held(r) < MaxBlobs
    /\ SetBlob(r, path, b, "hold")
    /\ UNCHANGED <<destination, position, copied, memory, faults>>

\* Pull, verify, push under the permit; the permit goes back either way.
UploadBlob(r, path, b) ==
    /\ BlobAt(r, path, b, "hold")
    /\ heldB' = [heldB EXCEPT ![r] = @ \cup {b}]
    /\ SetBlob(r, path, b, "none")
    /\ RecordLocation(b, r)
    /\ UNCHANGED <<heldM, fallback, sidecar, position, copied, claims, dropped, faults>>

\* Pull or verification failed, or a push that may have landed all the same.
FailUpload(r, path, b) ==
    /\ BlobAt(r, path, b, "hold")
    /\ Failure
    /\ \E landed \in SUBSET {b} : heldB' = [heldB EXCEPT ![r] = @ \cup landed]
    /\ Fail(r, path)
    /\ UNCHANGED <<heldM, fallback, sidecar, position, copied, memory>>

-----------------------------------------------------------------------------
(* push_manifest, then the sweeps over what signs the manifest.               *)

PartsPlaced(r, path) ==
    /\ calls[r][path].blob = NoBlobs
    /\ calls[r][path].head > Len(Children[Content(path)])

\* What a push of this call changes: the manifest, and the tag of a sidecar.
Place(r, path) ==
    /\ heldM' = [heldM EXCEPT ![r] = @ \cup {Content(path)}]
    /\ sidecar' = IF Last(path).as = "sidecar"
                  THEN [sidecar EXCEPT ![r][Content(Front(path))] = Content(path)] ELSE sidecar

Push(r, path) ==
    /\ At(r, path, "parts")
    /\ PartsPlaced(r, path)
    /\ Place(r, path)
    /\ Step(r, path, [calls[r][path] EXCEPT
           !.pc = IF Swept(path) THEN "referrers" ELSE "done", !.head = 1, !.next = 1])
    /\ UNCHANGED <<heldB, fallback, position, copied, memory, faults>>

\* Refused, or the answer lost after it landed.
FailPush(r, path) ==
    /\ At(r, path, "parts")
    /\ PartsPlaced(r, path)
    /\ Failure
    /\ Place(r, path) \/ UNCHANGED <<heldM, sidecar>>
    /\ Fail(r, path)
    /\ UNCHANGED <<heldB, fallback, position, copied, memory>>

\* copy_referrers: one after another, each claimed before it is carried.
Referrer(r, path) == Referrers[Content(path)][calls[r][path].head]
CarryingNext(r, path) ==
    At(r, path, "referrers") /\ calls[r][path].head <= Len(Referrers[Content(path)])

Claimed(r, m) == <<r, m>> \in claims

SkipReferrer(r, path) ==
    /\ CarryingNext(r, path)
    /\ Callee(r, path, "referrer") = {}
    /\ Claimed(r, Referrer(r, path))
    /\ Step(r, path, [calls[r][path] EXCEPT !.head = @ + 1])
    /\ UNCHANGED <<destination, position, copied, memory, faults>>

ClaimReferrer(r, path) ==
    /\ CarryingNext(r, path)
    /\ Callee(r, path, "referrer") = {}
    /\ ~Claimed(r, Referrer(r, path))
    /\ claims' = claims \cup {<<r, Referrer(r, path)>>}
    /\ CallBelow(r, path, calls[r][path],
                 [as |-> "referrer", pos |-> calls[r][path].head, content |-> Referrer(r, path)])
    /\ UNCHANGED <<destination, position, copied, location, dropped, faults>>

\* Without a Referrers API the referrer is appended to its subject's index.
Appended(r, path) ==
    IF Fallback THEN [fallback EXCEPT ![r][Content(path)] = @ \cup {Referrer(r, path)}]
    ELSE fallback

EndReferrer(r, path) ==
    /\ CarryingNext(r, path)
    /\ Answered(r, path, "referrer", "done")
    /\ fallback' = Appended(r, path)
    /\ SetCall(r, path, [calls[r][path] EXCEPT !.head = @ + 1])
    /\ UNCHANGED <<heldM, heldB, sidecar, position, copied, memory, faults>>

\* Faulty variant of ReleaseReferrer: the claim outlives the failed carry.
KeepClaim(r, m) == claims

ReleaseReferrer(r, m) == claims \ {<<r, m>>}

\* The carry or the append failed: the claim is given back.
FailReferrer(r, path) ==
    /\ CarryingNext(r, path)
    /\ \/ Answered(r, path, "referrer", "failed") /\ UNCHANGED faults
       \/ Fallback /\ Answered(r, path, "referrer", "done") /\ Failure
    /\ claims' = ReleaseReferrer(r, Referrer(r, path))
    /\ Fail(r, path)
    /\ UNCHANGED <<destination, position, copied, location, dropped>>

EndReferrers(r, path) ==
    /\ At(r, path, "referrers")
    /\ calls[r][path].head > Len(Referrers[Content(path)])
    /\ Step(r, path, [calls[r][path] EXCEPT !.pc = "sidecars", !.head = 1])
    /\ UNCHANGED <<destination, position, copied, memory, faults>>

\* What the cosign tag of a manifest points at, at the source and at the destination.
SourceSidecar(m) == Sidecar[m]
DestinationTag(r, m) == sidecar[r][m]

\* The destination's tag is another signature: reported, never overwritten.
Conflicts(r, m) == DestinationTag(r, m) \notin {None, SourceSidecar(m)}

CallSidecar(r, path) ==
    /\ At(r, path, "sidecars")
    /\ Below(r, path) = {}
    /\ SourceSidecar(Content(path)) # None
    /\ ~Conflicts(r, Content(path))
    /\ CallBelow(r, path, calls[r][path],
                 [as |-> "sidecar", pos |-> 1, content |-> SourceSidecar(Content(path))])
    /\ UNCHANGED <<destination, position, copied, memory, faults>>

Return(r, path) ==
    /\ At(r, path, "sidecars")
    /\ \/ Below(r, path) = {} /\ SourceSidecar(Content(path)) = None
       \/ Below(r, path) = {} /\ Conflicts(r, Content(path))
       \/ Answered(r, path, "sidecar", "done")
    /\ SetCall(r, path, [calls[r][path] EXCEPT !.pc = "done"])
    /\ UNCHANGED <<destination, position, copied, memory, faults>>

FailSidecar(r, path) ==
    /\ At(r, path, "sidecars")
    /\ Answered(r, path, "sidecar", "failed")
    /\ Fail(r, path)
    /\ UNCHANGED <<destination, position, copied, memory, faults>>

-----------------------------------------------------------------------------
(* missing_descriptors: what a --dry-run measures instead of walking.         *)

\* The blobs a copy of a manifest would still move to `r`: those of its tree, of what
\* refers to anything in it and, signatures swept, of its sidecars.  A conflicting
\* sidecar counts, although no copy would move it.
Missing(r) ==
    LET missing[m \in Manifests] == [swept \in BOOLEAN |->
          (Layers[m] \ heldB[r])
          \cup (UNION {missing[n][swept] : n \in Range(Children[m])})
          \cup (IF ~swept THEN {} ELSE
                 UNION ({missing[n][TRUE] : n \in Range(Referrers[m])}
                        \cup {missing[n][FALSE] : n \in {SourceSidecar(m)} \ {None}}))]
    IN  missing

-----------------------------------------------------------------------------

\* What a run remembers ends with it.
ForgetRun ==
    /\ calls' = [r \in Repositories |-> NoCalls]
    /\ position' = [r \in Repositories |-> 1]
    /\ copied' = [r \in Repositories |-> {}]
    /\ location' = [b \in Blobs |-> None]
    /\ claims' = {}
    /\ dropped' = [r \in Repositories |-> {}]
    /\ UNCHANGED destination

Finished == \A r \in Repositories : calls[r] = NoCalls /\ position[r] > Len(Plan[r])

NextRun == Finished /\ ForgetRun /\ UNCHANGED faults

\* CopyError::Abort (a destination read without an answer), or a killed process.
Abort == ~Finished /\ Failure /\ ForgetRun

\* The operator signs a mirrored manifest that has no signature, between walks.
OperatorSigns(r, m) ==
    /\ calls[r] = NoCalls
    /\ m \in heldM[r]
    /\ sidecar[r][m] = None
    /\ Sidecar[m] # None
    /\ sidecar' = [sidecar EXCEPT ![r][m] = Own]
    /\ UNCHANGED <<heldM, heldB, fallback, calls, position, copied, memory, faults>>

CopyBlob(r, path, b) ==
    \/ SkipBlob(r, path, b) \/ ProbeBlob(r, path, b) \/ MountBlob(r, path, b)
    \/ QueueBlob(r, path, b) \/ AcquirePermit(r, path, b) \/ UploadBlob(r, path, b)
    \/ FailUpload(r, path, b)

CopyParts(r, path) ==
    \/ Fetch(r, path) \/ FailRead(r, path) \/ CallChild(r, path) \/ TakeChild(r, path)
    \/ FailChild(r, path) \/ Push(r, path) \/ FailPush(r, path)
    \/ \E b \in Blobs : CopyBlob(r, path, b)

CopySignatures(r, path) ==
    \/ SkipReferrer(r, path) \/ ClaimReferrer(r, path) \/ EndReferrer(r, path)
    \/ FailReferrer(r, path) \/ EndReferrers(r, path)
    \/ CallSidecar(r, path) \/ Return(r, path) \/ FailSidecar(r, path)

CopyStep(r) ==
    \/ SkipCopied(r) \/ BeginTag(r) \/ EndTag(r)
    \/ \E path \in DOMAIN calls[r] : CopyParts(r, path) \/ CopySignatures(r, path)

Next ==
    \/ NextRun \/ Abort
    \/ \E r \in Repositories : CopyStep(r) \/ \E m \in Manifests : OperatorSigns(r, m)

Spec == Init /\ [][Next]_vars

-----------------------------------------------------------------------------
(* Properties.                                                                *)

DestinationTypes ==
    /\ heldM \in [Repositories -> SUBSET Manifests]
    /\ heldB \in [Repositories -> SUBSET Blobs]
    /\ fallback \in [Repositories -> [Manifests -> SUBSET Manifests]]
    /\ sidecar \in [Repositories -> [Manifests -> Manifests \cup {None, Own}]]

\* The calls of one walk are a tree: each is typed, and so is its caller.
CallTree(tree) ==
    \A path \in DOMAIN tree :
        /\ path \in Seq(Links) /\ path # <<>>
        /\ tree[path] \in Calls
        /\ Len(path) > 1 => Front(path) \in DOMAIN tree

RunTypes ==
    /\ \A r \in Repositories : CallTree(calls[r])
    /\ position \in [Repositories -> Nat \ {0}]
    /\ copied \in [Repositories -> SUBSET Manifests]
    /\ location \in [Blobs -> Repositories \cup {None}]
    /\ claims \subseteq Repositories \X Manifests
    /\ dropped \in [Repositories -> SUBSET Manifests]
    /\ faults \in Nat

\* Every variable has its type.
TypeOK == DestinationTypes /\ RunTypes

\* A manifest at the destination has every blob and every manifest it names
\* there too, at every instant: nothing a client resolves dangles (C-022).
ManifestsComplete ==
    \A r \in Repositories : \A m \in heldM[r] :
        Layers[m] \subseteq heldB[r] /\ Range(Children[m]) \subseteq heldM[r]

\* What the run believes of a blob is so: a probe skipped on the strength of
\* `mounted_from`, and a mount source taken from it, are never wrong (C-023).
LocationsTrue == \A b \in Blobs : location[b] # None => b \in heldB[location[b]]

\* Every manifest a copy of `c` reaches: through indexes, and what refers to them.
Tree == [c \in Manifests |->
    {m \in Manifests : \A S \in SUBSET Manifests :
        (c \in S /\ \A n \in S : Range(Children[n]) \cup Range(Referrers[n]) \subseteq S) => m \in S}]

\* What a later walk of this run skips though no walk has carried it: a referrer whose
\* carry was dropped, and what refers to it.
Forgone(r) == UNION {Tree[n] : n \in dropped[r]}

SignaturesCarried(r, m) ==
    LET referrers == Range(Referrers[m]) \ dropped[r] IN
    /\ referrers \subseteq heldM[r]
    /\ Fallback => referrers \subseteq fallback[r][m]
    /\ Sidecar[m] # None => sidecar[r][m] # None

\* The blobs a dry run may find although `c` was copied: of sidecars left alone for the
\* destination's own, and of what is forgone.
Withheld(r, c) ==
    UNION ({Missing(r)[SourceSidecar(m)][FALSE] : m \in {m \in Tree[c] : Conflicts(r, m)}}
           \cup {Missing(r)[n][TRUE] : n \in dropped[r]})

\* Unless a sibling's error dropped the call that was carrying it, a signature the source
\* lists for anything in the tree of a content whose copy reported success has been
\* carried and is discoverable (C-061, C-062, C-063), whichever call claimed it and
\* whatever carries of it failed before; and a dry run then finds nothing else to move but
\* sidecars that conflict (C-043, C-065).  The exception is the code's: registry_copy.rs:1955
\* has a claim released on every error path, and a future that is dropped runs none.
CopiedIsSigned ==
    \A r \in Repositories : \A c \in copied[r] :
        /\ \A m \in Tree[c] \ Forgone(r) : SignaturesCarried(r, m)
        /\ Missing(r)[c][TRUE] \subseteq Withheld(r, c)

=============================================================================
