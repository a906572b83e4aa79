------------------------- MODULE RegistrySyncProofs -------------------------
(* Theorems about RegistrySync, for every value of its constants: any number  *)
(* of runs side by side, any packages, tags and documents, any bounds.        *)
EXTENDS RegistrySync, SequenceTheorems, TLAPS

-----------------------------------------------------------------------------
(* What each kind of step leaves alone.                                       *)

LEMMA PublisherFrame ==
  ASSUME Publisher
  PROVE  UNCHANGED <<destination, tree, operator, record, lock, run, task, faults>>
  BY DEF Publisher, PublishRoot, ListRoot

LEMMA OperatorFrame ==
  ASSUME Interference
  PROVE  UNCHANGED <<upstream, destination, lock, run, task, faults>>
  BY DEF Interference, CommitTree, CheckoutTree, LoseRecord, DeleteRoot, DamageRoot,
         EditFilters, Operator, upstream, destination

\* A step of a run that is not a step of one of its packages.
Control(r) == RunStep(r) \/ StopRun(r) \/ \E mode \in Modes : StartRun(r, mode)

LEMMA ControlFrame ==
  ASSUME NEW r \in Runs, Control(r)
  PROVE  UNCHANGED <<upstream, destination, operator, dispatch, described, root, config>>
  BY DEF Control, RunStep, StopRun, StartRun, RepairCatalog, AbortRepair, FetchCatalog, ReadRecord,
         PlanSource, FinishRun, ExitRun, upstream, destination, operator, tree

LEMMA CopyFrame ==
  ASSUME NEW r \in Runs, NEW p \in Packages, CopyStep(r, p)
  PROVE  UNCHANGED <<upstream, tree, operator, record, lock>>
  BY DEF CopyStep, FetchRoot, Skip, FailUnread, FailBeforeCopy, Measure, BeginCopy, CopyTag,
         FailTag, CopyDescription, FailDescription, upstream, tree, operator

LEMMA WriteFrame ==
  ASSUME NEW r \in Runs, NEW p \in Packages, WriteStep(r, p)
  PROVE  UNCHANGED <<upstream, destination, committed, included, edits, record, faults>>
  BY DEF WriteStep, WriteDispatchObjects, RefuseDispatchObject, WriteDescriptionObjects,
         BeginTransaction, WriteRoot, CommitCatalog, PruneDescriptionObjects, WriteConfigJson,
         upstream, destination, operator

\* The kinds of steps, and the variables behind the tuples they leave alone.
LEMMA StepKinds ==
  ASSUME [Next]_vars
  PROVE  \/ Publisher
         \/ Interference
         \/ \E r \in Runs : Control(r)
         \/ \E r \in Runs, p \in Packages : CopyStep(r, p)
         \/ \E r \in Runs, p \in Packages : WriteStep(r, p)
         \/ UNCHANGED vars
  BY DEF Next, Control

-----------------------------------------------------------------------------
(* Type correctness.  A run reads the root it copies as an index into the     *)
(* upstream's history, so the types need that such indices stay in range and  *)
(* that a task only ever works on tags of the root it fetched.                *)

\* One task of one package, against that package's releases.
JobOK(job, history) ==
    /\ job.src \in 0..Len(history)
    /\ job.pc \notin {"waiting", "done"} => job.src # 0
    /\ job.pc = "waiting" => job.src = 0
    /\ job.src = 0 => job.todo = {} /\ job.confirmed = {}
    /\ job.src # 0 => job.todo \cup job.confirmed \subseteq TagsOf(history[job.src])

IndicesOK ==
    /\ \A p \in Packages : listed[p] \in 0..Len(releases[p])
    /\ \A r \in Runs, p \in Packages : run[r].cat[p] \in 0..Len(releases[p])
    /\ \A r \in Runs, p \in Packages : JobOK(task[r][p], releases[p])

TypeInv == TypeOK /\ IndicesOK

LEMMA Idle ==
  /\ NothingListed \in Catalogs
  /\ IdleRun \in RunStates
  /\ WaitingTask \in TaskStates
<1>1. NothingListed \in Catalogs
  BY DEF NothingListed, Catalogs
<1>2. IdleRun \in RunStates
  BY <1>1 DEF IdleRun, RunStates, RunPhases, RunModes
<1>3. WaitingTask \in TaskStates
  BY DEF WaitingTask, TaskStates, TaskPhases
<1> QED
  BY <1>1, <1>2, <1>3

LEMMA InitTypes == Init => TypeInv
<1> SUFFICES ASSUME Init PROVE TypeInv
  OBVIOUS
<1> USE DEF Init
<1>1. UpstreamTypes
  BY DEF UpstreamTypes
<1>2. DestinationTypes
  BY DEF DestinationTypes
<1>3. TreeTypes
  BY Idle DEF TreeTypes, TreeNow, Trees
<1>4. OperatorTypes
  BY DEF OperatorTypes
<1>5. RunTypes
  BY Idle DEF RunTypes
<1>6. IndicesOK
  BY DEF IndicesOK, JobOK, IdleRun, WaitingTask
<1> QED
  BY <1>1, <1>2, <1>3, <1>4, <1>5, <1>6 DEF TypeInv, TypeOK

\* The upstream's history only grows, whoever steps.
LEMMA UpstreamStep ==
  ASSUME TypeInv, [Next]_vars
  PROVE  /\ UpstreamTypes'
         /\ \A p \in Packages :
              /\ listed'[p] \in 0..Len(releases'[p])
              /\ Len(releases[p]) <= Len(releases'[p])
              /\ \A i \in 1..Len(releases[p]) : releases'[p][i] = releases[p][i]
<1> USE DEF TypeInv, TypeOK, UpstreamTypes, IndicesOK
<1>1. ASSUME NEW p \in Packages, NEW doc \in UpstreamRoots, PublishRoot(p, doc)
      PROVE  /\ UpstreamTypes'
             /\ \A q \in Packages :
                  /\ listed'[q] \in 0..Len(releases'[q])
                  /\ Len(releases[q]) <= Len(releases'[q])
                  /\ \A i \in 1..Len(releases[q]) : releases'[q][i] = releases[q][i]
  <2>1. doc \in Roots /\ releases[p] \in Seq(Roots)
    BY UpstreamAssumption
  <2>2. /\ Append(releases[p], doc) \in Seq(Roots)
        /\ Len(Append(releases[p], doc)) = Len(releases[p]) + 1
        /\ \A i \in 1..Len(releases[p]) : Append(releases[p], doc)[i] = releases[p][i]
    BY <2>1
  <2>3. releases' = [releases EXCEPT ![p] = Append(releases[p], doc)] /\ listed' = listed
    BY <1>1 DEF PublishRoot
  <2>4. \A q \in Packages : Len(releases[q]) \in Nat
    OBVIOUS
  <2> QED
    BY <2>2, <2>3, <2>4
<1>2. ASSUME NEW p \in Packages, ListRoot(p)
      PROVE  UpstreamTypes' /\ releases' = releases
             /\ \A q \in Packages : listed'[q] \in 0..Len(releases[q])
  BY <1>2 DEF ListRoot
<1>3. ASSUME UNCHANGED upstream
      PROVE  UpstreamTypes' /\ releases' = releases /\ listed' = listed
  BY <1>3 DEF upstream
<1>4. Publisher \/ UNCHANGED upstream
  BY StepKinds, OperatorFrame, ControlFrame, CopyFrame, WriteFrame DEF vars
<1>5. \A p \in Packages : Len(releases[p]) \in Nat
  OBVIOUS
<1> QED
  BY <1>1, <1>2, <1>3, <1>4, <1>5 DEF Publisher

\* A task that is under way has a root of this package to work from.
LEMMA SourceType ==
  ASSUME TypeInv, NEW r \in Runs, NEW p \in Packages,
         task[r][p].pc \notin {"waiting", "done"}
  PROVE  /\ task[r][p] \in TaskStates /\ run[r] \in RunStates
         /\ task[r][p].src \in 1..Len(releases[p])
         /\ Source(r, p) \in Roots
         /\ task[r][p].todo \cup task[r][p].confirmed \subseteq TagsOf(Source(r, p))
<1>1. task[r][p] \in TaskStates /\ run[r] \in RunStates /\ releases[p] \in Seq(Roots)
  BY DEF TypeInv, TypeOK, RunTypes, UpstreamTypes
<1>2. JobOK(task[r][p], releases[p])
  BY DEF TypeInv, IndicesOK
<1>3. task[r][p].src \in 1..Len(releases[p])
  BY <1>1, <1>2 DEF JobOK, TaskStates
<1>4. releases[p][task[r][p].src] \in Roots
  BY <1>1, <1>3
<1> QED
  BY <1>1, <1>2, <1>3, <1>4 DEF JobOK, Source

LEMMA DestinationStep ==
  ASSUME TypeInv, [Next]_vars
  PROVE  /\ DestinationTypes'
         /\ \A p \in Packages : held[p] \subseteq held'[p]
<1> USE DEF DestinationTypes
<1>0. DestinationTypes
  BY DEF TypeInv, TypeOK
<1>1. ASSUME NEW r \in Runs, NEW p \in Packages, NEW t \in Tags,
             CopyTag(r, p, t) \/ FailTag(r, p, t)
      PROVE  DestinationTypes' /\ \A q \in Packages : held[q] \subseteq held'[q]
  <2>1. task[r][p].pc = "tags" /\ t \in task[r][p].todo
    BY <1>1 DEF CopyTag, FailTag, At
  <2>2. Source(r, p).tags[t] \in Contents
    BY <2>1, SourceType DEF TagsOf, Roots, TagMap
  <2>3. /\ heldDesc' = heldDesc
        /\ \E got \in SUBSET {Source(r, p).tags[t]} : held' = [held EXCEPT ![p] = @ \cup got]
    BY <1>1 DEF CopyTag, FailTag
  <2> QED
    BY <1>0, <2>2, <2>3
<1>2. ASSUME NEW r \in Runs, NEW p \in Packages, CopyDescription(r, p)
      PROVE  DestinationTypes' /\ held' = held
  <2>1. task[r][p].pc = "tags"
    BY <1>2 DEF CopyDescription, At
  <2>2. releases[p] \in Seq(Roots)
    BY DEF TypeInv, TypeOK, UpstreamTypes
  <2>3. task[r][p].src \in 1..Len(releases[p])
    BY <2>1, SourceType
  <2>4. releases[p][Len(releases[p])] \in Roots
    BY <2>2, <2>3
  <2>5. releases[p][Len(releases[p])].desc \in Descs
    BY <2>4 DEF Roots
  <2>6. /\ heldDesc' = [heldDesc EXCEPT ![p] = releases[p][Len(releases[p])].desc]
        /\ held' = held
    BY <1>2 DEF CopyDescription, CarriedDescription
  <2> QED
    BY <1>0, <2>5, <2>6
<1>3. ASSUME UNCHANGED destination
      PROVE  DestinationTypes' /\ held' = held
  BY <1>0, <1>3 DEF destination
<1>4. ASSUME NEW r \in Runs, NEW p \in Packages, CopyStep(r, p)
      PROVE  \/ UNCHANGED destination
             \/ CopyDescription(r, p)
             \/ \E t \in Tags : CopyTag(r, p, t) \/ FailTag(r, p, t)
  BY <1>4 DEF CopyStep, FetchRoot, Skip, FailUnread, FailBeforeCopy, Measure, BeginCopy,
              FailDescription
<1> QED
  BY <1>1, <1>2, <1>3, <1>4, StepKinds, PublisherFrame, OperatorFrame, ControlFrame, WriteFrame
     DEF vars

\* The merged root is a root document again.
LEMMA MergeType ==
  ASSUME NEW src \in Roots, NEW base \in Roots \cup {None}, NEW confirmed \in SUBSET Tags
  PROVE  MergeTags(src, base, confirmed) \in Roots
  BY DEF MergeTags, Roots, TagMap

LEMMA TreeStep ==
  ASSUME TypeInv, [Next]_vars
  PROVE  TreeTypes' /\ OperatorTypes'
<1> USE DEF TreeTypes, TreeNow, Trees, OperatorTypes
<1>0. /\ TreeTypes /\ OperatorTypes
      /\ root \in Catalogs /\ catalog \in Catalogs /\ config \in BOOLEAN
      /\ dispatch \in [Packages -> SUBSET Contents] /\ described \in [Packages -> SUBSET Descs]
  BY DEF TypeInv, TypeOK
<1>1. ASSUME Interference PROVE TreeTypes' /\ OperatorTypes'
  <2>1. CASE CommitTree \/ CheckoutTree \/ LoseRecord \/ \E names \in SUBSET Packages : EditFilters(names)
    BY <1>0, <2>1 DEF CommitTree, CheckoutTree, LoseRecord, EditFilters, Operator, tree
  <2>2. ASSUME NEW p \in Packages, DeleteRoot(p) PROVE TreeTypes' /\ OperatorTypes'
    BY <1>0, <2>2 DEF DeleteRoot, Operator, Catalogs
  <2>3. ASSUME NEW p \in Packages, DamageRoot(p) PROVE TreeTypes' /\ OperatorTypes'
    BY <1>0, <2>3 DEF DamageRoot, Operator, tree
  <2> QED
    BY <1>1, <2>1, <2>2, <2>3 DEF Interference
<1>2. ASSUME NEW r \in Runs, Control(r) PROVE catalog' \in {catalog, root}
  BY <1>2 DEF Control, RunStep, StopRun, StartRun, RepairCatalog, AbortRepair, FetchCatalog, ReadRecord,
              PlanSource, FinishRun, ExitRun, tree
<1>3. ASSUME NEW r \in Runs, NEW p \in Packages, WriteStep(r, p)
      PROVE  TreeTypes' /\ OperatorTypes'
  <2>0. task[r][p].pc \notin {"waiting", "done"}
    BY <1>3 DEF WriteStep, WriteDispatchObjects, RefuseDispatchObject, WriteDescriptionObjects,
         BeginTransaction, WriteRoot, CommitCatalog, PruneDescriptionObjects, WriteConfigJson, At
  <2>1. Source(r, p) \in Roots /\ Gathered(r, p) \subseteq Contents
    BY <2>0, SourceType DEF Gathered, TagsOf, Roots, TagMap, TaskStates
  <2>2. /\ DescriptionWrites(r, p) \subseteq Descs
        /\ MergeTags(Source(r, p), task[r][p].base, task[r][p].confirmed) \in Roots
    BY <2>0, <2>1, SourceType, MergeType DEF DescriptionWrites, Roots, TaskStates
  <2>3. CASE WriteDispatchObjects(r, p) \/ RefuseDispatchObject(r, p)
    <3>1. \E written \in SUBSET Contents : dispatch' = [dispatch EXCEPT ![p] = @ \cup written]
      <4>1. CASE WriteDispatchObjects(r, p)
        BY <2>1, <4>1 DEF WriteDispatchObjects
      <4>2. CASE RefuseDispatchObject(r, p)
        BY <2>1, <4>2 DEF RefuseDispatchObject
      <4> QED
        BY <2>3, <4>1, <4>2
    <3>2. dispatch' \in [Packages -> SUBSET Contents]
      BY <1>0, <3>1
    <3>3. UNCHANGED <<described, root, catalog, config, operator>>
      BY <2>3 DEF WriteDispatchObjects, RefuseDispatchObject
    <3> QED
      BY <1>0, <3>2, <3>3 DEF operator
  <2>4. CASE WriteDescriptionObjects(r, p) \/ PruneDescriptionObjects(r, p)
    BY <1>0, <2>2, <2>4 DEF WriteDescriptionObjects, PruneDescriptionObjects, operator
  <2>5. CASE BeginTransaction(r, p) \/ WriteConfigJson(r, p)
    BY <1>0, <2>5 DEF BeginTransaction, WriteConfigJson, operator, tree
  <2>6. CASE WriteRoot(r, p)
    BY <1>0, <2>2, <2>6 DEF WriteRoot, Catalogs
  <2>7. CASE CommitCatalog(r, p)
    BY <1>0, <2>7 DEF CommitCatalog, operator, Catalogs
  <2> QED
    BY <1>3, <2>3, <2>4, <2>5, <2>6, <2>7 DEF WriteStep
<1>4. ASSUME UNCHANGED <<tree, operator>> PROVE TreeTypes' /\ OperatorTypes'
  BY <1>0, <1>4 DEF tree, operator
<1>5. ASSUME NEW r \in Runs, Control(r) PROVE TreeTypes' /\ OperatorTypes'
  BY <1>0, <1>2, <1>5, ControlFrame DEF operator
<1> QED
  BY <1>1, <1>3, <1>4, <1>5, StepKinds, PublisherFrame, CopyFrame DEF vars

LEMMA TaskUpdate ==
  ASSUME task \in [Runs -> [Packages -> TaskStates]],
         NEW r \in Runs, NEW p \in Packages, NEW job \in TaskStates, SetTask(r, p, job)
  PROVE  /\ task' \in [Runs -> [Packages -> TaskStates]]
         /\ \A q \in Runs, s \in Packages :
              task'[q][s] = IF q = r /\ s = p THEN job ELSE task[q][s]
  BY DEF SetTask

LEMMA RunUpdate ==
  ASSUME run \in [Runs -> RunStates], NEW r \in Runs, NEW state \in RunStates, SetRun(r, state)
  PROVE  /\ run' \in [Runs -> RunStates]
         /\ \A q \in Runs : run'[q] = IF q = r THEN state ELSE run[q]
  BY DEF SetRun

\* Settling a package changes its phase and outcome, and its run's outcome.
LEMMA SettleType ==
  ASSUME TypeInv, NEW r \in Runs, NEW p \in Packages, NEW failed \in BOOLEAN,
         Settle(r, p, failed)
  PROVE  /\ run' \in [Runs -> RunStates] /\ task' \in [Runs -> [Packages -> TaskStates]]
         /\ \A q \in Runs : run'[q].cat = run[q].cat
         /\ \A q \in Runs, s \in Packages :
              task'[q][s] = IF q = r /\ s = p THEN [task[r][p] EXCEPT !.pc = "done", !.failed = failed]
                            ELSE task[q][s]
<1>1. task[r][p] \in TaskStates /\ run[r] \in RunStates
      /\ task \in [Runs -> [Packages -> TaskStates]] /\ run \in [Runs -> RunStates]
  BY DEF TypeInv, TypeOK, RunTypes
<1>2. [task[r][p] EXCEPT !.pc = "done", !.failed = failed] \in TaskStates
  BY <1>1 DEF TaskStates, TaskPhases
<1>3. [run[r] EXCEPT !.failed = run[r].failed \/ failed] \in RunStates
  BY <1>1 DEF RunStates
<1>4. /\ run' \in [Runs -> RunStates]
      /\ \A q \in Runs : run'[q] = IF q = r THEN [run[r] EXCEPT !.failed = run[r].failed \/ failed]
                                   ELSE run[q]
  BY <1>1, <1>3, RunUpdate DEF Settle
<1>a. [run[r] EXCEPT !.failed = run[r].failed \/ failed].cat = run[r].cat
  BY <1>1 DEF RunStates
<1>5. \A q \in Runs : run'[q].cat = run[q].cat
  BY <1>4, <1>a
<1> QED
  BY <1>1, <1>2, <1>4, <1>5, TaskUpdate DEF Settle

LEMMA AdvanceType ==
  ASSUME TypeInv, NEW r \in Runs, NEW p \in Packages, NEW pc \in TaskPhases, Advance(r, p, pc)
  PROVE  /\ task' \in [Runs -> [Packages -> TaskStates]]
         /\ \A q \in Runs, s \in Packages :
              task'[q][s] = IF q = r /\ s = p THEN [task[r][p] EXCEPT !.pc = pc] ELSE task[q][s]
<1>1. task[r][p] \in TaskStates /\ task \in [Runs -> [Packages -> TaskStates]]
  BY DEF TypeInv, TypeOK, RunTypes
<1>2. [task[r][p] EXCEPT !.pc = pc] \in TaskStates
  BY <1>1 DEF TaskStates
<1> QED
  BY <1>1, <1>2, TaskUpdate DEF Advance

LEMMA RecordType ==
  ASSUME TypeInv, NEW r \in Runs
  PROVE  RecordDigest(r) \in Records \cup {None}
<1>1. run[r] \in RunStates /\ record \in Records \cup {None} /\ releases \in [Packages -> Seq(Roots)]
  BY DEF TypeInv, TypeOK, RunTypes, UpstreamTypes
<1>2. SourceCatalog(run[r].cat) \in Catalogs
  <2>1. ASSUME NEW p \in Packages, run[r].cat[p] # 0 PROVE releases[p][run[r].cat[p]] \in Roots
    BY <1>1, <2>1 DEF TypeInv, IndicesOK
  <2> QED
    BY <2>1 DEF SourceCatalog, Catalogs
<1> QED
  BY <1>1, <1>2 DEF RecordDigest, CacheRecord, Records, RunStates

\* The control steps: a run's phase and pre-flight reads.
LEMMA ControlTypes ==
  ASSUME TypeInv, NEW r \in Runs, Control(r)
  PROVE  /\ RunTypes'
         /\ \A q \in Runs, p \in Packages : run'[q].cat[p] \in 0..Len(releases[p])
         /\ \A q \in Runs, p \in Packages : JobOK(task'[q][p], releases[p])
<1>0. /\ run \in [Runs -> RunStates] /\ task \in [Runs -> [Packages -> TaskStates]]
      /\ run[r] \in RunStates /\ listed \in [Packages -> Nat] /\ catalog \in Catalogs
      /\ record \in Records \cup {None} /\ lock \in (Runs \X Packages) \cup {None}
      /\ faults \in Nat /\ \A p \in Packages : Len(releases[p]) \in Nat
  BY DEF TypeInv, TypeOK, RunTypes, UpstreamTypes, TreeTypes, TreeNow, Trees
<1>1. /\ \A p \in Packages : listed[p] \in 0..Len(releases[p])
      /\ \A q \in Runs, p \in Packages : run[q].cat[p] \in 0..Len(releases[p])
      /\ \A q \in Runs, p \in Packages : JobOK(task[q][p], releases[p])
  BY DEF TypeInv, IndicesOK
<1>2. /\ record' \in Records \cup {None} /\ faults' \in Nat
      /\ lock' \in (Runs \X Packages) \cup {None}
  <2>1. record' = record \/ record' = RecordDigest(r)
    BY DEF Control, RunStep, StopRun, StartRun, RepairCatalog, AbortRepair, FetchCatalog, ReadRecord,
       PlanSource, FinishRun, ExitRun
  <2>2. faults' = faults \/ faults' = faults + 1
    BY DEF Control, RunStep, StopRun, StartRun, RepairCatalog, AbortRepair, FetchCatalog, ReadRecord,
       PlanSource, FinishRun, ExitRun, Failure
  <2>3. lock' = lock \/ lock' = None
    BY DEF Control, RunStep, StopRun, StartRun, RepairCatalog, AbortRepair, FetchCatalog, ReadRecord,
       PlanSource, FinishRun, ExitRun
  <2> QED
    BY <1>0, <2>1, <2>2, <2>3, RecordType
<1>3. \E state \in RunStates :
         /\ SetRun(r, state)
         /\ \A p \in Packages : state.cat[p] \in 0..Len(releases[p])
  <2>1. ASSUME NEW mode \in Modes, StartRun(r, mode)
        PROVE  /\ [run[r] EXCEPT !.mode = mode, !.pc = IF mode = "repair" THEN "repair" ELSE "catalog"] \in RunStates
               /\ SetRun(r, [run[r] EXCEPT !.mode = mode, !.pc = IF mode = "repair" THEN "repair" ELSE "catalog"])
               /\ [run[r] EXCEPT !.mode = mode, !.pc = IF mode = "repair" THEN "repair" ELSE "catalog"].cat = run[r].cat
    BY <1>0, <2>1, OptionAssumption DEF StartRun, RunStates, RunPhases, RunModes
  <2>2. ASSUME NEW pc \in RunPhases
        PROVE  [run[r] EXCEPT !.pc = pc] \in RunStates /\ [run[r] EXCEPT !.pc = pc].cat = run[r].cat
    BY <1>0 DEF RunStates
  <2>3. CASE \E mode \in Modes : StartRun(r, mode)
    BY <1>1, <2>1, <2>3
  <2>4. CASE RepairCatalog(r) \/ FinishRun(r)
    BY <1>1, <2>2, <2>4 DEF RepairCatalog, FinishRun, GoTo, RunPhases
  <2>5. CASE FetchCatalog(r)
    <3>1. /\ [run[r] EXCEPT !.pc = "record", !.cat = listed] \in RunStates
          /\ [run[r] EXCEPT !.pc = "record", !.cat = listed].cat = listed
      BY <1>0 DEF RunStates, RunPhases
    <3> QED
      BY <1>1, <2>5, <3>1 DEF FetchCatalog
  <2>6. CASE ReadRecord(r)
    <3>1. /\ [run[r] EXCEPT !.pc = "plan", !.read = record] \in RunStates
          /\ [run[r] EXCEPT !.pc = "plan", !.read = record].cat = run[r].cat
      BY <1>0 DEF RunStates, RunPhases
    <3> QED
      BY <1>1, <2>6, <3>1 DEF ReadRecord
  <2>7. CASE PlanSource(r)
    <3>1. ASSUME NEW pc \in RunPhases
          PROVE  /\ [run[r] EXCEPT !.local = catalog, !.pc = pc] \in RunStates
                 /\ [run[r] EXCEPT !.local = catalog, !.pc = pc].cat = run[r].cat
      BY <1>0 DEF RunStates
    <3> QED
      BY <1>1, <2>7, <3>1 DEF PlanSource, RunPhases
  <2>8. CASE ExitRun(r) \/ StopRun(r) \/ AbortRepair(r)
    <3>1. \A p \in Packages : IdleRun.cat[p] = 0
      BY DEF IdleRun
    <3>2. SetRun(r, IdleRun)
      BY <2>8 DEF ExitRun, StopRun, AbortRepair, Reset
    <3>3. \A p \in Packages : IdleRun.cat[p] \in 0..Len(releases[p])
      BY <1>0, <3>1
    <3> QED
      BY <3>2, <3>3, Idle
  <2> QED
    BY <2>3, <2>4, <2>5, <2>6, <2>7, <2>8 DEF Control, RunStep
<1>4. \/ task' = task
      \/ task' = [task EXCEPT ![r] = [p \in Packages |-> WaitingTask]]
  BY DEF Control, RunStep, StopRun, StartRun, RepairCatalog, AbortRepair, FetchCatalog, ReadRecord,
     PlanSource, FinishRun, ExitRun, Reset
<1>5. \A p \in Packages : JobOK(WaitingTask, releases[p])
  BY <1>0 DEF JobOK, WaitingTask
<1>6. /\ task' \in [Runs -> [Packages -> TaskStates]]
      /\ \A q \in Runs, p \in Packages : JobOK(task'[q][p], releases[p])
  <2>1. CASE task' = task
    BY <1>0, <1>1, <2>1
  <2>2. CASE task' = [task EXCEPT ![r] = [p \in Packages |-> WaitingTask]]
    <3>1. \A q \in Runs, p \in Packages : task'[q][p] \in {task[q][p], WaitingTask}
      BY <1>0, <2>2
    <3>2. task' \in [Runs -> [Packages -> TaskStates]]
      BY <1>0, <2>2, Idle
    <3> QED
      BY <1>1, <1>5, <3>1, <3>2
  <2> QED
    BY <1>4, <2>1, <2>2
<1> QED
  BY <1>0, <1>1, <1>2, <1>3, <1>6, RunUpdate DEF RunTypes

\* What a step of one package does to the runs' own state: one task moves to a
\* well-formed task of the same package, and no run's catalog changes.
TaskMoves(r, p) ==
    /\ \E job \in TaskStates : SetTask(r, p, job) /\ JobOK(job, releases[p])
    /\ run' \in [Runs -> RunStates]
    /\ \A q \in Runs : run'[q].cat = run[q].cat

LEMMA JobType ==
  ASSUME TypeInv, NEW r \in Runs, NEW p \in Packages
  PROVE  /\ task[r][p] \in TaskStates /\ JobOK(task[r][p], releases[p])
         /\ run[r] \in RunStates /\ run \in [Runs -> RunStates]
         /\ releases[p] \in Seq(Roots) /\ Len(releases[p]) \in Nat
<1>1. /\ task[r][p] \in TaskStates /\ run[r] \in RunStates /\ run \in [Runs -> RunStates]
      /\ releases[p] \in Seq(Roots)
  BY DEF TypeInv, TypeOK, RunTypes, UpstreamTypes
<1>2. JobOK(task[r][p], releases[p])
  BY DEF TypeInv, IndicesOK
<1> QED
  BY <1>1, <1>2

LEMMA SettleMoves ==
  ASSUME TypeInv, NEW r \in Runs, NEW p \in Packages, NEW failed \in BOOLEAN,
         Settle(r, p, failed)
  PROVE  TaskMoves(r, p)
<1> DEFINE job == [task[r][p] EXCEPT !.pc = "done", !.failed = failed]
<1>1. task[r][p] \in TaskStates /\ JobOK(task[r][p], releases[p])
  BY JobType
<1>2. job \in TaskStates
  BY <1>1 DEF TaskStates, TaskPhases
<1>3. job.pc = "done" /\ job.src = task[r][p].src /\ job.todo = task[r][p].todo
      /\ job.confirmed = task[r][p].confirmed
  BY <1>1 DEF TaskStates
<1>4. JobOK(job, releases[p])
  BY <1>1, <1>3 DEF JobOK
<1>5. SetTask(r, p, job)
  BY DEF Settle
<1>6. /\ run' \in [Runs -> RunStates]
      /\ \A q \in Runs : run'[q].cat = run[q].cat
  BY SettleType
<1> QED
  BY <1>2, <1>4, <1>5, <1>6 DEF TaskMoves

LEMMA AdvanceMoves ==
  ASSUME TypeInv, NEW r \in Runs, NEW p \in Packages, NEW pc \in TaskPhases \ {"waiting"},
         task[r][p].pc \notin {"waiting", "done"}, Advance(r, p, pc), run' = run
  PROVE  TaskMoves(r, p)
<1> DEFINE job == [task[r][p] EXCEPT !.pc = pc]
<1>1. /\ task[r][p] \in TaskStates /\ JobOK(task[r][p], releases[p])
      /\ run \in [Runs -> RunStates]
  BY JobType
<1>2. job \in TaskStates
  BY <1>1 DEF TaskStates
<1>3. job.pc = pc /\ job.src = task[r][p].src /\ job.todo = task[r][p].todo
      /\ job.confirmed = task[r][p].confirmed
  BY <1>1 DEF TaskStates
<1>4. JobOK(job, releases[p])
  BY <1>1, <1>3 DEF JobOK
<1>5. SetTask(r, p, job)
  BY DEF Advance
<1> QED
  BY <1>1, <1>2, <1>4, <1>5 DEF TaskMoves

LEMMA CopyTypes ==
  ASSUME TypeInv, NEW r \in Runs, NEW p \in Packages, CopyStep(r, p)
  PROVE  TaskMoves(r, p)
<1>0. /\ task[r][p] \in TaskStates /\ JobOK(task[r][p], releases[p])
      /\ run \in [Runs -> RunStates] /\ releases[p] \in Seq(Roots) /\ Len(releases[p]) \in Nat
      /\ task[r][p].failed \in BOOLEAN
  BY JobType DEF TaskStates
<1>1. CASE FetchRoot(r, p)
  <2> DEFINE job == [task[r][p] EXCEPT !.pc = "fetched", !.src = Len(releases[p])]
  <2>1. job \in TaskStates
    BY <1>0 DEF TaskStates, TaskPhases
  <2>2. /\ job.pc = "fetched" /\ job.src = Len(releases[p])
        /\ job.todo = task[r][p].todo /\ job.confirmed = task[r][p].confirmed
    BY <1>0 DEF TaskStates
  <2>3. SetTask(r, p, job) /\ run' = run /\ p \in Work(r) /\ task[r][p].pc = "waiting"
    BY <1>1 DEF FetchRoot, At
  <2>4. run[r].cat[p] # 0 /\ run[r].cat[p] \in 0..Len(releases[p])
    BY <2>3 DEF Work, TypeInv, IndicesOK
  <2>5. Len(releases[p]) # 0
    BY <1>0, <2>4
  <2>6. JobOK(job, releases[p])
    BY <1>0, <2>2, <2>3, <2>5 DEF JobOK
  <2> QED
    BY <1>0, <2>1, <2>3, <2>6 DEF TaskMoves
<1>2. CASE Skip(r, p)
  BY <1>2, SettleMoves DEF Skip
<1>3. CASE FailUnread(r, p) \/ FailBeforeCopy(r, p)
  BY <1>3, SettleMoves DEF FailUnread, FailBeforeCopy
<1>4. CASE Measure(r, p)
  BY <1>4, SettleMoves DEF Measure
<1>5. CASE BeginCopy(r, p)
  <2> DEFINE job == [task[r][p] EXCEPT !.pc = "tags", !.base = LocalRoot(p),
                                        !.todo = TagsOf(Source(r, p)) \ IllegalTags]
  <2>1. LocalRoot(p) \in Roots \cup {None}
    BY DEF LocalRoot, TypeInv, TypeOK, TreeTypes, TreeNow, Trees, Catalogs
  <2>2. job \in TaskStates
    BY <1>0, <2>1 DEF TaskStates, TaskPhases, TagsOf
  <2>3. /\ job.pc = "tags" /\ job.src = task[r][p].src
        /\ job.todo = TagsOf(Source(r, p)) \ IllegalTags /\ job.confirmed = task[r][p].confirmed
    BY <1>0 DEF TaskStates
  <2>4. SetTask(r, p, job) /\ run' = run /\ task[r][p].pc = "fetched"
    BY <1>5 DEF BeginCopy, At
  <2>5. JobOK(job, releases[p])
    BY <1>0, <2>3, <2>4 DEF JobOK, Source
  <2> QED
    BY <1>0, <2>2, <2>4, <2>5 DEF TaskMoves
<1>6. ASSUME NEW t \in Tags, CopyTag(r, p, t) \/ FailTag(r, p, t)
      PROVE  TaskMoves(r, p)
  <2>1. /\ task[r][p].pc = "tags" /\ t \in task[r][p].todo /\ run' = run
    BY <1>6 DEF CopyTag, FailTag, At
  <2>2. PICK job \in {[task[r][p] EXCEPT !.todo = @ \ {t}, !.confirmed = @ \cup {t}],
                      RecordTag(task[r][p], t)} : SetTask(r, p, job)
    BY <1>6 DEF CopyTag, FailTag
  <2>3. job \in TaskStates
    <3>1. [task[r][p] EXCEPT !.todo = @ \ {t}, !.confirmed = @ \cup {t}] \in TaskStates
      BY <1>0 DEF TaskStates
    <3>2. RecordTag(task[r][p], t) \in TaskStates
      BY <1>0 DEF TaskStates, RecordTag
    <3> QED
      BY <2>2, <3>1, <3>2
  <2>4. /\ job.pc = "tags" /\ job.src = task[r][p].src
        /\ job.todo \subseteq task[r][p].todo
        /\ job.confirmed \subseteq task[r][p].confirmed \cup {t}
    BY <1>0, <2>1, <2>2 DEF TaskStates, RecordTag
  <2>5. JobOK(job, releases[p])
    BY <1>0, <2>1, <2>4 DEF JobOK
  <2> QED
    BY <1>0, <2>1, <2>2, <2>3, <2>5 DEF TaskMoves
<1>7. CASE CopyDescription(r, p)
  <2>1. task[r][p].pc = "tags"
    BY <1>7 DEF CopyDescription, At
  <2>2. Settle(r, p, TRUE) \/ (Advance(r, p, "objects") /\ run' = run)
    BY <1>7 DEF CopyDescription
  <2> QED
    BY <2>1, <2>2, SettleMoves, AdvanceMoves DEF TaskPhases
<1>8. CASE FailDescription(r, p)
  <2> DEFINE job == [task[r][p] EXCEPT !.pc = "objects", !.failed = TRUE]
  <2>1. task[r][p].pc = "tags"
    BY <1>8 DEF FailDescription, At
  <2>2. Settle(r, p, TRUE) \/ (SetTask(r, p, job) /\ run' = run)
    BY <1>8 DEF FailDescription
  <2>3. job \in TaskStates
    BY <1>0 DEF TaskStates, TaskPhases
  <2>4. job.pc = "objects" /\ job.src = task[r][p].src /\ job.todo = task[r][p].todo
        /\ job.confirmed = task[r][p].confirmed
    BY <1>0 DEF TaskStates
  <2>5. JobOK(job, releases[p])
    BY <1>0, <2>1, <2>4 DEF JobOK
  <2>6. CASE SetTask(r, p, job) /\ run' = run
    BY <1>0, <2>3, <2>5, <2>6 DEF TaskMoves
  <2> QED
    BY <2>2, <2>6, SettleMoves
<1> QED
  BY <1>1, <1>2, <1>3, <1>4, <1>5, <1>6, <1>7, <1>8 DEF CopyStep

LEMMA WriteTypes ==
  ASSUME TypeInv, NEW r \in Runs, NEW p \in Packages, WriteStep(r, p)
  PROVE  TaskMoves(r, p) /\ lock' \in {lock, <<r, p>>, None}
<1>1. task[r][p].pc \notin {"waiting", "done"}
  BY DEF WriteStep, WriteDispatchObjects, RefuseDispatchObject, WriteDescriptionObjects,
     BeginTransaction, WriteRoot, CommitCatalog, PruneDescriptionObjects, WriteConfigJson, At
<1>2. lock' \in {lock, <<r, p>>, None}
  BY DEF WriteStep, WriteDispatchObjects, RefuseDispatchObject, WriteDescriptionObjects,
     BeginTransaction, WriteRoot, CommitCatalog, PruneDescriptionObjects, WriteConfigJson
<1>3. \/ Settle(r, p, TRUE) \/ Settle(r, p, task[r][p].failed)
      \/ \E pc \in {"readme", "begin", "root", "commit", "prune", "config"} :
            Advance(r, p, pc) /\ run' = run
  BY DEF WriteStep, WriteDispatchObjects, RefuseDispatchObject, WriteDescriptionObjects,
     BeginTransaction, WriteRoot, CommitCatalog, PruneDescriptionObjects, WriteConfigJson
<1>4. task[r][p].failed \in BOOLEAN
  BY JobType DEF TaskStates
<1>5. {"readme", "begin", "root", "commit", "prune", "config"} \subseteq TaskPhases \ {"waiting"}
  BY DEF TaskPhases
<1> QED
  BY <1>1, <1>2, <1>3, <1>4, <1>5, SettleMoves, AdvanceMoves

\* An index into a history stays valid, with the document it points at.
LEMMA JobOKGrows ==
  ASSUME NEW old \in Seq(Roots), NEW new \in Seq(Roots), NEW job \in TaskStates,
         JobOK(job, old), Len(old) <= Len(new), \A i \in 1..Len(old) : new[i] = old[i]
  PROVE  JobOK(job, new)
<1>1. Len(old) \in Nat /\ Len(new) \in Nat
  OBVIOUS
<1>2. job.src \in 0..Len(new)
  BY <1>1 DEF JobOK
<1>3. job.src # 0 => new[job.src] = old[job.src]
  BY <1>1 DEF JobOK
<1> QED
  BY <1>2, <1>3 DEF JobOK

LEMMA TypeStep == TypeInv /\ [Next]_vars => TypeInv'
<1> SUFFICES ASSUME TypeInv, [Next]_vars PROVE TypeInv'
  OBVIOUS
<1>0. /\ run \in [Runs -> RunStates] /\ task \in [Runs -> [Packages -> TaskStates]]
      /\ record \in Records \cup {None} /\ lock \in (Runs \X Packages) \cup {None}
      /\ faults \in Nat /\ releases \in [Packages -> Seq(Roots)]
      /\ RunTypes
  BY DEF TypeInv, TypeOK, RunTypes, UpstreamTypes
<1>1. /\ \A q \in Runs, p \in Packages : run[q].cat[p] \in 0..Len(releases[p])
      /\ \A q \in Runs, p \in Packages : JobOK(task[q][p], releases[p])
  BY DEF TypeInv, IndicesOK
<1>2. UpstreamTypes' /\ DestinationTypes' /\ TreeTypes' /\ OperatorTypes'
  BY UpstreamStep, DestinationStep, TreeStep
<1> DEFINE RunsOK == /\ RunTypes'
                     /\ \A q \in Runs, p \in Packages : run'[q].cat[p] \in 0..Len(releases'[p])
                     /\ \A q \in Runs, p \in Packages : JobOK(task'[q][p], releases'[p])
<1>3. ASSUME Publisher PROVE RunsOK
  <2>1. UNCHANGED <<record, lock, run, task, faults>>
    BY <1>3, PublisherFrame
  <2>2. /\ releases' \in [Packages -> Seq(Roots)]
        /\ \A p \in Packages : /\ Len(releases[p]) <= Len(releases'[p])
                               /\ \A i \in 1..Len(releases[p]) : releases'[p][i] = releases[p][i]
    BY UpstreamStep DEF UpstreamTypes
  <2>3. \A q \in Runs, p \in Packages : JobOK(task[q][p], releases'[p])
    BY <1>0, <1>1, <2>2, JobOKGrows
  <2>4. \A p \in Packages : Len(releases[p]) \in Nat /\ Len(releases'[p]) \in Nat
    BY <1>0, <2>2
  <2>5. \A q \in Runs, p \in Packages : run[q].cat[p] \in 0..Len(releases'[p])
    BY <1>1, <2>2, <2>4
  <2>6. RunTypes'
    BY <1>0, <2>1 DEF RunTypes
  <2> QED
    BY <2>1, <2>3, <2>5, <2>6
<1>4. ASSUME Interference \/ UNCHANGED vars PROVE RunsOK
  <2>1. UNCHANGED <<releases, lock, run, task, faults>> /\ record' \in {record, None}
    <3>1. CASE Interference
      <4>1. UNCHANGED upstream /\ UNCHANGED <<lock, run, task, faults>>
        BY <3>1, OperatorFrame
      <4>2. record' \in {record, None}
        BY <3>1 DEF Interference, CommitTree, CheckoutTree, LoseRecord, DeleteRoot, DamageRoot,
           EditFilters
      <4> QED
        BY <4>1, <4>2 DEF upstream
    <3>2. CASE UNCHANGED vars
      BY <3>2 DEF vars, upstream
    <3> QED
      BY <1>4, <3>1, <3>2
  <2>2. RunTypes'
    BY <1>0, <2>1 DEF RunTypes
  <2> QED
    BY <1>1, <2>1, <2>2
<1>5. ASSUME NEW r \in Runs, Control(r) PROVE RunsOK
  <2>1. releases' = releases
    BY <1>5, ControlFrame DEF upstream
  <2> QED
    BY <1>5, <2>1, ControlTypes
<1>6. ASSUME NEW r \in Runs, NEW p \in Packages, CopyStep(r, p) \/ WriteStep(r, p) PROVE RunsOK
  <2>1. TaskMoves(r, p)
    BY <1>6, CopyTypes, WriteTypes
  <2>2. UNCHANGED <<releases, record>>
    BY <1>6, CopyFrame, WriteFrame DEF upstream
  <2>3. lock' \in (Runs \X Packages) \cup {None}
    BY <1>0, <1>6, CopyFrame, WriteTypes
  <2>4. faults' \in Nat
    <3>1. CASE WriteStep(r, p)
      BY <1>0, <3>1, WriteFrame
    <3>2. CASE CopyStep(r, p)
      <4>1. faults' = faults \/ faults' = faults + 1
        BY <3>2 DEF CopyStep, FetchRoot, Skip, FailUnread, FailBeforeCopy, Measure, BeginCopy,
           CopyTag, FailTag, CopyDescription, FailDescription, Failure
      <4> QED
        BY <1>0, <4>1
    <3> QED
      BY <1>6, <3>1, <3>2
  <2>5. PICK job \in TaskStates : SetTask(r, p, job) /\ JobOK(job, releases[p])
    BY <2>1 DEF TaskMoves
  <2>6. /\ task' \in [Runs -> [Packages -> TaskStates]]
        /\ \A q \in Runs, s \in Packages : JobOK(task'[q][s], releases[s])
    BY <1>0, <1>1, <2>5, TaskUpdate
  <2>7. run' \in [Runs -> RunStates] /\ \A q \in Runs : run'[q].cat = run[q].cat
    BY <2>1 DEF TaskMoves
  <2>8. RunTypes'
    BY <1>0, <2>2, <2>3, <2>4, <2>6, <2>7 DEF RunTypes
  <2> QED
    BY <1>1, <2>2, <2>6, <2>7, <2>8
<1>7. RunsOK
  BY <1>3, <1>4, <1>5, <1>6, StepKinds
<1>8. \A p \in Packages : listed'[p] \in 0..Len(releases'[p])
  BY UpstreamStep
<1>9. TypeOK'
  BY <1>2, <1>7 DEF TypeOK
<1>10. IndicesOK'
  BY <1>7, <1>8 DEF IndicesOK
<1> QED
  BY <1>9, <1>10 DEF TypeInv

\* Every reachable state is well typed, and every index a run or a task holds
\* points at a root the publisher served (sync_package works on what it fetched).
THEOREM TypeCorrect == Spec => []TypeOK
<1>1. TypeInv => TypeOK
  BY DEF TypeInv
<1> QED
  BY <1>1, InitTypes, TypeStep, PTL DEF Spec

-----------------------------------------------------------------------------
(* How a step changes one task and one root, for the invariants below.        *)

ObjectsWritten == {"readme", "begin", "root"}

LEMMA MergeNames ==
  ASSUME NEW src \in Roots, NEW base \in Roots \cup {None}, NEW confirmed \in SUBSET Tags,
         NEW present, NamesOnly(base, present), \A t \in confirmed : src.tags[t] \in present
  PROVE  NamesOnly(MergeTags(src, base, confirmed), present)
<1> DEFINE merged == MergeTags(src, base, confirmed)
<1>1. \A t \in Tags : merged.tags[t] = IF t \in confirmed THEN src.tags[t]
                                      ELSE IF base = None THEN None ELSE base.tags[t]
  BY DEF MergeTags, Roots, TagMap
<1>2. \A t \in Tags : merged.tags[t] # None => merged.tags[t] \in present
  BY <1>1 DEF NamesOnly, TagsOf
<1> QED
  BY <1>2 DEF NamesOnly, TagsOf

LEMMA CopyMoves ==
  ASSUME TypeInv, NEW r \in Runs, NEW p \in Packages, CopyStep(r, p)
  PROVE  \E job \in TaskStates :
           /\ SetTask(r, p, job)
           /\ job.pc \notin ObjectsWritten
           /\ job.base \in {task[r][p].base, LocalRoot(p)}
           /\ \A t \in job.confirmed :
                \/ t \in task[r][p].confirmed /\ job.src = task[r][p].src
                \/ releases[p][job.src].tags[t] \in held'[p]
<1>0. /\ task[r][p] \in TaskStates /\ JobOK(task[r][p], releases[p])
      /\ LocalRoot(p) \in Roots \cup {None} /\ Len(releases[p]) \in Nat
      /\ held \in [Packages -> SUBSET Contents]
  BY JobType DEF LocalRoot, TypeInv, TypeOK, TreeTypes, TreeNow, Trees, Catalogs, DestinationTypes
<1>1. CASE FetchRoot(r, p)
  <2> DEFINE job == [task[r][p] EXCEPT !.pc = "fetched", !.src = Len(releases[p])]
  <2>1. job \in TaskStates
    BY <1>0 DEF TaskStates, TaskPhases
  <2>2. /\ job.pc = "fetched" /\ job.base = task[r][p].base
        /\ job.confirmed = task[r][p].confirmed
    BY <1>0 DEF TaskStates
  <2>3. SetTask(r, p, job) /\ task[r][p].confirmed = {}
    BY <1>0, <1>1 DEF FetchRoot, At, JobOK
  <2> QED
    BY <2>1, <2>2, <2>3 DEF ObjectsWritten
<1>2. ASSUME NEW failed \in BOOLEAN, Settle(r, p, failed)
      PROVE  \E job \in TaskStates :
               /\ SetTask(r, p, job) /\ job.pc = "done"
               /\ job.base = task[r][p].base /\ job.src = task[r][p].src
               /\ job.confirmed = task[r][p].confirmed
  <2> DEFINE job == [task[r][p] EXCEPT !.pc = "done", !.failed = failed]
  <2>1. /\ job \in TaskStates /\ job.pc = "done" /\ job.base = task[r][p].base
        /\ job.src = task[r][p].src /\ job.confirmed = task[r][p].confirmed
    BY <1>0 DEF TaskStates, TaskPhases
  <2> QED
    BY <1>2, <2>1 DEF Settle
<1>3. CASE Skip(r, p) \/ FailUnread(r, p) \/ FailBeforeCopy(r, p) \/ Measure(r, p)
  BY <1>2, <1>3 DEF Skip, FailUnread, FailBeforeCopy, Measure, ObjectsWritten
<1>4. CASE BeginCopy(r, p)
  <2> DEFINE job == [task[r][p] EXCEPT !.pc = "tags", !.base = LocalRoot(p),
                                        !.todo = TagsOf(Source(r, p)) \ IllegalTags]
  <2>1. job \in TaskStates
    BY <1>0 DEF TaskStates, TaskPhases, TagsOf
  <2>2. /\ job.pc = "tags" /\ job.base = LocalRoot(p) /\ job.src = task[r][p].src
        /\ job.confirmed = task[r][p].confirmed
    BY <1>0 DEF TaskStates
  <2> QED
    BY <1>4, <2>1, <2>2 DEF BeginCopy, ObjectsWritten
<1>5. ASSUME NEW t \in Tags, CopyTag(r, p, t)
      PROVE  \E job \in TaskStates :
               /\ SetTask(r, p, job) /\ job.pc = "tags"
               /\ job.base = task[r][p].base /\ job.src = task[r][p].src
               /\ job.confirmed = task[r][p].confirmed \cup {t}
               /\ releases[p][job.src].tags[t] \in held'[p]
  <2> DEFINE job == [task[r][p] EXCEPT !.todo = @ \ {t}, !.confirmed = @ \cup {t}]
  <2>1. /\ job \in TaskStates /\ job.pc = task[r][p].pc /\ job.base = task[r][p].base
        /\ job.src = task[r][p].src /\ job.confirmed = task[r][p].confirmed \cup {t}
    BY <1>0 DEF TaskStates
  <2>2. SetTask(r, p, job) /\ task[r][p].pc = "tags"
        /\ held' = [held EXCEPT ![p] = @ \cup {Source(r, p).tags[t]}]
    BY <1>5 DEF CopyTag, At
  <2>3. Source(r, p).tags[t] \in held'[p]
    BY <1>0, <2>2
  <2> QED
    BY <2>1, <2>2, <2>3 DEF Source
<1>6. ASSUME NEW t \in Tags, FailTag(r, p, t)
      PROVE  \E job \in TaskStates :
               /\ SetTask(r, p, job) /\ job.pc = "tags"
               /\ job.base = task[r][p].base /\ job.src = task[r][p].src
               /\ job.confirmed = task[r][p].confirmed
  <2> DEFINE job == RecordTag(task[r][p], t)
  <2>1. /\ job \in TaskStates /\ job.pc = task[r][p].pc /\ job.base = task[r][p].base
        /\ job.src = task[r][p].src /\ job.confirmed = task[r][p].confirmed
    BY <1>0 DEF TaskStates, RecordTag
  <2> QED
    BY <1>6, <2>1 DEF FailTag, At
<1>7. CASE CopyDescription(r, p)
  <2> DEFINE job == [task[r][p] EXCEPT !.pc = "objects"]
  <2>1. /\ job \in TaskStates /\ job.pc = "objects" /\ job.base = task[r][p].base
        /\ job.src = task[r][p].src /\ job.confirmed = task[r][p].confirmed
    BY <1>0 DEF TaskStates, TaskPhases
  <2>2. SetTask(r, p, job) \/ Settle(r, p, TRUE)
    BY <1>7 DEF CopyDescription, Advance
  <2> QED
    BY <1>2, <2>1, <2>2 DEF ObjectsWritten
<1>8. CASE FailDescription(r, p)
  <2> DEFINE job == [task[r][p] EXCEPT !.pc = "objects", !.failed = TRUE]
  <2>1. /\ job \in TaskStates /\ job.pc = "objects" /\ job.base = task[r][p].base
        /\ job.src = task[r][p].src /\ job.confirmed = task[r][p].confirmed
    BY <1>0 DEF TaskStates, TaskPhases
  <2>2. SetTask(r, p, job) \/ Settle(r, p, TRUE)
    BY <1>8 DEF FailDescription
  <2> QED
    BY <1>2, <2>1, <2>2 DEF ObjectsWritten
<1> QED
  BY <1>1, <1>3, <1>4, <1>5, <1>6, <1>7, <1>8 DEF CopyStep, ObjectsWritten

LEMMA WriteMoves ==
  ASSUME TypeInv, NEW r \in Runs, NEW p \in Packages, WriteStep(r, p)
  PROVE  \E job \in TaskStates :
           /\ SetTask(r, p, job)
           /\ job.base = task[r][p].base /\ job.src = task[r][p].src
           /\ job.confirmed = task[r][p].confirmed
           /\ job.pc \in ObjectsWritten =>
                task[r][p].pc \in ObjectsWritten \/ WriteDispatchObjects(r, p)
<1>0. task[r][p] \in TaskStates
  BY JobType
<1>1. ASSUME NEW pc \in TaskPhases
      PROVE  LET job == [task[r][p] EXCEPT !.pc = pc]
             IN  /\ job \in TaskStates /\ job.pc = pc
                 /\ job.base = task[r][p].base /\ job.src = task[r][p].src
                 /\ job.confirmed = task[r][p].confirmed
  BY <1>0 DEF TaskStates
<1>2. ASSUME NEW failed \in BOOLEAN
      PROVE  LET job == [task[r][p] EXCEPT !.pc = "done", !.failed = failed]
             IN  /\ job \in TaskStates /\ job.pc = "done"
                 /\ job.base = task[r][p].base /\ job.src = task[r][p].src
                 /\ job.confirmed = task[r][p].confirmed
  BY <1>0 DEF TaskStates, TaskPhases
<1>3. \/ \E failed \in BOOLEAN :
           SetTask(r, p, [task[r][p] EXCEPT !.pc = "done", !.failed = failed])
      \/ \E pc \in TaskPhases :
           /\ SetTask(r, p, [task[r][p] EXCEPT !.pc = pc])
           /\ pc \in ObjectsWritten =>
                task[r][p].pc \in ObjectsWritten \/ WriteDispatchObjects(r, p)
  <2>1. CASE WriteDispatchObjects(r, p)
    BY <2>1 DEF WriteDispatchObjects, Advance, TaskPhases
  <2>2. CASE RefuseDispatchObject(r, p)
    BY <2>2 DEF RefuseDispatchObject, Settle
  <2>3. CASE WriteDescriptionObjects(r, p) \/ BeginTransaction(r, p)
    BY <2>3 DEF WriteDescriptionObjects, BeginTransaction, Advance, At, TaskPhases, ObjectsWritten
  <2>4. CASE WriteRoot(r, p) \/ CommitCatalog(r, p) \/ PruneDescriptionObjects(r, p)
    BY <2>4 DEF WriteRoot, CommitCatalog, PruneDescriptionObjects, Advance, TaskPhases,
                ObjectsWritten
  <2>5. CASE WriteConfigJson(r, p)
    BY <1>0, <2>5 DEF WriteConfigJson, Settle, TaskStates
  <2> QED
    BY <2>1, <2>2, <2>3, <2>4, <2>5 DEF WriteStep
<1>4. "done" \notin ObjectsWritten
  BY DEF ObjectsWritten
<1> QED
  BY <1>1, <1>2, <1>3, <1>4

LEMMA ControlMoves ==
  ASSUME NEW r \in Runs, Control(r)
  PROVE  task' = task \/ task' = [task EXCEPT ![r] = [p \in Packages |-> WaitingTask]]
  BY DEF Control, RunStep, StopRun, StartRun, RepairCatalog, AbortRepair, FetchCatalog, ReadRecord,
     PlanSource, FinishRun, ExitRun, Reset

LEMMA OtherTasks ==
  ASSUME TypeInv, [Next]_vars, NEW r \in Runs, NEW p \in Packages
  PROVE  \/ task'[r][p] = task[r][p] \/ task'[r][p] = WaitingTask
         \/ CopyStep(r, p) \/ WriteStep(r, p)
<1>0. task \in [Runs -> [Packages -> TaskStates]]
  BY DEF TypeInv, TypeOK, RunTypes
<1>1. ASSUME NEW q \in Runs, Control(q)
      PROVE  task'[r][p] = task[r][p] \/ task'[r][p] = WaitingTask
  BY <1>0, <1>1, ControlMoves
<1>2. ASSUME NEW q \in Runs, NEW s \in Packages, CopyStep(q, s) \/ WriteStep(q, s),
             q # r \/ s # p
      PROVE  task'[r][p] = task[r][p]
  BY <1>0, <1>2, CopyMoves, WriteMoves, TaskUpdate
<1>3. ASSUME Publisher \/ Interference \/ UNCHANGED vars
      PROVE  task' = task
  BY <1>3, PublisherFrame, OperatorFrame DEF vars
<1> QED
  BY <1>1, <1>2, <1>3, StepKinds

LEMMA RootMoves ==
  ASSUME TypeInv, [Next]_vars
  PROVE  /\ \A p \in Packages : \/ root'[p] \in {root[p], None, committed.root[p]}
                                \/ \E r \in Runs : WriteRoot(r, p)
         /\ committed'.root \in {root, committed.root}
<1>0. root \in Catalogs
  BY DEF TypeInv, TypeOK, TreeTypes, TreeNow, Trees
<1>1. CASE Interference
  <2>1. CASE CommitTree \/ CheckoutTree \/ LoseRecord
    BY <2>1 DEF CommitTree, CheckoutTree, LoseRecord, TreeNow, tree
  <2>2. CASE \E p \in Packages : DeleteRoot(p) \/ DamageRoot(p)
    BY <1>0, <2>2 DEF DeleteRoot, DamageRoot, Catalogs, tree
  <2>3. CASE \E names \in SUBSET Packages : EditFilters(names)
    BY <2>3 DEF EditFilters, tree
  <2> QED
    BY <1>1, <2>1, <2>2, <2>3 DEF Interference
<1>2. ASSUME NEW r \in Runs, NEW p \in Packages, WriteStep(r, p)
      PROVE  /\ committed' = committed
             /\ root' = root \/ (WriteRoot(r, p) /\ \A q \in Packages : q # p => root'[q] = root[q])
  <2>1. root' = root \/ WriteRoot(r, p)
    BY <1>2 DEF WriteStep, WriteDispatchObjects, RefuseDispatchObject, WriteDescriptionObjects,
       BeginTransaction, CommitCatalog, PruneDescriptionObjects, WriteConfigJson, tree
  <2>2. WriteRoot(r, p) => \A q \in Packages : q # p => root'[q] = root[q]
    BY <1>0 DEF WriteRoot, Catalogs
  <2> QED
    BY <1>2, <2>1, <2>2, WriteFrame
<1>3. ASSUME Publisher \/ (\E r \in Runs : Control(r)) \/ UNCHANGED vars
             \/ \E r \in Runs, p \in Packages : CopyStep(r, p)
      PROVE  root' = root /\ committed' = committed
  BY <1>3, PublisherFrame, ControlFrame, CopyFrame DEF vars, tree, operator
<1> QED
  BY <1>1, <1>2, <1>3, StepKinds

-----------------------------------------------------------------------------
(* What a mirrored root names is at the destination registry.  A root is      *)
(* merged from the root read before the copy and the tags confirmed since, so *)
(* both must name held contents; a checkout brings the committed root back.   *)

JobContentHeld(job, history, present) ==
    /\ NamesOnly(job.base, present)
    /\ \A t \in job.confirmed : history[job.src].tags[t] \in present

ContentInv ==
    /\ \A p \in Packages : NamesOnly(root[p], held[p])
    /\ \A p \in Packages : NamesOnly(committed.root[p], held[p])
    /\ \A r \in Runs, p \in Packages : JobContentHeld(task[r][p], releases[p], held[p])

LEMMA ContentInit == Init => ContentInv
  BY DEF Init, ContentInv, JobContentHeld, NamesOnly, WaitingTask, TreeNow, NothingListed

LEMMA NamesMore ==
  ASSUME NEW doc, NEW less, NEW more, NamesOnly(doc, less), less \subseteq more
  PROVE  NamesOnly(doc, more)
  BY DEF NamesOnly

\* The invariant of a task carries over when the histories and the registry grow.
LEMMA ContentGrows ==
  ASSUME TypeInv, [Next]_vars, NEW p \in Packages, NEW job \in TaskStates,
         JobOK(job, releases[p]), JobContentHeld(job, releases[p], held[p])
  PROVE  JobContentHeld(job, releases'[p], held'[p])
<1>1. held[p] \subseteq held'[p]
  BY DestinationStep
<1>2. releases[p] \in Seq(Roots) /\ Len(releases[p]) \in Nat
  BY DEF TypeInv, TypeOK, UpstreamTypes
<1>3. job.src # 0 => releases'[p][job.src] = releases[p][job.src]
  BY <1>2, UpstreamStep DEF JobOK
<1>4. job.src = 0 => job.confirmed = {}
  BY DEF JobOK
<1> QED
  BY <1>1, <1>3, <1>4, NamesMore DEF JobContentHeld

LEMMA ContentStep == TypeInv /\ ContentInv /\ [Next]_vars => ContentInv'
<1> SUFFICES ASSUME TypeInv, ContentInv, [Next]_vars PROVE ContentInv'
  OBVIOUS
<1>0. /\ \A p \in Packages : NamesOnly(root[p], held[p])
      /\ \A p \in Packages : NamesOnly(committed.root[p], held[p])
      /\ \A r \in Runs, p \in Packages : JobContentHeld(task[r][p], releases[p], held[p])
  BY DEF ContentInv
<1>1. \A p \in Packages : held[p] \subseteq held'[p]
  BY DestinationStep
<1>2. \A p \in Packages : NamesOnly(root'[p], held'[p])
  <2>1. ASSUME NEW p \in Packages, root'[p] \in {root[p], None, committed.root[p]}
        PROVE  NamesOnly(root'[p], held'[p])
    BY <1>0, <1>1, <2>1 DEF NamesOnly
  <2>2. ASSUME NEW r \in Runs, NEW p \in Packages, WriteRoot(r, p)
        PROVE  NamesOnly(root'[p], held'[p])
    <3>1. task[r][p].pc = "root"
      BY <2>2 DEF WriteRoot, At
    <3>2. /\ Source(r, p) \in Roots /\ task[r][p].base \in Roots \cup {None}
          /\ task[r][p].confirmed \in SUBSET Tags
      BY <3>1, SourceType DEF TaskStates
    <3>3. JobContentHeld(task[r][p], releases[p], held[p])
      BY <1>0
    <3>4. NamesOnly(MergeTags(Source(r, p), task[r][p].base, task[r][p].confirmed), held[p])
      BY <3>2, <3>3, MergeNames DEF JobContentHeld, Source
    <3>5. root'[p] = MergeTags(Source(r, p), task[r][p].base, task[r][p].confirmed)
      BY <2>2 DEF WriteRoot, TypeInv, TypeOK, TreeTypes, TreeNow, Trees, Catalogs
    <3> QED
      BY <1>1, <3>4, <3>5, NamesMore
  <2> QED
    BY <2>1, <2>2, RootMoves
<1>3. \A p \in Packages : NamesOnly(committed'.root[p], held'[p])
  BY <1>0, <1>1, RootMoves DEF NamesOnly
<1>4. ASSUME NEW r \in Runs, NEW p \in Packages
      PROVE  JobContentHeld(task'[r][p], releases'[p], held'[p])
  <2>0. /\ task \in [Runs -> [Packages -> TaskStates]]
        /\ JobContentHeld(task[r][p], releases'[p], held'[p])
    BY <1>0, JobType, ContentGrows DEF TypeInv, TypeOK, RunTypes
  <2>1. CASE task'[r][p] = task[r][p]
    BY <2>0, <2>1
  <2>2. CASE task'[r][p] = WaitingTask
    BY <2>2 DEF JobContentHeld, NamesOnly, WaitingTask
  <2>3. ASSUME CopyStep(r, p)
        PROVE  JobContentHeld(task'[r][p], releases'[p], held'[p])
    <3>1. PICK job \in TaskStates :
             /\ SetTask(r, p, job)
             /\ job.base \in {task[r][p].base, LocalRoot(p)}
             /\ \A t \in job.confirmed :
                  \/ t \in task[r][p].confirmed /\ job.src = task[r][p].src
                  \/ releases[p][job.src].tags[t] \in held'[p]
      BY <2>3, CopyMoves
    <3>2. task'[r][p] = job
      BY <2>0, <3>1, TaskUpdate
    <3>3. NamesOnly(LocalRoot(p), held'[p])
      BY <1>0, <1>1 DEF LocalRoot, NamesOnly
    <3>4. releases' = releases
      BY <2>3, CopyFrame DEF upstream
    <3> QED
      BY <2>0, <3>1, <3>2, <3>3, <3>4 DEF JobContentHeld
  <2>4. ASSUME WriteStep(r, p)
        PROVE  JobContentHeld(task'[r][p], releases'[p], held'[p])
    <3>1. PICK job \in TaskStates :
             /\ SetTask(r, p, job)
             /\ job.base = task[r][p].base /\ job.src = task[r][p].src
             /\ job.confirmed = task[r][p].confirmed
      BY <2>4, WriteMoves
    <3>2. task'[r][p] = job
      BY <2>0, <3>1, TaskUpdate
    <3> QED
      BY <2>0, <3>1, <3>2 DEF JobContentHeld
  <2> QED
    BY <2>1, <2>2, <2>3, <2>4, OtherTasks
<1> QED
  BY <1>2, <1>3, <1>4 DEF ContentInv

\* Whatever runs side by side, fails, is interrupted or is checked out, what the
\* mirrored index names can be pulled: a root is merged from confirmed tags and
\* the tags of a root already there (registry_sync.rs record_tag, write_package).
THEOREM ContentHeld == Spec => []PublishedContentHeld
<1>1. Init => TypeInv /\ ContentInv
  BY InitTypes, ContentInit
<1>2. TypeInv /\ ContentInv /\ [Next]_vars => (TypeInv /\ ContentInv)'
  BY TypeStep, ContentStep
<1>3. ContentInv => PublishedContentHeld
  BY DEF ContentInv, PublishedContentHeld
<1> QED
  BY <1>1, <1>2, <1>3, PTL DEF Spec

-----------------------------------------------------------------------------
(* A root exists only after the dispatch objects of its tags.  The tree may be *)
(* put back to an older commit, dispatch objects included, but only between   *)
(* runs, when no task remembers an object it wrote.                           *)

JobObjectsServed(job, history, objects) ==
    /\ NamesOnly(job.base, objects)
    /\ job.pc \in {"readme", "begin", "root"} =>
         \A t \in job.confirmed : history[job.src].tags[t] \in objects

\* Outside its copy phase a run has no package under way.
TasksIdle ==
    \A r \in Runs : run[r].pc \notin {"copy", "done"} =>
        \A p \in Packages : task[r][p] = WaitingTask

ObjectsInv ==
    /\ \A p \in Packages : NamesOnly(root[p], dispatch[p])
    /\ \A p \in Packages : NamesOnly(committed.root[p], committed.dispatch[p])
    /\ \A r \in Runs, p \in Packages : JobObjectsServed(task[r][p], releases[p], dispatch[p])
    /\ TasksIdle

LEMMA ObjectsInit == Init => ObjectsInv
  BY DEF Init, ObjectsInv, JobObjectsServed, NamesOnly, WaitingTask, TreeNow, NothingListed,
         TasksIdle

LEMMA IdleStep ==
  ASSUME TypeInv, TasksIdle, [Next]_vars
  PROVE  TasksIdle'
<1>0. /\ run \in [Runs -> RunStates] /\ task \in [Runs -> [Packages -> TaskStates]]
      /\ \A r \in Runs : run[r] \in RunStates
  BY DEF TypeInv, TypeOK, RunTypes
<1>1. ASSUME NEW r \in Runs, Control(r) PROVE TasksIdle'
  <2>1. \/ task' = [task EXCEPT ![r] = [p \in Packages |-> WaitingTask]]
        \/ task' = task /\ run[r].pc \notin {"copy", "done"}
        \/ task' = task /\ GoTo(r, "done")
    BY <1>1 DEF Control, RunStep, StopRun, StartRun, RepairCatalog, AbortRepair, FetchCatalog, ReadRecord,
       PlanSource, FinishRun, ExitRun, Reset
  <2>2. \E state : SetRun(r, state)
    BY <1>1 DEF Control, RunStep, StopRun, StartRun, RepairCatalog, AbortRepair, FetchCatalog, ReadRecord,
       PlanSource, FinishRun, ExitRun, Reset, GoTo
  <2>3. \A q \in Runs : q # r => run'[q] = run[q]
    BY <1>0, <2>2 DEF SetRun
  <2>4. CASE task' = [task EXCEPT ![r] = [p \in Packages |-> WaitingTask]]
    BY <1>0, <2>3, <2>4 DEF TasksIdle
  <2>5. CASE task' = task /\ run[r].pc \notin {"copy", "done"}
    BY <2>3, <2>5 DEF TasksIdle
  <2>6. CASE task' = task /\ GoTo(r, "done")
    <3>1. run'[r].pc = "done"
      BY <1>0, <2>6 DEF GoTo, SetRun, RunStates
    <3> QED
      BY <2>3, <2>6, <3>1 DEF TasksIdle
  <2> QED
    BY <2>1, <2>4, <2>5, <2>6
<1>2. ASSUME NEW r \in Runs, NEW p \in Packages, CopyStep(r, p) \/ WriteStep(r, p)
      PROVE  TasksIdle'
  <2>1. run[r].pc = "copy"
    BY <1>2 DEF CopyStep, FetchRoot, Skip, FailUnread, FailBeforeCopy, Measure, BeginCopy,
       CopyTag, FailTag, CopyDescription, FailDescription, WriteStep, WriteDispatchObjects,
       RefuseDispatchObject, WriteDescriptionObjects, BeginTransaction, WriteRoot,
       CommitCatalog, PruneDescriptionObjects, WriteConfigJson, At
  <2>2. run' = run \/ \E failed : Settle(r, p, failed)
    BY <1>2 DEF CopyStep, FetchRoot, Skip, FailUnread, FailBeforeCopy, Measure, BeginCopy,
       CopyTag, FailTag, CopyDescription, FailDescription, WriteStep, WriteDispatchObjects,
       RefuseDispatchObject, WriteDescriptionObjects, BeginTransaction, WriteRoot,
       CommitCatalog, PruneDescriptionObjects, WriteConfigJson
  <2>3. \A q \in Runs : run'[q].pc = run[q].pc
    <3>1. ASSUME NEW failed
          PROVE  [run[r] EXCEPT !.failed = run[r].failed \/ failed].pc = run[r].pc
      BY <1>0 DEF RunStates
    <3>2. ASSUME NEW failed, Settle(r, p, failed)
          PROVE  \A q \in Runs : run'[q].pc = run[q].pc
      BY <1>0, <3>1, <3>2 DEF Settle, SetRun
    <3> QED
      BY <2>2, <3>2
  <2>4. \A q \in Runs, s \in Packages : q # r => task'[q][s] = task[q][s]
    BY <1>0, <1>2, CopyMoves, WriteMoves, TaskUpdate
  <2> QED
    BY <2>1, <2>3, <2>4 DEF TasksIdle
<1>3. ASSUME Publisher \/ Interference \/ UNCHANGED vars
      PROVE  task' = task /\ run' = run
  BY <1>3, PublisherFrame, OperatorFrame DEF vars
<1> QED
  BY <1>1, <1>2, <1>3, StepKinds DEF TasksIdle

\* A step of a package adds dispatch objects, and the step that writes them
\* leaves one for every confirmed tag.
LEMMA DispatchGrows ==
  ASSUME TypeInv, NEW r \in Runs, NEW p \in Packages, WriteStep(r, p)
  PROVE  /\ \A q \in Packages : dispatch[q] \subseteq dispatch'[q]
         /\ WriteDispatchObjects(r, p) => Gathered(r, p) \subseteq dispatch'[p]
<1>0. dispatch \in [Packages -> SUBSET Contents]
  BY DEF TypeInv, TypeOK, TreeTypes, TreeNow, Trees
<1>1. \/ dispatch' = dispatch
      \/ \E more : dispatch' = [dispatch EXCEPT ![p] = @ \cup more]
  BY DEF WriteStep, WriteDispatchObjects, RefuseDispatchObject, WriteDescriptionObjects,
     BeginTransaction, WriteRoot, CommitCatalog, PruneDescriptionObjects, WriteConfigJson, tree
<1>2. ASSUME WriteDispatchObjects(r, p) PROVE Gathered(r, p) \subseteq dispatch'[p]
  <2>1. Gathered(r, p) \ NotIndex = Gathered(r, p)
    BY <1>2 DEF WriteDispatchObjects, Refused
  <2>2. dispatch' = [dispatch EXCEPT ![p] = @ \cup Gathered(r, p)]
    BY <1>2, <2>1 DEF WriteDispatchObjects
  <2> QED
    BY <1>0, <2>2
<1>3. \A q \in Packages : dispatch[q] \subseteq dispatch'[q]
  BY <1>0, <1>1
<1> QED
  BY <1>2, <1>3

LEMMA ObjectsStep == TypeInv /\ ObjectsInv /\ [Next]_vars => ObjectsInv'
<1> SUFFICES ASSUME TypeInv, ObjectsInv, [Next]_vars PROVE ObjectsInv'
  OBVIOUS
<1>0. /\ \A p \in Packages : NamesOnly(root[p], dispatch[p])
      /\ \A p \in Packages : NamesOnly(committed.root[p], committed.dispatch[p])
      /\ \A r \in Runs, p \in Packages : JobObjectsServed(task[r][p], releases[p], dispatch[p])
      /\ TasksIdle
  BY DEF ObjectsInv
<1>a. /\ task \in [Runs -> [Packages -> TaskStates]] /\ root \in Catalogs
      /\ dispatch \in [Packages -> SUBSET Contents]
  BY DEF TypeInv, TypeOK, RunTypes, TreeTypes, TreeNow, Trees
<1>1. TasksIdle'
  BY <1>0, IdleStep
<1>2. ASSUME NEW p \in Packages
      PROVE  JobObjectsServed(WaitingTask, releases'[p], dispatch'[p])
  BY DEF JobObjectsServed, NamesOnly, WaitingTask
<1>3. CASE Interference
  <2>1. task' = task /\ releases' = releases
    BY <1>3, OperatorFrame DEF upstream
  <2>2. CASE CheckoutTree
    <3>1. \A r \in Runs : run[r].pc = "idle"
      BY <2>2 DEF CheckoutTree, Operator
    <3>2. \A r \in Runs, p \in Packages : task'[r][p] = WaitingTask
      BY <1>0, <2>1, <3>1 DEF TasksIdle
    <3>3. root' = committed.root /\ dispatch' = committed.dispatch /\ committed' = committed
      BY <2>2 DEF CheckoutTree
    <3> QED
      BY <1>0, <1>1, <1>2, <3>2, <3>3 DEF ObjectsInv
  <2>3. CASE CommitTree
    <3>1. /\ root' = root /\ dispatch' = dispatch
          /\ committed'.root = root /\ committed'.dispatch = dispatch
      BY <2>3 DEF CommitTree, TreeNow, tree
    <3> QED
      BY <1>0, <1>1, <2>1, <3>1 DEF ObjectsInv
  <2>4. CASE LoseRecord \/ \E names \in SUBSET Packages : EditFilters(names)
    <3>1. root' = root /\ dispatch' = dispatch /\ committed' = committed
      BY <2>4 DEF LoseRecord, EditFilters, tree
    <3> QED
      BY <1>0, <1>1, <2>1, <3>1 DEF ObjectsInv
  <2>5. CASE \E p \in Packages : DeleteRoot(p) \/ DamageRoot(p)
    <3>1. /\ dispatch' = dispatch /\ committed' = committed
          /\ \A q \in Packages : root'[q] \in {root[q], None}
      BY <1>a, <2>5 DEF DeleteRoot, DamageRoot, Catalogs, tree
    <3>2. \A q \in Packages : NamesOnly(root'[q], dispatch'[q])
      BY <1>0, <3>1 DEF NamesOnly
    <3> QED
      BY <1>0, <1>1, <2>1, <3>1, <3>2 DEF ObjectsInv
  <2> QED
    BY <1>3, <2>2, <2>3, <2>4, <2>5 DEF Interference
<1>4. ASSUME Publisher \/ UNCHANGED vars PROVE ObjectsInv'
  <2>1. UNCHANGED <<task, root, dispatch, committed>>
    BY <1>4, PublisherFrame DEF vars, tree, operator
  <2>2. ASSUME NEW r \in Runs, NEW p \in Packages
        PROVE  JobObjectsServed(task[r][p], releases'[p], dispatch[p])
    <3>1. /\ releases[p] \in Seq(Roots) /\ Len(releases[p]) \in Nat
          /\ JobOK(task[r][p], releases[p])
      BY JobType
    <3>2. /\ task[r][p].src # 0 => releases'[p][task[r][p].src] = releases[p][task[r][p].src]
          /\ task[r][p].src = 0 => task[r][p].confirmed = {}
      BY <3>1, UpstreamStep DEF JobOK
    <3>3. JobObjectsServed(task[r][p], releases[p], dispatch[p])
      BY <1>0
    <3> QED
      BY <3>2, <3>3 DEF JobObjectsServed
  <2> QED
    BY <1>0, <1>1, <2>1, <2>2 DEF ObjectsInv
<1>5. ASSUME NEW r \in Runs, Control(r) PROVE ObjectsInv'
  <2>1. UNCHANGED <<releases, root, dispatch, committed>>
    BY <1>5, ControlFrame DEF upstream, operator
  <2>2. \A q \in Runs, p \in Packages : task'[q][p] \in {task[q][p], WaitingTask}
    BY <1>a, <1>5, ControlMoves
  <2> QED
    BY <1>0, <1>1, <1>2, <2>1, <2>2 DEF ObjectsInv
<1>6. ASSUME NEW r \in Runs, NEW p \in Packages, CopyStep(r, p) PROVE ObjectsInv'
  <2>1. UNCHANGED <<releases, root, dispatch, committed>>
    BY <1>6, CopyFrame DEF upstream, tree, operator
  <2>2. PICK job \in TaskStates : /\ SetTask(r, p, job) /\ job.pc \notin ObjectsWritten
                                 /\ job.base \in {task[r][p].base, LocalRoot(p)}
    BY <1>6, CopyMoves
  <2>3. \A q \in Runs, s \in Packages :
           task'[q][s] = IF q = r /\ s = p THEN job ELSE task[q][s]
    BY <1>a, <2>2, TaskUpdate
  <2>4. NamesOnly(LocalRoot(p), dispatch[p])
    BY <1>0 DEF LocalRoot, NamesOnly
  <2>5. JobObjectsServed(job, releases[p], dispatch[p])
    BY <1>0, <2>2, <2>4 DEF JobObjectsServed, ObjectsWritten
  <2> QED
    BY <1>0, <1>1, <2>1, <2>3, <2>5 DEF ObjectsInv
<1>7. ASSUME NEW r \in Runs, NEW p \in Packages, WriteStep(r, p) PROVE ObjectsInv'
  <2>1. UNCHANGED <<releases, committed>> /\ \A q \in Packages : dispatch[q] \subseteq dispatch'[q]
    BY <1>7, WriteFrame, DispatchGrows DEF upstream
  <2>2. PICK job \in TaskStates :
           /\ SetTask(r, p, job)
           /\ job.base = task[r][p].base /\ job.src = task[r][p].src
           /\ job.confirmed = task[r][p].confirmed
           /\ job.pc \in ObjectsWritten =>
                task[r][p].pc \in ObjectsWritten \/ WriteDispatchObjects(r, p)
    BY <1>7, WriteMoves
  <2>3. \A q \in Runs, s \in Packages :
           task'[q][s] = IF q = r /\ s = p THEN job ELSE task[q][s]
    BY <1>a, <2>2, TaskUpdate
  <2>4. ASSUME NEW q \in Runs, NEW s \in Packages
        PROVE  JobObjectsServed(task[q][s], releases[s], dispatch'[s])
    BY <1>0, <2>1, NamesMore DEF JobObjectsServed
  <2>5. WriteDispatchObjects(r, p) =>
           \A t \in job.confirmed : releases[p][job.src].tags[t] \in dispatch'[p]
    BY <1>7, <2>2, DispatchGrows DEF Gathered, Source
  <2>6. JobObjectsServed(job, releases[p], dispatch'[p])
    BY <2>2, <2>4, <2>5 DEF JobObjectsServed, ObjectsWritten
  <2>7. \A q \in Packages : NamesOnly(root'[q], dispatch'[q])
    <3>1. CASE WriteRoot(r, p)
      <4>1. task[r][p].pc = "root"
        BY <3>1 DEF WriteRoot, At
      <4>2. /\ Source(r, p) \in Roots /\ task[r][p].base \in Roots \cup {None}
            /\ task[r][p].confirmed \in SUBSET Tags
        BY <4>1, SourceType DEF TaskStates
      <4>3. /\ NamesOnly(task[r][p].base, dispatch'[p])
            /\ \A t \in task[r][p].confirmed : Source(r, p).tags[t] \in dispatch'[p]
        BY <2>4, <4>1 DEF JobObjectsServed, Source
      <4>4. NamesOnly(MergeTags(Source(r, p), task[r][p].base, task[r][p].confirmed), dispatch'[p])
        BY <4>2, <4>3, MergeNames
      <4>5. \A q \in Packages : root'[q] = IF q = p
               THEN MergeTags(Source(r, p), task[r][p].base, task[r][p].confirmed) ELSE root[q]
        BY <1>a, <3>1 DEF WriteRoot, Catalogs
      <4> QED
        BY <1>0, <2>1, <4>4, <4>5, NamesMore
    <3>2. CASE root' = root
      BY <1>0, <2>1, <3>2, NamesMore
    <3>3. root' = root \/ WriteRoot(r, p)
      BY <1>7 DEF WriteStep, WriteDispatchObjects, RefuseDispatchObject, WriteDescriptionObjects,
         BeginTransaction, CommitCatalog, PruneDescriptionObjects, WriteConfigJson, tree
    <3> QED
      BY <3>1, <3>2, <3>3
  <2> QED
    BY <1>0, <1>1, <2>1, <2>3, <2>4, <2>6, <2>7 DEF ObjectsInv
<1> QED
  BY <1>3, <1>4, <1>5, <1>6, <1>7, StepKinds

\* At every instant a mirrored root names only tags whose dispatch object is on
\* disk, however runs interleave, crash, refuse a document or find the tree put
\* back (index_write.rs: dispatch objects are written before the root).
THEOREM ObjectsServed == Spec => []DispatchObjectsServed
<1>1. Init => TypeInv /\ ObjectsInv
  BY InitTypes, ObjectsInit
<1>2. TypeInv /\ ObjectsInv /\ [Next]_vars => (TypeInv /\ ObjectsInv)'
  BY TypeStep, ObjectsStep
<1>3. ObjectsInv => DispatchObjectsServed
  BY DEF ObjectsInv, DispatchObjectsServed
<1> QED
  BY <1>1, <1>2, <1>3, PTL DEF Spec

-----------------------------------------------------------------------------
(* One run at a time, over a tree that nothing else takes roots from, is an    *)
(* append-only mirror.  The root a task merges into was read before the copy;  *)
(* with no other writer it is still the one on disk.                          *)

OneRun == \A q, r \in Runs : q = r
TreeKept == "checkout" \notin OperatorActs /\ "delete" \notin OperatorActs

Merging == {"tags", "objects", "readme", "begin", "root"}

BaseCurrent ==
    \A r \in Runs, p \in Packages : task[r][p].pc \in Merging => task[r][p].base = root[p]

LEMMA BaseInit == Init => BaseCurrent
  BY DEF Init, BaseCurrent, WaitingTask, Merging

\* Only a merge replaces a root.
LEMMA RootsStay ==
  ASSUME TypeInv, [Next]_vars, TreeKept
  PROVE  root' = root \/ \E r \in Runs, p \in Packages : WriteRoot(r, p)
<1>1. CASE Interference
  BY <1>1 DEF Interference, CommitTree, CheckoutTree, LoseRecord, DeleteRoot, DamageRoot,
     EditFilters, Operator, TreeKept, tree
<1>2. ASSUME NEW r \in Runs, NEW p \in Packages, WriteStep(r, p)
      PROVE  root' = root \/ WriteRoot(r, p)
  BY <1>2 DEF WriteStep, WriteDispatchObjects, RefuseDispatchObject, WriteDescriptionObjects,
     BeginTransaction, CommitCatalog, PruneDescriptionObjects, WriteConfigJson, tree
<1>3. ASSUME Publisher \/ (\E r \in Runs : Control(r)) \/ UNCHANGED vars
             \/ \E r \in Runs, p \in Packages : CopyStep(r, p)
      PROVE  root' = root
  BY <1>3, PublisherFrame, ControlFrame, CopyFrame DEF vars, tree
<1> QED
  BY <1>1, <1>2, <1>3, StepKinds

\* A task that is to merge has just read its base, or had it and writes no root.
LEMMA BaseMoves ==
  ASSUME TypeInv, NEW r \in Runs, NEW p \in Packages, CopyStep(r, p) \/ WriteStep(r, p),
         task'[r][p].pc \in Merging
  PROVE  \/ task'[r][p].base = root[p] /\ root' = root
         \/ /\ task[r][p].pc \in Merging /\ task'[r][p].base = task[r][p].base
            /\ ~WriteRoot(r, p)
<1> DEFINE old == task[r][p]
<1>0. old \in TaskStates /\ task \in [Runs -> [Packages -> TaskStates]]
  BY JobType DEF TypeInv, TypeOK, RunTypes
<1>1. ASSUME NEW job, SetTask(r, p, job)
      PROVE  task'[r][p] = job
  BY <1>0, <1>1 DEF SetTask
<1>2. ASSUME NEW failed, Settle(r, p, failed)
      PROVE  FALSE
  <2>1. task'[r][p].pc = "done"
    BY <1>0, <1>1, <1>2 DEF Settle, TaskStates
  <2> QED
    BY <2>1 DEF Merging
<1>3. ASSUME NEW pc, Advance(r, p, pc)
      PROVE  task'[r][p].pc = pc /\ task'[r][p].base = old.base
  BY <1>0, <1>1, <1>3 DEF Advance, TaskStates
<1>4. CASE BeginCopy(r, p)
  <2>1. task'[r][p].base = LocalRoot(p) /\ p \notin damaged
    BY <1>0, <1>1, <1>4 DEF BeginCopy, TaskStates, Unreadable
  <2>2. root' = root
    BY <1>4 DEF BeginCopy, tree
  <2> QED
    BY <2>1, <2>2 DEF LocalRoot
<1>5. CASE FetchRoot(r, p)
  <2>1. task'[r][p].pc = "fetched"
    BY <1>0, <1>1, <1>5 DEF FetchRoot, TaskStates
  <2> QED
    BY <2>1 DEF Merging
<1>6. CASE Skip(r, p) \/ FailUnread(r, p) \/ FailBeforeCopy(r, p) \/ Measure(r, p)
           \/ RefuseDispatchObject(r, p) \/ WriteConfigJson(r, p)
  BY <1>2, <1>6 DEF Skip, FailUnread, FailBeforeCopy, Measure, RefuseDispatchObject, WriteConfigJson
<1>7. ASSUME NEW t \in Tags, CopyTag(r, p, t) \/ FailTag(r, p, t)
      PROVE  old.pc \in Merging /\ task'[r][p].base = old.base /\ ~WriteRoot(r, p)
  <2>1. old.pc = "tags"
    BY <1>7 DEF CopyTag, FailTag, At
  <2>2. CASE CopyTag(r, p, t)
    <3> DEFINE job == [old EXCEPT !.todo = @ \ {t}, !.confirmed = @ \cup {t}]
    <3>1. job.base = old.base
      BY <1>0 DEF TaskStates
    <3>2. SetTask(r, p, job)
      BY <2>2 DEF CopyTag
    <3> HIDE DEF job
    <3>3. task'[r][p] = job
      BY <1>1, <3>2
    <3> QED
      BY <2>1, <3>1, <3>3 DEF Merging, WriteRoot, At
  <2>3. CASE FailTag(r, p, t)
    <3> DEFINE job == RecordTag(old, t)
    <3>1. job.base = old.base
      BY <1>0 DEF TaskStates, RecordTag
    <3>2. SetTask(r, p, job)
      BY <2>3 DEF FailTag
    <3> HIDE DEF job
    <3>3. task'[r][p] = job
      BY <1>1, <3>2
    <3> QED
      BY <2>1, <3>1, <3>3 DEF Merging, WriteRoot, At
  <2> QED
    BY <1>7, <2>1, <2>2, <2>3 DEF WriteRoot, At, Merging
<1>8. CASE CopyDescription(r, p) \/ FailDescription(r, p)
  <2>1. old.pc = "tags"
    BY <1>8 DEF CopyDescription, FailDescription, At
  <2>2. Advance(r, p, "objects") \/ SetTask(r, p, [old EXCEPT !.pc = "objects", !.failed = TRUE])
    BY <1>2, <1>8 DEF CopyDescription, FailDescription
  <2>3. task'[r][p].base = old.base
    BY <1>0, <1>1, <1>3, <2>2 DEF TaskStates
  <2> QED
    BY <2>1, <2>3 DEF Merging, WriteRoot, At
<1>9. CASE WriteDispatchObjects(r, p) \/ WriteDescriptionObjects(r, p) \/ BeginTransaction(r, p)
  <2>1. old.pc \in {"objects", "readme", "begin"}
    BY <1>9 DEF WriteDispatchObjects, WriteDescriptionObjects, BeginTransaction, At
  <2>2. \E pc \in TaskPhases : Advance(r, p, pc)
    BY <1>9 DEF WriteDispatchObjects, WriteDescriptionObjects, BeginTransaction, TaskPhases
  <2>3. task'[r][p].base = old.base
    BY <1>3, <2>2
  <2> QED
    BY <2>1, <2>3 DEF Merging, WriteRoot, At
<1>10. CASE WriteRoot(r, p) \/ CommitCatalog(r, p) \/ PruneDescriptionObjects(r, p)
  <2>1. \E pc \in {"commit", "prune", "config"} : Advance(r, p, pc)
    BY <1>10 DEF WriteRoot, CommitCatalog, PruneDescriptionObjects
  <2> QED
    BY <1>3, <2>1 DEF Merging
<1> QED
  BY <1>4, <1>5, <1>6, <1>7, <1>8, <1>9, <1>10 DEF CopyStep, WriteStep

LEMMA BaseStep ==
  ASSUME OneRun, TreeKept
  PROVE  TypeInv /\ BaseCurrent /\ [Next]_vars => BaseCurrent'
<1> SUFFICES ASSUME TypeInv, BaseCurrent, [Next]_vars, NEW r \in Runs, NEW p \in Packages,
                    task'[r][p].pc \in Merging
             PROVE  task'[r][p].base = root'[p]
  BY DEF BaseCurrent
<1>0. root \in Catalogs
  BY DEF TypeInv, TypeOK, TreeTypes, TreeNow, Trees
<1>1. task'[r][p] # WaitingTask
  BY DEF WaitingTask, Merging
<1>2. root'[p] = root[p] \/ WriteRoot(r, p)
  <2>1. ASSUME NEW q \in Runs, NEW s \in Packages, WriteRoot(q, s), s # p
        PROVE  root'[p] = root[p]
    BY <1>0, <2>1 DEF WriteRoot, Catalogs
  <2>2. ASSUME NEW q \in Runs, WriteRoot(q, p)
        PROVE  WriteRoot(r, p)
    BY <2>2 DEF OneRun
  <2> QED
    BY <2>1, <2>2, RootsStay
<1>3. CASE CopyStep(r, p) \/ WriteStep(r, p)
  BY <1>2, <1>3, BaseMoves DEF BaseCurrent
<1>4. CASE ~CopyStep(r, p) /\ ~WriteStep(r, p)
  <2>1. task'[r][p] = task[r][p]
    BY <1>1, <1>4, OtherTasks
  <2>2. ~WriteRoot(r, p)
    BY <1>4 DEF WriteStep
  <2> QED
    BY <1>2, <2>1, <2>2 DEF BaseCurrent
<1> QED
  BY <1>3, <1>4

\* A content that comes to the registry, if one does, is one of a package.
LEMMA StoreStep ==
  ASSUME TypeInv, [Next]_vars
  PROVE  \/ held' = held
         \/ /\ root' = root
            /\ \E p \in Packages, c \in Contents : held' = [held EXCEPT ![p] = @ \cup {c}]
<1>1. ASSUME NEW r \in Runs, NEW p \in Packages, NEW t \in Tags, CopyTag(r, p, t) \/ FailTag(r, p, t)
      PROVE  held' = held
             \/ \E c \in Contents : held' = [held EXCEPT ![p] = @ \cup {c}]
  <2> DEFINE c == Source(r, p).tags[t]
  <2>1. c \in Contents
    <3>1. /\ task[r][p] \in TaskStates /\ JobOK(task[r][p], releases[p])
          /\ releases[p] \in Seq(Roots) /\ Len(releases[p]) \in Nat
      BY JobType
    <3>2. t \in task[r][p].todo
      BY <1>1 DEF CopyTag, FailTag
    <3>3. task[r][p].src \in 1..Len(releases[p])
      BY <3>1, <3>2 DEF JobOK
    <3>4. Source(r, p) \in Roots /\ t \in TagsOf(Source(r, p))
      BY <3>1, <3>2, <3>3, ElementOfSeq DEF JobOK, Source
    <3> QED
      BY <3>4 DEF Roots, TagMap, TagsOf
  <2>2. held' = [held EXCEPT ![p] = @ \cup {c}]
        \/ \E got \in SUBSET {c} : held' = [held EXCEPT ![p] = @ \cup got]
    BY <1>1 DEF CopyTag, FailTag
  <2>3. held \in [Packages -> SUBSET Contents]
    BY DEF TypeInv, TypeOK, DestinationTypes
  <2> HIDE DEF c
  <2>4. ASSUME NEW got \in SUBSET {c}, held' = [held EXCEPT ![p] = @ \cup got]
        PROVE  held' = held \/ held' = [held EXCEPT ![p] = @ \cup {c}]
    <3>1. got = {} \/ got = {c}
      OBVIOUS
    <3> QED
      BY <2>3, <2>4, <3>1
  <2> QED
    BY <2>1, <2>2, <2>4
<1>2. ASSUME NEW r \in Runs, NEW p \in Packages, CopyStep(r, p)
      PROVE  /\ root' = root
             /\ held' = held \/ \E c \in Contents : held' = [held EXCEPT ![p] = @ \cup {c}]
  <2>1. root' = root
    BY <1>2, CopyFrame DEF tree
  <2>2. held' = held \/ \E t \in Tags : CopyTag(r, p, t) \/ FailTag(r, p, t)
    BY <1>2 DEF CopyStep, FetchRoot, Skip, FailUnread, FailBeforeCopy, Measure, BeginCopy,
       CopyDescription, FailDescription, destination
  <2> QED
    BY <2>1, <2>2, <1>1
<1>3. ASSUME Publisher \/ Interference \/ (\E r \in Runs : Control(r)) \/ UNCHANGED vars
             \/ \E r \in Runs, p \in Packages : WriteStep(r, p)
      PROVE  held' = held
  BY <1>3, PublisherFrame, OperatorFrame, ControlFrame, WriteFrame DEF vars, destination
<1> QED
  BY <1>2, <1>3, StepKinds

\* A merge keeps the tags of the root on disk and names held contents only.
LEMMA PublishStep ==
  ASSUME TypeInv, ContentInv, ContentInv', BaseCurrent, NEW r \in Runs, NEW p \in Packages,
         WriteRoot(r, p)
  PROVE  \E tags \in [Tags -> Contents \cup {None}] : AppendOnly!Publish(p, tags)
<1> DEFINE job == task[r][p]
           merged == MergeTags(Source(r, p), job.base, job.confirmed)
<1>1. /\ job \in TaskStates /\ JobOK(job, releases[p]) /\ job.pc = "root" /\ job.base = root[p]
      /\ releases[p] \in Seq(Roots) /\ Len(releases[p]) \in Nat
  BY JobType DEF WriteRoot, At, BaseCurrent, Merging
<1>2. root \in Catalogs /\ root' = [root EXCEPT ![p] = merged] /\ held' = held
  BY DEF WriteRoot, destination, TypeInv, TypeOK, TreeTypes, TreeNow, Trees
<1>3. Source(r, p) \in Roots
  <2>1. job.src \in 1..Len(releases[p])
    BY <1>1 DEF JobOK
  <2> QED
    BY <1>1, <2>1, ElementOfSeq DEF Source
<1>4. merged \in Roots
  BY <1>1, <1>3, MergeType DEF TaskStates
<1>5. \A t \in Tags : merged.tags[t] = IF t \in job.confirmed THEN Source(r, p).tags[t]
                                       ELSE IF root[p] = None THEN None ELSE root[p].tags[t]
  BY <1>1, <1>3 DEF MergeTags, Roots, TagMap
<1>6. \A t \in job.confirmed : Source(r, p).tags[t] # None
  BY <1>1 DEF JobOK, Source, TagsOf
<1> HIDE DEF merged
<1>7. merged # None /\ merged.tags \in [Tags -> Contents \cup {None}]
  BY <1>4, NoneAssumption DEF Roots, TagMap
<1>8. \A t \in Tags : merged.tags[t] # None => merged.tags[t] \in held[p]
  <2>1. NamesOnly(root'[p], held'[p]) /\ root'[p] = merged
    BY <1>2 DEF ContentInv, Catalogs
  <2> QED
    BY <2>1, <1>2, <1>7 DEF NamesOnly, TagsOf
<1>9. \A t \in Tags : PublishedTags[p][t] # None => merged.tags[t] # None
  <2>1. PublishedTags[p] = IF root[p] = None THEN NoTags ELSE root[p].tags
    BY DEF PublishedTags
  <2> QED
    BY <2>1, <1>5, <1>6 DEF NoTags
<1>10. PublishedTags' = [PublishedTags EXCEPT ![p] = merged.tags]
  BY <1>2, <1>7 DEF PublishedTags, Catalogs
<1>11. AppendOnly!Publish(p, merged.tags)
  BY <1>2, <1>8, <1>9, <1>10 DEF AppendOnly!Publish, AppendOnly!Published
<1> QED
  BY <1>7, <1>11

LEMMA MirrorInit == Init => AppendOnly!Init
  BY DEF Init, AppendOnly!Init, PublishedTags, NothingListed, NoTags

LEMMA MirrorStep ==
  ASSUME TreeKept
  PROVE  TypeInv /\ ContentInv /\ ContentInv' /\ BaseCurrent /\ [Next]_vars
            => [AppendOnly!Next]_<<held, PublishedTags>>
<1> SUFFICES ASSUME TypeInv, ContentInv, ContentInv', BaseCurrent, [Next]_vars
             PROVE  [AppendOnly!Next]_<<held, PublishedTags>>
  OBVIOUS
<1>1. root' = root => PublishedTags' = PublishedTags
  BY DEF PublishedTags
<1>2. ASSUME NEW r \in Runs, NEW p \in Packages, WriteRoot(r, p)
      PROVE  AppendOnly!Next
  BY <1>2, PublishStep DEF AppendOnly!Next
<1>3. ASSUME root' = root, NEW p \in Packages, NEW c \in Contents,
             held' = [held EXCEPT ![p] = @ \cup {c}]
      PROVE  AppendOnly!Next
  <2>1. AppendOnly!Store(p, c)
    BY <1>1, <1>3 DEF AppendOnly!Store
  <2> QED
    BY <2>1 DEF AppendOnly!Next
<1> QED
  BY <1>1, <1>2, <1>3, RootsStay, StoreStep

\* With one run at a time, and nothing else that takes roots from the tree, what the
\* index serves is an append-only mirror of what the registry holds: each step of
\* `registry sync` stores one content, replaces one package's document by one that
\* keeps its tags and names stored contents only, or is invisible to the fleet.
THEOREM MirrorRefined ==
  ASSUME OneRun, TreeKept
  PROVE  Spec => IsAppendOnlyMirror
<1>1. Init => TypeInv /\ ContentInv /\ BaseCurrent
  BY InitTypes, ContentInit, BaseInit
<1>2. TypeInv /\ ContentInv /\ BaseCurrent /\ [Next]_vars => (TypeInv /\ ContentInv /\ BaseCurrent)'
  BY TypeStep, ContentStep, BaseStep
<1>3. TypeInv /\ ContentInv /\ ContentInv' /\ BaseCurrent /\ [Next]_vars
         => [AppendOnly!Next]_<<held, PublishedTags>>
  BY MirrorStep
<1> QED
  BY <1>1, <1>2, <1>3, MirrorInit, PTL DEF Spec, IsAppendOnlyMirror, AppendOnly!Spec

-----------------------------------------------------------------------------
(* Where the fields of a mirrored root come from, and in which order.         *)

\* No document is served twice.
ReleasesDistinct ==
    \A p \in Packages : \A i, j \in 1..Len(releases[p]) :
        releases[p][i] = releases[p][j] => i = j

\* Each field of the document is that of one of the first n releases.
DrawnFrom(doc, history, n) ==
    /\ \E i \in 1..n : history[i].desc = doc.desc
    /\ \A t \in TagsOf(doc) : \E i \in 1..n : history[i].tags[t] = doc.tags[t]

Underway == Merging \cup {"fetched", "commit", "prune", "config"}

\* A mirrored root is made of what was released, none of it after what its task has read.
OriginInv ==
    \A p \in Packages : root[p] # None =>
        /\ DrawnFrom(root[p], releases[p], Len(releases[p]))
        /\ \A r \in Runs : task[r][p].pc \in Underway =>
             DrawnFrom(root[p], releases[p], task[r][p].src)

TagAt(history, t, c) == {i \in 1..Len(history) : history[i].tags[t] = c}
DescAt(history, d) == {i \in 1..Len(history) : history[i].desc = d}
Before(A, B) == \E i \in A, j \in B : i < j

\* The publisher's history may lead from the one document to the other, field by field.
NotLater(old, new, history) ==
    old # None =>
      /\ new # None
      /\ old.desc = new.desc \/ Before(DescAt(history, old.desc), DescAt(history, new.desc))
      /\ \A t \in TagsOf(old) :
           /\ new.tags[t] # None
           /\ \/ old.tags[t] = new.tags[t]
              \/ Before(TagAt(history, t, old.tags[t]), TagAt(history, t, new.tags[t]))

AllNotLater(old, new) == \A p \in Packages : NotLater(old[p], new[p], releases[p])

\* Recorded, then found, then listed, then on disk.
OrderInv ==
    NothingTakenBack =>
      /\ AllNotLater(catalog, root)
      /\ record # None => AllNotLater(record.mirrored, catalog)
      /\ \A r \in Runs : run[r].pc = "copy" =>
           /\ AllNotLater(run[r].local, catalog)
           /\ record # None => AllNotLater(record.mirrored, run[r].local)

LEMMA NoneApart ==
  ASSUME NEW doc \in Roots
  PROVE  /\ doc # None /\ doc.desc \in Descs /\ doc.tags \in [Tags -> Contents \cup {None}]
         /\ \A t \in TagsOf(doc) : doc.tags[t] \in Contents
         /\ \A t \in Tags : t \in TagsOf(doc) <=> doc.tags[t] # None
  BY NoneAssumption DEF Roots, TagMap, TagsOf

\* What the history has left for something else does not come back.
Straight(history) ==
    \A i, j, k \in 1..Len(history) : i < j /\ j < k =>
        /\ history[i].desc = history[k].desc => history[j].desc = history[k].desc
        /\ \A t \in TagsOf(history[i]) \cap TagsOf(history[j]) \cap TagsOf(history[k]) :
             history[i].tags[t] = history[k].tags[t] => history[j].tags[t] = history[k].tags[t]

LEMMA StraightReleases ==
  TypeInv /\ NothingTakenBack => \A p \in Packages : Straight(releases[p])
<1> SUFFICES ASSUME TypeInv, NEW p \in Packages, ~TookBack(p) PROVE Straight(releases[p])
  BY DEF NothingTakenBack
<1>1. DOMAIN releases[p] = 1..Len(releases[p])
  BY DEF TypeInv, TypeOK, UpstreamTypes
<1> QED
  BY <1>1 DEF TookBack, Straight

LEMMA StraightNext == (TypeInv /\ NothingTakenBack => \A p \in Packages : Straight(releases[p]))'
  BY StraightReleases, PTL

\* Places in a history at which two different things are named, neither of them again once
\* it has been left for the other.
Apart(A, B) ==
    /\ A \subseteq Nat /\ B \subseteq Nat /\ A \cap B = {}
    /\ \A i, k \in A, j \in B : ~(i < j /\ j < k)
    /\ \A i, k \in B, j \in A : ~(i < j /\ j < k)

LEMMA BeforeTransitive ==
  ASSUME NEW A, NEW B, NEW C, Before(A, B), Before(B, C), A \subseteq Nat, Apart(B, C)
  PROVE  Before(A, C)
<1> USE DEF Apart
<1>1. PICK i \in A, j \in B : i < j
  BY DEF Before
<1>2. PICK k \in B, l \in C : k < l
  BY DEF Before
<1>3. i < l
  BY <1>1, <1>2
<1>. QED
  BY <1>3 DEF Before

LEMMA BeforeAntisymmetric ==
  ASSUME NEW A, NEW B, Before(A, B), Before(B, A), Apart(A, B)
  PROVE  FALSE
<1> USE DEF Apart
<1>1. PICK i \in A, j \in B : i < j
  BY DEF Before
<1>2. PICK k \in B, l \in A : k < l
  BY DEF Before
<1>3. CASE j < l
  BY <1>1, <1>3
<1>4. CASE l < j
  BY <1>2, <1>4
<1>. QED
  BY <1>3, <1>4

LEMMA TagPlaces ==
  ASSUME NEW history \in Seq(Roots), Straight(history), NEW t \in Tags,
         NEW c \in Contents, NEW d \in Contents, c # d
  PROVE  Apart(TagAt(history, t, c), TagAt(history, t, d))
<1>1. \A i \in 1..Len(history) :
        i \in TagAt(history, t, c) \cup TagAt(history, t, d) => t \in TagsOf(history[i])
  BY NoneAssumption DEF TagAt, TagsOf
<1>2. \A i, k \in TagAt(history, t, c), j \in TagAt(history, t, d) : ~(i < j /\ j < k)
  BY <1>1 DEF TagAt, Straight
<1>3. \A i, k \in TagAt(history, t, d), j \in TagAt(history, t, c) : ~(i < j /\ j < k)
  BY <1>1 DEF TagAt, Straight
<1> QED
  BY <1>2, <1>3 DEF TagAt, Apart

LEMMA DescPlaces ==
  ASSUME NEW history \in Seq(Roots), Straight(history), NEW c, NEW d, c # d
  PROVE  Apart(DescAt(history, c), DescAt(history, d))
<1>1. \A i, k \in DescAt(history, c), j \in DescAt(history, d) : ~(i < j /\ j < k)
  BY DEF DescAt, Straight
<1>2. \A i, k \in DescAt(history, d), j \in DescAt(history, c) : ~(i < j /\ j < k)
  BY DEF DescAt, Straight
<1> QED
  BY <1>1, <1>2 DEF DescAt, Apart

LEMMA NotLaterReflexive ==
  ASSUME NEW doc, NEW history
  PROVE  NotLater(doc, doc, history)
  BY DEF NotLater, TagsOf

\* While nothing is taken back, the order is one.
LEMMA NotLaterTransitive ==
  ASSUME NEW history \in Seq(Roots), Straight(history),
         NEW a \in Roots \cup {None}, NEW b \in Roots \cup {None}, NEW c \in Roots \cup {None},
         NotLater(a, b, history), NotLater(b, c, history)
  PROVE  NotLater(a, c, history)
<1> SUFFICES ASSUME a # None PROVE NotLater(a, c, history)
  BY DEF NotLater
<1>1. a \in Roots /\ b \in Roots /\ c \in Roots /\ c # None
  BY DEF NotLater
<1>2. a.desc = c.desc \/ Before(DescAt(history, a.desc), DescAt(history, c.desc))
  <2>1. CASE a.desc = b.desc \/ b.desc = c.desc
    BY <1>1, <2>1 DEF NotLater
  <2>2. CASE a.desc # b.desc /\ b.desc # c.desc
    <3>1. /\ Before(DescAt(history, a.desc), DescAt(history, b.desc))
          /\ Before(DescAt(history, b.desc), DescAt(history, c.desc))
      BY <1>1, <2>2 DEF NotLater
    <3>2. Apart(DescAt(history, b.desc), DescAt(history, c.desc))
      BY <2>2, DescPlaces
    <3>3. DescAt(history, a.desc) \subseteq Nat
      BY DEF DescAt
    <3>. QED
      BY <3>1, <3>2, <3>3, BeforeTransitive
  <2>. QED
    BY <2>1, <2>2
<1>3. ASSUME NEW t \in TagsOf(a)
      PROVE  /\ c.tags[t] # None
             /\ \/ a.tags[t] = c.tags[t]
                \/ Before(TagAt(history, t, a.tags[t]), TagAt(history, t, c.tags[t]))
  <2>1. t \in Tags /\ t \in TagsOf(b) /\ t \in TagsOf(c)
    BY <1>1, <1>3, NoneApart DEF NotLater, TagsOf
  <2>2. a.tags[t] \in Contents /\ b.tags[t] \in Contents /\ c.tags[t] \in Contents
    BY <1>1, <1>3, <2>1, NoneApart
  <2>3. CASE a.tags[t] = b.tags[t] \/ b.tags[t] = c.tags[t]
    BY <1>1, <1>3, <2>1, <2>3 DEF NotLater
  <2>4. CASE a.tags[t] # b.tags[t] /\ b.tags[t] # c.tags[t]
    <3>1. /\ Before(TagAt(history, t, a.tags[t]), TagAt(history, t, b.tags[t]))
          /\ Before(TagAt(history, t, b.tags[t]), TagAt(history, t, c.tags[t]))
      BY <1>1, <2>1, <2>4 DEF NotLater
    <3>2. TagAt(history, t, a.tags[t]) \subseteq Nat
      BY DEF TagAt
    <3>3. Apart(TagAt(history, t, b.tags[t]), TagAt(history, t, c.tags[t]))
      BY <2>1, <2>2, <2>4, TagPlaces
    <3>4. Before(TagAt(history, t, a.tags[t]), TagAt(history, t, c.tags[t]))
      BY <3>1, <3>2, <3>3, BeforeTransitive
    <3>. QED
      BY <2>2, <3>4, NoneAssumption
  <2>. QED
    BY <2>2, <2>3, <2>4, NoneAssumption
<1>. QED
  BY <1>1, <1>2, <1>3 DEF NotLater

LEMMA NotLaterAntisymmetric ==
  ASSUME NEW history \in Seq(Roots), Straight(history),
         NEW a \in Roots \cup {None}, NEW b \in Roots \cup {None},
         NotLater(a, b, history), NotLater(b, a, history)
  PROVE  a = b
<1>1. CASE a = None \/ b = None
  BY <1>1 DEF NotLater
<1>2. CASE a # None /\ b # None
  <2>0. a \in Roots /\ b \in Roots
    BY <1>2
  <2>1. a.desc = b.desc
    <3>1. SUFFICES ASSUME a.desc # b.desc PROVE FALSE
      OBVIOUS
    <3>2. /\ Before(DescAt(history, a.desc), DescAt(history, b.desc))
          /\ Before(DescAt(history, b.desc), DescAt(history, a.desc))
      BY <1>2, <3>1 DEF NotLater
    <3>3. Apart(DescAt(history, a.desc), DescAt(history, b.desc))
      BY <3>1, DescPlaces
    <3>. QED
      BY <3>2, <3>3, BeforeAntisymmetric
  <2>2. ASSUME NEW t \in Tags PROVE a.tags[t] = b.tags[t]
    <3>1. t \in TagsOf(a) <=> t \in TagsOf(b)
      BY <1>2, <2>0, NoneApart DEF NotLater
    <3>2. CASE t \notin TagsOf(a)
      BY <2>0, <3>1, <3>2, NoneApart
    <3>3. CASE t \in TagsOf(a) /\ a.tags[t] # b.tags[t]
      <4>1. /\ Before(TagAt(history, t, a.tags[t]), TagAt(history, t, b.tags[t]))
            /\ Before(TagAt(history, t, b.tags[t]), TagAt(history, t, a.tags[t]))
        BY <1>2, <3>1, <3>3 DEF NotLater
      <4>2. a.tags[t] \in Contents /\ b.tags[t] \in Contents
        BY <2>0, <3>1, <3>3, NoneApart
      <4>3. Apart(TagAt(history, t, a.tags[t]), TagAt(history, t, b.tags[t]))
        BY <3>3, <4>2, TagPlaces
      <4>. QED
        BY <4>1, <4>3, BeforeAntisymmetric
    <3>. QED
      BY <3>2, <3>3
  <2>3. a.tags = b.tags
    BY <2>0, <2>2, NoneApart
  <2>. QED
    BY <2>0, <2>1, <2>3 DEF Roots
<1>. QED
  BY <1>1, <1>2

\* The recorded source catalog is one the listing showed before this one.
SourceBy(cat) ==
    \A p \in Packages : record.source[p] # None =>
        \E k \in 1..cat[p] : releases[p][k] = record.source[p]

\* What a run has read: no catalog ahead of the listing, the record of now, and a short
\* circuit that was not due.
ReadsInv ==
    /\ record # None => SourceBy(listed)
    /\ \A p \in Packages : catalog[p] # None \/ root[p] # None => p \in included
    /\ \A r \in Runs :
         /\ run[r].pc \in {"record", "plan", "copy"} =>
              /\ \A p \in Packages : run[r].cat[p] <= listed[p]
              /\ record # None => SourceBy(run[r].cat)
         /\ run[r].pc \in {"plan", "copy"} => run[r].read = record
         /\ run[r].pc = "copy" => ~ShortCircuit(run[r].cat, run[r].read, run[r].local, Work(r))
         /\ run[r].pc = "done" => \A p \in Packages : task[r][p].pc \in {"waiting", "done"}

\* `__ocx.desc` at the destination is that of the n-th release or of a later one.
Described(p, n) == \E j \in n..Len(releases[p]) : heldDesc[p] = releases[p][j].desc

\* The description a package's root names, and the one at the destination, which was read
\* no earlier.
Ahead(p, n) ==
    \E s \in 1..n : \E j \in s..n :
        root[p].desc = releases[p][s].desc /\ heldDesc[p] = releases[p][j].desc

\* The n-th release, or a later one, has been mirrored.
Brought(p, n) ==
    /\ \E i \in n..Len(releases[p]) : Covers(root[p], releases[p][i])
    /\ catalog[p] = root[p]
    /\ faults = 0 /\ NothingTakenBack => Described(p, n)

\* How far one package of a run has come.
JobMirrored(r, p) ==
    LET job == task[r][p] IN
    /\ job.pc # "waiting" => p \in Work(r) /\ run[r].cat[p] <= job.src
    /\ job.pc \in Merging \cup {"waiting", "fetched"} => catalog[p] = run[r].local[p]
    /\ job.pc = "fetched" => job.confirmed = {}
    /\ job.pc \in Merging =>
         job.failed \/ job.todo \cup job.confirmed = TagsOf(Source(r, p)) \ IllegalTags
    /\ job.pc \in Merging \ {"tags"} => job.todo = {}
    /\ job.pc \in {"commit", "prune", "config"} => job.failed \/ Covers(root[p], Source(r, p))
    /\ job.pc \in {"prune", "config"} => catalog[p] = root[p]
    /\ job.pc = "done" => run[r].failed \/ run[r].mode = "dry" \/ Brought(p, job.src)

JobsInv == \A r \in Runs : run[r].pc = "copy" => \A p \in Packages : JobMirrored(r, p)

\* The record is of this source catalog and of the tree as it is.
Fits(cat) ==
    /\ record # None /\ record.source = SourceCatalog(cat) /\ record.mirrored = catalog
    /\ \A p \in included : cat[p] # 0 => catalog[p] # None

\* All that the source catalog `cat` lists has been mirrored.
Mirrored(cat) == \A p \in included : cat[p] # 0 => Brought(p, cat[p])

\* The record fits no tree that lacks what it records, now or for a run that has read it.
RecordInv ==
    NothingTakenBack =>
      /\ Fits(listed) => Mirrored(listed)
      /\ \A r \in Runs : run[r].pc \in {"record", "plan"} /\ Fits(run[r].cat) => Mirrored(run[r].cat)
      /\ \A r \in Runs : Successful(r) => Mirrored(run[r].cat)

Writing == {"begin", "root", "commit", "prune", "config"}

\* The README and logo objects of one package, and what its task has left to do for them.
JobTidy(r, p) ==
    LET job == task[r][p] IN
    /\ job.pc \in {"begin", "root"} => Source(r, p).desc \in described[p]
    /\ job.pc \in {"commit", "prune", "config"} => root[p] # None /\ root[p].desc = Source(r, p).desc
    /\ faults = 0 =>
         /\ job.pc = "fetched" /\ root[p] # None => Ahead(p, job.src)
         /\ job.pc \in {"objects", "readme"} \cup Writing => Described(p, job.src)
         /\ job.pc = "config" => described[p] = {root[p].desc}

PackageTidy(p) ==
    root[p] # None =>
      /\ root[p].desc \in described[p]
      /\ faults = 0 =>
           /\ Ahead(p, Len(releases[p]))
           /\ (\A r \in Runs : task[r][p].pc \notin Writing) =>
                described[p] = {root[p].desc} /\ config

TidyInv == \A p \in Packages : PackageTidy(p) /\ \A r \in Runs : JobTidy(r, p)

-----------------------------------------------------------------------------
(* A longer history.                                                          *)

LEMMA HistoryStep ==
  ASSUME TypeInv, [Next]_vars, NEW p \in Packages
  PROVE  /\ releases[p] \in Seq(Roots) /\ releases'[p] \in Seq(Roots)
         /\ Len(releases[p]) \in Nat /\ Len(releases'[p]) \in Nat
         /\ Len(releases[p]) <= Len(releases'[p])
         /\ \A i \in 1..Len(releases[p]) : releases'[p][i] = releases[p][i]
  BY UpstreamStep DEF TypeInv, TypeOK, UpstreamTypes

LEMMA TakenBackStays == TypeInv /\ [Next]_vars /\ NothingTakenBack' => NothingTakenBack
<1> SUFFICES ASSUME TypeInv, [Next]_vars, NEW p \in Packages, TookBack(p) PROVE TookBack(p)'
  BY DEF NothingTakenBack
<1>1. /\ DOMAIN releases[p] = 1..Len(releases[p]) /\ DOMAIN releases'[p] = 1..Len(releases'[p])
      /\ \A i \in DOMAIN releases[p] : i \in DOMAIN releases'[p] /\ releases'[p][i] = releases[p][i]
  BY HistoryStep
<1>2. PICK i, j, k \in DOMAIN releases[p] :
        /\ i < j /\ j < k
        /\ \/ releases[p][i].desc = releases[p][k].desc /\ releases[p][j].desc # releases[p][k].desc
           \/ \E t \in TagsOf(releases[p][i]) \cap TagsOf(releases[p][j]) \cap TagsOf(releases[p][k]) :
                 /\ releases[p][i].tags[t] = releases[p][k].tags[t]
                 /\ releases[p][j].tags[t] # releases[p][k].tags[t]
  BY DEF TookBack
<1>3. /\ i \in DOMAIN releases'[p] /\ releases'[p][i] = releases[p][i]
      /\ j \in DOMAIN releases'[p] /\ releases'[p][j] = releases[p][j]
      /\ k \in DOMAIN releases'[p] /\ releases'[p][k] = releases[p][k]
  BY <1>1
<1> QED
  BY <1>2, <1>3 DEF TookBack

LEMMA NotLaterGrows ==
  ASSUME TypeInv, [Next]_vars, NEW p \in Packages, NEW a, NEW b, NotLater(a, b, releases[p])
  PROVE  NotLater(a, b, releases'[p])
<1>1. \A i \in 1..Len(releases[p]) : i \in 1..Len(releases'[p]) /\ releases'[p][i] = releases[p][i]
  BY HistoryStep
<1>2. \A d : DescAt(releases[p], d) \subseteq DescAt(releases'[p], d)
  BY <1>1 DEF DescAt
<1>3. \A t, c : TagAt(releases[p], t, c) \subseteq TagAt(releases'[p], t, c)
  BY <1>1 DEF TagAt
<1>4. \A A, B, C, D : A \subseteq C /\ B \subseteq D /\ Before(A, B) => Before(C, D)
  BY DEF Before
<1> QED
  BY <1>2, <1>3, <1>4 DEF NotLater

LEMMA DrawnGrows ==
  ASSUME TypeInv, [Next]_vars, NEW p \in Packages, NEW doc, NEW n \in 0..Len(releases[p]),
         DrawnFrom(doc, releases[p], n)
  PROVE  /\ \A m \in n..Len(releases'[p]) : DrawnFrom(doc, releases'[p], m)
         /\ DrawnFrom(doc, releases'[p], Len(releases'[p]))
<1>1. \A i \in 1..n : releases'[p][i] = releases[p][i]
  BY HistoryStep
<1>2. \A m \in n..Len(releases'[p]) : \A i \in 1..n : i \in 1..m
  BY HistoryStep
<1>3. Len(releases'[p]) \in n..Len(releases'[p])
  BY HistoryStep
<1> QED
  BY <1>1, <1>2, <1>3 DEF DrawnFrom

LEMMA DistinctStep ==
  ASSUME ~Reverts
  PROVE  TypeInv /\ ReleasesDistinct /\ [Next]_vars => ReleasesDistinct'
<1> SUFFICES ASSUME TypeInv, ReleasesDistinct, [Next]_vars PROVE ReleasesDistinct'
  OBVIOUS
<1>1. ASSUME NEW p \in Packages, NEW doc \in UpstreamRoots, PublishRoot(p, doc) PROVE ReleasesDistinct'
  <2>1. releases[p] \in Seq(Roots) /\ doc \in Roots /\ releases \in [Packages -> Seq(Roots)]
    BY UpstreamAssumption DEF TypeInv, TypeOK, UpstreamTypes
  <2>2. /\ Len(Append(releases[p], doc)) = Len(releases[p]) + 1
        /\ \A i \in 1..Len(releases[p]) : Append(releases[p], doc)[i] = releases[p][i]
        /\ Append(releases[p], doc)[Len(releases[p]) + 1] = doc
    BY <2>1
  <2>3. \A i \in 1..Len(releases[p]) : releases[p][i] # doc
    BY <1>1 DEF PublishRoot
  <2>4. releases' = [releases EXCEPT ![p] = Append(releases[p], doc)]
    BY <1>1 DEF PublishRoot
  <2>5. ASSUME NEW i \in 1..(Len(releases[p]) + 1), NEW j \in 1..(Len(releases[p]) + 1),
               Append(releases[p], doc)[i] = Append(releases[p], doc)[j]
        PROVE  i = j
    <3>1. Len(releases[p]) \in Nat
      BY <2>1
    <3>2. CASE i \in 1..Len(releases[p]) /\ j \in 1..Len(releases[p])
      BY <2>2, <2>5, <3>2 DEF ReleasesDistinct
    <3>3. CASE i = Len(releases[p]) + 1 /\ j \in 1..Len(releases[p])
      BY <2>2, <2>3, <2>5, <3>3
    <3>4. CASE j = Len(releases[p]) + 1 /\ i \in 1..Len(releases[p])
      BY <2>2, <2>3, <2>5, <3>4
    <3> QED
      BY <3>1, <3>2, <3>3, <3>4
  <2>6. /\ releases'[p] = Append(releases[p], doc)
        /\ \A q \in Packages \ {p} : releases'[q] = releases[q]
    BY <2>1, <2>4
  <2> QED
    BY <2>2, <2>5, <2>6 DEF ReleasesDistinct
<1>2. ASSUME UNCHANGED releases PROVE ReleasesDistinct'
  BY <1>2 DEF ReleasesDistinct
<1> QED
  BY <1>1, <1>2, StepKinds, OperatorFrame, ControlFrame, CopyFrame, WriteFrame
     DEF Publisher, ListRoot, vars, upstream

-----------------------------------------------------------------------------
(* What a step of one package leaves alone.                                   *)

LEMMA Settling ==
  ASSUME TypeInv, NEW r \in Runs, NEW p \in Packages, NEW failed \in BOOLEAN, Settle(r, p, failed)
  PROVE  /\ run'[r].pc = run[r].pc /\ run'[r].cat = run[r].cat /\ run'[r].mode = run[r].mode
         /\ run'[r].read = run[r].read /\ run'[r].local = run[r].local
         /\ run'[r].failed <=> run[r].failed \/ failed
         /\ task'[r][p].pc = "done" /\ task'[r][p].src = task[r][p].src
         /\ \A q \in Packages \ {p} : task'[r][q] = task[r][q]
<1>1. run[r] \in RunStates /\ run \in [Runs -> RunStates]
  BY JobType
<1>2. run'[r] = [run[r] EXCEPT !.failed = run[r].failed \/ failed]
  BY <1>1 DEF Settle, SetRun
<1>3. /\ run'[r].pc = run[r].pc /\ run'[r].cat = run[r].cat /\ run'[r].mode = run[r].mode
      /\ run'[r].read = run[r].read /\ run'[r].local = run[r].local
      /\ run'[r].failed <=> run[r].failed \/ failed
  BY <1>1, <1>2 DEF RunStates
<1>4. task[r][p] \in TaskStates /\ task \in [Runs -> [Packages -> TaskStates]]
  BY DEF TypeInv, TypeOK, RunTypes
<1>5. /\ task'[r][p] = [task[r][p] EXCEPT !.pc = "done", !.failed = failed]
      /\ \A q \in Packages \ {p} : task'[r][q] = task[r][q]
  BY <1>4 DEF Settle, SetTask
<1>6. task'[r][p].pc = "done" /\ task'[r][p].src = task[r][p].src
  BY <1>4, <1>5 DEF TaskStates
<1> QED
  BY <1>3, <1>5, <1>6

\* Every step of a package settles it or leaves its run alone.
LEMMA PackageKinds ==
  ASSUME TypeInv, NEW r \in Runs, NEW p \in Packages, CopyStep(r, p) \/ WriteStep(r, p)
  PROVE  /\ run[r].pc = "copy"
         /\ UNCHANGED run \/ \E failed \in BOOLEAN : Settle(r, p, failed)
<1>1. task[r][p].failed \in BOOLEAN
  BY JobType DEF TaskStates
<1>2. CASE CopyStep(r, p)
  BY <1>2 DEF CopyStep, FetchRoot, Skip, FailUnread, FailBeforeCopy, Measure, BeginCopy, CopyTag,
         FailTag, CopyDescription, FailDescription, At
<1>3. CASE WriteStep(r, p)
  BY <1>1, <1>3 DEF WriteStep, WriteDispatchObjects, RefuseDispatchObject, WriteDescriptionObjects,
         BeginTransaction, WriteRoot, CommitCatalog, PruneDescriptionObjects, WriteConfigJson, At
<1> QED
  BY <1>2, <1>3

LEMMA PackageDocuments ==
  ASSUME TypeInv, NEW r \in Runs, NEW p \in Packages, CopyStep(r, p) \/ WriteStep(r, p)
  PROVE  /\ UNCHANGED <<releases, listed, included, record>>
         /\ \A q \in Packages \ {p} :
              /\ root'[q] = root[q] /\ catalog'[q] = catalog[q]
              /\ described'[q] = described[q] /\ heldDesc'[q] = heldDesc[q]
         /\ config => config'
         /\ faults' = 0 => faults = 0
<1>1. /\ root \in Catalogs /\ catalog \in Catalogs /\ described \in [Packages -> SUBSET Descs]
      /\ heldDesc \in [Packages -> Descs \cup {None}] /\ faults \in Nat
  BY DEF TypeInv, TypeOK, TreeTypes, TreeNow, Trees, DestinationTypes, RunTypes
<1>2. CASE CopyStep(r, p)
  <2>1. heldDesc' = heldDesc \/ heldDesc' = [heldDesc EXCEPT ![p] = CarriedDescription(p)]
    BY <1>2 DEF CopyStep, FetchRoot, Skip, FailUnread, FailBeforeCopy, Measure, BeginCopy, CopyTag,
         FailTag, CopyDescription, FailDescription, destination
  <2>2. faults' = faults \/ faults' = faults + 1
    BY <1>2 DEF CopyStep, FetchRoot, Skip, FailUnread, FailBeforeCopy, Measure, BeginCopy, CopyTag,
         FailTag, CopyDescription, FailDescription, Failure
  <2> QED
    BY <1>1, <1>2, <2>1, <2>2, CopyFrame DEF upstream, tree, operator
<1>3. CASE WriteStep(r, p)
  <2>1. root' = root \/ \E doc : root' = [root EXCEPT ![p] = doc]
    BY <1>3 DEF WriteStep, WriteDispatchObjects, RefuseDispatchObject, WriteDescriptionObjects,
         BeginTransaction, WriteRoot, CommitCatalog, PruneDescriptionObjects, WriteConfigJson, tree
  <2>2. catalog' = catalog \/ catalog' = [catalog EXCEPT ![p] = root[p]]
    BY <1>3 DEF WriteStep, WriteDispatchObjects, RefuseDispatchObject, WriteDescriptionObjects,
         BeginTransaction, WriteRoot, CommitCatalog, PruneDescriptionObjects, WriteConfigJson, tree
  <2>3. described' = described \/ \E set : described' = [described EXCEPT ![p] = set]
    BY <1>3 DEF WriteStep, WriteDispatchObjects, RefuseDispatchObject, WriteDescriptionObjects,
         BeginTransaction, WriteRoot, CommitCatalog, PruneDescriptionObjects, WriteConfigJson, tree
  <2>4. config => config'
    BY <1>3 DEF WriteStep, WriteDispatchObjects, RefuseDispatchObject, WriteDescriptionObjects,
         BeginTransaction, WriteRoot, CommitCatalog, PruneDescriptionObjects, WriteConfigJson, tree
  <2> QED
    BY <1>1, <1>3, <2>1, <2>2, <2>3, <2>4, WriteFrame DEF upstream, destination, Catalogs
<1> QED
  BY <1>2, <1>3

LEMMA PackageFrame ==
  ASSUME TypeInv, NEW r \in Runs, NEW p \in Packages, CopyStep(r, p) \/ WriteStep(r, p)
  PROVE  /\ run[r].pc = "copy" /\ run'[r].pc = "copy"
         /\ run'[r].cat = run[r].cat /\ run'[r].mode = run[r].mode
         /\ run'[r].read = run[r].read /\ run'[r].local = run[r].local
         /\ run[r].failed => run'[r].failed
         /\ \A q \in Packages \ {p} : task'[r][q] = task[r][q]
<1>1. run[r].pc = "copy"
  BY PackageKinds
<1>2. CASE UNCHANGED run
  <2>1. PICK job \in TaskStates : SetTask(r, p, job)
    BY CopyMoves, WriteMoves
  <2>2. \A q \in Packages \ {p} : task'[r][q] = task[r][q]
    BY <2>1, TaskUpdate DEF TypeInv, TypeOK, RunTypes
  <2> QED
    BY <1>1, <1>2, <2>2
<1>3. ASSUME NEW failed \in BOOLEAN, Settle(r, p, failed)
      PROVE  /\ run'[r].pc = "copy"
             /\ run'[r].cat = run[r].cat /\ run'[r].mode = run[r].mode
             /\ run'[r].read = run[r].read /\ run'[r].local = run[r].local
             /\ run[r].failed => run'[r].failed
             /\ \A q \in Packages \ {p} : task'[r][q] = task[r][q]
  <2>1. /\ run'[r].pc = run[r].pc /\ run'[r].cat = run[r].cat /\ run'[r].mode = run[r].mode
        /\ run'[r].read = run[r].read /\ run'[r].local = run[r].local
        /\ run'[r].failed <=> run[r].failed \/ failed
        /\ \A q \in Packages \ {p} : task'[r][q] = task[r][q]
    BY <1>3, Settling, Zenon
  <2> QED
    BY <1>1, <2>1
<1> QED
  BY <1>1, <1>2, <1>3, PackageKinds

\* Other packages stay where they are.
LEMMA OtherPackages ==
  ASSUME OneRun, TypeInv, NEW r \in Runs, NEW p \in Packages, CopyStep(r, p) \/ WriteStep(r, p),
         NEW q \in Packages \ {p}
  PROVE  /\ JobMirrored(r, q) => JobMirrored(r, q)'
         /\ JobTidy(r, q) => JobTidy(r, q)'
         /\ PackageTidy(q) => PackageTidy(q)'
<1>1. /\ UNCHANGED <<releases, listed, included, record>>
      /\ root'[q] = root[q] /\ catalog'[q] = catalog[q]
      /\ described'[q] = described[q] /\ heldDesc'[q] = heldDesc[q]
      /\ config => config'
      /\ faults' = 0 => faults = 0
  BY PackageDocuments
<1>2. /\ run'[r].cat = run[r].cat /\ run'[r].mode = run[r].mode /\ run'[r].local = run[r].local
      /\ run[r].failed => run'[r].failed
      /\ task'[r][q] = task[r][q]
  BY PackageFrame
<1>3. Source(r, q)' = Source(r, q) /\ (q \in Work(r) <=> (q \in Work(r))')
  BY <1>1, <1>2 DEF Source, Work
<1>4. \A n : (Described(q, n) => Described(q, n)') /\ (Ahead(q, n) => Ahead(q, n)')
  BY <1>1 DEF Described, Ahead
<1>t. NothingTakenBack' <=> NothingTakenBack
  BY <1>1 DEF NothingTakenBack, TookBack
<1>5. \A n : Brought(q, n) => Brought(q, n)'
  BY <1>1, <1>4, <1>t DEF Brought
<1>6. JobMirrored(r, q) => JobMirrored(r, q)'
  BY <1>1, <1>2, <1>3, <1>5 DEF JobMirrored
<1>7. JobTidy(r, q) => JobTidy(r, q)'
  BY <1>1, <1>2, <1>3, <1>4 DEF JobTidy
<1>8. PackageTidy(q) => PackageTidy(q)'
  BY <1>1, <1>2, <1>4 DEF PackageTidy, OneRun
<1> QED
  BY <1>6, <1>7, <1>8

-----------------------------------------------------------------------------
(* A step of a package, for the package itself.                               *)

PackageInv(r, p) == JobMirrored(r, p) /\ JobTidy(r, p) /\ PackageTidy(p)

LEMMA JobSet ==
  ASSUME TypeInv, NEW r \in Runs, NEW p \in Packages, NEW job, SetTask(r, p, job)
  PROVE  task'[r][p] = job
  BY DEF SetTask, TypeInv, TypeOK, RunTypes

LEMMA Advancing ==
  ASSUME TypeInv, NEW r \in Runs, NEW p \in Packages, NEW pc, Advance(r, p, pc)
  PROVE  /\ task'[r][p].pc = pc /\ task'[r][p].src = task[r][p].src
         /\ task'[r][p].base = task[r][p].base /\ task'[r][p].todo = task[r][p].todo
         /\ task'[r][p].confirmed = task[r][p].confirmed
         /\ task'[r][p].failed = task[r][p].failed
<1>1. task[r][p] \in TaskStates
  BY JobType
<1>2. task'[r][p] = [task[r][p] EXCEPT !.pc = pc]
  BY JobSet DEF Advance
<1> QED
  BY <1>1, <1>2 DEF TaskStates

\* What is there of the package's documents stays tidy while its root and the objects
\* beside it do, and no task of it is just done writing.
LEMMA TidyStays ==
  ASSUME OneRun, TypeInv, NEW r \in Runs, NEW p \in Packages, CopyStep(r, p) \/ WriteStep(r, p),
         PackageTidy(p), root'[p] = root[p], described'[p] = described[p],
         heldDesc'[p] \in {heldDesc[p], CarriedDescription(p)},
         task[r][p].pc \notin Writing \/ task'[r][p].pc \in Writing
  PROVE  PackageTidy(p)'
<1>1. /\ releases' = releases /\ (config => config') /\ (faults' = 0 => faults = 0)
      /\ Len(releases[p]) \in Nat
  BY PackageDocuments, JobType
<1>2. Ahead(p, Len(releases[p])) => Ahead(p, Len(releases[p]))'
  <2>1. ASSUME NEW s \in 1..Len(releases[p]), NEW j \in s..Len(releases[p]),
               root[p].desc = releases[p][s].desc, heldDesc[p] = releases[p][j].desc
        PROVE  \E k \in s..Len(releases[p]) : heldDesc'[p] = releases[p][k].desc
    <3>1. Len(releases[p]) \in s..Len(releases[p])
      BY <1>1
    <3> QED
      BY <2>1, <3>1 DEF CarriedDescription
  <2> QED
    BY <1>1, <2>1 DEF Ahead
<1> QED
  BY <1>1, <1>2 DEF PackageTidy, OneRun

\* A package that failed asks nothing of the mirror.
LEMMA FailedJob ==
  ASSUME OneRun, TypeInv, NEW r \in Runs, NEW p \in Packages, CopyStep(r, p) \/ WriteStep(r, p),
         PackageInv(r, p), Settle(r, p, TRUE), task[r][p].pc \notin {"waiting"} \cup Writing,
         root' = root, described' = described, heldDesc'[p] \in {heldDesc[p], CarriedDescription(p)}
  PROVE  PackageInv(r, p)'
<1>1. task'[r][p].pc = "done" /\ task'[r][p].src = task[r][p].src /\ run'[r].failed
  BY Settling, TRUE \in BOOLEAN, Zenon
<1>2. /\ included' = included /\ run'[r].cat = run[r].cat
  BY PackageDocuments, PackageFrame
<1>3. JobMirrored(r, p)'
  BY <1>1, <1>2 DEF PackageInv, JobMirrored, Work, Merging
<1>4. JobTidy(r, p)'
  BY <1>1 DEF JobTidy, Writing
<1>5. PackageTidy(p)'
  BY TidyStays DEF PackageInv
<1> QED
  BY <1>3, <1>4, <1>5 DEF PackageInv

LEMMA FetchJob ==
  ASSUME OneRun, TypeInv, NEW r \in Runs, NEW p \in Packages, FetchRoot(r, p), PackageInv(r, p)
  PROVE  PackageInv(r, p)'
<1>0. CopyStep(r, p)
  BY DEF CopyStep
<1>1. /\ task[r][p].pc = "waiting" /\ p \in Work(r)
      /\ UNCHANGED <<releases, included, heldDesc, described, root, catalog, config, run, faults>>
  BY DEF FetchRoot, At, upstream, destination, tree, operator
<1>2. /\ task'[r][p].pc = "fetched" /\ task'[r][p].src = Len(releases[p])
      /\ task'[r][p].confirmed = task[r][p].confirmed
  <2>1. task'[r][p] = [task[r][p] EXCEPT !.pc = "fetched", !.src = Len(releases[p])]
    BY JobSet DEF FetchRoot
  <2> QED
    BY <2>1, JobType DEF TaskStates
<1>3. run[r].cat[p] <= Len(releases[p]) /\ task[r][p].confirmed = {}
  BY <1>1, JobType DEF TypeInv, IndicesOK, JobOK
<1>4. JobMirrored(r, p)'
  BY <1>1, <1>2, <1>3 DEF PackageInv, JobMirrored, Work, Merging
<1>5. JobTidy(r, p)'
  BY <1>1, <1>2 DEF PackageInv, PackageTidy, JobTidy, Writing, Ahead
<1>6. PackageTidy(p)'
  BY <1>0, <1>1, <1>2, TidyStays DEF PackageInv, Writing
<1> QED
  BY <1>4, <1>5, <1>6 DEF PackageInv

\* What a root names is no older than its description; unless something was taken back, a
\* root that names the description of the release it was fetched at has that one carried.
LEMMA CarriedAlready ==
  ASSUME TypeInv, NothingTakenBack, NEW p \in Packages, NEW n \in 1..Len(releases[p]),
         Ahead(p, n), root[p].desc = releases[p][n].desc
  PROVE  Described(p, n)
<1>0. PICK s \in 1..n : \E j \in s..n :
        root[p].desc = releases[p][s].desc /\ heldDesc[p] = releases[p][j].desc
  BY DEF Ahead
<1>1. PICK j \in s..n : root[p].desc = releases[p][s].desc /\ heldDesc[p] = releases[p][j].desc
  BY <1>0
<1>2. Len(releases[p]) \in Nat
  BY DEF TypeInv, TypeOK, UpstreamTypes
<1>3. releases[p][j].desc = releases[p][n].desc
  <2>1. SUFFICES ASSUME releases[p][j].desc # releases[p][n].desc PROVE FALSE
    OBVIOUS
  <2>a. s \in 1..Len(releases[p]) /\ j \in 1..Len(releases[p]) /\ s <= j /\ j <= n
    BY <1>1, <1>2
  <2>b. s # j /\ j # n
    BY <1>1, <2>1
  <2>2. s < j /\ j < n /\ Straight(releases[p])
    BY <1>1, <2>a, <2>b, StraightReleases
  <2>3. releases[p][s].desc = releases[p][n].desc
    BY <1>1
  <2> QED
    BY <2>1, <2>a, <2>2, <2>3 DEF Straight
<1> QED
  BY <1>1, <1>2, <1>3 DEF Described

LEMMA SkipJob ==
  ASSUME OneRun, TypeInv, NEW r \in Runs, NEW p \in Packages, Skip(r, p), PackageInv(r, p)
  PROVE  PackageInv(r, p)'
<1>0. CopyStep(r, p)
  BY DEF CopyStep
<1>1. /\ task[r][p].pc = "fetched" /\ root[p] # None /\ catalog[p] = root[p]
      /\ \A t \in TagsOf(Source(r, p)) : root[p].tags[t] = Source(r, p).tags[t]
      /\ Source(r, p).desc = root[p].desc
      /\ UNCHANGED <<releases, included, heldDesc, described, root, catalog, config, faults>>
  BY DEF Skip, At, upstream, destination, tree, operator, Unreadable, LocalRoot, ShouldSkip,
         PackageInv, JobMirrored
<1>2. /\ task'[r][p].pc = "done" /\ task'[r][p].src = task[r][p].src
      /\ run'[r].cat = run[r].cat
  BY Settling, FALSE \in BOOLEAN, Zenon DEF Skip
<1>3. task[r][p].src \in 1..Len(releases[p]) /\ Len(releases[p]) \in Nat
  BY <1>1, SourceType, JobType
<1>4. Covers(root[p], releases[p][task[r][p].src])
  BY <1>1 DEF Covers, Source
<1>5. faults = 0 /\ NothingTakenBack => Described(p, task[r][p].src)
  BY <1>1, <1>3, CarriedAlready DEF PackageInv, JobTidy, Source
<1>6. Brought(p, task[r][p].src)
  BY <1>1, <1>3, <1>4, <1>5 DEF Brought
<1>7. Brought(p, task[r][p].src)'
  BY <1>1, <1>2, <1>6 DEF Brought, Described, NothingTakenBack, TookBack
<1>8. JobMirrored(r, p)'
  BY <1>1, <1>2, <1>7 DEF PackageInv, JobMirrored, Work, Merging
<1>9. JobTidy(r, p)'
  BY <1>2 DEF JobTidy, Writing
<1>10. PackageTidy(p)'
  BY <1>0, <1>1, TidyStays DEF PackageInv, Writing
<1> QED
  BY <1>8, <1>9, <1>10 DEF PackageInv

LEMMA MeasureJob ==
  ASSUME OneRun, TypeInv, NEW r \in Runs, NEW p \in Packages, Measure(r, p), PackageInv(r, p)
  PROVE  PackageInv(r, p)'
<1>0. CopyStep(r, p)
  BY DEF CopyStep
<1>1. /\ task[r][p].pc = "fetched" /\ run[r].mode = "dry"
      /\ UNCHANGED <<releases, included, heldDesc, described, root, catalog, config, faults>>
  BY DEF Measure, At, upstream, destination, tree, operator
<1>2. /\ task'[r][p].pc = "done" /\ task'[r][p].src = task[r][p].src
      /\ run'[r].cat = run[r].cat /\ run'[r].mode = run[r].mode
  BY Settling, FALSE \in BOOLEAN, Zenon DEF Measure
<1>3. JobMirrored(r, p)'
  BY <1>1, <1>2 DEF PackageInv, JobMirrored, Work, Merging
<1>4. JobTidy(r, p)'
  BY <1>2 DEF JobTidy, Writing
<1>5. PackageTidy(p)'
  BY <1>0, <1>1, TidyStays DEF PackageInv, Writing
<1> QED
  BY <1>3, <1>4, <1>5 DEF PackageInv

LEMMA BeginJob ==
  ASSUME OneRun, TypeInv, NEW r \in Runs, NEW p \in Packages, BeginCopy(r, p), PackageInv(r, p)
  PROVE  PackageInv(r, p)'
<1>0. CopyStep(r, p)
  BY DEF CopyStep
<1>1. /\ task[r][p].pc = "fetched"
      /\ UNCHANGED <<releases, included, heldDesc, described, root, catalog, config, run, faults>>
  BY DEF BeginCopy, At, upstream, destination, tree, operator
<1>2. /\ task'[r][p].pc = "tags" /\ task'[r][p].src = task[r][p].src
      /\ task'[r][p].todo = TagsOf(Source(r, p)) \ IllegalTags
      /\ task'[r][p].confirmed = task[r][p].confirmed
  <2>1. task'[r][p] = [task[r][p] EXCEPT !.pc = "tags", !.base = LocalRoot(p),
                                         !.todo = TagsOf(Source(r, p)) \ IllegalTags]
    BY JobSet DEF BeginCopy
  <2> QED
    BY <2>1, JobType DEF TaskStates
<1>3. task[r][p].confirmed = {}
  BY <1>1 DEF PackageInv, JobMirrored
<1>4. JobMirrored(r, p)'
  BY <1>1, <1>2, <1>3 DEF PackageInv, JobMirrored, Work, Merging, Source
<1>5. JobTidy(r, p)'
  BY <1>1, <1>2 DEF JobTidy, Writing
<1>6. PackageTidy(p)'
  BY <1>0, <1>1, TidyStays DEF PackageInv, Writing
<1> QED
  BY <1>4, <1>5, <1>6 DEF PackageInv
LEMMA TagJob ==
  ASSUME OneRun, TypeInv, NEW r \in Runs, NEW p \in Packages, NEW t \in Tags,
         CopyTag(r, p, t) \/ FailTag(r, p, t), PackageInv(r, p)
  PROVE  PackageInv(r, p)'
<1>0. CopyStep(r, p)
  BY DEF CopyStep
<1>1. /\ task[r][p].pc = "tags" /\ t \in task[r][p].todo
      /\ UNCHANGED <<releases, included, heldDesc, described, root, catalog, config, run>>
  BY DEF CopyTag, FailTag, At, upstream, tree, operator
<1>2. task[r][p] \in TaskStates
  BY JobType
<1>3. /\ task'[r][p].pc = "tags" /\ task'[r][p].src = task[r][p].src
      /\ \/ task'[r][p].failed
         \/ /\ task'[r][p].failed = task[r][p].failed
            /\ task'[r][p].todo \cup task'[r][p].confirmed = task[r][p].todo \cup task[r][p].confirmed
  <2>1. CASE CopyTag(r, p, t)
    <3>1. task'[r][p] = [task[r][p] EXCEPT !.todo = @ \ {t}, !.confirmed = @ \cup {t}]
      BY <2>1, JobSet DEF CopyTag
    <3>2. /\ task'[r][p].pc = "tags" /\ task'[r][p].src = task[r][p].src
          /\ task'[r][p].failed = task[r][p].failed
          /\ task'[r][p].todo = task[r][p].todo \ {t}
          /\ task'[r][p].confirmed = task[r][p].confirmed \cup {t}
      BY <1>1, <1>2, <3>1 DEF TaskStates
    <3> QED
      BY <1>1, <3>2
  <2>2. CASE FailTag(r, p, t)
    <3>1. task'[r][p] = [task[r][p] EXCEPT !.todo = @ \ {t}, !.failed = TRUE]
      BY <2>2, JobSet DEF FailTag, RecordTag
    <3> QED
      BY <1>1, <1>2, <3>1 DEF TaskStates
  <2> QED
    BY <2>1, <2>2
<1>4. JobMirrored(r, p)'
  BY <1>1, <1>3 DEF PackageInv, JobMirrored, Work, Merging, Source
<1>5. JobTidy(r, p)'
  BY <1>3 DEF JobTidy, Writing
<1>6. PackageTidy(p)'
  BY <1>0, <1>1, TidyStays DEF PackageInv, Writing
<1> QED
  BY <1>4, <1>5, <1>6 DEF PackageInv

LEMMA DescriptionJob ==
  ASSUME OneRun, TypeInv, NEW r \in Runs, NEW p \in Packages,
         CopyDescription(r, p) \/ FailDescription(r, p), PackageInv(r, p)
  PROVE  PackageInv(r, p)'
<1>0. CopyStep(r, p)
  BY DEF CopyStep
<1>1. /\ task[r][p].pc = "tags" /\ task[r][p].todo = {}
      /\ UNCHANGED <<releases, included, described, root, catalog, config>>
  BY DEF CopyDescription, FailDescription, At, upstream, tree, operator
<1>2. /\ task[r][p] \in TaskStates /\ task[r][p].src \in 1..Len(releases[p]) /\ Len(releases[p]) \in Nat
      /\ heldDesc \in [Packages -> Descs \cup {None}] /\ faults \in Nat
  BY <1>1, JobType, SourceType DEF TypeInv, TypeOK, RunTypes, DestinationTypes
<1>3. heldDesc'[p] \in {heldDesc[p], CarriedDescription(p)}
  BY <1>2 DEF CopyDescription, FailDescription, destination
<1>4. CASE Settle(r, p, TRUE)
  BY <1>0, <1>1, <1>3, <1>4, FailedJob DEF Writing
<1>5. CASE ~Settle(r, p, TRUE)
  <2>1. /\ run' = run
        /\ task'[r][p].pc = "objects" /\ task'[r][p].src = task[r][p].src /\ task'[r][p].todo = {}
        /\ task'[r][p].confirmed = task[r][p].confirmed
        /\ task'[r][p].failed = task[r][p].failed \/ task'[r][p].failed
        /\ faults' = 0 => heldDesc'[p] = CarriedDescription(p)
    <3>1. CASE CopyDescription(r, p)
      <4>1. run' = run /\ Advance(r, p, "objects") /\ heldDesc'[p] = CarriedDescription(p)
        BY <1>2, <1>5, <3>1 DEF CopyDescription
      <4> QED
        BY <1>1, <4>1, Advancing
    <3>2. CASE FailDescription(r, p)
      <4>1. /\ run' = run /\ faults' # 0
            /\ SetTask(r, p, [task[r][p] EXCEPT !.pc = "objects", !.failed = TRUE])
        <5>1. faults' # 0
          BY <1>2, <3>2 DEF FailDescription, Failure
        <5>2. /\ run' = run
              /\ SetTask(r, p, [task[r][p] EXCEPT !.pc = "objects", !.failed = TRUE])
          BY <1>5, <3>2, Zenon DEF FailDescription
        <5> QED
          BY <5>1, <5>2
      <4>2. task'[r][p] = [task[r][p] EXCEPT !.pc = "objects", !.failed = TRUE]
        BY <4>1, JobSet
      <4>3. /\ task'[r][p].pc = "objects" /\ task'[r][p].src = task[r][p].src
            /\ task'[r][p].todo = task[r][p].todo
            /\ task'[r][p].confirmed = task[r][p].confirmed
        BY <1>2, <4>2 DEF TaskStates
      <4>4. task'[r][p].failed
        BY <1>2, <4>2 DEF TaskStates
      <4> QED
        BY <1>1, <4>1, <4>3, <4>4
    <3> QED
      BY <3>1, <3>2
  <2>2. JobMirrored(r, p)'
    BY <1>1, <2>1 DEF PackageInv, JobMirrored, Work, Merging, Source
  <2>3. Len(releases[p]) \in task[r][p].src..Len(releases[p])
    BY <1>2
  <2>4. JobTidy(r, p)'
    BY <1>1, <2>1, <2>3 DEF JobTidy, Writing, Described, CarriedDescription
  <2>5. PackageTidy(p)'
    BY <1>0, <1>1, <1>3, TidyStays DEF PackageInv, Writing
  <2> QED
    BY <2>2, <2>4, <2>5 DEF PackageInv
<1> QED
  BY <1>4, <1>5

LEMMA FailJob ==
  ASSUME OneRun, TypeInv, NEW r \in Runs, NEW p \in Packages,
         FailUnread(r, p) \/ FailBeforeCopy(r, p) \/ RefuseDispatchObject(r, p), PackageInv(r, p)
  PROVE  PackageInv(r, p)'
<1>1. /\ CopyStep(r, p) \/ WriteStep(r, p)
      /\ Settle(r, p, TRUE) /\ task[r][p].pc \notin {"waiting"} \cup Writing
      /\ UNCHANGED <<root, described, heldDesc>>
  BY DEF CopyStep, WriteStep, FailUnread, FailBeforeCopy, RefuseDispatchObject, At, Writing,
         destination, tree
<1> QED
  BY <1>1, FailedJob

LEMMA ObjectsJob ==
  ASSUME OneRun, TypeInv, NEW r \in Runs, NEW p \in Packages,
         WriteDispatchObjects(r, p) \/ BeginTransaction(r, p), PackageInv(r, p)
  PROVE  PackageInv(r, p)'
<1>0. WriteStep(r, p)
  BY DEF WriteStep
<1>1. /\ \/ task[r][p].pc = "objects" /\ Advance(r, p, "readme")
         \/ task[r][p].pc = "begin" /\ Advance(r, p, "root")
      /\ UNCHANGED <<releases, included, heldDesc, described, root, catalog, config, run, faults>>
  BY DEF WriteDispatchObjects, BeginTransaction, At, upstream, destination, tree, operator
<1>2. /\ \/ task[r][p].pc = "objects" /\ task'[r][p].pc = "readme"
         \/ task[r][p].pc = "begin" /\ task'[r][p].pc = "root"
      /\ task'[r][p].src = task[r][p].src /\ task'[r][p].todo = task[r][p].todo
      /\ task'[r][p].confirmed = task[r][p].confirmed /\ task'[r][p].failed = task[r][p].failed
  BY <1>1, Advancing
<1>3. JobMirrored(r, p)'
  BY <1>1, <1>2 DEF PackageInv, JobMirrored, Work, Merging, Source
<1>4. JobTidy(r, p)'
  BY <1>1, <1>2 DEF PackageInv, JobTidy, Writing, Described, Source
<1>5. PackageTidy(p)'
  BY <1>0, <1>1, <1>2, TidyStays DEF PackageInv, Writing
<1> QED
  BY <1>3, <1>4, <1>5 DEF PackageInv

LEMMA DescriptionObjectsJob ==
  ASSUME OneRun, TypeInv, NEW r \in Runs, NEW p \in Packages,
         WriteDescriptionObjects(r, p), PackageInv(r, p)
  PROVE  PackageInv(r, p)'
<1>1. /\ task[r][p].pc = "readme" /\ Advance(r, p, "begin")
      /\ UNCHANGED <<releases, included, heldDesc, root, catalog, config, run, faults>>
  BY DEF WriteDescriptionObjects, At, upstream, destination, operator
<1>2. /\ task'[r][p].pc = "begin"
      /\ task'[r][p].src = task[r][p].src /\ task'[r][p].todo = task[r][p].todo
      /\ task'[r][p].confirmed = task[r][p].confirmed /\ task'[r][p].failed = task[r][p].failed
  BY <1>1, Advancing
<1>3. described'[p] = described[p] \cup {Source(r, p).desc}
  BY DEF WriteDescriptionObjects, DescriptionWrites, TypeInv, TypeOK, TreeTypes, TreeNow, Trees
<1>4. JobMirrored(r, p)'
  BY <1>1, <1>2 DEF PackageInv, JobMirrored, Work, Merging, Source
<1>5. JobTidy(r, p)'
  BY <1>1, <1>2, <1>3 DEF PackageInv, JobTidy, Writing, Described, Source
<1>6. PackageTidy(p)'
  BY <1>1, <1>2, <1>3 DEF PackageInv, PackageTidy, Writing, Ahead
<1> QED
  BY <1>4, <1>5, <1>6 DEF PackageInv
LEMMA RootJob ==
  ASSUME OneRun, TypeInv, NEW r \in Runs, NEW p \in Packages, WriteRoot(r, p), PackageInv(r, p)
  PROVE  PackageInv(r, p)'
<1>1. /\ task[r][p].pc = "root" /\ Advance(r, p, "commit")
      /\ UNCHANGED <<releases, included, heldDesc, described, catalog, config, run, faults>>
  BY DEF WriteRoot, At, upstream, destination
<1>2. /\ task'[r][p].pc = "commit"
      /\ task'[r][p].src = task[r][p].src /\ task'[r][p].failed = task[r][p].failed
  BY <1>1, Advancing
<1>3. /\ Source(r, p) \in Roots /\ task[r][p] \in TaskStates
      /\ task[r][p].src \in 1..Len(releases[p]) /\ Len(releases[p]) \in Nat
  BY <1>1, SourceType, JobType
<1>4. /\ root'[p] = MergeTags(Source(r, p), task[r][p].base, task[r][p].confirmed)
      /\ root'[p] \in Roots
  BY <1>3, MergeType DEF WriteRoot, TypeInv, TypeOK, TreeTypes, TreeNow, Trees, Catalogs, TaskStates
<1>5. /\ root'[p] # None /\ root'[p].desc = Source(r, p).desc
      /\ \A t \in task[r][p].confirmed : root'[p].tags[t] = Source(r, p).tags[t]
  BY <1>3, <1>4, NoneApart DEF MergeTags, Roots, TaskStates
<1>6. task[r][p].failed \/ Covers(root'[p], Source(r, p))
  BY <1>1, <1>5 DEF PackageInv, JobMirrored, Merging, Covers
<1>7. JobMirrored(r, p)'
  BY <1>1, <1>2, <1>6 DEF PackageInv, JobMirrored, Work, Merging, Source, Covers
<1>8. JobTidy(r, p)'
  BY <1>1, <1>2, <1>5 DEF PackageInv, JobTidy, Writing, Described, Source
<1>9. faults = 0 => Ahead(p, Len(releases[p]))'
  BY <1>1, <1>3, <1>5 DEF PackageInv, JobTidy, Writing, Described, Ahead, Source
<1>10. PackageTidy(p)'
  BY <1>1, <1>2, <1>5, <1>9 DEF PackageInv, PackageTidy, JobTidy, Writing
<1> QED
  BY <1>7, <1>8, <1>10 DEF PackageInv

LEMMA CatalogJob ==
  ASSUME OneRun, TypeInv, NEW r \in Runs, NEW p \in Packages, CommitCatalog(r, p), PackageInv(r, p)
  PROVE  PackageInv(r, p)'
<1>0. WriteStep(r, p)
  BY DEF WriteStep
<1>1. /\ task[r][p].pc = "commit" /\ Advance(r, p, "prune")
      /\ UNCHANGED <<releases, included, heldDesc, described, root, config, run, faults>>
  BY DEF CommitCatalog, At, upstream, destination, operator
<1>2. /\ task'[r][p].pc = "prune"
      /\ task'[r][p].src = task[r][p].src /\ task'[r][p].failed = task[r][p].failed
  BY <1>1, Advancing
<1>3. catalog'[p] = root[p]
  BY DEF CommitCatalog, TypeInv, TypeOK, TreeTypes, TreeNow, Trees, Catalogs
<1>4. JobMirrored(r, p)'
  BY <1>1, <1>2, <1>3 DEF PackageInv, JobMirrored, Work, Merging, Source
<1>5. JobTidy(r, p)'
  BY <1>1, <1>2 DEF PackageInv, JobTidy, Writing, Described, Source
<1>6. PackageTidy(p)'
  BY <1>0, <1>1, <1>2, TidyStays DEF PackageInv, Writing
<1> QED
  BY <1>4, <1>5, <1>6 DEF PackageInv

LEMMA PruneJob ==
  ASSUME OneRun, TypeInv, NEW r \in Runs, NEW p \in Packages,
         PruneDescriptionObjects(r, p), PackageInv(r, p)
  PROVE  PackageInv(r, p)'
<1>1. /\ task[r][p].pc = "prune" /\ Advance(r, p, "config")
      /\ UNCHANGED <<releases, included, heldDesc, root, catalog, config, run, faults>>
  BY DEF PruneDescriptionObjects, At, upstream, destination, operator
<1>2. /\ task'[r][p].pc = "config"
      /\ task'[r][p].src = task[r][p].src /\ task'[r][p].failed = task[r][p].failed
  BY <1>1, Advancing
<1>3. described'[p] = described[p] \cap {Source(r, p).desc}
  BY DEF PruneDescriptionObjects, Kept, TypeInv, TypeOK, TreeTypes, TreeNow, Trees
<1>4. root[p] # None /\ root[p].desc = Source(r, p).desc /\ root[p].desc \in described[p]
  BY <1>1 DEF PackageInv, JobTidy, PackageTidy
<1>5. described'[p] = {root[p].desc}
  BY <1>3, <1>4
<1>6. JobMirrored(r, p)'
  BY <1>1, <1>2 DEF PackageInv, JobMirrored, Work, Merging, Source
<1>7. JobTidy(r, p)'
  BY <1>1, <1>2, <1>4, <1>5 DEF PackageInv, JobTidy, Writing, Described, Source
<1>8. PackageTidy(p)'
  BY <1>1, <1>2, <1>5 DEF PackageInv, PackageTidy, Writing, Ahead
<1> QED
  BY <1>6, <1>7, <1>8 DEF PackageInv

LEMMA ConfigJob ==
  ASSUME OneRun, TypeInv, NEW r \in Runs, NEW p \in Packages, WriteConfigJson(r, p), PackageInv(r, p)
  PROVE  PackageInv(r, p)'
<1>1. /\ task[r][p].pc = "config" /\ config' /\ Settle(r, p, task[r][p].failed)
      /\ UNCHANGED <<releases, included, heldDesc, described, root, catalog, faults>>
  BY DEF WriteConfigJson, At, upstream, destination, operator
<1>2. /\ task'[r][p].pc = "done" /\ task'[r][p].src = task[r][p].src /\ run'[r].cat = run[r].cat
      /\ task[r][p].failed => run'[r].failed
  <2>1. task[r][p].failed \in BOOLEAN
    BY JobType DEF TaskStates
  <2>2. \A failed \in BOOLEAN : Settle(r, p, failed) =>
          /\ task'[r][p].pc = "done" /\ task'[r][p].src = task[r][p].src /\ run'[r].cat = run[r].cat
          /\ run'[r].failed <=> run[r].failed \/ failed
    BY Settling, Zenon
  <2> QED
    BY <1>1, <2>1, <2>2, Zenon
<1>3. task[r][p].src \in 1..Len(releases[p]) /\ Len(releases[p]) \in Nat
  BY <1>1, SourceType, JobType
<1>4. task[r][p].failed \/ Brought(p, task[r][p].src)
  <2>1. /\ task[r][p].failed \/ Covers(root[p], releases[p][task[r][p].src])
        /\ catalog[p] = root[p] /\ (faults = 0 => Described(p, task[r][p].src))
    BY <1>1 DEF PackageInv, JobMirrored, JobTidy, Writing, Source
  <2>2. task[r][p].src \in task[r][p].src..Len(releases[p])
    BY <1>3
  <2> QED
    BY <2>1, <2>2 DEF Brought
<1>5. task[r][p].failed \/ Brought(p, task[r][p].src)'
  BY <1>1, <1>2, <1>4 DEF Brought, Described, NothingTakenBack, TookBack
<1>6. JobMirrored(r, p)'
  BY <1>1, <1>2, <1>5 DEF PackageInv, JobMirrored, Work, Merging
<1>7. JobTidy(r, p)'
  BY <1>2 DEF JobTidy, Writing
<1>8. PackageTidy(p)'
  BY <1>1 DEF PackageInv, PackageTidy, JobTidy, Ahead
<1> QED
  BY <1>6, <1>7, <1>8 DEF PackageInv

LEMMA PackageStep ==
  ASSUME OneRun, TypeInv, NEW r \in Runs, NEW p \in Packages, CopyStep(r, p) \/ WriteStep(r, p),
         \A q \in Packages : PackageInv(r, q)
  PROVE  \A q \in Packages : PackageInv(r, q)'
<1>1. PackageInv(r, p)'
  <2>1. CASE CopyStep(r, p)
    BY <2>1, FetchJob, SkipJob, FailJob, MeasureJob, BeginJob, TagJob, DescriptionJob DEF CopyStep
  <2>2. CASE WriteStep(r, p)
    BY <2>2, ObjectsJob, FailJob, DescriptionObjectsJob, RootJob, CatalogJob, PruneJob, ConfigJob
       DEF WriteStep
  <2> QED
    BY <2>1, <2>2
<1>2. \A q \in Packages \ {p} : PackageInv(r, q)'
  BY OtherPackages DEF PackageInv
<1> QED
  BY <1>1, <1>2

-----------------------------------------------------------------------------
(* Where roots come from, step by step.                                       *)

LEMMA SourceMoves ==
  ASSUME TypeInv, NEW r \in Runs, NEW p \in Packages, CopyStep(r, p) \/ WriteStep(r, p)
  PROVE  \/ FetchRoot(r, p) /\ task'[r][p].src = Len(releases[p])
         \/ task[r][p].pc \in Underway /\ task'[r][p].src = task[r][p].src
<1>0. task[r][p] \in TaskStates
  BY JobType
<1>1. CASE FetchRoot(r, p)
  <2>1. task'[r][p] = [task[r][p] EXCEPT !.pc = "fetched", !.src = Len(releases[p])]
    BY <1>1, JobSet DEF FetchRoot
  <2> QED
    BY <1>0, <1>1, <2>1 DEF TaskStates
<1>2. CASE Skip(r, p) \/ FailUnread(r, p) \/ FailBeforeCopy(r, p) \/ Measure(r, p)
  <2>1. task[r][p].pc = "fetched" /\ (Settle(r, p, TRUE) \/ Settle(r, p, FALSE))
    BY <1>2 DEF Skip, FailUnread, FailBeforeCopy, Measure, At
  <2> QED
    BY <2>1, Settling, TRUE \in BOOLEAN, FALSE \in BOOLEAN, Zenon DEF Underway
<1>3. CASE BeginCopy(r, p)
  <2>1. /\ task[r][p].pc = "fetched"
        /\ task'[r][p] = [task[r][p] EXCEPT !.pc = "tags", !.base = LocalRoot(p),
                                            !.todo = TagsOf(Source(r, p)) \ IllegalTags]
    BY <1>3, JobSet DEF BeginCopy, At
  <2> QED
    BY <1>0, <2>1 DEF TaskStates, Underway
<1>4. ASSUME NEW t \in Tags, CopyTag(r, p, t) \/ FailTag(r, p, t)
      PROVE  task[r][p].pc \in Underway /\ task'[r][p].src = task[r][p].src
  <2>1. /\ task[r][p].pc = "tags"
        /\ \/ task'[r][p] = [task[r][p] EXCEPT !.todo = @ \ {t}, !.confirmed = @ \cup {t}]
           \/ task'[r][p] = [task[r][p] EXCEPT !.todo = @ \ {t}, !.failed = TRUE]
    BY <1>4, JobSet DEF CopyTag, FailTag, RecordTag, At
  <2> QED
    BY <1>0, <2>1 DEF TaskStates, Underway, Merging
<1>5. CASE CopyDescription(r, p) \/ FailDescription(r, p)
  <2>1. task[r][p].pc \in Underway
    BY <1>5 DEF CopyDescription, FailDescription, At, Underway, Merging
  <2>2. CASE Settle(r, p, TRUE)
    BY <2>1, <2>2, Settling, TRUE \in BOOLEAN, Zenon
  <2>3. CASE Advance(r, p, "objects")
    BY <2>1, <2>3, Advancing
  <2>4. CASE SetTask(r, p, [task[r][p] EXCEPT !.pc = "objects", !.failed = TRUE])
    <3>1. task'[r][p] = [task[r][p] EXCEPT !.pc = "objects", !.failed = TRUE]
      BY <2>4, JobSet
    <3> QED
      BY <1>0, <2>1, <3>1 DEF TaskStates
  <2> QED
    BY <1>5, <2>2, <2>3, <2>4, Zenon DEF CopyDescription, FailDescription
<1>6. CASE WriteStep(r, p)
  <2>1. task[r][p].pc \in Underway
    BY <1>6 DEF WriteStep, WriteDispatchObjects, RefuseDispatchObject, WriteDescriptionObjects,
         BeginTransaction, WriteRoot, CommitCatalog, PruneDescriptionObjects, WriteConfigJson, At,
         Underway, Merging
  <2>2. PICK job \in TaskStates : SetTask(r, p, job) /\ job.src = task[r][p].src
    BY <1>6, WriteMoves
  <2> QED
    BY <2>1, <2>2, JobSet
<1> QED
  BY <1>1, <1>2, <1>3, <1>4, <1>5, <1>6 DEF CopyStep

\* What WriteRoot writes is drawn from the releases its task has seen, and follows the root
\* it replaces.
LEMMA MergeDrawn ==
  ASSUME OneRun, TypeInv, BaseCurrent, OriginInv, NEW r \in Runs, NEW p \in Packages,
         WriteRoot(r, p)
  PROVE  /\ root'[p] \in Roots /\ \A q \in Packages \ {p} : root'[q] = root[q]
         /\ DrawnFrom(root'[p], releases[p], task[r][p].src)
         /\ NotLater(root[p], root'[p], releases[p])
<1>1. task[r][p].pc = "root" /\ task[r][p].base = root[p]
  BY DEF WriteRoot, At, BaseCurrent, Merging
<1>2. /\ Source(r, p) \in Roots /\ task[r][p] \in TaskStates
      /\ task[r][p].src \in 1..Len(releases[p]) /\ Len(releases[p]) \in Nat
      /\ task[r][p].confirmed \subseteq TagsOf(Source(r, p))
      /\ releases[p] \in Seq(Roots)
  BY <1>1, SourceType, JobType
<1> DEFINE n == task[r][p].src
           new == MergeTags(Source(r, p), root[p], task[r][p].confirmed)
<1>3. /\ root'[p] = new /\ new \in Roots /\ root[p] \in Roots \cup {None}
      /\ \A q \in Packages \ {p} : root'[q] = root[q]
  BY <1>1, <1>2, MergeType
     DEF WriteRoot, TypeInv, TypeOK, TreeTypes, TreeNow, Trees, Catalogs, TaskStates
<1>4. /\ new.desc = releases[p][n].desc
      /\ \A t \in Tags : new.tags[t] =
           IF t \in task[r][p].confirmed THEN releases[p][n].tags[t]
           ELSE IF root[p] = None THEN None ELSE root[p].tags[t]
  BY <1>2 DEF MergeTags, Roots, Source
<1>5. root[p] # None => DrawnFrom(root[p], releases[p], n)
  BY <1>1 DEF OriginInv, Underway, Merging
<1>6. n \in 1..n
  BY <1>2
<1>7. DrawnFrom(new, releases[p], n)
  <2>1. ASSUME NEW t \in TagsOf(new)
        PROVE  \E i \in 1..n : releases[p][i].tags[t] = new.tags[t]
    <3>1. t \in Tags /\ new.tags[t] # None
      BY DEF TagsOf
    <3>2. CASE t \in task[r][p].confirmed
      BY <1>4, <1>6, <3>1, <3>2
    <3>3. CASE t \notin task[r][p].confirmed
      <4>1. root[p] # None /\ t \in TagsOf(root[p]) /\ new.tags[t] = root[p].tags[t]
        BY <1>4, <3>1, <3>3 DEF TagsOf
      <4> QED
        BY <1>5, <4>1 DEF DrawnFrom
    <3> QED
      BY <3>2, <3>3
  <2> QED
    BY <1>4, <1>6, <2>1 DEF DrawnFrom
<1>8. NotLater(root[p], new, releases[p])
  <2>1. SUFFICES ASSUME root[p] # None PROVE NotLater(root[p], new, releases[p])
    BY DEF NotLater
  <2>2. root[p] \in Roots /\ new # None
    BY <1>3, <2>1, NoneApart
  <2>3. root[p].desc = new.desc \/ Before(DescAt(releases[p], root[p].desc), DescAt(releases[p], new.desc))
    <3>1. PICK i \in 1..n : releases[p][i].desc = root[p].desc
      BY <1>5, <2>1 DEF DrawnFrom
    <3>2. CASE i = n
      BY <1>4, <3>1, <3>2
    <3>3. CASE i < n
      <4>1. i \in DescAt(releases[p], root[p].desc) /\ n \in DescAt(releases[p], new.desc)
        BY <1>2, <1>4, <3>1 DEF DescAt
      <4> QED
        BY <3>3, <4>1 DEF Before
    <3> QED
      BY <1>2, <3>2, <3>3
  <2>4. ASSUME NEW t \in TagsOf(root[p])
        PROVE  /\ new.tags[t] # None
               /\ \/ root[p].tags[t] = new.tags[t]
                  \/ Before(TagAt(releases[p], t, root[p].tags[t]), TagAt(releases[p], t, new.tags[t]))
    <3>1. t \in Tags /\ root[p].tags[t] # None
      BY DEF TagsOf
    <3>2. CASE t \notin task[r][p].confirmed
      BY <1>4, <2>1, <3>1, <3>2
    <3>3. CASE t \in task[r][p].confirmed
      <4>1. new.tags[t] = releases[p][n].tags[t] /\ new.tags[t] # None
        BY <1>2, <1>4, <3>1, <3>3 DEF TagsOf, Source
      <4>2. PICK i \in 1..n : releases[p][i].tags[t] = root[p].tags[t]
        BY <1>5, <2>1 DEF DrawnFrom
      <4>3. CASE i = n
        BY <4>1, <4>2, <4>3
      <4>4. CASE i < n
        <5>0. i \in 1..Len(releases[p]) /\ n \in 1..Len(releases[p])
          BY <1>2
        <5>1. /\ i \in TagAt(releases[p], t, root[p].tags[t])
              /\ n \in TagAt(releases[p], t, new.tags[t])
          BY <5>0, <4>1, <4>2 DEF TagAt
        <5> QED
          BY <4>1, <4>4, <5>1 DEF Before
      <4> QED
        BY <1>2, <4>3, <4>4
    <3> QED
      BY <3>2, <3>3
  <2> QED
    BY <2>2, <2>3, <2>4 DEF NotLater
<1> QED
  BY <1>3, <1>7, <1>8

LEMMA OriginStep ==
  ASSUME OneRun, TreeKept
  PROVE  TypeInv /\ BaseCurrent /\ OriginInv /\ [Next]_vars => OriginInv'
<1> SUFFICES ASSUME TypeInv, BaseCurrent, OriginInv, [Next]_vars PROVE OriginInv'
  OBVIOUS
<1>1. ASSUME NEW r \in Runs, NEW p \in Packages, WriteRoot(r, p) PROVE OriginInv'
  <2>1. WriteStep(r, p) /\ task[r][p].pc = "root"
    BY <1>1 DEF WriteStep, WriteRoot, At
  <2>2. UNCHANGED releases /\ \A q \in Packages \ {p} : task'[r][q] = task[r][q]
    BY <2>1, PackageDocuments, PackageFrame
  <2>3. task'[r][p].src = task[r][p].src /\ task[r][p].src \in 1..Len(releases[p])
    BY <1>1, <2>1, Advancing, SourceType DEF WriteRoot
  <2>4. DrawnFrom(root'[p], releases'[p], Len(releases'[p]))
    BY <1>1, <2>2, <2>3, MergeDrawn, DrawnGrows
  <2>5. DrawnFrom(root'[p], releases'[p], task'[r][p].src)
    BY <1>1, <2>2, <2>3, MergeDrawn
  <2>6. \A q \in Packages \ {p} : root'[q] = root[q]
    BY <1>1, MergeDrawn
  <2> QED
    BY <2>2, <2>4, <2>5, <2>6 DEF OriginInv, OneRun
<1>2. ASSUME root' = root PROVE OriginInv'
  <2> SUFFICES ASSUME NEW p \in Packages, root[p] # None
               PROVE  /\ DrawnFrom(root[p], releases'[p], Len(releases'[p]))
                      /\ \A r \in Runs : task'[r][p].pc \in Underway =>
                           DrawnFrom(root[p], releases'[p], task'[r][p].src)
    BY <1>2 DEF OriginInv
  <2>0. Len(releases[p]) \in 0..Len(releases[p])
    BY HistoryStep
  <2>1. DrawnFrom(root[p], releases'[p], Len(releases'[p]))
    BY <2>0, DrawnGrows DEF OriginInv
  <2>2. ASSUME NEW r \in Runs, task'[r][p].pc \in Underway
        PROVE  DrawnFrom(root[p], releases'[p], task'[r][p].src)
    <3>1. ASSUME NEW n \in 0..Len(releases[p]), DrawnFrom(root[p], releases[p], n)
          PROVE  DrawnFrom(root[p], releases'[p], n)
      <4>1. n \in n..Len(releases'[p])
        BY HistoryStep
      <4> QED
        BY <3>1, <4>1, DrawnGrows
    <3>2. task[r][p].src \in 0..Len(releases[p])
      BY JobType DEF JobOK
    <3>3. task'[r][p] # WaitingTask
      BY <2>2 DEF WaitingTask, Underway, Merging
    <3>4. CASE task'[r][p] = task[r][p]
      BY <2>2, <3>1, <3>2, <3>4 DEF OriginInv
    <3>5. CASE CopyStep(r, p) \/ WriteStep(r, p)
      BY <2>0, <3>1, <3>2, <3>5, SourceMoves DEF OriginInv
    <3> QED
      BY <3>3, <3>4, <3>5, OtherTasks
  <2> QED
    BY <2>1, <2>2
<1> QED
  BY <1>1, <1>2, RootsStay

\* Every root moves forward.
LEMMA RootsAdvance ==
  ASSUME OneRun, TreeKept, TypeInv, BaseCurrent, OriginInv, [Next]_vars, NEW p \in Packages
  PROVE  NotLater(root[p], root'[p], releases'[p])
<1>1. NotLater(root[p], root'[p], releases[p])
  <2>1. CASE root' = root
    BY <2>1, NotLaterReflexive
  <2>2. ASSUME NEW r \in Runs, NEW q \in Packages, WriteRoot(r, q)
        PROVE  NotLater(root[p], root'[p], releases[p])
    <3>1. CASE p = q
      BY <2>2, <3>1, MergeDrawn
    <3>2. CASE p # q
      BY <2>2, <3>2, MergeDrawn, NotLaterReflexive
    <3> QED
      BY <3>1, <3>2
  <2> QED
    BY <2>1, <2>2, RootsStay
<1> QED
  BY <1>1, NotLaterGrows

\* The catalog entry of a package is left alone, or made that of its root.
LEMMA CatalogMoves ==
  ASSUME TypeInv, [Next]_vars, TreeKept
  PROVE  catalog' = catalog \/ (root' = root /\ \A p \in Packages : catalog'[p] \in {catalog[p], root[p]})
<1>0. catalog \in Catalogs /\ root \in Catalogs
  BY DEF TypeInv, TypeOK, TreeTypes, TreeNow, Trees
<1>1. CASE Interference
  BY <1>1 DEF Interference, CommitTree, CheckoutTree, LoseRecord, DeleteRoot, DamageRoot,
         EditFilters, Operator, TreeKept, tree
<1>2. ASSUME NEW r \in Runs, Control(r)
      PROVE  catalog' = catalog \/ (root' = root /\ \A p \in Packages : catalog'[p] \in {catalog[p], root[p]})
  BY <1>2 DEF Control, RunStep, StopRun, StartRun, RepairCatalog, AbortRepair, FetchCatalog,
         ReadRecord, PlanSource, FinishRun, ExitRun, tree
<1>3. ASSUME NEW r \in Runs, NEW p \in Packages, WriteStep(r, p)
      PROVE  catalog' = catalog \/ (root' = root /\ \A q \in Packages : catalog'[q] \in {catalog[q], root[q]})
  <2>1. catalog' = catalog \/ (root' = root /\ catalog' = [catalog EXCEPT ![p] = root[p]])
    BY <1>3 DEF WriteStep, WriteDispatchObjects, RefuseDispatchObject, WriteDescriptionObjects,
         BeginTransaction, WriteRoot, CommitCatalog, PruneDescriptionObjects, WriteConfigJson, tree
  <2> QED
    BY <1>0, <2>1 DEF Catalogs
<1> QED
  BY <1>1, <1>2, <1>3, StepKinds, PublisherFrame, CopyFrame DEF vars, tree

LEMMA CatalogsAdvance ==
  ASSUME OneRun, TreeKept, TypeInv, BaseCurrent, OriginInv, OrderInv, NothingTakenBack, [Next]_vars,
         TypeInv', NothingTakenBack', NEW p \in Packages
  PROVE  /\ NotLater(catalog[p], catalog'[p], releases'[p])
         /\ NotLater(catalog'[p], root'[p], releases'[p])
<1>0. /\ catalog[p] \in Roots \cup {None} /\ root[p] \in Roots \cup {None} /\ root'[p] \in Roots \cup {None}
  BY DEF TypeInv, TypeOK, TreeTypes, TreeNow, Trees, Catalogs
<1>h. releases'[p] \in Seq(Roots) /\ Straight(releases'[p])
  BY StraightNext, HistoryStep
<1>1. NotLater(catalog[p], root[p], releases'[p])
  BY NotLaterGrows DEF OrderInv, AllNotLater
<1>2. CASE catalog'[p] = catalog[p]
  <2>1. NotLater(root[p], root'[p], releases'[p])
    BY RootsAdvance
  <2>2. NotLater(catalog[p], root'[p], releases'[p])
    BY <1>0, <1>1, <1>h, <2>1, NotLaterTransitive
  <2> QED
    BY <1>2, <2>2, NotLaterReflexive
<1>3. CASE catalog'[p] = root[p] /\ root' = root
  BY <1>1, <1>3, NotLaterReflexive
<1> QED
  BY <1>2, <1>3, CatalogMoves

-----------------------------------------------------------------------------
(* The steps of a run outside its packages, and of its operator.              *)

\* What a filter let through it goes on to let through.
WidensOnly == "narrow" \notin OperatorActs

LEMMA ControlRun ==
  ASSUME TypeInv, NEW r \in Runs, Control(r)
  PROVE  \/ run'[r].pc \in {"idle", "repair", "catalog"} /\ record' = record
         \/ /\ run'[r].pc = "record" /\ run'[r].cat = listed
            /\ UNCHANGED <<record, catalog, task, faults>>
         \/ /\ run[r].pc = "record" /\ run'[r].pc = "plan" /\ run'[r].cat = run[r].cat
            /\ run'[r].read = record /\ UNCHANGED <<record, catalog, task, faults>>
         \/ /\ run[r].pc = "plan" /\ run'[r].cat = run[r].cat /\ run'[r].read = run[r].read
            /\ run'[r].local = catalog
            /\ run'[r].pc = IF ShortCircuit(run[r].cat, run[r].read, catalog, Work(r))
                            THEN "done" ELSE "copy"
            /\ UNCHANGED <<record, catalog, task, faults>>
         \/ /\ FinishRun(r) /\ run[r].pc = "copy" /\ run'[r].pc = "done"
            /\ run'[r].cat = run[r].cat /\ run'[r].mode = run[r].mode
            /\ run'[r].failed = run[r].failed
            /\ record' = RecordDigest(r) /\ UNCHANGED <<catalog, task, faults>>
<1>0. run[r] \in RunStates /\ run \in [Runs -> RunStates]
  BY DEF TypeInv, TypeOK, RunTypes
<1>s. ASSUME NEW state, SetRun(r, state) PROVE run'[r] = state
  BY <1>0, <1>s DEF SetRun
<1>1. ASSUME NEW mode \in Modes, StartRun(r, mode)
      PROVE  run'[r].pc \in {"idle", "repair", "catalog"} /\ record' = record
  <2>1. run'[r] = [run[r] EXCEPT !.mode = mode, !.pc = IF mode = "repair" THEN "repair" ELSE "catalog"]
    BY <1>1, <1>s DEF StartRun
  <2> QED
    BY <1>0, <1>1, <2>1 DEF StartRun, RunStates
<1>2. CASE RepairCatalog(r)
  <2>1. run'[r] = [run[r] EXCEPT !.pc = "catalog"]
    BY <1>2, <1>s DEF RepairCatalog, GoTo
  <2> QED
    BY <1>0, <1>2, <2>1 DEF RepairCatalog, RunStates
<1>3. CASE AbortRepair(r) \/ ExitRun(r) \/ StopRun(r)
  <2>1. run'[r] = IdleRun /\ record' = record
    BY <1>3, <1>s DEF AbortRepair, ExitRun, StopRun, Reset
  <2> QED
    BY <2>1 DEF IdleRun
<1>4. CASE FetchCatalog(r)
  <2>1. run'[r] = [run[r] EXCEPT !.pc = "record", !.cat = listed]
    BY <1>4, <1>s DEF FetchCatalog
  <2> QED
    BY <1>0, <1>4, <2>1 DEF FetchCatalog, RunStates, tree
<1>5. CASE ReadRecord(r)
  <2>1. run'[r] = [run[r] EXCEPT !.pc = "plan", !.read = record]
    BY <1>5, <1>s DEF ReadRecord
  <2> QED
    BY <1>0, <1>5, <2>1 DEF ReadRecord, RunStates, tree
<1>6. CASE PlanSource(r)
  <2> DEFINE pc == IF ShortCircuit(run[r].cat, run[r].read, catalog, Work(r)) THEN "done" ELSE "copy"
  <2>1. run'[r] = [run[r] EXCEPT !.local = catalog, !.pc = pc]
    BY <1>6, <1>s DEF PlanSource
  <2>2. /\ run'[r].cat = run[r].cat /\ run'[r].read = run[r].read
        /\ run'[r].local = catalog /\ run'[r].pc = pc
    BY <1>0, <2>1 DEF RunStates
  <2>3. run[r].pc = "plan" /\ UNCHANGED <<record, catalog, task, faults>>
    BY <1>6 DEF PlanSource, tree
  <2> QED
    BY <2>2, <2>3
<1>7. CASE FinishRun(r)
  <2>1. run'[r] = [run[r] EXCEPT !.pc = "done"]
    BY <1>7, <1>s DEF FinishRun, GoTo
  <2>2. /\ run'[r].pc = "done" /\ run'[r].cat = run[r].cat /\ run'[r].mode = run[r].mode
        /\ run'[r].failed = run[r].failed
    BY <1>0, <2>1 DEF RunStates
  <2>3. /\ run[r].pc = "copy" /\ record' = RecordDigest(r) /\ UNCHANGED <<catalog, task, faults>>
    BY <1>7 DEF FinishRun, tree
  <2> QED
    BY <1>7, <2>2, <2>3
<1> QED
  BY <1>1, <1>2, <1>3, <1>4, <1>5, <1>6, <1>7 DEF Control, RunStep

LEMMA OperatorMoves ==
  ASSUME TreeKept, WidensOnly, Interference
  PROVE  /\ \A r \in Runs : run[r].pc = "idle"
         /\ UNCHANGED <<upstream, destination, tree, lock, run, task, faults>>
         /\ \/ record' = None /\ included' = included
            \/ record' = record /\ included \subseteq included'
  BY DEF TreeKept, WidensOnly, Interference, CommitTree, CheckoutTree, LoseRecord, DeleteRoot,
         DamageRoot, EditFilters, Operator

\* A run that copies is where it was, or has just planned.
LEMMA CopyingMoves ==
  ASSUME OneRun, TreeKept, WidensOnly, TypeInv, [Next]_vars, NEW r \in Runs, run'[r].pc = "copy"
  PROVE  /\ record' = record /\ included' = included
         /\ run'[r].cat = run[r].cat /\ run'[r].read = run[r].read
         /\ \/ run[r].pc = "copy" /\ run'[r].local = run[r].local
            \/ /\ run[r].pc = "plan" /\ run'[r].local = catalog /\ catalog' = catalog
               /\ UNCHANGED task
               /\ ~ShortCircuit(run[r].cat, run[r].read, catalog, Work(r))
<1>1. CASE Publisher \/ UNCHANGED vars
  BY <1>1, PublisherFrame DEF vars, operator
<1>2. CASE Interference
  BY <1>2, OperatorMoves
<1>3. ASSUME NEW q \in Runs, Control(q), q = r
      PROVE  /\ record' = record /\ included' = included
             /\ run'[r].cat = run[r].cat /\ run'[r].read = run[r].read
             /\ run[r].pc = "plan" /\ run'[r].local = catalog /\ catalog' = catalog
             /\ UNCHANGED task
             /\ ~ShortCircuit(run[r].cat, run[r].read, catalog, Work(r))
  BY <1>3, ControlRun, ControlFrame DEF operator
<1>4. ASSUME NEW q \in Runs, NEW p \in Packages, CopyStep(q, p) \/ WriteStep(q, p), q = r
      PROVE  /\ record' = record /\ included' = included
             /\ run'[r].cat = run[r].cat /\ run'[r].read = run[r].read
             /\ run[r].pc = "copy" /\ run'[r].local = run[r].local
  BY <1>4, PackageFrame, PackageDocuments
<1> QED
  BY <1>1, <1>2, <1>3, <1>4, StepKinds DEF OneRun

\* The record stays, is lost, or becomes that of the run that finishes.
LEMMA RecordMoves ==
  ASSUME OneRun, TreeKept, WidensOnly, TypeInv, [Next]_vars
  PROVE  \/ record' \in {record, None}
         \/ \E r \in Runs :
              /\ FinishRun(r) /\ Control(r) /\ run[r].pc = "copy"
              /\ ~run[r].failed /\ run[r].mode # "dry"
              /\ record' = CacheRecord(run[r].cat, run[r].local)
<1>1. CASE Interference
  BY <1>1, OperatorMoves
<1>2. ASSUME NEW r \in Runs, Control(r)
      PROVE  \/ record' = record
             \/ /\ FinishRun(r) /\ run[r].pc = "copy"
                /\ ~run[r].failed /\ run[r].mode # "dry"
                /\ record' = CacheRecord(run[r].cat, run[r].local)
  BY <1>2, ControlRun DEF RecordDigest
<1> QED
  BY <1>1, <1>2, StepKinds, PublisherFrame, CopyFrame, WriteFrame DEF vars

LEMMA OrderStep ==
  ASSUME OneRun, TreeKept, WidensOnly
  PROVE  TypeInv /\ TypeInv' /\ BaseCurrent /\ OriginInv /\ OrderInv /\ [Next]_vars => OrderInv'
<1> SUFFICES ASSUME TypeInv, TypeInv', BaseCurrent, OriginInv, OrderInv, [Next]_vars,
                    NothingTakenBack'
             PROVE  /\ AllNotLater(catalog, root)'
                    /\ record' # None => AllNotLater(record.mirrored, catalog)'
                    /\ \A r \in Runs : run'[r].pc = "copy" =>
                         /\ AllNotLater(run[r].local, catalog)'
                         /\ record' # None => AllNotLater(record.mirrored, run[r].local)'
  BY DEF OrderInv
<1>0. NothingTakenBack
  BY TakenBackStays
<1>1. \A p \in Packages : /\ NotLater(catalog[p], catalog'[p], releases'[p])
                          /\ NotLater(catalog'[p], root'[p], releases'[p])
  BY <1>0, CatalogsAdvance
<1>t. /\ catalog \in Catalogs /\ catalog' \in Catalogs
      /\ record \in Records \cup {None} /\ record' \in Records \cup {None}
      /\ \A r \in Runs : run[r] \in RunStates /\ run'[r] \in RunStates
  BY DEF TypeInv, TypeOK, TreeTypes, TreeNow, Trees, RunTypes
\* What was found or recorded before is before the catalog there is now.
<1>2. ASSUME NEW old \in Catalogs, AllNotLater(old, catalog)
      PROVE  \A p \in Packages : NotLater(old[p], catalog'[p], releases'[p])
  <2> TAKE p \in Packages
  <2>1. NotLater(old[p], catalog[p], releases'[p])
    BY <1>2, NotLaterGrows DEF AllNotLater
  <2>2. releases'[p] \in Seq(Roots) /\ Straight(releases'[p])
    BY HistoryStep, StraightNext
  <2>3. /\ old[p] \in Roots \cup {None} /\ catalog[p] \in Roots \cup {None}
        /\ catalog'[p] \in Roots \cup {None}
    BY <1>t DEF Catalogs
  <2> QED
    BY <1>1, <2>1, <2>2, <2>3, NotLaterTransitive
<1>3. AllNotLater(catalog, root)'
  BY <1>1 DEF AllNotLater
<1>4. record' # None => AllNotLater(record.mirrored, catalog)'
  <2>1. CASE record' = record
    BY <1>0, <1>2, <1>t, <2>1 DEF OrderInv, AllNotLater, Records
  <2>2. ASSUME NEW r \in Runs, run[r].pc = "copy", record' = CacheRecord(run[r].cat, run[r].local)
        PROVE  AllNotLater(record.mirrored, catalog)'
    <3>1. record'.mirrored = run[r].local
      BY <2>2 DEF CacheRecord
    <3>2. \A p \in Packages : NotLater(run[r].local[p], catalog'[p], releases'[p])
      BY <1>0, <1>2, <1>t, <2>2 DEF OrderInv, RunStates
    <3> QED
      BY <3>1, <3>2 DEF AllNotLater
  <2> QED
    BY <2>1, <2>2, RecordMoves
<1>5. ASSUME NEW r \in Runs, run'[r].pc = "copy"
      PROVE  /\ AllNotLater(run[r].local, catalog)'
             /\ record' # None => AllNotLater(record.mirrored, run[r].local)'
  <2>1. CASE run[r].pc = "copy" /\ run'[r].local = run[r].local /\ record' = record
    <3>1. \A p \in Packages : NotLater(run[r].local[p], catalog'[p], releases'[p])
      BY <1>0, <1>2, <1>t, <2>1 DEF OrderInv, RunStates
    <3>2. record # None => \A p \in Packages : NotLater(record.mirrored[p], run[r].local[p], releases'[p])
      BY <1>0, <2>1, NotLaterGrows DEF OrderInv, AllNotLater
    <3> QED
      BY <2>1, <3>1, <3>2 DEF AllNotLater
  <2>2. CASE run'[r].local = catalog /\ catalog' = catalog /\ record' = record
    BY <1>4, <2>2, NotLaterReflexive DEF AllNotLater
  <2> QED
    BY <1>5, <2>1, <2>2, CopyingMoves
<1> QED
  BY <1>3, <1>4, <1>5

-----------------------------------------------------------------------------
(* What the pre-flight reads, against what is there later.                    *)

LEMMA ListingMoves ==
  ASSUME TypeInv, TypeInv', [Next]_vars, NEW p \in Packages
  PROVE  /\ listed[p] \in 0..Len(releases[p]) /\ listed'[p] \in 0..Len(releases'[p])
         /\ listed[p] <= listed'[p]
<1>0. /\ listed[p] \in 0..Len(releases[p]) /\ listed'[p] \in 0..Len(releases'[p])
      /\ Len(releases[p]) \in Nat /\ listed \in [Packages -> Nat]
  BY HistoryStep DEF TypeInv, TypeOK, UpstreamTypes, IndicesOK
<1>1. ASSUME NEW q \in Packages, ListRoot(q) PROVE listed[p] <= listed'[p]
  BY <1>0, <1>1 DEF ListRoot
<1>2. ASSUME NEW q \in Packages, NEW doc \in UpstreamRoots, PublishRoot(q, doc)
      PROVE  listed[p] <= listed'[p]
  BY <1>0, <1>2 DEF PublishRoot
<1>3. CASE UNCHANGED upstream
  BY <1>0, <1>3 DEF upstream
<1> QED
  BY <1>0, <1>1, <1>2, <1>3, StepKinds, OperatorFrame, ControlFrame, CopyFrame, WriteFrame
     DEF Publisher, vars

\* Catalogs in range name the same roots in a longer history.
LEMMA CatalogStays ==
  ASSUME TypeInv, [Next]_vars, NEW cat, \A p \in Packages : cat[p] \in 0..Len(releases[p])
  PROVE  \A p \in Packages : cat[p] # 0 =>
           releases'[p][cat[p]] = releases[p][cat[p]] /\ releases[p][cat[p]] \in Roots
<1> SUFFICES ASSUME NEW p \in Packages, cat[p] # 0
             PROVE  releases'[p][cat[p]] = releases[p][cat[p]] /\ releases[p][cat[p]] \in Roots
  OBVIOUS
<1>1. cat[p] \in 1..Len(releases[p])
  BY HistoryStep
<1> QED
  BY <1>1, HistoryStep

LEMMA RunCatalogStays ==
  ASSUME TypeInv, [Next]_vars, NEW r \in Runs
  PROVE  \A p \in Packages : run[r].cat[p] # 0 =>
           releases'[p][run[r].cat[p]] = releases[p][run[r].cat[p]]
  BY CatalogStays DEF TypeInv, IndicesOK

LEMMA SourceStays ==
  ASSUME TypeInv, [Next]_vars, NEW old, NEW new, record' = record, SourceBy(old),
         \A p \in Packages : old[p] \in 0..Len(releases[p]) /\ new[p] \in Nat /\ old[p] <= new[p]
  PROVE  \A p \in Packages : record'.source[p] # None =>
           \E k \in 1..new[p] : releases'[p][k] = record'.source[p]
<1> SUFFICES ASSUME NEW p \in Packages, record.source[p] # None
             PROVE  \E k \in 1..new[p] : releases'[p][k] = record.source[p]
  OBVIOUS
<1>1. PICK k \in 1..old[p] : releases[p][k] = record.source[p]
  BY DEF SourceBy
<1>2. Len(releases[p]) \in Nat /\ k \in 1..new[p] /\ k \in 1..Len(releases[p])
  BY HistoryStep
<1> QED
  BY <1>1, <1>2, HistoryStep

LEMMA IncludedMoves ==
  ASSUME TreeKept, WidensOnly, [Next]_vars
  PROVE  included \subseteq included'
<1>1. CASE Interference
  BY <1>1, OperatorMoves
<1> QED
  BY <1>1, StepKinds, PublisherFrame, ControlFrame, CopyFrame, WriteFrame DEF vars, operator

LEMMA ReadsStep ==
  ASSUME OneRun, TreeKept, WidensOnly
  PROVE  TypeInv /\ TypeInv' /\ TasksIdle /\ JobsInv /\ ReadsInv /\ [Next]_vars => ReadsInv'
<1> SUFFICES ASSUME TypeInv, TypeInv', TasksIdle, JobsInv, ReadsInv, [Next]_vars
             PROVE  ReadsInv'
  OBVIOUS
<1>t. /\ \A p \in Packages : listed[p] \in 0..Len(releases[p]) /\ listed'[p] \in Nat
                             /\ Len(releases[p]) \in Nat
      /\ \A r \in Runs, p \in Packages : run[r].cat[p] \in 0..Len(releases[p])
      /\ \A r \in Runs : run[r] \in RunStates
  BY ListingMoves, HistoryStep DEF TypeInv, TypeOK, UpstreamTypes, RunTypes, IndicesOK
<1>1. record' # None => SourceBy(listed)'
  <2>1. CASE record' = record /\ record # None
    BY <1>t, <2>1, ListingMoves, SourceStays DEF SourceBy, ReadsInv
  <2>2. ASSUME NEW r \in Runs, Control(r), run[r].pc = "copy",
               record' = CacheRecord(run[r].cat, run[r].local)
        PROVE  SourceBy(listed)'
    <3>1. record'.source = SourceCatalog(run[r].cat)
      BY <2>2 DEF CacheRecord
    <3>2. UNCHANGED <<releases, listed>>
      BY <2>2, ControlFrame DEF upstream
    <3>3. \A p \in Packages : run[r].cat[p] <= listed[p]
      BY <2>2 DEF ReadsInv
    <3>4. ASSUME NEW p \in Packages, record'.source[p] # None
          PROVE  \E k \in 1..listed[p] : releases[p][k] = record'.source[p]
      <4>1. run[r].cat[p] # 0 /\ record'.source[p] = releases[p][run[r].cat[p]]
        BY <3>1, <3>4 DEF SourceCatalog
      <4>2. run[r].cat[p] \in 1..listed[p]
        BY <1>t, <3>3, <4>1
      <4> QED
        BY <4>1, <4>2
    <3> QED
      BY <3>2, <3>4 DEF SourceBy
  <2> QED
    BY <2>1, <2>2, RecordMoves
<1>2. \A p \in Packages : catalog'[p] # None \/ root'[p] # None => p \in included'
  <2>1. ASSUME NEW r \in Runs, NEW p \in Packages, WriteRoot(r, p) PROVE p \in included
    BY <2>1 DEF WriteRoot, At, JobsInv, JobMirrored, Work
  <2>2. root' = root \/ \E p \in included : \A q \in Packages \ {p} : root'[q] = root[q]
    <3>1. ASSUME NEW r \in Runs, NEW p \in Packages, WriteRoot(r, p)
          PROVE  \E s \in included : \A q \in Packages \ {s} : root'[q] = root[q]
      <4>1. \A q \in Packages \ {p} : root'[q] = root[q]
        BY <3>1, PackageDocuments DEF WriteStep
      <4> QED
        BY <2>1, <3>1, <4>1
    <3> QED
      BY <3>1, RootsStay
  <2> QED
    BY <2>2, CatalogMoves, IncludedMoves DEF ReadsInv
<1>3. ASSUME NEW r \in Runs
      PROVE  /\ run'[r].pc \in {"record", "plan", "copy"} =>
                  /\ \A p \in Packages : run'[r].cat[p] <= listed'[p]
                  /\ record' # None => SourceBy(run[r].cat)'
             /\ run'[r].pc \in {"plan", "copy"} => run'[r].read = record'
             /\ run'[r].pc = "copy" =>
                  ~ShortCircuit(run[r].cat, run[r].read, run[r].local, Work(r))'
             /\ run'[r].pc = "done" => \A p \in Packages : task'[r][p].pc \in {"waiting", "done"}
  <2>s. ASSUME record' = record, record # None, SourceBy(run[r].cat), run'[r].cat = run[r].cat
        PROVE  SourceBy(run[r].cat)'
    <3>1. \A p \in Packages : /\ run[r].cat[p] \in 0..Len(releases[p])
                              /\ run[r].cat[p] \in Nat /\ run[r].cat[p] <= run[r].cat[p]
      BY <1>t
    <3>2. \A p \in Packages : record'.source[p] # None =>
            \E k \in 1..run[r].cat[p] : releases'[p][k] = record'.source[p]
      BY <2>s, <3>1, SourceStays
    <3> QED
      BY <2>s, <3>2 DEF SourceBy
  <2>l. ASSUME \A p \in Packages : run[r].cat[p] <= listed[p], run'[r].cat = run[r].cat
        PROVE  \A p \in Packages : run'[r].cat[p] <= listed'[p]
    <3> TAKE p \in Packages
    <3>1. run[r].cat[p] <= listed[p] /\ listed[p] <= listed'[p] /\ run[r].cat[p] \in Nat
          /\ listed[p] \in Nat /\ listed'[p] \in Nat
      BY <1>t, <2>l, ListingMoves
    <3> QED
      BY <2>l, <3>1
  <2>c. ASSUME run'[r].cat = run[r].cat, run'[r].read = run[r].read,
               NEW local, run'[r].local = local, included' = included,
               ~ShortCircuit(run[r].cat, run[r].read, local, Work(r))
        PROVE  ~ShortCircuit(run[r].cat, run[r].read, run[r].local, Work(r))'
    <3>1. SourceCatalog(run[r].cat)' = SourceCatalog(run[r].cat)
      BY <2>c, RunCatalogStays DEF SourceCatalog
    <3>2. Work(r)' = Work(r)
      BY <2>c DEF Work
    <3> QED
      BY <2>c, <3>1, <3>2 DEF ShortCircuit, CacheRecord
  <2>1. CASE UNCHANGED <<record, run, task, included>>
    BY <2>1, <2>s, <2>l, <2>c DEF ReadsInv
  <2>2. CASE Interference
    BY <2>2, OperatorMoves
  <2>3. CASE Control(r)
    <3>u. UNCHANGED <<releases, listed, included>>
      BY <2>3, ControlFrame DEF upstream, operator
    <3>1. CASE run'[r].pc = "record" /\ run'[r].cat = listed /\ record' = record
      <4>1. \A p \in Packages : listed[p] <= listed'[p]
        BY ListingMoves
      <4>2. record' # None => SourceBy(run[r].cat)'
        BY <1>1, <3>u, <3>1 DEF SourceBy
      <4> QED
        BY <3>1, <4>1, <4>2
    <3>2. CASE run[r].pc = "record" /\ run'[r].pc = "plan" /\ run'[r].cat = run[r].cat
               /\ run'[r].read = record /\ record' = record
      BY <2>s, <2>l, <3>2 DEF ReadsInv
    <3>3. CASE /\ run[r].pc = "plan" /\ run'[r].cat = run[r].cat /\ run'[r].read = run[r].read
               /\ run'[r].local = catalog /\ task' = task /\ record' = record
               /\ run'[r].pc = IF ShortCircuit(run[r].cat, run[r].read, catalog, Work(r))
                            THEN "done" ELSE "copy"
      <4>1. task'[r] = [p \in Packages |-> WaitingTask] \/ \A p \in Packages : task'[r][p] = WaitingTask
        BY <3>3 DEF TasksIdle
      <4>2. \A p \in Packages : task'[r][p].pc \in {"waiting", "done"}
        BY <3>3 DEF TasksIdle, WaitingTask
      <4>3. run'[r].pc = "copy" => ~ShortCircuit(run[r].cat, run[r].read, run[r].local, Work(r))'
        BY <2>c, <3>u, <3>3
      <4> QED
        BY <2>s, <2>l, <3>3, <4>2, <4>3 DEF ReadsInv
    <3>4. CASE FinishRun(r) /\ run'[r].pc = "done" /\ task' = task
      BY <3>4 DEF FinishRun, JobsInv, JobMirrored
    <3>5. CASE run'[r].pc \in {"idle", "repair", "catalog"}
      BY <3>5
    <3> QED
      BY <2>3, <3>1, <3>2, <3>3, <3>4, <3>5, ControlRun
  <2>4. ASSUME NEW p \in Packages, CopyStep(r, p) \/ WriteStep(r, p)
        PROVE  /\ run[r].pc = "copy" /\ run'[r].pc = "copy"
               /\ run'[r].cat = run[r].cat /\ run'[r].read = run[r].read /\ run'[r].local = run[r].local
               /\ record' = record /\ included' = included
    BY <2>4, PackageFrame, PackageDocuments
  <2>5. CASE /\ run[r].pc = "copy" /\ run'[r].pc = "copy"
             /\ run'[r].cat = run[r].cat /\ run'[r].read = run[r].read /\ run'[r].local = run[r].local
             /\ record' = record /\ included' = included
    BY <2>5, <2>s, <2>l, <2>c DEF ReadsInv
  <2> QED
    BY <2>1, <2>2, <2>3, <2>4, <2>5, StepKinds, PublisherFrame DEF vars, operator, OneRun
<1> QED
  BY <1>1, <1>2, <1>3 DEF ReadsInv

-----------------------------------------------------------------------------
(* While a run copies, the record does not fit what is listed.                *)

\* What is mirrored or carried stays so while the upstream's history grows.
LEMMA BroughtGrows ==
  ASSUME TypeInv, [Next]_vars, UNCHANGED <<root, catalog, heldDesc>>, faults' = 0 => faults = 0,
         NEW p \in Packages, NEW n \in Nat \ {0}
  PROVE  /\ Described(p, n) => Described(p, n)'
         /\ Brought(p, n) => Brought(p, n)'
         /\ n <= Len(releases[p]) /\ Ahead(p, n) => Ahead(p, n)'
         /\ Ahead(p, Len(releases[p])) => Ahead(p, Len(releases[p]))'
<1>1. \A i \in n..Len(releases[p]) : i \in n..Len(releases'[p]) /\ releases'[p][i] = releases[p][i]
  BY HistoryStep
<1>2. Described(p, n) => Described(p, n)'
  BY <1>1 DEF Described
<1>3. Brought(p, n) => Brought(p, n)'
  BY <1>1, <1>2, TakenBackStays DEF Brought
<1>4. ASSUME NEW m \in 0..Len(releases[p]), NEW l \in m..Len(releases'[p]), Ahead(p, m)
      PROVE  \E s \in 1..l : \E j \in s..l :
                root[p].desc = releases'[p][s].desc /\ heldDesc[p] = releases'[p][j].desc
  <2>1. PICK s \in 1..m : \E j \in s..m :
          root[p].desc = releases[p][s].desc /\ heldDesc[p] = releases[p][j].desc
    BY <1>4 DEF Ahead
  <2>2. PICK j \in s..m : root[p].desc = releases[p][s].desc /\ heldDesc[p] = releases[p][j].desc
    BY <2>1
  <2>3. s \in 1..Len(releases[p]) /\ j \in 1..Len(releases[p]) /\ s \in 1..l /\ j \in s..l
    BY HistoryStep
  <2> QED
    BY <2>2, <2>3, HistoryStep
<1>5. n <= Len(releases[p]) /\ Ahead(p, n) => Ahead(p, n)'
  <2>1. SUFFICES ASSUME n <= Len(releases[p]), Ahead(p, n) PROVE Ahead(p, n)'
    OBVIOUS
  <2>2. n \in 0..Len(releases[p]) /\ n \in n..Len(releases'[p])
    BY <2>1, HistoryStep
  <2> QED
    BY <1>4, <2>1, <2>2 DEF Ahead
<1>6. Ahead(p, Len(releases[p])) => Ahead(p, Len(releases[p]))'
  <2>1. Len(releases[p]) \in 0..Len(releases[p]) /\ Len(releases'[p]) \in Len(releases[p])..Len(releases'[p])
    BY HistoryStep
  <2> QED
    BY <1>4, <2>1 DEF Ahead
<1> QED
  BY <1>2, <1>3, <1>5, <1>6

LEMMA CopyingUnfit ==
  TypeInv /\ ReleasesDistinct /\ OrderInv /\ ReadsInv /\ NothingTakenBack
    => \A r \in Runs : run[r].pc = "copy" => ~Fits(listed)
<1> SUFFICES ASSUME TypeInv, ReleasesDistinct, OrderInv, ReadsInv, NothingTakenBack,
                    NEW r \in Runs, run[r].pc = "copy", Fits(listed)
             PROVE  ShortCircuit(run[r].cat, run[r].read, run[r].local, Work(r))
  BY DEF ReadsInv
<1>t. /\ releases \in [Packages -> Seq(Roots)] /\ run[r] \in RunStates
      /\ record \in Records /\ catalog \in Catalogs
      /\ \A p \in Packages : /\ Len(releases[p]) \in Nat /\ listed[p] \in 0..Len(releases[p])
                             /\ run[r].cat[p] \in 0..Len(releases[p])
  BY DEF TypeInv, TypeOK, UpstreamTypes, RunTypes, IndicesOK, TreeTypes, TreeNow, Trees, Fits
<1>1. ASSUME NEW p \in Packages PROVE run[r].cat[p] = listed[p]
  <2>1. run[r].cat[p] <= listed[p]
    BY DEF ReadsInv
  <2>2. CASE listed[p] = 0
    BY <1>t, <2>1, <2>2
  <2>3. CASE listed[p] # 0
    <3>1. listed[p] \in 1..Len(releases[p])
      BY <1>t, <2>3
    <3>2. record.source[p] = releases[p][listed[p]] /\ releases[p][listed[p]] \in Roots
      BY <1>t, <2>3, <3>1 DEF Fits, SourceCatalog
    <3>3. PICK k \in 1..run[r].cat[p] : releases[p][k] = record.source[p]
      BY <1>t, <3>2, NoneAssumption DEF ReadsInv, SourceBy
    <3>4. k \in 1..Len(releases[p])
      BY <1>t, <3>3
    <3>5. k = listed[p]
      BY <3>1, <3>2, <3>3, <3>4 DEF ReleasesDistinct
    <3> QED
      BY <1>t, <2>1, <3>3, <3>5
  <2> QED
    BY <2>2, <2>3
<1>2. SourceCatalog(run[r].cat) = SourceCatalog(listed)
  BY <1>1 DEF SourceCatalog
<1>3. ASSUME NEW p \in Packages PROVE run[r].local[p] = catalog[p]
  <2>1. NotLater(catalog[p], run[r].local[p], releases[p]) /\ NotLater(run[r].local[p], catalog[p], releases[p])
    BY <1>t, NoneAssumption DEF OrderInv, AllNotLater, Fits
  <2>2. catalog[p] \in Roots \cup {None} /\ run[r].local[p] \in Roots \cup {None}
    BY <1>t DEF Catalogs, RunStates
  <2>3. releases[p] \in Seq(Roots) /\ Straight(releases[p])
    BY <1>t, StraightReleases
  <2> QED
    BY <2>1, <2>2, <2>3, NotLaterAntisymmetric
<1>4. run[r].local = catalog
  BY <1>t, <1>3 DEF Catalogs, RunStates
<1>5. run[r].read = CacheRecord(run[r].cat, run[r].local)
  <2>1. run[r].read = record
    BY DEF ReadsInv
  <2>2. record = [source |-> SourceCatalog(listed), mirrored |-> catalog]
    BY <1>t DEF Fits, Records
  <2> QED
    BY <1>2, <1>4, <2>1, <2>2 DEF CacheRecord
<1>6. \A p \in Work(r) : run[r].local[p] # None
  <2> TAKE p \in Work(r)
  <2>1. p \in included /\ run[r].cat[p] # 0 /\ p \in Packages
    BY DEF Work, TypeInv, TypeOK, OperatorTypes
  <2>2. catalog[p] # None
    BY <1>1, <2>1 DEF Fits
  <2> QED
    BY <1>4, <2>2
<1> QED
  BY <1>5, <1>6 DEF ShortCircuit

LEMMA CopyingUnfitNext ==
  (TypeInv /\ ReleasesDistinct /\ OrderInv /\ ReadsInv /\ NothingTakenBack
    => \A r \in Runs : run[r].pc = "copy" => ~Fits(listed))'
  BY CopyingUnfit, PTL

\* A run that finishes without a failure has brought what it was asked for.
LEMMA FinishMirrored ==
  ASSUME TypeInv, JobsInv, NEW r \in Runs, FinishRun(r), ~run[r].failed, run[r].mode # "dry"
  PROVE  Mirrored(run[r].cat)
<1> SUFFICES ASSUME NEW p \in included, run[r].cat[p] # 0 PROVE Brought(p, run[r].cat[p])
  BY DEF Mirrored
<1>0. p \in Packages
  BY DEF TypeInv, TypeOK, OperatorTypes
<1>1. task[r][p].pc = "done" /\ run[r].pc = "copy"
  BY DEF FinishRun, Work, StopsAfter
<1>2. Brought(p, task[r][p].src) /\ run[r].cat[p] <= task[r][p].src
  BY <1>0, <1>1 DEF JobsInv, JobMirrored
<1>3. /\ run[r].cat[p] \in Nat /\ task[r][p].src \in Nat /\ Len(releases[p]) \in Nat
  BY <1>0, JobType DEF TypeInv, IndicesOK, TaskStates
<1>4. \A i \in task[r][p].src..Len(releases[p]) : i \in run[r].cat[p]..Len(releases[p])
  BY <1>2, <1>3
<1> QED
  BY <1>2, <1>4 DEF Brought, Described

\* Nothing that the record speaks of changes.
LEMMA FitsQuiet ==
  ASSUME TypeInv, ReadsInv, [Next]_vars, UNCHANGED <<record, root, catalog, heldDesc>>,
         faults' = 0 => faults = 0, included \subseteq included', included' \subseteq Packages,
         NEW cat, \A p \in Packages : cat[p] \in 0..Len(releases[p]),
         Fits(cat) => Mirrored(cat),
         record # None, record.source = [p \in Packages |-> IF cat[p] = 0 THEN None ELSE releases'[p][cat[p]]],
         record.mirrored = catalog, \A p \in included' : cat[p] # 0 => catalog[p] # None
  PROVE  Mirrored(cat)'
<1>1. SourceCatalog(cat) = [p \in Packages |-> IF cat[p] = 0 THEN None ELSE releases'[p][cat[p]]]
  BY CatalogStays DEF SourceCatalog
<1>2. Fits(cat)
  BY <1>1 DEF Fits
<1>3. ASSUME NEW p \in included', cat[p] # 0 PROVE Brought(p, cat[p])'
  <2>1. p \in Packages /\ p \in included
    BY <1>3 DEF ReadsInv
  <2>2. Brought(p, cat[p])
    BY <1>2, <1>3, <2>1 DEF Mirrored
  <2>3. cat[p] \in Nat \ {0}
    BY <1>3, <2>1, HistoryStep
  <2> QED
    BY <2>1, <2>2, <2>3, BroughtGrows
<1> QED
  BY <1>3 DEF Mirrored

LEMMA MirroredQuiet ==
  ASSUME TypeInv, [Next]_vars, UNCHANGED <<root, catalog, heldDesc, included>>,
         faults' = 0 => faults = 0,
         NEW cat, \A p \in Packages : cat[p] \in 0..Len(releases[p]), Mirrored(cat)
  PROVE  Mirrored(cat)'
<1>1. ASSUME NEW p \in included, cat[p] # 0 PROVE Brought(p, cat[p])'
  <2>1. p \in Packages
    BY DEF TypeInv, TypeOK, OperatorTypes
  <2>2. cat[p] \in Nat \ {0} /\ Brought(p, cat[p])
    BY <1>1, <2>1, HistoryStep DEF Mirrored
  <2> QED
    BY <2>1, <2>2, BroughtGrows
<1> QED
  BY <1>1 DEF Mirrored

-----------------------------------------------------------------------------
(* The packages of a run, and the description objects, whoever steps.         *)

LEMMA SourceGrows ==
  ASSUME TypeInv, [Next]_vars, NEW r \in Runs, NEW p \in Packages, UNCHANGED task,
         task[r][p].pc \notin {"waiting", "done"}
  PROVE  /\ Source(r, p)' = Source(r, p)
         /\ task[r][p].src \in Nat \ {0} /\ task[r][p].src <= Len(releases[p])
<1>1. task[r][p].src \in 1..Len(releases[p]) /\ Len(releases[p]) \in Nat
  BY SourceType, HistoryStep
<1> QED
  BY <1>1, HistoryStep DEF Source

LEMMA JobsStep ==
  ASSUME OneRun, TreeKept, WidensOnly
  PROVE  TypeInv /\ TasksIdle /\ ReadsInv /\ JobsInv /\ TidyInv /\ [Next]_vars => JobsInv'
<1> SUFFICES ASSUME TypeInv, TasksIdle, ReadsInv, JobsInv, TidyInv, [Next]_vars,
                    NEW r \in Runs, run'[r].pc = "copy"
             PROVE  \A p \in Packages : JobMirrored(r, p)'
  BY DEF JobsInv
<1>1. CASE Publisher \/ UNCHANGED vars
  <2>1. UNCHANGED <<run, task, root, catalog, included, heldDesc, faults>>
    BY <1>1, PublisherFrame DEF vars, destination, tree, operator
  <2> TAKE p \in Packages
  <2>2. JobMirrored(r, p)
    BY <2>1 DEF JobsInv
  <2>3. task[r][p].pc \notin {"waiting", "done"} => Source(r, p)' = Source(r, p)
    BY <2>1, SourceGrows
  <2>4. task[r][p].pc = "done" /\ Brought(p, task[r][p].src) => Brought(p, task[r][p].src)'
    <3>1. SUFFICES ASSUME task[r][p].pc = "done", Brought(p, task[r][p].src)
                   PROVE  Brought(p, task[r][p].src)'
      OBVIOUS
    <3>2. task[r][p].src \in Nat \ {0}
      <4>1. run[r].cat[p] # 0 /\ run[r].cat[p] <= task[r][p].src
        BY <2>2, <3>1 DEF JobMirrored, Work
      <4>2. run[r].cat[p] \in Nat /\ task[r][p].src \in Nat
        BY JobType DEF TypeInv, IndicesOK, TaskStates
      <4> QED
        BY <4>1, <4>2
    <3> QED
      BY <2>1, <3>1, <3>2, BroughtGrows
  <2> QED
    BY <2>1, <2>2, <2>3, <2>4 DEF JobMirrored, Work, Merging
<1>2. CASE Interference
  BY <1>2, OperatorMoves
<1>3. CASE Control(r)
  <2>1. run[r].pc = "plan" /\ run'[r].local = catalog /\ UNCHANGED <<catalog, task>>
    BY <1>3, ControlRun
  <2>2. \A p \in Packages : task'[r][p] = WaitingTask
    BY <2>1 DEF TasksIdle
  <2> QED
    BY <2>1, <2>2 DEF JobMirrored, WaitingTask, Merging
<1>4. ASSUME NEW s \in Packages, CopyStep(r, s) \/ WriteStep(r, s)
      PROVE  \A p \in Packages : JobMirrored(r, p)'
  <2>1. \A p \in Packages : PackageInv(r, p)
    BY <1>4, PackageFrame DEF PackageInv, JobsInv, TidyInv
  <2> QED
    BY <1>4, <2>1, PackageStep DEF PackageInv
<1> QED
  BY <1>1, <1>2, <1>3, <1>4, StepKinds DEF OneRun

LEMMA TidyStep ==
  ASSUME OneRun, TreeKept, WidensOnly
  PROVE  TypeInv /\ TasksIdle /\ ReadsInv /\ JobsInv /\ TidyInv /\ [Next]_vars => TidyInv'
<1> SUFFICES ASSUME TypeInv, TasksIdle, ReadsInv, JobsInv, TidyInv, [Next]_vars
             PROVE  TidyInv'
  OBVIOUS
<1>1. ASSUME UNCHANGED <<root, catalog, described, heldDesc, config, task, faults>>
      PROVE  TidyInv'
  <2> SUFFICES ASSUME NEW p \in Packages PROVE PackageTidy(p)' /\ \A r \in Runs : JobTidy(r, p)'
    BY DEF TidyInv
  <2>1. PackageTidy(p) /\ \A r \in Runs : JobTidy(r, p)
    BY DEF TidyInv
  <2>2. PackageTidy(p)'
    <3>1. Ahead(p, Len(releases[p])) => Ahead(p, Len(releases[p]))'
      BY <1>1, BroughtGrows, 1 \in Nat \ {0}
    <3> QED
      BY <1>1, <2>1, <3>1 DEF PackageTidy
  <2>3. ASSUME NEW r \in Runs PROVE JobTidy(r, p)'
    <3>1. CASE task[r][p].pc \in {"waiting", "done"}
      BY <1>1, <3>1 DEF JobTidy, Writing
    <3>2. CASE task[r][p].pc \notin {"waiting", "done"}
      <4>1. /\ Source(r, p)' = Source(r, p)
            /\ task[r][p].src \in Nat \ {0} /\ task[r][p].src <= Len(releases[p])
        BY <1>1, <3>2, SourceGrows
      <4>2. /\ Described(p, task[r][p].src) => Described(p, task[r][p].src)'
            /\ Ahead(p, task[r][p].src) => Ahead(p, task[r][p].src)'
        BY <1>1, <4>1, BroughtGrows
      <4> QED
        BY <1>1, <2>1, <4>1, <4>2 DEF JobTidy
    <3> QED
      BY <3>1, <3>2
  <2> QED
    BY <2>2, <2>3
<1>2. ASSUME NEW r \in Runs, Control(r) PROVE TidyInv'
  <2>1. UNCHANGED <<releases, root, described, heldDesc, config>>
    BY <1>2, ControlFrame DEF upstream, destination, tree
  <2>2. /\ task \in [Runs -> [Packages -> TaskStates]] /\ faults \in Nat
    BY DEF TypeInv, TypeOK, RunTypes
  <2>3. \A q \in Runs, p \in Packages : task'[q][p] = task[q][p] \/ task'[q][p] = WaitingTask
    BY <1>2, <2>2, ControlMoves
  <2>4. faults' = 0 => /\ faults = 0
                       /\ \A q \in Runs, p \in Packages :
                            task[q][p].pc \in Writing => task'[q][p] = task[q][p]
    <3>1. CASE task' = task /\ faults' = faults
      BY <3>1
    <3>2. CASE AbortRepair(r) \/ ExitRun(r)
      <4>1. faults' = faults /\ run[r].pc \in {"repair", "done"}
        BY <3>2 DEF AbortRepair, ExitRun
      <4>2. \A p \in Packages : task[r][p].pc \in {"waiting", "done"}
        BY <4>1 DEF TasksIdle, ReadsInv, WaitingTask
      <4> QED
        BY <4>1, <4>2 DEF Writing, OneRun
    <3>3. CASE StopRun(r)
      BY <2>2, <3>3 DEF StopRun, Failure
    <3> QED
      BY <1>2, <3>1, <3>2, <3>3 DEF Control, RunStep, StartRun, RepairCatalog, FetchCatalog,
         ReadRecord, PlanSource, FinishRun
  <2>5. ASSUME NEW p \in Packages PROVE PackageTidy(p)'
    <3>1. \A q \in Runs : task'[q][p].pc \notin Writing /\ faults' = 0 => task[q][p].pc \notin Writing
      BY <2>4
    <3> QED
      BY <2>1, <2>4, <3>1 DEF TidyInv, PackageTidy, Ahead
  <2>6. ASSUME NEW p \in Packages, NEW q \in Runs PROVE JobTidy(q, p)'
    <3>1. CASE task'[q][p] = WaitingTask
      BY <3>1 DEF JobTidy, WaitingTask, Writing
    <3>2. CASE task'[q][p] = task[q][p]
      BY <2>1, <2>4, <3>2 DEF TidyInv, JobTidy, Source, Described, Ahead
    <3> QED
      BY <2>3, <3>1, <3>2
  <2> QED
    BY <2>5, <2>6 DEF TidyInv
<1>3. ASSUME NEW r \in Runs, NEW s \in Packages, CopyStep(r, s) \/ WriteStep(r, s) PROVE TidyInv'
  <2>1. \A p \in Packages : PackageInv(r, p)
    BY <1>3, PackageFrame DEF PackageInv, JobsInv, TidyInv
  <2>2. \A p \in Packages : PackageInv(r, p)'
    BY <1>3, <2>1, PackageStep
  <2> QED
    BY <2>2 DEF PackageInv, TidyInv, OneRun
<1>4. CASE Publisher \/ Interference \/ UNCHANGED vars
  BY <1>1, <1>4, PublisherFrame, OperatorMoves DEF vars, destination, tree
<1> QED
  BY <1>2, <1>3, <1>4, StepKinds

LEMMA RecordStep ==
  ASSUME OneRun, TreeKept, WidensOnly
  PROVE  /\ TypeInv /\ TypeInv' /\ ReleasesDistinct /\ ReleasesDistinct'
         /\ OrderInv /\ OrderInv' /\ ReadsInv /\ ReadsInv' /\ JobsInv /\ RecordInv /\ [Next]_vars
         => RecordInv'
<1> SUFFICES ASSUME TypeInv, TypeInv', ReleasesDistinct, ReleasesDistinct', OrderInv, OrderInv',
                    ReadsInv, ReadsInv', JobsInv, RecordInv, [Next]_vars, NothingTakenBack'
             PROVE  /\ Fits(listed)' => Mirrored(listed)'
                    /\ \A r \in Runs : run'[r].pc \in {"record", "plan"} /\ Fits(run[r].cat)'
                                         => Mirrored(run[r].cat)'
                    /\ \A r \in Runs : Successful(r)' => Mirrored(run[r].cat)'
  BY DEF RecordInv
<1>0. NothingTakenBack
  BY TakenBackStays
<1>i. included' \subseteq Packages /\ included \subseteq included'
  BY IncludedMoves DEF TypeInv, TypeOK, OperatorTypes
<1>t. /\ \A p \in Packages : listed[p] \in 0..Len(releases[p]) /\ Len(releases[p]) \in Nat
      /\ \A r \in Runs, p \in Packages : run[r].cat[p] \in 0..Len(releases[p])
      /\ \A r \in Runs : run[r] \in RunStates
      /\ record \in Records \cup {None} /\ faults \in Nat
      /\ catalog \in Catalogs /\ root \in Catalogs
  BY HistoryStep DEF TypeInv, TypeOK, IndicesOK, RunTypes, TreeTypes, TreeNow, Trees
\* Where the documents and the record stay.
<1>q. ASSUME UNCHANGED <<record, root, catalog, heldDesc>>, faults' = 0 => faults = 0
      PROVE  /\ listed' = listed => (Fits(listed)' => Mirrored(listed)')
             /\ \A r \in Runs : /\ run[r].pc \in {"record", "plan"} /\ run'[r].cat = run[r].cat
                                /\ Fits(run[r].cat)'
                                => Mirrored(run[r].cat)'
  <2>1. ASSUME listed' = listed, Fits(listed)' PROVE Mirrored(listed)'
    <3>1. /\ record # None /\ record.mirrored = catalog
          /\ record.source = [p \in Packages |-> IF listed[p] = 0 THEN None ELSE releases'[p][listed[p]]]
          /\ \A p \in included' : listed[p] # 0 => catalog[p] # None
      BY <1>q, <2>1 DEF Fits, SourceCatalog
    <3>2. Fits(listed) => Mirrored(listed)
      BY <1>0 DEF RecordInv
    <3> QED
      BY <1>q, <1>i, <1>t, <2>1, <3>1, <3>2, FitsQuiet
  <2>2. ASSUME NEW r \in Runs, run[r].pc \in {"record", "plan"}, run'[r].cat = run[r].cat,
               Fits(run[r].cat)'
        PROVE  Mirrored(run[r].cat)'
    <3>1. /\ record # None /\ record.mirrored = catalog
          /\ record.source = [p \in Packages |-> IF run[r].cat[p] = 0 THEN None
                                                 ELSE releases'[p][run[r].cat[p]]]
          /\ \A p \in included' : run[r].cat[p] # 0 => catalog[p] # None
      BY <1>q, <2>2 DEF Fits, SourceCatalog
    <3>2. Fits(run[r].cat) => Mirrored(run[r].cat)
      BY <1>0, <2>2 DEF RecordInv
    <3>3. \A p \in Packages : run[r].cat[p] \in 0..Len(releases[p])
      BY <1>t
    <3> QED
      BY <1>q, <1>i, <2>2, <3>1, <3>2, <3>3, FitsQuiet
  <2> QED
    BY <2>1, <2>2
<1>1. ASSUME Fits(listed)' PROVE Mirrored(listed)'
  <2>0. /\ record' # None /\ record'.mirrored = catalog'
        /\ \A p \in Packages : record'.source[p] =
             IF listed'[p] = 0 THEN None ELSE releases'[p][listed'[p]]
    BY <1>1 DEF Fits, SourceCatalog
  <2>1. ASSUME NEW p \in Packages, ListRoot(p) PROVE FALSE
    <3>1. /\ record' = record /\ releases' = releases /\ listed[p] # Len(releases[p])
          /\ listed'[p] = Len(releases[p])
      BY <2>1, <1>t DEF ListRoot, TypeInv, TypeOK, UpstreamTypes
    <3>2. Len(releases[p]) \in 1..Len(releases[p]) /\ releases[p] \in Seq(Roots)
      BY <1>t, <3>1, HistoryStep
    <3>3. record.source[p] = releases[p][Len(releases[p])] /\ record.source[p] \in Roots
      BY <2>0, <3>1, <3>2
    <3>4. PICK k \in 1..listed[p] : releases[p][k] = record.source[p]
      BY <2>0, <3>1, <3>3, NoneAssumption DEF ReadsInv, SourceBy
    <3>5. k \in 1..Len(releases[p]) /\ k = Len(releases[p])
      BY <1>t, <3>2, <3>3, <3>4 DEF ReleasesDistinct
    <3> QED
      BY <1>t, <3>1, <3>4, <3>5
  <2>2. ASSUME NEW p \in Packages, NEW doc \in UpstreamRoots, PublishRoot(p, doc)
        PROVE  Mirrored(listed)'
    BY <1>1, <1>q, <2>2 DEF PublishRoot, tree, destination
  <2>3. CASE Interference
    BY <1>1, <1>q, <2>0, <2>3, OperatorMoves DEF tree, destination, upstream
  <2>4. ASSUME NEW r \in Runs, Control(r) PROVE Mirrored(listed)'
    <3>1. /\ UNCHANGED <<releases, listed, included, root, heldDesc>> /\ (faults' = 0 => faults = 0)
      <4>1. faults' = faults \/ faults' = faults + 1
        BY <2>4 DEF Control, RunStep, StopRun, StartRun, RepairCatalog, AbortRepair, FetchCatalog,
           ReadRecord, PlanSource, FinishRun, ExitRun, Failure
      <4> QED
        BY <1>t, <2>4, <4>1, ControlFrame DEF upstream, operator, destination
    <3>2. CASE record' = record /\ catalog' = catalog
      BY <1>1, <1>q, <3>1, <3>2
    <3>3. CASE RepairCatalog(r)
      <4>1. record' = record /\ catalog' = root
        BY <3>3 DEF RepairCatalog
      <4>2. record.mirrored = root
        BY <2>0, <4>1
      <4>3. ASSUME NEW p \in Packages PROVE catalog[p] = root[p]
        <5>1. NotLater(root[p], catalog[p], releases[p]) /\ NotLater(catalog[p], root[p], releases[p])
          BY <1>0, <2>0, <4>1, <4>2 DEF OrderInv, AllNotLater
        <5>2. catalog[p] \in Roots \cup {None} /\ root[p] \in Roots \cup {None}
          BY <1>t DEF Catalogs
        <5>3. releases[p] \in Seq(Roots) /\ Straight(releases[p])
          BY <1>0, HistoryStep, StraightReleases
        <5> QED
          BY <5>1, <5>2, <5>3, NotLaterAntisymmetric
      <4>4. catalog = root
        BY <1>t, <4>3 DEF Catalogs
      <4> QED
        BY <3>2, <4>1, <4>4
    <3>4. CASE FinishRun(r) /\ record' = CacheRecord(run[r].cat, run[r].local)
               /\ ~run[r].failed /\ run[r].mode # "dry"
      <4>1. record'.source = SourceCatalog(run[r].cat) /\ UNCHANGED <<catalog, faults>>
        BY <3>4 DEF CacheRecord, FinishRun, tree
      <4>2. ASSUME NEW p \in Packages PROVE run[r].cat[p] = listed[p]
        <5>1. /\ run[r].cat[p] # 0 => releases[p][run[r].cat[p]] \in Roots
              /\ listed[p] # 0 => releases[p][listed[p]] \in Roots
          BY <1>t, CatalogStays
        <5>2. (IF run[r].cat[p] = 0 THEN None ELSE releases[p][run[r].cat[p]])
               = IF listed[p] = 0 THEN None ELSE releases[p][listed[p]]
          BY <2>0, <3>1, <4>1 DEF SourceCatalog
        <5> QED
          BY <1>t, <5>1, <5>2, NoneAssumption DEF ReleasesDistinct
      <4>3. Mirrored(run[r].cat)
        BY <3>4, FinishMirrored
      <4>4. Mirrored(listed)
        BY <4>2, <4>3, <1>t DEF Mirrored, TypeInv, TypeOK, OperatorTypes
      <4> QED
        BY <1>t, <3>1, <4>1, <4>4, MirroredQuiet
    <3>5. CASE FinishRun(r) /\ record' = record
      BY <3>2, <3>5 DEF FinishRun, tree
    <3>6. \/ RepairCatalog(r)
          \/ catalog' = catalog /\ (record' = record \/ FinishRun(r))
      BY <2>4 DEF Control, RunStep, StopRun, StartRun, AbortRepair, FetchCatalog, ReadRecord,
         PlanSource, ExitRun, FinishRun, tree
    <3>7. FinishRun(r) => \/ record' = record
                          \/ /\ record' = CacheRecord(run[r].cat, run[r].local)
                             /\ ~run[r].failed /\ run[r].mode # "dry"
      BY DEF FinishRun, RecordDigest
    <3> QED
      BY <3>2, <3>3, <3>4, <3>5, <3>6, <3>7
  <2>5. ASSUME NEW r \in Runs, NEW p \in Packages, CopyStep(r, p) \/ WriteStep(r, p) PROVE FALSE
    <3>1. run'[r].pc = "copy"
      BY <2>5, PackageFrame
    <3> QED
      BY <1>1, <3>1, CopyingUnfitNext
  <2>6. CASE UNCHANGED vars
    BY <1>1, <1>q, <2>6 DEF vars, tree, destination, upstream
  <2> QED
    BY <2>1, <2>2, <2>3, <2>4, <2>5, <2>6, StepKinds DEF Publisher
<1>2. ASSUME NEW r \in Runs
      PROVE  /\ run'[r].pc \in {"record", "plan"} /\ Fits(run[r].cat)' => Mirrored(run[r].cat)'
             /\ Successful(r)' => Mirrored(run[r].cat)'
  <2>c. \A p \in Packages : run[r].cat[p] \in 0..Len(releases[p])
    BY <1>t
  <2>1. CASE Publisher \/ UNCHANGED vars
    <3>1. UNCHANGED <<record, root, catalog, heldDesc, faults, run, included>>
      BY <2>1, PublisherFrame DEF vars, tree, destination, operator
    <3>2. Successful(r)' => Mirrored(run[r].cat)
      BY <1>0, <3>1 DEF RecordInv, Successful
    <3> QED
      BY <1>q, <2>c, <3>1, <3>2, MirroredQuiet
  <2>2. CASE Interference
    BY <2>2, OperatorMoves DEF Successful
  <2>3. CASE Control(r)
    <3>u. UNCHANGED <<releases, listed, included, root, heldDesc>>
      BY <2>3, ControlFrame DEF upstream, operator, destination
    <3>1. CASE run'[r].pc \in {"idle", "repair", "catalog"}
      BY <3>1 DEF Successful
    <3>2. CASE run'[r].pc = "record" /\ run'[r].cat = listed
      BY <1>1, <3>u, <3>2 DEF Successful, Fits, Mirrored
    <3>3. CASE /\ run[r].pc = "record" /\ run'[r].pc = "plan" /\ run'[r].cat = run[r].cat
               /\ UNCHANGED <<record, catalog, faults>>
      BY <1>q, <3>u, <3>3 DEF Successful
    <3>4. CASE /\ run[r].pc = "plan" /\ run'[r].cat = run[r].cat
               /\ run'[r].pc = IF ShortCircuit(run[r].cat, run[r].read, catalog, Work(r))
                               THEN "done" ELSE "copy"
               /\ UNCHANGED <<record, catalog, faults>>
      <4> SUFFICES ASSUME ShortCircuit(run[r].cat, run[r].read, catalog, Work(r))
                   PROVE  Mirrored(run[r].cat)'
        BY <3>4 DEF Successful
      <4>1. record = CacheRecord(run[r].cat, catalog)
        BY <3>4 DEF ShortCircuit, ReadsInv
      <4>2. record # None
        <5>1. SourceCatalog(run[r].cat) \in Catalogs
          BY <2>c, CatalogStays DEF SourceCatalog, Catalogs
        <5>2. record \in Records
          BY <1>t, <4>1, <5>1 DEF CacheRecord, Records
        <5> QED
          BY <5>2, NoneAssumption
      <4>3. Fits(run[r].cat)
        BY <4>1, <4>2 DEF Fits, CacheRecord, ShortCircuit, Work
      <4>4. Mirrored(run[r].cat)
        BY <1>0, <3>4, <4>3 DEF RecordInv
      <4> QED
        BY <2>c, <3>u, <3>4, <4>4, MirroredQuiet
    <3>5. CASE /\ FinishRun(r) /\ run'[r].pc = "done" /\ run'[r].cat = run[r].cat
               /\ run'[r].mode = run[r].mode /\ run'[r].failed = run[r].failed
               /\ UNCHANGED <<catalog, faults>>
      <4> SUFFICES ASSUME ~run[r].failed, run[r].mode # "dry"
                   PROVE  Mirrored(run[r].cat)'
        BY <3>5 DEF Successful
      <4>1. Mirrored(run[r].cat)
        BY <3>5, FinishMirrored
      <4> QED
        BY <2>c, <3>u, <3>5, <4>1, MirroredQuiet
    <3> QED
      BY <2>3, <3>1, <3>2, <3>3, <3>4, <3>5, ControlRun
  <2>4. ASSUME NEW p \in Packages, CopyStep(r, p) \/ WriteStep(r, p)
        PROVE  run'[r].pc = "copy"
    BY <2>4, PackageFrame
  <2> QED
    BY <2>1, <2>2, <2>3, <2>4, StepKinds DEF OneRun, Successful
<1> QED
  BY <1>1, <1>2

-----------------------------------------------------------------------------

\* One run at a time on a tree nobody else writes to; filters that only widen; no root
\* document served twice.
SyncInv ==
    /\ TypeInv /\ TasksIdle /\ BaseCurrent
    /\ ReleasesDistinct /\ OriginInv /\ OrderInv
    /\ ReadsInv /\ JobsInv /\ TidyInv /\ RecordInv

LEMMA SyncInit == Init => SyncInv
<1> SUFFICES ASSUME Init PROVE SyncInv
  OBVIOUS
<1>1. TypeInv /\ TasksIdle /\ BaseCurrent
  BY InitTypes, ObjectsInit, BaseInit DEF ObjectsInv
<1>2. \A p \in Packages : /\ releases[p] = <<>> /\ root[p] = None /\ catalog[p] = None
                          /\ \A r \in Runs : task[r][p] = WaitingTask
  BY DEF Init, NothingListed
<1>3. record = None /\ \A r \in Runs : run[r] = IdleRun
  BY DEF Init
<1>4. ReleasesDistinct /\ OriginInv
  BY <1>2 DEF ReleasesDistinct, OriginInv
<1>5. OrderInv
  BY <1>2, <1>3 DEF OrderInv, AllNotLater, NotLater, IdleRun
<1>6. ReadsInv /\ JobsInv
  BY <1>2, <1>3 DEF ReadsInv, JobsInv, IdleRun
<1>7. TidyInv
  BY <1>2 DEF TidyInv, PackageTidy, JobTidy, WaitingTask, Writing
<1>8. RecordInv
  BY <1>3 DEF RecordInv, Fits, Successful, IdleRun
<1> QED
  BY <1>1, <1>4, <1>5, <1>6, <1>7, <1>8 DEF SyncInv

LEMMA SyncStep ==
  ASSUME OneRun, TreeKept, WidensOnly, ~Reverts
  PROVE  SyncInv /\ [Next]_vars => SyncInv'
<1> SUFFICES ASSUME SyncInv, [Next]_vars PROVE SyncInv'
  OBVIOUS
<1> USE DEF SyncInv
<1>1. TypeInv' /\ TasksIdle' /\ BaseCurrent'
  BY TypeStep, IdleStep, BaseStep
<1>2. ReleasesDistinct' /\ OriginInv'
  BY DistinctStep, OriginStep
<1>3. OrderInv' /\ ReadsInv'
  BY <1>1, OrderStep, ReadsStep
<1>4. JobsInv' /\ TidyInv'
  BY JobsStep, TidyStep
<1>5. RecordInv'
  BY <1>1, <1>2, <1>3, RecordStep
<1> QED
  BY <1>1, <1>2, <1>3, <1>4, <1>5

LEMMA SyncHolds ==
  ASSUME OneRun, TreeKept, WidensOnly, ~Reverts
  PROVE  Spec => []SyncInv
<1>1. Init => SyncInv
  BY SyncInit
<1>2. SyncInv /\ [Next]_vars => SyncInv'
  BY SyncStep
<1> QED
  BY <1>1, <1>2, PTL DEF Spec

\* A run that reports no failure has mirrored what it was asked for (registry_sync.rs
\* copy_sources, plan.rs short_circuit): a record that fits again is of the tree as it is.
THEOREM SuccessMirrored ==
  ASSUME OneRun, TreeKept, WidensOnly, ~Reverts
  PROVE  Spec => []SuccessfulRunMirrored
<1>1. SyncInv => SuccessfulRunMirrored
  <2> SUFFICES ASSUME SyncInv, NothingTakenBack, NEW r \in Runs, Successful(r), NEW p \in Work(r)
               PROVE  /\ \E i \in run[r].cat[p]..Len(releases[p]) : Covers(root[p], releases[p][i])
                      /\ catalog[p] = root[p]
    BY DEF SuccessfulRunMirrored
  <2>1. Mirrored(run[r].cat)
    BY DEF SyncInv, RecordInv
  <2> QED
    BY <2>1 DEF Mirrored, Brought, Work
<1> QED
  BY <1>1, SyncHolds, PTL

\* What the prune keeps and what the last steps of a package leave (index_write.rs
\* prune_description_objects, registry_copy.rs the `__ocx.desc` copy, ensure_config_json).
THEOREM DescriptionsHeld ==
  ASSUME OneRun, TreeKept, WidensOnly, ~Reverts
  PROVE  Spec => []DescriptionsKept
<1>1. SyncInv => DescriptionsKept
  <2> SUFFICES ASSUME SyncInv PROVE DescriptionsKept
    OBVIOUS
  <2>1. \A p \in Packages : root[p] # None => root[p].desc \in described[p]
    BY DEF SyncInv, TidyInv, PackageTidy
  <2>2. ASSUME faults = 0, NothingTakenBack, NEW r \in Runs, Successful(r), NEW p \in Work(r)
        PROVE  /\ \E i \in run[r].cat[p]..Len(releases[p]) : heldDesc[p] = releases[p][i].desc
               /\ root[p] # None => described[p] = {root[p].desc} /\ config
    <3>0. p \in included /\ p \in Packages /\ run[r].cat[p] # 0
      BY DEF SyncInv, Work, TypeInv, TypeOK, OperatorTypes
    <3>1. Described(p, run[r].cat[p])
      BY <2>2, <3>0 DEF SyncInv, RecordInv, Mirrored, Brought
    <3>2. \A q \in Runs : task[q][p].pc \notin Writing
      BY <2>2, <3>0 DEF SyncInv, ReadsInv, Successful, OneRun, Writing
    <3> QED
      BY <2>2, <3>0, <3>1, <3>2 DEF SyncInv, TidyInv, PackageTidy, Described
  <2> QED
    BY <2>1, <2>2 DEF DescriptionsKept
<1> QED
  BY <1>1, SyncHolds, PTL

=============================================================================
