--------------------------- MODULE ScmOperatorProofs ---------------------------
(***************************************************************************)
(* Theorems about the two controllers together.  What was proved of each of*)
(* them alone is used through an instance of its module of proofs, over the*)
(* variables of the composition: a step of ScmOperator is a step of one of *)
(* them, or a restart of both, and the other sees it as its environment.   *)
(***************************************************************************)
EXTENDS ScmOperator, TLAPS

Prj == INSTANCE GitlabProjectProofs WITH
    Names <- ProjectNames, Pipelines <- PipelineIds \X Statuses, Specs <- ProjectSpecs,
    cached <- crCopy, alerts <- NotifierResolves,
    queued <- pQueued, timer <- pTimer, pc <- pPc

Ntf == INSTANCE DeliveryProofs WITH
    Projects <- {Name}, Shas <- Commits, NoSha <- None, NoCur <- None,
    CreationTimes <- {CreatedAt}, Specs <- NotifierSpecs,
    project <- Listing, cached <- notifierCopy, secret <- webhook,
    queued <- nQueued, timer <- nTimer, pc <- nPc

\* The constants of the composition are such as the parts assume.
LEMMA ProjectConstants == Prj!ProjectAssumption
BY OperatorAssumption DEF Prj!ProjectAssumption, Prj!Visibilities

LEMMA NotifierConstants == Ntf!NotifierAssumption /\ Ntf!ServiceAssumption
BY OperatorAssumption
  DEF Ntf!NotifierAssumption, Ntf!ServiceAssumption, Ntf!Events, Ntf!Providers, ValidEvents,
      Providers

-------------------------------------------------------------------------------
(* P and Prj are two instances of one module over the same variables, and so  *)
(* are N and Ntf: unfolded, their definitions are the same.                   *)

LEMMA SameProject ==
    /\ P!Reconcile => Prj!Reconcile
    /\ P!SyncCache => Prj!SyncCache
    /\ P!TimerFires => Prj!TimerFires
    /\ \A t, c : P!Push(t, c) => Prj!Push(t, c)
BY
  DEF P!Targets, Prj!Targets, P!cluster, Prj!cluster, P!queue, Prj!queue, P!locals, Prj!locals,
      P!NoReason, Prj!NoReason, P!NoSpec, Prj!NoSpec, P!NoStatus, Prj!NoStatus, P!Gone,
      Prj!Gone, P!NotOnGitlab, Prj!NotOnGitlab, P!NothingFound, Prj!NothingFound, P!ResetLocals,
      Prj!ResetLocals, P!Change, Prj!Change, P!Fault, Prj!Fault, P!Target, Prj!Target,
      P!OnGitlab, Prj!OnGitlab, P!Push, Prj!Push, P!SyncCache, Prj!SyncCache, P!TimerFires,
      Prj!TimerFires, P!Goal, Prj!Goal, P!Goto, Prj!Goto, P!Finish, Prj!Finish, P!Fail,
      Prj!Fail, P!Start, Prj!Start, P!NeedsFinalizer, Prj!NeedsFinalizer, P!HandleDeletion,
      Prj!HandleDeletion, P!Missing, Prj!Missing, P!Resolve, Prj!Resolve, P!Merged, Prj!Merged,
      P!MergedStatus, Prj!MergedStatus, P!PatchedStatus, Prj!PatchedStatus, P!Condition,
      Prj!Condition, P!Failed, Prj!Failed, P!ConditionStored, Prj!ConditionStored,
      P!ConditionLost, Prj!ConditionLost, P!ReportFailure, Prj!ReportFailure, P!ReportSkip,
      Prj!ReportSkip, P!AddFinalizer, Prj!AddFinalizer, P!AddFinalizerFails,
      Prj!AddFinalizerFails, P!ResolveNotifier, Prj!ResolveNotifier, P!Drifts, Prj!Drifts,
      P!LookUp, Prj!LookUp, P!Write, Prj!Write, P!Created, Prj!Created, P!Updated, Prj!Updated,
      P!CreateProject, Prj!CreateProject, P!UpdateProject, Prj!UpdateProject, P!GitlabFails,
      Prj!GitlabFails, P!Stamped, Prj!Stamped, P!Stamp, Prj!Stamp, P!StampFails, Prj!StampFails,
      P!GetBranchCommit, Prj!GetBranchCommit, P!GetLastPipeline, Prj!GetLastPipeline,
      P!SuccessStatus, Prj!SuccessStatus, P!UpdateStatus, Prj!UpdateStatus, P!Unstamped,
      Prj!Unstamped, P!FinalizeProject, Prj!FinalizeProject, P!Unfinalized, Prj!Unfinalized,
      P!RemoveFinalizer, Prj!RemoveFinalizer, P!RemoveFinalizerFails, Prj!RemoveFinalizerFails,
      P!NothingToFinalize, Prj!NothingToFinalize, P!Reconcile, Prj!Reconcile

LEMMA SameNotifier ==
    /\ N!Reconcile => Ntf!Reconcile
    /\ N!Resync => Ntf!Resync
    /\ N!TimerFires => Ntf!TimerFires
BY
  DEF N!Events, Ntf!Events, N!Observation, Ntf!Observation, N!Nothing, Ntf!Nothing, N!EventOf,
      Ntf!EventOf, N!CommitFires, Ntf!CommitFires, N!PipelineFires, Ntf!PipelineFires,
      N!DetectEvents, Ntf!DetectEvents, N!Detected, Ntf!Detected, N!cluster, Ntf!cluster,
      N!queue, Ntf!queue, N!locals, Ntf!locals, N!history, Ntf!history, N!NoVerdict,
      Ntf!NoVerdict, N!Absent, Ntf!Absent, N!NoProject, Ntf!NoProject, N!ResetLocals,
      Ntf!ResetLocals, N!Fault, Ntf!Fault, N!Resync, Ntf!Resync, N!TimerFires, Ntf!TimerFires,
      N!GetNotifier, Ntf!GetNotifier, N!Adapters, Ntf!Adapters, N!Start, Ntf!Start, N!GetFails,
      Ntf!GetFails, N!Goto,
      Ntf!Goto, N!ResolveProviders, Ntf!ResolveProviders, N!HealthCheck, Ntf!HealthCheck,
      N!Finish, Ntf!Finish, N!FindLinkedProjects, Ntf!FindLinkedProjects, N!ListFails,
      Ntf!ListFails, N!Unreconciled, Ntf!Unreconciled, N!FirstSeen, Ntf!FirstSeen, N!Undated,
      Ntf!Undated, N!Predates, Ntf!Predates, N!EventsOf, Ntf!EventsOf, N!NextState,
      Ntf!NextState, N!Processing, Ntf!Processing, N!SkipProject, Ntf!SkipProject,
      N!SeedProject, Ntf!SeedProject, N!Detecting, Ntf!Detecting, N!Panic, Ntf!Panic,
      N!DetectProject, Ntf!DetectProject, N!IsCommit, Ntf!IsCommit, N!Message, Ntf!Message,
      N!Repeats, Ntf!Repeats, N!Received, Ntf!Received, N!NextProject, Ntf!NextProject,
      N!SendOk, Ntf!SendOk, N!SendFails, Ntf!SendFails, N!Merged, Ntf!Merged, N!MergeState,
      Ntf!MergeState, N!Patched, Ntf!Patched, N!AtPatch, Ntf!AtPatch, N!Requeues, Ntf!Requeues,
      N!PatchOk, Ntf!PatchOk, N!PatchFails, Ntf!PatchFails, N!Reconcile, Ntf!Reconcile

-------------------------------------------------------------------------------
(* Steps.                                                                    *)

\* What the Notifier controller lists is what its own module lets it list.
LEMMA ListedType == \A r \in Prj!Resource : Listed(r) \in Ntf!Seen
<1> SUFFICES ASSUME NEW r \in Prj!Resource
             PROVE  Listed(r) \in Ntf!Seen
  OBVIOUS
<1>1. /\ r.exists \in BOOLEAN /\ r.spec.notified \in BOOLEAN
      /\ r.status.commit \in Commits \cup {None}
      /\ r.status.pipeline \in (PipelineIds \X Statuses) \cup {None}
  BY DEF Prj!Resource, Prj!SpecType, Prj!StatusType
<1>2. r.status.pipeline # None =>
          r.status.pipeline[1] \in PipelineIds /\ r.status.pipeline[2] \in Statuses
  BY <1>1
<1> QED
  BY <1>1, <1>2 DEF Listed, Ntf!Seen, Ntf!Observation

\* Seen from the Notifier's side: a step of the project's side may renew the listing and
\* the queue, and use up a bound.
Elsewhere ==
    /\ UNCHANGED <<notifier, notifierCopy, webhook, nTimer, nPc, base, mem, verdict, snap, todo,
                   cur, toSend, delivered, seeded, lastSent, dups, swaps, panicked>>
    /\ nQueued' \in BOOLEAN /\ changes' \in Nat
    /\ faults' \in {faults, faults + 1}

\* Seen from the project's side: a step of the Notifier's side may use up a fault.
Aside ==
    /\ UNCHANGED <<cr, crCopy, groups, token, NotifierResolves, scm, pVars, changes>>
    /\ faults' \in {faults, faults + 1}

\* At most one call fails in a step of the worker, and it leaves the informers alone.
LEMMA WorkerFrame ==
    Prj!Reconcile =>
        faults' \in {faults, faults + 1} /\ UNCHANGED <<crCopy, changes>>
<1> SUFFICES ASSUME Prj!Reconcile
             PROVE  faults' \in {faults, faults + 1} /\ UNCHANGED <<crCopy, changes>>
  OBVIOUS
<1> USE DEF Prj!Fault, Prj!Goto, Prj!cluster
<1>1. CASE Prj!Start \/ Prj!Resolve \/ Prj!AddFinalizer \/ Prj!ResolveNotifier \/ Prj!LookUp
           \/ Prj!CreateProject \/ Prj!UpdateProject \/ Prj!RemoveFinalizer
           \/ Prj!NothingToFinalize
  BY <1>1 DEF Prj!Start, Prj!Resolve, Prj!AddFinalizer, Prj!ResolveNotifier, Prj!LookUp,
     Prj!CreateProject, Prj!UpdateProject, Prj!Write, Prj!RemoveFinalizer, Prj!NothingToFinalize
<1>2. CASE Prj!ReportFailure \/ Prj!ReportSkip
  BY <1>2 DEF Prj!ReportFailure, Prj!ReportSkip, Prj!ConditionStored, Prj!ConditionLost
<1>3. CASE Prj!AddFinalizerFails \/ Prj!GitlabFails \/ Prj!StampFails \/ Prj!UpdateStatus
           \/ Prj!RemoveFinalizerFails
  BY <1>3 DEF Prj!AddFinalizerFails, Prj!GitlabFails, Prj!StampFails, Prj!UpdateStatus,
     Prj!RemoveFinalizerFails
<1>4. CASE Prj!Stamp \/ Prj!GetBranchCommit \/ Prj!GetLastPipeline \/ Prj!FinalizeProject
  BY <1>4 DEF Prj!Stamp, Prj!GetBranchCommit, Prj!GetLastPipeline, Prj!FinalizeProject
<1> QED
  BY <1>1, <1>2, <1>3, <1>4 DEF Prj!Reconcile

LEMMA SyncFrame ==
    Prj!SyncCache => UNCHANGED <<cr, groups, token, scm, pTimer, pPc, obj, group, found, reason,
                                 abandoned, changes, faults>>
BY DEF Prj!SyncCache, Prj!locals

LEMMA PushFrame ==
    \A t, c : Prj!Push(t, c) =>
        /\ changes' = changes + 1
        /\ UNCHANGED <<cr, crCopy, groups, token, pQueued, pTimer, pPc, obj, group, found, reason,
                       abandoned, faults>>
BY DEF Prj!Push, Prj!OnGitlab, Prj!Change, Prj!cluster, Prj!queue, Prj!locals

LEMMA TimerFrame ==
    Prj!TimerFires => UNCHANGED <<cr, crCopy, groups, token, scm, pPc, obj, group, found, reason,
                                  abandoned, changes, faults>>
BY DEF Prj!TimerFires, Prj!cluster, Prj!locals

\* A step of the composition on the project's side is one of the project's module.
LEMMA ProjectSteps ==
    ASSUME Prj!TypeOK, Ntf!TypeOK,
           ProjectReconcile \/ ProjectInformer \/ ProjectTimer \/ GitlabPush
    PROVE  Prj!Next /\ Elsewhere
<1>1. /\ changes \in Nat /\ changes + 1 \in Nat
      /\ faults \in Nat /\ nQueued \in BOOLEAN
  BY DEF Ntf!TypeOK, Ntf!ClusterOK
<1>2. Notifies \in BOOLEAN
  BY DEF Notifies
<1>4. CASE ProjectReconcile
  BY <1>1, <1>2, <1>4, SameProject, WorkerFrame
  DEF ProjectReconcile, ProjectSide, Elsewhere, Prj!Next
<1>5. CASE ProjectInformer
  BY <1>1, <1>2, <1>5, SameProject, SyncFrame
  DEF ProjectInformer, ProjectSide, Elsewhere, Prj!Next
<1>6. CASE ProjectTimer
  BY <1>1, <1>2, <1>6, SameProject, TimerFrame
  DEF ProjectTimer, ProjectSide, Elsewhere, Prj!Next
<1>7. CASE GitlabPush
  <2>1. PICK t \in P!Targets, c \in Commits : ProjectSide(P!Push(t, c))
    BY <1>7 DEF GitlabPush
  <2>2. t \in Prj!Targets /\ Prj!Push(t, c)
    BY <2>1, SameProject DEF ProjectSide, P!Targets, Prj!Targets
  <2> QED
    BY <1>1, <1>2, <2>1, <2>2, PushFrame DEF ProjectSide, Elsewhere, Prj!Next, Prj!Gitlab
<1> QED
  BY <1>4, <1>5, <1>6, <1>7

LEMMA NotifierSteps ==
    ASSUME NotifierReconcile \/ NotifierTimer \/ NotifierResync
    PROVE  Ntf!Next /\ Aside /\ UNCHANGED <<notifierCopy, webhook, pushes>>
<1>1. Ntf!Reconcile \/ Ntf!TimerFires \/ Ntf!Resync
  BY SameNotifier
  DEF NotifierReconcile, NotifierTimer, NotifierResync, NotifierSide
<1>2. Ntf!Next
  BY <1>1 DEF Ntf!Next
<1>3. /\ UNCHANGED <<notifierCopy, webhook, changes>>
      /\ faults' \in {faults, faults + 1}
  <2> USE DEF Ntf!cluster, Ntf!Fault, Ntf!Goto
  <2>1. CASE Ntf!TimerFires \/ Ntf!Resync
    BY <2>1 DEF Ntf!TimerFires, Ntf!Resync
  <2>2. CASE \/ Ntf!Start \/ Ntf!ResolveProviders \/ Ntf!HealthCheck \/ Ntf!FindLinkedProjects
             \/ Ntf!GetFails \/ Ntf!ListFails \/ Ntf!SendOk \/ Ntf!SendFails \/ Ntf!PatchOk
             \/ Ntf!PatchFails
    BY <2>2 DEF Ntf!Start, Ntf!ResolveProviders, Ntf!HealthCheck, Ntf!FindLinkedProjects,
       Ntf!GetFails, Ntf!ListFails, Ntf!SendOk, Ntf!SendFails, Ntf!PatchOk, Ntf!PatchFails
  <2>3. CASE \E p \in {Name} : \/ Ntf!SkipProject(p) \/ Ntf!SeedProject(p) \/ Ntf!Panic(p)
                               \/ Ntf!DetectProject(p)
    BY <2>3 DEF Ntf!SkipProject, Ntf!SeedProject, Ntf!Panic, Ntf!DetectProject
  <2> QED
    BY <1>1, <2>1, <2>2, <2>3 DEF Ntf!Reconcile
<1>4. UNCHANGED <<cr, crCopy, groups, token, scm, pVars, pushes>>
  BY DEF NotifierReconcile, NotifierTimer, NotifierResync, NotifierSide
<1>5. UNCHANGED NotifierResolves
  BY <1>3 DEF NotifierResolves, N!Adapters
<1> QED
  BY <1>2, <1>3, <1>4, <1>5 DEF Aside

\* A restart is one for both controllers.
LEMMA ProjectCrash == Crash => Prj!Crash
BY DEF Crash, Prj!Crash, P!Fault, Prj!Fault, P!ResetLocals, Prj!ResetLocals, P!Gone, Prj!Gone,
   P!NoSpec, Prj!NoSpec, P!NoStatus, Prj!NoStatus, P!NoReason, Prj!NoReason, P!NothingFound,
   Prj!NothingFound, NotifierResolves, N!Adapters

LEMMA NotifierCrash ==
    Crash => /\ nPc' = "idle" /\ Ntf!ResetLocals /\ nTimer' = FALSE
             /\ nQueued' = (notifier.exists \/ cr.spec.notified)
             /\ faults' = faults + 1
             /\ UNCHANGED <<notifier, notifierCopy, webhook, delivered, seeded, lastSent, dups,
                            swaps, panicked, changes>>
BY DEF Crash, P!Fault, N!ResetLocals, Ntf!ResetLocals, N!Absent, Ntf!Absent, N!Nothing,
   Ntf!Nothing, N!NoVerdict, Ntf!NoVerdict, N!NoProject, Ntf!NoProject

-------------------------------------------------------------------------------
(* Types.                                                                    *)

LEMMA ElsewhereType == Ntf!TypeOK /\ Prj!TypeOK' /\ Elsewhere => Ntf!TypeOK'
<1> SUFFICES ASSUME Ntf!TypeOK, Prj!TypeOK', Elsewhere
             PROVE  Ntf!TypeOK'
  OBVIOUS
<1>1. Listing' \in [{Name} -> Ntf!Seen]
  <2>1. crCopy' \in Prj!Resource
    BY DEF Prj!TypeOK, Prj!ClusterOK
  <2> QED
    BY <2>1, ListedType DEF Listing
<1>2. faults' \in Nat
  BY DEF Ntf!TypeOK, Ntf!ClusterOK, Elsewhere
<1>3. Ntf!ClusterOK'
  BY <1>1, <1>2 DEF Ntf!TypeOK, Ntf!ClusterOK, Elsewhere
<1>4. Ntf!WorkerOK' /\ Ntf!HistoryOK'
  BY DEF Ntf!TypeOK, Ntf!WorkerOK, Ntf!HistoryOK, Elsewhere
<1> QED
  BY <1>3, <1>4 DEF Ntf!TypeOK

LEMMA AsideType == Prj!TypeOK /\ Aside => Prj!TypeOK'
<1> SUFFICES ASSUME Prj!TypeOK, Aside
             PROVE  Prj!TypeOK'
  OBVIOUS
<1>1. faults' \in Nat
  BY DEF Prj!TypeOK, Prj!ClusterOK, Aside
<1>2. Prj!ClusterOK'
  BY <1>1 DEF Prj!TypeOK, Prj!ClusterOK, Aside, pVars
<1>3. Prj!WorkerOK'
  BY DEF Prj!TypeOK, Prj!WorkerOK, Aside, pVars
<1> QED
  BY <1>2, <1>3 DEF Prj!TypeOK

LEMMA CrashType == Prj!TypeOK /\ Ntf!TypeOK /\ Crash => Prj!TypeOK' /\ Ntf!TypeOK'
<1> SUFFICES ASSUME Prj!TypeOK, Ntf!TypeOK, Crash
             PROVE  Prj!TypeOK' /\ Ntf!TypeOK'
  OBVIOUS
<1>1. Prj!TypeOK'
  BY ProjectConstants, ProjectCrash, Prj!EventsType
<1>2. Listing' \in [{Name} -> Ntf!Seen]
  <2>1. crCopy' \in Prj!Resource
    BY <1>1 DEF Prj!TypeOK, Prj!ClusterOK
  <2> QED
    BY <2>1, ListedType DEF Listing
<1>3. nQueued' \in BOOLEAN /\ nTimer' \in BOOLEAN
  BY NotifierCrash DEF Prj!TypeOK, Prj!ClusterOK, Prj!Resource, Prj!SpecType
<1>4. faults' \in Nat
  BY NotifierCrash DEF Ntf!TypeOK, Ntf!ClusterOK
<1>5. Ntf!ClusterOK'
  BY <1>2, <1>3, <1>4, NotifierCrash DEF Ntf!TypeOK, Ntf!ClusterOK
<1>6. Ntf!WorkerOK'
  BY NotifierConstants, NotifierCrash, Ntf!ResetType
<1>7. Ntf!HistoryOK'
  BY NotifierCrash DEF Ntf!TypeOK, Ntf!HistoryOK
<1> QED
  BY <1>1, <1>5, <1>6, <1>7 DEF Ntf!TypeOK

LEMMA PartsInit == Init => Prj!Init /\ Ntf!Init
<1> SUFFICES ASSUME Init
             PROVE  Prj!Init /\ Ntf!Init
  OBVIOUS
<1>1. PICK s \in ProjectSpecs : cr = [P!Fresh(s, 1) EXCEPT !.finalizer = TRUE]
  BY DEF Init
<1>2. cr = [Prj!Fresh(s, 1) EXCEPT !.finalizer = TRUE] /\ cr.exists
  BY <1>1 DEF P!Fresh, Prj!Fresh, P!Gone, Prj!Gone, P!NoSpec, Prj!NoSpec, P!NoStatus,
     Prj!NoStatus, P!NoReason, Prj!NoReason, P!Admitted, Prj!Admitted, P!DefaultVisibility,
     Prj!DefaultVisibility
<1>3. cr.status.commit = None /\ cr.status.pipeline = None /\ cr.spec.notified \in BOOLEAN
  BY <1>2, OperatorAssumption
  DEF Prj!Fresh, Prj!Gone, Prj!NoSpec, Prj!NoStatus, Prj!Admitted
<1>4. Prj!Init
  <2>1. NotifierResolves \in BOOLEAN
    BY DEF NotifierResolves
  <2>2. scm \in [Prj!Targets -> {Prj!NotOnGitlab, [Prj!NotOnGitlab EXCEPT !.exists = TRUE]}]
    BY DEF Init, P!Targets, Prj!Targets, P!NotOnGitlab, Prj!NotOnGitlab
  <2>3. obj = Prj!Gone(0) /\ found = Prj!NothingFound /\ reason = Prj!NoReason
    BY DEF Init, P!Gone, Prj!Gone, P!NoSpec, Prj!NoSpec, P!NoStatus, Prj!NoStatus, P!NoReason,
       Prj!NoReason, P!NothingFound, Prj!NothingFound
  <2> QED
    BY <1>2, <2>1, <2>2, <2>3 DEF Init, Prj!Init
<1>5. Ntf!Init
  <2>1. Listed(cr) \in Ntf!NewProjects
    BY <1>2, <1>3 DEF Listed, Ntf!NewProjects, Ntf!Nothing
  <2>2. Listing \in [{Name} -> Ntf!NewProjects \cup {Ntf!NoProject}]
    BY <2>1 DEF Init, Listing
  <2>3. \E s2 \in NotifierSpecs : Ntf!ValidateNotifier(s2) /\ notifier = Ntf!Fresh(s2, 1)
    BY DEF Init, ValidateNotifier, Ntf!ValidateNotifier, ValidEvents, Ntf!ValidEvents, N!Fresh,
       Ntf!Fresh, N!Absent, Ntf!Absent, N!Nothing, Ntf!Nothing, N!NoVerdict, Ntf!NoVerdict
  <2>4. nQueued = Ntf!Backlog
    BY <2>3 DEF Init, Ntf!Backlog, Ntf!Fresh, Ntf!Absent
  <2> QED
    BY <2>2, <2>3, <2>4
    DEF Init, Ntf!Init, N!Absent, Ntf!Absent, N!Nothing, Ntf!Nothing, N!NoVerdict,
        Ntf!NoVerdict, N!NoProject, Ntf!NoProject
<1> QED
  BY <1>4, <1>5

Types == Prj!TypeOK /\ Ntf!TypeOK /\ pushes \in Seq(Prj!Targets \X Commits)

LEMMA TypesInit == Init => Types
<1>1. Init => pushes \in Seq(Prj!Targets \X Commits)
  BY DEF Init
<1> QED
  BY <1>1, PartsInit, ProjectConstants, NotifierConstants, Prj!InitType, Ntf!InitType DEF Types

\* A push, and nothing else, is remembered as one.
LEMMA PushesType ==
    ASSUME pushes \in Seq(Prj!Targets \X Commits), [Next]_vars
    PROVE  pushes' \in Seq(Prj!Targets \X Commits)
<1>1. CASE GitlabPush
  BY <1>1 DEF GitlabPush, P!Targets, Prj!Targets
<1>2. CASE UNCHANGED pushes
  BY <1>2
<1> QED
  BY <1>1, <1>2, NotifierSteps DEF Next, vars, ProjectReconcile, ProjectInformer, ProjectTimer,
     Crash

LEMMA TypesStep == Types /\ [Next]_vars => Types'
<1> SUFFICES ASSUME Types, [Next]_vars
             PROVE  Prj!TypeOK' /\ Ntf!TypeOK'
  BY PushesType DEF Types
<1> USE DEF Types
<1>1. CASE UNCHANGED vars
  <2>1. Prj!TypeOK'
    BY <1>1, AsideType DEF vars, Aside, NotifierResolves, N!Adapters
  <2>2. Elsewhere
    BY <1>1 DEF vars, nVars, Elsewhere, Ntf!TypeOK, Ntf!ClusterOK
  <2> QED
    BY <2>1, <2>2, ElsewhereType
<1>2. CASE ProjectReconcile \/ ProjectInformer \/ ProjectTimer \/ GitlabPush
  <2>1. Prj!Next /\ Elsewhere
    BY <1>2, ProjectSteps
  <2>2. Prj!TypeOK'
    BY <2>1, ProjectConstants, Prj!StepType
  <2> QED
    BY <2>1, <2>2, ElsewhereType
<1>3. CASE NotifierReconcile \/ NotifierTimer \/ NotifierResync
  <2>1. Ntf!Next /\ Aside
    BY <1>3, NotifierSteps
  <2>2. Ntf!TypeOK'
    BY <2>1, NotifierConstants, Ntf!NextType
  <2> QED
    BY <2>1, <2>2, AsideType
<1>4. CASE Crash
  BY <1>4, CrashType
<1> QED
  BY <1>1, <1>2, <1>3, <1>4 DEF Next

\* Whatever the two workers do between each other's steps, the variables keep the types
\* of both parts: what the one reports, the other can read.
THEOREM OperatorTypeCorrect == Spec => []TypeOK
<1>1. Init => Types
  BY TypesInit
<1>2. Types /\ [Next]_vars => Types'
  BY TypesStep
<1>3. Types => P!TypeOK
  BY DEF Types, P!TypeOK, Prj!TypeOK, P!ClusterOK, Prj!ClusterOK, P!WorkerOK, Prj!WorkerOK,
               P!Resource, Prj!Resource, P!SpecType, Prj!SpecType, P!StatusType, Prj!StatusType,
               P!GitlabType, Prj!GitlabType, P!Labels, Prj!Labels, P!FoundType, Prj!FoundType,
               P!Visibilities, Prj!Visibilities, P!Targets, Prj!Targets, P!Reasons, Prj!Reasons,
               P!NoReason, Prj!NoReason
<1>4. Types => N!TypeOK
  BY DEF Types, N!TypeOK, Ntf!TypeOK, N!ClusterOK, Ntf!ClusterOK, N!WorkerOK, Ntf!WorkerOK,
               N!HistoryOK, Ntf!HistoryOK, N!Record, Ntf!Record, N!Seen, Ntf!Seen,
               N!Observation, Ntf!Observation, N!PipelineStates, Ntf!PipelineStates, N!Events,
               Ntf!Events, N!Providers, Ntf!Providers, N!Verdicts, Ntf!Verdicts, N!NoVerdict,
               Ntf!NoVerdict
<1>5. Types => TypeOK
  BY <1>3, <1>4 DEF Types, TypeOK, P!Targets, Prj!Targets
<1> QED
  BY <1>1, <1>2, <1>5, PTL DEF Spec

-------------------------------------------------------------------------------
(* The parts are safe together.                                              *)

Safe == Prj!StampsAreClaimed /\ Ntf!RecordIsTruthful /\ Ntf!RepeatsHaveCauses

LEMMA SafeInit == Init => Safe
<1>1. Init => Ntf!RecordIsTruthful /\ Ntf!RepeatsHaveCauses
  BY PartsInit, NotifierConstants, Ntf!RecordInit, Ntf!RepeatsInit
<1> QED
  BY <1>1, PartsInit, ProjectConstants, Prj!ClaimsInit DEF Safe

\* The Notifier's guarantees do not depend on what it lists, nor on how many of the causes
\* are failures of the other controller.
LEMMA ElsewhereSafe ==
    ASSUME Types, Ntf!RecordIsTruthful, Ntf!RepeatsHaveCauses, Elsewhere
    PROVE  Ntf!RecordIsTruthful' /\ Ntf!RepeatsHaveCauses'
<1>1. UNCHANGED <<notifier, nPc, Ntf!locals, lastSent, dups, swaps>> /\ Ntf!Grows
  BY DEF Elsewhere, Ntf!locals, Ntf!Grows
<1>2. Ntf!RecordIsTruthful'
  BY <1>1, NotifierConstants, Ntf!WorkerUntouched DEF Types
<1>3. CASE faults' = faults
  BY <1>1, <1>2, <1>3, NotifierConstants, Ntf!ClusterRepeats DEF Types
<1>4. CASE faults' = faults + 1
  <2>1. \A p \in {Name} : Ntf!Swapped(p)' => Ntf!Swapped(p)
    BY <1>1 DEF Ntf!Swapped, Ntf!locals
  <2>2. Ntf!RepeatsAccounted'
    BY <1>1, <1>4, <2>1, NotifierConstants, Ntf!SilentStep DEF Types, Ntf!RepeatsHaveCauses
  <2>3. Ntf!WithoutAdapters'
    BY <1>1 DEF Ntf!RepeatsHaveCauses, Ntf!WithoutAdapters, Ntf!locals
  <2> QED
    BY <1>2, <2>2, <2>3 DEF Ntf!RepeatsHaveCauses
<1> QED
  BY <1>2, <1>3, <1>4 DEF Elsewhere

LEMMA AsideSafe ==
    ASSUME Types, Prj!StampsAreClaimed, Aside
    PROVE  Prj!StampsAreClaimed'
<1>1. UNCHANGED <<cr, crCopy, scm, abandoned, pPc, obj, group, reason>>
  BY DEF Aside, pVars
<1>2. Prj!Steady
  BY <1>1, ProjectConstants, Prj!UnchangedIsSteady DEF Types
<1>3. Prj!Resources' /\ Prj!WorkerLags'
  BY <1>1, <1>2, ProjectConstants, Prj!SteadyResources, Prj!SteadyWorker DEF Types
<1>4. Prj!SuccessIsGuarded'
  BY <1>1 DEF Prj!StampsAreClaimed, Prj!SuccessIsGuarded
<1> QED
  BY <1>3, <1>4 DEF Prj!StampsAreClaimed, Prj!Resources

LEMMA CrashSafe ==
    ASSUME Types, Safe, Crash
    PROVE  Safe'
<1>1. Prj!StampsAreClaimed'
  BY ProjectCrash, ProjectConstants, Prj!EventsClaims DEF Types, Safe
<1>2. Ntf!RecordIsTruthful'
  <2>1. \A p \in {Name} : Ntf!Told(p, notifier'.states[p])
    BY NotifierCrash DEF Safe, Ntf!RecordIsTruthful, Ntf!NoSilentRecord
  <2>2. Ntf!Grows
    BY NotifierCrash DEF Ntf!Grows
  <2> QED
    BY <2>1, <2>2, NotifierCrash, NotifierConstants, Ntf!WorkerEnds
<1>3. Ntf!RepeatsHaveCauses'
  BY NotifierCrash, NotifierConstants, Ntf!EndRepeats DEF Types, Safe
<1> QED
  BY <1>1, <1>2, <1>3 DEF Safe

LEMMA SafeStep == Types /\ Safe /\ [Next]_vars => Safe'
<1> SUFFICES ASSUME Types, Safe, [Next]_vars
             PROVE  Safe'
  OBVIOUS
<1>1. CASE UNCHANGED vars
  <2>1. Aside /\ Elsewhere
    BY <1>1 DEF vars, nVars, Aside, Elsewhere, NotifierResolves, N!Adapters, Types, Ntf!TypeOK,
       Ntf!ClusterOK
  <2> QED
    BY <2>1, AsideSafe, ElsewhereSafe DEF Safe
<1>2. CASE ProjectReconcile \/ ProjectInformer \/ ProjectTimer \/ GitlabPush
  <2>1. Prj!Next /\ Elsewhere
    BY <1>2, ProjectSteps DEF Types
  <2>2. Prj!StampsAreClaimed'
    BY <2>1, ProjectConstants, Prj!StepClaims DEF Types, Safe
  <2> QED
    BY <2>1, <2>2, ElsewhereSafe DEF Safe
<1>3. CASE NotifierReconcile \/ NotifierTimer \/ NotifierResync
  <2>1. Ntf!Next /\ Aside
    BY <1>3, NotifierSteps
  <2>2. Ntf!RecordIsTruthful' /\ Ntf!RepeatsHaveCauses'
    BY <2>1, NotifierConstants, Ntf!RecordStep, Ntf!RepeatsStep DEF Types, Safe
  <2> QED
    BY <2>1, <2>2, AsideSafe DEF Safe
<1>4. CASE Crash
  BY <1>4, CrashSafe
<1> QED
  BY <1>1, <1>2, <1>3, <1>4 DEF Next

\* Each part's safety holds in the composition.  The Notifier's record is truthful and its
\* duplicates have causes though the commits come from a status patched field by field and
\* read through an informer; no stamp is orphaned and no success unguarded though a crash
\* takes the other worker as well, and its failures count among the faults.
THEOREM PartsStaySafe == Spec => []PartsAreSafe
<1>1. Init => Types /\ Safe
  BY TypesInit, SafeInit
<1>2. Types /\ Safe /\ [Next]_vars => Types' /\ Safe'
  BY TypesStep, SafeStep
<1>3. Types /\ Safe => P!NoOrphanedStamp /\ P!SuccessIsGuarded
  BY DEF Types, Safe, Prj!StampsAreClaimed, Prj!Claimed, P!NoOrphanedStamp, Prj!WellFormed,
     P!SuccessIsGuarded, Prj!SuccessIsGuarded, P!Targets, Prj!Targets
<1>4. Types /\ Safe => N!NoSilentRecord /\ N!SingleWriter
  BY DEF Safe, Ntf!RecordIsTruthful, N!NoSilentRecord, Ntf!NoSilentRecord, N!SingleWriter,
     Ntf!SingleWriter, N!Told, Ntf!Told, N!CommitTold, Ntf!CommitTold, N!PipelineTold,
     Ntf!PipelineTold, N!Nothing, Ntf!Nothing
<1>5. Types /\ Safe => N!DuplicatesNeedACause
  <2> SUFFICES ASSUME Types, Safe, NEW p \in {Name}
               PROVE  dups[p].commit <= faults + swaps /\ dups[p].pipeline <= faults + swaps
    BY DEF N!DuplicatesNeedACause
  <2>1. /\ dups[p].commit \in Nat /\ dups[p].pipeline \in Nat
        /\ faults \in Nat /\ swaps \in Nat
    BY DEF Types, Ntf!TypeOK, Ntf!ClusterOK, Ntf!HistoryOK
  <2>2. /\ dups[p].commit + Ntf!Count(Ntf!CommitForgotten(p)) + Ntf!Count(Ntf!Swapped(p))
             <= faults + swaps
        /\ dups[p].pipeline + Ntf!Count(Ntf!PipelineForgotten(p)) + Ntf!Count(Ntf!Swapped(p))
             <= faults + swaps
    BY DEF Safe, Ntf!RepeatsHaveCauses, Ntf!RepeatsAccounted
  <2> QED
    BY <2>1, <2>2 DEF Ntf!Count
<1>6. Types /\ Safe => PartsAreSafe
  BY <1>3, <1>4, <1>5 DEF PartsAreSafe
<1> QED
  BY <1>1, <1>2, <1>6, PTL DEF Spec

-------------------------------------------------------------------------------
(* The promise holds end to end.                                             *)

LEMMA PromiseInit == Init => Ntf!Contract!Init
BY PartsInit, NotifierConstants, Ntf!ContractInit

\* A step that sends and seeds nothing keeps the promise, with or without a failure.
LEMMA PromiseQuiet ==
    ASSUME Types, Types', Safe', UNCHANGED <<delivered, seeded, lastSent, dups, swaps>>,
           faults' \in {faults, faults + 1}
    PROVE  Ntf!Contract!Next
<1>1. Ntf!Causes' \in {Ntf!Causes, Ntf!Causes + 1}
  BY NotifierConstants, Ntf!AtMostOneCause DEF Types
<1>2. Ntf!NoSilentRecord'
  BY DEF Safe, Ntf!RecordIsTruthful
<1> QED
  BY <1>1, <1>2, NotifierConstants, Ntf!QuietStep DEF Types

LEMMA PromiseStep ==
    Types /\ Types' /\ Safe /\ Safe' /\ [Next]_vars => [Ntf!Contract!Next]_Ntf!Contract!vars
<1> SUFFICES ASSUME Types, Types', Safe, Safe', [Next]_vars
             PROVE  [Ntf!Contract!Next]_Ntf!Contract!vars
  OBVIOUS
<1>1. CASE UNCHANGED vars
  BY <1>1, PromiseQuiet DEF vars, nVars
<1>2. CASE ProjectReconcile \/ ProjectInformer \/ ProjectTimer \/ GitlabPush
  <2>1. Elsewhere
    BY <1>2, ProjectSteps DEF Types
  <2> QED
    BY <2>1, PromiseQuiet DEF Elsewhere
<1>3. CASE NotifierReconcile \/ NotifierTimer \/ NotifierResync
  <2>1. Ntf!Next
    BY <1>3, NotifierSteps
  <2> QED
    BY <2>1, NotifierConstants, Ntf!ContractStep DEF Types, Safe
<1>4. CASE Crash
  BY <1>4, NotifierCrash, PromiseQuiet
<1> QED
  BY <1>1, <1>2, <1>3, <1>4 DEF Next

\* The two controllers together implement the contract of the notification path: a step of
\* the project's side, whatever it reports or fails at, is a mishap of the contract or none.
THEOREM PromiseKept == Spec => DeliversEndToEnd
<1>1. Init => Types /\ Safe
  BY TypesInit, SafeInit
<1>2. Types /\ Safe /\ [Next]_vars => Types' /\ Safe'
  BY TypesStep, SafeStep
<1>3. /\ N!Contract!Init <=> Ntf!Contract!Init
      /\ [N!Contract!Next]_N!Contract!vars <=> [Ntf!Contract!Next]_Ntf!Contract!vars
  BY DEF N!MessagesOf, Ntf!MessagesOf, N!OldSeeds, Ntf!OldSeeds, N!Contract!Init,
         Ntf!Contract!Init, N!Contract!Next, Ntf!Contract!Next, N!Contract!vars,
         Ntf!Contract!vars, N!Contract!Deliver, Ntf!Contract!Deliver, N!Contract!Waive,
         Ntf!Contract!Waive, N!Contract!Remember, Ntf!Contract!Remember, N!Contract!Reopen,
         Ntf!Contract!Reopen, N!Contract!Mishap, Ntf!Contract!Mishap, N!Contract!Perhaps,
         Ntf!Contract!Perhaps, N!Contract!Messages, Ntf!Contract!Messages
<1>4. Init => N!Contract!Init
  BY <1>3, PromiseInit
<1>5. Types /\ Types' /\ Safe /\ Safe' /\ [Next]_vars => [N!Contract!Next]_N!Contract!vars
  BY <1>3, PromiseStep
<1> QED
  BY <1>1, <1>2, <1>4, <1>5, PTL
  DEF Spec, DeliversEndToEnd, N!DeliversAsPromised, N!Contract!Spec

-------------------------------------------------------------------------------
(* The news is in order: nobody disturbs the resource, ...                   *)

\* The one thing on GitLab that makes news.
LEMMA HeadOf ==
    ASSUME Types, Undisturbed
    PROVE  /\ cr \in Prj!Resource /\ cr.spec \in Prj!SpecType /\ cr.status \in Prj!StatusType
           /\ cr.spec.branch \in Branches
           /\ P!Target(cr.spec) = <<cr.spec.group, cr.spec.name>>
           /\ P!Target(cr.spec) \in Prj!Targets
           /\ scm \in [Prj!Targets -> Prj!GitlabType]
<1>1. cr \in Prj!Resource /\ scm \in [Prj!Targets -> Prj!GitlabType]
  BY DEF Types, Prj!TypeOK, Prj!ClusterOK
<1>2. cr.spec \in Prj!SpecType /\ cr.status \in Prj!StatusType
  BY <1>1 DEF Prj!Resource
<1> QED
  BY <1>1, <1>2 DEF Prj!SpecType, P!Target, Prj!Targets

\* At GitLab, the worker's goal is the target of the stored spec.
LEMMA GoalIsTarget ==
    ASSUME Types, Undisturbed, Prj!AtGitlab
    PROVE  /\ Prj!Goal = P!Target(cr.spec)
           /\ obj.spec = cr.spec /\ obj.spec.branch \in Branches
           /\ obj \in Prj!Resource /\ found \in Prj!FoundType
           /\ scm[Prj!Goal] \in Prj!GitlabType /\ scm[Prj!Goal].exists
<1>1. P!AtGitlab /\ pPc # "idle"
  BY DEF P!AtGitlab, Prj!AtGitlab
<1>2. group = cr.spec.group /\ obj.spec = cr.spec
  BY <1>1 DEF Undisturbed, AsCreated
<1>3. Prj!Goal = P!Target(cr.spec)
  BY <1>2, HeadOf DEF Prj!Goal
<1> QED
  BY <1>2, <1>3, HeadOf DEF Types, Prj!TypeOK, Prj!WorkerOK, Undisturbed

\* What a step of the worker does to the news: the commit in hand is the head it found on
\* the branch, and the commit reported is the one in hand, or remains.
Forward ==
    /\ cr'.spec = cr.spec /\ BranchHead' = BranchHead
    /\ cr'.status.commit # cr.status.commit => InHand /\ cr'.status.commit = found.commit
    /\ InHand' => \/ found'.commit = BranchHead
                  \/ InHand /\ found'.commit = found.commit /\ cr' = cr

LEMMA ArrivalForward ==
    ASSUME Types, Undisturbed,
           Prj!Start \/ Prj!Resolve \/ Prj!ResolveNotifier \/ Prj!LookUp
    PROVE  Undisturbed' /\ Forward
<1>1. UNCHANGED <<cr, crCopy, scm>> /\ BranchHead' = BranchHead
  BY DEF Prj!Start, Prj!Resolve, Prj!ResolveNotifier, Prj!LookUp, Prj!Goto, Prj!cluster,
     BranchHead, P!Target
<1>2. pPc' \in {"idle", "resolve", "fail", "notifier", "lookup", "update", "stamp"}
  <2>1. CASE Prj!Start
    BY <2>1 DEF Prj!Start
  <2>2. CASE Prj!Resolve
    BY <2>2 DEF Prj!Resolve, Prj!Goto, Prj!NeedsFinalizer, Undisturbed, AsCreated
  <2>3. CASE Prj!ResolveNotifier
    BY <2>3 DEF Prj!ResolveNotifier, Prj!Goto
  <2>4. CASE Prj!LookUp
    BY <2>4, GoalIsTarget DEF Prj!LookUp, Prj!Goto, Prj!AtGitlab
  <2> QED
    BY <2>1, <2>2, <2>3, <2>4
<1>3. Forward
  BY <1>1, <1>2 DEF Forward, InHand
<1>4. pPc' # "idle" => AsCreated(obj)'
  BY <1>1 DEF Prj!Start, Prj!Resolve, Prj!ResolveNotifier, Prj!LookUp, Undisturbed, AsCreated
<1>5. P!AtGitlab' => group' = cr.spec.group
  BY <1>2 DEF Prj!Start, Prj!Resolve, Prj!ResolveNotifier, Prj!LookUp, Prj!Goto, Undisturbed,
     AsCreated, P!AtGitlab
<1> QED
  BY <1>1, <1>2, <1>3, <1>4, <1>5 DEF Undisturbed, AsCreated, P!Target

\* The operator's own writes on GitLab leave the commits alone.
LEMMA WritesKeepHead ==
    ASSUME Types, Undisturbed, Prj!AtGitlab, cr' = cr,
           NEW p, p.exists, p.head = scm[Prj!Goal].head,
           scm' = scm \/ scm' = [scm EXCEPT ![Prj!Goal] = p]
    PROVE  BranchHead' = BranchHead /\ scm'[P!Target(cr.spec)].exists
<1>1. Prj!Goal \in Prj!Targets /\ scm[Prj!Goal].exists
  BY HeadOf, GoalIsTarget
<1>2. scm'[Prj!Goal].head = scm[Prj!Goal].head /\ scm'[Prj!Goal].exists
  BY <1>1, HeadOf
<1> QED
  BY <1>2, GoalIsTarget DEF BranchHead, P!Target

LEMMA AtGitlabForward ==
    ASSUME Types, Undisturbed,
           \/ Prj!CreateProject \/ Prj!UpdateProject \/ Prj!GitlabFails \/ Prj!Stamp
           \/ Prj!StampFails \/ Prj!GetBranchCommit \/ Prj!GetLastPipeline
    PROVE  Undisturbed' /\ Forward
<1>1. pPc \in {"lookup", "update", "stamp", "commit", "pipeline"}
  BY DEF Prj!CreateProject, Prj!UpdateProject, Prj!GitlabFails, Prj!Stamp, Prj!StampFails,
     Prj!GetBranchCommit, Prj!GetLastPipeline, Undisturbed
<1>2. Prj!AtGitlab /\ P!AtGitlab
  BY <1>1 DEF Prj!AtGitlab, P!AtGitlab
<1>3. ~Prj!CreateProject /\ pPc # "create"
  BY <1>1 DEF Prj!CreateProject
<1>4. UNCHANGED <<cr, crCopy, group>>
  BY <1>3 DEF Prj!UpdateProject, Prj!Write, Prj!GitlabFails, Prj!Stamp, Prj!StampFails,
     Prj!GetBranchCommit, Prj!GetLastPipeline, Prj!Goto, Prj!cluster
<1>5. AsCreated(obj)'
  <2>1. AsCreated(obj) /\ obj \in Prj!Resource
    BY <1>1, <1>2, GoalIsTarget DEF Undisturbed
  <2>2. obj' = obj \/ obj' = [obj EXCEPT !.status.stamped = TRUE]
    BY <1>3 DEF Prj!UpdateProject, Prj!Write, Prj!GitlabFails, Prj!Stamp, Prj!StampFails,
       Prj!GetBranchCommit, Prj!GetLastPipeline
  <2> QED
    BY <1>4, <2>1, <2>2 DEF AsCreated, Prj!Resource
<1>6. BranchHead' = BranchHead /\ scm'[P!Target(cr.spec)].exists
  <2> DEFINE old == scm[Prj!Goal]
  <2>1. old \in Prj!GitlabType /\ old.exists
    BY <1>2, GoalIsTarget
  <2>2. CASE Prj!UpdateProject \/ Prj!GitlabFails
    <3>1. scm' = scm \/ scm' = [scm EXCEPT ![Prj!Goal] = Prj!Updated]
      BY <1>3, <2>2 DEF Prj!UpdateProject, Prj!Write, Prj!GitlabFails
    <3>2. Prj!Updated.exists /\ Prj!Updated.head = scm[Prj!Goal].head
      BY <2>1 DEF Prj!Updated, Prj!GitlabType
    <3> QED
      BY <1>2, <1>4, <3>1, <3>2, WritesKeepHead
  <2>3. CASE Prj!Stamp \/ Prj!StampFails
    <3> DEFINE new == [old EXCEPT !.stamped = TRUE]
    <3>1. scm' = scm \/ scm' = [scm EXCEPT ![Prj!Goal] = new]
      BY <2>1, <2>3 DEF Prj!Stamp, Prj!StampFails, Prj!Stamped
    <3>2. new.exists /\ new.head = scm[Prj!Goal].head
      BY <2>1 DEF Prj!GitlabType
    <3> QED
      BY <1>2, <1>4, <3>1, <3>2, WritesKeepHead
  <2>4. CASE Prj!GetBranchCommit \/ Prj!GetLastPipeline
    <3>1. scm' = scm
      BY <2>4 DEF Prj!GetBranchCommit, Prj!GetLastPipeline
    <3> QED
      BY <1>4, <3>1 DEF BranchHead, P!Target, Undisturbed
  <2> QED
    BY <1>3, <2>2, <2>3, <2>4
<1>7. pPc' \in {"fail", "stamp", "commit", "pipeline", "report"}
  BY <1>3 DEF Prj!UpdateProject, Prj!Write, Prj!GitlabFails, Prj!Stamp, Prj!StampFails,
     Prj!GetBranchCommit, Prj!GetLastPipeline, Prj!Goto
<1>8. Undisturbed'
  BY <1>2, <1>4, <1>5, <1>6, <1>7 DEF Undisturbed, AsCreated, P!Target, P!AtGitlab
<1>9. InHand' => \/ found'.commit = BranchHead
                 \/ InHand /\ found'.commit = found.commit
  <2>1. CASE Prj!UpdateProject \/ Prj!GitlabFails \/ Prj!Stamp \/ Prj!StampFails
    <3>1. pPc' \notin {"pipeline", "report"}
      BY <2>1 DEF Prj!UpdateProject, Prj!Write, Prj!GitlabFails, Prj!Stamp, Prj!StampFails,
         Prj!Goto
    <3> QED
      BY <3>1 DEF InHand
  <2>2. CASE Prj!GetBranchCommit
    <3>1. pPc' = "pipeline" => found' = [found EXCEPT !.commit = BranchHead]
      BY <1>2, <2>2, GoalIsTarget DEF Prj!GetBranchCommit, Prj!Goto, BranchHead
    <3>2. pPc' \in {"pipeline", "fail"}
      BY <2>2 DEF Prj!GetBranchCommit, Prj!Goto
    <3> QED
      BY <1>2, <3>1, <3>2, GoalIsTarget DEF InHand, Prj!FoundType
  <2>3. CASE Prj!GetLastPipeline
    <3>1. found' = found \/ \E q : found' = [found EXCEPT !.pipeline = q]
      BY <2>3 DEF Prj!GetLastPipeline
    <3>2. found'.commit = found.commit /\ pPc = "pipeline"
      BY <1>2, <2>3, <3>1, GoalIsTarget DEF Prj!FoundType, Prj!GetLastPipeline
    <3> QED
      BY <3>2 DEF InHand
  <2> QED
    BY <1>3, <2>1, <2>2, <2>3
<1> QED
  BY <1>4, <1>6, <1>8, <1>9 DEF Forward

\* The two patches of the status: the merge leaves the commit as it is stored, but for the
\* one in hand.
LEMMA ReportForward ==
    ASSUME Types, Undisturbed, Prj!ReportFailure \/ Prj!UpdateStatus
    PROVE  Undisturbed' /\ Forward
<1>1. /\ pPc' = "idle" /\ pPc \in {"fail", "report"}
      /\ UNCHANGED <<crCopy, scm>>
  BY DEF Prj!ReportFailure, Prj!UpdateStatus, Prj!Finish
<1>2. ASSUME cr' = cr \/ \E new \in Prj!StatusType : cr' = Prj!PatchedStatus(new)
      PROVE  Undisturbed' /\ cr'.spec = cr.spec /\ BranchHead' = BranchHead
  <2>1. /\ cr'.exists = cr.exists /\ cr'.finalizer = cr.finalizer
        /\ cr'.deleting = cr.deleting /\ cr'.spec = cr.spec
    BY <1>2, ProjectConstants, Prj!PatchedStatusType DEF Types
  <2> QED
    BY <1>1, <2>1 DEF Undisturbed, AsCreated, P!Target, P!AtGitlab, BranchHead
<1>3. ~InHand'
  BY <1>1 DEF InHand
<1>4. CASE Prj!ReportFailure
  <2>1. Prj!Failed \in Prj!StatusType
    BY ProjectConstants, Prj!FailedType DEF Types
  <2>2. cr' = cr \/ cr' = Prj!PatchedStatus(Prj!Failed)
    BY <1>4 DEF Prj!ReportFailure, Prj!ConditionStored, Prj!ConditionLost
  <2>3. cr'.status.commit = cr.status.commit
    <3>1. Prj!PatchedStatus(Prj!Failed).status
            = Prj!MergedStatus(obj.status, Prj!Failed, cr.status)
      BY <2>1, ProjectConstants, Prj!PatchedStatusType DEF Types
    <3>2. Prj!Failed.commit = obj.status.commit
      BY DEF Prj!Failed, Types, Prj!TypeOK, Prj!WorkerOK, Prj!Resource, Prj!StatusType
    <3> QED
      BY <2>2, <3>1, <3>2 DEF Prj!MergedStatus, Prj!Merged
  <2> QED
    BY <1>2, <1>3, <2>1, <2>2, <2>3 DEF Forward
<1>5. CASE Prj!UpdateStatus
  <2> DEFINE new == Prj!SuccessStatus(obj, group, found)
  <2>1. group \in Groups /\ pPc = "report" /\ new \in Prj!StatusType
    <3>1. pPc = "report"
      BY <1>5 DEF Prj!UpdateStatus
    <3>2. group \in Groups
      BY <3>1 DEF Types, Prj!TypeOK, Prj!WorkerOK
    <3> QED
      BY <3>1, <3>2, ProjectConstants, Prj!SuccessStatusType DEF Types
  <2>2. cr' = cr \/ cr' = Prj!PatchedStatus(new)
    BY <1>5 DEF Prj!UpdateStatus
  <2>3. new.commit = IF found.commit # None THEN found.commit ELSE obj.status.commit
    BY DEF Prj!SuccessStatus, Types, Prj!TypeOK, Prj!WorkerOK, Prj!Resource, Prj!StatusType
  <2> HIDE DEF new
  <2>4. Prj!PatchedStatus(new).status = Prj!MergedStatus(obj.status, new, cr.status)
    BY <2>1, ProjectConstants, Prj!PatchedStatusType DEF Types
  <2>5. cr'.status.commit # cr.status.commit => InHand /\ cr'.status.commit = found.commit
    BY <2>1, <2>2, <2>3, <2>4 DEF Prj!MergedStatus, Prj!Merged, InHand
  <2> QED
    BY <1>2, <1>3, <2>1, <2>2, <2>5 DEF Forward
<1> QED
  BY <1>4, <1>5

LEMMA WorkerForward ==
    ASSUME Types, Undisturbed, Prj!Reconcile
    PROVE  Undisturbed' /\ Forward
<1>1. /\ ~Prj!AddFinalizer /\ ~Prj!AddFinalizerFails /\ ~Prj!ReportSkip /\ ~Prj!FinalizeProject
      /\ ~Prj!RemoveFinalizer /\ ~Prj!RemoveFinalizerFails /\ ~Prj!NothingToFinalize
  BY DEF Undisturbed, Prj!AddFinalizer, Prj!AddFinalizerFails, Prj!ReportSkip,
     Prj!FinalizeProject, Prj!RemoveFinalizer, Prj!RemoveFinalizerFails, Prj!NothingToFinalize
<1> QED
  BY <1>1, ArrivalForward, AtGitlabForward, ReportForward DEF Prj!Reconcile

-------------------------------------------------------------------------------
(* ... every step moves at most one stage, to where the one before it is, ... *)

LEMMA PositionsType ==
    ASSUME Types
    PROVE  Len(pushes) \in Nat /\ Positions \subseteq Nat /\ DOMAIN pushes = 1 .. Len(pushes)
BY DEF Types, Positions

\* What has been pushed stays pushed, at its position.
LEMMA PushesStay ==
    ASSUME Types, NEW x, pushes' = Append(pushes, x)
    PROVE  /\ Len(pushes') = Len(pushes) + 1 /\ Positions \subseteq Positions'
           /\ pushes'[Len(pushes) + 1] = x
           /\ DOMAIN pushes \subseteq DOMAIN pushes' /\ Len(pushes) + 1 \in DOMAIN pushes'
           /\ \A n \in DOMAIN pushes : pushes'[n] = pushes[n]
<1>1. pushes \in Seq(Prj!Targets \X Commits) /\ Len(pushes) \in Nat
  BY DEF Types
<1> DEFINE S == (Prj!Targets \X Commits) \cup {x}
<1>2. pushes \in Seq(S) /\ x \in S
  BY <1>1
<1> HIDE DEF S
<1>3. Len(pushes') = Len(pushes) + 1 /\ pushes' \in Seq(S)
  BY <1>2
<1>4. pushes'[Len(pushes) + 1] = x /\ \A n \in 1 .. Len(pushes) : pushes'[n] = pushes[n]
  BY <1>1, <1>2
<1>5. DOMAIN pushes = 1 .. Len(pushes) /\ DOMAIN pushes' = 1 .. Len(pushes')
  BY <1>1, <1>3
<1> QED
  BY <1>1, <1>3, <1>4, <1>5 DEF Positions

\* The worker reports what it has in hand.
LEMMA ReconcileStages ==
    ASSUME Types, CommitsAreStaged, Prj!Reconcile,
           UNCHANGED <<pushes, lastSent, snap, nPc>>
    PROVE  CommitsAreStaged'
<1>1. Undisturbed' /\ Forward /\ crCopy' = crCopy
  BY WorkerForward, WorkerFrame DEF CommitsAreStaged
<1>2. PICK sent \in Positions, listed \in Positions, copied \in Positions, stored \in Positions,
           head \in Positions : Stages(sent, listed, copied, stored, head)
  BY DEF CommitsAreStaged
<1>3. \A n, c : At(n, c) <=> At(n, c)'
  BY <1>1 DEF At, Tracked, Forward, P!Target
<1>4. PICK stored2 \in stored .. head :
          At(stored2, cr'.status.commit) /\ (cr' = cr => stored2 = stored)
  <2>1. stored \in stored .. head
    BY <1>2, PositionsType DEF Stages
  <2>2. CASE cr'.status.commit = cr.status.commit
    BY <1>2, <2>1, <2>2 DEF Stages
  <2>3. CASE cr'.status.commit # cr.status.commit
    BY <1>1, <1>2, <2>3 DEF Stages, Forward
  <2> QED
    BY <2>2, <2>3
<1>5. InHand' => \E n \in stored2 .. head : At(n, found'.commit)
  <2>1. head \in stored2 .. head
    BY <1>4, PositionsType
  <2>2. CASE found'.commit = BranchHead
    BY <1>2, <2>1, <2>2 DEF Stages
  <2>3. CASE InHand /\ found'.commit = found.commit /\ cr' = cr
    BY <1>2, <1>4, <2>3 DEF Stages
  <2> QED
    BY <1>1, <2>2, <2>3 DEF Forward
<1>6. stored2 \in Positions' /\ sent \in Positions' /\ listed \in Positions'
      /\ copied \in Positions' /\ head \in Positions'
  BY <1>2, <1>4, PositionsType DEF Positions
<1>7. Stages(sent, listed, copied, stored2, head)'
  <2>1. At(stored2, cr.status.commit)' /\ At(copied, crCopy.status.commit)'
        /\ At(sent, lastSent[Name].sha)' /\ At(head, BranchHead)'
        /\ (OnTheList' => At(listed, snap[Name].obs.sha)')
        /\ (InHand' => \E n \in stored2 .. head : At(n, found.commit)')
    BY <1>1, <1>2, <1>3, <1>4, <1>5 DEF Stages, Forward, At, Tracked, OnTheList
  <2>2. sent <= listed /\ listed <= copied /\ copied <= stored2 /\ stored2 <= head
    BY <1>2, <1>4, PositionsType DEF Stages
  <2> QED
    BY <2>1, <2>2 DEF Stages
<1> QED
  BY <1>1, <1>6, <1>7 DEF CommitsAreStaged

\* The informer, or a restart, brings the copy up to what is stored; a timer brings nothing.
LEMMA CopyStages ==
    ASSUME Types, CommitsAreStaged,
           crCopy' \in {cr, crCopy},
           UNCHANGED <<cr, scm, pushes, lastSent>>,
           \/ UNCHANGED <<pPc, obj, group, found>>
           \/ pPc' = "idle",
           \/ UNCHANGED <<nPc, snap>>
           \/ nPc' = "idle"
    PROVE  CommitsAreStaged'
<1>1. Undisturbed' /\ BranchHead' = BranchHead
  BY DEF CommitsAreStaged, Undisturbed, AsCreated, P!AtGitlab, BranchHead, P!Target
<1>2. PICK sent \in Positions, listed \in Positions, copied \in Positions, stored \in Positions,
           head \in Positions : Stages(sent, listed, copied, stored, head)
  BY DEF CommitsAreStaged
<1>3. \A n, c : At(n, c) <=> At(n, c)'
  BY DEF At, Tracked, P!Target
<1>4. /\ InHand' => InHand /\ found' = found
      /\ OnTheList' => OnTheList /\ snap' = snap
  BY DEF InHand, OnTheList
<1>5. PICK copied2 \in Positions :
          copied <= copied2 /\ copied2 <= stored /\ At(copied2, crCopy'.status.commit)
  <2>1. copied <= copied /\ copied <= stored /\ stored <= stored
    BY <1>2, PositionsType DEF Stages
  <2> QED
    BY <1>2, <2>1 DEF Stages
<1>6. /\ sent \in Positions' /\ listed \in Positions' /\ copied2 \in Positions'
      /\ stored \in Positions' /\ head \in Positions'
  BY <1>2, <1>5 DEF Positions
<1>7. Stages(sent, listed, copied2, stored, head)'
  <2>1. /\ At(sent, lastSent[Name].sha)' /\ At(copied2, crCopy.status.commit)'
        /\ At(stored, cr.status.commit)' /\ At(head, BranchHead)'
        /\ (OnTheList' => At(listed, snap[Name].obs.sha)')
        /\ (InHand' => \E n \in stored .. head : At(n, found.commit)')
    BY <1>1, <1>2, <1>3, <1>4, <1>5 DEF Stages, At, Tracked
  <2>2. sent <= listed /\ listed <= copied2 /\ copied2 <= stored /\ stored <= head
    BY <1>2, <1>5, PositionsType DEF Stages
  <2> QED
    BY <2>1, <2>2 DEF Stages
<1> QED
  BY <1>1, <1>6, <1>7 DEF CommitsAreStaged

\* A push to the tracked branch is its new head; others are of no concern.
LEMMA PushStages ==
    ASSUME Types, CommitsAreStaged,
           NEW t \in Prj!Targets, NEW c \in Commits, Prj!Push(t, c),
           pushes' = Append(pushes, <<t, c>>),
           UNCHANGED <<nPc, snap, lastSent>>
    PROVE  CommitsAreStaged'
<1>1. /\ scm[t].exists /\ scm' = [scm EXCEPT ![t] = [scm[t] EXCEPT !.head[BranchOf[c]] = c]]
      /\ UNCHANGED <<cr, crCopy, pPc, obj, group, found>>
  BY PushFrame DEF Prj!Push, Prj!OnGitlab
<1>2. BranchOf[c] \in Branches /\ c # None
  BY OperatorAssumption
<1>3. PICK sent \in Positions, listed \in Positions, copied \in Positions, stored \in Positions,
           head \in Positions : Stages(sent, listed, copied, stored, head)
  BY DEF CommitsAreStaged
<1>4. Undisturbed
  BY DEF CommitsAreStaged
<1> DEFINE tracked == t = P!Target(cr.spec) /\ BranchOf[c] = cr.spec.branch
<1>5. /\ scm'[P!Target(cr.spec)].exists
      /\ BranchHead' = IF tracked THEN c ELSE BranchHead
  <2>1. scm[t] \in Prj!GitlabType
    BY <1>4, HeadOf
  <2>2. /\ scm'[t].exists
        /\ scm'[t].head = [scm[t].head EXCEPT ![BranchOf[c]] = c]
        /\ \A u \in Prj!Targets : u # t => scm'[u] = scm[u]
    BY <1>1, <1>4, <2>1, HeadOf DEF Prj!GitlabType
  <2>3. scm[t].head \in [Branches -> Commits \cup {None}]
    BY <2>1 DEF Prj!GitlabType
  <2>4. P!Target(cr.spec)' = P!Target(cr.spec)
    BY <1>1 DEF P!Target
  <2>5. CASE t = P!Target(cr.spec)
    BY <1>1, <1>2, <1>4, <2>2, <2>3, <2>4, <2>5, HeadOf DEF BranchHead
  <2>6. CASE t # P!Target(cr.spec)
    BY <1>1, <1>4, <2>2, <2>4, <2>6, HeadOf DEF BranchHead, Undisturbed
  <2> QED
    BY <2>5, <2>6
<1>6. Undisturbed'
  BY <1>1, <1>4, <1>5 DEF Undisturbed, AsCreated, P!Target, P!AtGitlab
<1>7. \A n, d : At(n, d) => At(n, d)'
  BY <1>1, PushesStay DEF At, Tracked, P!Target
<1>8. PICK last \in Positions' : head <= last /\ (tracked => At(last, c)')
  <2>1. PICK n \in Nat : n = Len(pushes) + 1
    BY PositionsType
  <2>2. n \in Positions' /\ head <= n /\ n \in DOMAIN pushes' /\ pushes'[n] = <<t, c>>
    BY <1>3, <2>1, PushesStay, PositionsType DEF Positions
  <2>3. cr'.spec = cr.spec /\ P!Target(cr.spec)' = P!Target(cr.spec)
    BY <1>1 DEF P!Target
  <2>4. tracked => Tracked(n, c)'
    BY <2>2, <2>3 DEF Tracked
  <2> QED
    BY <1>2, <2>2, <2>4 DEF At
<1>9. PICK head2 \in Positions' : head <= head2 /\ At(head2, BranchHead)'
  <2>1. CASE tracked
    BY <1>5, <1>8, <2>1 DEF At, Tracked
  <2>2. CASE ~tracked
    <3>1. head <= head /\ At(head, BranchHead)
      BY <1>3, PositionsType DEF Stages
    <3>2. At(head, BranchHead)'
      BY <1>5, <1>7, <2>2, <3>1 DEF At, Tracked
    <3> QED
      BY <1>3, <3>1, <3>2, PushesStay
  <2> QED
    BY <2>1, <2>2
<1>10. Stages(sent, listed, copied, stored, head2)'
  <2>1. /\ At(sent, lastSent[Name].sha)' /\ At(copied, crCopy.status.commit)'
        /\ At(stored, cr.status.commit)'
        /\ (OnTheList' => At(listed, snap[Name].obs.sha)')
    BY <1>1, <1>3, <1>7 DEF Stages, At, Tracked, OnTheList
  <2>2. head2 \in Nat
    BY <1>9, PushesStay, PositionsType DEF Positions
  <2>3. InHand' => \E n \in stored .. head2 : At(n, found.commit)'
    <3> SUFFICES ASSUME InHand'
                 PROVE  \E n \in stored .. head2 : At(n, found.commit)'
      OBVIOUS
    <3>1. PICK n \in stored .. head : At(n, found.commit)
      BY <1>1, <1>3 DEF Stages, InHand
    <3>2. n \in stored .. head2
      BY <1>3, <1>9, <2>2, <3>1, PositionsType
    <3>3. At(n, found.commit)'
      BY <1>1, <1>7, <3>1 DEF At, Tracked
    <3> QED
      BY <3>2, <3>3
  <2>4. sent <= listed /\ listed <= copied /\ copied <= stored /\ stored <= head2
    BY <1>3, <1>9, <2>2, PositionsType DEF Stages
  <2> QED
    BY <1>9, <2>1, <2>3, <2>4 DEF Stages
<1> QED
  BY <1>3, <1>6, <1>9, <1>10, PushesStay DEF CommitsAreStaged

\* The Notifier controller sends what it listed, and lists what the informer holds.
LEMMA NotifierMoves ==
    ASSUME Types, Ntf!Reconcile \/ Ntf!TimerFires \/ Ntf!Resync
    PROVE  /\ lastSent'[Name].sha # lastSent[Name].sha =>
                  OnTheList /\ lastSent'[Name].sha = snap[Name].obs.sha
           /\ OnTheList' => (OnTheList /\ snap' = snap) \/ snap' = Listing
<1> USE DEF Ntf!Goto, Ntf!history, Ntf!locals, OnTheList
<1>1. CASE Ntf!TimerFires \/ Ntf!Resync \/ Ntf!Start
  <2>1. lastSent' = lastSent /\ (OnTheList' => OnTheList)
    BY <1>1 DEF Ntf!TimerFires, Ntf!Resync, Ntf!Start
  <2>2. OnTheList => snap' = snap
    BY <1>1 DEF Ntf!TimerFires, Ntf!Resync, Ntf!Start
  <2> QED
    BY <2>1, <2>2
<1>2. CASE \/ Ntf!GetFails \/ Ntf!ResolveProviders \/ Ntf!HealthCheck \/ Ntf!ListFails
          \/ Ntf!PatchOk \/ Ntf!PatchFails
  BY <1>2 DEF Ntf!GetFails, Ntf!ResolveProviders, Ntf!HealthCheck, Ntf!ListFails, Ntf!PatchOk,
     Ntf!PatchFails, Ntf!Finish
<1>3. CASE Ntf!FindLinkedProjects
  BY <1>3 DEF Ntf!FindLinkedProjects
<1>4. CASE \E p \in {Name} : Ntf!SkipProject(p) \/ Ntf!SeedProject(p) \/ Ntf!Panic(p)
                             \/ Ntf!DetectProject(p)
  BY <1>4 DEF Ntf!SkipProject, Ntf!SeedProject, Ntf!Panic, Ntf!DetectProject, Ntf!Processing,
     Ntf!Detecting, Ntf!Finish
<1>5. CASE Ntf!SendOk \/ Ntf!SendFails
  <2>1. nPc = "send" /\ snap' = snap /\ (Ntf!Received \/ UNCHANGED lastSent)
    BY <1>5 DEF Ntf!SendOk, Ntf!SendFails
  <2>2. cur = Name /\ lastSent \in [{Name} -> Ntf!Observation]
    BY <2>1 DEF Types, Ntf!TypeOK, Ntf!WorkerOK, Ntf!HistoryOK
  <2>3. \/ lastSent' = lastSent
        \/ lastSent' = [lastSent EXCEPT ![Name].sha = snap[Name].obs.sha]
        \/ lastSent' = [lastSent EXCEPT ![Name].id = snap[Name].obs.id,
                                        ![Name].status = snap[Name].obs.status]
    BY <2>1, <2>2 DEF Ntf!Received
  <2>4. lastSent'[Name].sha \in {lastSent[Name].sha, snap[Name].obs.sha}
    BY <2>2, <2>3 DEF Ntf!Observation
  <2> QED
    BY <2>1, <2>4
<1> QED
  BY <1>1, <1>2, <1>3, <1>4, <1>5 DEF Ntf!Reconcile

LEMMA NotifierStages ==
    ASSUME Types, CommitsAreStaged, Ntf!Reconcile \/ Ntf!TimerFires \/ Ntf!Resync,
           UNCHANGED <<cr, crCopy, scm, pPc, obj, group, found, pushes>>
    PROVE  CommitsAreStaged'
<1>1. Undisturbed' /\ BranchHead' = BranchHead
  BY DEF CommitsAreStaged, Undisturbed, AsCreated, P!AtGitlab, BranchHead, P!Target
<1>2. PICK sent \in Positions, listed \in Positions, copied \in Positions, stored \in Positions,
           head \in Positions : Stages(sent, listed, copied, stored, head)
  BY DEF CommitsAreStaged
<1>3. \A n, c : At(n, c) <=> At(n, c)'
  BY DEF At, Tracked, P!Target
<1>4. PICK sent2 \in Positions : sent2 <= listed /\ At(sent2, lastSent'[Name].sha)
  BY <1>2, NotifierMoves, PositionsType DEF Stages
<1>5. PICK listed2 \in Positions :
          /\ listed <= listed2 /\ listed2 <= copied
          /\ OnTheList' => At(listed2, snap'[Name].obs.sha)
  <2>1. CASE snap' = Listing
    <3>1. crCopy.exists /\ snap'[Name].obs.sha = crCopy.status.commit
      BY <2>1 DEF CommitsAreStaged, Undisturbed, AsCreated, Listing, Listed
    <3>2. listed <= copied /\ copied <= copied /\ At(copied, snap'[Name].obs.sha)
      BY <1>2, <3>1, PositionsType DEF Stages
    <3> QED
      BY <3>2
  <2>2. CASE snap' # Listing
    <3>1. OnTheList' => At(listed, snap'[Name].obs.sha)
      BY <1>2, <2>2, NotifierMoves DEF Stages
    <3>2. listed <= listed /\ listed <= copied
      BY <1>2, PositionsType DEF Stages
    <3> QED
      BY <3>1, <3>2
  <2> QED
    BY <2>1, <2>2
<1>6. /\ sent2 \in Positions' /\ listed2 \in Positions' /\ copied \in Positions'
      /\ stored \in Positions' /\ head \in Positions'
  BY <1>2, <1>4, <1>5 DEF Positions
<1>7. Stages(sent2, listed2, copied, stored, head)'
  <2>1. /\ At(sent2, lastSent[Name].sha)' /\ At(copied, crCopy.status.commit)'
        /\ At(stored, cr.status.commit)' /\ At(head, BranchHead)'
        /\ (OnTheList' => At(listed2, snap[Name].obs.sha)')
        /\ (InHand' => \E n \in stored .. head : At(n, found.commit)')
    BY <1>1, <1>2, <1>4, <1>5 DEF Stages, At, Tracked, InHand, P!Target
  <2>2. sent2 <= listed2 /\ listed2 <= copied /\ copied <= stored /\ stored <= head
    BY <1>2, <1>4, <1>5, PositionsType DEF Stages
  <2> QED
    BY <2>1, <2>2 DEF Stages
<1> QED
  BY <1>1, <1>6, <1>7 DEF CommitsAreStaged

LEMMA StagesInit == Init => CommitsAreStaged
<1> SUFFICES ASSUME Init
             PROVE  CommitsAreStaged
  OBVIOUS
<1>1. PICK s \in ProjectSpecs : cr = [P!Fresh(s, 1) EXCEPT !.finalizer = TRUE]
  BY DEF Init
<1>2. /\ cr.exists /\ cr.finalizer /\ ~cr.deleting /\ cr.status.commit = None
  BY <1>1 DEF P!Fresh, P!Gone, P!NoStatus
<1>3. Types
  BY TypesInit
<1>4. P!Target(cr.spec) \in Prj!Targets /\ P!Targets = Prj!Targets /\ cr.spec.branch \in Branches
  BY <1>3 DEF Types, Prj!TypeOK, Prj!ClusterOK, Prj!Resource, Prj!SpecType, P!Target,
     Prj!Targets, P!Targets
<1>5. BranchHead = None /\ scm[P!Target(cr.spec)].exists
  BY <1>4 DEF Init, BranchHead, P!NotOnGitlab
<1>6. Undisturbed
  BY <1>2, <1>5 DEF Init, Undisturbed, AsCreated, P!AtGitlab
<1>7. lastSent[Name].sha = None
  BY DEF Init, N!Nothing
<1>8. Stages(0, 0, 0, 0, 0)
  BY <1>2, <1>5, <1>7 DEF Init, Stages, At, InHand, OnTheList
<1>9. 0 \in Positions
  BY <1>3, PositionsType DEF Positions
<1> QED
  BY <1>6, <1>8, <1>9 DEF CommitsAreStaged

LEMMA StagesStep == Types /\ CommitsAreStaged /\ [Next]_vars => CommitsAreStaged'
<1> SUFFICES ASSUME Types, CommitsAreStaged, [Next]_vars
             PROVE  CommitsAreStaged'
  OBVIOUS
<1>1. CASE UNCHANGED vars
  BY <1>1, CopyStages DEF vars, pVars, nVars
<1>2. CASE ProjectReconcile
  BY <1>2, SameProject, ReconcileStages DEF ProjectReconcile, ProjectSide
<1>3. CASE ProjectInformer
  <2>1. Prj!SyncCache
    BY <1>3, SameProject DEF ProjectInformer, ProjectSide
  <2>2. crCopy' = cr
    BY <2>1 DEF Prj!SyncCache
  <2> QED
    BY <1>3, <2>1, <2>2, SyncFrame, CopyStages DEF ProjectInformer, ProjectSide
<1>4. CASE ProjectTimer
  BY <1>4, SameProject, TimerFrame, CopyStages DEF ProjectTimer, ProjectSide
<1>5. CASE GitlabPush
  <2>1. PICK t \in P!Targets, c \in Commits :
            ProjectSide(P!Push(t, c)) /\ pushes' = Append(pushes, <<t, c>>)
    BY <1>5 DEF GitlabPush
  <2>2. t \in Prj!Targets /\ Prj!Push(t, c)
    BY <2>1, SameProject DEF ProjectSide, P!Targets, Prj!Targets
  <2> QED
    BY <2>1, <2>2, PushStages DEF ProjectSide
<1>6. CASE NotifierReconcile \/ NotifierTimer \/ NotifierResync
  BY <1>6, SameNotifier, NotifierStages
  DEF NotifierReconcile, NotifierTimer, NotifierResync, NotifierSide, pVars
<1>7. CASE Crash
  BY <1>7, CopyStages DEF Crash
<1> QED
  BY <1>1, <1>2, <1>3, <1>4, <1>5, <1>6, <1>7 DEF Next

\* ... so that none is ever ahead of the one before it.
THEOREM CommitsStaged == Spec => []CommitsAreStaged
<1>1. Init => Types /\ CommitsAreStaged
  BY TypesInit, StagesInit
<1>2. Types /\ CommitsAreStaged /\ [Next]_vars => Types' /\ CommitsAreStaged'
  BY TypesStep, StagesStep
<1> QED
  BY <1>1, <1>2, PTL DEF Spec

\* No older state of the branch comes back as news, whatever lags, fails or restarts on the
\* way: Discord hears of a commit after another only if it was pushed after it, both on the
\* branch the resource tracks.
THEOREM NewsInOrder == Spec => NewsIsInOrder
<1> DEFINE old == lastSent[Name].sha
           new == lastSent'[Name].sha
           News == old # None /\ new \notin {old, None} =>
                       \E i, j \in DOMAIN pushes : i < j /\ Tracked(i, old) /\ Tracked(j, new)
<1>1. Types /\ CommitsAreStaged /\ [Next]_vars => [News]_vars
  <2> SUFFICES ASSUME Types, CommitsAreStaged, Next, old # None, new \notin {old, None}
               PROVE  \E i, j \in DOMAIN pushes : i < j /\ Tracked(i, old) /\ Tracked(j, new)
    OBVIOUS
  <2>1. PICK sent \in Positions, listed \in Positions, copied \in Positions, stored \in Positions,
             head \in Positions : Stages(sent, listed, copied, stored, head)
    BY DEF CommitsAreStaged
  <2>2. Ntf!Reconcile \/ Ntf!TimerFires \/ Ntf!Resync
    <3>1. lastSent' # lastSent
      OBVIOUS
    <3>2. ~(ProjectReconcile \/ ProjectInformer \/ ProjectTimer \/ GitlabPush \/ Crash)
      BY <3>1, ProjectSteps, NotifierCrash DEF Types, Elsewhere
    <3> QED
      BY <3>2, SameNotifier
      DEF Next, NotifierReconcile, NotifierTimer, NotifierResync, NotifierSide
  <2>3. OnTheList /\ new = snap[Name].obs.sha
    BY <2>2, NotifierMoves
  <2>4. Tracked(sent, old) /\ Tracked(listed, new)
    BY <2>1, <2>3 DEF Stages, At
  <2>5. sent # listed
    BY <2>4 DEF Tracked
  <2>6. sent < listed /\ sent \in DOMAIN pushes /\ listed \in DOMAIN pushes
    BY <2>1, <2>4, <2>5, PositionsType DEF Stages, Tracked
  <2> QED
    BY <2>4, <2>6
<1>2. Init => Types /\ CommitsAreStaged
  BY TypesInit, StagesInit
<1>3. Types /\ CommitsAreStaged /\ [Next]_vars => Types' /\ CommitsAreStaged'
  BY TypesStep, StagesStep
<1> QED
  BY <1>1, <1>2, <1>3, PTL DEF Spec, NewsIsInOrder

===============================================================================
