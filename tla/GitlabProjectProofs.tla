-------------------------- MODULE GitlabProjectProofs --------------------------
(***************************************************************************)
(* Theorems about the GitlabProject controller, for every set of groups,   *)
(* names, branches, commits and specs, and every bound.                    *)
(***************************************************************************)
EXTENDS GitlabProject, TLAPS

-------------------------------------------------------------------------------
(* Types of what the operators build.                                        *)

LEMMA AdmittedType == \A s \in Specs : Admitted(s) \in SpecType
<1> SUFFICES ASSUME NEW s \in Specs
             PROVE  Admitted(s) \in SpecType
  OBVIOUS
<1>1. s \in [group : Groups, name : Names, visibility : Visibilities \cup {""},
             branch : Branches, notified : BOOLEAN]
  BY ProjectAssumption
<1>2. DefaultVisibility(s.visibility) \in Visibilities
  BY <1>1 DEF DefaultVisibility, Visibilities
<1> QED
  BY <1>1, <1>2 DEF Admitted, SpecType

LEMMA NoSpecType == NoSpec \in SpecType
<1> DEFINE s == CHOOSE s \in Specs : TRUE
<1>1. s \in Specs
  BY ProjectAssumption
<1>2. s \in [group : Groups, name : Names, visibility : Visibilities \cup {""},
             branch : Branches, notified : BOOLEAN]
  BY <1>1, ProjectAssumption
<1>3. NoSpec = [s EXCEPT !.visibility = "private"]
  BY DEF NoSpec
<1> QED
  BY <1>2, <1>3 DEF SpecType, Visibilities

LEMMA NoStatusType == NoStatus \in StatusType
BY DEF NoStatus, StatusType

LEMMA GoneType == \A n \in Nat : Gone(n) \in Resource
BY NoSpecType, NoStatusType DEF Gone, Resource

LEMMA FreshType ==
    \A s \in Specs, n \in Nat, f \in BOOLEAN :
        Fresh(s, n) \in Resource /\ [Fresh(s, n) EXCEPT !.finalizer = f] \in Resource
BY AdmittedType, GoneType DEF Fresh, Gone, Resource

LEMMA NotOnGitlabType ==
    NotOnGitlab \in GitlabType /\ [NotOnGitlab EXCEPT !.exists = TRUE] \in GitlabType
BY DEF NotOnGitlab, GitlabType, Visibilities

LEMMA MergedStatusType ==
    ASSUME NEW old \in StatusType, NEW new \in StatusType, NEW live \in StatusType
    PROVE  MergedStatus(old, new, live) \in StatusType
BY DEF MergedStatus, Merged, StatusType

\* A status patch leaves a resource, and everything but its status as it was.
LEMMA PatchedStatusType ==
    ASSUME TypeOK, NEW new \in StatusType
    PROVE  /\ PatchedStatus(new) \in Resource
           /\ PatchedStatus(new).exists = cr.exists /\ PatchedStatus(new).gen = cr.gen
           /\ PatchedStatus(new).deleting = cr.deleting
           /\ PatchedStatus(new).finalizer = cr.finalizer
           /\ PatchedStatus(new).spec = cr.spec
           /\ PatchedStatus(new).status = MergedStatus(obj.status, new, cr.status)
<1>1. cr \in Resource /\ obj.status \in StatusType /\ cr.status \in StatusType
  BY DEF TypeOK, ClusterOK, WorkerOK, Resource
<1>2. MergedStatus(obj.status, new, cr.status) \in StatusType
  BY <1>1, MergedStatusType
<1> QED
  BY <1>1, <1>2 DEF PatchedStatus, Resource

LEMMA FailedType == TypeOK => Failed \in StatusType
<1> SUFFICES ASSUME TypeOK
             PROVE  Failed \in StatusType
  OBVIOUS
<1>1. obj.status \in StatusType /\ obj.gen \in Nat /\ reason \in Reasons \cup {NoReason}
  BY DEF TypeOK, WorkerOK, Resource
<1> QED
  BY <1>1 DEF Failed, Condition, StatusType

LEMMA SuccessStatusType ==
    ASSUME TypeOK, group \in Groups
    PROVE  SuccessStatus(obj, group, found) \in StatusType
<1>1. /\ obj.status \in StatusType /\ obj.gen \in Nat /\ obj.spec.name \in Names
      /\ found \in FoundType
  BY DEF TypeOK, WorkerOK, Resource, SpecType
<1>2. <<group, obj.spec.name>> \in Targets \cup {None}
  BY <1>1 DEF Targets
<1> DEFINE path     == <<group, obj.spec.name>>
           commit   == IF found.commit # None THEN found.commit ELSE obj.status.commit
           pipeline == IF found.pipeline # None THEN found.pipeline ELSE obj.status.pipeline
           cond     == [reason |-> "ProjectReconciled", gen |-> obj.gen]
<1>3. cond \in [reason : Reasons \cup {NoReason}, gen : Nat]
  BY <1>1 DEF Reasons
<1>4. commit \in Commits \cup {None} /\ pipeline \in Pipelines \cup {None}
  BY <1>1 DEF FoundType, StatusType
<1>5. SuccessStatus(obj, group, found) =
        [obj.status EXCEPT !.path = path, !.visibility = found.visibility, !.commit = commit,
                           !.pipeline = pipeline, !.cond = cond]
  BY <1>1 DEF SuccessStatus, StatusType
<1>6. found.visibility \in Visibilities \cup {None}
  BY <1>1 DEF FoundType
<1> HIDE DEF path, commit, pipeline, cond
<1>7. path \in Targets \cup {None}
  BY <1>2 DEF path
<1> QED
  BY <1>1, <1>3, <1>4, <1>5, <1>6, <1>7 DEF StatusType

\* The fields of a resource, and the updates the handlers make to it.
LEMMA ResourceFields ==
    \A r \in Resource :
        /\ r.exists \in BOOLEAN /\ r.gen \in Nat /\ r.gen + 1 \in Nat /\ r.deleting \in BOOLEAN
        /\ r.finalizer \in BOOLEAN /\ r.spec \in SpecType /\ r.status \in StatusType
BY DEF Resource

LEMMA ResourceUpdates ==
    ASSUME NEW r \in Resource
    PROVE  /\ \A f \in BOOLEAN : [r EXCEPT !.finalizer = f] \in Resource
           /\ \A s \in StatusType : [r EXCEPT !.status = s] \in Resource
           /\ \A n \in Nat : [r EXCEPT !.gen = n, !.deleting = TRUE] \in Resource
           /\ \A n \in Nat, s \in SpecType : [r EXCEPT !.gen = n, !.spec = s] \in Resource
           /\ [r EXCEPT !.status.stamped = TRUE] \in Resource
<1>1. /\ \A f \in BOOLEAN : [r EXCEPT !.finalizer = f] \in Resource
      /\ \A s \in StatusType : [r EXCEPT !.status = s] \in Resource
  BY DEF Resource
<1>2. /\ \A n \in Nat : [r EXCEPT !.gen = n, !.deleting = TRUE] \in Resource
      /\ \A n \in Nat, s \in SpecType : [r EXCEPT !.gen = n, !.spec = s] \in Resource
  BY DEF Resource
<1>3. [r.status EXCEPT !.stamped = TRUE] \in StatusType
  BY ResourceFields DEF StatusType
<1>4. [r EXCEPT !.status.stamped = TRUE] = [r EXCEPT !.status = [r.status EXCEPT !.stamped = TRUE]]
  OBVIOUS
<1> QED
  BY <1>1, <1>2, <1>3, <1>4

LEMMA TargetType ==
    \A s \in SpecType : s.group \in Groups /\ s.name \in Names /\ Target(s) \in Targets
BY DEF SpecType, Target, Targets

LEMMA UnfinalizedType == cr \in Resource => Unfinalized \in Resource
<1> SUFFICES ASSUME cr \in Resource
             PROVE  Unfinalized \in Resource
  OBVIOUS
<1>1. [cr EXCEPT !.finalizer = FALSE] \in Resource
  BY ResourceUpdates
<1>2. Gone(cr.gen + 1) \in Resource
  BY ResourceFields, GoneType
<1> QED
  BY <1>1, <1>2 DEF Unfinalized

\* What GitLab stores stays well-typed under the writes of users and operator.
LEMMA GitlabUpdates ==
    ASSUME NEW p \in GitlabType
    PROVE  /\ p.exists \in BOOLEAN /\ p.visibility \in Visibilities
           /\ \A b \in Branches : /\ p.head[b] \in Commits \cup {None}
                                  /\ p.last[b] \in Pipelines \cup {None}
           /\ \A f \in BOOLEAN : [p EXCEPT !.stamped = f] \in GitlabType
           /\ \A v \in Visibilities : [p EXCEPT !.visibility = v] \in GitlabType
           /\ \A b \in Branches, c \in Commits : [p EXCEPT !.head[b] = c] \in GitlabType
           /\ \A b \in Branches, c \in Pipelines : [p EXCEPT !.last[b] = c] \in GitlabType
BY DEF GitlabType

LEMMA ScmUpdates ==
    ASSUME scm \in [Targets -> GitlabType], NEW t \in Targets
    PROVE  /\ scm[t] \in GitlabType
           /\ \A p \in GitlabType : [scm EXCEPT ![t] = p] \in [Targets -> GitlabType]
           /\ \A f \in BOOLEAN : [scm EXCEPT ![t].stamped = f] \in [Targets -> GitlabType]
<1>1. scm[t] \in GitlabType
  OBVIOUS
<1>2. \A f \in BOOLEAN :
          [scm EXCEPT ![t].stamped = f] = [scm EXCEPT ![t] = [scm[t] EXCEPT !.stamped = f]]
  OBVIOUS
<1> QED
  BY <1>1, <1>2, GitlabUpdates

-------------------------------------------------------------------------------
(* Type correctness.                                                         *)

LEMMA InitType == Init => TypeOK
<1> SUFFICES ASSUME Init
             PROVE  TypeOK
  OBVIOUS
<1>1. cr \in Resource /\ cached \in Resource
  <2>1. CASE cr = Gone(0)
    BY <2>1, GoneType DEF Init
  <2>2. CASE \E s \in Specs, f \in BOOLEAN : cr = [Fresh(s, 1) EXCEPT !.finalizer = f]
    BY <2>2, FreshType DEF Init
  <2> QED
    BY <2>1, <2>2 DEF Init
<1>2. scm \in [Targets -> GitlabType]
  BY NotOnGitlabType DEF Init
<1>3. ClusterOK
  BY <1>1, <1>2, ResourceFields DEF Init, ClusterOK
<1>4. WorkerOK
  BY GoneType DEF Init, WorkerOK, Labels, NothingFound, FoundType
<1> QED
  BY <1>3, <1>4 DEF TypeOK

\* Between reconciles the worker holds nothing, and it may stay as it is.
LEMMA WorkerIdle == pc' = "idle" /\ ResetLocals => WorkerOK'
BY GoneType DEF ResetLocals, WorkerOK, Labels, NothingFound, FoundType

LEMMA WorkerSame == TypeOK /\ UNCHANGED <<pc, locals>> => WorkerOK'
BY DEF TypeOK, WorkerOK, locals

\* What the users, GitLab and the informers do.
LEMMA UsersType == TypeOK /\ Users => TypeOK'
<1> SUFFICES ASSUME TypeOK, Users
             PROVE  ClusterOK' /\ WorkerOK'
  BY DEF TypeOK
<1>1. ASSUME NEW s \in Specs, CreateResource(s)
      PROVE  ClusterOK' /\ WorkerOK'
  <2>1. Fresh(s, cr.gen + 1) \in Resource
    BY FreshType, ResourceFields DEF TypeOK, ClusterOK
  <2>2. abandoned' \subseteq Targets
    BY <1>1 DEF TypeOK, ClusterOK, CreateResource, ResourceEvent, Retargeted
  <2> QED
    BY <1>1, <2>1, <2>2, WorkerSame
       DEF TypeOK, ClusterOK, CreateResource, ResourceEvent, Change, queue
<1>2. ASSUME NEW s \in Specs, EditResource(s)
      PROVE  ClusterOK' /\ WorkerOK'
  <2>1. [cr EXCEPT !.gen = @ + 1, !.spec = Admitted(s)] \in Resource
    BY AdmittedType, ResourceFields, ResourceUpdates DEF TypeOK, ClusterOK
  <2>2. abandoned' \subseteq Targets
    <3>1. cr.deleting \in BOOLEAN
      BY ResourceFields DEF TypeOK, ClusterOK
    <3> QED
      BY <1>2, <3>1 DEF TypeOK, ClusterOK, EditResource, ResourceEvent, Retargeted
  <2> QED
    BY <1>2, <2>1, <2>2, WorkerSame
       DEF TypeOK, ClusterOK, EditResource, ResourceEvent, Change, queue
<1>3. CASE DeleteResource
  <2>1. /\ [cr EXCEPT !.gen = @ + 1, !.deleting = TRUE] \in Resource
        /\ Gone(cr.gen + 1) \in Resource
    BY GoneType, ResourceFields, ResourceUpdates DEF TypeOK, ClusterOK
  <2> QED
    BY <1>3, <2>1, WorkerSame
       DEF TypeOK, ClusterOK, DeleteResource, ResourceEvent, Change, queue
<1>4. CASE ChangeToken
  <2>1. SecretEnqueues \in BOOLEAN
    BY ResourceFields DEF SecretEnqueues, TypeOK, ClusterOK
  <2> QED
    BY <1>4, <2>1, WorkerSame DEF TypeOK, ClusterOK, ChangeToken, Change
<1>5. CASE ChangeNotifier
  BY <1>5, WorkerSame DEF TypeOK, ClusterOK, ChangeNotifier, Change, queue
<1>6. ASSUME NEW g \in Groups, ChangeGroup(g)
      PROVE  ClusterOK' /\ WorkerOK'
  BY <1>6, WorkerSame DEF TypeOK, ClusterOK, ChangeGroup, Change, queue
<1> QED
  BY <1>1, <1>2, <1>3, <1>4, <1>5, <1>6 DEF Users

LEMMA GitlabStepType == TypeOK /\ Gitlab => TypeOK'
<1> SUFFICES ASSUME TypeOK, Gitlab
             PROVE  TypeOK'
  OBVIOUS
<1>1. \A t \in Targets : scm[t] \in GitlabType
  BY DEF TypeOK, ClusterOK
<1>2. ASSUME NEW t \in Targets, NEW c \in Commits
      PROVE  [scm[t] EXCEPT !.head[BranchOf[c]] = c] \in GitlabType
  <2>1. BranchOf[c] \in Branches
    BY ProjectAssumption
  <2> QED
    BY <1>1, <2>1, GitlabUpdates
<1>3. PICK t \in Targets, p \in GitlabType : OnGitlab(t, p)
  BY <1>1, <1>2, GitlabUpdates, NotOnGitlabType
     DEF Gitlab, Push, RunPipeline, EditOnGitlab, DropTopic, RemoveProject
<1>4. scm' \in [Targets -> GitlabType]
  BY <1>3, ScmUpdates DEF TypeOK, ClusterOK, OnGitlab
<1> QED
  BY <1>3, <1>4, WorkerSame DEF TypeOK, ClusterOK, OnGitlab, Change, cluster, queue

LEMMA EventsType == TypeOK /\ (SyncCache \/ Resync \/ TimerFires \/ Crash) => TypeOK'
<1> SUFFICES ASSUME TypeOK, SyncCache \/ Resync \/ TimerFires \/ Crash
             PROVE  ClusterOK' /\ WorkerOK'
  BY DEF TypeOK
<1>1. cr.exists \in BOOLEAN
  BY ResourceFields DEF TypeOK, ClusterOK
<1>2. CASE SyncCache
  BY <1>2, WorkerSame DEF TypeOK, ClusterOK, SyncCache
<1>3. CASE Resync
  BY <1>3, WorkerSame DEF TypeOK, ClusterOK, Resync, cluster
<1>4. CASE TimerFires
  BY <1>4, WorkerSame DEF TypeOK, ClusterOK, TimerFires, cluster
<1>5. CASE Crash
  <2>1. ClusterOK'
    <3>1. queued' \in BOOLEAN
      BY <1>1, <1>5, Zenon DEF Crash
    <3>2. faults' \in Nat
      BY <1>5 DEF TypeOK, ClusterOK, Crash, Fault
    <3> QED
      BY <1>5, <3>1, <3>2 DEF TypeOK, ClusterOK, Crash
  <2>2. WorkerOK'
    BY <1>5, WorkerIdle DEF Crash
  <2> QED
    BY <2>1, <2>2
<1> QED
  BY <1>2, <1>3, <1>4, <1>5

\* Past its dependencies, the worker has a goal.
LEMMA GoalType ==
    ASSUME TypeOK, AtGitlab \/ pc \in {"register", "cleanup"}
    PROVE  group \in Groups /\ Goal \in Targets /\ scm[Goal] \in GitlabType
<1>1. group \in Groups
  BY DEF TypeOK, WorkerOK, AtGitlab
<1>2. obj.spec.name \in Names
  BY ResourceFields, TargetType DEF TypeOK, WorkerOK
<1> QED
  BY <1>1, <1>2 DEF Goal, Targets, TypeOK, ClusterOK

LEMMA FoundUpdates ==
    ASSUME NEW f \in FoundType
    PROVE  /\ \A v \in Visibilities : [f EXCEPT !.visibility = v] \in FoundType
           /\ \A c \in Commits \cup {None} : [f EXCEPT !.commit = c] \in FoundType
           /\ \A p \in Pipelines \cup {None} : [f EXCEPT !.pipeline = p] \in FoundType
BY DEF FoundType

LEMMA CopyFields ==
    ASSUME TypeOK
    PROVE  /\ obj.spec.branch \in Branches /\ obj.spec.visibility \in Visibilities
           /\ obj.spec.group \in Groups
<1>1. obj.spec \in SpecType
  BY ResourceFields DEF TypeOK, WorkerOK
<1> QED
  BY <1>1 DEF SpecType

\* The steps up to the call of GitLab.
LEMMA ArrivalType ==
    TypeOK /\ (Start \/ Resolve \/ ReportFailure \/ AddFinalizer \/ AddFinalizerFails
                 \/ ResolveNotifier)
        => TypeOK'
<1> SUFFICES ASSUME TypeOK, \/ Start \/ Resolve \/ ReportFailure \/ AddFinalizer
                            \/ AddFinalizerFails \/ ResolveNotifier
             PROVE  ClusterOK' /\ WorkerOK'
  BY DEF TypeOK
<1>1. CASE Start
  <2>1. ClusterOK'
    BY <1>1 DEF TypeOK, ClusterOK, Start, cluster
  <2>2. WorkerOK'
    BY <1>1 DEF TypeOK, ClusterOK, WorkerOK, Start, Labels
  <2> QED
    BY <2>1, <2>2
<1>2. CASE Resolve
  <2>1. ClusterOK'
    BY <1>2 DEF TypeOK, ClusterOK, Resolve, Goto, cluster, queue
  <2>2. CASE Missing = NoReason
    <3>1. pc' \in {"cleanup", "unfinalize", "done", "register", "notifier"}
      BY <1>2, <2>2, ResourceFields
         DEF TypeOK, WorkerOK, Resolve, Goto, HandleDeletion, NeedsFinalizer
    <3>2. group' \in Groups /\ UNCHANGED <<obj, found, reason>>
      BY <1>2, <2>2, CopyFields DEF Resolve
    <3> QED
      BY <2>1, <3>1, <3>2 DEF TypeOK, WorkerOK, Labels
  <2>3. CASE Missing # NoReason
    <3>1. pc' \in {"skip", "fail"}
      BY <1>2, <2>3 DEF Resolve, Goto
    <3>2. group' = None /\ reason' \in Reasons /\ UNCHANGED <<obj, found>>
      BY <1>2, <2>3 DEF TypeOK, WorkerOK, Resolve, Missing, Reasons, NoReason
    <3> QED
      BY <2>1, <3>1, <3>2 DEF TypeOK, WorkerOK, Labels
  <2> QED
    BY <2>2, <2>3
<1>3. CASE ReportFailure
  <2>1. PatchedStatus(Failed) \in Resource
    BY FailedType, PatchedStatusType
  <2>2. cr' \in Resource /\ faults' \in Nat
    BY <1>3, <2>1
       DEF TypeOK, ClusterOK, ReportFailure, ConditionStored, ConditionLost, Fault
  <2>3. timer' \in BOOLEAN /\ WorkerOK'
    BY <1>3, WorkerIdle DEF TypeOK, ClusterOK, ReportFailure, Finish
  <2> QED
    BY <1>3, <2>2, <2>3 DEF TypeOK, ClusterOK, ReportFailure
<1>4. CASE AddFinalizer
  <2>1. cr' \in Resource
    BY <1>4, ResourceUpdates DEF TypeOK, ClusterOK, AddFinalizer
  <2>2. ClusterOK'
    BY <1>4, <2>1 DEF TypeOK, ClusterOK, AddFinalizer, queue
  <2>3. group \in Groups
    BY <1>4, GoalType DEF AddFinalizer
  <2> QED
    BY <1>4, <2>1, <2>2, <2>3 DEF TypeOK, WorkerOK, AddFinalizer, Labels
<1>5. CASE AddFinalizerFails
  <2>1. [cr EXCEPT !.finalizer = TRUE] \in Resource
    BY ResourceUpdates DEF TypeOK, ClusterOK
  <2>2. cr' \in Resource /\ faults' \in Nat
    <3>1. CASE ~cr.exists /\ UNCHANGED <<cr, faults>>
      BY <3>1 DEF TypeOK, ClusterOK
    <3>2. CASE Fault /\ cr' \in {cr, [cr EXCEPT !.finalizer = TRUE]}
      <4>1. faults' \in Nat
        BY <3>2 DEF TypeOK, ClusterOK, Fault
      <4> QED
        BY <2>1, <3>2, <4>1 DEF TypeOK, ClusterOK
    <3> QED
      BY <1>5, <3>1, <3>2 DEF AddFinalizerFails
  <2>3. timer' \in BOOLEAN /\ WorkerOK'
    BY <1>5, WorkerIdle DEF TypeOK, ClusterOK, AddFinalizerFails, Finish
  <2> QED
    BY <1>5, <2>2, <2>3 DEF TypeOK, ClusterOK, AddFinalizerFails
<1>6. CASE ResolveNotifier
  <2>1. ClusterOK'
    BY <1>6 DEF TypeOK, ClusterOK, ResolveNotifier, Goto, cluster, queue
  <2>2. group \in Groups
    BY <1>6, GoalType DEF ResolveNotifier, AtGitlab
  <2>3. pc' \in {"fail", "lookup"} /\ reason' \in Reasons \cup {NoReason}
    BY <1>6 DEF TypeOK, WorkerOK, ResolveNotifier, Goto, Reasons
  <2> QED
    BY <1>6, <2>1, <2>2, <2>3 DEF TypeOK, WorkerOK, ResolveNotifier, Labels
<1> QED
  BY <1>1, <1>2, <1>3, <1>4, <1>5, <1>6

\* The steps on GitLab.
LEMMA OnGitlabType ==
    TypeOK /\ (LookUp \/ CreateProject \/ UpdateProject \/ GitlabFails \/ Stamp \/ StampFails
                 \/ GetBranchCommit \/ GetLastPipeline)
        => TypeOK'
<1> SUFFICES ASSUME TypeOK, \/ LookUp \/ CreateProject \/ UpdateProject \/ GitlabFails
                            \/ Stamp \/ StampFails \/ GetBranchCommit \/ GetLastPipeline
             PROVE  ClusterOK' /\ WorkerOK'
  BY DEF TypeOK
<1>1. group \in Groups /\ Goal \in Targets /\ scm[Goal] \in GitlabType
  BY GoalType DEF LookUp, CreateProject, UpdateProject, GitlabFails, Stamp, StampFails,
                  GetBranchCommit, GetLastPipeline, AtGitlab
<1>2. \A p \in GitlabType : [scm EXCEPT ![Goal] = p] \in [Targets -> GitlabType]
  BY <1>1, ScmUpdates DEF TypeOK, ClusterOK
<1>3. Created \in GitlabType /\ Updated \in GitlabType
  BY <1>1, CopyFields, NotOnGitlabType, GitlabUpdates DEF Created, Updated
<1>4. Stamped(Goal) \in [Targets -> GitlabType]
  BY <1>1, ScmUpdates DEF TypeOK, ClusterOK, Stamped
<1>5. found \in FoundType /\ obj \in Resource /\ reason \in Reasons \cup {NoReason}
  BY DEF TypeOK, WorkerOK
<1>6. CASE LookUp
  <2>1. found' \in FoundType
    BY <1>1, <1>5, <1>6, FoundUpdates, GitlabUpdates DEF LookUp
  <2>2. pc' \in {"create", "update", "stamp"}
    BY <1>6 DEF LookUp, Goto
  <2>3. ClusterOK'
    BY <1>6 DEF TypeOK, ClusterOK, LookUp, Goto, cluster, queue
  <2>4. WorkerOK'
    BY <1>1, <1>5, <1>6, <2>1, <2>2 DEF WorkerOK, LookUp, Labels
  <2> QED
    BY <2>3, <2>4
<1>7. CASE CreateProject \/ UpdateProject
  <2>1. Write(Created) \/ Write(Updated)
    BY <1>7 DEF CreateProject, UpdateProject
  <2>2. scm' \in [Targets -> GitlabType]
    BY <1>2, <1>3, <2>1 DEF Write
  <2>3. found' \in FoundType
    BY <1>5, <2>1, FoundUpdates, CopyFields DEF Write
  <2>4. ClusterOK'
    BY <2>1, <2>2 DEF TypeOK, ClusterOK, Write, Goto, cluster, queue
  <2>5. WorkerOK'
    BY <1>1, <1>5, <2>1, <2>3 DEF WorkerOK, Write, Goto, Labels
  <2> QED
    BY <2>4, <2>5
<1>8. CASE GitlabFails
  <2>1. scm' \in [Targets -> GitlabType]
    BY <1>2, <1>3, <1>8 DEF TypeOK, ClusterOK, GitlabFails
  <2>2. faults' \in Nat
    BY <1>8 DEF TypeOK, ClusterOK, GitlabFails, Fault
  <2>3. ClusterOK'
    BY <1>8, <2>1, <2>2 DEF TypeOK, ClusterOK, GitlabFails, Goto, cluster, queue
  <2>4. WorkerOK'
    BY <1>1, <1>5, <1>8 DEF WorkerOK, GitlabFails, Goto, Labels, Reasons
  <2> QED
    BY <2>3, <2>4
<1>9. CASE Stamp
  <2>1. scm' \in [Targets -> GitlabType] /\ obj' \in Resource
    BY <1>4, <1>5, <1>9, ResourceUpdates DEF TypeOK, ClusterOK, Stamp
  <2>2. ClusterOK'
    BY <1>9, <2>1 DEF TypeOK, ClusterOK, Stamp, Goto, cluster, queue
  <2>3. WorkerOK'
    BY <1>1, <1>5, <1>9, <2>1 DEF WorkerOK, Stamp, Goto, Labels
  <2> QED
    BY <2>2, <2>3
<1>10. CASE StampFails
  <2>1. scm' \in [Targets -> GitlabType] /\ faults' \in Nat
    BY <1>4, <1>10 DEF TypeOK, ClusterOK, StampFails, Fault
  <2>2. ClusterOK'
    BY <1>10, <2>1 DEF TypeOK, ClusterOK, StampFails, Goto, cluster, queue
  <2>3. WorkerOK'
    BY <1>1, <1>5, <1>10 DEF WorkerOK, StampFails, Goto, Labels
  <2> QED
    BY <2>2, <2>3
<1>11. CASE GetBranchCommit \/ GetLastPipeline
  <2>1. /\ scm[Goal].head[obj.spec.branch] \in Commits \cup {None}
        /\ scm[Goal].last[obj.spec.branch] \in Pipelines \cup {None}
    BY <1>1, CopyFields, GitlabUpdates
  <2>2. found' \in FoundType
    BY <1>5, <1>11, <2>1, FoundUpdates DEF GetBranchCommit, GetLastPipeline
  <2>3. faults' \in Nat
    BY <1>11 DEF TypeOK, ClusterOK, GetBranchCommit, GetLastPipeline, Fault
  <2>4. ClusterOK'
    BY <1>11, <2>3
       DEF TypeOK, ClusterOK, GetBranchCommit, GetLastPipeline, Goto, cluster, queue
  <2>5. WorkerOK'
    BY <1>1, <1>5, <1>11, <2>2
       DEF WorkerOK, GetBranchCommit, GetLastPipeline, Goto, Labels, Reasons
  <2> QED
    BY <2>4, <2>5
<1> QED
  BY <1>6, <1>7, <1>8, <1>9, <1>10, <1>11

\* The ends of a reconcile.
LEMMA DepartureType ==
    TypeOK /\ (UpdateStatus \/ ReportSkip \/ FinalizeProject \/ RemoveFinalizer
                 \/ RemoveFinalizerFails \/ NothingToFinalize)
        => TypeOK'
<1> SUFFICES ASSUME TypeOK, \/ UpdateStatus \/ ReportSkip \/ FinalizeProject
                            \/ RemoveFinalizer \/ RemoveFinalizerFails \/ NothingToFinalize
             PROVE  ClusterOK' /\ WorkerOK'
  BY DEF TypeOK
<1>1. CASE UpdateStatus
  <2>1. group \in Groups
    BY <1>1, GoalType DEF UpdateStatus, AtGitlab
  <2>2. PatchedStatus(SuccessStatus(obj, group, found)) \in Resource
    BY <2>1, SuccessStatusType, PatchedStatusType
  <2>3. cr' \in Resource /\ faults' \in Nat
    BY <1>1, <2>2 DEF TypeOK, ClusterOK, UpdateStatus, Fault
  <2>4. timer' \in BOOLEAN /\ WorkerOK'
    BY <1>1, WorkerIdle DEF TypeOK, ClusterOK, UpdateStatus, Finish
  <2> QED
    BY <1>1, <2>3, <2>4 DEF TypeOK, ClusterOK, UpdateStatus
<1>2. CASE ReportSkip
  <2>1. PatchedStatus(Failed) \in Resource /\ [obj EXCEPT !.status = Failed] \in Resource
    BY FailedType, PatchedStatusType, ResourceUpdates DEF TypeOK, WorkerOK
  <2>2. cr' \in Resource /\ faults' \in Nat /\ obj' \in Resource
    BY <1>2, <2>1
       DEF TypeOK, ClusterOK, ReportSkip, ConditionStored, ConditionLost, Fault
  <2>3. pc' \in {"unfinalize", "done"}
    <3>1. obj'.finalizer \in BOOLEAN
      BY <2>2, ResourceFields
    <3> QED
      BY <1>2, <3>1 DEF ReportSkip, HandleDeletion
  <2>4. Target(obj.spec) \in Targets
    BY ResourceFields, TargetType DEF TypeOK, WorkerOK
  <2>5. ClusterOK'
    BY <1>2, <2>2, <2>4 DEF TypeOK, ClusterOK, ReportSkip, queue
  <2>6. group' = None /\ UNCHANGED <<found, reason>>
    BY <1>2 DEF TypeOK, WorkerOK, ReportSkip
  <2>7. WorkerOK'
    BY <2>2, <2>3, <2>6 DEF TypeOK, WorkerOK, Labels
  <2> QED
    BY <2>5, <2>7
<1>3. CASE FinalizeProject
  <2>1. group \in Groups /\ Goal \in Targets
    BY <1>3, GoalType DEF FinalizeProject
  <2>2. Unstamped(Goal) \in [Targets -> GitlabType]
    BY <2>1, ScmUpdates DEF TypeOK, ClusterOK, Unstamped
  <2>3. scm' \in [Targets -> GitlabType] /\ faults' \in Nat /\ abandoned' \subseteq Targets
    BY <1>3, <2>1, <2>2 DEF TypeOK, ClusterOK, FinalizeProject, Fault
  <2>4. ClusterOK'
    BY <1>3, <2>3 DEF TypeOK, ClusterOK, FinalizeProject, Goto, cluster, queue
  <2>5. WorkerOK'
    BY <1>3, <2>1 DEF TypeOK, WorkerOK, FinalizeProject, Goto, locals, Labels
  <2> QED
    BY <2>4, <2>5
<1>4. CASE RemoveFinalizer \/ RemoveFinalizerFails
  <2>1. Unfinalized \in Resource
    BY UnfinalizedType DEF TypeOK, ClusterOK
  <2>2. cr' \in Resource
    BY <1>4, <2>1 DEF TypeOK, ClusterOK, RemoveFinalizer, RemoveFinalizerFails
  <2>3. faults' \in Nat
    <3>1. UNCHANGED faults \/ Fault
      BY <1>4 DEF RemoveFinalizer, RemoveFinalizerFails
    <3> QED
      BY <3>1 DEF TypeOK, ClusterOK, Fault
  <2>4. timer' \in BOOLEAN /\ WorkerOK'
    BY <1>4, WorkerIdle
       DEF TypeOK, ClusterOK, RemoveFinalizer, RemoveFinalizerFails, Finish
  <2> QED
    BY <1>4, <2>2, <2>3, <2>4
       DEF TypeOK, ClusterOK, RemoveFinalizer, RemoveFinalizerFails
<1>5. CASE NothingToFinalize
  <2>1. timer' \in BOOLEAN /\ WorkerOK'
    BY <1>5, WorkerIdle DEF TypeOK, ClusterOK, NothingToFinalize, Finish
  <2> QED
    BY <1>5, <2>1 DEF TypeOK, ClusterOK, NothingToFinalize, cluster
<1> QED
  BY <1>1, <1>2, <1>3, <1>4, <1>5

LEMMA StepType == TypeOK /\ [Next]_vars => TypeOK'
<1>1. ASSUME TypeOK, UNCHANGED vars
      PROVE  TypeOK'
  BY <1>1, WorkerSame DEF TypeOK, ClusterOK, vars, cluster, queue
<1> QED
  BY <1>1, ArrivalType, OnGitlabType, DepartureType, UsersType, GitlabStepType, EventsType
     DEF Next, Reconcile

\* Past its dependencies, the worker knows its group, and every answer it still
\* holds is one GitLab can give, however the steps interleave.
THEOREM ProjectTypeCorrect == Spec => []TypeOK
<1> QED
  BY InitType, StepType, PTL DEF Spec

-------------------------------------------------------------------------------
(* Stamps are claimed.  Every action of the controller is one of four kinds:  *)
(* it leaves the life of the resource alone (Steady), it renews the cache, it *)
(* moves the resource along its life, or it stamps.                           *)

\* The resource is what it was but for its status; no stamp is new, and nothing
\* abandoned is taken back.
Steady ==
    /\ cr'.exists = cr.exists /\ cr'.deleting = cr.deleting
    /\ cr'.finalizer = cr.finalizer /\ cr'.spec = cr.spec
    /\ cached' = cached
    /\ \A t \in Targets : scm'[t].stamped => scm[t].stamped
    /\ abandoned \subseteq abandoned' /\ abandoned' \subseteq Targets

Resources == WellFormed(cr) /\ WellFormed(cached) /\ CacheLags /\ Claimed

LEMMA UnchangedIsSteady ==
    TypeOK /\ UNCHANGED <<cr, cached, scm, abandoned>> => Steady
BY DEF TypeOK, ClusterOK, Steady

LEMMA SteadyResources ==
    ASSUME TypeOK, StampsAreClaimed, Steady
    PROVE  Resources'
<1>1. WellFormed(cr)' /\ WellFormed(cached)'
  BY DEF StampsAreClaimed, Steady, WellFormed
<1>2. CacheLags'
  BY DEF StampsAreClaimed, Steady, CacheLags, Kept, SameGrave, Aligned
<1>3. Claimed'
  BY DEF StampsAreClaimed, Steady, Claimed
<1> QED
  BY <1>1, <1>2, <1>3 DEF Resources

LEMMA IdleWorker == pc' = "idle" => WorkerLags'
BY DEF WorkerLags, InDeletion, AtGitlab

LEMMA SteadyWorker ==
    ASSUME TypeOK, StampsAreClaimed, Steady, UNCHANGED <<pc, obj, group, reason>>
    PROVE  WorkerLags'
<1>1. /\ InDeletion' <=> InDeletion
      /\ AtGitlab' <=> AtGitlab
      /\ Goal' = Goal
  BY DEF InDeletion, AtGitlab, Goal
<1>2. \A t : Aligned(t) => Aligned(t)'
  BY DEF Steady, Aligned
<1>3. \A t : SameGrave(t) => SameGrave(t)'
  BY DEF Steady, SameGrave
<1>4. Target(cr.spec) \in Targets
  BY ResourceFields, TargetType DEF TypeOK, ClusterOK
<1>5. pc' = "unfinalize" /\ cr'.deleting =>
          Target(cr'.spec) \in abandoned' \/ ~scm'[Target(cr'.spec)].stamped
  BY <1>4 DEF StampsAreClaimed, Steady, WorkerLags
<1> QED
  BY <1>1, <1>2, <1>3, <1>5 DEF StampsAreClaimed, Steady, WorkerLags, Kept

LEMMA ClaimsInit == Init => StampsAreClaimed
<1> SUFFICES ASSUME Init
             PROVE  StampsAreClaimed
  OBVIOUS
<1>1. /\ (cr.finalizer => cr.exists) /\ ~cr.deleting
      /\ cr.status.cond.reason = NoReason
  <2>1. CASE cr = Gone(0)
    BY <2>1 DEF Gone, NoStatus
  <2>2. ASSUME NEW s \in Specs, NEW f \in BOOLEAN, cr = [Fresh(s, 1) EXCEPT !.finalizer = f]
        PROVE  cr.exists /\ ~cr.deleting /\ cr.status.cond.reason = NoReason
    BY <2>2 DEF Fresh, Gone, NoStatus
  <2> QED
    BY <2>1, <2>2 DEF Init
<1>2. CacheLags
  BY <1>1 DEF Init, CacheLags, Kept, Aligned
<1>3. WorkerLags
  BY DEF Init, WorkerLags, InDeletion, AtGitlab
<1>4. Claimed
  BY DEF Init, Claimed, NotOnGitlab
<1> QED
  BY <1>1, <1>2, <1>3, <1>4
     DEF Init, StampsAreClaimed, WellFormed, SuccessIsGuarded, NoReason

\* A renewed cache is behind no more.
LEMMA CacheRenewed ==
    ASSUME TypeOK, StampsAreClaimed, cached' = cr, UNCHANGED <<cr, scm, abandoned>>
    PROVE  Resources'
BY DEF StampsAreClaimed, Resources, WellFormed, CacheLags, Kept, SameGrave, Aligned, Claimed

LEMMA EventsClaims ==
    ASSUME TypeOK, StampsAreClaimed, SyncCache \/ Resync \/ TimerFires \/ Crash
    PROVE  StampsAreClaimed'
<1>1. SuccessIsGuarded'
  BY DEF StampsAreClaimed, SuccessIsGuarded, SyncCache, Resync, TimerFires, Crash, cluster
<1>2. CASE SyncCache
  <2>1. Resources'
    BY <1>2, CacheRenewed DEF SyncCache
  <2>2. /\ InDeletion' <=> InDeletion
        /\ AtGitlab' <=> AtGitlab
        /\ Goal' = Goal
        /\ \A t : (Aligned(t) => Aligned(t)') /\ (SameGrave(t) => SameGrave(t)')
    BY <1>2 DEF SyncCache, locals, InDeletion, AtGitlab, Goal, Aligned, SameGrave
  <2>3. WorkerLags'
    BY <1>2, <2>2 DEF SyncCache, locals, StampsAreClaimed, WorkerLags, Kept
  <2> QED
    BY <1>1, <2>1, <2>3 DEF StampsAreClaimed, Resources
<1>3. CASE Resync \/ TimerFires
  <2>1. Steady
    BY <1>3, UnchangedIsSteady DEF Resync, TimerFires, cluster
  <2> QED
    BY <1>1, <1>3, <2>1, SteadyResources, SteadyWorker
       DEF Resync, TimerFires, locals, StampsAreClaimed, Resources
<1>4. CASE Crash
  <2>1. Resources'
    BY <1>4, CacheRenewed DEF Crash
  <2> QED
    BY <1>1, <1>4, <2>1, IdleWorker DEF Crash, StampsAreClaimed, Resources
<1> QED
  BY <1>2, <1>3, <1>4

\* Nobody but the operator stamps.
LEMMA GitlabShapes ==
    ASSUME TypeOK, Gitlab
    PROVE  \E t \in Targets : \E p : OnGitlab(t, p) /\ (p.stamped => scm[t].stamped)
<1>1. \A t \in Targets : scm[t] \in GitlabType
  BY DEF TypeOK, ClusterOK
<1>2. ASSUME NEW t \in Targets
      PROVE  /\ \A c : [scm[t] EXCEPT !.head[BranchOf[c]] = c].stamped = scm[t].stamped
             /\ \A b, q : [scm[t] EXCEPT !.last[b] = q].stamped = scm[t].stamped
             /\ \A v : [scm[t] EXCEPT !.visibility = v].stamped = scm[t].stamped
             /\ ~[scm[t] EXCEPT !.stamped = FALSE].stamped
             /\ ~NotOnGitlab.stamped
  BY <1>1 DEF GitlabType, NotOnGitlab
<1>3. PICK t \in Targets :
          \/ \E c \in Commits : Push(t, c)
          \/ \E b \in Branches, q \in Pipelines : RunPipeline(t, b, q)
          \/ \E v \in Visibilities : EditOnGitlab(t, v)
          \/ DropTopic(t) \/ RemoveProject(t)
  BY DEF Gitlab
<1>4. CASE \E c \in Commits : Push(t, c)
  <2>1. PICK c \in Commits : Push(t, c)
    BY <1>4
  <2> DEFINE p == [scm[t] EXCEPT !.head[BranchOf[c]] = c]
  <2>2. OnGitlab(t, p) /\ (p.stamped => scm[t].stamped)
    BY <1>2, <2>1 DEF Push
  <2> QED
    BY <2>2, Zenon
<1>5. CASE \E b \in Branches, q \in Pipelines : RunPipeline(t, b, q)
  <2>1. PICK b \in Branches, q \in Pipelines : RunPipeline(t, b, q)
    BY <1>5
  <2> DEFINE p == [scm[t] EXCEPT !.last[b] = q]
  <2>2. OnGitlab(t, p) /\ (p.stamped => scm[t].stamped)
    BY <1>2, <2>1 DEF RunPipeline
  <2> QED
    BY <2>2, Zenon
<1>6. CASE \E v \in Visibilities : EditOnGitlab(t, v)
  <2>1. PICK v \in Visibilities : EditOnGitlab(t, v)
    BY <1>6
  <2> DEFINE p == [scm[t] EXCEPT !.visibility = v]
  <2>2. OnGitlab(t, p) /\ (p.stamped => scm[t].stamped)
    BY <1>2, <2>1 DEF EditOnGitlab
  <2> QED
    BY <2>2, Zenon
<1>7. CASE DropTopic(t)
  BY <1>2, <1>7 DEF DropTopic
<1>8. CASE RemoveProject(t)
  BY <1>2, <1>8 DEF RemoveProject
<1> QED
  BY <1>3, <1>4, <1>5, <1>6, <1>7, <1>8

LEMMA GitlabClaims ==
    ASSUME TypeOK, StampsAreClaimed, Gitlab
    PROVE  StampsAreClaimed'
<1>2. PICK t \in Targets : \E p : OnGitlab(t, p) /\ (p.stamped => scm[t].stamped)
  BY GitlabShapes
<1>3. PICK p : OnGitlab(t, p) /\ (p.stamped => scm[t].stamped)
  BY <1>2
<1>4. Steady
  <2>1. \A u \in Targets : scm'[u].stamped => scm[u].stamped
    BY <1>3 DEF TypeOK, ClusterOK, OnGitlab
  <2> QED
    BY <1>3, <2>1 DEF TypeOK, ClusterOK, OnGitlab, cluster, Steady
<1>5. UNCHANGED <<cr, pc, obj, group, reason>>
  BY <1>3 DEF OnGitlab, cluster, locals
<1>6. SuccessIsGuarded'
  BY <1>5 DEF StampsAreClaimed, SuccessIsGuarded
<1> QED
  BY <1>4, <1>5, <1>6, SteadyResources, SteadyWorker DEF StampsAreClaimed, Resources

\* What a user makes of the resource, field by field.
LEMMA UserShapes ==
    ASSUME TypeOK, NEW s \in Specs
    PROVE  /\ Target(Admitted(s)) = Target(s) /\ Target(s) \in Targets
           /\ LET r == Fresh(s, cr.gen + 1) IN
              /\ r.exists /\ ~r.finalizer /\ ~r.deleting
              /\ Target(r.spec) = Target(s) /\ r.status.cond.reason = NoReason
           /\ LET r == Gone(cr.gen + 1) IN
              /\ ~r.exists /\ ~r.finalizer /\ ~r.deleting
              /\ r.status.cond.reason = NoReason
           /\ LET r == [cr EXCEPT !.gen = @ + 1, !.spec = Admitted(s)] IN
              /\ r.exists = cr.exists /\ r.finalizer = cr.finalizer
              /\ r.deleting = cr.deleting /\ r.spec = Admitted(s) /\ r.status = cr.status
           /\ LET r == [cr EXCEPT !.gen = @ + 1, !.deleting = TRUE] IN
              /\ r.exists = cr.exists /\ r.finalizer = cr.finalizer /\ r.deleting
              /\ r.spec = cr.spec /\ r.status = cr.status
<1>1. s \in [group : Groups, name : Names, visibility : Visibilities \cup {""},
             branch : Branches, notified : BOOLEAN]
  BY ProjectAssumption
<1>2. Target(Admitted(s)) = Target(s) /\ Target(s) \in Targets
  BY <1>1 DEF Target, Admitted, Targets
<1>3. cr \in Resource
  BY DEF TypeOK, ClusterOK
<1> HIDE DEF Target, Admitted
<1>4. LET r == Fresh(s, cr.gen + 1) IN
      /\ r.exists /\ ~r.finalizer /\ ~r.deleting
      /\ Target(r.spec) = Target(s) /\ r.status.cond.reason = NoReason
  BY <1>2 DEF Fresh, Gone, NoStatus
<1>5. LET r == Gone(cr.gen + 1) IN
      /\ ~r.exists /\ ~r.finalizer /\ ~r.deleting /\ r.status.cond.reason = NoReason
  BY DEF Gone, NoStatus
<1>6. LET r == [cr EXCEPT !.gen = @ + 1, !.spec = Admitted(s)] IN
      /\ r.exists = cr.exists /\ r.finalizer = cr.finalizer
      /\ r.deleting = cr.deleting /\ r.spec = Admitted(s) /\ r.status = cr.status
  BY <1>3 DEF Resource
<1>7. LET r == [cr EXCEPT !.gen = @ + 1, !.deleting = TRUE] IN
      /\ r.exists = cr.exists /\ r.finalizer = cr.finalizer /\ r.deleting
      /\ r.spec = cr.spec /\ r.status = cr.status
  BY <1>3 DEF Resource
<1> QED
  BY <1>2, <1>4, <1>5, <1>6, <1>7

\* No reconcile is past the finalizer of a resource that is not there, and the
\* copies of its predecessor are of no use but where all its targets are abandoned.
LEMMA CreateClaims ==
    ASSUME TypeOK, StampsAreClaimed, NEW s \in Specs, CreateResource(s)
    PROVE  StampsAreClaimed'
<1>1. /\ cr'.exists /\ ~cr'.finalizer /\ ~cr'.deleting /\ Target(cr'.spec) = Target(s)
      /\ cr'.status.cond.reason = NoReason
  BY UserShapes DEF CreateResource, ResourceEvent
<1>2. UNCHANGED <<cached, scm, pc, obj, group, reason>>
  BY DEF CreateResource, ResourceEvent, locals
<1>3. ~cr.exists /\ ~cr.finalizer /\ ~cr.deleting
  BY DEF CreateResource, StampsAreClaimed, WellFormed
<1>4. /\ abandoned \subseteq abandoned'
      /\ \/ pc = "idle" /\ ~cached.exists
         \/ Targets \ {Target(cr'.spec)} \subseteq abandoned'
  BY <1>1 DEF CreateResource, Retargeted
<1>5. WellFormed(cr)' /\ WellFormed(cached)' /\ SuccessIsGuarded'
  BY <1>1, <1>2 DEF StampsAreClaimed, WellFormed, SuccessIsGuarded, NoReason
<1>6. CacheLags'
  BY <1>1, <1>2, <1>3, <1>4 DEF StampsAreClaimed, CacheLags, Kept, SameGrave, Aligned
<1>7. Claimed'
  BY <1>2, <1>3, <1>4 DEF StampsAreClaimed, Claimed
<1>8. WorkerLags'
  BY <1>1, <1>2, <1>3, <1>4
     DEF StampsAreClaimed, WorkerLags, InDeletion, AtGitlab, Goal, Kept, SameGrave, Aligned
<1> QED
  BY <1>5, <1>6, <1>7, <1>8 DEF StampsAreClaimed

LEMMA EditClaims ==
    ASSUME TypeOK, StampsAreClaimed, NEW s \in Specs, EditResource(s)
    PROVE  StampsAreClaimed'
<1>1. /\ cr'.exists = cr.exists /\ cr'.finalizer = cr.finalizer
      /\ cr'.deleting = cr.deleting /\ cr'.status = cr.status
      /\ Target(cr'.spec) = Target(s) /\ Target(s) \in Targets
  BY UserShapes DEF EditResource, ResourceEvent
<1>2. UNCHANGED <<cached, scm, pc, obj, group, reason>>
  BY DEF EditResource, ResourceEvent, locals
<1>3. /\ abandoned \subseteq abandoned'
      /\ \/ Target(cr'.spec) = Target(cr.spec) /\ abandoned' = abandoned
         \/ Targets \ {Target(cr'.spec)} \subseteq abandoned'
      /\ Target(cr'.spec) # Target(cr.spec) /\ cr.deleting => abandoned' = Targets
  <2>1. cr.deleting \in BOOLEAN
    BY ResourceFields DEF TypeOK, ClusterOK
  <2> QED
    BY <1>1, <2>1 DEF TypeOK, ClusterOK, EditResource, Retargeted
<1>4. WellFormed(cr)' /\ WellFormed(cached)' /\ SuccessIsGuarded'
  BY <1>1, <1>2 DEF StampsAreClaimed, WellFormed, SuccessIsGuarded
<1>5. \A t \in Targets : (Aligned(t) => Aligned(t)') /\ (SameGrave(t) => SameGrave(t)')
  <2>1. CASE Target(cr'.spec) = Target(cr.spec) /\ abandoned' = abandoned
    BY <1>1, <2>1 DEF Aligned, SameGrave
  <2>2. CASE Target(cr'.spec) # Target(cr.spec)
    BY <1>1, <1>3, <2>2 DEF Aligned, SameGrave
  <2>3. CASE /\ Target(cr'.spec) = Target(cr.spec)
             /\ Targets \ {Target(cr'.spec)} \subseteq abandoned'
    <3>1. abandoned = Targets => abandoned' = Targets
      BY <1>3 DEF TypeOK, ClusterOK, EditResource, Retargeted
    <3> QED
      BY <1>1, <1>3, <2>3, <3>1 DEF Aligned, SameGrave
  <2> QED
    BY <1>3, <2>1, <2>2, <2>3
<1>6. /\ Target(cached.spec) \in Targets /\ Target(obj.spec) \in Targets
      /\ (AtGitlab \/ pc \in {"register", "cleanup"} => Goal \in Targets)
  BY GoalType, ResourceFields, TargetType DEF TypeOK, ClusterOK, WorkerOK
<1>7. CacheLags'
  BY <1>1, <1>2, <1>5, <1>6 DEF StampsAreClaimed, CacheLags, Kept
<1>8. Claimed'
  BY <1>1, <1>2, <1>3 DEF StampsAreClaimed, Claimed
<1>9. pc = "unfinalize" /\ cr'.deleting =>
          Target(cr'.spec) \in abandoned' \/ ~scm[Target(cr'.spec)].stamped
  BY <1>1, <1>3 DEF StampsAreClaimed, WorkerLags
<1>10. /\ InDeletion' <=> InDeletion
       /\ AtGitlab' <=> AtGitlab
       /\ Goal' = Goal
  BY <1>2 DEF InDeletion, AtGitlab, Goal
<1>11. WorkerLags'
  BY <1>1, <1>2, <1>5, <1>6, <1>9, <1>10 DEF StampsAreClaimed, WorkerLags, Kept
<1> QED
  BY <1>4, <1>7, <1>8, <1>11 DEF StampsAreClaimed

\* A kept resource is nobody's deletion yet; one without the finalizer is nobody's
\* stamp.
LEMMA DeleteClaims ==
    ASSUME TypeOK, StampsAreClaimed, DeleteResource
    PROVE  StampsAreClaimed'
<1>1. UNCHANGED <<cached, scm, pc, obj, group, reason, abandoned>> /\ ~cr.deleting
  BY DEF DeleteResource, ResourceEvent, locals
<1>2. \E s : s \in Specs
  BY ProjectAssumption
<1>3. WellFormed(cached)'
  BY <1>1 DEF StampsAreClaimed, WellFormed
<1>4. CASE cr.finalizer
  <2>1. /\ cr'.exists = cr.exists /\ cr'.finalizer = cr.finalizer /\ cr'.deleting
        /\ cr'.spec = cr.spec /\ cr'.status = cr.status
    BY <1>2, <1>4, UserShapes DEF DeleteResource, ResourceEvent
  <2>2. WellFormed(cr)' /\ SuccessIsGuarded' /\ Claimed'
    BY <1>1, <1>4, <2>1 DEF StampsAreClaimed, WellFormed, SuccessIsGuarded, Claimed
  <2>3. CacheLags'
    BY <1>1, <1>4, <2>1 DEF StampsAreClaimed, CacheLags, Kept, Aligned
  <2>4. ~InDeletion /\ ~InDeletion'
    BY <1>1, <1>4 DEF StampsAreClaimed, WorkerLags, Kept, InDeletion
  <2>5. WorkerLags'
    BY <1>1, <1>4, <2>1, <2>4
       DEF StampsAreClaimed, WorkerLags, InDeletion, AtGitlab, Goal, Kept, Aligned
  <2> QED
    BY <1>3, <2>2, <2>3, <2>5 DEF StampsAreClaimed
<1>5. CASE ~cr.finalizer
  <2>1. /\ ~cr'.exists /\ ~cr'.finalizer /\ ~cr'.deleting
        /\ cr'.status.cond.reason = NoReason
    BY <1>2, <1>5, UserShapes DEF DeleteResource, ResourceEvent
  <2>2. WellFormed(cr)' /\ SuccessIsGuarded' /\ Claimed'
    BY <1>1, <1>5, <2>1
       DEF StampsAreClaimed, WellFormed, SuccessIsGuarded, Claimed, NoReason
  <2>3. CacheLags'
    BY <1>1, <1>5, <2>1 DEF StampsAreClaimed, CacheLags, Kept, SameGrave, Aligned
  <2>4. WorkerLags'
    BY <1>1, <1>5, <2>1
       DEF StampsAreClaimed, WorkerLags, InDeletion, AtGitlab, Goal, Kept, SameGrave, Aligned
  <2> QED
    BY <1>3, <2>2, <2>3, <2>4 DEF StampsAreClaimed
<1> QED
  BY <1>4, <1>5

LEMMA UsersClaims ==
    ASSUME TypeOK, StampsAreClaimed, Users
    PROVE  StampsAreClaimed'
<1>1. CASE \/ ChangeToken \/ ChangeNotifier
           \/ \E g \in Groups : ChangeGroup(g)
  <2>1. UNCHANGED <<cr, cached, scm, pc, obj, group, reason, abandoned>>
    BY <1>1 DEF ChangeToken, ChangeNotifier, ChangeGroup, locals
  <2>2. Steady
    BY <2>1, UnchangedIsSteady
  <2>3. SuccessIsGuarded'
    BY <2>1 DEF StampsAreClaimed, SuccessIsGuarded
  <2> QED
    BY <2>1, <2>2, <2>3, SteadyResources, SteadyWorker DEF StampsAreClaimed, Resources
<1> QED
  BY <1>1, CreateClaims, EditClaims, DeleteClaims DEF Users

\* A deletion starts from a dying copy; what is stamped, from a kept one.
LEMMA ArrivalClaims ==
    ASSUME TypeOK, StampsAreClaimed, Start \/ Resolve \/ ResolveNotifier
    PROVE  StampsAreClaimed'
<1>1. UNCHANGED <<cr, cached, scm, abandoned>>
  BY DEF Start, Resolve, ResolveNotifier, Goto, cluster
<1>2. Steady /\ SuccessIsGuarded'
  BY <1>1, UnchangedIsSteady DEF StampsAreClaimed, SuccessIsGuarded
<1>3. CASE Start
  <2>1. CASE cached.exists
    <3>1. pc' = "resolve" /\ obj' = cached
      BY <1>3, <2>1 DEF Start
    <3>2. Aligned(Target(obj.spec))' /\ (obj'.deleting => SameGrave(Target(obj.spec))')
      BY <1>1, <2>1, <3>1 DEF StampsAreClaimed, CacheLags, Aligned, SameGrave
    <3> QED
      BY <1>1, <1>2, <3>1, <3>2, SteadyResources
         DEF StampsAreClaimed, Resources, CacheLags, WorkerLags, InDeletion, AtGitlab, Kept
  <2>2. CASE ~cached.exists
    <3>1. pc' = "idle"
      BY <1>3, <2>2 DEF Start
    <3> QED
      BY <1>2, <3>1, SteadyResources, IdleWorker DEF StampsAreClaimed, Resources
  <2> QED
    BY <2>1, <2>2
<1>4. CASE Resolve
  <2>1. \A t : (Aligned(t) => Aligned(t)') /\ (SameGrave(t) => SameGrave(t)')
    BY <1>1 DEF Aligned, SameGrave
  <2>2. CASE Missing = NoReason
    <3>1. obj' = obj /\ Goal' = Target(obj.spec)
      BY <1>4, <2>2 DEF Resolve, Goal, Target
    <3>2. /\ obj.deleting => pc' = HandleDeletion(obj, TRUE)
          /\ ~obj.deleting => pc' \in {"register", "notifier"}
          /\ pc' = "notifier" => obj.finalizer /\ ~obj.deleting
      <4>1. obj.deleting \in BOOLEAN
        BY ResourceFields DEF TypeOK, WorkerOK
      <4> QED
        BY <1>4, <2>2, <4>1 DEF Resolve, Goto, HandleDeletion, NeedsFinalizer
    <3>3. obj.deleting => pc' \in {"cleanup", "done"}
      <4>1. obj.finalizer \in BOOLEAN
        BY ResourceFields DEF TypeOK, WorkerOK
      <4> QED
        BY <3>2, <4>1 DEF HandleDeletion
    <3>4. pc = "resolve"
      BY <1>4 DEF Resolve
    <3>5. WorkerLags'
      BY <1>1, <2>1, <3>1, <3>2, <3>3, <3>4
         DEF StampsAreClaimed, WorkerLags, InDeletion, AtGitlab, Kept
    <3> QED
      BY <1>2, <3>5, SteadyResources DEF StampsAreClaimed, Resources
  <2>3. CASE Missing # NoReason
    <3>1. /\ pc = "resolve" /\ obj' = obj /\ reason' # "ProjectReconciled"
          /\ IF obj.deleting THEN pc' = "skip" ELSE pc' = "fail"
      BY <1>4, <2>3 DEF Resolve, Missing, NoReason, Goto
    <3>2. WorkerLags'
      BY <1>1, <2>1, <3>1 DEF StampsAreClaimed, WorkerLags, InDeletion, AtGitlab, Kept
    <3> QED
      BY <1>2, <3>2, SteadyResources DEF StampsAreClaimed, Resources
  <2> QED
    BY <2>2, <2>3
<1>5. CASE ResolveNotifier
  <2>1. /\ pc = "notifier" /\ UNCHANGED <<obj, group>>
        /\ \/ pc' = "lookup"
           \/ pc' = "fail" /\ reason' = "NotifierError"
    BY <1>5 DEF ResolveNotifier, Goto
  <2>2. WorkerLags'
    BY <1>1, <2>1
       DEF StampsAreClaimed, WorkerLags, InDeletion, AtGitlab, Goal, Kept, Aligned
  <2> QED
    BY <1>2, <2>2, SteadyResources DEF StampsAreClaimed, Resources
<1> QED
  BY <1>3, <1>4, <1>5

\* The finalizer may end up on a newer resource than the one read, but not on one
\* whose deletion a copy already shows.
LEMMA RegistrationClaims ==
    ASSUME TypeOK, StampsAreClaimed, AddFinalizer \/ AddFinalizerFails
    PROVE  StampsAreClaimed'
<1>1. UNCHANGED <<cached, scm, abandoned>>
  BY DEF AddFinalizer, AddFinalizerFails
<1>2. CASE UNCHANGED cr /\ pc' = "idle"
  <2>1. Steady /\ SuccessIsGuarded'
    BY <1>1, <1>2, UnchangedIsSteady DEF StampsAreClaimed, SuccessIsGuarded
  <2> QED
    BY <1>2, <2>1, SteadyResources, IdleWorker DEF StampsAreClaimed, Resources
<1>3. CASE pc = "register" /\ cr.exists /\ cr' = [cr EXCEPT !.finalizer = TRUE]
  <2>1. /\ cr'.exists /\ cr'.finalizer /\ cr'.deleting = cr.deleting
        /\ cr'.spec = cr.spec
    BY <1>3 DEF TypeOK, ClusterOK, Resource
  <2>2. WellFormed(cr)' /\ WellFormed(cached)' /\ SuccessIsGuarded' /\ Claimed'
    BY <1>1, <2>1 DEF StampsAreClaimed, WellFormed, SuccessIsGuarded, Claimed
  <2>3. cached.deleting => cr.deleting
    BY <1>3 DEF StampsAreClaimed, WorkerLags
  <2>4. \A t : (Aligned(t) => Aligned(t)') /\ (SameGrave(t) => SameGrave(t)')
    BY <1>1, <1>3, <2>1 DEF Aligned, SameGrave
  <2>5. CacheLags'
    BY <1>1, <2>1, <2>3, <2>4 DEF StampsAreClaimed, CacheLags, Kept
  <2>6. WorkerLags'
    <3>1. CASE pc' = "idle"
      BY <3>1, IdleWorker
    <3>2. CASE AddFinalizer
      <4>1. pc' = "notifier" /\ obj' = cr' /\ group' = group
        BY <3>2 DEF AddFinalizer
      <4>2. Aligned(Goal)
        BY <1>3 DEF StampsAreClaimed, WorkerLags
      <4>3. Goal = Target(cr.spec) => Goal' = Target(cr.spec)
        BY <2>1, <4>1 DEF Goal, Target
      <4>4. Aligned(Goal)'
        BY <1>1, <1>3, <2>1, <4>2, <4>3 DEF Aligned
      <4> QED
        BY <1>1, <2>1, <2>3, <4>1, <4>4 DEF WorkerLags, InDeletion, AtGitlab
    <3> QED
      BY <3>1, <3>2 DEF AddFinalizerFails, Finish
  <2> QED
    BY <2>2, <2>5, <2>6 DEF StampsAreClaimed
<1> QED
  BY <1>2, <1>3 DEF AddFinalizer, AddFinalizerFails, Finish

\* As long as the worker is at GitLab with the same goal, or gives up, nothing it
\* relies on changes.
LEMMA StayingAtGitlab ==
    ASSUME TypeOK, StampsAreClaimed, Steady, SuccessIsGuarded', AtGitlab, Goal' = Goal,
           \/ AtGitlab'
           \/ pc' = "fail" /\ reason' # "ProjectReconciled"
    PROVE  StampsAreClaimed'
<1>1. Aligned(Goal)'
  BY DEF StampsAreClaimed, WorkerLags, Steady, Aligned
<1>2. ~InDeletion' /\ pc' \notin {"resolve", "register", "skip", "cleanup", "unfinalize"}
  BY DEF AtGitlab, InDeletion
<1>3. WorkerLags'
  <2>1. CASE AtGitlab'
    BY <1>1, <1>2, <2>1 DEF StampsAreClaimed, WorkerLags, Steady, AtGitlab
  <2>2. CASE pc' = "fail" /\ reason' # "ProjectReconciled"
    BY <1>2, <2>2 DEF WorkerLags, AtGitlab
  <2> QED
    BY <2>1, <2>2
<1> QED
  BY <1>3, SteadyResources DEF StampsAreClaimed, Resources

LEMMA OnGitlabClaims ==
    ASSUME TypeOK, StampsAreClaimed,
           LookUp \/ CreateProject \/ UpdateProject \/ GitlabFails \/ GetBranchCommit
               \/ GetLastPipeline
    PROVE  StampsAreClaimed'
<1>1. /\ UNCHANGED <<cr, cached, abandoned, obj, group>> /\ AtGitlab
      /\ \/ AtGitlab'
         \/ pc' = "fail" /\ reason' # "ProjectReconciled"
  BY DEF LookUp, CreateProject, UpdateProject, GitlabFails, GetBranchCommit, GetLastPipeline,
         Write, Goto, cluster, AtGitlab
<1>2. Goal \in Targets /\ scm[Goal] \in GitlabType
  BY <1>1, GoalType
<1>3. \A t \in Targets : scm'[t].stamped => scm[t].stamped
  <2>1. ~Created.stamped /\ Updated.stamped = scm[Goal].stamped
    BY <1>2 DEF Created, Updated, NotOnGitlab, GitlabType
  <2>2. \/ UNCHANGED scm
        \/ scm' = [scm EXCEPT ![Goal] = Created]
        \/ scm' = [scm EXCEPT ![Goal] = Updated]
    BY DEF LookUp, CreateProject, UpdateProject, GitlabFails, GetBranchCommit,
           GetLastPipeline, Write
  <2> QED
    BY <1>2, <2>1, <2>2 DEF TypeOK, ClusterOK
<1>4. Steady
  BY <1>1, <1>3 DEF TypeOK, ClusterOK, Steady
<1>5. SuccessIsGuarded' /\ Goal' = Goal
  BY <1>1 DEF StampsAreClaimed, SuccessIsGuarded, Goal
<1> QED
  BY <1>1, <1>4, <1>5, StayingAtGitlab

\* What is stamped is the stored resource's, or abandoned already.
LEMMA StampClaims ==
    ASSUME TypeOK, StampsAreClaimed, Stamp \/ StampFails
    PROVE  StampsAreClaimed'
<1>1. /\ UNCHANGED <<cr, cached, abandoned, group>> /\ AtGitlab /\ AtGitlab'
      /\ scm' \in {scm, Stamped(Goal)}
  BY DEF Stamp, StampFails, Goto, cluster, AtGitlab
<1>2. Goal \in Targets
  BY <1>1, GoalType
<1>3. Goal' = Goal
  <2>1. [obj EXCEPT !.status.stamped = TRUE].spec = obj.spec
    BY DEF TypeOK, WorkerOK, Resource
  <2> QED
    BY <1>1, <2>1 DEF Stamp, StampFails, Goal
<1>4. cr.exists /\ cr.finalizer /\ (Goal = Target(cr.spec) \/ Goal \in abandoned)
  BY <1>1, <1>2 DEF StampsAreClaimed, WorkerLags, WellFormed, Aligned
<1>5. Claimed'
  <2>1. \A t \in Targets : scm'[t].stamped => scm[t].stamped \/ t = Goal
    BY <1>1, <1>2 DEF TypeOK, ClusterOK, Stamped
  <2> QED
    BY <1>1, <1>4, <2>1 DEF StampsAreClaimed, Claimed
<1>6. CacheLags' /\ WellFormed(cr)' /\ WellFormed(cached)' /\ SuccessIsGuarded'
  BY <1>1
     DEF StampsAreClaimed, CacheLags, Kept, SameGrave, Aligned, WellFormed, SuccessIsGuarded
<1>7. Aligned(Goal)'
  BY <1>1, <1>3 DEF StampsAreClaimed, WorkerLags, Aligned
<1>8. WorkerLags'
  BY <1>1, <1>7 DEF StampsAreClaimed, WorkerLags, InDeletion, AtGitlab
<1> QED
  BY <1>5, <1>6, <1>8 DEF StampsAreClaimed

\* A status patch whose condition is no unguarded success is steady.
LEMMA StatusPatch ==
    ASSUME TypeOK, StampsAreClaimed, NEW new \in StatusType,
           new.cond.reason = "ProjectReconciled" => cr.finalizer,
           cr' \in {cr, PatchedStatus(new)}, UNCHANGED <<cached, scm>>,
           abandoned \subseteq abandoned' /\ abandoned' \subseteq Targets
    PROVE  Steady /\ SuccessIsGuarded'
<1>1. /\ cr'.exists = cr.exists /\ cr'.deleting = cr.deleting
      /\ cr'.finalizer = cr.finalizer /\ cr'.spec = cr.spec
  BY PatchedStatusType
<1>2. cr'.status.cond \in {cr.status.cond, new.cond}
  <2>1. CASE cr' = cr
    BY <2>1
  <2>2. CASE cr' = PatchedStatus(new)
    <3>1. cr'.status = MergedStatus(obj.status, new, cr.status)
      BY <2>2, PatchedStatusType
    <3> QED
      BY <3>1 DEF MergedStatus, Merged
  <2> QED
    BY <2>1, <2>2
<1>3. Steady
  BY <1>1 DEF Steady
<1>4. SuccessIsGuarded'
  BY <1>1, <1>2 DEF StampsAreClaimed, SuccessIsGuarded
<1> QED
  BY <1>3, <1>4

\* A failure is never reported as a success.
LEMMA FailureIsNoSuccess ==
    ASSUME TypeOK, StampsAreClaimed, pc \in {"fail", "skip"}
    PROVE  Failed \in StatusType /\ Failed.cond.reason # "ProjectReconciled"
<1>1. reason # "ProjectReconciled"
  BY DEF StampsAreClaimed, WorkerLags
<1>2. obj.status \in StatusType
  BY ResourceFields DEF TypeOK, WorkerOK
<1> QED
  BY <1>1, <1>2, FailedType DEF Failed, Condition, StatusType

LEMMA ReportClaims ==
    ASSUME TypeOK, StampsAreClaimed, ReportFailure \/ UpdateStatus \/ NothingToFinalize
    PROVE  StampsAreClaimed'
<1>1. pc' = "idle" /\ UNCHANGED <<cached, scm, abandoned>> /\ abandoned \subseteq Targets
  BY DEF TypeOK, ClusterOK, ReportFailure, UpdateStatus, NothingToFinalize, Finish, cluster
<1>2. Steady /\ SuccessIsGuarded'
  <2>1. CASE ReportFailure
    <3>1. Failed \in StatusType /\ Failed.cond.reason # "ProjectReconciled"
      BY <2>1, FailureIsNoSuccess DEF ReportFailure
    <3>2. cr' \in {cr, PatchedStatus(Failed)}
      BY <2>1 DEF ReportFailure, ConditionStored, ConditionLost
    <3> QED
      BY <1>1, <3>1, <3>2, StatusPatch
  <2>2. CASE UpdateStatus
    <3> DEFINE new == SuccessStatus(obj, group, found)
    <3>1. cr.finalizer
      BY <2>2 DEF UpdateStatus, StampsAreClaimed, WorkerLags, AtGitlab
    <3>2. new \in StatusType
      BY <2>2, GoalType, SuccessStatusType DEF UpdateStatus, AtGitlab
    <3>3. cr' \in {cr, PatchedStatus(new)}
      BY <2>2 DEF UpdateStatus
    <3> HIDE DEF new
    <3> QED
      BY <1>1, <3>1, <3>2, <3>3, StatusPatch
  <2>3. CASE NothingToFinalize
    BY <1>1, <2>3, UnchangedIsSteady
       DEF NothingToFinalize, cluster, StampsAreClaimed, SuccessIsGuarded
  <2> QED
    BY <2>1, <2>2, <2>3
<1> QED
  BY <1>1, <1>2, SteadyResources, IdleWorker DEF StampsAreClaimed, Resources

\* A deletion that skips the cleanup abandons the dying resource's project.
LEMMA SkipClaims ==
    ASSUME TypeOK, StampsAreClaimed, ReportSkip
    PROVE  StampsAreClaimed'
<1>1. Target(obj.spec) \in Targets
  BY ResourceFields, TargetType DEF TypeOK, WorkerOK
<1>2. /\ pc = "skip" /\ UNCHANGED <<cached, scm, reason>>
      /\ abandoned' = abandoned \cup {Target(obj.spec)} /\ abandoned' \subseteq Targets
  BY <1>1 DEF TypeOK, ClusterOK, ReportSkip
<1>3. Steady /\ SuccessIsGuarded'
  <2>1. Failed \in StatusType /\ Failed.cond.reason # "ProjectReconciled"
    BY <1>2, FailureIsNoSuccess
  <2>2. cr' \in {cr, PatchedStatus(Failed)}
    BY DEF ReportSkip, ConditionStored, ConditionLost
  <2> QED
    BY <1>2, <2>1, <2>2, StatusPatch
<1>4. pc' \in {"unfinalize", "done"}
  <2>1. obj' \in Resource
    <3>1. TypeOK'
      BY DepartureType
    <3> QED
      BY <3>1 DEF TypeOK, WorkerOK
  <2>2. obj'.finalizer \in BOOLEAN
    BY <2>1, ResourceFields
  <2> QED
    BY <2>2 DEF ReportSkip, HandleDeletion
<1>5. ~Kept(cr)' /\ ~Kept(cached)'
  BY <1>2, <1>3 DEF StampsAreClaimed, WorkerLags, InDeletion, Steady, Kept
<1>6. cr'.deleting => Target(cr'.spec) \in abandoned'
  <2>1. SameGrave(Target(obj.spec)) /\ Target(cr.spec) \in Targets
    BY <1>2, ResourceFields, TargetType DEF StampsAreClaimed, WorkerLags, TypeOK, ClusterOK
  <2> QED
    BY <1>2, <1>3, <2>1 DEF Steady, SameGrave
<1>7. WorkerLags'
  BY <1>4, <1>5, <1>6 DEF WorkerLags, InDeletion, AtGitlab
<1> QED
  BY <1>3, <1>7, SteadyResources DEF StampsAreClaimed, Resources

\* A cleanup unstamps the dying resource's project, or abandons it.
LEMMA FinalizeClaims ==
    ASSUME TypeOK, StampsAreClaimed, FinalizeProject
    PROVE  StampsAreClaimed'
<1>1. Goal \in Targets /\ Target(cr.spec) \in Targets
  BY GoalType, ResourceFields, TargetType DEF FinalizeProject, TypeOK, ClusterOK
<1>2. /\ pc = "cleanup" /\ pc' = "unfinalize"
      /\ UNCHANGED <<cr, cached, obj, group, reason>>
      /\ abandoned \subseteq abandoned' /\ abandoned' \subseteq Targets
  BY <1>1 DEF TypeOK, ClusterOK, FinalizeProject, Goto, cluster, locals
<1>3. /\ \A t \in Targets : scm'[t].stamped => scm[t].stamped
      /\ ~scm'[Goal].stamped \/ Goal \in abandoned'
  <2>1. Unstamped(Goal) = [scm EXCEPT ![Goal] = [scm[Goal] EXCEPT !.stamped = FALSE]]
    BY DEF Unstamped
  <2>2. ~[scm[Goal] EXCEPT !.stamped = FALSE].stamped
    BY <1>1 DEF TypeOK, ClusterOK, GitlabType
  <2>3. \/ scm' = Unstamped(Goal)
        \/ scm' = scm /\ abandoned' = abandoned \cup {Goal}
    BY DEF FinalizeProject
  <2> QED
    BY <1>1, <2>1, <2>2, <2>3 DEF TypeOK, ClusterOK
<1>4. Steady /\ SuccessIsGuarded'
  BY <1>2, <1>3 DEF Steady, StampsAreClaimed, SuccessIsGuarded
<1>5. cr'.deleting => Target(cr'.spec) \in abandoned' \/ ~scm'[Target(cr'.spec)].stamped
  BY <1>1, <1>2, <1>3 DEF StampsAreClaimed, WorkerLags, SameGrave
<1>6. WorkerLags'
  BY <1>2, <1>5 DEF StampsAreClaimed, WorkerLags, InDeletion, AtGitlab, Kept
<1> QED
  BY <1>4, <1>6, SteadyResources DEF StampsAreClaimed, Resources

\* By the time the finalizer goes, nothing unabandoned is stamped.
LEMMA RemovalClaims ==
    ASSUME TypeOK, StampsAreClaimed, RemoveFinalizer \/ RemoveFinalizerFails
    PROVE  StampsAreClaimed'
<1>1. /\ pc = "unfinalize" /\ pc' = "idle" /\ UNCHANGED <<cached, scm, abandoned>>
      /\ \/ UNCHANGED cr
         \/ cr.exists /\ cr' = Unfinalized
  BY DEF RemoveFinalizer, RemoveFinalizerFails, Finish
<1>2. CASE UNCHANGED cr
  BY <1>1, <1>2, UnchangedIsSteady, SteadyResources, IdleWorker
     DEF StampsAreClaimed, SuccessIsGuarded, Resources
<1>3. ~Kept(cr) /\ ~Kept(cached)
  BY <1>1 DEF StampsAreClaimed, WorkerLags, InDeletion
<1>4. CASE cr' = Unfinalized /\ cr.deleting
  <2>1. /\ ~cr'.exists /\ ~cr'.finalizer /\ ~cr'.deleting
        /\ cr'.status.cond.reason = NoReason
    BY <1>4 DEF Unfinalized, Gone, NoStatus
  <2>2. Claimed'
    BY <1>1, <1>4 DEF StampsAreClaimed, WorkerLags, Claimed
  <2>3. /\ WellFormed(cr)' /\ WellFormed(cached)' /\ SuccessIsGuarded' /\ CacheLags'
    BY <1>1, <1>3, <2>1
       DEF StampsAreClaimed, WellFormed, SuccessIsGuarded, NoReason, CacheLags, Kept,
           SameGrave, Aligned
  <2> QED
    BY <1>1, <2>2, <2>3, IdleWorker DEF StampsAreClaimed
<1>5. CASE cr' = Unfinalized /\ ~cr.deleting
  <2>1. ~cr.finalizer
    BY <1>3, <1>5 DEF Kept
  <2>2. /\ cr'.exists = cr.exists /\ cr'.deleting = cr.deleting /\ ~cr'.finalizer
        /\ cr'.spec = cr.spec /\ cr'.status = cr.status
    BY <1>5 DEF Unfinalized, TypeOK, ClusterOK, Resource
  <2>3. WellFormed(cr)' /\ WellFormed(cached)' /\ SuccessIsGuarded' /\ Claimed'
    BY <1>1, <2>1, <2>2 DEF StampsAreClaimed, WellFormed, SuccessIsGuarded, Claimed
  <2>4. CacheLags'
    BY <1>1, <1>3, <2>1, <2>2 DEF StampsAreClaimed, CacheLags, Kept, SameGrave, Aligned
  <2> QED
    BY <1>1, <2>3, <2>4, IdleWorker DEF StampsAreClaimed
<1> QED
  BY <1>1, <1>2, <1>4, <1>5

LEMMA StepClaims == TypeOK /\ StampsAreClaimed /\ [Next]_vars => StampsAreClaimed'
<1>1. ASSUME TypeOK, StampsAreClaimed, UNCHANGED vars
      PROVE  StampsAreClaimed'
  BY <1>1, UnchangedIsSteady, SteadyResources, SteadyWorker
     DEF vars, cluster, locals, StampsAreClaimed, SuccessIsGuarded, Resources
<1> QED
  BY <1>1, ArrivalClaims, RegistrationClaims, OnGitlabClaims, StampClaims, ReportClaims,
     SkipClaims, FinalizeClaims, RemovalClaims, UsersClaims, GitlabClaims, EventsClaims
     DEF Next, Reconcile

\* Every stamp is claimed: by the stored resource, kept or dying, whose target it
\* is on, or by a cause on record.  The worker and the cache lag behind the
\* resource, but never past the registration or the removal of its finalizer.
THEOREM StampsClaimed == Spec => []StampsAreClaimed
<1> QED
  BY InitType, StepType, ClaimsInit, StepClaims, PTL DEF Spec

\* No stale copy, crash, lost patch, or deletion and re-creation in the middle of
\* a reconcile leaves a stamp nobody would remove.
THEOREM NoOrphanedStamps == Spec => []NoOrphanedStamp
<1>1. StampsAreClaimed => NoOrphanedStamp
  BY DEF StampsAreClaimed, WellFormed, Claimed, NoOrphanedStamp
<1> QED
  BY <1>1, StampsClaimed, PTL

\* Nor does one report a success for a resource whose deletion would not wait for
\* its cleanup.
THEOREM SuccessGuarded == Spec => []SuccessIsGuarded
<1>1. StampsAreClaimed => SuccessIsGuarded
  BY DEF StampsAreClaimed
<1> QED
  BY <1>1, StampsClaimed, PTL

-------------------------------------------------------------------------------
(* What the code never does.                                                 *)

\* A patch of the status carries what was changed after its copy was taken; the
\* stamp is noted in the copy.
LEMMA PatchWithoutStamp ==
    ASSUME TypeOK, NEW new \in StatusType, new.stamped = obj.status.stamped
    PROVE  PatchedStatus(new).status.stamped = cr.status.stamped
<1>1. PatchedStatus(new).status = MergedStatus(obj.status, new, cr.status)
  BY PatchedStatusType
<1> QED
  BY <1>1 DEF MergedStatus, Merged

LEMMA ReportWithoutStamp ==
    ASSUME TypeOK, ReportFailure \/ ReportSkip \/ UpdateStatus
    PROVE  cr'.status.stamped = cr.status.stamped
<1>1. CASE ReportFailure \/ ReportSkip
  <2>1. Failed \in StatusType /\ Failed.stamped = obj.status.stamped
    BY FailedType DEF Failed, TypeOK, WorkerOK, Resource, StatusType
  <2> QED
    BY <1>1, <2>1, PatchWithoutStamp DEF ReportFailure, ReportSkip, ConditionStored, ConditionLost
<1>2. CASE UpdateStatus
  <2> DEFINE new == SuccessStatus(obj, group, found)
  <2>1. group \in Groups
    BY <1>2 DEF UpdateStatus, TypeOK, WorkerOK
  <2>2. new \in StatusType /\ new.stamped = obj.status.stamped
    BY <2>1, SuccessStatusType DEF SuccessStatus, TypeOK, WorkerOK, Resource, StatusType
  <2>3. cr' = cr \/ cr' = PatchedStatus(new)
    BY <1>2 DEF UpdateStatus
  <2> QED
    BY <2>2, <2>3, PatchWithoutStamp
<1> QED
  BY <1>1, <1>2

LEMMA StampIsLost == TypeOK /\ ~cr.status.stamped /\ [Next]_vars => (~cr.status.stamped)'
<1> SUFFICES ASSUME TypeOK, ~cr.status.stamped, [Next]_vars
             PROVE  ~cr'.status.stamped
  OBVIOUS
<1>1. CASE ReportFailure \/ ReportSkip \/ UpdateStatus
  BY <1>1, ReportWithoutStamp
<1>2. CASE \/ Start \/ Resolve \/ ResolveNotifier \/ LookUp \/ CreateProject \/ UpdateProject
          \/ GitlabFails \/ Stamp \/ StampFails \/ GetBranchCommit \/ GetLastPipeline
          \/ FinalizeProject \/ NothingToFinalize
          \/ SyncCache \/ Resync \/ TimerFires \/ Crash \/ UNCHANGED vars
  <2>1. cr' = cr
    BY <1>2
       DEF Start, Resolve, ResolveNotifier, LookUp, CreateProject, UpdateProject, Write,
           GitlabFails, Stamp, StampFails, GetBranchCommit, GetLastPipeline, FinalizeProject,
           NothingToFinalize, SyncCache, Resync, TimerFires, Crash, Goto, Fail, cluster, vars
  <2> QED
    BY <2>1
<1>3. CASE Gitlab
  BY <1>3, GitlabShapes DEF OnGitlab, cluster
<1>4. CASE AddFinalizer \/ AddFinalizerFails
  BY <1>4 DEF AddFinalizer, AddFinalizerFails, TypeOK, ClusterOK, Resource
<1>5. CASE RemoveFinalizer \/ RemoveFinalizerFails
  <2>1. ~Unfinalized.status.stamped
    BY DEF Unfinalized, Gone, NoStatus, TypeOK, ClusterOK, Resource
  <2> QED
    BY <1>5, <2>1 DEF RemoveFinalizer, RemoveFinalizerFails
<1>6. ASSUME NEW s \in Specs, CreateResource(s) \/ EditResource(s)
      PROVE  ~cr'.status.stamped
  <2>1. ~Fresh(s, cr.gen + 1).status.stamped
    BY DEF Fresh, Gone, NoStatus
  <2> QED
    BY <1>6, <2>1, UserShapes DEF CreateResource, EditResource, ResourceEvent
<1>7. CASE DeleteResource
  <2>1. ~Gone(cr.gen + 1).status.stamped
    BY DEF Gone, NoStatus
  <2> QED
    BY <1>7, <2>1 DEF DeleteResource, ResourceEvent, TypeOK, ClusterOK, Resource
<1>8. CASE ChangeToken \/ ChangeNotifier \/ \E g \in Groups : ChangeGroup(g)
  BY <1>8 DEF ChangeToken, ChangeNotifier, ChangeGroup
<1> QED
  BY <1>1, <1>2, <1>3, <1>4, <1>5, <1>6, <1>7, <1>8 DEF Next, Reconcile, Users

\* THE STAMP IS NEVER REPORTED.  status.stamped, by api/v1alpha1/gitlabproject_types.go:60
\* "Whether the project has been stamped on GitLab", stays false whatever happens:
\* reconcileGitlab sets it before updateSuccessStatus takes the copy that its patch is
\* computed from (gitlabproject_helpers.go:81, 107).
THEOREM StampNeverReported == Spec => [](~cr.status.stamped)
<1>1. Init => ~cr.status.stamped
  <2>1. cr = Gone(0) => ~cr.status.stamped
    BY DEF Gone, NoStatus
  <2>2. \A s \in Specs, f \in BOOLEAN :
            cr = [Fresh(s, 1) EXCEPT !.finalizer = f] => ~cr.status.stamped
    BY DEF Fresh, Gone, NoStatus
  <2> QED
    BY <2>1, <2>2 DEF Init
<1> QED
  BY <1>1, InitType, StepType, StampIsLost, PTL DEF Spec

===============================================================================
