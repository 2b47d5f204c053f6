----------------------------- MODULE CustodyProofs -----------------------------
(***************************************************************************)
(* The GitlabProject controller implements the abstract contract Custody:  *)
(* its initial states are the contract's, and every step of a user, of     *)
(* GitLab, of the informers or of the worker is a step of the contract or  *)
(* is not seen by it.                                                      *)
(***************************************************************************)
EXTENDS GitlabProjectProofs

\* As far as the contract sees, nothing happens to the resource itself.
SameLife ==
    /\ cr'.exists = cr.exists /\ cr'.deleting = cr.deleting
    /\ cr'.finalizer = cr.finalizer
    /\ (cr.exists => Target(cr'.spec) = Target(cr.spec))

LEMMA LifeUnseen == SameLife => Phase' = Phase /\ Owned' = Owned
BY DEF SameLife, Phase, Owned

LEMMA CrUnseen == cr' = cr => SameLife /\ Success' = Success
BY DEF SameLife, Success

LEMMA PhaseMeaning ==
    ASSUME TypeOK, StampsAreClaimed
    PROVE  /\ Phase = "absent" <=> ~cr.exists
           /\ Phase = "unguarded" <=> cr.exists /\ ~cr.finalizer
           /\ Phase = "kept" <=> Kept(cr)
           /\ Phase = "dying" <=> cr.deleting
           /\ Contract!Guarded <=> cr.finalizer
           /\ Success => cr.finalizer
           /\ cr.exists => Owned = Target(cr.spec) /\ Owned \in Targets
<1>1. /\ cr.exists \in BOOLEAN /\ cr.finalizer \in BOOLEAN /\ cr.deleting \in BOOLEAN
      /\ Target(cr.spec) \in Targets
  BY ResourceFields, TargetType DEF TypeOK, ClusterOK
<1>2. (cr.finalizer => cr.exists) /\ (cr.deleting => cr.finalizer) /\ (Success => cr.finalizer)
  BY DEF StampsAreClaimed, WellFormed, SuccessIsGuarded, Success
<1> QED
  BY <1>1, <1>2 DEF Phase, Kept, Owned, Contract!Guarded

\* A write to one project on GitLab sets, removes or keeps its stamp.
LEMMA OneStamp ==
    ASSUME TypeOK, NEW t \in Targets, NEW p, scm' = [scm EXCEPT ![t] = p]
    PROVE  Stamps' = IF p.stamped THEN Stamps \cup {t} ELSE Stamps \ {t}
<1>1. scm'[t] = p /\ \A u \in Targets : u # t => scm'[u] = scm[u]
  BY DEF TypeOK, ClusterOK
<1> QED
  BY <1>1 DEF Stamps

\* What neither stamps nor touches the resource is unseen, or removes a stamp.
LEMMA NoNewStamp ==
    ASSUME TypeOK, SameLife, Success' = Success, abandoned' = abandoned,
           \/ scm' = scm
           \/ \E t \in Targets : \E p : scm' = [scm EXCEPT ![t] = p]
                                        /\ (p.stamped => scm[t].stamped)
    PROVE  [Contract!Next]_Contract!vars
<1>1. Phase' = Phase /\ Owned' = Owned
  BY LifeUnseen
<1>2. CASE Stamps' = Stamps
  BY <1>1, <1>2 DEF Contract!vars
<1>3. CASE \E t \in Targets : Stamps' = Stamps \ {t}
  BY <1>1, <1>3 DEF Contract!Next, Contract!Unstamp
<1>4. Stamps' = Stamps \/ \E t \in Targets : Stamps' = Stamps \ {t}
  <2>1. CASE scm' = scm
    BY <2>1 DEF Stamps
  <2>2. ASSUME NEW t \in Targets, NEW p, scm' = [scm EXCEPT ![t] = p], p.stamped => scm[t].stamped
        PROVE  Stamps' = Stamps \/ \E u \in Targets : Stamps' = Stamps \ {u}
    <3>1. Stamps' = IF p.stamped THEN Stamps \cup {t} ELSE Stamps \ {t}
      BY <2>2, OneStamp
    <3>2. p.stamped => Stamps \cup {t} = Stamps
      BY <2>2 DEF Stamps
    <3> QED
      BY <3>1, <3>2
  <2> QED
    BY <2>1, <2>2
<1> QED
  BY <1>2, <1>3, <1>4

-------------------------------------------------------------------------------
(* Users, GitLab and the informers.                                          *)

LEMMA UsersCustody ==
    ASSUME TypeOK, StampsAreClaimed, Users
    PROVE  [Contract!Next]_Contract!vars
<1> USE PhaseMeaning
<1>1. CASE ChangeToken \/ ChangeNotifier \/ \E g \in Groups : ChangeGroup(g)
  <2>1. UNCHANGED <<cr, scm, abandoned>>
    BY <1>1 DEF ChangeToken, ChangeNotifier, ChangeGroup
  <2> QED
    BY <2>1, CrUnseen, NoNewStamp
<1>2. ASSUME NEW s \in Specs, CreateResource(s)
      PROVE  Contract!Create(Target(s)) /\ Target(s) \in Targets
  <2>1. /\ cr'.exists /\ ~cr'.finalizer /\ Target(cr'.spec) = Target(s)
        /\ cr'.status.cond.reason = NoReason /\ scm' = scm /\ ~cr.exists
    BY <1>2, UserShapes DEF CreateResource, ResourceEvent
  <2>2. Phase = "absent" /\ Phase' = "unguarded" /\ Owned' = Target(s)
    BY <2>1 DEF Phase, Owned
  <2>3. ~cr.finalizer /\ Success' = FALSE /\ Success = FALSE /\ Stamps' = Stamps
    BY <2>1 DEF Success, NoReason, Stamps, StampsAreClaimed, WellFormed
  <2>4. abandoned' \in {abandoned, abandoned \cup (Targets \ {Target(s)})}
    BY <1>2 DEF CreateResource, Retargeted
  <2> QED
    BY <2>2, <2>3, <2>4, UserShapes DEF Contract!Create
<1>3. ASSUME NEW s \in Specs, EditResource(s)
      PROVE  [Contract!Next]_Contract!vars
  <2>1. /\ cr'.exists = cr.exists /\ cr'.finalizer = cr.finalizer
        /\ cr'.deleting = cr.deleting /\ cr'.status = cr.status
        /\ Target(cr'.spec) = Target(s) /\ Target(s) \in Targets /\ scm' = scm /\ cr.exists
    BY <1>3, UserShapes DEF EditResource, ResourceEvent
  <2>2. Success' = Success /\ Stamps' = Stamps /\ Phase' = Phase /\ Owned' = Target(s)
    BY <2>1 DEF Success, Stamps, Phase, Owned
  <2>3. CASE Target(s) = Target(cr.spec)
    <3>1. abandoned' = abandoned
      BY <1>3, <2>3 DEF EditResource
    <3> QED
      BY <2>1, <2>2, <2>3, <3>1 DEF Contract!vars
  <2>4. CASE Target(s) # Target(cr.spec)
    <3>1. abandoned' = IF cr.deleting THEN Targets ELSE abandoned \cup (Targets \ {Target(s)})
      <4>1. cr.deleting \in BOOLEAN
        BY ResourceFields DEF TypeOK, ClusterOK
      <4> QED
        BY <1>3, <2>4, <4>1 DEF EditResource, Retargeted
    <3>2. Contract!Move(Target(s))
      BY <2>1, <2>2, <2>4, <3>1 DEF Contract!Move
    <3> QED
      BY <2>1, <3>2 DEF Contract!Next
  <2> QED
    BY <2>3, <2>4
<1>4. CASE DeleteResource
  <2>1. PICK s : s \in Specs
    BY ProjectAssumption
  <2>2. UNCHANGED <<scm, abandoned, Stamps>> /\ cr.exists /\ ~cr.deleting
    BY <1>4 DEF DeleteResource, ResourceEvent, Stamps
  <2>3. CASE cr.finalizer
    <3>1. /\ cr'.exists /\ cr'.finalizer /\ cr'.deleting
          /\ cr'.spec = cr.spec /\ cr'.status = cr.status
      BY <1>4, <2>1, <2>2, <2>3, UserShapes DEF DeleteResource, ResourceEvent
    <3>2. Phase' = "dying" /\ Phase = "kept" /\ Owned' = Owned /\ Success' = Success
      BY <2>2, <2>3, <3>1 DEF Phase, Owned, Success
    <3> QED
      BY <2>2, <3>2 DEF Contract!Condemn, Contract!Next
  <2>4. CASE ~cr.finalizer
    <3>1. ~cr'.exists /\ cr'.status.cond.reason = NoReason
      BY <1>4, <2>1, <2>4, UserShapes DEF DeleteResource, ResourceEvent
    <3>2. Phase' = "absent" /\ Phase = "unguarded" /\ Owned' = None /\ Success' = FALSE
      BY <2>2, <2>4, <3>1 DEF Phase, Owned, Success, NoReason
    <3> QED
      BY <2>2, <3>2 DEF Contract!Discard, Contract!Next
  <2> QED
    BY <2>3, <2>4
<1> QED
  BY <1>1, <1>2, <1>3, <1>4 DEF Users, Contract!Next

LEMMA EventsCustody ==
    ASSUME TypeOK, Gitlab \/ SyncCache \/ Resync \/ TimerFires \/ Crash
    PROVE  [Contract!Next]_Contract!vars
<1>1. CASE Gitlab
  <2>1. PICK t \in Targets : \E p : OnGitlab(t, p) /\ (p.stamped => scm[t].stamped)
    BY <1>1, GitlabShapes
  <2>2. cr' = cr /\ abandoned' = abandoned
    BY <2>1 DEF OnGitlab, cluster
  <2> QED
    BY <2>1, <2>2, CrUnseen, NoNewStamp DEF OnGitlab
<1>2. CASE SyncCache \/ Resync \/ TimerFires \/ Crash
  <2>1. UNCHANGED <<cr, scm, abandoned>>
    BY <1>2 DEF SyncCache, Resync, TimerFires, Crash, cluster
  <2> QED
    BY <2>1, CrUnseen, NoNewStamp
<1> QED
  BY <1>1, <1>2

-------------------------------------------------------------------------------
(* The worker.                                                               *)

\* Until it reports, the worker does nothing the contract knows but to stamp.
LEMMA QuietCustody ==
    ASSUME TypeOK,
           \/ Start \/ Resolve \/ ResolveNotifier \/ LookUp \/ CreateProject \/ UpdateProject
           \/ GitlabFails \/ GetBranchCommit \/ GetLastPipeline \/ NothingToFinalize
    PROVE  [Contract!Next]_Contract!vars
<1>1. UNCHANGED <<cr, abandoned>>
  BY DEF Start, Resolve, ResolveNotifier, LookUp, CreateProject, UpdateProject, Write,
     GitlabFails, GetBranchCommit, GetLastPipeline, NothingToFinalize, Goto, cluster
<1>2. \/ scm' = scm
      \/ AtGitlab /\ scm' \in {[scm EXCEPT ![Goal] = Created], [scm EXCEPT ![Goal] = Updated]}
  BY DEF Start, Resolve, ResolveNotifier, LookUp, CreateProject, UpdateProject, Write,
     GitlabFails, GetBranchCommit, GetLastPipeline, NothingToFinalize, AtGitlab
<1>3. AtGitlab => Goal \in Targets /\ ~Created.stamped /\ Updated.stamped = scm[Goal].stamped
  BY GoalType DEF Created, Updated, NotOnGitlab, GitlabType
<1> QED
  BY <1>1, <1>2, <1>3, CrUnseen, NoNewStamp

LEMMA StampCustody ==
    ASSUME TypeOK, StampsAreClaimed, Stamp \/ StampFails
    PROVE  [Contract!Next]_Contract!vars
<1>1. UNCHANGED <<cr, abandoned>> /\ AtGitlab /\ scm' \in {scm, Stamped(Goal)}
  BY DEF Stamp, StampFails, Goto, cluster, AtGitlab
<1>2. Goal \in Targets
  BY <1>1, GoalType
<1>3. Phase' = Phase /\ Owned' = Owned /\ Success' = Success
  BY <1>1, CrUnseen, LifeUnseen
<1>4. Contract!Guarded /\ (Goal = Owned \/ Goal \in abandoned)
  BY <1>1, <1>2, PhaseMeaning DEF StampsAreClaimed, WorkerLags, WellFormed, Aligned
<1>5. CASE scm' = scm
  BY <1>1, <1>5, CrUnseen, NoNewStamp
<1>6. CASE scm' # scm
  <2> DEFINE p == [scm[Goal] EXCEPT !.stamped = TRUE]
  <2>1. scm' = [scm EXCEPT ![Goal] = p]
    BY <1>1, <1>6 DEF Stamped
  <2>2. p.stamped
    BY <1>2 DEF TypeOK, ClusterOK, GitlabType
  <2> HIDE DEF p
  <2>3. Stamps' = Stamps \cup {Goal}
    BY <1>2, <2>1, <2>2, OneStamp
  <2> QED
    BY <1>1, <1>2, <1>3, <1>4, <2>3 DEF Contract!Next, Contract!Stamp
<1> QED
  BY <1>5, <1>6

\* A status patch is seen by its condition only.
LEMMA PatchUnseen ==
    ASSUME TypeOK, NEW new \in StatusType, cr' \in {cr, PatchedStatus(new)}
    PROVE  SameLife /\ cr'.status.cond \in {cr.status.cond, new.cond}
<1>1. SameLife
  BY PatchedStatusType DEF SameLife
<1>2. CASE cr' = PatchedStatus(new)
  <2>1. cr'.status = MergedStatus(obj.status, new, cr.status)
    BY <1>2, PatchedStatusType
  <2> QED
    BY <1>1, <2>1 DEF MergedStatus, Merged
<1> QED
  BY <1>1, <1>2

LEMMA ReportCustody ==
    ASSUME TypeOK, StampsAreClaimed, ReportFailure \/ UpdateStatus
    PROVE  [Contract!Next]_Contract!vars
<1>1. UNCHANGED <<scm, abandoned, Stamps>>
  BY DEF ReportFailure, UpdateStatus, Stamps
<1>2. CASE ReportFailure
  <2>1. Failed \in StatusType /\ Failed.cond.reason # "ProjectReconciled"
    BY <1>2, FailureIsNoSuccess DEF ReportFailure
  <2>2. cr' \in {cr, PatchedStatus(Failed)}
    BY <1>2 DEF ReportFailure, ConditionStored, ConditionLost
  <2>3. SameLife /\ (Success' = Success \/ Success' = FALSE)
    BY <2>1, <2>2, PatchUnseen DEF Success
  <2> QED
    BY <1>1, <2>3, LifeUnseen DEF Contract!Next, Contract!Doubt, Contract!vars
<1>3. CASE UpdateStatus
  <2> DEFINE new == SuccessStatus(obj, group, found)
  <2>1. Contract!Guarded
    BY <1>3, PhaseMeaning DEF UpdateStatus, StampsAreClaimed, WorkerLags, AtGitlab
  <2>2. new \in StatusType
    BY <1>3, GoalType, SuccessStatusType DEF UpdateStatus, AtGitlab
  <2>3. new.cond.reason = "ProjectReconciled"
    BY DEF SuccessStatus, TypeOK, WorkerOK, Resource, StatusType
  <2>4. cr' \in {cr, PatchedStatus(new)}
    BY <1>3 DEF UpdateStatus
  <2> HIDE DEF new
  <2>5. SameLife /\ (Success' = Success \/ Success' = TRUE)
    BY <2>2, <2>3, <2>4, PatchUnseen DEF Success
  <2> QED
    BY <1>1, <2>1, <2>5, LifeUnseen DEF Contract!Next, Contract!Report, Contract!vars
<1> QED
  BY <1>2, <1>3

\* The finalizer is put on what has none yet, or is there already.
LEMMA RegistrationCustody ==
    ASSUME TypeOK, StampsAreClaimed, AddFinalizer \/ AddFinalizerFails
    PROVE  [Contract!Next]_Contract!vars
<1>1. UNCHANGED <<scm, abandoned, Stamps>>
  BY DEF AddFinalizer, AddFinalizerFails, Stamps
<1>2. CASE cr' = cr
  BY <1>1, <1>2, CrUnseen, NoNewStamp
<1>3. CASE cr.exists /\ cr' = [cr EXCEPT !.finalizer = TRUE]
  <2>1. /\ cr'.exists /\ cr'.finalizer /\ cr'.deleting = cr.deleting
        /\ cr'.spec = cr.spec /\ cr'.status = cr.status
    BY <1>3 DEF TypeOK, ClusterOK, Resource
  <2>2. Owned' = Owned /\ Success' = Success
    BY <1>3, <2>1 DEF Owned, Success
  <2>3. CASE cr.finalizer
    <3>1. SameLife
      BY <1>3, <2>1, <2>3 DEF SameLife, TypeOK, ClusterOK, Resource
    <3> QED
      BY <1>1, <2>2, <3>1, NoNewStamp
  <2>4. CASE ~cr.finalizer
    <3>1. ~cr.deleting
      BY <2>4 DEF StampsAreClaimed, WellFormed
    <3>2. Phase = "unguarded" /\ Phase' = "kept"
      BY <1>3, <2>1, <2>4, <3>1 DEF Phase
    <3> QED
      BY <1>1, <2>2, <3>2 DEF Contract!Register, Contract!Next
  <2> QED
    BY <2>3, <2>4
<1> QED
  BY <1>2, <1>3 DEF AddFinalizer, AddFinalizerFails

\* What cannot be cleaned up is given up, and is not that of a kept resource.
LEMMA SkipCustody ==
    ASSUME TypeOK, StampsAreClaimed, ReportSkip
    PROVE  [Contract!Next]_Contract!vars
<1>1. /\ Target(obj.spec) \in Targets /\ pc = "skip"
      /\ abandoned' = abandoned \cup {Target(obj.spec)} /\ Stamps' = Stamps
  BY ResourceFields, TargetType DEF TypeOK, WorkerOK, ReportSkip, Stamps
<1>2. Phase # "kept"
  BY <1>1, PhaseMeaning DEF StampsAreClaimed, WorkerLags, InDeletion
<1>3. Failed \in StatusType /\ Failed.cond.reason # "ProjectReconciled"
  BY <1>1, FailureIsNoSuccess
<1>4. cr' \in {cr, PatchedStatus(Failed)}
  BY DEF ReportSkip, ConditionStored, ConditionLost
<1>5. SameLife /\ Success' \in {Success, FALSE}
  BY <1>3, <1>4, PatchUnseen DEF Success
<1> QED
  BY <1>1, <1>2, <1>5, LifeUnseen DEF Contract!Next, Contract!GiveUp

LEMMA CleanupCustody ==
    ASSUME TypeOK, StampsAreClaimed, FinalizeProject
    PROVE  [Contract!Next]_Contract!vars
<1>1. pc = "cleanup" /\ cr' = cr /\ Goal \in Targets
  BY GoalType DEF FinalizeProject, Goto, cluster
<1>2. Phase # "kept" /\ Phase' = Phase /\ Owned' = Owned /\ Success' = Success
  BY <1>1, PhaseMeaning, CrUnseen, LifeUnseen DEF StampsAreClaimed, WorkerLags, InDeletion
<1>3. Stamps' \in {Stamps, Stamps \ {Goal}}
  <2> DEFINE p == [scm[Goal] EXCEPT !.stamped = FALSE]
  <2>1. scm' = scm \/ scm' = [scm EXCEPT ![Goal] = p]
    BY DEF FinalizeProject, Unstamped
  <2>2. ~p.stamped
    BY <1>1 DEF TypeOK, ClusterOK, GitlabType
  <2> HIDE DEF p
  <2>3. CASE scm' = scm
    BY <2>3 DEF Stamps
  <2>4. CASE scm' = [scm EXCEPT ![Goal] = p]
    BY <1>1, <2>2, <2>4, OneStamp
  <2> QED
    BY <2>1, <2>3, <2>4
<1>4. CASE abandoned' = abandoned \cup {Goal}
  BY <1>1, <1>2, <1>3, <1>4 DEF Contract!Next, Contract!GiveUp
<1>5. CASE abandoned' = abandoned
  BY <1>1, <1>2, <1>3, <1>5 DEF Contract!Next, Contract!Unstamp, Contract!vars
<1> QED
  BY <1>4, <1>5 DEF FinalizeProject

\* A dying resource is let go without a stamp, a kept one never.
LEMMA RemovalCustody ==
    ASSUME TypeOK, StampsAreClaimed, RemoveFinalizer \/ RemoveFinalizerFails
    PROVE  [Contract!Next]_Contract!vars
<1>1. /\ pc = "unfinalize" /\ UNCHANGED <<scm, abandoned, Stamps>>
      /\ cr' = cr \/ (cr.exists /\ cr' = Unfinalized)
  BY DEF RemoveFinalizer, RemoveFinalizerFails, Stamps
<1>2. CASE cr' = cr
  BY <1>1, <1>2, CrUnseen, NoNewStamp
<1>3. CASE cr.exists /\ cr' = Unfinalized /\ cr.deleting
  <2>1. ~cr'.exists /\ cr'.status.cond.reason = NoReason
    BY <1>3 DEF Unfinalized, Gone, NoStatus
  <2>2. Phase' = "absent" /\ Owned' = None /\ Success' = FALSE
    BY <2>1 DEF Phase, Owned, Success, NoReason
  <2>3. Phase = "dying" /\ Owned = Target(cr.spec)
    BY <1>3, PhaseMeaning
  <2>4. Owned \notin Stamps \ abandoned
    BY <1>1, <1>3, <2>3 DEF StampsAreClaimed, WorkerLags, Stamps
  <2> QED
    BY <1>1, <2>2, <2>3, <2>4 DEF Contract!Release, Contract!Next
<1>4. CASE cr.exists /\ cr' = Unfinalized /\ ~cr.deleting
  <2>1. ~cr.finalizer
    BY <1>1, <1>4 DEF StampsAreClaimed, WorkerLags, InDeletion, Kept
  <2>2. /\ cr'.exists = cr.exists /\ cr'.deleting = cr.deleting /\ cr'.finalizer = cr.finalizer
        /\ cr'.spec = cr.spec /\ cr'.status = cr.status
    BY <1>4, <2>1 DEF Unfinalized, TypeOK, ClusterOK, Resource
  <2> QED
    BY <1>1, <2>2, NoNewStamp DEF SameLife, Success
<1> QED
  BY <1>1, <1>2, <1>3, <1>4

-------------------------------------------------------------------------------
LEMMA CustodyInit == Init => Contract!Init
<1> SUFFICES ASSUME Init
             PROVE  Contract!Init
  OBVIOUS
<1>1. TypeOK /\ StampsAreClaimed
  BY InitType, ClaimsInit
<1>2. ~cr.deleting /\ cr.status.cond.reason = NoReason
  <2>1. CASE cr = Gone(0)
    BY <2>1 DEF Gone, NoStatus
  <2>2. ASSUME NEW s \in Specs, NEW f \in BOOLEAN, cr = [Fresh(s, 1) EXCEPT !.finalizer = f]
        PROVE  ~cr.deleting /\ cr.status.cond.reason = NoReason
    BY <2>2 DEF Fresh, Gone, NoStatus
  <2> QED
    BY <2>1, <2>2 DEF Init
<1>3. Success = FALSE /\ Stamps = {} /\ abandoned = {}
  BY <1>2 DEF Init, Success, NoReason, Stamps, NotOnGitlab
<1>4. CASE ~cr.exists
  BY <1>3, <1>4 DEF Contract!Init, Phase, Owned
<1>5. CASE cr.exists
  <2>1. Phase \in {"unguarded", "kept"} /\ Owned \in Targets
    BY <1>1, <1>2, <1>5, PhaseMeaning DEF Phase
  <2> QED
    BY <1>3, <2>1 DEF Contract!Init
<1> QED
  BY <1>4, <1>5

LEMMA CustodyStep ==
    TypeOK /\ StampsAreClaimed /\ [Next]_vars => [Contract!Next]_Contract!vars
<1>1. ASSUME TypeOK, UNCHANGED vars
      PROVE  [Contract!Next]_Contract!vars
  BY <1>1, CrUnseen, NoNewStamp DEF vars, cluster
<1> QED
  BY <1>1, UsersCustody, EventsCustody, QuietCustody, StampCustody, ReportCustody,
     RegistrationCustody, SkipCustody, CleanupCustody, RemovalCustody
  DEF Next, Reconcile

\* The GitlabProject controller implements the contract of the stamps, for any users,
\* projects, faults and interleavings.
THEOREM CustodyKept == Spec => CustodyIsKept
<1> QED
  BY InitType, StepType, ClaimsInit, StepClaims, CustodyInit, CustodyStep, PTL
  DEF Spec, CustodyIsKept, Contract!Spec

\* The contract says enough: whoever keeps it leaves no stamp that nobody answers for, and
\* reports no success without the finalizer.
THEOREM ContractSuffices == Contract!Spec => []Contract!Answered
<1> USE DEF Contract!Guarded
<1> DEFINE IInv == /\ Contract!Answered /\ abandoned \subseteq Targets /\ Stamps \subseteq Targets
<1>1. Contract!Init => IInv
  BY DEF Contract!Init, Contract!Answered
<1>2. IInv /\ [Contract!Next]_Contract!vars => IInv'
  <2> SUFFICES ASSUME IInv, [Contract!Next]_Contract!vars
               PROVE  IInv'
    OBVIOUS
  <2>1. CASE UNCHANGED Contract!vars
    BY <2>1 DEF Contract!vars, Contract!Answered
  <2>2. CASE \E t \in Targets : Contract!Create(t) \/ Contract!Move(t)
    BY <2>2 DEF Contract!Create, Contract!Move, Contract!Answered
  <2>3. ASSUME NEW t \in Targets, Contract!Stamp(t)
        PROVE  IInv'
    BY <2>3 DEF Contract!Stamp, Contract!Answered
  <2>4. ASSUME NEW t \in Targets, Contract!Unstamp(t) \/ Contract!GiveUp(t)
        PROVE  IInv'
    <3>1. Phase' = Phase /\ Owned' = Owned /\ (Success' => Success)
      BY <2>4 DEF Contract!Unstamp, Contract!GiveUp, Success
    <3>2. Stamps' \subseteq Stamps /\ abandoned \subseteq abandoned' /\ abandoned' \subseteq Targets
      BY <2>4 DEF Contract!Unstamp, Contract!GiveUp
    <3> QED
      BY <3>1, <3>2 DEF Contract!Answered
  <2>5. CASE Contract!Discard \/ Contract!Condemn \/ Contract!Register
    BY <2>5 DEF Contract!Discard, Contract!Condemn, Contract!Register, Contract!Answered
  <2>6. CASE Contract!Report \/ Contract!Doubt \/ Contract!Release
    BY <2>6 DEF Contract!Report, Contract!Doubt, Contract!Release, Contract!Answered
  <2> QED
    BY <2>1, <2>2, <2>3, <2>4, <2>5, <2>6 DEF Contract!Next
<1>3. IInv => Contract!Answered
  OBVIOUS
<1> QED
  BY <1>1, <1>2, <1>3, PTL DEF Contract!Spec

===============================================================================
