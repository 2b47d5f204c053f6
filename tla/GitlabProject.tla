----------------------------- MODULE GitlabProject -----------------------------
(***************************************************************************)
(* The GitlabProject controller: one GitlabProject resource, the GitLab    *)
(* projects it may stand for, and the single worker that reconciles it.    *)
(* The worker reads the resource through the informer cache, which may lag,*)
(* and writes it with merge patches that carry no resource version.  A     *)
(* reconcile is split at every call to the API server or to GitLab.        *)
(***************************************************************************)
EXTENDS Naturals, Admission

CONSTANTS
    Groups,      \* GitlabGroup resources, each standing for the GitLab group it names
    Names,       \* names of projects on GitLab
    Branches, Commits, Pipelines,
    None,        \* no commit, no pipeline, no group
    BranchOf,    \* BranchOf[c]: the branch commit c is made on
    Specs,       \* the GitlabProject specs users try to apply
    MaxChanges,  \* bound: changes made by users and on GitLab
    MaxFaults    \* bound: failed calls and crashes

Targets      == Groups \X Names
Visibilities == {"private", "public"}

ASSUME ProjectAssumption ==
    /\ None \notin Groups \cup Commits \cup Pipelines
    /\ BranchOf \in [Commits -> Branches]
    /\ Specs \subseteq [group : Groups, name : Names, visibility : Visibilities \cup {""},
                        branch : Branches, notified : BOOLEAN]
    /\ Specs # {}
    /\ MaxChanges \in Nat /\ MaxFaults \in Nat

VARIABLES
    (* API server and informers *)
    cr,       \* the stored GitlabProject
    cached,   \* the informer's copy of it
    groups,   \* the GitlabGroup resources there are
    token,    \* does the groups' Secret hold a token?
    alerts,   \* can the Notifier the resource names be resolved?
    (* GitLab *)
    scm,
    (* work queue: one key *)
    queued, timer,
    (* the worker *)
    pc, obj, group, found, reason,
    (* bounds *)
    changes, faults,
    (* history *)
    abandoned  \* projects whose stamp may outlive the resource, each for a known cause

cluster == <<cr, cached, groups, token, alerts>>
queue   == <<queued, timer>>
locals  == <<obj, group, found, reason>>
vars    == <<cluster, scm, queue, pc, locals, changes, faults, abandoned>>

NoReason == "none"
Reasons  == {"ParentGroupNotFound", "NoToken", "NotifierError", "GitLabAPIError",
             "BranchError", "PipelineError", "ProjectReconciled"}

\* spec.properties.visibility stands for the description as well: both are
\* compared, written and reported together.
NoSpec   == [(CHOOSE s \in Specs : TRUE) EXCEPT !.visibility = "private"]
NoStatus == [path |-> None, visibility |-> None, commit |-> None, pipeline |-> None,
             stamped |-> FALSE, cond |-> [reason |-> NoReason, gen |-> 0]]

\* gen is metadata.generation, bumped as well by create and final removal: a
\* change of gen is exactly what passes GenerationChangedPredicate.
Gone(gen) == [exists |-> FALSE, gen |-> gen, deleting |-> FALSE, finalizer |-> FALSE,
              spec |-> NoSpec, status |-> NoStatus]

Admitted(spec) == [spec EXCEPT !.visibility = DefaultVisibility(@)]

Fresh(spec, gen) == [Gone(gen) EXCEPT !.exists = TRUE, !.spec = Admitted(spec)]

NotOnGitlab == [exists |-> FALSE, visibility |-> "private", stamped |-> FALSE,
                head |-> [b \in Branches |-> None], last |-> [b \in Branches |-> None]]

NothingFound == [visibility |-> None, commit |-> None, pipeline |-> None]

ResetLocals ==
    obj' = Gone(0) /\ group' = None /\ found' = NothingFound /\ reason' = NoReason

\* The operator comes up, for the first time or after it got no further than the
\* finalizer; projects may exist on GitLab, none stamped.
Init ==
    /\ \/ cr = Gone(0)
       \/ \E s \in Specs, f \in BOOLEAN : cr = [Fresh(s, 1) EXCEPT !.finalizer = f]
    /\ cached = cr
    /\ groups \in SUBSET Groups /\ token \in BOOLEAN /\ alerts \in BOOLEAN
    /\ scm \in [Targets -> {NotOnGitlab, [NotOnGitlab EXCEPT !.exists = TRUE]}]
    /\ queued = cr.exists /\ timer = FALSE
    /\ pc = "idle" /\ obj = Gone(0) /\ group = None /\ found = NothingFound
    /\ reason = NoReason
    /\ changes = 0 /\ faults = 0 /\ abandoned = {}

-------------------------------------------------------------------------------
(* Users, GitLab, informers.                                                 *)

Change == changes < MaxChanges /\ changes' = changes + 1

Fault == faults < MaxFaults /\ faults' = faults + 1

Target(spec) == <<spec.group, spec.name>>

ResourceEvent(new) ==
    /\ Change
    /\ cr' = new
    /\ UNCHANGED <<cached, groups, token, alerts, scm, queue, pc, locals, faults>>

\* Whatever else was or will be stamped on the way to the new target (a reconcile
\* may meet both specs) is from now on nobody's to clean up.
Retargeted(spec) == abandoned' = abandoned \cup (Targets \ {Target(spec)})

CreateResource(spec) ==
    /\ ~cr.exists
    /\ ResourceEvent(Fresh(spec, cr.gen + 1))
    /\ IF pc = "idle" /\ ~cached.exists THEN UNCHANGED abandoned ELSE Retargeted(spec)

\* No webhook forbids an edit that points the resource at another project; one of
\* a resource under deletion may come too late for the cleanup.
EditResource(spec) ==
    /\ cr.exists /\ Admitted(spec) # cr.spec
    /\ ResourceEvent([cr EXCEPT !.gen = @ + 1, !.spec = Admitted(spec)])
    /\ CASE Target(spec) = Target(cr.spec)                  -> UNCHANGED abandoned
         [] Target(spec) # Target(cr.spec) /\ cr.deleting  -> abandoned' = Targets
         [] Target(spec) # Target(cr.spec) /\ ~cr.deleting -> Retargeted(spec)

\* A finalizer holds a deleted resource back.
DeleteResource ==
    /\ cr.exists /\ ~cr.deleting
    /\ ResourceEvent(IF cr.finalizer THEN [cr EXCEPT !.gen = @ + 1, !.deleting = TRUE]
                                     ELSE Gone(cr.gen + 1))
    /\ UNCHANGED abandoned

\* mapSecretToProjects finds the resource through its group.
SecretEnqueues == cached.exists /\ cached.spec.group \in groups

ChangeToken ==
    /\ Change
    /\ token' = ~token
    /\ queued' = (queued \/ SecretEnqueues)
    /\ UNCHANGED <<cr, cached, groups, alerts, scm, timer, pc, locals, faults, abandoned>>

\* The informer of Secrets replays its updates now and then.
Resync ==
    /\ ~queued /\ SecretEnqueues
    /\ queued' = TRUE
    /\ UNCHANGED <<cluster, scm, timer, pc, locals, changes, faults, abandoned>>

\* Nothing watches the other dependencies.
ChangeGroup(g) ==
    /\ Change
    /\ groups' = IF g \in groups THEN groups \ {g} ELSE groups \cup {g}
    /\ UNCHANGED <<cr, cached, token, alerts, scm, queue, pc, locals, faults, abandoned>>

ChangeNotifier ==
    /\ Change
    /\ alerts' = ~alerts
    /\ UNCHANGED <<cr, cached, groups, token, scm, queue, pc, locals, faults, abandoned>>

OnGitlab(t, new) ==
    /\ Change
    /\ scm[t].exists
    /\ scm' = [scm EXCEPT ![t] = new]
    /\ UNCHANGED <<cluster, queue, pc, locals, faults, abandoned>>

Push(t, c)        == OnGitlab(t, [scm[t] EXCEPT !.head[BranchOf[c]] = c])
RunPipeline(t, b, p) == scm[t].head[b] # None /\ OnGitlab(t, [scm[t] EXCEPT !.last[b] = p])
EditOnGitlab(t, v) == scm[t].visibility # v /\ OnGitlab(t, [scm[t] EXCEPT !.visibility = v])
DropTopic(t)      == scm[t].stamped /\ OnGitlab(t, [scm[t] EXCEPT !.stamped = FALSE])
RemoveProject(t)  == OnGitlab(t, NotOnGitlab)

SyncCache ==
    /\ cached # cr
    /\ cached' = cr
    /\ queued' = (queued \/ cached.gen # cr.gen)
    /\ UNCHANGED <<cr, groups, token, alerts, scm, timer, pc, locals, changes, faults, abandoned>>

TimerFires ==
    /\ timer
    /\ queued' = TRUE /\ timer' = FALSE
    /\ UNCHANGED <<cluster, scm, pc, locals, changes, faults, abandoned>>

-------------------------------------------------------------------------------
(* The reconcile.                                                            *)

Goal == <<group, obj.spec.name>>

\* A step of the worker that writes nothing outside it.
Goto(label) ==
    /\ pc' = label
    /\ UNCHANGED <<cluster, queue, changes>>

\* The reconcile ends; a requeue, or a rate-limited retry, is a timer.
Finish(requeue) ==
    /\ pc' = "idle"
    /\ timer' = (timer \/ requeue)
    /\ ResetLocals

\* An error to be reported as the Ready condition's reason.
Fail(why) == Goto("fail") /\ reason' = why

Start ==
    /\ pc = "idle" /\ queued
    /\ queued' = FALSE
    /\ IF cached.exists THEN pc' = "resolve" /\ obj' = cached ELSE UNCHANGED <<pc, obj>>
    /\ UNCHANGED <<cluster, scm, timer, group, found, reason, changes, faults, abandoned>>

\* Broken variants of the next two, for the mutation runs: the finalizer is never
\* registered; deletion skips the cleanup, or does not ask whether it can be made, or
\* waits for its dependencies.
NeverRegisters(o) == FALSE

NeverCleansUp(o, ok) == IF o.finalizer THEN "unfinalize" ELSE "done"

CleansUpRegardless(o, ok) == IF o.finalizer THEN "cleanup" ELSE "done"

WaitsForDependencies(o, ok) ==
    IF o.finalizer /\ ok THEN "cleanup" ELSE "done"

NeedsFinalizer(o) == ~o.finalizer

\* handleDeletion: without its dependencies, a resource goes without a cleanup.
HandleDeletion(o, ok) ==
    CASE ~o.finalizer        -> "done"
      [] o.finalizer /\ ok   -> "cleanup"
      [] o.finalizer /\ ~ok  -> "unfinalize"

\* The group and its Secret are read through their informers.
Missing == CASE obj.spec.group \notin groups             -> "ParentGroupNotFound"
             [] obj.spec.group \in groups /\ ~token       -> "NoToken"
             [] OTHER                                     -> NoReason

Resolve ==
    /\ pc = "resolve"
    /\ IF Missing = NoReason
         THEN /\ group' = obj.spec.group /\ UNCHANGED reason
              /\ Goto(CASE obj.deleting                          -> HandleDeletion(obj, TRUE)
                        [] ~obj.deleting /\ NeedsFinalizer(obj)  -> "register"
                        [] ~obj.deleting /\ ~NeedsFinalizer(obj) -> "notifier")
         ELSE /\ reason' = Missing /\ UNCHANGED group
              /\ Goto(IF obj.deleting THEN "skip" ELSE "fail")
    /\ UNCHANGED <<scm, obj, found, faults, abandoned>>

\* client.MergeFrom: only what differs from the copy read is sent, and the rest
\* of the stored object stays.
Merged(old, new, live) == IF new # old THEN new ELSE live

MergedStatus(old, new, live) ==
    [path       |-> Merged(old.path, new.path, live.path),
     visibility |-> Merged(old.visibility, new.visibility, live.visibility),
     commit     |-> Merged(old.commit, new.commit, live.commit),
     pipeline   |-> Merged(old.pipeline, new.pipeline, live.pipeline),
     stamped    |-> Merged(old.stamped, new.stamped, live.stamped),
     cond       |-> Merged(old.cond, new.cond, live.cond)]

\* A broken variant: that the project was stamped once is remembered.
StampRemembered(new) ==
    [cr EXCEPT !.status = [MergedStatus(obj.status, new, cr.status) EXCEPT !.stamped = new.stamped]]

\* A broken variant: an update, with the whole status the copy read had.
OverwritesStatus(new) == [cr EXCEPT !.status = new]

\* On the stored object, whichever it is by now.
PatchedStatus(new) == [cr EXCEPT !.status = MergedStatus(obj.status, new, cr.status)]

Condition == [reason |-> reason, gen |-> obj.gen]

\* setCondition: an error of its patch is ignored.
Failed == [obj.status EXCEPT !.cond = Condition]

ConditionStored == cr.exists /\ cr' = PatchedStatus(Failed) /\ UNCHANGED faults

ConditionLost ==
    \/ ~cr.exists /\ UNCHANGED <<cr, faults>>
    \/ cr.exists /\ Fault /\ cr' \in {cr, PatchedStatus(Failed)}

\* Every failure but those of a deletion ends the reconcile, to be retried.
ReportFailure ==
    /\ pc = "fail"
    /\ ConditionStored \/ ConditionLost
    /\ Finish(TRUE)
    /\ UNCHANGED <<cached, groups, token, alerts, scm, queued, changes, abandoned>>

\* A deletion goes on with what the patch answered, which may be a newer resource
\* of the same name.
ReportSkip ==
    /\ pc = "skip"
    /\ \/ ConditionStored /\ obj' = cr'
       \/ ConditionLost /\ obj' = [obj EXCEPT !.status = Failed]
    /\ pc' = HandleDeletion(obj', FALSE)
    /\ abandoned' = abandoned \cup {Target(obj.spec)}
    /\ UNCHANGED <<cached, groups, token, alerts, scm, queue, group, found, reason, changes>>

\* The response carries the whole stored object: its spec, its generation.
AddFinalizer ==
    /\ pc = "register" /\ cr.exists
    /\ cr' = [cr EXCEPT !.finalizer = TRUE]
    /\ obj' = cr'
    /\ pc' = "notifier"
    /\ UNCHANGED <<cached, groups, token, alerts, scm, queue, group, found, reason, changes,
                   faults, abandoned>>

AddFinalizerFails ==
    /\ pc = "register"
    /\ \/ ~cr.exists /\ UNCHANGED <<cr, faults>>
       \/ cr.exists /\ Fault /\ cr' \in {cr, [cr EXCEPT !.finalizer = TRUE]}
    /\ Finish(TRUE)
    /\ UNCHANGED <<cached, groups, token, alerts, scm, queued, changes, abandoned>>

ResolveNotifier ==
    /\ pc = "notifier"
    /\ IF obj.spec.notified /\ ~alerts
         THEN Goto("fail") /\ reason' = "NotifierError"
         ELSE Goto("lookup") /\ UNCHANGED reason
    /\ UNCHANGED <<scm, obj, group, found, faults, abandoned>>

Drifts(o, g) == g.visibility # o.spec.visibility

\* GetGroup, whose answer is only a check, and GetProject.
LookUp ==
    /\ pc = "lookup"
    /\ found' = [found EXCEPT !.visibility = scm[Goal].visibility]
    /\ Goto(IF ~scm[Goal].exists THEN "create"
            ELSE IF Drifts(obj, scm[Goal]) THEN "update" ELSE "stamp")
    /\ UNCHANGED <<scm, obj, group, reason, faults, abandoned>>

\* ReconcileProject announces what it did to the Notifier and ignores the answer;
\* nobody else remembers the announcement.
Write(new) ==
    /\ scm' = [scm EXCEPT ![Goal] = new]
    /\ found' = [found EXCEPT !.visibility = obj.spec.visibility]
    /\ Goto("stamp")
    /\ UNCHANGED <<obj, group, reason, faults, abandoned>>

Created == [NotOnGitlab EXCEPT !.exists = TRUE, !.visibility = obj.spec.visibility]
Updated == [scm[Goal] EXCEPT !.visibility = obj.spec.visibility]

CreateProject == pc = "create" /\ ~scm[Goal].exists /\ Write(Created)
UpdateProject == pc = "update" /\ scm[Goal].exists /\ Write(Updated)

\* GitLab refuses or does not answer: the project vanished, or a fault, after
\* which the request may have been carried out nevertheless.
GitlabFails ==
    /\ pc \in {"lookup", "create", "update"}
    /\ \/ pc = "update" /\ ~scm[Goal].exists /\ UNCHANGED <<scm, faults>>
       \/ Fault /\ UNCHANGED scm
       \/ Fault /\ pc = "create" /\ scm' = [scm EXCEPT ![Goal] = Created]
       \/ Fault /\ pc = "update" /\ scm[Goal].exists /\ scm' = [scm EXCEPT ![Goal] = Updated]
    /\ Goto("fail") /\ reason' = "GitLabAPIError"
    /\ UNCHANGED <<obj, group, found, abandoned>>

Stamped(t) == IF scm[t].exists THEN [scm EXCEPT ![t].stamped = TRUE] ELSE scm

\* StampProject looks the project up once more, and is content if there is none.
Stamp ==
    /\ pc = "stamp"
    /\ IF obj.status.stamped
         THEN UNCHANGED <<scm, obj>>
         ELSE scm' = Stamped(Goal) /\ obj' = [obj EXCEPT !.status.stamped = TRUE]
    /\ Goto("commit")
    /\ UNCHANGED <<group, found, reason, faults, abandoned>>

\* A failure is logged, no more.
StampFails ==
    /\ pc = "stamp" /\ ~obj.status.stamped /\ Fault
    /\ scm' \in {scm, Stamped(Goal)}
    /\ Goto("commit")
    /\ UNCHANGED <<obj, group, found, reason, abandoned>>

\* A 404, of the branch or of the project, is "none yet".
GetBranchCommit ==
    /\ pc = "commit"
    /\ \/ /\ found' = [found EXCEPT !.commit = scm[Goal].head[obj.spec.branch]]
          /\ Goto("pipeline") /\ UNCHANGED <<reason, faults>>
       \/ Fault /\ Goto("fail") /\ reason' = "BranchError" /\ UNCHANGED found
    /\ UNCHANGED <<scm, obj, group, abandoned>>

GetLastPipeline ==
    /\ pc = "pipeline"
    /\ \/ /\ found' = [found EXCEPT !.pipeline = scm[Goal].last[obj.spec.branch]]
          /\ Goto("report") /\ UNCHANGED <<reason, faults>>
       \/ Fault /\ Goto("fail") /\ reason' = "PipelineError" /\ UNCHANGED found
    /\ UNCHANGED <<scm, obj, group, abandoned>>

\* What GitLab answered none of keeps its old value.
SuccessStatus(o, g, f) ==
    [o.status EXCEPT !.path = <<g, o.spec.name>>, !.visibility = f.visibility,
                     !.commit = IF f.commit # None THEN f.commit ELSE @,
                     !.pipeline = IF f.pipeline # None THEN f.pipeline ELSE @,
                     !.cond = [reason |-> "ProjectReconciled", gen |-> o.gen]]

\* updateSuccessStatus; requeued in any case, the next poll of GitLab or a retry.
UpdateStatus ==
    LET new == PatchedStatus(SuccessStatus(obj, group, found)) IN
    /\ pc = "report"
    /\ \/ cr.exists /\ cr' = new /\ UNCHANGED faults
       \/ cr.exists /\ Fault /\ cr' \in {cr, new}
       \/ ~cr.exists /\ UNCHANGED <<cr, faults>>
    /\ Finish(TRUE)
    /\ UNCHANGED <<cached, groups, token, alerts, scm, queued, changes, abandoned>>

\* finalizeProject: its errors are logged, the deletion proceeds.
Unstamped(t) == [scm EXCEPT ![t].stamped = FALSE]

FinalizeProject ==
    /\ pc = "cleanup"
    /\ \/ scm' = Unstamped(Goal) /\ UNCHANGED <<faults, abandoned>>
       \/ Fault /\ scm' \in {scm, Unstamped(Goal)} /\ abandoned' = abandoned \cup {Goal}
    /\ Goto("unfinalize")
    /\ UNCHANGED locals

\* The patch takes the finalizer from whatever bears the name by now; without it
\* a deleted resource is gone.
Unfinalized == IF cr.deleting THEN Gone(cr.gen + 1) ELSE [cr EXCEPT !.finalizer = FALSE]

RemoveFinalizer ==
    /\ pc = "unfinalize" /\ cr.exists
    /\ cr' = Unfinalized
    /\ Finish(FALSE)
    /\ UNCHANGED <<cached, groups, token, alerts, scm, queued, changes, faults, abandoned>>

RemoveFinalizerFails ==
    /\ pc = "unfinalize"
    /\ \/ ~cr.exists /\ UNCHANGED <<cr, faults>>
       \/ cr.exists /\ Fault /\ cr' \in {cr, Unfinalized}
    /\ Finish(TRUE)
    /\ UNCHANGED <<cached, groups, token, alerts, scm, queued, changes, abandoned>>

NothingToFinalize ==
    /\ pc = "done"
    /\ Finish(FALSE)
    /\ UNCHANGED <<cluster, scm, queued, changes, faults, abandoned>>

\* The operator restarts: the informers replay a create for everything there is.
Crash ==
    /\ Fault
    /\ pc' = "idle" /\ ResetLocals
    /\ cached' = cr
    /\ queued' = cr.exists
    /\ timer' = FALSE
    /\ UNCHANGED <<cr, groups, token, alerts, scm, changes, abandoned>>

-------------------------------------------------------------------------------
Reconcile ==
    \/ Start \/ Resolve \/ ReportFailure
    \/ AddFinalizer \/ AddFinalizerFails \/ ResolveNotifier
    \/ LookUp \/ CreateProject \/ UpdateProject \/ GitlabFails
    \/ Stamp \/ StampFails \/ GetBranchCommit \/ GetLastPipeline \/ UpdateStatus
    \/ ReportSkip \/ FinalizeProject \/ RemoveFinalizer \/ RemoveFinalizerFails
    \/ NothingToFinalize

Users ==
    \/ \E s \in Specs : CreateResource(s) \/ EditResource(s)
    \/ DeleteResource \/ ChangeToken \/ ChangeNotifier
    \/ \E g \in Groups : ChangeGroup(g)

Gitlab ==
    \E t \in Targets :
        \/ \E c \in Commits : Push(t, c)
        \/ \E b \in Branches, p \in Pipelines : RunPipeline(t, b, p)
        \/ \E v \in Visibilities : EditOnGitlab(t, v)
        \/ DropTopic(t) \/ RemoveProject(t)

Next == Reconcile \/ Users \/ Gitlab \/ SyncCache \/ Resync \/ TimerFires \/ Crash

Spec == Init /\ [][Next]_vars

\* The worker goroutine, the informers and the queue's timers keep running; users,
\* GitLab and faults owe nothing.
Fairness == WF_vars(Reconcile) /\ WF_vars(SyncCache) /\ WF_vars(TimerFires)

FairSpec == Spec /\ Fairness
-------------------------------------------------------------------------------
(* Properties.                                                               *)

SpecType   == [group : Groups, name : Names, visibility : Visibilities, branch : Branches,
               notified : BOOLEAN]
StatusType == [path : Targets \cup {None}, visibility : Visibilities \cup {None},
               commit : Commits \cup {None}, pipeline : Pipelines \cup {None},
               stamped : BOOLEAN, cond : [reason : Reasons \cup {NoReason}, gen : Nat]]
Resource   == [exists : BOOLEAN, gen : Nat, deleting : BOOLEAN, finalizer : BOOLEAN,
               spec : SpecType, status : StatusType]
GitlabType == [exists : BOOLEAN, visibility : Visibilities, stamped : BOOLEAN,
                 head : [Branches -> Commits \cup {None}],
                 last : [Branches -> Pipelines \cup {None}]]

Labels == {"idle", "resolve", "fail", "skip", "register", "notifier", "lookup", "create",
           "update", "stamp", "commit", "pipeline", "report", "cleanup", "unfinalize", "done"}

FoundType == [visibility : Visibilities \cup {None}, commit : Commits \cup {None},
              pipeline : Pipelines \cup {None}]

ClusterOK ==
    /\ cr \in Resource /\ cached \in Resource
    /\ groups \subseteq Groups /\ token \in BOOLEAN /\ alerts \in BOOLEAN
    /\ scm \in [Targets -> GitlabType]
    /\ queued \in BOOLEAN /\ timer \in BOOLEAN
    /\ changes \in Nat /\ faults \in Nat
    /\ abandoned \subseteq Targets

WorkerOK ==
    /\ pc \in Labels
    /\ obj \in Resource
    /\ group \in CASE pc \in {"idle", "resolve", "skip"}     -> {None}
                   [] pc \in {"fail", "unfinalize", "done"} -> Groups \cup {None}
                   [] OTHER                                 -> Groups
    /\ found \in FoundType
    /\ reason \in Reasons \cup {NoReason}

\* The variables hold what the code's types allow; once past its dependencies, the
\* worker knows its group.
TypeOK == ClusterOK /\ WorkerOK

\* NO ORPHANED STAMP.  A project that bears the operator's topic is one that a
\* resource with the cleanup finalizer answers for, unless the stamp was lost
\* sight of for a known cause: the resource was pointed elsewhere, its
\* dependencies were gone when it was deleted, or the clean-up call failed.  A
\* stale copy, a crash, a lost patch, or a deletion and a re-creation in the
\* middle of a reconcile must not leave a stamp behind: nothing would ever
\* remove it.
NoOrphanedStamp ==
    \A t \in Targets : scm[t].stamped /\ t \notin abandoned => cr.exists /\ cr.finalizer

\* SUCCESS IS GUARDED.  A resource whose condition reports success has the
\* cleanup finalizer, even if the report was computed from a stale copy, for a
\* resource of the same name deleted and created again meanwhile, or written
\* twice: otherwise it can be deleted without its cleanup.
SuccessIsGuarded == cr.status.cond.reason = "ProjectReconciled" => cr.finalizer

\* The inductive strengthening of NoOrphanedStamp.  A resource is without the
\* finalizer, then kept by it, then dying, then gone; the cache is behind on that
\* way but never so far that a kept copy stands for a resource without finalizer,
\* or a dying copy for a kept one.  What the worker is about to stamp is the
\* stored spec's target or nobody's, and what it is about to clean up is the
\* dying resource's.
WellFormed(r) == (r.finalizer => r.exists) /\ (r.deleting => r.finalizer)

Kept(r) == r.finalizer /\ ~r.deleting

InDeletion == pc \in {"skip", "cleanup", "unfinalize", "done"} \/ (pc = "resolve" /\ obj.deleting)

AtGitlab ==
    pc \in {"notifier", "lookup", "create", "update", "stamp", "commit", "pipeline", "report"}

\* The target t of a copy is that of the stored resource, or all others are abandoned.
Aligned(t) ==
    cr.exists => t = Target(cr.spec) \/ Targets \ {Target(cr.spec)} \subseteq abandoned

SameGrave(t) == cr.deleting => t = Target(cr.spec) \/ abandoned = Targets

CacheLags ==
    /\ Kept(cached) => cr.finalizer
    /\ cached.deleting => ~Kept(cr) /\ SameGrave(Target(cached.spec))
    /\ cached.exists => Aligned(Target(cached.spec))

WorkerLags ==
    /\ InDeletion => ~Kept(cr) /\ ~Kept(cached)
    /\ AtGitlab \/ (pc = "resolve" /\ Kept(obj)) => cr.finalizer
    /\ AtGitlab \/ pc = "register" \/ (pc = "resolve" /\ ~obj.deleting) =>
           (cached.deleting => cr.deleting)
    /\ pc = "resolve" => Aligned(Target(obj.spec))
    /\ AtGitlab \/ pc = "register" => Aligned(Goal)
    /\ (pc = "resolve" /\ obj.deleting) \/ pc = "skip" => SameGrave(Target(obj.spec))
    /\ pc = "cleanup" => SameGrave(Goal)
    /\ pc = "unfinalize" /\ cr.deleting =>
           Target(cr.spec) \in abandoned \/ ~scm[Target(cr.spec)].stamped
    /\ pc \in {"fail", "skip"} => reason # "ProjectReconciled"

Claimed ==
    \A t \in Targets : scm[t].stamped /\ t \notin abandoned =>
        cr.finalizer /\ t = Target(cr.spec)

StampsAreClaimed ==
    WellFormed(cr) /\ WellFormed(cached) /\ CacheLags /\ WorkerLags /\ Claimed
        /\ SuccessIsGuarded

\* The life of the resource, and what is seen of it on GitLab.
Phase ==
    CASE ~cr.exists                                   -> "absent"
      [] cr.exists /\ ~cr.finalizer                   -> "unguarded"
      [] cr.exists /\ cr.finalizer /\ ~cr.deleting    -> "kept"
      [] cr.exists /\ cr.finalizer /\ cr.deleting     -> "dying"

Owned   == IF cr.exists THEN Target(cr.spec) ELSE None
Success == cr.status.cond.reason = "ProjectReconciled"
Stamps  == {t \in Targets : scm[t].stamped}

Contract == INSTANCE Custody WITH
    NoTarget <- None, phase <- Phase, target <- Owned, ready <- Success, stamped <- Stamps

\* CUSTODY IS KEPT.  The controller implements the abstract contract of the stamps:
\* through stale copies, lost patches, crashes and resources of the same name, finalizer,
\* stamp, report of success, cleanup and removal follow each other in the order they
\* must; above all, no reconcile of a dying resource takes the finalizer from the one
\* created after it.
CustodyIsKept == Contract!Spec

\* DELETION COMPLETES, whether or not the group, the Secret and GitLab are there.
DeletionCompletes == cr.deleting ~> ~cr.deleting

\* THE RESOURCE CONVERGES.  Left alone, the GitLab project ends up as the spec
\* wants it, stamped, guarded by the finalizer and faithfully reported, whatever
\* was lost, stale or changed behind the operator's back; or the condition ends
\* up naming the missing dependency.
Wanted == cr.exists /\ ~cr.deleting

Ready(t) ==
    /\ cr.finalizer
    /\ scm[t].exists /\ scm[t].stamped /\ scm[t].visibility = cr.spec.visibility
    /\ cr.status.path = t /\ cr.status.visibility = cr.spec.visibility
    /\ scm[t].head[cr.spec.branch] \in {None, cr.status.commit}
    /\ scm[t].last[cr.spec.branch] \in {None, cr.status.pipeline}

Verdict ==
    CASE cr.spec.group \notin groups -> "ParentGroupNotFound"
      [] cr.spec.group \in groups /\ ~token -> "NoToken"
      [] cr.spec.group \in groups /\ token /\ cr.spec.notified /\ ~alerts -> "NotifierError"
      [] OTHER -> "ProjectReconciled"

InSync ==
    Wanted => /\ cr.status.cond = [reason |-> Verdict, gen |-> cr.gen]
              /\ Verdict = "ProjectReconciled" => Ready(Target(cr.spec))

EventuallyInSync == <>[]InSync

-------------------------------------------------------------------------------
(* What comments and the API's documentation claim, and the code does not do. *)

SaysReady == Wanted /\ cr.status.cond = [reason |-> "ProjectReconciled", gen |-> cr.gen]

\* config/crd/bases: observedGeneration is the generation "that the condition was
\* set based upon".  So a Ready condition of the current generation is about the
\* project the current spec names.
ReadyIsAboutTheSpec == SaysReady => cr.status.path = Target(cr.spec)

\* api/v1alpha1/gitlabproject_types.go:56, "Last commit on the tracked branch".
CommitIsOfTheBranch ==
    SaysReady /\ cr.status.commit # None => BranchOf[cr.status.commit] = cr.spec.branch
===============================================================================
