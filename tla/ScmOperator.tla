----------------------------- MODULE ScmOperator -----------------------------
(***************************************************************************)
(* The operator as it runs: the GitlabProject controller and the Notifier  *)
(* controller in one process, with one API server and one set of           *)
(* informers.  A push on GitLab is polled by the first, reported in the    *)
(* GitlabProject's status, handed by the informer to the second, and sent. *)
(* The first in turn needs the Notifier that the second serves.  Users are *)
(* quiet here: what they may do meanwhile is in the modules of the parts.  *)
(***************************************************************************)
EXTENDS Naturals, Sequences, Admission

CONSTANTS
    Name,          \* the name of the GitlabProject resource
    Groups, ProjectNames, Branches, Commits, PipelineIds, Statuses, None,
    BranchOf, CommitTime,
    CreatedAt,     \* the instant the resource is created, whenever it exists
    ProjectSpecs, NotifierSpecs,
    MaxChanges, MaxFaults

ASSUME OperatorAssumption ==
    /\ None \notin Groups \cup Commits \cup (PipelineIds \X Statuses) \cup {Name}
    /\ PipelineIds \subseteq Nat \ {0} /\ "" \notin Statuses
    /\ BranchOf \in [Commits -> Branches] /\ CommitTime \in [Commits -> Nat]
    /\ CreatedAt \in Nat \ {0}
    /\ ProjectSpecs # {}
    /\ ProjectSpecs \subseteq [group : Groups, name : ProjectNames, branch : Branches,
                              visibility : {"", "private", "public"}, notified : BOOLEAN]
    /\ NotifierSpecs \subseteq [events : SUBSET ValidEvents, providers : SUBSET Providers]
    /\ MaxChanges \in Nat /\ MaxFaults \in Nat

VARIABLES
    (* API server, GitLab, and the informers' copies *)
    cr, crCopy, groups, token, notifier,
    notifierCopy,  \* as far as its spec: nobody edits the Notifier, and nothing else is read
    webhook, scm,
    (* the GitlabProject controller *)
    pQueued, pTimer, pPc, obj, group, found, reason, abandoned,
    (* the Notifier controller *)
    nQueued, nTimer, nPc, base, mem, verdict, snap, todo, cur, toSend,
    delivered, seeded, lastSent, dups, swaps, panicked,
    (* bounds *)
    changes, faults,
    (* history *)
    pushes  \* <<target, commit>> in the order they were pushed

pVars == <<pQueued, pTimer, pPc, obj, group, found, reason, abandoned>>
nVars == <<nQueued, nTimer, nPc, base, mem, verdict, snap, todo, cur, toSend,
           delivered, seeded, lastSent, dups, swaps, panicked>>
vars  == <<cr, crCopy, groups, token, notifier, notifierCopy, webhook, scm, pVars, nVars,
           changes, faults, pushes>>

-------------------------------------------------------------------------------
(* What each controller sees of the other's resource.                        *)

\* What the Notifier controller makes of a GitlabProject, ...
Listed(r) ==
    IF r.exists
      THEN [created |-> CreatedAt, linked |-> r.spec.notified,
            obs |-> LET run == r.status.pipeline IN
                    [sha    |-> r.status.commit,
                     id     |-> IF run = None THEN 0 ELSE run[1],
                     status |-> IF run = None THEN "" ELSE run[2]]]
      ELSE [created |-> 0, linked |-> FALSE, obs |-> [sha |-> None, id |-> 0, status |-> ""]]

\* ... and what it lists: the informer's copy of the one resource.
Listing == [p \in {Name} |-> Listed(crCopy)]

N == INSTANCE Notifier WITH
    Projects <- {Name}, Shas <- Commits, NoSha <- None, NoCur <- None,
    CreationTimes <- {CreatedAt}, Specs <- NotifierSpecs,
    project <- Listing, cached <- notifierCopy, secret <- webhook,
    queued <- nQueued, timer <- nTimer, pc <- nPc

\* A Notifier without an adapter is no obstacle; one whose adapter lacks its URL is.
NotifierResolves ==
    notifierCopy.exists /\ (N!Adapters(notifierCopy.spec) # {} => webhook)

P == INSTANCE GitlabProject WITH
    Names <- ProjectNames, Pipelines <- PipelineIds \X Statuses, Specs <- ProjectSpecs,
    cached <- crCopy, alerts <- NotifierResolves,
    queued <- pQueued, timer <- pTimer, pc <- pPc

\* The operator has got as far as the cleanup finalizer, all it needs is there, and
\* the project on GitLab has no commit yet.
Init ==
    /\ \E s \in ProjectSpecs : cr = [P!Fresh(s, 1) EXCEPT !.finalizer = TRUE]
    /\ crCopy = cr /\ groups = Groups /\ token = TRUE
    /\ \E s \in NotifierSpecs : ValidateNotifier(s) /\ notifier = N!Fresh(s, 1)
    /\ notifierCopy = notifier /\ webhook = TRUE
    /\ scm = [t \in P!Targets |-> [P!NotOnGitlab EXCEPT !.exists = TRUE]]
    /\ pQueued = TRUE /\ pTimer = FALSE /\ pPc = "idle" /\ obj = P!Gone(0) /\ group = None
    /\ found = P!NothingFound /\ reason = P!NoReason /\ abandoned = {}
    /\ nQueued = TRUE /\ nTimer = FALSE /\ nPc = "idle" /\ base = N!Absent
    /\ mem = N!Absent.states /\ verdict = N!NoVerdict
    /\ snap = [p \in {Name} |-> N!NoProject] /\ todo = {} /\ cur = None /\ toSend = <<>>
    /\ delivered = [p \in {Name} |-> {}] /\ seeded = [p \in {Name} |-> {}]
    /\ lastSent = [p \in {Name} |-> N!Nothing]
    /\ dups = [p \in {Name} |-> [commit |-> 0, pipeline |-> 0]]
    /\ swaps = 0 /\ panicked = FALSE
    /\ changes = 0 /\ faults = 0 /\ pushes = <<>>

-------------------------------------------------------------------------------
(* Steps.                                                                    *)

\* mapProjectToNotifier: any event on a resource that names the Notifier, before it or
\* after, the ones of its status included.
Notifies == crCopy' # crCopy /\ (crCopy.spec.notified \/ crCopy'.spec.notified)

\* A step on the project's side reaches the Notifier controller through its queue.
ProjectSide(step) ==
    /\ UNCHANGED <<notifier, notifierCopy, webhook, nTimer, nPc, base, mem, verdict, snap, todo,
                   cur, toSend, delivered, seeded, lastSent, dups, swaps, panicked>>
    /\ step
    /\ nQueued' = (nQueued \/ Notifies)

NotifierSide(step) ==
    /\ UNCHANGED <<cr, crCopy, groups, token, scm, pVars, pushes>>
    /\ step

ProjectReconcile == ProjectSide(P!Reconcile) /\ UNCHANGED pushes
ProjectInformer  == ProjectSide(P!SyncCache) /\ UNCHANGED pushes
ProjectTimer     == ProjectSide(P!TimerFires) /\ UNCHANGED pushes

\* Of all that users and GitLab may change, the only thing that makes news.
GitlabPush ==
    \E t \in P!Targets, c \in Commits :
        /\ ProjectSide(P!Push(t, c))
        /\ pushes' = Append(pushes, <<t, c>>)

NotifierReconcile == NotifierSide(N!Reconcile)
NotifierTimer     == NotifierSide(N!TimerFires)
NotifierResync    == NotifierSide(N!Resync)

\* One process: a crash takes both workers and all queues.
Crash ==
    /\ P!Fault
    /\ pPc' = "idle" /\ P!ResetLocals /\ nPc' = "idle" /\ N!ResetLocals
    /\ crCopy' = cr
    /\ pQueued' = cr.exists /\ nQueued' = (notifier.exists \/ cr.spec.notified)
    /\ pTimer' = FALSE /\ nTimer' = FALSE
    /\ UNCHANGED <<cr, groups, token, notifier, notifierCopy, webhook, scm, abandoned,
                   delivered, seeded, lastSent, dups, swaps, panicked, changes, pushes>>

Next ==
    \/ ProjectReconcile \/ ProjectInformer \/ ProjectTimer
    \/ NotifierReconcile \/ NotifierTimer \/ NotifierResync
    \/ GitlabPush \/ Crash

Spec == Init /\ [][Next]_vars

\* As in the two parts: the workers, the informer and the timers keep running.
Fairness ==
    /\ WF_vars(ProjectReconcile) /\ WF_vars(ProjectInformer) /\ WF_vars(ProjectTimer)
    /\ WF_vars(NotifierReconcile) /\ WF_vars(NotifierTimer) /\ WF_vars(NotifierResync)

FairSpec == Spec /\ Fairness
-------------------------------------------------------------------------------
(* Properties.                                                               *)

\* The variables hold what the types of the two parts allow.
TypeOK == P!TypeOK /\ N!TypeOK /\ pushes \in Seq(P!Targets \X Commits)

\* THE PARTS ARE SAFE TOGETHER.  What each controller guarantees against users and
\* environments of its own choosing, it guarantees when the other is its environment:
\* when commits come from a status that is patched field by field and seen through an
\* informer, and one crash takes both workers in the middle of what they do.
PartsAreSafe ==
    /\ P!NoOrphanedStamp /\ P!SuccessIsGuarded
    /\ N!NoSilentRecord /\ N!SingleWriter /\ N!DuplicatesNeedACause

\* THE PROMISE HOLDS END TO END.  The two controllers together implement the abstract
\* contract of the notification path.
DeliversEndToEnd == N!DeliversAsPromised

\* The n-th push was of commit c, to the project and branch the resource tracks.
Tracked(n, c) ==
    n \in DOMAIN pushes /\ pushes[n] = <<P!Target(cr.spec), c>> /\ BranchOf[c] = cr.spec.branch

\* THE NEWS IS IN ORDER.  When Discord hears of a commit after another one, then both
\* are of the tracked branch and it was pushed after it (or after it once more):
\* between the poll, the merge patch on a copy that lags, the informer, the Notifier's
\* own snapshot and the retries, no older state of the branch comes back as news.
NewsIsInOrder ==
    [][LET old == lastSent[Name].sha
           new == lastSent'[Name].sha
       IN  old # None /\ new \notin {old, None} =>
               \E i, j \in DOMAIN pushes : i < j /\ Tracked(i, old) /\ Tracked(j, new)]_vars

\* The inductive strengthening of NewsIsInOrder.  Nobody edits or deletes, so every copy
\* of the resource is of the one spec, and the worker is always about its target, which
\* is never created again.
AsCreated(r) == r.exists /\ r.finalizer /\ ~r.deleting /\ r.spec = cr.spec

Undisturbed ==
    /\ AsCreated(cr) /\ AsCreated(crCopy) /\ scm[P!Target(cr.spec)].exists
    /\ pPc \notin {"register", "create", "skip", "cleanup", "unfinalize", "done"}
    /\ pPc # "idle" => AsCreated(obj)
    /\ P!AtGitlab => group = cr.spec.group

\* On its way to Discord a commit passes six stages; each holds one that was pushed no
\* later than the one in the stage before it.  0 is the position of "none yet".
At(n, c) == IF c = None THEN n = 0 ELSE Tracked(n, c)

BranchHead == scm[P!Target(cr.spec)].head[cr.spec.branch]

\* What the worker found, not reported yet; what the Notifier listed, perhaps not sent yet.
InHand == pPc \in {"pipeline", "report"} /\ found.commit # None
OnTheList == nPc \in {"process", "send"}

Stages(sent, listed, copied, stored, head) ==
    /\ sent <= listed /\ listed <= copied /\ copied <= stored /\ stored <= head
    /\ At(sent, lastSent[Name].sha)
    /\ OnTheList => At(listed, snap[Name].obs.sha)
    /\ At(copied, crCopy.status.commit)
    /\ At(stored, cr.status.commit)
    /\ InHand => \E n \in stored .. head : At(n, found.commit)
    /\ At(head, BranchHead)

Positions == 0 .. Len(pushes)

CommitsAreStaged ==
    /\ Undisturbed
    /\ \E sent, listed, copied, stored, head \in Positions :
          Stages(sent, listed, copied, stored, head)

\* WHAT IS PUSHED IS ANNOUNCED.  Left alone, the users end up told of the last commit
\* on the branch their resource tracks, whatever failed, lagged or restarted on the
\* way through the two controllers.
PushAnnounced ==
    \A t \in P!Targets :
        t = P!Target(cr.spec) => N!CommitTold(Name, scm[t].head[cr.spec.branch])

EventuallyAnnounced == <>[]PushAnnounced
===============================================================================
