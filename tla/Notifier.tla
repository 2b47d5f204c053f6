------------------------------- MODULE Notifier -------------------------------
(***************************************************************************)
(* The Notifier controller: one Notifier resource, the GitlabProjects that *)
(* may reference it, and the single worker that reconciles it.  A reconcile*)
(* is split at every call that leaves the process (API server, Discord),   *)
(* so that users, the project controller, faults and a restart can fall    *)
(* between any two of them.                                                *)
(***************************************************************************)
EXTENDS NotificationService, Admission

CONSTANTS
    Projects,       \* names of GitlabProject resources
    CommitTime,     \* CommitTime[s]: the created_at of commit s
    CreationTimes,  \* the instants at which a GitlabProject may be created; 0 is "absent"
    Specs,          \* the Notifier specs users try to apply
    NoCur,          \* stands for "no project" when the worker holds none
    MaxChanges,     \* bound: changes made by users, GitLab and the project controller
    MaxFaults       \* bound: failed calls and crashes

ASSUME NotifierAssumption ==
    /\ NoCur \notin Projects
    /\ CommitTime \in [Shas -> Nat]
    /\ CreationTimes \subseteq Nat \ {0}
    /\ Specs \subseteq [events : SUBSET Events, providers : SUBSET Providers]
    /\ MaxChanges \in Nat /\ MaxFaults \in Nat

VARIABLES
    (* API server and informers *)
    project,   \* what the informer cache holds of each GitlabProject
    notifier,  \* the stored Notifier
    cached,    \* the informer's copy of it
    secret,    \* does the webhook secret hold a URL?
    (* work queue: one key *)
    queued, timer,
    (* the worker *)
    pc, base, mem, verdict, snap, todo, cur, toSend,
    (* bounds *)
    changes, faults,
    (* history *)
    delivered,  \* what Discord received, per project
    seeded,     \* <<observation, creation time>> pairs recorded without a message
    lastSent,   \* the last commit and the last pipeline state Discord received
    dups,       \* messages that repeated lastSent, per project
    swaps,      \* Notifiers created while the worker still reconciled a former one
    panicked

cluster == <<project, notifier, cached, secret>>
queue   == <<queued, timer>>
locals  == <<base, mem, verdict, snap, todo, cur, toSend>>
history == <<delivered, seeded, lastSent, dups, swaps, panicked>>
vars    == <<cluster, queue, pc, locals, changes, faults, history>>

Verdicts  == {"ProviderError", "HealthCheckFailed", "NoProjects", "Active"}
NoVerdict == "none"

\* metadata.generation, bumped as well by create and delete: a change of gen is
\* exactly what passes GenerationChangedPredicate.
Absent == [exists |-> FALSE, gen |-> 0, spec |-> [events |-> {}, providers |-> {}],
           states |-> [p \in Projects |-> Nothing],
           cond |-> [reason |-> NoVerdict, gen |-> 0]]

Fresh(spec, gen) == [Absent EXCEPT !.exists = TRUE, !.gen = gen, !.spec = spec]

NoProject == [created |-> 0, linked |-> FALSE, obs |-> Nothing]

NewProjects == [created : CreationTimes, linked : BOOLEAN, obs : {Nothing}]

\* Between two reconciles the worker holds nothing.
ResetLocals ==
    /\ base' = Absent /\ mem' = Absent.states /\ verdict' = NoVerdict
    /\ snap' = [p \in Projects |-> NoProject] /\ todo' = {} /\ cur' = NoCur /\ toSend' = <<>>

\* What the informers enqueue when the operator starts.
Backlog == notifier.exists \/ \E p \in Projects : project[p].linked

\* The operator is installed: it has reported nothing yet, the resources may exist.
Init ==
    /\ project \in [Projects -> NewProjects \cup {NoProject}]
    /\ \/ notifier = Absent
       \/ \E s \in Specs : ValidateNotifier(s) /\ notifier = Fresh(s, 1)
    /\ cached = notifier
    /\ secret \in BOOLEAN
    /\ queued = Backlog /\ timer = FALSE
    /\ pc = "idle" /\ base = Absent /\ mem = Absent.states /\ verdict = NoVerdict
    /\ snap = [p \in Projects |-> NoProject] /\ todo = {} /\ cur = NoCur /\ toSend = <<>>
    /\ changes = 0 /\ faults = 0
    /\ delivered = [p \in Projects |-> {}] /\ seeded = [p \in Projects |-> {}]
    /\ lastSent = [p \in Projects |-> Nothing]
    /\ dups = [p \in Projects |-> [commit |-> 0, pipeline |-> 0]]
    /\ swaps = 0 /\ panicked = FALSE

-------------------------------------------------------------------------------
(* The rest of the cluster.                                                  *)

Change == changes < MaxChanges /\ changes' = changes + 1

Fault == faults < MaxFaults /\ faults' = faults + 1

\* An event on a GitlabProject enqueues the Notifier it references, before or
\* after the event (mapProjectToNotifier runs on the old and the new object).
ProjectEvent(p, new) ==
    /\ Change
    /\ project' = [project EXCEPT ![p] = new]
    /\ queued' = (queued \/ project[p].linked \/ new.linked)
    /\ UNCHANGED <<notifier, cached, secret, timer, pc, locals, faults, history>>

CreateProject(p) ==
    /\ project[p].created = 0
    /\ \E new \in NewProjects : ProjectEvent(p, new)

DeleteProject(p) ==
    /\ project[p].created # 0
    /\ ProjectEvent(p, NoProject)

SetNotifierRef(p) ==
    /\ project[p].created # 0
    /\ ProjectEvent(p, [project[p] EXCEPT !.linked = ~@])

\* The project controller wrote a new status.  It replaces the commit and the
\* pipeline it found and keeps the old ones where GitLab answered none.
ReportStatus(p) ==
    \E o \in Observation :
        /\ project[p].created # 0
        /\ o # project[p].obs
        /\ (o.id = 0) <=> (o.status = "")
        /\ project[p].obs.sha # NoSha => o.sha # NoSha
        /\ project[p].obs.id # 0 => o.id # 0
        /\ ProjectEvent(p, [project[p] EXCEPT !.obs = o])

NotifierEvent(new) ==
    /\ Change
    /\ notifier' = new
    /\ UNCHANGED <<project, cached, secret, queue, pc, locals, faults>>

CreateNotifier(spec) ==
    /\ ~notifier.exists
    /\ ValidateNotifier(spec)
    /\ NotifierEvent(Fresh(spec, notifier.gen + 1))
    /\ lastSent' = [p \in Projects |-> Nothing]
    /\ swaps' = IF pc = "idle" THEN swaps ELSE swaps + 1
    /\ UNCHANGED <<delivered, seeded, dups, panicked>>

EditNotifier(spec) ==
    /\ notifier.exists /\ spec # notifier.spec
    /\ ValidateNotifier(spec)
    /\ NotifierEvent([notifier EXCEPT !.gen = @ + 1, !.spec = spec])
    /\ UNCHANGED history

DeleteNotifier ==
    /\ notifier.exists
    /\ NotifierEvent([Absent EXCEPT !.gen = notifier.gen + 1])
    /\ UNCHANGED history

ChangeSecret ==
    /\ Change
    /\ secret' = ~secret
    /\ UNCHANGED <<project, notifier, cached, queue, pc, locals, faults, history>>

\* The informer catches up; its event handler enqueues what the predicate lets through.
SyncCache ==
    /\ cached # notifier
    /\ cached' = notifier
    /\ queued' = (queued \/ cached.gen # notifier.gen)
    /\ UNCHANGED <<project, notifier, secret, timer, pc, locals, changes, faults, history>>

\* The informer's periodic resync replays an update of every GitlabProject.
Resync ==
    /\ ~queued
    /\ \E p \in Projects : project[p].linked
    /\ queued' = TRUE
    /\ UNCHANGED <<cluster, timer, pc, locals, changes, faults, history>>

\* RequeueAfter, or the rate limiter after an error, has run out.
TimerFires ==
    /\ timer
    /\ queued' = TRUE /\ timer' = FALSE
    /\ UNCHANGED <<cluster, pc, locals, changes, faults, history>>

-------------------------------------------------------------------------------
(* The reconcile.                                                            *)

\* A broken variant, for the mutation runs: the read goes through the informer.
CachedNotifier == cached

\* The Notifier is read from the API server itself, not from the cache.
GetNotifier == notifier

\* The adapters resolveNotifierAdapters can build: Slack and Telegram have none.
Adapters(spec) == spec.providers \cap {"discord"}

Start ==
    /\ pc = "idle" /\ queued
    /\ queued' = FALSE
    /\ IF GetNotifier.exists
         THEN /\ pc' = "resolve" /\ base' = GetNotifier /\ mem' = GetNotifier.states
              /\ UNCHANGED <<verdict, snap, todo, cur, toSend>>
         ELSE UNCHANGED <<pc, locals>>
    /\ UNCHANGED <<cluster, timer, changes, faults, history>>

\* The reconcile ends; a requeue is a timer.
Finish(requeue) ==
    /\ pc' = "idle"
    /\ timer' = (timer \/ requeue)
    /\ ResetLocals

\* The API server does not answer: retried, and there is no resource to report it on.
GetFails ==
    /\ pc = "idle" /\ queued /\ Fault
    /\ queued' = FALSE
    /\ Finish(TRUE)
    /\ UNCHANGED <<cluster, changes, history>>

\* A step of the worker that calls nothing: it only moves on.
Goto(label) ==
    /\ pc' = label
    /\ UNCHANGED <<cluster, queue, base, mem, snap, todo, cur, toSend, changes, history>>

ResolveProviders ==
    /\ pc = "resolve"
    /\ IF Adapters(base.spec) # {} /\ ~secret
         THEN Goto("patch") /\ verdict' = "ProviderError"
         ELSE Goto("health") /\ UNCHANGED verdict
    /\ UNCHANGED faults

HealthCheck ==
    /\ pc = "health"
    /\ \/ Goto("list") /\ UNCHANGED <<verdict, faults>>
       \/ Adapters(base.spec) # {} /\ Fault /\ Goto("patch") /\ verdict' = "HealthCheckFailed"

FindLinkedProjects ==
    /\ pc = "list"
    /\ snap' = project
    /\ todo' = {p \in Projects : project[p].linked}
    /\ pc' = IF todo' = {} THEN "patch" ELSE "process"
    /\ verdict' = IF todo' = {} THEN "NoProjects" ELSE "Active"
    /\ UNCHANGED <<cluster, queue, base, mem, cur, toSend, changes, faults, history>>

\* Listing failed: logged, retried later, no condition written.
ListFails ==
    /\ pc = "list" /\ Fault
    /\ Finish(TRUE)
    /\ UNCHANGED <<cluster, queued, changes, history>>

\* A broken variant: half an observation is taken for none.
HalfReconciled(p) == snap[p].obs.id = 0 \/ snap[p].obs.sha = NoSha

\* processProject, its early returns first.
Unreconciled(p) == snap[p].obs.id = 0 /\ snap[p].obs.sha = NoSha

FirstSeen(p) == mem[p] = Nothing

\* time.Parse of an empty created_at fails: without a commit there is no date.
Undated(p) == FirstSeen(p) /\ snap[p].obs.sha = NoSha

\* A broken variant: whatever is there at first sight is taken for old.
AlwaysPredates(p) == FirstSeen(p) /\ snap[p].obs.sha # NoSha

Predates(p) ==
    /\ FirstSeen(p)
    /\ snap[p].obs.sha # NoSha
    /\ CommitTime[snap[p].obs.sha] < snap[p].created

EventsOf(p) == DetectEvents(base.spec.events, snap[p].obs, mem[p])

NextState(p) == Detected(base.spec.events, snap[p].obs, mem[p])

Processing(p) == pc = "process" /\ p \in todo

SkipProject(p) ==
    /\ Processing(p)
    /\ \/ Unreconciled(p)
       \/ Undated(p)
       \/ ~Undated(p) /\ ~Predates(p) /\ Adapters(base.spec) # {} /\ EventsOf(p) = <<>>
    /\ todo' = todo \ {p}
    /\ UNCHANGED <<cluster, queue, pc, base, mem, verdict, snap, cur, toSend, changes, faults,
                   history>>

SeedProject(p) ==
    /\ Processing(p) /\ ~Unreconciled(p) /\ Predates(p)
    /\ mem' = [mem EXCEPT ![p] = snap[p].obs]
    /\ todo' = todo \ {p}
    /\ seeded' = [seeded EXCEPT ![p] = @ \cup {<<snap[p].obs, snap[p].created>>}]
    /\ UNCHANGED <<cluster, queue, pc, base, verdict, snap, cur, toSend, changes, faults,
                   delivered, lastSent, dups, swaps, panicked>>

\* The code reaches for notifiers[0] before it knows that there is one.
Detecting(p) ==
    Processing(p) /\ ~Unreconciled(p) /\ ~Undated(p) /\ ~Predates(p)

\* Controller-runtime recovers the panic into an error: nothing is written, the
\* rate limiter retries.
Panic(p) ==
    /\ Detecting(p) /\ Adapters(base.spec) = {}
    /\ panicked' = TRUE
    /\ Finish(TRUE)
    /\ UNCHANGED <<cluster, queued, changes, faults, delivered, seeded, lastSent, dups, swaps>>

DetectProject(p) ==
    /\ Detecting(p) /\ Adapters(base.spec) # {} /\ EventsOf(p) # <<>>
    /\ cur' = p /\ toSend' = EventsOf(p)
    /\ pc' = "send"
    /\ UNCHANGED <<cluster, queue, base, mem, verdict, snap, todo, changes, faults, history>>

\* Discord received the message for the event at the head of the batch.
IsCommit == Head(toSend) = "new_commit"

Message == IF IsCommit THEN snap[cur].obs.sha ELSE <<snap[cur].obs.id, snap[cur].obs.status>>

Repeats ==
    IF IsCommit THEN lastSent[cur].sha = snap[cur].obs.sha
                ELSE /\ lastSent[cur].id = snap[cur].obs.id
                     /\ lastSent[cur].status = snap[cur].obs.status

Received ==
    /\ delivered' = [delivered EXCEPT ![cur] = @ \cup {Message}]
    /\ dups' = IF ~Repeats THEN dups
               ELSE IF IsCommit THEN [dups EXCEPT ![cur].commit = @ + 1]
                                ELSE [dups EXCEPT ![cur].pipeline = @ + 1]
    /\ lastSent' = IF IsCommit THEN [lastSent EXCEPT ![cur].sha = snap[cur].obs.sha]
                   ELSE [lastSent EXCEPT ![cur].id = snap[cur].obs.id,
                                         ![cur].status = snap[cur].obs.status]
    /\ UNCHANGED <<seeded, swaps, panicked>>

\* A broken variant: the loop variable outlives the iteration.
KeepsProject == pc' = "process" /\ todo' = todo \ {cur} /\ cur' = cur /\ toSend' = <<>>

\* The project is done with: on to the next one.
NextProject == pc' = "process" /\ todo' = todo \ {cur} /\ cur' = NoCur /\ toSend' = <<>>

SendOk ==
    /\ pc = "send"
    /\ Received
    /\ IF Len(toSend) > 1
         THEN toSend' = Tail(toSend) /\ UNCHANGED <<pc, mem, todo, cur>>
         ELSE NextProject /\ mem' = [mem EXCEPT ![cur] = NextState(cur)]
    /\ UNCHANGED <<cluster, queue, base, verdict, snap, changes, faults>>

\* A broken variant: the error of Send is logged and the new state recorded.
RecordsAnyway ==
    /\ pc = "send" /\ Fault
    /\ Received \/ UNCHANGED history
    /\ NextProject
    /\ mem' = [mem EXCEPT ![cur] = NextState(cur)]
    /\ UNCHANGED <<cluster, queue, base, verdict, snap, changes>>

\* processProject returns the error before it records the new state, whether or
\* not Discord had accepted the request.
SendFails ==
    /\ pc = "send" /\ Fault
    /\ Received \/ UNCHANGED history
    /\ NextProject
    /\ UNCHANGED <<cluster, queue, base, mem, verdict, snap, changes>>

\* client.MergeFrom: only what differs from the copy read is sent, and the rest
\* of the stored object stays.
Merged(old, new, live) == IF new # old THEN new ELSE live

MergeState(old, new, live) ==
    [sha    |-> Merged(old.sha, new.sha, live.sha),
     id     |-> Merged(old.id, new.id, live.id),
     status |-> Merged(old.status, new.status, live.status)]

\* A broken variant: the copy to compare with is taken after the projects were processed.
ConditionOnly == [notifier EXCEPT !.cond = [reason |-> verdict, gen |-> base.gen]]

Patched ==
    [notifier EXCEPT
        !.states = [p \in Projects |-> MergeState(base.states[p], mem[p], notifier.states[p])],
        !.cond = Merged(base.cond, [reason |-> verdict, gen |-> base.gen], notifier.cond)]

AtPatch == pc = "patch" \/ (pc = "process" /\ todo = {})

\* A broken variant: a reconcile that wrote its condition is content.
NeverRequeues == FALSE

\* The result asks for a requeue on every path but the one that ran the whole loop.
Requeues == verdict # "Active"

PatchOk ==
    /\ AtPatch /\ notifier.exists
    /\ notifier' = Patched
    /\ Finish(Requeues)
    /\ UNCHANGED <<project, cached, secret, queued, changes, faults, history>>

\* An error result: the resource is gone, or the call failed, applied or not.
PatchFails ==
    /\ AtPatch
    /\ \/ ~notifier.exists /\ UNCHANGED <<notifier, faults>>
       \/ notifier.exists /\ Fault /\ notifier' \in {notifier, Patched}
    /\ Finish(TRUE)
    /\ UNCHANGED <<project, cached, secret, queued, changes, history>>

\* The operator restarts: the informers replay a create for everything there is.
Crash ==
    /\ Fault
    /\ pc' = "idle" /\ ResetLocals
    /\ cached' = notifier
    /\ queued' = Backlog
    /\ timer' = FALSE
    /\ UNCHANGED <<project, notifier, secret, changes, history>>

-------------------------------------------------------------------------------
Reconcile ==
    \/ Start \/ GetFails \/ ResolveProviders \/ HealthCheck \/ FindLinkedProjects \/ ListFails
    \/ \E p \in Projects : SkipProject(p) \/ SeedProject(p) \/ Panic(p) \/ DetectProject(p)
    \/ SendOk \/ SendFails \/ PatchOk \/ PatchFails

Cluster ==
    \/ \E p \in Projects :
          CreateProject(p) \/ DeleteProject(p) \/ SetNotifierRef(p) \/ ReportStatus(p)
    \/ \E s \in Specs : CreateNotifier(s) \/ EditNotifier(s)
    \/ DeleteNotifier \/ ChangeSecret

Next == Reconcile \/ Cluster \/ SyncCache \/ Resync \/ TimerFires \/ Crash

Spec == Init /\ [][Next]_vars

\* The worker goroutine, the informers and the queue's timers keep running; users,
\* GitLab and faults owe nothing.
Fairness ==
    WF_vars(Reconcile) /\ WF_vars(SyncCache) /\ WF_vars(Resync) /\ WF_vars(TimerFires)

FairSpec == Spec /\ Fairness
-------------------------------------------------------------------------------
(* Properties.                                                               *)

Record == [exists : BOOLEAN, gen : Nat,
           spec   : [events : SUBSET Events, providers : SUBSET Providers],
           states : [Projects -> Observation],
           cond   : [reason : Verdicts \cup {NoVerdict}, gen : Nat]]

Seen == [created : CreationTimes \cup {0}, linked : BOOLEAN, obs : Observation]

PipelineStates == (PipelineIds \cup {0}) \X (Statuses \cup {""})

ClusterOK ==
    /\ project \in [Projects -> Seen]
    /\ notifier \in Record /\ cached \in Record
    /\ secret \in BOOLEAN
    /\ queued \in BOOLEAN /\ timer \in BOOLEAN
    /\ changes \in Nat /\ faults \in Nat

WorkerOK ==
    /\ pc \in {"idle", "resolve", "health", "list", "process", "send", "patch"}
    /\ base \in Record
    /\ mem \in [Projects -> Observation]
    /\ verdict \in Verdicts \cup {NoVerdict}
    /\ snap \in [Projects -> Seen]
    /\ todo \subseteq Projects
    /\ cur \in IF pc = "send" THEN Projects ELSE {NoCur}
    /\ toSend \in Seq(Events)

HistoryOK ==
    /\ delivered \in [Projects -> SUBSET (Shas \cup {NoSha} \cup PipelineStates)]
    /\ seeded \in [Projects -> SUBSET (Observation \X (CreationTimes \cup {0}))]
    /\ lastSent \in [Projects -> Observation]
    /\ dups \in [Projects -> [commit : Nat, pipeline : Nat]]
    /\ swaps \in Nat
    /\ panicked \in BOOLEAN

\* The variables hold what the code's types allow; a current project exactly
\* while its messages are sent.
TypeOK == ClusterOK /\ WorkerOK /\ HistoryOK

\* A commit, or a pipeline in a status, that project p's users were told of, or
\* that was recorded in silence because the commit seen with it is older than
\* the resource.
CommitTold(p, sha) ==
    \/ sha = NoSha
    \/ sha \in delivered[p]
    \/ \E e \in seeded[p] : CommitTime[e[1].sha] < e[2] /\ e[1].sha = sha

PipelineTold(p, id, status) ==
    \/ id = 0 \/ status = ""
    \/ <<id, status>> \in delivered[p]
    \/ \E e \in seeded[p] : CommitTime[e[1].sha] < e[2] /\ e[1].id = id /\ e[1].status = status

Told(p, state) == CommitTold(p, state.sha) /\ PipelineTold(p, state.id, state.status)

\* NO SILENT RECORD.  What status.projectStates calls "last notified" was
\* accepted by Discord, or was seeded by processProject for a commit that
\* predates the GitlabProject.  A failed Send, a crash, a lost patch, a Notifier
\* deleted and created again or a stale read must not record an event that
\* nobody received: it would never be sent again.
NoSilentRecord == \A p \in Projects : Told(p, notifier.states[p])

\* SINGLE WRITER.  From its Get to its Patch, a reconcile's copy of projectStates
\* is the stored one, unless the Notifier was deleted meanwhile (the stored one is
\* then empty): the merge patch at the end never overwrites a record it has not seen.
SingleWriter ==
    pc # "idle" => \A p \in Projects : notifier.states[p] \in {base.states[p], Nothing}

\* The inductive strengthening of NoSilentRecord: the worker's two copies are as
\* truthful as the stored record, nobody else wrote it meanwhile, and while a
\* batch is being sent, what is no longer in it was delivered.
Sending ==
    pc = "send" =>
        /\ toSend # <<>>
        /\ \/ toSend = EventsOf(cur)
           \/ /\ Len(EventsOf(cur)) = 2 /\ toSend = Tail(EventsOf(cur))
              /\ snap[cur].obs.sha \in delivered[cur]

TruthfulCopies == \A p \in Projects : Told(p, base.states[p]) /\ Told(p, mem[p])

RecordIsTruthful == NoSilentRecord /\ SingleWriter /\ TruthfulCopies /\ Sending

\* DUPLICATES NEED A CAUSE.  A commit or a pipeline state is sent twice running
\* only as often as a call failed, the operator restarted, or the Notifier was
\* replaced under a running reconcile (whose merge patch then leaves a record of
\* mixed fields on the new one): in particular a queued event, a stale informer,
\* an edit of the subscriptions or a project deleted and created again never
\* repeats the last message.
DuplicatesNeedACause ==
    \A p \in Projects :
        dups[p].commit <= faults + swaps /\ dups[p].pipeline <= faults + swaps

\* The inductive strengthening of DuplicatesNeedACause: a cause is kept in reserve
\* for a last message that the record does not know of, since it will come once
\* more, and for a Notifier replaced under the running reconcile, whose patch will
\* leave such a record.  What counts as the record is what the next batch will be
\* compared with; a reconcile without adapters sends nothing and may panic, which
\* throws its working copy away.
Memory(p) ==
    CASE pc = "idle" -> notifier.states[p]
      [] pc # "idle" /\ Adapters(base.spec) = {} -> base.states[p]
      [] pc = "send" /\ cur = p /\ Adapters(base.spec) # {} /\ toSend # EventsOf(p) ->
             [mem[p] EXCEPT !.sha = snap[p].obs.sha]
      [] OTHER -> mem[p]

InUse == pc # "idle" \/ notifier.exists

CommitForgotten(p) == InUse /\ lastSent[p].sha \notin {NoSha, Memory(p).sha}

PipelineForgotten(p) ==
    /\ InUse /\ lastSent[p].id # 0
    /\ lastSent[p].id # Memory(p).id \/ lastSent[p].status # Memory(p).status

Swapped(p) == pc # "idle" /\ notifier.exists /\ notifier.states[p] # base.states[p]

Count(b) == IF b THEN 1 ELSE 0

RepeatsAccounted ==
    \A p \in Projects :
        /\ dups[p].commit + Count(CommitForgotten(p)) + Count(Swapped(p)) <= faults + swaps
        /\ dups[p].pipeline + Count(PipelineForgotten(p)) + Count(Swapped(p)) <= faults + swaps

WithoutAdapters ==
    pc # "idle" /\ Adapters(base.spec) = {} =>
        pc # "send" /\ \A p \in Projects : base.states[p] \in {mem[p], Nothing}

RepeatsHaveCauses == RepeatsAccounted /\ WithoutAdapters

\* EVERYTHING SUBSCRIBED IS EVENTUALLY SENT.  When users, GitLab and faults leave
\* the system alone, every linked project's last commit and last pipeline state
\* end up notified (or recorded as old), whatever was lost before: no failed
\* send, crash or missed event leaves one pending for ever, and only one early
\* return of processProject does.  That one is notifier_helpers.go:48-51: a
\* project the record does not know, with a pipeline and no commit to date it by,
\* is an error in every reconcile (EventsAreNotified below).
OnDiscord == notifier.exists /\ "discord" \in notifier.spec.providers

CannotBeDated(p) == project[p].obs.sha = NoSha /\ notifier.states[p] = Nothing

Pending(p) ==
    /\ OnDiscord /\ secret /\ project[p].linked
    /\ DetectEvents(notifier.spec.events, project[p].obs, notifier.states[p]) # <<>>

NothingPending == \A p \in Projects : Pending(p) => CannotBeDated(p)

EventuallyNotified == <>[]NothingPending

\* THE CONDITION CONVERGES.  The Ready condition ends up describing the spec's
\* current generation and the present state of its dependencies, though nothing
\* watches Secrets for the Notifier and no other event may come.
ConditionCurrent ==
    OnDiscord =>
        notifier.cond = [gen    |-> notifier.gen,
                         reason |-> CASE ~secret -> "ProviderError"
                                      [] secret /\ \A p \in Projects : ~project[p].linked
                                           -> "NoProjects"
                                      [] OTHER -> "Active"]

EventuallyConditionCurrent == <>[]ConditionCurrent

-------------------------------------------------------------------------------
(* The abstract contract.                                                    *)

\* The messages an observation stands for.
MessagesOf(state) ==
    (IF state.sha # NoSha THEN {state.sha} ELSE {})
    \cup (IF state.id # 0 /\ state.status # "" THEN {<<state.id, state.status>>} ELSE {})

OldSeeds(p) == {e \in seeded[p] : CommitTime[e[1].sha] < e[2]}

Contract == INSTANCE Delivery WITH
    Commits   <- Shas,
    Pipelines <- PipelineIds \X Statuses,
    NoLast    <- [commit |-> NoSha, pipeline |-> <<0, "">>],
    ledger    <- [p \in Projects |-> MessagesOf(notifier.states[p])],
    received  <- delivered,
    waived    <- [p \in Projects |-> UNION {MessagesOf(e[1]) : e \in OldSeeds(p)}],
    last      <- [p \in Projects |->
                     [commit   |-> lastSent[p].sha,
                      pipeline |-> <<lastSent[p].id, lastSent[p].status>>]],
    repeats   <- dups,
    causes    <- faults + swaps

\* THE CONTRACT IS KEPT.  Step by step, whatever fails, restarts, lags or is
\* replaced: a message is sent before it is remembered and never in the same step,
\* what is remembered was received or waived, and a message repeats the last one
\* only against a failure, a restart or a swap not yet used up.
DeliversAsPromised == Contract!Spec

-------------------------------------------------------------------------------
(* What comments in the code claim, and the code does not do.                *)

\* internal/controller/notifier_helpers.go:69 takes notifiers[0] for granted.
NoPanic == ~panicked

\* README.md:11, "sends notifications ... on pipeline and commit events for linked
\* projects": none that is subscribed is left out for ever.
EventsAreNotified == <>[](\A p \in Projects : ~Pending(p))

\* internal/controller/notifier_helpers.go:46, "For existing projects (commit
\* predates the CR), seed state without notifying": a message for a commit older
\* than the GitlabProject is sent only after that GitlabProject was seeded.
OldProjectsAreSeeded ==
    [][\A s \in Shas :
          /\ pc = "send" /\ s \in delivered'[cur] \ delivered[cur]
          /\ CommitTime[s] < snap[cur].created
          => \E e \in seeded[cur] : e[2] = snap[cur].created]_vars

===============================================================================
