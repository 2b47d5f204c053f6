------------------------------ MODULE GitlabGroup ------------------------------
(***************************************************************************)
(* The GitlabGroup controller: one GitlabGroup resource, whose status      *)
(* mirrors the GitLab group it names, and the single worker that           *)
(* reconciles it.  The mirror is put together from three calls to GitLab   *)
(* and written as a merge patch against a copy from the informer cache,    *)
(* which may lag; GitLab is polled, for it notifies nobody.                *)
(***************************************************************************)
EXTENDS Naturals

CONSTANTS
    Ids,         \* GitLab group IDs
    Secrets,     \* Secrets that may hold a token
    Values,      \* what a part of a group may be
    None,        \* no value: the part is not reported, the group is not there
    FirstValue,  \* FirstValue[id]: each part of group id when the operator is installed
    MaxChanges,  \* bound: changes made by users and on GitLab
    MaxFaults    \* bound: failed calls and crashes

ASSUME GroupAssumption ==
    /\ None \notin Values
    /\ Ids # {} /\ Secrets # {}
    /\ FirstValue \in [Ids -> Values]
    /\ MaxChanges \in Nat /\ MaxFaults \in Nat

VARIABLES
    (* API server and informers *)
    cr,       \* the stored GitlabGroup
    cached,   \* the informer's copy of it
    secrets,  \* what the informer holds of each Secret
    (* GitLab *)
    scm,
    (* work queue: one key *)
    queued, timer,
    (* the worker *)
    pc, obj, found, reason,
    (* bounds *)
    changes, faults,
    (* history *)
    named,    \* <<uid, generation, ID>>: the group a generation of a resource named
    answers,  \* <<uid, generation, ID, part, value>>: what GitLab answered for it
    heirs     \* resources created while a copy of a former one was still about

cluster == <<cr, cached, secrets>>
queue   == <<queued, timer>>
locals  == <<obj, found, reason>>
history == <<named, answers, heirs>>
vars    == <<cluster, scm, queue, pc, locals, changes, faults, history>>

\* The endpoints of GitLab the mirror is read from, in this order: the group itself
\* (path, URL, description, visibility and projects), its subgroups, its members.
Parts == {"details", "subgroups", "members"}

NoReason == "none"
Reasons  == {"SecretNotFound", "TokenEmpty", "GitLabAPIError", "GroupFound"}

Specs == [groupID : Ids, tokenSecretRef : Secrets]

NoSpec    == CHOOSE s \in Specs : TRUE
NoParts   == [part \in Parts |-> None]
NoStatus  == [mirror |-> NoParts, cond |-> [reason |-> NoReason, gen |-> 0]]

\* A resource of the same name bears another uid, and its generation starts anew.
Gone(uid) == [exists |-> FALSE, uid |-> uid, gen |-> 0, spec |-> NoSpec, status |-> NoStatus]

Fresh(spec, uid) == [Gone(uid) EXCEPT !.exists = TRUE, !.gen = 1, !.spec = spec]

ResetLocals == obj' = Gone(0) /\ found' = NoParts /\ reason' = NoReason

Naming(r) == <<r.uid, r.gen, r.spec.groupID>>

\* The operator comes up; nothing was reported yet.
Init ==
    /\ cr = Gone(0) \/ \E s \in Specs : cr = Fresh(s, 1)
    /\ cached = cr
    /\ secrets \in [Secrets -> {"missing", "token"}]
    /\ \E present \in SUBSET Ids :
          scm = [id \in Ids |-> IF id \in present THEN [part \in Parts |-> FirstValue[id]]
                                                 ELSE NoParts]
    /\ queued = cr.exists /\ timer = FALSE
    /\ pc = "idle" /\ obj = Gone(0) /\ found = NoParts /\ reason = NoReason
    /\ changes = 0 /\ faults = 0
    /\ named = {Naming(cr)} /\ answers = {} /\ heirs = {}

-------------------------------------------------------------------------------
(* Users, GitLab, informers.                                                 *)

Change == changes < MaxChanges /\ changes' = changes + 1

Fault == faults < MaxFaults /\ faults' = faults + 1

ResourceEvent(new) ==
    /\ Change
    /\ cr' = new
    /\ named' = named \cup {Naming(new)}
    /\ UNCHANGED <<cached, secrets, scm, queue, pc, locals, faults, answers>>

CreateResource(spec) ==
    /\ ~cr.exists
    /\ ResourceEvent(Fresh(spec, cr.uid + 1))
    /\ heirs' = IF pc = "idle" /\ ~cached.exists THEN heirs ELSE heirs \cup {cr.uid + 1}

EditResource(spec) ==
    /\ cr.exists /\ spec # cr.spec
    /\ ResourceEvent([cr EXCEPT !.gen = @ + 1, !.spec = spec])
    /\ UNCHANGED heirs

\* Nothing to clean up: there is no finalizer.
DeleteResource ==
    /\ cr.exists
    /\ Change
    /\ cr' = Gone(cr.uid)
    /\ UNCHANGED <<cached, secrets, scm, queue, pc, locals, faults, history>>

\* mapSecretToGroups.
Uses(s) == cached.exists /\ cached.spec.tokenSecretRef = s

ChangeSecret(s, content) ==
    /\ Change
    /\ secrets[s] # content
    /\ secrets' = [secrets EXCEPT ![s] = content]
    /\ queued' = (queued \/ Uses(s))
    /\ UNCHANGED <<cr, cached, scm, timer, pc, locals, faults, history>>

\* The informer of Secrets replays its updates now and then.
Resync ==
    /\ ~queued
    /\ \E s \in Secrets : Uses(s) /\ secrets[s] # "missing"
    /\ queued' = TRUE
    /\ UNCHANGED <<cluster, scm, timer, pc, locals, changes, faults, history>>

OnGitlab(id, new) ==
    /\ Change
    /\ scm[id] # new
    /\ scm' = [scm EXCEPT ![id] = new]
    /\ UNCHANGED <<cluster, queue, pc, locals, faults, history>>

EditGroup(id, part, v) == scm[id] # NoParts /\ OnGitlab(id, [scm[id] EXCEPT ![part] = v])
RemoveGroup(id)        == OnGitlab(id, NoParts)

\* GenerationChangedPredicate lets creations, deletions and new generations through.
\* When a new list shows another resource in the place of the old one, that is an
\* update to it, of the same generation perhaps.
SyncCache ==
    /\ cached # cr
    /\ cached' = cr
    /\ \/ queued' = (queued \/ cached.gen # cr.gen)
       \/ cached.uid # cr.uid /\ queued' = TRUE
    /\ UNCHANGED <<cr, secrets, scm, timer, pc, locals, changes, faults, history>>

TimerFires ==
    /\ timer
    /\ queued' = TRUE /\ timer' = FALSE
    /\ UNCHANGED <<cluster, scm, pc, locals, changes, faults, history>>

-------------------------------------------------------------------------------
(* The reconcile.                                                            *)

\* A step of the worker that writes nothing outside it.
Goto(label) ==
    /\ pc' = label
    /\ UNCHANGED <<cluster, scm, queue, obj, changes, named, heirs>>

Start ==
    /\ pc = "idle" /\ queued
    /\ queued' = FALSE
    /\ IF cached.exists THEN pc' = "resolve" /\ obj' = cached ELSE UNCHANGED <<pc, obj>>
    /\ UNCHANGED <<cluster, scm, timer, found, reason, changes, faults, history>>

Content == secrets[obj.spec.tokenSecretRef]

ResolveToken ==
    /\ pc = "resolve"
    /\ CASE Content = "missing" -> Goto("fail") /\ reason' = "SecretNotFound"
         [] Content = "empty"   -> Goto("fail") /\ reason' = "TokenEmpty"
         [] Content = "token"   -> Goto("details") /\ UNCHANGED reason
    /\ UNCHANGED <<found, faults, answers>>

\* A broken variant: one of the calls is left out.
SkipsSubgroups(part) == IF part = "details" THEN "members" ELSE "report"

NextCall(part) ==
    CASE part = "details"   -> "subgroups"
      [] part = "subgroups" -> "members"
      [] part = "members"   -> "report"

Asked == scm[obj.spec.groupID]

\* GetGroup, one request after the other, whatever happens on GitLab in between.
GetPart ==
    /\ pc \in Parts /\ Asked # NoParts
    /\ found' = [found EXCEPT ![pc] = Asked[pc]]
    /\ answers' = answers \cup {<<obj.uid, obj.gen, obj.spec.groupID, pc, Asked[pc]>>}
    /\ Goto(NextCall(pc))
    /\ UNCHANGED <<reason, faults>>

\* The group is not there, or the call fails: what was read so far is dropped.
GetPartFails ==
    /\ pc \in Parts
    /\ \/ Asked = NoParts /\ UNCHANGED faults
       \/ Fault
    /\ Goto("fail") /\ reason' = "GitLabAPIError"
    /\ UNCHANGED <<found, answers>>

\* A broken variant: success is a result like any other.
RetriesFailures == reason # NoReason

\* Every outcome asks to be called again: a failure soon, a success to poll GitLab.
Requeues == TRUE

Finish ==
    /\ pc' = "idle"
    /\ timer' = (timer \/ Requeues)
    /\ ResetLocals

\* client.MergeFrom: only what differs from the copy read is sent, and the rest
\* of the stored object stays, whichever it is by now.
Merged(old, new, live) == IF new # old THEN new ELSE live

Patched(new) ==
    [cr EXCEPT !.status =
        [mirror |-> [part \in Parts |->
                        Merged(obj.status.mirror[part], new.mirror[part], @.mirror[part])],
         cond   |-> Merged(obj.status.cond, new.cond, @.cond)]]

\* A broken variant: the condition is stamped with whatever generation is stored.
StoredGeneration(why) == [reason |-> why, gen |-> cr.gen]

Condition(why) == [reason |-> why, gen |-> obj.gen]

Success == [mirror |-> found, cond |-> Condition("GroupFound")]

\* A broken variant: the failure's condition observes no generation.
Unobserved == [obj.status EXCEPT !.cond = [reason |-> reason, gen |-> 0]]

\* setCondition leaves the mirror as it was.
Failure == [obj.status EXCEPT !.cond = Condition(reason)]

\* The patch of the status: carried out, failed, or carried out and not answered.
\* An error of updateSuccessStatus is retried, one of setCondition ignored; the
\* reconcile is repeated in either case.
PatchStatus(new) ==
    /\ \/ ~cr.exists /\ UNCHANGED <<cr, faults>>
       \/ cr.exists /\ cr' = Patched(new) /\ UNCHANGED faults
       \/ cr.exists /\ Fault /\ cr' \in {cr, Patched(new)}
    /\ Finish
    /\ UNCHANGED <<cached, secrets, scm, queued, changes, history>>

UpdateSuccessStatus == pc = "report" /\ PatchStatus(Success)
SetCondition        == pc = "fail" /\ PatchStatus(Failure)

\* The operator restarts: the informers replay a create for everything there is.
Crash ==
    /\ Fault
    /\ pc' = "idle" /\ ResetLocals
    /\ cached' = cr
    /\ queued' = cr.exists
    /\ timer' = FALSE
    /\ UNCHANGED <<cr, secrets, scm, changes, history>>

-------------------------------------------------------------------------------
Reconcile ==
    \/ Start \/ ResolveToken \/ GetPart \/ GetPartFails
    \/ UpdateSuccessStatus \/ SetCondition

Users ==
    \/ \E s \in Specs : CreateResource(s) \/ EditResource(s)
    \/ DeleteResource
    \/ \E s \in Secrets, content \in {"missing", "empty", "token"} : ChangeSecret(s, content)

Gitlab ==
    \E id \in Ids :
        \/ \E part \in Parts, v \in Values : EditGroup(id, part, v)
        \/ RemoveGroup(id)

Next == Reconcile \/ Users \/ Gitlab \/ SyncCache \/ Resync \/ TimerFires \/ Crash

Spec == Init /\ [][Next]_vars

\* The worker goroutine, the informers and the queue's timers keep running; users,
\* GitLab and faults owe nothing.
Fairness == WF_vars(Reconcile) /\ WF_vars(SyncCache) /\ WF_vars(TimerFires)

FairSpec == Spec /\ Fairness
-------------------------------------------------------------------------------
(* Properties.                                                               *)

Mirrors  == [Parts -> Values \cup {None}]
Resource == [exists : BOOLEAN, uid : Nat, gen : Nat, spec : Specs,
             status : [mirror : Mirrors,
                       cond : [reason : Reasons \cup {NoReason}, gen : Nat]]]

\* What the worker has read so far.
Read == CASE pc = "subgroups" -> {"details"}
          [] pc = "members"   -> {"details", "subgroups"}
          [] pc = "report"    -> Parts
          [] OTHER            -> {}

\* The variables hold what the code's types allow; a call's answer is there once the
\* worker is past the call, and a failure has a reason.
TypeOK ==
    /\ cr \in Resource /\ cached \in Resource
    /\ secrets \in [Secrets -> {"missing", "empty", "token"}]
    /\ scm \in [Ids -> {NoParts} \cup [Parts -> Values]]
    /\ queued \in BOOLEAN /\ timer \in BOOLEAN
    /\ pc \in {"idle", "resolve", "report", "fail"} \cup Parts
    /\ obj \in Resource /\ found \in Mirrors
    /\ reason \in IF pc = "fail" THEN Reasons \ {"GroupFound"} ELSE {NoReason}
    /\ changes \in Nat /\ faults \in Nat
    /\ named \subseteq Nat \X Nat \X Ids
    /\ answers \subseteq Nat \X Nat \X Ids \X Parts \X Values
    /\ heirs \subseteq Nat
    /\ \A part \in Read : found[part] # None

\* Its group answered this for generation gen of the resource uid.
Answered(uid, gen, part, v) ==
    \E id \in Ids : <<uid, gen, id>> \in named /\ <<uid, gen, id, part, v>> \in answers

\* THE REPORT IS GROUNDED.  A condition GroupFound of generation g was written only
\* after the group which generation g names had answered all three calls, and what
\* is mirrored was answered for some generation of this very resource: a copy that
\* lags, a spec edited under the reconcile, a failure half-way or a restart never
\* certify a group nobody saw.  (Not so a resource that took the place of one of
\* which copies were still about: it may inherit its predecessor's report.)
ReportIsGrounded ==
    cr.exists /\ cr.uid \notin heirs =>
        /\ cr.status.cond.reason = "GroupFound" =>
               \A part \in Parts : \E v \in Values :
                   Answered(cr.uid, cr.status.cond.gen, part, v)
        /\ \A part \in Parts :
               cr.status.mirror[part] # None =>
                   \E gen \in 1..cr.gen : Answered(cr.uid, gen, part, cr.status.mirror[part])

\* THE OBSERVED GENERATION ADVANCES.  It never falls back, though reports are
\* computed from copies that lag, and a later report may start from an older cache.
ObservedGenerationAdvances ==
    [][cr.exists /\ cr'.exists /\ cr.uid \notin heirs =>
           cr.status.cond.gen <= cr'.status.cond.gen]_vars

\* The inductive strengthening of both: unless the resource is an heir, every copy
\* is a former state of it, each no newer than the one it was made from.
CopiesLag ==
    cr.exists /\ cr.uid \notin heirs =>
        /\ cr.status.cond.gen <= cr.gen
        /\ cached.exists =>
               /\ cached.uid = cr.uid
               /\ cr.status.cond.gen <= cached.gen /\ cached.gen <= cr.gen
        /\ pc # "idle" =>
               /\ cached.exists /\ obj.uid = cr.uid
               /\ cr.status.cond.gen <= obj.gen /\ obj.gen <= cached.gen

Recorded ==
    /\ cr.exists => Naming(cr) \in named /\ cr.gen >= 1
    /\ cached.exists => Naming(cached) \in named /\ cached.gen >= 1
    /\ pc # "idle" => Naming(obj) \in named /\ obj.gen >= 1
    /\ \A part \in Read :
           <<obj.uid, obj.gen, obj.spec.groupID, part, found[part]>> \in answers

ReportInv == Recorded /\ CopiesLag /\ ReportIsGrounded

\* THE MIRROR CONVERGES.  Left alone, the status ends up as GitLab has the group, or
\* the condition names what is missing, whatever was torn between two calls, lost,
\* merged on a stale copy or inherited meanwhile.
Verdict ==
    LET content == secrets[cr.spec.tokenSecretRef] IN
    CASE content = "missing" -> "SecretNotFound"
      [] content = "empty"   -> "TokenEmpty"
      [] content = "token"   ->
             IF scm[cr.spec.groupID] = NoParts THEN "GitLabAPIError" ELSE "GroupFound"

InSync ==
    cr.exists =>
        /\ cr.status.cond = [reason |-> Verdict, gen |-> cr.gen]
        /\ Verdict = "GroupFound" => cr.status.mirror = scm[cr.spec.groupID]

EventuallyInSync == <>[]InSync
===============================================================================
