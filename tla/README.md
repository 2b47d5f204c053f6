# A TLA+ development of the SCM operator

The repository is a Kubernetes operator (`cmd/main.go`) with three controllers over three
custom resources, `GitlabGroup`, `GitlabProject` and `Notifier`. These modules model its
three controllers as state machines, compose two of them, check all of it with TLC on small
instances, and prove with TLAPS, for all instances, their types, their safety properties, alone
and composed, and that two of them implement abstract contracts: one for what users are told,
one for what is left on GitLab.

## 1. Inventory

| Component | State it keeps | Operations | Correct means |
|---|---|---|---|
| Notification service (`pkg/domain/services/notification.go`) | none; updates the record it is given | `DetectEvents`, `Notify` | the record changes exactly by what is returned for sending |
| Notifier controller (`internal/controller/notifier_*.go`) | `Notifier.status`: `projectStates` (last notified commit and pipeline per project), the Ready condition | `Reconcile`: get, resolve providers, health check, list projects, `processProject` for each, patch | nothing recorded that was not sent; nothing sent twice without a cause; everything subscribed sent in the end; condition converges |
| Discord adapter (`pkg/adapters/secondary/discord`) | none | `HealthCheck`, `Send` | a call fails, or fails after having taken effect, or succeeds |
| GitlabProject controller (`internal/controller/gitlabproject_*.go`) | finalizer, `GitlabProject.status`; in GitLab: the project, its settings, its topic ("stamp") | `Reconcile`: get, resolve group and token, register finalizer, `reconcileGitlab`, status patch; `handleDeletion` | no stamp without a resource that will remove it; deletion completes; GitLab and status converge to the spec |
| Project service, GitLab adapter (`pkg/domain/services/project.go`, `pkg/adapters/secondary/gitlab`) | none | look up, create, update, stamp, unstamp, branch commit, last pipeline | called in an order in which any failure can be retried |
| GitlabGroup controller, group service (`internal/controller/gitlabgroup_*.go`, `pkg/domain/services/group.go`) | `GitlabGroup.status`: the mirror of the group, the Ready condition | `Reconcile`: get, resolve token, three requests of `GetGroup`, status patch | no group is certified that did not answer for the generation observed; the observed generation never falls back; the mirror converges |
| Admission webhooks (`internal/webhook/v1alpha1`) | none | validate Notifiers, default GitlabProjects | only admitted specs are stored |
| Entry point (`cmd/main.go`) | none | wires clients, caches, queues | the Notifier is read past the cache, the others through it |

**How they interact.** The controllers never call each other. The project controller writes
`GitlabProject.status`; the Notifier controller watches GitlabProjects
(`mapProjectToNotifier`) and compares that status with its own record. The project
controller reads GitlabGroups, Secrets and Notifiers through informer caches and is woken
by its own resource (only if the generation changed), by Secrets and by its own requeues.
All share the API server; GitLab and Discord are reached by HTTP.

**What is hard.** One worker per key, so a controller does not race with itself; it races
with users, with its own lagging cache, and with the other controllers. Every write to a
resource is a merge patch without a resource version or UID, computed from the copy that
was read. Every remote call may fail before or after it took effect. The operator may stop
between any two calls. Only some dependencies are watched, so much liveness hangs on
requeues. `PROJECT.json` lists these hazards at their lines.

## 2. Modules

| Module | Models | Role |
|---|---|---|
| `NotificationService` | `notification.go` | pure operators, no variables |
| `Delivery` | what the notification path promises its users | abstract contract, implemented by `Notifier` |
| `Admission` | the two webhooks | pure operators, used by both controllers |
| `Notifier` | `notifier_controller.go`, `notifier_helpers.go`, `notifier_resolver.go`, Discord | specification and properties |
| `MCNotifier` + `Notifier*.cfg` | small instances | model checking |
| `NotifierProofs`, `DeliveryProofs` | | theorems and lemmas; the refinement |
| `GitlabProject` | `gitlabproject_controller.go`, `gitlabproject_helpers.go`, `project.go`, the GitLab adapter | specification and properties |
| `MCGitlabProject` + `Project*.cfg` | small instances | model checking |
| `Custody` | what the project controller promises about its stamps | abstract contract, implemented by `GitlabProject` |
| `GitlabProjectProofs`, `CustodyProofs` | | theorems and lemmas; the refinement |
| `GitlabGroup` | `gitlabgroup_controller.go`, `gitlabgroup_helpers.go`, `group.go`, `GetGroup` | specification and properties |
| `MCGitlabGroup` + `GroupMirror.cfg` | small instance | model checking |
| `GitlabGroupProofs` | | theorems and lemmas |
| `ScmOperator` | what `main.go` wires together | composition of `GitlabProject` and `Notifier` |
| `MCScmOperator` + `Operator.cfg` | small instance | model checking |
| `ScmOperatorProofs` | | theorems and lemmas, through instances of the proof modules of the parts |

### Correspondence: Notifier

`notifier` is the stored resource, `cached` the informer's copy, whose only use is to
decide what is enqueued (`SyncCache`): `Reconcile` reads through `APIReader`
(`GetNotifier`). `project[p]` is what the informer holds of each GitlabProject: its
creation time (0: absent), whether its `notifierRef` names this Notifier, and the reported
commit and pipeline (`obs`). `queued` and `timer` are the work queue for the one key;
repeated adds collapse, as in the code's queue.

The worker's `pc` stands between two remote calls; `base` is the copy the patch is computed
from, `mem` the working copy of `projectStates`, `verdict` the condition to write, `snap`
and `todo` the list being looped over, `cur` and `toSend` the batch of one project. The loop
takes linked projects in any order, since the List gives none. The actions follow the code:
`Start` and `GetFails` (51-58), `ResolveProviders` (60-68), `HealthCheck` (70-79), `FindLinkedProjects`
and `ListFails` (81-94), then `processProject`: `SkipProject`, `SeedProject`, `Panic`,
`DetectProject`, `SendOk`, `SendFails`, and at last `PatchOk` and `PatchFails`. A failed
call has taken effect or not by the time the worker learns of the failure; effects after
that are not modelled. The commit's `created_at` comes from the committer's machine, so
`CommitTime` is a constant that nothing orders with `CreationTimes`.

A condition is its reason and generation. `gen` also counts creation and deletion, so that
a changed `gen` is exactly what passes `GenerationChangedPredicate`.

History variables: `delivered` (what Discord received), `seeded` (what was recorded in
silence), `lastSent` and `dups` (messages that repeat the last one), `swaps` (Notifiers
created under a running reconcile), `panicked`. No guard reads them.

### Correspondence: GitlabProject

`cr` is the stored resource, `cached` the informer's copy, which is what `Start` reads
(`r.Get` is the cached client here). `groups`, `token` and `alerts` are the dependencies:
which GitlabGroups exist, whether their Secret holds a token, whether the named Notifier
resolves. `scm` is GitLab: per (group, name), existence, settings, stamp, and per branch
the head commit and last pipeline. `visibility` stands for the description as well (both
are compared, written and reported together); a commit and a pipeline are one value each.

`obj` is the object in memory. Two patches replace it by the API server's answer, the
finalizer's (`AddFinalizer`) and a condition's (`SetCondition` in the code, here
`ConditionStored`), which matters: after `AddFinalizer` the worker may hold a newer spec
than the one it resolved `group` from. `PatchedStatus` is a status patch: fields that differ
from the copy in memory are written, the others left as they are stored. `status.stamped`
is set on that copy by `Stamp`, before the patch is computed. `abandoned` is the history
variable of the safety property: the projects whose stamp may stay, for one of three causes.
The clean-up call of a deletion failed; its group or token was missing; or the resource was
pointed at another project. The last includes re-creating the resource under the same name
for another project while a reconcile, or a copy in the cache, is still about the former one:
`CreateResource` then abandons every other project, because the old goal may yet be stamped.

The announcement of a creation or an update is sent once and its error discarded; it
changes no state here.

### Correspondence: Delivery

The contract knows no Notifier, queue or copy. Per project it has a `ledger` (what the
operator remembers as told), what was `received` by Discord, what was `waived` as older than
its resource, the `last` message of each kind, how often it was repeated, and the `causes` so
far. Its steps: deliver a message, waive, remember (only what was received or waived), open a
new ledger, suffer a mishap. `Contract` in `Notifier` is the refinement mapping: the ledger is
`status.projectStates` read as a set of messages, the causes are `faults + swaps`.

### Correspondence: Custody

The contract knows no copy, worker or patch. A resource has a `phase` of life (absent, unguarded,
kept, dying), a `target` on GitLab, and is `ready` or not; the projects that are `stamped`, and
those whose stamp is `abandoned`, are sets. Users create, move, discard and condemn it; the
operator registers its finalizer, stamps, reports, doubts, cleans up, gives up and releases; each
of these steps has the guard that makes the contract worth having, such as that only a dying
resource is released, and not with its stamp still on. `Answered` is what these guards add up to.
`Contract` in `GitlabProject` is the refinement mapping: `Phase` from existence, finalizer and
deletion of the *stored* resource, `Owned` from its spec, `Success` from its condition, `Stamps`
from GitLab. So a step computed from a stale copy has to be a step of the contract about the
resource that is there now.

### Correspondence: GitlabGroup

`cr` and `cached` are as in `GitlabProject`, but there is neither a finalizer nor a patch that
replaces the copy in memory. `secrets` holds, for each Secret, whether it is missing, empty or
holds a token: the three outcomes of `resolveToken` (20-38). `scm` has for every GitLab group a
value for each of the three requests of `GetGroup`, the group itself, its subgroups, its
members (`Parts`); `GetPart` is one of these requests, so GitLab may change between them.
`found` is the answer being put together, dropped at the first failure (`GetPartFails`).
`UpdateSuccessStatus` and `SetCondition` are the two patches. Every field of the mirror that
comes from one request is one value here, since fields are patched independently and each
behaves like the others. `uid` tells a resource from its successor of the same name, whose
generation starts at 1 again. History: `named` (which group a generation named), `answers` (what GitLab
answered for it), `heirs` (resources created while a copy of their predecessor was about).

### Correspondence: ScmOperator

`P` and `N` are instances of the two controllers over common variables: the stored
GitlabProject, the informer's copy of it, which is the one `N` lists, the two workers, GitLab
and Discord. What couples them is code of its own: `Notifies` (any event of the informer on a
project with a `notifierRef` enqueues the Notifier), `NotifierResolves` (`resolveNotifier`),
`Listing`, which is what `findLinkedProjects` and the conversions of `notifier_helpers.go:133-155`
make of the informer's copy, and a `Crash` that takes both. The Notifier of the initial state is
one the validating webhook admits. A push on GitLab is a step of the environment, and `pushes` remembers
the order. Users are quiet in this module: their steps are in the modules of the parts, and each
of them would multiply the states of a product of two workers. So the spec of the Notifier
never changes, and the informer's copy of it, of which only the spec is read, is left as it is.

## 3. Properties and runs

Bounds: `MaxChanges` limits what users, GitLab and (in `Notifier`) the project controller
do, `MaxFaults` the failed calls and crashes (in `ScmOperator`, `MaxChanges` limits the pushes). Each guard names its bound. Initial states
already contain or lack resources, groups, secrets and GitLab projects in every
combination, so a bound of 2 changes reaches, say, delete and re-create.

| Run | Instance | Checks |
|---|---|---|
| `notifier_safety` | 1 project, 2 commits (one older than it), 1 pipeline; 4 changes, 1 fault: a Notifier deleted and re-created under a running reconcile | `TypeOK`, `NoSilentRecord`, `SingleWriter`, `DuplicatesNeedACause`, `DeliversAsPromised` |
| `notifier_pair` | 2 symmetric projects; 3 changes, 1 fault | `RecordIsTruthful`, `RepeatsHaveCauses` |
| `notifier_live` | 1 project, 2 pipeline states, 2 specs, one with a provider that has no adapter; 2 changes, 2 faults; fair | `EventuallyNotified`, `EventuallyConditionCurrent` |
| `project_safety` | 1 group, 2 names; 2 changes, 1 fault | `TypeOK`, `NoOrphanedStamp`, `SuccessIsGuarded`, `StampsAreClaimed`, `CustodyIsKept` |
| `project_live` | 1 project, 2 settings, pipelines but no commits; 2 changes, 1 fault; fair | `DeletionCompletes`, `EventuallyInSync` |
| `group_mirror` | 2 GitLab groups, 1 Secret, 2 values for each part; 2 changes, 1 fault; fair | `TypeOK`, `ReportIsGrounded`, `ObservedGenerationAdvances`, `EventuallyInSync` |
| `operator` | 1 resource of each kind, 2 commits; 2 pushes, 1 fault; fair | `TypeOK`, `PartsAreSafe`, `CommitsAreStaged`, `DeliversEndToEnd`, `NewsIsInOrder`, `EventuallyAnnounced` |

Why the bounds are enough: the interesting races need one user action inside a reconcile
and one fault or a second action; no broken variant of the code needed more than that, or
than the four changes of a Notifier swap, to be found. Two projects are needed for the shared
record and loop, two names for a rename, two GitLab groups for an edited `groupId`, two pushes
for an order. `notifier_safety` has four changes because a swap takes two of them. What lies
beyond these bounds is covered, for the safety properties, by the proofs. Symmetry is used in
`notifier_pair` only (safety, projects interchangeable).

`project_live` leaves out commits, which take the same way as pipelines through a reconcile, to
afford the second change, a re-creation under the same name; the liveness of commits is checked,
as far as Discord, by `operator`.

`EventuallyNotified`: what is subscribed is notified in the end, whatever failed before, with one
exception that the code makes. A project without a record, whose status has a pipeline but no
commit, is an error in every reconcile (`notifier_helpers.go:48-51`: there is no date to parse), so
nothing of it is ever sent. It is `CannotBeDated` in the property; without the exception the
property fails, which is the finding of `notifier_undated`.

`NoSilentRecord`: what `status.projectStates` calls notified was accepted by Discord, or
seeded for a commit older than the GitlabProject. `DuplicatesNeedACause`: a message is
repeated at most once per fault or swap. A swap is the one cause that is neither a failure
nor a restart: the merge patch of the old Notifier's reconcile lands on the new one, where
only the fields that differ from the old record are written, and the mixed record causes one
more message. `NoOrphanedStamp`: a stamped project has a resource with the finalizer.
`SuccessIsGuarded`: so has a resource that reports success, whichever copy the report was
computed from. `RecordIsTruthful`, `RepeatsHaveCauses` and `StampsAreClaimed` are the inductive
invariants of section 4; `DeliversAsPromised` is the refinement of `Delivery`, `CustodyIsKept` that
of `Custody`. The latter is more than an invariant can say: it speaks of every step, and so also
of which resource a late patch hits. It is what shows that the finalizer's removal, patched
without a UID, never takes the finalizer of a resource created after the one it was meant for.

`ReportIsGrounded`: a `GroupFound` of generation *g* means that the group which generation *g*
named answered all three requests, and every mirrored value was answered for this resource. It
does not mean that the mirrored values are those of generation *g*: after an edit of `groupId`
there and back, a patch against a lagging copy leaves out the fields that equal it and so may
leave the other group's values under the new condition, until the next poll
(`gitlabgroup_helpers.go:57`). `EventuallyInSync` shows that the next poll heals it. A resource
created again while a copy of its predecessor is about may inherit its report, and the
property excepts these `heirs`; they too end up in sync.

`NewsIsInOrder`: whoever reads Discord hears of commits in the order they were pushed. It rests
on the merge patch (an update with the whole status of a lagging copy, `OverwritesStatus`,
brings an old commit back as news) and on the single worker; `CommitsAreStaged` is the inductive
invariant behind it. `EventuallyAnnounced`: the last commit is always announced, end to end.
`PartsAreSafe` and `DeliversEndToEnd` ask of the composition what was asked of each controller:
its environment is no longer arbitrary, but the two share a bound, a clock of faults and a crash.
With users quiet and the finalizer there from the start, the project's half of `PartsAreSafe` has
little to withstand here; its hard cases are those of `project_safety`.

Every controller run disables deadlock checking: with the bounds used up and no resource
left, an operator has nothing to do and rightly stops.

### Fairness

In `ScmOperator` each part keeps its own conditions. `WF(Reconcile)`: the worker goroutine runs
while its queue is not empty. `WF(SyncCache)`:
an informer's watch delivers in the end. `WF(TimerFires)`: RequeueAfter and the rate
limiter expire. For the Notifier also `WF(Resync)`: client-go's periodic resync, which
controller-runtime's cache enables by default (10 h) and which the watch on GitlabProjects
lets through, having no predicate. It is needed: after a failed `Send` the loop ends with an
empty result (`notifier_controller.go:114`), and without another event only the resync
retries. Within one reconcile fairness lets every remote call return; it never promises that
a call succeeds, faults are merely finite. Users and GitLab owe nothing.

### Where the code departs from its documentation

| Run | Property | What TLC shows |
|---|---|---|
| `notifier_panic` | `NoPanic` | a Slack- or Telegram-only Notifier, admitted by the webhook, makes `notifiers[0]` panic; recovered and retried for ever |
| `notifier_recreated` | `OldProjectsAreSeeded` | a record outlives its GitlabProject; a successor of the same name announces a commit older than itself |
| `project_moved` | `ReadyIsAboutTheSpec` | an edit between the lookup of the group and the finalizer patch: old group, new name, new generation, Ready |
| `project_branch` | `CommitIsOfTheBranch` | after a switch to an empty branch `lastCommit` is the former branch's |
| `notifier_undated` | `EventsAreNotified` | a project first seen with a pipeline and no commit fails to be dated in every reconcile, under a Ready condition; its pipeline is never announced |

One more needs no run, for it is a theorem: `status.stamped`, "Whether the project has been stamped
on GitLab" (`gitlabproject_types.go:60`), is never stored (`StampNeverReported`), because the copy
that the patch is computed from is taken after the field was set (`gitlabproject_helpers.go:81`,
`107`). It has a useful side effect: since the operator never remembers the stamp, every poll
stamps again, and a topic removed by hand comes back. The broken variant `StampRemembered`, which
stores the field, violates `EventuallyInSync`.

## 4. Proofs

`NotifierProofs`, from `NotifierAssumption` and `ServiceAssumption` only:

- `TypeCorrect`: `Spec => []TypeOK`. One lemma per group of actions; the only facts about
  data are that a batch is a sequence of events (`DetectEventsType`) and that updating a
  record yields a record (`DetectedType`, `PatchedType`).
- `RecordTruthful`: `Spec => []RecordIsTruthful`, and from it `NoSilentRecords` and
  `SingleWriters`.

`NoSilentRecord` is not inductive: the patch writes the worker's copy, so that copy must be
truthful as well (`TruthfulCopies`); the patch writes only what differs from the copy read,
so the fields it leaves alone must be those of that copy or of an empty new record
(`SingleWriter`); and the copy is updated only after the last message of a batch, so while
one is being sent, what is no longer in it was delivered (`Sending`, with `BatchLength` and
`BatchOrder`: at most two events, the commit first). `RecordIsTruthful` is their
conjunction, checked by TLC in `notifier_pair`. `RecordStep` has one step per action: the
cluster's steps leave the worker alone and the record alone or empty (`WorkerUntouched`),
the worker's steps without a message leave the history alone (`WorkerMoves`), a sent message
extends it (`SendingStep`, `BatchStep`), and a patch stores what was told (`PatchedTold`).

`GitlabProjectProofs`, from `ProjectAssumption` only:

- `ProjectTypeCorrect`: `Spec => []TypeOK`. Beyond the types of the Go code it says that from
  the finalizer's registration on the worker knows its group, so that `Goal` is a project.
- `StampsClaimed`: `Spec => []StampsAreClaimed`, and from it `NoOrphanedStamps` and
  `SuccessGuarded`.
- `StampNeverReported`: `Spec => [](~cr.status.stamped)`, by induction over the steps that patch a
  status: none of them changed that field after it took its copy.

`NoOrphanedStamp` is not inductive, because the worker acts on a copy that may be several
versions old. A resource goes through a fixed life: without the finalizer, kept by it, dying,
gone, and then perhaps created again. `StampsAreClaimed` bounds how far everyone may be behind
on that way. `CacheLags`: a kept copy in the cache means that the stored resource still has the
finalizer; a dying copy means that it is not kept again, since only the worker registers a
finalizer, and it does so only from a copy no older than the cache's. `WorkerLags`: what is
about to be stamped belongs to a resource with the finalizer and is its target or abandoned
(`Aligned`); what is about to be cleaned up is the target of the dying resource (`SameGrave`);
by the time the finalizer goes, that target is unstamped or abandoned. `Claimed` is the
conclusion: a stamp is on the stored resource's own target. `StepClaims` has a lemma for each
kind of step: those that leave the life of the resource alone (`Steady`, whatever they write to
its status), those that renew the cache, those that move the resource along (`CreateClaims`,
`EditClaims`, `DeleteClaims`, `RegistrationClaims`, `RemovalClaims`) and the stamp
(`StampClaims`). Writing the proof showed that the first account of the causes was too narrow:
a re-creation for another project while an old copy is in the cache is one of them.

`DeliveryProofs`, from the assumptions of `NotifierProofs`:

- `RepeatsAreAccounted`: `Spec => []RepeatsHaveCauses`, and from it `DuplicatesAreCaused`.
- `ContractKept`: `Spec => DeliversAsPromised`, that the controller implements `Delivery`.

`DuplicatesNeedACause` compares a count of repetitions with a count of causes, so a proof has to
say which causes are already spoken for. A message that was sent and is in nobody's record
(`CommitForgotten`, `PipelineForgotten`) will come once more and must have a cause in reserve; so
must a Notifier that was replaced under the reconcile (`Swapped`), because the patch to come
will leave a record of mixed fields on the new one. `RepeatsAccounted` adds these reserves to the
repetitions; what counts as the record (`Memory`) depends on where the worker stands. Each action
either spends a reserve (`SentRepeats`), or builds one from a new cause (`FailedSendRepeats`,
`CreateRepeats`, a failed patch, a crash), or leaves them alone. `ContractKept` then needs, for each
action, the abstract step it maps to: a message is a `Deliver`, with its cause if it repeats
(`DeliveryStep`), a seed is a `Waive`, a patch is a `Remember` (`ToldMessages` turns the truth of the
record into that step's guard), the creation of a Notifier is a `Reopen`, and everything else
a mishap or a stutter.

`GitlabGroupProofs`, from `GroupAssumption` only:

- `GroupTypeCorrect`: `Spec => []TypeOK`, with what has been read where the worker stands.
- `ReportsAreGrounded`: `Spec => []ReportIsGrounded`; `ObservedGenerationsAdvance`:
  `Spec => ObservedGenerationAdvances`.

Both rest on `ReportInv`: what the copies say was named and answered (`Recorded`), and, unless the
resource is an heir, every copy is a former state of it, the worker's no newer than the cache's
and the condition no newer than either (`CopiesLag`). The last part is what makes the observed
generation advance: the patch writes the generation of a copy at least as new as the one the
stored condition was computed from.

`CustodyProofs`, from `ProjectAssumption` only:

- `CustodyKept`: `Spec => CustodyIsKept`, that the controller implements `Custody`.
- `ContractSuffices`: `Contract!Spec => []Contract!Answered`, that whatever implements the contract
  leaves no stamp unanswered for. Together the two give `NoOrphanedStamps` a second time, along
  the contract.

The proof uses `StampsAreClaimed` where the contract has a guard: `PhaseMeaning` reads the phases
off the stored resource, `SameLife` covers the steps that do not move it, and `NoNewStamp` those
that the contract does not see or takes for the removal of a stamp. The others are matched one by
one: `StampCustody`, `ReportCustody`, `RegistrationCustody`, `SkipCustody` and `CleanupCustody` (a
cleanup that cannot be made is a `GiveUp`), and `RemovalCustody`, where `WorkerLags` shows that
the resource which loses its finalizer is a dying one with its stamp off or abandoned, or has none
to lose.

`ScmOperatorProofs`, from `OperatorAssumption` only:

- `OperatorTypeCorrect`: `Spec => []TypeOK`; `PartsStaySafe`: `Spec => []PartsAreSafe`.
- `PromiseKept`: `Spec => DeliversEndToEnd`.
- `CommitsStaged`: `Spec => []CommitsAreStaged`, and from it `NewsInOrder`:
  `Spec => NewsIsInOrder`.

The first three reuse what was proved of the parts. `Prj` and `Ntf` are instances of their proof
modules over the variables of the composition (`SameProject` and `SameNotifier` say that their
actions are those of `P` and `N`), and `OperatorAssumption` implies the assumptions of both. A
step of the composition is then a step of one part, where the part's own lemmas apply, and a step
of the other's environment, which is weaker than any action of the other's module: `Elsewhere` is
all that the project side may do to the Notifier's variables (a new listing, a wake-up, a fault
counted), `Aside` all that the Notifier side may do to the project's. Each frame needs its own
small proof that it preserves types, invariants and the contract (`ElsewhereSafe`, `AsideSafe`,
`PromiseQuiet`), and so does the common `Crash`.

`NewsInOrder` belongs to neither part. A commit passes six stages: the head of the branch on
GitLab, the worker's hand, the stored status, the informer's copy, the Notifier's listing, and
Discord. `CommitsAreStaged` gives each a position in the history of pushes, none later than that
of the stage before it, and says (`Undisturbed`) that all copies are about the one target.
`WorkerForward` shows that no step of the project's worker takes the stored status back: either it
stores the commit in its hand, or the merge patch leaves the field out and so leaves what is
stored. `ReconcileStages`, `CopyStages`, `PushStages` and `NotifierStages` then move the
positions, one lemma for each kind of step.

Model-checked only: the liveness properties (`EventuallyNotified`, `EventuallyConditionCurrent`,
`DeletionCompletes`, `EventuallyInSync` of both controllers, `EventuallyAnnounced`), which are out
of the prover's reach. Every invariant and every action property that a passing run checks is
also proved.

## 5. Not modelled

Kubernetes events; the wording of messages; HTTP, JSON and pagination of the adapters;
certificates, metrics and probes; two operators at once (leader election is optional); webhooks
switched off; a request that takes effect after its caller has given up; two GitlabProjects for
one GitLab project; an edited `groupId` under a GitlabProject (there a group stands for one GitLab
group); a project's other topics, which a stamp erases; a change between the look-up and the write within
`StampProject` (one step here); a missing Secret as against one without a token, for a GitlabProject
(one reason here, since the reconcile goes the same way); the one-time announcement of a created or
updated project, whose loss leaves no trace; renaming or transferring projects on GitLab itself;
in `GitlabProject` and `Notifier`, generation numbers that start again at 1 when a resource is
re-created; finalizers other than the operator's; in `ScmOperator`, users. The ports are interfaces,
and the deep copies and manifests are generated or deployment only.

## 6. Plan

Done, in this order: *Notifier* and *GitlabProject* with their proofs; *Delivery*, its refinement
and the proof of `DuplicatesNeedACause`; *GitlabGroup* with its proofs; *ScmOperator*; *Custody*
and its refinement; the proofs about *ScmOperator*. Left:

1. A contract for the mirror of a group, of which `ReportIsGrounded` and
   `ObservedGenerationAdvances` are consequences, refined by `GitlabGroup`.
2. The users' steps in *ScmOperator*, with a bound of their own, and the proofs of `PartsAreSafe`
   and `DeliversEndToEnd` with the users at work in both parts; the frames `Elsewhere` and `Aside`
   are ready for it.
3. Two GitlabProjects over one GitLab project: `P` instantiated twice in a composition.
