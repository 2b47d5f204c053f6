---------------------------- MODULE NotifierProofs ----------------------------
(***************************************************************************)
(* Theorems about the Notifier controller, for every set of projects,      *)
(* commits, pipelines and specs, and every bound.                          *)
(***************************************************************************)
EXTENDS Notifier, SequenceTheorems, TLAPS

-------------------------------------------------------------------------------
(* The notification service.                                                 *)

\* Updating the record in place yields a record.
LEMMA DetectedType ==
    ASSUME NEW subscribed, NEW obs \in Observation, NEW state \in Observation
    PROVE  Detected(subscribed, obs, state) \in Observation
BY DEF Detected, Observation

\* The two halves of a batch, joined.
LEMMA PairOfEvents ==
    ASSUME NEW a \in Events, NEW b \in Events
    PROVE  <<a>> \o <<b>> = <<a, b>> /\ <<>> \o <<b>> = <<b>>
<1>1. <<a>> \in Seq(Events) /\ <<b>> \in Seq(Events)
  OBVIOUS
<1>2. <<a, b>> \in Seq(Events)
  OBVIOUS
<1>3. <<a>> \o <<b>> = <<a, b>>
  <2> DEFINE s == <<a>> \o <<b>>
             t == <<a, b>>
  <2>1. /\ s \in Seq(Events) /\ Len(s) = 2
        /\ s[1] = a /\ s[2] = b
    BY <1>1, ConcatProperties
  <2>2. Len(t) = 2 /\ t[1] = a /\ t[2] = b
    OBVIOUS
  <2> HIDE DEF s, t
  <2>3. \A i \in 1 .. Len(s) : s[i] = t[i]
    BY <2>1, <2>2
  <2> QED
    BY <1>2, <2>1, <2>2, <2>3, SeqEqual DEF s, t
<1>4. <<>> \o <<b>> = <<b>>
  BY <1>1, ConcatEmptySeq
<1> QED
  BY <1>2, <1>3, <1>4

LEMMA TailLength ==
    ASSUME NEW s \in Seq(Events), Len(s) > 0
    PROVE  /\ Len(s) = 2 => Len(Tail(s)) = 1
           /\ Len(s) > 1 => Tail(s) # <<>>
           /\ Len(s) > 1 /\ Len(s) <= 2 => Len(s) = 2
<1>1. Len(<<>>) = 0
  BY EmptySeq
<1>2. s # <<>>
  <2>1. s = <<>> => Len(s) = 0
    BY <1>1, Zenon
  <2> QED
    BY <2>1
<1>3. Len(s) \in Nat /\ Len(Tail(s)) = Len(s) - 1
  BY <1>2, LenProperties, HeadTailProperties
<1>4. Tail(s) = <<>> => Len(Tail(s)) = 0
  BY <1>1, Zenon
<1>5. /\ Len(s) > 1 => Len(Tail(s)) # 0
      /\ Len(s) = 2 => Len(Tail(s)) = 1
      /\ Len(s) > 1 /\ Len(s) <= 2 => Len(s) = 2
  <2> DEFINE n == Len(s)
             m == Len(Tail(s))
  <2>1. n \in Nat /\ m = n - 1
    BY <1>3
  <2> HIDE DEF n, m
  <2>2. (n > 1 => m # 0) /\ (n = 2 => m = 1) /\ (n > 1 /\ n <= 2 => n = 2)
    BY <2>1
  <2> QED
    BY <2>2 DEF n, m
<1> QED
  BY <1>4, <1>5, Zenon

\* The events raised are subscribed ones.
LEMMA DetectEventsType ==
    ASSUME NEW subscribed \in SUBSET Events, NEW obs, NEW state
    PROVE  DetectEvents(subscribed, obs, state) \in Seq(Events)
<1>1. CommitFires(subscribed, obs, state) => <<"new_commit">> \in Seq(Events)
  BY DEF CommitFires
<1>2. PipelineFires(subscribed, obs, state) => <<EventOf(obs.status)>> \in Seq(Events)
  <2> SUFFICES ASSUME PipelineFires(subscribed, obs, state)
               PROVE  EventOf(obs.status) \in Events
    OBVIOUS
  <2> QED
    BY DEF PipelineFires
<1> QED
  BY <1>1, <1>2 DEF DetectEvents

\* A batch holds at most two events, and of two the first is the commit.
LEMMA BatchLength ==
    ASSUME NEW subscribed \in SUBSET Events, NEW obs, NEW state
    PROVE  Len(DetectEvents(subscribed, obs, state)) <= 2
<1>1. CommitFires(subscribed, obs, state) => "new_commit" \in Events
  BY DEF CommitFires
<1>2. PipelineFires(subscribed, obs, state) => EventOf(obs.status) \in Events
  BY DEF PipelineFires
<1> QED
  BY <1>1, <1>2, PairOfEvents DEF DetectEvents

LEMMA BatchOrder ==
    ASSUME NEW subscribed \in SUBSET Events, NEW obs, NEW state,
           Len(DetectEvents(subscribed, obs, state)) > 1
    PROVE  Head(DetectEvents(subscribed, obs, state)) = "new_commit"
<1>1. CommitFires(subscribed, obs, state) => "new_commit" \in Events
  BY DEF CommitFires
<1>2. PipelineFires(subscribed, obs, state) => EventOf(obs.status) \in Events
  BY DEF PipelineFires
<1> QED
  BY <1>1, <1>2, PairOfEvents DEF DetectEvents

-------------------------------------------------------------------------------
(* Types.                                                                    *)

LEMMA NothingType == Nothing \in Observation
BY DEF Nothing, Observation

LEMMA AbsentType == Absent \in Record /\ Absent.states \in [Projects -> Observation]
BY NothingType DEF Absent, Record, NoVerdict

LEMMA FreshType ==
    ASSUME NEW s \in Specs, NEW g \in Nat
    PROVE  Fresh(s, g) \in Record
<1>1. s \in [events : SUBSET Events, providers : SUBSET Providers]
  BY NotifierAssumption
<1> QED
  BY <1>1, AbsentType DEF Fresh, Record, Absent

LEMMA NewProjectType == NoProject \in Seen /\ NewProjects \subseteq Seen
BY NothingType DEF NoProject, NewProjects, Seen

\* What a merge patch leaves on the stored Notifier is a Notifier.
LEMMA PatchedType ==
    ASSUME TypeOK
    PROVE  Patched \in Record
<1> USE DEF TypeOK, ClusterOK, WorkerOK
<1>1. ASSUME NEW p \in Projects
      PROVE  MergeState(base.states[p], mem[p], notifier.states[p]) \in Observation
  <2>1. /\ base.states[p] \in Observation /\ mem[p] \in Observation
        /\ notifier.states[p] \in Observation
    BY DEF Record
  <2> QED
    BY <2>1 DEF MergeState, Merged, Observation
<1>2. Merged(base.cond, [reason |-> verdict, gen |-> base.gen], notifier.cond)
        \in [reason : Verdicts \cup {NoVerdict}, gen : Nat]
  BY DEF Merged, Record
<1> QED
  BY <1>1, <1>2 DEF Patched, Record

LEMMA InitType == Init => TypeOK
<1> SUFFICES ASSUME Init
             PROVE  TypeOK
  OBVIOUS
<1> USE DEF Init
<1>1. ClusterOK
  <2>1. notifier \in Record
    BY AbsentType, FreshType
  <2>2. queued \in BOOLEAN
    BY DEF Backlog, Absent, Fresh
  <2> QED
    BY <2>1, <2>2, NewProjectType DEF ClusterOK
<1>2. WorkerOK
  BY AbsentType, NewProjectType DEF WorkerOK
<1>3. HistoryOK
  BY NothingType DEF HistoryOK
<1> QED
  BY <1>1, <1>2, <1>3 DEF TypeOK

\* A worker that holds nothing is well typed.
LEMMA ResetType == ResetLocals /\ pc' = "idle" => WorkerOK'
BY AbsentType, NewProjectType DEF ResetLocals, WorkerOK

\* Users, GitLab and the project controller.
LEMMA ClusterType == TypeOK /\ Cluster => TypeOK'
<1> SUFFICES ASSUME TypeOK, Cluster
             PROVE  TypeOK'
  OBVIOUS
<1> USE DEF TypeOK
<1>1. ASSUME NEW p \in Projects, NEW new \in Seen, ProjectEvent(p, new)
      PROVE  TypeOK'
  <2> USE <1>1 DEF ProjectEvent
  <2>1. ClusterOK'
    BY DEF ClusterOK, Change, Seen
  <2>2. WorkerOK' /\ HistoryOK'
    BY DEF WorkerOK, HistoryOK, locals, history
  <2> QED
    BY <2>1, <2>2
<1>2. ASSUME NEW new \in Record, NotifierEvent(new),
             \/ UNCHANGED history
             \/ /\ lastSent' = [p \in Projects |-> Nothing] /\ swaps' \in Nat
                /\ UNCHANGED <<delivered, seeded, dups, panicked>>
      PROVE  TypeOK'
  <2> USE <1>2 DEF NotifierEvent
  <2>1. ClusterOK'
    BY DEF ClusterOK, Change, queue
  <2>2. WorkerOK' /\ HistoryOK'
    BY NothingType DEF WorkerOK, HistoryOK, locals, history
  <2> QED
    BY <2>1, <2>2
<1>3. notifier \in Record /\ notifier.gen \in Nat /\ project \in [Projects -> Seen]
  BY DEF ClusterOK, Record
<1>4. ASSUME NEW p \in Projects, CreateProject(p)
      PROVE  TypeOK'
  BY <1>1, <1>4, NewProjectType DEF CreateProject
<1>5. ASSUME NEW p \in Projects, DeleteProject(p)
      PROVE  TypeOK'
  BY <1>1, <1>5, NewProjectType DEF DeleteProject
<1>6. ASSUME NEW p \in Projects, SetNotifierRef(p)
      PROVE  TypeOK'
  <2>1. [project[p] EXCEPT !.linked = ~@] \in Seen
    BY <1>3 DEF Seen
  <2> QED
    BY <1>1, <1>6, <2>1 DEF SetNotifierRef
<1>7. ASSUME NEW p \in Projects, ReportStatus(p)
      PROVE  TypeOK'
  <2>1. ASSUME NEW o \in Observation
        PROVE  [project[p] EXCEPT !.obs = o] \in Seen
    BY <1>3 DEF Seen
  <2> QED
    BY <1>1, <1>7, <2>1 DEF ReportStatus
<1>8. ASSUME NEW s \in Specs, CreateNotifier(s)
      PROVE  TypeOK'
  <2>1. Fresh(s, notifier.gen + 1) \in Record
    BY <1>3, FreshType
  <2>2. swaps' \in Nat
    BY <1>8 DEF CreateNotifier, HistoryOK
  <2> QED
    BY <1>2, <1>8, <2>1, <2>2 DEF CreateNotifier
<1>9. ASSUME NEW s \in Specs, EditNotifier(s)
      PROVE  TypeOK'
  <2>1. s \in [events : SUBSET Events, providers : SUBSET Providers]
    BY NotifierAssumption
  <2>2. notifier.gen + 1 \in Nat
    BY <1>3
  <2>3. [notifier EXCEPT !.gen = @ + 1, !.spec = s] \in Record
    BY <1>3, <2>1, <2>2, Zenon DEF Record
  <2> QED
    BY <1>2, <1>9, <2>3 DEF EditNotifier
<1>10. CASE DeleteNotifier
  <2>1. [Absent EXCEPT !.gen = notifier.gen + 1] \in Record
    BY <1>3, AbsentType DEF Record
  <2> QED
    BY <1>2, <1>10, <2>1 DEF DeleteNotifier
<1>11. CASE ChangeSecret
  BY <1>11 DEF ChangeSecret, Change, ClusterOK, WorkerOK, HistoryOK, queue, locals, history
<1> QED
  BY <1>4, <1>5, <1>6, <1>7, <1>8, <1>9, <1>10, <1>11 DEF Cluster

\* The informers, the timers and a restart.
LEMMA InfrastructureType ==
    TypeOK /\ (SyncCache \/ Resync \/ TimerFires \/ Crash) => TypeOK'
<1> SUFFICES ASSUME TypeOK, SyncCache \/ Resync \/ TimerFires \/ Crash
             PROVE  TypeOK'
  OBVIOUS
<1> USE DEF TypeOK, ClusterOK, history, cluster, locals
<1>1. CASE SyncCache
  BY <1>1 DEF SyncCache, WorkerOK, HistoryOK
<1>2. CASE Resync
  BY <1>2 DEF Resync, WorkerOK, HistoryOK
<1>3. CASE TimerFires
  BY <1>3 DEF TimerFires, WorkerOK, HistoryOK
<1>4. CASE Crash
  <2>1. WorkerOK'
    BY <1>4, ResetType DEF Crash
  <2>2. queued' \in BOOLEAN
    BY <1>4 DEF Crash, Backlog, Record
  <2>3. faults' \in Nat
    BY <1>4 DEF Crash, Fault
  <2>4. ClusterOK'
    BY <1>4, <2>2, <2>3, Zenon DEF Crash
  <2> QED
    BY <1>4, <2>1, <2>4 DEF Crash, HistoryOK
<1> QED
  BY <1>1, <1>2, <1>3, <1>4

\* The events of a project under reconciliation, and the record they lead to.
LEMMA ProcessingType ==
    ASSUME TypeOK, NEW p \in Projects
    PROVE  /\ EventsOf(p) \in Seq(Events)
           /\ NextState(p) \in Observation
           /\ snap[p].obs \in Observation
           /\ snap[p].created \in CreationTimes \cup {0}
<1>1. base.spec.events \in SUBSET Events
  BY DEF TypeOK, WorkerOK, Record
<1>2. /\ snap[p].obs \in Observation /\ mem[p] \in Observation
      /\ snap[p].created \in CreationTimes \cup {0}
  BY DEF TypeOK, WorkerOK, Seen
<1> QED
  BY <1>1, <1>2, DetectedType, DetectEventsType DEF EventsOf, NextState

\* What Discord receives is recorded with its type.
LEMMA ReceivedType ==
    ASSUME TypeOK, pc = "send", Received
    PROVE  HistoryOK'
<1> USE DEF TypeOK, HistoryOK
<1>1. cur \in Projects
  BY DEF WorkerOK
<1>2. snap[cur].obs \in Observation
  BY <1>1, ProcessingType
<1>3. Message \in Shas \cup {NoSha} \cup PipelineStates
  BY <1>2 DEF Message, Observation, PipelineStates
<1>4. delivered' \in [Projects -> SUBSET (Shas \cup {NoSha} \cup PipelineStates)]
  BY <1>1, <1>3, Zenon DEF Received
<1>5. lastSent' \in [Projects -> Observation]
  <2>1. lastSent[cur] \in Observation
    BY <1>1
  <2>2. /\ [lastSent[cur] EXCEPT !.sha = snap[cur].obs.sha] \in Observation
        /\ [lastSent[cur] EXCEPT !.id = snap[cur].obs.id, !.status = snap[cur].obs.status]
             \in Observation
    BY <1>2, <2>1 DEF Observation
  <2>3. CASE IsCommit
    <3>1. lastSent' = [lastSent EXCEPT ![cur] = [@ EXCEPT !.sha = snap[cur].obs.sha]]
      BY <2>3 DEF Received
    <3> QED
      BY <1>1, <2>2, <3>1
  <2>4. CASE ~IsCommit
    <3>1. lastSent' = [lastSent EXCEPT ![cur] =
                         [@ EXCEPT !.id = snap[cur].obs.id, !.status = snap[cur].obs.status]]
      BY <1>1, <2>4 DEF Received
    <3> QED
      BY <1>1, <2>2, <3>1
  <2> QED
    BY <2>3, <2>4
<1>6. dups' \in [Projects -> [commit : Nat, pipeline : Nat]]
  <2>1. dups[cur] \in [commit : Nat, pipeline : Nat]
    BY <1>1
  <2> DEFINE c == [dups[cur] EXCEPT !.commit = dups[cur].commit + 1]
             d == [dups[cur] EXCEPT !.pipeline = dups[cur].pipeline + 1]
  <2>2. /\ c \in [commit : Nat, pipeline : Nat]
        /\ d \in [commit : Nat, pipeline : Nat]
    BY <2>1
  <2>3. \/ dups' = dups
        \/ dups' = [dups EXCEPT ![cur] = c]
        \/ dups' = [dups EXCEPT ![cur] = d]
    BY <1>1 DEF Received
  <2> HIDE DEF c, d
  <2> QED
    BY <1>1, <2>2, <2>3
<1> QED
  BY <1>4, <1>5, <1>6 DEF Received

\* The end of a reconcile.
LEMMA FinishType ==
    ASSUME TypeOK, NEW requeue \in BOOLEAN, Finish(requeue)
    PROVE  WorkerOK' /\ timer' \in BOOLEAN
BY ResetType DEF Finish, TypeOK, ClusterOK

\* The steps of the worker.
LEMMA ReconcileType == TypeOK /\ Reconcile => TypeOK'
<1> SUFFICES ASSUME TypeOK, Reconcile
             PROVE  TypeOK'
  OBVIOUS
<1> USE DEF TypeOK, cluster, queue, history
<1>1. CASE Start
  <2>1. notifier \in Record /\ notifier.states \in [Projects -> Observation]
    BY DEF ClusterOK, Record
  <2>2. WorkerOK'
    BY <1>1, <2>1 DEF Start, GetNotifier, WorkerOK, locals
  <2> QED
    BY <1>1, <2>2 DEF Start, ClusterOK, HistoryOK
<1>2. CASE ResolveProviders
  BY <1>2 DEF ResolveProviders, Goto, ClusterOK, WorkerOK, HistoryOK, Verdicts
<1>3. CASE HealthCheck
  BY <1>3 DEF HealthCheck, Goto, Fault, ClusterOK, WorkerOK, HistoryOK, Verdicts
<1>4. CASE FindLinkedProjects
  BY <1>4 DEF FindLinkedProjects, ClusterOK, WorkerOK, HistoryOK, Verdicts
<1>5. CASE ListFails \/ GetFails
  <2>1. WorkerOK' /\ timer' \in BOOLEAN
    BY <1>5, FinishType DEF ListFails, GetFails
  <2>2. queued' \in BOOLEAN /\ faults' = faults + 1 /\ UNCHANGED <<cluster, changes, history>>
    BY <1>5 DEF ListFails, GetFails, Fault, ClusterOK
  <2> QED
    BY <2>1, <2>2 DEF ClusterOK, HistoryOK
<1>6. ASSUME NEW p \in Projects, SkipProject(p)
      PROVE  TypeOK'
  BY <1>6 DEF SkipProject, Processing, ClusterOK, WorkerOK, HistoryOK
<1>7. ASSUME NEW p \in Projects, SeedProject(p)
      PROVE  TypeOK'
  <2>1. /\ snap[p].obs \in Observation
        /\ <<snap[p].obs, snap[p].created>> \in Observation \X (CreationTimes \cup {0})
    BY ProcessingType
  <2>2. WorkerOK'
    BY <1>7, <2>1 DEF SeedProject, Processing, WorkerOK
  <2>3. HistoryOK'
    BY <1>7, <2>1 DEF SeedProject, HistoryOK
  <2> QED
    BY <1>7, <2>2, <2>3 DEF SeedProject, ClusterOK
<1>8. ASSUME NEW p \in Projects, Panic(p)
      PROVE  TypeOK'
  <2>1. WorkerOK' /\ timer' \in BOOLEAN
    BY <1>8, FinishType DEF Panic
  <2> QED
    BY <1>8, <2>1 DEF Panic, ClusterOK, HistoryOK
<1>9. ASSUME NEW p \in Projects, DetectProject(p)
      PROVE  TypeOK'
  <2>1. WorkerOK'
    BY <1>9, ProcessingType DEF DetectProject, WorkerOK
  <2> QED
    BY <1>9, <2>1 DEF DetectProject, ClusterOK, HistoryOK
<1>10. CASE SendOk
  <2>1. HistoryOK'
    BY <1>10, ReceivedType DEF SendOk
  <2>2. cur \in Projects
    BY <1>10 DEF SendOk, WorkerOK
  <2>3. CASE Len(toSend) > 1
    <3>1. Tail(toSend) \in Seq(Events)
      BY <2>3 DEF WorkerOK
    <3> QED
      BY <1>10, <2>1, <2>3, <3>1 DEF SendOk, ClusterOK, WorkerOK
  <2>4. CASE ~(Len(toSend) > 1)
    <3>1. [mem EXCEPT ![cur] = NextState(cur)] \in [Projects -> Observation]
      BY <2>2, ProcessingType DEF WorkerOK
    <3> QED
      BY <1>10, <2>1, <2>4, <3>1 DEF SendOk, NextProject, ClusterOK, WorkerOK
  <2> QED
    BY <2>3, <2>4
<1>11. CASE SendFails
  <2>1. HistoryOK'
    BY <1>11, ReceivedType DEF SendFails, HistoryOK
  <2> QED
    BY <1>11, <2>1 DEF SendFails, Fault, NextProject, ClusterOK, WorkerOK
<1>12. CASE PatchOk
  <2>1. WorkerOK' /\ timer' \in BOOLEAN
    BY <1>12, FinishType DEF PatchOk, Requeues
  <2> QED
    BY <1>12, <2>1, PatchedType DEF PatchOk, ClusterOK, HistoryOK
<1>13. CASE PatchFails
  <2>1. WorkerOK' /\ timer' \in BOOLEAN
    BY <1>13, FinishType DEF PatchFails
  <2>2. notifier' \in Record /\ faults' \in Nat
    BY <1>13, PatchedType DEF PatchFails, Fault, ClusterOK
  <2> QED
    BY <1>13, <2>1, <2>2 DEF PatchFails, ClusterOK, HistoryOK
<1> QED
  BY <1>1, <1>2, <1>3, <1>4, <1>5, <1>6, <1>7, <1>8, <1>9, <1>10, <1>11, <1>12, <1>13
  DEF Reconcile

LEMMA NextType == TypeOK /\ [Next]_vars => TypeOK'
<1> SUFFICES ASSUME TypeOK, [Next]_vars
             PROVE  TypeOK'
  OBVIOUS
<1>1. CASE UNCHANGED vars
  BY <1>1 DEF TypeOK, ClusterOK, WorkerOK, HistoryOK, vars, cluster, queue, locals, history
<1> QED
  BY <1>1, ClusterType, ReconcileType, InfrastructureType DEF Next

\* The variables keep their types, whatever the projects, the bounds and the
\* interleaving of the worker with users, faults and restarts.
THEOREM TypeCorrect == Spec => []TypeOK
<1>1. Init => TypeOK
  BY InitType
<1>2. TypeOK /\ [Next]_vars => TypeOK'
  BY NextType
<1> QED
  BY <1>1, <1>2, PTL DEF Spec

-------------------------------------------------------------------------------
(* No silent record.                                                         *)

LEMMA ToldNothing == \A p : Told(p, Nothing)
BY DEF Told, CommitTold, PipelineTold, Nothing

\* A merge patch writes nothing that was not told: on the Notifier that was read
\* it writes the worker's copy, on one created since a part of it.
LEMMA PatchedTold ==
    ASSUME TypeOK, RecordIsTruthful, pc # "idle", NEW p \in Projects
    PROVE  Told(p, Patched.states[p])
<1> DEFINE old == base.states[p]
           new == mem[p]
           live == notifier.states[p]
<1>1. Patched.states[p] = MergeState(old, new, live)
  BY DEF Patched, TypeOK, ClusterOK, Record
<1>2. old \in Observation /\ new \in Observation /\ Told(p, old) /\ Told(p, new)
  BY DEF TypeOK, WorkerOK, Record, RecordIsTruthful, TruthfulCopies
<1>3. live = old \/ live = Nothing
  BY DEF RecordIsTruthful, SingleWriter
<1> HIDE DEF old, new, live
<1>4. CASE live = old
  <2>1. MergeState(old, new, live) = new
    BY <1>2, <1>4 DEF MergeState, Merged, Observation
  <2> QED
    BY <1>1, <1>2, <2>1
<1>5. CASE live = Nothing
  <2> DEFINE m == MergeState(old, new, live)
  <2>1. /\ m.sha = new.sha \/ m.sha = NoSha
        /\ m.id = new.id \/ m.id = 0
        /\ m.status = new.status \/ m.status = ""
    BY <1>5 DEF MergeState, Merged, Nothing
  <2> HIDE DEF m
  <2>2. Told(p, m)
    BY <1>2, <2>1 DEF Told, CommitTold, PipelineTold
  <2> QED
    BY <1>1, <2>2 DEF m
<1> QED
  BY <1>3, <1>4, <1>5

\* With the last message of a batch, the record that follows is told.
LEMMA BatchTold ==
    ASSUME TypeOK, RecordIsTruthful, SendOk, ~(Len(toSend) > 1)
    PROVE  LET s == NextState(cur) IN
             /\ s.sha = NoSha \/ s.sha \in delivered'[cur] \/ CommitTold(cur, s.sha)
             /\ <<s.id, s.status>> \in delivered'[cur] \/ PipelineTold(cur, s.id, s.status)
<1> DEFINE obs == snap[cur].obs
           subscribed == base.spec.events
           state == mem[cur]
<1>1. cur \in Projects /\ toSend # <<>> /\ toSend \in Seq(Events)
  BY DEF SendOk, TypeOK, WorkerOK, RecordIsTruthful, Sending
<1>2. /\ obs.sha \in delivered[cur] => obs.sha \in delivered'[cur]
      /\ IsCommit => obs.sha \in delivered'[cur]
      /\ ~IsCommit => <<obs.id, obs.status>> \in delivered'[cur]
  BY <1>1 DEF SendOk, Received, Message, TypeOK, HistoryOK
<1>3. Told(cur, state)
  BY <1>1 DEF RecordIsTruthful, TruthfulCopies
<1>4. CommitFires(subscribed, obs, state) => obs.sha \in delivered'[cur]
  <2> SUFFICES ASSUME CommitFires(subscribed, obs, state)
               PROVE  obs.sha \in delivered'[cur]
    OBVIOUS
  <2>1. CASE toSend = EventsOf(cur)
    <3>1. Head(toSend) = "new_commit"
      BY <2>1 DEF EventsOf, DetectEvents
    <3> QED
      BY <1>2, <3>1 DEF IsCommit
  <2>2. CASE obs.sha \in delivered[cur]
    BY <1>2, <2>2
  <2> QED
    BY <2>1, <2>2 DEF SendOk, RecordIsTruthful, Sending
<1>5. PipelineFires(subscribed, obs, state) => <<obs.id, obs.status>> \in delivered'[cur]
  <2> SUFFICES ASSUME PipelineFires(subscribed, obs, state)
               PROVE  ~IsCommit
    BY <1>2
  <2> DEFINE e == EventOf(obs.status)
  <2>1. e # "new_commit"
    BY DEF EventOf
  <2>2. e \in Events
    <3>1. subscribed \subseteq Events
      BY DEF TypeOK, WorkerOK, Record
    <3> QED
      BY <3>1 DEF PipelineFires
  <2>3. EventsOf(cur) = <<"new_commit", e>> \/ EventsOf(cur) = <<e>>
    <3>1. "new_commit" \in Events
      BY DEF Events
    <3> QED
      BY <2>2, <3>1, PairOfEvents DEF EventsOf, DetectEvents
  <2>4. toSend = EventsOf(cur) \/ toSend = Tail(EventsOf(cur))
    BY DEF SendOk, RecordIsTruthful, Sending
  <2> HIDE DEF e
  <2>5. toSend = <<e>>
    <3>1. ~(Len(toSend) > 1) /\ toSend # <<>>
      BY <1>1
    <3>2. /\ Len(<<"new_commit", e>>) = 2
          /\ Tail(<<"new_commit", e>>) = <<e>>
          /\ Tail(<<e>>) = <<>>
      OBVIOUS
    <3> QED
      BY <2>3, <2>4, <3>1, <3>2
  <2> QED
    BY <2>1, <2>5 DEF IsCommit
<1> QED
  BY <1>3, <1>4, <1>5 DEF NextState, Detected, Told

\* Deliveries and seeds are never taken back.
Grows == \A p \in Projects : delivered[p] \subseteq delivered'[p] /\ seeded[p] \subseteq seeded'[p]

\* The history only grows.
LEMMA HistoryGrows == TypeOK /\ [Next]_vars => Grows
<1> SUFFICES ASSUME TypeOK, [Next]_vars
             PROVE  Grows
  OBVIOUS
<1> USE DEF Grows, history
<1>1. ASSUME UNCHANGED <<delivered, seeded>>
      PROVE  Grows
  BY <1>1
<1>2. CASE Received
  BY <1>2 DEF Received, TypeOK, HistoryOK
<1>3. ASSUME NEW p \in Projects, SeedProject(p)
      PROVE  Grows
  BY <1>3 DEF SeedProject, TypeOK, HistoryOK
<1>4. CASE Cluster
  BY <1>1, <1>4 DEF Cluster, CreateProject, DeleteProject, SetNotifierRef, ReportStatus,
     ProjectEvent, CreateNotifier, EditNotifier, DeleteNotifier, ChangeSecret
<1>5. CASE SyncCache \/ Resync \/ TimerFires \/ Crash \/ UNCHANGED vars
  BY <1>1, <1>5 DEF SyncCache, Resync, TimerFires, Crash, vars
<1>6. CASE \/ Start \/ GetFails \/ ResolveProviders \/ HealthCheck \/ FindLinkedProjects
          \/ ListFails
  BY <1>1, <1>6 DEF Start, GetFails, ResolveProviders, HealthCheck, Goto, FindLinkedProjects,
     ListFails
<1>7. ASSUME NEW p \in Projects, SkipProject(p) \/ Panic(p) \/ DetectProject(p)
      PROVE  Grows
  BY <1>1, <1>7 DEF SkipProject, Panic, DetectProject
<1>8. CASE SendOk \/ SendFails
  BY <1>1, <1>2, <1>8 DEF SendOk, SendFails
<1>9. CASE PatchOk \/ PatchFails
  BY <1>1, <1>9 DEF PatchOk, PatchFails
<1> QED
  BY <1>3, <1>4, <1>5, <1>6, <1>7, <1>8, <1>9 DEF Next, Reconcile

\* A step that leaves the worker alone, and the record alone or empty.
LEMMA WorkerUntouched ==
    ASSUME TypeOK, RecordIsTruthful, Grows, UNCHANGED <<pc, locals>>,
           \A p \in Projects : notifier'.states[p] \in {notifier.states[p], Nothing}
    PROVE  RecordIsTruthful'
<1> USE DEF locals
<1>1. NoSilentRecord'
  <2> SUFFICES ASSUME NEW p \in Projects
               PROVE  Told(p, notifier.states[p])'
    BY DEF NoSilentRecord
  <2>1. Told(p, notifier'.states[p])
    BY ToldNothing DEF RecordIsTruthful, NoSilentRecord
  <2> QED
    BY <2>1 DEF Told, CommitTold, PipelineTold, Grows
<1>2. SingleWriter'
  BY DEF RecordIsTruthful, SingleWriter
<1>3. TruthfulCopies'
  BY DEF RecordIsTruthful, TruthfulCopies, Told, CommitTold, PipelineTold, Grows
<1>4. Sending'
  <2>1. pc = "send" => cur \in Projects
    BY DEF TypeOK, WorkerOK
  <2> QED
    BY <2>1 DEF RecordIsTruthful, Sending, EventsOf, Grows
<1> QED
  BY <1>1, <1>2, <1>3, <1>4 DEF RecordIsTruthful

\* A step after which the worker is not sending, has read nothing new, and has
\* changed at most its copy, with something that was told.
LEMMA WorkerMoves ==
    ASSUME TypeOK, RecordIsTruthful, Grows, UNCHANGED <<notifier, base>>,
           pc # "idle", pc' # "send",
           \A p \in Projects : mem'[p] = mem[p] \/ Told(p, mem[p])'
    PROVE  RecordIsTruthful'
<1>1. NoSilentRecord'
  BY DEF RecordIsTruthful, NoSilentRecord, Told, CommitTold, PipelineTold, Grows
<1>2. SingleWriter'
  BY DEF RecordIsTruthful, SingleWriter
<1>3. TruthfulCopies'
  <2> SUFFICES ASSUME NEW p \in Projects
               PROVE  Told(p, base.states[p])' /\ Told(p, mem[p])'
    BY DEF TruthfulCopies
  <2>1. Told(p, base.states[p]) /\ Told(p, mem[p])
    BY DEF RecordIsTruthful, TruthfulCopies
  <2>2. Told(p, base.states[p])'
    BY <2>1 DEF Told, CommitTold, PipelineTold, Grows
  <2>3. ASSUME mem'[p] = mem[p]
        PROVE  Told(p, mem[p])'
    BY <2>1, <2>3 DEF Told, CommitTold, PipelineTold, Grows
  <2> QED
    BY <2>2, <2>3
<1>4. Sending'
  BY DEF Sending
<1> QED
  BY <1>1, <1>2, <1>3, <1>4 DEF RecordIsTruthful

\* A step that ends the reconcile and leaves a record that was told.
LEMMA WorkerEnds ==
    ASSUME Grows, ResetLocals, pc' = "idle",
           \A p \in Projects : Told(p, notifier'.states[p])
    PROVE  RecordIsTruthful'
<1>1. NoSilentRecord'
  BY DEF NoSilentRecord, Told, CommitTold, PipelineTold, Grows
<1>2. SingleWriter' /\ Sending'
  BY DEF SingleWriter, Sending
<1>3. TruthfulCopies'
  <2>1. \A p \in Projects : base'.states[p] = Nothing /\ mem'[p] = Nothing
    BY DEF ResetLocals, Absent
  <2>2. Nothing.sha = NoSha /\ Nothing.id = 0
    BY DEF Nothing
  <2> QED
    BY <2>1, <2>2 DEF TruthfulCopies, Told, CommitTold, PipelineTold
<1> QED
  BY <1>1, <1>2, <1>3 DEF RecordIsTruthful

LEMMA RecordInit == Init => RecordIsTruthful
<1> SUFFICES ASSUME Init
             PROVE  RecordIsTruthful
  OBVIOUS
<1>1. \A p \in Projects : notifier.states[p] = Nothing /\ base.states[p] = Nothing
                          /\ mem[p] = Nothing
  <2>1. \A p \in Projects : Absent.states[p] = Nothing
    BY DEF Absent
  <2>2. \A s \in Specs : Fresh(s, 1).states = Absent.states
    BY DEF Fresh, Absent
  <2> QED
    BY <2>1, <2>2 DEF Init
<1>2. NoSilentRecord /\ TruthfulCopies
  BY <1>1, ToldNothing DEF NoSilentRecord, TruthfulCopies
<1>3. SingleWriter /\ Sending
  BY DEF Init, SingleWriter, Sending
<1> QED
  BY <1>2, <1>3 DEF RecordIsTruthful

\* A message that is not the last of its batch leaves the rest of it.
LEMMA SendingStep ==
    ASSUME TypeOK, RecordIsTruthful, Grows, SendOk, Len(toSend) > 1
    PROVE  RecordIsTruthful'
<1>1. /\ pc = "send" /\ pc' = pc /\ cur' = cur /\ toSend' = Tail(toSend)
      /\ UNCHANGED <<notifier, base, mem, snap>>
  BY DEF SendOk, cluster
<1>2. cur \in Projects /\ toSend \in Seq(Events)
  BY <1>1 DEF TypeOK, WorkerOK
<1>3. NoSilentRecord' /\ TruthfulCopies'
  <2>2. \A p \in Projects : /\ Told(p, notifier.states[p])
                            /\ Told(p, base.states[p]) /\ Told(p, mem[p])
    BY DEF RecordIsTruthful, NoSilentRecord, TruthfulCopies
  <2>3. NoSilentRecord'
    BY <1>1, <2>2 DEF NoSilentRecord, Told, CommitTold, PipelineTold, Grows
  <2>4. ASSUME NEW p \in Projects
        PROVE  Told(p, base.states[p])'
    BY <1>1, <2>2 DEF Told, CommitTold, PipelineTold, Grows
  <2>5. ASSUME NEW p \in Projects
        PROVE  Told(p, mem[p])'
    BY <1>1, <2>2 DEF Told, CommitTold, PipelineTold, Grows
  <2> QED
    BY <2>3, <2>4, <2>5 DEF TruthfulCopies
<1>4. SingleWriter'
  BY <1>1 DEF RecordIsTruthful, SingleWriter
<1>5. EventsOf(cur) \in Seq(Events) /\ Len(EventsOf(cur)) <= 2
  <2>1. base.spec.events \in SUBSET Events
    BY DEF TypeOK, WorkerOK, Record
  <2>2. EventsOf(cur) \in Seq(Events)
    BY <1>2, ProcessingType
  <2>3. Len(EventsOf(cur)) <= 2
    BY <2>1, BatchLength DEF EventsOf
  <2> QED
    BY <2>2, <2>3
<1>6. toSend = EventsOf(cur)
  <2>1. Len(EventsOf(cur)) = 2 => Len(Tail(EventsOf(cur))) = 1
    <3>1. Len(EventsOf(cur)) = 2 => Len(EventsOf(cur)) > 0
      OBVIOUS
    <3> QED
      BY <1>5, <3>1, TailLength, Zenon
  <2> QED
    BY <1>1, <2>1 DEF RecordIsTruthful, Sending
<1>7. Head(toSend) = "new_commit"
  <2>1. base.spec.events \in SUBSET Events
    BY DEF TypeOK, WorkerOK, Record
  <2> QED
    BY <2>1, <1>6, BatchOrder DEF EventsOf
<1>8. snap[cur].obs.sha \in delivered'[cur]
  BY <1>1, <1>2, <1>7 DEF SendOk, Received, Message, IsCommit, TypeOK, HistoryOK
<1>9. Sending'
  <2>1. EventsOf(cur)' = EventsOf(cur)
    BY <1>1 DEF EventsOf
  <2>2. Len(toSend) = 2 /\ Tail(toSend) # <<>>
    <3>1. Len(toSend) <= 2
      BY <1>5, <1>6
    <3>2. Len(toSend) > 0
      BY <1>2, LenProperties
    <3> QED
      BY <1>2, <3>1, <3>2, TailLength, Zenon
  <2> QED
    BY <1>1, <1>6, <1>8, <2>1, <2>2 DEF Sending
<1> QED
  BY <1>3, <1>4, <1>9 DEF RecordIsTruthful

\* The last message of a batch: the project is recorded.
LEMMA BatchStep ==
    ASSUME TypeOK, RecordIsTruthful, Grows, SendOk, ~(Len(toSend) > 1)
    PROVE  RecordIsTruthful'
<1>1. /\ pc = "send" /\ pc' = "process"
      /\ mem' = [mem EXCEPT ![cur] = NextState(cur)]
      /\ UNCHANGED <<notifier, base>>
  BY DEF SendOk, NextProject, cluster
<1>2. cur \in Projects
  BY <1>1 DEF TypeOK, WorkerOK
<1>3. ASSUME NEW q \in Projects, q = cur
      PROVE  Told(q, mem[q])'
  <2> DEFINE s == NextState(cur)
  <2>1. mem'[q] = s
    BY <1>1, <1>3 DEF TypeOK, WorkerOK
  <2>2. /\ s.sha = NoSha \/ s.sha \in delivered'[q] \/ CommitTold(q, s.sha)
        /\ <<s.id, s.status>> \in delivered'[q] \/ PipelineTold(q, s.id, s.status)
    BY <1>3, BatchTold
  <2> HIDE DEF s
  <2>3. CommitTold(q, mem[q].sha)'
    BY <2>1, <2>2 DEF CommitTold, Grows
  <2>4. PipelineTold(q, mem[q].id, mem[q].status)'
    BY <2>1, <2>2 DEF PipelineTold, Grows
  <2> QED
    BY <2>3, <2>4 DEF Told
<1>4. ASSUME NEW q \in Projects
      PROVE  mem'[q] = mem[q] \/ Told(q, mem[q])'
  <2>1. CASE q = cur
    BY <1>3, <2>1
  <2>2. CASE q # cur
    BY <1>1, <2>2 DEF TypeOK, WorkerOK
  <2> QED
    BY <2>1, <2>2
<1> QED
  BY <1>1, <1>4, WorkerMoves

\* Each step of the specification keeps the record truthful.
LEMMA RecordStep == TypeOK /\ RecordIsTruthful /\ [Next]_vars => RecordIsTruthful'
<1> SUFFICES ASSUME TypeOK, RecordIsTruthful, [Next]_vars
             PROVE  RecordIsTruthful'
  OBVIOUS
<1> USE HistoryGrows DEF cluster
<1>a. notifier \in Record /\ base \in Record
  BY DEF TypeOK, ClusterOK, WorkerOK
<1>b. \A p \in Projects : Absent.states[p] = Nothing /\ Told(p, notifier.states[p])
  BY DEF Absent, RecordIsTruthful, NoSilentRecord
<1>1. ASSUME UNCHANGED <<notifier, pc, locals>>
      PROVE  RecordIsTruthful'
  BY <1>1, WorkerUntouched
<1>2. CASE UNCHANGED vars
  BY <1>1, <1>2 DEF vars
<1>3. CASE SyncCache \/ Resync \/ TimerFires \/ ChangeSecret
  BY <1>1, <1>3 DEF SyncCache, Resync, TimerFires, ChangeSecret
<1>4. ASSUME NEW p \in Projects,
             CreateProject(p) \/ DeleteProject(p) \/ SetNotifierRef(p) \/ ReportStatus(p)
      PROVE  RecordIsTruthful'
  BY <1>1, <1>4 DEF CreateProject, DeleteProject, SetNotifierRef, ReportStatus, ProjectEvent
<1>5. ASSUME NEW s \in Specs, CreateNotifier(s)
      PROVE  RecordIsTruthful'
  <2>1. notifier'.states = Absent.states
    BY <1>5 DEF CreateNotifier, NotifierEvent, Fresh, Absent
  <2> QED
    BY <1>5, <1>b, <2>1, WorkerUntouched DEF CreateNotifier, NotifierEvent
<1>6. ASSUME NEW s \in Specs, EditNotifier(s)
      PROVE  RecordIsTruthful'
  <2>1. notifier'.states = notifier.states
    BY <1>6, <1>a DEF EditNotifier, NotifierEvent, Record
  <2> QED
    BY <1>6, <2>1, WorkerUntouched DEF EditNotifier, NotifierEvent
<1>7. CASE DeleteNotifier
  <2>1. notifier'.states = Absent.states
    BY <1>7 DEF DeleteNotifier, NotifierEvent, Absent
  <2> QED
    BY <1>7, <1>b, <2>1, WorkerUntouched DEF DeleteNotifier, NotifierEvent
<1>8. CASE Crash
  BY <1>8, <1>b, WorkerEnds DEF Crash
<1>9. CASE Start
  <2>1. CASE notifier.exists
    <3>1. /\ pc' = "resolve" /\ base' = notifier /\ mem' = notifier.states
          /\ notifier' = notifier
      BY <1>9, <2>1 DEF Start, GetNotifier
    <3>2. UNCHANGED <<delivered, seeded>>
      BY <1>9 DEF Start, history
    <3>3. NoSilentRecord' /\ TruthfulCopies'
      BY <1>b, <3>1, <3>2 DEF NoSilentRecord, TruthfulCopies, Told, CommitTold, PipelineTold
    <3>4. SingleWriter' /\ Sending'
      BY <3>1 DEF SingleWriter, Sending
    <3> QED
      BY <3>3, <3>4 DEF RecordIsTruthful
  <2>2. CASE ~notifier.exists
    BY <1>1, <1>9, <2>2 DEF Start, GetNotifier
  <2> QED
    BY <2>1, <2>2
<1>10. CASE ResolveProviders \/ HealthCheck
  BY <1>10, WorkerMoves DEF ResolveProviders, HealthCheck, Goto
<1>11. CASE FindLinkedProjects
  BY <1>11, WorkerMoves DEF FindLinkedProjects
<1>12. CASE ListFails \/ GetFails
  BY <1>12, <1>b, WorkerEnds DEF ListFails, GetFails, Finish
<1>13. ASSUME NEW p \in Projects, SkipProject(p)
       PROVE  RecordIsTruthful'
  BY <1>13, WorkerMoves DEF SkipProject, Processing
<1>14. ASSUME NEW p \in Projects, SeedProject(p)
       PROVE  RecordIsTruthful'
  <2>1. /\ pc = "process" /\ pc' = pc /\ UNCHANGED <<notifier, base>>
        /\ mem' = [mem EXCEPT ![p] = snap[p].obs]
    BY <1>14 DEF SeedProject, Processing
  <2>2. <<snap[p].obs, snap[p].created>> \in seeded'[p]
    BY <1>14 DEF SeedProject, TypeOK, HistoryOK
  <2>3. CommitTime[snap[p].obs.sha] < snap[p].created /\ mem'[p] = snap[p].obs
    BY <1>14, <2>1 DEF SeedProject, Predates, TypeOK, WorkerOK
  <2>4. Told(p, mem[p])'
    BY <2>2, <2>3 DEF Told, CommitTold, PipelineTold
  <2>5. ASSUME NEW q \in Projects
        PROVE  mem'[q] = mem[q] \/ Told(q, mem[q])'
    BY <2>1, <2>4 DEF TypeOK, WorkerOK
  <2> QED
    BY <2>1, <2>5, WorkerMoves
<1>15. ASSUME NEW p \in Projects, Panic(p)
       PROVE  RecordIsTruthful'
  BY <1>15, <1>b, WorkerEnds DEF Panic, Finish
<1>16. ASSUME NEW p \in Projects, DetectProject(p)
       PROVE  RecordIsTruthful'
  <2>1. /\ pc = "process" /\ pc' = "send" /\ cur' = p /\ toSend' = EventsOf(p)
        /\ UNCHANGED <<notifier, base, mem, snap, delivered, seeded>>
    BY <1>16 DEF DetectProject, Detecting, Processing, history
  <2>2. NoSilentRecord' /\ TruthfulCopies'
    <3>1. NoSilentRecord'
      BY <2>1 DEF RecordIsTruthful, NoSilentRecord, Told, CommitTold, PipelineTold
    <3>2. TruthfulCopies'
      BY <2>1 DEF RecordIsTruthful, TruthfulCopies, Told, CommitTold, PipelineTold
    <3> QED
      BY <3>1, <3>2
  <2>3. SingleWriter'
    BY <2>1 DEF RecordIsTruthful, SingleWriter
  <2>4. Sending'
    BY <1>16, <2>1 DEF DetectProject, Sending, EventsOf
  <2> QED
    BY <2>2, <2>3, <2>4 DEF RecordIsTruthful
<1>17. CASE SendOk
  BY <1>17, SendingStep, BatchStep
<1>18. CASE SendFails
  BY <1>18, WorkerMoves DEF SendFails, NextProject
<1>19. CASE PatchOk
  <2>1. \A p \in Projects : Told(p, Patched.states[p])
    BY <1>19, PatchedTold DEF PatchOk, AtPatch
  <2> QED
    BY <1>19, <2>1, WorkerEnds DEF PatchOk, Finish
<1>20. CASE PatchFails
  <2>1. \A p \in Projects : Told(p, Patched.states[p])
    BY <1>20, PatchedTold DEF PatchFails, AtPatch
  <2> QED
    BY <1>20, <1>b, <2>1, WorkerEnds DEF PatchFails, Finish
<1> QED
  BY <1>2, <1>3, <1>4, <1>5, <1>6, <1>7, <1>8, <1>9, <1>10, <1>11, <1>12, <1>13, <1>14, <1>15,
     <1>16, <1>17, <1>18, <1>19, <1>20
  DEF Next, Reconcile, Cluster

\* The strengthened invariant holds in every reachable state: the stored record
\* and both copies the worker holds only ever name what was told.
THEOREM RecordTruthful == Spec => []RecordIsTruthful
<1>1. Init => RecordIsTruthful
  BY RecordInit
<1>2. TypeOK /\ RecordIsTruthful /\ [Next]_vars => RecordIsTruthful'
  BY RecordStep
<1> QED
  BY <1>1, <1>2, TypeCorrect, PTL DEF Spec

\* No silent record: a commit or pipeline status that status.projectStates calls
\* notified was accepted by Discord or seeded as older than the GitlabProject, for
\* any number of projects, faults, restarts and re-creations.
THEOREM NoSilentRecords == Spec => []NoSilentRecord
<1>1. RecordIsTruthful => NoSilentRecord
  BY DEF RecordIsTruthful
<1> QED
  BY <1>1, RecordTruthful, PTL

\* Single writer: the merge patch at the end of a reconcile meets the record the
\* reconcile read, or an empty one.
THEOREM SingleWriters == Spec => []SingleWriter
<1>1. RecordIsTruthful => SingleWriter
  BY DEF RecordIsTruthful
<1> QED
  BY <1>1, RecordTruthful, PTL

===============================================================================
