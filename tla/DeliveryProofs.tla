---------------------------- MODULE DeliveryProofs ----------------------------
(***************************************************************************)
(* That a message is repeated only for a cause, and that the Notifier      *)
(* controller keeps the contract of Delivery, for every set of projects,   *)
(* commits, pipelines and specs, and every bound.                          *)
(***************************************************************************)
EXTENDS NotifierProofs

-------------------------------------------------------------------------------
(* Batches.                                                                  *)

CFires == CommitFires(base.spec.events, snap[cur].obs, mem[cur])
PFires == PipelineFires(base.spec.events, snap[cur].obs, mem[cur])

\* While the worker sends: whether the commit or the pipeline is next, what is
\* still to come, and what was sent before.
LEMMA BatchMeaning ==
    ASSUME TypeOK, RecordIsTruthful, pc = "send"
    PROVE  /\ cur \in Projects
           /\ IsCommit => CFires /\ toSend = EventsOf(cur)
           /\ ~IsCommit => PFires /\ (CFires <=> toSend # EventsOf(cur))
           /\ Len(toSend) > 1 => IsCommit /\ Tail(toSend) # EventsOf(cur)
           /\ ~(Len(toSend) > 1) /\ IsCommit => ~PFires
<1> DEFINE e == EventOf(snap[cur].obs.status)
           c == "new_commit"
<1>1. cur \in Projects /\ toSend # <<>>
  BY DEF TypeOK, WorkerOK, RecordIsTruthful, Sending
<1>2. PFires => e \in Events /\ e # c
  <2>1. base.spec.events \subseteq Events
    BY DEF TypeOK, WorkerOK, Record
  <2> QED
    BY <2>1 DEF PFires, PipelineFires, EventOf
<1>3. c \in Events
  BY DEF Events
<1>4. EventsOf(cur) = (IF CFires THEN <<c>> ELSE <<>>) \o (IF PFires THEN <<e>> ELSE <<>>)
  BY DEF EventsOf, DetectEvents, CFires, PFires
<1>5. \/ toSend = EventsOf(cur)
      \/ Len(EventsOf(cur)) = 2 /\ toSend = Tail(EventsOf(cur))
  BY DEF RecordIsTruthful, Sending
<1> HIDE DEF e
<1>6. CASE CFires /\ PFires
  <2>1. EventsOf(cur) = <<c, e>>
    BY <1>2, <1>3, <1>4, <1>6, PairOfEvents
  <2>2. Len(<<c, e>>) = 2 /\ Tail(<<c, e>>) = <<e>> /\ Len(<<e>>) = 1
        /\ Head(<<c, e>>) = c /\ Head(<<e>>) = e /\ <<e>> # <<c, e>>
    OBVIOUS
  <2>3. CASE toSend = <<c, e>>
    <3>1. IsCommit /\ toSend = EventsOf(cur) /\ Len(toSend) = 2 /\ Tail(toSend) = <<e>>
      BY <2>1, <2>2, <2>3 DEF IsCommit
    <3> QED
      BY <1>1, <1>6, <2>1, <2>2, <3>1
  <2>4. CASE toSend = <<e>>
    <3>1. ~IsCommit /\ toSend # EventsOf(cur) /\ Len(toSend) = 1
      BY <1>2, <1>6, <2>1, <2>2, <2>4 DEF IsCommit
    <3> QED
      BY <1>1, <1>6, <3>1
  <2> QED
    BY <1>5, <2>1, <2>2, <2>3, <2>4
<1>7. CASE CFires /\ ~PFires
  <2>1. EventsOf(cur) = <<c>>
    BY <1>3, <1>4, <1>7
  <2>2. Len(<<c>>) = 1 /\ Head(<<c>>) = c
    OBVIOUS
  <2> QED
    BY <1>1, <1>5, <1>7, <2>1, <2>2 DEF IsCommit
<1>8. CASE ~CFires /\ PFires
  <2>1. EventsOf(cur) = <<e>>
    BY <1>2, <1>4, <1>8, PairOfEvents, <1>3
  <2>2. Len(<<e>>) = 1 /\ Head(<<e>>) = e
    OBVIOUS
  <2>3. toSend = EventsOf(cur) /\ Len(toSend) = 1 /\ ~IsCommit
    BY <1>2, <1>5, <1>8, <2>1, <2>2 DEF IsCommit
  <2> QED
    BY <1>1, <1>8, <2>3
<1>9. CASE ~CFires /\ ~PFires
  <2>1. EventsOf(cur) = <<>>
    BY <1>4, <1>9
  <2> QED
    BY <1>1, <1>5, <2>1
<1> QED
  BY <1>6, <1>7, <1>8, <1>9

-------------------------------------------------------------------------------
(* Every repeat has a cause.                                                 *)

Counters == [commit : Nat, pipeline : Nat]

LEMMA CountersType ==
    ASSUME TypeOK
    PROVE  /\ faults \in Nat /\ swaps \in Nat
           /\ \A p \in Projects : dups[p].commit \in Nat /\ dups[p].pipeline \in Nat
BY DEF TypeOK, ClusterOK, HistoryOK

\* What Discord's answer changes: the counter and the last message of its kind.
LEMMA ReceivedEffects ==
    ASSUME TypeOK, pc = "send", Received
    PROVE  /\ \A p \in Projects : p # cur => lastSent'[p] = lastSent[p] /\ dups'[p] = dups[p]
           /\ IsCommit =>
                 /\ lastSent'[cur].sha = snap[cur].obs.sha
                 /\ lastSent'[cur].id = lastSent[cur].id
                 /\ lastSent'[cur].status = lastSent[cur].status
                 /\ dups'[cur].commit = dups[cur].commit + Count(Repeats)
                 /\ dups'[cur].pipeline = dups[cur].pipeline
           /\ ~IsCommit =>
                 /\ lastSent'[cur].sha = lastSent[cur].sha
                 /\ lastSent'[cur].id = snap[cur].obs.id
                 /\ lastSent'[cur].status = snap[cur].obs.status
                 /\ dups'[cur].commit = dups[cur].commit
                 /\ dups'[cur].pipeline = dups[cur].pipeline + Count(Repeats)
<1>1. cur \in Projects /\ lastSent \in [Projects -> Observation]
      /\ dups \in [Projects -> Counters] /\ lastSent[cur] \in Observation
      /\ dups[cur] \in Counters
  BY DEF TypeOK, WorkerOK, HistoryOK, Counters
<1>2. \A p \in Projects : p # cur => lastSent'[p] = lastSent[p] /\ dups'[p] = dups[p]
  BY <1>1 DEF Received
<1>3. CASE IsCommit
  <2>1. lastSent'[cur] = [lastSent[cur] EXCEPT !.sha = snap[cur].obs.sha]
    BY <1>1, <1>3 DEF Received
  <2>2. dups'[cur] = IF Repeats THEN [dups[cur] EXCEPT !.commit = @ + 1] ELSE dups[cur]
    BY <1>1, <1>3 DEF Received
  <2>3. /\ lastSent'[cur].sha = snap[cur].obs.sha
        /\ lastSent'[cur].id = lastSent[cur].id
        /\ lastSent'[cur].status = lastSent[cur].status
    BY <1>1, <2>1 DEF Observation
  <2>4. dups'[cur].commit = dups[cur].commit + Count(Repeats)
    <3>1. CASE Repeats
      BY <1>1, <2>2, <3>1 DEF Counters, Count
    <3>2. CASE ~Repeats
      BY <1>1, <2>2, <3>2 DEF Counters, Count
    <3> QED
      BY <3>1, <3>2
  <2>5. dups'[cur].pipeline = dups[cur].pipeline
    BY <1>1, <2>2 DEF Counters
  <2> QED
    BY <1>2, <1>3, <2>3, <2>4, <2>5
<1>4. CASE ~IsCommit
  <2>1. lastSent'[cur] = [lastSent[cur] EXCEPT !.id = snap[cur].obs.id,
                                               !.status = snap[cur].obs.status]
    BY <1>1, <1>4 DEF Received
  <2>2. dups'[cur] = IF Repeats THEN [dups[cur] EXCEPT !.pipeline = @ + 1] ELSE dups[cur]
    BY <1>1, <1>4 DEF Received
  <2>3. /\ lastSent'[cur].sha = lastSent[cur].sha
        /\ lastSent'[cur].id = snap[cur].obs.id
        /\ lastSent'[cur].status = snap[cur].obs.status
    BY <1>1, <2>1 DEF Observation
  <2>4. dups'[cur].pipeline = dups[cur].pipeline + Count(Repeats)
    <3>1. CASE Repeats
      BY <1>1, <2>2, <3>1 DEF Counters, Count
    <3>2. CASE ~Repeats
      BY <1>1, <2>2, <3>2 DEF Counters, Count
    <3> QED
      BY <3>1, <3>2
  <2>5. dups'[cur].commit = dups[cur].commit
    BY <1>1, <2>2 DEF Counters
  <2> QED
    BY <1>2, <1>4, <2>3, <2>4, <2>5
<1> QED
  BY <1>3, <1>4

\* A message repeats the last one only if the record has forgotten it.
LEMMA RepeatsAreForgotten ==
    ASSUME TypeOK, RecordIsTruthful, pc = "send", Adapters(base.spec) # {}, Repeats
    PROVE  IF IsCommit THEN CommitForgotten(cur) ELSE PipelineForgotten(cur)
<1>1. cur \in Projects /\ mem[cur] \in Observation
  BY DEF TypeOK, WorkerOK
<1>2. CASE IsCommit
  <2>1. CFires /\ toSend = EventsOf(cur)
    BY <1>2, BatchMeaning
  <2>2. Memory(cur) = mem[cur]
    BY <2>1 DEF Memory
  <2> QED
    BY <1>2, <2>1, <2>2 DEF Repeats, CFires, CommitFires, CommitForgotten, InUse
<1>3. CASE ~IsCommit
  <2>1. PFires
    BY <1>3, BatchMeaning
  <2>2. Memory(cur).id = mem[cur].id /\ Memory(cur).status = mem[cur].status
    BY <1>1 DEF Memory, Observation
  <2> QED
    BY <1>3, <2>1, <2>2 DEF Repeats, PFires, PipelineFires, PipelineForgotten, InUse
<1> QED
  BY <1>2, <1>3

\* A step that sends nothing: what is newly forgotten was paid for by a new cause or
\* by the reserve for a swap.
NothingNewForgotten(p) ==
    /\ Swapped(p)' => Swapped(p)
    /\ CommitForgotten(p)' => CommitForgotten(p) \/ (Swapped(p) /\ ~Swapped(p)')
    /\ PipelineForgotten(p)' => PipelineForgotten(p) \/ (Swapped(p) /\ ~Swapped(p)')

LEMMA SilentStep ==
    ASSUME TypeOK, RepeatsAccounted, dups' = dups, swaps' = swaps,
           \/ faults' = faults /\ \A p \in Projects : NothingNewForgotten(p)
           \/ faults' = faults + 1 /\ \A p \in Projects : Swapped(p)' => Swapped(p)
    PROVE  RepeatsAccounted'
<1> SUFFICES ASSUME NEW p \in Projects
             PROVE  /\ dups'[p].commit + Count(CommitForgotten(p))' + Count(Swapped(p))'
                          <= faults' + swaps'
                    /\ dups'[p].pipeline + Count(PipelineForgotten(p))' + Count(Swapped(p))'
                          <= faults' + swaps'
  BY DEF RepeatsAccounted
<1>1. /\ faults \in Nat /\ swaps \in Nat
      /\ dups[p].commit \in Nat /\ dups[p].pipeline \in Nat
  BY CountersType
<1>2. /\ dups[p].commit + Count(CommitForgotten(p)) + Count(Swapped(p)) <= faults + swaps
      /\ dups[p].pipeline + Count(PipelineForgotten(p)) + Count(Swapped(p)) <= faults + swaps
  BY DEF RepeatsAccounted
<1> QED
  BY <1>1, <1>2 DEF Count, NothingNewForgotten

\* A step of the rest of the cluster, which may take the Notifier away.
LEMMA ClusterRepeats ==
    ASSUME TypeOK, RepeatsHaveCauses, UNCHANGED <<pc, locals, lastSent, dups, swaps, faults>>,
           notifier'.exists => notifier.exists /\ notifier'.states = notifier.states
    PROVE  RepeatsHaveCauses'
<1> USE DEF locals
<1>1. ASSUME NEW p \in Projects
      PROVE  NothingNewForgotten(p)
  <2>1. EventsOf(p)' = EventsOf(p)
    BY DEF EventsOf
  <2>2. pc # "idle" => Memory(p)' = Memory(p)
    BY <2>1 DEF Memory
  <2>3. pc = "idle" /\ notifier'.exists => Memory(p)' = Memory(p)
    BY DEF Memory
  <2> QED
    BY <2>2, <2>3 DEF NothingNewForgotten, CommitForgotten, PipelineForgotten, InUse, Swapped
<1>2. WithoutAdapters'
  BY DEF RepeatsHaveCauses, WithoutAdapters
<1> QED
  BY <1>1, <1>2, SilentStep DEF RepeatsHaveCauses

LEMMA NothingParts == Nothing.sha = NoSha /\ Nothing.id = 0 /\ Nothing.status = ""
BY DEF Nothing

\* A new Notifier's users have seen nothing; one created under a running reconcile
\* counts as a cause.
LEMMA CreateRepeats ==
    ASSUME TypeOK, RepeatsHaveCauses, NEW s \in Specs, CreateNotifier(s)
    PROVE  RepeatsHaveCauses'
<1>1. /\ UNCHANGED <<pc, base, mem, dups, faults>>
      /\ swaps' = IF pc = "idle" THEN swaps ELSE swaps + 1
      /\ \A p \in Projects : lastSent'[p] = Nothing
  BY DEF CreateNotifier, NotifierEvent, locals
<1>2. RepeatsAccounted'
  <2> SUFFICES ASSUME NEW p \in Projects
               PROVE  /\ dups'[p].commit + Count(CommitForgotten(p))' + Count(Swapped(p))'
                            <= faults' + swaps'
                      /\ dups'[p].pipeline + Count(PipelineForgotten(p))' + Count(Swapped(p))'
                            <= faults' + swaps'
    BY DEF RepeatsAccounted
  <2>1. ~CommitForgotten(p)' /\ ~PipelineForgotten(p)'
    BY <1>1, NothingParts DEF CommitForgotten, PipelineForgotten
  <2>2. pc = "idle" => ~Swapped(p)'
    BY <1>1 DEF Swapped
  <2>3. /\ dups[p].commit <= faults + swaps /\ dups[p].pipeline <= faults + swaps
        /\ faults \in Nat /\ swaps \in Nat
        /\ dups[p].commit \in Nat /\ dups[p].pipeline \in Nat
    BY CountersType DEF RepeatsHaveCauses, RepeatsAccounted, Count
  <2> QED
    BY <1>1, <2>1, <2>2, <2>3 DEF Count
<1>3. WithoutAdapters'
  BY <1>1 DEF RepeatsHaveCauses, WithoutAdapters
<1> QED
  BY <1>2, <1>3 DEF RepeatsHaveCauses

\* A reconcile begins with the stored record.
LEMMA StartRepeats ==
    ASSUME TypeOK, RepeatsHaveCauses, Start
    PROVE  RepeatsHaveCauses'
<1>1. CASE notifier.exists
  <2>1. /\ pc = "idle" /\ pc' = "resolve" /\ base' = notifier /\ mem' = notifier.states
        /\ UNCHANGED <<notifier, lastSent, dups, swaps, faults>>
    BY <1>1 DEF Start, GetNotifier, cluster, history
  <2>2. ASSUME NEW p \in Projects
        PROVE  NothingNewForgotten(p)
    <3>1. Memory(p)' = notifier.states[p] /\ Memory(p) = notifier.states[p]
      BY <2>1 DEF Memory
    <3> QED
      BY <1>1, <2>1, <3>1 DEF NothingNewForgotten, CommitForgotten, PipelineForgotten,
         InUse, Swapped
  <2>3. WithoutAdapters'
    BY <2>1 DEF WithoutAdapters
  <2> QED
    BY <2>1, <2>2, <2>3, SilentStep DEF RepeatsHaveCauses
<1>2. CASE ~notifier.exists
  BY <1>2, ClusterRepeats DEF Start, GetNotifier, cluster, history
<1> QED
  BY <1>1, <1>2

\* The worker goes on without a message; what it adds to its copy was not there before.
LEMMA SilentWork ==
    ASSUME TypeOK, RepeatsHaveCauses, pc \notin {"idle", "send"},
           UNCHANGED <<notifier, base, lastSent, dups, swaps>>,
           \/ pc' \notin {"idle", "send"}
           \/ pc' = "send" /\ Adapters(base.spec) # {} /\ toSend' = EventsOf(cur)',
           faults' \in {faults, faults + 1},
           \A p \in Projects : mem[p] \in {mem'[p], Nothing}
    PROVE  RepeatsHaveCauses'
<1>1. ASSUME NEW p \in Projects
      PROVE  NothingNewForgotten(p)
  <2>1. Memory(p)' = IF Adapters(base.spec) = {} THEN base.states[p] ELSE mem'[p]
    BY DEF Memory
  <2>2. Memory(p) = IF Adapters(base.spec) = {} THEN base.states[p] ELSE mem[p]
    BY DEF Memory
  <2>3. Memory(p) \in {Memory(p)', Nothing}
    BY <2>1, <2>2
  <2> QED
    BY <2>3, NothingParts DEF NothingNewForgotten, CommitForgotten, PipelineForgotten, InUse, Swapped
<1>2. WithoutAdapters'
  BY DEF RepeatsHaveCauses, WithoutAdapters
<1>3. \A p \in Projects : Swapped(p)' => Swapped(p)
  BY <1>1 DEF NothingNewForgotten
<1> QED
  BY <1>1, <1>2, <1>3, SilentStep DEF RepeatsHaveCauses

\* The reconcile ends, with a cause or with a record that knows what the copy knew.
LEMMA EndRepeats ==
    ASSUME TypeOK, RepeatsHaveCauses, pc' = "idle", UNCHANGED <<lastSent, dups, swaps>>,
           \/ faults' = faults + 1
           \/ /\ faults' = faults /\ pc # "idle"
              /\ notifier'.exists =>
                    \A p \in Projects :
                        Swapped(p) \/ Memory(p) \in {notifier'.states[p], Nothing}
    PROVE  RepeatsHaveCauses'
<1>1. \A p \in Projects : ~Swapped(p)'
  BY DEF Swapped
<1>2. WithoutAdapters'
  BY DEF WithoutAdapters
<1>3. CASE faults' = faults + 1
  BY <1>1, <1>2, <1>3, SilentStep DEF RepeatsHaveCauses
<1>4. CASE faults' # faults + 1
  <2>1. ASSUME NEW p \in Projects
        PROVE  NothingNewForgotten(p)
    <3>1. Memory(p)' = notifier'.states[p] /\ (InUse' <=> notifier'.exists) /\ InUse
      BY <1>4 DEF Memory, InUse
    <3> QED
      BY <1>1, <1>4, <3>1, NothingParts DEF NothingNewForgotten, CommitForgotten, PipelineForgotten
  <2> QED
    BY <1>2, <1>4, <2>1, SilentStep DEF RepeatsHaveCauses
<1> QED
  BY <1>3, <1>4

\* The patch stores the working copy, but for a Notifier that was replaced.
LEMMA PatchMemory ==
    ASSUME TypeOK, RecordIsTruthful, RepeatsHaveCauses, AtPatch, notifier.exists,
           NEW p \in Projects
    PROVE  Swapped(p) \/ Memory(p) \in {Patched.states[p], Nothing}
<1> SUFFICES ASSUME ~Swapped(p)
             PROVE  Memory(p) \in {Patched.states[p], Nothing}
  OBVIOUS
<1>1. pc \notin {"idle", "send"}
  BY DEF AtPatch
<1>2. notifier.states[p] = base.states[p]
  BY <1>1 DEF Swapped
<1>3. Patched.states[p] = mem[p]
  <2>1. Patched.states[p] = MergeState(base.states[p], mem[p], notifier.states[p])
    BY DEF Patched, TypeOK, ClusterOK, Record
  <2>2. base.states[p] \in Observation /\ mem[p] \in Observation
    BY DEF TypeOK, WorkerOK, Record
  <2> QED
    BY <1>2, <2>1, <2>2 DEF MergeState, Merged, Observation
<1>4. Memory(p) = IF Adapters(base.spec) = {} THEN base.states[p] ELSE mem[p]
  BY <1>1 DEF Memory
<1> QED
  BY <1>1, <1>3, <1>4 DEF RepeatsHaveCauses, WithoutAdapters

\* The worker sends only with an adapter.
LEMMA SendingHasAdapters ==
    ASSUME RepeatsHaveCauses, pc = "send"
    PROVE  Adapters(base.spec) # {}
BY DEF RepeatsHaveCauses, WithoutAdapters

\* A message that Discord accepted: a repeat is paid by what was forgotten of it,
\* and the record now knows the message.
LEMMA SentRepeats ==
    ASSUME TypeOK, RecordIsTruthful, RepeatsHaveCauses, SendOk
    PROVE  RepeatsHaveCauses'
<1>1. /\ pc = "send" /\ Received /\ cur \in Projects
      /\ UNCHANGED <<notifier, base, snap, faults, swaps>>
      /\ Adapters(base.spec) # {}
  BY BatchMeaning, SendingHasAdapters DEF SendOk, Received, cluster
<1>2. mem \in [Projects -> Observation] /\ snap[cur].obs \in Observation
  BY <1>1, ProcessingType DEF TypeOK, WorkerOK
<1>3. \A p \in Projects : Swapped(p)' = Swapped(p)
  <2>1. pc' # "idle"
    BY <1>1 DEF SendOk, NextProject
  <2> QED
    BY <1>1, <2>1 DEF Swapped
<1>4. ASSUME NEW p \in Projects, p = cur
      PROVE  /\ Memory(p)'.sha = IF IsCommit THEN snap[p].obs.sha ELSE Memory(p).sha
             /\ Memory(p)'.id = IF IsCommit THEN Memory(p).id ELSE snap[p].obs.id
             /\ Memory(p)'.status = IF IsCommit THEN Memory(p).status ELSE snap[p].obs.status
  <2>1. CASE Len(toSend) > 1
    <3>1. /\ IsCommit /\ toSend = EventsOf(p) /\ toSend' # EventsOf(p)
          /\ pc' = "send" /\ cur' = cur /\ mem' = mem
      BY <1>1, <1>4, <2>1, BatchMeaning DEF SendOk
    <3>2. EventsOf(p)' = EventsOf(p)
      BY <1>1, <3>1 DEF EventsOf
    <3>3. Memory(p)' = [mem[p] EXCEPT !.sha = snap[p].obs.sha]
      BY <1>1, <1>4, <3>1, <3>2 DEF Memory
    <3>4. Memory(p) = mem[p]
      BY <1>1, <3>1 DEF Memory
    <3> QED
      BY <1>1, <1>2, <3>1, <3>3, <3>4 DEF Observation
  <2>2. CASE ~(Len(toSend) > 1)
    <3>1. pc' = "process" /\ mem' = [mem EXCEPT ![cur] = NextState(cur)]
      BY <2>2 DEF SendOk, NextProject
    <3>2. mem'[p] = NextState(p)
      BY <1>1, <1>2, <1>4, <3>1
    <3>3. Memory(p)' = mem'[p]
      BY <1>1, <3>1 DEF Memory
    <3>4. NextState(p) =
            [sha    |-> IF CFires THEN snap[p].obs.sha ELSE mem[p].sha,
             id     |-> IF PFires THEN snap[p].obs.id ELSE mem[p].id,
             status |-> IF PFires THEN snap[p].obs.status ELSE mem[p].status]
      BY <1>4 DEF NextState, Detected, CFires, PFires
    <3>5. CASE IsCommit
      <4>1. CFires /\ ~PFires /\ toSend = EventsOf(p)
        BY <1>1, <1>4, <2>2, <3>5, BatchMeaning
      <4>2. Memory(p) = mem[p]
        BY <1>1, <4>1 DEF Memory
      <4> QED
        BY <1>1, <3>2, <3>3, <3>4, <3>5, <4>1, <4>2
    <3>6. CASE ~IsCommit
      <4>1. PFires /\ (CFires <=> toSend # EventsOf(p))
        BY <1>1, <1>4, <3>6, BatchMeaning
      <4>2. Memory(p).sha = IF CFires THEN snap[p].obs.sha ELSE mem[p].sha
        BY <1>1, <1>2, <1>4, <4>1 DEF Memory, Observation
      <4> QED
        BY <1>1, <3>2, <3>3, <3>4, <3>6, <4>1, <4>2
    <3> QED
      BY <3>5, <3>6
  <2> QED
    BY <2>1, <2>2
<1>5. ASSUME NEW p \in Projects, p # cur
      PROVE  Memory(p)' = Memory(p)
  <2>1. mem'[p] = mem[p]
    BY <1>1, <1>2, <1>5 DEF SendOk
  <2>2. Memory(p) = mem[p]
    BY <1>1, <1>5 DEF Memory
  <2>3. pc' \in {"process", "send"} /\ (pc' = "send" => cur' = cur)
    BY <1>1 DEF SendOk, NextProject
  <2>4. Memory(p)' = mem'[p]
    BY <1>1, <1>5, <2>3 DEF Memory
  <2> QED
    BY <2>1, <2>2, <2>4
<1>6. InUse /\ InUse'
  BY <1>1 DEF SendOk, NextProject, InUse
<1>7. RepeatsAccounted'
  <2> SUFFICES ASSUME NEW p \in Projects
               PROVE  /\ dups'[p].commit + Count(CommitForgotten(p))' + Count(Swapped(p))'
                            <= faults' + swaps'
                      /\ dups'[p].pipeline + Count(PipelineForgotten(p))' + Count(Swapped(p))'
                            <= faults' + swaps'
    BY DEF RepeatsAccounted
  <2>1. /\ faults \in Nat /\ swaps \in Nat
        /\ dups[p].commit \in Nat /\ dups[p].pipeline \in Nat
    BY CountersType
  <2>2. /\ dups[p].commit + Count(CommitForgotten(p)) + Count(Swapped(p)) <= faults + swaps
        /\ dups[p].pipeline + Count(PipelineForgotten(p)) + Count(Swapped(p)) <= faults + swaps
    BY DEF RepeatsHaveCauses, RepeatsAccounted
  <2>3. CASE p # cur
    <3>1. lastSent'[p] = lastSent[p] /\ dups'[p] = dups[p]
      BY <1>1, <2>3, ReceivedEffects
    <3>2. /\ CommitForgotten(p)' = CommitForgotten(p)
          /\ PipelineForgotten(p)' = PipelineForgotten(p)
      BY <1>5, <1>6, <2>3, <3>1 DEF CommitForgotten, PipelineForgotten
    <3> QED
      BY <1>1, <1>3, <2>2, <3>1, <3>2 DEF Count
  <2>4. CASE p = cur /\ IsCommit
    <3>1. /\ ~CommitForgotten(p)'
          /\ PipelineForgotten(p)' = PipelineForgotten(p)
      BY <1>1, <1>4, <1>6, <2>4, ReceivedEffects DEF CommitForgotten, PipelineForgotten
    <3>2. Repeats => CommitForgotten(p)
      BY <1>1, <2>4, RepeatsAreForgotten
    <3>3. /\ dups'[p].commit = dups[p].commit + Count(Repeats)
          /\ dups'[p].pipeline = dups[p].pipeline
      BY <1>1, <2>4, ReceivedEffects
    <3> QED
      BY <1>1, <1>3, <2>1, <2>2, <3>1, <3>2, <3>3 DEF Count
  <2>5. CASE p = cur /\ ~IsCommit
    <3>1. /\ ~PipelineForgotten(p)'
          /\ CommitForgotten(p)' = CommitForgotten(p)
      BY <1>1, <1>4, <1>6, <2>5, ReceivedEffects DEF CommitForgotten, PipelineForgotten
    <3>2. Repeats => PipelineForgotten(p)
      BY <1>1, <2>5, RepeatsAreForgotten
    <3>3. /\ dups'[p].pipeline = dups[p].pipeline + Count(Repeats)
          /\ dups'[p].commit = dups[p].commit
      BY <1>1, <2>5, ReceivedEffects
    <3> QED
      BY <1>1, <1>3, <2>1, <2>2, <3>1, <3>2, <3>3 DEF Count
  <2> QED
    BY <2>3, <2>4, <2>5
<1>8. WithoutAdapters'
  BY <1>1 DEF WithoutAdapters
<1> QED
  BY <1>7, <1>8 DEF RepeatsHaveCauses

\* A failed send is a cause of its own, whether or not Discord accepted it.
LEMMA FailedSendRepeats ==
    ASSUME TypeOK, RecordIsTruthful, RepeatsHaveCauses, SendFails
    PROVE  RepeatsHaveCauses'
<1>1. /\ pc = "send" /\ pc' = "process" /\ cur \in Projects
      /\ UNCHANGED <<notifier, base, mem, snap, swaps>> /\ faults' = faults + 1
      /\ Adapters(base.spec) # {}
      /\ Received \/ UNCHANGED <<dups, lastSent>>
  BY BatchMeaning, SendingHasAdapters DEF SendFails, Fault, NextProject, Received, cluster, history
<1>2. \A p \in Projects : Swapped(p)' = Swapped(p)
  BY <1>1 DEF Swapped
<1>3. WithoutAdapters'
  BY <1>1 DEF WithoutAdapters
<1>4. CASE Received
  <2> SUFFICES ASSUME NEW p \in Projects
               PROVE  /\ dups'[p].commit + Count(CommitForgotten(p))' + Count(Swapped(p))'
                            <= faults' + swaps'
                      /\ dups'[p].pipeline + Count(PipelineForgotten(p))' + Count(Swapped(p))'
                            <= faults' + swaps'
    BY <1>3 DEF RepeatsHaveCauses, RepeatsAccounted
  <2>1. /\ faults \in Nat /\ swaps \in Nat
        /\ dups[p].commit \in Nat /\ dups[p].pipeline \in Nat
    BY CountersType
  <2>2. /\ dups[p].commit + Count(CommitForgotten(p)) + Count(Swapped(p)) <= faults + swaps
        /\ dups[p].pipeline + Count(PipelineForgotten(p)) + Count(Swapped(p)) <= faults + swaps
    BY DEF RepeatsHaveCauses, RepeatsAccounted
  <2>3. /\ dups'[p].commit <= dups[p].commit + Count(CommitForgotten(p))
        /\ dups'[p].pipeline <= dups[p].pipeline + Count(PipelineForgotten(p))
    <3>1. p # cur => dups'[p] = dups[p]
      BY <1>1, <1>4, ReceivedEffects
    <3>2. Repeats => IF IsCommit THEN CommitForgotten(cur) ELSE PipelineForgotten(cur)
      BY <1>1, RepeatsAreForgotten
    <3>3. /\ dups'[cur].commit = dups[cur].commit + (IF IsCommit THEN Count(Repeats) ELSE 0)
          /\ dups'[cur].pipeline = dups[cur].pipeline + (IF IsCommit THEN 0 ELSE Count(Repeats))
      <4>1. dups[cur].commit \in Nat /\ dups[cur].pipeline \in Nat
        BY <1>1, CountersType
      <4> QED
        BY <1>1, <1>4, <4>1, ReceivedEffects
    <3> QED
      BY <2>1, <3>1, <3>2, <3>3 DEF Count
  <2>4. /\ dups'[p].commit \in Nat /\ dups'[p].pipeline \in Nat
    <3>1. HistoryOK'
      BY <1>1, <1>4, ReceivedType
    <3> QED
      BY <3>1 DEF HistoryOK
  <2> QED
    BY <1>1, <1>2, <2>1, <2>2, <2>3, <2>4 DEF Count
<1>5. CASE UNCHANGED <<dups, lastSent>>
  BY <1>1, <1>2, <1>3, <1>5, SilentStep DEF RepeatsHaveCauses
<1> QED
  BY <1>1, <1>4, <1>5

\* Each step of the specification keeps the account.
LEMMA RepeatsStep ==
    TypeOK /\ RecordIsTruthful /\ RepeatsHaveCauses /\ [Next]_vars => RepeatsHaveCauses'
<1> SUFFICES ASSUME TypeOK, RecordIsTruthful, RepeatsHaveCauses, [Next]_vars
             PROVE  RepeatsHaveCauses'
  OBVIOUS
<1> USE DEF cluster, history
<1>1. CASE UNCHANGED vars \/ SyncCache \/ Resync \/ TimerFires \/ ChangeSecret
  BY <1>1, ClusterRepeats DEF vars, SyncCache, Resync, TimerFires, ChangeSecret
<1>2. ASSUME NEW p \in Projects,
             CreateProject(p) \/ DeleteProject(p) \/ SetNotifierRef(p) \/ ReportStatus(p)
      PROVE  RepeatsHaveCauses'
  BY <1>2, ClusterRepeats
  DEF CreateProject, DeleteProject, SetNotifierRef, ReportStatus, ProjectEvent
<1>3. ASSUME NEW s \in Specs, CreateNotifier(s)
      PROVE  RepeatsHaveCauses'
  BY <1>3, CreateRepeats
<1>4. ASSUME NEW s \in Specs, EditNotifier(s)
      PROVE  RepeatsHaveCauses'
  <2>1. notifier'.states = notifier.states /\ notifier.exists
    BY <1>4 DEF EditNotifier, NotifierEvent, TypeOK, ClusterOK, Record
  <2> QED
    BY <1>4, <2>1, ClusterRepeats DEF EditNotifier, NotifierEvent
<1>5. CASE DeleteNotifier
  <2>1. ~notifier'.exists
    BY <1>5 DEF DeleteNotifier, NotifierEvent, Absent
  <2> QED
    BY <1>5, <2>1, ClusterRepeats DEF DeleteNotifier, NotifierEvent
<1>6. CASE Crash
  BY <1>6, EndRepeats DEF Crash, Fault
<1>7. CASE Start
  BY <1>7, StartRepeats
<1>8. CASE ResolveProviders \/ HealthCheck
  BY <1>8, SilentWork DEF ResolveProviders, HealthCheck, Goto, Fault
<1>9. CASE FindLinkedProjects
  BY <1>9, SilentWork DEF FindLinkedProjects
<1>10. CASE ListFails \/ GetFails
  BY <1>10, EndRepeats DEF ListFails, GetFails, Finish, Fault
<1>11. ASSUME NEW p \in Projects, SkipProject(p)
       PROVE  RepeatsHaveCauses'
  BY <1>11, SilentWork DEF SkipProject, Processing
<1>12. ASSUME NEW p \in Projects, SeedProject(p)
       PROVE  RepeatsHaveCauses'
  <2>1. /\ pc = "process" /\ pc' = pc /\ mem[p] = Nothing
        /\ UNCHANGED <<notifier, base, lastSent, dups, swaps, faults>>
    BY <1>12 DEF SeedProject, Processing, Predates, FirstSeen
  <2>2. \A q \in Projects : mem[q] \in {mem'[q], Nothing}
    BY <1>12, <2>1 DEF SeedProject, TypeOK, WorkerOK
  <2> QED
    BY <2>1, <2>2, SilentWork
<1>13. ASSUME NEW p \in Projects, Panic(p)
       PROVE  RepeatsHaveCauses'
  <2>1. /\ pc = "process" /\ pc' = "idle" /\ Adapters(base.spec) = {}
        /\ UNCHANGED <<notifier, lastSent, dups, swaps, faults>>
    BY <1>13 DEF Panic, Detecting, Processing, Finish
  <2>2. \A q \in Projects : Memory(q) = base.states[q]
    BY <2>1 DEF Memory
  <2>3. notifier'.exists => \A q \in Projects : Swapped(q) \/ Memory(q) = notifier'.states[q]
    BY <2>1, <2>2 DEF Swapped
  <2> QED
    BY <2>1, <2>3, EndRepeats
<1>14. ASSUME NEW p \in Projects, DetectProject(p)
       PROVE  RepeatsHaveCauses'
  <2>1. /\ pc = "process" /\ pc' = "send" /\ cur' = p /\ toSend' = EventsOf(p)
        /\ Adapters(base.spec) # {}
        /\ UNCHANGED <<notifier, base, mem, snap, lastSent, dups, swaps, faults>>
    BY <1>14 DEF DetectProject, Detecting, Processing
  <2>2. EventsOf(cur)' = EventsOf(p)
    BY <2>1 DEF EventsOf
  <2> QED
    BY <2>1, <2>2, SilentWork
<1>15. CASE SendOk
  BY <1>15, SentRepeats
<1>16. CASE SendFails
  BY <1>16, FailedSendRepeats
<1>17. CASE PatchOk
  <2>1. notifier.exists /\ notifier' = Patched /\ AtPatch
    BY <1>17 DEF PatchOk
  <2> QED
    BY <1>17, <2>1, PatchMemory, EndRepeats DEF PatchOk, Finish, AtPatch
<1>18. CASE PatchFails
  BY <1>18, EndRepeats DEF PatchFails, Finish, AtPatch, Fault
<1> QED
  BY <1>1, <1>2, <1>3, <1>4, <1>5, <1>6, <1>7, <1>8, <1>9, <1>10, <1>11, <1>12, <1>13, <1>14,
     <1>15, <1>16, <1>17, <1>18
  DEF Next, Reconcile, Cluster

LEMMA RepeatsInit == Init => RepeatsHaveCauses
<1> SUFFICES ASSUME Init
             PROVE  RepeatsHaveCauses
  OBVIOUS
<1>1. pc = "idle" /\ faults = 0 /\ swaps = 0 /\ \A p \in Projects : lastSent[p] = Nothing
  BY DEF Init
<1>2. \A p \in Projects : dups[p].commit = 0 /\ dups[p].pipeline = 0
  BY DEF Init
<1>3. \A p \in Projects : ~CommitForgotten(p) /\ ~PipelineForgotten(p) /\ ~Swapped(p)
  BY <1>1, NothingParts DEF CommitForgotten, PipelineForgotten, Swapped
<1> QED
  BY <1>1, <1>2, <1>3 DEF RepeatsHaveCauses, RepeatsAccounted, WithoutAdapters, Count

\* The account holds in every reachable state: for each kind of message, the
\* repeats so far, the one that a forgotten message will bring and the one that a
\* swap may bring are covered by failures, restarts and swaps.
THEOREM RepeatsAreAccounted == Spec => []RepeatsHaveCauses
<1>1. Init => RepeatsHaveCauses
  BY RepeatsInit
<1>2. TypeOK /\ RecordIsTruthful /\ RepeatsHaveCauses /\ [Next]_vars => RepeatsHaveCauses'
  BY RepeatsStep
<1> QED
  BY <1>1, <1>2, TypeCorrect, RecordTruthful, PTL DEF Spec

\* Duplicates need a cause: no message comes twice running more often than calls
\* failed, the operator restarted or the Notifier was replaced under a reconcile.
THEOREM DuplicatesAreCaused == Spec => []DuplicatesNeedACause
<1>1. TypeOK /\ RepeatsHaveCauses => DuplicatesNeedACause
  BY CountersType DEF RepeatsHaveCauses, RepeatsAccounted, DuplicatesNeedACause, Count
<1> QED
  BY <1>1, TypeCorrect, RepeatsAreAccounted, PTL

-------------------------------------------------------------------------------
(* The contract is kept.                                                     *)

Messages == Shas \cup (PipelineIds \X Statuses)

Ledger == [p \in Projects |-> MessagesOf(notifier.states[p])]
Waived == [p \in Projects |-> UNION {MessagesOf(e[1]) : e \in OldSeeds(p)}]
Last   == [p \in Projects |-> [commit   |-> lastSent[p].sha,
                               pipeline |-> <<lastSent[p].id, lastSent[p].status>>]]
Causes == faults + swaps

LEMMA MessagesType ==
    ASSUME NEW o \in Observation
    PROVE  MessagesOf(o) \subseteq Messages
<1>1. o.sha \in Shas \cup {NoSha} /\ o.id \in PipelineIds \cup {0} /\ o.status \in Statuses \cup {""}
  BY DEF Observation
<1>2. o.sha # NoSha => o.sha \in Shas
  BY <1>1
<1>3. o.id # 0 /\ o.status # "" => <<o.id, o.status>> \in PipelineIds \X Statuses
  BY <1>1
<1> QED
  BY <1>2, <1>3 DEF MessagesOf, Messages

\* What the users were told of is what they received or what was waived.
LEMMA ToldMessages ==
    ASSUME NEW p \in Projects, NEW o \in Observation, Told(p, o)
    PROVE  MessagesOf(o) \subseteq delivered[p] \cup Waived[p]
<1>1. ASSUME NEW e \in OldSeeds(p)
      PROVE  MessagesOf(e[1]) \subseteq Waived[p]
  BY <1>1 DEF Waived
<1>2. ASSUME o.sha # NoSha
      PROVE  o.sha \in delivered[p] \cup Waived[p]
  <2>1. CASE o.sha \in delivered[p]
    BY <2>1
  <2>2. CASE o.sha \notin delivered[p]
    <3>1. PICK e \in OldSeeds(p) : e[1].sha = o.sha
      BY <1>2, <2>2 DEF Told, CommitTold, OldSeeds
    <3>2. o.sha \in MessagesOf(e[1])
      BY <1>2, <3>1 DEF MessagesOf
    <3> QED
      BY <1>1, <3>2
  <2> QED
    BY <2>1, <2>2
<1>3. ASSUME o.id # 0, o.status # ""
      PROVE  <<o.id, o.status>> \in delivered[p] \cup Waived[p]
  <2>1. CASE <<o.id, o.status>> \in delivered[p]
    BY <2>1
  <2>2. CASE <<o.id, o.status>> \notin delivered[p]
    <3>1. PICK e \in OldSeeds(p) : e[1].id = o.id /\ e[1].status = o.status
      BY <1>3, <2>2 DEF Told, PipelineTold, OldSeeds
    <3>2. <<o.id, o.status>> \in MessagesOf(e[1])
      BY <1>3, <3>1 DEF MessagesOf
    <3> QED
      BY <1>1, <3>2
  <2> QED
    BY <2>1, <2>2
<1> QED
  BY <1>2, <1>3 DEF MessagesOf

\* A step that sends, seeds and repeats nothing remembers at most what was told.
LEMMA QuietStep ==
    ASSUME TypeOK', NoSilentRecord', UNCHANGED <<delivered, seeded, lastSent, dups>>,
           Causes' \in {Causes, Causes + 1}
    PROVE  Contract!Next
<1>1. Waived' = Waived /\ Last' = Last
  BY DEF Waived, Last, OldSeeds
<1>2. Ledger' \in [Projects -> SUBSET Messages]
  <2>1. \A p \in Projects : notifier'.states[p] \in Observation
    BY DEF TypeOK, ClusterOK, Record
  <2> QED
    BY <2>1, MessagesType DEF Ledger
<1>3. ASSUME NEW p \in Projects
      PROVE  Ledger'[p] \subseteq delivered[p] \cup Waived[p]
  <2>1. notifier'.states[p] \in Observation
    BY DEF TypeOK, ClusterOK, Record
  <2>2. Told(p, notifier'.states[p])
    BY DEF NoSilentRecord, Told, CommitTold, PipelineTold
  <2> QED
    BY <2>1, <2>2, ToldMessages DEF Ledger
<1>4. Contract!Remember(Ledger')
  BY <1>1, <1>3 DEF Contract!Remember, Contract!Perhaps, Ledger, Waived, Last, Causes
<1> QED
  BY <1>2, <1>4 DEF Contract!Next, Contract!Messages, Messages

\* A message that Discord accepted is one the contract lets through.
LEMMA DeliveryStep ==
    ASSUME TypeOK, RecordIsTruthful, RepeatsHaveCauses', TypeOK', pc = "send", Received,
           notifier' = notifier, Causes' \in {Causes, Causes + 1}
    PROVE  Contract!Next
<1>1. PICK p \in Projects : p = cur
  BY BatchMeaning
<1>2. lastSent \in [Projects -> Observation] /\ lastSent' \in [Projects -> Observation]
      /\ snap[p].obs \in Observation
  BY <1>1, ProcessingType DEF TypeOK, HistoryOK
<1>3. Ledger' = Ledger /\ Waived' = Waived
  BY DEF Received, Ledger, Waived, OldSeeds
<1>4. delivered' = [delivered EXCEPT ![p] = @ \cup {Message}]
  BY <1>1 DEF Received
<1>5. \A q \in Projects : q # p => Last'[q] = Last[q]
  BY <1>1, <1>2, ReceivedEffects DEF Last
<1>6. dups \in [Projects -> Counters] /\ dups[p].commit \in Nat /\ dups[p].pipeline \in Nat
  BY <1>1, CountersType DEF TypeOK, HistoryOK, Counters
<1>7. /\ dups'[p].commit <= Causes' /\ dups'[p].pipeline <= Causes'
      /\ dups'[p].commit \in Nat /\ dups'[p].pipeline \in Nat /\ Causes' \in Nat
  <2>1. /\ faults' \in Nat /\ swaps' \in Nat
        /\ dups'[p].commit \in Nat /\ dups'[p].pipeline \in Nat
    BY DEF TypeOK, ClusterOK, HistoryOK
  <2>2. /\ dups'[p].commit + Count(CommitForgotten(p))' + Count(Swapped(p))' <= faults' + swaps'
        /\ dups'[p].pipeline + Count(PipelineForgotten(p))' + Count(Swapped(p))'
              <= faults' + swaps'
    BY DEF RepeatsHaveCauses, RepeatsAccounted
  <2> QED
    BY <2>1, <2>2 DEF Count, Causes
<1>8. CASE IsCommit
  <2> DEFINE v == snap[p].obs.sha
  <2>0. v \in Shas /\ Message = v
    BY <1>1, <1>2, <1>8, BatchMeaning DEF CFires, CommitFires, Observation, Message
  <2>1. PICK m \in Shas : m = v /\ Message = m
    BY <2>0
  <2>2. Repeats <=> Last[p].commit = m
    BY <2>1, <1>1, <1>8 DEF Repeats, Last
  <2>3. Last' = [Last EXCEPT ![p]["commit"] = m]
    <3>1. Last'[p] = [Last[p] EXCEPT !["commit"] = m]
      BY <2>1, <1>1, <1>2, <1>8, ReceivedEffects DEF Last
    <3> QED
      BY <1>1, <1>5, <3>1 DEF Last
  <2>4. dups' = IF Repeats THEN [dups EXCEPT ![p]["commit"] = @ + 1] ELSE dups
    BY <1>1, <1>8 DEF Received
  <2>5. Repeats => dups[p]["commit"] < Causes'
    BY <1>1, <1>6, <1>7, <1>8, ReceivedEffects DEF Count
  <2> HIDE DEF v
  <2>6. Contract!Deliver(p, "commit", m)
    BY <1>3, <1>4, <2>1, <2>2, <2>3, <2>4, <2>5
    DEF Contract!Deliver, Contract!Perhaps, Ledger, Waived, Last, Causes
  <2> QED
    BY <2>6 DEF Contract!Next
<1>9. CASE ~IsCommit
  <2> DEFINE v == <<snap[p].obs.id, snap[p].obs.status>>
  <2>0. v \in PipelineIds \X Statuses /\ Message = v
    <3>1. PFires
      BY <1>9, BatchMeaning
    <3>2. base.spec.events \subseteq Events /\ "" \notin Events
      BY DEF TypeOK, WorkerOK, Record, Events
    <3>3. snap[p].obs.id # 0 /\ EventOf(snap[p].obs.status) # ""
      BY <1>1, <3>1, <3>2 DEF PFires, PipelineFires
    <3>4. snap[p].obs.status # ""
      BY <3>3 DEF EventOf
    <3> QED
      BY <1>1, <1>2, <1>9, <3>3, <3>4 DEF Observation, Message
  <2>1. PICK m \in (PipelineIds \X Statuses) : m = v /\ Message = m
    BY <2>0
  <2>2. Repeats <=> Last[p].pipeline = m
    BY <2>1, <1>1, <1>9 DEF Repeats, Last
  <2>3. Last' = [Last EXCEPT ![p]["pipeline"] = m]
    <3>1. Last'[p] = [Last[p] EXCEPT !["pipeline"] = m]
      BY <2>1, <1>1, <1>2, <1>9, ReceivedEffects DEF Last
    <3> QED
      BY <1>1, <1>5, <3>1 DEF Last
  <2>4. dups' = IF Repeats THEN [dups EXCEPT ![p]["pipeline"] = @ + 1] ELSE dups
    BY <1>1, <1>9 DEF Received
  <2>5. Repeats => dups[p]["pipeline"] < Causes'
    BY <1>1, <1>6, <1>7, <1>9, ReceivedEffects DEF Count
  <2> HIDE DEF v
  <2>6. Contract!Deliver(p, "pipeline", m)
    BY <1>3, <1>4, <2>1, <2>2, <2>3, <2>4, <2>5
    DEF Contract!Deliver, Contract!Perhaps, Ledger, Waived, Last, Causes
  <2> QED
    BY <2>6 DEF Contract!Next
<1> QED
  BY <1>8, <1>9

\* A seed waives the messages of what it saw, when that is older than the resource.
LEMMA SeedStep ==
    ASSUME TypeOK, NEW p \in Projects, SeedProject(p)
    PROVE  Contract!Next
<1> DEFINE obs == snap[p].obs
<1>1. /\ UNCHANGED <<notifier, delivered, lastSent, dups, swaps, faults>>
      /\ seeded' = [seeded EXCEPT ![p] = @ \cup {<<obs, snap[p].created>>}]
      /\ CommitTime[obs.sha] < snap[p].created
  BY DEF SeedProject, Predates, cluster
<1>2. obs \in Observation
  BY DEF TypeOK, WorkerOK, Seen
<1>3. OldSeeds(p)' = OldSeeds(p) \cup {<<obs, snap[p].created>>}
  BY <1>1 DEF OldSeeds, TypeOK, HistoryOK
<1>4. \A q \in Projects : q # p => OldSeeds(q)' = OldSeeds(q)
  BY <1>1 DEF OldSeeds, TypeOK, HistoryOK
<1>5. Waived' = [Waived EXCEPT ![p] = @ \cup MessagesOf(obs)]
  <2>1. Waived'[p] = Waived[p] \cup MessagesOf(obs)
    <3>1. \A S, x : UNION {MessagesOf(e[1]) : e \in S \cup {x}}
                       = (UNION {MessagesOf(e[1]) : e \in S}) \cup MessagesOf(x[1])
      OBVIOUS
    <3>2. Waived'[p] = UNION {MessagesOf(e[1]) : e \in OldSeeds(p) \cup {<<obs, snap[p].created>>}}
      BY <1>3 DEF Waived
    <3>3. <<obs, snap[p].created>>[1] = obs
      OBVIOUS
    <3> QED
      BY <3>1, <3>2, <3>3 DEF Waived
  <2>2. \A q \in Projects : q # p => Waived'[q] = Waived[q]
    BY <1>4 DEF Waived
  <2> QED
    BY <2>1, <2>2 DEF Waived
<1>6. Contract!Waive(p, MessagesOf(obs))
  BY <1>1, <1>5 DEF Contract!Waive, Waived
<1>7. MessagesOf(obs) \in SUBSET Contract!Messages
  BY <1>2, MessagesType DEF Contract!Messages, Messages
<1> QED
  BY <1>6, <1>7 DEF Contract!Next
\* A Notifier created anew has an empty record, and its users have seen nothing.
LEMMA ReopenStep ==
    ASSUME TypeOK, NEW s \in Specs, CreateNotifier(s)
    PROVE  Contract!Next
<1>1. /\ UNCHANGED <<delivered, seeded, dups, faults>>
      /\ \A p \in Projects : notifier'.states[p] = Nothing /\ lastSent'[p] = Nothing
      /\ swaps' \in {swaps, swaps + 1}
  BY DEF CreateNotifier, NotifierEvent, Fresh, Absent
<1>2. Waived' = Waived
  BY <1>1 DEF Waived, OldSeeds
<1>3. Ledger' = [p \in Projects |-> {}]
  BY <1>1, NothingParts DEF Ledger, MessagesOf
<1>4. Last' = [p \in Projects |-> [commit |-> NoSha, pipeline |-> <<0, "">>]]
  BY <1>1, NothingParts DEF Last
<1>5. faults' + swaps' \in {faults + swaps, faults + swaps + 1}
  BY <1>1, CountersType
<1>6. Contract!Reopen
  BY <1>1, <1>2, <1>3, <1>4, <1>5
  DEF Contract!Reopen, Contract!Perhaps, Ledger, Waived, Last
<1> QED
  BY <1>6 DEF Contract!Next

\* At most one call fails in a step, and no Notifier is swapped then.
LEMMA AtMostOneCause ==
    ASSUME TypeOK, faults' \in {faults, faults + 1}, swaps' = swaps
    PROVE  Causes' \in {Causes, Causes + 1}
<1>1. faults \in Nat /\ swaps \in Nat
  BY CountersType
<1>2. CASE faults' = faults
  BY <1>2 DEF Causes
<1>3. CASE faults' = faults + 1
  <2>1. faults' + swaps' = (faults + swaps) + 1
    BY <1>1, <1>3
  <2> QED
    BY <2>1 DEF Causes
<1> QED
  BY <1>2, <1>3

\* A step of the controller, of the cluster or of a fault maps to a step of the
\* contract or to none.
LEMMA ContractStep ==
    /\ TypeOK /\ TypeOK' /\ RecordIsTruthful /\ RecordIsTruthful' /\ RepeatsHaveCauses'
    /\ [Next]_vars
    => [Contract!Next]_Contract!vars
<1> SUFFICES ASSUME TypeOK, TypeOK', RecordIsTruthful, RecordIsTruthful', RepeatsHaveCauses',
                    [Next]_vars
             PROVE  Contract!Next
  OBVIOUS
<1> USE DEF history
<1>1. NoSilentRecord'
  BY DEF RecordIsTruthful
<1>2. ASSUME UNCHANGED <<delivered, seeded, lastSent, dups, swaps>>,
             faults' \in {faults, faults + 1}
      PROVE  Contract!Next
  <2>1. Causes' \in {Causes, Causes + 1}
    BY <1>2, AtMostOneCause
  <2> QED
    BY <1>1, <1>2, <2>1, QuietStep
<1>3. CASE UNCHANGED vars \/ SyncCache \/ Resync \/ TimerFires \/ ChangeSecret \/ DeleteNotifier
           \/ Crash
  BY <1>2, <1>3 DEF vars, SyncCache, Resync, TimerFires, ChangeSecret, DeleteNotifier,
     NotifierEvent, Crash, Fault
<1>4. ASSUME NEW p \in Projects,
             CreateProject(p) \/ DeleteProject(p) \/ SetNotifierRef(p) \/ ReportStatus(p)
      PROVE  Contract!Next
  BY <1>2, <1>4 DEF CreateProject, DeleteProject, SetNotifierRef, ReportStatus, ProjectEvent
<1>5. ASSUME NEW s \in Specs, EditNotifier(s)
      PROVE  Contract!Next
  BY <1>2, <1>5 DEF EditNotifier, NotifierEvent
<1>6. ASSUME NEW s \in Specs, CreateNotifier(s)
      PROVE  Contract!Next
  BY <1>6, ReopenStep
<1>7. CASE \/ Start \/ GetFails \/ ResolveProviders \/ HealthCheck \/ FindLinkedProjects
          \/ ListFails
  BY <1>2, <1>7 DEF Start, GetFails, ResolveProviders, HealthCheck, Goto, Fault, FindLinkedProjects,
     ListFails
<1>8. ASSUME NEW p \in Projects, SkipProject(p) \/ Panic(p) \/ DetectProject(p)
      PROVE  Contract!Next
  BY <1>2, <1>8 DEF SkipProject, Panic, DetectProject
<1>9. ASSUME NEW p \in Projects, SeedProject(p)
      PROVE  Contract!Next
  BY <1>9, SeedStep
<1>10. CASE SendOk \/ SendFails
  <2>1. /\ pc = "send" /\ notifier' = notifier
        /\ Received \/ UNCHANGED history
        /\ faults' \in {faults, faults + 1}
    BY <1>10 DEF SendOk, SendFails, Fault, cluster
  <2>2. CASE Received
    <3>1. Causes' \in {Causes, Causes + 1}
      BY <2>1, <2>2, AtMostOneCause DEF Received
    <3> QED
      BY <2>1, <2>2, <3>1, DeliveryStep
  <2>3. CASE UNCHANGED history
    BY <1>2, <2>1, <2>3
  <2> QED
    BY <2>1, <2>2, <2>3
<1>11. CASE PatchOk \/ PatchFails
  BY <1>2, <1>11 DEF PatchOk, PatchFails, Fault
<1> QED
  BY <1>3, <1>4, <1>5, <1>6, <1>7, <1>8, <1>9, <1>10, <1>11 DEF Next, Reconcile, Cluster

LEMMA ContractInit == Init => Contract!Init
<1> SUFFICES ASSUME Init
             PROVE  Contract!Init
  OBVIOUS
<1>1. /\ \A p \in Projects : notifier.states[p] = Nothing /\ lastSent[p] = Nothing
                             /\ seeded[p] = {} /\ delivered[p] = {}
      /\ faults = 0 /\ swaps = 0
  <2>1. notifier.states = Absent.states
    BY DEF Init, Fresh, Absent
  <2>2. \A p \in Projects : notifier.states[p] = Nothing
    BY <2>1 DEF Absent
  <2> QED
    BY <2>2 DEF Init
<1>2. \A p \in Projects : OldSeeds(p) = {}
  BY <1>1 DEF OldSeeds
<1>3. Ledger = [p \in Projects |-> {}] /\ Waived = [p \in Projects |-> {}]
  BY <1>1, <1>2, NothingParts DEF Ledger, Waived, MessagesOf
<1>4. Last = [p \in Projects |-> [commit |-> NoSha, pipeline |-> <<0, "">>]]
  BY <1>1, NothingParts DEF Last
<1>5. /\ delivered = [p \in Projects |-> {}] /\ faults + swaps = 0
      /\ dups = [p \in Projects |-> [commit |-> 0, pipeline |-> 0]]
  BY <1>1 DEF Init
<1> QED
  BY <1>3, <1>4, <1>5 DEF Contract!Init, Ledger, Waived, Last

\* The Notifier controller implements the contract: what it remembers was received
\* or waived before, and a repeated message answers a failure, a restart or a swap.
THEOREM ContractKept == Spec => DeliversAsPromised
<1>1. Init => Contract!Init
  BY ContractInit
<1>2. /\ TypeOK /\ TypeOK' /\ RecordIsTruthful /\ RecordIsTruthful' /\ RepeatsHaveCauses'
      /\ [Next]_vars
      => [Contract!Next]_Contract!vars
  BY ContractStep
<1> QED
  BY <1>1, <1>2, TypeCorrect, RecordTruthful, RepeatsAreAccounted, PTL
  DEF Spec, DeliversAsPromised, Contract!Spec
===============================================================================
