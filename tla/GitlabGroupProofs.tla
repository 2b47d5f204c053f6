--------------------------- MODULE GitlabGroupProofs ---------------------------
(***************************************************************************)
(* That the GitlabGroup controller reports only what it saw, and never an  *)
(* older generation after a newer one, for every set of groups, Secrets    *)
(* and values, and every bound.                                            *)
(***************************************************************************)
EXTENDS GitlabGroup, TLAPS

-------------------------------------------------------------------------------
(* Types.                                                                    *)

Conditions == [reason : Reasons \cup {NoReason}, gen : Nat]
Status     == [mirror : Mirrors, cond : Conditions]

LEMMA NoSpecType == NoSpec \in Specs
<1>1. PICK id \in Ids, s \in Secrets : TRUE
  BY GroupAssumption
<1>2. [groupID |-> id, tokenSecretRef |-> s] \in Specs
  BY DEF Specs
<1> QED
  BY <1>2 DEF NoSpec

LEMMA GoneType ==
    ASSUME NEW uid \in Nat
    PROVE  /\ Gone(uid) \in Resource
           /\ \A spec \in Specs : Fresh(spec, uid) \in Resource
BY NoSpecType DEF Gone, Fresh, Resource, NoStatus, NoParts, Mirrors

\* Between two reconciles the worker holds nothing of a wrong type.
LEMMA ResetType ==
    ASSUME ResetLocals
    PROVE  obj' \in Resource /\ found' \in Mirrors /\ reason' = NoReason
<1>1. Gone(0) \in Resource
  BY GoneType
<1> QED
  BY <1>1 DEF ResetLocals, NoParts, Mirrors

LEMMA InitType == Init => TypeOK
<1> SUFFICES ASSUME Init
             PROVE  TypeOK
  OBVIOUS
<1>1. Gone(0) \in Resource /\ \A s \in Specs : Fresh(s, 1) \in Resource
  BY GoneType
<1>2. cr \in Resource /\ cached \in Resource /\ obj \in Resource
  BY <1>1 DEF Init
<1>3. scm \in [Ids -> {NoParts} \cup [Parts -> Values]]
  <2>1. \A id \in Ids : [part \in Parts |-> FirstValue[id]] \in [Parts -> Values]
    BY GroupAssumption
  <2> QED
    BY <2>1 DEF Init
<1>4. named \subseteq Nat \X Nat \X Ids
  BY <1>2 DEF Init, Naming, Resource, Specs
<1>5. found \in Mirrors /\ reason = NoReason /\ pc = "idle" /\ Read = {}
  BY DEF Init, NoParts, Mirrors, Read
<1>6. secrets \in [Secrets -> {"missing", "empty", "token"}]
  <2>1. secrets \in [Secrets -> {"missing", "token"}]
    BY DEF Init
  <2> QED
    BY <2>1
<1>7. queued \in BOOLEAN /\ cr.exists \in BOOLEAN
  BY <1>2 DEF Init, Resource
<1> QED
  BY <1>2, <1>3, <1>4, <1>5, <1>6, <1>7 DEF Init, TypeOK

\* What a patch makes of the stored resource.
LEMMA PatchedParts ==
    ASSUME TypeOK, NEW new \in Status
    PROVE  /\ Patched(new).exists = cr.exists /\ Patched(new).uid = cr.uid
           /\ Patched(new).gen = cr.gen /\ Patched(new).spec = cr.spec
           /\ \A part \in Parts :
                 Patched(new).status.mirror[part]
                   = Merged(obj.status.mirror[part], new.mirror[part], cr.status.mirror[part])
           /\ Patched(new).status.cond = Merged(obj.status.cond, new.cond, cr.status.cond)
BY DEF Patched, TypeOK, Resource, Status

LEMMA PatchedType ==
    ASSUME TypeOK, NEW new \in Status
    PROVE  Patched(new) \in Resource
<1>1. /\ cr.status.mirror \in Mirrors /\ obj.status.mirror \in Mirrors /\ new.mirror \in Mirrors
      /\ cr.status.cond \in Conditions /\ new.cond \in Conditions
  BY DEF TypeOK, Resource, Status, Conditions
<1>2. [part \in Parts |-> Merged(obj.status.mirror[part], new.mirror[part],
                                 cr.status.mirror[part])] \in Mirrors
  BY <1>1 DEF Merged, Mirrors
<1>3. Merged(obj.status.cond, new.cond, cr.status.cond) \in Conditions
  BY <1>1 DEF Merged
<1> QED
  BY <1>2, <1>3 DEF Patched, TypeOK, Resource, Conditions

LEMMA ReportTypes ==
    ASSUME TypeOK
    PROVE  Success \in Status /\ (reason # NoReason => Failure \in Status)
BY DEF TypeOK, Resource, Success, Failure, Condition, Status, Conditions, Reasons
\* The steps of the worker.
LEMMA ReconcileType == TypeOK /\ Reconcile => TypeOK'
<1> SUFFICES ASSUME TypeOK, Reconcile
             PROVE  TypeOK'
  OBVIOUS
<1> USE DEF cluster, history
<1>1. obj.spec \in Specs /\ obj.spec.groupID \in Ids /\ obj.uid \in Nat /\ obj.gen \in Nat
  BY DEF TypeOK, Resource, Specs
<1>2. CASE Start
  BY <1>2 DEF Start, TypeOK, Read, Parts
<1>3. CASE ResolveToken
  <2>1. Content \in {"missing", "empty", "token"} /\ reason = NoReason
    BY <1>1, <1>3 DEF ResolveToken, Content, TypeOK, Specs
  <2>2. \/ pc' = "fail" /\ reason' \in {"SecretNotFound", "TokenEmpty"}
        \/ pc' = "details" /\ reason' = NoReason
    BY <1>3, <2>1 DEF ResolveToken, Goto
  <2>3. Read' = {}
    BY <2>2 DEF Read
  <2>4. UNCHANGED <<cluster, scm, queue, obj, changes, history, found, faults>>
    BY <1>3, <2>1 DEF ResolveToken, Goto
  <2> QED
    BY <2>2, <2>3, <2>4 DEF TypeOK, queue, Parts, Reasons
<1>4. CASE GetPart
  <2>1. pc \in Parts /\ Asked \in [Parts -> Values] /\ Asked[pc] \in Values
        /\ reason = NoReason /\ reason' = NoReason
    BY <1>1, <1>4 DEF GetPart, Asked, TypeOK, Parts
  <2>2. found' = [found EXCEPT ![pc] = Asked[pc]] /\ found' \in Mirrors
    BY <1>4, <2>1 DEF GetPart, TypeOK, Mirrors
  <2>3. /\ pc' = NextCall(pc) /\ pc' \in {"subgroups", "members", "report"}
        /\ Read' = Read \cup {pc}
    BY <1>4, <2>1 DEF GetPart, Goto, NextCall, Read, Parts
  <2>4. \A part \in Read' : found'[part] # None
    BY <2>1, <2>2, <2>3, GroupAssumption DEF TypeOK, Mirrors, Read, Parts
  <2>5. answers' \subseteq Nat \X Nat \X Ids \X Parts \X Values
    BY <1>1, <1>4, <2>1 DEF GetPart, TypeOK
  <2> QED
    BY <1>4, <2>1, <2>2, <2>3, <2>4, <2>5 DEF GetPart, Goto, TypeOK, queue, Parts
<1>5. CASE GetPartFails
  <2>1. pc' = "fail" /\ Read' = {}
    BY <1>5 DEF GetPartFails, Goto, Read
  <2> QED
    BY <1>5, <2>1 DEF GetPartFails, Goto, Fault, TypeOK, queue, Reasons
<1>6. ASSUME NEW new \in Status, PatchStatus(new)
      PROVE  TypeOK'
  <2>1. cr' \in Resource
    BY <1>6, PatchedType DEF PatchStatus, TypeOK
  <2>2. /\ pc' = "idle" /\ Read' = {} /\ timer' \in BOOLEAN
        /\ obj' \in Resource /\ found' \in Mirrors /\ reason' = NoReason
    BY <1>6, ResetType DEF PatchStatus, Finish, Requeues, Read, TypeOK
  <2> QED
    BY <1>6, <2>1, <2>2 DEF PatchStatus, Fault, TypeOK
<1>7. CASE UpdateSuccessStatus
  BY <1>6, <1>7, ReportTypes DEF UpdateSuccessStatus
<1>8. CASE SetCondition
  <2>1. reason # NoReason
    BY <1>8 DEF SetCondition, TypeOK, Reasons, NoReason
  <2> QED
    BY <1>6, <1>8, <2>1, ReportTypes DEF SetCondition
<1> QED
  BY <1>2, <1>3, <1>4, <1>5, <1>7, <1>8 DEF Reconcile
\* The steps of users, GitLab, informers, timers and restarts.
LEMMA EnvironmentType ==
    TypeOK /\ (Users \/ Gitlab \/ SyncCache \/ Resync \/ TimerFires \/ Crash) => TypeOK'
<1> SUFFICES ASSUME TypeOK, Users \/ Gitlab \/ SyncCache \/ Resync \/ TimerFires \/ Crash
             PROVE  TypeOK'
  OBVIOUS
<1> USE DEF cluster, queue, locals, history
<1>1. ASSUME UNCHANGED <<pc, found>>
      PROVE  Read' = Read
  BY <1>1 DEF Read
<1>2. cr.uid \in Nat /\ cr.gen \in Nat /\ cr.spec.groupID \in Ids
  BY DEF TypeOK, Resource, Specs
<1>3. ASSUME NEW new \in Resource, ResourceEvent(new), heirs' \in {heirs, heirs \cup {cr.uid + 1}}
      PROVE  TypeOK'
  <2>1. Naming(new) \in Nat \X Nat \X Ids
    BY DEF Naming, Resource, Specs
  <2> QED
    BY <1>1, <1>2, <1>3, <2>1 DEF ResourceEvent, Change, TypeOK
<1>4. ASSUME NEW s \in Specs, CreateResource(s)
      PROVE  TypeOK'
  <2>1. Fresh(s, cr.uid + 1) \in Resource
    BY <1>2, GoneType
  <2> QED
    BY <1>3, <1>4, <2>1 DEF CreateResource
<1>5. ASSUME NEW s \in Specs, EditResource(s)
      PROVE  TypeOK'
  <2>1. [cr EXCEPT !.gen = @ + 1, !.spec = s] \in Resource
    <3>1. cr.gen + 1 \in Nat
      BY <1>2
    <3> QED
      BY <3>1 DEF TypeOK, Resource
  <2> QED
    BY <1>3, <1>5, <2>1 DEF EditResource
<1>6. CASE DeleteResource
  <2>1. Gone(cr.uid) \in Resource
    BY <1>2, GoneType
  <2> QED
    BY <1>1, <1>6, <2>1 DEF DeleteResource, Change, TypeOK
<1>7. ASSUME NEW s \in Secrets, NEW content \in {"missing", "empty", "token"},
             ChangeSecret(s, content)
      PROVE  TypeOK'
  <2>1. queued' \in BOOLEAN
    BY <1>7 DEF ChangeSecret, TypeOK, Uses
  <2> QED
    BY <1>1, <1>7, <2>1 DEF ChangeSecret, Change, TypeOK
<1>8. ASSUME NEW id \in Ids, NEW new \in {NoParts} \cup [Parts -> Values], OnGitlab(id, new)
      PROVE  TypeOK'
  BY <1>1, <1>8 DEF OnGitlab, Change, TypeOK
<1>9. ASSUME NEW id \in Ids, NEW part \in Parts, NEW v \in Values, EditGroup(id, part, v)
      PROVE  TypeOK'
  <2>1. scm[id] \in [Parts -> Values]
    BY <1>9 DEF EditGroup, TypeOK
  <2> QED
    BY <1>8, <1>9, <2>1 DEF EditGroup
<1>10. ASSUME NEW id \in Ids, RemoveGroup(id)
       PROVE  TypeOK'
  BY <1>8, <1>10 DEF RemoveGroup
<1>11. CASE SyncCache
  <2>1. queued' \in BOOLEAN
    BY <1>11 DEF SyncCache, TypeOK
  <2> QED
    BY <1>1, <1>11, <2>1 DEF SyncCache, TypeOK
<1>12. CASE Resync \/ TimerFires
  BY <1>1, <1>12 DEF Resync, TimerFires, TypeOK
<1>13. CASE Crash
  <2>1. pc' = "idle" /\ Read' = {} /\ queued' \in BOOLEAN /\ cached' \in Resource
    BY <1>13 DEF Crash, Read, TypeOK, Resource
  <2>2. obj' \in Resource /\ found' \in Mirrors /\ reason' = NoReason
    BY <1>13, ResetType DEF Crash
  <2>3. faults' \in Nat /\ timer' = FALSE
    <3>1. faults \in Nat /\ faults' = faults + 1
      BY <1>13 DEF Crash, Fault, TypeOK
    <3> QED
      BY <1>13, <3>1 DEF Crash
  <2> QED
    BY <1>13, <2>1, <2>2, <2>3 DEF Crash, TypeOK
<1> QED
  BY <1>4, <1>5, <1>6, <1>7, <1>9, <1>10, <1>11, <1>12, <1>13 DEF Users, Gitlab

LEMMA StutterType == TypeOK /\ UNCHANGED vars => TypeOK'
<1> SUFFICES ASSUME TypeOK, UNCHANGED vars
             PROVE  TypeOK'
  OBVIOUS
<1>1. Read' = Read
  BY DEF vars, Read
<1> QED
  BY <1>1 DEF vars, cluster, queue, locals, history, TypeOK

LEMMA NextType == TypeOK /\ [Next]_vars => TypeOK'
BY ReconcileType, EnvironmentType, StutterType DEF Next

\* The variables keep their types, and a report is written only with all three
\* answers at hand.
THEOREM GroupTypeCorrect == Spec => []TypeOK
<1>1. Init => TypeOK
  BY InitType
<1>2. TypeOK /\ [Next]_vars => TypeOK'
  BY NextType
<1> QED
  BY <1>1, <1>2, PTL DEF Spec
-------------------------------------------------------------------------------
(* What is reported was answered.                                            *)

LEMMA AnsweredGrows ==
    ASSUME named \subseteq named', answers \subseteq answers',
           NEW uid, NEW gen, NEW part, NEW v, Answered(uid, gen, part, v)
    PROVE  Answered(uid, gen, part, v)'
BY DEF Answered

\* A step that writes no status.
LEMMA StillGrounded ==
    ASSUME TypeOK, ReportIsGrounded, named \subseteq named', answers \subseteq answers',
           heirs' = heirs, cr'.exists => cr.exists, cr'.uid = cr.uid,
           cr'.exists => cr'.status = cr.status,
           cr'.exists => cr'.gen \in {cr.gen, cr.gen + 1}
    PROVE  ReportIsGrounded'
<1> SUFFICES ASSUME cr'.exists, cr'.uid \notin heirs'
             PROVE  /\ cr'.status.cond.reason = "GroupFound" =>
                          \A part \in Parts : \E v \in Values :
                              Answered(cr.uid, cr.status.cond.gen, part, v)'
                    /\ \A part \in Parts :
                          cr'.status.mirror[part] # None =>
                              \E gen \in 1..cr'.gen :
                                  Answered(cr.uid, gen, part, cr.status.mirror[part])'
  BY DEF ReportIsGrounded, Answered
<1>1. cr.exists /\ cr.uid \notin heirs /\ cr'.status = cr.status
  OBVIOUS
<1>2. cr'.status.cond.reason = "GroupFound" =>
          \A part \in Parts : \E v \in Values : Answered(cr.uid, cr.status.cond.gen, part, v)'
  BY <1>1, AnsweredGrows DEF ReportIsGrounded
<1>3. cr.gen \in Nat
  BY DEF TypeOK, Resource
<1>4. \A gen \in 1..cr.gen : gen \in 1..cr'.gen
  BY <1>3
<1>5. \A part \in Parts :
          cr'.status.mirror[part] # None =>
              \E gen \in 1..cr'.gen : Answered(cr.uid, gen, part, cr.status.mirror[part])'
  BY <1>1, <1>4, AnsweredGrows DEF ReportIsGrounded
<1> QED
  BY <1>2, <1>5

\* The patch: what it writes was answered for the copy's generation, and that is no
\* older than the one reported so far.
LEMMA PatchGrounded ==
    ASSUME TypeOK, ReportInv, pc # "idle", UNCHANGED history, cr.exists,
           NEW new \in Status, cr' = Patched(new),
           \/ pc = "report" /\ new = Success
           \/ pc = "fail" /\ new = Failure
    PROVE  /\ ReportIsGrounded'
           /\ cr.uid \notin heirs =>
                 cr.status.cond.gen <= cr'.status.cond.gen /\ cr'.status.cond.gen <= obj.gen
<1> USE DEF history
<1>1. cr'.exists = cr.exists /\ cr'.uid = cr.uid /\ cr'.gen = cr.gen
  BY PatchedParts
<1> SUFFICES ASSUME cr.uid \notin heirs
             PROVE  /\ cr'.status.cond.reason = "GroupFound" =>
                          \A part \in Parts : \E v \in Values :
                              Answered(cr'.uid, cr'.status.cond.gen, part, v)
                    /\ \A part \in Parts :
                          cr'.status.mirror[part] # None =>
                              \E gen \in 1..cr'.gen :
                                  Answered(cr'.uid, gen, part, cr'.status.mirror[part])
                    /\ cr.status.cond.gen <= cr'.status.cond.gen
                    /\ cr'.status.cond.gen <= obj.gen
  BY <1>1 DEF ReportIsGrounded, Answered
<1>2. /\ obj.uid = cr.uid /\ obj.gen \in 1..cr.gen /\ obj.gen \in Nat
      /\ cr.status.cond.gen \in Nat /\ cr.status.cond.gen <= obj.gen
  BY DEF ReportInv, Recorded, CopiesLag, TypeOK, Resource
<1>3. /\ cr'.status.cond \in {new.cond, cr.status.cond}
      /\ \A part \in Parts :
            \/ cr'.status.mirror[part] = cr.status.mirror[part]
            \/ /\ cr'.status.mirror[part] = new.mirror[part]
               /\ new.mirror[part] # obj.status.mirror[part]
  BY PatchedParts DEF Merged
<1>4. new.cond.gen = obj.gen
  BY DEF Success, Failure, Condition, TypeOK, Resource
<1>5. ASSUME pc = "report", NEW part \in Parts
      PROVE  found[part] \in Values /\ Answered(cr.uid, obj.gen, part, found[part])
  <2>1. part \in Read
    BY <1>5 DEF Read
  <2>2. <<obj.uid, obj.gen, obj.spec.groupID, part, found[part]>> \in answers
        /\ <<obj.uid, obj.gen, obj.spec.groupID>> \in named /\ obj.spec.groupID \in Ids
    BY <2>1 DEF ReportInv, Recorded, Naming, TypeOK, Resource, Specs
  <2>3. found[part] \in Values
    BY <2>1 DEF TypeOK, Mirrors
  <2> QED
    BY <1>2, <2>2, <2>3 DEF Answered
<1>6. new.cond.reason = "GroupFound" => pc = "report"
  BY DEF Failure, Condition, TypeOK, Resource
<1>7. ASSUME NEW part \in Parts, new.mirror[part] # obj.status.mirror[part]
      PROVE  pc = "report" /\ new.mirror[part] = found[part]
  BY <1>7 DEF Success, Failure, TypeOK, Resource
<1>8. cr'.status.cond.reason = "GroupFound" =>
          \A part \in Parts : \E v \in Values : Answered(cr'.uid, cr'.status.cond.gen, part, v)
  <2>1. CASE cr'.status.cond = cr.status.cond
    BY <1>1, <2>1 DEF ReportInv, ReportIsGrounded
  <2>2. CASE cr'.status.cond = new.cond
    BY <1>1, <1>4, <1>5, <1>6, <2>2
  <2> QED
    BY <1>3, <2>1, <2>2
<1>9. ASSUME NEW part \in Parts, cr'.status.mirror[part] # None
      PROVE  \E gen \in 1..cr'.gen : Answered(cr'.uid, gen, part, cr'.status.mirror[part])
  <2>1. CASE cr'.status.mirror[part] = cr.status.mirror[part]
    BY <1>1, <1>9, <2>1 DEF ReportInv, ReportIsGrounded
  <2>2. CASE cr'.status.mirror[part] # cr.status.mirror[part]
    <3>1. pc = "report" /\ cr'.status.mirror[part] = found[part]
      BY <1>3, <1>7, <2>2
    <3> QED
      BY <1>1, <1>2, <1>5, <3>1
  <2> QED
    BY <2>1, <2>2
<1>10. cr.status.cond.gen <= cr'.status.cond.gen /\ cr'.status.cond.gen <= obj.gen
  BY <1>2, <1>3, <1>4
<1> QED
  BY <1>8, <1>9, <1>10
\* What a step may do to the report: nothing to one of a later generation.
Advances ==
    cr.exists /\ cr'.exists /\ cr.uid \notin heirs => cr.status.cond.gen <= cr'.status.cond.gen

\* A step that leaves the resource alone and the worker at work, if anything.
LEMMA ReportUntouched ==
    ASSUME TypeOK, ReportInv, UNCHANGED <<cr, named, answers, heirs>>,
           \/ UNCHANGED <<pc, obj, found>>
           \/ pc # "idle" /\ obj' = obj /\ pc' \notin {"idle", "subgroups", "members", "report"}
           \/ pc' = "idle"
           \/ pc' = "resolve" /\ cached.exists /\ obj' = cached,
           \/ cached' = cached
           \/ cached' = cr /\ UNCHANGED <<pc, obj, found>>
           \/ cached' = cr /\ pc' = "idle"
    PROVE  ReportInv' /\ Advances
<1>1. ReportIsGrounded'
  BY StillGrounded DEF ReportInv
<1>2. Read' = {} \/ (Read' = Read /\ UNCHANGED <<obj, found>>)
  BY DEF Read
<1>3. Recorded'
  BY <1>2 DEF ReportInv, Recorded, Naming
<1>4. /\ cr.gen \in Nat /\ cached.gen \in Nat /\ obj.gen \in Nat
      /\ cr.status.cond.gen \in Nat
  BY DEF TypeOK, Resource
<1>5. CopiesLag'
  BY <1>4 DEF ReportInv, CopiesLag
<1> QED
  BY <1>1, <1>3, <1>4, <1>5 DEF ReportInv, Advances

\* An answer from GitLab.
LEMMA ReportGathered ==
    ASSUME TypeOK, ReportInv, GetPart
    PROVE  ReportInv' /\ Advances
<1>1. /\ UNCHANGED <<cr, cached, obj, named, heirs>>
      /\ pc \in Parts /\ pc' = NextCall(pc) /\ pc' # "idle"
      /\ found' = [found EXCEPT ![pc] = Asked[pc]]
      /\ answers' = answers \cup {<<obj.uid, obj.gen, obj.spec.groupID, pc, Asked[pc]>>}
  BY DEF GetPart, Goto, cluster, NextCall, Parts
<1>2. ReportIsGrounded'
  BY <1>1, StillGrounded DEF ReportInv
<1>3. Read' = Read \cup {pc}
  BY <1>1 DEF Read, NextCall, Parts
<1>4. Recorded'
  <2>1. \A part \in Read' :
            <<obj.uid, obj.gen, obj.spec.groupID, part, found'[part]>> \in answers'
    <3>1. found \in [Parts -> Values \cup {None}] /\ Read' \subseteq Parts
      BY DEF TypeOK, Mirrors, Read, Parts
    <3> QED
      BY <1>1, <1>3, <3>1 DEF ReportInv, Recorded
  <2> QED
    BY <1>1, <2>1 DEF ReportInv, Recorded, Naming, Parts
<1>5. CopiesLag'
  BY <1>1 DEF ReportInv, CopiesLag, Parts
<1>6. cr.status.cond.gen \in Nat
  BY DEF TypeOK, Resource
<1> QED
  BY <1>1, <1>2, <1>4, <1>5, <1>6 DEF ReportInv, Advances

\* The end of a reconcile.
LEMMA ReportPatched ==
    ASSUME TypeOK, ReportInv, UpdateSuccessStatus \/ SetCondition
    PROVE  ReportInv' /\ Advances
<1> USE DEF history
<1>1. PICK new \in Status :
          /\ PatchStatus(new)
          /\ \/ pc = "report" /\ new = Success
             \/ pc = "fail" /\ new = Failure
  <2>1. pc = "fail" => reason # NoReason
    BY DEF TypeOK, Reasons, NoReason
  <2> QED
    BY <2>1, ReportTypes DEF UpdateSuccessStatus, SetCondition
<1>2. /\ pc # "idle" /\ pc' = "idle" /\ UNCHANGED <<cached, history>>
      /\ cr' = cr \/ (cr.exists /\ cr' = Patched(new))
  BY <1>1 DEF PatchStatus, Finish
<1>3. CASE cr' = cr
  BY <1>2, <1>3, ReportUntouched
<1>4. CASE cr.exists /\ cr' = Patched(new)
  <2>1. /\ ReportIsGrounded'
        /\ cr.uid \notin heirs =>
              cr.status.cond.gen <= cr'.status.cond.gen /\ cr'.status.cond.gen <= obj.gen
    BY <1>1, <1>2, <1>4, PatchGrounded
  <2>2. /\ cr'.exists = cr.exists /\ cr'.uid = cr.uid /\ cr'.gen = cr.gen /\ cr'.spec = cr.spec
        /\ cr' \in Resource
    BY <1>4, PatchedParts, PatchedType
  <2>3. Read' = {}
    BY <1>2 DEF Read
  <2>4. Recorded'
    BY <1>2, <2>2, <2>3 DEF ReportInv, Recorded, Naming
  <2>5. CopiesLag'
    <3>1. /\ cr.gen \in Nat /\ cached.gen \in Nat /\ obj.gen \in Nat
          /\ cr'.status.cond.gen \in Nat
      BY <2>2 DEF TypeOK, Resource
    <3> QED
      BY <1>2, <2>1, <2>2, <3>1 DEF ReportInv, CopiesLag
  <2> QED
    BY <2>1, <2>4, <2>5 DEF ReportInv, Advances
<1> QED
  BY <1>2, <1>3, <1>4

\* A resource is created, edited or deleted.
LEMMA ReportOfResource ==
    ASSUME TypeOK, ReportInv,
           \/ \E s \in Specs : CreateResource(s) \/ EditResource(s)
           \/ DeleteResource
    PROVE  ReportInv' /\ Advances
<1> USE DEF locals, history
<1>1. /\ UNCHANGED <<cached, pc, obj, found, answers>>
      /\ named \subseteq named'
  BY DEF CreateResource, EditResource, DeleteResource, ResourceEvent
<1>2. Read' = Read
  BY <1>1 DEF Read
<1>3. /\ cr.gen \in Nat /\ cr.uid \in Nat /\ cached.gen \in Nat /\ obj.gen \in Nat
      /\ cr.status.cond.gen \in Nat
  BY DEF TypeOK, Resource
<1>4. ASSUME NEW s \in Specs, CreateResource(s)
      PROVE  ReportInv' /\ Advances
  <2>1. /\ cr'.exists /\ cr'.uid = cr.uid + 1 /\ cr'.gen = 1 /\ cr'.status = NoStatus
        /\ ~cr.exists /\ Naming(cr') \in named'
        /\ cr'.uid \notin heirs' => pc = "idle" /\ ~cached.exists
    BY <1>4 DEF CreateResource, ResourceEvent, Fresh, Gone
  <2>2. Recorded'
    BY <1>1, <1>2, <2>1 DEF ReportInv, Recorded, Naming
  <2>3. CopiesLag'
    BY <1>1, <2>1 DEF CopiesLag, NoStatus
  <2>4. ReportIsGrounded'
    BY <2>1 DEF ReportIsGrounded, NoStatus, NoParts, NoReason
  <2> QED
    BY <2>1, <2>2, <2>3, <2>4 DEF ReportInv, Advances
<1>5. ASSUME NEW s \in Specs, EditResource(s)
      PROVE  ReportInv' /\ Advances
  <2>1. /\ cr'.exists = cr.exists /\ cr.exists /\ cr'.uid = cr.uid /\ cr'.gen = cr.gen + 1
        /\ cr'.status = cr.status /\ Naming(cr') \in named' /\ heirs' = heirs
    BY <1>5 DEF EditResource, ResourceEvent, TypeOK, Resource
  <2>2. Recorded'
    BY <1>1, <1>2, <1>3, <2>1 DEF ReportInv, Recorded, Naming
  <2>3. CopiesLag'
    BY <1>1, <1>3, <2>1 DEF ReportInv, CopiesLag
  <2>4. ReportIsGrounded'
    BY <1>1, <2>1, StillGrounded DEF ReportInv
  <2> QED
    BY <1>3, <2>1, <2>2, <2>3, <2>4 DEF ReportInv, Advances
<1>6. CASE DeleteResource
  <2>1. ~cr'.exists /\ UNCHANGED history
    BY <1>6 DEF DeleteResource, Gone
  <2> QED
    BY <1>1, <1>2, <2>1 DEF ReportInv, Recorded, CopiesLag, ReportIsGrounded, Advances, Naming
<1> QED
  BY <1>4, <1>5, <1>6

LEMMA ReportStep == TypeOK /\ ReportInv /\ [Next]_vars => ReportInv' /\ Advances
<1> SUFFICES ASSUME TypeOK, ReportInv, [Next]_vars
             PROVE  ReportInv' /\ Advances
  OBVIOUS
<1> USE DEF cluster, locals, history
<1>1. CASE UNCHANGED vars \/ Resync \/ TimerFires \/ Gitlab
           \/ \E s \in Secrets, content \in {"missing", "empty", "token"} : ChangeSecret(s, content)
  BY <1>1, ReportUntouched
  DEF vars, Resync, TimerFires, Gitlab, EditGroup, RemoveGroup, OnGitlab, ChangeSecret
<1>2. CASE Start
  BY <1>2, ReportUntouched DEF Start
<1>3. CASE ResolveToken \/ GetPartFails
  <2>1. pc # "idle" /\ obj' = obj /\ pc' \in {"fail", "details"}
        /\ UNCHANGED <<cr, cached, named, answers, heirs>>
    <3>1. CASE ResolveToken
      <4>1. Content \in {"missing", "empty", "token"}
        BY DEF Content, TypeOK, Resource, Specs
      <4> QED
        BY <3>1, <4>1 DEF ResolveToken, Goto
    <3>2. CASE GetPartFails
      BY <3>2 DEF GetPartFails, Goto, Parts
    <3> QED
      BY <1>3, <3>1, <3>2
  <2> QED
    BY <2>1, ReportUntouched
<1>4. CASE GetPart
  BY <1>4, ReportGathered
<1>5. CASE UpdateSuccessStatus \/ SetCondition
  BY <1>5, ReportPatched
<1>6. CASE SyncCache \/ Crash
  BY <1>6, ReportUntouched DEF SyncCache, Crash
<1>7. CASE \/ \E s \in Specs : CreateResource(s) \/ EditResource(s)
           \/ DeleteResource
  BY <1>7, ReportOfResource
<1> QED
  BY <1>1, <1>2, <1>3, <1>4, <1>5, <1>6, <1>7 DEF Next, Reconcile, Users

LEMMA ReportInit == Init => ReportInv
<1> SUFFICES ASSUME Init
             PROVE  ReportInv
  OBVIOUS
<1>1. pc = "idle" /\ cached = cr /\ Read = {} /\ Naming(cr) \in named
  BY DEF Init, Read
<1>2. cr.status = NoStatus /\ (cr.exists => cr.gen = 1)
  <2>1. CASE cr = Gone(0)
    BY <2>1 DEF Gone
  <2>2. ASSUME NEW s \in Specs, cr = Fresh(s, 1)
        PROVE  cr.status = NoStatus /\ cr.gen = 1
    BY <2>2 DEF Gone, Fresh
  <2> QED
    BY <2>1, <2>2 DEF Init
<1> QED
  BY <1>1, <1>2 DEF ReportInv, Recorded, CopiesLag, ReportIsGrounded, NoStatus, NoParts, NoReason

\* A report is grounded in answers to the generation it names, and every mirrored
\* part in an answer to some generation of the resource.
THEOREM ReportsAreGrounded == Spec => []ReportIsGrounded
<1>1. Init => ReportInv
  BY ReportInit
<1>2. TypeOK /\ ReportInv /\ [Next]_vars => ReportInv'
  BY ReportStep
<1>3. ReportInv => ReportIsGrounded
  BY DEF ReportInv
<1> QED
  BY <1>1, <1>2, <1>3, GroupTypeCorrect, PTL DEF Spec

\* The observed generation of a resource that is nobody's heir never falls back.
THEOREM ObservedGenerationsAdvance == Spec => ObservedGenerationAdvances
<1>1. Init => ReportInv
  BY ReportInit
<1>2. TypeOK /\ ReportInv /\ [Next]_vars => ReportInv' /\ Advances
  BY ReportStep
<1>3. Advances <=> (cr.exists /\ cr'.exists /\ cr.uid \notin heirs =>
                        cr.status.cond.gen <= cr'.status.cond.gen)
  BY DEF Advances
<1> QED
  BY <1>1, <1>2, <1>3, GroupTypeCorrect, PTL DEF Spec, ObservedGenerationAdvances
===============================================================================
