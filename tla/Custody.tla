------------------------------- MODULE Custody --------------------------------
(***************************************************************************)
(* What the GitlabProject controller promises about one resource, without  *)
(* copies, queues or patches: the stamps on GitLab are in its custody.  A  *)
(* resource is unguarded at first, then kept by its finalizer, then dying, *)
(* then absent.  Stamps are set and success is reported for a guarded one  *)
(* only, the finalizer never goes from one that is kept, and from a dying  *)
(* one not before its stamp was removed or given up.                       *)
(***************************************************************************)
CONSTANTS
    Targets,   \* the projects on GitLab
    NoTarget   \* what an absent resource is about

VARIABLES
    phase,     \* of the resource's life
    target,    \* the project it is about
    ready,     \* does it report success?
    stamped,   \* the projects that bear the operator's topic
    abandoned  \* the projects whose stamp nobody answers for, for a known cause

vars == <<phase, target, ready, stamped, abandoned>>

Guarded == phase \in {"kept", "dying"}

Init ==
    /\ \/ phase = "absent" /\ target = NoTarget
       \/ phase \in {"unguarded", "kept"} /\ target \in Targets
    /\ ready = FALSE /\ stamped = {} /\ abandoned = {}

-------------------------------------------------------------------------------
(* The users' part.                                                          *)

\* What a reconcile of the former resource still stamps is not the new one's.
Create(t) ==
    /\ phase = "absent"
    /\ phase' = "unguarded" /\ target' = t
    /\ abandoned' \in {abandoned, abandoned \cup (Targets \ {t})}
    /\ UNCHANGED <<ready, stamped>>

\* A move of a dying resource may come too late for its cleanup.
Move(t) ==
    /\ phase # "absent" /\ t # target
    /\ target' = t
    /\ abandoned' = IF phase = "dying" THEN Targets ELSE abandoned \cup (Targets \ {t})
    /\ UNCHANGED <<phase, ready, stamped>>

Discard ==
    /\ phase = "unguarded"
    /\ phase' = "absent" /\ target' = NoTarget /\ ready' = FALSE
    /\ UNCHANGED <<stamped, abandoned>>

Condemn == phase = "kept" /\ phase' = "dying" /\ UNCHANGED <<target, ready, stamped, abandoned>>

-------------------------------------------------------------------------------
(* The operator's part, and GitLab's.                                        *)

Register ==
    /\ phase = "unguarded" /\ phase' = "kept"
    /\ UNCHANGED <<target, ready, stamped, abandoned>>

Stamp(t) ==
    /\ Guarded /\ (t = target \/ t \in abandoned)
    /\ stamped' = stamped \cup {t}
    /\ UNCHANGED <<phase, target, ready, abandoned>>

Unstamp(t) == stamped' = stamped \ {t} /\ UNCHANGED <<phase, target, ready, abandoned>>

Report == Guarded /\ ready' = TRUE /\ UNCHANGED <<phase, target, stamped, abandoned>>

Doubt == ready' = FALSE /\ UNCHANGED <<phase, target, stamped, abandoned>>

\* The cleanup cannot be made, or fails: never that of a resource which is kept.
GiveUp(t) ==
    /\ phase # "kept"
    /\ abandoned' = abandoned \cup {t}
    /\ stamped' \in {stamped, stamped \ {t}}
    /\ ready' \in {ready, FALSE}
    /\ UNCHANGED <<phase, target>>

Release ==
    /\ phase = "dying" /\ target \notin stamped \ abandoned
    /\ phase' = "absent" /\ target' = NoTarget /\ ready' = FALSE
    /\ UNCHANGED <<stamped, abandoned>>

Next ==
    \/ \E t \in Targets : Create(t) \/ Move(t) \/ Stamp(t) \/ Unstamp(t) \/ GiveUp(t)
    \/ Discard \/ Condemn \/ Register \/ Report \/ Doubt \/ Release

Spec == Init /\ [][Next]_vars

\* What the order of these steps is good for: a stamp is on the project of a guarded
\* resource, or was abandoned for a cause, and success is of a guarded one.
Answered ==
    /\ \A t \in stamped : t \in abandoned \/ (Guarded /\ t = target)
    /\ ready => Guarded
===============================================================================
