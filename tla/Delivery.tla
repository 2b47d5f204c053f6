------------------------------- MODULE Delivery -------------------------------
(***************************************************************************)
(* What the notification path promises, without controllers, queues or     *)
(* caches: a ledger of what each project's users were told, which may fall *)
(* behind what they received but never runs ahead of it, and messages that *)
(* are repeated only as often as there was a cause.                        *)
(***************************************************************************)
EXTENDS Naturals

CONSTANTS
    Projects,
    Commits, Pipelines,  \* the messages: a commit, or a pipeline in a status
    NoLast               \* nothing sent yet, of either kind

Messages == Commits \cup Pipelines

VARIABLES
    ledger,    \* per project, what the operator remembers as told
    received,  \* per project, what Discord accepted
    waived,    \* per project, what is older than the project's resource
    last,      \* per project and kind, the last message
    repeats,   \* per project and kind, how often the last message came once more
    causes     \* failures, restarts, and Notifiers replaced under a reconcile

vars == <<ledger, received, waived, last, repeats, causes>>

Init ==
    /\ ledger = [p \in Projects |-> {}] /\ received = [p \in Projects |-> {}]
    /\ waived = [p \in Projects |-> {}]
    /\ last = [p \in Projects |-> NoLast]
    /\ repeats = [p \in Projects |-> [commit |-> 0, pipeline |-> 0]]
    /\ causes = 0

Perhaps == causes' \in {causes, causes + 1}

\* A message reaches Discord before it is remembered.  To repeat the last one takes
\* a cause, past or present.
Deliver(p, kind, m) ==
    /\ received' = [received EXCEPT ![p] = @ \cup {m}]
    /\ last' = [last EXCEPT ![p][kind] = m]
    /\ Perhaps
    /\ IF last[p][kind] = m
         THEN /\ repeats[p][kind] < causes'
              /\ repeats' = [repeats EXCEPT ![p][kind] = @ + 1]
         ELSE UNCHANGED repeats
    /\ UNCHANGED <<ledger, waived>>

\* A project that is older than its resource starts without a message.
Waive(p, old) ==
    /\ waived' = [waived EXCEPT ![p] = @ \cup old]
    /\ UNCHANGED <<ledger, received, last, repeats, causes>>

\* Nothing is remembered that was neither received nor waived.
Remember(entries) ==
    /\ \A p \in Projects : entries[p] \subseteq received[p] \cup waived[p]
    /\ ledger' = entries
    /\ Perhaps
    /\ UNCHANGED <<received, waived, last, repeats>>

\* Another Notifier starts with an empty ledger, and its users have seen nothing.
Reopen ==
    /\ ledger' = [p \in Projects |-> {}] /\ last' = [p \in Projects |-> NoLast]
    /\ Perhaps
    /\ UNCHANGED <<received, waived, repeats>>

Mishap ==
    /\ causes' = causes + 1
    /\ UNCHANGED <<ledger, received, waived, last, repeats>>

Next ==
    \/ \E p \in Projects :
          \/ \E m \in Commits : Deliver(p, "commit", m)
          \/ \E m \in Pipelines : Deliver(p, "pipeline", m)
          \/ \E old \in SUBSET Messages : Waive(p, old)
    \/ \E entries \in [Projects -> SUBSET Messages] : Remember(entries)
    \/ Reopen \/ Mishap

Spec == Init /\ [][Next]_vars
===============================================================================
