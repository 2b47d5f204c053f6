------------------------------ MODULE MCNotifier ------------------------------
(***************************************************************************)
(* Notifier on small instances.                                            *)
(***************************************************************************)
EXTENDS Notifier, TLC

CONSTANTS p1, p2, old, new

\* One commit made before any resource exists, one made after (CreationTimes = {3}).
MCCommitTime == [s \in Shas |-> IF s = old THEN 1 ELSE 5]

\* Both commits made between two creations (CreationTimes = {3, 7}).
Between == [s \in Shas |-> IF s = old THEN 4 ELSE 5]

\* Everything subscribed, on Discord; commits only, by a provider without an adapter.
All     == [events    |-> {"new_commit", "pipeline_running", "pipeline_success"},
            providers |-> {"discord"}]
OnSlack == [events |-> {"new_commit"}, providers |-> {"slack"}]

OneSpec == {All}
AnySpec == {All, OnSlack}

Symmetric == Permutations(Projects)
===============================================================================
