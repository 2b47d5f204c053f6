---------------------------- MODULE MCScmOperator ----------------------------
(***************************************************************************)
(* ScmOperator on a small instance: one resource of each kind.             *)
(***************************************************************************)
EXTENDS ScmOperator

CONSTANTS r, g, a, main, c1, c2

MCBranchOf   == [c \in Commits |-> main]
MCCommitTime == [c \in Commits |-> 5]

MCProjectSpecs ==
    {[group |-> g, name |-> a, visibility |-> "", branch |-> main, notified |-> TRUE]}

MCNotifierSpecs == {[events |-> {"new_commit"}, providers |-> {"discord"}]}
===============================================================================
