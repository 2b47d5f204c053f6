--------------------------- MODULE MCGitlabProject ---------------------------
(***************************************************************************)
(* GitlabProject on small instances.                                       *)
(***************************************************************************)
EXTENDS GitlabProject

CONSTANTS g1, g2, a, b, main, dev, c1, c2, r1

\* Commits of two branches.
MCBranchOf == [c \in Commits |-> IF c = c1 THEN main ELSE dev]

Wants(group_, name, visibility, branch) ==
    [group |-> group_, name |-> name, visibility |-> visibility, branch |-> branch,
     notified |-> TRUE]

Plain    == Wants(g1, a, "", main)
Public   == Wants(g1, a, "public", main)
Renamed  == Wants(g1, b, "private", main)
Moved    == Wants(g2, b, "private", main)
OtherRef == Wants(g1, a, "private", dev)

\* An edit in place; a rename; a move that also renames; another branch.
TwoSettings == {Plain, Public}
TwoNames    == {Plain, Renamed}
TwoGroups   == {Plain, Moved}
TwoBranches == {Plain, OtherRef}
==============================================================================
