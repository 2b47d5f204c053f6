----------------------------- MODULE MCGitlabGroup -----------------------------
(***************************************************************************)
(* GitlabGroup on a small instance.                                        *)
(***************************************************************************)
EXTENDS GitlabGroup

CONSTANTS v1, v2

\* The two groups differ in every part.
MCFirstValue == [id \in Ids |-> IF id = 7 THEN v1 ELSE v2]
===============================================================================
