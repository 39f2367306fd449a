----------------------------- MODULE MCBoardIntake -----------------------------
(* Two cards: an epic and its ticket, or two tickets.                       *)
EXTENDS BoardIntake, TLC

CONSTANTS i1, i2

IssueSymmetry == Permutations(Issues)
=============================================================================
