--------------------------- MODULE MCTicketPipeline ---------------------------
(* One ticket.  Two interchangeable repos, or one repo whose ticket is      *)
(* built again after a merge.                                               *)
EXTENDS TicketPipeline, TLC

CONSTANTS r1, r2

RepoSymmetry == Permutations(Repos)
=============================================================================
