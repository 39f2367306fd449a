------------------------------ MODULE MCPullPoller ------------------------------
(* Two repos of one project.                                                *)
EXTENDS PullPoller

CONSTANTS r1, r2
=============================================================================
