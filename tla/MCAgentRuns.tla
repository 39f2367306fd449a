------------------------------ MODULE MCAgentRuns ------------------------------
(* One dispatch and its re-prompt, with a log that outgrows its cap.        *)
EXTENDS AgentRuns
=============================================================================
