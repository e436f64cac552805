---------------------------- MODULE MCAgentLoop -----------------------------
(* Small instances of AgentLoop for TLC.                                   *)
EXTENDS AgentLoop

CONSTANTS x, y, r1, r2
=============================================================================
