----------------------------- MODULE MCLlmCalls -----------------------------
(* Small instances of LlmCalls for TLC.                                    *)
EXTENDS LlmCalls
=============================================================================
