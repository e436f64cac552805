--------------------------- MODULE MCCloudSession ---------------------------
(* Small instances of CloudSession for TLC.                                *)
EXTENDS CloudSession
=============================================================================
