---------------------------- MODULE MCReplicator ----------------------------
(* Small instances of Replicator for TLC.                                  *)
EXTENDS Replicator

CONSTANTS w1, w2, k1, k2, k3
=============================================================================
