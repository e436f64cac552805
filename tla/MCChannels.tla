----------------------------- MODULE MCChannels -----------------------------
(* Small instances of Channels for TLC.                                    *)
EXTENDS Channels
=============================================================================
