----------------------------- MODULE MCStartup ------------------------------
(* A small instance of Startup for TLC.                                    *)
EXTENDS Startup

MCHome == [ssid |-> "home", password |-> "right"]
=============================================================================
