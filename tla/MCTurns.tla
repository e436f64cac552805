------------------------------ MODULE MCTurns -------------------------------
(* A small instance of Turns for TLC.                                      *)
EXTENDS Turns

\* The firmware, where turns have rounds of tool calls, without faults and
\* with all of them; the desktop, where two run at the same time, with a third
\* message to come, and with all faults.
MCBuilds ==
  { [lanes |-> 1, messages |-> 3, rounds |-> 2, events |-> {"clear", "cancel"}],
    [lanes |-> 1, messages |-> 2, rounds |-> 0, events |-> AllEvents],
    [lanes |-> 2, messages |-> 3, rounds |-> 0, events |-> {"clear"}],
    [lanes |-> 2, messages |-> 2, rounds |-> 0, events |-> AllEvents] }
=============================================================================
