--------------------------- MODULE MCSessionFiles ---------------------------
(* Small instances of SessionFiles for TLC.                                *)
EXTENDS SessionFiles

\* The two threads with everything working; the same on a disk that fills up
\* or with restarts; and the agent thread alone, over more compactions.
MCSettings ==
  { [turns |-> 2, renames |-> 1, events |-> {"http", "big"}],
    [turns |-> 2, renames |-> 2, events |-> {"http", "crash"}],
    [turns |-> 2, renames |-> 1, events |-> {"http", "disk_full"}],
    [turns |-> 2, renames |-> 0, events |-> {"big", "disk_full", "crash"}],
    [turns |-> 3, renames |-> 0, events |-> {"http"}],
    [turns |-> 3, renames |-> 0, events |-> {"big", "crash"}] }
=============================================================================
