----------------------------- MODULE EagerWrites -----------------------------
(***************************************************************************)
(* What the eager replication path promises its callers: `enqueue` returns *)
(* at once, and an accepted write is never dropped silently.  It reaches   *)
(* the bucket, or a newer write to the same key takes its place, or it is  *)
(* demoted to the dead-letter list, where the status page shows it.        *)
(* Abstract specification of Replicator.tla: no threads, no queue order,   *)
(* no retry counts.                                                        *)
(***************************************************************************)
EXTENDS Naturals

CONSTANTS
  Keys,       \* object keys
  MaxWrites   \* bound: number of writes ever issued; write v carries value v

VARIABLES
  pending,    \* accepted writes not settled yet, as [key, val]
  bucket,     \* what the bucket holds for each key; 0 is "no object"
  dead,       \* writes given up on
  open        \* FALSE once the replicator has been told to stop

vars == <<pending, bucket, dead, open>>

Write == [key : Keys, val : 1..MaxWrites]

Init ==
  /\ pending = {}
  /\ bucket = [k \in Keys |-> 0]
  /\ dead = {}
  /\ open = TRUE

\* A write is accepted; at most one pending write to the same key gives way.
Accept(w) ==
  /\ open
  /\ \/ pending' = pending \cup {w}
     \/ \E old \in pending :
          old.key = w.key /\ pending' = (pending \ {old}) \cup {w}
  /\ UNCHANGED <<bucket, dead, open>>

\* A pending write lands in the bucket; when the answer is lost it lands
\* and stays pending, to be sent again.
Deliver(w) ==
  /\ w \in pending
  /\ bucket' = [bucket EXCEPT ![w.key] = w.val]
  /\ pending' \in {pending, pending \ {w}}
  /\ UNCHANGED <<dead, open>>

\* A pending write that keeps failing is moved to the dead-letter list.
GiveUp(w) ==
  /\ w \in pending
  /\ pending' = pending \ {w}
  /\ dead' = dead \cup {w}
  /\ UNCHANGED <<bucket, open>>

Close == open' = FALSE /\ UNCHANGED <<pending, bucket, dead>>

Next ==
  \/ \E w \in Write : Accept(w) \/ Deliver(w) \/ GiveUp(w)
  \/ Close

\* Some pending write is settled again and again while any are pending.
Settle ==
  \E w \in pending : (Deliver(w) \/ GiveUp(w)) /\ w \notin pending'

Spec == Init /\ [][Next]_vars /\ WF_vars(Settle)
=============================================================================
