----------------------------- MODULE WriteQueue -----------------------------
(***************************************************************************)
(* The write queue of the eager replication path: the VecDeque of          *)
(* PendingWrite in agent/src/core/cloud/replicator.rs, and the two ways a  *)
(* write enters it.  Pure operators, shared by every module that holds     *)
(* such a queue.  An entry has at least the fields key, val, retry, tries. *)
(***************************************************************************)
EXTENDS Naturals, Sequences

\* Positions of the queue that hold a write to key k.
Slots(q, k) == {i \in 1..Len(q) : q[i].key = k}

\* The position `iter_mut().find` stops at: the one nearest the front.
FirstSlot(q, k) == CHOOSE i \in Slots(q, k) : \A j \in Slots(q, k) : i <= j

\* Admit write e: replace the bytes of the first entry with its key, or go
\* to the back.  The replaced entry keeps its retry_count; `tries`, which
\* counts the PUTs made for this very value, starts again at 0.
Coalesce(q, e) ==
  IF Slots(q, e.key) = {}
  THEN Append(q, e)
  ELSE [q EXCEPT ![FirstSlot(q, e.key)] =
          [key |-> e.key, val |-> e.val, retry |-> @.retry, tries |-> 0]]

\* A failed write goes back to the front (VecDeque::push_front).
PushFront(q, e) == <<e>> \o q

\* The writes a queue holds, as pairs of key and value.
Writes(q) == {[key |-> q[i].key, val |-> q[i].val] : i \in 1..Len(q)}
=============================================================================
