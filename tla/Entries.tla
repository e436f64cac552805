------------------------------ MODULE Entries -------------------------------
(***************************************************************************)
(* A keyed document, as CronStore in agent/src/core/cron.rs keeps its jobs *)
(* and the cache its objects: a function from the keys that are there.     *)
(***************************************************************************)

With(s, k, v) == [x \in DOMAIN s \cup {k} |-> IF x = k THEN v ELSE s[x]]
Without(s, k) == [x \in DOMAIN s \ {k} |-> s[x]]
=============================================================================
