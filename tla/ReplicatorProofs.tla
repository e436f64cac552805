-------------------------- MODULE ReplicatorProofs --------------------------
(* Theorems about Replicator.tla, for every number of writers, every key   *)
(* set, every queue cap and every retry limit.                             *)
EXTENDS Replicator, SequenceTheorems, WellFoundedInduction, TLAPS

USE DrainerAssumption, QueueMaxAssumption, RetryMaxAssumption,
    MaxWritesAssumption, NoItemAssumption

-----------------------------------------------------------------------------
(* The queue operators.                                                    *)

\* The fields of a write, and what an update of its counters leaves of it.
LEMMA EntryFields ==
  ASSUME NEW e \in Entry
  PROVE  e.key \in Keys /\ e.val \in Value /\ e.retry \in 0..255 /\ e.tries \in Nat
BY DEF Entry

LEMMA EntryUpdate ==
  ASSUME NEW e \in Entry, NEW r \in 0..255, NEW t \in Nat
  PROVE  /\ [e EXCEPT !.retry = r] \in Entry
         /\ [e EXCEPT !.retry = r, !.tries = t] \in Entry
         /\ [e EXCEPT !.retry = r, !.tries = t].retry = r
BY DEF Entry

\* EXCEPT at any index, inside the sequence or not, keeps type and length.
LEMMA ExceptType ==
  ASSUME NEW S, NEW q \in Seq(S), NEW i, NEW x, i \in 1..Len(q) => x \in S
  PROVE  /\ [q EXCEPT ![i] = x] \in Seq(S)
         /\ Len([q EXCEPT ![i] = x]) = Len(q)
<1>1. CASE i \in 1..Len(q)
  BY <1>1, ExceptSeq
<1>2. CASE i \notin 1..Len(q)
  <2>1. [q EXCEPT ![i] = x] = q
    BY <1>2
  <2> QED BY <2>1
<1> QED BY <1>1, <1>2

\* Coalescing a write keeps the queue a queue of entries, and makes it longer
\* by one at most.
LEMMA CoalesceType ==
  ASSUME NEW q \in Seq(Entry), NEW e \in Entry
  PROVE  /\ Coalesce(q, e) \in Seq(Entry)
         /\ Len(Coalesce(q, e)) \in {Len(q), Len(q) + 1}
         /\ Coalesce(q, e) # <<>>
<1> DEFINE s == FirstSlot(q, e.key)
           new == [key |-> e.key, val |-> e.val,
                   retry |-> q[s].retry, tries |-> 0]
<1>1. CASE Slots(q, e.key) = {}
  BY <1>1 DEF Coalesce
<1>2. CASE Slots(q, e.key) # {}
  <2>1. q # <<>>
    BY <1>2 DEF Slots
  <2>2. Coalesce(q, e) = [q EXCEPT ![s] = new]
    BY <1>2 DEF Coalesce
  <2>3. s \in 1..Len(q) => new \in Entry
    <3> SUFFICES ASSUME s \in 1..Len(q) PROVE new \in Entry
      OBVIOUS
    <3> HIDE DEF s
    <3>1. q[s] \in Entry
      OBVIOUS
    <3> QED BY <3>1 DEF Entry
  <2>4. /\ [q EXCEPT ![s] = new] \in Seq(Entry)
        /\ Len([q EXCEPT ![s] = new]) = Len(q)
    <3> HIDE DEF new, s
    <3> QED BY <2>3, ExceptType
  <2> QED BY <2>1, <2>2, <2>4
<1> QED BY <1>1, <1>2

\* Putting a write back at the front.
LEMMA PushFrontType ==
  ASSUME NEW q \in Seq(Entry), NEW e \in Entry
  PROVE  /\ PushFront(q, e) \in Seq(Entry)
         /\ Len(PushFront(q, e)) = Len(q) + 1
         /\ PushFront(q, e) # <<>>
BY DEF PushFront

-----------------------------------------------------------------------------
(* Type correctness.                                                       *)

LEMMA TypeInit == Init => TypeOK
<1> SUFFICES ASSUME Init PROVE TypeOK
  OBVIOUS
<1>1. queue \in Seq(Entry)
  BY EmptySeq DEF Init
<1>2. /\ wpc \in [Writers -> {"idle", "blocked"}]
      /\ req \in [Writers -> Keys \cup {NoItem}]
      /\ \A w \in Writers : wpc[w] = "blocked" => req[w] \in Keys
  BY DEF Init
<1>3. 0 \in 0..MaxWrites
  OBVIOUS
<1>4. /\ bucket \in [Keys -> 0..MaxWrites]
      /\ newest \in [Keys -> 0..MaxWrites]
  BY <1>3 DEF Init
<1> QED BY <1>1, <1>2, <1>3, <1>4 DEF Init, TypeOK, DrainerStates

\* Waking one thread leaves a subset of the threads asleep.
LEMMA NotifyOneShrinks == NotifyOne => waitSet' \subseteq waitSet
BY DEF NotifyOne, NotifyNobody

\* The three ways through enqueue().
LEMMA TypeEnqueue ==
  ASSUME TypeOK, NEW w \in Writers, NEW k \in Keys,
         Admit(w, k) \/ Block(w, k) \/ Turn(w)
  PROVE  TypeOK'
<1>1. CASE Admit(w, k)
  <2> DEFINE e == [key |-> k, val |-> accepted + 1, retry |-> 0, tries |-> 0]
  <2>1. accepted + 1 \in Value /\ accepted' \in 0..MaxWrites
    BY <1>1 DEF TypeOK, Admit, Value
  <2>2. e \in Entry
    BY <2>1 DEF Entry
  <2>3. queue' \in Seq(Entry)
    BY <1>1, <2>2, CoalesceType DEF Admit, TypeOK
  <2>4. waitSet' \subseteq Writers \cup {Drainer}
    BY <1>1, NotifyOneShrinks DEF Admit, TypeOK
  <2>5. newest' \in [Keys -> 0..MaxWrites]
    BY <1>1, <2>1 DEF Admit, TypeOK
  <2> QED BY <1>1, <2>1, <2>3, <2>4, <2>5 DEF Admit, TypeOK
<1>2. CASE Block(w, k)
  BY <1>2 DEF Block, TypeOK, stateVars, history
<1>3. CASE Turn(w)
  BY <1>3 DEF Turn, NotifyNobody, TypeOK, stateVars, history
<1> QED BY <1>1, <1>2, <1>3

\* Taking the front write keeps the queue a queue, shorter by one.
LEMMA PopType ==
  ASSUME NEW q \in Seq(Entry), q # <<>>
  PROVE  /\ Head(q) \in Entry
         /\ Tail(q) \in Seq(Entry)
         /\ Len(Tail(q)) = Len(q) - 1
         /\ Len(q) \in Nat
BY HeadTailProperties

\* A u8 counter stays a u8.
LEMMA OneMore == \A n \in 0..255, t \in Nat : (n + 1) % 256 \in 0..255 /\ t + 1 \in Nat
OBVIOUS

LEMMA OneLess == \A n \in 0..255 : n > RetryMax => n - 1 \in 0..255
OBVIOUS

\* A PUT that lands.
LEMMA StoreType ==
  ASSUME bucket \in [Keys -> 0..MaxWrites], landed \subseteq Value,
         item.key \in Keys, item.val \in Value,
         Store \/ UNCHANGED <<bucket, landed>>
  PROVE  bucket' \in [Keys -> 0..MaxWrites] /\ landed' \subseteq Value
<1>1. CASE Store
  <2>1. item.val \in 0..MaxWrites
    BY DEF Value
  <2> QED BY <1>1, <2>1 DEF Store
<1>2. CASE UNCHANGED <<bucket, landed>>
  BY <1>2
<1> QED BY <1>1, <1>2

LEMMA TypeDrainer == TypeOK /\ DrainerStep => TypeOK'
<1> SUFFICES ASSUME TypeOK, DrainerStep PROVE TypeOK'
  OBVIOUS
<1> USE DEF TypeOK, stateVars, writerVars, history
<1>1. CASE DrainerWait
  BY <1>1 DEF DrainerWait
<1>2. CASE DrainerExit
  BY <1>2 DEF DrainerExit, DrainerStates
<1>3. CASE DrainerPop
  <2>1. item' \in Entry /\ queue' \in Seq(Entry)
    BY <1>3, PopType DEF DrainerPop
  <2> QED BY <1>3, <2>1 DEF DrainerPop, DrainerStates
<1>4. CASE DrainerNotifyAll
  BY <1>4 DEF DrainerNotifyAll, DrainerStates
<1>5. CASE PutOk
  <2>1. item.key \in Keys /\ item.val \in Value
    BY <1>5 DEF PutOk, Entry
  <2>2. bucket' \in [Keys -> 0..MaxWrites] /\ landed' \subseteq Value
    BY <1>5, <2>1, StoreType DEF PutOk
  <2> QED BY <1>5, <2>2 DEF PutOk, DrainerStates
<1>6. CASE RecordSync
  BY <1>6 DEF RecordSync, DrainerStates
<1>7. CASE PutErr
  <2>1. item \in Entry /\ item.key \in Keys /\ item.val \in Value
    BY <1>7, EntryFields DEF PutErr
  <2>2. bucket' \in [Keys -> 0..MaxWrites] /\ landed' \subseteq Value
    BY <1>7, <2>1, StoreType DEF PutErr
  <2> DEFINE r == (item.retry + 1) % 256
  <2>3. r \in 0..255 /\ item.tries + 1 \in Nat
    <3>1. item.retry \in 0..255 /\ item.tries \in Nat
      BY <2>1, EntryFields
    <3> QED BY <3>1, OneMore
  <2>4. item' \in Entry /\ item'.retry = r
    <3>1. item' = [item EXCEPT !.retry = r, !.tries = item.tries + 1]
      BY <1>7 DEF PutErr
    <3> HIDE DEF r
    <3> QED BY <2>1, <2>3, <3>1, EntryUpdate
  <2>5. dpc' = IF r > RetryMax THEN "demote" ELSE "sleep"
    BY <1>7 DEF PutErr
  <2> HIDE DEF r
  <2> QED BY <1>7, <2>2, <2>4, <2>5 DEF PutErr, DrainerStates
<1>8. CASE Demote
  <2>1. item \in Entry
    BY <1>8 DEF Demote
  <2>2. item.retry > RetryMax
    BY <1>8 DEF Demote
  <2>3. deadLetter' \subseteq Entry
    <3>1. item.retry - 1 \in 0..255 /\ item.tries \in Nat
      BY <2>1, <2>2, EntryFields, OneLess
    <3>2. deadLetter' = deadLetter \cup {[item EXCEPT !.retry = item.retry - 1]}
      BY <1>8 DEF Demote
    <3> QED BY <2>1, <3>1, <3>2, EntryUpdate
  <2> QED BY <1>8, <2>3 DEF Demote, DrainerStates
<1>9. CASE Requeue
  <2>1. queue' \in Seq(Entry)
    BY <1>9, PushFrontType DEF Requeue
  <2>2. waitSet' \subseteq Writers \cup {Drainer}
    BY <1>9, NotifyOneShrinks DEF Requeue
  <2> QED BY <1>9, <2>1, <2>2 DEF Requeue, DrainerStates
<1> QED BY <1>1, <1>2, <1>3, <1>4, <1>5, <1>6, <1>7, <1>8, <1>9
        DEF DrainerStep

LEMMA TypeStep == TypeOK /\ [Next]_vars => TypeOK'
<1> SUFFICES ASSUME TypeOK, [Next]_vars PROVE TypeOK'
  OBVIOUS
<1>1. ASSUME NEW w \in Writers, NEW k \in Keys, Enqueue(w, k)
      PROVE  TypeOK'
  BY <1>1, TypeEnqueue DEF Enqueue
<1>2. ASSUME NEW w \in Writers, Resume(w)
      PROVE  TypeOK'
  <2>1. req[w] \in Keys
    BY <1>2 DEF Resume, TypeOK
  <2> QED BY <1>2, <2>1, TypeEnqueue DEF Resume
<1>3. CASE Stop
  BY <1>3 DEF Stop, TypeOK, writerVars, history
<1>4. CASE DrainerStep
  BY <1>4, TypeDrainer
<1>5. CASE SpuriousWakeup
  BY <1>5 DEF SpuriousWakeup, TypeOK, stateVars, writerVars, history
<1>6. CASE UNCHANGED vars
  BY <1>6 DEF vars, TypeOK
<1> QED BY <1>1, <1>2, <1>3, <1>4, <1>5, <1>6 DEF Next

\* Every variable keeps its type, and the drainer has a write in hand exactly
\* where drainer_loop has one.
THEOREM TypeCorrect == Spec => []TypeOK
BY TypeInit, TypeStep, PTL DEF Spec

-----------------------------------------------------------------------------
(* The cap.  enqueue() admits below the cap only, and the drainer puts back *)
(* no more than it took.                                                    *)

LEMMA BoundedInit == Init => Bounded
BY DEF Init, Bounded

LEMMA BoundedStep == TypeOK /\ Bounded /\ [Next]_vars => Bounded'
<1> SUFFICES ASSUME TypeOK, Bounded, [Next]_vars PROVE Bounded'
  OBVIOUS
<1>0. /\ Len(queue) \in Nat
      /\ item # NoItem <=> dpc \in {"notify", "put", "sleep", "demote"}
  BY DEF TypeOK
<1>1. ASSUME NEW w \in Writers, NEW k \in Keys,
             Admit(w, k) \/ Block(w, k) \/ Turn(w)
      PROVE  Bounded'
  <2>1. CASE Admit(w, k)
    <3> DEFINE e == [key |-> k, val |-> accepted + 1, retry |-> 0, tries |-> 0]
    <3>1. e \in Entry
      BY <2>1 DEF Admit, TypeOK, Entry, Value
    <3>2. Len(queue') \in {Len(queue), Len(queue) + 1}
      BY <2>1, <3>1, CoalesceType DEF Admit, TypeOK
    <3>3. Len(queue) < QueueMax /\ item' = item
      BY <2>1, <1>0 DEF Admit, Full
    <3> QED BY <1>0, <3>2, <3>3 DEF Bounded
  <2>2. CASE Block(w, k)
    BY <2>2 DEF Block, Bounded, stateVars
  <2>3. CASE Turn(w)
    BY <2>3 DEF Turn, Bounded, stateVars
  <2> QED BY <1>1, <2>1, <2>2, <2>3
<1>2. ASSUME NEW w \in Writers, NEW k \in Keys, Enqueue(w, k)
      PROVE  Bounded'
  BY <1>1, <1>2 DEF Enqueue
<1>3. ASSUME NEW w \in Writers, Resume(w)
      PROVE  Bounded'
  <2>1. req[w] \in Keys
    BY <1>3 DEF Resume, TypeOK
  <2> QED BY <1>1, <1>3, <2>1 DEF Resume
<1>4. CASE DrainerPop
  <2>1. Len(queue') = Len(queue) - 1
    BY <1>4, PopType DEF DrainerPop, TypeOK
  <2>2. item = NoItem
    BY <1>4, <1>0 DEF DrainerPop
  <2> QED BY <1>0, <2>1, <2>2 DEF Bounded
<1>5. CASE Requeue
  <2>1. item \in Entry
    BY <1>5 DEF Requeue, TypeOK
  <2>2. Len(queue') = Len(queue) + 1
    BY <1>5, <2>1, PushFrontType DEF Requeue, TypeOK
  <2>3. item # NoItem /\ item' = NoItem
    BY <1>5, <1>0 DEF Requeue
  <2> QED BY <1>0, <2>2, <2>3 DEF Bounded
<1>6. CASE queue' = queue /\ item' \in {item, NoItem}
  BY <1>0, <1>6 DEF Bounded
<1>7. CASE PutErr
  <2>1. item # NoItem /\ queue' = queue
    BY <1>7, <1>0 DEF PutErr, stateVars
  <2> QED BY <1>0, <2>1 DEF Bounded
<1>8. /\ Stop \/ SpuriousWakeup \/ DrainerWait \/ DrainerExit
           \/ DrainerNotifyAll \/ PutOk \/ RecordSync \/ Demote
           \/ UNCHANGED vars
         => queue' = queue /\ item' \in {item, NoItem}
  BY DEF Stop, SpuriousWakeup, DrainerWait, DrainerExit, DrainerNotifyAll,
         PutOk, RecordSync, Demote, vars, stateVars
<1> QED BY <1>2, <1>3, <1>4, <1>5, <1>6, <1>7, <1>8 DEF Next, DrainerStep

\* Backpressure: at most queue_max + 1 unsent writes are in memory, although
\* a retried write is pushed onto a queue that may be full.
THEOREM QueueBounded == Spec => []Bounded
BY TypeInit, TypeStep, BoundedInit, BoundedStep, PTL DEF Spec

-----------------------------------------------------------------------------
(* No lost wakeup.                                                         *)

LEMMA WakeupInit == Init => NoLostWakeup
BY DEF Init, NoLostWakeup

\* notify_one wakes the drainer if it is the only thread asleep.
LEMMA NotifyOneWakes ==
  NotifyOne /\ waitSet \subseteq {Drainer} => Drainer \notin waitSet'
BY DEF NotifyOne, NotifyNobody

LEMMA WakeupStep == TypeOK /\ NoLostWakeup /\ [Next]_vars => NoLostWakeup'
<1> SUFFICES ASSUME TypeOK, NoLostWakeup, [Next]_vars PROVE NoLostWakeup'
  OBVIOUS
<1>0. /\ Len(queue) \in Nat
      /\ queue = <<>> => ~Full
      /\ queue \in Seq(Entry)
      /\ Drainer \notin Writers
      /\ waitSet \subseteq Writers \cup {Drainer}
      /\ wpc \in [Writers -> {"idle", "blocked"}]
  BY DEF TypeOK, Full
<1>1. ASSUME NEW w \in Writers, NEW k \in Keys, w \notin waitSet,
             Admit(w, k) \/ Block(w, k) \/ Turn(w)
      PROVE  NoLostWakeup'
  <2>1. CASE Admit(w, k)
    <3> DEFINE e == [key |-> k, val |-> accepted + 1, retry |-> 0, tries |-> 0]
    <3>1. e \in Entry
      BY <2>1 DEF Admit, TypeOK, Entry, Value
    <3>2. Len(queue') \in {Len(queue), Len(queue) + 1}
      BY <2>1, <3>1, CoalesceType DEF Admit, TypeOK
    <3>3. ASSUME Drainer \in waitSet PROVE Drainer \notin waitSet'
      <4>1. waitSet \subseteq {Drainer}
        BY <1>0, <3>3 DEF NoLostWakeup
      <4> QED BY <2>1, <4>1, NotifyOneWakes DEF Admit
    <3>4. waitSet' \subseteq waitSet
      BY <2>1, NotifyOneShrinks DEF Admit
    <3>5. Full => Full'
      BY <1>0, <3>2 DEF Full
    <3>6. /\ dpc' = dpc /\ stopping' = stopping
          /\ \A v \in Writers : v # w => wpc'[v] = wpc[v]
      BY <2>1, <1>0 DEF Admit
    <3> QED BY <1>1, <3>3, <3>4, <3>5, <3>6 DEF NoLostWakeup
  <2>2. CASE Block(w, k)
    BY <2>2, <1>0 DEF Block, stateVars, NoLostWakeup, Full
  <2>3. CASE Turn(w)
    BY <2>3, <1>0, <1>1 DEF Turn, NotifyNobody, stateVars, NoLostWakeup, Full
  <2> QED BY <1>1, <2>1, <2>2, <2>3
<1>2. ASSUME NEW w \in Writers, NEW k \in Keys, Enqueue(w, k)
      PROVE  NoLostWakeup'
  <2>1. w \notin waitSet
    BY <1>2 DEF Enqueue, NoLostWakeup
  <2> QED BY <1>1, <1>2, <2>1 DEF Enqueue
<1>3. ASSUME NEW w \in Writers, Resume(w)
      PROVE  NoLostWakeup'
  <2>1. req[w] \in Keys
    BY <1>3 DEF Resume, TypeOK
  <2> QED BY <1>1, <1>3, <2>1 DEF Resume
<1>4. CASE Stop
  BY <1>4 DEF Stop, NoLostWakeup
<1>5. CASE SpuriousWakeup
  BY <1>5 DEF SpuriousWakeup, NoLostWakeup, Full, stateVars, writerVars
<1>6. CASE UNCHANGED vars
  BY <1>6 DEF vars, NoLostWakeup, Full
<1>7. CASE DrainerStep
  <2>1. CASE DrainerWait
    BY <1>0, <2>1 DEF DrainerWait, NoLostWakeup, Full, stateVars, writerVars
  <2>2. CASE DrainerExit
    BY <2>2 DEF DrainerExit, NoLostWakeup, Full, stateVars, writerVars
  <2>3. CASE DrainerPop
    BY <2>3 DEF DrainerPop, NoLostWakeup, Full, writerVars
  <2>4. CASE DrainerNotifyAll
    BY <2>4 DEF DrainerNotifyAll, NoLostWakeup
  <2>5. CASE PutOk
    BY <2>5 DEF PutOk, NoLostWakeup, Full, stateVars, writerVars
  <2>6. CASE RecordSync
    BY <2>6 DEF RecordSync, NoLostWakeup, Full, writerVars
  <2>7. CASE PutErr
    BY <2>7 DEF PutErr, NoLostWakeup, Full, stateVars, writerVars
  <2>8. CASE Demote
    BY <2>8 DEF Demote, NoLostWakeup, Full, writerVars
  <2>9. CASE Requeue
    <3>1. item \in Entry
      BY <2>9 DEF Requeue, TypeOK
    <3>2. Len(queue') = Len(queue) + 1
      BY <2>9, <1>0, <3>1, PushFrontType DEF Requeue
    <3>3. waitSet' \subseteq waitSet /\ Drainer \notin waitSet
      BY <2>9, NotifyOneShrinks DEF Requeue, NoLostWakeup
    <3>4. Full => Full'
      BY <1>0, <3>2 DEF Full
    <3>5. dpc = "sleep" /\ stopping' = stopping /\ wpc' = wpc
      BY <2>9 DEF Requeue, writerVars
    <3> QED BY <3>3, <3>4, <3>5 DEF NoLostWakeup
  <2> QED BY <1>7, <2>1, <2>2, <2>3, <2>4, <2>5, <2>6, <2>7, <2>8, <2>9
          DEF DrainerStep
<1> QED BY <1>2, <1>3, <1>4, <1>5, <1>6, <1>7 DEF Next

\* The drainer never sleeps on work and a writer never sleeps on room, with
\* one condition variable for both and notify_one in enqueue().
THEOREM WakeupsNotLost == Spec => []NoLostWakeup
BY TypeInit, TypeStep, WakeupInit, WakeupStep, PTL DEF Spec

(***************************************************************************)
(* What becomes of the writes the replicator accepts.                      *)
(***************************************************************************)
-----------------------------------------------------------------------------
(* The first slot of a key.                                                *)

\* A set of naturals that is not empty has a least member.
LEMMA LeastNat ==
  ASSUME NEW S, S \subseteq Nat, S # {}
  PROVE  \E m \in S : \A n \in S : m <= n
<1> DEFINE R == OpToRel(<, Nat)
<1>1. IsWellFoundedOn(R, Nat)
  BY NatLessThanWellFounded
<1>2. \A x, y \in Nat : x < y => <<x, y>> \in R
  BY DEF OpToRel
<1> HIDE DEF R
<1>3. PICK m \in S : \A n \in S : <<n, m>> \notin R
  BY <1>1, WFMin
<1>4. ASSUME NEW n \in S PROVE m <= n
  <2>1. n \in Nat /\ m \in Nat
    OBVIOUS
  <2>2. ~(n < m)
    BY <1>2, <1>3, <2>1
  <2> QED BY <2>1, <2>2
<1> QED BY <1>4

\* `iter_mut().find` finds an entry of the key, if the queue holds one.
LEMMA FirstSlotIsSlot ==
  ASSUME NEW q \in Seq(Entry), NEW k, Slots(q, k) # {}
  PROVE  /\ FirstSlot(q, k) \in 1..Len(q)
         /\ q[FirstSlot(q, k)].key = k
<1>1. Slots(q, k) \subseteq Nat
  BY DEF Slots
<1>2. \E i \in Slots(q, k) : \A j \in Slots(q, k) : i <= j
  BY <1>1, LeastNat
<1>3. FirstSlot(q, k) \in Slots(q, k)
  BY <1>2 DEF FirstSlot
<1> QED BY <1>3 DEF Slots

\* Queue n is queue q with e at its back, where no entry has the key of e.
Appended(q, e, n) ==
  /\ n \in Seq(Entry)
  /\ Len(n) = Len(q) + 1
  /\ \A i \in 1..Len(q) : n[i] = q[i] /\ q[i].key # e.key
  /\ n[Len(q) + 1] = e

\* Queue n is queue q with the bytes of e at position s, which has its key.
Replaced(q, e, n, s) ==
  /\ n \in Seq(Entry)
  /\ Len(n) = Len(q)
  /\ \A i \in 1..Len(q) : i # s => n[i] = q[i]
  /\ q[s].key = e.key
  /\ n[s] = [key |-> e.key, val |-> e.val, retry |-> q[s].retry, tries |-> 0]

\* Coalesce, position by position.
LEMMA CoalesceCases ==
  ASSUME NEW q \in Seq(Entry), NEW e \in Entry
  PROVE  \/ Appended(q, e, Coalesce(q, e))
         \/ \E s \in 1..Len(q) : Replaced(q, e, Coalesce(q, e), s)
<1>1. CASE Slots(q, e.key) = {}
  <2>1. Coalesce(q, e) = Append(q, e)
    BY <1>1 DEF Coalesce
  <2>2. \A i \in 1..Len(q) : q[i].key # e.key
    BY <1>1 DEF Slots
  <2> QED BY <2>1, <2>2, AppendProperties DEF Appended
<1>2. CASE Slots(q, e.key) # {}
  <2> DEFINE s == FirstSlot(q, e.key)
             new == [key |-> e.key, val |-> e.val,
                     retry |-> q[s].retry, tries |-> 0]
  <2>1. s \in 1..Len(q) /\ q[s].key = e.key
    BY <1>2, FirstSlotIsSlot
  <2>2. Coalesce(q, e) = [q EXCEPT ![s] = new]
    BY <1>2 DEF Coalesce
  <2>3. Coalesce(q, e) \in Seq(Entry)
    BY CoalesceType
  <2> HIDE DEF s, new
  <2>4. /\ Len([q EXCEPT ![s] = new]) = Len(q)
        /\ [q EXCEPT ![s] = new][s] = new
        /\ \A i \in 1..Len(q) : i # s => [q EXCEPT ![s] = new][i] = q[i]
    BY <2>1
  <2>5. new = [key |-> e.key, val |-> e.val, retry |-> q[s].retry, tries |-> 0]
    BY DEF new
  <2>6. Replaced(q, e, Coalesce(q, e), s)
    BY <2>1, <2>2, <2>3, <2>4, <2>5 DEF Replaced
  <2> QED BY <2>1, <2>6
<1> QED BY <1>1, <1>2

\* Putting a write in front moves the others one position back.
LEMMA PushFrontAt ==
  ASSUME NEW q \in Seq(Entry), NEW e \in Entry
  PROVE  /\ Len(PushFront(q, e)) = Len(q) + 1
         /\ PushFront(q, e)[1] = e
         /\ \A i \in 1..Len(q) : PushFront(q, e)[i + 1] = q[i]
         /\ \A i \in 2..(Len(q) + 1) : PushFront(q, e)[i] = q[i - 1]
BY DEF PushFront

\* Taking the front write moves the others one position forward.
LEMMA TailAt ==
  ASSUME NEW q \in Seq(Entry), q # <<>>
  PROVE  /\ Len(Tail(q)) = Len(q) - 1
         /\ Head(q) = q[1]
         /\ \A i \in 1..Len(Tail(q)) : Tail(q)[i] = q[i + 1]
BY HeadTailProperties

-----------------------------------------------------------------------------
(* The drainer leaves an empty queue behind.                               *)

\* Once the drainer is gone the replicator is stopping, so nothing is
\* admitted any more.
DoneIsFinal == dpc = "done" => stopping /\ queue = <<>>

LEMMA DoneStep == TypeOK /\ DoneIsFinal /\ [Next]_vars => DoneIsFinal'
<1> SUFFICES ASSUME TypeOK, DoneIsFinal, [Next]_vars PROVE DoneIsFinal'
  OBVIOUS
<1>1. ASSUME NEW w \in Writers, NEW k, Admit(w, k) \/ Block(w, k) \/ Turn(w)
      PROVE  DoneIsFinal'
  BY <1>1 DEF Admit, Block, Turn, DoneIsFinal, stateVars
<1>2. CASE \E w \in Writers : Resume(w) \/ \E k \in Keys : Enqueue(w, k)
  BY <1>1, <1>2 DEF Resume, Enqueue
<1>3. CASE Stop
  BY <1>3 DEF Stop, DoneIsFinal
<1>4. CASE DrainerStep
  BY <1>4 DEF DrainerStep, DrainerWait, DrainerExit, DrainerPop,
              DrainerNotifyAll, PutOk, RecordSync, PutErr, Demote, Requeue,
              DoneIsFinal, stateVars
<1>5. CASE SpuriousWakeup \/ UNCHANGED vars
  BY <1>5 DEF SpuriousWakeup, DoneIsFinal, vars, stateVars
<1> QED BY <1>2, <1>3, <1>4, <1>5 DEF Next

\* When the drainer thread can be joined, nothing is queued and nothing is in
\* its hands: every write that enqueue() took is settled.
THEOREM ExitIsDrained == Spec => []DrainedAtExit
<1>1. Init => DoneIsFinal
  BY DEF Init, DoneIsFinal
<1>2. TypeOK /\ DoneIsFinal => DrainedAtExit
  BY DEF TypeOK, DoneIsFinal, DrainedAtExit
<1> QED BY <1>1, <1>2, DoneStep, TypeInit, TypeStep, PTL DEF Spec

-----------------------------------------------------------------------------
(* No silent loss.                                                         *)

\* Where a write can be that has not reached the bucket.
Places == InQueue \cup Held \cup deadLetter

\* A step loses nothing if each write is in some place afterwards, with the
\* same key and bytes, or has landed.
LEMMA StillAccounted ==
  ASSUME NewestAccounted, newest' = newest, landed \subseteq landed',
         \A e \in Places : \/ e.val \in landed'
                           \/ \E f \in Places' : f.key = e.key /\ f.val = e.val
  PROVE  NewestAccounted'
BY DEF NewestAccounted, Places

\* An admitted write takes the place of an older one to its key, at most.
LEMMA AdmitAccounts ==
  ASSUME TypeOK, NewestAccounted, NEW w \in Writers, NEW k \in Keys, Admit(w, k)
  PROVE  NewestAccounted'
<1> DEFINE e == [key |-> k, val |-> accepted + 1, retry |-> 0, tries |-> 0]
<1>1. e \in Entry /\ queue \in Seq(Entry) /\ queue' = Coalesce(queue, e)
  <2>1. accepted + 1 \in Value
    BY DEF Admit, TypeOK, Value
  <2> QED BY <2>1 DEF Admit, TypeOK, Entry
<1>2. Held' = Held /\ deadLetter' = deadLetter /\ landed' = landed
  BY DEF Admit, Held
<1>3. /\ newest'[k] = e.val
      /\ \A j \in Keys : j # k => newest'[j] = newest[j]
  BY DEF Admit, TypeOK
<1>4. /\ \E f \in InQueue' : f.key = k /\ f.val = e.val
      /\ \A f \in InQueue : f.key # k => f \in InQueue'
  <2> HIDE DEF e
  <2>1. e.key = k
    BY DEF e
  <2>2. CASE Appended(queue, e, queue')
    <3>1. /\ Len(queue) + 1 \in 1..Len(queue')
          /\ 1..Len(queue) \subseteq 1..Len(queue')
      BY <1>1, <2>2, LenProperties DEF Appended
    <3> QED BY <2>1, <2>2, <3>1 DEF InQueue, Appended
  <2>3. CASE \E s \in 1..Len(queue) : Replaced(queue, e, queue', s)
    BY <2>1, <2>3 DEF InQueue, Replaced
  <2> QED BY <1>1, <2>2, <2>3, CoalesceCases
<1> HIDE DEF e
<1>5. ASSUME NEW j \in Keys, newest'[j] # 0, newest'[j] \notin landed'
      PROVE  \E f \in (InQueue \cup Held \cup deadLetter)' :
               f.key = j /\ f.val = newest'[j]
  <2>1. CASE j = k
    BY <1>3, <1>4, <2>1
  <2>2. CASE j # k
    BY <1>2, <1>3, <1>4, <1>5, <2>2 DEF NewestAccounted
  <2> QED BY <2>1, <2>2
<1> QED BY <1>5 DEF NewestAccounted

LEMMA AccountedDrainer ==
  TypeOK /\ NewestAccounted /\ DrainerStep => NewestAccounted'
<1> SUFFICES ASSUME TypeOK, NewestAccounted, DrainerStep PROVE NewestAccounted'
  OBVIOUS
<1>0. queue \in Seq(Entry)
  BY DEF TypeOK
<1>1. CASE \/ DrainerWait \/ DrainerExit \/ DrainerNotifyAll \/ RecordSync
  BY <1>1 DEF DrainerWait, DrainerExit, DrainerNotifyAll, RecordSync,
              stateVars, history, NewestAccounted, InQueue, Held
<1>2. CASE DrainerPop
  <2>1. Held = {} /\ Held' = {Head(queue)} /\ Head(queue) = queue[1]
    <3>1. item = NoItem /\ item' = Head(queue) /\ Head(queue) \in Entry
      BY <1>2, PopType DEF DrainerPop, TypeOK
    <3> QED BY <1>2, <3>1, <1>0, TailAt DEF Held, DrainerPop
  <2>2. InQueue \subseteq InQueue' \cup Held'
    <3> SUFFICES ASSUME NEW i \in 1..Len(queue), i # 1
                 PROVE  queue[i] \in InQueue'
      BY <2>1 DEF InQueue
    <3>1. /\ queue' = Tail(queue) /\ Len(queue') = Len(queue) - 1
          /\ \A j \in 1..Len(queue') : queue'[j] = queue[j + 1]
      BY <1>0, <1>2, TailAt DEF DrainerPop
    <3>2. i - 1 \in 1..Len(queue') /\ (i - 1) + 1 = i
      BY <1>0, <3>1, LenProperties
    <3>3. queue'[i - 1] = queue[i]
      BY <3>1, <3>2
    <3> QED BY <3>2, <3>3 DEF InQueue
  <2>3. newest' = newest /\ landed' = landed /\ deadLetter' = deadLetter
    BY <1>2 DEF DrainerPop, history
  <2> QED BY <2>1, <2>2, <2>3, StillAccounted DEF Places
<1>3. CASE PutOk
  <2>1. /\ newest' = newest /\ landed' = landed \cup {item.val}
        /\ InQueue' = InQueue /\ deadLetter' = deadLetter /\ Held = {item}
    BY <1>3 DEF PutOk, Store, stateVars, InQueue, Held, TypeOK
  <2> QED BY <2>1, StillAccounted DEF Places
<1>4. CASE PutErr
  <2>1. item \in Entry
    BY <1>4 DEF PutErr, TypeOK
  <2>2. item'.key = item.key /\ item'.val = item.val /\ item' \in Entry
    <3> DEFINE r == (item.retry + 1) % 256
    <3>1. item' = [item EXCEPT !.retry = r, !.tries = item.tries + 1]
      BY <1>4 DEF PutErr
    <3>2. r \in 0..255 /\ item.tries + 1 \in Nat
      BY <2>1, EntryFields, OneMore
    <3> HIDE DEF r
    <3>3. item' \in Entry
      BY <2>1, <3>1, <3>2, EntryUpdate
    <3> QED BY <2>1, <3>1, <3>3 DEF Entry
  <2>3. Held = {item} /\ Held' = {item'}
    BY <2>1, <2>2 DEF Held
  <2>4. /\ newest' = newest /\ landed \subseteq landed'
        /\ InQueue' = InQueue /\ deadLetter' = deadLetter
    BY <1>4 DEF PutErr, Store, stateVars, InQueue
  <2> QED BY <2>2, <2>3, <2>4, StillAccounted DEF Places
<1>5. CASE Demote
  <2>1. item \in Entry
    BY <1>5 DEF Demote, TypeOK
  <2> DEFINE d == [item EXCEPT !.retry = item.retry - 1]
  <2>2. d.key = item.key /\ d.val = item.val
    BY <2>1 DEF Entry
  <2>3. d \in deadLetter' /\ deadLetter \subseteq deadLetter'
    BY <1>5 DEF Demote
  <2>4. newest' = newest /\ landed' = landed /\ InQueue' = InQueue
    BY <1>5 DEF Demote, history, InQueue
  <2>5. Held = {item}
    BY <2>1 DEF Held
  <2> HIDE DEF d
  <2> QED BY <2>2, <2>3, <2>4, <2>5, StillAccounted DEF Places
<1>6. CASE Requeue
  <2>1. item \in Entry
    BY <1>6 DEF Requeue, TypeOK
  <2>2. /\ queue' = PushFront(queue, item)
        /\ Len(queue') = Len(queue) + 1
        /\ queue'[1] = item
        /\ \A i \in 1..Len(queue) : queue'[i + 1] = queue[i]
    BY <1>0, <1>6, <2>1, PushFrontAt DEF Requeue
  <2>3. item \in InQueue'
    <3>1. 1 \in 1..Len(queue')
      BY <1>0, <2>2, LenProperties
    <3> QED BY <2>2, <3>1 DEF InQueue
  <2>4. InQueue \subseteq InQueue'
    <3> SUFFICES ASSUME NEW i \in 1..Len(queue) PROVE queue[i] \in InQueue'
      BY DEF InQueue
    <3>1. i + 1 \in 1..Len(queue') /\ queue'[i + 1] = queue[i]
      BY <1>0, <2>2, LenProperties
    <3> QED BY <3>1 DEF InQueue
  <2>5. Held = {item}
    BY <2>1 DEF Held
  <2>6. newest' = newest /\ landed' = landed /\ deadLetter' = deadLetter
    BY <1>6 DEF Requeue, history
  <2> QED BY <2>3, <2>4, <2>5, <2>6, StillAccounted DEF Places
<1> QED BY <1>1, <1>2, <1>3, <1>4, <1>5, <1>6 DEF DrainerStep

LEMMA AccountedStep == TypeOK /\ NewestAccounted /\ [Next]_vars => NewestAccounted'
<1> SUFFICES ASSUME TypeOK, NewestAccounted, [Next]_vars PROVE NewestAccounted'
  OBVIOUS
<1>1. ASSUME NEW w \in Writers, NEW k \in Keys,
             Admit(w, k) \/ Block(w, k) \/ Turn(w)
      PROVE  NewestAccounted'
  BY <1>1, AdmitAccounts
     DEF Block, Turn, stateVars, history, NewestAccounted, InQueue, Held
<1>2. ASSUME NEW w \in Writers, NEW k \in Keys, Enqueue(w, k)
      PROVE  NewestAccounted'
  BY <1>1, <1>2 DEF Enqueue
<1>3. ASSUME NEW w \in Writers, Resume(w)
      PROVE  NewestAccounted'
  <2>1. req[w] \in Keys
    BY <1>3 DEF Resume, TypeOK
  <2> QED BY <1>1, <1>3, <2>1 DEF Resume
<1>4. CASE Stop \/ SpuriousWakeup \/ UNCHANGED vars
  BY <1>4 DEF Stop, SpuriousWakeup, vars, stateVars, history,
              NewestAccounted, InQueue, Held
<1>5. CASE DrainerStep
  BY <1>5, AccountedDrainer
<1> QED BY <1>2, <1>3, <1>4, <1>5 DEF Next

\* The newest write to a key is never lost without a trace, through
\* coalescing, retries, lost answers and stop().
THEOREM NewestNotLost == Spec => []NewestAccounted
<1>1. Init => NewestAccounted
  BY DEF Init, NewestAccounted
<1> QED BY <1>1, AccountedStep, TypeInit, TypeStep, PTL DEF Spec

-----------------------------------------------------------------------------
(* Retry counts.                                                           *)

\* The PUTs made for a value never outrun the retry count of its entry, which
\* may have inherited retries of a replaced value.  A queued entry has used
\* retry_max at most; the one in hand may be past it on its way to demotion.
CountsInOrder ==
  /\ \A e \in InQueue : e.tries <= e.retry /\ e.retry <= RetryMax
  /\ item # NoItem =>
       /\ item.tries <= item.retry
       /\ item.retry <= RetryMax + 1
       /\ dpc # "demote" => item.retry <= RetryMax
       /\ dpc = "sleep" => item.retry > 0
  /\ \A e \in deadLetter : e.tries <= RetryMax + 1

\* Below 255 the u8 does not wrap.
LEMMA NoWrap ==
  ASSUME RetryMax < 255, NEW n \in 0..255, n <= RetryMax
  PROVE  (n + 1) % 256 = n + 1
OBVIOUS

\* A u8 is not negative.
LEMMA U8Positive == \A n \in 0..255 : 0 <= n
OBVIOUS

LEMMA CountsAdmit ==
  ASSUME TypeOK, CountsInOrder, NEW w \in Writers, NEW k \in Keys, Admit(w, k)
  PROVE  CountsInOrder'
<1> DEFINE e == [key |-> k, val |-> accepted + 1, retry |-> 0, tries |-> 0]
<1>1. e \in Entry /\ queue \in Seq(Entry) /\ queue' = Coalesce(queue, e)
  <2>1. accepted + 1 \in Value
    BY DEF Admit, TypeOK, Value
  <2> QED BY <2>1 DEF Admit, TypeOK, Entry
<1>2. item' = item /\ dpc' = dpc /\ deadLetter' = deadLetter
  BY DEF Admit
<1>3. \A f \in InQueue' : f.tries <= f.retry /\ f.retry <= RetryMax
  <2>1. e.tries = 0 /\ e.retry = 0
    OBVIOUS
  <2> HIDE DEF e
  <2>2. CASE Appended(queue, e, queue')
    <3>1. InQueue' \subseteq InQueue \cup {e}
      BY <1>1, <2>2, LenProperties DEF InQueue, Appended
    <3> QED BY <2>1, <3>1 DEF CountsInOrder
  <2>3. ASSUME NEW s \in 1..Len(queue), Replaced(queue, e, queue', s)
        PROVE  \A f \in InQueue' : f.tries <= f.retry /\ f.retry <= RetryMax
    <3>1. queue[s] \in InQueue /\ queue[s] \in Entry
      BY <1>1 DEF InQueue
    <3>2. queue'[s].tries = 0 /\ queue'[s].retry = queue[s].retry
      BY <2>3 DEF Replaced
    <3>3. queue'[s].tries <= queue'[s].retry /\ queue'[s].retry <= RetryMax
      <4>1. queue[s].retry \in 0..255
        BY <3>1, EntryFields
      <4>2. queue[s].retry <= RetryMax
        BY <3>1 DEF CountsInOrder
      <4>3. 0 <= queue[s].retry
        BY <4>1, U8Positive, Zenon
      <4> QED BY <3>2, <4>2, <4>3, Zenon
    <3>4. InQueue' \subseteq InQueue \cup {queue'[s]}
      BY <1>1, <2>3 DEF InQueue, Replaced
    <3> QED BY <3>3, <3>4 DEF CountsInOrder
  <2> QED BY <1>1, <2>2, <2>3, CoalesceCases
<1> QED BY <1>2, <1>3 DEF CountsInOrder

LEMMA CountsDrainer ==
  ASSUME RetryMax < 255, TypeOK, CountsInOrder, DrainerStep
  PROVE  CountsInOrder'
<1>0. queue \in Seq(Entry)
  BY DEF TypeOK
<1>1. CASE DrainerWait \/ DrainerExit \/ DrainerNotifyAll \/ RecordSync
  BY <1>1 DEF DrainerWait, DrainerExit, DrainerNotifyAll, RecordSync,
              stateVars, CountsInOrder, InQueue, TypeOK
<1>2. CASE DrainerPop
  <2>1. /\ queue' = Tail(queue) /\ item' = queue[1]
        /\ \A i \in 1..Len(queue') : queue'[i] = queue[i + 1]
        /\ Len(queue') = Len(queue) - 1 /\ queue # <<>>
    BY <1>0, <1>2, TailAt DEF DrainerPop
  <2>2. queue[1] \in InQueue /\ queue[1] \in Entry
    BY <1>0, <2>1, PopType, LenProperties, TailAt DEF InQueue
  <2>3. InQueue' \subseteq InQueue
    BY <1>0, <2>1, LenProperties DEF InQueue
  <2>4. item'.tries <= item'.retry /\ item'.retry <= RetryMax
    BY <2>1, <2>2 DEF CountsInOrder
  <2>5. item'.retry <= RetryMax + 1
    <3>1. item'.retry \in 0..255
      BY <2>1, <2>2, EntryFields
    <3> QED BY <2>4, <3>1
  <2> QED BY <1>2, <2>3, <2>4, <2>5 DEF DrainerPop, CountsInOrder
<1>3. CASE PutOk
  BY <1>3 DEF PutOk, stateVars, CountsInOrder, InQueue
<1>4. CASE PutErr
  <2> DEFINE r == (item.retry + 1) % 256
  <2>1. item \in Entry /\ dpc = "put" /\ item # NoItem
    BY <1>4 DEF PutErr, TypeOK
  <2>2. item.retry \in 0..255 /\ item.tries \in Nat /\ item.retry <= RetryMax
    BY <2>1, EntryFields DEF CountsInOrder
  <2>3. r = item.retry + 1
    BY <2>2, NoWrap
  <2>4. /\ item' = [item EXCEPT !.retry = r, !.tries = item.tries + 1]
        /\ dpc' = IF r > RetryMax THEN "demote" ELSE "sleep"
        /\ InQueue' = InQueue /\ deadLetter' = deadLetter
    BY <1>4 DEF PutErr, stateVars, InQueue
  <2> HIDE DEF r
  <2>5. item'.retry = r /\ item'.tries = item.tries + 1
    BY <2>1, <2>4 DEF Entry
  <2>6. item.tries <= item.retry
    BY <2>1 DEF CountsInOrder
  <2>7. /\ item'.tries <= item'.retry
        /\ item'.retry <= RetryMax + 1
        /\ dpc' # "demote" => item'.retry <= RetryMax
        /\ dpc' = "sleep" => item'.retry > 0
    <3>1. dpc' = IF r > RetryMax THEN "demote" ELSE "sleep"
      BY <2>4
    <3> QED BY <2>2, <2>3, <2>5, <2>6, <3>1
  <2> QED BY <2>4, <2>7 DEF CountsInOrder
<1>5. CASE Demote
  <2>1. item \in Entry /\ dpc = "demote" /\ item # NoItem
    BY <1>5 DEF Demote, TypeOK
  <2> DEFINE d == [item EXCEPT !.retry = item.retry - 1]
  <2>2. d.tries = item.tries
    BY <2>1 DEF Entry
  <2>3. item.tries <= RetryMax + 1
    BY <2>1, EntryFields DEF CountsInOrder
  <2>4. deadLetter' = deadLetter \cup {d} /\ InQueue' = InQueue /\ item' = NoItem
    BY <1>5 DEF Demote, InQueue
  <2> HIDE DEF d
  <2> QED BY <2>2, <2>3, <2>4 DEF CountsInOrder
<1>6. CASE Requeue
  <2>1. item \in Entry /\ dpc = "sleep" /\ item # NoItem
    BY <1>6 DEF Requeue, TypeOK
  <2>2. InQueue' \subseteq InQueue \cup {item}
    <3>1. /\ queue' = PushFront(queue, item)
          /\ Len(queue') = Len(queue) + 1
          /\ queue'[1] = item
          /\ \A i \in 2..(Len(queue) + 1) : queue'[i] = queue[i - 1]
      BY <1>0, <1>6, <2>1, PushFrontAt DEF Requeue
    <3> QED BY <1>0, <3>1, LenProperties DEF InQueue
  <2>3. item' = NoItem /\ deadLetter' = deadLetter
    BY <1>6 DEF Requeue
  <2> QED BY <2>1, <2>2, <2>3 DEF CountsInOrder
<1> QED BY <1>1, <1>2, <1>3, <1>4, <1>5, <1>6 DEF DrainerStep

LEMMA CountsStep ==
  ASSUME RetryMax < 255
  PROVE  TypeOK /\ CountsInOrder /\ [Next]_vars => CountsInOrder'
<1> SUFFICES ASSUME TypeOK, CountsInOrder, [Next]_vars PROVE CountsInOrder'
  OBVIOUS
<1>1. ASSUME NEW w \in Writers, NEW k \in Keys,
             Admit(w, k) \/ Block(w, k) \/ Turn(w)
      PROVE  CountsInOrder'
  BY <1>1, CountsAdmit DEF Block, Turn, stateVars, CountsInOrder, InQueue
<1>2. ASSUME NEW w \in Writers, NEW k \in Keys, Enqueue(w, k)
      PROVE  CountsInOrder'
  BY <1>1, <1>2 DEF Enqueue
<1>3. ASSUME NEW w \in Writers, Resume(w)
      PROVE  CountsInOrder'
  <2>1. req[w] \in Keys
    BY <1>3 DEF Resume, TypeOK
  <2> QED BY <1>1, <1>3, <2>1 DEF Resume
<1>4. CASE Stop \/ SpuriousWakeup \/ UNCHANGED vars
  BY <1>4 DEF Stop, SpuriousWakeup, vars, stateVars, CountsInOrder, InQueue
<1>5. CASE DrainerStep
  BY <1>5, CountsDrainer
<1> QED BY <1>2, <1>3, <1>4, <1>5 DEF Next

LEMMA CountsInit == Init => CountsInOrder
BY DEF Init, CountsInOrder, InQueue

\* retry_max bounds the PUTs of every value, whatever is coalesced into its
\* entry, provided retry_max is not the largest u8: at 255 the counter wraps
\* before it can exceed the limit.
THEOREM RetriesBounded ==
  ASSUME RetryMax < 255
  PROVE  Spec => []RetryBudget
<1>1. TypeOK /\ CountsInOrder => RetryBudget
  <2> SUFFICES ASSUME TypeOK, CountsInOrder,
                      NEW e \in InQueue \cup Held \cup deadLetter
               PROVE  e.tries <= RetryMax + 1
    BY DEF RetryBudget
  <2>1. CASE e \in InQueue
    <3>1. e \in Entry
      BY <2>1 DEF InQueue, TypeOK
    <3> QED BY <2>1, <3>1, EntryFields DEF CountsInOrder
  <2>2. CASE e \in Held
    <3>1. e = item /\ item # NoItem /\ item \in Entry
      BY <2>2 DEF Held, TypeOK
    <3> QED BY <3>1, EntryFields DEF CountsInOrder
  <2>3. CASE e \in deadLetter
    BY <2>3 DEF CountsInOrder
  <2> QED BY <2>1, <2>2, <2>3
<1> QED BY <1>1, CountsInit, CountsStep, TypeInit, TypeStep, PTL DEF Spec

-----------------------------------------------------------------------------
(* One slot per key.                                                       *)

\* No two entries of q have the same key.
Distinct(q) == \A i, j \in 1..Len(q) : i < j => q[i].key # q[j].key

\* While the drainer has a write in hand there is no double entry at all, so
\* that putting the write back makes one double entry at most.
SlotsInOrder == OneSlotPerKey /\ (item # NoItem => Distinct(queue))

\* Coalescing leaves keys and retry counts where they are.
LEMMA SlotsAdmit ==
  ASSUME TypeOK, SlotsInOrder, NEW w \in Writers, NEW k \in Keys, Admit(w, k)
  PROVE  SlotsInOrder'
<1> DEFINE e == [key |-> k, val |-> accepted + 1, retry |-> 0, tries |-> 0]
<1>1. e \in Entry /\ queue \in Seq(Entry) /\ queue' = Coalesce(queue, e)
  <2>1. accepted + 1 \in Value
    BY DEF Admit, TypeOK, Value
  <2> QED BY <2>1 DEF Admit, TypeOK, Entry
<1>2. item' = item
  BY DEF Admit
<1> HIDE DEF e
<1>3. ASSUME NEW i \in 1..Len(queue'), NEW j \in 1..Len(queue'), i < j,
             queue'[i].key = queue'[j].key
      PROVE  /\ i \in 1..Len(queue) /\ j \in 1..Len(queue)
             /\ queue[i].key = queue[j].key
             /\ queue'[i].retry = queue[i].retry
  <2>1. CASE Appended(queue, e, queue')
    <3>1. j \in 1..Len(queue)
      <4>1. CASE j = Len(queue) + 1
        <5>1. i \in 1..Len(queue)
          BY <1>1, <1>3, <4>1, LenProperties
        <5> QED BY <1>3, <2>1, <4>1, <5>1 DEF Appended
      <4> QED BY <1>1, <2>1, <4>1, LenProperties DEF Appended
    <3>2. i \in 1..Len(queue)
      BY <1>1, <1>3, <3>1, LenProperties
    <3> QED BY <1>3, <2>1, <3>1, <3>2 DEF Appended
  <2>2. ASSUME NEW s \in 1..Len(queue), Replaced(queue, e, queue', s)
        PROVE  \A n \in 1..Len(queue') :
                 /\ n \in 1..Len(queue)
                 /\ queue'[n].key = queue[n].key
                 /\ queue'[n].retry = queue[n].retry
    BY <2>2 DEF Replaced
  <2> QED BY <1>1, <1>3, <2>1, <2>2, CoalesceCases
<1>4. OneSlotPerKey'
  BY <1>3 DEF SlotsInOrder, OneSlotPerKey
<1>5. item' # NoItem => Distinct(queue)'
  BY <1>2, <1>3 DEF SlotsInOrder, Distinct
<1> QED BY <1>4, <1>5 DEF SlotsInOrder

LEMMA SlotsDrainer ==
  ASSUME TypeOK, CountsInOrder, SlotsInOrder, DrainerStep
  PROVE  SlotsInOrder'
<1>0. queue \in Seq(Entry)
  BY DEF TypeOK
<1>1. CASE queue' = queue /\ (item' # NoItem => item # NoItem)
  BY <1>1 DEF SlotsInOrder, OneSlotPerKey, Distinct
<1>2. CASE DrainerPop
  <2>1. /\ Len(queue') = Len(queue) - 1
        /\ \A i \in 1..Len(queue') : queue'[i] = queue[i + 1]
    BY <1>0, <1>2, TailAt DEF DrainerPop
  <2>2. Distinct(queue')
    <3> SUFFICES ASSUME NEW i \in 1..Len(queue'), NEW j \in 1..Len(queue'),
                        i < j, queue'[i].key = queue'[j].key
                 PROVE  FALSE
      BY DEF Distinct
    <3>1. /\ i + 1 \in 1..Len(queue) /\ j + 1 \in 1..Len(queue)
          /\ i + 1 < j + 1 /\ i + 1 # 1
      BY <1>0, <2>1, LenProperties
    <3>2. queue[i + 1].key = queue[j + 1].key
      BY <2>1
    <3> QED BY <3>1, <3>2 DEF SlotsInOrder, OneSlotPerKey
  <2> QED BY <2>2 DEF SlotsInOrder, OneSlotPerKey, Distinct
<1>3. CASE PutErr
  <2>1. queue' = queue /\ item # NoItem
    BY <1>3 DEF PutErr, stateVars, TypeOK
  <2> QED BY <1>1, <2>1
<1>4. CASE Requeue
  <2>1. item \in Entry /\ item # NoItem /\ dpc = "sleep"
    BY <1>4 DEF Requeue, TypeOK
  <2>2. /\ Len(queue') = Len(queue) + 1
        /\ queue'[1] = item
        /\ \A i \in 2..(Len(queue) + 1) : queue'[i] = queue[i - 1]
    BY <1>0, <1>4, <2>1, PushFrontAt DEF Requeue
  <2>3. OneSlotPerKey'
    <3> SUFFICES ASSUME NEW i \in 1..Len(queue'), NEW j \in 1..Len(queue'),
                        i < j, queue'[i].key = queue'[j].key
                 PROVE  i = 1 /\ queue'[1].retry > 0
      BY DEF OneSlotPerKey
    <3>1. item.retry > 0
      BY <2>1 DEF CountsInOrder
    <3>2. CASE i # 1
      <4>1. /\ i \in 2..(Len(queue) + 1) /\ j \in 2..(Len(queue) + 1)
            /\ i - 1 \in 1..Len(queue) /\ j - 1 \in 1..Len(queue)
            /\ i - 1 < j - 1
        BY <1>0, <2>2, <3>2, LenProperties
      <4>2. queue[i - 1].key = queue[j - 1].key
        BY <2>2, <4>1
      <4> QED BY <2>1, <4>1, <4>2 DEF SlotsInOrder, Distinct
    <3> QED BY <2>2, <3>1, <3>2
  <2>4. item' = NoItem
    BY <1>4 DEF Requeue
  <2> QED BY <2>3, <2>4 DEF SlotsInOrder
<1>5. \/ DrainerWait \/ DrainerExit \/ DrainerNotifyAll \/ PutOk
      \/ RecordSync \/ Demote
      => queue' = queue /\ (item' # NoItem => item # NoItem)
  BY DEF DrainerWait, DrainerExit, DrainerNotifyAll, PutOk, RecordSync, Demote,
         stateVars
<1> QED BY <1>1, <1>2, <1>3, <1>4, <1>5 DEF DrainerStep

LEMMA SlotsStep ==
  TypeOK /\ CountsInOrder /\ SlotsInOrder /\ [Next]_vars => SlotsInOrder'
<1> SUFFICES ASSUME TypeOK, CountsInOrder, SlotsInOrder, [Next]_vars
             PROVE  SlotsInOrder'
  OBVIOUS
<1>1. ASSUME NEW w \in Writers, NEW k \in Keys,
             Admit(w, k) \/ Block(w, k) \/ Turn(w)
      PROVE  SlotsInOrder'
  BY <1>1, SlotsAdmit
     DEF Block, Turn, stateVars, SlotsInOrder, OneSlotPerKey, Distinct
<1>2. ASSUME NEW w \in Writers, NEW k \in Keys, Enqueue(w, k)
      PROVE  SlotsInOrder'
  BY <1>1, <1>2 DEF Enqueue
<1>3. ASSUME NEW w \in Writers, Resume(w)
      PROVE  SlotsInOrder'
  <2>1. req[w] \in Keys
    BY <1>3 DEF Resume, TypeOK
  <2> QED BY <1>1, <1>3, <2>1 DEF Resume
<1>4. CASE Stop \/ SpuriousWakeup \/ UNCHANGED vars
  BY <1>4 DEF Stop, SpuriousWakeup, vars, stateVars, SlotsInOrder,
              OneSlotPerKey, Distinct
<1>5. CASE DrainerStep
  BY <1>5, SlotsDrainer
<1> QED BY <1>2, <1>3, <1>4, <1>5 DEF Next

\* A key has one entry in the queue; a second one exists only behind an older
\* write that waits at the head for its retry.
THEOREM OneSlotEach ==
  ASSUME RetryMax < 255
  PROVE  Spec => []OneSlotPerKey
<1>1. Init => SlotsInOrder
  BY DEF Init, SlotsInOrder, OneSlotPerKey
<1>2. SlotsInOrder => OneSlotPerKey
  BY DEF SlotsInOrder
<1> QED BY <1>1, <1>2, SlotsStep, CountsInit, CountsStep, TypeInit, TypeStep,
           PTL DEF Spec

(***************************************************************************)
(* The safety part of RefinesEagerWrites: every behaviour of Replicator is *)
(* one of EagerWrites, fairness aside.                                     *)
(***************************************************************************)
\* What EagerWrites sees of an entry.
Pair(e) == [key |-> e.key, val |-> e.val]

\* What EagerWrites calls pending.
Pending == Writes(queue) \cup {Pair(e) : e \in Held}

-----------------------------------------------------------------------------
(* Each accepted write is in one place.                                    *)

\* Every entry has bytes of its own, older than the next ones to come.
\* Otherwise coalescing or settling one entry could take away the pair that
\* stands for another one.
ValuesInOrder ==
  /\ \A i \in 1..Len(queue) : queue[i].val <= accepted
  /\ \A i, j \in 1..Len(queue) : i # j => queue[i].val # queue[j].val
  /\ item # NoItem =>
       /\ item.val <= accepted
       /\ \A i \in 1..Len(queue) : queue[i].val # item.val

LEMMA ValuesAdmit ==
  ASSUME TypeOK, ValuesInOrder, NEW w \in Writers, NEW k \in Keys, Admit(w, k)
  PROVE  ValuesInOrder'
<1> DEFINE e == [key |-> k, val |-> accepted + 1, retry |-> 0, tries |-> 0]
<1>1. e \in Entry /\ queue \in Seq(Entry) /\ queue' = Coalesce(queue, e)
  <2>1. accepted + 1 \in Value
    BY DEF Admit, TypeOK, Value
  <2> QED BY <2>1 DEF Admit, TypeOK, Entry
<1>2. /\ item' = item /\ accepted' = accepted + 1 /\ accepted \in Nat
      /\ e.val = accepted + 1
  BY DEF Admit, TypeOK
<1> HIDE DEF e
<1>3. \A i \in 1..Len(queue) : queue[i].val \in Nat /\ queue[i].val <= accepted
  <2>1. \A i \in 1..Len(queue) : queue[i] \in Entry
    BY <1>1
  <2> QED BY <2>1, EntryFields DEF ValuesInOrder, Value
<1>4. item # NoItem => item.val \in Nat /\ item.val <= accepted
  BY EntryFields DEF TypeOK, ValuesInOrder, Value
<1>5. CASE Appended(queue, e, queue')
  <2>1. \A i \in 1..Len(queue') :
          \/ i \in 1..Len(queue) /\ queue'[i] = queue[i]
          \/ i = Len(queue) + 1 /\ queue'[i] = e
    BY <1>1, <1>5, LenProperties DEF Appended
  <2>2. \A i \in 1..Len(queue') : queue'[i].val <= accepted'
    BY <1>2, <1>3, <2>1
  <2>3. \A i, j \in 1..Len(queue') : i # j => queue'[i].val # queue'[j].val
    BY <1>2, <1>3, <2>1 DEF ValuesInOrder
  <2>4. item' # NoItem =>
          /\ item'.val <= accepted'
          /\ \A i \in 1..Len(queue') : queue'[i].val # item'.val
    BY <1>2, <1>4, <2>1 DEF ValuesInOrder
  <2> QED BY <2>2, <2>3, <2>4 DEF ValuesInOrder
<1>6. CASE \E s \in 1..Len(queue) : Replaced(queue, e, queue', s)
  <2>1. PICK s \in 1..Len(queue) : Replaced(queue, e, queue', s)
    BY <1>6
  <2>2. /\ Len(queue') = Len(queue)
        /\ queue'[s].val = e.val
        /\ \A i \in 1..Len(queue) : i # s => queue'[i] = queue[i]
    BY <2>1 DEF Replaced
  <2>3. \A i \in 1..Len(queue') : queue'[i].val <= accepted'
    BY <1>2, <1>3, <2>2
  <2>4. \A i, j \in 1..Len(queue') : i # j => queue'[i].val # queue'[j].val
    BY <1>2, <1>3, <2>2 DEF ValuesInOrder
  <2>5. item' # NoItem =>
          /\ item'.val <= accepted'
          /\ \A i \in 1..Len(queue') : queue'[i].val # item'.val
    BY <1>2, <1>4, <2>2 DEF ValuesInOrder
  <2> QED BY <2>3, <2>4, <2>5 DEF ValuesInOrder
<1> QED BY <1>1, <1>5, <1>6, CoalesceCases

\* A failed PUT changes the counts of the entry only.
LEMMA PutErrKeeps ==
  ASSUME TypeOK, PutErr
  PROVE  /\ item \in Entry /\ item' \in Entry
         /\ item'.key = item.key /\ item'.val = item.val
<1>1. item \in Entry
  BY DEF PutErr, TypeOK
<1> DEFINE r == (item.retry + 1) % 256
<1>2. item' = [item EXCEPT !.retry = r, !.tries = item.tries + 1]
  BY DEF PutErr
<1>3. r \in 0..255 /\ item.tries + 1 \in Nat
  BY <1>1, EntryFields, OneMore
<1> HIDE DEF r
<1>4. item' \in Entry
  BY <1>1, <1>2, <1>3, EntryUpdate
<1> QED BY <1>1, <1>2, <1>4 DEF Entry

LEMMA ValuesDrainer ==
  ASSUME TypeOK, ValuesInOrder, DrainerStep
  PROVE  ValuesInOrder'
<1>0. queue \in Seq(Entry)
  BY DEF TypeOK
<1>1. CASE \/ DrainerWait \/ DrainerExit \/ DrainerNotifyAll \/ RecordSync
           \/ PutOk \/ Demote
  BY <1>1 DEF DrainerWait, DrainerExit, DrainerNotifyAll, RecordSync, PutOk,
              Demote, stateVars, history, ValuesInOrder
<1>2. CASE PutErr
  <2>1. queue' = queue /\ accepted' = accepted
    BY <1>2 DEF PutErr, stateVars
  <2>2. item # NoItem /\ item'.val = item.val
    BY <1>2, PutErrKeeps
  <2> QED BY <2>1, <2>2 DEF ValuesInOrder
<1>3. CASE DrainerPop
  <2>1. /\ item' = queue[1] /\ accepted' = accepted
        /\ Len(queue') = Len(queue) - 1 /\ queue # <<>>
        /\ \A i \in 1..Len(queue') : queue'[i] = queue[i + 1]
    BY <1>0, <1>3, TailAt DEF DrainerPop, history
  <2>2. /\ 1 \in 1..Len(queue)
        /\ \A i \in 1..Len(queue') : i + 1 \in 1..Len(queue) /\ i + 1 # 1
    BY <1>0, <2>1, LenProperties
  <2>3. \A i, j \in 1..Len(queue') : i # j => queue'[i].val # queue'[j].val
    <3> SUFFICES ASSUME NEW i \in 1..Len(queue'), NEW j \in 1..Len(queue'), i # j
                 PROVE  queue'[i].val # queue'[j].val
      OBVIOUS
    <3>1. i + 1 # j + 1
      OBVIOUS
    <3> QED BY <2>1, <2>2, <3>1 DEF ValuesInOrder
  <2>4. \A i \in 1..Len(queue') :
          queue'[i].val <= accepted' /\ queue'[i].val # item'.val
    BY <2>1, <2>2 DEF ValuesInOrder
  <2>5. item'.val <= accepted'
    BY <2>1, <2>2 DEF ValuesInOrder
  <2> QED BY <2>3, <2>4, <2>5 DEF ValuesInOrder
<1>4. CASE Requeue
  <2>1. /\ item \in Entry /\ item # NoItem /\ item' = NoItem
        /\ accepted' = accepted
    BY <1>4 DEF Requeue, TypeOK, history
  <2>2. /\ Len(queue') = Len(queue) + 1
        /\ queue'[1] = item
        /\ \A i \in 2..(Len(queue) + 1) : queue'[i] = queue[i - 1]
    BY <1>0, <1>4, <2>1, PushFrontAt DEF Requeue
  <2>3. \A i \in 1..Len(queue') :
          \/ i = 1 /\ queue'[i] = item
          \/ i - 1 \in 1..Len(queue) /\ queue'[i] = queue[i - 1]
    BY <1>0, <2>2, LenProperties
  <2>4. \A i, j \in 1..Len(queue') : i # j => queue'[i].val # queue'[j].val
    <3> SUFFICES ASSUME NEW i \in 1..Len(queue'), NEW j \in 1..Len(queue'), i # j
                 PROVE  queue'[i].val # queue'[j].val
      OBVIOUS
    <3>1. i - 1 # j - 1
      OBVIOUS
    <3> QED BY <2>1, <2>3, <3>1 DEF ValuesInOrder
  <2>5. \A i \in 1..Len(queue') : queue'[i].val <= accepted'
    BY <2>1, <2>3 DEF ValuesInOrder
  <2> QED BY <2>1, <2>4, <2>5 DEF ValuesInOrder
<1> QED BY <1>1, <1>2, <1>3, <1>4 DEF DrainerStep

LEMMA ValuesStep == TypeOK /\ ValuesInOrder /\ [Next]_vars => ValuesInOrder'
<1> SUFFICES ASSUME TypeOK, ValuesInOrder, [Next]_vars PROVE ValuesInOrder'
  OBVIOUS
<1>1. ASSUME NEW w \in Writers, NEW k \in Keys,
             Admit(w, k) \/ Block(w, k) \/ Turn(w)
      PROVE  ValuesInOrder'
  BY <1>1, ValuesAdmit DEF Block, Turn, stateVars, history, ValuesInOrder
<1>2. ASSUME NEW w \in Writers, NEW k \in Keys, Enqueue(w, k)
      PROVE  ValuesInOrder'
  BY <1>1, <1>2 DEF Enqueue
<1>3. ASSUME NEW w \in Writers, Resume(w)
      PROVE  ValuesInOrder'
  <2>1. req[w] \in Keys
    BY <1>3 DEF Resume, TypeOK
  <2> QED BY <1>1, <1>3, <2>1 DEF Resume
<1>4. CASE Stop \/ SpuriousWakeup \/ UNCHANGED vars
  BY <1>4 DEF Stop, SpuriousWakeup, vars, stateVars, history, ValuesInOrder
<1>5. CASE DrainerStep
  BY <1>5, ValuesDrainer
<1> QED BY <1>2, <1>3, <1>4, <1>5 DEF Next

LEMMA ValuesInit == Init => ValuesInOrder
BY DEF Init, ValuesInOrder

-----------------------------------------------------------------------------
(* The steps.                                                              *)

LEMMA PairIsWrite == \A e \in Entry : Pair(e) \in Abstract!Write
BY DEF Entry, Value, Pair, Abstract!Write

LEMMA PairsDiffer == \A d, e : d.val # e.val => Pair(d) # Pair(e)
<1> TAKE d, e
<1>1. Pair(d).val = d.val /\ Pair(e).val = e.val
  BY DEF Pair
<1> QED BY <1>1

LEMMA WritesArePairs == \A q : Writes(q) = {Pair(q[i]) : i \in 1..Len(q)}
BY DEF Writes, Pair

\* An entry at the back adds its pair.
LEMMA AppendedWrites ==
  ASSUME NEW q, NEW e, NEW n, Len(q) \in Nat, Appended(q, e, n)
  PROVE  Writes(n) = Writes(q) \cup {Pair(e)}
<1>1. \A i : i \in 1..Len(n) <=> i \in 1..Len(q) \/ i = Len(q) + 1
  BY DEF Appended
<1>2. n[Len(q) + 1] = e /\ \A i \in 1..Len(q) : n[i] = q[i]
  BY DEF Appended
<1> QED BY <1>1, <1>2, WritesArePairs, Zenon

\* New bytes in an entry put one pair in the place of another.
LEMMA ReplacedWrites ==
  ASSUME NEW q, NEW e, NEW n, NEW s \in 1..Len(q), Replaced(q, e, n, s),
         \A i, j \in 1..Len(q) : i # j => q[i].val # q[j].val
  PROVE  Writes(n) = (Writes(q) \ {Pair(q[s])}) \cup {Pair(e)}
<1>1. Len(n) = Len(q) /\ \A i \in 1..Len(q) : i # s => n[i] = q[i]
  BY DEF Replaced
<1>2. Pair(n[s]) = Pair(e)
  <2>1. n[s].key = e.key /\ n[s].val = e.val
    BY DEF Replaced
  <2> QED BY <2>1 DEF Pair
<1>3. \A i \in 1..Len(q) : i # s => Pair(q[i]) # Pair(q[s])
  BY PairsDiffer
<1>4. ASSUME NEW x PROVE x \in Writes(n) <=> x \in (Writes(q) \ {Pair(q[s])}) \cup {Pair(e)}
  <2>1. ASSUME x \in Writes(n) PROVE x = Pair(e) \/ x \in Writes(q) \ {Pair(q[s])}
    <3>1. PICK i \in 1..Len(q) : x = Pair(n[i])
      BY <1>1, <2>1, WritesArePairs
    <3> QED BY <1>1, <1>2, <1>3, <3>1, WritesArePairs
  <2>2. Pair(e) \in Writes(n)
    BY <1>1, <1>2, WritesArePairs
  <2>3. ASSUME x \in Writes(q), x # Pair(q[s]) PROVE x \in Writes(n)
    <3>1. PICK i \in 1..Len(q) : x = Pair(q[i])
      BY <2>3, WritesArePairs
    <3>2. i # s
      BY <2>3, <3>1
    <3> QED BY <1>1, <3>1, <3>2, WritesArePairs
  <2> QED BY <2>1, <2>2, <2>3
<1> QED BY <1>4

\* An admitted write is accepted; an entry it coalesces with gives way.
LEMMA AdmitAccepts ==
  ASSUME TypeOK, ValuesInOrder, NEW w \in Writers, NEW k \in Keys, Admit(w, k)
  PROVE  Abstract!Next
<1> DEFINE e == [key |-> k, val |-> accepted + 1, retry |-> 0, tries |-> 0]
<1>1. e \in Entry /\ queue \in Seq(Entry) /\ queue' = Coalesce(queue, e)
  <2>1. accepted + 1 \in Value
    BY DEF Admit, TypeOK, Value
  <2> QED BY <2>1 DEF Admit, TypeOK, Entry
<1>2. /\ Held' = Held /\ deadLetter' = deadLetter /\ bucket' = bucket
      /\ stopping' = stopping /\ ~stopping
  BY DEF Admit, Held
<1> HIDE DEF e
<1>3. \/ Pending' = Pending \cup {Pair(e)}
      \/ \E old \in Pending :
           /\ old.key = Pair(e).key
           /\ Pending' = (Pending \ {old}) \cup {Pair(e)}
  <2>1. CASE Appended(queue, e, queue')
    <3>1. Writes(queue') = Writes(queue) \cup {Pair(e)}
      BY <1>1, <2>1, AppendedWrites
    <3>2. Writes(queue)' = Writes(queue')
      BY DEF Writes
    <3> QED BY <1>2, <3>1, <3>2 DEF Pending
  <2>2. CASE \E s \in 1..Len(queue) : Replaced(queue, e, queue', s)
    <3>1. PICK s \in 1..Len(queue) : Replaced(queue, e, queue', s)
      BY <2>2
    <3>2. Writes(queue') = (Writes(queue) \ {Pair(queue[s])}) \cup {Pair(e)}
      BY <3>1, ReplacedWrites DEF ValuesInOrder
    <3>3. Pair(queue[s]) \notin {Pair(f) : f \in Held}
      BY PairsDiffer DEF ValuesInOrder, Held
    <3>4. Pair(queue[s]) \in Writes(queue)
      BY WritesArePairs
    <3>5. Pair(queue[s]).key = Pair(e).key
      BY <3>1 DEF Replaced, Pair
    <3>6. Writes(queue)' = Writes(queue')
      BY DEF Writes
    <3>7. Pending' = (Pending \ {Pair(queue[s])}) \cup {Pair(e)}
      BY <1>2, <3>2, <3>3, <3>6 DEF Pending
    <3> QED BY <3>4, <3>5, <3>7 DEF Pending
  <2> QED BY <1>1, <2>1, <2>2, CoalesceCases
<1>4. PICK x \in Abstract!Write : x = Pair(e)
  BY <1>1, PairIsWrite
<1>5. Abstract!Accept(x)
  BY <1>2, <1>3, <1>4 DEF Abstract!Accept, Pending, Pair
<1> QED BY <1>5 DEF Abstract!Next

\* The entry in hand is one of the pending writes.
LEMMA HeldPending ==
  ASSUME TypeOK, item # NoItem
  PROVE  /\ item \in Entry
         /\ Held = {item}
         /\ Pair(item) \in Pending
         /\ \E x \in Abstract!Write : x = Pair(item)
<1>1. item \in Entry /\ Held = {item}
  BY DEF TypeOK, Held
<1> QED BY <1>1, PairIsWrite DEF Pending

\* A PUT delivers the entry in hand; the answer settles it or leaves it.
LEMMA PutDelivers ==
  ASSUME TypeOK, ValuesInOrder, PutOk \/ PutErr
  PROVE  Abstract!Next \/ UNCHANGED Abstract!vars
<1>1. item # NoItem
  BY DEF PutOk, PutErr, TypeOK
<1>2. PICK x \in Abstract!Write : x = Pair(item)
  BY <1>1, HeldPending
<1>3. /\ Held = {item} /\ x \in Pending
      /\ item.key = x.key /\ item.val = x.val
  BY <1>1, <1>2, HeldPending DEF Pair
<1>4. x \notin Writes(queue)
  <2>1. \A i \in 1..Len(queue) : x # Pair(queue[i])
    BY <1>1, <1>2, PairsDiffer DEF ValuesInOrder
  <2> QED BY <2>1, WritesArePairs
<1>5. /\ Writes(queue)' = Writes(queue) /\ deadLetter' = deadLetter
      /\ stopping' = stopping
  BY DEF PutOk, PutErr, stateVars, Writes
<1>6. CASE PutOk
  <2>1. Held' = {} /\ bucket' = [bucket EXCEPT ![item.key] = item.val]
    BY <1>6 DEF PutOk, Store, Held
  <2>2. Pending' = Pending \ {x}
    BY <1>2, <1>3, <1>4, <1>5, <2>1 DEF Pending
  <2>3. Abstract!Deliver(x)
    BY <1>3, <1>5, <2>1, <2>2 DEF Abstract!Deliver, Pending, Pair
  <2> QED BY <2>3 DEF Abstract!Next
<1>7. CASE PutErr
  <2>1. Pending' = Pending
    <3>1. item' \in Entry /\ Pair(item') = Pair(item)
      BY <1>7, PutErrKeeps DEF Pair
    <3>2. Held' = {item'}
      BY <3>1 DEF Held
    <3> QED BY <1>3, <1>5, <3>1, <3>2 DEF Pending
  <2>2. CASE Store
    <3>1. bucket' = [bucket EXCEPT ![item.key] = item.val]
      BY <2>2 DEF Store
    <3>2. Abstract!Deliver(x)
      BY <1>3, <1>5, <2>1, <3>1 DEF Abstract!Deliver, Pending, Pair
    <3> QED BY <3>2 DEF Abstract!Next
  <2>3. CASE bucket' = bucket
    BY <1>5, <2>1, <2>3 DEF Abstract!vars, Pending, Pair
  <2> QED BY <1>7, <2>2, <2>3 DEF PutErr
<1> QED BY <1>6, <1>7

\* Demotion gives the entry in hand up.
LEMMA DemoteGivesUp ==
  ASSUME TypeOK, ValuesInOrder, Demote
  PROVE  Abstract!Next
<1>1. item # NoItem
  BY DEF Demote, TypeOK
<1>2. PICK x \in Abstract!Write : x = Pair(item)
  BY <1>1, HeldPending
<1>3. /\ Held = {item} /\ x \in Pending /\ item \in Entry
  BY <1>1, <1>2, HeldPending
<1>4. x \notin Writes(queue)
  <2>1. \A i \in 1..Len(queue) : x # Pair(queue[i])
    BY <1>1, <1>2, PairsDiffer DEF ValuesInOrder
  <2> QED BY <2>1, WritesArePairs
<1>5. /\ Writes(queue)' = Writes(queue) /\ bucket' = bucket
      /\ stopping' = stopping /\ Held' = {}
  BY DEF Demote, Held, Writes
<1>6. Pending' = Pending \ {x}
  BY <1>2, <1>3, <1>4, <1>5 DEF Pending
<1> DEFINE d == [item EXCEPT !.retry = item.retry - 1]
<1>7. Pair(d) = Pair(item)
  BY <1>3 DEF Pair, Entry
<1>8. deadLetter' = deadLetter \cup {d}
  BY DEF Demote
<1> HIDE DEF d
<1>9. {Pair(e) : e \in deadLetter'} = {Pair(e) : e \in deadLetter} \cup {x}
  BY <1>2, <1>7, <1>8
<1>10. Abstract!GiveUp(x)
  BY <1>3, <1>5, <1>6, <1>9 DEF Abstract!GiveUp, Pending, Pair
<1> QED BY <1>10 DEF Abstract!Next

\* Moving a write between queue and hand is not seen.
LEMMA MovesAreHidden ==
  ASSUME TypeOK, DrainerPop \/ Requeue
  PROVE  UNCHANGED Abstract!vars
<1>0. queue \in Seq(Entry)
  BY DEF TypeOK
<1>1. CASE DrainerPop
  <2>1. /\ queue # <<>> /\ item' = queue[1] /\ queue[1] \in Entry
        /\ Len(queue') = Len(queue) - 1
        /\ \A i \in 1..Len(queue') : queue'[i] = queue[i + 1]
    BY <1>0, <1>1, TailAt, PopType DEF DrainerPop
  <2>2. Held = {} /\ Held' = {queue[1]}
    BY <1>1, <2>1 DEF DrainerPop, TypeOK, Held
  <2>3. \A i \in 1..Len(queue) :
          i # 1 => i - 1 \in 1..Len(queue') /\ queue'[i - 1] = queue[i]
    <3> SUFFICES ASSUME NEW i \in 1..Len(queue), i # 1
                 PROVE  i - 1 \in 1..Len(queue') /\ queue'[i - 1] = queue[i]
      OBVIOUS
    <3>1. i - 1 \in 1..Len(queue') /\ (i - 1) + 1 = i
      BY <1>0, <2>1, LenProperties
    <3> QED BY <2>1, <3>1
  <2>4. 1 \in 1..Len(queue) /\ \A i \in 1..Len(queue') : i + 1 \in 1..Len(queue)
    BY <1>0, <2>1, LenProperties
  <2>5. Writes(queue) = Writes(queue)' \cup {Pair(queue[1])}
    BY <2>1, <2>3, <2>4 DEF Writes, Pair
  <2>6. Pending' = Pending
    BY <2>2, <2>5 DEF Pending
  <2> QED BY <1>1, <2>6 DEF DrainerPop, Abstract!vars, Pending, Pair
<1>2. CASE Requeue
  <2>1. item \in Entry /\ Held = {item} /\ Held' = {}
    BY <1>2 DEF Requeue, TypeOK, Held
  <2>2. /\ Len(queue') = Len(queue) + 1
        /\ queue'[1] = item
        /\ \A i \in 1..Len(queue) : queue'[i + 1] = queue[i]
        /\ \A i \in 2..(Len(queue) + 1) : queue'[i] = queue[i - 1]
    BY <1>0, <1>2, <2>1, PushFrontAt DEF Requeue
  <2>3. /\ 1 \in 1..Len(queue')
        /\ \A i \in 1..Len(queue) : i + 1 \in 1..Len(queue')
    BY <1>0, <2>2, LenProperties
  <2>4. \A i \in 1..Len(queue') :
          i # 1 => i - 1 \in 1..Len(queue) /\ queue'[i] = queue[i - 1]
    <3> SUFFICES ASSUME NEW i \in 1..Len(queue'), i # 1
                 PROVE  i - 1 \in 1..Len(queue) /\ queue'[i] = queue[i - 1]
      OBVIOUS
    <3>1. i - 1 \in 1..Len(queue) /\ i \in 2..(Len(queue) + 1)
      BY <1>0, <2>2, LenProperties
    <3> QED BY <2>2, <3>1
  <2>5. Writes(queue)' = Writes(queue) \cup {Pair(item)}
    BY <2>2, <2>3, <2>4 DEF Writes, Pair
  <2>6. Pending' = Pending
    BY <2>1, <2>5 DEF Pending
  <2> QED BY <1>2, <2>6 DEF Requeue, Abstract!vars, Pending, Pair
<1> QED BY <1>1, <1>2

LEMMA RefinementStep ==
  TypeOK /\ ValuesInOrder /\ [Next]_vars => [Abstract!Next]_(Abstract!vars)
<1> SUFFICES ASSUME TypeOK, ValuesInOrder, [Next]_vars
             PROVE  Abstract!Next \/ UNCHANGED Abstract!vars
  OBVIOUS
<1>1. ASSUME NEW w \in Writers, NEW k \in Keys,
             Admit(w, k) \/ Block(w, k) \/ Turn(w)
      PROVE  Abstract!Next \/ UNCHANGED Abstract!vars
  <2>1. CASE Admit(w, k)
    BY <2>1, AdmitAccepts
  <2>2. CASE Block(w, k) \/ Turn(w)
    BY <2>2 DEF Block, Turn, stateVars, Abstract!vars, Writes, Held
  <2> QED BY <1>1, <2>1, <2>2
<1>2. ASSUME NEW w \in Writers, NEW k \in Keys, Enqueue(w, k)
      PROVE  Abstract!Next \/ UNCHANGED Abstract!vars
  BY <1>1, <1>2 DEF Enqueue
<1>3. ASSUME NEW w \in Writers, Resume(w)
      PROVE  Abstract!Next \/ UNCHANGED Abstract!vars
  <2>1. req[w] \in Keys
    BY <1>3 DEF Resume, TypeOK
  <2> QED BY <1>1, <1>3, <2>1 DEF Resume
<1>4. CASE Stop
  <2>1. Abstract!Close
    BY <1>4 DEF Stop, Abstract!Close, Writes, Held
  <2> QED BY <2>1 DEF Abstract!Next
<1>5. CASE DrainerStep
  <2>1. CASE \/ DrainerWait \/ DrainerExit \/ DrainerNotifyAll \/ RecordSync
    BY <2>1 DEF DrainerWait, DrainerExit, DrainerNotifyAll, RecordSync,
                stateVars, Abstract!vars, Writes, Held
  <2> QED BY <1>5, <2>1, PutDelivers, DemoteGivesUp, MovesAreHidden
          DEF DrainerStep
<1>6. CASE SpuriousWakeup \/ UNCHANGED vars
  BY <1>6 DEF SpuriousWakeup, vars, stateVars, Abstract!vars, Writes, Held
<1> QED BY <1>2, <1>3, <1>4, <1>5, <1>6 DEF Next

LEMMA RefinementInit == Init => Abstract!Init
<1> SUFFICES ASSUME Init PROVE Abstract!Init
  OBVIOUS
<1>1. queue = <<>> /\ Held = {} /\ deadLetter = {} /\ ~stopping
  BY DEF Init, Held
<1>2. Writes(queue) = {}
  BY <1>1 DEF Writes
<1> QED BY <1>1, <1>2 DEF Init, Abstract!Init

\* The replicator keeps the promise of EagerWrites, step for step: an
\* accepted write is pending until it lands, gives way or is given up.
THEOREM ImplementsEagerWrites ==
  Spec => Abstract!Init /\ [][Abstract!Next]_(Abstract!vars)
BY RefinementInit, RefinementStep, ValuesInit, ValuesStep, TypeInit, TypeStep,
   PTL DEF Spec
=============================================================================
