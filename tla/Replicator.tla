----------------------------- MODULE Replicator -----------------------------
(***************************************************************************)
(* Eager replication: agent/src/core/cloud/replicator.rs.                  *)
(*                                                                         *)
(* Writer threads call enqueue(); one drainer thread pops the queue and    *)
(* PUTs each write to the bucket.  One mutex guards the state and ONE      *)
(* condition variable serves both sides: writers wait on it for room, the  *)
(* drainer waits on it for work.  Each critical section is one action.     *)
(* The PUT and the backoff sleep run without the lock and are steps of     *)
(* their own, so enqueue() interleaves with them.                          *)
(*                                                                         *)
(* A value is the number of its acceptance: the n-th accepted write        *)
(* carries value n, so a larger value is a newer one.                      *)
(***************************************************************************)
EXTENDS Naturals, Sequences, FiniteSets, WriteQueue

CONSTANTS
  Keys,       \* object keys
  Writers,    \* threads that call enqueue()
  Drainer,    \* the cloud-drainer thread
  QueueMax,   \* ReplicatorConfig.queue_max
  RetryMax,   \* ReplicatorConfig.retry_max, a u8
  MaxWrites,  \* bound: number of writes ever accepted
  NoItem      \* "the drainer holds no write"

ASSUME DrainerAssumption == Drainer \notin Writers
ASSUME QueueMaxAssumption == QueueMax \in Nat \ {0}
ASSUME RetryMaxAssumption == RetryMax \in 0..255
ASSUME MaxWritesAssumption == MaxWrites \in Nat

VARIABLES
  queue,       \* ReplicatorState.queue
  deadLetter,  \* ReplicatorState.dead_letter
  lastSync,    \* ReplicatorState.last_sync_at.is_some()
  stopping,    \* ReplicatorState.stopping
  waitSet,     \* threads asleep in cv.wait
  wpc,         \* writers: "idle", or "blocked" in the backpressure loop
  req,         \* the key a blocked writer has come with
  dpc,         \* where the drainer is in drainer_loop
  item,        \* the write the drainer holds
  bucket,      \* the object store: last value PUT for each key, 0 for none
  accepted,    \* history: number of writes accepted so far
  newest,      \* history: last value accepted for each key, 0 for none
  landed       \* history: the values that reached the bucket at some time

stateVars == <<queue, deadLetter, lastSync, stopping>>
writerVars == <<wpc, req>>
history == <<accepted, newest, landed>>
vars == <<queue, deadLetter, lastSync, stopping, waitSet, wpc, req, dpc, item,
          bucket, accepted, newest, landed>>

Value == 1..MaxWrites

\* A PendingWrite.  `tries` counts the PUTs made for this very value.
Entry == [key : Keys, val : Value, retry : 0..255, tries : Nat]

ASSUME NoItemAssumption == NoItem \notin Entry

DrainerStates == {"top", "notify", "put", "ok", "demote", "sleep", "done"}

Init ==
  /\ queue = <<>> /\ deadLetter = {} /\ lastSync = FALSE /\ stopping = FALSE
  /\ waitSet = {}
  /\ wpc = [w \in Writers |-> "idle"]
  /\ req = [w \in Writers |-> NoItem]
  /\ dpc = "top" /\ item = NoItem
  /\ bucket = [k \in Keys |-> 0]
  /\ accepted = 0
  /\ newest = [k \in Keys |-> 0]
  /\ landed = {}

Full == Len(queue) >= QueueMax

NotifyNobody == waitSet' = waitSet

\* Condvar::notify_one: any one waiting thread is woken, if there is one.
NotifyOne ==
  IF waitSet = {} THEN NotifyNobody
  ELSE \E t \in waitSet : waitSet' = waitSet \ {t}

-----------------------------------------------------------------------------
(* Writers.                                                                *)

\* The body of enqueue() behind the backpressure loop: the write is taken.
Admit(w, k) ==
  LET v == accepted + 1 IN
  /\ accepted < MaxWrites
  /\ ~stopping
  /\ ~Full
  /\ queue' = Coalesce(queue, [key |-> k, val |-> v, retry |-> 0, tries |-> 0])
  /\ NotifyOne
  /\ accepted' = v
  /\ newest' = [newest EXCEPT ![k] = v]
  /\ wpc' = [wpc EXCEPT ![w] = "idle"]
  /\ req' = [req EXCEPT ![w] = NoItem]
  /\ UNCHANGED <<deadLetter, lastSync, stopping, dpc, item, bucket, landed>>

\* The queue is full: cv.wait releases the lock and puts w to sleep.
Block(w, k) ==
  /\ ~stopping
  /\ Full
  /\ waitSet' = waitSet \cup {w}
  /\ wpc' = [wpc EXCEPT ![w] = "blocked"]
  /\ req' = [req EXCEPT ![w] = k]
  /\ UNCHANGED <<stateVars, dpc, item, bucket, history>>

\* stopping: enqueue() returns and the write is gone.
Turn(w) ==
  /\ stopping
  /\ NotifyNobody
  /\ wpc' = [wpc EXCEPT ![w] = "idle"]
  /\ req' = [req EXCEPT ![w] = NoItem]
  /\ UNCHANGED <<stateVars, dpc, item, bucket, history>>

Blocked == {w \in Writers : wpc[w] = "blocked"}

\* An idle writer calls enqueue(k, ..).  Of the writes MaxWrites allows, one
\* is set aside for each writer that is blocked, so that Resume can go on.
Enqueue(w, k) ==
  /\ wpc[w] = "idle"
  /\ accepted + Cardinality(Blocked) < MaxWrites
  /\ Admit(w, k) \/ Block(w, k) \/ Turn(w)

\* A woken writer has the lock again and re-tests the loop condition.
Resume(w) ==
  /\ wpc[w] = "blocked"
  /\ w \notin waitSet
  /\ Admit(w, req[w]) \/ Block(w, req[w]) \/ Turn(w)

\* Replicator::stop.
Stop ==
  /\ ~stopping
  /\ stopping' = TRUE
  /\ waitSet' = {}
  /\ UNCHANGED <<queue, deadLetter, lastSync, writerVars, dpc, item, bucket,
                 history>>

-----------------------------------------------------------------------------
(* The drainer.                                                            *)

DrainerWait ==
  /\ dpc = "top"
  /\ Drainer \notin waitSet
  /\ queue = <<>>
  /\ ~stopping
  /\ waitSet' = waitSet \cup {Drainer}
  /\ UNCHANGED <<stateVars, writerVars, dpc, item, bucket, history>>

DrainerExit ==
  /\ dpc = "top"
  /\ Drainer \notin waitSet
  /\ queue = <<>>
  /\ stopping
  /\ dpc' = "done"
  /\ UNCHANGED <<stateVars, waitSet, writerVars, item, bucket, history>>

DrainerPop ==
  /\ dpc = "top"
  /\ Drainer \notin waitSet
  /\ queue # <<>>
  /\ item' = Head(queue)
  /\ queue' = Tail(queue)
  /\ dpc' = "notify"
  /\ UNCHANGED <<deadLetter, lastSync, stopping, waitSet, writerVars, bucket,
                 history>>

\* cv.notify_all, after the lock was released.
DrainerNotifyAll ==
  /\ dpc = "notify"
  /\ waitSet' = {}
  /\ dpc' = "put"
  /\ UNCHANGED <<stateVars, writerVars, item, bucket, history>>

\* The object now holds the bytes of item.
Store == /\ bucket' = [bucket EXCEPT ![item.key] = item.val]
         /\ landed' = landed \cup {item.val}

PutOk ==
  /\ dpc = "put"
  /\ Store
  /\ item' = NoItem
  /\ dpc' = "ok"
  /\ UNCHANGED <<stateVars, waitSet, writerVars, accepted, newest>>

RecordSync ==
  /\ dpc = "ok"
  /\ lastSync' = TRUE
  /\ dpc' = "top"
  /\ UNCHANGED <<queue, deadLetter, stopping, waitSet, writerVars, item,
                 bucket, history>>

\* Mutant of PutErr: one retry too many.
PutErrOnceMore ==
  /\ dpc = "put"
  /\ Store \/ UNCHANGED <<bucket, landed>>
  /\ LET r == (item.retry + 1) % 256 IN
     /\ item' = [item EXCEPT !.retry = r, !.tries = @ + 1]
     /\ dpc' = IF r > RetryMax + 1 THEN "demote" ELSE "sleep"
  /\ UNCHANGED <<stateVars, waitSet, writerVars, accepted, newest>>

\* store.put returns Err.  The PUT has landed when only its answer was lost
\* (the client gives up after 30 s); otherwise the bucket is as before.
\* retry_count is a u8 and wraps.
PutErr ==
  /\ dpc = "put"
  /\ Store \/ UNCHANGED <<bucket, landed>>
  /\ LET r == (item.retry + 1) % 256 IN
     /\ item' = [item EXCEPT !.retry = r, !.tries = @ + 1]
     /\ dpc' = IF r > RetryMax THEN "demote" ELSE "sleep"
  /\ UNCHANGED <<stateVars, waitSet, writerVars, accepted, newest>>

\* Mutant of Demote: the write is dropped.
DemoteSilently ==
  /\ dpc = "demote"
  /\ item' = NoItem
  /\ dpc' = "top"
  /\ UNCHANGED <<stateVars, waitSet, writerVars, bucket, history>>

\* Retries are used up: the write goes to the dead-letter list.
Demote ==
  /\ dpc = "demote"
  /\ deadLetter' = deadLetter \cup {[item EXCEPT !.retry = @ - 1]}
  /\ item' = NoItem
  /\ dpc' = "top"
  /\ UNCHANGED <<queue, lastSync, stopping, waitSet, writerVars, bucket,
                 history>>

\* The backoff is over: the write goes back to the front of the queue.
Requeue ==
  /\ dpc = "sleep"
  /\ queue' = PushFront(queue, item)
  /\ NotifyOne
  /\ item' = NoItem
  /\ dpc' = "top"
  /\ UNCHANGED <<deadLetter, lastSync, stopping, writerVars, bucket, history>>

\* A condition variable may wake a thread for no reason.
SpuriousWakeup ==
  /\ \E t \in waitSet : waitSet' = waitSet \ {t}
  /\ UNCHANGED <<stateVars, writerVars, dpc, item, bucket, history>>

DrainerStep ==
  \/ DrainerWait \/ DrainerExit \/ DrainerPop \/ DrainerNotifyAll
  \/ PutOk \/ RecordSync \/ PutErr \/ Demote \/ Requeue

Next ==
  \/ \E w \in Writers : Resume(w) \/ \E k \in Keys : Enqueue(w, k)
  \/ Stop
  \/ DrainerStep
  \/ SpuriousWakeup

Spec == Init /\ [][Next]_vars

\* A thread that can run is scheduled.  Nobody is obliged to call enqueue()
\* or stop(), and no PUT is obliged to succeed.
FairSpec ==
  /\ Spec
  /\ WF_vars(DrainerStep)
  /\ \A w \in Writers : WF_vars(Resume(w))

-----------------------------------------------------------------------------
(* Properties.                                                             *)

Held == IF item = NoItem THEN {} ELSE {item}
InQueue == {queue[i] : i \in 1..Len(queue)}

\* The types of the variables, and the drainer holds a write exactly while
\* it is at a point of its loop where the code has one in hand.
TypeOK ==
  /\ queue \in Seq(Entry)
  /\ deadLetter \subseteq Entry
  /\ lastSync \in BOOLEAN
  /\ stopping \in BOOLEAN
  /\ waitSet \subseteq Writers \cup {Drainer}
  /\ wpc \in [Writers -> {"idle", "blocked"}]
  /\ req \in [Writers -> Keys \cup {NoItem}]
  /\ \A w \in Writers : wpc[w] = "blocked" => req[w] \in Keys
  /\ dpc \in DrainerStates
  /\ IF dpc \in {"notify", "put", "sleep", "demote"}
     THEN item \in Entry ELSE item = NoItem
  /\ dpc = "demote" => item.retry > RetryMax
  /\ bucket \in [Keys -> 0..MaxWrites]
  /\ accepted \in 0..MaxWrites
  /\ newest \in [Keys -> 0..MaxWrites]
  /\ landed \subseteq Value

\* No lost wakeup although both sides share one condition variable and
\* enqueue() wakes just one thread: the drainer never sleeps on a queue that
\* has work, a writer never sleeps on a queue that has room (unless the
\* drainer is about to wake everybody), and nobody sleeps through stop().
NoLostWakeup ==
  /\ Drainer \in waitSet => dpc = "top" /\ queue = <<>> /\ ~stopping
  /\ \A w \in Writers : w \in waitSet =>
       wpc[w] = "blocked" /\ ~stopping /\ (Full \/ dpc = "notify")

\* Backpressure bounds the memory held by unsent writes: a retried write is
\* pushed past the cap, but queue and hand together exceed it by one at most.
Bounded ==
  Len(queue) + (IF item = NoItem THEN 0 ELSE 1) <= QueueMax + 1

\* Coalescing keeps one entry per key.  A second one exists only while an
\* older write to the key waits at the head of the queue for its retry.
OneSlotPerKey ==
  \A i, j \in 1..Len(queue) :
    i < j /\ queue[i].key = queue[j].key => i = 1 /\ queue[1].retry > 0

\* The newest write accepted for a key is never lost without a trace: it is
\* queued, in the drainer's hands, reached the bucket, or is a dead letter.
NewestAccounted ==
  \A k \in Keys : newest[k] # 0 =>
    \/ newest[k] \in landed
    \/ \E e \in InQueue \cup Held \cup deadLetter :
         e.key = k /\ e.val = newest[k]

\* "Retry up to retry_max": no value is sent more than retry_max + 1 times.
RetryBudget ==
  \A e \in InQueue \cup Held \cup deadLetter : e.tries <= RetryMax + 1

\* The drainer leaves only when nothing is left to send, so every write that
\* enqueue() took is settled when the thread is joined.
DrainedAtExit == dpc = "done" => queue = <<>> /\ item = NoItem

\* Every accepted write is settled in the end (landed, replaced by a newer
\* one, or demoted), whatever the bucket answers: the queue runs empty once
\* calls cease.  MaxWrites makes them cease.
Drains == <>[](queue = <<>> /\ item = NoItem)

\* A writer held back by backpressure gets its turn.
BlockedReturns == \A w \in Writers : wpc[w] = "blocked" ~> wpc[w] = "idle"

\* The abstract specification: what is in the queue or in hand is pending.
Abstract == INSTANCE EagerWrites WITH
  pending <- Writes(queue) \cup {[key |-> e.key, val |-> e.val] : e \in Held},
  dead <- {[key |-> e.key, val |-> e.val] : e \in deadLetter},
  open <- ~stopping

\* The replicator keeps the promise EagerWrites states, step for step.
RefinesEagerWrites == Abstract!Spec

\* Doc, on enqueue(): coalescing is "last-writer-wins".  A key with no write
\* on its way and no dead letter shows the newest accepted bytes.
LastWriterWins ==
  \A k \in Keys :
    (\A e \in InQueue \cup Held \cup deadLetter : e.key # k)
      => bucket[k] = newest[k]

\* Doc, on the module: "retry up to retry_max, then demote to dead-letter".
\* A dead letter has had its first PUT and retry_max retries.
FullRetryBudget == \A d \in deadLetter : d.tries = RetryMax + 1

\* Doc, on ReplicatorConfig.queue_max: it is the "max in-flight + pending
\* writes before the producer must ... block".
CapCountsInFlight == Len(queue) + Cardinality(Held) <= QueueMax

\* Doc, on enqueue(): a blocked caller waits "until depth drops below
\* half-cap".
ResumesBelowHalf ==
  [][\A w \in Writers :
       wpc[w] = "blocked" /\ wpc'[w] = "idle" /\ ~stopping
         => 2 * Len(queue) < QueueMax]_vars
=============================================================================
