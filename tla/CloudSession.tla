---------------------------- MODULE CloudSession ----------------------------
(***************************************************************************)
(* One chat in cloud mode, across reboots:                                 *)
(*   agent/src/core/sessions/mod.rs   append, compact_log, lazy hydration, *)
(*                                    get_branch, clear, delete            *)
(*   agent/src/core/cloud/boot.rs     boot_restore with its L3/L4/L5 layers*)
(*   agent/src/core/cloud/cache.rs    the volatile cache                   *)
(*   agent/src/core/cloud/snapshots.rs  the copy of the cache on flash     *)
(*   agent/src/main.rs                bootstrap_cloud                      *)
(*                                                                         *)
(* A chat is a base object, log objects and a mark (base.meta.json) that   *)
(* says which logs the base has absorbed.  An append grows the active log; *)
(* a log that is long enough is folded into the base, and the mark moves.  *)
(* Each write goes to the cache and then, key by key, through the eager    *)
(* queue to the bucket, so that a crash can fall between any two keys.     *)
(*                                                                         *)
(* The eager path is that of Replicator.tla, with the PUT, its failure and *)
(* the return to the queue in one step.  Sizes are counted in lines.       *)
(***************************************************************************)
EXTENDS Integers, Sequences, FiniteSets, SequencesExt, WriteQueue

CONSTANTS
  MaxMsgs,     \* bound: messages ever appended; also bounds the log indices
  MaxReboots,  \* bound: number of crashes
  CompactAt,   \* log_compaction_bytes, in lines
  SessionMax,  \* session_max_bytes, in lines
  QueueMax,    \* replicator.queue_max
  RetryMax,    \* replicator.retry_max
  NoItem,      \* "the drainer holds no write"
  Events       \* what the environment and the user may do, of AllEvents

AllEvents == {"put_error", "get_error", "list_error", "range_error",
              "delete_error", "crash", "snapshot", "clear", "delete"}

ASSUME BoundsAssumption ==
  /\ MaxMsgs \in Nat /\ MaxReboots \in Nat
  /\ CompactAt \in Nat \ {0} /\ SessionMax \in Nat
  /\ QueueMax \in Nat \ {0} /\ RetryMax \in 0..254
ASSUME EventsAssumption == Events \subseteq AllEvents

VARIABLES
  cache,      \* CloudCache: the objects in PSRAM
  bucket,     \* the objects in the bucket
  snap,       \* .snapshot.bin: a copy of the cache on flash
  queue,      \* the eager queue
  held,       \* the write the drainer has in hand
  dead,       \* keys of the dead letters
  pc,         \* agent thread: "idle", inside append(), or "down"
  logIdx,     \* append(): the index of the log it writes
  buf,        \* append(): the bytes it is about to enqueue
  warning,    \* BootResult.warnings for this chat: "none", "truncated", ..
  lastId,     \* history: messages are numbered as they are appended
  forgotten,  \* history: messages up to this one were cleared or deleted
  deleting,   \* HTTP thread: delete_with_store is between bucket and cache
  leftover,   \* history: the last deletion left objects or writes of the chat
  reboots     \* history: number of crashes

vars == <<cache, bucket, snap, queue, held, dead, pc, logIdx, buf, warning, lastId,
          forgotten, deleting, leftover, reboots>>

Msg == 1..MaxMsgs
LogIdx == 0..MaxMsgs

\* Object keys below sys/sessions/<chat>/.
Base == <<"base", 0>>
Mark == <<"mark", 0>>
Log(i) == <<"log", i>>
KeyOrder == <<Base, Mark>> \o [i \in 1..(MaxMsgs + 1) |-> Log(i - 1)]
Key == {KeyOrder[i] : i \in 1..Len(KeyOrder)}

\* An append writes two lines: the message, with its parent (0 is none), and
\* a session_info line that names it as the leaf.
MsgLine(m, parent) == [kind |-> "msg", id |-> m, parent |-> parent]
InfoLine(m) == [kind |-> "info", id |-> m, parent |-> 0]
MarkText(i) == <<[kind |-> "mark", id |-> i, parent |-> 0]>>

\* A store (cache, bucket or snapshot) is a partial function from keys.
NoObjects == [k \in {} |-> <<>>]
Put(s, k, text) == [x \in DOMAIN s \cup {k} |-> IF x = k THEN text ELSE s[x]]
Get(s, k) == IF k \in DOMAIN s THEN s[k] ELSE <<>>   \* unwrap_or_default
Only(s, keys) == [x \in DOMAIN s \cap keys |-> s[x]]

-----------------------------------------------------------------------------
(* Reading a chat.                                                         *)

\* cloud_highest_absorbed; -1 when there is no mark.
Absorbed(s) == IF Mark \in DOMAIN s THEN s[Mark][1].id ELSE -1

\* read_chat_from_cache: base, then the logs not absorbed, by index.
Text(s) ==
  LET upto[i \in LogIdx] ==
        (IF i = 0 THEN Get(s, Base) ELSE upto[i - 1]) \o
        (IF i > Absorbed(s) THEN Get(s, Log(i)) ELSE <<>>)
  IN upto[MaxMsgs]

\* get_leaf_id: what the last session_info line names; 0 is none.
Leaf(text) ==
  LET i == SelectLastInSeq(text, LAMBDA line : line.kind = "info")
  IN IF i = 0 THEN 0 ELSE text[i].id

\* get_branch: from the leaf up the parent pointers, oldest first.  The walk
\* stops at a message the text does not hold.
Branch(text) ==
  LET walk == [t \in {text} |->
        LET msgs == {i \in 1..Len(t) : t[i].kind = "msg"}
            at == [m \in {t[i].id : i \in msgs} |->
                     Max({i \in msgs : t[i].id = m})]
            chain[m \in 0..MaxMsgs] ==
              IF m \notin DOMAIN at THEN <<>>
              ELSE Append(chain[t[at[m]].parent], m)
        IN chain[Leaf(t)]]
  IN walk[text]

\* cloud_load_text: what load() leaves in the cache.  An empty chat is
\* fetched from the bucket; LIST and each GET may fail.
Hydrations ==
  IF Text(cache) # <<>> THEN {cache}
  ELSE LET missing == DOMAIN bucket \ DOMAIN cache
           got == (IF "get_error" \in Events THEN SUBSET missing ELSE {missing})
                  \cup (IF "list_error" \in Events THEN {{}} ELSE {})
       IN {[k \in DOMAIN cache \cup g |->
              IF k \in DOMAIN cache THEN cache[k] ELSE bucket[k]] : g \in got}

-----------------------------------------------------------------------------
(* The eager path.                                                         *)

Full == Len(queue) >= QueueMax

Enqueue(k, text) ==
  /\ ~Full
  /\ queue' = Coalesce(queue, [key |-> k, val |-> text, retry |-> 0, tries |-> 0])

\* Mutant of DrainPop: the newest write first.
DrainPopBack ==
  /\ pc # "down"
  /\ held = NoItem
  /\ queue # <<>>
  /\ held' = Last(queue)
  /\ queue' = Front(queue)
  /\ UNCHANGED <<cache, bucket, snap, dead, pc, logIdx, buf, warning, lastId,
                 forgotten, deleting, leftover, reboots>>

\* Mutant of DrainPop: a dead letter stops the drainer.
DrainPopUnlessDead ==
  /\ pc # "down"
  /\ dead = {}
  /\ held = NoItem
  /\ queue # <<>>
  /\ held' = Head(queue)
  /\ queue' = Tail(queue)
  /\ UNCHANGED <<cache, bucket, snap, dead, pc, logIdx, buf, warning, lastId,
                 forgotten, deleting, leftover, reboots>>

DrainPop ==
  /\ pc # "down"
  /\ held = NoItem
  /\ queue # <<>>
  /\ held' = Head(queue)
  /\ queue' = Tail(queue)
  /\ UNCHANGED <<cache, bucket, snap, dead, pc, logIdx, buf, warning, lastId,
                 forgotten, deleting, leftover, reboots>>

DrainPut ==
  /\ held # NoItem
  /\ bucket' = Put(bucket, held.key, held.val)
  /\ held' = NoItem
  /\ UNCHANGED <<cache, snap, queue, dead, pc, logIdx, buf, warning, lastId,
                 forgotten, deleting, leftover, reboots>>

\* The PUT fails, or lands and its answer is lost.
DrainFail ==
  /\ "put_error" \in Events
  /\ held # NoItem
  /\ bucket' \in {bucket, Put(bucket, held.key, held.val)}
  /\ held' = NoItem
  /\ IF held.retry + 1 > RetryMax
     THEN dead' = dead \cup {held.key} /\ queue' = queue
     ELSE dead' = dead /\ queue' = PushFront(queue, [held EXCEPT !.retry = @ + 1])
  /\ UNCHANGED <<cache, snap, pc, logIdx, buf, warning, lastId, forgotten,
                 deleting, leftover, reboots>>

-----------------------------------------------------------------------------
(* append(), on the agent thread.                                          *)

\* Mutant of AppendMsg: the parent is looked up in the active log alone.
AppendMsgLogLeaf ==
  /\ pc = "idle"
  /\ lastId < MaxMsgs
  /\ \E c \in Hydrations :
       LET m == lastId + 1
           i == Absorbed(c) + 1
           log == Get(c, Log(i))
       IN /\ buf' = log \o <<MsgLine(m, Leaf(log)), InfoLine(m)>>
          /\ cache' = Put(c, Log(i), buf')
          /\ logIdx' = i
  /\ lastId' = lastId + 1
  /\ pc' = "log"
  /\ UNCHANGED <<bucket, snap, queue, held, dead, warning, forgotten, deleting,
                 leftover, reboots>>

\* append() up to the first enqueue: link the message to the leaf and grow
\* the active log in the cache.
AppendMsg ==
  /\ pc = "idle"
  /\ lastId < MaxMsgs
  /\ \E c \in Hydrations :
       LET m == lastId + 1
           i == Absorbed(c) + 1        \* current_log_index
           grown == Get(c, Log(i))
                    \o <<MsgLine(m, Leaf(Text(c))), InfoLine(m)>>
       IN /\ cache' = Put(c, Log(i), grown)
          /\ buf' = grown
          /\ logIdx' = i
  /\ lastId' = lastId + 1
  /\ pc' = "log"
  /\ UNCHANGED <<bucket, snap, queue, held, dead, warning, forgotten, deleting,
                 leftover, reboots>>

\* Mutant of EnqueueLog: the new base is the old one.
EnqueueLogOldBase ==
  /\ pc = "log"
  /\ Enqueue(Log(logIdx), buf)
  /\ IF Len(buf) >= CompactAt
     THEN buf' = Get(cache, Base) /\ cache' = Put(cache, Base, buf') /\ pc' = "base"
     ELSE cache' = cache /\ buf' = <<>> /\ pc' = "idle"
  /\ UNCHANGED <<bucket, snap, held, dead, logIdx, warning, lastId, forgotten,
                 deleting, leftover, reboots>>

\* enqueue(log) has returned; a long log starts compact_log with a new base.
EnqueueLog ==
  /\ pc = "log"
  /\ Enqueue(Log(logIdx), buf)
  /\ IF Len(buf) >= CompactAt
     THEN /\ buf' = Get(cache, Base) \o Get(cache, Log(logIdx))
          /\ cache' = Put(cache, Base, buf')
          /\ pc' = "base"
     ELSE cache' = cache /\ buf' = <<>> /\ pc' = "idle"
  /\ UNCHANGED <<bucket, snap, held, dead, logIdx, warning, lastId, forgotten,
                 deleting, leftover, reboots>>

EnqueueBase ==
  /\ pc = "base"
  /\ Enqueue(Base, buf)
  /\ buf' = MarkText(logIdx)
  /\ cache' = Put(cache, Mark, buf')
  /\ pc' = "mark"
  /\ UNCHANGED <<bucket, snap, held, dead, logIdx, warning, lastId, forgotten,
                 deleting, leftover, reboots>>

EnqueueMark ==
  /\ pc = "mark"
  /\ Enqueue(Mark, buf)
  /\ buf' = <<>>
  /\ pc' = "idle"
  /\ UNCHANGED <<cache, bucket, snap, held, dead, logIdx, warning, lastId,
                 forgotten, deleting, leftover, reboots>>

-----------------------------------------------------------------------------
(* /clear, delete, snapshots.                                              *)

CloudPrefix == "sys/sessions"
KeysWithPrefix(s, p) == IF p = CloudPrefix THEN DOMAIN s ELSE {}

\* clear_with_store, on the agent thread.  It looks for keys below
\* "sessions/<chat>/", while the objects are below "sys/sessions/<chat>/".
ClearPrefix == "sessions"
Clear ==
  /\ "clear" \in Events
  /\ pc = "idle"
  /\ forgotten < lastId
  /\ bucket' = Only(bucket, DOMAIN bucket \ KeysWithPrefix(bucket, ClearPrefix))
  /\ cache' = Only(cache, DOMAIN cache \ KeysWithPrefix(cache, ClearPrefix))
  /\ forgotten' = lastId
  /\ UNCHANGED <<snap, queue, held, dead, pc, logIdx, buf, warning, lastId,
                 deleting, leftover, reboots>>

\* The buckets that best-effort deletes of all its objects may leave.
Deletions ==
  IF "delete_error" \in Events THEN {Only(bucket, ks) : ks \in SUBSET DOMAIN bucket}
  ELSE {NoObjects}

\* delete_with_store, on an HTTP thread: the listed objects, then the cache.
\* A LIST or DELETE that fails is logged.  Writes in the queue or in the
\* drainer's hands stay there.
DeleteBucket ==
  /\ "delete" \in Events
  /\ pc # "down"
  /\ ~deleting
  /\ forgotten < lastId
  /\ bucket' \in Deletions
  /\ deleting' = TRUE
  /\ UNCHANGED <<cache, snap, queue, held, dead, pc, logIdx, buf, warning,
                 lastId, forgotten, leftover, reboots>>

DeleteCache ==
  /\ deleting
  /\ cache' = Only(cache, DOMAIN cache \ KeysWithPrefix(cache, CloudPrefix))
  /\ deleting' = FALSE
  /\ forgotten' = lastId
  /\ leftover' = (DOMAIN bucket # {} \/ queue # <<>> \/ held # NoItem \/ pc # "idle")
  /\ UNCHANGED <<bucket, snap, queue, held, dead, pc, logIdx, buf, warning,
                 lastId, reboots>>

\* snapshots::write_to, from the timer thread: one look at the cache, then
\* an atomic rename.
TakeSnapshot ==
  /\ "snapshot" \in Events
  /\ pc # "down"
  /\ snap' = cache
  /\ UNCHANGED <<cache, bucket, queue, held, dead, pc, logIdx, buf, warning,
                 lastId, forgotten, deleting, leftover, reboots>>

-----------------------------------------------------------------------------
(* Crash and boot.                                                         *)

\* Power fails: PSRAM, queue and threads are gone; bucket and flash are not.
Crash ==
  /\ "crash" \in Events
  /\ pc # "down"
  /\ reboots < MaxReboots
  /\ cache' = NoObjects
  /\ queue' = <<>> /\ held' = NoItem /\ dead' = {}
  /\ pc' = "down" /\ logIdx' = 0 /\ buf' = <<>>
  /\ deleting' = FALSE
  /\ reboots' = reboots + 1
  /\ UNCHANGED <<bucket, snap, warning, lastId, forgotten, leftover>>

\* What every way to boot leaves behind.
Booted ==
  /\ pc = "down"
  /\ pc' = "idle"
  /\ UNCHANGED <<snap, queue, held, dead, logIdx, buf, lastId, forgotten,
                 deleting, leftover, reboots>>

LinesOf(s) == FoldFunction(+, 0, [k \in DOMAIN s |-> Len(s[k])])

\* L3 passes and every GET succeeds: the cache mirrors the bucket.
BootFull ==
  /\ Booted
  /\ LinesOf(bucket) <= SessionMax
  /\ cache' = bucket
  /\ warning' = "none"
  /\ UNCHANGED bucket

\* LIST fails at the top: the snapshot replaces the cache, if there is one.
BootSnapshot ==
  /\ Booted
  /\ "list_error" \in Events
  /\ cache' = snap
  /\ warning' = "none"
  /\ UNCHANGED bucket

\* LIST or HEAD fails for this chat: it is skipped.
BootSkip ==
  /\ Booted
  /\ "list_error" \in Events
  /\ DOMAIN bucket # {}
  /\ cache' = NoObjects
  /\ warning' = "none"
  /\ UNCHANGED bucket

\* What the cache may hold when the full restore escalates to L4: nothing if
\* L3 tripped, else the keys before the one whose GET failed.
Escalations ==
  IF LinesOf(bucket) > SessionMax THEN {NoObjects}
  ELSE IF "get_error" \in Events
  THEN {Only(bucket, {KeyOrder[j] : j \in 1..(i - 1)}) :
          i \in {n \in 1..Len(KeyOrder) : KeyOrder[n] \in DOMAIN bucket}}
  ELSE {}

LogsOf(s) == {i \in LogIdx : Log(i) \in DOMAIN s}

\* The last log_compaction_bytes of a log, less everything up to the first
\* newline: its first line, whether or not it was cut.
TailOf(text) ==
  SubSeq(text, (IF Len(text) > CompactAt THEN Len(text) - CompactAt ELSE 0) + 2,
         Len(text))

\* L4: only the tail of the highest log is kept.
BootTail ==
  /\ Booted
  /\ LogsOf(bucket) # {}
  /\ LET top == Log(Max(LogsOf(bucket))) IN
     \E partial \in Escalations : cache' = Put(partial, top, TailOf(bucket[top]))
  /\ warning' = "truncated"
  /\ UNCHANGED bucket

\* L5: no log, or its range GET fails: the objects are moved to quarantine,
\* as far as the store obeys.
BootQuarantine ==
  /\ Booted
  /\ LogsOf(bucket) = {} \/ "range_error" \in Events
  /\ cache' \in Escalations
  /\ bucket' \in Deletions
  /\ warning' = "quarantined"

Init ==
  /\ cache = NoObjects /\ bucket = NoObjects /\ snap = NoObjects
  /\ queue = <<>> /\ held = NoItem /\ dead = {}
  /\ pc = "idle" /\ logIdx = 0 /\ buf = <<>>
  /\ warning = "none"
  /\ lastId = 0 /\ forgotten = 0
  /\ deleting = FALSE /\ leftover = FALSE /\ reboots = 0

Drain == DrainPop \/ DrainPut \/ DrainFail
Boot == BootFull \/ BootSnapshot \/ BootSkip \/ BootTail \/ BootQuarantine
Agent == EnqueueLog \/ EnqueueBase \/ EnqueueMark

Next ==
  \/ AppendMsg \/ Agent \/ Drain
  \/ Clear \/ DeleteBucket \/ DeleteCache
  \/ TakeSnapshot \/ Crash \/ Boot

Spec == Init /\ [][Next]_vars

\* Threads run and a device that is down boots; nobody has to send messages.
FairSpec ==
  /\ Spec
  /\ WF_vars(Drain) /\ WF_vars(Agent) /\ WF_vars(DeleteCache) /\ WF_vars(Boot)

-----------------------------------------------------------------------------
(* Properties.                                                             *)

Live == Branch(Text(cache))        \* the history a turn works with
Recovered == Branch(Text(bucket))  \* the history a fault-free boot restores

Line == [kind : {"msg", "info", "mark"}, id : 0..MaxMsgs, parent : 0..MaxMsgs]
IsStore(s) == /\ DOMAIN s \subseteq Key
              /\ \A k \in DOMAIN s : s[k] \in Seq(Line)
Entry == [key : Key, val : Seq(Line), retry : 0..RetryMax, tries : {0}]

ASSUME NoItemAssumption == NoItem \notin Entry

\* The types of the variables; a mark is one line.
TypeOK ==
  /\ IsStore(cache) /\ IsStore(bucket) /\ IsStore(snap)
  /\ \A s \in {cache, bucket, snap} : Mark \in DOMAIN s => Len(s[Mark]) = 1
  /\ queue \in Seq(Entry)
  /\ held = NoItem \/ held \in Entry
  /\ dead \subseteq Key
  /\ pc \in {"idle", "log", "base", "mark", "down"}
  /\ logIdx \in LogIdx
  /\ buf \in Seq(Line)
  /\ warning \in {"none", "truncated", "quarantined"}
  /\ lastId \in 0..MaxMsgs /\ forgotten \in 0..lastId
  /\ deleting \in BOOLEAN /\ leftover \in BOOLEAN
  /\ reboots \in 0..MaxReboots

\* A message that was appended is at the end of the history the next turn
\* reads, at every point of a compaction and of a deletion, and afterwards
\* unless the deletion was overtaken: its own writes, or an append beside it,
\* then leave a log that the next turn reads behind the one it appends to.
ReadYourWrites ==
  pc # "down" /\ lastId > forgotten /\ reboots = 0 /\ ~leftover
    => Live # <<>> /\ Last(Live) = lastId

\* Cutting the power at any time leaves a prefix of the history: no message
\* is restored without those before it.
CrashLeavesPrefix == pc # "down" => IsPrefix(Recovered, Live)

\* When the drainer has caught up and nothing was given up, the bucket holds
\* the whole history.
SyncedIsDurable ==
  pc = "idle" /\ queue = <<>> /\ held = NoItem /\ dead = {}
    => Recovered = Live

\* A message that reached the bucket is never overwritten: some object still
\* holds it, whatever crashes and whatever is appended afterwards.
InBucket(m) ==
  \E k \in DOMAIN bucket : \E n \in 1..Len(bucket[k]) :
    bucket[k][n].kind = "msg" /\ bucket[k][n].id = m
NothingErased == [][\A m \in Msg : InBucket(m) => InBucket(m)']_vars

\* An append held back by a full queue returns, whatever the bucket answers.
AppendReturns == pc \in {"log", "base", "mark"} ~> pc \in {"idle", "down"}

\* Doc, on cloud_highest_absorbed: the mark is the "highest log index that has
\* been folded into base.jsonl".  A log it hides is in the base beside it.
AbsorbedInBase ==
  \A i \in LogsOf(bucket) : i <= Absorbed(bucket) =>
    \A n \in 1..Len(bucket[Log(i)]) :
      Contains(Get(bucket, Base), bucket[Log(i)][n])

\* append() auto-links the parent so that "get_branch [is] traversable as a
\* single chronological chain": what is appended extends the history.
AppendExtends ==
  [][pc = "idle" /\ pc' = "log"
       => Live' = Append(Branch(Text(cache)), lastId')]_vars

\* Doc, on clear() and delete(): "Wipe the session", "hard-delete this chat".
\* Cleared or deleted messages do not come back, here or after a reboot.
ForgottenStaysGone ==
  \A m \in 1..forgotten : ~Contains(Live, m) /\ ~Contains(Recovered, m)

\* Doc, on BootWarningKind::Quarantined: "the session [is] reset to empty".
QuarantineResets ==
  [][pc = "down" /\ warning' = "quarantined" => Live' = <<>>]_vars
=============================================================================
