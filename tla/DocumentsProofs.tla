--------------------------- MODULE DocumentsProofs ---------------------------
(***************************************************************************)
(* Theorems about the documents (Documents.tla), the schedule of the jobs  *)
(* that are one of them (Cron.tla), and the start that restores them       *)
(* (Startup.tla), for any threads and any bounds.                          *)
(***************************************************************************)
EXTENDS Documents, Cron, Startup, TLAPS

USE DocumentsAssumption DEF Doc, Op

Call == [pc : {"idle", "reload", "save", "put", "write"}, doc : Doc,
         op : {"add", "edit", "delete"}, id : Nat, n : Nat, text : Texts, tries : Nat]

\* The types that the invariants below rest on.
Typed ==
  /\ IsStore(cache) /\ IsStore(snap) /\ IsStore(bucket)
  /\ file \in [Doc -> Texts]
  /\ lane \in [Lanes -> Call]
  /\ ops \in 0..MaxOps /\ up \in BOOLEAN

Busy == {l \in Lanes : lane[l].pc # "idle"}

\* Neither a call that has failed nor one that may yet fail.
Settled(n) == n \in (1..ops) \ failed /\ \A l \in Busy : lane[l].n # n

\* Calls have numbers of their own.  The file of jobs holds settled entries
\* only, and what a call is about to write holds its own besides.
Apart ==
  /\ failed \subseteq 1..ops
  /\ \A l \in Busy : lane[l].n \in (1..ops) \ failed
  /\ \A k, l \in Busy : lane[k].n = lane[l].n => k = l
  /\ \A id \in DOMAIN file["cron"] : Settled(file["cron"][id])
  /\ \A l \in Busy : lane[l].doc = "cron" =>
       \A id \in DOMAIN lane[l].text :
         lane[l].text[id] = lane[l].n \/ Settled(lane[l].text[id])

LEMMA TextValues == \A t \in Texts : DOMAIN t \subseteq Op /\ \A i \in DOMAIN t : t[i] \in Op
BY DEF Texts

LEMMA EmptyText == None \in Texts
<1>1. None \in [{} -> Op]
  BY DEF None
<1> QED BY <1>1 DEF Texts

\* What an operation leaves is a text again.
LEMMA ChangedText ==
  ASSUME NEW t \in Texts, NEW op, NEW id \in Op, NEW n \in Op
  PROVE  Changed(t, op, id, n) \in Texts
<1>1. PICK S \in SUBSET Op : t \in [S -> Op]
  BY DEF Texts
<1>2. Without(t, id) \in [S \ {id} -> Op]
  BY <1>1 DEF Without
<1>3. With(t, id, n) \in [S \cup {id} -> Op]
  BY <1>1 DEF With
<1> QED BY <1>2, <1>3 DEF Texts, Changed

LEMMA StoreWith ==
  ASSUME NEW s, IsStore(s), NEW d \in Doc, NEW t \in Texts
  PROVE  IsStore(With(s, d, t))
BY DEF IsStore, With

\* The entries of Changed: the call's own, and some of the text.
LEMMA ChangedEntries ==
  ASSUME NEW t, NEW op, NEW id, NEW n, NEW i \in DOMAIN Changed(t, op, id, n)
  PROVE  \/ Changed(t, op, id, n)[i] = n
         \/ i \in DOMAIN t /\ Changed(t, op, id, n)[i] = t[i]
BY DEF Changed, With, Without

LEMMA TypedInit == Init => Typed
BY EmptyText DEF Init, Typed, IsStore, None, Idle, Call

LEMMA TypedStep == Typed /\ Apart /\ [Next]_vars => Typed'
<1> SUFFICES ASSUME Typed, Apart, [Next]_vars PROVE Typed'
  OBVIOUS
<1> USE DEF Typed
<1>1. ASSUME NEW l \in Lanes, Load(l) PROVE Typed'
  <2>1. PICK d \in Doc, op \in {"add", "edit", "delete"}, id \in Op :
          lane' = [lane EXCEPT ![l] =
            [pc |-> IF d = "cron" /\ op = "edit" THEN "reload" ELSE "save",
             doc |-> d, op |-> op, id |-> id, n |-> ops + 1,
             text |-> Changed(Read(d), op, id, ops + 1), tries |-> 0]]
    BY <1>1 DEF Load
  <2>2. ops < MaxOps /\ ops' = ops + 1 /\ UNCHANGED <<cache, snap, bucket, file, up>>
    BY <1>1 DEF Load, places
  <2>3. Read(d) \in Texts
    BY DEF Read, IsStore
  <2>4. Changed(Read(d), op, id, ops + 1) \in Texts
    BY <2>2, <2>3, ChangedText
  <2>5. lane' \in [Lanes -> Call]
    <3> DEFINE t == Changed(Read(d), op, id, ops + 1)
    <3> HIDE DEF t
    <3>1. t \in Texts /\ ops + 1 \in Nat
      BY <2>4 DEF t
    <3>2. [pc |-> IF d = "cron" /\ op = "edit" THEN "reload" ELSE "save",
           doc |-> d, op |-> op, id |-> id, n |-> ops + 1, text |-> t, tries |-> 0] \in Call
      BY <3>1 DEF Call
    <3> QED BY <2>1, <3>2 DEF t
  <2> QED BY <2>2, <2>5
<1>2. ASSUME NEW l \in Lanes, Step(l) PROVE Typed'
  <2>1. lane[l] \in Call /\ Idle \in Call
    BY EmptyText DEF Idle, Call
  <2>2. lane' \in [Lanes -> Call]
    <3>1. CASE Reload(l)
      <4> DEFINE t == Changed(file["cron"], "edit", lane[l].id, lane[l].n)
      <4>1. CASE lane[l].id \in DOMAIN file["cron"]
        <5>1. lane[l].n \in Op /\ lane[l].id \in Op
          BY <2>1, <3>1, <4>1, TextValues DEF Reload, Apart, Busy
        <5>2. t \in Texts
          BY <5>1, ChangedText
        <5> HIDE DEF t
        <5>3. [lane[l] EXCEPT !.pc = "save", !.text = t] \in Call
          BY <2>1, <5>2 DEF Call
        <5>4. lane' = [lane EXCEPT ![l] = [lane[l] EXCEPT !.pc = "save", !.text = t]]
          BY <2>1, <3>1, <4>1 DEF Reload, t, Call
        <5> QED BY <5>3, <5>4
      <4>2. CASE lane[l].id \notin DOMAIN file["cron"]
        BY <2>1, <3>1, <4>2 DEF Reload, Fail
      <4> QED BY <4>1, <4>2
    <3>2. CASE SaveCache(l) \/ PutOk(l)
      <4>1. PICK p \in {"put", "write"} : lane' = [lane EXCEPT ![l].pc = p]
        BY <3>2 DEF SaveCache, PutOk
      <4>2. [lane[l] EXCEPT !.pc = p] \in Call
        BY <2>1 DEF Call
      <4> QED BY <4>1, <4>2
    <3>3. CASE PutFail(l)
      <4>1. [lane[l] EXCEPT !.tries = @ + 1] \in Call
        BY <2>1 DEF Call
      <4> QED BY <2>1, <3>3, <4>1 DEF PutFail, Fail
    <3>4. CASE WriteFile(l) \/ WriteError(l)
      BY <2>1, <3>4 DEF WriteFile, WriteError, Acknowledge, Fail
    <3> QED BY <1>2, <3>1, <3>2, <3>3, <3>4 DEF Step
  <2>3. lane[l].doc \in Doc /\ lane[l].text \in Texts
    BY <2>1 DEF Call
  <2>4. IsStore(With(cache, lane[l].doc, lane[l].text)) /\ IsStore(With(bucket, lane[l].doc, lane[l].text))
    BY <2>3, StoreWith
  <2>5. cache' \in {cache, With(cache, lane[l].doc, lane[l].text)}
        /\ bucket' \in {bucket, With(bucket, lane[l].doc, lane[l].text)}
        /\ file' \in {file, [file EXCEPT ![lane[l].doc] = lane[l].text]}
        /\ UNCHANGED <<snap, ops, up>>
    BY <1>2 DEF Step, Reload, SaveCache, PutOk, PutFail, WriteFile, WriteError, places
  <2>6. IsStore(cache') /\ IsStore(bucket')
    BY <2>4, <2>5
  <2>7. file' \in [Doc -> Texts]
    BY <2>3, <2>5
  <2> QED BY <2>2, <2>5, <2>6, <2>7
<1>3. CASE EditFile
  <2>1. ops + 1 \in Op /\ ops' = ops + 1 /\ UNCHANGED <<cache, bucket, snap, lane, up>>
        /\ file' = [file EXCEPT !["memory"] = With(@, ops + 1, ops + 1)]
    BY <1>3 DEF EditFile
  <2>2. With(file["memory"], ops + 1, ops + 1) \in Texts
    <3>1. Changed(file["memory"], "add", ops + 1, ops + 1) \in Texts
      BY <2>1, ChangedText
    <3> QED BY <3>1 DEF Changed
  <2> QED BY <2>1, <2>2
<1>4. CASE ConfigPut \/ Config \/ UNCHANGED vars
  BY <1>4 DEF ConfigPut, Config, ConfigPutOk, ConfigPutFail, ConfigSave, vars, places
<1>5. CASE TakeSnapshot
  BY <1>5 DEF TakeSnapshot
<1>6. CASE Crash \/ Restart
  <2>1. Down
    BY <1>6 DEF Crash, Restart
  <2>2. Idle \in Call /\ IsStore(None)
    BY EmptyText DEF Idle, Call, IsStore, None
  <2> QED BY <2>1, <2>2 DEF Down
<1>7. CASE Format
  <2>1. IsStore(None)
    BY DEF IsStore, None
  <2> QED BY <1>7, <2>1, EmptyText DEF Format
<1>8. CASE Boot
  <2>1. UNCHANGED <<bucket, file, snap, lane, ops>> /\ up' = TRUE
    BY <1>8 DEF Boot, BootLocal, BootRestore, BootSnapshot, Booted
  <2>2. IsStore(cache')
    BY <1>8 DEF Boot, BootLocal, BootRestore, BootSnapshot, IsStore
  <2> QED BY <2>1, <2>2
<1> QED BY <1>1, <1>2, <1>3, <1>4, <1>5, <1>6, <1>7, <1>8 DEF Next

-----------------------------------------------------------------------------
(* Failed changes of jobs.                                                 *)

\* Nothing is written, no call begins, and those that end leave no trace.
LEMMA NothingWritten ==
  ASSUME Apart, Typed, failed' = failed, ops' \in Nat, ops' >= ops,
         Busy' \subseteq Busy,
         \A l \in Busy' : /\ lane'[l].n = lane[l].n /\ lane'[l].doc = lane[l].doc
                          /\ lane'[l].text = lane[l].text,
         file'["cron"] = file["cron"] \/ file'["cron"] = None
  PROVE  Apart'
<1>1. ASSUME NEW n, Settled(n) PROVE Settled(n)'
  BY <1>1 DEF Settled, Typed
<1>2. DOMAIN None = {}
  BY DEF None
<1> QED BY <1>1, <1>2 DEF Apart, Typed

\* Call l fails: nobody else holds its entry.
LEMMA FailKeepsApart ==
  ASSUME Apart, Typed, NEW l \in Busy, Fail(l), UNCHANGED <<file, ops>>
  PROVE  Apart'
<1>1. failed' = failed \cup {lane[l].n} /\ lane' = [lane EXCEPT ![l] = Idle]
  BY DEF Fail
<1>2. Busy' = Busy \ {l} /\ \A k \in Busy' : lane'[k] = lane[k]
  BY <1>1 DEF Busy, Typed, Idle
<1>3. ASSUME NEW n, Settled(n) PROVE Settled(n)'
  BY <1>1, <1>2, <1>3 DEF Settled
<1>4. \A k \in Busy' : lane'[k].n # lane[l].n
  BY <1>2 DEF Apart
<1>5. failed' \subseteq 1..ops' /\ \A k \in Busy' : lane'[k].n \in (1..ops') \ failed'
  <2>1. failed \subseteq 1..ops /\ lane[l].n \in 1..ops
    BY DEF Apart
  <2>2. failed' \subseteq 1..ops'
    BY <1>1, <2>1
  <2>3. ASSUME NEW k \in Busy' PROVE lane'[k].n \in (1..ops') \ failed'
    <3>1. lane'[k].n = lane[k].n /\ lane[k].n \in (1..ops) \ failed
      BY <1>2 DEF Apart
    <3> QED BY <1>1, <1>4, <3>1
  <2> QED BY <2>2, <2>3
<1>6. \A id \in DOMAIN file'["cron"] : Settled(file["cron"][id])'
  BY <1>3 DEF Apart
<1>7. \A k \in Busy' : lane'[k].doc = "cron" =>
        \A id \in DOMAIN lane'[k].text :
          \A n : n = lane'[k].text[id] => n = lane'[k].n \/ Settled(n)'
  BY <1>2, <1>3 DEF Apart
<1> QED BY <1>2, <1>5, <1>6, <1>7 DEF Apart

LEMMA ApartStep == Typed /\ Apart /\ [Next]_vars => Apart'
<1> SUFFICES ASSUME Typed, Apart, [Next]_vars PROVE Apart'
  OBVIOUS
<1>0. ops \in Nat /\ lane \in [Lanes -> Call] /\ file \in [Doc -> Texts]
  BY DEF Typed
<1>1. ASSUME NEW l \in Lanes, Load(l) PROVE Apart'
  <2>1. PICK d \in Doc, op \in {"add", "edit", "delete"}, id \in Op :
          lane' = [lane EXCEPT ![l] =
            [pc |-> IF d = "cron" /\ op = "edit" THEN "reload" ELSE "save",
             doc |-> d, op |-> op, id |-> id, n |-> ops + 1,
             text |-> Changed(Read(d), op, id, ops + 1), tries |-> 0]]
    BY <1>1 DEF Load
  <2>2. lane[l].pc = "idle" /\ ops' = ops + 1 /\ UNCHANGED <<file, failed>>
    BY <1>1 DEF Load, places
  <2>3. /\ Busy' = Busy \cup {l} /\ l \notin Busy
        /\ \A k \in Busy : lane'[k] = lane[k]
        /\ lane'[l].n = ops + 1 /\ lane'[l].doc = d
        /\ lane'[l].text = Changed(Read(d), op, id, ops + 1)
    BY <1>0, <2>1, <2>2 DEF Busy
  <2>4. ASSUME NEW n, Settled(n) PROVE Settled(n)'
    BY <1>0, <2>2, <2>3, <2>4 DEF Settled
  <2>5. ASSUME d = "cron", NEW i \in DOMAIN lane'[l].text
        PROVE  lane'[l].text[i] = ops + 1 \/ Settled(lane'[l].text[i])
    BY <2>3, <2>5, ChangedEntries DEF Apart, Read
  <2> QED BY <1>0, <2>2, <2>3, <2>4, <2>5 DEF Apart
<1>2. ASSUME NEW l \in Lanes, Reload(l) PROVE Apart'
  <2>1. l \in Busy /\ UNCHANGED <<file, ops>>
    BY <1>2 DEF Reload, Busy, places
  <2>2. CASE lane[l].id \in DOMAIN file["cron"]
    <3>1. /\ lane' = [lane EXCEPT ![l].pc = "save",
                       ![l].text = Changed(file["cron"], "edit", lane[l].id, lane[l].n)]
          /\ failed' = failed
      BY <1>2, <2>2 DEF Reload
    <3>2. lane[l] \in Call
      BY <1>0
    <3>3. /\ Busy' = Busy /\ \A k \in Busy \ {l} : lane'[k] = lane[k]
          /\ lane'[l].n = lane[l].n /\ lane'[l].doc = lane[l].doc
          /\ lane'[l].text = Changed(file["cron"], "edit", lane[l].id, lane[l].n)
      BY <1>0, <2>1, <3>1, <3>2 DEF Busy, Call
    <3>4. ASSUME NEW n PROVE Settled(n)' <=> Settled(n)
      BY <2>1, <3>1, <3>3 DEF Settled
    <3>5. \A i \in DOMAIN lane'[l].text :
            lane'[l].text[i] = lane[l].n \/ Settled(lane'[l].text[i])
      BY <3>3, ChangedEntries DEF Apart
    <3>6. \A k \in Busy' : lane'[k].doc = "cron" =>
            \A i \in DOMAIN lane'[k].text :
              \A n : n = lane'[k].text[i] => n = lane'[k].n \/ Settled(n)'
      BY <3>3, <3>4, <3>5 DEF Apart
    <3>7. \A id \in DOMAIN file'["cron"] : Settled(file["cron"][id])'
      BY <2>1, <3>4 DEF Apart
    <3>8. \A k \in Busy : lane'[k].n = lane[k].n
      BY <3>3
    <3>9. failed' \subseteq 1..ops' /\ \A k \in Busy' : lane'[k].n \in (1..ops') \ failed'
      BY <2>1, <3>1, <3>3, <3>8 DEF Apart
    <3>10. \A k, m \in Busy' : lane'[k].n = lane'[m].n => k = m
      BY <3>3, <3>8 DEF Apart
    <3> QED BY <3>6, <3>7, <3>9, <3>10 DEF Apart
  <2>3. CASE lane[l].id \notin DOMAIN file["cron"]
    BY <1>2, <2>1, <2>3, FailKeepsApart DEF Reload
  <2> QED BY <2>2, <2>3
<1>3. ASSUME NEW l \in Lanes, SaveCache(l) \/ PutOk(l) PROVE Apart'
  <2>1. UNCHANGED <<file, ops, failed>> /\ l \in Busy
        /\ \E p \in {"put", "write"} : lane' = [lane EXCEPT ![l].pc = p]
    BY <1>3 DEF SaveCache, PutOk, histories, Busy
  <2>2. lane[l] \in Call
    BY <1>0
  <2>3. /\ Busy' = Busy /\ \A k \in Busy \ {l} : lane'[k] = lane[k]
        /\ lane'[l].n = lane[l].n /\ lane'[l].doc = lane[l].doc /\ lane'[l].text = lane[l].text
    BY <1>0, <2>1, <2>2 DEF Busy, Call
  <2> QED BY <1>0, <2>1, <2>3, NothingWritten
<1>4. ASSUME NEW l \in Lanes, PutFail(l) PROVE Apart'
  <2>1. UNCHANGED <<file, ops>> /\ l \in Busy
    BY <1>4 DEF PutFail, Busy
  <2>2. CASE lane[l].tries < RetryMax
    <3>1. lane' = [lane EXCEPT ![l].tries = @ + 1] /\ failed' = failed
      BY <1>4, <2>2 DEF PutFail
    <3>2. lane[l] \in Call
      BY <1>0
    <3>3. /\ Busy' = Busy /\ \A k \in Busy \ {l} : lane'[k] = lane[k]
          /\ lane'[l].n = lane[l].n /\ lane'[l].doc = lane[l].doc /\ lane'[l].text = lane[l].text
      BY <1>0, <2>1, <3>1, <3>2 DEF Busy, Call
    <3> QED BY <1>0, <2>1, <3>1, <3>3, NothingWritten
  <2>3. CASE ~(lane[l].tries < RetryMax)
    BY <1>4, <2>1, <2>3, FailKeepsApart DEF PutFail
  <2> QED BY <2>2, <2>3
<1>5. ASSUME NEW l \in Lanes, WriteFile(l) PROVE Apart'
  <2>1. /\ l \in Busy /\ UNCHANGED <<ops, failed>>
        /\ file' = [file EXCEPT ![lane[l].doc] = lane[l].text]
        /\ lane' = [lane EXCEPT ![l] = Idle]
    BY <1>5 DEF WriteFile, Acknowledge, Busy
  <2>2. Busy' = Busy \ {l} /\ \A k \in Busy' : lane'[k] = lane[k]
    BY <1>0, <2>1 DEF Busy, Idle
  <2>3. ASSUME NEW n, Settled(n) PROVE Settled(n)'
    BY <2>1, <2>2, <2>3 DEF Settled
  <2>4. \A n : n = lane[l].n => Settled(n)'
    BY <2>1, <2>2 DEF Settled, Apart
  <2>5. file'["cron"] = IF lane[l].doc = "cron" THEN lane[l].text ELSE file["cron"]
    BY <1>0, <2>1
  <2>6. \A id \in DOMAIN file'["cron"] : \A n : n = file'["cron"][id] => Settled(n)'
    BY <2>1, <2>3, <2>4, <2>5 DEF Apart
  <2> QED BY <2>1, <2>2, <2>3, <2>6 DEF Apart
<1>6. ASSUME NEW l \in Lanes, WriteError(l) PROVE Apart'
  BY <1>6, FailKeepsApart DEF WriteError, Busy, places
<1>7. CASE EditFile
  <2>1. /\ UNCHANGED <<lane, failed>> /\ ops' = ops + 1
        /\ file' = [file EXCEPT !["memory"] = With(@, ops + 1, ops + 1)]
    BY <1>7 DEF EditFile
  <2>2. file'["cron"] = file["cron"]
    BY <1>0, <2>1
  <2> QED BY <1>0, <2>1, <2>2, NothingWritten DEF Busy
<1>8. CASE Crash \/ Restart
  <2>1. UNCHANGED <<file, ops, failed>> /\ lane' = [l \in Lanes |-> Idle]
    BY <1>8 DEF Crash, Restart, Down, histories
  <2>2. Busy' = {}
    BY <2>1 DEF Busy, Idle
  <2> QED BY <1>0, <2>1, <2>2, NothingWritten
<1>9. CASE Format
  <2>1. UNCHANGED <<lane, ops, failed>> /\ file'["cron"] = None
    BY <1>9 DEF Format
  <2> QED BY <1>0, <2>1, NothingWritten DEF Busy
<1>10. CASE ConfigPut \/ Config \/ TakeSnapshot \/ Boot \/ UNCHANGED vars
  <2>1. UNCHANGED <<lane, ops, failed, file>>
    BY <1>10 DEF ConfigPut, Config, ConfigPutOk, ConfigPutFail, ConfigSave, TakeSnapshot, Boot,
                 BootLocal, BootRestore, BootSnapshot, Booted, vars, places, histories
  <2> QED BY <1>0, <2>1, NothingWritten DEF Busy
<1> QED
  BY <1>1, <1>2, <1>3, <1>4, <1>5, <1>6, <1>7, <1>8, <1>9, <1>10 DEF Next, Step

LEMMA ApartInit == Init => Apart
BY DEF Init, Apart, Busy, Idle, None

\* A change of a job that was reported as failed is in no later load, with
\* any number of threads, whatever bucket and flash answer and however often
\* the device restarts.
THEOREM FailedStaysOut == Spec => []FailedJobsStayOut
<1>1. Apart => FailedJobsStayOut
  BY DEF Apart, Settled, FailedJobsStayOut
<1> QED BY <1>1, TypedInit, TypedStep, ApartInit, ApartStep, PTL DEF Spec

-----------------------------------------------------------------------------
(* Acknowledged writes, with one thread.                                   *)

OneThread == \A k, l \in Lanes : k = l

\* A call that has put its text finds it in the bucket when it writes the
\* file; a device that is down runs no call.
PutIsThere ==
  /\ \A l \in Lanes : Cloud /\ lane[l].pc = "write" =>
       lane[l].doc \in DOMAIN bucket /\ bucket[lane[l].doc] = lane[l].text
  /\ ~up => Busy = {}

LEMMA PutIsThereStep ==
  ASSUME OneThread, Typed, PutIsThere, [Next]_vars PROVE PutIsThere'
<1>0. lane \in [Lanes -> Call]
  BY DEF Typed
<1>1. ASSUME NEW l \in Lanes, Load(l) PROVE PutIsThere'
  <2>1. lane'[l].pc # "write" /\ up /\ up' = up
    BY <1>0, <1>1 DEF Load
  <2> QED BY <2>1 DEF OneThread, PutIsThere
<1>2. ASSUME NEW l \in Lanes, Step(l) PROVE PutIsThere'
  <2>1. lane[l] \in Call
    BY <1>0
  <2>2. running' = running /\ up /\ up' = up
    BY <1>2 DEF Step, Reload, SaveCache, PutOk, PutFail, WriteFile, WriteError, configs
  <2>3. CASE PutOk(l)
    <3>1. /\ bucket' = With(bucket, lane[l].doc, lane[l].text)
          /\ lane' = [lane EXCEPT ![l].pc = "write"]
      BY <2>3 DEF PutOk
    <3>2. lane'[l].doc = lane[l].doc /\ lane'[l].text = lane[l].text
      BY <1>0, <2>1, <3>1 DEF Call
    <3> QED BY <2>2, <3>1, <3>2 DEF OneThread, PutIsThere, With
  <2>4. CASE ~PutOk(l)
    <3>1. CASE Reload(l)
      BY <1>0, <2>1, <3>1 DEF Reload, Fail, Idle, OneThread, PutIsThere, Call
    <3>2. CASE SaveCache(l)
      <4>1. Cloud => lane'[l].pc = "put"
        BY <1>0, <2>1, <3>2 DEF SaveCache, Call
      <4> QED BY <2>2, <4>1 DEF OneThread, PutIsThere, Cloud
    <3>3. CASE PutFail(l)
      <4>1. lane'[l].pc # "write"
        BY <1>0, <2>1, <3>3 DEF PutFail, Fail, Idle, Call
      <4> QED BY <2>2, <4>1 DEF OneThread, PutIsThere
    <3>4. CASE WriteFile(l) \/ WriteError(l)
      <4>1. lane'[l].pc # "write"
        BY <1>0, <3>4 DEF WriteFile, WriteError, Acknowledge, Fail, Idle
      <4> QED BY <2>2, <4>1 DEF OneThread, PutIsThere
    <3> QED BY <1>2, <2>4, <3>1, <3>2, <3>3, <3>4 DEF Step
  <2> QED BY <2>3, <2>4
<1>3. CASE Crash \/ Restart
  <2>1. \A l \in Lanes : lane'[l].pc = "idle"
    BY <1>3 DEF Crash, Restart, Down, Idle
  <2> QED BY <2>1 DEF PutIsThere, Busy
<1>4. CASE EditFile \/ ConfigPut \/ Config \/ TakeSnapshot \/ Format \/ UNCHANGED vars
  BY <1>4 DEF EditFile, ConfigPut, Config, ConfigPutOk, ConfigPutFail, ConfigSave, TakeSnapshot,
              Format, PutIsThere, vars, places, configs, Cloud, Busy
<1>5. CASE Boot
  <2>1. ~up /\ lane' = lane /\ up' = TRUE
    BY <1>5 DEF Boot, BootLocal, BootRestore, BootSnapshot, Booted
  <2>2. \A l \in Lanes : lane'[l].pc # "write"
    BY <2>1 DEF PutIsThere, Busy
  <2> QED BY <2>1, <2>2 DEF PutIsThere
<1> QED BY <1>1, <1>2, <1>3, <1>4, <1>5 DEF Next

\* With the one thread that the device has, a call that returns success has
\* left the same text in bucket and file.
THEOREM AckedIsDurable == ASSUME OneThread PROVE Spec => AckedIsInBucket
<1> DEFINE Acked ==
      \A l \in Lanes :
        Cloud /\ lane[l].pc = "write" /\ lane'[l].pc = "idle" /\ failed' = failed /\ up'
          => /\ lane[l].doc \in DOMAIN bucket'
             /\ bucket'[lane[l].doc] = file'[lane[l].doc]
<1>1. Init => PutIsThere
  BY DEF Init, PutIsThere, Idle
<1>2. Typed /\ Apart /\ PutIsThere /\ [Next]_vars => [Acked]_vars
  <2> SUFFICES ASSUME Typed, Apart, PutIsThere, Next,
                      NEW l \in Lanes, Cloud, lane[l].pc = "write", lane'[l].pc = "idle",
                      failed' = failed, up'
               PROVE  /\ lane[l].doc \in DOMAIN bucket'
                      /\ bucket'[lane[l].doc] = file'[lane[l].doc]
    OBVIOUS
  <2>0. lane \in [Lanes -> Call] /\ file \in [Doc -> Texts] /\ lane[l].doc \in Doc
    BY DEF Typed, Call
  <2>1. lane[l].n \notin failed
    BY DEF Apart, Busy
  <2>2. WriteFile(l)
    <3>1. CASE \E k \in Lanes : Load(k) \/ Step(k)
      <4>1. Load(l) \/ Step(l)
        BY <3>1 DEF OneThread
      <4> QED
        BY <2>0, <2>1, <4>1
           DEF Load, Step, Reload, SaveCache, PutOk, PutFail, WriteError, Fail
    <3>2. CASE Crash \/ Restart
      BY <3>2 DEF Crash, Restart, Down
    <3>3. CASE EditFile \/ ConfigPut \/ Config \/ TakeSnapshot \/ Format \/ Boot
      <4>1. lane' = lane
        BY <3>3 DEF EditFile, ConfigPut, Config, ConfigPutOk, ConfigPutFail, ConfigSave,
                    TakeSnapshot, Format, Boot, BootLocal, BootRestore, BootSnapshot, Booted
      <4> QED BY <4>1
    <3> QED BY <3>1, <3>2, <3>3 DEF Next
  <2> QED BY <2>0, <2>2 DEF WriteFile, PutIsThere
<1>3. Typed /\ Apart /\ PutIsThere /\ [Next]_vars => PutIsThere'
  BY PutIsThereStep
<1>4. AckedIsInBucket <=> [][Acked]_vars
  BY DEF AckedIsInBucket
<1> HIDE DEF Acked
<1> QED BY <1>1, <1>2, <1>3, <1>4, TypedInit, TypedStep, ApartInit, ApartStep, PTL DEF Spec

-----------------------------------------------------------------------------
(* Acknowledged entries, with one thread.                                  *)

\* The text t has every settled entry of k as k says.
Agrees(k, t) ==
  \A id \in DOMAIN k :
    IF k[id] = 0 THEN id \notin DOMAIN t ELSE id \in DOMAIN t /\ t[id] = k[id]

LEMMA AgreesOpen ==
  ASSUME NEW k, NEW t, Agrees(k, t), NEW id
  PROVE  /\ Agrees(Without(k, id), t) /\ id \notin DOMAIN Without(k, id)
         /\ \A op, n : Agrees(Without(k, id), Changed(t, op, id, n))
<1>1. Agrees(Without(k, id), t) /\ id \notin DOMAIN Without(k, id)
  BY DEF Agrees, Without
<1>2. ASSUME NEW op, NEW n PROVE Agrees(Without(k, id), Changed(t, op, id, n))
  <2>1. CASE op = "delete"
    BY <2>1 DEF Agrees, Changed, Without
  <2>2. CASE op # "delete"
    BY <2>2 DEF Agrees, Changed, With, Without
  <2> QED BY <2>1, <2>2
<1> QED BY <1>1, <1>2

LEMMA AgreesChanged ==
  ASSUME NEW k, NEW t, Agrees(k, t), NEW id, id \notin DOMAIN k, NEW op, NEW n
  PROVE  Agrees(k, Changed(t, op, id, n))
<1>1. CASE op = "delete"
  BY <1>1 DEF Agrees, Changed, Without
<1>2. CASE op # "delete"
  BY <1>2 DEF Agrees, Changed, With
<1> QED BY <1>1, <1>2

\* What a call has done to the entry it is about.
Done(c) == IF c.op = "delete" THEN c.id \notin DOMAIN c.text
           ELSE c.id \in DOMAIN c.text /\ c.text[c.id] = c.n

LEMMA ChangedDone ==
  ASSUME NEW t, NEW op, NEW id, NEW n
  PROVE  IF op = "delete" THEN id \notin DOMAIN Changed(t, op, id, n)
         ELSE id \in DOMAIN Changed(t, op, id, n) /\ Changed(t, op, id, n)[id] = n
<1>1. CASE op = "delete"
  BY <1>1 DEF Changed, Without
<1>2. CASE op # "delete"
  BY <1>2 DEF Changed, With
<1> QED BY <1>1, <1>2

LEMMA AgreesAcked ==
  ASSUME NEW k, NEW c, Agrees(k, c.text), Done(c), c.n # 0
  PROVE  Agrees(IF c.op = "delete" THEN With(k, c.id, 0) ELSE With(k, c.id, c.n), c.text)
<1>1. CASE c.op = "delete"
  BY <1>1 DEF Agrees, Done, With
<1>2. CASE c.op # "delete"
  BY <1>2 DEF Agrees, Done, With
<1> QED BY <1>1, <1>2

LEMMA AgreesBoth ==
  ASSUME NEW k, NEW t, Agrees(k, t), NEW id, NEW n, n # 0
  PROVE  Agrees(With(k, id, n), With(t, id, n))
BY DEF Agrees, With

\* Where memory is looked for.  A bucket is current while the device uses it;
\* a file that was lost is made up for by the cache.
MemoryHeld ==
  /\ "memory" \notin wiped => Agrees(kept["memory"], file["memory"])
  /\ Cloud /\ "memory" \in DOMAIN bucket => Agrees(kept["memory"], bucket["memory"])
  /\ up /\ Cloud /\ "memory" \in DOMAIN cache => Agrees(kept["memory"], cache["memory"])
  /\ up /\ "memory" \in wiped => Cloud /\ "memory" \in DOMAIN cache

\* Jobs are read from the file alone.
CronHeld == Agrees(kept["cron"], file["cron"])

CallHeld(c) ==
  /\ c.id \notin DOMAIN kept[c.doc] /\ Agrees(kept[c.doc], c.text) /\ Done(c) /\ c.n # 0
  /\ Cloud /\ c.pc \in {"put", "write"} => c.doc \in DOMAIN cache /\ cache[c.doc] = c.text
  /\ Cloud /\ c.pc = "write" => c.doc \in DOMAIN bucket /\ bucket[c.doc] = c.text

AllHeld ==
  /\ "memory" \notin detour => MemoryHeld
  /\ "cron" \notin detour => CronHeld
  /\ \A l \in Lanes : lane[l].pc # "idle" =>
       /\ up
       /\ lane[l].pc = "reload" => lane[l].doc = "cron" /\ lane[l].op = "edit"
       /\ lane[l].doc \notin detour => CallHeld(lane[l])
  /\ DOMAIN kept = Doc

LEMMA HeldInit == Init => AllHeld
<1> SUFFICES ASSUME Init PROVE AllHeld
  OBVIOUS
<1>1. \A t : Agrees(None, t)
  BY DEF Agrees, None
<1>2. /\ kept["memory"] = None /\ kept["cron"] = None /\ DOMAIN kept = Doc
      /\ wiped = {} /\ \A l \in Lanes : lane[l].pc = "idle"
  BY DEF Init, Doc, Idle
<1> QED BY <1>1, <1>2 DEF AllHeld, MemoryHeld, CronHeld

\* Nothing that matters is read or written.
LEMMA HeldStill ==
  ASSUME AllHeld,
         UNCHANGED <<cache, bucket, file, up, running, kept, wiped, detour>>,
         lane' = lane \/ \A l \in Lanes : lane'[l].pc = "idle"
  PROVE  AllHeld'
<1>1. ("memory" \notin detour => MemoryHeld)' /\ ("cron" \notin detour => CronHeld)'
  BY DEF AllHeld, MemoryHeld, CronHeld, Cloud
<1>2. CASE lane' = lane
  BY <1>1, <1>2 DEF AllHeld, CallHeld, Cloud
<1>3. CASE \A l \in Lanes : lane'[l].pc = "idle"
  BY <1>1, <1>3 DEF AllHeld
<1> QED BY <1>2, <1>3

LEMMA HeldLoad ==
  ASSUME OneThread, Typed, AllHeld, NEW l \in Lanes, Load(l)
  PROVE  AllHeld'
<1>1. PICK d \in Doc, op \in {"add", "edit", "delete"}, id \in Op :
         /\ lane' = [lane EXCEPT ![l] =
              [pc |-> IF d = "cron" /\ op = "edit" THEN "reload" ELSE "save",
               doc |-> d, op |-> op, id |-> id, n |-> ops + 1,
               text |-> Changed(Read(d), op, id, ops + 1), tries |-> 0]]
         /\ kept' = [kept EXCEPT ![d] = Without(@, id)]
  BY DEF Load
<1>2. /\ up /\ UNCHANGED <<cache, bucket, file, up, running, wiped, detour>>
      /\ \A k \in Lanes : k = l
      /\ DOMAIN kept = Doc /\ "memory" \in Doc /\ "cron" \in Doc
  BY DEF Load, places, configs, OneThread, AllHeld, Doc
<1>3. ASSUME NEW e \in Doc, NEW t, Agrees(kept[e], t) PROVE Agrees(kept'[e], t)
  <2>1. kept'[e] = IF e = d THEN Without(kept[e], id) ELSE kept[e]
    BY <1>1, <1>2
  <2> QED BY <1>3, <2>1, AgreesOpen
<1>4. "memory" \notin detour => MemoryHeld'
  BY <1>2, <1>3 DEF AllHeld, MemoryHeld, Cloud
<1>5. "cron" \notin detour => CronHeld'
  BY <1>2, <1>3 DEF AllHeld, CronHeld
<1>6. ASSUME d \notin detour PROVE CallHeld(lane[l])'
  <2>1. Agrees(kept[d], Read(d))
    <3>1. CASE d = "memory"
      BY <1>2, <1>6, <3>1 DEF AllHeld, MemoryHeld, Read
    <3>2. CASE d = "cron"
      BY <1>6, <3>2 DEF AllHeld, CronHeld, Read
    <3> QED BY <3>1, <3>2 DEF Doc
  <2> DEFINE t == Changed(Read(d), op, id, ops + 1)
  <2>2. kept'[d] = Without(kept[d], id)
    BY <1>1, <1>2
  <2>3. Agrees(kept'[d], t) /\ id \notin DOMAIN kept'[d]
    BY <2>1, <2>2, AgreesOpen
  <2>4. IF op = "delete" THEN id \notin DOMAIN t ELSE id \in DOMAIN t /\ t[id] = ops + 1
    BY ChangedDone
  <2>5. ops + 1 # 0
    BY DEF Typed
  <2> HIDE DEF t
  <2>6. /\ lane'[l].doc = d /\ lane'[l].op = op /\ lane'[l].id = id /\ lane'[l].n = ops + 1
        /\ lane'[l].text = t /\ lane'[l].pc \notin {"put", "write"}
    BY <1>1 DEF Typed, t
  <2>7. Done(lane'[l])
    BY <2>4, <2>6 DEF Done
  <2> QED BY <2>3, <2>5, <2>6, <2>7 DEF CallHeld
<1>7. lane'[l].doc = d /\ (lane'[l].pc = "reload" => d = "cron" /\ lane'[l].op = "edit")
  BY <1>1 DEF Typed
<1>8. DOMAIN kept' = Doc
  BY <1>1, <1>2
<1> QED BY <1>2, <1>4, <1>5, <1>6, <1>7, <1>8 DEF AllHeld

\* A step of a call that leaves kept alone, and the call it goes on with.
LEMMA HeldCall ==
  ASSUME OneThread, Typed, AllHeld, NEW l \in Lanes, lane[l].pc # "idle",
         UNCHANGED <<file, up, running, kept, wiped, detour>>,
         \/ lane'[l].pc = "idle"
         \/ lane'[l].doc = lane[l].doc /\ lane'[l].pc # "reload",
         lane'[l].pc # "idle" /\ lane[l].doc \notin detour => CallHeld(lane[l])',
         cache' = cache \/ cache' = With(cache, lane[l].doc, lane[l].text),
         bucket' = bucket \/ bucket' = With(bucket, lane[l].doc, lane[l].text)
  PROVE  AllHeld'
<1>1. \A k \in Lanes : k = l
  BY DEF OneThread
<1>2. up /\ DOMAIN kept = Doc
  BY DEF AllHeld
<1>3. ASSUME "memory" \notin detour PROVE MemoryHeld'
  <2>1. MemoryHeld /\ (lane[l].doc = "memory" => Agrees(kept["memory"], lane[l].text))
    BY <1>3 DEF AllHeld, CallHeld
  <2>2. \A s, d, t : /\ "memory" \in DOMAIN s => "memory" \in DOMAIN With(s, d, t)
                     /\ d = "memory" => With(s, d, t)["memory"] = t
                     /\ d # "memory" /\ "memory" \in DOMAIN With(s, d, t) =>
                          "memory" \in DOMAIN s /\ With(s, d, t)["memory"] = s["memory"]
    BY DEF With
  <2>3. Cloud /\ "memory" \in DOMAIN bucket' => Agrees(kept["memory"], bucket'["memory"])
    BY <2>1, <2>2 DEF MemoryHeld
  <2>4. Cloud /\ "memory" \in DOMAIN cache' => Agrees(kept["memory"], cache'["memory"])
    BY <1>2, <2>1, <2>2 DEF MemoryHeld
  <2>5. "memory" \in DOMAIN cache => "memory" \in DOMAIN cache'
    BY <2>2
  <2> QED BY <1>2, <2>1, <2>3, <2>4, <2>5 DEF MemoryHeld, Cloud
<1>4. "cron" \notin detour => CronHeld'
  BY DEF AllHeld, CronHeld
<1> QED BY <1>1, <1>2, <1>3, <1>4 DEF AllHeld

LEMMA HeldStep ==
  ASSUME OneThread, Typed, AllHeld, NEW l \in Lanes, Step(l)
  PROVE  AllHeld'
<1>0. /\ lane \in [Lanes -> Call] /\ lane[l] \in Call /\ lane[l].pc # "idle"
      /\ lane[l].doc \in Doc /\ \A k \in Lanes : k = l
      /\ UNCHANGED <<up, running, detour>> /\ up /\ DOMAIN kept = Doc
  BY DEF Typed, Step, Reload, SaveCache, PutOk, PutFail, WriteFile, WriteError, Call,
         configs, histories, OneThread, AllHeld
<1>1. lane[l].doc \notin detour => CallHeld(lane[l])
  BY <1>0 DEF AllHeld
<1>2. CASE Reload(l)
  <2>1. UNCHANGED <<cache, bucket, file, kept, wiped>>
    BY <1>2 DEF Reload, places
  <2> DEFINE t == Changed(file["cron"], "edit", lane[l].id, lane[l].n)
  <2>2. CASE lane[l].id \in DOMAIN file["cron"]
    <3>1. lane' = [lane EXCEPT ![l].pc = "save", ![l].text = t]
      BY <1>2, <2>2 DEF Reload
    <3>2. /\ lane'[l].pc = "save" /\ lane'[l].doc = lane[l].doc /\ lane'[l].text = t
          /\ lane'[l].op = lane[l].op /\ lane'[l].id = lane[l].id /\ lane'[l].n = lane[l].n
      BY <1>0, <3>1 DEF Call
    <3>3. ASSUME lane[l].doc \notin detour PROVE CallHeld(lane[l])'
      <4>1. lane[l].doc = "cron" /\ lane[l].op = "edit"
        BY <1>0, <1>2 DEF AllHeld, Reload
      <4>2. Agrees(kept["cron"], file["cron"]) /\ lane[l].id \notin DOMAIN kept["cron"]
        BY <1>1, <3>3, <4>1 DEF AllHeld, CronHeld, CallHeld
      <4>3. Agrees(kept["cron"], t)
        BY <4>2, AgreesChanged
      <4>4. lane[l].id \in DOMAIN t /\ t[lane[l].id] = lane[l].n
        BY ChangedDone
      <4> HIDE DEF t
      <4>5. Done(lane'[l])
        BY <3>2, <4>1, <4>4 DEF Done
      <4> QED BY <1>1, <2>1, <3>2, <3>3, <4>1, <4>2, <4>3, <4>5 DEF CallHeld
    <3> QED BY <1>0, <2>1, <3>2, <3>3, HeldCall
  <2>3. CASE lane[l].id \notin DOMAIN file["cron"]
    <3>1. lane'[l].pc = "idle"
      BY <1>0, <1>2, <2>3 DEF Reload, Fail, Idle
    <3> QED BY <1>0, <2>1, <3>1, HeldCall
  <2> QED BY <2>2, <2>3
<1>3. CASE SaveCache(l)
  <2>1. /\ UNCHANGED <<bucket, file, kept, wiped>>
        /\ lane' = [lane EXCEPT ![l].pc = IF Cloud THEN "put" ELSE "write"]
        /\ cache' = IF Cloud THEN With(cache, lane[l].doc, lane[l].text) ELSE cache
    BY <1>3 DEF SaveCache, histories
  <2>2. /\ lane'[l].pc = IF Cloud THEN "put" ELSE "write"
        /\ lane'[l].doc = lane[l].doc /\ lane'[l].text = lane[l].text
        /\ lane'[l].op = lane[l].op /\ lane'[l].id = lane[l].id /\ lane'[l].n = lane[l].n
    BY <1>0, <2>1 DEF Call
  <2>3. Cloud => lane[l].doc \in DOMAIN cache' /\ cache'[lane[l].doc] = lane[l].text
    BY <2>1 DEF With
  <2>4. lane[l].doc \notin detour => CallHeld(lane[l])'
    BY <1>0, <1>1, <2>1, <2>2, <2>3 DEF CallHeld, Done, Cloud
  <2> QED BY <1>0, <2>1, <2>2, <2>4, HeldCall
<1>4. CASE PutOk(l)
  <2>1. /\ UNCHANGED <<cache, file, kept, wiped>>
        /\ lane' = [lane EXCEPT ![l].pc = "write"]
        /\ bucket' = With(bucket, lane[l].doc, lane[l].text)
        /\ lane[l].pc = "put"
    BY <1>4 DEF PutOk, histories
  <2>2. /\ lane'[l].pc = "write"
        /\ lane'[l].doc = lane[l].doc /\ lane'[l].text = lane[l].text
        /\ lane'[l].op = lane[l].op /\ lane'[l].id = lane[l].id /\ lane'[l].n = lane[l].n
    BY <1>0, <2>1 DEF Call
  <2>3. lane[l].doc \in DOMAIN bucket' /\ bucket'[lane[l].doc] = lane[l].text
    BY <2>1 DEF With
  <2>4. lane[l].doc \notin detour => CallHeld(lane[l])'
    BY <1>0, <1>1, <2>1, <2>2, <2>3 DEF CallHeld, Done, Cloud
  <2> QED BY <1>0, <2>1, <2>2, <2>4, HeldCall
<1>5. CASE PutFail(l)
  <2>1. /\ UNCHANGED <<cache, file, kept, wiped>>
        /\ bucket' = bucket \/ bucket' = With(bucket, lane[l].doc, lane[l].text)
        /\ lane[l].pc = "put"
    BY <1>5 DEF PutFail, Fail
  <2>2. CASE lane[l].tries < RetryMax
    <3>1. lane' = [lane EXCEPT ![l].tries = @ + 1]
      BY <1>5, <2>2 DEF PutFail
    <3>2. /\ lane'[l].pc = "put"
          /\ lane'[l].doc = lane[l].doc /\ lane'[l].text = lane[l].text
          /\ lane'[l].op = lane[l].op /\ lane'[l].id = lane[l].id /\ lane'[l].n = lane[l].n
      BY <1>0, <2>1, <3>1 DEF Call
    <3>3. lane[l].doc \notin detour => CallHeld(lane[l])'
      BY <1>0, <1>1, <2>1, <3>2 DEF CallHeld, Done, Cloud
    <3> QED BY <1>0, <2>1, <3>2, <3>3, HeldCall
  <2>3. CASE ~(lane[l].tries < RetryMax)
    <3>1. lane'[l].pc = "idle"
      BY <1>0, <1>5, <2>3 DEF PutFail, Fail, Idle
    <3> QED BY <1>0, <2>1, <3>1, HeldCall
  <2> QED BY <2>2, <2>3
<1>6. CASE WriteError(l)
  <2>1. UNCHANGED <<cache, bucket, file, kept, wiped>> /\ lane'[l].pc = "idle"
    BY <1>0, <1>6 DEF WriteError, Fail, Idle, places
  <2> QED BY <1>0, <2>1, HeldCall
<1>7. CASE WriteFile(l)
  <2> DEFINE d == lane[l].doc
             c == lane[l]
  <2>1. /\ UNCHANGED <<cache, bucket>> /\ wiped' = wiped \ {d}
        /\ file' = [file EXCEPT ![d] = c.text] /\ lane'[l].pc = "idle" /\ c.pc = "write"
        /\ kept' = [kept EXCEPT ![d] = IF c.op = "delete" THEN With(kept[d], c.id, 0)
                                       ELSE With(kept[d], c.id, c.n)]
    BY <1>0, <1>7 DEF WriteFile, Acknowledge, Idle
  <2>2. DOMAIN kept' = Doc /\ d \in Doc /\ file \in [Doc -> Texts]
    BY <1>0, <2>1 DEF Typed
  <2>3. file'[d] = c.text /\ \A e \in Doc : e # d => kept'[e] = kept[e] /\ file'[e] = file[e]
    BY <1>0, <2>1, <2>2
  <2>4. ASSUME d \notin detour PROVE Agrees(kept'[d], c.text)
    <3>1. CallHeld(c)
      BY <1>1, <2>4
    <3>2. Agrees(IF c.op = "delete" THEN With(kept[d], c.id, 0) ELSE With(kept[d], c.id, c.n),
                 c.text)
      BY <3>1, AgreesAcked DEF CallHeld
    <3> QED BY <1>0, <2>1, <3>2
  <2>5. "memory" \in Doc /\ "cron" \in Doc /\ Doc = {"memory", "cron"}
    BY DEF Doc
  <2>6. ASSUME "memory" \notin detour PROVE MemoryHeld'
    <3>1. MemoryHeld
      BY <2>6 DEF AllHeld
    <3>2. CASE d = "memory"
      <4>1. Cloud => /\ "memory" \in DOMAIN bucket /\ bucket["memory"] = c.text
                     /\ "memory" \in DOMAIN cache /\ cache["memory"] = c.text
        BY <1>1, <2>1, <2>6, <3>2 DEF CallHeld
      <4>2. Agrees(kept'["memory"], c.text)
        BY <2>4, <2>6, <3>2
      <4> QED BY <1>0, <2>1, <2>3, <3>2, <4>1, <4>2 DEF MemoryHeld, Cloud
    <3>3. CASE d # "memory"
      <4>1. kept'["memory"] = kept["memory"] /\ file'["memory"] = file["memory"]
        BY <2>3, <2>5, <3>3
      <4>2. "memory" \in wiped' <=> "memory" \in wiped
        BY <2>1, <3>3
      <4> HIDE DEF d, c
      <4> QED BY <1>0, <2>1, <3>1, <4>1, <4>2 DEF MemoryHeld, Cloud
    <3> QED BY <3>2, <3>3
  <2>7. ASSUME "cron" \notin detour PROVE CronHeld'
    BY <2>3, <2>4, <2>5, <2>7 DEF AllHeld, CronHeld
  <2> QED BY <1>0, <2>1, <2>2, <2>6, <2>7 DEF AllHeld
<1> QED BY <1>2, <1>3, <1>4, <1>5, <1>6, <1>7 DEF Step

LEMMA HeldEdit == ASSUME OneThread, Typed, AllHeld, EditFile PROVE AllHeld'
<1>1. /\ file' = [file EXCEPT !["memory"] = With(@, ops + 1, ops + 1)]
      /\ kept' = [kept EXCEPT !["memory"] = With(@, ops + 1, ops + 1)]
      /\ detour' = IF Cloud \/ \E l \in Lanes : lane[l].pc # "idle"
                   THEN detour \cup {"memory"} ELSE detour
      /\ UNCHANGED <<cache, bucket, lane, up, running, wiped>> /\ up
  BY DEF EditFile, configs
<1>2. /\ DOMAIN kept = Doc /\ DOMAIN kept' = Doc /\ file \in [Doc -> Texts]
      /\ "memory" \in Doc /\ "cron" \in Doc /\ ops + 1 # 0
  BY <1>1 DEF AllHeld, Typed, Doc
<1>3. /\ file'["memory"] = With(file["memory"], ops + 1, ops + 1)
      /\ kept'["memory"] = With(kept["memory"], ops + 1, ops + 1)
      /\ file'["cron"] = file["cron"] /\ kept'["cron"] = kept["cron"]
      /\ "cron" \notin detour' <=> "cron" \notin detour
      /\ "memory" \notin detour' => "memory" \notin detour
  BY <1>1, <1>2
<1>4. ASSUME "memory" \notin detour' PROVE MemoryHeld'
  <2>1. ~Cloud /\ MemoryHeld
    BY <1>1, <1>3, <1>4 DEF AllHeld
  <2>2. Agrees(kept["memory"], file["memory"]) =>
          Agrees(kept'["memory"], file'["memory"])
    BY <1>2, <1>3, AgreesBoth
  <2> QED BY <1>1, <2>1, <2>2 DEF MemoryHeld, Cloud
<1>5. ("cron" \notin detour => CronHeld)'
  BY <1>3 DEF AllHeld, CronHeld
<1>6. ASSUME NEW l \in Lanes, lane[l].pc # "idle", lane[l].doc \notin detour'
      PROVE  CallHeld(lane[l])'
  <2>1. "memory" \in detour' /\ lane[l].doc \in Doc
    BY <1>1, <1>6 DEF Typed, Call
  <2>2. lane[l].doc = "cron"
    BY <1>6, <2>1 DEF Doc
  <2>3. CallHeld(lane[l])
    BY <1>3, <1>6, <2>2 DEF AllHeld
  <2> QED BY <1>1, <1>3, <2>2, <2>3 DEF CallHeld, Done, Cloud
<1> QED BY <1>1, <1>2, <1>4, <1>5, <1>6 DEF AllHeld

LEMMA HeldFormat == ASSUME Typed, AllHeld, Format PROVE AllHeld'
<1>1. /\ UNCHANGED <<bucket, cache, lane, up, running, kept>> /\ ~up
      /\ wiped' = Doc /\ detour' = detour \cup {"cron"}
  BY DEF Format, configs
<1>2. "memory" \in wiped'
  BY <1>1 DEF Doc
<1>3. ("memory" \notin detour => MemoryHeld)'
  BY <1>1, <1>2 DEF AllHeld, MemoryHeld, Cloud
<1>4. \A l \in Lanes : lane'[l].pc = "idle"
  BY <1>1 DEF AllHeld
<1> QED BY <1>1, <1>3, <1>4 DEF AllHeld

\* A boot that adds every document it may bring up behind its last save.
LEMMA HeldBoot == ASSUME Typed, AllHeld, Boot PROVE AllHeld'
<1>1. /\ UNCHANGED <<bucket, file, lane, kept, wiped>> /\ ~up
      /\ running' = IF nvs = "malformed" THEN "local" ELSE nvs
  BY DEF Boot, BootLocal, BootRestore, BootSnapshot, Booted
<1>2. \A l \in Lanes : lane'[l].pc = "idle"
  BY <1>1 DEF AllHeld
<1>3. detour \subseteq detour'
  BY DEF Boot, BootLocal, BootRestore, BootSnapshot
<1>4. ("cron" \notin detour => CronHeld)'
  BY <1>1, <1>3 DEF AllHeld, CronHeld
<1>5. ASSUME "memory" \notin detour' PROVE MemoryHeld'
  <2>0. MemoryHeld
    BY <1>3, <1>5 DEF AllHeld
  <2>1. CASE BootLocal
    <3>1. ~Cloud' /\ "memory" \notin wiped
      BY <1>1, <1>5, <2>1 DEF BootLocal, Cloud, HasBucket
    <3> QED BY <1>1, <2>0, <3>1 DEF MemoryHeld
  <2>2. CASE BootRestore
    <3>1. PICK got \in SUBSET DOMAIN bucket : cache' = [d \in got |-> bucket[d]]
      BY <2>2 DEF BootRestore
    <3>2. Cloud' /\ Cloud /\ ("memory" \in wiped => "memory" \in DOMAIN cache')
      BY <1>1, <1>5, <2>2 DEF BootRestore, BehindAfterRestore, Cloud, HasBucket
    <3>3. "memory" \in DOMAIN cache' =>
            "memory" \in DOMAIN bucket /\ cache'["memory"] = bucket["memory"]
      BY <3>1
    <3> QED BY <1>1, <2>0, <3>2, <3>3 DEF MemoryHeld
  <2>3. CASE BootSnapshot
    BY <1>5, <2>3 DEF BootSnapshot
  <2> QED BY <2>1, <2>2, <2>3 DEF Boot
<1> QED BY <1>1, <1>2, <1>4, <1>5 DEF AllHeld

LEMMA HeldDown == ASSUME Typed, AllHeld, Crash \/ Restart PROVE AllHeld'
<1>1. /\ UNCHANGED <<bucket, file, running, kept, wiped, detour>> /\ ~up'
      /\ \A l \in Lanes : lane'[l].pc = "idle"
  BY DEF Crash, Restart, Down, histories, Idle
<1>2. ("memory" \notin detour => MemoryHeld)'
  BY <1>1 DEF AllHeld, MemoryHeld, Cloud
<1>3. ("cron" \notin detour => CronHeld)'
  BY <1>1 DEF AllHeld, CronHeld
<1> QED BY <1>1, <1>2, <1>3 DEF AllHeld

LEMMA HeldNext == ASSUME OneThread, Typed, AllHeld, [Next]_vars PROVE AllHeld'
<1>1. CASE ConfigPut \/ Config \/ TakeSnapshot \/ UNCHANGED vars
  <2>1. UNCHANGED <<cache, bucket, file, up, running, kept, wiped, detour, lane>>
    BY <1>1 DEF ConfigPut, Config, ConfigPutOk, ConfigPutFail, ConfigSave, TakeSnapshot, vars,
                places, histories, configs
  <2> QED BY <2>1, HeldStill
<1> QED BY <1>1, HeldLoad, HeldStep, HeldEdit, HeldDown, HeldFormat, HeldBoot DEF Next

\* With one thread, what a tool call said it saved or deleted is what the next
\* call reads, through failed calls, crashes, restarts, restores and changes of
\* configuration, as long as no boot and no edit put the place it reads behind.
THEOREM SavedIsRead == ASSUME OneThread PROVE Spec => []KeptWithoutDetour
<1>1. Typed /\ AllHeld => KeptWithoutDetour
  <2> SUFFICES ASSUME Typed, AllHeld, up, NEW d \in Doc, d \notin detour
               PROVE  Agrees(kept[d], Read(d))
    BY DEF KeptWithoutDetour, KeptIn, Agrees
  <2>1. CASE d = "memory"
    BY <2>1 DEF AllHeld, MemoryHeld, Read
  <2>2. CASE d = "cron"
    BY <2>2 DEF AllHeld, CronHeld, Read
  <2> QED BY <2>1, <2>2 DEF Doc
<1>2. AllHeld /\ Typed /\ [Next]_vars => AllHeld'
  BY HeldNext
<1> QED BY <1>1, <1>2, HeldInit, TypedInit, TypedStep, ApartInit, ApartStep, PTL DEF Spec

HIDE DocumentsAssumption DEF Doc, Op

-----------------------------------------------------------------------------
(* Cron: the job file and, in runs, the story of every job ever added.     *)

\* The types of schedules, jobs and stories.
Schedule == [kind : {"at", "every"}, at : Nat, anchor : Nat]
Job == [schedule : Schedule, next : Int, enabled : BOOLEAN, once : BOOLEAN,
        errors : 0..MaxErrors, serial : Nat]
Story == [ok : Nat, failures : Nat, last : Int, once : BOOLEAN, eased : BOOLEAN,
          removed : BOOLEAN, clashed : BOOLEAN, unsaved : BOOLEAN]

JobsTyped ==
  /\ runs \in Seq(Story)
  /\ DOMAIN jobs \subseteq Id
  /\ \A id \in DOMAIN jobs :
       jobs[id] \in Job /\ jobs[id].next >= Never /\ jobs[id].serial \in 1..Len(runs)

ClockTyped == now \in Time /\ counter \in 0..(TickEvery - 1) /\ due \subseteq Id

\* Ids may be used again, serials are not.
OneJobPerStory ==
  \A a, b \in DOMAIN jobs : jobs[a].serial = jobs[b].serial => a = b

\* A job that its story knows all about: it counts the failures in a row, and
\* it waits for the last of them until an update sets another time.
Told(j, r) ==
  ~r.unsaved =>
    /\ r.failures = j.errors
    /\ r.failures > 0 /\ ~r.eased /\ j.next # Never
         => j.next >= r.last + ErrorBackoff(r.failures)

\* At the limit of errors a job is disabled, and enabling it forgets them.
LimitStops == \A id \in DOMAIN jobs : jobs[id].enabled => jobs[id].errors < MaxErrors
CountsAgree == \A id \in DOMAIN jobs : Told(jobs[id], runs[jobs[id].serial])

SameOnce == \A id \in DOMAIN jobs : jobs[id].once = runs[jobs[id].serial].once

\* What JobsAccounted says of one story, if its job is present or not.
Account(r, present) ==
  ~r.unsaved /\ ~r.clashed =>
    /\ r.once => r.ok <= 1
    /\ present <=> ~(r.removed \/ (r.once /\ r.ok > 0))

JobsTold == OneJobPerStory /\ LimitStops /\ CountsAgree /\ SameOnce /\ JobsAccounted
CronInv == JobsTyped /\ ClockTyped /\ JobsTold

-----------------------------------------------------------------------------

\* Whole periods, rounded up.
LEMMA Periods ==
  ASSUME NEW a \in Nat, NEW n \in Nat, n >= 1
  PROVE  LET q == (a + n - 1) \div n
         IN q \in Nat /\ q * n >= a /\ q * n <= a + n - 1
<1> DEFINE q == (a + n - 1) \div n
<1>1. q \in Nat
  OBVIOUS
<1>2. q * n <= a + n - 1
  OBVIOUS
<1>3. q * n >= a
  OBVIOUS
<1> QED
  BY <1>1, <1>2, <1>3

\* The next run of a job at intervals: the least multiple that is not past.
LEMMA EveryIsLeast ==
  ASSUME NEW i \in Nat, NEW anchor \in Nat, NEW t \in Nat, t >= anchor
  PROVE  LET n == MaxOf(i, 1) IN
         \E k \in 1..(t - anchor + 1) :
           /\ ComputeNextRun(EveryFrom(i, anchor), t) = anchor + k * n
           /\ anchor + k * n \in Nat /\ anchor + k * n >= t
           /\ \A m \in Nat : m >= 1 /\ anchor + m * n >= t => anchor + k * n <= anchor + m * n
<1> DEFINE n == MaxOf(i, 1)
           a == t - anchor
           q == (a + n - 1) \div n
           k == MaxOf(q, 1)
<1>1. n \in Nat /\ n >= 1 /\ a \in Nat
  BY DEF MaxOf
<1>2. ComputeNextRun(EveryFrom(i, anchor), t) = anchor + k * n
  BY DEF ComputeNextRun, EveryFrom
<1>3. q \in Nat /\ q * n >= a /\ q * n <= a + n - 1
  <2> HIDE DEF n, a
  <2> QED
    BY <1>1, Periods
<1> HIDE DEF n, q
<1>4. k \in Nat /\ k >= 1 /\ k >= q /\ (k = q \/ k = 1)
  BY <1>3 DEF MaxOf
<1>5. k <= a + 1
  <2>1. CASE k = q /\ q >= a + 2
    <3>1. \A x, y \in Nat : x >= y /\ n >= 1 => x * n >= y * n
      BY <1>1
    <3>2. q * n >= (a + 2) * n
      BY <2>1, <1>1, <1>3, <3>1
    <3>3. (a + 2) * n = (a + 1) * n + n /\ (a + 1) * n >= a + 1
      BY <1>1
    <3> QED
      BY <1>1, <1>3, <3>2, <3>3
  <2> QED
    BY <1>1, <1>3, <1>4, <2>1
<1> HIDE DEF a, k
<1>6. k * n \in Nat /\ k * n >= q * n
  BY <1>1, <1>3, <1>4
<1>7. ASSUME NEW m \in Nat, m >= 1, m * n >= a PROVE k * n <= m * n
  <2>1. q <= m
    <3>1. CASE q >= m + 1
      <4>1. q * n >= (m + 1) * n
        BY <1>1, <1>3, <3>1
      <4>2. (m + 1) * n = m * n + n
        BY <1>1
      <4> QED
        BY <1>1, <1>3, <1>7, <4>1, <4>2
    <3> QED
      BY <1>3, <3>1
  <2>2. k <= m
    BY <2>1, <1>3, <1>4, <1>7
  <2> QED
    BY <2>2, <1>1, <1>4
<1>8. k \in 1..(t - anchor + 1)
  BY <1>4, <1>5 DEF a
<1>9. anchor + k * n \in Nat /\ anchor + k * n >= t
  <2>1. q * n >= a /\ k * n \in Nat /\ k * n >= a
    BY <1>1, <1>3, <1>6
  <2> QED
    BY <2>1 DEF a
<1>10. \A m \in Nat : m >= 1 /\ anchor + m * n >= t => anchor + k * n <= anchor + m * n
  <2> TAKE m \in Nat
  <2> HAVE m >= 1 /\ anchor + m * n >= t
  <2>1. m * n \in Nat /\ m * n >= a
    BY <1>1 DEF a
  <2>2. k * n <= m * n
    BY <1>7, <2>1
  <2> QED
    BY <1>6, <2>1, <2>2
<1> QED
  BY <1>2, <1>8, <1>9, <1>10 DEF n

\* A next run is an instant or Never, whatever the schedule.
LEMMA NextRunTyped ==
  ASSUME NEW s \in Schedule, NEW t \in Nat
  PROVE  ComputeNextRun(s, t) \in Int /\ ComputeNextRun(s, t) >= Never
<1>1. s.kind \in {"at", "every"} /\ s.at \in Nat /\ s.anchor \in Nat
  BY DEF Schedule
<1>2. CASE s.kind = "at"
  BY <1>1, <1>2 DEF ComputeNextRun, Never
<1>3. CASE s.kind # "at" /\ t < s.anchor
  BY <1>1, <1>3 DEF ComputeNextRun, Never
<1>4. CASE s.kind # "at" /\ t >= s.anchor
  <2>1. ComputeNextRun(s, t) = ComputeNextRun(EveryFrom(s.at, s.anchor), t)
    BY <1>1, <1>4 DEF ComputeNextRun, EveryFrom
  <2>2. \A i, anchor \in Nat : t >= anchor => ComputeNextRun(EveryFrom(i, anchor), t) \in Nat
    BY EveryIsLeast
  <2>3. ComputeNextRun(EveryFrom(s.at, s.anchor), t) \in Nat
    BY <1>1, <1>4, <2>2
  <2> QED
    BY <2>1, <2>3 DEF Never
<1> QED
  BY <1>1, <1>2, <1>3, <1>4

LEMMA BackoffTyped ==
  \A e \in Nat : ErrorBackoff(e) \in Nat
BY CronAssumption DEF ErrorBackoff

LEMMA SchedulesTyped ==
  now \in Nat => Schedules \subseteq Schedule
BY CronAssumption DEF Schedules, Schedule, AtTime, EveryFrom

-----------------------------------------------------------------------------

\* The three ways in which a step changes the file and the stories: one story
\* changes; its job goes, is changed, or a new one comes.
LEMMA StoryChanged ==
  ASSUME runs \in Seq(Story), NEW n \in 1..Len(runs), NEW r \in Story,
         runs' = [runs EXCEPT ![n] = r]
  PROVE  /\ runs' \in Seq(Story) /\ Len(runs') = Len(runs)
         /\ runs'[n] = r
         /\ \A m \in 1..Len(runs) : m # n => runs'[m] = runs[m]
OBVIOUS

LEMMA CronInitially == CronInit => CronInv
BY CronAssumption DEF CronInit, CronInv, JobsTyped, ClockTyped, JobsTold, OneJobPerStory,
   LimitStops, CountsAgree, SameOnce, JobsAccounted, Time

LEMMA TickPreserves == ASSUME CronInv, Tick PROVE CronInv'
<1>1. JobsTyped' /\ JobsTold'
  BY DEF CronInv, Tick, JobsTyped, JobsTold, OneJobPerStory, LimitStops, CountsAgree, Told,
     SameOnce, JobsAccounted
<1>2. ClockTyped'
  BY CronAssumption DEF CronInv, Tick, ClockTyped, JobsTyped, Time
<1> QED
  BY <1>1, <1>2 DEF CronInv


LEMMA JobDropped ==
  ASSUME JobsTyped, JobsTold, NEW id \in DOMAIN jobs, NEW r \in Story,
         DOMAIN jobs' = DOMAIN jobs \ {id},
         \A x \in DOMAIN jobs' : jobs'[x] = jobs[x],
         Account(r, FALSE),
         runs' = [runs EXCEPT ![jobs[id].serial] = r]
  PROVE  JobsTyped' /\ JobsTold'
<1> PICK m \in 1..Len(runs) : m = jobs[id].serial
  BY DEF JobsTyped
<1>1. DOMAIN jobs' = DOMAIN jobs \ {id} /\ \A x \in DOMAIN jobs' : jobs'[x] = jobs[x]
  OBVIOUS
<1>2. /\ runs' \in Seq(Story) /\ Len(runs') = Len(runs) /\ runs'[m] = r
      /\ \A n \in 1..Len(runs) : n # m => runs'[n] = runs[n]
  BY StoryChanged DEF JobsTyped
<1>3. \A x \in DOMAIN jobs' : jobs[x].serial \in 1..Len(runs) /\ jobs[x].serial # m
  BY <1>1 DEF JobsTyped, JobsTold, OneJobPerStory
<1>4. JobsTyped'
  BY <1>1, <1>2 DEF JobsTyped
<1>5. OneJobPerStory' /\ LimitStops'
  BY <1>1 DEF JobsTold, OneJobPerStory, LimitStops
<1>6. CountsAgree' /\ SameOnce'
  BY <1>1, <1>2, <1>3 DEF JobsTold, CountsAgree, SameOnce
<1>7. JobsAccounted'
  <2>1. \A n \in 1..Len(runs) : n # m =>
          ((\E x \in DOMAIN jobs' : jobs'[x].serial = n)
             <=> (\E x \in DOMAIN jobs : jobs[x].serial = n))
    BY <1>1
  <2>2. ~\E x \in DOMAIN jobs' : jobs'[x].serial = m
    BY <1>1, <1>3
  <2>3. JobsAccounted
    BY DEF JobsTold
  <2>4. \A n \in 1..Len(runs') : Account(runs'[n], \E x \in DOMAIN jobs' : jobs'[x].serial = n)
    BY <1>2, <2>1, <2>2, <2>3 DEF JobsAccounted, Account
  <2> QED
    BY <2>4 DEF JobsAccounted, Account
<1> QED
  BY <1>4, <1>5, <1>6, <1>7 DEF JobsTold

LEMMA JobChanged ==
  ASSUME JobsTyped, JobsTold, NEW id \in DOMAIN jobs,
         NEW j \in Job, j.next >= Never, j.serial = jobs[id].serial,
         j.enabled => j.errors < MaxErrors,
         NEW r \in Story, Told(j, r),
         DOMAIN jobs' = DOMAIN jobs, jobs'[id] = j,
         \A x \in DOMAIN jobs : x # id => jobs'[x] = jobs[x],
         j.once = jobs[id].once, r.once = runs[jobs[id].serial].once, Account(r, TRUE),
         runs' = [runs EXCEPT ![jobs[id].serial] = r]
  PROVE  JobsTyped' /\ JobsTold'
<1> PICK m \in 1..Len(runs) : m = jobs[id].serial
  BY DEF JobsTyped
<1>1. /\ DOMAIN jobs' = DOMAIN jobs /\ jobs'[id] = j
      /\ \A x \in DOMAIN jobs : x # id => jobs'[x] = jobs[x]
  OBVIOUS
<1>2. /\ runs' \in Seq(Story) /\ Len(runs') = Len(runs) /\ runs'[m] = r
      /\ \A n \in 1..Len(runs) : n # m => runs'[n] = runs[n]
  BY StoryChanged DEF JobsTyped
<1>3. \A x \in DOMAIN jobs : /\ jobs[x].serial \in 1..Len(runs)
                             /\ x # id => jobs[x].serial # m
  BY DEF JobsTyped, JobsTold, OneJobPerStory
<1>4. \A x \in DOMAIN jobs : jobs'[x].serial = jobs[x].serial
  BY <1>1
<1>5. JobsTyped'
  BY <1>1, <1>2 DEF JobsTyped
<1>6. OneJobPerStory'
  BY <1>1, <1>4 DEF JobsTold, OneJobPerStory
<1>7. LimitStops'
  BY <1>1 DEF JobsTold, LimitStops
<1>8. CountsAgree' /\ SameOnce'
  BY <1>1, <1>2, <1>3 DEF JobsTold, CountsAgree, SameOnce
<1>9. JobsAccounted'
  <2>1. \A n \in 1..Len(runs) :
          (\E x \in DOMAIN jobs' : jobs'[x].serial = n)
            <=> (\E x \in DOMAIN jobs : jobs[x].serial = n)
    BY <1>1, <1>4
  <2>2. \E x \in DOMAIN jobs' : jobs'[x].serial = m
    BY <1>1, <1>4
  <2>3. JobsAccounted
    BY DEF JobsTold
  <2>4. \A n \in 1..Len(runs') : Account(runs'[n], \E x \in DOMAIN jobs' : jobs'[x].serial = n)
    BY <1>2, <2>1, <2>2, <2>3 DEF JobsAccounted, Account
  <2> QED
    BY <2>4 DEF JobsAccounted, Account
<1> QED
  BY <1>5, <1>6, <1>7, <1>8, <1>9 DEF JobsTold

\* The stories after the job id is put in, perhaps in the place of another.
Marked(marked, id) ==
  \A n \in 1..Len(runs) :
    /\ marked[n].failures = runs[n].failures /\ marked[n].last = runs[n].last
    /\ marked[n].unsaved = runs[n].unsaved /\ marked[n].ok = runs[n].ok
    /\ marked[n].once = runs[n].once /\ marked[n].removed = runs[n].removed
    /\ marked[n].eased = runs[n].eased
    /\ marked[n].clashed <=> runs[n].clashed \/ (id \in DOMAIN jobs /\ jobs[id].serial = n)

LEMMA JobAdded ==
  ASSUME JobsTyped, JobsTold, NEW id \in Id,
         NEW j \in Job, j.next >= Never, j.serial = Len(runs) + 1, j.errors = 0,
         NEW r \in Story, r.failures = 0, r.ok = 0, ~r.removed, j.once = r.once,
         NEW marked \in Seq(Story), Len(marked) = Len(runs),
         Marked(marked, id),
         jobs' = With(jobs, id, j), runs' = Append(marked, r)
  PROVE  JobsTyped' /\ JobsTold'
<1>1. /\ DOMAIN jobs' = DOMAIN jobs \cup {id} /\ jobs'[id] = j
      /\ \A x \in DOMAIN jobs : x # id => jobs'[x] = jobs[x]
  BY DEF With
<1>2. /\ runs' \in Seq(Story) /\ Len(runs') = Len(runs) + 1 /\ runs'[Len(runs) + 1] = r
      /\ \A n \in 1..Len(runs) : runs'[n] = marked[n]
      /\ Len(runs) \in Nat
  BY DEF JobsTyped
<1>3. \A x \in DOMAIN jobs : jobs[x].serial \in 1..Len(runs)
  BY DEF JobsTyped
<1>4. JobsTyped'
  BY <1>1, <1>2 DEF JobsTyped
<1>5. OneJobPerStory'
  BY <1>1, <1>2, <1>3 DEF JobsTold, OneJobPerStory
<1>6. LimitStops'
  BY <1>1, CronAssumption DEF JobsTold, LimitStops
<1>7. CountsAgree'
  <2>1. Told(j, r)
    BY DEF Told
  <2>2. \A x \in DOMAIN jobs : Told(jobs[x], marked[jobs[x].serial])
    BY <1>3 DEF Told, JobsTold, CountsAgree, Marked
  <2> QED
    BY <1>1, <1>2, <1>3, <2>1, <2>2 DEF CountsAgree
<1>8. SameOnce'
  BY <1>1, <1>2, <1>3 DEF JobsTold, SameOnce, Marked
<1>9. JobsAccounted'
  <2>1. \A n \in 1..Len(runs) : ~marked[n].clashed =>
          ((\E x \in DOMAIN jobs' : jobs'[x].serial = n)
             <=> (\E x \in DOMAIN jobs : jobs[x].serial = n))
    BY <1>1, <1>2 DEF Marked
  <2>2. \E x \in DOMAIN jobs' : jobs'[x].serial = Len(runs) + 1
    BY <1>1
  <2>3. JobsAccounted
    BY DEF JobsTold
  <2>4. \A n \in 1..Len(runs) : Account(marked[n], \E x \in DOMAIN jobs' : jobs'[x].serial = n)
    BY <2>1, <2>3 DEF JobsAccounted, Account, Marked
  <2>5. Account(r, TRUE)
    BY DEF Account
  <2>6. \A n \in 1..Len(runs') : Account(runs'[n], \E x \in DOMAIN jobs' : jobs'[x].serial = n)
    BY <1>2, <2>2, <2>4, <2>5 DEF Account
  <2> QED
    BY <2>6 DEF JobsAccounted, Account
<1> QED
  BY <1>4, <1>5, <1>6, <1>7, <1>8, <1>9 DEF JobsTold

\* The story of a job in the file.
LEMMA Accounted ==
  ASSUME JobsTyped, JobsTold, NEW id \in DOMAIN jobs
  PROVE  LET r == runs[jobs[id].serial]
         IN r \in Story /\ Account(r, TRUE) /\ r.once = jobs[id].once
<1> DEFINE n == jobs[id].serial
<1>1. n \in 1..Len(runs) /\ runs[n] \in Story /\ runs[n].once = jobs[id].once
  BY DEF JobsTyped, JobsTold, SameOnce
<1>2. Account(runs[n], TRUE)
  BY <1>1 DEF JobsTold, JobsAccounted, Account
<1> QED
  BY <1>1, <1>2

LEMMA RemovePreserves == ASSUME CronInv, Remove PROVE CronInv'
<1> PICK id \in DOMAIN jobs :
      /\ jobs' = Without(jobs, id)
      /\ runs' = [runs EXCEPT ![jobs[id].serial].removed = TRUE]
      /\ UNCHANGED <<now, counter, due>>
  BY DEF Remove
<1> DEFINE r == [runs[jobs[id].serial] EXCEPT !.removed = TRUE]
<1>1. r \in Story /\ Account(r, FALSE)
  <2>1. runs[jobs[id].serial] \in Story /\ Account(runs[jobs[id].serial], TRUE)
    BY Accounted DEF CronInv
  <2>2. r \in Story
    BY ONLY <2>1 DEF Story
  <2>3. Account(r, FALSE)
    BY ONLY <2>1 DEF Story, Account
  <2> QED
    BY <2>2, <2>3
<1>2. runs' = [runs EXCEPT ![jobs[id].serial] = r]
  OBVIOUS
<1> HIDE DEF r
<1>3. DOMAIN jobs' = DOMAIN jobs \ {id} /\ \A x \in DOMAIN jobs' : jobs'[x] = jobs[x]
  BY DEF Without
<1>4. JobsTyped' /\ JobsTold'
  BY <1>1, <1>2, <1>3, JobDropped DEF CronInv
<1>5. ClockTyped'
  BY DEF CronInv, ClockTyped
<1> QED
  BY <1>4, <1>5 DEF CronInv

LEMMA UpdatePreserves == ASSUME CronInv, Update PROVE CronInv'
<1> PICK id \in DOMAIN jobs :
      \E s \in Schedules \cup {jobs[id].schedule}, enabled \in {"absent", "true", "false"} :
      /\ jobs' = [jobs EXCEPT ![id] =
            [jobs[id] EXCEPT !.schedule = s, !.next = ComputeNextRun(s, now),
                      !.enabled = enabled = "true" \/ (enabled = "absent" /\ jobs[id].enabled),
                      !.errors = IF enabled = "true" THEN 0 ELSE jobs[id].errors]]
      /\ runs' = [runs EXCEPT ![jobs[id].serial] =
            [runs[jobs[id].serial] EXCEPT
               !.failures = IF enabled = "true" THEN 0 ELSE runs[jobs[id].serial].failures,
               !.eased = TRUE]]
      /\ UNCHANGED <<now, counter, due>>
  BY DEF Update
<1> PICK s \in Schedules \cup {jobs[id].schedule}, enabled \in {"absent", "true", "false"} :
      /\ jobs' = [jobs EXCEPT ![id] =
            [jobs[id] EXCEPT !.schedule = s, !.next = ComputeNextRun(s, now),
                      !.enabled = enabled = "true" \/ (enabled = "absent" /\ jobs[id].enabled),
                      !.errors = IF enabled = "true" THEN 0 ELSE jobs[id].errors]]
      /\ runs' = [runs EXCEPT ![jobs[id].serial] =
            [runs[jobs[id].serial] EXCEPT
               !.failures = IF enabled = "true" THEN 0 ELSE runs[jobs[id].serial].failures,
               !.eased = TRUE]]
      /\ UNCHANGED <<now, counter, due>>
  OBVIOUS
<1> DEFINE n == jobs[id].serial
           on == enabled = "true" \/ (enabled = "absent" /\ jobs[id].enabled)
           e == IF enabled = "true" THEN 0 ELSE jobs[id].errors
           f == IF enabled = "true" THEN 0 ELSE runs[n].failures
           j == [jobs[id] EXCEPT !.schedule = s, !.next = ComputeNextRun(s, now),
                                 !.enabled = on, !.errors = e]
           r == [runs[n] EXCEPT !.failures = f, !.eased = TRUE]
<1>1. jobs[id] \in Job /\ jobs[id].schedule \in Schedule /\ now \in Nat /\ n \in 1..Len(runs)
  BY CronAssumption DEF CronInv, JobsTyped, ClockTyped, Job, Time
<1>2. s \in Schedule
  BY <1>1, SchedulesTyped
<1>3. ComputeNextRun(s, now) \in Int /\ ComputeNextRun(s, now) >= Never
  BY <1>1, <1>2, NextRunTyped
<1>4. on \in BOOLEAN /\ e \in 0..MaxErrors /\ (on => e < MaxErrors)
  <2>1. jobs[id].enabled => jobs[id].errors < MaxErrors
    BY DEF CronInv, JobsTold, LimitStops
  <2> QED
    BY <1>1, <2>1, CronAssumption DEF Job
<1>5. /\ r \in Story /\ r.failures = f /\ r.eased /\ r.unsaved = runs[n].unsaved
      /\ r.once = runs[n].once /\ Account(r, TRUE)
  <2>1. runs[n] \in Story /\ Account(runs[n], TRUE)
    BY Accounted DEF CronInv
  <2>2. f \in Nat
    BY <2>1 DEF Story
  <2> HIDE DEF f
  <2>3. r \in Story /\ r.failures = f /\ r.eased
    BY ONLY <2>1, <2>2 DEF Story
  <2>4. r.once = runs[n].once /\ r.unsaved = runs[n].unsaved
    BY ONLY <2>1 DEF Story
  <2>5. Account(r, TRUE)
    BY ONLY <2>1 DEF Story, Account
  <2> QED
    BY <2>3, <2>4, <2>5
<1>6. /\ DOMAIN jobs' = DOMAIN jobs /\ jobs'[id] = j
      /\ \A x \in DOMAIN jobs : x # id => jobs'[x] = jobs[x]
  <2>1. jobs' = [jobs EXCEPT ![id] = j]
    OBVIOUS
  <2> HIDE DEF j
  <2> QED
    BY ONLY <2>1, id \in DOMAIN jobs
<1>7. runs' = [runs EXCEPT ![jobs[id].serial] = r]
  OBVIOUS
<1>8. /\ j \in Job /\ j.next >= Never /\ j.serial = jobs[id].serial
      /\ j.enabled = on /\ j.errors = e /\ j.once = jobs[id].once
  <2> HIDE DEF e, on
  <2> QED
    BY <1>1, <1>2, <1>3, <1>4 DEF Job
<1>9. j.enabled => j.errors < MaxErrors
  <2> HIDE DEF j, e, on
  <2> QED
    BY <1>4, <1>8
<1>10. Told(j, r)
  <2>1. Told(jobs[id], runs[n])
    BY DEF CronInv, JobsTold, CountsAgree
  <2>2. ~runs[n].unsaved => f = e
    BY <2>1 DEF Told
  <2> HIDE DEF j, r, e, f
  <2> QED
    BY <1>5, <1>8, <2>2 DEF Told
<1> HIDE DEF j, r, e, f, on
<1>11. JobsTyped' /\ JobsTold'
  <2>1. JobsTyped /\ JobsTold
    BY DEF CronInv
  <2> QED
    BY ONLY <2>1, <1>5, <1>6, <1>7, <1>8, <1>9, <1>10, id \in DOMAIN jobs, JobChanged
<1>12. ClockTyped'
  BY DEF CronInv, ClockTyped
<1> QED
  BY <1>11, <1>12 DEF CronInv

LEMMA AddPreserves == ASSUME CronInv, Add PROVE CronInv'
<1> PICK s \in Schedules, once \in BOOLEAN :
      /\ jobs' = With(jobs, NewId,
            [schedule |-> s, next |-> ComputeNextRun(s, now), enabled |-> TRUE,
             once |-> once, errors |-> 0, serial |-> Len(runs) + 1])
      /\ runs' = Append(
            [n \in DOMAIN runs |-> [runs[n] EXCEPT !.clashed =
               @ \/ (NewId \in DOMAIN jobs /\ jobs[NewId].serial = n)]],
            [ok |-> 0, failures |-> 0, last |-> Never, once |-> once, eased |-> FALSE,
             removed |-> FALSE, clashed |-> FALSE, unsaved |-> FALSE])
      /\ UNCHANGED <<now, counter, due>>
  BY DEF Add
<1> DEFINE c(n) == runs[n].clashed \/ (NewId \in DOMAIN jobs /\ jobs[NewId].serial = n)
           marked == [n \in DOMAIN runs |-> [runs[n] EXCEPT !.clashed = c(n)]]
           r == [ok |-> 0, failures |-> 0, last |-> Never, once |-> once, eased |-> FALSE,
                 removed |-> FALSE, clashed |-> FALSE, unsaved |-> FALSE]
           j == [schedule |-> s, next |-> ComputeNextRun(s, now), enabled |-> TRUE,
                 once |-> once, errors |-> 0, serial |-> Len(runs) + 1]
<1>1. now \in Nat /\ NewId \in Id /\ runs \in Seq(Story) /\ Len(runs) \in Nat
  BY CronAssumption DEF CronInv, JobsTyped, ClockTyped, Time, NewId, Id
<1>2. s \in Schedule
  BY <1>1, SchedulesTyped
<1>3. ComputeNextRun(s, now) \in Int /\ ComputeNextRun(s, now) >= Never
  BY <1>1, <1>2, NextRunTyped
<1>4. /\ j \in Job /\ j.next >= Never /\ j.serial = Len(runs) + 1 /\ j.errors = 0
      /\ j.once = once
  BY <1>1, <1>2, <1>3, CronAssumption DEF Job
<1>5. r \in Story /\ r.failures = 0 /\ r.ok = 0 /\ ~r.removed /\ r.once = once
  BY DEF Story, Never
<1>6. \A n \in 1..Len(runs) : c(n) \in BOOLEAN
  BY <1>1 DEF Story
<1>7. marked \in Seq(Story) /\ Len(marked) = Len(runs) /\ Marked(marked, NewId)
  <2> HIDE DEF c
  <2>0. DOMAIN runs = 1..Len(runs) /\ \A n \in 1..Len(runs) : runs[n] \in Story
    BY <1>1
  <2>1. \A n \in 1..Len(runs) :
          /\ marked[n] \in Story
          /\ marked[n].failures = runs[n].failures
          /\ marked[n].last = runs[n].last
          /\ marked[n].unsaved = runs[n].unsaved
          /\ marked[n].ok = runs[n].ok
          /\ marked[n].once = runs[n].once
          /\ marked[n].removed = runs[n].removed
          /\ marked[n].eased = runs[n].eased
          /\ marked[n].clashed <=> c(n)
    BY ONLY <2>0, <1>6 DEF Story
  <2>2. marked \in Seq(Story) /\ Len(marked) = Len(runs)
    <3>1. marked \in [1..Len(runs) -> Story]
      BY ONLY <2>0, <2>1
    <3> HIDE DEF marked
    <3>2. \A m \in Nat : \A f \in [1..m -> Story] : f \in Seq(Story) /\ Len(f) = m
      OBVIOUS
    <3> QED
      BY ONLY <1>1, <3>1, <3>2
  <2>3. Marked(marked, NewId)
    BY <2>1 DEF Marked, c
  <2> QED
    BY <2>2, <2>3
<1>8. runs' = Append(marked, r) /\ jobs' = With(jobs, NewId, j)
  OBVIOUS
<1> HIDE DEF marked, r, j, c
<1>9. JobsTyped' /\ JobsTold'
  BY <1>1, <1>4, <1>5, <1>7, <1>8, JobAdded DEF CronInv
<1>10. ClockTyped'
  BY DEF CronInv, ClockTyped
<1> QED
  BY <1>9, <1>10 DEF CronInv

\* A job that is kept after a run: the backoff never brings the next run
\* forward.
LEMMA RescheduledTyped ==
  ASSUME now \in Nat, NEW j \in Job, NEW e \in 0..MaxErrors
  PROVE  LET k == Rescheduled(j, e) IN
         /\ k \in Job /\ k.next >= Never /\ k.serial = j.serial /\ k.once = j.once
         /\ k.errors = e /\ k.enabled = (j.enabled /\ e < MaxErrors)
         /\ e > 0 /\ k.next # Never => k.next >= now + ErrorBackoff(e)
<1> DEFINE first == ComputeNextRun(j.schedule, now)
           next == IF e > 0 /\ first # Never
                   THEN MaxOf(first, now + ErrorBackoff(e)) ELSE first
           on == j.enabled /\ e < MaxErrors
           k == [j EXCEPT !.errors = e, !.enabled = on, !.next = next]
<1>1. first \in Int /\ first >= Never
  <2>1. j.schedule \in Schedule
    BY DEF Job
  <2> QED
    BY <2>1, NextRunTyped
<1>2. e \in Nat /\ ErrorBackoff(e) \in Nat
  BY CronAssumption, BackoffTyped
<1>3. /\ next \in Int /\ next >= Never
      /\ e > 0 /\ next # Never => next >= now + ErrorBackoff(e)
  <2> HIDE DEF first
  <2> QED
    BY <1>1, <1>2 DEF MaxOf, Never
<1>4. on \in BOOLEAN
  OBVIOUS
<1>5. Rescheduled(j, e) = k
  BY DEF Rescheduled
<1> HIDE DEF first, next, on
<1>6. /\ k \in Job /\ k.next = next /\ k.serial = j.serial /\ k.errors = e
      /\ k.enabled = on /\ k.once = j.once
  BY ONLY <1>3, <1>4, j \in Job, e \in 0..MaxErrors DEF Job
<1> QED
  BY <1>3, <1>5, <1>6 DEF on

\* The story after a run.
RunStory(s, o, f, l, b) ==
  [s EXCEPT !.ok = o, !.failures = f, !.last = l, !.eased = FALSE, !.unsaved = b]

LEMMA StoryOfRun ==
  ASSUME NEW s \in Story, NEW o \in Nat, NEW f \in Nat, NEW l \in Int, NEW b \in BOOLEAN
  PROVE  LET r == RunStory(s, o, f, l, b)
         IN /\ r \in Story /\ r.failures = f /\ r.last = l /\ r.unsaved = b
            /\ r.ok = o /\ r.once = s.once /\ r.removed = s.removed /\ r.clashed = s.clashed
<1> DEFINE q == [s EXCEPT !.ok = o, !.failures = f, !.last = l, !.eased = FALSE]
           r == RunStory(s, o, f, l, b)
<1>1. q \in Story
  BY DEF Story
<1>2. r = [q EXCEPT !.unsaved = b]
  BY DEF RunStory
<1>3. /\ r.failures = f /\ r.last = l /\ r.unsaved = b
      /\ r.ok = o /\ r.once = s.once /\ r.removed = s.removed /\ r.clashed = s.clashed
  BY DEF Story, RunStory
<1>4. r \in Story
  <2> HIDE DEF q, r
  <2> QED
    BY <1>1, <1>2 DEF Story
<1> QED
  BY <1>3, <1>4

LEMMA RunPreserves == ASSUME CronInv, Run PROVE CronInv'
<1> PICK id \in due \cap DOMAIN jobs, success \in BOOLEAN, saved \in BOOLEAN :
      /\ IsDue(jobs[id], now)
      /\ jobs' = IF ~saved THEN jobs
                 ELSE [x \in DOMAIN jobs \ (IF Result(jobs[id], success) = {} THEN {id} ELSE {}) |->
                         IF x = id THEN CHOOSE k \in Result(jobs[id], success) : TRUE
                         ELSE jobs[x]]
      /\ runs' = [runs EXCEPT
           ![jobs[id].serial].ok = IF success THEN @ + 1 ELSE @,
           ![jobs[id].serial].failures = IF success THEN 0 ELSE @ + 1,
           ![jobs[id].serial].last = now, ![jobs[id].serial].eased = FALSE,
           ![jobs[id].serial].unsaved = @ \/ ~saved]
      /\ due' = due \ {id}
      /\ UNCHANGED <<now, counter>>
  BY DEF Run
<1> DEFINE j == jobs[id]
           s == runs[j.serial]
           f == IF success THEN 0 ELSE s.failures + 1
           lost == s.unsaved \/ ~saved
           o == IF success THEN s.ok + 1 ELSE s.ok
           r == RunStory(s, o, f, now, lost)
           e == IF success THEN 0 ELSE j.errors + 1
           k == Rescheduled(j, e)
<1>1. /\ j \in Job /\ j.next >= Never /\ j.serial \in 1..Len(runs) /\ s \in Story
      /\ now \in Nat /\ j.enabled /\ j.errors < MaxErrors /\ Told(j, s)
  BY CronAssumption DEF CronInv, JobsTyped, ClockTyped, Time, IsDue, JobsTold, LimitStops,
     CountsAgree
<1>2. runs' = [runs EXCEPT ![jobs[id].serial] = r]
  BY DEF RunStory
<1>3. o \in Nat /\ f \in Nat /\ lost \in BOOLEAN /\ (~saved => lost) /\ (~lost => ~s.unsaved)
  BY <1>1 DEF Story
<1>4. /\ r \in Story /\ r.failures = f /\ r.last = now /\ r.unsaved = lost
      /\ r.ok = o /\ r.once = s.once /\ r.removed = s.removed /\ r.clashed = s.clashed
  <2> HIDE DEF o, f, lost, s, j
  <2>1. s \in Story /\ o \in Nat /\ f \in Nat /\ now \in Int /\ lost \in BOOLEAN
    BY <1>1, <1>3
  <2>2. r \in Story
    BY ONLY <2>1, StoryOfRun DEF r
  <2>3. r.failures = f /\ r.last = now
    BY ONLY <2>1, StoryOfRun DEF r
  <2>4. r.unsaved = lost
    BY ONLY <2>1, StoryOfRun DEF r
  <2>5. r.ok = o /\ r.once = s.once /\ r.removed = s.removed /\ r.clashed = s.clashed
    BY ONLY <2>1, StoryOfRun DEF r
  <2> QED
    BY <2>2, <2>3, <2>4, <2>5
<1>5. e \in 0..MaxErrors
  BY <1>1, CronAssumption DEF Job
<1>6. /\ k \in Job /\ k.next >= Never /\ k.serial = j.serial /\ k.once = j.once
      /\ k.errors = e /\ k.enabled = (j.enabled /\ e < MaxErrors)
      /\ e > 0 /\ k.next # Never => k.next >= now + ErrorBackoff(e)
  <2> HIDE DEF j, e
  <2> QED
    BY <1>1, <1>5, RescheduledTyped
<1>7. Told(k, r)
  <2>1. ~lost => f = e
    <3>1. ~s.unsaved => s.failures = j.errors
      BY <1>1 DEF Told
    <3> QED
      BY <1>1, <1>3, <3>1
  <2> HIDE DEF k, r, f, e, lost
  <2> QED
    BY <1>4, <1>6, <2>1 DEF Told
<1>8. Account(s, TRUE) /\ s.once = j.once
  BY Accounted DEF CronInv
<1>9. ClockTyped'
  BY DEF CronInv, ClockTyped
<1>10. CASE ~saved
  <2>1. jobs' = jobs
    BY <1>10
  <2>2. Told(j, r)
    BY <1>3, <1>4, <1>10 DEF Told
  <2>3. Account(r, TRUE)
    BY <1>3, <1>4, <1>10 DEF Account
  <2> HIDE DEF r
  <2>4. JobsTyped' /\ JobsTold'
    BY <1>1, <1>2, <1>4, <2>1, <2>2, <2>3, JobChanged DEF CronInv
  <2> QED
    BY <2>4, <1>9 DEF CronInv
<1>11. CASE saved /\ j.once /\ success
  <2>1. Result(j, success) = {}
    BY <1>11 DEF Result
  <2>2. DOMAIN jobs' = DOMAIN jobs \ {id} /\ \A x \in DOMAIN jobs' : jobs'[x] = jobs[x]
    BY <1>11, <2>1
  <2>3. Account(r, FALSE)
    <3> HIDE DEF r, s, f, lost
    <3> QED
      BY <1>1, <1>3, <1>4, <1>8, <1>11 DEF Account, Story
  <2> HIDE DEF r
  <2>4. JobsTyped' /\ JobsTold'
    BY <1>2, <1>4, <2>2, <2>3, JobDropped DEF CronInv
  <2> QED
    BY <2>4, <1>9 DEF CronInv
<1>12. CASE saved /\ ~(j.once /\ success)
  <2>1. Result(j, success) = {k}
    BY <1>12 DEF Result
  <2> HIDE DEF k, r
  <2>2. (CHOOSE x \in {k} : TRUE) = k
    OBVIOUS
  <2>3. /\ DOMAIN jobs' = DOMAIN jobs /\ jobs'[id] = k
        /\ \A x \in DOMAIN jobs : x # id => jobs'[x] = jobs[x]
    BY <1>12, <2>1, <2>2
  <2>4. k.enabled => k.errors < MaxErrors
    BY <1>6
  <2>5. Account(r, TRUE)
    <3> HIDE DEF r, s, f, lost
    <3> QED
      BY <1>1, <1>3, <1>4, <1>8, <1>12 DEF Account, Story
  <2>6. JobsTyped' /\ JobsTold'
    BY <1>2, <1>4, <1>6, <1>7, <2>3, <2>4, <2>5, JobChanged DEF CronInv
  <2> QED
    BY <2>6, <1>9 DEF CronInv
<1> QED
  BY <1>10, <1>11, <1>12

LEMMA CronPreserved == CronInv /\ [CronNext]_cronVars => CronInv'
<1> SUFFICES ASSUME CronInv, [CronNext]_cronVars PROVE CronInv'
  OBVIOUS
<1>1. CASE UNCHANGED cronVars
  BY <1>1 DEF cronVars, CronInv, JobsTyped, ClockTyped, JobsTold, OneJobPerStory, LimitStops,
     CountsAgree, Told, SameOnce, JobsAccounted
<1> QED
  BY <1>1, AddPreserves, UpdatePreserves, RemovePreserves, TickPreserves, RunPreserves
     DEF CronNext

LEMMA CronInvariant == CronSpec => []CronInv
BY CronInitially, CronPreserved, PTL DEF CronSpec

\* The state of Cron is well typed; no job counts more errors than the limit.
THEOREM CronTyped == CronSpec => []CronTypeOK
<1>1. CronInv => CronTypeOK
  BY DEF CronInv, JobsTyped, ClockTyped, CronTypeOK, Job
<1> QED
  BY <1>1, CronInvariant, PTL

\* compute_next_run and apply_job_result, for any backoff table, limit and
\* intervals: while results are saved, through any updates, a job counts its
\* failures in a row since it was enabled, is off at the limit, and waits at
\* least their backoff unless an update has set its next run since.
THEOREM FailuresBackOff == CronSpec => []FailingJobBacksOff
<1>1. CronInv => FailingJobBacksOff
  <2> SUFFICES ASSUME CronInv, NEW id \in DOMAIN jobs,
                      ~runs[jobs[id].serial].unsaved
               PROVE  LET j == jobs[id]
                          r == runs[j.serial]
                      IN /\ j.errors = r.failures
                         /\ r.failures <= MaxErrors
                         /\ r.failures = MaxErrors => ~j.enabled
                         /\ r.failures > 0 /\ ~r.eased /\ j.next # Never
                              => j.next >= r.last + ErrorBackoff(r.failures)
    BY DEF FailingJobBacksOff
  <2> DEFINE j == jobs[id]
             r == runs[j.serial]
  <2>1. /\ j \in Job /\ r \in Story /\ Told(j, r)
        /\ j.enabled => j.errors < MaxErrors
    BY DEF CronInv, JobsTyped, JobsTold, CountsAgree, LimitStops
  <2>2. j.errors = r.failures /\ j.errors \in 0..MaxErrors
    BY <2>1 DEF Told, Job
  <2> QED
    BY <2>1, <2>2, CronAssumption DEF Told
<1> QED
  BY <1>1, CronInvariant, PTL

\* While results are saved and ids do not clash, a job is in the file until it
\* is removed or, if it asks for that, succeeds, and then never runs again.
THEOREM JobsStayAccounted == CronSpec => []JobsAccounted
<1>1. CronInv => JobsAccounted
  BY DEF CronInv, JobsTold
<1> QED
  BY <1>1, CronInvariant, PTL

\* compute_next_run, for any clock, interval and anchor: rounding up gives the
\* least instant of the schedule that is not past.
THEOREM NextRunsAreLeast == CronSpec => []NextRunIsLeast
<1>1. CronInv => NextRunIsLeast
  <2> SUFFICES ASSUME now \in Time, NEW i \in 0..MaxTime, NEW anchor \in Time
               PROVE  LET instants == {anchor + k * MaxOf(i, 1) : k \in 1..(MaxTime + 1)}
                                      \cup (IF now < anchor THEN {anchor} ELSE {})
                          next == ComputeNextRun(EveryFrom(i, anchor), now)
                      IN /\ next \in instants /\ next >= now
                         /\ \A t \in instants : t >= now => next <= t
    BY DEF NextRunIsLeast, CronInv, ClockTyped
  <2> DEFINE n == MaxOf(i, 1)
             multiples == {anchor + k * n : k \in 1..(MaxTime + 1)}
             next == ComputeNextRun(EveryFrom(i, anchor), now)
  <2>1. i \in Nat /\ anchor \in Nat /\ now \in Nat /\ n \in Nat /\ n >= 1
    BY CronAssumption DEF Time, MaxOf
  <2>2. CASE now < anchor
    <3>1. next = anchor
      BY <2>1, <2>2 DEF ComputeNextRun, EveryFrom
    <3> HIDE DEF next, n
    <3>2. \A t \in multiples : t \in Nat /\ anchor <= t
      BY <2>1
    <3> QED
      BY <2>1, <2>2, <3>1, <3>2 DEF next, n
  <2>3. CASE now >= anchor
    <3>1. PICK k \in 1..(now - anchor + 1) :
            /\ next = anchor + k * n
            /\ anchor + k * n \in Nat /\ anchor + k * n >= now
            /\ \A m \in Nat : m >= 1 /\ anchor + m * n >= now => anchor + k * n <= anchor + m * n
      BY <2>1, <2>3, EveryIsLeast
    <3>2. k \in 1..(MaxTime + 1)
      BY <2>1, <2>3, CronAssumption DEF Time
    <3> HIDE DEF next, n
    <3>3. next \in multiples /\ next >= now
      BY <3>1, <3>2
    <3>4. \A t \in multiples : t >= now => next <= t
      BY <3>1
    <3> QED
      BY <2>1, <2>3, <3>3, <3>4 DEF next, n
  <2> QED
    BY <2>1, <2>2, <2>3
<1> QED
  BY <1>1, CronInvariant, PTL

-----------------------------------------------------------------------------
(* Startup: the LED and what the threads do.                               *)

\* The types that LedTruthful rests on.
StartupTypes ==
  /\ pc \in {"nic", "wait", "up", "server", "led", "agent", "done", "halted"}
  /\ led \in {"boot", "connecting", "idle", "failed", "thinking", "updating"}
  /\ agent \in {"none", "idle", "turn"}
  /\ serving \in BOOLEAN /\ restart \in BOOLEAN

\* Only main starts the agent thread, as its last step, and the web server,
\* after which it does not give up.  Between SetIdle and the agent thread only
\* a PUT /api/config, which restarts the device, may change the LED.
ThreadsFollowMain ==
  /\ agent # "none" => pc = "done"
  /\ serving => pc \in {"led", "agent", "done"}
  /\ pc = "agent" /\ ~restart => led = "idle"

LedInv == StartupTypes /\ ThreadsFollowMain /\ LedTruthful

LEMMA LedInitially == StartupInit => LedInv
BY DEF StartupInit, LedInv, StartupTypes, ThreadsFollowMain, LedTruthful

\* A restart from anywhere.
LEMMA BootTruthful == PowerUp => LedInv'
BY DEF PowerUp, LedInv, StartupTypes, ThreadsFollowMain, LedTruthful

LEMMA LedPreserved == LedInv /\ [StartupNext]_startupVars => LedInv'
<1> SUFFICES ASSUME LedInv, [StartupNext]_startupVars PROVE LedInv'
  OBVIOUS
<1> USE DEF LedInv, StartupTypes, ThreadsFollowMain, LedTruthful
<1>1. CASE NicStart
  BY <1>1 DEF NicStart
<1>2. CASE NicWait
  BY <1>2 DEF NicWait
<1>3. CASE Prepare
  BY <1>3 DEF Prepare
<1>4. CASE StartHttpServer
  BY <1>4 DEF StartHttpServer
<1>5. CASE SetIdle
  BY <1>5 DEF SetIdle
<1>6. CASE SpawnAgent
  BY <1>6, BootTruthful DEF SpawnAgent
<1>7. CASE BeginTurn
  BY <1>7 DEF BeginTurn, mainVars
<1>8. CASE TelegramTurn
  BY <1>8 DEF TelegramTurn, mainVars
<1>9. CASE EndTurn
  BY <1>9 DEF EndTurn, mainVars
<1>10. CASE Ask
  BY <1>10 DEF Ask, mainVars
<1>11. CASE PutSsid
  BY <1>11 DEF PutSsid, mainVars
<1>12. CASE PutPassword
  <2>1. restart' \in BOOLEAN /\ (restart => restart')
    <3>1. CASE restart' = restart
      BY <3>1
    <3>2. CASE restart' = TRUE
      BY <3>2
    <3> QED
      BY <1>12, <3>1, <3>2 DEF PutPassword
  <2>2. UNCHANGED <<pc, led, serving, agent>>
    BY <1>12 DEF PutPassword, mainVars
  <2> QED
    BY <2>1, <2>2
<1>13. CASE PutConfig
  BY <1>13 DEF PutConfig, mainVars, Served
<1>14. CASE RestartDevice \/ PowerLoss
  BY <1>14, BootTruthful DEF RestartDevice, PowerLoss
<1>15. CASE UNCHANGED startupVars
  BY <1>15 DEF startupVars, mainVars
<1> QED
  BY <1>1, <1>2, <1>3, <1>4, <1>5, <1>6, <1>7, <1>8, <1>9, <1>10, <1>11, <1>12,
     <1>13, <1>14, <1>15 DEF StartupNext, Main, Agent, Handler

\* main, led_status.rs and the handlers, whatever the network and the requests
\* that restart the device: the LED says failed when the device has given up,
\* thinking while a turn runs, updating only while it restarts.
THEOREM LedTellsTheTruth == StartupSpec => []LedTruthful
<1>1. LedInv => LedTruthful
  BY DEF LedInv
<1> QED
  BY <1>1, LedInitially, LedPreserved, PTL DEF StartupSpec
=============================================================================
