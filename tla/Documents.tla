----------------------------- MODULE Documents -----------------------------
(***************************************************************************)
(* The documents the agent keeps for its user, on the device:              *)
(*   agent/src/core/tools/memory_tools.rs   MEMORY.md                      *)
(*   agent/src/core/tools/cron_tools.rs, core/cron.rs   cron/jobs.json     *)
(*   agent/src/core/cloud/strict.rs         strict_put                     *)
(*   agent/src/main.rs      PUT /api/config, load_config, bootstrap_cloud, *)
(*                          PUT /api/files/write                           *)
(*   agent/src/core/cloud/boot.rs           steps 6 and 7 of boot_restore  *)
(*                                                                         *)
(* A document lives in three places: the cache in PSRAM, the bucket and a  *)
(* file on flash.  A tool call loads it, changes it and saves it: cache,   *)
(* then strict_put to the bucket, then file.  Memory is read from the      *)
(* cache when it is there, cron jobs always from the file.  A document is  *)
(* modelled as a function from the ids of its entries to the number of the *)
(* call that wrote them; texts and the byte cap are left out.              *)
(***************************************************************************)
EXTENDS Integers, FiniteSets, Entries

CONSTANTS
  Lanes,       \* threads that run tools: one on the device
  MaxOps,      \* bound: tool calls and edits of files
  MaxEntries,  \* MAX_ENTRIES of memory_tools.rs
  RetryMax,    \* replicator.retry_max
  MaxReboots,  \* bound: number of crashes
  MaxPuts,     \* bound: number of PUT /api/config
  Configs,     \* the configurations the user may send, of AllConfigs
  Events       \* what the environment may do, of AllEvents

AllEvents == {"put_error", "get_error", "list_error", "write_error", "crash",
              "snapshot", "edit_file", "format"}
\* Two with a bucket, one without, one that is JSON but no Config.
AllConfigs == {"cloud_a", "cloud_b", "local", "malformed"}

ASSUME DocumentsAssumption ==
  /\ Lanes # {} /\ MaxOps \in Nat /\ MaxEntries \in Nat
  /\ RetryMax \in 0..255 /\ MaxReboots \in Nat /\ MaxPuts \in Nat
  /\ Configs \subseteq AllConfigs /\ Events \subseteq AllEvents

VARIABLES
  cache,    \* CloudCache: documents, by name, in PSRAM
  bucket,   \* sys/MEMORY.md and sys/cron.json
  file,     \* data/MEMORY.md and data/cron/jobs.json; missing reads as empty
  snap,     \* the two documents in .snapshot.bin
  lane,     \* per thread, the tool call it is in
  ops,      \* history: calls are numbered as they load
  up,       \* the device runs
  nvs,      \* the configuration in NVS
  running,  \* the configuration read at boot
  remote,   \* sys/config.json in the bucket
  http,     \* the handler of PUT /api/config
  restarting,  \* esp_restart is 500 ms away
  reboots, puts,  \* history: crashes and configuration PUTs
  kept,     \* history: entries as the last acknowledged call left them
  failed,   \* history: calls that returned an error
  wiped,    \* history: documents whose file was lost and not yet rewritten
  detour    \* history: documents read from a place behind their last save

vars == <<cache, bucket, file, snap, lane, ops, up, nvs, running, remote, http,
          restarting, reboots, puts, kept, failed, wiped, detour>>
places == <<cache, bucket, file, snap>>
histories == <<kept, failed, wiped, detour>>
configs == <<nvs, running, remote, http, restarting, puts>>

Doc == {"memory", "cron"}
Op == 1..MaxOps
None == [i \in {} |-> 0]        \* the empty document
Texts == UNION {[S -> Op] : S \in SUBSET Op}

HasBucket(c) == c \in {"cloud_a", "cloud_b"}   \* is_cloud_enabled
Cloud == HasBucket(running)                    \* ctx.cloud is Some

\* read_memory_blocks and CronStore::load.
Read(d) == IF d = "memory" /\ Cloud /\ d \in DOMAIN cache THEN cache[d] ELSE file[d]

-----------------------------------------------------------------------------
(* A tool call.                                                            *)

Idle == [pc |-> "idle", doc |-> "memory", op |-> "add", id |-> 0, n |-> 0,
         text |-> None, tries |-> 0]

\* What each operation makes of the document it has loaded; an operation on
\* an id that is not there returns an error and changes nothing.
Changed(text, op, id, n) == IF op = "delete" THEN Without(text, id) ELSE With(text, id, n)
Allowed(d, text, op, id) ==
  IF op = "add"
  THEN id = ops + 1 /\ (d = "memory" => Cardinality(DOMAIN text) < MaxEntries)
  ELSE id \in DOMAIN text

\* do_save, do_edit, do_delete; do_add, do_update, do_remove: load and
\* change.  What the call is about is open until it returns.
Load(l) ==
  /\ up /\ lane[l].pc = "idle" /\ ops < MaxOps
  /\ \E d \in Doc, op \in {"add", "edit", "delete"}, id \in Op :
       /\ Allowed(d, Read(d), op, id)
       /\ lane' = [lane EXCEPT ![l] =
            [pc |-> IF d = "cron" /\ op = "edit" THEN "reload" ELSE "save",
             doc |-> d, op |-> op, id |-> id, n |-> ops + 1,
             text |-> Changed(Read(d), op, id, ops + 1), tries |-> 0]]
       /\ kept' = [kept EXCEPT ![d] = Without(@, id)]
  /\ ops' = ops + 1
  /\ UNCHANGED <<places, configs, up, reboots, failed, wiped, detour>>

\* The call returns an error; in CronStore add, remove and update undo the
\* change in their own copy, which is dropped with the call.
Fail(l) ==
  /\ failed' = failed \cup {lane[l].n}
  /\ lane' = [lane EXCEPT ![l] = Idle]

\* do_update finds the job in one load and updates it in a second.
Reload(l) ==
  /\ up /\ lane[l].pc = "reload"
  /\ IF lane[l].id \in DOMAIN file["cron"]
     THEN /\ lane' = [lane EXCEPT ![l].pc = "save",
                        ![l].text = Changed(file["cron"], "edit", lane[l].id, lane[l].n)]
          /\ UNCHANGED failed
     ELSE Fail(l)
  /\ UNCHANGED <<places, configs, ops, up, reboots, kept, wiped, detour>>

\* Mutant of SaveCache: the file is written before the bucket is asked.
SaveFileFirst(l) ==
  /\ up /\ lane[l].pc = "save"
  /\ lane' = [lane EXCEPT ![l].pc = IF Cloud THEN "put" ELSE "write"]
  /\ cache' = IF Cloud THEN With(cache, lane[l].doc, lane[l].text) ELSE cache
  /\ file' = [file EXCEPT ![lane[l].doc] = lane[l].text]
  /\ UNCHANGED <<bucket, snap, configs, ops, up, reboots, histories>>

\* write_memory_file and CronStore::save: the cache first.
SaveCache(l) ==
  /\ up /\ lane[l].pc = "save"
  /\ lane' = [lane EXCEPT ![l].pc = IF Cloud THEN "put" ELSE "write"]
  /\ cache' = IF Cloud THEN With(cache, lane[l].doc, lane[l].text) ELSE cache
  /\ UNCHANGED <<bucket, file, snap, configs, ops, up, reboots, histories>>

\* strict_put.
PutOk(l) ==
  /\ up /\ lane[l].pc = "put"
  /\ bucket' = With(bucket, lane[l].doc, lane[l].text)
  /\ lane' = [lane EXCEPT ![l].pc = "write"]
  /\ UNCHANGED <<cache, file, snap, configs, ops, up, reboots, histories>>

\* Mutant of PutFail: the last failure counts as success.
PutFailIgnored(l) ==
  /\ "put_error" \in Events
  /\ up /\ lane[l].pc = "put"
  /\ bucket' \in {bucket, With(bucket, lane[l].doc, lane[l].text)}
  /\ lane' = [lane EXCEPT ![l].tries = @ + 1,
                ![l].pc = IF lane[l].tries < RetryMax THEN "put" ELSE "write"]
  /\ UNCHANGED <<cache, file, snap, configs, ops, up, reboots, histories>>

\* A PUT fails, or lands and its answer is lost.
PutFail(l) ==
  /\ "put_error" \in Events
  /\ up /\ lane[l].pc = "put"
  /\ bucket' \in {bucket, With(bucket, lane[l].doc, lane[l].text)}
  /\ IF lane[l].tries < RetryMax
     THEN lane' = [lane EXCEPT ![l].tries = @ + 1] /\ UNCHANGED failed
     ELSE Fail(l)
  /\ UNCHANGED <<cache, file, snap, configs, ops, up, reboots, kept, wiped, detour>>

\* The call returns success.
Acknowledge(l) ==
  /\ kept' = [kept EXCEPT ![lane[l].doc] =
                IF lane[l].op = "delete" THEN With(@, lane[l].id, 0)
                ELSE With(@, lane[l].id, lane[l].n)]
  /\ lane' = [lane EXCEPT ![l] = Idle]

WriteFile(l) ==
  /\ up /\ lane[l].pc = "write"
  /\ file' = [file EXCEPT ![lane[l].doc] = lane[l].text]
  /\ Acknowledge(l)
  /\ wiped' = wiped \ {lane[l].doc}
  /\ UNCHANGED <<cache, bucket, snap, configs, ops, up, reboots, failed, detour>>

\* The flash is full.  LittleFS keeps the old file.
WriteError(l) ==
  /\ "write_error" \in Events
  /\ up /\ lane[l].pc = "write"
  /\ Fail(l)
  /\ UNCHANGED <<places, configs, ops, up, reboots, kept, wiped, detour>>

\* PUT /api/files/write: the user adds an entry to the file in the editor.
EditFile ==
  /\ "edit_file" \in Events
  /\ up /\ ops < MaxOps
  /\ file' = [file EXCEPT !["memory"] = With(@, ops + 1, ops + 1)]
  /\ kept' = [kept EXCEPT !["memory"] = With(@, ops + 1, ops + 1)]
  /\ ops' = ops + 1
  /\ detour' = IF Cloud \/ \E l \in Lanes : lane[l].pc # "idle"
               THEN detour \cup {"memory"} ELSE detour
  /\ UNCHANGED <<cache, bucket, snap, lane, configs, up, reboots, failed, wiped>>

-----------------------------------------------------------------------------
(* PUT /api/config.                                                        *)

NoPut == [pc |-> "idle", config |-> "local", tries |-> 0]

\* The new configuration says whether there is a bucket to put it in.
ConfigPut ==
  /\ up /\ http.pc = "idle" /\ puts < MaxPuts
  /\ \E c \in Configs :
       http' = [pc |-> IF HasBucket(c) THEN "put" ELSE "nvs", config |-> c, tries |-> 0]
  /\ puts' = puts + 1
  /\ UNCHANGED <<places, lane, ops, up, nvs, running, remote, restarting, reboots,
                 histories>>

ConfigPutOk ==
  /\ up /\ http.pc = "put"
  /\ remote' = http.config
  /\ http' = [http EXCEPT !.pc = "nvs"]
  /\ UNCHANGED <<places, lane, ops, up, nvs, running, restarting, puts, reboots,
                 histories>>

\* After the last try the answer is 503, and nothing is saved.
ConfigPutFail ==
  /\ "put_error" \in Events
  /\ up /\ http.pc = "put"
  /\ remote' \in {remote, http.config}
  /\ http' = IF http.tries < RetryMax THEN [http EXCEPT !.tries = @ + 1] ELSE NoPut
  /\ UNCHANGED <<places, lane, ops, up, nvs, running, restarting, puts, reboots,
                 histories>>

\* save_config_nvs, the answer, and a thread that restarts the device.
ConfigSave ==
  /\ up /\ http.pc = "nvs"
  /\ nvs' = http.config
  /\ restarting' = TRUE
  /\ http' = NoPut
  /\ UNCHANGED <<places, lane, ops, up, running, remote, puts, reboots, histories>>

-----------------------------------------------------------------------------
(* Snapshots, crashes and boots.                                           *)

TakeSnapshot ==
  /\ "snapshot" \in Events
  /\ up /\ Cloud
  /\ snap' = cache
  /\ UNCHANGED <<cache, bucket, file, lane, ops, up, configs, reboots, histories>>

Down ==
  /\ up
  /\ up' = FALSE
  /\ cache' = None
  /\ lane' = [l \in Lanes |-> Idle]
  /\ http' = NoPut
  /\ restarting' = FALSE
  /\ UNCHANGED <<bucket, file, snap, ops, nvs, running, remote, puts, histories>>

Crash ==
  /\ "crash" \in Events
  /\ reboots < MaxReboots
  /\ Down
  /\ reboots' = reboots + 1

Restart ==
  /\ restarting
  /\ Down
  /\ UNCHANGED reboots

\* load_config: what NVS holds, or the default, which has no bucket.
Booted ==
  /\ ~up
  /\ up' = TRUE
  /\ running' = IF nvs = "malformed" THEN "local" ELSE nvs
  /\ UNCHANGED <<bucket, file, snap, lane, ops, nvs, remote, http, restarting,
                 puts, reboots, kept, failed, wiped>>

\* The flash does not mount and is formatted; NVS is a partition of its own.
Format ==
  /\ "format" \in Events
  /\ ~up
  /\ file' = [d \in Doc |-> None]
  /\ snap' = None
  /\ wiped' = Doc
  /\ detour' = detour \cup {"cron"}
  /\ UNCHANGED <<cache, bucket, lane, ops, up, configs, reboots, kept, failed>>

BootLocal ==
  /\ ~HasBucket(nvs)
  /\ Booted
  /\ detour' = detour \cup wiped
  /\ UNCHANGED cache

\* Documents a restore may bring up behind their last save: memory saved
\* while there was no bucket, memory not fetched and with no file, and jobs,
\* which are never read from the bucket, with no file.
BehindAfterRestore ==
  IF ~Cloud \/ ("memory" \in wiped /\ "memory" \notin DOMAIN cache')
  THEN wiped \cup {"memory"} ELSE wiped \ {"memory"}

\* Mutant of BootRestore: a document whose GET fails is cached as empty.
BootRestoreEmpty ==
  /\ HasBucket(nvs)
  /\ Booted
  /\ \E got \in IF "get_error" \in Events THEN SUBSET DOMAIN bucket ELSE {DOMAIN bucket} :
       cache' = [d \in DOMAIN bucket |-> IF d \in got THEN bucket[d] ELSE None]
  /\ detour' = detour \cup BehindAfterRestore

\* boot_restore reaches steps 6 and 7, where each GET is best-effort.
BootRestore ==
  /\ HasBucket(nvs)
  /\ Booted
  /\ \E got \in IF "get_error" \in Events THEN SUBSET DOMAIN bucket ELSE {DOMAIN bucket} :
       cache' = [d \in got |-> bucket[d]]
  /\ detour' = detour \cup BehindAfterRestore

\* The LIST of boot_restore fails: bootstrap_cloud takes the snapshot, which
\* is as old as its timer let it get.
BootSnapshot ==
  /\ HasBucket(nvs)
  /\ "list_error" \in Events
  /\ Booted
  /\ cache' = snap
  /\ detour' = detour \cup wiped \cup {"memory"}

Init ==
  /\ cache = None /\ bucket = None /\ snap = None
  /\ file = [d \in Doc |-> None]
  /\ lane = [l \in Lanes |-> Idle]
  /\ ops = 0 /\ up = TRUE
  /\ nvs = "cloud_a" /\ running = "cloud_a" /\ remote = "cloud_a"
  /\ http = NoPut /\ restarting = FALSE
  /\ reboots = 0 /\ puts = 0
  /\ kept = [d \in Doc |-> None]
  /\ failed = {} /\ wiped = {} /\ detour = {}

Step(l) ==
  \/ Reload(l) \/ SaveCache(l) \/ PutOk(l) \/ PutFail(l)
  \/ WriteFile(l) \/ WriteError(l)
Config == ConfigPutOk \/ ConfigPutFail \/ ConfigSave
Boot == BootLocal \/ BootRestore \/ BootSnapshot

Next ==
  \/ \E l \in Lanes : Load(l) \/ Step(l)
  \/ EditFile \/ ConfigPut \/ Config
  \/ TakeSnapshot \/ Crash \/ Restart \/ Format \/ Boot

Spec == Init /\ [][Next]_vars
\* A thread inside a call runs on; calls, crashes and edits need not come.
FairSpec == Spec /\ (\A l \in Lanes : WF_vars(Step(l))) /\ WF_vars(Config)

-----------------------------------------------------------------------------
(* Properties.                                                             *)

IsStore(s) == DOMAIN s \subseteq Doc /\ \A d \in DOMAIN s : s[d] \in Texts

\* The types of the variables.
TypeOK ==
  /\ IsStore(cache) /\ IsStore(bucket) /\ IsStore(snap)
  /\ DOMAIN file = Doc /\ IsStore(file)
  /\ \A l \in Lanes : lane[l].pc \in {"idle", "reload", "save", "put", "write"}
                      /\ lane[l].text \in Texts /\ lane[l].tries \in 0..RetryMax
  /\ ops \in 0..MaxOps /\ failed \subseteq 1..ops
  /\ {nvs, remote} \subseteq Configs \cup {"cloud_a"}
  /\ running \in {"cloud_a", "cloud_b", "local"}
  /\ http.pc \in {"idle", "put", "nvs"} /\ http.tries \in 0..RetryMax

\* An entry that a call said it saved is read by the next call as that call
\* left it, and one it said it deleted is not, across crashes, restarts and
\* failed calls on other entries.
KeptIn(docs) ==
  up => \A d \in docs : \A id \in DOMAIN kept[d] :
    IF kept[d][id] = 0 THEN id \notin DOMAIN Read(d)
    ELSE id \in DOMAIN Read(d) /\ Read(d)[id] = kept[d][id]

\* Doc, README and the description of the memory tool: memory "survives
\* reboots" and is "restored on boot".
Kept == KeptIn({"memory"})

\* The same of both documents, as long as no boot, and no edit, left the
\* place a document is read from behind the place of the last save.
KeptWithoutDetour == KeptIn(Doc \ detour)

\* "Memory saves (the agent expects its own writes to be durable before
\* returning)": when a call of a device with a bucket returns success, the
\* bucket and the file hold the same text, so that losing the flash or the
\* bucket alone loses nothing.
AckedIsInBucket ==
  [][\A l \in Lanes :
       Cloud /\ lane[l].pc = "write" /\ lane'[l].pc = "idle" /\ failed' = failed /\ up'
         => /\ lane[l].doc \in DOMAIN bucket'
            /\ bucket'[lane[l].doc] = file'[lane[l].doc]]_vars

\* A job change that was reported as failed "doesn't [get] re-PUT": it is
\* not in what later calls load, however many calls follow.
FailedJobsStayOut ==
  \A id \in DOMAIN file["cron"] : file["cron"][id] \notin failed

\* Each tool call returns, whatever the bucket and the flash answer.
CallsReturn == \A l \in Lanes : lane[l].pc # "idle" ~> lane[l].pc = "idle"
=============================================================================
