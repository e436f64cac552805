# A TLA+ model of zenclaw

zenclaw is an LLM agent that runs as firmware on an ESP32 and as a desktop
program.  A user talks to it over a web page or Telegram; a turn asks an LLM,
runs the tools it calls for, and stores the conversation as a session.  In
cloud mode sessions live in a volatile cache and are replicated to an
S3-compatible bucket; a reboot restores them from there.

This directory holds TLA+ modules for the parts where order, concurrency,
failure or a conversion matter, TLC configurations that check them on small
instances, and theorems that TLAPS proves for every instance.  `PROJECT.json`
lists the components, runs, mutants, hazards and theorems, and maps every
definition to the lines it stands for.  Paths below are relative to
`src/agent/src/`.

## 1. The system

| Component | State | Operations | Hard because |
|---|---|---|---|
| Eager replicator, `core/cloud/replicator.rs` | queue of pending writes, dead letters, stop flag; one mutex, one condition variable | `enqueue`, `stop`, drainer loop | writers and drainer wait on the same condition variable; retries go back to the front while newer writes come in |
| Cloud sessions, `core/sessions/mod.rs`, `core/cloud/cache.rs` | objects base, log-NN and mark per chat, in cache and bucket | `append`, `compact_log`, `load`, `get_branch`, `clear`, `delete` | one append is up to three separate writes; delete runs on an HTTP thread; hydration meets a failing bucket |
| Cloud boot, `core/cloud/boot.rs`, `snapshots.rs`, `main.rs` | cache, snapshot file, warnings | `boot_restore` with layers L3 to L5, snapshot fallback | every step can fail, and what it leaves is what later appends build on |
| Gateway, `core/gateway.rs`, `core/commands.rs` | `active_chats`: one cancel flag per chat | `chat_with_events`, `cancel_chat`, `/clear` | desktop turns of one chat overlap; early returns; messages are saved after the loop |
| Local sessions, compaction, titles, `core/sessions/`, `core/compaction.rs`, `core/title_gen.rs` | one JSONL file and one metadata sidecar per chat | `append`, `get_branch`, `clear`, `compact`, `rename`, `bump_activity`, title generation | read and written without a lock by two threads; a write truncates first; the title is decided before a wait for the LLM |
| Agent loop, `core/agent_loop.rs` | messages of the turn, error, nudge and tool counters | `run_loop`, `execute_tool_calls` | cancel at any point, retries, nudges and tool batches share one loop |
| Loop detector, `core/tool_loop.rs` | window of the last 30 calls | `check`, `record_call`, `record_outcome` | three detectors tested in turn over one window |
| LLM runners, `esp32/runner.rs`, `core/runner.rs`, `esp32/http_client.rs` | the kept connection, `TLS_MUTEX` | request, retry, classify, parse | three layers retry, a reset is told from a refusal by its text, the device has memory for one TLS context |
| Cron, `core/cron.rs`, `core/tools/cron_tools.rs` | job file | add, update, remove, due, result | next-run arithmetic, ids from the clock, failures counted across runs |
| Memory, jobs, configuration, `core/cloud/strict.rs`, `core/tools/memory_tools.rs`, `main.rs` | cache, bucket, file, NVS | `strict_put`, edits of MEMORY.md, saves of jobs, `PUT /api/config` | three places, any of which may fail or be read first after a restart |
| Telegram and chat requests, `core/channels/telegram.rs`, `main.rs`, `desktop/` | poll offset, request queue, open replies | poll, send, REST, WebSocket | offset against delivery; clients that hang up; restarts |
| Conversions, `core/channels/markdown_html.rs`, `core/tool_recovery.rs`, runners, `memory_tools.rs` | none | Markdown to HTML chunks, MEMORY.md, markup to calls, messages to requests and to page events | limits that fall inside a token, text that looks like syntax |
| Start-up, `main.rs`, `net/`, `led_status.rs` | credentials, driver, LED, threads | bring-up, wait for an address, start of web server and agent, restart | the web server answers before and while the rest comes up; some failures halt the device |
| Subagents, `desktop/` | running subagents | spawn, join, limits | nothing constructs the registry |
| Web page, `src/web/app/composables/` | connection state, timers | connect, reconnect, disconnect | timers that fire late |
| Everything else | | | drivers, static pages, logs |

How they interact: a message reaches the gateway over HTTP, WebSocket or
Telegram.  The firmware queues all messages for one agent thread; the desktop
spawns a task for each.  The gateway compacts the session if it is too big,
reads it into a prompt, appends the user message, runs the agent loop, appends
what the loop has produced, and may ask the LLM for a title.  The loop calls a
runner, which takes the TLS lock for each exchange.  In cloud mode an append
grows the cached log and calls `enqueue`; the drainer thread PUTs.  Memory,
jobs and the configuration do not use the queue but PUT before they return. The
status page shows dead letters and boot warnings.

What makes each part correct, in one line:

* replicator: an accepted write reaches the bucket, gives way to a newer one,
  or is shown as dead; nobody sleeps for ever; memory is bounded;
* cloud sessions and boot: a crash leaves a prefix of the history, and the next
  append continues it;
* turns: one chain, no half tool exchange in a prompt, every turn can be
  stopped and ends;
* session files: only what was summarised is dropped, the user's title wins;
* agent loop: every call has one result; cancelled and stuck turns end;
* runners: a request ends, a refused one is not repeated;
* documents: what a call said it saved is read again, what it said it did not
  save is not;
* cron: the next run is the next instant of the schedule, failing jobs stop;
* channels: no message is forgotten before its turn, every request is answered;
* conversions: nothing is lost, reordered or invented;
* start-up: the LED tells the truth, a start ends.

## 2. Modules

| Module | Stands for | Built from |
|---|---|---|
| `WriteQueue` | the queue and the two ways into it | pure operators |
| `EagerWrites` | what the eager path promises its callers; abstract | |
| `Replicator` | `replicator.rs` | `WriteQueue`; implements `EagerWrites` |
| `CloudSession` | one chat in cloud mode across reboots | `WriteQueue` |
| `Turns` | the turns of one chat on a local session file | |
| `SessionFiles` | auto-compaction, title and deletion beside the turns of a chat | |
| `LoopDetector` | the tool-loop detector | pure operators |
| `AgentLoop` | one run of the agent loop | `LoopDetector` |
| `LlmCalls` | one LLM request through three retry layers, the kept connection and the TLS lock | |
| `Documents` | memory, jobs and configuration in cache, bucket, flash and NVS | `Entries` |
| `Cron` | the schedule of jobs | `Entries` |
| `Channels` | Telegram, REST and WebSocket up to the gateway and back | |
| `Startup` | start-up, LED and restarts of the firmware | |
| `TelegramHtml`, `MemoryFile`, `ToolMarkup`, `ToolArguments`, `Transcript` | one conversion each | pure operators |
| `Conversions` | one step per conversion, with what it must give back | the five above |
| `Entries` | a keyed document: an entry put in, an entry taken out | pure operators |
| `ReplicatorProofs`, `CloudSessionProofs`, `TurnsProofs` | theorems | the module of that name |
| `ChatProofs` | theorems about the files of a chat and the loop of a turn | `SessionFiles`, `AgentLoop` |
| `TranscriptProofs` | theorems about messages on their way to requests and history | `Conversions` |
| `ConversionsProofs` | theorems about markdown and MEMORY.md | `TranscriptProofs` |
| `CallsProofs` | theorems about the calls the program makes and the messages it is sent | `LlmCalls`, `Channels` |
| `DocumentsProofs` | theorems about what is kept, the jobs kept there, and the start that restores it | `Documents`, `Cron`, `Startup` |
| `MC*` | constants for TLC | the module of the same name |

The modules meet where one takes the other's result as a step: `Channels` and
`SessionFiles` take a turn as one or a few steps, `Turns` takes the agent loop
as rounds, `AgentLoop` takes an LLM call as one step, `Cron` takes a save as
one, `CloudSession` takes a queue of its own.  What the smaller module shows
(`TurnsEnd`, `TurnEnds`, `RequestEnds`, `CallsReturn`, `AppendReturns`) is what
lets the larger one treat the step as one that ends.  `Cron`, `Startup`,
`LlmCalls` and `SessionFiles` carry their own names for the initial states and
the next-state relation (`CronSpec`, `StartupSpec`, `LlmSpec`, `FilesSpec`), so
that one module of proofs can speak of them and of `Documents`, `Channels` or
`AgentLoop`.

**Replicator.** Each critical section of the mutex is one action: `Enqueue` and
`Resume` split `enqueue` at its `cv.wait`; `DrainerWait`, `DrainerExit` and
`DrainerPop` are the three ways through the drainer's first critical section;
`notify_all`, the PUT and the backoff sleep run without the lock and are
actions of their own.  `waitSet` is the condition variable; spurious wakeups
are allowed.  A write carries the number of its acceptance for its bytes, so
newer and older can be told apart.  A failing PUT may have landed.  `accepted`,
`newest`, `landed` and the field `tries` are history: no guard of the program
reads them, except that `accepted` carries the bound.

**CloudSession.** Objects are sequences of lines; a line is a message with its
parent, a `session_info`, or a mark.  `append` is split at each `enqueue`,
which can block and between which power can fail.  The eager path is the one of
`Replicator` with a PUT and its outcome in one step and the wait for room as a
guard.  `Text`, `Leaf` and `Branch` are the readers of the code.  A single
object is written whole or not at all, which is what the bucket and the rename
of the snapshot give; sizes count lines.  `KeyOrder` is the order of LIST,
which decides what a partial restore leaves.  `delete` runs on an HTTP thread,
in two steps, beside the agent thread.  `leftover` is history: a deletion has
emptied the cache while objects were left in the bucket, writes were queued, in
hand or about to be enqueued, or an append ran between its steps.

**Turns.** A turn is a program counter per message, from registration in
`active_chats` to `Done`.  `LookUpLeaf` and `Write` are the two halves of
`append`.  A behaviour begins with a choice of `build`: how many turns can run
at once (1 for the agent thread of the firmware, more for the desktop), how
many messages and rounds there are, and what may happen.  The agent loop is
reduced to rounds of calls, nudges, a reply, an error or a cancellation.  The
sizes at which `maybe_compact` acts are not reached.  A line and the
`session_info` behind it are one element, since the code writes them with one
call; a write cut short by a restart is in `SessionFiles`.  `robbed` is
history: turns whose flag another turn has taken out of the map at its end.

**SessionFiles.** The agent thread's place in a turn is `at`: `maybe_compact`
reads, waits for the summary, reads the branch again, truncates the file and
writes it line by line; then come the prompt, the appends, the sidecar's
activity and the title, each a read and a write.  The HTTP thread's list,
rename and delete are steps of its own between them.  A message is its number,
its kind and one of two weights, which is all that thresholds look at.  `file`
is the branch, and `tail` what else the file has: a write that a full disk or a
restart cuts short may leave lines that are not on the branch (`cut`), or a line
without an end (`torn`), which the next append continues.  A turn that is
cancelled or fails saves fewer messages (`Turnings`).  A behaviour begins with a
choice of `setting`, the bounds and what may happen together.  `excused` and
`gone` are history: messages that may be missing, and messages that must not
come back.

**AgentLoop and LoopDetector.** One action per way an LLM call can end and per
way a tool call can be handled; cancel may come at any time.  Calls and results
stand for their hashes.  `messages` keeps what was pushed since the last
answer: earlier messages do not change, so turns of any length have finitely
many states.  Whether the LLM asks for tools it was not offered is chosen at
the start (`obeys`).

**LlmCalls.** `pc` follows the agent thread through one request: a call of the
runner, an attempt, the lock, the exchange, the sleep of the backoff, the
verdict, the pause of the circuit breaker.  The provider and the network answer
anything; a kept connection may be closed by the server at any time. Tools on
the same thread use TLS between requests.  `Others` are the threads of the web
server and the replicator, which use S3 without the lock, as the code does.

**Documents.** A tool call is load, change and save, split at each place it
writes: cache, bucket, file, with a reload first where the code reloads.
`Boot` is steps 6 and 7 of `boot_restore` with its fallbacks.  `PUT
/api/config` is the handler's save to NVS, its strict write and the delayed
restart.  `kept` and `failed` are history: what calls said they saved, and
which said they did not. `detour` holds the documents whose next read comes
from a place older than their last save.

**Cron.** Time is a counter up to `MaxTime`; a schedule is a date or an
interval with its anchor.  Adding, updating, removing, the tick and the result
of a run are one step each, since all of them hold the job file for one call;
their interleaving with failing saves is in `Documents`.  An update may leave
out `enabled`, and then keeps the errors; it always sets the next run anew,
without a backoff (`eased`).  A job's run is started by whoever takes the due
jobs, which the code leaves to a TODO: `apply_job_result` is public and tested,
and nothing calls it yet.

**Channels.** `desktop` chooses the program.  On the firmware `at` is the agent
thread: it drains one chat request, polls, and works through the batch. On the
desktop a producer, a channel and a task per message do so. Telegram's side is
`sent` and `confirmed`: it forgets what is below the offset of a poll.
Delivery goes chunk by chunk, HTML first and plain text after a refusal.

**Startup.** `pc` is the main thread, `agent` the agent thread, `put` and
`restart` the handler of `PUT /api/wifi` (two writes to NVS) and the thread
that restarts the device. The network that is there is chosen at each start.

**Conversions.** No state but the input: `Convert` applies the code's
algorithm, and the invariants compare the result with what it must be.
`TelegramHtml` renders lines to tokens with the width they have on the wire,
splits blocks between tokens and packs them.  `MemoryFile` writes and reads the
file, with titles of several lines and tags that hold a newline or end in a
parenthesis.  `ToolMarkup` scans a text for calls of two syntaxes, with quotes
of both kinds and escapes; `ToolArguments` coerces and validates what was found. `Transcript`
carries a session's messages from the provider's answers into the turn, the
file, the next request and the page's events; `IsSession` says which sessions
there are, and the inputs of that kind are assumed to be such, as the lines of
markdown are assumed to be `Lines`.  The scanners are
recursive functions of the place they have come to, and what the code does for
each message or call is a map flattened to one sequence, so that both can be
reasoned about.

## 3. Runs

`llm_calls` checks for deadlock.  In the other runs a deadlock is not an error:
the system may stop when the bound on writes, messages, calls or turns is
reached or the program has ended.  What must not stop is stated as a liveness
property instead.

| Run | Bounds | Shows |
|---|---|---|
| `replicator` | 3 keys, 2 writers, cap 2, 1 retry, 4 writes; 337,354 states | no lost wakeup, no silent loss, retry budget, everything drains, refinement of `EagerWrites` |
| `cloud_crash` | 5 messages, fold at 2 lines, 2 crashes, `/clear`; 147,814 states | a crash leaves a prefix, appends extend the history across reboots |
| `cloud_faults` | 2 messages, 1 crash, cap 2, no retry; PUT, GET, LIST and range faults, delete, snapshot; 653,009 states | the device reads its own writes, appends return |
| `turns` | one lane: 3 messages, 2 rounds, cancel and `/clear`, or 2 messages and every fault; two lanes: 3 messages and `/clear`, or 2 messages and every fault; 503,428 states | a running turn can be stopped unless another has taken its flag, one chain, well-formed prompts, every turn ends |
| `agent_loop` | window 4, thresholds 2, 3, 4; batches of 2; 393,742 states | results follow calls, streaks, cancellation, every turn ends |
| `documents` | 3 calls, 2 entries, 1 retry, 1 crash, 1 new configuration, every fault; 1,327,757 states | acknowledged text is read again, failed changes are not, acknowledged means in bucket and file |
| `cron` | time 4, 4 ids, a check every 2 ticks, 2 jobs, 2 failures; 781,918 states | next run against its definition, failures counted through updates, backoff and stop |
| `sessions` | 2 messages kept, threshold 3, weight 4; six settings: 2 turns with HTTP and long messages, crashes or a full disk, and 1 or 2 renames; 2 turns with all faults and long messages; 3 turns with HTTP, or with crashes and long messages; 3,862,011 states | nothing dropped unread, compaction settles, title of the user, deletion at any step of a turn |
| `channels` | 2 updates, replies of 2 chunks, a REST and a WebSocket request, queue of 1, 1 restart; 83,287 states | no message forgotten unrun, every request ends |
| `llm_calls` | both programs, the code's 4, 3 and 3 attempts, 2 other threads; 48,627 states | a dead kept connection costs one attempt, a refused request is not repeated |
| `conversions` | limit 28, single lines up to 6 characters, 3 lines, 2 entries, 2 calls, titles of 2 lines, 2 tags, both quotes, sessions of 2 turns; 43,558 inputs, 87,116 states | valid chunks, text kept, entries and calls found again, requests paired, signatures returned, replay equals live |
| `startup` | 2 networks, 2 passwords, 3 starts, 2 requests; 26,529 states | LED, a start ends |

Why the bounds are enough.  In `replicator` a key can have a retried entry, a
fresh one and a third write on the way, both writers can be asleep together
with room for one, and the drainer can be in any state meanwhile; 3 keys are
needed to fill a queue of two with the drainer holding a third.  In
`cloud_crash` five messages make five folds at one append each, so marks move
several times and a crash falls into each of the three writes of a later fold,
then into the recovery from it.  In `cloud_faults` two messages put base, mark
and two logs into play, each of which can be missing; the cap of 2 blocks the
append, whose three writes do not fit.  In `turns` the third turn of one lane
reads what two others, one perhaps cancelled and one perhaps `/clear`, left;
two lanes and two messages give every overlap of two turns, and a third message
one that starts when a flag has been taken away.  In `agent_loop`
the thresholds keep the order of the real 30, 10, 20, 30; the window is one
longer than the critical threshold, which is what a streak needs to be seen to
exceed it.  In `documents` three calls are add, change and read again on either
document, with the crash, the new configuration or the lost file between any
two of their steps; two entries fill the cap.  In `cron` two jobs can clash, be
due together and fail twice each, which is the limit; four instants hold two
intervals.  In `sessions` two turns exceed the window with one compaction,
in which a delete, a crash or a full disk can fall; three exceed it twice, so a
summary is itself summarised; two renames and a title meet on one sidecar.  In `channels`
a second update is in the channel, in the batch or unseen while the first is in
its turn or half delivered.  In `startup` a second start tries what the first
was told, and a third what the second was told while it came up.  In
`conversions` the limit of 28 characters is little more than the tags of a
line, so that it falls at every place of text, tags and entities within two
lines.

Fairness.  Threads that can run are scheduled (OS threads or a tokio runtime),
so `DrainerStep`, `Resume`, the agent thread, a started turn, a task of the
desktop and the main thread of a start are weakly fair.  No caller is obliged
to call, no PUT to succeed, no user to cancel.  An LLM call ends because its
HTTP client has a timeout, and so does a tool's, a delivery to Telegram and a
request to the bucket. `BlockedReturns` leans on `MaxWrites`: with writers that
call for ever, a writer woken for room can find it taken each time, since
nothing orders the writers; the condition variable does not promise more, and
neither does the code. No step of a turn waits for another turn, so fairness of
each turn is what the runtime gives.

Each property has a mutant: an operator beside the definition it alters (its
comment says "Mutant of"), which breaks the property under the same bounds.

These hold under the constants of the runs as well, and no run lists them:
`TypeOK`, `Bounded`, `OneSlotPerKey`, `DrainedAtExit` and `BlockedReturns` of
`Replicator`; `TypeOK`, and with `MCCloudSession.cfg` `SyncedIsDurable` and
`NothingErased`, of `CloudSession`; `TypeOK` of `Turns` and `Documents`;
`CronTypeOK` and `JobsAccounted` of `Cron`; `TypeOK` and `CancelEnds` of
`AgentLoop`; `CallsReturn` of `Documents` under `FairSpec` and `RequestEnds` of
`LlmCalls` under `LlmFairSpec`; `TypeOK` and `LockHeldForExchange` of `LlmCalls`;
`DeliveredIsPrefix` of `Channels`.

## 4. Disagreements

These properties state what a comment or a doc line says, or drop a condition
that a checked property needs; TLC violates each under the constants given.
They are not runs of their own.

| Property | Module | Violated with | Why |
|---|---|---|---|
| `LastWriterWins` | `Replicator` | `MCReplicator.cfg`, one key, one writer, `QueueMax = 3`, `RetryMax = 2`, `MaxWrites = 3` | a retried entry and a newer one to its key share the queue, and a third write replaces the first of them: older bytes land last (`replicator.rs:90`) |
| `FullRetryBudget` | `Replicator` | `MCReplicator.cfg` | a coalesced value inherits the retries of the one it replaced (`replicator.rs:90`) |
| `CapCountsInFlight` | `Replicator` | `MCReplicator.cfg` | `queue_max` is documented as "in-flight + pending"; the write in hand is not counted |
| `ResumesBelowHalf` | `Replicator` | `MCReplicator.cfg` | writers resume when there is room for one, not "below half-cap" |
| `ForgottenStaysGone` | `CloudSession` | `MCCloudSession.cfg` | `/clear` looks for keys with the prefix `sessions/` where they start with `sys/sessions/` (`sessions/mod.rs:848`) |
| `AppendExtends` | `CloudSession` | `MCCloudSession.cfg` with `SessionMax = 6`, 4 messages, 1 crash | a chat above the budget is restored by its tail, whose first parent is missing; the next append is off the branch (`boot.rs:323`) |
| `ReadYourWrites` without `~leftover` | `CloudSession` | `MCCloudSessionFaults.cfg`, 3 messages | writes of a chat that are under way when it is deleted land afterwards (`sessions/mod.rs:906`); the next hydration finds a log, and the chat goes on below it |
| `AbsorbedInBase` | `CloudSession` | `MCCloudSessionFaults.cfg` | the base is a dead letter, the mark lands |
| `QuarantineResets` | `CloudSession` | `MCCloudSessionFaults.cfg` | keys read before the failing GET stay in the cache |
| `NothingErased` | `CloudSession` | `MCCloudSession.cfg`, events `crash`, `list_error` | a failed LIST reads as an empty chat; log-00 is overwritten |
| `CrashLeavesPrefix`, `SyncedIsDurable` | `CloudSession` | `MCCloudSession.cfg`, events `put_error` | retries, dead letters and coalescing let keys land out of order |
| `CanBeStopped` without `robbed` | `Turns` | `MCTurns.cfg` | two turns of a chat on the desktop: the first to end removes the flag of the other (`gateway.rs:369`) |
| `SingleChain` without `Orderly` | `Turns` | `MCTurns.cfg` | two turns look up the same leaf (`sessions/mod.rs:696`); a failing append is skipped |
| `PromptWellFormed` without `Orderly` | `Turns` | one lane, one round, events `restart` | a restart between two appends of a turn leaves a call without result |
| `RepeatsBlocked` | `AgentLoop` | `MCAgentLoop.cfg`, window 6, thresholds 2, 4, 6, batches of 1 | the ping-pong warning is tested first and hides the repeat (`tool_loop.rs:90`) |
| `BreakerStopsLoop` | `AgentLoop` | `MCAgentLoop.cfg` | a blocked call is an answer like any other: an LLM that keeps asking keeps the loop going |
| `OneTlsExchange` | `LlmCalls` | `MCLlmCalls.cfg` | S3 and the web tool open connections without `TLS_MUTEX`; the doc (`http_client.rs:6`) has it taken before any of them |
| `SummaryInPrompt` | `SessionFiles` | `MCSessionFiles.cfg` | in cloud mode the rewrite goes to the local file and the prompt comes from the cache (`gateway.rs:242`, `sessions/mod.rs:946`) |
| `NothingDroppedUnread` without the exception in `CutShort` | `SessionFiles` | `MCSessionFiles.cfg` | `compact` truncates the file and writes it again (`sessions/mod.rs:993`); on a full disk or at a restart the entries that were not rewritten are gone; the error is logged and the turn goes on |
| `NothingDroppedUnread` without the exception in `Written` | `SessionFiles` | `MCSessionFiles.cfg` | a line cut short swallows the next append, whose `session_info` names it as leaf: the branch ends there, with all before it hidden |
| `DeletedStaysGone` of every deletion | `SessionFiles` | `MCSessionFiles.cfg` | a compaction that has read the branch the second time writes the deleted messages back |
| `UserTitleStays` without `AgentWillWrite` | `SessionFiles` | `MCSessionFiles.cfg` | a rename between the read and the write of a turn's activity, or while the LLM looks for a title, is undone |
| `Kept` | `Documents` | `MCDocuments.cfg` | memory "survives reboots" (README), but a boot may restore an older place than the last save reached |
| `EntriesReadBack` without `Storable` | `Conversions` | `MCConversions.cfg` | titles of several lines, tags and contents that look like syntax; see Memory below |
| `CallsRecovered` without `Quotable` | `Conversions` | `MCConversions.cfg` | a backslash at the end of a value takes the closing quote for an escaped one (`tool_recovery.rs:152`): the call is lost, or swallows what follows |
| `ReplayIsLive` without `Enveloped` | `Conversions` | `MCConversions.cfg` | the desktop's history endpoint takes `[...] ` off the beginning of a user's text (`desktop/server.rs:260`, `300`), for an envelope that nothing in the code adds: what the user typed between brackets is not shown again |
| `EveryChunkHasText` | `Conversions` | `MCConversions.cfg` | a chunk of tags only is refused twice, and the rest of the reply with it (`telegram.rs:210`: "can never lose a message") |

So the guarantees of `cloud_crash` are those of a bucket that answers:
`CrashLeavesPrefix`, `SyncedIsDurable` and `NothingErased` do not survive
failing PUTs or a failing LIST.

What else the modelling met, in prose:

* Gateway: a turn whose session cannot be read leaves by `?` without an event
  and with its flag registered (`gateway.rs:240`); an error of the loop drops
  the turn's tool exchanges (`gateway.rs:324`), though the tools ran; a cancel
  that comes while the message is queued has no effect.
* Overlapping turns of the desktop: a turn that has messages to save when
  another handles `/clear` writes them to the new file (`sessions/mod.rs:820`),
  so that lines of before the `/clear` begin the next conversation.
* Compaction: in cloud mode the cache stays as large as it was, so every later
  turn compacts again, and a second summary is made without the first; a tool
  result can be kept whose call was summarised.
* Deletion: a turn that is under way when its chat is deleted goes on, appends
  to a new file and makes the sidecar again, so the chat is listed again.
* Titles: the generator does not look again at `title_source` after the LLM has
  answered; `bump_activity` starts a new sidecar on any read error, and a
  sidecar can be read while it is empty.
* Memory: the doc names one limitation (`memory_tools.rs:32`), a content with a
  heading and metadata below, which becomes an entry; there are others.  A title
  is trimmed at its ends only (`memory_tools.rs:117`), and with a newline inside
  makes two lines, the second of which is read as metadata or hides the entry;
  one that begins with a bracket is not read back; a tag with a newline loses
  what is behind it to the content; the last tag loses the parentheses it ends
  in (`memory_tools.rs:498`); text above
  the first heading is dropped at the next save; a file written over
  `/api/files/write` is not seen in cloud mode; step 8 of the boot fetches
  SOUL.md and AGENTS.md into the cache, and the prompt reads them from files.
* Jobs: an update sets the next run by the schedule alone, so that a failing job
  loses its backoff, also where the errors are kept because `enabled` is absent
  (`cron_tools.rs:192`, `230`); ids come from the clock and can clash; a one-shot that is updated when
  due never fires, and one that failed stays; `running_at_ms` is never set, and
  nothing calls `apply_job_result`; a formatted flash loses all jobs, as they
  are read from the file only.
* Configuration: JSON that is no `Config` is saved and makes the next boot use
  the defaults; the restart after a PUT does not wait for the replicator's
  queue.
* Telegram: the firmware may run a message twice, the desktop may lose one;
  table cells beyond the header are dropped.  A REST chat holds the only HTTP
  thread of the firmware for its turn.  On the desktop it is dropped with its
  client, its flag still registered, and WebSocket events carry no chat.
* Runners: on the desktop a transport error has no status in its text, so
  `classify_genai_error` makes it `Api` (`core/runner.rs:798`), which `call_impl`
  does not retry: it is left to the three attempts of the agent loop.  Any error
  text with "rate" in it counts as a rate limit there; a reset after the provider has worked makes it work twice; system
  messages within a turn replace the prompt on the desktop; calls without an id
  share one or are dropped.
* Recovery: the ids of recovered calls repeat in every answer; one GLM call
  without arguments makes all recovery of that answer fail.
* Replay: the history endpoint shows texts that were nudged away, starts before
  finishes, and no tools of turns that failed; every result is shown as a
  success.
* Start-up: wrong WiFi credentials halt the device until it is provisioned over
  serial; a link without an address comes up "idle" and unreachable; ssid and
  password are two writes; the clock is set in the background, so on a cold
  boot the first LIST can be refused and the snapshot is used.

## 5. Proofs

### The replicator

`ReplicatorProofs` proves, for any set of keys and writers, any cap above 0,
any retry limit of a u8 and any bound on writes:

* `TypeCorrect`: `Spec => []TypeOK`.  `TypeOK` is inductive as it stands
  because it ties `item` to `dpc`: the drainer holds a write exactly between
  pop and settlement.  Without that part `PutErr` and `Requeue` could not be
  typed.
* `QueueBounded`: `Spec => []Bounded`.  Inductive together with `TypeOK`: a pop
  moves one write from queue to hand, a retry moves it back, so only `Admit`
  adds to the sum, and it is enabled only when the queue is below the cap.
* `WakeupsNotLost`: `Spec => []NoLostWakeup`.  This is why one condition
  variable suffices: the drainer can be asleep only on an empty queue; then no
  writer is asleep, as the queue has room, so `notify_one` from `enqueue` can
  reach only the drainer.  The clause about `dpc = "notify"` covers the stretch
  between the pop and its `notify_all`.

Then it follows the writes themselves:

* `NewestNotLost`: `Spec => []NewestAccounted`, inductive together with
  `TypeOK`.  A step loses nothing if every write keeps a place (queue, hand,
  dead letters) with the same key and bytes, or lands (`StillAccounted`).  Only
  an admitted write can push out another, and it pushes out an older one to its
  own key.
* `ExitIsDrained`: `Spec => []DrainedAtExit`, by `DoneIsFinal`: the drainer
  leaves only while `stopping`, and nothing is admitted from then on.
* `RetriesBounded`: `Spec => []RetryBudget` for `RetryMax < 255`, by
  `CountsInOrder`: the PUTs of a value never exceed the retry count of its
  entry, which may have inherited retries from a value it replaced but not lost
  any.
* `OneSlotEach`: `Spec => []OneSlotPerKey` for `RetryMax < 255`, by
  `SlotsInOrder`: while a write is in hand the queue has one entry per key, so
  putting the write back makes at most one double, at the head.

The last two assume `RetryMax < 255` because the count is a u8: at 255 it wraps
to 0 before it can exceed the limit, and the write would be retried for ever.
The default is 5 (`config.rs:199`).

It ends in `ImplementsEagerWrites`, `Spec => Abstract!Init /\
[][Abstract!Next]_(Abstract!vars)`.  `Admit` is `Accept`, a
PUT that lands is `Deliver`, `Demote` is `GiveUp`, `Stop` is `Close`, and
everything else is a stutter.  What it needs is `ValuesInOrder`: the writes in
queue and hand are all different and older than the next one. Otherwise taking
one away could take away the pair that stands for another. The abstract
fairness is in `RefinesEagerWrites`, which TLC checks.

The assumptions are those of `Replicator`: the drainer is not a writer, cap and
retry limit have their ranges, `NoItem` is not a write.  The lemmas on the way
give the type, length and positions of a queue after `Coalesce` and
`PushFront`, and what `notify_one` leaves of the wait set.  `LeastNat` derives
from the library that a set of naturals has a least member, which serves where
an induction would need an operator as parameter.

### A chat in the cloud

`CloudSessionProofs`, for any fold size, budget, cap, number of messages and of
reboots:

* `TypeCorrect`: `Spec => []TypeOK`, under all events, by `Typed`: a message is
  younger than its parent and a mark names a log that was written.  Without
  that neither the walk up the parents nor the number of the next log could be
  bounded.
* `SentIsRead`: `Spec => []ReadYourWrites`, under all events, by `Lives`.
  Before the first crash, and unless a deletion was overtaken, the cache has
  either no trace of the chat or the newest message at the end of its active
  log, or of the base that has just absorbed it; a fold moves the message
  before it moves the mark.
* `PrefixSurvives` and `AppendLinks`: `Spec /\ []Short =>
  []CrashLeavesPrefix`, `Spec /\ []Short => AppendExtends`, assuming `Calm`: no
  failing PUT, GET or LIST and no deletion.  `Short` keeps the chat within
  `session_max_bytes`, so that no boot restores a tail.  Each of these
  assumptions is needed; section 4 has what happens without it, and
  `MCCloudSession.cfg` satisfies them.

The invariant behind the last two is `Kept`.  A crash may come between any two
writes, so it has to speak of every store that the bucket is about to be:
`Piped` says that there is one store for each write in hand or queued, which
begin with the bucket and end with the cache less the object `append` is about
to enqueue, and each of them is `Behind` the cache: its logs and its base are
rooted in what they build on, its messages are messages of the cache, and the
line its text ends with is on the live branch.  A store that is behind reads as
a prefix (`BehindIsPrefix`), because the walk up the parents from one place
is the same in both.  The hard steps are the ones of a fold.  Base and mark are
two writes, so between them the bucket has the new base and the old mark, and
the log's messages twice; and once the mark lands, the end of the base must be
on the live branch, as the log behind it is not read any more (`Lands`).
Coalescing replaces a write in the middle of the pipe by a later one: the
stores after it get the new text before the writes between them
(`AdmitsAt`, `Stage`).

### The turns of a chat

`TurnsProofs`, for any set of messages and any set of builds:

* `TypeCorrect`: `Spec => []TypeOK`.  The bound on what a turn saves needs
  `Counted`, which ties the saved lines and those still to save to the rounds
  begun.
* `RunningCanBeStopped`: `Spec => []CanBeStopped`, for any lanes, by `OneLane`:
  a turn that runs is cancelled, registered or robbed, and whoever takes the
  flag out of the map, or puts another there, leaves one of these behind.  With
  one lane the registered turn is the one that runs, and no other can end.
* `WholeFileIsRead`: `Spec => []SingleChain`, by `Chained`: with one lane and
  nothing failing, every line has the line before it as parent, and the leaf
  that a turn has looked up is still the leaf, since nobody else appends before
  the write.  The walk up the parents is bounded by the length of the file,
  which is where the order of the lines comes in.
* `PromptsPaired`: `Spec => []PromptWellFormed`, by `PairedFile`, `PairedTodo`
  and `Exchanges`: a call at the end of the file has its result first in what
  the turn has still to save, and only a turn at work leaves one there.

### Sessions on file

`ChatProofs`, for any window, threshold and settings, and all events:

* `NothingUnreadIsDropped`: `FilesSpec => []NothingDroppedUnread`, by
  `Histories`: while the summariser reads, the history is what it was given or
  was deleted; what is rewritten holds all that the branch did at the second
  read but the messages put before the summariser; a turn's messages have the
  next numbers.  A rewrite that stops excuses what it has not written, and a torn
  line what it hides (`RewriteCutShort`), and nothing else.
* `CompactionSettlesAbove`: `FilesSpec => []CompactionSettles`, assuming that the
  threshold is above the window that is kept, by `Settling`.  The defaults keep
  six messages, each truncated to 24 KB, against 200 KB.
* `TitlesStay`: `FilesSpec => []UserTitleStays`, by `TitleKept`: once a name is set
  and nobody holds an older sidecar, every sidecar read or about to be written
  carries it.
* `DeletedChatsStayGone`: `FilesSpec => []DeletedStaysGone`, by `Forgotten`:
  what was deleted is in neither history nor in one about to be written.  The
  second read of the branch is what keeps it out when the delete came while the
  summariser was at work, and a turn's messages are newer than any deleted one.

`NatSetInduction` gives induction over a set of naturals, from the library's
theorem that `<` is well-founded: a set can be a parameter where an operator
cannot.  With it `MessagesOf` says what the recursive function of the prompt
takes from a history of any length.

### The agent loop

`ChatProofs`, for any tools and results, any batch size, any window and
thresholds in the order of the code's:

* `CancelIsObeyed`: `Spec => []CancelStopsTools`, by `LastTool`: a tool that
  ended under a cancel was the last.
* `ResultsPaired`: `Spec => []ResultsFollowCalls`, by `Paired`: the results so
  far are those of the first calls of the batch, in order, and the calls of a
  batch are fixed when its answer is pushed.
* `TypeCorrect` and `StreaksStop`: `Spec => []TypeOK`, `Spec =>
  []StreakBounded`, by `Watched`: only the tool that runs waits for its result,
  and it is the last of the window.  The lemma `StreakIsBlocked` carries the
  argument: a call that has filled the last `CRITICAL_THRESHOLD` places is no
  ping-pong, so the detectors tested before do not hide it.

### Requests to the LLM

`CallsProofs`, for any set of other threads, on both programs:

* `LlmTyped`: `LlmSpec => []TypeOK`, with `PostsCounted`, that the three layers together let a
  request be answered `Attempts` times 3 at most.
* `StaleOnce`: `LlmSpec => []KeptConnectionCostsOne`, by `StaleCounted`: the
  connection is taken at the first attempt, and the next is kept by the answer
  that ends the call.
* `LockIsBrief`: `LlmSpec => []LockHeldForExchange`.
* `RefusalsFinal`: `LlmSpec => RefusedStaysRefused`, an action property, by
  `RefusalKnown`: a refusal is on its way up as a verdict that no layer
  retries.

### Documents, jobs, start-up and channels

`DocumentsProofs`, for any bounds and faults:

* `FailedStaysOut`: `Spec => []FailedJobsStayOut` for any number of threads, by
  `Apart`: calls have numbers of their own, and neither the job file nor a text
  about to be written holds an entry of a failed call, or of another that may
  still fail.
* `AckedIsDurable`: `Spec => AckedIsInBucket`, assuming `OneThread`, by
  `PutIsThere`: after the PUT the bucket holds what the call is about to write.
  With two threads the other's PUT can come between.
* `SavedIsRead`: `Spec => []KeptWithoutDetour`, assuming `OneThread`, by
  `AllHeld`: of each document without a detour, the place that is read next
  agrees with what calls said they had saved, except for what the call under
  way changes; memory is read from the cache if it is there and from the file
  otherwise, so a save is followed through all the places on its way.

About `Cron`, for any backoff table, limit, schedules, id space and period of
the tick, by one invariant, `CronInv`:

* `CronTyped`: `CronSpec => []CronTypeOK`.
* `NextRunsAreLeast`: `CronSpec => []NextRunIsLeast`.  `Periods` is the fact
  about rounding up that it rests on, for any elapsed time and interval.
* `FailuresBackOff`: `CronSpec => []FailingJobBacksOff`.  It needs
  `OneJobPerStory`, since ids are used again, `LimitStops`, and `Told`: a job
  has counted as many errors as its story has failures since it was last
  enabled, and it waits for the last of them until an update sets another time.
* `JobsStayAccounted`: `CronSpec => []JobsAccounted`, inductive with
  `OneJobPerStory` and `SameOnce`.  TLC checks it under the constants of the
  run, which does not list it.

About `Startup`, `LedTellsTheTruth`: `StartupSpec => []LedTruthful`, for any
networks, credentials, waits and restarts.  It needs `ThreadsFollowMain`: the
agent thread exists only once main is done, and the web server, which may set
the LED and restart the device, only after main can no longer give up.

About `Channels`, in `CallsProofs`, `RunBeforeForgotten`: `Spec => []ConfirmedWasRun`, for any
number of updates, restarts and requests.  `ConfirmedWasRun` is not inductive:
what the next poll will confirm is what is below the offset, so `SeenIsHandled`
says of that what the property says of the confirmed, and `Shape` that the
firmware polls with empty hands.

### From answers to requests and history

`TranscriptProofs`, for sessions of any number of turns, answers and calls, on
both programs, and for any limit of the history:

* `RequestsArePaired`: `Spec => []RequestsPaired`.  Every request is put
  together from units (`Units`): a message of its own, or an assistant message
  with its calls and then their results.  What is made of units is paired
  (`UnitPaired`, `PairedConcat`, `BuiltPaired`), and each step on the way keeps
  units whole: what a turn pushes (`PushedBuilt`), what it persists
  (`UnitStored`), what is sent of it (`UnitSent`).  The warnings of the loop
  detector come after the results, which is what makes a batch a unit; they are
  dropped on the way to the file, and calls and results are not.
* `SignaturesGoBack`: `Spec => []SignaturesReturn`, by `SigningTurn`: the
  signatures of what a turn pushed are those of its answers, in order; the map
  to the file keeps them on the firmware and drops them on the desktop, where
  the raw calls carry them within a turn.
* `HistoryIsReplayed`: `Spec => []ReplayIsLive`.  Of each kind of events the
  stored messages of a turn give the same as the page was shown (`TurnShown`),
  on the desktop if `strip_envelope` leaves the user's text alone;
  and the last `MaxEvents` of a sequence, reduced to a kind, are a suffix of
  the sequence reduced to that kind (`SplitAt`, `SuffixConcat`).

They rest on `MaxEvents > 0` and on `InputsAssumption`: an input of the kind
"session" satisfies `IsSession`.  The inductive invariant is `Inv`: what has
been converted is what `Convert` makes of the input.  The work is in the
operators.  `FlattenSeq` is a recursive definition, so its facts
(`FlattenEmpty`, `FlattenAppend`, `FlattenConcat`) come from
`RecursionHasSolution`: a recursion that descends along a measure into the
naturals has a solution.  The library says so only for an operator as
parameter; here the body of the recursion is a function, which a theorem can
take, and its induction is over the set of those for which the claim holds
(`NatSet`, `SeqSet`).  `Mapped` is the flattening of a map over a sequence, and
commutes with concatenation; `Stored`, `Payload`, `Signatures` and the events
are all instances of it.

### From markdown to chunks

`ConversionsProofs`, for any lines, any limit of a chunk and of a grid, and any
depth of spans:

* `ChunksAreValid`: `Spec => []ChunksValid`.  Every block is well-formed
  (`RenderBlocksGood`), and what `split_block` and `chunk_blocks` make of such
  blocks is well-formed and no longer than `Limit` (`ChunksOfBlocks`).
* `NoTextIsLost`: `Spec => []TextKept`.  As plain text, newlines aside, the
  chunks are the blocks one after the other.

`FoldLeft` is a recursive definition over sets of places.  The values it takes
are a trace, each from the one before (`IterTraces`), and two traces of
sequences that begin alike agree that far (`TracesAgree`); so a fold of
`Append(s, t)` is one step from the fold of `s` (`TracedFolds`).  Each fold of
the model needs its own instance, since a theorem cannot take the step as a
parameter: `WidthFolds`, `SplitFolds`, `TrackFolds`, `FitFolds`, `PackFolds`,
`JoinFolds`, `CellFolds`.

The invariants of the scan are by token and by block:

* `Sound`: the chunks `split_block` has finished are well-formed, and what is
  open in the one it fills is what is open in the block.  A flush closes those
  tags and opens the same (`ReopenedSound`).
* `Written`: the chunks, as text, are the tokens read so far; a flush writes
  tags only (`ReopenedText`).
* `Snug`: as long as the tags of the block have left room for an atom, every
  chunk fits, the one that is filled with its closing tags (`Room`).  A token
  that does not fit is added after a flush to nothing but reopened tags, where
  it has that room; a token that closes a tag takes the room kept for it
  (`RoomStep`).
* `Packed`: the current chunk fits, the text is that of the blocks, and if the
  tags of all of them fit, so do the chunks.

That every block is well-formed goes through all its forms: a span of a line
lies within the line and ends behind its start (`SpanAtIs`), so
`render_inline` descends (`Smaller`) and its result, by induction along that
descent, is well-formed (`InlineFromGood`); the rows of a table are all as long
as its header (`TableRowsType`), so the records find their cells; a block ends
behind its first line (`NextBlock`).  `InputsAssumption` says here that the
lines of an input are in `Lines`.

### The entries of MEMORY.md

`ConversionsProofs`, for any entries and any number of them:

* `EntriesAreReadBack`: `Spec => []EntriesReadBack`.  `parse_blocks` undoes
  `serialize_blocks`, for entries that satisfy `Storable`: a title of one line
  and not in brackets, no newline in a tag and no parenthesis at the end of the
  last, and no content in which a heading would be that of an entry.

The text of an entry reads as that entry (`BlockReads`): one header, at its
first line, and no header in its content, since a heading in it carries no
metadata and neither does the first line below it that is not blank.  What comes behind
starts with a blank line and a heading, so it makes no header of a last heading
in the content (`HeaderStable`) and adds a blank line to the content, which
`trim` takes off (`TrimAppend`).  What comes before moves the places of the
headers and changes none (`HeaderShift`), nor what is read from there on
(`ParseShift`, by induction over the lines left).  So the file of an entry and
others reads as the entry and what the file of the others reads as
(`ReadsBefore`), and the theorem is by induction over their number
(`FileReads`).  `InputsAssumption` says here that the entries of an input are in
`MemoryBlocks`: their contents are trimmed, as the tool saves and reads them.

### What is left to TLC

Liveness, with `RefinesEagerWrites` as far as it includes fairness, and ENABLED
are outside the prover's reach.

Of `Conversions`, `CallsRecovered` is only checked.  It says that the scan for
calls undoes what a model wrote; it needs an invariant of the scan through all
its branches, next to what has still to be scanned.

`PrefixSurvives` and `AppendLinks` leave chats above `session_max_bytes` and
`SyncedIsDurable` and `NothingErased` of `CloudSession` to TLC.  The
`TypeOK` of `Documents` has only the part proved that its other invariants rest
on (`Typed`), as no property depends on the rest.

## 6. Plan

Done: the replicator with its refinement, sessions in the cloud and on file,
turns, the agent loop, LLM requests, documents, cron, channels, start-up,
conversions, and proofs about all of these.

Next, in order:

1. A proof of `CallsRecovered`, by induction over the place the scan has come
   to.
2. `Turns` with `AgentLoop` as its loop: a run of `AgentLoop`, projected to
   rounds, implements the steps `LlmCalls`, `LlmNudged`, `LlmReplies`,
   `LlmFails`.
3. `CloudSession` with two chats on one queue, and the snapshot timer beside
   both.
4. The connection timers of the web page.

## 7. Not modelled

* S3 client and signing: I/O and a pure function of the request; its outcomes,
  lost answers included, are the environment of four modules.
* Subagents: only their own tests construct `SubagentRegistry`, and the tools
  return a notice.
* Web page: TypeScript that shows what the server sends; its timers
  (`src/web/app/composables/useConnection.ts:146`) are on the plan.
* Drivers (USB, SD card, Ethernet and WiFi chips), static files, logs, mDNS,
  the serial console, status and file browsing: I/O without state that the
  parts above read.
* Prompt and workspace files: text put together from files that do not change
  at run time.
* Smoke test and scripts: not part of the program.
* The rest of a part marked `partly` is named in its note in `PROJECT.json`.
