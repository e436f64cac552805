---------------------------- MODULE SessionFiles ----------------------------
(***************************************************************************)
(* The two files a chat has beside its turns: the history, which           *)
(* auto-compaction rewrites, and the sidecar with its title:               *)
(*   agent/src/core/sessions/mod.rs  meta, set_meta, rename, bump_activity,*)
(*                                   list_with_meta, delete, compact       *)
(*   agent/src/core/compaction.rs    maybe_compact, compact_session        *)
(*   agent/src/core/title_gen.rs     maybe_generate_title                  *)
(*   agent/src/core/gateway.rs       the order of these in a turn          *)
(*   agent/src/main.rs               /api/sessions                         *)
(*                                                                         *)
(* Two threads share them without a lock: the agent thread with its turns, *)
(* and the HTTP server.  fs::write and File::create truncate a file before *)
(* they write it, and a write of the history may stop between two lines or  *)
(* inside one.  In cloud mode the history is read from the cache; what     *)
(* happens to the cache at a restart is in CloudSession.tla, so a restart  *)
(* is only taken here without the cloud.                                   *)
(***************************************************************************)
EXTENDS Integers, Sequences, FiniteSets

CONSTANTS
  KeepRecent,   \* compaction.keep_recent, in messages
  Threshold,    \* compaction.byte_threshold and token_threshold, as a weight
  BigWeight,    \* weight of a message longer than max_kept_message_bytes
  Settings      \* the bounds and what may happen, together; see Setting

AllFileEvents == {"http", "big", "disk_full", "crash"}

\* How many turns the chat has, how often the user renames it, and what may
\* happen meanwhile.
Setting == [turns : Nat, renames : Nat, events : SUBSET AllFileEvents]

ASSUME SessionFilesAssumption ==
  /\ KeepRecent \in Nat \ {0} /\ Threshold \in Nat /\ BigWeight \in Nat
  /\ Settings \subseteq Setting

VARIABLES
  setting,  \* of Settings
  cloud,    \* whether there is a cloud
  file,     \* the branch of the local history, which is what is read of it
  tail,     \* the local history file, see Tails
  cache,    \* the history in the cache, in cloud mode
  meta,     \* the local sidecar
  at,       \* where the agent thread is
  todo,     \* what it has read to summarise, then the rewritten history, then
            \* its messages to append
  held,     \* the sidecar the agent thread is about to write
  prompt,   \* the history of the last prompt
  http,     \* where the HTTP thread is
  sent,     \* the sidecar the HTTP thread is about to write
  turns, renames,  \* counted for the bounds of setting
  serial,   \* history: messages appended so far
  excused,  \* history: messages summarised, deleted or in a write cut short
  settled,  \* history: this turn's compaction went through, locally
  named,    \* history: the rename the sidecar has to show, 0 for none
  gone      \* history: messages deleted before a compaction had read them again

FileEvents == setting.events

agentVars == <<at, todo, held, prompt>>
httpVars == <<http, sent>>
ghosts == <<serial, excused, settled, named, gone>>
filesVars == <<setting, cloud, file, tail, cache, meta, agentVars, httpVars, turns, renames, ghosts>>

-----------------------------------------------------------------------------
(* Sidecars and histories.                                                 *)

NoMeta == [state |-> "none", source |-> "Default", name |-> 0]
TornMeta == [NoMeta EXCEPT !.state = "torn"]
Titled(source, n) == [state |-> "ok", source |-> source, name |-> n]

\* synthesize_default, with the first user message or without it.
Synthesized(withFirst) == Titled(IF withFirst THEN "FirstMessage" ELSE "Default", 0)

Message(kind, n, big) == [kind |-> kind, n |-> n, big |-> big]
Summary == Message("summary", 0, FALSE)
IsMessage(e) == e.kind # "summary"
HasMessage(h) == \E i \in DOMAIN h : IsMessage(h[i])
HasUserMessage(h) == \E i \in DOMAIN h : h[i].kind = "user"

\* There is no file; it is the branch; it has lines besides, of a write cut
\* short; or its last line is cut short itself, and the next one written
\* continues that line.
Tails == {"none", "whole", "cut", "torn"}
LinesBesides == tail \in {"cut", "torn"}

\* load and get_branch.
History == IF cloud THEN cache ELSE file
Messages(h) ==
  LET upto[i \in 0..Len(h)] ==
        IF i = 0 THEN <<>>
        ELSE IF IsMessage(h[i]) THEN Append(upto[i - 1], h[i]) ELSE upto[i - 1]
  IN upto[Len(h)]
Weight(h) ==
  LET big == Cardinality({i \in DOMAIN h : h[i].big})
  IN (Len(h) - big) + BigWeight * big

\* should_compact.  The size of the file counts the lines that are not on the
\* branch as well.
ShouldCompact(h, heavy) == Len(Messages(h)) > KeepRecent /\ heavy
MayBeHeavy == {Weight(History) > Threshold} \cup (IF LinesBesides /\ ~cloud THEN {TRUE} ELSE {})

\* What compact_session has the LLM summarise: earlier summaries are no message.
ToSummarize(h) ==
  LET m == Messages(h) IN {m[i].n : i \in 1..(Len(m) - KeepRecent)}

\* A kept message is cut to a note; the arguments of its tool calls are not.
Redacted(e) == IF e.kind = "call" THEN e ELSE [e EXCEPT !.big = FALSE]

\* Mutant of Compacted: long messages are kept whole.
CompactedWhole(h) ==
  IF Len(h) <= KeepRecent THEN h ELSE <<Summary>> \o SubSeq(h, Len(h) - KeepRecent + 1, Len(h))

\* Mutant of Compacted: one message too few is kept.
CompactedShort(h) ==
  IF Len(h) <= KeepRecent THEN h
  ELSE <<Summary>> \o [i \in 1..(KeepRecent - 1) |-> Redacted(h[Len(h) - KeepRecent + 1 + i])]

\* SessionManager::compact: keep_recent entries behind the summary.
Compacted(h) ==
  IF Len(h) <= KeepRecent THEN h
  ELSE <<Summary>> \o [i \in 1..KeepRecent |-> Redacted(h[Len(h) - KeepRecent + i])]

Listed == tail # "none" \/ meta.state # "none"

-----------------------------------------------------------------------------
(* The agent thread: compaction, prompt, messages, sidecar, title.         *)

Goto(label) == at' = label

\* maybe_compact; compact_session reads the branch for the summariser.
StartTurn ==
  /\ at = "idle" /\ turns < setting.turns
  /\ turns' = turns + 1
  /\ \E heavy \in MayBeHeavy :
       IF ShouldCompact(History, heavy) THEN Goto("summarize") /\ todo' = History
       ELSE Goto("prompt") /\ UNCHANGED todo
  /\ settled' = FALSE
  /\ UNCHANGED <<setting, cloud, file, tail, cache, meta, held, prompt, httpVars, renames,
                 serial, excused, named, gone>>

\* Mutant of Summarize: the history is rewritten as it was read before.
SummarizeStale ==
  /\ at = "summarize"
  /\ \/ /\ Goto("truncate") /\ todo' = Compacted(todo)
        /\ excused' = excused \cup ToSummarize(todo)
     \/ Goto("prompt") /\ UNCHANGED <<todo, excused>>
  /\ UNCHANGED <<setting, cloud, file, tail, cache, meta, held, prompt, httpVars, turns, renames,
                 serial, settled, named, gone>>

\* The summariser answers, and compact() reads the branch again; or it fails.
Summarize ==
  /\ at = "summarize"
  /\ \/ /\ Goto("truncate") /\ todo' = Compacted(History)
        /\ excused' = excused \cup ToSummarize(todo)
     \/ Goto("prompt") /\ UNCHANGED <<todo, excused>>
  /\ UNCHANGED <<setting, cloud, file, tail, cache, meta, held, prompt, httpVars, turns, renames,
                 serial, settled, named, gone>>

\* File::create on the local history, in cloud mode too.
Truncate ==
  /\ at = "truncate"
  /\ IF todo = <<>> \/ todo = History
     THEN Goto("prompt") /\ UNCHANGED <<file, tail>>
     ELSE Goto("rewrite") /\ file' = <<>> /\ tail' = "whole"
  /\ UNCHANGED <<setting, cloud, cache, meta, todo, held, prompt, httpVars, turns, renames, ghosts>>

\* The rewrite stops: k entries are on the branch, and perhaps lines of the next.
CutShort ==
  \E k \in 0..(Len(todo) - 1) :
    /\ file' = SubSeq(todo, 1, k) /\ tail' \in {"cut", "torn"}
    /\ excused' = IF cloud THEN excused
                  ELSE excused \cup {todo[i].n : i \in (k + 1)..Len(todo)}

\* An error is logged and the turn goes on with what there is.
Rewrite ==
  /\ at = "rewrite"
  /\ \/ file' = todo /\ tail' = "whole" /\ settled' = ~cloud /\ UNCHANGED excused
     \/ "disk_full" \in FileEvents /\ CutShort /\ UNCHANGED settled
  /\ Goto("prompt")
  /\ UNCHANGED <<setting, cloud, cache, meta, todo, held, prompt, httpVars, turns, renames,
                 serial, named, gone>>

\* What a turn saves: a loop that fails leaves the user message only, one that
\* is cancelled whole rounds of tool calls without a reply.
Turnings ==
  {<<"user">>, <<"user", "reply">>, <<"user", "call", "result">>,
   <<"user", "call", "result", "reply">>}

\* chat_with_events takes the messages of the branch, and only those, into
\* the prompt; then the user message and what the agent loop makes of it.
BuildPrompt ==
  /\ at = "prompt"
  /\ prompt' = Messages(History)
  /\ \E kinds \in Turnings,
        big \in (IF "big" \in FileEvents THEN {"none", "call", "result"} ELSE {"none"}) :
       todo' = [i \in DOMAIN kinds |-> Message(kinds[i], serial + i, kinds[i] = big)]
  /\ Goto("append")
  /\ UNCHANGED <<setting, cloud, file, tail, cache, meta, held, httpVars, turns, renames, ghosts>>

\* A line that continues a torn one cannot be read, and its session_info names
\* it: the branch ends there, with all that was before it.
Written ==
  IF cloud THEN cache' = Append(cache, Head(todo)) /\ UNCHANGED <<file, tail, excused>>
  ELSE /\ UNCHANGED cache
       /\ IF tail = "torn"
          THEN file' = <<>> /\ tail' = "cut" /\ excused' = 1..(serial + 1)
          ELSE /\ file' = Append(file, Head(todo)) /\ UNCHANGED excused
               /\ tail' = IF tail = "none" THEN "whole" ELSE tail

\* The disk has no room for the two lines, for the second or in the middle.
NotWritten ==
  /\ "disk_full" \in FileEvents /\ ~cloud
  /\ tail' \in {IF tail = "none" THEN "whole" ELSE tail, "cut", "torn"}
  /\ excused' = excused \cup {serial + 1}
  /\ UNCHANGED <<file, cache>>

\* One append; an error is logged.  After the last one the sidecar follows,
\* unless the loop failed.
AppendMessage ==
  /\ at = "append"
  /\ Written \/ NotWritten
  /\ serial' = serial + 1
  /\ todo' = Tail(todo)
  /\ prompt' = IF Len(todo) > 1 THEN prompt ELSE <<>>
  /\ \/ Goto(IF Len(todo) > 1 THEN "append" ELSE "bump")
     \/ Len(todo) = 1 /\ Head(todo).kind = "user" /\ Goto("idle")
  /\ UNCHANGED <<setting, cloud, meta, held, httpVars, turns, renames, settled, named, gone>>

\* bump_activity, first half: whatever cannot be read is made anew.  A title
\* that a reader finds torn is not expected to come back.
BumpRead ==
  /\ at = "bump"
  /\ held' = IF meta.state = "ok" THEN meta ELSE Synthesized(FALSE)
  /\ named' = IF meta.state = "torn" THEN 0 ELSE named
  /\ Goto("bump_open")
  /\ UNCHANGED <<setting, cloud, file, tail, cache, meta, todo, prompt, httpVars, turns, renames,
                 serial, excused, settled, gone>>

\* fs::write opens the sidecar, and with that empties it.
AgentOpens ==
  /\ at \in {"bump_open", "title_open"}
  /\ meta' = TornMeta
  /\ Goto(IF at = "bump_open" THEN "bump_write" ELSE "title_write")
  /\ UNCHANGED <<setting, cloud, file, tail, cache, todo, held, prompt, httpVars, turns, renames, ghosts>>

\* ... and writes it, or finds no room; either way the turn goes on.
AgentWrites ==
  /\ at \in {"bump_write", "title_write"}
  /\ \/ meta' = held /\ UNCHANGED named
     \/ "disk_full" \in FileEvents /\ named' = 0 /\ UNCHANGED meta
  /\ Goto(IF at = "bump_write" THEN "title_check" ELSE "idle")
  /\ held' = NoMeta
  /\ UNCHANGED <<setting, cloud, file, tail, cache, todo, prompt, httpVars, turns, renames,
                 serial, excused, settled, gone>>

\* The messages of the file that are not on the branch count as well.
MayHaveMessage == {HasMessage(History)} \cup (IF LinesBesides /\ ~cloud THEN {TRUE} ELSE {})

\* Mutant of TitleCheck: only titles of the LLM are left alone.
TitleCheckLlm ==
  /\ at = "title_check"
  /\ \E some \in MayHaveMessage :
       Goto(IF meta.state = "ok" /\ meta.source # "Llm" /\ some THEN "title_llm" ELSE "idle")
  /\ UNCHANGED <<setting, cloud, file, tail, cache, meta, todo, held, prompt, httpVars, turns,
                 renames, ghosts>>

\* maybe_generate_title looks at the source of the title ...
TitleCheck ==
  /\ at = "title_check"
  /\ \E some \in MayHaveMessage :
       Goto(IF meta.state = "ok" /\ meta.source \in {"Default", "FirstMessage"} /\ some
            THEN "title_llm" ELSE "idle")
  /\ UNCHANGED <<setting, cloud, file, tail, cache, meta, todo, held, prompt, httpVars, turns,
                 renames, ghosts>>

\* ... waits for the LLM, and renames whatever sidecar is there then.
TitleAnswer ==
  /\ at = "title_llm"
  /\ \/ /\ meta.state = "ok"
        /\ held' = Titled("Llm", 0) /\ Goto("title_open") /\ UNCHANGED named
     \/ /\ Goto("idle") /\ UNCHANGED held
        /\ named' = IF meta.state = "torn" THEN 0 ELSE named
  /\ UNCHANGED <<setting, cloud, file, tail, cache, meta, todo, prompt, httpVars, turns, renames,
                 serial, excused, settled, gone>>

-----------------------------------------------------------------------------
(* The HTTP thread.                                                        *)

\* The agent thread will still write a sidecar it has read, or a title it
\* has asked for.
AgentWillWrite ==
  at \in {"bump_open", "bump_write", "title_llm", "title_open", "title_write"}

\* POST /api/sessions: a sidecar and no history.
CreateChat ==
  /\ http = "idle" /\ turns = 0 /\ ~Listed
  /\ "http" \in FileEvents
  /\ sent' = Synthesized(FALSE) /\ http' = "open"
  /\ UNCHANGED <<setting, cloud, file, tail, cache, meta, agentVars, turns, renames, ghosts>>

\* PATCH: rename reads the sidecar; without one the answer is "not found".
Rename ==
  /\ http = "idle" /\ renames < setting.renames
  /\ "http" \in FileEvents
  /\ meta.state = "ok"
  /\ renames' = renames + 1
  /\ sent' = Titled("User", renames') /\ http' = "open"
  /\ UNCHANGED <<setting, cloud, file, tail, cache, meta, agentVars, turns, ghosts>>

\* GET: list_with_meta makes a sidecar for a chat that has no good one.
List ==
  /\ http = "idle" /\ Listed /\ meta.state # "ok"
  /\ "http" \in FileEvents
  /\ \E first \in {HasUserMessage(file)} \cup (IF LinesBesides THEN {TRUE} ELSE {}) :
       sent' = Synthesized(first)
  /\ http' = "open"
  /\ named' = IF meta.state = "torn" THEN 0 ELSE named
  /\ UNCHANGED <<setting, cloud, file, tail, cache, meta, agentVars, turns, renames, serial, excused,
                 settled, gone>>

HttpOpens ==
  /\ http = "open"
  /\ meta' = TornMeta /\ http' = "write"
  /\ UNCHANGED <<setting, cloud, file, tail, cache, agentVars, sent, turns, renames, ghosts>>

\* The name is to stay from here on, unless the agent thread is about to
\* write a sidecar it has read before.
HttpWrites ==
  /\ http = "write"
  /\ \/ /\ meta' = sent
        /\ named' = IF AgentWillWrite THEN 0 ELSE sent.name
     \/ "disk_full" \in FileEvents /\ named' = 0 /\ UNCHANGED meta
  /\ http' = "idle" /\ sent' = NoMeta
  /\ UNCHANGED <<setting, cloud, file, tail, cache, agentVars, turns, renames, serial, excused,
                 settled, gone>>

\* DELETE: the cache and the history, then the sidecar.  What a compaction has
\* read by then, it writes.
DeleteHistory ==
  /\ http = "idle" /\ Listed
  /\ "http" \in FileEvents
  /\ cache' = <<>> /\ file' = <<>> /\ tail' = "none"
  /\ excused' = 1..serial
  /\ gone' = IF at \in {"truncate", "rewrite"} THEN gone ELSE 1..serial
  /\ http' = "delete" /\ named' = 0
  /\ UNCHANGED <<setting, cloud, meta, agentVars, sent, turns, renames, serial, settled>>

DeleteSidecar ==
  /\ http = "delete"
  /\ meta' = NoMeta
  /\ http' = "idle"
  /\ UNCHANGED <<setting, cloud, file, tail, cache, agentVars, sent, turns, renames, ghosts>>

\* A restart, without the cloud: what was half written stays half written.
Crash ==
  /\ "crash" \in FileEvents /\ ~cloud
  /\ at # "idle" \/ http # "idle"
  /\ \/ at = "rewrite" /\ CutShort
     \/ at = "append" /\ tail' \in {tail, "cut", "torn"} /\ UNCHANGED <<file, excused>>
     \/ at \notin {"rewrite", "append"} /\ UNCHANGED <<file, tail, excused>>
  /\ named' = IF meta.state = "torn" THEN 0 ELSE named
  /\ at' = "idle" /\ todo' = <<>> /\ held' = NoMeta /\ prompt' = <<>> /\ settled' = FALSE
  /\ http' = "idle" /\ sent' = NoMeta
  /\ UNCHANGED <<setting, cloud, cache, meta, turns, renames, serial, gone>>

FilesInit ==
  /\ setting \in Settings /\ cloud \in BOOLEAN
  /\ file = <<>> /\ tail = "none" /\ cache = <<>> /\ meta = NoMeta
  /\ at = "idle" /\ todo = <<>> /\ held = NoMeta /\ prompt = <<>>
  /\ http = "idle" /\ sent = NoMeta
  /\ turns = 0 /\ renames = 0
  /\ serial = 0 /\ excused = {} /\ settled = FALSE /\ named = 0 /\ gone = {}

Agent ==
  \/ StartTurn \/ Summarize \/ Truncate \/ Rewrite \/ BuildPrompt \/ AppendMessage
  \/ BumpRead \/ AgentOpens \/ AgentWrites \/ TitleCheck \/ TitleAnswer

Http ==
  \/ CreateChat \/ Rename \/ List \/ HttpOpens \/ HttpWrites
  \/ DeleteHistory \/ DeleteSidecar

FilesNext == Agent \/ Http \/ Crash

FilesSpec == FilesInit /\ [][FilesNext]_filesVars

-----------------------------------------------------------------------------
(* Properties.                                                             *)

\* Every message that was appended and not deleted is in the history, or it
\* was in the transcript of a compaction, however turns, compactions and
\* deletions interleave.  The rewrite itself is apart, which leaves the file
\* empty for an instant; where it is cut short, by a restart or a full disk,
\* the entries that were not rewritten are lost, and with a line cut short all
\* that was before it.
NothingDroppedUnread ==
  at # "rewrite" => \A n \in 1..serial \ excused : \E i \in DOMAIN History : History[i].n = n

\* Comment on max_kept_message_bytes: a huge message in the window that is
\* kept does not trip the threshold again on the next turn.  Holds without
\* the cloud, while no kept tool call has huge arguments.
CompactionSettles ==
  /\ at = "prompt" /\ settled
  /\ \A i \in DOMAIN file : ~(file[i].kind = "call" /\ file[i].big)
  => Weight(file) <= Threshold

\* A title the user has set stays through turns, listings and title
\* generation.  It can only be lost to a sidecar the agent thread had read or
\* a title it had asked for before, to a reader in the middle of a write, and
\* to a full disk or a restart in the middle of a write.
UserTitleStays ==
  named # 0 /\ at \notin {"bump_write", "title_write"} /\ http # "write"
    => meta = Titled("User", named)

\* A message that was in a chat when it was deleted is not in its history
\* again, on disk or in the cache, whatever the agent thread was doing - also
\* when the summariser is still reading it; only a compaction that has read
\* the branch the second time writes it back.
DeletedStaysGone ==
  \A h \in {file, cache} : \A i \in DOMAIN h : h[i].n \notin gone

\* Prompt of the summariser: "The summary will replace the original
\* transcript in the agent's working memory."
SummaryInPrompt ==
  at = "append" /\ settled => \E i \in DOMAIN prompt : prompt[i].kind = "summary"
=============================================================================
