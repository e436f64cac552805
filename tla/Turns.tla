-------------------------------- MODULE Turns --------------------------------
(***************************************************************************)
(* The turns of one chat, from the message that starts one to the last     *)
(* line it leaves in the session file:                                     *)
(*   agent/src/core/gateway.rs       chat_with_events, cancel_chat         *)
(*   agent/src/core/sessions/mod.rs  append, get_leaf_id, get_branch, clear*)
(*                                   on a local session file               *)
(*                                                                         *)
(* The firmware has one agent thread, so its turns follow one another (one *)
(* lane).  The desktop build spawns a task for every message on a          *)
(* multi-threaded runtime (several lanes): the turns of a chat interleave  *)
(* at every lock, read and write.  A session append is a read of the leaf  *)
(* and then a write, with nothing held in between.                         *)
(*                                                                         *)
(* The agent loop is what a turn sees of it: rounds of tool calls, at last *)
(* a reply, an error, or the notice that the turn was cancelled.  The      *)
(* thresholds of auto-compaction are not reached, and an append that fails *)
(* leaves the file as it was: the compaction, and a line that is cut short,*)
(* are in SessionFiles.tla.                                                *)
(***************************************************************************)
EXTENDS Integers, Sequences, FiniteSets, SequencesExt

CONSTANTS
  Turns,      \* the messages users send, one turn each
  Builds,     \* the programs and their bounds; see Build
  NoTurn,     \* "no flag registered for the chat"
  NoLine      \* the parent of a first line

AllEvents == {"clear", "cancel", "read_error", "write_error", "restart"}

\* How many turns can run at once, and the bounds: messages to the chat,
\* rounds of tool calls and nudges in one turn, and what the environment and
\* the user may do.
Build == [lanes : Nat \ {0}, messages : Nat, rounds : Nat, events : SUBSET AllEvents]

ASSUME TurnsAssumption == NoTurn \notin Turns
ASSUME BuildsAssumption == Builds \subseteq Build

VARIABLES
  build,      \* the program, of Builds
  active,     \* Gateway.active_chats at this chat: whose flag it holds
  cancelled,  \* the turns whose flag is set
  pc,         \* where each turn is in chat_with_events
  todo,       \* the messages each turn still has to persist
  saved,      \* how many messages each turn has handed to append()
  leaf,       \* append(): the leaf that was looked up
  rounds,     \* agent loop: rounds so far
  outcome,    \* the terminal event each turn sent: "none", "done", "error"
  file,       \* the session file; each message line is followed by its info
  robbed      \* history: turns whose flag another one took out of the map

sessionVars == <<todo, saved, leaf, file>>
vars == <<build, active, cancelled, pc, todo, saved, leaf, rounds, outcome,
          file, robbed>>

Kinds == {"user", "call", "result", "reply"}
LineId == Turns \X (1..(2 * build.rounds + 2))
Line == [id : LineId, parent : LineId \cup {NoLine}, kind : Kinds]

Started == {t \in Turns : pc[t] # "new"}
Running == {t \in Turns : pc[t] \notin {"new", "ended"}}

\* get_leaf_id: the id that the last session_info line names.
LeafOf(f) == IF f = <<>> THEN NoLine ELSE Last(f).id

\* get_branch: from the leaf up the parent pointers, oldest first.
Branch(f) ==
  LET at == [id \in {f[i].id : i \in 1..Len(f)} |->
               CHOOSE i \in 1..Len(f) : f[i].id = id]
      walk[i \in 0..Len(f)] ==
        IF i = 0 THEN <<>>
        ELSE IF f[i].parent \in DOMAIN at /\ at[f[i].parent] < i
             THEN Append(walk[at[f[i].parent]], f[i])
             ELSE <<f[i]>>
  IN walk[Len(f)]

Init ==
  /\ build \in Builds
  /\ active = NoTurn
  /\ cancelled = {}
  /\ pc = [t \in Turns |-> "new"]
  /\ todo = [t \in Turns |-> <<>>]
  /\ saved = [t \in Turns |-> 0]
  /\ leaf = [t \in Turns |-> NoLine]
  /\ rounds = [t \in Turns |-> 0]
  /\ outcome = [t \in Turns |-> "none"]
  /\ file = <<>>
  /\ robbed = {}

Goto(t, label) == pc' = [pc EXCEPT ![t] = label]

\* Mutant of Register: the turn that is registered goes on.
RegisterOver(t) ==
  /\ pc[t] = "new"
  /\ Cardinality(Started) < build.messages
  /\ Cardinality(Running) < build.lanes
  /\ active' = t
  /\ \/ Goto(t, "prompt")
     \/ "clear" \in build.events /\ Goto(t, "clear")
  /\ UNCHANGED <<build, cancelled, sessionVars, rounds, outcome, robbed>>

\* The top of chat_with_events, under the lock of active_chats: set the flag
\* of the turn that is registered, and register this one instead.  Then a
\* slash command goes its own way.
Register(t) ==
  /\ pc[t] = "new"
  /\ Cardinality(Started) < build.messages
  /\ Cardinality(Running) < build.lanes
  /\ cancelled' = IF active = NoTurn THEN cancelled ELSE cancelled \cup {active}
  /\ active' = t
  /\ \/ Goto(t, "prompt")
     \/ "clear" \in build.events /\ Goto(t, "clear")
  /\ UNCHANGED <<build, sessionVars, rounds, outcome, robbed>>

\* /clear: remove the session file, answer, send Done.
ClearFile(t) ==
  /\ pc[t] = "clear"
  /\ file' = <<>>
  /\ outcome' = [outcome EXCEPT ![t] = "done"]
  /\ Goto(t, "unregister")
  /\ UNCHANGED <<build, active, cancelled, todo, saved, leaf, rounds, robbed>>

\* The history is read into the prompt, and the user message is to be saved.
ReadPrompt(t) ==
  /\ pc[t] = "prompt"
  /\ todo' = [todo EXCEPT ![t] = <<"user">>]
  /\ Goto(t, "leaf")
  /\ UNCHANGED <<build, active, cancelled, saved, leaf, rounds, outcome, file, robbed>>

\* get_branch fails: `?` leaves chat_with_events, with the flag registered
\* and no event sent.
ReadFails(t) ==
  /\ "read_error" \in build.events
  /\ pc[t] = "prompt"
  /\ Goto(t, "ended")
  /\ UNCHANGED <<build, active, cancelled, sessionVars, rounds, outcome, robbed>>

\* append(), first half: the parent is the leaf as it is now, or none when
\* the file cannot be read.
LookUpLeaf(t) ==
  /\ pc[t] = "leaf"
  /\ \E parent \in {LeafOf(file)} \cup
                   (IF "read_error" \in build.events THEN {NoLine} ELSE {}) :
       leaf' = [leaf EXCEPT ![t] = parent]
  /\ Goto(t, "write")
  /\ UNCHANGED <<build, active, cancelled, todo, saved, rounds, outcome, file, robbed>>

\* Mutant of Write: the parent is the message this turn wrote before.
WriteAfterOwn(t) ==
  /\ pc[t] = "write"
  /\ LET id == <<t, saved[t] + 1>>
         own == IF saved[t] = 0 THEN NoLine ELSE <<t, saved[t]>>
     IN file' = Append(file, [id |-> id, parent |-> own, kind |-> Head(todo[t])])
  /\ saved' = [saved EXCEPT ![t] = @ + 1]
  /\ todo' = [todo EXCEPT ![t] = Tail(@)]
  /\ Goto(t, IF saved[t] = 0 THEN "check"
             ELSE IF Len(todo[t]) = 1 THEN "unregister" ELSE "leaf")
  /\ UNCHANGED <<build, active, cancelled, leaf, rounds, outcome, robbed>>

\* append(), second half: one write of the line and its session_info.  A
\* failure is logged and the turn goes on.
Write(t) ==
  /\ pc[t] = "write"
  /\ \/ LET id == <<t, saved[t] + 1>> IN
        file' = Append(file, [id |-> id, parent |-> leaf[t],
                              kind |-> Head(todo[t])])
     \/ "write_error" \in build.events /\ file' = file
  /\ saved' = [saved EXCEPT ![t] = @ + 1]
  /\ todo' = [todo EXCEPT ![t] = Tail(@)]
  /\ Goto(t, IF saved[t] = 0 THEN "check"   \* the user message was the first
             ELSE IF Len(todo[t]) = 1 THEN "unregister" ELSE "leaf")
  /\ UNCHANGED <<build, active, cancelled, leaf, rounds, outcome, robbed>>

\* What the loop has produced is to be saved, if it is anything.
EndLoop(t) == Goto(t, IF todo'[t] = <<>> THEN "unregister" ELSE "leaf")

\* Mutant of CheckFlag: a cancelled turn is left where it is.
CheckFlagStuck(t) ==
  /\ pc[t] = "check"
  /\ t \notin cancelled
  /\ Goto(t, "llm")
  /\ UNCHANGED <<build, active, cancelled, sessionVars, rounds, outcome, robbed>>

\* The loop looks at the flag before each call of the LLM.
CheckFlag(t) ==
  /\ pc[t] = "check"
  /\ todo' = todo
  /\ IF t \in cancelled THEN EndLoop(t) ELSE Goto(t, "llm")
  /\ UNCHANGED <<build, active, cancelled, saved, leaf, rounds, outcome, file, robbed>>

\* Mutant of LlmCalls: the call is kept, the result is not.
LlmCallsNoResult(t) ==
  /\ pc[t] = "llm"
  /\ rounds[t] < build.rounds
  /\ rounds' = [rounds EXCEPT ![t] = @ + 1]
  /\ todo' = [todo EXCEPT ![t] = Append(@, "call")]
  /\ Goto(t, "check")
  /\ UNCHANGED <<build, active, cancelled, saved, leaf, outcome, file, robbed>>

\* Tool calls: one assistant message, then the results (here one for all).
LlmCalls(t) ==
  /\ pc[t] = "llm"
  /\ rounds[t] < build.rounds
  /\ rounds' = [rounds EXCEPT ![t] = @ + 1]
  /\ todo' = [todo EXCEPT ![t] = @ \o <<"call", "result">>]
  /\ Goto(t, "check")
  /\ UNCHANGED <<build, active, cancelled, saved, leaf, outcome, file, robbed>>

\* A reply that announces more work, after tool calls: nudged and asked again.
LlmNudged(t) ==
  /\ pc[t] = "llm"
  /\ rounds[t] < build.rounds
  /\ Contains(todo[t], "call")
  /\ rounds' = [rounds EXCEPT ![t] = @ + 1]
  /\ todo' = [todo EXCEPT ![t] = Append(@, "reply")]
  /\ Goto(t, "check")
  /\ UNCHANGED <<build, active, cancelled, saved, leaf, outcome, file, robbed>>

LlmReplies(t) ==
  /\ pc[t] = "llm"
  /\ todo' = [todo EXCEPT ![t] = Append(@, "reply")]
  /\ EndLoop(t)
  /\ UNCHANGED <<build, active, cancelled, saved, leaf, rounds, outcome, file, robbed>>

\* run_loop returns an error: what it has produced is dropped.
LlmFails(t) ==
  /\ pc[t] = "llm"
  /\ outcome' = [outcome EXCEPT ![t] = "error"]
  /\ todo' = [todo EXCEPT ![t] = <<>>]
  /\ Goto(t, "unregister")
  /\ UNCHANGED <<build, active, cancelled, saved, leaf, rounds, file, robbed>>

\* active_chats.remove(chat_id), whosever flag is there; then Done, if there
\* was neither an event before nor an error.
Unregister(t) ==
  /\ pc[t] = "unregister"
  /\ active' = NoTurn
  /\ robbed' = robbed \cup ({active} \ {t, NoTurn})
  /\ outcome' = [outcome EXCEPT ![t] = IF @ = "none" THEN "done" ELSE @]
  /\ Goto(t, "ended")
  /\ UNCHANGED <<build, cancelled, sessionVars, rounds>>

\* cancel_chat, from the web page.
Cancel ==
  /\ "cancel" \in build.events
  /\ active # NoTurn /\ active \notin cancelled
  /\ cancelled' = cancelled \cup {active}
  /\ UNCHANGED <<build, active, pc, sessionVars, rounds, outcome, robbed>>

\* The process restarts: the file stays, the turns that ran are gone.
Restart ==
  /\ "restart" \in build.events
  /\ Running # {}
  /\ pc' = [t \in Turns |-> IF t \in Running THEN "ended" ELSE pc[t]]
  /\ todo' = [t \in Turns |-> <<>>]
  /\ active' = NoTurn
  /\ UNCHANGED <<build, cancelled, saved, leaf, rounds, outcome, file, robbed>>

Step(t) ==
  \/ ClearFile(t)
  \/ ReadPrompt(t) \/ ReadFails(t) \/ LookUpLeaf(t) \/ Write(t)
  \/ CheckFlag(t) \/ LlmCalls(t) \/ LlmNudged(t) \/ LlmReplies(t) \/ LlmFails(t)
  \/ Unregister(t)

Next ==
  \/ \E t \in Turns : Register(t) \/ Step(t)
  \/ Cancel
  \/ Restart

Spec == Init /\ [][Next]_vars

\* A turn that runs is scheduled, and the LLM answers or its call times out.
FairSpec == Spec /\ \A t \in Turns : WF_vars(Step(t))

-----------------------------------------------------------------------------
(* Properties.                                                             *)

\* What the firmware's one lane promises, when files can be read and written
\* and nothing restarts.
Orderly == build.lanes = 1 /\ build.events \subseteq {"clear", "cancel"}

\* The types of the variables; a turn at a write has something to write.
TypeOK ==
  /\ build \in Builds
  /\ active \in Turns \cup {NoTurn}
  /\ cancelled \subseteq Turns
  /\ pc \in [Turns -> {"new", "clear", "prompt", "leaf", "write", "check",
                       "llm", "unregister", "ended"}]
  /\ todo \in [Turns -> Seq(Kinds)]
  /\ \A t \in Turns : pc[t] \in {"leaf", "write"} => todo[t] # <<>>
  /\ saved \in [Turns -> 0..(2 * build.rounds + 2)]
  /\ leaf \in [Turns -> LineId \cup {NoLine}]
  /\ rounds \in [Turns -> 0..build.rounds]
  /\ outcome \in [Turns -> {"none", "done", "error"}]
  /\ file \in Seq(Line)
  /\ robbed \subseteq Turns

\* Doc, on active_chats: a "new message on a busy chat cancels the running
\* turn".  However turns overlap, a turn that runs has been told to stop, or it
\* is the one the next message or the cancel button will reach; unless a turn
\* that ended before it has taken its flag out of the map, which takes two
\* lanes.
CanBeStopped ==
  /\ Running \subseteq cancelled \cup {active} \cup robbed
  /\ build.lanes = 1 => robbed = {}

\* Doc, on append(): the file is "a single chronological chain".  Every
\* line that was written is in the history the next turn reads.
SingleChain == Orderly => Branch(file) = file

\* Comment in execute_tool_calls: "ONE assistant message carrying every
\* tool_call ..., then ONE tool result per call".  The history a turn sends
\* to the LLM pairs each call with its results.
PromptWellFormed ==
  Orderly /\ (\E t \in Turns : pc[t] = "prompt") =>
    LET h == Branch(file) IN
    /\ \A i \in 1..Len(h) : h[i].kind = "call" =>
         i < Len(h) /\ h[i + 1].kind = "result" /\ h[i + 1].id[1] = h[i].id[1]
    /\ \A i \in 1..Len(h) : h[i].kind = "result" =>
         i > 1 /\ h[i - 1].kind = "call"

\* Every turn comes to its end, cancelled or not.
TurnsEnd == \A t \in Turns : t \in Running ~> pc[t] = "ended"
=============================================================================
