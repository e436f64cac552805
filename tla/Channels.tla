------------------------------ MODULE Channels ------------------------------
(***************************************************************************)
(* How messages reach the gateway and replies leave it:                    *)
(*   agent/src/core/channels/telegram.rs  Poller, TelegramChannel          *)
(*   agent/src/main.rs      agent_thread, run_chat_request, /api/chat,     *)
(*                          /ws/chat (the firmware)                        *)
(*   agent/src/desktop/run.rs  spawn_telegram_loop (the desktop)           *)
(*   agent/src/desktop/server.rs  api_chat, handle_chat_ws, spawn_turn     *)
(*                                                                         *)
(* Telegram keeps an update until a getUpdates call asks for later ones.   *)
(* On the firmware one agent thread polls, runs the turns of what it got   *)
(* and of the chat requests of the web server, and delivers the replies.   *)
(* On the desktop a producer polls into a channel, and a consumer spawns a *)
(* task per message; a turn asked for over a WebSocket is a task too, and  *)
(* one asked for over REST runs in the handler of the call.  A turn is one *)
(* step here (Turns.tla has the rest).                                     *)
(***************************************************************************)
EXTENDS Integers, Sequences, FiniteSets, SequencesExt

CONSTANTS
  NumUpdates,   \* bound: updates sent to the bot
  Chunks,       \* messages a reply is split into
  Rest, Ws,     \* chat requests over REST and over the WebSocket
  QueueSize,    \* desktop: capacity of the channel to the consumer (32)
  MaxRestarts,  \* bound
  ChannelEvents \* what may happen, of AllChannelEvents

AllChannelEvents == {"poll_error", "send_error"}

ASSUME ChannelsAssumption ==
  /\ NumUpdates \in Nat /\ Chunks \in Nat \ {0}
  /\ QueueSize \in Nat \ {0} /\ MaxRestarts \in Nat
  /\ Rest \cap Ws = {} /\ ChannelEvents \subseteq AllChannelEvents

Update == 1..NumUpdates
Request == Rest \cup Ws

VARIABLES
  desktop,    \* which of the two programs
  sent,       \* Telegram: the updates so far; TRUE for a text of an allowed chat
  confirmed,  \* Telegram: updates up to this one are never given out again
  offset,     \* Poller.offset: 1 more than the last update seen
  batch,      \* what the last poll returned and is still to be handled
  queue,      \* desktop: the channel between producer and consumer
  stage,      \* per update: "idle", "turn", "html", "plain", "delivered", "failed"
  chunk,      \* per update: the chunk that is being sent
  at,         \* the agent thread: "drain", "poll", "batch"
  chatq,      \* the chat requests in the channel to the agent thread
  request,    \* per request: "new", "waiting", "running", "answered", "lost"
              \* by a restart, "dropped" by the server
  gone,       \* the requests under way whose client has hung up
  restarts,   \* counted for the bound
  started,    \* history, per update: turns begun
  ran,        \* history: updates whose turn has ended
  received    \* history, per update: the chunks the user got of the last reply

telegramVars == <<sent, confirmed>>
pollVars == <<offset, batch, queue>>
sendVars == <<stage, chunk, received>>
webVars == <<chatq, request, gone>>
vars == <<desktop, telegramVars, pollVars, sendVars, at, webVars, restarts, started, ran>>

InStage(s) == {u \in Update : stage[u] \in s}
Working == InStage({"turn", "html", "plain"})
Greater(a, b) == IF a > b THEN a ELSE b

-----------------------------------------------------------------------------
(* Telegram and the poller.                                                *)

SendUpdate ==
  /\ Len(sent) < NumUpdates
  /\ \E text \in BOOLEAN : sent' = Append(sent, text)
  /\ UNCHANGED <<desktop, confirmed, pollVars, sendVars, at, webVars, restarts, started, ran>>

\* The producer of the desktop polls when its last messages are in the
\* channel, the agent thread when it gets to it.
MayPoll == IF desktop THEN batch = <<>> ELSE at = "poll"

\* Mutant of Poll: the updates are asked for again at once, which confirms them.
PollConfirms ==
  /\ MayPoll
  /\ batch' = [i \in 1..(Len(sent) - confirmed) |-> confirmed + i]
  /\ confirmed' = Len(sent)
  /\ offset' = Len(sent) + 1
  /\ at' = IF desktop THEN at ELSE "batch"
  /\ UNCHANGED <<desktop, sent, queue, sendVars, webVars, restarts, started, ran>>

\* poll_once: getUpdates confirms what is below the offset and returns what
\* is not confirmed; the offset moves behind all of it.
Poll ==
  /\ MayPoll
  /\ confirmed' = Greater(confirmed, offset - 1)
  /\ batch' = [i \in 1..(Len(sent) - confirmed') |-> confirmed' + i]
  /\ offset' = Greater(offset, Len(sent) + 1)
  /\ at' = IF desktop THEN at ELSE "batch"
  /\ UNCHANGED <<desktop, sent, queue, sendVars, webVars, restarts, started, ran>>

\* The call or its answer is lost, or the answer is no JSON: after 5 s the
\* loop goes on, on the agent thread with the chat requests.
PollFails ==
  /\ "poll_error" \in ChannelEvents
  /\ MayPoll
  /\ \/ UNCHANGED confirmed
     \/ confirmed' = Greater(confirmed, offset - 1)
  /\ at' = IF desktop THEN at ELSE "drain"
  /\ UNCHANGED <<desktop, sent, pollVars, sendVars, webVars, restarts, started, ran>>

\* Desktop: the producer hands a message on, when there is room.
Produce ==
  /\ desktop /\ batch # <<>> /\ Len(queue) < QueueSize
  /\ queue' = Append(queue, Head(batch)) /\ batch' = Tail(batch)
  /\ UNCHANGED <<desktop, telegramVars, offset, sendVars, at, webVars, restarts, started, ran>>

-----------------------------------------------------------------------------
(* From a message to the delivered reply.                                  *)

BeginTurn(u) ==
  /\ IF sent[u]
     THEN /\ stage' = [stage EXCEPT ![u] = "turn"]
          /\ received' = [received EXCEPT ![u] = <<>>]
          /\ started' = [started EXCEPT ![u] = @ + 1]
     ELSE UNCHANGED <<stage, received, started>>
  /\ UNCHANGED chunk

\* The agent thread takes the messages of a poll one after another; a chat
\* that is not allowed is skipped.  Then it looks at the chat requests.
TakeFromBatch ==
  /\ ~desktop /\ at = "batch" /\ batch # <<>> /\ Working = {}
  /\ BeginTurn(Head(batch))
  /\ batch' = Tail(batch)
  /\ UNCHANGED <<desktop, telegramVars, offset, queue, at, webVars, restarts, ran>>

BatchDone ==
  /\ ~desktop /\ at = "batch" /\ batch = <<>> /\ Working = {}
  /\ at' = "drain"
  /\ UNCHANGED <<desktop, telegramVars, pollVars, sendVars, webVars, restarts, started, ran>>

\* Desktop: the consumer spawns a task per message.
TakeFromQueue ==
  /\ desktop /\ queue # <<>>
  /\ BeginTurn(Head(queue))
  /\ queue' = Tail(queue)
  /\ UNCHANGED <<desktop, telegramVars, offset, batch, at, webVars, restarts, ran>>

\* gateway.chat returns a reply, or an error that is sent as the reply.
EndTurn(u) ==
  /\ stage[u] = "turn"
  /\ stage' = [stage EXCEPT ![u] = "html"]
  /\ chunk' = [chunk EXCEPT ![u] = 1]
  /\ ran' = ran \cup {u}
  /\ UNCHANGED <<desktop, telegramVars, pollVars, received, at, webVars, restarts, started>>

\* send_one, after one sendMessage with this status: 400 on the first try is
\* answered with the same chunk as plain text, any other failure gives up the
\* rest of the reply.
Sent(u, status) ==
  IF status = "ok"
  THEN /\ received' = [received EXCEPT ![u] = Append(@, chunk[u])]
       /\ stage' = [stage EXCEPT ![u] = IF chunk[u] = Chunks THEN "delivered" ELSE "html"]
       /\ chunk' = [chunk EXCEPT ![u] = IF @ = Chunks THEN 1 ELSE @ + 1]
  ELSE /\ stage' = [stage EXCEPT ![u] =
            IF status = "400" /\ @ = "html" THEN "plain" ELSE "failed"]
       /\ UNCHANGED <<received, chunk>>

SendChunk(u) ==
  /\ stage[u] \in {"html", "plain"}
  /\ \E status \in {"ok"} \cup (IF "send_error" \in ChannelEvents THEN {"400", "error"} ELSE {}) :
       Sent(u, status)
  /\ UNCHANGED <<desktop, telegramVars, pollVars, at, webVars, restarts, started, ran>>

-----------------------------------------------------------------------------
(* The chat requests of the web server.                                    *)

\* The firmware's server has one thread, and the handler of /api/chat waits
\* on it for the answer: nothing else is served meanwhile.
HttpFree == desktop \/ \A r \in Rest : request[r] \notin {"waiting", "running"}

\* The firmware sends a REST request to the agent thread and waits.
AskRest(r) ==
  /\ ~desktop /\ request[r] = "new" /\ HttpFree
  /\ request' = [request EXCEPT ![r] = "waiting"]
  /\ chatq' = Append(chatq, r)
  /\ UNCHANGED <<desktop, telegramVars, pollVars, sendVars, at, gone, restarts, started, ran>>

\* A user message over the WebSocket goes the same way; a thread of its own
\* forwards the events, and the handler returns.
AskWs(r) ==
  /\ ~desktop /\ request[r] = "new" /\ HttpFree
  /\ request' = [request EXCEPT ![r] = "waiting"]
  /\ chatq' = Append(chatq, r)
  /\ UNCHANGED <<desktop, telegramVars, pollVars, sendVars, at, gone, restarts, started, ran>>

\* On the desktop a turn starts at once, in the handler or in a task.
AskDesktop(r) ==
  /\ desktop /\ request[r] = "new"
  /\ request' = [request EXCEPT ![r] = "running"]
  /\ UNCHANGED <<desktop, telegramVars, pollVars, sendVars, at, chatq, gone, restarts, started, ran>>

\* Mutant of HangUp: the turn of a WebSocket ends with its connection too.
HangUpEndsTurn(r) ==
  /\ request[r] \in {"waiting", "running"} /\ r \notin gone
  /\ gone' = gone \cup {r}
  /\ request' = [request EXCEPT ![r] = IF desktop THEN "dropped" ELSE @]
  /\ UNCHANGED <<desktop, telegramVars, pollVars, sendVars, at, chatq, restarts, started, ran>>

\* The browser disconnects.  The forwarder of a WebSocket ends, the turn does
\* not; the desktop's server drops the handler of a REST call, and with it the
\* turn it waits for; the firmware's handler does not notice.
HangUp(r) ==
  /\ request[r] \in {"waiting", "running"} /\ r \notin gone
  /\ IF desktop /\ r \in Rest
     THEN request' = [request EXCEPT ![r] = "dropped"] /\ gone' = gone
     ELSE gone' = gone \cup {r} /\ request' = request
  /\ UNCHANGED <<desktop, telegramVars, pollVars, sendVars, at, chatq, restarts, started, ran>>

\* The agent thread runs every request that is there before it polls again.
DrainTake ==
  /\ at = "drain" /\ chatq # <<>> /\ \A r \in Request : request[r] # "running"
  /\ request' = [request EXCEPT ![Head(chatq)] = "running"]
  /\ chatq' = Tail(chatq)
  /\ UNCHANGED <<desktop, telegramVars, pollVars, sendVars, at, gone, restarts, started, ran>>

\* The turn ends.  A REST caller gets the reply or the error; a WebSocket has
\* had its events by then.
RunRequest(r) ==
  /\ request[r] = "running"
  /\ request' = [request EXCEPT ![r] = "answered"]
  /\ gone' = gone \ {r}
  /\ UNCHANGED <<desktop, telegramVars, pollVars, sendVars, at, chatq, restarts, started, ran>>

DrainDone ==
  /\ ~desktop /\ at = "drain" /\ chatq = <<>> /\ \A r \in Request : request[r] # "running"
  /\ at' = "poll"
  /\ UNCHANGED <<desktop, telegramVars, pollVars, sendVars, webVars, restarts, started, ran>>

\* Everything but what Telegram keeps is gone.
Restart ==
  /\ restarts < MaxRestarts
  /\ restarts' = restarts + 1
  /\ offset' = 0 /\ batch' = <<>> /\ queue' = <<>>
  /\ stage' = [u \in Update |-> IF u \in Working THEN "failed" ELSE stage[u]]
  /\ at' = "drain" /\ chatq' = <<>>
  /\ request' = [r \in Request |-> IF request[r] \in {"waiting", "running"} THEN "lost" ELSE request[r]]
  /\ gone' = {}
  /\ UNCHANGED <<desktop, telegramVars, chunk, received, started, ran>>

Init ==
  /\ desktop \in BOOLEAN
  /\ sent = <<>> /\ confirmed = 0 /\ offset = 0 /\ batch = <<>> /\ queue = <<>>
  /\ stage = [u \in Update |-> "idle"] /\ chunk = [u \in Update |-> 1]
  /\ at = "drain" /\ chatq = <<>> /\ request = [r \in Request |-> "new"]
  /\ gone = {}
  /\ restarts = 0
  /\ started = [u \in Update |-> 0] /\ ran = {} /\ received = [u \in Update |-> <<>>]

AgentStep ==
  \/ Poll \/ PollFails \/ Produce \/ TakeFromBatch \/ BatchDone \/ TakeFromQueue
  \/ DrainTake \/ DrainDone
Reply(u) == EndTurn(u) \/ SendChunk(u)

Next ==
  \/ SendUpdate \/ Restart \/ AgentStep
  \/ \E r \in Rest : AskRest(r)
  \/ \E r \in Ws : AskWs(r)
  \/ \E r \in Request : AskDesktop(r) \/ HangUp(r) \/ RunRequest(r)
  \/ \E u \in Update : Reply(u)

Spec == Init /\ [][Next]_vars

\* The agent thread and the tasks are scheduled, and their turns and calls
\* end (TurnsEnd in Turns.tla; every HTTP call has a timeout).
FairSpec ==
  /\ Spec /\ WF_vars(AgentStep)
  /\ \A u \in Update : WF_vars(Reply(u))
  /\ \A r \in Request : WF_vars(RunRequest(r))

-----------------------------------------------------------------------------
(* Properties.                                                             *)

\* On the firmware Telegram forgets a message only after its turn, whatever
\* fails and whenever the device restarts.  On the desktop that holds until
\* the program ends: a message is confirmed once the next poll begins, when
\* it may still be in the channel or in its turn.
ConfirmedWasRun ==
  \A u \in 1..confirmed : sent[u] =>
    \/ u \in ran
    \/ desktop /\ (restarts > 0 \/ stage[u] = "turn" \/ Contains(queue, u) \/ Contains(batch, u))

\* What a user gets of a reply is its beginning, in order and without a
\* repetition, and all of it when delivery reports success.
DeliveredIsPrefix ==
  \A u \in Update :
    /\ received[u] = [i \in 1..Len(received[u]) |-> i] /\ Len(received[u]) <= Chunks
    /\ stage[u] = "delivered" => Len(received[u]) = Chunks

\* Comment in the forwarder: when the browser disconnects the turn goes on,
\* "so the turn still lands in session JSONL".  A request that is made ends
\* with its answer, and the server has its thread back, unless the program
\* restarts; only the desktop's REST turns end with their connection.
RequestsEnd ==
  \A r \in Request :
    request[r] \in {"waiting", "running"}
      ~> request[r] \in {"answered", "lost"} \cup (IF r \in Rest /\ desktop THEN {"dropped"} ELSE {})
=============================================================================
