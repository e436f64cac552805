----------------------------- MODULE Transcript ------------------------------
(***************************************************************************)
(* What becomes of a session's messages on their way between the provider, *)
(* the turn, the session file and the web page:                            *)
(*   agent/src/esp32/runner.rs    build_openai_payload, parse_openai_response *)
(*   agent/src/core/runner.rs     build_chat_request, parse_chat_response  *)
(*   agent/src/core/agent_loop.rs execute_tool_calls and its events        *)
(*   agent/src/core/gateway.rs    the prompt, and what a turn persists     *)
(*   agent/src/main.rs, desktop/server.rs  the history of a chat as events *)
(*                                                                         *)
(* A session is a sequence of turns; a turn is what the user said, the     *)
(* answers its calls of the LLM got, and whether it ended with the last of *)
(* them, a text, or with an error after it.                                *)
(***************************************************************************)
EXTENDS Integers, Sequences, SequencesExt

CONSTANT MaxEvents   \* how many events the history endpoint returns (200, 50)
ASSUME MaxEventsAssumption == MaxEvents \in Nat \ {0}

\* What a user says.  The gateway refuses an empty text.
UserText == {"hello", "[x] hello"}

\* What the provider answers: a text, tool calls by name (or both), how it
\* gives their ids, and whether it signs them.
Tool == {"f", "refused", "warned"}
Answer(text, names, ids, signed) ==
  [text |-> text, names |-> names, ids |-> ids, signed |-> signed]

NoId == <<>>
NoSignature == <<>>
None == <<>>
ToolCall(id, name, signature) == [id |-> id, name |-> name, signature |-> signature]
Response(text, calls, raw) == [text |-> text, calls |-> calls, raw |-> raw]

\* The calls of an answer, as the provider has them.  "at" tells it from the
\* session's other answers.
Provided(answer, at) ==
  [k \in 1..Len(answer.names) |->
    ToolCall(IF answer.ids = "given" THEN at \o <<k>> ELSE NoId, answer.names[k],
             IF answer.signed THEN at \o <<k>> ELSE NoSignature)]

\* Calls in a text; see ToolMarkup.  Their ids count from 0 in every answer.
Recovered(prefix) ==
  <<ToolCall(<<prefix, 0>>, "f", NoSignature), ToolCall(<<prefix, 1>>, "warned", NoSignature)>>

\* Mutant of ParseOpenai: only what the protocol names is taken over.
ParseOpenaiPlain(answer, at) ==
  LET calls == [k \in 1..Len(answer.names) |->
        [Provided(answer, at)[k] EXCEPT !.signature = NoSignature]]
  IN CASE calls # <<>> /\ answer.ids # "absent" -> Response(answer.text, calls, None)
       [] answer.text = "markup" -> Response("", Recovered("call_xml"), None)
       [] OTHER -> Response(answer.text, <<>>, None)

\* The firmware.  A call without an id is none.
ParseOpenai(answer, at) ==
  LET calls == IF answer.ids = "absent" THEN <<>> ELSE Provided(answer, at) IN
  CASE calls # <<>> -> Response(answer.text, calls, None)
    [] calls = <<>> /\ answer.text = "markup" -> Response("", Recovered("call_xml"), None)
    [] OTHER -> Response(answer.text, <<>>, None)

\* The desktop.  A call without an id gets one of its function; the calls are
\* kept as they came, for their signatures; a text next to calls is dropped.
ConvertToolCalls(raw) ==
  [k \in 1..Len(raw) |->
    ToolCall(IF raw[k].id = NoId THEN <<"call", raw[k].name>> ELSE raw[k].id,
             raw[k].name, NoSignature)]
ParseChat(answer, at) ==
  LET raw == Provided(answer, at) IN
  CASE raw # <<>> -> Response("", ConvertToolCalls(raw), raw)
    [] raw = <<>> /\ answer.text = "markup" -> Response("", Recovered("call_glm"), None)
    [] OTHER -> Response(answer.text, <<>>, None)

Parse(desktop, answer, at) ==
  IF desktop THEN ParseChat(answer, at) ELSE ParseOpenai(answer, at)

-----------------------------------------------------------------------------
(* A turn.                                                                 *)

Message(role, text, calls, id, raw) ==
  [role |-> role, text |-> text, calls |-> calls, id |-> id, raw |-> raw]
Said(role, text) == Message(role, text, <<>>, NoId, None)

ToolResult(call) ==
  Message("tool", IF call.name = "refused" THEN "error" ELSE "result", <<>>, call.id, None)

Warnings(calls) ==
  IF \E k \in 1..Len(calls) : calls[k].name = "warned" THEN <<Said("system", "warning")>> ELSE <<>>

\* Mutant of Executed: a warning is pushed when the detector gives it.
ExecutedInterleaved(response) ==
  <<Message("assistant", response.text, response.calls, NoId, response.raw)>>
    \o FlattenSeq([k \in 1..Len(response.calls) |->
         Warnings(<<response.calls[k]>>) \o <<ToolResult(response.calls[k])>>])

\* execute_tool_calls: the answer, a result per call, then the warnings.
Executed(response) ==
  <<Message("assistant", response.text, response.calls, NoId, response.raw)>>
    \o [k \in 1..Len(response.calls) |-> ToolResult(response.calls[k])]
    \o Warnings(response.calls)

\* What an answer adds to the messages of its turn.  A text that is not the
\* last answer was nudged.
Pushed(response, last) ==
  CASE response.calls # <<>> -> Executed(response)
    [] response.calls = <<>> /\ last -> <<Said("assistant", response.text)>>
    [] OTHER -> <<Said("assistant", response.text), Said("system", "reminder")>>

Event(type, id, text) == [type |-> type, id |-> id, text |-> text]

\* The events of an answer, those of thinking left out.
Live(response, last) ==
  IF response.calls # <<>>
  THEN FlattenSeq([k \in 1..Len(response.calls) |->
         <<Event("started", response.calls[k].id, response.calls[k].name),
           Event("finished", response.calls[k].id, ToolResult(response.calls[k]).text)>>])
  ELSE IF last /\ response.text # "" THEN <<Event("text", NoId, response.text)>> ELSE <<>>

Responses(desktop, turn, t) ==
  [r \in 1..Len(turn.answers) |-> Parse(desktop, turn.answers[r], <<t, r>>)]

\* A turn ends with a text, or with an error and no text.
IsReply(turn, r) == r = Len(turn.answers) /\ ~turn.error

TurnMessages(desktop, turn, t) ==
  LET responses == Responses(desktop, turn, t) IN
  FlattenSeq([r \in 1..Len(responses) |-> Pushed(responses[r], IsReply(turn, r))])

TurnEvents(desktop, turn, t) ==
  LET responses == Responses(desktop, turn, t) IN
  <<Event("user", NoId, turn.said)>>
    \o FlattenSeq([r \in 1..Len(responses) |-> Live(responses[r], IsReply(turn, r))])

-----------------------------------------------------------------------------
(* The session file and the requests.                                      *)

\* Mutant of Stored: texts only are kept.
StoredTexts(messages) ==
  LET texts == SelectSeq(messages, LAMBDA m : m.role # "system" /\ m.id = NoId)
  IN [k \in 1..Len(texts) |-> [texts[k] EXCEPT !.raw = None, !.calls = <<>>]]

\* What the turn persists of the new messages: system messages are guidance
\* for the turn alone, and the desktop's raw calls are not serialized.
Stored(messages) ==
  FlattenSeq([k \in 1..Len(messages) |->
    IF messages[k].role = "system" THEN <<>> ELSE <<[messages[k] EXCEPT !.raw = None]>>])

\* The user's message is stored as the turn begins, the rest when it ends
\* with a reply.
TurnStored(desktop, turn, t) ==
  <<Said("user", turn.said)>>
    \o (IF turn.error THEN <<>> ELSE Stored(TurnMessages(desktop, turn, t)))

SessionStored(x, turns) ==
  FlattenSeq([t \in 1..turns |-> TurnStored(x.desktop, x.turns[t], t)])

\* The messages of the last request: the one that failed, in the turn that
\* ended with an error; else the first of the next turn.
Prompt(x) ==
  LET n == Len(x.turns)
      failed == x.turns[n].error
  IN <<Said("system", "prompt")>> \o SessionStored(x, IF failed THEN n - 1 ELSE n)
       \o <<Said("user", IF failed THEN x.turns[n].said ELSE "hello")>>
       \o (IF failed THEN TurnMessages(x.desktop, x.turns[n], n) ELSE <<>>)

\* build_openai_payload sends every message as it is.  build_chat_request
\* sends the raw calls where it has them, no text next to calls, and of the
\* system messages the last one only, which replaces those before it.
Sent(m) ==
  IF m.raw # None THEN [m EXCEPT !.calls = m.raw, !.text = ""]
  ELSE [m EXCEPT !.text = IF m.calls # <<>> THEN "" ELSE @]
Payload(desktop, messages) ==
  LET system == SelectLastInSeq(messages, LAMBDA m : m.role = "system")
  IN IF desktop
     THEN <<messages[system]>>
            \o FlattenSeq([k \in 1..Len(messages) |->
                 IF messages[k].role = "system" THEN <<>> ELSE <<Sent(messages[k])>>])
     ELSE messages

\* The history endpoint: the stored messages as events, every result a
\* success, and of those the last MaxEvents.  The desktop takes brackets that
\* a text begins with for an envelope, which no channel puts there.
StripEnvelope(text) == IF text = "[x] hello" THEN "hello" ELSE text
EventsOf(desktop, m) ==
  CASE m.role = "user" /\ m.text # "" ->
         <<Event("user", NoId, IF desktop THEN StripEnvelope(m.text) ELSE m.text)>>
    [] m.role = "assistant" /\ m.calls # <<>> ->
         [k \in 1..Len(m.calls) |-> Event("started", m.calls[k].id, m.calls[k].name)]
    [] m.role = "assistant" /\ m.calls = <<>> /\ m.text # "" -> <<Event("text", NoId, m.text)>>
    [] m.role = "tool" -> <<Event("finished", m.id, m.text)>>
    [] OTHER -> <<>>
History(desktop, stored) ==
  LET events == FlattenSeq([k \in 1..Len(stored) |-> EventsOf(desktop, stored[k])])
  IN SubSeq(events, IF Len(events) > MaxEvents THEN Len(events) - MaxEvents + 1 ELSE 1, Len(events))

ConvertSession(x) ==
  [request |-> Payload(x.desktop, Prompt(x)),
   history |-> History(x.desktop, SessionStored(x, Len(x.turns)))]

\* The sessions there are: an answer that is not its turn's last asks for
\* tools, or is a text after tools were used; and so is the last one of a
\* turn that ends with an error, while a reply is a text.
Possible(x) ==
  \A t \in 1..Len(x.turns) :
    LET turn == x.turns[t]
        responses == Responses(x.desktop, turn, t)
        goesOn(r) == \E q \in 1..r : responses[q].calls # <<>>
    IN /\ turn.answers = <<>> => turn.error
       /\ \A r \in 1..Len(turn.answers) :
            IF IsReply(turn, r) THEN responses[r].calls = <<>> ELSE goesOn(r)

\* The client library of the desktop refuses a call whose id is absent.
Answers ==
  [text : {"", "said", "markup"}, names : Seq(Tool), ids : {"given", "empty", "absent"}, signed : BOOLEAN]
Turns == [said : UserText, answers : Seq(Answers), error : BOOLEAN]
IsSession(x) ==
  /\ x.desktop \in BOOLEAN
  /\ x.turns \in Seq(Turns) \ {<<>>}
  /\ Possible(x)
  /\ x.desktop => \A t \in 1..Len(x.turns) : \A r \in 1..Len(x.turns[t].answers) :
                    x.turns[t].answers[r].ids # "absent"

-----------------------------------------------------------------------------
(* What must come out.                                                     *)

\* Every tool message answers a call of the assistant message before it, in
\* order and by its id, and every call is answered.
Paired(request) ==
  /\ \A k \in 1..Len(request) :
       LET calls == request[k].calls IN
       /\ \A i, j \in 1..Len(calls) : calls[i].id = calls[j].id => i = j
       /\ \A i \in 1..Len(calls) :
            /\ k + i <= Len(request)
            /\ request[k + i].role = "tool" /\ request[k + i].id = calls[i].id
  /\ \A k \in 1..Len(request) : request[k].role = "tool" =>
       \E j \in 1..(k - 1) : k <= j + Len(request[j].calls)

\* The signatures in a request, and those of the answers it has to show: of
\* every turn that was stored, and of the turn it belongs to.  The desktop
\* keeps them within a turn.
SignaturesOf(calls) ==
  FlattenSeq([i \in 1..Len(calls) |->
    IF calls[i].signature = NoSignature THEN <<>> ELSE <<calls[i].signature>>])
Signatures(request) ==
  FlattenSeq([k \in 1..Len(request) |-> SignaturesOf(request[k].calls)])
SignedCalls(answer, t, r) ==
  IF answer.signed /\ answer.ids # "absent"
  THEN [k \in 1..Len(answer.names) |-> <<t, r, k>>] ELSE <<>>
SignedTurn(turn, t) ==
  FlattenSeq([r \in 1..Len(turn.answers) |-> SignedCalls(turn.answers[r], t, r)])
Signed(x) ==
  LET n == Len(x.turns)
      shown(t) == IF x.desktop THEN t = n /\ x.turns[n].error
                  ELSE t = n \/ ~x.turns[t].error
  IN FlattenSeq([t \in 1..n |-> IF shown(t) THEN SignedTurn(x.turns[t], t) ELSE <<>>])

\* What the page has shown of a session, or is to show of it later.
Shown(x) ==
  FlattenSeq([t \in 1..Len(x.turns) |->
    IF x.turns[t].error THEN <<Event("user", NoId, x.turns[t].said)>>
    ELSE TurnEvents(x.desktop, x.turns[t], t)])
OfType(events, types) ==
  FlattenSeq([k \in 1..Len(events) |-> IF events[k].type \in types THEN <<events[k]>> ELSE <<>>])
Enveloped(x) == x.desktop /\ \E t \in 1..Len(x.turns) : StripEnvelope(x.turns[t].said) # x.turns[t].said
Nudged(x) ==
  \E t \in 1..Len(x.turns) : LET responses == Responses(x.desktop, x.turns[t], t) IN
    \E r \in 1..(Len(responses) - 1) : responses[r].calls = <<>> /\ responses[r].text # ""
=============================================================================
