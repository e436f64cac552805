----------------------------- MODULE CallsProofs -----------------------------
(* Theorems about the calls that the gateway takes and those it makes:     *)
(*   Channels.tla   for any number of updates, restarts and requests       *)
(*   LlmCalls.tla   for any set of other threads and for both programs     *)
EXTENDS Channels, LlmCalls, TLAPS

-----------------------------------------------------------------------------
(* Channels: what a restart may forget.                                    *)

USE ChannelsAssumption

Stages == {"idle", "turn", "html", "plain", "delivered", "failed"}

\* The types.  The agent thread of the firmware has no message in hand but
\* while it is at a batch.
Shape ==
  /\ desktop \in BOOLEAN
  /\ sent \in Seq(BOOLEAN) /\ Len(sent) <= NumUpdates
  /\ confirmed \in 0..Len(sent) /\ offset \in 0..(Len(sent) + 1)
  /\ batch \in Seq(Update) /\ queue \in Seq(Update)
  /\ stage \in [Update -> Stages]
  /\ restarts \in Nat
  /\ ~desktop /\ at # "batch" => batch = <<>> /\ Working = {}

\* What has become of a message that a poll has returned.
Handled(u) ==
  \/ u \in ran
  \/ stage[u] = "turn"
  \/ Contains(batch, u)
  \/ desktop /\ (restarts > 0 \/ Contains(queue, u))

\* The next poll will confirm what is below the offset: all of it is handled,
\* though a restart may forget the offset.
SeenIsHandled == \A u \in 1..(offset - 1) : sent[u] => Handled(u)

Inv == Shape /\ SeenIsHandled /\ ConfirmedWasRun

-----------------------------------------------------------------------------
(* Sequences of updates.                                                   *)

LEMMA HeadOrTail ==
  ASSUME NEW s \in Seq(Update), s # <<>>
  PROVE  /\ Head(s) \in Update /\ Tail(s) \in Seq(Update)
         /\ \A u : Contains(s, u) => u = Head(s) \/ Contains(Tail(s), u)
<1>1. Head(s) \in Update /\ Tail(s) \in Seq(Update)
  OBVIOUS
<1>2. ASSUME NEW u, Contains(s, u), u # Head(s) PROVE Contains(Tail(s), u)
  <2>1. PICK i \in 1..Len(s) : s[i] = u
    BY <1>2 DEF Contains
  <2>2. i # 1
    BY <1>2, <2>1
  <2>3. i - 1 \in 1..Len(Tail(s)) /\ Tail(s)[i - 1] = u
    BY <2>1, <2>2
  <2> QED BY <2>3 DEF Contains
<1> QED BY <1>1, <1>2

LEMMA AppendContains ==
  ASSUME NEW s \in Seq(Update), NEW v \in Update
  PROVE  /\ Append(s, v) \in Seq(Update)
         /\ Contains(Append(s, v), v)
         /\ \A u : Contains(s, u) => Contains(Append(s, v), u)
<1>1. Append(s, v) \in Seq(Update) /\ Len(Append(s, v)) = Len(s) + 1
  OBVIOUS
<1>2. Append(s, v)[Len(s) + 1] = v /\ Len(s) + 1 \in 1..Len(Append(s, v))
  OBVIOUS
<1>3. \A i \in 1..Len(s) : Append(s, v)[i] = s[i] /\ i \in 1..Len(Append(s, v))
  OBVIOUS
<1> QED BY <1>1, <1>2, <1>3 DEF Contains

\* The answer to a poll is every update that is not confirmed.
LEMMA BatchHolds ==
  ASSUME NEW n \in 0..NumUpdates, NEW c \in 0..n
  PROVE  LET b == [i \in 1..(n - c) |-> c + i]
         IN  b \in Seq(Update) /\ \A u \in (c + 1)..n : Contains(b, u)
<1> DEFINE b == [i \in 1..(n - c) |-> c + i]
<1>1. n - c \in Nat /\ \A i \in 1..(n - c) : c + i \in Update
  BY DEF Update
<1>2. b \in Seq(Update) /\ Len(b) = n - c
  BY <1>1
<1>3. ASSUME NEW u \in (c + 1)..n PROVE Contains(b, u)
  <2>1. u - c \in 1..(n - c) /\ b[u - c] = u
    OBVIOUS
  <2> QED BY <1>2, <2>1 DEF Contains
<1> QED BY <1>2, <1>3

-----------------------------------------------------------------------------
(* The steps.                                                              *)

LEMMA InvInit == Init => Inv
BY DEF Init, Inv, Shape, SeenIsHandled, ConfirmedWasRun, Stages, Working, InStage

\* A step leaves Telegram and the offset alone and forgets no message: then
\* the invariant stays.
LEMMA NothingForgotten ==
  ASSUME Inv, Shape', UNCHANGED <<desktop, telegramVars, offset>>,
         ran \subseteq ran', restarts' = restarts,
         \A u \in Update : sent[u] =>
           /\ stage[u] = "turn" => Handled(u)'
           /\ Contains(batch, u) => Handled(u)'
           /\ desktop /\ Contains(queue, u) => Handled(u)'
  PROVE  Inv'
<1>1. ASSUME NEW u \in Update, sent[u], Handled(u) PROVE Handled(u)'
  BY <1>1 DEF Handled
<1>2. SeenIsHandled'
  BY <1>1 DEF SeenIsHandled, telegramVars, Inv, Shape, Update
<1>3. ConfirmedWasRun'
  <2> SUFFICES ASSUME NEW u \in 1..confirmed, sent[u]
               PROVE  \/ u \in ran'
                      \/ desktop /\ Handled(u)'
    BY DEF ConfirmedWasRun, Handled, telegramVars
  <2>1. u \in Update
    BY DEF Inv, Shape, Update
  <2>2. u \in ran \/ (desktop /\ Handled(u))
    BY DEF Inv, ConfirmedWasRun, Handled
  <2> QED BY <1>1, <2>1, <2>2
<1> QED BY <1>2, <1>3 DEF Inv

LEMMA InvStep == Inv /\ [Next]_vars => Inv'
<1> SUFFICES ASSUME Inv, [Next]_vars PROVE Inv'
  OBVIOUS
<1>0. desktop' = desktop
  BY DEF Next, AgentStep, Reply, SendUpdate, Restart, AskRest, AskWs, AskDesktop, HangUp,
         RunRequest, EndTurn, SendChunk, Poll, PollFails, Produce, TakeFromBatch, BatchDone,
         TakeFromQueue, DrainTake, DrainDone, vars
<1>1. CASE SendUpdate
  <2>1. PICK text \in BOOLEAN : sent' = Append(sent, text)
    BY <1>1 DEF SendUpdate
  <2>2. /\ Len(sent) < NumUpdates
        /\ UNCHANGED <<confirmed, offset, batch, queue, stage, restarts, at, ran>>
    BY <1>1 DEF SendUpdate, pollVars, sendVars
  <2>3. sent' \in Seq(BOOLEAN) /\ Len(sent') = Len(sent) + 1
        /\ \A u \in 1..Len(sent) : sent'[u] = sent[u]
    BY <2>1 DEF Inv, Shape
  <2>4. Shape'
    BY <1>0, <2>2, <2>3 DEF Inv, Shape, Working, InStage
  <2>5. \A u : Handled(u)' = Handled(u)
    BY <1>0, <2>2 DEF Handled
  <2>6. SeenIsHandled'
    <3> SUFFICES ASSUME NEW u \in 1..(offset - 1), sent'[u] PROVE Handled(u)'
      BY <2>2 DEF SeenIsHandled
    <3>1. u \in 1..Len(sent)
      BY DEF Inv, Shape
    <3>2. Handled(u)
      BY <2>3, <3>1 DEF Inv, SeenIsHandled
    <3> QED BY <2>5, <3>2
  <2>7. ConfirmedWasRun'
    BY <1>0, <2>2, <2>3 DEF Inv, Shape, ConfirmedWasRun
  <2> QED BY <2>4, <2>6, <2>7 DEF Inv
<1>2. CASE Poll
  <2>1. /\ MayPoll
        /\ confirmed' = Greater(confirmed, offset - 1)
        /\ batch' = [i \in 1..(Len(sent) - confirmed') |-> confirmed' + i]
        /\ offset' = Greater(offset, Len(sent) + 1)
        /\ at' = (IF desktop THEN at ELSE "batch")
        /\ UNCHANGED <<sent, queue, stage, restarts, ran>>
    BY <1>2 DEF Poll, sendVars
  <2>2. /\ Len(sent) \in 0..NumUpdates
        /\ confirmed' \in 0..Len(sent) /\ offset' = Len(sent) + 1
    BY <2>1 DEF Inv, Shape, Greater
  <2>3. batch' \in Seq(Update) /\ \A u \in (confirmed' + 1)..Len(sent) : Contains(batch', u)
    BY <2>1, <2>2, BatchHolds
  <2>4. Shape'
    BY <1>0, <2>1, <2>2, <2>3 DEF Inv, Shape, Working, InStage
  <2>5. batch = <<>> /\ (~desktop => Working = {})
    BY <2>1 DEF Inv, Shape, MayPoll
  <2>6. ASSUME NEW u \in 1..confirmed', sent[u]
        PROVE  \/ u \in ran
               \/ desktop /\ (restarts > 0 \/ stage[u] = "turn" \/ Contains(queue, u))
    <3>1. u \in Update /\ ~Contains(batch, u)
      BY <2>2, <2>5 DEF Update, Contains
    <3>2. CASE u \in 1..confirmed
      <4>1. \/ u \in ran
            \/ desktop /\ (restarts > 0 \/ stage[u] = "turn" \/ Contains(queue, u) \/ Contains(batch, u))
        BY <2>6, <3>2 DEF Inv, ConfirmedWasRun
      <4> QED BY <3>1, <4>1
    <3>3. CASE u \in 1..(offset - 1)
      <4>1. Handled(u)
        BY <2>6, <3>3 DEF Inv, SeenIsHandled
      <4>2. ~desktop => stage[u] # "turn"
        BY <2>5, <3>1 DEF Working, InStage
      <4>3. desktop \in BOOLEAN
        BY DEF Inv, Shape
      <4> QED BY <3>1, <4>1, <4>2, <4>3, Zenon DEF Handled
    <3> QED BY <2>1, <3>2, <3>3 DEF Greater, Inv, Shape
  <2>7. ConfirmedWasRun'
    BY <1>0, <2>1, <2>6 DEF ConfirmedWasRun
  <2>8. SeenIsHandled'
    <3> SUFFICES ASSUME NEW u \in 1..Len(sent), sent[u] PROVE Handled(u)'
      BY <2>1, <2>2 DEF SeenIsHandled, Inv, Shape
    <3>1. CASE u \in 1..confirmed'
      BY <1>0, <2>1, <2>6, <3>1 DEF Handled
    <3>2. CASE u \notin 1..confirmed'
      <4>1. u \in (confirmed' + 1)..Len(sent)
        <5>1. \A n, c, x \in Int : x \in 1..n /\ x \notin 1..c => x \in (c + 1)..n
          OBVIOUS
        <5>2. confirmed' \in Int /\ Len(sent) \in Int /\ u \in Int
          BY <2>2
        <5> QED BY <3>2, <5>1, <5>2
      <4> QED BY <2>3, <4>1 DEF Handled
    <3> QED BY <3>1, <3>2
  <2> QED BY <2>4, <2>7, <2>8 DEF Inv
<1>3. CASE PollFails
  <2>1. /\ MayPoll
        /\ confirmed' \in {confirmed, Greater(confirmed, offset - 1)}
        /\ at' = (IF desktop THEN at ELSE "drain")
        /\ UNCHANGED <<sent, offset, batch, queue, stage, restarts, ran>>
    BY <1>3 DEF PollFails, sendVars, pollVars
  <2>2. confirmed' \in 0..Len(sent)
    BY <2>1 DEF Inv, Shape, Greater
  <2>3. batch = <<>> /\ (~desktop => Working = {})
    BY <2>1 DEF Inv, Shape, MayPoll
  <2>4. Shape'
    BY <1>0, <2>1, <2>2, <2>3 DEF Inv, Shape, Working, InStage
  <2>5. SeenIsHandled'
    BY <1>0, <2>1 DEF Inv, SeenIsHandled, Handled
  <2>6. ASSUME NEW u \in 1..confirmed', sent[u]
        PROVE  \/ u \in ran
               \/ desktop /\ (restarts > 0 \/ stage[u] = "turn" \/ Contains(queue, u))
    <3>1. u \in Update /\ ~Contains(batch, u)
      BY <2>2, <2>3 DEF Inv, Shape, Update, Contains
    <3>2. CASE u \in 1..confirmed
      <4>1. \/ u \in ran
            \/ desktop /\ (restarts > 0 \/ stage[u] = "turn" \/ Contains(queue, u) \/ Contains(batch, u))
        BY <2>6, <3>2 DEF Inv, ConfirmedWasRun
      <4> QED BY <3>1, <4>1
    <3>3. CASE u \in 1..(offset - 1)
      <4>1. Handled(u)
        BY <2>6, <3>3 DEF Inv, SeenIsHandled
      <4>2. ~desktop => stage[u] # "turn"
        BY <2>3, <3>1 DEF Working, InStage
      <4>3. desktop \in BOOLEAN
        BY DEF Inv, Shape
      <4> QED BY <3>1, <4>1, <4>2, <4>3, Zenon DEF Handled
    <3> QED BY <2>1, <3>2, <3>3 DEF Greater, Inv, Shape
  <2>7. ConfirmedWasRun'
    BY <1>0, <2>1, <2>6 DEF ConfirmedWasRun
  <2> QED BY <2>4, <2>5, <2>7 DEF Inv
<1>4. CASE Produce
  <2>1. /\ desktop /\ batch # <<>>
        /\ queue' = Append(queue, Head(batch)) /\ batch' = Tail(batch)
        /\ UNCHANGED <<telegramVars, offset, stage, restarts, at, ran>>
    BY <1>4 DEF Produce, sendVars
  <2>2. /\ Head(batch) \in Update /\ Tail(batch) \in Seq(Update)
        /\ \A u : Contains(batch, u) => u = Head(batch) \/ Contains(Tail(batch), u)
    BY <2>1, HeadOrTail DEF Inv, Shape
  <2>3. /\ queue' \in Seq(Update) /\ Contains(queue', Head(batch))
        /\ \A u : Contains(queue, u) => Contains(queue', u)
    BY <2>1, <2>2, AppendContains DEF Inv, Shape
  <2>4. Shape'
    BY <1>0, <2>1, <2>2, <2>3 DEF Inv, Shape, telegramVars
  <2> QED BY <1>0, <2>1, <2>2, <2>3, <2>4, NothingForgotten DEF Handled
<1>5. CASE TakeFromBatch
  <2>1. /\ ~desktop /\ at = "batch" /\ batch # <<>> /\ BeginTurn(Head(batch))
        /\ batch' = Tail(batch)
        /\ UNCHANGED <<telegramVars, offset, queue, at, restarts, ran>>
    BY <1>5 DEF TakeFromBatch
  <2>2. /\ Head(batch) \in Update /\ Tail(batch) \in Seq(Update)
        /\ \A u : Contains(batch, u) => u = Head(batch) \/ Contains(Tail(batch), u)
    BY <2>1, HeadOrTail DEF Inv, Shape
  <2>3. stage' = IF sent[Head(batch)] THEN [stage EXCEPT ![Head(batch)] = "turn"] ELSE stage
    BY <2>1 DEF BeginTurn
  <2>4. Shape'
    BY <1>0, <2>1, <2>2, <2>3 DEF Inv, Shape, telegramVars, Stages
  <2> QED BY <1>0, <2>1, <2>2, <2>3, <2>4, NothingForgotten DEF Handled, Inv, Shape
<1>6. CASE TakeFromQueue
  <2>1. /\ desktop /\ queue # <<>> /\ BeginTurn(Head(queue))
        /\ queue' = Tail(queue)
        /\ UNCHANGED <<telegramVars, offset, batch, at, restarts, ran>>
    BY <1>6 DEF TakeFromQueue
  <2>2. /\ Head(queue) \in Update /\ Tail(queue) \in Seq(Update)
        /\ \A u : Contains(queue, u) => u = Head(queue) \/ Contains(Tail(queue), u)
    BY <2>1, HeadOrTail DEF Inv, Shape
  <2>3. stage' = IF sent[Head(queue)] THEN [stage EXCEPT ![Head(queue)] = "turn"] ELSE stage
    BY <2>1 DEF BeginTurn
  <2>4. Shape'
    BY <1>0, <2>1, <2>2, <2>3 DEF Inv, Shape, telegramVars, Stages
  <2> QED BY <1>0, <2>1, <2>2, <2>3, <2>4, NothingForgotten DEF Handled, Inv, Shape
<1>7. ASSUME NEW v \in Update, EndTurn(v) PROVE Inv'
  <2>1. /\ stage[v] = "turn" /\ stage' = [stage EXCEPT ![v] = "html"] /\ ran' = ran \cup {v}
        /\ UNCHANGED <<telegramVars, offset, batch, queue, at, restarts>>
    BY <1>7 DEF EndTurn, pollVars
  <2>2. v \in Working
    BY <2>1 DEF Working, InStage
  <2>3. Shape'
    BY <1>0, <2>1, <2>2 DEF Inv, Shape, telegramVars, Stages
  <2> QED BY <1>0, <2>1, <2>3, NothingForgotten DEF Handled, Inv, Shape
<1>8. ASSUME NEW v \in Update, SendChunk(v) PROVE Inv'
  <2>1. /\ stage[v] \in {"html", "plain"}
        /\ UNCHANGED <<telegramVars, offset, batch, queue, at, restarts, ran>>
        /\ \E st \in {"delivered", "html", "plain", "failed"} : stage' = [stage EXCEPT ![v] = st]
    BY <1>8 DEF SendChunk, Sent, pollVars
  <2>2. v \in Working
    BY <2>1 DEF Working, InStage
  <2>3. Shape'
    BY <1>0, <2>1, <2>2 DEF Inv, Shape, telegramVars, Stages
  <2> QED BY <1>0, <2>1, <2>3, NothingForgotten DEF Handled, Inv, Shape
<1>9. CASE Restart
  <2>1. /\ restarts' = restarts + 1 /\ offset' = 0 /\ batch' = <<>> /\ queue' = <<>>
        /\ stage' = [u \in Update |-> IF u \in Working THEN "failed" ELSE stage[u]]
        /\ UNCHANGED <<telegramVars, ran>>
    BY <1>9 DEF Restart
  <2>2. stage' \in [Update -> Stages] /\ Working' = {}
    BY <2>1 DEF Inv, Shape, Working, InStage, Stages
  <2>3. Shape'
    BY <1>0, <2>1, <2>2 DEF Inv, Shape, telegramVars
  <2>4. SeenIsHandled'
    BY <2>1 DEF SeenIsHandled
  <2>5. ConfirmedWasRun'
    BY <1>0, <2>1 DEF Inv, Shape, ConfirmedWasRun, telegramVars
  <2> QED BY <2>3, <2>4, <2>5 DEF Inv
<1>10. CASE BatchDone \/ DrainDone
  <2>1. /\ ~desktop /\ UNCHANGED <<telegramVars, offset, batch, queue, stage, restarts, ran>>
        /\ at = "batch" => batch = <<>> /\ Working = {}
    BY <1>10 DEF BatchDone, DrainDone, pollVars, sendVars
  <2>2. Shape'
    BY <1>0, <2>1 DEF Inv, Shape, telegramVars, Working, InStage
  <2> QED BY <1>0, <2>1, <2>2, NothingForgotten DEF Handled
<1>11. ASSUME UNCHANGED <<telegramVars, offset, batch, queue, stage, at, restarts, ran>>
       PROVE  Inv'
  <2>1. Shape'
    BY <1>0, <1>11 DEF Inv, Shape, telegramVars, Working, InStage
  <2> QED BY <1>0, <1>11, <2>1, NothingForgotten DEF Handled
<1>12. CASE DrainTake \/ UNCHANGED vars
            \/ \E r \in Request : AskRest(r) \/ AskWs(r) \/ AskDesktop(r) \/ HangUp(r) \/ RunRequest(r)
  BY <1>11, <1>12
     DEF DrainTake, AskRest, AskWs, AskDesktop, HangUp, RunRequest, vars, pollVars, sendVars
<1> QED
  BY <1>1, <1>2, <1>3, <1>4, <1>5, <1>6, <1>7, <1>8, <1>9, <1>10, <1>12
     DEF Next, AgentStep, Reply, Request

\* Telegram forgets a message of the firmware only after its turn, whatever
\* fails and whenever it restarts; on the desktop while the program runs.
THEOREM RunBeforeForgotten == Spec => []ConfirmedWasRun
<1>1. Inv => ConfirmedWasRun
  BY DEF Inv
<1> QED BY <1>1, InvInit, InvStep, PTL DEF Spec

-----------------------------------------------------------------------------
(* LlmCalls: types, and how often a request can be answered.               *)

HIDE ChannelsAssumption
USE LlmCallsAssumption

Labels == {"idle", "call", "attempt", "lock", "post", "sleep", "verdict",
           "pause", "web", "telegram_lock", "telegram"}
Verdicts == {"reply", "rate_limit", "network", "auth", "api", "parse"}

\* The types but for the history.
Typed ==
  /\ onDesktop \in BOOLEAN
  /\ pc \in Labels
  /\ attempt \in 0..Attempts /\ errors \in 0..3
  /\ verdict \in Verdicts
  /\ conn \in {"none", "open", "closed"} /\ hand \in {"none", "open", "closed"}
  /\ owner \in {NoThread, Agent} /\ exchanging \subseteq Others
  /\ posts \in Nat /\ refused \in BOOLEAN /\ stale \in Nat

\* Each layer has used up what it may: `errors` calls that took all their
\* attempts, and the attempts of this call before the one being made.
PostsCounted ==
  /\ pc \in {"call", "attempt", "lock", "post", "sleep", "verdict", "pause"} => errors < 3
  /\ pc \in {"call", "pause"} => posts <= errors * Attempts
  /\ pc \in {"attempt", "lock", "post"} =>
       attempt >= 1 /\ posts <= errors * Attempts + attempt - 1
  /\ pc = "sleep" => attempt < Attempts /\ posts <= errors * Attempts + attempt
  /\ pc = "verdict" => posts <= errors * Attempts + Attempts
  /\ posts <= 3 * Attempts

\* A call meets a broken kept connection at its first attempt only: then it
\* has none left, and the next one is kept by the answer that ends the call.
StaleCounted ==
  /\ stale <= 1
  /\ hand # "none" => pc \in {"lock", "post"}
  /\ stale = 1 /\ pc \in {"attempt", "lock", "post", "sleep"} => conn = "none" /\ hand = "none"

Counted == Typed /\ PostsCounted /\ StaleCounted

LEMMA VerdictType == ASSUME NEW a \in Answer PROVE Verdict(a) \in Verdicts
BY DEF Answer, Verdict, DeviceVerdict, DesktopVerdict, Verdicts

LEMMA AttemptsType == Attempts \in {3, 4}
BY DEF Attempts, MAX_RETRIES, MAX_HTTP_ATTEMPTS

LEMMA CountedInit == LlmInit => Counted
<1> SUFFICES ASSUME LlmInit PROVE Counted
  OBVIOUS
<1>1. Attempts \in {3, 4}
  BY AttemptsType
<1>2. Typed
  <2>1. onDesktop \in BOOLEAN
    BY Zenon DEF LlmInit, LlmCallsAssumption
  <2>2. posts \in Nat /\ refused \in BOOLEAN /\ stale \in Nat
    BY DEF LlmInit
  <2> QED BY <1>1, <2>1, <2>2 DEF LlmInit, Typed, Labels, Verdicts
<1>3. PostsCounted
  <2>1. pc = "idle" /\ posts = 0
    BY DEF LlmInit
  <2> QED BY <1>1, <2>1 DEF PostsCounted
<1>4. StaleCounted
  BY DEF LlmInit, StaleCounted
<1> QED BY <1>2, <1>3, <1>4 DEF Counted

\* One step per action; the numbers are linear once Attempts is one of two.
LEMMA CountedStep == Counted /\ [LlmNext]_llmVars => Counted'
<1> SUFFICES ASSUME Counted, [LlmNext]_llmVars PROVE Counted'
  OBVIOUS
<1> USE DEF Counted, Typed, PostsCounted, StaleCounted, Labels
<1>0. Attempts \in {3, 4}
  BY AttemptsType
<1>1. onDesktop' = onDesktop /\ Attempts' = Attempts
  BY DEF LlmNext, RequestStep, NewRequest, Call, TakeConnection, BuildFails, Lock, Answered,
         Broken, Backoff, ReplyOrFatal, CountError, Pause, ExchangeEnds, Telegram,
         WebRequest, ServerCloses, ObjectRequest, ObjectReply, llmVars, Attempts
<1>2. CASE NewRequest
  <2>1. /\ pc = "idle" /\ pc' = "call" /\ errors' = 0 /\ posts' = 0 /\ refused' \in BOOLEAN
        /\ UNCHANGED <<attempt, conn, hand, verdict, owner, exchanging, stale>>
    BY <1>2 DEF NewRequest, runnerVars, tlsVars
  <2>2. Typed'
    BY <1>0, <1>1, <2>1
  <2>3. PostsCounted'
    <3>1. posts' = 0 /\ errors' * Attempts' = 0 /\ 3 * Attempts' >= 0
      BY <1>0, <1>1, <2>1
    <3> QED BY <2>1, <3>1
  <2> QED BY <2>1, <2>2, <2>3
<1>3. CASE Call
  BY <1>0, <1>1, <1>3 DEF Call, tlsVars
<1>4. CASE TakeConnection
  BY <1>0, <1>1, <1>4 DEF TakeConnection, tlsVars, historyVars
<1>5. CASE BuildFails
  BY <1>0, <1>1, <1>5 DEF BuildFails, tlsVars, historyVars, Verdicts
<1>6. CASE Lock
  BY <1>0, <1>1, <1>6 DEF Lock, runnerVars, historyVars
<1>7. CASE Answered
  <2>1. PICK a \in Answer :
          /\ Heard(a)
          /\ IF onDesktop /\ Retryable(Verdict(a))
             THEN SleepOr(Verdict(a))
             ELSE pc' = "verdict" /\ verdict' = Verdict(a)
    BY <1>7 DEF Answered
  <2>2. posts' = posts + 1 /\ refused' \in BOOLEAN
    BY <2>1 DEF Heard, Lasting
  <2>3. /\ verdict' \in Verdicts
        /\ (pc' = "sleep" /\ attempt < Attempts /\ onDesktop) \/ pc' = "verdict"
    BY <2>1, VerdictType DEF SleepOr
  <2>4. /\ pc = "post" /\ hand' = "none"
        /\ conn' \in {"none", "open"} /\ (onDesktop => conn' = "none")
        /\ owner' \in {NoThread, Agent}
        /\ UNCHANGED <<errors, attempt, exchanging, stale>>
    BY <1>7 DEF Answered, Unlock
  <2> QED BY <1>0, <1>1, <2>2, <2>3, <2>4
<1>8. CASE Broken
  <2>1. posts' \in {posts, posts + 1} /\ stale' = (IF hand # "none" THEN stale + 1 ELSE stale)
    BY <1>8 DEF Broken
  <2>2. /\ verdict' \in Verdicts
        /\ (pc' = "sleep" /\ attempt < Attempts) \/ pc' = "verdict"
    BY <1>8 DEF Broken, BrokenVerdict, SleepOr, Verdicts
  <2>3. /\ pc = "post" /\ hand' = "none" /\ conn' = "none"
        /\ owner' \in {NoThread, Agent}
        /\ UNCHANGED <<errors, attempt, exchanging, refused>>
    BY <1>8 DEF Broken, Unlock
  <2> QED BY <1>0, <1>1, <2>1, <2>2, <2>3
<1>9. CASE Backoff
  BY <1>0, <1>1, <1>9 DEF Backoff, tlsVars, historyVars
<1>10. CASE ReplyOrFatal
  BY <1>0, <1>1, <1>10 DEF ReplyOrFatal, runnerVars, tlsVars, historyVars
<1>11. CASE CountError
  BY <1>0, <1>1, <1>11
     DEF CountError, runnerVars, tlsVars, historyVars, MAX_CONSECUTIVE_ERRORS
<1>12. CASE Pause
  BY <1>0, <1>1, <1>12 DEF Pause, runnerVars, tlsVars, historyVars
<1>13. CASE ExchangeEnds
  BY <1>0, <1>1, <1>13 DEF ExchangeEnds, Unlock, runnerVars, historyVars
<1>14. CASE Telegram
  BY <1>0, <1>1, <1>14 DEF Telegram, runnerVars, tlsVars, historyVars
<1>15. CASE WebRequest
  BY <1>0, <1>1, <1>15 DEF WebRequest, runnerVars, tlsVars, historyVars
<1>16. CASE ServerCloses
  BY <1>0, <1>1, <1>16 DEF ServerCloses, tlsVars, historyVars
<1>17. CASE \E t \in Others : ObjectRequest(t) \/ ObjectReply(t)
  BY <1>0, <1>1, <1>17 DEF ObjectRequest, ObjectReply, runnerVars, historyVars
<1>18. CASE UNCHANGED llmVars
  BY <1>0, <1>1, <1>18 DEF llmVars, runnerVars, tlsVars, historyVars
<1> QED
  BY <1>2, <1>3, <1>4, <1>5, <1>6, <1>7, <1>8, <1>9, <1>10, <1>11, <1>12, <1>13,
     <1>14, <1>15, <1>16, <1>17, <1>18 DEF LlmNext, RequestStep

\* The variables keep their types.  Among them: the three layers together let
\* a request be answered Attempts * MAX_CONSECUTIVE_ERRORS times at most.
THEOREM LlmTyped == LlmSpec => []TypeOK
<1>1. Counted => TypeOK
  BY AttemptsType
     DEF Counted, Typed, PostsCounted, StaleCounted, TypeOK, Labels, Verdicts,
         MAX_CONSECUTIVE_ERRORS
<1> QED BY <1>1, CountedInit, CountedStep, PTL DEF LlmSpec

\* A kept connection costs a call one attempt at most.
THEOREM StaleOnce == LlmSpec => []KeptConnectionCostsOne
<1>1. Counted => KeptConnectionCostsOne
  BY DEF Counted, StaleCounted, KeptConnectionCostsOne
<1> QED BY <1>1, CountedInit, CountedStep, PTL DEF LlmSpec

-----------------------------------------------------------------------------
(* LlmCalls: the lock.                                                     *)

\* The TLS lock is held during an exchange of the LLM or of Telegram, never
\* through a backoff or a pause.
THEOREM LockIsBrief == LlmSpec => []LockHeldForExchange
<1>1. LlmInit => LockHeldForExchange
  BY DEF LlmInit, LockHeldForExchange
<1>2. LockHeldForExchange /\ [LlmNext]_llmVars => LockHeldForExchange'
  <2> SUFFICES ASSUME LockHeldForExchange, [LlmNext]_llmVars PROVE LockHeldForExchange'
    OBVIOUS
  <2> USE DEF LockHeldForExchange
  <2>1. CASE NewRequest \/ Call \/ TakeConnection \/ BuildFails \/ Backoff
             \/ ReplyOrFatal \/ CountError \/ Pause
    BY <2>1 DEF NewRequest, Call, TakeConnection, BuildFails, Backoff, ReplyOrFatal,
                CountError, Pause, tlsVars
  <2>2. CASE Lock
    BY <2>2 DEF Lock
  <2>3. CASE Answered \/ Broken \/ ExchangeEnds
    BY <2>3 DEF Answered, Broken, ExchangeEnds, Unlock
  <2>4. CASE \/ Telegram \/ WebRequest \/ ServerCloses \/ UNCHANGED llmVars
             \/ \E t \in Others : ObjectRequest(t) \/ ObjectReply(t)
    BY <2>4 DEF Telegram, WebRequest, ServerCloses, ObjectRequest, ObjectReply, llmVars, tlsVars
  <2> QED BY <2>1, <2>2, <2>3, <2>4 DEF LlmNext, RequestStep
<1> QED BY <1>1, <1>2, PTL DEF LlmSpec

-----------------------------------------------------------------------------
(* Refusals.                                                               *)

\* What the provider refuses for good is not retried by the firmware.
LEMMA LastingIsFatal ==
  ASSUME NEW a \in Answer, Lasting(a) PROVE ~Retryable(DeviceVerdict(a))
BY DEF Answer, Lasting, Retryable, DeviceVerdict

\* After a refusal the request is with run_loop, as a fatal error, or over.
RefusalKnown ==
  ~onDesktop /\ refused =>
    \/ pc \in {"idle", "web", "telegram_lock", "telegram"}
    \/ pc = "verdict" /\ ~Retryable(verdict)

LEMMA RefusalStep == RefusalKnown /\ [LlmNext]_llmVars => RefusalKnown'
<1> SUFFICES ASSUME RefusalKnown, [LlmNext]_llmVars, ~onDesktop', refused' PROVE RefusalKnown'
  BY DEF RefusalKnown
<1> USE DEF RefusalKnown
<1>1. CASE NewRequest \/ Call \/ TakeConnection \/ BuildFails \/ Lock \/ Backoff
  BY <1>1 DEF NewRequest, Call, TakeConnection, BuildFails, Lock, Backoff, historyVars
<1>2. CASE Answered
  <2>1. PICK a \in Answer :
          /\ Heard(a)
          /\ IF onDesktop /\ Retryable(Verdict(a))
             THEN SleepOr(Verdict(a))
             ELSE pc' = "verdict" /\ verdict' = Verdict(a)
    BY <1>2 DEF Answered
  <2>2. ~onDesktop /\ pc = "post"
    BY <1>2 DEF Answered
  <2>3. Lasting(a)
    BY <2>1, <2>2 DEF Heard
  <2>4. pc' = "verdict" /\ verdict' = DeviceVerdict(a)
    BY <2>1, <2>2 DEF Verdict
  <2> QED BY <2>3, <2>4, LastingIsFatal DEF Retryable
<1>3. CASE Broken
  BY <1>3 DEF Broken
<1>4. CASE ReplyOrFatal \/ CountError \/ Pause
  BY <1>4 DEF ReplyOrFatal, CountError, Pause, historyVars, runnerVars
<1>5. CASE Telegram \/ WebRequest \/ ExchangeEnds
  BY <1>5 DEF Telegram, WebRequest, ExchangeEnds, historyVars
<1>6. CASE \/ ServerCloses \/ UNCHANGED llmVars
           \/ \E t \in Others : ObjectRequest(t) \/ ObjectReply(t)
  BY <1>6 DEF ServerCloses, ObjectRequest, ObjectReply, llmVars, historyVars, runnerVars, Retryable
<1> QED BY <1>1, <1>2, <1>3, <1>4, <1>5, <1>6 DEF LlmNext, RequestStep

\* On the firmware no layer sends a request again once the provider refused
\* it for good.
THEOREM RefusalsFinal == LlmSpec => RefusedStaysRefused
<1>1. LlmInit => RefusalKnown
  BY DEF LlmInit, RefusalKnown
<1>2. RefusalKnown /\ [LlmNext]_llmVars =>
        [~onDesktop /\ refused /\ pc # "idle" => posts' = posts]_llmVars
  <2> SUFFICES ASSUME RefusalKnown, LlmNext, ~onDesktop, refused, pc # "idle"
               PROVE  posts' = posts
    BY DEF llmVars
  <2>1. pc \notin {"idle", "post"}
    BY DEF RefusalKnown
  <2>2. ~NewRequest /\ ~Answered /\ ~Broken
    BY <2>1 DEF NewRequest, Answered, Broken
  <2> QED
    BY <2>2
       DEF LlmNext, RequestStep, Call, TakeConnection, BuildFails, Lock, Backoff, ReplyOrFatal,
           CountError, Pause, ExchangeEnds, Telegram, WebRequest, ServerCloses,
           ObjectRequest, ObjectReply, historyVars
<1> QED BY <1>1, <1>2, RefusalStep, PTL DEF LlmSpec, RefusedStaysRefused
=============================================================================
