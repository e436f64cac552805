------------------------------ MODULE LlmCalls ------------------------------
(***************************************************************************)
(* One request to the LLM, through the three layers that may send it       *)
(* again, and the TLS connections it shares the device with:               *)
(*   agent/src/core/agent_loop.rs      run_loop's circuit breaker          *)
(*   agent/src/esp32/runner.rs         EspRunner, the firmware's client    *)
(*   agent/src/core/runner.rs          Runner, the desktop's client        *)
(*   agent/src/esp32/http_client.rs    execute (Telegram), TLS_MUTEX       *)
(*   agent/src/core/tools/web_tools.rs, core/cloud/client.rs               *)
(*                                                                         *)
(* The breaker calls the runner again after an error that is_retryable;    *)
(* the runner sends the request up to Attempts times.  The firmware keeps  *)
(* the connection of a completed exchange for the next one, and holds      *)
(* TLS_MUTEX during an exchange of the LLM or of Telegram.                 *)
(***************************************************************************)
EXTENDS Integers, FiniteSets

CONSTANTS
  Others,     \* firmware: the threads besides the agent's that use S3
  NoThread,
  Platforms   \* subset of BOOLEAN: TRUE for the desktop

Agent == "agent"

ASSUME LlmCallsAssumption ==
  /\ Agent \notin Others /\ NoThread \notin Others \cup {Agent}
  /\ Platforms \subseteq BOOLEAN

MAX_HTTP_ATTEMPTS == 4
MAX_RETRIES == 3
MAX_CONSECUTIVE_ERRORS == 3

\* What the provider answers: a status, what the body is, and the words of
\* its message that the classification looks for.
Word == {"rate", "quota", "key"}
Answer ==
  [status : {200}, body : {"reply", "junk"}, words : {{}}]
    \cup [status : {200, 400, 401, 429, 500}, body : {"error"}, words : SUBSET Word]

VARIABLES
  onDesktop, \* which of the two programs
  pc,        \* the agent thread: "idle", "call", "attempt", "lock", "post",
             \* "sleep", "verdict", "pause"; "web", "telegram_lock", "telegram"
  attempt,   \* sends of this call to the runner
  errors,    \* run_loop: consecutive_errors
  verdict,   \* what the runner returned: "reply", "rate_limit", "network", ...
  conn,      \* PROVIDER_CONN: "none", "open", or "closed" by the server
  hand,      \* the connection the attempt took
  owner,     \* who holds TLS_MUTEX
  exchanging,\* the other threads inside an S3 exchange
  posts,     \* history: answers the provider gave to the request
  refused,   \* history: it answered that no retry can help
  stale      \* history: exchanges of this call that failed on a kept connection

runnerVars == <<attempt, conn, hand, verdict>>
tlsVars == <<owner, exchanging>>
historyVars == <<posts, refused, stale>>
llmVars == <<onDesktop, pc, errors, runnerVars, tlsVars, historyVars>>

Attempts == IF onDesktop THEN MAX_RETRIES ELSE MAX_HTTP_ATTEMPTS

LlmInit ==
  /\ onDesktop \in Platforms
  /\ pc = "idle"
  /\ attempt = 0 /\ errors = 0 /\ verdict = "reply"
  /\ conn = "none" /\ hand = "none"
  /\ owner = NoThread /\ exchanging = {}
  /\ posts = 0 /\ refused = FALSE /\ stale = 0

-----------------------------------------------------------------------------
(* How an answer is classified.                                            *)

\* Mutant of DeviceVerdict: every 429 is taken for a rate limit.
DeviceVerdictPlain(a) ==
  CASE a.status = 401 -> "auth"
    [] a.status = 429 -> "rate_limit"
    [] a.status = 500 -> "network"
    [] OTHER -> IF a.body = "reply" THEN "reply" ELSE "api"

\* classify_http_error for a status of 400 and above, where a 429 that tells
\* of a spent quota is fatal; the envelope and the parser of call_sync below.
DeviceVerdict(a) ==
  CASE a.status = 401 -> "auth"
    [] a.status = 429 -> IF "quota" \in a.words THEN "api" ELSE "rate_limit"
    [] a.status = 500 -> "network"
    [] a.status = 400 -> "api"
    [] a.body = "reply" -> "reply"
    [] a.body = "junk" -> "parse"
    [] OTHER -> CASE "key" \in a.words -> "auth"
                  [] "rate" \in a.words -> "rate_limit"
                  [] OTHER -> "api"

\* classify_genai_error, which looks at the text of the error only; an error
\* of another kind than a status has no number in it.
DesktopVerdict(a) ==
  CASE a.body = "reply" -> "reply"
    [] a.status = 429 \/ "rate" \in a.words -> "rate_limit"
    [] a.status = 401 \/ "key" \in a.words -> "auth"
    [] a.status = 500 -> "network"
    [] OTHER -> "api"

Verdict(a) == IF onDesktop THEN DesktopVerdict(a) ELSE DeviceVerdict(a)

Retryable(v) == v \in {"rate_limit", "network"}

\* What the provider means: a wrong key, a bad request and a spent quota stay.
Lasting(a) ==
  \/ a.status \in {400, 401}
  \/ a.status = 429 /\ "quota" \in a.words

-----------------------------------------------------------------------------
(* The agent thread: run_loop and its runner.                              *)

\* A turn comes to its next request: run_loop calls the runner.
NewRequest ==
  /\ pc = "idle"
  /\ pc' = "call"
  /\ errors' = 0
  /\ posts' = 0 /\ refused' = FALSE
  /\ UNCHANGED <<onDesktop, runnerVars, tlsVars, stale>>

\* call_sync and call_impl build the request and start to send it.
Call ==
  /\ pc = "call"
  /\ attempt' = 1
  /\ stale' = 0
  /\ pc' = "attempt"
  /\ UNCHANGED <<onDesktop, errors, conn, hand, verdict, tlsVars, posts, refused>>

\* The firmware takes the warm connection or builds one; on the desktop the
\* connections are the HTTP library's.
TakeConnection ==
  /\ pc = "attempt"
  /\ hand' = conn
  /\ conn' = "none"
  /\ pc' = IF onDesktop THEN "post" ELSE "lock"
  /\ UNCHANGED <<onDesktop, errors, attempt, verdict, tlsVars, historyVars>>

\* The client cannot be allocated: no other attempt, and Network is retryable.
BuildFails ==
  /\ ~onDesktop
  /\ pc = "attempt" /\ conn = "none"
  /\ verdict' = "network"
  /\ pc' = "verdict"
  /\ UNCHANGED <<onDesktop, errors, attempt, conn, hand, tlsVars, historyVars>>

Lock ==
  /\ pc \in {"lock", "telegram_lock"}
  /\ owner = NoThread
  /\ owner' = Agent
  /\ pc' = IF pc = "lock" THEN "post" ELSE "telegram"
  /\ UNCHANGED <<onDesktop, errors, runnerVars, exchanging, historyVars>>

Unlock == owner' = IF owner = Agent THEN NoThread ELSE owner

\* A refusal is counted as the provider means it.
Heard(a) ==
  /\ posts' = posts + 1
  /\ refused' = (refused \/ Lasting(a))

\* After an error that the runner retries.
SleepOr(v) ==
  IF attempt < Attempts
  THEN pc' = "sleep" /\ verdict' = verdict
  ELSE pc' = "verdict" /\ verdict' = v

\* The exchange completes.  The firmware returns every status to call_sync
\* and keeps the connection; the desktop's runner classifies right here and
\* sends the request again after an error that is retryable.
Answered ==
  /\ pc = "post"
  /\ hand # "closed"
  /\ \E a \in Answer :
       /\ Heard(a)
       /\ IF onDesktop /\ Retryable(Verdict(a))
          THEN SleepOr(Verdict(a))
          ELSE pc' = "verdict" /\ verdict' = Verdict(a)
  /\ conn' = IF onDesktop THEN "none" ELSE "open"
  /\ hand' = "none"
  /\ Unlock
  /\ UNCHANGED <<onDesktop, errors, attempt, exchanging, stale>>

\* The firmware's client sends the request again.  On the desktop the text of
\* the error has no status in it, which makes it an error that is not retried.
BrokenVerdict ==
  IF onDesktop THEN pc' = "verdict" /\ verdict' = "api" ELSE SleepOr("network")

\* Mutant of Broken: the connection is put back whatever became of it.
BrokenKept ==
  /\ pc = "post"
  /\ \E processed \in BOOLEAN :
       posts' = IF processed /\ hand # "closed" THEN posts + 1 ELSE posts
  /\ BrokenVerdict
  /\ stale' = IF hand # "none" THEN stale + 1 ELSE stale
  /\ conn' = IF onDesktop THEN "none" ELSE "closed"
  /\ hand' = "none"
  /\ Unlock
  /\ UNCHANGED <<onDesktop, errors, attempt, exchanging, refused>>

\* The exchange fails: refused or reset handshake, a closed connection, a
\* timeout.  The provider may have processed the request all the same.
Broken ==
  /\ pc = "post"
  /\ \E processed \in BOOLEAN :
       posts' = IF processed /\ hand # "closed" THEN posts + 1 ELSE posts
  /\ BrokenVerdict
  /\ stale' = IF hand # "none" THEN stale + 1 ELSE stale
  /\ conn' = "none" /\ hand' = "none"
  /\ Unlock
  /\ UNCHANGED <<onDesktop, errors, attempt, exchanging, refused>>

\* The backoff is over.
Backoff ==
  /\ pc = "sleep"
  /\ attempt' = IF attempt < Attempts THEN attempt + 1 ELSE attempt
  /\ pc' = "attempt"
  /\ UNCHANGED <<onDesktop, errors, conn, hand, verdict, tlsVars, historyVars>>

\* The runner returned a reply, or an error that ends the turn.
ReplyOrFatal ==
  /\ pc = "verdict"
  /\ ~Retryable(verdict)
  /\ pc' = "idle"
  /\ UNCHANGED <<onDesktop, errors, runnerVars, tlsVars, historyVars>>

\* The circuit breaker counts an error and calls again, or gives up.
CountError ==
  /\ pc = "verdict"
  /\ Retryable(verdict)
  /\ errors' = errors + 1
  /\ pc' = IF errors' >= MAX_CONSECUTIVE_ERRORS THEN "idle"
           ELSE IF onDesktop THEN "call" ELSE "pause"
  /\ UNCHANGED <<onDesktop, runnerVars, tlsVars, historyVars>>

\* The firmware's loop sleeps before it calls again.
Pause ==
  /\ pc = "pause"
  /\ pc' = "call"
  /\ UNCHANGED <<onDesktop, errors, runnerVars, tlsVars, historyVars>>

-----------------------------------------------------------------------------
(* Other exchanges of the firmware.                                        *)

\* The agent thread polls or answers Telegram: execute takes the lock.
Telegram ==
  /\ ~onDesktop
  /\ pc = "idle"
  /\ pc' = "telegram_lock"
  /\ UNCHANGED <<onDesktop, errors, runnerVars, tlsVars, historyVars>>

\* A tool fetches a page, or reads or writes an object: no lock is taken.
WebRequest ==
  /\ ~onDesktop
  /\ pc = "idle"
  /\ pc' = "web"
  /\ UNCHANGED <<onDesktop, errors, runnerVars, tlsVars, historyVars>>

ExchangeEnds ==
  /\ pc \in {"web", "telegram"}
  /\ pc' = "idle"
  /\ Unlock
  /\ UNCHANGED <<onDesktop, errors, runnerVars, exchanging, historyVars>>

\* The web server and the replicator read and write objects: no lock either.
ObjectRequest(t) ==
  /\ ~onDesktop
  /\ t \notin exchanging
  /\ exchanging' = exchanging \cup {t}
  /\ UNCHANGED <<onDesktop, pc, errors, runnerVars, owner, historyVars>>

ObjectReply(t) ==
  /\ t \in exchanging
  /\ exchanging' = exchanging \ {t}
  /\ UNCHANGED <<onDesktop, pc, errors, runnerVars, owner, historyVars>>

\* The provider closes the connection the firmware keeps.
ServerCloses ==
  /\ \/ conn = "open" /\ conn' = "closed" /\ hand' = hand
     \/ hand = "open" /\ hand' = "closed" /\ conn' = conn
  /\ UNCHANGED <<onDesktop, pc, errors, attempt, verdict, tlsVars, historyVars>>

\* The steps of a request once it is made: the network answers or times out.
RequestStep ==
  \/ Call \/ TakeConnection \/ BuildFails \/ Lock \/ Answered \/ Broken
  \/ Backoff \/ ReplyOrFatal \/ CountError \/ Pause \/ ExchangeEnds

LlmNext ==
  \/ NewRequest \/ RequestStep \/ Telegram \/ WebRequest \/ ServerCloses
  \/ \E t \in Others : ObjectRequest(t) \/ ObjectReply(t)

LlmSpec == LlmInit /\ [][LlmNext]_llmVars

\* Exchanges time out after 15 to 60 s and sleeps end.
LlmFairSpec == LlmSpec /\ WF_llmVars(RequestStep)

-----------------------------------------------------------------------------
(* Properties.                                                             *)

TypeOK ==
  /\ onDesktop \in BOOLEAN
  /\ pc \in {"idle", "call", "attempt", "lock", "post", "sleep", "verdict",
             "pause", "web", "telegram_lock", "telegram"}
  /\ attempt \in 0..Attempts /\ errors \in 0..MAX_CONSECUTIVE_ERRORS
  /\ verdict \in {"reply", "rate_limit", "network", "auth", "api", "parse"}
  /\ conn \in {"none", "open", "closed"} /\ hand \in {"none", "open", "closed"}
  /\ owner \in {NoThread, Agent} /\ exchanging \subseteq Others
  /\ posts \in 0..(Attempts * MAX_CONSECUTIVE_ERRORS)
  /\ refused \in BOOLEAN /\ stale \in 0..Attempts

\* Doc, on is_retryable and in run_loop: a bad key, a bad request and a spent
\* balance "never recover on retry".  On the firmware none of the three layers
\* sends a request again once the provider refused it for good.
RefusedStaysRefused ==
  [][~onDesktop /\ refused /\ pc # "idle" => posts' = posts]_llmVars

\* Doc, on MAX_HTTP_ATTEMPTS: resets are retried "before they ever reach the
\* agent-loop circuit breaker".  A kept connection that the server closed, or
\* that breaks, costs the call one of its attempts and no more: all others are
\* made on connections of their own.
KeptConnectionCostsOne == stale <= 1

\* Doc, on esp_http_post: the lock is "released during the backoff sleep".
\* Nobody waits for the lock longer than an exchange, however long the client
\* backs off or the loop pauses.
LockHeldForExchange == owner = Agent => pc \in {"post", "telegram"}

\* A request ends, with a reply or an error, though every layer retries.
RequestEnds == pc = "call" ~> pc = "idle"

\* Doc, on TLS_MUTEX: "the device can only sustain one TLS context at a time",
\* the lock is acquired "before opening any outbound HTTPS connection".
OneTlsExchange ==
  Cardinality(exchanging \cup (IF pc \in {"post", "web", "telegram"} /\ ~onDesktop
                               THEN {Agent} ELSE {})) <= 1
=============================================================================
