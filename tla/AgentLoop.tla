------------------------------ MODULE AgentLoop ------------------------------
(***************************************************************************)
(* One run of the LLM <-> tool loop: run_loop and execute_tool_calls of    *)
(* agent/src/core/agent_loop.rs, with the detector of LoopDetector.tla.    *)
(*                                                                         *)
(* The LLM, the tools and the user who cancels are the environment.  The   *)
(* messages are kept since the last answer of the LLM: earlier ones no     *)
(* longer change, so a turn of any length has finitely many states.        *)
(***************************************************************************)
EXTENDS LoopDetector, SequencesExt

CONSTANTS
  Calls,        \* what the LLM may ask for: tool and arguments
  Results,      \* what a tool may return
  MaxBatch      \* bound: tool calls in one answer

MAX_CONSECUTIVE_ERRORS == 3
MAX_CONTINUATION_NUDGES == 4

ASSUME LoopAssumption ==
  /\ NoResult \notin Results
  /\ MaxBatch \in Nat \ {0}

VARIABLES
  pc,        \* "check", "llm", "tools", "exec" or "ended"
  outcome,   \* what run_loop returned: "none", "reply", "cancelled", "error"
  cancel,    \* the cancellation flag
  errors,    \* consecutive_errors
  offered,   \* ~in_tool_loop: the next call carries the tool schemas
  toolsUsed, \* tool_calls_this_turn > 0
  nudges,    \* continuation_nudges
  history,   \* LoopDetector.history
  batch,     \* the tool calls of the last answer still to be handled
  warning,   \* deferred_warnings is not empty
  messages,  \* what was pushed since the last answer, the answer included
  obeys,     \* the LLM asks for tools only when it was sent their schemas
  late       \* history: tools started after cancel was set, up to 2

vars == <<pc, outcome, cancel, errors, offered, toolsUsed, nudges, history,
          batch, warning, messages, obeys, late>>

Batches == UNION {[1..n -> Calls] : n \in 1..MaxBatch}

Assistant(b) == [kind |-> "assistant", calls |-> b]
ToolResult(c) == [kind |-> "tool", calls |-> <<c>>]
Plain(kind) == [kind |-> kind, calls |-> <<>>]

Init ==
  /\ pc = "check" /\ outcome = "none"
  /\ cancel = FALSE
  /\ errors = 0
  /\ offered = TRUE /\ toolsUsed = FALSE
  /\ nudges = 0
  /\ history = <<>>
  /\ batch = <<>> /\ warning = FALSE
  /\ messages = <<>>
  /\ obeys \in BOOLEAN
  /\ late = 0

\* The user, or a newer message on the chat.
Cancel ==
  /\ pc # "ended" /\ ~cancel
  /\ cancel' = TRUE
  /\ UNCHANGED <<pc, outcome, errors, offered, toolsUsed, nudges, history,
                 batch, warning, messages, late, obeys>>

End(o) == pc' = "ended" /\ outcome' = o

\* The top of the loop.
CheckCancel ==
  /\ pc = "check"
  /\ IF cancel THEN End("cancelled") ELSE pc' = "llm" /\ outcome' = outcome
  /\ UNCHANGED <<cancel, errors, offered, toolsUsed, nudges, history, batch,
                 warning, messages, late, obeys>>

\* The LLM cannot be reached: try again, three times in a row at most.
LlmRetryable ==
  /\ pc = "llm"
  /\ errors' = errors + 1
  /\ IF errors' >= MAX_CONSECUTIVE_ERRORS
     THEN End("error") ELSE pc' = "check" /\ outcome' = outcome
  /\ UNCHANGED <<cancel, offered, toolsUsed, nudges, history, batch, warning,
                 messages, late, obeys>>

\* A refused key, a bad request: no retry helps.
LlmFatal ==
  /\ pc = "llm"
  /\ End("error")
  /\ UNCHANGED <<cancel, errors, offered, toolsUsed, nudges, history, batch,
                 warning, messages, late, obeys>>

\* A text, which ends the turn.
LlmText ==
  /\ pc = "llm"
  /\ errors' = 0
  /\ messages' = <<Plain("text")>>
  /\ End("reply")
  /\ UNCHANGED <<cancel, offered, toolsUsed, nudges, history, batch, warning,
                 late, obeys>>

\* Mutant of LlmNudge: the nudges are not counted.
LlmNudgeForever ==
  /\ pc = "llm"
  /\ toolsUsed
  /\ errors' = 0
  /\ nudges' = nudges
  /\ messages' = <<Plain("text"), Plain("system")>>
  /\ offered' = TRUE
  /\ pc' = "check"
  /\ UNCHANGED <<outcome, cancel, toolsUsed, history, batch, warning, late,
                 obeys>>

\* A text that looks_like_incomplete_narrative, after tools were used: a
\* reminder, and the schemas are sent again.
LlmNudge ==
  /\ pc = "llm"
  /\ toolsUsed /\ nudges < MAX_CONTINUATION_NUDGES
  /\ errors' = 0
  /\ nudges' = nudges + 1
  /\ messages' = <<Plain("text"), Plain("system")>>
  /\ offered' = TRUE
  /\ pc' = "check"
  /\ UNCHANGED <<outcome, cancel, toolsUsed, history, batch, warning, late,
                 obeys>>

\* Tool calls, with or without a text.
LlmToolCalls ==
  /\ pc = "llm"
  /\ obeys => offered
  /\ errors' = 0
  /\ toolsUsed' = TRUE
  /\ batch' \in Batches
  /\ messages' = <<Assistant(batch')>>
  /\ warning' = FALSE
  /\ pc' = "tools"
  /\ UNCHANGED <<outcome, cancel, offered, nudges, history, late, obeys>>

Answer(c) == messages' = Append(messages, ToolResult(c))

\* The breaker blocks the call: an error result, and nothing is recorded.
ToolBlocked ==
  /\ pc = "tools" /\ batch # <<>>
  /\ Blocked(history, Head(batch))
  /\ Answer(Head(batch))
  /\ batch' = Tail(batch)
  /\ UNCHANGED <<pc, outcome, cancel, errors, offered, toolsUsed, nudges,
                 history, warning, late, obeys>>

\* Mutant of ToolSkipped: a skipped call gets no result.
ToolDropped ==
  /\ pc = "tools" /\ batch # <<>>
  /\ ~Blocked(history, Head(batch))
  /\ cancel
  /\ warning' = (warning \/ Warned(history, Head(batch)))
  /\ batch' = Tail(batch)
  /\ UNCHANGED <<pc, outcome, cancel, errors, offered, toolsUsed, nudges,
                 history, messages, late, obeys>>

\* Cancelled: the call is skipped, with a result that says so.
ToolSkipped ==
  /\ pc = "tools" /\ batch # <<>>
  /\ ~Blocked(history, Head(batch))
  /\ cancel
  /\ warning' = (warning \/ Warned(history, Head(batch)))
  /\ Answer(Head(batch))
  /\ batch' = Tail(batch)
  /\ UNCHANGED <<pc, outcome, cancel, errors, offered, toolsUsed, nudges,
                 history, late, obeys>>

\* Mutant of ToolStarts: the flag is looked at between LLM calls only.
ToolStartsAnyway ==
  /\ pc = "tools" /\ batch # <<>>
  /\ ~Blocked(history, Head(batch))
  /\ warning' = (warning \/ Warned(history, Head(batch)))
  /\ history' = RecordCall(history, Head(batch))
  /\ pc' = "exec"
  /\ UNCHANGED <<outcome, cancel, errors, offered, toolsUsed, nudges, batch,
                 messages, late, obeys>>

\* The checks are passed; from here the tool runs.
ToolStarts ==
  /\ pc = "tools" /\ batch # <<>>
  /\ ~Blocked(history, Head(batch))
  /\ ~cancel
  /\ warning' = (warning \/ Warned(history, Head(batch)))
  /\ history' = RecordCall(history, Head(batch))
  /\ pc' = "exec"
  /\ UNCHANGED <<outcome, cancel, errors, offered, toolsUsed, nudges, batch,
                 messages, late, obeys>>

\* The tool returns.  It may return what it likes, also when cancel came in
\* the meantime.
ToolReturns ==
  /\ pc = "exec"
  /\ \E r \in Results : history' = RecordOutcome(history, Head(batch), r)
  /\ Answer(Head(batch))
  /\ batch' = Tail(batch)
  /\ late' = IF cancel /\ late < 2 THEN late + 1 ELSE late
  /\ pc' = "tools"
  /\ UNCHANGED <<outcome, cancel, errors, offered, toolsUsed, nudges, warning,
                 obeys>>

\* All calls are answered: the warnings follow in one system message.
BatchDone ==
  /\ pc = "tools" /\ batch = <<>>
  /\ messages' = IF warning THEN Append(messages, Plain("system")) ELSE messages
  /\ offered' = FALSE
  /\ pc' = "check"
  /\ UNCHANGED <<outcome, cancel, errors, toolsUsed, nudges, history, batch,
                 warning, late, obeys>>

Llm == LlmRetryable \/ LlmFatal \/ LlmText \/ LlmNudge \/ LlmToolCalls
Tools == ToolBlocked \/ ToolSkipped \/ ToolStarts \/ ToolReturns \/ BatchDone

Next == Cancel \/ CheckCancel \/ Llm \/ Tools

Spec == Init /\ [][Next]_vars

\* The LLM answers or its call times out, and tools return.
FairSpec == Spec /\ WF_vars(CheckCancel \/ Llm \/ Tools)

-----------------------------------------------------------------------------
(* Properties.                                                             *)

Entry == [call : Calls, res : Results \cup {NoResult}]

\* The types of the variables.  The window keeps its size, and an entry
\* waits for its result only while the tool runs.
TypeOK ==
  /\ pc \in {"check", "llm", "tools", "exec", "ended"}
  /\ outcome \in {"none", "reply", "cancelled", "error"}
  /\ outcome = "none" <=> pc # "ended"
  /\ cancel \in BOOLEAN /\ offered \in BOOLEAN /\ toolsUsed \in BOOLEAN
  /\ warning \in BOOLEAN /\ obeys \in BOOLEAN
  /\ errors \in 0..MAX_CONSECUTIVE_ERRORS
  /\ nudges \in 0..MAX_CONTINUATION_NUDGES
  /\ history \in Seq(Entry) /\ Len(history) <= HistorySize
  /\ \A i \in 1..Len(history) :
       history[i].res = NoResult <=> pc = "exec" /\ i = Len(history)
  /\ batch \in Seq(Calls) /\ Len(batch) <= MaxBatch
  /\ late \in 0..2

\* Comment in execute_tool_calls: each call of an answer has exactly one
\* result, in order, right behind it.  Whether a call ran, was blocked or
\* was skipped, the LLM is never sent a broken pair, nor are the messages of
\* a finished turn one.
ResultsFollowCalls ==
  pc \in {"check", "llm", "ended"} =>
    \A i \in 1..Len(messages) : messages[i].kind = "assistant" =>
      LET n == Len(messages[i].calls) IN
      /\ Len(messages) >= i + n
      /\ \A k \in 1..n : messages[i + k] = ToolResult(messages[i].calls[k])
      /\ \A j \in (i + n + 1)..Len(messages) : messages[j].kind # "tool"

\* A call that is repeated without a break runs CRITICAL_THRESHOLD times at
\* most, however the LLM spreads it over its answers.
StreakBounded ==
  \A i \in 1..(Len(history) - CriticalAt) :
    \E j \in 1..CriticalAt : history[i + j].call # history[i].call

\* Cancelling a turn lets the tool that runs come to its end and starts no
\* other one.
CancelStopsTools == late <= 1

\* A cancelled turn ends, whatever the LLM asks for.
CancelEnds == cancel ~> pc = "ended"

\* With an LLM that asks for tools only when it is offered them, every turn
\* ends: schemas are withheld after a batch, and the nudges are counted.
TurnEnds == obeys => <>(pc = "ended")

\* Doc, on run_loop: "Circuit breaker stops stuck loops".
BreakerStopsLoop == <>(pc = "ended")

\* Doc, on LoopDetector: it detects "same tool + args called too many times".
\* No call runs more than CRITICAL_THRESHOLD times within the window.
RepeatsBlocked == \A c \in Calls : Repeats(history, c) <= CriticalAt
=============================================================================
