---------------------------- MODULE LoopDetector ----------------------------
(***************************************************************************)
(* The circuit breaker for stuck tool loops, agent/src/core/tool_loop.rs:  *)
(* pure operators on the window of the last tool calls.  An entry is       *)
(* [call, res]: `call` stands for the hash of tool name and arguments,     *)
(* `res` for the hash of the result, NoResult before there is one.         *)
(***************************************************************************)
EXTENDS Integers, Sequences, FiniteSets

CONSTANTS
  HistorySize,  \* HISTORY_SIZE, 30 in the code
  WarnAt,       \* WARNING_THRESHOLD, 10
  CriticalAt,   \* CRITICAL_THRESHOLD, 20
  GlobalAt,     \* GLOBAL_CIRCUIT_BREAKER, 30
  NoResult

ASSUME ThresholdAssumption ==
  /\ {HistorySize, WarnAt, CriticalAt, GlobalAt} \subseteq Nat \ {0}
  /\ WarnAt <= CriticalAt /\ CriticalAt <= GlobalAt
  /\ CriticalAt < HistorySize

\* The window after one more entry: the oldest goes.
Push(h, e) == IF Len(h) < HistorySize THEN Append(h, e) ELSE Append(Tail(h), e)

RecordCall(h, c) == Push(h, [call |-> c, res |-> NoResult])

\* The latest call c without a result gets this one.
RecordOutcome(h, c, r) ==
  LET waiting == {i \in 1..Len(h) : h[i].call = c /\ h[i].res = NoResult}
  IN IF waiting = {} THEN Push(h, [call |-> c, res |-> r])
     ELSE LET i == CHOOSE i \in waiting : \A j \in waiting : j <= i
          IN [h EXCEPT ![i].res = r]

\* Length of the longest end of h all of whose positions are among `hits`.
LongestEnd(h, hits) ==
  CHOOSE n \in 0..Len(h) :
    /\ (Len(h) - n + 1)..Len(h) \subseteq hits
    /\ n < Len(h) => Len(h) - n \notin hits

\* get_no_progress_streak: how often c came last with one and the same result.
NoProgress(h, c) ==
  LongestEnd(h, {i \in 1..Len(h) : /\ h[i].call = c
                                   /\ h[i].res # NoResult /\ h[i].res = h[Len(h)].res})

\* get_ping_pong_streak: the calls that alternate at the end of the window,
\* the coming one counted, and whether none of them brought anything new.
PingPong(h, c) ==
  LET last == h[Len(h)].call
      others == {i \in 1..Len(h) : h[i].call # last}
      paired == h[CHOOSE i \in others : \A j \in others : j <= i].call
      streak == LongestEnd(h, {i \in 1..Len(h) :
                  h[i].call = IF (Len(h) - i) % 2 = 0 THEN last ELSE paired})
      window == (Len(h) - streak + 1)..Len(h)
      stuck == \A i, j \in window : /\ h[i].res # NoResult
                                    /\ h[i].call = h[j].call => h[i].res = h[j].res
  IN IF h = <<>> \/ others = {} THEN [count |-> 0, stuck |-> FALSE]
     ELSE IF c # paired \/ streak < 2 THEN [count |-> 0, stuck |-> FALSE]
     ELSE [count |-> streak + 1, stuck |-> stuck]

Repeats(h, c) == Cardinality({i \in 1..Len(h) : h[i].call = c})

\* Mutant of Blocked: ping-pong is looked at and the repeats are not.
BlockedPingPong(h, c) ==
  NoProgress(h, c) >= GlobalAt
  \/ LET pp == PingPong(h, c) IN pp.count >= CriticalAt /\ pp.stuck

\* check() says Critical.  A ping-pong warning comes before the test of the
\* repeats, and hides it.
Blocked(h, c) ==
  LET pp == PingPong(h, c) IN
  \/ NoProgress(h, c) >= GlobalAt
  \/ pp.count >= CriticalAt /\ pp.stuck
  \/ pp.count < WarnAt /\ Repeats(h, c) >= CriticalAt

\* check() says Warning.
Warned(h, c) ==
  /\ ~Blocked(h, c)
  /\ PingPong(h, c).count >= WarnAt \/ Repeats(h, c) >= WarnAt
=============================================================================
