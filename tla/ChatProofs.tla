----------------------------- MODULE ChatProofs -----------------------------
(***************************************************************************)
(* Theorems about a chat: the files that keep it (SessionFiles.tla), for   *)
(* any window that is kept, any threshold and any settings, and the loop   *)
(* of one of its turns (AgentLoop.tla), for any tools, results and         *)
(* thresholds.                                                             *)
(***************************************************************************)
EXTENDS SessionFiles, AgentLoop, FiniteSetTheorems, NaturalsInduction, WellFoundedInduction, TLAPS

USE SessionFilesAssumption

Saved == [kind : {"user", "reply", "call", "result", "summary"}, n : Nat, big : BOOLEAN]

\* The types that the invariants below rest on.
Typed ==
  /\ file \in Seq(Saved) /\ cache \in Seq(Saved) /\ todo \in Seq(Saved)
  /\ serial \in Nat
  /\ at = "append" => todo # <<>>

-----------------------------------------------------------------------------
(* Histories.                                                              *)

\* A summary stands first, where the compaction has put it.
SummaryFirst(h) ==
  \A i \in DOMAIN h : IF i > 1 THEN IsMessage(h[i]) ELSE IsMessage(h[i]) \/ h[i] = Summary

\* Induction over a set of naturals.
LEMMA NatSetInduction ==
  ASSUME NEW S, 0 \in S, \A n \in Nat : n \in S => n + 1 \in S
  PROVE  Nat \subseteq S
<1> SUFFICES ASSUME Nat \ S # {} PROVE FALSE
  OBVIOUS
<1> DEFINE R == OpToRel(<, Nat)
           T == Nat \ S
<1>1. IsWellFoundedOn(R, Nat)
  BY NatLessThanWellFounded
<1>2. \A x, y \in Nat : x < y => <<x, y>> \in R
  BY DEF OpToRel
<1> HIDE DEF R
<1>3. T \subseteq Nat /\ T # {}
  OBVIOUS
<1>4. PICK m \in T : \A n \in T : <<n, m>> \notin R
  BY <1>1, <1>3, WFMin
<1>5. m \in Nat /\ m # 0 /\ m - 1 \in Nat /\ m - 1 < m /\ (m - 1) + 1 = m
  OBVIOUS
<1>6. m - 1 \in S
  BY <1>2, <1>4, <1>5
<1> QED BY <1>4, <1>5, <1>6

\* What the prompt takes of a history: all but a summary at its head.
LEMMA MessagesOf ==
  ASSUME NEW h \in Seq(Saved), SummaryFirst(h),
         NEW o \in {0, 1},
         o = 1 => Len(h) # 0 /\ ~IsMessage(h[1]),
         o = 0 => Len(h) = 0 \/ IsMessage(h[1])
  PROVE  Messages(h) = [j \in 1..(Len(h) - o) |-> h[j + o]]
<1> DEFINE N == Len(h)
           Part(i) == [j \in 1..(i - o) |-> h[j + o]]
           Up(w, i) == IF i = 0 THEN <<>>
                       ELSE IF IsMessage(h[i]) THEN Append(w[i - 1], h[i]) ELSE w[i - 1]
           IsScan(w) == w = [i \in 0..Len(h) |-> Up(w, i)]
           parts == [i \in 0..Len(h) |-> Part(i)]
<1>1. N \in Nat /\ N = Len(h) /\ \A i \in 1..N : h[i] \in Saved
  OBVIOUS
<1> HIDE DEF N
<1>2. Part(0) = <<>>
  <2>1. 1..(0 - o) = {}
    OBVIOUS
  <2>2. Part(0) = [j \in {} |-> h[j + o]]
    BY <2>1
  <2> QED BY <2>2
<1>3. ASSUME NEW i \in 1..N PROVE Part(i) = IF IsMessage(h[i]) THEN Append(Part(i - 1), h[i]) ELSE Part(i - 1)
  <2>1. CASE o = 0
    <3>1. IsMessage(h[i])
      BY <1>1, <2>1 DEF SummaryFirst
    <3>2. Part(i - 1) \in Seq(Saved) /\ Len(Part(i - 1)) = i - 1
      <4>1. \A j \in 1..(i - 1) : h[j] \in Saved
        BY <1>1
      <4> QED BY <1>1, <2>1, <4>1
    <3>3. Part(i) = Append(Part(i - 1), h[i])
      BY <1>1, <2>1, <3>2
    <3> QED BY <3>1, <3>3
  <2>2. CASE o = 1 /\ i = 1
    <3>1. ~IsMessage(h[1]) /\ 1..(1 - o) = {} /\ 1..(0 - o) = {}
      BY <2>2
    <3>2. Part(1) = [j \in {} |-> h[j + o]] /\ Part(0) = [j \in {} |-> h[j + o]]
      BY <3>1
    <3> QED BY <2>2, <3>1, <3>2
  <2>3. CASE o = 1 /\ i # 1
    <3>1. IsMessage(h[i])
      BY <1>1, <2>3 DEF SummaryFirst
    <3>2. Part(i - 1) \in Seq(Saved) /\ Len(Part(i - 1)) = i - 2
      <4>1. \A j \in 1..(i - 2) : h[j + 1] \in Saved
        BY <1>1
      <4>2. (i - 1) - o = i - 2 /\ i - 2 \in Nat
        BY <1>1, <2>3
      <4>3. Part(i - 1) = [j \in 1..(i - 2) |-> h[j + 1]]
        BY <2>3, <4>2
      <4> QED BY <4>1, <4>2, <4>3
    <3>3. Part(i) = Append(Part(i - 1), h[i])
      <4>1. i - o = i - 1 /\ (i - 1) - o = i - 2 /\ i - 1 \in Nat /\ (i - 1) + 1 = i
        BY <1>1, <2>3
      <4>2. Part(i) = [j \in 1..(i - 1) |-> h[j + 1]]
        BY <2>3, <4>1
      <4>3. Part(i - 1) = [j \in 1..(i - 2) |-> h[j + 1]]
        BY <2>3, <4>1
      <4> HIDE DEF Part
      <4> QED BY <1>1, <2>3, <3>2, <4>1, <4>2, <4>3
    <3> QED BY <3>1, <3>3
  <2> QED BY <2>1, <2>2, <2>3
<1> HIDE DEF Part
<1>4. IsScan(parts)
  <2>1. \A i \in 0..N : Up(parts, i) = Part(i)
    <3> SUFFICES ASSUME NEW i \in 0..N PROVE Up(parts, i) = Part(i)
      OBVIOUS
    <3>1. CASE i = 0
      BY <1>2, <3>1
    <3>2. CASE i # 0
      <4>1. i \in 1..N /\ i - 1 \in 0..Len(h)
        BY <1>1, <3>2
      <4>2. parts[i - 1] = Part(i - 1)
        BY <4>1
      <4> QED BY <1>3, <3>2, <4>1, <4>2
    <3> QED BY <3>1, <3>2
  <2> QED BY <1>1, <2>1
<1>5. ASSUME NEW w, IsScan(w) PROVE w[N] = Part(N)
  <2> DEFINE S == {n \in Nat : n <= N => w[n] = Part(n)}
  <2>1. \A i \in 0..N : w[i] = Up(w, i)
    BY <1>1, <1>5
  <2> HIDE DEF IsScan
  <2>2. 0 \in S
    <3>1. w[0] = Up(w, 0)
      BY <1>1, <2>1
    <3> QED BY <1>2, <3>1
  <2>3. ASSUME NEW n \in Nat, n \in S PROVE n + 1 \in S
    <3> SUFFICES ASSUME n + 1 <= N PROVE w[n + 1] = Part(n + 1)
      OBVIOUS
    <3>1. n + 1 \in 1..N /\ n + 1 \in 0..N /\ (n + 1) - 1 = n /\ n <= N /\ n + 1 # 0
      BY <1>1
    <3>2. w[n] = Part(n)
      BY <2>3, <3>1
    <3>3. w[n + 1] = Up(w, n + 1)
      BY <2>1, <3>1
    <3> HIDE DEF S
    <3> QED BY <1>3, <3>1, <3>2, <3>3
  <2> HIDE DEF S
  <2>4. N \in S
    BY <1>1, <2>2, <2>3, NatSetInduction
  <2> QED BY <1>1, <2>4 DEF S
<1>6. \E w : IsScan(w)
  BY <1>4
<1> HIDE DEF parts, IsScan
<1>7. IsScan(CHOOSE w : IsScan(w))
  BY <1>6
<1>8. Messages(h) = (CHOOSE w : IsScan(w))[N]
  BY DEF Messages, IsScan, Up, N
<1> QED BY <1>1, <1>5, <1>7, <1>8 DEF Part

\* There are no more messages than entries, and those that are not kept are
\* summarised.
LEMMA MessagesCount ==
  ASSUME NEW h \in Seq(Saved), SummaryFirst(h)
  PROVE  /\ Messages(h) \in Seq(Saved)
         /\ Len(Messages(h)) <= Len(h)
         /\ \A i \in 1..(Len(h) - KeepRecent) : IsMessage(h[i]) => h[i].n \in ToSummarize(h)
<1> DEFINE o == IF Len(h) = 0 THEN 0 ELSE IF IsMessage(h[1]) THEN 0 ELSE 1
           N == Len(h)
<1>1. /\ N \in Nat /\ \A i \in 1..N : h[i] \in Saved
      /\ o \in {0, 1} /\ o <= N
  OBVIOUS
<1>2. Messages(h) = [j \in 1..(N - o) |-> h[j + o]]
  <2>1. /\ o = 1 => Len(h) # 0 /\ ~IsMessage(h[1])
        /\ o = 0 => Len(h) = 0 \/ IsMessage(h[1])
    OBVIOUS
  <2> HIDE DEF o
  <2> QED BY <1>1, <2>1, MessagesOf
<1>3. N # 0 => (o = 1 <=> ~IsMessage(h[1]))
  OBVIOUS
<1> HIDE DEF o, N
<1>4. N - o \in Nat /\ N - o <= N /\ \A j \in 1..(N - o) : j + o \in 1..N
  BY <1>1
<1>5. Messages(h) \in Seq(Saved) /\ Len(Messages(h)) = N - o
  <2>1. \A j \in 1..(N - o) : h[j + o] \in Saved
    BY <1>1, <1>4
  <2> QED BY <1>2, <1>4, <2>1
<1>6. ASSUME NEW i \in 1..(N - KeepRecent), IsMessage(h[i]) PROVE h[i].n \in ToSummarize(h)
  <2> DEFINE k == i - o
  <2>1. i \in 1..N /\ i - o >= 1
    BY <1>1, <1>3, <1>6
  <2>2. k \in 1..(N - o) /\ k + o = i /\ k \in 1..((N - o) - KeepRecent)
    BY <1>1, <1>6, <2>1
  <2>3. Messages(h)[k] = h[i]
    BY <1>2, <2>2
  <2> HIDE DEF k
  <2> QED BY <1>5, <2>2, <2>3 DEF ToSummarize
<1> QED BY <1>4, <1>5, <1>6 DEF N

Small(h) == Len(h) <= KeepRecent + 1 /\ \A i \in DOMAIN h : h[i].big => h[i].kind = "call"

\* What a compaction leaves of a history.
LEMMA CompactedHistory ==
  ASSUME NEW h \in Seq(Saved), SummaryFirst(h)
  PROVE  /\ Compacted(h) \in Seq(Saved) /\ SummaryFirst(Compacted(h))
         /\ Len(h) > KeepRecent => Small(Compacted(h))
         /\ \A i \in DOMAIN h : i > Len(h) - KeepRecent =>
              \E j \in DOMAIN Compacted(h) : Compacted(h)[j].n = h[i].n
<1>1. CASE Len(h) <= KeepRecent
  <2>1. Compacted(h) = h /\ ~(Len(h) > KeepRecent)
    BY <1>1 DEF Compacted
  <2> QED BY <2>1
<1>2. CASE Len(h) > KeepRecent
  <2> DEFINE N == Len(h)
             kept == [i \in 1..KeepRecent |-> Redacted(h[N - KeepRecent + i])]
  <2>1. N \in Nat /\ DOMAIN h = 1..N /\ \A i \in 1..N : h[i] \in Saved
    OBVIOUS
  <2>2. \A e \in Saved : /\ Redacted(e) \in Saved /\ Redacted(e).kind = e.kind
                         /\ Redacted(e).n = e.n
                         /\ Redacted(e).big => Redacted(e).kind = "call"
    BY DEF Redacted, Saved
  <2>3. \A i \in 1..KeepRecent : N - KeepRecent + i \in 1..N /\ N - KeepRecent + i > 1
    BY <1>2, <2>1
  <2>4. Summary \in Saved /\ ~Summary.big
    BY DEF Summary, Message, Saved
  <2>5. Compacted(h) = <<Summary>> \o kept
    <3>1. ~(Len(h) <= KeepRecent)
      BY <1>2, <2>1
    <3> QED BY <3>1 DEF Compacted
  <2> HIDE DEF N
  <2>6. kept \in Seq(Saved) /\ Len(kept) = KeepRecent
    BY <2>1, <2>2, <2>3
  <2>7. \A i \in 1..KeepRecent : /\ kept[i].kind = h[N - KeepRecent + i].kind
                                 /\ kept[i].n = h[N - KeepRecent + i].n
                                 /\ kept[i].big => kept[i].kind = "call"
    BY <2>1, <2>2, <2>3
  <2>8. \A i \in 1..KeepRecent : IsMessage(kept[i])
    <3>1. \A i \in 1..N : i > 1 => IsMessage(h[i])
      BY <2>1 DEF SummaryFirst
    <3> QED BY <2>3, <2>7, <3>1 DEF IsMessage
  <2> HIDE DEF kept
  <2>9. /\ Compacted(h) \in Seq(Saved)
        /\ Len(Compacted(h)) = KeepRecent + 1
        /\ Compacted(h)[1] = Summary
        /\ \A i \in 1..KeepRecent : Compacted(h)[i + 1] = kept[i]
    BY <2>4, <2>5, <2>6
  <2>10. \A j \in 1..(KeepRecent + 1) : j = 1 \/ (j - 1 \in 1..KeepRecent /\ (j - 1) + 1 = j)
    OBVIOUS
  <2>11. \A j \in 1..(KeepRecent + 1) : j = 1 \/ (j - 1 \in 1..KeepRecent /\ Compacted(h)[j] = kept[j - 1])
    BY <2>9, <2>10
  <2>12. SummaryFirst(Compacted(h))
    BY <2>8, <2>9, <2>11 DEF SummaryFirst
  <2>13. Small(Compacted(h))
    <3>1. ASSUME NEW j \in DOMAIN Compacted(h), Compacted(h)[j].big PROVE Compacted(h)[j].kind = "call"
      <4>1. j \in 1..(KeepRecent + 1)
        BY <2>9
      <4>2. j # 1
        BY <2>4, <2>9, <3>1
      <4>3. j - 1 \in 1..KeepRecent /\ Compacted(h)[j] = kept[j - 1]
        BY <2>11, <4>1, <4>2
      <4> QED BY <2>7, <3>1, <4>3
    <3> QED BY <2>9, <3>1 DEF Small
  <2>14. ASSUME NEW i \in DOMAIN h, i > Len(h) - KeepRecent
         PROVE  \E j \in DOMAIN Compacted(h) : Compacted(h)[j].n = h[i].n
    <3> DEFINE k == i - (N - KeepRecent)
    <3>1. k \in 1..KeepRecent /\ (N - KeepRecent) + k = i
      BY <2>1, <2>14 DEF N
    <3> HIDE DEF k
    <3>2. k + 1 \in DOMAIN Compacted(h) /\ Compacted(h)[k + 1] = kept[k]
      BY <2>9, <3>1
    <3>3. kept[k].n = h[i].n
      BY <2>7, <3>1
    <3> QED BY <3>2, <3>3
  <2> QED BY <2>9, <2>12, <2>13, <2>14
<1>3. Len(h) \in Nat
  OBVIOUS
<1> QED BY <1>1, <1>2, <1>3

LEMMA LongHistory ==
  ASSUME NEW h \in Seq(Saved), SummaryFirst(h), NEW heavy, ShouldCompact(h, heavy)
  PROVE  Len(h) > KeepRecent
<1>1. Len(Messages(h)) > KeepRecent /\ Len(Messages(h)) <= Len(h) /\ Messages(h) \in Seq(Saved)
  BY MessagesCount DEF ShouldCompact
<1>2. \A s \in Seq(Saved) : Len(s) \in Nat
  OBVIOUS
<1> HIDE DEF SummaryFirst
<1> QED BY <1>1, <1>2

-----------------------------------------------------------------------------
(* Types.                                                                  *)

\* What a turn saves is no summary.
LEMMA KindsOfTurns ==
  ASSUME NEW kinds \in Turnings
  PROVE  /\ kinds \in Seq({"user", "reply", "call", "result"}) /\ Len(kinds) \in Nat \ {0}
         /\ \A i \in DOMAIN kinds : kinds[i] # "summary"
<1>1. CASE kinds = <<"user">>
  BY <1>1
<1>2. CASE kinds = <<"user", "reply">>
  BY <1>2
<1>3. CASE kinds = <<"user", "call", "result">>
  BY <1>3
<1>4. CASE kinds = <<"user", "call", "result", "reply">>
  BY <1>4
<1> QED BY <1>1, <1>2, <1>3, <1>4 DEF Turnings

LEMMA TypedStep == Typed /\ [FilesNext]_filesVars /\ SummaryFirst(History) => Typed'
<1> SUFFICES ASSUME Typed, [FilesNext]_filesVars, SummaryFirst(History) PROVE Typed'
  OBVIOUS
<1>1. CASE UNCHANGED <<file, cache, todo, serial>> /\ at' # "append"
  BY <1>1 DEF Typed
<1>2. CASE UNCHANGED <<file, cache, todo, serial, at>>
  BY <1>2 DEF Typed
<1>3. CASE Summarize
  <2>1. History \in Seq(Saved)
    BY DEF Typed, History
  <2>2. Compacted(History) \in Seq(Saved)
    BY <2>1, CompactedHistory
  <2> QED BY <1>3, <2>2 DEF Summarize, Typed, Goto
<1>4. CASE Truncate \/ Rewrite
  <2>1. <<>> \in Seq(Saved)
    OBVIOUS
  <2>2. /\ at' # "append" /\ UNCHANGED <<cache, todo, serial>>
        /\ file' \in {file, <<>>, todo} \/ CutShort
    BY <1>4 DEF Truncate, Rewrite, Goto, ghosts
  <2>3. CutShort => file' \in Seq(Saved)
    BY DEF CutShort, Typed
  <2> QED BY <2>1, <2>2, <2>3 DEF Typed
<1>5. CASE BuildPrompt
  <2>1. PICK kinds \in Turnings,
             big \in (IF "big" \in FileEvents THEN {"none", "call", "result"} ELSE {"none"}) :
          todo' = [i \in DOMAIN kinds |-> Message(kinds[i], serial + i, kinds[i] = big)]
    BY <1>5 DEF BuildPrompt
  <2>2. kinds \in Seq({"user", "reply", "call", "result"}) /\ Len(kinds) \in Nat \ {0}
    BY KindsOfTurns
  <2> DEFINE m == Len(kinds)
  <2>3. DOMAIN kinds = 1..m /\ m \in Nat \ {0}
    BY <2>2
  <2> HIDE DEF m
  <2>4. \A i \in 1..m : Message(kinds[i], serial + i, kinds[i] = big) \in Saved
    BY <2>2, <2>3 DEF Typed, Message, Saved
  <2>5. todo' = [i \in 1..m |-> Message(kinds[i], serial + i, kinds[i] = big)]
    BY <2>1, <2>3
  <2>6. todo' \in Seq(Saved) /\ Len(todo') = m
    BY <2>3, <2>4, <2>5
  <2>7. todo' # <<>>
    BY <2>3, <2>6
  <2>8. UNCHANGED <<file, cache, serial>>
    BY <1>5 DEF BuildPrompt, ghosts
  <2> QED BY <2>6, <2>7, <2>8 DEF Typed
<1>6. CASE AppendMessage
  <2>1. todo \in Seq(Saved) /\ todo # <<>> /\ Head(todo) \in Saved
    BY <1>6 DEF AppendMessage, Typed
  <2>2. Tail(todo) \in Seq(Saved) /\ (Len(todo) > 1 => Tail(todo) # <<>>)
    <3>1. \A s \in Seq(Saved) : s # <<>> => /\ Tail(s) \in Seq(Saved) /\ Len(s) \in Nat
                                             /\ Len(Tail(s)) = Len(s) - 1
      OBVIOUS
    <3>2. \A s \in Seq(Saved) : s = <<>> => Len(s) = 0
      OBVIOUS
    <3>3. /\ Tail(todo) \in Seq(Saved) /\ Len(todo) \in Nat
          /\ Len(Tail(todo)) = Len(todo) - 1
      BY <2>1, <3>1
    <3>4. Len(todo) > 1 => Len(Tail(todo)) # 0
      BY <3>3
    <3> QED BY <3>2, <3>3, <3>4
  <2>3. Append(file, Head(todo)) \in Seq(Saved) /\ Append(cache, Head(todo)) \in Seq(Saved)
    BY <2>1 DEF Typed
  <2>4. file' \in Seq(Saved) /\ cache' \in Seq(Saved)
    <3>1. <<>> \in Seq(Saved)
      OBVIOUS
    <3>2. Written => file' \in Seq(Saved) /\ cache' \in Seq(Saved)
      BY <2>3, <3>1 DEF Written, Typed
    <3>3. NotWritten => file' \in Seq(Saved) /\ cache' \in Seq(Saved)
      BY DEF NotWritten, Typed
    <3> QED BY <1>6, <3>2, <3>3 DEF AppendMessage
  <2>5. todo' = Tail(todo) /\ serial' = serial + 1 /\ (at' = "append" => Len(todo) > 1)
    BY <1>6 DEF AppendMessage, Goto
  <2> QED BY <2>2, <2>4, <2>5 DEF Typed
<1>7. CASE DeleteHistory
  BY <1>7 DEF DeleteHistory, Typed, agentVars
<1>8. CASE Crash
  <2>1. file' \in Seq(Saved)
    <3>1. CASE at = "rewrite"
      BY <1>8, <3>1 DEF Crash, CutShort, Typed
    <3>2. CASE at # "rewrite"
      BY <1>8, <3>2 DEF Crash, Typed
    <3> QED BY <3>1, <3>2
  <2>2. <<>> \in Seq(Saved)
    OBVIOUS
  <2> QED BY <1>8, <2>1, <2>2 DEF Crash, Typed
<1>12. CASE StartTurn
  <2>1. /\ UNCHANGED <<file, cache, serial>> /\ at' # "append"
        /\ todo' \in {todo, History}
    BY <1>12 DEF StartTurn, Goto
  <2> QED BY <2>1 DEF Typed, History
<1>9. CASE BumpRead \/ AgentOpens \/ AgentWrites \/ TitleCheck \/ TitleAnswer
  <2>1. UNCHANGED <<file, cache, todo, serial>> /\ at' # "append"
    BY <1>9 DEF BumpRead, AgentOpens, AgentWrites, TitleCheck, TitleAnswer, Goto, ghosts
  <2> QED BY <1>1, <2>1
<1>10. CASE CreateChat \/ Rename \/ List \/ HttpOpens \/ HttpWrites \/ DeleteSidecar
  <2>1. UNCHANGED <<file, cache, todo, serial, at>>
    BY <1>10 DEF CreateChat, Rename, List, HttpOpens, HttpWrites, DeleteSidecar, agentVars, ghosts
  <2> QED BY <1>2, <2>1
<1>11. CASE UNCHANGED filesVars
  BY <1>2, <1>11 DEF filesVars, agentVars, ghosts
<1> QED BY <1>3, <1>4, <1>5, <1>6, <1>7, <1>8, <1>9, <1>10, <1>11, <1>12 DEF FilesNext, Agent, Http

LEMMA TypedInit == FilesInit => Typed
<1> SUFFICES ASSUME FilesInit PROVE Typed
  OBVIOUS
<1>1. file = <<>> /\ cache = <<>> /\ todo = <<>> /\ serial = 0 /\ at = "idle"
  BY DEF FilesInit
<1>2. <<>> \in Seq(Saved)
  OBVIOUS
<1> QED BY <1>1, <1>2 DEF Typed

-----------------------------------------------------------------------------
(* Messages.                                                               *)

Holds(h) == \A n \in 1..serial \ excused : \E i \in DOMAIN h : h[i].n = n

\* What the summariser reads is the history still, if it was not deleted; a
\* rewritten history holds what the old one did, but for what was summarised,
\* from the time it was made; a turn's messages have the next numbers.
Histories ==
  /\ SummaryFirst(file) /\ SummaryFirst(cache)
  /\ at = "summarize" => History \in {todo, <<>>}
  /\ at \in {"truncate", "rewrite"} => SummaryFirst(todo) /\ Holds(todo)
  /\ at = "append" => \A i \in DOMAIN todo : IsMessage(todo[i]) /\ todo[i].n = serial + i
  /\ at # "rewrite" \/ cloud => Holds(History)

LEMMA HistoriesInit == FilesInit => Histories
<1> SUFFICES ASSUME FilesInit PROVE Histories
  OBVIOUS
<1>1. file = <<>> /\ cache = <<>> /\ at = "idle" /\ serial = 0
  BY DEF FilesInit
<1>2. SummaryFirst(<<>>) /\ 1..0 = {}
  BY DEF SummaryFirst
<1> QED BY <1>1, <1>2 DEF Histories, Holds

\* A step that appends nothing and leaves the histories and what is excused.
LEMMA HistoriesStay ==
  ASSUME Histories, UNCHANGED <<cloud, file, cache, todo, serial, excused>>,
         at' \in {"summarize", "truncate", "rewrite", "append"} => at' = at,
         at # "rewrite" \/ cloud
  PROVE  Histories'
BY DEF Histories, History, Holds

LEMMA OnlyTheAgentMoves ==
  ASSUME Histories, UNCHANGED <<cloud, file, cache, todo, serial, excused, at>>
  PROVE  Histories'
BY DEF Histories, History, Holds

\* One more message at the end.
LEMMA Appended ==
  ASSUME NEW h \in Seq(Saved), NEW e \in Saved, SummaryFirst(h), IsMessage(e)
  PROVE  /\ Append(h, e) \in Seq(Saved) /\ SummaryFirst(Append(h, e))
         /\ \A i \in DOMAIN h : i \in DOMAIN Append(h, e) /\ Append(h, e)[i] = h[i]
         /\ \E i \in DOMAIN Append(h, e) : Append(h, e)[i] = e
<1> DEFINE N == Len(h)
           g == Append(h, e)
<1>1. /\ N \in Nat /\ DOMAIN h = 1..N /\ DOMAIN g = 1..(N + 1)
      /\ \A i \in 1..N : g[i] = h[i]
      /\ g[N + 1] = e /\ g \in Seq(Saved)
  OBVIOUS
<1> HIDE DEF N, g
<1>2. SummaryFirst(g)
  <2> SUFFICES ASSUME NEW i \in 1..(N + 1)
               PROVE  IF i > 1 THEN IsMessage(g[i]) ELSE IsMessage(g[i]) \/ g[i] = Summary
    BY <1>1 DEF SummaryFirst
  <2>1. CASE i = N + 1
    BY <1>1, <2>1
  <2>2. CASE i \in 1..N
    BY <1>1, <2>2 DEF SummaryFirst
  <2> QED BY <1>1, <2>1, <2>2
<1>3. N + 1 \in 1..(N + 1) /\ \A i \in 1..N : i \in 1..(N + 1)
  BY <1>1
<1> QED BY <1>1, <1>2, <1>3 DEF g

\* A rewrite that stops keeps the entries it has written.
LEMMA RewriteCutShort ==
  ASSUME Typed, Histories, at = "rewrite", CutShort, UNCHANGED <<cloud, cache, serial>>
  PROVE  SummaryFirst(file') /\ Holds(History)'
<1>1. PICK k \in 0..(Len(todo) - 1) :
        /\ file' = SubSeq(todo, 1, k)
        /\ excused' = IF cloud THEN excused
                      ELSE excused \cup {todo[i].n : i \in (k + 1)..Len(todo)}
  BY DEF CutShort
<1>2. SummaryFirst(todo) /\ todo \in Seq(Saved) /\ Holds(todo) /\ (cloud => Holds(cache))
  BY DEF Histories, Typed, History
<1>3. /\ Len(todo) \in Nat /\ DOMAIN todo = 1..Len(todo) /\ k \in Nat
      /\ DOMAIN file' = 1..k /\ \A i \in 1..k : file'[i] = todo[i]
  BY <1>1, <1>2
<1>4. SummaryFirst(file')
  <2>1. DOMAIN file' \subseteq DOMAIN todo
    BY <1>1, <1>3
  <2> QED BY <1>2, <1>3, <2>1 DEF SummaryFirst
<1>5. CASE cloud
  <2>1. History' = cache /\ excused' = excused /\ serial' = serial
    BY <1>1, <1>5 DEF History
  <2> QED BY <1>2, <1>4, <1>5, <2>1 DEF Holds
<1>6. CASE ~cloud
  <2>4. History' = file' /\ serial' = serial
    BY <1>6 DEF History
  <2> SUFFICES ASSUME NEW n \in 1..serial \ excused' PROVE \E i \in DOMAIN file' : file'[i].n = n
    BY <1>4, <2>4 DEF Holds
  <2>1. PICK i \in DOMAIN todo : todo[i].n = n
    BY <1>1, <1>2, <1>6 DEF Holds
  <2>2. i \notin (k + 1)..Len(todo)
    BY <1>1, <1>6, <2>1
  <2>3. i \in 1..k
    BY <1>3, <2>1, <2>2
  <2> QED BY <1>3, <2>1, <2>3
<1> QED BY <1>4, <1>5, <1>6

LEMMA HistoriesStep == Typed /\ Histories /\ [FilesNext]_filesVars => Histories'
<1> SUFFICES ASSUME Typed, Histories, [FilesNext]_filesVars PROVE Histories'
  OBVIOUS
<1>1. CASE Summarize
  <2>1. History \in Seq(Saved) /\ SummaryFirst(History)
    BY DEF Typed, Histories, History
  <2>2. UNCHANGED <<cloud, file, cache, serial>> /\ at = "summarize" /\ History' = History
    BY <1>1 DEF Summarize, History
  <2>3. CASE at' = "prompt" /\ UNCHANGED <<todo, excused>>
    BY <2>2, <2>3, HistoriesStay
  <2>4. CASE /\ at' = "truncate" /\ todo' = Compacted(History)
             /\ excused' = excused \cup ToSummarize(todo)
    <3>1. SummaryFirst(todo')
      BY <2>1, <2>4, CompactedHistory
    <3>2. ASSUME NEW n \in 1..serial \ (excused \cup ToSummarize(todo))
          PROVE  \E i \in DOMAIN todo' : todo'[i].n = n
      <4>1. PICK i \in DOMAIN History : History[i].n = n
        BY <2>2, <3>2 DEF Histories, Holds
      <4>2. i \in 1..Len(History) /\ Len(History) \in Nat
        BY <2>1
      <4>5. todo = History
        <5>1. History # <<>>
          BY <4>1
        <5> QED BY <2>2, <5>1 DEF Histories
      <4>3. CASE i > Len(History) - KeepRecent
        BY <2>1, <2>4, <4>1, <4>3, CompactedHistory
      <4>4. CASE i \in 1..(Len(History) - KeepRecent)
        <5>1. History[i] # Summary
          <6>1. n # 0 /\ Summary.n = 0
            BY <3>2 DEF Typed, Summary, Message
          <6> QED BY <4>1, <6>1
        <5>2. IsMessage(History[i])
          BY <2>1, <4>1, <5>1 DEF SummaryFirst
        <5>3. n \in ToSummarize(History)
          BY <2>1, <4>1, <4>4, <5>2, MessagesCount
        <5> QED BY <3>2, <4>5, <5>3
      <4> QED BY <4>2, <4>3, <4>4
    <3>3. Holds(todo)'
      BY <2>2, <2>4, <3>2 DEF Holds
    <3>4. Holds(History)'
      BY <2>2, <2>4 DEF Histories, Holds
    <3> QED BY <2>2, <2>4, <3>1, <3>3, <3>4 DEF Histories
  <2> QED BY <1>1, <2>3, <2>4 DEF Summarize, Goto
<1>2. CASE Truncate
  <2>1. at = "truncate" /\ UNCHANGED <<cloud, cache, todo, serial, excused>>
    BY <1>2 DEF Truncate, ghosts
  <2>2. CASE at' = "prompt" /\ file' = file
    BY <2>1, <2>2, HistoriesStay
  <2>3. CASE at' = "rewrite" /\ file' = <<>>
    <3>1. SummaryFirst(file')
      BY <2>3 DEF SummaryFirst
    <3>2. cloud => History' = History
      BY <2>1 DEF History
    <3> QED BY <2>1, <2>3, <3>1, <3>2 DEF Histories, Holds
  <2> QED BY <1>2, <2>2, <2>3 DEF Truncate, Goto
<1>3. CASE Rewrite
  <2>1. /\ at = "rewrite" /\ at' = "prompt" /\ UNCHANGED <<cloud, cache, todo, serial>>
        /\ (file' = todo /\ excused' = excused) \/ CutShort
    BY <1>3 DEF Rewrite, Goto
  <2>2. CASE file' = todo /\ excused' = excused
    <3>1. History' = IF cloud THEN History ELSE todo
      BY <2>1, <2>2 DEF History
    <3>2. Holds(History)'
      BY <2>1, <2>2, <3>1 DEF Histories, Holds
    <3> QED BY <2>1, <2>2, <3>2 DEF Histories
  <2>3. CASE CutShort
    <3>1. SummaryFirst(file') /\ Holds(History)'
      BY <2>1, <2>3, RewriteCutShort
    <3> QED BY <2>1, <3>1 DEF Histories
  <2> QED BY <2>1, <2>2, <2>3
<1>4. CASE BuildPrompt
  <2>1. PICK kinds \in Turnings,
             big \in (IF "big" \in FileEvents THEN {"none", "call", "result"} ELSE {"none"}) :
          todo' = [i \in DOMAIN kinds |-> Message(kinds[i], serial + i, kinds[i] = big)]
    BY <1>4 DEF BuildPrompt
  <2>2. \A i \in DOMAIN kinds : kinds[i] # "summary"
    BY KindsOfTurns
  <2>3. \A i \in DOMAIN todo' : IsMessage(todo'[i]) /\ todo'[i].n = serial + i
    BY <2>1, <2>2 DEF IsMessage, Message
  <2>4. at = "prompt" /\ at' = "append" /\ UNCHANGED <<cloud, file, cache, serial, excused>>
    BY <1>4 DEF BuildPrompt, Goto, ghosts
  <2>5. History' = History
    BY <2>4 DEF History
  <2> QED BY <2>3, <2>4, <2>5 DEF Histories, Holds
<1>5. CASE AppendMessage
  <2> DEFINE e == Head(todo)
  <2>1. /\ at = "append" /\ serial' = serial + 1 /\ todo' = Tail(todo)
        /\ UNCHANGED cloud /\ (Written \/ NotWritten)
        /\ at' \in {"append", "idle", "bump"}
    BY <1>5 DEF AppendMessage, Goto
  <2>2. \A s \in Seq(Saved) : s # <<>> =>
          /\ Len(s) \in Nat \ {0} /\ DOMAIN s = 1..Len(s) /\ Head(s) = s[1] /\ s[1] \in Saved
          /\ DOMAIN Tail(s) = 1..(Len(s) - 1) /\ \A i \in 1..(Len(s) - 1) : Tail(s)[i] = s[i + 1]
    OBVIOUS
  <2>3. /\ Len(todo) \in Nat \ {0} /\ DOMAIN todo = 1..Len(todo) /\ e = todo[1] /\ e \in Saved
        /\ DOMAIN Tail(todo) = 1..(Len(todo) - 1)
        /\ \A i \in 1..(Len(todo) - 1) : Tail(todo)[i] = todo[i + 1]
    BY <2>1, <2>2 DEF Typed
  <2>4. /\ \A i \in 1..Len(todo) : IsMessage(todo[i]) /\ todo[i].n = serial + i
        /\ 1 \in 1..Len(todo) /\ serial \in Nat
    <3>1. \A i \in DOMAIN todo : IsMessage(todo[i]) /\ todo[i].n = serial + i
      BY <2>1 DEF Histories
    <3>2. DOMAIN todo = 1..Len(todo) /\ 1 \in 1..Len(todo) /\ serial \in Nat
      BY <2>3 DEF Typed
    <3> QED BY <3>1, <3>2
  <2>5. IsMessage(e) /\ e.n = serial + 1
    BY <2>3, <2>4
  <2> HIDE DEF e
  <2>6. \A i \in DOMAIN Tail(todo) : IsMessage(Tail(todo)[i]) /\ Tail(todo)[i].n = (serial + 1) + i
    <3> SUFFICES ASSUME NEW i \in 1..(Len(todo) - 1)
                 PROVE  IsMessage(Tail(todo)[i]) /\ Tail(todo)[i].n = (serial + 1) + i
      BY <2>3
    <3>1. i + 1 \in 1..Len(todo) /\ i \in Nat
      BY <2>3
    <3>2. IsMessage(todo[i + 1]) /\ todo[i + 1].n = serial + (i + 1)
      BY <2>4, <3>1
    <3>3. serial + (i + 1) = (serial + 1) + i
      BY <2>4, <3>1
    <3> QED BY <2>3, <3>2, <3>3
  <2>7. History \in Seq(Saved) /\ SummaryFirst(History) /\ SummaryFirst(file) /\ SummaryFirst(cache)
        /\ file \in Seq(Saved) /\ cache \in Seq(Saved) /\ Holds(History)
    BY <2>1 DEF Typed, Histories, History
  <2>8. SummaryFirst(<<>>) /\ SummaryFirst(Append(file, e)) /\ SummaryFirst(Append(cache, e))
    <3>1. SummaryFirst(<<>>)
      BY DEF SummaryFirst
    <3>2. \A h \in Seq(Saved) : SummaryFirst(h) => SummaryFirst(Append(h, e))
      BY <2>3, <2>5, Appended DEF SummaryFirst
    <3> QED BY <2>7, <3>1, <3>2, Zenon
  <2>9. CASE /\ History' = Append(History, e) /\ excused' = excused
             /\ SummaryFirst(file') /\ SummaryFirst(cache')
    <3>5. Holds(History)'
      <4> SUFFICES ASSUME NEW n \in 1..(serial + 1) \ excused
                   PROVE  \E i \in DOMAIN Append(History, e) : Append(History, e)[i].n = n
        BY <2>1, <2>9 DEF Holds
      <4>1. /\ \A i \in DOMAIN History : /\ i \in DOMAIN Append(History, e)
                                         /\ Append(History, e)[i] = History[i]
            /\ \E i \in DOMAIN Append(History, e) : Append(History, e)[i] = e
        BY <2>3, <2>5, <2>7, Appended
      <4>2. n \in 1..serial \/ n = serial + 1
        BY <2>4
      <4>3. CASE n \in 1..serial
        BY <2>7, <4>1, <4>3 DEF Holds
      <4>4. CASE n = serial + 1
        BY <2>5, <4>1, <4>4
      <4> QED BY <4>2, <4>3, <4>4
    <3> QED BY <2>1, <2>6, <2>9, <3>5 DEF Histories
  <2>10. CASE /\ ~cloud /\ file' = <<>> /\ cache' = cache /\ excused' = 1..(serial + 1)
    <3>1. Holds(History)'
      BY <2>1, <2>10 DEF Holds
    <3> QED BY <2>1, <2>6, <2>7, <2>8, <2>10, <3>1 DEF Histories
  <2>11. CASE file' = file /\ cache' = cache /\ excused' = excused \cup {serial + 1}
    <3>1. History' = History
      BY <2>1, <2>11 DEF History
    <3>2. \A n \in 1..(serial + 1) : n \in 1..serial \/ n = serial + 1
      BY <2>4
    <3>3. Holds(History)'
      BY <2>1, <2>7, <2>11, <3>1, <3>2 DEF Holds
    <3> QED BY <2>1, <2>6, <2>7, <2>11, <3>3 DEF Histories
  <2>12. CASE Written
    <3>1. CASE cloud
      <4>1. cache' = Append(cache, e) /\ file' = file /\ excused' = excused
        BY <2>12, <3>1 DEF Written, e
      <4> QED BY <2>1, <2>7, <2>8, <2>9, <3>1, <4>1 DEF History
    <3>2. CASE ~cloud /\ tail = "torn"
      BY <2>10, <2>12, <3>2 DEF Written
    <3>3. CASE ~cloud /\ tail # "torn"
      <4>1. file' = Append(file, e) /\ cache' = cache /\ excused' = excused
        BY <2>12, <3>3 DEF Written, e
      <4> QED BY <2>1, <2>7, <2>8, <2>9, <3>3, <4>1 DEF History
    <3> QED BY <3>1, <3>2, <3>3
  <2>13. CASE NotWritten
    BY <2>11, <2>13 DEF NotWritten
  <2> QED BY <2>1, <2>12, <2>13
<1>6. CASE DeleteHistory
  <2>1. /\ cache' = <<>> /\ file' = <<>> /\ UNCHANGED <<cloud, at, todo, serial>>
        /\ 1..serial \subseteq excused'
    BY <1>6 DEF DeleteHistory, agentVars
  <2>2. SummaryFirst(<<>>)
    BY DEF SummaryFirst
  <2>3. Holds(todo)' /\ Holds(History)'
    BY <2>1 DEF Holds
  <2>4. History' = <<>>
    BY <2>1 DEF History
  <2>5. at = "truncate" \/ at = "rewrite" => SummaryFirst(todo')
    BY <2>1 DEF Histories
  <2> QED BY <2>1, <2>2, <2>3, <2>4, <2>5 DEF Histories
<1>7. CASE Crash
  <2>1. at' = "idle" /\ UNCHANGED <<cloud, cache, serial>> /\ ~cloud
    BY <1>7 DEF Crash
  <2>2. CASE at = "rewrite"
    <3>1. CutShort
      BY <1>7, <2>2 DEF Crash
    <3>2. SummaryFirst(file') /\ Holds(History)'
      BY <2>1, <2>2, <3>1, RewriteCutShort
    <3> QED BY <2>1, <3>2 DEF Histories
  <2>3. CASE at # "rewrite"
    <3>1. UNCHANGED <<file, excused>>
      BY <1>7, <2>3 DEF Crash
    <3>2. History' = History
      BY <2>1, <3>1 DEF History
    <3> QED BY <2>1, <2>3, <3>1, <3>2 DEF Histories, Holds
  <2> QED BY <2>2, <2>3
<1>11. CASE StartTurn
  <2>1. /\ UNCHANGED <<cloud, file, cache, serial, excused>> /\ at = "idle"
        /\ (at' = "summarize" /\ todo' = History) \/ (at' = "prompt" /\ todo' = todo)
    BY <1>11 DEF StartTurn, Goto
  <2>2. History' = History
    BY <2>1 DEF History
  <2> QED BY <2>1, <2>2 DEF Histories, Holds
<1>8. CASE BumpRead \/ AgentOpens \/ AgentWrites \/ TitleCheck \/ TitleAnswer
  <2>1. /\ UNCHANGED <<cloud, file, cache, todo, serial, excused>> /\ at # "rewrite"
        /\ at' \notin {"summarize", "truncate", "rewrite", "append"}
    BY <1>8 DEF BumpRead, AgentOpens, AgentWrites, TitleCheck, TitleAnswer, Goto, ghosts
  <2> QED BY <2>1, HistoriesStay
<1>9. CASE CreateChat \/ Rename \/ List \/ HttpOpens \/ HttpWrites \/ DeleteSidecar
  <2>1. UNCHANGED <<cloud, file, cache, todo, serial, excused, at>>
    BY <1>9 DEF CreateChat, Rename, List, HttpOpens, HttpWrites, DeleteSidecar, agentVars, ghosts
  <2> QED BY <2>1, OnlyTheAgentMoves
<1>10. CASE UNCHANGED filesVars
  <2>1. UNCHANGED <<cloud, file, cache, todo, serial, excused, at>>
    BY <1>10 DEF filesVars, agentVars, ghosts
  <2> QED BY <2>1, OnlyTheAgentMoves
<1> QED BY <1>1, <1>2, <1>3, <1>4, <1>5, <1>6, <1>7, <1>8, <1>9, <1>10, <1>11 DEF FilesNext, Agent, Http

\* Typed and Histories together.
LEMMA Recorded == FilesSpec => [](Typed /\ Histories)
<1>1. Histories => SummaryFirst(History)
  BY DEF Histories, History
<1> QED
  BY <1>1, TypedInit, TypedStep, HistoriesInit, HistoriesStep, PTL DEF FilesSpec

\* Compaction, deletion, listing and appending may interleave as they like, the
\* program may stop between any two steps and the disk may be full at any of
\* them: a message that was appended, and neither deleted nor put before the
\* summariser nor in a write that was cut short, is in the history.
THEOREM NothingUnreadIsDropped == FilesSpec => []NothingDroppedUnread
<1>1. Histories => NothingDroppedUnread
  BY DEF Histories, NothingDroppedUnread, Holds
<1> QED
  BY <1>1, Recorded, PTL

-----------------------------------------------------------------------------
(* Compaction settles.                                                     *)

\* What a compaction writes is small, and stays so until the prompt is built.
Settling ==
  /\ at = "summarize" => History = <<>> \/ Len(History) > KeepRecent
  /\ at \in {"truncate", "rewrite"} => Small(todo)
  /\ at \in {"summarize", "truncate", "rewrite"} => ~settled
  /\ at = "prompt" /\ settled => Small(file)

LEMMA SmallEmpty == Small(<<>>) /\ Compacted(<<>>) = <<>>
BY DEF Small, Compacted

LEMMA SettlingInit == FilesInit => Settling
BY DEF FilesInit, Settling

LEMMA SettlingStep == Typed /\ Histories /\ Settling /\ [FilesNext]_filesVars => Settling'
<1> SUFFICES ASSUME Typed, Histories, Settling, [FilesNext]_filesVars PROVE Settling'
  OBVIOUS
<1>0. History \in Seq(Saved) /\ SummaryFirst(History)
  BY DEF Typed, Histories, History
<1>1. CASE StartTurn
  <2>1. PICK heavy \in MayBeHeavy :
          /\ at' = IF ShouldCompact(History, heavy) THEN "summarize" ELSE "prompt"
          /\ settled' = FALSE /\ UNCHANGED <<cloud, file, cache>>
    BY <1>1 DEF StartTurn, Goto
  <2>2. History' = History
    BY <2>1 DEF History
  <2>3. ShouldCompact(History, heavy) => Len(History) > KeepRecent
    BY <1>0, LongHistory
  <2> QED BY <2>1, <2>2, <2>3 DEF Settling
<1>2. CASE Summarize
  <2>1. /\ at = "summarize" /\ settled' = settled /\ ~settled
        /\ \/ at' = "truncate" /\ todo' = Compacted(History)
           \/ at' = "prompt"
    BY <1>2 DEF Summarize, Goto, Settling
  <2>2. Small(Compacted(History))
    <3>1. CASE History = <<>>
      BY <3>1, SmallEmpty
    <3>2. CASE Len(History) > KeepRecent
      BY <1>0, <3>2, CompactedHistory
    <3> QED BY <2>1, <3>1, <3>2 DEF Settling
  <2> QED BY <2>1, <2>2 DEF Settling
<1>3. CASE Truncate
  <2>1. /\ at = "truncate" /\ settled' = settled /\ todo' = todo /\ at' \in {"prompt", "rewrite"}
    BY <1>3 DEF Truncate, Goto, ghosts
  <2> QED BY <2>1 DEF Settling
<1>4. CASE Rewrite
  <2>1. at = "rewrite" /\ at' = "prompt" /\ (file' = todo \/ settled' = settled)
    BY <1>4 DEF Rewrite, Goto
  <2> QED BY <2>1 DEF Settling
<1>5. CASE DeleteHistory
  <2>1. History' = <<>> /\ file' = <<>> /\ UNCHANGED <<at, todo, settled>>
    BY <1>5 DEF DeleteHistory, History, agentVars
  <2> QED BY <2>1, SmallEmpty DEF Settling
<1>6. CASE \/ BuildPrompt \/ AppendMessage \/ BumpRead \/ AgentOpens \/ AgentWrites
           \/ TitleCheck \/ TitleAnswer \/ Crash
  <2>1. at' \notin {"summarize", "truncate", "rewrite", "prompt"}
    BY <1>6 DEF BuildPrompt, AppendMessage, BumpRead, AgentOpens, AgentWrites, TitleCheck,
                TitleAnswer, Crash, Goto
  <2> QED BY <2>1 DEF Settling
<1>7. ASSUME UNCHANGED <<cloud, file, cache, todo, settled, at>> PROVE Settling'
  BY <1>7 DEF Settling, History
<1>8. CASE CreateChat \/ Rename \/ List \/ HttpOpens \/ HttpWrites \/ DeleteSidecar
  <2>1. UNCHANGED <<cloud, file, cache, todo, settled, at>>
    BY <1>8 DEF CreateChat, Rename, List, HttpOpens, HttpWrites, DeleteSidecar, agentVars, ghosts
  <2> QED BY <1>7, <2>1
<1>9. CASE UNCHANGED filesVars
  BY <1>7, <1>9 DEF filesVars, agentVars, ghosts
<1> QED BY <1>1, <1>2, <1>3, <1>4, <1>5, <1>6, <1>8, <1>9 DEF FilesNext, Agent, Http

\* With a threshold above the window that is kept, as the defaults have it
\* (six messages of at most 24 KB, against 200 KB), the history a compaction
\* has written in full does not trip the threshold, whatever it was before:
\* huge messages in the window do not, huge arguments of tool calls apart.
THEOREM CompactionSettlesAbove ==
  ASSUME KeepRecent < Threshold
  PROVE  FilesSpec => []CompactionSettles
<1>1. Typed /\ Settling => CompactionSettles
  <2> SUFFICES ASSUME Typed, Settling, at = "prompt", settled,
                      \A i \in DOMAIN file : ~(file[i].kind = "call" /\ file[i].big)
               PROVE  Weight(file) <= Threshold
    BY DEF CompactionSettles
  <2>1. Small(file)
    BY DEF Settling
  <2>2. {i \in DOMAIN file : file[i].big} = {}
    BY <2>1 DEF Small
  <2>3. Weight(file) = (Len(file) - 0) + BigWeight * 0
    BY <2>2, FS_EmptySet DEF Weight
  <2>4. Len(file) \in Nat /\ Len(file) <= KeepRecent + 1
    BY <2>1 DEF Small, Typed
  <2> QED BY <2>3, <2>4
<1> QED
  BY <1>1, Recorded, SettlingInit, SettlingStep, PTL DEF FilesSpec

-----------------------------------------------------------------------------
(* Titles.                                                                 *)

UserTitle == Titled("User", named)

\* The sidecar is open, and empty or about to be overwritten.
Writing == at \in {"bump_write", "title_write"} \/ http = "write"

\* The name the sidecar has to show is there, or it is being written; the
\* agent thread holds no other sidecar, and has asked for no title.
TitleKept ==
  /\ http \in {"open", "write"} /\ sent.name # 0 => sent = Titled("User", sent.name)
  /\ named # 0 =>
       /\ meta = UserTitle \/ (meta = TornMeta /\ Writing)
       /\ at \in {"bump_open", "bump_write"} => held = UserTitle
       /\ at \notin {"title_llm", "title_open", "title_write"}
       /\ http # "delete"

LEMMA TitleKeptInit == FilesInit => TitleKept
BY DEF FilesInit, TitleKept

LEMMA States ==
  /\ TornMeta.state = "torn" /\ NoMeta.state = "none" /\ NoMeta.name = 0
  /\ \A s, n : Titled(s, n).state = "ok" /\ Titled(s, n).source = s /\ Titled(s, n).name = n
  /\ \A b : Synthesized(b).name = 0 /\ Synthesized(b).state = "ok"
BY DEF TornMeta, NoMeta, Titled, Synthesized

LEMMA TitleKeptStep == TitleKept /\ [FilesNext]_filesVars => TitleKept'
<1> SUFFICES ASSUME TitleKept, [FilesNext]_filesVars PROVE TitleKept'
  OBVIOUS
<1> USE States
<1> HIDE DEF TornMeta, NoMeta, Titled, Synthesized
\* Steps that leave the sidecar alone, and what is held of it.
<1>1. ASSUME UNCHANGED <<meta, held, http, sent, named>>,
             at' # at => at \notin {"bump_write", "title_write"} /\
               at' \notin {"bump_open", "bump_write", "title_llm", "title_open", "title_write"}
      PROVE  TitleKept'
  BY <1>1 DEF TitleKept, UserTitle, Writing
<1>2. CASE StartTurn \/ Summarize \/ Truncate \/ Rewrite \/ BuildPrompt \/ AppendMessage
  <2>1. /\ UNCHANGED <<meta, held, http, sent, named>>
        /\ at \notin {"bump_write", "title_write"}
        /\ at' \notin {"bump_open", "bump_write", "title_llm", "title_open", "title_write"}
    BY <1>2 DEF StartTurn, Summarize, Truncate, Rewrite, BuildPrompt, AppendMessage, Goto, ghosts,
                httpVars
  <2> QED BY <1>1, <2>1
<1>3. CASE BumpRead
  <2>1. /\ UNCHANGED <<meta, http, sent>> /\ at' = "bump_open"
        /\ meta.state = "ok" => held' = meta
        /\ named' = IF meta.state = "torn" THEN 0 ELSE named
    BY <1>3 DEF BumpRead, Goto, httpVars
  <2>2. named' # 0 => named' = named /\ meta = UserTitle
    BY <2>1 DEF TitleKept
  <2>3. named' # 0 => held' = UserTitle /\ meta' = UserTitle /\ http # "delete"
    BY <2>1, <2>2 DEF TitleKept, UserTitle
  <2> QED BY <2>1, <2>2, <2>3 DEF TitleKept, UserTitle
<1>4. CASE AgentOpens
  BY <1>4 DEF AgentOpens, Goto, httpVars, ghosts, TitleKept, UserTitle, Writing
<1>5. CASE AgentWrites
  BY <1>5 DEF AgentWrites, Goto, httpVars, TitleKept, UserTitle, Writing
<1>6. CASE TitleCheck
  BY <1>6 DEF TitleCheck, Goto, httpVars, ghosts, TitleKept, UserTitle, Writing
<1>7. CASE TitleAnswer
  BY <1>7 DEF TitleAnswer, Goto, httpVars, TitleKept, UserTitle, Writing
<1>8. CASE CreateChat
  BY <1>8 DEF CreateChat, agentVars, ghosts, TitleKept, UserTitle, Writing
<1>9. CASE Rename
  BY <1>9 DEF Rename, agentVars, ghosts, TitleKept, UserTitle, Writing
<1>10. CASE List
  BY <1>10 DEF List, agentVars, TitleKept, UserTitle, Writing
<1>11. CASE HttpOpens
  BY <1>11 DEF HttpOpens, agentVars, ghosts, TitleKept, UserTitle, Writing
<1>12. CASE HttpWrites
  BY <1>12 DEF HttpWrites, agentVars, AgentWillWrite, TitleKept, UserTitle, Writing
<1>13. CASE DeleteHistory
  BY <1>13 DEF DeleteHistory, agentVars, TitleKept, UserTitle, Writing
<1>14. CASE DeleteSidecar
  BY <1>14 DEF DeleteSidecar, agentVars, ghosts, TitleKept, UserTitle, Writing
<1>15. CASE Crash
  BY <1>15 DEF Crash, TitleKept, UserTitle, Writing
<1>16. CASE UNCHANGED filesVars
  BY <1>1, <1>16 DEF filesVars, agentVars, httpVars, ghosts
<1> QED BY <1>2, <1>3, <1>4, <1>5, <1>6, <1>7, <1>8, <1>9, <1>10, <1>11, <1>12, <1>13, <1>14,
           <1>15, <1>16 DEF FilesNext, Agent, Http

\* A title the user has set stays: no turn, listing or generated title takes
\* it away, in any interleaving of the two threads, unless the agent thread had
\* already read the sidecar or asked for a title, or someone reads, or the
\* program or the disk gives up, in the middle of a write.
THEOREM TitlesStay == FilesSpec => []UserTitleStays
<1>1. TitleKept => UserTitleStays
  BY DEF TitleKept, UserTitleStays, UserTitle, Writing
<1> QED
  BY <1>1, TitleKeptInit, TitleKeptStep, PTL DEF FilesSpec

-----------------------------------------------------------------------------
(* Deletion.                                                               *)

Fresh(h) == \A i \in DOMAIN h : h[i].n \notin gone

\* What was deleted is in no history, and in none that is about to be written.
Forgotten ==
  /\ gone \subseteq 1..serial
  /\ Fresh(file) /\ Fresh(cache)
  /\ at \in {"truncate", "rewrite"} => Fresh(todo)

\* A compaction makes no numbers but that of the summary.
LEMMA CompactedNumbers ==
  ASSUME NEW h \in Seq(Saved), NEW i \in DOMAIN Compacted(h)
  PROVE  Compacted(h)[i].n = 0 \/ \E j \in DOMAIN h : Compacted(h)[i].n = h[j].n
<1>1. CASE Len(h) <= KeepRecent
  <2>1. Compacted(h) = h
    BY <1>1 DEF Compacted
  <2> QED BY <2>1
<1>2. CASE ~(Len(h) <= KeepRecent)
  <2> DEFINE N == Len(h)
             kept == [k \in 1..KeepRecent |-> Redacted(h[N - KeepRecent + k])]
  <2>1. N \in Nat /\ DOMAIN h = 1..N /\ \A k \in 1..N : h[k] \in Saved
    OBVIOUS
  <2>2. \A k \in 1..KeepRecent : N - KeepRecent + k \in 1..N
    BY <1>2, <2>1
  <2>3. \A e \in Saved : Redacted(e) \in Saved /\ Redacted(e).n = e.n
    BY DEF Redacted, Saved
  <2>4. Summary \in Saved /\ Summary.n = 0
    BY DEF Summary, Message, Saved
  <2>5. Compacted(h) = <<Summary>> \o kept
    BY <1>2 DEF Compacted
  <2> HIDE DEF N
  <2>6. \A k \in 1..KeepRecent : kept[k] \in Saved /\ kept[k].n = h[N - KeepRecent + k].n
    BY <2>1, <2>2, <2>3
  <2>7. kept \in Seq(Saved) /\ Len(kept) = KeepRecent
    BY <2>6
  <2> HIDE DEF kept
  <2>8. /\ DOMAIN Compacted(h) = 1..(KeepRecent + 1) /\ Compacted(h)[1] = Summary
        /\ \A k \in 1..KeepRecent : Compacted(h)[k + 1] = kept[k]
    BY <2>4, <2>5, <2>7
  <2>9. i = 1 \/ (i - 1 \in 1..KeepRecent /\ (i - 1) + 1 = i)
    BY <2>8
  <2>10. CASE i = 1
    BY <2>4, <2>8, <2>10
  <2>11. CASE i - 1 \in 1..KeepRecent /\ (i - 1) + 1 = i
    <3>1. Compacted(h)[i].n = h[N - KeepRecent + (i - 1)].n
      BY <2>6, <2>8, <2>11
    <3>2. N - KeepRecent + (i - 1) \in DOMAIN h
      BY <2>1, <2>2, <2>11
    <3> QED BY <3>1, <3>2
  <2> QED BY <2>9, <2>10, <2>11
<1> QED BY <1>1, <1>2

LEMMA ForgottenInit == FilesInit => Forgotten
BY DEF FilesInit, Forgotten, Fresh

LEMMA ForgottenStep == Typed /\ Histories /\ Forgotten /\ [FilesNext]_filesVars => Forgotten'
<1> SUFFICES ASSUME Typed, Histories, Forgotten, [FilesNext]_filesVars PROVE Forgotten'
  OBVIOUS
<1>1. ASSUME UNCHANGED <<file, cache, todo, serial, gone>>,
             at' \in {"truncate", "rewrite"} => at \in {"truncate", "rewrite"}
      PROVE  Forgotten'
  BY <1>1 DEF Forgotten, Fresh
<1>2. CASE StartTurn
  <2>1. UNCHANGED <<file, cache, serial, gone>> /\ at' \in {"summarize", "prompt"}
    BY <1>2 DEF StartTurn, Goto
  <2> QED BY <2>1 DEF Forgotten, Fresh
<1>3. CASE Summarize
  <2>1. /\ UNCHANGED <<file, cache, serial, gone>>
        /\ at' = "prompt" \/ (at' = "truncate" /\ todo' = Compacted(History))
    BY <1>3 DEF Summarize, Goto
  <2>2. History \in Seq(Saved) /\ Fresh(History) /\ serial \in Nat
    BY DEF Typed, Forgotten, History
  <2>3. ASSUME NEW i \in DOMAIN Compacted(History) PROVE Compacted(History)[i].n \notin gone
    <3>1. Compacted(History)[i].n = 0 \/ \E j \in DOMAIN History : Compacted(History)[i].n = History[j].n
      BY <2>2, <2>3, CompactedNumbers
    <3>2. 0 \notin gone
      BY <2>2 DEF Forgotten
    <3> QED BY <2>2, <3>1, <3>2 DEF Fresh
  <2> QED BY <2>1, <2>3 DEF Forgotten, Fresh
<1>4. CASE Truncate
  <2>1. /\ UNCHANGED <<cache, todo, serial, gone>> /\ file' \in {file, <<>>} /\ at = "truncate"
    BY <1>4 DEF Truncate, ghosts
  <2> QED BY <2>1 DEF Forgotten, Fresh
<1>5. ASSUME at = "rewrite", CutShort, UNCHANGED <<cache, serial, gone>>,
             at' \notin {"truncate", "rewrite"}
      PROVE  Forgotten'
  <2>1. PICK k \in 0..(Len(todo) - 1) : file' = SubSeq(todo, 1, k)
    BY <1>5 DEF CutShort
  <2>2. \A i \in DOMAIN file' : i \in DOMAIN todo /\ file'[i] = todo[i]
    BY <2>1 DEF Typed
  <2> QED BY <1>5, <2>2 DEF Forgotten, Fresh
<1>6. CASE Rewrite
  <2>1. /\ at = "rewrite" /\ at' = "prompt" /\ UNCHANGED <<cache, serial, gone>>
        /\ file' = todo \/ CutShort
    BY <1>6 DEF Rewrite, Goto
  <2>2. CASE file' = todo
    BY <2>1, <2>2 DEF Forgotten, Fresh
  <2> QED BY <1>5, <2>1, <2>2
<1>7. CASE BuildPrompt
  <2>1. UNCHANGED <<file, cache, serial, gone>> /\ at' = "append"
    BY <1>7 DEF BuildPrompt, Goto, ghosts
  <2> QED BY <2>1 DEF Forgotten, Fresh
<1>8. CASE AppendMessage
  <2> DEFINE e == Head(todo)
  <2>1. /\ at = "append" /\ UNCHANGED gone /\ serial' = serial + 1
        /\ at' \notin {"truncate", "rewrite"}
        /\ file' \in {file, <<>>, Append(file, e)} /\ cache' \in {cache, Append(cache, e)}
    BY <1>8 DEF AppendMessage, Written, NotWritten, Goto
  <2>2. e \in Saved /\ e.n = serial + 1 /\ serial \in Nat
    <3>1. \A s \in Seq(Saved) : s # <<>> => 1 \in DOMAIN s /\ Head(s) = s[1] /\ s[1] \in Saved
      OBVIOUS
    <3>2. todo \in Seq(Saved) /\ todo # <<>> /\ serial \in Nat
      BY <2>1 DEF Typed
    <3>3. \A i \in DOMAIN todo : todo[i].n = serial + i
      BY <2>1 DEF Histories
    <3> QED BY <3>1, <3>2, <3>3
  <2>3. e.n \notin gone
    BY <2>2 DEF Forgotten
  <2> HIDE DEF e
  <2>4. ASSUME NEW h \in Seq(Saved), Fresh(h) PROVE Fresh(Append(h, e))
    <3>1. \A i \in DOMAIN Append(h, e) :
            (i \in DOMAIN h /\ Append(h, e)[i] = h[i]) \/ Append(h, e)[i] = e
      BY <2>2, <2>4
    <3> QED BY <2>3, <2>4, <3>1 DEF Fresh
  <2>5. file \in Seq(Saved) /\ cache \in Seq(Saved) /\ Fresh(file) /\ Fresh(cache)
    BY DEF Typed, Forgotten
  <2>6. Fresh(<<>>)
    BY DEF Fresh
  <2>7. Fresh(file') /\ Fresh(cache')
    BY <2>1, <2>4, <2>5, <2>6
  <2>8. gone' \subseteq 1..serial'
    BY <2>1, <2>2 DEF Forgotten
  <2> QED BY <2>1, <2>7, <2>8 DEF Forgotten, Fresh
<1>9. CASE DeleteHistory
  <2>1. /\ cache' = <<>> /\ file' = <<>> /\ UNCHANGED <<at, todo, serial>>
        /\ gone' = IF at \in {"truncate", "rewrite"} THEN gone ELSE 1..serial
    BY <1>9 DEF DeleteHistory, agentVars
  <2>2. Fresh(file)' /\ Fresh(cache)'
    BY <2>1 DEF Fresh
  <2>3. CASE at \in {"truncate", "rewrite"}
    BY <2>1, <2>2, <2>3 DEF Forgotten, Fresh
  <2>4. CASE at \notin {"truncate", "rewrite"}
    BY <2>1, <2>2, <2>4 DEF Forgotten
  <2> QED BY <2>3, <2>4
<1>10. CASE Crash
  <2>1. UNCHANGED <<cache, serial, gone>> /\ at' = "idle"
    BY <1>10 DEF Crash
  <2>2. CASE at = "rewrite" /\ CutShort
    BY <1>5, <2>1, <2>2
  <2>3. CASE file' = file
    BY <2>1, <2>3 DEF Forgotten, Fresh
  <2> QED BY <1>10, <2>2, <2>3 DEF Crash
<1>11. CASE BumpRead \/ AgentOpens \/ AgentWrites \/ TitleCheck \/ TitleAnswer
  <2>1. /\ UNCHANGED <<file, cache, todo, serial, gone>> /\ at' \notin {"truncate", "rewrite"}
    BY <1>11 DEF BumpRead, AgentOpens, AgentWrites, TitleCheck, TitleAnswer, Goto, ghosts
  <2> QED BY <1>1, <2>1
<1>12. CASE CreateChat \/ Rename \/ List \/ HttpOpens \/ HttpWrites \/ DeleteSidecar
  <2>1. UNCHANGED <<file, cache, todo, serial, gone, at>>
    BY <1>12 DEF CreateChat, Rename, List, HttpOpens, HttpWrites, DeleteSidecar, agentVars, ghosts
  <2> QED BY <1>1, <2>1
<1>13. CASE UNCHANGED filesVars
  BY <1>1, <1>13 DEF filesVars, agentVars, ghosts
<1> QED BY <1>2, <1>3, <1>4, <1>6, <1>7, <1>8, <1>9, <1>10, <1>11, <1>12, <1>13
        DEF FilesNext, Agent, Http

\* A message that was deleted does not come back into the history, on disk or
\* in the cache: whatever the agent thread does with what it had read - also
\* while the summariser reads the deleted messages - and however compactions,
\* appends, restarts and full disks follow.
THEOREM DeletedChatsStayGone == FilesSpec => []DeletedStaysGone
<1>1. Forgotten => DeletedStaysGone
  BY DEF Forgotten, Fresh, DeletedStaysGone
<1> QED
  BY <1>1, Recorded, ForgottenInit, ForgottenStep, PTL DEF FilesSpec

-----------------------------------------------------------------------------
(* The loop of a turn.                                                    *)

USE DEF MAX_CONSECUTIVE_ERRORS, MAX_CONTINUATION_NUDGES

\* What a step of the loop that starts no tool and ends none leaves alone.
LEMMA Elsewhere ==
  ASSUME CheckCancel \/ Llm \/ ToolBlocked \/ ToolSkipped \/ BatchDone
  PROVE  pc # "exec" /\ pc' # "exec" /\ history' = history /\ UNCHANGED <<cancel, late>>
BY DEF CheckCancel, Llm, LlmRetryable, LlmFatal, LlmText, LlmNudge, LlmToolCalls,
       ToolBlocked, ToolSkipped, BatchDone, End

-----------------------------------------------------------------------------
(* Cancellation.                                                           *)

\* A tool that came to its end under a cancel was the last: the flag is still
\* set, and no other tool has started.
LastTool == late \in 0..1 /\ (late = 1 => cancel /\ pc # "exec")

\* Once cancel is set the tool that runs comes to its end and none starts.
THEOREM CancelIsObeyed == Spec => []CancelStopsTools
<1>1. Init => LastTool
  BY DEF Init, LastTool
<1>2. LastTool /\ [Next]_vars => LastTool'
  <2> SUFFICES ASSUME LastTool, [Next]_vars PROVE LastTool'
    OBVIOUS
  <2>1. CASE Cancel
    BY <2>1 DEF Cancel, LastTool
  <2>2. CASE CheckCancel \/ Llm \/ ToolBlocked \/ ToolSkipped \/ BatchDone
    BY <2>2, Elsewhere DEF LastTool
  <2>3. CASE ToolStarts
    BY <2>3 DEF ToolStarts, LastTool
  <2>4. CASE ToolReturns
    BY <2>4 DEF ToolReturns, LastTool
  <2>5. CASE UNCHANGED vars
    BY <2>5 DEF vars, LastTool
  <2> QED BY <2>1, <2>2, <2>3, <2>4, <2>5 DEF Next, Tools
<1>3. LastTool => CancelStopsTools
  BY DEF LastTool, CancelStopsTools
<1> QED BY <1>1, <1>2, <1>3, PTL DEF Spec

-----------------------------------------------------------------------------
(* Results behind calls.                                                   *)

LoopMsg == [kind : {"assistant", "tool", "text", "system"}, calls : Seq(Calls)]

\* Within a batch the answer comes first, then the results of the calls that
\* were handled; the other calls wait in order.
Paired ==
  /\ messages \in Seq(LoopMsg) /\ batch \in Seq(Calls)
  /\ pc \in {"tools", "exec"} =>
       LET asked == messages[1].calls IN
       /\ messages # <<>> /\ messages[1].kind = "assistant"
       /\ Len(messages) + Len(batch) = Len(asked) + 1
       /\ \A k \in 2..Len(messages) : messages[k] = ToolResult(asked[k - 1])
       /\ \A k \in 1..Len(batch) : batch[k] = asked[Len(messages) - 1 + k]
  /\ pc = "exec" => batch # <<>>
  /\ ResultsFollowCalls

\* The next call is answered, whatever became of it.
LEMMA AnswerPairs ==
  ASSUME Paired, pc \in {"tools", "exec"}, pc' = "tools", batch # <<>>,
         Answer(Head(batch)), batch' = Tail(batch)
  PROVE  Paired'
<1> DEFINE asked == messages[1].calls
           result == ToolResult(Head(batch))
<1>1. /\ messages \in Seq(LoopMsg) /\ batch \in Seq(Calls) /\ messages # <<>>
      /\ messages[1] \in LoopMsg /\ asked \in Seq(Calls)
      /\ messages[1].kind = "assistant"
      /\ Len(messages) \in Nat \ {0} /\ Len(batch) \in Nat \ {0}
      /\ Len(messages) + Len(batch) = Len(asked) + 1
  <2>1. /\ messages \in Seq(LoopMsg) /\ batch \in Seq(Calls) /\ messages # <<>>
        /\ messages[1].kind = "assistant" /\ Len(messages) + Len(batch) = Len(asked) + 1
    BY DEF Paired
  <2>2. Len(messages) \in Nat \ {0} /\ Len(batch) \in Nat \ {0}
    BY <2>1
  <2>3. messages[1] \in LoopMsg
    BY <2>1, <2>2
  <2>4. asked \in Seq(Calls)
    BY <2>3 DEF LoopMsg
  <2> QED BY <2>1, <2>2, <2>3, <2>4
<1>2. Head(batch) \in Calls /\ result \in LoopMsg
  BY <1>1 DEF ToolResult, LoopMsg
<1> HIDE DEF result
<1>3. messages' = Append(messages, result)
  BY DEF Answer, result
<1>4. /\ messages' \in Seq(LoopMsg) /\ Len(messages') = Len(messages) + 1
      /\ \A k \in 1..Len(messages) : messages'[k] = messages[k]
      /\ messages'[Len(messages) + 1] = result
  BY <1>1, <1>2, <1>3
<1>5. /\ batch' \in Seq(Calls) /\ Len(batch') = Len(batch) - 1
      /\ \A k \in 1..Len(batch') : batch'[k] = batch[k + 1]
  BY <1>1
<1>6. messages' # <<>> /\ messages'[1] = messages[1]
  BY <1>1, <1>4
<1>7. Head(batch) = asked[Len(messages)]
  <2>1. batch[1] = asked[Len(messages) - 1 + 1] /\ Head(batch) = batch[1]
    BY <1>1 DEF Paired
  <2> QED BY <1>1, <2>1
<1>8. \A k \in 2..Len(messages') : messages'[k] = ToolResult(asked[k - 1])
  <2> TAKE k \in 2..Len(messages')
  <2>1. CASE k \in 2..Len(messages)
    BY <1>4, <2>1 DEF Paired
  <2>2. CASE k = Len(messages) + 1
    <3>1. k - 1 = Len(messages)
      BY <1>1, <2>2
    <3> QED BY <1>4, <1>7, <2>2, <3>1 DEF result
  <2>3. k \in 2..Len(messages) \/ k = Len(messages) + 1
    <3> HIDE DEF asked
    <3> QED BY <1>1, <1>4
  <2> QED BY <2>1, <2>2, <2>3
<1>9. \A k \in 1..Len(batch') : batch'[k] = asked[Len(messages') - 1 + k]
  <2> TAKE k \in 1..Len(batch')
  <2>1. k + 1 \in 1..Len(batch) /\ batch'[k] = batch[k + 1]
    BY <1>1, <1>5
  <2>2. batch[k + 1] = asked[Len(messages) - 1 + (k + 1)]
    BY <2>1 DEF Paired
  <2>3. Len(messages) - 1 + (k + 1) = Len(messages') - 1 + k
    BY <1>1, <1>4
  <2> QED BY <2>1, <2>2, <2>3
<1>10. Len(messages') + Len(batch') = Len(asked) + 1
  <2> HIDE DEF asked
  <2>1. Len(messages') = Len(messages) + 1 /\ Len(batch') = Len(batch) - 1
    BY <1>4, <1>5
  <2>2. \A m, b, a \in Int : m + b = a + 1 => (m + 1) + (b - 1) = a + 1
    OBVIOUS
  <2>3. Len(messages) \in Int /\ Len(batch) \in Int /\ Len(asked) \in Int
    BY <1>1
  <2>4. Len(messages) + Len(batch) = Len(asked) + 1
    BY <1>1
  <2>5. (Len(messages) + 1) + (Len(batch) - 1) = Len(asked) + 1
    BY <2>2, <2>3, <2>4
  <2> QED BY <2>1, <2>5
<1> HIDE DEF asked
<1>11. messages'[1].calls = asked /\ messages'[1].kind = "assistant"
  BY <1>1, <1>6 DEF asked
<1>12. ResultsFollowCalls'
  BY DEF ResultsFollowCalls
<1> QED BY <1>4, <1>5, <1>6, <1>8, <1>9, <1>10, <1>11, <1>12 DEF Paired

\* The batch is done: with or without a warning behind the last result.
LEMMA BatchPairs == ASSUME Paired, BatchDone PROVE Paired'
<1> DEFINE asked == messages[1].calls
<1>1. /\ pc = "tools" /\ batch = <<>> /\ pc' = "check" /\ batch' = batch
      /\ messages' \in {messages, Append(messages, Plain("system"))}
  BY DEF BatchDone
<1>2. /\ messages \in Seq(LoopMsg) /\ messages # <<>> /\ asked \in Seq(Calls)
      /\ messages[1].kind = "assistant" /\ Len(messages) = Len(asked) + 1
      /\ \A k \in 2..Len(messages) : messages[k] = ToolResult(asked[k - 1])
  <2>1. /\ messages \in Seq(LoopMsg) /\ messages # <<>> /\ messages[1].kind = "assistant"
        /\ Len(messages) + Len(batch) = Len(asked) + 1
        /\ \A k \in 2..Len(messages) : messages[k] = ToolResult(asked[k - 1])
    BY <1>1 DEF Paired
  <2>2. Len(messages) \in Nat \ {0} /\ Len(batch) = 0
    BY <1>1, <2>1
  <2>3. messages[1] \in LoopMsg
    BY <2>1, <2>2
  <2>4. asked \in Seq(Calls)
    BY <2>3 DEF LoopMsg
  <2> HIDE DEF asked
  <2>5. Len(messages) = Len(asked) + 1
    BY <2>1, <2>2, <2>4
  <2> QED BY <2>1, <2>4, <2>5
<1> DEFINE warn == Plain("system")
<1> HIDE DEF asked
<1>3. warn \in LoopMsg /\ warn.kind = "system"
  BY DEF Plain, LoopMsg
<1>4. /\ messages' \in Seq(LoopMsg)
      /\ \A k \in 1..Len(messages) : messages'[k] = messages[k]
      /\ Len(messages') \in {Len(messages), Len(messages) + 1}
      /\ Len(messages') > Len(messages) => messages'[Len(messages) + 1] = warn
  <2> HIDE DEF warn
  <2>1. Append(messages, warn) \in Seq(LoopMsg)
        /\ Len(Append(messages, warn)) = Len(messages) + 1
        /\ \A k \in 1..Len(messages) : Append(messages, warn)[k] = messages[k]
        /\ Append(messages, warn)[Len(messages) + 1] = warn
    BY <1>2, <1>3
  <2>2. messages' = messages \/ messages' = Append(messages, warn)
    BY <1>1 DEF warn
  <2>3. CASE messages' = messages
    <3>1. Len(messages) \in Nat
      BY <1>2
    <3> QED BY <1>2, <2>3, <3>1
  <2>4. CASE messages' = Append(messages, warn)
    BY <2>1, <2>4
  <2> QED BY <2>2, <2>3, <2>4
<1>5. Len(asked) \in Nat /\ Len(messages) \in Nat /\ messages'[1] = messages[1]
      /\ Len(messages') \in Nat
  BY <1>2, <1>4
<1> HIDE DEF warn
<1>6. \A k \in 2..Len(messages') :
        messages'[k] = IF k <= Len(messages) THEN ToolResult(asked[k - 1]) ELSE warn
  BY <1>2, <1>4, <1>5
<1>7. \A k \in 2..Len(messages') : messages'[k].kind \in {"tool", "system"}
  <2>1. \A c : ToolResult(c).kind = "tool"
    BY DEF ToolResult
  <2> QED BY <1>3, <1>6, <2>1
<1>8. \A k \in 1..Len(asked) : messages'[1 + k] = ToolResult(asked[k])
  <2> TAKE k \in 1..Len(asked)
  <2>1. k + 1 \in 2..Len(messages') /\ k + 1 <= Len(messages) /\ (k + 1) - 1 = k
    BY <1>2, <1>4, <1>5
  <2> QED BY <1>6, <2>1
<1>9. \A j \in (1 + Len(asked) + 1)..Len(messages') : messages'[j].kind # "tool"
  BY <1>2, <1>3, <1>4, <1>5, <1>6
<1>10. messages'[1].calls = asked /\ Len(messages') >= 1 + Len(asked)
  <2>1. messages'[1].calls = asked
    BY <1>5 DEF asked
  <2> QED BY <1>2, <1>4, <1>5, <2>1
<1>11. ResultsFollowCalls'
  <2> HIDE DEF asked
  <2> SUFFICES ASSUME NEW i \in 1..Len(messages'), messages'[i].kind = "assistant"
               PROVE  i = 1
    BY <1>8, <1>9, <1>10 DEF ResultsFollowCalls
  <2>1. Len(messages') \in Nat
    BY <1>4
  <2>2. i \notin 2..Len(messages')
    BY <1>7
  <2> QED BY <2>1, <2>2
<1> QED BY <1>1, <1>4, <1>11 DEF Paired

LEMMA PairedStep == Paired /\ [Next]_vars => Paired'
<1> SUFFICES ASSUME Paired, [Next]_vars PROVE Paired'
  OBVIOUS
<1>1. CASE Cancel \/ UNCHANGED vars
  <2>1. UNCHANGED <<pc, messages, batch>>
    BY <1>1 DEF Cancel, vars
  <2> QED BY <2>1 DEF Paired, ResultsFollowCalls
<1>2. CASE CheckCancel \/ LlmRetryable \/ LlmFatal
  <2>1. /\ UNCHANGED <<messages, batch>>
        /\ {pc, pc'} \subseteq {"check", "llm", "ended"}
    BY <1>2 DEF CheckCancel, LlmRetryable, LlmFatal, End
  <2> QED BY <2>1 DEF Paired, ResultsFollowCalls
<1>3. CASE LlmText \/ LlmNudge
  <2>1. /\ messages' \in {<<Plain("text")>>, <<Plain("text"), Plain("system")>>}
        /\ batch' = batch /\ pc' \in {"ended", "check"}
    BY <1>3 DEF LlmText, LlmNudge, End
  <2>2. Plain("text") \in LoopMsg /\ Plain("system") \in LoopMsg
    BY DEF Plain, LoopMsg
  <2>3. /\ messages' \in Seq(LoopMsg)
        /\ \A i \in 1..Len(messages') : messages'[i] \in {Plain("text"), Plain("system")}
    <3>1. CASE messages' = <<Plain("text")>>
      BY <2>2, <3>1
    <3>2. CASE messages' = <<Plain("text"), Plain("system")>>
      BY <2>2, <3>2
    <3> QED BY <2>1, <3>1, <3>2
  <2>4. \A i \in 1..Len(messages') : messages'[i].kind # "assistant"
    BY <2>3 DEF Plain
  <2> QED BY <2>1, <2>3, <2>4 DEF Paired, ResultsFollowCalls
<1>4. CASE LlmToolCalls
  <2>1. batch' \in Batches /\ messages' = <<Assistant(batch')>> /\ pc' = "tools"
    BY <1>4 DEF LlmToolCalls
  <2>2. batch' \in Seq(Calls)
    BY <2>1, LoopAssumption DEF Batches
  <2>3. /\ messages' \in Seq(LoopMsg) /\ messages'[1] = Assistant(batch')
        /\ Len(messages') = 1 /\ messages' # <<>>
    BY <2>1, <2>2 DEF Assistant, LoopMsg
  <2>4. messages'[1].calls = batch' /\ messages'[1].kind = "assistant"
    BY <2>3 DEF Assistant
  <2>5. \A k \in 1..Len(batch') : batch'[k] = batch'[1 - 1 + k]
    BY <2>2
  <2> QED BY <2>1, <2>2, <2>3, <2>4, <2>5 DEF Paired, ResultsFollowCalls
<1>5. CASE ToolBlocked \/ ToolSkipped
  BY <1>5, AnswerPairs DEF ToolBlocked, ToolSkipped
<1>6. CASE ToolStarts
  <2>1. pc = "tools" /\ batch # <<>> /\ pc' = "exec" /\ UNCHANGED <<messages, batch>>
    BY <1>6 DEF ToolStarts
  <2> QED BY <2>1 DEF Paired, ResultsFollowCalls
<1>7. CASE ToolReturns
  BY <1>7, AnswerPairs DEF ToolReturns, Paired
<1>8. CASE BatchDone
  BY <1>8, BatchPairs
<1> QED BY <1>1, <1>2, <1>3, <1>4, <1>5, <1>6, <1>7, <1>8 DEF Next, Llm, Tools

\* Between answers each call of an answer is followed by its one result, for
\* any mix of blocked, skipped and executed calls in batches of any size.
THEOREM ResultsPaired == Spec => []ResultsFollowCalls
<1>1. Init => Paired
  BY DEF Init, Paired, ResultsFollowCalls
<1>2. Paired => ResultsFollowCalls
  BY DEF Paired
<1> QED BY <1>1, <1>2, PairedStep, PTL DEF Spec

-----------------------------------------------------------------------------
(* The window of the detector.                                             *)

LEMMA LeastNat ==
  ASSUME NEW S, S \subseteq Nat, S # {}
  PROVE  \E m \in S : \A n \in S : m <= n
<1> DEFINE R == OpToRel(<, Nat)
<1>1. PICK m \in S : \A n \in S : <<n, m>> \notin R
  <2> HIDE DEF R
  <2>1. IsWellFoundedOn(R, Nat)
    BY NatLessThanWellFounded DEF R
  <2> QED BY <2>1, WFMin
<1>2. \A x, y \in Nat : x < y => <<x, y>> \in R
  BY DEF OpToRel
<1> HIDE DEF R
<1>3. ASSUME NEW n \in S PROVE m <= n
  <2>1. n \in Nat /\ m \in Nat /\ ~(n < m)
    BY <1>1, <1>2
  <2> QED BY <2>1
<1> QED BY <1>3

LEMMA LatestPosition ==
  ASSUME NEW n \in Nat, NEW S, S \subseteq 1..n, S # {}
  PROVE  \E m \in S : \A j \in S : j <= m
<1> DEFINE T == {n - i : i \in S}
<1>1. T \subseteq Nat /\ T # {}
  <2>1. \A i \in S : n - i \in Nat
    OBVIOUS
  <2>2. PICK i \in S : TRUE
    OBVIOUS
  <2>3. n - i \in T
    OBVIOUS
  <2> QED BY <2>1, <2>3
<1>2. PICK d \in T : \A e \in T : d <= e
  <2> HIDE DEF T
  <2> QED BY <1>1, LeastNat
<1>3. PICK m \in S : d = n - m
  OBVIOUS
<1>4. ASSUME NEW j \in S PROVE j <= m
  <2>1. n - m <= n - j
    BY <1>2, <1>3
  <2>2. m \in Nat /\ j \in Nat
    BY <1>3
  <2> HIDE DEF T
  <2>3. \A a, b, c \in Int : a - b <= a - c => c <= b
    OBVIOUS
  <2> QED BY <2>1, <2>2, <2>3
<1> QED BY <1>4

\* A call that fills the last CRITICAL_THRESHOLD places alone is blocked: it
\* is no ping-pong, so no warning comes before the test of the repeats.
LEMMA StreakIsBlocked ==
  ASSUME NEW h \in Seq(Entry), NEW c, Len(h) >= CriticalAt,
         \A i \in (Len(h) - CriticalAt + 1)..Len(h) : h[i].call = c
  PROVE  Blocked(h, c)
<1> USE ThresholdAssumption
<1> DEFINE same == {i \in 1..Len(h) : h[i].call = c}
           others == {i \in 1..Len(h) : h[i].call # h[Len(h)].call}
<1>1. Len(h) \in Nat \ {0} /\ h # <<>> /\ h[Len(h)].call = c
  OBVIOUS
<1>2. PingPong(h, c).count = 0
  <2>1. CASE others = {}
    BY <2>1 DEF PingPong
  <2>2. CASE others # {}
    <3> DEFINE latest == CHOOSE i \in others : \A j \in others : j <= i
    <3>1. latest \in others
      BY <1>1, <2>2, LatestPosition
    <3>2. h[latest].call # c
      BY <1>1, <3>1
    <3> QED BY <1>1, <2>2, <3>2 DEF PingPong
  <2> QED BY <2>1, <2>2
<1>3. Cardinality(same) >= CriticalAt
  <2> DEFINE last == (Len(h) - CriticalAt + 1)..Len(h)
  <2>1. last \subseteq same
    OBVIOUS
  <2>2. IsFiniteSet(same)
    <3>1. IsFiniteSet(1..Len(h))
      BY FS_Interval, <1>1
    <3>2. same \in SUBSET (1..Len(h))
      OBVIOUS
    <3> QED BY <3>1, <3>2, FS_Subset, Zenon
  <2>3. Cardinality(last) = CriticalAt
    <3>1. /\ Len(h) - CriticalAt + 1 \in Int /\ Len(h) \in Int /\ CriticalAt \in Nat \ {0}
          /\ ~(Len(h) - CriticalAt + 1 > Len(h))
          /\ Len(h) - (Len(h) - CriticalAt + 1) + 1 = CriticalAt
      BY <1>1
    <3>2. Cardinality(last) = IF Len(h) - CriticalAt + 1 > Len(h) THEN 0
                              ELSE Len(h) - (Len(h) - CriticalAt + 1) + 1
      BY <3>1, FS_Interval, Zenon
    <3> QED BY <3>1, <3>2
  <2>4. Cardinality(last) <= Cardinality(same)
    BY FS_Subset, <2>1, <2>2
  <2>5. Cardinality(same) \in Nat
    BY FS_CardinalityType, <2>2
  <2> QED BY <2>3, <2>4, <2>5
<1> QED BY <1>2, <1>3 DEF Blocked, Repeats

\* The window after one more entry: it, and the last of the others.
LEMMA PushKeeps ==
  ASSUME NEW h \in Seq(Entry), Len(h) <= HistorySize, NEW e \in Entry
  PROVE  LET p == Push(h, e) IN
         /\ p \in Seq(Entry) /\ Len(p) \in 1..HistorySize /\ p[Len(p)] = e
         /\ \E d \in {0, 1} : /\ Len(p) + d = Len(h) + 1
                            /\ \A i \in 1..(Len(p) - 1) : p[i] = h[i + d]
<1> USE ThresholdAssumption
<1>1. CASE Len(h) < HistorySize
  <2>1. Push(h, e) = Append(h, e)
    BY <1>1 DEF Push
  <2>2. \A i \in 1..Len(h) : Append(h, e)[i] = h[i + 0]
    OBVIOUS
  <2> QED BY <1>1, <2>1, <2>2
<1>2. CASE Len(h) = HistorySize
  <2>1. Push(h, e) = Append(Tail(h), e)
    BY <1>2 DEF Push
  <2>2. Tail(h) \in Seq(Entry) /\ Len(Tail(h)) = Len(h) - 1
        /\ \A i \in 1..Len(Tail(h)) : Tail(h)[i] = h[i + 1]
    BY <1>2
  <2> QED BY <1>2, <2>1, <2>2
<1> QED BY <1>1, <1>2

\* The result goes to the last entry, when that waits for it.
LEMMA OutcomeGoesLast ==
  ASSUME NEW h \in Seq(Entry), NEW c, NEW r, h # <<>>,
         h[Len(h)].call = c, h[Len(h)].res = NoResult
  PROVE  RecordOutcome(h, c, r) = [h EXCEPT ![Len(h)].res = r]
<1> DEFINE waiting == {i \in 1..Len(h) : h[i].call = c /\ h[i].res = NoResult}
           i == CHOOSE i \in waiting : \A j \in waiting : j <= i
<1>1. Len(h) \in waiting /\ \A j \in waiting : j <= Len(h)
  OBVIOUS
<1>2. i \in waiting /\ \A j \in waiting : j <= i
  BY <1>1
<1>3. i = Len(h)
  BY <1>1, <1>2
<1> QED BY <1>1, <1>3 DEF RecordOutcome

\* The tool that runs is the one whose entry waits.  The last error ends
\* the loop.
Watched ==
  /\ TypeOK
  /\ errors = MAX_CONSECUTIVE_ERRORS => pc = "ended"
  /\ pc = "exec" => /\ batch # <<>> /\ history # <<>>
                    /\ history[Len(history)].call = Head(batch)
  /\ StreakBounded

\* A call that was not blocked makes no streak beyond the threshold.
LEMMA RecordKeepsStreaks ==
  ASSUME NEW h \in Seq(Entry), Len(h) <= HistorySize, NEW c \in Calls, ~Blocked(h, c),
         \A i \in 1..(Len(h) - CriticalAt) :
           \E j \in 1..CriticalAt : h[i + j].call # h[i].call,
         NEW i \in 1..(Len(RecordCall(h, c)) - CriticalAt)
  PROVE  \E j \in 1..CriticalAt : RecordCall(h, c)[i + j].call # RecordCall(h, c)[i].call
<1> USE ThresholdAssumption
<1> DEFINE e == [call |-> c, res |-> NoResult]
           p == RecordCall(h, c)
<1>1. e \in Entry
  BY DEF Entry
<1>2. p \in Seq(Entry) /\ Len(p) \in 1..HistorySize /\ p[Len(p)] = e
  BY <1>1, PushKeeps DEF RecordCall
<1>3. PICK d \in {0, 1} : /\ Len(p) + d = Len(h) + 1
                         /\ \A k \in 1..(Len(p) - 1) : p[k] = h[k + d]
  BY <1>1, PushKeeps DEF RecordCall
<1> HIDE DEF p
<1>4. i \in Nat /\ i + CriticalAt <= Len(p) /\ Len(h) \in Nat
  BY <1>2 DEF p
<1>5. CASE i + CriticalAt < Len(p)
  <2>1. i + d \in 1..(Len(h) - CriticalAt)
    BY <1>2, <1>3, <1>4, <1>5
  <2>2. PICK j \in 1..CriticalAt : h[(i + d) + j].call # h[i + d].call
    BY <2>1
  <2>3. i \in 1..(Len(p) - 1) /\ i + j \in 1..(Len(p) - 1)
    BY <1>2, <1>4, <1>5
  <2>4. p[i] = h[i + d] /\ p[i + j] = h[(i + j) + d]
    BY <1>3, <2>3
  <2>5. (i + j) + d = (i + d) + j
    BY <1>4
  <2> QED BY <2>2, <2>4, <2>5 DEF p
<1>6. CASE i + CriticalAt = Len(p)
  <2> SUFFICES ASSUME \A j \in 1..CriticalAt : p[i + j].call = p[i].call
               PROVE  FALSE
    BY DEF p
  <2>1. p[i].call = c
    BY <1>2, <1>6
  <2>2. ASSUME NEW k \in (Len(h) - CriticalAt + 1)..Len(h) PROVE h[k].call = c
    <3>1. k - d \in i..(Len(p) - 1) /\ k - d \in Nat
      BY <1>2, <1>3, <1>4, <1>6
    <3>2. p[k - d] = h[k]
      <4>1. k - d \in 1..(Len(p) - 1) /\ (k - d) + d = k
        BY <1>2, <1>4, <3>1
      <4>2. p[k - d] = h[(k - d) + d]
        BY <1>3, <4>1
      <4> QED BY <4>1, <4>2
    <3>3. p[k - d].call = c
      <4>1. CASE k - d = i
        BY <2>1, <4>1
      <4>2. CASE k - d > i
        <5>1. (k - d) - i \in 1..CriticalAt /\ i + ((k - d) - i) = k - d
          BY <1>2, <1>4, <1>6, <3>1, <4>2
        <5> QED BY <2>1, <5>1
      <4> QED BY <1>4, <3>1, <4>1, <4>2
    <3> QED BY <3>2, <3>3
  <2>3. Len(h) >= CriticalAt
    BY <1>2, <1>3, <1>4, <1>6
  <2> QED BY <2>2, <2>3, StreakIsBlocked
<1> QED BY <1>2, <1>4, <1>5, <1>6

LEMMA WatchedStep == Watched /\ [Next]_vars => Watched'
<1> SUFFICES ASSUME Watched, [Next]_vars PROVE Watched'
  OBVIOUS
<1> USE DEF Watched
<1>0. ASSUME history' = history PROVE StreakBounded'
  BY <1>0 DEF StreakBounded
<1>1. CASE Cancel \/ UNCHANGED vars
  BY <1>0, <1>1 DEF Cancel, vars, TypeOK
<1>2. CASE CheckCancel \/ LlmRetryable \/ LlmFatal \/ LlmText \/ LlmNudge
  <2>1. /\ pc \in {"check", "llm"} /\ pc' \in {"check", "llm", "ended"}
        /\ outcome' = (IF pc' = "ended" THEN outcome' ELSE outcome)
        /\ outcome' \in {"none", "reply", "cancelled", "error"}
        /\ pc' = "ended" => outcome' # "none"
        /\ offered' \in BOOLEAN
        /\ UNCHANGED <<cancel, toolsUsed, history, batch, warning, late, obeys>>
    BY <1>2 DEF CheckCancel, LlmRetryable, LlmFatal, LlmText, LlmNudge, End, TypeOK
  <2>2. /\ errors' \in 0..MAX_CONSECUTIVE_ERRORS
        /\ errors' = MAX_CONSECUTIVE_ERRORS => pc' = "ended"
        /\ nudges' \in 0..MAX_CONTINUATION_NUDGES
    BY <1>2 DEF CheckCancel, LlmRetryable, LlmFatal, LlmText, LlmNudge, End, TypeOK
  <2> QED BY <1>0, <2>1, <2>2 DEF TypeOK
<1>3. CASE LlmToolCalls
  <2>1. batch' \in Seq(Calls) /\ Len(batch') <= MaxBatch
    <3>1. PICK n \in 1..MaxBatch : batch' \in [1..n -> Calls]
      BY <1>3 DEF LlmToolCalls, Batches
    <3>2. n \in Nat /\ n <= MaxBatch
      BY LoopAssumption
    <3> QED BY <3>1, <3>2
  <2>2. /\ pc = "llm" /\ pc' = "tools" /\ errors' = 0
        /\ toolsUsed' \in BOOLEAN /\ warning' \in BOOLEAN
        /\ UNCHANGED <<outcome, cancel, offered, nudges, history, late, obeys>>
    BY <1>3 DEF LlmToolCalls
  <2> QED BY <1>0, <2>1, <2>2 DEF TypeOK
<1>4. CASE ToolBlocked \/ ToolSkipped \/ BatchDone
  <2>1. /\ pc = "tools" /\ pc' \in {"tools", "check"} /\ warning' \in BOOLEAN
        /\ offered' \in BOOLEAN /\ (batch' = batch \/ (batch # <<>> /\ batch' = Tail(batch)))
        /\ UNCHANGED <<outcome, cancel, errors, toolsUsed, nudges, history, late, obeys>>
    BY <1>4 DEF ToolBlocked, ToolSkipped, BatchDone, TypeOK
  <2>2. batch' \in Seq(Calls) /\ Len(batch') <= MaxBatch
    BY <2>1, LoopAssumption DEF TypeOK
  <2> QED BY <1>0, <2>1, <2>2 DEF TypeOK
<1>5. CASE ToolStarts
  <2> DEFINE e == [call |-> Head(batch), res |-> NoResult]
  <2>1. /\ pc = "tools" /\ batch # <<>> /\ ~Blocked(history, Head(batch)) /\ pc' = "exec"
        /\ history' = RecordCall(history, Head(batch)) /\ history' = Push(history, e)
        /\ warning' \in BOOLEAN
        /\ UNCHANGED <<outcome, cancel, errors, offered, toolsUsed, nudges, batch, late, obeys>>
    BY <1>5 DEF ToolStarts, RecordCall, TypeOK
  <2>2. Head(batch) \in Calls /\ e \in Entry /\ history \in Seq(Entry)
        /\ Len(history) \in 0..HistorySize
        /\ \A i \in 1..Len(history) : history[i].res # NoResult
    BY <2>1, ThresholdAssumption DEF Entry, TypeOK
  <2> HIDE DEF e
  <2>3. /\ history' \in Seq(Entry) /\ Len(history') \in 1..HistorySize
        /\ history'[Len(history')] = e
        /\ \E d \in {0, 1} : /\ Len(history') + d = Len(history) + 1
                           /\ \A i \in 1..(Len(history') - 1) : history'[i] = history[i + d]
    <3>1. Len(history) <= HistorySize
      BY DEF TypeOK
    <3>2. history \in Seq(Entry) /\ e \in Entry /\ history' = Push(history, e)
      BY <2>1, <2>2
    <3>3. \A h \in Seq(Entry) : Len(h) <= HistorySize =>
            LET p == Push(h, e) IN
            /\ p \in Seq(Entry) /\ Len(p) \in 1..HistorySize /\ p[Len(p)] = e
            /\ \E d \in {0, 1} : /\ Len(p) + d = Len(h) + 1
                               /\ \A i \in 1..(Len(p) - 1) : p[i] = h[i + d]
      BY <3>2, PushKeeps
    <3> QED BY <3>1, <3>2, <3>3, Zenon
  <2>4. \A i \in 1..Len(history') : history'[i].res = NoResult <=> i = Len(history')
    <3> TAKE i \in 1..Len(history')
    <3>1. PICK d \in {0, 1} : /\ Len(history') + d = Len(history) + 1
                             /\ \A k \in 1..(Len(history') - 1) : history'[k] = history[k + d]
      BY <2>3
    <3>2. CASE i = Len(history')
      BY <2>3, <3>2 DEF e
    <3>3. CASE i # Len(history')
      <4>1. i \in 1..(Len(history') - 1) /\ i + d \in 1..Len(history)
        BY <2>2, <2>3, <3>1, <3>3
      <4>2. history'[i] = history[i + d]
        BY <3>1, <4>1
      <4> QED BY <2>2, <3>3, <4>1, <4>2
    <3> QED BY <3>2, <3>3
  <2>5. StreakBounded'
    BY <2>1, <2>2, RecordKeepsStreaks DEF StreakBounded
  <2>6. history' # <<>> /\ history'[Len(history')].call = Head(batch)
    BY <2>3 DEF e
  <2>7. Len(history') <= HistorySize
    BY <2>3, ThresholdAssumption
  <2> QED BY <2>1, <2>3, <2>4, <2>5, <2>6, <2>7 DEF TypeOK
<1>6. CASE ToolReturns
  <2>1. PICK r \in Results : history' = RecordOutcome(history, Head(batch), r)
    BY <1>6 DEF ToolReturns
  <2>2. pc = "exec" /\ pc' = "tools" /\ batch' = Tail(batch) /\ late' \in 0..2
        /\ UNCHANGED <<outcome, cancel, errors, offered, toolsUsed, nudges, warning, obeys>>
    BY <1>6 DEF ToolReturns, TypeOK
  <2>3. batch # <<>> /\ history # <<>> /\ history \in Seq(Entry)
        /\ Len(history) \in 1..Len(history)
        /\ history[Len(history)].call = Head(batch) /\ history[Len(history)].res = NoResult
    BY <2>2 DEF TypeOK
  <2>4. history' = [history EXCEPT ![Len(history)].res = r]
    BY <2>1, <2>3, OutcomeGoesLast
  <2>5. [history[Len(history)] EXCEPT !.res = r] \in Entry
    <3>1. history[Len(history)] \in Entry
      BY <2>3
    <3> QED BY <2>1, <3>1 DEF Entry
  <2>6. /\ history' \in Seq(Entry) /\ Len(history') = Len(history)
        /\ \A i \in 1..Len(history) : history'[i].call = history[i].call
        /\ \A i \in 1..Len(history) :
             history'[i].res = IF i = Len(history) THEN r ELSE history[i].res
    BY <2>3, <2>4, <2>5 DEF Entry
  <2>7. \A i \in 1..Len(history') : history'[i].res # NoResult
    BY <2>1, <2>2, <2>6, LoopAssumption DEF TypeOK
  <2>8. StreakBounded'
    <3> SUFFICES ASSUME NEW i \in 1..(Len(history) - CriticalAt)
                 PROVE  \E j \in 1..CriticalAt : history'[i + j].call # history'[i].call
      BY <2>6 DEF StreakBounded
    <3>1. PICK j \in 1..CriticalAt : history[i + j].call # history[i].call
      BY DEF StreakBounded
    <3>2. i \in 1..Len(history) /\ i + j \in 1..Len(history)
      BY ThresholdAssumption
    <3> QED BY <2>6, <3>1, <3>2
  <2>9. batch' \in Seq(Calls) /\ Len(batch') <= MaxBatch
    BY <2>2, <2>3, LoopAssumption DEF TypeOK
  <2> QED BY <2>2, <2>6, <2>7, <2>8, <2>9 DEF TypeOK
<1> QED BY <1>1, <1>2, <1>3, <1>4, <1>5, <1>6 DEF Next, Llm, Tools

LEMMA WatchedInit == Init => Watched
<1> SUFFICES ASSUME Init PROVE Watched
  OBVIOUS
<1>1. history \in Seq(Entry) /\ Len(history) = 0 /\ batch \in Seq(Calls) /\ Len(batch) = 0
  BY DEF Init
<1>2. StreakBounded
  BY <1>1, ThresholdAssumption DEF StreakBounded
<1>3. Len(history) <= HistorySize /\ Len(batch) <= MaxBatch /\ 1..Len(history) = {}
  BY <1>1, ThresholdAssumption, LoopAssumption
<1>4. \A i \in 1..Len(history) : history[i].res = NoResult <=> pc = "exec" /\ i = Len(history)
  BY <1>3
<1>5. {cancel, offered, toolsUsed, warning, obeys} \subseteq BOOLEAN
  BY DEF Init
<1>6. /\ pc = "check" /\ outcome = "none" /\ errors = 0 /\ nudges = 0 /\ late = 0
  BY DEF Init
<1>7. TypeOK
  BY <1>1, <1>3, <1>4, <1>5, <1>6 DEF TypeOK
<1> QED BY <1>2, <1>6, <1>7 DEF Watched

\* The window keeps its size, and only the tool that runs waits for a result.
THEOREM TypeCorrect == Spec => []TypeOK
<1>1. Watched => TypeOK
  BY DEF Watched
<1> QED BY <1>1, WatchedInit, WatchedStep, PTL DEF Spec

\* For any window and thresholds in the order of the code, a call that is
\* repeated without a break runs CRITICAL_THRESHOLD times at most.
THEOREM StreaksStop == Spec => []StreakBounded
<1>1. Watched => StreakBounded
  BY DEF Watched
<1> QED BY <1>1, WatchedInit, WatchedStep, PTL DEF Spec
=============================================================================
