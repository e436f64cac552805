---------------------------- MODULE TurnsProofs -----------------------------
(* Theorems about Turns.tla, for any set of messages and any builds.       *)
EXTENDS Turns, FiniteSetTheorems, WellFoundedInduction, TLAPS

Labels == {"new", "clear", "prompt", "leaf", "write", "check", "llm",
           "unregister", "ended"}
Ended == {t \in Turns : pc[t] = "ended"}

\* What every step keeps of the program counters, and the program with its
\* number of lanes.
LEMMA BuildKept == [Next]_vars => build' = build
BY DEF Next, Step, Register, ClearFile, ReadPrompt, ReadFails, LookUpLeaf, Write,
       CheckFlag, LlmCalls, LlmNudged, LlmReplies, LlmFails, Unregister, Cancel,
       Restart, vars

-----------------------------------------------------------------------------
(* Flags.                                                                  *)

\* A turn that runs has been told to stop, or it has its flag in the map, or
\* another turn has taken it out.  With one lane the flag in the map is that of
\* the turn that runs, and so it is the only one.
OneLane ==
  /\ pc \in [Turns -> Labels]
  /\ Running \subseteq cancelled \cup {active} \cup robbed
  /\ build.lanes = 1 => robbed = {} /\ \A t \in Running : active = t

LEMMA OneLaneInit == Init => OneLane
BY DEF Init, OneLane, Running, Labels

\* A turn that runs goes on running or ends, and the others stay where they
\* are: then so does all that OneLane says.
LEMMA RunsOn ==
  ASSUME OneLane, NEW t \in Running, NEW l \in Labels \ {"new"},
         pc' = [pc EXCEPT ![t] = l],
         cancelled' = cancelled, build' = build,
         \/ active' = active /\ robbed' = robbed
         \/ l = "ended" /\ active' = NoTurn /\ robbed' = robbed \cup ({active} \ {t, NoTurn})
  PROVE  OneLane'
<1>1. pc' \in [Turns -> Labels] /\ t \in Turns
  BY DEF OneLane, Running, Labels
<1>2. Running' \subseteq Running /\ (l = "ended" => t \notin Running')
  BY <1>1 DEF OneLane, Running
<1>3. CASE active' = active /\ robbed' = robbed
  BY <1>1, <1>2, <1>3 DEF OneLane
<1>4. CASE l = "ended" /\ active' = NoTurn /\ robbed' = robbed \cup ({active} \ {t, NoTurn})
  <2>1. \A s \in Running : s # NoTurn
    BY TurnsAssumption DEF Running
  <2>2. Running' \subseteq cancelled \cup robbed'
    BY <1>2, <1>4, <2>1 DEF OneLane
  <2>3. build.lanes = 1 => robbed' = {} /\ Running' = {}
    <3>1. build.lanes = 1 => robbed = {} /\ active = t /\ \A s \in Running : active = s
      BY DEF OneLane
    <3> QED BY <1>2, <1>4, <3>1
  <2> QED BY <1>1, <2>2, <2>3 DEF OneLane
<1> QED BY <1>3, <1>4

\* The lane is free when a turn registers.
LEMMA LaneIsFree ==
  ASSUME OneLane, build.lanes = 1, Cardinality(Running) < build.lanes
  PROVE  Running = {}
<1> SUFFICES ASSUME NEW t \in Running PROVE FALSE
  OBVIOUS
<1>1. Running = {t}
  <2>1. \A s \in Running : s = t
    BY DEF OneLane
  <2> QED BY <2>1
<1>2. Cardinality(Running) = 1
  BY <1>1, FS_Singleton
<1> QED BY <1>2

LEMMA OneLaneStep == OneLane /\ [Next]_vars => OneLane'
<1> SUFFICES ASSUME OneLane, [Next]_vars PROVE OneLane'
  OBVIOUS
<1>0. build' = build
  BY BuildKept
<1>1. ASSUME NEW t \in Turns, Register(t) PROVE OneLane'
  <2>1. /\ pc[t] = "new" /\ active' = t /\ robbed' = robbed
        /\ cancelled' = IF active = NoTurn THEN cancelled ELSE cancelled \cup {active}
        /\ \E l \in {"prompt", "clear"} : pc' = [pc EXCEPT ![t] = l]
        /\ Cardinality(Running) < build.lanes
    BY <1>1 DEF Register, Goto
  <2>2. pc' \in [Turns -> Labels] /\ Running' = Running \cup {t}
    BY <2>1 DEF OneLane, Labels, Running
  <2>3. \A s \in Running : s # NoTurn
    BY TurnsAssumption DEF Running
  <2>4. Running' \subseteq cancelled' \cup {active'} \cup robbed'
    BY <2>1, <2>2, <2>3 DEF OneLane
  <2>5. build.lanes = 1 => Running = {}
    BY <2>1, LaneIsFree
  <2> QED BY <1>0, <2>1, <2>2, <2>4, <2>5 DEF OneLane
<1>2. ASSUME NEW t \in Turns, Step(t) PROVE OneLane'
  <2>1. t \in Running
    BY <1>2 DEF Step, ClearFile, ReadPrompt, ReadFails, LookUpLeaf, Write, CheckFlag,
                LlmCalls, LlmNudged, LlmReplies, LlmFails, Unregister, Running
  <2>2. cancelled' = cancelled
    BY <1>2 DEF Step, ClearFile, ReadPrompt, ReadFails, LookUpLeaf, Write, CheckFlag,
                LlmCalls, LlmNudged, LlmReplies, LlmFails, Unregister
  <2>3. CASE Unregister(t)
    <3>1. /\ pc' = [pc EXCEPT ![t] = "ended"] /\ active' = NoTurn
          /\ robbed' = robbed \cup ({active} \ {t, NoTurn})
      BY <2>3 DEF Unregister, Goto
    <3> QED BY <1>0, <2>1, <2>2, <3>1, RunsOn DEF Labels
  <2>4. CASE ~Unregister(t)
    <3>1. /\ active' = active /\ robbed' = robbed
          /\ \E l \in Labels \ {"new"} : pc' = [pc EXCEPT ![t] = l]
      BY <1>2, <2>4
         DEF Step, ClearFile, ReadPrompt, ReadFails, LookUpLeaf, Write, CheckFlag,
             LlmCalls, LlmNudged, LlmReplies, LlmFails, Goto, EndLoop, Labels
    <3> QED BY <1>0, <2>1, <2>2, <3>1, RunsOn
  <2> QED BY <2>3, <2>4
<1>3. CASE Cancel
  BY <1>0, <1>3 DEF Cancel, OneLane, Running
<1>4. CASE Restart
  <2>1. pc' = [t \in Turns |-> IF t \in Running THEN "ended" ELSE pc[t]] /\ robbed' = robbed
    BY <1>4 DEF Restart
  <2>2. Running' = {} /\ pc' \in [Turns -> Labels]
    BY <2>1 DEF OneLane, Running, Labels
  <2> QED BY <1>0, <2>1, <2>2 DEF OneLane
<1>5. CASE UNCHANGED vars
  BY <1>5 DEF vars, OneLane, Running
<1> QED BY <1>1, <1>2, <1>3, <1>4, <1>5 DEF Next

\* However many turns of a chat overlap, and whatever fails or restarts: a turn
\* that runs has been told to stop, or its flag is the one a new message and
\* the cancel button find, unless another turn has removed it; and with one
\* lane none has.
THEOREM RunningCanBeStopped == Spec => []CanBeStopped
<1>1. OneLane => CanBeStopped
  BY DEF OneLane, CanBeStopped
<1> QED BY <1>1, OneLaneInit, OneLaneStep, PTL DEF Spec

-----------------------------------------------------------------------------
(* Types.                                                                  *)

USE BuildsAssumption

\* What a turn has saved and has still to save grows by two with each round,
\* and by the user message and the reply.  The user message is saved alone.
Counted ==
  \A t \in Turns :
    /\ pc[t] \in {"new", "clear", "prompt"} => saved[t] = 0
    /\ pc[t] \in {"check", "llm"} =>
         saved[t] >= 1 /\ saved[t] + Len(todo[t]) <= 2 * rounds[t] + 1
    /\ pc[t] \in {"leaf", "write"} =>
         /\ saved[t] + Len(todo[t]) <= 2 * rounds[t] + 2
         /\ saved[t] = 0 => Len(todo[t]) = 1

LEMMA BuildType == ASSUME build \in Builds PROVE build.rounds \in Nat /\ build.lanes \in Nat
BY DEF Build

LEMMA TypeInit == Init => TypeOK /\ Counted
<1> SUFFICES ASSUME Init PROVE TypeOK /\ Counted
  OBVIOUS
<1>1. build.rounds \in Nat
  BY BuildType DEF Init
<1>2. TypeOK
  BY <1>1 DEF Init, TypeOK
<1> QED BY <1>2 DEF Init, Counted

\* One more line to save.
LEMMA Longer ==
  ASSUME NEW d \in Seq(Kinds), NEW k \in Kinds
  PROVE  Append(d, k) \in Seq(Kinds) /\ Len(Append(d, k)) = Len(d) + 1 /\ Append(d, k) # <<>>
<1>1. Append(d, k) \in Seq(Kinds) /\ Len(Append(d, k)) = Len(d) + 1 /\ Len(d) \in Nat
  OBVIOUS
<1>2. Len(Append(d, k)) # 0
  BY <1>1
<1> QED BY <1>1, <1>2

\* The last line of a file, and its id.
LEMMA LeafType == ASSUME TypeOK PROVE LeafOf(file) \in LineId \cup {NoLine}
<1>1. CASE file = <<>>
  BY <1>1 DEF LeafOf
<1>2. CASE file # <<>>
  <2>1. file \in Seq(Line) /\ Len(file) \in 1..Len(file)
    BY <1>2 DEF TypeOK
  <2>2. file[Len(file)] \in Line
    BY <2>1
  <2> QED BY <1>2, <2>2 DEF LeafOf, Last, Line
<1> QED BY <1>1, <1>2

\* A line that a turn writes.
LEMMA WriteType ==
  ASSUME TypeOK, Counted, NEW t \in Turns, pc[t] = "write"
  PROVE  /\ [id |-> <<t, saved[t] + 1>>, parent |-> leaf[t], kind |-> Head(todo[t])] \in Line
         /\ Tail(todo[t]) \in Seq(Kinds) /\ Len(Tail(todo[t])) = Len(todo[t]) - 1
         /\ saved[t] + 1 \in 1..(2 * build.rounds + 2)
<1>1. todo[t] \in Seq(Kinds) /\ todo[t] # <<>> /\ saved[t] \in Nat /\ rounds[t] \in 0..build.rounds
  BY BuildType DEF TypeOK
<1>2. Head(todo[t]) \in Kinds /\ Tail(todo[t]) \in Seq(Kinds)
      /\ Len(Tail(todo[t])) = Len(todo[t]) - 1 /\ Len(todo[t]) \in Nat \ {0}
  BY <1>1
<1>3. saved[t] + 1 \in 1..(2 * build.rounds + 2)
  <2>1. saved[t] + Len(todo[t]) <= 2 * rounds[t] + 2
    BY DEF Counted
  <2> QED BY <1>1, <1>2, <2>1, BuildType DEF TypeOK
<1>4. leaf[t] \in LineId \cup {NoLine}
  BY DEF TypeOK
<1> QED BY <1>2, <1>3, <1>4 DEF Line, LineId

\* What a step of one turn has to keep.
Others ==
  /\ active \in Turns \cup {NoTurn} /\ cancelled \subseteq Turns
  /\ leaf \in [Turns -> LineId \cup {NoLine}]
  /\ outcome \in [Turns -> {"none", "done", "error"}]
  /\ file \in Seq(Line) /\ robbed \subseteq Turns

\* Turn t goes to l, with d to save, n lines saved and r rounds.
Moved(t, l, d, n, r) ==
  /\ l \in Labels /\ d \in Seq(Kinds)
  /\ n \in 0..(2 * build.rounds + 2) /\ r \in 0..build.rounds
  /\ l \in {"new", "clear", "prompt"} => n = 0
  /\ l \in {"check", "llm"} => n >= 1 /\ n + Len(d) <= 2 * r + 1
  /\ l \in {"leaf", "write"} =>
       d # <<>> /\ n + Len(d) <= 2 * r + 2 /\ (n = 0 => Len(d) = 1)
  /\ pc' = [pc EXCEPT ![t] = l] /\ todo' = [todo EXCEPT ![t] = d]
  /\ saved' = [saved EXCEPT ![t] = n] /\ rounds' = [rounds EXCEPT ![t] = r]

LEMMA OneTurn ==
  ASSUME TypeOK, Counted, Others', build' = build,
         NEW t \in Turns, NEW l, NEW d, NEW n, NEW r, Moved(t, l, d, n, r)
  PROVE  (TypeOK /\ Counted)'
<1>1. /\ pc' \in [Turns -> Labels] /\ todo' \in [Turns -> Seq(Kinds)]
      /\ saved' \in [Turns -> 0..(2 * build.rounds + 2)]
      /\ rounds' \in [Turns -> 0..build.rounds]
  BY DEF TypeOK, Labels, Moved
<1>2. \A s \in Turns \ {t} :
        pc'[s] = pc[s] /\ todo'[s] = todo[s] /\ saved'[s] = saved[s] /\ rounds'[s] = rounds[s]
  BY DEF TypeOK, Moved
<1>3. pc'[t] = l /\ todo'[t] = d /\ saved'[t] = n /\ rounds'[t] = r
  BY DEF TypeOK, Moved
<1>4. Counted'
  BY <1>2, <1>3 DEF Counted, Moved
<1>5. \A s \in Turns : pc'[s] \in {"leaf", "write"} => todo'[s] # <<>>
  BY <1>2, <1>3 DEF TypeOK, Moved
<1>6. LineId' = LineId /\ Line' = Line
  BY DEF LineId, Line
<1> QED BY <1>1, <1>4, <1>5, <1>6 DEF TypeOK, Others, Labels

\* A turn that only goes to another label.
LEMMA Goes ==
  ASSUME TypeOK, Counted, Others', build' = build,
         NEW t \in Turns, NEW l \in Labels,
         pc' = [pc EXCEPT ![t] = l], UNCHANGED <<todo, saved, rounds>>,
         \/ l \in {"unregister", "ended"}
         \/ l = "write" /\ pc[t] = "leaf"
         \/ l \in {"clear", "prompt"} /\ pc[t] = "new"
  PROVE  (TypeOK /\ Counted)'
<1>1. /\ todo[t] \in Seq(Kinds) /\ saved[t] \in 0..(2 * build.rounds + 2)
      /\ rounds[t] \in 0..build.rounds
      /\ todo' = [todo EXCEPT ![t] = todo[t]] /\ saved' = [saved EXCEPT ![t] = saved[t]]
      /\ rounds' = [rounds EXCEPT ![t] = rounds[t]]
  BY DEF TypeOK
<1>2. l \in {"new", "clear", "prompt"} => saved[t] = 0
  BY DEF Counted
<1>3. l \in {"leaf", "write"} =>
        /\ todo[t] # <<>> /\ saved[t] + Len(todo[t]) <= 2 * rounds[t] + 2
        /\ saved[t] = 0 => Len(todo[t]) = 1
  BY DEF TypeOK, Counted
<1>4. l \notin {"check", "llm"}
  OBVIOUS
<1>5. Moved(t, l, todo[t], saved[t], rounds[t])
  BY <1>1, <1>2, <1>3, <1>4 DEF Moved
<1> QED BY <1>5, OneTurn

LEMMA TypeStep == TypeOK /\ Counted /\ [Next]_vars => (TypeOK /\ Counted)'
<1> SUFFICES ASSUME TypeOK, Counted, [Next]_vars PROVE (TypeOK /\ Counted)'
  OBVIOUS
<1>0. build' = build /\ build \in Builds /\ build.rounds \in Nat
      /\ LineId' = LineId /\ Line' = Line
  BY BuildKept, BuildType DEF TypeOK, LineId, Line
<1> USE <1>0
<1>1. ASSUME NEW t \in Turns, Register(t) PROVE (TypeOK /\ Counted)'
  <2>1. Others'
    BY <1>1 DEF TypeOK, Others, Register, Started, sessionVars
  <2>2. \E l \in {"clear", "prompt"} : pc' = [pc EXCEPT ![t] = l]
    BY <1>1 DEF Register, Goto
  <2> QED BY <1>1, <2>1, <2>2, Goes DEF Register, sessionVars, Labels
<1>2. ASSUME NEW t \in Turns, ClearFile(t) PROVE (TypeOK /\ Counted)'
  <2>1. Others'
    BY <1>2 DEF TypeOK, Others, ClearFile
  <2> QED BY <1>2, <2>1, Goes DEF ClearFile, Goto, Labels
<1>3. ASSUME NEW t \in Turns, ReadPrompt(t) PROVE (TypeOK /\ Counted)'
  <2>1. Others'
    BY <1>3 DEF TypeOK, Others, ReadPrompt
  <2>2. /\ saved[t] = 0 /\ saved' = [saved EXCEPT ![t] = saved[t]]
        /\ rounds[t] \in 0..build.rounds /\ rounds' = [rounds EXCEPT ![t] = rounds[t]]
    BY <1>3 DEF TypeOK, Counted, ReadPrompt
  <2>3. <<"user">> \in Seq(Kinds) /\ Len(<<"user">>) = 1 /\ <<"user">> # <<>>
    BY DEF Kinds
  <2>4. saved[t] + Len(<<"user">>) <= 2 * rounds[t] + 2
    BY <2>2, <2>3
  <2>5. pc' = [pc EXCEPT ![t] = "leaf"] /\ todo' = [todo EXCEPT ![t] = <<"user">>]
    BY <1>3 DEF ReadPrompt, Goto
  <2>6. saved[t] \in 0..(2 * build.rounds + 2)
    BY DEF TypeOK
  <2>7. Moved(t, "leaf", <<"user">>, saved[t], rounds[t])
    BY <2>2, <2>3, <2>4, <2>5, <2>6 DEF Moved, Labels
  <2> QED BY <2>1, <2>7, OneTurn
<1>4. ASSUME NEW t \in Turns, ReadFails(t) PROVE (TypeOK /\ Counted)'
  <2>1. Others'
    BY <1>4 DEF TypeOK, Others, ReadFails, sessionVars
  <2> QED BY <1>4, <2>1, Goes DEF ReadFails, Goto, sessionVars, Labels
<1>5. ASSUME NEW t \in Turns, LookUpLeaf(t) PROVE (TypeOK /\ Counted)'
  <2>1. leaf' \in [Turns -> LineId \cup {NoLine}]
    BY <1>5, LeafType DEF TypeOK, LookUpLeaf
  <2>2. Others'
    BY <1>5, <2>1 DEF TypeOK, Others, LookUpLeaf
  <2> QED BY <1>5, <2>2, Goes DEF LookUpLeaf, Goto, Labels
<1>6. ASSUME NEW t \in Turns, Write(t) PROVE (TypeOK /\ Counted)'
  <2> DEFINE line == [id |-> <<t, saved[t] + 1>>, parent |-> leaf[t], kind |-> Head(todo[t])]
             l == IF saved[t] = 0 THEN "check"
                  ELSE IF Len(todo[t]) = 1 THEN "unregister" ELSE "leaf"
  <2>1. /\ saved' = [saved EXCEPT ![t] = @ + 1] /\ todo' = [todo EXCEPT ![t] = Tail(@)]
        /\ pc[t] = "write" /\ pc' = [pc EXCEPT ![t] = l]
        /\ file' \in {file, Append(file, line)}
        /\ UNCHANGED <<active, cancelled, leaf, rounds, outcome, robbed>>
    BY <1>6 DEF Write, Goto
  <2>2. /\ line \in Line /\ saved[t] + 1 \in 1..(2 * build.rounds + 2)
        /\ Tail(todo[t]) \in Seq(Kinds) /\ Len(Tail(todo[t])) = Len(todo[t]) - 1
    BY <2>1, WriteType
  <2>3. Others'
    <3>1. file \in Seq(Line)
      BY DEF TypeOK
    <3> HIDE DEF line
    <3>2. Append(file, line) \in Seq(Line)
      BY <2>2, <3>1
    <3>3. file' \in Seq(Line)
      BY <2>1, <3>1, <3>2
    <3> QED BY <2>1, <3>3 DEF TypeOK, Others
  <2>4. /\ saved[t] \in Nat /\ rounds[t] \in 0..build.rounds
        /\ saved[t] + Len(todo[t]) <= 2 * rounds[t] + 2
        /\ saved[t] = 0 => Len(todo[t]) = 1
        /\ Len(todo[t]) \in Nat /\ Len(todo[t]) # 0
        /\ rounds' = [rounds EXCEPT ![t] = rounds[t]]
    BY <2>1 DEF TypeOK, Counted
  <2>5. /\ l \in Labels \ {"new", "clear", "prompt", "llm", "write"}
        /\ l = "check" => saved[t] + 1 + Len(Tail(todo[t])) <= 2 * rounds[t] + 1
        /\ l = "leaf" => Tail(todo[t]) # <<>>
    <3>1. l = "check" => Len(Tail(todo[t])) = 0 /\ saved[t] = 0
      BY <2>2, <2>4
    <3>2. l = "leaf" => Len(Tail(todo[t])) # 0
      BY <2>2, <2>4
    <3>3. l = "leaf" => Tail(todo[t]) # <<>>
      BY <3>2
    <3>4. l = "check" => saved[t] + 1 + Len(Tail(todo[t])) <= 2 * rounds[t] + 1
      <4>1. rounds[t] \in Nat
        BY DEF TypeOK
      <4>2. 0 + 1 + 0 <= 2 * rounds[t] + 1
        BY <4>1
      <4> QED BY <3>1, <4>2
    <3>5. l \in {"check", "unregister", "leaf"}
      OBVIOUS
    <3> QED BY <3>3, <3>4, <3>5 DEF Labels
  <2> HIDE DEF l, line
  <2>6. Moved(t, l, Tail(todo[t]), saved[t] + 1, rounds[t])
    <3>1. saved[t] + 1 >= 1 /\ saved[t] + 1 + Len(Tail(todo[t])) <= 2 * rounds[t] + 2
      BY <2>2, <2>4
    <3>2. saved[t] + 1 # 0
      BY <2>2
    <3>3. l \in Labels /\ l \notin {"new", "clear", "prompt", "llm", "write"}
      BY <2>5
    <3>4. saved' = [saved EXCEPT ![t] = saved[t] + 1] /\ todo' = [todo EXCEPT ![t] = Tail(todo[t])]
      BY <2>1
    <3>5. saved[t] + 1 \in 0..(2 * build.rounds + 2)
      BY <2>2
    <3> QED BY <2>1, <2>2, <2>4, <2>5, <3>1, <3>2, <3>3, <3>4, <3>5 DEF Moved
  <2> QED BY <2>3, <2>6, OneTurn
<1>7. ASSUME NEW t \in Turns, CheckFlag(t) PROVE (TypeOK /\ Counted)'
  <2> DEFINE l == IF t \in cancelled
                  THEN IF todo[t] = <<>> THEN "unregister" ELSE "leaf" ELSE "llm"
  <2>1. /\ pc[t] = "check" /\ pc' = [pc EXCEPT ![t] = l]
        /\ todo' = todo
        /\ UNCHANGED <<active, cancelled, saved, leaf, rounds, outcome, file, robbed>>
    BY <1>7 DEF CheckFlag, EndLoop, Goto
  <2>2. Others'
    BY <2>1 DEF TypeOK, Others
  <2>3. /\ saved[t] \in 0..(2 * build.rounds + 2) /\ rounds[t] \in 0..build.rounds
        /\ todo[t] \in Seq(Kinds)
        /\ saved[t] >= 1 /\ saved[t] + Len(todo[t]) <= 2 * rounds[t] + 1
        /\ todo' = [todo EXCEPT ![t] = todo[t]] /\ saved' = [saved EXCEPT ![t] = saved[t]]
        /\ rounds' = [rounds EXCEPT ![t] = rounds[t]]
    BY <2>1 DEF TypeOK, Counted
  <2>4. l \in Labels \ {"new", "clear", "prompt", "check", "write"} /\ (l = "leaf" => todo[t] # <<>>)
    BY DEF Labels
  <2> HIDE DEF l
  <2>5. Moved(t, l, todo[t], saved[t], rounds[t])
    <3>1. l \in {"leaf", "write", "check", "llm"} =>
            saved[t] >= 1 /\ saved[t] + Len(todo[t]) <= 2 * rounds[t] + 1
      BY <2>3
    <3>2. l \in Labels /\ l \notin {"new", "clear", "prompt"}
      BY <2>4
    <3>3. l \in {"leaf", "write"} => todo[t] # <<>>
      BY <2>4
    <3>4. saved[t] # 0
      BY <2>3
    <3>5. l \in {"leaf", "write"} => saved[t] + Len(todo[t]) <= 2 * rounds[t] + 2
      BY <3>1, <2>3
    <3>6. pc' = [pc EXCEPT ![t] = l]
      BY <2>1
    <3> QED BY <2>3, <3>1, <3>2, <3>3, <3>4, <3>5, <3>6 DEF Moved
  <2> QED BY <2>2, <2>5, OneTurn
<1>8. ASSUME NEW t \in Turns, NEW more \in {<<"call", "result">>, <<"reply">>},
             pc[t] = "llm", rounds[t] < build.rounds,
             rounds' = [rounds EXCEPT ![t] = @ + 1], todo' = [todo EXCEPT ![t] = @ \o more],
             pc' = [pc EXCEPT ![t] = "check"],
             UNCHANGED <<active, cancelled, saved, leaf, outcome, file, robbed>>
      PROVE  (TypeOK /\ Counted)'
  <2>1. /\ saved[t] \in 0..(2 * build.rounds + 2) /\ rounds[t] + 1 \in 0..build.rounds
        /\ todo[t] \in Seq(Kinds)
        /\ saved[t] >= 1 /\ saved[t] + Len(todo[t]) <= 2 * rounds[t] + 1
        /\ saved' = [saved EXCEPT ![t] = saved[t]]
    BY <1>8 DEF TypeOK, Counted
  <2>2. more \in Seq(Kinds) /\ Len(more) \in 1..2
    <3>1. CASE more = <<"call", "result">>
      BY <3>1 DEF Kinds
    <3>2. CASE more = <<"reply">>
      BY <3>2 DEF Kinds
    <3> QED BY <3>1, <3>2
  <2>3. todo[t] \o more \in Seq(Kinds) /\ Len(todo[t] \o more) = Len(todo[t]) + Len(more)
    BY <2>1, <2>2
  <2>4. /\ saved[t] + Len(todo[t] \o more) <= 2 * (rounds[t] + 1) + 1
        /\ todo' = [todo EXCEPT ![t] = todo[t] \o more]
        /\ rounds' = [rounds EXCEPT ![t] = rounds[t] + 1]
    <3>1. rounds[t] \in Nat /\ saved[t] \in Nat /\ Len(todo[t]) \in Nat
      BY <2>1 DEF TypeOK
    <3>2. saved[t] + Len(todo[t] \o more) <= 2 * (rounds[t] + 1) + 1
      <4>1. \A n, a, r \in Nat, b \in 1..2 : n + a <= 2 * r + 1 => n + (a + b) <= 2 * (r + 1) + 1
        OBVIOUS
      <4> QED BY <2>1, <2>2, <2>3, <3>1, <4>1
    <3> QED BY <1>8, <3>2
  <2>5. Others'
    BY <1>8 DEF TypeOK, Others
  <2>6. Moved(t, "check", todo[t] \o more, saved[t], rounds[t] + 1)
    BY <1>8, <2>1, <2>3, <2>4 DEF Moved, Labels
  <2> QED BY <2>5, <2>6, OneTurn
<1>9. ASSUME NEW t \in Turns, LlmCalls(t) \/ LlmNudged(t) PROVE (TypeOK /\ Counted)'
  <2>1. \A more \in Seq(Kinds) : Append(more, "reply") = more \o <<"reply">>
    OBVIOUS
  <2>2. todo[t] \in Seq(Kinds)
    BY DEF TypeOK
  <2> QED BY <1>8, <1>9, <2>1, <2>2 DEF LlmCalls, LlmNudged, Goto
<1>10. ASSUME NEW t \in Turns, LlmReplies(t) PROVE (TypeOK /\ Counted)'
  <2> DEFINE more == Append(todo[t], "reply")
  <2>1. Others'
    BY <1>10 DEF TypeOK, Others, LlmReplies
  <2>2. /\ todo[t] \in Seq(Kinds) /\ saved[t] \in 0..(2 * build.rounds + 2)
        /\ rounds[t] \in 0..build.rounds
        /\ saved[t] >= 1 /\ saved[t] + Len(todo[t]) <= 2 * rounds[t] + 1
        /\ saved' = [saved EXCEPT ![t] = saved[t]] /\ rounds' = [rounds EXCEPT ![t] = rounds[t]]
        /\ todo' = [todo EXCEPT ![t] = more] /\ todo'[t] = more
    BY <1>10 DEF TypeOK, Counted, LlmReplies
  <2>3. more \in Seq(Kinds) /\ Len(more) = Len(todo[t]) + 1 /\ more # <<>>
    <3>1. "reply" \in Kinds
      BY DEF Kinds
    <3>2. todo[t] \in Seq(Kinds)
      BY <2>2
    <3> QED BY <3>1, <3>2, Longer
  <2>4. pc' = [pc EXCEPT ![t] = "leaf"]
    BY <1>10, <2>2, <2>3 DEF LlmReplies, EndLoop, Goto
  <2>5. saved[t] # 0 /\ saved[t] + Len(more) <= 2 * rounds[t] + 2
    BY <2>2, <2>3
  <2> HIDE DEF more
  <2>6. Moved(t, "leaf", more, saved[t], rounds[t])
    BY <2>2, <2>3, <2>4, <2>5 DEF Moved, Labels
  <2> QED BY <1>0, <2>1, <2>6, OneTurn
<1>11. ASSUME NEW t \in Turns, LlmFails(t) PROVE (TypeOK /\ Counted)'
  <2>1. Others'
    BY <1>11 DEF TypeOK, Others, LlmFails
  <2>2. /\ saved[t] \in 0..(2 * build.rounds + 2) /\ rounds[t] \in 0..build.rounds
        /\ saved' = [saved EXCEPT ![t] = saved[t]] /\ rounds' = [rounds EXCEPT ![t] = rounds[t]]
    BY <1>11 DEF TypeOK, LlmFails
  <2>3. pc' = [pc EXCEPT ![t] = "unregister"] /\ todo' = [todo EXCEPT ![t] = <<>>]
    BY <1>11 DEF LlmFails, Goto
  <2>4. <<>> \in Seq(Kinds)
    OBVIOUS
  <2>5. Moved(t, "unregister", <<>>, saved[t], rounds[t])
    BY <2>2, <2>3, <2>4 DEF Moved, Labels
  <2> QED BY <2>1, <2>5, OneTurn
<1>12. ASSUME NEW t \in Turns, Unregister(t) PROVE (TypeOK /\ Counted)'
  <2>1. Others'
    BY <1>12 DEF TypeOK, Others, Unregister, sessionVars
  <2> QED BY <1>12, <2>1, Goes DEF Unregister, Goto, sessionVars, Labels
<1>13. CASE Cancel
  <2>1. Counted'
    BY <1>13 DEF Counted, Cancel, sessionVars
  <2>2. TypeOK'
    BY <1>13 DEF TypeOK, Cancel, sessionVars
  <2> QED BY <2>1, <2>2
<1>14. CASE Restart
  <2>1. /\ pc' = [t \in Turns |-> IF t \in Running THEN "ended" ELSE pc[t]]
        /\ todo' = [t \in Turns |-> <<>>] /\ active' = NoTurn
        /\ UNCHANGED <<cancelled, saved, leaf, rounds, outcome, file, robbed>>
    BY <1>14 DEF Restart
  <2>2. todo' \in [Turns -> Seq(Kinds)]
    BY <2>1
  <2>3. pc' \in [Turns -> Labels]
    BY <2>1 DEF TypeOK, Labels
  <2>4. \A t \in Turns : pc'[t] \in {"new", "ended"}
    BY <2>1 DEF TypeOK, Running
  <2>5. \A t \in Turns : pc'[t] = "new" => pc[t] = "new"
    BY <2>1
  <2>6. TypeOK'
    BY <2>1, <2>2, <2>3, <2>4 DEF TypeOK, Labels
  <2>7. Counted'
    BY <2>1, <2>4, <2>5 DEF Counted
  <2> QED BY <2>6, <2>7
<1>15. CASE UNCHANGED vars
  BY <1>15 DEF TypeOK, Counted, vars, sessionVars
<1> QED
  BY <1>1, <1>2, <1>3, <1>4, <1>5, <1>6, <1>7, <1>8, <1>9, <1>10, <1>11, <1>12, <1>13,
     <1>14, <1>15 DEF Next, Step

\* The variables keep their types, and no turn saves more lines than its
\* rounds account for.
THEOREM TypeCorrect == Spec => []TypeOK
BY TypeInit, TypeStep, PTL DEF Spec

(***************************************************************************)
(* A file whose lines are each the child of the one before is read whole.  *)
(***************************************************************************)
\* Induction over a set of naturals.
LEMMA NatSetInduction ==
  ASSUME NEW S, 0 \in S, \A n \in Nat : n \in S => n + 1 \in S
  PROVE  Nat \subseteq S
<1> SUFFICES ASSUME Nat \ S # {} PROVE FALSE
  OBVIOUS
<1> DEFINE R == OpToRel(<, Nat)
           T == Nat \ S
<1>1. IsWellFoundedOn(R, Nat)
  BY NatLessThanWellFounded
<1>2. \A x, y \in Nat : x < y => <<x, y>> \in R
  BY DEF OpToRel
<1> HIDE DEF R
<1>3. T \subseteq Nat /\ T # {}
  OBVIOUS
<1>4. PICK m \in T : \A n \in T : <<n, m>> \notin R
  BY <1>1, <1>3, WFMin
<1>5. m \in Nat /\ m # 0 /\ m - 1 \in Nat /\ m - 1 < m /\ (m - 1) + 1 = m
  OBVIOUS
<1>6. m - 1 \in S
  BY <1>2, <1>4, <1>5
<1> QED BY <1>4, <1>5, <1>6

\* A file in which every line has the line before it as its parent.
IsChain(f) ==
  /\ \A i \in 1..Len(f) : f[i].parent = IF i = 1 THEN NoLine ELSE f[i - 1].id
  /\ \A i, j \in 1..Len(f) : f[i].id = f[j].id => i = j

\* The walk from the leaf of such a file meets every line.
LEMMA BranchOfChain ==
  ASSUME NEW f \in Seq(Line), IsChain(f)
  PROVE  Branch(f) = f
<1> DEFINE N == Len(f)
           at == [id \in {f[i].id : i \in 1..Len(f)} |-> CHOOSE i \in 1..Len(f) : f[i].id = id]
           Up(w, i) == IF i = 0 THEN <<>>
                       ELSE IF f[i].parent \in DOMAIN at /\ at[f[i].parent] < i
                            THEN Append(w[at[f[i].parent]], f[i])
                            ELSE <<f[i]>>
           IsWalk(w) == w = [i \in 0..Len(f) |-> Up(w, i)]
           prefixes == [i \in 0..Len(f) |-> SubSeq(f, 1, i)]
<1>1. N \in Nat /\ N = Len(f)
  OBVIOUS
<1>2. \A i \in 1..N : f[i].id \in DOMAIN at /\ at[f[i].id] = i
  BY DEF IsChain
<1>3. \A i \in 1..N : i > 1 => f[i].parent \in DOMAIN at /\ at[f[i].parent] = i - 1
  <2> SUFFICES ASSUME NEW i \in 1..N, i > 1
               PROVE  f[i].parent \in DOMAIN at /\ at[f[i].parent] = i - 1
    OBVIOUS
  <2>1. i - 1 \in 1..N /\ f[i].parent = f[i - 1].id
    BY <1>1 DEF IsChain
  <2> QED BY <1>2, <2>1
<1>4. \A id \in DOMAIN at : at[id] \in 1..N
  OBVIOUS
<1> HIDE DEF at, N
<1>5. \A w : Up(w, 0) = <<>>
  OBVIOUS
<1>6. N > 0 => \A w : Up(w, 1) = <<f[1]>>
  BY <1>1, <1>4
<1>7. \A i \in 1..N : i > 1 => \A w : Up(w, i) = Append(w[i - 1], f[i])
  BY <1>1, <1>3
<1>8. \A i \in 1..N : SubSeq(f, 1, i) = Append(SubSeq(f, 1, i - 1), f[i])
  BY <1>1
<1>9. SubSeq(f, 1, 0) = <<>> /\ SubSeq(f, 1, N) = f
  BY <1>1
<1>10. N > 0 => SubSeq(f, 1, 1) = <<f[1]>>
  <2>1. N > 0 => SubSeq(f, 1, 1) = Append(SubSeq(f, 1, 0), f[1])
    BY <1>1, <1>8
  <2>2. Append(<<>>, f[1]) = <<f[1]>>
    OBVIOUS
  <2> QED BY <1>9, <2>1, <2>2
<1> HIDE DEF Up
<1>11. IsWalk(prefixes)
  <2>1. \A i \in 0..N : Up(prefixes, i) = SubSeq(f, 1, i)
    <3> SUFFICES ASSUME NEW i \in 0..N PROVE Up(prefixes, i) = SubSeq(f, 1, i)
      OBVIOUS
    <3>1. CASE i = 0
      BY <3>1, <1>5, <1>9
    <3>2. CASE i = 1
      BY <3>2, <1>1, <1>6, <1>10
    <3>3. CASE i > 1
      <4>1. i \in 1..N /\ i - 1 \in 0..Len(f)
        BY <1>1, <3>3
      <4>2. prefixes[i - 1] = SubSeq(f, 1, i - 1)
        BY <4>1
      <4> QED BY <1>7, <1>8, <3>3, <4>1, <4>2
    <3> QED BY <1>1, <3>1, <3>2, <3>3
  <2> QED BY <1>1, <2>1
<1>12. ASSUME NEW w, IsWalk(w) PROVE w[N] = f
  <2> DEFINE S == {n \in Nat : n <= N => w[n] = SubSeq(f, 1, n)}
  <2>1. \A i \in 0..N : w[i] = Up(w, i)
    BY <1>1, <1>12
  <2> HIDE DEF IsWalk
  <2>2. 0 \in S
    <3>1. w[0] = Up(w, 0)
      BY <1>1, <2>1
    <3>2. w[0] = <<>>
      BY <1>5, <3>1
    <3> QED BY <1>9, <3>2
  <2>3. ASSUME NEW n \in Nat, n \in S PROVE n + 1 \in S
    <3> SUFFICES ASSUME n + 1 <= N PROVE w[n + 1] = SubSeq(f, 1, n + 1)
      OBVIOUS
    <3>1. n + 1 \in 1..N /\ n + 1 \in 0..N /\ (n + 1) - 1 = n /\ n <= N
      BY <1>1
    <3>2. w[n] = SubSeq(f, 1, n)
      BY <2>3, <3>1
    <3>3. w[n + 1] = Up(w, n + 1)
      BY <2>1, <3>1
    <3>4. CASE n = 0
      BY <1>1, <1>6, <1>10, <3>1, <3>3, <3>4
    <3>5. CASE n # 0
      <4>1. n + 1 > 1
        BY <3>5
      <4> QED BY <1>7, <1>8, <3>1, <3>2, <3>3, <4>1
    <3> QED BY <3>4, <3>5
  <2> HIDE DEF S
  <2>4. N \in S
    BY <1>1, <2>2, <2>3, NatSetInduction
  <2> QED BY <1>1, <1>9, <2>4 DEF S
<1>13. \E w : IsWalk(w)
  BY <1>11
<1> HIDE DEF prefixes, IsWalk
<1>14. IsWalk(CHOOSE w : IsWalk(w))
  BY <1>13
<1>15. Branch(f) = (CHOOSE w : IsWalk(w))[N]
  BY DEF Branch, IsWalk, Up, at, N
<1> QED BY <1>12, <1>14, <1>15

\* One more line, with the leaf as its parent.
LEMMA ChainGrows ==
  ASSUME NEW f \in Seq(Line), IsChain(f), NEW line \in Line, line.parent = LeafOf(f),
         \A i \in 1..Len(f) : f[i].id # line.id
  PROVE  IsChain(Append(f, line))
<1> DEFINE g == Append(f, line)
           N == Len(f)
<1>1. /\ N \in Nat /\ Len(g) = N + 1
      /\ \A i \in 1..N : g[i] = f[i]
      /\ g[N + 1] = line
  OBVIOUS
<1>2. N = 0 => line.parent = NoLine
  BY DEF LeafOf
<1>3. N > 0 => line.parent = f[N].id
  BY DEF LeafOf, Last
<1>4. \A i \in 1..N : f[i].id # line.id
  OBVIOUS
<1>5. IsChain(f) => /\ \A i \in 1..N : f[i].parent = IF i = 1 THEN NoLine ELSE f[i - 1].id
                    /\ \A i, j \in 1..N : f[i].id = f[j].id => i = j
  BY DEF IsChain
<1> HIDE DEF g, N
<1>6. \A i \in 1..(N + 1) : g[i].parent = IF i = 1 THEN NoLine ELSE g[i - 1].id
  <2> SUFFICES ASSUME NEW i \in 1..(N + 1)
               PROVE  g[i].parent = IF i = 1 THEN NoLine ELSE g[i - 1].id
    OBVIOUS
  <2>1. CASE i \in 1..N
    <3>1. i # 1 => i - 1 \in 1..N
      BY <1>1, <2>1
    <3> QED BY <1>1, <1>5, <2>1, <3>1
  <2>2. CASE i = N + 1
    <3>1. CASE N = 0
      BY <1>1, <1>2, <2>2, <3>1
    <3>2. CASE N # 0
      <4>1. i - 1 = N /\ N \in 1..N /\ N > 0 /\ i # 1
        BY <1>1, <2>2, <3>2
      <4> QED BY <1>1, <1>3, <2>2, <4>1
    <3> QED BY <3>1, <3>2
  <2> QED BY <1>1, <2>1, <2>2
<1>7. \A i, j \in 1..(N + 1) : g[i].id = g[j].id => i = j
  <2> SUFFICES ASSUME NEW i \in 1..(N + 1), NEW j \in 1..(N + 1), g[i].id = g[j].id
               PROVE  i = j
    OBVIOUS
  <2>1. (i \in 1..N \/ i = N + 1) /\ (j \in 1..N \/ j = N + 1)
    BY <1>1
  <2> QED BY <1>1, <1>4, <1>5, <2>1
<1> QED BY <1>1, <1>6, <1>7 DEF IsChain, g

(***************************************************************************)
(* With one lane and nothing failing, the file is such a chain.            *)
(***************************************************************************)
\* With one lane and nothing failing, the file is a chain whose ids the turns
\* have counted, and the leaf a turn has looked up is still the leaf.
Chained ==
  Orderly =>
    /\ IsChain(file)
    /\ \A i \in 1..Len(file) : file[i].id[2] <= saved[file[i].id[1]]
    /\ \A t \in Turns : pc[t] = "write" => leaf[t] = LeafOf(file)

LEMMA OrderlyKept ==
  ASSUME [Next]_vars, Orderly' PROVE Orderly /\ build.lanes = 1 /\ ~Restart
                                     /\ (\A t \in Turns : ~ReadFails(t))
BY BuildKept DEF Orderly, Restart, ReadFails

\* With one lane, a turn that takes a step is alone.
LEMMA Alone ==
  ASSUME OneLane, build.lanes = 1, NEW t \in Turns, Step(t)
  PROVE  t \in Running /\ \A s \in Running : s = t
<1>1. t \in Running
  BY DEF Step, ClearFile, ReadPrompt, ReadFails, LookUpLeaf, Write, CheckFlag,
         LlmCalls, LlmNudged, LlmReplies, LlmFails, Unregister, Running
<1> QED BY <1>1 DEF OneLane

\* A step that leaves file and leaves alone, and starts no write.
LEMMA ChainedStays ==
  ASSUME Chained, Orderly, UNCHANGED <<file, leaf, saved>>,
         \A s \in Turns : pc'[s] = "write" => pc[s] = "write"
  PROVE  Chained'
<1> QED BY DEF Chained, LeafOf, IsChain

LEMMA ChainedStep == TypeOK /\ Counted /\ OneLane /\ Chained /\ [Next]_vars => Chained'
<1> SUFFICES ASSUME TypeOK, Counted, OneLane, Chained, [Next]_vars, Orderly'
             PROVE  Chained'
  BY DEF Chained
<1>0. Orderly /\ build.lanes = 1 /\ ~Restart /\ (\A t \in Turns : ~ReadFails(t))
  BY OrderlyKept
<1>a. pc \in [Turns -> Labels]
  BY DEF OneLane
<1>b. file \in Seq(Line)
  BY DEF TypeOK
<1>1. ASSUME NEW t \in Turns, ClearFile(t) PROVE Chained'
  <2>1. \A s \in Running : s = t
    BY <1>0, <1>1, Alone DEF Step
  <2>2. \A s \in Turns : pc'[s] # "write"
    BY <1>1, <1>a, <2>1 DEF ClearFile, Goto, Running
  <2>3. file' = <<>> /\ Len(file') = 0
    BY <1>1 DEF ClearFile
  <2> QED BY <2>2, <2>3 DEF Chained, IsChain
<1>2. ASSUME NEW t \in Turns, LookUpLeaf(t) PROVE Chained'
  <2>1. \A s \in Running : s = t
    BY <1>0, <1>2, Alone DEF Step
  <2>2. \A s \in Turns : pc'[s] = "write" => s = t
    BY <1>2, <1>a, <2>1 DEF LookUpLeaf, Goto, Running
  <2>3. leaf' = [leaf EXCEPT ![t] = LeafOf(file)] /\ file' = file /\ saved' = saved
    BY <1>0, <1>2 DEF LookUpLeaf, Orderly
  <2>4. leaf'[t] = LeafOf(file')
    BY <2>3 DEF TypeOK
  <2> QED BY <1>0, <2>2, <2>3, <2>4 DEF Chained
<1>3. ASSUME NEW t \in Turns, Write(t) PROVE Chained'
  <2> DEFINE line == [id |-> <<t, saved[t] + 1>>, parent |-> leaf[t], kind |-> Head(todo[t])]
             N == Len(file)
  <2>1. \A s \in Running : s = t
    BY <1>0, <1>3, Alone DEF Step
  <2>2. /\ pc[t] = "write" /\ file' = Append(file, line)
        /\ saved' = [saved EXCEPT ![t] = saved[t] + 1] /\ leaf' = leaf
        /\ \E l \in {"check", "unregister", "leaf"} : pc' = [pc EXCEPT ![t] = l]
    BY <1>0, <1>3 DEF Write, Goto, Orderly
  <2>3. \A s \in Turns : pc'[s] # "write"
    BY <1>a, <2>1, <2>2 DEF Running
  <2>4. line \in Line
    BY <2>2, WriteType
  <2>5. saved \in [Turns -> Nat]
    BY BuildType DEF TypeOK
  <2>6. line.id = <<t, saved[t] + 1>> /\ line.parent = leaf[t]
    OBVIOUS
  <2> HIDE DEF line
  <2>7. \A i \in 1..N : file[i] \in Line
    BY <1>b
  <2>8. \A i \in 1..N : file[i].id[1] \in Turns /\ file[i].id[2] \in Nat
    <3>1. build.rounds \in Nat
      BY BuildType DEF TypeOK
    <3>2. \A x \in LineId : x[1] \in Turns /\ x[2] \in Nat
      BY <3>1 DEF LineId
    <3>3. \A l \in Line : l.id \in LineId
      BY DEF Line
    <3> QED BY <2>7, <3>2, <3>3
  <2>9. \A i \in 1..N : file[i].id # line.id
    <3>1. \A i \in 1..N : file[i].id[2] <= saved[file[i].id[1]]
      BY <1>0 DEF Chained
    <3> SUFFICES ASSUME NEW i \in 1..N, file[i].id = line.id PROVE FALSE
      OBVIOUS
    <3>2. file[i].id[1] = t /\ file[i].id[2] = saved[t] + 1
      BY <2>6
    <3> QED BY <2>5, <3>1, <3>2
  <2>10. IsChain(file')
    <3>1. line.parent = LeafOf(file) /\ IsChain(file)
      BY <1>0, <2>2, <2>6 DEF Chained
    <3> QED BY <1>b, <2>2, <2>4, <2>9, <3>1, ChainGrows
  <2>11. \A i \in 1..Len(file') : file'[i].id[2] <= saved'[file'[i].id[1]]
    <3> SUFFICES ASSUME NEW i \in 1..Len(file')
                 PROVE  file'[i].id[2] <= saved'[file'[i].id[1]]
      OBVIOUS
    <3>1. (i \in 1..N /\ file'[i] = file[i]) \/ file'[i] = line
      BY <1>b, <2>2
    <3>2. CASE i \in 1..N /\ file'[i] = file[i]
      <4>1. file[i].id[2] <= saved[file[i].id[1]]
        BY <1>0, <3>2 DEF Chained
      <4>2. saved[file[i].id[1]] <= saved'[file[i].id[1]]
        BY <2>2, <2>5, <2>8, <3>2
      <4>3. saved[file[i].id[1]] \in Nat /\ saved'[file[i].id[1]] \in Nat
        BY <2>2, <2>5, <2>8, <3>2
      <4> QED BY <2>8, <3>2, <4>1, <4>2, <4>3
    <3>3. CASE file'[i] = line
      BY <2>2, <2>5, <2>6, <3>3
    <3> QED BY <3>1, <3>2, <3>3
  <2> QED BY <2>3, <2>10, <2>11 DEF Chained
<1>4. ASSUME UNCHANGED <<file, leaf, saved>>,
             \A s \in Turns : pc'[s] = "write" => pc[s] = "write"
      PROVE  Chained'
  BY <1>0, <1>4, ChainedStays
<1>5. ASSUME NEW t \in Turns, Register(t) PROVE Chained'
  BY <1>4, <1>5, <1>a DEF Register, Goto, sessionVars
<1>6. ASSUME NEW t \in Turns,
             ReadPrompt(t) \/ CheckFlag(t) \/ LlmCalls(t) \/ LlmNudged(t) \/ LlmReplies(t)
               \/ LlmFails(t) \/ Unregister(t)
      PROVE  Chained'
  <2>1. \E l \in Labels \ {"write"} : pc' = [pc EXCEPT ![t] = l]
    BY <1>6 DEF ReadPrompt, CheckFlag, LlmCalls, LlmNudged, LlmReplies, LlmFails,
                Unregister, Goto, EndLoop, Labels
  <2>2. UNCHANGED <<file, leaf, saved>>
    BY <1>6 DEF ReadPrompt, CheckFlag, LlmCalls, LlmNudged, LlmReplies, LlmFails,
                Unregister, sessionVars
  <2> QED BY <1>4, <1>a, <2>1, <2>2
<1>7. CASE Cancel
  BY <1>4, <1>7 DEF Cancel, sessionVars
<1>8. CASE UNCHANGED vars
  BY <1>4, <1>8 DEF vars, sessionVars
<1> QED BY <1>0, <1>1, <1>2, <1>3, <1>5, <1>6, <1>7, <1>8 DEF Next, Step

LEMMA ChainedInit == Init => Chained
<1> SUFFICES ASSUME Init PROVE Chained
  OBVIOUS
<1>1. file = <<>> /\ Len(file) = 0 /\ \A t \in Turns : pc[t] # "write"
  BY DEF Init
<1> QED BY <1>1 DEF Chained, IsChain

\* With one lane and nothing failing, the branch a later turn reads for its
\* prompt is the whole file, in file order, however many turns there are and
\* whatever each saves: the leaf looked up before a write is still the leaf
\* when the line is appended, since no other turn appends in between.
THEOREM WholeFileIsRead == Spec => []SingleChain
<1>1. TypeOK /\ Chained => SingleChain
  BY BranchOfChain DEF TypeOK, Chained, SingleChain
<1> QED
  BY <1>1, TypeInit, TypeStep, OneLaneInit, OneLaneStep, ChainedInit, ChainedStep, PTL DEF Spec

(***************************************************************************)
(* And every tool call in it is followed by its result.                    *)
(***************************************************************************)
\* Messages in which every call is followed by its result.
Pairs(d) ==
  \A j \in 1..Len(d) :
    /\ d[j] = "call" => j < Len(d) /\ d[j + 1] = "result"
    /\ d[j] = "result" /\ j > 1 => d[j - 1] = "call"

\* So they are in what a turn has still to save; a result that comes first
\* answers the call that is last in the file.
PairedTodo(t) ==
  /\ Pairs(todo[t])
  /\ todo[t] # <<>> /\ todo[t][1] = "result" =>
       pc[t] \in {"leaf", "write"} /\ file # <<>> /\ file[Len(file)].kind = "call"

\* And so they are in the file, where the result of a last call is on its way.
PairedFile ==
  \A i \in 1..Len(file) :
    /\ file[i].kind = "call" =>
         IF i < Len(file)
         THEN file[i + 1].kind = "result" /\ file[i + 1].id[1] = file[i].id[1]
         ELSE pc[file[i].id[1]] \in {"leaf", "write"} /\ todo[file[i].id[1]][1] = "result"
    /\ file[i].kind = "result" => i > 1 /\ file[i - 1].kind = "call"

AtWork == {"leaf", "write", "check", "llm"}
Exchanges ==
  Orderly => PairedFile /\ \A t \in Turns : pc[t] \in AtWork => PairedTodo(t)

LEMMA WriterOfLine ==
  ASSUME TypeOK, NEW i \in 1..Len(file) PROVE file[i].id[1] \in Turns
<1>1. file[i] \in Line
  BY DEF TypeOK
<1>2. file[i].id \in LineId
  BY <1>1 DEF Line
<1> QED BY <1>2 DEF LineId

\* When nobody saves, no call is last.
LEMMA NobodySaves ==
  ASSUME PairedFile, TypeOK,
         \A s \in Turns : pc[s] \notin {"leaf", "write"}
  PROVE  \A i \in 1..Len(file) : file[i].kind = "call" => i < Len(file)
BY WriterOfLine DEF PairedFile

LEMMA FileStays ==
  ASSUME PairedFile, TypeOK, file' = file,
         \A s \in Turns : pc[s] \in {"leaf", "write"} =>
           pc'[s] \in {"leaf", "write"} /\ todo'[s] = todo[s]
  PROVE  PairedFile'
<1> SUFFICES ASSUME NEW i \in 1..Len(file)
             PROVE  /\ file[i].kind = "call" =>
                         IF i < Len(file)
                         THEN file[i + 1].kind = "result" /\ file[i + 1].id[1] = file[i].id[1]
                         ELSE /\ pc'[file[i].id[1]] \in {"leaf", "write"}
                              /\ todo'[file[i].id[1]][1] = "result"
                    /\ file[i].kind = "result" => i > 1 /\ file[i - 1].kind = "call"
  BY DEF PairedFile
<1>1. file[i].id[1] \in Turns
  BY WriterOfLine
<1> QED BY <1>1 DEF PairedFile

\* What stays paired when a turn adds messages or saves one.
LEMMA PairsLonger ==
  ASSUME NEW d \in Seq(Kinds), Pairs(d), NEW k \in {"user", "reply"}
  PROVE  /\ Pairs(Append(d, k))
         /\ Append(d, k)[1] = "result" => d # <<>> /\ d[1] = "result"
<1>1. /\ Len(d) \in Nat /\ Len(Append(d, k)) = Len(d) + 1
      /\ \A j \in 1..Len(d) : Append(d, k)[j] = d[j]
      /\ Append(d, k)[Len(d) + 1] = k
  OBVIOUS
<1> DEFINE e == Append(d, k)
<1> HIDE DEF e
<1>2. \A j \in 1..Len(e) : j \in 1..Len(d) \/ j = Len(d) + 1
  BY <1>1 DEF e
<1>3. Pairs(e)
  <2> SUFFICES ASSUME NEW j \in 1..Len(e)
               PROVE  /\ e[j] = "call" => j < Len(e) /\ e[j + 1] = "result"
                      /\ e[j] = "result" /\ j > 1 => e[j - 1] = "call"
    BY DEF Pairs
  <2>1. CASE j = Len(d) + 1
    BY <1>1, <2>1 DEF e
  <2>2. CASE j \in 1..Len(d)
    <3>1. e[j] = d[j]
      BY <1>1, <2>2 DEF e
    <3>2. d[j] = "call" => j < Len(d) /\ d[j + 1] = "result"
      BY <2>2 DEF Pairs
    <3>3. j < Len(d) => j + 1 \in 1..Len(d) /\ j < Len(e) /\ e[j + 1] = d[j + 1]
      BY <1>1, <2>2 DEF e
    <3>4. d[j] = "result" /\ j > 1 => d[j - 1] = "call"
      BY <2>2 DEF Pairs
    <3>5. j > 1 => j - 1 \in 1..Len(d) /\ e[j - 1] = d[j - 1]
      BY <1>1, <2>2 DEF e
    <3> QED BY <3>1, <3>2, <3>3, <3>4, <3>5
  <2> QED BY <1>2, <2>1, <2>2
<1>4. e[1] = "result" => d # <<>> /\ d[1] = "result"
  <2>1. CASE Len(d) = 0
    BY <1>1, <2>1 DEF e
  <2>2. CASE Len(d) # 0
    <3>1. 1 \in 1..Len(d) /\ d # <<>>
      BY <1>1, <2>2
    <3> QED BY <1>1, <3>1 DEF e
  <2> QED BY <2>1, <2>2
<1> QED BY <1>3, <1>4 DEF e

LEMMA PairsExchange ==
  ASSUME NEW d \in Seq(Kinds), Pairs(d)
  PROVE  /\ Pairs(d \o <<"call", "result">>)
         /\ (d \o <<"call", "result">>)[1] = "result" => d # <<>> /\ d[1] = "result"
<1> DEFINE e == d \o <<"call", "result">>
           N == Len(d)
<1>1. /\ N \in Nat /\ Len(e) = N + 2
      /\ \A j \in 1..N : e[j] = d[j]
      /\ e[N + 1] = "call" /\ e[N + 2] = "result"
  OBVIOUS
<1>2. \A j \in 1..N : /\ d[j] = "call" => j < N /\ d[j + 1] = "result"
                      /\ d[j] = "result" /\ j > 1 => d[j - 1] = "call"
  BY DEF Pairs
<1>3. N # 0 => d # <<>>
  OBVIOUS
<1> HIDE DEF e, N
<1>4. Pairs(e)
  <2> SUFFICES ASSUME NEW j \in 1..(N + 2)
               PROVE  /\ e[j] = "call" => j < N + 2 /\ e[j + 1] = "result"
                      /\ e[j] = "result" /\ j > 1 => e[j - 1] = "call"
    BY <1>1 DEF Pairs
  <2>1. CASE j = N + 1
    <3>1. j < N + 2 /\ j + 1 = N + 2
      BY <1>1, <2>1
    <3> QED BY <1>1, <2>1, <3>1
  <2>2. CASE j = N + 2
    <3>1. j - 1 = N + 1
      BY <1>1, <2>2
    <3> QED BY <1>1, <2>2, <3>1
  <2>3. CASE j \in 1..N
    <3>1. j < N => j + 1 \in 1..N /\ j < N + 2
      BY <1>1, <2>3
    <3>2. j > 1 => j - 1 \in 1..N
      BY <1>1, <2>3
    <3> QED BY <1>1, <1>2, <2>3, <3>1, <3>2
  <2> QED BY <1>1, <2>1, <2>2, <2>3
<1>5. e[1] = "result" => d # <<>> /\ d[1] = "result"
  <2>1. CASE N = 0
    BY <1>1, <2>1
  <2>2. CASE N # 0
    <3>1. 1 \in 1..N
      BY <1>1, <2>2
    <3> QED BY <1>1, <1>3, <2>2, <3>1
  <2> QED BY <2>1, <2>2
<1> QED BY <1>4, <1>5 DEF e

LEMMA PairsRest ==
  ASSUME NEW d \in Seq(Kinds), d # <<>>, Pairs(d)
  PROVE  /\ Pairs(Tail(d))
         /\ d[1] = "call" => Len(d) > 1 /\ Tail(d) # <<>> /\ Tail(d)[1] = "result"
         /\ Tail(d) # <<>> /\ Tail(d)[1] = "result" => d[1] = "call"
<1> DEFINE e == Tail(d)
           N == Len(d)
<1>1. /\ N \in Nat \ {0} /\ Len(e) = N - 1 /\ e \in Seq(Kinds)
      /\ \A j \in 1..(N - 1) : e[j] = d[j + 1]
  OBVIOUS
<1>2. \A j \in 1..N : /\ d[j] = "call" => j < N /\ d[j + 1] = "result"
                      /\ d[j] = "result" /\ j > 1 => d[j - 1] = "call"
  BY DEF Pairs
<1>3. e # <<>> <=> N > 1
  <2>1. \A s \in Seq(Kinds) : s # <<>> <=> Len(s) # 0
    OBVIOUS
  <2> HIDE DEF e, N
  <2>2. e # <<>> <=> Len(e) # 0
    BY <1>1, <2>1
  <2> QED BY <1>1, <2>2
<1> HIDE DEF e, N
<1>4. Pairs(e)
  <2> SUFFICES ASSUME NEW j \in 1..(N - 1)
               PROVE  /\ e[j] = "call" => j < N - 1 /\ e[j + 1] = "result"
                      /\ e[j] = "result" /\ j > 1 => e[j - 1] = "call"
    BY <1>1 DEF Pairs
  <2>1. j + 1 \in 1..N /\ e[j] = d[j + 1]
    BY <1>1
  <2>2. e[j] = "call" => j + 1 < N /\ d[(j + 1) + 1] = "result"
    <3>1. d[j + 1] = "call" => j + 1 < N /\ d[(j + 1) + 1] = "result"
      BY <1>2, <2>1
    <3> QED BY <2>1, <3>1
  <2>3. j + 1 < N => j + 1 \in 1..(N - 1) /\ j < N - 1
    BY <1>1
  <2>4. e[j] = "result" /\ j > 1 => d[(j + 1) - 1] = "call"
    <3>1. d[j + 1] = "result" /\ j + 1 > 1 => d[(j + 1) - 1] = "call"
      BY <1>2, <2>1
    <3>2. j > 1 => j + 1 > 1
      OBVIOUS
    <3> QED BY <2>1, <3>1, <3>2
  <2>5. j > 1 => j - 1 \in 1..(N - 1) /\ (j - 1) + 1 = j /\ (j + 1) - 1 = j
    BY <1>1
  <2> QED BY <1>1, <2>2, <2>3, <2>4, <2>5
<1>5. d[1] = "call" => N > 1 /\ e # <<>> /\ e[1] = "result"
  <2>1. 1 \in 1..N /\ 1 + 1 = 2 /\ (N > 1 => 1 \in 1..(N - 1))
    BY <1>1
  <2> QED BY <1>1, <1>2, <1>3, <2>1
<1>6. e # <<>> /\ e[1] = "result" => d[1] = "call"
  <2>1. N > 1 => 1 \in 1..(N - 1) /\ 1 + 1 = 2 /\ 2 \in 1..N /\ 2 > 1 /\ 2 - 1 = 1
    BY <1>1
  <2> QED BY <1>1, <1>2, <1>3, <2>1
<1> QED BY <1>4, <1>5, <1>6 DEF e, N

\* One saved message.
LEMMA WriteExchanges ==
  ASSUME TypeOK, Counted, OneLane, Exchanges, Orderly, NEW t \in Turns, Write(t)
  PROVE  Exchanges'
<1> DEFINE d == todo[t]
           N == Len(file)
           line == [id |-> <<t, saved[t] + 1>>, parent |-> leaf[t], kind |-> Head(d)]
<1>1. /\ \A s \in Running : s = t
      /\ pc \in [Turns -> Labels]
  BY Alone DEF Step, Orderly, OneLane
<1>2. /\ pc[t] = "write" /\ file' = Append(file, line)
      /\ todo' = [todo EXCEPT ![t] = Tail(d)]
      /\ pc' = [pc EXCEPT ![t] = IF saved[t] = 0 THEN "check"
                                 ELSE IF Len(d) = 1 THEN "unregister" ELSE "leaf"]
  BY DEF Write, Goto, Orderly
<1>3. d \in Seq(Kinds) /\ d # <<>> /\ Head(d) = d[1] /\ todo \in [Turns -> Seq(Kinds)]
  BY <1>2 DEF TypeOK
<1>4. /\ N \in Nat /\ Len(file') = N + 1 /\ file' # <<>>
      /\ \A i \in 1..N : file'[i] = file[i]
      /\ file'[N + 1] = line
  <2>1. file \in Seq(Line) /\ line \in Line
    BY <1>2, WriteType DEF TypeOK
  <2> HIDE DEF line
  <2>2. Len(Append(file, line)) # 0
    BY <2>1
  <2> QED BY <1>2, <2>1, <2>2
<1>5. line.kind = d[1] /\ line.id[1] = t
  BY <1>3
<1>6. PairedFile /\ Pairs(d)
      /\ (d[1] = "result" => file # <<>> /\ file[N].kind = "call")
  BY <1>2, <1>3 DEF Exchanges, AtWork, PairedTodo
<1>7. saved[t] = 0 => Len(d) = 1
  BY <1>2 DEF Counted
<1>8. /\ d[1] = "call" => Tail(d) # <<>> /\ Tail(d)[1] = "result"
      /\ Tail(d) # <<>> /\ Tail(d)[1] = "result" => d[1] = "call"
      /\ d[1] = "call" => Len(d) > 1
      /\ Pairs(Tail(d))
  BY <1>3, <1>6, PairsRest
<1>9. d[1] = "call" => pc'[t] = "leaf"
  <2>1. d[1] = "call" => saved[t] # 0 /\ Len(d) # 1
    BY <1>3, <1>7, <1>8
  <2> QED BY <1>1, <1>2, <2>1
<1>10. todo'[t] = Tail(d)
  BY <1>2, <1>3
<1>11. \A i \in 1..N : i = N /\ file[i].kind = "call" => file[i].id[1] = t /\ d[1] = "result"
  <2> SUFFICES ASSUME N \in 1..N, file[N].kind = "call"
               PROVE  file[N].id[1] = t /\ d[1] = "result"
    OBVIOUS
  <2>1. /\ pc[file[N].id[1]] \in {"leaf", "write"}
        /\ todo[file[N].id[1]][1] = "result"
    BY <1>4, <1>6 DEF PairedFile
  <2>2. file[N].id[1] \in Running
    BY <2>1, WriterOfLine DEF Running
  <2> QED BY <1>1, <2>1, <2>2
<1>12. file # <<>> => N # 0
  BY DEF TypeOK
<1> HIDE DEF line, d, N
<1>13. PairedFile'
  <2> SUFFICES ASSUME NEW i \in 1..(N + 1)
               PROVE  /\ file'[i].kind = "call" =>
                           IF i < N + 1
                           THEN /\ file'[i + 1].kind = "result"
                                /\ file'[i + 1].id[1] = file'[i].id[1]
                           ELSE /\ pc'[file'[i].id[1]] \in {"leaf", "write"}
                                /\ todo'[file'[i].id[1]][1] = "result"
                      /\ file'[i].kind = "result" => i > 1 /\ file'[i - 1].kind = "call"
    BY <1>4 DEF PairedFile
  <2>1. CASE i = N + 1
    <3>1. file'[i].kind = d[1] /\ file'[i].id[1] = t
      BY <1>4, <1>5, <2>1
    <3>2. d[1] = "call" => pc'[t] \in {"leaf", "write"} /\ todo'[t][1] = "result"
      BY <1>8, <1>9, <1>10
    <3>3. d[1] = "result" => i > 1 /\ file'[i - 1].kind = "call"
      <4>1. d[1] = "result" => N # 0 /\ file[N].kind = "call"
        BY <1>6, <1>12
      <4>2. N # 0 => N + 1 > 1 /\ (N + 1) - 1 = N /\ file'[N] = file[N]
        BY <1>4
      <4> QED BY <2>1, <4>1, <4>2
    <3>4. ~(i < N + 1)
      BY <1>4, <2>1
    <3> QED BY <3>1, <3>2, <3>3, <3>4
  <2>2. CASE i \in 1..N
    <3>1. file'[i] = file[i] /\ i < N + 1 /\ N = Len(file)
      BY <1>4, <2>2 DEF N
    <3>2. file[i].kind = "call" =>
            file'[i + 1].kind = "result" /\ file'[i + 1].id[1] = file[i].id[1]
      <4>1. CASE i = N
        BY <1>4, <1>5, <1>11, <2>2, <4>1
      <4>2. CASE i # N
        <5>1. i < N /\ i + 1 \in 1..N
          BY <1>4, <2>2, <4>2
        <5>2. file[i].kind = "call" =>
                file[i + 1].kind = "result" /\ file[i + 1].id[1] = file[i].id[1]
          BY <1>6, <2>2, <3>1, <5>1 DEF PairedFile
        <5> QED BY <1>4, <5>1, <5>2
      <4> QED BY <4>1, <4>2
    <3>3. file[i].kind = "result" => i > 1 /\ file[i - 1].kind = "call"
      BY <1>6, <2>2, <3>1 DEF PairedFile
    <3>4. i > 1 => i - 1 \in 1..N /\ file'[i - 1] = file[i - 1]
      BY <1>4, <2>2
    <3> QED BY <3>1, <3>2, <3>3, <3>4
  <2> QED BY <1>4, <2>1, <2>2
<1>14. \A s \in Turns : pc'[s] \in AtWork => s = t
  BY <1>1, <1>2 DEF AtWork, Running
<1>15. pc'[t] \in AtWork => PairedTodo(t)'
  <2>1. Tail(d) # <<>> /\ Tail(d)[1] = "result" =>
          pc'[t] \in {"leaf", "write"} /\ file'[Len(file')].kind = "call"
    BY <1>4, <1>5, <1>8, <1>9
  <2> QED BY <1>4, <1>8, <1>10, <2>1 DEF PairedTodo
<1> QED BY <1>13, <1>14, <1>15 DEF Exchanges

\* A step that leaves the file alone, and what turns have at the point of
\* saving it.  Whoever is at work then still has to save paired messages.
LEMMA ExchangesStay ==
  ASSUME TypeOK, Exchanges, Orderly, file' = file,
         \A s \in Turns : pc[s] \in {"leaf", "write"} =>
           pc'[s] \in {"leaf", "write"} /\ todo'[s] = todo[s],
         \A s \in Turns : pc'[s] \in AtWork => PairedTodo(s)'
  PROVE  Exchanges'
BY FileStays DEF Exchanges

LEMMA ExchangesStep ==
  TypeOK /\ Counted /\ OneLane /\ Exchanges /\ [Next]_vars => Exchanges'
<1> SUFFICES ASSUME TypeOK, Counted, OneLane, Exchanges, [Next]_vars, Orderly'
             PROVE  Exchanges'
  BY DEF Exchanges
<1>0. Orderly /\ build.lanes = 1 /\ ~Restart /\ (\A t \in Turns : ~ReadFails(t))
  BY OrderlyKept
<1>a. pc \in [Turns -> Labels] /\ todo \in [Turns -> Seq(Kinds)]
  BY DEF OneLane, TypeOK
<1>b. \A s \in Turns : pc[s] \in AtWork => PairedTodo(s)
  BY <1>0 DEF Exchanges
<1>1. ASSUME NEW t \in Turns, Write(t) PROVE Exchanges'
  BY <1>0, <1>1, WriteExchanges
<1>2. ASSUME NEW t \in Turns, ClearFile(t) PROVE Exchanges'
  <2>1. \A s \in Running : s = t
    BY <1>0, <1>2, Alone DEF Step
  <2>2. \A s \in Turns : pc'[s] \notin AtWork
    BY <1>2, <1>a, <2>1 DEF ClearFile, Goto, Running, AtWork
  <2>3. file' = <<>> /\ Len(file') = 0
    BY <1>2 DEF ClearFile
  <2> QED BY <2>2, <2>3 DEF Exchanges, PairedFile
\* The other steps of a turn: it saves d next.
<1>3. ASSUME NEW t \in Turns, Step(t), file' = file,
             NEW d \in Seq(Kinds), todo' = [todo EXCEPT ![t] = d],
             NEW l \in Labels, pc' = [pc EXCEPT ![t] = l],
             pc[t] \in {"leaf", "write"} => l \in {"leaf", "write"} /\ d = todo[t],
             l \in AtWork => /\ Pairs(d)
                             /\ d # <<>> /\ d[1] = "result" =>
                                  /\ l \in {"leaf", "write"}
                                  /\ file # <<>> /\ file[Len(file)].kind = "call"
      PROVE  Exchanges'
  <2>1. \A s \in Running : s = t
    BY <1>0, <1>3, Alone
  <2>2. todo'[t] = d /\ pc'[t] = l
    BY <1>3, <1>a
  <2>3. \A s \in Turns : pc'[s] \in AtWork => s = t
    BY <1>3, <1>a, <2>1 DEF AtWork, Running
  <2>4. \A s \in Turns : pc[s] \in {"leaf", "write"} => s = t
    BY <2>1 DEF Running
  <2>5. l \in AtWork => PairedTodo(t)'
    BY <1>3, <2>2 DEF PairedTodo
  <2> QED BY <1>0, <1>3, <2>2, <2>3, <2>4, <2>5, ExchangesStay
<1>4. ASSUME NEW t \in Turns, ReadPrompt(t) PROVE Exchanges'
  <2>1. Pairs(<<"user">>) /\ <<"user">> \in Seq(Kinds) /\ <<"user">>[1] # "result"
    BY DEF Pairs, Kinds
  <2> QED BY <1>3, <1>4, <2>1 DEF ReadPrompt, Goto, Labels, Step
<1>5. ASSUME NEW t \in Turns, LookUpLeaf(t) PROVE Exchanges'
  <2>1. /\ pc[t] = "leaf" /\ pc' = [pc EXCEPT ![t] = "write"] /\ file' = file
        /\ todo' = [todo EXCEPT ![t] = todo[t]] /\ todo[t] \in Seq(Kinds)
    BY <1>5, <1>a DEF LookUpLeaf, Goto
  <2>2. PairedTodo(t)
    BY <1>b, <2>1 DEF AtWork
  <2> QED BY <1>3, <1>5, <2>1, <2>2 DEF PairedTodo, Labels, Step
<1>6. ASSUME NEW t \in Turns, CheckFlag(t) PROVE Exchanges'
  <2>1. /\ pc[t] = "check" /\ file' = file
        /\ todo' = [todo EXCEPT ![t] = todo[t]] /\ todo[t] \in Seq(Kinds)
        /\ \E l \in Labels : pc' = [pc EXCEPT ![t] = l]
    BY <1>6, <1>a DEF CheckFlag, EndLoop, Goto, Labels
  <2>2. PairedTodo(t)
    BY <1>b, <2>1 DEF AtWork
  <2> QED BY <1>3, <1>6, <2>1, <2>2 DEF PairedTodo, Step
<1>7. ASSUME NEW t \in Turns, LlmCalls(t) PROVE Exchanges'
  <2> DEFINE d == todo[t] \o <<"call", "result">>
  <2>1. /\ pc[t] = "llm" /\ file' = file /\ pc' = [pc EXCEPT ![t] = "check"]
        /\ todo' = [todo EXCEPT ![t] = d] /\ todo[t] \in Seq(Kinds)
    BY <1>7, <1>a DEF LlmCalls, Goto
  <2>2. PairedTodo(t)
    BY <1>b, <2>1 DEF AtWork
  <2>3. Pairs(d) /\ ~(d[1] = "result")
    BY <2>1, <2>2, PairsExchange DEF PairedTodo
  <2>4. d \in Seq(Kinds)
    <3>1. <<"call", "result">> \in Seq(Kinds)
      BY DEF Kinds
    <3> QED BY <2>1, <3>1
  <2> HIDE DEF d
  <2> QED BY <1>3, <1>7, <2>1, <2>3, <2>4 DEF Labels, Step
<1>8. ASSUME NEW t \in Turns, LlmNudged(t) \/ LlmReplies(t) PROVE Exchanges'
  <2> DEFINE d == Append(todo[t], "reply")
  <2>1. /\ pc[t] = "llm" /\ file' = file
        /\ \E l \in Labels : pc' = [pc EXCEPT ![t] = l]
        /\ todo' = [todo EXCEPT ![t] = d] /\ todo[t] \in Seq(Kinds)
    BY <1>8, <1>a DEF LlmNudged, LlmReplies, EndLoop, Goto, Labels
  <2>2. PairedTodo(t)
    BY <1>b, <2>1 DEF AtWork
  <2>3. Pairs(d) /\ ~(d[1] = "result")
    BY <2>1, <2>2, PairsLonger DEF PairedTodo
  <2>4. d \in Seq(Kinds)
    BY <2>1 DEF Kinds
  <2> HIDE DEF d
  <2> QED BY <1>3, <1>8, <2>1, <2>3, <2>4 DEF Step
<1>9. ASSUME NEW t \in Turns, LlmFails(t) PROVE Exchanges'
  <2>1. <<>> \in Seq(Kinds)
    OBVIOUS
  <2> QED BY <1>3, <1>9, <2>1 DEF LlmFails, Goto, Labels, AtWork, Step
<1>10. ASSUME NEW t \in Turns, Unregister(t) PROVE Exchanges'
  <2>1. /\ pc[t] = "unregister" /\ file' = file /\ pc' = [pc EXCEPT ![t] = "ended"]
        /\ todo' = [todo EXCEPT ![t] = todo[t]] /\ todo[t] \in Seq(Kinds)
    BY <1>10, <1>a DEF Unregister, Goto, sessionVars
  <2> QED BY <1>3, <1>10, <2>1 DEF Labels, AtWork, Step
<1>11. ASSUME NEW t \in Turns, Register(t) PROVE Exchanges'
  <2>1. /\ pc[t] = "new" /\ file' = file /\ todo' = todo
        /\ \E l \in {"prompt", "clear"} : pc' = [pc EXCEPT ![t] = l]
    BY <1>11 DEF Register, Goto, sessionVars
  <2>2. \A s \in Turns : pc[s] \in {"leaf", "write"} => pc'[s] = pc[s]
    BY <1>a, <2>1
  <2>3. \A s \in Turns : pc'[s] \in AtWork => pc'[s] = pc[s]
    BY <1>a, <2>1 DEF AtWork
  <2>4. \A s \in Turns : pc'[s] \in AtWork => PairedTodo(s)'
    BY <1>b, <2>1, <2>3 DEF PairedTodo
  <2> QED BY <1>0, <2>1, <2>2, <2>4, ExchangesStay
<1>12. ASSUME UNCHANGED <<file, pc, todo>> PROVE Exchanges'
  <2>1. \A s \in Turns : pc'[s] \in AtWork => PairedTodo(s)'
    BY <1>b, <1>12 DEF PairedTodo
  <2> QED BY <1>0, <1>12, <2>1, ExchangesStay
<1>13. CASE Cancel
  BY <1>12, <1>13 DEF Cancel, sessionVars
<1>14. CASE UNCHANGED vars
  BY <1>12, <1>14 DEF vars, sessionVars
<1> QED
  BY <1>0, <1>1, <1>2, <1>4, <1>5, <1>6, <1>7, <1>8, <1>9, <1>10, <1>11, <1>13, <1>14
     DEF Next, Step

LEMMA ExchangesInit == Init => Exchanges
<1> SUFFICES ASSUME Init PROVE Exchanges
  OBVIOUS
<1>1. file = <<>> /\ Len(file) = 0 /\ \A t \in Turns : pc[t] \notin AtWork
  BY DEF Init, AtWork
<1> QED BY <1>1 DEF Exchanges, PairedFile

\* And a prompt is well formed for the provider: whenever a turn is about to
\* read the session, every tool call in it is followed by the result its own
\* turn saved, and no result stands without its call.
THEOREM PromptsPaired == Spec => []PromptWellFormed
<1>1. TypeOK /\ OneLane /\ Chained /\ Exchanges => PromptWellFormed
  <2> SUFFICES ASSUME TypeOK, OneLane, Chained, Exchanges, Orderly,
                      NEW t \in Turns, pc[t] = "prompt"
               PROVE  /\ \A i \in 1..Len(file) : file[i].kind = "call" =>
                           /\ i < Len(file) /\ file[i + 1].kind = "result"
                           /\ file[i + 1].id[1] = file[i].id[1]
                      /\ \A i \in 1..Len(file) : file[i].kind = "result" =>
                           i > 1 /\ file[i - 1].kind = "call"
    <3>1. TypeOK /\ Chained /\ Orderly => Branch(file) = file
      BY BranchOfChain DEF TypeOK, Chained
    <3> QED BY <3>1 DEF PromptWellFormed
  <2>1. \A s \in Turns : pc[s] \notin {"leaf", "write"}
    BY DEF OneLane, Orderly, Running
  <2>2. PairedFile
    BY DEF Exchanges
  <2>3. \A i \in 1..Len(file) : file[i].kind = "call" => i < Len(file)
    BY <2>1, <2>2, NobodySaves
  <2> QED BY <2>2, <2>3 DEF PairedFile
<1> QED
  BY <1>1, TypeInit, TypeStep, OneLaneInit, OneLaneStep, ChainedInit, ChainedStep,
     ExchangesInit, ExchangesStep, PTL DEF Spec
=============================================================================
