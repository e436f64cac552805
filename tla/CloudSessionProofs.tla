------------------------- MODULE CloudSessionProofs -------------------------
(* Theorems about CloudSession.tla, for any bounds and thresholds, and     *)
(* whatever the bucket, the user and the power do.                         *)
EXTENDS CloudSession, WellFoundedInduction, TLAPS

USE BoundsAssumption, EventsAssumption

-----------------------------------------------------------------------------
(* Induction, and the functions defined by it.                             *)

\* Induction over a set of naturals.
LEMMA NatSetInduction ==
  ASSUME NEW S, 0 \in S, \A n \in Nat : n \in S => n + 1 \in S
  PROVE  Nat \subseteq S
<1> SUFFICES ASSUME Nat \ S # {} PROVE FALSE
  OBVIOUS
<1> DEFINE R == OpToRel(<, Nat)
           T == Nat \ S
<1>1. IsWellFoundedOn(R, Nat)
  BY NatLessThanWellFounded
<1>2. \A x, y \in Nat : x < y => <<x, y>> \in R
  BY DEF OpToRel
<1> HIDE DEF R
<1>3. T \subseteq Nat /\ T # {}
  OBVIOUS
<1>4. PICK m \in T : \A n \in T : <<n, m>> \notin R
  BY <1>1, <1>3, WFMin
<1>5. m \in Nat /\ m # 0 /\ m - 1 \in Nat /\ m - 1 < m /\ (m - 1) + 1 = m
  OBVIOUS
<1>6. m - 1 \in S
  BY <1>2, <1>4, <1>5
<1> QED BY <1>4, <1>5, <1>6

LEMMA MaxIs ==
  ASSUME NEW I, I \subseteq Int, NEW n \in I, \A i \in I : i <= n
  PROVE  Max(I) = n
<1>1. \A y \in I : n >= y
  OBVIOUS
<1>2. \A x \in I : (\A y \in I : x >= y) => x = n
  OBVIOUS
<1>3. (CHOOSE x \in I : \A y \in I : x >= y) = n
  BY <1>1, <1>2
<1> QED BY <1>3 DEF Max

\* A set of naturals with a bound has a greatest member.
LEMMA HasMax ==
  ASSUME NEW N \in Nat, NEW I, I \subseteq 0..N, I # {}
  PROVE  Max(I) \in I /\ \A i \in I : i <= Max(I)
<1> DEFINE S == {n \in Nat : \A J \in SUBSET (0..n) : J # {} => \E m \in J : \A i \in J : i <= m}
<1>1. 0 \in S
  <2>1. \A x \in 0..0 : x = 0
    OBVIOUS
  <2>2. ASSUME NEW J \in SUBSET (0..0), J # {} PROVE 0 \in J /\ \A i \in J : i <= 0
    <3>1. PICK x \in J : TRUE
      BY <2>2
    <3> QED BY <2>1, <3>1
  <2> QED BY <2>2
<1>2. ASSUME NEW n \in Nat, n \in S PROVE n + 1 \in S
  <2> SUFFICES ASSUME NEW J \in SUBSET (0..(n + 1)), J # {} PROVE \E m \in J : \A i \in J : i <= m
    OBVIOUS
  <2>1. CASE n + 1 \in J
    BY <2>1
  <2>2. CASE n + 1 \notin J
    <3>1. J \in SUBSET (0..n)
      BY <2>2
    <3> QED BY <1>2, <3>1
  <2> QED BY <2>1, <2>2
<1>3. Nat \subseteq S
  <2> HIDE DEF S
  <2> QED BY <1>1, <1>2, NatSetInduction
<1>4. PICK m \in I : \A i \in I : i <= m
  BY <1>3
<1>5. Max(I) = m
  <2>1. I \subseteq Int
    OBVIOUS
  <2> QED BY <1>4, <2>1, MaxIs
<1> QED BY <1>4, <1>5

\* Sequences strung together, as Text does it.
Strung(w, b, X, M) ==
  \A i \in 0..M : w[i] = (IF i = 0 THEN b ELSE w[i - 1]) \o X[i]

LEMMA StrungExists ==
  ASSUME NEW A, NEW b \in Seq(A), NEW M \in Nat, NEW X \in [0..M -> Seq(A)]
  PROVE  \E w \in [0..M -> Seq(A)] : Strung(w, b, X, M)
<1> DEFINE S == {n \in Nat : n <= M => \E w \in [0..n -> Seq(A)] : Strung(w, b, X, n)}
<1>1. 0 \in S
  <2> DEFINE w == [i \in 0..0 |-> b \o X[0]]
  <2>1. X[0] \in Seq(A)
    OBVIOUS
  <2>2. b \o X[0] \in Seq(A)
    BY <2>1
  <2>3. w \in [0..0 -> Seq(A)] /\ Strung(w, b, X, 0)
    BY <2>2 DEF Strung
  <2> QED BY <2>3
<1>2. ASSUME NEW n \in Nat, n \in S PROVE n + 1 \in S
  <2> SUFFICES ASSUME n + 1 <= M PROVE \E w \in [0..(n + 1) -> Seq(A)] : Strung(w, b, X, n + 1)
    OBVIOUS
  <2>1. PICK v \in [0..n -> Seq(A)] : Strung(v, b, X, n)
    BY <1>2
  <2> DEFINE new == v[n] \o X[n + 1]
             w == [i \in 0..(n + 1) |-> IF i = n + 1 THEN new ELSE v[i]]
  <2>2. new \in Seq(A)
    <3>1. v[n] \in Seq(A) /\ X[n + 1] \in Seq(A)
      OBVIOUS
    <3> QED BY <3>1
  <2> HIDE DEF new
  <2>3. w \in [0..(n + 1) -> Seq(A)]
    BY <2>2
  <2>4. ASSUME NEW i \in 0..(n + 1) PROVE w[i] = (IF i = 0 THEN b ELSE w[i - 1]) \o X[i]
    <3>1. CASE i = n + 1
      <4>1. w[i] = new /\ w[i - 1] = v[n] /\ i # 0
        BY <3>1
      <4> QED BY <3>1, <4>1 DEF new
    <3>2. CASE i # n + 1
      <4>1. i \in 0..n /\ w[i] = v[i] /\ (i # 0 => w[i - 1] = v[i - 1])
        BY <3>2
      <4>2. v[i] = (IF i = 0 THEN b ELSE v[i - 1]) \o X[i]
        BY <2>1, <4>1 DEF Strung
      <4> QED BY <4>1, <4>2
    <3> QED BY <3>1, <3>2
  <2> HIDE DEF w
  <2> QED BY <2>3, <2>4 DEF Strung
<1>3. Nat \subseteq S
  <2> HIDE DEF S
  <2> QED BY <1>1, <1>2, NatSetInduction
<1> QED BY <1>3

LEMMA StrungIn ==
  ASSUME NEW A, NEW b \in Seq(A), NEW M \in Nat, NEW X \in [0..M -> Seq(A)],
         NEW w, Strung(w, b, X, M)
  PROVE  \A i \in 0..M : w[i] \in Seq(A)
<1> DEFINE S == {n \in Nat : n <= M => w[n] \in Seq(A)}
<1>1. 0 \in S
  <2>1. 0 \in 0..M /\ X[0] \in Seq(A)
    OBVIOUS
  <2>2. w[0] = b \o X[0]
    BY <2>1 DEF Strung
  <2>3. b \o X[0] \in Seq(A)
    BY <2>1
  <2> QED BY <2>2, <2>3
<1>2. ASSUME NEW n \in Nat, n \in S PROVE n + 1 \in S
  <2> SUFFICES ASSUME n + 1 <= M PROVE w[n + 1] \in Seq(A)
    OBVIOUS
  <2>1. n + 1 \in 0..M /\ (n + 1) - 1 = n /\ n + 1 # 0
    OBVIOUS
  <2>2. w[n + 1] = w[n] \o X[n + 1]
    BY <2>1 DEF Strung
  <2>3. w[n] \in Seq(A) /\ X[n + 1] \in Seq(A)
    BY <1>2, <2>1
  <2> QED BY <2>2, <2>3
<1>3. Nat \subseteq S
  <2> HIDE DEF S
  <2> QED BY <1>1, <1>2, NatSetInduction
<1> QED BY <1>3

\* A walk up parents, as Branch does it.
Walked(ch, H, p, M) ==
  \A m \in 0..M : ch[m] = IF m \notin H THEN <<>> ELSE Append(ch[p[m]], m)

LEMMA WalkExists ==
  ASSUME NEW M \in Nat, NEW H, NEW p,
         \A m \in H : m \in 1..M /\ p[m] \in 0..(m - 1)
  PROVE  \E ch \in [0..M -> Seq(Nat)] : Walked(ch, H, p, M)
<1> DEFINE S == {n \in Nat : n <= M => \E ch \in [0..n -> Seq(Nat)] : Walked(ch, H, p, n)}
<1>1. 0 \in S
  <2> DEFINE ch == [i \in 0..0 |-> <<>>]
  <2>1. 0 \notin H
    OBVIOUS
  <2>2. ch \in [0..0 -> Seq(Nat)] /\ Walked(ch, H, p, 0)
    BY <2>1 DEF Walked
  <2> QED BY <2>2
<1>2. ASSUME NEW n \in Nat, n \in S PROVE n + 1 \in S
  <2> SUFFICES ASSUME n + 1 <= M PROVE \E ch \in [0..(n + 1) -> Seq(Nat)] : Walked(ch, H, p, n + 1)
    OBVIOUS
  <2>1. PICK v \in [0..n -> Seq(Nat)] : Walked(v, H, p, n)
    BY <1>2
  <2> DEFINE new == IF n + 1 \notin H THEN <<>> ELSE Append(v[p[n + 1]], n + 1)
             ch == [i \in 0..(n + 1) |-> IF i = n + 1 THEN new ELSE v[i]]
  <2>2. new \in Seq(Nat)
    <3>1. CASE n + 1 \notin H
      BY <3>1
    <3>2. CASE n + 1 \in H
      <4>1. p[n + 1] \in 0..n
        BY <3>2
      <4>2. v[p[n + 1]] \in Seq(Nat)
        BY <4>1
      <4> QED BY <3>2, <4>2
    <3> QED BY <3>1, <3>2
  <2> HIDE DEF new
  <2>3. ch \in [0..(n + 1) -> Seq(Nat)]
    BY <2>2
  <2>4. ASSUME NEW m \in 0..(n + 1) PROVE ch[m] = IF m \notin H THEN <<>> ELSE Append(ch[p[m]], m)
    <3>1. CASE m = n + 1
      <4>1. ch[m] = new /\ (m \in H => p[m] \in 0..n /\ ch[p[m]] = v[p[m]])
        BY <3>1
      <4> QED BY <3>1, <4>1 DEF new
    <3>2. CASE m # n + 1
      <4>1. m \in 0..n /\ ch[m] = v[m]
        BY <3>2
      <4>2. m \in H => p[m] \in 0..n /\ ch[p[m]] = v[p[m]]
        <5>1. m \in H => p[m] \in 0..(m - 1)
          OBVIOUS
        <5> QED BY <4>1, <5>1
      <4>3. v[m] = IF m \notin H THEN <<>> ELSE Append(v[p[m]], m)
        BY <2>1, <4>1 DEF Walked
      <4> QED BY <4>1, <4>2, <4>3
    <3> QED BY <3>1, <3>2
  <2> HIDE DEF ch
  <2> QED BY <2>3, <2>4 DEF Walked
<1>3. Nat \subseteq S
  <2> HIDE DEF S
  <2> QED BY <1>1, <1>2, NatSetInduction
<1> QED BY <1>3

LEMMA WalkIn ==
  ASSUME NEW M \in Nat, NEW H, NEW p,
         \A m \in H : m \in 1..M /\ p[m] \in 0..(m - 1),
         NEW ch, Walked(ch, H, p, M)
  PROVE  \A m \in 0..M : ch[m] \in Seq(Nat)
<1> DEFINE S == {n \in Nat : \A m \in 0..n : m <= M => ch[m] \in Seq(Nat)}
<1>1. 0 \in S
  <2>1. 0 \notin H /\ 0 \in 0..M
    OBVIOUS
  <2>2. ch[0] = <<>>
    BY <2>1 DEF Walked
  <2>3. \A m \in 0..0 : m = 0
    OBVIOUS
  <2>4. <<>> \in Seq(Nat)
    OBVIOUS
  <2>5. \A m \in 0..0 : m <= M => ch[m] \in Seq(Nat)
    BY <2>2, <2>3, <2>4
  <2> QED BY <2>5
<1>2. ASSUME NEW n \in Nat, n \in S PROVE n + 1 \in S
  <2> SUFFICES ASSUME n + 1 <= M PROVE ch[n + 1] \in Seq(Nat)
    BY <1>2
  <2>0. n + 1 \in 0..M
    OBVIOUS
  <2>1. CASE n + 1 \notin H
    <3>1. ch[n + 1] = <<>>
      BY <2>0, <2>1 DEF Walked
    <3> QED BY <3>1
  <2>2. CASE n + 1 \in H
    <3>1. p[n + 1] \in 0..n
      BY <2>2
    <3>2. ch[p[n + 1]] \in Seq(Nat)
      BY <1>2, <3>1
    <3>3. ch[n + 1] = Append(ch[p[n + 1]], n + 1)
      BY <2>0, <2>2 DEF Walked
    <3> QED BY <3>2, <3>3
  <2> QED BY <2>1, <2>2
<1>3. Nat \subseteq S
  <2> HIDE DEF S
  <2> QED BY <1>1, <1>2, NatSetInduction
<1> QED BY <1>3

-----------------------------------------------------------------------------
(* Lines and objects.                                                      *)

\* The lines appends have written so far: numbered up to L, and every message
\* younger than its parent.
Written(L) ==
  {l \in Line : /\ l.kind \in {"msg", "info"} /\ l.id \in 1..L
                /\ l.kind = "msg" => l.parent < l.id}

\* What an object may hold: a mark names a log that was written.
ObjectOK(L, k, text) ==
  IF k = Mark THEN text \in Seq(Line) /\ Len(text) = 1 /\ text[1].id < L
  ELSE text \in Seq(Written(L))

StoreOK(L, s) == /\ DOMAIN s \subseteq Key
                 /\ s = [k \in DOMAIN s |-> s[k]]
                 /\ \A k \in DOMAIN s : ObjectOK(L, k, s[k])

LEMMA Keys ==
  /\ Base \in Key /\ Mark \in Key
  /\ \A i \in LogIdx : Log(i) \in Key
  /\ Base # Mark
  /\ \A i : Log(i) # Base /\ Log(i) # Mark
  /\ \A i, j : Log(i) = Log(j) => i = j
<1> DEFINE T == {Log(i - 1) : i \in 1..(MaxMsgs + 1)}
           logs == [i \in 1..(MaxMsgs + 1) |-> Log(i - 1)]
           order == <<Base, Mark>> \o logs
<1>1. Len(logs) = MaxMsgs + 1 /\ logs \in Seq(T)
  <2>1. \A i \in 1..(MaxMsgs + 1) : Log(i - 1) \in T
    OBVIOUS
  <2>2. MaxMsgs + 1 \in Nat
    OBVIOUS
  <2> HIDE DEF T
  <2> QED BY <2>1, <2>2
<1>2. \A i \in 1..(MaxMsgs + 1) : logs[i] = Log(i - 1)
  OBVIOUS
<1> HIDE DEF logs
<1>3. /\ Len(order) = MaxMsgs + 3
      /\ order[1] = Base /\ order[2] = Mark
      /\ \A i \in 1..(MaxMsgs + 1) : order[i + 2] = logs[i]
  BY <1>1
<1>4. KeyOrder = order
  BY DEF KeyOrder, logs
<1> HIDE DEF order
<1>5. Base \in Key /\ Mark \in Key
  BY <1>3, <1>4 DEF Key
<1>6. ASSUME NEW i \in LogIdx PROVE Log(i) \in Key
  <2>1. i + 1 \in 1..(MaxMsgs + 1) /\ (i + 1) - 1 = i /\ (i + 1) + 2 \in 1..(MaxMsgs + 3)
    BY DEF LogIdx
  <2>2. order[(i + 1) + 2] = Log(i)
    BY <1>2, <1>3, <2>1
  <2> QED BY <1>3, <1>4, <2>1, <2>2 DEF Key
<1>7. Base # Mark /\ (\A i : Log(i) # Base /\ Log(i) # Mark)
      /\ \A i, j : Log(i) = Log(j) => i = j
  BY DEF Base, Mark, Log
<1> QED BY <1>5, <1>6, <1>7

\* What was right before one more message is right after it.
LEMMA Grows ==
  ASSUME NEW L \in Nat
  PROVE  /\ Written(L) \subseteq Written(L + 1)
         /\ \A k, text : ObjectOK(L, k, text) => ObjectOK(L + 1, k, text)
         /\ \A s : StoreOK(L, s) => StoreOK(L + 1, s)
<1>1. Written(L) \subseteq Written(L + 1)
  BY DEF Written
<1>2. ASSUME NEW k, NEW text, ObjectOK(L, k, text) PROVE ObjectOK(L + 1, k, text)
  <2>1. CASE k = Mark
    <3>1. text[1] \in Line /\ text[1].id < L
      BY <1>2, <2>1 DEF ObjectOK
    <3>2. text[1].id < L + 1
      BY <3>1 DEF Line
    <3> QED BY <1>2, <2>1, <3>2 DEF ObjectOK
  <2>2. CASE k # Mark
    <3>1. text \in Seq(Written(L + 1))
      BY <1>1, <1>2, <2>2 DEF ObjectOK
    <3> QED BY <2>2, <3>1 DEF ObjectOK
  <2> QED BY <2>1, <2>2
<1>3. \A s : StoreOK(L, s) => StoreOK(L + 1, s)
  BY <1>2 DEF StoreOK
<1> QED BY <1>1, <1>2, <1>3

\* Objects other than marks hold lines.
LEMMA LinesOfObject ==
  ASSUME NEW L \in Nat, NEW s, StoreOK(L, s), NEW k, k # Mark
  PROVE  Get(s, k) \in Seq(Written(L))
<1>1. CASE k \in DOMAIN s
  BY <1>1 DEF StoreOK, ObjectOK, Get
<1>2. CASE k \notin DOMAIN s
  <2>1. <<>> \in Seq(Written(L))
    OBVIOUS
  <2> QED BY <1>2, <2>1 DEF Get
<1> QED BY <1>1, <1>2

LEMMA PutOK ==
  ASSUME NEW L, NEW s, StoreOK(L, s), NEW k \in Key, NEW text, ObjectOK(L, k, text)
  PROVE  StoreOK(L, Put(s, k, text))
BY DEF StoreOK, Put

LEMMA OnlyOK ==
  ASSUME NEW L, NEW s, StoreOK(L, s), NEW keys
  PROVE  StoreOK(L, Only(s, keys))
BY DEF StoreOK, Only

LEMMA NoObjectsOK == \A L : StoreOK(L, NoObjects)
BY DEF StoreOK, NoObjects

LEMMA AbsorbedBound ==
  ASSUME NEW L \in Nat, NEW s, StoreOK(L, s)
  PROVE  Absorbed(s) \in -1..(L - 1)
<1>1. CASE Mark \in DOMAIN s
  <2>1. s[Mark] \in Seq(Line) /\ Len(s[Mark]) = 1 /\ s[Mark][1].id < L
    BY <1>1 DEF StoreOK, ObjectOK
  <2>2. s[Mark][1] \in Line
    BY <2>1
  <2>3. s[Mark][1].id \in Nat
    BY <2>2 DEF Line
  <2> QED BY <1>1, <2>1, <2>3 DEF Absorbed
<1>2. CASE Mark \notin DOMAIN s
  BY <1>2 DEF Absorbed
<1> QED BY <1>1, <1>2

-----------------------------------------------------------------------------
(* Reading a chat.                                                         *)

\* Text strings together the objects that are not absorbed.
LEMMA TextIs ==
  ASSUME NEW L \in Nat, NEW s, StoreOK(L, s),
         NEW X, X = [i \in LogIdx |-> IF i > Absorbed(s) THEN Get(s, Log(i)) ELSE <<>>]
  PROVE  /\ X \in [0..MaxMsgs -> Seq(Written(L))] /\ Get(s, Base) \in Seq(Written(L))
         /\ \E w : Strung(w, Get(s, Base), X, MaxMsgs) /\ Text(s) = w[MaxMsgs]
<1> DEFINE Up(w, i) == (IF i = 0 THEN Get(s, Base) ELSE w[i - 1]) \o
                       (IF i > Absorbed(s) THEN Get(s, Log(i)) ELSE <<>>)
           IsUpto(w) == w = [i \in LogIdx |-> Up(w, i)]
<1>1. <<>> \in Seq(Written(L))
  OBVIOUS
<1>2. Get(s, Base) \in Seq(Written(L)) /\ \A i : Get(s, Log(i)) \in Seq(Written(L))
  BY LinesOfObject, Keys
<1>3. X \in [0..MaxMsgs -> Seq(Written(L))]
  BY <1>1, <1>2 DEF LogIdx
<1>4. PICK v \in [0..MaxMsgs -> Seq(Written(L))] : Strung(v, Get(s, Base), X, MaxMsgs)
  BY <1>2, <1>3, StrungExists
<1>5. \A i \in LogIdx : \A w : Up(w, i) = (IF i = 0 THEN Get(s, Base) ELSE w[i - 1]) \o X[i]
  OBVIOUS
<1>6. v = [i \in LogIdx |-> Up(v, i)]
  <2>1. \A i \in LogIdx : v[i] = Up(v, i)
    BY <1>4, <1>5 DEF Strung, LogIdx
  <2> HIDE DEF Up
  <2> QED BY <2>1 DEF LogIdx
<1> HIDE DEF Up
<1>7. IsUpto(CHOOSE w : IsUpto(w))
  BY <1>6
<1> DEFINE u == CHOOSE w : IsUpto(w)
<1>8. Text(s) = u[MaxMsgs]
  BY DEF Text, Up
<1>9. u = [i \in LogIdx |-> Up(u, i)]
  BY <1>7
<1> HIDE DEF u
<1>10. \A i \in LogIdx : u[i] = Up(u, i)
  BY <1>9
<1>11. Strung(u, Get(s, Base), X, MaxMsgs)
  BY <1>5, <1>10 DEF Strung, LogIdx
<1> QED BY <1>2, <1>3, <1>8, <1>11

LEMMA TextWritten ==
  ASSUME NEW L \in Nat, NEW s, StoreOK(L, s)
  PROVE  Text(s) \in Seq(Written(L))
<1> DEFINE X == [i \in LogIdx |-> IF i > Absorbed(s) THEN Get(s, Log(i)) ELSE <<>>]
<1> HIDE DEF X
<1>1. /\ X \in [0..MaxMsgs -> Seq(Written(L))] /\ Get(s, Base) \in Seq(Written(L))
      /\ \E w : Strung(w, Get(s, Base), X, MaxMsgs) /\ Text(s) = w[MaxMsgs]
  BY TextIs DEF X
<1>2. PICK w : Strung(w, Get(s, Base), X, MaxMsgs) /\ Text(s) = w[MaxMsgs]
  BY <1>1
<1>3. \A i \in 0..MaxMsgs : w[i] \in Seq(Written(L))
  BY <1>1, <1>2, StrungIn
<1> QED BY <1>2, <1>3

\* With no log behind the active one, the text is the base and that log.
LEMMA TextOfTwo ==
  ASSUME NEW L \in 0..MaxMsgs, NEW s, StoreOK(L, s),
         \A i \in LogIdx : Log(i) \in DOMAIN s => i <= Absorbed(s) + 1
  PROVE  Text(s) = Get(s, Base) \o Get(s, Log(Absorbed(s) + 1))
<1> DEFINE X == [i \in LogIdx |-> IF i > Absorbed(s) THEN Get(s, Log(i)) ELSE <<>>]
           a == Absorbed(s) + 1
           b == Get(s, Base)
           x == Get(s, Log(a))
<1>1. X \in [0..MaxMsgs -> Seq(Written(L))] /\ b \in Seq(Written(L))
      /\ \E w : Strung(w, b, X, MaxMsgs) /\ Text(s) = w[MaxMsgs]
  <2> HIDE DEF X
  <2>1. L \in Nat
    OBVIOUS
  <2> QED BY <2>1, TextIs DEF X
<1>2. PICK w : Strung(w, b, X, MaxMsgs) /\ Text(s) = w[MaxMsgs]
  BY <1>1
<1>3. Absorbed(s) \in -1..(L - 1)
  BY AbsorbedBound
<1>4. a \in 0..MaxMsgs /\ a \in LogIdx
  BY <1>3 DEF LogIdx
<1>5. \A i \in 0..MaxMsgs : X[i] = IF i = a THEN x ELSE <<>>
  <2> SUFFICES ASSUME NEW i \in 0..MaxMsgs PROVE X[i] = IF i = a THEN x ELSE <<>>
    OBVIOUS
  <2>1. X[i] = IF i > Absorbed(s) THEN Get(s, Log(i)) ELSE <<>>
    BY DEF LogIdx
  <2>2. CASE i = a
    BY <1>3, <2>1, <2>2
  <2>3. CASE i < a
    BY <1>3, <2>1, <2>3
  <2>4. CASE i > a
    <3>1. Log(i) \notin DOMAIN s
      BY <1>3, <2>4 DEF LogIdx
    <3> QED BY <1>3, <2>1, <2>4, <3>1 DEF Get
  <2> QED BY <1>4, <2>2, <2>3, <2>4
<1>6. x \in Seq(Written(L))
  BY LinesOfObject, Keys
<1> HIDE DEF X, x, b
<1> DEFINE S == {n \in Nat : n <= MaxMsgs => w[n] = IF n < a THEN b ELSE b \o x}
<1>7. 0 \in S
  <2>0. 0 \in 0..MaxMsgs
    OBVIOUS
  <2>1. w[0] = b \o X[0]
    BY <1>2, <2>0 DEF Strung
  <2>2. CASE a = 0
    <3>1. X[0] = x /\ ~(0 < a)
      BY <1>5, <2>0, <2>2
    <3> QED BY <2>1, <3>1
  <2>3. CASE a # 0
    <3>1. X[0] = <<>> /\ 0 < a
      BY <1>4, <1>5, <2>3
    <3>2. b \o <<>> = b
      BY <1>1
    <3> QED BY <2>1, <3>1, <3>2
  <2> QED BY <2>2, <2>3
<1>8. ASSUME NEW n \in Nat, n \in S PROVE n + 1 \in S
  <2> SUFFICES ASSUME n + 1 <= MaxMsgs
               PROVE  w[n + 1] = IF n + 1 < a THEN b ELSE b \o x
    OBVIOUS
  <2>1. n + 1 \in 0..MaxMsgs /\ n + 1 # 0 /\ (n + 1) - 1 = n
    OBVIOUS
  <2>2. w[n + 1] = w[n] \o X[n + 1]
    BY <1>2, <2>1 DEF Strung
  <2>3. w[n] = IF n < a THEN b ELSE b \o x
    BY <1>8, <2>1
  <2>4. X[n + 1] = IF n + 1 = a THEN x ELSE <<>>
    BY <1>5, <2>1
  <2>5. b \o <<>> = b /\ (b \o x) \o <<>> = b \o x
    <3>1. b \o x \in Seq(Written(L))
      BY <1>1, <1>6
    <3>2. \A t \in Seq(Written(L)) : t \o <<>> = t
      OBVIOUS
    <3> QED BY <1>1, <3>1, <3>2
  <2>6. CASE n + 1 = a
    <3>1. n < a /\ ~(n + 1 < a)
      BY <1>4, <2>6
    <3> QED BY <2>2, <2>3, <2>4, <2>6, <3>1
  <2>7. CASE n + 1 < a
    <3>1. n < a /\ n + 1 # a
      BY <1>4, <2>7
    <3> QED BY <2>2, <2>3, <2>4, <2>5, <2>7, <3>1
  <2>8. CASE n + 1 > a
    <3>1. ~(n < a) /\ n + 1 # a /\ ~(n + 1 < a)
      BY <1>4, <2>8
    <3> QED BY <2>2, <2>3, <2>4, <2>5, <3>1
  <2> QED BY <1>4, <2>6, <2>7, <2>8
<1>9. MaxMsgs \in S
  <2> HIDE DEF S
  <2> QED BY <1>7, <1>8, NatSetInduction
<1>10. w[MaxMsgs] = b \o x
  <2>1. MaxMsgs \in Nat /\ ~(MaxMsgs < a)
    BY <1>4
  <2> QED BY <1>9, <2>1
<1> QED BY <1>2, <1>10 DEF x, b

\* The leaf names a message that was written.
LEMMA LeafBound ==
  ASSUME NEW L \in Nat, NEW t \in Seq(Written(L))
  PROVE  Leaf(t) \in 0..L
<1> DEFINE I == {i \in 1..Len(t) : t[i].kind = "info"}
<1>1. Leaf(t) = LET i == IF I = {} THEN 0 ELSE Max(I) IN IF i = 0 THEN 0 ELSE t[i].id
  BY DEF Leaf, SelectLastInSeq
<1>2. \A i \in I : i \in 1..Len(t) /\ t[i].id \in 1..L
  BY DEF Written
<1>3. I \subseteq 0..Len(t) /\ Len(t) \in Nat
  OBVIOUS
<1> HIDE DEF I
<1>4. CASE I = {}
  BY <1>1, <1>4
<1>5. CASE I # {}
  <2>1. Max(I) \in I
    BY <1>3, <1>5, HasMax
  <2> QED BY <1>1, <1>2, <1>5, <2>1
<1> QED BY <1>4, <1>5

\* A last line that names a leaf names the leaf.
LEMMA LeafIs ==
  ASSUME NEW L \in Nat, NEW t \in Seq(Written(L)), Len(t) # 0, t[Len(t)].kind = "info"
  PROVE  Leaf(t) = t[Len(t)].id
<1> DEFINE I == {i \in 1..Len(t) : t[i].kind = "info"}
<1>1. Leaf(t) = LET i == IF I = {} THEN 0 ELSE Max(I) IN IF i = 0 THEN 0 ELSE t[i].id
  BY DEF Leaf, SelectLastInSeq
<1>2. I \subseteq Int /\ Len(t) \in I /\ \A i \in I : i <= Len(t)
  OBVIOUS
<1> HIDE DEF I
<1>3. Max(I) = Len(t)
  BY <1>2, MaxIs
<1> QED BY <1>1, <1>2, <1>3

Msgs(t) == {t[i] : i \in {n \in 1..Len(t) : t[n].kind = "msg"}}
Ids(t) == {l.id : l \in Msgs(t)}

\* get_branch walks from message to parent, by the lines the text holds.
BranchWalk(t, c, p) ==
  /\ Branch(t) = c[Leaf(t)]
  /\ Walked(c, Ids(t), p, MaxMsgs)
  /\ \A m \in 0..MaxMsgs : c[m] \in Seq(Nat)
  /\ \A m \in Ids(t) : /\ m \in 1..MaxMsgs /\ p[m] \in 0..(m - 1)
                      /\ \E l \in Msgs(t) : l.id = m /\ l.parent = p[m]

LEMMA BranchWalks ==
  ASSUME NEW L \in 0..MaxMsgs, NEW t \in Seq(Written(L))
  PROVE  \E c, p : BranchWalk(t, c, p)
<1> DEFINE msgs == {i \in 1..Len(t) : t[i].kind = "msg"}
           H == {t[i].id : i \in msgs}
           at == [m \in H |-> Max({i \in msgs : t[i].id = m})]
           p == [m \in H |-> t[at[m]].parent]
           Step(ch, m) == IF m \notin DOMAIN at THEN <<>> ELSE Append(ch[t[at[m]].parent], m)
           IsChain(ch) == ch = [m \in 0..MaxMsgs |-> Step(ch, m)]
           c == CHOOSE ch : IsChain(ch)
<1>1. Branch(t) = c[Leaf(t)]
  BY DEF Branch
<1>2. \A m \in H : m \in 1..MaxMsgs /\ at[m] \in msgs /\ t[at[m]].id = m
  <2> SUFFICES ASSUME NEW m \in H PROVE m \in 1..MaxMsgs /\ at[m] \in msgs /\ t[at[m]].id = m
    OBVIOUS
  <2> DEFINE J == {i \in msgs : t[i].id = m}
  <2>1. PICK i \in msgs : t[i].id = m
    OBVIOUS
  <2>2. m \in 1..MaxMsgs
    <3>1. t[i] \in Written(L)
      OBVIOUS
    <3> QED BY <2>1, <3>1 DEF Written
  <2>3. J \subseteq 0..Len(t) /\ J # {} /\ Len(t) \in Nat
    BY <2>1
  <2>4. at[m] = Max(J)
    OBVIOUS
  <2>5. \A j \in J : j \in msgs /\ t[j].id = m
    OBVIOUS
  <2> HIDE DEF J, at, msgs, H
  <2>6. Max(J) \in J
    BY <2>3, HasMax
  <2> QED BY <2>2, <2>4, <2>5, <2>6
<1>3. \A m \in H : /\ m \in 1..MaxMsgs /\ p[m] \in 0..(m - 1)
                  /\ \E l \in Msgs(t) : l.id = m /\ l.parent = p[m]
  <2> SUFFICES ASSUME NEW m \in H
               PROVE  /\ m \in 1..MaxMsgs /\ p[m] \in 0..(m - 1)
                      /\ \E l \in Msgs(t) : l.id = m /\ l.parent = p[m]
    OBVIOUS
  <2>1. at[m] \in 1..Len(t) /\ t[at[m]].kind = "msg" /\ t[at[m]].id = m /\ m \in 1..MaxMsgs
    BY <1>2
  <2> DEFINE j == at[m]
  <2>2. p[m] = t[j].parent
    OBVIOUS
  <2> HIDE DEF j
  <2>3. t[j] \in Written(L)
    BY <2>1 DEF j
  <2>4. t[j].parent \in Nat /\ t[j].parent < t[j].id
    <3>1. \A l \in Written(L) : l.kind = "msg" => l.parent \in Nat /\ l.parent < l.id
      BY DEF Written, Line
    <3>2. t[j].kind = "msg"
      BY <2>1 DEF j
    <3> QED BY ONLY <2>3, <3>1, <3>2
  <2>5. \A i \in 1..Len(t) : t[i].kind = "msg" => t[i] \in Msgs(t)
    BY DEF Msgs
  <2> HIDE DEF p, at, H, msgs
  <2>6. t[j].id = m /\ m \in Nat /\ t[j] \in Msgs(t)
    BY <2>1, <2>5 DEF j
  <2> QED BY <2>1, <2>2, <2>4, <2>6
<1>4. \A ch : \A m : Step(ch, m) = IF m \notin H THEN <<>> ELSE Append(ch[p[m]], m)
  OBVIOUS
<1>5. H = Ids(t)
  BY DEF Ids, Msgs
<1> HIDE DEF msgs, H, at, p, Step
<1>7. PICK v \in [0..MaxMsgs -> Seq(Nat)] : Walked(v, H, p, MaxMsgs)
  BY <1>3, WalkExists
<1>8. IsChain(v)
  BY <1>4, <1>7 DEF Walked
<1>9. IsChain(c)
  BY <1>8
<1> HIDE DEF c
<1>10. Walked(c, H, p, MaxMsgs)
  BY <1>4, <1>9 DEF Walked
<1>11. \A m \in 0..MaxMsgs : c[m] \in Seq(Nat)
  BY <1>3, <1>10, WalkIn
<1>12. BranchWalk(t, c, p)
  BY <1>1, <1>3, <1>5, <1>10, <1>11 DEF BranchWalk
<1> QED BY <1>12

LEMMA LastOfAppend ==
  ASSUME NEW S, NEW q \in Seq(S), NEW x \in S
  PROVE  Append(q, x) # <<>> /\ Last(Append(q, x)) = x
<1>1. Len(Append(q, x)) = Len(q) + 1 /\ Append(q, x)[Len(q) + 1] = x /\ Len(q) \in Nat /\ Len(<<>>) = 0
  OBVIOUS
<1>2. Last(Append(q, x)) = x
  BY <1>1 DEF Last
<1> QED BY <1>1, <1>2

\* get_branch returns a history that ends with the leaf, if the text holds it.
LEMMA BranchEnds ==
  ASSUME NEW L \in 0..MaxMsgs, NEW t \in Seq(Written(L)), Leaf(t) \in Ids(t)
  PROVE  Branch(t) # <<>> /\ Last(Branch(t)) = Leaf(t)
<1>1. PICK c, p : BranchWalk(t, c, p)
  BY BranchWalks
<1> DEFINE m == Leaf(t)
<1>2. m \in 0..MaxMsgs /\ m \in Nat /\ p[m] \in 0..MaxMsgs
  BY <1>1 DEF BranchWalk
<1>3. Branch(t) = Append(c[p[m]], m) /\ c[p[m]] \in Seq(Nat)
  BY <1>1, <1>2 DEF Walked, BranchWalk
<1> QED BY <1>2, <1>3, LastOfAppend

-----------------------------------------------------------------------------
(* The types of the variables, and what the writes under way hold.         *)

OkEntry(L) == {e \in Entry : ObjectOK(L, e.key, e.val)}

\* The key of the write append() is about to enqueue.
InHand == IF pc = "log" THEN Log(logIdx) ELSE IF pc = "base" THEN Base ELSE Mark

Stores == StoreOK(lastId, cache) /\ StoreOK(lastId, bucket) /\ StoreOK(lastId, snap)
Writing == /\ queue \in Seq(OkEntry(lastId))
           /\ held = NoItem \/ held \in OkEntry(lastId)
           /\ dead \subseteq Key
Appending ==
  /\ pc \in {"idle", "log", "base", "mark", "down"}
  /\ logIdx \in LogIdx /\ buf \in Seq(Line)
  /\ pc \in {"log", "base", "mark"} => logIdx < lastId /\ ObjectOK(lastId, InHand, buf)
Counters ==
  /\ warning \in {"none", "truncated", "quarantined"}
  /\ lastId \in 0..MaxMsgs /\ forgotten \in 0..lastId
  /\ deleting \in BOOLEAN /\ leftover \in BOOLEAN
  /\ reboots \in 0..MaxReboots
Typed == Stores /\ Writing /\ Appending /\ Counters

LEMMA ObjectLines ==
  ASSUME NEW L, NEW k, NEW text, ObjectOK(L, k, text)
  PROVE  text \in Seq(Line)
<1>1. Written(L) \subseteq Line
  BY DEF Written
<1>2. CASE k = Mark
  BY <1>2 DEF ObjectOK
<1>3. CASE k # Mark
  <2>1. text \in Seq(Written(L))
    BY <1>3 DEF ObjectOK
  <2> QED BY <1>1, <2>1
<1> QED BY <1>2, <1>3

LEMMA EntriesGrow ==
  ASSUME NEW L \in Nat
  PROVE  OkEntry(L) \subseteq OkEntry(L + 1) /\ Seq(OkEntry(L)) \subseteq Seq(OkEntry(L + 1))
<1>1. OkEntry(L) \subseteq OkEntry(L + 1)
  BY Grows DEF OkEntry
<1> QED BY <1>1

\* A write that is admitted keeps the queue well formed.
LEMMA CoalesceOK ==
  ASSUME NEW L, NEW q \in Seq(OkEntry(L)), NEW k \in Key, NEW text, ObjectOK(L, k, text)
  PROVE  Coalesce(q, [key |-> k, val |-> text, retry |-> 0, tries |-> 0]) \in Seq(OkEntry(L))
<1> DEFINE e == [key |-> k, val |-> text, retry |-> 0, tries |-> 0]
           F == FirstSlot(q, k)
           new(x) == [key |-> k, val |-> text, retry |-> x.retry, tries |-> 0]
<1>1. e \in OkEntry(L)
  BY ObjectLines DEF OkEntry, Entry
<1>2. \A x \in OkEntry(L) : new(x) \in OkEntry(L)
  BY ObjectLines DEF OkEntry, Entry
<1>3. e.key = k /\ e.val = text
  OBVIOUS
<1>4. Coalesce(q, e) = IF Slots(q, k) = {} THEN Append(q, e)
                       ELSE [i \in 1..Len(q) |-> IF i = F THEN new(q[i]) ELSE q[i]]
  <2>1. DOMAIN q = 1..Len(q)
    OBVIOUS
  <2> HIDE DEF F
  <2> QED BY <2>1 DEF Coalesce, F
<1> HIDE DEF e, F, new
<1>5. Append(q, e) \in Seq(OkEntry(L))
  BY <1>1
<1>6. \A i \in 1..Len(q) : (IF i = F THEN new(q[i]) ELSE q[i]) \in OkEntry(L)
  BY <1>2
<1>7. [i \in 1..Len(q) |-> IF i = F THEN new(q[i]) ELSE q[i]] \in Seq(OkEntry(L))
  <2>1. Len(q) \in Nat
    OBVIOUS
  <2> QED BY <1>6, <2>1
<1>8. Coalesce(q, e) \in Seq(OkEntry(L))
  BY <1>4, <1>5, <1>7
<1> QED BY <1>8 DEF e

LEMMA HydrationsOK ==
  ASSUME NEW L, StoreOK(L, cache), StoreOK(L, bucket), NEW c \in Hydrations
  PROVE  StoreOK(L, c)
<1>1. CASE Text(cache) # <<>>
  BY <1>1 DEF Hydrations
<1>2. CASE Text(cache) = <<>>
  <2>1. PICK g \in SUBSET (DOMAIN bucket \ DOMAIN cache) :
          c = [k \in DOMAIN cache \cup g |-> IF k \in DOMAIN cache THEN cache[k] ELSE bucket[k]]
    BY <1>2 DEF Hydrations
  <2> QED BY <2>1 DEF StoreOK
<1> QED BY <1>1, <1>2

LEMMA DeletionsOK ==
  ASSUME NEW L, StoreOK(L, bucket), NEW b \in Deletions
  PROVE  StoreOK(L, b)
BY OnlyOK, NoObjectsOK DEF Deletions

LEMMA EscalationsOK ==
  ASSUME NEW L, StoreOK(L, bucket), NEW c \in Escalations
  PROVE  StoreOK(L, c)
<1>1. CASE c = NoObjects
  BY <1>1, NoObjectsOK
<1>2. CASE \E keys : c = Only(bucket, keys)
  BY <1>2, OnlyOK
<1>3. c = NoObjects \/ \E keys : c = Only(bucket, keys)
  BY DEF Escalations
<1> QED BY <1>1, <1>2, <1>3

\* The tail of a log that L4 keeps.
LEMMA TailOK ==
  ASSUME NEW L, StoreOK(L, bucket), LogsOf(bucket) # {}
  PROVE  LET top == Log(Max(LogsOf(bucket)))
         IN top \in Key /\ ObjectOK(L, top, TailOf(bucket[top]))
<1> DEFINE i == Max(LogsOf(bucket))
           top == Log(i)
           text == bucket[top]
           from == (IF Len(text) > CompactAt THEN Len(text) - CompactAt ELSE 0) + 2
<1>1. i \in LogsOf(bucket)
  <2>1. LogsOf(bucket) \subseteq 0..MaxMsgs
    BY DEF LogsOf, LogIdx
  <2> QED BY <2>1, HasMax
<1>2. i \in LogIdx /\ top \in DOMAIN bucket
  BY <1>1 DEF LogsOf
<1>3. top \in Key /\ top # Mark
  BY <1>2, Keys
<1>4. text \in Seq(Written(L))
  BY <1>2, <1>3 DEF StoreOK, ObjectOK
<1> HIDE DEF i, top, text
<1>5. from \in Nat /\ from >= 2
  BY <1>4
<1>6. TailOf(text) = SubSeq(text, from, Len(text))
  BY DEF TailOf
<1> HIDE DEF from
<1>7. SubSeq(text, from, Len(text)) \in Seq(Written(L))
  <2>1. \A j \in from..Len(text) : text[j] \in Written(L)
    BY <1>4, <1>5
  <2>2. from \in Int /\ Len(text) \in Int
    BY <1>4, <1>5
  <2> QED BY <1>4, <1>5, <2>1, <2>2
<1> QED BY <1>3, <1>6, <1>7 DEF ObjectOK, i, top, text

LEMMA TypedInit == Init => Typed
<1> SUFFICES ASSUME Init PROVE Typed
  OBVIOUS
<1>1. Stores
  BY NoObjectsOK DEF Init, Stores
<1>2. <<>> \in Seq(OkEntry(0)) /\ <<>> \in Seq(Line)
  OBVIOUS
<1>3. Writing
  BY <1>2 DEF Init, Writing
<1>4. 0 \in LogIdx /\ 0 \in 0..MaxMsgs /\ 0 \in 0..MaxReboots
  BY DEF LogIdx
<1>5. Appending
  BY <1>2, <1>4 DEF Init, Appending
<1>6. Counters
  <2>1. 0 \in 0..0 /\ FALSE \in BOOLEAN
    OBVIOUS
  <2>2. lastId \in 0..MaxMsgs /\ forgotten \in 0..lastId /\ reboots \in 0..MaxReboots
    BY <1>4, <2>1 DEF Init
  <2>3. deleting \in BOOLEAN /\ leftover \in BOOLEAN /\ warning \in {"none", "truncated", "quarantined"}
    BY <2>1 DEF Init
  <2> QED BY <2>2, <2>3 DEF Counters
<1> QED BY <1>1, <1>3, <1>5, <1>6 DEF Typed

LEMMA TypedAppend == Typed /\ AppendMsg => Typed'
<1> SUFFICES ASSUME Typed, AppendMsg PROVE Typed'
  OBVIOUS
<1> USE DEF Typed
<1>1. lastId \in Nat /\ lastId + 1 \in 0..MaxMsgs /\ lastId' = lastId + 1 /\ pc' = "log"
  BY DEF AppendMsg, Counters
<1> DEFINE m == lastId + 1
           grown(c) == Get(c, Log(Absorbed(c) + 1))
                       \o <<MsgLine(m, Leaf(Text(c))), InfoLine(m)>>
<1>2. PICK c \in Hydrations :
        /\ cache' = Put(c, Log(Absorbed(c) + 1), grown(c))
        /\ buf' = grown(c)
        /\ logIdx' = Absorbed(c) + 1
  BY DEF AppendMsg
<1>3. StoreOK(lastId, c)
  BY HydrationsOK DEF Stores
<1>4. Absorbed(c) + 1 \in 0..lastId
  BY <1>1, <1>3, AbsorbedBound
<1>5. Absorbed(c) + 1 \in LogIdx
  BY <1>1, <1>4 DEF LogIdx
<1>6. Leaf(Text(c)) \in 0..lastId
  BY <1>1, <1>3, TextWritten, LeafBound
<1>7. MsgLine(m, Leaf(Text(c))) \in Written(m) /\ InfoLine(m) \in Written(m)
  BY <1>1, <1>6 DEF Written, Line, MsgLine, InfoLine
<1>8. grown(c) \in Seq(Written(m))
  <2>1. Get(c, Log(Absorbed(c) + 1)) \in Seq(Written(lastId))
    BY <1>1, <1>3, LinesOfObject, Keys
  <2>2. Get(c, Log(Absorbed(c) + 1)) \in Seq(Written(m))
    BY <1>1, <2>1, Grows
  <2> QED BY <1>7, <2>2
<1>9. ObjectOK(m, Log(Absorbed(c) + 1), grown(c))
  BY <1>8, Keys DEF ObjectOK
<1>10. StoreOK(m, c) /\ StoreOK(m, bucket) /\ StoreOK(m, snap)
  BY <1>1, <1>3, Grows DEF Stores
<1>11. Stores'
  <2>1. StoreOK(m, Put(c, Log(Absorbed(c) + 1), grown(c)))
    BY <1>5, <1>9, <1>10, Keys, PutOK
  <2> QED BY <1>1, <1>2, <1>10, <2>1 DEF Stores, AppendMsg
<1>12. Writing'
  <2>1. OkEntry(lastId) \subseteq OkEntry(m) /\ Seq(OkEntry(lastId)) \subseteq Seq(OkEntry(m))
    BY <1>1, EntriesGrow
  <2> QED BY <1>1, <2>1 DEF Writing, AppendMsg
<1>13. Appending'
  <2>1. buf' \in Seq(Line)
    BY <1>2, <1>9, ObjectLines
  <2>2. InHand' = Log(Absorbed(c) + 1)
    BY <1>1, <1>2 DEF InHand
  <2>3. logIdx' < lastId'
    BY <1>1, <1>2, <1>4
  <2> HIDE DEF grown
  <2> QED BY <1>1, <1>2, <1>5, <1>9, <2>1, <2>2, <2>3 DEF Appending
<1>14. Counters'
  BY <1>1 DEF Counters, AppendMsg
<1> QED BY <1>11, <1>12, <1>13, <1>14

LEMMA TypedAgent == Typed /\ Agent => Typed'
<1> SUFFICES ASSUME Typed, Agent PROVE Typed'
  OBVIOUS
<1> USE DEF Typed
<1>1. lastId \in Nat /\ Base \in Key /\ Mark \in Key /\ Base # Mark /\ <<>> \in Seq(Line)
  BY Keys DEF Counters
<1>2. CASE EnqueueLog
  <2>1. pc = "log" /\ logIdx \in LogIdx /\ logIdx < lastId /\ ObjectOK(lastId, Log(logIdx), buf)
    BY <1>2 DEF EnqueueLog, Appending, InHand
  <2>2. queue' \in Seq(OkEntry(lastId))
    BY <1>2, <2>1, CoalesceOK, Keys DEF EnqueueLog, Enqueue, Writing
  <2>3. Writing'
    BY <1>2, <2>2 DEF EnqueueLog, Writing
  <2>4. Counters'
    BY <1>2 DEF EnqueueLog, Counters
  <2>5. CASE Len(buf) >= CompactAt
    <3> DEFINE base == Get(cache, Base) \o Get(cache, Log(logIdx))
    <3>1. base \in Seq(Written(lastId))
      <4>1. Get(cache, Base) \in Seq(Written(lastId)) /\ Get(cache, Log(logIdx)) \in Seq(Written(lastId))
        BY <1>1, LinesOfObject, Keys DEF Stores
      <4> QED BY <4>1
    <3> HIDE DEF base
    <3>2. ObjectOK(lastId, Base, base)
      BY <1>1, <3>1 DEF ObjectOK
    <3>3. buf' = base /\ cache' = Put(cache, Base, base) /\ pc' = "base" /\ logIdx' = logIdx
          /\ lastId' = lastId /\ InHand' = Base
      BY <1>2, <2>5 DEF EnqueueLog, base, InHand
    <3>4. Stores'
      BY <1>1, <1>2, <3>2, <3>3, PutOK DEF Stores, EnqueueLog
    <3>5. Appending'
      BY <2>1, <3>2, <3>3, ObjectLines DEF Appending
    <3> QED BY <2>3, <2>4, <3>4, <3>5
  <2>6. CASE ~(Len(buf) >= CompactAt)
    <3>1. Stores' /\ Appending'
      BY <1>1, <1>2, <2>1, <2>6 DEF Stores, EnqueueLog, Appending
    <3> QED BY <2>3, <2>4, <3>1
  <2> QED BY <2>5, <2>6
<1>3. CASE EnqueueBase
  <2>1. pc = "base" /\ logIdx \in LogIdx /\ logIdx < lastId /\ ObjectOK(lastId, Base, buf)
    BY <1>3 DEF EnqueueBase, Appending, InHand
  <2>2. queue' \in Seq(OkEntry(lastId))
    BY <1>1, <1>3, <2>1, CoalesceOK DEF EnqueueBase, Enqueue, Writing
  <2>3. Writing' /\ Counters'
    BY <1>3, <2>2 DEF EnqueueBase, Writing, Counters
  <2>4. ObjectOK(lastId, Mark, MarkText(logIdx))
    <3>1. [kind |-> "mark", id |-> logIdx, parent |-> 0] \in Line
      BY <2>1 DEF Line, LogIdx
    <3> QED BY <2>1, <3>1 DEF ObjectOK, MarkText
  <2>5. Stores'
    BY <1>1, <1>3, <2>4, PutOK DEF Stores, EnqueueBase
  <2>6. Appending'
    <3>1. buf' = MarkText(logIdx) /\ pc' = "mark" /\ logIdx' = logIdx /\ lastId' = lastId
          /\ InHand' = Mark
      BY <1>3 DEF EnqueueBase, InHand
    <3> QED BY <2>1, <2>4, <3>1, ObjectLines DEF Appending
  <2> QED BY <2>3, <2>5, <2>6
<1>4. CASE EnqueueMark
  <2>1. pc = "mark" /\ ObjectOK(lastId, Mark, buf)
    BY <1>4 DEF EnqueueMark, Appending, InHand
  <2>2. queue' \in Seq(OkEntry(lastId))
    BY <1>1, <1>4, <2>1, CoalesceOK DEF EnqueueMark, Enqueue, Writing
  <2>3. Writing' /\ Counters'
    BY <1>4, <2>2 DEF EnqueueMark, Writing, Counters
  <2>4. Stores' /\ Appending'
    BY <1>1, <1>4 DEF EnqueueMark, Stores, Appending
  <2> QED BY <2>3, <2>4
<1> QED BY <1>2, <1>3, <1>4 DEF Agent

LEMMA TypedDrain == Typed /\ Drain => Typed'
<1> SUFFICES ASSUME Typed, Drain PROVE Typed'
  OBVIOUS
<1> USE DEF Typed
<1>1. \A q \in Seq(OkEntry(lastId)) : q # <<>> => Head(q) \in OkEntry(lastId) /\ Tail(q) \in Seq(OkEntry(lastId))
  OBVIOUS
<1>2. CASE DrainPop
  <2>1. Writing'
    BY <1>1, <1>2 DEF DrainPop, Writing
  <2>2. Stores' /\ Appending' /\ Counters'
    BY <1>2 DEF DrainPop, Stores, Appending, InHand, Counters
  <2> QED BY <2>1, <2>2
<1>3. ASSUME held # NoItem
      PROVE  StoreOK(lastId, Put(bucket, held.key, held.val)) /\ held \in OkEntry(lastId)
  <2>1. held \in Entry /\ ObjectOK(lastId, held.key, held.val)
    BY <1>3 DEF Writing, OkEntry
  <2>2. held.key \in Key
    BY <2>1 DEF Entry
  <2> QED BY <1>3, <2>1, <2>2, PutOK DEF Stores, OkEntry
<1>4. CASE DrainPut
  <2>1. Stores' /\ Writing'
    BY <1>3, <1>4 DEF DrainPut, Stores, Writing
  <2>2. Appending' /\ Counters'
    BY <1>4 DEF DrainPut, Appending, InHand, Counters
  <2> QED BY <2>1, <2>2
<1>5. CASE DrainFail
  <2>1. Stores'
    BY <1>3, <1>5 DEF DrainFail, Stores
  <2>2. Appending' /\ Counters'
    BY <1>5 DEF DrainFail, Appending, InHand, Counters
  <2>3. held \in OkEntry(lastId) /\ held' = NoItem /\ lastId' = lastId
    BY <1>3, <1>5 DEF DrainFail
  <2>4. CASE held.retry + 1 > RetryMax
    <3>1. held.key \in Key
      BY <2>3 DEF OkEntry, Entry
    <3>2. queue' = queue /\ dead' = dead \cup {held.key}
      BY <1>5, <2>4 DEF DrainFail
    <3>3. Writing'
      BY <2>3, <3>1, <3>2 DEF Writing
    <3> QED BY <2>1, <2>2, <3>3
  <2>5. CASE ~(held.retry + 1 > RetryMax)
    <3> DEFINE again == [held EXCEPT !.retry = @ + 1]
    <3>1. again \in OkEntry(lastId)
      <4>1. held \in Entry /\ ObjectOK(lastId, held.key, held.val)
        BY <2>3 DEF OkEntry
      <4>2. again = [key |-> held.key, val |-> held.val, retry |-> held.retry + 1, tries |-> held.tries]
        BY <4>1 DEF Entry
      <4>3. held.retry + 1 \in 0..RetryMax
        BY <2>5, <4>1 DEF Entry
      <4>4. again \in Entry
        BY <4>1, <4>2, <4>3 DEF Entry
      <4> QED BY <4>1, <4>2, <4>4 DEF OkEntry
    <3>2. queue' = <<again>> \o queue /\ dead' = dead
      BY <1>5, <2>5 DEF DrainFail, PushFront
    <3> HIDE DEF again
    <3>3. <<again>> \o queue \in Seq(OkEntry(lastId))
      BY <3>1 DEF Writing
    <3> QED BY <2>1, <2>2, <2>3, <3>2, <3>3 DEF Writing
  <2> QED BY <2>1, <2>2, <2>4, <2>5
<1> QED BY <1>2, <1>4, <1>5 DEF Drain

LEMMA TypedRest ==
  Typed /\ (Clear \/ DeleteBucket \/ DeleteCache \/ TakeSnapshot \/ Crash \/ UNCHANGED vars)
    => Typed'
<1> SUFFICES ASSUME Typed,
                    Clear \/ DeleteBucket \/ DeleteCache \/ TakeSnapshot \/ Crash \/ UNCHANGED vars
             PROVE  Typed'
  OBVIOUS
<1> USE DEF Typed
<1>1. CASE Clear
  <2>1. Stores'
    BY <1>1, OnlyOK DEF Clear, Stores
  <2> QED BY <1>1, <2>1 DEF Clear, Writing, Appending, InHand, Counters
<1>2. CASE DeleteBucket
  <2>1. Stores'
    BY <1>2, DeletionsOK DEF DeleteBucket, Stores
  <2> QED BY <1>2, <2>1 DEF DeleteBucket, Writing, Appending, InHand, Counters
<1>3. CASE DeleteCache
  <2>1. Stores'
    BY <1>3, OnlyOK DEF DeleteCache, Stores
  <2>2. leftover' \in BOOLEAN /\ deleting' \in BOOLEAN
    BY <1>3 DEF DeleteCache
  <2>3. forgotten' \in 0..lastId' /\ UNCHANGED <<queue, held, dead, pc, logIdx, buf, warning, lastId, reboots>>
    BY <1>3 DEF DeleteCache, Counters
  <2> QED BY <2>1, <2>2, <2>3 DEF Writing, Appending, InHand, Counters
<1>4. CASE TakeSnapshot
  BY <1>4 DEF TakeSnapshot, Stores, Writing, Appending, InHand, Counters
<1>5. CASE Crash
  <2>1. Stores'
    BY <1>5, NoObjectsOK DEF Crash, Stores
  <2>2. <<>> \in Seq(OkEntry(lastId)) /\ <<>> \in Seq(Line)
    OBVIOUS
  <2>3. Writing'
    BY <1>5, <2>2 DEF Crash, Writing
  <2>4. 0 \in LogIdx /\ reboots + 1 \in 0..MaxReboots
    BY <1>5 DEF Crash, Counters, LogIdx
  <2>5. Appending'
    BY <1>5, <2>2, <2>4 DEF Crash, Appending
  <2>6. Counters'
    BY <1>5, <2>4 DEF Crash, Counters
  <2> QED BY <2>1, <2>3, <2>5, <2>6
<1>6. CASE UNCHANGED vars
  BY <1>6 DEF vars, Stores, Writing, Appending, InHand, Counters
<1> QED BY <1>1, <1>2, <1>3, <1>4, <1>5, <1>6

LEMMA TypedBoot == Typed /\ Boot => Typed'
<1> SUFFICES ASSUME Typed, Boot PROVE Typed'
  OBVIOUS
<1> USE DEF Typed
<1>1. Booted
  BY DEF Boot, BootFull, BootSnapshot, BootSkip, BootTail, BootQuarantine
<1>2. Writing' /\ Appending'
  BY <1>1 DEF Booted, Writing, Appending
<1>3. Counters'
  <2>1. warning' \in {"none", "truncated", "quarantined"}
    BY DEF Boot, BootFull, BootSnapshot, BootSkip, BootTail, BootQuarantine
  <2> QED BY <1>1, <2>1 DEF Booted, Counters
<1>4. StoreOK(lastId, cache') /\ StoreOK(lastId, bucket')
  <2>1. CASE BootFull
    BY <2>1 DEF BootFull, Stores
  <2>2. CASE BootSnapshot
    BY <2>2 DEF BootSnapshot, Stores
  <2>3. CASE BootSkip
    BY <2>3, NoObjectsOK DEF BootSkip, Stores
  <2>4. CASE BootTail
    <3>1. PICK partial \in Escalations :
            cache' = Put(partial, Log(Max(LogsOf(bucket))), TailOf(bucket[Log(Max(LogsOf(bucket)))]))
      BY <2>4 DEF BootTail
    <3>2. StoreOK(lastId, partial)
      BY EscalationsOK DEF Stores
    <3>3. bucket' = bucket /\ LogsOf(bucket) # {}
      BY <2>4 DEF BootTail
    <3> QED BY <3>1, <3>2, <3>3, TailOK, PutOK DEF Stores
  <2>5. CASE BootQuarantine
    BY <2>5, EscalationsOK, DeletionsOK DEF BootQuarantine, Stores
  <2> QED BY <2>1, <2>2, <2>3, <2>4, <2>5 DEF Boot
<1>5. Stores'
  BY <1>1, <1>4 DEF Booted, Stores
<1> QED BY <1>2, <1>3, <1>5

LEMMA TypedNext == Typed /\ [Next]_vars => Typed'
BY TypedAppend, TypedAgent, TypedDrain, TypedRest, TypedBoot DEF Next

LEMMA AlwaysTyped == Spec => []Typed
<1>1. Init => Typed
  BY TypedInit
<1>2. Typed /\ [Next]_vars => Typed'
  BY TypedNext
<1> QED BY <1>1, <1>2, PTL DEF Spec

\* The types of the variables, and that a mark is one line.
THEOREM TypeCorrect == Spec => []TypeOK
<1>1. ASSUME NEW L \in 0..MaxMsgs, NEW s, StoreOK(L, s)
      PROVE  IsStore(s) /\ (Mark \in DOMAIN s => Len(s[Mark]) = 1)
  BY <1>1, ObjectLines DEF StoreOK, IsStore, ObjectOK
<1>2. Typed => TypeOK
  <2> SUFFICES ASSUME Typed PROVE TypeOK
    OBVIOUS
  <2>1. lastId \in 0..MaxMsgs
    BY DEF Typed, Counters
  <2>2. IsStore(cache) /\ IsStore(bucket) /\ IsStore(snap)
        /\ \A s \in {cache, bucket, snap} : Mark \in DOMAIN s => Len(s[Mark]) = 1
    BY <1>1, <2>1 DEF Typed, Stores
  <2>3. queue \in Seq(Entry) /\ (held = NoItem \/ held \in Entry) /\ dead \subseteq Key
    BY DEF Typed, Writing, OkEntry
  <2> QED BY <2>2, <2>3 DEF Typed, Appending, Counters, TypeOK
<1> QED BY <1>2, AlwaysTyped, PTL

-----------------------------------------------------------------------------
(* What was sent is read.                                                  *)

\* A text whose last append is that of the newest message.
Ends(t) ==
  /\ Len(t) > 1 /\ t[Len(t)].kind = "info" /\ t[Len(t)].id = lastId
  /\ t[Len(t) - 1].kind = "msg" /\ t[Len(t) - 1].id = lastId

\* No trace of the chat: before its first message, or cleanly deleted.
Fresh ==
  /\ DOMAIN cache = {} /\ DOMAIN bucket = {} /\ queue = <<>> /\ held = NoItem
  /\ pc = "idle" /\ ~deleting /\ forgotten = lastId

Active == Absorbed(cache) + 1
Newest == IF Log(Active) \in DOMAIN cache THEN cache[Log(Active)] ELSE Get(cache, Base)

\* The cache holds no log past the active one, and the newest message is at
\* the end of it, or of the base that has just absorbed it.
Lively ==
  /\ pc # "down"
  /\ \A i \in LogIdx : Log(i) \in DOMAIN cache => i <= Active
  /\ pc \in {"log", "base"} => logIdx = Active /\ Log(Active) \in DOMAIN cache
  /\ pc = "base" => Ends(Get(cache, Base))
  /\ Ends(Newest)

Lives == reboots = 0 /\ ~leftover => Fresh \/ Lively

LEMMA EndsOnBranch ==
  ASSUME NEW t \in Seq(Written(lastId)), lastId \in 0..MaxMsgs, Ends(t)
  PROVE  Branch(t) # <<>> /\ Last(Branch(t)) = lastId
<1>1. lastId \in Nat /\ Len(t) \in Nat /\ Len(t) - 1 \in 1..Len(t) /\ Len(t) # 0
  BY DEF Ends
<1>2. Leaf(t) = lastId
  BY <1>1, LeafIs DEF Ends
<1>3. Leaf(t) \in Ids(t)
  BY <1>1, <1>2 DEF Ends, Ids, Msgs
<1> QED BY <1>1, <1>2, <1>3, BranchEnds

\* A lively chat reads as a text that ends with the newest message.
LEMMA LivelyText ==
  ASSUME Typed, Lively
  PROVE  Text(cache) \in Seq(Written(lastId)) /\ Ends(Text(cache)) /\ Text(cache) # <<>>
<1>1. lastId \in Nat /\ lastId \in 0..MaxMsgs /\ StoreOK(lastId, cache)
  BY DEF Typed, Stores, Counters
<1>2. Text(cache) = Get(cache, Base) \o Get(cache, Log(Active))
  BY <1>1, TextOfTwo DEF Lively, Active
<1>3. Get(cache, Base) \in Seq(Written(lastId)) /\ Get(cache, Log(Active)) \in Seq(Written(lastId))
  BY <1>1, LinesOfObject, Keys
<1> DEFINE b == Get(cache, Base)
           x == Get(cache, Log(Active))
<1>4. Ends(IF x # <<>> THEN x ELSE b)
  <2>1. CASE Log(Active) \in DOMAIN cache
    <3>1. x = cache[Log(Active)] /\ Ends(x)
      BY <2>1 DEF Get, Lively, Newest
    <3>2. x # <<>>
      BY <3>1 DEF Ends
    <3> QED BY <3>1, <3>2
  <2>2. CASE Log(Active) \notin DOMAIN cache
    BY <2>2 DEF Get, Lively, Newest
  <2> QED BY <2>1, <2>2
<1>5. b \in Seq(Written(lastId)) /\ x \in Seq(Written(lastId)) /\ Text(cache) = b \o x
  BY <1>2, <1>3
<1> HIDE DEF b, x
<1>6. Text(cache) \in Seq(Written(lastId))
  BY <1>5
<1>7. Ends(Text(cache))
  <2>1. CASE x = <<>>
    <3>1. Text(cache) = b
      BY <1>5, <2>1
    <3> QED BY <1>4, <2>1, <3>1
  <2>2. CASE x # <<>>
    <3>1. Len(b \o x) = Len(b) + Len(x) /\ Len(b) \in Nat /\ Len(x) \in Nat
      BY <1>5
    <3>2. \A j \in 1..Len(x) : (b \o x)[Len(b) + j] = x[j]
      BY <1>5
    <3>3. Ends(x)
      BY <1>4, <2>2
    <3>4. Len(x) > 1 /\ Len(x) \in 1..Len(x) /\ Len(x) - 1 \in 1..Len(x)
      BY <3>1, <3>3 DEF Ends
    <3>5. (b \o x)[Len(b \o x)] = x[Len(x)] /\ (b \o x)[Len(b \o x) - 1] = x[Len(x) - 1]
          /\ Len(b \o x) > 1
      <4>1. Len(b \o x) - 1 = Len(b) + (Len(x) - 1)
        BY <3>1
      <4> QED BY <3>1, <3>2, <3>4, <4>1
    <3> QED BY <1>5, <3>3, <3>5 DEF Ends
  <2> QED BY <2>1, <2>2
<1> QED BY <1>6, <1>7 DEF Ends

\* Nothing is hydrated while the cache holds what was sent.
LEMMA HydratesNothing ==
  ASSUME Typed, Fresh \/ Lively, NEW c \in Hydrations
  PROVE  c = cache
<1>1. CASE Lively
  BY <1>1, LivelyText DEF Hydrations
<1>2. CASE Fresh
  <2>1. cache = [k \in DOMAIN cache |-> cache[k]]
    BY DEF Typed, Stores, StoreOK
  <2>2. CASE Text(cache) # <<>>
    BY <2>2 DEF Hydrations
  <2>3. CASE Text(cache) = <<>>
    <3>1. PICK g \in SUBSET (DOMAIN bucket \ DOMAIN cache) :
            c = [k \in DOMAIN cache \cup g |-> IF k \in DOMAIN cache THEN cache[k] ELSE bucket[k]]
      BY <2>3 DEF Hydrations
    <3>2. g = {}
      BY <1>2, <3>1 DEF Fresh
    <3>3. c = [k \in DOMAIN cache |-> cache[k]]
      BY <3>1, <3>2
    <3> QED BY <2>1, <3>3
  <2> QED BY <2>2, <2>3
<1> QED BY <1>1, <1>2

LEMMA LivesAppend == Typed /\ Lives /\ AppendMsg => Lives'
<1> SUFFICES ASSUME Typed, Lives, AppendMsg PROVE Lives'
  OBVIOUS
<1>a. reboots' = reboots /\ leftover' = leftover
  BY DEF AppendMsg
<1> SUFFICES ASSUME reboots = 0, ~leftover PROVE Lively'
  BY <1>a DEF Lives
<1>0. Fresh \/ Lively
  BY DEF Lives
<1> DEFINE i == Absorbed(cache) + 1
           m == lastId + 1
           l1 == MsgLine(m, Leaf(Text(cache)))
           l2 == InfoLine(m)
           old == Get(cache, Log(i))
           grown == old \o <<l1, l2>>
<1>1. cache' = Put(cache, Log(i), grown) /\ buf' = grown /\ logIdx' = i
      /\ lastId' = m /\ pc' = "log"
  BY <1>0, HydratesNothing DEF AppendMsg
<1>2. lastId \in Nat /\ StoreOK(lastId, cache)
  BY DEF Typed, Counters, Stores
<1>3. old \in Seq(Written(lastId))
  BY <1>2, LinesOfObject, Keys
<1>4. l1.kind = "msg" /\ l1.id = m /\ l2.kind = "info" /\ l2.id = m
  BY DEF MsgLine, InfoLine
<1> HIDE DEF l1, l2, old, i
<1>5. Len(grown) = Len(old) + 2 /\ grown[Len(old) + 1] = l1 /\ grown[Len(old) + 2] = l2 /\ Len(old) \in Nat
  BY <1>3
<1> HIDE DEF grown
<1>6. (Len(old) + 2) - 1 = Len(old) + 1 /\ Len(old) + 2 > 1
  BY <1>5
<1>7. DOMAIN cache' = DOMAIN cache \cup {Log(i)} /\ cache'[Log(i)] = grown
      /\ \A k \in DOMAIN cache : k # Log(i) => cache'[k] = cache[k]
  BY <1>1 DEF Put
<1>8. Absorbed(cache') = Absorbed(cache)
  BY <1>7, Keys DEF Absorbed
<1>9. Active' = i /\ Active = i
  BY <1>8 DEF Active, i
<1>10. \A j \in LogIdx : Log(j) \in DOMAIN cache => j <= i
  BY <1>0, <1>9 DEF Fresh, Lively
<1>11. \A j \in LogIdx : Log(j) \in DOMAIN cache' => j <= i
  <2>1. i \in Int
    BY <1>2, AbsorbedBound DEF i
  <2> QED BY <1>7, <1>10, <2>1, Keys
<1>12. Newest' = grown
  BY <1>7, <1>9 DEF Newest
<1>13. Ends(Newest)'
  BY <1>1, <1>4, <1>5, <1>6, <1>12 DEF Ends
<1> QED BY <1>1, <1>7, <1>9, <1>11, <1>13 DEF Lively

\* A long log is folded into the base before the mark moves past it.
LEMMA LivesAgent == Typed /\ Lives /\ Agent => Lives'
<1> SUFFICES ASSUME Typed, Lively, Agent PROVE Lively'
  BY DEF Lives, Fresh, Agent, EnqueueLog, EnqueueBase, EnqueueMark
<1>1. lastId \in Nat /\ StoreOK(lastId, cache) /\ lastId' = lastId
  BY DEF Typed, Counters, Stores, Agent, EnqueueLog, EnqueueBase, EnqueueMark
<1>2. Active \in LogIdx /\ Active \in Nat
  BY <1>1, AbsorbedBound DEF Typed, Counters, Active, LogIdx
<1>3. CASE EnqueueLog
  <2>1. pc = "log" /\ logIdx = Active /\ Log(Active) \in DOMAIN cache /\ logIdx' = logIdx
    BY <1>3 DEF EnqueueLog, Lively
  <2>2. CASE ~(Len(buf) >= CompactAt)
    BY <1>1, <1>3, <2>1, <2>2 DEF EnqueueLog, Lively, Active, Newest, Ends
  <2>3. CASE Len(buf) >= CompactAt
    <3> DEFINE b == Get(cache, Base)
               x == cache[Log(Active)]
    <3>1. cache' = Put(cache, Base, b \o x) /\ pc' = "base"
      BY <1>3, <2>1, <2>3 DEF EnqueueLog, Get
    <3>2. b \in Seq(Written(lastId)) /\ x \in Seq(Written(lastId))
      <4>1. Get(cache, Log(Active)) = x
        BY <2>1 DEF Get
      <4> QED BY <1>1, <4>1, LinesOfObject, Keys
    <3>3. Ends(x)
      BY <2>1 DEF Lively, Newest
    <3> HIDE DEF b, x
    <3>4. Len(x) > 1 /\ Len(b) \in Nat /\ Len(x) \in Nat
      BY <3>2, <3>3 DEF Ends
    <3>5. Len(b \o x) = Len(b) + Len(x) /\ (b \o x)[Len(b) + Len(x)] = x[Len(x)]
          /\ (b \o x)[(Len(b) + Len(x)) - 1] = x[Len(x) - 1]
      <4>1. \A j \in 1..Len(x) : (b \o x)[Len(b) + j] = x[j]
        BY <3>2
      <4>2. Len(x) \in 1..Len(x) /\ Len(x) - 1 \in 1..Len(x) /\ (Len(b) + Len(x)) - 1 = Len(b) + (Len(x) - 1)
        BY <3>4
      <4>3. Len(b \o x) = Len(b) + Len(x)
        BY <3>2
      <4> QED BY <4>1, <4>2, <4>3
    <3>6. Ends(b \o x)
      BY <3>3, <3>4, <3>5 DEF Ends
    <3>7. DOMAIN cache' = DOMAIN cache \cup {Base} /\ cache'[Base] = b \o x
          /\ \A k \in DOMAIN cache : k # Base => cache'[k] = cache[k]
      BY <3>1 DEF Put
    <3>8. Absorbed(cache') = Absorbed(cache) /\ Active' = Active
      BY <3>7, Keys DEF Absorbed, Active
    <3>9. Newest' = x /\ Get(cache', Base) = b \o x
      BY <2>1, <3>7, <3>8, Keys DEF Newest, Get, x
    <3>10. Ends(Newest)' /\ Ends(Get(cache, Base))'
      BY <1>1, <3>3, <3>6, <3>9 DEF Ends
    <3>11. \A j \in LogIdx : Log(j) \in DOMAIN cache' => j <= Active'
      BY <3>7, <3>8, Keys DEF Lively
    <3> QED BY <2>1, <3>1, <3>7, <3>8, <3>10, <3>11 DEF Lively
  <2> QED BY <2>2, <2>3
<1>4. CASE EnqueueBase
  <2>1. logIdx = Active /\ Ends(Get(cache, Base)) /\ cache' = Put(cache, Mark, MarkText(logIdx)) /\ pc' = "mark"
    BY <1>4 DEF EnqueueBase, Lively
  <2>2. DOMAIN cache' = DOMAIN cache \cup {Mark} /\ cache'[Mark] = MarkText(logIdx)
        /\ \A k \in DOMAIN cache : k # Mark => cache'[k] = cache[k]
    BY <2>1 DEF Put
  <2>3. Active' = Active + 1
    <3>1. Absorbed(cache') = MarkText(logIdx)[1].id
      BY <2>2 DEF Absorbed
    <3>2. MarkText(logIdx)[1].id = logIdx
      BY DEF MarkText
    <3> QED BY <2>1, <3>1, <3>2 DEF Active
  <2>4. \A j \in LogIdx : Log(j) \in DOMAIN cache' => j <= Active
    BY <2>2, Keys DEF Lively
  <2>5. Log(Active') \notin DOMAIN cache'
    <3>1. Active + 1 \notin LogIdx \/ Log(Active + 1) \notin DOMAIN cache'
      BY <1>2, <2>4 DEF LogIdx
    <3>2. Active + 1 \in LogIdx
      <4>1. logIdx < lastId /\ lastId <= MaxMsgs
        BY <1>4 DEF Typed, Appending, Counters, EnqueueBase
      <4> QED BY <1>1, <1>2, <2>1, <4>1 DEF LogIdx
    <3> QED BY <2>3, <3>1, <3>2
  <2>6. Newest' = Get(cache, Base)
    BY <2>2, <2>5, Keys DEF Newest, Get
  <2>7. Ends(Newest)'
    BY <1>1, <2>1, <2>6 DEF Ends
  <2>8. \A j \in LogIdx : Log(j) \in DOMAIN cache' => j <= Active'
    BY <1>2, <2>3, <2>4 DEF LogIdx
  <2> QED BY <2>1, <2>7, <2>8 DEF Lively
<1>5. CASE EnqueueMark
  BY <1>1, <1>5 DEF EnqueueMark, Lively, Active, Newest, Ends
<1> QED BY <1>3, <1>4, <1>5 DEF Agent

LEMMA LivesRest ==
  ASSUME Typed, Lives, [Next]_vars, ~AppendMsg, ~Agent
  PROVE  Lives'
<1>0. reboots \in Nat /\ lastId \in Nat
  BY DEF Typed, Counters
<1>1. CASE Drain
  BY <1>1 DEF Drain, DrainPop, DrainPut, DrainFail, Lives, Fresh, Lively, Active, Newest, Ends
<1>2. CASE Clear
  <2>1. cache' = cache /\ bucket' = bucket
    <3>1. ClearPrefix # CloudPrefix
      BY DEF ClearPrefix, CloudPrefix
    <3>2. cache' = Only(cache, DOMAIN cache) /\ bucket' = Only(bucket, DOMAIN bucket)
      BY <1>2, <3>1 DEF Clear, KeysWithPrefix
    <3>3. \A s : s = [k \in DOMAIN s |-> s[k]] => Only(s, DOMAIN s) = s
      BY DEF Only
    <3> QED BY <3>2, <3>3 DEF Typed, Stores, StoreOK
  <2> QED BY <1>2, <2>1 DEF Clear, Lives, Fresh, Lively, Active, Newest, Ends
<1>3. CASE DeleteBucket
  <2>1. ~Fresh
    BY <1>0, <1>3 DEF DeleteBucket, Fresh
  <2> QED BY <1>3, <2>1 DEF DeleteBucket, Lives, Lively, Active, Newest, Ends
<1>4. CASE DeleteCache
  <2>1. DOMAIN cache' = {}
    BY <1>4 DEF DeleteCache, Only, KeysWithPrefix
  <2> QED BY <1>4, <2>1 DEF DeleteCache, Lives, Fresh
<1>5. CASE TakeSnapshot
  BY <1>5 DEF TakeSnapshot, Lives, Fresh, Lively, Active, Newest, Ends
<1>6. CASE Crash
  BY <1>0, <1>6 DEF Crash, Lives
<1>7. CASE Boot
  BY <1>7 DEF Boot, BootFull, BootSnapshot, BootSkip, BootTail, BootQuarantine, Booted,
              Lives, Fresh, Lively
<1>8. CASE UNCHANGED vars
  BY <1>8 DEF vars, Lives, Fresh, Lively, Active, Newest, Ends
<1> QED BY <1>1, <1>2, <1>3, <1>4, <1>5, <1>6, <1>7, <1>8 DEF Next

LEMMA AlwaysLives == Spec => []Lives
<1>1. Init => Lives
  BY DEF Init, Lives, Fresh, NoObjects
<1>2. Typed /\ Lives /\ [Next]_vars => Lives'
  BY LivesAppend, LivesAgent, LivesRest
<1> QED BY <1>1, <1>2, AlwaysTyped, PTL DEF Spec

\* Until the first crash, what was sent is at the end of what the next turn
\* reads, while a log is folded into the base and while a deletion is under
\* way, whatever the bucket answers (append, compact_log, delete_with_store).
THEOREM SentIsRead == Spec => []ReadYourWrites
<1>1. Typed /\ Lives => ReadYourWrites
  <2> SUFFICES ASSUME Typed, Lives, pc # "down", lastId > forgotten, reboots = 0, ~leftover
               PROVE  Live # <<>> /\ Last(Live) = lastId
    BY DEF ReadYourWrites
  <2>1. lastId \in 0..MaxMsgs /\ forgotten # lastId
    BY DEF Typed, Counters
  <2>2. Lively
    BY <2>1 DEF Lives, Fresh
  <2> QED BY <2>1, <2>2, LivelyText, EndsOnBranch DEF Live
<1> QED BY <1>1, AlwaysTyped, AlwaysLives, PTL
-----------------------------------------------------------------------------
(* Histories as chains of parents.                                         *)

\* What ends a text that was appended to: the line that names its leaf.
Tip(t) == IF t = <<>> THEN 0 ELSE t[Len(t)].id
Good(t) == t # <<>> /\ t[Len(t)].kind = "info" /\ t[Len(t)].id \in Ids(t)

\* Every parent is in the text or in what comes before it.
Rooted(t, b) == \A l \in Msgs(t) : l.parent \in {0} \cup Ids(b) \cup Ids(t)

OneEach(S) == \A l1, l2 \in S : l1.id = l2.id => l1 = l2

IsChain(q, t) ==
  /\ q \in Seq(Nat)
  /\ \A i \in 1..Len(q) : \E l \in Msgs(t) :
       l.id = q[i] /\ l.parent = IF i = 1 THEN 0 ELSE q[i - 1]

LEMMA MsgsTyped ==
  ASSUME NEW L \in Nat, NEW t \in Seq(Written(L))
  PROVE  /\ \A l \in Msgs(t) : l.id \in 1..L /\ l.parent \in Nat /\ l.parent < l.id
         /\ \A m \in Ids(t) : m \in 1..L
<1>1. \A l \in Msgs(t) : l \in Written(L) /\ l.kind = "msg"
  BY DEF Msgs
<1>2. \A l \in Msgs(t) : l.id \in 1..L /\ l.parent \in Nat /\ l.parent < l.id
  BY <1>1 DEF Written, Line
<1> QED BY <1>2 DEF Ids

LEMMA MsgsOfTwo ==
  ASSUME NEW S, NEW t \in Seq(S), NEW u \in Seq(S)
  PROVE  Msgs(t \o u) = Msgs(t) \cup Msgs(u) /\ Ids(t \o u) = Ids(t) \cup Ids(u)
<1>1. /\ Len(t \o u) = Len(t) + Len(u) /\ Len(t) \in Nat /\ Len(u) \in Nat
      /\ \A i \in 1..Len(t) : (t \o u)[i] = t[i]
      /\ \A i \in 1..Len(u) : (t \o u)[Len(t) + i] = u[i]
  OBVIOUS
<1> DEFINE w == t \o u
<1>2. \A i \in 1..Len(w) : (i \in 1..Len(t) /\ w[i] = t[i])
                           \/ (i - Len(t) \in 1..Len(u) /\ w[i] = u[i - Len(t)])
  <2> SUFFICES ASSUME NEW i \in 1..Len(w)
               PROVE  (i \in 1..Len(t) /\ w[i] = t[i])
                      \/ (i - Len(t) \in 1..Len(u) /\ w[i] = u[i - Len(t)])
    OBVIOUS
  <2>1. CASE i <= Len(t)
    BY <1>1, <2>1
  <2>2. CASE i > Len(t)
    <3>1. i - Len(t) \in 1..Len(u) /\ Len(t) + (i - Len(t)) = i
      BY <1>1, <2>2
    <3> QED BY <1>1, <3>1
  <2> QED BY <1>1, <2>1, <2>2
<1> HIDE DEF w
<1>3. Msgs(w) \subseteq Msgs(t) \cup Msgs(u)
  <2> SUFFICES ASSUME NEW l \in Msgs(w) PROVE l \in Msgs(t) \cup Msgs(u)
    OBVIOUS
  <2>1. PICK i \in 1..Len(w) : w[i].kind = "msg" /\ l = w[i]
    BY DEF Msgs
  <2> QED BY <1>2, <2>1 DEF Msgs
<1>4. Msgs(t) \subseteq Msgs(w)
  <2> SUFFICES ASSUME NEW l \in Msgs(t) PROVE l \in Msgs(w)
    OBVIOUS
  <2>1. PICK i \in 1..Len(t) : t[i].kind = "msg" /\ l = t[i]
    BY DEF Msgs
  <2>2. i \in 1..Len(w) /\ w[i] = t[i]
    BY <1>1 DEF w
  <2> QED BY <2>1, <2>2 DEF Msgs
<1>5. Msgs(u) \subseteq Msgs(w)
  <2> SUFFICES ASSUME NEW l \in Msgs(u) PROVE l \in Msgs(w)
    OBVIOUS
  <2>1. PICK i \in 1..Len(u) : u[i].kind = "msg" /\ l = u[i]
    BY DEF Msgs
  <2>2. Len(t) + i \in 1..Len(w) /\ w[Len(t) + i] = u[i]
    BY <1>1 DEF w
  <2> QED BY <2>1, <2>2 DEF Msgs
<1>6. Msgs(w) = Msgs(t) \cup Msgs(u)
  BY <1>3, <1>4, <1>5
<1> QED BY <1>6 DEF Ids, w

\* A text that ends well has its tip for a leaf.
LEMMA LeafIsTip ==
  ASSUME NEW L \in Nat, NEW t \in Seq(Written(L)), t = <<>> \/ t[Len(t)].kind = "info"
  PROVE  Leaf(t) = Tip(t)
<1>1. CASE t = <<>>
  <2> DEFINE I == {i \in 1..Len(t) : t[i].kind = "info"}
  <2>1. Leaf(t) = LET i == IF I = {} THEN 0 ELSE Max(I) IN IF i = 0 THEN 0 ELSE t[i].id
    BY DEF Leaf, SelectLastInSeq
  <2>2. I = {}
    BY <1>1
  <2> HIDE DEF I
  <2> QED BY <1>1, <2>1, <2>2 DEF Tip
<1>2. CASE t # <<>>
  <2>1. Len(t) # 0
    BY <1>2
  <2> QED BY <1>2, <2>1, LeafIs DEF Tip
<1> QED BY <1>1, <1>2

LEMMA TipOfTwo ==
  ASSUME NEW L \in Nat, NEW t \in Seq(Written(L)), NEW u \in Seq(Written(L)),
         t = <<>> \/ Good(t), u = <<>> \/ Good(u)
  PROVE  /\ Tip(t \o u) = IF u = <<>> THEN Tip(t) ELSE Tip(u)
         /\ t \o u = <<>> \/ Good(t \o u)
         /\ u # <<>> => t \o u # <<>>
<1>1. CASE u = <<>>
  <2>1. t \o u = t
    BY <1>1
  <2> QED BY <1>1, <2>1
<1>2. CASE u # <<>>
  <2>1. /\ Len(t \o u) = Len(t) + Len(u) /\ Len(t) \in Nat /\ Len(u) \in Nat /\ Len(u) # 0
        /\ \A i \in 1..Len(u) : (t \o u)[Len(t) + i] = u[i]
    BY <1>2
  <2>2. Len(u) \in 1..Len(u)
    BY <2>1
  <2>3. (t \o u)[Len(t \o u)] = u[Len(u)]
    BY <2>1, <2>2
  <2>4. t \o u # <<>>
    <3>1. Len(<<>>) = 0
      OBVIOUS
    <3> QED BY <2>1, <3>1
  <2>5. Ids(u) \subseteq Ids(t \o u)
    BY MsgsOfTwo
  <2>6. Good(u)
    BY <1>2
  <2>7. Good(t \o u) /\ Tip(t \o u) = Tip(u)
    BY <1>2, <2>3, <2>4, <2>5, <2>6 DEF Good, Tip
  <2> QED BY <1>2, <2>4, <2>7
<1> QED BY <1>1, <1>2

\* A chain of parents that ends with the leaf is the branch.
LEMMA ChainIsBranch ==
  ASSUME NEW L \in 0..MaxMsgs, NEW t \in Seq(Written(L)), OneEach(Msgs(t)),
         NEW q, IsChain(q, t), Leaf(t) = IF q = <<>> THEN 0 ELSE q[Len(q)]
  PROVE  Branch(t) = q
<1>1. PICK c, p : BranchWalk(t, c, p)
  BY BranchWalks
<1>2. \A m \in Ids(t) : /\ m \in 1..MaxMsgs /\ p[m] \in 0..(m - 1)
                        /\ \E l \in Msgs(t) : l.id = m /\ l.parent = p[m]
  BY <1>1 DEF BranchWalk
<1>3. q \in Seq(Nat) /\ Len(q) \in Nat
  BY DEF IsChain
<1>4. \A i \in 1..Len(q) : q[i] \in Ids(t) /\ p[q[i]] = IF i = 1 THEN 0 ELSE q[i - 1]
  <2> SUFFICES ASSUME NEW i \in 1..Len(q)
               PROVE  q[i] \in Ids(t) /\ p[q[i]] = IF i = 1 THEN 0 ELSE q[i - 1]
    OBVIOUS
  <2>1. PICK l \in Msgs(t) : l.id = q[i] /\ l.parent = IF i = 1 THEN 0 ELSE q[i - 1]
    BY DEF IsChain
  <2>2. q[i] \in Ids(t)
    BY <2>1 DEF Ids
  <2>3. PICK k \in Msgs(t) : k.id = q[i] /\ k.parent = p[q[i]]
    BY <1>2, <2>2
  <2>4. k = l
    BY <2>1, <2>3 DEF OneEach
  <2> QED BY <2>1, <2>2, <2>3, <2>4
<1> DEFINE At(n) == IF n = 0 THEN 0 ELSE q[n]
           S == {n \in Nat : n <= Len(q) => c[At(n)] = SubSeq(q, 1, n)}
<1>5. 0 \in S
  <2>1. 0 \notin Ids(t) /\ 0 \in 0..MaxMsgs
    BY <1>2
  <2>2. c[0] = <<>>
    BY <1>1, <2>1 DEF BranchWalk, Walked
  <2>3. SubSeq(q, 1, 0) = <<>>
    BY <1>3
  <2> QED BY <2>2, <2>3
<1>6. ASSUME NEW n \in Nat, n \in S PROVE n + 1 \in S
  <2> SUFFICES ASSUME n + 1 <= Len(q) PROVE c[q[n + 1]] = SubSeq(q, 1, n + 1)
    OBVIOUS
  <2>1. n + 1 \in 1..Len(q) /\ n <= Len(q)
    BY <1>3
  <2>2. q[n + 1] \in Ids(t) /\ p[q[n + 1]] = At(n)
    <3>1. n + 1 = 1 <=> n = 0
      OBVIOUS
    <3>2. (n + 1) - 1 = n
      OBVIOUS
    <3> QED BY <1>4, <2>1, <3>1, <3>2
  <2>3. q[n + 1] \in 0..MaxMsgs
    BY <1>2, <2>2
  <2>4. c[q[n + 1]] = Append(c[At(n)], q[n + 1])
    BY <1>1, <2>2, <2>3 DEF BranchWalk, Walked
  <2>5. c[At(n)] = SubSeq(q, 1, n)
    BY <1>6, <2>1
  <2>6. SubSeq(q, 1, n + 1) = Append(SubSeq(q, 1, n), q[n + 1])
    BY <1>3, <2>1
  <2> QED BY <2>4, <2>5, <2>6
<1>7. Len(q) \in S
  <2> HIDE DEF S
  <2> QED BY <1>3, <1>5, <1>6, NatSetInduction
<1>8. c[At(Len(q))] = q
  <2>1. SubSeq(q, 1, Len(q)) = q
    BY <1>3
  <2> QED BY <1>3, <1>7, <2>1
<1>9. At(Len(q)) = Leaf(t)
  <2>1. q = <<>> <=> Len(q) = 0
    BY <1>3
  <2> QED BY <2>1
<1> HIDE DEF At
<1> QED BY <1>1, <1>8, <1>9 DEF BranchWalk

\* In a text that holds every parent, every message ends a chain.
LEMMA ChainExists ==
  ASSUME NEW L \in 0..MaxMsgs, NEW t \in Seq(Written(L)), Rooted(t, <<>>)
  PROVE  \A m \in Ids(t) : \E q : IsChain(q, t) /\ q # <<>> /\ q[Len(q)] = m
<1> DEFINE S == {n \in Nat : \A m \in Ids(t) : m <= n =>
                   \E q : IsChain(q, t) /\ q # <<>> /\ q[Len(q)] = m}
<1>1. \A m \in Ids(t) : m \in Nat /\ m > 0
  BY MsgsTyped
<1>2. 0 \in S
  BY <1>1
<1>3. ASSUME NEW n \in Nat, n \in S PROVE n + 1 \in S
  <2> SUFFICES ASSUME NEW m \in Ids(t), m <= n + 1
               PROVE  \E q : IsChain(q, t) /\ q # <<>> /\ q[Len(q)] = m
    OBVIOUS
  <2>1. PICK l \in Msgs(t) : l.id = m
    BY DEF Ids
  <2>2. l.parent \in Nat /\ l.parent < m /\ m \in Nat
    BY <2>1, MsgsTyped
  <2>3. CASE l.parent = 0
    <3> DEFINE q == <<m>>
    <3>1. q \in Seq(Nat) /\ Len(q) = 1 /\ q[1] = m /\ q # <<>> /\ q[Len(q)] = m
      BY <2>2
    <3>2. \A i \in 1..Len(q) : i = 1
      BY <3>1
    <3> HIDE DEF q
    <3>3. IsChain(q, t)
      BY <2>1, <2>3, <3>1, <3>2 DEF IsChain
    <3> QED BY <3>1, <3>3
  <2>4. CASE l.parent # 0
    <3>1. l.parent \in Ids(t)
      <4>1. Ids(<<>>) = {}
        BY DEF Ids, Msgs
      <4> QED BY <2>4, <4>1 DEF Rooted
    <3>2. l.parent <= n
      BY <2>2
    <3>3. PICK r : IsChain(r, t) /\ r # <<>> /\ r[Len(r)] = l.parent
      BY <1>3, <3>1, <3>2
    <3> DEFINE q == Append(r, m)
    <3>4. r \in Seq(Nat) /\ Len(r) \in Nat /\ Len(r) # 0
      BY <3>3 DEF IsChain
    <3>5. /\ q \in Seq(Nat) /\ Len(q) = Len(r) + 1 /\ q[Len(r) + 1] = m
          /\ \A i \in 1..Len(r) : q[i] = r[i]
      BY <2>2, <3>4
    <3>6. q # <<>> /\ q[Len(q)] = m
      <4>1. Len(<<>>) = 0
        OBVIOUS
      <4> HIDE DEF q
      <4> QED BY <3>4, <3>5, <4>1
    <3> HIDE DEF q
    <3>7. ASSUME NEW i \in 1..Len(q)
          PROVE  \E k \in Msgs(t) : k.id = q[i] /\ k.parent = IF i = 1 THEN 0 ELSE q[i - 1]
      <4>1. CASE i = Len(r) + 1
        <5>1. q[i] = m /\ q[i - 1] = r[Len(r)] /\ i # 1
          <6>1. Len(r) \in 1..Len(r) /\ i - 1 = Len(r)
            BY <3>4, <4>1
          <6> QED BY <3>4, <3>5, <4>1, <6>1
        <5> QED BY <2>1, <3>3, <5>1
      <4>2. CASE i # Len(r) + 1
        <5>1. i \in 1..Len(r) /\ q[i] = r[i] /\ (i # 1 => q[i - 1] = r[i - 1])
          <6>1. i \in 1..Len(r)
            BY <3>4, <3>5, <4>2
          <6>2. i # 1 => i - 1 \in 1..Len(r)
            BY <6>1
          <6> QED BY <3>5, <6>1, <6>2
        <5>2. PICK k \in Msgs(t) : k.id = r[i] /\ k.parent = IF i = 1 THEN 0 ELSE r[i - 1]
          BY <3>3, <5>1 DEF IsChain
        <5> QED BY <5>1, <5>2
      <4> QED BY <4>1, <4>2
    <3>8. IsChain(q, t)
      BY <3>5, <3>7 DEF IsChain
    <3> QED BY <3>6, <3>8
  <2> QED BY <2>3, <2>4
<1>4. Nat \subseteq S
  <2> HIDE DEF S
  <2> QED BY <1>2, <1>3, NatSetInduction
<1> QED BY <1>1, <1>4

\* The branch of such a text is a chain, down to the leaf.
LEMMA BranchIsChain ==
  ASSUME NEW L \in 0..MaxMsgs, NEW t \in Seq(Written(L)), OneEach(Msgs(t)),
         Rooted(t, <<>>), Leaf(t) \in {0} \cup Ids(t)
  PROVE  /\ IsChain(Branch(t), t)
         /\ Leaf(t) = IF Branch(t) = <<>> THEN 0 ELSE Branch(t)[Len(Branch(t))]
<1>1. \E q : IsChain(q, t) /\ Leaf(t) = IF q = <<>> THEN 0 ELSE q[Len(q)]
  <2>1. CASE Leaf(t) = 0
    <3>1. IsChain(<<>>, t)
      <4>1. <<>> \in Seq(Nat) /\ Len(<<>>) = 0
        OBVIOUS
      <4> QED BY <4>1 DEF IsChain
    <3> QED BY <2>1, <3>1
  <2>2. CASE Leaf(t) # 0
    BY <2>2, ChainExists
  <2> QED BY <2>1, <2>2
<1>2. PICK q : IsChain(q, t) /\ Leaf(t) = IF q = <<>> THEN 0 ELSE q[Len(q)]
  BY <1>1
<1>3. Branch(t) = q
  BY <1>2, ChainIsBranch
<1> QED BY <1>2, <1>3

OnLive(q, m) == m = 0 \/ \E i \in 1..Len(q) : q[i] = m

\* A text that holds every parent, and whose leaf is on a history, reads as a
\* prefix of that history.
LEMMA BranchIsPrefix ==
  ASSUME NEW L \in 0..MaxMsgs, NEW u \in Seq(Written(L)), Rooted(u, <<>>),
         Leaf(u) \in {0} \cup Ids(u),
         NEW t \in Seq(Written(L)), NEW q, IsChain(q, t), OnLive(q, Leaf(u)),
         OneEach(Msgs(t) \cup Msgs(u))
  PROVE  IsPrefix(Branch(u), q)
<1>0. q \in Seq(Nat) /\ Len(q) \in Nat /\ OneEach(Msgs(u))
  BY DEF IsChain, OneEach
<1>1. \E j \in 0..Len(q) : Leaf(u) = IF j = 0 THEN 0 ELSE q[j]
  <2>1. CASE Leaf(u) = 0
    BY <1>0, <2>1
  <2>2. CASE Leaf(u) # 0
    BY <1>0, <2>2 DEF OnLive
  <2> QED BY <2>1, <2>2
<1>2. PICK j \in 0..Len(q) : Leaf(u) = IF j = 0 THEN 0 ELSE q[j]
  BY <1>1
<1> DEFINE b == SubSeq(q, 1, j)
<1>3. b \in Seq(Nat) /\ Len(b) = j /\ \A i \in 1..j : b[i] = q[i]
  BY <1>0
<1> HIDE DEF b
<1>4. \A i \in 1..Len(q) : \E l \in Msgs(t) : l.id = q[i] /\ l.parent = IF i = 1 THEN 0 ELSE q[i - 1]
  BY DEF IsChain
<1>5. \A i \in 1..Len(q) : q[i] # 0
  BY <1>4, MsgsTyped
<1>6. \A i \in 1..Len(q) : q[i] \in Ids(u) =>
        \E l \in Msgs(u) : l.id = q[i] /\ l.parent = IF i = 1 THEN 0 ELSE q[i - 1]
  <2> SUFFICES ASSUME NEW i \in 1..Len(q), q[i] \in Ids(u)
               PROVE  \E l \in Msgs(u) : l.id = q[i] /\ l.parent = IF i = 1 THEN 0 ELSE q[i - 1]
    OBVIOUS
  <2>1. PICK k \in Msgs(t) : k.id = q[i] /\ k.parent = IF i = 1 THEN 0 ELSE q[i - 1]
    BY <1>4
  <2>2. PICK l \in Msgs(u) : l.id = q[i]
    BY DEF Ids
  <2>3. l = k
    BY <2>1, <2>2 DEF OneEach
  <2> QED BY <2>1, <2>3
<1>7. Ids(<<>>) = {}
  BY DEF Ids, Msgs
<1> DEFINE S == {d \in Nat : d < j => q[j - d] \in Ids(u)}
<1>8. 0 \in S
  <2>1. CASE j = 0
    BY <2>1
  <2>2. CASE j # 0
    <3>1. q[j] \in Ids(u)
      <4>1. q[j] # 0
        BY <1>5, <2>2
      <4> QED BY <1>2, <2>2, <4>1
    <3>2. j - 0 = j
      OBVIOUS
    <3> QED BY <3>1, <3>2
  <2> QED BY <2>1, <2>2
<1>9. ASSUME NEW d \in Nat, d \in S PROVE d + 1 \in S
  <2> SUFFICES ASSUME d + 1 < j PROVE q[j - (d + 1)] \in Ids(u)
    OBVIOUS
  <2> DEFINE i == j - d
  <2>1. i \in 1..Len(q) /\ i # 1 /\ j - (d + 1) = i - 1 /\ i - 1 \in 1..Len(q) /\ d < j
    BY <1>0
  <2>2. q[i] \in Ids(u)
    BY <1>9, <2>1
  <2> HIDE DEF i
  <2>3. PICK l \in Msgs(u) : l.id = q[i] /\ l.parent = q[i - 1]
    BY <1>6, <2>1, <2>2
  <2>4. q[i - 1] # 0
    BY <1>5, <2>1
  <2>5. q[i - 1] \in Ids(u)
    BY <1>7, <2>3, <2>4 DEF Rooted
  <2> QED BY <2>1, <2>5
<1>10. \A i \in 1..j : q[i] \in Ids(u)
  <2> SUFFICES ASSUME NEW i \in 1..j PROVE q[i] \in Ids(u)
    OBVIOUS
  <2>1. Nat \subseteq S
    <3> HIDE DEF S
    <3> QED BY <1>8, <1>9, NatSetInduction
  <2>2. j - i \in Nat /\ j - i < j /\ j - (j - i) = i
    OBVIOUS
  <2> QED BY <2>1, <2>2
<1>11. IsChain(b, u)
  <2> SUFFICES ASSUME NEW i \in 1..j
               PROVE  \E l \in Msgs(u) : l.id = b[i] /\ l.parent = IF i = 1 THEN 0 ELSE b[i - 1]
    BY <1>3 DEF IsChain
  <2>1. i \in 1..Len(q) /\ b[i] = q[i] /\ (i # 1 => b[i - 1] = q[i - 1])
    <3>1. i # 1 => i - 1 \in 1..j
      OBVIOUS
    <3> QED BY <1>0, <1>3, <3>1
  <2>2. PICK l \in Msgs(u) : l.id = q[i] /\ l.parent = IF i = 1 THEN 0 ELSE q[i - 1]
    BY <1>6, <1>10, <2>1
  <2> QED BY <2>1, <2>2
<1>12. Leaf(u) = IF b = <<>> THEN 0 ELSE b[Len(b)]
  <2>1. b = <<>> <=> j = 0
    BY <1>3
  <2>2. j # 0 => b[Len(b)] = q[j]
    BY <1>3
  <2> QED BY <1>2, <2>1, <2>2
<1>13. Branch(u) = b
  BY <1>0, <1>11, <1>12, ChainIsBranch
<1>14. IsPrefix(b, q)
  <2>1. Len(b) <= Len(q)
    BY <1>0, <1>3
  <2>2. SubSeq(b, 1, Len(b)) = b
    BY <1>3
  <2>3. SubSeq(q, 1, Len(b)) = b
    BY <1>3 DEF b
  <2> QED BY <2>1, <2>2, <2>3 DEF IsPrefix
<1> QED BY <1>13, <1>14

\* A text with the same leaf that holds more reads as the same history.
LEMMA SameBranch ==
  ASSUME NEW L \in 0..MaxMsgs, NEW t \in Seq(Written(L)), NEW u \in Seq(Written(L)),
         NEW q, IsChain(q, t), Leaf(t) = IF q = <<>> THEN 0 ELSE q[Len(q)],
         Leaf(u) = Leaf(t), Msgs(t) \subseteq Msgs(u), OneEach(Msgs(u))
  PROVE  Branch(u) = q
<1>1. IsChain(q, u)
  BY DEF IsChain
<1> QED BY <1>1, ChainIsBranch

\* One more message after the leaf is one more on the history.
LEMMA BranchGrows ==
  ASSUME NEW L \in 0..MaxMsgs, NEW t \in Seq(Written(L)), NEW u \in Seq(Written(L)),
         NEW q, IsChain(q, t), Leaf(t) = IF q = <<>> THEN 0 ELSE q[Len(q)],
         Msgs(t) \subseteq Msgs(u), OneEach(Msgs(u)),
         NEW m \in Nat, Leaf(u) = m, NEW new \in Msgs(u), new.id = m, new.parent = Leaf(t)
  PROVE  Branch(u) = Append(q, m)
<1>1. q \in Seq(Nat) /\ Len(q) \in Nat /\ (q = <<>> <=> Len(q) = 0)
  BY DEF IsChain
<1> DEFINE r == Append(q, m)
<1>2. r \in Seq(Nat) /\ Len(r) = Len(q) + 1 /\ r[Len(q) + 1] = m /\ \A i \in 1..Len(q) : r[i] = q[i]
  BY <1>1
<1>3. r # <<>>
  <2>1. Len(<<>>) = 0
    OBVIOUS
  <2> HIDE DEF r
  <2> QED BY <1>1, <1>2, <2>1
<1> HIDE DEF r
<1>4. ASSUME NEW i \in 1..Len(r)
      PROVE  \E l \in Msgs(u) : l.id = r[i] /\ l.parent = IF i = 1 THEN 0 ELSE r[i - 1]
  <2>1. CASE i = Len(q) + 1
    <3>1. Leaf(t) = IF i = 1 THEN 0 ELSE r[i - 1]
      <4>1. CASE Len(q) = 0
        BY <1>1, <2>1, <4>1
      <4>2. CASE Len(q) # 0
        <5>1. Len(q) \in 1..Len(q) /\ i - 1 = Len(q) /\ i # 1
          BY <1>1, <2>1, <4>2
        <5> QED BY <1>1, <1>2, <4>2, <5>1
      <4> QED BY <4>1, <4>2
    <3> QED BY <1>2, <2>1, <3>1
  <2>2. CASE i # Len(q) + 1
    <3>1. i \in 1..Len(q)
      BY <1>1, <1>2, <2>2
    <3>2. i # 1 => i - 1 \in 1..Len(q)
      BY <3>1
    <3>3. r[i] = q[i] /\ (i # 1 => r[i - 1] = q[i - 1])
      BY <1>2, <3>1, <3>2
    <3>4. PICK l \in Msgs(t) : l.id = q[i] /\ l.parent = IF i = 1 THEN 0 ELSE q[i - 1]
      BY <3>1 DEF IsChain
    <3> QED BY <3>3, <3>4
  <2> QED BY <2>1, <2>2
<1>5. IsChain(r, u)
  BY <1>2, <1>4 DEF IsChain
<1>6. Leaf(u) = IF r = <<>> THEN 0 ELSE r[Len(r)]
  BY <1>2, <1>3
<1>7. Branch(u) = r
  BY <1>5, <1>6, ChainIsBranch
<1> QED BY <1>7 DEF r

-----------------------------------------------------------------------------
(* Stores that can be read by themselves.                                  *)

AllMsgs(s) == UNION {Msgs(s[k]) : k \in DOMAIN s \ {Mark}}

\* No log is past the active one, each object ends well, the base holds the
\* parents of its messages, and with the base each log does.
SelfOK(L, s) ==
  /\ StoreOK(L, s)
  /\ \A i \in LogIdx : Log(i) \in DOMAIN s => i <= Absorbed(s) + 1
  /\ \A k \in DOMAIN s : k # Mark => Good(s[k])
  /\ Rooted(Get(s, Base), <<>>)
  /\ \A i \in LogIdx : Log(i) \in DOMAIN s => Rooted(s[Log(i)], Get(s, Base))
  /\ OneEach(AllMsgs(s))

\* The log that an append would grow.
Tail2(s) == Get(s, Log(Absorbed(s) + 1))

LEMMA NoMsgs == Msgs(<<>>) = {} /\ Ids(<<>>) = {}
BY DEF Ids, Msgs

LEMMA SelfParts ==
  ASSUME NEW L \in 0..MaxMsgs, NEW s, SelfOK(L, s)
  PROVE  /\ Text(s) = Get(s, Base) \o Tail2(s)
         /\ Get(s, Base) \in Seq(Written(L)) /\ Tail2(s) \in Seq(Written(L))
         /\ Get(s, Base) = <<>> \/ Good(Get(s, Base))
         /\ Tail2(s) = <<>> \/ Good(Tail2(s))
         /\ Rooted(Tail2(s), Get(s, Base))
         /\ Msgs(Get(s, Base)) \cup Msgs(Tail2(s)) \subseteq AllMsgs(s)
<1>1. L \in Nat /\ StoreOK(L, s)
  BY DEF SelfOK
<1>2. Text(s) = Get(s, Base) \o Tail2(s)
  BY <1>1, TextOfTwo DEF SelfOK, Tail2
<1>3. Get(s, Base) \in Seq(Written(L)) /\ Tail2(s) \in Seq(Written(L))
  BY <1>1, LinesOfObject, Keys DEF Tail2
<1>4. \A k : k # Mark => Get(s, k) = <<>> \/ Good(Get(s, k))
  BY DEF SelfOK, Get
<1>5. \A k : k # Mark => Msgs(Get(s, k)) \subseteq AllMsgs(s)
  BY NoMsgs DEF AllMsgs, Get
<1>6. Rooted(Tail2(s), Get(s, Base))
  <2>1. CASE Tail2(s) = <<>>
    BY <2>1, NoMsgs DEF Rooted
  <2>2. CASE Tail2(s) # <<>>
    <3>1. Log(Absorbed(s) + 1) \in DOMAIN s
      BY <2>2 DEF Tail2, Get
    <3>2. Absorbed(s) + 1 \in LogIdx
      <4>1. Absorbed(s) \in -1..(L - 1)
        BY <1>1, AbsorbedBound
      <4> QED BY <4>1 DEF LogIdx
    <3> QED BY <3>1, <3>2 DEF SelfOK, Tail2, Get
  <2> QED BY <2>1, <2>2
<1>7. /\ Get(s, Base) = <<>> \/ Good(Get(s, Base))
      /\ Tail2(s) = <<>> \/ Good(Tail2(s))
      /\ Msgs(Get(s, Base)) \cup Msgs(Tail2(s)) \subseteq AllMsgs(s)
  BY <1>4, <1>5, Keys DEF Tail2
<1> QED BY <1>2, <1>3, <1>6, <1>7

\* The text of such a store: what its leaf is, and that it holds each parent.
LEMMA SelfText ==
  ASSUME NEW L \in 0..MaxMsgs, NEW s, SelfOK(L, s)
  PROVE  /\ Text(s) \in Seq(Written(L)) /\ Rooted(Text(s), <<>>)
         /\ Leaf(Text(s)) = Tip(Text(s)) /\ Leaf(Text(s)) \in {0} \cup Ids(Text(s))
         /\ Tip(Text(s)) = IF Tail2(s) = <<>> THEN Tip(Get(s, Base)) ELSE Tip(Tail2(s))
         /\ Msgs(Text(s)) = Msgs(Get(s, Base)) \cup Msgs(Tail2(s))
         /\ Msgs(Text(s)) \subseteq AllMsgs(s) /\ OneEach(Msgs(Text(s)))
<1> DEFINE b == Get(s, Base)
           x == Tail2(s)
           t == Text(s)
<1>1. /\ t = b \o x /\ b \in Seq(Written(L)) /\ x \in Seq(Written(L))
      /\ b = <<>> \/ Good(b)
      /\ x = <<>> \/ Good(x)
      /\ Rooted(x, b) /\ Rooted(b, <<>>)
      /\ Msgs(b) \cup Msgs(x) \subseteq AllMsgs(s) /\ OneEach(AllMsgs(s))
  <2>1. Rooted(b, <<>>) /\ OneEach(AllMsgs(s))
    BY DEF SelfOK
  <2> HIDE DEF b, x, t
  <2> QED BY <2>1, SelfParts DEF b, x, t
<1> HIDE DEF b, x, t
<1>2. t \in Seq(Written(L))
  BY <1>1
<1>3. Msgs(t) = Msgs(b) \cup Msgs(x) /\ Ids(t) = Ids(b) \cup Ids(x)
  BY <1>1, MsgsOfTwo
<1>4. Rooted(t, <<>>)
  BY <1>1, <1>3, NoMsgs DEF Rooted
<1>5. Tip(t) = (IF x = <<>> THEN Tip(b) ELSE Tip(x)) /\ (t = <<>> \/ Good(t))
  BY <1>1, TipOfTwo
<1>6. Leaf(t) = Tip(t)
  BY <1>2, <1>5, LeafIsTip DEF Good
<1>7. Tip(t) \in {0} \cup Ids(t)
  BY <1>5 DEF Good, Tip
<1>8. OneEach(Msgs(t))
  BY <1>1, <1>3 DEF OneEach
<1> QED BY <1>1, <1>2, <1>3, <1>4, <1>5, <1>6, <1>7, <1>8 DEF b, x, t

LEMMA SelfBranch ==
  ASSUME NEW L \in 0..MaxMsgs, NEW s, SelfOK(L, s)
  PROVE  /\ IsChain(Branch(Text(s)), Text(s))
         /\ Leaf(Text(s)) = IF Branch(Text(s)) = <<>> THEN 0
                            ELSE Branch(Text(s))[Len(Branch(Text(s)))]
         /\ OnLive(Branch(Text(s)), Tip(Text(s)))
<1> DEFINE t == Text(s)
           q == Branch(t)
<1>1. IsChain(q, t) /\ Leaf(t) = (IF q = <<>> THEN 0 ELSE q[Len(q)]) /\ Leaf(t) = Tip(t)
  BY SelfText, BranchIsChain
<1> HIDE DEF q
<1>2. q \in Seq(Nat)
  BY <1>1 DEF IsChain
<1>3. q # <<>> => Len(q) \in 1..Len(q)
  BY <1>2
<1>4. OnLive(q, Tip(t))
  BY <1>1, <1>3 DEF OnLive
<1> QED BY <1>1, <1>4 DEF q

LEMMA SelfGrows ==
  ASSUME NEW L \in Nat, NEW s, SelfOK(L, s)
  PROVE  SelfOK(L + 1, s)
BY Grows DEF SelfOK

-----------------------------------------------------------------------------
(* A store behind the cache.                                               *)

\* What holds between the cache c, whose history is q, and a store s that some
\* of the cache's writes have not reached yet.
Behind(L, s, c, q) ==
  /\ SelfOK(L, s)
  /\ DOMAIN s \subseteq DOMAIN c
  /\ Absorbed(s) <= Absorbed(c)
  /\ Ids(Get(s, Base)) \subseteq Ids(Get(c, Base))
  /\ \A i \in LogIdx : Log(i) \in DOMAIN s => Rooted(c[Log(i)], Get(s, Base))
  /\ AllMsgs(s) \subseteq AllMsgs(c)
  /\ OnLive(q, Tip(Text(s)))

LEMMA BehindItself ==
  ASSUME NEW L \in 0..MaxMsgs, NEW c, SelfOK(L, c), NEW q, OnLive(q, Tip(Text(c)))
  PROVE  Behind(L, c, c, q)
<1>1. Absorbed(c) \in Int
  BY AbsorbedBound DEF SelfOK
<1> QED BY <1>1 DEF Behind, SelfOK

\* A store that is behind reads as a prefix of the history.
LEMMA BehindIsPrefix ==
  ASSUME NEW L \in 0..MaxMsgs, NEW s, NEW c, SelfOK(L, c), Behind(L, s, c, Branch(Text(c)))
  PROVE  IsPrefix(Branch(Text(s)), Branch(Text(c)))
<1> DEFINE t == Text(c)
           u == Text(s)
           q == Branch(t)
<1>1. IsChain(q, t) /\ t \in Seq(Written(L))
  BY SelfBranch, SelfText
<1>2. SelfOK(L, s) /\ OnLive(q, Tip(u)) /\ AllMsgs(s) \subseteq AllMsgs(c) /\ OneEach(AllMsgs(c))
  BY DEF Behind, SelfOK
<1>3. /\ u \in Seq(Written(L)) /\ Rooted(u, <<>>)
      /\ Leaf(u) = Tip(u) /\ Leaf(u) \in {0} \cup Ids(u)
  BY <1>2, SelfText
<1>4. OneEach(Msgs(t) \cup Msgs(u))
  <2>1. Msgs(t) \subseteq AllMsgs(c) /\ Msgs(u) \subseteq AllMsgs(s)
    BY <1>2, SelfText
  <2> QED BY <1>2, <2>1 DEF OneEach
<1> HIDE DEF q, t, u
<1>5. IsPrefix(Branch(u), q)
  BY <1>1, <1>2, <1>3, <1>4, BranchIsPrefix
<1> QED BY <1>5 DEF q, t, u

\* The cache may grow: no log loses a line, and new lines follow old ones.
Ahead(c, q, d, r) ==
  /\ DOMAIN c \subseteq DOMAIN d
  /\ Absorbed(c) <= Absorbed(d)
  /\ Ids(Get(c, Base)) \subseteq Ids(Get(d, Base))
  /\ \A i \in LogIdx : Log(i) \in DOMAIN c =>
       \A b : Rooted(c[Log(i)], b) => Rooted(d[Log(i)], b)
  /\ AllMsgs(c) \subseteq AllMsgs(d)
  /\ \A m : OnLive(q, m) => OnLive(r, m)

LEMMA BehindAhead ==
  ASSUME NEW L \in 0..MaxMsgs, NEW s, NEW c, NEW q, NEW d, NEW r,
         Behind(L, s, c, q), Ahead(c, q, d, r), SelfOK(L, c), Absorbed(d) \in Int
  PROVE  Behind(L, s, d, r)
<1>1. Absorbed(s) \in Int /\ Absorbed(c) \in Int
  BY AbsorbedBound DEF Behind, SelfOK
<1>2. Absorbed(s) <= Absorbed(d)
  BY <1>1 DEF Behind, Ahead
<1>3. \A i \in LogIdx : Log(i) \in DOMAIN s => Rooted(d[Log(i)], Get(s, Base))
  BY DEF Behind, Ahead
<1> QED BY <1>2, <1>3 DEF Behind, Ahead

\* What there is to know of a store p that is s with v under k.
IsPut(p, s, k, v) ==
  /\ DOMAIN p = DOMAIN s \cup {k}
  /\ p[k] = v
  /\ \A x \in DOMAIN s : x # k => p[x] = s[x]
  /\ \A x : Get(p, x) = IF x = k THEN v ELSE Get(s, x)
  /\ k # Mark => Absorbed(p) = Absorbed(s)
  /\ k = Mark => Absorbed(p) = v[1].id
  /\ AllMsgs(p) \subseteq AllMsgs(s) \cup IF k = Mark THEN {} ELSE Msgs(v)

LEMMA PutIs ==
  ASSUME NEW s, NEW k, NEW v
  PROVE  IsPut(Put(s, k, v), s, k, v)
<1> DEFINE p == Put(s, k, v)
<1>1. /\ DOMAIN p = DOMAIN s \cup {k}
      /\ p[k] = v
      /\ \A x \in DOMAIN s : x # k => p[x] = s[x]
  BY DEF Put
<1> HIDE DEF p
<1>2. \A x : Get(p, x) = IF x = k THEN v ELSE Get(s, x)
  BY <1>1 DEF Get
<1>3. k # Mark => Absorbed(p) = Absorbed(s)
  BY <1>1 DEF Absorbed
<1>4. k = Mark => Absorbed(p) = v[1].id
  BY <1>1 DEF Absorbed
<1>5. AllMsgs(p) \subseteq AllMsgs(s) \cup IF k = Mark THEN {} ELSE Msgs(v)
  <2> SUFFICES ASSUME NEW x \in DOMAIN p, x # Mark
               PROVE  Msgs(p[x]) \subseteq AllMsgs(s) \cup IF k = Mark THEN {} ELSE Msgs(v)
    BY DEF AllMsgs
  <2>1. CASE x = k
    BY <1>1, <2>1
  <2>2. CASE x # k
    <3>1. x \in DOMAIN s \ {Mark} /\ p[x] = s[x]
      BY <1>1, <2>2
    <3> QED BY <3>1 DEF AllMsgs
  <2> QED BY <2>1, <2>2
<1> QED BY <1>1, <1>2, <1>3, <1>4, <1>5 DEF p, IsPut

LEMMA MsgsIn == ASSUME NEW s, NEW k \in DOMAIN s, k # Mark PROVE Msgs(s[k]) \subseteq AllMsgs(s)
BY DEF AllMsgs

\* A later version of the active log lands on an earlier one.
LEMMA LogLands ==
  ASSUME NEW L \in 0..MaxMsgs, NEW s, NEW c, NEW q, Behind(L, s, c, q), SelfOK(L, c),
         NEW i, i = Absorbed(c) + 1, Log(i) \in DOMAIN s, OnLive(q, Tip(Text(c)))
  PROVE  /\ Behind(L, Put(s, Log(i), c[Log(i)]), c, q)
         /\ Get(Put(s, Log(i), c[Log(i)]), Base) = Get(s, Base)
<1> DEFINE v == c[Log(i)]
           p == Put(s, Log(i), v)
<1>1. /\ SelfOK(L, s) /\ DOMAIN s \subseteq DOMAIN c /\ StoreOK(L, c) /\ StoreOK(L, s)
      /\ L \in Nat
  BY DEF Behind, SelfOK
<1>2. Log(i) \in DOMAIN c /\ i \in LogIdx /\ Log(i) \in Key /\ Log(i) # Mark /\ Log(i) # Base
  <2>1. Absorbed(c) \in -1..(L - 1)
    BY <1>1, AbsorbedBound
  <2> QED BY <1>1, <2>1, Keys DEF LogIdx
<1>3. Absorbed(s) = Absorbed(c)
  <2>1. Absorbed(s) \in Int /\ Absorbed(c) \in Int
    BY <1>1, AbsorbedBound
  <2>2. i <= Absorbed(s) + 1 /\ Absorbed(s) <= Absorbed(c)
    BY <1>2 DEF Behind, SelfOK
  <2> QED BY <2>1, <2>2
<1>4. /\ Good(v) /\ Msgs(v) \subseteq AllMsgs(c) /\ Rooted(v, Get(s, Base))
      /\ ObjectOK(L, Log(i), v)
  BY <1>1, <1>2, MsgsIn DEF Behind, SelfOK, StoreOK
<1> HIDE DEF v
<1>5. StoreOK(L, p)
  BY <1>1, <1>2, <1>4, PutOK
<1>6. /\ DOMAIN p = DOMAIN s /\ p[Log(i)] = v /\ (\A x \in DOMAIN s : x # Log(i) => p[x] = s[x])
      /\ Get(p, Base) = Get(s, Base) /\ Get(p, Log(i)) = v
      /\ Absorbed(p) = Absorbed(s) /\ AllMsgs(p) \subseteq AllMsgs(s) \cup Msgs(v)
  <2>1. DOMAIN s \cup {Log(i)} = DOMAIN s
    OBVIOUS
  <2>2. IsPut(p, s, Log(i), v)
    BY PutIs
  <2> HIDE DEF p
  <2> QED BY <1>2, <2>1, <2>2 DEF IsPut
<1> HIDE DEF p
<1>7. AllMsgs(p) \subseteq AllMsgs(c) /\ OneEach(AllMsgs(p))
  <2>1. AllMsgs(p) \subseteq AllMsgs(c)
    BY <1>4, <1>6 DEF Behind
  <2> QED BY <2>1 DEF SelfOK, OneEach
<1>8. SelfOK(L, p)
  <2>1. \A j \in LogIdx : Log(j) \in DOMAIN p => j <= Absorbed(p) + 1
    BY <1>1, <1>6 DEF SelfOK
  <2>2. \A k \in DOMAIN p : k # Mark => Good(p[k])
    BY <1>1, <1>4, <1>6 DEF SelfOK
  <2>3. \A j \in LogIdx : Log(j) \in DOMAIN p => Rooted(p[Log(j)], Get(p, Base))
    BY <1>1, <1>4, <1>6 DEF SelfOK
  <2> QED BY <1>1, <1>5, <1>6, <1>7, <2>1, <2>2, <2>3 DEF SelfOK
<1>9. OnLive(q, Tip(Text(p)))
  <2>1. Tail2(p) = v /\ Tail2(c) = v
    BY <1>2, <1>3, <1>6 DEF Tail2, Get, v
  <2>2. v # <<>>
    BY <1>4 DEF Good
  <2>3. Tip(Text(p)) = Tip(v) /\ Tip(Text(c)) = Tip(v)
    BY <1>8, <2>1, <2>2, SelfText
  <2> QED BY <2>3
<1>10. Behind(L, p, c, q)
  BY <1>6, <1>7, <1>8, <1>9 DEF Behind
<1> QED BY <1>6, <1>10 DEF p, v

\* A later base lands on what an earlier one left.
LEMMA BaseLands ==
  ASSUME NEW L \in 0..MaxMsgs, NEW s, NEW c, NEW q, Behind(L, s, c, q), SelfOK(L, c),
         Base \in DOMAIN c, OnLive(q, Tip(c[Base]))
  PROVE  /\ Behind(L, Put(s, Base, c[Base]), c, q)
         /\ Get(Put(s, Base, c[Base]), Base) = c[Base]
<1> DEFINE v == c[Base]
           p == Put(s, Base, v)
<1>1. /\ SelfOK(L, s) /\ DOMAIN s \subseteq DOMAIN c /\ StoreOK(L, c) /\ StoreOK(L, s)
      /\ L \in Nat
  BY DEF Behind, SelfOK
<1>2. Base \in Key /\ Base # Mark /\ \A j : Log(j) # Base /\ Log(j) # Mark
  BY Keys
<1>3. /\ Good(v) /\ Msgs(v) \subseteq AllMsgs(c) /\ ObjectOK(L, Base, v)
      /\ Rooted(v, <<>>) /\ Get(c, Base) = v
  BY <1>1, <1>2, MsgsIn DEF SelfOK, StoreOK, Get
<1> HIDE DEF v
<1>4. StoreOK(L, p)
  BY <1>1, <1>2, <1>3, PutOK
<1>5. /\ DOMAIN p = DOMAIN s \cup {Base} /\ p[Base] = v /\ (\A x \in DOMAIN s : x # Base => p[x] = s[x])
      /\ Get(p, Base) = v /\ (\A j : Get(p, Log(j)) = Get(s, Log(j)))
      /\ Absorbed(p) = Absorbed(s) /\ AllMsgs(p) \subseteq AllMsgs(s) \cup Msgs(v)
  <2>1. IsPut(p, s, Base, v)
    BY PutIs
  <2> HIDE DEF p
  <2> QED BY <1>2, <2>1 DEF IsPut
<1> HIDE DEF p
<1>6. \A j \in LogIdx : Log(j) \in DOMAIN p => Log(j) \in DOMAIN s /\ p[Log(j)] = s[Log(j)]
  BY <1>2, <1>5
<1>7. AllMsgs(p) \subseteq AllMsgs(c) /\ OneEach(AllMsgs(p))
  <2>1. AllMsgs(p) \subseteq AllMsgs(c)
    BY <1>3, <1>5 DEF Behind
  <2> QED BY <2>1 DEF SelfOK, OneEach
<1>8. Ids(Get(s, Base)) \subseteq Ids(v)
  BY <1>3 DEF Behind
<1>9. SelfOK(L, p)
  <2>1. \A j \in LogIdx : Log(j) \in DOMAIN p => j <= Absorbed(p) + 1
    BY <1>1, <1>5, <1>6 DEF SelfOK
  <2>2. \A k \in DOMAIN p : k # Mark => Good(p[k])
    BY <1>1, <1>3, <1>5 DEF SelfOK
  <2>3. \A j \in LogIdx : Log(j) \in DOMAIN p => Rooted(p[Log(j)], Get(p, Base))
    <3>1. \A j \in LogIdx : Log(j) \in DOMAIN s => Rooted(s[Log(j)], v)
      BY <1>1, <1>8 DEF SelfOK, Rooted
    <3> QED BY <1>5, <1>6, <3>1
  <2> QED BY <1>3, <1>4, <1>5, <1>7, <2>1, <2>2, <2>3 DEF SelfOK
<1>10. OnLive(q, Tip(Text(p)))
  <2>1. Tail2(p) = Tail2(s)
    BY <1>5 DEF Tail2
  <2>2. Tip(Text(p)) = IF Tail2(s) = <<>> THEN Tip(v) ELSE Tip(Tail2(s))
    BY <1>5, <1>9, <2>1, SelfText
  <2>3. Tail2(s) # <<>> => Tip(Text(s)) = Tip(Tail2(s))
    BY <1>1, SelfText
  <2> QED BY <2>2, <2>3 DEF Behind, v
<1>11. \A j \in LogIdx : Log(j) \in DOMAIN p => Rooted(c[Log(j)], Get(p, Base))
  BY <1>1, <1>3, <1>5, <1>6 DEF SelfOK
<1>12. Behind(L, p, c, q)
  BY <1>1, <1>3, <1>5, <1>7, <1>9, <1>10, <1>11 DEF Behind
<1> QED BY <1>5, <1>12 DEF p, v

\* The mark moves over a base of this boot, when the next log is not begun.
LEMMA MarkLands ==
  ASSUME NEW L \in 0..MaxMsgs, NEW s, NEW c, NEW q, Behind(L, s, c, q), SelfOK(L, c),
         Mark \in DOMAIN c, \A i \in LogIdx : Log(i) \in DOMAIN c => i <= Absorbed(c),
         OnLive(q, Tip(Get(s, Base)))
  PROVE  /\ Behind(L, Put(s, Mark, c[Mark]), c, q)
         /\ Get(Put(s, Mark, c[Mark]), Base) = Get(s, Base)
<1> DEFINE v == c[Mark]
           p == Put(s, Mark, v)
<1>1. /\ SelfOK(L, s) /\ DOMAIN s \subseteq DOMAIN c /\ StoreOK(L, c) /\ StoreOK(L, s)
      /\ L \in Nat
  BY DEF Behind, SelfOK
<1>2. Mark \in Key /\ Base # Mark /\ \A j : Log(j) # Base /\ Log(j) # Mark
  BY Keys
<1>3. ObjectOK(L, Mark, v) /\ Absorbed(c) = v[1].id
  BY <1>1, <1>2 DEF StoreOK, Absorbed
<1> HIDE DEF v
<1>4. StoreOK(L, p)
  BY <1>1, <1>2, <1>3, PutOK
<1>5. /\ DOMAIN p = DOMAIN s \cup {Mark} /\ (\A x \in DOMAIN s : x # Mark => p[x] = s[x])
      /\ (\A k : k # Mark => Get(p, k) = Get(s, k))
      /\ Absorbed(p) = Absorbed(c) /\ AllMsgs(p) \subseteq AllMsgs(s)
  <2>1. IsPut(p, s, Mark, v)
    BY PutIs
  <2> HIDE DEF p
  <2> QED BY <1>2, <1>3, <2>1 DEF IsPut
<1> HIDE DEF p
<1>6. \A j \in LogIdx : Log(j) \in DOMAIN p => Log(j) \in DOMAIN s /\ p[Log(j)] = s[Log(j)]
  BY <1>2, <1>5
<1>7. AllMsgs(p) \subseteq AllMsgs(c) /\ OneEach(AllMsgs(p))
  <2>1. AllMsgs(p) \subseteq AllMsgs(c)
    BY <1>5 DEF Behind
  <2> QED BY <2>1 DEF SelfOK, OneEach
<1>8. Absorbed(c) \in Int /\ Absorbed(c) + 1 \in LogIdx
  <2>1. Absorbed(c) \in -1..(L - 1)
    BY <1>1, AbsorbedBound
  <2> QED BY <2>1 DEF LogIdx
<1>9. SelfOK(L, p)
  <2>1. \A j \in LogIdx : Log(j) \in DOMAIN p => j <= Absorbed(p) + 1
    BY <1>1, <1>5, <1>6, <1>8 DEF LogIdx
  <2>2. \A k \in DOMAIN p : k # Mark => Good(p[k])
    BY <1>1, <1>5 DEF SelfOK
  <2>3. \A j \in LogIdx : Log(j) \in DOMAIN p => Rooted(p[Log(j)], Get(p, Base))
    BY <1>1, <1>2, <1>5, <1>6 DEF SelfOK
  <2>4. Rooted(Get(p, Base), <<>>)
    BY <1>1, <1>2, <1>5 DEF SelfOK
  <2> QED BY <1>4, <1>7, <2>1, <2>2, <2>3, <2>4 DEF SelfOK
<1>10. OnLive(q, Tip(Text(p)))
  <2>1. Log(Absorbed(c) + 1) \notin DOMAIN s
    BY <1>1, <1>8
  <2>2. Tail2(p) = <<>>
    BY <1>2, <1>5, <2>1 DEF Tail2, Get
  <2>3. Tip(Text(p)) = Tip(Get(s, Base))
    BY <1>2, <1>5, <1>9, <2>2, SelfText
  <2> QED BY <2>3
<1>11. Behind(L, p, c, q)
  <2>1. DOMAIN p \subseteq DOMAIN c /\ Absorbed(p) <= Absorbed(c)
    BY <1>1, <1>5, <1>8
  <2>2. \A j \in LogIdx : Log(j) \in DOMAIN p => Rooted(c[Log(j)], Get(p, Base))
    BY <1>2, <1>5, <1>6 DEF Behind
  <2>3. Ids(Get(p, Base)) \subseteq Ids(Get(c, Base))
    BY <1>2, <1>5 DEF Behind
  <2> QED BY <1>7, <1>9, <1>10, <2>1, <2>2, <2>3 DEF Behind
<1> QED BY <1>2, <1>5, <1>11 DEF p, v

-----------------------------------------------------------------------------
(* The stores the bucket goes through as the queue drains.                 *)

Pipe(h, q) == IF h = NoItem THEN q ELSE <<h>> \o q
Unique(q) == \A i, j \in 1..Len(q) : q[i].key = q[j].key => i = j

\* B[j] is the bucket after j of the writes P.
Staged(B, b, P) ==
  B[0] = b /\ \A j \in 1..Len(P) : B[j] = Put(B[j - 1], P[j].key, P[j].val)

\* A mark is among the first j writes.
Marked(P, j) == \E i \in 1..Len(P) : i <= j /\ P[i].key = Mark

LEMMA PutTwice == \A s, k, v, w : Put(Put(s, k, v), k, w) = Put(s, k, w)
BY DEF Put

LEMMA PutCommutes ==
  \A s, k, x, v, w : k # x => Put(Put(s, k, v), x, w) = Put(Put(s, x, w), k, v)
BY DEF Put

\* Q is P after one more write of v under k: at the end, or in the place of
\* the last write under k.
AdmitsBack(P, Q, k, v) ==
  /\ Len(Q) = Len(P) + 1 /\ Q[Len(P) + 1].key = k /\ Q[Len(P) + 1].val = v
  /\ \A i \in 1..Len(P) : Q[i] = P[i]
AdmitsAt(P, Q, k, v, f) ==
  /\ Len(Q) = Len(P)
  /\ P[f].key = k /\ Q[f].key = k /\ Q[f].val = v
  /\ \A i \in 1..Len(P) : i # f => Q[i] = P[i]
  /\ \A i \in 1..Len(P) : i > f => P[i].key # k
Admits(P, Q, k, v) == AdmitsBack(P, Q, k, v) \/ \E f \in 1..Len(P) : AdmitsAt(P, Q, k, v, f)

LEMMA CoalesceAdmits ==
  ASSUME NEW L, NEW q \in Seq(OkEntry(L)), Unique(q), NEW k, NEW v,
         NEW e, e.key = k, e.val = v
  PROVE  Admits(q, Coalesce(q, e), k, v) /\ Unique(Coalesce(q, e))
<1>0. Len(q) \in Nat /\ DOMAIN q = 1..Len(q)
  OBVIOUS
<1>1. CASE Slots(q, k) = {}
  <2> DEFINE r == Append(q, e)
  <2>1. Coalesce(q, e) = r
    BY <1>1 DEF Coalesce
  <2>2. Len(r) = Len(q) + 1 /\ r[Len(q) + 1] = e /\ \A i \in 1..Len(q) : r[i] = q[i]
    BY <1>0
  <2>3. \A i \in 1..Len(q) : q[i].key # k
    BY <1>1 DEF Slots
  <2> HIDE DEF r
  <2>4. Admits(q, r, k, v)
    BY <2>2 DEF Admits, AdmitsBack
  <2>5. Unique(r)
    <3> SUFFICES ASSUME NEW i \in 1..Len(r), NEW j \in 1..Len(r), r[i].key = r[j].key, i # j
                 PROVE  FALSE
      BY DEF Unique
    <3>1. CASE i = Len(q) + 1
      <4>1. j \in 1..Len(q) /\ r[j].key = k
        BY <1>0, <2>2, <3>1
      <4> QED BY <2>2, <2>3, <4>1
    <3>2. CASE j = Len(q) + 1
      <4>1. i \in 1..Len(q) /\ r[i].key = k
        BY <1>0, <2>2, <3>2
      <4> QED BY <2>2, <2>3, <4>1
    <3>3. CASE i # Len(q) + 1 /\ j # Len(q) + 1
      <4>1. i \in 1..Len(q) /\ j \in 1..Len(q)
        BY <1>0, <2>2, <3>3
      <4> QED BY <2>2, <4>1 DEF Unique
    <3> QED BY <3>1, <3>2, <3>3
  <2> QED BY <2>1, <2>4, <2>5
<1>2. CASE Slots(q, k) # {}
  <2>1. PICK f \in 1..Len(q) : q[f].key = k
    BY <1>2 DEF Slots
  <2>2. \A i \in 1..Len(q) : q[i].key = k => i = f
    BY <2>1 DEF Unique
  <2>3. Slots(q, k) = {f}
    BY <2>1, <2>2 DEF Slots
  <2>4. FirstSlot(q, k) = f
    <3>1. \A j \in {f} : f <= j
      BY <1>0
    <3> QED BY <2>3, <3>1 DEF FirstSlot
  <2> DEFINE new == [key |-> e.key, val |-> e.val, retry |-> q[f].retry, tries |-> 0]
             r == [i \in 1..Len(q) |-> IF i = f THEN new ELSE q[i]]
  <2>5. Coalesce(q, e) = r
    BY <1>0, <1>2, <2>1, <2>4 DEF Coalesce
  <2>6. new.key = k /\ new.val = v
    OBVIOUS
  <2> HIDE DEF new
  <2>7. Len(r) = Len(q) /\ r[f] = new /\ \A i \in 1..Len(q) : i # f => r[i] = q[i]
    BY <1>0
  <2> HIDE DEF r
  <2>8. \A i \in 1..Len(q) : i > f => q[i].key # k
    BY <1>0, <2>2
  <2>9. Admits(q, r, k, v)
    BY <2>1, <2>6, <2>7, <2>8 DEF Admits, AdmitsAt
  <2>10. \A i \in 1..Len(q) : r[i].key = q[i].key
    BY <2>1, <2>6, <2>7
  <2>11. Unique(r)
    BY <2>7, <2>10 DEF Unique
  <2> QED BY <2>5, <2>9, <2>11
<1> QED BY <1>1, <1>2

LEMMA PipeIs ==
  ASSUME NEW h, NEW S, NEW q \in Seq(S), h # NoItem
  PROVE  /\ Len(Pipe(h, q)) = Len(q) + 1 /\ Len(q) \in Nat
         /\ Pipe(h, q)[1] = h
         /\ \A i \in 1..Len(q) : Pipe(h, q)[i + 1] = q[i]
<1>1. q \in Seq(S \cup {h}) /\ <<h>> \in Seq(S \cup {h}) /\ Len(<<h>>) = 1 /\ <<h>>[1] = h
  OBVIOUS
<1>2. Pipe(h, q) = <<h>> \o q
  BY DEF Pipe
<1> QED BY <1>1, <1>2

LEMMA PipeAdmits ==
  ASSUME NEW S, NEW q \in Seq(S), NEW r \in Seq(S), NEW k, NEW v, NEW h, Admits(q, r, k, v)
  PROVE  Admits(Pipe(h, q), Pipe(h, r), k, v)
<1>1. CASE h = NoItem
  BY <1>1 DEF Pipe
<1>2. CASE h # NoItem
  <2> DEFINE P == Pipe(h, q)
             Q == Pipe(h, r)
  <2>1. /\ Len(P) = Len(q) + 1 /\ Len(q) \in Nat /\ P[1] = h
        /\ \A i \in 1..Len(q) : P[i + 1] = q[i]
    BY <1>2, PipeIs
  <2>2. /\ Len(Q) = Len(r) + 1 /\ Len(r) \in Nat /\ Q[1] = h
        /\ \A i \in 1..Len(r) : Q[i + 1] = r[i]
    BY <1>2, PipeIs
  <2> HIDE DEF P, Q
  <2>3. \A i \in 1..Len(P) : i # 1 => i - 1 \in 1..Len(q) /\ P[i] = q[i - 1]
    <3> SUFFICES ASSUME NEW i \in 1..Len(P), i # 1 PROVE i - 1 \in 1..Len(q) /\ P[i] = q[i - 1]
      OBVIOUS
    <3>1. i - 1 \in 1..Len(q) /\ (i - 1) + 1 = i
      BY <2>1
    <3> QED BY <2>1, <3>1
  <2>4. ASSUME AdmitsBack(q, r, k, v) PROVE AdmitsBack(P, Q, k, v)
    <3>0. /\ Len(r) = Len(q) + 1 /\ r[Len(q) + 1].key = k /\ r[Len(q) + 1].val = v
          /\ \A i \in 1..Len(q) : r[i] = q[i]
      BY <2>4 DEF AdmitsBack
    <3>1. Q[Len(P) + 1] = r[Len(q) + 1] /\ Len(Q) = Len(P) + 1
      <4>1. Len(q) + 1 \in 1..Len(r) /\ Len(P) + 1 = (Len(q) + 1) + 1
        BY <2>1, <3>0
      <4> QED BY <2>1, <2>2, <3>0, <4>1
    <3>2. \A i \in 1..Len(P) : Q[i] = P[i]
      <4> SUFFICES ASSUME NEW i \in 1..Len(P) PROVE Q[i] = P[i]
        OBVIOUS
      <4>1. CASE i = 1
        BY <2>1, <2>2, <4>1
      <4>2. CASE i # 1
        <5>1. i - 1 \in 1..Len(q) /\ P[i] = q[i - 1] /\ i - 1 \in 1..Len(r) /\ (i - 1) + 1 = i
          BY <2>1, <2>3, <3>0, <4>2
        <5>2. Q[i] = r[i - 1]
          BY <2>2, <5>1
        <5> QED BY <3>0, <5>1, <5>2
      <4> QED BY <4>1, <4>2
    <3> QED BY <3>0, <3>1, <3>2 DEF AdmitsBack
  <2>5. ASSUME NEW g \in 1..Len(q), AdmitsAt(q, r, k, v, g)
        PROVE  \E f \in 1..Len(P) : AdmitsAt(P, Q, k, v, f)
    <3> DEFINE f == g + 1
    <3>0. /\ Len(r) = Len(q) /\ q[g].key = k /\ r[g].key = k /\ r[g].val = v
          /\ \A i \in 1..Len(q) : i # g => r[i] = q[i]
          /\ \A i \in 1..Len(q) : i > g => q[i].key # k
      BY <2>5 DEF AdmitsAt
    <3>1. f \in 1..Len(P) /\ f - 1 = g /\ P[f] = q[g] /\ Q[f] = r[g] /\ Len(Q) = Len(P) /\ f > 1
      BY <2>1, <2>2, <3>0
    <3> HIDE DEF f
    <3>2. \A i \in 1..Len(P) : i # f => Q[i] = P[i]
      <4> SUFFICES ASSUME NEW i \in 1..Len(P), i # f PROVE Q[i] = P[i]
        OBVIOUS
      <4>1. CASE i = 1
        BY <2>1, <2>2, <4>1
      <4>2. CASE i # 1
        <5>1. i - 1 \in 1..Len(q) /\ P[i] = q[i - 1] /\ (i - 1) + 1 = i
          BY <2>3, <4>2
        <5>2. Q[i] = r[i - 1]
          BY <2>2, <3>0, <5>1
        <5>3. i - 1 # g
          BY <3>1
        <5> QED BY <3>0, <5>1, <5>2, <5>3
      <4> QED BY <4>1, <4>2
    <3>3. \A i \in 1..Len(P) : i > f => P[i].key # k
      <4> SUFFICES ASSUME NEW i \in 1..Len(P), i > f PROVE P[i].key # k
        OBVIOUS
      <4>1. i - 1 \in 1..Len(q) /\ P[i] = q[i - 1] /\ i - 1 > g
        BY <2>3, <3>1
      <4> QED BY <3>0, <4>1
    <3>4. AdmitsAt(P, Q, k, v, f)
      BY <3>0, <3>1, <3>2, <3>3 DEF AdmitsAt
    <3> QED BY <3>1, <3>4
  <2>6. Admits(P, Q, k, v)
    BY <2>4, <2>5 DEF Admits
  <2> QED BY <2>6 DEF P, Q
<1> QED BY <1>1, <1>2

\* How each store Q leads to comes about: untouched, with the write on top of
\* an earlier one of the same key, or as the last store with the write on top.
Stage(B, P, C, Q, k, v, j) ==
  \/ j \in 0..Len(P) /\ C[j] = B[j] /\ (Marked(Q, j) => Marked(P, j))
  \/ /\ j \in 0..Len(P) /\ C[j] = Put(B[j], k, v) /\ k \in DOMAIN B[j]
     /\ (Marked(Q, j) => Marked(P, j)) /\ (k = Mark => Marked(P, j))
  \/ /\ C[j] = Put(B[Len(P)], k, v)
     /\ k \notin {Base, Mark} => (Marked(Q, j) => Marked(P, Len(P)))

LEMMA LandedStays ==
  ASSUME NEW B, NEW b, NEW P, Len(P) \in Nat, Staged(B, b, P), NEW f \in 1..Len(P)
  PROVE  \A j \in f..Len(P) : P[f].key \in DOMAIN B[j]
<1> DEFINE S == {n \in Nat : f + n <= Len(P) => P[f].key \in DOMAIN B[f + n]}
<1>1. \A j \in 1..Len(P) : DOMAIN B[j] = DOMAIN B[j - 1] \cup {P[j].key}
  <2> SUFFICES ASSUME NEW j \in 1..Len(P)
               PROVE  DOMAIN B[j] = DOMAIN B[j - 1] \cup {P[j].key}
    OBVIOUS
  <2>1. B[j] = Put(B[j - 1], P[j].key, P[j].val)
    BY DEF Staged
  <2>2. DOMAIN Put(B[j - 1], P[j].key, P[j].val) = DOMAIN B[j - 1] \cup {P[j].key}
    BY DEF Put
  <2> QED BY <2>1, <2>2
<1>2. 0 \in S
  BY <1>1
<1>3. ASSUME NEW n \in Nat, n \in S PROVE n + 1 \in S
  <2> SUFFICES ASSUME f + (n + 1) <= Len(P) PROVE P[f].key \in DOMAIN B[f + (n + 1)]
    OBVIOUS
  <2>1. f + (n + 1) \in 1..Len(P) /\ (f + (n + 1)) - 1 = f + n /\ f + n <= Len(P)
    OBVIOUS
  <2>2. P[f].key \in DOMAIN B[f + n]
    BY <1>3, <2>1
  <2> QED BY <1>1, <2>1, <2>2
<1>4. Nat \subseteq S
  <2> HIDE DEF S
  <2> QED BY <1>2, <1>3, NatSetInduction
<1>5. \A j \in f..Len(P) : j - f \in S /\ f + (j - f) = j /\ j <= Len(P)
  <2>1. \A j \in f..Len(P) : j - f \in Nat /\ f + (j - f) = j /\ j <= Len(P)
    OBVIOUS
  <2> HIDE DEF S
  <2> QED BY <1>4, <2>1
<1> QED BY <1>5

LEMMA BackStages ==
  ASSUME NEW B, NEW b, NEW P, Len(P) \in Nat, Staged(B, b, P), NEW k, NEW v,
         NEW Q, AdmitsBack(P, Q, k, v)
  PROVE  \E C : /\ Staged(C, b, Q) /\ C[Len(Q)] = Put(B[Len(P)], k, v)
                /\ \A j \in 0..Len(Q) : Stage(B, P, C, Q, k, v, j)
<1> DEFINE n == Len(P)
           C == [j \in 0..(n + 1) |-> IF j = n + 1 THEN Put(B[n], k, v) ELSE B[j]]
<1>1. /\ Len(Q) = n + 1 /\ Q[n + 1].key = k /\ Q[n + 1].val = v
      /\ \A i \in 1..n : Q[i] = P[i]
  BY DEF AdmitsBack
<1>2. /\ B[0] = b
      /\ \A j \in 1..n : B[j] = Put(B[j - 1], P[j].key, P[j].val)
  BY DEF Staged
<1>3. C[n + 1] = Put(B[n], k, v) /\ \A j \in 0..n : C[j] = B[j]
  OBVIOUS
<1> HIDE DEF C
<1>4. Staged(C, b, Q)
  <2>1. C[0] = b
    BY <1>2, <1>3
  <2>2. ASSUME NEW j \in 1..(n + 1) PROVE C[j] = Put(C[j - 1], Q[j].key, Q[j].val)
    <3>1. CASE j = n + 1
      <4>1. j - 1 = n /\ n \in 0..n
        BY <3>1
      <4> QED BY <1>1, <1>3, <3>1, <4>1
    <3>2. CASE j # n + 1
      <4>1. j \in 1..n /\ j \in 0..n /\ j - 1 \in 0..n
        BY <3>2
      <4> QED BY <1>1, <1>2, <1>3, <4>1
    <3> QED BY <3>1, <3>2
  <2> QED BY <1>1, <2>1, <2>2 DEF Staged
<1>5. ASSUME NEW j \in 0..(n + 1) PROVE Stage(B, P, C, Q, k, v, j)
  <2>1. CASE j = n + 1
    <3>1. C[j] = Put(B[n], k, v)
      BY <1>3, <2>1
    <3>2. ASSUME k \notin {Base, Mark}, Marked(Q, j) PROVE Marked(P, n)
      <4>1. PICK i \in 1..(n + 1) : i <= j /\ Q[i].key = Mark
        BY <1>1, <3>2 DEF Marked
      <4>2. i # n + 1
        BY <1>1, <3>2, <4>1
      <4>3. i \in 1..n /\ i <= n /\ P[i].key = Mark
        BY <1>1, <4>1, <4>2
      <4> QED BY <4>3 DEF Marked
    <3> QED BY <3>1, <3>2 DEF Stage
  <2>2. CASE j # n + 1
    <3>1. j \in 0..n /\ C[j] = B[j]
      BY <1>3, <2>2
    <3>2. ASSUME Marked(Q, j) PROVE Marked(P, j)
      <4>1. PICK i \in 1..(n + 1) : i <= j /\ Q[i].key = Mark
        BY <1>1, <3>2 DEF Marked
      <4>2. i \in 1..n /\ P[i].key = Mark
        BY <1>1, <3>1, <4>1
      <4> QED BY <4>1, <4>2 DEF Marked
    <3> QED BY <3>1, <3>2 DEF Stage
  <2> QED BY <2>1, <2>2
<1>6. C[Len(Q)] = Put(B[n], k, v)
  BY <1>1, <1>3
<1> QED BY <1>1, <1>4, <1>5, <1>6

LEMMA AtStages ==
  ASSUME NEW B, NEW b, NEW P, Len(P) \in Nat, Staged(B, b, P), NEW k, NEW v,
         NEW Q, NEW f \in 1..Len(P), AdmitsAt(P, Q, k, v, f)
  PROVE  \E C : /\ Staged(C, b, Q) /\ C[Len(Q)] = Put(B[Len(P)], k, v)
                /\ \A j \in 0..Len(Q) : Stage(B, P, C, Q, k, v, j)
<1> DEFINE n == Len(P)
           C == [j \in 0..n |-> IF j < f THEN B[j] ELSE Put(B[j], k, v)]
<1>1. /\ Len(Q) = n /\ P[f].key = k /\ Q[f].key = k /\ Q[f].val = v
      /\ \A i \in 1..n : i # f => Q[i] = P[i]
      /\ \A i \in 1..n : i > f => P[i].key # k
  BY DEF AdmitsAt
<1>2. /\ B[0] = b
      /\ \A j \in 1..n : B[j] = Put(B[j - 1], P[j].key, P[j].val)
  BY DEF Staged
<1>3. /\ \A j \in 0..n : j < f => C[j] = B[j]
      /\ \A j \in 0..n : j >= f => C[j] = Put(B[j], k, v)
  OBVIOUS
<1> HIDE DEF C
<1>4. Staged(C, b, Q)
  <2>1. C[0] = b
    BY <1>2, <1>3
  <2>2. ASSUME NEW j \in 1..n PROVE C[j] = Put(C[j - 1], Q[j].key, Q[j].val)
    <3>0. j \in 0..n /\ j - 1 \in 0..n
      OBVIOUS
    <3>1. CASE j < f
      <4>1. j - 1 < f /\ j # f
        BY <3>1
      <4> QED BY <1>1, <1>2, <1>3, <3>0, <3>1, <4>1
    <3>2. CASE j = f
      <4>1. C[j - 1] = B[j - 1] /\ C[j] = Put(B[j], k, v)
        BY <1>3, <3>0, <3>2
      <4>2. B[j] = Put(B[j - 1], k, P[j].val)
        BY <1>1, <1>2, <3>2
      <4>3. C[j] = Put(B[j - 1], k, v)
        BY <4>1, <4>2, PutTwice
      <4> QED BY <1>1, <3>2, <4>1, <4>3
    <3>3. CASE j > f
      <4>1. C[j - 1] = Put(B[j - 1], k, v) /\ C[j] = Put(B[j], k, v)
        BY <1>3, <3>0, <3>3
      <4>2. B[j] = Put(B[j - 1], P[j].key, P[j].val) /\ P[j].key # k /\ Q[j] = P[j]
        BY <1>1, <1>2, <3>3
      <4>3. C[j] = Put(Put(B[j - 1], k, v), P[j].key, P[j].val)
        BY <4>1, <4>2, PutCommutes
      <4> QED BY <4>1, <4>2, <4>3
    <3> QED BY <3>0, <3>1, <3>2, <3>3
  <2> QED BY <1>1, <2>1, <2>2 DEF Staged
<1>5. ASSUME NEW j \in 0..n PROVE Stage(B, P, C, Q, k, v, j)
  <2>1. ASSUME Marked(Q, j) PROVE Marked(P, j)
    <3>1. PICK i \in 1..n : i <= j /\ Q[i].key = Mark
      BY <1>1, <2>1 DEF Marked
    <3>2. P[i].key = Mark
      BY <1>1, <3>1
    <3> QED BY <3>1, <3>2 DEF Marked
  <2>2. CASE j < f
    BY <1>3, <2>1, <2>2 DEF Stage
  <2>3. CASE j >= f
    <3>1. k \in DOMAIN B[j]
      <4>1. j \in f..n
        BY <2>3
      <4> QED BY <1>1, <4>1, LandedStays
    <3>2. ASSUME k = Mark PROVE Marked(P, j)
      <4>1. f <= j /\ P[f].key = Mark
        BY <1>1, <2>3, <3>2
      <4> QED BY <4>1 DEF Marked
    <3>3. C[j] = Put(B[j], k, v)
      BY <1>3, <2>3
    <3> QED BY <2>1, <3>1, <3>2, <3>3 DEF Stage
  <2> QED BY <2>2, <2>3
<1>6. C[Len(Q)] = Put(B[n], k, v)
  <2>1. n \in 0..n /\ n >= f
    OBVIOUS
  <2> QED BY <1>1, <1>3, <2>1
<1> QED BY <1>1, <1>4, <1>5, <1>6

LEMMA Stages ==
  ASSUME NEW B, NEW b, NEW P, Len(P) \in Nat, Staged(B, b, P), NEW k, NEW v,
         NEW Q, Admits(P, Q, k, v)
  PROVE  \E C : /\ Staged(C, b, Q) /\ C[Len(Q)] = Put(B[Len(P)], k, v)
                /\ \A j \in 0..Len(Q) : Stage(B, P, C, Q, k, v, j)
<1>1. CASE AdmitsBack(P, Q, k, v)
  BY <1>1, BackStages
<1>2. ASSUME NEW f \in 1..Len(P), AdmitsAt(P, Q, k, v, f)
      PROVE  \E C : /\ Staged(C, b, Q) /\ C[Len(Q)] = Put(B[Len(P)], k, v)
                    /\ \A j \in 0..Len(Q) : Stage(B, P, C, Q, k, v, j)
  BY <1>2, AtStages
<1> QED BY <1>1, <1>2 DEF Admits

\* A store the bucket is about to be: its history is on q, and once a mark
\* lands, so is the end of its base.
Lands(L, s, c, q, P, j) ==
  Behind(L, s, c, q) /\ (Marked(P, j) => OnLive(q, Tip(Get(s, Base))))

Landing(B, b, P, L, c, q) ==
  Staged(B, b, P) /\ \A j \in 0..Len(P) : Lands(L, B[j], c, q, P, j)

\* The object that append() has put in the cache c and is about to enqueue.
Enqueued(c, q, k) ==
  /\ k \in DOMAIN c
  /\ \/ k = Log(Absorbed(c) + 1)
     \/ k = Base /\ OnLive(q, Tip(c[Base]))
     \/ /\ k = Mark /\ OnLive(q, Tip(Get(c, Base)))
        /\ \A i \in LogIdx : Log(i) \in DOMAIN c => i <= Absorbed(c)

LEMMA OneLands ==
  ASSUME NEW L \in 0..MaxMsgs, NEW c, SelfOK(L, c), NEW q, OnLive(q, Tip(Text(c))),
         NEW B, NEW b, NEW P, Len(P) \in Nat, Landing(B, b, P, L, c, q),
         NEW k, Enqueued(c, q, k), Put(B[Len(P)], k, c[k]) = c,
         NEW C, NEW Q, NEW j, Stage(B, P, C, Q, k, c[k], j)
  PROVE  Lands(L, C[j], c, q, Q, j)
<1> USE Keys
<1>0. Len(P) \in 0..Len(P) /\ \A n \in 0..Len(P) : Lands(L, B[n], c, q, P, n)
  BY DEF Landing
<1>1. CASE j \in 0..Len(P) /\ C[j] = B[j] /\ (Marked(Q, j) => Marked(P, j))
  BY <1>0, <1>1 DEF Lands
<1>2. CASE /\ j \in 0..Len(P) /\ C[j] = Put(B[j], k, c[k]) /\ k \in DOMAIN B[j]
           /\ (Marked(Q, j) => Marked(P, j)) /\ (k = Mark => Marked(P, j))
  <2>1. /\ Behind(L, B[j], c, q)
        /\ Marked(P, j) => OnLive(q, Tip(Get(B[j], Base)))
    BY <1>0, <1>2 DEF Lands
  <2>2. CASE k = Log(Absorbed(c) + 1)
    <3>1. Behind(L, C[j], c, q) /\ Get(C[j], Base) = Get(B[j], Base)
      BY <1>2, <2>1, <2>2, LogLands
    <3> QED BY <1>2, <2>1, <3>1 DEF Lands
  <2>3. CASE k = Base /\ OnLive(q, Tip(c[Base]))
    <3>1. Behind(L, C[j], c, q) /\ Get(C[j], Base) = c[Base]
      BY <1>2, <2>1, <2>3, BaseLands DEF Enqueued
    <3> QED BY <2>3, <3>1 DEF Lands
  <2>4. CASE /\ k = Mark /\ OnLive(q, Tip(Get(c, Base)))
             /\ \A i \in LogIdx : Log(i) \in DOMAIN c => i <= Absorbed(c)
    <3>1. Behind(L, C[j], c, q) /\ Get(C[j], Base) = Get(B[j], Base)
      BY <1>2, <2>1, <2>4, MarkLands DEF Enqueued
    <3> QED BY <1>2, <2>1, <3>1 DEF Lands
  <2> QED BY <2>2, <2>3, <2>4 DEF Enqueued
<1>3. CASE /\ C[j] = Put(B[Len(P)], k, c[k])
           /\ k \notin {Base, Mark} => (Marked(Q, j) => Marked(P, Len(P)))
  <2>1. C[j] = c /\ Behind(L, c, c, q)
    BY <1>3, BehindItself
  <2>2. CASE k = Log(Absorbed(c) + 1)
    <3>1. Marked(P, Len(P)) => OnLive(q, Tip(Get(B[Len(P)], Base)))
      BY <1>0 DEF Lands
    <3>2. Get(c, Base) = Get(B[Len(P)], Base)
      <4>1. IsPut(Put(B[Len(P)], k, c[k]), B[Len(P)], k, c[k])
        BY PutIs
      <4> QED BY <2>2, <4>1 DEF IsPut
    <3> QED BY <1>3, <2>1, <2>2, <3>1, <3>2 DEF Lands
  <2>3. CASE k # Log(Absorbed(c) + 1)
    <3>1. OnLive(q, Tip(Get(c, Base)))
      BY <2>3 DEF Enqueued, Get
    <3> QED BY <2>1, <3>1 DEF Lands
  <2> QED BY <2>2, <2>3
<1> QED BY <1>1, <1>2, <1>3 DEF Stage

LEMMA EnqueueLands ==
  ASSUME NEW L \in 0..MaxMsgs, NEW c, SelfOK(L, c), NEW q, OnLive(q, Tip(Text(c))),
         NEW B, NEW b, NEW P, Len(P) \in Nat, Landing(B, b, P, L, c, q),
         NEW k, Enqueued(c, q, k), Put(B[Len(P)], k, c[k]) = c,
         NEW Q, Admits(P, Q, k, c[k])
  PROVE  \E C : Landing(C, b, Q, L, c, q) /\ C[Len(Q)] = c
<1>1. Staged(B, b, P)
  BY DEF Landing
<1>2. PICK C : /\ Staged(C, b, Q) /\ C[Len(Q)] = Put(B[Len(P)], k, c[k])
               /\ \A j \in 0..Len(Q) : Stage(B, P, C, Q, k, c[k], j)
  BY <1>1, Stages
<1>3. \A j \in 0..Len(Q) : Lands(L, C[j], c, q, Q, j)
  BY <1>2, OneLands
<1>4. Landing(C, b, Q, L, c, q) /\ C[Len(Q)] = c
  BY <1>2, <1>3 DEF Landing
<1> QED BY <1>4

LEMMA LandingAhead ==
  ASSUME NEW L \in 0..MaxMsgs, NEW c, SelfOK(L, c), NEW q,
         NEW B, NEW b, NEW P, Landing(B, b, P, L, c, q),
         NEW d, NEW r, Ahead(c, q, d, r), Absorbed(d) \in Int
  PROVE  Landing(B, b, P, L, d, r) /\ Landing(B, b, P, L + 1, d, r)
<1> L \in Nat
  OBVIOUS
<1>1. ASSUME NEW j \in 0..Len(P)
      PROVE  Lands(L, B[j], d, r, P, j) /\ Lands(L + 1, B[j], d, r, P, j)
  <2>1. /\ Behind(L, B[j], c, q)
        /\ Marked(P, j) => OnLive(q, Tip(Get(B[j], Base)))
    BY DEF Landing, Lands
  <2>2. Behind(L, B[j], d, r)
    BY <2>1, BehindAhead
  <2>3. Marked(P, j) => OnLive(r, Tip(Get(B[j], Base)))
    BY <2>1 DEF Ahead
  <2>4. Behind(L + 1, B[j], d, r)
    BY <2>2, SelfGrows DEF Behind
  <2> QED BY <2>2, <2>3, <2>4 DEF Lands
<1> QED BY <1>1 DEF Landing

\* The pipe loses its first write, and with it its first store.
LEMMA LandingShifts ==
  ASSUME NEW B, NEW b, NEW h, h # NoItem, NEW S, NEW q \in Seq(S),
         NEW L, NEW c, NEW r, Landing(B, b, Pipe(h, q), L, c, r)
  PROVE  \E C : /\ Landing(C, Put(b, h.key, h.val), q, L, c, r)
                /\ C[Len(q)] = B[Len(Pipe(h, q))]
<1> DEFINE P == Pipe(h, q)
           C == [j \in 0..Len(q) |-> B[j + 1]]
<1>1. /\ Len(P) = Len(q) + 1 /\ Len(q) \in Nat /\ P[1] = h
      /\ \A i \in 1..Len(q) : P[i + 1] = q[i]
  BY PipeIs
<1>2. /\ B[0] = b
      /\ \A j \in 1..Len(P) : B[j] = Put(B[j - 1], P[j].key, P[j].val)
      /\ \A j \in 0..Len(P) : Lands(L, B[j], c, r, P, j)
  BY DEF Landing, Staged
<1> HIDE DEF P
<1>3. \A j \in 0..Len(q) : C[j] = B[j + 1] /\ j + 1 \in 0..Len(P) /\ j + 1 \in 1..Len(P)
  BY <1>1
<1> HIDE DEF C
<1>4. C[0] = Put(b, h.key, h.val)
  <2>1. 0 \in 0..Len(q) /\ 0 + 1 = 1 /\ 1 - 1 = 0
    BY <1>1
  <2>2. C[0] = B[1] /\ 1 \in 1..Len(P)
    BY <1>3, <2>1
  <2>3. B[1] = Put(B[0], P[1].key, P[1].val)
    BY <1>2, <2>1, <2>2
  <2> QED BY <1>1, <1>2, <2>2, <2>3
<1>5. ASSUME NEW j \in 1..Len(q) PROVE C[j] = Put(C[j - 1], q[j].key, q[j].val)
  <2>1. j \in 0..Len(q) /\ j - 1 \in 0..Len(q) /\ (j - 1) + 1 = j /\ (j + 1) - 1 = j
    BY <1>1
  <2>2. C[j] = B[j + 1] /\ C[j - 1] = B[j] /\ j + 1 \in 1..Len(P)
    BY <1>3, <2>1
  <2>3. B[j + 1] = Put(B[j], P[j + 1].key, P[j + 1].val)
    BY <1>2, <2>1, <2>2
  <2> QED BY <1>1, <2>2, <2>3
<1>6. ASSUME NEW j \in 0..Len(q) PROVE Lands(L, C[j], c, r, q, j)
  <2>1. Lands(L, B[j + 1], c, r, P, j + 1) /\ C[j] = B[j + 1]
    BY <1>2, <1>3
  <2>2. ASSUME Marked(q, j) PROVE Marked(P, j + 1)
    <3>1. PICK i \in 1..Len(q) : i <= j /\ q[i].key = Mark
      BY <2>2 DEF Marked
    <3>2. i + 1 \in 1..Len(P) /\ i + 1 <= j + 1
      BY <1>1, <3>1
    <3> QED BY <1>1, <3>1, <3>2 DEF Marked
  <2> QED BY <2>1, <2>2 DEF Lands
<1>7. C[Len(q)] = B[Len(P)]
  BY <1>1, <1>3
<1>8. Landing(C, Put(b, h.key, h.val), q, L, c, r)
  BY <1>4, <1>5, <1>6 DEF Landing, Staged
<1> QED BY <1>7, <1>8 DEF P

-----------------------------------------------------------------------------
(* What append() does to the cache.                                        *)

\* The cache d after a step, when it was c, with history q then and r now.
Moves(L, c, q, d, r) ==
  /\ SelfOK(L, d) /\ Branch(Text(d)) = r
  /\ Ahead(c, q, d, r)

LEMMA ActiveIs ==
  ASSUME NEW L \in 0..MaxMsgs, NEW c, SelfOK(L, c)
  PROVE  /\ Absorbed(c) \in -1..(L - 1) /\ Absorbed(c) + 1 \in LogIdx
         /\ Log(Absorbed(c) + 1) \in Key
         /\ \A k \in DOMAIN c : k # Mark => c[k] \in Seq(Written(L)) /\ Get(c, k) = c[k]
<1>1. L \in Nat /\ StoreOK(L, c)
  BY DEF SelfOK
<1>2. Absorbed(c) \in -1..(L - 1)
  BY <1>1, AbsorbedBound
<1>3. Absorbed(c) + 1 \in LogIdx
  BY <1>2 DEF LogIdx
<1>4. \A k \in DOMAIN c : k # Mark => c[k] \in Seq(Written(L)) /\ Get(c, k) = c[k]
  BY <1>1 DEF StoreOK, ObjectOK, Get
<1> QED BY <1>2, <1>3, <1>4, Keys

\* compact_log's new base, and the active log with one message more.
Folded(c, i) == Get(c, Base) \o Get(c, Log(i))
Grown(c, i, m) == Get(c, Log(i)) \o <<MsgLine(m, Leaf(Text(c))), InfoLine(m)>>

LEMMA BaseMoves ==
  ASSUME NEW L \in 0..MaxMsgs, NEW c, SelfOK(L, c), NEW i, i = Absorbed(c) + 1,
         Log(i) \in DOMAIN c, NEW v, v = Folded(c, i), NEW d, d = Put(c, Base, v)
  PROVE  /\ Moves(L, c, Branch(Text(c)), d, Branch(Text(c)))
         /\ Absorbed(d) = Absorbed(c) /\ Base \in DOMAIN d /\ Log(i) \in DOMAIN d
         /\ d[Base] = v
         /\ Msgs(d[Log(i)]) \subseteq Msgs(d[Base])
         /\ Tip(d[Base]) = Tip(Text(d))
         /\ OnLive(Branch(Text(c)), Tip(d[Base]))
<1> USE Keys
<1> DEFINE q == Branch(Text(c))
           bb == Get(c, Base)
           g == Get(c, Log(i))
<1>0. /\ L \in Nat /\ StoreOK(L, c) /\ Absorbed(c) \in -1..(L - 1) /\ i \in LogIdx
      /\ Log(i) \in Key /\ v = bb \o g
  BY ActiveIs DEF SelfOK, Folded
<1>1. /\ bb \in Seq(Written(L)) /\ g \in Seq(Written(L)) /\ g = c[Log(i)]
      /\ bb = <<>> \/ Good(bb)
      /\ Good(g) /\ g # <<>> /\ Rooted(g, bb) /\ Rooted(bb, <<>>)
      /\ Text(c) = bb \o g
  <2>1. /\ bb \in Seq(Written(L)) /\ g \in Seq(Written(L))
        /\ bb = <<>> \/ Good(bb)
        /\ Rooted(g, bb) /\ Text(c) = bb \o g
    BY SelfParts DEF Tail2
  <2>2. g = c[Log(i)] /\ Good(g) /\ Rooted(bb, <<>>)
    BY <1>0 DEF SelfOK, Get
  <2>3. g # <<>>
    BY <2>2 DEF Good
  <2> QED BY <2>1, <2>2, <2>3
<1>2. /\ v \in Seq(Written(L)) /\ Good(v) /\ Tip(v) = Tip(g)
      /\ Msgs(v) = Msgs(bb) \cup Msgs(g) /\ Ids(v) = Ids(bb) \cup Ids(g)
  <2>0. /\ bb \in Seq(Written(L)) /\ g \in Seq(Written(L)) /\ v = bb \o g
        /\ L \in Nat /\ g # <<>>
        /\ bb = <<>> \/ Good(bb)
        /\ g = <<>> \/ Good(g)
    BY <1>0, <1>1
  <2> HIDE DEF bb, g
  <2>1. v \in Seq(Written(L))
    BY ONLY <2>0
  <2>2. Msgs(v) = Msgs(bb) \cup Msgs(g) /\ Ids(v) = Ids(bb) \cup Ids(g)
    BY ONLY <2>0, MsgsOfTwo
  <2>3. /\ Tip(v) = Tip(g)
        /\ v = <<>> \/ Good(v)
        /\ v # <<>>
    BY ONLY <2>0, TipOfTwo
  <2>4. Good(v)
    BY <2>3
  <2> QED BY <2>1, <2>2, <2>3, <2>4
<1>3. IsPut(d, c, Base, v)
  BY PutIs
<1>4. /\ Absorbed(d) = Absorbed(c) /\ Base \in DOMAIN d /\ Log(i) \in DOMAIN d /\ d[Base] = v
      /\ Get(d, Base) = v /\ DOMAIN c \subseteq DOMAIN d
      /\ \A x \in DOMAIN c : x # Base => d[x] = c[x]
      /\ \A x : x # Base => Get(d, x) = Get(c, x)
      /\ DOMAIN d = DOMAIN c \cup {Base}
  BY <1>3 DEF IsPut
<1>5. Msgs(bb) \cup Msgs(g) \subseteq AllMsgs(c)
  BY SelfParts DEF Tail2
<1>6. AllMsgs(d) \subseteq AllMsgs(c) /\ AllMsgs(c) \subseteq AllMsgs(d)
  <2>1. AllMsgs(d) \subseteq AllMsgs(c) \cup Msgs(v)
    BY <1>3 DEF IsPut
  <2>2. ASSUME NEW k \in DOMAIN c \ {Mark} PROVE Msgs(c[k]) \subseteq AllMsgs(d)
    <3>1. CASE k = Base
      <4>1. c[k] = bb /\ Msgs(d[Base]) \subseteq AllMsgs(d)
        BY <1>4, <3>1, MsgsIn DEF Get
      <4> QED BY <1>2, <1>4, <4>1
    <3>2. CASE k # Base
      <4>1. Msgs(d[k]) \subseteq AllMsgs(d)
        BY <1>4, MsgsIn
      <4> QED BY <1>4, <3>2, <4>1
    <3> QED BY <3>1, <3>2
  <2>3. AllMsgs(c) \subseteq AllMsgs(d)
    BY <2>2 DEF AllMsgs
  <2> QED BY <1>2, <1>5, <2>1, <2>3
<1>7. SelfOK(L, d)
  <2>1. StoreOK(L, d)
    <3>1. ObjectOK(L, Base, v)
      BY <1>2 DEF ObjectOK
    <3> QED BY <1>0, <3>1, PutOK
  <2>2. \A n \in LogIdx : Log(n) \in DOMAIN d => Log(n) \in DOMAIN c /\ d[Log(n)] = c[Log(n)]
    BY <1>4
  <2>3. \A n \in LogIdx : Log(n) \in DOMAIN d => n <= Absorbed(d) + 1
    BY <1>4, <2>2 DEF SelfOK
  <2>4. \A k \in DOMAIN d : k # Mark => Good(d[k])
    BY <1>2, <1>4 DEF SelfOK
  <2>5. Rooted(Get(d, Base), <<>>)
    BY <1>1, <1>2, <1>4, NoMsgs DEF Rooted
  <2>6. \A n \in LogIdx : Log(n) \in DOMAIN d => Rooted(d[Log(n)], Get(d, Base))
    <3> SUFFICES ASSUME NEW n \in LogIdx, Log(n) \in DOMAIN d
                 PROVE  Rooted(d[Log(n)], Get(d, Base))
      OBVIOUS
    <3>1. Rooted(c[Log(n)], bb) /\ d[Log(n)] = c[Log(n)]
      BY <2>2 DEF SelfOK
    <3> QED BY <1>2, <1>4, <3>1 DEF Rooted
  <2>7. OneEach(AllMsgs(d))
    BY <1>6 DEF SelfOK, OneEach
  <2> QED BY <2>1, <2>3, <2>4, <2>5, <2>6, <2>7 DEF SelfOK
<1>8. /\ Tail2(d) = g /\ Tip(Text(d)) = Tip(g) /\ Msgs(Text(d)) = Msgs(v) \cup Msgs(g)
      /\ Leaf(Text(d)) = Tip(Text(d)) /\ OneEach(Msgs(Text(d))) /\ Text(d) \in Seq(Written(L))
  <2>1. Tail2(d) = g
    BY <1>4 DEF Tail2
  <2> QED BY <1>1, <1>4, <1>7, <2>1, SelfText
<1>9. /\ Text(c) \in Seq(Written(L)) /\ Leaf(Text(c)) = Tip(g)
      /\ Msgs(Text(c)) = Msgs(bb) \cup Msgs(g)
  BY <1>1, SelfText DEF Tail2
<1>10. Branch(Text(d)) = q
  <2>1. /\ IsChain(q, Text(c))
        /\ Leaf(Text(c)) = IF q = <<>> THEN 0 ELSE q[Len(q)]
    BY SelfBranch
  <2>2. Leaf(Text(d)) = Leaf(Text(c)) /\ Msgs(Text(c)) \subseteq Msgs(Text(d))
    BY <1>2, <1>8, <1>9
  <2> HIDE DEF q
  <2> QED BY <1>8, <1>9, <2>1, <2>2, SameBranch
<1>11. Ahead(c, q, d, q)
  <2>1. Ids(Get(c, Base)) \subseteq Ids(Get(d, Base))
    BY <1>2, <1>4
  <2>2. \A n \in LogIdx : Log(n) \in DOMAIN c => d[Log(n)] = c[Log(n)]
    BY <1>4
  <2> QED BY <1>0, <1>4, <1>6, <2>1, <2>2 DEF Ahead
<1>12. OnLive(q, Tip(d[Base]))
  <2>1. OnLive(q, Tip(Text(c))) /\ Tip(Text(c)) = Tip(g)
    BY <1>1, SelfBranch, SelfText DEF Tail2
  <2> QED BY <1>2, <1>4, <2>1
<1>13. Msgs(d[Log(i)]) \subseteq Msgs(d[Base])
  BY <1>1, <1>2, <1>4
<1> QED BY <1>2, <1>4, <1>7, <1>8, <1>10, <1>11, <1>12, <1>13 DEF Moves

LEMMA MarkMoves ==
  ASSUME NEW L \in 0..MaxMsgs, NEW c, SelfOK(L, c), NEW i, i = Absorbed(c) + 1, i < L,
         Log(i) \in DOMAIN c, Base \in DOMAIN c,
         Msgs(c[Log(i)]) \subseteq Msgs(c[Base]), Tip(c[Base]) = Tip(Text(c)),
         NEW d, d = Put(c, Mark, MarkText(i))
  PROVE  /\ Moves(L, c, Branch(Text(c)), d, Branch(Text(c)))
         /\ Absorbed(d) = i /\ Mark \in DOMAIN d /\ d[Mark] = MarkText(i)
         /\ \A n \in LogIdx : Log(n) \in DOMAIN d => n <= Absorbed(d)
         /\ OnLive(Branch(Text(c)), Tip(Get(d, Base)))
<1> USE Keys
<1> DEFINE q == Branch(Text(c))
           bb == Get(c, Base)
           g == Get(c, Log(i))
<1>0. /\ L \in Nat /\ StoreOK(L, c) /\ Absorbed(c) \in -1..(L - 1) /\ i \in LogIdx
      /\ i \in Int /\ bb = c[Base] /\ g = c[Log(i)]
  BY ActiveIs DEF SelfOK, Get, LogIdx
<1>1. bb \in Seq(Written(L)) /\ Good(bb) /\ bb # <<>>
  BY <1>0, ActiveIs DEF SelfOK, Good
<1>2. MarkText(i) \in Seq(Line) /\ Len(MarkText(i)) = 1 /\ MarkText(i)[1].id = i
  BY <1>0 DEF MarkText, Line, LogIdx
<1>3. IsPut(d, c, Mark, MarkText(i))
  BY PutIs
<1>4. /\ Absorbed(d) = i /\ Mark \in DOMAIN d /\ d[Mark] = MarkText(i)
      /\ DOMAIN c \subseteq DOMAIN d
      /\ \A x \in DOMAIN c : x # Mark => d[x] = c[x]
      /\ \A x : x # Mark => Get(d, x) = Get(c, x)
      /\ DOMAIN d = DOMAIN c \cup {Mark}
  BY <1>2, <1>3 DEF IsPut
<1>5. AllMsgs(d) = AllMsgs(c)
  <2>1. DOMAIN d \ {Mark} = DOMAIN c \ {Mark}
    BY <1>4
  <2> QED BY <1>4, <2>1 DEF AllMsgs
<1>6. \A n \in LogIdx : Log(n) \in DOMAIN d => Log(n) \in DOMAIN c /\ d[Log(n)] = c[Log(n)]
  BY <1>4
<1>7. \A n \in LogIdx : Log(n) \in DOMAIN d => n <= Absorbed(d)
  BY <1>4, <1>6 DEF SelfOK
<1>8. SelfOK(L, d)
  <2>1. StoreOK(L, d)
    <3>1. ObjectOK(L, Mark, MarkText(i))
      BY <1>2 DEF ObjectOK
    <3> QED BY <1>0, <3>1, PutOK
  <2>3. \A n \in LogIdx : Log(n) \in DOMAIN d => n <= Absorbed(d) + 1
    BY <1>0, <1>4, <1>7 DEF LogIdx
  <2>4. \A k \in DOMAIN d : k # Mark => Good(d[k])
    BY <1>4 DEF SelfOK
  <2>5. Rooted(Get(d, Base), <<>>)
    BY <1>4 DEF SelfOK
  <2>6. \A n \in LogIdx : Log(n) \in DOMAIN d => Rooted(d[Log(n)], Get(d, Base))
    BY <1>4, <1>6 DEF SelfOK
  <2>7. OneEach(AllMsgs(d))
    BY <1>5 DEF SelfOK
  <2> QED BY <2>1, <2>3, <2>4, <2>5, <2>6, <2>7 DEF SelfOK
<1>9. Tail2(d) = <<>>
  <2>1. Log(i + 1) \notin DOMAIN d
    <3>1. i + 1 \in LogIdx
      BY <1>0 DEF LogIdx
    <3>2. ~(i + 1 <= Absorbed(d))
      BY <1>0, <1>4
    <3> QED BY <1>7, <3>1, <3>2
  <2> QED BY <1>4, <2>1 DEF Tail2, Get
<1>10. /\ Tip(Text(d)) = Tip(bb) /\ Msgs(Text(d)) = Msgs(bb)
       /\ Leaf(Text(d)) = Tip(Text(d)) /\ OneEach(Msgs(Text(d))) /\ Text(d) \in Seq(Written(L))
  BY <1>4, <1>8, <1>9, SelfText, NoMsgs
<1>11. /\ Text(c) \in Seq(Written(L)) /\ Leaf(Text(c)) = Tip(Text(c))
       /\ Msgs(Text(c)) = Msgs(bb) \cup Msgs(g)
  BY SelfText DEF Tail2
<1>12. Branch(Text(d)) = q
  <2>1. /\ IsChain(q, Text(c))
        /\ Leaf(Text(c)) = IF q = <<>> THEN 0 ELSE q[Len(q)]
    BY SelfBranch
  <2>2. Leaf(Text(d)) = Leaf(Text(c)) /\ Msgs(Text(c)) \subseteq Msgs(Text(d))
    BY <1>0, <1>10, <1>11
  <2> HIDE DEF q
  <2> QED BY <1>10, <1>11, <2>1, <2>2, SameBranch
<1>13. Ahead(c, q, d, q)
  <2>1. Get(c, Base) = Get(d, Base)
    BY <1>4
  <2>2. \A n \in LogIdx : Log(n) \in DOMAIN c => d[Log(n)] = c[Log(n)]
    BY <1>4
  <2> QED BY <1>0, <1>4, <1>5, <2>1, <2>2 DEF Ahead
<1>14. OnLive(q, Tip(Get(d, Base)))
  <2>1. OnLive(q, Tip(Text(c)))
    BY SelfBranch
  <2> QED BY <1>0, <1>4, <2>1
<1> QED BY <1>4, <1>7, <1>8, <1>12, <1>13, <1>14 DEF Moves

LEMMA AheadItself ==
  ASSUME NEW L \in 0..MaxMsgs, NEW c, SelfOK(L, c)
  PROVE  Moves(L, c, Branch(Text(c)), c, Branch(Text(c)))
<1>1. Absorbed(c) <= Absorbed(c)
  BY ActiveIs
<1> QED BY <1>1 DEF Moves, Ahead

LEMMA AppendMoves ==
  ASSUME NEW L \in 0..MaxMsgs, L + 1 \in 0..MaxMsgs, NEW c, SelfOK(L, c),
         NEW i, i = Absorbed(c) + 1, NEW m, m = L + 1,
         NEW v, v = Grown(c, i, m),
         NEW d, d = Put(c, Log(i), v)
  PROVE  /\ Moves(L + 1, c, Branch(Text(c)), d, Append(Branch(Text(c)), m))
         /\ Absorbed(d) = Absorbed(c) /\ Log(i) \in DOMAIN d /\ d[Log(i)] = v
<1> USE Keys
<1> DEFINE q == Branch(Text(c))
           bb == Get(c, Base)
           g == Get(c, Log(i))
           M == MsgLine(m, Leaf(Text(c)))
           two == <<M, InfoLine(m)>>
<1>0. /\ L \in Nat /\ StoreOK(L, c) /\ Absorbed(c) \in -1..(L - 1) /\ i \in LogIdx
      /\ Log(i) \in Key /\ m \in Nat /\ m \in 1..(L + 1)
  BY ActiveIs DEF SelfOK
<1>1. /\ bb \in Seq(Written(L)) /\ g \in Seq(Written(L))
      /\ bb = <<>> \/ Good(bb)
      /\ g = <<>> \/ Good(g)
      /\ Rooted(g, bb) /\ Rooted(bb, <<>>)
  <2>1. /\ bb \in Seq(Written(L)) /\ g \in Seq(Written(L))
        /\ bb = <<>> \/ Good(bb)
        /\ g = <<>> \/ Good(g)
        /\ Rooted(g, bb)
    BY SelfParts DEF Tail2
  <2>2. Rooted(bb, <<>>)
    BY DEF SelfOK
  <2> QED BY <2>1, <2>2
<1>2. /\ Text(c) \in Seq(Written(L)) /\ Leaf(Text(c)) \in {0} \cup Ids(bb) \cup Ids(g)
      /\ Leaf(Text(c)) \in 0..L
      /\ Msgs(Text(c)) = Msgs(bb) \cup Msgs(g)
      /\ g # <<>> => Leaf(Text(c)) \in Ids(g)
  <2>1. /\ Text(c) \in Seq(Written(L)) /\ Leaf(Text(c)) \in {0} \cup Ids(Text(c))
        /\ Msgs(Text(c)) = Msgs(bb) \cup Msgs(g)
        /\ Leaf(Text(c)) = Tip(Text(c))
        /\ Tip(Text(c)) = IF g = <<>> THEN Tip(bb) ELSE Tip(g)
    BY SelfText DEF Tail2
  <2>2. Ids(Text(c)) = Ids(bb) \cup Ids(g)
    BY <2>1 DEF Ids
  <2>3. Leaf(Text(c)) \in 0..L
    BY <1>0, <2>1, LeafBound
  <2>4. g # <<>> => Leaf(Text(c)) \in Ids(g)
    BY <1>1, <2>1 DEF Good, Tip
  <2> QED BY <2>1, <2>2, <2>3, <2>4
<1>3. /\ two \in Seq(Written(L + 1)) /\ Len(two) = 2 /\ two # <<>>
      /\ two[1] = M /\ two[2] = InfoLine(m)
      /\ M.kind = "msg" /\ M.id = m /\ M.parent = Leaf(Text(c))
      /\ InfoLine(m).kind = "info" /\ InfoLine(m).id = m
  <2>1. M \in Written(L + 1) /\ InfoLine(m) \in Written(L + 1)
    <3>1. m \in 0..MaxMsgs /\ Leaf(Text(c)) \in 0..MaxMsgs /\ Leaf(Text(c)) < m
      BY <1>0, <1>2
    <3>2. M \in Line /\ InfoLine(m) \in Line
      BY <3>1 DEF MsgLine, InfoLine, Line
    <3> QED BY <1>0, <3>1, <3>2 DEF MsgLine, InfoLine, Written
  <2>2. M.kind = "msg" /\ M.id = m /\ M.parent = Leaf(Text(c))
    BY DEF MsgLine
  <2>3. InfoLine(m).kind = "info" /\ InfoLine(m).id = m
    BY DEF InfoLine
  <2> HIDE DEF M
  <2> QED BY <2>1, <2>2, <2>3
<1>4. Msgs(two) = {M} /\ Ids(two) = {m} /\ Good(two) /\ Tip(two) = m
  <2> HIDE DEF two, M
  <2>1. M \in Msgs(two)
    <3>1. 1 \in 1..Len(two)
      BY <1>3
    <3> QED BY <1>3, <3>1 DEF Msgs
  <2>2. ASSUME NEW l \in Msgs(two) PROVE l = M
    <3>1. PICK n \in 1..Len(two) : l = two[n] /\ two[n].kind = "msg"
      BY DEF Msgs
    <3>2. n = 1 \/ n = 2
      BY <1>3, <3>1
    <3> QED BY <1>3, <3>1, <3>2
  <2>3. Msgs(two) = {M}
    BY <2>1, <2>2
  <2>4. Ids(two) = {m}
    BY <1>3, <2>3 DEF Ids
  <2>5. two[Len(two)].kind = "info" /\ two[Len(two)].id = m
    BY <1>3
  <2>6. Good(two)
    BY <1>3, <2>4, <2>5 DEF Good
  <2>7. Tip(two) = m
    BY <1>3, <2>5 DEF Tip
  <2> QED BY <2>3, <2>4, <2>6, <2>7
<1> HIDE DEF two, M
<1>5. /\ v \in Seq(Written(L + 1)) /\ Good(v) /\ Tip(v) = m
      /\ Msgs(v) = Msgs(g) \cup {M} /\ Ids(v) = Ids(g) \cup {m}
  <2>0. v = g \o two
    BY DEF Grown, two, M
  <2>1. g \in Seq(Written(L + 1))
    BY <1>0, <1>1, Grows
  <2>2. v \in Seq(Written(L + 1))
    <3>1. two \in Seq(Written(L + 1))
      BY <1>3
    <3> HIDE DEF g
    <3> QED BY ONLY <2>0, <2>1, <3>1
  <2>3. Msgs(v) = Msgs(g) \cup {M} /\ Ids(v) = Ids(g) \cup {m}
    <3> HIDE DEF g
    <3>1. Msgs(g \o two) = Msgs(g) \cup Msgs(two) /\ Ids(g \o two) = Ids(g) \cup Ids(two)
      BY <1>3, <2>1, MsgsOfTwo
    <3> QED BY <1>4, <2>0, <3>1
  <2>4. L + 1 \in Nat
    BY <1>0
  <2>5. Tip(g \o two) = m /\ Good(g \o two)
    <3> HIDE DEF g
    <3> PICK K \in Nat : K = L + 1
      BY <2>4
    <3>1. g \in Seq(Written(K)) /\ two \in Seq(Written(K))
      BY <1>3, <2>1
    <3>2. g = <<>> \/ Good(g)
      BY <1>1
    <3>3. two = <<>> \/ Good(two)
      BY <1>4
    <3>4. /\ Tip(g \o two) = IF two = <<>> THEN Tip(g) ELSE Tip(two)
          /\ g \o two = <<>> \/ Good(g \o two)
          /\ two # <<>> => g \o two # <<>>
      BY <3>1, <3>2, <3>3, TipOfTwo
    <3> QED BY <1>3, <1>4, <3>4
  <2>6. Good(v) /\ Tip(v) = m
    BY <2>0, <2>5
  <2> QED BY <2>2, <2>3, <2>6
<1>6. IsPut(d, c, Log(i), v)
  BY PutIs
<1>7. /\ Absorbed(d) = Absorbed(c) /\ Log(i) \in DOMAIN d /\ d[Log(i)] = v
      /\ Get(d, Base) = bb /\ DOMAIN c \subseteq DOMAIN d /\ Get(d, Log(i)) = v
      /\ \A x \in DOMAIN c : x # Log(i) => d[x] = c[x]
      /\ DOMAIN d = DOMAIN c \cup {Log(i)}
      /\ AllMsgs(d) \subseteq AllMsgs(c) \cup Msgs(v)
  BY <1>6 DEF IsPut
<1>8. Msgs(bb) \cup Msgs(g) \subseteq AllMsgs(c)
  BY SelfParts DEF Tail2
<1>9. AllMsgs(d) \subseteq AllMsgs(c) \cup {M}
  BY <1>5, <1>7, <1>8
<1>10. AllMsgs(c) \subseteq AllMsgs(d)
  <2>1. ASSUME NEW k \in DOMAIN c \ {Mark} PROVE Msgs(c[k]) \subseteq AllMsgs(d)
    <3>1. CASE k = Log(i)
      <4>1. c[k] = g /\ Msgs(d[Log(i)]) \subseteq AllMsgs(d)
        BY <1>7, <3>1, MsgsIn DEF Get
      <4> QED BY <1>5, <1>7, <4>1
    <3>2. CASE k # Log(i)
      <4>1. Msgs(d[k]) \subseteq AllMsgs(d)
        BY <1>7, MsgsIn
      <4> QED BY <1>7, <3>2, <4>1
    <3> QED BY <3>1, <3>2
  <2> DEFINE A == AllMsgs(d)
  <2>2. \A k \in DOMAIN c \ {Mark} : Msgs(c[k]) \subseteq A
    BY <2>1
  <2> HIDE DEF A
  <2>3. AllMsgs(c) \subseteq A
    BY <2>2 DEF AllMsgs
  <2> QED BY <2>3 DEF A
<1>11. \A l \in AllMsgs(c) : l.id \in 1..L
  <2>1. ASSUME NEW k \in DOMAIN c \ {Mark}, NEW l \in Msgs(c[k]) PROVE l.id \in 1..L
    <3>1. c[k] \in Seq(Written(L))
      BY ActiveIs
    <3> QED BY <1>0, <3>1, MsgsTyped
  <2> QED BY <2>1 DEF AllMsgs
<1>12. SelfOK(L + 1, d)
  <2>1. StoreOK(L + 1, d)
    <3>1. ObjectOK(L + 1, Log(i), v)
      BY <1>5 DEF ObjectOK
    <3>2. StoreOK(L + 1, c)
      BY <1>0, Grows
    <3> QED BY <1>0, <3>1, <3>2, PutOK
  <2>2. \A n \in LogIdx : Log(n) \in DOMAIN d =>
          n = i \/ (n # i /\ Log(n) \in DOMAIN c /\ d[Log(n)] = c[Log(n)])
    BY <1>7
  <2>3. \A n \in LogIdx : Log(n) \in DOMAIN d => n <= Absorbed(d) + 1
    BY <1>0, <1>7, <2>2 DEF SelfOK
  <2>4. \A k \in DOMAIN d : k # Mark => Good(d[k])
    BY <1>5, <1>7 DEF SelfOK
  <2>5. Rooted(Get(d, Base), <<>>)
    BY <1>1, <1>7
  <2>6. \A n \in LogIdx : Log(n) \in DOMAIN d => Rooted(d[Log(n)], Get(d, Base))
    <3> SUFFICES ASSUME NEW n \in LogIdx, Log(n) \in DOMAIN d
                 PROVE  Rooted(d[Log(n)], bb)
      BY <1>7
    <3>1. CASE n = i
      <4>1. \A l \in Msgs(v) : l.parent \in {0} \cup Ids(bb) \cup Ids(v)
        BY <1>1, <1>2, <1>3, <1>5 DEF Rooted
      <4> QED BY <1>7, <3>1, <4>1 DEF Rooted
    <3>2. CASE n # i
      BY <2>2, <3>2 DEF SelfOK
    <3> QED BY <3>1, <3>2
  <2>7. OneEach(AllMsgs(d))
    <3>1. m \notin 1..L
      BY <1>0
    <3>2. OneEach(AllMsgs(c))
      BY DEF SelfOK
    <3> SUFFICES ASSUME NEW l1 \in AllMsgs(d), NEW l2 \in AllMsgs(d), l1.id = l2.id
                 PROVE  l1 = l2
      BY DEF OneEach
    <3>3. (l1 \in AllMsgs(c) \/ l1 = M) /\ (l2 \in AllMsgs(c) \/ l2 = M)
      BY <1>9
    <3>4. (l1 \in AllMsgs(c) => l1.id # M.id) /\ (l2 \in AllMsgs(c) => l2.id # M.id)
      BY <1>3, <1>11, <3>1
    <3> QED BY <3>2, <3>3, <3>4 DEF OneEach
  <2> QED BY <2>1, <2>3, <2>4, <2>5, <2>6, <2>7 DEF SelfOK
<1>13. /\ Text(d) \in Seq(Written(L + 1)) /\ Leaf(Text(d)) = m /\ OneEach(Msgs(Text(d)))
       /\ Msgs(Text(d)) = Msgs(bb) \cup Msgs(v)
  <2>1. Tail2(d) = v /\ v # <<>>
    BY <1>5, <1>7 DEF Tail2, Good
  <2> PICK K \in 0..MaxMsgs : K = L + 1
    OBVIOUS
  <2>2. SelfOK(K, d)
    BY <1>12
  <2>3. /\ Text(d) \in Seq(Written(K))
        /\ Leaf(Text(d)) = Tip(Text(d)) /\ OneEach(Msgs(Text(d)))
        /\ Tip(Text(d)) = IF Tail2(d) = <<>> THEN Tip(Get(d, Base)) ELSE Tip(Tail2(d))
        /\ Msgs(Text(d)) = Msgs(Get(d, Base)) \cup Msgs(Tail2(d))
    BY <2>2, SelfText
  <2> HIDE DEF bb
  <2> QED BY <1>5, <1>7, <2>1, <2>3
<1>14. Branch(Text(d)) = Append(q, m)
  <2>1. /\ IsChain(q, Text(c))
        /\ Leaf(Text(c)) = IF q = <<>> THEN 0 ELSE q[Len(q)]
    BY SelfBranch
  <2>2. Msgs(Text(c)) \subseteq Msgs(Text(d))
    BY <1>2, <1>5, <1>13
  <2>3. M \in Msgs(Text(d)) /\ M.id = m /\ M.parent = Leaf(Text(c))
    BY <1>3, <1>5, <1>13
  <2>4. Text(c) \in Seq(Written(L + 1))
    BY <1>0, <1>2, Grows
  <2> HIDE DEF q
  <2> PICK K \in 0..MaxMsgs : K = L + 1
    OBVIOUS
  <2>5. Text(c) \in Seq(Written(K)) /\ Text(d) \in Seq(Written(K))
    BY <1>13, <2>4
  <2>6. m \in Nat /\ Leaf(Text(d)) = m /\ OneEach(Msgs(Text(d)))
    BY <1>0, <1>13
  <2> HIDE DEF bb, g
  <2> DEFINE t == Text(c)
             u == Text(d)
  <2>7. /\ t \in Seq(Written(K)) /\ u \in Seq(Written(K)) /\ IsChain(q, t)
        /\ Leaf(t) = IF q = <<>> THEN 0 ELSE q[Len(q)]
        /\ Msgs(t) \subseteq Msgs(u) /\ OneEach(Msgs(u)) /\ m \in Nat /\ Leaf(u) = m
        /\ M \in Msgs(u) /\ M.id = m /\ M.parent = Leaf(t)
    BY <2>1, <2>2, <2>3, <2>5, <2>6
  <2> HIDE DEF t, u
  <2>8. Branch(u) = Append(q, m)
    BY ONLY <2>7, BranchGrows, K \in 0..MaxMsgs, BoundsAssumption
  <2> QED BY <2>8 DEF u
<1>15. Ahead(c, q, d, Append(q, m))
  <2>1. Ids(Get(c, Base)) \subseteq Ids(Get(d, Base))
    BY <1>7
  <2>2. ASSUME NEW n \in LogIdx, Log(n) \in DOMAIN c, NEW b, Rooted(c[Log(n)], b)
        PROVE  Rooted(d[Log(n)], b)
    <3>1. CASE n = i
      <4>1. c[Log(n)] = g /\ d[Log(n)] = v
        BY <1>7, <2>2, <3>1 DEF Get
      <4>2. g # <<>>
        <5>1. Good(c[Log(n)])
          BY <2>2 DEF SelfOK
        <5> QED BY <4>1, <5>1 DEF Good
      <4>3. \A l \in Msgs(v) : l.parent \in {0} \cup Ids(b) \cup Ids(v)
        BY <1>2, <1>3, <1>5, <2>2, <4>1, <4>2 DEF Rooted
      <4> QED BY <4>1, <4>3 DEF Rooted
    <3>2. CASE n # i
      BY <1>7, <2>2, <3>2
    <3> QED BY <3>1, <3>2
  <2>3. \A x : OnLive(q, x) => OnLive(Append(q, m), x)
    <3>1. q \in Seq(Nat)
      BY SelfBranch DEF IsChain
    <3> HIDE DEF q
    <3>2. Len(Append(q, m)) = Len(q) + 1 /\ Len(q) \in Nat
      BY <1>0, <3>1
    <3>3. \A n \in 1..Len(q) : Append(q, m)[n] = q[n] /\ n \in 1..Len(Append(q, m))
      BY <1>0, <3>1, <3>2
    <3> QED BY <3>3 DEF OnLive
  <2>4. Absorbed(c) <= Absorbed(d)
    BY <1>0, <1>7
  <2> QED BY <1>7, <1>10, <2>1, <2>2, <2>3, <2>4 DEF Ahead
<1> QED BY <1>7, <1>12, <1>14, <1>15 DEF Moves

-----------------------------------------------------------------------------
(* What the bucket holds, and is about to hold, is on the live history.    *)

Steady ==
  /\ SelfOK(lastId, cache) /\ Unique(queue)
  /\ pc = "log" => /\ logIdx = Active /\ Log(Active) \in DOMAIN cache
                   /\ buf = cache[Log(Active)]
  /\ pc = "base" => /\ logIdx = Active /\ Log(Active) \in DOMAIN cache
                    /\ Base \in DOMAIN cache /\ buf = cache[Base]
                    /\ Msgs(cache[Log(Active)]) \subseteq Msgs(cache[Base])
                    /\ Tip(cache[Base]) = Tip(Text(cache))
                    /\ OnLive(Live, Tip(cache[Base]))
  /\ pc = "mark" => /\ Mark \in DOMAIN cache /\ buf = cache[Mark]
                    /\ \A i \in LogIdx : Log(i) \in DOMAIN cache => i <= Absorbed(cache)
                    /\ OnLive(Live, Tip(Get(cache, Base)))

\* The store s that the queue leads to lacks what append() has in hand, the
\* text v of k, and no more.
Settles(s, p, c, k, v) == IF p = "idle" THEN s = c ELSE c = Put(s, k, v)

Pending == Pipe(held, queue)
Piped ==
  \E B : /\ Landing(B, bucket, Pending, lastId, cache, Live)
         /\ Settles(B[Len(Pending)], pc, cache, InHand, buf)

Kept ==
  /\ ~deleting
  /\ IF pc = "down"
     THEN SelfOK(lastId, bucket) /\ queue = <<>> /\ held = NoItem
     ELSE Steady /\ Piped

LEMMA PendingIs ==
  ASSUME Typed
  PROVE  queue \in Seq(OkEntry(lastId)) /\ Len(Pending) \in Nat /\ lastId \in 0..MaxMsgs
<1>1. /\ queue \in Seq(OkEntry(lastId)) /\ lastId \in 0..MaxMsgs
      /\ held = NoItem \/ held \in OkEntry(lastId)
  BY DEF Typed, Writing, Counters
<1>2. Len(queue) \in Nat
  BY <1>1
<1>3. CASE held = NoItem
  BY <1>1, <1>2, <1>3 DEF Pending, Pipe
<1>4. CASE held # NoItem
  <2>1. Len(Pipe(held, queue)) = Len(queue) + 1
    BY <1>1, <1>4, PipeIs
  <2> QED BY <1>1, <1>2, <2>1 DEF Pending
<1> QED BY <1>1, <1>3, <1>4

LEMMA EnqueueKeeps ==
  ASSUME Typed, Steady, Piped, pc \in {"log", "base", "mark"}, Enqueue(InHand, buf)
  PROVE  /\ Unique(queue')
         /\ \E C : /\ Landing(C, bucket, Pipe(held, queue'), lastId, cache, Live)
                   /\ C[Len(Pipe(held, queue'))] = cache
<1> DEFINE k == InHand
           e == [key |-> k, val |-> buf, retry |-> 0, tries |-> 0]
<1>1. queue \in Seq(OkEntry(lastId)) /\ Len(Pending) \in Nat /\ lastId \in 0..MaxMsgs
  BY PendingIs
<1>2. SelfOK(lastId, cache) /\ Unique(queue)
  BY DEF Steady
<1>3. OnLive(Live, Tip(Text(cache)))
  BY <1>1, <1>2, SelfBranch DEF Live
<1>4. Enqueued(cache, Live, k) /\ buf = cache[k]
  <2>1. CASE pc = "log"
    BY <2>1 DEF Steady, Enqueued, InHand, Active
  <2>2. CASE pc = "base"
    BY <2>2 DEF Steady, Enqueued, InHand
  <2>3. CASE pc = "mark"
    BY <2>3 DEF Steady, Enqueued, InHand
  <2> QED BY <2>1, <2>2, <2>3
<1>5. PICK B : /\ Landing(B, bucket, Pending, lastId, cache, Live)
               /\ cache = Put(B[Len(Pending)], k, buf)
  BY DEF Piped, Settles
<1>6. queue' = Coalesce(queue, e)
  BY DEF Enqueue
<1>7. e.key = k /\ e.val = buf
  OBVIOUS
<1> HIDE DEF e
<1>8. Admits(queue, queue', k, buf) /\ Unique(queue')
  BY <1>1, <1>2, <1>6, <1>7, CoalesceAdmits
<1>9. queue' \in Seq(OkEntry(lastId))
  <2>1. k \in Key /\ ObjectOK(lastId, k, buf)
    <3>1. ObjectOK(lastId, InHand, buf) /\ logIdx \in LogIdx
      BY DEF Typed, Appending
    <3> QED BY <3>1, Keys DEF InHand
  <2> HIDE DEF k
  <2> QED BY <1>1, <1>6, <2>1, CoalesceOK DEF e
<1> HIDE DEF k
<1>10. Admits(Pending, Pipe(held, queue'), k, cache[k])
  BY <1>1, <1>4, <1>8, <1>9, PipeAdmits DEF Pending
<1>11. Put(B[Len(Pending)], k, cache[k]) = cache
  BY <1>4, <1>5
<1> QED BY <1>1, <1>2, <1>3, <1>4, <1>5, <1>8, <1>10, <1>11, EnqueueLands

\* The same stores, seen from the cache as it is after the step.
LEMMA PipedMoves ==
  ASSUME Typed, lastId' \in {lastId, lastId + 1}, SelfOK(lastId, cache),
         NEW B, NEW P, Landing(B, bucket, P, lastId, cache, Live),
         bucket' = bucket, Pending' = P, Settles(B[Len(P)], pc', cache', InHand', buf'),
         Moves(lastId', cache, Live, cache', Live')
  PROVE  Piped'
<1>1. lastId \in 0..MaxMsgs
  BY PendingIs
<1>2. Ahead(cache, Live, cache', Live') /\ SelfOK(lastId', cache')
  BY DEF Moves
<1>3. Absorbed(cache') \in Int
  <2>1. lastId' \in Nat /\ StoreOK(lastId', cache')
    BY <1>1, <1>2 DEF SelfOK
  <2> QED BY <2>1, AbsorbedBound
<1>4. /\ Landing(B, bucket, P, lastId, cache', Live')
      /\ Landing(B, bucket, P, lastId + 1, cache', Live')
  BY <1>1, <1>2, <1>3, LandingAhead
<1>5. Landing(B, bucket', P, lastId', cache', Live')
  BY <1>4
<1> QED BY <1>5 DEF Piped

LEMMA KeptAgent == Typed /\ Kept /\ Agent => Kept'
<1> SUFFICES ASSUME Typed, Kept, Agent PROVE Kept'
  OBVIOUS
<1> USE Keys
<1>0. /\ pc \in {"log", "base", "mark"} /\ ~deleting /\ Steady /\ Piped
      /\ Enqueue(InHand, buf)
      /\ UNCHANGED <<bucket, held, logIdx, lastId, deleting>>
  BY DEF Kept, Agent, EnqueueLog, EnqueueBase, EnqueueMark, InHand
<1>1. /\ lastId \in 0..MaxMsgs /\ SelfOK(lastId, cache)
      /\ pc \in {"log", "base"} => logIdx < lastId
  BY <1>0, PendingIs DEF Steady, Typed, Appending
<1>2. PICK C : /\ Landing(C, bucket, Pipe(held, queue'), lastId, cache, Live)
               /\ C[Len(Pipe(held, queue'))] = cache
  BY <1>0, EnqueueKeeps
<1>3. Unique(queue')
  BY <1>0, EnqueueKeeps
<1>4. Pending' = Pipe(held, queue')
  BY <1>0 DEF Pending
<1>5. ASSUME Moves(lastId, cache, Live, cache', Live), Steady', pc' # "down",
             Settles(cache, pc', cache', InHand', buf')
      PROVE  Kept'
  <2>1. Live' = Live
    BY <1>5 DEF Moves, Live
  <2>2. Piped'
    <3>1. Settles(C[Len(Pipe(held, queue'))], pc', cache', InHand', buf')
      BY <1>2, <1>5 DEF Settles
    <3>2. Moves(lastId', cache, Live, cache', Live')
      BY <1>0, <1>5, <2>1
    <3> QED BY <1>0, <1>1, <1>2, <1>4, <3>1, <3>2, PipedMoves
  <2> QED BY <1>0, <1>5, <2>2 DEF Kept
<1>6. ASSUME cache' = cache, pc' = "idle" PROVE Kept'
  <2>1. Moves(lastId, cache, Live, cache', Live)
    BY <1>1, <1>6, AheadItself DEF Live
  <2>2. Steady'
    BY <1>0, <1>1, <1>3, <1>6 DEF Steady
  <2>3. Settles(cache, pc', cache', InHand', buf')
    BY <1>6 DEF Settles
  <2> QED BY <1>5, <1>6, <2>1, <2>2, <2>3
<1>7. ASSUME EnqueueLog, Len(buf) >= CompactAt PROVE Kept'
  <2>1. /\ pc = "log" /\ pc' = "base" /\ logIdx = Active /\ Log(Active) \in DOMAIN cache
        /\ buf' = Get(cache, Base) \o Get(cache, Log(Active))
        /\ cache' = Put(cache, Base, buf')
    BY <1>0, <1>7 DEF EnqueueLog, Steady
  <2>2. /\ Moves(lastId, cache, Live, cache', Live)
        /\ Absorbed(cache') = Absorbed(cache)
        /\ Base \in DOMAIN cache' /\ Log(Active) \in DOMAIN cache' /\ cache'[Base] = buf'
        /\ Msgs(cache'[Log(Active)]) \subseteq Msgs(cache'[Base])
        /\ Tip(cache'[Base]) = Tip(Text(cache'))
        /\ OnLive(Live, Tip(cache'[Base]))
    <3>1. Active = Absorbed(cache) + 1 /\ Live = Branch(Text(cache))
      BY DEF Active, Live
    <3> DEFINE i == Active
               L == lastId
    <3>2. /\ L \in 0..MaxMsgs /\ SelfOK(L, cache) /\ i = Absorbed(cache) + 1
          /\ Log(i) \in DOMAIN cache /\ buf' = Folded(cache, i)
          /\ cache' = Put(cache, Base, buf')
      BY <1>1, <2>1, <3>1 DEF Folded
    <3> HIDE DEF i, L
    <3>3. /\ Moves(L, cache, Branch(Text(cache)), cache', Branch(Text(cache)))
          /\ Absorbed(cache') = Absorbed(cache)
          /\ Base \in DOMAIN cache' /\ Log(i) \in DOMAIN cache' /\ cache'[Base] = buf'
          /\ Msgs(cache'[Log(i)]) \subseteq Msgs(cache'[Base])
          /\ Tip(cache'[Base]) = Tip(Text(cache'))
          /\ OnLive(Branch(Text(cache)), Tip(cache'[Base]))
      BY ONLY <3>2, BaseMoves, BoundsAssumption
    <3> QED BY <3>1, <3>3 DEF i, L
  <2>3. Live' = Live /\ SelfOK(lastId, cache') /\ Active' = Active
    BY <2>2 DEF Moves, Live, Active
  <2>4. Steady'
    BY <1>0, <1>3, <2>1, <2>2, <2>3 DEF Steady
  <2>5. Settles(cache, pc', cache', InHand', buf')
    BY <2>1 DEF Settles, InHand
  <2> QED BY <1>5, <2>1, <2>2, <2>4, <2>5
<1>8. ASSUME EnqueueBase PROVE Kept'
  <2>1. /\ pc = "base" /\ pc' = "mark" /\ logIdx = Active /\ Log(Active) \in DOMAIN cache
        /\ Base \in DOMAIN cache /\ Active < lastId
        /\ Msgs(cache[Log(Active)]) \subseteq Msgs(cache[Base])
        /\ Tip(cache[Base]) = Tip(Text(cache))
        /\ buf' = MarkText(Active) /\ cache' = Put(cache, Mark, MarkText(Active))
    BY <1>0, <1>1, <1>8 DEF EnqueueBase, Steady
  <2>2. /\ Moves(lastId, cache, Live, cache', Live)
        /\ Mark \in DOMAIN cache' /\ cache'[Mark] = MarkText(Active)
        /\ \A n \in LogIdx : Log(n) \in DOMAIN cache' => n <= Absorbed(cache')
        /\ OnLive(Live, Tip(Get(cache', Base)))
    BY <1>1, <2>1, MarkMoves DEF Active, Live
  <2>3. Live' = Live /\ SelfOK(lastId, cache')
    BY <2>2 DEF Moves, Live
  <2>4. Steady'
    BY <1>0, <1>3, <2>1, <2>2, <2>3 DEF Steady
  <2>5. Settles(cache, pc', cache', InHand', buf')
    BY <2>1 DEF Settles, InHand
  <2> QED BY <1>5, <2>1, <2>2, <2>4, <2>5
<1>9. ASSUME EnqueueLog, ~(Len(buf) >= CompactAt) PROVE cache' = cache /\ pc' = "idle"
  BY <1>9 DEF EnqueueLog
<1>10. ASSUME EnqueueMark PROVE cache' = cache /\ pc' = "idle"
  BY <1>10 DEF EnqueueMark
<1> QED BY <1>6, <1>7, <1>8, <1>9, <1>10 DEF Agent

\* A new message extends the history that its parent is found in.
LEMMA AppendStep ==
  ASSUME Typed, Kept, AppendMsg, "get_error" \notin Events, "list_error" \notin Events
  PROVE  /\ Moves(lastId', cache, Live, cache', Append(Live, lastId'))
         /\ Absorbed(cache') = Absorbed(cache) /\ logIdx' = Active
         /\ Log(Active) \in DOMAIN cache' /\ cache'[Log(Active)] = buf'
         /\ cache' = Put(cache, Log(Active), buf')
<1>1. Steady /\ Piped /\ lastId \in 0..MaxMsgs /\ lastId + 1 \in 0..MaxMsgs /\ pc = "idle"
  BY PendingIs DEF Kept, AppendMsg
<1>2. SelfOK(lastId, cache) /\ StoreOK(lastId, cache)
  BY <1>1 DEF Steady, SelfOK
<1>3. DOMAIN bucket \subseteq DOMAIN cache
  <2>1. PICK B : Landing(B, bucket, Pending, lastId, cache, Live)
    BY <1>1 DEF Piped
  <2>2. B[0] = bucket /\ 0 \in 0..Len(Pending)
    BY <2>1, PendingIs DEF Landing, Staged
  <2>3. Behind(lastId, bucket, cache, Live)
    BY <2>1, <2>2 DEF Landing, Lands
  <2> QED BY <2>3 DEF Behind
<1>4. ASSUME NEW c \in Hydrations PROVE c = cache
  <2>1. CASE Text(cache) # <<>>
    BY <1>4, <2>1 DEF Hydrations
  <2>2. CASE Text(cache) = <<>>
    <3>1. DOMAIN bucket \ DOMAIN cache = {}
      BY <1>3
    <3>2. c = [k \in DOMAIN cache \cup {} |-> IF k \in DOMAIN cache THEN cache[k] ELSE bucket[k]]
      BY <1>4, <2>2, <3>1 DEF Hydrations
    <3>3. c = [k \in DOMAIN cache |-> cache[k]]
      BY <3>2
    <3> QED BY <1>2, <3>3 DEF StoreOK
  <2> QED BY <2>1, <2>2
<1>5. /\ cache' = Put(cache, Log(Active), buf') /\ logIdx' = Active /\ lastId' = lastId + 1
      /\ buf' = Get(cache, Log(Active))
                \o <<MsgLine(lastId + 1, Leaf(Text(cache))), InfoLine(lastId + 1)>>
  BY <1>4 DEF AppendMsg, Active
<1>6. /\ Moves(lastId + 1, cache, Live, cache', Append(Live, lastId + 1))
      /\ Absorbed(cache') = Absorbed(cache) /\ Log(Active) \in DOMAIN cache'
      /\ cache'[Log(Active)] = buf'
  <2>1. Active = Absorbed(cache) + 1 /\ Live = Branch(Text(cache))
    BY DEF Active, Live
  <2> DEFINE i == Active
             L == lastId
             m == lastId + 1
  <2>2. /\ L \in 0..MaxMsgs /\ L + 1 \in 0..MaxMsgs /\ SelfOK(L, cache)
        /\ i = Absorbed(cache) + 1 /\ m = L + 1
        /\ buf' = Grown(cache, i, m) /\ cache' = Put(cache, Log(i), buf')
    BY <1>1, <1>2, <1>5, <2>1 DEF Grown
  <2> HIDE DEF i, L, m
  <2>3. /\ Moves(L + 1, cache, Branch(Text(cache)), cache', Append(Branch(Text(cache)), m))
        /\ Absorbed(cache') = Absorbed(cache) /\ Log(i) \in DOMAIN cache'
        /\ cache'[Log(i)] = buf'
    BY ONLY <2>2, AppendMoves, BoundsAssumption
  <2> QED BY <2>1, <2>3 DEF i, L, m
<1> QED BY <1>5, <1>6

LEMMA KeptAppend ==
  ASSUME Typed, Kept, AppendMsg, "get_error" \notin Events, "list_error" \notin Events
  PROVE  Kept'
<1> USE Keys
<1>0. /\ Steady /\ Piped /\ lastId \in 0..MaxMsgs /\ pc = "idle" /\ pc' = "log" /\ ~deleting
      /\ lastId' = lastId + 1 /\ UNCHANGED <<bucket, held, queue, deleting>>
  BY PendingIs DEF Kept, AppendMsg
<1>1. /\ Moves(lastId', cache, Live, cache', Append(Live, lastId'))
      /\ Absorbed(cache') = Absorbed(cache) /\ logIdx' = Active
      /\ Log(Active) \in DOMAIN cache' /\ cache'[Log(Active)] = buf'
      /\ cache' = Put(cache, Log(Active), buf')
  BY AppendStep
<1>2. Live' = Append(Live, lastId') /\ SelfOK(lastId', cache') /\ Active' = Active
  BY <1>1 DEF Moves, Live, Active
<1>3. Steady'
  BY <1>0, <1>1, <1>2 DEF Steady
<1>4. PICK B : /\ Landing(B, bucket, Pending, lastId, cache, Live)
               /\ B[Len(Pending)] = cache
  BY <1>0 DEF Piped, Settles
<1>5. Pending' = Pending
  BY <1>0 DEF Pending
<1>6. Settles(B[Len(Pending)], pc', cache', InHand', buf')
  BY <1>0, <1>1, <1>4 DEF Settles, InHand
<1>7. Piped'
  <2>1. SelfOK(lastId, cache) /\ Moves(lastId', cache, Live, cache', Live')
    BY <1>0, <1>1, <1>2 DEF Steady
  <2> QED BY <1>0, <1>4, <1>5, <1>6, <2>1, PipedMoves
<1> QED BY <1>0, <1>3, <1>7 DEF Kept

\* The drainer moves the first write of the pipe, and the bucket along it.
LEMMA KeptDrain ==
  ASSUME Typed, Kept, Drain, "put_error" \notin Events
  PROVE  Kept'
<1>0. /\ pc # "down" /\ ~deleting /\ Steady /\ Piped
      /\ UNCHANGED <<cache, pc, logIdx, buf, lastId, deleting>>
  <2>1. pc # "down"
    BY DEF Kept, Drain, DrainPop, DrainPut, DrainFail
  <2> QED BY <2>1 DEF Kept, Drain, DrainPop, DrainPut, DrainFail
<1>1. queue \in Seq(OkEntry(lastId)) /\ lastId \in 0..MaxMsgs /\ Len(queue) \in Nat
  BY PendingIs
<1>2. PICK B : /\ Landing(B, bucket, Pending, lastId, cache, Live)
               /\ Settles(B[Len(Pending)], pc, cache, InHand, buf)
  BY <1>0 DEF Piped
<1>3. Live' = Live /\ InHand' = InHand /\ Active' = Active
  BY <1>0 DEF Live, InHand, Active
<1>4. CASE DrainPop
  <2>1. /\ held = NoItem /\ queue # <<>> /\ held' = Head(queue) /\ queue' = Tail(queue)
        /\ bucket' = bucket
    BY <1>4 DEF DrainPop
  <2>2. /\ Head(queue) \in OkEntry(lastId) /\ Tail(queue) \in Seq(OkEntry(lastId))
        /\ queue = <<Head(queue)>> \o Tail(queue)
        /\ Len(Tail(queue)) = Len(queue) - 1
        /\ \A i \in 1..Len(Tail(queue)) : Tail(queue)[i] = queue[i + 1]
    <3>1. \A S : \A q \in Seq(S) : q # <<>> =>
            /\ Head(q) \in S /\ Tail(q) \in Seq(S) /\ q = <<Head(q)>> \o Tail(q)
            /\ Len(Tail(q)) = Len(q) - 1
            /\ \A i \in 1..Len(Tail(q)) : Tail(q)[i] = q[i + 1]
      OBVIOUS
    <3> QED BY <1>1, <2>1, <3>1
  <2>3. Head(queue) # NoItem
    BY <2>2, NoItemAssumption DEF OkEntry
  <2>4. Pending' = Pending
    BY <2>1, <2>2, <2>3 DEF Pending, Pipe
  <2>5. Unique(queue')
    <3>1. \A i, j \in 1..Len(queue) : queue[i].key = queue[j].key => i = j
      BY <1>0 DEF Steady, Unique
    <3>2. ASSUME NEW i \in 1..Len(Tail(queue)), NEW j \in 1..Len(Tail(queue)),
                 Tail(queue)[i].key = Tail(queue)[j].key
          PROVE  i = j
      <4>1. i + 1 \in 1..Len(queue) /\ j + 1 \in 1..Len(queue)
        BY <1>1, <2>2
      <4>2. queue[i + 1].key = queue[j + 1].key
        BY <2>2, <3>2
      <4>3. i + 1 = j + 1
        BY <3>1, <4>1, <4>2
      <4> QED BY <1>1, <2>2, <4>3
    <3> QED BY <2>1, <3>2 DEF Unique
  <2>6. Piped'
    BY <1>0, <1>2, <1>3, <2>1, <2>4 DEF Piped
  <2>7. Steady'
    BY <1>0, <1>3, <2>5 DEF Steady
  <2> QED BY <1>0, <2>6, <2>7 DEF Kept
<1>5. CASE DrainPut
  <2>1. /\ held # NoItem /\ bucket' = Put(bucket, held.key, held.val) /\ held' = NoItem
        /\ queue' = queue
    BY <1>5 DEF DrainPut
  <2>2. Pending' = queue
    BY <2>1 DEF Pending, Pipe
  <2>3. PICK C : /\ Landing(C, Put(bucket, held.key, held.val), queue, lastId, cache, Live)
                 /\ C[Len(queue)] = B[Len(Pending)]
    BY <1>1, <1>2, <2>1, LandingShifts DEF Pending
  <2>4. Piped'
    BY <1>0, <1>2, <1>3, <2>1, <2>2, <2>3 DEF Piped
  <2>5. Steady'
    BY <1>0, <1>3, <2>1 DEF Steady
  <2> QED BY <1>0, <2>4, <2>5 DEF Kept
<1> QED BY <1>4, <1>5 DEF Drain, DrainFail

LEMMA BucketBehind ==
  ASSUME Typed, Kept, pc # "down"
  PROVE  /\ lastId \in 0..MaxMsgs /\ SelfOK(lastId, cache)
         /\ Behind(lastId, bucket, cache, Live)
<1>1. PICK B : Landing(B, bucket, Pending, lastId, cache, Live)
  BY DEF Kept, Piped
<1>2. B[0] = bucket /\ 0 \in 0..Len(Pending)
  BY <1>1, PendingIs DEF Landing, Staged
<1>3. Behind(lastId, bucket, cache, Live)
  BY <1>1, <1>2 DEF Landing, Lands
<1> QED BY <1>3, PendingIs DEF Kept, Steady

LEMMA KeptRest ==
  ASSUME Typed, Kept, "delete" \notin Events,
         Clear \/ DeleteBucket \/ DeleteCache \/ TakeSnapshot \/ Crash \/ UNCHANGED vars
  PROVE  Kept'
<1>1. ASSUME UNCHANGED <<cache, bucket, queue, held, pc, logIdx, buf, lastId, deleting>>
      PROVE  Kept'
  <2>1. /\ Live' = Live /\ InHand' = InHand /\ Active' = Active /\ Pending' = Pending
    BY <1>1 DEF Live, InHand, Active, Pending
  <2>2. Steady => Steady'
    BY <1>1, <2>1 DEF Steady
  <2>3. Piped => Piped'
    BY <1>1, <2>1 DEF Piped
  <2> QED BY <1>1, <2>2, <2>3 DEF Kept
<1>2. CASE Clear
  <2>1. KeysWithPrefix(bucket, ClearPrefix) = {} /\ KeysWithPrefix(cache, ClearPrefix) = {}
    BY DEF KeysWithPrefix, ClearPrefix, CloudPrefix
  <2>2. cache' = Only(cache, DOMAIN cache) /\ bucket' = Only(bucket, DOMAIN bucket)
    BY <1>2, <2>1 DEF Clear
  <2>3. /\ cache = [k \in DOMAIN cache |-> cache[k]]
        /\ bucket = [k \in DOMAIN bucket |-> bucket[k]]
    BY DEF Typed, Stores, StoreOK
  <2>4. cache' = cache /\ bucket' = bucket
    BY <2>2, <2>3 DEF Only
  <2> QED BY <1>1, <1>2, <2>4 DEF Clear
<1>3. CASE TakeSnapshot
  BY <1>1, <1>3 DEF TakeSnapshot
<1>4. CASE Crash
  <2>1. SelfOK(lastId, bucket)
    BY <1>4, BucketBehind DEF Crash, Behind
  <2> QED BY <1>4, <2>1 DEF Crash, Kept
<1>5. CASE UNCHANGED vars
  BY <1>1, <1>5 DEF vars
<1>6. ~DeleteBucket /\ ~DeleteCache
  BY DEF DeleteBucket, DeleteCache, Kept
<1> QED BY <1>2, <1>3, <1>4, <1>5, <1>6

LEMMA KeptBoot ==
  ASSUME Typed, Kept, Boot, "get_error" \notin Events, "list_error" \notin Events,
         ~(LinesOf(bucket) > SessionMax)
  PROVE  Kept'
<1>1. Escalations = {}
  BY DEF Escalations
<1>2. BootFull
  BY <1>1 DEF Boot, BootSnapshot, BootSkip, BootTail, BootQuarantine
<1>3. /\ pc = "down" /\ pc' = "idle" /\ cache' = bucket /\ bucket' = bucket
      /\ UNCHANGED <<queue, held, logIdx, buf, lastId, deleting>>
      /\ SelfOK(lastId, bucket) /\ queue = <<>> /\ held = NoItem /\ ~deleting
  BY <1>2 DEF BootFull, Booted, Kept
<1>4. lastId \in 0..MaxMsgs
  BY PendingIs
<1>5. Steady'
  <2>1. Unique(<<>>)
    BY DEF Unique
  <2> QED BY <1>3, <2>1 DEF Steady
<1>6. Piped'
  <2> DEFINE B == [j \in {0} |-> bucket]
             q == Branch(Text(bucket))
  <2>1. Behind(lastId, bucket, bucket, q)
    BY <1>3, <1>4, BehindItself, SelfBranch
  <2>2. Pending' = <<>> /\ Len(<<>>) = 0 /\ Live' = q
    BY <1>3 DEF Pending, Pipe, Live
  <2>3. \A j \in 1..0 : FALSE
    OBVIOUS
  <2>4. \A j \in 0..0 : j = 0
    OBVIOUS
  <2>5. B[0] = bucket
    OBVIOUS
  <2> HIDE DEF B, q
  <2>6. ~Marked(<<>>, 0)
    BY <2>2, <2>3 DEF Marked
  <2>7. Landing(B, bucket, <<>>, lastId, bucket, q)
    BY <2>1, <2>2, <2>3, <2>4, <2>5, <2>6 DEF Landing, Staged, Lands
  <2>8. Settles(B[0], pc', cache', InHand', buf')
    BY <1>3, <2>5 DEF Settles
  <2> QED BY <1>3, <2>2, <2>7, <2>8 DEF Piped
<1> QED BY <1>3, <1>5, <1>6 DEF Kept

LEMMA KeptInit == Init => Kept
<1> SUFFICES ASSUME Init PROVE Kept
  OBVIOUS
<1>1. /\ cache = NoObjects /\ bucket = NoObjects /\ queue = <<>> /\ held = NoItem
      /\ pc = "idle" /\ lastId = 0 /\ ~deleting
  BY DEF Init
<1>2. SelfOK(lastId, NoObjects)
  <2>1. DOMAIN NoObjects = {} /\ Get(NoObjects, Base) = <<>> /\ AllMsgs(NoObjects) = {}
    BY DEF NoObjects, Get, AllMsgs
  <2>2. StoreOK(lastId, NoObjects)
    BY NoObjectsOK
  <2> QED BY <2>1, <2>2, NoMsgs DEF SelfOK, Rooted, OneEach
<1>3. Unique(<<>>)
  BY DEF Unique
<1>4. Steady
  BY <1>1, <1>2, <1>3 DEF Steady
<1>5. Piped
  <2> DEFINE B == [j \in {0} |-> bucket]
             q == Branch(Text(bucket))
  <2>0. 0 \in 0..MaxMsgs
    OBVIOUS
  <2>1. Behind(lastId, bucket, bucket, q)
    BY <1>1, <1>2, <2>0, BehindItself, SelfBranch
  <2>2. Pending = <<>> /\ Len(<<>>) = 0 /\ Live = q
    BY <1>1 DEF Pending, Pipe, Live
  <2>3. \A j \in 1..0 : FALSE
    OBVIOUS
  <2>4. \A j \in 0..0 : j = 0
    OBVIOUS
  <2>5. B[0] = bucket
    OBVIOUS
  <2> HIDE DEF B, q
  <2>6. ~Marked(<<>>, 0)
    BY <2>2, <2>3 DEF Marked
  <2>7. Landing(B, bucket, <<>>, lastId, bucket, q)
    BY <2>1, <2>2, <2>3, <2>4, <2>5, <2>6 DEF Landing, Staged, Lands
  <2>8. Settles(B[0], pc, cache, InHand, buf)
    BY <1>1, <2>5 DEF Settles
  <2> QED BY <1>1, <2>2, <2>7, <2>8 DEF Piped
<1> QED BY <1>1, <1>4, <1>5 DEF Kept

\* A store that never fails and a chat that is never deleted nor too long.
Calm == Events \cap {"put_error", "get_error", "list_error", "delete"} = {}
Short == ~(LinesOf(bucket) > SessionMax)

LEMMA AlwaysKept ==
  ASSUME Calm
  PROVE  Spec /\ []Short => []Kept
<1>1. Init => Kept
  BY KeptInit
<1>2. Typed /\ Short /\ Kept /\ [Next]_vars => Kept'
  <2> SUFFICES ASSUME Typed, Short, Kept, [Next]_vars PROVE Kept'
    OBVIOUS
  <2>1. /\ "put_error" \notin Events /\ "get_error" \notin Events
        /\ "list_error" \notin Events /\ "delete" \notin Events
    BY DEF Calm
  <2>2. CASE AppendMsg
    BY <2>1, <2>2, KeptAppend
  <2>3. CASE Agent
    BY <2>3, KeptAgent
  <2>4. CASE Drain
    BY <2>1, <2>4, KeptDrain
  <2>5. CASE Clear \/ DeleteBucket \/ DeleteCache \/ TakeSnapshot \/ Crash \/ UNCHANGED vars
    BY <2>1, <2>5, KeptRest
  <2>6. CASE Boot
    BY <2>1, <2>6, KeptBoot DEF Short
  <2> QED BY <2>2, <2>3, <2>4, <2>5, <2>6 DEF Next
<1> QED BY <1>1, <1>2, AlwaysTyped, PTL DEF Spec

\* Wherever the power is cut, a boot restores a prefix of the history that the
\* turn was working with: no message comes back without those before it.  The
\* store answers every request, the chat is not deleted, and it stays below
\* session_max_bytes, so that every boot is a full one.
THEOREM PrefixSurvives ==
  ASSUME Calm
  PROVE  Spec /\ []Short => []CrashLeavesPrefix
<1>1. Typed /\ Kept => CrashLeavesPrefix
  <2> SUFFICES ASSUME Typed, Kept, pc # "down" PROVE IsPrefix(Recovered, Live)
    BY DEF CrashLeavesPrefix
  <2>1. /\ lastId \in 0..MaxMsgs /\ SelfOK(lastId, cache)
        /\ Behind(lastId, bucket, cache, Branch(Text(cache)))
    BY BucketBehind DEF Live
  <2>2. IsPrefix(Branch(Text(bucket)), Branch(Text(cache)))
    BY <2>1, BehindIsPrefix
  <2> QED BY <2>2 DEF Recovered, Live
<1> QED BY <1>1, AlwaysTyped, AlwaysKept, PTL

\* An append extends the history it reads by the new message and by nothing
\* else, through compactions, crashes and reboots.
THEOREM AppendLinks ==
  ASSUME Calm
  PROVE  Spec /\ []Short => AppendExtends
<1> DEFINE A == pc = "idle" /\ pc' = "log" => Live' = Append(Branch(Text(cache)), lastId')
<1>1. Typed /\ Kept /\ [Next]_vars => [A]_vars
  <2> SUFFICES ASSUME Typed, Kept, Next, pc = "idle", pc' = "log"
               PROVE  Live' = Append(Branch(Text(cache)), lastId')
    OBVIOUS
  <2>1. AppendMsg
    BY DEF Next, Agent, EnqueueLog, EnqueueBase, EnqueueMark, Drain, DrainPop, DrainPut,
           DrainFail, Clear, DeleteBucket, DeleteCache, TakeSnapshot, Crash, Boot,
           BootFull, BootSnapshot, BootSkip, BootTail, BootQuarantine, Booted
  <2>2. Moves(lastId', cache, Live, cache', Append(Live, lastId'))
    BY <2>1, AppendStep DEF Calm
  <2> QED BY <2>2 DEF Moves, Live
<1>2. []Typed /\ []Kept /\ [][Next]_vars => [][A]_vars
  BY <1>1, PTL
<1> QED BY <1>2, AlwaysTyped, AlwaysKept, PTL DEF Spec, AppendExtends
=============================================================================
