------------------------- MODULE ConversionsProofs --------------------------
(* Theorems about the texts of Conversions.tla: for any markdown and any   *)
(* limit of a chunk, and for any entries of MEMORY.md.                     *)
(*                                                                         *)
(* The operators fold their tokens, blocks, lines or characters: from the  *)
(* trace of a fold comes what one member more does to it.                  *)
EXTENDS TranscriptProofs

-----------------------------------------------------------------------------
(* Folds: the values a fold takes, as a trace.                             *)

\* What a fold of s builds, set of places by set of places.
IsFold(g, base, step, s) ==
  \A I \in SUBSET (1..Len(s)) :
    g[I] = IF I = {} THEN base ELSE step[<<g[I \ {Max(I)}], s[Max(I)]>>]

\* The first k places without the last of them.
LEMMA FirstPlaces ==
  ASSUME NEW n \in Nat, NEW k \in 1..n
  PROVE  /\ 1..k \in SUBSET (1..n) /\ 1..k # {}
         /\ Max(1..k) = k /\ (1..k) \ {k} = 1..(k - 1)
<1>1. Max(1..k) \in 1..k /\ \A i \in 1..k : Max(1..k) >= i
  <2> DEFINE I == 1..k
  <2>1. I \subseteq 1..n /\ I # {}
    OBVIOUS
  <2> HIDE DEF I
  <2>2. Max(I) \in I /\ \A i \in I : Max(I) >= i
    BY <2>1, Greatest
  <2> QED BY <2>2 DEF I
<1>2. k \in 1..k
  OBVIOUS
<1>3. Max(1..k) = k
  BY <1>1, <1>2
<1> QED BY <1>3

\* A fold exists.
LEMMA FoldExists ==
  ASSUME NEW X, NEW T, NEW base \in X, NEW step \in [X \X T -> X], NEW s \in Seq(T)
  PROVE  \E g \in [SUBSET (1..Len(s)) -> X] : IsFold(g, base, step, s)
<1> DEFINE D == SUBSET (1..Len(s))
           m == [I \in D |-> IF I = {} THEN 0 ELSE Max(I)]
           B == [x \in [D -> X] \X D |->
                   IF x[2] = {} THEN base ELSE step[<<x[1][x[2] \ {Max(x[2])}], s[Max(x[2])]>>]]
<1>0. Len(s) \in Nat
  OBVIOUS
<1>1. ASSUME NEW I \in D, I # {} PROVE Max(I) \in I /\ Max(I) \in 1..Len(s) /\ I \ {Max(I)} \in D
  <2>1. I \subseteq 1..Len(s)
    OBVIOUS
  <2>2. Max(I) \in I
    BY <1>0, <1>1, <2>1, Greatest
  <2> QED BY <2>1, <2>2
<1>2. m \in [D -> Nat] /\ X # {}
  BY <1>1
<1>3. B \in [[D -> X] \X D -> X]
  <2> SUFFICES ASSUME NEW x \in [D -> X] \X D
               PROVE  (IF x[2] = {} THEN base
                       ELSE step[<<x[1][x[2] \ {Max(x[2])}], s[Max(x[2])]>>]) \in X
    OBVIOUS
  <2>1. x[2] \in D /\ x[1] \in [D -> X]
    OBVIOUS
  <2>2. CASE x[2] # {}
    <3>1. x[2] \ {Max(x[2])} \in D /\ Max(x[2]) \in 1..Len(s)
      BY <1>1, <2>1, <2>2
    <3>2. x[1][x[2] \ {Max(x[2])}] \in X /\ s[Max(x[2])] \in T
      BY <2>1, <3>1
    <3> QED BY <2>2, <3>2
  <2> QED BY <2>2
<1>4. Descends(D, X, m, B)
  <2> SUFFICES ASSUME NEW I \in D, NEW f \in [D -> X], NEW g \in [D -> X],
                      \A q \in D : m[q] < m[I] => f[q] = g[q]
               PROVE  B[<<f, I>>] = B[<<g, I>>]
    BY DEF Descends
  <2>1. CASE I = {}
    BY <2>1
  <2>2. CASE I # {}
    <3> DEFINE J == I \ {Max(I)}
    <3>1. J \in D /\ Max(I) \in 1..Len(s) /\ m[I] = Max(I)
      BY <1>1, <2>2
    <3>2. m[J] < m[I]
      <4>1. CASE J = {}
        BY <3>1, <4>1
      <4>2. CASE J # {}
        <5>1. Max(J) \in J /\ m[J] = Max(J)
          BY <1>1, <3>1, <4>2
        <5>2. Max(J) \in I /\ Max(J) # Max(I) /\ Max(J) \in Int
          BY <3>1, <5>1
        <5>3. Max(I) >= Max(J)
          BY <1>0, <2>2, <5>2, Greatest
        <5> QED BY <3>1, <5>1, <5>2, <5>3
      <4> QED BY <4>1, <4>2
    <3>3. f[J] = g[J]
      BY <3>1, <3>2
    <3> QED BY <2>2, <3>3
  <2> QED BY <2>1, <2>2
<1>5. PICK g \in [D -> X] : \A I \in D : g[I] = B[<<g, I>>]
  <2> HIDE DEF D, m, B
  <2>1. IsRecursion(D, X, m, B)
    BY <1>2, <1>3, <1>4 DEF IsRecursion
  <2>2. HasSolution(D, X, B)
    BY <2>1, RecursionHasSolution
  <2> QED BY <2>2 DEF HasSolution
<1>6. IsFold(g, base, step, s)
  BY <1>5 DEF IsFold
<1> QED BY <1>6

\* The values of a fold, prefix by prefix.
IsTrace(h, base, step, s) ==
  h[0] = base /\ \A k \in 1..Len(s) : h[k] = step[<<h[k - 1], s[k]>>]

\* What satisfies the equation of a fold, prefix by prefix of the places.
Iterates(f, X, base, step, s) ==
  /\ f[{}] = base
  /\ \A k \in 1..Len(s) : f[1..(k - 1)] \in X => f[1..k] = step[<<f[1..(k - 1)], s[k]>>]

\* A trace ends in v.
EndsIn(v, X, base, step, s) ==
  \E h \in [0..Len(s) -> X] : IsTrace(h, base, step, s) /\ h[Len(s)] = v

\* Such a sequence of values is a trace, and ends in what its last place has.
LEMMA IterTraces ==
  ASSUME NEW X, NEW T, NEW base \in X, NEW step \in [X \X T -> X], NEW s \in Seq(T),
         NEW f, Iterates(f, X, base, step, s)
  PROVE  EndsIn(f[1..Len(s)], X, base, step, s)
<1> DEFINE h == [k \in 0..Len(s) |-> f[1..k]]
           P == {k \in Nat : k <= Len(s) => f[1..k] \in X}
<1>0. Len(s) \in Nat /\ 1..0 = {}
  OBVIOUS
<1>1. 0 \in P
  BY <1>0 DEF Iterates
<1>2. ASSUME NEW k \in Nat, k \in P PROVE k + 1 \in P
  <2> SUFFICES ASSUME k + 1 <= Len(s) PROVE f[1..(k + 1)] \in X
    OBVIOUS
  <2>1. k + 1 \in 1..Len(s) /\ (k + 1) - 1 = k /\ f[1..k] \in X
    BY <1>0, <1>2
  <2>2. s[k + 1] \in T
    BY <2>1
  <2>3. f[1..(k + 1)] = step[<<f[1..k], s[k + 1]>>]
    BY <2>1 DEF Iterates
  <2> QED BY <2>1, <2>2, <2>3
<1> HIDE DEF P
<1>3. \A k \in Nat : k \in P
  BY <1>1, <1>2, NatSet
<1>4. \A k \in 0..Len(s) : f[1..k] \in X
  BY <1>0, <1>3 DEF P
<1>5. h \in [0..Len(s) -> X]
  BY <1>4
<1>6. h[0] = base
  BY <1>0 DEF Iterates
<1>7. ASSUME NEW k \in 1..Len(s) PROVE h[k] = step[<<h[k - 1], s[k]>>]
  <2>1. k \in 0..Len(s) /\ k - 1 \in 0..Len(s)
    BY <1>0
  <2>2. f[1..(k - 1)] \in X
    BY <1>4, <2>1
  <2>3. f[1..k] = step[<<f[1..(k - 1)], s[k]>>]
    BY <2>2 DEF Iterates
  <2>4. h[k] = f[1..k] /\ h[k - 1] = f[1..(k - 1)]
    BY <2>1
  <2> QED BY <2>3, <2>4
<1>8. h[Len(s)] = f[1..Len(s)]
  BY <1>0
<1> HIDE DEF h
<1> QED BY <1>5, <1>6, <1>7, <1>8 DEF IsTrace, EndsIn

\* A text that begins another.
Begins(s, u) == Len(s) <= Len(u) /\ \A k \in 1..Len(s) : s[k] = u[k]

\* Traces of sequences that begin alike agree as far as that.
LEMMA TracesAgree ==
  ASSUME NEW T, NEW s \in Seq(T), NEW u \in Seq(T), Begins(s, u), NEW base, NEW step,
         NEW h, NEW g, IsTrace(h, base, step, s), IsTrace(g, base, step, u)
  PROVE  \A k \in 0..Len(s) : h[k] = g[k]
<1> DEFINE P == {k \in Nat : k <= Len(s) => h[k] = g[k]}
<1>1. 0 \in P
  BY DEF IsTrace
<1>2. ASSUME NEW k \in Nat, k \in P PROVE k + 1 \in P
  <2> SUFFICES ASSUME k + 1 <= Len(s) PROVE h[k + 1] = g[k + 1]
    OBVIOUS
  <2>1. k + 1 \in 1..Len(s) /\ k + 1 \in 1..Len(u) /\ (k + 1) - 1 = k /\ h[k] = g[k]
    BY <1>2 DEF Begins
  <2>2. h[k + 1] = step[<<h[k], s[k + 1]>>] /\ g[k + 1] = step[<<g[k], u[k + 1]>>]
    BY <2>1 DEF IsTrace
  <2>3. u[k + 1] = s[k + 1]
    BY <2>1 DEF Begins
  <2> QED BY <2>1, <2>2, <2>3
<1> HIDE DEF P
<1>3. \A k \in Nat : k \in P
  BY <1>1, <1>2, NatSet
<1> QED BY <1>3 DEF P

\* F folds step over every sequence: it gives base for none of it, and goes on
\* from what the sequence before gave.
Folds(F, X, T, base, step) ==
  /\ F \in [Seq(T) -> X]
  /\ F[<<>>] = base
  /\ \A s \in Seq(T) : \A t \in T : F[Append(s, t)] = step[<<F[s], t>>]

\* An operator whose values all end traces is a fold: it starts in base and
\* takes one step for each member.
LEMMA TracedFolds ==
  ASSUME NEW X, NEW T, NEW base \in X, NEW step \in [X \X T -> X], NEW F, F = [s \in Seq(T) |-> F[s]],
         \A s \in Seq(T) : EndsIn(F[s], X, base, step, s)
  PROVE  Folds(F, X, T, base, step)
<1>1. ASSUME NEW s \in Seq(T) PROVE F[s] \in X
  <2>1. PICK h \in [0..Len(s) -> X] : F[s] = h[Len(s)]
    BY DEF EndsIn
  <2>2. Len(s) \in 0..Len(s)
    OBVIOUS
  <2> QED BY <2>1, <2>2
<1>2. F[<<>>] = base
  <2>1. <<>> \in Seq(T) /\ Len(<<>>) = 0
    OBVIOUS
  <2> QED BY <2>1 DEF EndsIn, IsTrace
<1>3. ASSUME NEW s \in Seq(T), NEW t \in T PROVE F[Append(s, t)] = step[<<F[s], t>>]
  <2> DEFINE u == Append(s, t)
  <2>1. /\ u \in Seq(T) /\ Len(u) = Len(s) + 1 /\ u[Len(s) + 1] = t /\ Len(s) \in Nat
        /\ \A k \in 1..Len(s) : s[k] = u[k]
    OBVIOUS
  <2> HIDE DEF u
  <2>2. PICK h \in [0..Len(s) -> X] : IsTrace(h, base, step, s) /\ F[s] = h[Len(s)]
    BY DEF EndsIn
  <2>3. PICK g \in [0..Len(u) -> X] : IsTrace(g, base, step, u) /\ F[u] = g[Len(u)]
    BY <2>1 DEF EndsIn
  <2>4. \A k \in 0..Len(s) : h[k] = g[k]
    <3>1. Begins(s, u)
      BY <2>1 DEF Begins
    <3>2. IsTrace(h, base, step, s) /\ IsTrace(g, base, step, u)
      BY <2>2, <2>3
    <3> QED BY <2>1, <3>1, <3>2, TracesAgree
  <2>5. Len(s) \in 0..Len(s) /\ Len(u) \in 1..Len(u) /\ Len(u) - 1 = Len(s)
    BY <2>1
  <2>6. g[Len(u)] = step[<<g[Len(u) - 1], u[Len(u)]>>]
    BY <2>3, <2>5 DEF IsTrace
  <2>7. F[u] = step[<<F[s], t>>]
    BY <2>1, <2>2, <2>3, <2>4, <2>5, <2>6
  <2> QED BY <2>7 DEF u
<1> QED BY <1>1, <1>2, <1>3 DEF Folds

-----------------------------------------------------------------------------
(* Markdown: tokens and their widths.                                      *)

\* The tokens of Telegram's HTML.
Tags == {"b", "i", "s", "u", "pre", "code", "a", "language", "blockquote"}
OpenTags == {"open"} \X Tags
CloseTags == {"close"} \X Tags

\* The provers do not know that a literal is a string.
Chars == STRING \cup {"\n", " ", "|", ":", "-"}
Atoms == {"atom"} \X Chars
Tokens == OpenTags \cup CloseTags \cup Atoms

\* A tag has a width.
LEMMA TagWidths ==
  ASSUME NEW tag \in Tags
  PROVE  OpenWidth[tag] \in Nat /\ CloseWidth[tag] \in Nat
  BY DEF Tags, OpenWidth, CloseWidth

\* A token is a tag that opens, one that closes, or an atom of text.
LEMMA TokenKinds ==
  ASSUME NEW t \in Tokens
  PROVE  \/ t[1] = "open" /\ t[2] \in Tags /\ t \in OpenTags
         \/ t[1] = "close" /\ t[2] \in Tags /\ t \in CloseTags
         \/ t[1] = "atom" /\ t[2] \in Chars /\ t \in Atoms
  BY DEF Tokens, OpenTags, CloseTags, Atoms

\* A token has a width; an atom is at most 4 wide.
LEMMA TokenWidths ==
  ASSUME NEW t \in Tokens
  PROVE  /\ Width(t) \in Nat
         /\ t[1] = "open" => Width(t) = OpenWidth[t[2]]
         /\ t[1] = "close" => Width(t) = CloseWidth[t[2]]
         /\ t[1] = "atom" => Width(t) <= 4
<1>1. CASE t[1] = "open" /\ t[2] \in Tags
  BY <1>1, TagWidths DEF Width
<1>2. CASE t[1] = "close" /\ t[2] \in Tags
  BY <1>2, TagWidths DEF Width
<1>3. CASE t[1] = "atom"
  BY <1>3 DEF Width
<1> QED BY <1>1, <1>2, <1>3, TokenKinds

\* The width as a fold: one step.
AddWidth == [p \in Nat \X Tokens |-> p[1] + Width(p[2])]

\* Widths are naturals.
LEMMA AddWidthType == AddWidth \in [Nat \X Tokens -> Nat] /\ 0 \in Nat
  BY TokenWidths DEF AddWidth

\* WidthOf adds up the widths.
LEMMA WidthFolds ==
  Folds([s \in Seq(Tokens) |-> WidthOf(s)], Nat, Tokens, 0, AddWidth)
<1> DEFINE F == [s \in Seq(Tokens) |-> WidthOf(s)]
<1>1. AddWidth \in [Nat \X Tokens -> Nat] /\ 0 \in Nat
  BY AddWidthType
<1>2. ASSUME NEW s \in Seq(Tokens) PROVE EndsIn(F[s], Nat, 0, AddWidth, s)
  <2> DEFINE D == SUBSET (1..Len(s))
             IsIter(f) == f = [I \in D |-> IF I = {} THEN 0
                                           ELSE f[I \ {Max(I)}] + Width(s[Max(I)])]
             iter == CHOOSE f : IsIter(f)
  <2>1. PICK g \in [D -> Nat] : IsFold(g, 0, AddWidth, s)
    BY <1>1, FoldExists
  <2>2. IsIter(g)
    <3>1. ASSUME NEW I \in D
          PROVE  g[I] = IF I = {} THEN 0 ELSE g[I \ {Max(I)}] + Width(s[Max(I)])
      <4>1. CASE I # {}
        <5>1. Max(I) \in 1..Len(s) /\ I \ {Max(I)} \in D
          <6>1. Len(s) \in Nat /\ I \subseteq 1..Len(s)
            OBVIOUS
          <6>2. Max(I) \in I
            BY <4>1, <6>1, Greatest
          <6> QED BY <6>1, <6>2
        <5>2. g[I] = AddWidth[<<g[I \ {Max(I)}], s[Max(I)]>>]
          BY <2>1, <4>1 DEF IsFold
        <5>3. g[I \ {Max(I)}] \in Nat /\ s[Max(I)] \in Tokens
          BY <2>1, <5>1
        <5> DEFINE x == g[I \ {Max(I)}] t == s[Max(I)]
        <5>4. AddWidth[<<x, t>>] = x + Width(t)
          <6> HIDE DEF x, t
          <6>1. x \in Nat /\ t \in Tokens
            BY <5>3 DEF x, t
          <6> QED BY <6>1 DEF AddWidth
        <5> QED BY <4>1, <5>2, <5>4
      <4>2. CASE I = {}
        BY <2>1, <4>2 DEF IsFold
      <4> QED BY <4>1, <4>2
    <3> QED BY <2>1, <3>1
  <2>3. IsIter(iter)
    <3> HIDE DEF IsIter
    <3> QED BY <2>2
  <2>4. F[s] = iter[1..Len(s)]
    <3>1. DOMAIN s = 1..Len(s)
      OBVIOUS
    <3>2. WidthOf(s) = iter[1..Len(s)]
      BY <3>1, Zenon DEF WidthOf, FoldLeft, MapThenFoldSet
    <3> QED BY <3>2
  <2>5. iter[{}] = 0
    BY <2>3
  <2>6. ASSUME NEW k \in 1..Len(s), iter[1..(k - 1)] \in Nat
        PROVE  iter[1..k] = AddWidth[<<iter[1..(k - 1)], s[k]>>]
    <3>1. 1..k \in D /\ 1..k # {} /\ Max(1..k) = k /\ (1..k) \ {k} = 1..(k - 1)
      <4>1. Len(s) \in Nat
        OBVIOUS
      <4> QED BY <4>1, FirstPlaces
    <3> DEFINE x == iter[1..(k - 1)] t == s[k]
    <3>2. iter[1..k] = x + Width(t)
      <4> HIDE DEF iter
      <4> QED BY <2>3, <3>1
    <3>3. x \in Nat /\ t \in Tokens
      BY <2>6
    <3>4. AddWidth[<<x, t>>] = x + Width(t)
      <4> HIDE DEF x, t
      <4> QED BY <3>3 DEF AddWidth
    <3> QED BY <3>2, <3>4
  <2> HIDE DEF iter, F, D, IsIter
  <2>8. Iterates(iter, Nat, 0, AddWidth, s)
    BY <2>5, <2>6 DEF Iterates
  <2>7. EndsIn(iter[1..Len(s)], Nat, 0, AddWidth, s)
    BY <1>1, <2>8, IterTraces
  <2> QED BY <2>4, <2>7
<1>3. F = [s \in Seq(Tokens) |-> F[s]]
  OBVIOUS
<1> HIDE DEF F
<1>4. Folds(F, Nat, Tokens, 0, AddWidth)
  BY <1>1, <1>2, <1>3, TracedFolds
<1> QED BY <1>4 DEF F

\* The width of a sequence, from its end.
LEMMA WidthSteps ==
  /\ WidthOf(<<>>) = 0
  /\ \A s \in Seq(Tokens) : WidthOf(s) \in Nat
  /\ \A s \in Seq(Tokens) : \A t \in Tokens : WidthOf(Append(s, t)) = WidthOf(s) + Width(t)
<1> DEFINE F == [s \in Seq(Tokens) |-> WidthOf(s)]
<1>1. Folds(F, Nat, Tokens, 0, AddWidth)
  BY WidthFolds
<1>2. <<>> \in Seq(Tokens) /\ \A s \in Seq(Tokens) : F[s] = WidthOf(s)
  OBVIOUS
<1> HIDE DEF F
<1>3. WidthOf(<<>>) = 0 /\ \A s \in Seq(Tokens) : WidthOf(s) \in Nat
  BY <1>1, <1>2 DEF Folds
<1>4. ASSUME NEW s \in Seq(Tokens), NEW t \in Tokens PROVE WidthOf(Append(s, t)) = WidthOf(s) + Width(t)
  <2>1. Append(s, t) \in Seq(Tokens)
    OBVIOUS
  <2>2. F[Append(s, t)] = AddWidth[<<F[s], t>>]
    BY <1>1 DEF Folds
  <2> QED BY <1>2, <1>3, <2>1, <2>2 DEF AddWidth
<1> QED BY <1>3, <1>4

\* Widths add up.
LEMMA WidthConcat ==
  ASSUME NEW s \in Seq(Tokens), NEW u \in Seq(Tokens)
  PROVE  WidthOf(s \o u) = WidthOf(s) + WidthOf(u)
<1> DEFINE P == {v \in Seq(Tokens) : WidthOf(s \o v) = WidthOf(s) + WidthOf(v)}
<1>1. <<>> \in P
  <2>1. s \o <<>> = s
    BY ConcatEmptySeq
  <2> QED BY <2>1, WidthSteps
<1>2. ASSUME NEW v \in Seq(Tokens), NEW t \in Tokens, v \in P PROVE Append(v, t) \in P
  <2>1. s \o Append(v, t) = Append(s \o v, t) /\ s \o v \in Seq(Tokens) /\ Append(v, t) \in Seq(Tokens)
    OBVIOUS
  <2>2. WidthOf(Append(s \o v, t)) = WidthOf(s \o v) + Width(t)
    BY <2>1, WidthSteps
  <2>3. WidthOf(Append(v, t)) = WidthOf(v) + Width(t)
    BY WidthSteps
  <2>4. WidthOf(s) \in Nat /\ WidthOf(v) \in Nat /\ Width(t) \in Nat
    BY WidthSteps, TokenWidths
  <2>5. WidthOf(s \o v) = WidthOf(s) + WidthOf(v)
    BY <1>2
  <2>6. WidthOf(Append(s \o v, t)) = WidthOf(s) + WidthOf(Append(v, t))
    <3> DEFINE a == WidthOf(s) b == WidthOf(v) c == Width(t) d == WidthOf(s \o v)
    <3>1. (a + b) + c = a + (b + c)
      <4> HIDE DEF a, b, c
      <4> QED BY <2>4 DEF a, b, c
    <3> QED BY <2>2, <2>3, <2>5, <3>1
  <2>7. WidthOf(s \o Append(v, t)) = WidthOf(s) + WidthOf(Append(v, t))
    BY <2>1, <2>6
  <2> QED BY <2>1, <2>7
<1> HIDE DEF P
<1>3. \A v \in Seq(Tokens) : v \in P
  BY <1>1, <1>2, SeqSet
<1> QED BY <1>3 DEF P

\* One token is as wide as it is.
LEMMA WidthOne ==
  ASSUME NEW t \in Tokens
  PROVE  WidthOf(<<t>>) = Width(t)
<1>1. <<t>> = Append(<<>>, t) /\ <<>> \in Seq(Tokens)
  OBVIOUS
<1>2. WidthOf(Append(<<>>, t)) = WidthOf(<<>>) + Width(t)
  BY <1>1, WidthSteps
<1>3. WidthOf(<<>>) = 0 /\ Width(t) \in Nat
  BY WidthSteps, TokenWidths
<1> QED BY <1>1, <1>2, <1>3

\* Closing tags.
LEMMA ClosersType ==
  ASSUME NEW open \in Seq(OpenTags)
  PROVE  Closers(open) \in Seq(CloseTags) /\ Len(Closers(open)) = Len(open)
<1>1. ASSUME NEW k \in 1..Len(open) PROVE Close(open[Len(open) + 1 - k][2]) \in CloseTags
  <2>1. open[Len(open) + 1 - k] \in OpenTags
    OBVIOUS
  <2> QED BY <2>1 DEF Close, OpenTags, CloseTags
<1> QED BY <1>1 DEF Closers

\* Tags and atoms are tokens.
LEMMA TagsAreTokens ==
  /\ OpenTags \subseteq Tokens /\ CloseTags \subseteq Tokens /\ Atoms \subseteq Tokens
  /\ Seq(OpenTags) \subseteq Seq(Tokens) /\ Seq(CloseTags) \subseteq Seq(Tokens)
<1>1. OpenTags \subseteq Tokens /\ CloseTags \subseteq Tokens /\ Atoms \subseteq Tokens
  BY DEF Tokens
<1> QED BY <1>1

\* Where nothing is open nothing has to be closed.
LEMMA ClosersEmpty == Closers(<<>>) = <<>>
  BY DEF Closers

\* The tag that was opened last is closed first.
LEMMA ClosersAppend ==
  ASSUME NEW open \in Seq(OpenTags), NEW t \in OpenTags
  PROVE  Closers(Append(open, t)) = <<Close(t[2])>> \o Closers(open)
<1> DEFINE u == Append(open, t)
           c == Close(t[2])
<1>1. /\ u \in Seq(OpenTags) /\ Len(u) = Len(open) + 1 /\ Len(open) \in Nat
      /\ u[Len(open) + 1] = t /\ \A k \in 1..Len(open) : u[k] = open[k]
  OBVIOUS
<1>2. c \in CloseTags
  BY DEF Close, OpenTags, CloseTags
<1> HIDE DEF u, c
<1>3. /\ Closers(u) \in Seq(CloseTags) /\ Len(Closers(u)) = Len(u)
      /\ Closers(open) \in Seq(CloseTags) /\ Len(Closers(open)) = Len(open)
  BY <1>1, ClosersType
<1>4. <<c>> \in Seq(CloseTags) /\ Len(<<c>>) = 1 /\ <<c>>[1] = c
  BY <1>2
<1> DEFINE v == <<c>>
<1> HIDE DEF v
<1>5. /\ v \o Closers(open) \in Seq(CloseTags) /\ Len(v \o Closers(open)) = Len(open) + 1
      /\ \A i \in 1..(Len(open) + 1) :
           (v \o Closers(open))[i] = IF i <= 1 THEN v[i] ELSE Closers(open)[i - 1]
  BY <1>3, <1>4, ConcatProperties DEF v
<1>6. ASSUME NEW i \in 1..Len(u) PROVE Closers(u)[i] = (v \o Closers(open))[i]
  <2>1. Closers(u)[i] = Close(u[Len(u) + 1 - i][2])
    BY DEF Closers
  <2>2. CASE i = 1
    <3>1. u[Len(u) + 1 - i] = t
      BY <1>1, <2>2
    <3> QED BY <1>1, <1>4, <1>5, <2>1, <2>2, <3>1 DEF c, v
  <2>3. CASE i # 1
    <3>1. i - 1 \in 1..Len(open) /\ Len(u) + 1 - i = Len(open) + 1 - (i - 1) /\ Len(u) + 1 - i \in 1..Len(open)
      BY <1>1, <2>3
    <3>2. Closers(open)[i - 1] = Close(open[Len(open) + 1 - (i - 1)][2])
      BY <3>1 DEF Closers
    <3>3. u[Len(u) + 1 - i] = open[Len(open) + 1 - (i - 1)]
      BY <1>1, <3>1
    <3> QED BY <1>1, <1>5, <2>1, <2>3, <3>2, <3>3
  <2> QED BY <2>2, <2>3
<1>7. Closers(u) = v \o Closers(open)
  <2> DEFINE w == v \o Closers(open)
  <2>1. w \in Seq(CloseTags) /\ Len(w) = Len(u) /\ \A i \in 1..Len(u) : Closers(u)[i] = w[i]
    BY <1>1, <1>5, <1>6
  <2> HIDE DEF w
  <2>2. Closers(u) = w
    BY <1>3, <2>1, SeqEqual
  <2> QED BY <2>2 DEF w
<1> QED BY <1>7 DEF u, v, c

\* Front undoes Append.
LEMMA FrontAppend ==
  ASSUME NEW S, NEW s \in Seq(S), NEW t \in S
  PROVE  Front(Append(s, t)) = s /\ Last(Append(s, t)) = t
<1> DEFINE u == Append(s, t)
<1>1. u \in Seq(S) /\ Len(u) = Len(s) + 1 /\ Len(s) \in Nat /\ u[Len(s) + 1] = t /\ \A k \in 1..Len(s) : u[k] = s[k]
  OBVIOUS
<1> HIDE DEF u
<1>2. /\ SubSeq(u, 1, Len(s)) \in Seq(S) /\ Len(SubSeq(u, 1, Len(s))) = Len(s)
      /\ \A k \in 1..Len(s) : SubSeq(u, 1, Len(s))[k] = s[k]
  BY <1>1
<1> DEFINE w == SubSeq(u, 1, Len(s))
<1>3. w \in Seq(S) /\ Len(w) = Len(s) /\ \A k \in 1..Len(w) : w[k] = s[k]
  BY <1>2
<1> HIDE DEF w
<1>4. w = s
  BY <1>3, SeqEqual
<1>5. Len(u) - 1 = Len(s)
  BY <1>1
<1>6. Front(u) = s
  BY <1>4, <1>5 DEF Front, w
<1>7. Last(u) = t
  BY <1>1 DEF Last
<1> QED BY <1>6, <1>7 DEF u

\* All but the last member.
LEMMA FrontType ==
  ASSUME NEW S, NEW s \in Seq(S)
  PROVE  Front(s) \in Seq(S)
<1>1. \A i \in 1..(Len(s) - 1) : s[i] \in S
  OBVIOUS
<1>2. 1 \in Int /\ Len(s) - 1 \in Int
  OBVIOUS
<1> QED BY <1>1, <1>2, SubSeqProperties DEF Front

-----------------------------------------------------------------------------
(* Markdown: where split_block is.                                         *)

\* Where split_block can be, and its step as a function.
SplitStates == [out : Seq(Seq(Tokens)), cur : Seq(Tokens), open : Seq(OpenTags), progressed : BOOLEAN]
SplitStep == [p \in SplitStates \X Tokens |-> SplitToken(p[1], p[2])]

\* A chunk that is full is followed by the tags that are open.
LEMMA FlushedType ==
  ASSUME NEW x \in SplitStates
  PROVE  /\ x.cur \o Closers(x.open) \in Seq(Tokens)
         /\ Flushed(x) \in Seq(Seq(Tokens))
         /\ Reopened(x) \in SplitStates
<1>1. /\ x.out \in Seq(Seq(Tokens)) /\ x.cur \in Seq(Tokens) /\ x.open \in Seq(OpenTags)
      /\ x.open \in Seq(Tokens)
  BY TagsAreTokens DEF SplitStates
<1>2. Closers(x.open) \in Seq(Tokens)
  BY <1>1, ClosersType, TagsAreTokens
<1>3. x.cur \o Closers(x.open) \in Seq(Tokens)
  BY <1>1, <1>2, ConcatProperties
<1>4. Flushed(x) \in Seq(Seq(Tokens))
  BY <1>1, <1>3 DEF Flushed
<1> QED BY <1>1, <1>3, <1>4 DEF Reopened, SplitStates

\* A token more leaves split_block in such a state.
LEMMA SplitTokenType ==
  ASSUME NEW x \in SplitStates, NEW t \in Tokens
  PROVE  SplitToken(x, t) \in SplitStates
<1> DEFINE y == IF Overflows(x, t) THEN Reopened(x) ELSE x
           open == CASE t[1] = "open" -> Append(y.open, t)
                     [] t[1] = "close" -> Front(y.open)
                     [] OTHER -> y.open
<1>1. y \in SplitStates
  BY FlushedType
<1>2. SplitToken(x, t) = [out |-> y.out, cur |-> Append(y.cur, t), open |-> open, progressed |-> TRUE]
  BY DEF SplitToken
<1> HIDE DEF y
<1>3. y.out \in Seq(Seq(Tokens)) /\ y.cur \in Seq(Tokens) /\ y.open \in Seq(OpenTags)
  BY <1>1 DEF SplitStates
<1>4. Front(y.open) \in Seq(OpenTags)
  BY <1>3, FrontType
<1>5. t[1] = "open" => t \in OpenTags
  BY TokenKinds
<1>6. open \in Seq(OpenTags)
  BY <1>3, <1>4, <1>5
<1>7. Append(y.cur, t) \in Seq(Tokens)
  BY <1>3
<1> HIDE DEF open
<1> QED BY <1>2, <1>3, <1>6, <1>7 DEF SplitStates

\* So the step is a function on these states, which start with EmptySplit.
LEMMA SplitStepType == SplitStep \in [SplitStates \X Tokens -> SplitStates] /\ EmptySplit \in SplitStates
<1>1. EmptySplit \in SplitStates
  BY DEF EmptySplit, SplitStates
<1> QED BY <1>1, SplitTokenType DEF SplitStep

-----------------------------------------------------------------------------
(* Markdown: reading tokens for what is open.                              *)

\* What WellFormed keeps while it reads tokens: the tags that are open.
Track(x, t) ==
  CASE t[1] = "open" -> [x EXCEPT !.open = Append(@, t[2])]
    [] t[1] = "close" ->
         IF x.open # <<>> /\ Last(x.open) = t[2]
         THEN [x EXCEPT !.open = Front(@)] ELSE [x EXCEPT !.ok = FALSE]
    [] OTHER -> x
Untracked == [open |-> <<>>, ok |-> TRUE]
Tracked(s) == FoldLeft(Track, Untracked, s)
TrackStates == [open : Seq(Tags), ok : BOOLEAN]
TrackStep == [p \in TrackStates \X Tokens |-> Track(p[1], p[2])]

\* A token more leaves the reader in such a state.
LEMMA TrackStepType == TrackStep \in [TrackStates \X Tokens -> TrackStates] /\ Untracked \in TrackStates
<1>1. Untracked \in TrackStates
  BY DEF Untracked, TrackStates
<1>2. ASSUME NEW x \in TrackStates, NEW t \in Tokens PROVE Track(x, t) \in TrackStates
  <2>1. x.open \in Seq(Tags) /\ x = [open |-> x.open, ok |-> x.ok] /\ x.ok \in BOOLEAN
    BY DEF TrackStates
  <2>2. Front(x.open) \in Seq(Tags)
    BY <2>1, FrontType
  <2>3. t[1] = "open" => t[2] \in Tags
    BY TokenKinds
  <2>4. t[1] = "open" => Append(x.open, t[2]) \in Seq(Tags)
    BY <2>1, <2>3
  <2> QED BY <2>1, <2>2, <2>4 DEF Track, TrackStates
<1> QED BY <1>1, <1>2 DEF TrackStep

\* A text is well-formed when it is read to the end and nothing is open.
LEMMA WellFormedTracked ==
  ASSUME NEW s
  PROVE  WellFormed(s) <=> Tracked(s).ok /\ Tracked(s).open = <<>>
  BY DEF WellFormed, Tracked, Track, Untracked

-----------------------------------------------------------------------------
(* Markdown: the room that tags need.                                      *)

\* What TagsFit keeps: the open tags, and the widest they have been.
FitOpen(x, t) ==
  CASE t[1] = "open" -> Append(x.open, t) [] t[1] = "close" -> Front(x.open) [] OTHER -> x.open
FitWidth(open) == WidthOf(open) + WidthOf(Closers(open))
Fit(x, t) ==
  [open |-> FitOpen(x, t),
   widest |-> IF FitWidth(FitOpen(x, t)) > x.widest THEN FitWidth(FitOpen(x, t)) ELSE x.widest]
Unfit == [open |-> <<>>, widest |-> 0]
Fitted(s) == FoldLeft(Fit, Unfit, s)
FitStates == [open : Seq(OpenTags), widest : Nat]
FitStep == [p \in FitStates \X Tokens |-> Fit(p[1], p[2])]

\* A token more leaves it in such a state.
LEMMA FitStepType == FitStep \in [FitStates \X Tokens -> FitStates] /\ Unfit \in FitStates
<1>1. Unfit \in FitStates
  BY DEF Unfit, FitStates
<1>2. ASSUME NEW x \in FitStates, NEW t \in Tokens PROVE Fit(x, t) \in FitStates
  <2>1. x.open \in Seq(OpenTags) /\ x.widest \in Nat
    BY DEF FitStates
  <2>2. Front(x.open) \in Seq(OpenTags)
    BY <2>1, FrontType
  <2>3. t[1] = "open" => t \in OpenTags
    BY TokenKinds
  <2>4. FitOpen(x, t) \in Seq(OpenTags)
    BY <2>1, <2>2, <2>3 DEF FitOpen
  <2>5. ASSUME NEW open \in Seq(OpenTags) PROVE FitWidth(open) \in Nat
    <3>1. open \in Seq(Tokens) /\ Closers(open) \in Seq(Tokens)
      BY ClosersType, TagsAreTokens
    <3> QED BY <3>1, WidthSteps DEF FitWidth
  <2>6. FitWidth(FitOpen(x, t)) \in Nat
    BY <2>4, <2>5
  <2> QED BY <2>1, <2>4, <2>6 DEF Fit, FitStates
<1> QED BY <1>1, <1>2 DEF FitStep

\* The tags of a block fit when the widest they have been leaves an atom room.
LEMMA TagsFitFitted ==
  ASSUME NEW s
  PROVE  TagsFit(s) <=> Fitted(s).widest + 4 <= Limit
  BY DEF TagsFit, Fitted, Fit, Unfit, FitOpen, FitWidth

\* Splitting goes token by token.
LEMMA SplitFolds ==
  Folds([s \in Seq(Tokens) |-> FoldLeft(SplitToken, EmptySplit, s)], SplitStates, Tokens, EmptySplit, SplitStep)
<1> DEFINE F == [s \in Seq(Tokens) |-> FoldLeft(SplitToken, EmptySplit, s)]
<1>1. SplitStep \in [SplitStates \X Tokens -> SplitStates] /\ EmptySplit \in SplitStates
  BY SplitStepType
<1>2. ASSUME NEW s \in Seq(Tokens) PROVE EndsIn(F[s], SplitStates, EmptySplit, SplitStep, s)
  <2> DEFINE D == SUBSET (1..Len(s))
             IsIter(f) == f = [I \in D |-> IF I = {} THEN EmptySplit
                                           ELSE SplitToken(f[I \ {Max(I)}], s[Max(I)])]
             iter == CHOOSE f : IsIter(f)
  <2>1. PICK g \in [D -> SplitStates] : IsFold(g, EmptySplit, SplitStep, s)
    BY <1>1, FoldExists
  <2>2. IsIter(g)
    <3>1. ASSUME NEW I \in D
          PROVE  g[I] = IF I = {} THEN EmptySplit ELSE SplitToken(g[I \ {Max(I)}], s[Max(I)])
      <4>1. CASE I # {}
        <5>1. Max(I) \in 1..Len(s) /\ I \ {Max(I)} \in D
          <6>1. Len(s) \in Nat /\ I \subseteq 1..Len(s)
            OBVIOUS
          <6>2. Max(I) \in I
            BY <4>1, <6>1, Greatest
          <6> QED BY <6>1, <6>2
        <5>2. g[I] = SplitStep[<<g[I \ {Max(I)}], s[Max(I)]>>]
          BY <2>1, <4>1 DEF IsFold
        <5>3. g[I \ {Max(I)}] \in SplitStates /\ s[Max(I)] \in Tokens
          BY <2>1, <5>1
        <5> DEFINE x == g[I \ {Max(I)}] t == s[Max(I)]
        <5>4. SplitStep[<<x, t>>] = SplitToken(x, t)
          <6> HIDE DEF x, t
          <6>1. x \in SplitStates /\ t \in Tokens
            BY <5>3 DEF x, t
          <6> QED BY <6>1 DEF SplitStep
        <5> QED BY <4>1, <5>2, <5>4
      <4>2. CASE I = {}
        BY <2>1, <4>2 DEF IsFold
      <4> QED BY <4>1, <4>2
    <3> QED BY <2>1, <3>1
  <2>3. IsIter(iter)
    <3> HIDE DEF IsIter
    <3> QED BY <2>2
  <2>4. F[s] = iter[1..Len(s)]
    <3>1. DOMAIN s = 1..Len(s)
      OBVIOUS
    <3>2. FoldLeft(SplitToken, EmptySplit, s) = iter[1..Len(s)]
      BY <3>1, Zenon DEF FoldLeft, MapThenFoldSet
    <3> QED BY <3>2
  <2>5. iter[{}] = EmptySplit
    BY <2>3
  <2>6. ASSUME NEW k \in 1..Len(s), iter[1..(k - 1)] \in SplitStates
        PROVE  iter[1..k] = SplitStep[<<iter[1..(k - 1)], s[k]>>]
    <3>1. 1..k \in D /\ 1..k # {} /\ Max(1..k) = k /\ (1..k) \ {k} = 1..(k - 1)
      <4>1. Len(s) \in Nat
        OBVIOUS
      <4> QED BY <4>1, FirstPlaces
    <3> DEFINE x == iter[1..(k - 1)] t == s[k]
    <3>2. iter[1..k] = SplitToken(x, t)
      <4> HIDE DEF iter
      <4> QED BY <2>3, <3>1
    <3>3. x \in SplitStates /\ t \in Tokens
      BY <2>6
    <3>4. SplitStep[<<x, t>>] = SplitToken(x, t)
      <4> HIDE DEF x, t
      <4> QED BY <3>3 DEF SplitStep
    <3> QED BY <3>2, <3>4
  <2> HIDE DEF iter, F, D, IsIter
  <2>8. Iterates(iter, SplitStates, EmptySplit, SplitStep, s)
    BY <2>5, <2>6 DEF Iterates
  <2>7. EndsIn(iter[1..Len(s)], SplitStates, EmptySplit, SplitStep, s)
    BY <1>1, <2>8, IterTraces
  <2> QED BY <2>4, <2>7
<1>3. F = [s \in Seq(Tokens) |-> F[s]]
  OBVIOUS
<1> HIDE DEF F
<1>4. Folds(F, SplitStates, Tokens, EmptySplit, SplitStep)
  BY <1>1, <1>2, <1>3, TracedFolds
<1> QED BY <1>4 DEF F

\* So does the look for open tags.
LEMMA TrackFolds ==
  Folds([s \in Seq(Tokens) |-> Tracked(s)], TrackStates, Tokens, Untracked, TrackStep)
<1> DEFINE F == [s \in Seq(Tokens) |-> Tracked(s)]
<1>1. TrackStep \in [TrackStates \X Tokens -> TrackStates] /\ Untracked \in TrackStates
  BY TrackStepType
<1>2. ASSUME NEW s \in Seq(Tokens) PROVE EndsIn(F[s], TrackStates, Untracked, TrackStep, s)
  <2> DEFINE D == SUBSET (1..Len(s))
             IsIter(f) == f = [I \in D |-> IF I = {} THEN Untracked
                                           ELSE Track(f[I \ {Max(I)}], s[Max(I)])]
             iter == CHOOSE f : IsIter(f)
  <2>1. PICK g \in [D -> TrackStates] : IsFold(g, Untracked, TrackStep, s)
    BY <1>1, FoldExists
  <2>2. IsIter(g)
    <3>1. ASSUME NEW I \in D
          PROVE  g[I] = IF I = {} THEN Untracked ELSE Track(g[I \ {Max(I)}], s[Max(I)])
      <4>1. CASE I # {}
        <5>1. Max(I) \in 1..Len(s) /\ I \ {Max(I)} \in D
          <6>1. Len(s) \in Nat /\ I \subseteq 1..Len(s)
            OBVIOUS
          <6>2. Max(I) \in I
            BY <4>1, <6>1, Greatest
          <6> QED BY <6>1, <6>2
        <5>2. g[I] = TrackStep[<<g[I \ {Max(I)}], s[Max(I)]>>]
          BY <2>1, <4>1 DEF IsFold
        <5>3. g[I \ {Max(I)}] \in TrackStates /\ s[Max(I)] \in Tokens
          BY <2>1, <5>1
        <5> DEFINE x == g[I \ {Max(I)}] t == s[Max(I)]
        <5>4. TrackStep[<<x, t>>] = Track(x, t)
          <6> HIDE DEF x, t
          <6>1. x \in TrackStates /\ t \in Tokens
            BY <5>3 DEF x, t
          <6> QED BY <6>1 DEF TrackStep
        <5> QED BY <4>1, <5>2, <5>4
      <4>2. CASE I = {}
        BY <2>1, <4>2 DEF IsFold
      <4> QED BY <4>1, <4>2
    <3> QED BY <2>1, <3>1
  <2>3. IsIter(iter)
    <3> HIDE DEF IsIter
    <3> QED BY <2>2
  <2>4. F[s] = iter[1..Len(s)]
    <3>1. DOMAIN s = 1..Len(s)
      OBVIOUS
    <3>2. Tracked(s) = iter[1..Len(s)]
      BY <3>1, Zenon DEF Tracked, FoldLeft, MapThenFoldSet
    <3> QED BY <3>2
  <2>5. iter[{}] = Untracked
    BY <2>3
  <2>6. ASSUME NEW k \in 1..Len(s), iter[1..(k - 1)] \in TrackStates
        PROVE  iter[1..k] = TrackStep[<<iter[1..(k - 1)], s[k]>>]
    <3>1. 1..k \in D /\ 1..k # {} /\ Max(1..k) = k /\ (1..k) \ {k} = 1..(k - 1)
      <4>1. Len(s) \in Nat
        OBVIOUS
      <4> QED BY <4>1, FirstPlaces
    <3> DEFINE x == iter[1..(k - 1)] t == s[k]
    <3>2. iter[1..k] = Track(x, t)
      <4> HIDE DEF iter
      <4> QED BY <2>3, <3>1
    <3>3. x \in TrackStates /\ t \in Tokens
      BY <2>6
    <3>4. TrackStep[<<x, t>>] = Track(x, t)
      <4> HIDE DEF x, t
      <4> QED BY <3>3 DEF TrackStep
    <3> QED BY <3>2, <3>4
  <2> HIDE DEF iter, F, D, IsIter
  <2>8. Iterates(iter, TrackStates, Untracked, TrackStep, s)
    BY <2>5, <2>6 DEF Iterates
  <2>7. EndsIn(iter[1..Len(s)], TrackStates, Untracked, TrackStep, s)
    BY <1>1, <2>8, IterTraces
  <2> QED BY <2>4, <2>7
<1>3. F = [s \in Seq(Tokens) |-> F[s]]
  OBVIOUS
<1> HIDE DEF F
<1>4. Folds(F, TrackStates, Tokens, Untracked, TrackStep)
  BY <1>1, <1>2, <1>3, TracedFolds
<1> QED BY <1>4 DEF F

\* So does the look for the widest tags.
LEMMA FitFolds ==
  Folds([s \in Seq(Tokens) |-> Fitted(s)], FitStates, Tokens, Unfit, FitStep)
<1> DEFINE F == [s \in Seq(Tokens) |-> Fitted(s)]
<1>1. FitStep \in [FitStates \X Tokens -> FitStates] /\ Unfit \in FitStates
  BY FitStepType
<1>2. ASSUME NEW s \in Seq(Tokens) PROVE EndsIn(F[s], FitStates, Unfit, FitStep, s)
  <2> DEFINE D == SUBSET (1..Len(s))
             IsIter(f) == f = [I \in D |-> IF I = {} THEN Unfit
                                           ELSE Fit(f[I \ {Max(I)}], s[Max(I)])]
             iter == CHOOSE f : IsIter(f)
  <2>1. PICK g \in [D -> FitStates] : IsFold(g, Unfit, FitStep, s)
    BY <1>1, FoldExists
  <2>2. IsIter(g)
    <3>1. ASSUME NEW I \in D
          PROVE  g[I] = IF I = {} THEN Unfit ELSE Fit(g[I \ {Max(I)}], s[Max(I)])
      <4>1. CASE I # {}
        <5>1. Max(I) \in 1..Len(s) /\ I \ {Max(I)} \in D
          <6>1. Len(s) \in Nat /\ I \subseteq 1..Len(s)
            OBVIOUS
          <6>2. Max(I) \in I
            BY <4>1, <6>1, Greatest
          <6> QED BY <6>1, <6>2
        <5>2. g[I] = FitStep[<<g[I \ {Max(I)}], s[Max(I)]>>]
          BY <2>1, <4>1 DEF IsFold
        <5>3. g[I \ {Max(I)}] \in FitStates /\ s[Max(I)] \in Tokens
          BY <2>1, <5>1
        <5> DEFINE x == g[I \ {Max(I)}] t == s[Max(I)]
        <5>4. FitStep[<<x, t>>] = Fit(x, t)
          <6> HIDE DEF x, t
          <6>1. x \in FitStates /\ t \in Tokens
            BY <5>3 DEF x, t
          <6> QED BY <6>1 DEF FitStep
        <5> QED BY <4>1, <5>2, <5>4
      <4>2. CASE I = {}
        BY <2>1, <4>2 DEF IsFold
      <4> QED BY <4>1, <4>2
    <3> QED BY <2>1, <3>1
  <2>3. IsIter(iter)
    <3> HIDE DEF IsIter
    <3> QED BY <2>2
  <2>4. F[s] = iter[1..Len(s)]
    <3>1. DOMAIN s = 1..Len(s)
      OBVIOUS
    <3>2. Fitted(s) = iter[1..Len(s)]
      BY <3>1, Zenon DEF Fitted, FoldLeft, MapThenFoldSet
    <3> QED BY <3>2
  <2>5. iter[{}] = Unfit
    BY <2>3
  <2>6. ASSUME NEW k \in 1..Len(s), iter[1..(k - 1)] \in FitStates
        PROVE  iter[1..k] = FitStep[<<iter[1..(k - 1)], s[k]>>]
    <3>1. 1..k \in D /\ 1..k # {} /\ Max(1..k) = k /\ (1..k) \ {k} = 1..(k - 1)
      <4>1. Len(s) \in Nat
        OBVIOUS
      <4> QED BY <4>1, FirstPlaces
    <3> DEFINE x == iter[1..(k - 1)] t == s[k]
    <3>2. iter[1..k] = Fit(x, t)
      <4> HIDE DEF iter
      <4> QED BY <2>3, <3>1
    <3>3. x \in FitStates /\ t \in Tokens
      BY <2>6
    <3>4. FitStep[<<x, t>>] = Fit(x, t)
      <4> HIDE DEF x, t
      <4> QED BY <3>3 DEF FitStep
    <3> QED BY <3>2, <3>4
  <2> HIDE DEF iter, F, D, IsIter
  <2>8. Iterates(iter, FitStates, Unfit, FitStep, s)
    BY <2>5, <2>6 DEF Iterates
  <2>7. EndsIn(iter[1..Len(s)], FitStates, Unfit, FitStep, s)
    BY <1>1, <2>8, IterTraces
  <2> QED BY <2>4, <2>7
<1>3. F = [s \in Seq(Tokens) |-> F[s]]
  OBVIOUS
<1> HIDE DEF F
<1>4. Folds(F, FitStates, Tokens, Unfit, FitStep)
  BY <1>1, <1>2, <1>3, TracedFolds
<1> QED BY <1>4 DEF F

\* Where split_block is after s.
SplitOf(s) == FoldLeft(SplitToken, EmptySplit, s)

\* WellFormed reads one token after the other.
LEMMA TrackSteps ==
  /\ Tracked(<<>>) = Untracked
  /\ \A s \in Seq(Tokens) : Tracked(s) \in TrackStates
  /\ \A s \in Seq(Tokens) : \A t \in Tokens : Tracked(Append(s, t)) = Track(Tracked(s), t)
<1> DEFINE G == [s \in Seq(Tokens) |-> Tracked(s)]
<1>1. Folds(G, TrackStates, Tokens, Untracked, TrackStep)
  BY TrackFolds
<1>2. <<>> \in Seq(Tokens) /\ \A s \in Seq(Tokens) : G[s] = Tracked(s)
  OBVIOUS
<1> HIDE DEF G
<1>3. Tracked(<<>>) = Untracked /\ \A s \in Seq(Tokens) : Tracked(s) \in TrackStates
  BY <1>1, <1>2 DEF Folds
<1>4. ASSUME NEW s \in Seq(Tokens), NEW t \in Tokens PROVE Tracked(Append(s, t)) = Track(Tracked(s), t)
  <2>1. Append(s, t) \in Seq(Tokens)
    OBVIOUS
  <2>2. G[Append(s, t)] = TrackStep[<<G[s], t>>]
    BY <1>1 DEF Folds
  <2> QED BY <1>2, <1>3, <2>1, <2>2 DEF TrackStep
<1> QED BY <1>3, <1>4

\* So does TagsFit.
LEMMA FitSteps ==
  /\ Fitted(<<>>) = Unfit
  /\ \A s \in Seq(Tokens) : Fitted(s) \in FitStates
  /\ \A s \in Seq(Tokens) : \A t \in Tokens : Fitted(Append(s, t)) = Fit(Fitted(s), t)
<1> DEFINE G == [s \in Seq(Tokens) |-> Fitted(s)]
<1>1. Folds(G, FitStates, Tokens, Unfit, FitStep)
  BY FitFolds
<1>2. <<>> \in Seq(Tokens) /\ \A s \in Seq(Tokens) : G[s] = Fitted(s)
  OBVIOUS
<1> HIDE DEF G
<1>3. Fitted(<<>>) = Unfit /\ \A s \in Seq(Tokens) : Fitted(s) \in FitStates
  BY <1>1, <1>2 DEF Folds
<1>4. ASSUME NEW s \in Seq(Tokens), NEW t \in Tokens PROVE Fitted(Append(s, t)) = Fit(Fitted(s), t)
  <2>1. Append(s, t) \in Seq(Tokens)
    OBVIOUS
  <2>2. G[Append(s, t)] = FitStep[<<G[s], t>>]
    BY <1>1 DEF Folds
  <2> QED BY <1>2, <1>3, <2>1, <2>2 DEF FitStep
<1> QED BY <1>3, <1>4

\* So does split_block.
LEMMA SplitSteps ==
  /\ SplitOf(<<>>) = EmptySplit
  /\ \A s \in Seq(Tokens) : SplitOf(s) \in SplitStates
  /\ \A s \in Seq(Tokens) : \A t \in Tokens : SplitOf(Append(s, t)) = SplitToken(SplitOf(s), t)
<1> DEFINE G == [s \in Seq(Tokens) |-> SplitOf(s)]
<1>1. Folds(G, SplitStates, Tokens, EmptySplit, SplitStep)
  BY SplitFolds DEF SplitOf
<1>2. <<>> \in Seq(Tokens) /\ \A s \in Seq(Tokens) : G[s] = SplitOf(s)
  OBVIOUS
<1> HIDE DEF G
<1>3. SplitOf(<<>>) = EmptySplit /\ \A s \in Seq(Tokens) : SplitOf(s) \in SplitStates
  BY <1>1, <1>2 DEF Folds
<1>4. ASSUME NEW s \in Seq(Tokens), NEW t \in Tokens PROVE SplitOf(Append(s, t)) = SplitToken(SplitOf(s), t)
  <2>1. Append(s, t) \in Seq(Tokens)
    OBVIOUS
  <2>2. G[Append(s, t)] = SplitStep[<<G[s], t>>]
    BY <1>1 DEF Folds
  <2> QED BY <1>2, <1>3, <2>1, <2>2 DEF SplitStep
<1> QED BY <1>3, <1>4

-----------------------------------------------------------------------------
(* Markdown: texts that are well-formed.                                   *)

\* Tags open, in order, and nothing closed that is not open.
IsOpen(s, names) == Tracked(s) = [open |-> names, ok |-> TRUE]

\* A text that could be read has names of tags open.
LEMMA TrackFields ==
  ASSUME NEW s \in Seq(Tokens), Tracked(s).ok
  PROVE  Tracked(s).open \in Seq(Tags) /\ IsOpen(s, Tracked(s).open)
  BY TrackSteps DEF TrackStates, IsOpen

\* A well-formed text is one that leaves nothing open.
LEMMA WellFormedOpen ==
  ASSUME NEW s \in Seq(Tokens)
  PROVE  WellFormed(s) <=> IsOpen(s, <<>>)
<1>1. Tracked(s) \in TrackStates
  BY TrackSteps
<1>2. Tracked(s).ok /\ Tracked(s).open = <<>> <=> Tracked(s) = [open |-> <<>>, ok |-> TRUE]
  BY <1>1 DEF TrackStates
<1> QED BY <1>2, WellFormedTracked DEF IsOpen

\* One token more.
LEMMA OpenAppend ==
  ASSUME NEW s \in Seq(Tokens), NEW t \in Tokens, NEW names \in Seq(Tags), IsOpen(s, names)
  PROVE  /\ t[1] = "open" => IsOpen(Append(s, t), Append(names, t[2]))
         /\ t[1] = "atom" => IsOpen(Append(s, t), names)
         /\ t[1] = "close" /\ names # <<>> /\ Last(names) = t[2] => IsOpen(Append(s, t), Front(names))
         /\ Tracked(Append(s, t)).ok /\ t[1] = "close" => names # <<>> /\ Last(names) = t[2]
<1> DEFINE x == [open |-> names, ok |-> TRUE]
<1>1. Tracked(Append(s, t)) = Track(x, t)
  BY TrackSteps DEF IsOpen
<1> QED BY <1>1 DEF Track, IsOpen

\* Whatever was right up to a token was right before it.
LEMMA OkBefore ==
  ASSUME NEW s \in Seq(Tokens), NEW t \in Tokens, Tracked(Append(s, t)).ok
  PROVE  Tracked(s).ok
<1>1. Tracked(s) \in TrackStates /\ Tracked(Append(s, t)) = Track(Tracked(s), t)
  BY TrackSteps
<1> QED BY <1>1 DEF Track, TrackStates

\* The last member of a sequence that is not empty is last behind any other.
LEMMA ConcatLast ==
  ASSUME NEW S, NEW s \in Seq(S), NEW u \in Seq(S), u # <<>>
  PROVE  s \o u # <<>> /\ Last(s \o u) = Last(u) /\ Front(s \o u) = s \o Front(u)
<1>1. PICK v \in Seq(S), e \in S : u = Append(v, e)
  BY SequenceEmptyOrAppend
<1>2. s \o u = Append(s \o v, e) /\ s \o v \in Seq(S)
  BY <1>1
<1>3. Front(u) = v /\ Last(u) = e
  BY <1>1, FrontAppend
<1>4. Front(Append(s \o v, e)) = s \o v /\ Last(Append(s \o v, e)) = e
  BY <1>2, FrontAppend
<1>5. Append(s \o v, e) # <<>>
  BY <1>2
<1> QED BY <1>2, <1>3, <1>4, <1>5

\* A member more at the end of the second of two.
LEMMA AppendConcat ==
  ASSUME NEW S, NEW s \in Seq(S), NEW u \in Seq(S), NEW e \in S
  PROVE  s \o Append(u, e) = Append(s \o u, e)
  OBVIOUS

\* What is open after two parts.
LEMMA OpenConcat ==
  ASSUME NEW s \in Seq(Tokens), NEW names \in Seq(Tags), IsOpen(s, names)
  PROVE  \A v \in Seq(Tokens) : Tracked(v).ok => IsOpen(s \o v, names \o Tracked(v).open)
<1> DEFINE P == {v \in Seq(Tokens) : Tracked(v).ok => IsOpen(s \o v, names \o Tracked(v).open)}
<1>1. <<>> \in P
  <2>1. s \o <<>> = s /\ names \o <<>> = names
    BY ConcatEmptySeq
  <2>2. Tracked(<<>>).open = <<>>
    BY TrackSteps DEF Untracked
  <2>3. IsOpen(s \o <<>>, names \o Tracked(<<>>).open)
    BY <2>1, <2>2
  <2> QED BY <2>3
<1>2. ASSUME NEW v \in Seq(Tokens), NEW t \in Tokens, v \in P PROVE Append(v, t) \in P
  <2> DEFINE u == Append(v, t)
  <2>1. u \in Seq(Tokens) /\ s \o u = Append(s \o v, t) /\ s \o v \in Seq(Tokens)
    OBVIOUS
  <2> SUFFICES ASSUME Tracked(u).ok PROVE IsOpen(s \o u, names \o Tracked(u).open)
    BY <2>1
  <2>2. Tracked(v).ok
    BY OkBefore
  <2> DEFINE o == Tracked(v).open
  <2>3. o \in Seq(Tags) /\ IsOpen(v, o)
    BY <2>2, TrackFields
  <2>4. IsOpen(s \o v, names \o o) /\ names \o o \in Seq(Tags)
    BY <1>2, <2>2, <2>3, ConcatProperties
  <2> HIDE DEF o, P
  <2>5. CASE t[1] = "open"
    <3>1. IsOpen(u, Append(o, t[2])) /\ t[2] \in Tags
      BY <2>3, <2>5, OpenAppend, TokenKinds
    <3>2. IsOpen(Append(s \o v, t), Append(names \o o, t[2]))
      BY <2>1, <2>4, <2>5, OpenAppend
    <3>3. Append(names \o o, t[2]) = names \o Append(o, t[2])
      <4> DEFINE e == t[2]
      <4>1. e \in Tags /\ o \in Seq(Tags) /\ names \in Seq(Tags)
        BY <2>3, <3>1
      <4> HIDE DEF e
      <4>2. names \o Append(o, e) = Append(names \o o, e)
        BY ONLY <4>1, AppendConcat
      <4> QED BY <4>2 DEF e
    <3> QED BY <2>1, <3>1, <3>2, <3>3 DEF IsOpen
  <2>6. CASE t[1] = "atom"
    <3>1. IsOpen(u, o)
      BY <2>3, <2>6, OpenAppend
    <3>2. IsOpen(Append(s \o v, t), names \o o)
      BY <2>1, <2>4, <2>6, OpenAppend
    <3> QED BY <2>1, <3>1, <3>2 DEF IsOpen
  <2>7. CASE t[1] = "close"
    <3>1. o # <<>> /\ Last(o) = t[2]
      BY <2>3, <2>7, OpenAppend
    <3>2. IsOpen(u, Front(o))
      BY <2>3, <2>7, <3>1, OpenAppend
    <3>3. names \o o # <<>> /\ Last(names \o o) = t[2] /\ Front(names \o o) = names \o Front(o)
      BY <2>3, <3>1, ConcatLast
    <3>4. IsOpen(Append(s \o v, t), names \o Front(o))
      BY <2>1, <2>4, <2>7, <3>3, OpenAppend
    <3> QED BY <2>1, <3>2, <3>4 DEF IsOpen
  <2> QED BY <2>5, <2>6, <2>7, TokenKinds
<1> HIDE DEF P
<1>3. \A v \in Seq(Tokens) : v \in P
  BY <1>1, <1>2, SeqSet
<1> QED BY <1>3 DEF P

\* What Telegram accepts.
Good == {s \in Seq(Tokens) : WellFormed(s)}

\* Two such texts make one.
LEMMA GoodConcat ==
  ASSUME NEW s \in Good, NEW u \in Good
  PROVE  s \o u \in Good
<1>1. /\ s \in Seq(Tokens) /\ IsOpen(s, <<>>) /\ u \in Seq(Tokens) /\ IsOpen(u, <<>>) /\ s \o u \in Seq(Tokens)
  BY WellFormedOpen, ConcatProperties DEF Good
<1>2. Tracked(u).ok /\ Tracked(u).open = <<>> /\ <<>> \in Seq(Tags) /\ <<>> \o <<>> = <<>>
  BY <1>1 DEF IsOpen
<1>3. IsOpen(s \o u, <<>>)
  BY <1>1, <1>2, OpenConcat
<1> QED BY <1>1, <1>3, WellFormedOpen DEF Good

\* Nothing is such a text.
LEMMA GoodEmpty == <<>> \in Good
<1>1. IsOpen(<<>>, <<>>) /\ <<>> \in Seq(Tokens)
  BY TrackSteps DEF IsOpen, Untracked
<1> QED BY <1>1, WellFormedOpen DEF Good

\* So is text without tags.
LEMMA GoodAtoms ==
  ASSUME NEW s \in Seq(Atoms)
  PROVE  s \in Good
<1> DEFINE P == {v \in Seq(Atoms) : v \in Good}
<1>1. <<>> \in P
  BY GoodEmpty
<1>2. ASSUME NEW v \in Seq(Atoms), NEW t \in Atoms, v \in P PROVE Append(v, t) \in P
  <2>1. v \in Seq(Tokens) /\ t \in Tokens /\ t[1] = "atom" /\ Append(v, t) \in Seq(Tokens)
    BY TagsAreTokens DEF Atoms
  <2>2. IsOpen(v, <<>>) /\ <<>> \in Seq(Tags)
    BY <1>2, <2>1, WellFormedOpen DEF Good
  <2>3. IsOpen(Append(v, t), <<>>)
    BY <2>1, <2>2, OpenAppend
  <2>4. Append(v, t) \in Good
    BY <2>1, <2>3, WellFormedOpen DEF Good
  <2>5. Append(v, t) \in Seq(Atoms)
    OBVIOUS
  <2> QED BY <2>4, <2>5
<1> HIDE DEF P
<1>3. \A v \in Seq(Atoms) : v \in P
  BY <1>1, <1>2, SeqSet
<1> QED BY <1>3 DEF P

\* So is what Escape makes.
LEMMA GoodEscape ==
  ASSUME NEW s \in Seq(Chars)
  PROVE  Escape(s) \in Good
<1>1. Escape(s) \in Seq(Atoms)
  BY DEF Escape, Atom, Atoms
<1> QED BY <1>1, GoodAtoms

\* So is such a text with a tag around it.
LEMMA GoodWrap ==
  ASSUME NEW tag \in Tags, NEW s \in Good
  PROVE  Wrap(tag, s) \in Good
<1> DEFINE a == <<Open(tag)>> c == Close(tag)
<1>1. Open(tag) \in Tokens /\ Open(tag)[1] = "open" /\ Open(tag)[2] = tag
  BY DEF Open, Tokens, OpenTags
<1>2. c \in Tokens /\ c[1] = "close" /\ c[2] = tag
  BY DEF Close, Tokens, CloseTags
<1>3. a = Append(<<>>, Open(tag)) /\ a \in Seq(Tokens) /\ <<>> \in Seq(Tokens) /\ <<>> \in Seq(Tags)
  BY <1>1
<1>4. IsOpen(<<>>, <<>>)
  BY TrackSteps DEF IsOpen, Untracked
<1>5. IsOpen(a, <<tag>>)
  <2>1. IsOpen(Append(<<>>, Open(tag)), Append(<<>>, tag))
    BY <1>1, <1>3, <1>4, OpenAppend
  <2>2. Append(<<>>, tag) = <<tag>>
    OBVIOUS
  <2> QED BY <1>3, <2>1, <2>2
<1>6. s \in Seq(Tokens) /\ Tracked(s).ok /\ Tracked(s).open = <<>>
  BY WellFormedTracked DEF Good
<1>7. <<tag>> \in Seq(Tags) /\ <<tag>> \o <<>> = <<tag>> /\ <<tag>> # <<>>
  OBVIOUS
<1> HIDE DEF a, c
<1>8. IsOpen(a \o s, <<tag>>)
  BY <1>3, <1>5, <1>6, <1>7, OpenConcat
<1>9. a \o s \in Seq(Tokens)
  BY <1>3, <1>6, ConcatProperties
<1>10. Last(<<tag>>) = tag /\ Front(<<tag>>) = <<>>
  <2> DEFINE none == <<>>
  <2>1. <<tag>> = Append(none, tag) /\ none \in Seq(Tags)
    OBVIOUS
  <2> HIDE DEF none
  <2>2. tag \in Tags
    OBVIOUS
  <2>3. Last(Append(none, tag)) = tag /\ Front(Append(none, tag)) = none
    BY <2>1, <2>2, FrontAppend
  <2> QED BY <2>1, <2>3 DEF none
<1>11. IsOpen(Append(a \o s, c), <<>>)
  BY <1>2, <1>7, <1>8, <1>9, <1>10, OpenAppend
<1>12. Wrap(tag, s) = (a \o s) \o <<c>>
  BY DEF Wrap, a, c
<1>13. (a \o s) \o <<c>> = Append(a \o s, c)
  BY <1>2, <1>9, AppendIsConcat
<1>14. Append(a \o s, c) \in Seq(Tokens)
  BY <1>2, <1>9
<1> QED BY <1>11, <1>12, <1>13, <1>14, WellFormedOpen DEF Good

\* The names of tags.
Named(open) == [k \in 1..Len(open) |-> open[k][2]]

\* One tag more has one name more.
LEMMA NamedAppend ==
  ASSUME NEW open \in Seq(OpenTags), NEW t \in OpenTags
  PROVE  /\ Named(open) \in Seq(Tags)
         /\ Named(Append(open, t)) = Append(Named(open), t[2])
         /\ Named(<<>>) = <<>>
<1> DEFINE u == Append(open, t) a == Named(u) b == Append(Named(open), t[2])
<1>0. \A p \in OpenTags : p[2] \in Tags
  BY DEF OpenTags
<1>1. /\ u \in Seq(OpenTags) /\ Len(u) = Len(open) + 1 /\ Len(open) \in Nat
      /\ u[Len(open) + 1] = t /\ \A k \in 1..Len(open) : u[k] = open[k]
  OBVIOUS
<1>2. Named(open) \in Seq(Tags) /\ Len(Named(open)) = Len(open)
  BY <1>0 DEF Named
<1> HIDE DEF u
<1>3. a \in Seq(Tags) /\ Len(a) = Len(u)
  BY <1>0, <1>1 DEF Named
<1>4. /\ b \in Seq(Tags) /\ Len(b) = Len(open) + 1 /\ b[Len(open) + 1] = t[2]
      /\ \A k \in 1..Len(open) : b[k] = open[k][2]
  BY <1>0, <1>2 DEF Named
<1>5. \A k \in 1..Len(u) : a[k] = b[k]
  <2> SUFFICES ASSUME NEW k \in 1..Len(u) PROVE a[k] = b[k]
    OBVIOUS
  <2>1. a[k] = u[k][2]
    BY DEF Named
  <2>2. k \in 1..Len(open) \/ k = Len(open) + 1
    BY <1>1
  <2> HIDE DEF a, b
  <2> QED BY <1>1, <1>4, <2>1, <2>2
<1> HIDE DEF a, b
<1>6. a = b
  BY <1>1, <1>3, <1>4, <1>5, SeqEqual
<1>7. Named(<<>>) = <<>>
  BY DEF Named
<1> QED BY <1>2, <1>6, <1>7 DEF a, b, u

\* Open tags by themselves are open.
LEMMA OpenTagsOpen ==
  ASSUME NEW open \in Seq(OpenTags)
  PROVE  IsOpen(open, Named(open))
<1> DEFINE P == {o \in Seq(OpenTags) : IsOpen(o, Named(o))}
<1>1. <<>> \in P
  <2>1. Named(<<>>) = <<>>
    BY DEF Named
  <2> QED BY <2>1, TrackSteps DEF IsOpen, Untracked
<1>2. ASSUME NEW o \in Seq(OpenTags), NEW t \in OpenTags, o \in P PROVE Append(o, t) \in P
  <2>1. o \in Seq(Tokens) /\ t \in Tokens /\ t[1] = "open"
    BY TagsAreTokens DEF OpenTags
  <2>2. Named(o) \in Seq(Tags) /\ Named(Append(o, t)) = Append(Named(o), t[2])
    BY NamedAppend
  <2>3. IsOpen(o, Named(o))
    BY <1>2
  <2>4. IsOpen(Append(o, t), Append(Named(o), t[2]))
    BY <2>1, <2>2, <2>3, OpenAppend
  <2>5. IsOpen(Append(o, t), Named(Append(o, t)))
    BY <2>2, <2>4
  <2>6. Append(o, t) \in Seq(OpenTags)
    OBVIOUS
  <2> QED BY <2>5, <2>6
<1> HIDE DEF P
<1>3. \A o \in Seq(OpenTags) : o \in P
  BY <1>1, <1>2, SeqSet
<1> QED BY <1>3 DEF P

\* The closing tags close what is open.
LEMMA ClosersClose ==
  ASSUME NEW open \in Seq(OpenTags)
  PROVE  \A s \in Seq(Tokens) : IsOpen(s, Named(open)) => s \o Closers(open) \in Good
<1> DEFINE P == {o \in Seq(OpenTags) : \A s \in Seq(Tokens) : IsOpen(s, Named(o)) => s \o Closers(o) \in Good}
<1>1. <<>> \in P
  <2> SUFFICES ASSUME NEW s \in Seq(Tokens), IsOpen(s, Named(<<>>)) PROVE s \o Closers(<<>>) \in Good
    OBVIOUS
  <2>1. Named(<<>>) = <<>> /\ Closers(<<>>) = <<>>
    BY ClosersEmpty DEF Named
  <2>2. s \o <<>> = s
    BY ConcatEmptySeq
  <2> QED BY <2>1, <2>2, WellFormedOpen DEF Good
<1>2. ASSUME NEW o \in Seq(OpenTags), NEW t \in OpenTags, o \in P PROVE Append(o, t) \in P
  <2> SUFFICES ASSUME NEW s \in Seq(Tokens), IsOpen(s, Named(Append(o, t)))
               PROVE  s \o Closers(Append(o, t)) \in Good
    OBVIOUS
  <2> DEFINE c == Close(t[2])
  <2>1. c \in Tokens /\ c \in CloseTags /\ c[1] = "close" /\ c[2] = t[2] /\ t[2] \in Tags
    BY DEF Close, Tokens, OpenTags, CloseTags
  <2>2. Named(o) \in Seq(Tags) /\ Named(Append(o, t)) = Append(Named(o), t[2])
    BY NamedAppend
  <2>3. Closers(Append(o, t)) = <<c>> \o Closers(o)
    BY ClosersAppend
  <2>4. Closers(o) \in Seq(Tokens)
    BY ClosersType, TagsAreTokens
  <2> HIDE DEF c
  <2>5. <<c>> \in Seq(Tokens) /\ Append(s, c) \in Seq(Tokens) /\ Append(s, c) = s \o <<c>>
    BY <2>1, AppendIsConcat
  <2>6. s \o (<<c>> \o Closers(o)) = (s \o <<c>>) \o Closers(o)
    BY <2>4, <2>5, ConcatAssociative
  <2>7. /\ Append(Named(o), t[2]) \in Seq(Tags) /\ Append(Named(o), t[2]) # <<>>
        /\ Last(Append(Named(o), t[2])) = t[2] /\ Front(Append(Named(o), t[2])) = Named(o)
    BY <2>1, <2>2, FrontAppend
  <2>8. IsOpen(Append(s, c), Named(o))
    <3> DEFINE names == Append(Named(o), t[2])
    <3>1. IsOpen(s, names) /\ names \in Seq(Tags) /\ s \in Seq(Tokens)
      BY <2>2, <2>7
    <3>2. names # <<>> /\ Last(names) = c[2] /\ Front(names) = Named(o)
      BY <2>1, <2>7
    <3> HIDE DEF names
    <3>3. IsOpen(Append(s, c), Front(names))
      BY <2>1, <3>1, <3>2, OpenAppend
    <3> QED BY <3>2, <3>3
  <2>9. Append(s, c) \o Closers(o) \in Good
    BY <1>2, <2>5, <2>8
  <2> QED BY <2>3, <2>5, <2>6, <2>9
<1> HIDE DEF P
<1>3. \A o \in Seq(OpenTags) : o \in P
  BY <1>1, <1>2, SeqSet
<1> QED BY <1>3 DEF P

-----------------------------------------------------------------------------
(* Markdown: the text of tokens.                                           *)

\* What strip_tags keeps of a token.
StripTag == [t \in Tokens |-> IF t[1] = "atom" THEN <<t[2]>> ELSE <<>>]

\* A sequence of one.
LEMMA OneOf ==
  ASSUME NEW S, NEW e \in S
  PROVE  <<e>> \in Seq(S)
  OBVIOUS

\* It keeps characters.
LEMMA StripTagType == StripTag \in [Tokens -> Seq(Chars)]
<1>1. ASSUME NEW t \in Tokens PROVE (IF t[1] = "atom" THEN <<t[2]>> ELSE <<>>) \in Seq(Chars)
  <2> DEFINE e == t[2]
  <2>1. t[1] = "atom" => e \in Chars
    BY TokenKinds
  <2> HIDE DEF e
  <2>2. e \in Chars => <<e>> \in Seq(Chars)
    BY OneOf
  <2>3. <<>> \in Seq(Chars)
    OBVIOUS
  <2>4. (IF t[1] = "atom" THEN <<e>> ELSE <<>>) \in Seq(Chars)
    BY <2>1, <2>2, <2>3, Zenon
  <2> QED BY <2>4 DEF e
<1> QED BY <1>1 DEF StripTag

\* strip_tags is that map.
LEMMA StripTagsMapped ==
  ASSUME NEW s \in Seq(Tokens)
  PROVE  StripTags(s) = Mapped(s, StripTag)
<1>1. \A k \in 1..Len(s) : s[k] \in Tokens
  OBVIOUS
<1>2. [k \in 1..Len(s) |-> StripTag[s[k]]]
        = [k \in 1..Len(s) |-> IF s[k][1] = "atom" THEN <<s[k][2]>> ELSE <<>>]
  BY <1>1 DEF StripTag
<1> QED BY <1>2 DEF StripTags, Mapped

\* It gives text.
LEMMA StripTagsType ==
  ASSUME NEW s \in Seq(Tokens)
  PROVE  StripTags(s) \in Seq(Chars)
  BY StripTagsMapped, StripTagType, MappedType

\* It takes tokens one by one.
LEMMA StripTagsConcat ==
  ASSUME NEW s \in Seq(Tokens), NEW u \in Seq(Tokens)
  PROVE  StripTags(s \o u) = StripTags(s) \o StripTags(u)
<1>1. s \o u \in Seq(Tokens)
  BY ConcatProperties
<1>2. Mapped(s \o u, StripTag) = Mapped(s, StripTag) \o Mapped(u, StripTag)
  BY StripTagType, MappedConcat
<1> QED BY <1>1, <1>2, StripTagsMapped

\* Tags are no text.
LEMMA StripTagsTags ==
  ASSUME NEW s \in Seq(OpenTags \cup CloseTags)
  PROVE  StripTags(s) = <<>>
<1>1. \A k \in 1..Len(s) : s[k][1] # "atom"
  <2> SUFFICES ASSUME NEW k \in 1..Len(s) PROVE s[k][1] # "atom"
    OBVIOUS
  <2> DEFINE t == s[k]
  <2>1. t \in OpenTags \cup CloseTags
    OBVIOUS
  <2> HIDE DEF t
  <2>2. t[1] # "atom"
    BY <2>1 DEF OpenTags, CloseTags
  <2> QED BY <2>2 DEF t
<1>2. [k \in 1..Len(s) |-> IF s[k][1] = "atom" THEN <<s[k][2]>> ELSE <<>>] = [k \in 1..Len(s) |-> <<>>]
  BY <1>1
<1>3. Len(s) \in Nat
  OBVIOUS
<1> QED BY <1>2, <1>3, FlattenNothing DEF StripTags

\* Tags put in between change nothing.
LEMMA StripTagsBetween ==
  ASSUME NEW s \in Seq(Tokens), NEW u \in Seq(OpenTags \cup CloseTags)
  PROVE  StripTags(s \o u) = StripTags(s)
<1>1. u \in Seq(Tokens)
  BY DEF Tokens
<1>2. StripTags(s \o u) = StripTags(s) \o <<>>
  <2>1. StripTags(s \o u) = StripTags(s) \o StripTags(u)
    BY <1>1, StripTagsConcat
  <2>2. StripTags(u) = <<>>
    BY StripTagsTags
  <2> QED BY <2>1, <2>2
<1>3. StripTags(s) \in Seq(Chars)
  BY StripTagsType
<1> QED BY <1>2, <1>3, ConcatEmptySeq

-----------------------------------------------------------------------------
(* Markdown: split_block, one token.                                       *)

\* The token, once there is room.
Added(y, t) ==
  [out |-> y.out, cur |-> Append(y.cur, t), open |-> FitOpen(y, t), progressed |-> TRUE]

\* split_block flushes when a token does not fit, and adds it in any case.
LEMMA SplitTokenAdds ==
  ASSUME NEW x, NEW t
  PROVE  SplitToken(x, t) = Added(IF Overflows(x, t) THEN Reopened(x) ELSE x, t)
  BY DEF SplitToken, Added, FitOpen

\* The chunks are well-formed, and the one that is filled has names open.
Sound(x, names) == x.out \in Seq(Good) /\ IsOpen(x.cur, names) /\ Named(x.open) = names

\* The tag that was opened last, and its name.
LEMMA NamedFront ==
  ASSUME NEW open \in Seq(OpenTags), open # <<>>
  PROVE  /\ Front(open) \in Seq(OpenTags) /\ Last(open) \in OpenTags
         /\ open = Append(Front(open), Last(open))
         /\ Named(open) # <<>> /\ Front(Named(open)) = Named(Front(open))
         /\ Last(Named(open)) = Last(open)[2]
<1>1. PICK o \in Seq(OpenTags), t \in OpenTags : open = Append(o, t)
  BY SequenceEmptyOrAppend
<1>2. Front(open) = o /\ Last(open) = t
  BY <1>1, FrontAppend
<1>3. Named(open) = Append(Named(o), t[2]) /\ Named(o) \in Seq(Tags) /\ t[2] \in Tags
  BY <1>1, NamedAppend DEF OpenTags
<1> DEFINE n == Named(o) e == t[2]
<1> HIDE DEF n, e
<1>4. Append(n, e) # <<>> /\ Front(Append(n, e)) = n /\ Last(Append(n, e)) = e
  BY <1>3, FrontAppend DEF n, e
<1> QED BY <1>1, <1>2, <1>3, <1>4 DEF n, e

\* A flush keeps that the chunks are well-formed: the open tags are closed in
\* the chunk that is full, and opened in the next.
LEMMA ReopenedSound ==
  ASSUME NEW x \in SplitStates, NEW names, Sound(x, names)
  PROVE  Sound(Reopened(x), names) /\ Reopened(x).open = x.open
<1>1. x.open \in Seq(OpenTags) /\ x.cur \in Seq(Tokens) /\ x.out \in Seq(Good)
  BY DEF SplitStates, Sound
<1>2. IsOpen(x.cur, Named(x.open))
  BY DEF Sound
<1>3. x.cur \o Closers(x.open) \in Good
  BY <1>1, <1>2, ClosersClose
<1>4. Flushed(x) \in Seq(Good)
  BY <1>1, <1>3 DEF Flushed
<1>5. IsOpen(x.open, Named(x.open))
  BY <1>1, OpenTagsOpen
<1>6. Reopened(x).out = Flushed(x) /\ Reopened(x).cur = x.open /\ Reopened(x).open = x.open
  BY DEF Reopened, SplitStates
<1> QED BY <1>4, <1>5, <1>6 DEF Sound

\* So does a token, if the text can be read to it.
LEMMA AddedSound ==
  ASSUME NEW v \in Seq(Tokens), NEW t \in Tokens, Tracked(Append(v, t)).ok,
         NEW y \in SplitStates, Sound(y, Tracked(v).open)
  PROVE  Sound(Added(y, t), Tracked(Append(v, t)).open)
<1> DEFINE names == Tracked(v).open
           u == Append(v, t)
           a == Added(y, t)
<1>1. Tracked(v).ok /\ names \in Seq(Tags) /\ IsOpen(v, names)
  BY OkBefore, TrackFields
<1>2. y.open \in Seq(OpenTags) /\ y.cur \in Seq(Tokens) /\ y.out \in Seq(Good)
  BY DEF SplitStates, Sound
<1>3. IsOpen(y.cur, names) /\ Named(y.open) = names
  BY DEF Sound
<1>4. a.out = y.out /\ a.cur = Append(y.cur, t) /\ a.open = FitOpen(y, t)
  BY DEF Added
<1>5. u \in Seq(Tokens) /\ Tracked(u).ok
  OBVIOUS
<1> HIDE DEF names, a, u
<1>6. CASE t[1] = "open"
  <2>1. Tracked(u).open = Append(names, t[2])
    BY <1>1, <1>6, OpenAppend DEF IsOpen, u
  <2>2. IsOpen(Append(y.cur, t), Append(names, t[2]))
    BY <1>1, <1>2, <1>3, <1>6, OpenAppend
  <2>3. a.open = Append(y.open, t) /\ t \in OpenTags
    BY <1>4, <1>6, TokenKinds DEF FitOpen
  <2>4. Named(Append(y.open, t)) = Append(names, t[2])
    BY <1>2, <1>3, <2>3, NamedAppend
  <2> QED BY <1>2, <1>4, <2>1, <2>2, <2>3, <2>4 DEF Sound, a, u
<1>7. CASE t[1] = "atom"
  <2>1. Tracked(u).open = names
    BY <1>1, <1>7, OpenAppend DEF IsOpen, u
  <2>2. IsOpen(Append(y.cur, t), names)
    BY <1>1, <1>2, <1>3, <1>7, OpenAppend
  <2>3. a.open = y.open
    BY <1>4, <1>7 DEF FitOpen
  <2> QED BY <1>2, <1>3, <1>4, <2>1, <2>2, <2>3 DEF Sound, a, u
<1>8. CASE t[1] = "close"
  <2>1. names # <<>> /\ Last(names) = t[2]
    BY <1>1, <1>5, <1>8, OpenAppend DEF u
  <2>2. Tracked(u).open = Front(names)
    BY <1>1, <1>8, <2>1, OpenAppend DEF IsOpen, u
  <2>3. IsOpen(Append(y.cur, t), Front(names))
    BY <1>1, <1>2, <1>3, <1>8, <2>1, OpenAppend
  <2>4. a.open = Front(y.open)
    BY <1>4, <1>8 DEF FitOpen
  <2>5. y.open # <<>>
    BY <1>3, <2>1, NamedAppend DEF Named
  <2>6. Named(Front(y.open)) = Front(names)
    BY <1>2, <1>3, <2>5, NamedFront
  <2> QED BY <1>2, <1>4, <2>2, <2>3, <2>4, <2>6 DEF Sound, a, u
<1> QED BY <1>6, <1>7, <1>8, TokenKinds

\* Splitting keeps the chunks sound.
LEMMA SplitSound ==
  \A v \in Seq(Tokens) : Tracked(v).ok => Sound(SplitOf(v), Tracked(v).open)
<1> DEFINE P == {v \in Seq(Tokens) : Tracked(v).ok => Sound(SplitOf(v), Tracked(v).open)}
<1>1. <<>> \in P
  <2>1. SplitOf(<<>>) = EmptySplit /\ Tracked(<<>>).open = <<>> /\ IsOpen(<<>>, <<>>)
    BY SplitSteps, TrackSteps DEF Untracked, IsOpen
  <2>2. Named(<<>>) = <<>> /\ <<>> \in Seq(Good)
    BY DEF Named
  <2>3. EmptySplit.out = <<>> /\ EmptySplit.cur = <<>> /\ EmptySplit.open = <<>>
    BY DEF EmptySplit
  <2>4. Sound(SplitOf(<<>>), Tracked(<<>>).open)
    BY <2>1, <2>2, <2>3 DEF Sound
  <2> QED BY <2>4
<1>2. ASSUME NEW v \in Seq(Tokens), NEW t \in Tokens, v \in P PROVE Append(v, t) \in P
  <2>0. Append(v, t) \in Seq(Tokens)
    OBVIOUS
  <2> SUFFICES ASSUME Tracked(Append(v, t)).ok
               PROVE  Sound(SplitOf(Append(v, t)), Tracked(Append(v, t)).open)
    BY <2>0
  <2>1. Sound(SplitOf(v), Tracked(v).open)
    BY <1>2, OkBefore
  <2> HIDE DEF P
  <2>2. SplitOf(v) \in SplitStates /\ SplitOf(Append(v, t)) = SplitToken(SplitOf(v), t)
    BY SplitSteps
  <2> DEFINE x == SplitOf(v)
             y == IF Overflows(x, t) THEN Reopened(x) ELSE x
  <2>3. y \in SplitStates /\ Sound(y, Tracked(v).open)
    BY <2>1, <2>2, ReopenedSound, FlushedType
  <2>4. SplitToken(x, t) = Added(y, t)
    BY SplitTokenAdds
  <2> HIDE DEF y
  <2>5. Sound(Added(y, t), Tracked(Append(v, t)).open)
    BY <2>3, AddedSound
  <2> QED BY <2>2, <2>4, <2>5
<1> HIDE DEF P
<1>3. \A v \in Seq(Tokens) : v \in P
  BY <1>1, <1>2, SeqSet
<1> QED BY <1>3 DEF P

\* What split_block has written so far.
Written(x) == FlattenSeq(x.out) \o x.cur

\* A flush adds no text: only tags.
LEMMA ReopenedText ==
  ASSUME NEW x \in SplitStates
  PROVE  StripTags(Written(Reopened(x))) = StripTags(Written(x))
<1>1. x.open \in Seq(OpenTags) /\ x.cur \in Seq(Tokens) /\ x.out \in Seq(Seq(Tokens))
  BY DEF SplitStates
<1> DEFINE c == Closers(x.open) o == x.open f == FlattenSeq(x.out) cur == x.cur
<1>2. c \in Seq(OpenTags \cup CloseTags) /\ c \in Seq(Tokens) /\ o \in Seq(OpenTags \cup CloseTags) /\ o \in Seq(Tokens)
  <2>1. c \in Seq(CloseTags)
    BY <1>1, ClosersType
  <2> HIDE DEF c, o
  <2>2. c \in Seq(OpenTags \cup CloseTags) /\ c \in Seq(Tokens)
    BY <2>1, TagsAreTokens
  <2>3. o \in Seq(OpenTags)
    BY <1>1 DEF o
  <2> QED BY <2>2, <2>3, TagsAreTokens
<1>3. f \in Seq(Tokens) /\ cur \in Seq(Tokens)
  BY <1>1, FlattenType
<1>4. Reopened(x).out = Append(x.out, cur \o c) /\ Reopened(x).cur = o
  BY DEF Reopened, Flushed, SplitStates
<1> HIDE DEF c, o, f, cur
<1>5. cur \o c \in Seq(Tokens) /\ f \o cur \in Seq(Tokens) /\ f \o (cur \o c) \in Seq(Tokens)
  BY <1>2, <1>3, ConcatProperties
<1>6. FlattenSeq(Append(x.out, cur \o c)) = f \o (cur \o c)
  BY <1>1, <1>5, FlattenAppend DEF f
<1>7. f \o (cur \o c) = (f \o cur) \o c
  BY ONLY <1>2, <1>3, ConcatAssociative, SMTT(30)
<1>8. Written(Reopened(x)) = ((f \o cur) \o c) \o o
  BY <1>4, <1>6, <1>7 DEF Written
<1>9. StripTags(((f \o cur) \o c) \o o) = StripTags((f \o cur) \o c)
  BY <1>2, <1>5, <1>7, StripTagsBetween
<1>10. StripTags((f \o cur) \o c) = StripTags(f \o cur)
  BY <1>2, <1>5, StripTagsBetween
<1> QED BY <1>8, <1>9, <1>10 DEF Written, f, cur

\* A token is added at the end.
LEMMA AddedText ==
  ASSUME NEW y \in SplitStates, NEW t \in Tokens
  PROVE  /\ Written(y) \in Seq(Tokens)
         /\ Written(Added(y, t)) = Append(Written(y), t)
<1>1. y.cur \in Seq(Tokens) /\ y.out \in Seq(Seq(Tokens))
  BY DEF SplitStates
<1> DEFINE f == FlattenSeq(y.out) cur == y.cur
<1>2. f \in Seq(Tokens) /\ cur \in Seq(Tokens)
  BY <1>1, FlattenType
<1>3. Added(y, t).out = y.out /\ Added(y, t).cur = Append(cur, t)
  BY DEF Added
<1> HIDE DEF f, cur
<1>4. f \o Append(cur, t) = Append(f \o cur, t) /\ f \o cur \in Seq(Tokens)
  BY <1>2, AppendConcat, ConcatProperties
<1> QED BY <1>3, <1>4 DEF Written, f, cur

\* The text of a token comes at the end.
LEMMA StripTagsAppend ==
  ASSUME NEW s \in Seq(Tokens), NEW t \in Tokens
  PROVE  StripTags(Append(s, t)) = StripTags(s) \o StripTag[t]
<1>1. Append(s, t) \in Seq(Tokens)
  OBVIOUS
<1>2. Mapped(Append(s, t), StripTag) = Mapped(s, StripTag) \o StripTag[t]
  BY StripTagType, MappedAppend
<1>3. StripTags(Append(s, t)) = Mapped(Append(s, t), StripTag) /\ StripTags(s) = Mapped(s, StripTag)
  BY <1>1, StripTagsMapped
<1> QED BY <1>2, <1>3

\* Splitting keeps the text.
LEMMA SplitText ==
  \A v \in Seq(Tokens) : StripTags(Written(SplitOf(v))) = StripTags(v)
<1> DEFINE P == {v \in Seq(Tokens) : StripTags(Written(SplitOf(v))) = StripTags(v)}
<1>1. <<>> \in P
  <2>1. SplitOf(<<>>) = EmptySplit /\ EmptySplit.out = <<>> /\ EmptySplit.cur = <<>>
    BY SplitSteps DEF EmptySplit
  <2>2. Written(SplitOf(<<>>)) = <<>>
    BY <2>1, FlattenEmpty DEF Written
  <2> QED BY <2>2
<1>2. ASSUME NEW v \in Seq(Tokens), NEW t \in Tokens, v \in P PROVE Append(v, t) \in P
  <2>0. Append(v, t) \in Seq(Tokens)
    OBVIOUS
  <2>1. StripTags(Written(SplitOf(v))) = StripTags(v)
    BY <1>2
  <2> SUFFICES StripTags(Written(SplitOf(Append(v, t)))) = StripTags(Append(v, t))
    BY <2>0
  <2> HIDE DEF P
  <2>2. SplitOf(v) \in SplitStates /\ SplitOf(Append(v, t)) = SplitToken(SplitOf(v), t)
    BY SplitSteps
  <2> DEFINE x == SplitOf(v)
             y == IF Overflows(x, t) THEN Reopened(x) ELSE x
  <2>3. y \in SplitStates /\ StripTags(Written(y)) = StripTags(Written(x))
    BY <2>2, ReopenedText, FlushedType
  <2>4. SplitToken(x, t) = Added(y, t)
    BY SplitTokenAdds
  <2> HIDE DEF y
  <2>5. Written(Added(y, t)) = Append(Written(y), t) /\ Written(y) \in Seq(Tokens)
    BY <2>3, AddedText
  <2>6. StripTags(Append(Written(y), t)) = StripTags(Written(y)) \o StripTag[t]
    BY <2>5, StripTagsAppend
  <2>7. StripTags(Append(v, t)) = StripTags(v) \o StripTag[t]
    BY StripTagsAppend
  <2> QED BY <2>1, <2>2, <2>3, <2>4, <2>5, <2>6, <2>7
<1> HIDE DEF P
<1>3. \A v \in Seq(Tokens) : v \in P
  BY <1>1, <1>2, SeqSet
<1> QED BY <1>3 DEF P

-----------------------------------------------------------------------------
(* Markdown: split_block and the limit.                                    *)

\* Every chunk is within the limit, the one that is filled with its closing tags.
Room(x) ==
  /\ \A k \in 1..Len(x.out) : WidthOf(x.out[k]) <= Limit
  /\ WidthOf(x.cur) + WidthOf(Closers(x.open)) <= Limit

\* A tag more needs the width of the tag that closes it.
LEMMA ClosersWidth ==
  ASSUME NEW open \in Seq(OpenTags), NEW t \in OpenTags
  PROVE  /\ WidthOf(Closers(open)) \in Nat
         /\ WidthOf(Closers(Append(open, t))) = CloseWidth[t[2]] + WidthOf(Closers(open))
         /\ CloseWidth[t[2]] \in Nat
<1>1. Closers(open) \in Seq(Tokens)
  BY ClosersType, TagsAreTokens
<1> DEFINE c == Close(t[2])
<1>2. c \in Tokens /\ c[1] = "close" /\ c[2] = t[2] /\ t[2] \in Tags
  BY DEF Close, Tokens, OpenTags, CloseTags
<1>3. Closers(Append(open, t)) = <<c>> \o Closers(open)
  BY ClosersAppend
<1> HIDE DEF c
<1>4. <<c>> \in Seq(Tokens)
  BY <1>2
<1>5. WidthOf(<<c>> \o Closers(open)) = WidthOf(<<c>>) + WidthOf(Closers(open))
  BY <1>1, <1>4, WidthConcat
<1>6. WidthOf(<<c>>) = CloseWidth[t[2]]
  BY <1>2, WidthOne, TokenWidths
<1> QED BY <1>1, <1>2, <1>3, <1>5, <1>6, WidthSteps, TagWidths

\* What a token leaves open, and how wide its closing tags are.
LEMMA ReopenedRoom ==
  ASSUME NEW x \in SplitStates, Room(x), FitWidth(x.open) <= Limit
  PROVE  Room(Reopened(x))
<1>1. x.open \in Seq(OpenTags) /\ x.cur \in Seq(Tokens) /\ x.out \in Seq(Seq(Tokens))
  BY DEF SplitStates
<1>2. Closers(x.open) \in Seq(Tokens) /\ x.cur \o Closers(x.open) \in Seq(Tokens)
  BY <1>1, ClosersType, TagsAreTokens, ConcatProperties
<1>3. WidthOf(x.cur \o Closers(x.open)) <= Limit
  BY <1>1, <1>2, WidthConcat DEF Room
<1> DEFINE e == x.cur \o Closers(x.open) out == x.out
<1>4. Reopened(x).out = Append(out, e) /\ Reopened(x).cur = x.open /\ Reopened(x).open = x.open
  BY DEF Reopened, Flushed, SplitStates
<1>5. out \in Seq(Seq(Tokens)) /\ e \in Seq(Tokens) /\ WidthOf(e) <= Limit /\ \A k \in 1..Len(out) : WidthOf(out[k]) <= Limit
  BY <1>1, <1>2, <1>3 DEF Room
<1> HIDE DEF e, out
<1>6. ASSUME NEW k \in 1..Len(Append(out, e)) PROVE WidthOf(Append(out, e)[k]) <= Limit
  <2>1. Append(out, e)[k] = e \/ (k \in 1..Len(out) /\ Append(out, e)[k] = out[k])
    BY <1>5
  <2> QED BY <1>5, <2>1
<1> QED BY <1>4, <1>6 DEF Room, FitWidth

\* A token added where the widest of tags and it fit.
AddedWidth(y, t) == WidthOf(y.cur) + Width(t) + WidthOf(Closers(FitOpen(y, t)))

\* A token for which there is room leaves room to close what is open.
LEMMA AddedRoom ==
  ASSUME NEW y \in SplitStates, NEW t \in Tokens, Room(y), AddedWidth(y, t) <= Limit
  PROVE  Room(Added(y, t))
<1>1. y.cur \in Seq(Tokens)
  BY DEF SplitStates
<1>2. Added(y, t).out = y.out /\ Added(y, t).cur = Append(y.cur, t) /\ Added(y, t).open = FitOpen(y, t)
  BY DEF Added
<1>3. WidthOf(Append(y.cur, t)) = WidthOf(y.cur) + Width(t)
  BY <1>1, WidthSteps
<1> QED BY <1>2, <1>3 DEF Room, AddedWidth

\* The width of what a token leaves, by its kind.
LEMMA FitOpenWidth ==
  ASSUME NEW y, y.open \in Seq(OpenTags), NEW t \in Tokens,
         t[1] = "close" => y.open # <<>> /\ Last(y.open)[2] = t[2]
  PROVE  /\ FitOpen(y, t) \in Seq(OpenTags)
         /\ t[1] = "open" =>
              WidthOf(Closers(FitOpen(y, t))) = CloseWidth[t[2]] + WidthOf(Closers(y.open))
         /\ t[1] = "atom" => FitOpen(y, t) = y.open
         /\ t[1] = "close" => WidthOf(Closers(y.open)) = Width(t) + WidthOf(Closers(FitOpen(y, t)))
<1> DEFINE open == y.open
<1>1. CASE t[1] = "open"
  <2>1. t \in OpenTags /\ FitOpen(y, t) = Append(open, t)
    BY <1>1, TokenKinds DEF FitOpen
  <2>2. Append(open, t) \in Seq(OpenTags)
    BY <2>1
  <2>3. WidthOf(Closers(Append(open, t))) = CloseWidth[t[2]] + WidthOf(Closers(open))
    BY <2>1, ClosersWidth
  <2> QED BY <1>1, <2>1, <2>2, <2>3
<1>2. CASE t[1] = "atom"
  <2>1. FitOpen(y, t) = open
    BY <1>2 DEF FitOpen
  <2> QED BY <1>2, <2>1
<1>3. CASE t[1] = "close"
  <2> DEFINE o == Front(open) e == Last(open)
  <2>1. FitOpen(y, t) = o
    BY <1>3 DEF FitOpen
  <2>2. o \in Seq(OpenTags) /\ e \in OpenTags /\ open = Append(o, e)
    BY <1>3, NamedFront
  <2>3. e[2] = t[2]
    BY <1>3
  <2> HIDE DEF o, e, open
  <2>4. WidthOf(Closers(Append(o, e))) = CloseWidth[e[2]] + WidthOf(Closers(o))
    BY <2>2, ClosersWidth
  <2>5. Width(t) = CloseWidth[t[2]]
    BY <1>3, TokenWidths
  <2> QED BY <1>3, <2>1, <2>2, <2>3, <2>4, <2>5 DEF open
<1> QED BY <1>1, <1>2, <1>3, TokenKinds

\* A token leaves that room, after a flush or without: a chunk that holds no
\* more than reopened tags has room for an atom or a tag, as the tags fit.
LEMMA RoomStep ==
  ASSUME NEW x \in SplitStates, NEW t \in Tokens, x.progressed \/ x = EmptySplit, Room(x),
         NEW w \in Nat, w + 4 <= Limit, FitWidth(x.open) <= w, FitWidth(FitOpen(x, t)) <= w,
         t[1] = "close" => x.open # <<>> /\ Last(x.open)[2] = t[2]
  PROVE  Room(SplitToken(x, t))
<1> DEFINE open == x.open next == FitOpen(x, t)
           cur == WidthOf(x.cur) o == WidthOf(open) c == WidthOf(Closers(open))
           n == WidthOf(Closers(next)) tw == Width(t)
<1>1. x.cur \in Seq(Tokens) /\ open \in Seq(OpenTags) /\ open \in Seq(Tokens)
  BY TagsAreTokens DEF SplitStates
<1>2. /\ next \in Seq(OpenTags)
      /\ t[1] = "open" => n = CloseWidth[t[2]] + c
      /\ t[1] = "atom" => next = open
      /\ t[1] = "close" => c = tw + n
  BY <1>1, FitOpenWidth
<1>3. cur \in Nat /\ o \in Nat /\ c \in Nat /\ n \in Nat /\ tw \in Nat /\ (t[1] = "atom" => tw <= 4)
  <2>1. Closers(open) \in Seq(Tokens) /\ Closers(next) \in Seq(Tokens)
    BY <1>1, <1>2, ClosersType, TagsAreTokens
  <2> QED BY <1>1, <2>1, WidthSteps, TokenWidths
<1>4. o + c <= w /\ WidthOf(next) + n <= w /\ Limit \in Nat
  BY HtmlAssumption DEF FitWidth
<1>5. t[1] = "open" => WidthOf(next) = o + tw
  <2>1. t[1] = "open" => next = Append(open, t)
    BY DEF FitOpen
  <2> QED BY <1>1, <2>1, WidthSteps
<1>6. CASE Overflows(x, t)
  <2> DEFINE y == Reopened(x)
  <2>1. y \in SplitStates /\ Room(y)
    <3>1. FitWidth(open) <= Limit
      BY <1>3, <1>4 DEF FitWidth
    <3> QED BY <3>1, FlushedType, ReopenedRoom
  <2>2. y.cur = open /\ y.open = open
    BY DEF Reopened, SplitStates
  <2>3. FitOpen(y, t) = next
    BY <2>2 DEF FitOpen
  <2>4. SplitToken(x, t) = Added(y, t)
    BY <1>6, SplitTokenAdds
  <2> HIDE DEF y, open, next
  <2>5. AddedWidth(y, t) = o + tw + n
    BY <2>2, <2>3 DEF AddedWidth
  <2> HIDE DEF o, c, n, tw
  <2>6. o + tw + n <= Limit
    <3>1. CASE t[1] = "open"
      BY <1>3, <1>4, <1>5, <3>1
    <3>2. CASE t[1] = "atom"
      <4>1. n = c
        BY <1>2, <3>2 DEF n, c
      <4> QED BY <1>3, <1>4, <3>2, <4>1
    <3>3. CASE t[1] = "close"
      BY <1>2, <1>3, <1>4, <3>3
    <3> QED BY <3>1, <3>2, <3>3, TokenKinds
  <2>7. Room(Added(y, t))
    BY <2>1, <2>5, <2>6, AddedRoom
  <2> QED BY <2>4, <2>7
<1>7. CASE ~Overflows(x, t)
  <2>1. SplitToken(x, t) = Added(x, t)
    BY <1>7, SplitTokenAdds
  <2>2. AddedWidth(x, t) = cur + tw + n
    BY DEF AddedWidth
  <2>3. cur + tw + n <= Limit
    <3>1. CASE x.progressed
      <4>1. cur + tw + c + (IF t[1] = "open" THEN CloseWidth[t[2]] ELSE 0) <= Limit
        <5> DEFINE e == IF t[1] = "open" THEN CloseWidth[t[2]] ELSE 0
        <5>1. ~(cur + tw + c + e > Limit)
          BY <1>7, <3>1 DEF Overflows
        <5>2. e \in Nat
          BY TokenKinds, TagWidths
        <5> HIDE DEF e, cur, tw, c
        <5>3. cur + tw + c + e <= Limit
          BY <1>3, <1>4, <5>1, <5>2
        <5> QED BY <5>3 DEF e
      <4> DEFINE k == CloseWidth[t[2]]
      <4>2. t[1] = "open" => k \in Nat
        BY TokenKinds, TagWidths
      <4>3. t[1] = "atom" => n = c
        BY <1>2
      <4>4. /\ t[1] = "open" => n = k + c /\ cur + tw + c + k <= Limit
            /\ t[1] # "open" => cur + tw + c + 0 <= Limit
        BY <1>2, <4>1
      <4>5. t[1] = "close" => c = tw + n
        BY <1>2
      <4> HIDE DEF cur, tw, c, n, o, k
      <4> QED BY <1>3, <1>4, <4>2, <4>3, <4>4, <4>5, TokenKinds
    <3>2. CASE x = EmptySplit
      <4>1. x.cur = <<>> /\ open = <<>> /\ t[1] # "close"
        BY <3>2 DEF EmptySplit
      <4>2. cur = 0 /\ o = 0 /\ c = 0
        BY <4>1, WidthSteps, ClosersEmpty
      <4>3. t[1] = "atom" => n = c
        BY <1>2
      <4> HIDE DEF cur, tw, c, n, o
      <4> QED BY <1>3, <1>4, <1>5, <4>1, <4>2, <4>3, TokenKinds
    <3> QED BY <3>1, <3>2
  <2> HIDE DEF open, next, cur, o, c, n, tw
  <2>4. Room(Added(x, t))
    BY <2>2, <2>3, AddedRoom
  <2> QED BY <2>1, <2>4
<1> QED BY <1>6, <1>7

\* What the look for the widest tags finds.
LEMMA FitGrows ==
  ASSUME NEW v \in Seq(Tokens), NEW t \in Tokens
  PROVE  /\ Fitted(v) \in FitStates /\ Fitted(Append(v, t)) \in FitStates
         /\ Fitted(Append(v, t)).open = FitOpen(Fitted(v), t)
         /\ FitWidth(Fitted(Append(v, t)).open) <= Fitted(Append(v, t)).widest
         /\ Fitted(v).widest <= Fitted(Append(v, t)).widest
<1>1. Append(v, t) \in Seq(Tokens)
  OBVIOUS
<1>2. Fitted(v) \in FitStates /\ Fitted(Append(v, t)) \in FitStates
  BY <1>1, FitSteps
<1>3. Fitted(Append(v, t)) = Fit(Fitted(v), t)
  BY FitSteps
<1> DEFINE x == Fitted(v) y == Fitted(Append(v, t)) o == FitOpen(x, t) f == FitWidth(o)
<1>4. y.open = o /\ y.widest = IF f > x.widest THEN f ELSE x.widest
  BY <1>3 DEF Fit
<1>5. x.widest \in Nat /\ y.widest \in Nat
  BY <1>2 DEF FitStates
<1>6. f \in Nat
  <2>1. o \in Seq(OpenTags)
    BY <1>2, <1>4 DEF FitStates
  <2> HIDE DEF o
  <2>2. o \in Seq(Tokens) /\ Closers(o) \in Seq(Tokens)
    BY <2>1, ClosersType, TagsAreTokens
  <2> QED BY <2>2, WidthSteps DEF FitWidth
<1>7. FitWidth(y.open) = f
  BY <1>4
<1> HIDE DEF x, y, f, o
<1>8. f <= y.widest /\ x.widest <= y.widest
  BY <1>4, <1>5, <1>6
<1> QED BY <1>2, <1>4, <1>7, <1>8 DEF x, y, o

\* Where splitting is, next to what is open and how wide it has been.
Snug(x, fit) ==
  /\ x.open = fit.open /\ FitWidth(fit.open) <= fit.widest
  /\ x.progressed \/ x = EmptySplit
  /\ fit.widest + 4 <= Limit => Room(x)

\* So it is for every text: where its tags fit, no chunk is too long.
LEMMA SplitRoom ==
  \A v \in Seq(Tokens) : Tracked(v).ok => Snug(SplitOf(v), Fitted(v))
<1> DEFINE P == {v \in Seq(Tokens) : Tracked(v).ok => Snug(SplitOf(v), Fitted(v))}
<1>1. <<>> \in P
  <2>1. SplitOf(<<>>) = EmptySplit /\ Fitted(<<>>) = Unfit
    BY SplitSteps, FitSteps
  <2>2. WidthOf(<<>>) = 0 /\ Closers(<<>>) = <<>> /\ Limit \in Nat
    BY WidthSteps, ClosersEmpty, HtmlAssumption
  <2>3. EmptySplit.out = <<>> /\ EmptySplit.cur = <<>> /\ EmptySplit.open = <<>>
    BY DEF EmptySplit
  <2>4. Unfit.open = <<>> /\ Unfit.widest = 0
    BY DEF Unfit
  <2>5. Room(EmptySplit)
    BY <2>2, <2>3 DEF Room
  <2>6. FitWidth(<<>>) <= 0
    BY <2>2 DEF FitWidth
  <2>7. Snug(SplitOf(<<>>), Fitted(<<>>))
    BY <2>1, <2>3, <2>4, <2>5, <2>6 DEF Snug
  <2> QED BY <2>7
<1>2. ASSUME NEW v \in Seq(Tokens), NEW t \in Tokens, v \in P PROVE Append(v, t) \in P
  <2>0. Append(v, t) \in Seq(Tokens)
    OBVIOUS
  <2> SUFFICES ASSUME Tracked(Append(v, t)).ok
               PROVE  Snug(SplitOf(Append(v, t)), Fitted(Append(v, t)))
    BY <2>0
  <2>1. Tracked(v).ok
    BY OkBefore
  <2>2. Snug(SplitOf(v), Fitted(v))
    BY <1>2, <2>1
  <2> HIDE DEF P
  <2> DEFINE x == SplitOf(v) y == SplitOf(Append(v, t)) f == Fitted(v) g == Fitted(Append(v, t))
  <2>3. x \in SplitStates /\ y = SplitToken(x, t)
    BY SplitSteps
  <2>4. /\ f \in FitStates /\ g \in FitStates /\ g.open = FitOpen(f, t)
        /\ FitWidth(g.open) <= g.widest /\ f.widest <= g.widest
    BY FitGrows
  <2>5. t[1] = "close" => x.open # <<>> /\ Last(x.open)[2] = t[2]
    <3>1. SUFFICES ASSUME t[1] = "close" PROVE x.open # <<>> /\ Last(x.open)[2] = t[2]
      OBVIOUS
    <3>2. Sound(x, Tracked(v).open)
      BY <2>1, SplitSound
    <3>3. Tracked(v).open \in Seq(Tags) /\ IsOpen(v, Tracked(v).open)
      BY <2>1, TrackFields
    <3>4. Tracked(v).open # <<>> /\ Last(Tracked(v).open) = t[2]
      BY <3>1, <3>3, OpenAppend
    <3>5. Named(x.open) = Tracked(v).open /\ x.open \in Seq(OpenTags)
      BY <2>3, <3>2 DEF Sound, SplitStates
    <3>6. x.open # <<>>
      BY <3>4, <3>5, NamedAppend DEF Named
    <3> HIDE DEF x
    <3>7. Last(Named(x.open)) = Last(x.open)[2]
      BY <3>5, <3>6, NamedFront
    <3> QED BY <3>4, <3>5, <3>6, <3>7
  <2> HIDE DEF x, y, f, g
  <2>6. x.open = f.open /\ FitWidth(f.open) <= f.widest /\ (x.progressed \/ x = EmptySplit)
        /\ (f.widest + 4 <= Limit => Room(x))
    BY <2>2 DEF Snug, x, f
  <2>7. FitOpen(x, t) = FitOpen(f, t)
    BY <2>6 DEF FitOpen
  <2>8. y.open = FitOpen(x, t) /\ y.progressed
    BY <2>3, SplitTokenAdds DEF Added, FitOpen, Reopened, SplitStates
  <2>9. f.widest \in Nat /\ g.widest \in Nat /\ Limit \in Nat /\ FitWidth(f.open) \in Int
    <3>1. f.open \in Seq(OpenTags)
      BY <2>4 DEF FitStates
    <3>2. f.open \in Seq(Tokens) /\ Closers(f.open) \in Seq(Tokens)
      BY <3>1, ClosersType, TagsAreTokens
    <3> QED BY <2>4, <3>2, WidthSteps, HtmlAssumption DEF FitStates, FitWidth
  <2>10. g.widest + 4 <= Limit => Room(y)
    <3>1. SUFFICES ASSUME g.widest + 4 <= Limit PROVE Room(y)
      OBVIOUS
    <3>2. FitWidth(x.open) <= g.widest /\ f.widest + 4 <= Limit /\ FitWidth(FitOpen(x, t)) <= g.widest
      BY <2>4, <2>6, <2>7, <2>9, <3>1
    <3> QED BY <2>3, <2>5, <2>6, <2>9, <3>1, <3>2, RoomStep
  <2>11. Snug(y, g)
    BY <2>4, <2>7, <2>8, <2>10 DEF Snug
  <2> QED BY <2>11 DEF y, g
<1> HIDE DEF P
<1>3. \A v \in Seq(Tokens) : v \in P
  BY <1>1, <1>2, SeqSet
<1> QED BY <1>3 DEF P

\* What split_block makes of a block: chunks that are well-formed, hold its
\* text, and are within the limit if its tags leave room for an atom.
ChunksOf(chunks, s) ==
  /\ chunks \in Seq(Good)
  /\ StripTags(FlattenSeq(chunks)) = StripTags(s)
  /\ TagsFit(s) => \A k \in 1..Len(chunks) : WidthOf(chunks[k]) <= Limit

\* What split_block makes of a block that is well-formed.
LEMMA SplitParts ==
  ASSUME NEW s \in Good
  PROVE  ChunksOf(SplitBlock(s), s)
<1>1. s \in Seq(Tokens) /\ Tracked(s).ok /\ Tracked(s).open = <<>>
  BY WellFormedTracked DEF Good
<1>2. CASE WidthOf(s) <= Limit
  <2>1. SplitBlock(s) = <<s>>
    BY <1>2 DEF SplitBlock
  <2>2. FlattenSeq(<<s>>) = s
    BY <1>1, FlattenOne
  <2>3. <<s>> \in Seq(Good) /\ Len(<<s>>) = 1 /\ \A k \in 1..1 : <<s>>[k] = s
    OBVIOUS
  <2> QED BY <1>2, <2>1, <2>2, <2>3 DEF ChunksOf
<1>3. CASE ~(WidthOf(s) <= Limit)
  <2> DEFINE x == SplitOf(s) y == Reopened(x)
  <2>1. SplitBlock(s) = Flushed(x)
    BY <1>3 DEF SplitBlock, SplitOf
  <2>2. x \in SplitStates
    BY <1>1, SplitSteps
  <2>3. Sound(x, <<>>)
    BY <1>1, SplitSound
  <2>4. Snug(x, Fitted(s))
    BY <1>1, SplitRoom
  <2>5. StripTags(Written(x)) = StripTags(s)
    BY <1>1, SplitText
  <2> HIDE DEF x
  <2>6. Sound(y, <<>>) /\ y.open = x.open /\ y.out = Flushed(x) /\ y.cur = x.open
    BY <2>2, <2>3, ReopenedSound DEF Reopened, SplitStates
  <2>7. x.open = <<>>
    BY <2>2, <2>3 DEF Sound, Named, SplitStates
  <2>8. Flushed(x) \in Seq(Good)
    BY <2>6 DEF Sound
  <2>9. StripTags(FlattenSeq(Flushed(x))) = StripTags(s)
    <3>1. StripTags(Written(y)) = StripTags(s)
      BY <2>2, <2>5, ReopenedText
    <3>2. FlattenSeq(Flushed(x)) \in Seq(Tokens)
      BY <2>2, FlushedType, FlattenType
    <3>3. Written(y) = FlattenSeq(Flushed(x))
      BY <2>6, <2>7, <3>2, ConcatEmptySeq DEF Written
    <3> QED BY <3>1, <3>3
  <2>10. TagsFit(s) => Room(y)
    <3>1. SUFFICES ASSUME TagsFit(s) PROVE Room(y)
      OBVIOUS
    <3>2. Fitted(s).widest + 4 <= Limit
      BY <3>1, TagsFitFitted
    <3>3. Room(x)
      BY <2>4, <3>2 DEF Snug
    <3>4. FitWidth(x.open) <= Limit
      BY <2>7, WidthSteps, ClosersEmpty, HtmlAssumption DEF FitWidth
    <3> QED BY <2>2, <3>3, <3>4, ReopenedRoom
  <2> QED BY <2>1, <2>6, <2>8, <2>9, <2>10 DEF ChunksOf, Room
<1> QED BY <1>2, <1>3

-----------------------------------------------------------------------------
(* Markdown: plain text.                                                   *)

\* Text without newlines, and the plain text of tokens.
SolidChar == [c \in Chars |-> IF c = "\n" THEN <<>> ELSE <<c>>]
Plain(s) == Solid(StripTags(s))

\* Solid keeps characters.
LEMMA SolidCharType == SolidChar \in [Chars -> Seq(Chars)]
<1>1. ASSUME NEW c \in Chars PROVE (IF c = "\n" THEN <<>> ELSE <<c>>) \in Seq(Chars)
  <2>1. <<c>> \in Seq(Chars)
    BY OneOf
  <2>2. <<>> \in Seq(Chars)
    OBVIOUS
  <2> QED BY <2>1, <2>2, Zenon
<1> QED BY <1>1 DEF SolidChar

\* Solid is that map.
LEMMA SolidMapped ==
  ASSUME NEW s \in Seq(Chars)
  PROVE  Solid(s) = Mapped(s, SolidChar)
<1>1. \A k \in 1..Len(s) : s[k] \in Chars
  OBVIOUS
<1>2. [k \in 1..Len(s) |-> SolidChar[s[k]]]
        = [k \in 1..Len(s) |-> IF s[k] = "\n" THEN <<>> ELSE <<s[k]>>]
  BY <1>1 DEF SolidChar
<1> QED BY <1>2 DEF Solid, Mapped

\* Plain text of two is that of the one and of the other.
LEMMA PlainConcat ==
  ASSUME NEW s \in Seq(Tokens), NEW u \in Seq(Tokens)
  PROVE  Plain(s \o u) = Plain(s) \o Plain(u)
<1>1. StripTags(s \o u) = StripTags(s) \o StripTags(u)
  BY StripTagsConcat
<1> DEFINE a == StripTags(s) b == StripTags(u)
<1>2. a \in Seq(Chars) /\ b \in Seq(Chars) /\ a \o b \in Seq(Chars)
  BY StripTagsType, ConcatProperties
<1> HIDE DEF a, b
<1>3. Mapped(a \o b, SolidChar) = Mapped(a, SolidChar) \o Mapped(b, SolidChar)
  BY <1>2, SolidCharType, MappedConcat
<1>4. Solid(a \o b) = Solid(a) \o Solid(b)
  BY <1>2, <1>3, SolidMapped
<1> QED BY <1>1, <1>4 DEF Plain, a, b

\* Plain text is text.
LEMMA PlainType ==
  ASSUME NEW s \in Seq(Tokens)
  PROVE  Plain(s) \in Seq(Chars)
<1>1. StripTags(s) \in Seq(Chars)
  BY StripTagsType
<1> QED BY <1>1, SolidMapped, SolidCharType, MappedType DEF Plain

\* The newline between two blocks is one wide and no plain text.
LEMMA NewlineToken ==
  /\ Newline \in Atoms /\ Newline \in Tokens /\ <<Newline>> \in Seq(Tokens) /\ <<Newline>> \in Good
  /\ Plain(<<Newline>>) = <<>> /\ WidthOf(<<Newline>>) = 1
<1>1. Newline \in Atoms /\ Newline[1] = "atom" /\ Newline[2] = "\n"
  BY DEF Newline, Atom, Atoms, Chars
<1>2. Newline \in Tokens
  BY <1>1, TagsAreTokens
<1> DEFINE n == Newline
<1> HIDE DEF n
<1>3. <<n>> \in Seq(Tokens) /\ <<n>> \in Seq(Atoms)
  BY <1>1, <1>2, OneOf DEF n
<1>4. <<n>> \in Good
  BY <1>3, GoodAtoms
<1>5. WidthOf(<<n>>) = 1
  <2>1. Width(n) = 1
    BY <1>1 DEF Width, n
  <2> QED BY <1>2, <2>1, WidthOne DEF n
<1>6. Plain(<<n>>) = <<>>
  <2>0. n \in Tokens
    BY <1>2 DEF n
  <2>a. Mapped(<<n>>, StripTag) = StripTag[n]
    BY ONLY <2>0, StripTagType, MappedOne
  <2>1. StripTags(<<n>>) = StripTag[n]
    BY <1>3, <2>a, StripTagsMapped
  <2>2. StripTag[n] = <<"\n">>
    BY <1>1, <1>2 DEF StripTag, n
  <2>3. <<"\n">> \in Seq(Chars) /\ "\n" \in Chars
    BY OneOf DEF Chars
  <2>4. Solid(<<"\n">>) = SolidChar["\n"]
    <3> DEFINE c == "\n"
    <3>0. c \in Chars /\ <<c>> \in Seq(Chars)
      BY <2>3
    <3> HIDE DEF c
    <3>1. Mapped(<<c>>, SolidChar) = SolidChar[c]
      BY ONLY <3>0, SolidCharType, MappedOne
    <3>2. Solid(<<c>>) = SolidChar[c]
      BY <3>0, <3>1, SolidMapped
    <3> QED BY <3>2 DEF c
  <2> QED BY <2>1, <2>2, <2>3, <2>4 DEF Plain, SolidChar
<1> QED BY <1>1, <1>2, <1>3, <1>4, <1>5, <1>6 DEF n

-----------------------------------------------------------------------------
(* Markdown: chunk_blocks.                                                 *)

\* Where chunk_blocks can be, and its step as a function.
PackStates == [chunks : Seq(Good), current : Good]
EmptyPack == [chunks |-> <<>>, current |-> <<>>]
PackStep == [p \in PackStates \X Good |-> PackBlock(p[1], p[2])]
PackOf(blocks) == FoldLeft(PackBlock, EmptyPack, blocks)

\* The chunks with the current one.
Full(x) == IF x.current = <<>> THEN x.chunks ELSE Append(x.chunks, x.current)

\* A block is split, starts a chunk or is added to the one there is.
LEMMA PackBlockCases ==
  ASSUME NEW x, NEW s
  PROVE  \/ /\ WidthOf(s) > Limit
            /\ PackBlock(x, s) = [chunks |-> Full(x) \o SplitBlock(s), current |-> <<>>]
         \/ /\ ~(WidthOf(s) > Limit) /\ x.current = <<>>
            /\ PackBlock(x, s) = [chunks |-> x.chunks, current |-> s]
         \/ /\ ~(WidthOf(s) > Limit)
            /\ PackBlock(x, s) = [chunks |-> Full(x), current |-> s]
         \/ /\ ~(WidthOf(s) > Limit) /\ ~(WidthOf(x.current) + 1 + WidthOf(s) > Limit)
            /\ PackBlock(x, s) = [chunks |-> x.chunks, current |-> x.current \o <<Newline>> \o s]
  BY DEF PackBlock, Full

\* Chunks are sequences of tokens.
LEMMA GoodSeqs == Good \subseteq Seq(Tokens) /\ Seq(Good) \subseteq Seq(Seq(Tokens))
<1>1. Good \subseteq Seq(Tokens)
  BY DEF Good
<1> HIDE DEF Good
<1> QED BY <1>1

\* The chunks and the one that is filled.
LEMMA FullType ==
  ASSUME NEW x \in PackStates
  PROVE  Full(x) \in Seq(Good) /\ FlattenSeq(Full(x)) = FlattenSeq(x.chunks) \o x.current
<1>1. x.chunks \in Seq(Good) /\ x.current \in Good
  BY DEF PackStates
<1> DEFINE c == x.chunks e == x.current
<1> HIDE DEF c, e
<1>2. c \in Seq(Good) /\ e \in Good /\ c \in Seq(Seq(Tokens)) /\ e \in Seq(Tokens)
  BY <1>1, GoodSeqs DEF c, e
<1>3. Append(c, e) \in Seq(Good)
  BY <1>2
<1>4. FlattenSeq(Append(c, e)) = FlattenSeq(c) \o e
  BY <1>2, FlattenAppend
<1>5. FlattenSeq(c) \o <<>> = FlattenSeq(c)
  BY <1>2, FlattenType, ConcatEmptySeq
<1> QED BY <1>2, <1>3, <1>4, <1>5 DEF Full, c, e

\* Two blocks with a newline between them.
LEMMA JoinedGood ==
  ASSUME NEW s \in Good, NEW u \in Good
  PROVE  s \o <<Newline>> \o u \in Good
<1> DEFINE n == <<Newline>>
<1>1. n \in Good
  BY NewlineToken
<1> HIDE DEF n
<1>2. s \o n \in Good
  BY <1>1, GoodConcat
<1>3. (s \o n) \o u \in Good
  BY <1>2, GoodConcat
<1> QED BY <1>3 DEF n

\* A block more leaves chunk_blocks in such a state.
LEMMA PackBlockType ==
  ASSUME NEW x \in PackStates, NEW s \in Good
  PROVE  PackBlock(x, s) \in PackStates
<1>1. x.chunks \in Seq(Good) /\ x.current \in Good /\ Full(x) \in Seq(Good)
  BY FullType DEF PackStates
<1>2. SplitBlock(s) \in Seq(Good)
  BY SplitParts DEF ChunksOf
<1>3. Full(x) \o SplitBlock(s) \in Seq(Good)
  BY <1>1, <1>2, ConcatProperties
<1>4. x.current \o <<Newline>> \o s \in Good
  BY <1>1, JoinedGood
<1> DEFINE j == x.current \o <<Newline>> \o s f == Full(x) \o SplitBlock(s)
<1> HIDE DEF j, f
<1>5. /\ [chunks |-> f, current |-> <<>>] \in PackStates
      /\ [chunks |-> x.chunks, current |-> s] \in PackStates
      /\ [chunks |-> Full(x), current |-> s] \in PackStates
      /\ [chunks |-> x.chunks, current |-> j] \in PackStates
  BY <1>1, <1>3, <1>4, GoodEmpty DEF PackStates, j, f
<1> QED BY <1>5, PackBlockCases DEF j, f

\* So the step is a function on these states, which start with EmptyPack.
LEMMA PackStepType == PackStep \in [PackStates \X Good -> PackStates] /\ EmptyPack \in PackStates
<1>1. EmptyPack \in PackStates
  BY GoodEmpty DEF EmptyPack, PackStates
<1> QED BY <1>1, PackBlockType DEF PackStep

\* Packing goes block by block.
LEMMA PackFolds ==
  Folds([s \in Seq(Good) |-> PackOf(s)], PackStates, Good, EmptyPack, PackStep)
<1> DEFINE F == [s \in Seq(Good) |-> PackOf(s)]
<1>1. PackStep \in [PackStates \X Good -> PackStates] /\ EmptyPack \in PackStates
  BY PackStepType
<1>2. ASSUME NEW s \in Seq(Good) PROVE EndsIn(F[s], PackStates, EmptyPack, PackStep, s)
  <2> DEFINE D == SUBSET (1..Len(s))
             IsIter(f) == f = [I \in D |-> IF I = {} THEN EmptyPack
                                           ELSE PackBlock(f[I \ {Max(I)}], s[Max(I)])]
             iter == CHOOSE f : IsIter(f)
  <2>1. PICK g \in [D -> PackStates] : IsFold(g, EmptyPack, PackStep, s)
    BY <1>1, FoldExists
  <2>2. IsIter(g)
    <3>1. ASSUME NEW I \in D
          PROVE  g[I] = IF I = {} THEN EmptyPack ELSE PackBlock(g[I \ {Max(I)}], s[Max(I)])
      <4>1. CASE I # {}
        <5>1. Max(I) \in 1..Len(s) /\ I \ {Max(I)} \in D
          <6>1. Len(s) \in Nat /\ I \subseteq 1..Len(s)
            OBVIOUS
          <6>2. Max(I) \in I
            BY <4>1, <6>1, Greatest
          <6> QED BY <6>1, <6>2
        <5>2. g[I] = PackStep[<<g[I \ {Max(I)}], s[Max(I)]>>]
          BY <2>1, <4>1 DEF IsFold
        <5>3. g[I \ {Max(I)}] \in PackStates /\ s[Max(I)] \in Good
          BY <2>1, <5>1
        <5> DEFINE x == g[I \ {Max(I)}] t == s[Max(I)]
        <5>4. PackStep[<<x, t>>] = PackBlock(x, t)
          <6> HIDE DEF x, t
          <6>1. x \in PackStates /\ t \in Good
            BY <5>3 DEF x, t
          <6> QED BY <6>1 DEF PackStep
        <5> QED BY <4>1, <5>2, <5>4
      <4>2. CASE I = {}
        BY <2>1, <4>2 DEF IsFold
      <4> QED BY <4>1, <4>2
    <3> QED BY <2>1, <3>1
  <2>3. IsIter(iter)
    <3> HIDE DEF IsIter
    <3> QED BY <2>2
  <2>4. F[s] = iter[1..Len(s)]
    <3>1. DOMAIN s = 1..Len(s)
      OBVIOUS
    <3>2. PackOf(s) = iter[1..Len(s)]
      BY <3>1, Zenon DEF PackOf, FoldLeft, MapThenFoldSet
    <3> QED BY <3>2
  <2>5. iter[{}] = EmptyPack
    BY <2>3
  <2>6. ASSUME NEW k \in 1..Len(s), iter[1..(k - 1)] \in PackStates
        PROVE  iter[1..k] = PackStep[<<iter[1..(k - 1)], s[k]>>]
    <3>1. 1..k \in D /\ 1..k # {} /\ Max(1..k) = k /\ (1..k) \ {k} = 1..(k - 1)
      <4>1. Len(s) \in Nat
        OBVIOUS
      <4> QED BY <4>1, FirstPlaces
    <3> DEFINE x == iter[1..(k - 1)] t == s[k]
    <3>2. iter[1..k] = PackBlock(x, t)
      <4> HIDE DEF iter
      <4> QED BY <2>3, <3>1
    <3>3. x \in PackStates /\ t \in Good
      BY <2>6
    <3>4. PackStep[<<x, t>>] = PackBlock(x, t)
      <4> HIDE DEF x, t
      <4> QED BY <3>3 DEF PackStep
    <3> QED BY <3>2, <3>4
  <2> HIDE DEF iter, F, D, IsIter
  <2>8. Iterates(iter, PackStates, EmptyPack, PackStep, s)
    BY <2>5, <2>6 DEF Iterates
  <2>7. EndsIn(iter[1..Len(s)], PackStates, EmptyPack, PackStep, s)
    BY <1>1, <2>8, IterTraces
  <2> QED BY <2>4, <2>7
<1>3. F = [s \in Seq(Good) |-> F[s]]
  OBVIOUS
<1> HIDE DEF F
<1>4. Folds(F, PackStates, Good, EmptyPack, PackStep)
  BY <1>1, <1>2, <1>3, TracedFolds
<1> QED BY <1>4 DEF F

\* chunk_blocks takes one block after the other.
LEMMA PackSteps ==
  /\ PackOf(<<>>) = EmptyPack
  /\ \A s \in Seq(Good) : PackOf(s) \in PackStates
  /\ \A s \in Seq(Good) : \A t \in Good : PackOf(Append(s, t)) = PackBlock(PackOf(s), t)
<1> DEFINE G == [s \in Seq(Good) |-> PackOf(s)]
<1>1. Folds(G, PackStates, Good, EmptyPack, PackStep)
  BY PackFolds
<1>2. <<>> \in Seq(Good) /\ \A s \in Seq(Good) : G[s] = PackOf(s)
  OBVIOUS
<1> HIDE DEF G
<1>3. PackOf(<<>>) = EmptyPack /\ \A s \in Seq(Good) : PackOf(s) \in PackStates
  BY <1>1, <1>2 DEF Folds
<1>4. ASSUME NEW s \in Seq(Good), NEW t \in Good PROVE PackOf(Append(s, t)) = PackBlock(PackOf(s), t)
  <2>1. Append(s, t) \in Seq(Good)
    OBVIOUS
  <2>2. G[Append(s, t)] = PackStep[<<G[s], t>>]
    BY <1>1 DEF Folds
  <2> QED BY <1>2, <1>3, <2>1, <2>2 DEF PackStep
<1> QED BY <1>3, <1>4

\* No chunk is too long; the tags of every block fit.
Within(chunks) == \A k \in 1..Len(chunks) : WidthOf(chunks[k]) <= Limit
AllFit(blocks) == \A k \in 1..Len(blocks) : TagsFit(blocks[k])

\* Chunks that are not too long, behind such chunks.
LEMMA WithinConcat ==
  ASSUME NEW a \in Seq(Good), NEW b \in Seq(Good), Within(a), Within(b)
  PROVE  Within(a \o b)
<1>1. ASSUME NEW k \in 1..Len(a \o b) PROVE WidthOf((a \o b)[k]) <= Limit
  <2>1. /\ Len(a \o b) = Len(a) + Len(b) /\ Len(a) \in Nat /\ Len(b) \in Nat
        /\ \A i \in 1..(Len(a) + Len(b)) : (a \o b)[i] = IF i <= Len(a) THEN a[i] ELSE b[i - Len(a)]
    BY ConcatProperties
  <2>2. (k \in 1..Len(a) /\ (a \o b)[k] = a[k]) \/ (k - Len(a) \in 1..Len(b) /\ (a \o b)[k] = b[k - Len(a)])
    BY <2>1
  <2>3. CASE k \in 1..Len(a) /\ (a \o b)[k] = a[k]
    BY <2>3 DEF Within
  <2>4. CASE k - Len(a) \in 1..Len(b) /\ (a \o b)[k] = b[k - Len(a)]
    BY <2>4 DEF Within
  <2> QED BY <2>2, <2>3, <2>4
<1> QED BY <1>1 DEF Within

\* The chunks with the current one, if that is not too long either.
LEMMA WithinFull ==
  ASSUME NEW x \in PackStates, Within(x.chunks), WidthOf(x.current) <= Limit
  PROVE  Within(Full(x))
<1> DEFINE e == x.current c == x.chunks
<1>1. c \in Seq(Good) /\ e \in Good
  BY DEF PackStates
<1>2. <<e>> \in Seq(Good) /\ Append(c, e) = c \o <<e>>
  BY <1>1, OneOf, AppendIsConcat
<1>3. Within(<<e>>) /\ Within(c)
  BY DEF Within
<1>4. Within(c \o <<e>>)
  BY <1>1, <1>2, <1>3, WithinConcat
<1> QED BY <1>2, <1>3, <1>4 DEF Full

\* If all tags fit with a block more, they fit without it, and its own do.
LEMMA AllFitAppend ==
  ASSUME NEW v \in Seq(Good), NEW s \in Good, AllFit(Append(v, s))
  PROVE  AllFit(v) /\ TagsFit(s)
<1> DEFINE u == Append(v, s)
<1>1. Len(u) = Len(v) + 1 /\ Len(v) \in Nat /\ u[Len(v) + 1] = s /\ \A k \in 1..Len(v) : u[k] = v[k]
  OBVIOUS
<1>2. \A k \in 1..Len(u) : TagsFit(u[k])
  BY DEF AllFit
<1> HIDE DEF u
<1>3. TagsFit(s)
  <2>1. Len(v) + 1 \in 1..Len(u)
    BY <1>1
  <2> QED BY <1>1, <1>2, <2>1
<1>4. ASSUME NEW k \in 1..Len(v) PROVE TagsFit(v[k])
  <2>1. k \in 1..Len(u) /\ u[k] = v[k]
    BY <1>1
  <2> QED BY <1>2, <2>1
<1> QED BY <1>3, <1>4 DEF AllFit

\* One block more, and its text.
LEMMA PackText ==
  ASSUME NEW x \in PackStates, NEW s \in Good
  PROVE  Plain(FlattenSeq(Full(PackBlock(x, s)))) = Plain(FlattenSeq(Full(x))) \o Plain(s)
<1> DEFINE y == PackBlock(x, s) f == FlattenSeq(x.chunks) g == FlattenSeq(Full(x)) cur == x.current
<1>1. y \in PackStates
  BY PackBlockType
<1>2. FlattenSeq(Full(y)) = FlattenSeq(y.chunks) \o y.current /\ g = f \o cur /\ Full(x) \in Seq(Good)
  BY <1>1, FullType
<1>3. x.chunks \in Seq(Good) /\ x.chunks \in Seq(Seq(Tokens)) /\ cur \in Seq(Tokens) /\ s \in Seq(Tokens)
      /\ Full(x) \in Seq(Seq(Tokens))
  BY <1>2, GoodSeqs DEF PackStates
<1>4. f \in Seq(Tokens) /\ g \in Seq(Tokens)
  BY <1>3, FlattenType
<1> HIDE DEF y, f, g, cur
<1>5. Plain(g \o s) = Plain(g) \o Plain(s)
  BY <1>3, <1>4, PlainConcat
<1>6. CASE y.chunks = Full(x) \o SplitBlock(s) /\ y.current = <<>>
  <2>1. ChunksOf(SplitBlock(s), s)
    BY SplitParts
  <2>2. SplitBlock(s) \in Seq(Good) /\ StripTags(FlattenSeq(SplitBlock(s))) = StripTags(s)
    BY <2>1 DEF ChunksOf
  <2> DEFINE p == SplitBlock(s) h == FlattenSeq(p)
  <2>3. p \in Seq(Seq(Tokens)) /\ h \in Seq(Tokens)
    BY <2>2, GoodSeqs, FlattenType
  <2>4. FlattenSeq(Full(x) \o p) = g \o h
    BY <1>3, <2>3, FlattenConcat DEF g
  <2>5. Plain(h) = Plain(s)
    BY <2>2 DEF Plain
  <2> HIDE DEF p, h
  <2>6. g \o h \in Seq(Tokens)
    BY <1>4, <2>3, ConcatProperties
  <2>7. FlattenSeq(y.chunks) \o y.current = g \o h
    BY <1>6, <2>4, <2>6, ConcatEmptySeq DEF p
  <2>8. Plain(g \o h) = Plain(g) \o Plain(h)
    BY <1>4, <2>3, PlainConcat
  <2> QED BY <1>2, <2>5, <2>7, <2>8 DEF y, g
<1>7. CASE cur = <<>> /\ y.chunks = x.chunks /\ y.current = s
  <2>1. g = f
    BY <1>2, <1>4, <1>7, ConcatEmptySeq
  <2>2. FlattenSeq(y.chunks) \o y.current = g \o s
    BY <1>7, <2>1 DEF f
  <2> QED BY <1>2, <1>5, <2>2 DEF y, g
<1>8. CASE y.chunks = Full(x) /\ y.current = s
  <2>1. FlattenSeq(y.chunks) \o y.current = g \o s
    BY <1>8 DEF g
  <2> QED BY <1>2, <1>5, <2>1 DEF y, g
<1>9. CASE y.chunks = x.chunks /\ y.current = cur \o <<Newline>> \o s
  <2> DEFINE n == <<Newline>>
  <2>1. n \in Seq(Tokens) /\ Plain(n) = <<>>
    BY NewlineToken
  <2>2. FlattenSeq(y.chunks) \o y.current = f \o ((cur \o n) \o s)
    BY <1>9 DEF f
  <2> HIDE DEF n
  <2>3. cur \o n \in Seq(Tokens)
    BY <1>3, <2>1, ConcatProperties
  <2>4. f \o ((cur \o n) \o s) = ((f \o cur) \o n) \o s
    <3>1. f \in Seq(Tokens) /\ cur \in Seq(Tokens) /\ n \in Seq(Tokens) /\ s \in Seq(Tokens)
      BY <1>3, <1>4, <2>1
    <3> DEFINE m == cur \o n
    <3>2. m \in Seq(Tokens)
      BY <2>3
    <3>3. (f \o cur) \o n = f \o m
      BY <3>1, ConcatAssociative
    <3> HIDE DEF m
    <3>4. (f \o m) \o s = f \o (m \o s)
      BY ONLY <3>1, <3>2, ConcatAssociative, SMTT(30)
    <3> QED BY <3>3, <3>4 DEF m
  <2>5. g \o n \in Seq(Tokens)
    BY <1>4, <2>1, ConcatProperties
  <2>6. Plain((g \o n) \o s) = Plain(g \o n) \o Plain(s)
    BY <1>3, <2>5, PlainConcat
  <2>7. Plain(g \o n) = Plain(g) \o <<>>
    BY <1>4, <2>1, PlainConcat
  <2>8. Plain(g) \o <<>> = Plain(g)
    BY <1>4, PlainType, ConcatEmptySeq
  <2>9. Plain(FlattenSeq(Full(y))) = Plain(g) \o Plain(s)
    BY <1>2, <2>2, <2>4, <2>6, <2>7, <2>8
  <2> QED BY <2>9 DEF y, g
<1>10. \/ y.chunks = Full(x) \o SplitBlock(s) /\ y.current = <<>>
       \/ cur = <<>> /\ y.chunks = x.chunks /\ y.current = s
       \/ y.chunks = Full(x) /\ y.current = s
       \/ y.chunks = x.chunks /\ y.current = cur \o <<Newline>> \o s
  BY PackBlockCases DEF y, cur
<1> QED BY <1>6, <1>7, <1>8, <1>9, <1>10

\* One block more, and the room it needs.
LEMMA PackRoom ==
  ASSUME NEW x \in PackStates, NEW s \in Good, WidthOf(x.current) <= Limit
  PROVE  /\ WidthOf(PackBlock(x, s).current) <= Limit
         /\ Within(x.chunks) /\ TagsFit(s) => Within(PackBlock(x, s).chunks)
<1> DEFINE y == PackBlock(x, s) w == WidthOf(s) c == WidthOf(x.current)
<1>1. x.chunks \in Seq(Good) /\ x.current \in Seq(Tokens) /\ s \in Seq(Tokens) /\ Full(x) \in Seq(Good)
  BY FullType, GoodSeqs DEF PackStates
<1>2. w \in Nat /\ c \in Nat /\ Limit \in Nat /\ WidthOf(<<>>) = 0
  BY <1>1, WidthSteps, HtmlAssumption
<1>3. Within(x.chunks) => Within(Full(x))
  BY WithinFull
<1>4. CASE /\ w > Limit /\ y.chunks = Full(x) \o SplitBlock(s) /\ y.current = <<>>
  <2>1. ChunksOf(SplitBlock(s), s)
    BY SplitParts
  <2>2. SplitBlock(s) \in Seq(Good) /\ (TagsFit(s) => Within(SplitBlock(s)))
    BY <2>1 DEF ChunksOf, Within
  <2>3. Within(x.chunks) /\ TagsFit(s) => Within(Full(x) \o SplitBlock(s))
    BY <1>1, <1>3, <2>2, WithinConcat
  <2>4. WidthOf(y.current) <= Limit
    <3> HIDE DEF y
    <3> QED BY <1>2, <1>4
  <2> QED BY <1>4, <2>3, <2>4
<1>5. CASE ~(w > Limit) /\ y.chunks = x.chunks /\ y.current = s
  BY <1>2, <1>5
<1>6. CASE ~(w > Limit) /\ y.chunks = Full(x) /\ y.current = s
  BY <1>2, <1>3, <1>6
<1>7. CASE ~(c + 1 + w > Limit) /\ y.chunks = x.chunks /\ y.current = x.current \o <<Newline>> \o s
  <2> DEFINE n == <<Newline>>
  <2>1. n \in Seq(Tokens) /\ WidthOf(n) = 1
    BY NewlineToken
  <2> HIDE DEF n
  <2>2. x.current \o n \in Seq(Tokens) /\ WidthOf(x.current \o n) = c + 1
    BY <1>1, <2>1, WidthConcat, ConcatProperties
  <2>3. WidthOf((x.current \o n) \o s) = (c + 1) + w
    BY <1>1, <2>2, WidthConcat
  <2>4. WidthOf(y.current) = (c + 1) + w
    BY <1>7, <2>3 DEF n
  <2> HIDE DEF c, w, y
  <2>5. WidthOf(y.current) <= Limit
    BY <1>2, <1>7, <2>4
  <2> QED BY <1>7, <2>5 DEF y
<1>8. \/ w > Limit /\ y.chunks = Full(x) \o SplitBlock(s) /\ y.current = <<>>
      \/ ~(w > Limit) /\ y.chunks = x.chunks /\ y.current = s
      \/ ~(w > Limit) /\ y.chunks = Full(x) /\ y.current = s
      \/ ~(c + 1 + w > Limit) /\ y.chunks = x.chunks /\ y.current = x.current \o <<Newline>> \o s
  BY PackBlockCases
<1> QED BY <1>4, <1>5, <1>6, <1>7, <1>8

\* Where packing is, next to the blocks it has packed.
Packed(x, blocks) ==
  /\ WidthOf(x.current) <= Limit
  /\ Plain(FlattenSeq(Full(x))) = Plain(FlattenSeq(blocks))
  /\ AllFit(blocks) => Within(x.chunks)

\* So it is after any blocks.
LEMMA PackKeeps ==
  \A v \in Seq(Good) : Packed(PackOf(v), v)
<1> DEFINE P == {v \in Seq(Good) : Packed(PackOf(v), v)}
<1>1. <<>> \in P
  <2>1. PackOf(<<>>) = EmptyPack /\ EmptyPack.chunks = <<>> /\ EmptyPack.current = <<>>
    BY PackSteps DEF EmptyPack
  <2>2. Full(EmptyPack) = <<>>
    BY <2>1 DEF Full
  <2>3. WidthOf(<<>>) <= Limit
    BY WidthSteps, HtmlAssumption
  <2>4. Within(<<>>)
    BY DEF Within
  <2>5. Packed(PackOf(<<>>), <<>>)
    BY <2>1, <2>2, <2>3, <2>4 DEF Packed
  <2> QED BY <2>5
<1>2. ASSUME NEW v \in Seq(Good), NEW s \in Good, v \in P PROVE Append(v, s) \in P
  <2>0. Append(v, s) \in Seq(Good)
    OBVIOUS
  <2>1. Packed(PackOf(v), v)
    BY <1>2
  <2> SUFFICES Packed(PackOf(Append(v, s)), Append(v, s))
    BY <2>0
  <2> HIDE DEF P
  <2> DEFINE x == PackOf(v) y == PackOf(Append(v, s))
  <2>2. x \in PackStates /\ y = PackBlock(x, s)
    BY PackSteps
  <2>3. v \in Seq(Seq(Tokens)) /\ s \in Seq(Tokens)
    BY GoodSeqs
  <2>4. FlattenSeq(Append(v, s)) = FlattenSeq(v) \o s /\ FlattenSeq(v) \in Seq(Tokens)
    BY <2>3, FlattenAppend, FlattenType
  <2>5. Plain(FlattenSeq(v) \o s) = Plain(FlattenSeq(v)) \o Plain(s)
    BY <2>3, <2>4, PlainConcat
  <2> HIDE DEF x, y
  <2>6. WidthOf(x.current) <= Limit /\ Plain(FlattenSeq(Full(x))) = Plain(FlattenSeq(v))
        /\ (AllFit(v) => Within(x.chunks))
    BY <2>1 DEF Packed, x
  <2>7. Plain(FlattenSeq(Full(y))) = Plain(FlattenSeq(Full(x))) \o Plain(s)
    BY <2>2, PackText
  <2>8. WidthOf(y.current) <= Limit /\ (Within(x.chunks) /\ TagsFit(s) => Within(y.chunks))
    BY <2>2, <2>6, PackRoom
  <2>9. AllFit(Append(v, s)) => Within(y.chunks)
    BY <2>6, <2>8, AllFitAppend
  <2>10. Packed(y, Append(v, s))
    BY <2>4, <2>5, <2>6, <2>7, <2>8, <2>9 DEF Packed
  <2> QED BY <2>10 DEF y
<1> HIDE DEF P
<1>3. \A v \in Seq(Good) : v \in P
  BY <1>1, <1>2, SeqSet
<1> QED BY <1>3 DEF P

\* What chunk_blocks makes of well-formed blocks.
LEMMA ChunksOfBlocks ==
  ASSUME NEW blocks \in Seq(Good)
  PROVE  /\ ChunkBlocks(blocks) \in Seq(Good)
         /\ AllFit(blocks) => Within(ChunkBlocks(blocks))
         /\ Plain(FlattenSeq(ChunkBlocks(blocks))) = Plain(FlattenSeq(blocks))
<1> DEFINE x == PackOf(blocks)
<1>1. x \in PackStates /\ Packed(x, blocks)
  BY PackSteps, PackKeeps
<1>2. ChunkBlocks(blocks) = Full(x)
  BY DEF ChunkBlocks, Full, PackOf, EmptyPack
<1> HIDE DEF x
<1>3. Full(x) \in Seq(Good)
  BY <1>1, FullType
<1>4. AllFit(blocks) => Within(Full(x))
  BY <1>1, WithinFull DEF Packed
<1> QED BY <1>1, <1>2, <1>3, <1>4 DEF Packed

-----------------------------------------------------------------------------
(* Markdown: parts joined by a separator.                                  *)

\* Joined as a fold: one step, over a set that is closed under it.
JoinStep(P, separator) == [p \in P \X P |-> p[1] \o separator \o p[2]]

\* P is closed under concatenation.
Closed(P, S) == P \subseteq Seq(S) /\ \A a, b \in P : a \o b \in P

\* Its step stays in that set.
LEMMA JoinStepType ==
  ASSUME NEW P, NEW S, Closed(P, S), NEW separator \in P, NEW base \in P
  PROVE  JoinStep(P, separator) \in [P \X P -> P] /\ base \in P
<1>1. ASSUME NEW a \in P, NEW b \in P PROVE a \o separator \o b \in P
  <2>1. a \o separator \in P
    BY DEF Closed
  <2> DEFINE c == a \o separator
  <2>2. c \o b \in P
    <3> HIDE DEF c
    <3>1. c \in P
      BY <2>1 DEF c
    <3> QED BY <3>1 DEF Closed
  <2> QED BY <2>2
<1> QED BY <1>1 DEF JoinStep

\* Joining goes part by part.
LEMMA JoinFolds ==
  ASSUME NEW P, NEW S, Closed(P, S), NEW separator \in P, NEW base \in P
  PROVE
  Folds([s \in Seq(P) |-> FoldLeft(LAMBDA a, part : a \o separator \o part, base, s)], P, P, base, JoinStep(P, separator))
<1> DEFINE F == [s \in Seq(P) |-> FoldLeft(LAMBDA a, part : a \o separator \o part, base, s)]
<1>1. JoinStep(P, separator) \in [P \X P -> P] /\ base \in P
  BY JoinStepType
<1>2. ASSUME NEW s \in Seq(P) PROVE EndsIn(F[s], P, base, JoinStep(P, separator), s)
  <2> DEFINE D == SUBSET (1..Len(s))
             IsIter(f) == f = [I \in D |-> IF I = {} THEN base
                                           ELSE f[I \ {Max(I)}] \o separator \o s[Max(I)]]
             iter == CHOOSE f : IsIter(f)
  <2>1. PICK g \in [D -> P] : IsFold(g, base, JoinStep(P, separator), s)
    BY <1>1, FoldExists
  <2>2. IsIter(g)
    <3>1. ASSUME NEW I \in D
          PROVE  g[I] = IF I = {} THEN base ELSE g[I \ {Max(I)}] \o separator \o s[Max(I)]
      <4>1. CASE I # {}
        <5>1. Max(I) \in 1..Len(s) /\ I \ {Max(I)} \in D
          <6>1. Len(s) \in Nat /\ I \subseteq 1..Len(s)
            OBVIOUS
          <6>2. Max(I) \in I
            BY <4>1, <6>1, Greatest
          <6> QED BY <6>1, <6>2
        <5>2. g[I] = JoinStep(P, separator)[<<g[I \ {Max(I)}], s[Max(I)]>>]
          BY <2>1, <4>1 DEF IsFold
        <5>3. g[I \ {Max(I)}] \in P /\ s[Max(I)] \in P
          BY <2>1, <5>1
        <5> DEFINE x == g[I \ {Max(I)}] t == s[Max(I)]
        <5>4. JoinStep(P, separator)[<<x, t>>] = x \o separator \o t
          <6> HIDE DEF x, t
          <6>1. x \in P /\ t \in P
            BY <5>3 DEF x, t
          <6> QED BY <6>1 DEF JoinStep
        <5> QED BY <4>1, <5>2, <5>4
      <4>2. CASE I = {}
        BY <2>1, <4>2 DEF IsFold
      <4> QED BY <4>1, <4>2
    <3> QED BY <2>1, <3>1
  <2>3. IsIter(iter)
    <3> HIDE DEF IsIter
    <3> QED BY <2>2
  <2>4. F[s] = iter[1..Len(s)]
    <3>1. DOMAIN s = 1..Len(s)
      OBVIOUS
    <3>2. FoldLeft(LAMBDA a, part : a \o separator \o part, base, s) = iter[1..Len(s)]
      BY <3>1, Zenon DEF FoldLeft, MapThenFoldSet
    <3> QED BY <3>2
  <2>5. iter[{}] = base
    BY <2>3
  <2>6. ASSUME NEW k \in 1..Len(s), iter[1..(k - 1)] \in P
        PROVE  iter[1..k] = JoinStep(P, separator)[<<iter[1..(k - 1)], s[k]>>]
    <3>1. 1..k \in D /\ 1..k # {} /\ Max(1..k) = k /\ (1..k) \ {k} = 1..(k - 1)
      <4>1. Len(s) \in Nat
        OBVIOUS
      <4> QED BY <4>1, FirstPlaces
    <3> DEFINE x == iter[1..(k - 1)] t == s[k]
    <3>2. iter[1..k] = x \o separator \o t
      <4> HIDE DEF iter
      <4> QED BY <2>3, <3>1
    <3>3. x \in P /\ t \in P
      <4> HIDE DEF iter, F
      <4>1. s[k] \in P
        OBVIOUS
      <4> QED BY <2>6, <4>1
    <3>4. JoinStep(P, separator)[<<x, t>>] = x \o separator \o t
      <4> HIDE DEF x, t
      <4> QED BY <3>3 DEF JoinStep
    <3> QED BY <3>2, <3>4
  <2> HIDE DEF iter, F, D, IsIter
  <2>8. Iterates(iter, P, base, JoinStep(P, separator), s)
    BY <2>5, <2>6 DEF Iterates
  <2>7. EndsIn(iter[1..Len(s)], P, base, JoinStep(P, separator), s)
    BY <1>1, <2>8, IterTraces
  <2> QED BY <2>4, <2>7
<1>3. F = [s \in Seq(P) |-> F[s]]
  OBVIOUS
<1> HIDE DEF F
<1>4. Folds(F, P, P, base, JoinStep(P, separator))
  BY <1>1, <1>2, <1>3, TracedFolds
<1> QED BY <1>4 DEF F

\* So what it joins is in the set.
LEMMA JoinedType ==
  ASSUME NEW P, NEW S, Closed(P, S), <<>> \in P, NEW separator \in P, NEW parts \in Seq(P)
  PROVE  Joined(parts, separator) \in P
<1>1. CASE parts = <<>>
  BY <1>1 DEF Joined
<1>2. CASE parts # <<>>
  <2> DEFINE base == Head(parts) rest == Tail(parts)
             F == [s \in Seq(P) |-> FoldLeft(LAMBDA a, part : a \o separator \o part, base, s)]
  <2>1. base \in P /\ rest \in Seq(P)
    BY <1>2
  <2>2. Joined(parts, separator) = FoldLeft(LAMBDA a, part : a \o separator \o part, base, rest)
    BY <1>2 DEF Joined
  <2>3. F[rest] = FoldLeft(LAMBDA a, part : a \o separator \o part, base, rest)
    BY <2>1
  <2>4. Folds(F, P, P, base, JoinStep(P, separator))
    <3> HIDE DEF base, rest
    <3> QED BY <2>1, JoinFolds
  <2> HIDE DEF F, base, rest
  <2>5. F[rest] \in P
    BY <2>1, <2>4 DEF Folds
  <2> QED BY <2>2, <2>3, <2>5
<1> QED BY <1>1, <1>2

\* Well-formed texts are closed under joining.
LEMMA ClosedGood == Closed(Good, Tokens)
  BY GoodSeqs, GoodConcat DEF Closed

\* So are sequences.
LEMMA ClosedSeq ==
  ASSUME NEW S
  PROVE  Closed(Seq(S), S)
  BY ConcatProperties DEF Closed

-----------------------------------------------------------------------------
(* Markdown: rows of cells.                                                *)

\* A member at the end.
LEMMA AppendIn ==
  ASSUME NEW S, NEW s \in Seq(S), NEW e \in S
  PROVE  Append(s, e) \in Seq(S) /\ Append(s, e) # <<>>
<1>1. Append(s, e) \in Seq(S)
  OBVIOUS
<1>2. Len(Append(s, e)) = Len(s) + 1 /\ Len(s) \in Nat
  OBVIOUS
<1>3. Len(<<>>) = 0
  OBVIOUS
<1> QED BY <1>1, <1>2, <1>3

\* Sequences over a smaller set.
LEMMA SeqWithin ==
  ASSUME NEW S, NEW T, S \subseteq T
  PROVE  Seq(S) \subseteq Seq(T)
  OBVIOUS

\* The text of a line is of characters.
LEMMA TextIsChars == Seq(STRING) \subseteq Seq(Chars)
<1>1. STRING \subseteq Chars
  BY DEF Chars
<1> QED BY <1>1, SeqWithin, Zenon

\* The cells of a row so far, and split_row as a fold.
Cells == Seq(Seq(Chars)) \ {<<>>}
CellsOf(u) == FoldLeft(CellsWith, <<<<>>>>, u)
CellStep == [p \in Cells \X Chars |-> CellsWith(p[1], p[2])]

\* A character more leaves a row of cells.
LEMMA CellStepType == CellStep \in [Cells \X Chars -> Cells] /\ <<<<>>>> \in Cells
<1>1. <<<<>>>> \in Cells
  <2>1. <<>> \in Seq(Chars)
    OBVIOUS
  <2> DEFINE e == <<>>
  <2> HIDE DEF e
  <2>2. <<e>> \in Seq(Seq(Chars))
    BY <2>1, OneOf DEF e
  <2>3. <<e>> # <<>>
    OBVIOUS
  <2> QED BY <2>2, <2>3 DEF e, Cells
<1>2. ASSUME NEW cells \in Cells, NEW c \in Chars PROVE CellsWith(cells, c) \in Cells
  <2>1. PICK front \in Seq(Seq(Chars)), last \in Seq(Chars) : cells = Append(front, last)
    BY SequenceEmptyOrAppend DEF Cells
  <2>2. Front(cells) = front /\ Last(cells) = last
    BY <2>1, FrontAppend
  <2>3. Append(last, c) \in Seq(Chars) /\ <<>> \in Seq(Chars)
    BY AppendIn
  <2> DEFINE e == Append(last, c) n == <<>>
  <2> HIDE DEF e, n
  <2>4. e \in Seq(Chars) /\ n \in Seq(Chars)
    BY <2>3 DEF e, n
  <2>5. Append(cells, n) \in Seq(Seq(Chars)) /\ Append(cells, n) # <<>>
    <3>1. cells \in Seq(Seq(Chars))
      BY DEF Cells
    <3> QED BY ONLY <2>4, <3>1, AppendIn
  <2>6. front \o <<e>> = Append(front, e)
    BY <2>4, AppendIsConcat
  <2>7. Append(front, e) \in Seq(Seq(Chars)) /\ Append(front, e) # <<>>
    BY <2>4, AppendIn
  <2> QED BY <2>2, <2>5, <2>6, <2>7 DEF CellsWith, Cells, e, n
<1> QED BY <1>1, <1>2 DEF CellStep

\* Cutting a row into cells goes character by character.
LEMMA CellFolds ==
  Folds([s \in Seq(Chars) |-> CellsOf(s)], Cells, Chars, <<<<>>>>, CellStep)
<1> DEFINE F == [s \in Seq(Chars) |-> CellsOf(s)]
<1>1. CellStep \in [Cells \X Chars -> Cells] /\ <<<<>>>> \in Cells
  BY CellStepType
<1>2. ASSUME NEW s \in Seq(Chars) PROVE EndsIn(F[s], Cells, <<<<>>>>, CellStep, s)
  <2> DEFINE D == SUBSET (1..Len(s))
             IsIter(f) == f = [I \in D |-> IF I = {} THEN <<<<>>>>
                                           ELSE CellsWith(f[I \ {Max(I)}], s[Max(I)])]
             iter == CHOOSE f : IsIter(f)
  <2>1. PICK g \in [D -> Cells] : IsFold(g, <<<<>>>>, CellStep, s)
    BY <1>1, FoldExists
  <2>2. IsIter(g)
    <3>1. ASSUME NEW I \in D
          PROVE  g[I] = IF I = {} THEN <<<<>>>> ELSE CellsWith(g[I \ {Max(I)}], s[Max(I)])
      <4>1. CASE I # {}
        <5>1. Max(I) \in 1..Len(s) /\ I \ {Max(I)} \in D
          <6>1. Len(s) \in Nat /\ I \subseteq 1..Len(s)
            OBVIOUS
          <6>2. Max(I) \in I
            BY <4>1, <6>1, Greatest
          <6> QED BY <6>1, <6>2
        <5>2. g[I] = CellStep[<<g[I \ {Max(I)}], s[Max(I)]>>]
          BY <2>1, <4>1 DEF IsFold
        <5>3. g[I \ {Max(I)}] \in Cells /\ s[Max(I)] \in Chars
          BY <2>1, <5>1
        <5> DEFINE x == g[I \ {Max(I)}] t == s[Max(I)]
        <5>4. CellStep[<<x, t>>] = CellsWith(x, t)
          <6> HIDE DEF x, t
          <6>1. x \in Cells /\ t \in Chars
            BY <5>3 DEF x, t
          <6> QED BY <6>1 DEF CellStep
        <5> QED BY <4>1, <5>2, <5>4
      <4>2. CASE I = {}
        BY <2>1, <4>2 DEF IsFold
      <4> QED BY <4>1, <4>2
    <3> QED BY <2>1, <3>1
  <2>3. IsIter(iter)
    <3> HIDE DEF IsIter
    <3> QED BY <2>2
  <2>4. F[s] = iter[1..Len(s)]
    <3>1. DOMAIN s = 1..Len(s)
      OBVIOUS
    <3>2. CellsOf(s) = iter[1..Len(s)]
      BY <3>1, Zenon DEF CellsOf, FoldLeft, MapThenFoldSet
    <3> QED BY <3>2
  <2>5. iter[{}] = <<<<>>>>
    BY <2>3
  <2>6. ASSUME NEW k \in 1..Len(s), iter[1..(k - 1)] \in Cells
        PROVE  iter[1..k] = CellStep[<<iter[1..(k - 1)], s[k]>>]
    <3>1. 1..k \in D /\ 1..k # {} /\ Max(1..k) = k /\ (1..k) \ {k} = 1..(k - 1)
      <4>1. Len(s) \in Nat
        OBVIOUS
      <4> QED BY <4>1, FirstPlaces
    <3> DEFINE x == iter[1..(k - 1)] t == s[k]
    <3>2. iter[1..k] = CellsWith(x, t)
      <4> HIDE DEF iter
      <4> QED BY <2>3, <3>1
    <3>3. x \in Cells /\ t \in Chars
      BY <2>6
    <3>4. CellStep[<<x, t>>] = CellsWith(x, t)
      <4> HIDE DEF x, t
      <4> QED BY <3>3 DEF CellStep
    <3> QED BY <3>2, <3>4
  <2> HIDE DEF iter, F, D, IsIter
  <2>8. Iterates(iter, Cells, <<<<>>>>, CellStep, s)
    BY <2>5, <2>6 DEF Iterates
  <2>7. EndsIn(iter[1..Len(s)], Cells, <<<<>>>>, CellStep, s)
    BY <1>1, <2>8, IterTraces
  <2> QED BY <2>4, <2>7
<1>3. F = [s \in Seq(Chars) |-> F[s]]
  OBVIOUS
<1> HIDE DEF F
<1>4. Folds(F, Cells, Chars, <<<<>>>>, CellStep)
  BY <1>1, <1>2, <1>3, TracedFolds
<1> QED BY <1>4 DEF F

-----------------------------------------------------------------------------
(* Markdown: tables.                                                       *)

\* The first or the last member taken off.
LEMMA TailFront ==
  ASSUME NEW S, NEW s \in Seq(S)
  PROVE  Front(s) \in Seq(S) /\ (s # <<>> => Tail(s) \in Seq(S))
<1>1. s # <<>> => Tail(s) \in Seq(S)
  OBVIOUS
<1> QED BY <1>1, FrontType

\* A row has cells, one at least.
LEMMA SplitRowType ==
  ASSUME NEW text \in Seq(Chars)
  PROVE  SplitRow(text) \in Cells
<1> DEFINE t == IF text # <<>> /\ Head(text) = "|" THEN Tail(text) ELSE text
           u == IF t # <<>> /\ Last(t) = "|" THEN Front(t) ELSE t
           F == [s \in Seq(Chars) |-> CellsOf(s)]
<1>1. t \in Seq(Chars)
  BY TailFront
<1> HIDE DEF t
<1>2. u \in Seq(Chars)
  BY <1>1, TailFront
<1>3. SplitRow(text) = CellsOf(u)
  BY DEF SplitRow, CellsOf, t
<1> HIDE DEF u
<1>4. CellsOf(u) = F[u]
  BY <1>2
<1>5. Folds(F, Cells, Chars, <<<<>>>>, CellStep)
  BY CellFolds
<1> HIDE DEF F
<1>6. F[u] \in Cells
  BY <1>2, <1>5 DEF Folds
<1> QED BY <1>3, <1>4, <1>6

\* The least of a set of naturals, 0 of the empty set.
LEMMA LeastIn ==
  ASSUME NEW S, S \subseteq Nat
  PROVE  (S # {} => Least(S) \in S) /\ (S = {} => Least(S) = 0) /\ Least(S) \in Nat
<1>1. CASE S # {}
  <2>1. \E j \in S : \A k \in S : j <= k
    BY <1>1, LeastNat
  <2>2. Least(S) \in S
    BY <1>1, <2>1 DEF Least
  <2> QED BY <1>1, <2>2
<1>2. CASE S = {}
  BY <1>2 DEF Least
<1> QED BY <1>1, <1>2

\* One member repeated.
LEMMA RepeatType ==
  ASSUME NEW S, NEW x \in S, NEW m \in Int
  PROVE  [k \in 1..m |-> x] \in Seq(S)
<1>1. CASE m >= 0
  BY <1>1
<1>2. CASE m < 0
  <2>1. 1..m = 1..0
    BY <1>2
  <2>2. [k \in 1..m |-> x] = [k \in 1..0 |-> x]
    BY <2>1
  <2>3. [k \in 1..0 |-> x] \in Seq(S)
    OBVIOUS
  <2> QED BY <2>2, <2>3
<1> QED BY <1>1, <1>2

\* Padding is text.
LEMMA SpacesType ==
  ASSUME NEW m \in Int
  PROVE  [k \in 1..m |-> " "] \in Seq(Chars)
<1> DEFINE x == " "
<1>1. x \in Chars
  BY DEF Chars
<1> HIDE DEF x
<1>2. [k \in 1..m |-> x] \in Seq(Chars)
  BY <1>1, RepeatType
<1> QED BY <1>2 DEF x

\* Sequences of two and of three.
LEMMA ThreeOf ==
  ASSUME NEW S, NEW a \in S, NEW b \in S, NEW c \in S
  PROVE  <<a, b, c>> \in Seq(S) /\ <<a, b>> \in Seq(S)
  OBVIOUS

\* A cell is text, the empty one that is not there too.
LEMMA CellAtType ==
  ASSUME NEW row \in Seq(Seq(Chars)), NEW c \in Nat \ {0}
  PROVE  CellAt(row, c) \in Seq(Chars)
<1>1. <<>> \in Seq(Chars)
  OBVIOUS
<1>2. c <= Len(row) => row[c] \in Seq(Chars)
  OBVIOUS
<1> QED BY <1>1, <1>2 DEF CellAt

\* So is a row with its end trimmed.
LEMMA TrimEndType ==
  ASSUME NEW s \in Seq(Chars)
  PROVE  TrimEnd(s) \in Seq(Chars)
<1> DEFINE n == {k \in 1..Len(s) : s[k] # " "}
           e == IF n = {} THEN 0 ELSE CHOOSE k \in n : \A j \in n : j <= k
<1>0. Len(s) \in Nat
  OBVIOUS
<1>1. e \in 0..Len(s)
  <2>1. CASE n = {}
    <3>1. e = 0
      BY <2>1
    <3> HIDE DEF n, e
    <3> QED BY <1>0, <3>1
  <2>2. CASE n # {}
    <3>1. n \subseteq 1..Len(s)
      OBVIOUS
    <3> HIDE DEF n
    <3>2. Max(n) \in n /\ \A j \in n : Max(n) >= j
      BY <1>0, <2>2, <3>1, Greatest
    <3>3. \E k \in n : \A j \in n : j <= k
      BY <1>0, <3>1, <3>2
    <3>4. e \in n
      BY <2>2, <3>3
    <3> HIDE DEF e
    <3>5. e \in 1..Len(s)
      BY <3>1, <3>4
    <3> QED BY <1>0, <3>5
  <2> QED BY <2>1, <2>2
<1>2. TrimEnd(s) = SubSeq(s, 1, e)
  BY DEF TrimEnd
<1> HIDE DEF e
<1>3. SubSeq(s, 1, e) \in Seq(Chars)
  BY <1>0, <1>1
<1> QED BY <1>2, <1>3

\* So is a row of the grid.
LEMMA FormatRowType ==
  ASSUME NEW row \in Seq(Seq(Chars)), NEW widths \in Seq(Nat)
  PROVE  FormatRow(row, widths) \in Seq(Chars)
<1> DEFINE spaces(c) == [k \in 1..(widths[c] - Len(CellAt(row, c))) |-> " "]
           padded == [c \in 1..Len(widths) |-> CellAt(row, c) \o spaces(c)]
           bar == <<" ", "|", " ">>
<1>1. ASSUME NEW c \in 1..Len(widths) PROVE CellAt(row, c) \o spaces(c) \in Seq(Chars)
  <2>1. CellAt(row, c) \in Seq(Chars) /\ widths[c] \in Nat
    BY CellAtType
  <2>2. widths[c] - Len(CellAt(row, c)) \in Int
    BY <2>1
  <2>3. spaces(c) \in Seq(Chars)
    BY <2>2, SpacesType
  <2> HIDE DEF spaces
  <2> QED BY <2>1, <2>3, ConcatProperties
<1> HIDE DEF spaces
<1>2. padded \in Seq(Seq(Chars))
  BY <1>1
<1>3. bar \in Seq(Chars)
  BY ThreeOf DEF Chars
<1>4. FormatRow(row, widths) = TrimEnd(Joined(padded, bar))
  BY DEF FormatRow, spaces
<1> HIDE DEF padded, bar
<1>5. Joined(padded, bar) \in Seq(Chars)
  <2> DEFINE P == Seq(Chars)
  <2>1. Closed(P, Chars) /\ <<>> \in P /\ bar \in P /\ padded \in Seq(P)
    BY <1>2, <1>3, ClosedSeq
  <2> HIDE DEF P
  <2>2. Joined(padded, bar) \in P
    BY <2>1, JoinedType
  <2> QED BY <2>2 DEF P
<1> QED BY <1>4, <1>5, TrimEndType

\* One of finitely many numbers is the greatest.
LEMMA GreatestValue ==
  ASSUME NEW n \in Nat \ {0}, NEW f \in [1..n -> Nat]
  PROVE  \E r \in 1..n : \A q \in 1..n : f[q] <= f[r]
<1> DEFINE P == {k \in Nat : k \in 1..n => \E r \in 1..k : \A q \in 1..k : f[q] <= f[r]}
<1>1. 0 \in P
  OBVIOUS
<1>2. ASSUME NEW k \in Nat, k \in P PROVE k + 1 \in P
  <2> SUFFICES ASSUME k + 1 \in 1..n PROVE \E r \in 1..(k + 1) : \A q \in 1..(k + 1) : f[q] <= f[r]
    OBVIOUS
  <2>1. CASE k = 0
    <3>1. \A q \in 1..(k + 1) : q = 1 /\ f[q] <= f[1]
      BY <2>1
    <3> QED BY <3>1
  <2>2. CASE k # 0
    <3>1. PICK r \in 1..k : \A q \in 1..k : f[q] <= f[r]
      BY <1>2, <2>2
    <3>2. f[r] \in Nat /\ f[k + 1] \in Nat /\ r \in 1..(k + 1) /\ k + 1 \in 1..(k + 1)
      OBVIOUS
    <3>3. \A q \in 1..(k + 1) : q \in 1..k \/ q = k + 1
      OBVIOUS
    <3>4. \A q \in 1..k : f[q] \in Nat
      OBVIOUS
    <3>5. CASE f[k + 1] <= f[r]
      <4>1. \A q \in 1..(k + 1) : f[q] <= f[r]
        BY <3>1, <3>3, <3>5
      <4> QED BY <3>2, <4>1
    <3>6. CASE ~(f[k + 1] <= f[r])
      <4>1. \A q \in 1..(k + 1) : f[q] <= f[k + 1]
        BY <3>1, <3>2, <3>3, <3>4, <3>6
      <4> QED BY <3>2, <4>1
    <3> QED BY <3>5, <3>6
  <2> QED BY <2>1, <2>2
<1> HIDE DEF P
<1>3. \A k \in Nat : k \in P
  BY <1>1, <1>2, NatSet
<1>4. n \in P
  BY <1>3
<1>5. n \in 1..n
  OBVIOUS
<1> QED BY <1>4, <1>5 DEF P

\* The rows of a table: one or more, all of n columns.
Table(rows, n) ==
  /\ rows \in Seq(Seq(Seq(Chars))) /\ Len(rows) \in Nat \ {0} /\ n \in Nat \ {0}
  /\ \A r \in 1..Len(rows) : Len(rows[r]) = n

\* A cell of a table is text.
LEMMA CellIn ==
  ASSUME NEW rows, NEW n, Table(rows, n), NEW r \in 1..Len(rows), NEW c \in 1..n
  PROVE  rows[r] \in Seq(Seq(Chars)) /\ rows[r][c] \in Seq(Chars) /\ Len(rows[r][c]) \in Nat
<1>1. rows[r] \in Seq(Seq(Chars)) /\ Len(rows[r]) = n
  BY DEF Table
<1> DEFINE row == rows[r]
<1> HIDE DEF row
<1>2. row \in Seq(Seq(Chars)) /\ Len(row) = n
  BY <1>1 DEF row
<1>3. row[c] \in Seq(Chars)
  BY <1>2
<1>4. Len(row[c]) \in Nat
  BY <1>3
<1> QED BY <1>1, <1>3, <1>4 DEF row

\* The width of a column.
WidestIn(rows, c) ==
  Len(rows[CHOOSE r \in 1..Len(rows) : \A q \in 1..Len(rows) : Len(rows[q][c]) <= Len(rows[r][c])][c])

\* A column has a width.
LEMMA WidestType ==
  ASSUME NEW rows, NEW n, Table(rows, n), NEW c \in 1..n
  PROVE  WidestIn(rows, c) \in Nat
<1> DEFINE f == [r \in 1..Len(rows) |-> Len(rows[r][c])]
           Widest(r) == \A q \in 1..Len(rows) : Len(rows[q][c]) <= Len(rows[r][c])
<1>1. f \in [1..Len(rows) -> Nat] /\ Len(rows) \in Nat \ {0}
  BY CellIn DEF Table
<1>2. \E r \in 1..Len(rows) : \A q \in 1..Len(rows) : f[q] <= f[r]
  <2> DEFINE m == Len(rows)
  <2> HIDE DEF f, m
  <2> QED BY <1>1, GreatestValue DEF m
<1>3. \E r \in 1..Len(rows) : Widest(r)
  BY <1>2
<1> DEFINE best == CHOOSE r \in 1..Len(rows) : Widest(r)
<1>4. best \in 1..Len(rows)
  <2> HIDE DEF Is
  <2> QED BY <1>3
<1>5. WidestIn(rows, c) = Len(rows[best][c])
  BY DEF WidestIn
<1> HIDE DEF best
<1> QED BY <1>4, <1>5, CellIn

\* The members of a sequence.
LEMMA SeqMember ==
  ASSUME NEW S, NEW s \in Seq(S)
  PROVE  Len(s) \in Nat /\ \A k \in 1..Len(s) : s[k] \in S
  OBVIOUS

\* The number of lines.
LEMMA LinesLength ==
  ASSUME NEW lines \in Lines
  PROVE  Len(lines) \in Nat
  BY SeqMember, Zenon DEF Lines

\* The text of a line.
LEMMA LineText ==
  ASSUME NEW lines \in Lines, NEW k \in 1..Len(lines)
  PROVE  lines[k].text \in Seq(STRING) /\ lines[k].text \in Seq(Chars)
<1>1. lines[k] \in [kind : LineKinds, text : Seq(STRING)]
  BY SeqMember, Zenon DEF Lines
<1>2. lines[k].text \in Seq(STRING)
  BY <1>1
<1> QED BY <1>2, TextIsChars

\* A table ends below its rule, with the text at the latest.
LEMMA TableEndIn ==
  ASSUME NEW lines \in Lines, NEW i \in Nat \ {0}, i < Len(lines)
  PROVE  TableEnd(lines, i) \in (i + 2)..(Len(lines) + 1)
<1> DEFINE n == Len(lines)
           S == {j \in (i + 2)..(n + 1) : j <= n => ~IsTableRow(lines[j]) \/ IsSeparator(lines[j])}
<1>1. n \in Nat
  BY LinesLength
<1>2. n + 1 \in S
  <2>1. n + 1 \in (i + 2)..(n + 1) /\ ~(n + 1 <= n)
    <3> HIDE DEF n
    <3> QED BY <1>1 DEF n
  <2> QED BY <2>1
<1>3. S \subseteq (i + 2)..(n + 1)
  OBVIOUS
<1>4. TableEnd(lines, i) = Least(S)
  BY DEF TableEnd
<1> HIDE DEF S, n
<1>5. S \subseteq Nat
  BY <1>1, <1>3
<1>6. Least(S) \in S
  BY <1>2, <1>5, LeastIn
<1> QED BY <1>3, <1>4, <1>6 DEF n

\* A row cut or filled to n cells.
LEMMA RowCut ==
  ASSUME NEW row \in Seq(Seq(Chars)), NEW n \in Nat
  PROVE  LET cut == [c \in 1..n |-> CellAt(row, c)]
         IN cut \in Seq(Seq(Chars)) /\ Len(cut) = n
<1>1. \A c \in 1..n : CellAt(row, c) \in Seq(Chars)
  BY CellAtType
<1> QED BY <1>1

\* So all rows of a table have as many cells as its header.
LEMMA TableRowsType ==
  ASSUME NEW lines \in Lines, NEW i \in Nat \ {0}, i < Len(lines)
  PROVE  \E n \in Nat : Table(TableRows(lines, i), n)
<1> DEFINE header == SplitRow(lines[i].text)
           m == TableEnd(lines, i) - i - 2
           n == Len(header)
           cut(k) == [c \in 1..n |-> CellAt(SplitRow(lines[i + 1 + k].text), c)]
           below == [k \in 1..m |-> cut(k)]
           rows == TableRows(lines, i)
<1>1. rows = <<header>> \o below
  BY DEF TableRows
<1>2. m \in Nat /\ i \in 1..Len(lines) /\ \A k \in 1..m : i + 1 + k \in 1..Len(lines)
  <2>1. TableEnd(lines, i) \in (i + 2)..(Len(lines) + 1) /\ Len(lines) \in Nat
    BY TableEndIn, LinesLength
  <2> QED BY <2>1
<1>3. header \in Seq(Seq(Chars)) /\ n \in Nat \ {0}
  <2>1. header \in Cells
    BY <1>2, LineText, SplitRowType
  <2> HIDE DEF header
  <2> QED BY <2>1 DEF Cells
<1>4. ASSUME NEW k \in 1..m PROVE cut(k) \in Seq(Seq(Chars)) /\ Len(cut(k)) = n
  <2>1. SplitRow(lines[i + 1 + k].text) \in Cells
    BY <1>2, LineText, SplitRowType
  <2>2. SplitRow(lines[i + 1 + k].text) \in Seq(Seq(Chars))
    BY <2>1 DEF Cells
  <2> DEFINE row == SplitRow(lines[i + 1 + k].text)
  <2> HIDE DEF row, n
  <2>3. [c \in 1..n |-> CellAt(row, c)] \in Seq(Seq(Chars)) /\ Len([c \in 1..n |-> CellAt(row, c)]) = n
    BY <1>3, <2>2, RowCut DEF row
  <2> QED BY <2>3 DEF row
<1> HIDE DEF cut
<1> DEFINE S == Seq(Seq(Chars))
<1>5. below \in Seq(S) /\ Len(below) = m /\ \A k \in 1..m : Len(below[k]) = n
  <2> HIDE DEF S, m, n
  <2> QED BY <1>2, <1>4 DEF S
<1>6. <<header>> \in Seq(S) /\ Len(<<header>>) = 1 /\ <<header>>[1] = header
  <2> HIDE DEF S, header
  <2> QED BY <1>3 DEF S
<1> DEFINE one == <<header>>
<1> HIDE DEF one, below, m
<1>7. /\ one \o below \in Seq(S) /\ Len(one \o below) = Len(one) + Len(below)
      /\ \A k \in 1..(Len(one) + Len(below)) :
           (one \o below)[k] = IF k <= Len(one) THEN one[k] ELSE below[k - Len(one)]
  BY <1>5, <1>6, ConcatProperties DEF one
<1>8. Len(one) = 1 /\ one[1] = header /\ rows = one \o below
  BY <1>1, <1>6 DEF one
<1> HIDE DEF rows, header, S
<1>9. rows \in Seq(S) /\ Len(rows) = 1 + m
  BY <1>5, <1>7, <1>8
<1>10. ASSUME NEW r \in 1..Len(rows) PROVE Len(rows[r]) = n
  <2>1. CASE r = 1
    BY <1>2, <1>5, <1>7, <1>8, <2>1 DEF n
  <2>2. CASE r # 1
    <3>1. r - 1 \in 1..m /\ rows[r] = below[r - 1]
      BY <1>2, <1>5, <1>7, <1>8, <1>9, <2>2
    <3> QED BY <1>5, <3>1
  <2> QED BY <2>1, <2>2
<1>11. Table(rows, n)
  BY <1>2, <1>3, <1>9, <1>10 DEF Table, S
<1> QED BY <1>3, <1>11 DEF rows

\* A table as records.
RecordLine(header, row, c) ==
  <<Newline>> \o Escape(<<" ", " ">> \o header[c + 1] \o <<":", " ">> \o row[c + 1])

\* A row of a table that is too wide, as a record.
RecordOf(header, row) ==
  Wrap("b", Escape(row[1])) \o FlattenSeq([c \in 1..(Len(header) - 1) |-> RecordLine(header, row, c)])

\* A line of a record is well-formed.
LEMMA RecordLineGood ==
  ASSUME NEW name \in Seq(Chars), NEW cell \in Seq(Chars)
  PROVE  <<Newline>> \o Escape(<<" ", " ">> \o name \o <<":", " ">> \o cell) \in Good
<1> DEFINE a == <<" ", " ">> b == <<":", " ">>
<1>1. a \in Seq(Chars) /\ b \in Seq(Chars)
  BY ThreeOf DEF Chars
<1> HIDE DEF a, b
<1>2. a \o name \in Seq(Chars)
  BY <1>1, ConcatProperties
<1>3. (a \o name) \o b \in Seq(Chars)
  BY <1>1, <1>2, ConcatProperties
<1>4. ((a \o name) \o b) \o cell \in Seq(Chars)
  BY <1>3, ConcatProperties
<1> DEFINE e == ((a \o name) \o b) \o cell
<1>5. Escape(e) \in Good
  <2> HIDE DEF e
  <2>1. e \in Seq(Chars)
    BY <1>4 DEF e
  <2> QED BY <2>1, GoodEscape
<1> HIDE DEF e
<1>6. <<Newline>> \o Escape(e) \in Good
  BY <1>5, NewlineToken, GoodConcat
<1> QED BY <1>6 DEF e, a, b

\* So is a record.
LEMMA RecordGood ==
  ASSUME NEW header \in Seq(Seq(Chars)), NEW row \in Seq(Seq(Chars)), header # <<>>,
         Len(row) = Len(header)
  PROVE  RecordOf(header, row) \in Good
<1> DEFINE n == Len(header)
           body == [c \in 1..(n - 1) |-> RecordLine(header, row, c)]
<1>0. n \in Nat \ {0}
  OBVIOUS
<1>1. ASSUME NEW c \in 1..(n - 1) PROVE RecordLine(header, row, c) \in Good
  <2>1. c + 1 \in 1..Len(header) /\ c + 1 \in 1..Len(row)
    BY <1>0
  <2>2. header[c + 1] \in Seq(Chars) /\ row[c + 1] \in Seq(Chars)
    BY <2>1
  <2> QED BY <2>2, RecordLineGood DEF RecordLine
<1>2. body \in Seq(Good)
  <2> HIDE DEF n
  <2> QED BY <1>0, <1>1
<1>3. FlattenSeq(body) \in Good
  <2> HIDE DEF body
  <2> QED BY <1>2, GoodSeqs, GoodEmpty, GoodConcat, FlattenInto
<1>4. row[1] \in Seq(Chars)
  BY <1>0
<1>5. Wrap("b", Escape(row[1])) \in Good
  BY <1>4, GoodEscape, GoodWrap DEF Tags
<1> HIDE DEF body
<1>6. Wrap("b", Escape(row[1])) \o FlattenSeq(body) \in Good
  BY <1>3, <1>5, GoodConcat
<1> QED BY <1>6 DEF RecordOf, body

\* So are well-formed texts joined by one.
LEMMA JoinedGoods ==
  ASSUME NEW separator \in Good, NEW parts \in Seq(Good)
  PROVE  Joined(parts, separator) \in Good
  BY ClosedGood, GoodEmpty, JoinedType

\* So is a table, as a grid or as records.
LEMMA TableGood ==
  ASSUME NEW rows, NEW n \in Nat, Table(rows, n)
  PROVE  RenderTable(rows) \in Good
<1> DEFINE header == rows[1]
           widths == [c \in 1..Len(header) |-> WidestIn(rows, c)]
           grid == [r \in 1..Len(rows) |-> Escape(FormatRow(rows[r], widths))]
           records == [r \in 1..(Len(rows) - 1) |-> RecordOf(header, rows[r + 1])]
<1>1. \/ RenderTable(rows) = Wrap("pre", Joined(grid, <<Newline>>))
      \/ RenderTable(rows) = Joined(records, <<Newline, Newline>>)
  BY DEF RenderTable, WidestIn, RecordOf, RecordLine
<1>2. Len(rows) \in Nat \ {0} /\ n \in Nat \ {0} /\ 1 \in 1..Len(rows)
  BY DEF Table
<1>3. \A r \in 1..Len(rows) : rows[r] \in Seq(Seq(Chars)) /\ Len(rows[r]) = n
  BY DEF Table
<1>4. header \in Seq(Seq(Chars)) /\ Len(header) = n
  BY <1>2, <1>3
<1>5. widths \in Seq(Nat)
  <2>1. \A c \in 1..n : WidestIn(rows, c) \in Nat
    BY WidestType
  <2> HIDE DEF header
  <2> QED BY <1>2, <1>4, <2>1
<1> HIDE DEF widths
<1>6. grid \in Seq(Good)
  <2>1. \A r \in 1..Len(rows) : Escape(FormatRow(rows[r], widths)) \in Good
    BY <1>3, <1>5, FormatRowType, GoodEscape
  <2> QED BY <1>2, <2>1
<1>7. records \in Seq(Good)
  <2>1. ASSUME NEW r \in 1..(Len(rows) - 1) PROVE RecordOf(header, rows[r + 1]) \in Good
    <3>1. r + 1 \in 1..Len(rows) /\ header # <<>>
      <4>1. Len(header) # 0
        BY <1>2, <1>4
      <4> HIDE DEF header
      <4>2. header # <<>>
        BY <4>1
      <4>3. r + 1 \in 1..Len(rows)
        BY <1>2
      <4> QED BY <4>2, <4>3
    <3> HIDE DEF header
    <3> QED BY <1>3, <1>4, <3>1, RecordGood
  <2> HIDE DEF header
  <2> QED BY <1>2, <2>1
<1> HIDE DEF grid, records
<1>8. Wrap("pre", Joined(grid, <<Newline>>)) \in Good
  <2>1. Joined(grid, <<Newline>>) \in Good
    BY <1>6, NewlineToken, JoinedGoods
  <2> QED BY <2>1, GoodWrap DEF Tags
<1>9. <<Newline, Newline>> \in Good
  <2> DEFINE x == Newline
  <2>1. x \in Atoms
    BY NewlineToken
  <2> HIDE DEF x
  <2>2. <<x, x>> \in Seq(Atoms)
    BY <2>1, ThreeOf
  <2> QED BY <2>2, GoodAtoms DEF x
<1>10. Joined(records, <<Newline, Newline>>) \in Good
  BY <1>7, <1>9, JoinedGoods
<1> QED BY <1>1, <1>8, <1>10

-----------------------------------------------------------------------------
(* Markdown: spans.                                                        *)

\* The text of a line.
LineTexts == Seq(STRING)

\* It is of characters.
LEMMA TextType ==
  ASSUME NEW s \in LineTexts
  PROVE  s \in Seq(Chars) /\ Len(s) \in Nat
<1>1. s \in Seq(Chars)
  BY TextIsChars DEF LineTexts
<1> QED BY <1>1

\* A part of a sequence, and its length.
LEMMA SubSeqIn ==
  ASSUME NEW S, NEW s \in Seq(S), NEW m \in Nat \ {0}, NEW n \in Nat, n <= Len(s)
  PROVE  SubSeq(s, m, n) \in Seq(S) /\ Len(SubSeq(s, m, n)) = IF m <= n THEN n - m + 1 ELSE 0
  OBVIOUS

\* A part of a text, and its length.
LEMMA SubText ==
  ASSUME NEW s \in LineTexts, NEW m \in Nat \ {0}, NEW n \in Nat, n <= Len(s)
  PROVE  SubSeq(s, m, n) \in LineTexts /\ Len(SubSeq(s, m, n)) = IF m <= n THEN n - m + 1 ELSE 0
<1>1. SubSeq(s, m, n) \in Seq(STRING)
  BY SubSeqIn, Zenon DEF LineTexts
<1>2. s \in Seq(Chars)
  BY TextType
<1> QED BY <1>1, <1>2, SubSeqIn DEF LineTexts

\* What is searched for is found behind where the search starts, or not at all.
LEMMA FindIn ==
  ASSUME NEW s \in LineTexts, NEW from \in Nat, NEW c
  PROVE  /\ Find(s, from, c) \in Nat /\ FindDouble(s, from, c) \in Nat /\ FindUrlClose(s, from) \in Nat
         /\ Find(s, from, c) # 0 => Find(s, from, c) \in from..Len(s)
         /\ FindDouble(s, from, c) # 0 => FindDouble(s, from, c) \in from..(Len(s) - 1)
         /\ FindUrlClose(s, from) # 0 => FindUrlClose(s, from) \in from..Len(s)
<1> DEFINE n == Len(s)
           A == {j \in from..n : s[j] = c}
           B == {j \in from..(n - 1) : s[j] = c /\ s[j + 1] = c}
           C == {j \in from..n : s[j] = ")" /\ Count(s, from, j - 1, "(") = Count(s, from, j - 1, ")")}
<1>1. n \in Nat
  BY TextType
<1>2. A \subseteq from..n /\ B \subseteq from..(n - 1) /\ C \subseteq from..n
  OBVIOUS
<1>3. Find(s, from, c) = Least(A) /\ FindDouble(s, from, c) = Least(B) /\ FindUrlClose(s, from) = Least(C)
  BY DEF Find, FindDouble, FindUrlClose
<1> HIDE DEF A, B, C, n
<1>4. from..n \subseteq Nat /\ from..(n - 1) \subseteq Nat
  BY <1>1
<1>5. /\ Least(A) \in Nat /\ (Least(A) # 0 => Least(A) \in A)
      /\ Least(B) \in Nat /\ (Least(B) # 0 => Least(B) \in B)
      /\ Least(C) \in Nat /\ (Least(C) # 0 => Least(C) \in C)
  <2>1. A \subseteq Nat /\ B \subseteq Nat /\ C \subseteq Nat
    BY <1>2, <1>4
  <2> QED BY <2>1, LeastIn
<1> QED BY <1>2, <1>3, <1>5 DEF n

\* No span, or one within s after its i-th character.
IsSpan(span, s, i) ==
  \/ span = NoSpan
  \/ /\ span.tag \in Tags /\ span.from \in Nat /\ span.to \in Nat /\ span.next \in Nat
     /\ i < span.from /\ span.to < Len(s) /\ i < span.next

\* Code is such a span.
LEMMA CodeSpan ==
  ASSUME NEW s \in LineTexts, NEW i \in 1..Len(s)
  PROVE  IsSpan(CodeAt(s, i), s, i)
<1> DEFINE close == Find(s, i + 1, Backtick)
<1>1. close \in Nat /\ (close # 0 => close \in (i + 1)..Len(s)) /\ Len(s) \in Nat
  BY FindIn, TextType
<1>2. CodeAt(s, i) = NoSpan \/ (close # 0 /\ CodeAt(s, i) = Span("code", i + 1, close - 1, close + 1))
  BY DEF CodeAt
<1> HIDE DEF close
<1> QED BY <1>1, <1>2 DEF IsSpan, Span, Tags

\* So is a link.
LEMMA LinkSpan ==
  ASSUME NEW s \in LineTexts, NEW i \in 1..Len(s)
  PROVE  IsSpan(LinkAt(s, i), s, i)
<1> DEFINE closeText == Find(s, i + 1, "]")
           closeUrl == FindUrlClose(s, closeText + 2)
<1>1. closeText \in Nat /\ (closeText # 0 => closeText \in (i + 1)..Len(s)) /\ Len(s) \in Nat
  BY FindIn, TextType
<1>2. closeUrl \in Nat /\ (closeUrl # 0 => closeUrl \in (closeText + 2)..Len(s))
  <2> HIDE DEF closeText
  <2>1. closeText + 2 \in Nat
    BY <1>1
  <2> QED BY <2>1, FindIn
<1>3. \/ LinkAt(s, i) = NoSpan
      \/ closeText # 0 /\ closeUrl # 0 /\ LinkAt(s, i) = Span("a", i + 1, closeText - 1, closeUrl + 1)
  BY DEF LinkAt
<1> HIDE DEF closeText, closeUrl
<1> QED BY <1>1, <1>2, <1>3 DEF IsSpan, Span, Tags

\* So is what has two marks on each side.
LEMMA DoubleSpan ==
  ASSUME NEW s \in LineTexts, NEW i \in 1..Len(s), NEW tag \in Tags, NEW delims
  PROVE  IsSpan(DoubleAt(s, i, tag, delims), s, i)
<1> DEFINE close == FindDouble(s, i + 2, s[i])
<1>1. close \in Nat /\ (close # 0 => close \in (i + 2)..(Len(s) - 1)) /\ Len(s) \in Nat
  BY FindIn, TextType
<1>2. \/ DoubleAt(s, i, tag, delims) = NoSpan
      \/ close > i + 2 /\ DoubleAt(s, i, tag, delims) = Span(tag, i + 2, close - 1, close + 2)
  BY DEF DoubleAt
<1> HIDE DEF close
<1> QED BY <1>1, <1>2 DEF IsSpan, Span

\* So is what has one.
LEMMA ItalicSpan ==
  ASSUME NEW s \in LineTexts, NEW i \in 1..Len(s)
  PROVE  IsSpan(ItalicAt(s, i), s, i)
<1> DEFINE close == Find(s, i + 1, s[i])
<1>1. close \in Nat /\ (close # 0 => close \in (i + 1)..Len(s)) /\ Len(s) \in Nat
  BY FindIn, TextType
<1>2. \/ ItalicAt(s, i) = NoSpan
      \/ close > i + 1 /\ ItalicAt(s, i) = Span("i", i + 1, close - 1, close + 1)
  BY DEF ItalicAt
<1> HIDE DEF close
<1> QED BY <1>1, <1>2 DEF IsSpan, Span, Tags

\* So is whatever starts at a place.
LEMMA SpanAtIs ==
  ASSUME NEW s \in LineTexts, NEW i \in 1..Len(s)
  PROVE  IsSpan(SpanAt(s, i), s, i)
<1> DEFINE spans == <<CodeAt(s, i), LinkAt(s, i), DoubleAt(s, i, "b", {"*", "_"}),
                      DoubleAt(s, i, "s", {"~"}), ItalicAt(s, i)>>
           found == {k \in 1..Len(spans) : spans[k] # NoSpan}
<1>1. \A k \in 1..5 : IsSpan(spans[k], s, i)
  <2>1. "b" \in Tags /\ "s" \in Tags
    BY DEF Tags
  <2>2. IsSpan(DoubleAt(s, i, "b", {"*", "_"}), s, i) /\ IsSpan(DoubleAt(s, i, "s", {"~"}), s, i)
    BY <2>1, DoubleSpan
  <2>3. IsSpan(CodeAt(s, i), s, i) /\ IsSpan(LinkAt(s, i), s, i) /\ IsSpan(ItalicAt(s, i), s, i)
    BY CodeSpan, LinkSpan, ItalicSpan
  <2> DEFINE v1 == CodeAt(s, i) v2 == LinkAt(s, i) v3 == DoubleAt(s, i, "b", {"*", "_"})
             v4 == DoubleAt(s, i, "s", {"~"}) v5 == ItalicAt(s, i)
  <2>4. spans = <<v1, v2, v3, v4, v5>>
    OBVIOUS
  <2>5. IsSpan(v1, s, i) /\ IsSpan(v2, s, i) /\ IsSpan(v3, s, i) /\ IsSpan(v4, s, i) /\ IsSpan(v5, s, i)
    BY <2>2, <2>3
  <2> HIDE DEF v1, v2, v3, v4, v5, spans
  <2> QED BY <2>4, <2>5
<1>2. Len(spans) = 5
  OBVIOUS
<1>3. SpanAt(s, i) = IF found = {} THEN NoSpan ELSE spans[Least(found)]
  BY DEF SpanAt, FirstSpan
<1>4. found \subseteq 1..5
  BY <1>2
<1> HIDE DEF spans, found
<1>5. found # {} => Least(found) \in 1..5
  <2>1. found \subseteq Nat
    BY <1>4
  <2> QED BY <1>4, <2>1, LeastIn
<1>6. IsSpan(NoSpan, s, i)
  BY DEF IsSpan
<1> QED BY <1>1, <1>3, <1>5, <1>6

-----------------------------------------------------------------------------
(* Markdown: a line.                                                       *)

\* The places of render_inline: a text, a position and a depth.
Places == LineTexts \X (Nat \ {0}) \X Nat
SpanOf(p) == SpanAt(p[1], p[2])
ContentOf(p) == SubSeq(p[1], SpanOf(p).from, SpanOf(p).to)
Onwards(p) == <<p[1], p[2] + 1, p[3]>>
Inside(p) == <<ContentOf(p), 1, p[3] + 1>>
After(p) == <<p[1], SpanOf(p).next, p[3]>>
Left == [p \in Places |-> IF p[2] > Len(p[1]) THEN 0 ELSE Len(p[1]) + 1 - p[2]]

\* What InlineFrom does at a place, with f for what it does elsewhere.
InnerOf(f, p) ==
  IF SpanOf(p).tag = "code" \/ p[3] + 1 >= MaxInlineDepth
  THEN Escape(ContentOf(p)) ELSE f[Inside(p)]

\* What render_inline makes of a place, from what f makes of those it calls
\* itself with.
Inlined(f, p) ==
  IF p[2] > Len(p[1]) THEN <<>>
  ELSE IF SpanOf(p) = NoSpan
       THEN <<Atom(p[1][p[2]])>> \o f[Onwards(p)]
       ELSE Wrap(SpanOf(p).tag, InnerOf(f, p)) \o f[After(p)]

\* What a place is made of.
LEMMA PlaceFields ==
  ASSUME NEW p \in Places
  PROVE  /\ p[1] \in LineTexts /\ p[2] \in Nat \ {0} /\ p[3] \in Nat /\ Len(p[1]) \in Nat
         /\ Left[p] = IF p[2] > Len(p[1]) THEN 0 ELSE Len(p[1]) + 1 - p[2]
         /\ Left[p] \in Nat
<1>1. p[1] \in LineTexts /\ p[2] \in Nat \ {0} /\ p[3] \in Nat
  BY DEF Places
<1>2. Len(p[1]) \in Nat
  BY <1>1, TextType
<1>3. Left[p] = IF p[2] > Len(p[1]) THEN 0 ELSE Len(p[1]) + 1 - p[2]
  BY DEF Left
<1> QED BY <1>1, <1>2, <1>3

\* What is left from a place to the end of its text.
LEMMA PlaceIn ==
  ASSUME NEW s \in LineTexts, NEW i \in Nat \ {0}, NEW depth \in Nat
  PROVE  /\ <<s, i, depth>> \in Places
         /\ Left[<<s, i, depth>>] = IF i > Len(s) THEN 0 ELSE Len(s) + 1 - i
  BY DEF Places, Left

\* The places it goes on from have less left.
LEMMA Smaller ==
  ASSUME NEW p \in Places, ~(p[2] > Len(p[1]))
  PROVE  /\ Onwards(p) \in Places /\ Left[Onwards(p)] < Left[p]
         /\ SpanOf(p) # NoSpan =>
              /\ After(p) \in Places /\ Left[After(p)] < Left[p]
              /\ Inside(p) \in Places /\ Left[Inside(p)] < Left[p]
              /\ ContentOf(p) \in LineTexts /\ SpanOf(p).tag \in Tags
<1> DEFINE s == p[1] i == p[2] depth == p[3] span == SpanOf(p) n == Len(s)
<1>1. s \in LineTexts /\ i \in Nat \ {0} /\ depth \in Nat /\ n \in Nat /\ i <= n /\ Left[p] = n + 1 - i
  BY PlaceFields
<1>2. IsSpan(span, s, i)
  BY <1>1, SpanAtIs DEF SpanOf
<1> HIDE DEF span, s, i, depth
<1>3. <<s, i + 1, depth>> \in Places /\ Left[<<s, i + 1, depth>>] < Left[p]
  <2>1. i + 1 \in Nat \ {0}
    BY <1>1
  <2>2. /\ <<s, i + 1, depth>> \in Places
        /\ Left[<<s, i + 1, depth>>] = IF i + 1 > n THEN 0 ELSE n + 1 - (i + 1)
    BY <1>1, <2>1, PlaceIn
  <2> QED BY <1>1, <2>2
<1>4. ASSUME span # NoSpan
      PROVE  /\ <<s, span.next, depth>> \in Places /\ Left[<<s, span.next, depth>>] < Left[p]
             /\ SubSeq(s, span.from, span.to) \in LineTexts /\ span.tag \in Tags
             /\ <<SubSeq(s, span.from, span.to), 1, depth + 1>> \in Places
             /\ Left[<<SubSeq(s, span.from, span.to), 1, depth + 1>>] < Left[p]
  <2>1. /\ span.tag \in Tags /\ span.from \in Nat /\ span.to \in Nat /\ span.next \in Nat
        /\ i < span.from /\ span.to < n /\ i < span.next
    BY <1>2, <1>4 DEF IsSpan
  <2> DEFINE from == span.from to == span.to next == span.next content == SubSeq(s, from, to)
  <2>2. from \in Nat \ {0} /\ next \in Nat \ {0} /\ to <= n
    BY <1>1, <2>1
  <2> HIDE DEF from, to, next
  <2>3. content \in LineTexts /\ Len(content) = IF from <= to THEN to - from + 1 ELSE 0
    BY <1>1, <2>1, <2>2, SubText DEF to
  <2> HIDE DEF content
  <2>4. <<s, next, depth>> \in Places /\ Left[<<s, next, depth>>] = IF next > n THEN 0 ELSE n + 1 - next
    BY <1>1, <2>2, PlaceIn
  <2>5. Left[<<s, next, depth>>] < Left[p]
    BY <1>1, <2>1, <2>2, <2>4 DEF next
  <2>6. depth + 1 \in Nat /\ 1 \in Nat \ {0}
    BY <1>1
  <2>7. /\ <<content, 1, depth + 1>> \in Places
        /\ Left[<<content, 1, depth + 1>>] = IF 1 > Len(content) THEN 0 ELSE Len(content) + 1 - 1
    BY <2>3, <2>6, PlaceIn
  <2>8. Left[<<content, 1, depth + 1>>] < Left[p]
    BY <1>1, <2>1, <2>2, <2>3, <2>7 DEF from, to
  <2> QED BY <2>1, <2>3, <2>4, <2>5, <2>7, <2>8 DEF content, from, to, next
<1> QED BY <1>3, <1>4 DEF Onwards, After, Inside, ContentOf, span, s, i, depth

\* A line is well-formed where what it goes on with is.
LEMMA InlinedGood ==
  ASSUME NEW p \in Places, NEW f, \A q \in Places : Left[q] < Left[p] => f[q] \in Good
  PROVE  Inlined(f, p) \in Good
<1>1. CASE p[2] > Len(p[1])
  BY <1>1, GoodEmpty DEF Inlined
<1>2. CASE ~(p[2] > Len(p[1])) /\ SpanOf(p) = NoSpan
  <2>1. f[Onwards(p)] \in Good
    BY <1>2, Smaller
  <2> DEFINE c == p[1][p[2]]
  <2>2. c \in Chars
    <3>1. p[1] \in Seq(Chars) /\ p[2] \in 1..Len(p[1])
      BY <1>2, PlaceFields, TextType
    <3> QED BY <3>1
  <2> HIDE DEF c
  <2>3. Atom(c) \in Atoms
    BY <2>2 DEF Atom, Atoms
  <2>4. <<Atom(c)>> \in Good
    BY <2>3, OneOf, GoodAtoms
  <2>5. <<Atom(c)>> \o f[Onwards(p)] \in Good
    BY <2>1, <2>4, GoodConcat
  <2> QED BY <1>2, <2>5 DEF Inlined, c
<1>3. CASE ~(p[2] > Len(p[1])) /\ SpanOf(p) # NoSpan
  <2>1. f[After(p)] \in Good /\ f[Inside(p)] \in Good /\ ContentOf(p) \in LineTexts /\ SpanOf(p).tag \in Tags
    BY <1>3, Smaller
  <2>2. Escape(ContentOf(p)) \in Good
    BY <2>1, TextType, GoodEscape
  <2>3. InnerOf(f, p) \in Good
    BY <2>1, <2>2 DEF InnerOf
  <2>4. Wrap(SpanOf(p).tag, InnerOf(f, p)) \in Good
    BY <2>1, <2>3, GoodWrap
  <2>5. Wrap(SpanOf(p).tag, InnerOf(f, p)) \o f[After(p)] \in Good
    BY <2>1, <2>4, GoodConcat
  <2> QED BY <1>3, <2>5 DEF Inlined
<1> QED BY <1>1, <1>2, <1>3

\* Only smaller places are asked for.
LEMMA InlinedSame ==
  ASSUME NEW p \in Places, NEW f, NEW g, \A q \in Places : Left[q] < Left[p] => f[q] = g[q]
  PROVE  Inlined(f, p) = Inlined(g, p)
<1>1. CASE p[2] > Len(p[1])
  BY <1>1 DEF Inlined
<1>2. CASE ~(p[2] > Len(p[1])) /\ SpanOf(p) = NoSpan
  <2>1. f[Onwards(p)] = g[Onwards(p)]
    BY <1>2, Smaller
  <2> QED BY <1>2, <2>1 DEF Inlined
<1>3. CASE ~(p[2] > Len(p[1])) /\ SpanOf(p) # NoSpan
  <2>1. f[After(p)] = g[After(p)] /\ f[Inside(p)] = g[Inside(p)]
    BY <1>3, Smaller
  <2>2. InnerOf(f, p) = InnerOf(g, p)
    BY <2>1 DEF InnerOf
  <2> QED BY <1>3, <2>1, <2>2 DEF Inlined
<1> QED BY <1>1, <1>2, <1>3

\* A function that solves the recursion of InlineFrom.
IsInlining(f) == f = [p \in Places |-> Inlined(f, p)]

\* There is one.
LEMMA InliningExists == \E f : IsInlining(f)
<1> DEFINE B == [x \in [Places -> Good] \X Places |-> Inlined(x[1], x[2])]
<1>1. Left \in [Places -> Nat] /\ Good # {}
  <2>1. \A p \in Places : Left[p] \in Nat
    BY PlaceFields
  <2>2. Left = [p \in Places |-> Left[p]]
    BY DEF Left
  <2> QED BY <2>1, <2>2, GoodEmpty
<1>2. B \in [[Places -> Good] \X Places -> Good]
  <2>1. ASSUME NEW x \in [Places -> Good] \X Places PROVE Inlined(x[1], x[2]) \in Good
    <3>1. x[1] \in [Places -> Good] /\ x[2] \in Places
      OBVIOUS
    <3> QED BY <3>1, InlinedGood
  <2> QED BY <2>1
<1>3. Descends(Places, Good, Left, B)
  <2> SUFFICES ASSUME NEW p \in Places, NEW f \in [Places -> Good], NEW g \in [Places -> Good],
                      \A q \in Places : Left[q] < Left[p] => f[q] = g[q]
               PROVE  B[<<f, p>>] = B[<<g, p>>]
    BY DEF Descends
  <2>1. Inlined(f, p) = Inlined(g, p)
    BY InlinedSame
  <2> QED BY <2>1
<1>4. \A f \in [Places -> Good] : \A p \in Places : B[<<f, p>>] = Inlined(f, p)
  OBVIOUS
<1> HIDE DEF B
<1>5. IsRecursion(Places, Good, Left, B)
  BY <1>1, <1>2, <1>3 DEF IsRecursion
<1>6. PICK f \in [Places -> Good] : \A p \in Places : f[p] = B[<<f, p>>]
  BY <1>5, RecursionHasSolution DEF HasSolution
<1>7. f = [p \in Places |-> Inlined(f, p)]
  BY <1>4, <1>6
<1> QED BY <1>7 DEF IsInlining

\* So InlineFrom is one.
LEMMA InlineFromIs == IsInlining(InlineFrom)
<1> DEFINE h == CHOOSE f : IsInlining(f)
<1>1. IsInlining(h)
  BY InliningExists
<1>2. InlineFrom = h
  BY Zenon DEF InlineFrom, IsInlining, Inlined, InnerOf, Places, LineTexts, SpanOf, ContentOf, Onwards, Inside, After
<1> QED BY <1>1, <1>2

\* Whatever is nested in a line, what is made of it is well-formed.
LEMMA InlineFromGood ==
  ASSUME NEW p \in Places
  PROVE  InlineFrom[p] \in Good
<1> DEFINE P == {n \in Nat : \A q \in Places : Left[q] = n => InlineFrom[q] \in Good}
<1>1. ASSUME NEW n \in Nat, \A k \in Nat : k < n => k \in P PROVE n \in P
  <2> SUFFICES ASSUME NEW q \in Places, Left[q] = n PROVE InlineFrom[q] \in Good
    OBVIOUS
  <2>1. \A r \in Places : Left[r] < Left[q] => InlineFrom[r] \in Good
    BY <1>1, PlaceFields
  <2>2. InlineFrom[q] = Inlined(InlineFrom, q)
    BY InlineFromIs DEF IsInlining
  <2> HIDE DEF P
  <2> QED BY <2>1, <2>2, InlinedGood
<1> HIDE DEF P
<1>2. \A n \in Nat : n \in P
  BY <1>1, NatStrong
<1>3. Left[p] \in Nat
  BY PlaceFields
<1> QED BY <1>2, <1>3 DEF P

\* So is a line.
LEMMA InlineGood ==
  ASSUME NEW s \in Seq(STRING)
  PROVE  RenderInline(s) \in Good
<1>1. <<s, 1, 0>> \in Places
  BY PlaceIn DEF LineTexts
<1> QED BY <1>1, InlineFromGood DEF RenderInline

-----------------------------------------------------------------------------
(* Markdown: blocks of lines.                                              *)

\* A block that ends after its first line.
IsBlock(block, i) == block.tokens \in Good /\ block.next \in Nat /\ i < block.next

\* The first place from j on that is in S, or the one after the last line.
LEMMA LeastUpTo ==
  ASSUME NEW j \in Nat, NEW n \in Nat, j <= n + 1, NEW S, S \subseteq j..(n + 1), n + 1 \in S
  PROVE  Least(S) \in S
<1>1. S \subseteq Nat
  OBVIOUS
<1> QED BY <1>1, LeastIn

\* Code is such a block.
LEMMA CodeBlockIs ==
  ASSUME NEW lines \in Lines, NEW i \in 1..Len(lines)
  PROVE  IsBlock(CodeBlock(lines, i), i)
<1> DEFINE n == Len(lines)
           S == {k \in (i + 1)..(n + 1) : k <= n => ~(~IsFence(lines[k]))}
           end == Least(S)
           line(k) == Escape(lines[i + k].text) \o <<Newline>>
           body == FlattenSeq([k \in 1..(end - i - 1) |-> line(k)])
<1>0. n \in Nat
  BY LinesLength
<1>1. end \in (i + 1)..(n + 1)
  <2>1. n + 1 \in S
    <3>1. n + 1 \in (i + 1)..(n + 1) /\ ~(n + 1 <= n)
      <4> HIDE DEF n
      <4> QED BY <1>0 DEF n
    <3> QED BY <3>1
  <2>2. S \subseteq (i + 1)..(n + 1) /\ i + 1 <= n + 1 /\ i + 1 \in Nat
    BY <1>0
  <2> HIDE DEF S, n
  <2>3. end \in S
    BY <1>0, <2>1, <2>2, LeastUpTo
  <2> QED BY <2>2, <2>3
<1>2. CodeBlock(lines, i) = [tokens |-> Wrap("pre", IF lines[i].kind = "tagged" THEN Wrap("language", body) ELSE body),
                             next |-> end + 1]
  BY DEF CodeBlock, EndOf
<1> HIDE DEF end, S
<1>3. ASSUME NEW k \in 1..(end - i - 1) PROVE line(k) \in Good
  <2>1. i + k \in 1..Len(lines)
    BY <1>0, <1>1
  <2>2. Escape(lines[i + k].text) \in Good
    BY <2>1, LineText, GoodEscape
  <2> QED BY <2>2, NewlineToken, GoodConcat
<1>4. body \in Good
  <2> DEFINE m == end - i - 1 parts == [k \in 1..m |-> line(k)]
  <2>1. m \in Nat
    BY <1>0, <1>1
  <2>2. \A k \in 1..m : line(k) \in Good
    BY <1>3
  <2> HIDE DEF m, line
  <2>3. parts \in Seq(Good)
    BY <2>1, <2>2
  <2> HIDE DEF parts
  <2>4. FlattenSeq(parts) \in Good
    BY <2>3, GoodSeqs, GoodEmpty, GoodConcat, FlattenInto
  <2> QED BY <2>4 DEF parts, m
<1> HIDE DEF body
<1>5. Wrap("language", body) \in Good
  BY <1>4, GoodWrap DEF Tags
<1> DEFINE inner == IF lines[i].kind = "tagged" THEN Wrap("language", body) ELSE body
<1>6. inner \in Good
  BY <1>4, <1>5
<1> HIDE DEF inner
<1>7. Wrap("pre", inner) \in Good
  BY <1>6, GoodWrap DEF Tags
<1>8. end + 1 \in Nat /\ i < end + 1
  BY <1>0, <1>1
<1> QED BY <1>2, <1>7, <1>8 DEF IsBlock, inner

\* So is a quote.
LEMMA BlockquoteIs ==
  ASSUME NEW lines \in Lines, NEW i \in 1..Len(lines), lines[i].kind = "quote"
  PROVE  IsBlock(Blockquote(lines, i), i)
<1> DEFINE n == Len(lines)
           S == {k \in i..(n + 1) : k <= n => ~(lines[k].kind = "quote")}
           end == Least(S)
           parts == [k \in 1..(end - i) |-> RenderInline(lines[i + k - 1].text)]
<1>0. n \in Nat
  BY LinesLength
<1>1. end \in (i + 1)..(n + 1)
  <2>1. n + 1 \in S
    <3>1. n + 1 \in i..(n + 1) /\ ~(n + 1 <= n)
      <4> HIDE DEF n
      <4> QED BY <1>0 DEF n
    <3> QED BY <3>1
  <2>2. S \subseteq i..(n + 1) /\ i <= n + 1 /\ i \in Nat
    BY <1>0
  <2>3. i \notin S
    BY <1>0
  <2> HIDE DEF S, n
  <2>4. end \in S
    BY <1>0, <2>1, <2>2, LeastUpTo
  <2> HIDE DEF end
  <2>5. end \in i..(n + 1) /\ end # i
    BY <2>2, <2>3, <2>4
  <2> QED BY <1>0, <2>2, <2>5
<1>2. Blockquote(lines, i) = [tokens |-> Wrap("blockquote", Joined(parts, <<Newline>>)), next |-> end]
  BY DEF Blockquote, EndOf
<1> HIDE DEF end, S
<1>3. ASSUME NEW k \in 1..(end - i) PROVE RenderInline(lines[i + k - 1].text) \in Good
  <2>1. i + k - 1 \in 1..Len(lines)
    BY <1>0, <1>1
  <2> QED BY <2>1, LineText, InlineGood
<1>4. parts \in Seq(Good)
  <2>1. end - i \in Nat
    BY <1>0, <1>1
  <2> QED BY <1>3, <2>1
<1> HIDE DEF parts
<1>5. Joined(parts, <<Newline>>) \in Good
  BY <1>4, NewlineToken, JoinedGoods
<1>6. Wrap("blockquote", Joined(parts, <<Newline>>)) \in Good
  BY <1>5, GoodWrap DEF Tags
<1>7. end \in Nat /\ i < end
  BY <1>0, <1>1
<1> QED BY <1>2, <1>6, <1>7 DEF IsBlock

\* A line that is a block of its own.
LEMMA LineBlockGood ==
  ASSUME NEW line, line.text \in Seq(STRING)
  PROVE  LineBlock(line) \in Good
<1> DEFINE r == RenderInline(line.text) bullet == <<"-", " ">>
<1>1. r \in Good
  BY InlineGood
<1>2. bullet \in Seq(Chars)
  BY ThreeOf DEF Chars
<1>3. LineBlock(line) \in {Wrap("u", Wrap("b", r)), Wrap("b", r), Escape(bullet) \o r, r}
  BY DEF LineBlock
<1> HIDE DEF r, bullet
<1>4. Wrap("b", r) \in Good
  BY <1>1, GoodWrap DEF Tags
<1>5. Wrap("u", Wrap("b", r)) \in Good
  BY <1>4, GoodWrap DEF Tags
<1>6. Escape(bullet) \o r \in Good
  BY <1>1, <1>2, GoodEscape, GoodConcat
<1> QED BY <1>1, <1>3, <1>4, <1>5, <1>6

\* Every block is such a one.
LEMMA BlockIs ==
  ASSUME NEW lines \in Lines, NEW i \in 1..Len(lines)
  PROVE  IsBlock(BlockAt(lines, i), i)
<1>1. CASE IsFence(lines[i])
  BY <1>1, CodeBlockIs DEF BlockAt
<1>2. CASE ~IsFence(lines[i]) /\ IsTableRow(lines[i]) /\ i < Len(lines) /\ IsSeparator(lines[i + 1])
  <2>1. BlockAt(lines, i) = [tokens |-> RenderTable(TableRows(lines, i)), next |-> TableEnd(lines, i)]
    BY <1>2 DEF BlockAt
  <2>2. i \in Nat \ {0} /\ Len(lines) \in Nat
    BY LinesLength
  <2>3. RenderTable(TableRows(lines, i)) \in Good
    BY <1>2, <2>2, TableRowsType, TableGood
  <2>4. TableEnd(lines, i) \in Nat /\ i < TableEnd(lines, i)
    BY <1>2, <2>2, TableEndIn
  <2> QED BY <2>1, <2>3, <2>4 DEF IsBlock
<1>3. CASE /\ ~IsFence(lines[i])
           /\ ~(IsTableRow(lines[i]) /\ i < Len(lines) /\ IsSeparator(lines[i + 1]))
  <2>1. BlockAt(lines, i) = IF lines[i].kind = "quote" THEN Blockquote(lines, i)
                            ELSE [tokens |-> LineBlock(lines[i]), next |-> i + 1]
    BY <1>3 DEF BlockAt
  <2>2. LineBlock(lines[i]) \in Good
    BY LineText, LineBlockGood
  <2>3. IsBlock([tokens |-> LineBlock(lines[i]), next |-> i + 1], i)
    <3>1. i + 1 \in Nat /\ i < i + 1
      BY LinesLength
    <3> QED BY <2>2, <3>1 DEF IsBlock
  <2>4. lines[i].kind = "quote" => IsBlock(Blockquote(lines, i), i)
    BY BlockquoteIs
  <2> QED BY <2>1, <2>3, <2>4
<1> QED BY <1>1, <1>2, <1>3

\* What RenderBlocks does from a line on, with f for what follows.
Blocked(lines, f, i) ==
  IF i > Len(lines) THEN <<>>
  ELSE (IF lines[i].kind = "blank" THEN <<>> ELSE <<BlockAt(lines, i).tokens>>) \o f[BlockAt(lines, i).next]

\* The lines left from a line on.
LinesLeft(lines) == [i \in Nat \ {0} |-> IF i > Len(lines) THEN 0 ELSE Len(lines) + 1 - i]

\* A block leaves fewer lines.
LEMMA NextBlock ==
  ASSUME NEW lines \in Lines, NEW i \in Nat \ {0}, ~(i > Len(lines))
  PROVE  /\ BlockAt(lines, i).tokens \in Good
         /\ BlockAt(lines, i).next \in Nat \ {0}
         /\ LinesLeft(lines)[BlockAt(lines, i).next] < LinesLeft(lines)[i]
<1>1. Len(lines) \in Nat /\ i \in 1..Len(lines)
  BY LinesLength
<1>2. IsBlock(BlockAt(lines, i), i)
  BY <1>1, BlockIs
<1> DEFINE next == BlockAt(lines, i).next
<1>3. BlockAt(lines, i).tokens \in Good /\ next \in Nat /\ i < next
  BY <1>2 DEF IsBlock
<1> HIDE DEF next
<1>4. next \in Nat \ {0}
  BY <1>3
<1>5. LinesLeft(lines)[next] < LinesLeft(lines)[i]
  BY <1>1, <1>3, <1>4 DEF LinesLeft
<1> QED BY <1>3, <1>4, <1>5 DEF next

\* The blocks from a line on are well-formed if those below are.
LEMMA BlockedGood ==
  ASSUME NEW lines \in Lines, NEW i \in Nat \ {0}, NEW f,
         \A q \in Nat \ {0} : LinesLeft(lines)[q] < LinesLeft(lines)[i] => f[q] \in Seq(Good)
  PROVE  Blocked(lines, f, i) \in Seq(Good)
<1>1. CASE i > Len(lines)
  <2>1. <<>> \in Seq(Good)
    OBVIOUS
  <2> QED BY <1>1, <2>1 DEF Blocked
<1>2. CASE ~(i > Len(lines))
  <2> DEFINE t == BlockAt(lines, i).tokens rest == f[BlockAt(lines, i).next]
             one == IF lines[i].kind = "blank" THEN <<>> ELSE <<t>>
  <2>1. t \in Good /\ rest \in Seq(Good)
    BY <1>2, NextBlock
  <2>2. Blocked(lines, f, i) = one \o rest
    BY <1>2 DEF Blocked
  <2> HIDE DEF t, rest
  <2>3. one \in Seq(Good)
    <3>1. <<t>> \in Seq(Good) /\ <<>> \in Seq(Good)
      BY <2>1
    <3> QED BY <3>1
  <2> HIDE DEF one
  <2> QED BY <2>1, <2>2, <2>3, ConcatProperties
<1> QED BY <1>1, <1>2

\* Only lines below are asked for.
LEMMA BlockedSame ==
  ASSUME NEW lines \in Lines, NEW i \in Nat \ {0}, NEW f, NEW g,
         \A q \in Nat \ {0} : LinesLeft(lines)[q] < LinesLeft(lines)[i] => f[q] = g[q]
  PROVE  Blocked(lines, f, i) = Blocked(lines, g, i)
<1>1. CASE i > Len(lines)
  BY <1>1 DEF Blocked
<1>2. CASE ~(i > Len(lines))
  <2>1. f[BlockAt(lines, i).next] = g[BlockAt(lines, i).next]
    BY <1>2, NextBlock
  <2> QED BY <1>2, <2>1 DEF Blocked
<1> QED BY <1>1, <1>2

\* A function that solves the recursion of BlocksFrom.
IsBlocking(lines, f) == f = [i \in Nat \ {0} |-> Blocked(lines, f, i)]

\* The lines left are a natural.
LEMMA LinesLeftType ==
  ASSUME NEW lines \in Lines
  PROVE  LinesLeft(lines) \in [Nat \ {0} -> Nat]
  BY LinesLength DEF LinesLeft

\* There is one.
LEMMA BlockingExists ==
  ASSUME NEW lines \in Lines
  PROVE  \E f : IsBlocking(lines, f)
<1> DEFINE D == Nat \ {0} R == Seq(Good) m == LinesLeft(lines)
           B == [x \in [D -> R] \X D |-> Blocked(lines, x[1], x[2])]
<1>1. m \in [D -> Nat] /\ R # {}
  <2>1. <<>> \in R
    OBVIOUS
  <2> QED BY <2>1, LinesLeftType
<1>2. B \in [[D -> R] \X D -> R]
  <2>1. ASSUME NEW x \in [D -> R] \X D PROVE Blocked(lines, x[1], x[2]) \in R
    <3>1. x[1] \in [D -> R] /\ x[2] \in D
      OBVIOUS
    <3>2. \A q \in D : x[1][q] \in Seq(Good)
      BY <3>1
    <3> QED BY <3>1, <3>2, BlockedGood
  <2> QED BY <2>1
<1>3. Descends(D, R, m, B)
  <2> SUFFICES ASSUME NEW p \in D, NEW f \in [D -> R], NEW g \in [D -> R],
                      \A q \in D : m[q] < m[p] => f[q] = g[q]
               PROVE  B[<<f, p>>] = B[<<g, p>>]
    BY DEF Descends
  <2>1. Blocked(lines, f, p) = Blocked(lines, g, p)
    BY BlockedSame
  <2> QED BY <2>1
<1>4. \A f \in [D -> R] : \A p \in D : B[<<f, p>>] = Blocked(lines, f, p)
  OBVIOUS
<1> HIDE DEF B, R, m
<1>5. IsRecursion(D, R, m, B)
  BY <1>1, <1>2, <1>3 DEF IsRecursion
<1>6. PICK f \in [D -> R] : \A p \in D : f[p] = B[<<f, p>>]
  BY <1>5, RecursionHasSolution DEF HasSolution
<1>7. f = [p \in D |-> Blocked(lines, f, p)]
  BY <1>4, <1>6
<1> QED BY <1>7 DEF IsBlocking

\* Every text is rendered to blocks that are well-formed.
LEMMA RenderBlocksGood ==
  ASSUME NEW lines \in Lines
  PROVE  RenderBlocks(lines) \in Seq(Good)
<1> DEFINE h == CHOOSE f : IsBlocking(lines, f)
<1>1. IsBlocking(lines, h)
  BY BlockingExists
<1>2. RenderBlocks(lines) = h[1]
  BY Zenon DEF RenderBlocks, IsBlocking, Blocked
<1> HIDE DEF h
<1> DEFINE m == LinesLeft(lines)
           P == {n \in Nat : \A i \in Nat \ {0} : m[i] = n => h[i] \in Seq(Good)}
<1>3. ASSUME NEW n \in Nat, \A k \in Nat : k < n => k \in P PROVE n \in P
  <2> SUFFICES ASSUME NEW i \in Nat \ {0}, m[i] = n PROVE h[i] \in Seq(Good)
    OBVIOUS
  <2>1. \A q \in Nat \ {0} : m[q] < m[i] => h[q] \in Seq(Good)
    <3>1. \A q \in Nat \ {0} : m[q] \in Nat
      BY LinesLeftType
    <3> HIDE DEF m
    <3> QED BY <1>3, <3>1
  <2>2. h[i] = Blocked(lines, h, i)
    BY <1>1 DEF IsBlocking
  <2> HIDE DEF P
  <2> QED BY <2>1, <2>2, BlockedGood
<1> HIDE DEF P
<1>4. \A n \in Nat : n \in P
  BY <1>3, NatStrong
<1>5. m[1] \in Nat
  BY LinesLeftType
<1>6. h[1] \in Seq(Good)
  BY <1>4, <1>5 DEF P
<1> QED BY <1>2, <1>6

\* The text of parts, one after the other, is the text of the parts joined.
LEMMA TextOfParts ==
  ASSUME NEW parts \in Seq(Seq(Tokens))
  PROVE  FlattenSeq([k \in 1..Len(parts) |-> StripTags(parts[k])]) = StripTags(FlattenSeq(parts))
<1>1. \A k \in 1..Len(parts) : parts[k] \in Seq(Tokens)
  OBVIOUS
<1>2. [k \in 1..Len(parts) |-> StripTags(parts[k])] = [k \in 1..Len(parts) |-> Mapped(parts[k], StripTag)]
  BY <1>1, StripTagsMapped
<1>3. FlattenSeq(parts) \in Seq(Tokens)
  BY FlattenType
<1>4. Mapped(FlattenSeq(parts), StripTag) = FlattenSeq([k \in 1..Len(parts) |-> Mapped(parts[k], StripTag)])
  BY StripTagType, MappedFlatten
<1> QED BY <1>2, <1>3, <1>4, StripTagsMapped

-----------------------------------------------------------------------------
(* The entries of MEMORY.md are read back as they were written: the header *)
(* of an entry is found behind any text, none is found in a content, and   *)
(* the file of entries is the text of the first before that of the others. *)

\* The lines that Trim keeps at both ends, and what is between them.
Kept(lines) == {k \in 1..Len(lines) : lines[k] # Blank}

\* Trim cuts at the first and at the last line that is not blank.
LEMMA TrimIs ==
  ASSUME NEW S, NEW lines \in Seq(S), NEW a \in Kept(lines), NEW b \in Kept(lines),
         \A k \in Kept(lines) : a <= k /\ k <= b
  PROVE  Trim(lines) = SubSeq(lines, a, b)
<1> DEFINE kept == Kept(lines)
<1>1. kept \subseteq 1..Len(lines) /\ kept # {} /\ Len(lines) \in Nat
  BY DEF Kept
<1>2. a \in kept /\ b \in kept /\ \A k \in kept : a <= k /\ k <= b
  OBVIOUS
<1>3. Trim(lines) = SubSeq(lines, CHOOSE k \in kept : \A j \in kept : k <= j,
                                  CHOOSE k \in kept : \A j \in kept : j <= k)
  BY <1>1 DEF Trim, Kept
<1> HIDE DEF kept
<1>4. (CHOOSE k \in kept : \A j \in kept : k <= j) = a
  <2> DEFINE c == CHOOSE k \in kept : \A j \in kept : k <= j
  <2>1. c \in kept /\ \A j \in kept : c <= j
    BY <1>2
  <2> HIDE DEF c
  <2>2. c <= a /\ a <= c /\ c \in Nat /\ a \in Nat
    BY <1>1, <1>2, <2>1
  <2>3. c = a
    BY <2>2
  <2> QED BY <2>3 DEF c
<1>5. (CHOOSE k \in kept : \A j \in kept : j <= k) = b
  <2> DEFINE c == CHOOSE k \in kept : \A j \in kept : j <= k
  <2>1. c \in kept /\ \A j \in kept : j <= c
    BY <1>2
  <2> HIDE DEF c
  <2>2. c <= b /\ b <= c /\ c \in Nat /\ b \in Nat
    BY <1>1, <1>2, <2>1
  <2>3. c = b
    BY <2>2
  <2> QED BY <2>3 DEF c
<1> QED BY <1>3, <1>4, <1>5

\* There are such two lines, unless all are blank.
LEMMA KeptEnds ==
  ASSUME NEW S, NEW lines \in Seq(S), Kept(lines) # {}
  PROVE  \E a, b \in Kept(lines) : \A k \in Kept(lines) : a <= k /\ k <= b
<1> DEFINE kept == Kept(lines)
<1>1. kept \subseteq 1..Len(lines) /\ kept # {} /\ Len(lines) \in Nat
  BY DEF Kept
<1> HIDE DEF kept
<1>2. kept \subseteq Nat
  BY <1>1
<1>3. PICK a \in kept : \A k \in kept : a <= k
  BY <1>1, <1>2, LeastNat
<1>4. Max(kept) \in kept /\ \A k \in kept : Max(kept) >= k
  BY <1>1, Greatest
<1>5. \A k \in kept : k <= Max(kept)
  BY <1>2, <1>4
<1> QED BY <1>3, <1>4, <1>5 DEF kept

\* Where all lines are blank nothing is left.
LEMMA TrimBlank ==
  ASSUME NEW lines, Kept(lines) = {}
  PROVE  Trim(lines) = <<>>
  BY DEF Trim, Kept

\* A blank line before the others goes.
LEMMA TrimPrepend ==
  ASSUME NEW S, NEW s \in Seq(S), Blank \in S
  PROVE  Trim(<<Blank>> \o s) = Trim(s)
<1> DEFINE t == <<Blank>> \o s
<1>1. t \in Seq(S) /\ Len(t) = Len(s) + 1 /\ Len(s) \in Nat /\ t[1] = Blank
      /\ \A k \in 1..Len(s) : t[k + 1] = s[k]
  <2> DEFINE e == Blank
  <2> HIDE DEF e
  <2>1. <<e>> \o s \in Seq(S) /\ Len(<<e>> \o s) = Len(s) + 1 /\ Len(s) \in Nat /\ (<<e>> \o s)[1] = e
        /\ \A k \in 1..Len(s) : (<<e>> \o s)[k + 1] = s[k]
    BY DEF e
  <2> QED BY <2>1 DEF e
<1> HIDE DEF t
<1>2. \A k \in Kept(t) : k - 1 \in Kept(s)
  <2> SUFFICES ASSUME NEW k \in Kept(t) PROVE k - 1 \in Kept(s)
    OBVIOUS
  <2>1. k \in 1..Len(t) /\ t[k] # Blank
    BY DEF Kept
  <2>2. k # 1 /\ k - 1 \in 1..Len(s)
    BY <1>1, <2>1
  <2>3. t[(k - 1) + 1] = s[k - 1]
    BY <1>1, <2>2
  <2>4. (k - 1) + 1 = k
    BY <1>1, <2>1
  <2> QED BY <2>1, <2>2, <2>3, <2>4 DEF Kept
<1>3. \A k \in Kept(s) : k + 1 \in Kept(t) /\ k \in 1..Len(s)
  BY <1>1 DEF Kept
<1>4. CASE Kept(s) = {}
  <2>1. Kept(t) = {}
    BY <1>2, <1>4
  <2> QED BY <1>4, <2>1, TrimBlank DEF t
<1>5. CASE Kept(s) # {}
  <2>1. PICK a \in Kept(s), b \in Kept(s) : \A k \in Kept(s) : a <= k /\ k <= b
    BY <1>5, KeptEnds
  <2>2. a \in 1..Len(s) /\ b \in 1..Len(s) /\ a + 1 \in Kept(t) /\ b + 1 \in Kept(t)
    BY <1>3, <2>1
  <2>3. \A k \in Kept(t) : a + 1 <= k /\ k <= b + 1
    <3> SUFFICES ASSUME NEW k \in Kept(t) PROVE a + 1 <= k /\ k <= b + 1
      OBVIOUS
    <3>1. k \in Nat /\ a <= k - 1 /\ k - 1 <= b
      BY <1>2, <2>1 DEF Kept
    <3> QED BY <2>2, <3>1
  <2>4. Trim(s) = SubSeq(s, a, b)
    BY <2>1, TrimIs
  <2>5. Trim(t) = SubSeq(t, a + 1, b + 1)
    BY <1>1, <2>2, <2>3, TrimIs
  <2>6. SubSeq(t, a + 1, b + 1) = SubSeq(s, a, b)
    BY <1>1, <2>2, SMTT(30)
  <2> QED BY <2>4, <2>5, <2>6 DEF t
<1> QED BY <1>4, <1>5

\* So does one behind them.
LEMMA TrimAppend ==
  ASSUME NEW S, NEW s \in Seq(S), Blank \in S
  PROVE  Trim(Append(s, Blank)) = Trim(s)
<1> DEFINE t == Append(s, Blank)
<1>1. t \in Seq(S) /\ Len(t) = Len(s) + 1 /\ Len(s) \in Nat /\ t[Len(s) + 1] = Blank
      /\ \A k \in 1..Len(s) : t[k] = s[k]
  <2> DEFINE e == Blank
  <2> HIDE DEF e
  <2>1. Append(s, e) \in Seq(S) /\ Len(Append(s, e)) = Len(s) + 1 /\ Len(s) \in Nat
        /\ Append(s, e)[Len(s) + 1] = e /\ \A k \in 1..Len(s) : Append(s, e)[k] = s[k]
    BY DEF e
  <2> QED BY <2>1 DEF e
<1> HIDE DEF t
<1>2. Kept(t) = Kept(s)
  <2>1. \A k \in 1..Len(t) : k \in 1..Len(s) \/ k = Len(s) + 1
    BY <1>1
  <2>2. 1..Len(s) \subseteq 1..Len(t)
    BY <1>1
  <2> QED BY <1>1, <2>1, <2>2 DEF Kept
<1>4. CASE Kept(s) = {}
  BY <1>2, <1>4, TrimBlank DEF t
<1>5. CASE Kept(s) # {}
  <2>1. PICK a \in Kept(s), b \in Kept(s) : \A k \in Kept(s) : a <= k /\ k <= b
    BY <1>5, KeptEnds
  <2>2. a \in 1..Len(s) /\ b \in 1..Len(s)
    BY <2>1 DEF Kept
  <2>4. Trim(s) = SubSeq(s, a, b)
    BY <2>1, TrimIs
  <2>5. Trim(t) = SubSeq(t, a, b)
    BY <1>1, <1>2, <2>1, TrimIs
  <2>6. SubSeq(t, a, b) = SubSeq(s, a, b)
    BY <1>1, <2>2
  <2> QED BY <2>4, <2>5, <2>6 DEF t
<1> QED BY <1>4, <1>5

\* The lines below line i that are not blank, and the first of them.
Below(lines, i) == {j \in (i + 1)..Len(lines) : lines[j] # Blank}
FirstBelow(lines, i) == CHOOSE k \in Below(lines, i) : \A m \in Below(lines, i) : k <= m

\* The two forms of a header.
Legacy(lines, i) == lines[i].heading /\ lines[i].text.form = "meta"
Current(lines, i) ==
  /\ lines[i].heading /\ lines[i].text.form = "word"
  /\ Below(lines, i) # {}
  /\ ~lines[FirstBelow(lines, i)].heading /\ lines[FirstBelow(lines, i)].text.form = "meta"

\* What try_parse_header_at finds, by the form of the header.
LEMMA HeaderCases ==
  ASSUME NEW lines, NEW i
  PROVE  /\ Legacy(lines, i) => TryParseHeaderAt(lines, i) = HeaderOf(lines[i].text, NoTitle, i + 1)
         /\ Current(lines, i) => TryParseHeaderAt(lines, i)
              = HeaderOf(lines[FirstBelow(lines, i)].text, <<lines[i].text>>, FirstBelow(lines, i) + 1)
         /\ ~Legacy(lines, i) /\ ~Current(lines, i) => TryParseHeaderAt(lines, i) = NoHeader
<1> DEFINE below == {j \in (i + 1)..Len(lines) : lines[j] # Blank}
           j == CHOOSE k \in below : \A m \in below : k <= m
<1>1. TryParseHeaderAt(lines, i)
        = CASE lines[i].heading /\ lines[i].text.form = "meta" ->
                 HeaderOf(lines[i].text, NoTitle, i + 1)
            [] lines[i].heading /\ lines[i].text.form = "word" /\ below # {} ->
                 IF ~lines[j].heading /\ lines[j].text.form = "meta"
                 THEN HeaderOf(lines[j].text, <<lines[i].text>>, j + 1) ELSE NoHeader
            [] OTHER -> NoHeader
  BY DEF TryParseHeaderAt
<1>2. below = Below(lines, i) /\ j = FirstBelow(lines, i)
  BY DEF Below, FirstBelow
<1> HIDE DEF below, j
<1> QED BY <1>1, <1>2 DEF Legacy, Current

\* A header is found just where there is one of the two forms.
LEMMA HeaderFound ==
  ASSUME NEW lines, NEW i
  PROVE  TryParseHeaderAt(lines, i).found = (Legacy(lines, i) \/ Current(lines, i))
<1>1. Legacy(lines, i) \/ Current(lines, i) => TryParseHeaderAt(lines, i).found = TRUE
  BY HeaderCases DEF Header, HeaderOf
<1>2. ~(Legacy(lines, i) \/ Current(lines, i)) => TryParseHeaderAt(lines, i).found = FALSE
  <2>1. NoHeader.found = FALSE
    BY DEF NoHeader
  <2> QED BY <2>1, HeaderCases
<1>3. (Legacy(lines, i) \/ Current(lines, i)) \in BOOLEAN
  OBVIOUS
<1> QED BY ONLY <1>1, <1>2, <1>3

\* The first line below is the one before which all are blank.
LEMMA FirstBelowIs ==
  ASSUME NEW S, NEW lines \in Seq(S), NEW i \in Nat, NEW j \in Below(lines, i),
         \A m \in Below(lines, i) : j <= m
  PROVE  FirstBelow(lines, i) = j
<1> DEFINE B == Below(lines, i) c == CHOOSE k \in B : \A m \in B : k <= m
<1>1. B \subseteq Nat
  BY DEF Below
<1>2. j \in B /\ \A m \in B : j <= m
  OBVIOUS
<1>3. FirstBelow(lines, i) = c
  BY DEF FirstBelow
<1> HIDE DEF B
<1>4. c \in B /\ \A m \in B : c <= m
  BY <1>2
<1> HIDE DEF c
<1>5. c <= j /\ j <= c /\ c \in Nat /\ j \in Nat
  BY <1>1, <1>2, <1>4
<1> QED BY <1>3, <1>5

\* It is one of the lines below.
LEMMA FirstBelowIn ==
  ASSUME NEW S, NEW lines \in Seq(S), NEW i \in Nat, Below(lines, i) # {}
  PROVE  /\ FirstBelow(lines, i) \in Below(lines, i)
         /\ FirstBelow(lines, i) \in (i + 1)..Len(lines)
         /\ \A m \in Below(lines, i) : FirstBelow(lines, i) <= m
<1> DEFINE B == Below(lines, i)
<1>1. B \subseteq Nat /\ B \subseteq (i + 1)..Len(lines) /\ B # {}
  BY DEF Below
<1>2. FirstBelow(lines, i) = CHOOSE k \in B : \A m \in B : k <= m
  BY DEF FirstBelow
<1> HIDE DEF B
<1>3. \E k \in B : \A m \in B : k <= m
  BY <1>1, LeastNat
<1>4. FirstBelow(lines, i) \in B /\ \A m \in B : FirstBelow(lines, i) <= m
  BY <1>2, <1>3
<1> QED BY <1>1, <1>4 DEF B

\* A header ends behind its first line, and with the text at the latest.
LEMMA HeaderEnds ==
  ASSUME NEW S, NEW lines \in Seq(S), NEW i \in 1..Len(lines), TryParseHeaderAt(lines, i).found
  PROVE  TryParseHeaderAt(lines, i).next \in (i + 1)..(Len(lines) + 1)
<1>0. Len(lines) \in Nat /\ i \in Nat
  OBVIOUS
<1>1. CASE Legacy(lines, i)
  <2>1. TryParseHeaderAt(lines, i).next = i + 1
    BY <1>1, HeaderCases DEF Header, HeaderOf
  <2> QED BY <1>0, <2>1
<1>2. CASE Current(lines, i)
  <2>1. FirstBelow(lines, i) \in (i + 1)..Len(lines)
    BY <1>0, <1>2, FirstBelowIn DEF Current
  <2>2. TryParseHeaderAt(lines, i).next = FirstBelow(lines, i) + 1
    BY <1>2, HeaderCases DEF Header, HeaderOf
  <2> QED BY <1>0, <2>1, <2>2
<1> QED BY <1>1, <1>2, HeaderFound

\* Two texts, line by line.
LEMMA JoinedLines ==
  ASSUME NEW S, NEW s \in Seq(S), NEW t \in Seq(S)
  PROVE  /\ s \o t \in Seq(S) /\ Len(s \o t) = Len(s) + Len(t) /\ Len(s) \in Nat /\ Len(t) \in Nat
         /\ \A i \in 1..Len(s) : (s \o t)[i] = s[i]
         /\ \A i \in 1..Len(t) : (s \o t)[Len(s) + i] = t[i]
<1> DEFINE u == s \o t
<1>1. u \in Seq(S) /\ Len(u) = Len(s) + Len(t) /\ Len(s) \in Nat /\ Len(t) \in Nat
      /\ \A i \in 1..(Len(s) + Len(t)) : u[i] = IF i <= Len(s) THEN s[i] ELSE t[i - Len(s)]
  BY ConcatProperties
<1> HIDE DEF u
<1>2. \A i \in 1..Len(s) : u[i] = s[i]
  BY <1>1
<1>3. ASSUME NEW i \in 1..Len(t) PROVE u[Len(s) + i] = t[i]
  <2> DEFINE n == Len(s)
  <2>1. n \in Nat /\ i \in Nat /\ i >= 1 /\ i <= Len(t)
    BY <1>1
  <2>2. u[n + i] = IF n + i <= n THEN s[n + i] ELSE t[(n + i) - n]
    BY <1>1, <2>1
  <2> HIDE DEF n
  <2>3. (n + i) - n = i /\ ~(n + i <= n)
    BY <2>1
  <2> QED BY <2>2, <2>3 DEF n
<1> QED BY <1>1, <1>2, <1>3 DEF u

\* Behind the first text the headers are those of the second.
LEMMA HeaderShift ==
  ASSUME NEW S, NEW s \in Seq(S), NEW t \in Seq(S), NEW i \in 1..Len(t)
  PROVE  /\ TryParseHeaderAt(s \o t, Len(s) + i).found = TryParseHeaderAt(t, i).found
         /\ TryParseHeaderAt(t, i).found =>
              /\ TryParseHeaderAt(s \o t, Len(s) + i).id = TryParseHeaderAt(t, i).id
              /\ TryParseHeaderAt(s \o t, Len(s) + i).tags = TryParseHeaderAt(t, i).tags
              /\ TryParseHeaderAt(s \o t, Len(s) + i).title = TryParseHeaderAt(t, i).title
              /\ TryParseHeaderAt(s \o t, Len(s) + i).next = Len(s) + TryParseHeaderAt(t, i).next
<1> DEFINE u == s \o t n == Len(s) p == n + i h == TryParseHeaderAt(u, p) g == TryParseHeaderAt(t, i)
<1>1. u \in Seq(S) /\ Len(u) = n + Len(t) /\ n \in Nat /\ Len(t) \in Nat
      /\ \A k \in 1..Len(t) : u[n + k] = t[k]
  BY JoinedLines
<1> HIDE DEF u, n
<1>2. p \in Nat /\ i \in Nat /\ p = n + i /\ u[p] = t[i]
  BY <1>1
<1> HIDE DEF p
<1>3. ASSUME NEW k \in Below(t, i) PROVE n + k \in Below(u, p)
  <2>1. k \in (i + 1)..Len(t) /\ t[k] # Blank
    BY DEF Below
  <2>2. u[n + k] = t[k] /\ n + k \in (p + 1)..Len(u)
    BY <1>1, <1>2, <2>1
  <2> QED BY <2>1, <2>2 DEF Below
<1>4. ASSUME NEW k \in Below(u, p) PROVE k - n \in Below(t, i)
  <2>1. k \in (p + 1)..Len(u) /\ u[k] # Blank
    BY DEF Below
  <2>2. k - n \in (i + 1)..Len(t) /\ k = n + (k - n)
    BY <1>1, <1>2, <2>1
  <2> DEFINE m == k - n
  <2>3. m \in (i + 1)..Len(t) /\ k = n + m
    BY <2>2
  <2> HIDE DEF m
  <2>4. m \in 1..Len(t)
    BY <1>1, <1>2, <2>3
  <2>5. u[n + m] = t[m]
    BY <1>1, <2>4
  <2>6. m \in Below(t, i)
    BY <2>1, <2>3, <2>5 DEF Below
  <2> QED BY <2>6 DEF m
<1>5. Below(t, i) # {} => FirstBelow(u, p) = n + FirstBelow(t, i) /\ FirstBelow(t, i) \in 1..Len(t)
  <2> SUFFICES ASSUME Below(t, i) # {}
               PROVE  FirstBelow(u, p) = n + FirstBelow(t, i) /\ FirstBelow(t, i) \in 1..Len(t)
    OBVIOUS
  <2> DEFINE f == FirstBelow(t, i)
  <2>1. f \in Below(t, i) /\ f \in (i + 1)..Len(t) /\ \A m \in Below(t, i) : f <= m
    BY <1>2, FirstBelowIn
  <2> HIDE DEF f
  <2>2. n + f \in Below(u, p) /\ n + f \in Nat /\ f \in 1..Len(t) /\ f \in Nat
    BY <1>1, <1>2, <1>3, <2>1
  <2>3. \A m \in Below(u, p) : n + f <= m
    <3> SUFFICES ASSUME NEW m \in Below(u, p) PROVE n + f <= m
      OBVIOUS
    <3>1. f <= m - n /\ m \in Nat
      BY <1>2, <1>4, <2>1 DEF Below
    <3> QED BY <1>1, <2>2, <3>1
  <2>4. FirstBelow(u, p) = n + f
    BY <1>1, <1>2, <2>2, <2>3, FirstBelowIs
  <2> QED BY <2>2, <2>4 DEF f
<1>6. Below(u, p) = {} <=> Below(t, i) = {}
  BY <1>3, <1>4
<1>7. Below(t, i) # {} => u[FirstBelow(u, p)] = t[FirstBelow(t, i)]
  BY <1>1, <1>5
<1>8. (Legacy(u, p) <=> Legacy(t, i)) /\ (Current(u, p) <=> Current(t, i))
  BY <1>2, <1>6, <1>7 DEF Legacy, Current
<1>9. h.found = g.found
  <2>1. h.found = (Legacy(u, p) \/ Current(u, p))
    BY HeaderFound
  <2>2. g.found = (Legacy(t, i) \/ Current(t, i))
    BY HeaderFound
  <2> QED BY <1>8, <2>1, <2>2
<1>10. CASE Legacy(t, i)
  <2>1. h = HeaderOf(u[p].text, NoTitle, p + 1) /\ g = HeaderOf(t[i].text, NoTitle, i + 1)
    BY <1>8, <1>10, HeaderCases
  <2>2. p + 1 = n + (i + 1)
    BY <1>1, <1>2
  <2>3. h.id = g.id /\ h.tags = g.tags /\ h.title = g.title /\ h.next = n + g.next
    BY <1>2, <2>1, <2>2 DEF Header, HeaderOf
  <2> QED BY <1>9, <2>3 DEF n, u, p
<1>11. CASE Current(t, i)
  <2> DEFINE f == FirstBelow(t, i)
  <2>0. Below(t, i) # {}
    BY <1>11 DEF Current
  <2>1. h = HeaderOf(u[FirstBelow(u, p)].text, <<u[p].text>>, FirstBelow(u, p) + 1)
        /\ g = HeaderOf(t[f].text, <<t[i].text>>, f + 1)
    BY <1>8, <1>11, HeaderCases
  <2>2. FirstBelow(u, p) + 1 = n + (f + 1)
    BY <1>1, <1>5, <2>0
  <2>3. h.id = g.id /\ h.tags = g.tags /\ h.title = g.title /\ h.next = n + g.next
    BY <1>2, <1>7, <2>0, <2>1, <2>2 DEF Header, HeaderOf
  <2> QED BY <1>9, <2>3 DEF n, u, p
<1>12. CASE ~Legacy(t, i) /\ ~Current(t, i)
  <2>1. ~g.found
    BY <1>12, HeaderFound
  <2> QED BY <1>9, <2>1 DEF n, u, p
<1> QED BY <1>10, <1>11, <1>12

\* What comes behind a text, if it starts with a blank line and a heading.
Follows(t) == Len(t) >= 2 /\ t[1] = Blank /\ t[2].heading = TRUE

\* It makes no header of a line before it, and leaves those that are there.
LEMMA HeaderStable ==
  ASSUME NEW S, NEW s \in Seq(S), NEW t \in Seq(S), Follows(t), NEW i \in 1..Len(s)
  PROVE  TryParseHeaderAt(s \o t, i) = TryParseHeaderAt(s, i)
<1> DEFINE u == s \o t n == Len(s)
<1>1. u \in Seq(S) /\ Len(u) = n + Len(t) /\ n \in Nat /\ Len(t) \in Nat /\ i \in Nat
      /\ (\A k \in 1..n : u[k] = s[k]) /\ \A k \in 1..Len(t) : u[n + k] = t[k]
  BY JoinedLines
<1>2. i \in 1..n
  OBVIOUS
<1> HIDE DEF u, n
<1>3. u[i] = s[i]
  BY <1>1, <1>2
<1>4. Below(s, i) \subseteq Below(u, i)
  <2> SUFFICES ASSUME NEW k \in Below(s, i) PROVE k \in Below(u, i)
    OBVIOUS
  <2>1. k \in (i + 1)..n /\ s[k] # Blank
    BY DEF Below, n
  <2>2. k \in 1..n /\ k \in (i + 1)..Len(u)
    BY <1>1, <2>1
  <2> QED BY <1>1, <2>1, <2>2 DEF Below
<1>5. \A k \in Below(u, i) : k \in Below(s, i) \/ k > n
  <2> SUFFICES ASSUME NEW k \in Below(u, i), ~(k > n) PROVE k \in Below(s, i)
    OBVIOUS
  <2>1. k \in (i + 1)..Len(u) /\ u[k] # Blank
    BY DEF Below
  <2>2. k \in 1..n /\ k \in (i + 1)..n
    BY <1>1, <2>1
  <2>3. s[k] # Blank
    BY <1>1, <2>1, <2>2
  <2> QED BY <2>2, <2>3 DEF Below, n
<1>6. CASE Below(s, i) # {}
  <2> DEFINE f == FirstBelow(s, i)
  <2>1. f \in Below(s, i) /\ f \in (i + 1)..n /\ \A m \in Below(s, i) : f <= m
    BY <1>1, <1>6, FirstBelowIn DEF n
  <2> HIDE DEF f
  <2>2. f \in Below(u, i) /\ f \in 1..n /\ f \in Nat
    BY <1>1, <1>4, <2>1
  <2>3. \A m \in Below(u, i) : f <= m
    <3> SUFFICES ASSUME NEW m \in Below(u, i) PROVE f <= m
      OBVIOUS
    <3>1. m \in Nat
      BY <1>1 DEF Below
    <3>2. CASE m \in Below(s, i)
      BY <2>1, <3>2
    <3>3. CASE m > n
      BY <1>1, <2>2, <3>1, <3>3
    <3> QED BY <1>5, <3>2, <3>3
  <2>4. FirstBelow(u, i) = f
    BY <1>1, <2>2, <2>3, FirstBelowIs
  <2>5. u[f] = s[f] /\ Below(u, i) # {}
    BY <1>1, <2>2
  <2>6. (Legacy(u, i) <=> Legacy(s, i)) /\ (Current(u, i) <=> Current(s, i))
    BY <1>3, <1>6, <2>4, <2>5 DEF Legacy, Current, f
  <2> DEFINE h == TryParseHeaderAt(u, i) g == TryParseHeaderAt(s, i)
  <2>7. CASE Legacy(s, i)
    <3>1. h = HeaderOf(u[i].text, NoTitle, i + 1) /\ g = HeaderOf(s[i].text, NoTitle, i + 1)
      BY <2>6, <2>7, HeaderCases
    <3>2. h = g
      BY <1>3, <3>1
    <3> QED BY <3>2 DEF u
  <2>8. CASE Current(s, i)
    <3>1. h = HeaderOf(u[FirstBelow(u, i)].text, <<u[i].text>>, FirstBelow(u, i) + 1)
          /\ g = HeaderOf(s[FirstBelow(s, i)].text, <<s[i].text>>, FirstBelow(s, i) + 1)
      BY <2>6, <2>8, HeaderCases
    <3>2. FirstBelow(s, i) = f
      BY DEF f
    <3>3. h = g
      BY <1>3, <2>4, <2>5, <3>1, <3>2
    <3> QED BY <3>3 DEF u
  <2>9. CASE ~Legacy(s, i) /\ ~Current(s, i)
    <3>1. h = NoHeader /\ g = NoHeader
      BY <2>6, <2>9, HeaderCases
    <3> QED BY <3>1 DEF u
  <2> QED BY <2>7, <2>8, <2>9
<1>7. CASE Below(s, i) = {}
  <2>1. n + 2 \in Below(u, i)
    <3>1. u[n + 2] = t[2] /\ n + 2 \in (i + 1)..Len(u)
      BY <1>1, <1>2 DEF Follows
    <3>2. t[2] # Blank
      <4>1. t[2].heading = TRUE
        BY DEF Follows
      <4>2. Blank.heading = FALSE
        BY DEF Blank, Line
      <4> QED BY <4>1, <4>2
    <3> QED BY <3>1, <3>2 DEF Below
  <2>2. \A m \in Below(u, i) : n + 2 <= m
    <3> SUFFICES ASSUME NEW m \in Below(u, i) PROVE n + 2 <= m
      OBVIOUS
    <3>1. m \in Nat /\ m > n /\ u[m] # Blank
      BY <1>1, <1>5, <1>7 DEF Below
    <3>2. u[n + 1] = Blank
      BY <1>1 DEF Follows
    <3>3. m # n + 1
      BY <3>1, <3>2
    <3> QED BY <1>1, <3>1, <3>3
  <2>3. FirstBelow(u, i) = n + 2
    BY <1>1, <2>1, <2>2, FirstBelowIs
  <2>4. u[n + 2].heading = TRUE
    BY <1>1 DEF Follows
  <2>5. ~Current(u, i) /\ ~Current(s, i) /\ (Legacy(u, i) <=> Legacy(s, i))
    BY <1>3, <1>7, <2>3, <2>4 DEF Legacy, Current
  <2>6. CASE Legacy(s, i)
    <3>1. TryParseHeaderAt(u, i) = HeaderOf(u[i].text, NoTitle, i + 1)
          /\ TryParseHeaderAt(s, i) = HeaderOf(s[i].text, NoTitle, i + 1)
      BY <2>5, <2>6, HeaderCases
    <3> QED BY <1>3, <3>1 DEF u
  <2>7. CASE ~Legacy(s, i)
    <3>1. TryParseHeaderAt(u, i) = NoHeader /\ TryParseHeaderAt(s, i) = NoHeader
      BY <2>5, <2>7, HeaderCases
    <3> QED BY <3>1 DEF u
  <2> QED BY <2>6, <2>7
<1> QED BY <1>6, <1>7

\* The lines of a file and the entries in it. The provers do not know that a
\* literal is a string.
FileTexts == [form : {"word", "meta", "bracket"}, v : STRING \cup {""}, tags : Seq(TagSet)]
FileLines == [heading : BOOLEAN, text : FileTexts]
FileBlocks ==
  [id : STRING \cup {""}, tags : Seq(TagSet), title : Seq(FileTexts), content : Seq(FileLines)]

\* The entries that can be read back.
SavedBlocks == {b \in FileBlocks : Trim(b.content) = b.content /\ Storable(b)}

\* What entries are made of.
LEMMA LineTypes ==
  /\ Blank \in FileLines /\ Blank.heading = FALSE
  /\ Word("") \in FileTexts /\ Word("").form = "word"
  /\ \A v \in STRING \cup {""}, tags \in Seq(TagSet) :
       /\ Meta(v, tags) \in FileTexts /\ Meta(v, tags).form = "meta"
       /\ Meta(v, tags).v = v /\ Meta(v, tags).tags = tags
  /\ \A x \in FileTexts : /\ Heading(x) \in FileLines /\ Heading(x).heading = TRUE /\ Heading(x).text = x
                          /\ Line(x) \in FileLines /\ Line(x).heading = FALSE /\ Line(x).text = x
<1>1. ASSUME NEW x \in FileTexts
      PROVE  /\ Heading(x) \in FileLines /\ Heading(x).heading = TRUE /\ Heading(x).text = x
             /\ Line(x) \in FileLines /\ Line(x).heading = FALSE /\ Line(x).text = x
  <2> DEFINE X == FileTexts
  <2>1. x \in X
    OBVIOUS
  <2> HIDE DEF X
  <2>2. [heading |-> TRUE, text |-> x] \in [heading : BOOLEAN, text : X]
        /\ [heading |-> FALSE, text |-> x] \in [heading : BOOLEAN, text : X]
    BY <2>1
  <2> QED BY <2>2 DEF Heading, Line, FileLines, X
<1>2. ASSUME NEW v \in STRING \cup {""}, NEW tags \in Seq(TagSet)
      PROVE  /\ Meta(v, tags) \in FileTexts /\ Meta(v, tags).form = "meta"
             /\ Meta(v, tags).v = v /\ Meta(v, tags).tags = tags
  <2> DEFINE T == Seq(TagSet)
  <2>1. tags \in T
    OBVIOUS
  <2> HIDE DEF T
  <2>2. [form |-> "meta", v |-> v, tags |-> tags]
          \in [form : {"word", "meta", "bracket"}, v : STRING \cup {""}, tags : T]
    BY <2>1
  <2> QED BY <2>2 DEF Meta, FileTexts, T
<1>3. Word("") \in FileTexts /\ Word("").form = "word"
  <2> DEFINE T == Seq(TagSet)
  <2>1. <<>> \in T
    OBVIOUS
  <2> HIDE DEF T
  <2>2. [form |-> "word", v |-> "", tags |-> <<>>]
          \in [form : {"word", "meta", "bracket"}, v : STRING \cup {""}, tags : T]
    BY <2>1
  <2> QED BY <2>2 DEF Word, FileTexts, T
<1>4. Blank = Line(Word(""))
  BY DEF Blank
<1>5. Blank \in FileLines /\ Blank.heading = FALSE
  BY <1>1, <1>3, <1>4
<1> QED BY <1>1, <1>2, <1>3, <1>5

\* The text of a blank line.
LEMMA BlankLine == <<Blank>> \in Seq(FileLines) /\ Len(<<Blank>>) = 1 /\ <<Blank>>[1] = Blank
<1> DEFINE e == Blank
<1>1. e \in FileLines
  BY LineTypes
<1> HIDE DEF e
<1>2. <<e>> \in Seq(FileLines) /\ Len(<<e>>) = 1 /\ <<e>>[1] = e
  BY <1>1
<1> QED BY <1>2 DEF e

\* An entry is made of its parts.
LEMMA EntryIs ==
  ASSUME NEW b \in SavedBlocks
  PROVE  Block(b.id, b.tags, b.title, b.content) = b
<1>1. b \in [id : STRING \cup {""}, tags : Seq(TagSet), title : Seq(FileTexts), content : Seq(FileLines)]
  BY DEF SavedBlocks, FileBlocks
<1>2. b = [id |-> b.id, tags |-> b.tags, title |-> b.title, content |-> b.content]
  BY <1>1
<1>3. Block(b.id, b.tags, b.title, b.content) = [id |-> b.id, tags |-> b.tags, title |-> b.title, content |-> b.content]
  BY DEF Block
<1> QED BY ONLY <1>2, <1>3

\* The second of two texts.
LEMMA SecondOf ==
  ASSUME NEW S, NEW s \in Seq(S), NEW t \in Seq(S)
  PROVE  SubSeq(s \o t, Len(s) + 1, Len(s \o t)) = t
<1> DEFINE u == s \o t n == Len(s)
<1>1. u \in Seq(S) /\ Len(u) = n + Len(t) /\ n \in Nat /\ Len(t) \in Nat
      /\ \A k \in 1..Len(t) : u[n + k] = t[k]
  BY JoinedLines
<1> HIDE DEF u, n
<1>2. SubSeq(u, n + 1, Len(u)) = t
  <2>1. SubSeq(u, n + 1, n + Len(t)) = [k \in 1..Len(t) |-> u[n + k]]
    <3>1. (n + Len(t)) - (n + 1) + 1 = Len(t) /\ \A k \in 1..Len(t) : k + (n + 1) - 1 = n + k
      BY <1>1
    <3>2. SubSeq(u, n + 1, n + Len(t)) = [k \in 1..((n + Len(t)) - (n + 1) + 1) |-> u[k + (n + 1) - 1]]
      BY <1>1 DEF SubSeq
    <3> QED BY <3>1, <3>2
  <2>2. [k \in 1..Len(t) |-> u[n + k]] = [k \in 1..Len(t) |-> t[k]]
    BY <1>1
  <2>3. t = [k \in 1..Len(t) |-> t[k]]
    OBVIOUS
  <2> QED BY ONLY <1>1, <2>1, <2>2, <2>3
<1> QED BY <1>2 DEF u, n

\* A text behind another: its lines, its headers, and how to have it back.
Moved(u, n, t) ==
  /\ u \in Seq(FileLines) /\ Len(u) = n + Len(t) /\ Len(t) \in Nat
  /\ \A i \in 1..Len(t) : u[n + i] = t[i]
  /\ \A i \in 1..Len(t) : TryParseHeaderAt(u, n + i).found = TryParseHeaderAt(t, i).found
  /\ SubSeq(u, n + 1, Len(u)) = t

\* So are two texts one behind the other.
LEMMA JoinedIs ==
  ASSUME NEW s \in Seq(FileLines), NEW t \in Seq(FileLines), NEW n \in Nat, Len(s) = n
  PROVE  Moved(s \o t, n, t) /\ \A i \in 1..n : (s \o t)[i] = s[i]
<1> DEFINE S == FileLines
<1>0. s \in Seq(S) /\ t \in Seq(S)
  OBVIOUS
<1> HIDE DEF S
<1>1. /\ s \o t \in Seq(S) /\ Len(s \o t) = Len(s) + Len(t) /\ Len(s) \in Nat /\ Len(t) \in Nat
      /\ \A i \in 1..Len(s) : (s \o t)[i] = s[i]
      /\ \A i \in 1..Len(t) : (s \o t)[Len(s) + i] = t[i]
  BY ONLY <1>0, JoinedLines
<1>2. \A i \in 1..Len(t) : TryParseHeaderAt(s \o t, Len(s) + i).found = TryParseHeaderAt(t, i).found
  <2> SUFFICES ASSUME NEW i \in 1..Len(t)
               PROVE  TryParseHeaderAt(s \o t, Len(s) + i).found = TryParseHeaderAt(t, i).found
    OBVIOUS
  <2> QED BY ONLY <1>0, i \in 1..Len(t), HeaderShift
<1>3. SubSeq(s \o t, Len(s) + 1, Len(s \o t)) = t
  BY ONLY <1>0, SecondOf
<1>4. Len(s) = n
  OBVIOUS
<1> DEFINE u == s \o t
<1> HIDE DEF u
<1>5. Moved(u, n, t)
  BY ONLY <1>1, <1>2, <1>3, <1>4 DEF Moved, S, u
<1>6. \A i \in 1..n : u[i] = s[i]
  BY ONLY <1>1, <1>4 DEF u
<1> QED BY <1>5, <1>6 DEF u

\* A line that is not a heading starts no entry.
LEMMA NoHeading ==
  ASSUME NEW lines, NEW i, lines[i].heading = FALSE
  PROVE  TryParseHeaderAt(lines, i).found = FALSE
<1>1. ~Legacy(lines, i) /\ ~Current(lines, i)
  BY DEF Legacy, Current
<1>2. (Legacy(lines, i) \/ Current(lines, i)) = FALSE
  BY <1>1
<1> QED BY <1>2, HeaderFound

\* The content of an entry, of one blank line at least, starts none.
LEMMA ContentPlain ==
  ASSUME NEW b \in SavedBlocks
  PROVE  /\ ContentLines(b) \in Seq(FileLines) /\ Len(ContentLines(b)) \in Nat \ {0}
         /\ Trim(ContentLines(b)) = b.content
         /\ \A i \in 1..Len(ContentLines(b)) : TryParseHeaderAt(ContentLines(b), i).found = FALSE
<1> DEFINE c == b.content
<1>1. c \in Seq(FileLines) /\ Trim(c) = c /\ Storable(b)
  BY DEF SavedBlocks, FileBlocks
<1>2. CASE c = <<>>
  <2> DEFINE e == Blank one == <<e>>
  <2>1. ContentLines(b) = one
    BY <1>2 DEF ContentLines
  <2>2. e \in FileLines /\ e.heading = FALSE
    BY LineTypes
  <2>3. one \in Seq(FileLines) /\ Len(one) = 1 /\ one[1].heading = FALSE
    BY <2>2, BlankLine
  <2>4. Trim(one) = c
    <3> DEFINE none == <<>>
    <3>1. none \in Seq(FileLines) /\ Kept(none) = {}
      BY DEF Kept
    <3>2. one = <<Blank>> \o none
      <4> HIDE DEF e
      <4>1. <<e>> = <<e>> \o <<>>
        OBVIOUS
      <4> QED BY <4>1 DEF e
    <3> HIDE DEF none, one
    <3>3. Trim(one) = Trim(none)
      BY <2>2, <3>1, <3>2, TrimPrepend
    <3>4. Trim(none) = <<>>
      BY <3>1, TrimBlank
    <3> QED BY <1>2, <3>3, <3>4
  <2> HIDE DEF one
  <2>5. \A i \in 1..Len(one) : TryParseHeaderAt(one, i).found = FALSE
    <3> SUFFICES ASSUME NEW i \in 1..Len(one) PROVE TryParseHeaderAt(one, i).found = FALSE
      OBVIOUS
    <3>1. i = 1
      BY <2>3
    <3> QED BY <2>3, <3>1, NoHeading
  <2> QED BY <2>1, <2>3, <2>4, <2>5
<1>3. CASE c # <<>>
  <2>1. ContentLines(b) = c
    BY <1>3 DEF ContentLines
  <2>2. Len(c) \in Nat \ {0}
    BY <1>1, <1>3
  <2>3. ASSUME NEW i \in 1..Len(c) PROVE TryParseHeaderAt(c, i).found = FALSE
    <3>0. i \in Nat /\ c[i].heading \in BOOLEAN
      <4>1. c[i] \in FileLines
        BY <1>1
      <4> QED BY <4>1 DEF FileLines
    <3>1. CASE c[i].heading = FALSE
      BY <3>1, NoHeading
    <3>2. CASE c[i].heading = TRUE
      <4>1. c[i].text.form # "meta"
            /\ \A j \in (i + 1)..Len(c) :
                 c[j].text.form = "meta" /\ ~c[j].heading => \E k \in (i + 1)..(j - 1) : c[k] # Blank
        BY <1>1, <3>2 DEF Storable
      <4>2. ~Legacy(c, i)
        BY <4>1 DEF Legacy
      <4>3. ~Current(c, i)
        <5> SUFFICES ASSUME Current(c, i) PROVE FALSE
          OBVIOUS
        <5> DEFINE f == FirstBelow(c, i)
        <5>1. f \in (i + 1)..Len(c) /\ (\A m \in Below(c, i) : f <= m)
              /\ c[f].text.form = "meta" /\ ~c[f].heading
          BY <1>1, <3>0, FirstBelowIn DEF Current
        <5> HIDE DEF f
        <5>2. PICK k \in (i + 1)..(f - 1) : c[k] # Blank
          BY <4>1, <5>1
        <5>3. k \in (i + 1)..Len(c) /\ ~(f <= k)
          BY <2>2, <3>0, <5>1, <5>2
        <5>4. k \in Below(c, i)
          BY <5>2, <5>3 DEF Below
        <5> QED BY <5>1, <5>3, <5>4
      <4>4. (Legacy(c, i) \/ Current(c, i)) = FALSE
        BY <4>2, <4>3
      <4> QED BY <4>4, HeaderFound
    <3> QED BY <3>0, <3>1, <3>2
  <2> QED BY <1>1, <2>1, <2>2, <2>3
<1> QED BY <1>2, <1>3

\* What is read of a text: one header at its start, with the id, tags and title of b,
\* and up to its end the content of b.
ReadsAs(t, b) ==
  /\ TryParseHeaderAt(t, 1).found = TRUE
  /\ TryParseHeaderAt(t, 1).id = b.id /\ TryParseHeaderAt(t, 1).tags = b.tags
  /\ TryParseHeaderAt(t, 1).title = b.title
  /\ TryParseHeaderAt(t, 1).next \in 2..Len(t)
  /\ \A i \in TryParseHeaderAt(t, 1).next..Len(t) : TryParseHeaderAt(t, i).found = FALSE
  /\ Trim(SubSeq(t, TryParseHeaderAt(t, 1).next, Len(t))) = b.content

\* Three lines, one after the other.
LEMMA ThreeLines == \A p, q, r : (<<p>> \o <<q>>) \o <<r>> = <<p, q, r>>
<1> SUFFICES ASSUME NEW p, NEW q, NEW r PROVE (<<p>> \o <<q>>) \o <<r>> = <<p, q, r>>
  OBVIOUS
<1> DEFINE T == {p, q, r} s == <<p>> t == <<q>> u == <<r>> v == s \o t w == v \o u
<1>1. s \in Seq(T) /\ t \in Seq(T) /\ u \in Seq(T) /\ <<p, q, r>> \in Seq(T)
      /\ Len(s) = 1 /\ Len(t) = 1 /\ Len(u) = 1 /\ s[1] = p /\ t[1] = q /\ u[1] = r
  OBVIOUS
<1> HIDE DEF s, t, u, T
<1>2. v \in Seq(T) /\ Len(v) = 2 /\ v[1] = p /\ v[2] = q
  <2>1. v \in Seq(T) /\ Len(v) = Len(s) + Len(t) /\ (\A i \in 1..Len(s) : v[i] = s[i])
        /\ \A i \in 1..Len(t) : v[Len(s) + i] = t[i]
    BY ONLY <1>1, JoinedLines
  <2> HIDE DEF v
  <2>2. 1 \in 1..1 /\ 1 + 1 = 2
    OBVIOUS
  <2> QED BY ONLY <1>1, <2>1, <2>2
<1> HIDE DEF v
<1>3. w \in Seq(T) /\ Len(w) = 3 /\ w[1] = p /\ w[2] = q /\ w[3] = r
  <2>0. v \in Seq(T) /\ u \in Seq(T)
    BY <1>1, <1>2
  <2>1. w \in Seq(T) /\ Len(w) = Len(v) + Len(u) /\ (\A i \in 1..Len(v) : w[i] = v[i])
        /\ \A i \in 1..Len(u) : w[Len(v) + i] = u[i]
    BY ONLY <2>0, JoinedLines
  <2> HIDE DEF w
  <2>2. 1 \in 1..1 /\ 1 \in 1..2 /\ 2 \in 1..2 /\ 2 + 1 = 3
    OBVIOUS
  <2> QED BY ONLY <1>1, <1>2, <2>1, <2>2
<1> HIDE DEF w
<1>4. w = <<p, q, r>>
  BY <1>1, <1>3
<1> QED BY <1>4 DEF w, v, s, t, u

\* What is written of an entry that can be read back, and that its tags are
\* read as they are.
LEMMA SavedForms ==
  ASSUME NEW b \in SavedBlocks
  PROVE  /\ b.id \in STRING \cup {""} /\ b.tags \in Seq(TagSet) /\ ParsedTags(b.tags) = b.tags
         /\ b.title = NoTitle =>
              SerializeBlock(b) = <<Heading(Meta(b.id, b.tags))>> \o ContentLines(b)
         /\ b.title # NoTitle =>
              /\ b.title = <<b.title[1]>> /\ b.title[1] \in FileTexts /\ b.title[1].form = "word"
              /\ SerializeBlock(b)
                   = <<Heading(b.title[1]), Line(Meta(b.id, b.tags)), Blank>> \o ContentLines(b)
<1> DEFINE c == ContentLines(b) m == Meta(b.id, b.tags) tags == b.tags S == TagSet
<1>1. /\ b.id \in STRING \cup {""} /\ tags \in Seq(S) /\ b.title \in Seq(FileTexts)
      /\ \A k \in 1..Len(b.title) : k = 1 /\ b.title[k].form = "word"
      /\ \A k \in 1..Len(tags) : tags[k].form # "broken" /\ (k = Len(tags) => tags[k].form # "closed")
  BY DEF SavedBlocks, FileBlocks, Storable
<1>2. ParsedTags(tags) = tags
  <2> HIDE DEF tags, S
  <2>0. Len(tags) \in Nat
    <3>1. tags \in Seq(S)
      BY <1>1
    <3> QED BY ONLY <3>1
  <2>1. Len(tags) > 0 => tags[Len(tags)].form # "closed"
    <3> SUFFICES ASSUME Len(tags) > 0 PROVE tags[Len(tags)].form # "closed"
      OBVIOUS
    <3>1. Len(tags) \in 1..Len(tags)
      BY <2>0
    <3> QED BY <1>1, <3>1
  <2> QED BY <2>1 DEF ParsedTags
<1>3. MetadataLine(b) = <<m>>
  <2> DEFINE broken == {k \in 1..Len(b.tags) : b.tags[k].form = "broken"}
  <2>1. broken = {}
    BY <1>1
  <2> QED BY <2>1, Zenon DEF MetadataLine
<1>4. ASSUME NEW x PROVE HeadedLines(<<x>>) = <<Heading(x)>> /\ AsLines(<<x>>) = <<Line(x)>>
  <2>1. Head(<<x>>) = x /\ Tail(<<x>>) = <<>> /\ Len(<<x>>) = 1 /\ <<x>>[1] = x
    OBVIOUS
  <2>2. AsLines(<<>>) = <<>>
    <3>1. [k \in 1..Len(<<>>) |-> Line(<<>>[k])] = <<>>
      OBVIOUS
    <3> QED BY <3>1, Zenon DEF AsLines
  <2>3. <<Heading(x)>> \o <<>> = <<Heading(x)>>
    OBVIOUS
  <2>4. AsLines(<<x>>) = <<Line(x)>>
    <3> DEFINE t == <<x>> y == Line(x)
    <3>1. Len(t) = 1 /\ t[1] = x
      BY <2>1
    <3>2. AsLines(t) = [k \in 1..1 |-> Line(t[k])]
      BY <3>1, Zenon DEF AsLines
    <3> HIDE DEF t, y
    <3>3. \A k \in 1..1 : Line(t[k]) = y
      BY <3>1 DEF y
    <3>4. [k \in 1..1 |-> Line(t[k])] = [k \in 1..1 |-> y]
      BY <3>3
    <3>5. [k \in 1..1 |-> y] = <<y>>
      OBVIOUS
    <3> QED BY <3>2, <3>4, <3>5 DEF t, y
  <2> QED BY <2>1, <2>2, <2>3, <2>4 DEF HeadedLines
<1>5. CASE b.title = NoTitle
  <2>1. SerializeBlock(b) = HeadedLines(<<m>>) \o c
    BY <1>3, <1>5 DEF SerializeBlock
  <2> QED BY <1>1, <1>2, <1>4, <1>5, <2>1
<1>6. CASE b.title # NoTitle
  <2> DEFINE x == b.title[1]
  <2>1. b.title = <<x>> /\ x \in FileTexts /\ x.form = "word"
    <3> DEFINE t == b.title
    <3>1. t \in Seq(FileTexts) /\ t # <<>> /\ \A k \in 1..Len(t) : k = 1 /\ t[k].form = "word"
      BY <1>1, <1>6 DEF NoTitle
    <3> HIDE DEF t
    <3>2. Len(t) \in Nat /\ Len(t) # 0
      BY <3>1
    <3>3. Len(t) \in 1..Len(t) /\ 1 \in 1..Len(t)
      BY <3>2
    <3>4. Len(t) = 1 /\ t[1].form = "word"
      BY <3>1, <3>3
    <3>6. t[1] \in FileTexts
      <4> DEFINE T == FileTexts
      <4>1. t \in Seq(T)
        BY <3>1
      <4> HIDE DEF T
      <4>2. t[1] \in T
        BY <3>3, <4>1
      <4> QED BY <4>2 DEF T
    <3>5. t = <<t[1]>>
      BY <3>1, <3>4
    <3> QED BY <3>4, <3>5, <3>6 DEF t
  <2>2. SerializeBlock(b) = HeadedLines(<<x>>) \o AsLines(<<m>>) \o <<Blank>> \o c
    <3>1. SerializeBlock(b) = HeadedLines(b.title) \o AsLines(MetadataLine(b)) \o <<Blank>> \o ContentLines(b)
      BY <1>6, Zenon DEF SerializeBlock
    <3>2. b.title = <<x>>
      BY <2>1
    <3> HIDE DEF x, m, c
    <3> QED BY ONLY <1>3, <3>1, <3>2 DEF c
  <2>3. (<<Heading(x)>> \o <<Line(m)>>) \o <<Blank>> = <<Heading(x), Line(m), Blank>>
    BY ThreeLines, Zenon
  <2>4. HeadedLines(<<x>>) = <<Heading(x)>> /\ AsLines(<<m>>) = <<Line(m)>>
    BY <1>4
  <2>5. SerializeBlock(b) = <<Heading(x), Line(m), Blank>> \o c
    BY ONLY <2>2, <2>3, <2>4
  <2> QED BY <1>1, <1>2, <1>6, <2>1, <2>5
<1> QED BY <1>5, <1>6

\* A legacy entry: metadata in the heading.
LEMMA LegacyReads ==
  ASSUME NEW b \in SavedBlocks, b.title = NoTitle
  PROVE  /\ SerializeBlock(b) \in Seq(FileLines) /\ SerializeBlock(b)[1].heading = TRUE
         /\ Len(SerializeBlock(b)) >= 2 /\ ReadsAs(SerializeBlock(b), b)
<1> DEFINE m == Meta(b.id, b.tags) head == Heading(m) s == <<head>> c == ContentLines(b) t == SerializeBlock(b)
<1>1. c \in Seq(FileLines) /\ Len(c) \in Nat \ {0} /\ Trim(c) = b.content
      /\ \A i \in 1..Len(c) : TryParseHeaderAt(c, i).found = FALSE
  BY ContentPlain
<1>2. /\ b.id \in STRING \cup {""} /\ b.tags \in Seq(TagSet) /\ ParsedTags(b.tags) = b.tags
      /\ t = s \o c
  BY SavedForms
<1>3. head \in FileLines /\ head.heading = TRUE /\ head.text = m
      /\ m.form = "meta" /\ m.v = b.id /\ m.tags = b.tags
  <2>1. m \in FileTexts /\ m.form = "meta" /\ m.v = b.id /\ m.tags = b.tags
    BY <1>2, LineTypes
  <2> HIDE DEF m
  <2> QED BY <2>1, LineTypes
<1>4. t = s \o c
  BY <1>2
<1> HIDE DEF m, head, c, t
<1>5. s \in Seq(FileLines) /\ Len(s) = 1 /\ s[1] = head
  BY <1>3
<1> HIDE DEF s
<1>6. Moved(t, 1, c) /\ \A i \in 1..1 : t[i] = s[i]
  <2>1. 1 \in Nat
    OBVIOUS
  <2> QED BY ONLY <1>1, <1>4, <1>5, <2>1, JoinedIs
<1>7. t \in Seq(FileLines) /\ Len(t) = 1 + Len(c) /\ t[1] = head /\ Len(c) \in Nat
  BY <1>5, <1>6 DEF Moved
<1>8. TryParseHeaderAt(t, 1) = Header(b.id, b.tags, NoTitle, 2)
  <2>1. Legacy(t, 1)
    BY <1>3, <1>7 DEF Legacy
  <2>2. TryParseHeaderAt(t, 1) = HeaderOf(t[1].text, NoTitle, 1 + 1)
    BY <2>1, HeaderCases
  <2>3. t[1].text = m /\ 1 + 1 = 2
    BY <1>3, <1>7
  <2>4. HeaderOf(m, NoTitle, 2) = Header(b.id, b.tags, NoTitle, 2)
    BY <1>2, <1>3, Zenon DEF HeaderOf
  <2> QED BY ONLY <2>2, <2>3, <2>4
<1>9. \A i \in 2..Len(t) : TryParseHeaderAt(t, i).found = FALSE
  <2> SUFFICES ASSUME NEW i \in 2..Len(t) PROVE TryParseHeaderAt(t, i).found = FALSE
    OBVIOUS
  <2>1. i - 1 \in 1..Len(c) /\ 1 + (i - 1) = i
    BY <1>7
  <2>2. TryParseHeaderAt(t, 1 + (i - 1)).found = TryParseHeaderAt(c, i - 1).found
    BY <1>6, <2>1 DEF Moved
  <2> QED BY <1>1, <2>1, <2>2
<1>10. Trim(SubSeq(t, 2, Len(t))) = b.content
  <2>1. SubSeq(t, 1 + 1, Len(t)) = c
    BY <1>6 DEF Moved
  <2>2. 1 + 1 = 2
    OBVIOUS
  <2> QED BY <1>1, <2>1, <2>2
<1>11. 2 \in 2..Len(t) /\ Len(t) >= 2
  BY <1>1, <1>7
<1>12. ReadsAs(t, b)
  <2>1. TryParseHeaderAt(t, 1).found = TRUE /\ TryParseHeaderAt(t, 1).id = b.id
        /\ TryParseHeaderAt(t, 1).tags = b.tags /\ TryParseHeaderAt(t, 1).title = b.title /\ TryParseHeaderAt(t, 1).next = 2
    <3>1. b.title = NoTitle
      OBVIOUS
    <3> QED BY ONLY <1>8, <3>1 DEF Header, HeaderOf
  <2> QED BY ONLY <1>9, <1>10, <1>11, <2>1 DEF ReadsAs
<1> QED BY <1>3, <1>7, <1>11, <1>12 DEF t

\* An entry with a title: the metadata stand below it.
LEMMA TitledReads ==
  ASSUME NEW b \in SavedBlocks, b.title # NoTitle
  PROVE  /\ SerializeBlock(b) \in Seq(FileLines) /\ SerializeBlock(b)[1].heading = TRUE
         /\ Len(SerializeBlock(b)) >= 2 /\ ReadsAs(SerializeBlock(b), b)
<1> DEFINE x == b.title[1] m == Meta(b.id, b.tags) head == Heading(x) meta == Line(m) e == Blank o == <<e>>
           s == <<head, meta>> c == ContentLines(b) r == o \o c t == SerializeBlock(b)
<1>1. c \in Seq(FileLines) /\ Len(c) \in Nat \ {0} /\ Trim(c) = b.content
      /\ \A i \in 1..Len(c) : TryParseHeaderAt(c, i).found = FALSE
  BY ContentPlain
<1>2. /\ b.id \in STRING \cup {""} /\ b.tags \in Seq(TagSet) /\ ParsedTags(b.tags) = b.tags
      /\ b.title = <<x>> /\ x \in FileTexts /\ x.form = "word" /\ t = <<head, meta, e>> \o c
  BY SavedForms
<1>3. /\ head \in FileLines /\ head.heading = TRUE /\ head.text = x
      /\ meta \in FileLines /\ meta.heading = FALSE /\ meta.text = m
      /\ m.form = "meta" /\ m.v = b.id /\ m.tags = b.tags
      /\ e \in FileLines /\ e.heading = FALSE
  <2>1. m \in FileTexts /\ m.form = "meta" /\ m.v = b.id /\ m.tags = b.tags
    BY <1>2, LineTypes
  <2> HIDE DEF m, x
  <2> QED BY <1>2, <2>1, LineTypes
<1>4. meta # e
  <2>1. e.text.form = "word"
    BY DEF Blank, Line, Word
  <2> QED BY <1>3, <2>1
<1>5. t = <<head, meta, e>> \o c
  BY <1>2
<1>6. Trim(r) = b.content
  <2>1. Trim(<<Blank>> \o c) = Trim(c)
    BY <1>1, <1>3, TrimPrepend
  <2> QED BY <1>1, <2>1
<1> HIDE DEF x, m, head, meta, c, t
<1>7. o \in Seq(FileLines) /\ Len(o) = 1 /\ o[1] = e
  BY BlankLine
<1>8. s \in Seq(FileLines) /\ Len(s) = 2 /\ s[1] = head /\ s[2] = meta
  BY <1>3
<1>9. <<head, meta, e>> = s \o o
  <2> HIDE DEF e
  <2> QED BY <1>3
<1> HIDE DEF e, o, s
<1>10. Moved(r, 1, c) /\ \A i \in 1..1 : r[i] = o[i]
  <2>1. 1 \in Nat
    OBVIOUS
  <2> QED BY ONLY <1>1, <1>7, <2>1, JoinedIs
<1> HIDE DEF r
<1>11. r \in Seq(FileLines) /\ Len(r) = 1 + Len(c) /\ r[1] = e /\ Len(r) \in Nat
  BY <1>1, <1>7, <1>10 DEF Moved
<1>12. t = s \o r
  <2>1. (s \o o) \o c = s \o (o \o c)
    BY <1>1, <1>7, <1>8, ConcatAssociative
  <2> QED BY <1>5, <1>9, <2>1 DEF r
<1>13. Moved(t, 2, r) /\ \A i \in 1..2 : t[i] = s[i]
  <2>1. 2 \in Nat
    OBVIOUS
  <2> QED BY ONLY <1>8, <1>11, <1>12, <2>1, JoinedIs
<1>14. t \in Seq(FileLines) /\ Len(t) = 2 + Len(r) /\ t[1] = head /\ t[2] = meta /\ Len(t) \in Nat
  BY <1>8, <1>11, <1>13 DEF Moved
<1>15. \A i \in 1..Len(r) : TryParseHeaderAt(r, i).found = FALSE
  <2> SUFFICES ASSUME NEW i \in 1..Len(r) PROVE TryParseHeaderAt(r, i).found = FALSE
    OBVIOUS
  <2>1. CASE i = 1
    <3>1. r[1].heading = FALSE
      BY <1>3, <1>11
    <3>2. TryParseHeaderAt(r, 1).found = FALSE
      BY ONLY <3>1, NoHeading
    <3> QED BY <2>1, <3>2
  <2>2. CASE i # 1
    <3>1. i - 1 \in 1..Len(c) /\ 1 + (i - 1) = i
      BY <1>1, <1>11, <2>2
    <3>2. TryParseHeaderAt(r, 1 + (i - 1)).found = TryParseHeaderAt(c, i - 1).found
      BY <1>10, <3>1 DEF Moved
    <3> QED BY <1>1, <3>1, <3>2
  <2> QED BY <2>1, <2>2
<1>16. FirstBelow(t, 1) = 2 /\ Below(t, 1) # {}
  <2>1. 2 \in Below(t, 1)
    BY <1>4, <1>14, <1>11 DEF Below, e
  <2>2. \A k \in Below(t, 1) : 2 <= k
    BY <1>14 DEF Below
  <2> QED BY <1>14, <2>1, <2>2, FirstBelowIs
<1>17. TryParseHeaderAt(t, 1) = Header(b.id, b.tags, b.title, 3)
  <2>1. Current(t, 1)
    BY <1>2, <1>3, <1>14, <1>16 DEF Current
  <2>2. TryParseHeaderAt(t, 1) = HeaderOf(t[FirstBelow(t, 1)].text, <<t[1].text>>, FirstBelow(t, 1) + 1)
    BY <2>1, HeaderCases
  <2>3. t[FirstBelow(t, 1)].text = m /\ t[1].text = x /\ FirstBelow(t, 1) + 1 = 3
    BY <1>3, <1>14, <1>16
  <2>4. HeaderOf(m, b.title, 3) = Header(b.id, b.tags, b.title, 3)
    BY <1>2, <1>3, Zenon DEF HeaderOf
  <2>5. <<x>> = b.title
    BY <1>2
  <2> QED BY ONLY <2>2, <2>3, <2>4, <2>5
<1>18. \A i \in 3..Len(t) : TryParseHeaderAt(t, i).found = FALSE
  <2> SUFFICES ASSUME NEW i \in 3..Len(t) PROVE TryParseHeaderAt(t, i).found = FALSE
    OBVIOUS
  <2>1. i - 2 \in 1..Len(r) /\ 2 + (i - 2) = i
    BY <1>11, <1>14
  <2>2. TryParseHeaderAt(t, 2 + (i - 2)).found = TryParseHeaderAt(r, i - 2).found
    BY <1>13, <2>1 DEF Moved
  <2> QED BY <1>15, <2>1, <2>2
<1>19. Trim(SubSeq(t, 3, Len(t))) = b.content
  <2>1. SubSeq(t, 2 + 1, Len(t)) = r
    BY <1>13 DEF Moved
  <2>2. 2 + 1 = 3
    OBVIOUS
  <2> QED BY <1>6, <2>1, <2>2
<1>20. 3 \in 2..Len(t) /\ Len(t) >= 2
  BY <1>1, <1>11, <1>14
<1>21. ReadsAs(t, b)
  <2>1. TryParseHeaderAt(t, 1).found = TRUE /\ TryParseHeaderAt(t, 1).id = b.id
        /\ TryParseHeaderAt(t, 1).tags = b.tags /\ TryParseHeaderAt(t, 1).title = b.title /\ TryParseHeaderAt(t, 1).next = 3
    BY ONLY <1>17 DEF Header, HeaderOf
  <2> QED BY ONLY <1>18, <1>19, <1>20, <2>1 DEF ReadsAs
<1> QED BY <1>3, <1>14, <1>20, <1>21 DEF t

\* So an entry reads as itself.
LEMMA BlockReads ==
  ASSUME NEW b \in SavedBlocks
  PROVE  /\ SerializeBlock(b) \in Seq(FileLines) /\ SerializeBlock(b)[1].heading = TRUE
         /\ Len(SerializeBlock(b)) >= 2 /\ ReadsAs(SerializeBlock(b), b)
  BY LegacyReads, TitledReads

\* A line at which an entry starts, the line at which it has ended, and the
\* entry.
Found(lines, i) == TryParseHeaderAt(lines, i).found
EndAt(lines, i) == NextBlockStart(lines, TryParseHeaderAt(lines, i).next)
EntryOf(lines, i) ==
  Block(TryParseHeaderAt(lines, i).id, TryParseHeaderAt(lines, i).tags, TryParseHeaderAt(lines, i).title,
        Trim(SubSeq(lines, TryParseHeaderAt(lines, i).next, EndAt(lines, i) - 1)))

\* The next entry starts at the first line that starts one.
LEMMA StartIs ==
  ASSUME NEW S, NEW lines \in Seq(S), NEW i \in Nat, NEW k \in i..Len(lines), Found(lines, k),
         \A j \in i..(k - 1) : ~Found(lines, j)
  PROVE  NextBlockStart(lines, i) = k
<1> DEFINE heads == {h \in i..Len(lines) : TryParseHeaderAt(lines, h).found}
           c == CHOOSE h \in heads : \A j \in heads : h <= j
<1>1. k \in heads /\ heads \subseteq i..Len(lines) /\ Len(lines) \in Nat
  BY DEF Found
<1>2. \A j \in heads : k <= j
  <2> SUFFICES ASSUME NEW j \in heads PROVE k <= j
    OBVIOUS
  <2>1. j \in i..Len(lines) /\ Found(lines, j)
    BY DEF Found
  <2>2. j \notin i..(k - 1)
    BY <2>1
  <2> QED BY <1>1, <2>1, <2>2
<1>3. NextBlockStart(lines, i) = c
  BY <1>1 DEF NextBlockStart
<1> HIDE DEF heads
<1>4. c \in heads /\ \A j \in heads : c <= j
  BY <1>1, <1>2
<1> HIDE DEF c
<1>5. c <= k /\ k <= c /\ c \in Int /\ k \in Int
  BY <1>1, <1>2, <1>4
<1> QED BY <1>3, <1>5

\* If there is none, it starts behind the text.
LEMMA StartNone ==
  ASSUME NEW lines, NEW i, \A j \in i..Len(lines) : ~Found(lines, j)
  PROVE  NextBlockStart(lines, i) = Len(lines) + 1
  BY DEF NextBlockStart, Found

\* It is one of the two.
LEMMA StartCases ==
  ASSUME NEW S, NEW lines \in Seq(S), NEW i \in Nat
  PROVE  \/ /\ NextBlockStart(lines, i) \in i..Len(lines)
            /\ Found(lines, NextBlockStart(lines, i))
            /\ \A j \in i..(NextBlockStart(lines, i) - 1) : ~Found(lines, j)
         \/ /\ NextBlockStart(lines, i) = Len(lines) + 1
            /\ \A j \in i..Len(lines) : ~Found(lines, j)
<1> DEFINE heads == {h \in i..Len(lines) : Found(lines, h)}
<1>0. Len(lines) \in Nat
  OBVIOUS
<1>1. CASE heads = {}
  <2>1. \A j \in i..Len(lines) : ~Found(lines, j)
    BY <1>1
  <2> QED BY <2>1, StartNone
<1>2. CASE heads # {}
  <2>1. heads \subseteq Nat /\ heads \subseteq i..Len(lines) /\ \A h \in heads : Found(lines, h)
    BY <1>0
  <2>2. PICK k \in heads : \A j \in heads : k <= j
    BY <1>2, <2>1, LeastNat
  <2>3. k \in i..Len(lines) /\ Found(lines, k) /\ k \in Nat
    BY <2>1, <2>2
  <2>4. \A j \in i..(k - 1) : ~Found(lines, j)
    <3> SUFFICES ASSUME NEW j \in i..(k - 1), Found(lines, j) PROVE FALSE
      OBVIOUS
    <3>1. j \in i..Len(lines) /\ j < k
      BY <1>0, <2>3
    <3>2. j \in heads
      BY <3>1
    <3> QED BY <2>2, <2>3, <3>1, <3>2
  <2>5. NextBlockStart(lines, i) = k
    BY <2>3, <2>4, StartIs
  <2> QED BY <2>3, <2>4, <2>5
<1> QED BY <1>1, <1>2

\* The lines that Trim leaves are lines.
LEMMA TrimType ==
  ASSUME NEW S, NEW lines \in Seq(S)
  PROVE  Trim(lines) \in Seq(S)
<1>1. CASE Kept(lines) = {}
  <2>1. Trim(lines) = <<>>
    BY <1>1, TrimBlank
  <2> QED BY <2>1
<1>2. CASE Kept(lines) # {}
  <2>1. PICK a \in Kept(lines), b \in Kept(lines) : \A k \in Kept(lines) : a <= k /\ k <= b
    BY <1>2, KeptEnds
  <2>2. Trim(lines) = SubSeq(lines, a, b)
    BY <2>1, TrimIs
  <2>3. a \in Nat \ {0} /\ b \in Nat /\ b <= Len(lines)
    BY <2>1 DEF Kept
  <2> QED BY <2>2, <2>3, SubSeqIn
<1> QED BY <1>1, <1>2

\* The tags that are read are tags.
LEMMA ParsedType ==
  ASSUME NEW tags \in Seq(TagSet)
  PROVE  ParsedTags(tags) \in Seq(TagSet)
<1> DEFINE S == TagSet n == Len(tags) rest == SubSeq(tags, 1, n - 1)
<1>1. tags \in Seq(S) /\ n \in Nat
  OBVIOUS
<1>2. CASE n > 0
  <2>1. tags[n] \in S /\ tags[n].v \in STRING
    <3>1. tags[n] \in TagSet
      BY <1>1, <1>2
    <3> QED BY <3>1 DEF TagSet
  <2>2. Tag("plain", tags[n].v) \in S
    BY <2>1 DEF Tag, TagSet
  <2> HIDE DEF S
  <2>3. rest \in Seq(S)
    <3>1. 1 \in Nat \ {0} /\ n - 1 \in Nat /\ n - 1 <= Len(tags)
      BY <1>1, <1>2
    <3> QED BY <1>1, <3>1, SubSeqIn
  <2> DEFINE x == Tag("plain", tags[n].v)
  <2> HIDE DEF rest, x
  <2>4. rest \o <<x>> \in Seq(S)
    <3>1. <<x>> \in Seq(S)
      BY <2>2 DEF x
    <3> QED BY <2>3, <3>1, ConcatProperties
  <2> QED BY <1>1, <2>3, <2>4 DEF ParsedTags, rest, x, S
<1>3. CASE ~(n > 0)
  BY <1>1, <1>3 DEF ParsedTags
<1> QED BY <1>2, <1>3

\* What stands in a header stood in the text.
LEMMA HeaderType ==
  ASSUME NEW lines \in Seq(FileLines), NEW i \in 1..Len(lines), Found(lines, i)
  PROVE  /\ TryParseHeaderAt(lines, i).id \in STRING \cup {""}
         /\ TryParseHeaderAt(lines, i).tags \in Seq(TagSet)
         /\ TryParseHeaderAt(lines, i).title \in Seq(FileTexts)
<1> DEFINE S == FileLines
<1>0. Len(lines) \in Nat /\ i \in Nat /\ \A k \in 1..Len(lines) : lines[k] \in S
  OBVIOUS
<1>1. \A x \in S : /\ x.text \in FileTexts /\ x.text.v \in STRING \cup {""}
                  /\ ParsedTags(x.text.tags) \in Seq(TagSet)
  <2> SUFFICES ASSUME NEW x \in S
               PROVE  /\ x.text \in FileTexts /\ x.text.v \in STRING \cup {""}
                      /\ ParsedTags(x.text.tags) \in Seq(TagSet)
    OBVIOUS
  <2>1. x.text \in FileTexts
    BY DEF FileLines
  <2>2. x.text.v \in STRING \cup {""} /\ x.text.tags \in Seq(TagSet)
    BY <2>1 DEF FileTexts
  <2> QED BY <2>1, <2>2, ParsedType
<1> HIDE DEF S
<1>2. CASE Legacy(lines, i)
  <2>1. TryParseHeaderAt(lines, i) = HeaderOf(lines[i].text, NoTitle, i + 1)
    BY <1>2, HeaderCases
  <2>2. NoTitle \in Seq(FileTexts)
    BY DEF NoTitle
  <2>3. TryParseHeaderAt(lines, i).id = lines[i].text.v /\ TryParseHeaderAt(lines, i).title = NoTitle
        /\ TryParseHeaderAt(lines, i).tags = ParsedTags(lines[i].text.tags)
    BY ONLY <2>1 DEF Header, HeaderOf
  <2> QED BY <1>0, <1>1, <2>2, <2>3
<1>3. CASE Current(lines, i)
  <2> DEFINE j == FirstBelow(lines, i)
  <2>1. TryParseHeaderAt(lines, i) = HeaderOf(lines[j].text, <<lines[i].text>>, j + 1)
    BY <1>3, HeaderCases
  <2>2. j \in (i + 1)..Len(lines)
    BY <1>0, <1>3, FirstBelowIn DEF Current
  <2> HIDE DEF j
  <2>3. TryParseHeaderAt(lines, i).id = lines[j].text.v
        /\ TryParseHeaderAt(lines, i).tags = ParsedTags(lines[j].text.tags)
        /\ TryParseHeaderAt(lines, i).title = <<lines[i].text>>
    BY ONLY <2>1 DEF Header, HeaderOf
  <2>4. j \in 1..Len(lines)
    BY <1>0, <2>2
  <2>5. <<lines[i].text>> \in Seq(FileTexts)
    <3> DEFINE T == FileTexts x == lines[i].text
    <3>1. x \in T
      BY <1>0, <1>1
    <3> HIDE DEF T, x
    <3>2. <<x>> \in Seq(T)
      BY <3>1
    <3> QED BY <3>2 DEF T, x
  <2> QED BY <1>0, <1>1, <2>3, <2>4, <2>5
<1> QED BY <1>2, <1>3, HeaderFound DEF Found

\* An entry ends below its start, and is an entry.
LEMMA EntryType ==
  ASSUME NEW lines \in Seq(FileLines), NEW i \in 1..Len(lines), Found(lines, i)
  PROVE  /\ TryParseHeaderAt(lines, i).next \in (i + 1)..(Len(lines) + 1)
         /\ EndAt(lines, i) \in TryParseHeaderAt(lines, i).next..(Len(lines) + 1)
         /\ EndAt(lines, i) \in (i + 1)..(Len(lines) + 1)
         /\ EntryOf(lines, i) \in FileBlocks
<1> DEFINE S == FileLines next == TryParseHeaderAt(lines, i).next
<1>0. lines \in Seq(S) /\ Len(lines) \in Nat /\ i \in Nat
  OBVIOUS
<1>1. next \in (i + 1)..(Len(lines) + 1) /\ next \in Nat
  <2>1. next \in (i + 1)..(Len(lines) + 1)
    BY HeaderEnds DEF Found
  <2> QED BY <1>0, <2>1
<1>2. EndAt(lines, i) = NextBlockStart(lines, next)
  BY DEF EndAt
<1>9. /\ TryParseHeaderAt(lines, i).id \in STRING \cup {""}
      /\ TryParseHeaderAt(lines, i).tags \in Seq(TagSet)
      /\ TryParseHeaderAt(lines, i).title \in Seq(FileTexts)
  BY HeaderType
<1> HIDE DEF next, S
<1>3. EndAt(lines, i) \in next..(Len(lines) + 1)
  BY <1>0, <1>1, <1>2, StartCases
<1>4. EndAt(lines, i) \in (i + 1)..(Len(lines) + 1) /\ EndAt(lines, i) - 1 \in Nat /\ EndAt(lines, i) - 1 <= Len(lines)
      /\ next \in Nat \ {0}
  BY <1>0, <1>1, <1>3
<1>5. SubSeq(lines, next, EndAt(lines, i) - 1) \in Seq(S)
  BY <1>0, <1>4, SubSeqIn
<1>6. Trim(SubSeq(lines, next, EndAt(lines, i) - 1)) \in Seq(S)
  BY <1>5, TrimType
<1>7. EntryOf(lines, i) \in FileBlocks
  BY ONLY <1>6, <1>9 DEF EntryOf, Block, FileBlocks, next, S
<1> QED BY <1>1, <1>3, <1>4, <1>7 DEF next

\* The entries from line i on, if f gives those from a line below on.
Reads(lines, f, i) ==
  IF NextBlockStart(lines, i) > Len(lines) THEN <<>>
  ELSE <<EntryOf(lines, NextBlockStart(lines, i))>> \o f[EndAt(lines, NextBlockStart(lines, i))]

\* A function that solves the recursion of ParseFrom.
IsParsing(lines, f) == f = [i \in Nat \ {0} |-> Reads(lines, f, i)]

\* Its values.
LEMMA ParsingAt ==
  ASSUME NEW lines, NEW f, IsParsing(lines, f), NEW i \in Nat \ {0}
  PROVE  f[i] = Reads(lines, f, i)
  BY DEF IsParsing

\* Where an entry starts there are lines, and fewer behind its end.
LEMMA NextEntry ==
  ASSUME NEW lines \in Seq(FileLines), NEW i \in Nat \ {0},
         ~(NextBlockStart(lines, i) > Len(lines))
  PROVE  /\ NextBlockStart(lines, i) \in 1..Len(lines)
         /\ Found(lines, NextBlockStart(lines, i))
         /\ EntryOf(lines, NextBlockStart(lines, i)) \in FileBlocks
         /\ EndAt(lines, NextBlockStart(lines, i)) \in Nat \ {0}
         /\ LinesLeft(lines)[EndAt(lines, NextBlockStart(lines, i))] < LinesLeft(lines)[i]
<1> DEFINE n == NextBlockStart(lines, i) e == EndAt(lines, n)
<1>0. Len(lines) \in Nat /\ i \in Nat /\ i >= 1
  OBVIOUS
<1>1. (n \in i..Len(lines) /\ Found(lines, n)) \/ n = Len(lines) + 1
  BY <1>0, StartCases
<1>2. ~(n > Len(lines))
  OBVIOUS
<1> HIDE DEF n
<1>3. n \in 1..Len(lines) /\ Found(lines, n) /\ i <= n
  BY <1>0, <1>1, <1>2
<1>4. e \in (n + 1)..(Len(lines) + 1) /\ EntryOf(lines, n) \in FileBlocks
  BY <1>3, EntryType
<1> HIDE DEF e
<1>5. e \in Nat \ {0} /\ i < e /\ e <= Len(lines) + 1 /\ i <= Len(lines)
  BY <1>0, <1>3, <1>4
<1>6. LinesLeft(lines)[e] < LinesLeft(lines)[i]
  BY <1>0, <1>5 DEF LinesLeft
<1> QED BY <1>3, <1>4, <1>5, <1>6 DEF n, e

\* There is one.
LEMMA ParsingExists ==
  ASSUME NEW lines \in Seq(FileLines)
  PROVE  \E f : IsParsing(lines, f) /\ f \in [Nat \ {0} -> Seq(FileBlocks)]
<1> DEFINE D == Nat \ {0} R == Seq(FileBlocks) m == LinesLeft(lines)
           B == [x \in [D -> R] \X D |-> Reads(lines, x[1], x[2])]
<1>1. m \in [D -> Nat] /\ R # {}
  <2>1. <<>> \in R
    OBVIOUS
  <2>2. Len(lines) \in Nat
    OBVIOUS
  <2>3. m \in [D -> Nat]
    BY <2>2 DEF LinesLeft
  <2> QED BY <2>1, <2>3
<1>2. B \in [[D -> R] \X D -> R]
  <2>1. ASSUME NEW x \in [D -> R] \X D PROVE Reads(lines, x[1], x[2]) \in R
    <3> DEFINE f == x[1] i == x[2] n == NextBlockStart(lines, i) e == EndAt(lines, n) b == EntryOf(lines, n)
               T == FileBlocks
    <3>1. f \in [D -> R] /\ i \in D
      OBVIOUS
    <3> HIDE DEF f, i
    <3>2. CASE n > Len(lines)
      <4>1. Reads(lines, f, i) = <<>>
        BY <3>2 DEF Reads
      <4> QED BY <4>1 DEF f, i
    <3>3. CASE ~(n > Len(lines))
      <4>1. Reads(lines, f, i) = <<b>> \o f[e]
        BY <3>3 DEF Reads
      <4>2. b \in T /\ e \in D
        BY <3>1, <3>3, NextEntry
      <4> HIDE DEF n, e, b, T
      <4>3. f[e] \in Seq(T) /\ <<b>> \in Seq(T)
        BY <3>1, <4>2 DEF T
      <4>4. <<b>> \o f[e] \in Seq(T)
        BY <4>3, ConcatProperties
      <4> QED BY <4>1, <4>4 DEF f, i, T
    <3> QED BY <3>2, <3>3
  <2> QED BY <2>1
<1>3. Descends(D, R, m, B)
  <2> SUFFICES ASSUME NEW p \in D, NEW f \in [D -> R], NEW g \in [D -> R],
                      \A q \in D : m[q] < m[p] => f[q] = g[q]
               PROVE  B[<<f, p>>] = B[<<g, p>>]
    BY DEF Descends
  <2>1. Reads(lines, f, p) = Reads(lines, g, p)
    <3>1. CASE NextBlockStart(lines, p) > Len(lines)
      BY <3>1 DEF Reads
    <3>2. CASE ~(NextBlockStart(lines, p) > Len(lines))
      <4>1. f[EndAt(lines, NextBlockStart(lines, p))] = g[EndAt(lines, NextBlockStart(lines, p))]
        BY <3>2, NextEntry
      <4> QED BY <4>1 DEF Reads
    <3> QED BY <3>1, <3>2
  <2> QED BY <2>1
<1>4. \A f \in [D -> R] : \A p \in D : B[<<f, p>>] = Reads(lines, f, p)
  OBVIOUS
<1> HIDE DEF B, R, m, D
<1>5. IsRecursion(D, R, m, B)
  BY <1>1, <1>2, <1>3 DEF IsRecursion
<1>6. PICK f \in [D -> R] : \A p \in D : f[p] = B[<<f, p>>]
  <2>1. HasSolution(D, R, B)
    BY ONLY <1>5, RecursionHasSolution
  <2> QED BY ONLY <2>1 DEF HasSolution
<1>7. f = [p \in D |-> Reads(lines, f, p)]
  BY <1>4, <1>6
<1> QED BY <1>6, <1>7 DEF IsParsing, R, D

\* What parse_blocks returns is the value of one at the first line.
LEMMA ParseBlocksIs ==
  ASSUME NEW lines \in Seq(FileLines)
  PROVE  \E f : IsParsing(lines, f) /\ ParseBlocks(lines) = f[1]
<1> DEFINE h == CHOOSE f : IsParsing(lines, f)
<1>1. IsParsing(lines, h)
  BY ParsingExists
<1>2. ParseBlocks(lines) = h[1]
  BY Zenon DEF ParseBlocks, IsParsing, Reads, EntryOf, EndAt
<1> HIDE DEF h
<1> QED BY <1>1, <1>2

\* Behind the first text the next entry is that of the second.
LEMMA StartShift ==
  ASSUME NEW s \in Seq(FileLines), NEW t \in Seq(FileLines), NEW n \in Nat, Len(s) = n,
         NEW i \in Nat \ {0}
  PROVE  NextBlockStart(s \o t, n + i) = n + NextBlockStart(t, i)
<1> DEFINE u == s \o t N == NextBlockStart(t, i)
<1>1. Moved(u, n, t)
  BY JoinedIs
<1> HIDE DEF u
<1>2. u \in Seq(FileLines) /\ Len(u) = n + Len(t) /\ Len(t) \in Nat
      /\ \A j \in 1..Len(t) : Found(u, n + j) = Found(t, j)
  BY <1>1 DEF Moved, Found
<1>3. \A k \in (n + i)..Len(u) : k - n \in i..Len(t) /\ k - n \in 1..Len(t) /\ n + (k - n) = k
  BY <1>2
<1>4. CASE N \in i..Len(t) /\ Found(t, N) /\ \A j \in i..(N - 1) : ~Found(t, j)
  <2> HIDE DEF N
  <2>1. n + N \in (n + i)..Len(u) /\ N \in 1..Len(t)
    BY <1>2, <1>4
  <2>2. Found(u, n + N)
    BY <1>2, <1>4, <2>1
  <2>3. \A k \in (n + i)..((n + N) - 1) : ~Found(u, k)
    <3> SUFFICES ASSUME NEW k \in (n + i)..((n + N) - 1) PROVE ~Found(u, k)
      OBVIOUS
    <3>1. k \in (n + i)..Len(u) /\ k - n \in i..(N - 1)
      BY <1>2, <2>1
    <3> QED BY <1>2, <1>3, <1>4, <3>1
  <2>4. n + i \in Nat
    OBVIOUS
  <2>5. NextBlockStart(u, n + i) = n + N
    BY <1>2, <2>1, <2>2, <2>3, <2>4, StartIs
  <2> QED BY <2>5 DEF u, N
<1>5. CASE N = Len(t) + 1 /\ \A j \in i..Len(t) : ~Found(t, j)
  <2>1. \A k \in (n + i)..Len(u) : ~Found(u, k)
    <3> SUFFICES ASSUME NEW k \in (n + i)..Len(u) PROVE ~Found(u, k)
      OBVIOUS
    <3>1. k - n \in i..Len(t) /\ k - n \in 1..Len(t) /\ n + (k - n) = k
      BY <1>3
    <3>2. Found(u, n + (k - n)) = Found(t, k - n) /\ ~Found(t, k - n)
      BY <1>2, <1>5, <3>1
    <3> QED BY <3>1, <3>2
  <2>2. NextBlockStart(u, n + i) = Len(u) + 1
    BY <2>1, StartNone
  <2>3. Len(u) + 1 = n + N
    BY <1>2, <1>5
  <2> QED BY <2>2, <2>3 DEF u
<1> QED BY <1>4, <1>5, StartCases

\* So are its pieces.
LEMMA SubSeqShift ==
  ASSUME NEW u, NEW t \in Seq(FileLines), NEW n \in Nat, Moved(u, n, t),
         NEW a \in Nat \ {0}, NEW b \in Nat, b <= Len(t)
  PROVE  SubSeq(u, n + a, n + b) = SubSeq(t, a, b)
<1> DEFINE len == b - a + 1
<1>0. Len(t) \in Nat /\ len \in Int /\ u \in Seq(FileLines) /\ Len(u) = n + Len(t)
      /\ \A k \in 1..Len(t) : u[n + k] = t[k]
  BY DEF Moved
<1>1. SubSeq(u, n + a, n + b) = [k \in 1..len |-> u[k + (n + a) - 1]]
  <2>1. SubSeq(u, n + a, n + b) = [k \in 1..((n + b) - (n + a) + 1) |-> u[k + (n + a) - 1]]
    BY <1>0 DEF SubSeq
  <2>2. (n + b) - (n + a) + 1 = len
    OBVIOUS
  <2> HIDE DEF len
  <2> QED BY <2>1, <2>2
<1>2. SubSeq(t, a, b) = [k \in 1..len |-> t[k + a - 1]]
  BY DEF SubSeq
<1>3. \A k \in 1..len : u[k + (n + a) - 1] = t[k + a - 1]
  <2> SUFFICES ASSUME NEW k \in 1..len PROVE u[k + (n + a) - 1] = t[k + a - 1]
    OBVIOUS
  <2>1. k + a - 1 \in 1..Len(t) /\ k + (n + a) - 1 = n + (k + a - 1)
    BY <1>0
  <2> QED BY <1>0, <2>1
<1> HIDE DEF len
<1>4. [k \in 1..len |-> u[k + (n + a) - 1]] = [k \in 1..len |-> t[k + a - 1]]
  BY <1>3
<1> QED BY <1>1, <1>2, <1>4

\* So are its entries.
LEMMA EntryShift ==
  ASSUME NEW s \in Seq(FileLines), NEW t \in Seq(FileLines), NEW n \in Nat, Len(s) = n,
         NEW i \in 1..Len(t), Found(t, i)
  PROVE  /\ EndAt(s \o t, n + i) = n + EndAt(t, i)
         /\ EntryOf(s \o t, n + i) = EntryOf(t, i)
<1> DEFINE u == s \o t a == TryParseHeaderAt(u, n + i) b == TryParseHeaderAt(t, i) S == FileLines
           next == b.next end == EndAt(t, i)
<1>0. s \in Seq(S) /\ t \in Seq(S)
  OBVIOUS
<1>1. b.next \in (i + 1)..(Len(t) + 1) /\ EndAt(t, i) \in b.next..(Len(t) + 1)
  BY EntryType
<1>2. a.id = b.id /\ a.tags = b.tags /\ a.title = b.title /\ a.next = n + b.next
  <2>1. TryParseHeaderAt(t, i).found
    BY DEF Found
  <2>2. /\ TryParseHeaderAt(s \o t, Len(s) + i).id = TryParseHeaderAt(t, i).id
        /\ TryParseHeaderAt(s \o t, Len(s) + i).tags = TryParseHeaderAt(t, i).tags
        /\ TryParseHeaderAt(s \o t, Len(s) + i).title = TryParseHeaderAt(t, i).title
        /\ TryParseHeaderAt(s \o t, Len(s) + i).next = Len(s) + TryParseHeaderAt(t, i).next
    <3> HIDE DEF S
    <3> QED BY ONLY <1>0, <2>1, i \in 1..Len(t), HeaderShift
  <2> QED BY <2>2
<1>3. Moved(u, n, t)
  BY JoinedIs
<1>4. EndAt(u, n + i) = NextBlockStart(u, a.next) /\ end = NextBlockStart(t, b.next)
  BY DEF EndAt
<1>5. NextBlockStart(u, n + next) = n + NextBlockStart(t, next)
  <2>1. next \in Nat \ {0}
    BY <1>0, <1>1
  <2> HIDE DEF next
  <2> QED BY <2>1, StartShift
<1>6. EndAt(u, n + i) = n + end
  BY <1>2, <1>4, <1>5
<1>7. EntryOf(u, n + i) = Block(a.id, a.tags, a.title, Trim(SubSeq(u, a.next, EndAt(u, n + i) - 1)))
  BY DEF EntryOf
<1>8. EntryOf(t, i) = Block(b.id, b.tags, b.title, Trim(SubSeq(t, b.next, end - 1)))
  BY DEF EntryOf
<1> HIDE DEF u, a, end
<1>9. SubSeq(u, n + next, n + (end - 1)) = SubSeq(t, next, end - 1)
  <2> DEFINE last == end - 1
  <2>1. next \in Nat \ {0} /\ last \in Nat /\ last <= Len(t) /\ n \in Nat /\ t \in Seq(FileLines)
    BY <1>0, <1>1 DEF end
  <2> HIDE DEF next, last
  <2>2. SubSeq(u, n + next, n + last) = SubSeq(t, next, last)
    BY ONLY <1>3, <2>1, SubSeqShift
  <2> QED BY <2>2 DEF last
<1>10. EntryOf(u, n + i) = EntryOf(t, i)
  <2>1. (n + end) - 1 = n + (end - 1)
    BY <1>1 DEF end
  <2>2. EntryOf(u, n + i) = Block(b.id, b.tags, b.title, Trim(SubSeq(u, n + next, n + (end - 1))))
    BY <1>2, <1>6, <1>7, <2>1
  <2>3. EntryOf(t, i) = Block(b.id, b.tags, b.title, Trim(SubSeq(t, next, end - 1)))
    BY <1>8
  <2> QED BY ONLY <1>9, <2>2, <2>3
<1> QED BY <1>6, <1>10 DEF u, end

\* Behind the first text the entries are those of the second.
LEMMA ParseShift ==
  ASSUME NEW s \in Seq(FileLines), NEW t \in Seq(FileLines), NEW n \in Nat, Len(s) = n,
         NEW f, IsParsing(s \o t, f), NEW g, IsParsing(t, g)
  PROVE  \A i \in Nat \ {0} : f[n + i] = g[i]
<1> DEFINE D == Nat \ {0} m == LinesLeft(t) u == s \o t
           P == {k \in Nat : \A i \in D : m[i] = k => f[n + i] = g[i]}
<1>0. Len(u) = n + Len(t) /\ Len(t) \in Nat
  <2>1. Moved(u, n, t)
    BY JoinedIs
  <2> QED BY <2>1 DEF Moved
<1>1. \A i \in D : m[i] \in Nat
  BY <1>0 DEF LinesLeft
<1>2. ASSUME NEW k \in Nat, \A j \in Nat : j < k => j \in P PROVE k \in P
  <2> SUFFICES ASSUME NEW i \in D, m[i] = k PROVE f[n + i] = g[i]
    OBVIOUS
  <2> DEFINE N == NextBlockStart(t, i) e == EndAt(t, N)
  <2>1. \A q \in D : m[q] < m[i] => f[n + q] = g[q]
    <3> HIDE DEF m
    <3> QED BY <1>1, <1>2
  <2>2. f[n + i] = Reads(u, f, n + i) /\ g[i] = Reads(t, g, i)
    <3>1. n + i \in Nat \ {0}
      OBVIOUS
    <3> QED BY <3>1 DEF IsParsing
  <2>3. NextBlockStart(u, n + i) = n + N
    BY StartShift
  <2> HIDE DEF m, P
  <2>4. CASE N > Len(t)
    <3>1. N \in Int
      BY <1>0, StartCases
    <3> HIDE DEF N
    <3>2. n + N > Len(u)
      BY <1>0, <2>4, <3>1
    <3> HIDE DEF u
    <3>3. Reads(u, f, n + i) = <<>>
      BY <2>3, <3>2 DEF Reads
    <3>4. Reads(t, g, i) = <<>>
      BY <2>4 DEF Reads, N
    <3> QED BY <2>2, <3>3, <3>4
  <2>5. CASE ~(N > Len(t))
    <3>1. N \in 1..Len(t) /\ Found(t, N) /\ e \in D /\ m[e] < m[i]
      BY <2>5, NextEntry DEF m
    <3> HIDE DEF N
    <3>2. EndAt(u, n + N) = n + e /\ EntryOf(u, n + N) = EntryOf(t, N)
      BY <3>1, EntryShift
    <3>3. ~(n + N > Len(u))
      BY <1>0, <3>1
    <3> HIDE DEF u
    <3>4. Reads(u, f, n + i) = <<EntryOf(t, N)>> \o f[n + e]
      BY <2>3, <3>2, <3>3 DEF Reads
    <3>5. Reads(t, g, i) = <<EntryOf(t, N)>> \o g[e]
      BY <2>5 DEF Reads, N
    <3>6. f[n + e] = g[e]
      BY <2>1, <3>1
    <3> QED BY <2>2, <3>4, <3>5, <3>6
  <2> QED BY <2>4, <2>5
<1> HIDE DEF P
<1>3. \A k \in Nat : k \in P
  BY <1>2, NatStrong
<1> QED BY <1>1, <1>3 DEF P

\* A text that reads as an entry gives it and no other.
LEMMA ReadsFirst ==
  ASSUME NEW b \in SavedBlocks, NEW t \in Seq(FileLines), ReadsAs(t, b), Len(t) >= 2,
         NEW f, IsParsing(t, f)
  PROVE  f[1] = <<b>>
<1> DEFINE next == TryParseHeaderAt(t, 1).next n == Len(t)
<1>1. n \in Nat /\ next \in 2..n /\ Found(t, 1) /\ (\A i \in next..n : ~Found(t, i))
      /\ TryParseHeaderAt(t, 1).id = b.id /\ TryParseHeaderAt(t, 1).tags = b.tags
      /\ TryParseHeaderAt(t, 1).title = b.title
      /\ Trim(SubSeq(t, next, n)) = b.content
  BY DEF ReadsAs, Found
<1>2. NextBlockStart(t, 1) = 1
  <2>1. 1 \in 1..Len(t) /\ \A j \in 1..(1 - 1) : ~Found(t, j)
    BY <1>1
  <2> QED BY <1>1, <2>1, StartIs
<1>3. EndAt(t, 1) = n + 1
  BY <1>1, StartNone DEF EndAt
<1>4. EntryOf(t, 1) = b
  <2>1. EntryOf(t, 1) = Block(b.id, b.tags, b.title, Trim(SubSeq(t, next, (n + 1) - 1)))
    BY <1>1, <1>3 DEF EntryOf
  <2>2. (n + 1) - 1 = n
    BY <1>1
  <2>3. EntryOf(t, 1) = Block(b.id, b.tags, b.title, b.content)
    BY <1>1, <2>1, <2>2
  <2> QED BY ONLY b \in SavedBlocks, <2>3, EntryIs
<1>5. f[1] = Reads(t, f, 1) /\ f[n + 1] = Reads(t, f, n + 1)
  <2>1. n + 1 \in Nat \ {0} /\ 1 \in Nat \ {0}
    BY <1>1
  <2> QED BY <2>1, ParsingAt
<1>6. f[n + 1] = <<>>
  <2>1. NextBlockStart(t, n + 1) = n + 1
    <3>1. \A j \in (n + 1)..Len(t) : ~Found(t, j)
      BY <1>1
    <3> QED BY <3>1, StartNone
  <2>2. NextBlockStart(t, n + 1) > Len(t)
    BY <1>1, <2>1
  <2> QED BY <1>5, <2>2 DEF Reads
<1>7. f[1] = <<EntryOf(t, 1)>> \o f[EndAt(t, 1)]
  <2>1. ~(NextBlockStart(t, 1) > Len(t))
    BY <1>1, <1>2
  <2> QED BY <1>2, <1>5, <2>1 DEF Reads
<1>8. f[1] = <<b>> \o <<>>
  BY <1>3, <1>4, <1>6, <1>7
<1> QED BY <1>8

\* A text that starts with an entry.
StartsEntry(r) == r \in Seq(FileLines) /\ Len(r) >= 1 /\ r[1].heading = TRUE /\ Found(r, 1)

\* An entry before others, and a text before that of others.
FirstThen(b, bs) == <<b>> \o bs
Behind(t, r) == t \o (<<Blank>> \o r)

\* Before a blank line and a text that starts with an entry it gives the entry
\* and what that text gives.
LEMMA ReadsBefore ==
  ASSUME NEW b \in SavedBlocks, NEW t \in Seq(FileLines), ReadsAs(t, b), Len(t) >= 2,
         NEW r, StartsEntry(r),
         NEW f, IsParsing(Behind(t, r), f), NEW g, IsParsing(r, g)
  PROVE  f[1] = FirstThen(b, g[1])
<1> DEFINE next == TryParseHeaderAt(t, 1).next n == Len(t) o == <<Blank>> q == o \o r u == t \o q
<1>0. r \in Seq(FileLines) /\ Len(r) >= 1 /\ r[1].heading = TRUE /\ Found(r, 1)
  BY DEF StartsEntry
<1>1. n \in Nat /\ n >= 2 /\ next \in 2..n /\ Found(t, 1) /\ (\A i \in next..n : ~Found(t, i))
      /\ TryParseHeaderAt(t, 1).id = b.id /\ TryParseHeaderAt(t, 1).tags = b.tags
      /\ TryParseHeaderAt(t, 1).title = b.title
      /\ Trim(SubSeq(t, next, n)) = b.content
  BY DEF ReadsAs, Found
<1>2. o \in Seq(FileLines) /\ Len(o) = 1 /\ o[1] = Blank
  BY BlankLine
<1>20. IsParsing(u, f)
  BY DEF Behind
<1> HIDE DEF o
<1>3. Moved(q, 1, r) /\ q[1] = Blank
  <2>1. Moved(q, 1, r) /\ \A i \in 1..1 : q[i] = o[i]
    BY <1>0, <1>2, JoinedIs
  <2> QED BY <1>0, <1>2, <2>1
<1> HIDE DEF q
<1>4. q \in Seq(FileLines) /\ Len(q) = 1 + Len(r) /\ Len(r) \in Nat /\ q[2] = r[1]
      /\ Found(q, 1 + 1) = Found(r, 1)
  <2>1. 1 \in 1..Len(r)
    <3>1. Len(r) \in Nat
      BY <1>0
    <3> QED BY <1>0, <3>1
  <2> QED BY <1>0, <1>3, <2>1 DEF Moved, Found
<1>5. Follows(q)
  BY <1>0, <1>3, <1>4 DEF Follows
<1>6. Moved(u, n, q) /\ \A i \in 1..n : u[i] = t[i]
  BY <1>1, <1>4, JoinedIs
<1>7. \A i \in 1..n : TryParseHeaderAt(u, i) = TryParseHeaderAt(t, i)
  BY <1>4, <1>5, HeaderStable
<1> HIDE DEF u, n, next
<1>8. u \in Seq(FileLines) /\ Len(u) = n + Len(q) /\ u[n + 1] = Blank /\ Found(u, n + 2)
  <2>1. u \in Seq(FileLines) /\ Len(u) = n + Len(q)
        /\ (\A i \in 1..Len(q) : u[n + i] = q[i] /\ Found(u, n + i) = Found(q, i))
    BY <1>6 DEF Moved, Found
  <2>2. 1 \in 1..Len(q) /\ 2 \in 1..Len(q)
    BY <1>0, <1>4
  <2> QED BY <1>0, <1>3, <1>4, <2>1, <2>2
<1>9. NextBlockStart(u, 1) = 1 /\ TryParseHeaderAt(u, 1) = TryParseHeaderAt(t, 1)
  <2>1. 1 \in 1..Len(u) /\ 1 \in 1..n /\ \A j \in 1..(1 - 1) : ~Found(u, j)
    BY <1>0, <1>1, <1>4, <1>8
  <2>2. TryParseHeaderAt(u, 1) = TryParseHeaderAt(t, 1)
    BY <1>7, <2>1
  <2>3. Found(u, 1)
    BY <1>1, <2>2 DEF Found
  <2>4. NextBlockStart(u, 1) = 1
    BY <1>8, <2>1, <2>3, StartIs
  <2> QED BY <2>2, <2>4
<1>10. EndAt(u, 1) = n + 2
  <2>1. n + 2 \in next..Len(u) /\ next \in Nat
    BY <1>0, <1>1, <1>4, <1>8
  <2>2. \A j \in next..((n + 2) - 1) : ~Found(u, j)
    <3> SUFFICES ASSUME NEW j \in next..((n + 2) - 1) PROVE ~Found(u, j)
      OBVIOUS
    <3>1. CASE j <= n
      <4>1. j \in 1..n /\ j \in next..n
        BY <1>1, <3>1
      <4>2. TryParseHeaderAt(u, j) = TryParseHeaderAt(t, j) /\ ~Found(t, j)
        BY <1>1, <1>7, <4>1
      <4> QED BY <4>2 DEF Found
    <3>2. CASE ~(j <= n)
      <4>1. j = n + 1
        BY <1>1, <3>2
      <4>2. Blank.heading = FALSE
        BY LineTypes
      <4>3. u[j].heading = FALSE
        BY <1>8, <4>1, <4>2
      <4>4. TryParseHeaderAt(u, j).found = FALSE
        BY <4>3, NoHeading
      <4> QED BY <4>4 DEF Found
    <3> QED BY <3>1, <3>2
  <2>3. NextBlockStart(u, next) = n + 2
    BY <1>8, <2>1, <2>2, StartIs
  <2> QED BY <1>9, <2>3 DEF EndAt, next
<1>11. SubSeq(u, next, n + 1) = Append(SubSeq(t, next, n), Blank)
  <2> DEFINE e == Blank
  <2>1. next \in Nat /\ next >= 2 /\ next <= n /\ n \in Nat /\ n = Len(t) /\ Len(u) >= n + 1
    BY <1>0, <1>1, <1>4, <1>8 DEF n
  <2>2. u[n + 1] = e /\ e \in FileLines
    BY <1>8, LineTypes
  <2> HIDE DEF e
  <2>3. SubSeq(u, next, n) = SubSeq(t, next, n)
    BY ONLY t \in Seq(FileLines), <1>6, <1>8, <2>1, SMTT(30)
  <2>4. SubSeq(u, next, n + 1) = Append(SubSeq(u, next, n), u[n + 1])
    BY <1>8, <2>1
  <2> QED BY <2>2, <2>3, <2>4 DEF e
<1>12. Trim(SubSeq(u, next, n + 1)) = b.content
  <2> DEFINE v == SubSeq(t, next, n)
  <2>1. v \in Seq(FileLines)
    <3>1. next \in Nat \ {0} /\ n \in Nat /\ n <= Len(t)
      BY <1>1 DEF n
    <3> QED BY <3>1, SubSeqIn
  <2>2. Blank \in FileLines
    BY LineTypes
  <2>3. Trim(v) = b.content
    BY <1>1
  <2> HIDE DEF v
  <2>4. Trim(Append(v, Blank)) = Trim(v)
    BY <2>1, <2>2, TrimAppend
  <2> QED BY <1>11, <2>3, <2>4 DEF v
<1>13. EntryOf(u, 1) = b
  <2>1. EntryOf(u, 1) = Block(b.id, b.tags, b.title, Trim(SubSeq(u, next, (n + 2) - 1)))
    BY <1>1, <1>9, <1>10 DEF EntryOf, next
  <2>2. (n + 2) - 1 = n + 1
    BY <1>1
  <2>3. EntryOf(u, 1) = Block(b.id, b.tags, b.title, b.content)
    BY <1>12, <2>1, <2>2
  <2> QED BY ONLY b \in SavedBlocks, <2>3, EntryIs
<1>14. f[1] = <<EntryOf(u, 1)>> \o f[EndAt(u, 1)]
  <2>1. f[1] = Reads(u, f, 1)
    <3>1. 1 \in Nat \ {0}
      OBVIOUS
    <3> QED BY ONLY <1>20, <3>1, ParsingAt
  <2>2. ~(NextBlockStart(u, 1) > Len(u))
    BY <1>0, <1>1, <1>4, <1>8, <1>9
  <2> QED BY <1>9, <2>1, <2>2 DEF Reads
<1>15. f[n + 2] = g[1]
  <2> DEFINE s == t \o o
  <2>1. Moved(s, n, o)
    BY <1>1, <1>2, JoinedIs DEF n
  <2>2. s \in Seq(FileLines) /\ Len(s) = n + 1
    BY <1>2, <2>1 DEF Moved
  <2>3. u = s \o r
    <3>1. (t \o o) \o r = t \o (o \o r)
      BY ONLY t \in Seq(FileLines), <1>0, <1>2, ConcatAssociative, SMTT(30)
    <3> QED BY <3>1 DEF u, q
  <2> DEFINE m == n + 1
  <2> HIDE DEF s
  <2>4. \A i \in Nat \ {0} : f[m + i] = g[i]
    <3>1. IsParsing(s \o r, f) /\ IsParsing(r, g) /\ r \in Seq(FileLines)
      BY <1>0, <1>20, <2>3
    <3>2. m \in Nat /\ Len(s) = m /\ s \in Seq(FileLines)
      BY <1>1, <2>2
    <3> HIDE DEF m
    <3> QED BY ONLY <3>1, <3>2, ParseShift
  <2>5. (n + 1) + 1 = n + 2
    BY <1>1
  <2> QED BY <2>4, <2>5
<1> QED BY <1>10, <1>13, <1>14, <1>15 DEF FirstThen

\* What serialize_blocks writes of each entry but the first.
Piece(b) == <<Blank>> \o SerializeBlock(b)
Others(bs) == FlattenSeq([k \in 1..Len(bs) |-> Piece(bs[k])])

\* A first and what follows it, place by place.
IsCons(all, t, ps) ==
  /\ all = [k \in 1..(Len(ps) + 1) |-> all[k]] /\ all[1] = t
  /\ \A k \in 1..Len(ps) : all[k + 1] = ps[k]

LEMMA ConsIs ==
  ASSUME NEW T, NEW t \in T, NEW ps \in Seq(T), NEW all, IsCons(all, t, ps)
  PROVE  all = <<t>> \o ps
<1> DEFINE w == <<t>> \o ps n == Len(ps)
<1>0. n \in Nat
  OBVIOUS
<1>4. all = [k \in 1..(n + 1) |-> all[k]] /\ all[1] = t /\ \A k \in 1..n : all[k + 1] = ps[k]
  BY Zenon DEF IsCons
<1>1. w \in Seq(T) /\ Len(w) = n + 1 /\ w[1] = t /\ \A k \in 1..n : w[k + 1] = ps[k]
  OBVIOUS
<1> HIDE DEF w, n
<1>2. w = [k \in 1..(n + 1) |-> w[k]]
  BY <1>1
<1>3. \A k \in 1..(n + 1) : all[k] = w[k]
  <2> SUFFICES ASSUME NEW k \in 1..(n + 1) PROVE all[k] = w[k]
    OBVIOUS
  <2>1. CASE k = 1
    BY <1>1, <1>4, <2>1
  <2>2. CASE k # 1
    <3>1. k - 1 \in 1..n /\ (k - 1) + 1 = k
      BY <1>0, <2>2
    <3>2. all[(k - 1) + 1] = ps[k - 1] /\ w[(k - 1) + 1] = ps[k - 1]
      BY <1>1, <1>4, <3>1
    <3> QED BY <3>1, <3>2
  <2> QED BY <2>1, <2>2
<1> QED BY <1>2, <1>3, <1>4 DEF w

\* A piece is text.
LEMMA PieceType ==
  ASSUME NEW b \in SavedBlocks
  PROVE  Piece(b) \in Seq(FileLines)
<1> DEFINE t == SerializeBlock(b) o == <<Blank>>
<1>1. t \in Seq(FileLines) /\ o \in Seq(FileLines)
  BY BlockReads, BlankLine
<1> HIDE DEF t, o
<1>2. o \o t \in Seq(FileLines)
  BY <1>1, ConcatProperties
<1> QED BY <1>2 DEF Piece, t, o

\* So are those of entries.
LEMMA PieceSeq ==
  ASSUME NEW bs \in Seq(SavedBlocks)
  PROVE  [k \in 1..Len(bs) |-> Piece(bs[k])] \in Seq(Seq(FileLines))
<1> DEFINE T == Seq(FileLines)
<1>1. \A k \in 1..Len(bs) : bs[k] \in SavedBlocks
  OBVIOUS
<1>2. \A k \in 1..Len(bs) : Piece(bs[k]) \in T
  BY <1>1, PieceType
<1> HIDE DEF T
<1>3. [k \in 1..Len(bs) |-> Piece(bs[k])] \in Seq(T)
  BY <1>2
<1> QED BY <1>3 DEF T

\* The file is the first entry and the pieces of the others.
LEMMA FileSplits ==
  ASSUME NEW b \in SavedBlocks, NEW bs \in Seq(SavedBlocks)
  PROVE  SerializeBlocks(<<b>> \o bs) = SerializeBlock(b) \o Others(bs)
<1> DEFINE cs == <<b>> \o bs T == Seq(FileLines) t == SerializeBlock(b)
           ps == [k \in 1..Len(bs) |-> Piece(bs[k])]
           all == [k \in 1..Len(cs) |-> (IF k > 1 THEN <<Blank>> ELSE <<>>) \o SerializeBlock(cs[k])]
<1>1. Len(cs) = Len(bs) + 1 /\ Len(bs) \in Nat /\ cs[1] = b /\ \A k \in 1..Len(bs) : cs[k + 1] = bs[k]
  OBVIOUS
<1>2. SerializeBlocks(cs) = FlattenSeq(all)
  BY Zenon DEF SerializeBlocks
<1>3. t \in T
  BY BlockReads
<1>4. ps \in Seq(T)
  BY PieceSeq
<1> HIDE DEF cs
<1>5. all[1] = t
  <2>1. all[1] = <<>> \o SerializeBlock(b)
    BY <1>1
  <2>2. <<>> \o t = t
    <3> HIDE DEF t
    <3> QED BY <1>3, ConcatEmptySeq
  <2> QED BY <2>1, <2>2
<1>6. \A k \in 1..Len(bs) : all[k + 1] = ps[k]
  <2> SUFFICES ASSUME NEW k \in 1..Len(bs) PROVE all[k + 1] = ps[k]
    OBVIOUS
  <2>1. k + 1 \in 1..Len(cs) /\ k + 1 > 1
    BY <1>1
  <2>2. all[k + 1] = <<Blank>> \o SerializeBlock(cs[k + 1])
    BY <2>1
  <2>3. cs[k + 1] = bs[k]
    BY <1>1
  <2> QED BY <2>2, <2>3 DEF Piece
<1>7. all = [k \in 1..(Len(bs) + 1) |-> all[k]]
  BY <1>1
<1>8. Len(ps) = Len(bs) /\ Len(bs) \in Nat
  BY <1>1
<1> HIDE DEF all, ps, t, T
<1>9. all = <<t>> \o ps
  <2>1. IsCons(all, t, ps)
    BY <1>5, <1>6, <1>7, <1>8 DEF IsCons
  <2> QED BY <1>3, <1>4, <2>1, ConsIs
<1>10. FlattenSeq(all) = FlattenSeq(<<t>>) \o FlattenSeq(ps)
  <2>1. <<t>> \in Seq(T)
    BY <1>3
  <2>2. FlattenSeq(<<t>> \o ps) = FlattenSeq(<<t>>) \o FlattenSeq(ps)
    BY <1>4, <2>1, FlattenConcat DEF T
  <2> QED BY <1>9, <2>2
<1>11. FlattenSeq(<<t>>) = t
  BY <1>3, FlattenOne DEF T
<1> QED BY <1>2, <1>10, <1>11 DEF cs, ps, t, Others

\* The pieces of entries are text.
LEMMA PiecesType ==
  ASSUME NEW bs \in Seq(SavedBlocks)
  PROVE  Others(bs) \in Seq(FileLines)
<1> DEFINE T == Seq(FileLines) ps == [k \in 1..Len(bs) |-> Piece(bs[k])]
<1>1. ps \in Seq(T)
  BY PieceSeq
<1> HIDE DEF ps
<1>2. FlattenSeq(ps) \in Seq(FileLines)
  BY <1>1, FlattenType DEF T
<1> QED BY <1>2 DEF Others, ps

\* They are a blank line and the file of the entries, if there are any.
LEMMA PiecesSplit ==
  ASSUME NEW b \in SavedBlocks, NEW bs \in Seq(SavedBlocks)
  PROVE  Others(<<b>> \o bs) = <<Blank>> \o SerializeBlocks(<<b>> \o bs)
<1> DEFINE cs == <<b>> \o bs T == Seq(FileLines) p == Piece(b) t == SerializeBlock(b)
           ps == [k \in 1..Len(bs) |-> Piece(bs[k])]
           all == [k \in 1..Len(cs) |-> Piece(cs[k])]
<1>1. Len(cs) = Len(bs) + 1 /\ Len(bs) \in Nat /\ cs[1] = b /\ \A k \in 1..Len(bs) : cs[k + 1] = bs[k]
  OBVIOUS
<1>2. p \in T /\ t \in T
  BY PieceType, BlockReads
<1>3. ps \in Seq(T)
  BY PieceSeq
<1>4. all[1] = p /\ (\A k \in 1..Len(bs) : all[k + 1] = ps[k])
      /\ all = [k \in 1..(Len(bs) + 1) |-> all[k]]
  <2> HIDE DEF cs
  <2>1. 1 \in 1..Len(cs) /\ \A k \in 1..Len(bs) : k + 1 \in 1..Len(cs)
    BY <1>1
  <2> QED BY <1>1, <2>1
<1>5. Len(ps) = Len(bs)
  BY <1>1
<1>6. Others(cs) = FlattenSeq(all) /\ Others(bs) = FlattenSeq(ps)
  BY DEF Others
<1>7. p = <<Blank>> \o t
  BY DEF Piece
<1> HIDE DEF all, ps, p, t, T
<1>9. all = <<p>> \o ps
  <2>1. IsCons(all, p, ps)
    BY <1>4, <1>5 DEF IsCons
  <2> QED BY <1>2, <1>3, <2>1, ConsIs
<1>10. FlattenSeq(all) = p \o FlattenSeq(ps)
  <2>1. <<p>> \in Seq(T)
    BY <1>2
  <2>2. FlattenSeq(<<p>> \o ps) = FlattenSeq(<<p>>) \o FlattenSeq(ps)
    BY <1>3, <2>1, FlattenConcat DEF T
  <2>3. FlattenSeq(<<p>>) = p
    BY <1>2, FlattenOne DEF T
  <2> QED BY <1>9, <2>2, <2>3
<1>11. (<<Blank>> \o t) \o Others(bs) = <<Blank>> \o (t \o Others(bs))
  <2> DEFINE o == <<Blank>> q == Others(bs)
  <2>1. o \in Seq(FileLines) /\ t \in Seq(FileLines) /\ q \in Seq(FileLines)
    BY <1>2, BlankLine, PiecesType DEF T
  <2> HIDE DEF o, q
  <2>2. (o \o t) \o q = o \o (t \o q)
    BY ONLY <2>1, ConcatAssociative
  <2> QED BY <2>2 DEF o, q
<1>12. SerializeBlocks(cs) = t \o Others(bs)
  BY FileSplits DEF t
<1> QED BY <1>6, <1>7, <1>10, <1>11, <1>12 DEF cs

\* A file of entries is text, and starts with an entry if it has one.
LEMMA FileStarts ==
  ASSUME NEW b \in SavedBlocks, NEW bs \in Seq(SavedBlocks)
  PROVE  /\ SerializeBlocks(<<b>> \o bs) \in Seq(FileLines)
         /\ Len(SerializeBlocks(<<b>> \o bs)) >= 1
         /\ SerializeBlocks(<<b>> \o bs)[1].heading = TRUE
<1> DEFINE t == SerializeBlock(b) q == Others(bs) r == SerializeBlocks(<<b>> \o bs)
<1>1. t \in Seq(FileLines) /\ t[1].heading = TRUE /\ Len(t) >= 2
  BY BlockReads
<1>2. q \in Seq(FileLines) /\ r = t \o q
  BY PiecesType, FileSplits
<1> HIDE DEF t, q, r
<1>3. t \o q \in Seq(FileLines) /\ Len(t \o q) = Len(t) + Len(q) /\ Len(t) \in Nat /\ Len(q) \in Nat
      /\ \A i \in 1..Len(t) : (t \o q)[i] = t[i]
  BY <1>1, <1>2, JoinedLines
<1>4. 1 \in 1..Len(t)
  BY <1>1, <1>3
<1>5. r \in Seq(FileLines) /\ Len(r) >= 1 /\ r[1].heading = TRUE
  BY <1>1, <1>2, <1>3, <1>4
<1> QED BY <1>5 DEF r

\* A file without entries is empty.
LEMMA NoEntries == SerializeBlocks(<<>>) = <<>> /\ Others(<<>>) = <<>>
<1>1. \A F : [k \in 1..Len(<<>>) |-> F[k]] = <<>>
  OBVIOUS
<1>2. [k \in 1..Len(<<>>) |-> Piece(<<>>[k])] = <<>>
  OBVIOUS
<1>3. [k \in 1..Len(<<>>) |-> (IF k > 1 THEN <<Blank>> ELSE <<>>) \o SerializeBlock(<<>>[k])] = <<>>
  OBVIOUS
<1> QED BY <1>2, <1>3, FlattenEmpty DEF SerializeBlocks, Others

\* Entries are the first and the others.
LEMMA FirstAndRest ==
  ASSUME NEW S, NEW n \in Nat, NEW bs \in Seq(S), Len(bs) = n + 1
  PROVE  \E b \in S, cs \in Seq(S) : bs = <<b>> \o cs /\ Len(cs) = n
<1> DEFINE b == bs[1] cs == [k \in 1..n |-> bs[k + 1]]
<1>1. b \in S /\ \A k \in 1..n : bs[k + 1] \in S
  OBVIOUS
<1>2. cs \in Seq(S) /\ Len(cs) = n /\ \A k \in 1..n : cs[k] = bs[k + 1]
  BY <1>1
<1> HIDE DEF cs
<1>3. bs = [k \in 1..(n + 1) |-> bs[k]]
  OBVIOUS
<1> HIDE DEF b
<1>4. IsCons(bs, b, cs)
  BY <1>2, <1>3 DEF IsCons, b
<1>5. bs = <<b>> \o cs
  BY <1>1, <1>2, <1>4, ConsIs
<1> QED BY <1>1, <1>2, <1>5

\* There are a first and others unless there are none.
LEMMA SplitFirst ==
  ASSUME NEW S, NEW bs \in Seq(S), bs # <<>>
  PROVE  \E b \in S, cs \in Seq(S) : bs = <<b>> \o cs
<1> DEFINE n == Len(bs) - 1
<1>1. n \in Nat /\ Len(bs) = n + 1
  OBVIOUS
<1> HIDE DEF n
<1>2. \E b \in S, cs \in Seq(S) : bs = <<b>> \o cs /\ Len(cs) = n
  BY <1>1, FirstAndRest
<1> QED BY <1>2

\* The file of a first entry and others starts with an entry.
LEMMA FileFound ==
  ASSUME NEW b \in SavedBlocks, NEW bs \in Seq(SavedBlocks)
  PROVE  Found(SerializeBlocks(<<b>> \o bs), 1)
<1> DEFINE t == SerializeBlock(b) q == Others(bs) r == SerializeBlocks(<<b>> \o bs)
<1>1. t \in Seq(FileLines) /\ Len(t) >= 2 /\ TryParseHeaderAt(t, 1).found = TRUE
  BY BlockReads DEF ReadsAs
<1>2. q \in Seq(FileLines) /\ r = t \o q
  BY PiecesType, FileSplits
<1>3. CASE bs = <<>>
  <2>1. q = <<>>
    BY <1>3, NoEntries
  <2> HIDE DEF t, q, r
  <2>2. r = t
    BY <1>1, <1>2, <2>1, ConcatEmptySeq
  <2>3. Found(r, 1)
    BY <1>1, <2>2 DEF Found
  <2> QED BY <2>3 DEF r
<1>4. CASE bs # <<>>
  <2>2. PICK c \in SavedBlocks, cs \in Seq(SavedBlocks) : bs = <<c>> \o cs
    BY <1>4, SplitFirst
  <2> DEFINE o == <<Blank>> v == SerializeBlocks(<<c>> \o cs)
  <2>3. q = o \o v
    BY <2>2, PiecesSplit
  <2>4. v \in Seq(FileLines) /\ Len(v) >= 1 /\ v[1].heading = TRUE
    BY FileStarts
  <2>5. o \in Seq(FileLines) /\ Len(o) = 1 /\ o[1] = Blank
    BY BlankLine
  <2> HIDE DEF t, q, r, o, v
  <2>6. Follows(q)
    <3>1. Moved(q, 1, v) /\ \A i \in 1..1 : q[i] = o[i]
      BY <2>3, <2>4, <2>5, JoinedIs
    <3>2. 1 \in 1..Len(v)
      <4>1. Len(v) \in Nat
        BY <2>4
      <4> QED BY <2>4, <4>1
    <3>3. q[1] = Blank /\ q[1 + 1] = v[1] /\ Len(q) = 1 + Len(v)
      BY <2>5, <3>1, <3>2 DEF Moved
    <3>4. 1 + 1 = 2 /\ Len(q) >= 2
      BY <2>4, <3>2, <3>3
    <3> QED BY <2>4, <3>3, <3>4 DEF Follows
  <2>7. 1 \in 1..Len(t)
    <3>1. Len(t) \in Nat
      BY <1>1
    <3> QED BY <1>1, <3>1
  <2>8. TryParseHeaderAt(t \o q, 1) = TryParseHeaderAt(t, 1)
    BY <1>1, <1>2, <2>6, <2>7, HeaderStable
  <2>9. Found(r, 1)
    BY <1>1, <1>2, <2>8 DEF Found
  <2> QED BY <2>9 DEF r
<1> QED BY <1>3, <1>4

\* What is read of the file of entries is the entries.
FileGives(bs) == \A f : IsParsing(SerializeBlocks(bs), f) => f[1] = bs

\* It always is: by induction on their number, the file of one more is its text
\* before the file of the others.
LEMMA FileReads ==
  ASSUME NEW bs \in Seq(SavedBlocks)
  PROVE  FileGives(bs)
<1> DEFINE P == {n \in Nat : \A cs \in Seq(SavedBlocks) : Len(cs) = n => FileGives(cs)}
<1>1. 0 \in P
  <2> SUFFICES ASSUME NEW cs \in Seq(SavedBlocks), Len(cs) = 0 PROVE FileGives(cs)
    OBVIOUS
  <2>1. cs = <<>>
    OBVIOUS
  <2> SUFFICES ASSUME NEW f, IsParsing(<<>>, f) PROVE f[1] = <<>>
    BY <2>1, NoEntries DEF FileGives
  <2>2. f[1] = Reads(<<>>, f, 1)
    <3>1. 1 \in Nat \ {0}
      OBVIOUS
    <3> QED BY <3>1, ParsingAt
  <2>3. NextBlockStart(<<>>, 1) = Len(<<>>) + 1
    <3>1. \A j \in 1..Len(<<>>) : ~Found(<<>>, j)
      OBVIOUS
    <3> QED BY <3>1, StartNone
  <2>4. NextBlockStart(<<>>, 1) > Len(<<>>)
    BY <2>3
  <2> QED BY <2>2, <2>4 DEF Reads
<1>2. ASSUME NEW n \in Nat, n \in P PROVE n + 1 \in P
  <2> SUFFICES ASSUME NEW ds \in Seq(SavedBlocks), Len(ds) = n + 1 PROVE FileGives(ds)
    OBVIOUS
  <2>1. PICK b \in SavedBlocks, cs \in Seq(SavedBlocks) : ds = <<b>> \o cs /\ Len(cs) = n
    BY FirstAndRest
  <2>2. FileGives(cs)
    BY <1>2, <2>1
  <2> HIDE DEF P
  <2> SUFFICES ASSUME NEW f, IsParsing(SerializeBlocks(<<b>> \o cs), f) PROVE f[1] = <<b>> \o cs
    BY <2>1 DEF FileGives
  <2> DEFINE t == SerializeBlock(b) r == SerializeBlocks(cs) u == SerializeBlocks(<<b>> \o cs)
  <2>3. t \in Seq(FileLines) /\ Len(t) >= 2 /\ ReadsAs(t, b)
    BY BlockReads
  <2>4. u = t \o Others(cs) /\ IsParsing(u, f)
    BY FileSplits
  <2>5. CASE cs = <<>>
    <3>1. Others(cs) = <<>>
      BY <2>5, NoEntries
    <3> HIDE DEF t, u
    <3>2. u = t
      BY <2>3, <2>4, <3>1, ConcatEmptySeq
    <3>3. f[1] = <<b>>
      BY <2>3, <2>4, <3>2, ReadsFirst
    <3> QED BY <2>5, <3>3
  <2>6. CASE cs # <<>>
    <3>2. PICK c \in SavedBlocks, es \in Seq(SavedBlocks) : cs = <<c>> \o es
      BY <2>6, SplitFirst
    <3>3. Others(cs) = <<Blank>> \o r
      BY <3>2, PiecesSplit
    <3>4. r \in Seq(FileLines) /\ Len(r) >= 1 /\ r[1].heading = TRUE /\ Found(r, 1)
      BY <3>2, FileStarts, FileFound
    <3>5. PICK g : IsParsing(r, g)
      BY <3>4, ParsingExists
    <3>6. g[1] = cs
      BY <2>2, <3>5 DEF FileGives
    <3> HIDE DEF t, r, u
    <3>7. IsParsing(Behind(t, r), f)
      BY <2>4, <3>3 DEF Behind
    <3>8. f[1] = FirstThen(b, g[1])
      <4>1. StartsEntry(r)
        BY <3>4 DEF StartsEntry
      <4> QED BY ONLY b \in SavedBlocks, <2>3, <3>5, <3>7, <4>1, ReadsBefore
    <3> QED BY <3>6, <3>8 DEF FirstThen
  <2> QED BY <2>5, <2>6
<1> HIDE DEF P
<1>3. \A n \in Nat : n \in P
  BY <1>1, <1>2, NatSet
<1>4. Len(bs) \in Nat /\ Len(bs) \in P
  BY <1>3
<1> QED BY <1>4 DEF P

\* The lines of a file of entries.
LEMMA FileType ==
  ASSUME NEW bs \in Seq(SavedBlocks)
  PROVE  SerializeBlocks(bs) \in Seq(FileLines)
<1>1. CASE bs = <<>>
  <2>1. SerializeBlocks(bs) = <<>>
    BY <1>1, NoEntries
  <2> QED BY <2>1
<1>2. CASE bs # <<>>
  <2>2. PICK c \in SavedBlocks, cs \in Seq(SavedBlocks) : bs = <<c>> \o cs
    BY <1>2, SplitFirst
  <2> QED BY <2>2, FileStarts
<1> QED BY <1>1, <1>2

\* What memory_tools.rs reads back of a file is what it wrote.
LEMMA ReadBack ==
  ASSUME NEW bs \in Seq(SavedBlocks)
  PROVE  ParseBlocks(SerializeBlocks(bs)) = bs
<1>1. PICK f : IsParsing(SerializeBlocks(bs), f) /\ ParseBlocks(SerializeBlocks(bs)) = f[1]
  BY FileType, ParseBlocksIs
<1> QED BY <1>1, FileReads DEF FileGives

\* Entries of the tool that can be read back are such entries.
LEMMA StorableSaved ==
  ASSUME NEW b \in MemoryBlocks, Storable(b)
  PROVE  b \in SavedBlocks
<1>1. STRING \subseteq STRING \cup {""}
  OBVIOUS
<1>2. \A x \in TextSet : x \in FileTexts
  BY <1>1 DEF TextSet, FileTexts
<1>3. LineSet \subseteq FileLines
  BY <1>2 DEF LineSet, FileLines
<1>6. b \in [id : STRING, tags : Seq(TagSet), title : Seq(TextSet), content : Seq(LineSet)] /\ Trim(b.content) = b.content
  BY DEF MemoryBlocks
<1>7. b \in FileBlocks
  <2> DEFINE A == STRING B == STRING \cup {""} C == TextSet D == FileTexts E == LineSet F == FileLines G == Seq(TagSet)
  <2>1. A \subseteq B /\ C \subseteq D /\ E \subseteq F /\ b \in [id : A, tags : G, title : Seq(C), content : Seq(E)]
    BY <1>2, <1>3, <1>6
  <2> HIDE DEF A, B, C, D, E, F, G
  <2>2. b \in [id : B, tags : G, title : Seq(D), content : Seq(F)]
    BY <2>1
  <2> QED BY <2>2 DEF FileBlocks, B, D, F, G
<1> QED BY <1>6, <1>7 DEF SavedBlocks


-----------------------------------------------------------------------------
(* The theorems.                                                           *)

\* The chunks of a text, once it was converted.
LEMMA MarkdownConverted ==
  ASSUME Inv, Is("markdown")
  PROVE  /\ RenderBlocks(input.lines) \in Seq(Good)
         /\ output = ChunkBlocks(RenderBlocks(input.lines))
<1>1. input.lines \in Lines
  BY InputsAssumption DEF Inv, Is
<1>2. Convert(input) = RenderTelegram(input.lines)
  BY DEF Convert, Is
<1>3. RenderBlocks(input.lines) \in Seq(Good)
  BY <1>1, RenderBlocksGood
<1> QED BY <1>2, <1>3 DEF Inv, Is, RenderTelegram

\* The output of entries is what is read of their file.
LEMMA MemoryConverted ==
  ASSUME Inv, Is("memory")
  PROVE  input.blocks \in Seq(MemoryBlocks) /\ output = ParseBlocks(SerializeBlocks(input.blocks))
<1>1. input \in Inputs /\ input.kind = "memory" /\ output = Convert(input)
  BY DEF Inv, Is
<1>2. Convert(input) = ParseBlocks(SerializeBlocks(input.blocks))
  BY <1>1, Zenon DEF Convert
<1>3. input.blocks \in Seq(MemoryBlocks)
  BY <1>1, InputsAssumption
<1> QED BY <1>1, <1>2, <1>3

\* Every chunk closes the tags it opens, the last one first, and is no longer
\* than Telegram accepts, unless the tags of a block alone are too long.
THEOREM ChunksAreValid == Spec => []ChunksValid
<1>1. ASSUME Inv, Is("markdown"), NEW k \in 1..Len(output)
      PROVE  /\ WellFormed(output[k])
             /\ AllFit(RenderBlocks(input.lines)) => WidthOf(output[k]) <= Limit
  <2> DEFINE blocks == RenderBlocks(input.lines)
  <2>1. blocks \in Seq(Good) /\ output = ChunkBlocks(blocks)
    BY <1>1, MarkdownConverted
  <2> HIDE DEF blocks
  <2>2. output \in Seq(Good) /\ (AllFit(blocks) => Within(output))
    BY <2>1, ChunksOfBlocks
  <2>3. output[k] \in Good
    BY <1>1, <2>2
  <2>4. WellFormed(output[k])
    BY <2>3 DEF Good
  <2>5. AllFit(blocks) => WidthOf(output[k]) <= Limit
    BY <1>1, <2>2 DEF Within
  <2> QED BY <2>4, <2>5 DEF blocks
<1>2. Inv => ChunksValid
  BY <1>1, Zenon DEF ChunksValid, AllFit
<1> QED BY <1>2, InvAlways, PTL

\* The chunks have the text of the blocks, all of it and in their order,
\* wherever a block is split and however blocks are packed.
THEOREM NoTextIsLost == Spec => []TextKept
<1>1. ASSUME Inv, Is("markdown")
      PROVE  LET plain(parts) == Solid(FlattenSeq([k \in 1..Len(parts) |-> StripTags(parts[k])]))
             IN plain(output) = plain(RenderBlocks(input.lines))
  <2> DEFINE blocks == RenderBlocks(input.lines)
  <2>1. blocks \in Seq(Good) /\ output = ChunkBlocks(blocks)
    BY <1>1, MarkdownConverted
  <2> HIDE DEF blocks
  <2>2. output \in Seq(Good) /\ Plain(FlattenSeq(output)) = Plain(FlattenSeq(blocks))
    BY <2>1, ChunksOfBlocks
  <2>3. output \in Seq(Seq(Tokens)) /\ blocks \in Seq(Seq(Tokens))
    BY <2>1, <2>2, GoodSeqs
  <2>4. /\ FlattenSeq([k \in 1..Len(output) |-> StripTags(output[k])]) = StripTags(FlattenSeq(output))
        /\ FlattenSeq([k \in 1..Len(blocks) |-> StripTags(blocks[k])]) = StripTags(FlattenSeq(blocks))
    BY <2>3, TextOfParts
  <2>5. Solid(StripTags(FlattenSeq(output))) = Solid(StripTags(FlattenSeq(blocks)))
    BY <2>2 DEF Plain
  <2> QED BY <2>4, <2>5 DEF blocks
<1>2. Inv => TextKept
  BY <1>1, Zenon DEF TextKept
<1> QED BY <1>2, InvAlways, PTL

\* The file gives back the entries that were written to it, in order, with
\* headings and blank lines in their contents, and legacy entries among them.
THEOREM EntriesAreReadBack == Spec => []EntriesReadBack
<1>1. ASSUME Inv, Is("memory"), \A k \in 1..Len(input.blocks) : Storable(input.blocks[k])
      PROVE  output = input.blocks
  <2> DEFINE bs == input.blocks
  <2>1. bs \in Seq(MemoryBlocks) /\ output = ParseBlocks(SerializeBlocks(bs))
    BY <1>1, MemoryConverted
  <2>2. \A k \in 1..Len(bs) : bs[k] \in SavedBlocks
    <3> SUFFICES ASSUME NEW k \in 1..Len(bs) PROVE bs[k] \in SavedBlocks
      OBVIOUS
    <3>1. bs[k] \in MemoryBlocks
      BY <2>1
    <3> QED BY <1>1, <3>1, StorableSaved
  <2> HIDE DEF bs
  <2>3. bs \in Seq(SavedBlocks)
    BY <2>1, <2>2
  <2>4. output = bs
    BY <2>1, <2>3, ReadBack
  <2> QED BY <2>4 DEF bs
<1>2. Inv => EntriesReadBack
  BY <1>1, Zenon DEF EntriesReadBack
<1> QED BY <1>2, InvAlways, PTL
=============================================================================
