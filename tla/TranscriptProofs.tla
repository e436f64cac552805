-------------------------- MODULE TranscriptProofs --------------------------
(* Theorems about the sessions of Conversions.tla, which Transcript.tla    *)
(* converts: for sessions of any length, any answers and any limit of the  *)
(* history.                                                                *)
(*                                                                         *)
(* Induction is over sets: what is to be shown of every sequence is the    *)
(* set of those it holds for, which has <<>> and is closed under Append.   *)
(* The maps take a message to a sequence, and Mapped joins what they make  *)
(* of each message.                                                        *)
EXTENDS Conversions, WellFoundedInduction, SequenceTheorems, TLAPS

-----------------------------------------------------------------------------
(* Recursion over a measure.                                               *)

\* A set of naturals that is not empty has a least member.
LEMMA LeastNat ==
  ASSUME NEW S, S \subseteq Nat, S # {}
  PROVE  \E m \in S : \A n \in S : m <= n
<1> DEFINE R == OpToRel(<, Nat)
<1>1. IsWellFoundedOn(R, Nat)
  BY NatLessThanWellFounded
<1>2. \A x, y \in Nat : x < y => <<x, y>> \in R
  BY DEF OpToRel
<1> HIDE DEF R
<1>3. PICK m \in S : \A n \in S : <<n, m>> \notin R
  BY <1>1, WFMin
<1>4. ASSUME NEW n \in S PROVE m <= n
  <2>1. n \in Nat /\ m \in Nat
    OBVIOUS
  <2>2. ~(n < m)
    BY <1>2, <1>3, <2>1
  <2> QED BY <2>1, <2>2
<1> QED BY <1>4

\* Induction over the naturals, on a set instead of a predicate.
LEMMA NatSet ==
  ASSUME NEW P, 0 \in P, \A n \in Nat : n \in P => n + 1 \in P
  PROVE  \A n \in Nat : n \in P
<1> SUFFICES ASSUME Nat \ P # {} PROVE FALSE
  OBVIOUS
<1>1. PICK m \in Nat \ P : \A n \in Nat \ P : m <= n
  BY LeastNat
<1>2. m # 0 /\ m - 1 \in Nat /\ m - 1 \in P
  BY <1>1
<1> QED BY <1>1, <1>2

\* The same from the larger to the smaller, up to n.
LEMMA NatStrong ==
  ASSUME NEW P, \A n \in Nat : (\A k \in Nat : k < n => k \in P) => n \in P
  PROVE  \A n \in Nat : n \in P
<1> SUFFICES ASSUME Nat \ P # {} PROVE FALSE
  OBVIOUS
<1>1. PICK m \in Nat \ P : \A n \in Nat \ P : m <= n
  BY LeastNat
<1>2. \A k \in Nat : k < m => k \in P
  BY <1>1
<1> QED BY <1>1, <1>2

\* f satisfies the recursion B on what is smaller than n.
Solves(f, n, D, m, B) == \A p \in D : m[p] < n => f[p] = B[<<f, p>>]

\* B looks only at what is smaller.
Descends(D, R, m, B) ==
  \A p \in D : \A f, g \in [D -> R] :
    (\A q \in D : m[q] < m[p] => f[q] = g[q]) => B[<<f, p>>] = B[<<g, p>>]

\* Two partial solutions of a recursion agree where both are defined.
LEMMA SolutionsAgree ==
  ASSUME NEW D, NEW R, NEW m \in [D -> Nat], NEW B, Descends(D, R, m, B),
         NEW f \in [D -> R], NEW g \in [D -> R], NEW n \in Nat,
         Solves(f, n, D, m, B), Solves(g, n, D, m, B)
  PROVE  \A p \in D : m[p] < n => f[p] = g[p]
<1> DEFINE P == {k \in Nat : \A p \in D : m[p] = k /\ k < n => f[p] = g[p]}
<1>1. ASSUME NEW k \in Nat, \A j \in Nat : j < k => j \in P PROVE k \in P
  <2> SUFFICES ASSUME NEW p \in D, m[p] = k, k < n PROVE f[p] = g[p]
    OBVIOUS
  <2>1. \A q \in D : m[q] < m[p] => f[q] = g[q]
    BY <1>1
  <2>2. B[<<f, p>>] = B[<<g, p>>]
    BY <2>1 DEF Descends
  <2> QED BY <2>2 DEF Solves
<1> HIDE DEF P
<1>2. \A k \in Nat : k \in P
  BY <1>1, NatStrong
<1> QED BY <1>2 DEF P

\* A recursion has a partial solution up to every bound.
LEMMA SolutionsExist ==
  ASSUME NEW D, NEW R, R # {}, NEW m \in [D -> Nat], NEW B \in [[D -> R] \X D -> R],
         Descends(D, R, m, B)
  PROVE  \A n \in Nat : \E f \in [D -> R] : Solves(f, n, D, m, B)
<1> DEFINE P == {n \in Nat : \E f \in [D -> R] : Solves(f, n, D, m, B)}
<1>1. 0 \in P
  <2>1. PICK r \in R : TRUE
    OBVIOUS
  <2>2. [p \in D |-> r] \in [D -> R]
    OBVIOUS
  <2>3. \A p \in D : ~(m[p] < 0)
    OBVIOUS
  <2> QED BY <2>2, <2>3 DEF Solves
<1>2. ASSUME NEW n \in Nat, n \in P PROVE n + 1 \in P
  <2>1. PICK f \in [D -> R] : Solves(f, n, D, m, B)
    BY <1>2
  <2> DEFINE g == [p \in D |-> B[<<f, p>>]]
  <2>2. g \in [D -> R]
    OBVIOUS
  <2>3. \A p \in D : m[p] < n => g[p] = f[p]
    BY <2>1 DEF Solves
  <2>4. ASSUME NEW p \in D, m[p] < n + 1 PROVE g[p] = B[<<g, p>>]
    <3>1. \A q \in D : m[q] < m[p] => f[q] = g[q]
      BY <2>3, <2>4
    <3>2. g[p] = B[<<f, p>>]
      OBVIOUS
    <3> HIDE DEF g
    <3>3. B[<<f, p>>] = B[<<g, p>>]
      BY <2>2, <3>1 DEF Descends
    <3> QED BY <3>2, <3>3
  <2> HIDE DEF g
  <2> QED BY <2>2, <2>4 DEF Solves
<1> HIDE DEF P
<1>3. \A n \in Nat : n \in P
  BY <1>1, <1>2, NatSet
<1> QED BY <1>3 DEF P

\* B defines a function from D to R by recursion over the measure m.
IsRecursion(D, R, m, B) ==
  /\ R # {}
  /\ m \in [D -> Nat]
  /\ B \in [[D -> R] \X D -> R]
  /\ Descends(D, R, m, B)

HasSolution(D, R, B) == \E f \in [D -> R] : \A p \in D : f[p] = B[<<f, p>>]

\* A function can be defined by recursion over a measure.
LEMMA RecursionHasSolution ==
  ASSUME NEW D, NEW R, NEW m, NEW B, IsRecursion(D, R, m, B)
  PROVE  HasSolution(D, R, B)
<1>0. R # {} /\ m \in [D -> Nat] /\ B \in [[D -> R] \X D -> R] /\ Descends(D, R, m, B)
  BY DEF IsRecursion
<1> DEFINE upTo(n) == CHOOSE f \in [D -> R] : Solves(f, n, D, m, B)
           h == [p \in D |-> upTo(m[p] + 1)[p]]
<1>1. ASSUME NEW n \in Nat PROVE upTo(n) \in [D -> R] /\ Solves(upTo(n), n, D, m, B)
  BY <1>0, SolutionsExist
<1> HIDE DEF upTo
<1>2. h \in [D -> R]
  BY <1>0, <1>1
<1>3. ASSUME NEW p \in D PROVE h[p] = B[<<h, p>>]
  <2> DEFINE f == upTo(m[p] + 1)
  <2>1. f \in [D -> R] /\ Solves(f, m[p] + 1, D, m, B)
    BY <1>0, <1>1
  <2>2. ASSUME NEW q \in D, m[q] < m[p] PROVE h[q] = f[q]
    <3> DEFINE g == upTo(m[q] + 1)
    <3>0. m[q] \in Nat /\ m[q] + 1 \in Nat
      BY <1>0
    <3>1. g \in [D -> R] /\ Solves(g, m[q] + 1, D, m, B)
      BY <1>1, <3>0
    <3>2. h[q] = g[q]
      OBVIOUS
    <3> HIDE DEF f, g, h
    <3>3. Solves(f, m[q] + 1, D, m, B)
      BY <1>0, <2>1, <2>2 DEF Solves
    <3>4. \A p1 \in D : m[p1] < m[q] + 1 => g[p1] = f[p1]
      BY <1>0, <2>1, <3>0, <3>1, <3>3, SolutionsAgree
    <3>5. g[q] = f[q]
      BY <3>0, <3>4
    <3> QED BY <3>2, <3>5
  <2>3. h[p] = f[p]
    OBVIOUS
  <2> HIDE DEF f, h
  <2>4. f[p] = B[<<f, p>>]
    BY <1>0, <2>1 DEF Solves
  <2>5. B[<<f, p>>] = B[<<h, p>>]
    BY <1>0, <1>2, <2>1, <2>2 DEF Descends
  <2> QED BY <2>3, <2>4, <2>5
<1> HIDE DEF h
<1> QED BY <1>2, <1>3 DEF HasSolution

-----------------------------------------------------------------------------
(* FlattenSeq, and maps from members to sequences.                         *)

\* What FlattenSeq builds, prefix by prefix.
IsFlattening(ss, f) ==
  f = [i \in 1..Len(ss) |-> IF i = 1 THEN ss[i] ELSE f[i - 1] \o ss[i]]

\* The recursive function inside FlattenSeq is defined.
LEMMA FlatteningExists ==
  ASSUME NEW S, NEW ss \in Seq(Seq(S)), Len(ss) # 0
  PROVE  \E f : IsFlattening(ss, f)
<1> DEFINE D == 1..Len(ss)
           R == Seq(S)
           m == [i \in D |-> i]
           B == [x \in [D -> R] \X D |-> IF x[2] = 1 THEN ss[x[2]] ELSE x[1][x[2] - 1] \o ss[x[2]]]
<1>1. m \in [D -> Nat] /\ R # {}
  <2>1. <<>> \in R
    OBVIOUS
  <2> QED BY <2>1
<1>2. B \in [[D -> R] \X D -> R]
  <2> SUFFICES ASSUME NEW x \in [D -> R] \X D
               PROVE  (IF x[2] = 1 THEN ss[x[2]] ELSE x[1][x[2] - 1] \o ss[x[2]]) \in R
    OBVIOUS
  <2>1. x[2] \in D /\ x[1] \in [D -> R] /\ ss[x[2]] \in R
    OBVIOUS
  <2>2. CASE x[2] # 1
    <3>1. x[2] - 1 \in D
      BY <2>1, <2>2
    <3> QED BY <2>1, <2>2, <3>1, ConcatProperties
  <2> QED BY <2>1, <2>2
<1>3. Descends(D, R, m, B)
  <2> SUFFICES ASSUME NEW p \in D, NEW f \in [D -> R], NEW g \in [D -> R],
                      \A q \in D : m[q] < m[p] => f[q] = g[q]
               PROVE  B[<<f, p>>] = B[<<g, p>>]
    BY DEF Descends
  <2>1. p # 1 => f[p - 1] = g[p - 1]
    OBVIOUS
  <2> QED BY <2>1
<1>4. PICK f \in [D -> R] : \A p \in D : f[p] = B[<<f, p>>]
  <2> HIDE DEF D, R, m, B
  <2>1. IsRecursion(D, R, m, B)
    BY <1>1, <1>2, <1>3 DEF IsRecursion
  <2>2. HasSolution(D, R, B)
    BY <2>1, RecursionHasSolution
  <2> QED BY <2>2 DEF HasSolution
<1>5. \A p \in D : f[p] = IF p = 1 THEN ss[p] ELSE f[p - 1] \o ss[p]
  BY <1>4
<1>6. f = [i \in 1..Len(ss) |-> IF i = 1 THEN ss[i] ELSE f[i - 1] \o ss[i]]
  BY <1>5
<1> QED BY <1>6 DEF IsFlattening

\* FlattenSeq is the last value of that function.
LEMMA FlattenIsLast ==
  ASSUME NEW S, NEW ss \in Seq(Seq(S)), Len(ss) # 0
  PROVE  \E f : IsFlattening(ss, f) /\ FlattenSeq(ss) = f[Len(ss)]
<1> DEFINE h == CHOOSE f : IsFlattening(ss, f)
<1>1. IsFlattening(ss, h)
  BY FlatteningExists
<1>2. FlattenSeq(ss) = h[Len(ss)]
  BY DEF FlattenSeq, IsFlattening
<1> QED BY <1>1, <1>2

\* One step of it.
LEMMA FlatteningStep ==
  ASSUME NEW ss, NEW f, IsFlattening(ss, f), NEW i \in 1..Len(ss)
  PROVE  f[i] = IF i = 1 THEN ss[i] ELSE f[i - 1] \o ss[i]
<1> DEFINE h == [j \in 1..Len(ss) |-> IF j = 1 THEN ss[j] ELSE f[j - 1] \o ss[j]]
<1>1. f = h
  BY DEF IsFlattening
<1>2. h[i] = IF i = 1 THEN ss[i] ELSE f[i - 1] \o ss[i]
  OBVIOUS
<1> QED BY <1>1, <1>2

\* Two flattenings agree where their sequences do.
LEMMA FlatteningsAgree ==
  ASSUME NEW S, NEW ss \in Seq(Seq(S)), NEW tt \in Seq(Seq(S)),
         Len(ss) <= Len(tt), \A i \in 1..Len(ss) : ss[i] = tt[i],
         NEW f, NEW g, IsFlattening(ss, f), IsFlattening(tt, g)
  PROVE  \A i \in 1..Len(ss) : f[i] = g[i] /\ f[i] \in Seq(S)
<1> DEFINE P == {k \in Nat : k \in 1..Len(ss) => f[k] = g[k] /\ f[k] \in Seq(S)}
<1>1. 0 \in P
  OBVIOUS
<1>2. ASSUME NEW k \in Nat, k \in P PROVE k + 1 \in P
  <2> SUFFICES ASSUME k + 1 \in 1..Len(ss)
               PROVE  f[k + 1] = g[k + 1] /\ f[k + 1] \in Seq(S)
    OBVIOUS
  <2>0. (k + 1) - 1 = k /\ k + 1 \in 1..Len(tt)
    OBVIOUS
  <2>1. f[k + 1] = (IF k + 1 = 1 THEN ss[k + 1] ELSE f[k] \o ss[k + 1])
    BY <2>0, FlatteningStep
  <2>2. g[k + 1] = (IF k + 1 = 1 THEN tt[k + 1] ELSE g[k] \o tt[k + 1])
    BY <2>0, FlatteningStep
  <2>3. ss[k + 1] = tt[k + 1] /\ ss[k + 1] \in Seq(S)
    OBVIOUS
  <2>4. CASE k = 0
    BY <2>1, <2>2, <2>3, <2>4
  <2>5. CASE k # 0
    <3>1. f[k] = g[k] /\ f[k] \in Seq(S)
      BY <1>2, <2>5
    <3> QED BY <2>1, <2>2, <2>3, <2>5, <3>1, ConcatProperties
  <2> QED BY <2>4, <2>5
<1> HIDE DEF P
<1>3. \A k \in Nat : k \in P
  BY <1>1, <1>2, NatSet
<1> QED BY <1>3 DEF P

\* Nothing is flattened to nothing.
LEMMA FlattenEmpty == FlattenSeq(<<>>) = <<>>
  BY DEF FlattenSeq

\* A sequence of sequences over S is flattened to one over S.
LEMMA FlattenType ==
  ASSUME NEW S, NEW ss \in Seq(Seq(S))
  PROVE  FlattenSeq(ss) \in Seq(S)
<1>1. CASE Len(ss) = 0
  <2>1. ss = <<>>
    BY <1>1
  <2>2. FlattenSeq(ss) = <<>>
    BY <2>1, FlattenEmpty
  <2> QED BY <2>2
<1>2. CASE Len(ss) # 0
  <2>1. PICK f : IsFlattening(ss, f) /\ FlattenSeq(ss) = f[Len(ss)]
    BY <1>2, FlattenIsLast
  <2>2. \A i \in 1..Len(ss) : f[i] \in Seq(S)
    BY <2>1, FlatteningsAgree
  <2> QED BY <1>2, <2>1, <2>2
<1> QED BY <1>1, <1>2

\* A part at the end is put at the end.
LEMMA FlattenAppend ==
  ASSUME NEW S, NEW ss \in Seq(Seq(S)), NEW s \in Seq(S)
  PROVE  FlattenSeq(Append(ss, s)) = FlattenSeq(ss) \o s
<1> DEFINE tt == Append(ss, s)
<1>1. tt \in Seq(Seq(S)) /\ Len(tt) = Len(ss) + 1 /\ tt[Len(tt)] = s
      /\ \A i \in 1..Len(ss) : ss[i] = tt[i]
  OBVIOUS
<1> HIDE DEF tt
<1>2. PICK g : IsFlattening(tt, g) /\ FlattenSeq(tt) = g[Len(tt)]
  BY <1>1, FlattenIsLast
<1>3. g[Len(tt)] = IF Len(tt) = 1 THEN tt[Len(tt)] ELSE g[Len(tt) - 1] \o tt[Len(tt)]
  <2>1. Len(tt) \in 1..Len(tt)
    BY <1>1
  <2> QED BY <1>2, <2>1, FlatteningStep
<1>4. CASE Len(ss) = 0
  <2>1. ss = <<>> /\ FlattenSeq(ss) = <<>>
    BY <1>4, FlattenEmpty
  <2>2. FlattenSeq(tt) = s
    BY <1>1, <1>2, <1>3, <1>4
  <2> QED BY <2>1, <2>2, ConcatEmptySeq DEF tt
<1>5. CASE Len(ss) # 0
  <2>1. PICK f : IsFlattening(ss, f) /\ FlattenSeq(ss) = f[Len(ss)]
    BY <1>5, FlattenIsLast
  <2>0. Len(ss) <= Len(tt) /\ Len(ss) \in 1..Len(ss)
    BY <1>1, <1>5
  <2>9. \A i \in 1..Len(ss) : f[i] = g[i] /\ f[i] \in Seq(S)
    BY <1>1, <1>2, <2>0, <2>1, FlatteningsAgree
  <2>2. f[Len(ss)] = g[Len(ss)]
    BY <2>0, <2>9
  <2>3. FlattenSeq(tt) = g[Len(ss)] \o s
    BY <1>1, <1>2, <1>3, <1>5
  <2> QED BY <2>1, <2>2, <2>3 DEF tt
<1> QED BY <1>4, <1>5

\* Induction over sequences, on a set instead of a predicate.
LEMMA SeqSet ==
  ASSUME NEW S, NEW P, <<>> \in P,
         \A s \in Seq(S), e \in S : s \in P => Append(s, e) \in P
  PROVE  \A s \in Seq(S) : s \in P
<1> DEFINE Q == {n \in Nat : \A s \in Seq(S) : Len(s) = n => s \in P}
<1>1. 0 \in Q
  <2>1. \A s \in Seq(S) : Len(s) = 0 => s = <<>>
    OBVIOUS
  <2> QED BY <2>1
<1>2. ASSUME NEW n \in Nat, n \in Q PROVE n + 1 \in Q
  <2> SUFFICES ASSUME NEW s \in Seq(S), Len(s) = n + 1 PROVE s \in P
    OBVIOUS
  <2>1. PICK t \in Seq(S), e \in S : s = Append(t, e)
    BY SequenceEmptyOrAppend
  <2>2. Len(t) = n
    BY <2>1
  <2> QED BY <1>2, <2>1, <2>2
<1> HIDE DEF Q
<1>3. \A n \in Nat : n \in Q
  BY <1>1, <1>2, NatSet
<1> QED BY <1>3 DEF Q

\* A set of sequences that is closed under concatenation holds what is
\* flattened from its members.
LEMMA FlattenInto ==
  ASSUME NEW S, NEW P, P \subseteq Seq(S), <<>> \in P,
         \A s, t \in P : s \o t \in P, NEW ss \in Seq(P)
  PROVE  FlattenSeq(ss) \in P
<1> DEFINE Q == {tt \in Seq(P) : FlattenSeq(tt) \in P}
<1>1. <<>> \in Q
  BY FlattenEmpty
<1>2. ASSUME NEW tt \in Seq(P), NEW e \in P, tt \in Q PROVE Append(tt, e) \in Q
  <2>1. tt \in Seq(Seq(S))
    OBVIOUS
  <2>2. FlattenSeq(Append(tt, e)) = FlattenSeq(tt) \o e
    BY <2>1, FlattenAppend
  <2>3. FlattenSeq(Append(tt, e)) \in P
    BY <1>2, <2>2
  <2> QED BY <2>3
<1> HIDE DEF Q
<1>3. \A s \in Seq(P) : s \in Q
  BY <1>1, <1>2, SeqSet
<1> QED BY <1>3 DEF Q

\* FlattenSeq takes a concatenation to a concatenation.
LEMMA FlattenConcat ==
  ASSUME NEW S, NEW ss \in Seq(Seq(S)), NEW tt \in Seq(Seq(S))
  PROVE  FlattenSeq(ss \o tt) = FlattenSeq(ss) \o FlattenSeq(tt)
<1> DEFINE Q == {uu \in Seq(Seq(S)) : FlattenSeq(ss \o uu) = FlattenSeq(ss) \o FlattenSeq(uu)}
<1>1. <<>> \in Q
  BY FlattenEmpty, ConcatEmptySeq, FlattenType
<1>2. ASSUME NEW uu \in Seq(Seq(S)), NEW e \in Seq(S), uu \in Q PROVE Append(uu, e) \in Q
  <2>1. ss \o Append(uu, e) = Append(ss \o uu, e) /\ ss \o uu \in Seq(Seq(S))
    OBVIOUS
  <2>2. FlattenSeq(Append(ss \o uu, e)) = FlattenSeq(ss \o uu) \o e
    BY <2>1, FlattenAppend
  <2>3. FlattenSeq(Append(uu, e)) = FlattenSeq(uu) \o e
    BY FlattenAppend
  <2>4. FlattenSeq(ss) \in Seq(S) /\ FlattenSeq(uu) \in Seq(S)
    BY FlattenType
  <2>5. (FlattenSeq(ss) \o FlattenSeq(uu)) \o e = FlattenSeq(ss) \o (FlattenSeq(uu) \o e)
    BY ONLY <2>4, ConcatAssociative, SMTT(30)
  <2>6. FlattenSeq(ss \o uu) = FlattenSeq(ss) \o FlattenSeq(uu)
    BY <1>2
  <2>7. FlattenSeq(ss \o Append(uu, e)) = FlattenSeq(ss) \o FlattenSeq(Append(uu, e))
    BY <2>1, <2>2, <2>3, <2>5, <2>6
  <2>8. Append(uu, e) \in Seq(Seq(S))
    OBVIOUS
  <2> QED BY <2>7, <2>8
<1> HIDE DEF Q
<1>3. \A s \in Seq(Seq(S)) : s \in Q
  BY <1>1, <1>2, SeqSet
<1> QED BY <1>3 DEF Q

\* A single part is flattened to itself.
LEMMA FlattenOne ==
  ASSUME NEW S, NEW s \in Seq(S)
  PROVE  FlattenSeq(<<s>>) = s
<1>1. <<s>> = Append(<<>>, s)
  OBVIOUS
<1>2. FlattenSeq(Append(<<>>, s)) = <<>> \o s
  <2>1. <<>> \in Seq(Seq(S))
    OBVIOUS
  <2> QED BY <2>1, FlattenAppend, FlattenEmpty
<1> QED BY <1>1, <1>2, ConcatEmptySeq

\* What G makes of each member, one after the other.
Mapped(s, G) == FlattenSeq([k \in 1..Len(s) |-> G[s[k]]])

\* The parts that a map makes are sequences.
LEMMA MappedParts ==
  ASSUME NEW A, NEW S, NEW s \in Seq(A), NEW G \in [A -> Seq(S)]
  PROVE  [k \in 1..Len(s) |-> G[s[k]]] \in Seq(Seq(S))
  OBVIOUS

\* So is what it makes of a sequence.
LEMMA MappedType ==
  ASSUME NEW A, NEW S, NEW s \in Seq(A), NEW G \in [A -> Seq(S)]
  PROVE  Mapped(s, G) \in Seq(S)
  BY MappedParts, FlattenType DEF Mapped

\* A map makes nothing of nothing.
LEMMA MappedEmpty ==
  ASSUME NEW G
  PROVE  Mapped(<<>>, G) = <<>>
<1>1. [k \in 1..Len(<<>>) |-> G[<<>>[k]]] = <<>>
  OBVIOUS
<1> QED BY <1>1, FlattenEmpty DEF Mapped

\* What it makes of a member at the end comes at the end.
LEMMA MappedAppend ==
  ASSUME NEW A, NEW S, NEW s \in Seq(A), NEW a \in A, NEW G \in [A -> Seq(S)]
  PROVE  Mapped(Append(s, a), G) = Mapped(s, G) \o G[a]
<1> DEFINE ss == [k \in 1..Len(s) |-> G[s[k]]]
           tt == [k \in 1..Len(Append(s, a)) |-> G[Append(s, a)[k]]]
<1>1. ss \in Seq(Seq(S)) /\ G[a] \in Seq(S)
  OBVIOUS
<1>2. tt = Append(ss, G[a])
  OBVIOUS
<1> HIDE DEF ss
<1>3. FlattenSeq(Append(ss, G[a])) = FlattenSeq(ss) \o G[a]
  BY <1>1, FlattenAppend
<1> QED BY <1>2, <1>3 DEF Mapped, ss

\* What it makes of a single member.
LEMMA MappedOne ==
  ASSUME NEW A, NEW S, NEW a \in A, NEW G \in [A -> Seq(S)]
  PROVE  Mapped(<<a>>, G) = G[a]
<1>1. <<a>> = Append(<<>>, a) /\ <<>> \in Seq(A) /\ G[a] \in Seq(S)
  OBVIOUS
<1> DEFINE e == <<>>
<1>2. e \in Seq(A)
  OBVIOUS
<1> HIDE DEF e
<1>3. Mapped(Append(e, a), G) = Mapped(e, G) \o G[a]
  BY <1>2, MappedAppend
<1> QED BY <1>1, <1>3, MappedEmpty, ConcatEmptySeq DEF e

\* A map takes a concatenation to a concatenation.
LEMMA MappedConcat ==
  ASSUME NEW A, NEW S, NEW s \in Seq(A), NEW t \in Seq(A), NEW G \in [A -> Seq(S)]
  PROVE  Mapped(s \o t, G) = Mapped(s, G) \o Mapped(t, G)
<1> DEFINE Q == {u \in Seq(A) : Mapped(s \o u, G) = Mapped(s, G) \o Mapped(u, G)}
<1>1. <<>> \in Q
  <2>1. Mapped(s, G) \in Seq(S) /\ Mapped(<<>>, G) = <<>> /\ s \o <<>> = s
    BY MappedType, MappedEmpty, ConcatEmptySeq
  <2> QED BY <2>1, ConcatEmptySeq
<1>2. ASSUME NEW u \in Seq(A), NEW a \in A, u \in Q PROVE Append(u, a) \in Q
  <2>1. s \o Append(u, a) = Append(s \o u, a) /\ s \o u \in Seq(A) /\ Append(u, a) \in Seq(A)
    OBVIOUS
  <2>2. Mapped(Append(s \o u, a), G) = Mapped(s \o u, G) \o G[a]
    <3> DEFINE v == s \o u
    <3>1. v \in Seq(A)
      OBVIOUS
    <3> HIDE DEF v
    <3>2. Mapped(Append(v, a), G) = Mapped(v, G) \o G[a]
      BY <3>1, MappedAppend, SMTT(30)
    <3> QED BY <3>2 DEF v
  <2>3. Mapped(Append(u, a), G) = Mapped(u, G) \o G[a]
    BY MappedAppend
  <2>4. Mapped(s, G) \in Seq(S) /\ Mapped(u, G) \in Seq(S) /\ G[a] \in Seq(S)
    BY MappedType
  <2>5. (Mapped(s, G) \o Mapped(u, G)) \o G[a] = Mapped(s, G) \o (Mapped(u, G) \o G[a])
    BY ONLY <2>4, ConcatAssociative, SMTT(30)
  <2>6. Mapped(s \o u, G) = Mapped(s, G) \o Mapped(u, G)
    BY <1>2
  <2>7. Mapped(s \o Append(u, a), G) = Mapped(s, G) \o Mapped(Append(u, a), G)
    BY <2>1, <2>2, <2>3, <2>5, <2>6
  <2> QED BY <2>1, <2>7
<1> HIDE DEF Q
<1>3. \A u \in Seq(A) : u \in Q
  BY <1>1, <1>2, SeqSet
<1> QED BY <1>3 DEF Q

\* What is made of a flattened sequence is made of its parts.
LEMMA MappedFlatten ==
  ASSUME NEW A, NEW S, NEW ss \in Seq(Seq(A)), NEW G \in [A -> Seq(S)]
  PROVE  Mapped(FlattenSeq(ss), G) = FlattenSeq([k \in 1..Len(ss) |-> Mapped(ss[k], G)])
<1> DEFINE H == [s \in Seq(A) |-> Mapped(s, G)]
           Q == {tt \in Seq(Seq(A)) : Mapped(FlattenSeq(tt), G) = Mapped(tt, H)}
<1>0. H \in [Seq(A) -> Seq(S)]
  BY MappedType
<1>1. <<>> \in Q
  BY FlattenEmpty, MappedEmpty
<1>2. ASSUME NEW tt \in Seq(Seq(A)), NEW s \in Seq(A), tt \in Q PROVE Append(tt, s) \in Q
  <2>1. FlattenSeq(Append(tt, s)) = FlattenSeq(tt) \o s /\ FlattenSeq(tt) \in Seq(A)
    BY FlattenAppend, FlattenType
  <2>2. Mapped(FlattenSeq(tt) \o s, G) = Mapped(FlattenSeq(tt), G) \o Mapped(s, G)
    BY <2>1, MappedConcat
  <2>3. Mapped(Append(tt, s), H) = Mapped(tt, H) \o H[s]
    <3> HIDE DEF H
    <3> QED BY <1>0, MappedAppend, SMTT(30)
  <2>4. Mapped(FlattenSeq(tt), G) = Mapped(tt, H)
    BY <1>2
  <2>5. H[s] = Mapped(s, G)
    OBVIOUS
  <2>6. Mapped(FlattenSeq(Append(tt, s)), G) = Mapped(Append(tt, s), H)
    BY <2>1, <2>2, <2>3, <2>4, <2>5
  <2>7. Append(tt, s) \in Seq(Seq(A))
    OBVIOUS
  <2> QED BY <2>6, <2>7
<1>3. \A tt \in Seq(Seq(A)) : tt \in Q
  <2> HIDE DEF Q
  <2> QED BY <1>1, <1>2, SeqSet
<1>4. Mapped(FlattenSeq(ss), G) = Mapped(ss, H)
  BY <1>3
<1>5. [k \in 1..Len(ss) |-> H[ss[k]]] = [k \in 1..Len(ss) |-> Mapped(ss[k], G)]
  OBVIOUS
<1> QED BY <1>4, <1>5 DEF Mapped

\* One part for each member.
LEMMA FlattenSingles ==
  ASSUME NEW S, NEW s \in Seq(S)
  PROVE  FlattenSeq([k \in 1..Len(s) |-> <<s[k]>>]) = s
<1> DEFINE G == [a \in S |-> <<a>>]
           Q == {t \in Seq(S) : Mapped(t, G) = t}
<1>0. G \in [S -> Seq(S)]
  OBVIOUS
<1>1. <<>> \in Q
  BY MappedEmpty
<1>2. ASSUME NEW t \in Seq(S), NEW a \in S, t \in Q PROVE Append(t, a) \in Q
  <2>1. Mapped(Append(t, a), G) = Mapped(t, G) \o G[a]
    <3> HIDE DEF G
    <3> QED BY <1>0, MappedAppend
  <2>2. Mapped(t, G) = t /\ G[a] = <<a>>
    BY <1>2
  <2>3. t \o <<a>> = Append(t, a) /\ Append(t, a) \in Seq(S)
    OBVIOUS
  <2> QED BY <2>1, <2>2, <2>3
<1>3. \A t \in Seq(S) : t \in Q
  <2> HIDE DEF Q
  <2> QED BY <1>1, <1>2, SeqSet
<1>4. Mapped(s, G) = s
  BY <1>3
<1>5. [k \in 1..Len(s) |-> G[s[k]]] = [k \in 1..Len(s) |-> <<s[k]>>]
  OBVIOUS
<1> QED BY <1>4, <1>5 DEF Mapped

\* Nothing for any member.
LEMMA FlattenNothing ==
  ASSUME NEW n \in Nat
  PROVE  FlattenSeq([k \in 1..n |-> <<>>]) = <<>>
<1> DEFINE Q == {j \in Nat : FlattenSeq([k \in 1..j |-> <<>>]) = <<>>}
<1>1. 0 \in Q
  <2>1. [k \in 1..0 |-> <<>>] = <<>>
    OBVIOUS
  <2> QED BY <2>1, FlattenEmpty
<1>2. ASSUME NEW j \in Nat, j \in Q PROVE j + 1 \in Q
  <2> DEFINE ss == [k \in 1..j |-> <<>>]
  <2>1. ss \in Seq(Seq({})) /\ <<>> \in Seq({})
    OBVIOUS
  <2>2. [k \in 1..(j + 1) |-> <<>>] = Append(ss, <<>>)
    OBVIOUS
  <2>3. FlattenSeq(ss) = <<>>
    BY <1>2
  <2> HIDE DEF ss
  <2>4. FlattenSeq(Append(ss, <<>>)) = FlattenSeq(ss) \o <<>>
    BY <2>1, FlattenAppend
  <2>5. <<>> \o <<>> = <<>>
    OBVIOUS
  <2>6. FlattenSeq([k \in 1..(j + 1) |-> <<>>]) = <<>>
    BY <2>2, <2>3, <2>4, <2>5
  <2> QED BY <2>6
<1> HIDE DEF Q
<1>3. \A j \in Nat : j \in Q
  BY <1>1, <1>2, NatSet
<1> QED BY <1>3 DEF Q

-----------------------------------------------------------------------------
(* What answers are parsed to.                                             *)

IdPrefixes == {"call_xml", "call_glm"}
Ids == Seq(Nat) \cup (IdPrefixes \X Nat) \cup ({"call"} \X Tool)
Calls == [id : Ids, name : Tool, signature : Seq(Nat)]
Texts == {"", "said", "markup", "hello", "prompt", "warning", "reminder", "error", "result"} \cup Tool \cup UserText
ResponseSet == [text : Texts, calls : Seq(Calls), raw : Seq(Calls)]
MessageRecords ==
  [role : {"user", "assistant", "tool", "system"}, text : Texts, calls : Seq(Calls),
   id : Ids, raw : Seq(Calls)]
Messages == {m \in MessageRecords : m.role # "assistant" => m.calls = <<>> /\ m.raw = <<>>}
Events == [type : {"user", "text", "started", "finished"}, id : Ids, text : Texts]

\* The fields of a call.
LEMMA CallFields ==
  ASSUME NEW c \in Calls
  PROVE  c.id \in Ids /\ c.name \in Tool /\ c.signature \in Seq(Nat)
  BY DEF Calls

\* The fields of a response.
LEMMA ResponseFields ==
  ASSUME NEW x \in ResponseSet
  PROVE  x.text \in Texts /\ x.calls \in Seq(Calls) /\ x.raw \in Seq(Calls)
  BY DEF ResponseSet

\* The fields of a message.
LEMMA MessageFields ==
  ASSUME NEW m \in Messages
  PROVE  /\ m.role \in {"user", "assistant", "tool", "system"}
         /\ m.text \in Texts /\ m.id \in Ids
         /\ m.calls \in Seq(Calls) /\ m.raw \in Seq(Calls)
         /\ m.role # "assistant" => m.calls = <<>> /\ m.raw = <<>>
<1>1. m \in MessageRecords /\ (m.role # "assistant" => m.calls = <<>> /\ m.raw = <<>>)
  BY DEF Messages
<1> QED BY <1>1 DEF MessageRecords

\* Only the assistant's messages have calls.
Bare(role, calls, raw) == role # "assistant" => calls = <<>> /\ raw = <<>>

\* A message is made of its fields.
LEMMA MakesMessage ==
  ASSUME NEW role \in {"user", "assistant", "tool", "system"}, NEW text \in Texts,
         NEW calls \in Seq(Calls), NEW id \in Ids, NEW raw \in Seq(Calls),
         Bare(role, calls, raw)
  PROVE  /\ Message(role, text, calls, id, raw) \in Messages
         /\ Message(role, text, calls, id, raw).role = role
         /\ Message(role, text, calls, id, raw).text = text
         /\ Message(role, text, calls, id, raw).calls = calls
         /\ Message(role, text, calls, id, raw).id = id
         /\ Message(role, text, calls, id, raw).raw = raw
<1> DEFINE m == Message(role, text, calls, id, raw)
<1>1. m \in MessageRecords
  BY DEF Message, MessageRecords
<1>2. m.role = role /\ m.text = text /\ m.calls = calls /\ m.id = id /\ m.raw = raw
  BY DEF Message
<1> HIDE DEF m
<1>3. m \in Messages
  BY <1>1, <1>2 DEF Messages, Bare
<1> QED BY <1>2, <1>3 DEF m

\* The fields of an answer.
LEMMA AnswerFields ==
  ASSUME NEW answer \in Answers
  PROVE  /\ answer.text \in {"", "said", "markup"}
         /\ answer.names \in Seq(Tool)
         /\ answer.ids \in {"given", "empty", "absent"}
  BY Zenon DEF Answers

\* The id of a call is made of its place.
LEMMA PlaceOfCall ==
  ASSUME NEW t \in Nat, NEW r \in Nat, NEW k \in Nat
  PROVE  <<t, r>> \o <<k>> = <<t, r, k>> /\ <<t, r, k>> \in Seq(Nat)
<1>1. <<t, r>> \in Seq(Nat) /\ <<k>> \in Seq(Nat) /\ <<t, r, k>> \in Seq(Nat)
  OBVIOUS
<1> DEFINE a == <<t, r>> b == <<k>> c == <<t, r, k>>
<1>2. a \in Seq(Nat) /\ b \in Seq(Nat) /\ c \in Seq(Nat)
      /\ Len(a) = 2 /\ Len(b) = 1 /\ Len(c) = 3
      /\ a[1] = t /\ a[2] = r /\ b[1] = k /\ c[1] = t /\ c[2] = r /\ c[3] = k
  BY <1>1
<1> HIDE DEF a, b, c
<1>3. Len(a \o b) = 3 /\ a \o b \in Seq(Nat)
      /\ \A i \in 1..3 : (a \o b)[i] = IF i <= 2 THEN a[i] ELSE b[i - 2]
  <2>1. a \o b \in Seq(Nat) /\ Len(a \o b) = Len(a) + Len(b)
        /\ \A i \in 1..(Len(a) + Len(b)) :
             (a \o b)[i] = IF i <= Len(a) THEN a[i] ELSE b[i - Len(a)]
    BY <1>2, ConcatProperties
  <2>2. Len(a) + Len(b) = 3
    BY <1>2
  <2> QED BY <1>2, <2>1, <2>2
<1>4. (a \o b)[1] = c[1] /\ (a \o b)[2] = c[2] /\ (a \o b)[3] = c[3]
  <2>1. 1 \in 1..3 /\ 2 \in 1..3 /\ 3 \in 1..3 /\ 3 - 2 = 1
    OBVIOUS
  <2> QED BY <1>2, <1>3, <2>1
<1>5. \A i \in 1..3 : i = 1 \/ i = 2 \/ i = 3
  OBVIOUS
<1>6. a \o b = c
  BY <1>2, <1>3, <1>4, <1>5, SeqEqual
<1> QED BY <1>1, <1>6 DEF a, b, c

\* The calls of an answer, as the provider gave them.
LEMMA ProvidedCalls ==
  ASSUME NEW answer \in Answers, NEW t \in Nat, NEW r \in Nat
  PROVE  /\ Provided(answer, <<t, r>>) \in Seq(Calls)
         /\ Len(Provided(answer, <<t, r>>)) = Len(answer.names)
         /\ \A k \in 1..Len(answer.names) :
              /\ Provided(answer, <<t, r>>)[k].id
                   = IF answer.ids = "given" THEN <<t, r, k>> ELSE <<>>
              /\ Provided(answer, <<t, r>>)[k].signature
                   = IF answer.signed THEN <<t, r, k>> ELSE <<>>
<1>0. answer.names \in Seq(Tool) /\ Len(answer.names) \in Nat
  <2>1. answer.names \in Seq(Tool)
    BY AnswerFields
  <2> QED BY <2>1
<1>1. \A k \in Nat : <<t, r>> \o <<k>> = <<t, r, k>> /\ <<t, r, k>> \in Seq(Nat)
  BY PlaceOfCall
<1>2. \A k \in 1..Len(answer.names) :
        ToolCall(IF answer.ids = "given" THEN <<t, r>> \o <<k>> ELSE NoId, answer.names[k],
                 IF answer.signed THEN <<t, r>> \o <<k>> ELSE NoSignature) \in Calls
  <2> SUFFICES ASSUME NEW k \in 1..Len(answer.names)
               PROVE  ToolCall(IF answer.ids = "given" THEN <<t, r>> \o <<k>> ELSE NoId, answer.names[k],
                 IF answer.signed THEN <<t, r>> \o <<k>> ELSE NoSignature) \in Calls
    OBVIOUS
  <2>1. (IF answer.ids = "given" THEN <<t, r>> \o <<k>> ELSE NoId) \in Seq(Nat)
    BY <1>1 DEF NoId
  <2>2. (IF answer.signed THEN <<t, r>> \o <<k>> ELSE NoSignature) \in Seq(Nat)
    BY <1>1 DEF NoSignature
  <2>3. answer.names[k] \in Tool
    BY <1>0
  <2> HIDE DEF NoId, NoSignature
  <2> QED BY <2>1, <2>2, <2>3 DEF ToolCall, Calls, Ids
<1>3. Provided(answer, <<t, r>>) \in Seq(Calls) /\ Len(Provided(answer, <<t, r>>)) = Len(answer.names)
  <2> DEFINE F(k) == ToolCall(IF answer.ids = "given" THEN <<t, r>> \o <<k>> ELSE NoId, answer.names[k],
                 IF answer.signed THEN <<t, r>> \o <<k>> ELSE NoSignature)
  <2>1. \A k \in 1..Len(answer.names) : F(k) \in Calls
    BY <1>2
  <2>2. Provided(answer, <<t, r>>) = [k \in 1..Len(answer.names) |-> F(k)]
    BY DEF Provided
  <2> HIDE DEF F
  <2> QED BY <1>0, <2>1, <2>2
<1>4. ASSUME NEW k \in 1..Len(answer.names)
      PROVE  /\ Provided(answer, <<t, r>>)[k].id
                   = IF answer.ids = "given" THEN <<t, r, k>> ELSE <<>>
             /\ Provided(answer, <<t, r>>)[k].signature
                   = IF answer.signed THEN <<t, r, k>> ELSE <<>>
  <2>1. <<t, r>> \o <<k>> = <<t, r, k>>
    BY <1>1
  <2> QED BY <2>1 DEF Provided, ToolCall, NoId, NoSignature
<1> QED BY <1>3, <1>4

\* No two calls have the same id.
Distinct(calls) == \A i, j \in 1..Len(calls) : calls[i].id = calls[j].id => i = j

\* What is kept of the calls as they came has the ids of the calls.
SameIds(response) ==
  response.raw # <<>> =>
    /\ Len(response.raw) = Len(response.calls)
    /\ \A k \in 1..Len(response.calls) : response.raw[k].id = response.calls[k].id

\* The calls found in a text have ids of their own and no signature.
LEMMA RecoveredCalls ==
  ASSUME NEW prefix \in IdPrefixes
  PROVE  /\ Recovered(prefix) \in Seq(Calls)
         /\ Distinct(Recovered(prefix))
         /\ Len(Recovered(prefix)) = 2
         /\ \A k \in 1..2 : Recovered(prefix)[k].signature = NoSignature
<1>1. <<prefix, 0>> \in Ids /\ <<prefix, 1>> \in Ids /\ <<prefix, 0>> # <<prefix, 1>>
  <2>1. <<prefix, 0>> \in IdPrefixes \X Nat /\ <<prefix, 1>> \in IdPrefixes \X Nat
    OBVIOUS
  <2>2. <<prefix, 0>> # <<prefix, 1>>
    OBVIOUS
  <2> QED BY <2>1, <2>2, Zenon DEF Ids
<1>2. NoSignature \in Seq(Nat)
  BY DEF NoSignature
<1>3. ToolCall(<<prefix, 0>>, "f", NoSignature) \in Calls /\ ToolCall(<<prefix, 1>>, "warned", NoSignature) \in Calls
  <2> DEFINE a == <<prefix, 0>> b == <<prefix, 1>>
  <2>1. a \in Ids /\ b \in Ids
    BY <1>1
  <2> HIDE DEF a, b
  <2>2. \A id \in Ids, name \in Tool, signature \in Seq(Nat) :
          ToolCall(id, name, signature) \in Calls
    BY DEF ToolCall, Calls
  <2>5. "f" \in Tool /\ "warned" \in Tool
    BY DEF Tool
  <2>3. ToolCall(a, "f", NoSignature) \in Calls
    BY ONLY <1>2, <2>1, <2>2, <2>5, Zenon
  <2>4. ToolCall(b, "warned", NoSignature) \in Calls
    BY ONLY <1>2, <2>1, <2>2, <2>5, Zenon
  <2> QED BY <2>3, <2>4 DEF a, b
<1>4. Recovered(prefix) \in Seq(Calls) /\ Len(Recovered(prefix)) = 2
  BY <1>3 DEF Recovered
<1>5. Recovered(prefix)[1].id = <<prefix, 0>> /\ Recovered(prefix)[2].id = <<prefix, 1>>
      /\ Recovered(prefix)[1].signature = NoSignature /\ Recovered(prefix)[2].signature = NoSignature
  BY DEF Recovered, ToolCall
<1>6. Distinct(Recovered(prefix))
  BY <1>1, <1>4, <1>5 DEF Distinct
<1> QED BY <1>4, <1>5, <1>6

\* An id that was given is not the absent one.
LEMMA NotNothing ==
  ASSUME NEW t \in Nat, NEW r \in Nat, NEW k \in Nat
  PROVE  <<t, r, k>> # <<>>
<1>1. Len(<<t, r, k>>) = 3 /\ Len(<<>>) = 0
  OBVIOUS
<1> QED BY <1>1

\* The signatures of calls are a sequence of signatures.
LEMMA SignaturesOfType ==
  ASSUME NEW calls \in Seq(Calls)
  PROVE  SignaturesOf(calls) \in Seq(Seq(Nat))
<1> DEFINE F(i) == IF calls[i].signature = NoSignature THEN <<>> ELSE <<calls[i].signature>>
<1>1. \A i \in 1..Len(calls) : F(i) \in Seq(Seq(Nat))
  <2>1. \A i \in 1..Len(calls) : calls[i].signature \in Seq(Nat)
    BY CallFields
  <2> QED BY <2>1
<1>2. SignaturesOf(calls) = FlattenSeq([i \in 1..Len(calls) |-> F(i)])
  BY DEF SignaturesOf
<1> HIDE DEF F
<1>3. [i \in 1..Len(calls) |-> F(i)] \in Seq(Seq(Seq(Nat)))
  BY <1>1
<1> QED BY <1>2, <1>3, FlattenType

\* Calls without a signature have none.
LEMMA NoSignatures ==
  ASSUME NEW calls \in Seq(Calls), \A k \in 1..Len(calls) : calls[k].signature = NoSignature
  PROVE  SignaturesOf(calls) = <<>>
<1>1. [i \in 1..Len(calls) |->
        IF calls[i].signature = NoSignature THEN <<>> ELSE <<calls[i].signature>>]
      = [i \in 1..Len(calls) |-> <<>>]
  OBVIOUS
<1>2. Len(calls) \in Nat
  OBVIOUS
<1> QED BY <1>1, <1>2, FlattenNothing DEF SignaturesOf

\* No calls have none.
LEMMA NoCallsNoSignatures == SignaturesOf(<<>>) = <<>>
<1> DEFINE e == <<>>
<1>1. e \in Seq(Calls) /\ \A k \in 1..Len(e) : e[k].signature = NoSignature
  OBVIOUS
<1> HIDE DEF e
<1>2. SignaturesOf(e) = <<>>
  BY <1>1, NoSignatures
<1> QED BY <1>2 DEF e

\* The calls of an answer have the signatures it was given with.
LEMMA ProvidedSignatures ==
  ASSUME NEW answer \in Answers, NEW t \in Nat, NEW r \in Nat, answer.ids # "absent"
  PROVE  SignaturesOf(Provided(answer, <<t, r>>)) = SignedCalls(answer, t, r)
<1> DEFINE calls == Provided(answer, <<t, r>>)
<1>1. calls \in Seq(Calls) /\ Len(calls) = Len(answer.names)
      /\ \A k \in 1..Len(answer.names) :
           calls[k].signature = IF answer.signed THEN <<t, r, k>> ELSE <<>>
  BY ProvidedCalls
<1> HIDE DEF calls
<1>2. CASE answer.signed
  <2> DEFINE places == [k \in 1..Len(answer.names) |-> <<t, r, k>>]
  <2>0. Len(calls) \in Nat
    BY <1>1
  <2>1. places \in Seq(Seq(Nat)) /\ Len(places) = Len(calls)
    <3>1. \A k \in 1..Len(answer.names) : <<t, r, k>> \in Seq(Nat)
      BY <1>1, <2>0, PlaceOfCall
    <3> QED BY <1>1, <2>0, <3>1
  <2>2. \A k \in 1..Len(calls) : (IF calls[k].signature = NoSignature THEN <<>> ELSE <<calls[k].signature>>)
                                 = <<places[k]>>
    <3> SUFFICES ASSUME NEW k \in 1..Len(calls)
                 PROVE  (IF calls[k].signature = NoSignature THEN <<>> ELSE <<calls[k].signature>>)
                        = <<places[k]>>
      OBVIOUS
    <3>1. k \in Nat /\ places[k] = <<t, r, k>>
      BY <1>1, <2>0
    <3>2. calls[k].signature = places[k]
      BY <1>1, <1>2, <3>1
    <3>3. places[k] # <<>>
      BY <3>1, NotNothing
    <3> QED BY <3>2, <3>3 DEF NoSignature
  <2> HIDE DEF places
  <2>3. [k \in 1..Len(calls) |-> IF calls[k].signature = NoSignature THEN <<>> ELSE <<calls[k].signature>>]
        = [k \in 1..Len(places) |-> <<places[k]>>]
    BY <2>1, <2>2
  <2>4. FlattenSeq([k \in 1..Len(places) |-> <<places[k]>>]) = places
    BY <2>1, FlattenSingles
  <2>5. SignaturesOf(calls) = places
    BY <2>3, <2>4 DEF SignaturesOf
  <2> QED BY <1>2, <2>5 DEF SignedCalls, places, calls
<1>3. CASE ~answer.signed
  <2>1. \A k \in 1..Len(calls) : calls[k].signature = NoSignature
    BY <1>1, <1>3 DEF NoSignature
  <2>2. SignaturesOf(calls) = <<>>
    BY <1>1, <2>1, NoSignatures
  <2> QED BY <1>3, <2>2 DEF SignedCalls, calls
<1> QED BY <1>2, <1>3

\* A response is made of its fields.
LEMMA MakesResponse ==
  ASSUME NEW text \in Texts, NEW calls \in Seq(Calls), NEW raw \in Seq(Calls)
  PROVE  /\ Response(text, calls, raw) \in ResponseSet
         /\ Response(text, calls, raw).text = text
         /\ Response(text, calls, raw).calls = calls
         /\ Response(text, calls, raw).raw = raw
  BY DEF Response, ResponseSet

\* The text of an answer is one of the texts.
LEMMA AnswerTexts ==
  ASSUME NEW answer \in Answers
  PROVE  answer.text \in Texts /\ "" \in Texts
  BY AnswerFields DEF Texts

\* The calls of the desktop: as many, with ids of their own where they have none.
LEMMA ConvertedCalls ==
  ASSUME NEW raw \in Seq(Calls)
  PROVE  /\ ConvertToolCalls(raw) \in Seq(Calls)
         /\ Len(ConvertToolCalls(raw)) = Len(raw)
         /\ \A k \in 1..Len(raw) :
              /\ ConvertToolCalls(raw)[k].id
                   = IF raw[k].id = NoId THEN <<"call", raw[k].name>> ELSE raw[k].id
              /\ ConvertToolCalls(raw)[k].signature = NoSignature
<1> DEFINE F(k) == ToolCall(IF raw[k].id = NoId THEN <<"call", raw[k].name>> ELSE raw[k].id,
                            raw[k].name, NoSignature)
<1>1. ASSUME NEW k \in 1..Len(raw) PROVE F(k) \in Calls
  <2>1. raw[k] \in Calls
    OBVIOUS
  <2>2. raw[k].id \in Ids /\ raw[k].name \in Tool
    BY <2>1, CallFields
  <2>3. NoSignature \in Seq(Nat)
    BY DEF NoSignature
  <2>4. <<"call", raw[k].name>> \in {"call"} \X Tool
    BY <2>2
  <2>5. <<"call", raw[k].name>> \in Ids
    BY <2>4, Zenon DEF Ids
  <2> DEFINE id == IF raw[k].id = NoId THEN <<"call", raw[k].name>> ELSE raw[k].id
  <2>6. id \in Ids
    BY <2>2, <2>5, Zenon
  <2> HIDE DEF id
  <2>7. ToolCall(id, raw[k].name, NoSignature) \in Calls
    BY <2>2, <2>3, <2>6 DEF ToolCall, Calls
  <2> QED BY <2>7 DEF id
<1>2. ConvertToolCalls(raw) = [k \in 1..Len(raw) |-> F(k)]
  BY DEF ConvertToolCalls
<1>3. Len(raw) \in Nat
  OBVIOUS
<1>4. \A k \in 1..Len(raw) :
        /\ F(k).id = IF raw[k].id = NoId THEN <<"call", raw[k].name>> ELSE raw[k].id
        /\ F(k).signature = NoSignature
  BY DEF ToolCall
<1> HIDE DEF F
<1> QED BY <1>1, <1>2, <1>3, <1>4

\* The firmware's answer: its calls have ids of their own, if the provider
\* gives ids, and the signatures that were given.
OpenaiParse(response, answer, t, r) ==
  /\ response \in ResponseSet
  /\ response.raw = <<>>
  /\ answer.ids = "given" => Distinct(response.calls)
  /\ SignaturesOf(response.calls) = SignedCalls(answer, t, r)

\* What the firmware's parser makes of an answer is such a response.
LEMMA ParsedOpenai ==
  ASSUME NEW answer \in Answers, NEW t \in Nat, NEW r \in Nat
  PROVE  OpenaiParse(ParseOpenai(answer, <<t, r>>), answer, t, r)
<1> DEFINE response == ParseOpenai(answer, <<t, r>>)
           provided == Provided(answer, <<t, r>>)
           calls == IF answer.ids = "absent" THEN <<>> ELSE provided
<1>1. /\ provided \in Seq(Calls) /\ Len(provided) = Len(answer.names)
      /\ \A k \in 1..Len(answer.names) :
           provided[k].id = IF answer.ids = "given" THEN <<t, r, k>> ELSE <<>>
  BY ProvidedCalls
<1>2. answer.text \in Texts /\ "" \in Texts /\ None \in Seq(Calls) /\ None = <<>>
  <2>1. None \in Seq(Calls) /\ None = <<>>
    BY DEF None
  <2> QED BY <2>1, AnswerTexts
<1>3. SignaturesOf(calls) = SignedCalls(answer, t, r)
  <2>1. CASE answer.ids = "absent"
    BY <2>1, NoCallsNoSignatures DEF SignedCalls
  <2>2. CASE answer.ids # "absent"
    BY <2>2, ProvidedSignatures
  <2> QED BY <2>1, <2>2
<1>4. calls \in Seq(Calls)
  BY <1>1
<1>5. answer.ids = "given" => Distinct(calls)
  <2> SUFFICES ASSUME answer.ids = "given", NEW i \in 1..Len(provided), NEW j \in 1..Len(provided),
                      provided[i].id = provided[j].id
               PROVE  i = j
    BY DEF Distinct
  <2>1. Len(provided) \in Nat
    BY <1>1
  <2>2. <<t, r, i>> = <<t, r, j>>
    BY <1>1, <2>1
  <2> QED BY <2>2
<1> HIDE DEF provided, calls
<1>9. ASSUME NEW text \in Texts, NEW found \in Seq(Calls),
             answer.ids = "given" => Distinct(found), SignaturesOf(found) = SignedCalls(answer, t, r)
      PROVE  OpenaiParse(Response(text, found, None), answer, t, r)
  <2> DEFINE made == Response(text, found, None)
  <2>1. made \in ResponseSet /\ made.calls = found /\ made.raw = None
    <3>1. None \in Seq(Calls)
      BY <1>2
    <3>2. \A c \in Seq(Calls) :
            /\ Response(text, found, c) \in ResponseSet
            /\ Response(text, found, c).calls = found /\ Response(text, found, c).raw = c
      BY MakesResponse
    <3> QED BY <3>1, <3>2, Zenon DEF made
  <2> HIDE DEF made
  <2>2. OpenaiParse(made, answer, t, r)
    BY <1>2, <1>9, <2>1 DEF OpenaiParse
  <2> QED BY <2>2 DEF made
<1>6. OpenaiParse(Response(answer.text, calls, None), answer, t, r)
  BY <1>2, <1>3, <1>4, <1>5, <1>9
<1>7. ASSUME calls = <<>>
      PROVE  OpenaiParse(Response("", Recovered("call_xml"), None), answer, t, r)
  <2>2. "call_xml" \in IdPrefixes
    BY DEF IdPrefixes
  <2> DEFINE found == Recovered("call_xml") empty == ""
  <2>3. found \in Seq(Calls) /\ Distinct(found) /\ Len(found) = 2
        /\ \A k \in 1..2 : found[k].signature = NoSignature
    BY <2>2, RecoveredCalls
  <2>6. empty \in Texts
    BY <1>2
  <2> HIDE DEF found, empty
  <2>4. SignaturesOf(found) = <<>>
    BY <2>3, NoSignatures
  <2>5. SignaturesOf(calls) = <<>>
    BY <1>7, NoCallsNoSignatures
  <2>7. OpenaiParse(Response(empty, found, None), answer, t, r)
    BY <1>3, <1>9, <2>3, <2>4, <2>5, <2>6
  <2> QED BY <2>7 DEF found, empty
<1>8. ParseOpenai(answer, <<t, r>>) =
        CASE calls # <<>> -> Response(answer.text, calls, None)
          [] calls = <<>> /\ answer.text = "markup" -> Response("", Recovered("call_xml"), None)
          [] OTHER -> Response(answer.text, <<>>, None)
  BY DEF ParseOpenai, calls, provided
<1>10. CASE calls = <<>> /\ answer.text = "markup"
  <2>1. ParseOpenai(answer, <<t, r>>) = Response("", Recovered("call_xml"), None)
    BY <1>8, <1>10
  <2> QED BY <1>7, <1>10, <2>1
<1>11. CASE ~(calls = <<>> /\ answer.text = "markup")
  <2>1. ParseOpenai(answer, <<t, r>>) = Response(answer.text, calls, None)
    BY <1>8, <1>11
  <2> QED BY <1>6, <2>1
<1> QED BY <1>10, <1>11

\* The desktop's: the calls have no signatures, what is kept of them as they
\* came has those that were given, and the ids of the calls, if there are any.
ChatParse(response, answer, t, r) ==
  /\ response \in ResponseSet
  /\ response.calls = <<>> => response.raw = <<>>
  /\ answer.ids = "given" => SameIds(response) /\ Distinct(response.calls)
  /\ SignaturesOf(response.calls) = <<>>
  /\ SignaturesOf(response.raw) = SignedCalls(answer, t, r)

\* The conditions of ChatParse, on the fields of a response.
LEMMA MakesChatParse ==
  ASSUME NEW answer \in Answers, NEW t \in Nat, NEW r \in Nat,
         NEW text \in Texts, NEW calls \in Seq(Calls), NEW raw \in Seq(Calls),
         calls = <<>> => raw = <<>>,
         answer.ids = "given" =>
           /\ Distinct(calls)
           /\ raw # <<>> => /\ Len(raw) = Len(calls)
                            /\ \A k \in 1..Len(calls) : raw[k].id = calls[k].id,
         SignaturesOf(calls) = <<>>, SignaturesOf(raw) = SignedCalls(answer, t, r)
  PROVE  ChatParse(Response(text, calls, raw), answer, t, r)
<1> DEFINE made == Response(text, calls, raw)
<1>1. made \in ResponseSet /\ made.calls = calls /\ made.raw = raw
  BY MakesResponse
<1> HIDE DEF made
<1>2. ChatParse(made, answer, t, r)
  BY <1>1 DEF ChatParse, SameIds
<1> QED BY <1>2 DEF made

\* What the desktop's parser makes of an answer is such a response.
LEMMA ParsedChat ==
  ASSUME NEW answer \in Answers, NEW t \in Nat, NEW r \in Nat, answer.ids # "absent"
  PROVE  ChatParse(ParseChat(answer, <<t, r>>), answer, t, r)
<1> DEFINE raw == Provided(answer, <<t, r>>)
           calls == ConvertToolCalls(raw)
           empty == <<>>
           silence == ""
<1>1. /\ raw \in Seq(Calls) /\ Len(raw) = Len(answer.names)
      /\ \A k \in 1..Len(answer.names) :
           raw[k].id = IF answer.ids = "given" THEN <<t, r, k>> ELSE <<>>
  BY ProvidedCalls
<1>2. SignaturesOf(raw) = SignedCalls(answer, t, r)
  BY ProvidedSignatures
<1>3. answer.text \in Texts /\ silence \in Texts /\ empty \in Seq(Calls)
  <2>1. answer.text \in Texts /\ silence \in Texts
    BY AnswerTexts, Zenon
  <2>2. empty \in Seq(Calls)
    OBVIOUS
  <2> QED BY <2>1, <2>2
<1>4. SignaturesOf(empty) = <<>>
  BY NoCallsNoSignatures
<1>5. empty = <<>> /\ silence = "" /\ None = <<>> /\ Len(empty) = 0
  BY DEF None
<1>6. ParseChat(answer, <<t, r>>) =
        CASE raw # <<>> -> Response("", calls, raw)
          [] raw = <<>> /\ answer.text = "markup" -> Response("", Recovered("call_glm"), None)
          [] OTHER -> Response(answer.text, <<>>, None)
  BY DEF ParseChat
<1> HIDE DEF raw
<1>7. /\ calls \in Seq(Calls) /\ Len(calls) = Len(raw)
      /\ \A k \in 1..Len(raw) :
           /\ calls[k].id = IF raw[k].id = NoId THEN <<"call", raw[k].name>> ELSE raw[k].id
           /\ calls[k].signature = NoSignature
  BY <1>1, ConvertedCalls
<1> HIDE DEF calls, empty, silence
<1>8. SignaturesOf(calls) = <<>>
  BY <1>7, NoSignatures
<1>9. ASSUME answer.ids = "given"
      PROVE  Distinct(calls) /\ \A k \in 1..Len(calls) : raw[k].id = calls[k].id
  <2>1. Len(raw) \in Nat
    BY <1>1
  <2>2. ASSUME NEW k \in 1..Len(calls) PROVE raw[k].id = <<t, r, k>> /\ calls[k].id = raw[k].id
    <3>1. raw[k].id = <<t, r, k>> /\ k \in Nat
      BY <1>1, <1>7, <1>9, <2>1
    <3>2. raw[k].id # NoId
      BY <3>1, NotNothing DEF NoId
    <3> QED BY <1>7, <3>1, <3>2
  <2>3. ASSUME NEW i \in 1..Len(calls), NEW j \in 1..Len(calls), calls[i].id = calls[j].id
        PROVE  i = j
    <3>1. <<t, r, i>> = <<t, r, j>>
      BY <2>2, <2>3
    <3> QED BY <3>1
  <2> QED BY <2>2, <2>3 DEF Distinct
<1>10. CASE raw # <<>>
  <2>1. ParseChat(answer, <<t, r>>) = Response(silence, calls, raw)
    BY <1>5, <1>6, <1>10
  <2>2. calls # <<>>
    BY <1>1, <1>7, <1>10
  <2>3. ChatParse(Response(silence, calls, raw), answer, t, r)
    BY <1>1, <1>2, <1>3, <1>7, <1>8, <1>9, <2>2, MakesChatParse
  <2> QED BY <2>1, <2>3
<1>11. ASSUME raw = <<>> PROVE SignedCalls(answer, t, r) = SignaturesOf(empty)
  BY <1>2, <1>5, <1>11
<1>12. CASE raw = <<>> /\ answer.text = "markup"
  <2> DEFINE found == Recovered("call_glm")
  <2>1. ParseChat(answer, <<t, r>>) = Response(silence, found, empty)
    BY <1>5, <1>6, <1>12
  <2>2. "call_glm" \in IdPrefixes
    BY DEF IdPrefixes
  <2>3. found \in Seq(Calls) /\ Distinct(found) /\ Len(found) = 2
        /\ \A k \in 1..2 : found[k].signature = NoSignature
    BY <2>2, RecoveredCalls
  <2> HIDE DEF found
  <2>4. SignaturesOf(found) = <<>>
    BY <2>3, NoSignatures
  <2>5. ChatParse(Response(silence, found, empty), answer, t, r)
    BY <1>3, <1>5, <1>11, <1>12, <2>3, <2>4, MakesChatParse
  <2> QED BY <2>1, <2>5
<1>13. CASE raw = <<>> /\ answer.text # "markup"
  <2>1. ParseChat(answer, <<t, r>>) = Response(answer.text, empty, empty)
    BY <1>5, <1>6, <1>13
  <2>2. Distinct(empty)
    <3>1. Len(empty) = 0
      BY ONLY <1>5
    <3>2. 1..0 = {}
      OBVIOUS
    <3>3. 1..Len(empty) = {}
      BY ONLY <3>1, <3>2, Zenon
    <3> QED BY ONLY <3>3, Zenon DEF Distinct
  <2>3. ChatParse(Response(answer.text, empty, empty), answer, t, r)
    BY <1>3, <1>4, <1>5, <1>11, <1>13, <2>2, MakesChatParse
  <2> QED BY <2>1, <2>3
<1> QED BY <1>10, <1>12, <1>13

-----------------------------------------------------------------------------

GoodParse(desktop, response, answer, t, r) ==
  /\ response \in ResponseSet
  /\ response.calls = <<>> => response.raw = <<>>
  /\ answer.ids = "given" => SameIds(response) /\ Distinct(response.calls)
  /\ ~desktop => response.raw = <<>> /\ SignaturesOf(response.calls) = SignedCalls(answer, t, r)
  /\ desktop => /\ SignaturesOf(response.calls) = <<>>
                /\ SignaturesOf(response.raw) = SignedCalls(answer, t, r)

\* Either parser gives such a response.
LEMMA Parsed ==
  ASSUME NEW desktop \in BOOLEAN, NEW answer \in Answers, NEW t \in Nat, NEW r \in Nat,
         desktop => answer.ids # "absent"
  PROVE  GoodParse(desktop, Parse(desktop, answer, <<t, r>>), answer, t, r)
<1>1. CASE desktop
  <2> DEFINE response == ParseChat(answer, <<t, r>>)
  <2>1. ChatParse(response, answer, t, r)
    BY <1>1, ParsedChat
  <2>2. Parse(desktop, answer, <<t, r>>) = response
    BY <1>1 DEF Parse
  <2> HIDE DEF response
  <2> QED BY <1>1, <2>1, <2>2 DEF GoodParse, ChatParse
<1>2. CASE ~desktop
  <2> DEFINE response == ParseOpenai(answer, <<t, r>>)
  <2>1. OpenaiParse(response, answer, t, r)
    BY ParsedOpenai
  <2>2. Parse(desktop, answer, <<t, r>>) = response
    BY <1>2 DEF Parse
  <2> HIDE DEF response
  <2> QED BY <1>2, <2>1, <2>2 DEF GoodParse, OpenaiParse, SameIds
<1> QED BY <1>1, <1>2

-----------------------------------------------------------------------------
(* Messages as they are stored and sent.                                   *)

Singles(s, G, h) == \A k \in 1..Len(s) : G[s[k]] = <<h[k]>>

\* A map that takes the members to those of h makes h.
LEMMA MappedSingles ==
  ASSUME NEW S, NEW s, NEW G, NEW h \in Seq(S), Len(h) = Len(s), Singles(s, G, h)
  PROVE  Mapped(s, G) = h
<1>1. [k \in 1..Len(s) |-> G[s[k]]] = [k \in 1..Len(h) |-> <<h[k]>>]
  BY DEF Singles
<1> QED BY <1>1, FlattenSingles DEF Mapped

Filed(m) == [m EXCEPT !.raw = None]
StoredMap == [m \in Messages |-> IF m.role = "system" THEN <<>> ELSE <<Filed(m)>>]
SentMap == [m \in Messages |-> IF m.role = "system" THEN <<>> ELSE <<Sent(m)>>]
SignaturesMap == [m \in Messages |-> SignaturesOf(m.calls)]
EventsMap(desktop) == [m \in Messages |-> EventsOf(desktop, m)]

\* A message as it is stored: only the raw calls are gone.
LEMMA FiledMessage ==
  ASSUME NEW m \in Messages
  PROVE  /\ Filed(m) \in Messages
         /\ Filed(m).role = m.role /\ Filed(m).text = m.text /\ Filed(m).calls = m.calls
         /\ Filed(m).id = m.id /\ Filed(m).raw = <<>>
<1>1. m \in MessageRecords
  BY DEF Messages
<1>2. Filed(m) \in MessageRecords
  <2>1. None \in Seq(Calls)
    BY DEF None
  <2> QED BY <1>1, <2>1 DEF MessageRecords, Filed
<1>3. /\ Filed(m).role = m.role /\ Filed(m).text = m.text /\ Filed(m).calls = m.calls
      /\ Filed(m).id = m.id /\ Filed(m).raw = <<>>
  BY <1>1 DEF MessageRecords, Filed, None
<1>4. m.role # "assistant" => m.calls = <<>>
  BY MessageFields
<1> QED BY <1>2, <1>3, <1>4 DEF Messages

\* A message as the desktop sends it: of its calls, the raw ones.
LEMMA SentMessage ==
  ASSUME NEW m \in Messages
  PROVE  /\ Sent(m) \in Messages
         /\ Sent(m).role = m.role /\ Sent(m).id = m.id /\ Sent(m).raw = m.raw
         /\ Sent(m).calls = IF m.raw # <<>> THEN m.raw ELSE m.calls
<1>1. m \in MessageRecords
  BY DEF Messages
<1>2. "" \in Texts
  BY DEF Texts
<1>3. m.role # "assistant" => m.calls = <<>> /\ m.raw = <<>>
  BY MessageFields
<1>4. CASE m.raw # <<>>
  <2> DEFINE n == [m EXCEPT !.calls = m.raw, !.text = ""]
  <2>1. n \in MessageRecords /\ n.role = m.role /\ n.id = m.id /\ n.raw = m.raw /\ n.calls = m.raw
    BY <1>1, <1>2 DEF MessageRecords
  <2>2. Sent(m) = n
    BY <1>4 DEF Sent, None
  <2> HIDE DEF n
  <2>3. n \in Messages
    BY <1>3, <2>1 DEF Messages
  <2> QED BY <1>4, <2>1, <2>2, <2>3
<1>5. CASE m.raw = <<>>
  <2> DEFINE n == [m EXCEPT !.text = IF m.calls # <<>> THEN "" ELSE @]
  <2>1. n \in MessageRecords /\ n.role = m.role /\ n.id = m.id /\ n.raw = m.raw /\ n.calls = m.calls
    BY <1>1, <1>2 DEF MessageRecords
  <2>2. Sent(m) = n
    BY <1>5 DEF Sent, None
  <2> HIDE DEF n
  <2>3. n \in Messages
    BY <1>3, <2>1 DEF Messages
  <2> QED BY <1>5, <2>1, <2>2, <2>3
<1> QED BY <1>4, <1>5

\* What is stored of a message is messages.
LEMMA StoredMapType == StoredMap \in [Messages -> Seq(Messages)]
<1>1. ASSUME NEW m \in Messages
      PROVE  (IF m.role = "system" THEN <<>> ELSE <<Filed(m)>>) \in Seq(Messages)
  BY FiledMessage
<1> QED BY <1>1 DEF StoredMap

\* What is sent of a message is messages.
LEMMA SentMapType == SentMap \in [Messages -> Seq(Messages)]
<1>1. ASSUME NEW m \in Messages
      PROVE  (IF m.role = "system" THEN <<>> ELSE <<Sent(m)>>) \in Seq(Messages)
  BY SentMessage
<1> QED BY <1>1 DEF SentMap

\* The signatures of a message are a sequence.
LEMMA SignaturesMapType == SignaturesMap \in [Messages -> Seq(Seq(Nat))]
<1>1. ASSUME NEW m \in Messages PROVE SignaturesOf(m.calls) \in Seq(Seq(Nat))
  BY MessageFields, SignaturesOfType
<1> QED BY <1>1 DEF SignaturesMap

\* Stored maps the messages one by one.
LEMMA StoredIsMapped ==
  ASSUME NEW s \in Seq(Messages)
  PROVE  Stored(s) = Mapped(s, StoredMap)
<1>1. [k \in 1..Len(s) |-> IF s[k].role = "system" THEN <<>> ELSE <<[s[k] EXCEPT !.raw = None]>>]
      = [k \in 1..Len(s) |-> StoredMap[s[k]]]
  <2>1. ASSUME NEW k \in 1..Len(s)
        PROVE  StoredMap[s[k]] = IF s[k].role = "system" THEN <<>> ELSE <<Filed(s[k])>>
    BY DEF StoredMap
  <2> QED BY <2>1, Zenon DEF Filed
<1> QED BY <1>1, Zenon DEF Stored, Mapped

\* So does what the desktop sends.
LEMMA SentIsMapped ==
  ASSUME NEW s \in Seq(Messages)
  PROVE  FlattenSeq([k \in 1..Len(s) |->
           IF s[k].role = "system" THEN <<>> ELSE <<Sent(s[k])>>]) = Mapped(s, SentMap)
<1>1. ASSUME NEW k \in 1..Len(s)
      PROVE  SentMap[s[k]] = IF s[k].role = "system" THEN <<>> ELSE <<Sent(s[k])>>
  BY DEF SentMap
<1> QED BY <1>1, Zenon DEF Mapped

\* So do the signatures of a request.
LEMMA SignaturesIsMapped ==
  ASSUME NEW s \in Seq(Messages)
  PROVE  Signatures(s) = Mapped(s, SignaturesMap)
<1>1. ASSUME NEW k \in 1..Len(s) PROVE SignaturesMap[s[k]] = SignaturesOf(s[k].calls)
  BY DEF SignaturesMap
<1> QED BY <1>1, Zenon DEF Mapped, Signatures

-----------------------------------------------------------------------------
(* Paired requests.                                                        *)

\* The two halves of Paired, at a message.
Answered(request, k) ==
  LET calls == request[k].calls IN
  /\ Distinct(calls)
  /\ \A i \in 1..Len(calls) :
       k + i <= Len(request) /\ request[k + i].role = "tool" /\ request[k + i].id = calls[i].id
Asked(request, k) ==
  request[k].role = "tool" => \E j \in 1..(k - 1) : k <= j + Len(request[j].calls)

\* A request is paired if each of its messages is.
LEMMA PairedHalves ==
  ASSUME NEW s
  PROVE  Paired(s) <=> \A k \in 1..Len(s) : Answered(s, k) /\ Asked(s, k)
  BY Zenon DEF Paired, Answered, Asked, Distinct

\* The calls of a message of a sequence.
LEMMA CallsOfMessage ==
  ASSUME NEW s \in Seq(Messages), NEW k \in 1..Len(s)
  PROVE  s[k] \in Messages /\ s[k].calls \in Seq(Calls) /\ Len(s[k].calls) \in Nat
<1>1. s[k] \in Messages
  OBVIOUS
<1>2. s[k].calls \in Seq(Calls)
  BY <1>1, MessageFields
<1> QED BY <1>1, <1>2

\* Two paired sequences are paired, one after the other.
LEMMA PairedConcat ==
  ASSUME NEW s \in Seq(Messages), NEW t \in Seq(Messages), Paired(s), Paired(t)
  PROVE  Paired(s \o t)
<1> DEFINE v == s \o t
<1>1. /\ v \in Seq(Messages) /\ Len(v) = Len(s) + Len(t)
      /\ \A k \in 1..Len(s) : v[k] = s[k]
      /\ \A k \in 1..Len(t) : v[k + Len(s)] = t[k]
      /\ Len(s) \in Nat /\ Len(t) \in Nat /\ Len(v) \in Nat
  <2>1. \A k \in 1..(Len(s) + Len(t)) : v[k] = IF k <= Len(s) THEN s[k] ELSE t[k - Len(s)]
    BY ConcatProperties
  <2> QED BY <2>1
<1> HIDE DEF v
<1>2. ASSUME NEW k \in 1..Len(s) PROVE Answered(v, k) /\ Asked(v, k)
  <2>1. Answered(s, k) /\ Asked(s, k)
    BY PairedHalves
  <2>2. v[k] = s[k] /\ Len(s[k].calls) \in Nat
    BY <1>1, CallsOfMessage
  <2>3. ASSUME NEW i \in 1..Len(s[k].calls)
        PROVE  k + i <= Len(v) /\ v[k + i].role = "tool" /\ v[k + i].id = s[k].calls[i].id
    <3>1. k + i <= Len(s) /\ s[k + i].role = "tool" /\ s[k + i].id = s[k].calls[i].id
      BY <2>1 DEF Answered
    <3>2. k + i \in 1..Len(s)
      BY <1>1, <2>2, <3>1
    <3>3. v[k + i] = s[k + i]
      BY <1>1, <3>2
    <3> QED BY <1>1, <3>1, <3>3
  <2>4. Answered(v, k)
    BY <2>1, <2>2, <2>3 DEF Answered
  <2>5. ASSUME NEW j \in 1..(k - 1) PROVE v[j] = s[j]
    BY <1>1
  <2>6. Asked(v, k)
    BY <2>1, <2>2, <2>5 DEF Asked
  <2> QED BY <2>4, <2>6
<1>3. ASSUME NEW n \in 1..Len(t) PROVE Answered(v, n + Len(s)) /\ Asked(v, n + Len(s))
  <2> DEFINE k == n + Len(s)
  <2>1. Answered(t, n) /\ Asked(t, n)
    BY PairedHalves
  <2>2. v[k] = t[n] /\ Len(t[n].calls) \in Nat
    BY <1>1, CallsOfMessage
  <2>3. ASSUME NEW i \in 1..Len(t[n].calls)
        PROVE  k + i <= Len(v) /\ v[k + i].role = "tool" /\ v[k + i].id = t[n].calls[i].id
    <3>1. n + i <= Len(t) /\ t[n + i].role = "tool" /\ t[n + i].id = t[n].calls[i].id
      BY <2>1 DEF Answered
    <3>2. n + i \in 1..Len(t) /\ k + i = (n + i) + Len(s)
      BY <1>1, <2>2, <3>1, SMTT(30)
    <3>3. v[k + i] = t[n + i]
      BY <1>1, <3>2
    <3> QED BY <1>1, <3>1, <3>2, <3>3
  <2>4. Answered(v, k)
    <3> HIDE DEF k
    <3> QED BY <2>1, <2>2, <2>3 DEF Answered
  <2>5. ASSUME v[k].role = "tool" PROVE \E j \in 1..(k - 1) : k <= j + Len(v[j].calls)
    <3>1. PICK j \in 1..(n - 1) : n <= j + Len(t[j].calls)
      BY <2>1, <2>2, <2>5 DEF Asked
    <3>2. j \in 1..Len(t) /\ j + Len(s) \in 1..(k - 1)
      BY <1>1
    <3>3. v[j + Len(s)] = t[j] /\ Len(t[j].calls) \in Nat
      BY <1>1, <3>2, CallsOfMessage
    <3>4. k <= (j + Len(s)) + Len(v[j + Len(s)].calls)
      <4> DEFINE d == Len(t[j].calls) m == Len(s) w == Len(v[j + Len(s)].calls)
      <4>1. d \in Nat /\ m \in Nat /\ n <= j + d /\ w = d /\ n \in Nat /\ j \in Nat
        BY <1>1, <3>1, <3>2, <3>3
      <4> HIDE DEF d, m, w
      <4>2. n + m <= (j + m) + w
        BY <4>1
      <4> QED BY <4>2 DEF m, w
    <3> QED BY <3>2, <3>4
  <2>6. Asked(v, k)
    <3> HIDE DEF k
    <3> QED BY <2>5 DEF Asked
  <2> QED BY <2>4, <2>6
<1>4. ASSUME NEW k \in 1..Len(v) PROVE Answered(v, k) /\ Asked(v, k)
  <2>1. CASE k <= Len(s)
    BY <1>1, <1>2, <2>1
  <2>2. CASE k > Len(s)
    <3>1. k - Len(s) \in 1..Len(t) /\ k = (k - Len(s)) + Len(s)
      BY <1>1, <2>2
    <3> DEFINE n == k - Len(s)
    <3>2. n \in 1..Len(t) /\ k = n + Len(s)
      BY <3>1
    <3> HIDE DEF n
    <3> QED BY <1>3, <3>2
  <2> QED BY <1>1, <2>1, <2>2
<1>5. Paired(v)
  BY <1>4, PairedHalves
<1> QED BY <1>5 DEF v

-----------------------------------------------------------------------------

\* What the messages of a session are made of: a message without calls that
\* is no result; a message with its calls, and their results.
IsAlone(s) == Len(s) = 1 /\ s[1].role # "tool" /\ s[1].calls = <<>> /\ s[1].raw = <<>>
IsBatch(s) ==
  /\ s # <<>> /\ Len(s) = Len(s[1].calls) + 1
  /\ s[1].role = "assistant" /\ Distinct(s[1].calls) /\ SameIds(s[1])
  /\ \A k \in 1..Len(s[1].calls) : s[k + 1].role = "tool" /\ s[k + 1].id = s[1].calls[k].id
Units == {s \in Seq(Messages) : s = <<>> \/ IsAlone(s) \/ IsBatch(s)}

\* No calls have distinct ids.
LEMMA NoneDistinct == Distinct(<<>>)
<1>1. 1..Len(<<>>) = {}
  <2>1. Len(<<>>) = 0 /\ 1..0 = {}
    OBVIOUS
  <2> QED BY <2>1, Zenon
<1> QED BY ONLY <1>1, Zenon DEF Distinct

\* A unit is paired.
LEMMA UnitPaired ==
  ASSUME NEW s \in Units
  PROVE  s \in Seq(Messages) /\ Paired(s)
<1>0. s \in Seq(Messages) /\ (s = <<>> \/ IsAlone(s) \/ IsBatch(s))
  BY DEF Units
<1>1. CASE s = <<>>
  <2>1. \A k \in 1..Len(s) : FALSE
    BY <1>1
  <2> QED BY <1>0, <2>1, PairedHalves
<1>2. CASE IsAlone(s)
  <2>1. ASSUME NEW k \in 1..Len(s) PROVE Answered(s, k) /\ Asked(s, k)
    <3>1. k = 1
      BY <1>2 DEF IsAlone
    <3> DEFINE calls == s[1].calls
    <3>2. calls = <<>> /\ Len(calls) = 0
      BY <1>2 DEF IsAlone
    <3>3. Distinct(calls)
      BY <3>2, NoneDistinct
    <3> HIDE DEF calls
    <3>4. \A i \in 1..Len(calls) : FALSE
      BY <3>2
    <3>5. Answered(s, 1)
      BY <3>3, <3>4 DEF Answered, calls
    <3>6. Asked(s, 1)
      BY <1>2 DEF IsAlone, Asked
    <3> QED BY <3>1, <3>5, <3>6
  <2> QED BY <1>0, <2>1, PairedHalves
<1>3. CASE IsBatch(s)
  <2> DEFINE calls == s[1].calls
  <2>1. /\ Len(s) = Len(calls) + 1 /\ s[1].role = "assistant" /\ Distinct(calls)
        /\ \A k \in 1..Len(calls) : s[k + 1].role = "tool" /\ s[k + 1].id = calls[k].id
    BY <1>3 DEF IsBatch
  <2>2. Len(s) \in Nat /\ 1 \in 1..Len(s) /\ Len(calls) \in Nat
    <3>1. Len(s) \in Nat
      BY <1>0
    <3>2. Len(s) # 0
      BY <1>0, <1>3 DEF IsBatch
    <3>3. 1 \in 1..Len(s)
      BY <3>1, <3>2
    <3> QED BY <1>0, <3>1, <3>3, CallsOfMessage
  <2>3. ASSUME NEW k \in 1..Len(s) PROVE Answered(s, k) /\ Asked(s, k)
    <3>1. CASE k = 1
      <4>1. ASSUME NEW i \in 1..Len(calls)
            PROVE  1 + i <= Len(s) /\ s[1 + i].role = "tool" /\ s[1 + i].id = calls[i].id
        BY <2>1, <2>2
      <4>2. Answered(s, 1)
        BY <2>1, <4>1 DEF Answered
      <4>3. Asked(s, 1)
        BY <2>1 DEF Asked
      <4> QED BY <3>1, <4>2, <4>3
    <3>2. CASE k # 1
      <4>1. k - 1 \in 1..Len(calls) /\ k = (k - 1) + 1
        BY <2>1, <2>2, <3>2
      <4>2. s[(k - 1) + 1].role = "tool"
        BY <2>1, <4>1
      <4>3. s[k].role = "tool"
        BY <4>1, <4>2
      <4>4. s[k].calls = <<>>
        BY <1>0, <4>3, CallsOfMessage, MessageFields
      <4>5. Answered(s, k)
        <5> DEFINE none == s[k].calls
        <5>1. Distinct(none) /\ Len(none) = 0
          BY <4>4, NoneDistinct
        <5> HIDE DEF none
        <5>2. \A i \in 1..Len(none) : FALSE
          BY <5>1
        <5> QED BY <5>1, <5>2 DEF Answered, none
      <4>6. 1 \in 1..(k - 1) /\ k <= 1 + Len(s[1].calls)
        BY <2>1, <2>2, <3>2
      <4>7. Asked(s, k)
        BY <4>6 DEF Asked
      <4> QED BY <4>5, <4>7
    <3> QED BY <3>1, <3>2
  <2> QED BY <1>0, <2>3, PairedHalves
<1> QED BY <1>0, <1>1, <1>2, <1>3

\* A map that leaves the system messages out and takes each other message to
\* one of its place, with the calls or what was kept of them.
Keeps(h, G) ==
  \A m \in Messages :
    /\ G[m] = IF m.role = "system" THEN <<>> ELSE <<h[m]>>
    /\ h[m].role = m.role /\ h[m].id = m.id
    /\ \/ h[m].calls = m.calls /\ (h[m].raw = <<>> \/ h[m].raw = m.raw)
       \/ m.raw # <<>> /\ h[m].calls = m.raw /\ h[m].raw = m.raw

\* Such a map takes a unit to a unit.
LEMMA UnitMapped ==
  ASSUME NEW s \in Units, NEW h \in [Messages -> Messages], NEW G \in [Messages -> Seq(Messages)],
         Keeps(h, G)
  PROVE  Mapped(s, G) \in Units
<1>0. s \in Seq(Messages) /\ (s = <<>> \/ IsAlone(s) \/ IsBatch(s))
  BY DEF Units
<1>1. CASE s = <<>>
  <2>1. Mapped(s, G) = <<>>
    BY <1>1, MappedEmpty
  <2> QED BY <1>0, <1>1, <2>1 DEF Units
<1>2. CASE IsAlone(s)
  <2> DEFINE m == s[1]
  <2>1. m \in Messages /\ s = <<m>> /\ m.role # "tool" /\ m.calls = <<>> /\ m.raw = <<>>
    <3>1. Len(s) = 1 /\ m.role # "tool" /\ m.calls = <<>> /\ m.raw = <<>>
      BY <1>2 DEF IsAlone
    <3>2. m \in Messages
      <4>1. Len(s) = 1
        BY <3>1
      <4>2. 1 \in 1..Len(s)
        BY ONLY <4>1
      <4> QED BY <1>0, <4>2, CallsOfMessage
    <3> DEFINE u == <<m>>
    <3>3. u \in Seq(Messages) /\ Len(u) = 1 /\ u[1] = s[1]
      BY <3>2
    <3> HIDE DEF u
    <3>4. s = u
      BY <1>0, <3>1, <3>3, SeqEqual
    <3> QED BY <3>1, <3>2, <3>4 DEF u
  <2> HIDE DEF m
  <2>2. Mapped(s, G) = G[m]
    BY <2>1, MappedOne
  <2>3. CASE m.role = "system"
    <3>1. Mapped(s, G) = <<>>
      BY <2>1, <2>2, <2>3 DEF Keeps
    <3> QED BY <3>1 DEF Units
  <2>4. CASE m.role # "system"
    <3> DEFINE n == h[m]
    <3>1. n \in Messages /\ Mapped(s, G) = <<n>> /\ n.role = m.role /\ n.calls = <<>> /\ n.raw = <<>>
      BY <2>1, <2>2, <2>4 DEF Keeps
    <3> HIDE DEF n
    <3> DEFINE u == <<n>>
    <3>2. u \in Seq(Messages) /\ Len(u) = 1 /\ u[1] = n
      BY <3>1
    <3> HIDE DEF u
    <3>3. IsAlone(u)
      BY <2>1, <3>1, <3>2 DEF IsAlone
    <3>4. u \in Units
      BY <3>2, <3>3 DEF Units
    <3> QED BY <3>1, <3>4 DEF u
  <2> QED BY <2>3, <2>4
<1>3. CASE IsBatch(s)
  <2> DEFINE u == [k \in 1..Len(s) |-> h[s[k]]]
  <2>1. /\ s # <<>> /\ Len(s) = Len(s[1].calls) + 1
        /\ s[1].role = "assistant" /\ Distinct(s[1].calls) /\ SameIds(s[1])
        /\ \A k \in 1..Len(s[1].calls) : s[k + 1].role = "tool" /\ s[k + 1].id = s[1].calls[k].id
    BY <1>3 DEF IsBatch
  <2>2. Len(s) \in Nat /\ 1 \in 1..Len(s)
    BY <1>0, <2>1
  <2>3. Len(s[1].calls) \in Nat
    BY <1>0, <2>2, CallsOfMessage
  <2>4. \A k \in 1..Len(s) : s[k] \in Messages
    BY <1>0
  <2>5. ASSUME NEW k \in 1..Len(s) PROVE s[k].role # "system"
    <3>1. CASE k = 1
      BY <2>1, <3>1
    <3>2. CASE k # 1
      <4>1. k - 1 \in 1..Len(s[1].calls) /\ k = (k - 1) + 1
        BY <2>1, <2>2, <2>3, <3>2
      <4>2. s[(k - 1) + 1].role = "tool"
        BY <2>1, <4>1
      <4> QED BY <4>1, <4>2
    <3> QED BY <3>1, <3>2
  <2>6. u \in Seq(Messages) /\ Len(u) = Len(s) /\ \A k \in 1..Len(s) : u[k] = h[s[k]]
    BY <2>2, <2>4
  <2> HIDE DEF u
  <2>7. \A k \in 1..Len(s) : G[s[k]] = <<u[k]>>
    BY <2>4, <2>5, <2>6, ZenonT(30) DEF Keeps
  <2>8. Mapped(s, G) = u
    <3>1. Singles(s, G, u)
      BY <2>7 DEF Singles
    <3> QED BY <1>0, <2>6, <3>1, MappedSingles
  <2>9. s[1] \in Messages /\ u[1] = h[s[1]]
    BY <2>2, <2>4, <2>6
  <2>10. /\ u[1].role = "assistant" /\ Len(u[1].calls) = Len(s[1].calls)
         /\ Distinct(u[1].calls) /\ SameIds(u[1])
         /\ \A k \in 1..Len(s[1].calls) : u[1].calls[k].id = s[1].calls[k].id
    <3> DEFINE m == s[1] n == u[1]
    <3>1. /\ m.role = "assistant" /\ Distinct(m.calls) /\ SameIds(m) /\ n.role = m.role
          /\ \/ n.calls = m.calls /\ (n.raw = <<>> \/ n.raw = m.raw)
             \/ m.raw # <<>> /\ n.calls = m.raw /\ n.raw = m.raw
      BY <2>1, <2>9 DEF Keeps
    <3> HIDE DEF m, n
    <3>2. CASE n.calls = m.calls /\ (n.raw = <<>> \/ n.raw = m.raw)
      <4>1. SameIds(n)
        BY <3>1, <3>2 DEF SameIds
      <4> QED BY <3>1, <3>2, <4>1 DEF m, n
    <3>3. CASE m.raw # <<>> /\ n.calls = m.raw /\ n.raw = m.raw
      <4>1. Len(m.raw) = Len(m.calls) /\ \A k \in 1..Len(m.calls) : m.raw[k].id = m.calls[k].id
        BY <3>1, <3>3 DEF SameIds
      <4>2. SameIds(n)
        BY <3>3 DEF SameIds
      <4>3. Distinct(n.calls)
        <5> DEFINE c == m.calls d == m.raw
        <5>1. Distinct(c) /\ Len(d) = Len(c) /\ \A k \in 1..Len(c) : d[k].id = c[k].id
          BY <3>1, <4>1
        <5>2. n.calls = d
          BY <3>3
        <5> HIDE DEF c, d
        <5>3. Distinct(d)
          BY ONLY <5>1 DEF Distinct
        <5> QED BY <5>2, <5>3
      <4> QED BY <3>1, <3>3, <4>1, <4>2, <4>3 DEF m, n
    <3> QED BY <3>1, <3>2, <3>3
  <2>11. ASSUME NEW k \in 1..Len(u[1].calls)
         PROVE  u[k + 1].role = "tool" /\ u[k + 1].id = u[1].calls[k].id
    <3>1. k \in 1..Len(s[1].calls) /\ k + 1 \in 1..Len(s)
      BY <2>1, <2>2, <2>3, <2>10
    <3>2. u[k + 1] = h[s[k + 1]] /\ s[k + 1] \in Messages
      BY <2>4, <2>6, <3>1
    <3>3. u[k + 1].role = s[k + 1].role /\ u[k + 1].id = s[k + 1].id
      BY <3>2 DEF Keeps
    <3> QED BY <2>1, <2>10, <3>1, <3>3
  <2>12. u # <<>>
    BY <2>2, <2>6
  <2>13. IsBatch(u)
    BY <2>1, <2>6, <2>10, <2>11, <2>12 DEF IsBatch
  <2> QED BY <2>6, <2>8, <2>13 DEF Units
<1> QED BY <1>0, <1>1, <1>2, <1>3

\* A unit is a unit in the file.
LEMMA UnitStored ==
  ASSUME NEW s \in Units
  PROVE  Mapped(s, StoredMap) \in Units
<1> DEFINE h == [m \in Messages |-> Filed(m)]
<1>1. h \in [Messages -> Messages] /\ \A m \in Messages : h[m] = Filed(m)
  BY FiledMessage
<1>2. \A m \in Messages : StoredMap[m] = IF m.role = "system" THEN <<>> ELSE <<Filed(m)>>
  BY DEF StoredMap
<1> HIDE DEF h
<1>3. Keeps(h, StoredMap)
  BY <1>1, <1>2, FiledMessage DEF Keeps
<1> QED BY <1>1, <1>3, StoredMapType, UnitMapped

\* A unit is a unit in the desktop's request.
LEMMA UnitSent ==
  ASSUME NEW s \in Units
  PROVE  Mapped(s, SentMap) \in Units
<1> DEFINE h == [m \in Messages |-> Sent(m)]
<1>1. h \in [Messages -> Messages] /\ \A m \in Messages : h[m] = Sent(m)
  BY SentMessage
<1>2. \A m \in Messages : SentMap[m] = IF m.role = "system" THEN <<>> ELSE <<Sent(m)>>
  BY DEF SentMap
<1> HIDE DEF h
<1>3. Keeps(h, SentMap)
  BY <1>1, <1>2, SentMessage DEF Keeps
<1> QED BY <1>1, <1>3, SentMapType, UnitMapped

-----------------------------------------------------------------------------

\* Messages that are made of units.
Built == {FlattenSeq(ss) : ss \in Seq(Units)}

\* Units are sequences of messages.
LEMMA UnitsAreMessages == Units \subseteq Seq(Messages) /\ Seq(Units) \subseteq Seq(Seq(Messages))
<1>1. Units \subseteq Seq(Messages)
  BY DEF Units
<1>2. ASSUME NEW ss \in Seq(Units) PROVE ss \in Seq(Seq(Messages))
  BY <1>1
<1> QED BY <1>1, <1>2

\* What is made of units is paired.
LEMMA BuiltPaired ==
  ASSUME NEW s \in Built
  PROVE  s \in Seq(Messages) /\ Paired(s)
<1> DEFINE P == {u \in Seq(Messages) : Paired(u)}
<1>1. PICK ss \in Seq(Units) : s = FlattenSeq(ss)
  BY DEF Built
<1>2. Units \subseteq P
  BY UnitPaired
<1>3. <<>> \in P
  <2>1. <<>> \in Units
    BY DEF Units
  <2> QED BY <1>2, <2>1
<1>4. \A u, v \in P : u \o v \in P
  <2>1. \A u, v \in Seq(Messages) : u \o v \in Seq(Messages)
    OBVIOUS
  <2> QED BY <2>1, PairedConcat
<1>5. P \subseteq Seq(Messages)
  OBVIOUS
<1> HIDE DEF P
<1>6. ss \in Seq(P)
  BY <1>2
<1>7. FlattenSeq(ss) \in P
  BY <1>3, <1>4, <1>5, <1>6, FlattenInto
<1> QED BY <1>1, <1>7 DEF P

\* A unit is made of itself.
LEMMA BuiltOfUnit ==
  ASSUME NEW s \in Units
  PROVE  s \in Built
<1>1. <<s>> \in Seq(Units) /\ s \in Seq(Messages)
  BY UnitsAreMessages
<1>2. FlattenSeq(<<s>>) = s
  BY <1>1, FlattenOne
<1> QED BY <1>1, <1>2 DEF Built

\* Two that are made of units make one.
LEMMA BuiltConcat ==
  ASSUME NEW s \in Built, NEW t \in Built
  PROVE  s \o t \in Built
<1>1. PICK ss \in Seq(Units) : s = FlattenSeq(ss)
  BY DEF Built
<1>2. PICK tt \in Seq(Units) : t = FlattenSeq(tt)
  BY DEF Built
<1>3. ss \o tt \in Seq(Units) /\ ss \in Seq(Seq(Messages)) /\ tt \in Seq(Seq(Messages))
  BY UnitsAreMessages
<1>4. FlattenSeq(ss \o tt) = s \o t
  BY <1>1, <1>2, <1>3, FlattenConcat
<1> QED BY <1>3, <1>4 DEF Built

\* Any number of them make one.
LEMMA BuiltFlatten ==
  ASSUME NEW ss \in Seq(Built)
  PROVE  FlattenSeq(ss) \in Built
<1>1. Built \subseteq Seq(Messages)
  BY BuiltPaired
<1>2. <<>> \in Built
  <2>1. <<>> \in Units
    BY DEF Units
  <2> QED BY <2>1, BuiltOfUnit
<1>3. \A s, t \in Built : s \o t \in Built
  BY BuiltConcat
<1> HIDE DEF Built
<1> QED BY <1>1, <1>2, <1>3, FlattenInto

\* A map that takes units to units takes what is made of units to such.
LEMMA BuiltMapped ==
  ASSUME NEW s \in Built, NEW G \in [Messages -> Seq(Messages)],
         \A u \in Units : Mapped(u, G) \in Units
  PROVE  Mapped(s, G) \in Built
<1>1. PICK ss \in Seq(Units) : s = FlattenSeq(ss)
  BY DEF Built
<1> DEFINE tt == [k \in 1..Len(ss) |-> Mapped(ss[k], G)]
<1>2. ss \in Seq(Seq(Messages))
  BY UnitsAreMessages
<1>3. Mapped(s, G) = FlattenSeq(tt)
  BY <1>1, <1>2, MappedFlatten
<1>4. tt \in Seq(Units)
  <2>1. \A k \in 1..Len(ss) : ss[k] \in Units
    OBVIOUS
  <2>2. \A k \in 1..Len(ss) : Mapped(ss[k], G) \in Units
    BY <2>1
  <2>3. Len(ss) \in Nat
    OBVIOUS
  <2> QED BY <2>2, <2>3
<1> HIDE DEF tt
<1> QED BY <1>3, <1>4 DEF Built

-----------------------------------------------------------------------------
(* What an answer adds to the messages.                                    *)

\* The values that stand for what is absent.
LEMMA Nothing ==
  NoId \in Ids /\ NoId = <<>> /\ None \in Seq(Calls) /\ None = <<>> /\ NoSignature = <<>>
<1>1. NoId \in Seq(Nat) /\ NoId = <<>>
  BY DEF NoId
<1>2. NoId \in Ids
  BY <1>1, Zenon DEF Ids
<1>3. None \in Seq(Calls) /\ None = <<>>
  BY DEF None
<1> QED BY <1>1, <1>2, <1>3 DEF NoSignature

\* A message without calls.
LEMMA MakesResult ==
  ASSUME NEW role \in {"user", "assistant", "tool", "system"}, NEW text \in Texts, NEW id \in Ids
  PROVE  /\ Message(role, text, None, id, None) \in Messages
         /\ Message(role, text, None, id, None).role = role
         /\ Message(role, text, None, id, None).text = text
         /\ Message(role, text, None, id, None).calls = None
         /\ Message(role, text, None, id, None).id = id
         /\ Message(role, text, None, id, None).raw = None
<1>1. Bare(role, None, None)
  BY DEF Bare, None
<1>2. None \in Seq(Calls)
  BY Nothing
<1> QED BY <1>1, <1>2, MakesMessage

\* A message that is no result and has no calls.
LEMMA SaidMessage ==
  ASSUME NEW role \in {"user", "assistant", "system"}, NEW text \in Texts
  PROVE  /\ Said(role, text) \in Messages
         /\ Said(role, text).role = role /\ Said(role, text).text = text
         /\ Said(role, text).calls = <<>> /\ Said(role, text).raw = <<>>
<1>1. role \in {"user", "assistant", "tool", "system"}
  OBVIOUS
<1>2. Said(role, text) = Message(role, text, None, NoId, None)
  BY DEF Said, None
<1> QED BY <1>1, <1>2, MakesResult, Nothing

\* Such a message is a unit.
LEMMA SaidUnit ==
  ASSUME NEW role \in {"user", "assistant", "system"}, NEW text \in Texts
  PROVE  <<Said(role, text)>> \in Units
<1> DEFINE m == Said(role, text) u == <<m>>
<1>1. m \in Messages /\ m.role = role /\ m.calls = <<>> /\ m.raw = <<>>
  BY SaidMessage
<1> HIDE DEF m
<1>2. u \in Seq(Messages) /\ Len(u) = 1 /\ u[1] = m
  BY <1>1
<1>3. role # "tool"
  OBVIOUS
<1> HIDE DEF u
<1>4. IsAlone(u)
  BY <1>1, <1>2, <1>3 DEF IsAlone
<1>5. u \in Units
  BY <1>2, <1>4 DEF Units
<1> QED BY <1>5 DEF u, m

\* The result of a call has its id.
LEMMA ToolResultMessage ==
  ASSUME NEW c \in Calls
  PROVE  /\ ToolResult(c) \in Messages
         /\ ToolResult(c).role = "tool" /\ ToolResult(c).id = c.id
         /\ ToolResult(c).calls = <<>> /\ ToolResult(c).raw = <<>>
<1> DEFINE text == IF c.name = "refused" THEN "error" ELSE "result"
           role == "tool"
           id == c.id
<1>1. text \in Texts /\ role \in {"user", "assistant", "tool", "system"} /\ role = "tool"
  BY DEF Texts
<1>2. id \in Ids
  BY CallFields
<1>3. ToolResult(c) = Message(role, text, None, id, None)
  BY DEF ToolResult, None
<1> HIDE DEF text, role, id
<1>4. /\ Message(role, text, None, id, None) \in Messages
      /\ Message(role, text, None, id, None).role = role
      /\ Message(role, text, None, id, None).calls = <<>>
      /\ Message(role, text, None, id, None).id = id
      /\ Message(role, text, None, id, None).raw = <<>>
  BY <1>1, <1>2, MakesResult, Nothing
<1> QED BY <1>1, <1>3, <1>4 DEF id

\* The parts of what an answer with calls adds.
Asking(response) == Message("assistant", response.text, response.calls, NoId, response.raw)
Results(response) == [k \in 1..Len(response.calls) |-> ToolResult(response.calls[k])]

\* The assistant's message has the calls of the response.
LEMMA AskingMessage ==
  ASSUME NEW response \in ResponseSet
  PROVE  /\ Asking(response) \in Messages
         /\ Asking(response).role = "assistant" /\ Asking(response).text = response.text
         /\ Asking(response).calls = response.calls /\ Asking(response).raw = response.raw
<1> DEFINE role == "assistant"
           m == Message(role, response.text, response.calls, NoId, response.raw)
<1>1. role \in {"user", "assistant", "tool", "system"} /\ role = "assistant"
  OBVIOUS
<1>2. Asking(response) = m
  BY DEF Asking
<1> HIDE DEF role
<1>3. /\ m \in Messages /\ m.role = role /\ m.text = response.text
      /\ m.calls = response.calls /\ m.raw = response.raw
  <2>1. Bare(role, response.calls, response.raw)
    BY <1>1 DEF Bare
  <2> QED BY <1>1, <2>1, MakesMessage, Nothing, ResponseFields
<1> QED BY <1>1, <1>2, <1>3

\* The results are those of the calls, one by one.
LEMMA ResultMessages ==
  ASSUME NEW response \in ResponseSet
  PROVE  /\ Results(response) \in Seq(Messages)
         /\ Len(Results(response)) = Len(response.calls) /\ Len(response.calls) \in Nat
         /\ \A k \in 1..Len(response.calls) :
              /\ response.calls[k] \in Calls
              /\ Results(response)[k] = ToolResult(response.calls[k])
              /\ Results(response)[k] \in Messages
              /\ Results(response)[k].role = "tool"
              /\ Results(response)[k].id = response.calls[k].id
<1>1. response.calls \in Seq(Calls)
  BY ResponseFields
<1>2. Len(response.calls) \in Nat /\ \A k \in 1..Len(response.calls) : response.calls[k] \in Calls
  BY <1>1
<1>3. \A k \in 1..Len(response.calls) : ToolResult(response.calls[k]) \in Messages
  BY <1>2, ToolResultMessage
<1>4. Results(response) \in Seq(Messages) /\ Len(Results(response)) = Len(response.calls)
      /\ \A k \in 1..Len(response.calls) : Results(response)[k] = ToolResult(response.calls[k])
  BY <1>2, <1>3 DEF Results
<1> QED BY <1>2, <1>3, <1>4, ToolResultMessage

\* The warning after the results is a unit, if there is one.
LEMMA WarningsUnit ==
  ASSUME NEW calls
  PROVE  Warnings(calls) \in Units /\ (Warnings(calls) = <<>> \/ Warnings(calls) = <<Said("system", "warning")>>)
<1>1. "system" \in {"user", "assistant", "system"} /\ "warning" \in Texts
  BY DEF Texts
<1>2. <<Said("system", "warning")>> \in Units
  BY <1>1, SaidUnit
<1>3. <<>> \in Units
  BY DEF Units
<1> QED BY <1>2, <1>3 DEF Warnings

\* The three parts of what executed calls add.
LEMMA ExecutedParts ==
  ASSUME NEW response \in ResponseSet
  PROVE  Executed(response) = (<<Asking(response)>> \o Results(response)) \o Warnings(response.calls)
  BY DEF Executed, Asking, Results

\* One after the other.
LEMMA Headed ==
  ASSUME NEW S, NEW m \in S, NEW s \in Seq(S)
  PROVE  /\ <<m>> \o s \in Seq(S) /\ Len(<<m>> \o s) = Len(s) + 1
         /\ (<<m>> \o s)[1] = m /\ \A k \in 1..Len(s) : (<<m>> \o s)[k + 1] = s[k]
<1> DEFINE u == <<m>>
<1>1. u \in Seq(S) /\ Len(u) = 1 /\ u[1] = m
  OBVIOUS
<1> HIDE DEF u
<1>2. u \o s \in Seq(S) /\ Len(u \o s) = Len(u) + Len(s)
      /\ \A k \in 1..(Len(u) + Len(s)) : (u \o s)[k] = IF k <= Len(u) THEN u[k] ELSE s[k - Len(u)]
  BY <1>1, ConcatProperties
<1>3. Len(s) \in Nat
  OBVIOUS
<1>4. (u \o s)[1] = m
  BY <1>1, <1>2, <1>3
<1>5. ASSUME NEW k \in 1..Len(s) PROVE (u \o s)[k + 1] = s[k]
  <2>1. k + 1 \in 1..(Len(u) + Len(s)) /\ ~(k + 1 <= Len(u)) /\ (k + 1) - Len(u) = k
    BY <1>1, <1>3
  <2> QED BY <1>2, <2>1
<1>6. Len(u \o s) = Len(s) + 1
  BY <1>1, <1>2, <1>3
<1> QED BY <1>2, <1>4, <1>5, <1>6 DEF u

\* Calls with distinct ids and their results are a unit.
LEMMA BatchUnit ==
  ASSUME NEW response \in ResponseSet, SameIds(response), Distinct(response.calls)
  PROVE  <<Asking(response)>> \o Results(response) \in Units
<1> DEFINE a == Asking(response) s == <<a>> \o Results(response)
<1>1. a \in Messages /\ a.role = "assistant" /\ a.calls = response.calls /\ a.raw = response.raw
  BY AskingMessage
<1> HIDE DEF a
<1>2. /\ s \in Seq(Messages) /\ Len(s) = Len(Results(response)) + 1
      /\ s[1] = a /\ \A k \in 1..Len(Results(response)) : s[k + 1] = Results(response)[k]
  BY <1>1, ResultMessages, Headed
<1> HIDE DEF s
<1>3. SameIds(a)
  BY <1>1 DEF SameIds
<1>4. s # <<>>
  BY <1>2, ResultMessages
<1>5. IsBatch(s)
  <2>1. s[1].role = "assistant" /\ s[1].calls = response.calls /\ Distinct(s[1].calls) /\ SameIds(s[1])
    BY <1>1, <1>2, <1>3
  <2>2. Len(Results(response)) = Len(response.calls)
        /\ \A k \in 1..Len(response.calls) : /\ Results(response)[k].role = "tool"
                                              /\ Results(response)[k].id = response.calls[k].id
    BY ResultMessages
  <2>3. \A k \in 1..Len(s[1].calls) : s[k + 1].role = "tool" /\ s[k + 1].id = s[1].calls[k].id
    BY <1>2, <2>1, <2>2
  <2>4. Len(s) = Len(s[1].calls) + 1
    BY <1>2, <2>1, <2>2
  <2> QED BY <1>4, <2>1, <2>3, <2>4 DEF IsBatch
<1>6. s \in Units
  BY <1>2, <1>5 DEF Units
<1> QED BY <1>6 DEF s, a

\* The messages of an answer without calls are units.
LEMMA PushedText ==
  ASSUME NEW response \in ResponseSet
  PROVE  <<Said("assistant", response.text)>> \in Units /\ <<Said("system", "reminder")>> \in Units
<1>1. response.text \in Texts /\ "reminder" \in Texts
  <2>1. "reminder" \in Texts
    BY DEF Texts
  <2> QED BY <2>1, ResponseFields
<1>2. "assistant" \in {"user", "assistant", "system"} /\ "system" \in {"user", "assistant", "system"}
  OBVIOUS
<1> QED BY <1>1, <1>2, SaidUnit

\* A pair is two sequences of one member.
LEMMA TwoParts ==
  ASSUME NEW a, NEW b
  PROVE  <<a, b>> = <<a>> \o <<b>>
<1> DEFINE S == {a, b} u == <<a>>
<1>1. u \in Seq(S) /\ b \in S /\ <<a, b>> = Append(u, b)
  OBVIOUS
<1> HIDE DEF u, S
<1>2. Append(u, b) = u \o <<b>>
  BY <1>1, AppendIsConcat
<1> QED BY <1>1, <1>2 DEF u

\* What each kind of answer adds.
LEMMA PushedParts ==
  ASSUME NEW response \in ResponseSet, NEW last
  PROVE  Pushed(response, last) =
           IF response.calls # <<>>
           THEN (<<Asking(response)>> \o Results(response)) \o Warnings(response.calls)
           ELSE IF last THEN <<Said("assistant", response.text)>>
                ELSE <<Said("assistant", response.text)>> \o <<Said("system", "reminder")>>
<1>1. <<Said("assistant", response.text), Said("system", "reminder")>>
      = <<Said("assistant", response.text)>> \o <<Said("system", "reminder")>>
  BY TwoParts
<1> QED BY <1>1, ExecutedParts DEF Pushed

\* What an answer adds is made of units.
LEMMA PushedBuilt ==
  ASSUME NEW response \in ResponseSet, NEW last, SameIds(response), Distinct(response.calls)
  PROVE  Pushed(response, last) \in Built
<1>1. Warnings(response.calls) \in Built
  BY WarningsUnit, BuiltOfUnit
<1>2. <<Asking(response)>> \o Results(response) \in Built
  BY BatchUnit, BuiltOfUnit
<1>3. <<Said("assistant", response.text)>> \in Built /\ <<Said("system", "reminder")>> \in Built
  BY PushedText, BuiltOfUnit
<1>4. (<<Asking(response)>> \o Results(response)) \o Warnings(response.calls) \in Built
  BY <1>1, <1>2, BuiltConcat
<1>5. <<Said("assistant", response.text)>> \o <<Said("system", "reminder")>> \in Built
  BY <1>3, BuiltConcat
<1> QED BY <1>3, <1>4, <1>5, PushedParts

\* What an answer adds is messages, whatever its ids.
LEMMA PushedMessages ==
  ASSUME NEW response \in ResponseSet, NEW last
  PROVE  Pushed(response, last) \in Seq(Messages)
<1>1. Warnings(response.calls) \in Seq(Messages)
  BY WarningsUnit, UnitsAreMessages
<1>2. <<Asking(response)>> \o Results(response) \in Seq(Messages)
  BY AskingMessage, ResultMessages, Headed
<1>3. <<Said("assistant", response.text)>> \in Seq(Messages) /\ <<Said("system", "reminder")>> \in Seq(Messages)
  BY PushedText, UnitsAreMessages
<1>4. (<<Asking(response)>> \o Results(response)) \o Warnings(response.calls) \in Seq(Messages)
  BY <1>1, <1>2
<1>5. <<Said("assistant", response.text)>> \o <<Said("system", "reminder")>> \in Seq(Messages)
  BY <1>3
<1> QED BY <1>3, <1>4, <1>5, PushedParts

-----------------------------------------------------------------------------
(* Turns, sessions and requests.                                           *)

\* The greatest member of a set of places.
LEMMA Greatest ==
  ASSUME NEW n \in Nat, NEW I, I \subseteq 1..n, I # {}
  PROVE  Max(I) \in I /\ \A i \in I : Max(I) >= i
<1> DEFINE S == {k \in Nat : \E i \in I : k = n - i}
<1>1. S \subseteq Nat /\ S # {}
  <2>1. PICK i \in I : TRUE
    OBVIOUS
  <2>2. n - i \in Nat
    OBVIOUS
  <2> QED BY <2>1, <2>2
<1> HIDE DEF S
<1>2. PICK m \in S : \A k \in S : m <= k
  BY <1>1, LeastNat
<1> USE DEF S
<1>3. PICK i \in I : m = n - i
  BY <1>2
<1>4. \A j \in I : i >= j
  <2> SUFFICES ASSUME NEW j \in I PROVE i >= j
    OBVIOUS
  <2>1. n - j \in S
    OBVIOUS
  <2> QED BY <1>2, <1>3, <2>1
<1>5. i \in I /\ \A j \in I : i >= j
  BY <1>3, <1>4
<1> QED BY <1>5 DEF Max

\* The last system message is one.
LEMMA LastSystem ==
  ASSUME NEW s \in Seq(Messages), Len(s) # 0, s[1].role = "system"
  PROVE  LET last == SelectLastInSeq(s, LAMBDA m : m.role = "system")
         IN last \in 1..Len(s) /\ s[last].role = "system"
<1> DEFINE I == {i \in 1..Len(s) : s[i].role = "system"}
<1>1. Len(s) \in Nat /\ 1 \in 1..Len(s)
  OBVIOUS
<1>2. 1 \in I /\ I \subseteq 1..Len(s)
  BY <1>1
<1>3. SelectLastInSeq(s, LAMBDA m : m.role = "system") = IF I # {} THEN Max(I) ELSE 0
  BY DEF SelectLastInSeq
<1> HIDE DEF I
<1>4. Max(I) \in I
  BY <1>1, <1>2, Greatest
<1>5. SelectLastInSeq(s, LAMBDA m : m.role = "system") \in I
  BY <1>2, <1>3, <1>4
<1> QED BY <1>5 DEF I

\* The fields of a turn.
LEMMA TurnFields ==
  ASSUME NEW turn \in Turns
  PROVE  turn.said \in UserText /\ turn.answers \in Seq(Answers) /\ turn.error \in BOOLEAN
  BY Zenon DEF Turns

\* The fields of a session.
LEMMA SessionFields ==
  ASSUME NEW x, IsSession(x)
  PROVE  /\ x.desktop \in BOOLEAN /\ x.turns \in Seq(Turns)
         /\ Len(x.turns) \in Nat \ {0}
         /\ \A t \in 1..Len(x.turns) :
              /\ x.turns[t] \in Turns
              /\ x.turns[t].answers \in Seq(Answers)
              /\ Len(x.turns[t].answers) \in Nat
              /\ \A r \in 1..Len(x.turns[t].answers) :
                   /\ x.turns[t].answers[r] \in Answers
                   /\ x.desktop => x.turns[t].answers[r].ids # "absent"
<1>1. /\ x.desktop \in BOOLEAN /\ x.turns \in Seq(Turns) \ {<<>>}
      /\ x.desktop => \A t \in 1..Len(x.turns) : \A r \in 1..Len(x.turns[t].answers) :
                        x.turns[t].answers[r].ids # "absent"
  BY DEF IsSession
<1>2. Len(x.turns) \in Nat \ {0}
  BY <1>1
<1>3. ASSUME NEW t \in 1..Len(x.turns)
      PROVE  /\ x.turns[t] \in Turns
             /\ x.turns[t].answers \in Seq(Answers)
             /\ Len(x.turns[t].answers) \in Nat
             /\ \A r \in 1..Len(x.turns[t].answers) : x.turns[t].answers[r] \in Answers
  <2>1. x.turns[t] \in Turns
    BY <1>1
  <2>2. x.turns[t].answers \in Seq(Answers)
    BY <2>1, TurnFields
  <2> QED BY <2>1, <2>2
<1> QED BY <1>1, <1>2, <1>3

\* The responses of a turn are what the parser makes of its answers.
LEMMA TurnResponses ==
  ASSUME NEW x, IsSession(x), NEW t \in 1..Len(x.turns)
  PROVE  LET turn == x.turns[t] responses == Responses(x.desktop, turn, t) IN
         /\ Len(responses) = Len(turn.answers) /\ Len(turn.answers) \in Nat
         /\ \A r \in 1..Len(turn.answers) :
              GoodParse(x.desktop, responses[r], turn.answers[r], t, r)
<1> DEFINE turn == x.turns[t] responses == Responses(x.desktop, turn, t)
<1>1. t \in Nat /\ Len(turn.answers) \in Nat /\ x.desktop \in BOOLEAN
  BY SessionFields
<1>2. ASSUME NEW r \in 1..Len(turn.answers)
      PROVE  GoodParse(x.desktop, responses[r], turn.answers[r], t, r)
  <2>1. r \in Nat /\ turn.answers[r] \in Answers /\ (x.desktop => turn.answers[r].ids # "absent")
    BY <1>1, SessionFields
  <2>2. responses[r] = Parse(x.desktop, turn.answers[r], <<t, r>>)
    BY DEF Responses
  <2>3. GoodParse(x.desktop, Parse(x.desktop, turn.answers[r], <<t, r>>), turn.answers[r], t, r)
    BY <1>1, <2>1, Parsed
  <2> QED BY <2>2, <2>3
<1>3. Len(responses) = Len(turn.answers)
  BY <1>1 DEF Responses
<1> QED BY <1>1, <1>2, <1>3

\* What the answers of a turn add, one after the other.
Parts(x, t) ==
  [r \in 1..Len(x.turns[t].answers) |->
    Pushed(Responses(x.desktop, x.turns[t], t)[r], IsReply(x.turns[t], r))]

\* The messages of a turn are what its answers add.
LEMMA TurnParts ==
  ASSUME NEW x, IsSession(x), NEW t \in 1..Len(x.turns)
  PROVE  /\ TurnMessages(x.desktop, x.turns[t], t) = FlattenSeq(Parts(x, t))
         /\ Parts(x, t) \in Seq(Seq(Messages))
         /\ Len(Parts(x, t)) = Len(x.turns[t].answers)
         /\ Len(x.turns[t].answers) \in Nat
         /\ TurnMessages(x.desktop, x.turns[t], t) \in Seq(Messages)
<1> DEFINE turn == x.turns[t] responses == Responses(x.desktop, turn, t)
<1>1. /\ Len(responses) = Len(turn.answers) /\ Len(turn.answers) \in Nat
      /\ \A r \in 1..Len(turn.answers) : responses[r] \in ResponseSet
  BY TurnResponses DEF GoodParse
<1>2. TurnMessages(x.desktop, turn, t) = FlattenSeq(Parts(x, t))
  <2>1. TurnMessages(x.desktop, turn, t)
        = FlattenSeq([r \in 1..Len(responses) |-> Pushed(responses[r], IsReply(turn, r))])
    BY DEF TurnMessages
  <2> QED BY <1>1, <2>1 DEF Parts
<1>3. \A r \in 1..Len(turn.answers) : Pushed(responses[r], IsReply(turn, r)) \in Seq(Messages)
  BY <1>1, PushedMessages
<1>4. Parts(x, t) \in Seq(Seq(Messages)) /\ Len(Parts(x, t)) = Len(turn.answers)
  BY <1>1, <1>3 DEF Parts
<1>5. FlattenSeq(Parts(x, t)) \in Seq(Messages)
  BY <1>4, FlattenType
<1> QED BY <1>1, <1>2, <1>4, <1>5

\* The user's message of a turn, and that of the last request.
Opening(x, t) == Said("user", x.turns[t].said)
LastSaid(x) ==
  Said("user", IF x.turns[Len(x.turns)].error THEN x.turns[Len(x.turns)].said ELSE "hello")

\* What a user says is a unit.
LEMMA SaidByUser ==
  ASSUME NEW text \in UserText
  PROVE  LET m == Said("user", text) IN
         m \in Messages /\ <<m>> \in Units /\ <<m>> \in Built /\ <<m>> \in Seq(Messages)
<1> DEFINE m == Said("user", text)
<1>1. "user" \in {"user", "assistant", "system"} /\ text \in Texts
  BY DEF Texts
<1>2. m \in Messages /\ <<m>> \in Units
  BY <1>1, SaidMessage, SaidUnit
<1> HIDE DEF m
<1>3. <<m>> \in Built /\ <<m>> \in Seq(Messages)
  BY <1>2, BuiltOfUnit, UnitsAreMessages
<1> QED BY <1>2, <1>3 DEF m

\* So are these.
LEMMA HelloUnit ==
  ASSUME NEW x, IsSession(x)
  PROVE  /\ \A t \in 1..Len(x.turns) :
              /\ x.turns[t].said \in UserText /\ Opening(x, t) \in Messages
              /\ <<Opening(x, t)>> \in Built /\ <<Opening(x, t)>> \in Seq(Messages)
         /\ <<LastSaid(x)>> \in Built /\ <<LastSaid(x)>> \in Seq(Messages)
<1>1. ASSUME NEW t \in 1..Len(x.turns) PROVE x.turns[t].said \in UserText
  BY SessionFields, TurnFields
<1>2. Len(x.turns) \in 1..Len(x.turns)
  BY SessionFields
<1>3. "hello" \in UserText
  BY DEF UserText
<1>4. (IF x.turns[Len(x.turns)].error THEN x.turns[Len(x.turns)].said ELSE "hello") \in UserText
  BY <1>1, <1>2, <1>3, Zenon
<1>5. <<LastSaid(x)>> \in Built /\ <<LastSaid(x)>> \in Seq(Messages)
  BY <1>4, SaidByUser DEF LastSaid
<1> QED BY <1>1, <1>5, SaidByUser DEF Opening

SystemPrompt == Said("system", "prompt")
\* So is the system prompt.
LEMMA SystemUnit == SystemPrompt \in Messages /\ SystemPrompt.role = "system"
                    /\ <<SystemPrompt>> \in Built /\ <<SystemPrompt>> \in Seq(Messages)
<1>1. "system" \in {"user", "assistant", "system"} /\ "prompt" \in Texts
  BY DEF Texts
<1>2. SystemPrompt \in Messages /\ <<SystemPrompt>> \in Units /\ SystemPrompt.role = "system"
  BY <1>1, SaidMessage, SaidUnit DEF SystemPrompt
<1> QED BY <1>2, BuiltOfUnit, UnitsAreMessages

NothingBuilt == <<>> \in Built /\ <<>> \in Seq(Messages)
\* Nothing is made of no units.
LEMMA NothingIsBuilt == NothingBuilt
<1>1. <<>> \in Units /\ <<>> \in Seq(Messages)
  BY DEF Units
<1> QED BY <1>1, BuiltOfUnit DEF NothingBuilt

\* What is stored of a turn: the user's message, and the rest if there was no
\* error.
LEMMA TurnStoredParts ==
  ASSUME NEW x, IsSession(x), NEW t \in 1..Len(x.turns)
  PROVE  /\ TurnStored(x.desktop, x.turns[t], t)
              = <<Opening(x, t)>> \o (IF x.turns[t].error THEN <<>>
                                      ELSE Mapped(TurnMessages(x.desktop, x.turns[t], t), StoredMap))
         /\ TurnStored(x.desktop, x.turns[t], t) \in Seq(Messages)
<1> DEFINE messages == TurnMessages(x.desktop, x.turns[t], t)
           rest == IF x.turns[t].error THEN <<>> ELSE Mapped(messages, StoredMap)
<1>1. messages \in Seq(Messages)
  BY TurnParts
<1>2. TurnStored(x.desktop, x.turns[t], t)
        = <<Opening(x, t)>> \o (IF x.turns[t].error THEN <<>> ELSE Stored(messages))
  BY DEF TurnStored, Opening
<1> HIDE DEF messages
<1>3. Stored(messages) = Mapped(messages, StoredMap) /\ Mapped(messages, StoredMap) \in Seq(Messages)
  BY <1>1, StoredIsMapped, StoredMapType, MappedType
<1>4. rest \in Seq(Messages)
  BY <1>3
<1>5. <<Opening(x, t)>> \o rest \in Seq(Messages)
  <2> DEFINE opening == <<Opening(x, t)>>
  <2>1. opening \in Seq(Messages)
    BY HelloUnit
  <2> HIDE DEF rest, opening
  <2>2. opening \o rest \in Seq(Messages)
    BY <1>4, <2>1
  <2> QED BY <2>2 DEF opening
<1> QED BY <1>2, <1>3, <1>5 DEF messages

\* What is stored of the first turns is messages.
LEMMA SessionStoredType ==
  ASSUME NEW x, IsSession(x), NEW n \in 0..Len(x.turns)
  PROVE  /\ [t \in 1..n |-> TurnStored(x.desktop, x.turns[t], t)] \in Seq(Seq(Messages))
         /\ SessionStored(x, n) \in Seq(Messages)
<1>1. \A t \in 1..n : t \in 1..Len(x.turns)
  BY SessionFields
<1>2. \A t \in 1..n : TurnStored(x.desktop, x.turns[t], t) \in Seq(Messages)
  BY <1>1, TurnStoredParts
<1>3. n \in Nat
  BY SessionFields
<1>4. [t \in 1..n |-> TurnStored(x.desktop, x.turns[t], t)] \in Seq(Seq(Messages))
  BY <1>2, <1>3
<1> QED BY <1>4, FlattenType DEF SessionStored

-----------------------------------------------------------------------------

\* The messages of a turn are made of units, and so is what is stored of them.
LEMMA TurnBuilt ==
  ASSUME NEW x, IsSession(x), IdsGiven(x), NEW t \in 1..Len(x.turns)
  PROVE  /\ TurnMessages(x.desktop, x.turns[t], t) \in Built
         /\ TurnStored(x.desktop, x.turns[t], t) \in Built
<1> DEFINE turn == x.turns[t] responses == Responses(x.desktop, turn, t)
           messages == TurnMessages(x.desktop, turn, t)
<1>1. ASSUME NEW r \in 1..Len(turn.answers)
      PROVE  Pushed(responses[r], IsReply(turn, r)) \in Built
  <2>1. GoodParse(x.desktop, responses[r], turn.answers[r], t, r)
    BY TurnResponses
  <2>2. turn.answers[r].ids = "given"
    BY DEF IdsGiven
  <2> HIDE DEF turn, responses
  <2>3. responses[r] \in ResponseSet /\ SameIds(responses[r]) /\ Distinct(responses[r].calls)
    BY <2>1, <2>2 DEF GoodParse
  <2> QED BY <2>3, PushedBuilt
<1>2. Len(turn.answers) \in Nat
  BY TurnParts
<1>3. Parts(x, t) \in Seq(Built)
  BY <1>1, <1>2 DEF Parts
<1>4. messages \in Built
  BY <1>3, TurnParts, BuiltFlatten
<1> HIDE DEF messages
<1>5. Mapped(messages, StoredMap) \in Built
  BY <1>4, BuiltMapped, StoredMapType, UnitStored
<1> DEFINE rest == IF turn.error THEN <<>> ELSE Mapped(messages, StoredMap)
<1>6. rest \in Built
  BY <1>5, NothingIsBuilt DEF NothingBuilt
<1>7. TurnStored(x.desktop, turn, t) = <<Opening(x, t)>> \o rest
  BY TurnStoredParts DEF messages
<1> HIDE DEF rest, turn
<1>8. <<Opening(x, t)>> \o rest \in Built
  BY <1>6, BuiltConcat, HelloUnit
<1> QED BY <1>4, <1>7, <1>8 DEF messages, turn

\* The parts of the last request.
LEMMA PromptParts ==
  ASSUME NEW x, IsSession(x)
  PROVE  LET n == Len(x.turns)
             failed == x.turns[n].error
         IN Prompt(x) = ((<<SystemPrompt>> \o SessionStored(x, IF failed THEN n - 1 ELSE n)) \o <<LastSaid(x)>>)
                          \o (IF failed THEN TurnMessages(x.desktop, x.turns[n], n) ELSE <<>>)
  BY DEF Prompt, SystemPrompt, LastSaid

\* It is messages, the system prompt first.
LEMMA PromptMessages ==
  ASSUME NEW x, IsSession(x)
  PROVE  Prompt(x) \in Seq(Messages) /\ Len(Prompt(x)) # 0 /\ Prompt(x)[1].role = "system"
<1> DEFINE n == Len(x.turns) failed == x.turns[n].error
           stored == SessionStored(x, IF failed THEN n - 1 ELSE n)
           rest == IF failed THEN TurnMessages(x.desktop, x.turns[n], n) ELSE <<>>
           head == <<SystemPrompt>>
           hello == <<LastSaid(x)>>
<1>1. n \in Nat \ {0}
  BY SessionFields
<1>2. n \in 1..Len(x.turns) /\ (IF failed THEN n - 1 ELSE n) \in 0..Len(x.turns)
  BY <1>1
<1>3. stored \in Seq(Messages)
  BY <1>2, SessionStoredType
<1>4. rest \in Seq(Messages)
  BY <1>2, TurnParts, NothingIsBuilt DEF NothingBuilt
<1>5. Prompt(x) = ((head \o stored) \o hello) \o rest
  BY PromptParts
<1>6. head \in Seq(Messages) /\ Len(head) = 1 /\ head[1] = SystemPrompt /\ hello \in Seq(Messages)
  BY SystemUnit, HelloUnit
<1>7. SystemPrompt.role = "system" /\ SystemPrompt \in Messages
  BY SystemUnit
<1> HIDE DEF stored, rest, hello, n, failed
<1>8. head \o stored \in Seq(Messages) /\ (head \o stored)[1] = SystemPrompt /\ Len(head \o stored) = Len(stored) + 1
  BY <1>3, <1>7, Headed
<1> HIDE DEF head
<1> DEFINE a == head \o stored b == a \o hello c == b \o rest
<1>9. a \in Seq(Messages) /\ Len(a) \in Nat /\ Len(a) > 0 /\ a[1] = SystemPrompt
  BY <1>3, <1>8
<1> HIDE DEF a
<1>10. b \in Seq(Messages) /\ Len(b) \in Nat /\ Len(b) > 0 /\ b[1] = a[1]
  BY <1>6, <1>9
<1> HIDE DEF b
<1>11. c \in Seq(Messages) /\ Len(c) > 0 /\ c[1] = b[1]
  BY <1>4, <1>10
<1>12. Prompt(x) = c
  BY <1>5 DEF a, b
<1> HIDE DEF c
<1> QED BY <1>7, <1>9, <1>10, <1>11, <1>12

\* It is made of units.
LEMMA PromptBuilt ==
  ASSUME NEW x, IsSession(x), IdsGiven(x)
  PROVE  Prompt(x) \in Built
<1> DEFINE n == Len(x.turns) failed == x.turns[n].error
           m == IF failed THEN n - 1 ELSE n
           stored == SessionStored(x, m)
           rest == IF failed THEN TurnMessages(x.desktop, x.turns[n], n) ELSE <<>>
<1>1. n \in Nat \ {0}
  BY SessionFields
<1>2. n \in 1..Len(x.turns) /\ m \in Nat /\ m <= n
  BY <1>1
<1>3. stored \in Built
  <2>1. \A t \in 1..m : t \in 1..Len(x.turns)
    BY <1>1, <1>2
  <2>2. \A t \in 1..m : TurnStored(x.desktop, x.turns[t], t) \in Built
    BY <2>1, TurnBuilt
  <2> HIDE DEF m
  <2>3. [t \in 1..m |-> TurnStored(x.desktop, x.turns[t], t)] \in Seq(Built)
    BY <1>2, <2>2
  <2> QED BY <2>3, BuiltFlatten DEF SessionStored
<1>4. rest \in Built
  BY <1>2, TurnBuilt, NothingIsBuilt DEF NothingBuilt
<1>5. Prompt(x) = ((<<SystemPrompt>> \o stored) \o <<LastSaid(x)>>) \o rest
  BY PromptParts
<1> HIDE DEF stored, rest
<1>6. <<SystemPrompt>> \o stored \in Built
  BY <1>3, SystemUnit, BuiltConcat
<1>7. (<<SystemPrompt>> \o stored) \o <<LastSaid(x)>> \in Built
  BY <1>6, HelloUnit, BuiltConcat
<1>8. ((<<SystemPrompt>> \o stored) \o <<LastSaid(x)>>) \o rest \in Built
  BY <1>4, <1>7, BuiltConcat
<1> QED BY <1>5, <1>8

\* What the program sends of it.
LEMMA PayloadParts ==
  ASSUME NEW x, IsSession(x)
  PROVE  \E m \in Messages :
           /\ m.role = "system"
           /\ Payload(x.desktop, Prompt(x)) =
                IF x.desktop THEN <<m>> \o Mapped(Prompt(x), SentMap) ELSE Prompt(x)
<1> DEFINE s == Prompt(x)
           last == SelectLastInSeq(s, LAMBDA m : m.role = "system")
           sent == FlattenSeq([k \in 1..Len(s) |-> IF s[k].role = "system" THEN <<>> ELSE <<Sent(s[k])>>])
<1>1. s \in Seq(Messages) /\ Len(s) # 0 /\ s[1].role = "system"
  BY PromptMessages
<1>2. Payload(x.desktop, s) = IF x.desktop THEN <<s[last]>> \o sent ELSE s
  BY DEF Payload
<1> HIDE DEF s
<1>3. last \in 1..Len(s) /\ s[last].role = "system"
  BY <1>1, LastSystem
<1>4. sent = Mapped(s, SentMap)
  BY <1>1, SentIsMapped
<1> HIDE DEF last, sent
<1>5. s[last] \in Messages
  BY <1>1, <1>3
<1> QED BY <1>2, <1>3, <1>4, <1>5 DEF s

\* The last request of a session is paired, if the provider gives ids.
LEMMA SessionPaired ==
  ASSUME NEW x, IsSession(x), IdsGiven(x)
  PROVE  Paired(ConvertSession(x).request)
<1>1. PICK m \in Messages :
        /\ m.role = "system"
        /\ Payload(x.desktop, Prompt(x)) =
             IF x.desktop THEN <<m>> \o Mapped(Prompt(x), SentMap) ELSE Prompt(x)
  BY PayloadParts
<1>2. Prompt(x) \in Built
  BY PromptBuilt
<1>3. Mapped(Prompt(x), SentMap) \in Built
  BY <1>2, BuiltMapped, SentMapType, UnitSent
<1>4. <<m>> \in Built
  <2> DEFINE u == <<m>>
  <2>1. u \in Seq(Messages) /\ Len(u) = 1 /\ u[1] = m
    OBVIOUS
  <2>2. m.calls = <<>> /\ m.raw = <<>>
    BY <1>1, MessageFields
  <2> HIDE DEF u
  <2>3. IsAlone(u)
    BY <1>1, <2>1, <2>2 DEF IsAlone
  <2>4. u \in Units
    BY <2>1, <2>3 DEF Units
  <2> QED BY <2>4, BuiltOfUnit DEF u
<1>5. <<m>> \o Mapped(Prompt(x), SentMap) \in Built
  BY <1>3, <1>4, BuiltConcat
<1>6. Payload(x.desktop, Prompt(x)) \in Built
  BY <1>1, <1>2, <1>5
<1>7. ConvertSession(x).request = Payload(x.desktop, Prompt(x))
  BY DEF ConvertSession
<1> QED BY <1>6, <1>7, BuiltPaired

-----------------------------------------------------------------------------
(* The signatures of a request.                                            *)

\* MappedFlatten for all sequences at once.
LEMMA FlattenMapped ==
  ASSUME NEW B, NEW C, NEW V \in [B -> Seq(C)]
  PROVE  \A tt \in Seq(Seq(B)) :
           Mapped(FlattenSeq(tt), V) = FlattenSeq([k \in 1..Len(tt) |-> Mapped(tt[k], V)])
  BY MappedFlatten

\* One map after the other.
IsMap(G, A, B) == G \in [A -> Seq(B)]
Through(A, G, V, H) == \A a \in A : Mapped(G[a], V) = H[a]

\* Two maps, one after the other, are the map of both.
LEMMA MapThen ==
  ASSUME NEW A, NEW B, NEW C, NEW s \in Seq(A), NEW G, NEW V, NEW H,
         IsMap(G, A, B), IsMap(V, B, C), Through(A, G, V, H)
  PROVE  Mapped(Mapped(s, G), V) = Mapped(s, H)
<1>0. G \in [A -> Seq(B)] /\ V \in [B -> Seq(C)]
  BY DEF IsMap
<1> DEFINE ss == [k \in 1..Len(s) |-> G[s[k]]]
<1>1. ss \in Seq(Seq(B))
  BY <1>0, MappedParts
<1>2. Mapped(s, G) = FlattenSeq(ss)
  BY DEF Mapped
<1>3. Mapped(FlattenSeq(ss), V) = FlattenSeq([k \in 1..Len(ss) |-> Mapped(ss[k], V)])
  <2>1. \A tt \in Seq(Seq(B)) :
          Mapped(FlattenSeq(tt), V) = FlattenSeq([k \in 1..Len(tt) |-> Mapped(tt[k], V)])
    BY <1>0, FlattenMapped
  <2> HIDE DEF ss
  <2> QED BY <1>1, <2>1
<1>4. [k \in 1..Len(ss) |-> Mapped(ss[k], V)] = [k \in 1..Len(s) |-> H[s[k]]]
  <2>1. Len(ss) = Len(s) /\ \A k \in 1..Len(s) : ss[k] = G[s[k]] /\ s[k] \in A
    OBVIOUS
  <2> HIDE DEF ss
  <2>2. \A k \in 1..Len(s) : Mapped(ss[k], V) = H[s[k]]
    BY <2>1 DEF Through
  <2> QED BY <2>1, <2>2
<1>5. Mapped(s, H) = FlattenSeq([k \in 1..Len(s) |-> H[s[k]]])
  BY DEF Mapped
<1> HIDE DEF ss
<1> QED BY <1>2, <1>3, <1>4, <1>5

\* Nothing, if each member gives nothing.
LEMMA MappedNothing ==
  ASSUME NEW S, NEW s \in Seq(S), NEW V, \A k \in 1..Len(s) : V[s[k]] = <<>>
  PROVE  Mapped(s, V) = <<>>
<1>1. [k \in 1..Len(s) |-> V[s[k]]] = [k \in 1..Len(s) |-> <<>>]
  OBVIOUS
<1>2. Len(s) \in Nat
  OBVIOUS
<1> QED BY <1>1, <1>2, FlattenNothing DEF Mapped

\* The signatures that go back with a message, once it is sent by the desktop.
GoingMap == [m \in Messages |-> SignaturesOf(IF m.raw # <<>> THEN m.raw ELSE m.calls)]
SentSignatures(desktop) == IF desktop THEN GoingMap ELSE SignaturesMap

\* What goes back with a message is a sequence of signatures.
LEMMA GoingMapType == GoingMap \in [Messages -> Seq(Seq(Nat))]
<1>1. ASSUME NEW m \in Messages
      PROVE  SignaturesOf(IF m.raw # <<>> THEN m.raw ELSE m.calls) \in Seq(Seq(Nat))
  <2>1. (IF m.raw # <<>> THEN m.raw ELSE m.calls) \in Seq(Calls)
    BY MessageFields
  <2> QED BY <2>1, SignaturesOfType
<1> QED BY <1>1 DEF GoingMap

\* A map to the signatures of what a message has: none, where it has no calls.
Signing(V) ==
  /\ V \in [Messages -> Seq(Seq(Nat))]
  /\ \A m \in Messages : m.calls = <<>> /\ m.raw = <<>> => V[m] = <<>>

\* The signatures of a message are such a map.
LEMMA SignaturesSign == Signing(SignaturesMap)
<1>1. ASSUME NEW m \in Messages, m.calls = <<>> PROVE SignaturesMap[m] = <<>>
  <2>1. SignaturesMap[m] = SignaturesOf(m.calls)
    BY DEF SignaturesMap
  <2> QED BY <1>1, <2>1, NoCallsNoSignatures
<1> QED BY <1>1, SignaturesMapType DEF Signing

\* So are those that go back with it.
LEMMA GoingSign == Signing(GoingMap)
<1>1. ASSUME NEW m \in Messages, m.calls = <<>>, m.raw = <<>> PROVE GoingMap[m] = <<>>
  <2>1. GoingMap[m] = SignaturesOf(m.calls)
    BY <1>1 DEF GoingMap
  <2> QED BY <1>1, <2>1, NoCallsNoSignatures
<1> QED BY <1>1, GoingMapType DEF Signing

\* Such a map takes a concatenation to a concatenation.
LEMMA SigningConcat ==
  ASSUME NEW V, Signing(V), NEW s \in Seq(Messages), NEW u \in Seq(Messages)
  PROVE  Mapped(s \o u, V) = Mapped(s, V) \o Mapped(u, V) /\ Mapped(s, V) \in Seq(Seq(Nat))
<1>1. V \in [Messages -> Seq(Seq(Nat))]
  BY DEF Signing
<1> QED BY <1>1, MappedConcat, MappedType

\* A message without calls gives no signature.
LEMMA SigningAlone ==
  ASSUME NEW V, Signing(V), NEW m \in Messages, m.calls = <<>>, m.raw = <<>>
  PROVE  Mapped(<<m>>, V) = <<>>
<1>1. V \in [Messages -> Seq(Seq(Nat))] /\ V[m] = <<>>
  BY DEF Signing
<1> QED BY <1>1, MappedOne

\* Nor does a message that was said.
LEMMA SigningSaid ==
  ASSUME NEW V, Signing(V), NEW role \in {"user", "assistant", "system"}, NEW text \in Texts
  PROVE  Mapped(<<Said(role, text)>>, V) = <<>>
  BY SaidMessage, SigningAlone

\* Of what an answer adds, the assistant's message alone gives signatures.
LEMMA SigningPushed ==
  ASSUME NEW V, Signing(V), NEW response \in ResponseSet, NEW last
  PROVE  Mapped(Pushed(response, last), V)
           = IF response.calls # <<>> THEN V[Asking(response)] ELSE <<>>
<1> DEFINE a == Asking(response) results == Results(response) warnings == Warnings(response.calls)
           head == <<a>> said == <<Said("assistant", response.text)>> reminder == <<Said("system", "reminder")>>
<1>0. V \in [Messages -> Seq(Seq(Nat))]
  BY DEF Signing
<1>1. a \in Messages
  BY AskingMessage
<1>2. results \in Seq(Messages) /\ \A k \in 1..Len(results) : results[k] \in Messages /\ results[k].role = "tool"
  BY ResultMessages
<1>3. warnings \in Seq(Messages)
  BY WarningsUnit, UnitsAreMessages
<1>4. "assistant" \in {"user", "assistant", "system"} /\ "system" \in {"user", "assistant", "system"}
      /\ "warning" \in Texts /\ "reminder" \in Texts
  BY DEF Texts
<1>5. response.text \in Texts
  BY ResponseFields
<1>6. said \in Seq(Messages) /\ reminder \in Seq(Messages)
  BY <1>4, <1>5, SaidMessage
<1>7. Mapped(said, V) = <<>> /\ Mapped(reminder, V) = <<>>
  BY <1>4, <1>5, SigningSaid
<1>8. Mapped(warnings, V) = <<>>
  BY <1>4, WarningsUnit, SigningSaid, MappedEmpty
<1>9. head \in Seq(Messages) /\ Mapped(head, V) = V[a]
  BY <1>0, <1>1, MappedOne
<1>10. Pushed(response, last) = IF response.calls # <<>> THEN (head \o results) \o warnings
                                ELSE IF last THEN said ELSE said \o reminder
  BY PushedParts
<1> HIDE DEF results, warnings, said, reminder, a
<1>11. Mapped(results, V) = <<>>
  <2>1. \A k \in 1..Len(results) : results[k].calls = <<>> /\ results[k].raw = <<>>
    BY <1>2, MessageFields
  <2>2. \A k \in 1..Len(results) : V[results[k]] = <<>>
    BY <1>2, <2>1 DEF Signing
  <2> QED BY <1>2, <2>2, MappedNothing
<1> HIDE DEF head
<1>12. Mapped((head \o results) \o warnings, V) = V[a]
  <2>1. head \o results \in Seq(Messages)
    BY <1>2, <1>9
  <2>2. Mapped((head \o results) \o warnings, V) = Mapped(head \o results, V) \o Mapped(warnings, V)
    BY <1>3, <2>1, SigningConcat
  <2>3. Mapped(head \o results, V) = Mapped(head, V) \o Mapped(results, V)
    BY <1>2, <1>9, SigningConcat
  <2>4. V[a] \in Seq(Seq(Nat))
    BY <1>0, <1>1
  <2> QED BY <1>8, <1>9, <1>11, <2>2, <2>3, <2>4
<1>13. Mapped(said \o reminder, V) = <<>>
  <2>1. Mapped(said \o reminder, V) = Mapped(said, V) \o Mapped(reminder, V)
    BY <1>6, SigningConcat
  <2> QED BY <1>7, <2>1
<1> QED BY <1>7, <1>10, <1>12, <1>13 DEF a

\* What a turn sends back of its signatures, when V gives those of each answer.
LEMMA SigningTurn ==
  ASSUME NEW V, Signing(V), NEW x, IsSession(x), NEW t \in 1..Len(x.turns), NEW J,
         \A r \in 1..Len(x.turns[t].answers) :
           LET response == Responses(x.desktop, x.turns[t], t)[r]
           IN J[r] = IF response.calls # <<>> THEN V[Asking(response)] ELSE <<>>
  PROVE  Mapped(TurnMessages(x.desktop, x.turns[t], t), V)
           = FlattenSeq([r \in 1..Len(x.turns[t].answers) |-> J[r]])
<1> DEFINE turn == x.turns[t] responses == Responses(x.desktop, turn, t) parts == Parts(x, t)
<1>0. V \in [Messages -> Seq(Seq(Nat))]
  BY DEF Signing
<1>1. /\ TurnMessages(x.desktop, turn, t) = FlattenSeq(parts)
      /\ parts \in Seq(Seq(Messages)) /\ Len(parts) = Len(turn.answers)
  BY TurnParts
<1>2. \A r \in 1..Len(turn.answers) : responses[r] \in ResponseSet
  BY TurnResponses DEF GoodParse
<1>3. \A r \in 1..Len(turn.answers) : parts[r] = Pushed(responses[r], IsReply(turn, r))
  BY DEF Parts
<1> HIDE DEF parts
<1>4. ASSUME NEW r \in 1..Len(turn.answers) PROVE Mapped(parts[r], V) = J[r]
  <2>1. Mapped(Pushed(responses[r], IsReply(turn, r)), V)
          = IF responses[r].calls # <<>> THEN V[Asking(responses[r])] ELSE <<>>
    BY <1>2, SigningPushed
  <2> QED BY <1>3, <2>1
<1>5. Mapped(FlattenSeq(parts), V) = FlattenSeq([r \in 1..Len(parts) |-> Mapped(parts[r], V)])
  <2>1. \A tt \in Seq(Seq(Messages)) :
          Mapped(FlattenSeq(tt), V) = FlattenSeq([r \in 1..Len(tt) |-> Mapped(tt[r], V)])
    BY <1>0, MappedFlatten
  <2> QED BY <1>1, <2>1
<1> HIDE DEF turn, responses
<1>6. [r \in 1..Len(parts) |-> Mapped(parts[r], V)] = [r \in 1..Len(turn.answers) |-> J[r]]
  BY <1>1, <1>4
<1> QED BY <1>1, <1>5, <1>6 DEF turn

\* The signatures that a turn's messages have, and those that are sent.
LEMMA TurnSigns ==
  ASSUME NEW x, IsSession(x), NEW t \in 1..Len(x.turns)
  PROVE  /\ Mapped(TurnMessages(x.desktop, x.turns[t], t), SignaturesMap)
              = IF x.desktop THEN <<>> ELSE SignedTurn(x.turns[t], t)
         /\ Mapped(TurnMessages(x.desktop, x.turns[t], t), SentSignatures(x.desktop))
              = SignedTurn(x.turns[t], t)
<1> DEFINE turn == x.turns[t] responses == Responses(x.desktop, turn, t)
           signed == [r \in 1..Len(turn.answers) |-> SignedCalls(turn.answers[r], t, r)]
           none == [r \in 1..Len(turn.answers) |-> <<>>]
           messages == TurnMessages(x.desktop, turn, t)
<1>0. Len(turn.answers) \in Nat /\ x.desktop \in BOOLEAN
  BY SessionFields
<1>1. ASSUME NEW r \in 1..Len(turn.answers), NEW V \in {SignaturesMap, GoingMap},
             x.desktop => V = GoingMap, ~x.desktop => V = SignaturesMap
      PROVE  SignedCalls(turn.answers[r], t, r)
               = IF responses[r].calls # <<>> THEN V[Asking(responses[r])] ELSE <<>>
  <2> DEFINE response == responses[r] a == Asking(response)
  <2>1. GoodParse(x.desktop, response, turn.answers[r], t, r)
    BY TurnResponses
  <2> HIDE DEF response
  <2>2. response \in ResponseSet
    BY <2>1 DEF GoodParse
  <2>3. a \in Messages /\ a.calls = response.calls /\ a.raw = response.raw
    BY <2>2, AskingMessage
  <2> HIDE DEF a
  <2>4. SignaturesOf(<<>>) = <<>>
    BY NoCallsNoSignatures
  <2>5. CASE x.desktop
    <3>1. GoingMap[a] = SignaturesOf(IF response.raw # <<>> THEN response.raw ELSE response.calls)
      BY <2>3 DEF GoingMap
    <3>2. /\ response.calls = <<>> => response.raw = <<>>
          /\ SignaturesOf(response.calls) = <<>>
          /\ SignaturesOf(response.raw) = SignedCalls(turn.answers[r], t, r)
      BY <2>1, <2>5 DEF GoodParse
    <3> QED BY <1>1, <2>4, <2>5, <3>1, <3>2 DEF response, a
  <2>6. CASE ~x.desktop
    <3>1. SignaturesMap[a] = SignaturesOf(response.calls)
      BY <2>3 DEF SignaturesMap
    <3>2. SignaturesOf(response.calls) = SignedCalls(turn.answers[r], t, r)
      BY <2>1, <2>6 DEF GoodParse
    <3> QED BY <1>1, <2>4, <2>6, <3>1, <3>2 DEF response, a
  <2> QED BY <2>5, <2>6
<1>2. ASSUME x.desktop, NEW r \in 1..Len(turn.answers)
      PROVE  <<>> = IF responses[r].calls # <<>> THEN SignaturesMap[Asking(responses[r])] ELSE <<>>
  <2> DEFINE response == responses[r] a == Asking(response)
  <2>1. GoodParse(x.desktop, response, turn.answers[r], t, r)
    BY TurnResponses
  <2> HIDE DEF response
  <2>2. response \in ResponseSet /\ SignaturesOf(response.calls) = <<>>
    BY <1>2, <2>1 DEF GoodParse
  <2>3. a \in Messages /\ a.calls = response.calls
    BY <2>2, AskingMessage
  <2> HIDE DEF a
  <2>4. SignaturesMap[a] = <<>>
    BY <2>2, <2>3 DEF SignaturesMap
  <2> QED BY <2>4 DEF response, a
<1>3. SignedTurn(turn, t) = FlattenSeq([r \in 1..Len(turn.answers) |-> signed[r]])
  <2>1. [r \in 1..Len(turn.answers) |-> signed[r]] = signed
    OBVIOUS
  <2> QED BY <2>1, Zenon DEF SignedTurn
<1>4. \A r \in 1..Len(turn.answers) : signed[r] = SignedCalls(turn.answers[r], t, r) /\ none[r] = <<>>
  OBVIOUS
<1>5. FlattenSeq([r \in 1..Len(turn.answers) |-> none[r]]) = <<>>
  <2>1. [r \in 1..Len(turn.answers) |-> none[r]] = [r \in 1..Len(turn.answers) |-> <<>>]
    OBVIOUS
  <2> QED BY <1>0, <2>1, FlattenNothing
<1> HIDE DEF turn, responses, signed, none
<1>6. ASSUME NEW V \in {SignaturesMap, GoingMap},
             x.desktop => V = GoingMap, ~x.desktop => V = SignaturesMap
      PROVE  Mapped(messages, V) = SignedTurn(turn, t)
  <2>1. Signing(V)
    BY SignaturesSign, GoingSign
  <2>2. \A r \in 1..Len(turn.answers) :
          signed[r] = IF responses[r].calls # <<>> THEN V[Asking(responses[r])] ELSE <<>>
    BY <1>1, <1>4, <1>6
  <2>3. \A r \in 1..Len(x.turns[t].answers) :
          LET response == Responses(x.desktop, x.turns[t], t)[r]
          IN signed[r] = IF response.calls # <<>> THEN V[Asking(response)] ELSE <<>>
    BY <2>2 DEF turn, responses
  <2>4. Mapped(TurnMessages(x.desktop, x.turns[t], t), V)
          = FlattenSeq([r \in 1..Len(x.turns[t].answers) |-> signed[r]])
    BY <2>1, <2>3, SigningTurn
  <2> QED BY <1>3, <2>4 DEF turn
<1>7. ASSUME x.desktop PROVE Mapped(messages, SignaturesMap) = <<>>
  <2>2. \A r \in 1..Len(turn.answers) :
          none[r] = IF responses[r].calls # <<>> THEN SignaturesMap[Asking(responses[r])] ELSE <<>>
    BY <1>2, <1>4, <1>7
  <2>3. \A r \in 1..Len(x.turns[t].answers) :
          LET response == Responses(x.desktop, x.turns[t], t)[r]
          IN none[r] = IF response.calls # <<>> THEN SignaturesMap[Asking(response)] ELSE <<>>
    BY <2>2 DEF turn, responses
  <2>4. Mapped(TurnMessages(x.desktop, x.turns[t], t), SignaturesMap)
          = FlattenSeq([r \in 1..Len(x.turns[t].answers) |-> none[r]])
    BY <2>3, SignaturesSign, SigningTurn
  <2> QED BY <1>5, <2>4 DEF turn
<1>8. Mapped(messages, SentSignatures(x.desktop)) = SignedTurn(turn, t)
  BY <1>0, <1>6 DEF SentSignatures
<1>9. ~x.desktop => Mapped(messages, SignaturesMap) = SignedTurn(turn, t)
  BY <1>6
<1> QED BY <1>0, <1>7, <1>8, <1>9 DEF turn

\* Either program's map is such a map.
LEMMA SentSigning ==
  ASSUME NEW desktop \in BOOLEAN
  PROVE  Signing(SentSignatures(desktop))
  BY SignaturesSign, GoingSign DEF SentSignatures

\* What was stored has the signatures that were kept with the calls alone.
LEMMA StoredSigns ==
  ASSUME NEW desktop \in BOOLEAN, NEW s \in Seq(Messages)
  PROVE  Mapped(Mapped(s, StoredMap), SentSignatures(desktop)) = Mapped(s, SignaturesMap)
<1> DEFINE V == SentSignatures(desktop)
<1>1. Signing(V) /\ V \in [Messages -> Seq(Seq(Nat))]
  BY SentSigning DEF Signing
<1>2. V = GoingMap \/ V = SignaturesMap
  BY DEF SentSignatures
<1> HIDE DEF V
<1>3. ASSUME NEW m \in Messages PROVE Mapped(StoredMap[m], V) = SignaturesMap[m]
  <2>0. StoredMap[m] = IF m.role = "system" THEN <<>> ELSE <<Filed(m)>>
    BY DEF StoredMap
  <2>1. CASE m.role = "system"
    <3>1. m.calls = <<>> /\ m.raw = <<>>
      BY <2>1, MessageFields
    <3>2. SignaturesMap[m] = <<>>
      BY <3>1, SignaturesSign DEF Signing
    <3> QED BY <2>0, <2>1, <3>2, MappedEmpty
  <2>2. CASE m.role # "system"
    <3> DEFINE f == Filed(m)
    <3>1. f \in Messages /\ f.calls = m.calls /\ f.raw = <<>>
      BY FiledMessage
    <3> HIDE DEF f
    <3>2. V[f] = SignaturesOf(m.calls)
      BY <1>2, <3>1 DEF GoingMap, SignaturesMap
    <3>3. SignaturesMap[m] = SignaturesOf(m.calls)
      BY DEF SignaturesMap
    <3>4. Mapped(<<f>>, V) = V[f]
      BY <1>1, <3>1, MappedOne
    <3> QED BY <2>0, <2>2, <3>2, <3>3, <3>4 DEF f
  <2> QED BY <2>1, <2>2
<1>4. Through(Messages, StoredMap, V, SignaturesMap)
  BY <1>3 DEF Through
<1>5. Mapped(Mapped(s, StoredMap), V) = Mapped(s, SignaturesMap)
  <2>1. IsMap(StoredMap, Messages, Messages) /\ IsMap(V, Messages, Seq(Nat))
    BY <1>1, StoredMapType DEF IsMap
  <2> QED BY <1>4, <2>1, MapThen
<1> QED BY <1>5 DEF V

\* The signatures that go back of what was stored of a turn.
LEMMA TurnStoredSigns ==
  ASSUME NEW x, IsSession(x), NEW t \in 1..Len(x.turns)
  PROVE  Mapped(TurnStored(x.desktop, x.turns[t], t), SentSignatures(x.desktop))
           = IF x.turns[t].error \/ x.desktop THEN <<>> ELSE SignedTurn(x.turns[t], t)
<1> DEFINE turn == x.turns[t] messages == TurnMessages(x.desktop, turn, t)
           V == SentSignatures(x.desktop)
           rest == IF turn.error THEN <<>> ELSE Mapped(messages, StoredMap)
           hello == <<Opening(x, t)>>
<1>0. x.desktop \in BOOLEAN
  BY SessionFields
<1>1. Signing(V)
  BY <1>0, SentSigning
<1>2. messages \in Seq(Messages)
  BY TurnParts
<1>3. Mapped(messages, SignaturesMap) = IF x.desktop THEN <<>> ELSE SignedTurn(turn, t)
  BY TurnSigns
<1>4. TurnStored(x.desktop, turn, t) = hello \o rest
  BY TurnStoredParts
<1> HIDE DEF messages
<1>5. Mapped(Mapped(messages, StoredMap), V) = Mapped(messages, SignaturesMap)
  BY <1>0, <1>2, StoredSigns
<1>6. hello \in Seq(Messages)
  BY HelloUnit
<1>7. Mapped(hello, V) = <<>>
  <2>1. "user" \in {"user", "assistant", "system"} /\ turn.said \in Texts
    BY HelloUnit DEF Texts
  <2> HIDE DEF V
  <2> QED BY <1>1, <2>1, SigningSaid DEF Opening
<1>8. rest \in Seq(Messages)
  BY <1>2, StoredMapType, MappedType, NothingIsBuilt DEF NothingBuilt
<1>9. Mapped(rest, V) = IF turn.error \/ x.desktop THEN <<>> ELSE SignedTurn(turn, t)
  BY <1>3, <1>5, MappedEmpty
<1> HIDE DEF hello, rest, V
<1>10. Mapped(hello \o rest, V) = Mapped(hello, V) \o Mapped(rest, V) /\ Mapped(rest, V) \in Seq(Seq(Nat))
  BY <1>1, <1>6, <1>8, SigningConcat
<1>11. Mapped(hello \o rest, V) = Mapped(rest, V)
  BY <1>7, <1>10
<1> QED BY <1>4, <1>9, <1>11 DEF V, turn

\* The signatures of what was stored of the first turns.
LEMMA SessionStoredSigns ==
  ASSUME NEW x, IsSession(x), NEW n \in 0..Len(x.turns)
  PROVE  Mapped(SessionStored(x, n), SentSignatures(x.desktop))
           = FlattenSeq([t \in 1..n |->
               IF x.turns[t].error \/ x.desktop THEN <<>> ELSE SignedTurn(x.turns[t], t)])
<1> DEFINE ss == [t \in 1..n |-> TurnStored(x.desktop, x.turns[t], t)]
           V == SentSignatures(x.desktop)
           F(t) == IF x.turns[t].error \/ x.desktop THEN <<>> ELSE SignedTurn(x.turns[t], t)
<1>0. x.desktop \in BOOLEAN /\ n \in Nat /\ \A t \in 1..n : t \in 1..Len(x.turns)
  BY SessionFields
<1>1. V \in [Messages -> Seq(Seq(Nat))]
  BY <1>0, SentSigning DEF Signing
<1>2. ss \in Seq(Seq(Messages)) /\ SessionStored(x, n) = FlattenSeq(ss)
  BY SessionStoredType DEF SessionStored
<1>3. Len(ss) = n /\ \A t \in 1..n : ss[t] = TurnStored(x.desktop, x.turns[t], t)
  BY <1>0
<1>4. \A t \in 1..n : Mapped(TurnStored(x.desktop, x.turns[t], t), V) = F(t)
  BY <1>0, TurnStoredSigns
<1> HIDE DEF ss, V, F
<1>5. \A tt \in Seq(Seq(Messages)) :
        Mapped(FlattenSeq(tt), V) = FlattenSeq([t \in 1..Len(tt) |-> Mapped(tt[t], V)])
  BY <1>1, FlattenMapped
<1>6. Mapped(FlattenSeq(ss), V) = FlattenSeq([t \in 1..Len(ss) |-> Mapped(ss[t], V)])
  BY <1>2, <1>5
<1>7. [t \in 1..Len(ss) |-> Mapped(ss[t], V)] = [t \in 1..n |-> F(t)]
  BY <1>3, <1>4
<1>8. Mapped(SessionStored(x, n), V) = FlattenSeq([t \in 1..n |-> F(t)])
  BY <1>2, <1>6, <1>7
<1> QED BY <1>8 DEF F, V

\* The signatures of a request, by the messages it is made of.
LEMMA RequestSigns ==
  ASSUME NEW x, IsSession(x)
  PROVE  Signatures(ConvertSession(x).request) = Mapped(Prompt(x), SentSignatures(x.desktop))
<1> DEFINE s == Prompt(x) sent == Mapped(s, SentMap)
<1>0. x.desktop \in BOOLEAN /\ s \in Seq(Messages)
  BY SessionFields, PromptMessages
<1>1. PICK m \in Messages :
        /\ m.role = "system"
        /\ Payload(x.desktop, s) = IF x.desktop THEN <<m>> \o sent ELSE s
  BY PayloadParts
<1>2. ConvertSession(x).request = Payload(x.desktop, s)
  BY DEF ConvertSession
<1> HIDE DEF s
<1>3. CASE ~x.desktop
  BY <1>0, <1>1, <1>2, <1>3, SignaturesIsMapped DEF SentSignatures, s
<1>4. CASE x.desktop
  <2> DEFINE head == <<m>>
  <2>1. sent \in Seq(Messages)
    BY <1>0, SentMapType, MappedType
  <2>2. m.calls = <<>> /\ m.raw = <<>>
    BY <1>1, MessageFields
  <2>3. head \in Seq(Messages) /\ Mapped(head, SignaturesMap) = <<>>
    BY <2>2, SigningAlone, SignaturesSign
  <2>4. ASSUME NEW q \in Messages PROVE Mapped(SentMap[q], SignaturesMap) = GoingMap[q]
    <3>0. SentMap[q] = IF q.role = "system" THEN <<>> ELSE <<Sent(q)>>
      BY DEF SentMap
    <3>1. GoingMap[q] = SignaturesOf(IF q.raw # <<>> THEN q.raw ELSE q.calls)
      BY DEF GoingMap
    <3>2. CASE q.role = "system"
      <4>1. q.calls = <<>> /\ q.raw = <<>>
        BY <3>2, MessageFields
      <4>2. GoingMap[q] = <<>>
        BY <4>1, GoingSign DEF Signing
      <4> QED BY <3>0, <3>2, <4>2, MappedEmpty
    <3>3. CASE q.role # "system"
      <4> DEFINE f == Sent(q)
      <4>1. f \in Messages /\ f.calls = IF q.raw # <<>> THEN q.raw ELSE q.calls
        BY SentMessage
      <4> HIDE DEF f
      <4>2. Mapped(<<f>>, SignaturesMap) = SignaturesMap[f]
        BY <4>1, MappedOne, SignaturesMapType
      <4>3. SignaturesMap[f] = SignaturesOf(f.calls)
        BY <4>1 DEF SignaturesMap
      <4> QED BY <3>0, <3>1, <3>3, <4>1, <4>2, <4>3 DEF f
    <3> QED BY <3>2, <3>3
  <2>5. Mapped(sent, SignaturesMap) = Mapped(s, GoingMap)
    <3>1. Through(Messages, SentMap, SignaturesMap, GoingMap)
      BY <2>4 DEF Through
    <3>2. IsMap(SentMap, Messages, Messages) /\ IsMap(SignaturesMap, Messages, Seq(Nat))
      BY SentMapType, SignaturesMapType DEF IsMap
    <3>3. s \in Seq(Messages)
      BY <1>0
    <3> QED BY <3>1, <3>2, <3>3, MapThen
  <2> HIDE DEF head, sent
  <2>6. Mapped(head \o sent, SignaturesMap) = Mapped(head, SignaturesMap) \o Mapped(sent, SignaturesMap)
        /\ Mapped(sent, SignaturesMap) \in Seq(Seq(Nat))
    BY <2>1, <2>3, SignaturesSign, SigningConcat
  <2>7. Mapped(head \o sent, SignaturesMap) = Mapped(s, GoingMap)
    BY <2>3, <2>5, <2>6
  <2>8. Signatures(head \o sent) = Mapped(head \o sent, SignaturesMap)
    <3>1. head \o sent \in Seq(Messages)
      BY <2>1, <2>3
    <3> QED BY <3>1, SignaturesIsMapped
  <2> QED BY <1>1, <1>2, <1>4, <2>7, <2>8 DEF head, SentSignatures, s
<1> QED BY <1>0, <1>3, <1>4

FirstOf(F, n) == [t \in 1..n |-> F[t]]
Extends(F, G, n, S) == \A t \in 1..n : F[t] \in Seq(S) /\ G[t] = F[t]

\* One more part at the end.
LEMMA FlattenLast ==
  ASSUME NEW S, NEW n \in Nat, NEW F, NEW G, NEW T \in Seq(S), Extends(F, G, n, S), G[n + 1] = T
  PROVE  FlattenSeq(FirstOf(F, n)) \o T = FlattenSeq(FirstOf(G, n + 1))
<1> DEFINE ss == [t \in 1..n |-> F[t]] tt == [t \in 1..(n + 1) |-> G[t]]
<1>0. \A t \in 1..n : F[t] \in Seq(S) /\ G[t] = F[t]
  BY DEF Extends
<1>1. ss \in Seq(Seq(S)) /\ Len(ss) = n
  BY <1>0
<1>2. tt = Append(ss, T)
  <2>1. tt \in Seq(Seq(S)) /\ Len(tt) = n + 1 /\ \A t \in 1..(n + 1) : tt[t] = G[t]
    <3>1. \A t \in 1..(n + 1) : G[t] \in Seq(S)
      <4>1. \A t \in 1..(n + 1) : t \in 1..n \/ t = n + 1
        OBVIOUS
      <4> QED BY <1>0, <4>1
    <3> QED BY <3>1
  <2>2. \A t \in 1..n : ss[t] = F[t]
    OBVIOUS
  <2> DEFINE aa == Append(ss, T)
  <2>3. aa \in Seq(Seq(S)) /\ Len(aa) = n + 1 /\ aa[n + 1] = T /\ \A t \in 1..n : aa[t] = ss[t]
    <3> HIDE DEF ss
    <3> QED BY <1>1
  <2> HIDE DEF ss, tt, aa
  <2>4. ASSUME NEW t \in 1..(n + 1) PROVE tt[t] = aa[t]
    <3>1. CASE t = n + 1
      BY <2>1, <2>3, <3>1
    <3>2. CASE t # n + 1
      <4>1. t \in 1..n
        BY <3>2
      <4> QED BY <1>0, <2>1, <2>2, <2>3, <4>1
    <3> QED BY <3>1, <3>2
  <2>5. tt = aa
    BY <2>1, <2>3, <2>4, SeqEqual
  <2> QED BY <2>5 DEF aa
<1> HIDE DEF ss, tt
<1>3. FlattenSeq(Append(ss, T)) = FlattenSeq(ss) \o T
  BY <1>1, FlattenAppend
<1> QED BY <1>2, <1>3 DEF ss, tt, FirstOf

\* The last request of a session has the signatures it is to have.
LEMMA SessionSigned ==
  ASSUME NEW x, IsSession(x)
  PROVE  Signatures(ConvertSession(x).request) = Signed(x)
<1> DEFINE n == Len(x.turns) failed == x.turns[n].error
           V == SentSignatures(x.desktop)
           m == IF failed THEN n - 1 ELSE n
           stored == SessionStored(x, m)
           rest == IF failed THEN TurnMessages(x.desktop, x.turns[n], n) ELSE <<>>
           head == <<SystemPrompt>>
           hello == <<LastSaid(x)>>
           F == [t \in 1..n |-> IF x.turns[t].error \/ x.desktop THEN <<>> ELSE SignedTurn(x.turns[t], t)]
           G == [t \in 1..n |-> IF (IF x.desktop THEN t = n /\ x.turns[n].error ELSE t = n \/ ~x.turns[t].error)
                                THEN SignedTurn(x.turns[t], t) ELSE <<>>]
           T == IF failed THEN SignedTurn(x.turns[n], n) ELSE <<>>
<1>0. n \in Nat \ {0} /\ x.desktop \in BOOLEAN /\ n \in 1..Len(x.turns) /\ m \in 0..Len(x.turns) /\ m \in Nat
  <2>1. n \in Nat \ {0} /\ x.desktop \in BOOLEAN
    BY SessionFields
  <2> QED BY <2>1
<1>1. Signing(V)
  BY <1>0, SentSigning
<1>2. Mapped(stored, V) = FlattenSeq([t \in 1..m |-> F[t]]) /\ stored \in Seq(Messages)
  <2>1. Mapped(stored, V) = FlattenSeq([t \in 1..m |->
               IF x.turns[t].error \/ x.desktop THEN <<>> ELSE SignedTurn(x.turns[t], t)])
        /\ stored \in Seq(Messages)
    <3> HIDE DEF m
    <3> QED BY <1>0, SessionStoredSigns, SessionStoredType
  <2>2. [t \in 1..m |-> F[t]]
          = [t \in 1..m |-> IF x.turns[t].error \/ x.desktop THEN <<>> ELSE SignedTurn(x.turns[t], t)]
    <3>1. \A t \in 1..m : t \in 1..n
      BY <1>0
    <3> HIDE DEF m, n
    <3> QED BY <3>1
  <2> HIDE DEF F, stored
  <2> QED BY <2>1, <2>2
<1>3. Mapped(rest, V) = T /\ rest \in Seq(Messages)
  <2>1. Mapped(TurnMessages(x.desktop, x.turns[n], n), V) = SignedTurn(x.turns[n], n)
        /\ TurnMessages(x.desktop, x.turns[n], n) \in Seq(Messages)
    BY <1>0, TurnSigns, TurnParts
  <2>2. <<>> \in Seq(Messages) /\ Mapped(<<>>, V) = <<>>
    BY MappedEmpty
  <2> HIDE DEF V, n, failed
  <2> QED BY <2>1, <2>2
<1>4. head \in Seq(Messages) /\ hello \in Seq(Messages) /\ Mapped(head, V) = <<>> /\ Mapped(hello, V) = <<>>
  <2>1. /\ "user" \in {"user", "assistant", "system"} /\ "hello" \in Texts /\ x.turns[n].said \in Texts
        /\ "system" \in {"user", "assistant", "system"} /\ "prompt" \in Texts
    BY <1>0, HelloUnit DEF Texts
  <2> HIDE DEF V
  <2>2. Mapped(head, V) = <<>>
    BY <1>1, <2>1, SigningSaid DEF SystemPrompt
  <2>3. Mapped(hello, V) = <<>>
    BY <1>1, <2>1, SigningSaid DEF LastSaid
  <2> QED BY <2>2, <2>3, SystemUnit, HelloUnit
<1>5. Prompt(x) = ((head \o stored) \o hello) \o rest
  BY PromptParts
<1>6. Signed(x) = FlattenSeq([t \in 1..n |-> G[t]])
  <2>1. [t \in 1..n |-> G[t]] = G
    OBVIOUS
  <2>2. Signed(x) = FlattenSeq(G)
    BY Zenon DEF Signed
  <2> HIDE DEF G
  <2> QED BY <2>1, <2>2
<1>7. SignedTurn(x.turns[n], n) \in Seq(Seq(Nat))
  <2>1. Mapped(TurnMessages(x.desktop, x.turns[n], n), V) = SignedTurn(x.turns[n], n)
        /\ TurnMessages(x.desktop, x.turns[n], n) \in Seq(Messages)
    BY <1>0, TurnSigns, TurnParts
  <2> HIDE DEF V, n
  <2> QED BY <1>1, <2>1, SigningConcat
<1>8. \A t \in 1..n : F[t] \in Seq(Seq(Nat))
  <2>1. ASSUME NEW t \in 1..n PROVE F[t] \in Seq(Seq(Nat))
    <3>1. F[t] = Mapped(TurnStored(x.desktop, x.turns[t], t), V)
      BY <1>0, TurnStoredSigns
    <3>2. TurnStored(x.desktop, x.turns[t], t) \in Seq(Messages)
      BY <1>0, TurnStoredParts
    <3> HIDE DEF F, V
    <3> QED BY <1>1, <3>1, <3>2, SigningConcat
  <2> QED BY <2>1
<1>9. \A t \in 1..n : (t # n \/ ~failed) => G[t] = F[t]
  <2>1. ASSUME NEW t \in 1..n, t # n \/ ~failed PROVE G[t] = F[t]
    BY <1>0, <2>1
  <2> QED BY <2>1
<1>10. failed => G[n] = T
  BY <1>0
<1>11. T \in Seq(Seq(Nat)) /\ (~failed => T = <<>>)
  <2>1. <<>> \in Seq(Seq(Nat))
    OBVIOUS
  <2> HIDE DEF n
  <2> QED BY <1>7, <2>1
<1>12. m = IF failed THEN n - 1 ELSE n
  OBVIOUS
<1> HIDE DEF n, failed, stored, rest, head, hello, F, G, T, V, m
<1>13. Mapped(Prompt(x), V) = FlattenSeq([t \in 1..m |-> F[t]]) \o T
  <2> DEFINE a == head \o stored b == a \o hello
  <2>1. a \in Seq(Messages) /\ b \in Seq(Messages)
    BY <1>2, <1>4
  <2>2. Mapped(a, V) = Mapped(head, V) \o Mapped(stored, V) /\ Mapped(stored, V) \in Seq(Seq(Nat))
    BY <1>1, <1>2, <1>4, SigningConcat
  <2>3. Mapped(a, V) = Mapped(stored, V)
    BY <1>4, <2>2
  <2> HIDE DEF a
  <2>4. Mapped(b, V) = Mapped(a, V) \o Mapped(hello, V)
    BY <1>1, <1>4, <2>1, SigningConcat
  <2>5. Mapped(b, V) = Mapped(stored, V)
    BY <1>4, <2>2, <2>3, <2>4
  <2> HIDE DEF b
  <2>6. Mapped(b \o rest, V) = Mapped(b, V) \o Mapped(rest, V)
    BY <1>1, <1>3, <2>1, SigningConcat
  <2>7. Prompt(x) = b \o rest
    BY <1>5 DEF a, b
  <2> QED BY <1>2, <1>3, <2>5, <2>6, <2>7
<1>14. FlattenSeq([t \in 1..m |-> F[t]]) \o T = FlattenSeq([t \in 1..n |-> G[t]])
  <2>1. CASE failed
    <3>1. m \in Nat /\ n = m + 1
      BY <1>0, <1>12, <2>1
    <3>2. \A t \in 1..m : F[t] \in Seq(Seq(Nat)) /\ G[t] = F[t]
      BY <1>8, <1>9, <3>1
    <3>3. G[m + 1] = T
      BY <1>10, <2>1, <3>1
    <3>5. Extends(F, G, m, Seq(Nat))
      BY <3>2 DEF Extends
    <3>4. FlattenSeq(FirstOf(F, m)) \o T = FlattenSeq(FirstOf(G, m + 1))
      <4>1. m \in Nat
        BY <3>1
      <4>2. T \in Seq(Seq(Nat))
        BY <1>11
      <4>3. \A f, g : \A k \in Nat : \A u \in Seq(Seq(Nat)) :
              Extends(f, g, k, Seq(Nat)) /\ g[k + 1] = u =>
                FlattenSeq(FirstOf(f, k)) \o u = FlattenSeq(FirstOf(g, k + 1))
        BY FlattenLast, ZenonT(30)
      <4> QED BY ONLY <3>3, <3>5, <4>1, <4>2, <4>3
    <3> QED BY <3>1, <3>4 DEF FirstOf
  <2>2. CASE ~failed
    <3>1. m = n /\ T = <<>>
      BY <1>11, <1>12, <2>2
    <3>2. [t \in 1..m |-> F[t]] = [t \in 1..n |-> G[t]]
      BY <1>9, <2>2, <3>1
    <3>3. FlattenSeq([t \in 1..m |-> F[t]]) \in Seq(Seq(Nat))
      <4>1. [t \in 1..m |-> F[t]] \in Seq(Seq(Seq(Nat)))
        BY <1>0, <1>8, <3>1
      <4> QED BY <4>1, FlattenType
    <3> DEFINE d == FlattenSeq([t \in 1..m |-> F[t]])
    <3>4. d = FlattenSeq([t \in 1..n |-> G[t]])
      BY <3>2, Zenon
    <3> HIDE DEF d
    <3>5. d \o T = d
      BY <3>1, <3>3 DEF d
    <3> QED BY <3>4, <3>5 DEF d
  <2> QED BY <2>1, <2>2
<1>15. Signatures(ConvertSession(x).request) = Mapped(Prompt(x), V)
  BY RequestSigns DEF V
<1> QED BY <1>6, <1>13, <1>14, <1>15

-----------------------------------------------------------------------------
(* The events of the history and those of the page.                        *)

EventKinds == {{"user", "text"}, {"started"}, {"finished"}}
TypeMap(types) == [e \in Events |-> IF e.type \in types THEN <<e>> ELSE <<>>]

\* An event is made of its fields.
LEMMA MakesEvent ==
  ASSUME NEW type \in {"user", "text", "started", "finished"}, NEW id \in Ids, NEW text \in Texts
  PROVE  Event(type, id, text) \in Events /\ Event(type, id, text).type = type
  BY DEF Event, Events

\* The events of some types are events.
LEMMA TypeMapType ==
  ASSUME NEW types
  PROVE  TypeMap(types) \in [Events -> Seq(Events)] /\ IsMap(TypeMap(types), Events, Events)
<1>1. TypeMap(types) \in [Events -> Seq(Events)]
  BY DEF TypeMap
<1> QED BY <1>1 DEF IsMap

\* OfType maps the events one by one.
LEMMA OfTypeIsMapped ==
  ASSUME NEW events \in Seq(Events), NEW types
  PROVE  OfType(events, types) = Mapped(events, TypeMap(types)) /\ OfType(events, types) \in Seq(Events)
<1>1. ASSUME NEW k \in 1..Len(events)
      PROVE  TypeMap(types)[events[k]] = IF events[k].type \in types THEN <<events[k]>> ELSE <<>>
  BY DEF TypeMap
<1>2. OfType(events, types) = Mapped(events, TypeMap(types))
  BY <1>1, Zenon DEF Mapped, OfType
<1> QED BY <1>2, TypeMapType, MappedType

\* OfType takes a concatenation to a concatenation.
LEMMA OfTypeConcat ==
  ASSUME NEW s \in Seq(Events), NEW u \in Seq(Events), NEW types
  PROVE  OfType(s \o u, types) = OfType(s, types) \o OfType(u, types)
<1> DEFINE v == s \o u
<1>1. v \in Seq(Events)
  OBVIOUS
<1>2. Mapped(v, TypeMap(types)) = Mapped(s, TypeMap(types)) \o Mapped(u, TypeMap(types))
  BY TypeMapType, MappedConcat
<1> HIDE DEF v
<1>3. OfType(v, types) = OfType(s, types) \o OfType(u, types)
  BY <1>1, <1>2, OfTypeIsMapped
<1> QED BY <1>3 DEF v

\* One event is kept or is not.
LEMMA OfTypeOne ==
  ASSUME NEW e \in Events, NEW types
  PROVE  OfType(<<e>>, types) = IF e.type \in types THEN <<e>> ELSE <<>>
<1> DEFINE u == <<e>>
<1>1. u \in Seq(Events)
  OBVIOUS
<1>2. Mapped(u, TypeMap(types)) = TypeMap(types)[e]
  BY TypeMapType, MappedOne
<1> HIDE DEF u
<1>3. OfType(u, types) = TypeMap(types)[e]
  BY <1>1, <1>2, OfTypeIsMapped
<1> QED BY <1>3 DEF u, TypeMap

\* Nothing is kept of events of other types.
LEMMA OfTypeNone ==
  ASSUME NEW s \in Seq(Events), NEW types, \A k \in 1..Len(s) : s[k].type \notin types
  PROVE  OfType(s, types) = <<>>
<1>1. \A k \in 1..Len(s) : TypeMap(types)[s[k]] = <<>>
  BY DEF TypeMap
<1>2. Mapped(s, TypeMap(types)) = <<>>
  BY <1>1, MappedNothing
<1> QED BY <1>2, OfTypeIsMapped

\* Nothing is kept of nothing.
LEMMA OfTypeEmpty ==
  ASSUME NEW types
  PROVE  OfType(<<>>, types) = <<>>
<1> DEFINE e == <<>>
<1>1. e \in Seq(Events)
  OBVIOUS
<1>2. Mapped(e, TypeMap(types)) = <<>>
  BY MappedEmpty
<1> HIDE DEF e
<1>3. OfType(e, types) = <<>>
  BY <1>1, <1>2, OfTypeIsMapped
<1> QED BY <1>3 DEF e

\* Events of the types are all kept.
LEMMA OfTypeAll ==
  ASSUME NEW s \in Seq(Events), NEW types, \A k \in 1..Len(s) : s[k].type \in types
  PROVE  OfType(s, types) = s
<1>1. Singles(s, TypeMap(types), s)
  BY DEF TypeMap, Singles
<1>2. Mapped(s, TypeMap(types)) = s
  BY <1>1, MappedSingles
<1> QED BY <1>2, OfTypeIsMapped

TypesAre(ss, types, F) == \A k \in 1..Len(ss) : OfType(ss[k], types) = F[k]

\* OfType of parts, when it is known of each.
LEMMA OfTypeFlatten ==
  ASSUME NEW ss \in Seq(Seq(Events)), NEW types, NEW F, TypesAre(ss, types, F)
  PROVE  OfType(FlattenSeq(ss), types) = FlattenSeq(FirstOf(F, Len(ss)))
<1>1. \A tt \in Seq(Seq(Events)) :
        Mapped(FlattenSeq(tt), TypeMap(types)) = FlattenSeq([k \in 1..Len(tt) |-> Mapped(tt[k], TypeMap(types))])
  BY TypeMapType, FlattenMapped, SMTT(30)
<1>2. FlattenSeq(ss) \in Seq(Events)
  BY FlattenType
<1>3. \A k \in 1..Len(ss) : Mapped(ss[k], TypeMap(types)) = F[k]
  <2>1. \A k \in 1..Len(ss) : ss[k] \in Seq(Events)
    OBVIOUS
  <2> QED BY <2>1, OfTypeIsMapped DEF TypesAre
<1>4. [k \in 1..Len(ss) |-> Mapped(ss[k], TypeMap(types))] = FirstOf(F, Len(ss))
  BY <1>3 DEF FirstOf
<1>5. OfType(FlattenSeq(ss), types) = Mapped(FlattenSeq(ss), TypeMap(types))
  BY <1>2, OfTypeIsMapped
<1> QED BY <1>1, <1>4, <1>5

-----------------------------------------------------------------------------

\* The events of a message.
StartedOf(calls) == [k \in 1..Len(calls) |-> Event("started", calls[k].id, calls[k].name)]

\* They are events, one for each call.
LEMMA StartedEvents ==
  ASSUME NEW calls \in Seq(Calls)
  PROVE  /\ StartedOf(calls) \in Seq(Events) /\ Len(StartedOf(calls)) = Len(calls) /\ Len(calls) \in Nat
         /\ \A k \in 1..Len(calls) :
              /\ StartedOf(calls)[k] = Event("started", calls[k].id, calls[k].name)
              /\ StartedOf(calls)[k] \in Events
              /\ StartedOf(calls)[k].type = "started"
<1>0. Len(calls) \in Nat
  OBVIOUS
<1>1. ASSUME NEW k \in 1..Len(calls)
      PROVE  /\ Event("started", calls[k].id, calls[k].name) \in Events
             /\ Event("started", calls[k].id, calls[k].name).type = "started"
  <2> DEFINE type == "started" id == calls[k].id text == calls[k].name
  <2>1. type \in {"user", "text", "started", "finished"}
    OBVIOUS
  <2>2. calls[k] \in Calls
    OBVIOUS
  <2>3. id \in Ids /\ text \in Texts
    BY <2>2, CallFields DEF Texts
  <2> HIDE DEF type, id, text
  <2>4. Event(type, id, text) \in Events /\ Event(type, id, text).type = type
    BY <2>1, <2>3, MakesEvent
  <2> QED BY <2>4 DEF type, id, text
<1>2. StartedOf(calls) \in Seq(Events) /\ Len(StartedOf(calls)) = Len(calls)
      /\ \A k \in 1..Len(calls) : StartedOf(calls)[k] = Event("started", calls[k].id, calls[k].name)
  BY <1>0, <1>1 DEF StartedOf
<1> QED BY <1>0, <1>1, <1>2

\* A message has events.
LEMMA EventsOfMessage ==
  ASSUME NEW desktop, NEW m \in Messages
  PROVE  EventsOf(desktop, m) \in Seq(Events)
<1>0. m.role \in {"user", "assistant", "tool", "system"} /\ m.text \in Texts /\ m.id \in Ids
      /\ m.calls \in Seq(Calls)
  BY MessageFields
<1>1. \A type \in {"user", "text", "started", "finished"}, id \in {NoId, m.id} :
        <<Event(type, id, m.text)>> \in Seq(Events)
  <2>1. \A type \in {"user", "text", "started", "finished"}, id \in {NoId, m.id} :
          Event(type, id, m.text) \in Events
    BY <1>0, MakesEvent, Nothing
  <2> QED BY <2>1
<1>2. StartedOf(m.calls) \in Seq(Events)
  BY <1>0, StartedEvents
<1>3. "user" \in {"user", "text", "started", "finished"} /\ "text" \in {"user", "text", "started", "finished"}
      /\ "finished" \in {"user", "text", "started", "finished"}
  OBVIOUS
<1>4. <<Event("user", NoId, m.text)>> \in Seq(Events) /\ <<Event("text", NoId, m.text)>> \in Seq(Events)
      /\ <<Event("finished", m.id, m.text)>> \in Seq(Events)
  BY <1>1, <1>3
<1>5. <<>> \in Seq(Events)
  OBVIOUS
<1>6. \A text \in {m.text, StripEnvelope(m.text)} : <<Event("user", NoId, text)>> \in Seq(Events)
  <2>1. StripEnvelope(m.text) \in Texts
    BY <1>0 DEF StripEnvelope, Texts
  <2>2. \A text \in Texts : Event("user", NoId, text) \in Events
    BY <1>3, MakesEvent, Nothing
  <2> QED BY <1>0, <2>1, <2>2
<1>7. CASE m.role = "user"
  <2>1. EventsOf(desktop, m) \in
          {<<Event("user", NoId, m.text)>>, <<Event("user", NoId, StripEnvelope(m.text))>>, <<>>}
    BY <1>7 DEF EventsOf
  <2> QED BY <1>5, <1>6, <2>1, Zenon
<1>8. CASE m.role # "user"
  BY <1>2, <1>4, <1>5, <1>8, Zenon DEF EventsOf, StartedOf
<1> QED BY <1>7, <1>8

\* Those of some types.
OfMessage(desktop, types) == [m \in Messages |-> OfType(EventsOf(desktop, m), types)]

\* Those of some types are events.
LEMMA OfMessageType ==
  ASSUME NEW desktop, NEW types
  PROVE  /\ OfMessage(desktop, types) \in [Messages -> Seq(Events)]
         /\ IsMap(OfMessage(desktop, types), Messages, Events)
         /\ \A m \in Messages : OfMessage(desktop, types)[m] = OfType(EventsOf(desktop, m), types)
<1>1. \A m \in Messages : OfType(EventsOf(desktop, m), types) \in Seq(Events)
  BY EventsOfMessage, OfTypeIsMapped
<1>2. OfMessage(desktop, types) \in [Messages -> Seq(Events)]
  BY <1>1 DEF OfMessage
<1>3. \A m \in Messages : OfMessage(desktop, types)[m] = OfType(EventsOf(desktop, m), types)
  BY DEF OfMessage
<1> QED BY <1>2, <1>3 DEF IsMap

\* The map to the events of a message.
LEMMA EventsMapType ==
  ASSUME NEW desktop
  PROVE  EventsMap(desktop) \in [Messages -> Seq(Events)] /\ IsMap(EventsMap(desktop), Messages, Events)
<1>1. EventsMap(desktop) \in [Messages -> Seq(Events)]
  BY EventsOfMessage DEF EventsMap
<1> QED BY <1>1 DEF IsMap

\* The events of messages are those of each.
LEMMA EventsIsMapped ==
  ASSUME NEW desktop, NEW s \in Seq(Messages)
  PROVE  /\ FlattenSeq([k \in 1..Len(s) |-> EventsOf(desktop, s[k])]) = Mapped(s, EventsMap(desktop))
         /\ Mapped(s, EventsMap(desktop)) \in Seq(Events)
<1>1. ASSUME NEW k \in 1..Len(s) PROVE EventsMap(desktop)[s[k]] = EventsOf(desktop, s[k])
  BY DEF EventsMap
<1>2. FlattenSeq([k \in 1..Len(s) |-> EventsOf(desktop, s[k])]) = Mapped(s, EventsMap(desktop))
  BY <1>1, Zenon DEF Mapped
<1> QED BY <1>2, EventsMapType, MappedType

\* Those of some types are those of some types of each.
LEMMA EventsOfTypes ==
  ASSUME NEW desktop, NEW s \in Seq(Messages), NEW types
  PROVE  OfType(Mapped(s, EventsMap(desktop)), types) = Mapped(s, OfMessage(desktop, types))
<1>1. ASSUME NEW m \in Messages PROVE Mapped(EventsMap(desktop)[m], TypeMap(types)) = OfMessage(desktop, types)[m]
  <2>1. EventsMap(desktop)[m] = EventsOf(desktop, m)
    BY DEF EventsMap
  <2>2. OfType(EventsOf(desktop, m), types) = Mapped(EventsOf(desktop, m), TypeMap(types))
    BY EventsOfMessage, OfTypeIsMapped
  <2> QED BY <2>1, <2>2, OfMessageType
<1>2. Through(Messages, EventsMap(desktop), TypeMap(types), OfMessage(desktop, types))
  BY <1>1 DEF Through
<1>3. Mapped(Mapped(s, EventsMap(desktop)), TypeMap(types)) = Mapped(s, OfMessage(desktop, types))
  BY <1>2, EventsMapType, TypeMapType, MapThen
<1>4. Mapped(s, EventsMap(desktop)) \in Seq(Events)
  BY EventsIsMapped
<1> QED BY <1>3, <1>4, OfTypeIsMapped

\* A message has the same events in the file; a system message has none.
LEMMA StoredEvents ==
  ASSUME NEW desktop, NEW s \in Seq(Messages), NEW types
  PROVE  Mapped(Mapped(s, StoredMap), OfMessage(desktop, types)) = Mapped(s, OfMessage(desktop, types))
<1>1. ASSUME NEW m \in Messages PROVE Mapped(StoredMap[m], OfMessage(desktop, types)) = OfMessage(desktop, types)[m]
  <2>0. StoredMap[m] = IF m.role = "system" THEN <<>> ELSE <<Filed(m)>>
    BY DEF StoredMap
  <2>1. CASE m.role = "system"
    <3>1. EventsOf(desktop, m) = <<>>
      BY <2>1 DEF EventsOf
    <3>2. OfMessage(desktop, types)[m] = <<>>
      BY <3>1, OfMessageType, OfTypeEmpty
    <3> QED BY <2>0, <2>1, <3>2, MappedEmpty
  <2>2. CASE m.role # "system"
    <3> DEFINE f == Filed(m)
    <3>1. f \in Messages /\ f.role = m.role /\ f.text = m.text /\ f.calls = m.calls /\ f.id = m.id
      BY FiledMessage
    <3> HIDE DEF f
    <3>2. EventsOf(desktop, f) = EventsOf(desktop, m)
      BY <3>1, Zenon DEF EventsOf
    <3>3. Mapped(<<f>>, OfMessage(desktop, types)) = OfMessage(desktop, types)[f]
      BY <3>1, MappedOne, OfMessageType
    <3>4. OfMessage(desktop, types)[f] = OfMessage(desktop, types)[m]
      BY <3>1, <3>2, OfMessageType
    <3> QED BY <2>0, <2>2, <3>3, <3>4 DEF f
  <2> QED BY <2>1, <2>2
<1>2. Through(Messages, StoredMap, OfMessage(desktop, types), OfMessage(desktop, types))
  BY <1>1 DEF Through
<1>3. IsMap(StoredMap, Messages, Messages)
  BY StoredMapType DEF IsMap
<1> QED BY <1>2, <1>3, OfMessageType, MapThen

FinishedOf(response) ==
  [k \in 1..Len(response.calls) |->
    Event("finished", response.calls[k].id, ToolResult(response.calls[k]).text)]

\* They are events, one for each call.
LEMMA FinishedEvents ==
  ASSUME NEW response \in ResponseSet
  PROVE  /\ FinishedOf(response) \in Seq(Events) /\ Len(FinishedOf(response)) = Len(response.calls)
         /\ \A k \in 1..Len(response.calls) :
              /\ FinishedOf(response)[k]
                   = Event("finished", response.calls[k].id, ToolResult(response.calls[k]).text)
              /\ FinishedOf(response)[k] \in Events
              /\ FinishedOf(response)[k].type = "finished"
<1>0. Len(response.calls) \in Nat
  BY ResultMessages
<1>1. ASSUME NEW k \in 1..Len(response.calls)
      PROVE  /\ Event("finished", response.calls[k].id, ToolResult(response.calls[k]).text) \in Events
             /\ Event("finished", response.calls[k].id, ToolResult(response.calls[k]).text).type = "finished"
  <2> DEFINE type == "finished" c == response.calls[k] text == ToolResult(c).text
  <2>1. type \in {"user", "text", "started", "finished"}
    OBVIOUS
  <2>2. c \in Calls
    BY ResultMessages
  <2>3. c.id \in Ids /\ text \in Texts
    BY <2>2, CallFields, ToolResultMessage, MessageFields
  <2> HIDE DEF type, c, text
  <2>4. Event(type, c.id, text) \in Events /\ Event(type, c.id, text).type = type
    BY <2>1, <2>3, MakesEvent
  <2> QED BY <2>4 DEF type, c, text
<1>2. FinishedOf(response) \in Seq(Events) /\ Len(FinishedOf(response)) = Len(response.calls)
      /\ \A k \in 1..Len(response.calls) : FinishedOf(response)[k]
                   = Event("finished", response.calls[k].id, ToolResult(response.calls[k]).text)
  BY <1>0, <1>1 DEF FinishedOf
<1> QED BY <1>1, <1>2

\* The events of what an answer with calls adds: the calls, then the results.
LEMMA CallsShown ==
  ASSUME NEW desktop, NEW response \in ResponseSet, response.calls # <<>>, NEW last, NEW types
  PROVE  Mapped(Pushed(response, last), OfMessage(desktop, types))
           = OfType(StartedOf(response.calls), types) \o OfType(FinishedOf(response), types)
<1> DEFINE a == Asking(response) results == Results(response) warnings == Warnings(response.calls)
           head == <<a>> V == OfMessage(desktop, types)
           started == StartedOf(response.calls) finished == FinishedOf(response)
<1>0. V \in [Messages -> Seq(Events)] /\ IsMap(V, Messages, Events)
      /\ \A m \in Messages : V[m] = OfType(EventsOf(desktop, m), types)
  BY OfMessageType
<1>1. a \in Messages /\ a.role = "assistant" /\ a.calls = response.calls
  BY AskingMessage
<1>2. results \in Seq(Messages) /\ Len(results) = Len(response.calls) /\ Len(results) \in Nat
      /\ \A k \in 1..Len(results) : /\ results[k] \in Messages /\ results[k].role = "tool"
                                    /\ results[k] = ToolResult(response.calls[k])
                                    /\ results[k].id = response.calls[k].id
  BY ResultMessages
<1>3. warnings \in Seq(Messages) /\ (warnings = <<>> \/ warnings = <<Said("system", "warning")>>)
  BY WarningsUnit, UnitsAreMessages
<1>4. Pushed(response, last) = (head \o results) \o warnings
  BY PushedParts
<1>5. started \in Seq(Events)
  BY ResponseFields, StartedEvents
<1>6. EventsOf(desktop, a) = started
  BY <1>1, Zenon DEF EventsOf, StartedOf
<1>7. /\ finished \in Seq(Events) /\ Len(finished) = Len(response.calls)
      /\ \A k \in 1..Len(response.calls) :
           finished[k] = Event("finished", response.calls[k].id, ToolResult(response.calls[k]).text)
           /\ finished[k] \in Events
  BY FinishedEvents
<1> HIDE DEF V, a, results, warnings, started, finished
<1>8. Mapped(warnings, V) = <<>>
  <2> DEFINE w == Said("system", "warning")
  <2>1. "system" \in {"user", "assistant", "system"} /\ "warning" \in Texts
    BY DEF Texts
  <2>2. w \in Messages /\ w.role = "system"
    BY <2>1, SaidMessage
  <2> HIDE DEF w
  <2>3. EventsOf(desktop, w) = <<>>
    BY <2>2 DEF EventsOf
  <2>4. V[w] = <<>>
    BY <1>0, <2>2, <2>3, OfTypeEmpty
  <2>5. Mapped(<<w>>, V) = <<>>
    BY <1>0, <2>2, <2>4, MappedOne
  <2> QED BY <1>3, <2>5, MappedEmpty DEF w
<1>9. head \in Seq(Messages) /\ Mapped(head, V) = OfType(started, types)
  BY <1>0, <1>1, <1>6, MappedOne
<1>10. Mapped(results, V) = OfType(finished, types)
  <2>1. ASSUME NEW k \in 1..Len(results) PROVE V[results[k]] = TypeMap(types)[finished[k]]
    <3>1. EventsOf(desktop, results[k]) = <<Event("finished", results[k].id, results[k].text)>>
      BY <1>2 DEF EventsOf
    <3>2. EventsOf(desktop, results[k]) = <<finished[k]>> /\ finished[k] \in Events
      BY <1>2, <1>7, <3>1
    <3>3. OfType(<<finished[k]>>, types) = IF finished[k].type \in types THEN <<finished[k]>> ELSE <<>>
      BY <3>2, OfTypeOne
    <3>4. TypeMap(types)[finished[k]] = IF finished[k].type \in types THEN <<finished[k]>> ELSE <<>>
      BY <3>2 DEF TypeMap
    <3> QED BY <1>0, <1>2, <3>2, <3>3, <3>4
  <2>2. [k \in 1..Len(results) |-> V[results[k]]]
        = [k \in 1..Len(finished) |-> TypeMap(types)[finished[k]]]
    BY <1>2, <1>7, <2>1
  <2>3. Mapped(results, V) = Mapped(finished, TypeMap(types))
    BY <2>2, Zenon DEF Mapped
  <2> QED BY <1>7, <2>3, OfTypeIsMapped
<1> HIDE DEF head
<1>11. head \o results \in Seq(Messages)
  BY <1>2, <1>9
<1>12. \A s, u \in Seq(Messages) : Mapped(s \o u, V) = Mapped(s, V) \o Mapped(u, V)
  BY <1>0, MappedConcat
<1>13. Mapped((head \o results) \o warnings, V)
         = (OfType(started, types) \o OfType(finished, types)) \o <<>>
  BY <1>2, <1>3, <1>8, <1>9, <1>10, <1>11, <1>12, ZenonT(30)
<1>14. OfType(started, types) \in Seq(Events) /\ OfType(finished, types) \in Seq(Events)
  BY <1>5, <1>7, OfTypeIsMapped
<1>15. (OfType(started, types) \o OfType(finished, types)) \o <<>>
         = OfType(started, types) \o OfType(finished, types)
  BY <1>14, ConcatEmptySeq
<1> QED BY <1>4, <1>13, <1>15 DEF started, finished, V

\* What the page was shown of them, of one type.
LEMMA CallsLive ==
  ASSUME NEW response \in ResponseSet, response.calls # <<>>, NEW last, NEW types \in EventKinds
  PROVE  /\ Live(response, last) \in Seq(Events)
         /\ OfType(Live(response, last), types)
              = OfType(StartedOf(response.calls), types) \o OfType(FinishedOf(response), types)
<1> DEFINE started == StartedOf(response.calls) finished == FinishedOf(response)
           n == Len(response.calls)
           ss == [k \in 1..n |-> <<started[k], finished[k]>>]
<1>1. started \in Seq(Events) /\ Len(started) = n /\ n \in Nat
      /\ \A k \in 1..n : /\ started[k] \in Events /\ started[k].type = "started"
                         /\ started[k] = Event("started", response.calls[k].id, response.calls[k].name)
  BY ResponseFields, StartedEvents
<1>2. finished \in Seq(Events) /\ Len(finished) = n
      /\ \A k \in 1..n : /\ finished[k] \in Events /\ finished[k].type = "finished"
                         /\ finished[k] = Event("finished", response.calls[k].id, ToolResult(response.calls[k]).text)
  BY FinishedEvents
<1>3. Live(response, last) = FlattenSeq(ss)
  <2>1. [k \in 1..n |-> <<Event("started", response.calls[k].id, response.calls[k].name),
                          Event("finished", response.calls[k].id, ToolResult(response.calls[k]).text)>>] = ss
    BY <1>1, <1>2
  <2> HIDE DEF ss
  <2> QED BY <2>1, Zenon DEF Live
<1> HIDE DEF started, finished, n
<1>4. ss \in Seq(Seq(Events)) /\ Len(ss) = n /\ \A k \in 1..n : ss[k] = <<started[k], finished[k]>>
  BY <1>1, <1>2
<1>5. ASSUME NEW k \in 1..n
      PROVE  OfType(ss[k], types) = (IF "started" \in types THEN <<started[k]>> ELSE <<>>)
                                      \o (IF "finished" \in types THEN <<finished[k]>> ELSE <<>>)
  <2> DEFINE b == started[k] e == finished[k] u == <<b>> v == <<e>>
  <2>1. b \in Events /\ e \in Events /\ b.type = "started" /\ e.type = "finished"
    BY <1>1, <1>2
  <2>2. ss[k] = <<b, e>>
    BY <1>4
  <2> HIDE DEF b, e, ss
  <2>3. u \in Seq(Events) /\ v \in Seq(Events)
    BY <2>1
  <2>4. ss[k] = u \o v
    BY <2>2, TwoParts
  <2>5. OfType(u, types) = (IF "started" \in types THEN u ELSE <<>>)
        /\ OfType(v, types) = (IF "finished" \in types THEN v ELSE <<>>)
    BY <2>1, OfTypeOne
  <2> HIDE DEF u, v
  <2>6. OfType(u \o v, types) = OfType(u, types) \o OfType(v, types)
    BY <2>3, OfTypeConcat
  <2> QED BY <2>4, <2>5, <2>6 DEF u, v, b, e
<1> HIDE DEF ss
<1>6. Live(response, last) \in Seq(Events)
  BY <1>3, <1>4, FlattenType
<1>7. CASE types = {"user", "text"}
  <2>1. "started" \notin types /\ "finished" \notin types
    BY <1>7
  <2>2. ASSUME NEW k \in 1..Len(ss) PROVE OfType(ss[k], types) = <<>>
    <3>1. OfType(ss[k], types) = <<>> \o <<>>
      BY <1>4, <1>5, <2>1
    <3> QED BY <3>1
  <2>3. TRUE /\ OfType(started, types) = <<>> /\ OfType(finished, types) = <<>>
    BY <1>1, <1>2, <2>1, OfTypeNone
  <2> DEFINE F == [k \in 1..Len(ss) |-> <<>>]
  <2>4. TypesAre(ss, types, F)
    BY <2>2 DEF TypesAre
  <2>5. OfType(FlattenSeq(ss), types) = FlattenSeq(FirstOf(F, Len(ss)))
    <3> HIDE DEF F
    <3> QED BY <1>4, <2>4, OfTypeFlatten
  <2>6. FirstOf(F, Len(ss)) = [k \in 1..n |-> <<>>]
    BY <1>4 DEF FirstOf
  <2>7. FlattenSeq([k \in 1..n |-> <<>>]) = <<>>
    BY <1>1, FlattenNothing
  <2>8. OfType(FlattenSeq(ss), types) = <<>>
    BY <2>5, <2>6, <2>7
  <2>9. <<>> \o <<>> = <<>>
    OBVIOUS
  <2> QED BY <1>3, <1>6, <2>3, <2>8, <2>9 DEF started, finished
<1>8. ASSUME NEW kept \in Seq(Events), Len(kept) = n, \A k \in 1..n : OfType(ss[k], types) = <<kept[k]>>
      PROVE  OfType(FlattenSeq(ss), types) = kept
  <2> DEFINE F == [k \in 1..Len(ss) |-> <<kept[k]>>]
  <2>1. TypesAre(ss, types, F)
    BY <1>4, <1>8 DEF TypesAre
  <2>2. OfType(FlattenSeq(ss), types) = FlattenSeq(FirstOf(F, Len(ss)))
    <3> HIDE DEF F
    <3> QED BY <1>4, <2>1, OfTypeFlatten
  <2>3. FirstOf(F, Len(ss)) = [k \in 1..Len(kept) |-> <<kept[k]>>]
    BY <1>4, <1>8 DEF FirstOf
  <2>4. FlattenSeq([k \in 1..Len(kept) |-> <<kept[k]>>]) = kept
    BY <1>8, FlattenSingles
  <2> QED BY <2>2, <2>3, <2>4
<1>9. CASE types = {"started"}
  <2>1. "started" \in types /\ "finished" \notin types
    BY <1>9
  <2>2. ASSUME NEW k \in 1..n PROVE OfType(ss[k], types) = <<started[k]>>
    <3>1. OfType(ss[k], types) = <<started[k]>> \o <<>>
      BY <1>5, <2>1
    <3> QED BY <3>1
  <2>3. OfType(started, types) = started /\ OfType(finished, types) = <<>>
    BY <1>1, <1>2, <2>1, OfTypeNone, OfTypeAll
  <2>4. OfType(FlattenSeq(ss), types) = started
    BY <1>1, <1>8, <2>2
  <2>5. started \o <<>> = started
    BY <1>1
  <2> QED BY <1>3, <1>6, <2>3, <2>4, <2>5 DEF started, finished
<1>10. CASE types = {"finished"}
  <2>1. "started" \notin types /\ "finished" \in types
    BY <1>10
  <2>2. ASSUME NEW k \in 1..n PROVE OfType(ss[k], types) = <<finished[k]>>
    <3>1. OfType(ss[k], types) = <<>> \o <<finished[k]>>
      BY <1>5, <2>1
    <3> QED BY <3>1
  <2>3. OfType(started, types) = <<>> /\ OfType(finished, types) = finished
    BY <1>1, <1>2, <2>1, OfTypeNone, OfTypeAll
  <2>4. OfType(FlattenSeq(ss), types) = finished
    BY <1>2, <1>8, <2>2
  <2>5. <<>> \o finished = finished
    BY <1>2
  <2> QED BY <1>3, <1>6, <2>3, <2>4, <2>5 DEF started, finished
<1> QED BY <1>7, <1>9, <1>10 DEF EventKinds

\* What the page is shown of an answer is events.
LEMMA LiveEvents ==
  ASSUME NEW response \in ResponseSet, NEW last
  PROVE  Live(response, last) \in Seq(Events)
<1>1. CASE response.calls # <<>>
  <2>1. {"started"} \in EventKinds
    BY DEF EventKinds
  <2> QED BY <1>1, <2>1, CallsLive
<1>2. CASE response.calls = <<>>
  <2> DEFINE e == Event("text", NoId, response.text)
  <2>1. "text" \in {"user", "text", "started", "finished"}
    OBVIOUS
  <2>2. e \in Events
    BY <2>1, MakesEvent, Nothing, ResponseFields
  <2>3. <<e>> \in Seq(Events) /\ <<>> \in Seq(Events)
    BY <2>2
  <2> HIDE DEF e
  <2>4. Live(response, last) = IF last /\ response.text # "" THEN <<e>> ELSE <<>>
    BY <1>2 DEF Live, e
  <2> QED BY <2>3, <2>4
<1> QED BY <1>1, <1>2

\* A map that makes nothing of the second of two messages.
LEMMA MapFirst ==
  ASSUME NEW V \in [Messages -> Seq(Events)], NEW a \in Messages, NEW b \in Messages, V[b] = <<>>
  PROVE  Mapped(<<a>>, V) = V[a] /\ Mapped(<<a>> \o <<b>>, V) = V[a]
<1> DEFINE s == <<a>> u == <<b>>
<1>1. s \in Seq(Messages) /\ u \in Seq(Messages)
  OBVIOUS
<1>2. Mapped(s, V) = V[a] /\ Mapped(u, V) = <<>>
  BY MappedOne
<1> HIDE DEF s, u
<1>3. Mapped(s \o u, V) = Mapped(s, V) \o Mapped(u, V)
  BY <1>1, MappedConcat
<1>4. V[a] \o <<>> = V[a]
  <2>1. V[a] \in Seq(Events)
    OBVIOUS
  <2> QED BY <2>1, ConcatEmptySeq
<1> QED BY <1>2, <1>3, <1>4 DEF s, u

\* The events of what an answer without calls adds are those the page was
\* shown.
LEMMA TextShown ==
  ASSUME NEW desktop, NEW response \in ResponseSet, response.calls = <<>>, NEW last \in BOOLEAN, NEW types,
         last \/ response.text = ""
  PROVE  Mapped(Pushed(response, last), OfMessage(desktop, types)) = OfType(Live(response, last), types)
<1> DEFINE V == OfMessage(desktop, types) m == Said("assistant", response.text) q == Said("system", "reminder")
           said == <<m>> reminder == <<q>> shown == Live(response, last)
<1>0. V \in [Messages -> Seq(Events)] /\ \A k \in Messages : V[k] = OfType(EventsOf(desktop, k), types)
  BY OfMessageType
<1>1. "assistant" \in {"user", "assistant", "system"} /\ "system" \in {"user", "assistant", "system"}
      /\ "reminder" \in Texts /\ response.text \in Texts
  <2>1. "reminder" \in Texts
    BY DEF Texts
  <2> QED BY <2>1, ResponseFields
<1>2. /\ m \in Messages /\ m.role = "assistant" /\ m.text = response.text /\ m.calls = <<>>
      /\ q \in Messages /\ q.role = "system"
  BY <1>1, SaidMessage
<1>3. Pushed(response, last) = IF last THEN said ELSE said \o reminder
  BY PushedParts
<1>4. shown = IF last /\ response.text # "" THEN <<Event("text", NoId, response.text)>> ELSE <<>>
  BY DEF Live
<1>5. shown \in Seq(Events)
  BY LiveEvents
<1> HIDE DEF V, m, q, shown
<1>6. EventsOf(desktop, m) = shown
  <2>1. EventsOf(desktop, m) = IF m.text # "" THEN <<Event("text", NoId, m.text)>> ELSE <<>>
    BY <1>2 DEF EventsOf
  <2> QED BY <1>2, <1>4, <2>1
<1>7. V[m] = OfType(shown, types) /\ V[m] \in Seq(Events)
  BY <1>0, <1>2, <1>5, <1>6, OfTypeIsMapped
<1>8. V[q] = <<>>
  <2>1. EventsOf(desktop, q) = <<>>
    BY <1>2 DEF EventsOf
  <2> QED BY <1>0, <1>2, <2>1, OfTypeEmpty
<1>9. Mapped(<<m>>, V) = V[m] /\ Mapped(<<m>> \o <<q>>, V) = V[m]
  BY <1>0, <1>2, <1>8, MapFirst
<1> QED BY <1>3, <1>7, <1>9 DEF V, shown

\* The events of a turn, and what the page shows of it.
ShownTurn(x, t) ==
  IF x.turns[t].error THEN <<Event("user", NoId, x.turns[t].said)>> ELSE TurnEvents(x.desktop, x.turns[t], t)

UserEvent(x, t) == Event("user", NoId, x.turns[t].said)
\* The event of the user's message; with it goes an envelope.
LEMMA HelloEvents ==
  ASSUME NEW x, IsSession(x), NEW t \in 1..Len(x.turns), NEW types
  PROVE  /\ UserEvent(x, t) \in Events /\ <<UserEvent(x, t)>> \in Seq(Events)
         /\ ("user" \in types => ~Enveloped(x)) =>
              Mapped(<<Opening(x, t)>>, OfMessage(x.desktop, types)) = OfType(<<UserEvent(x, t)>>, types)
<1> DEFINE said == x.turns[t].said replayed == IF x.desktop THEN StripEnvelope(said) ELSE said
           e == Event("user", NoId, replayed)
<1>1. "user" \in {"user", "text", "started", "finished"} /\ "user" \in {"user", "assistant", "system"}
      /\ said \in UserText /\ replayed \in UserText /\ UserText \subseteq Texts /\ said # ""
  BY HelloUnit DEF Texts, UserText, StripEnvelope
<1>2. UserEvent(x, t) \in Events /\ e \in Events /\ e.type = "user" /\ UserEvent(x, t).type = "user"
  <2>1. \A text \in Texts : Event("user", NoId, text) \in Events /\ Event("user", NoId, text).type = "user"
    BY <1>1, MakesEvent, Nothing DEF Event
  <2> QED BY <1>1, <2>1 DEF UserEvent
<1>3. Opening(x, t) \in Messages /\ Opening(x, t).role = "user" /\ Opening(x, t).text = said
  BY <1>1, SaidMessage DEF Opening
<1>4. EventsOf(x.desktop, Opening(x, t)) = <<e>>
  BY <1>1, <1>3 DEF EventsOf
<1>5. Mapped(<<Opening(x, t)>>, OfMessage(x.desktop, types)) = OfMessage(x.desktop, types)[Opening(x, t)]
  BY <1>3, MappedOne, OfMessageType
<1>6. Mapped(<<Opening(x, t)>>, OfMessage(x.desktop, types)) = OfType(<<e>>, types)
  BY <1>3, <1>4, <1>5, OfMessageType
<1>7. ~Enveloped(x) => e = UserEvent(x, t)
  BY DEF Enveloped, UserEvent
<1> HIDE DEF e
<1>8. "user" \notin types => OfType(<<e>>, types) = OfType(<<UserEvent(x, t)>>, types)
  BY <1>2, OfTypeOne
<1> QED BY <1>2, <1>6, <1>7, <1>8

\* What the page is shown of a turn is the user's message and what it is shown
\* of each answer.
LEMMA TurnEventsParts ==
  ASSUME NEW x, IsSession(x), NEW t \in 1..Len(x.turns)
  PROVE  LET turn == x.turns[t] responses == Responses(x.desktop, turn, t)
             shown == [r \in 1..Len(turn.answers) |-> Live(responses[r], IsReply(turn, r))]
         IN /\ TurnEvents(x.desktop, turn, t) = <<UserEvent(x, t)>> \o FlattenSeq(shown)
            /\ shown \in Seq(Seq(Events)) /\ FlattenSeq(shown) \in Seq(Events)
            /\ Len(shown) = Len(turn.answers)
            /\ ShownTurn(x, t) \in Seq(Events)
<1> DEFINE turn == x.turns[t] responses == Responses(x.desktop, turn, t)
           shown == [r \in 1..Len(turn.answers) |-> Live(responses[r], IsReply(turn, r))]
           user == <<UserEvent(x, t)>>
<1>1. Len(responses) = Len(turn.answers) /\ Len(turn.answers) \in Nat
      /\ \A r \in 1..Len(turn.answers) : responses[r] \in ResponseSet
  BY TurnResponses DEF GoodParse
<1>2. TurnEvents(x.desktop, turn, t) = user \o FlattenSeq(shown)
  <2>1. TurnEvents(x.desktop, turn, t)
        = user \o FlattenSeq([r \in 1..Len(responses) |-> Live(responses[r], IsReply(turn, r))])
    BY DEF TurnEvents, UserEvent
  <2> QED BY <1>1, <2>1
<1>3. \A r \in 1..Len(turn.answers) : Live(responses[r], IsReply(turn, r)) \in Seq(Events)
  BY <1>1, LiveEvents
<1>4. shown \in Seq(Seq(Events)) /\ Len(shown) = Len(turn.answers)
  BY <1>1, <1>3
<1>5. user \in Seq(Events)
  BY HelloEvents
<1>6. FlattenSeq(shown) \in Seq(Events)
  <2> HIDE DEF shown
  <2> QED BY <1>4, FlattenType
<1>7. ShownTurn(x, t) = IF turn.error THEN user ELSE TurnEvents(x.desktop, turn, t)
  BY DEF ShownTurn, UserEvent
<1> HIDE DEF shown, user
<1>8. ShownTurn(x, t) \in Seq(Events)
  <2>1. user \o FlattenSeq(shown) \in Seq(Events)
    BY <1>5, <1>6
  <2> QED BY <1>2, <1>5, <1>7, <2>1
<1> QED BY <1>2, <1>4, <1>6, <1>8 DEF shown, user

\* What is stored of a turn has the events the page was shown of it, of each
\* type.
LEMMA TurnShown ==
  ASSUME NEW x, IsSession(x), ~Nudged(x), NEW t \in 1..Len(x.turns),
         NEW types \in EventKinds, "user" \in types => ~Enveloped(x)
  PROVE  Mapped(TurnStored(x.desktop, x.turns[t], t), OfMessage(x.desktop, types)) = OfType(ShownTurn(x, t), types)
<1> DEFINE turn == x.turns[t] responses == Responses(x.desktop, turn, t) parts == Parts(x, t)
           shown == [r \in 1..Len(turn.answers) |-> Live(responses[r], IsReply(turn, r))]
           user == <<UserEvent(x, t)>> hello == <<Opening(x, t)>> V == OfMessage(x.desktop, types)
           messages == TurnMessages(x.desktop, turn, t)
           rest == IF turn.error THEN <<>> ELSE Mapped(messages, StoredMap)
<1>0. V \in [Messages -> Seq(Events)]
  BY OfMessageType
<1>1. TurnStored(x.desktop, turn, t) = hello \o rest
  BY TurnStoredParts
<1>2. messages \in Seq(Messages) /\ messages = FlattenSeq(parts) /\ parts \in Seq(Seq(Messages))
      /\ Len(parts) = Len(turn.answers) /\ Len(turn.answers) \in Nat
  BY TurnParts
<1>3. rest \in Seq(Messages)
  <2> HIDE DEF messages
  <2> QED BY <1>2, StoredMapType, MappedType, NothingIsBuilt DEF NothingBuilt
<1>4. hello \in Seq(Messages) /\ user \in Seq(Events) /\ Mapped(hello, V) = OfType(user, types)
  BY HelloUnit, HelloEvents
<1>5. /\ TurnEvents(x.desktop, turn, t) = user \o FlattenSeq(shown)
      /\ shown \in Seq(Seq(Events)) /\ FlattenSeq(shown) \in Seq(Events)
      /\ Len(shown) = Len(turn.answers)
  BY TurnEventsParts
<1>6. ShownTurn(x, t) = IF turn.error THEN user ELSE TurnEvents(x.desktop, turn, t)
  BY DEF ShownTurn, UserEvent
<1>7. Len(responses) = Len(turn.answers)
      /\ \A r \in 1..Len(turn.answers) : responses[r] \in ResponseSet
  BY TurnResponses DEF GoodParse
<1>8. \A r \in 1..(Len(responses) - 1) : ~(responses[r].calls = <<>> /\ responses[r].text # "")
  BY DEF Nudged
<1>9. \A r \in 1..Len(turn.answers) : /\ parts[r] = Pushed(responses[r], IsReply(turn, r))
                                       /\ shown[r] = Live(responses[r], IsReply(turn, r))
  BY DEF Parts
<1>10. turn.error \in BOOLEAN
  BY SessionFields, TurnFields
<1> HIDE DEF parts, shown, responses, turn, V, messages, hello, user
<1>11. ASSUME ~turn.error, NEW r \in 1..Len(turn.answers)
       PROVE  Mapped(parts[r], V) = OfType(shown[r], types)
  <2> DEFINE response == responses[r] last == IsReply(turn, r)
  <2>1. response \in ResponseSet /\ parts[r] = Pushed(response, last) /\ shown[r] = Live(response, last)
    BY <1>7, <1>9
  <2>2. last = (r = Len(turn.answers)) /\ last \in BOOLEAN
    BY <1>11 DEF IsReply
  <2>3. r \in 1..(Len(responses) - 1) \/ last
    <3> DEFINE n == Len(turn.answers)
    <3>1. n \in Nat /\ Len(responses) = n /\ r \in 1..n /\ (last <=> r = n)
      BY <1>2, <1>7, <2>2
    <3> HIDE DEF n, last
    <3> QED BY <3>1
  <2> HIDE DEF response, last
  <2>4. CASE response.calls # <<>>
    <3>1. Mapped(Pushed(response, last), V)
            = OfType(StartedOf(response.calls), types) \o OfType(FinishedOf(response), types)
      BY <2>1, <2>4, CallsShown DEF V
    <3>2. OfType(Live(response, last), types)
            = OfType(StartedOf(response.calls), types) \o OfType(FinishedOf(response), types)
      BY <2>1, <2>4, CallsLive
    <3> QED BY <2>1, <3>1, <3>2
  <2>5. CASE response.calls = <<>>
    <3>1. last \/ response.text = ""
      BY <1>8, <2>3, <2>5 DEF response
    <3>2. Mapped(Pushed(response, last), OfMessage(x.desktop, types)) = OfType(Live(response, last), types)
      <4>1. response \in ResponseSet /\ last \in BOOLEAN
        BY <2>1, <2>2
      <4>2. \A d : Mapped(Pushed(response, last), OfMessage(d, types)) = OfType(Live(response, last), types)
        BY ONLY <2>5, <3>1, <4>1, TextShown
      <4> QED BY <4>2
    <3> QED BY <2>1, <3>2 DEF V
  <2> QED BY <2>4, <2>5
<1>12. ASSUME ~turn.error PROVE Mapped(messages, V) = OfType(FlattenSeq(shown), types)
  <2> DEFINE F == [r \in 1..Len(parts) |-> Mapped(parts[r], V)]
  <2>1. Mapped(FlattenSeq(parts), V) = FlattenSeq(F)
    BY <1>0, <1>2, FlattenMapped
  <2>2. TypesAre(shown, types, F)
    BY <1>2, <1>5, <1>11, <1>12 DEF TypesAre
  <2>3. FirstOf(F, Len(shown)) = F
    BY <1>2, <1>5 DEF FirstOf
  <2> HIDE DEF F
  <2>4. OfType(FlattenSeq(shown), types) = FlattenSeq(FirstOf(F, Len(shown)))
    BY <1>5, <2>2, OfTypeFlatten
  <2> QED BY <1>2, <2>1, <2>3, <2>4
<1>13. Mapped(Mapped(messages, StoredMap), V) = Mapped(messages, V)
  BY <1>2, StoredEvents DEF V
<1>14. Mapped(rest, V) = IF turn.error THEN <<>> ELSE OfType(FlattenSeq(shown), types)
  BY <1>10, <1>12, <1>13, MappedEmpty
<1> HIDE DEF rest
<1>15. Mapped(hello \o rest, V) = OfType(user, types) \o Mapped(rest, V)
  BY <1>0, <1>3, <1>4, MappedConcat
<1>16. CASE turn.error
  <2>1. OfType(user, types) \in Seq(Events)
    BY <1>4, OfTypeIsMapped
  <2>2. OfType(user, types) \o <<>> = OfType(user, types)
    BY <2>1
  <2> QED BY <1>1, <1>6, <1>14, <1>15, <1>16, <2>2 DEF V, turn
<1>17. CASE ~turn.error
  <2>1. OfType(user \o FlattenSeq(shown), types) = OfType(user, types) \o OfType(FlattenSeq(shown), types)
    BY <1>4, <1>5, OfTypeConcat
  <2> QED BY <1>1, <1>5, <1>6, <1>14, <1>15, <1>17, <2>1 DEF V, turn
<1> QED BY <1>10, <1>16, <1>17

\* What a session's file shows, of one type, is what the page was shown.
LEMMA SessionShown ==
  ASSUME NEW x, IsSession(x), ~Nudged(x), NEW types \in EventKinds, "user" \in types => ~Enveloped(x)
  PROVE  /\ Mapped(SessionStored(x, Len(x.turns)), EventsMap(x.desktop)) \in Seq(Events)
         /\ OfType(Mapped(SessionStored(x, Len(x.turns)), EventsMap(x.desktop)), types) = OfType(Shown(x), types)
<1> DEFINE n == Len(x.turns) V == OfMessage(x.desktop, types)
           ss == [t \in 1..n |-> TurnStored(x.desktop, x.turns[t], t)]
           shown == [t \in 1..n |-> ShownTurn(x, t)]
           F == [t \in 1..n |-> Mapped(ss[t], V)]
           stored == SessionStored(x, n)
<1>0. n \in Nat /\ n \in 0..Len(x.turns)
  BY SessionFields
<1>1. V \in [Messages -> Seq(Events)]
  BY OfMessageType
<1>2. ss \in Seq(Seq(Messages)) /\ stored \in Seq(Messages) /\ stored = FlattenSeq(ss) /\ Len(ss) = n
  BY <1>0, SessionStoredType DEF SessionStored
<1>3. \A t \in 1..n : ShownTurn(x, t) \in Seq(Events)
  BY TurnEventsParts
<1>4. shown \in Seq(Seq(Events)) /\ Len(shown) = n
  BY <1>0, <1>3
<1>5. Shown(x) = FlattenSeq(shown)
  BY Zenon DEF Shown, ShownTurn
<1>6. \A t \in 1..n : Mapped(ss[t], V) = OfType(shown[t], types)
  BY TurnShown
<1> HIDE DEF n, V, ss, shown, stored
<1>7. Mapped(stored, V) = FlattenSeq(F)
  BY <1>1, <1>2, FlattenMapped, ZenonT(30)
<1>8. TypesAre(shown, types, F)
  BY <1>4, <1>6 DEF TypesAre
<1>9. FirstOf(F, Len(shown)) = F
  BY <1>4 DEF FirstOf
<1> HIDE DEF F
<1>10. OfType(FlattenSeq(shown), types) = FlattenSeq(FirstOf(F, Len(shown)))
  BY <1>4, <1>8, OfTypeFlatten
<1>11. Mapped(stored, EventsMap(x.desktop)) \in Seq(Events)
       /\ OfType(Mapped(stored, EventsMap(x.desktop)), types) = Mapped(stored, V)
  BY <1>2, EventsIsMapped, EventsOfTypes DEF V
<1> QED BY <1>5, <1>7, <1>9, <1>10, <1>11 DEF stored, n

\* A sequence ends with what was put at its end.
LEMMA SuffixConcat ==
  ASSUME NEW S, NEW a \in Seq(S), NEW b \in Seq(S)
  PROVE  IsSuffix(b, a \o b)
<1> DEFINE c == a \o b
<1>1. Len(c) = Len(a) + Len(b) /\ Len(a) \in Nat /\ Len(b) \in Nat /\ c \in Seq(S)
      /\ \A k \in 1..Len(b) : c[Len(a) + k] = b[k]
  OBVIOUS
<1> HIDE DEF c
<1> DEFINE rb == [i \in 1..Len(b) |-> b[(Len(b) - i) + 1]]
           rc == [i \in 1..Len(c) |-> c[(Len(c) - i) + 1]]
<1>2. rb \in Seq(S) /\ Len(rb) = Len(b) /\ \A i \in 1..Len(b) : rb[i] = b[(Len(b) - i) + 1]
  <2>1. \A i \in 1..Len(b) : (Len(b) - i) + 1 \in 1..Len(b)
    BY <1>1
  <2> QED BY <1>1, <2>1
<1>3. rc \in Seq(S) /\ Len(rc) = Len(c) /\ \A i \in 1..Len(c) : rc[i] = c[(Len(c) - i) + 1]
  <2>1. \A i \in 1..Len(c) : (Len(c) - i) + 1 \in 1..Len(c)
    BY <1>1
  <2> QED BY <1>1, <2>1
<1> HIDE DEF rb, rc
<1>4. \A i \in 1..Len(b) : rb[i] = rc[i]
  <2>1. ASSUME NEW i \in 1..Len(b) PROVE rb[i] = rc[i]
    <3>1. (Len(c) - i) + 1 = Len(a) + ((Len(b) - i) + 1) /\ (Len(b) - i) + 1 \in 1..Len(b)
          /\ i \in 1..Len(c)
      <4> DEFINE la == Len(a) lb == Len(b) lc == Len(c)
      <4>1. la \in Nat /\ lb \in Nat /\ lc = la + lb /\ i \in 1..lb
        BY <1>1
      <4> HIDE DEF la, lb, lc
      <4>2. (lc - i) + 1 = la + ((lb - i) + 1) /\ (lb - i) + 1 \in 1..lb /\ i \in 1..lc
        BY ONLY <4>1
      <4> QED BY <4>2 DEF la, lb, lc
    <3> QED BY <1>1, <1>2, <1>3, <3>1
  <2> QED BY <2>1
<1>5. Len(rb) <= Len(rc)
  BY <1>1, <1>2, <1>3
<1>6. SubSeq(rb, 1, Len(rb)) = SubSeq(rc, 1, Len(rb))
  BY <1>1, <1>2, <1>3, <1>4, <1>5
<1>7. IsPrefix(rb, rc)
  BY <1>5, <1>6 DEF IsPrefix
<1> QED BY <1>7 DEF IsSuffix, Reverse, rb, rc, c

\* A sequence is its first members and the rest.
LEMMA SplitAt ==
  ASSUME NEW S, NEW s \in Seq(S), NEW i \in 1..(Len(s) + 1)
  PROVE  /\ SubSeq(s, 1, i - 1) \in Seq(S) /\ SubSeq(s, i, Len(s)) \in Seq(S)
         /\ s = SubSeq(s, 1, i - 1) \o SubSeq(s, i, Len(s))
<1> DEFINE n == Len(s) a == SubSeq(s, 1, i - 1) b == SubSeq(s, i, n)
<1>1. n \in Nat /\ i \in Int /\ 1 <= i /\ i <= n + 1
  OBVIOUS
<1>2. a \in Seq(S) /\ Len(a) = i - 1 /\ \A k \in 1..(i - 1) : a[k] = s[k]
  BY <1>1
<1>3. b \in Seq(S) /\ Len(b) = (n - i) + 1 /\ \A k \in 1..((n - i) + 1) : b[k] = s[(i - 1) + k]
  BY <1>1
<1>4. s \in Seq(S) /\ Len(s) = n /\ Len(s) \in Nat
  OBVIOUS
<1> HIDE DEF a, b, n
<1> DEFINE c == a \o b
<1>5. c \in Seq(S) /\ Len(c) = n
  <2>1. c \in Seq(S) /\ Len(c) = Len(a) + Len(b)
    BY <1>2, <1>3, ConcatProperties
  <2>2. (i - 1) + ((n - i) + 1) = n
    BY <1>1
  <2> QED BY <1>2, <1>3, <2>1, <2>2
<1>6. \A k \in 1..n : c[k] = s[k]
  <2>1. ASSUME NEW k \in 1..n PROVE c[k] = s[k]
    <3>1. CASE k <= i - 1
      <4>1. c[k] = a[k]
        BY <1>1, <1>2, <1>3, <3>1
      <4> QED BY <1>1, <1>2, <3>1, <4>1
    <3>2. CASE ~(k <= i - 1)
      <4>1. k - (i - 1) \in 1..((n - i) + 1) /\ k = (i - 1) + (k - (i - 1))
        BY <1>1, <3>2
      <4>2. c[k] = b[k - (i - 1)]
        BY <1>1, <1>2, <1>3, <3>2
      <4> QED BY <1>3, <4>1, <4>2
    <3> QED BY <3>1, <3>2
  <2> QED BY <2>1
<1> HIDE DEF c
<1>7. c = s
  BY <1>4, <1>5, <1>6, SeqEqual
<1> QED BY <1>2, <1>3, <1>7 DEF a, b, c, n

\* The history is the end of what the page was shown, of each type.
LEMMA SessionReplayed ==
  ASSUME NEW x, IsSession(x), ~Nudged(x), NEW types \in EventKinds, "user" \in types => ~Enveloped(x)
  PROVE  IsSuffix(OfType(ConvertSession(x).history, types), OfType(Shown(x), types))
<1> DEFINE E == Mapped(SessionStored(x, Len(x.turns)), EventsMap(x.desktop))
           i == IF Len(E) > MaxEvents THEN Len(E) - MaxEvents + 1 ELSE 1
           a == SubSeq(E, 1, i - 1) b == SubSeq(E, i, Len(E))
<1>1. E \in Seq(Events) /\ OfType(E, types) = OfType(Shown(x), types)
  BY SessionShown
<1>2. ConvertSession(x).history = b
  <2>1. SessionStored(x, Len(x.turns)) \in Seq(Messages)
    <3>1. Len(x.turns) \in 0..Len(x.turns)
      BY SessionFields
    <3> QED BY <3>1, SessionStoredType
  <2>2. FlattenSeq([k \in 1..Len(SessionStored(x, Len(x.turns))) |-> EventsOf(x.desktop, SessionStored(x, Len(x.turns))[k])]) = E
    BY <2>1, EventsIsMapped
  <2> HIDE DEF E
  <2>3. History(x.desktop, SessionStored(x, Len(x.turns))) = b
    BY <2>2, Zenon DEF History
  <2> QED BY <2>3 DEF ConvertSession
<1> HIDE DEF E
<1>3. i \in 1..(Len(E) + 1)
  BY <1>1, MaxEventsAssumption
<1> HIDE DEF i
<1>4. a \in Seq(Events) /\ b \in Seq(Events) /\ E = a \o b
  BY <1>1, <1>3, SplitAt
<1> HIDE DEF a, b
<1>5. OfType(E, types) = OfType(a, types) \o OfType(b, types)
      /\ OfType(a, types) \in Seq(Events) /\ OfType(b, types) \in Seq(Events)
  BY <1>4, OfTypeConcat, OfTypeIsMapped
<1> DEFINE oa == OfType(a, types) ob == OfType(b, types)
<1>6. oa \in Seq(Events) /\ ob \in Seq(Events) /\ OfType(Shown(x), types) = oa \o ob
  BY <1>1, <1>5
<1> HIDE DEF oa, ob
<1>7. IsSuffix(ob, oa \o ob)
  BY <1>6, SuffixConcat
<1> QED BY <1>2, <1>6, <1>7 DEF ob

-----------------------------------------------------------------------------
(* The theorems.                                                           *)

\* Once converted, the output is what the input is converted to.
Inv == input \in Inputs /\ (converted => output = Convert(input))

\* So it is in every state.
LEMMA InvAlways == Spec => []Inv
<1>1. Init => Inv
  BY DEF Init, Inv
<1>2. Inv /\ [ConvertInput]_vars => Inv'
  BY DEF Inv, ConvertInput, vars
<1> QED BY <1>1, <1>2, PTL DEF Spec

\* The request and the history of a session, once it was converted.
LEMMA SessionConverted ==
  ASSUME Inv, Is("session")
  PROVE  IsSession(input) /\ output = ConvertSession(input)
<1>1. IsSession(input)
  BY InputsAssumption DEF Inv, Is
<1>2. Convert(input) = ConvertSession(input)
  BY DEF Convert, Is
<1> QED BY <1>1, <1>2 DEF Inv, Is

\* In every request, of either program, in a turn and after the session was
\* read back from its file, the results follow the calls they answer, by id
\* and in order, when the provider gives its calls ids.
THEOREM RequestsArePaired == Spec => []RequestsPaired
<1>1. Inv => RequestsPaired
  BY SessionConverted, SessionPaired DEF RequestsPaired
<1> QED BY <1>1, InvAlways, PTL

\* Every request has the signatures of the calls it has to show, each once
\* and in order: the firmware's of all stored turns, the desktop's of the
\* turn it is in.
THEOREM SignaturesGoBack == Spec => []SignaturesReturn
<1>1. Inv => SignaturesReturn
  BY SessionConverted, SessionSigned DEF SignaturesReturn
<1> QED BY <1>1, InvAlways, PTL

\* The history of a session is the end of what its page was shown, for each
\* of the three kinds of events, but for envelopes in a desktop's texts.
THEOREM HistoryIsReplayed == Spec => []ReplayIsLive
<1>1. Inv => ReplayIsLive
  <2>1. {{"user", "text"}, {"started"}, {"finished"}} = EventKinds
    BY DEF EventKinds
  <2>2. ASSUME Inv, Is("session"), ~Nudged(input), NEW types \in EventKinds,
               "user" \in types => ~Enveloped(input)
        PROVE  IsSuffix(OfType(output.history, types), OfType(Shown(input), types))
    BY <2>2, SessionConverted, SessionReplayed
  <2> QED BY <2>1, <2>2 DEF ReplayIsLive
<1> QED BY <1>1, InvAlways, PTL
=============================================================================
