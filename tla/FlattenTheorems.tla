-------------------------- MODULE FlattenTheorems --------------------------
(***************************************************************************)
(* Induction on the natural numbers, and what FlattenSeq makes of a        *)
(* sequence of sequences that is taken apart at either end.                *)
(***************************************************************************)
EXTENDS Integers, Sequences, SequencesExt, SequenceTheorems, FiniteSetTheorems,
        WellFoundedInduction, TLAPS

(* Complete induction, for sets: the strict subset ordering of the sets    *)
(* 0..n is well founded.                                                   *)
LEMMA CompleteInduction ==
  ASSUME NEW S, \A n \in Nat : (\A m \in 0..(n - 1) : m \in S) => n \in S
  PROVE  Nat \subseteq S
<1> SUFFICES ASSUME ~(Nat \subseteq S) PROVE FALSE
  OBVIOUS
<1> DEFINE Rest == Nat \ S
<1> DEFINE Upto == {0..n : n \in Rest}
<1>1. Upto \subseteq FiniteSubsetsOf(Nat)
  <2> SUFFICES ASSUME NEW n \in Rest PROVE 0..n \in FiniteSubsetsOf(Nat)
    OBVIOUS
  <2>1. IsFiniteSet(0..n)
    BY FS_Interval
  <2> QED
    BY <2>1 DEF FiniteSubsetsOf
<1>2. Upto # {}
  OBVIOUS
<1>3. \E U \in Upto : \A V \in Upto : ~(<<V, U>> \in StrictSubsetOrdering(Nat))
  <2> HIDE DEF Upto
  <2> QED
    BY <1>1, <1>2, FS_StrictSubsetOrderingWellFounded, WFMin
<1>4. PICK n \in Rest : \A m \in Rest : ~(<<0..m, 0..n>> \in StrictSubsetOrdering(Nat))
  BY <1>3
<1>5. ASSUME NEW m \in 0..(n - 1), m \notin S PROVE FALSE
  <2>1. m \in Rest /\ 0..m \subseteq 0..n /\ n \in 0..n /\ n \notin 0..m
    BY <1>5
  <2>2. 0..m \subseteq Nat /\ 0..n \subseteq Nat /\ 0..m # 0..n
    BY <2>1
  <2>3. <<0..m, 0..n>> \in StrictSubsetOrdering(Nat)
    BY <2>1, <2>2 DEF StrictSubsetOrdering
  <2> QED
    BY <1>4, <2>1, <2>3
<1> QED
  BY <1>5

-----------------------------------------------------------------------------
(* FlattenSeq, by the head and the tail of its argument.                   *)

LEMMA Associative ==
  ASSUME NEW R, NEW a \in Seq(R), NEW b \in Seq(R), NEW c \in Seq(R)
  PROVE  (a \o b) \o c = a \o (b \o c)
BY ConcatAssociative

Unfolding(s) ==
  LET flatten[i \in 1..Len(s)] == IF i = 1 THEN s[i] ELSE flatten[i - 1] \o s[i]
  IN flatten

(* The sequences that the recursion of FlattenSeq goes through.            *)
Unfoldings(R, s, n) ==
  {g \in [1..n -> Seq(R)] :
     \A i \in 1..n : g[i] = IF i = 1 THEN s[i] ELSE g[i - 1] \o s[i]}

LEMMA UnfoldingsExist ==
  ASSUME NEW R, NEW s \in Seq(Seq(R))
  PROVE  \A n \in Nat : n <= Len(s) => Unfoldings(R, s, n) # {}
<1> DEFINE S == {n \in Nat : n <= Len(s) => Unfoldings(R, s, n) # {}}
<1>1. ASSUME NEW n \in Nat, \A m \in 0..(n - 1) : m \in S PROVE n \in S
  <2> SUFFICES ASSUME n <= Len(s) PROVE Unfoldings(R, s, n) # {}
    OBVIOUS
  <2>1. Len(s) \in Nat
    BY LenProperties
  <2>2. CASE n = 0
    <3>1. [i \in 1..0 |-> <<>>] \in Unfoldings(R, s, 0)
      BY DEF Unfoldings
    <3> QED
      BY <2>2, <3>1
  <2>3. CASE n # 0
    <3>1. n - 1 \in Nat /\ n - 1 \in 0..(n - 1) /\ n - 1 <= Len(s)
      BY <2>1, <2>3
    <3>2. PICK g : g \in Unfoldings(R, s, n - 1)
      BY <1>1, <3>1
    <3>3. /\ g \in [1..(n - 1) -> Seq(R)]
          /\ \A i \in 1..(n - 1) : g[i] = IF i = 1 THEN s[i] ELSE g[i - 1] \o s[i]
      BY <3>2 DEF Unfoldings
    <3> DEFINE last == IF n = 1 THEN s[n] ELSE g[n - 1] \o s[n]
    <3> DEFINE h == [i \in 1..n |-> IF i = n THEN last ELSE g[i]]
    <3>4. last \in Seq(R)
      <4>1. s[n] \in Seq(R)
        BY <2>1, <2>3, ElementOfSeq
      <4>2. n # 1 => g[n - 1] \in Seq(R)
        BY <2>3, <3>3
      <4> QED
        BY <4>1, <4>2, ConcatProperties
    <3>5. h \in [1..n -> Seq(R)]
      <4> HIDE DEF last
      <4> QED
        BY <3>3, <3>4
    <3>6. ASSUME NEW i \in 1..n PROVE h[i] = IF i = 1 THEN s[i] ELSE h[i - 1] \o s[i]
      <4>1. i # 1 => i - 1 \in 1..n /\ i - 1 # n
        OBVIOUS
      <4>2. i # 1 => h[i - 1] = g[i - 1]
        BY <4>1
      <4>3. h[i] = IF i = n THEN last ELSE g[i]
        OBVIOUS
      <4>4. i # n => i \in 1..(n - 1)
        OBVIOUS
      <4> HIDE DEF h
      <4>5. CASE i = n
        BY <4>2, <4>3, <4>5
      <4>6. CASE i # n
        BY <3>3, <4>2, <4>3, <4>4, <4>6
      <4> QED
        BY <4>5, <4>6
    <3>7. h \in Unfoldings(R, s, n)
      <4> HIDE DEF h
      <4> QED
        BY <3>5, <3>6 DEF Unfoldings
    <3> QED
      BY <3>7
  <2> QED
    BY <2>2, <2>3
<1> HIDE DEF S
<1>2. Nat \subseteq S
  BY <1>1, CompleteInduction
<1> QED
  BY <1>2 DEF S

LEMMA UnfoldingDef ==
  ASSUME NEW R, NEW s \in Seq(Seq(R)), NEW i \in 1..Len(s)
  PROVE  Unfolding(s)[i] = IF i = 1 THEN s[i] ELSE Unfolding(s)[i - 1] \o s[i]
<1>1. PICK g : g \in Unfoldings(R, s, Len(s))
  BY UnfoldingsExist, LenProperties
<1>2. g = [j \in 1..Len(s) |-> IF j = 1 THEN s[j] ELSE g[j - 1] \o s[j]]
  <2>1. g = [j \in 1..Len(s) |-> g[j]]
    BY <1>1 DEF Unfoldings
  <2>2. \A j \in 1..Len(s) : g[j] = IF j = 1 THEN s[j] ELSE g[j - 1] \o s[j]
    BY <1>1 DEF Unfoldings
  <2> QED
    BY <2>1, <2>2, Zenon
<1>3. Unfolding(s) = [j \in 1..Len(s) |-> IF j = 1 THEN s[j]
                                          ELSE Unfolding(s)[j - 1] \o s[j]]
  BY <1>2, Zenon DEF Unfolding
<1> QED
  BY <1>3, Zenon

LEMMA FlattenIsUnfolding ==
  ASSUME NEW s, Len(s) # 0 PROVE FlattenSeq(s) = Unfolding(s)[Len(s)]
BY DEF FlattenSeq, Unfolding

(* What the first n elements make, and what the same without the first.    *)
LEMMA UnfoldingPrefix ==
  ASSUME NEW R, NEW s \in Seq(Seq(R)), NEW t \in Seq(Seq(R)),
         Len(s) = Len(t) + 1, \A i \in 1..Len(t) : t[i] = s[i + 1]
  PROVE  /\ Unfolding(s)[1] = s[1]
         /\ \A n \in Nat : n \in 1..Len(t) =>
              /\ Unfolding(t)[n] \in Seq(R)
              /\ Unfolding(s)[n + 1] = s[1] \o Unfolding(t)[n]
<1> SUFFICES ASSUME NEW h \in Seq(R), h = s[1], NEW N \in Nat, N = Len(t)
             PROVE  /\ Unfolding(s)[1] = h
                    /\ \A n \in Nat : n \in 1..N =>
                         /\ Unfolding(t)[n] \in Seq(R)
                         /\ Unfolding(s)[n + 1] = h \o Unfolding(t)[n]
  <2>1. Len(t) \in Nat
    BY LenProperties
  <2>2. 1 \in 1..Len(s)
    BY <2>1
  <2>3. s[1] \in Seq(R)
    BY <2>2, ElementOfSeq
  <2> QED
    BY <2>1, <2>3
<1> DEFINE S == {n \in Nat : n \in 1..N => /\ Unfolding(t)[n] \in Seq(R)
                                           /\ Unfolding(s)[n + 1] = h \o Unfolding(t)[n]}
<1>1. Unfolding(s)[1] = h
  <2>1. 1 \in 1..Len(s)
    OBVIOUS
  <2> QED
    BY <2>1, UnfoldingDef
<1>2. ASSUME NEW n \in Nat, \A m \in 0..(n - 1) : m \in S PROVE n \in S
  <2> SUFFICES ASSUME n \in 1..N
               PROVE  /\ Unfolding(t)[n] \in Seq(R)
                      /\ Unfolding(s)[n + 1] = h \o Unfolding(t)[n]
    OBVIOUS
  <2>1. t[n] \in Seq(R) /\ s[n + 1] = t[n]
    BY ElementOfSeq
  <2>2. Unfolding(t)[n] = IF n = 1 THEN t[n] ELSE Unfolding(t)[n - 1] \o t[n]
    BY UnfoldingDef
  <2>3. Unfolding(s)[n + 1] = Unfolding(s)[n] \o t[n]
    <3>1. PICK i \in 1..Len(s) : i = n + 1 /\ i # 1 /\ i - 1 = n
      OBVIOUS
    <3>2. Unfolding(s)[i] = Unfolding(s)[i - 1] \o s[i]
      BY <3>1, UnfoldingDef
    <3> QED
      BY <2>1, <3>1, <3>2
  <2>4. CASE n = 1
    BY <1>1, <2>1, <2>2, <2>3, <2>4
  <2>5. CASE n # 1
    <3>1. n - 1 \in 0..(n - 1) /\ n - 1 \in 1..N /\ (n - 1) + 1 = n
      BY <2>5
    <3>2. /\ Unfolding(t)[n - 1] \in Seq(R)
          /\ Unfolding(s)[n] = h \o Unfolding(t)[n - 1]
      BY <1>2, <3>1
    <3>3. (h \o Unfolding(t)[n - 1]) \o t[n] = h \o (Unfolding(t)[n - 1] \o t[n])
      <4>1. PICK g \in Seq(R), x \in Seq(R) : g = Unfolding(t)[n - 1] /\ x = t[n]
        BY <2>1, <3>2
      <4>2. (h \o g) \o x = h \o (g \o x)
        BY ONLY Associative
      <4> QED
        BY <4>1, <4>2
    <3>4. Unfolding(t)[n - 1] \o t[n] \in Seq(R)
      BY <2>1, <3>2, ConcatProperties
    <3> QED
      BY <2>2, <2>3, <2>5, <3>2, <3>3, <3>4
  <2> QED
    BY <2>4, <2>5
<1> HIDE DEF S
<1>3. Nat \subseteq S
  BY <1>2, CompleteInduction
<1> QED
  BY <1>1, <1>3 DEF S

LEMMA FlattenCons ==
  ASSUME NEW R, NEW s \in Seq(Seq(R)), s # <<>>
  PROVE  /\ FlattenSeq(s) \in Seq(R) /\ FlattenSeq(Tail(s)) \in Seq(R)
         /\ FlattenSeq(s) = Head(s) \o FlattenSeq(Tail(s))
<1>1. Len(s) \in Nat \ {0}
  BY EmptySeq
<1>2. /\ Tail(s) \in Seq(Seq(R)) /\ Len(Tail(s)) = Len(s) - 1
      /\ Head(s) = s[1] /\ Head(s) \in Seq(R)
      /\ \A i \in 1..Len(Tail(s)) : Tail(s)[i] = s[i + 1]
  BY HeadTailProperties
<1>3. PICK t \in Seq(Seq(R)), h \in Seq(R) : t = Tail(s) /\ h = Head(s)
  BY <1>2
<1>4. PICK N \in Nat : N = Len(t) /\ Len(s) = N + 1
  <2>1. Len(s) - 1 \in Nat /\ Len(t) = Len(s) - 1
    BY <1>1, <1>2, <1>3
  <2> QED
    BY <1>1, <2>1
<1>5. /\ Unfolding(s)[1] = h
      /\ \A n \in Nat : n \in 1..N => /\ Unfolding(t)[n] \in Seq(R)
                                       /\ Unfolding(s)[n + 1] = h \o Unfolding(t)[n]
  <2>1. s[1] = h /\ Len(s) = Len(t) + 1 /\ \A i \in 1..Len(t) : t[i] = s[i + 1]
    BY <1>2, <1>3, <1>4
  <2>2. /\ Unfolding(s)[1] = s[1]
        /\ \A n \in Nat : n \in 1..Len(t) =>
             /\ Unfolding(t)[n] \in Seq(R)
             /\ Unfolding(s)[n + 1] = s[1] \o Unfolding(t)[n]
    BY ONLY <1>3, <2>1, UnfoldingPrefix
  <2> QED
    BY <1>4, <2>1, <2>2
<1>6. FlattenSeq(s) = Unfolding(s)[N + 1]
  BY <1>4, FlattenIsUnfolding
<1>7. CASE N = 0
  <2>1. FlattenSeq(t) = t /\ t = <<>>
    BY <1>4, <1>7, EmptySeq DEF FlattenSeq
  <2>2. FlattenSeq(s) = h
    BY <1>5, <1>6, <1>7
  <2>3. <<>> \in Seq(R) /\ h \o <<>> = h
    BY EmptySeq, ConcatEmptySeq
  <2> QED
    BY <1>3, <2>1, <2>2, <2>3
<1>8. CASE N # 0
  <2>1. FlattenSeq(t) = Unfolding(t)[N]
    BY <1>4, <1>8, FlattenIsUnfolding
  <2>2. Unfolding(t)[N] \in Seq(R) /\ Unfolding(s)[N + 1] = h \o Unfolding(t)[N]
    BY <1>5, <1>8
  <2> QED
    BY <1>3, <1>6, <2>1, <2>2, ConcatProperties
<1> QED
  BY <1>7, <1>8

(* A sequence and the same with one more element at its end.               *)
LEMMA UnfoldingAgrees ==
  ASSUME NEW R, NEW s \in Seq(Seq(R)), NEW t \in Seq(Seq(R)),
         Len(s) = Len(t) + 1, \A i \in 1..Len(t) : t[i] = s[i]
  PROVE  \A n \in Nat : n \in 1..Len(t) => /\ Unfolding(t)[n] \in Seq(R)
                                           /\ Unfolding(s)[n] = Unfolding(t)[n]
<1> PICK N \in Nat : N = Len(t)
  BY LenProperties
<1> DEFINE S == {n \in Nat : n \in 1..N => /\ Unfolding(t)[n] \in Seq(R)
                                           /\ Unfolding(s)[n] = Unfolding(t)[n]}
<1>1. ASSUME NEW n \in Nat, \A m \in 0..(n - 1) : m \in S PROVE n \in S
  <2> SUFFICES ASSUME n \in 1..N
               PROVE  Unfolding(t)[n] \in Seq(R) /\ Unfolding(s)[n] = Unfolding(t)[n]
    OBVIOUS
  <2>1. t[n] \in Seq(R) /\ s[n] = t[n]
    BY ElementOfSeq
  <2>2. Unfolding(t)[n] = IF n = 1 THEN t[n] ELSE Unfolding(t)[n - 1] \o t[n]
    BY UnfoldingDef
  <2>3. Unfolding(s)[n] = IF n = 1 THEN s[n] ELSE Unfolding(s)[n - 1] \o s[n]
    <3>1. n \in 1..Len(s)
      OBVIOUS
    <3> QED
      BY <3>1, UnfoldingDef
  <2>4. CASE n = 1
    BY <2>1, <2>2, <2>3, <2>4
  <2>5. CASE n # 1
    <3>1. n - 1 \in 0..(n - 1) /\ n - 1 \in 1..N
      BY <2>5
    <3>2. Unfolding(t)[n - 1] \in Seq(R) /\ Unfolding(s)[n - 1] = Unfolding(t)[n - 1]
      BY <1>1, <3>1
    <3>3. Unfolding(t)[n - 1] \o t[n] \in Seq(R)
      BY <2>1, <3>2, ConcatProperties
    <3> QED
      BY <2>1, <2>2, <2>3, <2>5, <3>2, <3>3
  <2> QED
    BY <2>4, <2>5
<1> HIDE DEF S
<1>2. Nat \subseteq S
  BY <1>1, CompleteInduction
<1> QED
  BY <1>2 DEF S

LEMMA FlattenAppend ==
  ASSUME NEW R, NEW s \in Seq(Seq(R)), NEW x \in Seq(R)
  PROVE  /\ FlattenSeq(s) \in Seq(R)
         /\ FlattenSeq(Append(s, x)) = FlattenSeq(s) \o x
<1>1. PICK N \in Nat : N = Len(s)
  BY LenProperties
<1>2. PICK t \in Seq(Seq(R)) : t = Append(s, x)
  BY AppendProperties
<1>3. Len(t) = N + 1 /\ t[N + 1] = x /\ \A i \in 1..N : t[i] = s[i]
  BY <1>1, <1>2, AppendProperties
<1>4. \A n \in Nat : n \in 1..N => /\ Unfolding(s)[n] \in Seq(R)
                                   /\ Unfolding(t)[n] = Unfolding(s)[n]
  <2>1. Len(t) = Len(s) + 1 /\ \A i \in 1..Len(s) : s[i] = t[i]
    BY <1>1, <1>3
  <2>2. \A n \in Nat : n \in 1..Len(s) => /\ Unfolding(s)[n] \in Seq(R)
                                          /\ Unfolding(t)[n] = Unfolding(s)[n]
    BY ONLY s \in Seq(Seq(R)), <1>2, <2>1, UnfoldingAgrees
  <2> QED
    BY <1>1, <2>2
<1>5. N + 1 \in 1..Len(t) /\ (N + 1) - 1 = N /\ Len(t) # 0
  BY <1>3
<1>6. Unfolding(t)[N + 1] = IF N + 1 = 1 THEN t[N + 1] ELSE Unfolding(t)[(N + 1) - 1] \o t[N + 1]
  BY <1>5, UnfoldingDef
<1>7. FlattenSeq(t) = Unfolding(t)[N + 1]
  BY <1>3, <1>5, FlattenIsUnfolding
<1>8. CASE N = 0
  <2>1. FlattenSeq(s) = s /\ s = <<>>
    BY <1>1, <1>8, EmptySeq DEF FlattenSeq
  <2>2. FlattenSeq(t) = x
    BY <1>3, <1>6, <1>7, <1>8
  <2>3. <<>> \in Seq(R) /\ <<>> \o x = x
    BY EmptySeq, ConcatEmptySeq
  <2> QED
    BY <1>2, <2>1, <2>2, <2>3
<1>9. CASE N # 0
  <2>1. FlattenSeq(s) = Unfolding(s)[N]
    BY <1>1, <1>9, FlattenIsUnfolding
  <2>2. Unfolding(s)[N] \in Seq(R) /\ Unfolding(t)[N] = Unfolding(s)[N]
    BY <1>4, <1>9
  <2>3. FlattenSeq(t) = Unfolding(t)[N] \o x
    BY <1>3, <1>5, <1>6, <1>7, <1>9
  <2> QED
    BY <1>2, <2>1, <2>2, <2>3
<1> QED
  BY <1>8, <1>9

LEMMA FlattenNothing == FlattenSeq(<<>>) = <<>>
BY EmptySeq DEF FlattenSeq

(* A sequence that is given as a function, taken apart at its end.         *)
LEMMA AppendedFunction ==
  ASSUME NEW R, NEW n \in Nat, NEW f \in [1..n -> R], NEW g \in [1..(n + 1) -> R],
         \A i \in 1..n : g[i] = f[i]
  PROVE  f \in Seq(R) /\ g = Append(f, g[n + 1])
<1>1. f \in Seq(R) /\ Len(f) = n /\ g \in Seq(R) /\ Len(g) = n + 1
  BY IsASeq
<1>2. n + 1 \in 1..(n + 1)
  OBVIOUS
<1>3. PICK x \in R : x = g[n + 1]
  BY <1>2
<1>4. /\ Append(f, x) \in [1..(n + 1) -> R]
      /\ \A i \in 1..n : Append(f, x)[i] = f[i]
      /\ Append(f, x)[n + 1] = x
  <2>1. /\ Append(f, x) \in Seq(R) /\ Len(Append(f, x)) = n + 1
        /\ \A i \in 1..n : Append(f, x)[i] = f[i]
        /\ Append(f, x)[n + 1] = x
    BY <1>1, AppendProperties
  <2>2. Append(f, x) \in [1..(n + 1) -> R]
    BY <2>1, LenProperties
  <2> QED
    BY <2>1, <2>2
<1>5. \A i \in 1..(n + 1) : i \in 1..n \/ i = n + 1
  OBVIOUS
<1>6. \A i \in 1..(n + 1) : g[i] = Append(f, x)[i]
  BY <1>3, <1>4, <1>5
<1> QED
  BY <1>1, <1>3, <1>4, <1>6
=============================================================================
