--------------------------- MODULE InductionLemmas ---------------------------
(***************************************************************************)
(* Induction over the naturals, stated with a set instead of a predicate:  *)
(* a theorem that takes an operator cannot be cited by the proofs of the   *)
(* other modules, one that takes a set can.  With it, that functions       *)
(* defined by recursion exist and are unique, what FlattenSeq makes of a   *)
(* sequence, and that a bounded set of numbers has a largest one.          *)
(***************************************************************************)
EXTENDS Naturals, Sequences, SequencesExt, FiniteSetTheorems, TLAPS

\* A set that holds 0 and with every number its successor holds them all: of
\* the initial segments that end outside of it none would be the smallest.
LEMMA NatSetInduction ==
  ASSUME NEW S, 0 \in S, \A n \in Nat : n \in S => n + 1 \in S
  PROVE  Nat \subseteq S
<1> SUFFICES ASSUME NEW n \in Nat, n \notin S PROVE FALSE
  OBVIOUS
<1> DEFINE R == StrictSubsetOrdering(0..n)
           T == {0..k : k \in {j \in 0..n : j \notin S}}
<1>1. IsWellFoundedOn(R, SUBSET (0..n))
  <2>1. IsFiniteSet(0..n)
    BY FS_Interval
  <2>2. FiniteSubsetsOf(0..n) = SUBSET (0..n)
    BY <2>1, FS_FiniteSubsetsOfFinite
  <2>3. IsWellFoundedOn(R, FiniteSubsetsOf(0..n))
    BY FS_StrictSubsetOrderingWellFounded
  <2> QED  BY <2>2, <2>3
<1>2. T \subseteq SUBSET (0..n) /\ T # {}
  OBVIOUS
<1>3. \E x \in T : \A y \in T : ~ (<<y, x>> \in R)
  <2> HIDE DEF R, T
  <2> QED  BY <1>1, <1>2, WFMin
<1>4. PICK k \in 0..n : k \notin S /\ \A y \in T : ~ (<<y, 0..k>> \in R)
  BY <1>3
<1>5. k - 1 \in 0..n /\ k = (k - 1) + 1 /\ k - 1 \notin S
  BY <1>4
<1>6. 0..(k-1) \in T /\ 0..k \in SUBSET (0..n) /\ 0..(k-1) \in SUBSET (0..n)
  BY <1>5
<1>7. 0..(k-1) \subseteq 0..k /\ k \in 0..k /\ k \notin 0..(k-1)
  BY <1>5
<1>8. <<0..(k-1), 0..k>> \in R
  BY <1>6, <1>7 DEF StrictSubsetOrdering
<1> QED
  BY <1>4, <1>6, <1>8

\* The same up to a bound.
LEMMA UpToInduction ==
  ASSUME NEW n \in Nat, NEW S, 0 \in S, \A k \in 0..(n - 1) : k \in S => k + 1 \in S
  PROVE  0..n \subseteq S
<1> DEFINE T == {k \in Nat : k <= n => k \in S}
<1>1. 0 \in T
  OBVIOUS
<1>2. \A k \in Nat : k \in T => k + 1 \in T
  OBVIOUS
<1>3. Nat \subseteq T
  <2> HIDE DEF T
  <2> QED  BY <1>1, <1>2, NatSetInduction
<1> QED
  BY <1>3


\* T gives for the number of a step and what there was before what there is then.
StepsOn(T, n, X) == T \in [(1..n) \X X -> X]

Follows(f, T, n, X, base) ==
  /\ f \in [0..n -> X] /\ f[0] = base
  /\ \A k \in 1..n : f[k] = T[<<k, f[k - 1]>>]

\* A function defined by recursion over 0..n, with values in X, exists.
LEMMA RecursionExists ==
  ASSUME NEW n \in Nat, NEW X, NEW base \in X, NEW T, StepsOn(T, n, X)
  PROVE  \E f : Follows(f, T, n, X, base)
<1> USE DEF StepsOn
<1> DEFINE P(f, m) == /\ f \in [0..m -> X] /\ f[0] = base
                      /\ \A k \in 1..m : f[k] = T[<<k, f[k - 1]>>]
           S == {m \in 0..n : \E f : P(f, m)}
<1>1. 0 \in S
  <2>1. P([k \in 0..0 |-> base], 0)
    OBVIOUS
  <2> HIDE DEF P
  <2> QED  BY <2>1
<1>2. ASSUME NEW m \in 0..(n - 1), m \in S PROVE m + 1 \in S
  <2>1. PICK f : P(f, m)
    BY <1>2
  <2> DEFINE last == T[<<m + 1, f[m]>>]
             g == [k \in 0..(m + 1) |-> IF k <= m THEN f[k] ELSE last]
  <2>2. m \in 0..m /\ m + 1 \in 1..n /\ m \in Nat
    OBVIOUS
  <2>3. last \in X
    BY <2>1, <2>2
  <2> HIDE DEF last
  <2>4. g \in [0..(m + 1) -> X] /\ g[0] = base
    BY <2>1, <2>2, <2>3
  <2>5. ASSUME NEW k \in 1..(m + 1) PROVE g[k] = T[<<k, g[k - 1]>>]
    <3>1. CASE k <= m
      BY <2>1, <2>2, <3>1
    <3>2. CASE k = m + 1
      <4>1. g[k] = last /\ k - 1 = m /\ g[m] = f[m]
        BY <2>2, <3>2
      <4> QED  BY <3>2, <4>1 DEF last
    <3> QED  BY <2>2, <3>1, <3>2
  <2>6. P(g, m + 1)
    BY <2>4, <2>5
  <2> HIDE DEF P, g
  <2> QED  BY <2>2, <2>6
<1>3. n \in S
  <2> HIDE DEF S
  <2> QED  BY <1>1, <1>2, UpToInduction
<1>4. \E f : P(f, n)
  <2> HIDE DEF P
  <2> QED  BY <1>3
<1> QED  BY <1>4 DEF Follows

-----------------------------------------------------------------------------
(* FlattenSeq.                                                             *)

\* FlattenSeq by its recursion.
LEMMA FlattenRecursion ==
  ASSUME NEW s, Len(s) \in Nat, Len(s) > 0
  PROVE  \E f : /\ f = [i \in 1..Len(s) |-> IF i = 1 THEN s[i] ELSE f[i - 1] \o s[i]]
                /\ FlattenSeq(s) = f[Len(s)]
<1> DEFINE Is(f, n) == f = [i \in 1..n |-> IF i = 1 THEN s[i] ELSE f[i - 1] \o s[i]]
           T == {n \in 0..Len(s) : \E f : Is(f, n)}
<1>1. 0 \in T
  <2>1. Is(<<>>, 0)
    OBVIOUS
  <2>2. 0 \in 0..Len(s)
    OBVIOUS
  <2> HIDE DEF Is
  <2> QED  BY <2>1, <2>2
<1>2. ASSUME NEW n \in 0..(Len(s) - 1), n \in T PROVE n + 1 \in T
  <2>1. PICK f : Is(f, n)
    BY <1>2
  <2> DEFINE last == IF n = 0 THEN s[1] ELSE f[n] \o s[n + 1]
             g == [i \in 1..(n + 1) |-> IF i = n + 1 THEN last ELSE f[i]]
  <2>2. \A i \in 1..n : g[i] = f[i] /\ i \in 1..(n + 1)
    BY <1>2
  <2>3. \A i \in 1..n : f[i] = IF i = 1 THEN s[i] ELSE f[i - 1] \o s[i]
    BY <2>1
  <2>4. ASSUME NEW i \in 1..(n + 1)
        PROVE  g[i] = IF i = 1 THEN s[i] ELSE g[i - 1] \o s[i]
    <3>1. CASE i = n + 1
      <4>1. g[i] = last
        BY <3>1
      <4>2. i = 1 <=> n = 0
        BY <3>1, <1>2
      <4>3. n # 0 => i - 1 \in 1..n /\ i - 1 = n
        BY <3>1, <1>2
      <4> QED  BY <3>1, <4>1, <4>2, <4>3, <2>2
    <3>2. CASE i \in 1..n
      <4>1. i # 1 => i - 1 \in 1..n
        BY <3>2, <1>2
      <4> HIDE DEF g
      <4> QED  BY <3>2, <4>1, <2>2, <2>3
    <3> QED  BY <3>1, <3>2, <1>2
  <2>5. Is(g, n + 1)
    <3>1. g = [i \in 1..(n + 1) |-> g[i]]
      OBVIOUS
    <3> HIDE DEF g
    <3> QED  BY <3>1, <2>4
  <2>6. n + 1 \in 0..Len(s)
    BY <1>2
  <2> HIDE DEF Is, g
  <2> QED  BY <2>5, <2>6
<1>3. 0..Len(s) \subseteq T
  <2> HIDE DEF T
  <2> QED  BY <1>1, <1>2, UpToInduction
<1>4. \E f : Is(f, Len(s))
  <2>1. Len(s) \in 0..Len(s)
    OBVIOUS
  <2> HIDE DEF Is
  <2> QED  BY <1>3, <2>1
<1>5. LET f == CHOOSE f : Is(f, Len(s)) IN Is(f, Len(s))
  <2> HIDE DEF Is
  <2> QED  BY <1>4
<1>6. FlattenSeq(s) = (CHOOSE f : Is(f, Len(s)))[Len(s)]
  BY DEF FlattenSeq
<1> QED  BY <1>5, <1>6, Zenon
LEMMA FlattenNothing == FlattenSeq(<<>>) = <<>>
  BY DEF FlattenSeq

LEMMA FlattenType ==
  ASSUME NEW X, NEW s \in Seq(Seq(X))
  PROVE  FlattenSeq(s) \in Seq(X)
<1> DEFINE n == Len(s)
<1>1. n \in Nat /\ \A i \in 1..n : s[i] \in Seq(X)
  OBVIOUS
<1>2. CASE n = 0
  <2>1. s = <<>>
    BY <1>2
  <2>2. <<>> \in Seq(X)
    OBVIOUS
  <2> QED  BY <2>1, <2>2, FlattenNothing
<1>3. CASE n > 0
  <2>1. PICK f : /\ f = [i \in 1..n |-> IF i = 1 THEN s[i] ELSE f[i - 1] \o s[i]]
                 /\ FlattenSeq(s) = f[n]
    BY <1>1, <1>3, FlattenRecursion
  <2>2. \A i \in 1..n : f[i] = IF i = 1 THEN s[i] ELSE f[i - 1] \o s[i]
    BY <2>1
  <2> DEFINE T == {i \in 0..n : i > 0 => f[i] \in Seq(X)}
  <2> HIDE DEF n
  <2>3. 0 \in T
    BY <1>1
  <2>4. ASSUME NEW i \in 0..(n - 1), i \in T PROVE i + 1 \in T
    <3> DEFINE k == i + 1
    <3>1. k \in 1..n /\ k - 1 = i /\ (k = 1 <=> i = 0) /\ k \in 0..n /\ (i # 0 => i > 0)
      BY <1>1
    <3> HIDE DEF k
    <3>2. f[k] = IF i = 0 THEN s[k] ELSE f[i] \o s[k]
      BY <2>2, <3>1
    <3>3. i # 0 => f[i] \in Seq(X)
      BY <2>4, <3>1
    <3>4. s[k] \in Seq(X)
      BY <1>1, <3>1
    <3>5. f[k] \in Seq(X)
      <4>1. CASE i = 0
        BY <3>2, <3>4, <4>1
      <4>2. CASE i # 0
        <5>1. ASSUME NEW a \in Seq(X), NEW b \in Seq(X) PROVE a \o b \in Seq(X)
          OBVIOUS
        <5> QED  BY <3>2, <3>3, <3>4, <4>2, <5>1
      <4> QED  BY <4>1, <4>2
    <3> QED  BY <3>1, <3>5 DEF k
  <2>5. 0..n \subseteq T
    <3> HIDE DEF T
    <3> QED  BY <1>1, <2>3, <2>4, UpToInduction
  <2>6. n \in 0..n
    BY <1>1
  <2> QED  BY <1>3, <2>1, <2>5, <2>6
<1> QED  BY <1>1, <1>2, <1>3

LEMMA FlattenAppend ==
  ASSUME NEW X, NEW s \in Seq(Seq(X)), NEW e \in Seq(X)
  PROVE  FlattenSeq(Append(s, e)) = FlattenSeq(s) \o e
<1> DEFINE n == Len(s)
           t == Append(s, e)
<1>1. /\ n \in Nat /\ Len(t) = n + 1 /\ t[n + 1] = e
      /\ \A i \in 1..n : t[i] = s[i] /\ i \in 1..(n + 1)
  OBVIOUS
<1>2. PICK g : /\ g = [i \in 1..(n + 1) |-> IF i = 1 THEN t[i] ELSE g[i - 1] \o t[i]]
               /\ FlattenSeq(t) = g[n + 1]
  <2>1. Len(t) \in Nat /\ Len(t) > 0 /\ Len(t) = n + 1
    BY <1>1
  <2> HIDE DEF t, n
  <2> QED  BY <2>1, FlattenRecursion
<1>3. \A i \in 1..(n + 1) : g[i] = IF i = 1 THEN t[i] ELSE g[i - 1] \o t[i]
  BY <1>2
<1>4. CASE n = 0
  <2>1. s = <<>> /\ <<>> \o e = e
    BY <1>4
  <2>2. FlattenSeq(t) = e
    <3>1. 1 \in 1..(n + 1) /\ n + 1 = 1
      BY <1>4
    <3> HIDE DEF t, n
    <3> QED  BY <1>1, <1>2, <1>3, <3>1
  <2>3. FlattenSeq(s) \o e = e
    BY <2>1, FlattenNothing
  <2> HIDE DEF n
  <2> QED  BY <2>2, <2>3
<1>5. CASE n > 0
  <2>1. PICK f : /\ f = [i \in 1..n |-> IF i = 1 THEN s[i] ELSE f[i - 1] \o s[i]]
                 /\ FlattenSeq(s) = f[n]
    BY <1>1, <1>5, FlattenRecursion
  <2>2. \A i \in 1..n : f[i] = IF i = 1 THEN s[i] ELSE f[i - 1] \o s[i]
    BY <2>1
  <2> DEFINE T == {i \in 0..n : i > 0 => g[i] = f[i]}
  <2> HIDE DEF n, t
  <2>3. 0 \in T
    BY <1>1
  <2>4. ASSUME NEW i \in 0..(n - 1), i \in T PROVE i + 1 \in T
    <3> DEFINE k == i + 1
    <3>1. /\ k \in 1..n /\ k \in 1..(n + 1) /\ k - 1 = i /\ (k = 1 <=> i = 0) /\ k \in 0..n
          /\ (i # 0 => i > 0)
      BY <1>1
    <3> HIDE DEF k
    <3>2. f[k] = IF i = 0 THEN s[k] ELSE f[i] \o s[k]
      BY <2>2, <3>1
    <3>3. g[k] = IF i = 0 THEN s[k] ELSE g[i] \o s[k]
      BY <1>1, <1>3, <3>1
    <3>4. i # 0 => g[i] = f[i]
      BY <2>4, <3>1
    <3> QED  BY <3>1, <3>2, <3>3, <3>4 DEF k
  <2>5. 0..n \subseteq T
    <3> HIDE DEF T
    <3> QED  BY <1>1, <2>3, <2>4, UpToInduction
  <2>6. g[n] = f[n]
    BY <1>1, <1>5, <2>5
  <2>7. n + 1 \in 1..(n + 1) /\ n + 1 # 1 /\ (n + 1) - 1 = n
    BY <1>1, <1>5
  <2>8. g[n + 1] = g[n] \o e
    BY <1>1, <1>3, <2>7
  <2> QED  BY <1>2, <2>1, <2>6, <2>8 DEF t
<1> QED  BY <1>1, <1>4, <1>5

LEMMA FlattenConcat ==
  ASSUME NEW X, NEW s \in Seq(Seq(X)), NEW t \in Seq(Seq(X))
  PROVE  FlattenSeq(s \o t) = FlattenSeq(s) \o FlattenSeq(t)
<1> DEFINE n == Len(t)
           U(k) == SubSeq(t, 1, k)
           T == {k \in 0..n : FlattenSeq(s \o U(k)) = FlattenSeq(s) \o FlattenSeq(U(k))}
<1>1. n \in Nat /\ \A k \in 0..n : U(k) \in Seq(Seq(X))
  OBVIOUS
<1>2. 0 \in T
  <2>1. U(0) = <<>> /\ s \o <<>> = s
    OBVIOUS
  <2>2. FlattenSeq(s) \o <<>> = FlattenSeq(s)
    <3>1. FlattenSeq(s) \in Seq(X)
      BY FlattenType
    <3> QED  BY <3>1
  <2>3. 0 \in 0..n
    BY <1>1
  <2> HIDE DEF U, n
  <2> QED  BY <2>1, <2>2, <2>3, FlattenNothing
<1>3. ASSUME NEW k \in 0..(n - 1), k \in T PROVE k + 1 \in T
  <2> DEFINE e == t[k + 1]
  <2>1. k + 1 \in 0..n /\ k + 1 \in 1..n /\ k \in 0..n
    BY <1>1
  <2>2. e \in Seq(X) /\ U(k + 1) = Append(U(k), e)
    BY <2>1
  <2>3. ASSUME NEW u \in Seq(Seq(X)), NEW x \in Seq(X)
        PROVE  s \o Append(u, x) = Append(s \o u, x) /\ s \o u \in Seq(Seq(X))
    BY SMTT(40)
  <2> HIDE DEF U, n, e
  <2>4. U(k) \in Seq(Seq(X)) /\ s \o U(k) \in Seq(Seq(X))
        /\ s \o U(k + 1) = Append(s \o U(k), e)
    BY <1>1, <2>1, <2>2, <2>3
  <2>5. FlattenSeq(s \o U(k + 1)) = FlattenSeq(s \o U(k)) \o e
    BY <2>2, <2>4, FlattenAppend
  <2>6. FlattenSeq(U(k + 1)) = FlattenSeq(U(k)) \o e
    BY <2>2, <2>4, FlattenAppend
  <2>7. FlattenSeq(s) \in Seq(X) /\ FlattenSeq(U(k)) \in Seq(X)
    BY <2>4, FlattenType
  <2>8. (FlattenSeq(s) \o FlattenSeq(U(k))) \o e = FlattenSeq(s) \o (FlattenSeq(U(k)) \o e)
    <3>1. ASSUME NEW a \in Seq(X), NEW b \in Seq(X), NEW c \in Seq(X)
          PROVE  (a \o b) \o c = a \o (b \o c)
      BY SMTT(40)
    <3> QED  BY ONLY <2>2, <2>7, <3>1
  <2>9. FlattenSeq(s \o U(k)) = FlattenSeq(s) \o FlattenSeq(U(k))
    BY <1>3
  <2> QED  BY <2>1, <2>5, <2>6, <2>8, <2>9
<1>4. 0..n \subseteq T
  <2> HIDE DEF T, n
  <2> QED  BY <1>1, <1>2, <1>3, UpToInduction
<1>5. U(n) = t /\ n \in 0..n
  OBVIOUS
<1> HIDE DEF U, n
<1> QED  BY <1>4, <1>5

\* Nothing but empty parts.
LEMMA FlattenEmpties ==
  ASSUME NEW s \in Seq({<<>>})
  PROVE  FlattenSeq(s) = <<>>
<1> DEFINE n == Len(s)
           U(k) == SubSeq(s, 1, k)
           T == {k \in 0..n : FlattenSeq(U(k)) = <<>>}
<1>1. n \in Nat
  OBVIOUS
<1>2. 0 \in T
  <2>1. U(0) = <<>> /\ 0 \in 0..n
    OBVIOUS
  <2> HIDE DEF U, n
  <2> QED  BY <2>1, FlattenNothing
<1>3. ASSUME NEW k \in 0..(n - 1), k \in T PROVE k + 1 \in T
  <2>1. k + 1 \in 0..n /\ k + 1 \in 1..n
    BY <1>1
  <2>2. s[k + 1] = <<>> /\ U(k + 1) = Append(U(k), <<>>)
    BY <2>1
  <2>3. U(k) \in Seq(Seq({})) /\ <<>> \in Seq({})
    <3>1. \A i \in 1..n : s[i] = <<>>
      OBVIOUS
    <3>2. <<>> \in Seq({})
      OBVIOUS
    <3>3. \A i \in 1..n : s[i] \in Seq({})
      BY <3>1, <3>2
    <3> QED  BY <2>1, <3>3
  <2> HIDE DEF U, n
  <2>4. FlattenSeq(U(k + 1)) = FlattenSeq(U(k)) \o <<>>
    BY <2>2, <2>3, FlattenAppend
  <2>5. <<>> \o <<>> = <<>>
    OBVIOUS
  <2> QED  BY <1>3, <2>1, <2>4, <2>5
<1>4. 0..n \subseteq T
  <2> HIDE DEF T, n
  <2> QED  BY <1>1, <1>2, <1>3, UpToInduction
<1>5. U(n) = s /\ n \in 0..n
  OBVIOUS
<1> HIDE DEF U, n
<1> QED  BY <1>4, <1>5

\* The prefixes of a sequence grow by one element at a time.
LEMMA PrefixGrows ==
  ASSUME NEW X, NEW s \in Seq(X)
  PROVE  /\ SubSeq(s, 1, 0) = <<>> /\ SubSeq(s, 1, Len(s)) = s /\ Len(s) \in Nat
         /\ \A k \in 1..Len(s) : /\ s[k] \in X /\ SubSeq(s, 1, k - 1) \in Seq(X)
                                 /\ SubSeq(s, 1, k) = Append(SubSeq(s, 1, k - 1), s[k])
                                 /\ SubSeq(s, 1, k) = SubSeq(s, 1, k - 1) \o <<s[k]>>
<1>1. SubSeq(s, 1, 0) = <<>> /\ SubSeq(s, 1, Len(s)) = s /\ Len(s) \in Nat
  OBVIOUS
<1>2. ASSUME NEW k \in 1..Len(s)
      PROVE  /\ s[k] \in X /\ SubSeq(s, 1, k - 1) \in Seq(X)
             /\ SubSeq(s, 1, k) = Append(SubSeq(s, 1, k - 1), s[k])
  OBVIOUS
<1>3. ASSUME NEW t \in Seq(X), NEW e \in X PROVE Append(t, e) = t \o <<e>>
  OBVIOUS
<1> QED  BY <1>1, <1>2, <1>3

\* What satisfies the same recursion is the same.
LEMMA FollowsOnly ==
  ASSUME NEW n \in Nat, NEW f, NEW g, f[0] = g[0],
         \A k \in 1..n : f[k - 1] = g[k - 1] => f[k] = g[k]
  PROVE  \A k \in 0..n : f[k] = g[k]
<1> DEFINE S == {k \in 0..n : f[k] = g[k]}
<1>1. 0 \in S /\ \A k \in 0..(n - 1) : k \in S => k + 1 \in S
  <2>1. 0 \in S
    OBVIOUS
  <2>2. ASSUME NEW k \in 0..(n - 1), k \in S PROVE k + 1 \in S
    <3>1. k + 1 \in 1..n /\ (k + 1) - 1 = k /\ k + 1 \in 0..n /\ f[k] = g[k]
      BY <2>2
    <3>2. f[(k + 1) - 1] = g[(k + 1) - 1] => f[k + 1] = g[k + 1]
      BY <3>1
    <3>3. f[k + 1] = g[k + 1]
      BY ONLY <3>1, <3>2
    <3> QED  BY <3>1, <3>3
  <2> QED  BY <2>1, <2>2
<1>2. 0..n \subseteq S
  <2> HIDE DEF S
  <2> QED  BY <1>1, UpToInduction
<1> QED  BY <1>2

\* A set of numbers up to a bound has a largest one.
LEMMA LargestUpTo ==
  ASSUME NEW n \in Nat, NEW S \in SUBSET (0..n), S # {}
  PROVE  Max(S) \in S /\ \A y \in S : Max(S) >= y
<1>1. \E x \in S : \A y \in S : x >= y
  <2> SUFFICES ASSUME \A x \in S : \E y \in S : ~(x >= y) PROVE FALSE
    OBVIOUS
  <2> DEFINE U == {k \in 0..n : \E y \in S : y >= k}
  <2>1. 0 \in U
    <3>1. PICK y \in S : TRUE
      OBVIOUS
    <3>2. y \in 0..n /\ y >= 0 /\ 0 \in 0..n
      OBVIOUS
    <3> QED  BY <3>2
  <2>2. ASSUME NEW k \in 0..(n - 1), k \in U PROVE k + 1 \in U
    <3>1. PICK y \in S : y >= k
      BY <2>2
    <3>2. PICK z \in S : ~(y >= z)
      OBVIOUS
    <3>3. y \in Nat /\ z \in Nat /\ k \in Nat /\ k + 1 \in 0..n
      OBVIOUS
    <3>4. z >= k + 1
      BY <3>1, <3>2, <3>3
    <3> QED  BY <3>3, <3>4
  <2> HIDE DEF U
  <2>3. n \in U
    <3>1. 0..n \subseteq U
      BY <2>1, <2>2, UpToInduction
    <3> QED  BY <3>1
  <2>4. PICK y \in S : y >= n
    BY <2>3 DEF U
  <2>5. \A z \in S : y >= z
    BY <2>4
  <2> QED  BY <2>5
<1> QED  BY <1>1 DEF Max
=============================================================================
