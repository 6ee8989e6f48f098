---------------------------- MODULE InputProofs -----------------------------
(***************************************************************************)
(* Theorems about Format, for every text, every cost of its symbols and    *)
(* every limit a scroll buffer has room in; about Frames, for every        *)
(* sequence of messages and every place where the connection breaks; about *)
(* Parser, for every stream of units and every way to cut it; and about    *)
(* Commands, for every key, every sequence of modifiers and every count.   *)
(***************************************************************************)
EXTENDS Inputs, InductionLemmas, SequenceTheorems, TLAPS

Text == Seq(Symbols)

-----------------------------------------------------------------------------
(* Measure is a sum.                                                       *)

Sums(g, text) ==
  /\ g \in [0..Len(text) -> Nat] /\ g[0] = 0
  /\ \A k \in 1..Len(text) : g[k] = g[k-1] + Cost[text[k]]

\* The recursion Measure is defined by.
Unfolds(g, text) ==
  g = [k \in 0..Len(text) |-> IF k = 0 THEN 0 ELSE g[k-1] + Cost[text[k]]]

\* Of two texts put together the first comes first.
LEMMA ConcatText ==
  ASSUME NEW a \in Text, NEW b \in Text
  PROVE  /\ a \o b \in Text /\ Len(a \o b) = Len(a) + Len(b)
         /\ \A i \in 1..(Len(a) + Len(b)) :
              (a \o b)[i] = IF i <= Len(a) THEN a[i] ELSE b[i - Len(a)]
BY ConcatProperties DEF Text

\* A text and its symbols, which have a cost.
LEMMA TextFacts ==
  ASSUME NEW text \in Text
  PROVE  /\ Len(text) \in Nat /\ DOMAIN text = 1..Len(text)
         /\ \A i \in 1..Len(text) : text[i] \in Symbols /\ Cost[text[i]] \in Nat \ {0}
<1>1. Len(text) \in Nat /\ DOMAIN text = 1..Len(text)
  BY LenProperties DEF Text
<1>2. \A i \in 1..Len(text) : text[i] \in Symbols
  BY ElementOfSeq DEF Text
<1> QED  BY <1>1, <1>2, CostAssumption

\* Every text has sums of the costs of its prefixes.
LEMMA SumsExist ==
  ASSUME NEW text \in Text
  PROVE  \E g : Sums(g, text)
<1> DEFINE n == Len(text)
           T == [p \in (1..n) \X Nat |-> p[2] + Cost[text[p[1]]]]
<1>1. n \in Nat /\ 0 \in Nat /\ \A i \in 1..n : Cost[text[i]] \in Nat
  BY TextFacts
<1> HIDE DEF n
<1>2. StepsOn(T, n, Nat)
  BY <1>1 DEF StepsOn
<1>3. \A k \in 1..n, m \in Nat : T[<<k, m>>] = m + Cost[text[k]]
  OBVIOUS
<1> HIDE DEF T
<1>4. PICK f : Follows(f, T, n, Nat, 0)
  BY <1>1, <1>2, RecursionExists
<1>5. \A k \in 1..n : k - 1 \in 0..n /\ f[k - 1] \in Nat
  BY <1>1, <1>4 DEF Follows
<1>6. \A k \in 1..n : f[k] = f[k - 1] + Cost[text[k]]
  BY <1>3, <1>4, <1>5 DEF Follows
<1> QED  BY <1>4, <1>6 DEF Sums, Follows, n

\* Any such sum is the one Measure takes.
LEMMA MeasureIs ==
  ASSUME NEW text \in Text, NEW g, Sums(g, text)
  PROVE  Measure(text) = g[Len(text)]
<1> DEFINE c == CHOOSE f : Unfolds(f, text)
<1>0. Len(text) \in Nat
  BY TextFacts
<1>1. Unfolds(g, text)
  BY <1>0 DEF Sums, Unfolds
<1>2. Unfolds(c, text)
  BY <1>1, Zenon
<1>3. Measure(text) = c[Len(text)]
  BY Zenon DEF Measure, Unfolds
<1>4. \A k \in 0..Len(text) : c[k] = IF k = 0 THEN 0 ELSE c[k-1] + Cost[text[k]]
  <2> HIDE DEF c
  <2> QED  BY <1>2 DEF Unfolds
<1> DEFINE S == {k \in 0..Len(text) : c[k] = g[k]}
<1>5. 0 \in S /\ \A k \in 0..(Len(text) - 1) : k \in S => k + 1 \in S
  <2> HIDE DEF c
  <2> QED  BY <1>0, <1>4 DEF Sums
<1>6. 0..Len(text) \subseteq S
  <2> HIDE DEF S
  <2> QED  BY <1>0, <1>5, UpToInduction
<1> QED
  BY <1>0, <1>3, <1>6

\* The empty text measures nothing.
LEMMA MeasureNothing == Measure(<<>>) = 0 /\ <<>> \in Text
<1>1. <<>> \in Text /\ Len(<<>>) = 0
  BY EmptySeq DEF Text
<1>2. Sums([k \in 0..0 |-> 0], <<>>)
  BY <1>1 DEF Sums
<1> QED
  BY <1>1, <1>2, MeasureIs

\* A measure is a number.
LEMMA MeasureType ==
  ASSUME NEW text \in Text
  PROVE  Measure(text) \in Nat
<1>1. PICK g : Sums(g, text)
  BY SumsExist
<1>2. Measure(text) = g[Len(text)]
  BY <1>1, MeasureIs
<1>3. Len(text) \in 0..Len(text)
  BY TextFacts
<1> QED  BY <1>1, <1>2, <1>3 DEF Sums

\* The measure of one symbol is its cost.
LEMMA MeasureSymbol ==
  ASSUME NEW c \in Symbols
  PROVE  <<c>> \in Text /\ Measure(<<c>>) = Cost[c] /\ Cost[c] \in Nat \ {0}
<1>1. <<c>> \in Text /\ Len(<<c>>) = 1 /\ <<c>>[1] = c /\ Cost[c] \in Nat \ {0}
  BY CostAssumption DEF Text
<1> DEFINE g == [k \in 0..1 |-> IF k = 0 THEN 0 ELSE Cost[c]]
<1>2. Sums(g, <<c>>) /\ g[1] = Cost[c]
  BY <1>1 DEF Sums
<1> HIDE DEF g
<1>3. Measure(<<c>>) = g[Len(<<c>>)]
  BY <1>1, <1>2, MeasureIs
<1> QED  BY <1>1, <1>2, <1>3

\* What two texts cost together.
LEMMA MeasureConcat ==
  ASSUME NEW text \in Text, NEW more \in Text
  PROVE  text \o more \in Text /\ Measure(text \o more) = Measure(text) + Measure(more)
<1>1. PICK g : Sums(g, text)
  BY SumsExist
<1>2. PICK h : Sums(h, more)
  BY SumsExist
<1> DEFINE m == Len(text)
           n == Len(more)
           both == text \o more
           f == [k \in 0..(m + n) |-> IF k <= m THEN g[k] ELSE g[m] + h[k - m]]
<1>3. /\ both \in Text /\ Len(both) = m + n
      /\ \A i \in 1..(m + n) : both[i] = IF i <= m THEN text[i] ELSE more[i - m]
  BY ConcatProperties DEF Text
<1>4. m \in Nat /\ n \in Nat
  BY TextFacts
<1>5. /\ \A k \in 0..m : g[k] \in Nat
      /\ \A k \in 1..m : g[k] = g[k-1] + Cost[text[k]]
      /\ \A k \in 0..n : h[k] \in Nat
      /\ \A k \in 1..n : h[k] = h[k-1] + Cost[more[k]]
      /\ g[0] = 0 /\ h[0] = 0
  BY <1>1, <1>2 DEF Sums
<1> HIDE DEF m, n, both
<1>6. f \in [0..(m + n) -> Nat] /\ f[0] = 0
  <2>1. ASSUME NEW k \in 0..(m + n)
        PROVE  (IF k <= m THEN g[k] ELSE g[m] + h[k - m]) \in Nat
    <3>1. k <= m => k \in 0..m
      BY <1>4
    <3>2. ~(k <= m) => k - m \in 0..n
      BY <1>4
    <3>3. g[m] \in Nat
      BY <1>4, <1>5
    <3> QED  BY <1>5, <3>1, <3>2, <3>3
  <2> QED  BY <1>4, <1>5, <2>1
<1>7. ASSUME NEW k \in 1..(m + n)
      PROVE  f[k] = f[k-1] + Cost[both[k]]
  <2>1. CASE k <= m
    <3>1. k \in 1..m /\ k - 1 \in 0..(m + n) /\ k - 1 <= m /\ k \in 0..(m + n)
      BY <1>4, <2>1
    <3>2. f[k] = g[k] /\ f[k-1] = g[k-1] /\ both[k] = text[k]
      BY <1>3, <2>1, <3>1
    <3> QED  BY <1>5, <3>1, <3>2
  <2>2. CASE k > m
    <3>1. k - m \in 1..n /\ f[k] = g[m] + h[k - m] /\ both[k] = more[k - m]
      BY <1>3, <1>4, <2>2
    <3>2. h[k - m] = h[k - m - 1] + Cost[more[k - m]] /\ g[m] \in Nat /\ h[k - m - 1] \in Nat
      BY <1>4, <1>5, <3>1
    <3>3. Cost[more[k - m]] \in Nat
      BY <3>1, TextFacts DEF n
    <3>4. f[k-1] = g[m] + h[k - m - 1]
      <4>1. k - 1 \in 0..(m + n) /\ (k - 1) - m = k - m - 1
        BY <1>4, <2>2
      <4>2. CASE k - 1 <= m
        <5>1. k - 1 = m /\ k - m - 1 = 0
          BY <1>4, <2>2, <4>2
        <5> QED  BY <1>4, <1>5, <3>2, <4>1, <5>1
      <4>3. CASE ~(k - 1 <= m)
        BY <4>1, <4>3
      <4> QED  BY <4>2, <4>3
    <3> QED  BY <3>1, <3>2, <3>3, <3>4
  <2> QED  BY <1>4, <2>1, <2>2
<1>8. Sums(f, both)
  BY <1>3, <1>6, <1>7 DEF Sums
<1>9. f[m + n] = g[m] + h[n]
  <2>1. m + n \in 0..(m + n) /\ (m + n <= m <=> n = 0) /\ (m + n) - m = n /\ g[m] \in Nat
    BY <1>4, <1>5
  <2>2. CASE n = 0
    BY <1>4, <1>5, <2>1, <2>2
  <2>3. CASE n # 0
    BY <2>1, <2>3
  <2> QED  BY <2>2, <2>3
<1> HIDE DEF f
<1>10. Measure(both) = f[m + n]
  BY <1>3, <1>8, MeasureIs
<1>11. Measure(text) = g[m] /\ Measure(more) = h[n]
  BY <1>1, <1>2, MeasureIs DEF m, n
<1> QED
  BY <1>3, <1>9, <1>10, <1>11 DEF both

\* A text costs more than each of its proper prefixes.
LEMMA MeasurePrefix ==
  ASSUME NEW text \in Text, NEW k \in 0..Len(text)
  PROVE  LET prefix == SubSeq(text, 1, k)
         IN  /\ prefix \in Text /\ Len(prefix) = k /\ Measure(prefix) <= Measure(text)
             /\ k < Len(text) => Measure(prefix) < Measure(text)
<1> DEFINE n == Len(text)
           prefix == SubSeq(text, 1, k)
           c == text[k + 1]
           rest == SubSeq(text, k + 2, n)
<1>1. n \in Nat
  BY TextFacts
<1>2. prefix \in Text /\ Len(prefix) = k
  BY <1>1 DEF Text
<1>3. CASE k = n
  <2>1. prefix = text
    BY <1>3 DEF Text
  <2>2. Measure(text) \in Nat /\ ~(k < n)
    BY <1>1, <1>3, MeasureType
  <2>3. prefix \in Text /\ Len(prefix) = k /\ Measure(prefix) <= Measure(text)
        /\ (k < Len(text) => Measure(prefix) < Measure(text))
    <3> HIDE DEF prefix
    <3> QED  BY <1>2, <2>1, <2>2
  <2> QED  BY <2>3
<1>4. CASE k < n
  <2>1. c \in Symbols /\ rest \in Text
    <3>1. k + 1 \in 1..n
      BY <1>1, <1>4
    <3>2. c \in Symbols
      BY <3>1, TextFacts
    <3>3. rest \in Text
      BY <1>1 DEF Text
    <3> QED  BY <3>2, <3>3
  <2>2. text = (prefix \o <<c>>) \o rest
    <3> DEFINE head == prefix \o <<c>>
               all == head \o rest
    <3>1. Len(rest) = n - (k + 1) /\ \A i \in 1..(n - (k + 1)) : rest[i] = text[i + k + 1]
      BY <1>1, <1>4 DEF Text
    <3>2. \A i \in 1..k : prefix[i] = text[i]
      BY <1>1, <1>2 DEF Text
    <3>3. <<c>> \in Text /\ Len(<<c>>) = 1 /\ <<c>>[1] = c
      BY <2>1 DEF Text
    <3>4. /\ head \in Text /\ Len(head) = k + 1
          /\ \A i \in 1..(k + 1) : head[i] = IF i <= k THEN prefix[i] ELSE <<c>>[i - k]
      <4> HIDE DEF prefix, c
      <4> QED  BY <1>2, <3>3, ConcatProperties DEF Text
    <3>5. \A i \in 1..(k + 1) : head[i] = text[i]
      <4> HIDE DEF prefix, head
      <4> QED  BY <1>1, <3>2, <3>3, <3>4
    <3>6. /\ all \in Text /\ Len(all) = n
          /\ \A i \in 1..n : all[i] = IF i <= k + 1 THEN head[i] ELSE rest[i - (k + 1)]
      <4>1. Len(head) + Len(rest) = n
        <5> HIDE DEF head, rest, n
        <5> QED  BY <1>1, <3>1, <3>4
      <4> HIDE DEF head, rest
      <4>2. /\ all \in Text /\ Len(all) = Len(head) + Len(rest)
            /\ \A i \in 1..(Len(head) + Len(rest)) :
                 all[i] = IF i <= Len(head) THEN head[i] ELSE rest[i - Len(head)]
        BY <2>1, <3>4, ConcatText
      <4> HIDE DEF all, n
      <4>3. all \in Text /\ Len(all) = n /\ Len(head) = k + 1
        BY <3>4, <4>1, <4>2
      <4>4. ASSUME NEW i \in 1..n PROVE all[i] = IF i <= k + 1 THEN head[i] ELSE rest[i - (k + 1)]
        <5>1. all[i] = IF i <= Len(head) THEN head[i] ELSE rest[i - Len(head)]
          BY <4>1, <4>2
        <5> QED  BY <4>3, <5>1
      <4> QED  BY <4>3, <4>4
    <3>7. \A i \in 1..n : all[i] = text[i]
      <4> HIDE DEF all, head, rest
      <4> QED  BY <1>1, <1>4, <3>1, <3>5, <3>6
    <3> HIDE DEF all
    <3>8. all = text
      BY <3>6, <3>7, SeqEqual DEF Text
    <3> QED  BY <3>8 DEF all
  <2> HIDE DEF prefix, c, rest
  <2>3. /\ <<c>> \in Text /\ Measure(<<c>>) \in Nat /\ Measure(<<c>>) > 0
    BY <2>1, MeasureSymbol
  <2>4. prefix \o <<c>> \in Text /\ Measure(prefix \o <<c>>) = Measure(prefix) + Measure(<<c>>)
    BY <1>2, <2>3, MeasureConcat
  <2>5. Measure(text) = Measure(prefix) + Measure(<<c>>) + Measure(rest)
    BY <2>1, <2>2, <2>4, MeasureConcat
  <2>6. Measure(prefix) \in Nat /\ Measure(rest) \in Nat
    BY <1>2, <2>1, MeasureType
  <2>7. Measure(prefix) < Measure(text) /\ Measure(prefix) <= Measure(text)
    BY <2>3, <2>5, <2>6
  <2> QED  BY <1>2, <2>7 DEF prefix
<1> QED  BY <1>1, <1>3, <1>4

-----------------------------------------------------------------------------
(* Gathering pieces: nothing is lost, and no piece is over the budget.     *)

Gathering == [done : Seq(Text), piece : Text]

\* All that was gathered.
Whole(acc) == FlattenSeq(acc.done) \o acc.piece

\* Gatherings of which each piece fits.
Fitting(budget) ==
  {acc \in Gathering : /\ \A i \in 1..Len(acc.done) : Measure(acc.done[i]) <= budget
                       /\ Measure(acc.piece) <= budget}

\* Putting texts together: types, nothing as the unit, and the order of doing it.
LEMMA TextConcat ==
  /\ \A a, b \in Text : a \o b \in Text /\ Len(a \o b) = Len(a) + Len(b)
  /\ \A a, b, c \in Text : (a \o b) \o c = a \o (b \o c)
  /\ \A a \in Text : a \o <<>> = a /\ <<>> \o a = a
<1>1. \A a, b \in Text : a \o b \in Text /\ Len(a \o b) = Len(a) + Len(b)
  BY DEF Text
<1>2. ASSUME NEW a \in Text, NEW b \in Text, NEW c \in Text
      PROVE  (a \o b) \o c = a \o (b \o c)
  BY SMTT(40) DEF Text
<1>3. \A a \in Text : a \o <<>> = a /\ <<>> \o a = a
  BY DEF Text
<1> QED  BY <1>1, <1>2, <1>3

\* What is gathered is a text.
LEMMA WholeType ==
  ASSUME NEW acc \in Gathering
  PROVE  /\ acc.done \in Seq(Text) /\ acc.piece \in Text
         /\ FlattenSeq(acc.done) \in Text /\ Whole(acc) \in Text
<1>1. acc.done \in Seq(Text) /\ acc.piece \in Text
  BY DEF Gathering
<1>2. FlattenSeq(acc.done) \in Text
  BY <1>1, FlattenType DEF Text
<1> QED  BY <1>1, <1>2, TextConcat DEF Whole

\* A flush moves the piece that is being made and loses nothing.
LEMMA FlushKeeps ==
  ASSUME NEW acc \in Gathering
  PROVE  /\ Flush(acc) \in Gathering /\ Flush(acc).piece = <<>>
         /\ Whole(Flush(acc)) = Whole(acc) /\ FlattenSeq(Flush(acc).done) = Whole(acc)
<1>1. acc.done \in Seq(Text) /\ acc.piece \in Text /\ FlattenSeq(acc.done) \in Text
  BY WholeType
<1>2. CASE acc.piece = <<>>
  <2>1. Flush(acc) = acc /\ Whole(acc) = FlattenSeq(acc.done)
    BY <1>1, <1>2, TextConcat DEF Flush, Whole
  <2> QED  BY <1>2, <2>1
<1>3. CASE acc.piece # <<>>
  <2> DEFINE more == Append(acc.done, acc.piece)
  <2>1. Flush(acc) = [done |-> more, piece |-> <<>>]
    BY <1>3 DEF Flush
  <2>2. more \in Seq(Text) /\ <<>> \in Text
    BY <1>1, MeasureNothing
  <2>3. FlattenSeq(more) = FlattenSeq(acc.done) \o acc.piece
    BY <1>1, FlattenAppend DEF Text
  <2>4. FlattenSeq(more) = Whole(acc) /\ Whole(acc) \in Text
    BY <2>3, WholeType DEF Whole
  <2> HIDE DEF more
  <2>5. Flush(acc) \in Gathering /\ Flush(acc).piece = <<>> /\ Flush(acc).done = more
    BY <2>1, <2>2 DEF Gathering
  <2>6. Whole(Flush(acc)) = FlattenSeq(more)
    BY <2>4, <2>5, TextConcat DEF Whole
  <2> QED  BY <2>4, <2>5, <2>6
<1> QED  BY <1>2, <1>3

\* What grows by a text has it at its end.
LEMMA GrowKeeps ==
  ASSUME NEW acc \in Gathering, NEW text \in Text
  PROVE  /\ Grow(acc, text) \in Gathering /\ Whole(Grow(acc, text)) = Whole(acc) \o text
         /\ Grow(acc, text).done = acc.done /\ Grow(acc, text).piece = acc.piece \o text
<1>1. acc.done \in Seq(Text) /\ acc.piece \in Text /\ FlattenSeq(acc.done) \in Text
  BY WholeType
<1>2. acc.piece \o text \in Text
  BY <1>1, TextConcat
<1>3. /\ Grow(acc, text) \in Gathering
      /\ Grow(acc, text).done = acc.done /\ Grow(acc, text).piece = acc.piece \o text
  BY <1>1, <1>2 DEF Grow, Gathering
<1>4. Whole(Grow(acc, text)) = FlattenSeq(acc.done) \o (acc.piece \o text)
  BY <1>3 DEF Whole
<1>5. Whole(acc) \o text = FlattenSeq(acc.done) \o (acc.piece \o text)
  BY <1>1, TextConcat DEF Whole
<1> QED  BY <1>3, <1>4, <1>5

\* A flush keeps every piece within the budget.
LEMMA FlushFits ==
  ASSUME NEW budget \in Nat, NEW acc \in Fitting(budget)
  PROVE  /\ Flush(acc) \in Fitting(budget)
         /\ \A i \in 1..Len(Flush(acc).done) : Measure(Flush(acc).done[i]) <= budget
<1>1. acc \in Gathering /\ acc.done \in Seq(Text) /\ acc.piece \in Text
  BY WholeType DEF Fitting
<1>2. /\ Flush(acc) \in Gathering /\ Flush(acc).piece = <<>>
      /\ Measure(Flush(acc).piece) <= budget
  BY <1>1, FlushKeeps, MeasureNothing
<1>3. \A i \in 1..Len(acc.done) : Measure(acc.done[i]) <= budget
  BY DEF Fitting
<1>4. Measure(acc.piece) <= budget
  BY DEF Fitting
<1>5. ASSUME NEW i \in 1..Len(Flush(acc).done) PROVE Measure(Flush(acc).done[i]) <= budget
  <2>1. CASE acc.piece = <<>>
    BY <1>3, <1>5, <2>1 DEF Flush
  <2>2. CASE acc.piece # <<>>
    <3>1. Flush(acc).done = Append(acc.done, acc.piece)
      BY <2>2 DEF Flush
    <3>2. /\ Len(Flush(acc).done) = Len(acc.done) + 1 /\ Len(acc.done) \in Nat
          /\ Flush(acc).done[i] = IF i = Len(acc.done) + 1 THEN acc.piece ELSE acc.done[i]
      BY <1>1, <1>5, <3>1
    <3> QED  BY <1>3, <1>4, <1>5, <3>2
  <2> QED  BY <2>1, <2>2
<1> QED  BY <1>2, <1>5 DEF Fitting

\* What both cutters do with a text that fits: a new piece if the old one would
\* be too long.
Took(acc, text, budget) == Grow(IF Exceeds(acc, text, budget) THEN Flush(acc) ELSE acc, text)

\* A symbol or a line that fits a piece of its own is taken within the budget.
LEMMA TookFits ==
  ASSUME NEW budget \in Nat, NEW acc \in Fitting(budget),
         NEW text \in Text, Measure(text) <= budget
  PROVE  /\ Took(acc, text, budget) \in Fitting(budget)
         /\ Whole(Took(acc, text, budget)) = Whole(acc) \o text
<1> DEFINE old == IF Exceeds(acc, text, budget) THEN Flush(acc) ELSE acc
<1>1. acc \in Gathering
  BY DEF Fitting
<1>2. old \in Fitting(budget) /\ Whole(old) = Whole(acc)
  BY <1>1, FlushFits, FlushKeeps
<1>3. Measure(old.piece) + Measure(text) <= budget
  <2>1. Measure(acc.piece) \in Nat /\ Measure(text) \in Nat
    BY <1>1, WholeType, MeasureType
  <2>2. CASE Exceeds(acc, text, budget)
    <3>1. old.piece = <<>>
      BY <1>1, <2>2, FlushKeeps
    <3> HIDE DEF old
    <3> QED  BY <2>1, <3>1, MeasureNothing
  <2>3. CASE ~Exceeds(acc, text, budget)
    BY <2>1, <2>3 DEF Exceeds
  <2> QED  BY <2>2, <2>3
<1>4. Took(acc, text, budget) = Grow(old, text)
  BY DEF Took
<1> HIDE DEF old
<1>5. old \in Gathering /\ old.piece \in Text /\ \A i \in 1..Len(old.done) : Measure(old.done[i]) <= budget
  BY <1>2, WholeType DEF Fitting
<1>6. /\ Grow(old, text) \in Gathering /\ Whole(Grow(old, text)) = Whole(old) \o text
      /\ Grow(old, text).done = old.done /\ Grow(old, text).piece = old.piece \o text
  BY <1>5, GrowKeeps
<1>7. Measure(old.piece \o text) <= budget
  BY <1>3, <1>5, MeasureConcat
<1>8. Grow(old, text) \in Fitting(budget)
  BY <1>5, <1>6, <1>7 DEF Fitting
<1> QED  BY <1>2, <1>4, <1>6, <1>8

\* Nothing gathered is within every budget.
LEMMA NothingFits ==
  ASSUME NEW budget \in Nat
  PROVE  Nothing \in Fitting(budget) /\ Nothing \in Gathering /\ Whole(Nothing) = <<>>
<1>1. Nothing.done = <<>> /\ Nothing.piece = <<>> /\ Nothing \in Gathering
  <2>1. <<>> \in Text /\ <<>> \in Seq(Text)
    BY MeasureNothing
  <2> QED  BY <2>1 DEF Nothing, Gathering
<1>2. Whole(Nothing) = <<>>
  BY <1>1, FlattenNothing, TextConcat, MeasureNothing DEF Whole
<1>3. Nothing \in Fitting(budget)
  BY <1>1, MeasureNothing DEF Fitting
<1> QED  BY <1>1, <1>2, <1>3

-----------------------------------------------------------------------------
(* The lines of a text.                                                    *)

LineStep(acc, c) == IF c = Newline THEN Flush(Grow(acc, <<c>>)) ELSE Grow(acc, <<c>>)

LineUnfolds(g, text) ==
  g = [n \in 0..Len(text) |-> IF n = 0 THEN Nothing ELSE LineStep(g[n - 1], text[n])]

\* A step of the splitting into lines takes one symbol.
LEMMA LineStepKeeps ==
  ASSUME NEW acc \in Gathering, NEW c \in Symbols
  PROVE  LineStep(acc, c) \in Gathering /\ Whole(LineStep(acc, c)) = Whole(acc) \o <<c>>
<1>1. /\ <<c>> \in Text /\ Grow(acc, <<c>>) \in Gathering
      /\ Whole(Grow(acc, <<c>>)) = Whole(acc) \o <<c>>
  BY MeasureSymbol, GrowKeeps
<1> QED  BY <1>1, FlushKeeps DEF LineStep

\* The run of the splitting into lines.
LEMMA LineRun ==
  ASSUME NEW text \in Text
  PROVE  \E f : /\ f \in [0..Len(text) -> Gathering] /\ f[0] = Nothing
                /\ \A k \in 1..Len(text) : f[k] = LineStep(f[k - 1], text[k])
                /\ Lines(text) = Flush(f[Len(text)]).done
<1> DEFINE n == Len(text)
           T == [p \in (1..n) \X Gathering |-> LineStep(p[2], text[p[1]])]
           c == CHOOSE g : LineUnfolds(g, text)
<1>1. n \in Nat /\ Nothing \in Gathering /\ \A i \in 1..n : text[i] \in Symbols
  BY TextFacts, NothingFits
<1>2. Lines(text) = Flush(c[n]).done
  BY Zenon DEF Lines, Gathered, LineUnfolds, LineStep
<1> HIDE DEF n, c
<1>3. StepsOn(T, n, Gathering)
  <2>1. \A p \in (1..n) \X Gathering : LineStep(p[2], text[p[1]]) \in Gathering
    BY <1>1, LineStepKeeps
  <2> QED  BY <2>1 DEF StepsOn
<1>4. \A k \in 1..n, a \in Gathering : T[<<k, a>>] = LineStep(a, text[k])
  OBVIOUS
<1> HIDE DEF T
<1>5. PICK f : Follows(f, T, n, Gathering, Nothing)
  BY <1>1, <1>3, RecursionExists
<1>6. f \in [0..n -> Gathering] /\ f[0] = Nothing
  BY <1>5 DEF Follows
<1>7. ASSUME NEW k \in 1..n PROVE f[k] = LineStep(f[k - 1], text[k])
  <2>1. f[k] = T[<<k, f[k - 1]>>] /\ k - 1 \in 0..n
    BY <1>1, <1>5 DEF Follows
  <2> QED  BY <1>4, <1>6, <2>1
<1>8. LineUnfolds(f, text)
  BY <1>6, <1>7 DEF LineUnfolds, n
<1>9. LineUnfolds(c, text)
  BY <1>8, Zenon DEF c
<1>10. /\ c[0] = Nothing
       /\ \A k \in 1..n : c[k] = LineStep(c[k - 1], text[k])
  BY <1>1, <1>9 DEF LineUnfolds, n
<1>11. \A k \in 0..n : c[k] = f[k]
  <2>1. c[0] = f[0] /\ \A k \in 1..n : c[k - 1] = f[k - 1] => c[k] = f[k]
    BY <1>6, <1>7, <1>10
  <2> QED  BY <1>1, <2>1, FollowsOnly
<1>12. n \in 0..n
  BY <1>1
<1> QED  BY <1>2, <1>6, <1>7, <1>11, <1>12 DEF n

\* The lines are the text.
LEMMA LinesWhole ==
  ASSUME NEW text \in Text
  PROVE  Lines(text) \in Seq(Text) /\ FlattenSeq(Lines(text)) = text
<1> DEFINE n == Len(text)
           U(k) == SubSeq(text, 1, k)
<1>1. PICK f : /\ f \in [0..n -> Gathering] /\ f[0] = Nothing
               /\ \A k \in 1..n : f[k] = LineStep(f[k - 1], text[k])
               /\ Lines(text) = Flush(f[n]).done
  BY LineRun
<1>2. /\ n \in Nat /\ U(0) = <<>> /\ U(n) = text
      /\ \A k \in 1..n : text[k] \in Symbols /\ U(k) = U(k - 1) \o <<text[k]>>
  BY PrefixGrows DEF Text
<1> HIDE DEF U, n
<1> DEFINE w == [k \in 0..n |-> Whole(f[k])]
           u == [k \in 0..n |-> U(k)]
<1>3. w[0] = u[0]
  <2>1. 0 \in 0..n
    BY <1>2
  <2>2. Whole(f[0]) = <<>>
    BY <1>1, NothingFits
  <2> QED  BY <1>2, <2>1, <2>2
<1>4. ASSUME NEW k \in 1..n, w[k - 1] = u[k - 1] PROVE w[k] = u[k]
  <2>1. k - 1 \in 0..n /\ k \in 0..n
    BY <1>2
  <2>2. f[k - 1] \in Gathering /\ f[k] = LineStep(f[k - 1], text[k])
    BY <1>1, <2>1
  <2>3. Whole(f[k]) = Whole(f[k - 1]) \o <<text[k]>>
    BY <1>2, <2>2, LineStepKeeps
  <2>4. /\ u[k] = U(k) /\ w[k] = Whole(f[k])
        /\ u[k - 1] = U(k - 1) /\ w[k - 1] = Whole(f[k - 1])
    BY <2>1
  <2> HIDE DEF u, w
  <2> QED  BY <1>2, <1>4, <2>3, <2>4
<1>5. n \in 0..n
  BY <1>2
<1>6. Whole(f[n]) = text
  <2>1. w[n] = u[n]
    <3>1. n \in Nat
      BY <1>2
    <3> HIDE DEF w, u
    <3> QED  BY ONLY <3>1, <1>3, <1>4, <1>5, FollowsOnly
  <2> QED  BY <1>2, <1>5, <2>1
<1>7. f[n] \in Gathering
  BY <1>1, <1>5
<1>8. Flush(f[n]) \in Gathering /\ FlattenSeq(Flush(f[n]).done) = text
  BY <1>6, <1>7, FlushKeeps
<1> QED  BY <1>1, <1>8, WholeType

-----------------------------------------------------------------------------
(* The pieces of a line too long for a page.                               *)

HardUnfolds(g, line, budget) ==
  g = [n \in 0..Len(line) |-> IF n = 0 THEN Nothing ELSE Took(g[n - 1], <<line[n]>>, budget)]

\* A step of the hard split takes one symbol.
LEMMA SymbolTook ==
  ASSUME NEW budget \in Nat, NEW acc \in Fitting(budget), NEW c \in Symbols, Cost[c] <= budget
  PROVE  /\ Took(acc, <<c>>, budget) \in Fitting(budget)
         /\ Whole(Took(acc, <<c>>, budget)) = Whole(acc) \o <<c>>
BY MeasureSymbol, TookFits

\* The run of the hard split.
LEMMA HardRun ==
  ASSUME NEW budget \in Nat, \A c \in Symbols : Cost[c] <= budget, NEW line \in Text
  PROVE  \E f : /\ f \in [0..Len(line) -> Fitting(budget)] /\ f[0] = Nothing
                /\ \A k \in 1..Len(line) : f[k] = Took(f[k - 1], <<line[k]>>, budget)
                /\ HardSplit(line, budget) = Flush(f[Len(line)]).done
<1> DEFINE n == Len(line)
           T == [p \in (1..n) \X Fitting(budget) |-> Took(p[2], <<line[p[1]]>>, budget)]
           c == CHOOSE g : HardUnfolds(g, line, budget)
<1>1. n \in Nat /\ Nothing \in Fitting(budget) /\ \A i \in 1..n : line[i] \in Symbols
  BY TextFacts, NothingFits
<1>2. HardSplit(line, budget) = Flush(c[n]).done
  BY Zenon DEF HardSplit, Gathered, HardUnfolds, Took
<1> HIDE DEF n, c
<1>3. StepsOn(T, n, Fitting(budget))
  <2>1. \A p \in (1..n) \X Fitting(budget) : Took(p[2], <<line[p[1]]>>, budget) \in Fitting(budget)
    BY <1>1, SymbolTook
  <2> QED  BY <2>1 DEF StepsOn
<1>4. \A k \in 1..n, a \in Fitting(budget) : T[<<k, a>>] = Took(a, <<line[k]>>, budget)
  OBVIOUS
<1> HIDE DEF T
<1>5. PICK f : Follows(f, T, n, Fitting(budget), Nothing)
  BY <1>1, <1>3, RecursionExists
<1>6. f \in [0..n -> Fitting(budget)] /\ f[0] = Nothing
  BY <1>5 DEF Follows
<1>7. ASSUME NEW k \in 1..n PROVE f[k] = Took(f[k - 1], <<line[k]>>, budget)
  <2>1. f[k] = T[<<k, f[k - 1]>>] /\ k - 1 \in 0..n
    BY <1>1, <1>5 DEF Follows
  <2> QED  BY <1>4, <1>6, <2>1
<1>8. HardUnfolds(f, line, budget)
  BY <1>6, <1>7 DEF HardUnfolds, n
<1>9. HardUnfolds(c, line, budget)
  BY <1>8, Zenon DEF c
<1>10. /\ c[0] = Nothing
       /\ \A k \in 1..n : c[k] = Took(c[k - 1], <<line[k]>>, budget)
  BY <1>1, <1>9 DEF HardUnfolds, n
<1>11. \A k \in 0..n : c[k] = f[k]
  <2>1. c[0] = f[0] /\ \A k \in 1..n : c[k - 1] = f[k - 1] => c[k] = f[k]
    BY <1>6, <1>7, <1>10
  <2> QED  BY <1>1, <2>1, FollowsOnly
<1>12. n \in 0..n
  BY <1>1
<1> QED  BY <1>2, <1>6, <1>7, <1>11, <1>12 DEF n


\* They are the line, and each is within the budget.
LEMMA HardSplitWhole ==
  ASSUME NEW budget \in Nat, \A c \in Symbols : Cost[c] <= budget, NEW line \in Text
  PROVE  /\ HardSplit(line, budget) \in Seq(Text) /\ FlattenSeq(HardSplit(line, budget)) = line
         /\ \A i \in 1..Len(HardSplit(line, budget)) : Measure(HardSplit(line, budget)[i]) <= budget
<1> DEFINE n == Len(line)
           U(k) == SubSeq(line, 1, k)
<1>1. PICK f : /\ f \in [0..n -> Fitting(budget)] /\ f[0] = Nothing
               /\ \A k \in 1..n : f[k] = Took(f[k - 1], <<line[k]>>, budget)
               /\ HardSplit(line, budget) = Flush(f[n]).done
  BY HardRun
<1>2. /\ n \in Nat /\ U(0) = <<>> /\ U(n) = line
      /\ \A k \in 1..n : line[k] \in Symbols /\ U(k) = U(k - 1) \o <<line[k]>>
  BY PrefixGrows DEF Text
<1> HIDE DEF U, n
<1> DEFINE w == [k \in 0..n |-> Whole(f[k])]
           u == [k \in 0..n |-> U(k)]
<1>3. w[0] = u[0]
  <2>1. 0 \in 0..n
    BY <1>2
  <2>2. Whole(f[0]) = <<>>
    BY <1>1, NothingFits
  <2> QED  BY <1>2, <2>1, <2>2
<1>4. ASSUME NEW k \in 1..n, w[k - 1] = u[k - 1] PROVE w[k] = u[k]
  <2>1. k - 1 \in 0..n /\ k \in 0..n
    BY <1>2
  <2>2. f[k - 1] \in Fitting(budget) /\ f[k] = Took(f[k - 1], <<line[k]>>, budget)
    BY <1>1, <2>1
  <2>3. Whole(f[k]) = Whole(f[k - 1]) \o <<line[k]>>
    <3>1. budget \in Nat /\ line[k] \in Symbols /\ Cost[line[k]] <= budget
      BY <1>2
    <3>2. Whole(Took(f[k - 1], <<line[k]>>, budget)) = Whole(f[k - 1]) \o <<line[k]>>
      BY ONLY Zenon, <2>2, <3>1, SymbolTook
    <3> QED  BY ONLY <2>2, <3>2
  <2>4. /\ u[k] = U(k) /\ w[k] = Whole(f[k])
        /\ u[k - 1] = U(k - 1) /\ w[k - 1] = Whole(f[k - 1])
    BY <2>1
  <2> HIDE DEF u, w
  <2> QED  BY <1>2, <1>4, <2>3, <2>4
<1>5. n \in 0..n
  BY <1>2
<1>6. Whole(f[n]) = line
  <2>1. w[n] = u[n]
    <3>1. n \in Nat
      BY <1>2
    <3> HIDE DEF w, u
    <3> QED  BY ONLY <3>1, <1>3, <1>4, <1>5, FollowsOnly
  <2> QED  BY <1>2, <1>5, <2>1
<1>7. f[n] \in Fitting(budget) /\ f[n] \in Gathering
  BY <1>1, <1>5 DEF Fitting
<1>8. Flush(f[n]) \in Gathering /\ FlattenSeq(Flush(f[n]).done) = line
  BY <1>6, <1>7, FlushKeeps
<1>9. \A i \in 1..Len(Flush(f[n]).done) : Measure(Flush(f[n]).done[i]) <= budget
  BY <1>7, FlushFits
<1> QED  BY <1>1, <1>8, <1>9, WholeType

-----------------------------------------------------------------------------
(* The pieces of a text.                                                   *)

PieceStep(acc, line, budget) ==
  IF Measure(line) > budget
    THEN [done |-> Flush(acc).done \o HardSplit(line, budget), piece |-> <<>>]
    ELSE Took(acc, line, budget)

PieceUnfolds(g, lines, budget) ==
  g = [n \in 0..Len(lines) |-> IF n = 0 THEN Nothing ELSE PieceStep(g[n - 1], lines[n], budget)]

\* A step of the pagination takes one line, within the budget.
LEMMA PieceStepKeeps ==
  ASSUME NEW budget \in Nat, \A c \in Symbols : Cost[c] <= budget,
         NEW acc \in Fitting(budget), NEW line \in Text
  PROVE  /\ PieceStep(acc, line, budget) \in Fitting(budget)
         /\ Whole(PieceStep(acc, line, budget)) = Whole(acc) \o line
<1>0. Measure(line) \in Nat
  BY MeasureType
<1>1. CASE Measure(line) <= budget
  <2>1. ~(Measure(line) > budget)
    BY <1>0, <1>1
  <2> QED  BY <1>1, <2>1, TookFits DEF PieceStep
<1>2. CASE ~(Measure(line) <= budget)
  <2> DEFINE a == Flush(acc).done
             b == HardSplit(line, budget)
  <2>1. PieceStep(acc, line, budget) = [done |-> a \o b, piece |-> <<>>]
    BY <1>0, <1>2 DEF PieceStep
  <2>2. /\ Flush(acc) \in Gathering /\ FlattenSeq(a) = Whole(acc)
        /\ \A i \in 1..Len(a) : Measure(a[i]) <= budget
    BY FlushKeeps, FlushFits DEF Fitting
  <2>3. a \in Seq(Text)
    BY <2>2, WholeType
  <2>4. b \in Seq(Text) /\ FlattenSeq(b) = line /\ \A i \in 1..Len(b) : Measure(b[i]) <= budget
    BY HardSplitWhole
  <2> HIDE DEF a, b
  <2>5. a \o b \in Seq(Text) /\ FlattenSeq(a \o b) = Whole(acc) \o line
    <3>1. a \in Seq(Seq(Symbols)) /\ b \in Seq(Seq(Symbols))
      BY <2>3, <2>4 DEF Text
    <3>2. FlattenSeq(a \o b) = FlattenSeq(a) \o FlattenSeq(b)
      BY <3>1, FlattenConcat
    <3>3. a \o b \in Seq(Text)
      BY <2>3, <2>4
    <3> QED  BY <2>2, <2>4, <3>2, <3>3
  <2>6. /\ Len(a) \in Nat /\ Len(b) \in Nat /\ Len(a \o b) = Len(a) + Len(b)
        /\ \A i \in 1..(Len(a) + Len(b)) : (a \o b)[i] = IF i <= Len(a) THEN a[i] ELSE b[i - Len(a)]
    BY <2>3, <2>4, ConcatProperties
  <2>7. \A i \in 1..Len(a \o b) : Measure((a \o b)[i]) <= budget
    BY <2>2, <2>4, <2>6
  <2>8. acc \in Gathering /\ Whole(acc) \o line \in Text
    BY WholeType, TextConcat DEF Fitting
  <2> DEFINE all == a \o b
             new == PieceStep(acc, line, budget)
  <2>9. new.done = all /\ new.piece = <<>> /\ new \in Gathering
    <3>1. <<>> \in Text /\ all \in Seq(Text)
      BY <2>5, MeasureNothing
    <3> HIDE DEF all
    <3> QED  BY <2>1, <3>1 DEF Gathering, all
  <2>10. new \in Fitting(budget)
    BY <2>7, <2>9, MeasureNothing DEF Fitting
  <2>11. Whole(new) = FlattenSeq(all) \o <<>>
    BY <2>9 DEF Whole
  <2>12. Whole(new) = Whole(acc) \o line
    BY <2>5, <2>8, <2>11, TextConcat
  <2> QED  BY <2>10, <2>12
<1> QED  BY <1>1, <1>2

\* The run of the pagination over the lines.
LEMMA PieceRun ==
  ASSUME NEW budget \in Nat, \A c \in Symbols : Cost[c] <= budget, NEW text \in Text
  PROVE  LET lines == Lines(text)
         IN  \E f : /\ f \in [0..Len(lines) -> Fitting(budget)] /\ f[0] = Nothing
                    /\ \A k \in 1..Len(lines) : f[k] = PieceStep(f[k - 1], lines[k], budget)
                    /\ Pieces(text, budget) = Flush(f[Len(lines)]).done
<1> DEFINE lines == Lines(text)
           n == Len(lines)
           T == [p \in (1..n) \X Fitting(budget) |-> PieceStep(p[2], lines[p[1]], budget)]
           c == CHOOSE g : PieceUnfolds(g, lines, budget)
<1>1. n \in Nat /\ Nothing \in Fitting(budget) /\ \A i \in 1..n : lines[i] \in Text
  BY LinesWhole, NothingFits
<1>2. Pieces(text, budget) = Flush(c[n]).done
  BY Zenon DEF Pieces, Gathered, PieceUnfolds, PieceStep, Took
<1> HIDE DEF n, c, lines
<1>3. StepsOn(T, n, Fitting(budget))
  <2>1. \A p \in (1..n) \X Fitting(budget) : PieceStep(p[2], lines[p[1]], budget) \in Fitting(budget)
    BY <1>1, PieceStepKeeps
  <2> QED  BY <2>1 DEF StepsOn
<1>4. \A k \in 1..n, a \in Fitting(budget) : T[<<k, a>>] = PieceStep(a, lines[k], budget)
  OBVIOUS
<1> HIDE DEF T
<1>5. PICK f : Follows(f, T, n, Fitting(budget), Nothing)
  BY <1>1, <1>3, RecursionExists
<1>6. f \in [0..n -> Fitting(budget)] /\ f[0] = Nothing
  BY <1>5 DEF Follows
<1>7. ASSUME NEW k \in 1..n PROVE f[k] = PieceStep(f[k - 1], lines[k], budget)
  <2>1. f[k] = T[<<k, f[k - 1]>>] /\ k - 1 \in 0..n
    BY <1>1, <1>5 DEF Follows
  <2> QED  BY <1>4, <1>6, <2>1
<1>8. PieceUnfolds(f, lines, budget)
  BY <1>6, <1>7 DEF PieceUnfolds, n, lines
<1>9. PieceUnfolds(c, lines, budget)
  BY <1>8, Zenon DEF c, lines
<1>10. /\ c[0] = Nothing
       /\ \A k \in 1..n : c[k] = PieceStep(c[k - 1], lines[k], budget)
  BY <1>1, <1>9 DEF PieceUnfolds, n, lines
<1>11. \A k \in 0..n : c[k] = f[k]
  <2>1. c[0] = f[0] /\ \A k \in 1..n : c[k - 1] = f[k - 1] => c[k] = f[k]
    BY <1>6, <1>7, <1>10
  <2> QED  BY <1>1, <2>1, FollowsOnly
<1>12. n \in 0..n
  BY <1>1
<1> QED  BY <1>2, <1>6, <1>7, <1>11, <1>12 DEF n, lines


\* The pieces of a text are the text, and each is within the budget.
LEMMA PiecesWhole ==
  ASSUME NEW budget \in Nat, \A c \in Symbols : Cost[c] <= budget, NEW text \in Text
  PROVE  /\ Pieces(text, budget) \in Seq(Text) /\ FlattenSeq(Pieces(text, budget)) = text
         /\ \A i \in 1..Len(Pieces(text, budget)) : Measure(Pieces(text, budget)[i]) <= budget
<1> DEFINE lines == Lines(text)
           n == Len(lines)
           U(k) == FlattenSeq(SubSeq(lines, 1, k))
<1>1. PICK f : /\ f \in [0..n -> Fitting(budget)] /\ f[0] = Nothing
               /\ \A k \in 1..n : f[k] = PieceStep(f[k - 1], lines[k], budget)
               /\ Pieces(text, budget) = Flush(f[n]).done
  BY PieceRun
<1>0. lines \in Seq(Text) /\ FlattenSeq(lines) = text
  BY LinesWhole
<1> HIDE DEF lines
<1>2. /\ n \in Nat /\ U(0) = <<>> /\ U(n) = text
      /\ \A k \in 1..n : lines[k] \in Text /\ U(k) = U(k - 1) \o lines[k]
  <2>1. n \in Nat /\ U(0) = <<>> /\ U(n) = text
    BY <1>0, PrefixGrows, FlattenNothing
  <2>2. ASSUME NEW k \in 1..n PROVE lines[k] \in Text /\ U(k) = U(k - 1) \o lines[k]
    <3>1. /\ lines[k] \in Text /\ SubSeq(lines, 1, k - 1) \in Seq(Text)
          /\ SubSeq(lines, 1, k) = Append(SubSeq(lines, 1, k - 1), lines[k])
      BY <1>0, PrefixGrows
    <3> QED  BY <3>1, FlattenAppend DEF Text
  <2> QED  BY <2>1, <2>2
<1> HIDE DEF U, n
<1> DEFINE w == [k \in 0..n |-> Whole(f[k])]
           u == [k \in 0..n |-> U(k)]
<1>3. w[0] = u[0]
  <2>1. 0 \in 0..n
    BY <1>2
  <2>2. Whole(f[0]) = <<>>
    BY <1>1, NothingFits
  <2> QED  BY <1>2, <2>1, <2>2
<1>4. ASSUME NEW k \in 1..n, w[k - 1] = u[k - 1] PROVE w[k] = u[k]
  <2>1. k - 1 \in 0..n /\ k \in 0..n
    BY <1>2
  <2>2. f[k - 1] \in Fitting(budget) /\ f[k] = PieceStep(f[k - 1], lines[k], budget)
    BY <1>1, <2>1
  <2>3. Whole(f[k]) = Whole(f[k - 1]) \o lines[k]
    <3>1. budget \in Nat /\ lines[k] \in Text /\ \A c \in Symbols : Cost[c] <= budget
      BY <1>2
    <3>2. Whole(PieceStep(f[k - 1], lines[k], budget)) = Whole(f[k - 1]) \o lines[k]
      BY ONLY Zenon, <2>2, <3>1, PieceStepKeeps
    <3> QED  BY ONLY <2>2, <3>2
  <2>4. /\ u[k] = U(k) /\ w[k] = Whole(f[k])
        /\ u[k - 1] = U(k - 1) /\ w[k - 1] = Whole(f[k - 1])
    BY <2>1
  <2> HIDE DEF u, w
  <2> QED  BY <1>2, <1>4, <2>3, <2>4
<1>5. n \in 0..n
  BY <1>2
<1>6. Whole(f[n]) = text
  <2>1. w[n] = u[n]
    <3>1. n \in Nat
      BY <1>2
    <3> HIDE DEF w, u
    <3> QED  BY ONLY <3>1, <1>3, <1>4, <1>5, FollowsOnly
  <2> QED  BY <1>2, <1>5, <2>1
<1>7. f[n] \in Fitting(budget) /\ f[n] \in Gathering
  BY <1>1, <1>5 DEF Fitting
<1>8. Flush(f[n]) \in Gathering /\ FlattenSeq(Flush(f[n]).done) = text
  BY <1>6, <1>7, FlushKeeps
<1>9. \A i \in 1..Len(Flush(f[n]).done) : Measure(Flush(f[n]).done[i]) <= budget
  BY <1>7, FlushFits
<1> QED  BY <1>1, <1>8, <1>9, WholeType

-----------------------------------------------------------------------------
(* Blocks.                                                                 *)

\* A content is a text without a fence.
LEMMA ContentFacts ==
  ASSUME NEW content \in Contents
  PROVE  /\ content \in Text /\ Len(content) \in Nat /\ Fence \notin ToSet(content)
         /\ \A i \in 1..Len(content) : content[i] \in Symbols /\ content[i] # Fence
<1>1. /\ Len(content) \in Nat /\ DOMAIN content = 1..Len(content)
      /\ \A i \in 1..Len(content) : content[i] \in Symbols \ {Fence}
  BY LenProperties, ElementOfSeq DEF Contents
<1>2. content \in Text
  BY <1>1 DEF Contents, Text
<1> QED  BY <1>1, <1>2 DEF ToSet

\* The fences are texts of a fence and a newline.
LEMMA FencesAreText ==
  /\ FenceOpen \in Text /\ FenceClose \in Text
  /\ Len(FenceOpen) = 2 /\ FenceOpen[1] = Fence /\ FenceOpen[2] = Newline
  /\ Len(FenceClose) = 1 /\ FenceClose[1] = Fence
BY SymbolAssumption DEF FenceOpen, FenceClose, Text

\* A part of a text.
LEMMA PartOfText ==
  ASSUME NEW a \in Text, NEW from \in Nat \ {0}, NEW to \in Nat, from <= to + 1, to <= Len(a)
  PROVE  LET part == SubSeq(a, from, to)
         IN  /\ part \in Text /\ Len(part) = to - from + 1
             /\ \A i \in 1..(to - from + 1) : part[i] = a[i + (from - 1)]
             /\ from = to => part = <<a[from]>>
             /\ to = from + 1 => part = <<a[from], a[to]>>
<1> DEFINE part == SubSeq(a, from, to)
<1>1. a \in Seq(Symbols) /\ Len(a) \in Nat
  BY TextFacts DEF Text
<1>2. part \in Seq(Symbols)
  BY <1>1
<1>3. Len(part) = to - from + 1
  BY <1>1
<1>4. \A i \in 1..(to - from + 1) : part[i] = a[i + (from - 1)]
  BY <1>1
<1>5. from = to => part = <<a[from]>>
  <2> SUFFICES ASSUME from = to PROVE part = <<a[from]>>
    OBVIOUS
  <2>1. Len(part) = 1 /\ part[1] = a[from]
    BY <1>3, <1>4
  <2> HIDE DEF part
  <2> QED  BY <1>2, <2>1
<1>6. to = from + 1 => part = <<a[from], a[to]>>
  <2> SUFFICES ASSUME to = from + 1 PROVE part = <<a[from], a[to]>>
    OBVIOUS
  <2>1. Len(part) = 2 /\ part[1] = a[from] /\ part[2] = a[to]
    BY <1>3, <1>4
  <2> HIDE DEF part
  <2> QED  BY <1>2, <2>1
<1> QED  BY <1>2, <1>3, <1>4, <1>5, <1>6 DEF Text

\* What the framing costs.
LEMMA OverheadIs ==
  ASSUME NEW header \in Text
  PROVE  /\ Overhead(header) = Measure(header) + Measure(FenceOpen) + Measure(FenceClose)
         /\ Measure(header) \in Nat /\ Measure(FenceOpen) \in Nat /\ Measure(FenceClose) \in Nat
<1> DEFINE top == header \o FenceOpen
<1>1. top \in Text /\ Measure(top) = Measure(header) + Measure(FenceOpen)
  BY FencesAreText, MeasureConcat
<1>2. top \o <<>> = top
  <2> HIDE DEF top
  <2> QED  BY <1>1, TextConcat
<1>3. Overhead(header) = Measure(top \o FenceClose)
  BY <1>2 DEF Overhead, Framed
<1>4. Measure(top \o FenceClose) = Measure(top) + Measure(FenceClose)
  <2> HIDE DEF top
  <2> QED  BY <1>1, FencesAreText, MeasureConcat
<1> QED  BY <1>1, <1>3, <1>4, FencesAreText, MeasureType

\* A block, symbol by symbol.
LEMMA FramedShape ==
  ASSUME NEW header \in Text, NEW content \in Text
  PROVE  LET m    == Len(header)
             n    == Len(content)
             body == Framed(header, content)
         IN  /\ m \in Nat /\ n \in Nat /\ body \in Text /\ Len(body) = m + n + 3
             /\ \A i \in 1..m : body[i] = header[i]
             /\ body[m + 1] = Fence /\ body[m + 2] = Newline /\ body[m + n + 3] = Fence
             /\ \A i \in 1..n : body[m + 2 + i] = content[i]
             /\ Measure(body) = Overhead(header) + Measure(content)
             /\ Overhead(header) \in Nat
<1> DEFINE m == Len(header)
           n == Len(content)
           top == header \o FenceOpen
           mid == top \o content
           body == mid \o FenceClose
<1>0. m \in Nat /\ n \in Nat
  BY TextFacts
<1>1. /\ top \in Text /\ Len(top) = m + 2
      /\ \A i \in 1..(m + 2) : top[i] = IF i <= m THEN header[i] ELSE FenceOpen[i - m]
  <2>1. /\ header \o FenceOpen \in Text /\ Len(header \o FenceOpen) = Len(header) + Len(FenceOpen)
        /\ \A i \in 1..(Len(header) + Len(FenceOpen)) :
             (header \o FenceOpen)[i] = IF i <= Len(header) THEN header[i] ELSE FenceOpen[i - Len(header)]
    BY FencesAreText, ConcatText
  <2> QED  BY FencesAreText, <2>1
<1>2. /\ mid \in Text /\ Len(mid) = m + 2 + n
      /\ \A i \in 1..(m + 2 + n) : mid[i] = IF i <= m + 2 THEN top[i] ELSE content[i - (m + 2)]
  <2> HIDE DEF top
  <2>1. /\ top \o content \in Text /\ Len(top \o content) = Len(top) + Len(content)
        /\ \A i \in 1..(Len(top) + Len(content)) :
             (top \o content)[i] = IF i <= Len(top) THEN top[i] ELSE content[i - Len(top)]
    BY <1>1, ConcatText
  <2> QED  BY <1>1, <2>1
<1>3. /\ body \in Text /\ Len(body) = m + 2 + n + 1
      /\ \A i \in 1..(m + 2 + n + 1) : body[i] = IF i <= m + 2 + n THEN mid[i] ELSE FenceClose[i - (m + 2 + n)]
  <2> HIDE DEF mid
  <2>1. /\ mid \o FenceClose \in Text /\ Len(mid \o FenceClose) = Len(mid) + Len(FenceClose)
        /\ \A i \in 1..(Len(mid) + Len(FenceClose)) :
             (mid \o FenceClose)[i] = IF i <= Len(mid) THEN mid[i] ELSE FenceClose[i - Len(mid)]
    BY <1>2, FencesAreText, ConcatText
  <2> QED  BY <1>2, FencesAreText, <2>1
<1>4. Framed(header, content) = body
  BY DEF Framed
<1>5. /\ Measure(top) = Measure(header) + Measure(FenceOpen)
      /\ Measure(mid) = Measure(top) + Measure(content)
      /\ Measure(body) = Measure(mid) + Measure(FenceClose)
  <2>1. Measure(top) = Measure(header) + Measure(FenceOpen)
    BY FencesAreText, MeasureConcat
  <2>2. Measure(mid) = Measure(top) + Measure(content)
    <3> HIDE DEF top
    <3> QED  BY <1>1, MeasureConcat
  <2>3. Measure(body) = Measure(mid) + Measure(FenceClose)
    <3> HIDE DEF mid
    <3> QED  BY <1>2, FencesAreText, MeasureConcat
  <2> QED  BY <2>1, <2>2, <2>3
<1>6. Overhead(header) = Measure(header) + Measure(FenceOpen) + Measure(FenceClose)
  BY OverheadIs
<1>7. /\ Measure(header) \in Nat /\ Measure(content) \in Nat
      /\ Measure(FenceOpen) \in Nat /\ Measure(FenceClose) \in Nat
  BY FencesAreText, MeasureType
<1> HIDE DEF m, n, top, mid, body
<1>8. Measure(body) = Overhead(header) + Measure(content) /\ Overhead(header) \in Nat
  BY <1>5, <1>6, <1>7
<1>9. \A i \in 1..m : body[i] = header[i]
  BY <1>0, <1>1, <1>2, <1>3
<1>10. body[m + 1] = Fence /\ body[m + 2] = Newline
  <2>1. body[m + 1] = top[m + 1] /\ body[m + 2] = top[m + 2]
    BY <1>0, <1>2, <1>3
  <2>2. top[m + 1] = FenceOpen[1] /\ top[m + 2] = FenceOpen[2]
    <3>1. (m + 1) - m = 1 /\ (m + 2) - m = 2
      BY <1>0
    <3> QED  BY <1>0, <1>1, <3>1
  <2> QED  BY <2>1, <2>2, FencesAreText
<1>11. body[m + n + 3] = Fence
  <2>1. m + n + 3 \in 1..(m + 2 + n + 1) /\ (m + n + 3) - (m + 2 + n) = 1 /\ ~(m + n + 3 <= m + 2 + n)
    BY <1>0
  <2> QED  BY <1>3, <2>1, FencesAreText
<1>12. ASSUME NEW i \in 1..n PROVE body[m + 2 + i] = content[i]
  <2>1. /\ m + 2 + i \in 1..(m + 2 + n + 1) /\ m + 2 + i <= m + 2 + n /\ m + 2 + i \in 1..(m + 2 + n)
        /\ ~(m + 2 + i <= m + 2) /\ (m + 2 + i) - (m + 2) = i
    BY <1>0
  <2> QED  BY <1>2, <1>3, <2>1
<1>13. Len(body) = m + n + 3
  BY <1>0, <1>3
<1> QED  BY <1>0, <1>3, <1>4, <1>8, <1>9, <1>10, <1>11, <1>12, <1>13 DEF m, n

\* A text that ends with a fence has it as a suffix.
LEMMA FenceSuffix ==
  ASSUME NEW text \in Text, Len(text) > 0, text[Len(text)] = Fence
  PROVE  IsSuffix(FenceClose, text)
<1> DEFINE n == Len(text)
           back == Reverse(text)
<1>1. n \in Nat /\ n > 0
  BY TextFacts
<1>2. Reverse(FenceClose) = <<Fence>>
  BY DEF Reverse, FenceClose
<1>3. back \in Seq(Symbols) /\ Len(back) = n /\ back[1] = Fence
  <2>1. back = [i \in 1..n |-> text[(n - i) + 1]]
    BY DEF Reverse
  <2>2. \A i \in 1..n : text[(n - i) + 1] \in Symbols
    BY <1>1, TextFacts
  <2>3. (n - 1) + 1 = n /\ 1 \in 1..n
    BY <1>1
  <2> HIDE DEF back, n
  <2>4. back \in Seq(Symbols) /\ Len(back) = n
    BY <1>1, <2>1, <2>2
  <2> QED  BY <2>1, <2>3, <2>4 DEF n
<1> HIDE DEF back, n
<1>4. SubSeq(back, 1, 1) = <<back[1]>>
  BY <1>1, <1>3, PartOfText DEF Text
<1>5. SubSeq(<<Fence>>, 1, 1) = <<Fence>> /\ Len(<<Fence>>) = 1
  <2>1. <<Fence>> \in Text /\ Len(<<Fence>>) = 1 /\ <<Fence>>[1] = Fence
    BY FencesAreText DEF FenceClose
  <2>2. SubSeq(<<Fence>>, 1, 1) = <<(<<Fence>>)[1]>>
    BY <2>1, PartOfText
  <2> QED  BY <2>1, <2>2
<1> QED  BY <1>1, <1>2, <1>3, <1>4, <1>5 DEF IsSuffix, IsPrefix, back

\* Taking a block apart gives what it was made of.
LEMMA SplitFramed ==
  ASSUME NEW header \in Contents, NEW content \in Contents
  PROVE  /\ SplitFenced(Framed(header, content)) = <<header, content>>
         /\ SplitFenced(Framed(header, content)) # NotFenced
<1> DEFINE m == Len(header)
           n == Len(content)
           body == Framed(header, content)
           opens == {i \in 1..(Len(body) - 1) : SubSeq(body, i, i + 1) = FenceOpen}
           rest == SubSeq(body, m + 3, m + n + 3)
<1>1. /\ m \in Nat /\ n \in Nat /\ header \in Text /\ content \in Text
      /\ \A i \in 1..m : header[i] # Fence
      /\ Fence \notin ToSet(content)
  BY ContentFacts
<1>2. /\ body \in Seq(Symbols) /\ Len(body) = m + n + 3
      /\ \A i \in 1..m : body[i] = header[i]
      /\ body[m + 1] = Fence /\ body[m + 2] = Newline /\ body[m + n + 3] = Fence
      /\ \A i \in 1..n : body[m + 2 + i] = content[i]
  BY <1>1, FramedShape DEF Text
<1> HIDE DEF m, n, body
<1>3. \A i \in 1..(Len(body) - 1) : SubSeq(body, i, i + 1) = <<body[i], body[i + 1]>>
  <2> SUFFICES ASSUME NEW i \in 1..(Len(body) - 1)
               PROVE  SubSeq(body, i, i + 1) = <<body[i], body[i + 1]>>
    OBVIOUS
  <2>1. /\ i \in Nat \ {0} /\ i + 1 \in Nat /\ i <= (i + 1) + 1 /\ i + 1 <= Len(body)
        /\ body \in Text
    BY <1>1, <1>2 DEF Text
  <2> QED  BY <2>1, PartOfText
<1>4. m + 1 \in opens
  <2>1. m + 1 \in 1..(Len(body) - 1) /\ (m + 1) + 1 = m + 2
    BY <1>1, <1>2
  <2> QED  BY <1>2, <1>3, <2>1 DEF FenceOpen
<1>5. \A i \in opens : i \in Nat /\ i >= m + 1
  <2> SUFFICES ASSUME NEW i \in opens PROVE i \in Nat /\ i >= m + 1
    OBVIOUS
  <2>1. i \in 1..(Len(body) - 1) /\ <<body[i], body[i + 1]>> = <<Fence, Newline>>
    BY <1>3 DEF FenceOpen
  <2>2. body[i] = Fence
    BY <2>1
  <2>3. i \notin 1..m
    BY <1>1, <1>2, <2>2
  <2> QED  BY <1>1, <1>2, <2>1, <2>3
<1> HIDE DEF opens
<1>6. Min(opens) = m + 1 /\ opens # {}
  <2>1. \E x \in opens : \A y \in opens : x <= y
    BY <1>1, <1>4, <1>5
  <2>2. Min(opens) \in opens /\ \A y \in opens : Min(opens) <= y
    BY <2>1 DEF Min
  <2> QED  BY <1>1, <1>4, <1>5, <2>2
<1>7. /\ rest \in Seq(Symbols) /\ Len(rest) = n + 1
      /\ \A i \in 1..(n + 1) : rest[i] = body[m + 2 + i]
  <2>1. /\ m + 3 \in Nat \ {0} /\ m + n + 3 \in Nat /\ m + 3 <= (m + n + 3) + 1
        /\ m + n + 3 <= Len(body) /\ body \in Text /\ (m + n + 3) - (m + 3) + 1 = n + 1
    BY <1>1, <1>2 DEF Text
  <2>2. /\ rest \in Text /\ Len(rest) = (m + n + 3) - (m + 3) + 1
        /\ \A i \in 1..((m + n + 3) - (m + 3) + 1) : rest[i] = body[i + ((m + 3) - 1)]
    BY <2>1, PartOfText
  <2> HIDE DEF rest
  <2>3. \A i \in 1..(n + 1) : i + ((m + 3) - 1) = m + 2 + i
    BY <1>1
  <2> QED  BY <2>1, <2>2, <2>3 DEF Text
<1> HIDE DEF rest
<1>8. rest[n + 1] = Fence
  <2>1. m + 2 + (n + 1) = m + n + 3 /\ n + 1 \in 1..(n + 1)
    BY <1>1
  <2> QED  BY <1>2, <1>7, <2>1
<1>9. IsSuffix(FenceClose, rest)
  BY <1>1, <1>7, <1>8, FenceSuffix DEF Text
<1>10. Front(rest) = content
  <2> DEFINE all == SubSeq(rest, 1, n)
  <2>1. all \in Seq(Symbols) /\ Len(all) = n /\ \A i \in 1..n : all[i] = rest[i]
    BY <1>1, <1>7
  <2> HIDE DEF all
  <2>2. \A i \in 1..n : i \in 1..(n + 1)
    BY <1>1
  <2>3. \A i \in 1..n : all[i] = content[i]
    BY <1>2, <1>7, <2>1, <2>2
  <2>4. all = content
    BY <1>1, <2>1, <2>3, SeqEqual DEF Text, n
  <2>5. Front(rest) = all
    BY <1>1, <1>7 DEF Front, all
  <2> QED  BY <2>4, <2>5
<1>11. SubSeq(body, 1, m) = header
  <2> DEFINE all == SubSeq(body, 1, m)
  <2>1. all \in Seq(Symbols) /\ Len(all) = m /\ \A i \in 1..m : all[i] = body[i]
    BY <1>1, <1>2
  <2> HIDE DEF all
  <2>2. all = header
    BY <1>1, <1>2, <2>1, SeqEqual DEF Text, m
  <2> QED  BY <2>2 DEF all
<1>12. SubSeq(body, Min(opens) + 2, Len(body)) = rest /\ SubSeq(body, 1, Min(opens) - 1) = header
  <2>1. Min(opens) + 2 = m + 3 /\ Min(opens) - 1 = m
    BY <1>1, <1>6
  <2> QED  BY <1>2, <1>11, <2>1 DEF rest
<1>13. SplitFenced(body) = <<header, content>>
  BY <1>1, <1>6, <1>9, <1>10, <1>12 DEF SplitFenced, opens
<1>14. <<header, content>> # NotFenced
  BY DEF NotFenced
<1> QED  BY <1>13, <1>14 DEF body
\* The header of a scroll buffer, or none, leaves room for one symbol.
LEMMA Room ==
  /\ SizeLimit \in Nat \ {0} /\ ScrollHeader \in Contents /\ <<>> \in Contents
  /\ \A header \in {<<>>, ScrollHeader} :
       /\ header \in Contents /\ Overhead(header) \in Nat
       /\ \A c \in Symbols : Overhead(header) + Cost[c] <= SizeLimit
  /\ \A c \in Symbols : Cost[c] <= SizeLimit
<1>1. ScrollHeader \in Contents /\ <<>> \in Contents
  BY SymbolAssumption DEF ScrollHeader, Contents
<1>2. ScrollHeader \in Text /\ <<>> \in Text
  BY <1>1, ContentFacts
<1>3. /\ Overhead(ScrollHeader) = Measure(ScrollHeader) + Measure(FenceOpen) + Measure(FenceClose)
      /\ Overhead(<<>>) = 0 + Measure(FenceOpen) + Measure(FenceClose)
      /\ Measure(ScrollHeader) \in Nat /\ Measure(FenceOpen) \in Nat /\ Measure(FenceClose) \in Nat
  BY <1>2, OverheadIs, MeasureNothing
<1>4. \A c \in Symbols : Cost[c] \in Nat \ {0}
  BY CostAssumption
<1>5. SizeLimit \in Nat /\ \A c \in Symbols : Overhead(ScrollHeader) + Cost[c] <= SizeLimit
  BY RoomAssumption
<1>6. \A c \in Symbols : Overhead(<<>>) + Cost[c] <= SizeLimit /\ Cost[c] <= SizeLimit
  BY <1>3, <1>4, <1>5
<1>7. SizeLimit # 0
  BY <1>4, <1>5, <1>6, SymbolAssumption
<1>8. Overhead(ScrollHeader) \in Nat /\ Overhead(<<>>) \in Nat
  BY <1>3
<1> QED  BY <1>1, <1>5, <1>6, <1>7, <1>8

-----------------------------------------------------------------------------
(* Pages.                                                                  *)

\* What has no fence has none in its parts.
LEMMA PartsOfContent ==
  ASSUME NEW s \in Seq(Text), FlattenSeq(s) \in Contents
  PROVE  s \in Seq(Contents)
<1>1. ASSUME NEW i \in 1..Len(s) PROVE s[i] \in Contents
  <2> DEFINE n == Len(s)
             head == SubSeq(s, 1, i - 1)
             first == SubSeq(s, 1, i)
             last == SubSeq(s, i + 1, n)
             e == s[i]
             a == FlattenSeq(head)
             b == FlattenSeq(last)
  <2>1. /\ n \in Nat /\ e \in Text /\ head \in Seq(Text) /\ first = Append(head, e)
        /\ first \in Seq(Text)
    BY PrefixGrows
  <2>2. last \in Seq(Text) /\ s = first \o last
    BY <2>1
  <2> HIDE DEF head, first, last, e
  <2>3. FlattenSeq(first) = a \o e
    BY <2>1, FlattenAppend DEF Text
  <2>4. FlattenSeq(s) = FlattenSeq(first) \o b
    BY <2>1, <2>2, FlattenConcat DEF Text
  <2>5. a \in Text /\ b \in Text
    BY <2>1, <2>2, FlattenType DEF Text
  <2> HIDE DEF a, b
  <2> DEFINE all == FlattenSeq(s)
             left == a \o e
  <2>6. /\ left \in Text /\ Len(left) = Len(a) + Len(e)
        /\ \A j \in 1..(Len(a) + Len(e)) : left[j] = IF j <= Len(a) THEN a[j] ELSE e[j - Len(a)]
    BY <2>1, <2>5, ConcatText
  <2> HIDE DEF left
  <2>7. /\ Len(all) = Len(left) + Len(b)
        /\ \A j \in 1..(Len(left) + Len(b)) : all[j] = IF j <= Len(left) THEN left[j] ELSE b[j - Len(left)]
    <3>1. all = left \o b
      BY <2>3, <2>4 DEF left
    <3>2. left \in Text /\ b \in Text
      BY <2>5, <2>6
    <3> HIDE DEF all
    <3>3. /\ Len(left \o b) = Len(left) + Len(b)
          /\ \A j \in 1..(Len(left) + Len(b)) :
               (left \o b)[j] = IF j <= Len(left) THEN left[j] ELSE b[j - Len(left)]
      BY ONLY <3>2, ConcatText
    <3> QED  BY ONLY <3>1, <3>3
  <2>8. /\ Len(a) \in Nat /\ Len(b) \in Nat /\ Len(e) \in Nat
        /\ \A j \in 1..Len(e) : e[j] \in Symbols
    BY <2>1, <2>5, TextFacts
  <2>9. \A j \in 1..Len(all) : all[j] # Fence
    BY ContentFacts
  <2> HIDE DEF all
  <2>10. ASSUME NEW j \in 1..Len(e) PROVE e[j] \in Symbols \ {Fence}
    <3>1. /\ Len(a) + j \in 1..(Len(a) + Len(e)) /\ ~(Len(a) + j <= Len(a))
          /\ (Len(a) + j) - Len(a) = j /\ Len(a) + j <= Len(left)
          /\ Len(a) + j \in 1..(Len(left) + Len(b))
      BY <2>6, <2>8
    <3>2. all[Len(a) + j] = e[j]
      BY <2>6, <2>7, <3>1
    <3> QED  BY <2>7, <2>8, <2>9, <3>1, <3>2
  <2>11. e \in Contents
    <3>1. ASSUME NEW S, NEW R, NEW t \in Seq(S), \A j \in 1..Len(t) : t[j] \in R PROVE t \in Seq(R)
      <4>1. Len(t) \in Nat /\ t = [j \in 1..Len(t) |-> t[j]]
        BY SeqDef
      <4>2. [j \in 1..Len(t) |-> t[j]] \in [1..Len(t) -> R]
        BY <3>1
      <4> QED  BY <4>1, <4>2, SeqDef
    <3> QED  BY <2>1, <2>10, <3>1 DEF Contents, Text
  <2> QED  BY <2>11 DEF e
<1> QED  BY <1>1

\* The pages are blocks under the same header, of parts of the content.
LEMMA BlockParts ==
  ASSUME NEW header \in Contents, NEW content \in Contents,
         \A c \in Symbols : Overhead(header) + Cost[c] <= SizeLimit
  PROVE  \E q \in Seq(Contents) :
           /\ Paginate(Framed(header, content)) = [i \in DOMAIN q |-> Framed(header, q[i])]
           /\ \A i \in DOMAIN q : Overhead(header) + Measure(q[i]) <= SizeLimit
           /\ FlattenSeq(q) = content
<1> DEFINE body == Framed(header, content)
           Good(q) == /\ Paginate(body) = [i \in DOMAIN q |-> Framed(header, q[i])]
                      /\ \A i \in DOMAIN q : Overhead(header) + Measure(q[i]) <= SizeLimit
                      /\ FlattenSeq(q) = content
           budget == SizeLimit - Overhead(header)
           pieces == Pieces(content, budget)
<1>1. /\ header \in Text /\ content \in Text /\ <<>> \in Contents
      /\ SizeLimit \in Nat
      /\ \A c \in Symbols : Cost[c] \in Nat \ {0}
  BY ContentFacts, Room, CostAssumption
<1>2. /\ Measure(body) = Overhead(header) + Measure(content) /\ Overhead(header) \in Nat
      /\ Measure(content) \in Nat
  BY <1>1, FramedShape, MeasureType
<1>3. SplitFenced(body) = <<header, content>> /\ SplitFenced(body) # NotFenced
  BY SplitFramed
<1>4. /\ budget \in Nat /\ budget >= 1 /\ \A c \in Symbols : Cost[c] <= budget
      /\ AtLeastOne(SizeLimit - Overhead(header)) = budget
  <2>1. Fence \in Symbols
    BY SymbolAssumption
  <2>2. \A c \in Symbols : Overhead(header) + Cost[c] <= SizeLimit
    OBVIOUS
  <2>3. budget \in Nat /\ budget >= 1
    BY <1>1, <1>2, <2>1, <2>2
  <2>4. \A c \in Symbols : Cost[c] <= budget
    BY <1>1, <1>2, <2>2
  <2> QED  BY <2>3, <2>4 DEF AtLeastOne
<1> HIDE DEF budget
<1>5. ASSUME NEW text \in Contents
      PROVE  /\ <<text>> \in Seq(Contents) /\ FlattenSeq(<<text>>) = text
             /\ <<Framed(header, text)>> = [i \in DOMAIN <<text>> |-> Framed(header, <<text>>[i])]
             /\ \A i \in DOMAIN <<text>> : <<text>>[i] = text
  <2>1. FlattenSeq(Append(<<>>, text)) = FlattenSeq(<<>>) \o text
    <3>1. <<>> \in Seq(Seq(Symbols)) /\ text \in Seq(Symbols)
      BY ContentFacts DEF Text
    <3> QED  BY <3>1, FlattenAppend
  <2>2. FlattenSeq(<<text>>) = text
    <3>1. Append(<<>>, text) = <<text>>
      OBVIOUS
    <3>2. <<>> \o text = text
      BY ContentFacts, TextConcat
    <3> QED  BY <2>1, <3>1, <3>2, FlattenNothing
  <2> QED  BY <2>2
<1>6. CASE Measure(body) <= SizeLimit
  <2>1. Paginate(body) = <<body>>
    BY <1>6 DEF Paginate
  <2>2. Good(<<content>>) /\ <<content>> \in Seq(Contents)
    BY <1>2, <1>5, <1>6, <2>1
  <2> HIDE DEF Good
  <2>3. \E q \in Seq(Contents) : Good(q)
    BY <2>2
  <2> QED  BY <2>3 DEF Good
<1>7. CASE ~(Measure(body) <= SizeLimit)
  <2>1. /\ pieces \in Seq(Text) /\ FlattenSeq(pieces) = content
        /\ \A i \in 1..Len(pieces) : Measure(pieces[i]) <= budget
    BY <1>1, <1>4, PiecesWhole
  <2>2. Paginate(body) = PaginateFenced(header, content)
    BY <1>3, <1>7 DEF Paginate
  <2>3. pieces # <<>>
    <3>1. SUFFICES ASSUME pieces = <<>> PROVE FALSE
      OBVIOUS
    <3>2. content = <<>>
      BY <2>1, <3>1, FlattenNothing
    <3> QED  BY <1>1, <1>2, <1>4, <1>7, <3>2, MeasureNothing DEF budget
  <2>4. Paginate(body) = [i \in DOMAIN pieces |-> Framed(header, pieces[i])]
    BY <1>4, <2>2, <2>3 DEF PaginateFenced
  <2>5. pieces \in Seq(Contents)
    BY <2>1, PartsOfContent
  <2>6. ASSUME NEW i \in DOMAIN pieces PROVE Overhead(header) + Measure(pieces[i]) <= SizeLimit
    <3>1. i \in 1..Len(pieces) /\ pieces[i] \in Text
      BY <2>1
    <3>2. Measure(pieces[i]) \in Nat /\ Measure(pieces[i]) <= budget
      BY <2>1, <3>1, MeasureType
    <3> QED  BY <1>1, <1>2, <3>2 DEF budget
  <2> HIDE DEF pieces
  <2> QED  BY <2>1, <2>4, <2>5, <2>6
<1> QED  BY <1>6, <1>7

\* The pages of every block whose header leaves room for a symbol.
THEOREM BlockPages ==
  ASSUME NEW header \in Contents, NEW content \in Contents,
         \A c \in Symbols : Overhead(header) + Cost[c] <= SizeLimit
  PROVE  BlockPagesFaithful(header, content)
<1> DEFINE pages == Paginate(Framed(header, content))
<1>1. PICK q \in Seq(Contents) :
           /\ pages = [i \in DOMAIN q |-> Framed(header, q[i])]
           /\ \A i \in DOMAIN q : Overhead(header) + Measure(q[i]) <= SizeLimit
           /\ FlattenSeq(q) = content
  BY BlockParts
<1> HIDE DEF pages
<1>2. DOMAIN pages = DOMAIN q
  BY <1>1
<1>3. ASSUME NEW i \in DOMAIN pages
      PROVE  /\ Measure(pages[i]) <= SizeLimit
             /\ SplitFenced(pages[i]) # NotFenced
             /\ SplitFenced(pages[i]) = <<header, q[i]>>
  <2>1. pages[i] = Framed(header, q[i]) /\ q[i] \in Contents /\ i \in DOMAIN q
    BY <1>1, <1>2
  <2>2. header \in Text /\ q[i] \in Text
    BY <2>1, ContentFacts
  <2>3. Measure(pages[i]) = Overhead(header) + Measure(q[i])
    BY <2>1, <2>2, FramedShape
  <2> QED  BY <1>1, <2>1, <2>3, SplitFramed
<1> DEFINE parts == [i \in DOMAIN pages |-> SplitFenced(pages[i])]
<1>4. \A i \in DOMAIN pages : parts[i] # NotFenced /\ parts[i][1] = header /\ parts[i][2] = q[i]
  BY <1>3
<1>5. [i \in DOMAIN pages |-> parts[i][2]] = q
  <2>1. q = [i \in DOMAIN q |-> q[i]]
    OBVIOUS
  <2> HIDE DEF parts
  <2> QED  BY <1>2, <1>4, <2>1
<1>6. FlattenSeq([i \in DOMAIN pages |-> parts[i][2]]) = content
  BY <1>1, <1>5
<1>7. \A i \in DOMAIN pages : /\ Measure(pages[i]) <= SizeLimit
                              /\ parts[i] # NotFenced /\ parts[i][1] = header
  BY <1>3, <1>4
<1> QED  BY <1>6, <1>7 DEF BlockPagesFaithful, pages

\* The pages of every text that is no block.
THEOREM PlainPages ==
  ASSUME NEW text \in Text, SplitFenced(text) = NotFenced
  PROVE  PlainPagesFaithful(text)
<1> DEFINE pages == Paginate(text)
<1>1. CASE Measure(text) <= SizeLimit
  <2>1. pages = <<text>>
    BY <1>1 DEF Paginate
  <2>2. FlattenSeq(Append(<<>>, text)) = FlattenSeq(<<>>) \o text
    <3>1. <<>> \in Seq(Seq(Symbols)) /\ text \in Seq(Symbols)
      BY DEF Text
    <3> QED  BY <3>1, FlattenAppend
  <2>3. FlattenSeq(<<text>>) = text
    <3>1. Append(<<>>, text) = <<text>> /\ <<>> \o text = text
      BY TextConcat
    <3> QED  BY <2>2, <3>1, FlattenNothing
  <2> QED  BY <1>1, <2>1, <2>3 DEF PlainPagesFaithful
<1>2. CASE ~(Measure(text) <= SizeLimit)
  <2>1. AtLeastOne(SizeLimit) = SizeLimit /\ SizeLimit \in Nat /\ \A c \in Symbols : Cost[c] <= SizeLimit
    BY Room DEF AtLeastOne
  <2>2. pages = Pieces(text, SizeLimit)
    BY <1>2, <2>1 DEF Paginate, PaginatePlain
  <2>3. /\ pages \in Seq(Text) /\ FlattenSeq(pages) = text
        /\ \A i \in 1..Len(pages) : Measure(pages[i]) <= SizeLimit
    BY <2>1, <2>2, PiecesWhole
  <2> QED  BY <2>3 DEF PlainPagesFaithful
<1> QED  BY <1>1, <1>2

\* A text without a fence is no block.
LEMMA ContentNotFenced ==
  ASSUME NEW content \in Contents
  PROVE  SplitFenced(content) = NotFenced
<1>1. content \in Text /\ Len(content) \in Nat /\ \A i \in 1..Len(content) : content[i] # Fence
  BY ContentFacts
<1>2. ASSUME NEW i \in 1..(Len(content) - 1) PROVE SubSeq(content, i, i + 1) # FenceOpen
  <2>1. i \in Nat \ {0} /\ i + 1 \in Nat /\ i <= (i + 1) + 1 /\ i + 1 <= Len(content) /\ i \in 1..Len(content)
    BY <1>1
  <2>2. SubSeq(content, i, i + 1) = <<content[i], content[i + 1]>>
    BY <1>1, <2>1, PartOfText
  <2> QED  BY <1>1, <2>1, <2>2 DEF FenceOpen
<1> QED  BY <1>2 DEF SplitFenced

-----------------------------------------------------------------------------
(* Shrinking.                                                              *)

\* What is left is a proper prefix that fits, or not even the first symbol fits.
LEMMA ShrinkByCharsKeeps ==
  ASSUME NEW text \in Text, NEW target \in Int
  PROVE  LET cut == ShrinkByChars(text, target)
         IN  IF cut = CannotShrink THEN Len(text) < 2 \/ Cost[text[1]] > target
             ELSE \E k \in 1..(Len(text) - 1) : cut = SubSeq(text, 1, k) /\ Measure(cut) <= target
<1> DEFINE n == Len(text)
           fitting == {k \in 1..(n - 1) : Measure(SubSeq(text, 1, k)) <= target}
           cut == ShrinkByChars(text, target)
<1>1. n \in Nat /\ \A k \in 1..(n - 1) : k \in 0..n /\ n - 1 \in Nat
  BY TextFacts
<1>2. CASE fitting = {}
  <2>1. cut = CannotShrink
    BY <1>2 DEF ShrinkByChars
  <2>2. ASSUME n >= 2 PROVE Cost[text[1]] > target
    <3>1. 1 \in 1..(n - 1) /\ 1 \in 1..n
      BY <1>1, <2>2
    <3>2. ~(Measure(SubSeq(text, 1, 1)) <= target)
      BY <1>2, <3>1
    <3>3. SubSeq(text, 1, 1) = <<text[1]>>
      BY <1>1, <3>1, PartOfText
    <3>4. text[1] \in Symbols
      BY <3>1, TextFacts
    <3>5. Measure(<<text[1]>>) = Cost[text[1]] /\ Cost[text[1]] \in Nat
      BY <3>4, MeasureSymbol
    <3>6. ~(Cost[text[1]] <= target)
      BY <3>2, <3>3, <3>5
    <3> QED  BY ONLY <3>5, <3>6, target \in Int
  <2> QED  BY <1>1, <2>1, <2>2
<1>3. CASE fitting # {}
  <2> DEFINE k == Max(fitting)
  <2>1. k \in fitting
    <3>1. n - 1 \in Nat /\ fitting \in SUBSET (0..(n - 1))
      BY <1>1, <1>3
    <3> HIDE DEF fitting
    <3> QED  BY <1>3, <3>1, LargestUpTo
  <2>2. cut = SubSeq(text, 1, k)
    BY <1>3 DEF ShrinkByChars
  <2>3. k \in 1..(n - 1) /\ Measure(SubSeq(text, 1, k)) <= target
    BY <2>1
  <2> HIDE DEF k, cut
  <2>4. Len(cut) = k /\ k >= 1
    BY <1>1, <2>2, <2>3, MeasurePrefix
  <2>5. cut # CannotShrink
    BY <2>4 DEF CannotShrink
  <2> QED  BY <2>2, <2>3, <2>5 DEF cut
<1> QED  BY <1>2, <1>3

\* A part of a content is one, and two contents make one.
LEMMA ContentParts ==
  /\ \A content \in Contents : \A k \in 0..Len(content) : SubSeq(content, 1, k) \in Contents
  /\ \A a, b \in Contents : a \o b \in Contents
BY DEF Contents

-----------------------------------------------------------------------------
(* Extending and sealing.                                                  *)

\* The rows go in before the fence that closes the block.
LEMMA ExtendFramed ==
  ASSUME NEW header \in Contents, NEW a \in Contents, NEW b \in Contents
  PROVE  ExtendBody(Framed(header, a), b) = Framed(header, a \o b)
<1> DEFINE left == (header \o FenceOpen) \o a
           body == Framed(header, a)
<1>1. /\ header \in Text /\ a \in Text /\ b \in Text
      /\ FenceOpen \in Text /\ FenceClose \in Text /\ Len(FenceClose) = 1
  BY ContentFacts, FencesAreText
<1>2. header \o FenceOpen \in Text
  BY <1>1, ConcatText
<1>3. left \in Text
  BY <1>1, <1>2, ConcatText
<1>4. body = left \o FenceClose
  BY DEF Framed
<1>5. left \o b = (header \o FenceOpen) \o (a \o b)
  <2> DEFINE head == header \o FenceOpen
  <2>1. head \in Text
    BY <1>2
  <2> HIDE DEF head
  <2>2. (head \o a) \o b = head \o (a \o b)
    BY <1>1, <2>1, TextConcat, ZenonT(30)
  <2> QED  BY <2>2 DEF head
<1> HIDE DEF left, body
<1>6. IsSuffix(FenceClose, body)
  <2>1. /\ Len(header) \in Nat /\ Len(a) \in Nat /\ body \in Text
        /\ Len(body) = Len(header) + Len(a) + 3 /\ body[Len(header) + Len(a) + 3] = Fence
    BY <1>1, FramedShape DEF body
  <2>2. Len(body) > 0 /\ body[Len(body)] = Fence
    BY <2>1
  <2> QED  BY <2>1, <2>2, FenceSuffix
<1>7. Front(body) = left
  <2>1. /\ body \in Text /\ Len(body) = Len(left) + 1 /\ Len(left) \in Nat
        /\ \A i \in 1..(Len(left) + 1) : body[i] = IF i <= Len(left) THEN left[i] ELSE FenceClose[i - Len(left)]
    <3>1. /\ left \o FenceClose \in Text /\ Len(left \o FenceClose) = Len(left) + Len(FenceClose)
          /\ \A i \in 1..(Len(left) + Len(FenceClose)) :
               (left \o FenceClose)[i] = IF i <= Len(left) THEN left[i] ELSE FenceClose[i - Len(left)]
      BY <1>1, <1>3, ConcatText
    <3>2. Len(left) \in Nat
      BY <1>3, TextFacts
    <3> QED  BY <1>1, <1>4, <3>1, <3>2
  <2> DEFINE all == SubSeq(body, 1, Len(left))
  <2>2. /\ all \in Text /\ Len(all) = Len(left)
        /\ \A i \in 1..Len(left) : all[i] = body[i]
    <3>1. body \in Seq(Symbols)
      BY <2>1 DEF Text
    <3> QED  BY <2>1, <3>1 DEF Text
  <2>3. Front(body) = all
    BY <2>1 DEF Front
  <2> HIDE DEF all
  <2>4. \A i \in 1..Len(left) : all[i] = left[i]
    BY <2>1, <2>2
  <2> QED  BY <1>3, <2>2, <2>3, <2>4, SeqEqual DEF Text
<1>8. ExtendBody(body, b) = (left \o b) \o FenceClose
  BY <1>6, <1>7 DEF ExtendBody
<1> QED  BY <1>5, <1>8 DEF body, Framed

\* Sealing changes the label of the header and nothing else.
LEMMA LockFramed ==
  ASSUME NEW content \in Contents
  PROVE  LockBody(ScrollBody(content)) = Framed(<<Sealed, Newline>>, content)
<1> DEFINE n == Len(content)
           body == Framed(ScrollHeader, content)
           locked == Framed(<<Sealed, Newline>>, content)
           found == {i \in 1..Len(body) : body[i] = Label}
<1>1. /\ content \in Text /\ n \in Nat
      /\ ScrollHeader \in Text /\ Len(ScrollHeader) = 2
      /\ ScrollHeader[1] = Label /\ ScrollHeader[2] = Newline
      /\ <<Sealed, Newline>> \in Text /\ Len(<<Sealed, Newline>>) = 2
      /\ <<Sealed, Newline>>[1] = Sealed /\ <<Sealed, Newline>>[2] = Newline
  BY ContentFacts, SymbolAssumption DEF ScrollHeader, Text
<1> HIDE DEF n
<1>2. ASSUME NEW header \in Text, Len(header) = 2
      PROVE  LET b == Framed(header, content)
             IN  /\ b \in Text /\ Len(b) = 2 + n + 3
                 /\ b[1] = header[1] /\ b[2] = header[2]
                 /\ b[2 + 1] = Fence /\ b[2 + 2] = Newline /\ b[2 + n + 3] = Fence
                 /\ \A i \in 1..n : b[2 + 2 + i] = content[i]
  <2> DEFINE b == Framed(header, content)
  <2>1. /\ b \in Text /\ Len(b) = Len(header) + n + 3
        /\ \A i \in 1..Len(header) : b[i] = header[i]
        /\ b[Len(header) + 1] = Fence /\ b[Len(header) + 2] = Newline
        /\ b[Len(header) + n + 3] = Fence
        /\ \A i \in 1..n : b[Len(header) + 2 + i] = content[i]
    BY <1>1, FramedShape DEF n
  <2> HIDE DEF b
  <2>2. 1 \in 1..Len(header) /\ 2 \in 1..Len(header)
    BY <1>2
  <2> QED  BY <1>2, <2>1, <2>2 DEF b
<1>3. /\ body \in Text /\ Len(body) = 2 + n + 3
      /\ body[1] = Label /\ body[2] = Newline
      /\ body[2 + 1] = Fence /\ body[2 + 2] = Newline /\ body[2 + n + 3] = Fence
      /\ \A i \in 1..n : body[2 + 2 + i] = content[i]
  BY <1>1, <1>2
<1>4. /\ locked \in Text /\ Len(locked) = 2 + n + 3
      /\ locked[1] = Sealed /\ locked[2] = Newline
      /\ locked[2 + 1] = Fence /\ locked[2 + 2] = Newline /\ locked[2 + n + 3] = Fence
      /\ \A i \in 1..n : locked[2 + 2 + i] = content[i]
  BY <1>1, <1>2
<1> HIDE DEF body, locked
<1>5. 1 \in found /\ \A i \in found : i >= 1
  BY <1>1, <1>3
<1>6. Label \in ToSet(body)
  <2>1. 1 \in DOMAIN body
    BY <1>1, <1>3 DEF Text
  <2> QED  BY <1>3, <2>1 DEF ToSet
<1> HIDE DEF found
<1>7. Min(found) = 1 /\ found # {}
  <2>1. \E x \in found : \A y \in found : x <= y
    BY <1>5
  <2>2. Min(found) \in found /\ \A y \in found : Min(found) <= y
    BY <2>1 DEF Min
  <2>3. \A i \in found : i \in Int
    BY <1>1, <1>3 DEF found
  <2> QED  BY <1>5, <2>2, <2>3
<1>8. LockBody(body) = [body EXCEPT ![1] = Sealed]
  BY <1>6, <1>7 DEF LockBody, SelectInSeq, found
<1>9. [body EXCEPT ![1] = Sealed] = locked
  <2> DEFINE new == [body EXCEPT ![1] = Sealed]
  <2>1. /\ new \in Seq(Symbols) /\ Len(new) = 2 + n + 3 /\ new[1] = Sealed
        /\ \A i \in 1..(2 + n + 3) : i # 1 => new[i] = body[i]
    <3>1. body \in Seq(Symbols) /\ Sealed \in Symbols
      BY <1>3, SymbolAssumption DEF Text
    <3> QED  BY <1>1, <1>3, <3>1
  <2> HIDE DEF new
  <2>2. ASSUME NEW i \in 1..(2 + n + 3) PROVE new[i] = locked[i]
    <3>1. CASE i \in {1, 2, 3, 4, 2 + n + 3}
      BY <1>1, <1>3, <1>4, <2>1, <3>1
    <3>2. CASE i \notin {1, 2, 3, 4, 2 + n + 3}
      <4>1. i - 4 \in 1..n /\ 2 + 2 + (i - 4) = i /\ i # 1
        BY <1>1, <3>2
      <4>2. body[i] = content[i - 4] /\ locked[i] = content[i - 4]
        BY <1>3, <1>4, <4>1
      <4> QED  BY <2>1, <4>1, <4>2
    <3> QED  BY <3>1, <3>2
  <2>3. new = locked
    BY <1>1, <1>4, <2>1, <2>2, SeqEqual DEF Text
  <2> QED  BY <2>3 DEF new
<1> QED  BY <1>8, <1>9 DEF ScrollBody, body, locked

-----------------------------------------------------------------------------
(* The properties of every body.                                           *)

\* A scroll buffer that is shrunk is smaller and small enough, starts as it
\* did, is closed, and takes the next rows into its block: shrink with
\* shrink_by_chars.
THEOREM ShrinkBlock ==
  ASSUME NEW content \in Contents, NEW target \in Nat
  PROVE  ShrinkKeepsBlock(content, target)
<1> DEFINE o       == Overhead(ScrollHeader)
           n       == Len(content)
           body    == ScrollBody(content)
           trimmed == ShrinkByChars(content, target - o)
           framed  == Framed(ScrollHeader, trimmed)
           smaller == Shrink(body, target)
           kept    == SplitFenced(smaller)
<1>1. /\ ScrollHeader \in Contents /\ ScrollHeader \in Text /\ content \in Text
      /\ o \in Nat /\ n \in Nat /\ target - o \in Int
  BY Room, ContentFacts
<1>2. /\ SplitFenced(body) = <<ScrollHeader, content>> /\ SplitFenced(body) # NotFenced
      /\ SplitFenced(body)[1] = ScrollHeader /\ SplitFenced(body)[2] = content
  BY <1>1, SplitFramed DEF ScrollBody
<1>3. Measure(body) = o + Measure(content) /\ Measure(content) \in Nat
  BY <1>1, FramedShape, MeasureType DEF ScrollBody
<1>4. IF trimmed = CannotShrink THEN n < 2 \/ Cost[content[1]] > target - o
      ELSE \E k \in 1..(n - 1) : trimmed = SubSeq(content, 1, k) /\ Measure(trimmed) <= target - o
  BY <1>1, ShrinkByCharsKeeps
<1>5. smaller = IF trimmed = CannotShrink \/ Measure(framed) >= Measure(body) THEN CannotShrink
                ELSE framed
  BY <1>2 DEF Shrink
<1> HIDE DEF o, n, body, trimmed, framed, smaller
<1>6. CASE trimmed = CannotShrink
  <2>1. smaller = CannotShrink
    BY <1>5, <1>6
  <2>2. n < 2 \/ Cost[content[1]] > target - o
    BY <1>4, <1>6
  <2>3. ASSUME ~(n < 2) PROVE o + Cost[content[1]] > target
    <3>1. 1 \in 1..Len(content)
      BY <1>1, <2>3 DEF n
    <3>2. Cost[content[1]] \in Nat
      BY <1>1, <3>1, TextFacts
    <3> QED  BY <1>1, <2>2, <2>3, <3>2
  <2> QED  BY <1>2, <2>1, <2>3 DEF ShrinkKeepsBlock, o, n, body, smaller
<1>7. CASE trimmed # CannotShrink
  <2>1. PICK k \in 1..(n - 1) : trimmed = SubSeq(content, 1, k) /\ Measure(trimmed) <= target - o
    BY <1>4, <1>7
  <2>2. k \in 0..n /\ k < n /\ k \in Nat /\ k >= 1
    BY <1>1, <2>1
  <2>3. /\ trimmed \in Contents /\ trimmed \in Text /\ Len(trimmed) = k
        /\ Measure(trimmed) < Measure(content) /\ Measure(trimmed) \in Nat
    <3>1. trimmed \in Contents
      BY <2>1, <2>2, ContentParts DEF n
    <3>2. Len(trimmed) = k /\ Measure(trimmed) < Measure(content)
      BY <1>1, <2>1, <2>2, MeasurePrefix DEF n
    <3> QED  BY <3>1, <3>2, ContentFacts, MeasureType
  <2>4. /\ Measure(framed) = o + Measure(trimmed)
        /\ Len(framed) > 0
    <3>1. /\ Measure(framed) = o + Measure(trimmed)
          /\ Len(ScrollHeader) \in Nat /\ Len(framed) = Len(ScrollHeader) + Len(trimmed) + 3
      BY <1>1, <2>3, FramedShape DEF framed, o
    <3> QED  BY <2>2, <2>3, <3>1
  <2>5. Measure(framed) < Measure(body) /\ Measure(framed) <= target
    BY <1>1, <1>3, <2>1, <2>3, <2>4
  <2>6. smaller = framed
    <3>1. ~(Measure(framed) >= Measure(body))
      BY <1>1, <1>3, <2>3, <2>4
    <3> QED  BY <1>5, <1>7, <3>1
  <2>7. smaller # CannotShrink
    BY <2>4, <2>6 DEF CannotShrink
  <2>8. /\ SplitFenced(smaller) # NotFenced
        /\ SplitFenced(smaller)[1] = ScrollHeader /\ SplitFenced(smaller)[2] = trimmed
    BY <1>1, <2>3, <2>6, SplitFramed DEF framed
  <2>9. IsStrictPrefix(trimmed, content)
    <3>1. SubSeq(trimmed, 1, k) = trimmed
      BY <2>3, PrefixGrows DEF Text
    <3>2. trimmed # content
      BY <2>2, <2>3 DEF n
    <3> QED  BY <1>1, <2>1, <2>2, <2>3, <3>1, <3>2 DEF IsStrictPrefix, IsPrefix, n
  <2>10. ExtendBody(smaller, content) = ScrollBody(trimmed \o content)
    BY <1>1, <2>3, <2>6, ExtendFramed DEF framed, ScrollBody
  <2> QED  BY <1>2, <2>5, <2>6, <2>7, <2>8, <2>9, <2>10 DEF ShrinkKeepsBlock, body, smaller
<1> QED  BY <1>6, <1>7

\* A scroll buffer that is extended and then sealed holds the rows it had and
\* after them the new ones, under the label of a sealed one: extend_body and
\* lock_body.
THEOREM ExtendBlock ==
  ASSUME NEW content \in Contents, NEW rows \in Contents
  PROVE  ExtendKeepsBlock(content, rows)
<1>1. ScrollHeader \in Contents /\ <<Sealed, Newline>> \in Contents
  BY Room, SymbolAssumption DEF Contents
<1>2. content \o rows \in Contents
  BY ContentParts
<1>3. ExtendBody(ScrollBody(content), rows) = ScrollBody(content \o rows)
  BY <1>1, ExtendFramed DEF ScrollBody
<1>4. LockBody(ScrollBody(content \o rows)) = Framed(<<Sealed, Newline>>, content \o rows)
  BY <1>2, LockFramed
<1>5. SplitFenced(Framed(<<Sealed, Newline>>, content \o rows))
        = <<<<Sealed, Newline>>, content \o rows>>
  BY <1>1, <1>2, SplitFramed
<1> QED  BY <1>3, <1>4, <1>5 DEF ExtendKeepsBlock

-----------------------------------------------------------------------------
(* Numbers in bytes.                                                       *)

Stream == Seq(Byte)

\* There are more values of a byte than tags.
LEMMA BaseFacts == Base \in Nat /\ Base > 6
BY BaseAssumption DEF Tags

\* Division with remainder.
LEMMA Division ==
  ASSUME NEW n \in Nat
  PROVE  /\ n \div Base \in Nat /\ n % Base \in Byte
         /\ n = (n \div Base) * Base + (n % Base)
BY BaseFacts DEF Byte

\* The quotient of a number below a multiple of the base.
LEMMA Quotient ==
  ASSUME NEW n \in Nat, NEW m \in Nat, n < Base * m
  PROVE  n \div Base < m
<1>1. /\ n \div Base \in Nat /\ n % Base \in Nat
      /\ n = (n \div Base) * Base + (n % Base)
  BY Division, BaseFacts DEF Byte
<1> DEFINE q == n \div Base
<1>2. SUFFICES ASSUME q >= m PROVE FALSE
  BY <1>1
<1>3. q * Base >= m * Base
  BY <1>1, <1>2, BaseFacts
<1>4. m * Base = Base * m
  BY BaseFacts
<1> QED  BY <1>1, <1>3, <1>4, BaseFacts
\* What is left of n above its lowest bytes.
Highs(h, n, width) ==
  /\ h \in [0..width -> Nat] /\ h[0] = n
  /\ \A k \in 1..width : h[k] = h[k - 1] \div Base

\* The recursion BigEndian is defined by.
HighUnfolds(g, n, width) ==
  g = [k \in 0..width |-> IF k = 0 THEN n ELSE g[k - 1] \div Base]

\* The run of BigEndian: what is left to write after each byte.
LEMMA BigEndianIs ==
  ASSUME NEW n \in Nat, NEW width \in Nat
  PROVE  \E h : /\ Highs(h, n, width)
                /\ BigEndian(n, width) = [i \in 1..width |-> h[width - i] % Base]
<1> DEFINE T == [p \in (1..width) \X Nat |-> p[2] \div Base]
           c == CHOOSE g : HighUnfolds(g, n, width)
<1>1. BigEndian(n, width) = [i \in 1..width |-> c[width - i] % Base]
  BY Zenon DEF BigEndian, HighUnfolds
<1> HIDE DEF c
<1>2. StepsOn(T, width, Nat)
  BY Division DEF StepsOn
<1>3. \A k \in 1..width, a \in Nat : T[<<k, a>>] = a \div Base
  OBVIOUS
<1> HIDE DEF T
<1>4. PICK f : Follows(f, T, width, Nat, n)
  BY <1>2, RecursionExists
<1>5. Highs(f, n, width)
  <2>1. f \in [0..width -> Nat] /\ f[0] = n
    BY <1>4 DEF Follows
  <2>2. ASSUME NEW k \in 1..width PROVE f[k] = f[k - 1] \div Base
    <3>1. f[k] = T[<<k, f[k - 1]>>] /\ k - 1 \in 0..width
      BY <1>4 DEF Follows
    <3> QED  BY <1>3, <2>1, <3>1
  <2> QED  BY <2>1, <2>2 DEF Highs
<1>6. HighUnfolds(f, n, width)
  BY <1>5 DEF Highs, HighUnfolds
<1>7. HighUnfolds(c, n, width)
  BY <1>6, Zenon DEF c
<1>8. c[0] = n /\ \A k \in 1..width : c[k] = c[k - 1] \div Base
  BY <1>7 DEF HighUnfolds
<1>9. \A k \in 0..width : c[k] = f[k]
  <2>1. c[0] = f[0] /\ \A k \in 1..width : c[k - 1] = f[k - 1] => c[k] = f[k]
    BY <1>5, <1>8 DEF Highs
  <2> QED  BY <2>1, FollowsOnly
<1>10. \A i \in 1..width : c[width - i] = f[width - i]
  BY <1>9
<1>11. BigEndian(n, width) = [i \in 1..width |-> f[width - i] % Base]
  BY <1>1, <1>10
<1> QED  BY <1>5, <1>11

\* The value of the first bytes.
Values(v, bytes) ==
  /\ v \in [0..Len(bytes) -> Nat] /\ v[0] = 0
  /\ \A k \in 1..Len(bytes) : v[k] = v[k - 1] * Base + bytes[k]

\* The recursion Number is defined by.
ValueUnfolds(g, bytes) ==
  g = [k \in 0..Len(bytes) |-> IF k = 0 THEN 0 ELSE g[k - 1] * Base + bytes[k]]

\* The run of Number: what has been read after each byte.
LEMMA NumberIs ==
  ASSUME NEW bytes \in Stream
  PROVE  \E v : Values(v, bytes) /\ Number(bytes) = v[Len(bytes)]
<1> DEFINE n == Len(bytes)
           T == [p \in (1..n) \X Nat |-> p[2] * Base + bytes[p[1]]]
           c == CHOOSE g : ValueUnfolds(g, bytes)
<1>1. n \in Nat /\ \A k \in 1..n : bytes[k] \in Nat
  BY BaseFacts DEF Stream, Byte
<1>2. Number(bytes) = c[n]
  BY Zenon DEF Number, ValueUnfolds
<1> HIDE DEF c, n
<1>3. StepsOn(T, n, Nat)
  <2>1. \A p \in (1..n) \X Nat : p[2] * Base + bytes[p[1]] \in Nat
    BY <1>1, BaseFacts
  <2> QED  BY <2>1 DEF StepsOn
<1>4. \A k \in 1..n, a \in Nat : T[<<k, a>>] = a * Base + bytes[k]
  OBVIOUS
<1> HIDE DEF T
<1>5. PICK f : Follows(f, T, n, Nat, 0)
  BY <1>1, <1>3, RecursionExists
<1>6. Values(f, bytes)
  <2>1. f \in [0..n -> Nat] /\ f[0] = 0
    BY <1>5 DEF Follows
  <2>2. ASSUME NEW k \in 1..n PROVE f[k] = f[k - 1] * Base + bytes[k]
    <3>1. f[k] = T[<<k, f[k - 1]>>] /\ k - 1 \in 0..n
      BY <1>1, <1>5 DEF Follows
    <3> QED  BY <1>4, <2>1, <3>1
  <2> QED  BY <2>1, <2>2 DEF Values, n
<1>7. ValueUnfolds(f, bytes)
  BY <1>6 DEF Values, ValueUnfolds
<1>8. ValueUnfolds(c, bytes)
  BY <1>7, Zenon DEF c
<1>9. c[0] = 0 /\ \A k \in 1..n : c[k] = c[k - 1] * Base + bytes[k]
  BY <1>1, <1>8 DEF ValueUnfolds, n
<1>10. \A k \in 0..n : c[k] = f[k]
  <2>1. c[0] = f[0] /\ \A k \in 1..n : c[k - 1] = f[k - 1] => c[k] = f[k]
    BY <1>6, <1>9 DEF Values, n
  <2> QED  BY <1>1, <2>1, FollowsOnly
<1>11. c[n] = f[n]
  BY <1>1, <1>10
<1> QED  BY <1>2, <1>6, <1>11 DEF n

\* The bytes of a number, and the number of its bytes if it has no more.
LEMMA RoundTrip ==
  ASSUME NEW n \in Nat, NEW width \in Nat
  PROVE  /\ BigEndian(n, width) \in Stream /\ Len(BigEndian(n, width)) = width
         /\ (\A h : Highs(h, n, width) => h[width] = 0) => Number(BigEndian(n, width)) = n
<1> DEFINE bytes == BigEndian(n, width)
<1>1. PICK h : /\ Highs(h, n, width)
               /\ bytes = [i \in 1..width |-> h[width - i] % Base]
  BY BigEndianIs
<1> HIDE DEF bytes
<1>2. h \in [0..width -> Nat] /\ h[0] = n
      /\ \A k \in 1..width : h[k] = h[k - 1] \div Base
  BY <1>1 DEF Highs
<1>3. \A i \in 1..width : width - i \in 0..width /\ h[width - i] \in Nat
  BY <1>2
<1>4. \A i \in 1..width : bytes[i] = h[width - i] % Base /\ bytes[i] \in Byte
  BY <1>1, <1>3, Division
<1>5. bytes \in Stream /\ Len(bytes) = width
  <2>1. \A i \in 1..width : h[width - i] % Base \in Byte
    BY <1>3, Division
  <2>2. [i \in 1..width |-> h[width - i] % Base] \in [1..width -> Byte]
    BY <2>1
  <2>3. bytes \in [1..width -> Byte]
    BY <1>1, <2>2
  <2> QED  BY <2>3 DEF Stream
<1>6. ASSUME h[width] = 0 PROVE Number(bytes) = n
  <2>1. PICK v : Values(v, bytes) /\ Number(bytes) = v[width]
    BY <1>5, NumberIs
  <2>2. /\ v \in [0..width -> Nat] /\ v[0] = 0
        /\ \A k \in 1..width : v[k] = v[k - 1] * Base + bytes[k]
    BY <1>5, <2>1 DEF Values
  <2> DEFINE g == [k \in 0..width |-> h[width - k]]
  <2>3. v[0] = g[0]
    BY <1>6, <2>2
  <2>4. ASSUME NEW k \in 1..width, v[k - 1] = g[k - 1] PROVE v[k] = g[k]
    <3>1. /\ k \in 0..width /\ k - 1 \in 0..width
          /\ width - k \in 0..width /\ width - (k - 1) \in 1..width
          /\ (width - (k - 1)) - 1 = width - k
      OBVIOUS
    <3>2. v[k - 1] = h[width - (k - 1)] /\ g[k] = h[width - k]
      BY <2>4, <3>1
    <3>3. h[width - (k - 1)] = h[width - k] \div Base
      BY <1>2, <3>1
    <3>4. v[k] = (h[width - k] \div Base) * Base + (h[width - k] % Base)
      BY <1>4, <2>2, <3>2, <3>3
    <3>5. h[width - k] \in Nat
      BY <1>2, <3>1
    <3> QED  BY <3>2, <3>4, <3>5, Division
  <2>5. \A k \in 0..width : v[k] = g[k]
    <3> HIDE DEF g
    <3> QED  BY <2>3, <2>4, FollowsOnly
  <2>6. g[width] = h[0] /\ width \in 0..width
    BY <1>2
  <2> QED  BY <1>2, <2>1, <2>5, <2>6
<1> QED  BY <1>1, <1>5, <1>6 DEF bytes

\* Numbers that fit in one, two and four bytes.
LEMMA Widths ==
  /\ \A n \in Nat : /\ BigEndian(n, 1) = <<n % Base>>
                    /\ n % Base \in Byte
  /\ \A n \in Byte : n % Base = n
  /\ \A n \in Nat : BigEndian(n, 2) \in Stream /\ Len(BigEndian(n, 2)) = 2
  /\ \A n \in Nat : BigEndian(n, 4) \in Stream /\ Len(BigEndian(n, 4)) = 4
  /\ \A n \in Word : Number(BigEndian(n, 2)) = n
  /\ \A n \in 0..MaxPayload : Number(BigEndian(n, 4)) = n
<1>1. ASSUME NEW n \in Nat PROVE BigEndian(n, 1) = <<n % Base>>
  <2>1. PICK h : Highs(h, n, 1) /\ BigEndian(n, 1) = [i \in 1..1 |-> h[1 - i] % Base]
    BY BigEndianIs
  <2>2. h[0] = n
    BY <2>1 DEF Highs
  <2> QED  BY <2>1, <2>2
<1>2. ASSUME NEW n \in Byte PROVE n % Base = n
  BY BaseFacts DEF Byte
<1>3. ASSUME NEW n \in Nat, n < Base PROVE n \div Base = 0
  <2>1. n \div Base \in Nat /\ n \div Base < 1
    BY <1>3, Quotient, Division, BaseFacts
  <2> QED  BY <2>1
<1>4. ASSUME NEW n \in Word PROVE n \in Nat /\ Number(BigEndian(n, 2)) = n
  <2>1. n \in Nat /\ n < Base * Base
    BY <1>4, BaseFacts DEF Word
  <2>2. ASSUME NEW h, Highs(h, n, 2) PROVE h[2] = 0
    <3>1. h[1] = n \div Base /\ h[2] = h[1] \div Base
      BY <2>2 DEF Highs
    <3>2. n \div Base \in Nat /\ n \div Base < Base
      BY <2>1, Quotient, Division, BaseFacts
    <3> QED  BY <1>3, <3>1, <3>2
  <2> QED  BY <2>1, <2>2, RoundTrip
<1>5. ASSUME NEW n \in 0..MaxPayload PROVE Number(BigEndian(n, 4)) = n
  <2>1. n \in Nat /\ n < Base * (Base * (Base * Base))
    BY <1>5, PayloadAssumption, BaseFacts
  <2>2. ASSUME NEW h, Highs(h, n, 4) PROVE h[4] = 0
    <3>1. /\ h[1] = n \div Base /\ h[2] = h[1] \div Base
          /\ h[3] = h[2] \div Base /\ h[4] = h[3] \div Base
      BY <2>2 DEF Highs
    <3>2. Base * Base \in Nat /\ Base * (Base * Base) \in Nat
      BY BaseFacts
    <3>3. h[1] \in Nat /\ h[1] < Base * (Base * Base)
      BY <2>1, <3>1, <3>2, Quotient, Division
    <3>4. h[2] \in Nat /\ h[2] < Base * Base
      BY <3>1, <3>2, <3>3, Quotient, Division
    <3>5. h[3] \in Nat /\ h[3] < Base
      BY <3>1, <3>4, Quotient, Division, BaseFacts
    <3> QED  BY <1>3, <3>1, <3>5
  <2> QED  BY <2>1, <2>2, RoundTrip
<1> QED  BY <1>1, <1>2, <1>4, <1>5, RoundTrip, Division
-----------------------------------------------------------------------------
(* Messages as payloads.                                                   *)

\* Of two streams put together the first comes first.
LEMMA ConcatStream ==
  ASSUME NEW a \in Stream, NEW b \in Stream
  PROVE  /\ a \o b \in Stream /\ Len(a \o b) = Len(a) + Len(b)
         /\ \A i \in 1..(Len(a) + Len(b)) :
              (a \o b)[i] = IF i <= Len(a) THEN a[i] ELSE b[i - Len(a)]
BY ConcatProperties DEF Stream

\* The same, one operand at a time.
LEMMA ConcatAt ==
  ASSUME NEW a \in Stream, NEW b \in Stream
  PROVE  /\ a \o b \in Stream /\ Len(a \o b) = Len(a) + Len(b)
         /\ \A i \in 1..Len(a) : (a \o b)[i] = a[i]
         /\ \A i \in 1..Len(b) : (a \o b)[Len(a) + i] = b[i]
<1> DEFINE n == Len(a)
           k == Len(b)
           c == a \o b
<1>1. n \in Nat /\ k \in Nat
  BY DEF Stream
<1>2. /\ c \in Stream /\ Len(c) = n + k
      /\ \A i \in 1..(n + k) : c[i] = IF i <= n THEN a[i] ELSE b[i - n]
  BY ConcatStream
<1> HIDE DEF n, k, c
<1>3. /\ \A i \in 1..n : i \in 1..(n + k) /\ i <= n
      /\ \A i \in 1..k : n + i \in 1..(n + k) /\ ~(n + i <= n) /\ (n + i) - n = i
  BY <1>1
<1>4. /\ c \in Stream /\ Len(c) = n + k
      /\ \A i \in 1..n : c[i] = a[i]
      /\ \A i \in 1..k : c[n + i] = b[i]
  BY <1>2, <1>3
<1> QED  BY <1>4 DEF n, k, c

\* Parts of a stream; of two that are put together the first and the second.
LEMMA PartOfStream ==
  ASSUME NEW a \in Stream, NEW from \in Nat \ {0}, NEW to \in Nat, from <= to + 1, to <= Len(a)
  PROVE  LET part == SubSeq(a, from, to)
         IN  /\ part \in Stream /\ Len(part) = to - from + 1
             /\ \A i \in 1..(to - from + 1) : part[i] = a[i + (from - 1)]
BY SubSeqProperties DEF Stream

\* A part of a stream is the stream whose elements it has.
LEMMA PartIs ==
  ASSUME NEW a \in Stream, NEW b \in Stream, NEW from \in Nat \ {0}, NEW to \in Nat,
         to = from + Len(b) - 1, to <= Len(a),
         \A i \in 1..Len(b) : a[i + (from - 1)] = b[i]
  PROVE  SubSeq(a, from, to) = b
<1> DEFINE part == SubSeq(a, from, to)
<1>1. Len(b) \in Nat
  BY DEF Stream
<1>2. from <= to + 1 /\ to - from + 1 = Len(b)
  BY <1>1
<1>3. /\ part \in Stream /\ Len(part) = Len(b)
      /\ \A i \in 1..Len(b) : part[i] = a[i + (from - 1)]
  BY <1>2, PartOfStream
<1> HIDE DEF part
<1>4. part = b
  BY <1>3, SeqEqual DEF Stream
<1> QED  BY <1>4 DEF part

\* A field is what has its bytes.
LEMMA FieldIs ==
  ASSUME NEW p \in Stream, NEW b \in Stream, NEW from \in Nat \ {0},
         from + Len(b) - 1 <= Len(p), \A i \in 1..Len(b) : p[i + (from - 1)] = b[i]
  PROVE  Field(p, from, Len(b)) = b
<1>1. from + Len(b) - 1 \in Nat
  BY DEF Stream
<1> QED  BY <1>1, PartIs DEF Field

\* Which fields the kinds of messages have.
LEMMA MessageKinds ==
  ASSUME NEW m \in Messages
  PROVE  \/ /\ m.tag = "Hello" /\ m.version \in Byte /\ m.cols \in Word /\ m.rows \in Word
            /\ m.token \in Stream
            /\ m = [tag |-> "Hello", version |-> m.version, cols |-> m.cols, rows |-> m.rows,
                    token |-> m.token]
         \/ m.tag \in {"Output", "Input"} /\ m.bytes \in Stream /\ m = [tag |-> m.tag, bytes |-> m.bytes]
         \/ /\ m.tag = "Resize" /\ m.cols \in Word /\ m.rows \in Word
            /\ m = [tag |-> "Resize", cols |-> m.cols, rows |-> m.rows]
         \/ m.tag \in {"HelloOk", "Goodbye"} /\ m = [tag |-> m.tag]
BY DEF Messages, Stream

\* The parts of the payload of a Hello.
LEMMA HelloPayload ==
  ASSUME NEW v \in Byte, NEW c \in Word, NEW r \in Word, NEW token \in Stream
  PROVE  LET p == BigEndian(v, 1) \o BigEndian(c, 2) \o BigEndian(r, 2)
                    \o BigEndian(Len(token), 1) \o token
         IN  /\ p \in Stream /\ Len(p) = 6 + Len(token)
             /\ p[1] = v /\ p[6] = Len(token) % Base
             /\ Field(p, 2, 2) = BigEndian(c, 2) /\ Field(p, 4, 2) = BigEndian(r, 2)
             /\ Field(p, 7, Len(token)) = token
<1> DEFINE a == <<v>>
           b == BigEndian(c, 2)
           d == BigEndian(r, 2)
           e == <<Len(token) % Base>>
           p1 == a \o b
           p2 == p1 \o d
           p3 == p2 \o e
           p == p3 \o token
<1>1. v \in Nat /\ c \in Nat /\ r \in Nat /\ Len(token) \in Nat
  BY BaseFacts DEF Byte, Word, Stream
<1>2. BigEndian(v, 1) = a /\ BigEndian(Len(token), 1) = e
  BY <1>1, Widths
<1>3. /\ a \in Stream /\ Len(a) = 1 /\ a[1] = v
      /\ b \in Stream /\ Len(b) = 2 /\ d \in Stream /\ Len(d) = 2
      /\ e \in Stream /\ Len(e) = 1 /\ e[1] = Len(token) % Base
  <2>1. Len(token) % Base \in Byte
    BY <1>1, Widths
  <2>2. a \in Stream /\ Len(a) = 1 /\ a[1] = v /\ e \in Stream /\ Len(e) = 1 /\ e[1] = Len(token) % Base
    BY <2>1 DEF Stream
  <2> QED  BY <1>1, <2>2, Widths
<1> HIDE DEF a, b, d, e
<1>4. /\ p1 \in Stream /\ Len(p1) = 1 + 2
      /\ \A i \in 1..1 : p1[i] = a[i]
      /\ \A i \in 1..2 : p1[1 + i] = b[i]
  <2>1. /\ p1 \in Stream /\ Len(p1) = Len(a) + Len(b)
        /\ \A i \in 1..Len(a) : p1[i] = a[i]
        /\ \A i \in 1..Len(b) : p1[Len(a) + i] = b[i]
    BY <1>3, ConcatAt
  <2> HIDE DEF p1
  <2>2. Len(a) = 1 /\ Len(b) = 2
    BY <1>3
  <2> QED  BY ONLY <2>1, <2>2
<1> HIDE DEF p1
<1>5. /\ p2 \in Stream /\ Len(p2) = 3 + 2
      /\ \A i \in 1..3 : p2[i] = p1[i]
      /\ \A i \in 1..2 : p2[3 + i] = d[i]
  <2>1. /\ p2 \in Stream /\ Len(p2) = Len(p1) + Len(d)
        /\ \A i \in 1..Len(p1) : p2[i] = p1[i]
        /\ \A i \in 1..Len(d) : p2[Len(p1) + i] = d[i]
    BY <1>3, <1>4, ConcatAt
  <2> HIDE DEF p2
  <2>2. Len(p1) = 3 /\ Len(d) = 2
    BY <1>3, <1>4
  <2> QED  BY ONLY <2>1, <2>2
<1> HIDE DEF p2
<1>6. /\ p3 \in Stream /\ Len(p3) = 5 + 1
      /\ \A i \in 1..5 : p3[i] = p2[i]
      /\ \A i \in 1..1 : p3[5 + i] = e[i]
  <2>1. /\ p3 \in Stream /\ Len(p3) = Len(p2) + Len(e)
        /\ \A i \in 1..Len(p2) : p3[i] = p2[i]
        /\ \A i \in 1..Len(e) : p3[Len(p2) + i] = e[i]
    BY <1>3, <1>5, ConcatAt
  <2> HIDE DEF p3
  <2>2. Len(p2) = 5 /\ Len(e) = 1
    BY <1>3, <1>5
  <2> QED  BY ONLY <2>1, <2>2
<1> HIDE DEF p3
<1>7. /\ p \in Stream /\ Len(p) = 6 + Len(token)
      /\ \A i \in 1..6 : p[i] = p3[i]
      /\ \A i \in 1..Len(token) : p[6 + i] = token[i]
  <2>1. /\ p \in Stream /\ Len(p) = Len(p3) + Len(token)
        /\ \A i \in 1..Len(p3) : p[i] = p3[i]
        /\ \A i \in 1..Len(token) : p[Len(p3) + i] = token[i]
    BY <1>6, ConcatAt
  <2> HIDE DEF p
  <2>2. Len(p3) = 6 /\ Len(token) = Len(token)
    BY <1>6
  <2> QED  BY ONLY <2>1, <2>2
<1> HIDE DEF p
<1>8. p[1] = v /\ p[6] = Len(token) % Base
  <2>1. p[1] = p3[1] /\ p3[1] = p2[1] /\ p2[1] = p1[1] /\ p1[1] = a[1]
    BY <1>4, <1>5, <1>6, <1>7
  <2>2. p[6] = p3[6] /\ p3[5 + 1] = e[1] /\ 5 + 1 = 6
    BY <1>6, <1>7
  <2> QED  BY <1>3, <2>1, <2>2
<1>9. Field(p, 2, 2) = b
  <2>1. ASSUME NEW i \in 1..2 PROVE p[i + (2 - 1)] = b[i]
    <3>1. i + (2 - 1) = 1 + i /\ 1 + i \in 1..3 /\ 1 + i \in 1..5 /\ 1 + i \in 1..6
      OBVIOUS
    <3> QED  BY <1>4, <1>5, <1>6, <1>7, <3>1
  <2>2. 2 \in Nat \ {0} /\ 2 + Len(b) - 1 <= Len(p) /\ \A i \in 1..Len(b) : p[i + (2 - 1)] = b[i]
    BY <1>1, <1>3, <1>7, <2>1
  <2>3. Field(p, 2, Len(b)) = b
    BY <1>3, <1>7, <2>2, FieldIs
  <2> QED  BY <1>3, <2>3
<1>10. Field(p, 4, 2) = d
  <2>1. ASSUME NEW i \in 1..2 PROVE p[i + (4 - 1)] = d[i]
    <3>1. i + (4 - 1) = 3 + i /\ 3 + i \in 1..5 /\ 3 + i \in 1..6
      OBVIOUS
    <3> QED  BY <1>5, <1>6, <1>7, <3>1
  <2>2. 4 \in Nat \ {0} /\ 4 + Len(d) - 1 <= Len(p) /\ \A i \in 1..Len(d) : p[i + (4 - 1)] = d[i]
    BY <1>1, <1>3, <1>7, <2>1
  <2>3. Field(p, 4, Len(d)) = d
    BY <1>3, <1>7, <2>2, FieldIs
  <2> QED  BY <1>3, <2>3
<1>11. Field(p, 7, Len(token)) = token
  <2>1. ASSUME NEW i \in 1..Len(token) PROVE p[i + (7 - 1)] = token[i]
    <3>1. i + (7 - 1) = 6 + i
      OBVIOUS
    <3> QED  BY <1>7, <3>1
  <2>2. 7 \in Nat \ {0} /\ 7 + Len(token) - 1 <= Len(p)
    BY <1>1, <1>7
  <2> QED  BY <1>7, <2>1, <2>2, FieldIs
<1> QED  BY <1>2, <1>7, <1>8, <1>9, <1>10, <1>11 DEF p, p1, p2, p3, a, b, d, e

\* A payload is decoded to the message it was made from, and to nothing if the
\* length of a token did not fit in its byte.
LEMMA DecodeEncode ==
  ASSUME NEW m \in Messages
  PROVE  /\ Encode(m) \in Stream
         /\ Decode(m.tag, Encode(m)) = IF ShortToken(m) THEN m ELSE Malformed
<1>1. CASE /\ m.tag = "Hello" /\ m.version \in Byte /\ m.cols \in Word /\ m.rows \in Word
           /\ m.token \in Stream
           /\ m = [tag |-> "Hello", version |-> m.version, cols |-> m.cols, rows |-> m.rows,
                   token |-> m.token]
  <2> DEFINE p == Encode(m)
             n == Len(m.token)
  <2>1. p = BigEndian(m.version, 1) \o BigEndian(m.cols, 2) \o BigEndian(m.rows, 2)
              \o BigEndian(n, 1) \o m.token
    BY <1>1 DEF Encode
  <2>2. /\ p \in Stream /\ Len(p) = 6 + n /\ p[1] = m.version /\ p[6] = n % Base
        /\ Field(p, 2, 2) = BigEndian(m.cols, 2) /\ Field(p, 4, 2) = BigEndian(m.rows, 2)
        /\ Field(p, 7, n) = m.token
    BY <1>1, <2>1, HelloPayload, SMTT(20)
  <2>3. n \in Nat /\ n % Base \in Byte
    BY <1>1, Widths DEF Stream
  <2> HIDE DEF p, n
  <2>4. /\ Number(Field(p, 2, 2)) = m.cols
        /\ Number(Field(p, 4, 2)) = m.rows
    BY <1>1, <2>2, Widths
  <2>5. CASE n < Base
    <3>1. n % Base = n
      BY <2>3, <2>5, BaseFacts, Widths DEF Byte
    <3>2. Decode("Hello", p) =
            [tag |-> "Hello", version |-> m.version, cols |-> m.cols, rows |-> m.rows,
             token |-> m.token]
      BY <2>2, <2>3, <2>4, <3>1 DEF Decode
    <3> QED  BY <1>1, <2>2, <2>5, <3>2 DEF ShortToken, p, n
  <2>6. CASE ~(n < Base)
    <3>1. Len(p) # 6 + p[6]
      BY <2>2, <2>3, <2>6, BaseFacts DEF Byte
    <3>2. Decode("Hello", p) = Malformed
      BY <3>1 DEF Decode
    <3> QED  BY <1>1, <2>2, <2>6, <3>2 DEF ShortToken, p, n
  <2> QED  BY <2>5, <2>6
<1>2. CASE m.tag \in {"Output", "Input"} /\ m.bytes \in Stream /\ m = [tag |-> m.tag, bytes |-> m.bytes]
  <2>1. Encode(m) = m.bytes
    BY <1>2 DEF Encode
  <2> QED  BY <1>2, <2>1 DEF Decode, ShortToken
<1>3. CASE /\ m.tag = "Resize" /\ m.cols \in Word /\ m.rows \in Word
           /\ m = [tag |-> "Resize", cols |-> m.cols, rows |-> m.rows]
  <2> DEFINE b == BigEndian(m.cols, 2)
             d == BigEndian(m.rows, 2)
             p == b \o d
  <2>1. Encode(m) = p
    BY <1>3 DEF Encode
  <2>2. /\ b \in Stream /\ Len(b) = 2 /\ d \in Stream /\ Len(d) = 2
        /\ Number(b) = m.cols /\ Number(d) = m.rows
    <3>1. m.cols \in Nat /\ m.rows \in Nat
      BY <1>3, BaseFacts DEF Word
    <3> QED  BY <1>3, <3>1, Widths
  <2> HIDE DEF b, d
  <2>3. /\ p \in Stream /\ Len(p) = 2 + 2
        /\ \A i \in 1..2 : p[i] = b[i]
        /\ \A i \in 1..2 : p[2 + i] = d[i]
    <3>1. /\ p \in Stream /\ Len(p) = Len(b) + Len(d)
          /\ \A i \in 1..Len(b) : p[i] = b[i]
          /\ \A i \in 1..Len(d) : p[Len(b) + i] = d[i]
      BY <2>2, ConcatAt
    <3> HIDE DEF p
    <3> QED  BY <2>2, <3>1
  <2> HIDE DEF p
  <2>4. Field(p, 1, 2) = b
    <3>1. /\ 1 \in Nat \ {0} /\ 1 + Len(b) - 1 <= Len(p)
          /\ \A i \in 1..Len(b) : p[i + (1 - 1)] = b[i]
      BY <2>2, <2>3
    <3>2. Field(p, 1, Len(b)) = b
      BY <2>2, <2>3, <3>1, FieldIs
    <3> QED  BY <2>2, <3>2
  <2>5. Field(p, 3, 2) = d
    <3>1. \A i \in 1..2 : i + (3 - 1) = 2 + i
      OBVIOUS
    <3>2. /\ 3 \in Nat \ {0} /\ 3 + Len(d) - 1 <= Len(p)
          /\ \A i \in 1..Len(d) : p[i + (3 - 1)] = d[i]
      BY <2>2, <2>3, <3>1
    <3>3. Field(p, 3, Len(d)) = d
      BY <2>2, <2>3, <3>2, FieldIs
    <3> QED  BY <2>2, <3>3
  <2>6. Decode("Resize", p) = [tag |-> "Resize", cols |-> m.cols, rows |-> m.rows]
    BY <2>2, <2>3, <2>4, <2>5 DEF Decode
  <2> QED  BY <1>3, <2>1, <2>3, <2>6 DEF ShortToken
<1>4. CASE m.tag \in {"HelloOk", "Goodbye"} /\ m = [tag |-> m.tag]
  <2>1. Encode(m) = <<>>
    BY <1>4 DEF Encode
  <2> QED  BY <1>4, <2>1 DEF Decode, ShortToken, Stream
<1> QED  BY <1>1, <1>2, <1>3, <1>4, MessageKinds
-----------------------------------------------------------------------------
(* Frames.                                                                 *)

\* Every kind of message has a tag of its own.
LEMMA TagFacts ==
  /\ \A t \in DOMAIN Tags : Tags[t] \in Byte
  /\ \A t, u \in DOMAIN Tags : Tags[t] = Tags[u] => t = u
  /\ \A m \in Messages : m.tag \in DOMAIN Tags
<1>1. DOMAIN Tags = {"Hello", "HelloOk", "Output", "Input", "Resize", "Goodbye"}
  BY DEF Tags
<1>2. \A t \in DOMAIN Tags : Tags[t] \in Byte
  BY BaseFacts DEF Tags, Byte
<1>3. \A t, u \in DOMAIN Tags : Tags[t] = Tags[u] => t = u
  BY DEF Tags
<1>4. \A m \in Messages : m.tag \in DOMAIN Tags
  BY <1>1, MessageKinds
<1> QED  BY <1>2, <1>3, <1>4

\* A stream that starts with the header of a message.
Heads(w, m) ==
  /\ w \in Stream /\ Len(w) >= 5 /\ w[1] = Tags[m.tag]
  /\ Number(Field(w, 2, 4)) = Len(Encode(m))

\* What is read after a header depends on whether the payload is there.
LEMMA ReadHeaded ==
  ASSUME NEW m \in Messages, Fits(m), NEW w, Heads(w, m)
  PROVE  LET n == Len(Encode(m))
         IN  ReadFrame(w) =
               IF Len(w) < 5 + n THEN [msg |-> Malformed, rest |-> <<>>]
               ELSE [msg |-> Decode(m.tag, Field(w, 6, n)), rest |-> SubSeq(w, 6 + n, Len(w))]
<1> DEFINE n == Len(Encode(m))
<1>1. n \in Nat /\ n <= MaxPayload
  BY DecodeEncode DEF Fits, Stream
<1>2. /\ w[1] \in {Tags[t] : t \in DOMAIN Tags}
      /\ (CHOOSE t \in DOMAIN Tags : Tags[t] = w[1]) = m.tag
  BY TagFacts DEF Heads
<1>3. ~(Len(w) < 5) /\ ~(n > MaxPayload) /\ Number(Field(w, 2, 4)) = n
  BY <1>1, PayloadAssumption DEF Heads, Stream
<1> HIDE DEF n
<1>4. ReadFrame(w) =
        IF Len(w) < 5 + n THEN [msg |-> Malformed, rest |-> <<>>]
        ELSE [msg |-> Decode(m.tag, Field(w, 6, n)), rest |-> SubSeq(w, 6 + n, Len(w))]
  BY <1>2, <1>3 DEF ReadFrame
<1> QED  BY <1>4 DEF n

\* A frame and what follows it.
LEMMA FrameShape ==
  ASSUME NEW m \in Messages, Fits(m)
  PROVE  LET f == WriteFrame(m)
             p == Encode(m)
         IN  /\ p \in Stream /\ Len(p) \in 0..MaxPayload
             /\ f \in Stream /\ Len(f) = 5 + Len(p) /\ f[1] = Tags[m.tag]
             /\ \A i \in 1..4 : f[1 + i] = BigEndian(Len(p), 4)[i]
             /\ \A i \in 1..Len(p) : f[5 + i] = p[i]
<1> DEFINE f == WriteFrame(m)
           p == Encode(m)
           n == Len(p)
           a == <<Tags[m.tag]>>
           b == BigEndian(n, 4)
           h == a \o b
<1>1. p \in Stream /\ n \in Nat /\ n <= MaxPayload
  BY DecodeEncode DEF Fits, Stream
<1>2. f = h \o p
  <2>1. ~(n > MaxPayload)
    BY <1>1, PayloadAssumption
  <2> QED  BY <2>1 DEF WriteFrame
<1>3. a \in Stream /\ Len(a) = 1 /\ a[1] = Tags[m.tag] /\ b \in Stream /\ Len(b) = 4
  <2>1. Tags[m.tag] \in Byte
    BY TagFacts
  <2>2. a \in Stream /\ Len(a) = 1 /\ a[1] = Tags[m.tag]
    BY <2>1 DEF Stream
  <2>3. b \in Stream /\ Len(b) = 4
    BY <1>1, Widths
  <2> QED  BY <2>2, <2>3
<1> HIDE DEF a, b, f, p, n
<1>4. /\ h \in Stream /\ Len(h) = 1 + 4
      /\ \A i \in 1..1 : h[i] = a[i]
      /\ \A i \in 1..4 : h[1 + i] = b[i]
  <2>1. /\ h \in Stream /\ Len(h) = Len(a) + Len(b)
        /\ \A i \in 1..Len(a) : h[i] = a[i]
        /\ \A i \in 1..Len(b) : h[Len(a) + i] = b[i]
    BY <1>3, ConcatAt
  <2> HIDE DEF h
  <2>2. Len(a) = 1 /\ Len(b) = 4
    BY <1>3
  <2> QED  BY ONLY <2>1, <2>2
<1> HIDE DEF h
<1>5. /\ f \in Stream /\ Len(f) = 5 + n
      /\ \A i \in 1..5 : f[i] = h[i]
      /\ \A i \in 1..n : f[5 + i] = p[i]
  <2>1. /\ f \in Stream /\ Len(f) = Len(h) + Len(p)
        /\ \A i \in 1..Len(h) : f[i] = h[i]
        /\ \A i \in 1..Len(p) : f[Len(h) + i] = p[i]
    BY <1>1, <1>2, <1>4, ConcatAt
  <2>2. Len(h) = 5 /\ Len(p) = n
    BY <1>4 DEF n
  <2> QED  BY ONLY <2>1, <2>2
<1>6. f[1] = Tags[m.tag]
  BY <1>3, <1>4, <1>5
<1>7. ASSUME NEW i \in 1..4 PROVE f[1 + i] = b[i]
  <2>1. 1 + i \in 1..5
    OBVIOUS
  <2> QED  BY <1>4, <1>5, <2>1
<1> QED  BY <1>1, <1>5, <1>6, <1>7 DEF f, p, n, b

\* What begins like a frame has its header.
LEMMA HeaderSeen ==
  ASSUME NEW m \in Messages, Fits(m), NEW w \in Stream, Len(w) >= 5,
         \A i \in 1..5 : w[i] = WriteFrame(m)[i]
  PROVE  Heads(w, m)
<1> DEFINE n == Len(Encode(m))
           b == BigEndian(n, 4)
<1>1. /\ n \in 0..MaxPayload /\ WriteFrame(m)[1] = Tags[m.tag]
      /\ \A i \in 1..4 : WriteFrame(m)[1 + i] = b[i]
  BY FrameShape
<1>2. n \in Nat /\ b \in Stream /\ Len(b) = 4 /\ Number(b) = n
  BY <1>1, Widths
<1> HIDE DEF n, b
<1>3. \A i \in 1..Len(b) : w[i + (2 - 1)] = b[i]
  <2>1. \A i \in 1..4 : i + (2 - 1) = 1 + i /\ 1 + i \in 1..5
    OBVIOUS
  <2> QED  BY <1>1, <1>2, <2>1
<1>4. 2 \in Nat \ {0} /\ 2 + Len(b) - 1 <= Len(w)
  BY <1>2 DEF Stream
<1>5. Field(w, 2, Len(b)) = b
  BY <1>2, <1>3, <1>4, FieldIs
<1> QED  BY <1>1, <1>2, <1>5 DEF Heads, n

\* A frame that is whole is read as it was sent, and nothing of what follows;
\* one with a long token is refused.
LEMMA ReadWhole ==
  ASSUME NEW m \in Messages, Fits(m), NEW more \in Stream
  PROVE  LET w == WriteFrame(m) \o more
         IN  IF ShortToken(m) THEN ReadFrame(w) = [msg |-> m, rest |-> more]
             ELSE ReadFrame(w).msg = Malformed
<1> DEFINE f == WriteFrame(m)
           p == Encode(m)
           n == Len(p)
           w == f \o more
<1>1. /\ p \in Stream /\ n \in Nat
      /\ f \in Stream /\ Len(f) = 5 + n
      /\ \A i \in 1..n : f[5 + i] = p[i]
  BY FrameShape
<1>2. /\ w \in Stream /\ Len(w) = Len(f) + Len(more)
      /\ \A i \in 1..Len(f) : w[i] = f[i]
      /\ \A i \in 1..Len(more) : w[Len(f) + i] = more[i]
  BY <1>1, ConcatAt
<1>3. Len(more) \in Nat
  BY DEF Stream
<1>4. Decode(m.tag, p) = IF ShortToken(m) THEN m ELSE Malformed
  BY DecodeEncode
<1> HIDE DEF f, w, p, n
<1>5. Heads(w, m)
  <2>1. Len(w) >= 5 /\ \A i \in 1..5 : i \in 1..Len(f)
    BY <1>1, <1>2, <1>3
  <2> QED  BY <1>2, <2>1, HeaderSeen DEF f
<1>6. ReadFrame(w) = [msg |-> Decode(m.tag, Field(w, 6, n)), rest |-> SubSeq(w, 6 + n, Len(w))]
  <2>1. ~(Len(w) < 5 + n)
    BY <1>1, <1>2, <1>3
  <2> QED  BY <1>5, <2>1, ReadHeaded DEF n, p
<1>7. Field(w, 6, n) = p
  <2>1. Len(p) = n
    BY DEF n
  <2>2. \A i \in 1..n : i + (6 - 1) = 5 + i /\ 5 + i \in 1..Len(f)
    BY <1>1
  <2>3. \A i \in 1..Len(p) : w[i + (6 - 1)] = p[i]
    BY <1>1, <1>2, <2>1, <2>2
  <2>4. 6 \in Nat \ {0} /\ 6 + Len(p) - 1 <= Len(w)
    BY <1>1, <1>2, <1>3, <2>1
  <2>5. Field(w, 6, Len(p)) = p
    BY <1>1, <1>2, <2>3, <2>4, FieldIs
  <2> QED  BY <2>1, <2>5
<1>8. SubSeq(w, 6 + n, Len(w)) = more
  <2>1. /\ 6 + n \in Nat \ {0} /\ Len(w) \in Nat /\ Len(w) = (6 + n) + Len(more) - 1
        /\ Len(w) <= Len(w)
    BY <1>1, <1>2, <1>3
  <2>2. \A i \in 1..Len(more) : i + ((6 + n) - 1) = Len(f) + i
    BY <1>1, <1>3
  <2>3. \A i \in 1..Len(more) : w[i + ((6 + n) - 1)] = more[i]
    BY <1>2, <2>2
  <2> QED  BY <1>2, <2>1, <2>3, PartIs
<1>9. ReadFrame(w) = [msg |-> IF ShortToken(m) THEN m ELSE Malformed, rest |-> more]
  BY <1>4, <1>6, <1>7, <1>8
<1>10. IF ShortToken(m) THEN ReadFrame(w) = [msg |-> m, rest |-> more]
       ELSE ReadFrame(w).msg = Malformed
  BY <1>9
<1> QED  BY <1>10 DEF w, f

\* A frame that is not whole is not read.
LEMMA ReadCut ==
  ASSUME NEW m \in Messages, Fits(m), NEW j \in Nat, j < Len(WriteFrame(m))
  PROVE  ReadFrame(SubSeq(WriteFrame(m), 1, j)).msg \in {EndOfStream, Malformed}
<1> DEFINE f == WriteFrame(m)
           n == Len(Encode(m))
           w == SubSeq(f, 1, j)
<1>1. f \in Stream /\ Len(f) = 5 + n /\ n \in Nat
  BY FrameShape
<1>2. w \in Stream /\ Len(w) = j /\ \A i \in 1..j : w[i] = f[i]
  <2>1. /\ 1 \in Nat \ {0} /\ 1 <= j + 1 /\ j <= Len(f)
        /\ j - 1 + 1 = j /\ \A i \in 1..j : i + (1 - 1) = i
    BY <1>1
  <2>2. /\ w \in Stream /\ Len(w) = j - 1 + 1
        /\ \A i \in 1..(j - 1 + 1) : w[i] = f[i + (1 - 1)]
    BY <1>1, <2>1, PartOfStream
  <2> HIDE DEF w, f
  <2> QED  BY <2>1, <2>2
<1> HIDE DEF f, n, w
<1>3. CASE j < 5
  BY <1>2, <1>3 DEF ReadFrame
<1>4. CASE ~(j < 5)
  <2>1. Heads(w, m)
    <3>1. Len(w) >= 5 /\ \A i \in 1..5 : i \in 1..j
      BY <1>2, <1>4
    <3> QED  BY <1>2, <3>1, HeaderSeen DEF f
  <2>2. Len(w) < 5 + n
    BY <1>1, <1>2 DEF f
  <2>3. ReadFrame(w) = [msg |-> Malformed, rest |-> <<>>]
    BY <2>1, <2>2, ReadHeaded DEF n
  <2> QED  BY <2>3 DEF w, f
<1> QED  BY <1>3, <1>4 DEF w, f
-----------------------------------------------------------------------------
(* What is written.                                                        *)

Fit == {m \in Messages : Fits(m)}

\* A message of its own and a sequence that is written after another one.
LEMMA WireConcat ==
  /\ \A a, b \in Seq(Messages) : Wire(a \o b) = Wire(a) \o Wire(b)
  /\ \A m \in Messages : Wire(<<m>>) = WriteFrame(m)
  /\ \A a \in Seq(Messages) : Wire(a) \in Stream
  /\ Wire(<<>>) = <<>>
<1>1. \A m \in Messages : WriteFrame(m) \in Stream
  <2> SUFFICES ASSUME NEW m \in Messages PROVE WriteFrame(m) \in Stream
    OBVIOUS
  <2>1. CASE Fits(m)
    BY <2>1, FrameShape
  <2>2. CASE ~Fits(m)
    <3>1. Len(Encode(m)) > MaxPayload
      BY <2>2, DecodeEncode, PayloadAssumption DEF Fits, Stream
    <3> QED  BY <3>1 DEF WriteFrame, Stream
  <2> QED  BY <2>1, <2>2
<1> DEFINE frames(a) == [i \in DOMAIN a |-> WriteFrame(a[i])]
<1>2. ASSUME NEW a \in Seq(Messages) PROVE frames(a) \in Seq(Stream) /\ Len(frames(a)) = Len(a)
  <2>1. DOMAIN a = 1..Len(a) /\ Len(a) \in Nat
    OBVIOUS
  <2>2. \A i \in 1..Len(a) : WriteFrame(a[i]) \in Stream
    BY <1>1
  <2> QED  BY <2>1, <2>2
<1>3. ASSUME NEW a \in Seq(Messages) PROVE Wire(a) \in Stream
  BY <1>2, <1>3, FlattenType DEF Wire, Stream
<1>4. ASSUME NEW a \in Seq(Messages), NEW b \in Seq(Messages)
      PROVE  Wire(a \o b) = Wire(a) \o Wire(b)
  <2>1. frames(a \o b) = frames(a) \o frames(b)
    <3> DEFINE n == Len(a)
               k == Len(b)
    <3>1. /\ n \in Nat /\ k \in Nat /\ a \o b \in Seq(Messages) /\ Len(a \o b) = n + k
          /\ DOMAIN a = 1..n /\ DOMAIN b = 1..k /\ DOMAIN (a \o b) = 1..(n + k)
          /\ \A i \in 1..(n + k) : (a \o b)[i] = IF i <= n THEN a[i] ELSE b[i - n]
      BY ConcatProperties
    <3> HIDE DEF n, k
    <3>2. /\ frames(a) \in Seq(Stream) /\ Len(frames(a)) = n
          /\ frames(b) \in Seq(Stream) /\ Len(frames(b)) = k
          /\ frames(a \o b) \in Seq(Stream) /\ Len(frames(a \o b)) = n + k
      BY <1>2, <3>1 DEF n, k
    <3>3. /\ \A i \in 1..n : frames(a)[i] = WriteFrame(a[i])
          /\ \A i \in 1..k : frames(b)[i] = WriteFrame(b[i])
          /\ \A i \in 1..(n + k) : frames(a \o b)[i] = WriteFrame((a \o b)[i])
      BY <3>1
    <3> HIDE DEF frames
    <3>4. /\ frames(a) \o frames(b) \in Seq(Stream) /\ Len(frames(a) \o frames(b)) = n + k
          /\ \A i \in 1..(n + k) : (frames(a) \o frames(b))[i] =
               IF i <= n THEN frames(a)[i] ELSE frames(b)[i - n]
      BY <3>2, ConcatProperties
    <3>5. ASSUME NEW i \in 1..(n + k) PROVE frames(a \o b)[i] = (frames(a) \o frames(b))[i]
      <4>1. CASE i <= n
        <5>1. i \in 1..n
          BY <3>1, <4>1
        <5> QED  BY <3>1, <3>3, <3>4, <4>1, <5>1
      <4>2. CASE ~(i <= n)
        <5>1. i - n \in 1..k
          BY <3>1, <4>2
        <5> QED  BY <3>1, <3>3, <3>4, <4>2, <5>1
      <4> QED  BY <4>1, <4>2
    <3> QED  BY <3>2, <3>4, <3>5, SeqEqual
  <2>2. frames(a) \in Seq(Stream) /\ frames(b) \in Seq(Stream)
    BY <1>2
  <2>3. Wire(a) = FlattenSeq(frames(a)) /\ Wire(b) = FlattenSeq(frames(b))
        /\ Wire(a \o b) = FlattenSeq(frames(a \o b))
    BY DEF Wire
  <2> HIDE DEF frames
  <2>4. frames(a) \in Seq(Seq(Byte)) /\ frames(b) \in Seq(Seq(Byte))
    BY <2>2 DEF Stream
  <2>5. FlattenSeq(frames(a) \o frames(b)) = FlattenSeq(frames(a)) \o FlattenSeq(frames(b))
    BY <2>4, FlattenConcat
  <2> QED  BY ONLY <2>1, <2>3, <2>5
<1>5. Wire(<<>>) = <<>>
  <2>1. [i \in DOMAIN <<>> |-> WriteFrame((<<>>)[i])] = <<>>
    OBVIOUS
  <2> QED  BY <2>1, FlattenNothing DEF Wire
<1>6. ASSUME NEW m \in Messages PROVE Wire(<<m>>) = WriteFrame(m)
  <2>1. frames(<<m>>) = <<WriteFrame(m)>>
    OBVIOUS
  <2>2. FlattenSeq(Append(<<>>, WriteFrame(m))) = FlattenSeq(<<>>) \o WriteFrame(m)
    <3>1. <<>> \in Seq(Seq(Byte)) /\ WriteFrame(m) \in Seq(Byte)
      BY <1>1 DEF Stream
    <3> QED  BY <3>1, FlattenAppend
  <2>3. Append(<<>>, WriteFrame(m)) = <<WriteFrame(m)>> /\ <<>> \o WriteFrame(m) = WriteFrame(m)
    BY <1>1 DEF Stream
  <2> QED  BY <2>1, <2>2, <2>3, FlattenNothing DEF Wire
<1> QED  BY <1>3, <1>4, <1>5, <1>6

\* What is refused adds nothing to the wire.
LEMMA SentOnly ==
  ASSUME NEW msgs \in Seq(Messages)
  PROVE  Sent(msgs) \in Seq(Fit) /\ Wire(Sent(msgs)) = Wire(msgs)
<1> DEFINE n == Len(msgs)
           pick(m) == IF Fits(m) THEN <<m>> ELSE <<>>
           picks == [i \in DOMAIN msgs |-> pick(msgs[i])]
           first(k) == SubSeq(msgs, 1, k)
<1>1. n \in Nat /\ DOMAIN msgs = 1..n
  OBVIOUS
<1>2. picks \in Seq(Seq(Fit)) /\ Len(picks) = n /\ \A i \in 1..n : picks[i] = pick(msgs[i])
  <2>1. ASSUME NEW i \in 1..n PROVE pick(msgs[i]) \in Seq(Fit)
    <3>1. msgs[i] \in Messages
      BY <1>1
    <3>2. CASE Fits(msgs[i])
      <4>1. msgs[i] \in Fit
        BY <3>1, <3>2 DEF Fit
      <4> QED  BY <3>2, <4>1
    <3> QED  BY <3>2
  <2> QED  BY <1>1, <2>1
<1>3. Sent(msgs) = FlattenSeq(picks)
  BY DEF Sent
<1>4. Sent(msgs) \in Seq(Fit)
  BY <1>2, <1>3, FlattenType
<1>5. ASSUME NEW m \in Messages
      PROVE  pick(m) \in Seq(Fit) /\ pick(m) \in Seq(Messages) /\ Wire(pick(m)) = WriteFrame(m)
  <2>1. CASE Fits(m)
    BY <2>1, WireConcat DEF Fit
  <2>2. CASE ~Fits(m)
    <3>1. Len(Encode(m)) > MaxPayload
      BY <2>2, DecodeEncode, PayloadAssumption DEF Fits, Stream
    <3>2. WriteFrame(m) = <<>>
      BY <3>1 DEF WriteFrame
    <3> QED  BY <2>2, <3>2, WireConcat
  <2> QED  BY <2>1, <2>2
<1> HIDE DEF pick, picks
<1> DEFINE u == [k \in 0..n |-> Wire(FlattenSeq(SubSeq(picks, 1, k)))]
           w == [k \in 0..n |-> Wire(first(k))]
<1>6. u[0] = w[0]
  <2>1. SubSeq(picks, 1, 0) = <<>> /\ first(0) = <<>> /\ 0 \in 0..n
    BY <1>1, <1>2, PrefixGrows
  <2> QED  BY <2>1, FlattenNothing
<1>7. ASSUME NEW k \in 1..n, u[k - 1] = w[k - 1] PROVE u[k] = w[k]
  <2> DEFINE before == SubSeq(picks, 1, k - 1)
  <2>1. /\ before \in Seq(Seq(Fit)) /\ picks[k] \in Seq(Fit)
        /\ SubSeq(picks, 1, k) = Append(before, picks[k])
    BY <1>2, PrefixGrows
  <2>2. /\ first(k - 1) \in Seq(Messages) /\ msgs[k] \in Messages
        /\ first(k) = first(k - 1) \o <<msgs[k]>>
    BY PrefixGrows
  <2>3. k \in 0..n /\ k - 1 \in 0..n
    BY <1>1
  <2>4. u[k] = Wire(FlattenSeq(SubSeq(picks, 1, k))) /\ u[k - 1] = Wire(FlattenSeq(before))
        /\ w[k] = Wire(first(k)) /\ w[k - 1] = Wire(first(k - 1))
    BY <2>3
  <2> HIDE DEF before, first, u, w
  <2>5. FlattenSeq(SubSeq(picks, 1, k)) = FlattenSeq(before) \o picks[k]
    BY <2>1, FlattenAppend
  <2>6. FlattenSeq(before) \in Seq(Messages) /\ picks[k] \in Seq(Messages)
    <3>1. FlattenSeq(before) \in Seq(Fit)
      BY <2>1, FlattenType
    <3> QED  BY <2>1, <3>1 DEF Fit
  <2>7. Wire(FlattenSeq(SubSeq(picks, 1, k))) = Wire(FlattenSeq(before)) \o Wire(picks[k])
    BY <2>5, <2>6, WireConcat
  <2>8. Wire(picks[k]) = WriteFrame(msgs[k])
    BY <1>2, <1>5, <2>2
  <2>9. Wire(first(k)) = Wire(first(k - 1)) \o WriteFrame(msgs[k])
    <3>1. <<msgs[k]>> \in Seq(Messages)
      BY <2>2
    <3> QED  BY <2>2, <3>1, WireConcat
  <2> QED  BY <1>7, <2>4, <2>7, <2>8, <2>9
<1>8. u[n] = w[n]
  <2> HIDE DEF u, w, n
  <2>1. n \in 0..n /\ n \in Nat
    BY <1>1
  <2>2. \A k \in 1..n : u[k - 1] = w[k - 1] => u[k] = w[k]
    BY <1>7
  <2>3. \A k \in 0..n : u[k] = w[k]
    BY ONLY <1>6, <2>1, <2>2, FollowsOnly, SMTT(30)
  <2> QED  BY <2>1, <2>3
<1>9. SubSeq(picks, 1, n) = picks /\ first(n) = msgs /\ n \in 0..n
  BY <1>1, <1>2, PrefixGrows
<1> QED  BY <1>3, <1>4, <1>8, <1>9
-----------------------------------------------------------------------------
(* A wire that breaks.                                                     *)

\* The bytes of the first messages, and of the others those that arrive.
Size(s, k)      == Len(Wire(SubSeq(s, 1, k)))
Left(s, k, cut) == SubSeq(Wire(s), Size(s, k) + 1, cut)

\* Where the frame of a message is.
LEMMA FrameAt ==
  ASSUME NEW s \in Seq(Fit), NEW k \in 1..Len(s)
  PROVE  /\ Wire(s) \in Stream /\ Len(Wire(s)) \in Nat /\ s[k] \in Messages /\ Fits(s[k])
         /\ WriteFrame(s[k]) \in Stream /\ Len(WriteFrame(s[k])) \in Nat
         /\ Len(WriteFrame(s[k])) >= 5
         /\ Size(s, k - 1) \in Nat /\ Size(s, k) = Size(s, k - 1) + Len(WriteFrame(s[k]))
         /\ Size(s, k) <= Len(Wire(s))
         /\ \A i \in 1..Len(WriteFrame(s[k])) :
              Wire(s)[Size(s, k - 1) + i] = WriteFrame(s[k])[i]
<1> DEFINE before == SubSeq(s, 1, k - 1)
           upto == SubSeq(s, 1, k)
           tail == SubSeq(s, k + 1, Len(s))
           f == WriteFrame(s[k])
<1>1. s[k] \in Messages /\ Fits(s[k]) /\ s \in Seq(Messages)
  BY DEF Fit
<1>2. upto = before \o <<s[k]>> /\ before \in Seq(Messages)
  BY <1>1, PrefixGrows
<1>3. tail \in Seq(Messages) /\ upto \in Seq(Messages) /\ <<s[k]>> \in Seq(Messages)
  BY <1>1
<1>4. s = upto \o tail
  BY SMTT(30)
<1>5. f \in Stream /\ Len(f) \in Nat /\ Len(f) >= 5
  <2>1. f \in Stream /\ Len(f) = 5 + Len(Encode(s[k])) /\ Len(Encode(s[k])) \in 0..MaxPayload
    BY <1>1, FrameShape
  <2> HIDE DEF f
  <2> QED  BY <2>1
<1> HIDE DEF before, upto, tail
<1>6. Wire(upto) = Wire(before) \o f
  BY <1>1, <1>2, <1>3, WireConcat
<1>7. Wire(s) = Wire(upto) \o Wire(tail)
  BY <1>3, <1>4, WireConcat
<1>8. /\ Wire(before) \in Stream /\ Wire(upto) \in Stream /\ Wire(tail) \in Stream
      /\ Wire(s) \in Stream
  BY <1>1, <1>2, <1>3, WireConcat
<1>9. /\ Len(Wire(before)) \in Nat /\ Len(Wire(upto)) \in Nat /\ Len(Wire(tail)) \in Nat
      /\ Len(Wire(s)) \in Nat
  BY <1>8 DEF Stream
<1> HIDE DEF f
<1>10. /\ Len(Wire(upto)) = Len(Wire(before)) + Len(f)
       /\ \A i \in 1..Len(f) : Wire(upto)[Len(Wire(before)) + i] = f[i]
  BY <1>5, <1>6, <1>8, ConcatAt
<1>11. /\ Len(Wire(s)) = Len(Wire(upto)) + Len(Wire(tail))
       /\ \A i \in 1..Len(Wire(upto)) : Wire(s)[i] = Wire(upto)[i]
  BY <1>7, <1>8, ConcatAt
<1>12. Size(s, k - 1) = Len(Wire(before)) /\ Size(s, k) = Len(Wire(upto))
  BY DEF Size, before, upto
<1>13. ASSUME NEW i \in 1..Len(f) PROVE Wire(s)[Size(s, k - 1) + i] = f[i]
  <2>1. Len(Wire(before)) + i \in 1..Len(Wire(upto))
    BY <1>5, <1>9, <1>10
  <2> QED  BY <1>10, <1>11, <1>12, <2>1
<1>14. Size(s, k) <= Len(Wire(s))
  BY <1>9, <1>11, <1>12
<1> QED  BY <1>1, <1>5, <1>8, <1>9, <1>10, <1>12, <1>13, <1>14 DEF f

\* No frame is empty.
LEMMA SizesGrow ==
  ASSUME NEW s \in Seq(Fit)
  PROVE  /\ Size(s, 0) = 0 /\ Size(s, Len(s)) = Len(Wire(s)) /\ Len(Wire(s)) \in Nat
         /\ \A k \in 0..Len(s) : /\ Size(s, k) \in Nat /\ Size(s, k) >= k
                                 /\ \A j \in 0..k : Size(s, j) \in Nat /\ Size(s, j) <= Size(s, k)
<1> DEFINE N == Len(s)
           T == {k \in 0..N : /\ Size(s, k) \in Nat /\ Size(s, k) >= k
                              /\ \A j \in 0..k : Size(s, j) \in Nat /\ Size(s, j) <= Size(s, k)}
<1>1. N \in Nat /\ Wire(s) \in Stream /\ Size(s, 0) = 0 /\ Size(s, N) = Len(Wire(s))
  <2>1. SubSeq(s, 1, 0) = <<>> /\ SubSeq(s, 1, N) = s /\ N \in Nat
    BY PrefixGrows
  <2>2. Wire(s) \in Stream
    BY WireConcat DEF Fit
  <2> HIDE DEF N
  <2>3. Wire(<<>>) = <<>> /\ Len(<<>>) = 0
    BY WireConcat
  <2>4. Size(s, 0) = 0
    BY <2>1, <2>3 DEF Size
  <2>5. Size(s, N) = Len(Wire(s))
    BY <2>1 DEF Size
  <2> QED  BY <2>1, <2>2, <2>4, <2>5
<1>2. ASSUME NEW k \in 1..N
      PROVE  Size(s, k - 1) \in Nat => Size(s, k) \in Nat /\ Size(s, k) >= Size(s, k - 1) + 1
  <2>1. /\ Len(WriteFrame(s[k])) \in Nat /\ Len(WriteFrame(s[k])) >= 5
        /\ Size(s, k) = Size(s, k - 1) + Len(WriteFrame(s[k]))
    BY FrameAt
  <2> QED  BY <2>1
<1> HIDE DEF N
<1>3. 0 \in T
  BY <1>1
<1>4. ASSUME NEW k \in 0..(N - 1), k \in T PROVE k + 1 \in T
  <2>1. k + 1 \in 1..N /\ (k + 1) - 1 = k /\ k + 1 \in 0..N
    BY <1>1
  <2>2. Size(s, k) \in Nat /\ Size(s, k) >= k /\ \A j \in 0..k : Size(s, j) \in Nat /\ Size(s, j) <= Size(s, k)
    BY <1>4
  <2>3. Size(s, k + 1) \in Nat /\ Size(s, k + 1) >= Size(s, k) + 1
    <3>1. Size(s, (k + 1) - 1) \in Nat =>
            Size(s, k + 1) \in Nat /\ Size(s, k + 1) >= Size(s, (k + 1) - 1) + 1
      BY <1>2, <2>1
    <3> QED  BY ONLY <2>1, <2>2, <3>1
  <2>4. ASSUME NEW j \in 0..(k + 1) PROVE Size(s, j) \in Nat /\ Size(s, j) <= Size(s, k + 1)
    <3>1. CASE j = k + 1
      BY <2>3, <3>1
    <3>2. CASE j # k + 1
      <4>1. j \in 0..k
        BY <3>2
      <4>2. Size(s, j) \in Nat /\ Size(s, j) <= Size(s, k)
        BY <2>2, <4>1
      <4> QED  BY <2>2, <2>3, <4>2
    <3> QED  BY <3>1, <3>2
  <2> QED  BY <2>1, <2>2, <2>3, <2>4
<1>5. 0..N \subseteq T
  <2> HIDE DEF T
  <2> QED  BY <1>1, <1>3, <1>4, UpToInduction
<1> QED  BY <1>1, <1>5 DEF N

\* What arrives begins with the next frame, if that is whole, and else is part of it.
LEMMA NextFrame ==
  ASSUME NEW s \in Seq(Fit), NEW k \in 1..Len(s), NEW cut \in 0..Len(Wire(s)),
         Size(s, k - 1) <= cut
  PROVE  IF Size(s, k) <= cut
           THEN /\ Left(s, k, cut) \in Stream
                /\ Left(s, k - 1, cut) = WriteFrame(s[k]) \o Left(s, k, cut)
           ELSE \E j \in Nat : /\ j < Len(WriteFrame(s[k]))
                               /\ Left(s, k - 1, cut) = SubSeq(WriteFrame(s[k]), 1, j)
<1> DEFINE w == Wire(s)
           f == WriteFrame(s[k])
           n == Len(f)
           a == Size(s, k - 1)
<1>1. /\ w \in Stream /\ Len(w) \in Nat /\ f \in Stream /\ n \in Nat
      /\ a \in Nat /\ Size(s, k) = a + n /\ a + n <= Len(w)
      /\ \A i \in 1..n : w[a + i] = f[i]
  BY FrameAt
<1>2. cut \in Nat /\ cut <= Len(w) /\ a <= cut
  BY <1>1
<1>3. Left(s, k - 1, cut) = SubSeq(w, a + 1, cut) /\ Left(s, k, cut) = SubSeq(w, a + n + 1, cut)
  BY <1>1 DEF Left
<1> HIDE DEF w, f, a
<1>4. CASE a + n <= cut
  <2> DEFINE r == SubSeq(w, a + n + 1, cut)
             b == f \o r
  <2>1. /\ a + n + 1 \in Nat \ {0} /\ a + n + 1 <= cut + 1 /\ cut - (a + n + 1) + 1 = cut - (a + n)
        /\ a + 1 \in Nat \ {0}
    BY <1>1, <1>2, <1>4
  <2>2. /\ r \in Stream /\ Len(r) = cut - (a + n)
        /\ \A i \in 1..(cut - (a + n)) : r[i] = w[i + (a + n + 1 - 1)]
    <3>1. /\ r \in Stream /\ Len(r) = cut - (a + n + 1) + 1
          /\ \A i \in 1..(cut - (a + n + 1) + 1) : r[i] = w[i + (a + n + 1 - 1)]
      BY <1>1, <1>2, <2>1, PartOfStream
    <3> HIDE DEF r
    <3> QED  BY ONLY <2>1, <3>1
  <2> HIDE DEF r, n
  <2>3. /\ b \in Stream /\ Len(b) = Len(f) + Len(r)
        /\ \A i \in 1..(Len(f) + Len(r)) : b[i] = IF i <= Len(f) THEN f[i] ELSE r[i - Len(f)]
    BY <1>1, <2>2, ConcatStream
  <2> HIDE DEF b
  <2>4. Len(f) = n /\ Len(b) = cut - a /\ cut - a \in Nat
    BY <1>1, <1>2, <2>2, <2>3 DEF n
  <2>5. ASSUME NEW i \in 1..Len(b) PROVE w[i + ((a + 1) - 1)] = b[i]
    <3>1. i + ((a + 1) - 1) = a + i /\ i \in 1..(Len(f) + Len(r))
      BY <1>1, <2>3
    <3>2. b[i] = IF i <= n THEN f[i] ELSE r[i - n]
      BY <2>3, <2>4, <3>1
    <3>3. CASE i <= n
      <4>1. i \in 1..n
        BY <3>3
      <4> QED  BY <1>1, <3>1, <3>2, <3>3, <4>1
    <3>4. CASE ~(i <= n)
      <4>1. i - n \in 1..(cut - (a + n)) /\ (i - n) + (a + n + 1 - 1) = a + i
        BY <1>1, <1>2, <2>4, <3>4
      <4>2. r[i - n] = w[(i - n) + (a + n + 1 - 1)]
        BY <2>2, <4>1
      <4> QED  BY <3>1, <3>2, <3>4, <4>1, <4>2
    <3> QED  BY <3>3, <3>4
  <2>6. cut = (a + 1) + Len(b) - 1
    BY <1>1, <1>2, <2>4
  <2>7. SubSeq(w, a + 1, cut) = b
    BY <1>1, <1>2, <2>1, <2>3, <2>5, <2>6, PartIs
  <2> QED  BY <1>1, <1>3, <1>4, <2>2, <2>7 DEF b, r, f
<1>5. CASE ~(a + n <= cut)
  <2> DEFINE j == cut - a
             b == SubSeq(f, 1, j)
  <2>1. /\ j \in Nat /\ j < n /\ 1 \in Nat \ {0} /\ 1 <= j + 1 /\ j <= Len(f) /\ j - 1 + 1 = j
        /\ a + 1 \in Nat \ {0} /\ \A i \in 1..j : i + (1 - 1) = i /\ i + ((a + 1) - 1) = a + i /\ i \in 1..n
    BY <1>1, <1>2, <1>5
  <2>2. cut = (a + 1) + j - 1
    BY <1>1, <1>2
  <2> HIDE DEF j, n
  <2>3. /\ b \in Stream /\ Len(b) = j - 1 + 1
        /\ \A i \in 1..(j - 1 + 1) : b[i] = f[i + (1 - 1)]
    BY <1>1, <2>1, PartOfStream
  <2> HIDE DEF b
  <2>4. b \in Stream /\ Len(b) = j /\ \A i \in 1..j : b[i] = f[i]
    BY ONLY <2>1, <2>3
  <2>5. \A i \in 1..Len(b) : w[i + ((a + 1) - 1)] = b[i]
    BY <1>1, <2>1, <2>4
  <2>6. SubSeq(w, a + 1, cut) = b
    <3>1. w \in Stream /\ a + 1 \in Nat \ {0} /\ cut \in Nat /\ cut <= Len(w)
      BY <1>1, <1>2, <2>1
    <3>2. cut = (a + 1) + Len(b) - 1
      BY <2>2, <2>4
    <3> QED  BY ONLY <2>4, <2>5, <3>1, <3>2, PartIs
  <2>7. ~(Size(s, k) <= cut)
    BY <1>1, <1>5
  <2> QED  BY <1>3, <2>1, <2>6, <2>7 DEF b, n, f
<1> QED  BY <1>4, <1>5
\* A reader that took k messages.
Reader(s, k, cut) == [msgs |-> SubSeq(s, 1, k), rest |-> Left(s, k, cut)]

\* A frame that arrived whole is taken.
LEMMA TurnTakes ==
  ASSUME NEW s \in Seq(Fit), NEW k \in 1..Len(s), NEW cut \in 0..Len(Wire(s)),
         Size(s, k) <= cut, ShortToken(s[k])
  PROVE  Turn(Reader(s, k - 1, cut)) = Reader(s, k, cut)
<1>1. /\ s[k] \in Messages /\ Fits(s[k])
      /\ Size(s, k - 1) \in Nat /\ Size(s, k) \in Nat /\ Size(s, k - 1) <= Size(s, k)
  <2>1. /\ s[k] \in Messages /\ Fits(s[k]) /\ Len(WriteFrame(s[k])) \in Nat
        /\ Size(s, k - 1) \in Nat /\ Size(s, k) = Size(s, k - 1) + Len(WriteFrame(s[k]))
    BY FrameAt
  <2> QED  BY <2>1
<1>2. Size(s, k - 1) <= cut
  BY <1>1
<1>3. /\ Left(s, k, cut) \in Stream
      /\ Left(s, k - 1, cut) = WriteFrame(s[k]) \o Left(s, k, cut)
  BY <1>2, NextFrame
<1>4. ReadFrame(Left(s, k - 1, cut)) = [msg |-> s[k], rest |-> Left(s, k, cut)]
  BY <1>1, <1>3, ReadWhole
<1>5. s[k] \notin {EndOfStream, Malformed}
  <2>1. s[k].tag \in {"Hello", "HelloOk", "Output", "Input", "Resize", "Goodbye"}
    BY <1>1, TagFacts DEF Tags
  <2> QED  BY <2>1 DEF EndOfStream, Malformed
<1>6. SubSeq(s, 1, k) = Append(SubSeq(s, 1, k - 1), s[k])
  BY PrefixGrows
<1>7. /\ Reader(s, k - 1, cut).msgs = SubSeq(s, 1, k - 1)
      /\ Reader(s, k - 1, cut).rest = Left(s, k - 1, cut)
  BY DEF Reader
<1>8. Turn(Reader(s, k - 1, cut)) =
        [msgs |-> Append(SubSeq(s, 1, k - 1), s[k]), rest |-> Left(s, k, cut)]
  <2> DEFINE r == Reader(s, k - 1, cut)
             read == ReadFrame(r.rest)
  <2>1. read.msg = s[k] /\ read.rest = Left(s, k, cut)
    BY <1>4, <1>7
  <2>2. Turn(r) = IF read.msg \in {EndOfStream, Malformed} THEN r
                  ELSE [msgs |-> Append(r.msgs, read.msg), rest |-> read.rest]
    BY DEF Turn
  <2> HIDE DEF read
  <2>3. ~(read.msg \in {EndOfStream, Malformed})
    BY <1>5, <2>1
  <2>4. Turn(r) = [msgs |-> Append(r.msgs, s[k]), rest |-> Left(s, k, cut)]
    BY <2>1, <2>2, <2>3
  <2> QED  BY <1>7, <2>4
<1> QED  BY <1>6, <1>8 DEF Reader

\* And what is not ends the loop.
LEMMA TurnEnds ==
  ASSUME NEW s \in Seq(Fit), NEW k \in 0..Len(s), NEW cut \in 0..Len(Wire(s)),
         Size(s, k) <= cut,
         k < Len(s) => ~(Size(s, k + 1) <= cut /\ ShortToken(s[k + 1]))
  PROVE  Turn(Reader(s, k, cut)) = Reader(s, k, cut)
<1>1. SUFFICES ReadFrame(Left(s, k, cut)).msg \in {EndOfStream, Malformed}
  BY DEF Turn, Reader
<1>2. CASE k = Len(s)
  <2>1. Size(s, k) = Len(Wire(s)) /\ Len(Wire(s)) \in Nat /\ Wire(s) \in Stream
    <3>1. Wire(s) \in Stream
      BY WireConcat DEF Fit
    <3> QED  BY <1>2, <3>1, SizesGrow
  <2>2. cut = Len(Wire(s))
    BY <2>1
  <2>3. Left(s, k, cut) = SubSeq(Wire(s), cut + 1, cut)
    BY <2>1, <2>2 DEF Left
  <2>4. Len(Left(s, k, cut)) = 0
    <3>1. cut + 1 \in Nat \ {0} /\ cut \in Nat /\ cut + 1 <= cut + 1 /\ cut - (cut + 1) + 1 = 0
      BY <2>1, <2>2
    <3>2. Len(SubSeq(Wire(s), cut + 1, cut)) = cut - (cut + 1) + 1
      BY <2>1, <2>2, <3>1, PartOfStream
    <3> QED  BY <2>3, <3>1, <3>2
  <2> QED  BY <2>4 DEF ReadFrame
<1>3. CASE k < Len(s)
  <2>1. k + 1 \in 1..Len(s) /\ (k + 1) - 1 = k
    BY <1>3
  <2>2. s[k + 1] \in Messages /\ Fits(s[k + 1])
    BY <2>1, FrameAt
  <2>3. IF Size(s, k + 1) <= cut
          THEN /\ Left(s, k + 1, cut) \in Stream
               /\ Left(s, k, cut) = WriteFrame(s[k + 1]) \o Left(s, k + 1, cut)
          ELSE \E j \in Nat : /\ j < Len(WriteFrame(s[k + 1]))
                              /\ Left(s, k, cut) = SubSeq(WriteFrame(s[k + 1]), 1, j)
    <3>1. Size(s, (k + 1) - 1) <= cut
      BY <2>1
    <3>2. IF Size(s, k + 1) <= cut
            THEN /\ Left(s, k + 1, cut) \in Stream
                 /\ Left(s, (k + 1) - 1, cut) = WriteFrame(s[k + 1]) \o Left(s, k + 1, cut)
            ELSE \E j \in Nat : /\ j < Len(WriteFrame(s[k + 1]))
                                /\ Left(s, (k + 1) - 1, cut) = SubSeq(WriteFrame(s[k + 1]), 1, j)
      BY <2>1, <3>1, NextFrame
    <3> QED  BY ONLY <2>1, <3>2
  <2>4. CASE Size(s, k + 1) <= cut
    <3>1. ~ShortToken(s[k + 1])
      BY <1>3, <2>4
    <3>2. ReadFrame(WriteFrame(s[k + 1]) \o Left(s, k + 1, cut)).msg = Malformed
      BY <2>2, <2>3, <2>4, <3>1, ReadWhole
    <3> QED  BY <2>3, <2>4, <3>2
  <2>5. CASE ~(Size(s, k + 1) <= cut)
    <3>1. PICK j \in Nat : /\ j < Len(WriteFrame(s[k + 1]))
                           /\ Left(s, k, cut) = SubSeq(WriteFrame(s[k + 1]), 1, j)
      BY <2>3, <2>5
    <3>2. ReadFrame(SubSeq(WriteFrame(s[k + 1]), 1, j)).msg \in {EndOfStream, Malformed}
      BY <2>2, <3>1, ReadCut
    <3> QED  BY <3>1, <3>2
  <2> QED  BY <2>4, <2>5
<1> QED  BY <1>2, <1>3

\* So the reader gets the frames that arrived whole, up to one that it refuses.
LEMMA ReadsWhole ==
  ASSUME NEW s \in Seq(Fit), NEW cut \in 0..Len(Wire(s)), NEW best \in 0..Len(s),
         Size(s, best) <= cut, \A i \in 1..best : ShortToken(s[i]),
         best < Len(s) => ~(Size(s, best + 1) <= cut /\ ShortToken(s[best + 1]))
  PROVE  ReadAll(SubSeq(Wire(s), 1, cut)) = SubSeq(s, 1, best)
<1> DEFINE w == SubSeq(Wire(s), 1, cut)
           start == [msgs |-> <<>>, rest |-> w]
           g == [k \in 0..cut |-> Reader(s, IF k <= best THEN k ELSE best, cut)]
           after == CHOOSE f : f = [n \in 0..Len(w) |-> IF n = 0 THEN start ELSE Turn(f[n - 1])]
<1>1. /\ Len(s) \in Nat /\ Len(Wire(s)) \in Nat /\ best \in Nat /\ cut \in Nat
      /\ Size(s, 0) = 0 /\ Size(s, best) \in Nat /\ Size(s, best) >= best
      /\ \A j \in 0..best : Size(s, j) \in Nat /\ Size(s, j) <= Size(s, best)
  <2>1. Len(s) \in Nat
    BY PrefixGrows
  <2>2. best \in 0..Len(s)
    OBVIOUS
  <2> QED  BY <2>1, <2>2, SizesGrow
<1>2. best <= cut
  BY <1>1
<1>3. w \in Stream /\ Len(w) = cut /\ w = Left(s, 0, cut)
  <2>1. Wire(s) \in Stream
    BY WireConcat DEF Fit
  <2>2. 1 \in Nat \ {0} /\ 1 <= cut + 1 /\ cut <= Len(Wire(s)) /\ cut - 1 + 1 = cut
    BY <1>1
  <2>3. w \in Stream /\ Len(w) = cut - 1 + 1
    BY <1>1, <2>1, <2>2, PartOfStream
  <2>4. w = Left(s, 0, cut)
    BY <1>1 DEF Left
  <2> HIDE DEF w
  <2> QED  BY <2>2, <2>3, <2>4
<1> HIDE DEF w
<1>4. start = Reader(s, 0, cut)
  <2>1. SubSeq(s, 1, 0) = <<>>
    BY PrefixGrows
  <2> QED  BY <1>3, <2>1 DEF Reader
<1> HIDE DEF start
<1>5. /\ g[0] = start /\ g[cut] = Reader(s, best, cut)
  <2>1. 0 \in 0..cut /\ cut \in 0..cut /\ 0 <= best /\ (cut <= best => cut = best)
    BY <1>1, <1>2
  <2> QED  BY <1>4, <2>1
<1>6. ASSUME NEW k \in 1..cut PROVE g[k] = Turn(g[k - 1])
  <2>1. k \in 0..cut /\ k - 1 \in 0..cut
    BY <1>1
  <2>2. CASE k <= best
    <3>1. k \in 1..Len(s) /\ k \in 0..best /\ k \in 1..best /\ k - 1 <= best
      BY <1>1, <2>2
    <3>2. Size(s, k) <= cut /\ ShortToken(s[k])
      BY <1>1, <3>1
    <3>3. Turn(Reader(s, k - 1, cut)) = Reader(s, k, cut)
      BY <3>1, <3>2, TurnTakes
    <3> QED  BY <2>1, <2>2, <3>1, <3>3
  <2>3. CASE ~(k <= best)
    <3>1. Turn(Reader(s, best, cut)) = Reader(s, best, cut)
      BY TurnEnds
    <3>2. k - 1 <= best => k - 1 = best
      BY <1>1, <2>3
    <3> QED  BY <2>1, <2>3, <3>1, <3>2
  <2> QED  BY <2>2, <2>3
<1>7. g = [n \in 0..Len(w) |-> IF n = 0 THEN start ELSE Turn(g[n - 1])]
  <2>1. g = [n \in 0..cut |-> g[n]]
    OBVIOUS
  <2> HIDE DEF g
  <2>2. ASSUME NEW n \in 0..cut PROVE g[n] = IF n = 0 THEN start ELSE Turn(g[n - 1])
    <3>1. n = 0 \/ n \in 1..cut
      BY <1>1
    <3> QED  BY <1>5, <1>6, <3>1
  <2>3. [n \in 0..cut |-> g[n]] = [n \in 0..cut |-> IF n = 0 THEN start ELSE Turn(g[n - 1])]
    BY <2>2
  <2> QED  BY <1>3, <2>1, <2>3
<1> HIDE DEF g
<1>8. after = [n \in 0..Len(w) |-> IF n = 0 THEN start ELSE Turn(after[n - 1])]
  BY <1>7
<1>9. ReadAll(w) = after[Len(w)].msgs
  BY DEF ReadAll, start
<1> HIDE DEF after
<1>10. after[0] = g[0] /\ \A k \in 1..cut : after[k - 1] = g[k - 1] => after[k] = g[k]
  <2>1. 0 \in 0..Len(w) /\ \A k \in 1..cut : k \in 0..Len(w) /\ k # 0
    BY <1>1, <1>3
  <2>2. after[0] = start /\ \A k \in 1..cut : after[k] = Turn(after[k - 1])
    BY <1>8, <2>1
  <2> QED  BY <1>5, <1>6, <2>2
<1>11. after[cut] = g[cut]
  <2>1. after[0] = g[0]
    BY <1>10
  <2>2. \A k \in 1..cut : after[k - 1] = g[k - 1] => after[k] = g[k]
    BY <1>10
  <2>3. cut \in Nat /\ cut \in 0..cut
    BY <1>1
  <2>4. \A k \in 0..cut : after[k] = g[k]
    BY ONLY <2>1, <2>2, <2>3, FollowsOnly, SMTT(30)
  <2> QED  BY <2>3, <2>4
<1> QED  BY <1>3, <1>5, <1>9, <1>11 DEF Reader, w

\* And it never makes a message of the rest.
THEOREM FramesHold ==
  ASSUME NEW msgs \in Seq(Messages), NEW cut \in 0..Len(Wire(msgs))
  PROVE  FramesWhole(msgs, cut)
<1> DEFINE s == Sent(msgs)
           N == Len(s)
           whole(n) == Size(s, n) <= cut /\ \A i \in 1..n : ShortToken(s[i])
           S == {n \in 0..N : whole(n)}
           best == Max(S)
<1>1. s \in Seq(Fit) /\ Wire(s) = Wire(msgs)
  BY SentOnly
<1>2. N \in Nat /\ Size(s, 0) = 0
  BY <1>1, PrefixGrows, SizesGrow
<1>3. FramesWhole(msgs, cut) <=>
        ReadAll(SubSeq(Wire(s), 1, cut)) = SubSeq(s, 1, best)
  BY <1>1 DEF FramesWhole, Size
<1> HIDE DEF s, N
<1>4. best \in S /\ \A y \in S : best >= y
  <2>1. Len(Wire(s)) \in Nat
    BY <1>1, SizesGrow
  <2>2. 0 <= cut
    BY <1>1, <2>1
  <2>3. whole(0)
    BY <1>2, <2>2
  <2>4. 0 \in S
    BY <1>2, <2>3
  <2>5. S \in SUBSET (0..N) /\ S # {}
    BY <2>4
  <2> HIDE DEF S
  <2> QED  BY <1>2, <2>5, LargestUpTo
<1>5. best \in 0..N /\ whole(best)
  BY <1>4
<1>6. ASSUME best < N PROVE ~(Size(s, best + 1) <= cut /\ ShortToken(s[best + 1]))
  <2> SUFFICES ASSUME Size(s, best + 1) <= cut, ShortToken(s[best + 1]) PROVE FALSE
    OBVIOUS
  <2> HIDE DEF best
  <2>1. best + 1 \in 0..N /\ ~(best >= best + 1)
    BY <1>2, <1>5, <1>6
  <2>2. ASSUME NEW i \in 1..(best + 1) PROVE ShortToken(s[i])
    <3>1. i \in 1..best \/ i = best + 1
      BY <1>2, <1>5
    <3> QED  BY <1>5, <3>1
  <2>3. best + 1 \in S
    BY <2>1, <2>2
  <2> QED  BY <1>4, <2>1, <2>3
<1> HIDE DEF best
<1>7. ReadAll(SubSeq(Wire(s), 1, cut)) = SubSeq(s, 1, best)
  <2>1. cut \in 0..Len(Wire(s))
    BY <1>1
  <2>2. best \in 0..Len(s) /\ Size(s, best) <= cut /\ \A i \in 1..best : ShortToken(s[i])
    BY <1>5 DEF N
  <2>3. best < Len(s) => ~(Size(s, best + 1) <= cut /\ ShortToken(s[best + 1]))
    BY <1>6 DEF N
  <2> QED  BY <1>1, <2>1, <2>2, <2>3, ReadsWhole
<1> QED  BY <1>3, <1>7

-----------------------------------------------------------------------------
(* Searching.                                                              *)

\* What is found first.
LEMMA FirstAt ==
  ASSUME NEW s, Len(s) \in Nat, NEW some, NEW i \in Nat, NEW j \in i..Len(s), s[j] \in some,
         \A m \in i..(j - 1) : s[m] \notin some
  PROVE  FirstOf(s, i, some) = j
<1> DEFINE M == {m \in i..Len(s) : s[m] \in some} \cup {Len(s) + 1}
<1>1. j \in M /\ j \in Nat
  OBVIOUS
<1>2. ASSUME NEW m \in M PROVE j <= m /\ m \in Nat
  <2>1. m \in Nat /\ (m < j => m \in i..(j - 1))
    OBVIOUS
  <2>2. m < j => m \in i..Len(s) /\ s[m] \in some
    OBVIOUS
  <2> QED  BY <2>1, <2>2
<1> HIDE DEF M
<1>3. \A x \in M : (\A y \in M : x <= y) => x = j
  BY <1>1, <1>2
<1>4. (CHOOSE x \in M : \A y \in M : x <= y) = j
  BY <1>1, <1>2, <1>3
<1> QED  BY <1>4 DEF FirstOf, Min, M

\* And when nothing is.
LEMMA FirstNone ==
  ASSUME NEW s, Len(s) \in Nat, NEW some, NEW i \in Nat, \A m \in i..Len(s) : s[m] \notin some
  PROVE  FirstOf(s, i, some) = Len(s) + 1
<1>1. {m \in i..Len(s) : s[m] \in some} \cup {Len(s) + 1} = {Len(s) + 1}
  OBVIOUS
<1>2. (CHOOSE x \in {Len(s) + 1} : \A y \in {Len(s) + 1} : x <= y) = Len(s) + 1
  OBVIOUS
<1> QED  BY <1>1, <1>2 DEF FirstOf, Min

\* In any case it is a place behind the start, or the end.
LEMMA FirstType ==
  ASSUME NEW s, Len(s) \in Nat, NEW some, NEW i \in Nat
  PROVE  LET j == FirstOf(s, i, some)
         IN  /\ j \in Nat /\ j <= Len(s) + 1
             /\ i <= Len(s) + 1 => j >= i
             /\ j <= Len(s) => s[j] \in some /\ j >= i
<1>1. CASE \A m \in i..Len(s) : s[m] \notin some
  <2>1. FirstOf(s, i, some) = Len(s) + 1
    BY <1>1, FirstNone
  <2> QED  BY <2>1
<1>2. CASE ~(\A m \in i..Len(s) : s[m] \notin some)
  <2> DEFINE before(k) == \A m \in i..(k - 1) : s[m] \notin some
             S == {k \in 0..(Len(s) + 1) : before(k)}
             j == Max(S)
  <2>1. PICK m \in i..Len(s) : s[m] \in some
    BY <1>2
  <2>2. S \in SUBSET (0..(Len(s) + 1)) /\ S # {} /\ Len(s) + 1 \in Nat
    <3>1. 0 \in S
      OBVIOUS
    <3> QED  BY <3>1
  <2> HIDE DEF S
  <2>3. j \in S /\ \A y \in S : j >= y
    BY <2>2, LargestUpTo
  <2> HIDE DEF j
  <2>4. j \in Nat /\ j <= m /\ before(j)
    BY <2>1, <2>3 DEF S
  <2>5. j + 1 \in 0..(Len(s) + 1) /\ j + 1 \notin S
    BY <2>1, <2>3, <2>4
  <2>6. PICK k \in i..j : s[k] \in some
    <3>1. ~before(j + 1) /\ (j + 1) - 1 = j
      BY <2>4, <2>5 DEF S
    <3> QED  BY <3>1
  <2>7. k = j
    BY <2>4, <2>6
  <2>8. j \in i..Len(s) /\ s[j] \in some
    BY <2>1, <2>4, <2>6, <2>7
  <2>9. FirstOf(s, i, some) = j
    BY <2>4, <2>8, FirstAt
  <2> QED  BY <2>8, <2>9
<1> QED  BY <1>1, <1>2
-----------------------------------------------------------------------------
(* Sequences of bytes and of characters.                                   *)

CharSeq == Seq(Chars)

\* A sequence of characters and its places.
LEMMA StreamFacts ==
  ASSUME NEW a \in CharSeq
  PROVE  Len(a) \in Nat /\ DOMAIN a = 1..Len(a) /\ \A i \in 1..Len(a) : a[i] \in Chars
BY DEF CharSeq

\* Of two that are put together the first comes first.
LEMMA StreamConcat ==
  ASSUME NEW a \in CharSeq, NEW b \in CharSeq
  PROVE  /\ a \o b \in CharSeq /\ Len(a \o b) = Len(a) + Len(b)
         /\ \A i \in 1..Len(a) : (a \o b)[i] = a[i]
         /\ \A i \in 1..Len(b) : (a \o b)[Len(a) + i] = b[i]
<1> DEFINE c == a \o b
<1>1. Len(a) \in Nat /\ Len(b) \in Nat
  BY StreamFacts
<1>2. /\ c \in CharSeq /\ Len(c) = Len(a) + Len(b)
      /\ \A i \in 1..(Len(a) + Len(b)) : c[i] = IF i <= Len(a) THEN a[i] ELSE b[i - Len(a)]
  BY ConcatProperties DEF CharSeq
<1> HIDE DEF c
<1>3. ASSUME NEW i \in 1..Len(a) PROVE c[i] = a[i]
  <2>1. i \in 1..(Len(a) + Len(b)) /\ i <= Len(a)
    BY <1>1
  <2> QED  BY <1>2, <2>1
<1>4. ASSUME NEW i \in 1..Len(b) PROVE c[Len(a) + i] = b[i]
  <2>1. Len(a) + i \in 1..(Len(a) + Len(b)) /\ ~(Len(a) + i <= Len(a)) /\ (Len(a) + i) - Len(a) = i
    BY <1>1
  <2> QED  BY <1>2, <2>1
<1> QED  BY <1>2, <1>3, <1>4 DEF c

\* Of three.
LEMMA StreamConcat3 ==
  ASSUME NEW a \in CharSeq, NEW b \in CharSeq, NEW c \in CharSeq
  PROVE  /\ a \o b \o c \in CharSeq /\ Len(a \o b \o c) = Len(a) + Len(b) + Len(c)
         /\ \A i \in 1..Len(a) : (a \o b \o c)[i] = a[i]
         /\ \A i \in 1..Len(b) : (a \o b \o c)[Len(a) + i] = b[i]
         /\ \A i \in 1..Len(c) : (a \o b \o c)[Len(a) + Len(b) + i] = c[i]
<1> DEFINE ab == a \o b
           w == ab \o c
<1>1. Len(a) \in Nat /\ Len(b) \in Nat /\ Len(c) \in Nat
  BY StreamFacts
<1>2. /\ ab \in CharSeq /\ Len(ab) = Len(a) + Len(b)
      /\ \A i \in 1..Len(a) : ab[i] = a[i]
      /\ \A i \in 1..Len(b) : ab[Len(a) + i] = b[i]
  BY StreamConcat
<1> HIDE DEF ab
<1>3. /\ w \in CharSeq /\ Len(w) = Len(ab) + Len(c)
      /\ \A i \in 1..Len(ab) : w[i] = ab[i]
      /\ \A i \in 1..Len(c) : w[Len(ab) + i] = c[i]
  BY <1>2, StreamConcat
<1> HIDE DEF w
<1>4. /\ \A i \in 1..Len(a) : i \in 1..Len(ab)
      /\ \A i \in 1..Len(b) : Len(a) + i \in 1..Len(ab)
  BY <1>1, <1>2
<1>5. Len(w) = Len(a) + Len(b) + Len(c)
  BY <1>1, <1>2, <1>3
<1>6. \A i \in 1..Len(a) : w[i] = a[i]
  BY <1>2, <1>3, <1>4
<1>7. \A i \in 1..Len(b) : w[Len(a) + i] = b[i]
  BY <1>2, <1>3, <1>4
<1>8. \A i \in 1..Len(c) : w[Len(a) + Len(b) + i] = c[i]
  BY <1>2, <1>3
<1> QED  BY <1>3, <1>5, <1>6, <1>7, <1>8 DEF w, ab

\* A part of it.
LEMMA PartOfChars ==
  ASSUME NEW a \in CharSeq, NEW from \in Nat \ {0}, NEW to \in Nat, from <= to + 1, to <= Len(a)
  PROVE  LET part == SubSeq(a, from, to)
         IN  /\ part \in CharSeq /\ Len(part) = to - from + 1
             /\ \A i \in 1..(to - from + 1) : part[i] = a[i + (from - 1)]
BY SubSeqProperties DEF CharSeq

\* Short ones.
LEMMA StreamShort ==
  /\ <<>> \in CharSeq /\ Len(<<>>) = 0
  /\ \A x \in Chars : <<x>> \in CharSeq /\ Len(<<x>>) = 1 /\ <<x>>[1] = x
  /\ \A x, y \in Chars : /\ <<x, y>> \in CharSeq /\ Len(<<x, y>>) = 2
                         /\ <<x, y>>[1] = x /\ <<x, y>>[2] = y
BY DEF CharSeq

\* The classes of bytes.
LEMMA Classes ==
  /\ Bytes \subseteq Chars /\ Plain \subseteq Bytes /\ Final \subseteq Plain
  /\ Parameter \subseteq Bytes /\ Intermediate \subseteq Bytes
  /\ "ESC" \in Bytes /\ "BEL" \in Bytes /\ "C3" \in Bytes /\ "A9" \in Bytes
  /\ "[" \in Bytes /\ "]" \in Bytes /\ "\\" \in Bytes
  /\ "e-acute" \in Chars /\ "U+FFFD" \in Chars
  /\ "ESC" \notin Plain /\ "C3" \notin Plain /\ "A9" \notin Plain
  /\ Parameter \cap Intermediate = {} /\ Parameter \cap Final = {}
  /\ Intermediate \cap Final = {}
  /\ "ESC" \notin Parameter \cup Intermediate \cup Final
  /\ "C3" \notin Parameter \cup Intermediate \cup Final
  /\ "A9" \notin Parameter \cup Intermediate \cup Final
BY DEF Bytes, Chars, Plain, Final, Parameter, Intermediate

Body    == Bytes \ {"BEL", "ESC"}
Escaped == Bytes \ {"[", "]", "C3", "A9"}
Ends    == {<<"BEL">>, <<"ESC", "\\">>}

\* The parts that units are made of are sequences of characters.
LEMMA PartsAreStreams ==
  ASSUME NEW S \in SUBSET Chars, NEW a \in Seq(S)
  PROVE  a \in CharSeq /\ Len(a) \in Nat /\ \A i \in 1..Len(a) : a[i] \in S
BY DEF CharSeq

\* The bytes of a control sequence.
LEMMA CsiShape ==
  ASSUME NEW p \in Seq(Parameter), NEW i \in Seq(Intermediate), NEW f \in Final
  PROVE  LET a == <<"ESC", "[">> \o p \o i \o <<f>>
             n == 3 + Len(p) + Len(i)
         IN  /\ a \in CharSeq /\ Len(a) = n /\ Len(p) \in Nat /\ Len(i) \in Nat
             /\ a[1] = "ESC" /\ a[2] = "[" /\ a[n] = f
             /\ \A m \in 1..Len(p) : a[2 + m] = p[m] /\ p[m] \in Parameter
             /\ \A m \in 1..Len(i) : a[2 + Len(p) + m] \in Intermediate
<1> DEFINE h == <<"ESC", "[">>
           e == <<f>>
           b == h \o p \o i
           a == b \o e
<1>1. h \in CharSeq /\ Len(h) = 2 /\ h[1] = "ESC" /\ h[2] = "["
  BY StreamShort, Classes
<1>2. e \in CharSeq /\ Len(e) = 1 /\ e[1] = f
  BY StreamShort, Classes
<1>3. p \in CharSeq /\ Len(p) \in Nat /\ \A m \in 1..Len(p) : p[m] \in Parameter
  BY Classes, PartsAreStreams
<1>4. i \in CharSeq /\ Len(i) \in Nat /\ \A m \in 1..Len(i) : i[m] \in Intermediate
  BY Classes, PartsAreStreams
<1> HIDE DEF h, e
<1>5. /\ b \in CharSeq /\ Len(b) = Len(h) + Len(p) + Len(i)
      /\ \A m \in 1..Len(h) : b[m] = h[m]
      /\ \A m \in 1..Len(p) : b[Len(h) + m] = p[m]
      /\ \A m \in 1..Len(i) : b[Len(h) + Len(p) + m] = i[m]
  BY <1>1, <1>3, <1>4, StreamConcat3
<1> HIDE DEF b
<1>6. /\ a \in CharSeq /\ Len(a) = Len(b) + Len(e)
      /\ \A m \in 1..Len(b) : a[m] = b[m]
      /\ \A m \in 1..Len(e) : a[Len(b) + m] = e[m]
  BY <1>2, <1>5, StreamConcat
<1> HIDE DEF a
<1>7. Len(b) = 2 + Len(p) + Len(i) /\ Len(a) = 3 + Len(p) + Len(i)
  BY <1>1, <1>2, <1>3, <1>4, <1>5, <1>6
<1>8. a[1] = "ESC" /\ a[2] = "["
  <2>1. \A m \in {1, 2} : m \in 1..Len(h) /\ m \in 1..Len(b)
    BY <1>1, <1>3, <1>4, <1>7
  <2> QED  BY <1>1, <1>5, <1>6, <2>1
<1>9. a[3 + Len(p) + Len(i)] = f
  <2>1. 1 \in 1..Len(e) /\ Len(b) + 1 = 3 + Len(p) + Len(i)
    BY <1>2, <1>3, <1>4, <1>7
  <2> QED  BY <1>2, <1>6, <2>1
<1>10. ASSUME NEW m \in 1..Len(p) PROVE a[2 + m] = p[m]
  <2>1. 2 + m \in 1..Len(b) /\ 2 + m = Len(h) + m
    BY <1>1, <1>3, <1>4, <1>7
  <2> QED  BY <1>5, <1>6, <2>1
<1>11. ASSUME NEW m \in 1..Len(i) PROVE a[2 + Len(p) + m] \in Intermediate
  <2>1. 2 + Len(p) + m \in 1..Len(b) /\ 2 + Len(p) + m = Len(h) + Len(p) + m
    BY <1>1, <1>3, <1>4, <1>7
  <2> QED  BY <1>4, <1>5, <1>6, <2>1
<1> QED  BY <1>3, <1>4, <1>6, <1>7, <1>8, <1>9, <1>10, <1>11 DEF a, b, h, e

\* The characters of a string, from its escape to its end.
LEMMA StringShape ==
  ASSUME NEW s \in CharSeq, NEW end \in CharSeq, Len(end) > 0
  PROVE  LET a == <<"ESC", "]">> \o s \o end
         IN  /\ a \in CharSeq /\ Len(a) = 2 + Len(s) + Len(end)
             /\ Len(s) \in Nat /\ Len(end) \in Nat
             /\ a[1] = "ESC" /\ a[2] = "]"
             /\ \A m \in 1..Len(s) : a[2 + m] = s[m]
             /\ \A m \in 1..Len(end) : a[2 + Len(s) + m] = end[m]
<1> DEFINE h == <<"ESC", "]">>
           a == h \o s \o end
<1>1. h \in CharSeq /\ Len(h) = 2 /\ h[1] = "ESC" /\ h[2] = "]"
  BY StreamShort, Classes
<1>2. Len(s) \in Nat /\ Len(end) \in Nat
  BY StreamFacts
<1> HIDE DEF h
<1>3. /\ a \in CharSeq /\ Len(a) = Len(h) + Len(s) + Len(end)
      /\ \A m \in 1..Len(h) : a[m] = h[m]
      /\ \A m \in 1..Len(s) : a[Len(h) + m] = s[m]
      /\ \A m \in 1..Len(end) : a[Len(h) + Len(s) + m] = end[m]
  BY <1>1, StreamConcat3
<1> HIDE DEF a
<1>4. a[1] = "ESC" /\ a[2] = "]"
  <2>1. 1 \in 1..Len(h) /\ 2 \in 1..Len(h)
    BY <1>1
  <2> QED  BY <1>1, <1>3, <2>1
<1>5. /\ Len(a) = 2 + Len(s) + Len(end)
      /\ \A m \in 1..Len(s) : a[2 + m] = s[m]
      /\ \A m \in 1..Len(end) : a[2 + Len(s) + m] = end[m]
  BY <1>1, <1>3
<1> QED  BY <1>2, <1>3, <1>4, <1>5 DEF a, h
-----------------------------------------------------------------------------
(* How far the bytes are complete.                                         *)

\* The places of s after the first d hold w.
Shows(s, d, w) == \A i \in 1..Len(w) : s[d + i] = w[i]

Ask == {Put(c) : c \in Chars} \cup {Escape(c) : c \in Chars}
         \cup {Csi(p, f) : p \in Seq(Parameter), f \in Final}

\* What a unit can be.
LEMMA UnitKinds ==
  ASSUME NEW u \in Units
  PROVE  \/ \E b \in Plain : u = Unit(<<b>>, <<Put(b)>>)
         \/ u = Unit(<<"C3", "A9">>, <<Put("e-acute")>>)
         \/ \E b \in Escaped : u = Unit(<<"ESC", b>>, <<Escape(b)>>)
         \/ \E p \in Seq(Parameter), i \in Seq(Intermediate), f \in Final : u = Control(p, i, f)
         \/ \E s \in Seq(Body), end \in Ends : u = String(s, end, <<>>)
         \/ \E s \in Seq(Body), b \in Plain : u = BrokenOff(s, b) /\ b # "\\"
<1>1. u \in UnitsOf(Seq(Parameter), Seq(Intermediate), Seq(Body))
  BY DEF Units, Body
<1>2. \/ u \in Characters \/ u \in Escapes \/ u \in Controls(Seq(Parameter), Seq(Intermediate))
      \/ u \in Strings(Seq(Body)) \/ u \in Abandoned(Seq(Body))
  BY <1>1 DEF UnitsOf
<1>3. u \in Characters => \/ \E b \in Plain : u = Unit(<<b>>, <<Put(b)>>)
                         \/ u = Unit(<<"C3", "A9">>, <<Put("e-acute")>>)
  BY DEF Characters
<1>4. u \in Escapes => \E b \in Escaped : u = Unit(<<"ESC", b>>, <<Escape(b)>>)
  BY DEF Escapes, Escaped
<1>5. u \in Controls(Seq(Parameter), Seq(Intermediate)) =>
        \E p \in Seq(Parameter), i \in Seq(Intermediate), f \in Final : u = Control(p, i, f)
  BY DEF Controls
<1>6. u \in Strings(Seq(Body)) => \E s \in Seq(Body), end \in Ends : u = String(s, end, <<>>)
  BY DEF Strings, Ends
<1>7. u \in Abandoned(Seq(Body)) =>
        \E s \in Seq(Body), b \in Plain : u = BrokenOff(s, b) /\ b # "\\"
  BY DEF Abandoned
<1> QED  BY <1>2, <1>3, <1>4, <1>5, <1>6, <1>7

\* A string that is ended by what has one or two bytes.
LEMMA StringUnit ==
  ASSUME NEW s \in Seq(Body), NEW end \in CharSeq, Len(end) > 0
  PROVE  LET a == <<"ESC", "]">> \o s \o end
         IN  /\ a \in CharSeq /\ Len(a) = 2 + Len(s) + Len(end)
             /\ Len(s) \in Nat /\ Len(end) \in Nat
             /\ a[1] = "ESC" /\ a[2] = "]"
             /\ \A m \in 1..Len(s) : a[2 + m] \in Body
             /\ \A m \in 1..Len(end) : a[2 + Len(s) + m] = end[m]
<1> DEFINE a == <<"ESC", "]">> \o s \o end
<1>1. s \in CharSeq /\ \A m \in 1..Len(s) : s[m] \in Body
  <2>1. Body \in SUBSET Chars
    BY Classes DEF Body
  <2> QED  BY <2>1, PartsAreStreams
<1>2. /\ a \in CharSeq /\ Len(a) = 2 + Len(s) + Len(end)
      /\ Len(s) \in Nat /\ Len(end) \in Nat
      /\ a[1] = "ESC" /\ a[2] = "]"
      /\ \A m \in 1..Len(s) : a[2 + m] = s[m]
      /\ \A m \in 1..Len(end) : a[2 + Len(s) + m] = end[m]
  BY <1>1, StringShape
<1> HIDE DEF a
<1> QED  BY <1>1, <1>2 DEF a

\* The two ends of a string, and what breaks it off.
LEMMA StringEnds ==
  /\ <<"BEL">> \in CharSeq /\ Len(<<"BEL">>) = 1 /\ <<"BEL">>[1] = "BEL"
  /\ \A b \in Bytes : /\ <<"ESC", b>> \in CharSeq /\ Len(<<"ESC", b>>) = 2
                      /\ <<"ESC", b>>[1] = "ESC" /\ <<"ESC", b>>[2] = b
BY StreamShort, Classes

\* A control sequence ends at its final byte, and is incomplete without one.
LEMMA ControlEndAt ==
  ASSUME NEW bytes, Len(bytes) \in Nat, NEW start \in Nat, NEW j \in start..Len(bytes),
         bytes[j] \in Final,
         \A m \in start..(j - 1) : bytes[m] \in Parameter \cup Intermediate
  PROVE  ControlEnd(bytes, start) = j
<1> DEFINE some == Bytes \ (Parameter \cup Intermediate)
<1>1. bytes[j] \in some /\ \A m \in start..(j - 1) : bytes[m] \notin some
  BY Classes
<1> HIDE DEF some
<1>2. FirstOf(bytes, start, some) = j
  BY <1>1, FirstAt
<1>3. ~(j > Len(bytes))
  OBVIOUS
<1> QED  BY <1>2, <1>3 DEF ControlEnd, some

LEMMA ControlIncomplete ==
  ASSUME NEW bytes, Len(bytes) \in Nat, NEW start \in Nat,
         \A m \in start..Len(bytes) : bytes[m] \in Parameter \cup Intermediate
  PROVE  ControlEnd(bytes, start) = Incomplete
<1> DEFINE some == Bytes \ (Parameter \cup Intermediate)
<1>1. \A m \in start..Len(bytes) : bytes[m] \notin some
  OBVIOUS
<1> HIDE DEF some
<1>2. FirstOf(bytes, start, some) = Len(bytes) + 1
  BY <1>1, FirstNone
<1>3. Len(bytes) + 1 > Len(bytes)
  OBVIOUS
<1> QED  BY <1>2, <1>3 DEF ControlEnd, some

\* A string ends at a bell, or at an escape whose next byte has arrived.
LEMMA StringEndAt ==
  ASSUME NEW bytes, Len(bytes) \in Nat, NEW start \in Nat, NEW j \in start..Len(bytes),
         bytes[j] \in {"BEL", "ESC"},
         \A m \in start..(j - 1) : bytes[m] \in Body
  PROVE  /\ bytes[j] = "BEL" => StringEnd(bytes, start) = j
         /\ bytes[j] = "ESC" /\ j = Len(bytes) => StringEnd(bytes, start) = Incomplete
         /\ bytes[j] = "ESC" /\ j < Len(bytes) =>
              StringEnd(bytes, start) = IF bytes[j + 1] = "\\" THEN j + 1 ELSE j
<1>1. \A m \in start..(j - 1) : bytes[m] \notin {"BEL", "ESC"}
  BY DEF Body
<1>2. FirstOf(bytes, start, {"BEL", "ESC"}) = j
  BY <1>1, FirstAt
<1>3. ~(j > Len(bytes)) /\ (j < Len(bytes) => j # Len(bytes)) /\ "BEL" # "ESC"
  OBVIOUS
<1> QED  BY <1>2, <1>3 DEF StringEnd

LEMMA StringIncomplete ==
  ASSUME NEW bytes, Len(bytes) \in Nat, NEW start \in Nat,
         \A m \in start..Len(bytes) : bytes[m] \in Body
  PROVE  StringEnd(bytes, start) = Incomplete
<1>1. \A m \in start..Len(bytes) : bytes[m] \notin {"BEL", "ESC"}
  BY DEF Body
<1>2. FirstOf(bytes, start, {"BEL", "ESC"}) = Len(bytes) + 1
  BY <1>1, FirstNone
<1>3. Len(bytes) + 1 > Len(bytes)
  OBVIOUS
<1> QED  BY <1>2, <1>3 DEF StringEnd

\* What the second byte of a unit decides.
LEMMA UnitEndAt ==
  ASSUME NEW bytes, Len(bytes) \in Nat, NEW d \in Nat, d < Len(bytes)
  PROVE  LET i == d + 1
         IN  /\ bytes[i] \notin {"ESC", "C3"} => UnitEnd(bytes, i) = i
             /\ bytes[i] \in {"ESC", "C3"} /\ i = Len(bytes) => UnitEnd(bytes, i) = Incomplete
             /\ bytes[i] = "ESC" /\ i < Len(bytes) /\ bytes[i + 1] = "[" =>
                  UnitEnd(bytes, i) = ControlEnd(bytes, i + 2)
             /\ bytes[i] = "ESC" /\ i < Len(bytes) /\ bytes[i + 1] = "]" =>
                  UnitEnd(bytes, i) = StringEnd(bytes, i + 2)
             /\ bytes[i] = "C3" /\ i < Len(bytes) /\ bytes[i + 1] # "none" =>
                  UnitEnd(bytes, i) = i + 1
             /\ bytes[i] = "ESC" /\ i < Len(bytes) /\ bytes[i + 1] \notin {"[", "]", "none"} =>
                  UnitEnd(bytes, i) = i + 1
BY DEF UnitEnd

\* One turn.
LEMMA SkipAt ==
  ASSUME NEW bytes, Len(bytes) \in Nat, NEW d \in Nat, d < Len(bytes)
  PROVE  Skip(bytes, d) = IF UnitEnd(bytes, d + 1) = Incomplete THEN d ELSE UnitEnd(bytes, d + 1)
BY DEF Skip

\* The turns that skip a complete unit: one, or two if it is a string that is
\* broken off.
SkipsUnit(bytes, d, n) ==
  \/ n >= 1 /\ Skip(bytes, d) = d + n
  \/ n >= 2 /\ Skip(bytes, d) = d + n - 1 /\ Skip(bytes, d + n - 1) = d + n

\* A turn at the start of a control sequence of which r bytes have arrived.
LEMMA SkipControl ==
  ASSUME NEW bytes, Len(bytes) \in Nat, NEW d \in Nat,
         NEW p \in Seq(Parameter), NEW i \in Seq(Intermediate), NEW f \in Final,
         NEW w, w = <<"ESC", "[">> \o p \o i \o <<f>>,
         NEW r \in 0..Len(w), d + r <= Len(bytes), \A m \in 1..r : bytes[d + m] = w[m]
  PROVE  /\ r = Len(w) => SkipsUnit(bytes, d, r)
         /\ r < Len(w) /\ d + r = Len(bytes) => Skip(bytes, d) = d
<1>1. /\ Len(w) = 3 + Len(p) + Len(i) /\ Len(p) \in Nat /\ Len(i) \in Nat
      /\ w[1] = "ESC" /\ w[2] = "[" /\ w[3 + Len(p) + Len(i)] = f
      /\ \A m \in 1..Len(p) : w[2 + m] = p[m] /\ p[m] \in Parameter
      /\ \A m \in 1..Len(i) : w[2 + Len(p) + m] \in Intermediate
  BY CsiShape
<1>2. ASSUME NEW m \in 3..r, m < Len(w) PROVE bytes[d + m] \in Parameter \cup Intermediate
  <2>1. CASE m - 2 <= Len(p)
    <3>1. m - 2 \in 1..Len(p) /\ 2 + (m - 2) = m
      BY <1>1, <2>1
    <3>2. w[m] \in Parameter /\ m \in 1..r
      BY <1>1, <3>1
    <3> QED  BY <3>2
  <2>2. CASE ~(m - 2 <= Len(p))
    <3> DEFINE x == m - 2 - Len(p)
    <3>1. x \in 1..Len(i) /\ 2 + Len(p) + x = m
      BY <1>1, <1>2, <2>2
    <3> HIDE DEF x
    <3>2. w[2 + Len(p) + x] \in Intermediate
      BY ONLY <1>1, <3>1
    <3>3. w[m] \in Intermediate
      BY ONLY <3>1, <3>2
    <3>4. m \in 1..r
      OBVIOUS
    <3> QED  BY <3>3, <3>4
  <2> QED  BY <2>1, <2>2
<1>3. r >= 1 => bytes[d + 1] = "ESC" /\ d < Len(bytes)
  BY <1>1
<1>4. r >= 2 => bytes[d + 2] = "[" /\ d + 1 < Len(bytes) /\ (d + 1) + 1 = d + 2
  BY <1>1
<1>5. r >= 2 => UnitEnd(bytes, d + 1) = ControlEnd(bytes, d + 3)
  <2> SUFFICES ASSUME r >= 2 PROVE UnitEnd(bytes, d + 1) = ControlEnd(bytes, d + 3)
    OBVIOUS
  <2>1. UnitEnd(bytes, d + 1) = ControlEnd(bytes, (d + 1) + 2) /\ (d + 1) + 2 = d + 3
    BY <1>3, <1>4, UnitEndAt
  <2> QED  BY <2>1
<1>6. ASSUME r = Len(w) PROVE SkipsUnit(bytes, d, r)
  <2> DEFINE j == d + r
             start == d + 3
  <2>1. j \in start..Len(bytes) /\ start \in Nat /\ r >= 3
    BY <1>1, <1>6
  <2>2. bytes[j] \in Final
    BY <1>1, <1>6
  <2>3. ASSUME NEW m \in start..(j - 1) PROVE bytes[m] \in Parameter \cup Intermediate
    <3>1. m - d \in 3..r /\ m - d < Len(w) /\ d + (m - d) = m
      BY <1>6
    <3> QED  BY <1>2, <3>1
  <2> HIDE DEF j, start
  <2>4. ControlEnd(bytes, start) = j
    BY <2>1, <2>2, <2>3, ControlEndAt
  <2>5. Skip(bytes, d) = j
    <3>1. UnitEnd(bytes, d + 1) = j /\ j # 0 /\ d < Len(bytes)
      BY <1>3, <1>5, <2>1, <2>4 DEF start
    <3> QED  BY <3>1, SkipAt DEF Incomplete
  <2> QED  BY <2>1, <2>5 DEF SkipsUnit, j
<1>7. ASSUME r < Len(w), d + r = Len(bytes) PROVE Skip(bytes, d) = d
  <2>1. CASE r = 0
    BY <1>7, <2>1 DEF Skip
  <2>2. CASE r = 1
    <3>1. UnitEnd(bytes, d + 1) = Incomplete
      BY <1>3, <1>7, <2>2, UnitEndAt
    <3> QED  BY <1>3, <2>2, <3>1, SkipAt
  <2>3. CASE r >= 2
    <3>1. ASSUME NEW m \in (d + 3)..Len(bytes) PROVE bytes[m] \in Parameter \cup Intermediate
      <4>1. m - d \in 3..r /\ m - d < Len(w) /\ d + (m - d) = m
        BY <1>7
      <4> QED  BY <1>2, <4>1
    <3>2. ControlEnd(bytes, d + 3) = Incomplete
      <4>1. d + 3 \in Nat
        OBVIOUS
      <4> QED  BY <3>1, <4>1, ControlIncomplete
    <3> QED  BY <1>3, <1>5, <2>3, <3>2, SkipAt
  <2> QED  BY <2>1, <2>2, <2>3
<1> QED  BY <1>6, <1>7
\* A turn at the start of a string of which r bytes have arrived.
LEMMA SkipString ==
  ASSUME NEW bytes, Len(bytes) \in Nat, NEW d \in Nat,
         NEW s \in Seq(Body), NEW end \in CharSeq,
         \/ end = <<"BEL">>
         \/ \E b \in Plain : end = <<"ESC", b>>,
         NEW w, w = <<"ESC", "]">> \o s \o end,
         NEW r \in 0..Len(w), d + r <= Len(bytes), \A m \in 1..r : bytes[d + m] = w[m]
  PROVE  /\ r = Len(w) => SkipsUnit(bytes, d, r)
         /\ r < Len(w) /\ d + r = Len(bytes) => Skip(bytes, d) = d
<1> DEFINE start == d + 3
           j == d + 3 + Len(s)
<1>0. /\ end \in CharSeq
      /\ \/ Len(end) = 1 /\ end[1] = "BEL"
         \/ Len(end) = 2 /\ end[1] = "ESC" /\ end[2] \in Plain
  BY StringEnds, Classes
<1>1. /\ Len(w) = 2 + Len(s) + Len(end) /\ Len(s) \in Nat /\ Len(end) \in Nat
      /\ w[1] = "ESC" /\ w[2] = "]"
      /\ \A m \in 1..Len(s) : w[2 + m] \in Body
      /\ \A m \in 1..Len(end) : w[2 + Len(s) + m] = end[m]
  <2>1. Len(end) > 0
    BY <1>0
  <2> QED  BY <2>1, StringUnit
<1>2. ASSUME NEW m \in 3..r, m <= 2 + Len(s) PROVE bytes[d + m] \in Body
  <2>1. m - 2 \in 1..Len(s) /\ 2 + (m - 2) = m /\ m \in 1..r
    BY <1>1, <1>2
  <2> QED  BY <1>1, <2>1
<1>3. r >= 1 => bytes[d + 1] = "ESC" /\ d < Len(bytes)
  BY <1>1
<1>4. r >= 2 => bytes[d + 2] = "]" /\ d + 1 < Len(bytes) /\ (d + 1) + 1 = d + 2
  BY <1>1
<1>5. r >= 2 => UnitEnd(bytes, d + 1) = StringEnd(bytes, d + 3)
  <2> SUFFICES ASSUME r >= 2 PROVE UnitEnd(bytes, d + 1) = StringEnd(bytes, d + 3)
    OBVIOUS
  <2>1. UnitEnd(bytes, d + 1) = StringEnd(bytes, (d + 1) + 2) /\ (d + 1) + 2 = d + 3
    BY <1>3, <1>4, UnitEndAt
  <2> QED  BY <2>1
<1>6. start \in Nat /\ j \in Nat /\ j >= start /\ j # 0 /\ j + 1 # 0
  BY <1>1
<1>7. ASSUME r >= 3 + Len(s)
      PROVE  /\ j \in start..Len(bytes) /\ \A m \in start..(j - 1) : bytes[m] \in Body
             /\ bytes[j] = end[1]
  <2>1. /\ Len(s) \in Nat /\ r \in Nat /\ d \in Nat /\ Len(bytes) \in Nat
        /\ d + r <= Len(bytes) /\ r >= 3 + Len(s)
    BY <1>1, <1>7
  <2>2. j \in start..Len(bytes)
    BY ONLY <2>1
  <2>3. ASSUME NEW m \in start..(j - 1) PROVE bytes[m] \in Body
    <3>1. m - d \in 3..r /\ m - d <= 2 + Len(s) /\ d + (m - d) = m
      BY ONLY <2>1, m \in start..(j - 1)
    <3> QED  BY <1>2, <3>1
  <2>4. bytes[j] = end[1]
    <3>1. 1 \in 1..Len(end) /\ 2 + Len(s) + 1 = 3 + Len(s) /\ 3 + Len(s) \in 1..r
          /\ d + (3 + Len(s)) = j
      BY <1>0, <2>1
    <3> HIDE DEF j
    <3>2. w[3 + Len(s)] = end[1]
      BY <1>1, <3>1
    <3> QED  BY <3>1, <3>2
  <2> QED  BY <2>2, <2>3, <2>4
<1>8. r >= 3 + Len(s) =>
        /\ bytes[j] = "BEL" => StringEnd(bytes, start) = j
        /\ bytes[j] = "ESC" /\ j = Len(bytes) => StringEnd(bytes, start) = Incomplete
        /\ bytes[j] = "ESC" /\ j < Len(bytes) =>
              StringEnd(bytes, start) = IF bytes[j + 1] = "\\" THEN j + 1 ELSE j
  <2> SUFFICES ASSUME r >= 3 + Len(s)
               PROVE  /\ bytes[j] = "BEL" => StringEnd(bytes, start) = j
                      /\ bytes[j] = "ESC" /\ j = Len(bytes) =>
                           StringEnd(bytes, start) = Incomplete
                      /\ bytes[j] = "ESC" /\ j < Len(bytes) =>
                           StringEnd(bytes, start) = IF bytes[j + 1] = "\\" THEN j + 1 ELSE j
    OBVIOUS
  <2>1. /\ j \in start..Len(bytes) /\ \A m \in start..(j - 1) : bytes[m] \in Body
        /\ bytes[j] = end[1] /\ end[1] \in {"BEL", "ESC"}
    BY <1>0, <1>7
  <2> HIDE DEF j, start
  <2>2. bytes[j] \in {"BEL", "ESC"}
    BY <2>1
  <2> QED  BY <1>6, <2>1, <2>2, StringEndAt
<1>9. ASSUME r = Len(w) PROVE SkipsUnit(bytes, d, r)
  <2>1. d < Len(bytes) /\ UnitEnd(bytes, d + 1) = StringEnd(bytes, start) /\ r >= 3 + Len(s)
    BY <1>0, <1>1, <1>3, <1>5, <1>9
  <2>2. CASE Len(end) = 1 /\ end[1] = "BEL"
    <3>1. bytes[j] = "BEL" /\ j = d + r /\ r >= 1
      BY <1>1, <1>7, <1>9, <2>1, <2>2
    <3> HIDE DEF j, start
    <3>2. UnitEnd(bytes, d + 1) = j
      BY <1>8, <2>1, <3>1
    <3>3. Skip(bytes, d) = j
      BY <1>6, <2>1, <3>2, SkipAt DEF Incomplete
    <3> QED  BY <3>1, <3>3 DEF SkipsUnit
  <2>3. CASE Len(end) = 2 /\ end[1] = "ESC" /\ end[2] \in Plain
    <3>1. /\ bytes[j] = "ESC" /\ j + 1 = d + r /\ r >= 2 /\ j < Len(bytes)
          /\ d + r - 1 = j
      BY <1>1, <1>7, <1>9, <2>1, <2>3
    <3>2. bytes[j + 1] = end[2]
      <4>1. 2 \in 1..Len(end) /\ 2 + Len(s) + 2 = r /\ r \in 1..r
        BY <1>1, <1>9, <2>3
      <4>2. w[r] = end[2]
        BY <1>1, <4>1
      <4> QED  BY <3>1, <4>1, <4>2
    <3> HIDE DEF j, start
    <3>3. UnitEnd(bytes, d + 1) = IF bytes[j + 1] = "\\" THEN j + 1 ELSE j
      BY <1>8, <2>1, <3>1
    <3>4. Skip(bytes, d) = IF bytes[j + 1] = "\\" THEN j + 1 ELSE j
      BY <1>6, <2>1, <3>3, SkipAt DEF Incomplete
    <3>5. CASE bytes[j + 1] = "\\"
      <4>1. Skip(bytes, d) = d + r /\ r >= 1
        BY <3>1, <3>4, <3>5
      <4> QED  BY <4>1 DEF SkipsUnit
    <3>6. CASE bytes[j + 1] # "\\"
      <4>1. bytes[j + 1] \notin {"ESC", "C3"}
        BY <2>3, <3>2, Classes
      <4>2. UnitEnd(bytes, j + 1) = j + 1
        BY <1>6, <3>1, <4>1, UnitEndAt
      <4>3. Skip(bytes, j) = j + 1
        BY <1>6, <3>1, <4>2, SkipAt DEF Incomplete
      <4>4. Skip(bytes, d) = j
        BY <3>4, <3>6
      <4> QED  BY <3>1, <4>3, <4>4 DEF SkipsUnit
    <3> QED  BY <3>5, <3>6
  <2> QED  BY <1>0, <2>2, <2>3
<1>10. ASSUME r < Len(w), d + r = Len(bytes) PROVE Skip(bytes, d) = d
  <2>1. CASE r = 0
    BY <1>10, <2>1 DEF Skip
  <2>2. CASE r = 1
    <3>1. UnitEnd(bytes, d + 1) = Incomplete
      BY <1>3, <1>10, <2>2, UnitEndAt
    <3> QED  BY <1>3, <2>2, <3>1, SkipAt
  <2>3. CASE r >= 2
    <3>1. StringEnd(bytes, start) = Incomplete
      <4>1. CASE r <= 2 + Len(s)
        <5>1. ASSUME NEW m \in start..Len(bytes) PROVE bytes[m] \in Body
          <6>1. m - d \in 3..r /\ m - d <= 2 + Len(s) /\ d + (m - d) = m
            BY <1>1, <1>10, <4>1
          <6> QED  BY <1>2, <6>1
        <5> HIDE DEF start
        <5> QED  BY <1>6, <5>1, StringIncomplete
      <4>2. CASE ~(r <= 2 + Len(s))
        <5>00. r \in Nat
          BY <1>1
        <5>0. Len(end) # 1
          BY ONLY <1>1, <1>10, <4>2, <5>00
        <5>1. Len(end) = 2 /\ end[1] = "ESC" /\ r >= 3 + Len(s) /\ j = Len(bytes)
          <6>1. Len(end) = 2 /\ end[1] = "ESC"
            BY <1>0, <5>0
          <6>2. r = 3 + Len(s)
            BY ONLY <1>1, <1>10, <4>2, <5>00, <6>1
          <6>3. j = Len(bytes)
            BY <1>1, <1>10, <6>2
          <6> QED  BY <1>1, <6>1, <6>2, <6>3
        <5>2. bytes[j] = "ESC"
          BY <1>7, <5>1
        <5> HIDE DEF j, start
        <5> QED  BY <1>8, <5>1, <5>2
      <4> QED  BY <4>1, <4>2
    <3>2. UnitEnd(bytes, d + 1) = Incomplete /\ d < Len(bytes)
      BY <1>3, <1>5, <2>3, <3>1
    <3> QED  BY <3>2, SkipAt
  <2> QED  BY <2>1, <2>2, <2>3
<1> QED  BY <1>9, <1>10

\* A unit is a sequence of bytes that does not begin in the middle of a
\* character.
LEMMA UnitType ==
  ASSUME NEW u \in Units
  PROVE  /\ u.bytes \in CharSeq /\ Len(u.bytes) \in Nat \ {0} /\ u.bytes[1] # "A9"
         /\ u.asks \in Seq(Ask)
<1> USE DEF Unit
<1>1. ASSUME NEW a \in Ask PROVE <<a>> \in Seq(Ask) /\ <<>> \in Seq(Ask)
  OBVIOUS
<1>2. CASE \E b \in Plain : u = Unit(<<b>>, <<Put(b)>>)
  <2>1. PICK b \in Plain : u = Unit(<<b>>, <<Put(b)>>)
    BY <1>2
  <2>2. b \in Chars /\ b # "A9" /\ Put(b) \in Ask
    BY Classes DEF Ask
  <2>3. <<b>> \in CharSeq /\ Len(<<b>>) = 1 /\ <<b>>[1] = b
    BY <2>2, StreamShort
  <2> QED  BY <1>1, <2>1, <2>2, <2>3
<1>3. CASE u = Unit(<<"C3", "A9">>, <<Put("e-acute")>>)
  <2>1. /\ <<"C3", "A9">> \in CharSeq /\ Len(<<"C3", "A9">>) = 2 /\ <<"C3", "A9">>[1] = "C3"
        /\ Put("e-acute") \in Ask
    BY StreamShort, Classes DEF Ask
  <2> QED  BY <1>1, <1>3, <2>1
<1>4. CASE \E b \in Escaped : u = Unit(<<"ESC", b>>, <<Escape(b)>>)
  <2>1. PICK b \in Bytes : u = Unit(<<"ESC", b>>, <<Escape(b)>>)
    BY <1>4 DEF Escaped
  <2>2. Escape(b) \in Ask
    BY Classes DEF Ask
  <2> QED  BY <1>1, <2>1, <2>2, StringEnds
<1>5. CASE \E p \in Seq(Parameter), i \in Seq(Intermediate), f \in Final : u = Control(p, i, f)
  <2>1. PICK p \in Seq(Parameter), i \in Seq(Intermediate), f \in Final : u = Control(p, i, f)
    BY <1>5
  <2> DEFINE w == <<"ESC", "[">> \o p \o i \o <<f>>
  <2>2. w \in CharSeq /\ Len(w) \in Nat \ {0} /\ w[1] = "ESC"
    <3>1. /\ w \in CharSeq /\ Len(w) = 3 + Len(p) + Len(i)
          /\ Len(p) \in Nat /\ Len(i) \in Nat /\ w[1] = "ESC"
      BY CsiShape
    <3> HIDE DEF w
    <3> QED  BY <3>1
  <2>3. Csi(p, f) \in Ask
    BY DEF Ask
  <2>4. u = Unit(w, <<Csi(p, f)>>)
    BY <2>1 DEF Control
  <2> HIDE DEF w
  <2> QED  BY <1>1, <2>2, <2>3, <2>4
<1>6. ASSUME NEW s \in Seq(Body), NEW end \in CharSeq, Len(end) > 0, NEW asks \in Seq(Ask),
             u = String(s, end, asks)
      PROVE  /\ u.bytes \in CharSeq /\ Len(u.bytes) \in Nat \ {0} /\ u.bytes[1] # "A9"
             /\ u.asks \in Seq(Ask)
  <2> DEFINE w == <<"ESC", "]">> \o s \o end
  <2>1. /\ w \in CharSeq /\ Len(w) = 2 + Len(s) + Len(end)
        /\ Len(s) \in Nat /\ Len(end) \in Nat /\ w[1] = "ESC"
    BY <1>6, StringUnit
  <2>2. u = Unit(w, asks)
    BY <1>6 DEF String
  <2> HIDE DEF w
  <2> QED  BY <2>1, <2>2
<1>7. CASE \E s \in Seq(Body), end \in Ends : u = String(s, end, <<>>)
  <2>1. PICK s \in Seq(Body), end \in Ends : u = String(s, end, <<>>)
    BY <1>7
  <2>2. end \in CharSeq /\ Len(end) > 0
    <3>1. CASE end = <<"BEL">>
      <4>1. end \in CharSeq /\ Len(end) = 1
        BY <3>1, StringEnds
      <4> QED  BY <4>1
    <3>2. CASE end = <<"ESC", "\\">>
      <4>1. end \in CharSeq /\ Len(end) = 2
        BY <3>2, StringEnds, Classes
      <4> QED  BY <4>1
    <3> QED  BY <3>1, <3>2 DEF Ends
  <2>3. <<>> \in Seq(Ask)
    OBVIOUS
  <2> QED  BY <1>6, <2>1, <2>2, <2>3
<1>8. CASE \E s \in Seq(Body), b \in Plain : u = BrokenOff(s, b) /\ b # "\\"
  <2>1. PICK s \in Seq(Body), b \in Plain : u = BrokenOff(s, b)
    BY <1>8
  <2>2. <<"ESC", b>> \in CharSeq /\ Len(<<"ESC", b>>) > 0 /\ Put(b) \in Ask
    BY StringEnds, Classes DEF Ask
  <2>3. <<Put(b)>> \in Seq(Ask)
    BY <1>1, <2>2
  <2> QED  BY <1>6, <2>1, <2>2, <2>3 DEF BrokenOff
<1> QED  BY <1>2, <1>3, <1>4, <1>5, <1>7, <1>8, UnitKinds
\* A complete unit is skipped, a part of one at the end of the bytes is not.
LEMMA SkipUnit ==
  ASSUME NEW bytes, Len(bytes) \in Nat, NEW d \in Nat, NEW u \in Units,
         NEW r \in 0..Len(u.bytes), d + r <= Len(bytes), \A m \in 1..r : bytes[d + m] = u.bytes[m]
  PROVE  /\ r = Len(u.bytes) => SkipsUnit(bytes, d, r)
         /\ r < Len(u.bytes) /\ d + r = Len(bytes) => Skip(bytes, d) = d
<1> DEFINE Goal == /\ r = Len(u.bytes) => SkipsUnit(bytes, d, r)
                   /\ r < Len(u.bytes) /\ d + r = Len(bytes) => Skip(bytes, d) = d
<1>1. CASE \E b \in Plain : u = Unit(<<b>>, <<Put(b)>>)
  <2>1. PICK b \in Plain : u = Unit(<<b>>, <<Put(b)>>)
    BY <1>1
  <2>2. u.bytes[1] = b /\ Len(u.bytes) = 1
    BY <2>1 DEF Unit
  <2>3. ASSUME r = 1 PROVE SkipsUnit(bytes, d, r)
    <3>1. bytes[d + 1] = b /\ b \notin {"ESC", "C3"} /\ d < Len(bytes)
      BY <2>2, <2>3, Classes
    <3>2. UnitEnd(bytes, d + 1) = d + 1 /\ d + 1 # 0
      BY <3>1, UnitEndAt
    <3>3. Skip(bytes, d) = d + 1
      BY <3>1, <3>2, SkipAt DEF Incomplete
    <3> QED  BY <2>3, <3>3 DEF SkipsUnit
  <2>4. r < 1 /\ d + r = Len(bytes) => Skip(bytes, d) = d
    BY DEF Skip
  <2> QED  BY <2>2, <2>3, <2>4
<1>2. ASSUME Len(u.bytes) = 2,
             \/ u.bytes[1] = "C3" /\ u.bytes[2] = "A9"
             \/ u.bytes[1] = "ESC" /\ u.bytes[2] \in Escaped
      PROVE  Goal
  <2>1. ASSUME r >= 1
        PROVE  bytes[d + 1] = u.bytes[1] /\ bytes[d + 1] \in {"ESC", "C3"} /\ d < Len(bytes)
    BY <1>2, <2>1
  <2>2. ASSUME r = 2 PROVE SkipsUnit(bytes, d, r)
    <3>1. bytes[d + 2] = u.bytes[2] /\ d + 1 < Len(bytes) /\ (d + 1) + 1 = d + 2 /\ d + 2 # 0
      BY <1>2, <2>2
    <3>2. UnitEnd(bytes, d + 1) = (d + 1) + 1
      <4>1. CASE u.bytes[1] = "C3" /\ u.bytes[2] = "A9"
        BY <2>1, <2>2, <3>1, <4>1, UnitEndAt
      <4>2. CASE u.bytes[1] = "ESC" /\ u.bytes[2] \in Escaped
        <5>1. u.bytes[2] \notin {"[", "]", "none"}
          BY <4>2 DEF Escaped, Bytes, Final, Parameter, Intermediate
        <5> QED  BY <2>1, <2>2, <3>1, <4>2, <5>1, UnitEndAt
      <4> QED  BY <1>2, <4>1, <4>2
    <3>3. Skip(bytes, d) = d + 2
      BY <2>1, <2>2, <3>1, <3>2, SkipAt DEF Incomplete
    <3> QED  BY <2>2, <3>3 DEF SkipsUnit
  <2>3. ASSUME r < 2, d + r = Len(bytes) PROVE Skip(bytes, d) = d
    <3>1. CASE r = 0
      BY <2>3, <3>1 DEF Skip
    <3>2. CASE r = 1
      <4>1. UnitEnd(bytes, d + 1) = Incomplete
        BY <2>1, <2>3, <3>2, UnitEndAt
      <4> QED  BY <2>1, <3>2, <4>1, SkipAt
    <3> QED  BY <1>2, <2>3, <3>1, <3>2
  <2> QED  BY <1>2, <2>2, <2>3
<1>3. CASE u = Unit(<<"C3", "A9">>, <<Put("e-acute")>>)
  <2>1. u.bytes = <<"C3", "A9">>
    BY <1>3 DEF Unit
  <2>2. Len(u.bytes) = 2 /\ u.bytes[1] = "C3" /\ u.bytes[2] = "A9"
    BY <2>1, StreamShort, Classes
  <2> QED  BY <1>2, <2>2
<1>4. CASE \E b \in Escaped : u = Unit(<<"ESC", b>>, <<Escape(b)>>)
  <2>1. PICK b \in Escaped : u = Unit(<<"ESC", b>>, <<Escape(b)>>)
    BY <1>4
  <2>2. u.bytes = <<"ESC", b>> /\ b \in Bytes
    BY <2>1 DEF Unit, Escaped
  <2>3. Len(u.bytes) = 2 /\ u.bytes[1] = "ESC" /\ u.bytes[2] = b
    BY <2>2, StringEnds
  <2> QED  BY <1>2, <2>3
<1>5. CASE \E p \in Seq(Parameter), i \in Seq(Intermediate), f \in Final : u = Control(p, i, f)
  <2>1. PICK p \in Seq(Parameter), i \in Seq(Intermediate), f \in Final : u = Control(p, i, f)
    BY <1>5
  <2>2. u.bytes = <<"ESC", "[">> \o p \o i \o <<f>>
    BY <2>1 DEF Control, Unit
  <2> DEFINE w == u.bytes
  <2>3. w = <<"ESC", "[">> \o p \o i \o <<f>> /\ r \in 0..Len(w) /\ \A m \in 1..r : bytes[d + m] = w[m]
    BY <2>2
  <2> HIDE DEF w
  <2>4. /\ r = Len(w) => SkipsUnit(bytes, d, r)
        /\ r < Len(w) /\ d + r = Len(bytes) => Skip(bytes, d) = d
    BY <2>3, SkipControl
  <2> QED  BY <2>4 DEF w
<1> DEFINE Closes(end) == end = <<"BEL">> \/ \E b \in Plain : end = <<"ESC", b>>
<1>6. ASSUME NEW s \in Seq(Body), NEW end \in CharSeq, Closes(end),
             u.bytes = <<"ESC", "]">> \o s \o end
      PROVE  Goal
  <2> DEFINE w == u.bytes
  <2>3. w = <<"ESC", "]">> \o s \o end /\ r \in 0..Len(w) /\ \A m \in 1..r : bytes[d + m] = w[m]
    BY <1>6
  <2> HIDE DEF w
  <2>4. /\ r = Len(w) => SkipsUnit(bytes, d, r)
        /\ r < Len(w) /\ d + r = Len(bytes) => Skip(bytes, d) = d
    BY <1>6, <2>3, SkipString
  <2> QED  BY <2>4 DEF w
<1>7. CASE \E s \in Seq(Body), end \in Ends : u = String(s, end, <<>>)
  <2>1. PICK s \in Seq(Body), end \in Ends : u = String(s, end, <<>>)
    BY <1>7
  <2>2. u.bytes = <<"ESC", "]">> \o s \o end
    BY <2>1 DEF String, Unit
  <2>3. Closes(end)
    BY Classes DEF Ends, Plain
  <2>4. end \in CharSeq
    BY StringEnds, Classes DEF Ends
  <2> HIDE DEF Goal, Closes
  <2>5. Goal
    BY <1>6, <2>2, <2>3, <2>4
  <2> QED  BY <2>5 DEF Goal
<1>8. CASE \E s \in Seq(Body), b \in Plain : u = BrokenOff(s, b) /\ b # "\\"
  <2>1. PICK s \in Seq(Body), b \in Plain : u = BrokenOff(s, b)
    BY <1>8
  <2> DEFINE end == <<"ESC", b>>
  <2>2. u.bytes = <<"ESC", "]">> \o s \o end
    BY <2>1 DEF BrokenOff, String, Unit
  <2>3. Closes(end) /\ end \in CharSeq
    BY Classes, StringEnds
  <2> HIDE DEF Goal, Closes, end
  <2>4. Goal
    BY <1>6, <2>2, <2>3
  <2> QED  BY <2>4 DEF Goal
<1> HIDE DEF Goal
<1>9. Goal
  BY <1>1, <1>3, <1>4, <1>5, <1>7, <1>8, UnitKinds DEF Goal
<1> QED  BY <1>9 DEF Goal

-----------------------------------------------------------------------------
(* Loops that take a turn for each byte or character there is.             *)

\* In N turns a loop gets from each milestone to the next, in one turn or two,
\* and stays at the last.
Reaches(N, m, after, stop, upto) ==
  /\ N \in Nat /\ m \in Nat /\ \A n \in 0..m : upto[n] \in Nat /\ upto[n] <= N
  /\ upto[0] = 0 /\ after[0] = stop[0]
  /\ \A n \in 1..m :
       \/ /\ upto[n] >= upto[n - 1] + 1
          /\ \A k \in 0..(N - 1) : after[k] = stop[n - 1] => after[k + 1] = stop[n]
       \/ /\ upto[n] >= upto[n - 1] + 2
          /\ \A k \in 0..(N - 2) : after[k] = stop[n - 1] => after[k + 2] = stop[n]
  /\ \A k \in 0..(N - 1) : after[k] = stop[m] => after[k + 1] = stop[m]

\* So it ends there.
LEMMA Milestones ==
  ASSUME NEW N, NEW m, NEW after, NEW stop, NEW upto, Reaches(N, m, after, stop, upto)
  PROVE  after[N] = stop[m]
<1> USE DEF Reaches
<1> DEFINE S == {n \in 0..m : \E k \in 0..upto[n] : after[k] = stop[n]}
<1>1. 0 \in S
  OBVIOUS
<1>2. ASSUME NEW n \in 0..(m - 1), n \in S PROVE n + 1 \in S
  <2>1. PICK k \in 0..upto[n] : after[k] = stop[n]
    BY <1>2
  <2>2. n + 1 \in 1..m /\ (n + 1) - 1 = n /\ n + 1 \in 0..m /\ n \in 0..m
    OBVIOUS
  <2>3. upto[n + 1] \in Nat /\ upto[n] \in Nat /\ upto[n + 1] <= N
    BY <2>2
  <2>4. \/ /\ upto[n + 1] >= upto[n] + 1
           /\ \A x \in 0..(N - 1) : after[x] = stop[n] => after[x + 1] = stop[n + 1]
        \/ /\ upto[n + 1] >= upto[n] + 2
           /\ \A x \in 0..(N - 2) : after[x] = stop[n] => after[x + 2] = stop[n + 1]
    BY <2>2
  <2>5. \E x \in 0..upto[n + 1] : after[x] = stop[n + 1]
    <3>1. CASE /\ upto[n + 1] >= upto[n] + 1
               /\ \A x \in 0..(N - 1) : after[x] = stop[n] => after[x + 1] = stop[n + 1]
      <4>1. k \in 0..(N - 1) /\ k + 1 \in 0..upto[n + 1]
        BY <2>3, <3>1
      <4> QED  BY <2>1, <3>1, <4>1
    <3>2. CASE /\ upto[n + 1] >= upto[n] + 2
               /\ \A x \in 0..(N - 2) : after[x] = stop[n] => after[x + 2] = stop[n + 1]
      <4>1. k \in 0..(N - 2) /\ k + 2 \in 0..upto[n + 1]
        BY <2>3, <3>2
      <4> QED  BY <2>1, <3>2, <4>1
    <3> QED  BY <2>4, <3>1, <3>2
  <2> QED  BY <2>2, <2>5
<1>3. m \in S
  <2>1. 0..m \subseteq S
    <3> HIDE DEF S
    <3> QED  BY <1>1, <1>2, UpToInduction
  <2> QED  BY <2>1
<1>4. PICK k0 \in 0..N : after[k0] = stop[m]
  <2>1. PICK k \in 0..upto[m] : after[k] = stop[m]
    BY <1>3
  <2>2. upto[m] \in Nat
    OBVIOUS
  <2>3. k \in 0..N
    BY <2>2
  <2> QED  BY <2>1, <2>3
<1> DEFINE R == {x \in 0..(N - k0) : after[k0 + x] = stop[m]}
<1>5. N - k0 \in Nat
  OBVIOUS
<1>6. 0 \in R
  BY <1>4, <1>5
<1>7. ASSUME NEW x \in 0..((N - k0) - 1), x \in R PROVE x + 1 \in R
  <2>1. k0 + x \in 0..(N - 1) /\ x + 1 \in 0..(N - k0) /\ k0 + (x + 1) = (k0 + x) + 1
    OBVIOUS
  <2>2. after[k0 + x] = stop[m]
    BY <1>7
  <2> QED  BY <2>1, <2>2
<1>8. N - k0 \in R
  <2>1. 0..(N - k0) \subseteq R
    <3> HIDE DEF R
    <3> QED  BY <1>5, <1>6, <1>7, UpToInduction
  <2>2. N - k0 \in 0..(N - k0)
    BY <1>5
  <2> HIDE DEF R, Reaches
  <2> QED  BY <2>1, <2>2
<1> QED  BY <1>8

\* The loop of find_process_end.
LEMMA ProcessEndRun ==
  ASSUME NEW bytes, Len(bytes) \in Nat
  PROVE  \E f : /\ f[0] = 0 /\ \A k \in 1..Len(bytes) : f[k] = Skip(bytes, f[k - 1])
                /\ ProcessEnd(bytes) = f[Len(bytes)]
<1> DEFINE Is(f, n) == f = [k \in 0..n |-> IF k = 0 THEN 0 ELSE Skip(bytes, f[k - 1])]
           T == {n \in 0..Len(bytes) : \E f : Is(f, n)}
<1>1. 0 \in T
  <2>1. Is([k \in 0..0 |-> 0], 0) /\ 0 \in 0..Len(bytes)
    OBVIOUS
  <2> HIDE DEF Is
  <2> QED  BY <2>1
<1>2. ASSUME NEW n \in 0..(Len(bytes) - 1), n \in T PROVE n + 1 \in T
  <2>1. PICK f : Is(f, n)
    BY <1>2
  <2> DEFINE last == Skip(bytes, f[n])
             g == [k \in 0..(n + 1) |-> IF k = n + 1 THEN last ELSE f[k]]
  <2>2. \A k \in 0..n : g[k] = f[k] /\ f[k] = IF k = 0 THEN 0 ELSE Skip(bytes, f[k - 1])
    BY <2>1
  <2>3. g[n + 1] = last /\ (n + 1) - 1 = n /\ n + 1 # 0
    OBVIOUS
  <2>4. g = [k \in 0..(n + 1) |-> g[k]]
    OBVIOUS
  <2> HIDE DEF g
  <2>5. ASSUME NEW k \in 0..(n + 1) PROVE g[k] = IF k = 0 THEN 0 ELSE Skip(bytes, g[k - 1])
    <3>1. CASE k = n + 1
      <4>1. g[n] = f[n]
        BY <2>2
      <4> QED  BY <2>3, <3>1, <4>1
    <3>2. CASE k \in 0..n
      <4>1. k # 0 => k - 1 \in 0..n
        BY <3>2
      <4> QED  BY <2>2, <3>2, <4>1
    <3> QED  BY <3>1, <3>2
  <2>6. Is(g, n + 1)
    BY <2>4, <2>5
  <2>7. n + 1 \in 0..Len(bytes)
    OBVIOUS
  <2> HIDE DEF Is
  <2> QED  BY <2>6, <2>7
<1>3. \E f : Is(f, Len(bytes))
  <2>1. 0..Len(bytes) \subseteq T /\ Len(bytes) \in 0..Len(bytes)
    <3> HIDE DEF T
    <3>1. Len(bytes) \in Nat
      OBVIOUS
    <3>2. 0..Len(bytes) \subseteq T
      BY ONLY <3>1, <1>1, <1>2, UpToInduction
    <3> QED  BY <3>1, <3>2
  <2> HIDE DEF Is
  <2> QED  BY <2>1
<1> DEFINE c == CHOOSE f : Is(f, Len(bytes))
<1>4. Is(c, Len(bytes))
  <2> HIDE DEF Is
  <2> QED  BY <1>3
<1>5. ProcessEnd(bytes) = c[Len(bytes)]
  BY Zenon DEF ProcessEnd
<1> HIDE DEF c
<1>6. c[0] = 0 /\ \A k \in 1..Len(bytes) : c[k] = Skip(bytes, c[k - 1])
  <2>1. \A k \in 0..Len(bytes) : c[k] = IF k = 0 THEN 0 ELSE Skip(bytes, c[k - 1])
    BY <1>4
  <2>2. 0 \in 0..Len(bytes) /\ \A k \in 1..Len(bytes) : k \in 0..Len(bytes) /\ k # 0
    OBVIOUS
  <2> QED  BY <2>1, <2>2
<1> QED  BY <1>5, <1>6
-----------------------------------------------------------------------------
(* Units in a row.                                                         *)

\* The parts that Part gives for the elements of a sequence, put together.
Together(Part, a) == FlattenSeq([i \in DOMAIN a |-> Part[a[i]]])

\* Two sequences in a row give what the first gives and then the second.
LEMMA TogetherConcat ==
  ASSUME NEW U, NEW X, NEW Part \in [U -> Seq(X)]
  PROVE  /\ \A a, b \in Seq(U) : Together(Part, a \o b) = Together(Part, a) \o Together(Part, b)
         /\ \A u \in U : Together(Part, <<u>>) = Part[u]
         /\ \A a \in Seq(U) : Together(Part, a) \in Seq(X)
         /\ Together(Part, <<>>) = <<>>
<1> DEFINE S == Seq(X)
           parts(a) == [i \in DOMAIN a |-> Part[a[i]]]
<1>1. ASSUME NEW a \in Seq(U) PROVE parts(a) \in Seq(S) /\ Len(parts(a)) = Len(a)
  <2>1. DOMAIN a = 1..Len(a) /\ Len(a) \in Nat
    OBVIOUS
  <2>2. \A i \in 1..Len(a) : Part[a[i]] \in S
    OBVIOUS
  <2> HIDE DEF S
  <2> QED  BY <2>1, <2>2
<1>2. ASSUME NEW a \in Seq(U) PROVE Together(Part, a) \in Seq(X)
  <2>1. parts(a) \in Seq(Seq(X)) /\ Together(Part, a) = FlattenSeq(parts(a))
    BY <1>1 DEF Together
  <2> HIDE DEF parts
  <2> QED  BY <2>1, FlattenType
<1>3. ASSUME NEW a \in Seq(U), NEW b \in Seq(U)
      PROVE  Together(Part, a \o b) = Together(Part, a) \o Together(Part, b)
  <2>1. parts(a \o b) = parts(a) \o parts(b)
    <3> DEFINE n == Len(a)
               k == Len(b)
    <3>1. /\ n \in Nat /\ k \in Nat /\ a \o b \in Seq(U) /\ Len(a \o b) = n + k
          /\ DOMAIN a = 1..n /\ DOMAIN b = 1..k /\ DOMAIN (a \o b) = 1..(n + k)
          /\ \A i \in 1..(n + k) : (a \o b)[i] = IF i <= n THEN a[i] ELSE b[i - n]
      BY ConcatProperties
    <3> HIDE DEF n, k, S
    <3>2. /\ parts(a) \in Seq(S) /\ Len(parts(a)) = n
          /\ parts(b) \in Seq(S) /\ Len(parts(b)) = k
          /\ parts(a \o b) \in Seq(S) /\ Len(parts(a \o b)) = n + k
      BY <1>1, <3>1 DEF n, k
    <3>3. /\ \A i \in 1..n : parts(a)[i] = Part[a[i]]
          /\ \A i \in 1..k : parts(b)[i] = Part[b[i]]
          /\ \A i \in 1..(n + k) : parts(a \o b)[i] = Part[(a \o b)[i]]
      BY <3>1
    <3> HIDE DEF parts
    <3>4. /\ parts(a) \o parts(b) \in Seq(S) /\ Len(parts(a) \o parts(b)) = n + k
          /\ \A i \in 1..(n + k) : (parts(a) \o parts(b))[i] =
               IF i <= n THEN parts(a)[i] ELSE parts(b)[i - n]
      BY <3>2, ConcatProperties
    <3>5. ASSUME NEW i \in 1..(n + k) PROVE parts(a \o b)[i] = (parts(a) \o parts(b))[i]
      <4>1. CASE i <= n
        <5>1. i \in 1..n
          BY <3>1, <4>1
        <5> QED  BY <3>1, <3>3, <3>4, <4>1, <5>1
      <4>2. CASE ~(i <= n)
        <5>1. i - n \in 1..k
          BY <3>1, <4>2
        <5>2. (a \o b)[i] = b[i - n] /\ (parts(a) \o parts(b))[i] = parts(b)[i - n]
          BY <3>1, <3>4, <4>2
        <5>3. parts(b)[i - n] = Part[b[i - n]] /\ parts(a \o b)[i] = Part[(a \o b)[i]]
          BY <3>3, <5>1
        <5> QED  BY ONLY <5>2, <5>3
      <4> QED  BY <4>1, <4>2
    <3> QED  BY <3>2, <3>4, <3>5, SeqEqual
  <2>2. parts(a) \in Seq(Seq(X)) /\ parts(b) \in Seq(Seq(X))
    BY <1>1
  <2>3. Together(Part, a) = FlattenSeq(parts(a)) /\ Together(Part, b) = FlattenSeq(parts(b))
        /\ Together(Part, a \o b) = FlattenSeq(parts(a \o b))
    BY DEF Together
  <2> HIDE DEF parts
  <2>4. FlattenSeq(parts(a) \o parts(b)) = FlattenSeq(parts(a)) \o FlattenSeq(parts(b))
    BY <2>2, FlattenConcat
  <2> QED  BY ONLY <2>1, <2>3, <2>4
<1>4. Together(Part, <<>>) = <<>>
  <2>1. [i \in DOMAIN <<>> |-> Part[(<<>>)[i]]] = <<>>
    OBVIOUS
  <2> QED  BY <2>1, FlattenNothing DEF Together
<1>5. ASSUME NEW u \in U PROVE Together(Part, <<u>>) = Part[u]
  <2>1. parts(<<u>>) = <<Part[u]>> /\ Part[u] \in Seq(X)
    OBVIOUS
  <2>2. FlattenSeq(Append(<<>>, Part[u])) = FlattenSeq(<<>>) \o Part[u]
    <3>1. <<>> \in Seq(Seq(X))
      OBVIOUS
    <3> QED  BY <2>1, <3>1, FlattenAppend
  <2>3. Append(<<>>, Part[u]) = <<Part[u]>> /\ <<>> \o Part[u] = Part[u]
    BY <2>1
  <2>4. Together(Part, <<u>>) = FlattenSeq(<<Part[u]>>)
    BY <2>1 DEF Together
  <2> QED  BY ONLY <2>2, <2>3, <2>4, FlattenNothing
<1> QED  BY <1>2, <1>3, <1>4, <1>5

\* The bytes of units, and what they ask for.
LEMMA UnitsConcat ==
  /\ \A a, b \in Seq(Units) : /\ BytesOf(a \o b) = BytesOf(a) \o BytesOf(b)
                              /\ AsksOf(a \o b) = AsksOf(a) \o AsksOf(b)
  /\ \A u \in Units : BytesOf(<<u>>) = u.bytes /\ AsksOf(<<u>>) = u.asks
  /\ \A a \in Seq(Units) : BytesOf(a) \in CharSeq /\ AsksOf(a) \in Seq(Ask)
  /\ BytesOf(<<>>) = <<>> /\ AsksOf(<<>>) = <<>>
<1> DEFINE Part == [u \in Units |-> u.bytes]
           Asked == [u \in Units |-> u.asks]
<1>1. Part \in [Units -> Seq(Chars)] /\ Asked \in [Units -> Seq(Ask)]
  <2>1. \A u \in Units : u.bytes \in Seq(Chars) /\ u.asks \in Seq(Ask)
    BY UnitType DEF CharSeq
  <2> QED  BY <2>1
<1>2. ASSUME NEW a \in Seq(Units) PROVE BytesOf(a) = Together(Part, a) /\ AsksOf(a) = Together(Asked, a)
  <2>1. \A i \in DOMAIN a : a[i] \in Units
    OBVIOUS
  <2>2. \A i \in DOMAIN a : Part[a[i]] = a[i].bytes /\ Asked[a[i]] = a[i].asks
    BY <2>1
  <2> HIDE DEF Part, Asked
  <2>3. [i \in DOMAIN a |-> Part[a[i]]] = [i \in DOMAIN a |-> a[i].bytes]
        /\ [i \in DOMAIN a |-> Asked[a[i]]] = [i \in DOMAIN a |-> a[i].asks]
    BY <2>2
  <2> QED  BY <2>3 DEF BytesOf, AsksOf, Together
<1>3. \A u \in Units : Part[u] = u.bytes /\ Asked[u] = u.asks
  OBVIOUS
<1> HIDE DEF Part, Asked
<1>4. /\ \A a, b \in Seq(Units) : Together(Part, a \o b) = Together(Part, a) \o Together(Part, b)
      /\ \A u \in Units : Together(Part, <<u>>) = Part[u]
      /\ \A a \in Seq(Units) : Together(Part, a) \in Seq(Chars)
      /\ Together(Part, <<>>) = <<>>
  BY <1>1, TogetherConcat
<1>5. /\ \A a, b \in Seq(Units) : Together(Asked, a \o b) = Together(Asked, a) \o Together(Asked, b)
      /\ \A u \in Units : Together(Asked, <<u>>) = Asked[u]
      /\ \A a \in Seq(Units) : Together(Asked, a) \in Seq(Ask)
      /\ Together(Asked, <<>>) = <<>>
  BY <1>1, TogetherConcat
<1>6. /\ \A a, b \in Seq(Units) : a \o b \in Seq(Units)
      /\ \A u \in Units : <<u>> \in Seq(Units)
      /\ <<>> \in Seq(Units)
  OBVIOUS
<1>7. ASSUME NEW a \in Seq(Units), NEW b \in Seq(Units)
      PROVE  BytesOf(a \o b) = BytesOf(a) \o BytesOf(b) /\ AsksOf(a \o b) = AsksOf(a) \o AsksOf(b)
  <2>1. a \o b \in Seq(Units)
    OBVIOUS
  <2>2. /\ BytesOf(a \o b) = Together(Part, a \o b) /\ AsksOf(a \o b) = Together(Asked, a \o b)
        /\ BytesOf(a) = Together(Part, a) /\ AsksOf(a) = Together(Asked, a)
        /\ BytesOf(b) = Together(Part, b) /\ AsksOf(b) = Together(Asked, b)
    BY <1>2, <2>1
  <2> QED  BY <1>4, <1>5, <2>2
<1>8. ASSUME NEW u \in Units PROVE BytesOf(<<u>>) = u.bytes /\ AsksOf(<<u>>) = u.asks
  <2>1. BytesOf(<<u>>) = Together(Part, <<u>>) /\ AsksOf(<<u>>) = Together(Asked, <<u>>)
    BY <1>2, <1>6
  <2> QED  BY <1>3, <1>4, <1>5, <2>1
<1>9. BytesOf(<<>>) = <<>> /\ AsksOf(<<>>) = <<>>
  BY <1>2, <1>4, <1>5, <1>6
<1>10. ASSUME NEW a \in Seq(Units) PROVE BytesOf(a) \in CharSeq /\ AsksOf(a) \in Seq(Ask)
  BY <1>2, <1>4, <1>5 DEF CharSeq
<1> QED  BY <1>7, <1>8, <1>9, <1>10

-----------------------------------------------------------------------------
(* Where the units are.                                                    *)

First(v, n) == SubSeq(v, 1, n)
Upto(v, n)  == Len(BytesOf(First(v, n)))

\* The first n units are one more than the first n - 1.
LEMMA OneMore ==
  ASSUME NEW v \in Seq(Units), NEW n \in 1..Len(v)
  PROVE  /\ First(v, n - 1) \in Seq(Units) /\ First(v, n) \in Seq(Units)
         /\ v[n] \in Units /\ First(v, n) = First(v, n - 1) \o <<v[n]>>
         /\ BytesOf(First(v, n)) = BytesOf(First(v, n - 1)) \o v[n].bytes
         /\ AsksOf(First(v, n)) = AsksOf(First(v, n - 1)) \o v[n].asks
         /\ Upto(v, n - 1) \in Nat /\ Upto(v, n) = Upto(v, n - 1) + Len(v[n].bytes)
<1>1. /\ First(v, n - 1) \in Seq(Units) /\ v[n] \in Units
      /\ First(v, n) = First(v, n - 1) \o <<v[n]>>
  BY PrefixGrows DEF First
<1>2. <<v[n]>> \in Seq(Units)
  BY <1>1
<1>3. First(v, n) \in Seq(Units)
  BY <1>1, <1>2
<1>4. /\ BytesOf(First(v, n)) = BytesOf(First(v, n - 1)) \o v[n].bytes
      /\ AsksOf(First(v, n)) = AsksOf(First(v, n - 1)) \o v[n].asks
  BY <1>1, <1>2, UnitsConcat
<1>5. BytesOf(First(v, n - 1)) \in CharSeq /\ v[n].bytes \in CharSeq
  BY <1>1, UnitsConcat, UnitType
<1>6. Upto(v, n - 1) \in Nat
  BY <1>5, StreamFacts DEF Upto
<1>7. Upto(v, n) = Upto(v, n - 1) + Len(v[n].bytes)
  BY <1>4, <1>5, StreamConcat DEF Upto
<1> QED  BY <1>1, <1>3, <1>4, <1>6, <1>7

\* No unit is empty.
LEMMA UptoGrows ==
  ASSUME NEW v \in Seq(Units)
  PROVE  /\ Len(v) \in Nat /\ BytesOf(v) \in CharSeq /\ Len(BytesOf(v)) \in Nat
         /\ Upto(v, 0) = 0 /\ Upto(v, Len(v)) = Len(BytesOf(v))
         /\ \A k \in 0..Len(v) : /\ Upto(v, k) \in Nat /\ Upto(v, k) >= k
                                 /\ Upto(v, k) <= Len(BytesOf(v))
                                 /\ \A j \in 0..k : Upto(v, j) \in Nat /\ Upto(v, j) <= Upto(v, k)
         /\ \A k \in 1..Len(v) : Upto(v, k) > Upto(v, k - 1)
<1> DEFINE N == Len(v)
           T == {k \in 0..N : /\ Upto(v, k) \in Nat /\ Upto(v, k) >= k
                              /\ \A j \in 0..k : Upto(v, j) \in Nat /\ Upto(v, j) <= Upto(v, k)}
<1>1. /\ N \in Nat /\ BytesOf(v) \in CharSeq /\ Len(BytesOf(v)) \in Nat
      /\ Upto(v, 0) = 0 /\ Upto(v, N) = Len(BytesOf(v))
  <2>1. First(v, 0) = <<>> /\ First(v, N) = v /\ N \in Nat
    BY PrefixGrows DEF First
  <2>2. BytesOf(v) \in CharSeq /\ BytesOf(<<>>) = <<>>
    BY UnitsConcat
  <2> HIDE DEF N
  <2> QED  BY <2>1, <2>2, StreamFacts, StreamShort DEF Upto
<1>2. ASSUME NEW k \in 1..N
      PROVE  Upto(v, k) \in Nat /\ Upto(v, k - 1) \in Nat /\ Upto(v, k) >= Upto(v, k - 1) + 1
  <2>1. /\ v[k] \in Units /\ Upto(v, k - 1) \in Nat
        /\ Upto(v, k) = Upto(v, k - 1) + Len(v[k].bytes)
    BY OneMore
  <2>2. Len(v[k].bytes) \in Nat \ {0}
    BY <2>1, UnitType
  <2> QED  BY <2>1, <2>2
<1> HIDE DEF N
<1>3. 0 \in T
  BY <1>1
<1>4. ASSUME NEW k \in 0..(N - 1), k \in T PROVE k + 1 \in T
  <2>1. k + 1 \in 1..N /\ (k + 1) - 1 = k /\ k + 1 \in 0..N
    BY <1>1
  <2>2. Upto(v, k) \in Nat /\ Upto(v, k) >= k /\ \A j \in 0..k : Upto(v, j) \in Nat /\ Upto(v, j) <= Upto(v, k)
    BY <1>4
  <2>3. Upto(v, k + 1) \in Nat /\ Upto(v, k + 1) >= Upto(v, k) + 1
    <3>1. Upto(v, k + 1) \in Nat /\ Upto(v, k + 1) >= Upto(v, (k + 1) - 1) + 1
      BY <1>2, <2>1
    <3> QED  BY ONLY <2>1, <2>2, <3>1
  <2>4. ASSUME NEW j \in 0..(k + 1) PROVE Upto(v, j) \in Nat /\ Upto(v, j) <= Upto(v, k + 1)
    <3>1. CASE j = k + 1
      BY <2>3, <3>1
    <3>2. CASE j # k + 1
      <4>1. j \in 0..k
        BY <3>2
      <4>2. Upto(v, j) \in Nat /\ Upto(v, j) <= Upto(v, k)
        BY <2>2, <4>1
      <4> QED  BY <2>2, <2>3, <4>2
    <3> QED  BY <3>1, <3>2
  <2> QED  BY <2>1, <2>2, <2>3, <2>4
<1>5. 0..N \subseteq T
  <2> HIDE DEF T
  <2> QED  BY <1>1, <1>3, <1>4, UpToInduction
<1>6. \A k \in 1..N : Upto(v, k) > Upto(v, k - 1)
  BY <1>2
<1>7. ASSUME NEW k \in 0..N PROVE Upto(v, k) <= Len(BytesOf(v))
  <2>1. N \in T /\ k \in 0..N
    BY <1>1, <1>5
  <2> QED  BY <1>1, <2>1
<1>8. \A k \in 0..N : /\ Upto(v, k) \in Nat /\ Upto(v, k) >= k
                      /\ \A j \in 0..k : Upto(v, j) \in Nat /\ Upto(v, j) <= Upto(v, k)
  BY <1>5
<1> HIDE DEF T
<1> QED  BY <1>1, <1>6, <1>7, <1>8 DEF N

\* Each unit is in the bytes, after those before it.
LEMMA UnitAt ==
  ASSUME NEW v \in Seq(Units), NEW n \in 1..Len(v)
  PROVE  \A i \in 1..Len(v[n].bytes) : BytesOf(v)[Upto(v, n - 1) + i] = v[n].bytes[i]
<1> DEFINE before == BytesOf(First(v, n - 1))
           b == v[n].bytes
           tail == SubSeq(v, n + 1, Len(v))
<1>1. /\ First(v, n - 1) \in Seq(Units) /\ First(v, n) \in Seq(Units) /\ v[n] \in Units
      /\ BytesOf(First(v, n)) = before \o b
  BY OneMore
<1>2. tail \in Seq(Units)
  OBVIOUS
<1>3. v = First(v, n) \o tail
  BY SMTT(30) DEF First
<1> HIDE DEF tail
<1>4. BytesOf(v) = BytesOf(First(v, n)) \o BytesOf(tail)
  BY <1>1, <1>2, <1>3, UnitsConcat
<1>5. before \in CharSeq /\ b \in CharSeq /\ BytesOf(tail) \in CharSeq
  BY <1>1, <1>2, UnitsConcat, UnitType
<1> HIDE DEF before, b
<1>6. BytesOf(v) = before \o b \o BytesOf(tail)
  BY <1>1, <1>4
<1>7. \A i \in 1..Len(b) : (before \o b \o BytesOf(tail))[Len(before) + i] = b[i]
  BY <1>5, StreamConcat3
<1> QED  BY <1>6, <1>7 DEF Upto, before, b
\* The bytes are complete as far as their units are.
LEMMA CompleteEnd ==
  ASSUME NEW v \in Seq(Units), NEW bytes, Len(bytes) \in Nat,
         Len(BytesOf(v)) <= Len(bytes),
         \A i \in 1..Len(BytesOf(v)) : bytes[i] = BytesOf(v)[i],
         \/ Len(bytes) = Len(BytesOf(v))
         \/ \E u \in Units, r \in Nat :
              /\ r < Len(u.bytes) /\ Len(bytes) = Len(BytesOf(v)) + r
              /\ \A i \in 1..r : bytes[Len(BytesOf(v)) + i] = u.bytes[i]
  PROVE  ProcessEnd(bytes) = Len(BytesOf(v))
<1> DEFINE N == Len(bytes)
           m == Len(v)
           d == Len(BytesOf(v))
           upto == [n \in 0..m |-> Upto(v, n)]
<1>1. PICK after : /\ after[0] = 0 /\ \A k \in 1..N : after[k] = Skip(bytes, after[k - 1])
                   /\ ProcessEnd(bytes) = after[N]
  BY ProcessEndRun
<1>2. /\ m \in Nat /\ d \in Nat /\ Upto(v, 0) = 0 /\ Upto(v, m) = d
      /\ \A k \in 0..m : Upto(v, k) \in Nat /\ Upto(v, k) <= d
  BY UptoGrows
<1>3. Skip(bytes, d) = d
  <2>1. CASE N = d
    BY <2>1 DEF Skip
  <2>2. CASE N # d
    <3>1. PICK u \in Units, r \in Nat :
              /\ r < Len(u.bytes) /\ N = d + r
              /\ \A i \in 1..r : bytes[d + i] = u.bytes[i]
      BY <2>2
    <3>2. r \in 0..Len(u.bytes) /\ d + r <= N
      BY <1>2, <3>1, UnitType
    <3> QED  BY <1>2, <3>1, <3>2, SkipUnit
  <2> QED  BY <2>1, <2>2
<1>4. ASSUME NEW n \in 1..m
      PROVE  \/ /\ Upto(v, n) >= Upto(v, n - 1) + 1 /\ Skip(bytes, Upto(v, n - 1)) = Upto(v, n)
             \/ /\ Upto(v, n) >= Upto(v, n - 1) + 2 /\ Skip(bytes, Upto(v, n - 1)) = Upto(v, n) - 1
                /\ Skip(bytes, Upto(v, n) - 1) = Upto(v, n)
  <2> DEFINE a == Upto(v, n - 1)
             w == v[n].bytes
  <2>1. v[n] \in Units /\ a \in Nat /\ Upto(v, n) = a + Len(w)
    BY OneMore
  <2>2. Len(w) \in Nat \ {0}
    BY <2>1, UnitType
  <2>3. Upto(v, n) <= d
    BY <1>2
  <2>4. \A i \in 1..Len(w) : BytesOf(v)[a + i] = w[i]
    BY UnitAt
  <2> HIDE DEF a, w
  <2>5. ASSUME NEW i \in 1..Len(w) PROVE bytes[a + i] = w[i]
    <3>1. a + i \in 1..d
      BY <1>2, <2>1, <2>2, <2>3
    <3> QED  BY <2>4, <3>1
  <2>6. SkipsUnit(bytes, a, Len(w))
    <3>1. Len(w) \in 0..Len(w) /\ a + Len(w) <= N
      BY <1>2, <2>1, <2>2, <2>3
    <3> QED  BY <2>1, <2>5, <3>1, SkipUnit DEF w
  <2>7. \/ Len(w) >= 1 /\ Skip(bytes, a) = a + Len(w)
        \/ Len(w) >= 2 /\ Skip(bytes, a) = a + Len(w) - 1 /\ Skip(bytes, a + Len(w) - 1) = a + Len(w)
    BY <2>6 DEF SkipsUnit
  <2>8. (a + Len(w)) - 1 = a + Len(w) - 1 /\ (Len(w) >= 1 => a + Len(w) >= a + 1)
        /\ (Len(w) >= 2 => a + Len(w) >= a + 2)
    BY <2>1, <2>2
  <2> QED  BY <2>1, <2>7, <2>8 DEF a
<1> HIDE DEF N, m, d
<1>5. \A n \in 0..m : upto[n] = Upto(v, n) /\ upto[n] \in Nat
  BY <1>2
<1>6. \A n \in 0..m : upto[n] <= N
  <2>1. N \in Nat /\ d <= N
    BY DEF N, d
  <2>2. ASSUME NEW n \in 0..m PROVE upto[n] <= N
    <3>2. upto[n] \in Nat /\ upto[n] <= d
      BY <1>2, <1>5
    <3> QED  BY <1>2, <2>1, <3>2
  <2> QED  BY <2>2
<1>7. upto[0] = 0 /\ upto[m] = d /\ upto[m] <= N /\ after[0] = upto[0]
  <2>1. 0 \in 0..m /\ m \in 0..m /\ d <= N
    BY <1>2 DEF N, d
  <2> QED  BY <1>1, <1>2, <1>5, <2>1
<1> HIDE DEF upto
<1>8. \A k \in 0..(N - 1) : after[k + 1] = Skip(bytes, after[k])
  <2> SUFFICES ASSUME NEW k \in 0..(N - 1) PROVE after[k + 1] = Skip(bytes, after[k])
    OBVIOUS
  <2>1. N \in Nat
    BY DEF N
  <2>2. k + 1 \in 1..N /\ (k + 1) - 1 = k
    BY <2>1
  <2>3. after[k + 1] = Skip(bytes, after[(k + 1) - 1])
    BY <1>1, <2>2 DEF N
  <2> QED  BY <2>2, <2>3
<1>9. ASSUME NEW n \in 1..m
      PROVE  \/ /\ upto[n] >= upto[n - 1] + 1
                /\ \A k \in 0..(N - 1) : after[k] = upto[n - 1] => after[k + 1] = upto[n]
             \/ /\ upto[n] >= upto[n - 1] + 2
                /\ \A k \in 0..(N - 2) : after[k] = upto[n - 1] => after[k + 2] = upto[n]
  <2>1. n \in 0..m /\ n - 1 \in 0..m
    BY <1>2
  <2>2. upto[n] = Upto(v, n) /\ upto[n - 1] = Upto(v, n - 1)
    BY <1>5, <2>1
  <2>3. \/ upto[n] >= upto[n - 1] + 1 /\ Skip(bytes, upto[n - 1]) = upto[n]
        \/ /\ upto[n] >= upto[n - 1] + 2 /\ Skip(bytes, upto[n - 1]) = upto[n] - 1
           /\ Skip(bytes, upto[n] - 1) = upto[n]
    BY <1>4, <2>2
  <2>4. ASSUME NEW k \in 0..(N - 2), after[k] = upto[n - 1],
               Skip(bytes, upto[n - 1]) = upto[n] - 1, Skip(bytes, upto[n] - 1) = upto[n]
        PROVE  after[k + 2] = upto[n]
    <3>0. N \in Nat
      BY DEF N
    <3>1. k \in 0..(N - 1) /\ k + 1 \in 0..(N - 1) /\ (k + 1) + 1 = k + 2
      BY <3>0
    <3>2. after[k + 1] = Skip(bytes, after[k])
      BY <1>8, <3>1
    <3>3. after[(k + 1) + 1] = Skip(bytes, after[k + 1])
      BY <1>8, <3>1
    <3> QED  BY ONLY <2>4, <3>1, <3>2, <3>3
  <2>5. ASSUME NEW k \in 0..(N - 1), after[k] = upto[n - 1], Skip(bytes, upto[n - 1]) = upto[n]
        PROVE  after[k + 1] = upto[n]
    BY <1>8, <2>5
  <2> QED  BY <2>3, <2>4, <2>5
<1>10. ASSUME NEW k \in 0..(N - 1), after[k] = upto[m] PROVE after[k + 1] = upto[m]
  BY <1>3, <1>7, <1>8, <1>10
<1>11. after[N] = upto[m]
  <2>1. N \in Nat /\ \A n \in 0..m : upto[n] \in Nat
    BY <1>5 DEF N
  <2>2. m \in Nat
    BY <1>2
  <2>3. upto[0] = 0 /\ upto[m] <= N /\ after[0] = upto[0]
    BY <1>7
  <2>4. \A n \in 1..m :
           \/ /\ upto[n] >= upto[n - 1] + 1
              /\ \A k \in 0..(N - 1) : after[k] = upto[n - 1] => after[k + 1] = upto[n]
           \/ /\ upto[n] >= upto[n - 1] + 2
              /\ \A k \in 0..(N - 2) : after[k] = upto[n - 1] => after[k + 2] = upto[n]
    BY <1>9
  <2>5. \A k \in 0..(N - 1) : after[k] = upto[m] => after[k + 1] = upto[m]
    BY <1>10
  <2>6. Reaches(N, m, after, upto, upto)
    BY ONLY <1>6, <2>1, <2>2, <2>3, <2>4, <2>5 DEF Reaches
  <2> QED  BY <2>6, Milestones
<1> QED  BY <1>1, <1>7, <1>11 DEF N, d
-----------------------------------------------------------------------------
(* From bytes to characters.                                               *)

Decoded(a) == [i \in DOMAIN a |-> CharAt(a, i)]

\* A byte begins a character of some set or none.
LEMMA DecodedType ==
  ASSUME NEW S, NEW a \in CharSeq, "e-acute" \in S, "U+FFFD" \in S,
         \A i \in 1..Len(a) : a[i] \notin {"C3", "A9"} => a[i] \in S
  PROVE  Decoded(a) \in Seq(Seq(S)) /\ Len(Decoded(a)) = Len(a) /\ FromUtf8(a) \in Seq(S)
<1>1. Len(a) \in Nat /\ DOMAIN a = 1..Len(a)
  BY StreamFacts
<1>2. ASSUME NEW i \in 1..Len(a) PROVE CharAt(a, i) \in Seq(S)
  <2>1. ASSUME NEW x \in S PROVE <<x>> \in Seq(S) /\ <<>> \in Seq(S)
    OBVIOUS
  <2>2. \/ CharAt(a, i) = <<"e-acute">>
        \/ CharAt(a, i) = <<>>
        \/ CharAt(a, i) = <<IF a[i] \in {"C3", "A9"} THEN "U+FFFD" ELSE a[i]>>
    BY DEF CharAt
  <2> QED  BY <2>1, <2>2
<1>3. Decoded(a) \in Seq(Seq(S)) /\ Len(Decoded(a)) = Len(a)
  BY <1>1, <1>2 DEF Decoded
<1>4. FromUtf8(a) = FlattenSeq(Decoded(a))
  BY DEF FromUtf8, Decoded
<1> QED  BY <1>3, <1>4, FlattenType

\* Bytes are read as characters.
LEMMA Utf8Type ==
  ASSUME NEW a \in CharSeq
  PROVE  Decoded(a) \in Seq(CharSeq) /\ Len(Decoded(a)) = Len(a) /\ FromUtf8(a) \in CharSeq
<1>1. /\ "e-acute" \in Chars /\ "U+FFFD" \in Chars /\ \A i \in 1..Len(a) : a[i] \in Chars
  BY Classes, StreamFacts
<1>2. Decoded(a) \in Seq(Seq(Chars)) /\ Len(Decoded(a)) = Len(a) /\ FromUtf8(a) \in Seq(Chars)
  BY <1>1, DecodedType
<1> QED  BY <1>2 DEF CharSeq

\* It makes no difference to read two parts one after the other, if none of the
\* characters is cut.
LEMMA Utf8Concat ==
  ASSUME NEW a \in CharSeq, NEW b \in CharSeq,
         ~(Len(a) > 0 /\ Len(b) > 0 /\ a[Len(a)] = "C3" /\ b[1] = "A9")
  PROVE  FromUtf8(a \o b) = FromUtf8(a) \o FromUtf8(b)
<1> DEFINE n == Len(a)
           k == Len(b)
           c == a \o b
           p == Decoded(a)
           q == Decoded(b)
           r == Decoded(c)
           pq == p \o q
<1>1. n \in Nat /\ k \in Nat
  BY StreamFacts
<1>2. /\ c \in CharSeq /\ Len(c) = n + k
      /\ \A i \in 1..n : c[i] = a[i]
      /\ \A i \in 1..k : c[n + i] = b[i]
  BY StreamConcat
<1>3. ~(n > 0 /\ k > 0 /\ a[n] = "C3" /\ b[1] = "A9")
  OBVIOUS
<1> HIDE DEF c
<1>4. /\ p \in Seq(CharSeq) /\ Len(p) = n /\ q \in Seq(CharSeq) /\ Len(q) = k
      /\ r \in Seq(CharSeq) /\ Len(r) = n + k
      /\ FromUtf8(a) = FlattenSeq(p) /\ FromUtf8(b) = FlattenSeq(q) /\ FromUtf8(c) = FlattenSeq(r)
  BY <1>2, Utf8Type DEF FromUtf8, Decoded
<1>5. /\ \A i \in 1..n : p[i] = CharAt(a, i)
      /\ \A i \in 1..k : q[i] = CharAt(b, i)
      /\ \A i \in 1..(n + k) : r[i] = CharAt(c, i)
  BY <1>2, StreamFacts DEF Decoded
<1> HIDE DEF n, k, p, q, r
<1>6. /\ pq \in Seq(CharSeq) /\ Len(pq) = n + k
      /\ \A i \in 1..(n + k) : pq[i] = IF i <= n THEN p[i] ELSE q[i - n]
  BY <1>4, ConcatProperties
<1> HIDE DEF pq
<1>7. ASSUME NEW i \in 1..n PROVE CharAt(c, i) = CharAt(a, i)
  <2>1. c[i] = a[i]
    BY <1>2
  <2>2. i > 1 => c[i - 1] = a[i - 1]
    <3>1. i > 1 => i - 1 \in 1..n
      BY <1>1
    <3> QED  BY <1>2, <3>1
  <2>3. CASE i < n
    <3>1. c[i + 1] = a[i + 1] /\ i < Len(c)
      <4>1. i + 1 \in 1..n
        BY <1>1, <2>3
      <4> QED  BY <1>1, <1>2, <2>3, <4>1
    <3> QED  BY <2>1, <2>2, <2>3, <3>1 DEF CharAt, n
  <2>4. CASE i = n
    <3>1. ~(i < Len(a)) /\ i > 0
      BY <1>1, <2>4 DEF n
    <3>2. c[i] = "C3" /\ i < Len(c) => c[i + 1] # "A9"
      <4>1. ASSUME c[i] = "C3", i < Len(c) PROVE c[i + 1] # "A9"
        <5>1. k > 0 /\ 1 \in 1..k /\ a[n] = "C3" /\ n > 0
          BY <1>1, <1>2, <2>1, <2>4, <4>1
        <5>2. c[n + 1] = b[1]
          BY <1>2, <5>1
        <5> QED  BY <1>3, <2>4, <5>1, <5>2
      <4> QED  BY <4>1
    <3> QED  BY <2>1, <2>2, <3>1, <3>2 DEF CharAt
  <2> QED  BY <1>1, <2>3, <2>4
<1>8. ASSUME NEW i \in 1..k PROVE CharAt(c, n + i) = CharAt(b, i)
  <2>1. c[n + i] = b[i]
    BY <1>2
  <2>2. /\ i < Len(b) <=> n + i < Len(c)
        /\ i < Len(b) => c[(n + i) + 1] = b[i + 1]
    <3>1. i < k => i + 1 \in 1..k /\ n + (i + 1) = (n + i) + 1
      BY <1>1
    <3>2. i < k <=> n + i < n + k
      BY <1>1
    <3> QED  BY <1>2, <3>1, <3>2 DEF k
  <2>3. CASE i > 1
    <3>1. i - 1 \in 1..k /\ n + (i - 1) = (n + i) - 1 /\ n + i > 1
      BY <1>1, <2>3
    <3>2. c[(n + i) - 1] = b[i - 1]
      BY <1>2, <3>1
    <3> QED  BY <2>1, <2>2, <2>3, <3>1, <3>2 DEF CharAt
  <2>4. CASE i = 1
    <3>1. ~(i > 1)
      BY <2>4
    <3>2. ~(c[n + i] = "A9" /\ n + i > 1 /\ c[(n + i) - 1] = "C3")
      <4> SUFFICES ASSUME c[n + i] = "A9", n + i > 1, c[(n + i) - 1] = "C3" PROVE FALSE
        OBVIOUS
      <4>1. n > 0 /\ n \in 1..n /\ (n + i) - 1 = n /\ k > 0
        BY <1>1, <2>4
      <4>2. a[n] = "C3" /\ b[1] = "A9"
        BY <1>2, <2>1, <2>4, <4>1
      <4> QED  BY <1>3, <4>1, <4>2
    <3> QED  BY <2>1, <2>2, <3>1, <3>2 DEF CharAt
  <2> QED  BY <1>1, <2>3, <2>4
<1>9. ASSUME NEW i \in 1..(n + k) PROVE r[i] = pq[i]
  <2>1. CASE i <= n
    <3>1. i \in 1..n
      BY <1>1, <2>1
    <3> QED  BY <1>5, <1>6, <1>7, <2>1, <3>1
  <2>2. CASE ~(i <= n)
    <3>1. i - n \in 1..k /\ n + (i - n) = i
      BY <1>1, <2>2
    <3>2. CharAt(c, n + (i - n)) = CharAt(b, i - n)
      BY <1>8, <3>1
    <3>3. r[i] = CharAt(c, i) /\ pq[i] = q[i - n] /\ q[i - n] = CharAt(b, i - n)
      BY <1>5, <1>6, <2>2, <3>1
    <3> QED  BY <3>1, <3>2, <3>3
  <2> QED  BY <2>1, <2>2
<1>10. r = pq
  BY <1>4, <1>6, <1>9, SeqEqual
<1>11. FlattenSeq(p \o q) = FlattenSeq(p) \o FlattenSeq(q)
  <2>1. p \in Seq(Seq(Chars)) /\ q \in Seq(Seq(Chars))
    BY <1>4 DEF CharSeq
  <2> QED  BY <2>1, FlattenConcat
<1> QED  BY <1>4, <1>10, <1>11 DEF pq, c

\* One byte, and the two of a character.
LEMMA Utf8Short ==
  /\ FromUtf8(<<>>) = <<>>
  /\ \A x \in Chars \ {"C3", "A9"} : FromUtf8(<<x>>) = <<x>>
  /\ FromUtf8(<<"C3", "A9">>) = <<"e-acute">>
<1>1. FromUtf8(<<>>) = <<>>
  <2>1. [i \in DOMAIN <<>> |-> CharAt(<<>>, i)] = <<>>
    OBVIOUS
  <2> QED  BY <2>1, FlattenNothing DEF FromUtf8
<1>2. \A x \in CharSeq : /\ FlattenSeq(<<x>>) = x
                        /\ FlattenSeq(<<x, <<>>>>) = x
  <2> SUFFICES ASSUME NEW x \in CharSeq PROVE FlattenSeq(<<x>>) = x /\ FlattenSeq(<<x, <<>>>>) = x
    OBVIOUS
  <2> DEFINE S == Seq(Chars)
  <2>a. x \in S /\ <<>> \in S /\ <<>> \o x = x /\ x \o <<>> = x
    BY DEF CharSeq
  <2>b. <<x>> \in Seq(S)
    <3> HIDE DEF S
    <3> QED  BY <2>a
  <2>c. <<>> \in Seq(S) /\ Append(<<>>, x) = <<x>>
    OBVIOUS
  <2>d. Append(<<x>>, <<>>) = <<x, <<>>>>
    <3>1. ASSUME NEW T, NEW y \in T, NEW z \in T PROVE Append(<<y>>, z) = <<y, z>>
      <4> DEFINE b == Append(<<y>>, z)
                 c == <<y, z>>
      <4>1. b \in Seq(T) /\ Len(b) = 2 /\ b[1] = y /\ b[2] = z
        OBVIOUS
      <4>2. c \in Seq(T) /\ Len(c) = 2 /\ c[1] = y /\ c[2] = z
        OBVIOUS
      <4> HIDE DEF b, c
      <4>3. \A i \in 1..Len(b) : i = 1 \/ i = 2
        BY <4>1
      <4>4. \A i \in 1..Len(b) : b[i] = c[i]
        BY <4>1, <4>2, <4>3
      <4>5. b = c
        BY <4>1, <4>2, <4>4, SeqEqual
      <4> QED  BY <4>5 DEF b, c
    <3> HIDE DEF S
    <3> QED  BY <2>a, <3>1
  <2>1. /\ <<>> \in Seq(Seq(Chars)) /\ x \in Seq(Chars) /\ <<>> \in Seq(Chars)
        /\ <<x>> \in Seq(Seq(Chars))
        /\ Append(<<>>, x) = <<x>> /\ Append(<<x>>, <<>>) = <<x, <<>>>>
        /\ <<>> \o x = x /\ x \o <<>> = x
    BY <2>a, <2>b, <2>c, <2>d
  <2>2. FlattenSeq(<<x>>) = FlattenSeq(<<>>) \o x
    BY <2>1, FlattenAppend
  <2>3. FlattenSeq(<<x, <<>>>>) = FlattenSeq(<<x>>) \o <<>>
    BY <2>1, FlattenAppend
  <2> QED  BY <2>1, <2>2, <2>3, FlattenNothing
<1>3. ASSUME NEW x \in Chars \ {"C3", "A9"} PROVE FromUtf8(<<x>>) = <<x>>
  <2>1. [i \in DOMAIN <<x>> |-> CharAt(<<x>>, i)] = << <<x>> >>
    <3>1. CharAt(<<x>>, 1) = <<x>>
      BY DEF CharAt
    <3>2. DOMAIN <<x>> = 1..1
      OBVIOUS
    <3> QED  BY <3>1, <3>2
  <2> QED  BY <1>2, <2>1, StreamShort DEF FromUtf8
<1>4. FromUtf8(<<"C3", "A9">>) = <<"e-acute">>
  <2> DEFINE a == <<"C3", "A9">>
  <2>1. [i \in DOMAIN a |-> CharAt(a, i)] = << <<"e-acute">>, <<>> >>
    <3>1. CharAt(a, 1) = <<"e-acute">> /\ CharAt(a, 2) = <<>>
      BY DEF CharAt
    <3>2. DOMAIN a = 1..2
      OBVIOUS
    <3> QED  BY <3>1, <3>2
  <2> QED  BY <1>2, <2>1, StreamShort, Classes DEF FromUtf8
<1> QED  BY <1>1, <1>3, <1>4

\* What has no bytes of a longer character is read as it is.
LEMMA Utf8Same ==
  ASSUME NEW a \in CharSeq, \A i \in 1..Len(a) : a[i] \notin {"C3", "A9"}
  PROVE  FromUtf8(a) = a
<1> DEFINE U(k) == SubSeq(a, 1, k)
           S == {k \in 0..Len(a) : FromUtf8(U(k)) = U(k)}
<1>1. /\ U(0) = <<>> /\ U(Len(a)) = a /\ Len(a) \in Nat
      /\ \A k \in 1..Len(a) : /\ a[k] \in Chars /\ U(k - 1) \in CharSeq
                              /\ U(k) = U(k - 1) \o <<a[k]>>
  BY PrefixGrows DEF CharSeq
<1> HIDE DEF U
<1>2. 0 \in S
  BY <1>1, Utf8Short
<1>3. ASSUME NEW k \in 0..(Len(a) - 1), k \in S PROVE k + 1 \in S
  <2>1. k + 1 \in 1..Len(a) /\ (k + 1) - 1 = k /\ k + 1 \in 0..Len(a)
    BY <1>1
  <2>2. a[k + 1] \in Chars /\ U(k) \in CharSeq /\ U(k + 1) = U(k) \o <<a[k + 1]>>
        /\ a[k + 1] \notin {"C3", "A9"}
    BY <1>1, <2>1
  <2>3. <<a[k + 1]>> \in CharSeq /\ <<a[k + 1]>>[1] # "A9" /\ FromUtf8(<<a[k + 1]>>) = <<a[k + 1]>>
    BY <2>2, StreamShort, Utf8Short
  <2>4. FromUtf8(U(k) \o <<a[k + 1]>>) = FromUtf8(U(k)) \o FromUtf8(<<a[k + 1]>>)
    BY <2>2, <2>3, Utf8Concat
  <2>5. FromUtf8(U(k)) = U(k)
    BY <1>3
  <2> QED  BY <2>1, <2>2, <2>3, <2>4, <2>5
<1>4. Len(a) \in S
  <2>1. 0..Len(a) \subseteq S
    <3> HIDE DEF S
    <3> QED  BY <1>1, <1>2, <1>3, UpToInduction
  <2> QED  BY <1>1, <2>1
<1> QED  BY <1>1, <1>4
-----------------------------------------------------------------------------
(* What the screen is asked for.                                           *)

At(d, e) == [done |-> d, events |-> e]

\* One turn.
LEMMA ObeyAt ==
  ASSUME NEW chars, Len(chars) \in Nat, NEW d \in Nat, NEW e
  PROVE  LET i == d + 1
         IN  /\ i > Len(chars) => Obey(chars, At(d, e)) = At(d, e)
             /\ i <= Len(chars) /\ chars[i] # "ESC" =>
                  Obey(chars, At(d, e)) = At(i, Append(e, Put(chars[i])))
             /\ i < Len(chars) /\ chars[i] = "ESC" /\ chars[i + 1] \notin {"[", "]"} =>
                  Obey(chars, At(d, e)) = At(i + 1, Append(e, Escape(chars[i + 1])))
             /\ i < Len(chars) /\ chars[i] = "ESC" /\ chars[i + 1] = "]" =>
                  Obey(chars, At(d, e)) = At(AfterString(chars, i + 2) - 1, e)
<1> DEFINE i == d + 1
           screen == At(d, e)
<1>0. screen.done = d /\ screen.events = e /\ \A x : [screen EXCEPT !.done = x] = At(x, e)
  BY DEF At
<1>1. ASSUME i > Len(chars) PROVE Obey(chars, screen) = screen
  BY <1>0, <1>1 DEF Obey
<1>2. ASSUME i <= Len(chars), chars[i] # "ESC"
      PROVE  Obey(chars, screen) = At(i, Append(e, Put(chars[i])))
  <2>1. ~(i > Len(chars))
    BY <1>2
  <2> QED  BY <1>0, <1>2, <2>1 DEF Obey, At
<1>3. ASSUME i < Len(chars), chars[i] = "ESC", chars[i + 1] \notin {"[", "]"}
      PROVE  Obey(chars, screen) = At(i + 1, Append(e, Escape(chars[i + 1])))
  <2>1. ~(i > Len(chars)) /\ i # Len(chars)
    BY <1>3
  <2> QED  BY <1>0, <1>3, <2>1 DEF Obey, At
<1>4. ASSUME i < Len(chars), chars[i] = "ESC", chars[i + 1] = "]"
      PROVE  Obey(chars, screen) = At(AfterString(chars, i + 2) - 1, e)
  <2>1. ~(i > Len(chars)) /\ i # Len(chars)
    BY <1>4
  <2>2. Obey(chars, screen) = [screen EXCEPT !.done = AfterString(chars, i + 2) - 1]
    BY <1>0, <1>4, <2>1 DEF Obey
  <2> QED  BY <1>0, <2>2
<1> QED  BY <1>1, <1>2, <1>3, <1>4

\* The same for a control sequence.
LEMMA ObeyControlAt ==
  ASSUME NEW chars, Len(chars) \in Nat, NEW d \in Nat, NEW e,
         d + 1 < Len(chars), chars[d + 1] = "ESC", chars[d + 2] = "[",
         ~(FirstOf(chars, FirstOf(chars, d + 3, Chars \ Parameter), Chars \ Intermediate) > Len(chars))
  PROVE  LET j == FirstOf(chars, d + 3, Chars \ Parameter)
             k == FirstOf(chars, j, Chars \ Intermediate)
         IN  Obey(chars, At(d, e)) = At(k, Append(e, Csi(SubSeq(chars, d + 3, j - 1), chars[k])))
<1> DEFINE i == d + 1
           screen == At(d, e)
<1>0. screen.done = d /\ screen.events = e
  BY DEF At
<1>1. ~(i > Len(chars)) /\ i # Len(chars) /\ i + 1 = d + 2 /\ i + 2 = d + 3
  OBVIOUS
<1> QED  BY <1>0, <1>1 DEF Obey, At

\* The turns that take the characters of a unit, and what is asked for then.
ObeysUnit(chars, d, e, n, asks) ==
  \/ n >= 1 /\ Obey(chars, At(d, e)) = At(d + n, e \o asks)
  \/ n >= 2 /\ Obey(chars, Obey(chars, At(d, e))) = At(d + n, e \o asks)

\* Asking for one thing more, and for nothing.
LEMMA AsksMore ==
  ASSUME NEW e \in Seq(Ask)
  PROVE  e \o <<>> = e /\ \A a \in Ask : Append(e, a) = e \o <<a>>
<1>1. e \o <<>> = e
  OBVIOUS
<1>2. ASSUME NEW a \in Ask PROVE Append(e, a) = e \o <<a>>
  OBVIOUS
<1> QED  BY <1>1, <1>2

\* A turn of process_tui at the start of a control sequence.
LEMMA ObeyControl ==
  ASSUME NEW chars, Len(chars) \in Nat, NEW d \in Nat, NEW e \in Seq(Ask),
         NEW p \in Seq(Parameter), NEW i \in Seq(Intermediate), NEW f \in Final,
         chars \in CharSeq,
         NEW w, w = <<"ESC", "[">> \o p \o i \o <<f>>,
         d + Len(w) <= Len(chars), \A m \in 1..Len(w) : chars[d + m] = w[m]
  PROVE  ObeysUnit(chars, d, e, Len(w), <<Csi(p, f)>>)
<1> DEFINE np == Len(p)
           ni == Len(i)
           j == d + 3 + np
           k == d + 3 + np + ni
<1>1. /\ Len(w) = 3 + np + ni /\ np \in Nat /\ ni \in Nat
      /\ w[1] = "ESC" /\ w[2] = "[" /\ w[3 + np + ni] = f
      /\ \A m \in 1..np : w[2 + m] = p[m] /\ p[m] \in Parameter
      /\ \A m \in 1..ni : w[2 + np + m] \in Intermediate
  <2> DEFINE a == <<"ESC", "[">> \o p \o i \o <<f>>
  <2>1. /\ Len(a) = 3 + np + ni /\ np \in Nat /\ ni \in Nat
        /\ a[1] = "ESC" /\ a[2] = "[" /\ a[3 + np + ni] = f
        /\ \A m \in 1..np : a[2 + m] = p[m] /\ p[m] \in Parameter
        /\ \A m \in 1..ni : a[2 + np + m] \in Intermediate
    BY CsiShape, SMTT(30)
  <2>2. w = a
    OBVIOUS
  <2> HIDE DEF a, np, ni
  <2> QED  BY ONLY <2>1, <2>2
<1> HIDE DEF np, ni
<1>2. chars[d + 1] = "ESC" /\ chars[d + 2] = "[" /\ d + 1 < Len(chars)
  <2>1. 1 \in 1..Len(w) /\ 2 \in 1..Len(w) /\ 3 <= Len(w) /\ Len(w) \in Nat
    BY <1>1
  <2>2. chars[d + 1] = w[1] /\ chars[d + 2] = w[2]
    BY <2>1
  <2>3. d + 1 < Len(chars)
    BY <2>1
  <2> QED  BY ONLY <1>1, <2>2, <2>3
<1>3. \A m \in (d + 3)..(j - 1) : chars[m] \in Parameter /\ chars[m] = p[m - d - 2]
  <2> SUFFICES ASSUME NEW m \in (d + 3)..(j - 1)
               PROVE  chars[m] \in Parameter /\ chars[m] = p[m - d - 2]
    OBVIOUS
  <2>1. m - d - 2 \in 1..np /\ 2 + (m - d - 2) = m - d /\ m - d \in 1..Len(w) /\ d + (m - d) = m
    BY <1>1
  <2>2. w[m - d] = p[m - d - 2] /\ p[m - d - 2] \in Parameter
    BY <1>1, <2>1
  <2> QED  BY <2>1, <2>2
<1>4. \A m \in j..(k - 1) : chars[m] \in Intermediate
  <2> SUFFICES ASSUME NEW m \in j..(k - 1) PROVE chars[m] \in Intermediate
    OBVIOUS
  <2> DEFINE x == m - d - 2 - np
  <2>1. x \in 1..ni /\ 2 + np + x = m - d /\ m - d \in 1..Len(w) /\ d + (m - d) = m
    BY <1>1
  <2> HIDE DEF x
  <2>2. w[m - d] \in Intermediate
    BY <1>1, <2>1
  <2> QED  BY <2>1, <2>2
<1>5. chars[k] = f
  <2>1. 3 + np + ni \in 1..Len(w) /\ d + (3 + np + ni) = k
    BY <1>1
  <2> QED  BY <1>1, <2>1
<1>6. /\ d + 3 \in Nat /\ j \in (d + 3)..Len(chars) /\ j \in Nat /\ k \in j..Len(chars)
      /\ ~(k > Len(chars))
  BY <1>1
<1>7. chars[j] \in Chars \ Parameter
  <2>1. CASE ni = 0
    <3>1. j = k
      BY <1>1, <2>1
    <3> QED  BY <1>5, <3>1, Classes
  <2>2. CASE ni # 0
    <3>1. j \in j..(k - 1)
      BY <1>1, <2>2
    <3> QED  BY <1>4, <3>1, Classes
  <2> QED  BY <2>1, <2>2
<1>8. chars[k] \in Chars \ Intermediate
  BY <1>5, Classes
<1>8a. /\ \A m \in (d + 3)..(j - 1) : chars[m] \notin Chars \ Parameter
       /\ \A m \in j..(k - 1) : chars[m] \notin Chars \ Intermediate
  BY <1>3, <1>4
<1>9. SubSeq(chars, d + 3, j - 1) = p
  <2> DEFINE a == SubSeq(chars, d + 3, j - 1)
  <2>1. /\ j - 1 \in Nat /\ d + 3 \in Nat \ {0} /\ d + 3 <= (j - 1) + 1 /\ j - 1 <= Len(chars)
        /\ (j - 1) - (d + 3) + 1 = np
    BY <1>1, <1>6
  <2>2. /\ a \in CharSeq /\ Len(a) = (j - 1) - (d + 3) + 1
        /\ \A m \in 1..((j - 1) - (d + 3) + 1) : a[m] = chars[m + ((d + 3) - 1)]
    BY <1>6, <2>1, PartOfChars
  <2> HIDE DEF a
  <2>3. Len(a) = np /\ p \in CharSeq /\ Len(p) = np
    BY <2>1, <2>2, Classes, PartsAreStreams DEF np
  <2>4. ASSUME NEW m \in 1..Len(a) PROVE a[m] = p[m]
    <3>1. PICK x \in (d + 3)..(j - 1) : x = m + ((d + 3) - 1) /\ x - d - 2 = m
      BY <1>1, <2>3
    <3>2. a[m] = chars[m + ((d + 3) - 1)]
      BY <2>1, <2>2, <2>3
    <3>3. chars[x] = p[x - d - 2]
      BY <1>3
    <3> QED  BY ONLY <3>1, <3>2, <3>3
  <2>5. a = p
    BY <2>2, <2>3, <2>4, SeqEqual DEF CharSeq
  <2> QED  BY <2>5 DEF a
<1>10. k = d + Len(w) /\ Len(w) >= 1
  <2>1. np \in Nat /\ ni \in Nat /\ Len(w) = 3 + np + ni /\ d \in Nat
    BY <1>1
  <2> QED  BY ONLY <2>1
<1> HIDE DEF j, k
<1>11. j = FirstOf(chars, d + 3, Chars \ Parameter)
  BY <1>6, <1>7, <1>8a, FirstAt
<1>12. k = FirstOf(chars, j, Chars \ Intermediate)
  BY <1>6, <1>8, <1>8a, FirstAt
<1>13. Obey(chars, At(d, e)) = At(k, Append(e, Csi(SubSeq(chars, d + 3, j - 1), chars[k])))
  <2>1. Len(chars) \in Nat /\ d \in Nat
    OBVIOUS
  <2>2. ~(k > Len(chars))
    BY <1>6
  <2> QED  BY ONLY Zenon, <1>2, <1>11, <1>12, <2>1, <2>2, ObeyControlAt
<1>14. Append(e, Csi(p, f)) = e \o <<Csi(p, f)>>
  <2>1. Csi(p, f) \in Ask
    BY DEF Ask
  <2> QED  BY <2>1, AsksMore
<1> QED  BY <1>5, <1>9, <1>10, <1>13, <1>14 DEF ObeysUnit
\* What skips a string.
LEMMA AfterStringAt ==
  ASSUME NEW chars, Len(chars) \in Nat, NEW start \in Nat, NEW j \in start..Len(chars),
         chars[j] \in {"BEL", "ESC"},
         \A m \in start..(j - 1) : chars[m] \notin {"BEL", "ESC"}
  PROVE  AfterString(chars, start) =
           IF j < Len(chars) /\ chars[j] = "ESC" /\ chars[j + 1] = "\\" THEN j + 2 ELSE j + 1
<1>1. FirstOf(chars, start, {"BEL", "ESC"}) = j
  BY FirstAt
<1> QED  BY <1>1 DEF AfterString

\* The turns of process_tui at the start of a string, broken off or not.
LEMMA ObeyString ==
  ASSUME NEW chars, Len(chars) \in Nat, NEW d \in Nat, NEW e \in Seq(Ask),
         NEW t \in CharSeq, \A m \in 1..Len(t) : t[m] \notin {"BEL", "ESC"},
         NEW end \in CharSeq, NEW asks,
         \/ end = <<"BEL">> /\ asks = <<>>
         \/ end = <<"ESC", "\\">> /\ asks = <<>>
         \/ \E b \in Plain : b # "\\" /\ end = <<"ESC", b>> /\ asks = <<Put(b)>>,
         NEW w, w = <<"ESC", "]">> \o t \o end,
         d + Len(w) <= Len(chars), \A m \in 1..Len(w) : chars[d + m] = w[m]
  PROVE  ObeysUnit(chars, d, e, Len(w), asks)
<1> DEFINE start == d + 3
           nt == Len(t)
           j == d + 3 + nt
           n == Len(w)
<1>0. \/ Len(end) = 1 /\ end[1] = "BEL" /\ asks = <<>>
      \/ Len(end) = 2 /\ end[1] = "ESC" /\ end[2] = "\\" /\ asks = <<>>
      \/ Len(end) = 2 /\ end[1] = "ESC" /\ end[2] \in Plain /\ end[2] # "\\" /\ asks = <<Put(end[2])>>
  <2>1. CASE end = <<"BEL">> /\ asks = <<>>
    BY <2>1, StringEnds
  <2>2. CASE end = <<"ESC", "\\">> /\ asks = <<>>
    BY <2>2, StringEnds, Classes
  <2>3. CASE \E b \in Plain : b # "\\" /\ end = <<"ESC", b>> /\ asks = <<Put(b)>>
    <3>1. PICK b \in Plain : b # "\\" /\ end = <<"ESC", b>> /\ asks = <<Put(b)>>
      BY <2>3
    <3>2. Len(end) = 2 /\ end[1] = "ESC" /\ end[2] = b
      BY <3>1, StringEnds, Classes
    <3> QED  BY <3>1, <3>2
  <2> QED  BY <2>1, <2>2, <2>3
<1>1. /\ n = 2 + nt + Len(end) /\ nt \in Nat /\ Len(end) \in Nat
      /\ w[1] = "ESC" /\ w[2] = "]"
      /\ \A m \in 1..nt : w[2 + m] = t[m]
      /\ \A m \in 1..Len(end) : w[2 + nt + m] = end[m]
  <2> DEFINE a == <<"ESC", "]">> \o t \o end
  <2>1. Len(end) > 0
    BY <1>0
  <2>2. /\ Len(a) = 2 + nt + Len(end) /\ nt \in Nat /\ Len(end) \in Nat
        /\ a[1] = "ESC" /\ a[2] = "]"
        /\ \A m \in 1..nt : a[2 + m] = t[m]
        /\ \A m \in 1..Len(end) : a[2 + nt + m] = end[m]
    BY <2>1, StringShape, SMTT(30)
  <2>3. w = a
    OBVIOUS
  <2> HIDE DEF a, nt
  <2> QED  BY ONLY <2>2, <2>3 DEF n
<1>2. \A m \in 1..n : chars[d + m] = w[m]
  OBVIOUS
<1>2a. d + n <= Len(chars) /\ \A m \in 1..nt : t[m] \notin {"BEL", "ESC"}
  OBVIOUS
<1> HIDE DEF nt, n
<1>3. chars[d + 1] = "ESC" /\ chars[d + 2] = "]" /\ d + 1 < Len(chars) /\ (d + 1) + 1 = d + 2
      /\ (d + 1) + 2 = start
  <2>0. n = 2 + nt + Len(end) /\ nt \in Nat /\ Len(end) \in Nat
    BY ONLY <1>1
  <2>1. 1 \in 1..n /\ 2 \in 1..n /\ n >= 2 /\ n \in Nat
    BY ONLY <2>0
  <2>2. chars[d + 1] = "ESC" /\ chars[d + 2] = "]"
    BY <1>1, <1>2, <2>1
  <2>3. d + 1 < Len(chars)
    BY <1>2a, <2>1
  <2>4. (d + 1) + 1 = d + 2 /\ (d + 1) + 2 = start
    OBVIOUS
  <2> QED  BY ONLY <2>2, <2>3, <2>4
<1>4. ASSUME NEW m \in start..(j - 1) PROVE chars[m] \notin {"BEL", "ESC"}
  <2>1. m - d - 2 \in 1..nt /\ 2 + (m - d - 2) = m - d /\ m - d \in 1..n /\ d + (m - d) = m
    BY <1>1
  <2>2. w[m - d] = t[m - d - 2]
    BY <1>1, <2>1
  <2> QED  BY <1>2, <1>2a, <2>1, <2>2
<1>5. ASSUME NEW x \in 1..Len(end) PROVE chars[j + (x - 1)] = end[x] /\ j + (x - 1) <= Len(chars)
  <2>1. 2 + nt + x \in 1..n /\ d + (2 + nt + x) = j + (x - 1) /\ n \in Nat
    BY <1>1
  <2>2. w[2 + nt + x] = end[x]
    BY <1>1
  <2>3. chars[d + (2 + nt + x)] = w[2 + nt + x]
    BY <1>2, <2>1
  <2>4. d + (2 + nt + x) <= Len(chars)
    BY <1>2a, <2>1
  <2> HIDE DEF j
  <2> QED  BY ONLY <2>1, <2>2, <2>3, <2>4
<1>6. chars[j] = end[1] /\ j \in start..Len(chars) /\ start \in Nat /\ j \in Nat
  <2>1. 1 \in 1..Len(end) /\ j + (1 - 1) = j
    BY <1>0, <1>1
  <2>2. chars[j + (1 - 1)] = end[1] /\ j + (1 - 1) <= Len(chars)
    BY <1>5, <2>1
  <2> QED  BY <1>1, <2>1, <2>2
<1>7. Len(end) = 2 => chars[j + 1] = end[2] /\ j < Len(chars)
  <2> SUFFICES ASSUME Len(end) = 2 PROVE chars[j + 1] = end[2] /\ j < Len(chars)
    OBVIOUS
  <2>1. 2 \in 1..Len(end) /\ j + (2 - 1) = j + 1
    BY <1>1
  <2>2. chars[j + (2 - 1)] = end[2] /\ j + (2 - 1) <= Len(chars)
    BY <1>5, <2>1
  <2> QED  BY <1>6, <2>1, <2>2
<1>8. d + n = j + (Len(end) - 1)
  <2>1. d \in Nat /\ nt \in Nat /\ Len(end) \in Nat /\ n = 2 + nt + Len(end)
    BY <1>1
  <2> QED  BY ONLY <2>1
<1> HIDE DEF start, j
<1>9. chars[j] \in {"BEL", "ESC"}
  BY <1>0, <1>6
<1>10. AfterString(chars, start) =
         IF j < Len(chars) /\ chars[j] = "ESC" /\ chars[j + 1] = "\\" THEN j + 2 ELSE j + 1
  BY <1>4, <1>6, <1>9, AfterStringAt
<1>11. Obey(chars, At(d, e)) = At(AfterString(chars, start) - 1, e)
  BY <1>3, ObeyAt
<1>12. e \o <<>> = e /\ \A a \in Ask : Append(e, a) = e \o <<a>>
  BY AsksMore
<1>13. CASE Len(end) = 1 /\ end[1] = "BEL" /\ asks = <<>>
  <2>1. AfterString(chars, start) - 1 = d + n /\ n >= 1
    BY <1>1, <1>6, <1>8, <1>10, <1>13
  <2> QED  BY <1>11, <1>12, <1>13, <2>1 DEF ObeysUnit, n
<1>14. CASE Len(end) = 2 /\ end[1] = "ESC" /\ end[2] = "\\" /\ asks = <<>>
  <2>1. AfterString(chars, start) - 1 = d + n /\ n >= 1
    BY <1>1, <1>6, <1>7, <1>8, <1>10, <1>14
  <2> QED  BY <1>11, <1>12, <1>14, <2>1 DEF ObeysUnit, n
<1>15. CASE Len(end) = 2 /\ end[1] = "ESC" /\ end[2] \in Plain /\ end[2] # "\\" /\ asks = <<Put(end[2])>>
  <2>1. AfterString(chars, start) - 1 = j /\ n >= 2 /\ d + n = j + 1
    BY <1>1, <1>6, <1>7, <1>8, <1>10, <1>15
  <2>2. Obey(chars, At(j, e)) = At(j + 1, Append(e, Put(end[2])))
    <3>1. chars[j + 1] = end[2] /\ chars[j + 1] # "ESC" /\ j + 1 <= Len(chars)
      BY <1>6, <1>7, <1>15, Classes
    <3> QED  BY <1>6, <3>1, ObeyAt
  <2>3. Put(end[2]) \in Ask
    BY <1>15, Classes DEF Ask
  <2> QED  BY <1>11, <1>12, <1>15, <2>1, <2>2, <2>3 DEF ObeysUnit, n
<1> QED  BY <1>0, <1>13, <1>14, <1>15

\* How a string is read.
LEMMA StringRead ==
  ASSUME NEW s \in Seq(Body), NEW end \in CharSeq, Len(end) > 0,
         \A m \in 1..Len(end) : end[m] \notin {"C3", "A9"}
  PROVE  LET t == FromUtf8(s)
         IN  /\ t \in CharSeq /\ \A m \in 1..Len(t) : t[m] \notin {"BEL", "ESC"}
             /\ FromUtf8(<<"ESC", "]">> \o s \o end) = <<"ESC", "]">> \o t \o end
<1> DEFINE h == <<"ESC", "]">>
           hs == h \o s
           S == Chars \ {"BEL", "ESC"}
<1>1. h \in CharSeq /\ Len(h) = 2 /\ h[1] = "ESC" /\ h[2] = "]"
  BY StreamShort, Classes
<1>2. s \in CharSeq /\ Len(s) \in Nat /\ \A m \in 1..Len(s) : s[m] \in Body
  <2>1. Body \in SUBSET Chars
    BY Classes DEF Body
  <2> QED  BY <2>1, PartsAreStreams
<1>3. FromUtf8(s) \in CharSeq /\ \A m \in 1..Len(FromUtf8(s)) : FromUtf8(s)[m] \notin {"BEL", "ESC"}
  <2>1. "e-acute" \in S /\ "U+FFFD" \in S
    BY DEF Chars
  <2>2. Body \subseteq S /\ S \in SUBSET Chars
    BY Classes DEF Body
  <2>3. \A m \in S : m \notin {"BEL", "ESC"}
    OBVIOUS
  <2> HIDE DEF S
  <2>4. FromUtf8(s) \in Seq(S)
    BY <1>2, <2>1, <2>2, DecodedType
  <2>5. FromUtf8(s) \in CharSeq /\ \A m \in 1..Len(FromUtf8(s)) : FromUtf8(s)[m] \in S
    BY <2>2, <2>4, PartsAreStreams
  <2> QED  BY <2>3, <2>5
<1> HIDE DEF h
<1>4. FromUtf8(h) = h
  <2>1. \A m \in 1..Len(h) : m = 1 \/ m = 2
    BY <1>1
  <2> QED  BY <1>1, <2>1, Utf8Same
<1>5. FromUtf8(end) = end
  BY Utf8Same
<1>6. FromUtf8(hs) = h \o FromUtf8(s)
  BY <1>1, <1>2, <1>4, Utf8Concat
<1>7. hs \in CharSeq
  BY <1>1, <1>2, StreamConcat
<1> HIDE DEF hs
<1>8. FromUtf8(hs \o end) = FromUtf8(hs) \o FromUtf8(end)
  <2>1. end[1] # "A9"
    <3>1. 1 \in 1..Len(end)
      BY StreamFacts
    <3> QED  BY <3>1
  <2> QED  BY <1>7, <2>1, Utf8Concat
<1> QED  BY <1>3, <1>5, <1>6, <1>8 DEF h, hs

\* The characters of a unit ask for what the unit asks for.
LEMMA ObeyUnit ==
  ASSUME NEW chars \in CharSeq, NEW d \in Nat, NEW e \in Seq(Ask), NEW u \in Units,
         d + Len(FromUtf8(u.bytes)) <= Len(chars),
         \A m \in 1..Len(FromUtf8(u.bytes)) : chars[d + m] = FromUtf8(u.bytes)[m]
  PROVE  ObeysUnit(chars, d, e, Len(FromUtf8(u.bytes)), u.asks)
<1> DEFINE w == FromUtf8(u.bytes)
           Goal == ObeysUnit(chars, d, e, Len(w), u.asks)
<1>0. Len(chars) \in Nat
  BY StreamFacts
<1>1. ASSUME NEW c \in Chars, c # "ESC", w = <<c>>, u.asks = <<Put(c)>> PROVE Goal
  <2>1. Len(w) = 1 /\ w[1] = c
    BY <1>1, StreamShort
  <2>2. chars[d + 1] = c /\ d + 1 <= Len(chars)
    BY <2>1
  <2>3. Obey(chars, At(d, e)) = At(d + 1, Append(e, Put(c)))
    BY <1>0, <1>1, <2>2, ObeyAt
  <2>4. Append(e, Put(c)) = e \o <<Put(c)>>
    <3>1. Put(c) \in Ask
      BY DEF Ask
    <3> QED  BY <3>1, AsksMore
  <2> HIDE DEF w
  <2> QED  BY <1>1, <2>1, <2>3, <2>4 DEF ObeysUnit
<1>2. CASE \E b \in Plain : u = Unit(<<b>>, <<Put(b)>>)
  <2>1. PICK b \in Plain : u = Unit(<<b>>, <<Put(b)>>)
    BY <1>2
  <2>2. b \in Chars /\ b \notin {"ESC", "C3", "A9"} /\ u.bytes = <<b>> /\ u.asks = <<Put(b)>>
    BY <2>1, Classes DEF Unit
  <2>3. w = <<b>>
    BY <2>2, Utf8Short
  <2> HIDE DEF w, Goal
  <2>4. Goal
    BY <1>1, <2>2, <2>3
  <2> QED  BY <2>4 DEF Goal, w
<1>3. CASE u = Unit(<<"C3", "A9">>, <<Put("e-acute")>>)
  <2>1. u.bytes = <<"C3", "A9">> /\ u.asks = <<Put("e-acute")>>
    BY <1>3 DEF Unit
  <2>2. w = <<"e-acute">> /\ "e-acute" \in Chars /\ "e-acute" # "ESC"
    BY <2>1, Utf8Short, Classes
  <2> HIDE DEF w, Goal
  <2>3. Goal
    BY <1>1, <2>1, <2>2
  <2> QED  BY <2>3 DEF Goal, w
<1>4. CASE \E b \in Escaped : u = Unit(<<"ESC", b>>, <<Escape(b)>>)
  <2>1. PICK b \in Escaped : u = Unit(<<"ESC", b>>, <<Escape(b)>>)
    BY <1>4
  <2>2. u.bytes = <<"ESC", b>> /\ u.asks = <<Escape(b)>> /\ b \in Bytes
        /\ b \notin {"C3", "A9"} /\ b \notin {"[", "]"}
    BY <2>1 DEF Unit, Escaped
  <2>3. /\ <<"ESC", b>> \in CharSeq /\ Len(<<"ESC", b>>) = 2
        /\ <<"ESC", b>>[1] = "ESC" /\ <<"ESC", b>>[2] = b
    BY <2>2, StringEnds
  <2>4. w = <<"ESC", b>>
    <3>1. \A m \in 1..2 : m = 1 \/ m = 2
      OBVIOUS
    <3>2. \A m \in 1..Len(<<"ESC", b>>) : <<"ESC", b>>[m] \notin {"C3", "A9"}
      BY <2>2, <2>3, <3>1
    <3> QED  BY <2>2, <2>3, <3>2, Utf8Same
  <2>5. Len(w) = 2 /\ w[1] = "ESC" /\ w[2] = b
    BY <2>3, <2>4
  <2>6. chars[d + 1] = "ESC" /\ chars[d + 2] = b /\ d + 1 < Len(chars) /\ (d + 1) + 1 = d + 2
    BY <1>0, <2>5
  <2>7. Obey(chars, At(d, e)) = At(d + 2, Append(e, Escape(b)))
    BY <1>0, <2>2, <2>6, ObeyAt
  <2>8. Append(e, Escape(b)) = e \o <<Escape(b)>>
    <3>1. Escape(b) \in Ask
      BY <2>2, Classes DEF Ask
    <3> QED  BY <3>1, AsksMore
  <2> HIDE DEF w
  <2>9. Goal
    BY <2>2, <2>5, <2>7, <2>8 DEF ObeysUnit
  <2> QED  BY <2>9 DEF w
<1>5. CASE \E p \in Seq(Parameter), i \in Seq(Intermediate), f \in Final : u = Control(p, i, f)
  <2>1. PICK p \in Seq(Parameter), i \in Seq(Intermediate), f \in Final : u = Control(p, i, f)
    BY <1>5
  <2> DEFINE b == <<"ESC", "[">> \o p \o i \o <<f>>
  <2>2. u.bytes = b /\ u.asks = <<Csi(p, f)>>
    BY <2>1 DEF Control, Unit
  <2>3. w = b
    <3>1. /\ b \in CharSeq /\ Len(b) = 3 + Len(p) + Len(i) /\ Len(p) \in Nat /\ Len(i) \in Nat
          /\ b[1] = "ESC" /\ b[2] = "[" /\ b[3 + Len(p) + Len(i)] = f
          /\ \A m \in 1..Len(p) : b[2 + m] = p[m] /\ p[m] \in Parameter
          /\ \A m \in 1..Len(i) : b[2 + Len(p) + m] \in Intermediate
      BY CsiShape
    <3> HIDE DEF b
    <3>2. ASSUME NEW m \in 1..Len(b) PROVE b[m] \notin {"C3", "A9"}
      <4>1. CASE m = 1 \/ m = 2
        BY <3>1, <4>1
      <4>2. CASE m \in 3..(2 + Len(p))
        <5>1. m - 2 \in 1..Len(p) /\ 2 + (m - 2) = m
          BY <3>1, <4>2
        <5>2. b[m] \in Parameter
          BY <3>1, <5>1
        <5> QED  BY <5>2, Classes
      <4>3. CASE m \in (3 + Len(p))..(2 + Len(p) + Len(i))
        <5> DEFINE x == m - 2 - Len(p)
        <5>1. x \in 1..Len(i) /\ 2 + Len(p) + x = m
          BY <3>1, <4>3
        <5> HIDE DEF x
        <5>2. b[m] \in Intermediate
          BY <3>1, <5>1
        <5> QED  BY <5>2, Classes
      <4>4. CASE m = 3 + Len(p) + Len(i)
        BY <3>1, <4>4, Classes
      <4> QED  BY <3>1, <4>1, <4>2, <4>3, <4>4
    <3>3. FromUtf8(b) = b
      BY <3>1, <3>2, Utf8Same
    <3> QED  BY <2>2, <3>3
  <2>4. w = <<"ESC", "[">> \o p \o i \o <<f>> /\ d + Len(w) <= Len(chars)
        /\ \A m \in 1..Len(w) : chars[d + m] = w[m]
    BY <2>3
  <2> HIDE DEF w
  <2>5. ObeysUnit(chars, d, e, Len(w), <<Csi(p, f)>>)
    BY <1>0, <2>4, ObeyControl
  <2> QED  BY <2>2, <2>5 DEF w
<1> DEFINE Closes(end, asks) ==
             \/ end = <<"BEL">> /\ asks = <<>>
             \/ end = <<"ESC", "\\">> /\ asks = <<>>
             \/ \E b \in Plain : b # "\\" /\ end = <<"ESC", b>> /\ asks = <<Put(b)>>
<1>6. ASSUME NEW s \in Seq(Body), NEW end \in CharSeq, Closes(end, u.asks), Len(end) > 0,
             \A m \in 1..Len(end) : end[m] \notin {"C3", "A9"},
             u.bytes = <<"ESC", "]">> \o s \o end
      PROVE  Goal
  <2> DEFINE t == FromUtf8(s)
  <2>1. /\ t \in CharSeq /\ \A m \in 1..Len(t) : t[m] \notin {"BEL", "ESC"}
        /\ FromUtf8(<<"ESC", "]">> \o s \o end) = <<"ESC", "]">> \o t \o end
    BY <1>6, StringRead
  <2>2. w = <<"ESC", "]">> \o t \o end /\ d + Len(w) <= Len(chars)
        /\ \A m \in 1..Len(w) : chars[d + m] = w[m]
    BY <1>6, <2>1
  <2> HIDE DEF w, t
  <2>3. ObeysUnit(chars, d, e, Len(w), u.asks)
    BY <1>0, <1>6, <2>1, <2>2, ObeyString
  <2> QED  BY <2>3
<1>7. CASE \E s \in Seq(Body), end \in Ends : u = String(s, end, <<>>)
  <2>1. PICK s \in Seq(Body), end \in Ends : u = String(s, end, <<>>)
    BY <1>7
  <2>2. u.bytes = <<"ESC", "]">> \o s \o end /\ u.asks = <<>>
    BY <2>1 DEF String, Unit
  <2>3. Closes(end, u.asks)
    BY <2>2 DEF Ends
  <2>4. /\ end \in CharSeq
        /\ \/ Len(end) = 1 /\ end[1] = "BEL"
           \/ Len(end) = 2 /\ end[1] = "ESC" /\ end[2] = "\\"
    BY StringEnds, Classes DEF Ends
  <2>5. Len(end) > 0 /\ \A m \in 1..Len(end) : end[m] \notin {"C3", "A9"}
    <3>1. (\A m \in 1..1 : m = 1) /\ (\A m \in 1..2 : m = 1 \/ m = 2)
      OBVIOUS
    <3> QED  BY <2>4, <3>1
  <2> HIDE DEF Goal, Closes
  <2>6. Goal
    BY <1>6, <2>2, <2>3, <2>4, <2>5
  <2> QED  BY <2>6 DEF Goal
<1>8. CASE \E s \in Seq(Body), b \in Plain : u = BrokenOff(s, b) /\ b # "\\"
  <2>1. PICK s \in Seq(Body), b \in Plain : u = BrokenOff(s, b) /\ b # "\\"
    BY <1>8
  <2> DEFINE end == <<"ESC", b>>
  <2>2. u.bytes = <<"ESC", "]">> \o s \o end /\ u.asks = <<Put(b)>>
    BY <2>1 DEF BrokenOff, String, Unit
  <2>3. Closes(end, u.asks)
    BY <2>1, <2>2
  <2>4. end \in CharSeq /\ Len(end) = 2 /\ end[1] = "ESC" /\ end[2] = b /\ b \notin {"C3", "A9"}
    BY StringEnds, Classes
  <2> HIDE DEF end
  <2>5. Len(end) > 0 /\ \A m \in 1..Len(end) : end[m] \notin {"C3", "A9"}
    <3>1. \A m \in 1..2 : m = 1 \/ m = 2
      OBVIOUS
    <3> QED  BY <2>4, <3>1
  <2> HIDE DEF Goal, Closes
  <2>6. Goal
    BY <1>6, <2>2, <2>3, <2>4, <2>5
  <2> QED  BY <2>6 DEF Goal
<1> HIDE DEF Goal
<1>9. Goal
  BY <1>2, <1>3, <1>4, <1>5, <1>7, <1>8, UnitKinds DEF Goal
<1> QED  BY <1>9 DEF Goal, w
\* The loop of process_tui.
LEMMA EventsRun ==
  ASSUME NEW chars, Len(chars) \in Nat
  PROVE  \E f : /\ f[0] = At(0, <<>>)
                /\ \A k \in 1..Len(chars) : f[k] = Obey(chars, f[k - 1])
                /\ Events(chars) = f[Len(chars)].events
<1> DEFINE Is(f, n) == f = [k \in 0..n |-> IF k = 0 THEN [done |-> 0, events |-> <<>>]
                                           ELSE Obey(chars, f[k - 1])]
           start == [done |-> 0, events |-> <<>>]
           T == {n \in 0..Len(chars) : \E f : Is(f, n)}
<1>1. 0 \in T
  <2>1. Is([k \in 0..0 |-> start], 0) /\ 0 \in 0..Len(chars)
    OBVIOUS
  <2> HIDE DEF Is
  <2> QED  BY <2>1
<1>2. ASSUME NEW n \in 0..(Len(chars) - 1), n \in T PROVE n + 1 \in T
  <2>1. PICK f : Is(f, n)
    BY <1>2
  <2> DEFINE last == Obey(chars, f[n])
             g == [k \in 0..(n + 1) |-> IF k = n + 1 THEN last ELSE f[k]]
  <2>2. \A k \in 0..n : g[k] = f[k] /\ f[k] = IF k = 0 THEN start ELSE Obey(chars, f[k - 1])
    BY <2>1
  <2>3. g[n + 1] = last /\ (n + 1) - 1 = n /\ n + 1 # 0
    OBVIOUS
  <2>4. g = [k \in 0..(n + 1) |-> g[k]]
    OBVIOUS
  <2> HIDE DEF g, start
  <2>5. ASSUME NEW k \in 0..(n + 1) PROVE g[k] = IF k = 0 THEN start ELSE Obey(chars, g[k - 1])
    <3>1. CASE k = n + 1
      <4>1. g[n] = f[n]
        BY <2>2
      <4> QED  BY <2>3, <3>1, <4>1
    <3>2. CASE k \in 0..n
      <4>1. k # 0 => k - 1 \in 0..n
        BY <3>2
      <4> QED  BY <2>2, <3>2, <4>1
    <3> QED  BY <3>1, <3>2
  <2>6. Is(g, n + 1)
    BY <2>4, <2>5 DEF start
  <2>7. n + 1 \in 0..Len(chars)
    OBVIOUS
  <2> HIDE DEF Is
  <2> QED  BY <2>6, <2>7
<1>3. \E f : Is(f, Len(chars))
  <2>1. 0..Len(chars) \subseteq T /\ Len(chars) \in 0..Len(chars)
    <3> HIDE DEF T
    <3>1. Len(chars) \in Nat
      OBVIOUS
    <3>2. 0..Len(chars) \subseteq T
      BY ONLY <3>1, <1>1, <1>2, UpToInduction
    <3> QED  BY <3>1, <3>2
  <2> HIDE DEF Is
  <2> QED  BY <2>1
<1> DEFINE c == CHOOSE f : Is(f, Len(chars))
<1>4. Is(c, Len(chars))
  <2> HIDE DEF Is
  <2> QED  BY <1>3
<1>5. Events(chars) = c[Len(chars)].events
  BY Zenon DEF Events
<1> HIDE DEF c
<1>6. c[0] = At(0, <<>>) /\ \A k \in 1..Len(chars) : c[k] = Obey(chars, c[k - 1])
  <2>1. \A k \in 0..Len(chars) : c[k] = IF k = 0 THEN At(0, <<>>) ELSE Obey(chars, c[k - 1])
    BY <1>4 DEF At
  <2>2. 0 \in 0..Len(chars) /\ \A k \in 1..Len(chars) : k \in 0..Len(chars) /\ k # 0
    OBVIOUS
  <2> QED  BY <2>1, <2>2
<1> QED  BY <1>5, <1>6

CharsOf(v) == FromUtf8(BytesOf(v))

\* Units are read one after the other.
LEMMA CharsConcat ==
  ASSUME NEW a \in Seq(Units), NEW b \in Seq(Units)
  PROVE  /\ CharsOf(a) \in CharSeq /\ CharsOf(b) \in CharSeq
         /\ CharsOf(a \o b) = CharsOf(a) \o CharsOf(b)
<1>1. BytesOf(a) \in CharSeq /\ BytesOf(b) \in CharSeq /\ BytesOf(a \o b) = BytesOf(a) \o BytesOf(b)
  BY UnitsConcat
<1>2. Len(BytesOf(b)) > 0 => BytesOf(b)[1] # "A9"
  <2>1. CASE Len(b) = 0
    <3>1. b = <<>>
      BY <2>1
    <3>2. BytesOf(b) = <<>> /\ Len(<<>>) = 0
      BY <3>1, UnitsConcat, StreamShort
    <3> QED  BY <3>2
  <2>2. CASE Len(b) # 0
    <3>1. 1 \in 1..Len(b) /\ 1 - 1 = 0 /\ b[1] \in Units
      <4>1. Len(b) \in Nat
        OBVIOUS
      <4> QED  BY <2>2, <4>1
    <3>2. 1 \in 1..Len(b[1].bytes) /\ b[1].bytes[1] # "A9"
      BY <3>1, UnitType
    <3>3. BytesOf(b)[Upto(b, 1 - 1) + 1] = b[1].bytes[1]
      BY <3>1, <3>2, UnitAt
    <3>4. Upto(b, 1 - 1) + 1 = 1
      BY <3>1, UptoGrows
    <3> QED  BY <3>2, <3>3, <3>4
  <2> QED  BY <2>1, <2>2
<1>3. FromUtf8(BytesOf(a) \o BytesOf(b)) = FromUtf8(BytesOf(a)) \o FromUtf8(BytesOf(b))
  BY <1>1, <1>2, Utf8Concat
<1> QED  BY <1>1, <1>3, Utf8Type DEF CharsOf

CharsUpto(v, n) == Len(CharsOf(First(v, n)))

\* Where the characters of a unit are.
LEMMA CharsAt ==
  ASSUME NEW v \in Seq(Units), NEW n \in 1..Len(v)
  PROVE  LET w == FromUtf8(v[n].bytes)
         IN  /\ w \in CharSeq /\ Len(w) \in Nat /\ CharsUpto(v, n - 1) \in Nat
             /\ CharsUpto(v, n) = CharsUpto(v, n - 1) + Len(w)
             /\ CharsUpto(v, n) <= Len(CharsOf(v))
             /\ \A i \in 1..Len(w) : CharsOf(v)[CharsUpto(v, n - 1) + i] = w[i]
<1> DEFINE before == CharsOf(First(v, n - 1))
           w == FromUtf8(v[n].bytes)
           tail == SubSeq(v, n + 1, Len(v))
           rest == CharsOf(tail)
<1>1. /\ First(v, n - 1) \in Seq(Units) /\ First(v, n) \in Seq(Units) /\ v[n] \in Units
      /\ First(v, n) = First(v, n - 1) \o <<v[n]>>
  BY OneMore
<1>2. tail \in Seq(Units) /\ <<v[n]>> \in Seq(Units)
  BY <1>1
<1>3. v = First(v, n) \o tail
  BY SMTT(30) DEF First
<1> HIDE DEF tail
<1>4. w = CharsOf(<<v[n]>>)
  BY <1>1, UnitsConcat DEF CharsOf
<1>5. CharsOf(First(v, n)) = before \o w
  BY <1>1, <1>2, <1>4, CharsConcat
<1>6. CharsOf(v) = CharsOf(First(v, n)) \o rest
  BY <1>1, <1>2, <1>3, CharsConcat
<1>7. before \in CharSeq /\ w \in CharSeq /\ rest \in CharSeq
  BY <1>1, <1>2, <1>4, CharsConcat
<1>8. CharsUpto(v, n - 1) = Len(before) /\ CharsUpto(v, n) = Len(before \o w)
  BY <1>5 DEF CharsUpto
<1> HIDE DEF before, w, rest
<1>9. Len(before) \in Nat /\ Len(w) \in Nat /\ Len(rest) \in Nat /\ Len(before \o w) = Len(before) + Len(w)
  BY <1>7, StreamFacts, StreamConcat
<1>10. CharsOf(v) = before \o w \o rest
  BY <1>5, <1>6
<1>11. /\ Len(before \o w \o rest) = Len(before) + Len(w) + Len(rest)
       /\ \A i \in 1..Len(w) : (before \o w \o rest)[Len(before) + i] = w[i]
  BY <1>7, StreamConcat3
<1>12. CharsUpto(v, n) <= Len(CharsOf(v))
  BY <1>8, <1>9, <1>10, <1>11
<1> QED  BY <1>7, <1>8, <1>9, <1>10, <1>11, <1>12 DEF w

\* Complete units ask for what they say.
LEMMA CompleteEvents ==
  ASSUME NEW v \in Seq(Units)
  PROVE  Events(CharsOf(v)) = AsksOf(v)
<1> DEFINE chars == CharsOf(v)
           N == Len(chars)
           m == Len(v)
           upto == [n \in 0..m |-> CharsUpto(v, n)]
           stop == [n \in 0..m |-> At(CharsUpto(v, n), AsksOf(First(v, n)))]
<1>1. chars \in CharSeq /\ N \in Nat
  <2>1. BytesOf(v) \in CharSeq
    BY UnitsConcat
  <2> QED  BY <2>1, Utf8Type, StreamFacts DEF CharsOf
<1>2. PICK after : /\ after[0] = At(0, <<>>)
                   /\ \A k \in 1..N : after[k] = Obey(chars, after[k - 1])
                   /\ Events(chars) = after[N].events
  BY <1>1, EventsRun
<1>3. m \in Nat /\ First(v, 0) = <<>> /\ First(v, m) = v
  BY PrefixGrows DEF First
<1>4. CharsUpto(v, 0) = 0 /\ AsksOf(First(v, 0)) = <<>> /\ CharsUpto(v, m) = N
  <2>1. CharsOf(<<>>) = <<>> /\ Len(<<>>) = 0 /\ AsksOf(<<>>) = <<>>
    BY UnitsConcat, Utf8Short, StreamShort DEF CharsOf
  <2> HIDE DEF m
  <2> QED  BY <1>3, <2>1 DEF CharsUpto
<1> HIDE DEF N
<1>5. ASSUME NEW n \in 0..m PROVE CharsUpto(v, n) \in Nat /\ CharsUpto(v, n) <= N
  <2>1. CASE n = 0
    BY <1>1, <1>4, <2>1
  <2>2. CASE n # 0
    <3>1. n \in 1..m
      BY <1>3, <2>2
    <3> HIDE DEF chars
    <3> QED  BY <3>1, CharsAt DEF N, chars
  <2> QED  BY <2>1, <2>2
<1>6. ASSUME NEW n \in 1..m
      PROVE  LET e == AsksOf(First(v, n - 1))
                 d == CharsUpto(v, n - 1)
                 t == At(CharsUpto(v, n), AsksOf(First(v, n)))
             IN  \/ CharsUpto(v, n) >= d + 1 /\ Obey(chars, At(d, e)) = t
                 \/ CharsUpto(v, n) >= d + 2 /\ Obey(chars, Obey(chars, At(d, e))) = t
  <2> DEFINE e == AsksOf(First(v, n - 1))
             d == CharsUpto(v, n - 1)
             w == FromUtf8(v[n].bytes)
  <2>1. /\ w \in CharSeq /\ Len(w) \in Nat /\ d \in Nat /\ CharsUpto(v, n) = d + Len(w)
        /\ d + Len(w) <= Len(chars)
        /\ \A i \in 1..Len(w) : chars[d + i] = w[i]
    BY CharsAt
  <2>2. v[n] \in Units /\ AsksOf(First(v, n)) = e \o v[n].asks /\ e \in Seq(Ask)
    BY OneMore, UnitsConcat
  <2> HIDE DEF e, d, chars
  <2>3. ObeysUnit(chars, d, e, Len(w), v[n].asks)
    BY <1>1, <2>1, <2>2, ObeyUnit
  <2> HIDE DEF w
  <2>4. \/ Len(w) >= 1 /\ Obey(chars, At(d, e)) = At(d + Len(w), e \o v[n].asks)
        \/ Len(w) >= 2 /\ Obey(chars, Obey(chars, At(d, e))) = At(d + Len(w), e \o v[n].asks)
    BY <2>3 DEF ObeysUnit
  <2>5. (Len(w) >= 1 => d + Len(w) >= d + 1) /\ (Len(w) >= 2 => d + Len(w) >= d + 2)
    BY <2>1
  <2> QED  BY <2>1, <2>2, <2>4, <2>5 DEF e, d
<1>7. Obey(chars, At(N, AsksOf(v))) = At(N, AsksOf(v))
  <2>1. N + 1 > Len(chars)
    BY <1>1 DEF N
  <2> HIDE DEF chars
  <2> QED  BY <1>1, <2>1, ObeyAt DEF N
<1> HIDE DEF m, chars
<1>8. /\ \A n \in 0..m : /\ upto[n] = CharsUpto(v, n) /\ upto[n] \in Nat /\ upto[n] <= N
                         /\ stop[n] = At(CharsUpto(v, n), AsksOf(First(v, n)))
  BY <1>5
<1>9. upto[0] = 0 /\ after[0] = stop[0] /\ stop[m] = At(N, AsksOf(v))
  <2>1. 0 \in 0..m /\ m \in 0..m
    BY <1>3
  <2> QED  BY <1>2, <1>3, <1>4, <1>8, <2>1
<1> HIDE DEF upto, stop
<1>10. \A k \in 0..(N - 1) : after[k + 1] = Obey(chars, after[k])
  <2> SUFFICES ASSUME NEW k \in 0..(N - 1) PROVE after[k + 1] = Obey(chars, after[k])
    OBVIOUS
  <2>1. k + 1 \in 1..N /\ (k + 1) - 1 = k
    BY <1>1
  <2>2. after[k + 1] = Obey(chars, after[(k + 1) - 1])
    BY <1>2, <2>1
  <2> QED  BY <2>1, <2>2
<1>11. ASSUME NEW n \in 1..m
       PROVE  \/ /\ upto[n] >= upto[n - 1] + 1
                 /\ \A k \in 0..(N - 1) : after[k] = stop[n - 1] => after[k + 1] = stop[n]
              \/ /\ upto[n] >= upto[n - 1] + 2
                 /\ \A k \in 0..(N - 2) : after[k] = stop[n - 1] => after[k + 2] = stop[n]
  <2>1. n \in 0..m /\ n - 1 \in 0..m
    BY <1>3
  <2>2. /\ upto[n] = CharsUpto(v, n) /\ upto[n - 1] = CharsUpto(v, n - 1)
        /\ stop[n] = At(CharsUpto(v, n), AsksOf(First(v, n)))
        /\ stop[n - 1] = At(CharsUpto(v, n - 1), AsksOf(First(v, n - 1)))
    BY <1>8, <2>1
  <2>3. \/ upto[n] >= upto[n - 1] + 1 /\ Obey(chars, stop[n - 1]) = stop[n]
        \/ upto[n] >= upto[n - 1] + 2 /\ Obey(chars, Obey(chars, stop[n - 1])) = stop[n]
    BY <1>6, <2>2
  <2>4. ASSUME NEW k \in 0..(N - 2), after[k] = stop[n - 1],
               Obey(chars, Obey(chars, stop[n - 1])) = stop[n]
        PROVE  after[k + 2] = stop[n]
    <3>1. k \in 0..(N - 1) /\ k + 1 \in 0..(N - 1) /\ (k + 1) + 1 = k + 2
      BY <1>1
    <3>2. after[k + 1] = Obey(chars, after[k])
      BY <1>10, <3>1
    <3>3. after[(k + 1) + 1] = Obey(chars, after[k + 1])
      BY <1>10, <3>1
    <3> QED  BY ONLY <2>4, <3>1, <3>2, <3>3
  <2>5. ASSUME NEW k \in 0..(N - 1), after[k] = stop[n - 1], Obey(chars, stop[n - 1]) = stop[n]
        PROVE  after[k + 1] = stop[n]
    BY <1>10, <2>5
  <2> QED  BY <2>3, <2>4, <2>5
<1>12. ASSUME NEW k \in 0..(N - 1), after[k] = stop[m] PROVE after[k + 1] = stop[m]
  BY <1>7, <1>9, <1>10, <1>12
<1>13. after[N] = stop[m]
  <2>1. N \in Nat /\ m \in Nat /\ \A n \in 0..m : upto[n] \in Nat /\ upto[n] <= N
    BY <1>1, <1>3, <1>8
  <2>2. Reaches(N, m, after, stop, upto)
    BY <1>9, <1>11, <1>12, <2>1 DEF Reaches
  <2> QED  BY <2>2, Milestones
<1> QED  BY <1>2, <1>9, <1>13 DEF At, chars
-----------------------------------------------------------------------------
(* What a stream that is cut anywhere comes to.                            *)

Complete(units, p) == Max({n \in 0..Len(units) : Upto(units, n) <= p})

\* The last whole unit before a place, and what is left of the one after it.
LEMMA CompleteAt ==
  ASSUME NEW units \in Seq(Units), NEW p \in 0..Len(BytesOf(units))
  PROVE  LET w == Complete(units, p)
         IN  /\ w \in 0..Len(units) /\ Upto(units, w) \in Nat /\ Upto(units, w) <= p
             /\ \A n \in 0..Len(units) : Upto(units, n) <= p => n <= w
             /\ w < Len(units) => p < Upto(units, w) + Len(units[w + 1].bytes)
             /\ w = Len(units) => p = Upto(units, w)
<1> DEFINE S == {n \in 0..Len(units) : Upto(units, n) <= p}
           w == Max(S)
<1>1. /\ Len(units) \in Nat /\ Len(BytesOf(units)) \in Nat /\ p \in Nat
      /\ Upto(units, 0) = 0 /\ Upto(units, Len(units)) = Len(BytesOf(units))
      /\ \A k \in 0..Len(units) : Upto(units, k) \in Nat
  BY UptoGrows
<1>2. 0 \in S /\ S \in SUBSET (0..Len(units))
  BY <1>1
<1>3. w \in S /\ \A y \in S : w >= y
  <2>1. S # {}
    BY <1>2
  <2> HIDE DEF S
  <2> QED  BY <1>1, <1>2, <2>1, LargestUpTo
<1>4. w = Complete(units, p)
  BY DEF Complete
<1> HIDE DEF w
<1>5. w \in 0..Len(units) /\ Upto(units, w) \in Nat /\ Upto(units, w) <= p
  BY <1>1, <1>3
<1>6. ASSUME NEW n \in 0..Len(units), Upto(units, n) <= p PROVE n <= w
  <2>1. n \in S
    BY <1>6
  <2> QED  BY <1>3, <1>5, <2>1
<1>7. ASSUME w < Len(units) PROVE p < Upto(units, w) + Len(units[w + 1].bytes)
  <2>1. w + 1 \in 1..Len(units) /\ (w + 1) - 1 = w /\ w + 1 \in 0..Len(units) /\ ~(w + 1 <= w)
    BY <1>1, <1>5, <1>7
  <2>2. ~(Upto(units, w + 1) <= p)
    BY <1>6, <2>1
  <2>3. Upto(units, w + 1) \in Nat
    BY <1>1, <2>1
  <2>4. Upto(units, w + 1) = Upto(units, (w + 1) - 1) + Len(units[w + 1].bytes)
    BY <2>1, OneMore
  <2> QED  BY ONLY <1>1, <2>1, <2>2, <2>3, <2>4
<1>8. ASSUME w = Len(units) PROVE p = Upto(units, w)
  BY <1>1, <1>5, <1>8
<1> QED  BY <1>4, <1>5, <1>6, <1>7, <1>8

\* The units between two places.
Between(units, a, b) == SubSeq(units, a + 1, b)

\* The first units are those before them and those between.
LEMMA FirstSplit ==
  ASSUME NEW units \in Seq(Units), NEW a \in 0..Len(units), NEW b \in 0..Len(units), a <= b
  PROVE  First(units, b) = First(units, a) \o Between(units, a, b)
<1> DEFINE v == Between(units, a, b)
<1>1. Len(units) \in Nat /\ First(units, a) \in Seq(Units) /\ v \in Seq(Units)
  BY DEF First, Between
<1>2. First(units, b) = First(units, a) \o v
  <2> DEFINE c == First(units, a)
             e == First(units, b)
  <2>1. /\ c \in Seq(Units) /\ Len(c) = a /\ \A i \in 1..a : c[i] = units[i]
        /\ e \in Seq(Units) /\ Len(e) = b /\ \A i \in 1..b : e[i] = units[i]
        /\ Len(v) = b - a /\ \A i \in 1..(b - a) : v[i] = units[a + i]
    BY DEF First, Between
  <2> HIDE DEF c, e, v
  <2>2. /\ c \o v \in Seq(Units) /\ Len(c \o v) = a + (b - a)
        /\ \A i \in 1..(a + (b - a)) : (c \o v)[i] = IF i <= a THEN c[i] ELSE v[i - a]
    <3>1. /\ c \o v \in Seq(Units) /\ Len(c \o v) = Len(c) + Len(v)
          /\ \A i \in 1..(Len(c) + Len(v)) :
               (c \o v)[i] = IF i <= Len(c) THEN c[i] ELSE v[i - Len(c)]
      BY <1>1, <2>1, ConcatProperties
    <3>2. Len(c) = a /\ Len(v) = b - a
      BY <2>1
    <3> QED  BY ONLY <3>1, <3>2
  <2>3. ASSUME NEW i \in 1..b PROVE e[i] = (c \o v)[i]
    <3>1. a + (b - a) = b /\ e[i] = units[i]
      BY <2>1
    <3>2. CASE i <= a
      BY <2>1, <2>2, <3>1, <3>2
    <3>3. CASE ~(i <= a)
      <4>1. i - a \in 1..(b - a) /\ a + (i - a) = i
        BY <3>3
      <4>2. v[i - a] = units[a + (i - a)] /\ (c \o v)[i] = v[i - a]
        BY <2>1, <2>2, <3>1, <3>3, <4>1
      <4> QED  BY ONLY <3>1, <4>1, <4>2
    <3> QED  BY <3>2, <3>3
  <2>4. Len(c \o v) = b /\ b \in Nat
    BY <2>2
  <2>5. e = c \o v
    BY <2>1, <2>2, <2>3, <2>4, SeqEqual
  <2> QED  BY <2>5 DEF c, e
<1> QED  BY <1>2

\* Their bytes are there, and what they ask for comes next.
LEMMA BetweenUnits ==
  ASSUME NEW units \in Seq(Units), NEW a \in 0..Len(units), NEW b \in 0..Len(units), a <= b
  PROVE  LET v == Between(units, a, b)
         IN  /\ v \in Seq(Units)
             /\ Len(BytesOf(v)) = Upto(units, b) - Upto(units, a)
             /\ \A i \in 1..Len(BytesOf(v)) : BytesOf(units)[Upto(units, a) + i] = BytesOf(v)[i]
             /\ AsksOf(First(units, b)) = AsksOf(First(units, a)) \o AsksOf(v)
<1> DEFINE v == Between(units, a, b)
           rest == SubSeq(units, b + 1, Len(units))
           A == BytesOf(First(units, a))
           V == BytesOf(v)
           R == BytesOf(rest)
<1>1. Len(units) \in Nat /\ First(units, a) \in Seq(Units) /\ v \in Seq(Units) /\ rest \in Seq(Units)
  BY DEF First, Between
<1>2. First(units, b) = First(units, a) \o v
  BY FirstSplit
<1>3. units = First(units, b) \o rest
  <2>1. First(units, Len(units)) = units /\ Len(units) \in 0..Len(units) /\ b <= Len(units)
    BY <1>1, PrefixGrows DEF First
  <2>2. rest = Between(units, b, Len(units))
    BY DEF Between
  <2> HIDE DEF rest
  <2>3. First(units, Len(units)) = First(units, b) \o Between(units, b, Len(units))
    BY <2>1, FirstSplit
  <2> QED  BY ONLY <2>1, <2>2, <2>3
<1>4. First(units, b) \in Seq(Units)
  BY DEF First
<1> HIDE DEF v, rest
<1>5. /\ BytesOf(First(units, b)) = A \o V
      /\ AsksOf(First(units, b)) = AsksOf(First(units, a)) \o AsksOf(v)
  BY <1>1, <1>2, UnitsConcat
<1>6. BytesOf(units) = BytesOf(First(units, b)) \o R
  BY <1>1, <1>3, <1>4, UnitsConcat
<1>7. A \in CharSeq /\ V \in CharSeq /\ R \in CharSeq
  BY <1>1, UnitsConcat
<1>8. Upto(units, a) = Len(A)
  BY DEF Upto
<1>9. Upto(units, b) = Len(BytesOf(First(units, b)))
  BY DEF Upto
<1> HIDE DEF A, V, R
<1>10. /\ Len(A \o V \o R) = Len(A) + Len(V) + Len(R)
       /\ \A i \in 1..Len(V) : (A \o V \o R)[Len(A) + i] = V[i]
  BY <1>7, StreamConcat3
<1>11. Len(A \o V) = Len(A) + Len(V) /\ Len(A) \in Nat /\ Len(V) \in Nat
  BY <1>7, StreamConcat, StreamFacts
<1>12. BytesOf(units) = A \o V \o R
  BY ONLY <1>5, <1>6
<1>13. Len(V) = Upto(units, b) - Upto(units, a)
  BY ONLY <1>5, <1>8, <1>9, <1>11
<1>14. \A i \in 1..Len(V) : BytesOf(units)[Upto(units, a) + i] = V[i]
  BY ONLY <1>8, <1>10, <1>12
<1> QED  BY <1>1, <1>5, <1>13, <1>14 DEF v, V
-----------------------------------------------------------------------------
(* One chunk after the other.                                              *)

\* What is carried, and what has been asked for, when a chunk ended at q.
StageAt(units, q) ==
  [carry  |-> SubSeq(BytesOf(units), Upto(units, Complete(units, q)) + 1, q),
   events |-> AsksOf(First(units, Complete(units, q)))]

\* process leads from the stage where a chunk ended to where the next one ends.
LEMMA ProcessAt ==
  ASSUME NEW units \in Seq(Units), NEW q \in 0..Len(BytesOf(units)),
         NEW p \in 0..Len(BytesOf(units)), q <= p
  PROVE  Process(StageAt(units, q), SubSeq(BytesOf(units), q + 1, p)) = StageAt(units, p)
<1> DEFINE B == BytesOf(units)
           a == Complete(units, q)
           b == Complete(units, p)
           ua == Upto(units, a)
           ub == Upto(units, b)
           v == Between(units, a, b)
           carry == SubSeq(B, ua + 1, q)
           chunk == SubSeq(B, q + 1, p)
           bytes == SubSeq(B, ua + 1, p)
           end == Len(BytesOf(v))
<1>1. /\ Len(units) \in Nat /\ B \in CharSeq /\ Len(B) \in Nat /\ p \in Nat /\ q \in Nat
      /\ q <= p /\ p <= Len(B)
  BY UptoGrows
<1>2. /\ a \in 0..Len(units) /\ ua \in Nat /\ ua <= q
  BY CompleteAt
<1>3. /\ b \in 0..Len(units) /\ ub \in Nat /\ ub <= p
      /\ b < Len(units) => p < ub + Len(units[b + 1].bytes)
      /\ b = Len(units) => p = ub
      /\ \A n \in 0..Len(units) : Upto(units, n) <= p => n <= b
  BY CompleteAt
<1>4. a <= b
  <2>1. ua <= p
    BY <1>1, <1>2
  <2> QED  BY <1>2, <1>3, <2>1
<1> HIDE DEF a, b
<1>5. /\ v \in Seq(Units) /\ end = ub - ua
      /\ \A i \in 1..end : B[ua + i] = BytesOf(v)[i]
      /\ AsksOf(First(units, b)) = AsksOf(First(units, a)) \o AsksOf(v)
  BY <1>2, <1>3, <1>4, BetweenUnits
<1>6. BytesOf(v) \in CharSeq /\ end \in Nat
  BY <1>5, UnitsConcat, StreamFacts
<1> HIDE DEF B, ua, ub, v
<1>7. /\ carry \in CharSeq /\ Len(carry) = q - ua
      /\ \A i \in 1..(q - ua) : carry[i] = B[i + ua]
  <2>1. ua + 1 \in Nat \ {0} /\ ua + 1 <= q + 1 /\ q <= Len(B) /\ q - (ua + 1) + 1 = q - ua
        /\ (ua + 1) - 1 = ua
    BY <1>1, <1>2
  <2> HIDE DEF carry
  <2>2. /\ carry \in CharSeq /\ Len(carry) = q - (ua + 1) + 1
        /\ \A i \in 1..(q - (ua + 1) + 1) : carry[i] = B[i + ((ua + 1) - 1)]
    BY <1>1, <2>1, PartOfChars DEF carry
  <2> QED  BY ONLY <2>1, <2>2
<1>8. /\ chunk \in CharSeq /\ Len(chunk) = p - q
      /\ \A i \in 1..(p - q) : chunk[i] = B[i + q]
  <2>1. q + 1 \in Nat \ {0} /\ q + 1 <= p + 1 /\ p <= Len(B) /\ p - (q + 1) + 1 = p - q
        /\ (q + 1) - 1 = q
    BY <1>1, <1>2
  <2> HIDE DEF chunk
  <2>2. /\ chunk \in CharSeq /\ Len(chunk) = p - (q + 1) + 1
        /\ \A i \in 1..(p - (q + 1) + 1) : chunk[i] = B[i + ((q + 1) - 1)]
    BY <1>1, <2>1, PartOfChars DEF chunk
  <2> QED  BY ONLY <2>1, <2>2
<1>9. /\ bytes \in CharSeq /\ Len(bytes) = p - ua
      /\ \A i \in 1..(p - ua) : bytes[i] = B[i + ua]
  <2>1. ua + 1 \in Nat \ {0} /\ ua + 1 <= p + 1 /\ p <= Len(B) /\ p - (ua + 1) + 1 = p - ua
        /\ (ua + 1) - 1 = ua
    BY <1>1, <1>2
  <2> HIDE DEF bytes
  <2>2. /\ bytes \in CharSeq /\ Len(bytes) = p - (ua + 1) + 1
        /\ \A i \in 1..(p - (ua + 1) + 1) : bytes[i] = B[i + ((ua + 1) - 1)]
    BY <1>1, <2>1, PartOfChars DEF bytes
  <2> QED  BY ONLY <2>1, <2>2
<1> HIDE DEF carry, chunk, bytes, end
<1>10. carry \o chunk = bytes
  <2> DEFINE c == carry \o chunk
  <2>1. /\ c \in CharSeq /\ Len(c) = Len(carry) + Len(chunk)
        /\ \A i \in 1..Len(carry) : c[i] = carry[i]
        /\ \A i \in 1..Len(chunk) : c[Len(carry) + i] = chunk[i]
    BY <1>7, <1>8, StreamConcat
  <2> HIDE DEF c
  <2>2. Len(c) = Len(bytes) /\ Len(bytes) = p - ua /\ p - ua \in Nat
    BY <1>1, <1>2, <1>7, <1>8, <1>9, <2>1
  <2>3. ASSUME NEW i \in 1..(p - ua) PROVE c[i] = bytes[i]
    <3>1. CASE i <= q - ua
      <4>1. i \in 1..(q - ua)
        BY <1>1, <1>2, <3>1
      <4> QED  BY <1>7, <1>9, <2>1, <4>1
    <3>2. CASE ~(i <= q - ua)
      <4>1. i - (q - ua) \in 1..(p - q) /\ (q - ua) + (i - (q - ua)) = i
            /\ (i - (q - ua)) + q = i + ua
        BY <1>1, <1>2, <3>2
      <4>2. c[Len(carry) + (i - (q - ua))] = chunk[i - (q - ua)]
        BY <1>8, <2>1, <4>1
      <4>3. chunk[i - (q - ua)] = B[(i - (q - ua)) + q]
        BY <1>8, <4>1
      <4>4. Len(carry) = q - ua /\ bytes[i] = B[i + ua]
        BY <1>7, <1>9
      <4> QED  BY ONLY <4>1, <4>2, <4>3, <4>4
    <3> QED  BY <3>1, <3>2
  <2>4. c \in Seq(Chars) /\ bytes \in Seq(Chars)
    BY <1>9, <2>1 DEF CharSeq
  <2>5. \A i \in 1..Len(c) : c[i] = bytes[i]
    BY <2>2, <2>3
  <2>6. c = bytes
    BY <2>2, <2>4, <2>5, SeqEqual
  <2> QED  BY <2>6 DEF c
<1>11. \A i \in 1..end : bytes[i] = BytesOf(v)[i]
  <2> SUFFICES ASSUME NEW i \in 1..end PROVE bytes[i] = BytesOf(v)[i]
    OBVIOUS
  <2>1. i \in 1..(p - ua) /\ i + ua = ua + i
    BY <1>1, <1>2, <1>3, <1>5, <1>6
  <2> QED  BY <1>5, <1>9, <2>1
<1>12. end <= Len(bytes) /\ Len(bytes) \in Nat
  BY <1>1, <1>2, <1>3, <1>5, <1>9
<1>13. \/ Len(bytes) = end
       \/ \E u \in Units, r \in Nat :
            /\ r < Len(u.bytes) /\ Len(bytes) = end + r
            /\ \A i \in 1..r : bytes[end + i] = u.bytes[i]
  <2>1. CASE b = Len(units)
    BY <1>1, <1>2, <1>3, <1>5, <1>9, <2>1
  <2>2. CASE b # Len(units)
    <3> DEFINE u == units[b + 1]
               r == p - ub
    <3>1. b < Len(units) /\ b + 1 \in 1..Len(units) /\ (b + 1) - 1 = b
      BY <1>1, <1>3, <2>2
    <3>2. u \in Units /\ r \in Nat
      BY <1>1, <1>3, <3>1
    <3>3. Len(u.bytes) \in Nat
      BY <3>2, UnitType
    <3>4. \A i \in 1..Len(u.bytes) : B[ub + i] = u.bytes[i]
      <4>1. \A i \in 1..Len(units[b + 1].bytes) :
              BytesOf(units)[Upto(units, (b + 1) - 1) + i] = units[b + 1].bytes[i]
        BY <3>1, UnitAt
      <4> QED  BY <3>1, <4>1 DEF B, ub
    <3>5. r < Len(u.bytes)
      BY <1>1, <1>3, <3>1, <3>3
    <3> HIDE DEF u
    <3>6. Len(bytes) = end + r
      BY <1>1, <1>2, <1>3, <1>5, <1>9
    <3>7. ASSUME NEW i \in 1..r PROVE bytes[end + i] = u.bytes[i]
      <4>1. end + i \in 1..(p - ua) /\ (end + i) + ua = ub + i /\ i \in 1..Len(u.bytes)
        BY <1>1, <1>2, <1>3, <1>5, <1>6, <3>2, <3>3, <3>5
      <4>2. bytes[end + i] = B[(end + i) + ua]
        BY <1>9, <4>1
      <4> QED  BY <3>4, <4>1, <4>2
    <3> HIDE DEF r
    <3> QED  BY <3>2, <3>5, <3>6, <3>7
  <2> QED  BY <2>1, <2>2
<1>14. ProcessEnd(bytes) = end
  BY <1>5, <1>11, <1>12, <1>13, CompleteEnd DEF end
<1>15. SubSeq(bytes, 1, end) = BytesOf(v)
  <2> DEFINE c == SubSeq(bytes, 1, end)
  <2>1. 1 \in Nat \ {0} /\ 1 <= end + 1 /\ end - 1 + 1 = end /\ \A i \in 1..end : i + (1 - 1) = i
    BY <1>6
  <2>2. /\ c \in CharSeq /\ Len(c) = end - 1 + 1
        /\ \A i \in 1..(end - 1 + 1) : c[i] = bytes[i + (1 - 1)]
    BY <1>6, <1>9, <1>12, <2>1, PartOfChars
  <2> HIDE DEF c
  <2>3. Len(c) = end /\ \A i \in 1..end : c[i] = bytes[i]
    BY <2>1, <2>2
  <2>4. c \in Seq(Chars) /\ BytesOf(v) \in Seq(Chars) /\ Len(BytesOf(v)) = end
    BY <1>6, <2>2 DEF CharSeq, end
  <2>5. \A i \in 1..Len(c) : c[i] = BytesOf(v)[i]
    BY <1>11, <2>3
  <2>6. c = BytesOf(v)
    BY <2>3, <2>4, <2>5, SeqEqual
  <2> QED  BY <2>6 DEF c
<1>16. SubSeq(bytes, end + 1, Len(bytes)) = SubSeq(B, ub + 1, p)
  <2> DEFINE c == SubSeq(bytes, end + 1, Len(bytes))
             d == SubSeq(B, ub + 1, p)
             k == p - ub
  <2>1. /\ end + 1 \in Nat \ {0} /\ end + 1 <= Len(bytes) + 1 /\ Len(bytes) <= Len(bytes)
        /\ Len(bytes) - (end + 1) + 1 = k /\ (end + 1) - 1 = end /\ k \in Nat
        /\ ub + 1 \in Nat \ {0} /\ ub + 1 <= p + 1 /\ p <= Len(B)
        /\ p - (ub + 1) + 1 = k /\ (ub + 1) - 1 = ub
    BY <1>1, <1>2, <1>3, <1>5, <1>6, <1>9, <1>12
  <2>2. /\ c \in CharSeq /\ Len(c) = Len(bytes) - (end + 1) + 1
        /\ \A i \in 1..(Len(bytes) - (end + 1) + 1) : c[i] = bytes[i + ((end + 1) - 1)]
    BY <1>9, <1>12, <2>1, PartOfChars
  <2>3. /\ d \in CharSeq /\ Len(d) = p - (ub + 1) + 1
        /\ \A i \in 1..(p - (ub + 1) + 1) : d[i] = B[i + ((ub + 1) - 1)]
    BY <1>1, <2>1, PartOfChars
  <2> HIDE DEF c, d
  <2>4. Len(c) = k /\ Len(d) = k /\ \A i \in 1..k : c[i] = bytes[i + end] /\ d[i] = B[i + ub]
    BY <2>1, <2>2, <2>3
  <2>5. ASSUME NEW i \in 1..k PROVE c[i] = d[i]
    <3>1. i + end \in 1..(p - ua) /\ (i + end) + ua = i + ub
      BY <1>1, <1>2, <1>3, <1>5, <1>6
    <3>2. bytes[i + end] = B[(i + end) + ua]
      BY <1>9, <3>1
    <3> QED  BY <2>4, <3>1, <3>2
  <2> HIDE DEF k
  <2>6. c \in Seq(Chars) /\ d \in Seq(Chars)
    BY <2>2, <2>3 DEF CharSeq
  <2>7. \A i \in 1..Len(c) : c[i] = d[i]
    BY <2>4, <2>5
  <2>8. c = d
    BY <2>4, <2>6, <2>7, SeqEqual
  <2> QED  BY <2>8 DEF c, d
<1>17. Events(FromUtf8(BytesOf(v))) = AsksOf(v)
  BY <1>5, CompleteEvents DEF CharsOf
<1>18. StageAt(units, q) = [carry |-> carry, events |-> AsksOf(First(units, a))]
  BY DEF StageAt, carry, B, ua, a
<1>19. StageAt(units, p) = [carry |-> SubSeq(B, ub + 1, p), events |-> AsksOf(First(units, b))]
  BY DEF StageAt, B, ub, b
<1>20. StageAt(units, q).carry = carry /\ StageAt(units, q).events = AsksOf(First(units, a))
  BY <1>18
<1>21. Process(StageAt(units, q), chunk) =
         [carry  |-> SubSeq(bytes, ProcessEnd(bytes) + 1, Len(bytes)),
          events |-> AsksOf(First(units, a))
                       \o Events(FromUtf8(SubSeq(bytes, 1, ProcessEnd(bytes))))]
  BY Zenon, <1>10, <1>20 DEF Process
<1>22. Process(StageAt(units, q), chunk) = StageAt(units, p)
  BY ONLY Zenon, <1>5, <1>14, <1>15, <1>16, <1>17, <1>19, <1>21
<1> QED  BY Zenon, <1>22 DEF chunk, B
\* The stream is read one byte after the other.
AtFirst == [stage |-> [carry |-> <<>>, events |-> <<>>], chunk |-> <<>>]

OneByteMore(x, byte, cut) ==
  LET chunk == Append(x.chunk, byte)
  IN  IF cut THEN [stage |-> Process(x.stage, chunk), chunk |-> <<>>]
      ELSE [x EXCEPT !.chunk = chunk]

\* The function Reading is defined by.
LEMMA ReadingRun ==
  ASSUME NEW bytes, Len(bytes) \in Nat, NEW cuts
  PROVE  LET f == Reading(bytes, cuts)
         IN  /\ f[0] = AtFirst
             /\ \A p \in 1..Len(bytes) : f[p] = OneByteMore(f[p - 1], bytes[p], p \in cuts)
<1> DEFINE start == AtFirst
           Next(x, p) == OneByteMore(x, bytes[p], p \in cuts)
           Is(f, n) == f = [p \in 0..n |-> IF p = 0 THEN start ELSE Next(f[p - 1], p)]
           T == {n \in 0..Len(bytes) : \E f : Is(f, n)}
<1>1. 0 \in T
  <2> HIDE DEF Next, start
  <2>1. Is([p \in 0..0 |-> start], 0) /\ 0 \in 0..Len(bytes)
    OBVIOUS
  <2> HIDE DEF Is
  <2> QED  BY <2>1
<1>2. ASSUME NEW n \in 0..(Len(bytes) - 1), n \in T PROVE n + 1 \in T
  <2> HIDE DEF Next, start
  <2>1. PICK f : Is(f, n)
    BY <1>2
  <2> DEFINE last == Next(f[n], n + 1)
             g == [p \in 0..(n + 1) |-> IF p = n + 1 THEN last ELSE f[p]]
  <2>2. \A p \in 0..n : g[p] = f[p] /\ f[p] = IF p = 0 THEN start ELSE Next(f[p - 1], p)
    BY <2>1
  <2>3. g[n + 1] = last /\ (n + 1) - 1 = n /\ n + 1 # 0
    OBVIOUS
  <2>4. g = [p \in 0..(n + 1) |-> g[p]]
    OBVIOUS
  <2> HIDE DEF g
  <2>5. ASSUME NEW p \in 0..(n + 1) PROVE g[p] = IF p = 0 THEN start ELSE Next(g[p - 1], p)
    <3>1. CASE p = n + 1
      <4>1. g[n] = f[n]
        BY <2>2
      <4> QED  BY <2>3, <3>1, <4>1
    <3>2. CASE p \in 0..n
      <4>1. p # 0 => p - 1 \in 0..n
        BY <3>2
      <4> QED  BY <2>2, <3>2, <4>1
    <3> QED  BY <3>1, <3>2
  <2>6. Is(g, n + 1)
    BY <2>4, <2>5
  <2>7. n + 1 \in 0..Len(bytes)
    OBVIOUS
  <2> HIDE DEF Is
  <2> QED  BY <2>6, <2>7
<1>3. \E f : Is(f, Len(bytes))
  <2>1. 0..Len(bytes) \subseteq T /\ Len(bytes) \in 0..Len(bytes)
    <3> HIDE DEF T
    <3>1. Len(bytes) \in Nat
      OBVIOUS
    <3>2. 0..Len(bytes) \subseteq T
      BY ONLY <3>1, <1>1, <1>2, UpToInduction
    <3> QED  BY <3>1, <3>2
  <2> HIDE DEF Is
  <2> QED  BY <2>1
<1> DEFINE c == CHOOSE f : Is(f, Len(bytes))
<1>4. Is(c, Len(bytes))
  <2> HIDE DEF Is
  <2> QED  BY <1>3
<1>5. Reading(bytes, cuts) = c
  BY Zenon DEF Reading, AtFirst, OneByteMore
<1> HIDE DEF c
<1>6. c[0] = start /\ \A p \in 1..Len(bytes) : c[p] = Next(c[p - 1], p)
  <2> HIDE DEF Next, start
  <2>1. \A p \in 0..Len(bytes) : c[p] = IF p = 0 THEN start ELSE Next(c[p - 1], p)
    BY <1>4
  <2>2. 0 \in 0..Len(bytes) /\ \A p \in 1..Len(bytes) : p \in 0..Len(bytes) /\ p # 0
    OBVIOUS
  <2> QED  BY <2>1, <2>2
<1> QED  BY Zenon, <1>5, <1>6

\* The last place up to p where the stream was cut.
LastCut(cuts, p) == Max({c \in cuts \cup {0} : c <= p})

\* It moves to where the stream is cut, and stays between.
LEMMA LastCutAt ==
  ASSUME NEW n \in Nat, NEW cuts \in SUBSET (1..n)
  PROVE  /\ LastCut(cuts, 0) = 0
         /\ \A p \in 0..n : LastCut(cuts, p) \in 0..p
         /\ \A p \in 1..n : LastCut(cuts, p) = IF p \in cuts THEN p ELSE LastCut(cuts, p - 1)
<1> DEFINE S(p) == {c \in cuts \cup {0} : c <= p}
<1>1. ASSUME NEW p \in 0..n
      PROVE  /\ LastCut(cuts, p) \in S(p) /\ LastCut(cuts, p) \in 0..p
             /\ \A y \in S(p) : LastCut(cuts, p) >= y
  <2>1. S(p) \in SUBSET (0..p) /\ 0 \in S(p) /\ p \in Nat
    <3>1. p \in Nat /\ \A c \in cuts \cup {0} : c \in Nat
      OBVIOUS
    <3>2. \A c \in cuts \cup {0} : c <= p => c \in 0..p
      BY <3>1
    <3>3. S(p) \in SUBSET (0..p)
      BY Zenon, <3>2
    <3>4. 0 \in S(p)
      BY <3>1
    <3> QED  BY ONLY <3>1, <3>3, <3>4
  <2>2. S(p) # {}
    BY <2>1
  <2>3. LastCut(cuts, p) = Max(S(p))
    BY DEF LastCut
  <2> HIDE DEF S
  <2>4. Max(S(p)) \in S(p) /\ \A y \in S(p) : Max(S(p)) >= y
    BY <2>1, <2>2, LargestUpTo
  <2> QED  BY <2>1, <2>3, <2>4
<1>2. LastCut(cuts, 0) = 0
  BY <1>1
<1>3. ASSUME NEW p \in 1..n
      PROVE  LastCut(cuts, p) = IF p \in cuts THEN p ELSE LastCut(cuts, p - 1)
  <2>1. p \in 0..n /\ p - 1 \in 0..n
    OBVIOUS
  <2>2. LastCut(cuts, p) \in S(p) /\ LastCut(cuts, p) \in 0..p /\ \A y \in S(p) : LastCut(cuts, p) >= y
    BY <1>1, <2>1
  <2>3. CASE p \in cuts
    <3>1. p \in S(p)
      BY <2>3
    <3> QED  BY <2>2, <2>3, <3>1
  <2>4. CASE p \notin cuts
    <3>1. S(p) = S(p - 1)
      <4>1. \A c \in cuts \cup {0} : c \in Nat /\ c # p
        BY <2>4
      <4>2. \A c \in cuts \cup {0} : c <= p <=> c <= p - 1
        BY <4>1
      <4> QED  BY Zenon, <4>2
    <3>2. LastCut(cuts, p) = LastCut(cuts, p - 1)
      BY <3>1 DEF LastCut
    <3> QED  BY <2>4, <3>2
  <2> QED  BY <2>3, <2>4
<1> QED  BY <1>1, <1>2, <1>3

\* However it is cut, a chunk that ends at p leaves the same stage.
THEOREM AnyCuts ==
  ASSUME NEW units \in Seq(Units), NEW cuts \in SUBSET (1..Len(BytesOf(units)))
  PROVE  CutsDoNotMatter(units, cuts)
<1> DEFINE B == BytesOf(units)
           n == Len(B)
           Since(p) == LastCut(cuts, p)
           Open(p) == SubSeq(B, Since(p) + 1, p)
           State(p) == [stage |-> StageAt(units, Since(p)), chunk |-> Open(p)]
           f == Reading(B, cuts)
           g == [p \in 0..n |-> State(p)]
<1>1. B \in CharSeq /\ n \in Nat /\ Upto(units, 0) = 0 /\ Len(units) \in Nat
  BY UptoGrows
<1>2. /\ Since(0) = 0 /\ \A p \in 0..n : Since(p) \in 0..p
      /\ \A p \in 1..n : Since(p) = IF p \in cuts THEN p ELSE Since(p - 1)
  <2>1. n \in Nat /\ cuts \in SUBSET (1..n)
    BY <1>1
  <2> HIDE DEF n
  <2> QED  BY <2>1, LastCutAt
<1>3. /\ f[0] = AtFirst
      /\ \A p \in 1..n : f[p] = OneByteMore(f[p - 1], B[p], p \in cuts)
  <2>1. Len(B) \in Nat
    BY <1>1
  <2> HIDE DEF B
  <2> QED  BY <2>1, ReadingRun
<1> HIDE DEF f
<1>4. State(0) = AtFirst
  <2> DEFINE w == Complete(units, 0)
  <2>1. w \in 0..Len(units) /\ Upto(units, w) \in Nat /\ Upto(units, w) <= 0
    <3>1. 0 \in 0..Len(BytesOf(units))
      BY <1>1
    <3> QED  BY <3>1, CompleteAt
  <2>2. w = 0
    <3>1. Upto(units, w) >= w
      BY <2>1, UptoGrows
    <3> QED  BY <2>1, <3>1
  <2> HIDE DEF w
  <2>3. First(units, 0) = <<>> /\ AsksOf(First(units, 0)) = <<>>
    <3>1. First(units, 0) = <<>>
      BY PrefixGrows DEF First
    <3> QED  BY <3>1, UnitsConcat
  <2>4. SubSeq(B, 0 + 1, 0) = <<>>
    <3>1. SubSeq(B, 1, 0) = <<>>
      BY <1>1, PrefixGrows DEF CharSeq
    <3> QED  BY <3>1
  <2> HIDE DEF B
  <2>5. Upto(units, w) = 0 /\ AsksOf(First(units, w)) = <<>>
    BY <1>1, <2>2, <2>3
  <2>6. StageAt(units, 0) = [carry |-> SubSeq(B, Upto(units, w) + 1, 0), events |-> AsksOf(First(units, w))]
    BY DEF StageAt, B, w
  <2>7. StageAt(units, 0) = [carry |-> <<>>, events |-> <<>>]
    BY <2>4, <2>5, <2>6
  <2>8. Open(0) = <<>>
    BY <1>2, <2>4
  <2> QED  BY <1>2, <2>7, <2>8 DEF AtFirst
<1>5. ASSUME NEW p \in 1..n
      PROVE  /\ Append(Open(p - 1), B[p]) = SubSeq(B, Since(p - 1) + 1, p)
             /\ p \in cuts => Process(StageAt(units, Since(p - 1)), SubSeq(B, Since(p - 1) + 1, p))
                                = StageAt(units, p)
             /\ p \in cuts => Open(p) = <<>>
  <2>1. p - 1 \in 0..n /\ p \in 0..n /\ Since(p - 1) \in 0..(p - 1)
    BY <1>2
  <2>2. Since(p - 1) \in 0..n /\ Since(p - 1) <= p
    BY <1>1, <2>1
  <2>3. Process(StageAt(units, Since(p - 1)), SubSeq(B, Since(p - 1) + 1, p)) = StageAt(units, p)
    BY <2>1, <2>2, ProcessAt
  <2>4. p \in cuts => Open(p) = <<>>
    <3>1. ASSUME p \in cuts PROVE Open(p) = <<>>
      <4>1. Since(p) = p
        BY <1>2, <3>1
      <4>2. SubSeq(B, p + 1, p) = <<>>
        BY <1>1 DEF CharSeq
      <4> QED  BY <4>1, <4>2
    <3> QED  BY <3>1
  <2> DEFINE q == Since(p - 1)
             x == SubSeq(B, q + 1, p - 1)
             y == SubSeq(B, q + 1, p)
  <2>5. Append(x, B[p]) = y
    <3>1. q \in Nat /\ q <= p - 1 /\ p <= n /\ p \in Nat
      BY <2>1
    <3> HIDE DEF q, n
    <3>2. B \in Seq(Chars) /\ n = Len(B)
      BY <1>1 DEF CharSeq, n
    <3> HIDE DEF B
    <3> QED  BY <3>1, <3>2
  <2> QED  BY <2>3, <2>4, <2>5
<1>6. ASSUME NEW p \in 1..n
      PROVE  State(p) = OneByteMore(State(p - 1), B[p], p \in cuts)
  <2>1. State(p - 1).stage = StageAt(units, Since(p - 1)) /\ State(p - 1).chunk = Open(p - 1)
    OBVIOUS
  <2>2. CASE p \in cuts
    <3>1. Since(p) = p
      BY <1>2, <2>2
    <3>2. State(p) = [stage |-> StageAt(units, p), chunk |-> <<>>]
      BY <1>5, <2>2, <3>1
    <3> HIDE DEF State, Open, Since, B
    <3> QED  BY <1>5, <2>1, <2>2, <3>2 DEF OneByteMore
  <2>3. CASE p \notin cuts
    <3>1. Since(p) = Since(p - 1)
      BY <1>2, <2>3
    <3>2. Open(p) = Append(Open(p - 1), B[p])
      BY <1>5, <3>1
    <3> HIDE DEF Open, Since, B
    <3> QED  BY <2>3, <3>1, <3>2 DEF OneByteMore
  <2> QED  BY <2>2, <2>3
<1> HIDE DEF State
<1>7. f[0] = g[0]
  BY <1>1, <1>3, <1>4
<1>8. \A p \in 1..n : f[p - 1] = g[p - 1] => f[p] = g[p]
  <2> SUFFICES ASSUME NEW p \in 1..n, f[p - 1] = g[p - 1] PROVE f[p] = g[p]
    OBVIOUS
  <2>1. p \in 0..n /\ p - 1 \in 0..n
    OBVIOUS
  <2>2. g[p] = State(p) /\ g[p - 1] = State(p - 1)
    BY <2>1
  <2> HIDE DEF g
  <2>3. f[p - 1] = State(p - 1)
    BY <2>2
  <2>4. f[p] = OneByteMore(f[p - 1], B[p], p \in cuts)
    BY <1>3
  <2> QED  BY ONLY Zenon, <1>6, <2>2, <2>3, <2>4
<1>9. ASSUME NEW p \in cuts PROVE f[p].stage = StageAt(units, p)
  <2>1. \A k \in 0..n : f[k] = g[k]
    <3> DEFINE S == {k \in 0..n : f[k] = g[k]}
    <3>1. n \in Nat
      BY <1>1
    <3> HIDE DEF f, g, n, B
    <3>2. 0 \in S
      BY <3>1, <1>7
    <3>3. ASSUME NEW k \in 0..(n - 1), k \in S PROVE k + 1 \in S
      <4>1. k + 1 \in 1..n /\ (k + 1) - 1 = k /\ k + 1 \in 0..n /\ f[k] = g[k]
        BY <3>1, <3>3
      <4>2. f[(k + 1) - 1] = g[(k + 1) - 1] => f[k + 1] = g[k + 1]
        BY <4>1, <1>8
      <4> QED  BY <4>1, <4>2
    <3>4. 0..n \subseteq S
      <4> HIDE DEF S
      <4> QED  BY <3>1, <3>2, <3>3, UpToInduction
    <3> QED  BY <3>4
  <2>2. p \in 1..n /\ p \in 0..n
    OBVIOUS
  <2>3. f[p] = State(p)
    BY <2>1, <2>2
  <2>4. Since(p) = p
    BY <1>2, <2>2
  <2> QED  BY <2>3, <2>4 DEF State
<1>10. ASSUME NEW p \in cuts
       PROVE  LET stage == Reading(BytesOf(units), cuts)[p].stage
                  whole == Max({k \in 0..Len(units) : Len(BytesOf(SubSeq(units, 1, k))) <= p})
              IN  /\ stage.events = AsksOf(SubSeq(units, 1, whole))
                  /\ stage.carry = SubSeq(BytesOf(units), Len(BytesOf(SubSeq(units, 1, whole))) + 1, p)
  <2>1. Reading(BytesOf(units), cuts)[p].stage = StageAt(units, p)
    BY <1>9 DEF f
  <2>2. Max({k \in 0..Len(units) : Len(BytesOf(SubSeq(units, 1, k))) <= p}) = Complete(units, p)
    BY DEF Complete, Upto, First
  <2>3. StageAt(units, p).events = AsksOf(SubSeq(units, 1, Complete(units, p)))
    BY DEF StageAt, First
  <2>4. StageAt(units, p).carry
          = SubSeq(BytesOf(units), Len(BytesOf(SubSeq(units, 1, Complete(units, p)))) + 1, p)
    BY DEF StageAt, Upto, First
  <2> QED  BY ONLY Zenon, <2>1, <2>2, <2>3, <2>4
<1> QED  BY Zenon, <1>10 DEF CutsDoNotMatter

-----------------------------------------------------------------------------
(* What a segment is parsed as.                                            *)

\* The recursion Value is defined by.
LEMMA ValueRun ==
  ASSUME NEW digits, Len(digits) \in Nat
  PROVE  \E f : /\ f[0] = 0
                /\ \A i \in 1..Len(digits) : f[i] = OneDigitMore(f[i - 1], digits[i])
                /\ Value(digits) = f[Len(digits)]
<1> DEFINE Is(f, n) == f = [i \in 0..n |-> IF i = 0 THEN 0 ELSE OneDigitMore(f[i - 1], digits[i])]
           T == {n \in 0..Len(digits) : \E f : Is(f, n)}
<1>1. 0 \in T
  <2>1. Is([i \in 0..0 |-> 0], 0) /\ 0 \in 0..Len(digits)
    OBVIOUS
  <2> HIDE DEF Is
  <2> QED  BY <2>1
<1>2. ASSUME NEW n \in 0..(Len(digits) - 1), n \in T PROVE n + 1 \in T
  <2>1. PICK f : Is(f, n)
    BY <1>2
  <2> DEFINE last == OneDigitMore(f[n], digits[n + 1])
             g == [i \in 0..(n + 1) |-> IF i = n + 1 THEN last ELSE f[i]]
  <2>2. \A i \in 0..n : g[i] = f[i] /\ f[i] = IF i = 0 THEN 0 ELSE OneDigitMore(f[i - 1], digits[i])
    BY <2>1
  <2>3. g[n + 1] = last /\ (n + 1) - 1 = n /\ n + 1 # 0
    OBVIOUS
  <2>4. g = [i \in 0..(n + 1) |-> g[i]]
    OBVIOUS
  <2> HIDE DEF g
  <2>5. ASSUME NEW i \in 0..(n + 1) PROVE g[i] = IF i = 0 THEN 0 ELSE OneDigitMore(g[i - 1], digits[i])
    <3>1. CASE i = n + 1
      <4>1. g[n] = f[n]
        BY <2>2
      <4> QED  BY <2>3, <3>1, <4>1
    <3>2. CASE i \in 0..n
      <4>1. i # 0 => i - 1 \in 0..n
        BY <3>2
      <4> QED  BY <2>2, <3>2, <4>1
    <3> QED  BY <3>1, <3>2
  <2>6. Is(g, n + 1)
    BY <2>4, <2>5
  <2>7. n + 1 \in 0..Len(digits)
    OBVIOUS
  <2> HIDE DEF Is
  <2> QED  BY <2>6, <2>7
<1>3. \E f : Is(f, Len(digits))
  <2>1. 0..Len(digits) \subseteq T /\ Len(digits) \in 0..Len(digits)
    <3> HIDE DEF T
    <3>1. Len(digits) \in Nat
      OBVIOUS
    <3>2. 0..Len(digits) \subseteq T
      BY ONLY <3>1, <1>1, <1>2, UpToInduction
    <3> QED  BY <3>1, <3>2
  <2> HIDE DEF Is
  <2> QED  BY <2>1
<1> DEFINE c == CHOOSE f : Is(f, Len(digits))
<1>4. Is(c, Len(digits))
  <2> HIDE DEF Is
  <2> QED  BY <1>3
<1>5. Value(digits) = c[Len(digits)]
  BY Zenon DEF Value
<1> HIDE DEF c
<1>6. c[0] = 0 /\ \A i \in 1..Len(digits) : c[i] = OneDigitMore(c[i - 1], digits[i])
  <2>1. \A i \in 0..Len(digits) : c[i] = IF i = 0 THEN 0 ELSE OneDigitMore(c[i - 1], digits[i])
    BY <1>4
  <2>2. 0 \in 0..Len(digits) /\ \A i \in 1..Len(digits) : i \in 0..Len(digits) /\ i # 0
    OBVIOUS
  <2> QED  BY <2>1, <2>2
<1> QED  BY <1>5, <1>6

\* Numbers of one digit and of two.
LEMMA ValueShort ==
  ASSUME NEW a \in Digits, NEW b \in Digits
  PROVE  /\ Value(<<a>>) = a - 48
         /\ Value(<<a, b>>) = (a - 48) * 10 + (b - 48)
<1>0. MaxNumber \in Nat /\ MaxNumber >= 12 /\ a \in 48..57 /\ b \in 48..57
  BY PressAssumption DEF Digits
<1>1. Value(<<a>>) = a - 48
  <2> DEFINE s == <<a>>
  <2>1. Len(s) = 1 /\ s[1] = a
    OBVIOUS
  <2> HIDE DEF s
  <2>2. PICK f : /\ f[0] = 0 /\ \A i \in 1..Len(s) : f[i] = OneDigitMore(f[i - 1], s[i])
                 /\ Value(s) = f[Len(s)]
    BY <2>1, ValueRun
  <2>3. f[1] = OneDigitMore(f[1 - 1], s[1]) /\ 1 - 1 = 0
    BY <2>1, <2>2
  <2>4. OneDigitMore(0, a) = a - 48
    BY <1>0 DEF OneDigitMore
  <2>5. Value(s) = a - 48
    BY ONLY <2>1, <2>2, <2>3, <2>4
  <2> QED  BY <2>5 DEF s
<1>2. Value(<<a, b>>) = (a - 48) * 10 + (b - 48)
  <2> DEFINE s == <<a, b>>
  <2>1. Len(s) = 2 /\ s[1] = a /\ s[2] = b
    OBVIOUS
  <2> HIDE DEF s
  <2>2. PICK f : /\ f[0] = 0 /\ \A i \in 1..Len(s) : f[i] = OneDigitMore(f[i - 1], s[i])
                 /\ Value(s) = f[Len(s)]
    BY <2>1, ValueRun
  <2>3. f[1] = OneDigitMore(f[1 - 1], s[1]) /\ 1 - 1 = 0 /\ f[2] = OneDigitMore(f[2 - 1], s[2]) /\ 2 - 1 = 1
    BY <2>1, <2>2
  <2>4. OneDigitMore(0, a) = a - 48 /\ OneDigitMore(a - 48, b) = (a - 48) * 10 + (b - 48)
    BY <1>0 DEF OneDigitMore
  <2>5. Value(s) = (a - 48) * 10 + (b - 48)
    BY ONLY <2>1, <2>2, <2>3, <2>4
  <2> QED  BY <2>5 DEF s
<1> QED  BY <1>1, <1>2

\* A segment without its digits.
LEMMA BareSegment ==
  ASSUME NEW name, NEW chars, NEW digits
  PROVE  [Segment(name, chars, digits) EXCEPT !.digits = <<>>] = Segment(name, chars, <<>>)
BY DEF Segment

\* A key is a character, has a name or is a function key.
LEMMA ThreeKinds ==
  ASSUME NEW key \in Keys
  PROVE  \/ key.kind = "Char" /\ key.code \in Printables /\ key = Char(key.code)
         \/ key.kind = "Named" /\ key.name \in Names /\ key = Named(key.name)
         \/ key.kind = "F" /\ key.code \in Functions /\ key = F(key.code)
BY DEF Keys, Char, Named, F

\* A key is none of the others, and never no key.
LEMMA KeyFacts ==
  /\ \A c : Char(c).kind = "Char" /\ Char(c).code = c /\ Char(c) # NoKey
  /\ \A n : Named(n).kind = "Named" /\ Named(n).name = n /\ Named(n) # NoKey
  /\ \A n : F(n).kind = "F" /\ F(n).code = n /\ F(n) # NoKey
  /\ NoKey.kind = "none"
BY DEF Char, Named, F, NoKey

\* A name is not empty.
LEMMA NotNames == "" \notin Names
BY DEF Names, LetterKeys, TildeKeys, ByteKeys

\* A press without a count happens once.
LEMMA SmallestCount == Min({1, MaxRepeat}) = 1 /\ 1 \in 1..MaxNumber
BY PressAssumption DEF Min

\* A count, and the key before it.
Counted(key, digits) ==
  LET count == IF digits = <<>> THEN 1 ELSE Value(digits)
  IN  IF count \in 1..MaxNumber THEN <<key, Min({count, MaxRepeat})>> ELSE <<NoKey, 0>>

\* A name and a count.
LEMMA NamedParsed ==
  ASSUME NEW n \in Names, NEW digits \in Seq(Digits)
  PROVE  ParseKeyWithCount(Segment(n, <<>>, digits)) = Counted(Named(n), digits)
<1> DEFINE s == Segment(n, <<>>, digits)
           bare == Segment(n, <<>>, <<>>)
<1>1. /\ s.name = n /\ s.chars = <<>> /\ s.digits = digits /\ [s EXCEPT !.digits = <<>>] = bare
      /\ bare.name = n /\ bare.chars = <<>> /\ bare.digits = <<>>
  <2>1. s.name = n /\ s.chars = <<>> /\ s.digits = digits
    BY DEF Segment
  <2>2. bare.name = n /\ bare.chars = <<>> /\ bare.digits = <<>>
    BY DEF Segment
  <2> QED  BY <2>1, <2>2, BareSegment, Zenon
<1>2. n # "" /\ <<>> # <<102>>
  BY NotNames
<1> HIDE DEF s, bare
<1>3. ParseKeyName(bare) = Named(n)
  BY <1>1, <1>2 DEF ParseKeyName
<1>4. ParseKeyName(s) = IF digits = <<>> THEN Named(n) ELSE NoKey
  BY <1>1, <1>2 DEF ParseKeyName
<1>5. HasWord(s)
  BY <1>1, <1>2 DEF HasWord
<1>6. CASE digits = <<>>
  <2>1. ParseKeyWithCount(s) = <<Named(n), 1>>
    BY <1>4, <1>6, KeyFacts DEF ParseKeyWithCount
  <2>2. Counted(Named(n), digits) = <<Named(n), 1>>
    BY <1>6, SmallestCount DEF Counted
  <2> QED  BY <2>1, <2>2 DEF s
<1>7. CASE digits # <<>>
  <2>1. ParseKeyName(s) = NoKey
    BY <1>4, <1>7
  <2>2. ParseKeyWithCount(s) =
          IF Value(digits) \notin 1..MaxNumber THEN <<NoKey, 0>>
          ELSE <<Named(n), Min({Value(digits), MaxRepeat})>>
    BY <1>1, <1>3, <1>5, <1>7, <2>1 DEF ParseKeyWithCount
  <2> QED  BY <1>7, <2>2 DEF Counted, s
<1> QED  BY <1>6, <1>7

\* A character and a count, and the letter f alone.
LEMMA CharParsed ==
  ASSUME NEW c \in Printables \ Digits, NEW digits \in Seq(Digits),
         digits # <<>> => c # 102
  PROVE  ParseKeyWithCount(Segment("", <<c>>, digits)) = Counted(Char(c), digits)
<1> DEFINE s == Segment("", <<c>>, digits)
           bare == Segment("", <<c>>, <<>>)
<1>1. /\ s.name = "" /\ s.chars = <<c>> /\ s.digits = digits /\ [s EXCEPT !.digits = <<>>] = bare
      /\ bare.name = "" /\ bare.chars = <<c>> /\ bare.digits = <<>>
  <2>1. s.name = "" /\ s.chars = <<c>> /\ s.digits = digits
    BY DEF Segment
  <2>2. bare.name = "" /\ bare.chars = <<c>> /\ bare.digits = <<>>
    BY DEF Segment
  <2> QED  BY <2>1, <2>2, BareSegment, Zenon
<1>2. /\ <<c>> # <<>> /\ (c # 102 => <<c>> # <<102>>)
      /\ Len(<<c>> \o <<>>) = 1 /\ (<<c>> \o <<>>)[1] = c
      /\ digits # <<>> => Len(<<c>> \o digits) # 1
  <2>1. digits # <<>> => Len(digits) \in Nat \ {0}
    OBVIOUS
  <2>2. Len(<<c>> \o digits) = 1 + Len(digits) /\ Len(digits) \in Nat
    <3>1. <<c>> \in Seq(Printables) /\ Len(<<c>>) = 1
      OBVIOUS
    <3> QED  BY <3>1
  <2>3. digits # <<>> => Len(<<c>> \o digits) # 1
    BY <2>1, <2>2
  <2>4. <<c>> # <<>> /\ (c # 102 => <<c>> # <<102>>)
    OBVIOUS
  <2>5. Len(<<c>> \o <<>>) = 1 /\ (<<c>> \o <<>>)[1] = c
    OBVIOUS
  <2> QED  BY <2>3, <2>4, <2>5
<1> HIDE DEF s, bare
<1>3. ParseKeyName(bare) = Char(c)
  BY <1>1, <1>2 DEF ParseKeyName, Codes
<1>4. digits # <<>> => ParseKeyName(s) = NoKey
  BY <1>1, <1>2, NotNames DEF ParseKeyName, Codes
<1>5. HasWord(s)
  BY <1>1, <1>2 DEF HasWord
<1>6. CASE digits = <<>>
  <2>1. s = bare
    BY <1>6 DEF s, bare
  <2>2. ParseKeyWithCount(s) = <<Char(c), 1>>
    BY <1>3, <2>1, KeyFacts DEF ParseKeyWithCount
  <2>3. Counted(Char(c), digits) = <<Char(c), 1>>
    BY <1>6, SmallestCount DEF Counted
  <2> QED  BY <2>2, <2>3 DEF s
<1>7. CASE digits # <<>>
  <2>1. ParseKeyName(s) = NoKey
    BY <1>4, <1>7
  <2>2. ParseKeyWithCount(s) =
          IF Value(digits) \notin 1..MaxNumber THEN <<NoKey, 0>>
          ELSE <<Char(c), Min({Value(digits), MaxRepeat})>>
    BY <1>1, <1>3, <1>5, <1>7, <2>1 DEF ParseKeyWithCount
  <2> QED  BY <1>7, <2>2 DEF Counted, s
<1> QED  BY <1>6, <1>7

\* A digit alone is that digit.
LEMMA DigitParsed ==
  ASSUME NEW c \in Digits
  PROVE  ParseKeyWithCount(Segment("", <<>>, <<c>>)) = Counted(Char(c), <<>>)
<1> DEFINE s == Segment("", <<>>, <<c>>)
<1>1. s.name = "" /\ s.chars = <<>> /\ s.digits = <<c>>
  BY DEF Segment
<1>2. Len(<<>> \o <<c>>) = 1 /\ (<<>> \o <<c>>)[1] = c
  OBVIOUS
<1> HIDE DEF s
<1>3. ParseKeyName(s) = Char(c)
  BY <1>1, <1>2 DEF ParseKeyName, Codes
<1>4. ParseKeyWithCount(s) = <<Char(c), 1>>
  BY <1>3, KeyFacts DEF ParseKeyWithCount
<1>5. Counted(Char(c), <<>>) = <<Char(c), 1>>
  BY SmallestCount DEF Counted
<1> QED  BY <1>4, <1>5 DEF s

\* An f and the number of a function key are that key.
LEMMA FunctionParsed ==
  ASSUME NEW n \in Functions
  PROVE  LET digits == IF n < 10 THEN <<48 + n>> ELSE <<49, 38 + n>>
         IN  ParseKeyWithCount(Segment("", <<102>>, digits)) = Counted(F(n), <<>>)
<1> DEFINE digits == IF n < 10 THEN <<48 + n>> ELSE <<49, 38 + n>>
           s == Segment("", <<102>>, digits)
<1>0. n \in 1..12
  BY DEF Functions
<1>1. s.name = "" /\ s.chars = <<102>> /\ s.digits = digits
  BY DEF Segment
<1>2. Value(digits) = n
  <2>1. CASE n < 10
    <3>1. 48 + n \in Digits /\ (48 + n) - 48 = n
      BY <1>0, <2>1 DEF Digits
    <3>2. Value(<<48 + n>>) = (48 + n) - 48
      BY <3>1, ValueShort
    <3> QED  BY <2>1, <3>1, <3>2
  <2>2. CASE ~(n < 10)
    <3>1. 38 + n \in Digits /\ 49 \in Digits /\ (49 - 48) * 10 + ((38 + n) - 48) = n
      BY <1>0, <2>2 DEF Digits
    <3>2. Value(<<49, 38 + n>>) = (49 - 48) * 10 + ((38 + n) - 48)
      BY <3>1, ValueShort
    <3> QED  BY <2>2, <3>1, <3>2
  <2> QED  BY <2>1, <2>2
<1>3. Len(<<102>> \o digits) # 1
  <2>1. CASE n < 10
    <3>1. Len(<<102>> \o <<48 + n>>) = 2
      OBVIOUS
    <3> QED  BY <2>1, <3>1
  <2>2. CASE ~(n < 10)
    <3>1. Len(<<102>> \o <<49, 38 + n>>) = 3
      OBVIOUS
    <3> QED  BY <2>2, <3>1
  <2> QED  BY <2>1, <2>2
<1> HIDE DEF s, digits
<1>4. ParseKeyName(s) = F(n)
  BY <1>1, <1>2, <1>3 DEF ParseKeyName, Codes
<1>5. ParseKeyWithCount(s) = <<F(n), 1>>
  BY <1>4, KeyFacts DEF ParseKeyWithCount
<1>6. Counted(F(n), <<>>) = <<F(n), 1>>
  BY SmallestCount DEF Counted
<1> QED  BY <1>5, <1>6 DEF s, digits

-----------------------------------------------------------------------------
(* What the modifiers are parsed as.                                       *)

\* Which segments of these forms are the same.
LEMMA AliasFields ==
  /\ \A n, o : Name(n) = Name(o) => n = o
  /\ \A c, d : Letter(c) = Letter(d) => c = d
  /\ \A n, c : n # "" => Name(n) # Letter(c)
  /\ \A n : n # "" => Name(n) # Empty
  /\ \A c : Letter(c) # Empty
<1>1. /\ \A n : Name(n).name = n
      /\ \A c : Letter(c).name = "" /\ Letter(c).chars = <<c>>
      /\ Empty.name = "" /\ Empty.chars = <<>>
  BY DEF Name, Letter, Empty, Segment
<1>2. /\ \A c, d : <<c>> = <<d>> => c = d
      /\ \A c : <<c>> # <<>>
  OBVIOUS
<1>3. ASSUME NEW n, NEW o, Name(n) = Name(o) PROVE n = o
  <2>1. Name(n).name = n /\ Name(o).name = o
    BY <1>1
  <2> QED  BY <1>3, <2>1
<1>4. ASSUME NEW c, NEW d, Letter(c) = Letter(d) PROVE c = d
  <2>1. Letter(c).chars = <<c>> /\ Letter(d).chars = <<d>>
    BY <1>1
  <2>2. <<c>> = <<d>>
    BY <1>4, <2>1
  <2> QED  BY <1>2, <2>2
<1>5. ASSUME NEW n, NEW c, n # "" PROVE Name(n) # Letter(c)
  <2>1. Name(n).name = n /\ Letter(c).name = ""
    BY <1>1
  <2> QED  BY <1>5, <2>1
<1>6. ASSUME NEW n, n # "" PROVE Name(n) # Empty
  <2>1. Name(n).name = n
    BY <1>1
  <2> QED  BY <1>1, <1>6, <2>1
<1>7. ASSUME NEW c PROVE Letter(c) # Empty
  <2>1. Letter(c).chars = <<c>> /\ <<c>> # <<>>
    BY <1>1, <1>2
  <2> QED  BY <1>1, <2>1
<1> QED  BY <1>3, <1>4, <1>5, <1>6, <1>7

\* Part of AliasFields.
LEMMA LettersDiffer == \A c, d : Letter(c) = Letter(d) => c = d
BY AliasFields

\* A name of one modifier is no name of another, and is never empty.
LEMMA AliasFacts ==
  ASSUME NEW m \in Modifiers, NEW a \in Aliases[m]
  PROVE  a # Empty /\ \A other \in Modifiers : a \in Aliases[other] => other = m
<1>1. /\ Aliases["ctrl"] = {Name("ctrl"), Name("control"), Letter(99)}
      /\ Aliases["alt"] = {Name("alt"), Name("meta"), Name("opt"), Name("option"), Letter(97), Letter(109)}
      /\ Aliases["shift"] = {Name("shift"), Letter(115)}
  BY DEF Aliases
<1>2. Modifiers = {"ctrl", "alt", "shift"}
  BY DEF Modifiers
<1>3. /\ Name("ctrl") # Empty /\ Name("control") # Empty /\ Name("alt") # Empty /\ Name("meta") # Empty
      /\ Name("opt") # Empty /\ Name("option") # Empty /\ Name("shift") # Empty
      /\ Letter(99) # Empty /\ Letter(97) # Empty /\ Letter(109) # Empty /\ Letter(115) # Empty
  BY AliasFields
<1>4. a # Empty
  BY ONLY <1>1, <1>2, <1>3, m \in Modifiers, a \in Aliases[m]
<1>5. \A b \in Aliases["ctrl"], c \in Aliases["alt"] : b # c
  <2>1. /\ Name("ctrl") # Name("alt") /\ Name("ctrl") # Name("meta") /\ Name("ctrl") # Name("opt")
       /\ Name("ctrl") # Name("option") /\ Name("control") # Name("alt") /\ Name("control") # Name("meta")
       /\ Name("control") # Name("opt") /\ Name("control") # Name("option")
    BY AliasFields
  <2>2. /\ Name("ctrl") # Letter(97) /\ Name("ctrl") # Letter(109) /\ Name("control") # Letter(97)
       /\ Name("control") # Letter(109) /\ Name("alt") # Letter(99) /\ Name("meta") # Letter(99)
       /\ Name("opt") # Letter(99) /\ Name("option") # Letter(99)
    BY AliasFields
  <2>3. Letter(99) # Letter(97) /\ Letter(99) # Letter(109)
    BY LettersDiffer
  <2> QED  BY ONLY <1>1, <2>1, <2>2, <2>3
<1>6. \A b \in Aliases["ctrl"], c \in Aliases["shift"] : b # c
  <2>1. Name("ctrl") # Name("shift") /\ Name("control") # Name("shift")
    BY AliasFields
  <2>2. Name("ctrl") # Letter(115) /\ Name("control") # Letter(115) /\ Name("shift") # Letter(99)
    BY AliasFields
  <2>3. Letter(99) # Letter(115)
    BY LettersDiffer
  <2> QED  BY ONLY <1>1, <2>1, <2>2, <2>3
<1>7. \A b \in Aliases["alt"], c \in Aliases["shift"] : b # c
  <2>1. /\ Name("alt") # Name("shift") /\ Name("meta") # Name("shift") /\ Name("opt") # Name("shift")
       /\ Name("option") # Name("shift")
    BY AliasFields
  <2>2. /\ Name("alt") # Letter(115) /\ Name("meta") # Letter(115) /\ Name("opt") # Letter(115)
       /\ Name("option") # Letter(115) /\ Name("shift") # Letter(97) /\ Name("shift") # Letter(109)
    BY AliasFields
  <2>3. Letter(97) # Letter(115) /\ Letter(109) # Letter(115)
    BY LettersDiffer
  <2> QED  BY ONLY <1>1, <2>1, <2>2, <2>3
<1> QED  BY <1>2, <1>4, <1>5, <1>6, <1>7

\* The modifiers that segments mean.
Meant(mods) == {m \in Modifiers : \E i \in DOMAIN mods : mods[i] \in Aliases[m]}

\* The segments of the modifiers, and what they are parsed as.
LEMMA ModifiersParsed ==
  ASSUME NEW words \in Seq(Spellings)
  PROVE  LET names == Segments(words)
         IN  /\ \E S : names \in Seq(S)
             /\ Len(names) = Len(words) /\ Len(words) \in Nat
             /\ \A i \in 1..Len(words) : names[i] # Empty
             /\ \A i \in DOMAIN names : \E m \in Modifiers : names[i] \in Aliases[m]
             /\ Meant(names) = Held(words)
<1> DEFINE names == Segments(words)
           All == UNION {Aliases[m] : m \in Modifiers}
<1>1. \A i \in 1..Len(words) : words[i].means \in Modifiers /\ words[i].seg \in Aliases[words[i].means]
  <2>1. \A w \in Spellings : w.means \in Modifiers /\ w.seg \in Aliases[w.means]
    BY DEF Spellings
  <2> QED  BY <2>1
<1>2. DOMAIN words = 1..Len(words) /\ Len(words) \in Nat
  OBVIOUS
<1>3. DOMAIN names = 1..Len(words) /\ \A i \in 1..Len(words) : names[i] = words[i].seg
  BY <1>2 DEF Segments
<1>4. names \in Seq(All) /\ Len(names) = Len(words)
  <2>1. \A i \in 1..Len(words) : names[i] \in All
    BY <1>1, <1>3
  <2>2. names = [i \in 1..Len(words) |-> names[i]]
    BY <1>2 DEF Segments
  <2> HIDE DEF names, All
  <2> QED  BY <1>2, <2>1, <2>2
<1> HIDE DEF names
<1>5. \A i \in 1..Len(words) : names[i] # Empty
  BY <1>1, <1>3, AliasFacts
<1>6. \A i \in DOMAIN names : \E m \in Modifiers : names[i] \in Aliases[m]
  BY <1>1, <1>3
<1>7. Meant(names) = Held(words)
  <2>1. ASSUME NEW m \in Modifiers, NEW i \in 1..Len(words)
        PROVE  names[i] \in Aliases[m] <=> m = words[i].means
    BY <1>1, <1>3, AliasFacts
  <2>2. Held(words) = {words[i].means : i \in 1..Len(words)}
    BY <1>2 DEF Held
  <2> QED  BY <1>1, <1>3, <2>1, <2>2 DEF Meant
<1> QED  BY <1>4, <1>5, <1>6, <1>7 DEF names

\* What is left of segments that end in plus signs.
LEMMA FrontOfSegments ==
  ASSUME NEW S, NEW names \in Seq(S), NEW n \in Nat, Len(names) = n,
         \A i \in 1..n : names[i] # Empty, NEW ks, ks # Empty
  PROVE  /\ TrimmedEnd(names \o <<Empty, Empty>>) = names
         /\ Len(names \o <<Empty, Empty>>) = n + 2 /\ Last(names \o <<Empty, Empty>>) = Empty
         /\ Front(names \o <<ks>>) = names /\ Last(names \o <<ks>>) = ks
<1> DEFINE All == S \cup {Empty, ks}
           two == names \o <<Empty, Empty>>
           one == names \o <<ks>>
<1>1. names \in Seq(All) /\ <<Empty, Empty>> \in Seq(All) /\ <<ks>> \in Seq(All)
      /\ Len(<<Empty, Empty>>) = 2 /\ <<Empty, Empty>>[1] = Empty /\ <<Empty, Empty>>[2] = Empty
      /\ Len(<<ks>>) = 1 /\ <<ks>>[1] = ks
  OBVIOUS
<1> HIDE DEF All
<1>2. /\ two \in Seq(All) /\ Len(two) = n + 2
      /\ \A i \in 1..n : two[i] = names[i]
      /\ two[n + 1] = Empty /\ two[n + 2] = Empty
  BY <1>1
<1>3. /\ one \in Seq(All) /\ Len(one) = n + 1
      /\ \A i \in 1..n : one[i] = names[i]
      /\ one[n + 1] = ks
  BY <1>1
<1> HIDE DEF two, one
<1>4. TrimmedEnd(two) = names
  <2> DEFINE H == {i \in DOMAIN two : two[i] # Empty} \cup {0}
  <2>1. H = 0..n
    <3>1. DOMAIN two = 1..(n + 2)
      BY <1>2
    <3>2. ASSUME NEW i \in 1..(n + 2) PROVE two[i] # Empty <=> i \in 1..n
      <4>1. i \in 1..n \/ i = n + 1 \/ i = n + 2
        OBVIOUS
      <4> QED  BY <1>2, <4>1
    <3> QED  BY <3>1, <3>2
  <2>2. Max(H) = n
    BY <2>1 DEF Max
  <2>3. TrimmedEnd(two) = SubSeq(two, 1, n)
    BY <2>2 DEF TrimmedEnd
  <2>4. SubSeq(two, 1, n) = names
    BY <1>2
  <2> QED  BY <2>3, <2>4
<1>5. Front(one) = names
  <2>1. Front(one) = SubSeq(one, 1, n)
    BY <1>3 DEF Front
  <2> QED  BY <1>3, <2>1
<1>6. Last(one) = ks /\ Last(two) = Empty
  BY <1>2, <1>3 DEF Last
<1> QED  BY <1>2, <1>4, <1>5, <1>6 DEF two, one

\* A press with a key other than the plus sign.
LEMMA OtherCombo ==
  ASSUME NEW words \in Seq(Spellings), NEW ks, ks # Empty
  PROVE  LET press == ParseKeyWithCount(ks)
         IN  ParseKeyCombo(Segments(words) \o <<ks>>) =
               IF press[1] = NoKey THEN NoPress
               ELSE [key |-> press[1], count |-> press[2], mods |-> Held(words)]
<1> DEFINE names == Segments(words)
           segs == names \o <<ks>>
<1>1. /\ \E S : names \in Seq(S)
      /\ Len(names) = Len(words) /\ Len(words) \in Nat
      /\ \A i \in 1..Len(words) : names[i] # Empty
      /\ \A i \in DOMAIN names : \E m \in Modifiers : names[i] \in Aliases[m]
      /\ Meant(names) = Held(words)
  BY ModifiersParsed
<1> HIDE DEF names
<1>2. Front(segs) = names /\ Last(segs) = ks
  <2>1. PICK S : names \in Seq(S)
    BY <1>1
  <2> QED  BY <1>1, <2>1, FrontOfSegments
<1> HIDE DEF segs
<1>3. names # <<Empty>>
  <2>1. Len(<<Empty>>) = 1 /\ <<Empty>>[1] = Empty
    OBVIOUS
  <2> QED  BY <1>1, <2>1
<1>4. /\ ~(Len(segs) > 1 /\ Last(segs) = Empty /\ segs # <<Empty, Empty>>)
      /\ ~(\E i \in DOMAIN names : \A m \in Modifiers : names[i] \notin Aliases[m])
  BY <1>1, <1>2
<1>5. ParseKeyCombo(segs) =
        IF ParseKeyWithCount(ks)[1] = NoKey THEN NoPress
        ELSE [key |-> ParseKeyWithCount(ks)[1], count |-> ParseKeyWithCount(ks)[2],
              mods |-> Meant(names)]
  BY ONLY <1>2, <1>3, <1>4, Zenon DEF ParseKeyCombo, Meant
<1> QED  BY <1>1, <1>5 DEF segs, names

\* A press with the plus sign.
LEMMA PlusCombo ==
  ASSUME NEW words \in Seq(Spellings), words # <<>>
  PROVE  ParseKeyCombo(Segments(words) \o <<Empty, Empty>>) =
           [key |-> Char(Plus), count |-> 1, mods |-> Held(words)]
<1> DEFINE names == Segments(words)
           segs == names \o <<Empty, Empty>>
<1>1. /\ \E S : names \in Seq(S)
      /\ Len(names) = Len(words) /\ Len(words) \in Nat
      /\ \A i \in 1..Len(words) : names[i] # Empty
      /\ \A i \in DOMAIN names : \E m \in Modifiers : names[i] \in Aliases[m]
      /\ Meant(names) = Held(words)
  BY ModifiersParsed
<1>0. Len(words) > 0
  OBVIOUS
<1> HIDE DEF names
<1>2. TrimmedEnd(segs) = names /\ Last(segs) = Empty /\ Len(segs) = Len(words) + 2
  <2>1. PICK other : other # Empty
    <3>1. Letter(1) # Empty
      BY AliasFields
    <3> QED  BY <3>1
  <2>2. PICK S : names \in Seq(S)
    BY <1>1
  <2> QED  BY <1>1, <2>1, <2>2, FrontOfSegments
<1> HIDE DEF segs
<1>3. names # <<Empty>>
  <2>1. Len(<<Empty>>) = 1 /\ <<Empty>>[1] = Empty
    OBVIOUS
  <2> QED  BY <1>1, <2>1
<1>4. /\ Len(segs) > 1 /\ Last(segs) = Empty /\ segs # <<Empty, Empty>>
      /\ ~(\E i \in DOMAIN names : \A m \in Modifiers : names[i] \notin Aliases[m])
  <2>1. Len(<<Empty, Empty>>) = 2
    OBVIOUS
  <2>3. Len(segs) > 1 /\ Len(segs) # 2
    BY <1>0, <1>1, <1>2
  <2>2. Len(segs) > 1 /\ segs # <<Empty, Empty>>
    BY ONLY <2>1, <2>3
  <2> QED  BY <1>1, <1>2, <2>2
<1>5. <<Char(Plus), 1>>[1] = Char(Plus) /\ <<Char(Plus), 1>>[2] = 1 /\ Char(Plus) # NoKey
  BY KeyFacts
<1>6. ParseKeyCombo(segs) =
        [key |-> Char(Plus), count |-> 1,
         mods |-> Meant(names)]
  BY ONLY <1>2, <1>3, <1>4, <1>5, Zenon DEF ParseKeyCombo, Meant
<1> QED  BY <1>1, <1>6 DEF segs, names

\* The key of a press is parsed as what the user meant.
LEMMA KeyParsed ==
  ASSUME NEW key \in Keys, key # Char(Plus), NEW digits \in Seq(Digits), digits # <<>> => TakesCount(key)
  PROVE  /\ ParseKeyWithCount(KeySegment(key, digits)) = Counted(key, digits)
         /\ KeySegment(key, digits) # Empty
<1>1. CASE key.kind = "Named" /\ key.name \in Names /\ key = Named(key.name)
  <2>1. KeySegment(key, digits) = Segment(key.name, <<>>, digits)
    BY <1>1 DEF KeySegment
  <2>2. Segment(key.name, <<>>, digits) # Empty
    <3>1. Segment(key.name, <<>>, digits).name = key.name /\ Empty.name = ""
      BY DEF Segment, Empty
    <3> QED  BY <1>1, <3>1, NotNames
  <2> QED  BY <1>1, <2>1, <2>2, NamedParsed
<1>2. CASE key.kind = "F" /\ key.code \in Functions /\ key = F(key.code)
  <2>1. ~TakesCount(key)
    BY <1>2 DEF TakesCount
  <2>2. digits = <<>>
    BY <2>1
  <2> DEFINE d == IF key.code < 10 THEN <<48 + key.code>> ELSE <<49, 38 + key.code>>
  <2>3. KeySegment(key, digits) = Segment("", <<102>>, d)
    BY <1>2 DEF KeySegment
  <2>4. ParseKeyWithCount(Segment("", <<102>>, d)) = Counted(F(key.code), <<>>)
    BY <1>2, FunctionParsed
  <2> HIDE DEF d
  <2>5. Segment("", <<102>>, d) # Empty
    <3>1. Segment("", <<102>>, d).chars = <<102>> /\ Empty.chars = <<>> /\ <<102>> # <<>>
      BY DEF Segment, Empty
    <3> QED  BY <3>1
  <2> QED  BY <1>2, <2>2, <2>3, <2>4, <2>5
<1>3. CASE key.kind = "Char" /\ key.code \in Printables /\ key = Char(key.code)
  <2>1. CASE key.code \in Digits
    <3>1. ~TakesCount(key)
      BY <1>3, <2>1 DEF TakesCount
    <3>2. digits = <<>>
      BY <3>1
    <3>3. KeySegment(key, digits) = Segment("", <<>>, <<key.code>>)
      BY <1>3, <2>1 DEF KeySegment
    <3>4. Segment("", <<>>, <<key.code>>) # Empty
      <4>1. Segment("", <<>>, <<key.code>>).digits = <<key.code>> /\ Empty.digits = <<>> /\ <<key.code>> # <<>>
        BY DEF Segment, Empty
      <4> QED  BY <4>1
    <3> QED  BY <1>3, <2>1, <3>2, <3>3, <3>4, DigitParsed
  <2>2. CASE key.code \notin Digits
    <3>1. digits # <<>> => key.code # 102
      BY <1>3 DEF TakesCount
    <3>2. KeySegment(key, digits) = Segment("", <<key.code>>, digits)
      BY <1>3, <2>2 DEF KeySegment
    <3>3. Segment("", <<key.code>>, digits) # Empty
      <4>1. Segment("", <<key.code>>, digits).chars = <<key.code>> /\ Empty.chars = <<>> /\ <<key.code>> # <<>>
        BY DEF Segment, Empty
      <4> QED  BY <4>1
    <3>4. ParseKeyWithCount(Segment("", <<key.code>>, digits)) = Counted(Char(key.code), digits)
      BY <1>3, <2>2, <3>1, CharParsed
    <3> QED  BY <1>3, <3>2, <3>3, <3>4
  <2> QED  BY <2>1, <2>2
<1> QED  BY <1>1, <1>2, <1>3, ThreeKinds

\* Every press is understood, whatever its key, its modifiers and its count.
LEMMA EveryPress ==
  ASSUME NEW key \in Keys, NEW words \in Seq(Spellings), NEW digits \in Seq(Digits)
  PROVE  PressUnderstood(key, words, digits)
<1> SUFFICES ASSUME digits # <<>> => TakesCount(key), key = Char(Plus) => words # <<>>
             PROVE  LET count == IF digits = <<>> THEN 1 ELSE Value(digits)
                        press == [key |-> key, mods |-> Held(words), count |-> Min({count, MaxRepeat})]
                    IN  ParseKeyCombo(Spell(key, words, digits)) =
                          IF count \in 1..MaxNumber THEN press ELSE NoPress
  BY DEF PressUnderstood
<1> DEFINE count == IF digits = <<>> THEN 1 ELSE Value(digits)
           press == [key |-> key, mods |-> Held(words), count |-> Min({count, MaxRepeat})]
<1>1. CASE key = Char(Plus)
  <2>1. digits = <<>>
    <3>1. ~TakesCount(key)
      BY <1>1, KeyFacts DEF TakesCount
    <3> QED  BY <3>1
  <2>2. ParseKeyCombo(Spell(key, words, digits)) = [key |-> Char(Plus), count |-> 1, mods |-> Held(words)]
    BY <1>1, PlusCombo DEF Spell
  <2>3. Min({count, MaxRepeat}) = 1 /\ count \in 1..MaxNumber
    BY <2>1, SmallestCount
  <2> HIDE DEF count
  <2>4. [key |-> Char(Plus), count |-> 1, mods |-> Held(words)] = press
    BY <1>1, <2>3
  <2>5. ParseKeyCombo(Spell(key, words, digits)) = IF count \in 1..MaxNumber THEN press ELSE NoPress
    BY ONLY <2>2, <2>3, <2>4, Zenon
  <2> QED  BY <2>5 DEF count
<1>2. CASE key # Char(Plus)
  <2> DEFINE ks == KeySegment(key, digits)
             p == ParseKeyWithCount(ks)
  <2>1. p = Counted(key, digits) /\ ks # Empty
    BY <1>2, KeyParsed
  <2>2. Spell(key, words, digits) = Segments(words) \o <<ks>>
    BY <1>2 DEF Spell
  <2> HIDE DEF ks
  <2>3. ParseKeyCombo(Segments(words) \o <<ks>>) =
          IF p[1] = NoKey THEN NoPress ELSE [key |-> p[1], count |-> p[2], mods |-> Held(words)]
    BY <2>1, OtherCombo
  <2>4. p = IF count \in 1..MaxNumber THEN <<key, Min({count, MaxRepeat})>> ELSE <<NoKey, 0>>
    BY <2>1 DEF Counted
  <2>5. key # NoKey
    BY KeyFacts, ThreeKinds
  <2> HIDE DEF count, p
  <2>6. ParseKeyCombo(Spell(key, words, digits)) = IF count \in 1..MaxNumber THEN press ELSE NoPress
    BY <2>2, <2>3, <2>4, <2>5
  <2> QED  BY <2>6 DEF count
<1> QED  BY <1>1, <1>2

-----------------------------------------------------------------------------
(* What a key sends.                                                       *)

\* The byte of a character under modifiers, before the prefix of alt; -1 if it
\* has none.
CharByte(c, mods) ==
  IF "ctrl" \notin mods THEN IF "shift" \in mods THEN Upper(c) ELSE c
  ELSE IF Upper(c) \in 64..95 THEN Upper(c) - 64
  ELSE IF c = 32 THEN 0 ELSE IF c = 63 THEN 127 ELSE -1

\* What EncodeChar makes of it.
LEMMA CharSends ==
  ASSUME NEW c \in 32..126, NEW mods
  PROVE  EncodeChar(c, mods) =
           IF CharByte(c, mods) = -1 THEN NoBytes ELSE AltPrefixed(<<CharByte(c, mods)>>, mods)
<1> DEFINE s == IF "shift" \in mods THEN Upper(c) ELSE c
<1>1. /\ Upper(s) = Upper(c) /\ s \in 32..126 /\ Upper(c) \in 32..126
      /\ s = 32 <=> c = 32
      /\ s = 63 <=> c = 63
  BY DEF Upper, LowerCase
<1>2. CtrlByte(s) = IF Upper(c) \in 64..95 THEN <<Upper(c) - 64>>
                    ELSE IF c = 32 THEN <<0>> ELSE IF c = 63 THEN <<127>> ELSE NoBytes
  <2>1. Upper(c) \in 64..95 => Upper(c) % 32 = Upper(c) - 64
    <3>1. \A x \in 64..95 : x % 32 = x - 64
      OBVIOUS
    <3> QED  BY <3>1
  <2>2. s = 32 \/ s = 63 => Upper(s) = s
    BY DEF Upper, LowerCase
  <2> HIDE DEF s
  <2>3. s = 32 => ~(Upper(s) \in 64..95) /\ s # 63
    BY <2>2
  <2>4. s = 63 => ~(Upper(s) \in 64..95) /\ s # 32
    BY <2>2
  <2> QED  BY <1>1, <2>1, <2>3, <2>4 DEF CtrlByte
<1>3. EncodeChar(c, mods) =
        LET bytes == IF "ctrl" \in mods THEN CtrlByte(s) ELSE <<s>>
        IN  IF bytes = NoBytes THEN NoBytes ELSE AltPrefixed(bytes, mods)
  BY DEF EncodeChar
<1> DEFINE bytes == IF "ctrl" \in mods THEN CtrlByte(s) ELSE <<s>>
<1>4. bytes = IF CharByte(c, mods) = -1 THEN NoBytes ELSE <<CharByte(c, mods)>>
  <2> HIDE DEF s
  <2>1. CASE "ctrl" \in mods
    BY <1>1, <1>2, <2>1 DEF CharByte
  <2>2. CASE "ctrl" \notin mods
    <3>1. s = CharByte(c, mods) /\ s # -1
      BY <1>1, <2>2 DEF CharByte, s
    <3> QED  BY <2>2, <3>1
  <2> QED  BY <2>1, <2>2
<1>5. \A b : <<b>> # NoBytes
  BY DEF NoBytes
<1> HIDE DEF bytes
<1> QED  BY <1>3, <1>4, <1>5 DEF bytes

\* The byte tells the character, and which characters have one.
LEMMA CharByteOf ==
  ASSUME NEW mods, NEW c \in Printables, NEW d \in Printables
  PROVE  /\ CharByte(c, mods) = CharByte(d, mods) /\ CharByte(c, mods) # -1 => c = d
         /\ "ctrl" \notin mods => CharByte(c, mods) \in 33..126
         /\ CharByte(c, mods) \in -1..127
         /\ "ctrl" \in mods => /\ CharByte(c, mods) = 0 => c = 64
                               /\ CharByte(c, mods) = 8 => c = 104
                               /\ CharByte(c, mods) = 9 => c = 105
                               /\ CharByte(c, mods) = 13 => c = 109
                               /\ CharByte(c, mods) = 27 => c = 91
<1>1. c \in 33..126 /\ c \notin 65..90 /\ d \in 33..126 /\ d \notin 65..90
  BY DEF Printables
<1>2. \A x : Upper(x) = IF x \in 97..122 THEN x - 32 ELSE x
  BY DEF Upper, LowerCase
<1> QED  BY <1>1, <1>2 DEF CharByte

\* Keys that send one byte, and the byte.
OneByte(key, mods) ==
  key.kind = "Char" \/ (key.kind = "Named" /\ key.name \in ByteKeys /\ ~(key.name = "tab" /\ "shift" \in mods))

ItsByte(key, mods) ==
  IF key.kind = "Char" THEN CharByte(key.code, mods)
  ELSE IF key.name = "space" THEN CharByte(32, mods)
  ELSE IF key.name = "tab" THEN 9
  ELSE IF key.name = "enter" THEN 13
  ELSE IF key.name = "esc" THEN 27
  ELSE IF "ctrl" \in mods THEN 8 ELSE 127

\* What EncodeKey makes of it.
LEMMA OneByteSends ==
  ASSUME NEW key \in Keys, NEW mods, OneByte(key, mods)
  PROVE  EncodeKey(key, mods) =
           IF ItsByte(key, mods) = -1 THEN NoBytes ELSE AltPrefixed(<<ItsByte(key, mods)>>, mods)
<1>1. CASE key.kind = "Char"
  <2>1. key.code \in 32..126
    BY <1>1, ThreeKinds DEF Printables
  <2>2. EncodeKey(key, mods) = EncodeChar(key.code, mods)
    BY <1>1 DEF EncodeKey
  <2> QED  BY <1>1, <2>1, <2>2, CharSends DEF ItsByte
<1>2. CASE key.kind = "Named" /\ key.name \in ByteKeys /\ ~(key.name = "tab" /\ "shift" \in mods)
  <2>1. EncodeKey(key, mods) = EncodeNamed(key.name, mods)
    BY <1>2 DEF EncodeKey
  <2>2. CASE key.name = "space"
    <3>1. EncodeNamed(key.name, mods) = EncodeChar(32, mods)
      BY <2>2 DEF EncodeNamed, LetterKeys
    <3>2. ItsByte(key, mods) = CharByte(32, mods)
      BY <1>2, <2>2 DEF ItsByte
    <3>3. 32 \in 32..126
      OBVIOUS
    <3> QED  BY <2>1, <3>1, <3>2, <3>3, CharSends
  <2>3. CASE key.name = "tab"
    <3>1. EncodeNamed(key.name, mods) = AltPrefixed(<<9>>, mods)
      BY <1>2, <2>3 DEF EncodeNamed, LetterKeys
    <3> QED  BY <1>2, <2>1, <2>3, <3>1 DEF ItsByte
  <2>4. CASE key.name = "enter"
    <3>1. EncodeNamed(key.name, mods) = AltPrefixed(<<13>>, mods)
      BY <2>4 DEF EncodeNamed, LetterKeys
    <3> QED  BY <1>2, <2>1, <2>4, <3>1 DEF ItsByte
  <2>5. CASE key.name = "esc"
    <3>1. EncodeNamed(key.name, mods) = AltPrefixed(<<27>>, mods)
      BY <2>5 DEF EncodeNamed, LetterKeys, Esc
    <3> QED  BY <1>2, <2>1, <2>5, <3>1 DEF ItsByte
  <2>6. CASE key.name = "backspace"
    <3>1. EncodeNamed(key.name, mods) = AltPrefixed(<<IF "ctrl" \in mods THEN 8 ELSE 127>>, mods)
      BY <2>6 DEF EncodeNamed, LetterKeys
    <3>2. ItsByte(key, mods) = IF "ctrl" \in mods THEN 8 ELSE 127
      BY <1>2, <2>6 DEF ItsByte
    <3> QED  BY <2>1, <3>1, <3>2
  <2> QED  BY <1>2, <2>2, <2>3, <2>4, <2>5, <2>6 DEF ByteKeys
<1> QED  BY <1>1, <1>2 DEF OneByte

\* The prefix of alt keeps bytes apart.
LEMMA PrefixKeepsApart ==
  ASSUME NEW mods, NEW a, NEW b
  PROVE  /\ AltPrefixed(<<a>>, mods) = AltPrefixed(<<b>>, mods) => a = b
         /\ AltPrefixed(<<a>>, mods) # NoBytes
         /\ Len(AltPrefixed(<<a>>, mods)) \in 1..2
<1>1. \A x : Len(<<Esc>> \o <<x>>) = 2 /\ (<<Esc>> \o <<x>>)[2] = x
  OBVIOUS
<1>2. /\ \A x : Len(<<x>>) = 1 /\ <<x>>[1] = x
      /\ Len(<<>>) = 0
  OBVIOUS
<1>3. CASE "alt" \in mods
  <2>1. \A x : AltPrefixed(<<x>>, mods) = <<Esc>> \o <<x>>
    BY <1>3 DEF AltPrefixed
  <2> QED  BY <1>1, <1>2, <2>1 DEF NoBytes
<1>4. CASE "alt" \notin mods
  <2>1. \A x : AltPrefixed(<<x>>, mods) = <<x>>
    BY <1>4 DEF AltPrefixed
  <2> QED  BY <1>2, <2>1 DEF NoBytes
<1> QED  BY <1>3, <1>4

\* A pair of keys has no order.
LEMMA Swapped == \A a, b : {a, b} = {b, a}
OBVIOUS

\* Of the keys that send one byte, only a character and a named key under ctrl
\* can send the same.
LEMMA CharAndName ==
  ASSUME NEW mods, NEW key \in Keys, NEW other \in Keys,
         key.kind = "Char", other.kind = "Named", OneByte(other, mods),
         ItsByte(key, mods) = ItsByte(other, mods), ItsByte(key, mods) # -1
  PROVE  "ctrl" \in mods /\ {key, other} \in SameControl
<1>1. /\ key.code \in Printables /\ key = Char(key.code)
      /\ other.name \in ByteKeys /\ other = Named(other.name)
  BY ThreeKinds, KeyFacts DEF OneByte
<1> DEFINE b == CharByte(key.code, mods)
<1>2. /\ ItsByte(key, mods) = b
      /\ "ctrl" \notin mods => b \in 33..126
      /\ "ctrl" \in mods => /\ b = 0 => key.code = 64
                            /\ b = 8 => key.code = 104
                            /\ b = 9 => key.code = 105
                            /\ b = 13 => key.code = 109
                            /\ b = 27 => key.code = 91
  BY <1>1, CharByteOf DEF ItsByte
<1>3. /\ other.name = "space" => ItsByte(other, mods) = IF "ctrl" \in mods THEN 0 ELSE 32
      /\ other.name = "tab" => ItsByte(other, mods) = 9
      /\ other.name = "enter" => ItsByte(other, mods) = 13
      /\ other.name = "esc" => ItsByte(other, mods) = 27
      /\ other.name = "backspace" => ItsByte(other, mods) = IF "ctrl" \in mods THEN 8 ELSE 127
  <2>1. Upper(32) = 32
    BY DEF Upper, LowerCase
  <2> QED  BY <2>1 DEF ItsByte, CharByte
<1> HIDE DEF b
<1>4. "ctrl" \in mods
  BY <1>1, <1>2, <1>3 DEF ByteKeys
<1>5. \/ key = Char(64) /\ other = Named("space")
      \/ key = Char(105) /\ other = Named("tab")
      \/ key = Char(109) /\ other = Named("enter")
      \/ key = Char(91) /\ other = Named("esc")
      \/ key = Char(104) /\ other = Named("backspace")
  BY <1>1, <1>2, <1>3, <1>4 DEF ByteKeys
<1>6. {key, other} \in SameControl
  BY <1>5, Swapped DEF SameControl
<1> QED  BY <1>4, <1>6

\* Of any two of them, only such a pair can.
LEMMA OneByteApart ==
  ASSUME NEW mods, NEW key \in Keys, NEW other \in Keys, key # other,
         OneByte(key, mods), OneByte(other, mods),
         ItsByte(key, mods) = ItsByte(other, mods), ItsByte(key, mods) # -1
  PROVE  "ctrl" \in mods /\ {key, other} \in SameControl
<1>1. /\ key.kind = "Char" => key.code \in Printables /\ key = Char(key.code)
      /\ other.kind = "Char" => other.code \in Printables /\ other = Char(other.code)
      /\ key.kind = "Named" => key.name \in ByteKeys /\ key = Named(key.name)
      /\ other.kind = "Named" => other.name \in ByteKeys /\ other = Named(other.name)
      /\ key.kind = "Char" \/ key.kind = "Named"
      /\ other.kind = "Char" \/ other.kind = "Named"
  BY ThreeKinds DEF OneByte
<1>2. CASE key.kind = "Char" /\ other.kind = "Char"
  BY <1>1, <1>2, CharByteOf DEF ItsByte
<1>3. CASE key.kind = "Char" /\ other.kind = "Named"
  BY <1>3, CharAndName
<1>4. CASE key.kind = "Named" /\ other.kind = "Char"
  BY <1>4, CharAndName, Swapped
<1>5. CASE key.kind = "Named" /\ other.kind = "Named"
  <2>1. /\ \A k \in {key, other} : k.name = "space" => ItsByte(k, mods) = IF "ctrl" \in mods THEN 0 ELSE 32
        /\ \A k \in {key, other} : k.name = "tab" => ItsByte(k, mods) = 9
        /\ \A k \in {key, other} : k.name = "enter" => ItsByte(k, mods) = 13
        /\ \A k \in {key, other} : k.name = "esc" => ItsByte(k, mods) = 27
        /\ \A k \in {key, other} : k.name = "backspace" => ItsByte(k, mods) = IF "ctrl" \in mods THEN 8 ELSE 127
    <3>1. Upper(32) = 32
      BY DEF Upper, LowerCase
    <3> QED  BY <1>5, <3>1 DEF ItsByte, CharByte
  <2>2. key.name # other.name
    BY <1>1, <1>5
  <2> QED  BY <1>1, <1>5, <2>1, <2>2 DEF ByteKeys
<1> QED  BY <1>1, <1>2, <1>3, <1>4, <1>5

\* The number and the final byte of a key that sends an escape sequence.
ItsNumber(key) ==
  IF key.kind = "F" THEN IF key.code > 4 THEN TildeOfF[key.code] ELSE 1
  ELSE IF key.name \in DOMAIN LetterKeys THEN 1 ELSE TildeKeys[key.name]
ItsFinal(key) ==
  IF key.kind = "F" THEN IF key.code > 4 THEN 126 ELSE 79 + key.code
  ELSE IF key.name \in DOMAIN LetterKeys THEN LetterKeys[key.name] ELSE 126

\* Keys that send one.
BySequence(key) ==
  \/ key.kind = "F"
  \/ key.kind = "Named" /\ key.name \in DOMAIN LetterKeys \cup DOMAIN TildeKeys

\* The values of the two tables of named keys.
LEMMA LetterOf ==
  /\ DOMAIN LetterKeys = {"up", "down", "right", "left", "home", "end"}
  /\ LetterKeys["up"] = 65 /\ LetterKeys["down"] = 66 /\ LetterKeys["right"] = 67
  /\ LetterKeys["left"] = 68 /\ LetterKeys["home"] = 72 /\ LetterKeys["end"] = 70
  /\ DOMAIN TildeKeys = {"insert", "delete", "pageup", "pagedown"}
  /\ TildeKeys["insert"] = 2 /\ TildeKeys["delete"] = 3 /\ TildeKeys["pageup"] = 5 /\ TildeKeys["pagedown"] = 6
BY DEF LetterKeys, TildeKeys

\* The values of the table of function keys.
LEMMA TildeOf ==
  ASSUME NEW n \in 5..12
  PROVE  TildeOfF[n] = IF n = 5 THEN 15 ELSE IF n < 11 THEN n + 11 ELSE n + 12
<1>1. n = 5 \/ n = 6 \/ n = 7 \/ n = 8 \/ n = 9 \/ n = 10 \/ n = 11 \/ n = 12
  OBVIOUS
<1>2. /\ TildeOfF[5] = 15 /\ TildeOfF[6] = 17 /\ TildeOfF[7] = 18 /\ TildeOfF[8] = 19
      /\ TildeOfF[9] = 20 /\ TildeOfF[10] = 21 /\ TildeOfF[11] = 23 /\ TildeOfF[12] = 24
  BY DEF TildeOfF
<1> QED  BY <1>1, <1>2

\* The number and the final byte tell the key.
LEMMA CodesApart ==
  ASSUME NEW key \in Keys, NEW other \in Keys, key # other, BySequence(key), BySequence(other)
  PROVE  /\ ItsNumber(key) # ItsNumber(other) \/ ItsFinal(key) # ItsFinal(other)
         /\ ItsNumber(key) \in 1..24 /\ ItsFinal(key) \in 65..126
         /\ key.kind = "F" /\ key.code <= 4 => ItsNumber(key) = 1 /\ ItsFinal(key) = 79 + key.code
         /\ ~(key.kind = "F" /\ key.code <= 4) /\ ItsNumber(key) = 1 => ItsFinal(key) < 80
<1> DEFINE Coded(k) ==
      \/ k.kind = "F" /\ k.code \in 1..4 /\ k = F(k.code) /\ ItsNumber(k) = 1 /\ ItsFinal(k) = 79 + k.code
      \/ /\ k.kind = "F" /\ k.code \in 5..12 /\ k = F(k.code) /\ ItsFinal(k) = 126
         /\ ItsNumber(k) = IF k.code = 5 THEN 15 ELSE IF k.code < 11 THEN k.code + 11 ELSE k.code + 12
      \/ k = Named("up") /\ ItsNumber(k) = 1 /\ ItsFinal(k) = 65
      \/ k = Named("down") /\ ItsNumber(k) = 1 /\ ItsFinal(k) = 66
      \/ k = Named("right") /\ ItsNumber(k) = 1 /\ ItsFinal(k) = 67
      \/ k = Named("left") /\ ItsNumber(k) = 1 /\ ItsFinal(k) = 68
      \/ k = Named("home") /\ ItsNumber(k) = 1 /\ ItsFinal(k) = 72
      \/ k = Named("end") /\ ItsNumber(k) = 1 /\ ItsFinal(k) = 70
      \/ k = Named("insert") /\ ItsNumber(k) = 2 /\ ItsFinal(k) = 126
      \/ k = Named("delete") /\ ItsNumber(k) = 3 /\ ItsFinal(k) = 126
      \/ k = Named("pageup") /\ ItsNumber(k) = 5 /\ ItsFinal(k) = 126
      \/ k = Named("pagedown") /\ ItsNumber(k) = 6 /\ ItsFinal(k) = 126
<1>1. ASSUME NEW k \in Keys, BySequence(k) PROVE Coded(k)
  <2>1. CASE k.kind = "F"
    <3>1. k.code \in 1..12 /\ k = F(k.code)
      BY <2>1, ThreeKinds DEF Functions
    <3>2. CASE k.code \in 1..4
      <4>1. ItsNumber(k) = 1 /\ ItsFinal(k) = 79 + k.code
        BY <2>1, <3>1, <3>2 DEF ItsNumber, ItsFinal
      <4> QED  BY <2>1, <3>1, <3>2, <4>1
    <3>3. CASE k.code \in 5..12
      <4>1. ItsNumber(k) = TildeOfF[k.code] /\ ItsFinal(k) = 126
        BY <2>1, <3>1, <3>3 DEF ItsNumber, ItsFinal
      <4> QED  BY <2>1, <3>1, <3>3, <4>1, TildeOf
    <3> QED  BY <3>1, <3>2, <3>3
  <2>2. CASE k.kind = "Named" /\ k.name \in DOMAIN LetterKeys \cup DOMAIN TildeKeys
    <3>1. k = Named(k.name) /\ k.kind # "F"
      BY <2>2, ThreeKinds
    <3>2. k.name \in DOMAIN LetterKeys => ItsNumber(k) = 1 /\ ItsFinal(k) = LetterKeys[k.name]
      BY <3>1 DEF ItsNumber, ItsFinal
    <3>3. k.name \notin DOMAIN LetterKeys => ItsNumber(k) = TildeKeys[k.name] /\ ItsFinal(k) = 126
      BY <3>1 DEF ItsNumber, ItsFinal
    <3> QED  BY <2>2, <3>1, <3>2, <3>3, LetterOf
  <2> QED  BY <1>1, <2>1, <2>2 DEF BySequence
<1>2. Coded(key) /\ Coded(other)
  BY <1>1
<1>3. /\ \A n : Named(n).kind = "Named"
      /\ "Named" # "F"
  BY KeyFacts
<1> QED  BY <1>2, <1>3

\* An escape sequence shows its number and its final byte.
LEMMA EscapeSends ==
  ASSUME NEW key \in Keys, NEW mods, BySequence(key)
  PROVE  LET e == EncodeKey(key, mods)
         IN  /\ mods = {} /\ key.kind = "F" /\ key.code <= 4 =>
                  Len(e) = 3 /\ e[2] = 79 /\ e[3] = ItsFinal(key)
             /\ mods = {} /\ ~(key.kind = "F" /\ key.code <= 4) =>
                  /\ ItsNumber(key) = 1 => Len(e) = 3 /\ e[2] = 91 /\ e[3] = ItsFinal(key)
                  /\ ItsNumber(key) # 1 => Len(e) = 4 /\ e[3] = ItsNumber(key) /\ e[4] = ItsFinal(key)
             /\ mods # {} => Len(e) = 6 /\ e[3] = ItsNumber(key) /\ e[6] = ItsFinal(key)
<1> DEFINE csi == EncodeCsi(ItsNumber(key), ItsFinal(key), mods)
           e == EncodeKey(key, mods)
<1>1. /\ mods = {} /\ ItsNumber(key) = 1 => Len(csi) = 3 /\ csi[2] = 91 /\ csi[3] = ItsFinal(key)
      /\ mods = {} /\ ItsNumber(key) # 1 => Len(csi) = 4 /\ csi[3] = ItsNumber(key) /\ csi[4] = ItsFinal(key)
      /\ mods # {} => Len(csi) = 6 /\ csi[3] = ItsNumber(key) /\ csi[6] = ItsFinal(key)
  <2>1. CASE mods = {} /\ ItsNumber(key) = 1
    <3>1. csi = <<Esc, 91>> \o <<>> \o <<ItsFinal(key)>>
      BY <2>1 DEF EncodeCsi
    <3> QED  BY <2>1, <3>1
  <2>2. CASE mods = {} /\ ItsNumber(key) # 1
    <3>1. csi = <<Esc, 91>> \o <<ItsNumber(key)>> \o <<ItsFinal(key)>>
      BY <2>2 DEF EncodeCsi
    <3> QED  BY <2>2, <3>1
  <2>3. CASE mods # {}
    <3>1. csi = <<Esc, 91, ItsNumber(key), 59, CsiParam(mods), ItsFinal(key)>>
      BY <2>3 DEF EncodeCsi
    <3> QED  BY <2>3, <3>1
  <2> QED  BY <2>1, <2>2, <2>3
<1>2. mods = {} /\ key.kind = "F" /\ key.code <= 4 => e = <<Esc, 79, ItsFinal(key)>>
  <2> SUFFICES ASSUME mods = {}, key.kind = "F", key.code <= 4 PROVE e = <<Esc, 79, ItsFinal(key)>>
    OBVIOUS
  <2>1. key.code \in 1..12
    BY ThreeKinds DEF Functions
  <2>2. ItsFinal(key) = 79 + key.code
    BY <2>1 DEF ItsFinal
  <2>3. e = EncodeF(key.code, mods)
    BY DEF EncodeKey
  <2> QED  BY <2>1, <2>2, <2>3 DEF EncodeF
<1>3. ~(mods = {} /\ key.kind = "F" /\ key.code <= 4) => e = csi
  <2> SUFFICES ASSUME ~(mods = {} /\ key.kind = "F" /\ key.code <= 4) PROVE e = csi
    OBVIOUS
  <2>1. CASE key.kind = "F"
    <3>1. key.code \in 1..12
      BY <2>1, ThreeKinds DEF Functions
    <3>2. e = EncodeF(key.code, mods)
      BY <2>1 DEF EncodeKey
    <3> QED  BY <2>1, <3>1, <3>2 DEF EncodeF, ItsNumber, ItsFinal
  <2>2. CASE key.kind = "Named" /\ key.name \in DOMAIN LetterKeys
    <3>1. key.name \notin ByteKeys
      BY <2>2, LetterOf DEF ByteKeys
    <3>2. e = EncodeNamed(key.name, mods)
      BY <2>2 DEF EncodeKey
    <3>3. EncodeNamed(key.name, mods) = EncodeCsi(1, LetterKeys[key.name], mods)
      BY <2>2, <3>1 DEF EncodeNamed, ByteKeys
    <3> QED  BY <2>2, <3>2, <3>3 DEF ItsNumber, ItsFinal
  <2>3. CASE key.kind = "Named" /\ key.name \in DOMAIN TildeKeys
    <3>1. key.name \notin ByteKeys /\ key.name \notin DOMAIN LetterKeys
      BY <2>3, LetterOf DEF ByteKeys
    <3>2. e = EncodeNamed(key.name, mods)
      BY <2>3 DEF EncodeKey
    <3>3. EncodeNamed(key.name, mods) = EncodeCsi(TildeKeys[key.name], 126, mods)
      BY <3>1 DEF EncodeNamed, ByteKeys
    <3> QED  BY <2>3, <3>1, <3>2, <3>3 DEF ItsNumber, ItsFinal
  <2> QED  BY <2>1, <2>2, <2>3 DEF BySequence
<1>4. /\ Len(<<Esc, 79, ItsFinal(key)>>) = 3 /\ <<Esc, 79, ItsFinal(key)>>[2] = 79
      /\ <<Esc, 79, ItsFinal(key)>>[3] = ItsFinal(key)
  OBVIOUS
<1> HIDE DEF e, csi
<1>5. /\ mods = {} /\ key.kind = "F" /\ key.code <= 4 =>
           Len(e) = 3 /\ e[2] = 79 /\ e[3] = ItsFinal(key)
      /\ mods = {} /\ ~(key.kind = "F" /\ key.code <= 4) =>
           /\ ItsNumber(key) = 1 => Len(e) = 3 /\ e[2] = 91 /\ e[3] = ItsFinal(key)
           /\ ItsNumber(key) # 1 => Len(e) = 4 /\ e[3] = ItsNumber(key) /\ e[4] = ItsFinal(key)
      /\ mods # {} => Len(e) = 6 /\ e[3] = ItsNumber(key) /\ e[6] = ItsFinal(key)
  BY ONLY <1>1, <1>2, <1>3, <1>4
<1> QED  BY <1>5 DEF e

\* No two escape sequences are the same.
LEMMA EscapesApart ==
  ASSUME NEW key \in Keys, NEW other \in Keys, key # other, NEW mods,
         BySequence(key), BySequence(other)
  PROVE  EncodeKey(key, mods) # EncodeKey(other, mods)
<1> DEFINE e == EncodeKey(key, mods)
           o == EncodeKey(other, mods)
<1>1. /\ mods = {} /\ key.kind = "F" /\ key.code <= 4 =>
           Len(e) = 3 /\ e[2] = 79 /\ e[3] = ItsFinal(key)
      /\ mods = {} /\ ~(key.kind = "F" /\ key.code <= 4) =>
           /\ ItsNumber(key) = 1 => Len(e) = 3 /\ e[2] = 91 /\ e[3] = ItsFinal(key)
           /\ ItsNumber(key) # 1 => Len(e) = 4 /\ e[3] = ItsNumber(key) /\ e[4] = ItsFinal(key)
      /\ mods # {} => Len(e) = 6 /\ e[3] = ItsNumber(key) /\ e[6] = ItsFinal(key)
  BY EscapeSends
<1>2. /\ mods = {} /\ other.kind = "F" /\ other.code <= 4 =>
           Len(o) = 3 /\ o[2] = 79 /\ o[3] = ItsFinal(other)
      /\ mods = {} /\ ~(other.kind = "F" /\ other.code <= 4) =>
           /\ ItsNumber(other) = 1 => Len(o) = 3 /\ o[2] = 91 /\ o[3] = ItsFinal(other)
           /\ ItsNumber(other) # 1 => Len(o) = 4 /\ o[3] = ItsNumber(other) /\ o[4] = ItsFinal(other)
      /\ mods # {} => Len(o) = 6 /\ o[3] = ItsNumber(other) /\ o[6] = ItsFinal(other)
  BY EscapeSends
<1>3. /\ ItsNumber(key) # ItsNumber(other) \/ ItsFinal(key) # ItsFinal(other)
      /\ key.kind = "F" /\ key.code <= 4 => ItsNumber(key) = 1
      /\ other.kind = "F" /\ other.code <= 4 => ItsNumber(other) = 1
  BY CodesApart
<1> HIDE DEF e, o
<1>4. e # o
  <2> SUFFICES ASSUME e = o PROVE FALSE
    OBVIOUS
  <2> QED  BY ONLY <1>1, <1>2, <1>3, e = o
<1> QED  BY <1>4 DEF e, o

\* Every key sends one byte, or an escape sequence, or is shift and tab.
LEMMA ThreeForms ==
  ASSUME NEW key \in Keys, NEW mods
  PROVE  OneByte(key, mods) \/ BySequence(key) \/ (key = Named("tab") /\ "shift" \in mods)
BY ThreeKinds DEF OneByte, BySequence, Names

\* The lengths of what they send.
LEMMA LengthsApart ==
  ASSUME NEW key \in Keys, NEW mods
  PROVE  /\ OneByte(key, mods) => Len(EncodeKey(key, mods)) < 3
         /\ BySequence(key) => Len(EncodeKey(key, mods)) \in 3..6
                            /\ (mods # {} => Len(EncodeKey(key, mods)) = 6)
         /\ key = Named("tab") /\ "shift" \in mods => Len(EncodeKey(key, mods)) = 3
<1>1. OneByte(key, mods) => Len(EncodeKey(key, mods)) < 3
  <2>1. \A a : Len(AltPrefixed(<<a>>, mods)) < 3
    <3>1. \A n \in 1..2 : n < 3
      OBVIOUS
    <3> QED  BY <3>1, PrefixKeepsApart
  <2>2. Len(NoBytes) < 3
    BY DEF NoBytes
  <2> QED  BY <2>1, <2>2, OneByteSends
<1>2. BySequence(key) => Len(EncodeKey(key, mods)) \in 3..6 /\ (mods # {} => Len(EncodeKey(key, mods)) = 6)
  BY EscapeSends
<1>3. key = Named("tab") /\ "shift" \in mods => Len(EncodeKey(key, mods)) = 3
  <2> SUFFICES ASSUME key = Named("tab"), "shift" \in mods PROVE Len(EncodeKey(key, mods)) = 3
    OBVIOUS
  <2>1. EncodeKey(key, mods) = EncodeNamed(key.name, mods) /\ key.name = "tab"
    BY KeyFacts DEF EncodeKey
  <2>2. EncodeNamed(key.name, mods) = <<Esc, 91, 90>>
    BY <2>1 DEF EncodeNamed, LetterKeys
  <2> QED  BY <2>1, <2>2
<1> QED  BY <1>1, <1>2, <1>3

\* No two keys send the same bytes under the same modifiers, but for the pairs
\* that have always been one control byte.
LEMMA EveryKeyDistinct ==
  ASSUME NEW key \in Keys, NEW mods
  PROVE  KeyDistinct(key, mods)
<1> SUFFICES ASSUME NEW other \in Keys \ {key},
                    EncodeKey(key, mods) = EncodeKey(other, mods), EncodeKey(key, mods) # NoBytes
             PROVE  "ctrl" \in mods /\ {key, other} \in SameControl
  BY DEF KeyDistinct
<1>1. CASE OneByte(key, mods) /\ OneByte(other, mods)
  <2>1. /\ EncodeKey(key, mods) =
              IF ItsByte(key, mods) = -1 THEN NoBytes ELSE AltPrefixed(<<ItsByte(key, mods)>>, mods)
        /\ EncodeKey(other, mods) =
              IF ItsByte(other, mods) = -1 THEN NoBytes ELSE AltPrefixed(<<ItsByte(other, mods)>>, mods)
    BY <1>1, OneByteSends
  <2>2. ItsByte(key, mods) = ItsByte(other, mods) /\ ItsByte(key, mods) # -1
    BY <2>1, PrefixKeepsApart
  <2> QED  BY <1>1, <2>2, OneByteApart
<1>2. CASE BySequence(key) /\ BySequence(other)
  BY <1>2, EscapesApart
<1>3. CASE ~(OneByte(key, mods) /\ OneByte(other, mods)) /\ ~(BySequence(key) /\ BySequence(other))
  <2>1. "shift" \in mods => mods # {}
    OBVIOUS
  <2> DEFINE n == Len(EncodeKey(key, mods))
             Tab(k) == k = Named("tab") /\ "shift" \in mods
  <2>2. /\ OneByte(key, mods) => n < 3
        /\ BySequence(key) => n \in 3..6 /\ (mods # {} => n = 6)
        /\ Tab(key) => n = 3
    BY LengthsApart
  <2>3. /\ OneByte(other, mods) => n < 3
        /\ BySequence(other) => n \in 3..6 /\ (mods # {} => n = 6)
        /\ Tab(other) => n = 3
    BY LengthsApart
  <2>4. /\ OneByte(key, mods) \/ BySequence(key) \/ Tab(key)
        /\ OneByte(other, mods) \/ BySequence(other) \/ Tab(other)
    BY ThreeForms
  <2>5. ~(Tab(key) /\ Tab(other)) /\ (Tab(key) \/ Tab(other) => mods # {})
    BY <2>1
  <2> HIDE DEF n, Tab
  <2> QED  BY ONLY <1>3, <2>2, <2>3, <2>4, <2>5
<1> QED  BY <1>1, <1>2, <1>3

-----------------------------------------------------------------------------
(* The properties that are checked.                                        *)

\* The pages of every content, fenced in under no header, under the header of a
\* scroll buffer, or not fenced in, fit and give the content back: paginate.
THEOREM AllPagesFaithful ==
  ASSUME input.of = "Format" => input.content \in Contents
  PROVE  PagesFaithful
<1> SUFFICES ASSUME input.of = "Format", input.content \in Contents
             PROVE  /\ \A header \in {<<>>, ScrollHeader} :
                         BlockPagesFaithful(header, input.content)
                    /\ PlainPagesFaithful(input.content)
  BY DEF PagesFaithful
<1>1. ASSUME NEW header \in {<<>>, ScrollHeader}
      PROVE  BlockPagesFaithful(header, input.content)
  <2>1. header \in Contents /\ \A c \in Symbols : Overhead(header) + Cost[c] <= SizeLimit
    BY Room
  <2> QED  BY <2>1, BlockPages
<1>2. PlainPagesFaithful(input.content)
  BY ContentFacts, ContentNotFenced, PlainPages
<1> QED  BY <1>1, <1>2

\* Every scroll buffer remains a block with its rows when it is shrunk to any
\* size, extended with any rows and sealed.
THEOREM AllBodiesKeepShape ==
  ASSUME input.of = "Format" => input.content \in Contents
  PROVE  BodiesKeepShape
<1> SUFFICES ASSUME input.of = "Format", input.content \in Contents
             PROVE  /\ \A target \in Targets : ShrinkKeepsBlock(input.content, target)
                    /\ \A rows \in Rows \cup {input.content} :
                         ExtendKeepsBlock(input.content, rows)
  BY DEF BodiesKeepShape
<1>1. \A target \in Targets : target \in Nat
  BY InputAssumption
<1>2. \A rows \in Rows \cup {input.content} : rows \in Contents
  BY InputAssumption
<1> QED  BY <1>1, <1>2, ShrinkBlock, ExtendBlock

\* Wherever the connection breaks, the reader of every sequence of messages takes
\* exactly the frames that arrived whole: write_frame and read_frame.
THEOREM AllWholeFramesOnly ==
  ASSUME input.of = "Frames" =>
           input.msgs \in Seq(Messages) /\ input.cut \in 0..Len(Wire(input.msgs))
  PROVE  WholeFramesOnly
BY FramesHold DEF WholeFramesOnly

\* However the bytes of a sequence of units are cut into chunks, of which the last
\* may end anywhere, each chunk makes the screen do what the units say that it
\* completes, and the bytes after them are kept: process.
THEOREM AllSplitIndependent ==
  ASSUME input.of = "Parser" => /\ input.units \in Seq(Units)
                                /\ input.cuts \in SUBSET (1..Len(BytesOf(input.units)))
  PROVE  SplitIndependent
BY AnyCuts DEF SplitIndependent

\* Every key, under modifiers in any order and by any of their names and with any
\* count, is parsed as what was meant, and under the same modifiers no other key
\* sends its bytes but those that share a control byte: parse_key_combo, encode_key.
THEOREM AllKeysUnderstood ==
  ASSUME input.of = "Commands" => /\ input.key \in Keys /\ input.words \in Seq(Spellings)
                                  /\ input.digits \in Seq(Digits)
  PROVE  KeysUnderstood
BY EveryPress, EveryKeyDistinct DEF KeysUnderstood
=============================================================================
