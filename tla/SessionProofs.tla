---------------------------- MODULE SessionProofs ----------------------------
(***************************************************************************)
(* Theorems about the rows of a session, for every value of the constants  *)
(* of Session.                                                             *)
(***************************************************************************)
EXTENDS Session, SequenceTheorems, TLAPS

-----------------------------------------------------------------------------
(* The inductive invariant.                                                 *)

\* The rows of a sequence of chunks increase.
Increasing(s) == \A a, b \in DOMAIN s : a < b /\ s[a] # 0 /\ s[b] # 0 => s[a] < s[b]

Before(A, B) == \A x \in A, y \in B : x < y

Flow(A, B, C, D, E) ==
  /\ Before(A, B) /\ Before(A, C) /\ Before(A, D) /\ Before(A, E)
  /\ Before(B, C) /\ Before(B, D) /\ Before(B, E)
  /\ Before(C, D) /\ Before(C, E)
  /\ Before(D, E)

DiscardedOf(r) == r.evicted \cup r.cleared \cup r.refused
LostOf(r) == DiscardedOf(r) \cup r.dropped

\* No row has been refused or dropped from r to q.
SameLoss(q, r) == q.refused = r.refused /\ q.dropped = r.dropped

\* The rows of r keep their order and are accounted for, with C, D and E on the
\* way to the renderer, of the n written.
Kept(r, max, C, D, E, n) ==
  /\ r \in Rows /\ Len(r.ring) <= max
  /\ Increasing(r.handed) /\ Increasing(r.ring)
  /\ Flow(Range(r.handed), Range(r.ring), C, D, E)
  /\ (Range(r.handed) \cup Range(r.ring) \cup C \cup D \cup E) \cup LostOf(r) = 1..n
  /\ (Range(r.handed) \cup Range(r.ring) \cup C \cup D \cup E) \cap LostOf(r) = {}
  /\ DiscardedOf(r) \cap r.dropped = {}

Chunks ==
  /\ written \in 0..MaxRows
  /\ ttyOut \in Seq(0..MaxRows) /\ Len(ttyOut) <= TtyCap /\ Increasing(ttyOut)
  /\ reader \in [held : {<<>>} \cup {<<c>> : c \in 0..MaxRows}, done : BOOLEAN]
  /\ output \in Seq(0..MaxRows) /\ Len(output) <= OutputCap /\ Increasing(output)

RowFlow ==
  Chunks /\ Kept(rows, ringMax, RowsOf(output), RowsOf(reader.held), RowsOf(ttyOut), written)

\* The rest of the state is well-typed.
RestType ==
  /\ holders \subseteq {"shell"} \cup Jobs /\ owed \in 0..Echo /\ ttyIn \in 0..TtyCap
  /\ writer \in [held : {0, 1}, done : BOOLEAN] /\ input \in 0..InputCap
  /\ exited \in BOOLEAN
  /\ loop \in {"select", "sending", "flushing", "ended"}
  /\ resume \in {"none", "attach", "chat"}
  /\ outcome \in {"none", "ShellExited", "UserRequestedNew", "UserKilled", "Interrupted"}
  /\ grace \in {"off", "running", "over"} /\ interrupt \in BOOLEAN /\ tickDue \in BOOLEAN
  /\ pressed \in BOOLEAN /\ events \in Seq(AttachKinds) /\ chat \in Seq(ChatKinds)
  /\ arrivals \in 0..MaxArrivals
  /\ ringMax \in RingSizes /\ refresh \in Refreshes
  /\ sinceAnchor \in Nat /\ postedLive \in BOOLEAN

LoopInv ==
  /\ outcome = "none" <=> loop \in {"select", "sending"}
  /\ rows.refused # {} => outcome # "none"

\* The reader thread ends at the end of the file, or after the session.
ReaderInv ==
  reader.done => reader.held = <<>> /\ (~Gone => HungUp /\ ttyOut = <<>>)

\* A session that ended with its output has nothing to come, the others drop
\* what has not reached the loop; the ring is empty after the last frame.
AtEnd == outcome = "ShellExited" /\ grace # "over"

EndInv ==
  /\ AtEnd => HungUp /\ output = <<>> /\ reader.held = <<>> /\ ttyOut = <<>>
  /\ rows.dropped # {} => Gone /\ ~AtEnd
  /\ loop \in {"flushing", "ended"} => rows.ring = <<>>
  /\ Gone => output = <<>>

SessionInv == RowFlow /\ RestType /\ LoopInv /\ ReaderInv /\ EndInv

-----------------------------------------------------------------------------
(* Sequences of chunks.                                                     *)

LEMMA ChunksOfSeq ==
  ASSUME NEW S, NEW s \in Seq(S)
  PROVE  /\ Len(s) \in Nat /\ DOMAIN s = 1..Len(s)
         /\ \A i \in 1..Len(s) : s[i] \in S
         /\ \A x : x \in Range(s) <=> \E i \in 1..Len(s) : s[i] = x
         /\ Range(s) \subseteq S
  BY LenProperties, ElementOfSeq DEF Range

LEMMA TakenOff ==
  ASSUME NEW S \in SUBSET Nat, NEW s \in Seq(S), s # <<>>, Increasing(s)
  PROVE  /\ Head(s) \in S /\ Tail(s) \in Seq(S) /\ Len(Tail(s)) = Len(s) - 1 /\ Increasing(Tail(s))
         /\ RowsOf(Tail(s)) = RowsOf(s) \ {Head(s)}
         /\ Head(s) # 0 => Head(s) \in RowsOf(s) /\ \A x \in RowsOf(Tail(s)) : Head(s) < x
<1> DEFINE t == Tail(s)
<1>1. /\ Head(s) = s[1] /\ t \in Seq(S) /\ Len(t) = Len(s) - 1 /\ Len(s) \in Nat \ {0}
      /\ \A i \in 1..Len(t) : t[i] = s[i + 1]
  BY HeadTailProperties, EmptySeq
<1> HIDE DEF t
<1>2. /\ DOMAIN s = 1..Len(s) /\ DOMAIN t = 1..Len(t)
      /\ \A x : x \in Range(s) <=> \E i \in 1..Len(s) : s[i] = x
      /\ \A x : x \in Range(t) <=> \E i \in 1..Len(t) : t[i] = x
      /\ \A i \in 1..Len(s) : s[i] \in Nat
  <2>1. \A i \in 1..Len(s) : s[i] \in S
    BY ChunksOfSeq
  <2>2. S \subseteq Nat
    OBVIOUS
  <2>3. DOMAIN s = 1..Len(s) /\ \A x : x \in Range(s) <=> \E i \in 1..Len(s) : s[i] = x
    BY ChunksOfSeq
  <2>4. DOMAIN t = 1..Len(t) /\ \A x : x \in Range(t) <=> \E i \in 1..Len(t) : t[i] = x
    <3>1. t \in Seq(S)
      BY <1>1
    <3> QED  BY <3>1, ChunksOfSeq
  <2> QED  BY <2>1, <2>2, <2>3, <2>4
<1>3. Increasing(t)
  <2> SUFFICES ASSUME NEW a \in 1..Len(t), NEW b \in 1..Len(t), a < b, t[a] # 0, t[b] # 0
               PROVE  t[a] < t[b]
    BY <1>2 DEF Increasing
  <2>1. a + 1 \in 1..Len(s) /\ b + 1 \in 1..Len(s) /\ a + 1 < b + 1
    BY <1>1
  <2>2. t[a] = s[a + 1] /\ t[b] = s[b + 1]
    BY <1>1
  <2> QED  BY <1>2, <2>1, <2>2 DEF Increasing
<1>4. \A x \in Range(t) : x \in Range(s) /\ (x # 0 /\ s[1] # 0 => s[1] < x)
  <2> SUFFICES ASSUME NEW i \in 1..Len(t)
               PROVE  /\ t[i] \in Range(s)
                      /\ t[i] # 0 /\ s[1] # 0 => s[1] < t[i]
    BY <1>2
  <2>1. i + 1 \in 1..Len(s) /\ 1 \in 1..Len(s) /\ 1 < i + 1
    BY <1>1
  <2> QED  BY <1>1, <1>2, <2>1 DEF Increasing
<1>5. \A x \in Range(s) : x = s[1] \/ x \in Range(t)
  <2> SUFFICES ASSUME NEW i \in 1..Len(s)
               PROVE  s[i] = s[1] \/ s[i] \in Range(t)
    BY <1>2
  <2>1. CASE i = 1
    BY <2>1
  <2>2. CASE i # 1
    <3>1. i - 1 \in 1..Len(t) /\ (i - 1) + 1 = i
      BY <1>1, <2>2
    <3> QED  BY <1>1, <1>2, <3>1
  <2> QED  BY <2>1, <2>2
<1>6. s[1] \in Range(s) /\ s[1] \in Nat /\ 1 \in 1..Len(s)
  BY <1>1, <1>2
<1>7. RowsOf(t) = RowsOf(s) \ {s[1]}
  <2>1. ASSUME NEW x \in Range(t), x # 0 PROVE x # s[1]
    BY <1>4, <1>6, <2>1
  <2> QED  BY <1>4, <1>5, <2>1 DEF RowsOf
<1>8. s[1] # 0 => s[1] \in RowsOf(s) /\ \A x \in RowsOf(t) : s[1] < x
  BY <1>4, <1>6 DEF RowsOf
<1>9. s[1] \in S
  BY <1>6, ElementOfSeq
<1> QED
  BY <1>1, <1>3, <1>7, <1>8, <1>9 DEF t

LEMMA PutOn ==
  ASSUME NEW S \in SUBSET Nat, NEW s \in Seq(S), Increasing(s), NEW x \in S,
         x # 0 => \A y \in RowsOf(s) : y < x
  PROVE  /\ Append(s, x) \in Seq(S) /\ Len(Append(s, x)) = Len(s) + 1
         /\ Increasing(Append(s, x))
         /\ RowsOf(Append(s, x)) = RowsOf(s) \cup ({x} \ {0})
<1> DEFINE t == Append(s, x)
<1>1. /\ t \in Seq(S) /\ Len(t) = Len(s) + 1 /\ Len(s) \in Nat
      /\ \A i \in 1..Len(s) : t[i] = s[i]
      /\ t[Len(s) + 1] = x
  BY AppendProperties
<1>2. /\ DOMAIN s = 1..Len(s) /\ DOMAIN t = 1..Len(t)
      /\ \A y : y \in Range(s) <=> \E i \in 1..Len(s) : s[i] = y
      /\ \A y : y \in Range(t) <=> \E i \in 1..Len(t) : t[i] = y
  BY <1>1, ChunksOfSeq
<1> HIDE DEF t
<1>3. \A i \in 1..Len(t) : i \in 1..Len(s) \/ i = Len(s) + 1
  BY <1>1
<1>4. 1..Len(s) \subseteq 1..Len(t) /\ Len(s) + 1 \in 1..Len(t)
  BY <1>1
<1>5. Range(t) = Range(s) \cup {x}
  <2>1. \A y \in Range(t) : y \in Range(s) \/ y = x
    BY <1>1, <1>2, <1>3
  <2>2. \A y \in Range(s) : y \in Range(t)
    BY <1>1, <1>2, <1>4
  <2>3. x \in Range(t)
    BY <1>1, <1>2, <1>4
  <2> QED  BY <2>1, <2>2, <2>3
<1>6. Increasing(t)
  <2> SUFFICES ASSUME NEW a \in 1..Len(t), NEW b \in 1..Len(t), a < b, t[a] # 0, t[b] # 0
               PROVE  t[a] < t[b]
    BY <1>2 DEF Increasing
  <2>1. a \in 1..Len(s)
    BY <1>1
  <2>2. CASE b \in 1..Len(s)
    BY <1>1, <1>2, <2>1, <2>2 DEF Increasing
  <2>3. CASE b = Len(s) + 1
    <3>1. t[a] \in RowsOf(s)
      BY <1>1, <1>2, <2>1 DEF RowsOf
    <3> QED  BY <1>1, <2>3, <3>1
  <2> QED  BY <1>3, <2>2, <2>3
<1> QED
  BY <1>1, <1>5, <1>6 DEF t, RowsOf

LEMMA JoinedOn ==
  ASSUME NEW S \in SUBSET Nat, NEW s \in Seq(S), NEW r \in Seq(S), Increasing(s), Increasing(r),
         \A x \in RowsOf(s), y \in RowsOf(r) : x < y
  PROVE  /\ s \o r \in Seq(S) /\ Len(s \o r) = Len(s) + Len(r) /\ Increasing(s \o r)
         /\ RowsOf(s \o r) = RowsOf(s) \cup RowsOf(r)
<1> DEFINE t == s \o r
<1>1. /\ t \in Seq(S) /\ Len(t) = Len(s) + Len(r) /\ Len(s) \in Nat /\ Len(r) \in Nat
      /\ \A i \in 1..(Len(s) + Len(r)) : t[i] = IF i <= Len(s) THEN s[i] ELSE r[i - Len(s)]
  BY ConcatProperties, LenProperties
<1> HIDE DEF t
<1>2. DOMAIN s = 1..Len(s) /\ \A x : x \in Range(s) <=> \E i \in 1..Len(s) : s[i] = x
  BY ChunksOfSeq
<1>3. DOMAIN r = 1..Len(r) /\ \A x : x \in Range(r) <=> \E i \in 1..Len(r) : r[i] = x
  BY ChunksOfSeq
<1>4. DOMAIN t = 1..Len(t) /\ \A x : x \in Range(t) <=> \E i \in 1..Len(t) : t[i] = x
  <2>1. t \in Seq(S)
    BY <1>1
  <2> QED  BY <2>1, ChunksOfSeq
<1>5. ASSUME NEW i \in 1..Len(t)
      PROVE  \/ i \in 1..Len(s) /\ t[i] = s[i]
             \/ i > Len(s) /\ i - Len(s) \in 1..Len(r) /\ t[i] = r[i - Len(s)]
  BY <1>1
<1>6. \A i \in 1..Len(s) : i \in 1..Len(t) /\ t[i] = s[i]
  BY <1>1
<1>7. ASSUME NEW i \in 1..Len(r)
      PROVE  i + Len(s) \in 1..Len(t) /\ t[i + Len(s)] = r[i]
  <2>1. i + Len(s) \in 1..(Len(s) + Len(r)) /\ ~(i + Len(s) <= Len(s))
        /\ (i + Len(s)) - Len(s) = i
    BY <1>1
  <2> QED  BY <1>1, <2>1
<1>8. Range(t) = Range(s) \cup Range(r)
  <2>1. \A x \in Range(t) : x \in Range(s) \/ x \in Range(r)
    BY <1>2, <1>3, <1>4, <1>5
  <2>2. \A x \in Range(s) : x \in Range(t)
    BY <1>2, <1>4, <1>6
  <2>3. \A x \in Range(r) : x \in Range(t)
    BY <1>3, <1>4, <1>7
  <2> QED  BY <2>1, <2>2, <2>3
<1>9. Increasing(t)
  <2> SUFFICES ASSUME NEW a \in 1..Len(t), NEW b \in 1..Len(t), a < b, t[a] # 0, t[b] # 0
               PROVE  t[a] < t[b]
    BY <1>4 DEF Increasing
  <2>1. CASE a \in 1..Len(s) /\ b \in 1..Len(s)
    BY <1>2, <1>6, <2>1 DEF Increasing
  <2>2. CASE a \in 1..Len(s) /\ b > Len(s)
    <3>1. t[a] \in RowsOf(s) /\ t[b] \in RowsOf(r)
      <4>1. t[a] = s[a] /\ b - Len(s) \in 1..Len(r) /\ t[b] = r[b - Len(s)]
        BY <1>1, <1>5, <1>6, <2>2
      <4> QED  BY <1>2, <1>3, <2>2, <4>1 DEF RowsOf
    <3> QED  BY <3>1
  <2>3. CASE a > Len(s)
    <3>1. /\ a - Len(s) \in 1..Len(r) /\ t[a] = r[a - Len(s)]
          /\ b - Len(s) \in 1..Len(r) /\ t[b] = r[b - Len(s)]
          /\ a - Len(s) < b - Len(s)
      <4>1. b > Len(s)
        BY <1>1, <2>3
      <4>2. a \notin 1..Len(s) /\ b \notin 1..Len(s)
        BY <1>1, <2>3, <4>1
      <4> QED  BY <1>1, <1>5, <4>2
    <3> QED  BY <1>3, <3>1 DEF Increasing
  <2> QED  BY <1>1, <2>1, <2>2, <2>3
<1> QED
  BY <1>1, <1>8, <1>9 DEF t, RowsOf

LEMMA CutOff ==
  ASSUME NEW S \in SUBSET (Nat \ {0}), NEW s \in Seq(S), Increasing(s), NEW g \in 0..Len(s)
  PROVE  LET r == SubSeq(s, g + 1, Len(s))
             p == SubSeq(s, 1, g)
         IN  /\ r \in Seq(S) /\ Len(r) = Len(s) - g /\ Increasing(r)
             /\ Range(p) \subseteq S
             /\ Range(s) = Range(p) \cup Range(r) /\ Range(p) \cap Range(r) = {}
<1> DEFINE r == SubSeq(s, g + 1, Len(s))
           p == SubSeq(s, 1, g)
<1>0. Len(s) \in Nat /\ g \in Nat /\ g <= Len(s)
  BY LenProperties
<1>1. DOMAIN s = 1..Len(s) /\ \A x : x \in Range(s) <=> \E i \in 1..Len(s) : s[i] = x
  BY ChunksOfSeq
<1>2. \A i \in 1..Len(s) : s[i] \in S
  BY ElementOfSeq
<1>3. /\ r \in Seq(S) /\ Len(r) = Len(s) - g
      /\ \A i \in 1..Len(r) : r[i] = s[g + i]
  BY <1>0, <1>2
<1>4. /\ p \in Seq(S) /\ Len(p) = g
      /\ \A i \in 1..Len(p) : p[i] = s[i]
  BY <1>0, <1>2
<1> HIDE DEF r, p
<1>5. DOMAIN r = 1..Len(r) /\ \A x : x \in Range(r) <=> \E i \in 1..Len(r) : r[i] = x
  <2>1. r \in Seq(S)
    BY <1>3
  <2> QED  BY <2>1, ChunksOfSeq
<1>6. /\ DOMAIN p = 1..Len(p) /\ \A x : x \in Range(p) <=> \E i \in 1..Len(p) : p[i] = x
      /\ Range(p) \subseteq S
  <2>1. p \in Seq(S)
    BY <1>4
  <2> QED  BY <2>1, ChunksOfSeq
<1>7. \A a, b \in 1..Len(s) : a < b => s[a] < s[b]
  <2>1. \A i \in 1..Len(s) : s[i] # 0
    BY <1>2
  <2> QED  BY <1>1, <2>1 DEF Increasing
<1>8. \A i \in 1..Len(r) : g + i \in 1..Len(s)
  BY <1>0, <1>3
<1>9. \A i \in 1..Len(p) : i \in 1..Len(s) /\ i <= g
  BY <1>0, <1>4
<1>10. Increasing(r)
  <2> SUFFICES ASSUME NEW a \in 1..Len(r), NEW b \in 1..Len(r), a < b
               PROVE  r[a] < r[b]
    BY <1>5 DEF Increasing
  <2>1. g + a \in 1..Len(s) /\ g + b \in 1..Len(s) /\ g + a < g + b
    BY <1>0, <1>8
  <2>2. s[g + a] < s[g + b]
    BY <1>7, <2>1
  <2> QED  BY <1>3, <2>2
<1>11. Range(s) = Range(p) \cup Range(r)
  <2>1. ASSUME NEW i \in 1..Len(s)
        PROVE  s[i] \in Range(p) \/ s[i] \in Range(r)
    <3>1. CASE i <= g
      <4>1. i \in 1..Len(p)
        BY <1>0, <1>4, <3>1
      <4> QED  BY <1>4, <1>6, <4>1
    <3>2. CASE i > g
      <4>1. i - g \in 1..Len(r) /\ g + (i - g) = i
        BY <1>0, <1>3, <3>2
      <4> QED  BY <1>3, <1>5, <4>1
    <3> QED  BY <1>0, <3>1, <3>2
  <2>2. \A x \in Range(r) : x \in Range(s)
    BY <1>1, <1>3, <1>5, <1>8
  <2>3. \A x \in Range(p) : x \in Range(s)
    BY <1>1, <1>4, <1>6, <1>9
  <2> QED  BY <1>1, <2>1, <2>2, <2>3
<1>12. Range(p) \cap Range(r) = {}
  <2> SUFFICES ASSUME NEW i \in 1..Len(p), NEW j \in 1..Len(r), p[i] = r[j] PROVE FALSE
    BY <1>5, <1>6
  <2>1. i \in 1..Len(s) /\ g + j \in 1..Len(s) /\ i < g + j
    BY <1>0, <1>8, <1>9
  <2>2. s[i] < s[g + j] /\ s[i] = s[g + j] /\ s[i] \in Nat
    BY <1>2, <1>3, <1>4, <1>7, <2>1
  <2> QED  BY <2>2
<1> QED
  BY <1>3, <1>6, <1>10, <1>11, <1>12 DEF r, p
-----------------------------------------------------------------------------
(* The stages, said with the sets of rows that they hold.                   *)

LEMMA RowsFacts ==
  ASSUME NEW r \in Rows
  PROVE  /\ r.ring \in Seq(1..MaxRows) /\ r.handed \in Seq(1..MaxRows) /\ r.frames \in 0..Depth
         /\ r.evicted \subseteq 1..MaxRows /\ r.cleared \subseteq 1..MaxRows
         /\ r.refused \subseteq 1..MaxRows /\ r.dropped \subseteq 1..MaxRows
         /\ RowsOf(r.ring) = Range(r.ring) /\ RowsOf(r.handed) = Range(r.handed)
<1>1. /\ r.ring \in Seq(1..MaxRows) /\ r.handed \in Seq(1..MaxRows) /\ r.frames \in 0..Depth
      /\ r.evicted \subseteq 1..MaxRows /\ r.cleared \subseteq 1..MaxRows
      /\ r.refused \subseteq 1..MaxRows /\ r.dropped \subseteq 1..MaxRows
  BY DEF Rows
<1>2. Range(r.ring) \subseteq 1..MaxRows
  BY <1>1, ChunksOfSeq
<1>3. Range(r.handed) \subseteq 1..MaxRows
  BY <1>1, ChunksOfSeq
<1> QED
  BY <1>1, <1>2, <1>3 DEF RowsOf

LEMMA HeldFacts ==
  ASSUME NEW h \in {<<>>} \cup {<<c>> : c \in 0..MaxRows}
  PROVE  /\ h \in Seq(0..MaxRows) /\ Increasing(h)
         /\ \/ h = <<>> /\ RowsOf(h) = {}
            \/ \E c \in 0..MaxRows : h = <<c>> /\ Len(h) = 1 /\ h[1] = c /\ RowsOf(h) = {c} \ {0}
<1>1. CASE h = <<>>
  BY <1>1 DEF Increasing, RowsOf, Range
<1>2. ASSUME NEW c \in 0..MaxRows, h = <<c>>
      PROVE  /\ h \in Seq(0..MaxRows) /\ Increasing(h)
             /\ Len(h) = 1 /\ h[1] = c /\ RowsOf(h) = {c} \ {0}
  <2>1. DOMAIN h = {1} /\ h[1] = c /\ Len(h) = 1 /\ h \in Seq(0..MaxRows)
    BY <1>2
  <2> QED  BY <2>1 DEF Increasing, RowsOf, Range
<1> QED
  BY <1>1, <1>2

Sorted ==
  /\ Increasing(rows.handed) /\ Increasing(rows.ring) /\ Increasing(output)
  /\ Increasing(reader.held) /\ Increasing(ttyOut)
  /\ Flow(RowsOf(rows.handed), RowsOf(rows.ring), RowsOf(output), RowsOf(reader.held), RowsOf(ttyOut))

\* The order of the stages, said with their sets.
LEMMA OrderAsSets == RowsInOrder <=> Sorted
<1> DEFINE Pair(s, t) == \A a \in DOMAIN s, b \in DOMAIN t : s[a] # 0 /\ t[b] # 0 => s[a] < t[b]
<1>1. DOMAIN Stages = 1..5
  BY DEF Stages
<1>2. /\ Stages[1] = rows.handed /\ Stages[2] = rows.ring /\ Stages[3] = output
      /\ Stages[4] = reader.held /\ Stages[5] = ttyOut
  BY DEF Stages
<1>3. RowsInOrder <=> /\ \A i, j \in 1..5 : (i < j => Pair(Stages[i], Stages[j]))
                      /\ \A i \in 1..5 : Increasing(Stages[i])
  <2>1. RowsInOrder <=>
          \A i, j \in 1..5 : \A a \in DOMAIN Stages[i], b \in DOMAIN Stages[j] :
            (i < j \/ (i = j /\ a < b)) /\ Stages[i][a] # 0 /\ Stages[j][b] # 0
              => Stages[i][a] < Stages[j][b]
    BY <1>1 DEF RowsInOrder
  <2>2. ASSUME RowsInOrder, NEW i \in 1..5, NEW j \in 1..5
        PROVE  (i < j => Pair(Stages[i], Stages[j])) /\ Increasing(Stages[i])
    BY <2>1, <2>2 DEF Increasing
  <2>3. ASSUME \A i, j \in 1..5 : (i < j => Pair(Stages[i], Stages[j])),
               \A i \in 1..5 : Increasing(Stages[i])
        PROVE  RowsInOrder
    <3> SUFFICES ASSUME NEW i \in 1..5, NEW j \in 1..5,
                        NEW a \in DOMAIN Stages[i], NEW b \in DOMAIN Stages[j],
                        i < j \/ (i = j /\ a < b), Stages[i][a] # 0, Stages[j][b] # 0
                 PROVE  Stages[i][a] < Stages[j][b]
      BY <2>1
    <3>1. CASE i < j
      BY <2>3, <3>1
    <3>2. CASE i = j /\ a < b
      BY <2>3, <3>2 DEF Increasing
    <3> QED  BY <3>1, <3>2
  <2> QED  BY <2>2, <2>3
<1>4. ASSUME NEW s, NEW t
      PROVE  Pair(s, t) <=> Before(RowsOf(s), RowsOf(t))
  BY DEF Before, RowsOf, Range
<1> HIDE DEF Pair
<1>5. (\A i \in 1..5 : Increasing(Stages[i])) <=>
        /\ Increasing(rows.handed) /\ Increasing(rows.ring) /\ Increasing(output)
        /\ Increasing(reader.held) /\ Increasing(ttyOut)
  <2>1. 1..5 = {1, 2, 3, 4, 5}
    OBVIOUS
  <2> HIDE DEF Increasing
  <2> QED  BY <1>2, <2>1
<1>6. (\A i, j \in 1..5 : (i < j => Pair(Stages[i], Stages[j]))) <=>
        /\ Pair(Stages[1], Stages[2]) /\ Pair(Stages[1], Stages[3])
        /\ Pair(Stages[1], Stages[4]) /\ Pair(Stages[1], Stages[5])
        /\ Pair(Stages[2], Stages[3]) /\ Pair(Stages[2], Stages[4]) /\ Pair(Stages[2], Stages[5])
        /\ Pair(Stages[3], Stages[4]) /\ Pair(Stages[3], Stages[5])
        /\ Pair(Stages[4], Stages[5])
  <2>1. \A i, j \in 1..5 : i < j <=>
          <<i, j>> \in {<<1, 2>>, <<1, 3>>, <<1, 4>>, <<1, 5>>, <<2, 3>>, <<2, 4>>, <<2, 5>>,
                        <<3, 4>>, <<3, 5>>, <<4, 5>>}
    OBVIOUS
  <2> QED  BY <2>1
<1> QED
  BY <1>2, <1>3, <1>4, <1>5, <1>6 DEF Sorted, Flow

LEMMA RowFlowMeans ==
  ASSUME TypeOK, RowFlow
  PROVE  RowsInOrder
<1>1. /\ rows \in Rows
      /\ reader.held \in {<<>>} \cup {<<c>> : c \in 0..MaxRows}
  BY DEF TypeOK
<1>2. RowsOf(rows.ring) = Range(rows.ring) /\ RowsOf(rows.handed) = Range(rows.handed)
  BY <1>1, RowsFacts
<1>3. Increasing(reader.held)
  BY <1>1, HeldFacts
<1>4. Sorted
  BY <1>2, <1>3 DEF RowFlow, Chunks, Kept, Sorted
<1> QED
  BY <1>4, OrderAsSets

-----------------------------------------------------------------------------
(* What the operations of the renderer and of the handle do to the rows.    *)

LEMMA KeptFacts ==
  ASSUME NEW r, NEW max, NEW C, NEW D, NEW E, NEW n, Kept(r, max, C, D, E, n)
  PROVE  /\ r \in Rows /\ r.ring \in Seq(1..MaxRows) /\ r.handed \in Seq(1..MaxRows)
         /\ r.frames \in 0..Depth
         /\ r.evicted \subseteq 1..MaxRows /\ r.cleared \subseteq 1..MaxRows
         /\ r.refused \subseteq 1..MaxRows /\ r.dropped \subseteq 1..MaxRows
         /\ Range(r.ring) \subseteq 1..MaxRows /\ Range(r.handed) \subseteq 1..MaxRows
         /\ RowsOf(r.ring) = Range(r.ring) /\ RowsOf(r.handed) = Range(r.handed)
         /\ Len(r.ring) \in Nat
<1>1. r \in Rows
  BY DEF Kept
<1>2. r.ring \in Seq(1..MaxRows) /\ r.handed \in Seq(1..MaxRows)
  BY <1>1, RowsFacts
<1>3. Range(r.ring) \subseteq 1..MaxRows /\ Len(r.ring) \in Nat
  BY <1>2, ChunksOfSeq
<1>4. Range(r.handed) \subseteq 1..MaxRows
  BY <1>2, ChunksOfSeq
<1> QED
  BY <1>1, <1>2, <1>3, <1>4, RowsFacts

\* A ring that is emptied.
LEMMA EmptyRing ==
  <<>> \in Seq(1..MaxRows) /\ Len(<<>>) = 0 /\ Increasing(<<>>) /\ Range(<<>>) = {}
  BY DEF Increasing, Range

LEMMA KeptSaid ==
  ASSUME NEW r, NEW max, NEW C, NEW D, NEW E, NEW n, Kept(r, max, C, D, E, n)
  PROVE  Kept(Said(r), max, C, D, E, n)
<1> DEFINE q == Said(r)
<1>1. /\ q \in Rows
      /\ q.ring = r.ring /\ q.handed = r.handed
      /\ q.evicted = r.evicted /\ q.cleared = r.cleared /\ SameLoss(q, r)
  <2>1. r \in Rows /\ r.frames \in 0..Depth /\ Depth \in Nat
    BY KeptFacts, CapAssumption
  <2>2. Accept(r.frames) \in 0..Depth
    BY <2>1 DEF Accept
  <2> QED  BY <2>1, <2>2 DEF Said, Rows, SameLoss
<1> HIDE DEF q
<1>2. Kept(q, max, C, D, E, n)
  BY <1>1 DEF Kept, LostOf, DiscardedOf, SameLoss
<1> QED
  BY <1>2 DEF q

LEMMA KeptAnchored ==
  ASSUME NEW r, NEW max \in Nat, NEW C, NEW D, NEW E, NEW n, Kept(r, max, C, D, E, n)
  PROVE  Kept(Anchored(r), max, C, D, E, n)
<1> DEFINE q == Anchored(r)
<1>1. /\ q \in Rows
      /\ q.ring = <<>> /\ q.handed = r.handed
      /\ q.evicted = r.evicted /\ q.cleared = r.cleared \cup Range(r.ring)
      /\ SameLoss(q, r)
  <2>1. /\ r \in Rows /\ r.frames \in 0..Depth /\ Depth \in Nat
        /\ r.cleared \subseteq 1..MaxRows /\ Range(r.ring) \subseteq 1..MaxRows
    BY KeptFacts, CapAssumption
  <2>2. Accept(r.frames) \in 0..Depth
    BY <2>1 DEF Accept
  <2> QED  BY <2>1, <2>2, EmptyRing DEF Anchored, Rows, SameLoss
<1> HIDE DEF q
<1>2. Range(r.handed) \cap Range(r.ring) = {} /\ Range(r.ring) \cap (C \cup D \cup E) = {}
  BY KeptFacts DEF Kept, Flow, Before
<1>3. Kept(q, max, C, D, E, n)
  <2>1. Flow(Range(q.handed), Range(q.ring), C, D, E)
    BY <1>1, EmptyRing DEF Kept, Flow, Before
  <2>2. /\ (Range(q.handed) \cup Range(q.ring) \cup C \cup D \cup E) \cup LostOf(q) = 1..n
        /\ (Range(q.handed) \cup Range(q.ring) \cup C \cup D \cup E) \cap LostOf(q) = {}
        /\ DiscardedOf(q) \cap q.dropped = {}
    BY <1>1, <1>2, EmptyRing DEF Kept, LostOf, DiscardedOf, SameLoss
  <2> QED  BY <1>1, <2>1, <2>2, EmptyRing DEF Kept
<1> QED
  BY <1>3 DEF q

LEMMA KeptHandedOver ==
  ASSUME NEW r, NEW max \in Nat, NEW C, NEW D, NEW E, NEW n, Kept(r, max, C, D, E, n)
  PROVE  /\ Kept(HandedOver(r), max, C, D, E, n)
         /\ HandedOver(r).ring = <<>>
         /\ HandedOver(r).dropped = r.dropped
         /\ HasCapacity(r) => SameLoss(HandedOver(r), r)
<1> DEFINE q == HandedOver(r)
<1>0. /\ r \in Rows /\ r.frames \in 0..Depth /\ Depth \in Nat
      /\ r.handed \in Seq(1..MaxRows) /\ r.ring \in Seq(1..MaxRows)
      /\ r.refused \subseteq 1..MaxRows /\ Range(r.ring) \subseteq 1..MaxRows
      /\ RowsOf(r.ring) = Range(r.ring) /\ RowsOf(r.handed) = Range(r.handed)
  BY KeptFacts, CapAssumption
<1>1. /\ r.handed \o r.ring \in Seq(1..MaxRows) /\ Increasing(r.handed \o r.ring)
      /\ RowsOf(r.handed \o r.ring) = Range(r.handed) \cup Range(r.ring)
  <2>1. \A x \in RowsOf(r.handed), y \in RowsOf(r.ring) : x < y
    BY <1>0 DEF Kept, Flow, Before
  <2>2. 1..MaxRows \in SUBSET Nat /\ Increasing(r.handed) /\ Increasing(r.ring)
    BY DEF Kept
  <2>3. /\ r.handed \o r.ring \in Seq(1..MaxRows) /\ Increasing(r.handed \o r.ring)
        /\ RowsOf(r.handed \o r.ring) = RowsOf(r.handed) \cup RowsOf(r.ring)
    <3>1. r.handed \in Seq(1..MaxRows) /\ r.ring \in Seq(1..MaxRows)
      BY <1>0
    <3> QED  BY ONLY <2>1, <2>2, <3>1, JoinedOn
  <2> QED  BY <1>0, <2>3
<1>2. Range(r.handed \o r.ring) = Range(r.handed) \cup Range(r.ring)
  <2>1. Range(r.handed \o r.ring) \subseteq 1..MaxRows
    BY <1>1, ChunksOfSeq
  <2>2. RowsOf(r.handed \o r.ring) = Range(r.handed \o r.ring)
    BY <2>1 DEF RowsOf
  <2> QED  BY <1>1, <2>2
<1>3. Range(r.handed) \cap Range(r.ring) = {} /\ Range(r.ring) \cap (C \cup D \cup E) = {}
  BY KeptFacts DEF Kept, Flow, Before
<1>4. CASE HasCapacity(r)
  <2>1. /\ q \in Rows /\ q.ring = <<>> /\ q.handed = r.handed \o r.ring
        /\ q.evicted = r.evicted /\ q.cleared = r.cleared /\ SameLoss(q, r)
    <3>1. r.frames + 1 \in 0..Depth
      BY <1>0, <1>4 DEF HasCapacity
    <3> QED  BY <1>0, <1>1, <1>4, <3>1, EmptyRing DEF HandedOver, Rows, SameLoss
  <2> HIDE DEF q
  <2>2. Flow(Range(q.handed), Range(q.ring), C, D, E)
    BY <1>2, <2>1, EmptyRing DEF Kept, Flow, Before
  <2>3. /\ (Range(q.handed) \cup Range(q.ring) \cup C \cup D \cup E) \cup LostOf(q) = 1..n
        /\ (Range(q.handed) \cup Range(q.ring) \cup C \cup D \cup E) \cap LostOf(q) = {}
        /\ DiscardedOf(q) \cap q.dropped = {}
    BY <1>2, <2>1, EmptyRing DEF Kept, LostOf, DiscardedOf, SameLoss
  <2>4. Kept(q, max, C, D, E, n)
    BY <1>1, <2>1, <2>2, <2>3, EmptyRing DEF Kept
  <2> QED  BY <2>1, <2>4 DEF q, SameLoss
<1>5. CASE ~HasCapacity(r)
  <2>1. /\ q \in Rows /\ q.ring = <<>> /\ q.handed = r.handed
        /\ q.evicted = r.evicted /\ q.cleared = r.cleared
        /\ q.refused = r.refused \cup Range(r.ring) /\ q.dropped = r.dropped
    BY <1>0, <1>5, EmptyRing DEF HandedOver, Rows
  <2> HIDE DEF q
  <2>2. Flow(Range(q.handed), Range(q.ring), C, D, E)
    BY <2>1, EmptyRing DEF Kept, Flow, Before
  <2>3. /\ (Range(q.handed) \cup Range(q.ring) \cup C \cup D \cup E) \cup LostOf(q) = 1..n
        /\ (Range(q.handed) \cup Range(q.ring) \cup C \cup D \cup E) \cap LostOf(q) = {}
        /\ DiscardedOf(q) \cap q.dropped = {}
    BY <1>3, <2>1, EmptyRing DEF Kept, LostOf, DiscardedOf, SameLoss
  <2>4. Kept(q, max, C, D, E, n)
    BY <2>1, <2>2, <2>3, EmptyRing DEF Kept
  <2> QED  BY <1>5, <2>1, <2>4 DEF q
<1> QED
  BY <1>4, <1>5
LEMMA KeptShrunk ==
  ASSUME NEW r, NEW max, NEW C, NEW D, NEW E, NEW n, Kept(r, max, C, D, E, n), NEW size \in Nat
  PROVE  Kept(Shrunk(r, size), size, C, D, E, n) /\ SameLoss(Shrunk(r, size), r)
<1> DEFINE q == Shrunk(r, size)
           gone == IF Len(r.ring) > size THEN Len(r.ring) - size ELSE 0
           rest == SubSeq(r.ring, gone + 1, Len(r.ring))
           first == SubSeq(r.ring, 1, gone)
<1>0. /\ r \in Rows /\ r.ring \in Seq(1..MaxRows) /\ Len(r.ring) \in Nat /\ Increasing(r.ring)
      /\ r.evicted \subseteq 1..MaxRows
  BY KeptFacts DEF Kept
<1>1. gone \in 0..Len(r.ring) /\ Len(r.ring) - gone <= size
  BY <1>0
<1>2. q = [r EXCEPT !.ring = rest, !.evicted = @ \cup Range(first)]
  BY DEF Shrunk
<1> HIDE DEF gone, q
<1>3. /\ rest \in Seq(1..MaxRows) /\ Len(rest) = Len(r.ring) - gone /\ Increasing(rest)
      /\ Range(first) \subseteq 1..MaxRows
      /\ Range(r.ring) = Range(first) \cup Range(rest) /\ Range(first) \cap Range(rest) = {}
  <2>1. 1..MaxRows \in SUBSET (Nat \ {0})
    OBVIOUS
  <2> QED  BY <1>0, <1>1, <2>1, CutOff
<1> HIDE DEF rest, first
<1>4. /\ q \in Rows /\ q.ring = rest /\ q.handed = r.handed
      /\ q.evicted = r.evicted \cup Range(first) /\ q.cleared = r.cleared /\ SameLoss(q, r)
  BY <1>0, <1>2, <1>3 DEF Rows, SameLoss
<1>5. Range(r.handed) \cap Range(r.ring) = {} /\ Range(r.ring) \cap (C \cup D \cup E) = {}
  BY KeptFacts DEF Kept, Flow, Before
<1>6. Flow(Range(q.handed), Range(q.ring), C, D, E)
  BY <1>3, <1>4 DEF Kept, Flow, Before
<1>7. /\ (Range(q.handed) \cup Range(q.ring) \cup C \cup D \cup E) \cup LostOf(q) = 1..n
      /\ (Range(q.handed) \cup Range(q.ring) \cup C \cup D \cup E) \cap LostOf(q) = {}
      /\ DiscardedOf(q) \cap q.dropped = {}
  BY <1>3, <1>4, <1>5 DEF Kept, LostOf, DiscardedOf, SameLoss
<1>8. Kept(q, size, C, D, E, n)
  BY <1>1, <1>3, <1>4, <1>6, <1>7 DEF Kept
<1> QED
  BY <1>4, <1>8 DEF q

\* The oldest row on the way is rendered and scrolls off.
LEMMA KeptScrolledOff ==
  ASSUME NEW r, NEW C, NEW D, NEW E, NEW n, Kept(r, ringMax, C, D, E, n), ringMax \in Nat,
         NEW x \in C, x \in 1..MaxRows, \A y \in C \ {x} : x < y
  PROVE  Kept(ScrolledOff(r, x), ringMax, C \ {x}, D, E, n) /\ SameLoss(ScrolledOff(r, x), r)
<1> DEFINE q == ScrolledOff(r, x)
<1>0. /\ r \in Rows /\ r.ring \in Seq(1..MaxRows) /\ Len(r.ring) \in Nat /\ Increasing(r.ring)
      /\ Len(r.ring) <= ringMax
      /\ r.evicted \subseteq 1..MaxRows /\ Range(r.ring) \subseteq 1..MaxRows
      /\ RowsOf(r.ring) = Range(r.ring)
  BY KeptFacts DEF Kept
<1>1. Range(r.handed) \cap Range(r.ring) = {} /\ Range(r.ring) \cap (C \cup D \cup E) = {}
  BY KeptFacts DEF Kept, Flow, Before
<1>2. /\ x \notin Range(r.handed) /\ x \notin Range(r.ring) /\ x \notin D /\ x \notin E
      /\ \A y \in Range(r.ring) : y < x
  BY KeptFacts DEF Kept, Flow, Before
<1>3. 1..MaxRows \in SUBSET Nat
  OBVIOUS
\* q keeps the rows of ring and has evicted those of out.
<1>4. ASSUME NEW ring \in Seq(1..MaxRows), NEW out \in SUBSET (1..MaxRows),
             Increasing(ring), Len(ring) <= ringMax,
             q = [r EXCEPT !.ring = ring, !.evicted = @ \cup out],
             Range(ring) \cup out = Range(r.ring) \cup {x}, Range(ring) \cap out = {}
      PROVE  Kept(q, ringMax, C \ {x}, D, E, n) /\ SameLoss(q, r)
  <2> HIDE DEF q
  <2>1. /\ q \in Rows /\ q.ring = ring /\ q.handed = r.handed
        /\ q.evicted = r.evicted \cup out /\ q.cleared = r.cleared /\ SameLoss(q, r)
    BY <1>0, <1>4 DEF Rows, SameLoss
  <2>2. Before(Range(r.handed), Range(ring)) /\ Before(Range(ring), C \ {x})
        /\ Before(Range(ring), D) /\ Before(Range(ring), E)
    <3>1. \A y \in Range(ring) : y \in Range(r.ring) \/ y = x
      BY <1>4
    <3> QED  BY <3>1, KeptFacts DEF Kept, Flow, Before
  <2>3. Flow(Range(q.handed), Range(q.ring), C \ {x}, D, E)
    BY <2>1, <2>2 DEF Kept, Flow, Before
  <2>4. /\ (Range(q.handed) \cup Range(q.ring) \cup (C \ {x}) \cup D \cup E) \cup LostOf(q) = 1..n
        /\ (Range(q.handed) \cup Range(q.ring) \cup (C \ {x}) \cup D \cup E) \cap LostOf(q) = {}
        /\ DiscardedOf(q) \cap q.dropped = {}
    BY <1>1, <1>2, <1>4, <2>1 DEF Kept, LostOf, DiscardedOf, SameLoss
  <2> QED  BY <1>4, <2>1, <2>3, <2>4 DEF Kept
<1>5. CASE ringMax = 0
  <2>1. q = [r EXCEPT !.ring = r.ring, !.evicted = @ \cup {x}]
    BY <1>0, <1>5 DEF ScrolledOff, Rows
  <2>2. {x} \in SUBSET (1..MaxRows) /\ Range(r.ring) \cap {x} = {}
    BY <1>2
  <2> HIDE DEF q
  <2>3. Kept(q, ringMax, C \ {x}, D, E, n) /\ SameLoss(q, r)
    BY <1>0, <1>4, <2>1, <2>2
  <2> QED  BY <2>3 DEF q
<1>6. CASE ringMax # 0 /\ Len(r.ring) >= ringMax
  <2>0. r.ring # <<>> /\ Len(r.ring) = ringMax
    BY <1>0, <1>6
  <2>1. /\ Head(r.ring) \in 1..MaxRows /\ Tail(r.ring) \in Seq(1..MaxRows)
        /\ Len(Tail(r.ring)) = Len(r.ring) - 1 /\ Increasing(Tail(r.ring))
        /\ RowsOf(Tail(r.ring)) = RowsOf(r.ring) \ {Head(r.ring)}
        /\ Head(r.ring) # 0 => Head(r.ring) \in RowsOf(r.ring)
    BY ONLY <1>0, <1>3, <2>0, TakenOff
  <2>2. /\ Append(Tail(r.ring), x) \in Seq(1..MaxRows)
        /\ Len(Append(Tail(r.ring), x)) = Len(Tail(r.ring)) + 1
        /\ Increasing(Append(Tail(r.ring), x))
        /\ RowsOf(Append(Tail(r.ring), x)) = RowsOf(Tail(r.ring)) \cup ({x} \ {0})
    <3>1. \A y \in RowsOf(Tail(r.ring)) : y < x
      BY <1>0, <1>2, <2>1
    <3>2. x \in 1..MaxRows
      OBVIOUS
    <3> QED  BY ONLY <1>3, <2>1, <3>1, <3>2, PutOn, ZenonT(40)
  <2>3. Range(Append(Tail(r.ring), x)) = RowsOf(Append(Tail(r.ring), x))
    <3>1. Range(Append(Tail(r.ring), x)) \subseteq 1..MaxRows
      BY <2>2, ChunksOfSeq
    <3> QED  BY <3>1 DEF RowsOf
  <2>4. /\ Range(Append(Tail(r.ring), x)) \cup {Head(r.ring)} = Range(r.ring) \cup {x}
        /\ Range(Append(Tail(r.ring), x)) \cap {Head(r.ring)} = {}
    BY <1>0, <1>2, <2>1, <2>2, <2>3
  <2>5. q = [r EXCEPT !.ring = Append(Tail(r.ring), x), !.evicted = @ \cup {Head(r.ring)}]
    BY <1>0, <1>6 DEF ScrolledOff, Rows
  <2>6. Len(Append(Tail(r.ring), x)) <= ringMax
    BY <1>0, <2>0, <2>1, <2>2
  <2>7. {Head(r.ring)} \in SUBSET (1..MaxRows)
    BY <2>1
  <2> HIDE DEF q
  <2>8. Kept(q, ringMax, C \ {x}, D, E, n) /\ SameLoss(q, r)
    BY <1>4, <2>2, <2>4, <2>5, <2>6, <2>7
  <2> QED  BY <2>8 DEF q
<1>7. CASE ringMax # 0 /\ ~(Len(r.ring) >= ringMax)
  <2>1. /\ Append(r.ring, x) \in Seq(1..MaxRows) /\ Len(Append(r.ring, x)) = Len(r.ring) + 1
        /\ Increasing(Append(r.ring, x)) /\ RowsOf(Append(r.ring, x)) = RowsOf(r.ring) \cup ({x} \ {0})
    <3>1. \A y \in RowsOf(r.ring) : y < x
      BY <1>0, <1>2
    <3>2. x \in 1..MaxRows
      OBVIOUS
    <3> QED  BY ONLY <1>0, <1>3, <3>1, <3>2, PutOn
  <2>2. Range(Append(r.ring, x)) = RowsOf(Append(r.ring, x))
    <3>1. Range(Append(r.ring, x)) \subseteq 1..MaxRows
      BY <2>1, ChunksOfSeq
    <3> QED  BY <3>1 DEF RowsOf
  <2>3. Range(Append(r.ring, x)) \cup {} = Range(r.ring) \cup {x}
    BY <1>0, <2>1, <2>2
  <2>4. q = [r EXCEPT !.ring = Append(r.ring, x), !.evicted = @ \cup {}]
    BY <1>0, <1>7 DEF ScrolledOff, Rows
  <2>5. Len(Append(r.ring, x)) <= ringMax
    BY <1>0, <1>7, <2>1
  <2> HIDE DEF q
  <2>6. Kept(q, ringMax, C \ {x}, D, E, n) /\ SameLoss(q, r)
    <3>1. {} \in SUBSET (1..MaxRows) /\ Range(Append(r.ring, x)) \cap {} = {}
      OBVIOUS
    <3> QED  BY <1>4, <2>1, <2>3, <2>4, <2>5, <3>1
  <2> QED  BY <2>6 DEF q
<1> QED
  BY <1>0, <1>5, <1>6, <1>7

LEMMA KeptRefreshed ==
  ASSUME NEW r, NEW max \in Nat, NEW C, NEW D, NEW E, NEW n, Kept(r, max, C, D, E, n),
         NEW live, NEW m
  PROVE  Kept(Refreshed(r, live, m), max, C, D, E, n)
         /\ SameLoss(Refreshed(r, live, m), r)
<1>1. r \in Rows
  BY DEF Kept
<1>2. SameLoss(Anchored(r), r)
  BY <1>1 DEF Anchored, Rows, SameLoss
<1> QED
  BY <1>2, KeptAnchored DEF Refreshed, SameLoss

LEMMA KeptWritten ==
  ASSUME NEW r, NEW max, NEW C, NEW D, NEW E, NEW n \in Nat, Kept(r, max, C, D, E, n)
  PROVE  Kept(r, max, C, D, E \cup {n + 1}, n + 1) /\ \A x \in E : x < n + 1
<1>1. 1..(n + 1) = 1..n \cup {n + 1} /\ n + 1 \notin 1..n /\ \A x \in 1..n : x < n + 1
  OBVIOUS
<1>2. \A x \in Range(r.handed) \cup Range(r.ring) \cup C \cup D \cup E : x < n + 1
  BY <1>1 DEF Kept
<1>3. n + 1 \notin LostOf(r)
  BY <1>1 DEF Kept
<1>4. Flow(Range(r.handed), Range(r.ring), C, D, E \cup {n + 1})
  BY <1>2 DEF Kept, Flow, Before
<1>5. /\ (Range(r.handed) \cup Range(r.ring) \cup C \cup D \cup (E \cup {n + 1})) \cup LostOf(r)
           = 1..(n + 1)
      /\ (Range(r.handed) \cup Range(r.ring) \cup C \cup D \cup (E \cup {n + 1})) \cap LostOf(r) = {}
      /\ DiscardedOf(r) \cap r.dropped = {}
  BY <1>1, <1>3 DEF Kept
<1> QED
  BY <1>2, <1>4, <1>5 DEF Kept

\* The oldest row of the terminal's buffer is in the reader's hand.
LEMMA KeptRead ==
  ASSUME NEW r, NEW max, NEW C, NEW E, NEW n, Kept(r, max, C, {}, E, n),
         NEW x \in E, \A y \in E \ {x} : x < y
  PROVE  Kept(r, max, C, {x}, E \ {x}, n)
<1>1. Flow(Range(r.handed), Range(r.ring), C, {x}, E \ {x})
  BY DEF Kept, Flow, Before
<1>2. E = {x} \cup (E \ {x})
  OBVIOUS
<1>3. (Range(r.handed) \cup Range(r.ring) \cup C \cup {x} \cup (E \ {x}))
        = Range(r.handed) \cup Range(r.ring) \cup C \cup {} \cup E
  BY <1>2
<1> QED
  BY <1>1, <1>3 DEF Kept

LEMMA KeptForwarded ==
  ASSUME NEW r, NEW max, NEW C, NEW D, NEW E, NEW n, Kept(r, max, C, D, E, n)
  PROVE  Kept(r, max, C \cup D, {}, E, n) /\ \A x \in C, y \in D : x < y
<1>1. Flow(Range(r.handed), Range(r.ring), C \cup D, {}, E)
  BY DEF Kept, Flow, Before
<1>2. (Range(r.handed) \cup Range(r.ring) \cup (C \cup D) \cup {} \cup E)
        = Range(r.handed) \cup Range(r.ring) \cup C \cup D \cup E
  OBVIOUS
<1> QED
  BY <1>1, <1>2 DEF Kept, Flow, Before

\* Rows that are thrown away before they reach the renderer.
LEMMA KeptDropped ==
  ASSUME NEW r, NEW max, NEW C, NEW D, NEW E, NEW n, Kept(r, max, C, D, E, n),
         NEW X, X \subseteq 1..MaxRows, NEW q, q = [r EXCEPT !.dropped = @ \cup X]
  PROVE  /\ X = C => Kept(q, max, {}, D, E, n)
         /\ X = D => Kept(q, max, C, {}, E, n)
         /\ q.ring = r.ring /\ q.refused = r.refused
<1>1. r \in Rows /\ r.dropped \subseteq 1..MaxRows
  BY KeptFacts
<1>2. /\ q \in Rows /\ q.ring = r.ring /\ q.handed = r.handed
      /\ q.evicted = r.evicted /\ q.cleared = r.cleared /\ q.refused = r.refused
      /\ q.dropped = r.dropped \cup X
  BY <1>1 DEF Rows
<1>3. /\ C \cap (Range(r.handed) \cup Range(r.ring) \cup D \cup E) = {}
      /\ D \cap (Range(r.handed) \cup Range(r.ring) \cup C \cup E) = {}
  <2>1. Range(r.handed) \cup Range(r.ring) \cup C \cup D \cup E \subseteq Int
    BY DEF Kept
  <2> QED  BY <2>1 DEF Kept, Flow, Before
<1>4. CASE X = C
  BY <1>2, <1>3, <1>4 DEF Kept, Flow, Before, LostOf, DiscardedOf
<1>5. CASE X = D
  BY <1>2, <1>3, <1>5 DEF Kept, Flow, Before, LostOf, DiscardedOf
<1> QED
  BY <1>2, <1>4, <1>5

-----------------------------------------------------------------------------
(* What the invariant says, and that it holds at first.                     *)

\* Where the rows are, said with the sets of the partition.
LEMMA PlacesOfRows ==
  ASSUME SessionInv
  PROVE  /\ UNION {Range(rows.handed), OnItsWay, Discarded, Dropped} = 1..written
         /\ Range(rows.handed) \cap OnItsWay = {}
         /\ (Range(rows.handed) \cup OnItsWay) \cap (Discarded \cup Dropped) = {}
         /\ Discarded \cap Dropped = {}
<1> DEFINE H == Range(rows.handed)  R == Range(rows.ring)  C == RowsOf(output)
           D == RowsOf(reader.held)  E == RowsOf(ttyOut)
<1>1. Kept(rows, ringMax, C, D, E, written)
  BY DEF SessionInv, RowFlow
<1>2. /\ (H \cup R \cup C \cup D \cup E) \cup (Discarded \cup rows.dropped) = 1..written
      /\ (H \cup R \cup C \cup D \cup E) \cap (Discarded \cup rows.dropped) = {}
      /\ Discarded \cap rows.dropped = {}
  BY <1>1 DEF Kept, LostOf, DiscardedOf, Discarded
<1>3. H \cap (R \cup C \cup D \cup E) = {} /\ E \cap (R \cup C \cup D) = {}
  <2>1. H \cup R \cup C \cup D \cup E \subseteq Int
    BY <1>2
  <2> HIDE DEF H, R, C, D, E
  <2>2. Flow(H, R, C, D, E)
    BY <1>1 DEF Kept, H, R
  <2> QED  BY <2>1, <2>2 DEF Flow, Before
<1>4. /\ OnItsWay = R \cup C \cup D \cup (IF reader.done THEN {} ELSE E)
      /\ Dropped = rows.dropped \cup (IF reader.done THEN E ELSE {})
  BY DEF OnItsWay, Dropped
<1> HIDE DEF H, R, C, D, E
<1>5. CASE reader.done
  BY <1>2, <1>3, <1>4, <1>5 DEF H
<1>6. CASE ~reader.done
  BY <1>2, <1>3, <1>4, <1>6 DEF H
<1> QED
  BY <1>5, <1>6

LEMMA MeansRowsInv == SessionInv => RowsInv /\ TrailingOutputKept
<1> SUFFICES ASSUME SessionInv PROVE RowsInv /\ TrailingOutputKept
  OBVIOUS
<1>1. TypeOK
  BY DEF SessionInv, RowFlow, Chunks, Kept, RestType, TypeOK
<1>2. RowsInOrder
  BY <1>1, RowFlowMeans DEF SessionInv
<1>3. rows.refused # {} => outcome # "none"
  BY DEF SessionInv, LoopInv
<1>4. RowsOf(<<>>) = {} /\ Range(<<>>) = {}
  BY EmptyRing DEF RowsOf
<1>5. Dropped # {} => Gone /\ (outcome = "ShellExited" => grace = "over")
  BY <1>4 DEF SessionInv, EndInv, ReaderInv, AtEnd, Dropped
<1>6. Gone /\ reader.done => OnItsWay = {}
  BY <1>4 DEF SessionInv, EndInv, ReaderInv, OnItsWay, Gone
<1>7. RowsAccountedFor
  BY <1>3, <1>5, <1>6, PlacesOfRows DEF RowsAccountedFor
<1>8. TrailingOutputKept
  <2> SUFFICES ASSUME AtEnd PROVE Range(rows.handed) \cup Discarded = 1..written
    BY DEF TrailingOutputKept, AtEnd
  <2>1. /\ rows.ring = <<>> /\ output = <<>> /\ reader.held = <<>> /\ ttyOut = <<>>
        /\ rows.dropped = {}
    BY DEF SessionInv, RestType, EndInv, LoopInv, AtEnd
  <2>2. OnItsWay = {} /\ Dropped = {}
    BY <1>4, <2>1 DEF OnItsWay, Dropped
  <2> QED  BY <2>2, PlacesOfRows
<1> QED
  BY <1>1, <1>2, <1>7, <1>8 DEF RowsInv

LEMMA SessionInit == Init => SessionInv
<1> SUFFICES ASSUME Init PROVE SessionInv
  OBVIOUS
<1>1. /\ rows.ring = <<>> /\ rows.handed = <<>> /\ rows.evicted = {} /\ rows.cleared = {}
      /\ rows.refused = {} /\ rows.dropped = {} /\ rows.frames = 0
      /\ rows = [ring |-> <<>>, frames |-> 0, handed |-> <<>>,
                 evicted |-> {}, cleared |-> {}, refused |-> {}, dropped |-> {}]
  BY DEF Init
<1>2. /\ ringMax \in Nat /\ <<>> \in Seq(0..MaxRows) /\ Len(<<>>) = 0 /\ RowsOf(<<>>) = {}
      /\ Depth \in Nat /\ OutputCap \in Nat /\ TtyCap \in Nat /\ MaxRows \in Nat
  BY CapAssumption, BoundAssumption, EmptyRing DEF Init, RowsOf
<1>3. rows \in Rows
  BY <1>1, <1>2, EmptyRing DEF Rows
<1>4. Kept(rows, ringMax, {}, {}, {}, 0)
  BY <1>1, <1>2, <1>3, EmptyRing DEF Kept, Flow, Before, LostOf, DiscardedOf
<1>5. Chunks /\ RowsOf(output) = {} /\ RowsOf(reader.held) = {} /\ RowsOf(ttyOut) = {} /\ written = 0
  BY <1>2, EmptyRing DEF Init, Chunks
<1>6. RowFlow
  BY <1>4, <1>5 DEF RowFlow
<1>7. RestType
  <2>1. <<>> \in Seq(AttachKinds) /\ <<>> \in Seq(ChatKinds)
    BY EmptySeq
  <2>2. holders \subseteq {"shell"} \cup Jobs
    BY DEF Init
  <2>3. sinceAnchor \in Nat /\ owed \in 0..Echo /\ ttyIn \in 0..TtyCap /\ input \in 0..InputCap
        /\ arrivals \in 0..MaxArrivals
    BY CapAssumption, BoundAssumption DEF Init
  <2> QED  BY <2>1, <2>2, <2>3 DEF Init, RestType
<1> QED
  BY <1>1, <1>6, <1>7 DEF Init, SessionInv, LoopInv, ReaderInv, EndInv, AtEnd

-----------------------------------------------------------------------------
(* The programs and the threads.                                            *)

flowVars == <<rows, ringMax, output, reader, ttyOut, written>>

LEMMA SameFlow ==
  ASSUME RowFlow, UNCHANGED flowVars
  PROVE  RowFlow'
  BY DEF RowFlow, Chunks, Kept, Flow, Before, LostOf, DiscardedOf, Increasing, RowsOf, flowVars

LEMMA WriteStep ==
  ASSUME SessionInv, Write
  PROVE  SessionInv'
<1> USE DEF SessionInv
<1>0. UNCHANGED <<holders, ttyIn, threads, control, inbox, settings, rows>>
  BY DEF Write
<1>1. PICK chunk \in Blanks \cup ({written + 1} \cap 1..MaxRows) :
        /\ ttyOut' = Append(ttyOut, chunk)
        /\ written' = IF chunk = 0 THEN written ELSE chunk
  BY DEF Write
<1>2. /\ written \in 0..MaxRows /\ written \in Nat /\ ttyOut \in Seq(0..MaxRows)
      /\ Increasing(ttyOut) /\ ~HungUp
      /\ Len(ttyOut) < TtyCap /\ Len(ttyOut) \in Nat /\ TtyCap \in Nat /\ MaxRows \in Nat
      /\ Kept(rows, ringMax, RowsOf(output), RowsOf(reader.held), RowsOf(ttyOut), written)
  BY CapAssumption, BoundAssumption, LenProperties DEF RowFlow, Chunks, Write
<1>3. /\ Kept(rows, ringMax, RowsOf(output), RowsOf(reader.held), RowsOf(ttyOut) \cup {written + 1}, written + 1)
      /\ \A x \in RowsOf(ttyOut) : x < written + 1
  BY <1>2, KeptWritten
<1>4. chunk \in 0..MaxRows /\ (chunk = 0 \/ chunk = written + 1)
  BY <1>2, BoundAssumption
<1>5. /\ ttyOut' \in Seq(0..MaxRows) /\ Len(ttyOut') = Len(ttyOut) + 1 /\ Increasing(ttyOut')
      /\ RowsOf(ttyOut') = RowsOf(ttyOut) \cup ({chunk} \ {0})
  <2>1. 0..MaxRows \in SUBSET Nat
    OBVIOUS
  <2>2. chunk # 0 => \A x \in RowsOf(ttyOut) : x < chunk
    BY <1>3, <1>4
  <2> QED  BY <1>1, <1>2, <1>4, <2>1, <2>2, PutOn
<1>6. Chunks'
  BY <1>0, <1>1, <1>2, <1>4, <1>5 DEF RowFlow, Chunks, threads
<1>7. Kept(rows, ringMax, RowsOf(output), RowsOf(reader.held), RowsOf(ttyOut'), written')
  <2>1. CASE chunk = 0
    <3>1. RowsOf(ttyOut') = RowsOf(ttyOut) /\ written' = written
      BY <1>1, <1>5, <2>1
    <3> QED  BY <1>2, <3>1
  <2>2. CASE chunk = written + 1
    <3>1. RowsOf(ttyOut') = RowsOf(ttyOut) \cup {written + 1} /\ written' = written + 1
      BY <1>1, <1>2, <1>5, <2>2
    <3> QED  BY <1>3, <3>1
  <2> QED  BY <1>4, <2>1, <2>2
<1>8. RowFlow'
  <2>1. UNCHANGED <<rows, ringMax, output, reader>>
    BY <1>0 DEF threads, settings
  <2> QED  BY <1>6, <1>7, <2>1 DEF RowFlow
<1>9. RestType'
  <2>1. owed' \in 0..Echo
    BY BoundAssumption DEF Write, RestType
  <2> QED  BY <1>0, <2>1 DEF RestType, threads, control, inbox, settings
<1>10. LoopInv' /\ ReaderInv' /\ EndInv'
  BY <1>0, <1>2 DEF LoopInv, ReaderInv, EndInv, AtEnd, HungUp, Gone, threads, control
<1> QED
  BY <1>8, <1>9, <1>10

LEMMA ReadStep ==
  ASSUME SessionInv, Read
  PROVE  SessionInv'
<1> USE DEF SessionInv
<1>0. UNCHANGED <<holders, written, owed, ttyIn, output, writer, input, exited, control, inbox,
                 settings, rows>>
  BY DEF Read
<1>1. /\ ttyOut \in Seq(0..MaxRows) /\ Increasing(ttyOut) /\ reader.held = <<>> /\ ~reader.done
      /\ reader \in [held : {<<>>} \cup {<<c>> : c \in 0..MaxRows}, done : BOOLEAN]
      /\ Len(ttyOut) \in Nat /\ Len(ttyOut) <= TtyCap /\ TtyCap \in Nat
      /\ Kept(rows, ringMax, RowsOf(output), RowsOf(reader.held), RowsOf(ttyOut), written)
  BY CapAssumption, LenProperties DEF RowFlow, Chunks, Read
<1>2. RestType'
  BY <1>0 DEF RestType, control, inbox, settings
<1>3. LoopInv'
  BY <1>0 DEF LoopInv, control
<1>4. ASSUME AtEnd => reader'.held = <<>> /\ ttyOut' = <<>>
      PROVE  EndInv'
  BY <1>0, <1>4 DEF EndInv, AtEnd, HungUp, Gone, control
<1>5. CASE ttyOut # <<>> /\ reader' = [reader EXCEPT !.held = <<Head(ttyOut)>>] /\ ttyOut' = Tail(ttyOut)
  <2>1. /\ Head(ttyOut) \in 0..MaxRows /\ Tail(ttyOut) \in Seq(0..MaxRows)
        /\ Len(Tail(ttyOut)) = Len(ttyOut) - 1 /\ Increasing(Tail(ttyOut))
        /\ RowsOf(Tail(ttyOut)) = RowsOf(ttyOut) \ {Head(ttyOut)}
        /\ Head(ttyOut) # 0 => /\ Head(ttyOut) \in RowsOf(ttyOut)
                               /\ \A x \in RowsOf(Tail(ttyOut)) : Head(ttyOut) < x
    <3>1. 0..MaxRows \in SUBSET Nat
      OBVIOUS
    <3> QED  BY ONLY <1>1, <1>5, <3>1, TakenOff
  <2>2. reader'.held = <<Head(ttyOut)>> /\ reader'.done = FALSE
        /\ reader' \in [held : {<<>>} \cup {<<c>> : c \in 0..MaxRows}, done : BOOLEAN]
    BY <1>1, <1>5, <2>1
  <2>3. RowsOf(reader'.held) = {Head(ttyOut)} \ {0} /\ RowsOf(reader.held) = {}
    BY <1>1, <2>1, <2>2, EmptyRing DEF RowsOf, Range
  <2>4. Chunks'
    BY <1>0, <1>1, <1>5, <2>1, <2>2 DEF RowFlow, Chunks
  <2>5. Kept(rows, ringMax, RowsOf(output), RowsOf(reader'.held), RowsOf(ttyOut'), written)
    <3>1. CASE Head(ttyOut) = 0
      <4>1. RowsOf(reader'.held) = {} /\ RowsOf(ttyOut') = RowsOf(ttyOut)
        BY <1>5, <2>1, <2>3, <3>1 DEF RowsOf
      <4> QED  BY <1>1, <2>3, <4>1
    <3>2. CASE Head(ttyOut) # 0
      <4>1. RowsOf(reader'.held) = {Head(ttyOut)} /\ RowsOf(ttyOut') = RowsOf(ttyOut) \ {Head(ttyOut)}
        BY <1>5, <2>1, <2>3, <3>2
      <4>2. Kept(rows, ringMax, RowsOf(output), {}, RowsOf(ttyOut), written)
        BY <1>1, <2>3
      <4>3. Kept(rows, ringMax, RowsOf(output), {Head(ttyOut)}, RowsOf(ttyOut) \ {Head(ttyOut)}, written)
        BY <2>1, <3>2, <4>2, KeptRead
      <4> QED  BY <4>1, <4>3
    <3> QED  BY <3>1, <3>2
  <2>6. RowFlow'
    BY <1>0, <2>4, <2>5 DEF RowFlow, settings
  <2>7. ReaderInv'
    BY <2>2 DEF ReaderInv
  <2>8. EndInv'
    BY <1>4, <1>5 DEF EndInv
  <2> QED  BY <1>2, <1>3, <2>6, <2>7, <2>8
<1>6. CASE ttyOut = <<>> /\ HungUp /\ reader' = [reader EXCEPT !.done = TRUE] /\ UNCHANGED ttyOut
  <2>1. reader'.held = <<>> /\ reader'.done = TRUE
        /\ reader' \in [held : {<<>>} \cup {<<c>> : c \in 0..MaxRows}, done : BOOLEAN]
    BY <1>1, <1>6
  <2>2. Chunks'
    BY <1>0, <1>6, <2>1 DEF RowFlow, Chunks
  <2>3. RowFlow'
    BY <1>0, <1>1, <1>6, <2>1, <2>2 DEF RowFlow, settings
  <2>4. ReaderInv'
    BY <1>0, <1>6, <2>1 DEF ReaderInv, HungUp
  <2>5. EndInv'
    BY <1>4, <1>6, <2>1
  <2> QED  BY <1>2, <1>3, <2>3, <2>4, <2>5
<1> QED
  BY <1>5, <1>6 DEF Read

LEMMA ForwardStep ==
  ASSUME SessionInv, Forward
  PROVE  SessionInv'
<1> USE DEF SessionInv
<1>0. UNCHANGED <<terminal, writer, input, exited, control, inbox, settings>>
  BY DEF Forward
<1>1. /\ output \in Seq(0..MaxRows) /\ Increasing(output) /\ reader.held # <<>> /\ ~reader.done
      /\ reader \in [held : {<<>>} \cup {<<c>> : c \in 0..MaxRows}, done : BOOLEAN]
      /\ Len(output) \in Nat /\ Len(output) <= OutputCap /\ OutputCap \in Nat
      /\ Kept(rows, ringMax, RowsOf(output), RowsOf(reader.held), RowsOf(ttyOut), written)
  BY CapAssumption, LenProperties DEF RowFlow, Chunks, Forward
<1>2. RestType'
  BY <1>0 DEF RestType, terminal, control, inbox, settings
<1>5. CASE /\ OutputDropped /\ UNCHANGED output
           /\ reader' = [held |-> <<>>, done |-> TRUE]
           /\ rows' = [rows EXCEPT !.dropped = @ \cup RowsOf(reader.held)]
  <2>1. reader'.held = <<>> /\ reader'.done = TRUE /\ RowsOf(reader'.held) = {}
        /\ reader' \in [held : {<<>>} \cup {<<x>> : x \in 0..MaxRows}, done : BOOLEAN]
    BY <1>5, EmptyRing DEF RowsOf
  <2>2. Chunks'
    BY <1>0, <1>5, <2>1 DEF RowFlow, Chunks, terminal
  <2>3. /\ Kept(rows', ringMax, RowsOf(output), {}, RowsOf(ttyOut), written)
        /\ rows'.ring = rows.ring /\ rows'.refused = rows.refused
    <3>1. RowsOf(reader.held) \subseteq 1..MaxRows
      BY <1>1, HeldFacts
    <3>2. rows' = [rows EXCEPT !.dropped = @ \cup RowsOf(reader.held)]
      BY <1>5
    <3>3. Kept(rows, ringMax, RowsOf(output), RowsOf(reader.held), RowsOf(ttyOut), written)
      BY <1>1
    <3> QED  BY ONLY <3>1, <3>2, <3>3, KeptDropped
  <2>4. RowFlow'
    BY <1>0, <1>5, <2>1, <2>2, <2>3 DEF RowFlow, settings, terminal
  <2>5. ReaderInv'
    BY <1>0, <1>5, <2>1 DEF ReaderInv, OutputDropped, Gone, control
  <2>6. LoopInv'
    BY <1>0, <2>3 DEF LoopInv, control
  <2>7. EndInv'
    BY <1>0, <1>1, <1>5, <2>1, <2>3 DEF EndInv, AtEnd, HungUp, Gone, OutputDropped, terminal, control
  <2> QED  BY <1>2, <2>4, <2>5, <2>6, <2>7
<1>6. CASE /\ ~OutputDropped /\ Len(output) < OutputCap /\ output' = output \o reader.held
           /\ reader' = [reader EXCEPT !.held = <<>>] /\ UNCHANGED rows
  <2>1. PICK c \in 0..MaxRows : reader.held = <<c>>
    BY <1>1
  <2>2. Len(reader.held) = 1 /\ reader.held \in Seq(0..MaxRows) /\ Increasing(reader.held)
    BY <1>1, <2>1, HeldFacts
  <2>3. /\ Kept(rows, ringMax, RowsOf(output) \cup RowsOf(reader.held), {}, RowsOf(ttyOut), written)
        /\ \A x \in RowsOf(output), y \in RowsOf(reader.held) : x < y
    BY <1>1, KeptForwarded
  <2>4. /\ output' \in Seq(0..MaxRows) /\ Len(output') = Len(output) + 1 /\ Increasing(output')
        /\ RowsOf(output') = RowsOf(output) \cup RowsOf(reader.held)
    <3>1. 0..MaxRows \in SUBSET Nat
      OBVIOUS
    <3>2. /\ output \o reader.held \in Seq(0..MaxRows)
          /\ Len(output \o reader.held) = Len(output) + Len(reader.held)
          /\ Increasing(output \o reader.held)
          /\ RowsOf(output \o reader.held) = RowsOf(output) \cup RowsOf(reader.held)
      <4>1. output \in Seq(0..MaxRows) /\ Increasing(output)
        BY <1>1
      <4> QED  BY ONLY <2>2, <2>3, <3>1, <4>1, JoinedOn
    <3> QED  BY <1>6, <2>2, <3>2
  <2>5. reader'.held = <<>> /\ reader'.done = FALSE /\ RowsOf(reader'.held) = {}
        /\ reader' \in [held : {<<>>} \cup {<<x>> : x \in 0..MaxRows}, done : BOOLEAN]
    BY <1>1, <1>6, EmptyRing DEF RowsOf
  <2>6. Chunks'
    BY <1>0, <1>1, <1>6, <2>4, <2>5 DEF RowFlow, Chunks, terminal
  <2>7. RowFlow'
    BY <1>0, <1>6, <2>3, <2>4, <2>5, <2>6 DEF RowFlow, settings, terminal
  <2>8. ReaderInv'
    BY <2>5 DEF ReaderInv
  <2>9. LoopInv'
    BY <1>0, <1>6 DEF LoopInv, control
  <2>10. EndInv'
    BY <1>0, <1>1, <1>6 DEF EndInv, AtEnd, HungUp, Gone, OutputDropped, terminal, control
  <2> QED  BY <1>2, <2>7, <2>8, <2>9, <2>10
<1> QED
  BY <1>5, <1>6 DEF Forward
-----------------------------------------------------------------------------
(* Steps that leave the rows where they are.                                *)

LEMMA BranchMeans ==
  ASSUME NEW i \in 1..7, Branch(i)
  PROVE  loop = "select" /\ Ready[i]
  BY DEF Branch

\* What a step has to keep if it moves no row and does not end the session.
LEMMA Aside ==
  ASSUME SessionInv, RestType', UNCHANGED <<flowVars, outcome>>, holders' \subseteq holders,
         outcome = "none" \/ UNCHANGED grace,
         loop' \in {"select", "sending"} <=> loop \in {"select", "sending"}, Gone' <=> Gone
  PROVE  SessionInv'
<1> USE DEF SessionInv, flowVars
<1>1. RowFlow'
  BY SameFlow
<1>2. LoopInv'
  BY DEF LoopInv
<1>3. ReaderInv'
  BY DEF ReaderInv, HungUp
<1>4. EndInv'
  <2>1. AtEnd' <=> AtEnd
    BY DEF AtEnd, LoopInv
  <2> QED  BY <2>1 DEF EndInv, RestType, HungUp, Gone
<1> QED
  BY <1>1, <1>2, <1>3, <1>4

LEMMA ProgramStep ==
  ASSUME SessionInv, Consume \/ Exit
  PROVE  SessionInv'
<1>1. UNCHANGED <<written, ttyOut, threads, control, inbox, settings, rows>>
  BY DEF Consume, Exit
<1>2. holders' \subseteq holders
  BY DEF Consume, Exit
<1>3. RestType'
  <2>1. owed' \in 0..Echo /\ ttyIn' \in 0..TtyCap
    BY CapAssumption, BoundAssumption DEF Consume, Exit, SessionInv, RestType
  <2> QED  BY <1>1, <1>2, <2>1 DEF SessionInv, RestType, threads, control, inbox, settings
<1> QED
  BY <1>1, <1>2, <1>3, Aside DEF Gone, flowVars, threads, control, settings

LEMMA WriterStep ==
  ASSUME SessionInv, Fetch \/ Type \/ Watch
  PROVE  SessionInv'
<1>1. UNCHANGED <<holders, written, owed, ttyOut, reader, output, control, inbox, settings, rows>>
  BY DEF Fetch, Type, Watch, terminal
<1>2. /\ writer' \in [held : {0, 1}, done : BOOLEAN] /\ input' \in 0..InputCap
      /\ ttyIn' \in 0..TtyCap /\ exited' \in BOOLEAN
  <2> USE DEF SessionInv, RestType
  <2>1. CASE Fetch
    <3>1. \/ input > 0 /\ input' = input - 1 /\ writer' = [writer EXCEPT !.held = 1]
          \/ writer' = [writer EXCEPT !.done = TRUE] /\ UNCHANGED input
      BY <2>1 DEF Fetch
    <3>2. writer' \in [held : {0, 1}, done : BOOLEAN]
      BY <3>1
    <3>3. input' \in 0..InputCap
      BY <3>1, CapAssumption
    <3> QED  BY <2>1, <3>2, <3>3 DEF Fetch, terminal
  <2>2. CASE Type
    <3>1. \/ writer' = [writer EXCEPT !.done = TRUE] /\ UNCHANGED ttyIn
          \/ /\ ttyIn < TtyCap /\ ttyIn' = ttyIn + 1
             /\ writer' = [writer EXCEPT !.held = 0]
      BY <2>2 DEF Type
    <3>2. writer' \in [held : {0, 1}, done : BOOLEAN]
      BY <3>1
    <3>3. ttyIn' \in 0..TtyCap
      BY <3>1, CapAssumption
    <3> QED  BY <2>2, <3>2, <3>3 DEF Type
  <2>3. CASE Watch
    BY <2>3 DEF Watch, terminal
  <2> QED  BY <2>1, <2>2, <2>3
<1>3. RestType'
  BY <1>1, <1>2 DEF SessionInv, RestType, control, inbox, settings
<1> QED
  BY <1>1, <1>3, Aside DEF Gone, flowVars, control, settings

LEMMA AroundStep ==
  ASSUME SessionInv, Press \/ ChatArrives \/ EventArrives \/ TickElapses \/ GraceElapses
  PROVE  SessionInv'
<1>1. UNCHANGED <<terminal, threads, loop, resume, outcome, settings, rows>>
  BY DEF Press, ChatArrives, EventArrives, TickElapses, GraceElapses, control
<1>2. outcome = "none" \/ UNCHANGED grace
  BY DEF Press, ChatArrives, EventArrives, TickElapses, GraceElapses, control
<1>3. RestType'
  <2>1. /\ grace' \in {"off", "running", "over"} /\ interrupt' \in BOOLEAN /\ tickDue' \in BOOLEAN
        /\ pressed' \in BOOLEAN
    BY DEF Press, ChatArrives, EventArrives, TickElapses, GraceElapses, SessionInv, RestType,
           control, inbox
  <2>2. events' \in Seq(AttachKinds)
    <3>1. CASE EventArrives
      <4>1. PICK kind \in AttachKinds : events' = Append(events, kind)
        BY <3>1, BoundAssumption DEF EventArrives
      <4> QED  BY <4>1, AppendProperties DEF SessionInv, RestType
    <3> QED  BY <3>1 DEF Press, ChatArrives, TickElapses, GraceElapses, SessionInv, RestType, inbox
  <2>3. chat' \in Seq(ChatKinds)
    <3>1. CASE ChatArrives
      <4>1. PICK kind \in ChatKinds : chat' = Append(chat, kind)
        BY <3>1, BoundAssumption DEF ChatArrives
      <4> QED  BY <4>1, AppendProperties DEF SessionInv, RestType
    <3> QED  BY <3>1 DEF Press, EventArrives, TickElapses, GraceElapses, SessionInv, RestType, inbox
  <2>4. arrivals' \in 0..MaxArrivals
    BY BoundAssumption DEF Press, ChatArrives, EventArrives, TickElapses, GraceElapses, SessionInv,
                           RestType, inbox
  <2> QED  BY <1>1, <2>1, <2>2, <2>3, <2>4 DEF SessionInv, RestType, terminal, threads, settings
<1> QED
  BY <1>1, <1>2, <1>3, Aside DEF Gone, flowVars, terminal, threads, settings

LEMMA ShellReapedStep ==
  ASSUME SessionInv, ShellReaped
  PROVE  SessionInv'
<1>1. UNCHANGED <<terminal, threads, loop, resume, outcome, interrupt, tickDue, inbox, settings, rows>>
      /\ grace' = "running"
  BY DEF ShellReaped
<1>2. outcome = "none"
  <2>1. loop = "select"
    BY BranchMeans DEF ShellReaped
  <2> QED  BY <2>1 DEF SessionInv, LoopInv
<1>3. RestType'
  BY <1>1 DEF SessionInv, RestType, terminal, threads, inbox, settings
<1> QED
  BY <1>1, <1>2, <1>3, Aside DEF Gone, flowVars, terminal, threads, settings

LEMMA SentMeans ==
  ASSUME RestType, Sent \/ \E who \in {"attach", "chat"} : Suspend(who)
  PROVE  input' \in 0..InputCap
  BY CapAssumption DEF RestType, Sent, Suspend

LEMMA AttachEventStep ==
  ASSUME SessionInv, AttachEvent
  PROVE  SessionInv'
<1>1. /\ UNCHANGED <<terminal, reader, output, writer, exited, outcome, grace, interrupt, tickDue>>
      /\ UNCHANGED <<pressed, chat, arrivals, settings, rows>>
      /\ events' = Tail(events) /\ events # <<>>
      /\ loop = "select"
  <2>1. loop = "select" /\ Ready[5]
    <3>1. Branch(5) /\ 5 \in 1..7
      BY DEF AttachEvent
    <3> QED  BY ONLY <3>1, BranchMeans
  <2> QED  BY <2>1 DEF AttachEvent, Ready
<1>2. /\ loop' \in {"select", "sending"} /\ resume' \in {"none", "attach", "chat"}
      /\ input' \in 0..InputCap
  <2>1. CASE UNCHANGED <<input, loop, resume>>
    BY <1>1, <2>1 DEF SessionInv, RestType
  <2>2. CASE Sent /\ UNCHANGED <<loop, resume>>
    BY <1>1, <2>2, SentMeans DEF SessionInv, RestType
  <2>3. CASE Suspend("attach")
    BY <1>1, <2>3, SentMeans DEF SessionInv, RestType, Suspend
  <2> QED  BY <2>1, <2>2, <2>3 DEF AttachEvent
<1>3. RestType'
  <2>1. events' \in Seq(AttachKinds)
    BY <1>1, HeadTailProperties DEF SessionInv, RestType
  <2> QED  BY <1>1, <1>2, <2>1 DEF SessionInv, RestType, terminal, settings
<1> QED
  BY <1>1, <1>2, <1>3, Aside DEF Gone, flowVars, terminal, settings

LEMMA StutterStep ==
  ASSUME SessionInv, UNCHANGED vars
  PROVE  SessionInv'
<1>1. UNCHANGED <<terminal, threads, control, inbox, settings, rows>>
  BY DEF vars
<1>2. RestType'
  BY <1>1 DEF SessionInv, RestType, terminal, threads, control, inbox, settings
<1> QED
  BY <1>1, <1>2, Aside DEF Gone, flowVars, terminal, threads, control, settings
-----------------------------------------------------------------------------
(* Steps that move rows.                                                    *)

\* What a step of the loop has to keep if it moves rows and the loop goes on.
LEMMA GoesOn ==
  ASSUME SessionInv, RestType', RowFlow', SameLoss(rows', rows),
         UNCHANGED <<holders, ttyOut, reader, outcome>>,
         loop \in {"select", "sending"}, loop' \in {"select", "sending"}
  PROVE  SessionInv'
<1>1. /\ outcome = "none" /\ outcome' = "none" /\ rows.refused = {} /\ rows.dropped = {}
      /\ rows'.refused = {} /\ rows'.dropped = {}
  BY DEF SessionInv, LoopInv, EndInv, Gone, SameLoss
<1>2. EndInv' /\ LoopInv'
  BY <1>1 DEF EndInv, LoopInv, AtEnd, Gone
<1> QED
  BY <1>2 DEF SessionInv, ReaderInv, HungUp, Gone
\* And the rows themselves, if the threads hold what they held.
LEMMA RowsGoOn ==
  ASSUME RowFlow, UNCHANGED <<output, reader, ttyOut, written>>,
         Kept(rows', ringMax', RowsOf(output), RowsOf(reader.held), RowsOf(ttyOut), written)
  PROVE  RowFlow'
<1>1. Chunks'
  BY DEF RowFlow, Chunks, Increasing
<1> QED
  BY <1>1 DEF RowFlow, RowsOf

LEMMA DispatcherTakesStep ==
  ASSUME SessionInv, DispatcherTakes
  PROVE  SessionInv'
<1>0. UNCHANGED <<terminal, threads, control, inbox, settings>>
  BY DEF DispatcherTakes
<1>1. Kept(rows, ringMax, RowsOf(output), RowsOf(reader.held), RowsOf(ttyOut), written)
  BY DEF SessionInv, RowFlow
<1>2. /\ rows' \in Rows
      /\ rows'.ring = rows.ring /\ rows'.handed = rows.handed /\ rows'.evicted = rows.evicted
      /\ rows'.cleared = rows.cleared /\ SameLoss(rows', rows)
  <2>1. rows \in Rows /\ rows.frames \in 0..Depth /\ Depth \in Nat
    BY <1>1, KeptFacts, CapAssumption
  <2>2. rows.frames - 1 \in 0..Depth /\ rows' = [rows EXCEPT !.frames = rows.frames - 1]
    BY <2>1 DEF DispatcherTakes
  <2> QED  BY <2>1, <2>2 DEF Rows, SameLoss
<1>3. Kept(rows', ringMax, RowsOf(output), RowsOf(reader.held), RowsOf(ttyOut), written)
  BY <1>1, <1>2 DEF Kept, LostOf, DiscardedOf, SameLoss
<1>4. RowFlow'
  BY <1>0, <1>3, RowsGoOn DEF SessionInv, terminal, threads, settings
<1>5. RestType'
  BY <1>0 DEF SessionInv, RestType, terminal, threads, control, inbox, settings
<1>6. LoopInv' /\ ReaderInv'
  BY <1>0, <1>2 DEF SessionInv, LoopInv, ReaderInv, HungUp, Gone, terminal, threads, control, SameLoss
<1>7. EndInv'
  BY <1>0, <1>2 DEF SessionInv, EndInv, AtEnd, HungUp, Gone, terminal, threads, control, SameLoss
<1> QED
  BY <1>4, <1>5, <1>6, <1>7 DEF SessionInv

LEMMA ReturnStep ==
  ASSUME SessionInv, Return
  PROVE  SessionInv'
<1>0. /\ UNCHANGED <<terminal, reader, writer, input, exited>>
      /\ UNCHANGED <<resume, outcome, grace, interrupt, tickDue, inbox, settings>>
      /\ loop = "flushing" /\ loop' = "ended" /\ output' = <<>>
      /\ rows' = [rows EXCEPT !.dropped = @ \cup RowsOf(output)]
  BY DEF Return
<1>1. /\ output \in Seq(0..MaxRows) /\ OutputCap \in Nat
      /\ Kept(rows, ringMax, RowsOf(output), RowsOf(reader.held), RowsOf(ttyOut), written)
  BY CapAssumption DEF SessionInv, RowFlow, Chunks
<1>2. RowsOf(output) \subseteq 1..MaxRows /\ RowsOf(<<>>) = {} /\ Increasing(<<>>)
  <2>1. Range(output) \subseteq 0..MaxRows
    BY <1>1, ChunksOfSeq
  <2> QED  BY <2>1, EmptyRing DEF RowsOf
<1>3. /\ Kept(rows', ringMax, {}, RowsOf(reader.held), RowsOf(ttyOut), written)
      /\ rows'.ring = rows.ring /\ rows'.refused = rows.refused
  BY <1>0, <1>1, <1>2, KeptDropped
<1>4. Chunks'
  BY <1>0, <1>1, <1>2 DEF SessionInv, RowFlow, Chunks, terminal, Increasing
<1>5. RowFlow'
  BY <1>0, <1>2, <1>3, <1>4 DEF RowFlow, terminal, settings
<1>6. RestType'
  BY <1>0 DEF SessionInv, RestType, terminal, inbox, settings
<1>7. LoopInv' /\ ReaderInv'
  BY <1>0, <1>3 DEF SessionInv, LoopInv, ReaderInv, HungUp, Gone, terminal
<1>8. EndInv'
  <2>1. AtEnd => rows'.dropped = {}
    BY <1>0, <1>1, <1>2, KeptFacts DEF SessionInv, EndInv, Rows
  <2> QED  BY <1>0, <1>3, <2>1 DEF SessionInv, EndInv, AtEnd, HungUp, Gone, terminal
<1> QED
  BY <1>5, <1>6, <1>7, <1>8 DEF SessionInv

LEMMA ProcessOutputStep ==
  ASSUME SessionInv, ProcessOutput
  PROVE  SessionInv'
<1>0. /\ UNCHANGED <<terminal, reader, writer, input, exited, control, inbox, settings>>
      /\ output # <<>> /\ output' = Tail(output) /\ rows' = Processed(rows, Head(output))
  BY DEF ProcessOutput
<1>1. loop = "select"
  <2>1. Branch(4) /\ 4 \in 1..7
    BY DEF ProcessOutput
  <2> QED  BY ONLY <2>1, BranchMeans
<1>2. /\ output \in Seq(0..MaxRows) /\ Increasing(output) /\ ringMax \in Nat /\ OutputCap \in Nat
      /\ Len(output) \in Nat /\ Len(output) <= OutputCap
      /\ Kept(rows, ringMax, RowsOf(output), RowsOf(reader.held), RowsOf(ttyOut), written)
  BY CapAssumption, LenProperties DEF SessionInv, RowFlow, Chunks, RestType
<1>3. /\ Head(output) \in 0..MaxRows /\ Tail(output) \in Seq(0..MaxRows)
      /\ Len(Tail(output)) = Len(output) - 1 /\ Increasing(Tail(output))
      /\ RowsOf(Tail(output)) = RowsOf(output) \ {Head(output)}
      /\ Head(output) # 0 => /\ Head(output) \in RowsOf(output)
                             /\ \A x \in RowsOf(Tail(output)) : Head(output) < x
  <2>1. 0..MaxRows \in SUBSET Nat /\ output # <<>> /\ output \in Seq(0..MaxRows) /\ Increasing(output)
    BY <1>0, <1>2
  <2> QED  BY ONLY <2>1, TakenOff
<1>4. /\ Kept(rows', ringMax, RowsOf(output'), RowsOf(reader.held), RowsOf(ttyOut), written)
      /\ SameLoss(rows', rows)
  <2>1. CASE Head(output) = 0
    <3>1. RowsOf(output') = RowsOf(output) /\ rows' = rows
      BY <1>0, <1>3, <2>1 DEF RowsOf, Processed
    <3> QED  BY <1>2, <3>1 DEF SameLoss
  <2>2. CASE Head(output) # 0
    <3>1. rows' = ScrolledOff(rows, Head(output)) /\ RowsOf(output') = RowsOf(output) \ {Head(output)}
      BY <1>0, <1>3, <2>2 DEF Processed
    <3>2. /\ Head(output) \in RowsOf(output) /\ Head(output) \in 1..MaxRows
          /\ \A y \in RowsOf(output) \ {Head(output)} : Head(output) < y
      BY <1>3, <2>2
    <3>3. /\ Kept(ScrolledOff(rows, Head(output)), ringMax, RowsOf(output) \ {Head(output)},
                  RowsOf(reader.held), RowsOf(ttyOut), written)
          /\ SameLoss(ScrolledOff(rows, Head(output)), rows)
      BY <1>2, <3>2, KeptScrolledOff
    <3> QED  BY <3>1, <3>3
  <2> QED  BY <2>1, <2>2
<1>5. RowFlow'
  <2>1. Chunks'
    BY <1>0, <1>2, <1>3 DEF SessionInv, RowFlow, Chunks, terminal, Increasing
  <2>2. UNCHANGED <<ringMax, reader, ttyOut, written>>
    BY <1>0 DEF terminal, settings
  <2> QED  BY <1>4, <2>1, <2>2 DEF RowFlow
<1>6. RestType'
  BY <1>0 DEF SessionInv, RestType, terminal, control, inbox, settings
<1> QED
  BY <1>0, <1>1, <1>4, <1>5, <1>6, GoesOn DEF terminal, control
LEMMA TickStep ==
  ASSUME SessionInv, Tick
  PROVE  SessionInv'
<1>0. /\ UNCHANGED <<terminal, threads, loop, resume, outcome, grace, interrupt>>
      /\ UNCHANGED <<inbox, ringMax, refresh, sinceAnchor>>
      /\ tickDue' = FALSE
      /\ \/ HasCapacity(rows) /\ rows' = HandedOver(rows) /\ postedLive' = TRUE
         \/ UNCHANGED <<rows, postedLive>>
  BY DEF Tick, MayHandOver
<1>1. loop = "select"
  <2>1. Branch(6) /\ 6 \in 1..7
    BY DEF Tick
  <2> QED  BY ONLY <2>1, BranchMeans
<1>2. ringMax \in Nat /\ Kept(rows, ringMax, RowsOf(output), RowsOf(reader.held), RowsOf(ttyOut), written)
  BY CapAssumption DEF SessionInv, RowFlow, RestType
<1>3. /\ Kept(rows', ringMax, RowsOf(output), RowsOf(reader.held), RowsOf(ttyOut), written)
      /\ SameLoss(rows', rows)
  <2>1. CASE HasCapacity(rows) /\ rows' = HandedOver(rows)
    <3>1. /\ Kept(HandedOver(rows), ringMax, RowsOf(output), RowsOf(reader.held), RowsOf(ttyOut), written)
          /\ SameLoss(HandedOver(rows), rows)
      BY <1>2, <2>1, KeptHandedOver
    <3> QED  BY <2>1, <3>1
  <2>2. CASE UNCHANGED rows
    BY <1>2, <2>2 DEF SameLoss
  <2> QED  BY <1>0, <2>1, <2>2
<1>4. RowFlow'
  BY <1>0, <1>3, RowsGoOn DEF SessionInv, terminal, threads
<1>5. RestType'
  <2>1. postedLive' \in BOOLEAN /\ tickDue' \in BOOLEAN
    BY <1>0 DEF SessionInv, RestType
  <2> QED  BY <1>0, <2>1 DEF SessionInv, RestType, terminal, threads, inbox
<1> QED
  BY <1>0, <1>1, <1>3, <1>4, <1>5, GoesOn DEF terminal, threads

LEMMA CountMeans ==
  ASSUME RestType, NEW live \in BOOLEAN, NEW n \in Refreshes, CountMessage(live, n)
  PROVE  sinceAnchor' \in Nat /\ postedLive' \in BOOLEAN
<1>1. sinceAnchor \in Nat /\ sinceAnchor + 1 \in Nat
  BY DEF RestType
<1> QED
  BY <1>1 DEF CountMessage, AnchorDue

\* An answer that starts from rows r of a ring of size max.
LEMMA Answered ==
  ASSUME SessionInv, NEW r, NEW max \in RingSizes, NEW live \in BOOLEAN, NEW n \in Refreshes,
         Kept(r, max, RowsOf(output), RowsOf(reader.held), RowsOf(ttyOut), written), SameLoss(r, rows),
         Answer(r, live, n), ringMax' = max
  PROVE  /\ Kept(rows', ringMax', RowsOf(output), RowsOf(reader.held), RowsOf(ttyOut), written)
         /\ SameLoss(rows', rows)
         /\ ringMax' \in RingSizes /\ refresh' \in Refreshes
         /\ sinceAnchor' \in Nat /\ postedLive' \in BOOLEAN
<1>1. max \in Nat
  BY CapAssumption
<1>2. /\ Kept(Refreshed(r, live, n), max, RowsOf(output), RowsOf(reader.held), RowsOf(ttyOut), written)
      /\ SameLoss(Refreshed(r, live, n), r)
  BY <1>1, KeptRefreshed
<1>3. sinceAnchor' \in Nat /\ postedLive' \in BOOLEAN
  BY CountMeans DEF SessionInv, Answer
<1> QED
  BY <1>2, <1>3 DEF Answer, SameLoss

LEMMA HandleChatMeans ==
  ASSUME SessionInv, NEW kind, HandleChat(kind)
  PROVE  /\ Kept(rows', ringMax', RowsOf(output), RowsOf(reader.held), RowsOf(ttyOut), written)
         /\ SameLoss(rows', rows)
         /\ ringMax' \in RingSizes /\ refresh' \in Refreshes
         /\ sinceAnchor' \in Nat /\ postedLive' \in BOOLEAN
<1>1. /\ Kept(rows, ringMax, RowsOf(output), RowsOf(reader.held), RowsOf(ttyOut), written)
      /\ ringMax \in RingSizes /\ ringMax \in Nat /\ refresh \in Refreshes /\ postedLive \in BOOLEAN
      /\ FALSE \in BOOLEAN
  BY CapAssumption DEF SessionInv, RowFlow, RestType
<1>2. rows \in Rows
  BY <1>1 DEF Kept
<1>3. /\ Kept(Said(rows), ringMax, RowsOf(output), RowsOf(reader.held), RowsOf(ttyOut), written)
      /\ SameLoss(Said(rows), rows)
  BY <1>1, <1>2, KeptSaid DEF Said, Rows, SameLoss
<1>4. CASE Answer(Said(rows), postedLive, refresh) /\ UNCHANGED ringMax
  BY <1>1, <1>3, <1>4, Answered
<1>5. CASE Answer(Said(Anchored(rows)), FALSE, refresh) /\ UNCHANGED ringMax
  <2>1. /\ Kept(Anchored(rows), ringMax, RowsOf(output), RowsOf(reader.held), RowsOf(ttyOut), written)
        /\ SameLoss(Anchored(rows), rows)
    BY <1>1, <1>2, KeptAnchored DEF Anchored, Rows, SameLoss
  <2>2. Anchored(rows) \in Rows
    BY <2>1 DEF Kept
  <2>3. /\ Kept(Said(Anchored(rows)), ringMax, RowsOf(output), RowsOf(reader.held), RowsOf(ttyOut), written)
        /\ SameLoss(Said(Anchored(rows)), rows)
    BY <2>1, <2>2, KeptSaid DEF Said, Rows, SameLoss
  <2> QED  BY <1>1, <1>5, <2>3, Answered
<1>6. ASSUME NEW max \in RingSizes,
             Answer(Said(Shrunk(rows, max)), postedLive, refresh), ringMax' = max
      PROVE  /\ Kept(rows', ringMax', RowsOf(output), RowsOf(reader.held), RowsOf(ttyOut), written)
             /\ SameLoss(rows', rows)
             /\ ringMax' \in RingSizes /\ refresh' \in Refreshes
             /\ sinceAnchor' \in Nat /\ postedLive' \in BOOLEAN
  <2>1. /\ Kept(Shrunk(rows, max), max, RowsOf(output), RowsOf(reader.held), RowsOf(ttyOut), written)
        /\ SameLoss(Shrunk(rows, max), rows)
    BY <1>1, CapAssumption, KeptShrunk
  <2>2. Shrunk(rows, max) \in Rows
    BY <2>1 DEF Kept
  <2>3. /\ Kept(Said(Shrunk(rows, max)), max, RowsOf(output), RowsOf(reader.held), RowsOf(ttyOut), written)
        /\ SameLoss(Said(Shrunk(rows, max)), rows)
    BY <2>1, <2>2, KeptSaid DEF Said, Rows, SameLoss
  <2> QED  BY <1>1, <1>6, <2>3, Answered
<1>7. ASSUME NEW n \in Refreshes, Answer(Said(rows), postedLive, n), UNCHANGED ringMax
      PROVE  /\ Kept(rows', ringMax', RowsOf(output), RowsOf(reader.held), RowsOf(ttyOut), written)
             /\ SameLoss(rows', rows)
             /\ ringMax' \in RingSizes /\ refresh' \in Refreshes
             /\ sinceAnchor' \in Nat /\ postedLive' \in BOOLEAN
  BY <1>1, <1>3, <1>7, Answered
<1> QED
  BY <1>4, <1>5, <1>6, <1>7 DEF HandleChat

LEMMA ChatCommandStep ==
  ASSUME SessionInv, ChatCommand
  PROVE  SessionInv'
<1>0. /\ UNCHANGED <<terminal, threads, control, pressed, events, arrivals>>
      /\ HandleChat(Head(chat)) /\ chat' = Tail(chat)
  BY DEF ChatCommand
<1>1. loop = "select" /\ chat # <<>>
  <2>1. Branch(7) /\ 7 \in 1..7
    BY DEF ChatCommand
  <2>2. loop = "select" /\ Ready[7]
    BY ONLY <2>1, BranchMeans
  <2> QED  BY <2>2 DEF Ready
<1>2. /\ Kept(rows', ringMax', RowsOf(output), RowsOf(reader.held), RowsOf(ttyOut), written)
      /\ SameLoss(rows', rows)
      /\ ringMax' \in RingSizes /\ refresh' \in Refreshes
      /\ sinceAnchor' \in Nat /\ postedLive' \in BOOLEAN
  BY <1>0, HandleChatMeans
<1>3. RowFlow'
  BY <1>0, <1>2, RowsGoOn DEF SessionInv, terminal, threads
<1>4. chat' \in Seq(ChatKinds)
  BY <1>0, <1>1, HeadTailProperties DEF SessionInv, RestType
<1>5. RestType'
  BY <1>0, <1>2, <1>4 DEF SessionInv, RestType, terminal, threads, control
<1> QED
  BY <1>0, <1>1, <1>2, <1>3, <1>5, GoesOn DEF terminal, threads, control

LEMMA ChatInputStep ==
  ASSUME SessionInv, ChatInput
  PROVE  SessionInv'
<1>0. /\ UNCHANGED <<terminal, reader, output, writer, exited, outcome, grace, interrupt, tickDue>>
      /\ UNCHANGED <<pressed, events, arrivals>>
      /\ chat' = Tail(chat)
  BY DEF ChatInput
<1>1. loop = "select" /\ chat # <<>>
  <2>1. Branch(7) /\ 7 \in 1..7
    BY DEF ChatInput
  <2>2. loop = "select" /\ Ready[7]
    BY ONLY <2>1, BranchMeans
  <2> QED  BY <2>2 DEF Ready
<1>2. chat' \in Seq(ChatKinds)
  BY <1>0, <1>1, HeadTailProperties DEF SessionInv, RestType
<1>3. CASE Sent /\ Answer(rows, postedLive, refresh) /\ UNCHANGED <<loop, resume, ringMax>>
  <2>1. /\ Kept(rows', ringMax', RowsOf(output), RowsOf(reader.held), RowsOf(ttyOut), written)
        /\ SameLoss(rows', rows)
        /\ ringMax' \in RingSizes /\ refresh' \in Refreshes
        /\ sinceAnchor' \in Nat /\ postedLive' \in BOOLEAN
    BY <1>3, Answered DEF SessionInv, RowFlow, RestType, SameLoss
  <2>2. RowFlow'
    BY <1>0, <2>1, RowsGoOn DEF SessionInv, terminal
  <2>3. input' \in 0..InputCap
    BY <1>3, SentMeans DEF SessionInv
  <2>4. RestType'
    BY <1>0, <1>2, <1>3, <2>1, <2>3 DEF SessionInv, RestType, terminal
  <2> QED  BY <1>0, <1>1, <1>3, <2>1, <2>2, <2>4, GoesOn DEF terminal
<1>4. CASE Suspend("chat") /\ UNCHANGED <<settings, rows>>
  <2>1. loop' = "sending" /\ resume' = "chat" /\ input' \in 0..InputCap
    BY <1>4, SentMeans DEF Suspend, SessionInv
  <2>2. RestType'
    BY <1>0, <1>2, <1>4, <2>1 DEF SessionInv, RestType, terminal, settings
  <2> QED  BY <1>0, <1>1, <1>4, <2>1, <2>2, Aside DEF Gone, flowVars, terminal, settings
<1> QED
  BY <1>3, <1>4 DEF ChatInput

LEMMA SendReturnsStep ==
  ASSUME SessionInv, SendReturns
  PROVE  SessionInv'
<1>0. /\ UNCHANGED <<terminal, reader, output, writer, exited, outcome, grace, interrupt, tickDue, inbox>>
      /\ loop = "sending" /\ Sent /\ loop' = "select" /\ resume' = "none"
  BY DEF SendReturns
<1>1. input' \in 0..InputCap
  BY <1>0, SentMeans DEF SessionInv
<1>2. CASE UNCHANGED <<settings, rows>>
  <2>1. RestType'
    BY <1>0, <1>1, <1>2 DEF SessionInv, RestType, terminal, inbox, settings
  <2> QED  BY <1>0, <1>2, <2>1, Aside DEF Gone, flowVars, terminal, settings
<1>3. CASE Answer(rows, postedLive, refresh) /\ UNCHANGED ringMax
  <2>1. /\ Kept(rows', ringMax', RowsOf(output), RowsOf(reader.held), RowsOf(ttyOut), written)
        /\ SameLoss(rows', rows)
        /\ ringMax' \in RingSizes /\ refresh' \in Refreshes
        /\ sinceAnchor' \in Nat /\ postedLive' \in BOOLEAN
    BY <1>3, Answered DEF SessionInv, RowFlow, RestType, SameLoss
  <2>2. RowFlow'
    BY <1>0, <2>1, RowsGoOn DEF SessionInv, terminal
  <2>3. RestType'
    BY <1>0, <1>1, <2>1 DEF SessionInv, RestType, terminal, inbox
  <2> QED  BY <1>0, <2>1, <2>2, <2>3, GoesOn DEF terminal
<1> QED
  BY <1>2, <1>3 DEF SendReturns
-----------------------------------------------------------------------------
(* Steps that end the session.                                              *)

\* What a step has to keep that ends the session and hands over rows r: if it
\* reports that the shell has exited, then the grace period is over, or the
\* output has ended.
LEMMA Ends ==
  ASSUME SessionInv, RestType', loop = "select", NEW how, NEW r, EndSession(how, r), r.dropped = rows.dropped,
         Kept(r, ringMax, RowsOf(output), RowsOf(reader.held), RowsOf(ttyOut), written),
         UNCHANGED <<output, reader, ttyOut, written, ringMax, grace>>,
         holders' \subseteq holders,
         how \in {"ShellExited", "UserRequestedNew", "UserKilled", "Interrupted"},
         how # "ShellExited" \/ grace = "over" \/ OutputEnds
  PROVE  SessionInv'
<1>1. loop' = "flushing" /\ outcome' = how /\ rows' = HandedOver(r) /\ ringMax \in Nat
  BY CapAssumption DEF EndSession, SessionInv, RestType
<1>2. /\ Kept(rows', ringMax, RowsOf(output), RowsOf(reader.held), RowsOf(ttyOut), written)
      /\ rows'.ring = <<>>
  BY <1>1, KeptHandedOver
<1>3. RowFlow'
  BY <1>2, RowsGoOn DEF SessionInv
<1>4. LoopInv'
  BY <1>1 DEF LoopInv
<1>5. ReaderInv'
  BY <1>1 DEF SessionInv, ReaderInv, HungUp, Gone
<1>6. rows'.dropped = {}
  <2>1. rows.dropped = {}
    BY DEF SessionInv, EndInv, Gone
  <2> QED  BY <1>1, <2>1, KeptHandedOver
<1>7. AtEnd' => /\ holders' = {} /\ output' = <<>> /\ reader'.held = <<>> /\ ttyOut' = <<>>
  BY <1>1 DEF SessionInv, ReaderInv, HungUp, Gone, OutputEnds, AtEnd
<1>8. EndInv'
  BY <1>1, <1>2, <1>6, <1>7 DEF EndInv, HungUp, Gone
<1> QED
  BY <1>3, <1>4, <1>5, <1>8 DEF SessionInv

LEMMA InterruptedStep ==
  ASSUME SessionInv, Interrupted
  PROVE  SessionInv'
<1>0. /\ UNCHANGED <<written, owed, ttyOut, ttyIn, threads, resume, grace, interrupt, tickDue>>
      /\ UNCHANGED <<inbox, settings>>
      /\ holders' = holders \ {"shell"} /\ EndSession("Interrupted", rows)
  BY DEF Interrupted, Kill
<1>1. loop = "select"
  <2>1. Branch(1) /\ 1 \in 1..7
    BY DEF Interrupted
  <2> QED  BY ONLY <2>1, BranchMeans
<1>2. RestType'
  BY <1>0 DEF SessionInv, RestType, EndSession, threads, inbox, settings
<1> QED
  BY <1>0, <1>1, <1>2, Ends DEF SessionInv, RowFlow, threads, settings

LEMMA GraceOverStep ==
  ASSUME SessionInv, GraceOver
  PROVE  SessionInv'
<1>0. /\ UNCHANGED <<terminal, threads, resume, grace, interrupt, tickDue, inbox, settings>>
      /\ EndSession("ShellExited", rows)
  BY DEF GraceOver
<1>1. loop = "select" /\ grace = "over"
  <2>1. Branch(2) /\ 2 \in 1..7
    BY DEF GraceOver
  <2>2. loop = "select" /\ Ready[2]
    BY ONLY <2>1, BranchMeans
  <2> QED  BY <2>2 DEF Ready
<1>2. RestType'
  BY <1>0 DEF SessionInv, RestType, EndSession, terminal, threads, inbox, settings
<1> QED
  BY <1>0, <1>1, <1>2, Ends DEF SessionInv, RowFlow, terminal, threads, settings

LEMMA OutputClosedStep ==
  ASSUME SessionInv, OutputClosed
  PROVE  SessionInv'
<1>0. /\ UNCHANGED <<terminal, threads, resume, grace, interrupt, tickDue, inbox, settings>>
      /\ EndSession("ShellExited", rows) /\ OutputEnds
  BY DEF OutputClosed
<1>1. loop = "select"
  <2>1. Branch(4) /\ 4 \in 1..7
    BY DEF OutputClosed
  <2> QED  BY ONLY <2>1, BranchMeans
<1>2. RestType'
  BY <1>0 DEF SessionInv, RestType, EndSession, terminal, threads, inbox, settings
<1> QED
  BY <1>0, <1>1, <1>2, Ends DEF SessionInv, RowFlow, terminal, threads, settings

LEMMA ChatEndsStep ==
  ASSUME SessionInv, ChatEnds
  PROVE  SessionInv'
<1>0. /\ UNCHANGED <<written, owed, ttyOut, ttyIn, threads, resume, grace, interrupt, tickDue>>
      /\ UNCHANGED <<pressed, events, arrivals, ringMax, refresh>>
      /\ holders' = holders \ {"shell"} /\ chat' = Tail(chat)
  BY DEF ChatEnds, Kill
<1>1. loop = "select" /\ chat # <<>>
  <2>1. Branch(7) /\ 7 \in 1..7
    BY DEF ChatEnds
  <2>2. loop = "select" /\ Ready[7]
    BY ONLY <2>1, BranchMeans
  <2> QED  BY <2>2 DEF Ready
<1>2. chat' \in Seq(ChatKinds)
  BY <1>0, <1>1, HeadTailProperties DEF SessionInv, RestType
<1>3. sinceAnchor' \in Nat /\ postedLive' \in BOOLEAN
  <2>1. CASE CountMessage(postedLive, refresh)
    BY <2>1, CountMeans DEF SessionInv, RestType
  <2>2. CASE UNCHANGED <<sinceAnchor, postedLive>>
    BY <2>2 DEF SessionInv, RestType
  <2> QED  BY <2>1, <2>2 DEF ChatEnds
<1>4. PICK how \in {"UserRequestedNew", "UserKilled", "Interrupted"},
           r \in {rows, Refreshed(rows, postedLive, refresh)} : EndSession(how, r)
  BY DEF ChatEnds
<1>5. /\ Kept(r, ringMax, RowsOf(output), RowsOf(reader.held), RowsOf(ttyOut), written)
      /\ r.dropped = rows.dropped
  <2>1. /\ Kept(rows, ringMax, RowsOf(output), RowsOf(reader.held), RowsOf(ttyOut), written)
        /\ ringMax \in Nat
    BY CapAssumption DEF SessionInv, RowFlow, RestType
  <2>2. /\ Kept(Refreshed(rows, postedLive, refresh), ringMax,
                RowsOf(output), RowsOf(reader.held), RowsOf(ttyOut), written)
        /\ SameLoss(Refreshed(rows, postedLive, refresh), rows)
    BY <2>1, KeptRefreshed
  <2> QED  BY <2>1, <2>2 DEF SameLoss
<1>6. RestType'
  <2>1. loop' = "flushing" /\ outcome' = how /\ holders' \subseteq {"shell"} \cup Jobs
    BY <1>0, <1>4 DEF EndSession, SessionInv, RestType
  <2> QED  BY <1>0, <1>2, <1>3, <2>1 DEF SessionInv, RestType, threads
<1>7. /\ UNCHANGED <<output, reader, ttyOut, written, ringMax, grace>> /\ holders' \subseteq holders
      /\ how \in {"ShellExited", "UserRequestedNew", "UserKilled", "Interrupted"}
      /\ how # "ShellExited"
  BY <1>0 DEF threads
<1> QED
  BY <1>1, <1>4, <1>5, <1>6, <1>7, Ends

-----------------------------------------------------------------------------
(* The theorems.                                                            *)

LEMMA SessionStep == SessionInv /\ [Next]_vars => SessionInv'
<1> SUFFICES ASSUME SessionInv, [Next]_vars PROVE SessionInv'
  OBVIOUS
<1>1. CASE Programs
  BY <1>1, WriteStep, ProgramStep DEF Programs
<1>2. CASE Around
  BY <1>2, AroundStep, DispatcherTakesStep DEF Around
<1>3. CASE RunSession
  BY <1>3, InterruptedStep, GraceOverStep, ShellReapedStep, ProcessOutputStep, OutputClosedStep,
     AttachEventStep, TickStep, ChatCommandStep, ChatInputStep, ChatEndsStep, SendReturnsStep,
     ReturnStep DEF RunSession
<1>4. CASE Read \/ Forward \/ Fetch \/ Type \/ Watch
  BY <1>4, ReadStep, ForwardStep, WriterStep
<1>5. CASE UNCHANGED vars
  BY <1>5, StutterStep
<1> QED
  BY <1>1, <1>2, <1>3, <1>4, <1>5 DEF Next, Finished

LEMMA SessionAlways == Spec => []SessionInv
  BY SessionInit, SessionStep, PTL DEF Spec

\* The terminal's rows (run_session, the threads of pty_backend.rs and the ring
\* of TuiRenderer): however the threads, the ticks, the anchors and the
\* commands interleave, each row that a program writes is on its way, handed to
\* the dispatcher, or lost in one of the four ways of RowsAccountedFor, never
\* two of them at once, and the stages hold the rows in the order they were
\* written.  A row is lost before it reaches the loop only if the session ended
\* before its output did, and none is on its way once all is over.
THEOREM RowsAreKept == Spec => []RowsInv
  BY SessionAlways, MeansRowsInv, PTL

\* The end of the output (the output_rx.recv branch of run_session): a session
\* that ends because its output channel is closed has handed over or accounted
\* for every row that was ever written, so the tail of the output is not cut.
THEOREM TrailingOutputIsKept == Spec => []TrailingOutputKept
  BY SessionAlways, MeansRowsInv, PTL
=============================================================================
