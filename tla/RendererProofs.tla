--------------------------- MODULE RendererProofs ---------------------------
(***************************************************************************)
(* What Renderer keeps: grids that fit the screen, characters that are in  *)
(* one place only, flags that move with their characters, and a transcript *)
(* without anything of the alternate screen.                               *)
(***************************************************************************)
EXTENDS Renderer, InductionLemmas, SequenceTheorems

-----------------------------------------------------------------------------
(* Rows of cells.                                                          *)

\* The characters in the rows.
Content(g) == {id \in Nat \ {0} : \E i \in DOMAIN g : \E c \in DOMAIN g[i] : g[i][c] = id}

\* None of them is there twice.
Once(g) ==
  \A i \in DOMAIN g : \A c \in DOMAIN g[i] : g[i][c] # Blank =>
    \A j \in DOMAIN g : \A d \in DOMAIN g[j] : g[j][d] = g[i][c] => j = i /\ d = c

Apart(g, h) == Content(g) \cap Content(h) = {}

Rows == Seq(Seq(Nat))

\* A character of two stretches of rows is in one of them.
LEMMA ContentOfBoth ==
  ASSUME NEW g \in Rows, NEW h \in Rows
  PROVE  g \o h \in Rows /\ Content(g \o h) = Content(g) \cup Content(h)
<1>1. g \o h \in Rows
  BY DEF Rows
<1>2. ASSUME NEW i \in DOMAIN (g \o h)
      PROVE  \/ i \in DOMAIN g /\ (g \o h)[i] = g[i]
             \/ i - Len(g) \in DOMAIN h /\ (g \o h)[i] = h[i - Len(g)]
  BY <1>2 DEF Rows
<1>3. ASSUME NEW i \in DOMAIN g PROVE i \in DOMAIN (g \o h) /\ (g \o h)[i] = g[i]
  BY <1>3 DEF Rows
<1>4. ASSUME NEW i \in DOMAIN h
      PROVE  i + Len(g) \in DOMAIN (g \o h) /\ (g \o h)[i + Len(g)] = h[i]
  BY <1>4 DEF Rows
<1>5. Content(g \o h) \subseteq Content(g) \cup Content(h)
  BY <1>2 DEF Content
<1>6. Content(g) \subseteq Content(g \o h)
  BY <1>3 DEF Content
<1>7. Content(h) \subseteq Content(g \o h)
  BY <1>4 DEF Content
<1> QED  BY <1>1, <1>5, <1>6, <1>7

\* Two stretches of rows hold every character once exactly if each does and
\* they share none.
LEMMA OnceInBoth ==
  ASSUME NEW g \in Rows, NEW h \in Rows
  PROVE  Once(g \o h) <=> Once(g) /\ Once(h) /\ Apart(g, h)
<1>1. ASSUME NEW i \in DOMAIN (g \o h)
      PROVE  \/ i \in DOMAIN g /\ (g \o h)[i] = g[i]
             \/ i - Len(g) \in DOMAIN h /\ (g \o h)[i] = h[i - Len(g)]
  BY <1>1 DEF Rows
<1>2. ASSUME NEW i \in DOMAIN g PROVE i \in DOMAIN (g \o h) /\ (g \o h)[i] = g[i]
  BY <1>2 DEF Rows
<1>3. ASSUME NEW i \in DOMAIN h
      PROVE  i + Len(g) \in DOMAIN (g \o h) /\ (g \o h)[i + Len(g)] = h[i]
  BY <1>3 DEF Rows
<1>4. Len(g) \in Nat /\ DOMAIN g = 1..Len(g) /\ DOMAIN h = 1..Len(h) /\ Len(h) \in Nat
  BY DEF Rows
<1>5. /\ \A i \in DOMAIN g : \A c \in DOMAIN g[i] : g[i][c] \in Nat
      /\ \A i \in DOMAIN h : \A c \in DOMAIN h[i] : h[i][c] \in Nat
  BY SMTT(40) DEF Rows
<1>6. ASSUME Once(g \o h) PROVE Once(g)
  BY <1>6, <1>2 DEF Once
<1>7. ASSUME Once(g \o h) PROVE Once(h)
  <2> SUFFICES ASSUME NEW i \in DOMAIN h, NEW c \in DOMAIN h[i], h[i][c] # Blank,
                      NEW j \in DOMAIN h, NEW d \in DOMAIN h[j], h[j][d] = h[i][c]
               PROVE  j = i /\ d = c
    BY DEF Once
  <2> DEFINE both == g \o h
             a == i + Len(g)
             b == j + Len(g)
  <2>1. /\ a \in DOMAIN both /\ both[a] = h[i] /\ b \in DOMAIN both /\ both[b] = h[j]
        /\ Once(both)
    BY <1>7, <1>3
  <2>2. a = b => i = j
    BY <1>4
  <2> HIDE DEF both, a, b
  <2>3. b = a /\ d = c
    BY <2>1 DEF Once
  <2> QED  BY <2>2, <2>3
<1>8. ASSUME Once(g \o h) PROVE Apart(g, h)
  <2> SUFFICES ASSUME NEW i \in DOMAIN g, NEW c \in DOMAIN g[i], g[i][c] # Blank,
                      NEW j \in DOMAIN h, NEW d \in DOMAIN h[j], h[j][d] = g[i][c]
               PROVE  FALSE
    BY DEF Apart, Content, Blank
  <2>1. j + Len(g) = i
    BY <1>8, <1>2, <1>3 DEF Once
  <2> QED  BY <2>1, <1>4
<1>9. ASSUME Once(g), Once(h), Apart(g, h) PROVE Once(g \o h)
  <2> SUFFICES ASSUME NEW i \in DOMAIN (g \o h), NEW c \in DOMAIN (g \o h)[i],
                      (g \o h)[i][c] # Blank,
                      NEW j \in DOMAIN (g \o h), NEW d \in DOMAIN (g \o h)[j],
                      (g \o h)[j][d] = (g \o h)[i][c]
               PROVE  j = i /\ d = c
    BY DEF Once
  <2>1. ASSUME NEW a \in DOMAIN g, NEW x \in DOMAIN g[a], g[a][x] # Blank,
               NEW b \in DOMAIN h, NEW y \in DOMAIN h[b]
        PROVE  h[b][y] # g[a][x]
    BY <1>9, <1>5, <2>1 DEF Apart, Content, Blank
  <2>2. CASE i \in DOMAIN g /\ (g \o h)[i] = g[i]
    <3>1. j \in DOMAIN g /\ (g \o h)[j] = g[j]
      BY <1>1, <2>1, <2>2
    <3> QED  BY <1>9, <2>2, <3>1 DEF Once
  <2>3. CASE i - Len(g) \in DOMAIN h /\ (g \o h)[i] = h[i - Len(g)]
    <3>1. j - Len(g) \in DOMAIN h /\ (g \o h)[j] = h[j - Len(g)]
      BY <1>1, <2>1, <2>3
    <3>2. j - Len(g) = i - Len(g) /\ d = c
      BY <1>9, <2>3, <3>1 DEF Once
    <3>3. i \in Nat /\ j \in Nat
      BY SMTT(40) DEF Rows
    <3> QED  BY <3>2, <3>3, <1>4
  <2> QED  BY <1>1, <2>2, <2>3
<1> QED  BY <1>6, <1>7, <1>8, <1>9
-----------------------------------------------------------------------------
(* What scrolls off.                                                       *)

\* Of the places 1..n one is the last in S, or none is.
LEMMA LastExists ==
  ASSUME NEW n \in Nat, NEW S
  PROVE  \E i \in 0..n : (i > 0 => i \in S) /\ \A j \in (i + 1)..n : j \notin S
<1> DEFINE T == {k \in 0..n : \E i \in 0..k : (i > 0 => i \in S) /\ \A j \in (i + 1)..k : j \notin S}
<1>1. 0 \in T
  OBVIOUS
<1>2. ASSUME NEW k \in 0..(n - 1), k \in T PROVE k + 1 \in T
  <2>1. PICK i \in 0..k : (i > 0 => i \in S) /\ \A j \in (i + 1)..k : j \notin S
    BY <1>2
  <2>2. CASE k + 1 \in S
    <3>1. k + 1 \in 0..(k + 1) /\ \A j \in (k + 2)..(k + 1) : FALSE
      BY <1>2
    <3> QED  BY <1>2, <2>2, <3>1
  <2>3. CASE k + 1 \notin S
    <3>1. \A j \in (i + 1)..(k + 1) : j \notin S
      BY <1>2, <2>1, <2>3
    <3> QED  BY <1>2, <2>1, <3>1
  <2> QED  BY <2>2, <2>3
<1>3. 0..n \subseteq T
  <2> HIDE DEF T
  <2> QED  BY <1>1, <1>2, UpToInduction
<1>4. n \in 0..n
  OBVIOUS
<1> QED  BY <1>3, <1>4

\* Trimming shortens a row, keeps what is left in its place, and takes nothing
\* that is to be seen.
LEMMA TrimmedRow ==
  ASSUME NEW row \in Seq(Nat)
  PROVE  /\ Trimmed(row) \in Seq(Nat) /\ Len(Trimmed(row)) <= Len(row)
         /\ \A c \in 1..Len(Trimmed(row)) : Trimmed(row)[c] = row[c]
         /\ \A c \in (Len(Trimmed(row)) + 1)..Len(row) : ~Ink(row[c])
<1> DEFINE n == Len(row)
           S == {c \in 1..n : Ink(row[c])}
           Is(i) == (i > 0 => Ink(row[i])) /\ \A j \in (i + 1)..n : ~Ink(row[j])
<1>1. n \in Nat
  OBVIOUS
<1>2. \E i \in 0..n : Is(i)
  <2>1. PICK i \in 0..n : (i > 0 => i \in S) /\ \A j \in (i + 1)..n : j \notin S
    <3> HIDE DEF S, n
    <3> QED  BY <1>1, LastExists
  <2> QED  BY <2>1
<1>3. PICK k \in 0..n : Trimmed(row) = SubSeq(row, 1, k) /\ Is(k)
  <2> DEFINE k == CHOOSE i \in 0..n : Is(i)
  <2>1. Trimmed(row) = SubSeq(row, 1, k)
    BY DEF Trimmed, LastWith
  <2>2. k \in 0..n /\ Is(k)
    <3> HIDE DEF Is, n
    <3> QED  BY <1>2
  <2> HIDE DEF k
  <2> QED  BY <2>1, <2>2
<1>4. /\ Trimmed(row) \in Seq(Nat) /\ Len(Trimmed(row)) = k
      /\ \A c \in 1..k : Trimmed(row)[c] = row[c]
  BY <1>1, <1>3
<1> QED  BY <1>1, <1>3, <1>4

\* What a row adds to the ring has no character that the row has not.
LEMMA AddedRow ==
  ASSUME NEW row \in Seq(Nat)
  PROVE  /\ Added(row) \in Rows /\ Content(Added(row)) \subseteq Content(<<row>>)
         /\ Once(<<row>>) => Once(Added(row))
<1> DEFINE t == Trimmed(row)
<1>1. /\ t \in Seq(Nat) /\ Len(t) <= Len(row) /\ \A c \in 1..Len(t) : t[c] = row[c]
  BY TrimmedRow
<1>2. DOMAIN t = 1..Len(t) /\ DOMAIN row = 1..Len(row) /\ Len(t) \in Nat /\ Len(row) \in Nat
  BY <1>1
<1>3. \A c \in DOMAIN t : c \in DOMAIN row /\ t[c] = row[c]
  BY <1>1, <1>2
<1> HIDE DEF t
<1>4. <<t>> \in Rows /\ <<row>> \in Rows
  BY <1>1 DEF Rows
<1>5. DOMAIN <<t>> = {1} /\ <<t>>[1] = t /\ DOMAIN <<row>> = {1} /\ <<row>>[1] = row
  OBVIOUS
<1>6. Content(<<t>>) \subseteq Content(<<row>>)
  <2> SUFFICES ASSUME NEW id \in Content(<<t>>) PROVE id \in Content(<<row>>)
    OBVIOUS
  <2>1. PICK c \in DOMAIN t : t[c] = id
    BY <1>5 DEF Content
  <2>2. 1 \in DOMAIN <<row>> /\ c \in DOMAIN <<row>>[1] /\ <<row>>[1][c] = id
    BY <1>3, <1>5, <2>1
  <2> QED  BY <2>2 DEF Content
<1>7. ASSUME Once(<<row>>) PROVE Once(<<t>>)
  <2>1. \A c, d \in DOMAIN row : row[c] # Blank /\ row[d] = row[c] => d = c
    BY <1>5, <1>7 DEF Once
  <2> QED  BY <1>3, <1>5, <2>1 DEF Once
<1>8. <<>> \in Rows /\ Content(<<>>) = {} /\ Once(<<>>)
  BY DEF Rows, Content, Once
<1>9. Added(row) = <<>> \/ Added(row) = <<t>>
  BY DEF Added, t
<1> QED  BY <1>4, <1>6, <1>7, <1>8, <1>9

\* The rows that scroll_off_top takes have no character that the rows leaving
\* the screen have not, and none twice.
LEMMA CapturedRows ==
  ASSUME NEW dropped \in Rows, Once(dropped)
  PROVE  LET taken == FlattenSeq([i \in DOMAIN dropped |-> Added(dropped[i])])
         IN  taken \in Rows /\ Once(taken) /\ Content(taken) \subseteq Content(dropped)
<1> DEFINE n == Len(dropped)
           parts == [i \in DOMAIN dropped |-> Added(dropped[i])]
           Top(i) == SubSeq(dropped, 1, i)
           Good(s, i) == s \in Rows /\ Once(s) /\ Content(s) \subseteq Content(Top(i))
<1>1. n \in Nat /\ DOMAIN dropped = 1..n
  BY DEF Rows
<1>2. /\ Len(parts) = n
      /\ \A i \in 1..n : parts[i] = Added(dropped[i]) /\ dropped[i] \in Seq(Nat)
  BY <1>1 DEF Rows
<1>3. ASSUME NEW i \in 1..n
      PROVE  /\ Top(i) \in Rows /\ Top(i - 1) \in Rows /\ <<dropped[i]>> \in Rows
             /\ Top(i) = Top(i - 1) \o <<dropped[i]>>
  BY <1>1 DEF Rows
<1>4. \A i \in 0..n : Once(Top(i))
  BY <1>1, SMTT(40) DEF Rows, Once
<1>5. ASSUME NEW i \in 1..n
      PROVE  Good(Added(dropped[i]), i) /\ Content(Added(dropped[i])) \cap Content(Top(i - 1)) = {}
             /\ Content(Top(i - 1)) \subseteq Content(Top(i))
  <2>0. i \in 0..n /\ dropped[i] \in Seq(Nat)
    BY <1>1, <1>2
  <2>1. Once(Top(i - 1) \o <<dropped[i]>>)
    BY <1>3, <1>4, <2>0
  <2>2. Once(<<dropped[i]>>) /\ Apart(Top(i - 1), <<dropped[i]>>)
    <3> HIDE DEF Top
    <3> QED  BY <1>3, <2>1, OnceInBoth
  <2>3. Content(Top(i)) = Content(Top(i - 1)) \cup Content(<<dropped[i]>>)
    <3> HIDE DEF Top
    <3> QED  BY <1>3, ContentOfBoth
  <2>4. /\ Added(dropped[i]) \in Rows /\ Once(Added(dropped[i]))
        /\ Content(Added(dropped[i])) \subseteq Content(<<dropped[i]>>)
    BY <2>0, <2>2, AddedRow
  <2> HIDE DEF Top
  <2> QED  BY <2>2, <2>3, <2>4 DEF Apart
<1>6. CASE n = 0
  <2>1. FlattenSeq(parts) = parts
    BY <1>2, <1>6 DEF FlattenSeq
  <2>2. parts = <<>>
    BY <1>1, <1>6
  <2>3. <<>> \in Rows /\ Once(<<>>) /\ Content(<<>>) = {}
    BY DEF Rows, Content, Once
  <2> HIDE DEF parts
  <2> QED  BY <2>1, <2>2, <2>3 DEF parts
<1>7. CASE n > 0
  <2>1. PICK f : /\ f = [i \in 1..n |-> IF i = 1 THEN parts[i] ELSE f[i - 1] \o parts[i]]
                 /\ FlattenSeq(parts) = f[n]
    <3> HIDE DEF parts, n
    <3>1. Len(parts) \in Nat /\ Len(parts) > 0
      BY <1>1, <1>2, <1>7
    <3> QED  BY <1>2, <3>1, FlattenRecursion
  <2>2. \A i \in 1..n : f[i] = IF i = 1 THEN parts[i] ELSE f[i - 1] \o parts[i]
    BY <2>1
  <2> DEFINE T == {i \in 0..n : i > 0 => Good(f[i], i)}
  <2>3. 0 \in T
    BY <1>1
  <2>4. ASSUME NEW i \in 0..(n - 1), i \in T PROVE i + 1 \in T
    <3> DEFINE k == i + 1
    <3>1. k \in 1..n /\ k - 1 = i /\ (k = 1 <=> i = 0) /\ k \in 0..n /\ k > 0
      BY <1>1
    <3> HIDE DEF k
    <3>2. Good(Added(dropped[k]), k) /\ Content(Added(dropped[k])) \cap Content(Top(i)) = {}
          /\ Content(Top(i)) \subseteq Content(Top(k))
      <4> HIDE DEF Good, Top
      <4> QED  BY <3>1, <1>5
    <3>3. f[k] = IF i = 0 THEN Added(dropped[k]) ELSE f[i] \o Added(dropped[k])
      <4> HIDE DEF parts
      <4> QED  BY <1>2, <2>2, <3>1
    <3>4. ASSUME i > 0 PROVE Good(f[i] \o Added(dropped[k]), k)
      <4>1. Good(f[i], i)
        BY <2>4, <3>4
      <4>2. Apart(f[i], Added(dropped[k]))
        BY <3>2, <4>1 DEF Apart
      <4> HIDE DEF Top
      <4> QED  BY <3>2, <4>1, <4>2, ContentOfBoth, OnceInBoth
    <3>5. Good(f[k], k)
      <4> HIDE DEF Good
      <4> QED  BY <3>2, <3>3, <3>4
    <3>6. k \in T
      <4> HIDE DEF Good
      <4> QED  BY <3>1, <3>5
    <3> QED  BY <3>6 DEF k
  <2>5. 0..n \subseteq T
    <3> HIDE DEF T, n
    <3> QED  BY <1>1, <2>3, <2>4, UpToInduction
  <2>6. Good(f[n], n)
    <3> HIDE DEF Good, n
    <3> QED  BY <1>1, <1>7, <2>5
  <2>7. Top(n) = dropped
    BY DEF Rows
  <2>8. FlattenSeq(parts) \in Rows /\ Once(FlattenSeq(parts))
        /\ Content(FlattenSeq(parts)) \subseteq Content(dropped)
    <3> HIDE DEF Top, n, parts
    <3> QED  BY <2>1, <2>6, <2>7
  <2> HIDE DEF parts
  <2> QED  BY <2>8 DEF parts
<1> HIDE DEF parts
<1> QED  BY <1>1, <1>6, <1>7 DEF parts
-----------------------------------------------------------------------------
(* Grids and the operations that move their cells.                         *)

Grid(S, h, w) == [1..h -> [1..w -> S]]

\* The flags of the grid f belong to the characters of the grid g.
Flagged(chars, g, f, h, w) ==
  \A r \in 1..h, c \in 1..w : f[r][c] = (g[r][c] # Blank /\ chars[g[r][c]].inverse)

\* A grid of written characters, each there once, with its flags.
Sane(chars, g, f, h, w) ==
  /\ g \in Grid(0..Len(chars), h, w) /\ f \in Grid(BOOLEAN, h, w)
  /\ Once(g) /\ Flagged(chars, g, f, h, w)

\* The grid whose cells take what is at the places F, and v for a place that
\* is not on the grid g: Rearranged with a function.
Moved(g, v, h, w, F) ==
  [r \in 1..h |-> [c \in 1..w |->
    IF F[r][c] \in Cells THEN g[F[r][c][1]][F[r][c][2]] ELSE v]]

\* No place is taken from twice.
OneToOne(h, w, F) ==
  \A r, s \in 1..h, c, d \in 1..w :
    F[r][c] \in Cells /\ F[s][d] = F[r][c] => s = r /\ d = c

Places(h, w) == [1..h -> [1..w -> Int \X Int]]

\* The characters of a grid, place by place.
LEMMA GridContent ==
  ASSUME NEW h \in Nat, NEW w \in Nat, NEW n \in Nat, NEW g \in Grid(0..n, h, w)
  PROVE  /\ g \in Rows /\ Content(g) \subseteq 1..n /\ Len(g) = h
         /\ \A r \in 1..h, c \in 1..w : g[r][c] # Blank => g[r][c] \in Content(g)
         /\ \A id \in Content(g) : \E r \in 1..h, c \in 1..w : g[r][c] = id
         /\ Once(g) <=> \A r, s \in 1..h, c, d \in 1..w :
              g[r][c] # Blank /\ g[s][d] = g[r][c] => s = r /\ d = c
<1>1. /\ DOMAIN g = 1..h
      /\ \A r \in 1..h : DOMAIN g[r] = 1..w /\ \A c \in 1..w : g[r][c] \in 0..n
      /\ \A r \in 1..h : g[r] \in [1..w -> 0..n]
  BY DEF Grid
<1>2. g \in Rows /\ Len(g) = h
  <2>1. \A r \in 1..h : g[r] \in Seq(Nat)
    BY <1>1
  <2>2. g \in [1..h -> Seq(Nat)]
    BY <2>1, <1>1 DEF Grid
  <2> QED  BY <2>2 DEF Rows
<1>3. Content(g) \subseteq 1..n
  BY <1>1 DEF Content
<1>4. ASSUME NEW r \in 1..h, NEW c \in 1..w, g[r][c] # Blank
      PROVE  g[r][c] \in Content(g)
  <2>1. g[r][c] \in Nat \ {0}
    BY <1>1, <1>4 DEF Blank
  <2>2. r \in DOMAIN g /\ c \in DOMAIN g[r]
    BY <1>1
  <2> QED  BY <2>1, <2>2 DEF Content
<1>5. \A id \in Content(g) : \E r \in 1..h, c \in 1..w : g[r][c] = id
  BY <1>1 DEF Content
<1>6. Once(g) <=> \A r, s \in 1..h, c, d \in 1..w :
              g[r][c] # Blank /\ g[s][d] = g[r][c] => s = r /\ d = c
  <2>1. DOMAIN g = 1..h /\ \A r \in 1..h : DOMAIN g[r] = 1..w
    BY <1>1
  <2>2. ASSUME Once(g), NEW r \in 1..h, NEW s \in 1..h, NEW c \in 1..w, NEW d \in 1..w,
               g[r][c] # Blank, g[s][d] = g[r][c]
        PROVE  s = r /\ d = c
    <3>1. r \in DOMAIN g /\ s \in DOMAIN g /\ c \in DOMAIN g[r] /\ d \in DOMAIN g[s]
      BY <2>1
    <3> QED  BY <2>2, <3>1 DEF Once
  <2>3. ASSUME \A r, s \in 1..h, c, d \in 1..w :
                 g[r][c] # Blank /\ g[s][d] = g[r][c] => s = r /\ d = c
        PROVE  Once(g)
    <3> SUFFICES ASSUME NEW r \in DOMAIN g, NEW c \in DOMAIN g[r], g[r][c] # Blank,
                        NEW s \in DOMAIN g, NEW d \in DOMAIN g[s], g[s][d] = g[r][c]
                 PROVE  s = r /\ d = c
      BY DEF Once
    <3>1. r \in 1..h /\ s \in 1..h
      BY <2>1
    <3>2. c \in 1..w /\ d \in 1..w
      BY <2>1, <3>1
    <3> QED  BY <2>3, <3>1, <3>2
  <2> QED  BY <2>2, <2>3
<1> QED  BY <1>2, <1>3, <1>4, <1>5, <1>6

\* Moving cells, no cell to two places, keeps a grid sane, and brings in no
\* character.
LEMMA MovedSane ==
  ASSUME NEW chars, Len(chars) \in Nat, rows \in Nat, cols \in Nat,
         NEW g, NEW f, Sane(chars, g, f, rows, cols),
         NEW h \in Nat, NEW w \in Nat, NEW F \in Places(h, w), OneToOne(h, w, F)
  PROVE  /\ Sane(chars, Moved(g, Blank, h, w, F), Moved(f, FALSE, h, w, F), h, w)
         /\ Content(Moved(g, Blank, h, w, F)) \subseteq Content(g)
<1> DEFINE g2 == Moved(g, Blank, h, w, F)
           f2 == Moved(f, FALSE, h, w, F)
           n == Len(chars)
<1>1. g \in Grid(0..n, rows, cols) /\ f \in Grid(BOOLEAN, rows, cols) /\ n \in Nat
  BY DEF Sane
<1>2. ASSUME NEW r \in 1..h, NEW c \in 1..w
      PROVE  \/ /\ F[r][c] \notin Cells /\ g2[r][c] = Blank /\ f2[r][c] = FALSE
             \/ \E a \in 1..rows, b \in 1..cols :
                  F[r][c] = <<a, b>> /\ g2[r][c] = g[a][b] /\ f2[r][c] = f[a][b]
  <2>0. F[r][c] \in Int \X Int
    BY DEF Places
  <2>1. PICK a \in Int, b \in Int : F[r][c] = <<a, b>>
    BY <2>0
  <2>2. F[r][c] \in Cells <=> a \in 1..rows /\ b \in 1..cols
    BY <2>1 DEF Cells
  <2>3. /\ g2[r][c] = IF F[r][c] \in Cells THEN g[a][b] ELSE Blank
        /\ f2[r][c] = IF F[r][c] \in Cells THEN f[a][b] ELSE FALSE
    <3>1. /\ g2[r][c] = IF F[r][c] \in Cells THEN g[F[r][c][1]][F[r][c][2]] ELSE Blank
          /\ f2[r][c] = IF F[r][c] \in Cells THEN f[F[r][c][1]][F[r][c][2]] ELSE FALSE
      BY DEF Moved
    <3>2. F[r][c][1] = a /\ F[r][c][2] = b
      BY <2>1
    <3> QED  BY <3>1, <3>2, Zenon
  <2> HIDE DEF g2, f2
  <2> QED  BY <2>1, <2>2, <2>3
<1>3. g2 \in Grid(0..n, h, w)
  <2>1. \A r \in 1..h, c \in 1..w : g2[r][c] \in 0..n
    <3>1. \A a \in 1..rows, b \in 1..cols : g[a][b] \in 0..n
      BY <1>1 DEF Grid
    <3>2. Blank \in 0..n
      BY <1>1 DEF Blank
    <3> HIDE DEF g2, f2, n
    <3> QED  BY <1>2, <3>1, <3>2, ZenonT(40)
  <2> QED  BY <2>1 DEF Moved, Grid
<1>4. f2 \in Grid(BOOLEAN, h, w)
  <2>1. \A r \in 1..h, c \in 1..w : f2[r][c] \in BOOLEAN
    <3>1. \A a \in 1..rows, b \in 1..cols : f[a][b] \in BOOLEAN
      BY <1>1 DEF Grid
    <3> HIDE DEF g2, f2, n
    <3> QED  BY <1>2, <3>1
  <2> QED  BY <2>1 DEF Moved, Grid
<1> HIDE DEF g2, f2, n
<1>5. ASSUME NEW r \in 1..h, NEW c \in 1..w, g2[r][c] # Blank
      PROVE  \E a \in 1..rows, b \in 1..cols :
               F[r][c] = <<a, b>> /\ F[r][c] \in Cells /\ g2[r][c] = g[a][b]
  <2>1. PICK a \in 1..rows, b \in 1..cols : F[r][c] = <<a, b>> /\ g2[r][c] = g[a][b]
    BY <1>2, <1>5
  <2>2. F[r][c] \in Cells
    BY <2>1 DEF Cells
  <2> QED  BY <2>1, <2>2
<1>6. Once(g2)
  <2>1. ASSUME NEW r \in 1..h, NEW s \in 1..h, NEW c \in 1..w, NEW d \in 1..w,
               g2[r][c] # Blank, g2[s][d] = g2[r][c]
        PROVE  s = r /\ d = c
    <3>1. PICK a \in 1..rows, b \in 1..cols :
            F[r][c] = <<a, b>> /\ F[r][c] \in Cells /\ g2[r][c] = g[a][b]
      BY <1>5, <2>1
    <3>2. PICK x \in 1..rows, y \in 1..cols :
            F[s][d] = <<x, y>> /\ F[s][d] \in Cells /\ g2[s][d] = g[x][y]
      BY <1>5, <2>1
    <3>3. x = a /\ y = b
      <4>1. g[a][b] # Blank /\ g[x][y] = g[a][b]
        BY <2>1, <3>1, <3>2
      <4>2. a \in DOMAIN g /\ b \in DOMAIN g[a] /\ x \in DOMAIN g /\ y \in DOMAIN g[x]
        BY <1>1 DEF Grid
      <4> QED  BY <4>1, <4>2 DEF Sane, Once
    <3>4. F[s][d] = F[r][c] /\ F[r][c] \in Cells
      BY <3>1, <3>2, <3>3
    <3> QED  BY <3>4 DEF OneToOne
  <2>2. \A r, s \in 1..h, c, d \in 1..w :
          g2[r][c] # Blank /\ g2[s][d] = g2[r][c] => s = r /\ d = c
    BY <2>1
  <2> QED  BY <1>1, <1>3, <2>2, GridContent
<1>7. Flagged(chars, g2, f2, h, w)
  <2> SUFFICES ASSUME NEW r \in 1..h, NEW c \in 1..w
               PROVE  f2[r][c] = (g2[r][c] # Blank /\ chars[g2[r][c]].inverse)
    BY DEF Flagged
  <2>1. \A a \in 1..rows, b \in 1..cols :
          f[a][b] = (g[a][b] # Blank /\ chars[g[a][b]].inverse)
    BY DEF Sane, Flagged
  <2>2. CASE g2[r][c] = Blank /\ f2[r][c] = FALSE
    BY <2>2
  <2>3. CASE \E a \in 1..rows, b \in 1..cols :
               g2[r][c] = g[a][b] /\ f2[r][c] = f[a][b]
    <3>1. PICK a \in 1..rows, b \in 1..cols : g2[r][c] = g[a][b] /\ f2[r][c] = f[a][b]
      BY <2>3
    <3> QED  BY <2>1, <3>1, Zenon
  <2> QED  BY <1>2, <2>2, <2>3
<1>8. Content(g2) \subseteq Content(g)
  <2> SUFFICES ASSUME NEW id \in Content(g2) PROVE id \in Content(g)
    OBVIOUS
  <2>1. PICK r \in 1..h, c \in 1..w : g2[r][c] = id
    BY <1>1, <1>3, GridContent, SMTT(40)
  <2>2. id # Blank
    BY DEF Content, Blank
  <2>3. \E a \in 1..rows, b \in 1..cols : g2[r][c] = g[a][b]
    BY <1>5, <2>1, <2>2
  <2> QED  BY <1>1, <2>1, <2>2, <2>3, GridContent
<1>9. Sane(chars, g2, f2, h, w)
  BY <1>3, <1>4, <1>6, <1>7 DEF Sane, n
<1> QED  BY <1>8, <1>9 DEF g2, f2
-----------------------------------------------------------------------------
(* The invariant.                                                          *)

Chars == [ink : BOOLEAN, inverse : BOOLEAN, alt : BOOLEAN]

\* None of the characters was written on the alternate screen.
Clean(chars, ids) == \A id \in ids : ~chars[id].alt

Positions == (Nat \ {0}) \X (Nat \ {0})

SizeInv ==
  /\ <<rows, cols>> \in Sizes /\ cursor \in Cells
  /\ saved_cursor # None => saved_cursor \in Positions
  /\ pending_wrap \in BOOLEAN /\ inverse_active \in BOOLEAN
  /\ written \in Seq(Chars)

StashInv ==
  OnAlternate => /\ Sane(written, alt_screen.screen, alt_screen.inverse, rows, cols)
                 /\ alt_screen.cursor \in Cells
                 /\ Apart(alt_screen.screen, screen)

\* The primary screen, shown or stashed.
Primary == IF OnAlternate THEN alt_screen.screen ELSE screen

RingInv ==
  /\ scroll_buffer \in Rows /\ out \in Rows
  /\ scroll_buffer_max \in Nat /\ Len(scroll_buffer) <= scroll_buffer_max

\* The characters of the history, of the screen and of the stashed screen are
\* different ones, and those of the history and of the primary screen were not
\* written on the alternate screen.
HistoryInv ==
  /\ Once(History) /\ Content(History) \subseteq 1..Len(written)
  /\ Apart(History, screen)
  /\ OnAlternate => Apart(History, alt_screen.screen)
  /\ Clean(written, Content(History)) /\ Clean(written, Content(Primary))

RInv ==
  /\ SizeInv /\ Sane(written, screen, inverse, rows, cols)
  /\ StashInv /\ RingInv /\ HistoryInv

LEMMA SizeFacts ==
  ASSUME SizeInv
  PROVE  /\ rows \in Nat \ {0} /\ cols \in Nat \ {0}
         /\ cursor[1] \in 1..rows /\ cursor[2] \in 1..cols /\ cursor = <<cursor[1], cursor[2]>>
         /\ Len(written) \in Nat
  BY SizeAssumption DEF SizeInv, Cells

\* Whatever touches neither grids nor ring nor stash keeps the invariant if the
\* cursor stays on the screen.
LEMMA OnlyPlace ==
  ASSUME RInv, UNCHANGED <<grid, ring, alt_screen, written>>,
         cursor' \in Cells, pending_wrap' \in BOOLEAN, inverse_active' \in BOOLEAN,
         saved_cursor' # None => saved_cursor' \in Positions
  PROVE  RInv'
<1>1. UNCHANGED <<rows, cols, screen, inverse, scroll_buffer, scroll_buffer_max, out>>
  BY DEF grid, ring
<1>2. Cells' = Cells /\ OnAlternate' = OnAlternate /\ History' = History /\ Primary' = Primary
  BY <1>1 DEF Cells, OnAlternate, History, Primary
<1>3. SizeInv'
  BY <1>1, <1>2 DEF RInv, SizeInv
<1>4. Sane(written, screen, inverse, rows, cols)'
  BY <1>1 DEF RInv
<1>5. StashInv'
  BY <1>1, <1>2 DEF RInv, StashInv
<1>6. RingInv'
  BY <1>1 DEF RInv, RingInv
<1>7. HistoryInv'
  BY <1>1, <1>2 DEF RInv, HistoryInv
<1> QED  BY <1>3, <1>4, <1>5, <1>6, <1>7 DEF RInv

\* An operation that only moves cells, or erases them, keeps it.
LEMMA OnlyCells ==
  ASSUME RInv, NEW F \in Places(rows, cols), OneToOne(rows, cols, F),
         screen' = Moved(screen, Blank, rows, cols, F),
         inverse' = Moved(inverse, FALSE, rows, cols, F),
         UNCHANGED <<rows, cols, place, ring, others, written>>
  PROVE  RInv'
<1>1. UNCHANGED <<cursor, pending_wrap, scroll_buffer, scroll_buffer_max, out, inverse_active,
                  saved_cursor, alt_screen>>
  BY DEF place, ring, others
<1>2. Cells' = Cells /\ OnAlternate' = OnAlternate /\ History' = History
  BY <1>1 DEF Cells, OnAlternate, History
<1>3. SizeInv'
  BY <1>1, <1>2 DEF RInv, SizeInv
<1>4. Sane(written, screen', inverse', rows, cols) /\ Content(screen') \subseteq Content(screen)
  BY SizeFacts, MovedSane DEF RInv
<1>5. StashInv'
  BY <1>1, <1>2, <1>4 DEF RInv, StashInv, Apart
<1>6. RingInv'
  BY <1>1 DEF RInv, RingInv
<1>7. HistoryInv'
  <2>1. Content(Primary') \subseteq Content(Primary)
    BY <1>1, <1>2, <1>4 DEF Primary
  <2> QED  BY <1>1, <1>2, <1>4, <2>1 DEF RInv, HistoryInv, Apart, Clean
<1>8. Sane(written, screen, inverse, rows, cols)'
  BY <1>4
<1> QED  BY <1>3, <1>5, <1>6, <1>7, <1>8 DEF RInv
LEMMA CountFacts == Steps \subseteq Nat \ {0} /\ Counts \subseteq Nat \ {0} /\ Maxima \subseteq Nat
  BY BoundAssumption

-----------------------------------------------------------------------------
(* The operations that move or erase cells: each takes no cell twice.      *)

\* Where the cells come from when those of H are erased.
Erasure(H) ==
  [r \in 1..rows |-> [c \in 1..cols |-> IF <<r, c>> \in H THEN Nowhere ELSE <<r, c>>]]

LEMMA Erased ==
  ASSUME RInv, NEW H,
         screen' = Moved(screen, Blank, rows, cols, Erasure(H)),
         inverse' = Moved(inverse, FALSE, rows, cols, Erasure(H)),
         UNCHANGED <<rows, cols, place, ring, others, written>>
  PROVE  RInv'
<1> DEFINE F == Erasure(H)
<1>1. F \in Places(rows, cols)
  <2>1. Nowhere \in Int \X Int
    BY DEF Nowhere
  <2>2. \A r \in 1..rows, c \in 1..cols : <<r, c>> \in Int \X Int
    BY SizeFacts DEF RInv
  <2> QED  BY <2>1, <2>2 DEF Places, Erasure
<1>2. OneToOne(rows, cols, F)
  <2>1. Nowhere \notin Cells
    BY SizeFacts DEF RInv, Nowhere, Cells
  <2>2. ASSUME NEW r \in 1..rows, NEW s \in 1..rows, NEW c \in 1..cols, NEW d \in 1..cols,
               F[r][c] \in Cells, F[s][d] = F[r][c]
        PROVE  s = r /\ d = c
    <3>1. F[r][c] = <<r, c>> /\ F[s][d] = <<s, d>>
      BY <2>1, <2>2 DEF Erasure
    <3> HIDE DEF F
    <3> QED  BY <2>2, <3>1
  <2> HIDE DEF F
  <2> QED  BY <2>2 DEF OneToOne
<1> HIDE DEF F
<1> QED  BY <1>1, <1>2, OnlyCells DEF F

LEMMA EraseInDisplayKeeps ==
  ASSUME RInv, NEW mode \in 0..2, EraseInDisplay(mode)
  PROVE  RInv'
<1>1. CASE Erase(LAMBDA r, c : TRUE)
  <2> DEFINE H == {p \in Cells : TRUE}
  <2>1. /\ screen' = Moved(screen, Blank, rows, cols, Erasure(H))
        /\ inverse' = Moved(inverse, FALSE, rows, cols, Erasure(H))
        /\ UNCHANGED <<rows, cols, place, ring, others, written>>
    BY <1>1 DEF Erase, Rewrite, Rearrange, Rearranged, Moved, Erasure, Cells, OnRow
  <2> HIDE DEF H
  <2> QED  BY <2>1, Erased
<1>2. CASE Erase(LAMBDA r, c : r > cursor[1] \/ (OnRow(r) /\ c >= cursor[2]))
  <2> DEFINE H == {p \in Cells : p[1] > cursor[1] \/ (p[1] = cursor[1] /\ p[2] >= cursor[2])}
  <2>1. /\ screen' = Moved(screen, Blank, rows, cols, Erasure(H))
        /\ inverse' = Moved(inverse, FALSE, rows, cols, Erasure(H))
        /\ UNCHANGED <<rows, cols, place, ring, others, written>>
    BY <1>2, ZenonT(40) DEF Erase, Rewrite, Rearrange, Rearranged, Moved, Erasure, Cells, OnRow
  <2> HIDE DEF H
  <2> QED  BY <2>1, Erased
<1>3. CASE Erase(LAMBDA r, c : r < cursor[1] \/ (OnRow(r) /\ c <= cursor[2]))
  <2> DEFINE H == {p \in Cells : p[1] < cursor[1] \/ (p[1] = cursor[1] /\ p[2] <= cursor[2])}
  <2>1. /\ screen' = Moved(screen, Blank, rows, cols, Erasure(H))
        /\ inverse' = Moved(inverse, FALSE, rows, cols, Erasure(H))
        /\ UNCHANGED <<rows, cols, place, ring, others, written>>
    BY <1>3, ZenonT(40) DEF Erase, Rewrite, Rearrange, Rearranged, Moved, Erasure, Cells, OnRow
  <2> HIDE DEF H
  <2> QED  BY <2>1, Erased
<1> QED  BY <1>1, <1>2, <1>3 DEF EraseInDisplay

\* Shifts to the left.
LEMMA DeleteCharsKeeps ==
  ASSUME RInv, NEW n \in Counts, DeleteChars(n)
  PROVE  RInv'
<1> DEFINE F == [r \in 1..rows |-> [c \in 1..cols |->
                  IF r = cursor[1] /\ c >= cursor[2] THEN <<r, c + n>> ELSE <<r, c>>]]
<1>1. F \in Places(rows, cols)
  BY SizeFacts, CountFacts DEF Places, RInv
<1>2. OneToOne(rows, cols, F)
  BY SizeFacts, CountFacts DEF OneToOne, RInv, Cells
<1>3. /\ screen' = Moved(screen, Blank, rows, cols, F)
      /\ inverse' = Moved(inverse, FALSE, rows, cols, F)
      /\ UNCHANGED <<rows, cols, place, ring, others, written>>
  BY DEF DeleteChars, OnRow, Rewrite, Rearrange, Rearranged, Moved
<1> HIDE DEF F
<1> QED  BY <1>1, <1>2, <1>3, OnlyCells

\* Shifts to the right.
LEMMA InsertCharsKeeps ==
  ASSUME RInv, NEW n \in Counts, InsertChars(n)
  PROVE  RInv'
<1> DEFINE F == [r \in 1..rows |-> [c \in 1..cols |->
                  IF r # cursor[1] \/ c < cursor[2] THEN <<r, c>>
                  ELSE IF c < cursor[2] + n THEN Nowhere ELSE <<r, c - n>>]]
<1>1. F \in Places(rows, cols)
  BY SizeFacts, CountFacts DEF Places, RInv, Nowhere
<1>2. OneToOne(rows, cols, F)
  BY SizeFacts, CountFacts DEF OneToOne, RInv, Cells, Nowhere
<1>3. /\ screen' = Moved(screen, Blank, rows, cols, F)
      /\ inverse' = Moved(inverse, FALSE, rows, cols, F)
      /\ UNCHANGED <<rows, cols, place, ring, others, written>>
  BY SMTT(40) DEF InsertChars, OnRow, Rewrite, Rearrange, Rearranged, Moved
<1> HIDE DEF F
<1> QED  BY <1>1, <1>2, <1>3, OnlyCells

\* Shifts down from the cursor.
LEMMA InsertLinesKeeps ==
  ASSUME RInv, NEW n \in Counts, InsertLines(n)
  PROVE  RInv'
<1> DEFINE F == [r \in 1..rows |-> [c \in 1..cols |->
                  <<RowBefore(n, r), c>>]]
<1>1. F \in Places(rows, cols)
  BY SizeFacts, CountFacts DEF Places, RInv, RowBefore
<1>2. OneToOne(rows, cols, F)
  BY SizeFacts, CountFacts DEF OneToOne, RInv, Cells, RowBefore
<1>3. /\ screen' = Moved(screen, Blank, rows, cols, F)
      /\ inverse' = Moved(inverse, FALSE, rows, cols, F)
      /\ UNCHANGED <<rows, cols, place, ring, others, written>>
  BY DEF InsertLines, Rewrite, Rearrange, Rearranged, Moved
<1> HIDE DEF F
<1> QED  BY <1>1, <1>2, <1>3, OnlyCells

\* Shifts up to the cursor.
LEMMA DeleteLinesKeeps ==
  ASSUME RInv, NEW n \in Counts, DeleteLines(n)
  PROVE  RInv'
<1> DEFINE F == [r \in 1..rows |-> [c \in 1..cols |->
                  IF r >= cursor[1] THEN <<r + n, c>> ELSE <<r, c>>]]
<1>1. F \in Places(rows, cols)
  BY SizeFacts, CountFacts DEF Places, RInv
<1>2. OneToOne(rows, cols, F)
  BY SizeFacts, CountFacts DEF OneToOne, RInv, Cells
<1>3. /\ screen' = Moved(screen, Blank, rows, cols, F)
      /\ inverse' = Moved(inverse, FALSE, rows, cols, F)
      /\ UNCHANGED <<rows, cols, place, ring, others, written>>
  BY DEF DeleteLines, Rewrite, Rearrange, Rearranged, Moved
<1> HIDE DEF F
<1> QED  BY <1>1, <1>2, <1>3, OnlyCells

\* Shifts all down.
LEMMA ScrollDownKeeps ==
  ASSUME RInv, NEW n \in Counts, ScrollDown(n)
  PROVE  RInv'
<1> DEFINE F == [r \in 1..rows |-> [c \in 1..cols |->
                  <<r - n, c>>]]
<1>1. F \in Places(rows, cols)
  BY SizeFacts, CountFacts DEF Places, RInv
<1>2. OneToOne(rows, cols, F)
  BY SizeFacts, CountFacts DEF OneToOne, RInv, Cells
<1>3. /\ screen' = Moved(screen, Blank, rows, cols, F)
      /\ inverse' = Moved(inverse, FALSE, rows, cols, F)
      /\ UNCHANGED <<rows, cols, place, ring, others, written>>
  BY DEF ScrollDown, Rewrite, Rearrange, Rearranged, Moved
<1> HIDE DEF F
<1> QED  BY <1>1, <1>2, <1>3, OnlyCells
LEMMA EraseInLineKeeps ==
  ASSUME RInv, NEW mode \in 0..2, EraseInLine(mode)
  PROVE  RInv'
<1>1. CASE Erase(LAMBDA r, c : OnRow(r))
  <2> DEFINE H == {p \in Cells : p[1] = cursor[1]}
  <2>1. /\ screen' = Moved(screen, Blank, rows, cols, Erasure(H))
        /\ inverse' = Moved(inverse, FALSE, rows, cols, Erasure(H))
        /\ UNCHANGED <<rows, cols, place, ring, others, written>>
    BY <1>1 DEF Erase, Rewrite, Rearrange, Rearranged, Moved, Erasure, Cells, OnRow
  <2> HIDE DEF H
  <2> QED  BY <2>1, Erased
<1>2. CASE Erase(LAMBDA r, c : OnRow(r) /\ c >= cursor[2])
  <2> DEFINE H == {p \in Cells : p[1] = cursor[1] /\ p[2] >= cursor[2]}
  <2>1. /\ screen' = Moved(screen, Blank, rows, cols, Erasure(H))
        /\ inverse' = Moved(inverse, FALSE, rows, cols, Erasure(H))
        /\ UNCHANGED <<rows, cols, place, ring, others, written>>
    BY <1>2, ZenonT(40) DEF Erase, Rewrite, Rearrange, Rearranged, Moved, Erasure, Cells, OnRow
  <2> HIDE DEF H
  <2> QED  BY <2>1, Erased
<1>3. CASE Erase(LAMBDA r, c : OnRow(r) /\ c <= cursor[2])
  <2> DEFINE H == {p \in Cells : p[1] = cursor[1] /\ p[2] <= cursor[2]}
  <2>1. /\ screen' = Moved(screen, Blank, rows, cols, Erasure(H))
        /\ inverse' = Moved(inverse, FALSE, rows, cols, Erasure(H))
        /\ UNCHANGED <<rows, cols, place, ring, others, written>>
    BY <1>3 DEF Erase, Rewrite, Rearrange, Rearranged, Moved, Erasure, Cells, OnRow
  <2> HIDE DEF H
  <2> QED  BY <2>1, Erased
<1> QED  BY <1>1, <1>2, <1>3 DEF EraseInLine

LEMMA EraseCharsKeeps ==
  ASSUME RInv, NEW n \in Counts, EraseChars(n)
  PROVE  RInv'
<1>1. CASE Erase(LAMBDA r, c : OnRow(r) /\ c \in cursor[2]..(cursor[2] + n - 1))
  <2> DEFINE H == {p \in Cells : p[1] = cursor[1] /\ p[2] \in cursor[2]..(cursor[2] + n - 1)}
  <2>1. /\ screen' = Moved(screen, Blank, rows, cols, Erasure(H))
        /\ inverse' = Moved(inverse, FALSE, rows, cols, Erasure(H))
        /\ UNCHANGED <<rows, cols, place, ring, others, written>>
    BY <1>1, ZenonT(40) DEF Erase, Rewrite, Rearrange, Rearranged, Moved, Erasure, Cells, OnRow
  <2> HIDE DEF H
  <2> QED  BY <2>1, Erased
<1> QED  BY <1>1 DEF EraseChars

-----------------------------------------------------------------------------
(* The operations that move the cursor.                                    *)

LEMMA MoveToKeeps ==
  ASSUME RInv, NEW r \in Int, NEW c \in Int, MoveTo(r, c)
  PROVE  RInv'
<1>1. /\ UNCHANGED <<grid, ring, alt_screen, written, inverse_active, saved_cursor>>
      /\ pending_wrap' = FALSE
  BY DEF MoveTo, others
<1>2. cursor' \in Cells
  BY SizeFacts DEF RInv, MoveTo, Clamp, Most, Least, Cells
<1>3. inverse_active' \in BOOLEAN /\ (saved_cursor' # None => saved_cursor' \in Positions)
  BY <1>1 DEF RInv, SizeInv
<1> QED  BY <1>1, <1>2, <1>3, OnlyPlace

LEMMA CursorKeeps ==
  ASSUME RInv,
         \/ CarriageReturn \/ Backspace \/ Tab
         \/ \E r \in 1..rows, c \in 1..cols : CursorPosition(r, c)
         \/ \E n \in Steps  : \/ CursorUp(n) \/ CursorDown(n) \/ CursorForward(n) \/ CursorBack(n)
                              \/ ColumnTo(n) \/ RowTo(n)
  PROVE  RInv'
<1>1. \E r, c \in Int : MoveTo(r, c)
  <2>1. cursor[1] \in Int /\ cursor[2] \in Int /\ ((cursor[2] - 1) \div 8 + 1) * 8 + 1 \in Int
    BY SizeFacts DEF RInv
  <2>2. \A n \in Steps : /\ n \in Int /\ cursor[1] - n \in Int /\ cursor[1] + n \in Int
                         /\ cursor[2] - n \in Int /\ cursor[2] + n \in Int
    BY <2>1, CountFacts
  <2>3. cursor[2] - 1 \in Int /\ 1 \in Int
    BY <2>1
  <2>4. 1..rows \subseteq Int /\ 1..cols \subseteq Int
    OBVIOUS
  <2> QED
    BY <2>1, <2>2, <2>3, <2>4, ZenonT(40)
       DEF CarriageReturn, Backspace, Tab, CursorPosition, CursorUp, CursorDown, CursorForward,
           CursorBack, ColumnTo, RowTo
<1> QED  BY <1>1, MoveToKeeps

LEMMA AsideKeeps ==
  ASSUME RInv, (\E on \in BOOLEAN : SelectInverse(on)) \/ SaveCursor
  PROVE  RInv'
<1>1. /\ UNCHANGED <<grid, ring, alt_screen, written, cursor, pending_wrap>>
      /\ inverse_active' \in BOOLEAN /\ (saved_cursor' # None => saved_cursor' \in Positions)
  BY SizeFacts DEF RInv, SizeInv, SelectInverse, SaveCursor, place, Positions
<1>2. cursor' \in Cells /\ pending_wrap' \in BOOLEAN
  BY <1>1 DEF RInv, SizeInv
<1> QED  BY <1>1, <1>2, OnlyPlace
LEMMA RestoreCursorKeeps ==
  ASSUME RInv, RestoreCursor
  PROVE  RInv'
<1>1. /\ UNCHANGED <<grid, ring, alt_screen, written, saved_cursor, inverse_active>>
      /\ pending_wrap' = FALSE
  BY DEF RestoreCursor, others
<1>2. cursor' \in Cells
  <2>1. CASE saved_cursor = None
    BY <2>1 DEF RestoreCursor, RInv, SizeInv
  <2>2. CASE saved_cursor # None
    <3>1. saved_cursor[1] \in Nat \ {0} /\ saved_cursor[2] \in Nat \ {0}
      BY <2>2 DEF RInv, SizeInv, Positions
    <3>2. cursor' = <<Least(saved_cursor[1], rows), Least(saved_cursor[2], cols)>>
      BY <2>2 DEF RestoreCursor, Restored
    <3> QED  BY <3>1, <3>2, SizeFacts DEF RInv, Least, Cells
  <2> QED  BY <2>1, <2>2
<1>3. inverse_active' \in BOOLEAN /\ (saved_cursor' # None => saved_cursor' \in Positions)
  BY <1>1 DEF RInv, SizeInv
<1> QED  BY <1>1, <1>2, <1>3, OnlyPlace

-----------------------------------------------------------------------------
(* The ring.                                                               *)

\* A sequence cut in two.
LEMMA Halves ==
  ASSUME NEW S, NEW s \in Seq(S), NEW k \in 0..Len(s)
  PROVE  SubSeq(s, 1, k) \o SubSeq(s, k + 1, Len(s)) = s
<1> DEFINE a == SubSeq(s, 1, k)
           b == SubSeq(s, k + 1, Len(s))
<1>0. Len(s) \in Nat /\ k \in Nat /\ k <= Len(s)
  OBVIOUS
<1>1. /\ a \in Seq(S) /\ Len(a) = k /\ \A i \in 1..k : a[i] = s[i]
      /\ b \in Seq(S) /\ Len(b) = Len(s) - k
      /\ \A i \in 1..(Len(s) - k) : b[i] = s[k + i]
  OBVIOUS
<1> HIDE DEF a, b
<1>2. /\ a \o b \in Seq(S) /\ Len(a \o b) = Len(s)
      /\ \A i \in 1..Len(s) : (a \o b)[i] = IF i <= k THEN a[i] ELSE b[i - k]
  BY <1>0, <1>1, ConcatProperties
<1>3. ASSUME NEW i \in 1..Len(s) PROVE (a \o b)[i] = s[i]
  <2>1. CASE i <= k
    BY <1>1, <1>2, <2>1
  <2>2. CASE i > k
    <3>1. i - k \in 1..(Len(s) - k) /\ k + (i - k) = i
      BY <1>0, <2>2
    <3> QED  BY <1>1, <1>2, <2>2, <3>1
  <2>3. i <= k \/ i > k
    BY ONLY <1>0, <1>3
  <2> QED  BY ONLY <2>1, <2>2, <2>3
<1>4. a \o b = s
  BY <1>2, <1>3, SeqEqual
<1> QED  BY <1>4 DEF a, b

\* What is evicted from the ring is gone out: the history stays.
LEMMA KeptHistory ==
  ASSUME RingInv, NEW more \in Rows, NEW max \in Nat, Kept(scroll_buffer \o more, max)
  PROVE  /\ scroll_buffer' \in Rows /\ out' \in Rows /\ Len(scroll_buffer') <= max
         /\ History' = History \o more
<1> DEFINE all == scroll_buffer \o more
           n == Most(0, Len(all) - max)
<1>1. all \in Rows /\ Len(all) \in Nat /\ n \in 0..Len(all) /\ Len(all) - n <= max
  BY DEF RingInv, Rows, Most
<1>2. scroll_buffer' = SubSeq(all, n + 1, Len(all)) /\ out' = out \o SubSeq(all, 1, n)
  BY DEF Kept
<1>3. SubSeq(all, 1, n) \o SubSeq(all, n + 1, Len(all)) = all
  <2> HIDE DEF n, all
  <2> QED  BY <1>1, Halves DEF Rows
<1>4. SubSeq(all, 1, n) \in Rows /\ SubSeq(all, n + 1, Len(all)) \in Rows
      /\ Len(SubSeq(all, n + 1, Len(all))) <= max
  <2> HIDE DEF n, all
  <2> QED  BY <1>1 DEF Rows
<1>5. ASSUME NEW a \in Rows, NEW b \in Rows, NEW c \in Rows
      PROVE  (a \o b) \o c = a \o (b \o c)
  BY SMTT(40) DEF Rows
<1>6. History' = out \o all
  <2> HIDE DEF n, all
  <2>1. History' = (out \o SubSeq(all, 1, n)) \o SubSeq(all, n + 1, Len(all))
    BY <1>2 DEF History
  <2>2. out \in Rows
    BY DEF RingInv
  <2>3. (out \o SubSeq(all, 1, n)) \o SubSeq(all, n + 1, Len(all))
        = out \o (SubSeq(all, 1, n) \o SubSeq(all, n + 1, Len(all)))
    BY ONLY <1>4, <1>5, <2>2
  <2> QED  BY <1>3, <2>1, <2>3, Zenon
<1>7. out \o all = History \o more
  BY <1>5 DEF History, RingInv
<1>8. out' \in Rows
  <2> HIDE DEF n, all
  <2> QED  BY <1>2, <1>4 DEF RingInv, Rows
<1> HIDE DEF n, all
<1> QED  BY <1>2, <1>4, <1>6, <1>7, <1>8

\* The calls of the bridge that take rows from the ring, or limit it.
LEMMA OnlyRing ==
  ASSUME RInv, Drain \/ \E max \in Maxima : SetScrollBufferMax(max)
  PROVE  RInv'
<1>1. UNCHANGED <<rows, cols, screen, inverse, cursor, pending_wrap, others, written>>
  BY DEF Drain, SetScrollBufferMax, grid, place
<1>2. PICK max \in Nat : /\ Kept(scroll_buffer, max)
                         /\ scroll_buffer_max' \in Nat /\ max <= scroll_buffer_max'
  <2>1. CASE Drain
    BY <2>1 DEF Drain, RInv, RingInv
  <2>2. CASE \E max \in Maxima : SetScrollBufferMax(max)
    BY <2>2, CountFacts DEF SetScrollBufferMax
  <2> QED  BY <2>1, <2>2
<1>3. /\ scroll_buffer' \in Rows /\ out' \in Rows /\ Len(scroll_buffer') <= max
      /\ History' = History
  <2>1. RingInv /\ <<>> \in Rows /\ scroll_buffer \o <<>> = scroll_buffer
        /\ History \o <<>> = History
    BY DEF RInv, RingInv, Rows, History
  <2>2. Kept(scroll_buffer \o <<>>, max)
    BY <1>2, <2>1
  <2> QED  BY <2>1, <2>2, KeptHistory
<1>4. RingInv'
  <2>1. Len(scroll_buffer') \in Nat
    BY <1>3 DEF Rows
  <2> QED  BY <1>2, <1>3, <2>1 DEF RingInv
<1>5. Cells' = Cells /\ OnAlternate' = OnAlternate /\ Primary' = Primary
  BY <1>1 DEF others, Cells, OnAlternate, Primary
<1>6. SizeInv' /\ StashInv'
  BY <1>1, <1>5 DEF RInv, SizeInv, StashInv, others
<1>7. Sane(written, screen, inverse, rows, cols)'
  BY <1>1 DEF RInv
<1>8. HistoryInv'
  BY <1>1, <1>3, <1>5 DEF RInv, HistoryInv, others
<1> QED  BY <1>4, <1>6, <1>7, <1>8 DEF RInv
-----------------------------------------------------------------------------
(* Scrolling.                                                              *)

\* The first n rows of a grid and what the others become when they move up.
Lift(n) == [r \in 1..rows |-> [c \in 1..cols |-> <<r + n, c>>]]

LEMMA LiftedGrid ==
  ASSUME RInv, NEW n \in 0..rows
  PROVE  LET g == Moved(screen, Blank, rows, cols, Lift(n))
             f == Moved(inverse, FALSE, rows, cols, Lift(n))
             top == SubSeq(screen, 1, n)
         IN  /\ Sane(written, g, f, rows, cols) /\ Content(g) \subseteq Content(screen)
             /\ top \in Rows /\ Once(top) /\ Content(top) \subseteq Content(screen)
             /\ Apart(top, g)
<1> DEFINE g == Moved(screen, Blank, rows, cols, Lift(n))
           f == Moved(inverse, FALSE, rows, cols, Lift(n))
           top == SubSeq(screen, 1, n)
<1>1. /\ rows \in Nat \ {0} /\ cols \in Nat \ {0} /\ Len(written) \in Nat /\ n \in Nat /\ n <= rows
      /\ Sane(written, screen, inverse, rows, cols)
  BY SizeFacts DEF RInv
<1>2. Lift(n) \in Places(rows, cols) /\ OneToOne(rows, cols, Lift(n))
  BY <1>1 DEF Lift, Places, OneToOne, Cells
<1>3. Sane(written, g, f, rows, cols) /\ Content(g) \subseteq Content(screen)
  <2>1. rows \in Nat /\ cols \in Nat
    BY <1>1
  <2> QED  BY <1>1, <1>2, <2>1, MovedSane
<1>4. screen \in Grid(0..Len(written), rows, cols) /\ Once(screen)
  BY <1>1 DEF Sane
<1>5. /\ screen \in Rows /\ Len(screen) = rows /\ DOMAIN screen = 1..rows
      /\ \A r \in 1..rows : DOMAIN screen[r] = 1..cols
  <2>1. screen \in Rows /\ Len(screen) = rows
    BY <1>1, <1>4, GridContent
  <2> QED  BY <1>4, <2>1 DEF Grid
<1>6. top \in Rows /\ DOMAIN top = 1..n /\ \A r \in 1..n : top[r] = screen[r] /\ r \in 1..rows
  BY <1>1, <1>5 DEF Rows
<1>7. Content(top) \subseteq Content(screen)
  BY <1>5, <1>6 DEF Content
<1>8. Once(top)
  BY <1>4, <1>5, <1>6 DEF Once
<1>9. ASSUME NEW id \in Content(top), id \in Content(g) PROVE FALSE
  <2>1. PICK r \in 1..n, c \in 1..cols : screen[r][c] = id
    BY <1>5, <1>6 DEF Content
  <2>2. PICK s \in 1..rows, d \in 1..cols : g[s][d] = id
    <3>1. g \in Grid(0..Len(written), rows, cols)
      BY <1>3 DEF Sane
    <3> HIDE DEF g
    <3> QED  BY <1>1, <1>9, <3>1, GridContent, SMTT(40)
  <2>3. id # Blank
    BY DEF Content, Blank
  <2>4. s + n \in 1..rows /\ screen[s + n][d] = id
    <3>1. g[s][d] = IF s + n \in 1..rows THEN screen[s + n][d] ELSE Blank
      BY <1>1 DEF Moved, Lift, Cells
    <3> HIDE DEF g
    <3> QED  BY <2>2, <2>3, <3>1
  <2>5. r \in 1..rows
    BY <1>1
  <2>6. s + n = r
    <3> DEFINE k == s + n
    <3>1. /\ k \in DOMAIN screen /\ d \in DOMAIN screen[k] /\ r \in DOMAIN screen
          /\ c \in DOMAIN screen[r]
      BY <1>5, <2>4, <2>5
    <3>2. screen[k][d] = screen[r][c] /\ screen[r][c] # Blank
      BY <2>1, <2>3, <2>4
    <3> HIDE DEF k
    <3>3. k = r
      BY <1>4, <3>1, <3>2 DEF Once
    <3> QED  BY <3>3 DEF k
  <2> QED  BY <1>1, <2>6
<1>10. Apart(top, g)
  BY <1>9 DEF Apart
<1> HIDE DEF g, f, top
<1> QED  BY <1>3, <1>6, <1>7, <1>8, <1>10 DEF g, f, top

\* What the rows at the top leave in the history.
LEMMA CaptureTopHistory ==
  ASSUME RInv, NEW n \in 0..rows, CaptureTop(n)
  PROVE  /\ RingInv' /\ Once(History')
         /\ Content(History') \subseteq Content(History) \cup Content(SubSeq(screen, 1, n))
         /\ OnAlternate => Content(History') \subseteq Content(History)
<1> DEFINE top == SubSeq(screen, 1, n)
           more == Captured(top)
<1>1. top \in Rows /\ Once(top) /\ Content(top) \subseteq Content(screen)
  BY LiftedGrid
<1> HIDE DEF top
<1>2. more \in Rows /\ Once(more) /\ Content(more) \subseteq Content(top)
  <2>1. CASE OnAlternate
    BY <2>1 DEF Captured, Rows, Once, Content
  <2>2. CASE ~OnAlternate
    <3>1. more = FlattenSeq([i \in DOMAIN top |-> Added(top[i])])
      BY <2>2 DEF Captured
    <3> HIDE DEF more
    <3> QED  BY <1>1, <3>1, CapturedRows
  <2> QED  BY <2>1, <2>2
<1>3. OnAlternate => Content(more) = {}
  BY DEF Captured, Content
<1>4. Kept(scroll_buffer \o more, scroll_buffer_max) /\ scroll_buffer_max' = scroll_buffer_max
  BY DEF CaptureTop, top
<1> HIDE DEF more
<1>5. /\ scroll_buffer' \in Rows /\ out' \in Rows /\ Len(scroll_buffer') <= scroll_buffer_max
      /\ History' = History \o more
  BY <1>2, <1>4, KeptHistory DEF RInv, RingInv
<1>6. RingInv'
  BY <1>4, <1>5 DEF RInv, RingInv
<1>7. History \in Rows /\ Once(History) /\ Apart(History, screen)
  BY DEF RInv, RingInv, HistoryInv, History, Rows
<1>8. Apart(History, more)
  BY <1>1, <1>2, <1>7 DEF Apart
<1>9. Once(History') /\ Content(History') = Content(History) \cup Content(more)
  BY <1>2, <1>5, <1>7, <1>8, OnceInBoth, ContentOfBoth
<1> QED  BY <1>2, <1>3, <1>6, <1>9 DEF top
\* Rows at the top leave the screen and the others move up.
LEMMA ScrollOffTopKeeps ==
  ASSUME RInv, NEW n \in 0..rows, ScrollOffTop(n),
         cursor' \in Cells, pending_wrap' \in BOOLEAN,
         UNCHANGED <<rows, cols, others, written>>
  PROVE  RInv'
<1> DEFINE top == SubSeq(screen, 1, n)
<1>1. /\ screen' = Moved(screen, Blank, rows, cols, Lift(n))
      /\ inverse' = Moved(inverse, FALSE, rows, cols, Lift(n))
  BY DEF ScrollOffTop, Rearrange, Rearranged, Up, Moved, Lift
<1>2. /\ Sane(written, screen', inverse', rows, cols) /\ Content(screen') \subseteq Content(screen)
      /\ Content(top) \subseteq Content(screen) /\ Apart(top, screen')
  BY <1>1, LiftedGrid
<1>3. /\ RingInv' /\ Once(History')
      /\ Content(History') \subseteq Content(History) \cup Content(top)
      /\ OnAlternate => Content(History') \subseteq Content(History)
  BY CaptureTopHistory DEF ScrollOffTop
<1> HIDE DEF top
<1>4. UNCHANGED <<inverse_active, saved_cursor, alt_screen>>
  BY DEF others
<1>5. Cells' = Cells /\ OnAlternate' = OnAlternate
  BY <1>4 DEF Cells, OnAlternate
<1>6. SizeInv'
  BY <1>4, <1>5 DEF RInv, SizeInv
<1>7. StashInv'
  BY <1>2, <1>4, <1>5 DEF RInv, StashInv, Apart
<1>8. HistoryInv'
  <2>1. Content(screen) \subseteq 1..Len(written)
    BY SizeFacts, GridContent DEF RInv, Sane
  <2>2. Content(History') \subseteq 1..Len(written)
    BY <1>2, <1>3, <2>1 DEF RInv, HistoryInv
  <2>3. Apart(History', screen')
    BY <1>2, <1>3 DEF RInv, HistoryInv, Apart
  <2>4. OnAlternate => Apart(History', alt_screen.screen)
    BY <1>3 DEF RInv, HistoryInv, Apart
  <2>5. Content(Primary') \subseteq Content(Primary)
    BY <1>2, <1>4, <1>5 DEF Primary
  <2>6. Content(History') \subseteq Content(History) \cup Content(Primary)
    BY <1>2, <1>3 DEF Primary
  <2>7. Clean(written, Content(History')) /\ Clean(written, Content(Primary'))
    BY <2>5, <2>6 DEF RInv, HistoryInv, Clean
  <2> QED  BY <1>3, <1>4, <1>5, <2>2, <2>3, <2>4, <2>7 DEF HistoryInv
<1>9. Sane(written, screen, inverse, rows, cols)'
  BY <1>2
<1> QED  BY <1>3, <1>6, <1>7, <1>8, <1>9 DEF RInv

LEMMA ScrollingKeeps ==
  ASSUME RInv, LineFeed \/ \E n \in Counts : ScrollUp(n)
  PROVE  RInv'
<1>1. CASE LineFeed
  <2>1. /\ cursor' \in Cells /\ pending_wrap' \in BOOLEAN
        /\ UNCHANGED <<rows, cols, others, written>>
    <3>1. /\ cursor' = <<Least(cursor[1] + 1, rows), cursor[2]>> /\ pending_wrap' = FALSE
          /\ UNCHANGED <<rows, cols, others, written>>
      BY <1>1 DEF LineFeed
    <3>2. cursor' \in Cells
      BY <3>1, SizeFacts DEF RInv, Least, Cells
    <3> QED  BY <3>1, <3>2
  <2>2. CASE cursor[1] = rows
    <3>1. ScrollOffTop(1) /\ 1 \in 0..rows
      BY <1>1, <2>2, SizeFacts DEF LineFeed, RInv
    <3> QED  BY <2>1, <3>1, ScrollOffTopKeeps
  <2>3. CASE cursor[1] # rows
    <3>1. UNCHANGED <<grid, ring, alt_screen, inverse_active, saved_cursor>>
      BY <1>1, <2>1, <2>3 DEF LineFeed, grid, others
    <3>2. inverse_active' \in BOOLEAN /\ (saved_cursor' # None => saved_cursor' \in Positions)
      BY <3>1 DEF RInv, SizeInv
    <3> QED  BY <2>1, <3>1, <3>2, OnlyPlace
  <2> QED  BY <2>2, <2>3
<1>2. CASE \E n \in Counts : ScrollUp(n)
  <2>1. PICK n \in Counts : ScrollUp(n)
    BY <1>2
  <2>2. Least(n, rows) \in 0..rows
    BY SizeFacts, CountFacts DEF RInv, Least
  <2>3. /\ ScrollOffTop(Least(n, rows))
        /\ cursor' = cursor /\ pending_wrap' = pending_wrap
        /\ UNCHANGED <<rows, cols, others, written>>
    BY <2>1 DEF ScrollUp, place
  <2>4. cursor' \in Cells /\ pending_wrap' \in BOOLEAN
    BY <2>3 DEF RInv, SizeInv
  <2> QED  BY <2>2, <2>3, <2>4, ScrollOffTopKeeps
<1> QED  BY <1>1, <1>2
-----------------------------------------------------------------------------
(* put_char                                                                *)

\* The characters of chars are the first ones of more.
Begins(chars, more) ==
  /\ Len(chars) \in Nat /\ Len(more) \in Nat /\ Len(chars) <= Len(more)
  /\ \A i \in 1..Len(chars) : more[i] = chars[i]

\* More characters change nothing for those that are there.
LEMMA SaneWithMore ==
  ASSUME NEW chars, NEW more, Begins(chars, more), NEW h, NEW w, NEW g, NEW f,
         Sane(chars, g, f, h, w)
  PROVE  Sane(more, g, f, h, w)
<1>1. g \in Grid(0..Len(more), h, w)
  <2>1. 0..Len(chars) \subseteq 0..Len(more)
    BY DEF Begins
  <2> QED  BY <2>1 DEF Sane, Grid
<1>2. Flagged(more, g, f, h, w)
  <2> SUFFICES ASSUME NEW r \in 1..h, NEW c \in 1..w
               PROVE  f[r][c] = (g[r][c] # Blank /\ more[g[r][c]].inverse)
    BY DEF Flagged
  <2>1. g[r][c] \in 0..Len(chars)
    BY DEF Sane, Grid
  <2>2. g[r][c] # Blank => more[g[r][c]] = chars[g[r][c]]
    BY <2>1 DEF Begins, Blank
  <2>3. f[r][c] = (g[r][c] # Blank /\ chars[g[r][c]].inverse)
    BY DEF Sane, Flagged
  <2> QED  BY <2>2, <2>3, Zenon
<1> QED  BY <1>1, <1>2 DEF Sane

\* What a cell may be given: nothing, or a new character and its flag.
NewCell(chars, more, id, flag) ==
  /\ Begins(chars, more) /\ flag \in BOOLEAN
  /\ \/ id = Blank /\ flag = FALSE
     \/ id = Len(chars) + 1 /\ id <= Len(more) /\ flag = more[id].inverse

\* The grid g with v in one cell.
Put(g, a, b, v) == [g EXCEPT ![a][b] = v]

\* A cell is overwritten.
LEMMA WroteCell ==
  ASSUME NEW chars, NEW more, NEW h \in Nat, NEW w \in Nat, NEW g, NEW f,
         Sane(chars, g, f, h, w), NEW a \in 1..h, NEW b \in 1..w, NEW id, NEW flag,
         NewCell(chars, more, id, flag)
  PROVE  /\ Sane(more, Put(g, a, b, id), Put(f, a, b, flag), h, w)
         /\ Content(Put(g, a, b, id)) \subseteq Content(g) \cup ({id} \ {Blank})
<1> DEFINE n == Len(more)
           g2 == Put(g, a, b, id)
           f2 == Put(f, a, b, flag)
<1>0. /\ Begins(chars, more) /\ flag \in BOOLEAN
      /\ \/ id = Blank /\ flag = FALSE
         \/ id = Len(chars) + 1 /\ id <= Len(more) /\ flag = more[id].inverse
  BY DEF NewCell
<1>1. Sane(more, g, f, h, w)
  BY <1>0, SaneWithMore
<1>2. n \in Nat /\ id \in 0..n /\ g \in Grid(0..n, h, w) /\ f \in Grid(BOOLEAN, h, w)
  BY <1>0, <1>1 DEF Begins, Sane, Blank
<1>3. \A r \in 1..h, c \in 1..w : g[r][c] # id \/ id = Blank
  <2>1. \A r \in 1..h, c \in 1..w : g[r][c] \in 0..Len(chars)
    BY DEF Sane, Grid
  <2> QED  BY <1>0, <2>1 DEF Begins
<1>4. /\ \A r \in 1..h, c \in 1..w : g2[r][c] = IF r = a /\ c = b THEN id ELSE g[r][c]
      /\ g2 \in Grid(0..n, h, w)
  BY <1>2 DEF Grid, Put
<1>5. /\ \A r \in 1..h, c \in 1..w : f2[r][c] = IF r = a /\ c = b THEN flag ELSE f[r][c]
      /\ f2 \in Grid(BOOLEAN, h, w)
  BY <1>0, <1>2 DEF Grid, Put
<1> HIDE DEF g2, f2, n
<1>6. Once(g2)
  <2>1. ASSUME NEW r \in 1..h, NEW s \in 1..h, NEW c \in 1..w, NEW d \in 1..w,
               g2[r][c] # Blank, g2[s][d] = g2[r][c]
        PROVE  s = r /\ d = c
    <3>1. CASE r = a /\ c = b
      BY <1>3, <1>4, <2>1, <3>1
    <3>2. CASE s = a /\ d = b
      BY <1>3, <1>4, <2>1, <3>2
    <3>3. CASE ~(r = a /\ c = b) /\ ~(s = a /\ d = b)
      <4>1. g[r][c] # Blank /\ g[s][d] = g[r][c]
        BY <1>4, <2>1, <3>3
      <4>2. r \in DOMAIN g /\ c \in DOMAIN g[r] /\ s \in DOMAIN g /\ d \in DOMAIN g[s]
        BY <1>2 DEF Grid
      <4> QED  BY <4>1, <4>2 DEF Sane, Once
    <3> QED  BY <3>1, <3>2, <3>3
  <2>2. \A r, s \in 1..h, c, d \in 1..w :
          g2[r][c] # Blank /\ g2[s][d] = g2[r][c] => s = r /\ d = c
    BY <2>1
  <2> QED  BY <1>2, <1>4, <2>2, GridContent
<1>7. Flagged(more, g2, f2, h, w)
  <2> SUFFICES ASSUME NEW r \in 1..h, NEW c \in 1..w
               PROVE  f2[r][c] = (g2[r][c] # Blank /\ more[g2[r][c]].inverse)
    BY DEF Flagged
  <2>1. CASE r = a /\ c = b
    <3>1. g2[r][c] = id /\ f2[r][c] = flag
      BY <1>4, <1>5, <2>1
    <3>2. flag = (id # Blank /\ more[id].inverse)
      BY <1>0 DEF Blank, Begins
    <3> QED  BY <3>1, <3>2
  <2>2. CASE ~(r = a /\ c = b)
    <3>1. g2[r][c] = g[r][c] /\ f2[r][c] = f[r][c]
      BY <1>4, <1>5, <2>2
    <3> QED  BY <1>1, <3>1 DEF Sane, Flagged
  <2> QED  BY <2>1, <2>2
<1>8. Content(g2) \subseteq Content(g) \cup ({id} \ {Blank})
  <2> SUFFICES ASSUME NEW i \in Content(g2), i # id PROVE i \in Content(g)
    BY DEF Content, Blank
  <2>1. PICK r \in 1..h, c \in 1..w : g2[r][c] = i
    BY <1>2, <1>4, GridContent
  <2>2. g[r][c] = i /\ i # Blank
    BY <1>4, <2>1 DEF Content, Blank
  <2> QED  BY <1>2, <2>2, GridContent
<1> QED  BY <1>4, <1>5, <1>6, <1>7, <1>8 DEF Sane, g2, f2, n
\* What put_char does: the lines move up by lift, and id is put in row a,
\* column b.
Writes(lift, a, b, id) ==
  /\ lift = (IF pending_wrap /\ cursor[1] = rows THEN 1 ELSE 0)
  /\ lift \in 0..rows /\ a \in 1..rows /\ b \in 1..cols /\ (lift = 1 => a = rows)
  /\ cursor' = <<a, Least(b + 1, cols)>> /\ pending_wrap' = (b = cols)
  /\ UNCHANGED <<rows, cols, others>> /\ CaptureTop(lift)
  /\ screen' = Put(Moved(screen, Blank, rows, cols, Lift(lift)), a, b, id)
  /\ inverse' = Put(Moved(inverse, FALSE, rows, cols, Lift(lift)), a, b, inverse_active)
  /\ written' \in Seq(Chars) /\ NewCell(written, written', id, inverse_active)
  /\ id = (IF written' = written THEN Blank ELSE Len(written'))
  /\ id # Blank => written'[id].alt = OnAlternate

LEMMA PutCharWrites ==
  ASSUME RInv, NEW ink \in BOOLEAN, PutChar(ink)
  PROVE  \E lift, a, b, id : Writes(lift, a, b, id)
<1> DEFINE lift == IF pending_wrap /\ cursor[1] = rows THEN 1 ELSE 0
           at == IF pending_wrap THEN <<Least(cursor[1] + 1, rows), 1>> ELSE cursor
           seen == ink \/ inverse_active
           id == IF seen THEN Len(written) + 1 ELSE Blank
           new == [ink |-> ink, inverse |-> inverse_active, alt |-> OnAlternate]
           g == Moved(screen, Blank, rows, cols, Lift(lift))
           f == Moved(inverse, FALSE, rows, cols, Lift(lift))
<1>1. /\ rows \in Nat \ {0} /\ cols \in Nat \ {0} /\ Len(written) \in Nat /\ written \in Seq(Chars)
      /\ cursor[1] \in 1..rows /\ cursor[2] \in 1..cols
      /\ pending_wrap \in BOOLEAN /\ inverse_active \in BOOLEAN /\ OnAlternate \in BOOLEAN
  BY SizeFacts DEF RInv, SizeInv, OnAlternate
<1>2. /\ lift \in 0..rows /\ at[1] \in 1..rows /\ at[2] \in 1..cols
      /\ lift = 1 => at[1] = rows
  BY <1>1 DEF Least
<1>3. /\ cursor' = <<at[1], Least(at[2] + 1, cols)>> /\ pending_wrap' = (at[2] = cols)
      /\ written' = (IF seen THEN Append(written, new) ELSE written)
      /\ CaptureTop(lift) /\ UNCHANGED <<rows, cols, others>>
  BY DEF PutChar
<1>4. /\ screen' = [g EXCEPT ![at[1]][at[2]] = id]
      /\ inverse' = [f EXCEPT ![at[1]][at[2]] = inverse_active]
  <2>1. Rearranged(screen, Blank, rows, cols, LAMBDA r, c : Up(lift, r, c)) = g
    BY DEF Rearranged, Up, Moved, Lift
  <2>2. Rearranged(inverse, FALSE, rows, cols, LAMBDA r, c : Up(lift, r, c)) = f
    BY DEF Rearranged, Up, Moved, Lift
  <2>3. /\ screen' = [Rearranged(screen, Blank, rows, cols, LAMBDA r, c : Up(lift, r, c))
                      EXCEPT ![at[1]][at[2]] = id]
        /\ inverse' = [Rearranged(inverse, FALSE, rows, cols, LAMBDA r, c : Up(lift, r, c))
                      EXCEPT ![at[1]][at[2]] = inverse_active]
    BY Zenon DEF PutChar
  <2> HIDE DEF g, f, lift, at, id
  <2> QED  BY <2>1, <2>2, <2>3, Zenon
<1>5. new \in Chars /\ new.inverse = inverse_active /\ new.alt = OnAlternate
  BY <1>1 DEF Chars
<1>6. /\ written' \in Seq(Chars) /\ Begins(written, written')
      /\ \/ id = Blank /\ inverse_active = FALSE
         \/ /\ id = Len(written) + 1 /\ id <= Len(written')
            /\ inverse_active = written'[id].inverse /\ written'[id].alt = OnAlternate
  <2>1. CASE seen
    <3>1. written' = Append(written, new) /\ id = Len(written) + 1
      BY <1>3, <2>1
    <3> HIDE DEF new, id
    <3>2. /\ written' \in Seq(Chars) /\ Len(written') = Len(written) + 1
          /\ written'[id] = new /\ \A i \in 1..Len(written) : written'[i] = written[i]
      BY <1>1, <1>5, <3>1
    <3> QED  BY <1>1, <1>5, <3>1, <3>2 DEF Begins
  <2>2. CASE ~seen
    BY <1>1, <1>3, <2>2 DEF Begins
  <2> QED  BY <2>1, <2>2
<1>7. id = (IF written' = written THEN Blank ELSE Len(written'))
  <2>1. CASE seen
    <3>1. written' = Append(written, new) /\ id = Len(written) + 1
      BY <1>3, <2>1
    <3> HIDE DEF new, id
    <3>2. Len(written') = Len(written) + 1 /\ written' # written
      BY <1>1, <1>5, <3>1
    <3> QED  BY <3>1, <3>2
  <2>2. CASE ~seen
    BY <1>3, <2>2
  <2> QED  BY <2>1, <2>2
<1>8. lift = (IF pending_wrap /\ cursor[1] = rows THEN 1 ELSE 0)
  OBVIOUS
<1> HIDE DEF lift, at, seen, id, new, g, f
<1>9. NewCell(written, written', id, inverse_active)
  BY <1>1, <1>6, Zenon DEF NewCell
<1>10. /\ screen' = Put(g, at[1], at[2], id) /\ inverse' = Put(f, at[1], at[2], inverse_active)
  BY <1>4 DEF Put
<1>11. Writes(lift, at[1], at[2], id)
  BY <1>2, <1>3, <1>6, <1>7, <1>8, <1>9, <1>10 DEF Writes, g, f
<1> QED  BY <1>11

LEMMA PutCharKeeps ==
  ASSUME RInv, NEW ink \in BOOLEAN, PutChar(ink)
  PROVE  RInv'
<1>0. PICK lift, a, b, id : Writes(lift, a, b, id)
  BY PutCharWrites
<1> DEFINE g == Moved(screen, Blank, rows, cols, Lift(lift))
           f == Moved(inverse, FALSE, rows, cols, Lift(lift))
           top == SubSeq(screen, 1, lift)
<1>1. /\ rows \in Nat \ {0} /\ cols \in Nat \ {0} /\ Len(written) \in Nat
      /\ inverse_active \in BOOLEAN
  BY SizeFacts DEF RInv, SizeInv
<1>2. lift \in 0..rows /\ a \in 1..rows /\ b \in 1..cols
  BY <1>0 DEF Writes
<1>3. /\ cursor' = <<a, Least(b + 1, cols)>> /\ pending_wrap' = (b = cols)
      /\ CaptureTop(lift) /\ UNCHANGED <<rows, cols, others>>
  BY <1>0 DEF Writes
<1>4. screen' = Put(g, a, b, id) /\ inverse' = Put(f, a, b, inverse_active)
  BY <1>0 DEF Writes
<1>5. NewCell(written, written', id, inverse_active)
  BY <1>0 DEF Writes
<1>6. /\ written' \in Seq(Chars) /\ Begins(written, written')
      /\ \/ id = Blank
         \/ /\ id = Len(written) + 1 /\ id <= Len(written') /\ written'[id].alt = OnAlternate
  <2>1. written' \in Seq(Chars) /\ (id # Blank => written'[id].alt = OnAlternate)
    BY <1>0 DEF Writes
  <2> QED  BY <1>5, <2>1 DEF NewCell
<1> HIDE DEF g, f, top
<1>7. /\ Sane(written, g, f, rows, cols) /\ Content(g) \subseteq Content(screen)
      /\ Content(top) \subseteq Content(screen) /\ Apart(top, g)
  BY <1>2, LiftedGrid DEF g, f, top
<1>8. /\ Sane(written', screen', inverse', rows, cols)
      /\ Content(screen') \subseteq Content(g) \cup ({id} \ {Blank})
  <2>1. rows \in Nat /\ cols \in Nat /\ a \in 1..rows /\ b \in 1..cols
    BY <1>1, <1>2
  <2>2. /\ Sane(written', Put(g, a, b, id), Put(f, a, b, inverse_active), rows, cols)
        /\ Content(Put(g, a, b, id)) \subseteq Content(g) \cup ({id} \ {Blank})
    BY ONLY <1>5, <1>7, <2>1, WroteCell
  <2> QED  BY <1>4, <2>2
<1>9. /\ RingInv' /\ Once(History')
      /\ Content(History') \subseteq Content(History) \cup Content(top)
      /\ OnAlternate => Content(History') \subseteq Content(History)
  BY <1>2, <1>3, CaptureTopHistory DEF top
<1>10. UNCHANGED <<inverse_active, saved_cursor, alt_screen>>
  BY <1>3 DEF others
<1>11. Cells' = Cells /\ OnAlternate' = OnAlternate
  BY <1>3, <1>10 DEF Cells, OnAlternate
<1>12. SizeInv'
  <2>1. cursor' \in Cells
    BY <1>1, <1>2, <1>3 DEF Least, Cells
  <2> QED  BY <1>3, <1>6, <1>10, <1>11, <2>1 DEF RInv, SizeInv
<1>13. Content(screen) \subseteq 1..Len(written) /\ Content(History) \subseteq 1..Len(written)
  <2>1. screen \in Grid(0..Len(written), rows, cols) /\ rows \in Nat /\ cols \in Nat
    BY <1>1 DEF RInv, Sane
  <2> QED  BY <1>1, <2>1, GridContent DEF RInv, HistoryInv
<1>14. StashInv'
  <2> SUFFICES ASSUME OnAlternate PROVE StashInv'
    BY <1>11 DEF StashInv
  <2>1. /\ Sane(written, alt_screen.screen, alt_screen.inverse, rows, cols)
        /\ alt_screen.cursor \in Cells /\ Apart(alt_screen.screen, screen)
    BY DEF RInv, StashInv
  <2>2. Sane(written', alt_screen.screen, alt_screen.inverse, rows, cols)
    BY <1>6, <2>1, SaneWithMore
  <2>3. Content(alt_screen.screen) \subseteq 1..Len(written)
    <3>1. alt_screen.screen \in Grid(0..Len(written), rows, cols) /\ rows \in Nat /\ cols \in Nat
      BY <1>1, <2>1 DEF Sane
    <3> QED  BY <1>1, <3>1, GridContent
  <2>4. Apart(alt_screen.screen, screen')
    <3>0. id = Blank \/ id = Len(written) + 1
      BY <1>6
    <3>1. id \notin 1..Len(written)
      BY ONLY <1>1, <3>0 DEF Blank
    <3> QED  BY <1>7, <1>8, <2>1, <2>3, <3>1 DEF Apart
  <2> QED  BY <1>3, <1>10, <1>11, <2>1, <2>2, <2>4 DEF StashInv
<1>15. HistoryInv'
  <2>1. Content(History') \subseteq 1..Len(written) /\ Len(written) <= Len(written')
    BY <1>6, <1>7, <1>9, <1>13 DEF Begins
  <2>2. Apart(History', screen')
    BY <1>1, <1>6, <1>7, <1>8, <1>9, <2>1 DEF RInv, HistoryInv, Apart
  <2>3. OnAlternate => Apart(History', alt_screen.screen)
    BY <1>9 DEF RInv, HistoryInv, Apart
  <2>4. Content(History') \subseteq Content(History) \cup Content(Primary)
    BY <1>7, <1>9 DEF Primary
  <2>5. \A i \in 1..Len(written) : written'[i] = written[i]
    BY <1>6 DEF Begins
  <2>6. Clean(written', Content(History'))
    BY <2>1, <2>4, <2>5 DEF RInv, HistoryInv, Clean
  <2>7. Clean(written', Content(Primary'))
    <3>1. CASE OnAlternate
      <4>1. Primary' = Primary
        BY <1>10, <1>11, <3>1 DEF Primary
      <4>2. Content(Primary) \subseteq 1..Len(written)
        <5>1. /\ alt_screen.screen \in Grid(0..Len(written), rows, cols)
              /\ rows \in Nat /\ cols \in Nat
          BY <1>1, <3>1 DEF RInv, StashInv, Sane
        <5> QED  BY <1>1, <3>1, <5>1, GridContent DEF Primary
      <4> QED  BY <2>5, <4>1, <4>2 DEF RInv, HistoryInv, Clean
    <3>2. CASE ~OnAlternate
      <4>1. Primary' = screen' /\ Primary = screen
        BY <1>11, <3>2 DEF Primary
      <4>2. id # Blank => ~written'[id].alt
        BY <1>6, <3>2
      <4> QED  BY <1>7, <1>8, <1>13, <2>5, <4>1, <4>2 DEF RInv, HistoryInv, Clean
    <3> QED  BY <3>1, <3>2
  <2>8. Content(History') \subseteq 1..Len(written')
    BY <1>1, <1>6, <2>1 DEF Begins
  <2> QED  BY <1>9, <1>10, <1>11, <2>2, <2>3, <2>6, <2>7, <2>8 DEF HistoryInv
<1>16. Sane(written, screen, inverse, rows, cols)'
  BY <1>3, <1>8
<1> QED  BY <1>9, <1>12, <1>14, <1>15, <1>16 DEF RInv
-----------------------------------------------------------------------------
(* The alternate screen and the size.                                      *)

LEMMA EnterAltScreenKeeps ==
  ASSUME RInv, EnterAltScreen
  PROVE  RInv'
<1> DEFINE F == Erasure(Cells)
<1>1. /\ rows \in Nat \ {0} /\ cols \in Nat \ {0} /\ Len(written) \in Nat
      /\ Sane(written, screen, inverse, rows, cols) /\ ~OnAlternate
  BY SizeFacts DEF RInv, EnterAltScreen
<1>2. /\ alt_screen'.screen = screen /\ alt_screen'.inverse = inverse
      /\ alt_screen'.cursor = cursor
      /\ cursor' = <<1, 1>> /\ pending_wrap' = FALSE
      /\ UNCHANGED <<rows, cols, ring, saved_cursor, inverse_active, written>>
  BY DEF EnterAltScreen
<1>3. Nowhere \notin Cells
  BY <1>1 DEF Nowhere, Cells
<1>4. /\ screen' = [r \in 1..rows |-> [c \in 1..cols |-> Blank]]
      /\ inverse' = [r \in 1..rows |-> [c \in 1..cols |-> FALSE]]
  BY <1>3 DEF EnterAltScreen, Rearrange, Rearranged
<1>5. /\ screen' \in Grid(0..Len(written), rows, cols) /\ inverse' \in Grid(BOOLEAN, rows, cols)
      /\ \A r \in 1..rows, c \in 1..cols : screen'[r][c] = Blank /\ inverse'[r][c] = FALSE
  BY <1>1, <1>4 DEF Grid, Blank
<1>6. Once(screen') /\ Content(screen') = {} /\ Flagged(written, screen', inverse', rows, cols)
  <2>1. /\ DOMAIN screen' = 1..rows
        /\ \A r \in 1..rows : DOMAIN screen'[r] = 1..cols
    BY <1>5 DEF Grid
  <2>2. \A r \in DOMAIN screen' : \A c \in DOMAIN screen'[r] : screen'[r][c] = Blank
    BY <1>5, <2>1
  <2>3. Flagged(written, screen', inverse', rows, cols)
    BY <1>5 DEF Flagged
  <2> QED  BY <2>2, <2>3 DEF Once, Content, Blank
<1>7. Sane(written, screen', inverse', rows, cols)
  BY <1>5, <1>6 DEF Sane
<1>8. UNCHANGED <<scroll_buffer, scroll_buffer_max, out>> /\ History' = History /\ Cells' = Cells
  BY <1>2 DEF ring, History, Cells
<1>9. SizeInv'
  <2>1. cursor' \in Cells
    BY <1>1, <1>2 DEF Cells
  <2> QED  BY <1>2, <1>8, <2>1 DEF RInv, SizeInv
<1>10. StashInv'
  BY <1>1, <1>2, <1>6, <1>8 DEF RInv, SizeInv, StashInv, Apart
<1>11. RingInv'
  BY <1>8 DEF RInv, RingInv
<1>12. HistoryInv'
  <2>1. Content(Primary') \subseteq Content(Primary)
    BY <1>1, <1>2, <1>6 DEF Primary
  <2> QED  BY <1>2, <1>6, <1>8, <2>1 DEF RInv, HistoryInv, Apart, Clean
<1>13. Sane(written, screen, inverse, rows, cols)'
  BY <1>2, <1>7
<1> QED  BY <1>9, <1>10, <1>11, <1>12, <1>13 DEF RInv

LEMMA ExitAltScreenKeeps ==
  ASSUME RInv, ExitAltScreen
  PROVE  RInv'
<1>1. /\ OnAlternate
      /\ screen' = alt_screen.screen /\ inverse' = alt_screen.inverse
      /\ cursor' = Restored(alt_screen.cursor) /\ pending_wrap' = FALSE
      /\ alt_screen' = None
      /\ UNCHANGED <<rows, cols, ring, saved_cursor, inverse_active, written>>
  BY DEF ExitAltScreen
<1>2. ~OnAlternate' /\ Primary' = Primary
  BY <1>1 DEF OnAlternate, Primary
<1>3. /\ Sane(written, alt_screen.screen, alt_screen.inverse, rows, cols)
      /\ alt_screen.cursor \in Cells
  BY <1>1 DEF RInv, StashInv
<1>4. UNCHANGED <<scroll_buffer, scroll_buffer_max, out>> /\ History' = History /\ Cells' = Cells
  BY <1>1 DEF ring, History, Cells
<1>5. cursor' \in Cells
  BY <1>1, <1>3, SizeFacts DEF RInv, Cells, Restored, Least
<1>6. SizeInv'
  BY <1>1, <1>4, <1>5 DEF RInv, SizeInv
<1>7. RingInv'
  BY <1>4 DEF RInv, RingInv
<1>8. HistoryInv'
  BY <1>1, <1>2, <1>4 DEF RInv, HistoryInv
<1>9. Sane(written, screen, inverse, rows, cols)'
  BY <1>1, <1>3
<1>10. StashInv'
  BY <1>2 DEF StashInv
<1> QED  BY <1>6, <1>7, <1>8, <1>9, <1>10 DEF RInv

LEMMA ResizeKeeps ==
  ASSUME RInv, NEW size \in Sizes, Resize(size)
  PROVE  RInv'
<1> DEFINE h == size[1]
           w == size[2]
           F == [r \in 1..h |-> [c \in 1..w |-> <<r, c>>]]
<1>1. h \in Nat \ {0} /\ w \in Nat \ {0} /\ size = <<h, w>>
  BY SizeAssumption
<1>2. F \in Places(h, w) /\ OneToOne(h, w, F)
  BY <1>1 DEF Places, OneToOne
<1>3. /\ screen' = Moved(screen, Blank, h, w, F) /\ inverse' = Moved(inverse, FALSE, h, w, F)
  BY DEF Resize, Reshaped, Rearranged, Moved
<1>4. OnAlternate =>
        /\ alt_screen'.screen = Moved(alt_screen.screen, Blank, h, w, F)
        /\ alt_screen'.inverse = Moved(alt_screen.inverse, FALSE, h, w, F)
        /\ alt_screen'.cursor = <<Least(alt_screen.cursor[1], h), Least(alt_screen.cursor[2], w)>>
        /\ alt_screen' # None
  <2> SUFFICES ASSUME OnAlternate
               PROVE  /\ alt_screen'.screen = Moved(alt_screen.screen, Blank, h, w, F)
                      /\ alt_screen'.inverse = Moved(alt_screen.inverse, FALSE, h, w, F)
                      /\ alt_screen'.cursor
                         = <<Least(alt_screen.cursor[1], h), Least(alt_screen.cursor[2], w)>>
                      /\ alt_screen' # None
    OBVIOUS
  <2>1. alt_screen' = ReshapedSave(size)
    BY DEF Resize
  <2>2. /\ Reshaped(alt_screen.screen, Blank, size) = Moved(alt_screen.screen, Blank, h, w, F)
        /\ Reshaped(alt_screen.inverse, FALSE, size) = Moved(alt_screen.inverse, FALSE, h, w, F)
    BY DEF Reshaped, Rearranged, Moved
  <2>3. "screen" \in DOMAIN alt_screen' /\ DOMAIN None = {}
    BY <2>1 DEF ReshapedSave, None
  <2>4. alt_screen' # None
    BY <2>3
  <2> HIDE DEF F
  <2> QED  BY <2>1, <2>2, <2>4 DEF ReshapedSave
<1>5. /\ rows' = h /\ cols' = w
      /\ cursor' = <<Least(cursor[1], h), Least(cursor[2], w)>>
      /\ (~OnAlternate => alt_screen' = None)
      /\ UNCHANGED <<pending_wrap, ring, saved_cursor, inverse_active, written>>
  BY DEF Resize
<1> HIDE DEF h, w, F
<1>6. OnAlternate' = OnAlternate
  BY <1>4, <1>5 DEF OnAlternate
<1>7. UNCHANGED <<scroll_buffer, scroll_buffer_max, out>> /\ History' = History
  BY <1>5 DEF ring, History
<1>8. /\ rows \in Nat /\ cols \in Nat /\ Len(written) \in Nat /\ h \in Nat /\ w \in Nat
      /\ cursor[1] \in 1..rows /\ cursor[2] \in 1..cols
  BY <1>1, SizeFacts DEF RInv
<1>9. Sane(written, screen', inverse', h, w) /\ Content(screen') \subseteq Content(screen)
  BY <1>2, <1>3, <1>8, MovedSane DEF RInv
<1>10. OnAlternate =>
         /\ Sane(written, alt_screen'.screen, alt_screen'.inverse, h, w)
         /\ Content(alt_screen'.screen) \subseteq Content(alt_screen.screen)
         /\ alt_screen'.cursor \in (1..h) \X (1..w)
  <2> SUFFICES ASSUME OnAlternate
               PROVE  /\ Sane(written, alt_screen'.screen, alt_screen'.inverse, h, w)
                      /\ Content(alt_screen'.screen) \subseteq Content(alt_screen.screen)
                      /\ alt_screen'.cursor \in (1..h) \X (1..w)
    OBVIOUS
  <2>1. /\ Sane(written, alt_screen.screen, alt_screen.inverse, rows, cols)
        /\ alt_screen.cursor[1] \in 1..rows /\ alt_screen.cursor[2] \in 1..cols
    BY DEF RInv, StashInv, Cells
  <2>2. alt_screen'.cursor \in (1..h) \X (1..w)
    BY <1>1, <1>4, <1>8, <2>1 DEF Least
  <2> DEFINE g == alt_screen.screen
             f == alt_screen.inverse
  <2>3. Sane(written, g, f, rows, cols)
    BY <2>1
  <2> HIDE DEF g, f
  <2>4. /\ Sane(written, Moved(g, Blank, h, w, F), Moved(f, FALSE, h, w, F), h, w)
        /\ Content(Moved(g, Blank, h, w, F)) \subseteq Content(g)
    BY <1>2, <1>8, <2>3, MovedSane
  <2> QED  BY <1>4, <2>2, <2>4 DEF g, f
<1>11. SizeInv'
  <2>1. cursor' \in Cells'
    BY <1>1, <1>5, <1>8 DEF Cells, Least
  <2>2. <<rows', cols'>> \in Sizes
    BY <1>1, <1>5
  <2> QED  BY <1>5, <2>1, <2>2 DEF RInv, SizeInv
<1>12. StashInv'
  BY <1>5, <1>6, <1>9, <1>10 DEF RInv, StashInv, Apart, Cells
<1>13. RingInv'
  BY <1>7 DEF RInv, RingInv
<1>14. HistoryInv'
  <2>1. Content(Primary') \subseteq Content(Primary)
    BY <1>6, <1>9, <1>10 DEF Primary
  <2>2. OnAlternate' => Apart(History', alt_screen'.screen)
    BY <1>6, <1>7, <1>10 DEF RInv, HistoryInv, Apart
  <2> QED  BY <1>5, <1>7, <1>9, <2>1, <2>2 DEF RInv, HistoryInv, Apart, Clean
<1>15. Sane(written, screen, inverse, rows, cols)'
  BY <1>5, <1>9
<1> QED  BY <1>11, <1>12, <1>13, <1>14, <1>15 DEF RInv
-----------------------------------------------------------------------------
(* The specification keeps it.                                             *)

LEMMA InitHolds == Init => RInv
<1> SUFFICES ASSUME Init PROVE RInv
  OBVIOUS
<1>1. /\ rows \in Nat \ {0} /\ cols \in Nat \ {0} /\ <<rows, cols>> \in Sizes
      /\ written = <<>> /\ Len(written) = 0 /\ scroll_buffer = <<>> /\ out = <<>>
      /\ ~OnAlternate /\ saved_cursor = None
  <2>1. /\ StartSize \in Sizes /\ StartSize \in (Nat \ {0}) \X (Nat \ {0})
        /\ rows = StartSize[1] /\ cols = StartSize[2]
    BY SizeAssumption DEF Init
  <2>2. StartSize = <<rows, cols>>
    BY <2>1
  <2> QED  BY <2>1, <2>2 DEF Init, OnAlternate
<1>2. SizeInv
  <2>1. cursor \in Cells /\ pending_wrap \in BOOLEAN /\ inverse_active \in BOOLEAN
    <3>1. <<1, 1>> \in Cells
      BY <1>1 DEF Cells
    <3> QED  BY <3>1 DEF Init
  <2> QED  BY <1>1, <2>1 DEF SizeInv
<1>3. /\ screen \in Grid(0..Len(written), rows, cols) /\ inverse \in Grid(BOOLEAN, rows, cols)
      /\ \A r \in 1..rows, c \in 1..cols : screen[r][c] = Blank /\ inverse[r][c] = FALSE
  BY <1>1 DEF Init, Grid, Blank
<1>4. Once(screen) /\ Content(screen) = {} /\ Flagged(written, screen, inverse, rows, cols)
  <2>1. DOMAIN screen = 1..rows /\ \A r \in 1..rows : DOMAIN screen[r] = 1..cols
    BY <1>3 DEF Grid
  <2>2. \A r \in DOMAIN screen : \A c \in DOMAIN screen[r] : screen[r][c] = Blank
    BY <1>3, <2>1
  <2>3. Flagged(written, screen, inverse, rows, cols)
    BY <1>3 DEF Flagged
  <2> QED  BY <2>2, <2>3 DEF Once, Content, Blank
<1>5. Sane(written, screen, inverse, rows, cols)
  BY <1>3, <1>4 DEF Sane
<1>6. StashInv
  BY <1>1 DEF StashInv
<1>7. RingInv
  <2>1. scroll_buffer_max \in Nat
    BY CountFacts DEF Init
  <2> QED  BY <1>1, <2>1 DEF RingInv, Rows
<1>8. HistoryInv
  <2>1. History = <<>>
    BY <1>1 DEF History
  <2>2. Content(History) = {} /\ Once(History)
    BY <2>1 DEF Content, Once
  <2>3. Primary = screen
    BY <1>1 DEF Primary
  <2> QED  BY <1>1, <1>4, <2>2, <2>3 DEF HistoryInv, Apart, Clean
<1> QED  BY <1>2, <1>5, <1>6, <1>7, <1>8 DEF RInv

LEMMA OutputKeeps ==
  ASSUME RInv, Output
  PROVE  RInv'
<1>1. CASE \E ink \in BOOLEAN : PutChar(ink)
  BY <1>1, PutCharKeeps
<1>2. CASE LineFeed \/ \E n \in Counts : ScrollUp(n)
  BY <1>2, ScrollingKeeps
<1>3. CASE \/ CarriageReturn \/ Backspace \/ Tab
           \/ \E r \in 1..rows, c \in 1..cols : CursorPosition(r, c)
           \/ \E n \in Steps : \/ CursorUp(n) \/ CursorDown(n) \/ CursorForward(n)
                               \/ CursorBack(n) \/ ColumnTo(n) \/ RowTo(n)
  BY <1>3, CursorKeeps
<1>4. CASE \E n \in Counts : \/ EraseChars(n) \/ DeleteChars(n) \/ InsertChars(n)
                             \/ InsertLines(n) \/ DeleteLines(n) \/ ScrollDown(n)
  <2>1. PICK n \in Counts : \/ EraseChars(n) \/ DeleteChars(n) \/ InsertChars(n)
                            \/ InsertLines(n) \/ DeleteLines(n) \/ ScrollDown(n)
    BY <1>4
  <2> QED  BY <2>1, EraseCharsKeeps, DeleteCharsKeeps, InsertCharsKeeps, InsertLinesKeeps,
              DeleteLinesKeeps, ScrollDownKeeps
<1>5. CASE \E mode \in 0..2 : EraseInDisplay(mode) \/ EraseInLine(mode)
  BY <1>5, EraseInDisplayKeeps, EraseInLineKeeps
<1>6. CASE (\E on \in BOOLEAN : SelectInverse(on)) \/ SaveCursor
  BY <1>6, AsideKeeps
<1>7. CASE RestoreCursor \/ EnterAltScreen \/ ExitAltScreen
  BY <1>7, RestoreCursorKeeps, EnterAltScreenKeeps, ExitAltScreenKeeps
<1>8. CASE \E size \in Sizes : XtWinOps(size[1], size[2])
  <2>1. PICK size \in Sizes : XtWinOps(size[1], size[2])
    BY <1>8
  <2>2. <<size[1], size[2]>> \in Sizes /\ Resize(<<size[1], size[2]>>)
    BY <2>1 DEF XtWinOps
  <2> QED  BY <2>2, ResizeKeeps
<1> QED  BY <1>1, <1>2, <1>3, <1>4, <1>5, <1>6, <1>7, <1>8 DEF Output

LEMMA NextKeeps == RInv /\ [Next]_vars => RInv'
<1> SUFFICES ASSUME RInv, [Next]_vars PROVE RInv'
  OBVIOUS
<1>1. CASE Output
  BY <1>1, OutputKeeps
<1>2. CASE \E size \in Sizes : Resize(size)
  BY <1>2, ResizeKeeps
<1>3. CASE Drain \/ \E max \in Maxima : SetScrollBufferMax(max)
  BY <1>3, OnlyRing
<1>4. CASE UNCHANGED vars
  <2>1. /\ UNCHANGED <<grid, ring, alt_screen, written>>
        /\ UNCHANGED <<cursor, pending_wrap, inverse_active, saved_cursor>>
    BY <1>4 DEF vars, place, others
  <2>2. /\ cursor' \in Cells /\ pending_wrap' \in BOOLEAN /\ inverse_active' \in BOOLEAN
        /\ (saved_cursor' # None => saved_cursor' \in Positions)
    BY <2>1 DEF RInv, SizeInv
  <2> QED  BY <2>1, <2>2, OnlyPlace
<1> QED  BY <1>1, <1>2, <1>3, <1>4 DEF Next

-----------------------------------------------------------------------------
(* What it means for the properties.                                       *)

LEMMA RInvImpliesScreen == RInv => ScreenInv
<1> SUFFICES ASSUME RInv PROVE TypeOK /\ EachOnce
  BY DEF ScreenInv
<1>1. /\ rows \in Nat /\ cols \in Nat /\ Len(written) \in Nat
      /\ screen \in Grid(0..Len(written), rows, cols) /\ inverse \in Grid(BOOLEAN, rows, cols)
  BY SizeFacts DEF RInv, Sane
<1>2. TypeOK
  <2>1. GridOf(0..Len(written), screen) /\ GridOf(BOOLEAN, inverse)
    BY <1>1 DEF GridOf, Grid
  <2>2. OnAlternate => /\ GridOf(0..Len(written), alt_screen.screen)
                       /\ GridOf(BOOLEAN, alt_screen.inverse)
                       /\ alt_screen.cursor \in Cells
    BY DEF RInv, StashInv, Sane, GridOf, Grid
  <2> QED  BY <2>1, <2>2 DEF TypeOK, RInv, SizeInv, RingInv
<1>3. screen \in Rows /\ Stashed \in Rows /\ History \in Rows
  <2>1. screen \in Rows
    BY <1>1, GridContent
  <2>2. Stashed \in Rows
    <3>1. CASE OnAlternate
      <4>1. alt_screen.screen \in Grid(0..Len(written), rows, cols)
        BY <3>1 DEF RInv, StashInv, Sane
      <4> QED  BY <1>1, <3>1, <4>1, GridContent DEF Stashed
    <3>2. CASE ~OnAlternate
      BY <3>2 DEF Stashed, Rows
    <3> QED  BY <3>1, <3>2
  <2>3. History \in Rows
    BY DEF RInv, RingInv, History, Rows
  <2> QED  BY <2>1, <2>2, <2>3
<1>4. /\ Once(History) /\ Once(screen) /\ Apart(History, screen)
  BY DEF RInv, HistoryInv, Sane
<1>5. /\ Once(Stashed) /\ Apart(History, Stashed) /\ Apart(screen, Stashed)
  <2>1. CASE OnAlternate
    BY <2>1 DEF RInv, StashInv, HistoryInv, Sane, Stashed, Apart
  <2>2. CASE ~OnAlternate
    <3>1. Stashed = <<>>
      BY <2>2 DEF Stashed
    <3> QED  BY <3>1 DEF Once, Apart, Content
  <2> QED  BY <2>1, <2>2
<1>6. /\ History \o screen \in Rows /\ Once(History \o screen)
      /\ Content(History \o screen) = Content(History) \cup Content(screen)
  BY <1>3, <1>4, OnceInBoth, ContentOfBoth
<1>7. Apart(History \o screen, Stashed)
  BY <1>5, <1>6 DEF Apart
<1>8. Once((History \o screen) \o Stashed)
  BY <1>3, <1>5, <1>6, <1>7, OnceInBoth
<1>9. EachOnce
  BY <1>8 DEF EachOnce, Once
<1> QED  BY <1>2, <1>9

LEMMA RInvImpliesLockstep == RInv => InverseLockstep
<1> SUFFICES ASSUME RInv, NEW p \in Cells
             PROVE  inverse[p[1]][p[2]]
                    = (screen[p[1]][p[2]] # Blank /\ written[screen[p[1]][p[2]]].inverse)
  BY DEF InverseLockstep
<1>1. p[1] \in 1..rows /\ p[2] \in 1..cols
  BY DEF Cells
<1> QED  BY <1>1 DEF RInv, Sane, Flagged

LEMMA RInvImpliesPrivate == RInv => AltPrivate
<1> SUFFICES ASSUME RInv PROVE AltPrivate
  OBVIOUS
<1> DEFINE all == History \o Primary
<1>1. History \in Rows /\ Primary \in Rows
  <2>1. /\ rows \in Nat /\ cols \in Nat /\ Len(written) \in Nat
        /\ Primary \in Grid(0..Len(written), rows, cols)
    BY SizeFacts DEF RInv, StashInv, Sane, Primary
  <2>2. Primary \in Rows
    BY <2>1, GridContent
  <2> QED  BY <2>2 DEF RInv, RingInv, History, Rows
<1>2. all \in Rows /\ Clean(written, Content(all))
  BY <1>1, ContentOfBoth DEF RInv, HistoryInv, Clean
<1>3. all = History \o (IF OnAlternate THEN Stashed ELSE screen)
  BY DEF Primary, Stashed
<1> HIDE DEF all
<1>4. ASSUME NEW i \in DOMAIN all, NEW c \in DOMAIN all[i], all[i][c] # Blank
      PROVE  ~written[all[i][c]].alt
  <2>1. all[i][c] \in Nat \ {0}
    BY <1>2, <1>4 DEF Rows, Blank
  <2>2. all[i][c] \in Content(all)
    BY <1>4, <2>1 DEF Content
  <2> QED  BY <1>2, <2>2 DEF Clean
<1> QED  BY <1>3, <1>4 DEF AltPrivate

-----------------------------------------------------------------------------

LEMMA AlwaysRInv == Spec => []RInv
<1>1. Init => RInv
  BY InitHolds
<1>2. RInv /\ [Next]_vars => RInv'
  BY NextKeeps
<1> QED  BY <1>1, <1>2, PTL DEF Spec

\* The grids and cursors fit every size the screen is given (resize, and the
\* stash in alt_screen), and no operation of handle_csi, put_char or
\* scroll_off_top leaves a character in two places.
THEOREM CharactersInOnePlace == Spec => []ScreenInv
  BY AlwaysRInv, RInvImpliesScreen, PTL

\* The two parallel blocks of each operation move characters and flags alike.
THEOREM FlagsFollowCharacters == Spec => []InverseLockstep
  BY AlwaysRInv, RInvImpliesLockstep, PTL

\* Neither enter_alt_screen, exit_alt_screen, a resize between them nor
\* scroll_off_top lets a character of the alternate screen into the transcript.
THEOREM AlternateStaysPrivate == Spec => []AltPrivate
  BY AlwaysRInv, RInvImpliesPrivate, PTL
-----------------------------------------------------------------------------
(* render_screen                                                           *)

\* The rows up to the last that is used, the cells up to the last that is seen.
Height == LastWith(rows, Used)
Width(show, r) == LastWith(cols, LAMBDA c : Glyph(show, r, c) # Blank)

LEMMA UsedWithinHeight ==
  ASSUME rows \in Nat
  PROVE  Height \in 0..rows /\ \A r \in 1..rows : Used(r) => r <= Height
<1> DEFINE S == {r \in 1..rows : Used(r)}
           Is(i) == (i > 0 => Used(i)) /\ \A j \in (i + 1)..rows : ~Used(j)
<1>1. \E i \in 0..rows : (i > 0 => i \in S) /\ \A j \in (i + 1)..rows : j \notin S
  <2> HIDE DEF S
  <2> QED  BY LastExists
<1>2. \E i \in 0..rows : Is(i)
  BY <1>1
<1>3. Height = CHOOSE i \in 0..rows : Is(i)
  BY Zenon DEF Height, LastWith
<1>4. Height \in 0..rows /\ Is(Height)
  <2> HIDE DEF Is
  <2> QED  BY <1>2, <1>3
<1> QED  BY <1>4

LEMMA SeenWithinWidth ==
  ASSUME cols \in Nat, NEW show, NEW r
  PROVE  /\ Width(show, r) \in 0..cols
         /\ \A c \in 1..cols : Glyph(show, r, c) # Blank => c <= Width(show, r)
<1> DEFINE S == {c \in 1..cols : Glyph(show, r, c) # Blank}
           Is(i) == (i > 0 => Glyph(show, r, i) # Blank)
                    /\ \A j \in (i + 1)..cols : ~(Glyph(show, r, j) # Blank)
           w == Width(show, r)
<1>1. \E i \in 0..cols : (i > 0 => i \in S) /\ \A j \in (i + 1)..cols : j \notin S
  <2> HIDE DEF S
  <2> QED  BY LastExists
<1>2. \E i \in 0..cols : Is(i)
  BY <1>1
<1>3. w = CHOOSE i \in 0..cols : Is(i)
  BY Zenon DEF Width, LastWith
<1> HIDE DEF w
<1>4. w \in 0..cols /\ Is(w)
  <2> HIDE DEF Is
  <2> QED  BY <1>2, <1>3
<1>5. \A c \in 1..cols : Glyph(show, r, c) # Blank => c <= w
  BY <1>4
<1> QED  BY <1>4, <1>5 DEF w

LEMMA FrameByCells ==
  ASSUME NEW show \in BOOLEAN
  PROVE  Frame(show) = [r \in 1..(IF show THEN Most(Height, cursor[1]) ELSE Height) |->
                         [c \in 1..Width(show, r) |-> Glyph(show, r, c)]]
BY Zenon DEF Frame, Height, Width, LastWith
\* Cells that the frame must show: a character, and a lone inverse space.
LEMMA GlyphShown ==
  ASSUME RInv, NEW show \in BOOLEAN, NEW r \in 1..rows, NEW c \in 1..cols
  PROVE  /\ show /\ <<r, c>> = cursor => Glyph(show, r, c) = Block
         /\ Ink(screen[r][c]) /\ ~(show /\ <<r, c>> = cursor) =>
              /\ Glyph(show, r, c) = screen[r][c] /\ screen[r][c] # Blank /\ Used(r)
         /\ /\ inverse[r][c] /\ ~Ink(screen[r][c])
            /\ \A d \in 1..cols : d # c => ~inverse[r][d]
            => Glyph(show, r, c) = Block /\ Used(r)
<1>1. cols \in Nat
  BY SizeFacts DEF RInv
<1>2. ASSUME show, <<r, c>> = cursor PROVE Glyph(show, r, c) = Block
  BY <1>2 DEF Glyph
<1>3. ASSUME Ink(screen[r][c]), ~(show /\ <<r, c>> = cursor)
      PROVE  Glyph(show, r, c) = screen[r][c] /\ screen[r][c] # Blank /\ Used(r)
  <2>1. ASSUME inverse[r][c] PROVE ~InBlankRun(r, c)
    <3>1. \A e \in Least(c, c)..Most(c, c) : e = c
      BY DEF Least, Most
    <3>2. \A e \in Least(c, c)..Most(c, c) : inverse[r][e]
      BY <2>1, <3>1
    <3> QED  BY <1>3, <3>2 DEF InBlankRun
  <2>2. Used(r) /\ screen[r][c] # Blank
    BY <1>3 DEF Used, Ink
  <2> QED  BY <1>3, <2>1, <2>2 DEF Glyph
<1>4. ASSUME inverse[r][c], ~Ink(screen[r][c]), \A d \in 1..cols : d # c => ~inverse[r][d]
      PROVE  Glyph(show, r, c) = Block /\ Used(r)
  <2>1. ASSUME NEW d \in 1..cols, \A e \in Least(c, d)..Most(c, d) : inverse[r][e]
        PROVE  ~Ink(screen[r][d])
    <3>1. d \in Least(c, d)..Most(c, d)
      BY <1>1 DEF Least, Most
    <3>2. inverse[r][d]
      BY <2>1, <3>1
    <3> QED  BY <1>4, <3>2
  <2>2. InBlankRun(r, c)
    BY <2>1 DEF InBlankRun
  <2> QED  BY <1>4, <2>2 DEF Glyph, Used
<1> QED  BY <1>2, <1>3, <1>4

LEMMA RInvImpliesShown == RInv => FrameShowsScreen
<1> SUFFICES ASSUME RInv, NEW show \in BOOLEAN, NEW p \in Cells
             PROVE  LET frame == Frame(show)
                        Shows(g) == /\ p[1] <= Len(frame) /\ p[2] <= Len(frame[p[1]])
                                    /\ frame[p[1]][p[2]] = g
                    IN  /\ Ink(screen[p[1]][p[2]]) /\ ~(show /\ p = cursor)
                             => Shows(screen[p[1]][p[2]])
                        /\ \/ show /\ p = cursor
                           \/ /\ inverse[p[1]][p[2]] /\ ~Ink(screen[p[1]][p[2]])
                              /\ \A d \in 1..cols : d # p[2] => ~inverse[p[1]][d]
                           => Shows(Block)
  BY Zenon DEF FrameShowsScreen
<1> DEFINE r == p[1]
           c == p[2]
           frame == Frame(show)
           until == IF show THEN Most(Height, cursor[1]) ELSE Height
<1>1. /\ rows \in Nat /\ cols \in Nat /\ cursor[1] \in 1..rows /\ cursor[2] \in 1..cols
      /\ r \in 1..rows /\ c \in 1..cols /\ p = <<r, c>>
  BY SizeFacts DEF RInv, Cells
<1> HIDE DEF r, c
<1>2. /\ Height \in 0..rows /\ until \in 0..rows /\ Height <= until
      /\ show => cursor[1] <= until
  BY <1>1, UsedWithinHeight DEF Most
<1>3. frame = [i \in 1..until |-> [d \in 1..Width(show, i) |-> Glyph(show, i, d)]]
  BY FrameByCells
<1> HIDE DEF until, frame
<1>4. ASSUME r <= until, Glyph(show, r, c) # Blank
      PROVE  r <= Len(frame) /\ c <= Len(frame[r]) /\ frame[r][c] = Glyph(show, r, c)
  <2>1. Width(show, r) \in Nat /\ c <= Width(show, r)
    BY <1>1, <1>4, SeenWithinWidth
  <2>2. Len(frame) = until
    BY <1>2, <1>3
  <2>3. frame[r] = [d \in 1..Width(show, r) |-> Glyph(show, r, d)]
    BY <1>1, <1>2, <1>3, <1>4
  <2>4. Len(frame[r]) = Width(show, r)
    BY <2>1, <2>3
  <2>5. frame[r][c] = Glyph(show, r, c)
    BY <1>1, <2>1, <2>3
  <2> QED  BY <1>4, <2>1, <2>2, <2>4, <2>5
<1>5. Used(r) => r <= until
  BY <1>1, <1>2, UsedWithinHeight
<1>6. ASSUME Ink(screen[r][c]), ~(show /\ p = cursor)
      PROVE  r <= Len(frame) /\ c <= Len(frame[r]) /\ frame[r][c] = screen[r][c]
  <2>1. Glyph(show, r, c) = screen[r][c] /\ screen[r][c] # Blank /\ Used(r)
    BY <1>1, <1>6, GlyphShown
  <2> QED  BY <1>4, <1>5, <2>1
<1>7. ASSUME show, p = cursor
      PROVE  r <= Len(frame) /\ c <= Len(frame[r]) /\ frame[r][c] = Block
  <2>1. Glyph(show, r, c) = Block
    BY <1>1, <1>7, GlyphShown, ZenonT(40)
  <2>2. r <= until
    BY <1>2, <1>7 DEF r
  <2> QED  BY <1>4, <2>1, <2>2 DEF Block, Blank
<1>8. ASSUME inverse[r][c], ~Ink(screen[r][c]), \A d \in 1..cols : d # c => ~inverse[r][d]
      PROVE  r <= Len(frame) /\ c <= Len(frame[r]) /\ frame[r][c] = Block
  <2>1. Glyph(show, r, c) = Block /\ Used(r)
    BY <1>1, <1>8, GlyphShown
  <2> QED  BY <1>4, <1>5, <2>1 DEF Block, Blank
<1> QED  BY <1>6, <1>7, <1>8 DEF r, c, frame

\* render_screen leaves out no character and no cursor, whatever it trims.
THEOREM FrameIsComplete == Spec => []FrameShowsScreen
  BY AlwaysRInv, RInvImpliesShown, PTL
-----------------------------------------------------------------------------
(* Parts of a sequence, joined.                                            *)

\* What is made of each element, and all of it joined.
Each(G, s) == [i \in DOMAIN s |-> G[s[i]]]
Joined(G, s) == FlattenSeq(Each(G, s))
Splits(G, X, Y) == G \in [X -> Seq(Y)]

LEMMA EachType ==
  ASSUME NEW X, NEW Y, NEW G \in [X -> Y], NEW s \in Seq(X)
  PROVE  Each(G, s) \in Seq(Y)
<1>1. Len(s) \in Nat /\ DOMAIN s = 1..Len(s) /\ \A i \in DOMAIN s : G[s[i]] \in Y
  OBVIOUS
<1> QED  BY <1>1 DEF Each

LEMMA JoinedType ==
  ASSUME NEW X, NEW Y, NEW G, Splits(G, X, Y), NEW s \in Seq(X)
  PROVE  Joined(G, s) \in Seq(Y)
<1>1. Each(G, s) \in Seq(Seq(Y))
  BY EachType DEF Splits
<1> QED  BY <1>1, FlattenType DEF Joined

LEMMA JoinedConcat ==
  ASSUME NEW X, NEW Y, NEW G, Splits(G, X, Y), NEW a \in Seq(X), NEW b \in Seq(X)
  PROVE  Joined(G, a \o b) = Joined(G, a) \o Joined(G, b)
<1> DEFINE m == Len(a)
           n == Len(b)
           fab == Each(G, a \o b)
           fa == Each(G, a)
           fb == Each(G, b)
<1>1. /\ m \in Nat /\ n \in Nat /\ DOMAIN a = 1..m /\ DOMAIN b = 1..n
      /\ a \o b \in Seq(X) /\ Len(a \o b) = m + n /\ DOMAIN (a \o b) = 1..(m + n)
  OBVIOUS
<1>2. /\ fab \in Seq(Seq(Y)) /\ Len(fab) = m + n
      /\ fa \in Seq(Seq(Y)) /\ Len(fa) = m /\ fb \in Seq(Seq(Y)) /\ Len(fb) = n
  <2>1. ASSUME NEW s \in Seq(X)
        PROVE  Each(G, s) \in Seq(Seq(Y)) /\ Len(Each(G, s)) = Len(s)
    <3>1. Each(G, s) \in Seq(Seq(Y))
      BY EachType DEF Splits
    <3>2. Len(s) \in Nat /\ DOMAIN s = 1..Len(s)
      OBVIOUS
    <3>3. Len(Each(G, s)) = Len(s)
      BY <3>2 DEF Each
    <3> QED  BY <3>1, <3>3
  <2> QED  BY <1>1, <2>1
<1>3. \A i \in 1..(m + n) : (a \o b)[i] = IF i <= m THEN a[i] ELSE b[i - m]
  OBVIOUS
<1>4. \A i \in 1..(m + n) : (i <= m => i \in 1..m) /\ (~(i <= m) => i - m \in 1..n)
  BY <1>1
<1> HIDE DEF m, n
<1>5. \A i \in 1..(m + n) : fab[i] = IF i <= m THEN fa[i] ELSE fb[i - m]
  BY <1>1, <1>3, <1>4 DEF Each
<1> HIDE DEF fab, fa, fb
<1>6. fab = fa \o fb
  <2>1. /\ fa \o fb \in Seq(Seq(Y)) /\ Len(fa \o fb) = m + n
        /\ \A i \in 1..(m + n) : (fa \o fb)[i] = IF i <= m THEN fa[i] ELSE fb[i - m]
    <3>1. ASSUME NEW S, NEW s \in Seq(S), NEW t \in Seq(S)
          PROVE  /\ s \o t \in Seq(S) /\ Len(s \o t) = Len(s) + Len(t)
                 /\ \A i \in 1..(Len(s) + Len(t)) :
                      (s \o t)[i] = IF i <= Len(s) THEN s[i] ELSE t[i - Len(s)]
      OBVIOUS
    <3> QED  BY ONLY <1>2, <3>1
  <2>2. ASSUME NEW S, NEW s \in Seq(S), NEW t \in Seq(S), Len(s) = Len(t),
               \A i \in 1..Len(s) : s[i] = t[i]
        PROVE  s = t
    BY ONLY <2>2, SeqEqual
  <2>3. \A i \in 1..(m + n) : fab[i] = (fa \o fb)[i]
    BY ONLY <1>5, <2>1
  <2> QED  BY ONLY <1>2, <2>1, <2>2, <2>3
<1> QED  BY <1>2, <1>6, FlattenConcat DEF Joined, fab, fa, fb

LEMMA JoinedOne ==
  ASSUME NEW X, NEW Y, NEW G, Splits(G, X, Y), NEW e \in X
  PROVE  Joined(G, <<e>>) = G[e]
<1>1. Each(G, <<e>>) = Append(<<>>, G[e])
  BY DEF Each
<1>2. <<>> \in Seq(Seq(Y)) /\ G[e] \in Seq(Y) /\ <<>> \o G[e] = G[e]
  BY DEF Splits
<1>3. FlattenSeq(Append(<<>>, G[e])) = <<>> \o G[e]
  BY ONLY <1>2, FlattenAppend, FlattenNothing
<1> QED  BY <1>1, <1>2, <1>3 DEF Joined

LEMMA JoinedNothing ==
  ASSUME NEW X, NEW G, NEW s \in Seq(X), \A i \in DOMAIN s : G[s[i]] = <<>>
  PROVE  Joined(G, s) = <<>>
<1>1. Len(s) \in Nat /\ DOMAIN s = 1..Len(s)
  OBVIOUS
<1>2. Each(G, s) \in Seq({<<>>})
  BY <1>1 DEF Each
<1> QED  BY <1>2, FlattenEmpties DEF Joined

-----------------------------------------------------------------------------
(* What is to be seen of rows.                                             *)

\* What each cell and each row shows.
Face(chars, id, x) == IF id \notin {Blank, x} /\ chars[id].ink THEN <<id>> ELSE <<>>
Faces(chars, x) == [id \in Nat |-> Face(chars, id, x)]
Sights(chars, x) == [row \in Seq(Nat) |-> Seen(chars, row, x)]

LEMMA SeenFaces ==
  ASSUME NEW chars, NEW x
  PROVE  /\ Splits(Faces(chars, x), Nat, Nat)
         /\ \A row \in Seq(Nat) : Seen(chars, row, x) = Joined(Faces(chars, x), row)
<1>1. \A i \in Nat : Face(chars, i, x) \in Seq(Nat)
  BY DEF Face
<1>2. ASSUME NEW row \in Seq(Nat) PROVE Seen(chars, row, x) = Joined(Faces(chars, x), row)
  <2>1. \A c \in DOMAIN row : row[c] \in Nat
    OBVIOUS
  <2>2. [c \in DOMAIN row |-> Face(chars, row[c], x)]
        = [c \in DOMAIN row |-> Faces(chars, x)[row[c]]]
    BY <2>1 DEF Faces
  <2>3. Seen(chars, row, x) = FlattenSeq([c \in DOMAIN row |-> Face(chars, row[c], x)])
    BY DEF Seen, Face
  <2> QED  BY <2>2, <2>3 DEF Joined, Each
<1> QED  BY <1>1, <1>2 DEF Faces, Splits

LEMMA PrintedSights ==
  ASSUME NEW chars, NEW x
  PROVE  /\ Splits(Sights(chars, x), Seq(Nat), Nat)
         /\ \A all \in Rows : Printed(chars, all, x) = Joined(Sights(chars, x), all)
<1>1. \A row \in Seq(Nat) : Seen(chars, row, x) \in Seq(Nat)
  <2> SUFFICES ASSUME NEW row \in Seq(Nat) PROVE Seen(chars, row, x) \in Seq(Nat)
    OBVIOUS
  <2> DEFINE G == Faces(chars, x)
  <2>1. Splits(G, Nat, Nat) /\ Seen(chars, row, x) = Joined(G, row)
    BY SeenFaces
  <2> HIDE DEF G
  <2>2. Joined(G, row) \in Seq(Nat)
    BY <2>1, JoinedType, Zenon
  <2> QED  BY <2>1, <2>2
<1>2. ASSUME NEW all \in Rows PROVE Printed(chars, all, x) = Joined(Sights(chars, x), all)
  <2>1. \A i \in DOMAIN all : all[i] \in Seq(Nat)
    BY DEF Rows
  <2>2. [i \in DOMAIN all |-> Seen(chars, all[i], x)]
        = [i \in DOMAIN all |-> Sights(chars, x)[all[i]]]
    BY <2>1 DEF Sights
  <2> QED  BY <2>2 DEF Joined, Each, Printed
<1> QED  BY <1>1, <1>2 DEF Sights, Splits

LEMMA PrintedType ==
  ASSUME NEW chars, NEW x, NEW all \in Rows
  PROVE  Printed(chars, all, x) \in Seq(Nat)
<1> DEFINE G == Sights(chars, x)
<1>1. Splits(G, Seq(Nat), Nat) /\ Printed(chars, all, x) = Joined(G, all)
  BY PrintedSights
<1>2. all \in Seq(Seq(Nat))
  BY DEF Rows
<1> HIDE DEF G
<1> QED  BY ONLY <1>1, <1>2, JoinedType

LEMMA PrintedConcat ==
  ASSUME NEW chars, NEW x, NEW a \in Rows, NEW b \in Rows
  PROVE  Printed(chars, a \o b, x) = Printed(chars, a, x) \o Printed(chars, b, x)
<1>1. a \o b \in Rows
  BY DEF Rows
<1>2. Joined(Sights(chars, x), a \o b) = Joined(Sights(chars, x), a) \o Joined(Sights(chars, x), b)
  BY PrintedSights, JoinedConcat DEF Rows
<1> QED  BY <1>1, <1>2, PrintedSights

LEMMA SeenNothing ==
  ASSUME NEW chars, NEW x, NEW row \in Seq(Nat),
         \A c \in DOMAIN row : Face(chars, row[c], x) = <<>>
  PROVE  Seen(chars, row, x) = <<>>
<1>1. \A c \in DOMAIN row : Faces(chars, x)[row[c]] = <<>>
  BY DEF Faces
<1> QED  BY <1>1, SeenFaces, JoinedNothing

\* Rows with nothing to be seen.
LEMMA PrintedNothing ==
  ASSUME NEW chars, NEW x, NEW all \in Rows,
         \A i \in DOMAIN all : \A c \in DOMAIN all[i] : Face(chars, all[i][c], x) = <<>>
  PROVE  Printed(chars, all, x) = <<>>
<1>1. \A i \in DOMAIN all : all[i] \in Seq(Nat)
  BY DEF Rows
<1>2. \A i \in DOMAIN all : Sights(chars, x)[all[i]] = <<>>
  BY <1>1, SeenNothing DEF Sights
<1> QED  BY <1>2, PrintedSights, JoinedNothing DEF Rows

\* Rows that show the same in each of their cells.
LEMMA PrintedAlike ==
  ASSUME NEW chars, NEW more, NEW x, NEW y, NEW a \in Rows, NEW b \in Rows,
         Len(a) = Len(b), \A i \in DOMAIN a : Len(a[i]) = Len(b[i]),
         \A i \in DOMAIN a : \A c \in DOMAIN a[i] : Face(more, b[i][c], y) = Face(chars, a[i][c], x)
  PROVE  Printed(more, b, y) = Printed(chars, a, x)
<1>1. /\ Len(a) \in Nat /\ DOMAIN a = DOMAIN b
      /\ \A i \in DOMAIN a : a[i] \in Seq(Nat) /\ b[i] \in Seq(Nat) /\ DOMAIN a[i] = DOMAIN b[i]
  BY DEF Rows
<1>2. ASSUME NEW i \in DOMAIN a PROVE Seen(more, b[i], y) = Seen(chars, a[i], x)
  <2>1. [c \in DOMAIN a[i] |-> Face(chars, a[i][c], x)] = [c \in DOMAIN b[i] |-> Face(more, b[i][c], y)]
    BY <1>1
  <2> QED  BY <2>1, Zenon DEF Seen, Face
<1>3. [i \in DOMAIN a |-> Seen(chars, a[i], x)] = [i \in DOMAIN b |-> Seen(more, b[i], y)]
  BY <1>1, <1>2
<1> QED  BY <1>3 DEF Printed
LEMMA SeenConcat ==
  ASSUME NEW chars, NEW x, NEW a \in Seq(Nat), NEW b \in Seq(Nat)
  PROVE  Seen(chars, a \o b, x) = Seen(chars, a, x) \o Seen(chars, b, x)
<1>1. a \o b \in Seq(Nat)
  OBVIOUS
<1>2. Joined(Faces(chars, x), a \o b) = Joined(Faces(chars, x), a) \o Joined(Faces(chars, x), b)
  <2> DEFINE G == Faces(chars, x)
  <2>1. Splits(G, Nat, Nat)
    BY SeenFaces
  <2> HIDE DEF G
  <2>2. Joined(G, a \o b) = Joined(G, a) \o Joined(G, b)
    BY <2>1, JoinedConcat
  <2> QED  BY <2>2 DEF G
<1> QED  BY <1>1, <1>2, SeenFaces

LEMMA SeenType ==
  ASSUME NEW chars, NEW x, NEW row \in Seq(Nat)
  PROVE  Seen(chars, row, x) \in Seq(Nat)
  BY PrintedSights DEF Sights, Splits

-----------------------------------------------------------------------------
(* What scrolling takes to the ring shows what it showed.                  *)

LEMMA SeenTrimmed ==
  ASSUME NEW x, NEW row \in Seq(Nat)
  PROVE  Seen(written, Trimmed(row), x) = Seen(written, row, x)
<1> DEFINE t == Trimmed(row)
           k == Len(t)
           n == Len(row)
           rest == SubSeq(row, k + 1, n)
<1>1. /\ t \in Seq(Nat) /\ k \in Nat /\ n \in Nat /\ k <= n
      /\ \A c \in 1..k : t[c] = row[c] /\ \A d \in (k + 1)..n : ~Ink(row[d])
  BY TrimmedRow
<1>2. \A d \in (k + 1)..n : ~Ink(row[d])
  BY TrimmedRow
<1>3. /\ rest \in Seq(Nat) /\ Len(rest) = n - k /\ DOMAIN rest = 1..(n - k)
      /\ \A c \in 1..(n - k) : rest[c] = row[k + c] /\ k + c \in (k + 1)..n
  <2> HIDE DEF t
  <2> QED  BY <1>1
<1>4. t \o rest = row
  <2>1. /\ t \o rest \in Seq(Nat) /\ Len(t \o rest) = n
        /\ \A i \in 1..n : (t \o rest)[i] = IF i <= k THEN t[i] ELSE rest[i - k]
    <3> HIDE DEF t, rest
    <3> QED  BY <1>1, <1>3
  <2> HIDE DEF t, rest
  <2>2. ASSUME NEW i \in 1..n PROVE (t \o rest)[i] = row[i]
    <3>1. CASE i <= k
      BY <1>1, <2>1, <3>1
    <3>2. CASE ~(i <= k)
      <4>1. i - k \in 1..(n - k) /\ k + (i - k) = i
        BY <1>1, <3>2
      <4> QED  BY <1>3, <2>1, <3>2, <4>1
    <3> QED  BY <3>1, <3>2
  <2> QED  BY <2>1, <2>2, SeqEqual
<1>5. Seen(written, rest, x) = <<>>
  <2>1. \A c \in DOMAIN rest : Face(written, rest[c], x) = <<>>
    BY <1>2, <1>3 DEF Face, Ink
  <2> HIDE DEF rest
  <2> QED  BY <1>3, <2>1, SeenNothing
<1> HIDE DEF t, rest, k, n
<1>6. Seen(written, row, x) = Seen(written, t, x) \o <<>>
  <2>1. Seen(written, t \o rest, x) = Seen(written, t, x) \o Seen(written, rest, x)
    BY <1>1, <1>3, SeenConcat
  <2> QED  BY <1>4, <1>5, <2>1
<1>7. Seen(written, t, x) \in Seq(Nat)
  BY <1>1, SeenType
<1> QED  BY <1>6, <1>7 DEF t

LEMMA PrintedAdded ==
  ASSUME NEW x, NEW row \in Seq(Nat)
  PROVE  Printed(written, Added(row), x) = Seen(written, row, x)
<1> DEFINE t == Trimmed(row)
<1>1. t \in Seq(Nat) /\ Seen(written, t, x) = Seen(written, row, x)
  BY TrimmedRow, SeenTrimmed
<1>2. CASE t = <<>>
  <2>1. Added(row) = <<>> /\ <<>> \in Rows /\ DOMAIN <<>> = {}
    BY <1>2 DEF Added, Rows
  <2>2. Printed(written, <<>>, x) = <<>>
    BY <2>1, PrintedNothing
  <2>3. Seen(written, t, x) = <<>>
    BY <1>2, <2>1, FlattenNothing DEF Seen
  <2> QED  BY <1>1, <2>1, <2>2, <2>3
<1>3. CASE t # <<>>
  <2>1. Added(row) = <<t>>
    BY <1>3 DEF Added
  <2> HIDE DEF t
  <2>2. <<t>> \in Rows
    BY <1>1 DEF Rows
  <2>3. Printed(written, <<t>>, x) = Joined(Sights(written, x), <<t>>)
    BY <2>2, PrintedSights
  <2>4. Joined(Sights(written, x), <<t>>) = Sights(written, x)[t]
    <3> DEFINE G == Sights(written, x)
    <3>1. Splits(G, Seq(Nat), Nat)
      BY PrintedSights
    <3> HIDE DEF G
    <3>2. Joined(G, <<t>>) = G[t]
      BY <1>1, <3>1, JoinedOne, Zenon
    <3> QED  BY <3>2 DEF G
  <2> QED  BY <1>1, <2>1, <2>3, <2>4 DEF Sights
<1> QED  BY <1>2, <1>3

\* A sequence grows by one element.
LEMMA OneMore ==
  ASSUME NEW X, NEW s \in Seq(X), NEW k \in 0..(Len(s) - 1)
  PROVE  /\ SubSeq(s, 1, k) \in Seq(X) /\ s[k + 1] \in X /\ <<s[k + 1]>> \in Seq(X)
         /\ SubSeq(s, 1, k + 1) = SubSeq(s, 1, k) \o <<s[k + 1]>>
<1>1. Len(s) \in Nat /\ k + 1 \in 1..Len(s)
  OBVIOUS
<1>2. SubSeq(s, 1, k) \in Seq(X) /\ s[k + 1] \in X /\ <<s[k + 1]>> \in Seq(X)
  BY <1>1
<1>3. SubSeq(s, 1, k + 1) = SubSeq(s, 1, k) \o <<s[k + 1]>>
  BY <1>1
<1> QED  BY <1>2, <1>3

LEMMA PrintedCaptured ==
  ASSUME NEW x, NEW dropped \in Rows
  PROVE  LET taken == FlattenSeq([i \in DOMAIN dropped |-> Added(dropped[i])])
         IN  taken \in Rows /\ Printed(written, taken, x) = Printed(written, dropped, x)
<1> DEFINE G == [row \in Seq(Nat) |-> Added(row)]
           n == Len(dropped)
           U(k) == SubSeq(dropped, 1, k)
           T == {k \in 0..n : Printed(written, Joined(G, U(k)), x) = Printed(written, U(k), x)}
<1>1. Splits(G, Seq(Nat), Seq(Nat)) /\ \A row \in Seq(Nat) : G[row] = Added(row)
  BY AddedRow DEF Rows, Splits
<1>2. FlattenSeq([i \in DOMAIN dropped |-> Added(dropped[i])]) = Joined(G, dropped)
  <2>1. \A i \in DOMAIN dropped : dropped[i] \in Seq(Nat)
    BY DEF Rows
  <2>2. [i \in DOMAIN dropped |-> Added(dropped[i])] = [i \in DOMAIN dropped |-> G[dropped[i]]]
    BY <2>1
  <2> HIDE DEF G
  <2> QED  BY <2>2 DEF Joined, Each
<1> HIDE DEF G
<1>3. ASSUME NEW s \in Rows PROVE Joined(G, s) \in Rows
  BY <1>1, JoinedType, Zenon DEF Rows
<1>4. n \in Nat /\ \A k \in 0..n : U(k) \in Rows
  BY DEF Rows
<1>5. 0 \in T
  <2>1. U(0) = <<>> /\ 0 \in 0..n
    BY <1>4
  <2>2. Joined(G, <<>>) = <<>>
    BY FlattenNothing DEF Joined, Each
  <2> HIDE DEF U, n
  <2> QED  BY <2>1, <2>2
<1>6. ASSUME NEW k \in 0..(n - 1), k \in T PROVE k + 1 \in T
  <2> DEFINE e == dropped[k + 1]
  <2>1. k + 1 \in 0..n /\ k \in 0..n
    BY <1>4
  <2>2. e \in Seq(Nat) /\ <<e>> \in Rows /\ U(k + 1) = U(k) \o <<e>>
    BY OneMore DEF Rows
  <2>3. U(k) \in Rows
    BY <1>4, <2>1
  <2> HIDE DEF U, n, e
  <2>4. Joined(G, U(k + 1)) = Joined(G, U(k)) \o Added(e)
    <3>1. Joined(G, U(k) \o <<e>>) = Joined(G, U(k)) \o Joined(G, <<e>>)
      <4>1. U(k) \in Seq(Seq(Nat)) /\ <<e>> \in Seq(Seq(Nat))
        BY <2>2, <2>3 DEF Rows
      <4>2. ASSUME NEW p \in Seq(Seq(Nat)), NEW q \in Seq(Seq(Nat))
            PROVE  Joined(G, p \o q) = Joined(G, p) \o Joined(G, q)
        BY <1>1, JoinedConcat
      <4> QED  BY ONLY <4>1, <4>2
    <3>2. Joined(G, <<e>>) = G[e]
      BY <1>1, <2>2, JoinedOne, Zenon, SMTT(40)
    <3> QED  BY <1>1, <2>2, <3>1, <3>2
  <2>5. Joined(G, U(k)) \in Rows /\ Added(e) \in Rows
    BY <1>3, <2>2, <2>3, AddedRow
  <2>6. Printed(written, Joined(G, U(k + 1)), x)
        = Printed(written, U(k), x) \o Seen(written, e, x)
    <3>1. Printed(written, Joined(G, U(k)) \o Added(e), x)
          = Printed(written, Joined(G, U(k)), x) \o Printed(written, Added(e), x)
      BY <2>5, PrintedConcat, Zenon
    <3>2. Printed(written, Added(e), x) = Seen(written, e, x)
      BY <2>2, PrintedAdded
    <3>3. Printed(written, Joined(G, U(k)), x) = Printed(written, U(k), x)
      BY <1>6
    <3> QED  BY <2>4, <3>1, <3>2, <3>3
  <2>7. Printed(written, <<e>>, x) = Seen(written, e, x)
    <3> DEFINE S == Sights(written, x)
    <3>1. Splits(S, Seq(Nat), Nat) /\ S[e] = Seen(written, e, x)
      BY <2>2, PrintedSights DEF Sights
    <3>2. Printed(written, <<e>>, x) = Joined(S, <<e>>)
      BY <2>2, PrintedSights
    <3> HIDE DEF S
    <3>3. Joined(S, <<e>>) = S[e]
      BY <2>2, <3>1, JoinedOne, Zenon
    <3> QED  BY <3>1, <3>2, <3>3
  <2>8. Printed(written, U(k + 1), x) = Printed(written, U(k), x) \o Seen(written, e, x)
    <3>1. Printed(written, U(k) \o <<e>>, x)
          = Printed(written, U(k), x) \o Printed(written, <<e>>, x)
      BY <2>2, <2>3, PrintedConcat, Zenon
    <3> QED  BY <2>2, <2>7, <3>1
  <2> QED  BY <2>1, <2>6, <2>8
<1>7. 0..n \subseteq T
  <2> HIDE DEF T, n
  <2> QED  BY <1>4, <1>5, <1>6, UpToInduction
<1>8. U(n) = dropped /\ n \in 0..n
  BY DEF Rows
<1> HIDE DEF U, n
<1>9. Printed(written, Joined(G, dropped), x) = Printed(written, dropped, x)
  BY <1>7, <1>8
<1> QED  BY <1>2, <1>3, <1>9
\* Where the lines have moved up, the grid shows the lines that are left.
LEMMA PrintedLifted ==
  ASSUME RInv, NEW n \in 0..rows, NEW chars, NEW x
  PROVE  LET g == Moved(screen, Blank, rows, cols, Lift(n))
             left == SubSeq(screen, n + 1, rows)
         IN  /\ g \in Rows /\ left \in Rows
             /\ Printed(chars, g, x) = Printed(chars, left, x)
<1> DEFINE g == Moved(screen, Blank, rows, cols, Lift(n))
           left == SubSeq(screen, n + 1, rows)
           m == rows - n
           up == SubSeq(g, 1, m)
           low == SubSeq(g, m + 1, rows)
<1>1. /\ rows \in Nat \ {0} /\ cols \in Nat \ {0} /\ Len(written) \in Nat /\ n \in Nat /\ n <= rows
      /\ m \in 0..rows
  BY SizeFacts DEF RInv
<1>2. /\ screen \in Grid(0..Len(written), rows, cols) /\ g \in Grid(0..Len(written), rows, cols)
  <2>1. Sane(written, g, Moved(inverse, FALSE, rows, cols, Lift(n)), rows, cols)
    BY LiftedGrid
  <2> HIDE DEF g
  <2> QED  BY <2>1 DEF RInv, Sane
<1>3. \A r \in 1..rows, c \in 1..cols :
        g[r][c] = IF r <= m THEN screen[r + n][c] ELSE Blank
  <2>1. \A r \in 1..rows : r + n \in 1..rows <=> r <= m
    BY <1>1
  <2> HIDE DEF m
  <2>2. \A r \in 1..rows, c \in 1..cols :
          g[r][c] = IF r + n \in 1..rows THEN screen[r + n][c] ELSE Blank
    BY <1>1 DEF Moved, Lift, Cells
  <2> HIDE DEF g
  <2> QED  BY <2>1, <2>2
<1> HIDE DEF g
<1>4. /\ screen \in Rows /\ Len(screen) = rows /\ g \in Rows /\ Len(g) = rows
      /\ \A r \in 1..rows : screen[r] \in [1..cols -> 0..Len(written)]
      /\ \A r \in 1..rows : g[r] \in [1..cols -> 0..Len(written)]
  <2>1. screen \in Rows /\ Len(screen) = rows /\ g \in Rows /\ Len(g) = rows
    BY <1>1, <1>2, GridContent
  <2> QED  BY <1>2, <2>1 DEF Grid
<1>5. /\ left \in Rows /\ Len(left) = m /\ up \in Rows /\ Len(up) = m
      /\ \A i \in 1..m : left[i] = screen[i + n] /\ up[i] = g[i] /\ i \in 1..rows /\ i + n \in 1..rows
      /\ low \in Rows /\ Len(low) = n
      /\ \A i \in 1..n : low[i] = g[m + i] /\ m + i \in 1..rows /\ ~(m + i <= m)
  <2>1. ASSUME NEW S, NEW s \in Seq(S), NEW p, NEW q, p \in 1..(Len(s) + 1), q \in 0..Len(s), p <= q + 1
        PROVE  /\ SubSeq(s, p, q) \in Seq(S) /\ Len(SubSeq(s, p, q)) = q - p + 1
               /\ \A i \in 1..(q - p + 1) : SubSeq(s, p, q)[i] = s[p + i - 1]
    BY ONLY <2>1
  <2> QED
    <3>1. /\ n + 1 \in 1..(rows + 1) /\ rows \in 0..rows /\ n + 1 <= rows + 1
          /\ rows - (n + 1) + 1 = m /\ \A i \in 1..m : (n + 1) + i - 1 = i + n
      BY <1>1
    <3>2. /\ 1 \in 1..(rows + 1) /\ m \in 0..rows /\ 1 <= m + 1
          /\ m - 1 + 1 = m /\ \A i \in 1..m : 1 + i - 1 = i
      BY <1>1
    <3>3. /\ m \in Nat /\ m + 1 \in 1..(rows + 1) /\ rows \in 0..rows /\ m + 1 <= rows + 1
          /\ rows - (m + 1) + 1 = n /\ \A i \in 1..n : (m + 1) + i - 1 = m + i
      BY <1>1
    <3>4. /\ \A i \in 1..m : i \in 1..rows /\ i + n \in 1..rows
          /\ \A i \in 1..n : m + i \in 1..rows /\ ~(m + i <= m)
      BY <1>1
    <3>5. screen \in Seq(Seq(Nat)) /\ g \in Seq(Seq(Nat)) /\ Len(screen) = rows /\ Len(g) = rows
      BY <1>4 DEF Rows
    <3> HIDE DEF m
    <3>6. left \in Rows /\ Len(left) = m /\ \A i \in 1..m : left[i] = screen[i + n]
      BY <2>1, <3>1, <3>5 DEF Rows
    <3>7. up \in Rows /\ Len(up) = m /\ \A i \in 1..m : up[i] = g[i]
      BY <2>1, <3>2, <3>5 DEF Rows
    <3>8. low \in Rows /\ Len(low) = n /\ \A i \in 1..n : low[i] = g[m + i]
      BY <2>1, <3>3, <3>5, SMTT(40) DEF Rows
    <3> HIDE DEF left, up, low
    <3> QED  BY <3>4, <3>6, <3>7, <3>8
<1>6. g = up \o low
  <2>1. g \in Seq(Seq(Nat)) /\ m \in 0..Len(g)
    BY <1>1, <1>4 DEF Rows
  <2>2. SubSeq(g, 1, m) \o SubSeq(g, m + 1, Len(g)) = g
    BY ONLY <2>1, Halves
  <2> QED  BY <1>4, <2>2
<1> HIDE DEF left, up, low, m
<1>7. Printed(chars, low, x) = <<>>
  <2>1. DOMAIN low = 1..n /\ \A i \in 1..n : DOMAIN low[i] = 1..cols
    BY <1>1, <1>4, <1>5 DEF Rows
  <2>2. ASSUME NEW i \in 1..n, NEW c \in 1..cols PROVE low[i][c] = Blank
    <3>1. low[i] = g[m + i] /\ m + i \in 1..rows /\ ~(m + i <= m)
      BY <1>5
    <3> QED  BY <1>3, <3>1
  <2>3. \A i \in DOMAIN low : \A c \in DOMAIN low[i] : Face(chars, low[i][c], x) = <<>>
    BY <2>1, <2>2 DEF Face
  <2> QED  BY <1>5, <2>3, PrintedNothing
<1>8. up = left
  <2>1. ASSUME NEW i \in 1..m PROVE up[i] = left[i]
    <3>1. up[i] = g[i] /\ left[i] = screen[i + n] /\ i \in 1..rows /\ i + n \in 1..rows /\ i <= m
      BY <1>1, <1>5
    <3>2. \A c \in 1..cols : g[i][c] = screen[i + n][c]
      BY <1>3, <3>1
    <3>3. g[i] \in [1..cols -> 0..Len(written)] /\ screen[i + n] \in [1..cols -> 0..Len(written)]
      BY <1>4, <3>1
    <3>4. g[i] = screen[i + n]
      <4> DEFINE u == g[i]
                 v == screen[i + n]
                 D == 1..cols
      <4>1. /\ u \in [D -> 0..Len(written)] /\ v \in [D -> 0..Len(written)]
            /\ \A c \in D : u[c] = v[c]
        BY <3>2, <3>3
      <4> HIDE DEF u, v, D
      <4>2. u = v
        BY ONLY <4>1
      <4> QED  BY <4>2 DEF u, v
    <3> QED  BY <3>1, <3>4
  <2> QED  BY <1>5, <2>1, SeqEqual DEF Rows
<1>9. Printed(chars, g, x) = Printed(chars, up, x) \o <<>>
  <2>1. Printed(chars, up \o low, x) = Printed(chars, up, x) \o Printed(chars, low, x)
    BY <1>5, PrintedConcat
  <2> QED  BY <1>6, <1>7, <2>1
<1>10. Printed(chars, up, x) \in Seq(Nat)
  BY <1>5, PrintedType
<1>11. Printed(chars, g, x) = Printed(chars, left, x)
  BY <1>8, <1>9, <1>10
<1> QED  BY <1>4, <1>5, <1>11 DEF g, left

\* A line that leaves the primary screen is seen in the history instead.
LEMMA PrintedScrolled ==
  ASSUME RInv, ~OnAlternate, NEW n \in 0..rows, CaptureTop(n), NEW x
  PROVE  LET g == Moved(screen, Blank, rows, cols, Lift(n))
         IN  /\ g \in Rows /\ History' \in Rows
             /\ Printed(written, History' \o g, x) = Printed(written, History \o screen, x)
<1> DEFINE g == Moved(screen, Blank, rows, cols, Lift(n))
           top == SubSeq(screen, 1, n)
           left == SubSeq(screen, n + 1, rows)
           more == Captured(top)
           P(all) == Printed(written, all, x)
<1>1. g \in Rows /\ left \in Rows /\ P(g) = P(left)
  BY PrintedLifted
<1>2. top \in Rows
  BY LiftedGrid
<1>3. screen \in Rows /\ Len(screen) = rows /\ rows \in Nat /\ n \in 0..rows
  <2>1. screen \in Grid(0..Len(written), rows, cols)
    BY DEF RInv, Sane
  <2> QED  BY <2>1, SizeFacts, GridContent DEF RInv
<1>4. screen = top \o left
  <2>1. screen \in Seq(Seq(Nat)) /\ n \in 0..Len(screen)
    BY <1>3 DEF Rows
  <2>2. SubSeq(screen, 1, n) \o SubSeq(screen, n + 1, Len(screen)) = screen
    BY ONLY <2>1, Halves
  <2> QED  BY <1>3, <2>2
<1>5. Kept(scroll_buffer \o more, scroll_buffer_max)
  BY DEF CaptureTop
<1> HIDE DEF g, top, left
<1>6. more \in Rows /\ P(more) = P(top)
  <2>1. more = FlattenSeq([i \in DOMAIN top |-> Added(top[i])])
    BY DEF Captured
  <2> HIDE DEF more
  <2> QED  BY <1>2, <2>1, PrintedCaptured
<1> HIDE DEF more
<1>7. History \in Rows /\ History' = History \o more /\ History' \in Rows
  <2>1. ASSUME NEW a \in Rows, NEW b \in Rows PROVE a \o b \in Rows
    BY DEF Rows
  <2>2. History \in Rows
    BY <2>1 DEF RInv, RingInv, History
  <2>3. History' = History \o more
    BY <1>5, <1>6, KeptHistory DEF RInv, RingInv
  <2> QED  BY <1>6, <2>1, <2>2, <2>3
<1>P. ASSUME NEW a \in Rows, NEW b \in Rows PROVE P(a \o b) = P(a) \o P(b)
  BY PrintedConcat
<1> HIDE DEF P
<1>8. P(History' \o g) = (P(History) \o P(more)) \o P(g)
  BY ONLY <1>1, <1>6, <1>7, <1>P
<1>9. P(History \o screen) = P(History) \o (P(top) \o P(left))
  <2>1. P(History \o screen) = P(History) \o P(screen)
    BY ONLY <1>3, <1>7, <1>P
  <2>2. P(screen) = P(top) \o P(left)
    BY ONLY <1>1, <1>2, <1>4, <1>P
  <2> QED  BY <2>1, <2>2
<1>10. P(History) \in Seq(Nat) /\ P(top) \in Seq(Nat) /\ P(left) \in Seq(Nat)
  BY <1>1, <1>2, <1>7, PrintedType DEF P
<1>11. (P(History) \o P(top)) \o P(left) = P(History) \o (P(top) \o P(left))
  <2>1. ASSUME NEW a \in Seq(Nat), NEW b \in Seq(Nat), NEW c \in Seq(Nat)
        PROVE  (a \o b) \o c = a \o (b \o c)
    BY SMTT(40)
  <2> QED  BY ONLY <1>10, <2>1
<1>12. P(History' \o g) = P(History \o screen)
  BY <1>1, <1>6, <1>8, <1>9, <1>11
<1> QED  BY <1>1, <1>7, <1>12 DEF P, g
-----------------------------------------------------------------------------
(* Scrolling keeps what is to be seen, and printing all but one character. *)

\* The character that put_char writes over.
LEMMA HitCell ==
  ASSUME RInv, NEW lift, NEW a, NEW b, NEW id, Writes(lift, a, b, id)
  PROVE  (IF pending_wrap /\ cursor[1] = rows THEN Blank
          ELSE screen[cursor'[1]][IF pending_wrap' THEN cols ELSE cursor'[2] - 1])
         = Moved(screen, Blank, rows, cols, Lift(lift))[a][b]
<1> DEFINE g == Moved(screen, Blank, rows, cols, Lift(lift))
<1>1. /\ rows \in Nat \ {0} /\ cols \in Nat \ {0} /\ a \in 1..rows /\ b \in 1..cols
      /\ lift = (IF pending_wrap /\ cursor[1] = rows THEN 1 ELSE 0) /\ (lift = 1 => a = rows)
      /\ cursor'[1] = a /\ cursor'[2] = Least(b + 1, cols) /\ pending_wrap' = (b = cols)
  BY SizeFacts DEF RInv, Writes
<1>2. (IF pending_wrap' THEN cols ELSE cursor'[2] - 1) = b
  <2>1. CASE b = cols
    <3>1. pending_wrap'
      BY <1>1, <2>1
    <3> QED  BY <2>1, <3>1
  <2>2. CASE b # cols
    <3>1. ~pending_wrap'
      BY <1>1, <2>2
    <3>2. cursor'[2] - 1 = b
      BY <1>1, <2>2 DEF Least
    <3> QED  BY <3>1, <3>2
  <2> QED  BY <2>1, <2>2
<1>3. g[a][b] = IF a + lift \in 1..rows THEN screen[a + lift][b] ELSE Blank
  BY <1>1 DEF Moved, Lift, Cells
<1> HIDE DEF g
<1>4. CASE lift = 1
  <2>1. a + lift \notin 1..rows /\ pending_wrap /\ cursor[1] = rows
    BY <1>1, <1>4
  <2> QED  BY <1>3, <2>1 DEF g
<1>5. CASE lift = 0
  <2>1. a + lift = a /\ a \in 1..rows /\ ~(pending_wrap /\ cursor[1] = rows)
    BY <1>1, <1>5
  <2>2. g[a][b] = screen[a][b]
    BY <1>3, <2>1
  <2> QED  BY <1>1, <1>2, <2>1, <2>2 DEF g
<1> QED  BY <1>1, <1>4, <1>5

\* Of the old characters all but hit show as before; the new one is not looked at.
LEMMA SameFace ==
  ASSUME NEW chars, NEW more, NEW id, NEW flag, NewCell(chars, more, id, flag),
         NEW i \in 0..Len(chars), NEW hit, i # hit \/ i = Blank
  PROVE  Face(more, i, id) = Face(chars, i, hit)
<1>1. Len(chars) \in Nat /\ (i # Blank => more[i] = chars[i] /\ i # id)
  BY DEF NewCell, Begins, Blank
<1> QED  BY <1>1 DEF Face

LEMMA PutCharPrints ==
  ASSUME RInv, ~OnAlternate, NEW lift, NEW a, NEW b, NEW id, Writes(lift, a, b, id)
  PROVE  Printed(written', History' \o screen', id)
         = Printed(written, History \o screen,
                   Moved(screen, Blank, rows, cols, Lift(lift))[a][b])
<1> DEFINE g == Moved(screen, Blank, rows, cols, Lift(lift))
           f == Moved(inverse, FALSE, rows, cols, Lift(lift))
           top == SubSeq(screen, 1, lift)
           hit == g[a][b]
<1>1. /\ rows \in Nat \ {0} /\ cols \in Nat \ {0} /\ Len(written) \in Nat
  BY SizeFacts DEF RInv
<1>2. /\ lift \in 0..rows /\ a \in 1..rows /\ b \in 1..cols /\ CaptureTop(lift)
      /\ screen' = Put(g, a, b, id) /\ NewCell(written, written', id, inverse_active)
  BY DEF Writes
<1>3. /\ Sane(written, g, f, rows, cols) /\ Content(g) \subseteq Content(screen) /\ Apart(top, g)
  BY <1>2, LiftedGrid
<1>4. Content(History') \subseteq Content(History) \cup Content(top)
  BY <1>2, CaptureTopHistory
<1>5. /\ g \in Rows /\ History' \in Rows
      /\ Printed(written, History' \o g, hit) = Printed(written, History \o screen, hit)
  BY <1>2, PrintedScrolled
<1> HIDE DEF f, top
<1>6. /\ Once(g) /\ g \in Grid(0..Len(written), rows, cols) /\ Len(g) = rows
      /\ DOMAIN g = 1..rows /\ \A r \in 1..rows : DOMAIN g[r] = 1..cols
      /\ hit \in 0..Len(written)
  <2>1. Once(g) /\ g \in Grid(0..Len(written), rows, cols)
    BY <1>3 DEF Sane
  <2> HIDE DEF g
  <2>2. Len(g) = rows
    BY <1>1, <2>1, GridContent
  <2> QED  BY <1>2, <2>1, <2>2 DEF Grid
<1>7. hit # Blank => hit \in Content(g)
  <2> HIDE DEF g
  <2>1. a \in DOMAIN g /\ b \in DOMAIN g[a] /\ hit = g[a][b]
    BY <1>2, <1>6
  <2> HIDE DEF hit
  <2>2. hit # Blank => hit \in Nat \ {0}
    BY <1>1, <1>6 DEF Blank
  <2> QED  BY <2>1, <2>2 DEF Content
<1> HIDE DEF g, hit
<1>8. Printed(written', History', id) = Printed(written, History', hit)
  <2>1. ASSUME NEW i \in DOMAIN History', NEW c \in DOMAIN History'[i]
        PROVE  Face(written', History'[i][c], id) = Face(written, History'[i][c], hit)
    <3> DEFINE v == History'[i][c]
    <3>1. v \in Nat /\ (v # Blank => v \in Content(History'))
      BY <1>5 DEF Rows, Content, Blank
    <3>2. v # Blank => v \in 1..Len(written) /\ v \notin Content(g)
      <4>1. Content(screen) \subseteq 1..Len(written)
        <5>1. screen \in Grid(0..Len(written), rows, cols) /\ rows \in Nat /\ cols \in Nat
          BY <1>1 DEF RInv, Sane
        <5> QED  BY <1>1, <5>1, GridContent
      <4>2. Content(top) \subseteq Content(screen)
        BY <1>2, LiftedGrid DEF top
      <4> HIDE DEF v
      <4> QED  BY <1>3, <1>4, <3>1, <4>1, <4>2 DEF RInv, HistoryInv, Apart
    <3> HIDE DEF v
    <3>3. v \in 0..Len(written) /\ (v # hit \/ v = Blank)
      BY <1>1, <1>7, <3>1, <3>2 DEF Blank
    <3>4. Face(written', v, id) = Face(written, v, hit)
      BY <1>2, <3>3, SameFace
    <3> QED  BY <3>4 DEF v
  <2> QED  BY <1>5, <2>1, PrintedAlike
<1>9. /\ screen' \in Rows /\ Printed(written', screen', id) = Printed(written, g, hit)
  <2>1. /\ \A r \in 1..rows, c \in 1..cols :
             screen'[r][c] = IF r = a /\ c = b THEN id ELSE g[r][c]
        /\ screen' \in Grid(0..Len(written'), rows, cols)
    <3>1. Len(written') \in Nat /\ id \in 0..Len(written') /\ g \in Grid(0..Len(written'), rows, cols)
      <4>1. Len(written') \in Nat /\ id \in 0..Len(written') /\ Len(written) <= Len(written')
        BY <1>1, <1>2 DEF NewCell, Begins, Blank
      <4>2. 0..Len(written) \subseteq 0..Len(written')
        BY <1>1, <4>1
      <4> QED  BY <1>6, <4>1, <4>2 DEF Grid
    <3> QED  BY <1>2, <3>1 DEF Put, Grid
  <2>2. /\ screen' \in Rows /\ Len(screen') = rows
        /\ \A r \in 1..rows : DOMAIN screen'[r] = 1..cols /\ Len(screen'[r]) = Len(g[r])
    <3>1. Len(written') \in Nat
      BY <1>2 DEF NewCell, Begins
    <3>2. screen' \in Rows /\ Len(screen') = rows
      BY <1>1, <2>1, <3>1, GridContent
    <3>3. \A r \in 1..rows : DOMAIN screen'[r] = 1..cols
      BY <2>1 DEF Grid
    <3>4. ASSUME NEW r \in 1..rows PROVE Len(screen'[r]) = cols /\ Len(g[r]) = cols
      <4>1. screen'[r] \in Seq(Nat) /\ g[r] \in Seq(Nat)
        BY <1>5, <1>6, <3>2, <3>4 DEF Rows
      <4> QED  BY <1>1, <1>6, <3>3, <4>1
    <3> QED  BY <3>2, <3>3, <3>4
  <2>3. ASSUME NEW r \in 1..rows, NEW c \in 1..cols
        PROVE  Face(written', screen'[r][c], id) = Face(written, g[r][c], hit)
    <3>1. CASE r = a /\ c = b
      BY <2>1, <3>1 DEF Face, hit
    <3>2. CASE ~(r = a /\ c = b)
      <4>1. screen'[r][c] = g[r][c] /\ g[r][c] \in 0..Len(written)
        BY <1>6, <2>1, <3>2 DEF Grid
      <4>2. g[r][c] # hit \/ g[r][c] = Blank
        <5>1. /\ r \in DOMAIN g /\ c \in DOMAIN g[r] /\ a \in DOMAIN g /\ b \in DOMAIN g[a]
              /\ hit = g[a][b]
          BY <1>2, <1>6 DEF hit
        <5>2. g[r][c] # Blank /\ g[a][b] = g[r][c] => a = r /\ b = c
          BY <1>6, <5>1 DEF Once
        <5> QED  BY <3>2, <5>1, <5>2
      <4> QED  BY <1>2, <4>1, <4>2, SameFace
    <3> QED  BY <3>1, <3>2
  <2>4. Printed(written', screen', id) = Printed(written, g, hit)
    <3>1. Len(g) = Len(screen') /\ \A i \in DOMAIN g : Len(g[i]) = Len(screen'[i])
      BY <1>6, <2>2
    <3>2. \A i \in DOMAIN g : \A c \in DOMAIN g[i] :
            Face(written', screen'[i][c], id) = Face(written, g[i][c], hit)
      BY <1>6, <2>3
    <3> QED  BY <1>5, <2>2, <3>1, <3>2, PrintedAlike
  <2> QED  BY <2>2, <2>4
<1>10. Printed(written', History' \o screen', id)
       = Printed(written', History', id) \o Printed(written', screen', id)
  BY <1>5, <1>9, PrintedConcat
<1>11. Printed(written, History' \o g, hit) = Printed(written, History', hit) \o Printed(written, g, hit)
  BY <1>5, PrintedConcat
<1> QED  BY <1>5, <1>8, <1>9, <1>10, <1>11 DEF hit, g

LEMMA DrainHistory ==
  ASSUME RInv, Drain
  PROVE  History' = History /\ screen' = screen
<1>1. Kept(scroll_buffer, 0) /\ screen' = screen
  BY DEF Drain, grid
<1>2. RingInv /\ <<>> \in Rows /\ scroll_buffer \o <<>> = scroll_buffer /\ History \o <<>> = History
  BY DEF RInv, RingInv, Rows, History
<1>3. Kept(scroll_buffer \o <<>>, 0)
  BY <1>1, <1>2
<1>4. History' = History \o <<>>
  BY <1>2, <1>3, KeptHistory
<1> QED  BY <1>1, <1>2, <1>4

LEMMA ScrollingPrints ==
  ASSUME RInv, ~OnAlternate, LineFeed \/ (\E n \in Counts : ScrollUp(n)) \/ Drain
  PROVE  Printed(written', History' \o screen', Blank) = Printed(written, History \o screen, Blank)
<1>1. ASSUME NEW n \in 0..rows, ScrollOffTop(n), written' = written
      PROVE  Printed(written', History' \o screen', Blank) = Printed(written, History \o screen, Blank)
  <2>1. screen' = Moved(screen, Blank, rows, cols, Lift(n)) /\ CaptureTop(n)
    BY <1>1 DEF ScrollOffTop, Rearrange, Rearranged, Up, Moved, Lift
  <2> QED  BY <1>1, <2>1, PrintedScrolled
<1>2. CASE LineFeed
  <2>1. written' = written
    BY <1>2 DEF LineFeed
  <2>2. CASE cursor[1] = rows
    <3>1. ScrollOffTop(1) /\ 1 \in 0..rows
      BY <1>2, <2>2, SizeFacts DEF LineFeed, RInv
    <3> QED  BY <1>1, <2>1, <3>1
  <2>3. CASE cursor[1] # rows
    <3>1. screen' = screen /\ History' = History
      BY <1>2, <2>3 DEF LineFeed, ring, History
    <3> QED  BY <2>1, <3>1
  <2> QED  BY <2>2, <2>3
<1>3. CASE \E n \in Counts : ScrollUp(n)
  <2>1. PICK n \in Counts : ScrollUp(n)
    BY <1>3
  <2>2. Least(n, rows) \in 0..rows
    BY SizeFacts, CountFacts DEF RInv, Least
  <2>3. ScrollOffTop(Least(n, rows)) /\ written' = written
    BY <2>1 DEF ScrollUp
  <2> QED  BY <1>1, <2>2, <2>3
<1>4. CASE Drain
  <2>1. written' = written
    BY <1>4 DEF Drain
  <2> QED  BY <1>4, <2>1, DrainHistory
<1> QED  BY <1>2, <1>3, <1>4

\* What scroll_off_top takes from the screen it gives to the ring, trimmed of
\* nothing but spaces; what put_char overwrites is one cell.
THEOREM ScrollingLosesNothing == Spec => ScrollKeepsContent
<1> DEFINE Keeps ==
      ~OnAlternate /\ <<screen, ring>>' # <<screen, ring>> =>
        LET before(x) == Printed(written, History \o screen, x)
            after(x)  == Printed(written', History' \o screen', x)
        IN  /\ LineFeed \/ (\E n \in Counts : ScrollUp(n)) \/ Drain
                 => after(Blank) = before(Blank)
            /\ (\E ink \in BOOLEAN : PutChar(ink)) =>
                 LET id  == IF written' = written THEN Blank ELSE Len(written')
                     hit == IF pending_wrap /\ cursor[1] = rows THEN Blank
                            ELSE screen[cursor'[1]][IF pending_wrap' THEN cols ELSE cursor'[2] - 1]
                 IN  after(id) = before(hit)
<1>1. ASSUME RInv PROVE Keeps
  <2> SUFFICES ASSUME ~OnAlternate PROVE Keeps
    OBVIOUS
  <2>1. LineFeed \/ (\E n \in Counts : ScrollUp(n)) \/ Drain
        => Printed(written', History' \o screen', Blank) = Printed(written, History \o screen, Blank)
    BY <1>1, ScrollingPrints
  <2>2. ASSUME NEW ink \in BOOLEAN, PutChar(ink)
        PROVE  Printed(written', History' \o screen', IF written' = written THEN Blank ELSE Len(written'))
               = Printed(written, History \o screen,
                   IF pending_wrap /\ cursor[1] = rows THEN Blank
                   ELSE screen[cursor'[1]][IF pending_wrap' THEN cols ELSE cursor'[2] - 1])
    <3>1. PICK lift, a, b, id : Writes(lift, a, b, id)
      BY <1>1, <2>2, PutCharWrites
    <3>2. id = (IF written' = written THEN Blank ELSE Len(written'))
      BY <3>1 DEF Writes
    <3>3. Printed(written', History' \o screen', id)
          = Printed(written, History \o screen, Moved(screen, Blank, rows, cols, Lift(lift))[a][b])
      BY <1>1, <3>1, PutCharPrints
    <3> QED  BY <1>1, <3>1, <3>2, <3>3, HitCell
  <2> QED  BY <2>1, <2>2
<1>2. RInv /\ [Next]_vars => [Keeps]_vars
  BY <1>1
<1> HIDE DEF Keeps
<1>3. Spec => [][Keeps]_vars
  BY <1>2, AlwaysRInv, PTL DEF Spec
<1> QED  BY <1>3 DEF ScrollKeepsContent, Keeps
=============================================================================
