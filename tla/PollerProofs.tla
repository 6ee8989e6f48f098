---------------------------- MODULE PollerProofs ----------------------------
(***************************************************************************)
(* Theorems about the Slack client's poller, for every value of the        *)
(* constants of Poller.                                                    *)
(***************************************************************************)
EXTENDS Poller, SequenceTheorems, TLAPS

-----------------------------------------------------------------------------
(* The inductive invariant.                                                 *)

\* A call that has reached Slack knows its message, which is the bridge's own.
PosterInv ==
  \A c \in Callers :
    /\ poster[c].at \in {"posting", "editing"} => poster[c].text \in Texts
    /\ poster[c].at \in {"stored", "editing"} =>
         poster[c].id \in 1..Len(posts) /\ Own(poster[c].id)

\* What the ring holds is the bridge's own, or is from before the subscription.
TsInv ==
  \A i \in ToSet(postedTs) : i \in 1..Len(posts) /\ (Own(i) \/ i <= seed)

\* The page is a run of consecutive messages past the cursor, or at it if `oldest`
\* is inclusive; a copy tells a user's message from an own one even if that was
\* edited since.
PageInv ==
  /\ poller \in {"handling", "sending"} <=> page # <<>>
  /\ \A k \in DOMAIN page :
       /\ page[k].id = page[1].id + (k - 1)
       /\ page[k].is.kind \in OwnKinds <=> Own(page[k].id)
       /\ ~Own(page[k].id) => page[k].is = posts[page[k].id]
  /\ poller = "handling" => cursor < page[1].id \/ (inclusive /\ cursor = page[1].id)
  /\ poller = "sending" => cursor = page[1].id

\* What was delivered is behind the cursor, and before the message being sent
\* unless that comes again.
OrderInv ==
  /\ InOrderOnce
  /\ \A i \in ToSet(delivered) : i <= cursor /\ (poller = "sending" => i < cursor \/ inclusive)

\* What lies below is from before the subscription and not to be replayed.
Floor == IF seed = -1 THEN old - Limit ELSE seed

FloorInv ==
  /\ NothingOld
  /\ \A k \in DOMAIN page : page[k].id > Floor \/ (inclusive /\ seed # -1 /\ page[k].id = seed)
  /\ poller = "sending" => page[1].id > Floor \/ (inclusive /\ page[1].id = seed /\ seed \in forgotten)
  /\ seed # -1 => cursor >= seed
  /\ seed = -1 => cursor = 0 \/ cursor > Floor
  /\ poller = "seeding" => delivered = <<>> /\ seed = 0 /\ cursor = 0

\* The seed keeps its mark until the ring forgets it.
MarkInv == poller # "seeding" /\ seed > 0 => seed \in ToSet(postedTs) \cup forgotten

\* The next message to handle or to send.
NextUp == IF page = <<>> THEN cursor + 1 ELSE page[1].id

CoveredInv ==
  \A i \in 1..Len(posts) :
    posts[i].kind = "user" /\ seed # -1 /\ i > seed /\ poller # "stopped" /\ i < NextUp
      => i \in ToSet(delivered) \cup overrun

\* An altered message on the page is known by its ts, or one of the exceptions
\* applies; the message being sent has passed the filters.
EchoInv ==
  /\ NeverEcho
  /\ \A k \in DOMAIN page :
       page[k].is.kind = "altered" => page[k].id \in early \cup forgotten \cup ToSet(postedTs)
  /\ poller = "sending" /\ page[1].is.kind \in OwnKinds => page[1].id \in early \cup forgotten

PollerInv ==
  /\ TypeOK /\ PosterInv /\ TsInv /\ PageInv /\ OrderInv /\ FloorInv /\ MarkInv
  /\ CoveredInv /\ EchoInv
-----------------------------------------------------------------------------
(* The rings.                                                               *)

LEMMA SetOfSeq ==
  ASSUME NEW S, NEW q \in Seq(S)
  PROVE  /\ Len(q) \in Nat /\ DOMAIN q = 1..Len(q)
         /\ \A x : x \in ToSet(q) <=> \E i \in 1..Len(q) : q[i] = x
         /\ \A i \in 1..Len(q) : q[i] \in S
         /\ ToSet(q) \subseteq S
         /\ \A x : Contains(q, x) <=> x \in ToSet(q)
  BY DEF ToSet, Contains

LEMMA WiderSeq ==
  ASSUME NEW S, NEW T, S \subseteq T, NEW q \in Seq(S)
  PROVE  q \in Seq(T)
<1>1. Len(q) \in Nat /\ q = [i \in 1..Len(q) |-> q[i]] /\ \A i \in 1..Len(q) : q[i] \in T
  OBVIOUS
<1> QED
  BY <1>1, IsASeq

LEMMA RunSeq ==
  ASSUME NEW n \in Nat, NEW S, NEW f, f = [k \in 1..n |-> f[k]], \A k \in 1..n : f[k] \in S
  PROVE  f \in Seq(S) /\ Len(f) = n /\ DOMAIN f = 1..n /\ (f = <<>> <=> n = 0)
<1>1. f \in [1..n -> S] /\ DOMAIN f = 1..n
  OBVIOUS
<1>2. f \in Seq(S) /\ Len(f) = n
  BY <1>1
<1> QED
  BY <1>1, <1>2

LEMMA AppendedFacts ==
  ASSUME NEW S, NEW q \in Seq(S), NEW x \in S
  PROVE  /\ Append(q, x) \in Seq(S) /\ Len(Append(q, x)) = Len(q) + 1
         /\ DOMAIN Append(q, x) = 1..(Len(q) + 1)
         /\ \A i \in 1..Len(q) : Append(q, x)[i] = q[i]
         /\ Append(q, x)[Len(q) + 1] = x
         /\ ToSet(Append(q, x)) = ToSet(q) \cup {x}
         /\ \A i \in DOMAIN Append(q, x) : i \in 1..Len(q) \/ i = Len(q) + 1
<1> DEFINE r == Append(q, x)
<1>1. /\ r \in Seq(S) /\ Len(r) = Len(q) + 1 /\ r[Len(q) + 1] = x
      /\ \A i \in 1..Len(q) : r[i] = q[i]
  BY AppendProperties
<1>2. Len(q) \in Nat /\ DOMAIN r = 1..(Len(q) + 1)
  BY <1>1
<1> HIDE DEF r
<1>3. \A y : /\ y \in ToSet(q) <=> \E i \in 1..Len(q) : q[i] = y
             /\ y \in ToSet(r) <=> \E i \in 1..(Len(q) + 1) : r[i] = y
  BY <1>2 DEF ToSet
<1>4. /\ \A i \in 1..(Len(q) + 1) : i \in 1..Len(q) \/ i = Len(q) + 1
      /\ Len(q) + 1 \in 1..(Len(q) + 1) /\ \A i \in 1..Len(q) : i \in 1..(Len(q) + 1)
  BY <1>2
<1>5. ToSet(r) = ToSet(q) \cup {x}
  BY <1>1, <1>3, <1>4
<1> QED
  BY <1>1, <1>2, <1>4, <1>5 DEF r

LEMMA InsertedFacts ==
  ASSUME NEW S, NEW q \in Seq(S), NEW x \in S, NEW cap \in Nat \ {0}, IsInjective(q), Len(q) <= cap
  PROVE  /\ Inserted(q, x, cap) \in Seq(S) /\ Len(Inserted(q, x, cap)) <= cap
         /\ IsInjective(Inserted(q, x, cap))
         /\ ToSet(Inserted(q, x, cap)) \subseteq ToSet(q) \cup {x}
         /\ x \in ToSet(Inserted(q, x, cap))
<1>1. CASE Contains(q, x)
  <2>1. x \in ToSet(q)
    BY <1>1, SetOfSeq
  <2> QED  BY <1>1, <2>1 DEF Inserted
<1>2. CASE ~Contains(q, x)
  <2> DEFINE base == IF Len(q) >= cap THEN Tail(q) ELSE q
             n == Len(base)
             r == Append(base, x)
  <2>1. /\ base \in Seq(S) /\ n \in Nat /\ n < cap
        /\ \A i, j \in 1..n : base[i] = base[j] => i = j
        /\ ToSet(base) \subseteq ToSet(q)
    <3>1. CASE Len(q) >= cap
      <4> DEFINE m == Len(q)
      <4>1. /\ m \in Nat /\ m # 0 /\ m = cap /\ q # <<>>
        BY <3>1
      <4>2. /\ Tail(q) \in Seq(S) /\ Len(Tail(q)) = m - 1
            /\ \A i \in 1..(m - 1) : Tail(q)[i] = q[i + 1]
        BY <4>1
      <4>3. \A i \in 1..(m - 1) : i + 1 \in 1..m
        BY <4>1
      <4>4. \A i, j \in 1..m : q[i] = q[j] => i = j
        BY DEF IsInjective
      <4>5. ToSet(Tail(q)) \subseteq ToSet(q)
        <5>1. \A y \in ToSet(Tail(q)) : \E i \in 1..(m - 1) : Tail(q)[i] = y
          BY <4>2 DEF ToSet
        <5>2. \A i \in 1..m : q[i] \in ToSet(q)
          BY <4>1 DEF ToSet
        <5> QED  BY <4>2, <4>3, <5>1, <5>2
      <4>6. m - 1 \in Nat /\ m - 1 < cap
        BY <4>1
      <4>7. base = Tail(q) /\ n = m - 1
        BY <3>1, <4>2
      <4>8. \A i, j \in 1..(m - 1) : Tail(q)[i] = Tail(q)[j] => i = j
        BY <4>1, <4>2, <4>3, <4>4
      <4> QED  BY <4>2, <4>5, <4>6, <4>7, <4>8
    <3>2. CASE ~(Len(q) >= cap)
      BY <3>2 DEF IsInjective
    <3> QED  BY <3>1, <3>2
  <2>2. Inserted(q, x, cap) = r
    BY <1>2 DEF Inserted
  <2>3. x \notin ToSet(base)
    BY <1>2, <2>1, SetOfSeq
  <2> HIDE DEF base
  <2>4. /\ r \in Seq(S) /\ Len(r) = n + 1 /\ DOMAIN r = 1..(n + 1) /\ r[n + 1] = x
        /\ \A i \in 1..n : r[i] = base[i]
        /\ ToSet(r) = ToSet(base) \cup {x}
    BY <2>1, AppendedFacts
  <2>5. \A i \in 1..n : base[i] # x
    BY <2>1, <2>3, SetOfSeq
  <2> HIDE DEF r, n
  <2>6. IsInjective(r)
    <3> SUFFICES ASSUME NEW i \in 1..(n + 1), NEW j \in 1..(n + 1), r[i] = r[j] PROVE i = j
      BY <2>4 DEF IsInjective
    <3>1. (i \in 1..n \/ i = n + 1) /\ (j \in 1..n \/ j = n + 1)
      BY <2>1
    <3> QED  BY <2>1, <2>4, <2>5, <3>1
  <2>7. Len(r) <= cap
    BY <2>1, <2>4
  <2> QED  BY <2>1, <2>2, <2>4, <2>6, <2>7
<1> QED
  BY <1>1, <1>2
-----------------------------------------------------------------------------
(* A page.                                                                  *)

LEMMA PageBounds ==
  ASSUME NEW L \in Nat, NEW c \in 0..L, NEW cap \in Nat \ {0}, NEW newest \in BOOLEAN, NEW kept, NEW top,
         kept = IF L - c > cap THEN cap ELSE L - c, top = IF newest THEN L ELSE c + kept
  PROVE  /\ kept \in Nat /\ kept <= cap /\ top \in Nat /\ top - kept \in Nat /\ top <= L
         /\ c <= top - kept /\ (top = L \/ top - kept = c)
         /\ newest => top = L /\ (top - kept = c \/ top - kept = L - cap)
         /\ ~newest => top - kept = c
         /\ kept = 0 => c = L
  OBVIOUS

\* Counting a run upwards and downwards.
LEMMA RunIndices ==
  ASSUME NEW start \in Nat, NEW kept \in Nat, NEW top \in Nat, top = start + kept
  PROVE  /\ \A k \in 1..kept : top + 1 - k \in (start + 1)..top /\ top + 1 - k \in Nat
         /\ \A i \in (start + 1)..top : top + 1 - i \in 1..kept /\ i = top + 1 - (top + 1 - i)
         /\ \A k \in 1..kept : (kept - k) + 1 \in 1..kept /\ top + 1 - ((kept - k) + 1) = start + k
  OBVIOUS

\* What Poll reads, in the order the loop handles it: a run of consecutive
\* messages past position c, up to the newest or from there on.
LEMMA PageFacts ==
  ASSUME posts \in Seq(Message), NEW c \in 0..Len(posts), NEW newest \in BOOLEAN
  PROVE  \E start, kept \in Nat :
           /\ c <= start /\ start + kept <= Len(posts) /\ kept <= Limit
           /\ ~newest => start = c
           /\ newest => start + kept = Len(posts) /\ (start = c \/ start = Len(posts) - Limit)
           /\ After(c, newest) = <<>> <=> kept = 0
           /\ kept = 0 => c = Len(posts)
           /\ Ids(After(c, newest)) = (start + 1)..(start + kept)
           /\ \A m : m \in ToSet(After(c, newest)) <=>
                \E i \in (start + 1)..(start + kept) : m = [id |-> i, is |-> posts[i]]
           /\ Chronological(After(c, newest)) =
                [k \in 1..kept |-> [id |-> start + k, is |-> posts[start + k]]]
<1>1. PICK kept, top :
        /\ kept = IF Len(posts) - c > Limit THEN Limit ELSE Len(posts) - c
        /\ top = IF newest THEN Len(posts) ELSE c + kept
        /\ After(c, newest) = [k \in 1..kept |-> [id |-> top + 1 - k, is |-> posts[top + 1 - k]]]
  BY DEF After
<1> DEFINE L == Len(posts)
           start == top - kept
           messages == [k \in 1..kept |-> [id |-> top + 1 - k, is |-> posts[top + 1 - k]]]
<1>2. /\ kept \in Nat /\ kept <= Limit /\ top \in Nat /\ start \in Nat /\ top <= L
      /\ c <= start /\ (top = L \/ start = c)
      /\ newest => top = L /\ (start = c \/ start = L - Limit)
      /\ ~newest => start = c
      /\ kept = 0 => c = L
  <2>1. L \in Nat /\ c \in 0..L /\ Limit \in Nat \ {0}
    BY CapAssumption
  <2> HIDE DEF L
  <2>2. /\ kept = IF L - c > Limit THEN Limit ELSE L - c
        /\ top = IF newest THEN L ELSE c + kept
    BY <1>1 DEF L
  <2> QED  BY <2>1, <2>2, PageBounds
<1>3. top = start + kept
  BY <1>2
<1> HIDE DEF start
<1>4. /\ \A k \in 1..kept : top + 1 - k \in (start + 1)..top /\ top + 1 - k \in Nat
      /\ \A i \in (start + 1)..top : top + 1 - i \in 1..kept /\ i = top + 1 - (top + 1 - i)
      /\ \A k \in 1..kept : (kept - k) + 1 \in 1..kept /\ top + 1 - ((kept - k) + 1) = start + k
  BY <1>2, <1>3, RunIndices
<1>5. \A k \in 1..kept : messages[k] = [id |-> top + 1 - k, is |-> posts[top + 1 - k]]
  OBVIOUS
<1>6. messages = [k \in 1..kept |-> messages[k]]
  OBVIOUS
<1> HIDE DEF messages
<1>7. Len(messages) = kept /\ DOMAIN messages = 1..kept /\ (messages = <<>> <=> kept = 0)
  <2>1. \A k \in 1..kept : messages[k] \in {messages[i] : i \in 1..kept}
    OBVIOUS
  <2> QED  BY <1>2, <1>6, <2>1, RunSeq
<1>8. Ids(messages) = (start + 1)..top
  <2>1. \A i : i \in Ids(messages) <=> \E k \in 1..kept : i = messages[k].id
    BY <1>7 DEF Ids
  <2>2. ASSUME NEW k \in 1..kept PROVE messages[k].id = top + 1 - k
    <3>1. messages[k] = [id |-> top + 1 - k, is |-> posts[top + 1 - k]]
      BY <1>5
    <3> QED  BY <3>1
  <2>3. \A i : i \in Ids(messages) <=> \E k \in 1..kept : i = top + 1 - k
    BY <2>1, <2>2
  <2>4. ASSUME NEW i \in (start + 1)..top PROVE \E k \in 1..kept : i = top + 1 - k
    BY <1>4
  <2>5. ASSUME NEW i \in Ids(messages) PROVE i \in (start + 1)..top
    <3>1. PICK k \in 1..kept : i = top + 1 - k
      BY <2>3
    <3> QED  BY <1>4, <3>1
  <2>6. \A i \in (start + 1)..top : i \in Ids(messages)
    BY <2>3, <2>4
  <2> QED  BY <2>5, <2>6
<1>9. \A m : m \in ToSet(messages) <=> \E i \in (start + 1)..top : m = [id |-> i, is |-> posts[i]]
  <2>1. \A m : m \in ToSet(messages) <=> \E k \in 1..kept : m = messages[k]
    BY <1>7 DEF ToSet
  <2>2. ASSUME NEW i \in (start + 1)..top PROVE \E k \in 1..kept : messages[k] = [id |-> i, is |-> posts[i]]
    <3> DEFINE k == top + 1 - i
    <3>1. k \in 1..kept /\ i = top + 1 - k
      BY <1>4
    <3>2. messages[k] = [id |-> top + 1 - k, is |-> posts[top + 1 - k]]
      BY <1>5, <3>1
    <3> HIDE DEF k
    <3> QED  BY <3>1, <3>2
  <2>3. ASSUME NEW k \in 1..kept PROVE \E i \in (start + 1)..top : messages[k] = [id |-> i, is |-> posts[i]]
    <3>1. messages[k] = [id |-> top + 1 - k, is |-> posts[top + 1 - k]]
      BY <1>5
    <3>2. top + 1 - k \in (start + 1)..top
      BY <1>4
    <3> QED  BY <3>1, <3>2
  <2>4. ASSUME NEW m, m \in ToSet(messages)
        PROVE  \E i \in (start + 1)..top : m = [id |-> i, is |-> posts[i]]
    <3>1. PICK k \in 1..kept : m = messages[k]
      BY <2>1, <2>4
    <3> QED  BY <2>3, <3>1
  <2>5. ASSUME NEW m, NEW i \in (start + 1)..top, m = [id |-> i, is |-> posts[i]]
        PROVE  m \in ToSet(messages)
    BY <2>1, <2>2, <2>5
  <2> QED  BY <2>4, <2>5
<1>10. Chronological(messages) = [k \in 1..kept |-> [id |-> start + k, is |-> posts[start + k]]]
  <2>1. \A k \in 1..kept : messages[(kept - k) + 1] = [id |-> start + k, is |-> posts[start + k]]
    BY <1>4, <1>5
  <2>2. Chronological(messages) = [k \in 1..kept |-> messages[(kept - k) + 1]]
    BY <1>7 DEF Chronological, Reverse
  <2> QED  BY <2>1, <2>2
<1>11. After(c, newest) = messages
  BY <1>1 DEF messages
<1> QED
  BY <1>2, <1>3, <1>7, <1>8, <1>9, <1>10, <1>11
-----------------------------------------------------------------------------
(* The steps of the users and of the bridge's calls.                        *)

LEMMA TypeFacts ==
  ASSUME TypeOK
  PROVE  /\ Len(posts) \in Nat /\ Len(page) \in Nat /\ cursor \in Nat
         /\ DOMAIN posts = 1..Len(posts) /\ DOMAIN page = 1..Len(page)
         /\ \A i \in 1..Len(posts) : posts[i] \in Message
         /\ \A k \in 1..Len(page) : page[k] \in [id : 1..Len(posts), is : Message]
         /\ MaxPosts \in Nat /\ TsCap \in Nat \ {0} /\ TextCap \in Nat \ {0} /\ Limit \in Nat \ {0}
<1>1. posts \in Seq(Message) /\ page \in Seq([id : 1..Len(posts), is : Message]) /\ cursor \in 0..Len(posts)
  BY DEF TypeOK
<1>2. Len(posts) \in Nat /\ DOMAIN posts = 1..Len(posts) /\ \A i \in 1..Len(posts) : posts[i] \in Message
  BY <1>1
<1>3. /\ Len(page) \in Nat /\ DOMAIN page = 1..Len(page)
      /\ \A k \in 1..Len(page) : page[k] \in [id : 1..Len(posts), is : Message]
  <2> DEFINE Copy == [id : 1..Len(posts), is : Message]
  <2>1. page \in Seq(Copy)
    BY <1>1
  <2> HIDE DEF Copy
  <2>2. Len(page) \in Nat /\ DOMAIN page = 1..Len(page) /\ \A k \in 1..Len(page) : page[k] \in Copy
    BY <2>1
  <2> QED  BY <2>2 DEF Copy
<1>4. cursor \in Nat
  BY <1>1, <1>2
<1> QED
  BY <1>2, <1>3, <1>4, CapAssumption, BoundAssumption

\* The channel only grows, and an edit leaves users' messages alone.
LEMMA PostsGrow ==
  ASSUME TypeOK, PosterInv, NEW c,
         UserWrites \/ (c \in Callers /\ Store(c)) \/ (c \in Callers /\ StoreEdit(c))
  PROVE  /\ posts' \in Seq(Message) /\ Len(posts') \in Nat /\ DOMAIN posts' = 1..Len(posts')
         /\ Len(posts) <= Len(posts') /\ Len(posts') <= MaxPosts
         /\ \A i \in 1..Len(posts) : /\ posts'[i].kind \in OwnKinds <=> posts[i].kind \in OwnKinds
                                     /\ posts[i].kind \notin OwnKinds => posts'[i] = posts[i]
         /\ c \in Callers /\ Store(c) => Len(posts') = Len(posts) + 1 /\ posts'[Len(posts) + 1].kind \in OwnKinds
<1> USE TypeFacts
<1>0. posts \in Seq(Message) /\ Len(posts) <= MaxPosts
  BY DEF TypeOK
<1>1. ASSUME NEW m \in Message, posts' = Append(posts, m), Len(posts) < MaxPosts
      PROVE  /\ posts' \in Seq(Message) /\ Len(posts') = Len(posts) + 1 /\ Len(posts') \in Nat
             /\ DOMAIN posts' = 1..Len(posts') /\ posts'[Len(posts) + 1] = m
             /\ Len(posts) <= Len(posts') /\ Len(posts') <= MaxPosts
             /\ \A i \in 1..Len(posts) : posts'[i] = posts[i]
  BY <1>0, <1>1, AppendedFacts
<1>2. CASE UserWrites
  <2>1. PICK kind \in UserKinds : posts' = Append(posts, UserMessage(kind)) /\ Len(posts) < MaxPosts
    BY <1>2 DEF UserWrites
  <2>2. UserMessage(kind) \in Message
    BY DEF UserMessage, Message
  <2>3. ~(c \in Callers /\ Store(c))
    <3>1. poster' = poster /\ (c \in Callers /\ Store(c) => poster[c].at = "posting")
      BY <1>2 DEF UserWrites, Store
    <3>2. c \in Callers /\ Store(c) => poster'[c].at = "stored"
      BY DEF Store, TypeOK
    <3> QED  BY <3>1, <3>2
  <2> QED  BY <1>1, <2>1, <2>2, <2>3
<1>3. CASE c \in Callers /\ Store(c)
  <2>1. PICK kind \in OwnKinds : /\ posts' = Append(posts, [kind |-> kind, text |-> poster[c].text])
                                 /\ Len(posts) < MaxPosts /\ poster[c].at = "posting"
    BY <1>3 DEF Store
  <2>2. [kind |-> kind, text |-> poster[c].text] \in Message
    BY <1>3, <2>1 DEF Message, PosterInv
  <2> QED  BY <1>1, <2>1, <2>2
<1>4. CASE c \in Callers /\ StoreEdit(c)
  <2>1. PICK kind \in OwnKinds :
          /\ posts' = [posts EXCEPT ![poster[c].id] = [kind |-> kind, text |-> poster[c].text]]
          /\ poster[c].at = "editing"
    BY <1>4 DEF StoreEdit
  <2>2. [kind |-> kind, text |-> poster[c].text] \in Message
    BY <1>4, <2>1 DEF Message, PosterInv
  <2>3. poster[c].id \in 1..Len(posts) /\ posts[poster[c].id].kind \in OwnKinds
    BY <1>4, <2>1 DEF PosterInv, Own
  <2>4. posts' \in Seq(Message) /\ Len(posts') = Len(posts)
    <3>1. \A m \in Message : /\ [posts EXCEPT ![poster[c].id] = m] \in Seq(Message)
                             /\ Len([posts EXCEPT ![poster[c].id] = m]) = Len(posts)
      BY <1>0, <2>3, ExceptSeq
    <3> QED  BY <2>1, <2>2, <3>1
  <2>5. \A i \in 1..Len(posts) :
          posts'[i] = IF i = poster[c].id THEN [kind |-> kind, text |-> poster[c].text] ELSE posts[i]
    BY <2>1
  <2>6. ~(c \in Callers /\ Store(c))
    BY <2>1 DEF Store
  <2>7. /\ DOMAIN posts' = 1..Len(posts') /\ Len(posts') \in Nat
        /\ Len(posts) <= Len(posts') /\ Len(posts') <= MaxPosts
    BY <1>0, <2>4
  <2>8. [kind |-> kind, text |-> poster[c].text].kind \in OwnKinds
    OBVIOUS
  <2> QED  BY <2>3, <2>4, <2>5, <2>6, <2>7, <2>8
<1> QED
  BY <1>2, <1>3, <1>4

LEMMA RangesGrow ==
  ASSUME NEW a \in Nat, NEW b \in Nat, a <= b
  PROVE  1..a \subseteq 1..b /\ 0..a \subseteq 0..b /\ -1..a \subseteq -1..b
  OBVIOUS

LEMMA IdleCall == Idle \in Call
  BY BoundAssumption DEF Idle, Call

LEMMA ChannelStep ==
  ASSUME PollerInv, NEW c,
         UserWrites \/ (c \in Callers /\ Store(c)) \/ (c \in Callers /\ StoreEdit(c))
  PROVE  PollerInv'
<1> USE DEF PollerInv
<1> USE TypeFacts
<1>0. /\ UNCHANGED <<inclusive, old, forgotten>>
      /\ UNCHANGED <<postedTs, postedText, poller, cursor, page, waiting, delivered, seed, overrun, early>>
  BY DEF UserWrites, Store, StoreEdit, rings, reading, fetched, past
<1> DEFINE L == Len(posts)
           M == Len(posts')
<1>1. /\ posts' \in Seq(Message) /\ L \in Nat /\ M \in Nat /\ DOMAIN posts' = 1..M
      /\ L <= M /\ M <= MaxPosts
      /\ \A i \in 1..L : /\ posts'[i].kind \in OwnKinds <=> posts[i].kind \in OwnKinds
                         /\ posts[i].kind \notin OwnKinds => posts'[i] = posts[i]
      /\ c \in Callers /\ Store(c) => M = L + 1 /\ posts'[L + 1].kind \in OwnKinds
  BY PostsGrow
<1> HIDE DEF L, M
<1>2. 1..L \subseteq 1..M /\ 0..L \subseteq 0..M /\ -1..L \subseteq -1..M
  BY <1>1, RangesGrow
<1>3. TypeOK'
  <2>1. [id : 1..L, is : Message] \subseteq [id : 1..M, is : Message]
    BY <1>2
  <2>2. page' \in Seq([id : 1..M, is : Message]) /\ delivered' \in Seq(1..M)
    <3>1. page \in Seq([id : 1..L, is : Message]) /\ delivered \in Seq(1..L)
      BY DEF TypeOK, L
    <3>2. page \in Seq([id : 1..M, is : Message])
      <4> DEFINE Before == [id : 1..L, is : Message]
                 Now == [id : 1..M, is : Message]
      <4>1. page \in Seq(Before) /\ Before \subseteq Now
        BY <2>1, <3>1
      <4> HIDE DEF Before, Now
      <4>2. page \in Seq(Now)
        BY <4>1, WiderSeq
      <4> QED  BY <4>2 DEF Now
    <3>3. delivered \in Seq(1..M)
      BY <1>2, <3>1, WiderSeq
    <3> QED  BY <1>0, <3>2, <3>3
  <2>3. poster' \in [Callers -> Call]
    <3>1. CASE UserWrites
      BY <3>1 DEF UserWrites, TypeOK
    <3>2. CASE c \in Callers /\ Store(c)
      <4>1. poster' = [poster EXCEPT ![c].at = "stored", ![c].id = L + 1]
        BY <3>2 DEF Store, L
      <4>2. L + 1 \in 0..MaxPosts
        BY <1>1, <3>2
      <4>3. poster \in [Callers -> Call] /\ poster[c] \in Call
        BY <3>2 DEF TypeOK
      <4>4. [poster[c] EXCEPT !.at = "stored", !.id = L + 1] \in Call
        BY <4>2, <4>3 DEF Call
      <4>5. poster' = [poster EXCEPT ![c] = [poster[c] EXCEPT !.at = "stored", !.id = L + 1]]
        BY <4>1, <4>3
      <4> QED  BY <3>2, <4>3, <4>4, <4>5
    <3>3. CASE c \in Callers /\ StoreEdit(c)
      BY <3>3, IdleCall DEF StoreEdit, TypeOK
    <3> QED  BY <3>1, <3>2, <3>3
  <2>4. cursor' \in 0..M /\ old' \in 0..M /\ seed' \in -1..M /\ (overrun \cup early \cup forgotten)' \subseteq 1..M
    BY <1>0, <1>2 DEF TypeOK, L
  <2> QED  BY <1>0, <1>1, <2>2, <2>3, <2>4 DEF TypeOK, M
<1>4. PosterInv'
  <2>1. CASE UserWrites
    <3>1. poster' = poster
      BY <2>1 DEF UserWrites
    <3> QED  BY <1>1, <1>2, <3>1 DEF PosterInv, Own, L, M
  <2>2. CASE c \in Callers /\ Store(c)
    <3>1. /\ poster'[c].at = "stored" /\ poster'[c].id = L + 1
          /\ \A d \in Callers \ {c} : poster'[d] = poster[d]
      BY <2>2 DEF Store, TypeOK, Call, L
    <3>2. L + 1 \in 1..M /\ posts'[L + 1].kind \in OwnKinds
      BY <1>1, <2>2
    <3>3. ASSUME NEW d \in Callers
          PROVE  /\ poster'[d].at \in {"posting", "editing"} => poster'[d].text \in Texts
                 /\ poster'[d].at \in {"stored", "editing"} =>
                      poster'[d].id \in 1..M /\ posts'[poster'[d].id].kind \in OwnKinds
      <4>1. CASE d = c
        BY <3>1, <3>2, <4>1
      <4>2. CASE d # c
        BY <1>1, <1>2, <3>1, <4>2 DEF PosterInv, Own, L
      <4> QED  BY <4>1, <4>2
    <3> QED  BY <3>3 DEF PosterInv, Own, M
  <2>3. CASE c \in Callers /\ StoreEdit(c)
    <3>1. poster'[c] = Idle /\ \A d \in Callers \ {c} : poster'[d] = poster[d]
      BY <2>3 DEF StoreEdit, TypeOK
    <3>2. ASSUME NEW d \in Callers
          PROVE  /\ poster'[d].at \in {"posting", "editing"} => poster'[d].text \in Texts
                 /\ poster'[d].at \in {"stored", "editing"} =>
                      poster'[d].id \in 1..M /\ posts'[poster'[d].id].kind \in OwnKinds
      <4>1. CASE d = c
        BY <3>1, <4>1 DEF Idle
      <4>2. CASE d # c
        BY <1>1, <1>2, <3>1, <4>2 DEF PosterInv, Own, L
      <4> QED  BY <4>1, <4>2
    <3> QED  BY <3>2 DEF PosterInv, Own, M
  <2> QED  BY <2>1, <2>2, <2>3
<1>5. TsInv'
  BY <1>0, <1>1, <1>2 DEF TsInv, Own, L, M
<1>6. PageInv'
  <2>1. \A k \in 1..Len(page) : page[k].id \in 1..L
    BY DEF L
  <2> QED  BY <1>0, <1>1, <2>1 DEF PageInv, Own
<1>7. OrderInv' /\ FloorInv' /\ MarkInv'
  BY <1>0 DEF OrderInv, FloorInv, MarkInv, InOrderOnce, NothingOld, Floor
<1>8. CoveredInv'
  <2>1. NextUp' = NextUp /\ NextUp \in Nat /\ NextUp <= L + 1
    <3>1. page # <<>> => page[1].id \in 1..L
      <4>1. page # <<>> => 1 \in 1..Len(page)
        BY DEF TypeOK
      <4> QED  BY <4>1 DEF L
    <3>2. cursor \in 0..L
      BY DEF TypeOK, L
    <3> QED  BY <1>0, <1>1, <3>1, <3>2 DEF NextUp
  <2>2. ASSUME NEW i \in 1..M, posts'[i].kind = "user", i < NextUp
        PROVE  i \in 1..L /\ posts[i].kind = "user"
    <3>1. i \in 1..L
      BY <1>1, <2>1, <2>2
    <3>2. posts'[i].kind \notin OwnKinds
      BY <2>2 DEF OwnKinds
    <3> QED  BY <1>1, <2>2, <3>1, <3>2
  <2> QED  BY <1>0, <2>1, <2>2 DEF CoveredInv, L, M
<1>9. EchoInv'
  <2>1. \A i \in ToSet(delivered) : i \in 1..L
    BY SetOfSeq DEF TypeOK, L
  <2> QED  BY <1>0, <1>1, <2>1 DEF EchoInv, NeverEcho, Own
<1> QED
  BY <1>3, <1>4, <1>5, <1>6, <1>7, <1>8, <1>9
\* A text is remembered, or a call ends without an answer.
LEMMA CallStep ==
  ASSUME PollerInv, NEW c \in Callers, StartPost(c) \/ StartEdit(c) \/ CallFails(c)
  PROVE  PollerInv'
<1> USE DEF PollerInv
<1> USE TypeFacts
<1>0. UNCHANGED <<posts, postedTs, poller, cursor, page, waiting, delivered, inclusive, old, seed, overrun,
                 early, forgotten>>
  BY DEF StartPost, StartEdit, CallFails, reading, rings, fetched, past
<1>1. ASSUME NEW text \in Texts, postedText' = Remembered(text)
      PROVE  /\ postedText' \in Seq(Texts) /\ Len(postedText') <= TextCap /\ IsInjective(postedText')
  <2>1. postedText \in Seq(Texts) /\ Len(postedText) <= TextCap /\ IsInjective(postedText)
    BY DEF TypeOK
  <2> QED  BY <1>1, <2>1, InsertedFacts DEF Remembered
<1>2. ASSUME NEW call \in Call, poster' = [poster EXCEPT ![c] = call],
             call.at \in {"posting", "editing"} => call.text \in Texts,
             call.at \in {"stored", "editing"} => call.id \in 1..Len(posts) /\ Own(call.id)
      PROVE  poster' \in [Callers -> Call] /\ PosterInv'
  <2>1. /\ poster' \in [Callers -> Call] /\ poster'[c] = call
        /\ \A d \in Callers \ {c} : poster'[d] = poster[d]
    BY <1>2 DEF TypeOK
  <2>2. ASSUME NEW d \in Callers
        PROVE  /\ poster'[d].at \in {"posting", "editing"} => poster'[d].text \in Texts
               /\ poster'[d].at \in {"stored", "editing"} =>
                    poster'[d].id \in 1..Len(posts) /\ Own(poster'[d].id)
    BY <1>2, <2>1 DEF PosterInv
  <2> QED  BY <1>0, <2>1, <2>2 DEF PosterInv, Own
<1>3. /\ postedText' \in Seq(Texts) /\ Len(postedText') <= TextCap /\ IsInjective(postedText')
      /\ poster' \in [Callers -> Call] /\ PosterInv'
  <2>1. CASE StartPost(c)
    <3>1. PICK text \in Texts :
            /\ poster' = [poster EXCEPT ![c] = [at |-> "posting", text |-> text, id |-> 0]]
            /\ postedText' = Remembered(text)
      BY <2>1 DEF StartPost
    <3>2. [at |-> "posting", text |-> text, id |-> 0] \in Call
      BY DEF Call
    <3> QED  BY <1>1, <1>2, <3>1, <3>2
  <2>2. CASE StartEdit(c)
    <3>1. PICK text \in Texts, i \in ToSet(postedTs) \cup forgotten :
            /\ Own(i)
            /\ poster' = [poster EXCEPT ![c] = [at |-> "editing", text |-> text, id |-> i]]
            /\ postedText' = Remembered(text)
      BY <2>2 DEF StartEdit
    <3>2. i \in 1..Len(posts) /\ i \in 0..MaxPosts
      <4>1. i \in 1..Len(posts)
        BY DEF TsInv, TypeOK
      <4>2. Len(posts) <= MaxPosts
        BY DEF TypeOK
      <4> QED  BY <4>1, <4>2
    <3>3. [at |-> "editing", text |-> text, id |-> i] \in Call
      BY <3>2 DEF Call
    <3> QED  BY <1>1, <1>2, <3>1, <3>2, <3>3
  <2>3. CASE CallFails(c)
    <3>1. poster' = [poster EXCEPT ![c] = Idle] /\ postedText' = postedText
      BY <2>3 DEF CallFails, rings
    <3>2. poster' \in [Callers -> Call] /\ PosterInv'
      BY <1>2, <3>1, IdleCall DEF Idle
    <3> QED  BY <3>1, <3>2 DEF TypeOK
  <2> QED  BY <2>1, <2>2, <2>3
<1>4. TypeOK'
  BY <1>0, <1>3 DEF TypeOK
<1>5. TsInv' /\ PageInv' /\ OrderInv' /\ FloorInv' /\ MarkInv' /\ CoveredInv' /\ EchoInv'
  BY <1>0 DEF TsInv, PageInv, OrderInv, FloorInv, MarkInv, CoveredInv, EchoInv, Own, InOrderOnce, NothingOld,
              Floor, NextUp, NeverEcho
<1> QED
  BY <1>3, <1>4, <1>5

\* What the ring loses is noted.
LEMMA RecordFacts ==
  ASSUME TypeOK, NEW i \in 1..Len(posts), RecordTs(i),
         forgotten \subseteq 1..Len(posts), TsInv
  PROVE  /\ postedTs' \in Seq(1..MaxPosts) /\ Len(postedTs') <= TsCap /\ IsInjective(postedTs')
         /\ ToSet(postedTs') \subseteq ToSet(postedTs) \cup {i}
         /\ i \in ToSet(postedTs') /\ ToSet(postedTs) \subseteq ToSet(postedTs') \cup forgotten'
         /\ forgotten \subseteq forgotten' /\ forgotten' \subseteq 1..Len(posts)
<1> USE TypeFacts
<1>1. postedTs \in Seq(1..MaxPosts) /\ Len(postedTs) <= TsCap /\ IsInjective(postedTs) /\ i \in 1..MaxPosts
  <2>1. Len(posts) <= MaxPosts
    BY DEF TypeOK
  <2> QED  BY <2>1 DEF TypeOK
<1>2. /\ postedTs' \in Seq(1..MaxPosts) /\ Len(postedTs') <= TsCap /\ IsInjective(postedTs')
      /\ ToSet(postedTs') \subseteq ToSet(postedTs) \cup {i} /\ i \in ToSet(postedTs')
  BY <1>1, InsertedFacts, ZenonT(40) DEF RecordTs
<1> QED
  BY <1>2 DEF RecordTs, TsInv

LEMMA AnsweredStep ==
  ASSUME PollerInv, NEW c \in Callers, Answered(c)
  PROVE  PollerInv'
<1> USE DEF PollerInv
<1>0. UNCHANGED <<posts, postedText, poller, cursor, page, waiting, delivered, inclusive, old, seed,
                 overrun, early>>
  BY DEF Answered, reading, fetched, past
<1>1. /\ poster[c].id \in 1..Len(posts) /\ Own(poster[c].id) /\ RecordTs(poster[c].id)
      /\ poster' = [poster EXCEPT ![c] = Idle]
  BY DEF Answered, PosterInv
<1>2. /\ postedTs' \in Seq(1..MaxPosts) /\ Len(postedTs') <= TsCap /\ IsInjective(postedTs')
      /\ ToSet(postedTs') \subseteq ToSet(postedTs) \cup {poster[c].id}
      /\ ToSet(postedTs) \subseteq ToSet(postedTs') \cup forgotten'
      /\ forgotten \subseteq forgotten' /\ forgotten' \subseteq 1..Len(posts)
  <2>1. forgotten \subseteq 1..Len(posts)
    BY DEF TypeOK
  <2> QED  BY <1>1, <2>1, RecordFacts
<1>3. /\ poster' \in [Callers -> Call] /\ poster'[c] = Idle
      /\ \A d \in Callers \ {c} : poster'[d] = poster[d]
  BY <1>1, IdleCall DEF TypeOK
<1>4. TypeOK' /\ PosterInv'
  <2>1. TypeOK'
    BY <1>0, <1>2, <1>3 DEF TypeOK
  <2>2. ASSUME NEW d \in Callers
        PROVE  /\ poster'[d].at \in {"posting", "editing"} => poster'[d].text \in Texts
               /\ poster'[d].at \in {"stored", "editing"} =>
                    poster'[d].id \in 1..Len(posts) /\ Own(poster'[d].id)
    <3>1. CASE d = c
      BY <1>3, <3>1 DEF Idle
    <3>2. CASE d # c
      BY <1>3, <3>2 DEF PosterInv
    <3> QED  BY <3>1, <3>2
  <2> QED  BY <1>0, <2>1, <2>2 DEF PosterInv, Own
<1>5. TsInv'
  BY <1>0, <1>1, <1>2 DEF TsInv, Own
<1>6. PageInv' /\ OrderInv' /\ CoveredInv'
  BY <1>0 DEF PageInv, OrderInv, CoveredInv, Own, InOrderOnce, NextUp
<1>a. FloorInv' /\ MarkInv'
  BY <1>0, <1>2 DEF FloorInv, MarkInv, NothingOld, Floor
<1>7. EchoInv'
  BY <1>0, <1>2 DEF EchoInv, NeverEcho, Own
<1> QED
  BY <1>4, <1>5, <1>6, <1>a, <1>7
-----------------------------------------------------------------------------
(* The steps of the poller.                                                 *)

\* Before the seed nothing has happened.
LEMMA SeedStep ==
  ASSUME PollerInv, Seed \/ SeedFails
  PROVE  PollerInv'
<1> USE DEF PollerInv
<1> USE TypeFacts
<1>0. /\ UNCHANGED <<posts, poster, postedText, page, waiting, delivered, inclusive, old, overrun, early>>
      /\ poller = "seeding" /\ poller' = "sleeping"
      /\ page = <<>> /\ delivered = <<>> /\ DOMAIN page = {} /\ ToSet(delivered) = {}
  <2>1. poller = "seeding" /\ poller' = "sleeping"
    BY DEF Seed, SeedFails
  <2>2. page = <<>> /\ delivered = <<>>
    BY <2>1 DEF PageInv, FloorInv
  <2>3. DOMAIN <<>> = {} /\ ToSet(<<>>) = {}
    BY DEF ToSet
  <2> QED  BY <2>1, <2>2, <2>3 DEF Seed, SeedFails, rings, past
<1>1. /\ postedTs' \in Seq(1..MaxPosts) /\ Len(postedTs') <= TsCap /\ IsInjective(postedTs')
      /\ \A i \in ToSet(postedTs') : i \in ToSet(postedTs) \/ (Seed /\ i = Len(posts) /\ i \in 1..Len(posts))
      /\ forgotten \subseteq forgotten' /\ forgotten' \subseteq 1..Len(posts)
      /\ Seed /\ Len(posts) # 0 => Len(posts) \in ToSet(postedTs')
  <2>1. CASE UNCHANGED <<postedTs, forgotten>>
    <3>1. Seed /\ Len(posts) # 0 => RecordTs(Newest) /\ Newest \in 1..Len(posts) /\ forgotten \subseteq 1..Len(posts)
      BY DEF Seed, Newest, TypeOK
    <3>2. Seed /\ Len(posts) # 0 => Newest \in ToSet(postedTs')
      BY <3>1, RecordFacts
    <3> QED  BY <2>1, <3>2 DEF TypeOK, Newest
  <2>2. CASE Seed /\ Newest # 0
    <3>1. RecordTs(Newest) /\ Newest \in 1..Len(posts) /\ forgotten \subseteq 1..Len(posts)
      BY <2>2 DEF Seed, Newest, TypeOK
    <3>2. /\ postedTs' \in Seq(1..MaxPosts) /\ Len(postedTs') <= TsCap /\ IsInjective(postedTs')
          /\ ToSet(postedTs') \subseteq ToSet(postedTs) \cup {Newest}
          /\ forgotten \subseteq forgotten' /\ forgotten' \subseteq 1..Len(posts)
          /\ Newest \in ToSet(postedTs')
      BY <3>1, RecordFacts
    <3> QED  BY <2>2, <3>1, <3>2 DEF Newest
  <2> QED  BY <2>1, <2>2 DEF Seed, SeedFails, rings
<1>2. /\ Seed => seed' = Len(posts) /\ cursor' = Len(posts)
      /\ ~Seed => seed' = -1 /\ cursor' = 0
      /\ seed = 0
  BY <1>0 DEF Seed, SeedFails, Newest, FloorInv
<1>3. TypeOK'
  <2>1. \A n \in Nat : n \in 0..n /\ n \in -1..n /\ 0 \in 0..n /\ -1 \in -1..n
    OBVIOUS
  <2>2. cursor' \in 0..Len(posts) /\ seed' \in -1..Len(posts)
    BY <1>2, <2>1
  <2> QED  BY <1>0, <1>1, <2>2 DEF TypeOK
<1>4. PosterInv' /\ PageInv' /\ OrderInv' /\ EchoInv'
  BY <1>0 DEF PosterInv, PageInv, OrderInv, EchoInv, Own, InOrderOnce, NeverEcho
<1>5. TsInv'
  <2>1. ASSUME NEW i \in ToSet(postedTs') PROVE i \in 1..Len(posts) /\ (Own(i) \/ i <= seed')
    <3>1. CASE i \in ToSet(postedTs) /\ Own(i)
      BY <3>1 DEF TsInv
    <3>2. CASE i \in ToSet(postedTs) /\ i <= seed
      BY <1>2, <3>2 DEF TsInv
    <3>3. CASE Seed /\ i = Len(posts) /\ i \in 1..Len(posts)
      BY <1>2, <3>3
    <3> QED  BY <1>1, <3>1, <3>2, <3>3 DEF TsInv
  <2> QED  BY <1>0, <2>1 DEF TsInv, Own
<1>6. FloorInv' /\ MarkInv'
  BY <1>0, <1>1, <1>2 DEF FloorInv, MarkInv, NothingOld, Floor
<1>7. CoveredInv'
  BY <1>0, <1>2 DEF CoveredInv, NextUp
<1> QED
  BY <1>3, <1>4, <1>5, <1>6, <1>7
LEMMA OldestFacts ==
  ASSUME TypeOK
  PROVE  Oldest \in 0..Len(posts) /\ (Oldest = cursor \/ (inclusive /\ cursor # 0 /\ Oldest = cursor - 1))
<1>1. cursor \in 0..Len(posts) /\ Len(posts) \in Nat /\ inclusive \in BOOLEAN
  BY DEF TypeOK
<1> QED
  BY <1>1 DEF Oldest

LEMMA PollStep ==
  ASSUME PollerInv, Poll
  PROVE  PollerInv'
<1> USE DEF PollerInv
<1> USE TypeFacts
<1>0. /\ UNCHANGED <<posts, poster, postedTs, postedText, cursor, waiting, delivered, seed, inclusive, old,
                 forgotten>>
      /\ poller = "sleeping" /\ page = <<>>
  BY DEF Poll, rings, past, PageInv
<1>1. PICK newest \in {TRUE, cursor = 0} :
        /\ page' = Chronological(After(Oldest, newest))
        /\ overrun' = IF newest THEN overrun \cup Missed(After(Oldest, newest)) ELSE overrun
        /\ early' = early \cup {m.id : m \in {n \in ToSet(After(Oldest, newest)) : FetchedEarly(n)}}
        /\ poller' = IF After(Oldest, newest) = <<>> THEN "sleeping" ELSE "handling"
  BY DEF Poll
<1>2. PICK start \in Nat, kept \in Nat :
           /\ Oldest <= start /\ start + kept <= Len(posts) /\ kept <= Limit
           /\ ~newest => start = Oldest
           /\ newest => start + kept = Len(posts) /\ (start = Oldest \/ start = Len(posts) - Limit)
           /\ After(Oldest, newest) = <<>> <=> kept = 0
           /\ kept = 0 => Oldest = Len(posts)
           /\ Ids(After(Oldest, newest)) = (start + 1)..(start + kept)
           /\ \A m : m \in ToSet(After(Oldest, newest)) <=>
                \E i \in (start + 1)..(start + kept) : m = [id |-> i, is |-> posts[i]]
           /\ Chronological(After(Oldest, newest)) =
                [k \in 1..kept |-> [id |-> start + k, is |-> posts[start + k]]]
  <2>1. posts \in Seq(Message) /\ Oldest \in 0..Len(posts) /\ newest \in BOOLEAN
    BY <1>1, OldestFacts DEF TypeOK
  <2> QED  BY ONLY <2>1, PageFacts
<1> DEFINE L == Len(posts)
<1>a. /\ Oldest \in 0..L
      /\ Oldest = cursor \/ (inclusive /\ cursor # 0 /\ Oldest = cursor - 1)
      /\ inclusive \in BOOLEAN
  BY OldestFacts DEF TypeOK
<1>3. /\ L \in Nat /\ cursor \in Nat /\ cursor <= L /\ start + kept <= L /\ cursor <= start + 1
      /\ cursor <= start \/ (inclusive /\ cursor = start + 1)
  <2>1. L \in Nat /\ cursor \in Nat /\ cursor <= L
    BY DEF TypeOK
  <2>2. Oldest <= start /\ start + kept <= L
    BY <1>2
  <2> HIDE DEF L
  <2> QED  BY <1>a, <2>1, <2>2
<1>4. \A k \in 1..kept : start + k \in 1..L /\ start + k \in (start + 1)..(start + kept)
  <2> HIDE DEF L
  <2> QED  BY <1>3
<1>5. /\ \A k \in 1..kept : page'[k] = [id |-> start + k, is |-> posts[start + k]]
      /\ DOMAIN page' = 1..kept /\ Len(page') = kept /\ page' \in Seq([id : 1..L, is : Message])
      /\ page' = <<>> <=> kept = 0
  <2> DEFINE Copy == [id : 1..L, is : Message]
             run == [k \in 1..kept |-> [id |-> start + k, is |-> posts[start + k]]]
  <2>1. \A k \in 1..kept : [id |-> start + k, is |-> posts[start + k]] \in Copy
    BY <1>4
  <2>2. \A k \in 1..kept : run[k] = [id |-> start + k, is |-> posts[start + k]]
    OBVIOUS
  <2>3. run = [k \in 1..kept |-> run[k]]
    OBVIOUS
  <2> HIDE DEF Copy, run
  <2>4. run \in Seq(Copy) /\ Len(run) = kept /\ DOMAIN run = 1..kept /\ (run = <<>> <=> kept = 0)
    <3>1. \A k \in 1..kept : run[k] \in Copy
      BY <2>1, <2>2
    <3>2. kept \in Nat
      BY <1>2
    <3> QED  BY ONLY <2>3, <3>1, <3>2, RunSeq
  <2>5. page' = run
    BY <1>1, <1>2 DEF run
  <2> QED  BY <2>2, <2>4, <2>5 DEF Copy
<1>6. ASSUME NEW k \in 1..kept PROVE page'[k].id = start + k /\ page'[k].is = posts[start + k]
  <2>1. page'[k] = [id |-> start + k, is |-> posts[start + k]]
    BY <1>5
  <2> QED  BY <2>1
<1>7. kept # 0 => /\ 1 \in 1..kept /\ page'[1].id = start + 1
                  /\ cursor < start + 1 \/ (inclusive /\ cursor = start + 1)
  <2>1. kept # 0 => 1 \in 1..kept
    OBVIOUS
  <2>2. cursor < start + 1 \/ (inclusive /\ cursor = start + 1)
    BY <1>3
  <2> QED  BY <1>6, <2>1, <2>2
<1>8. TypeOK'
  <2>1. Missed(After(Oldest, newest)) \subseteq 1..L
    <3> HIDE DEF L
    <3>1. (cursor + 1)..L \subseteq 1..L
      BY <1>3
    <3> QED  BY <3>1 DEF Missed, L
  <2>2. ASSUME NEW m \in ToSet(After(Oldest, newest)) PROVE m.id \in 1..L
    <3>1. PICK i \in (start + 1)..(start + kept) : m = [id |-> i, is |-> posts[i]]
      BY <1>2
    <3>2. i \in 1..L
      <4> HIDE DEF L
      <4> QED  BY <1>3
    <3> QED  BY <3>1, <3>2
  <2>3. overrun' \subseteq 1..L /\ early' \subseteq 1..L
    BY <1>1, <2>1, <2>2 DEF TypeOK
  <2>4. poller' \in {"seeding", "sleeping", "handling", "sending", "stopped"}
    BY <1>1
  <2> QED  BY <1>0, <1>2, <1>5, <2>3, <2>4 DEF TypeOK
<1>9. PosterInv' /\ TsInv'
  BY <1>0 DEF PosterInv, TsInv, Own
<1>10. PageInv'
  <2>1. ASSUME NEW k \in 1..kept PROVE page'[k].id = page'[1].id + (k - 1)
    <3>1. page'[k].id = start + k /\ page'[1].id = start + 1
      BY <1>6, <1>7
    <3> QED  BY <3>1
  <2>2. \A k \in DOMAIN page' :
           /\ page'[k].is.kind \in OwnKinds <=> posts'[page'[k].id].kind \in OwnKinds
           /\ page'[k].is = posts'[page'[k].id]
    <3>1. posts' = posts
      BY <1>0
    <3> QED  BY <1>5, <1>6, <3>1
  <2>3. poller' \in {"handling", "sending"} <=> page' # <<>>
    BY <1>1, <1>2, <1>5
  <2>4. poller' = "handling" => cursor' < page'[1].id \/ (inclusive' /\ cursor' = page'[1].id)
    BY <1>0, <1>1, <1>2, <1>3, <1>7
  <2>5. poller' # "sending"
    BY <1>1
  <2> QED  BY <1>5, <2>1, <2>2, <2>3, <2>4, <2>5 DEF PageInv, Own
<1>11. OrderInv'
  BY <1>0, <1>1 DEF OrderInv, InOrderOnce
<1>12. FloorInv' /\ MarkInv'
  <2>1. Floor' = Floor /\ Floor \in Int
    BY <1>0 DEF Floor, TypeOK
  <2>2. start >= Floor \/ (inclusive /\ seed # -1 /\ start + 1 = seed)
    <3>1. CASE seed # -1
      <4>1. seed \in Int /\ cursor >= seed /\ Floor = seed
        BY <3>1 DEF FloorInv, TypeOK, Floor
      <4> HIDE DEF L
      <4> QED  BY <1>3, <3>1, <4>1
    <3>2. CASE seed = -1
      <4>1. old \in Nat /\ old <= L /\ Limit \in Nat /\ Floor = old - Limit
        BY <3>2 DEF Floor, TypeOK
      <4>2. CASE cursor = 0
        <5>1. newest
          BY <1>1, <4>2
        <5>2. start >= L - Limit
          <6>1. start + kept = L /\ kept <= Limit
            BY <1>2, <5>1 DEF L
          <6> HIDE DEF L
          <6> QED  BY <1>3, <4>1, <6>1
        <5> HIDE DEF L
        <5> QED  BY <1>3, <4>1, <5>2
      <4>3. CASE cursor > Floor
        <5> HIDE DEF L
        <5> QED  BY <1>3, <2>1, <4>3
      <4> QED  BY <3>2, <4>2, <4>3 DEF FloorInv
    <3> QED  BY <3>1, <3>2
  <2>3. ASSUME NEW k \in 1..kept
        PROVE  start + k > Floor \/ (inclusive /\ seed # -1 /\ start + k = seed)
    <3>1. CASE start >= Floor
      BY <2>1, <3>1
    <3>2. CASE inclusive /\ seed # -1 /\ start + 1 = seed
      <4>1. Floor = seed
        BY <3>2 DEF Floor
      <4> QED  BY <2>1, <3>2, <4>1
    <3> QED  BY <2>2, <3>1, <3>2
  <2>4. \A k \in DOMAIN page' :
          page'[k].id > Floor' \/ (inclusive' /\ seed' # -1 /\ page'[k].id = seed')
    <3>1. DOMAIN page' = 1..kept /\ inclusive' = inclusive /\ seed' = seed
      BY <1>0, <1>5
    <3>2. \A k \in 1..kept : page'[k].id = start + k
      BY <1>6
    <3> QED  BY ONLY <2>1, <2>3, <3>1, <3>2
  <2>5. poller' # "seeding" /\ poller' # "sending"
    BY <1>1
  <2> QED  BY <1>0, <2>1, <2>4, <2>5 DEF FloorInv, MarkInv, NothingOld
<1>13. CoveredInv'
  <2>1. ASSUME NEW i \in 1..L, i < NextUp', i > cursor PROVE i \in overrun'
    <3>1. CASE kept = 0
      <4>1. Oldest = L
        BY <1>2, <3>1
      <4> HIDE DEF L
      <4> QED  BY <1>3, <1>a, <2>1, <4>1
    <3>2. CASE kept # 0
      <4>1. NextUp' = start + 1
        BY <1>5, <1>7, <3>2 DEF NextUp
      <4>2. start # Oldest /\ i \in (cursor + 1)..L /\ i \notin (start + 1)..(start + kept)
        <5> HIDE DEF L
        <5> QED  BY <1>3, <1>a, <2>1, <4>1
      <4>3. newest
        BY <1>2, <4>2
      <4> QED  BY <1>1, <1>2, <4>2, <4>3 DEF Missed
    <3> QED  BY <3>1, <3>2
  <2>2. ASSUME NEW i \in 1..L, i <= cursor PROVE i < NextUp
    <3> HIDE DEF L
    <3> QED  BY <1>0, <1>3, <2>2 DEF NextUp
  <2>3. overrun \subseteq overrun' /\ \A i \in 1..L : i <= cursor \/ i > cursor
    <3>1. \A i \in 1..L : i <= cursor \/ i > cursor
      <4> HIDE DEF L
      <4> QED  BY <1>3
    <3> QED  BY <1>1, <3>1
  <2> QED  BY <1>0, <1>1, <2>1, <2>2, <2>3 DEF CoveredInv
<1>14. EchoInv'
  <2>1. early \subseteq early'
    BY <1>1
  <2>2. ASSUME NEW k \in 1..kept, page'[k].is.kind = "altered"
        PROVE  page'[k].id \in early' \cup forgotten' \cup ToSet(postedTs')
    <3>1. page'[k] \in ToSet(After(Oldest, newest))
      BY <1>2, <1>4, <1>5, ZenonT(40)
    <3>2. FetchedEarly(page'[k]) => page'[k].id \in early'
      BY <1>1, <3>1
    <3>3. ~FetchedEarly(page'[k]) => Contains(postedTs, page'[k].id)
      BY <2>2 DEF FetchedEarly
    <3>4. Contains(postedTs, page'[k].id) => page'[k].id \in ToSet(postedTs)
      BY SetOfSeq, SMTT(40) DEF TypeOK
    <3> QED  BY <1>0, <3>2, <3>3, <3>4
  <2>3. poller' # "sending"
    BY <1>1
  <2> QED  BY <1>0, <1>5, <2>1, <2>2, <2>3 DEF EchoInv, NeverEcho, Own
<1> QED
  BY <1>8, <1>9, <1>10, <1>11, <1>12, <1>13, <1>14
\* The rest of the page begins with the message after the first.
LEMMA RestOfPage ==
  ASSUME TypeOK, PageInv, page # <<>>
  PROVE  /\ 1 \in 1..Len(page) /\ Head(page) = page[1] /\ page[1].id \in 1..Len(posts)
         /\ page[1].is \in Message
         /\ Tail(page) \in Seq([id : 1..Len(posts), is : Message]) /\ Len(Tail(page)) <= Limit
         /\ \A k \in DOMAIN Tail(page) :
              /\ k + 1 \in DOMAIN page /\ Tail(page)[k] = page[k + 1]
              /\ Tail(page)[k].id = page[1].id + k
              /\ Tail(page)[k].id = Tail(page)[1].id + (k - 1)
         /\ Tail(page) # <<>> => Tail(page)[1].id = page[1].id + 1
<1> USE TypeFacts
<1> DEFINE Copy == [id : 1..Len(posts), is : Message]
           n == Len(page)
           rest == Tail(page)
<1>1. page \in Seq(Copy) /\ n <= Limit
  BY DEF TypeOK
<1>2. \A k \in 1..n : page[k] \in Copy
  OBVIOUS
<1>3. \A k \in 1..n : page[k].id = page[1].id + (k - 1) /\ page[k].id \in 1..Len(posts) /\ page[k].is \in Message
  BY <1>2 DEF PageInv
<1> HIDE DEF Copy
<1>4. /\ rest \in Seq(Copy) /\ Len(rest) = n - 1 /\ DOMAIN rest = 1..(n - 1) /\ n \in Nat /\ n # 0
      /\ \A k \in 1..(n - 1) : rest[k] = page[k + 1]
      /\ Head(page) = page[1]
      /\ rest # <<>> => n - 1 # 0
  BY <1>1, SMTT(40)
<1> HIDE DEF rest, n
<1>5. 1 \in 1..n /\ page[1].id \in Nat /\ n - 1 <= Limit
  BY <1>1, <1>3, <1>4, SMTT(40)
<1>6. ASSUME NEW k \in 1..(n - 1)
      PROVE  /\ k + 1 \in 1..n /\ rest[k] = page[k + 1] /\ rest[k].id = page[1].id + k
             /\ 1 \in 1..(n - 1) /\ rest[1].id = page[1].id + 1
             /\ rest[k].id = rest[1].id + (k - 1)
  <2>1. 1 \in 1..(n - 1)
    BY <1>4
  <2>2. ASSUME NEW j \in 1..(n - 1)
        PROVE  j + 1 \in 1..n /\ rest[j] = page[j + 1] /\ rest[j].id = page[1].id + j
    <3>1. j + 1 \in 1..n /\ (j + 1) - 1 = j
      BY <1>4
    <3>2. page[j + 1].id = page[1].id + ((j + 1) - 1)
      BY <1>3, <3>1
    <3>3. rest[j] = page[j + 1]
      BY <1>4
    <3> QED  BY <3>1, <3>2, <3>3
  <2>3. page[1].id + k = (page[1].id + 1) + (k - 1)
    BY <1>5
  <2> QED  BY <2>1, <2>2, <2>3
<1>7. rest # <<>> => rest[1].id = page[1].id + 1
  BY <1>4, <1>6
<1> QED
  BY <1>3, <1>4, <1>5, <1>6, <1>7 DEF rest, n, Copy

\* What passes the filters is a user's, or own and altered with an unknown ts;
\* a user's message from after the seed always passes.
LEMMA FilterFacts ==
  ASSUME TypeOK, TsInv, PageInv, EchoInv, page # <<>>
  PROVE  /\ ~Filtered(page[1]) /\ page[1].is.kind \in OwnKinds => page[1].id \in early \cup forgotten
         /\ Filtered(page[1]) /\ posts[page[1].id].kind = "user" => page[1].id <= seed
<1>1. /\ 1 \in DOMAIN page /\ page[1].id \in 1..Len(posts)
  BY RestOfPage, TypeFacts
<1>2. Contains(postedTs, page[1].id) <=> page[1].id \in ToSet(postedTs)
  BY SetOfSeq DEF TypeOK
<1>3. ASSUME ~Filtered(page[1]), page[1].is.kind \in OwnKinds PROVE page[1].id \in early \cup forgotten
  <2>1. page[1].is.kind = "altered" /\ page[1].id \notin ToSet(postedTs)
    BY <1>2, <1>3 DEF Filtered, HasMarker, OwnKinds
  <2> QED  BY <1>1, <2>1 DEF EchoInv
<1>4. ASSUME Filtered(page[1]), posts[page[1].id].kind = "user" PROVE page[1].id <= seed
  <2>1. ~Own(page[1].id)
    BY <1>4 DEF Own, OwnKinds
  <2>2. page[1].is.kind = "user"
    BY <1>1, <1>4, <2>1 DEF PageInv
  <2>3. page[1].id \in ToSet(postedTs)
    BY <1>2, <1>4, <2>2 DEF Filtered, HasMarker
  <2> QED  BY <2>1, <2>3 DEF TsInv
<1> QED
  BY <1>3, <1>4

LEMMA HandleStep ==
  ASSUME PollerInv, Handle
  PROVE  PollerInv'
<1> USE DEF PollerInv
<1>0. /\ UNCHANGED <<posts, poster, postedTs, postedText, waiting, delivered, seed, overrun, early,
                 inclusive, old, forgotten>>
      /\ poller = "handling" /\ page # <<>>
  BY DEF Handle, rings, fetched, past, PageInv
<1> DEFINE first == page[1].id
           rest == Tail(page)
           L == Len(posts)
<1>1. /\ 1 \in DOMAIN page /\ Head(page) = page[1] /\ first \in 1..L /\ L \in Nat /\ cursor \in Nat
      /\ rest \in Seq([id : 1..L, is : Message]) /\ Len(rest) <= Limit
      /\ \A k \in DOMAIN rest : /\ k + 1 \in DOMAIN page /\ rest[k] = page[k + 1]
                                /\ rest[k].id = first + k
                                /\ rest[k].id = rest[1].id + (k - 1)
      /\ rest # <<>> => rest[1].id = first + 1
  BY <1>0, RestOfPage, TypeFacts
<1>2. first > cursor \/ (inclusive /\ first = cursor)
  BY <1>0 DEF PageInv
<1>3. /\ cursor' = first
      /\ \/ /\ Filtered(page[1]) /\ page' = rest
            /\ poller' = IF rest = <<>> THEN "sleeping" ELSE "handling"
         \/ ~Filtered(page[1]) /\ page' = page /\ poller' = "sending"
  BY <1>1, <1>2 DEF Handle, Advanced
<1> HIDE DEF rest
<1>4. TypeOK'
  <2>1. page' \in Seq([id : 1..L, is : Message]) /\ Len(page') <= Limit
    BY <1>1, <1>3 DEF TypeOK
  <2>2. cursor' \in 0..L
    <3> HIDE DEF L, first
    <3> QED  BY <1>1, <1>3
  <2>3. poller' \in {"seeding", "sleeping", "handling", "sending", "stopped"}
    BY <1>3
  <2> QED  BY <1>0, <2>1, <2>2, <2>3 DEF TypeOK
<1>5. PosterInv' /\ TsInv'
  BY <1>0 DEF PosterInv, TsInv, Own
<1>6. PageInv'
  <2> DEFINE Copies(q) == \A k \in DOMAIN q : /\ q[k].id = q[1].id + (k - 1)
                                              /\ q[k].is.kind \in OwnKinds <=> Own(q[k].id)
                                              /\ ~Own(q[k].id) => q[k].is = posts[q[k].id]
  <2>a. Copies(page) /\ Copies(rest)
    BY <1>1, SMTT(40) DEF PageInv
  <2>b. Copies(page') => \A k \in DOMAIN page' :
          /\ page'[k].id = page'[1].id + (k - 1)
          /\ page'[k].is.kind \in OwnKinds <=> posts'[page'[k].id].kind \in OwnKinds
          /\ posts'[page'[k].id].kind \notin OwnKinds => page'[k].is = posts'[page'[k].id]
    <3>1. posts' = posts
      BY <1>0
    <3> QED  BY ONLY <3>1 DEF Own
  <2>1. CASE page' = page /\ poller' = "sending"
    BY <1>0, <1>3, <2>a, <2>b, <2>1 DEF PageInv, Own
  <2>2. CASE page' = rest /\ poller' = IF rest = <<>> THEN "sleeping" ELSE "handling"
    <3>1. rest # <<>> => cursor' < rest[1].id
      <4> HIDE DEF first, L
      <4> QED  BY <1>1, <1>3
    <3> HIDE DEF Copies
    <3> QED  BY <2>a, <2>b, <2>2, <3>1 DEF PageInv, Own
  <2> QED  BY <1>3, <2>1, <2>2
<1>7. OrderInv'
  <2>1. \A i \in ToSet(delivered) : i <= cursor /\ i \in Nat
    BY <1>0, SetOfSeq, SMTT(40) DEF OrderInv, TypeOK
  <2>2. \A i \in ToSet(delivered) : i <= cursor' /\ (i < cursor' \/ inclusive)
    <3> HIDE DEF first, L
    <3> QED  BY <1>1, <1>2, <1>3, <2>1
  <2> QED  BY <1>0, <2>2 DEF OrderInv, InOrderOnce
<1>8. FloorInv' /\ MarkInv'
  <2>1. /\ Floor' = Floor /\ Floor \in Int
        /\ first > Floor \/ (inclusive /\ seed # -1 /\ first = seed /\ Floor = seed)
    BY <1>0, <1>1, CapAssumption DEF FloorInv, Floor, TypeOK
  <2>2. (seed # -1 => cursor' >= seed) /\ (seed = -1 => cursor' > Floor)
    <3>1. seed # -1 => Floor = seed
      BY DEF Floor
    <3> HIDE DEF first, L
    <3> QED  BY <1>1, <1>3, <2>1, <3>1
  <2>3. \A k \in DOMAIN page' : page'[k].id > Floor \/ (inclusive /\ seed # -1 /\ page'[k].id = seed)
    <3>1. \A k \in DOMAIN page : page[k].id > Floor \/ (inclusive /\ seed # -1 /\ page[k].id = seed)
      BY DEF FloorInv
    <3>2. \A k \in DOMAIN rest : k + 1 \in DOMAIN page /\ rest[k] = page[k + 1]
      BY <1>1
    <3>3. page' = page \/ page' = rest
      BY <1>3
    <3> QED  BY ONLY <3>1, <3>2, <3>3
  <2>4. poller' = "sending" => page'[1].id > Floor \/ (inclusive /\ page'[1].id = seed /\ seed \in forgotten)
    <3>1. CASE ~Filtered(page[1]) /\ page' = page /\ first = seed
      <4>1. first \notin ToSet(postedTs)
        <5>1. Contains(postedTs, first) <=> first \in ToSet(postedTs)
          BY SetOfSeq DEF TypeOK
        <5> QED  BY <3>1, <5>1 DEF Filtered
      <4>2. seed \in ToSet(postedTs) \cup forgotten
        <5>1. poller # "seeding" /\ first \in 1..L
          BY <1>0, <1>1
        <5>2. seed > 0
          <6> HIDE DEF first, L
          <6> QED  BY <1>1, <3>1, <5>1
        <5> QED  BY <5>1, <5>2 DEF MarkInv
      <4> QED  BY <2>1, <3>1, <4>1, <4>2
    <3>2. CASE page' = page /\ first > Floor
      BY <3>2
    <3>3. poller' = "sending" => page' = page /\ ~Filtered(page[1])
      BY <1>3
    <3> QED  BY <2>1, <3>1, <3>2, <3>3
  <2>5. poller' # "seeding" /\ poller # "seeding"
    BY <1>0, <1>3
  <2> QED  BY <1>0, <2>1, <2>2, <2>3, <2>4, <2>5 DEF FloorInv, MarkInv, NothingOld
<1>9. CoveredInv'
  <2>1. CASE ~Filtered(page[1]) /\ page' = page /\ poller' = "sending"
    BY <1>0, <2>1 DEF CoveredInv, NextUp
  <2>2. CASE Filtered(page[1]) /\ page' = rest
    <3>1. NextUp' = first + 1 /\ NextUp = first
      BY <1>0, <1>1, <1>3, <2>2 DEF NextUp
    <3>2. \A i \in 1..L : i < first + 1 => i < first \/ i = first
      <4> HIDE DEF first, L
      <4> QED  BY <1>1
    <3>3. posts[first].kind = "user" => first <= seed
      BY <1>0, <2>2, FilterFacts
    <3>4. ~(first <= seed /\ first > seed)
      <4>1. seed \in Int
        BY DEF TypeOK
      <4> HIDE DEF first
      <4> QED  BY <1>1, <4>1
    <3> QED  BY <1>0, <3>1, <3>2, <3>3, <3>4 DEF CoveredInv
  <2> QED  BY <1>3, <2>1, <2>2
<1>10. EchoInv'
  <2>1. CASE ~Filtered(page[1]) /\ page' = page /\ poller' = "sending"
    BY <1>0, <2>1, FilterFacts DEF EchoInv, NeverEcho, Own
  <2>2. CASE page' = rest /\ poller' # "sending"
    <3>1. \A k \in DOMAIN page' :
            page'[k].is.kind = "altered" => page'[k].id \in early \cup forgotten \cup ToSet(postedTs)
      <4>1. ASSUME NEW k \in DOMAIN rest, rest[k].is.kind = "altered"
            PROVE  rest[k].id \in early \cup forgotten \cup ToSet(postedTs)
        <5>1. k + 1 \in DOMAIN page /\ rest[k] = page[k + 1]
          BY <1>1
        <5> QED  BY <4>1, <5>1 DEF EchoInv
      <4> QED  BY <2>2, <4>1
    <3> QED  BY <1>0, <2>2, <3>1 DEF EchoInv, NeverEcho, Own
  <2> QED  BY <1>3, <2>1, <2>2
<1> QED
  BY <1>4, <1>5, <1>6, <1>7, <1>8, <1>9, <1>10

\* A message at the cursor is recorded after those before it, or once more.
LEMMA RecordedFacts ==
  ASSUME TypeOK, NEW first \in 1..Len(posts), delivered' = Recorded(first), first = cursor,
         poller = "sending", UNCHANGED inclusive
  PROVE  /\ delivered' \in Seq(1..Len(posts)) /\ ToSet(delivered') = ToSet(delivered) \cup {first}
         /\ OrderInv => InOrderOnce'
<1> DEFINE S == 1..Len(posts)
           D == Len(delivered)
           longer == Append(delivered, first)
<1>1. delivered \in Seq(S) /\ first \in S
  BY DEF TypeOK
<1>2. /\ D \in Nat /\ DOMAIN delivered = 1..D /\ ToSet(delivered) \subseteq S
      /\ \A i \in 1..D : delivered[i] \in ToSet(delivered)
      /\ Contains(delivered, first) <=> first \in ToSet(delivered)
  <2> HIDE DEF S
  <2> QED  BY <1>1, SetOfSeq
<1>3. CASE Contains(delivered, first) /\ delivered' = delivered
  BY <1>1, <1>2, <1>3 DEF OrderInv, InOrderOnce
<1>4. CASE delivered' = longer
  <2>1. /\ longer \in Seq(S) /\ DOMAIN longer = 1..(D + 1) /\ longer[D + 1] = first
        /\ \A i \in 1..D : longer[i] = delivered[i]
        /\ ToSet(longer) = ToSet(delivered) \cup {first}
        /\ \A i \in DOMAIN longer : i \in 1..D \/ i = D + 1
    <3> HIDE DEF S
    <3> QED  BY <1>1, AppendedFacts
  <2>2. ASSUME OrderInv, NEW i \in 1..(D + 1), NEW j \in 1..(D + 1), i < j
        PROVE  longer[i] < longer[j] \/ (inclusive /\ longer[i] = longer[j])
    <3>1. i \in 1..D
      BY <1>2, <2>2
    <3>2. CASE j \in 1..D
      BY <1>2, <2>1, <2>2, <3>1, <3>2 DEF OrderInv, InOrderOnce
    <3>3. CASE j = D + 1
      <4>1. delivered[i] \in ToSet(delivered) /\ delivered[i] \in S /\ longer[i] = delivered[i] /\ longer[j] = first
        BY <1>2, <2>1, <3>1, <3>3
      <4>2. delivered[i] <= cursor /\ (delivered[i] < cursor \/ inclusive)
        BY <2>2, <4>1 DEF OrderInv
      <4>3. \A a, b \in Nat : a <= b => a < b \/ a = b
        OBVIOUS
      <4>4. delivered[i] \in Nat /\ first \in Nat
        BY <4>1
      <4> QED  BY <4>1, <4>2, <4>3, <4>4
    <3> QED  BY <1>2, <3>2, <3>3
  <2>3. OrderInv => InOrderOnce'
    BY <1>4, <2>1, <2>2 DEF InOrderOnce
  <2> QED  BY <1>4, <2>1, <2>3
<1>5. (Contains(delivered, first) /\ delivered' = delivered) \/ delivered' = longer
  BY DEF Recorded
<1> QED
  BY <1>3, <1>4, <1>5

LEMMA SendStep ==
  ASSUME PollerInv, Send
  PROVE  PollerInv'
<1> USE DEF PollerInv
<1>0. /\ UNCHANGED <<posts, poster, postedTs, postedText, cursor, seed, overrun, early,
                 inclusive, old, forgotten>>
      /\ poller = "sending" /\ page # <<>>
  BY DEF Send, rings, fetched, past, PageInv
<1> DEFINE first == page[1].id
           rest == Tail(page)
           L == Len(posts)
<1>1. /\ 1 \in DOMAIN page /\ Head(page) = page[1] /\ first \in 1..L /\ L \in Nat /\ cursor \in Nat
      /\ rest \in Seq([id : 1..L, is : Message]) /\ Len(rest) <= Limit
      /\ \A k \in DOMAIN rest : /\ k + 1 \in DOMAIN page /\ rest[k] = page[k + 1]
                                /\ rest[k].id = first + k
                                /\ rest[k].id = rest[1].id + (k - 1)
      /\ rest # <<>> => rest[1].id = first + 1
  BY <1>0, RestOfPage, TypeFacts
<1>2. first = cursor
  BY <1>0 DEF PageInv
<1>3. /\ page' = rest /\ delivered' = Recorded(first)
      /\ poller' = IF rest = <<>> THEN "sleeping" ELSE "handling"
      /\ waiting' = waiting + 1 /\ waiting < ChanCap
  BY <1>1 DEF Send
<1>4. /\ delivered' \in Seq(1..L) /\ ToSet(delivered') = ToSet(delivered) \cup {first}
      /\ OrderInv => InOrderOnce'
  BY <1>0, <1>1, <1>2, <1>3, RecordedFacts
<1> HIDE DEF rest
<1>5. TypeOK'
  <2>1. waiting' \in 0..ChanCap
    BY <1>3, CapAssumption DEF TypeOK
  <2>2. poller' \in {"seeding", "sleeping", "handling", "sending", "stopped"}
    BY <1>3
  <2> QED  BY <1>0, <1>1, <1>3, <1>4, <2>1, <2>2 DEF TypeOK
<1>6. PosterInv' /\ TsInv'
  BY <1>0 DEF PosterInv, TsInv, Own
<1>7. PageInv'
  <2> DEFINE Copies(q) == \A k \in DOMAIN q : /\ q[k].id = q[1].id + (k - 1)
                                              /\ q[k].is.kind \in OwnKinds <=> Own(q[k].id)
                                              /\ ~Own(q[k].id) => q[k].is = posts[q[k].id]
  <2>a. Copies(page) /\ Copies(rest)
    BY <1>1, SMTT(40) DEF PageInv
  <2>b. Copies(page') => \A k \in DOMAIN page' :
          /\ page'[k].id = page'[1].id + (k - 1)
          /\ page'[k].is.kind \in OwnKinds <=> posts'[page'[k].id].kind \in OwnKinds
          /\ posts'[page'[k].id].kind \notin OwnKinds => page'[k].is = posts'[page'[k].id]
    <3>1. posts' = posts
      BY <1>0
    <3> QED  BY ONLY <3>1 DEF Own
  <2>1. rest # <<>> => cursor' < rest[1].id
    <3>1. cursor' = cursor /\ cursor \in Nat /\ first = cursor /\ (rest # <<>> => rest[1].id = first + 1)
      BY <1>0, <1>1, <1>2
    <3> HIDE DEF first
    <3> QED  BY ONLY <3>1
  <2> HIDE DEF Copies
  <2> QED  BY <1>3, <2>a, <2>b, <2>1 DEF PageInv, Own
<1>8. OrderInv'
  <2>1. \A i \in ToSet(delivered') : i <= cursor'
    <3>1. first <= cursor'
      <4> HIDE DEF first, L
      <4> QED  BY <1>0, <1>1, <1>2
    <3> QED  BY <1>0, <1>4, <3>1 DEF OrderInv
  <2>2. poller' # "sending"
    BY <1>3
  <2> QED  BY <1>4, <2>1, <2>2 DEF OrderInv
<1>9. FloorInv' /\ MarkInv'
  <2>1. first > Floor \/ (inclusive /\ first = seed /\ seed \in forgotten)
    BY <1>0, <1>1 DEF FloorInv
  <2>2. \A k \in DOMAIN page' : page'[k].id > Floor \/ (inclusive /\ seed # -1 /\ page'[k].id = seed)
    <3>1. \A k \in DOMAIN page : page[k].id > Floor \/ (inclusive /\ seed # -1 /\ page[k].id = seed)
      BY DEF FloorInv
    <3>2. \A k \in DOMAIN rest : k + 1 \in DOMAIN page /\ rest[k] = page[k + 1]
      BY <1>1
    <3> QED  BY ONLY <1>3, <3>1, <3>2
  <2>3. seed \in forgotten => seed # -1
    BY DEF TypeOK
  <2>4. NothingOld'
    BY <1>0, <1>4, <2>1, <2>3 DEF FloorInv, NothingOld, Floor
  <2>5. Floor' = Floor /\ poller' # "sending" /\ poller' # "seeding"
    BY <1>0, <1>3 DEF Floor
  <2> QED  BY <1>0, <2>2, <2>4, <2>5 DEF FloorInv, MarkInv
<1>10. CoveredInv'
  <2>1. NextUp' = first + 1 /\ NextUp = first
    BY <1>0, <1>1, <1>2, <1>3 DEF NextUp
  <2>2. \A i \in 1..L : i < first + 1 => i < first \/ i = first
    <3> HIDE DEF first, L
    <3> QED  BY <1>1
  <2> QED  BY <1>0, <1>4, <2>1, <2>2 DEF CoveredInv
<1>11. EchoInv'
  <2>1. Own(first) => first \in early \cup forgotten
    BY <1>0, <1>1 DEF EchoInv, PageInv
  <2>2. \A k \in DOMAIN page' :
          page'[k].is.kind = "altered" => page'[k].id \in early \cup forgotten \cup ToSet(postedTs)
    <3>1. ASSUME NEW k \in DOMAIN rest, rest[k].is.kind = "altered"
          PROVE  rest[k].id \in early \cup forgotten \cup ToSet(postedTs)
      <4>1. k + 1 \in DOMAIN page /\ rest[k] = page[k + 1]
        BY <1>1
      <4> QED  BY <3>1, <4>1 DEF EchoInv
    <3> QED  BY <1>3, <3>1
  <2>3. \A i \in ToSet(delivered') : Own(i) => i \in early \cup forgotten
    BY <1>4, <2>1 DEF EchoInv, NeverEcho
  <2> QED  BY <1>0, <1>3, <2>2, <2>3 DEF EchoInv, NeverEcho, Own
<1> QED
  BY <1>5, <1>6, <1>7, <1>8, <1>9, <1>10, <1>11

LEMMA SubscriberStep ==
  ASSUME PollerInv, SubscriberGone \/ Take
  PROVE  PollerInv'
<1> USE DEF PollerInv
<1>0. /\ UNCHANGED <<posts, poster, postedTs, postedText, cursor, delivered, seed, overrun, early,
                 inclusive, old, forgotten>>
      /\ \/ poller' = "stopped" /\ page' = <<>> /\ DOMAIN page' = {}
         \/ poller' = poller /\ page' = page
  BY DEF SubscriberGone, Take, rings, fetched, past
<1>1. TypeOK'
  <2>1. waiting' \in 0..ChanCap
    BY CapAssumption, SMTT(40) DEF TypeOK, SubscriberGone, Take
  <2>2. page' \in Seq([id : 1..Len(posts), is : Message]) /\ Len(page') <= Limit
    <3>1. CASE page' = <<>>
      <4>1. Len(page') = 0 /\ 0 <= Limit
        BY <3>1, CapAssumption
      <4>2. page' \in Seq([id : 1..Len(posts), is : Message])
        BY <3>1
      <4> QED  BY <4>1, <4>2
    <3>2. CASE page' = page
      BY <3>2 DEF TypeOK
    <3> QED  BY <1>0, <3>1, <3>2
  <2> QED  BY <1>0, <2>1, <2>2 DEF TypeOK
<1>2. PosterInv' /\ TsInv' /\ PageInv'
  BY <1>0 DEF PosterInv, TsInv, PageInv, Own
<1>3. OrderInv' /\ FloorInv' /\ MarkInv'
  <2>1. poller' # "seeding" => poller # "seeding" \/ poller' = "stopped"
    BY <1>0
  <2>2. poller' = "stopped" => poller # "seeding"
    <3>1. SubscriberGone => poller = "sending"
      BY DEF SubscriberGone
    <3>2. Take => poller' = poller
      BY DEF Take
    <3>3. poller = "stopped" => poller # "seeding"
      OBVIOUS
    <3> QED  BY <3>1, <3>2, <3>3
  <2> QED  BY <1>0, <2>1, <2>2 DEF OrderInv, FloorInv, MarkInv, InOrderOnce, NothingOld, Floor
<1>4. CoveredInv' /\ EchoInv'
  BY <1>0 DEF CoveredInv, EchoInv, NeverEcho, NextUp, Own
<1> QED
  BY <1>1, <1>2, <1>3, <1>4
-----------------------------------------------------------------------------
(* The theorems.                                                            *)

LEMMA PollerInit == Init => PollerInv
<1> SUFFICES ASSUME Init PROVE PollerInv
  OBVIOUS
<1>1. /\ page = <<>> /\ DOMAIN page = {} /\ delivered = <<>> /\ ToSet(delivered) = {}
      /\ postedTs = <<>> /\ ToSet(postedTs) = {} /\ IsInjective(postedTs) /\ IsInjective(postedText)
      /\ DOMAIN delivered = {}
  BY DEF Init, ToSet, IsInjective
<1>2. old \in Nat /\ old <= MaxOld
  BY BoundAssumption DEF Init
<1>3. posts \in Seq(Message) /\ Len(posts) = old
  <2>1. UserMessage("user") \in Message
    BY DEF UserMessage, Message, UserKinds
  <2>2. posts = [i \in 1..old |-> posts[i]] /\ \A i \in 1..old : posts[i] \in Message
    BY <2>1 DEF Init
  <2> QED  BY <1>2, <2>2, RunSeq
<1>4. MaxOld <= MaxPosts /\ MaxPosts \in Nat /\ MaxOld \in Nat
  BY BoundAssumption
<1>5. TypeOK
  <2>1. Len(posts) <= MaxPosts /\ Len(posts) \in Nat
    BY <1>2, <1>3, <1>4
  <2>2. poster \in [Callers -> Call]
    BY IdleCall DEF Init
  <2>3. old \in 0..Len(posts) /\ 0 \in -1..Len(posts) /\ 0 \in 0..Len(posts)
    BY <1>2, <1>3
  <2>4. /\ Len(page) = 0 /\ Len(postedTs) = 0 /\ Len(postedText) = 0
        /\ page \in Seq([id : 1..Len(posts), is : Message]) /\ delivered \in Seq(1..Len(posts))
        /\ postedTs \in Seq(1..MaxPosts) /\ postedText \in Seq(Texts)
    BY <1>1 DEF Init
  <2> QED  BY <1>1, <1>3, <2>1, <2>2, <2>3, <2>4, CapAssumption DEF Init, TypeOK
<1>6. PosterInv /\ TsInv /\ PageInv /\ OrderInv /\ FloorInv /\ MarkInv /\ EchoInv
  BY <1>1 DEF Init, Idle, PosterInv, TsInv, PageInv, OrderInv, FloorInv, MarkInv, EchoInv, InOrderOnce,
              NothingOld, NeverEcho
<1>7. CoveredInv
  BY <1>1 DEF Init, CoveredInv, NextUp
<1> QED
  BY <1>5, <1>6, <1>7 DEF PollerInv

LEMMA PollerStep == PollerInv /\ [Next]_vars => PollerInv'
<1> SUFFICES ASSUME PollerInv, [Next]_vars PROVE PollerInv'
  OBVIOUS
<1>1. CASE UNCHANGED vars
  BY <1>1 DEF vars, rings, reading, fetched, past, PollerInv, TypeOK, PosterInv, TsInv, PageInv, OrderInv,
              FloorInv, MarkInv, CoveredInv, EchoInv, InOrderOnce, NothingOld, NeverEcho, Floor, NextUp, Own
<1>2. CASE Bridge
  <2>1. PICK c \in Callers : \/ StartPost(c) \/ StartEdit(c) \/ Store(c) \/ StoreEdit(c)
                             \/ Answered(c) \/ CallFails(c)
    BY <1>2 DEF Bridge
  <2> QED  BY <2>1, ChannelStep, CallStep, AnsweredStep
<1>3. CASE UserWrites
  BY <1>3, ChannelStep
<1> QED
  BY <1>1, <1>2, <1>3, SeedStep, PollStep, HandleStep, SendStep, SubscriberStep DEF Next, Loop

LEMMA PollerAlways == Spec => []PollerInv
  BY PollerInit, PollerStep, PTL DEF Spec

\* The polling loop of subscribe (client.rs): what users write reaches the
\* bridge in order, and once if Slack's `oldest` is exclusive; if it is inclusive,
\* a message is only repeated before any later one comes.  Nothing is passed over
\* that did not fall out of a full page, and nothing from before the subscription
\* is replayed, except for one page of it when the seed failed, and an inclusive
\* `oldest` may replay the seed once the ring forgot it.
THEOREM RelaysFaithfully == Spec => []RelayInv
<1>1. PollerInv => RelayInv
  <2> SUFFICES ASSUME PollerInv PROVE NothingSkipped
    BY DEF PollerInv, RelayInv, OrderInv, FloorInv
  <2> SUFFICES ASSUME NEW i \in 1..cursor, posts[i].kind = "user", seed # -1, i > seed, poller # "stopped"
               PROVE  i \in ToSet(delivered) \cup Ids(page) \cup overrun
    BY DEF NothingSkipped
  <2>1. /\ cursor \in 0..Len(posts) /\ Len(posts) \in Nat /\ page \in Seq([id : 1..Len(posts), is : Message])
    BY DEF PollerInv, TypeOK
  <2>2. i \in 1..Len(posts) /\ i < cursor + 1
    BY <2>1
  <2>3. i < NextUp \/ (page # <<>> /\ i = page[1].id)
    <3>1. CASE page = <<>>
      BY <2>2, <3>1 DEF NextUp
    <3>2. CASE poller = "handling" /\ page # <<>>
      <4>1. cursor <= page[1].id /\ page[1].id \in 1..Len(posts)
        <5>1. page[1].id \in 1..Len(posts)
          BY <3>2, RestOfPage DEF PollerInv
        <5>2. cursor < page[1].id \/ cursor = page[1].id
          BY <3>2 DEF PollerInv, PageInv
        <5> QED  BY <2>1, <5>1, <5>2
      <4>2. i < page[1].id \/ i = page[1].id
        BY <2>1, <2>2, <4>1
      <4> QED  BY <3>2, <4>2 DEF NextUp
    <3>3. CASE poller = "sending" /\ page # <<>>
      <4>1. cursor = page[1].id
        BY <3>3 DEF PollerInv, PageInv
      <4>2. i < cursor \/ i = cursor
        BY <2>1, <2>2
      <4> QED  BY <3>3, <4>1, <4>2 DEF NextUp
    <3> QED  BY <3>1, <3>2, <3>3 DEF PollerInv, PageInv
  <2>4. page # <<>> => page[1].id \in Ids(page)
    <3>1. page # <<>> => 1 \in DOMAIN page
      BY <2>1
    <3> QED  BY <3>1 DEF Ids
  <2> QED  BY <2>2, <2>3, <2>4 DEF PollerInv, CoveredInv
<1> QED
  BY <1>1, PollerAlways, PTL

\* The filters of the polling loop and the rings of send_message and
\* edit_message: the bridge reads its own message only if Slack altered the
\* text and the ring did not know its ts when it was fetched or forgot it.
THEOREM NeverEchoes == Spec => []NeverEcho
<1>1. PollerInv => NeverEcho
  BY DEF PollerInv, EchoInv
<1> QED
  BY <1>1, PollerAlways, PTL
=============================================================================
