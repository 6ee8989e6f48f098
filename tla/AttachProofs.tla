---------------------------- MODULE AttachProofs ----------------------------
(***************************************************************************)
(* Theorems about the attach server and its clients, for every value of    *)
(* the constants of Attach.                                                *)
(***************************************************************************)
EXTENDS Attach, SequenceTheorems, TLAPS

-----------------------------------------------------------------------------
(* The inductive invariant.                                                 *)

Alive(at) == at \in {"connecting", "on"}

\* The server, the connections and the clients are well-typed.
Typed ==
  /\ TypeOK
  /\ \A c \in Clients : /\ srv[c].inHand \in Seq(0..MaxTyped)
                        /\ cli[c].queue \in Seq(0..MaxTyped)

\* The titles in the log increase, and the latched one is not older.
LogInv ==
  /\ \A i \in DOMAIN log : log[i] <= latch
  /\ titling # 0 => /\ titling = latch /\ Len(log) < MaxFrames
                    /\ \A i \in DOMAIN log : log[i] < latch
  /\ \A i, j \in DOMAIN log : i < j /\ log[i] # 0 /\ log[j] # 0 => log[i] <= log[j]

\* A frame that is the place-th of those written to a client, the first `first` of
\* which are HelloOk and the latched title, if there was one.  The client's handler
\* is at phase `at` and has subscribed when the log had `from` frames.
FrameAt(lg, title, at, from, frame, place, first) ==
  \/ place = 1 /\ frame.kind = "ok"
  \/ /\ place = 2 /\ first = 2
     /\ frame.kind = "title" /\ frame.n <= title
     /\ at \notin {"size", "subscribe"} =>
          \A i \in DOMAIN lg : i > from /\ lg[i] # 0 => frame.n <= lg[i]
  \/ /\ place > first
     /\ frame = [kind |-> "output", n |-> from + (place - first)]
     /\ from + (place - first) <= Len(lg)

\* Frames that a client at phase `at` has read.
Got(at, read) == IF at = "on" THEN Len(read) + 1 ELSE 0

\* How many frames are written to a client, as its handler h goes on.
WrittenBy(h, alive, from, written, first) ==
  /\ h.at \in {"absent", "backlog", "hello"} => written = 0
  /\ h.at = "latch" /\ alive => written = 1
  /\ h.at \in {"size", "subscribe"} /\ alive => written = first
  /\ h.at = "stream" =>
       /\ alive => /\ written + Len(h.held) + from = first + h.cursor
                   /\ from + Len(h.held) <= h.cursor
       /\ h.held = <<>> \/ h.held = <<h.cursor>>

\* What is written to a client at phase `at`, wire, and what it has shown, read.
Stream(lg, title, h, wire, at, read, from, first) ==
  /\ at # "on" => read = <<>>
  /\ ~Alive(at) => wire = <<>>
  /\ \A i \in DOMAIN read : FrameAt(lg, title, h.at, from, read[i], i + 1, first)
  /\ \A i \in DOMAIN wire :
       \/ FrameAt(lg, title, h.at, from, wire[i], Got(at, read) + i, first)
       \/ wire[i].kind = "goodbye" /\ i = Len(wire) /\ h.at = "done"
  /\ WrittenBy(h, Alive(at), from, Got(at, read) + Len(wire), first)

StreamAt(c, first) ==
  Stream(log, latch, srv[c], down[c], cli[c].at, shown[c], since[c], first)

StreamsInv == LogInv /\ \A c \in Clients : \E first \in {1, 2} : StreamAt(c, first)

\* The elements of s are consecutive, from n on.
RunFrom(s, n) == \A i \in DOMAIN s : s[i] + 1 = n + i

\* A handler h, its reader task, the connection and the client agree on how far
\* they are.
Agree(h, u, wire, p, t) ==
  /\ h.at = "absent" <=> p.at = "off"
  /\ p.at = "on" => p.hello
  /\ ~p.hello => p.queue = <<>>
  /\ Alive(p.at) /\ ~p.hello => u = <<>> /\ t = 0 /\ wire = <<>>
  /\ Alive(p.at) /\ h.at \notin {"backlog", "hello", "done"} => p.hello
  /\ h.inHand # <<>> => h.at \in {"subscribe", "stream", "goodbye"} /\ Len(h.inHand) = 1
  /\ h.held # <<>> => h.at = "stream"
  /\ h.at = "absent" => u = <<>> /\ t = 0 /\ p = NoProcess("off")

\* The first event of a client that its reader task has to read.
Ahead(h, passed) == IF h.at \in {"latch", "size"} THEN 1 ELSE passed

\* The events that are still to pass: in the hand of the reader task, in the
\* connection u, in the client's queue, up to the last one typed.
OnTheWay(h, u, p, t, passed) ==
  /\ RunFrom(h.inHand, Ahead(h, passed))
  /\ RunFrom(u, Ahead(h, passed) + Len(h.inHand))
  /\ Alive(p.at) /\ p.hello /\ ~p.stop =>
       /\ RunFrom(p.queue, Ahead(h, passed) + Len(h.inHand) + Len(u))
       /\ t + 1 = Ahead(h, passed) + Len(h.inHand) + Len(u) + Len(p.queue)

\* The first `passed` events of a client have reached the channel.
Passed(heardOf, waiting, h, passed) ==
  /\ RunFrom(heardOf, 0)
  /\ waiting = {e \in 0..MaxTyped : Len(heardOf) <= e /\ e < passed}
  /\ Len(heardOf) <= passed
  /\ h.at \in {"absent", "backlog", "hello", "latch", "size"} => passed = 0

PassedAt(c, passed) ==
  /\ Passed(heard[c], Waiting(c), srv[c], passed)
  /\ session = "running" /\ srv[c].at # "done" =>
       OnTheWay(srv[c], up[c], cli[c], typed[c], passed)

InOrder == \A i, j \in DOMAIN events :
             i < j /\ events[i][1] = events[j][1] => events[i][2] < events[j][2]

EventsInv ==
  /\ InOrder
  /\ \A c \in Clients :
       /\ Agree(srv[c], up[c], down[c], cli[c], typed[c])
       /\ \E passed \in 0..(MaxTyped + 1) : PassedAt(c, passed)

AttachInv == Typed /\ StreamsInv /\ EventsInv

-----------------------------------------------------------------------------
(* Sequences of consecutive events.                                         *)

LEMMA SeqFacts ==
  ASSUME NEW S, NEW s \in Seq(S)
  PROVE  /\ Len(s) \in Nat /\ DOMAIN s = 1..Len(s)
         /\ \A i \in 1..Len(s) : s[i] \in S
         /\ \A x : x \in Range(s) <=> \E i \in 1..Len(s) : s[i] = x
         /\ s = <<>> <=> Len(s) = 0
  BY LenProperties, ElementOfSeq, EmptySeq DEF Range

LEMMA EventNumbers ==
  ASSUME NEW n \in Nat, NEW s \in Seq(0..n)
  PROVE  s \in Seq(Nat)
<1>1. Len(s) \in Nat /\ DOMAIN s = 1..Len(s) /\ \A i \in 1..Len(s) : s[i] \in 0..n
  BY SeqFacts
<1>2. \A i \in 1..Len(s) : s[i] \in Nat
  BY <1>1
<1>3. s = [i \in 1..Len(s) |-> s[i]]
  BY <1>1
<1> QED
  BY <1>1, <1>2, <1>3

LEMMA NothingRuns ==
  ASSUME NEW n PROVE RunFrom(<<>>, n) /\ Len(<<>>) = 0
  BY DEF RunFrom

LEMMA OneRuns ==
  ASSUME NEW n \in Nat PROVE RunFrom(<<n>>, n) /\ Len(<<n>>) = 1
<1>1. DOMAIN <<n>> = {1} /\ <<n>>[1] = n /\ Len(<<n>>) = 1
  OBVIOUS
<1> QED
  BY <1>1 DEF RunFrom

LEMMA FirstRuns ==
  ASSUME NEW S \in SUBSET Nat, NEW s \in Seq(S), s # <<>>, NEW n \in Nat, RunFrom(s, n)
  PROVE  /\ Head(s) = n /\ n \in S /\ Tail(s) \in Seq(S) /\ Len(Tail(s)) = Len(s) - 1
         /\ Len(s) \in Nat \ {0} /\ RunFrom(Tail(s), n + 1)
<1> DEFINE t == Tail(s)
<1>1. /\ Head(s) = s[1] /\ t \in Seq(S) /\ Len(t) = Len(s) - 1 /\ Len(s) \in Nat \ {0}
      /\ \A i \in 1..Len(t) : t[i] = s[i + 1]
  BY HeadTailProperties, EmptySeq
<1> HIDE DEF t
<1>2. DOMAIN s = 1..Len(s) /\ DOMAIN t = 1..Len(t) /\ \A i \in 1..Len(s) : s[i] \in S
  <2>1. t \in Seq(S)
    BY <1>1
  <2> QED  BY <2>1, SeqFacts
<1>3. \A i \in 1..Len(s) : s[i] \in Nat /\ s[i] + 1 = n + i
  BY <1>2 DEF RunFrom
<1>4. 1 \in 1..Len(s) /\ \A i \in 1..Len(t) : i + 1 \in 1..Len(s) /\ i \in Nat
  BY <1>1
<1>5. s[1] = n /\ s[1] \in S
  <2>1. s[1] \in Nat /\ s[1] + 1 = n + 1 /\ s[1] \in S
    BY <1>2, <1>3, <1>4
  <2> QED  BY <2>1
<1>6. RunFrom(t, n + 1)
  <2> SUFFICES ASSUME NEW i \in 1..Len(t) PROVE t[i] + 1 = (n + 1) + i
    BY <1>2 DEF RunFrom
  <2>1. s[i + 1] + 1 = n + (i + 1) /\ t[i] = s[i + 1] /\ i \in Nat
    BY <1>1, <1>3, <1>4
  <2> QED  BY <2>1
<1> QED
  BY <1>1, <1>5, <1>6 DEF t

LEMMA LastRuns ==
  ASSUME NEW S \in SUBSET Nat, NEW s \in Seq(S), NEW n \in Nat, RunFrom(s, n),
         NEW x \in S, x = n + Len(s)
  PROVE  Append(s, x) \in Seq(S) /\ Len(Append(s, x)) = Len(s) + 1 /\ RunFrom(Append(s, x), n)
<1> DEFINE t == Append(s, x)
<1>1. /\ t \in Seq(S) /\ Len(t) = Len(s) + 1 /\ Len(s) \in Nat
      /\ \A i \in 1..Len(s) : t[i] = s[i]
      /\ t[Len(s) + 1] = x
  BY AppendProperties
<1> HIDE DEF t
<1>2. DOMAIN s = 1..Len(s) /\ DOMAIN t = 1..Len(t)
  <2>1. t \in Seq(S)
    BY <1>1
  <2> QED  BY <2>1, SeqFacts
<1>3. RunFrom(t, n)
  <2> SUFFICES ASSUME NEW i \in 1..Len(t) PROVE t[i] + 1 = n + i
    BY <1>2 DEF RunFrom
  <2>1. CASE i \in 1..Len(s)
    BY <1>1, <1>2, <2>1 DEF RunFrom
  <2>2. CASE i = Len(s) + 1
    BY <1>1, <2>2
  <2> QED  BY <1>1, <2>1, <2>2
<1> QED
  BY <1>1, <1>3 DEF t

\* Runs that follow each other are one.
LEMMA RunsJoin ==
  ASSUME NEW s \in Seq(Nat), NEW t \in Seq(Nat), NEW n \in Nat,
         RunFrom(s, n), RunFrom(t, n + Len(s))
  PROVE  s \o t \in Seq(Nat) /\ Len(s \o t) = Len(s) + Len(t) /\ RunFrom(s \o t, n)
<1> DEFINE u == s \o t
<1>1. /\ u \in Seq(Nat) /\ Len(u) = Len(s) + Len(t) /\ Len(s) \in Nat /\ Len(t) \in Nat
      /\ \A i \in 1..(Len(s) + Len(t)) : u[i] = IF i <= Len(s) THEN s[i] ELSE t[i - Len(s)]
  BY ConcatProperties, LenProperties
<1> HIDE DEF u
<1>2. DOMAIN s = 1..Len(s) /\ DOMAIN t = 1..Len(t) /\ DOMAIN u = 1..Len(u)
  BY <1>1, SeqFacts
<1>3. RunFrom(u, n)
  <2> SUFFICES ASSUME NEW i \in 1..Len(u) PROVE u[i] + 1 = n + i
    BY <1>2 DEF RunFrom
  <2>1. CASE i <= Len(s)
    <3>1. i \in 1..Len(s) /\ u[i] = s[i]
      BY <1>1, <2>1
    <3> QED  BY <1>2, <3>1 DEF RunFrom
  <2>2. CASE ~(i <= Len(s))
    <3>1. i - Len(s) \in 1..Len(t) /\ u[i] = t[i - Len(s)]
      BY <1>1, <2>2
    <3>2. t[i - Len(s)] + 1 = (n + Len(s)) + (i - Len(s))
      BY <1>2, <3>1 DEF RunFrom
    <3> QED  BY <1>1, <3>1, <3>2
  <2> QED  BY <2>1, <2>2
<1> QED
  BY <1>1, <1>3 DEF u

-----------------------------------------------------------------------------
(* What the invariant says.                                                 *)

LEMMA MeansStream == AttachInv => StreamInv
<1> SUFFICES ASSUME AttachInv PROVE StreamInv
  OBVIOUS
<1>1. TypeOK
  BY DEF AttachInv, Typed
<1> SUFFICES ASSUME NEW c \in Clients, NEW i \in DOMAIN shown[c], i > Replayed(c)
             PROVE  shown[c][i] = [kind |-> "output", n |-> since[c] + i - Replayed(c)]
  BY <1>1 DEF StreamInv, GapFree
<1>2. PICK first \in {1, 2} : StreamAt(c, first)
  BY DEF AttachInv, StreamsInv
<1>3. /\ shown[c] \in Seq(Frames) /\ DOMAIN shown[c] = 1..Len(shown[c]) /\ Len(shown[c]) \in Nat
      /\ since[c] \in Nat
  BY <1>1, SeqFacts DEF TypeOK
<1>4. 1 \in DOMAIN shown[c] /\ shown[c] # <<>> /\ Head(shown[c]) = shown[c][1] /\ i \in Nat
  BY <1>3
<1>5. /\ FrameAt(log, latch, srv[c].at, since[c], shown[c][1], 2, first)
      /\ FrameAt(log, latch, srv[c].at, since[c], shown[c][i], i + 1, first)
  BY <1>2, <1>4 DEF StreamAt, Stream
<1>6. Replayed(c) = first - 1
  BY <1>4, <1>5 DEF FrameAt, Replayed
<1>7. i + 1 # 1 /\ ~(i + 1 = 2 /\ first = 2)
  BY <1>4, <1>6
<1>8. shown[c][i] = [kind |-> "output", n |-> since[c] + ((i + 1) - first)]
  BY <1>5, <1>7 DEF FrameAt
<1>9. since[c] + ((i + 1) - first) = since[c] + i - Replayed(c)
  BY <1>2, <1>3, <1>4, <1>6
<1> QED
  BY <1>8, <1>9

LEMMA MeansTitles == AttachInv => TitlesForward
<1> SUFFICES ASSUME AttachInv, NEW c \in Clients, NEW i \in DOMAIN shown[c], NEW j \in DOMAIN shown[c],
                    i < j, TitleOf(shown[c][i]) # 0, TitleOf(shown[c][j]) # 0
             PROVE  TitleOf(shown[c][i]) <= TitleOf(shown[c][j])
  BY DEF TitlesForward
<1>1. PICK first \in {1, 2} : StreamAt(c, first)
  BY DEF AttachInv, StreamsInv
<1>2. /\ DOMAIN shown[c] = 1..Len(shown[c]) /\ Len(shown[c]) \in Nat /\ since[c] \in Nat
      /\ DOMAIN log = 1..Len(log) /\ Len(log) \in Nat
  BY SeqFacts DEF AttachInv, Typed, TypeOK
<1>3. /\ i \in Nat \ {0} /\ j \in Nat /\ j > 1
      /\ FrameAt(log, latch, srv[c].at, since[c], shown[c][i], i + 1, first)
      /\ FrameAt(log, latch, srv[c].at, since[c], shown[c][j], j + 1, first)
  BY <1>1, <1>2 DEF StreamAt, Stream
<1>4. /\ shown[c][j] = [kind |-> "output", n |-> since[c] + ((j + 1) - first)]
      /\ since[c] + ((j + 1) - first) <= Len(log)
      /\ since[c] + ((j + 1) - first) > since[c]
  <2>1. j + 1 # 1 /\ j + 1 # 2
    BY <1>3
  <2>2. /\ j + 1 > first
        /\ shown[c][j] = [kind |-> "output", n |-> since[c] + ((j + 1) - first)]
        /\ since[c] + ((j + 1) - first) <= Len(log)
    BY <1>3, <2>1 DEF FrameAt
  <2>3. (j + 1) - first > 0
    BY <1>3, <2>2
  <2> QED  BY <1>2, <1>3, <2>2, <2>3
<1>5. /\ since[c] + ((j + 1) - first) \in DOMAIN log
      /\ TitleOf(shown[c][j]) = log[since[c] + ((j + 1) - first)]
  BY <1>1, <1>2, <1>3, <1>4 DEF TitleOf
<1>6. CASE shown[c][i].kind = "title"
  <2>1. srv[c].at \notin {"size", "subscribe"}
    <3>1. cli[c].at = "on" /\ Alive(cli[c].at)
      BY <1>1, <1>2, <1>3 DEF StreamAt, Stream, Alive
    <3>2. Got(cli[c].at, shown[c]) + Len(down[c]) \notin {1, 2}
      <4>1. Len(down[c]) \in Nat
        BY SeqFacts DEF AttachInv, Typed, TypeOK
      <4>2. Len(shown[c]) > 1
        BY <1>2, <1>3
      <4>3. Got(cli[c].at, shown[c]) + Len(down[c]) = (Len(shown[c]) + 1) + Len(down[c])
        BY <3>1 DEF Got
      <4>4. Len(shown[c]) \in Nat
        BY <1>2
      <4>5. \A a, b \in Nat : a > 1 => (a + 1) + b \notin {1, 2}
        OBVIOUS
      <4> QED  BY ONLY <4>1, <4>2, <4>3, <4>4, <4>5, Zenon
    <3> QED  BY <1>1, <1>3, <3>1, <3>2 DEF StreamAt, Stream, WrittenBy
  <2>2. \A k \in DOMAIN log : k > since[c] /\ log[k] # 0 => shown[c][i].n <= log[k]
    BY <1>3, <1>6, <2>1 DEF FrameAt
  <2> QED  BY <1>4, <1>5, <1>6, <2>2 DEF TitleOf
<1>7. CASE shown[c][i].kind # "title"
  <2>1. /\ shown[c][i] = [kind |-> "output", n |-> since[c] + ((i + 1) - first)]
        /\ since[c] + ((i + 1) - first) <= Len(log)
        /\ i + 1 > first
    BY <1>3, <1>7 DEF FrameAt
  <2>2. /\ since[c] + ((i + 1) - first) \in DOMAIN log
        /\ TitleOf(shown[c][i]) = log[since[c] + ((i + 1) - first)]
        /\ since[c] + ((i + 1) - first) < since[c] + ((j + 1) - first)
    BY <1>1, <1>2, <1>3, <2>1 DEF TitleOf
  <2> QED  BY <1>5, <2>2 DEF AttachInv, StreamsInv, LogInv
<1> QED
  BY <1>6, <1>7

LEMMA MeansEvents == AttachInv => EventsInOrder
<1> SUFFICES ASSUME AttachInv PROVE EventsInOrder
  OBVIOUS
<1>1. InOrder
  BY DEF AttachInv, EventsInv
<1>2. ASSUME NEW c \in Clients
      PROVE  \E passed \in 0..(MaxTyped + 1) :
               /\ \A i \in DOMAIN heard[c] : heard[c][i] = i - 1
               /\ Waiting(c) = {e \in 0..MaxTyped : Len(heard[c]) <= e /\ e < passed}
               /\ Len(heard[c]) <= passed
               /\ session = "running" /\ srv[c].at = "stream" /\ cli[c].at = "on" /\ ~cli[c].stop
                    => srv[c].inHand \o up[c] \o cli[c].queue
                         = [i \in 1..(typed[c] + 1 - passed) |-> passed + i - 1]
  <2>1. PICK passed \in 0..(MaxTyped + 1) : PassedAt(c, passed)
    BY DEF AttachInv, EventsInv
  <2>2. /\ srv[c].inHand \in Seq(0..MaxTyped) /\ up[c] \in Seq(0..MaxTyped)
        /\ cli[c].queue \in Seq(0..MaxTyped) /\ heard[c] \in Seq(0..MaxTyped)
        /\ typed[c] \in Nat /\ passed \in Nat
    BY BoundAssumption DEF AttachInv, Typed, TypeOK
  <2>3. \A i \in DOMAIN heard[c] : heard[c][i] = i - 1
    <3>1. DOMAIN heard[c] = 1..Len(heard[c]) /\ \A i \in 1..Len(heard[c]) : heard[c][i] \in 0..MaxTyped
      BY <2>2, SeqFacts
    <3>2. \A i \in DOMAIN heard[c] : heard[c][i] + 1 = 0 + i
      BY <2>1 DEF PassedAt, Passed, RunFrom
    <3> QED  BY <3>1, <3>2
  <2>4. ASSUME session = "running", srv[c].at = "stream", cli[c].at = "on", ~cli[c].stop
        PROVE  srv[c].inHand \o up[c] \o cli[c].queue
                 = [i \in 1..(typed[c] + 1 - passed) |-> passed + i - 1]
    <3>1. Alive(cli[c].at) /\ cli[c].hello /\ Ahead(srv[c], passed) = passed
      BY <2>4 DEF Alive, Ahead, AttachInv, EventsInv, Agree
    <3> DEFINE h == srv[c].inHand
               u == up[c]
               q == cli[c].queue
               w == (h \o u) \o q
    <3>2. /\ RunFrom(h, passed) /\ RunFrom(u, passed + Len(h))
          /\ RunFrom(q, passed + Len(h) + Len(u))
          /\ typed[c] + 1 = passed + Len(h) + Len(u) + Len(q)
      BY <2>1, <2>4, <3>1 DEF PassedAt, OnTheWay
    <3>3. h \in Seq(Nat) /\ u \in Seq(Nat) /\ q \in Seq(Nat)
      BY <2>2, BoundAssumption, EventNumbers
    <3> HIDE DEF h, u, q
    <3>4. h \o u \in Seq(Nat) /\ Len(h \o u) = Len(h) + Len(u) /\ RunFrom(h \o u, passed)
      BY <2>2, <3>2, <3>3, RunsJoin
    <3>5. Len(h) \in Nat /\ Len(u) \in Nat /\ Len(q) \in Nat
      BY <3>3, LenProperties
    <3>6. RunFrom(q, passed + Len(h \o u))
      <4>1. passed + Len(h) + Len(u) = passed + Len(h \o u)
        BY <2>2, <3>4, <3>5
      <4> QED  BY <3>2, <4>1
    <3>7. w \in Seq(Nat) /\ Len(w) = Len(h) + Len(u) + Len(q) /\ RunFrom(w, passed)
      BY <2>2, <3>3, <3>4, <3>6, RunsJoin, ZenonT(40)
    <3> HIDE DEF w
    <3>8. Len(w) = typed[c] + 1 - passed
      <4>1. typed[c] \in Nat /\ passed \in Nat
        BY <2>2
      <4>2. typed[c] + 1 = passed + Len(h) + Len(u) + Len(q) /\ Len(w) = Len(h) + Len(u) + Len(q)
        BY <3>2, <3>7
      <4> QED  BY ONLY <3>5, <4>1, <4>2
    <3>9. DOMAIN w = 1..Len(w) /\ \A i \in 1..Len(w) : w[i] \in Nat
      BY <3>7, SeqFacts
    <3>10. \A i \in 1..Len(w) : w[i] = passed + i - 1
      <4>1. \A i \in 1..Len(w) : w[i] + 1 = passed + i
        BY <3>7, <3>9 DEF RunFrom
      <4>2. passed \in Nat
        BY <2>2
      <4> QED  BY <3>9, <4>1, <4>2
    <3>11. w = [i \in DOMAIN w |-> w[i]]
      BY <3>7
    <3>12. w = [i \in 1..(typed[c] + 1 - passed) |-> passed + i - 1]
      BY <3>8, <3>9, <3>10, <3>11
    <3> QED  BY <3>12 DEF w, h, u, q
  <2> QED  BY <2>1, <2>3, <2>4 DEF PassedAt, Passed
<1> QED
  BY <1>1, <1>2 DEF EventsInOrder, InOrder
-----------------------------------------------------------------------------
(* What happens to a stream.                                                *)

Grows(lg, title, lg2, title2) ==
  /\ title <= title2 /\ Len(lg) <= Len(lg2)
  /\ \A i \in DOMAIN lg2 : \/ i \in DOMAIN lg /\ lg2[i] = lg[i]
                           \/ lg2[i] = 0
                           \/ title <= lg2[i]

LEMMA FrameStays ==
  ASSUME NEW lg \in Seq(Nat), NEW title \in Nat, NEW lg2 \in Seq(Nat), NEW title2 \in Nat,
         Grows(lg, title, lg2, title2),
         NEW at, NEW from \in Nat, NEW frame \in Frames, NEW place \in Nat, NEW first \in {1, 2},
         FrameAt(lg, title, at, from, frame, place, first)
  PROVE  FrameAt(lg2, title2, at, from, frame, place, first)
<1>1. frame.n \in Nat /\ Len(lg) \in Nat /\ Len(lg2) \in Nat
  BY LenProperties DEF Frames
<1>2. CASE /\ place = 2 /\ first = 2
           /\ frame.kind = "title" /\ frame.n <= title
           /\ at \notin {"size", "subscribe"} =>
                \A i \in DOMAIN lg : i > from /\ lg[i] # 0 => frame.n <= lg[i]
  <2>1. frame.n <= title2
    BY <1>1, <1>2 DEF Grows
  <2>2. ASSUME at \notin {"size", "subscribe"}, NEW i \in DOMAIN lg2, i > from, lg2[i] # 0
        PROVE  frame.n <= lg2[i]
    <3>1. lg2[i] \in Nat
      BY SeqFacts
    <3>2. CASE i \in DOMAIN lg /\ lg2[i] = lg[i]
      BY <1>2, <2>2, <3>2
    <3>3. CASE title <= lg2[i]
      BY <1>1, <1>2, <3>1, <3>3
    <3> QED  BY <2>2, <3>2, <3>3 DEF Grows
  <2> QED  BY <1>2, <2>1, <2>2 DEF FrameAt
<1>3. CASE /\ place > first
           /\ frame = [kind |-> "output", n |-> from + (place - first)]
           /\ from + (place - first) <= Len(lg)
  <2>1. from + (place - first) \in Int /\ Len(lg) <= Len(lg2)
    BY DEF Grows
  <2>2. from + (place - first) <= Len(lg2)
    BY <1>1, <1>3, <2>1
  <2> QED  BY <1>3, <2>2 DEF FrameAt
<1> QED
  BY <1>2, <1>3 DEF FrameAt

\* Frames are broadcast.
LEMMA StreamGrows ==
  ASSUME NEW lg \in Seq(Nat), NEW title \in Nat, NEW lg2 \in Seq(Nat), NEW title2 \in Nat,
         Grows(lg, title, lg2, title2),
         NEW h, NEW wire \in Seq(Frames), NEW at, NEW read \in Seq(Frames), NEW from \in Nat,
         NEW first \in {1, 2}, Stream(lg, title, h, wire, at, read, from, first)
  PROVE  Stream(lg2, title2, h, wire, at, read, from, first)
<1>1. /\ DOMAIN read = 1..Len(read) /\ \A i \in 1..Len(read) : read[i] \in Frames
      /\ DOMAIN wire = 1..Len(wire) /\ \A i \in 1..Len(wire) : wire[i] \in Frames
      /\ Len(read) \in Nat /\ Len(wire) \in Nat /\ Got(at, read) \in Nat
  BY SeqFacts DEF Got
<1>2. \A i \in DOMAIN read : FrameAt(lg2, title2, h.at, from, read[i], i + 1, first)
  <2> SUFFICES ASSUME NEW i \in DOMAIN read
               PROVE  FrameAt(lg2, title2, h.at, from, read[i], i + 1, first)
    OBVIOUS
  <2>1. read[i] \in Frames /\ i + 1 \in Nat
    BY <1>1
  <2>2. FrameAt(lg, title, h.at, from, read[i], i + 1, first)
    BY DEF Stream
  <2> QED  BY <2>1, <2>2, FrameStays
<1>3. \A i \in DOMAIN wire :
        \/ FrameAt(lg2, title2, h.at, from, wire[i], Got(at, read) + i, first)
        \/ wire[i].kind = "goodbye" /\ i = Len(wire) /\ h.at = "done"
  <2> SUFFICES ASSUME NEW i \in DOMAIN wire,
                      ~(wire[i].kind = "goodbye" /\ i = Len(wire) /\ h.at = "done")
               PROVE  FrameAt(lg2, title2, h.at, from, wire[i], Got(at, read) + i, first)
    OBVIOUS
  <2>1. wire[i] \in Frames /\ Got(at, read) + i \in Nat
    BY <1>1
  <2>2. FrameAt(lg, title, h.at, from, wire[i], Got(at, read) + i, first)
    BY DEF Stream
  <2> QED  BY <2>1, <2>2, FrameStays
<1> QED
  BY <1>2, <1>3 DEF Stream

\* The handler goes on without a write.
LEMMA StreamPhase ==
  ASSUME NEW lg, NEW title, NEW h, NEW wire, NEW at, NEW read, NEW from, NEW first,
         Stream(lg, title, h, wire, at, read, from, first),
         NEW h2, h2.at \notin {"size", "subscribe"} => h.at \notin {"size", "subscribe"},
         h.at = "done" => h2.at = "done",
         WrittenBy(h2, Alive(at), from, Got(at, read) + Len(wire), first)
  PROVE  Stream(lg, title, h2, wire, at, read, from, first)
<1>1. ASSUME NEW frame, NEW place, FrameAt(lg, title, h.at, from, frame, place, first)
      PROVE  FrameAt(lg, title, h2.at, from, frame, place, first)
  BY <1>1 DEF FrameAt
<1> QED
  BY <1>1 DEF Stream

\* The handler writes a frame.
LEMMA StreamWrites ==
  ASSUME NEW lg, NEW title, NEW h, NEW wire \in Seq(Frames), NEW at, NEW read, NEW from,
         NEW first, Stream(lg, title, h, wire, at, read, from, first), Alive(at),
         NEW h2, h2.at \notin {"size", "subscribe"} => h.at \notin {"size", "subscribe"},
         h.at # "done", NEW frame \in Frames,
         \/ FrameAt(lg, title, h2.at, from, frame, Got(at, read) + (Len(wire) + 1), first)
         \/ frame.kind = "goodbye" /\ h2.at = "done",
         WrittenBy(h2, TRUE, from, Got(at, read) + (Len(wire) + 1), first)
  PROVE  Stream(lg, title, h2, Append(wire, frame), at, read, from, first)
<1> DEFINE w == Append(wire, frame)
<1>1. /\ w \in Seq(Frames) /\ Len(w) = Len(wire) + 1 /\ Len(wire) \in Nat
      /\ \A i \in 1..Len(wire) : w[i] = wire[i]
      /\ w[Len(wire) + 1] = frame
  BY AppendProperties
<1> HIDE DEF w
<1>2. DOMAIN wire = 1..Len(wire) /\ DOMAIN w = 1..Len(w)
  <2>1. w \in Seq(Frames)
    BY <1>1
  <2> QED  BY <2>1, SeqFacts
<1>3. ASSUME NEW f, NEW place, FrameAt(lg, title, h.at, from, f, place, first)
      PROVE  FrameAt(lg, title, h2.at, from, f, place, first)
  BY <1>3 DEF FrameAt
<1>4. ASSUME NEW i \in DOMAIN w
      PROVE  \/ FrameAt(lg, title, h2.at, from, w[i], Got(at, read) + i, first)
             \/ w[i].kind = "goodbye" /\ i = Len(w) /\ h2.at = "done"
  <2>1. CASE i \in 1..Len(wire)
    <3>1. FrameAt(lg, title, h.at, from, wire[i], Got(at, read) + i, first)
      BY <1>2, <2>1 DEF Stream
    <3> QED  BY <1>1, <1>3, <2>1, <3>1
  <2>2. CASE i = Len(wire) + 1
    BY <1>1, <2>2
  <2> QED  BY <1>1, <1>2, <2>1, <2>2
<1>5. \A i \in DOMAIN read : FrameAt(lg, title, h2.at, from, read[i], i + 1, first)
  BY <1>3 DEF Stream
<1> QED
  BY <1>1, <1>4, <1>5 DEF Stream, w

\* Before the latch is read it is open whether a title comes.
LEMMA StreamLatch ==
  ASSUME NEW lg, NEW title, NEW h, NEW wire \in Seq(Frames), NEW at, NEW read \in Seq(Frames),
         NEW from, NEW first \in {1, 2}, NEW first2 \in {1, 2},
         Stream(lg, title, h, wire, at, read, from, first), h.at = "latch"
  PROVE  Stream(lg, title, h, wire, at, read, from, first2)
<1>1. /\ DOMAIN read = 1..Len(read) /\ Len(read) \in Nat /\ read = <<>> <=> Len(read) = 0
      /\ DOMAIN wire = 1..Len(wire) /\ Len(wire) \in Nat
  BY SeqFacts
<1>2. WrittenBy(h, Alive(at), from, Got(at, read) + Len(wire), first2)
  BY DEF Stream, WrittenBy
<1>3. read = <<>>
  BY <1>1 DEF Stream, WrittenBy, Got, Alive
<1>4. \A i \in DOMAIN wire : Got(at, read) + i = 1
  <2>1. wire # <<>> => Got(at, read) + Len(wire) = 1 /\ Got(at, read) \in Nat
    BY <1>1 DEF Stream, WrittenBy, Got
  <2> QED  BY <1>1, <2>1
<1>5. \A i \in DOMAIN wire : FrameAt(lg, title, h.at, from, wire[i], Got(at, read) + i, first2)
  <2> SUFFICES ASSUME NEW i \in DOMAIN wire
               PROVE  FrameAt(lg, title, h.at, from, wire[i], Got(at, read) + i, first2)
    OBVIOUS
  <2>1. FrameAt(lg, title, h.at, from, wire[i], Got(at, read) + i, first)
    BY DEF Stream
  <2> QED  BY <1>4, <2>1 DEF FrameAt
<1> QED
  BY <1>1, <1>2, <1>3, <1>5 DEF Stream
\* The handler subscribes.
LEMMA StreamSubscribes ==
  ASSUME NEW lg \in Seq(Nat), NEW title, NEW h, NEW wire \in Seq(Frames), NEW at,
         NEW read \in Seq(Frames), NEW from, NEW first \in {1, 2},
         Stream(lg, title, h, wire, at, read, from, first), h.at = "subscribe",
         NEW h2, h2.at = "stream", h2.cursor = Len(lg), h2.held = <<>>
  PROVE  Stream(lg, title, h2, wire, at, read, Len(lg), first)
<1>1. /\ DOMAIN read = 1..Len(read) /\ Len(read) \in Nat /\ read = <<>> <=> Len(read) = 0
      /\ DOMAIN wire = 1..Len(wire) /\ Len(wire) \in Nat /\ wire = <<>> <=> Len(wire) = 0
      /\ DOMAIN lg = 1..Len(lg) /\ Len(lg) \in Nat
  BY SeqFacts
<1>2. WrittenBy(h2, Alive(at), Len(lg), Got(at, read) + Len(wire), first)
  <2>1. Len(h2.held) = 0
    OBVIOUS
  <2>2. Alive(at) => Got(at, read) + Len(wire) = first
    BY DEF Stream, WrittenBy
  <2>3. ASSUME NEW g \in Nat, g = first
        PROVE  g + 0 + Len(lg) = first + Len(lg)
    BY <1>1, <2>3
  <2>4. Got(at, read) + Len(wire) \in Nat
    BY <1>1 DEF Got
  <2> QED  BY <2>1, <2>2, <2>3, <2>4 DEF WrittenBy
<1>3. ASSUME NEW frame, NEW place \in Nat, place <= first,
             FrameAt(lg, title, h.at, from, frame, place, first)
      PROVE  FrameAt(lg, title, h2.at, Len(lg), frame, place, first)
  BY <1>1, <1>3 DEF FrameAt
<1>4. ~Alive(at) => read = <<>> /\ wire = <<>>
  BY DEF Stream, Alive
<1>5. ASSUME Alive(at), NEW i \in DOMAIN read
      PROVE  FrameAt(lg, title, h2.at, Len(lg), read[i], i + 1, first)
  <2>1. i + 1 \in Nat /\ i + 1 <= first
    <3>1. at = "on" /\ i \in Nat /\ i <= Len(read)
      BY <1>1, <1>5 DEF Stream
    <3>2. Got(at, read) = Len(read) + 1 /\ Got(at, read) + Len(wire) = first
      BY <1>5, <3>1 DEF Stream, WrittenBy, Got
    <3> QED  BY <1>1, <3>1, <3>2
  <2>2. FrameAt(lg, title, h.at, from, read[i], i + 1, first)
    BY DEF Stream
  <2> QED  BY <1>3, <2>1, <2>2
<1>6. ASSUME Alive(at), NEW i \in DOMAIN wire
      PROVE  FrameAt(lg, title, h2.at, Len(lg), wire[i], Got(at, read) + i, first)
  <2>1. Got(at, read) + i \in Nat /\ Got(at, read) + i <= first
    <3>1. i \in Nat /\ i <= Len(wire) /\ Got(at, read) \in Nat
      BY <1>1 DEF Got
    <3>2. Got(at, read) + Len(wire) = first
      BY <1>6 DEF Stream, WrittenBy
    <3> QED  BY <1>1, <3>1, <3>2
  <2>2. FrameAt(lg, title, h.at, from, wire[i], Got(at, read) + i, first)
    BY DEF Stream
  <2> QED  BY <1>3, <2>1, <2>2
<1>7. \A i \in DOMAIN read : FrameAt(lg, title, h2.at, Len(lg), read[i], i + 1, first)
  BY <1>1, <1>4, <1>5
<1>8. \A i \in DOMAIN wire : FrameAt(lg, title, h2.at, Len(lg), wire[i], Got(at, read) + i, first)
  BY <1>1, <1>4, <1>6
<1> QED
  BY <1>2, <1>7, <1>8 DEF Stream

\* The client reads a frame and shows it, unless it is HelloOk.
LEMMA StreamRead ==
  ASSUME NEW lg, NEW title, NEW h, NEW wire \in Seq(Frames), NEW at, NEW read \in Seq(Frames),
         NEW from, NEW first \in {1, 2}, Stream(lg, title, h, wire, at, read, from, first),
         Alive(at), wire # <<>>, Head(wire).kind # "goodbye"
  PROVE  LET read2 == IF Head(wire).kind = "ok" THEN read ELSE Append(read, Head(wire))
         IN  Stream(lg, title, h, Tail(wire), "on", read2, from, first)
<1> DEFINE w == Tail(wire)
           frame == Head(wire)
           read2 == IF frame.kind = "ok" THEN read ELSE Append(read, frame)
<1>1. /\ frame = wire[1] /\ w \in Seq(Frames) /\ Len(w) = Len(wire) - 1 /\ Len(wire) \in Nat \ {0}
      /\ \A i \in 1..Len(w) : w[i] = wire[i + 1]
  BY HeadTailProperties, EmptySeq
<1>2. frame \in Frames /\ frame.kind # "goodbye"
  BY <1>1, SeqFacts
<1> HIDE DEF w, frame
<1>3. /\ Append(read, frame) \in Seq(Frames) /\ Len(Append(read, frame)) = Len(read) + 1
      /\ Len(read) \in Nat
      /\ \A i \in 1..Len(read) : Append(read, frame)[i] = read[i]
      /\ Append(read, frame)[Len(read) + 1] = frame
  BY <1>2, AppendProperties
<1>4. /\ DOMAIN read = 1..Len(read) /\ read = <<>> <=> Len(read) = 0
      /\ DOMAIN wire = 1..Len(wire) /\ DOMAIN w = 1..Len(w)
  BY <1>1, SeqFacts
<1>5. DOMAIN Append(read, frame) = 1..(Len(read) + 1)
  BY <1>3, SeqFacts
<1>6. Got(at, read) \in Nat
  BY <1>3 DEF Got
<1>7. FrameAt(lg, title, h.at, from, frame, Got(at, read) + 1, first)
  BY <1>1, <1>2, <1>4 DEF Stream
<1>8. /\ Got("on", read2) = Got(at, read) + 1
      /\ \A i \in DOMAIN read2 : FrameAt(lg, title, h.at, from, read2[i], i + 1, first)
  <2>1. CASE frame.kind = "ok"
    <3>1. Got(at, read) + 1 = 1
      BY <1>6, <1>7, <2>1 DEF FrameAt
    <3>2. at # "on"
      BY <1>3, <3>1 DEF Got
    <3>3. read2 = <<>> /\ Len(read2) = 0
      BY <1>4, <2>1, <3>2 DEF Stream
    <3> QED  BY <2>1, <3>1, <3>3 DEF Got, Stream
  <2>2. CASE frame.kind # "ok"
    <3>1. Got(at, read) + 1 # 1
      BY <1>6, <1>7, <2>2 DEF FrameAt
    <3>2. at = "on" /\ Got(at, read) = Len(read) + 1 /\ read2 = Append(read, frame)
      BY <2>2, <3>1 DEF Got
    <3>3. Got("on", read2) = Got(at, read) + 1
      BY <1>3, <3>2 DEF Got
    <3>4. ASSUME NEW i \in DOMAIN read2
          PROVE  FrameAt(lg, title, h.at, from, read2[i], i + 1, first)
      <4>1. CASE i \in 1..Len(read)
        BY <1>3, <1>4, <3>2, <4>1 DEF Stream
      <4>2. CASE i = Len(read) + 1
        BY <1>3, <1>7, <3>2, <4>2
      <4> QED  BY <1>3, <1>5, <3>2, <4>1, <4>2
    <3> QED  BY <3>3, <3>4
  <2> QED  BY <2>1, <2>2
<1> HIDE DEF read2
<1>9. ASSUME NEW i \in DOMAIN w
      PROVE  \/ FrameAt(lg, title, h.at, from, w[i], Got("on", read2) + i, first)
             \/ w[i].kind = "goodbye" /\ i = Len(w) /\ h.at = "done"
  <2>1. i \in Nat /\ i + 1 \in DOMAIN wire /\ w[i] = wire[i + 1] /\ (i + 1 = Len(wire) => i = Len(w))
    BY <1>1, <1>4
  <2>2. Got(at, read) + (i + 1) = Got("on", read2) + i
    BY <1>6, <1>8, <2>1
  <2>3. \/ FrameAt(lg, title, h.at, from, wire[i + 1], Got(at, read) + (i + 1), first)
        \/ wire[i + 1].kind = "goodbye" /\ i + 1 = Len(wire) /\ h.at = "done"
    BY <2>1 DEF Stream
  <2> QED  BY <2>1, <2>2, <2>3
<1>10. WrittenBy(h, Alive("on"), from, Got("on", read2) + Len(w), first)
  <2>1. Got("on", read2) + Len(w) = Got(at, read) + Len(wire)
    BY <1>1, <1>6, <1>8
  <2>2. Alive("on")
    BY DEF Alive
  <2> QED  BY <2>1, <2>2 DEF Stream
<1>11. Stream(lg, title, h, w, "on", read2, from, first)
  BY <1>8, <1>9, <1>10 DEF Stream, Alive
<1> QED
  BY <1>11 DEF w, read2, frame

\* The client is gone, and its connection.
LEMMA StreamGone ==
  ASSUME NEW lg, NEW title, NEW h, NEW wire, NEW at, NEW read, NEW from, NEW first,
         Stream(lg, title, h, wire, at, read, from, first)
  PROVE  Stream(lg, title, h, <<>>, "quit", <<>>, 0, first)
<1>1. Got("quit", <<>>) + Len(<<>>) = 0 /\ ~Alive("quit") /\ DOMAIN <<>> = {}
  BY DEF Got, Alive
<1> QED
  BY <1>1 DEF Stream, WrittenBy
-----------------------------------------------------------------------------
(* The events in the channel.                                               *)

LEMMA EventsPut ==
  ASSUME Typed, NEW c \in Clients, NEW e \in 0..MaxTyped, events' = Append(events, <<c, e>>)
  PROVE  /\ events' \in Seq(Clients \X (0..MaxTyped)) /\ Len(events') = Len(events) + 1
         /\ Waiting(c)' = Waiting(c) \cup {e}
         /\ \A d \in Clients \ {c} : Waiting(d)' = Waiting(d)
         /\ InOrder /\ (\A x \in Waiting(c) : x < e) => InOrder'
<1>1. events \in Seq(Clients \X (0..MaxTyped)) /\ <<c, e>> \in Clients \X (0..MaxTyped)
  BY DEF Typed, TypeOK
<1>2. /\ events' \in Seq(Clients \X (0..MaxTyped)) /\ Len(events') = Len(events) + 1
      /\ Len(events) \in Nat
      /\ \A i \in 1..Len(events) : events'[i] = events[i]
      /\ events'[Len(events) + 1] = <<c, e>>
  BY <1>1, AppendProperties
<1>3. DOMAIN events = 1..Len(events) /\ \A x : x \in Range(events) <=> \E i \in 1..Len(events) : events[i] = x
  BY <1>1, SeqFacts
<1>4. DOMAIN events' = 1..Len(events') /\ \A x : x \in Range(events') <=> \E i \in 1..Len(events') : events'[i] = x
  <2>1. ASSUME NEW s \in Seq(Clients \X (0..MaxTyped))
        PROVE  DOMAIN s = 1..Len(s) /\ \A x : x \in Range(s) <=> \E i \in 1..Len(s) : s[i] = x
    BY SeqFacts
  <2> QED  BY <1>2, <2>1
<1>5. \A i \in 1..Len(events') : i \in 1..Len(events) \/ i = Len(events) + 1
  BY <1>2
<1>6. 1..Len(events) \subseteq 1..Len(events') /\ Len(events) + 1 \in 1..Len(events')
  BY <1>2
<1>7. \A x : x \in Range(events') <=> x \in Range(events) \/ x = <<c, e>>
  <2>1. \A x \in Range(events') : x \in Range(events) \/ x = <<c, e>>
    BY <1>2, <1>3, <1>4, <1>5, SMTT(40)
  <2>2. \A x \in Range(events) : x \in Range(events')
    BY <1>2, <1>3, <1>4, <1>6
  <2>3. <<c, e>> \in Range(events')
    BY <1>2, <1>4, <1>6
  <2> QED  BY <2>1, <2>2, <2>3
<1>8. Waiting(c)' = Waiting(c) \cup {e}
  BY <1>7 DEF Waiting
<1>9. \A d \in Clients \ {c} : Waiting(d)' = Waiting(d)
  BY <1>7 DEF Waiting
<1>10. ASSUME InOrder, \A x \in Waiting(c) : x < e
       PROVE  InOrder'
  <2> SUFFICES ASSUME NEW i \in 1..Len(events'), NEW j \in 1..Len(events'), i < j,
                      events'[i][1] = events'[j][1]
               PROVE  events'[i][2] < events'[j][2]
    BY <1>4 DEF InOrder
  <2>1. i \in 1..Len(events)
    BY <1>2
  <2>2. CASE j \in 1..Len(events)
    BY <1>2, <1>3, <1>10, <2>1, <2>2 DEF InOrder
  <2>3. CASE j = Len(events) + 1
    <3>1. events[i] \in Clients \X (0..MaxTyped) /\ events[i] \in Range(events)
      BY <1>1, <1>3, <2>1, SeqFacts
    <3>2. events[i][1] = c /\ events[i] = <<events[i][1], events[i][2]>>
          /\ events[i][2] \in 0..MaxTyped
      BY <1>2, <2>1, <2>3, <3>1
    <3>3. events[i][2] \in Waiting(c)
      BY <3>1, <3>2 DEF Waiting
    <3> QED  BY <1>2, <1>10, <2>1, <2>3, <3>3
  <2> QED  BY <1>5, <2>2, <2>3
<1> QED
  BY <1>2, <1>8, <1>9, <1>10

LEMMA EventsTaken ==
  ASSUME Typed, InOrder, events # <<>>, events' = Tail(events),
         NEW c, NEW e, c = Head(events)[1], e = Head(events)[2]
  PROVE  /\ events' \in Seq(Clients \X (0..MaxTyped)) /\ Len(events') <= Len(events)
         /\ c \in Clients /\ e \in Waiting(c) /\ \A x \in Waiting(c) : e <= x
         /\ Waiting(c)' = Waiting(c) \ {e}
         /\ \A d \in Clients \ {c} : Waiting(d)' = Waiting(d)
         /\ InOrder'
<1>1. events \in Seq(Clients \X (0..MaxTyped))
  BY DEF Typed, TypeOK
<1>2. /\ events' \in Seq(Clients \X (0..MaxTyped)) /\ Len(events') = Len(events) - 1
      /\ Len(events) \in Nat \ {0} /\ Head(events) = events[1]
      /\ \A i \in 1..Len(events') : events'[i] = events[i + 1]
  BY <1>1, HeadTailProperties, EmptySeq
<1>3. /\ DOMAIN events = 1..Len(events)
      /\ \A x : x \in Range(events) <=> \E i \in 1..Len(events) : events[i] = x
      /\ \A i \in 1..Len(events) : events[i] \in Clients \X (0..MaxTyped)
  BY <1>1, SeqFacts
<1>4. DOMAIN events' = 1..Len(events') /\ \A x : x \in Range(events') <=> \E i \in 1..Len(events') : events'[i] = x
  <2>1. ASSUME NEW s \in Seq(Clients \X (0..MaxTyped))
        PROVE  DOMAIN s = 1..Len(s) /\ \A x : x \in Range(s) <=> \E i \in 1..Len(s) : s[i] = x
    BY SeqFacts
  <2> QED  BY <1>2, <2>1
<1>5. /\ 1 \in 1..Len(events)
      /\ \A i \in 1..Len(events') : i + 1 \in 1..Len(events) /\ 1 < i + 1
  BY <1>2
<1>6. events[1] \in Clients \X (0..MaxTyped) /\ events[1] \in Range(events)
  BY <1>3, <1>5
<1>7. c \in Clients /\ e \in 0..MaxTyped /\ events[1] = <<c, e>>
  BY <1>2, <1>6
<1>16. \A i, j \in 1..Len(events) :
          i < j /\ events[i][1] = events[j][1] => events[i][2] < events[j][2]
  BY <1>3 DEF InOrder
<1>8. ASSUME NEW i \in 1..Len(events'), events'[i][1] = c
      PROVE  e < events'[i][2]
  <2>1. events[1][1] = c /\ events[1][2] = e
    BY <1>7
  <2>2. 1 < i + 1 /\ 1 \in 1..Len(events) /\ i + 1 \in 1..Len(events) /\ events'[i] = events[i + 1]
    BY <1>2, <1>5
  <2>3. events[1][1] = events[i + 1][1] => events[1][2] < events[i + 1][2]
    BY <1>16, <2>2
  <2> QED  BY <1>8, <2>1, <2>2, <2>3
<1>9. \A x : x \in Range(events) => x \in Range(events') \/ x = <<c, e>>
  <2> SUFFICES ASSUME NEW i \in 1..Len(events), i # 1
               PROVE  events[i] \in Range(events')
    BY <1>3, <1>7
  <2>1. i - 1 \in 1..Len(events') /\ (i - 1) + 1 = i
    BY <1>2
  <2> QED  BY <1>2, <1>4, <2>1, ZenonT(40)
<1>10. \A x : x \in Range(events') => x \in Range(events)
  BY <1>2, <1>3, <1>4, <1>5
<1>11. ASSUME NEW x \in 0..MaxTyped, <<c, x>> \in Range(events')
       PROVE  e < x
  <2>1. PICK i \in 1..Len(events') : events'[i] = <<c, x>>
    BY <1>4, <1>11
  <2> QED  BY <1>8, <2>1
<1>12. e \in Waiting(c) /\ \A x \in Waiting(c) : e <= x
  <2>1. e \in Waiting(c)
    BY <1>6, <1>7 DEF Waiting
  <2>2. ASSUME NEW x \in Waiting(c)
        PROVE  e <= x
    <3>1. x \in 0..MaxTyped /\ (x = e \/ <<c, x>> \in Range(events'))
      BY <1>9 DEF Waiting
    <3> QED  BY <1>7, <1>11, <3>1
  <2> QED  BY <2>1, <2>2
<1>13. Waiting(c)' = Waiting(c) \ {e}
  <2>1. \A x \in 0..MaxTyped : <<c, x>> \in Range(events') <=> <<c, x>> \in Range(events) /\ x # e
    BY <1>7, <1>9, <1>10, <1>11
  <2> QED  BY <2>1 DEF Waiting
<1>14. \A d \in Clients \ {c} : Waiting(d)' = Waiting(d)
  BY <1>9, <1>10 DEF Waiting
<1>15. InOrder'
  <2> SUFFICES ASSUME NEW i \in 1..Len(events'), NEW j \in 1..Len(events'), i < j,
                      events'[i][1] = events'[j][1]
               PROVE  events'[i][2] < events'[j][2]
    BY <1>4 DEF InOrder
  <2>1. i + 1 \in 1..Len(events) /\ j + 1 \in 1..Len(events) /\ i + 1 < j + 1
    BY <1>5
  <2>2. events'[i] = events[i + 1] /\ events'[j] = events[j + 1]
    BY <1>2
  <2> QED  BY <1>16, <2>1, <2>2
<1> QED
  BY <1>2, <1>7, <1>12, <1>13, <1>14, <1>15
-----------------------------------------------------------------------------
(* The first state.                                                         *)

LEMMA NothingTyped ==
  ASSUME NEW S
  PROVE  <<>> \in Seq(S) /\ Len(<<>>) = 0 /\ DOMAIN <<>> = {} /\ Range(<<>>) = {}
  BY EmptySeq DEF Range

LEMMA AttachInit == Init => AttachInv
<1> SUFFICES ASSUME Init PROVE AttachInv
  OBVIOUS
<1>1. /\ NoHandler("absent") \in Handler /\ NoProcess("off") \in Process
      /\ NoHandler("absent").inHand = <<>> /\ NoHandler("absent").held = <<>>
      /\ NoHandler("absent").cursor = 0 /\ NoHandler("absent").at = "absent"
      /\ NoProcess("off").queue = <<>> /\ NoProcess("off").at = "off"
      /\ NoProcess("off").hello = FALSE
  BY NothingTyped DEF NoHandler, NoProcess, Handler, Process, Phases
<1>2. /\ log = <<>> /\ Len(log) = 0 /\ DOMAIN log = {} /\ latch = 0 /\ titling = 0
      /\ events = <<>> /\ session = "running" /\ accepting = TRUE
      /\ MaxFrames \in Nat /\ MaxTitles \in Nat /\ MaxTyped \in Nat /\ WireCap \in Nat /\ EventCap \in Nat
  BY NothingTyped, BoundAssumption, CapAssumption DEF Init
<1>3. ASSUME NEW c \in Clients
      PROVE  /\ heard[c] = <<>> /\ srv[c] = NoHandler("absent") /\ down[c] = <<>> /\ up[c] = <<>>
             /\ cli[c] = NoProcess("off") /\ shown[c] = <<>> /\ typed[c] = 0 /\ since[c] = 0
  BY DEF Init
<1>4. TypeOK
  <2>1. /\ heard \in [Clients -> Seq(0..MaxTyped)] /\ srv \in [Clients -> Handler]
        /\ cli \in [Clients -> Process]
        /\ down \in [Clients -> Seq(Frames)] /\ up \in [Clients -> Seq(0..MaxTyped)]
        /\ shown \in [Clients -> Seq(Frames)]
    BY <1>1, NothingTyped DEF Init
  <2>2. typed \in [Clients -> 0..MaxTyped] /\ since \in [Clients -> 0..MaxFrames]
    BY <1>2 DEF Init
  <2>3. ASSUME NEW c \in Clients
        PROVE  /\ srv[c].cursor \in 0..Len(log) /\ srv[c].held \in Seq(1..Len(log))
               /\ Len(down[c]) <= WireCap /\ Len(up[c]) <= WireCap
    <3>1. srv[c].cursor = 0 /\ srv[c].held = <<>> /\ down[c] = <<>> /\ up[c] = <<>>
      BY <1>1, <1>3
    <3>2. Len(down[c]) = 0 /\ Len(up[c]) = 0 /\ <<>> \in Seq(1..Len(log))
      BY <3>1, NothingTyped
    <3> QED  BY <1>2, <3>1, <3>2
  <2>4. /\ log \in Seq(0..MaxTitles) /\ Len(log) <= MaxFrames
        /\ latch \in 0..MaxTitles /\ titling \in 0..latch
        /\ session \in {"running", "gone"} /\ accepting \in BOOLEAN
        /\ events \in Seq(Clients \X (0..MaxTyped)) /\ Len(events) <= EventCap
    BY <1>2, NothingTyped
  <2> QED  BY <2>1, <2>2, <2>3, <2>4 DEF TypeOK
<1>5. Typed
  BY <1>1, <1>3, <1>4, NothingTyped DEF Typed
<1>6. StreamsInv
  <2>1. LogInv
    BY <1>2 DEF LogInv
  <2>2. ASSUME NEW c \in Clients
        PROVE  StreamAt(c, 1)
    <3>1. WrittenBy(NoHandler("absent"), Alive("off"), 0, Got("off", <<>>) + Len(<<>>), 1)
      BY <1>1, NothingTyped DEF WrittenBy, Got
    <3> QED  BY <1>1, <1>3, <3>1, NothingTyped DEF StreamAt, Stream
  <2> QED  BY <2>1, <2>2 DEF StreamsInv
<1>7. EventsInv
  <2>1. InOrder
    BY <1>2, NothingTyped DEF InOrder
  <2>2. ASSUME NEW c \in Clients
        PROVE  Agree(srv[c], up[c], down[c], cli[c], typed[c])
    BY <1>1, <1>3 DEF Agree, Alive
  <2>3. ASSUME NEW c \in Clients
        PROVE  PassedAt(c, 0)
    <3>1. Waiting(c) = {} /\ Len(heard[c]) = 0
      BY <1>2, <1>3, NothingTyped DEF Waiting
    <3>2. {e \in 0..MaxTyped : 0 <= e /\ e < 0} = {}
      OBVIOUS
    <3>3. Passed(heard[c], Waiting(c), srv[c], 0)
      BY <1>3, <3>1, <3>2, NothingRuns DEF Passed
    <3>4. OnTheWay(srv[c], up[c], cli[c], typed[c], 0)
      BY <1>1, <1>3, NothingRuns DEF OnTheWay, Ahead
    <3> QED  BY <3>3, <3>4 DEF PassedAt
  <2>4. 0 \in 0..(MaxTyped + 1)
    BY <1>2
  <2> QED  BY <2>1, <2>2, <2>3, <2>4 DEF EventsInv
<1> QED
  BY <1>5, <1>6, <1>7 DEF AttachInv

-----------------------------------------------------------------------------
(* What the steps have in common.                                           *)

LEMMA ClientFacts ==
  ASSUME Typed, NEW c \in Clients
  PROVE  /\ srv[c] \in Handler /\ cli[c] \in Process
         /\ srv[c].at \in Phases /\ srv[c].cursor \in Nat /\ srv[c].cursor <= Len(log)
         /\ srv[c].held \in Seq(1..Len(log)) /\ srv[c].inHand \in Seq(0..MaxTyped)
         /\ cli[c].at \in {"off", "connecting", "on", "quit"} /\ cli[c].queue \in Seq(0..MaxTyped)
         /\ cli[c].hello \in BOOLEAN /\ cli[c].stop \in BOOLEAN
         /\ down[c] \in Seq(Frames) /\ up[c] \in Seq(0..MaxTyped) /\ shown[c] \in Seq(Frames)
         /\ heard[c] \in Seq(0..MaxTyped)
         /\ Len(down[c]) \in Nat /\ Len(up[c]) \in Nat /\ Len(heard[c]) \in Nat
         /\ Len(srv[c].inHand) \in Nat /\ Len(cli[c].queue) \in Nat
         /\ typed[c] \in 0..MaxTyped /\ since[c] \in Nat
         /\ log \in Seq(Nat) /\ Len(log) \in Nat /\ latch \in Nat /\ MaxTyped \in Nat
<1>1. /\ srv[c] \in Handler /\ cli[c] \in Process
      /\ srv[c].cursor \in 0..Len(log) /\ srv[c].held \in Seq(1..Len(log))
      /\ srv[c].inHand \in Seq(0..MaxTyped) /\ cli[c].queue \in Seq(0..MaxTyped)
      /\ down[c] \in Seq(Frames) /\ up[c] \in Seq(0..MaxTyped) /\ shown[c] \in Seq(Frames)
      /\ heard[c] \in Seq(0..MaxTyped) /\ typed[c] \in 0..MaxTyped /\ since[c] \in 0..MaxFrames
      /\ log \in Seq(0..MaxTitles) /\ latch \in 0..MaxTitles
      /\ MaxTyped \in Nat /\ MaxFrames \in Nat /\ MaxTitles \in Nat
  BY BoundAssumption DEF Typed, TypeOK
<1>2. /\ srv[c].at \in Phases /\ srv[c].cursor \in Nat
      /\ cli[c].at \in {"off", "connecting", "on", "quit"}
      /\ cli[c].hello \in BOOLEAN /\ cli[c].stop \in BOOLEAN
  BY <1>1 DEF Handler, Process
<1>3. /\ Len(down[c]) \in Nat /\ Len(up[c]) \in Nat /\ Len(heard[c]) \in Nat
      /\ Len(srv[c].inHand) \in Nat /\ Len(cli[c].queue) \in Nat /\ Len(log) \in Nat
  BY <1>1, LenProperties
<1>4. log \in Seq(Nat)
  <2>1. DOMAIN log = 1..Len(log) /\ \A i \in 1..Len(log) : log[i] \in 0..MaxTitles
    BY <1>1, SeqFacts
  <2>2. \A i \in 1..Len(log) : log[i] \in Nat
    BY <2>1
  <2>3. log = [i \in 1..Len(log) |-> log[i]]
    BY <1>1, <2>1
  <2> QED  BY <1>3, <2>2, <2>3
<1> QED
  BY <1>1, <1>2, <1>3, <1>4

\* The step is one of client c, or of its handler.
Others(c) ==
  \A d \in Clients \ {c} :
    /\ srv'[d] = srv[d] /\ down'[d] = down[d] /\ up'[d] = up[d] /\ cli'[d] = cli[d]
    /\ shown'[d] = shown[d] /\ typed'[d] = typed[d] /\ since'[d] = since[d]
    /\ heard'[d] = heard[d]

LEMMA StreamsStep ==
  ASSUME StreamsInv, NEW c \in Clients, Others(c), UNCHANGED <<log, latch, titling>>,
         NEW first \in {1, 2},
         Stream(log, latch, srv'[c], down'[c], cli'[c].at, shown'[c], since'[c], first)
  PROVE  StreamsInv'
<1>1. LogInv'
  BY DEF StreamsInv, LogInv
<1>2. ASSUME NEW d \in Clients
      PROVE  \E first2 \in {1, 2} : StreamAt(d, first2)'
  <2>1. CASE d = c
    BY <2>1 DEF StreamAt
  <2>2. CASE d # c
    <3>1. PICK first2 \in {1, 2} : StreamAt(d, first2)
      BY DEF StreamsInv
    <3>2. StreamAt(d, first2)'
      BY <2>2, <3>1 DEF StreamAt, Others
    <3> QED  BY <3>2
  <2> QED  BY <2>1, <2>2
<1> QED
  BY <1>1, <1>2 DEF StreamsInv

LEMMA EventsStep ==
  ASSUME EventsInv, NEW c \in Clients, Others(c), UNCHANGED session, InOrder',
         \A d \in Clients \ {c} : Waiting(d)' = Waiting(d),
         Agree(srv'[c], up'[c], down'[c], cli'[c], typed'[c]),
         NEW passed \in 0..(MaxTyped + 1), Passed(heard'[c], Waiting(c)', srv'[c], passed),
         session = "running" /\ srv'[c].at # "done" =>
           OnTheWay(srv'[c], up'[c], cli'[c], typed'[c], passed)
  PROVE  EventsInv'
<1>1. ASSUME NEW d \in Clients
      PROVE  /\ Agree(srv[d], up[d], down[d], cli[d], typed[d])'
             /\ \E passed2 \in 0..(MaxTyped + 1) : PassedAt(d, passed2)'
  <2>1. CASE d = c
    <3>1. PassedAt(c, passed)'
      BY DEF PassedAt
    <3> QED  BY <2>1, <3>1
  <2>2. CASE d # c
    <3>1. PICK passed2 \in 0..(MaxTyped + 1) : PassedAt(d, passed2)
      BY DEF EventsInv
    <3>2. PassedAt(d, passed2)'
      BY <2>2, <3>1 DEF PassedAt, Others
    <3>3. Agree(srv[d], up[d], down[d], cli[d], typed[d])'
      BY <2>2 DEF EventsInv, Others
    <3> QED  BY <3>2, <3>3
  <2> QED  BY <2>1, <2>2
<1> QED
  BY <1>1 DEF EventsInv

LEMMA SameEvents ==
  ASSUME UNCHANGED events
  PROVE  (InOrder => InOrder') /\ \A d : Waiting(d)' = Waiting(d)
  BY DEF InOrder, Waiting
-----------------------------------------------------------------------------
(* Steps of the session.                                                    *)

LEMMA StreamsGrow ==
  ASSUME Typed, StreamsInv, log' \in Seq(Nat), latch' \in Nat, Grows(log, latch, log', latch'),
         UNCHANGED <<srv, down, cli, shown, since>>, LogInv'
  PROVE  StreamsInv'
<1>1. ASSUME NEW c \in Clients
      PROVE  \E first \in {1, 2} : StreamAt(c, first)'
  <2>1. PICK first \in {1, 2} : StreamAt(c, first)
    BY DEF StreamsInv
  <2>2. /\ log \in Seq(Nat) /\ latch \in Nat /\ down[c] \in Seq(Frames) /\ shown[c] \in Seq(Frames)
        /\ since[c] \in Nat
    BY ClientFacts
  <2>3. Stream(log', latch', srv[c], down[c], cli[c].at, shown[c], since[c], first)
    BY <2>1, <2>2, StreamGrows DEF StreamAt
  <2>4. StreamAt(c, first)'
    BY <2>3 DEF StreamAt
  <2> QED  BY <2>4
<1> QED
  BY <1>1 DEF StreamsInv

LEMMA EventsSame ==
  ASSUME EventsInv, UNCHANGED <<session, inward, srv, down, up, cli, typed>>
  PROVE  EventsInv'
<1>1. UNCHANGED <<events, heard>>
  BY DEF inward
<1>2. InOrder' /\ \A d : Waiting(d)' = Waiting(d)
  BY <1>1, SameEvents DEF EventsInv
<1>3. ASSUME NEW d \in Clients
      PROVE  /\ Agree(srv[d], up[d], down[d], cli[d], typed[d])'
             /\ \E passed \in 0..(MaxTyped + 1) : PassedAt(d, passed)'
  <2>1. PICK passed \in 0..(MaxTyped + 1) : PassedAt(d, passed)
    BY DEF EventsInv
  <2>2. PassedAt(d, passed)'
    BY <1>1, <1>2, <2>1 DEF PassedAt
  <2>3. Agree(srv[d], up[d], down[d], cli[d], typed[d])'
    BY DEF EventsInv
  <2> QED  BY <2>2, <2>3
<1> QED
  BY <1>2, <1>3 DEF EventsInv

\* A log with one more frame.
LEMMA LogPut ==
  ASSUME Typed, StreamsInv, NEW t \in 0..MaxTitles, Len(log) < MaxFrames,
         log' = Append(log, t), t = titling, titling' = 0, UNCHANGED latch
  PROVE  /\ log' \in Seq(0..MaxTitles) /\ Len(log') = Len(log) + 1 /\ Len(log) \in Nat
         /\ log' \in Seq(Nat) /\ Grows(log, latch, log', latch') /\ LogInv'
<1>1. log \in Seq(0..MaxTitles) /\ latch \in 0..MaxTitles /\ MaxTitles \in Nat /\ titling \in 0..latch
  BY BoundAssumption DEF Typed, TypeOK
<1>2. /\ log' \in Seq(0..MaxTitles) /\ Len(log') = Len(log) + 1 /\ Len(log) \in Nat
      /\ \A i \in 1..Len(log) : log'[i] = log[i]
      /\ log'[Len(log) + 1] = t
  BY <1>1, AppendProperties
<1>3. DOMAIN log = 1..Len(log) /\ \A i \in 1..Len(log) : log[i] \in 0..MaxTitles
  BY <1>1, SeqFacts
<1>4. DOMAIN log' = 1..Len(log') /\ \A i \in 1..Len(log') : log'[i] \in 0..MaxTitles
  <2>1. ASSUME NEW s \in Seq(0..MaxTitles)
        PROVE  DOMAIN s = 1..Len(s) /\ \A i \in 1..Len(s) : s[i] \in 0..MaxTitles
    BY SeqFacts
  <2> QED  BY <1>2, <2>1
<1>5. log' \in Seq(Nat)
  <2>1. ASSUME NEW s \in Seq(0..MaxTitles)
        PROVE  s \in Seq(Nat)
    BY <1>1, EventNumbers
  <2> QED  BY <1>2, <2>1
<1>6. /\ \A i \in 1..Len(log) : log[i] <= latch
      /\ t # 0 => t = latch /\ \A i \in 1..Len(log) : log[i] < latch
      /\ \A i, j \in 1..Len(log) : i < j /\ log[i] # 0 /\ log[j] # 0 => log[i] <= log[j]
  BY <1>3 DEF StreamsInv, LogInv
<1>7. \A i \in 1..Len(log') : i \in 1..Len(log) \/ i = Len(log) + 1
  BY <1>2
<1>8. Grows(log, latch, log', latch')
  <2>1. \A i \in 1..Len(log') : \/ i \in 1..Len(log) /\ log'[i] = log[i]
                                \/ log'[i] = 0
                                \/ latch <= log'[i]
    BY <1>1, <1>2, <1>6, <1>7
  <2> QED  BY <1>1, <1>2, <1>3, <1>4, <2>1 DEF Grows
<1>9. LogInv'
  <2>1. \A i \in 1..Len(log') : log'[i] <= latch
    BY <1>1, <1>2, <1>6, <1>7
  <2>3. ASSUME NEW i \in 1..Len(log'), NEW j \in 1..Len(log'), i < j, log'[i] # 0, log'[j] # 0
        PROVE  log'[i] <= log'[j]
    <3>1. i \in 1..Len(log)
      BY <1>2, <2>3
    <3>2. CASE j \in 1..Len(log)
      BY <1>2, <1>6, <2>3, <3>1, <3>2
    <3>3. CASE j = Len(log) + 1
      BY <1>1, <1>2, <1>6, <2>3, <3>1, <3>3
    <3> QED  BY <1>7, <3>2, <3>3
  <2> QED  BY <1>4, <2>1, <2>3 DEF LogInv
<1> QED
  BY <1>2, <1>5, <1>8, <1>9

LEMMA BroadcastStep ==
  ASSUME AttachInv, Output \/ BroadcastTitle
  PROVE  AttachInv'
<1>1. /\ Typed /\ StreamsInv /\ LogInv
      /\ titling \in 0..MaxTitles /\ log' = Append(log, titling) /\ titling' = 0
      /\ UNCHANGED <<latch, session, accepting, inward, srv, down, up, client, since>>
  BY BoundAssumption DEF Output, BroadcastTitle, AttachInv, Typed, TypeOK, StreamsInv
<1>2. Len(log) < MaxFrames
  BY <1>1 DEF Output, BroadcastTitle, LogInv
<1>3. /\ log' \in Seq(0..MaxTitles) /\ Len(log') = Len(log) + 1 /\ Len(log) \in Nat
      /\ log' \in Seq(Nat) /\ Grows(log, latch, log', latch') /\ LogInv'
  BY <1>1, <1>2, LogPut
<1>4. UNCHANGED <<events, heard, cli, shown, typed>>
  BY <1>1 DEF inward, client
<1>5. Typed'
  <2>1. ASSUME NEW c \in Clients
        PROVE  srv[c].cursor \in 0..(Len(log) + 1) /\ srv[c].held \in Seq(1..(Len(log) + 1))
    <3>1. srv[c].cursor \in 0..Len(log) /\ srv[c].held \in Seq(1..Len(log))
      BY <1>1 DEF Typed, TypeOK
    <3>2. 0..Len(log) \subseteq 0..(Len(log) + 1) /\ 1..Len(log) \subseteq 1..(Len(log) + 1)
      BY <1>3
    <3> QED  BY <3>1, <3>2
  <2>2. Len(log) + 1 <= MaxFrames
    BY <1>2, <1>3, BoundAssumption
  <2>3. titling' \in 0..latch'
    BY <1>1 DEF Typed, TypeOK
  <2> QED  BY <1>1, <1>3, <1>4, <2>1, <2>2, <2>3 DEF Typed, TypeOK
<1>6. StreamsInv'
  <2>1. latch' \in Nat
    BY <1>1, BoundAssumption DEF Typed, TypeOK
  <2> QED  BY <1>1, <1>3, <1>4, <2>1, StreamsGrow
<1>7. EventsInv'
  BY <1>1, <1>4, EventsSame DEF AttachInv
<1> QED
  BY <1>5, <1>6, <1>7 DEF AttachInv

LEMMA LatchStep ==
  ASSUME AttachInv, LatchTitle
  PROVE  AttachInv'
<1>1. /\ Typed /\ StreamsInv /\ LogInv
      /\ latch < MaxTitles /\ latch' = latch + 1 /\ titling' = latch + 1 /\ Len(log) < MaxFrames
      /\ UNCHANGED <<log, session, accepting, events, heard, srv, down, up, cli, shown, typed, since>>
  BY DEF LatchTitle, AttachInv, StreamsInv, inward, client
<1>2. /\ log \in Seq(Nat) /\ latch \in 0..MaxTitles /\ MaxTitles \in Nat
      /\ DOMAIN log = 1..Len(log) /\ Len(log) \in Nat
      /\ \A i \in DOMAIN log : log[i] \in Nat
  <2>1. log \in Seq(0..MaxTitles) /\ latch \in 0..MaxTitles /\ MaxTitles \in Nat
    BY <1>1, BoundAssumption DEF Typed, TypeOK
  <2>2. log \in Seq(Nat)
    BY <2>1, EventNumbers
  <2> QED  BY <2>1, <2>2, SeqFacts
<1>3. latch' \in 0..MaxTitles /\ titling' \in 0..latch'
  BY <1>1, <1>2
<1>4. Typed'
  BY <1>1, <1>3 DEF Typed, TypeOK
<1>5. LogInv'
  BY <1>1, <1>2 DEF LogInv
<1>6. Grows(log, latch, log', latch')
  BY <1>1, <1>2 DEF Grows
<1>7. StreamsInv'
  <2>1. log' \in Seq(Nat) /\ latch' \in Nat
    BY <1>1, <1>2, <1>3
  <2> QED  BY <1>1, <1>5, <1>6, <2>1, StreamsGrow
<1>8. EventsInv'
  <2>1. UNCHANGED inward
    BY <1>1 DEF inward
  <2> QED  BY <1>1, <2>1, EventsSame DEF AttachInv
<1> QED
  BY <1>4, <1>7, <1>8 DEF AttachInv
-----------------------------------------------------------------------------
(* Steps of one client, or of its handler.                                  *)

\* The states of a handler h, of a connection and of a client process p.
Fits(h, wire, u, p, read, t, from) ==
  /\ log \in Seq(Nat) /\ latch \in Nat
  /\ h \in Handler /\ h.cursor \in 0..Len(log) /\ h.held \in Seq(1..Len(log))
  /\ h.inHand \in Seq(0..MaxTyped)
  /\ wire \in Seq(Frames) /\ Len(wire) <= WireCap
  /\ u \in Seq(0..MaxTyped) /\ Len(u) <= WireCap
  /\ p \in Process /\ p.queue \in Seq(0..MaxTyped)
  /\ read \in Seq(Frames) /\ t \in 0..MaxTyped /\ from \in 0..MaxFrames

\* What the invariant says of a client c that is in this state.
Kept(c, waiting, h, wire, u, p, read, t, from, first, passed) ==
  /\ first \in {1, 2} /\ passed \in 0..(MaxTyped + 1)
  /\ Fits(h, wire, u, p, read, t, from)
  /\ Stream(log, latch, h, wire, p.at, read, from, first)
  /\ Agree(h, u, wire, p, t)
  /\ Passed(heard[c], waiting, h, passed)
  /\ session = "running" /\ h.at # "done" => OnTheWay(h, u, p, t, passed)

LEMMA KeptNow ==
  ASSUME AttachInv, NEW c \in Clients
  PROVE  \E first, passed :
           Kept(c, Waiting(c), srv[c], down[c], up[c], cli[c], shown[c], typed[c], since[c],
                first, passed)
<1>1. PICK first \in {1, 2} : StreamAt(c, first)
  BY DEF AttachInv, StreamsInv
<1>2. PICK passed \in 0..(MaxTyped + 1) : PassedAt(c, passed)
  BY DEF AttachInv, EventsInv
<1>3. Agree(srv[c], up[c], down[c], cli[c], typed[c])
  BY DEF AttachInv, EventsInv
<1>4. Fits(srv[c], down[c], up[c], cli[c], shown[c], typed[c], since[c])
  <2>1. log \in Seq(Nat) /\ latch \in Nat
    BY ClientFacts DEF AttachInv
  <2> QED  BY <2>1 DEF AttachInv, Typed, TypeOK, Fits
<1> QED
  BY <1>1, <1>2, <1>3, <1>4 DEF Kept, StreamAt, PassedAt

LEMMA Unmoved ==
  ASSUME AttachInv, NEW c \in Clients
  PROVE  /\ srv = [srv EXCEPT ![c] = srv[c]] /\ down = [down EXCEPT ![c] = down[c]]
         /\ up = [up EXCEPT ![c] = up[c]] /\ cli = [cli EXCEPT ![c] = cli[c]]
         /\ shown = [shown EXCEPT ![c] = shown[c]] /\ typed = [typed EXCEPT ![c] = typed[c]]
         /\ since = [since EXCEPT ![c] = since[c]]
  BY DEF AttachInv, Typed, TypeOK

LEMMA LocalStep ==
  ASSUME AttachInv, NEW c \in Clients, UNCHANGED <<bridge, heard>>,
         NEW h, NEW wire, NEW u, NEW p, NEW read, NEW t, NEW from,
         srv' = [srv EXCEPT ![c] = h], down' = [down EXCEPT ![c] = wire],
         up' = [up EXCEPT ![c] = u], cli' = [cli EXCEPT ![c] = p],
         shown' = [shown EXCEPT ![c] = read], typed' = [typed EXCEPT ![c] = t],
         since' = [since EXCEPT ![c] = from],
         events' \in Seq(Clients \X (0..MaxTyped)), Len(events') <= EventCap, InOrder',
         \A d \in Clients \ {c} : Waiting(d)' = Waiting(d),
         NEW first, NEW passed,
         Kept(c, Waiting(c)', h, wire, u, p, read, t, from, first, passed)
  PROVE  AttachInv'
<1>1. /\ Typed /\ StreamsInv /\ EventsInv
      /\ UNCHANGED <<log, latch, titling, session, accepting, heard>>
  BY DEF AttachInv, bridge
<1>2. /\ first \in {1, 2} /\ passed \in 0..(MaxTyped + 1)
      /\ Fits(h, wire, u, p, read, t, from)
      /\ Stream(log, latch, h, wire, p.at, read, from, first)
      /\ Agree(h, u, wire, p, t) /\ Passed(heard[c], Waiting(c)', h, passed)
      /\ session = "running" /\ h.at # "done" => OnTheWay(h, u, p, t, passed)
  BY DEF Kept
<1>3. /\ srv \in [Clients -> Handler] /\ cli \in [Clients -> Process]
      /\ down \in [Clients -> Seq(Frames)] /\ up \in [Clients -> Seq(0..MaxTyped)]
      /\ shown \in [Clients -> Seq(Frames)] /\ typed \in [Clients -> 0..MaxTyped]
      /\ since \in [Clients -> 0..MaxFrames]
  BY <1>1 DEF Typed, TypeOK
<1>4. /\ srv'[c] = h /\ down'[c] = wire /\ up'[c] = u /\ cli'[c] = p /\ shown'[c] = read
      /\ typed'[c] = t /\ since'[c] = from
  BY <1>3
<1>5. Others(c)
  BY <1>1, <1>3 DEF Others
<1>6. Typed'
  <2>1. /\ srv' \in [Clients -> Handler] /\ cli' \in [Clients -> Process]
        /\ down' \in [Clients -> Seq(Frames)] /\ up' \in [Clients -> Seq(0..MaxTyped)]
        /\ shown' \in [Clients -> Seq(Frames)] /\ typed' \in [Clients -> 0..MaxTyped]
        /\ since' \in [Clients -> 0..MaxFrames]
    BY <1>2, <1>3 DEF Fits
  <2>2. ASSUME NEW d \in Clients
        PROVE  /\ srv'[d].cursor \in 0..Len(log) /\ srv'[d].held \in Seq(1..Len(log))
               /\ Len(down'[d]) <= WireCap /\ Len(up'[d]) <= WireCap
               /\ srv'[d].inHand \in Seq(0..MaxTyped) /\ cli'[d].queue \in Seq(0..MaxTyped)
    <3>1. CASE d = c
      BY <1>2, <1>4, <3>1 DEF Fits
    <3>2. CASE d # c
      BY <1>1, <1>5, <3>2 DEF Others, Typed, TypeOK
    <3> QED  BY <3>1, <3>2
  <2>3. /\ log \in Seq(0..MaxTitles) /\ Len(log) <= MaxFrames
        /\ latch \in 0..MaxTitles /\ titling \in 0..latch
        /\ session \in {"running", "gone"} /\ accepting \in BOOLEAN
        /\ heard \in [Clients -> Seq(0..MaxTyped)]
    BY <1>1 DEF Typed, TypeOK
  <2> QED  BY <1>1, <2>1, <2>2, <2>3 DEF Typed, TypeOK
<1>7. StreamsInv'
  BY <1>1, <1>2, <1>4, <1>5, StreamsStep
<1>8. EventsInv'
  BY <1>1, <1>2, <1>4, <1>5, EventsStep
<1> QED
  BY <1>6, <1>7, <1>8 DEF AttachInv

\* The step leaves the channel alone.
LEMMA QuietStep ==
  ASSUME AttachInv, NEW c \in Clients, UNCHANGED <<bridge, inward>>,
         NEW h, NEW wire, NEW u, NEW p, NEW read, NEW t, NEW from,
         srv' = [srv EXCEPT ![c] = h], down' = [down EXCEPT ![c] = wire],
         up' = [up EXCEPT ![c] = u], cli' = [cli EXCEPT ![c] = p],
         shown' = [shown EXCEPT ![c] = read], typed' = [typed EXCEPT ![c] = t],
         since' = [since EXCEPT ![c] = from],
         NEW first, NEW passed,
         Kept(c, Waiting(c), h, wire, u, p, read, t, from, first, passed)
  PROVE  AttachInv'
<1>1. UNCHANGED <<events, heard>>
  BY DEF inward
<1>2. InOrder' /\ (\A d : Waiting(d)' = Waiting(d))
      /\ events' \in Seq(Clients \X (0..MaxTyped)) /\ Len(events') <= EventCap
  BY <1>1, SameEvents DEF AttachInv, EventsInv, Typed, TypeOK
<1>3. UNCHANGED <<bridge, heard>> /\ Waiting(c)' = Waiting(c)
  BY <1>1, <1>2
<1> QED
  BY <1>2, <1>3, LocalStep
-----------------------------------------------------------------------------
(* Steps of a handler and of its reader task.                               *)

LEMMA KeptFacts ==
  ASSUME NEW c, NEW w, NEW h, NEW wire, NEW u, NEW p, NEW read, NEW t, NEW from,
         NEW first, NEW passed,
         Kept(c, w, h, wire, u, p, read, t, from, first, passed)
  PROVE  /\ first \in {1, 2} /\ latch \in Nat /\ log \in Seq(Nat)
         /\ h \in Handler /\ h.at \in Phases /\ h.cursor \in Nat
         /\ Len(h.inHand) \in Nat /\ Len(u) \in Nat /\ Len(wire) \in Nat /\ Len(read) \in Nat
         /\ p.at \in {"off", "connecting", "on", "quit"} /\ Len(p.queue) \in Nat
         /\ p.hello \in BOOLEAN /\ p.stop \in BOOLEAN
         /\ Got(p.at, read) \in Nat /\ passed \in Nat /\ Ahead(h, passed) \in Nat
         /\ from \in Nat /\ t \in Nat /\ MaxTyped \in Nat /\ Len(log) \in Nat
         /\ Alive(p.at) <=> p.at # "off" /\ p.at # "quit"
         /\ ~Alive(p.at) => wire = <<>> /\ Len(wire) = 0 /\ Got(p.at, read) = 0
<1>1. /\ Fits(h, wire, u, p, read, t, from) /\ MaxTyped \in Nat /\ MaxFrames \in Nat
      /\ first \in {1, 2} /\ passed \in 0..(MaxTyped + 1)
  BY BoundAssumption DEF Kept
<1>2. /\ h \in Handler /\ h.at \in Phases /\ h.cursor \in Nat
      /\ p.at \in {"off", "connecting", "on", "quit"} /\ p.hello \in BOOLEAN /\ p.stop \in BOOLEAN
      /\ from \in Nat /\ t \in Nat /\ passed \in Nat
  BY <1>1 DEF Fits, Handler, Process
<1>3. /\ Len(h.inHand) \in Nat /\ Len(u) \in Nat /\ Len(wire) \in Nat /\ Len(read) \in Nat
      /\ Len(p.queue) \in Nat /\ Len(log) \in Nat
  BY <1>1, LenProperties DEF Fits
<1>7. latch \in Nat /\ log \in Seq(Nat)
  BY <1>1 DEF Fits
<1>4. Got(p.at, read) \in Nat /\ Ahead(h, passed) \in Nat
  BY <1>2, <1>3 DEF Got, Ahead
<1>5. Alive(p.at) <=> p.at # "off" /\ p.at # "quit"
  BY <1>2 DEF Alive
<1>6. ~Alive(p.at) => wire = <<>> /\ Len(wire) = 0 /\ Got(p.at, read) = 0
  BY NothingTyped DEF Kept, Stream, Got, Alive
<1> QED
  BY <1>1, <1>2, <1>3, <1>4, <1>5, <1>6, <1>7

\* The handler goes to another phase.
LEMMA MovesOn ==
  ASSUME NEW c, NEW w, NEW h, NEW wire, NEW u, NEW p, NEW read, NEW t, NEW from,
         NEW first, NEW passed,
         Kept(c, w, h, wire, u, p, read, t, from, first, passed),
         NEW at2, \/ h.at = "backlog" /\ at2 \in {"hello", "done"}
                  \/ h.at = "stream" /\ h.held = <<>> /\ at2 = "goodbye"
  PROVE  Kept(c, w, [h EXCEPT !.at = at2], wire, u, p, read, t, from, first, passed)
<1> DEFINE h2 == [h EXCEPT !.at = at2]
<1>1. h \in Handler
  BY KeptFacts
<1>2. /\ h2 \in Handler /\ h2.at = at2 /\ h2.cursor = h.cursor /\ h2.held = h.held
      /\ h2.inHand = h.inHand
  BY <1>1 DEF Handler, Phases
<1> HIDE DEF h2
<1>3. Fits(h2, wire, u, p, read, t, from)
  BY <1>2 DEF Kept, Fits
<1>4. Stream(log, latch, h2, wire, p.at, read, from, first)
  <2>1. WrittenBy(h2, Alive(p.at), from, Got(p.at, read) + Len(wire), first)
    BY <1>2 DEF Kept, Stream, WrittenBy
  <2>2. h2.at \notin {"size", "subscribe"} => h.at \notin {"size", "subscribe"}
    OBVIOUS
  <2>3. h.at = "done" => h2.at = "done"
    OBVIOUS
  <2>4. Stream(log, latch, h, wire, p.at, read, from, first)
    BY DEF Kept
  <2> QED  BY <2>1, <2>2, <2>3, <2>4, StreamPhase
<1>5. Agree(h2, u, wire, p, t)
  BY <1>2 DEF Kept, Agree
<1>6. Passed(heard[c], w, h2, passed)
  BY <1>2 DEF Kept, Passed
<1>7. session = "running" /\ h2.at # "done" => OnTheWay(h2, u, p, t, passed)
  <2>1. Ahead(h2, passed) = Ahead(h, passed) /\ (h2.at # "done" => h.at # "done")
    BY <1>2 DEF Ahead
  <2> QED  BY <1>2, <2>1 DEF Kept, OnTheWay
<1> QED
  BY <1>3, <1>4, <1>5, <1>6, <1>7 DEF Kept, h2

\* What has been written to a client when a frame has.
Wrote(p, wire, frame) == IF p.at = "quit" THEN wire ELSE Append(wire, frame)

LEMMA StreamWrote ==
  ASSUME NEW c, NEW w, NEW h, NEW wire, NEW u, NEW p, NEW read, NEW t, NEW from,
         NEW first, NEW passed,
         Kept(c, w, h, wire, u, p, read, t, from, first, passed),
         h.at \notin {"absent", "done"}, NEW frame \in Frames,
         Len(wire) < WireCap \/ p.at = "quit",
         NEW h2, h2.at \notin {"size", "subscribe"} => h.at \notin {"size", "subscribe"},
         Alive(p.at) =>
           /\ \/ FrameAt(log, latch, h2.at, from, frame, Got(p.at, read) + (Len(wire) + 1), first)
              \/ frame.kind = "goodbye" /\ h2.at = "done"
           /\ WrittenBy(h2, TRUE, from, Got(p.at, read) + (Len(wire) + 1), first),
         ~Alive(p.at) => WrittenBy(h2, FALSE, from, 0, first)
  PROVE  /\ Stream(log, latch, h2, Wrote(p, wire, frame), p.at, read, from, first)
         /\ Wrote(p, wire, frame) \in Seq(Frames) /\ Len(Wrote(p, wire, frame)) <= WireCap
<1>1. /\ wire \in Seq(Frames) /\ Len(wire) <= WireCap /\ Len(wire) \in Nat
      /\ Stream(log, latch, h, wire, p.at, read, from, first)
  BY KeptFacts DEF Kept, Fits
<1>2. Alive(p.at) <=> p.at # "quit"
  BY KeptFacts DEF Kept, Agree
<1>3. CASE Alive(p.at)
  <2>1. Wrote(p, wire, frame) = Append(wire, frame)
    BY <1>2, <1>3 DEF Wrote
  <2>2. Append(wire, frame) \in Seq(Frames) /\ Len(Append(wire, frame)) = Len(wire) + 1
    BY <1>1, AppendProperties
  <2>3. Len(wire) + 1 <= WireCap
    BY <1>1, <1>2, <1>3, CapAssumption
  <2>4. Stream(log, latch, h2, Append(wire, frame), p.at, read, from, first)
    <3>1. \/ FrameAt(log, latch, h2.at, from, frame, Got(p.at, read) + (Len(wire) + 1), first)
          \/ frame.kind = "goodbye" /\ h2.at = "done"
      BY <1>3
    <3>2. WrittenBy(h2, TRUE, from, Got(p.at, read) + (Len(wire) + 1), first)
      BY <1>3
    <3> QED  BY <1>1, <1>3, <3>1, <3>2, StreamWrites
  <2> QED  BY <2>1, <2>2, <2>3, <2>4
<1>4. CASE ~Alive(p.at)
  <2>1. Wrote(p, wire, frame) = wire
    BY <1>2, <1>4 DEF Wrote
  <2>2. Got(p.at, read) + Len(wire) = 0
    BY <1>4, KeptFacts
  <2>3. WrittenBy(h2, Alive(p.at), from, Got(p.at, read) + Len(wire), first)
    BY <1>4, <2>2 DEF WrittenBy
  <2>4. h.at = "done" => h2.at = "done"
    OBVIOUS
  <2>5. Stream(log, latch, h2, wire, p.at, read, from, first)
    BY <1>1, <2>3, <2>4, StreamPhase
  <2> QED  BY <1>1, <2>1, <2>5
<1> QED
  BY <1>3, <1>4

\* The handler returns, with or without a Goodbye.
LEMMA Finishes ==
  ASSUME NEW c, NEW w, NEW h, NEW wire, NEW u, NEW p, NEW read, NEW t, NEW from,
         NEW first, NEW passed,
         Kept(c, w, h, wire, u, p, read, t, from, first, passed),
         h.at \in {"hello", "stream", "goodbye"}, NEW frame, frame = [kind |-> "goodbye", n |-> 0],
         NEW wire2, \/ wire2 = wire
                    \/ /\ h.at = "goodbye" /\ wire2 = Wrote(p, wire, frame)
                       /\ Len(wire) < WireCap \/ p.at = "quit"
  PROVE  Kept(c, w, NoHandler("done"), wire2, <<>>, p, read, t, from, first, passed)
<1> DEFINE h2 == NoHandler("done")
<1>1. /\ h2 \in Handler /\ h2.at = "done" /\ h2.cursor = 0 /\ h2.held = <<>> /\ h2.inHand = <<>>
      /\ Len(<<>>) = 0 /\ (\A S : <<>> \in Seq(S))
  BY NothingTyped DEF NoHandler, Handler, Phases
<1> HIDE DEF h2
<1>2. \A alive, written : WrittenBy(h2, alive, from, written, first)
  BY <1>1 DEF WrittenBy
<1>3. frame \in Frames /\ frame.kind = "goodbye" /\ h.at \notin {"absent", "done"}
  BY DEF Frames
<1>4. /\ Stream(log, latch, h2, wire2, p.at, read, from, first)
      /\ wire2 \in Seq(Frames) /\ Len(wire2) <= WireCap
  <2>1. CASE wire2 = wire
    <3>1. Stream(log, latch, h, wire, p.at, read, from, first) /\ wire \in Seq(Frames) /\ Len(wire) <= WireCap
      BY DEF Kept, Fits
    <3>2. WrittenBy(h2, Alive(p.at), from, Got(p.at, read) + Len(wire), first)
      BY <1>2
    <3>3. h.at \notin {"size", "subscribe"}
      OBVIOUS
    <3>4. Stream(log, latch, h2, wire, p.at, read, from, first)
      BY <1>1, <3>1, <3>2, <3>3, StreamPhase
    <3> QED  BY <2>1, <3>1, <3>4
  <2>2. CASE /\ h.at = "goodbye" /\ wire2 = Wrote(p, wire, frame)
             /\ Len(wire) < WireCap \/ p.at = "quit"
    BY <1>1, <1>2, <1>3, <2>2, StreamWrote, ZenonT(40)
  <2> QED  BY <2>1, <2>2
<1>5. h \in Handler /\ p \in Process /\ WireCap \in Nat
  BY CapAssumption DEF Kept, Fits
<1>6. Fits(h2, wire2, <<>>, p, read, t, from)
  <2>1. 0 \in 0..Len(log)
    BY KeptFacts
  <2> QED  BY <1>1, <1>4, <1>5, <2>1 DEF Kept, Fits
<1>7. Agree(h2, <<>>, wire2, p, t)
  <2>1. wire2 = wire \/ h.at = "goodbye"
    OBVIOUS
  <2> QED  BY <1>1, <2>1 DEF Kept, Agree
<1>8. Passed(heard[c], w, h2, passed)
  BY <1>1 DEF Kept, Passed
<1> QED
  BY <1>1, <1>4, <1>6, <1>7, <1>8 DEF Kept, h2
\* The handler has read a Hello that is right.
LEMMA Greets ==
  ASSUME NEW c, NEW w, NEW h, NEW wire, NEW u, NEW p, NEW read, NEW t, NEW from,
         NEW first, NEW passed,
         Kept(c, w, h, wire, u, p, read, t, from, first, passed),
         h.at = "hello", u # <<>>, Len(wire) < WireCap \/ p.at = "quit",
         NEW frame, frame = [kind |-> "ok", n |-> 0]
  PROVE  Kept(c, w, [h EXCEPT !.at = "latch"], Wrote(p, wire, frame), Tail(u), p, read, t, from,
              first, passed)
<1> DEFINE h2 == [h EXCEPT !.at = "latch"]
           u2 == Tail(u)
<1>1. /\ h \in Handler /\ Fits(h, wire, u, p, read, t, from) /\ Agree(h, u, wire, p, t)
      /\ Stream(log, latch, h, wire, p.at, read, from, first) /\ Passed(heard[c], w, h, passed)
      /\ session = "running" => OnTheWay(h, u, p, t, passed)
      /\ Len(wire) \in Nat /\ Got(p.at, read) \in Nat /\ WireCap \in Nat /\ MaxTyped \in Nat
      /\ first \in {1, 2}
  BY KeptFacts, CapAssumption DEF Kept
<1>2. /\ h2 \in Handler /\ h2.at = "latch" /\ h2.cursor = h.cursor /\ h2.held = h.held
      /\ h2.inHand = h.inHand /\ h.inHand = <<>> /\ passed = 0
  BY <1>1 DEF Handler, Phases, Agree, Passed
<1>3. frame \in Frames /\ frame.kind = "ok"
  BY DEF Frames
<1>4. u \in Seq(0..MaxTyped) /\ u2 \in Seq(0..MaxTyped) /\ Len(u2) = Len(u) - 1 /\ Len(u) \in Nat \ {0}
  BY <1>1, HeadTailProperties, EmptySeq DEF Fits
<1> HIDE DEF h2, u2
<1>5. Got(p.at, read) + Len(wire) = 0
  BY <1>1 DEF Stream, WrittenBy
<1>6. Got(p.at, read) + (Len(wire) + 1) = 1
  BY <1>1, <1>5
<1>7. \A alive : WrittenBy(h2, alive, from, 1, first)
  BY <1>2 DEF WrittenBy
<1>8. ~Alive(p.at) => WrittenBy(h2, FALSE, from, 0, first)
  BY <1>2 DEF WrittenBy
<1>9. /\ Stream(log, latch, h2, Wrote(p, wire, frame), p.at, read, from, first)
      /\ Wrote(p, wire, frame) \in Seq(Frames) /\ Len(Wrote(p, wire, frame)) <= WireCap
  <2>1. FrameAt(log, latch, h2.at, from, frame, 1, first)
    BY <1>3 DEF FrameAt
  <2>2. h2.at \notin {"size", "subscribe"} => h.at \notin {"size", "subscribe"}
    OBVIOUS
  <2>3. Alive(p.at) =>
          /\ FrameAt(log, latch, h2.at, from, frame, Got(p.at, read) + (Len(wire) + 1), first)
          /\ WrittenBy(h2, TRUE, from, Got(p.at, read) + (Len(wire) + 1), first)
    BY <1>6, <1>7, <2>1
  <2> QED  BY <1>3, <1>8, <2>2, <2>3, StreamWrote, ZenonT(40)
<1>10. Fits(h2, Wrote(p, wire, frame), u2, p, read, t, from)
  BY <1>1, <1>2, <1>4, <1>9 DEF Fits
<1>11. Agree(h2, u2, Wrote(p, wire, frame), p, t)
  BY <1>1, <1>2, SMTT(40) DEF Agree
<1>12. Passed(heard[c], w, h2, passed)
  BY <1>1, <1>2 DEF Passed
<1>13. ASSUME session = "running"
       PROVE  OnTheWay(h2, u2, p, t, passed)
  <2>1. Ahead(h, passed) = 0 /\ Ahead(h2, passed) = 1 /\ Len(h.inHand) = 0 /\ Len(p.queue) \in Nat
    BY <1>2, KeptFacts, NothingTyped DEF Ahead
  <2>2. OnTheWay(h, u, p, t, passed)
    BY <1>1, <1>13
  <2>3. RunFrom(u, 0)
    BY <1>2, <2>1, <2>2 DEF OnTheWay
  <2>4. RunFrom(u2, 1)
    <3>1. 0..MaxTyped \in SUBSET Nat
      OBVIOUS
    <3>2. RunFrom(Tail(u), 0 + 1)
      BY <1>4, <2>3, <3>1, FirstRuns
    <3> QED  BY <3>2 DEF u2
  <2>5. RunFrom(h2.inHand, 1)
    BY <1>2, NothingRuns
  <2>6. 1 + 0 = 1 /\ 0 + 0 + Len(u) = Len(u) /\ 1 + 0 + Len(u2) = Len(u)
    BY <1>4
  <2> QED  BY <1>2, <2>1, <2>2, <2>4, <2>5, <2>6 DEF OnTheWay
<1> QED
  BY <1>1, <1>2, <1>9, <1>10, <1>11, <1>12, <1>13 DEF Kept, h2, u2

\* The handler has looked for a title, and written it if there is one.
LEMMA Replays ==
  ASSUME NEW c, NEW w, NEW h, NEW wire, NEW u, NEW p, NEW read, NEW t, NEW from,
         NEW first, NEW passed,
         Kept(c, w, h, wire, u, p, read, t, from, first, passed),
         h.at = "latch", Len(wire) < WireCap \/ p.at = "quit",
         NEW frame, frame = [kind |-> "title", n |-> latch],
         NEW wire2, wire2 = IF latch = 0 THEN wire ELSE Wrote(p, wire, frame)
  PROVE  \E first2 : Kept(c, w, [h EXCEPT !.at = "size"], wire2, u, p, read, t, from,
                          first2, passed)
<1> DEFINE h2 == [h EXCEPT !.at = "size"]
           first2 == IF latch = 0 THEN 1 ELSE 2
<1>1. /\ h \in Handler /\ Fits(h, wire, u, p, read, t, from) /\ Agree(h, u, wire, p, t)
      /\ Stream(log, latch, h, wire, p.at, read, from, first) /\ Passed(heard[c], w, h, passed)
      /\ session = "running" => OnTheWay(h, u, p, t, passed)
      /\ Len(wire) \in Nat /\ Got(p.at, read) \in Nat /\ WireCap \in Nat /\ latch \in Nat
      /\ first \in {1, 2} /\ read \in Seq(Frames) /\ wire \in Seq(Frames) /\ Len(wire) <= WireCap
  BY KeptFacts, CapAssumption DEF Kept, Fits
<1>2. /\ h2 \in Handler /\ h2.at = "size" /\ h2.cursor = h.cursor /\ h2.held = h.held
      /\ h2.inHand = h.inHand
  BY <1>1 DEF Handler, Phases
<1>3. frame \in Frames /\ frame.kind = "title" /\ frame.n = latch
  BY <1>1 DEF Frames
<1>4. first2 \in {1, 2}
  OBVIOUS
<1>14. /\ latch = 0 => first2 = 1 /\ wire2 = wire
       /\ latch # 0 => first2 = 2 /\ wire2 = Wrote(p, wire, frame)
  OBVIOUS
<1> HIDE DEF h2, first2
<1>5. Stream(log, latch, h, wire, p.at, read, from, first2)
  BY <1>1, <1>4, StreamLatch
<1>6. Alive(p.at) => Got(p.at, read) + Len(wire) = 1
  BY <1>1 DEF Stream, WrittenBy
<1>7. \A written : WrittenBy(h2, FALSE, from, written, first2)
  BY <1>2 DEF WrittenBy
<1>8. WrittenBy(h2, TRUE, from, first2, first2)
  BY <1>2 DEF WrittenBy
<1>9. /\ Stream(log, latch, h2, wire2, p.at, read, from, first2)
      /\ wire2 \in Seq(Frames) /\ Len(wire2) <= WireCap
  <2>1. CASE latch = 0
    <3>1. WrittenBy(h2, Alive(p.at), from, Got(p.at, read) + Len(wire), first2)
      <4>1. CASE Alive(p.at)
        BY <1>6, <1>8, <1>14, <2>1, <4>1 DEF WrittenBy
      <4>2. CASE ~Alive(p.at)
        BY <1>7, <4>2 DEF WrittenBy
      <4> QED  BY <4>1, <4>2
    <3>2. h2.at \notin {"size", "subscribe"} => h.at \notin {"size", "subscribe"}
      BY <1>2
    <3>3. h.at = "done" => h2.at = "done"
      OBVIOUS
    <3>4. Stream(log, latch, h2, wire, p.at, read, from, first2)
      BY <1>5, <3>1, <3>2, <3>3, StreamPhase
    <3> QED  BY <1>1, <1>14, <2>1, <3>4
  <2>2. CASE latch # 0
    <3>1. Kept(c, w, h, wire, u, p, read, t, from, first2, passed)
      BY <1>4, <1>5 DEF Kept
    <3>2. Alive(p.at) => Got(p.at, read) + (Len(wire) + 1) = 2
      BY <1>1, <1>6
    <3>3. FrameAt(log, latch, h2.at, from, frame, 2, first2)
      BY <1>1, <1>2, <1>3, <1>14, <2>2 DEF FrameAt
    <3>4. Alive(p.at) =>
            /\ FrameAt(log, latch, h2.at, from, frame, Got(p.at, read) + (Len(wire) + 1), first2)
            /\ WrittenBy(h2, TRUE, from, Got(p.at, read) + (Len(wire) + 1), first2)
      BY <1>8, <1>14, <2>2, <3>2, <3>3
    <3>5. h2.at \notin {"size", "subscribe"} => h.at \notin {"size", "subscribe"}
      BY <1>2
    <3>6. h.at \notin {"absent", "done"}
      OBVIOUS
    <3>7. /\ Stream(log, latch, h2, Wrote(p, wire, frame), p.at, read, from, first2)
          /\ Wrote(p, wire, frame) \in Seq(Frames) /\ Len(Wrote(p, wire, frame)) <= WireCap
      BY <1>3, <1>7, <3>1, <3>4, <3>5, <3>6, StreamWrote, ZenonT(40)
    <3> QED  BY <1>14, <2>2, <3>7
  <2> QED  BY <2>1, <2>2
<1>10. Fits(h2, wire2, u, p, read, t, from)
  BY <1>1, <1>2, <1>9 DEF Fits
<1>11. Agree(h2, u, wire2, p, t)
  BY <1>1, <1>2 DEF Agree
<1>12. Passed(heard[c], w, h2, passed)
  BY <1>1, <1>2 DEF Passed
<1>13. session = "running" => OnTheWay(h2, u, p, t, passed)
  <2>1. Ahead(h2, passed) = Ahead(h, passed)
    BY <1>2 DEF Ahead
  <2> QED  BY <1>1, <1>2, <2>1 DEF OnTheWay
<1>15. Kept(c, w, h2, wire2, u, p, read, t, from, first2, passed)
  BY <1>4, <1>9, <1>10, <1>11, <1>12, <1>13 DEF Kept
<1> QED
  BY <1>15 DEF h2
\* The handler has passed the initial size to the session, which may be gone.
LEMMA SizeSent ==
  ASSUME NEW c, NEW w, NEW h, NEW wire, NEW u, NEW p, NEW read, NEW t, NEW from,
         NEW first, NEW passed,
         Kept(c, w, h, wire, u, p, read, t, from, first, passed), heard[c] \in Seq(0..MaxTyped),
         h.at = "size",
         NEW w2, NEW passed2, \/ passed2 = 1 /\ w2 = w \cup {0}
                              \/ passed2 = passed /\ w2 = w /\ session # "running"
  PROVE  /\ Kept(c, w2, [h EXCEPT !.at = "subscribe"], wire, u, p, read, t, from, first, passed2)
         /\ w = {}
<1> DEFINE h2 == [h EXCEPT !.at = "subscribe"]
<1>1. /\ h \in Handler /\ Fits(h, wire, u, p, read, t, from) /\ Agree(h, u, wire, p, t)
      /\ Stream(log, latch, h, wire, p.at, read, from, first) /\ Passed(heard[c], w, h, passed)
      /\ session = "running" => OnTheWay(h, u, p, t, passed)
      /\ MaxTyped \in Nat /\ first \in {1, 2}
  BY KeptFacts DEF Kept
<1>2. /\ h2 \in Handler /\ h2.at = "subscribe" /\ h2.cursor = h.cursor /\ h2.held = h.held
      /\ h2.inHand = h.inHand
  BY <1>1 DEF Handler, Phases
<1> HIDE DEF h2
<1>3. Fits(h2, wire, u, p, read, t, from)
  BY <1>1, <1>2 DEF Fits
<1>4. Stream(log, latch, h2, wire, p.at, read, from, first)
  <2>1. WrittenBy(h2, Alive(p.at), from, Got(p.at, read) + Len(wire), first)
    BY <1>1, <1>2 DEF Stream, WrittenBy
  <2>2. h2.at \notin {"size", "subscribe"} => h.at \notin {"size", "subscribe"}
    BY <1>2
  <2>3. h.at = "done" => h2.at = "done"
    OBVIOUS
  <2> QED  BY <1>1, <2>1, <2>2, <2>3, StreamPhase
<1>5. Agree(h2, u, wire, p, t)
  BY <1>1, <1>2 DEF Agree
<1>6. passed = 0 /\ Len(heard[c]) = 0 /\ w = {}
  <2>1. passed = 0 /\ Len(heard[c]) <= passed /\ Len(heard[c]) \in Nat
    BY <1>1, LenProperties DEF Passed
  <2>2. w = {e \in 0..MaxTyped : Len(heard[c]) <= e /\ e < 0}
    BY <1>1, <2>1 DEF Passed
  <2> QED  BY <2>1, <2>2
<1>7. passed2 \in 0..(MaxTyped + 1) /\ Passed(heard[c], w2, h2, passed2)
  <2>1. CASE passed2 = 1 /\ w2 = w \cup {0}
    <3>1. w2 = {e \in 0..MaxTyped : 0 <= e /\ e < 1}
      BY <1>1, <1>6, <2>1
    <3> QED  BY <1>1, <1>2, <1>6, <2>1, <3>1 DEF Passed
  <2>2. CASE passed2 = passed /\ w2 = w
    BY <1>1, <1>2, <1>6, <2>2 DEF Passed
  <2> QED  BY <2>1, <2>2
<1>8. session = "running" => OnTheWay(h2, u, p, t, passed2)
  <2>1. session = "running" => Ahead(h2, passed2) = Ahead(h, passed)
    BY <1>2 DEF Ahead
  <2> QED  BY <1>1, <1>2, <2>1 DEF OnTheWay
<1> QED
  BY <1>1, <1>3, <1>4, <1>5, <1>6, <1>7, <1>8 DEF Kept, h2

\* The handler subscribes to what comes.
LEMMA Subscribes ==
  ASSUME NEW c, NEW w, NEW h, NEW wire, NEW u, NEW p, NEW read, NEW t, NEW from,
         NEW first, NEW passed,
         Kept(c, w, h, wire, u, p, read, t, from, first, passed), Len(log) <= MaxFrames,
         h.at = "subscribe"
  PROVE  Kept(c, w, [h EXCEPT !.at = "stream", !.cursor = Len(log)], wire, u, p, read, t,
              Len(log), first, passed)
<1> DEFINE h2 == [h EXCEPT !.at = "stream", !.cursor = Len(log)]
<1>1. /\ h \in Handler /\ Fits(h, wire, u, p, read, t, from) /\ Agree(h, u, wire, p, t)
      /\ Stream(log, latch, h, wire, p.at, read, from, first) /\ Passed(heard[c], w, h, passed)
      /\ session = "running" => OnTheWay(h, u, p, t, passed)
      /\ first \in {1, 2} /\ log \in Seq(Nat) /\ Len(log) \in Nat /\ MaxFrames \in Nat
      /\ read \in Seq(Frames) /\ wire \in Seq(Frames)
  BY KeptFacts, BoundAssumption DEF Kept, Fits
<1>2. /\ h2 \in Handler /\ h2.at = "stream" /\ h2.cursor = Len(log) /\ h2.held = h.held
      /\ h2.inHand = h.inHand /\ h.held = <<>>
  BY <1>1 DEF Handler, Phases, Agree
<1> HIDE DEF h2
<1>3. Fits(h2, wire, u, p, read, t, Len(log))
  <2>1. Len(log) \in 0..MaxFrames /\ Len(log) \in 0..Len(log)
    BY <1>1
  <2> QED  BY <1>1, <1>2, <2>1 DEF Fits
<1>4. Stream(log, latch, h2, wire, p.at, read, Len(log), first)
  BY <1>1, <1>2, StreamSubscribes
<1>5. Agree(h2, u, wire, p, t)
  BY <1>1, <1>2 DEF Agree
<1>6. Passed(heard[c], w, h2, passed)
  BY <1>1, <1>2 DEF Passed
<1>7. session = "running" => OnTheWay(h2, u, p, t, passed)
  <2>1. Ahead(h2, passed) = Ahead(h, passed)
    BY <1>2 DEF Ahead
  <2> QED  BY <1>1, <1>2, <2>1 DEF OnTheWay
<1> QED
  BY <1>3, <1>4, <1>5, <1>6, <1>7 DEF Kept, h2

\* The handler has a frame of the broadcast in its hand.
LEMMA Holds ==
  ASSUME NEW c, NEW w, NEW h, NEW wire, NEW u, NEW p, NEW read, NEW t, NEW from,
         NEW first, NEW passed,
         Kept(c, w, h, wire, u, p, read, t, from, first, passed),
         h.at = "stream", h.held = <<>>, h.cursor < Len(log)
  PROVE  Kept(c, w, [h EXCEPT !.cursor = @ + 1, !.held = <<h.cursor + 1>>], wire, u, p, read, t,
              from, first, passed)
<1> DEFINE h2 == [h EXCEPT !.cursor = @ + 1, !.held = <<h.cursor + 1>>]
<1>1. /\ h \in Handler /\ Fits(h, wire, u, p, read, t, from) /\ Agree(h, u, wire, p, t)
      /\ Stream(log, latch, h, wire, p.at, read, from, first) /\ Passed(heard[c], w, h, passed)
      /\ session = "running" => OnTheWay(h, u, p, t, passed)
      /\ first \in {1, 2} /\ Len(log) \in Nat /\ h.cursor \in Nat /\ from \in Nat
      /\ Got(p.at, read) \in Nat /\ Len(wire) \in Nat
  BY KeptFacts DEF Kept
<1>2. h.cursor + 1 \in 0..Len(log) /\ h.cursor + 1 \in 1..Len(log) /\ h.cursor + 1 \in Nat
  BY <1>1
<1>3. <<h.cursor + 1>> \in Seq(1..Len(log)) /\ <<h.cursor + 1>> \in Seq(Nat)
  BY <1>2
<1>4. /\ h2 \in Handler /\ h2.at = "stream" /\ h2.cursor = h.cursor + 1
      /\ h2.held = <<h2.cursor>> /\ h2.held = <<h.cursor + 1>> /\ h2.inHand = h.inHand
  BY <1>1, <1>2, <1>3 DEF Handler, Phases
<1> HIDE DEF h2
<1>5. Fits(h2, wire, u, p, read, t, from)
  BY <1>1, <1>2, <1>3, <1>4 DEF Fits
<1>6. Stream(log, latch, h2, wire, p.at, read, from, first)
  <2>1. Len(h.held) = 0 /\ Len(h2.held) = 1
    BY <1>4
  <2> DEFINE g == Got(p.at, read) + Len(wire)
  <2>2. g \in Nat
    BY <1>1
  <2>3. Alive(p.at) => g + 0 + from = first + h.cursor /\ from + 0 <= h.cursor
    BY <1>1, <2>1 DEF Stream, WrittenBy
  <2> HIDE DEF g
  <2>4. Alive(p.at) => g + 1 + from = first + (h.cursor + 1) /\ from + 1 <= h.cursor + 1
    BY <1>1, <2>2, <2>3, SMTT(40)
  <2>5. WrittenBy(h2, Alive(p.at), from, g, first)
    BY <1>4, <2>1, <2>4 DEF WrittenBy
  <2>6. h2.at \notin {"size", "subscribe"} => h.at \notin {"size", "subscribe"}
    BY <1>4
  <2>7. h.at = "done" => h2.at = "done"
    OBVIOUS
  <2>8. WrittenBy(h2, Alive(p.at), from, Got(p.at, read) + Len(wire), first)
    BY <2>5 DEF g
  <2> QED  BY <1>1, <2>6, <2>7, <2>8, StreamPhase
<1>7. Agree(h2, u, wire, p, t)
  BY <1>1, <1>4 DEF Agree
<1>8. Passed(heard[c], w, h2, passed)
  BY <1>1, <1>4 DEF Passed
<1>9. session = "running" => OnTheWay(h2, u, p, t, passed)
  <2>1. Ahead(h2, passed) = Ahead(h, passed)
    BY <1>4 DEF Ahead
  <2> QED  BY <1>1, <1>4, <2>1 DEF OnTheWay
<1> QED
  BY <1>5, <1>6, <1>7, <1>8, <1>9 DEF Kept, h2

\* The handler has written the frame in its hand.
LEMMA Forwards ==
  ASSUME NEW c, NEW w, NEW h, NEW wire, NEW u, NEW p, NEW read, NEW t, NEW from,
         NEW first, NEW passed,
         Kept(c, w, h, wire, u, p, read, t, from, first, passed),
         h.at = "stream", h.held # <<>>, Len(wire) < WireCap \/ p.at = "quit",
         NEW frame, frame = [kind |-> "output", n |-> Head(h.held)]
  PROVE  Kept(c, w, [h EXCEPT !.held = <<>>], Wrote(p, wire, frame), u, p, read, t, from,
              first, passed)
<1> DEFINE h2 == [h EXCEPT !.held = <<>>]
<1>1. /\ h \in Handler /\ Fits(h, wire, u, p, read, t, from) /\ Agree(h, u, wire, p, t)
      /\ Stream(log, latch, h, wire, p.at, read, from, first) /\ Passed(heard[c], w, h, passed)
      /\ session = "running" => OnTheWay(h, u, p, t, passed)
      /\ first \in {1, 2} /\ Len(log) \in Nat /\ h.cursor \in Nat /\ from \in Nat
      /\ Got(p.at, read) \in Nat /\ Len(wire) \in Nat
      /\ p.at \in {"off", "connecting", "on", "quit"}
  BY KeptFacts DEF Kept
<1>15. h.cursor <= Len(log)
  BY <1>1, SMTT(40) DEF Fits
<1>2. /\ h2 \in Handler /\ h2.at = "stream" /\ h2.cursor = h.cursor
      /\ h2.held = <<>> /\ h2.inHand = h.inHand /\ <<>> \in Seq(1..Len(log))
  BY <1>1, NothingTyped DEF Handler, Phases
<1>3. h.held = <<h.cursor>> /\ Len(h.held) = 1 /\ Head(h.held) = h.cursor
  <2>1. h.held = <<h.cursor>>
    BY <1>1 DEF Stream, WrittenBy
  <2> QED  BY <2>1
<1>4. frame \in Frames /\ frame = [kind |-> "output", n |-> h.cursor]
  BY <1>1, <1>3 DEF Frames
<1> HIDE DEF h2
<1> DEFINE g == Got(p.at, read) + Len(wire)
<1>5. g \in Nat /\ Got(p.at, read) + (Len(wire) + 1) = g + 1
  BY <1>1
<1>6. Alive(p.at) => g + 1 + from = first + h.cursor /\ from + 1 <= h.cursor
  BY <1>1, <1>3 DEF Stream, WrittenBy
<1> HIDE DEF g
<1>7. ASSUME Alive(p.at)
      PROVE  /\ FrameAt(log, latch, h2.at, from, frame, g + 1, first)
             /\ WrittenBy(h2, TRUE, from, g + 1, first)
  <2>1. /\ g + 1 > first /\ from + ((g + 1) - first) = h.cursor
        /\ (g + 1) + 0 + from = first + h.cursor /\ from + 0 <= h.cursor
    <3>1. g + 1 + from = first + h.cursor /\ from + 1 <= h.cursor
      BY <1>6, <1>7
    <3>2. first \in Nat /\ from \in Nat /\ h.cursor \in Nat /\ g \in Nat
      BY <1>1, <1>5
    <3> QED  BY ONLY <3>1, <3>2
  <2>2. FrameAt(log, latch, h2.at, from, frame, g + 1, first)
    BY <1>1, <1>4, <1>15, <2>1 DEF FrameAt
  <2>3. Len(h2.held) = 0
    BY <1>2
  <2> QED  BY <1>2, <2>1, <2>2, <2>3 DEF WrittenBy
<1>8. ~Alive(p.at) => WrittenBy(h2, FALSE, from, 0, first)
  BY <1>2 DEF WrittenBy
<1>9. /\ Stream(log, latch, h2, Wrote(p, wire, frame), p.at, read, from, first)
      /\ Wrote(p, wire, frame) \in Seq(Frames) /\ Len(Wrote(p, wire, frame)) <= WireCap
  <2>1. Alive(p.at) =>
          /\ FrameAt(log, latch, h2.at, from, frame, Got(p.at, read) + (Len(wire) + 1), first)
          /\ WrittenBy(h2, TRUE, from, Got(p.at, read) + (Len(wire) + 1), first)
    BY <1>5, <1>7
  <2>2. h2.at \notin {"size", "subscribe"} => h.at \notin {"size", "subscribe"}
    OBVIOUS
  <2>3. h.at \notin {"absent", "done"}
    OBVIOUS
  <2> QED  BY <1>4, <1>8, <2>1, <2>2, <2>3, StreamWrote
<1>10. Fits(h2, Wrote(p, wire, frame), u, p, read, t, from)
  BY <1>1, <1>2, <1>9 DEF Fits
<1>11. Agree(h2, u, Wrote(p, wire, frame), p, t)
  BY <1>1, <1>2 DEF Agree
<1>12. Passed(heard[c], w, h2, passed)
  BY <1>1, <1>2 DEF Passed
<1>13. session = "running" => OnTheWay(h2, u, p, t, passed)
  <2>1. Ahead(h2, passed) = Ahead(h, passed)
    BY <1>2 DEF Ahead
  <2> QED  BY <1>1, <1>2, <2>1 DEF OnTheWay
<1>14. first \in {1, 2} /\ passed \in 0..(MaxTyped + 1)
  BY DEF Kept
<1> QED
  BY <1>9, <1>10, <1>11, <1>12, <1>13, <1>14 DEF Kept, h2
\* The reader task has read an event.
LEMMA Reading ==
  ASSUME NEW c, NEW w, NEW h, NEW wire, NEW u, NEW p, NEW read, NEW t, NEW from,
         NEW first, NEW passed,
         Kept(c, w, h, wire, u, p, read, t, from, first, passed),
         h.at \in {"subscribe", "stream", "goodbye"}, h.inHand = <<>>, u # <<>>
  PROVE  Kept(c, w, [h EXCEPT !.inHand = <<Head(u)>>], wire, Tail(u), p, read, t, from,
              first, passed)
<1> DEFINE h2 == [h EXCEPT !.inHand = <<Head(u)>>]
           u2 == Tail(u)
<1>1. /\ h \in Handler /\ Fits(h, wire, u, p, read, t, from) /\ Agree(h, u, wire, p, t)
      /\ Stream(log, latch, h, wire, p.at, read, from, first) /\ Passed(heard[c], w, h, passed)
      /\ session = "running" => OnTheWay(h, u, p, t, passed)
      /\ passed \in Nat /\ MaxTyped \in Nat /\ Len(p.queue) \in Nat
      /\ u \in Seq(0..MaxTyped) /\ Len(u) <= WireCap /\ WireCap \in Nat
  BY KeptFacts, CapAssumption, ZenonT(40) DEF Kept, Fits
<1>2. /\ u2 \in Seq(0..MaxTyped) /\ Len(u2) = Len(u) - 1 /\ Len(u) \in Nat \ {0}
      /\ Head(u) \in 0..MaxTyped
  BY <1>1, HeadTailProperties, EmptySeq
<1>3. <<Head(u)>> \in Seq(0..MaxTyped) /\ <<Head(u)>> \in Seq(Nat) /\ Len(<<Head(u)>>) = 1
  BY <1>1, <1>2
<1>4. /\ h2 \in Handler /\ h2.at = h.at /\ h2.cursor = h.cursor /\ h2.held = h.held
      /\ h2.inHand = <<Head(u)>>
  BY <1>1, <1>3 DEF Handler
<1> HIDE DEF h2, u2
<1>5. Fits(h2, wire, u2, p, read, t, from)
  BY <1>1, <1>2, <1>3, <1>4 DEF Fits
<1>6. Stream(log, latch, h2, wire, p.at, read, from, first)
  BY <1>1, <1>4 DEF Stream, WrittenBy
<1>7. Agree(h2, u2, wire, p, t)
  BY <1>1, <1>3, <1>4 DEF Agree
<1>8. Passed(heard[c], w, h2, passed)
  BY <1>1, <1>4 DEF Passed
<1>9. ASSUME session = "running"
      PROVE  OnTheWay(h2, u2, p, t, passed)
  <2>1. Ahead(h, passed) = passed /\ Ahead(h2, passed) = passed /\ Len(h.inHand) = 0
    BY <1>4, NothingTyped DEF Ahead
  <2>2. OnTheWay(h, u, p, t, passed) /\ passed + 0 = passed
    BY <1>1, <1>9
  <2>3. RunFrom(u, passed)
    BY <2>1, <2>2 DEF OnTheWay
  <2>4. Head(u) = passed /\ RunFrom(u2, passed + 1)
    <3>1. 0..MaxTyped \in SUBSET Nat
      OBVIOUS
    <3> QED  BY <1>1, <2>3, <3>1, FirstRuns DEF u2
  <2>5. RunFrom(h2.inHand, passed)
    BY <1>1, <1>4, <2>4, OneRuns
  <2>6. passed + 0 + Len(u) = passed + 1 + Len(u2)
    BY <1>1, <1>2
  <2> QED  BY <1>3, <1>4, <2>1, <2>2, <2>4, <2>5, <2>6 DEF OnTheWay
<1>10. first \in {1, 2} /\ passed \in 0..(MaxTyped + 1)
  BY DEF Kept
<1> QED
  BY <1>5, <1>6, <1>7, <1>8, <1>9, <1>10 DEF Kept, h2, u2

\* The event in the reader task's hand is the next one of its client.
LEMMA NextEvent ==
  ASSUME NEW c, NEW w, NEW h, NEW wire, NEW u, NEW p, NEW read, NEW t, NEW from,
         NEW first, NEW passed,
         Kept(c, w, h, wire, u, p, read, t, from, first, passed), h.inHand # <<>>
  PROVE  /\ h.at \in {"subscribe", "stream", "goodbye"} /\ Len(h.inHand) = 1
         /\ Head(h.inHand) \in 0..MaxTyped
         /\ session = "running" => Head(h.inHand) = passed /\ \A x \in w : x < passed
<1>1. /\ Agree(h, u, wire, p, t) /\ Passed(heard[c], w, h, passed)
      /\ h.inHand \in Seq(0..MaxTyped) /\ MaxTyped \in Nat /\ passed \in Nat
  BY KeptFacts DEF Kept, Fits
<1>2. h.at \in {"subscribe", "stream", "goodbye"} /\ Len(h.inHand) = 1
  BY <1>1 DEF Agree
<1>3. session = "running" => OnTheWay(h, u, p, t, passed)
  BY <1>2 DEF Kept
<1>4. Head(h.inHand) \in 0..MaxTyped
  BY <1>1, HeadTailProperties
<1>5. ASSUME session = "running"
      PROVE  Head(h.inHand) = passed
  <2>1. Ahead(h, passed) = passed
    BY <1>2 DEF Ahead
  <2>2. RunFrom(h.inHand, passed) /\ 0..MaxTyped \in SUBSET Nat
    BY <1>3, <1>5, <2>1 DEF OnTheWay
  <2> QED  BY <1>1, <2>2, FirstRuns
<1>6. \A x \in w : x < passed
  BY <1>1 DEF Passed
<1> QED
  BY <1>2, <1>4, <1>5, <1>6

\* The reader task has passed an event on, or the session is gone.
LEMMA PassesOn ==
  ASSUME NEW c, NEW w, NEW h, NEW wire, NEW u, NEW p, NEW read, NEW t, NEW from,
         NEW first, NEW passed,
         Kept(c, w, h, wire, u, p, read, t, from, first, passed),
         h.inHand # <<>>, heard[c] \in Seq(0..MaxTyped),
         NEW h2 \in Handler, h2.at = h.at, h2.cursor = h.cursor, h2.held = h.held, h2.inHand = <<>>,
         NEW w2, NEW passed2,
         \/ session = "running" /\ passed2 = passed + 1 /\ w2 = w \cup {Head(h.inHand)}
         \/ session # "running" /\ passed2 = passed /\ w2 = w
  PROVE  Kept(c, w2, h2, wire, u, p, read, t, from, first, passed2)
<1>1. /\ h \in Handler /\ Fits(h, wire, u, p, read, t, from) /\ Agree(h, u, wire, p, t)
      /\ Stream(log, latch, h, wire, p.at, read, from, first) /\ Passed(heard[c], w, h, passed)
      /\ passed \in Nat /\ MaxTyped \in Nat /\ Len(p.queue) \in Nat /\ Len(u) \in Nat
      /\ h.inHand \in Seq(0..MaxTyped) /\ first \in {1, 2} /\ passed \in 0..(MaxTyped + 1)
      /\ Len(heard[c]) \in Nat
  BY KeptFacts, LenProperties DEF Kept, Fits
<1>2. h.at \in {"subscribe", "stream", "goodbye"} /\ Len(h.inHand) = 1
  BY NextEvent
<1>3. session = "running" => OnTheWay(h, u, p, t, passed)
  BY <1>2 DEF Kept
<1>4. /\ h2 \in Handler /\ h2.at = h.at /\ h2.cursor = h.cursor /\ h2.held = h.held
      /\ h2.inHand = <<>> /\ <<>> \in Seq(0..MaxTyped)
  BY NothingTyped
<1>5. Ahead(h, passed) = passed /\ Ahead(h2, passed2) = passed2
  BY <1>2, <1>4 DEF Ahead
<1>6. Head(h.inHand) \in 0..MaxTyped /\ (session = "running" => Head(h.inHand) = passed)
  BY NextEvent
<1>8. Fits(h2, wire, u, p, read, t, from)
  BY <1>1, <1>4 DEF Fits
<1>9. Stream(log, latch, h2, wire, p.at, read, from, first)
  BY <1>1, <1>4 DEF Stream, WrittenBy
<1>10. Agree(h2, u, wire, p, t)
  BY <1>1, <1>2, <1>4 DEF Agree
<1>11. w = {e \in 0..MaxTyped : Len(heard[c]) <= e /\ e < passed} /\ Len(heard[c]) <= passed
  BY <1>1 DEF Passed
<1>12. passed2 \in 0..(MaxTyped + 1) /\ Passed(heard[c], w2, h2, passed2)
  <2>1. CASE session = "running"
    <3>1. passed2 = passed + 1 /\ w2 = w \cup {passed} /\ passed \in 0..MaxTyped
      BY <1>6, <2>1
    <3>2. w2 = {e \in 0..MaxTyped : Len(heard[c]) <= e /\ e < passed + 1}
      <4>1. ASSUME NEW e \in 0..MaxTyped
            PROVE  e \in w2 <=> Len(heard[c]) <= e /\ e < passed + 1
        <5>1. e \in w <=> Len(heard[c]) <= e /\ e < passed
          BY <1>11
        <5>2. e < passed + 1 <=> e < passed \/ e = passed
          BY <1>1
        <5> QED  BY <1>11, <3>1, <5>1, <5>2
      <4>2. \A e \in w2 : e \in 0..MaxTyped
        BY <1>11, <3>1
      <4> QED  BY <4>1, <4>2
    <3>3. passed2 \in 0..(MaxTyped + 1) /\ Len(heard[c]) <= passed2
      BY <1>1, <1>11, <3>1
    <3>4. h2.at \notin {"absent", "backlog", "hello", "latch", "size"}
      BY <1>2, <1>4
    <3> QED  BY <1>1, <3>1, <3>2, <3>3, <3>4 DEF Passed
  <2>2. CASE session # "running"
    BY <1>1, <1>4, <2>2 DEF Passed
  <2> QED  BY <2>1, <2>2
<1>13. ASSUME session = "running"
       PROVE  OnTheWay(h2, u, p, t, passed2)
  <2>1. passed2 = passed + 1 /\ OnTheWay(h, u, p, t, passed)
    BY <1>3, <1>13
  <2>2. Len(h2.inHand) = 0 /\ RunFrom(h2.inHand, passed2)
    BY <1>4, NothingRuns
  <2>3. passed2 + 0 = passed + 1 /\ passed2 + 0 + Len(u) = passed + 1 + Len(u)
    BY <1>1, <2>1
  <2> QED  BY <1>2, <1>5, <2>1, <2>2, <2>3 DEF OnTheWay
<1> QED
  BY <1>1, <1>8, <1>9, <1>10, <1>12, <1>13 DEF Kept
-----------------------------------------------------------------------------
(* Steps of a client.                                                       *)

\* The process starts and connects.
LEMMA Connects ==
  ASSUME NEW c, NEW w, NEW h, NEW wire, NEW u, NEW p, NEW read, NEW t, NEW from,
         NEW first, NEW passed,
         Kept(c, w, h, wire, u, p, read, t, from, first, passed), p.at = "off"
  PROVE  Kept(c, w, [h EXCEPT !.at = "backlog"], wire, u, [p EXCEPT !.at = "connecting"], read,
              t, from, first, passed)
<1> DEFINE h2 == [h EXCEPT !.at = "backlog"]
           p2 == [p EXCEPT !.at = "connecting"]
<1>1. /\ h \in Handler /\ Fits(h, wire, u, p, read, t, from) /\ Agree(h, u, wire, p, t)
      /\ Stream(log, latch, h, wire, p.at, read, from, first) /\ Passed(heard[c], w, h, passed)
      /\ p \in Process /\ passed \in 0..(MaxTyped + 1) /\ first \in {1, 2}
      /\ passed \in Nat
  BY KeptFacts DEF Kept, Fits
<1>2. h.at = "absent" /\ u = <<>> /\ t = 0 /\ ~p.hello /\ p.queue = <<>> /\ h.held = <<>> /\ h.inHand = <<>>
  BY <1>1 DEF Agree, NoProcess
<1>3. /\ h2 \in Handler /\ h2.at = "backlog" /\ h2.cursor = h.cursor /\ h2.held = h.held
      /\ h2.inHand = h.inHand
      /\ p2 \in Process /\ p2.at = "connecting" /\ p2.queue = p.queue /\ p2.hello = p.hello
  BY <1>1 DEF Handler, Phases, Process
<1> HIDE DEF h2, p2
<1>4. wire = <<>> /\ read = <<>> /\ Got(p.at, read) = 0 /\ Got(p2.at, read) = 0 /\ Len(<<>>) = 0
      /\ DOMAIN <<>> = {}
  BY <1>1, <1>3, NothingTyped DEF Stream, Alive, Got
<1>5. Fits(h2, wire, u, p2, read, t, from)
  BY <1>1, <1>3 DEF Fits
<1>6. Stream(log, latch, h2, wire, p2.at, read, from, first)
  <2>1. WrittenBy(h2, Alive(p2.at), from, 0, first)
    BY <1>3 DEF WrittenBy
  <2> QED  BY <1>4, <2>1 DEF Stream
<1>7. Agree(h2, u, wire, p2, t)
  BY <1>1, <1>2, <1>3, <1>4 DEF Agree
<1>8. Passed(heard[c], w, h2, passed)
  BY <1>1, <1>2, <1>3 DEF Passed
<1>9. OnTheWay(h2, u, p2, t, passed)
  BY <1>2, <1>3, NothingRuns DEF OnTheWay
<1> QED
  BY <1>1, <1>5, <1>6, <1>7, <1>8, <1>9 DEF Kept, h2, p2

LEMMA Hellos ==
  ASSUME NEW c, NEW w, NEW h, NEW wire, NEW u, NEW p, NEW read, NEW t, NEW from,
         NEW first, NEW passed,
         Kept(c, w, h, wire, u, p, read, t, from, first, passed),
         p.at = "connecting", ~p.hello
  PROVE  Kept(c, w, h, wire, Append(u, 0), [p EXCEPT !.hello = TRUE], read, t, from, first, passed)
<1> DEFINE p2 == [p EXCEPT !.hello = TRUE]
           u2 == Append(u, 0)
<1>1. /\ h \in Handler /\ Fits(h, wire, u, p, read, t, from) /\ Agree(h, u, wire, p, t)
      /\ Stream(log, latch, h, wire, p.at, read, from, first) /\ Passed(heard[c], w, h, passed)
      /\ p \in Process /\ h.at \in Phases /\ MaxTyped \in Nat /\ Alive(p.at)
  BY KeptFacts DEF Kept, Fits
<1>2. /\ u = <<>> /\ t = 0 /\ wire = <<>> /\ p.queue = <<>>
      /\ h.at \in {"backlog", "hello", "done"} /\ h.inHand = <<>>
  BY <1>1 DEF Agree, Phases
<1>3. /\ p2 \in Process /\ p2.at = p.at /\ p2.queue = <<>> /\ p2.hello
  BY <1>1, <1>2 DEF Process
<1>4. u2 = <<0>> /\ u2 \in Seq(0..MaxTyped) /\ Len(u2) = 1 /\ RunFrom(u2, 0)
  <2>1. u2 = <<0>> /\ 0 \in 0..MaxTyped
    BY <1>1, <1>2
  <2>2. <<0>> \in Seq(0..MaxTyped)
    BY <2>1
  <2>3. RunFrom(<<0>>, 0) /\ Len(<<0>>) = 1
    BY OneRuns
  <2> QED  BY ONLY <2>1, <2>2, <2>3
<1> HIDE DEF p2, u2
<1>5. Fits(h, wire, u2, p2, read, t, from)
  <2>1. Len(u2) <= WireCap
    BY <1>4, CapAssumption
  <2> QED  BY <1>1, <1>2, <1>3, <1>4, <2>1 DEF Fits
<1>6. Agree(h, u2, wire, p2, t)
  BY <1>1, <1>2, <1>3 DEF Agree
<1>7. ASSUME h.at # "done"
      PROVE  OnTheWay(h, u2, p2, t, passed)
  <2>1. passed = 0 /\ Ahead(h, passed) = 0 /\ Len(h.inHand) = 0 /\ RunFrom(h.inHand, 0)
    BY <1>1, <1>2, <1>7, NothingRuns DEF Passed, Ahead
  <2>2. RunFrom(p2.queue, 1) /\ Len(p2.queue) = 0
    BY <1>3, NothingRuns
  <2> QED  BY <1>2, <1>4, <2>1, <2>2 DEF OnTheWay
<1>8. first \in {1, 2} /\ passed \in 0..(MaxTyped + 1)
  BY DEF Kept
<1> QED
  BY <1>1, <1>3, <1>5, <1>6, <1>7, <1>8 DEF Kept, p2, u2

\* The client has read a frame and goes on.
LEMMA ReadsFrame ==
  ASSUME NEW c, NEW w, NEW h, NEW wire, NEW u, NEW p, NEW read, NEW t, NEW from,
         NEW first, NEW passed,
         Kept(c, w, h, wire, u, p, read, t, from, first, passed),
         Alive(p.at), wire # <<>>, Head(wire).kind # "goodbye",
         NEW read2, read2 = IF Head(wire).kind = "ok" THEN read ELSE Append(read, Head(wire))
  PROVE  Kept(c, w, h, Tail(wire), u, [p EXCEPT !.at = "on"], read2, t, from, first, passed)
<1> DEFINE p2 == [p EXCEPT !.at = "on"]
           wire2 == Tail(wire)
<1>1. /\ h \in Handler /\ Fits(h, wire, u, p, read, t, from) /\ Agree(h, u, wire, p, t)
      /\ Stream(log, latch, h, wire, p.at, read, from, first) /\ Passed(heard[c], w, h, passed)
      /\ session = "running" /\ h.at # "done" => OnTheWay(h, u, p, t, passed)
      /\ p \in Process /\ wire \in Seq(Frames) /\ read \in Seq(Frames) /\ WireCap \in Nat
      /\ Len(wire) <= WireCap
      /\ first \in {1, 2} /\ passed \in 0..(MaxTyped + 1) /\ p.at # "off" /\ p.hello \in BOOLEAN
  BY KeptFacts, CapAssumption DEF Kept, Fits
<1>2. p.hello
  BY <1>1 DEF Agree
<1>3. /\ p2 \in Process /\ p2.at = "on" /\ p2.queue = p.queue /\ p2.hello = p.hello
      /\ p2.stop = p.stop
  BY <1>1 DEF Process
<1>4. /\ wire2 \in Seq(Frames) /\ Len(wire2) = Len(wire) - 1 /\ Len(wire) \in Nat \ {0}
      /\ Head(wire) \in Frames
  BY <1>1, HeadTailProperties, EmptySeq
<1>5. Append(read, Head(wire)) \in Seq(Frames)
  BY <1>1, <1>4, AppendProperties
<1>6. Stream(log, latch, h, wire2, "on", read2, from, first)
  BY <1>1, StreamRead
<1> HIDE DEF p2, wire2
<1>7. Fits(h, wire2, u, p2, read2, t, from)
  <2>1. Len(wire2) <= WireCap
    BY <1>1, <1>4
  <2>2. read2 \in Seq(Frames)
    BY <1>1, <1>5
  <2> QED  BY <1>1, <1>3, <1>4, <2>1, <2>2 DEF Fits
<1>8. Agree(h, u, wire2, p2, t)
  BY <1>1, <1>2, <1>3 DEF Agree, NoProcess
<1>9. session = "running" /\ h.at # "done" => OnTheWay(h, u, p2, t, passed)
  BY <1>1, <1>3 DEF OnTheWay, Alive
<1> QED
  BY <1>1, <1>3, <1>6, <1>7, <1>8, <1>9 DEF Kept, p2, wire2

\* The process has ended.
LEMMA Quits ==
  ASSUME NEW c, NEW w, NEW h, NEW wire, NEW u, NEW p, NEW read, NEW t, NEW from,
         NEW first, NEW passed,
         Kept(c, w, h, wire, u, p, read, t, from, first, passed), Alive(p.at)
  PROVE  Kept(c, w, h, <<>>, u, NoProcess("quit"), <<>>, 0, 0, first, passed)
<1> DEFINE p2 == NoProcess("quit")
<1>1. /\ h \in Handler /\ Fits(h, wire, u, p, read, t, from) /\ Agree(h, u, wire, p, t)
      /\ Stream(log, latch, h, wire, p.at, read, from, first) /\ Passed(heard[c], w, h, passed)
      /\ session = "running" /\ h.at # "done" => OnTheWay(h, u, p, t, passed)
      /\ first \in {1, 2} /\ passed \in 0..(MaxTyped + 1) /\ p.at # "off"
      /\ MaxTyped \in Nat /\ MaxFrames \in Nat /\ WireCap \in Nat
  BY KeptFacts, CapAssumption, BoundAssumption DEF Kept
<1>2. /\ p2 \in Process /\ p2.at = "quit" /\ p2.queue = <<>> /\ ~p2.hello
      /\ Len(<<>>) = 0 /\ (\A S : <<>> \in Seq(S))
  BY NothingTyped DEF NoProcess, Process
<1> HIDE DEF p2
<1>3. Fits(h, <<>>, u, p2, <<>>, 0, 0)
  BY <1>1, <1>2 DEF Fits
<1>4. Stream(log, latch, h, <<>>, p2.at, <<>>, 0, first)
  BY <1>1, <1>2, StreamGone
<1>5. Agree(h, u, <<>>, p2, 0)
  BY <1>1, <1>2 DEF Agree, Alive
<1>6. session = "running" /\ h.at # "done" => OnTheWay(h, u, p2, 0, passed)
  BY <1>1, <1>2 DEF OnTheWay, Alive
<1> QED
  BY <1>1, <1>3, <1>4, <1>5, <1>6 DEF Kept, p2
\* The user has produced an event.
LEMMA Types ==
  ASSUME NEW c, NEW w, NEW h, NEW wire, NEW u, NEW p, NEW read, NEW t, NEW from,
         NEW first, NEW passed,
         Kept(c, w, h, wire, u, p, read, t, from, first, passed),
         p.at = "on", ~p.stop, t < MaxTyped
  PROVE  Kept(c, w, h, wire, u, [p EXCEPT !.queue = Append(@, t + 1)], read, t + 1, from,
              first, passed)
<1> DEFINE q2 == Append(p.queue, t + 1)
           p2 == [p EXCEPT !.queue = q2]
<1>1. /\ h \in Handler /\ Fits(h, wire, u, p, read, t, from) /\ Agree(h, u, wire, p, t)
      /\ Stream(log, latch, h, wire, p.at, read, from, first) /\ Passed(heard[c], w, h, passed)
      /\ session = "running" /\ h.at # "done" => OnTheWay(h, u, p, t, passed)
      /\ p \in Process /\ first \in {1, 2} /\ passed \in 0..(MaxTyped + 1)
      /\ p.queue \in Seq(0..MaxTyped) /\ Len(p.queue) \in Nat /\ t \in Nat /\ MaxTyped \in Nat
      /\ Len(h.inHand) \in Nat /\ Len(u) \in Nat /\ Ahead(h, passed) \in Nat /\ Alive(p.at)
  BY KeptFacts DEF Kept, Fits
<1>2. p.hello
  BY <1>1 DEF Agree
<1>3. t + 1 \in 0..MaxTyped
  BY <1>1
<1>4. q2 \in Seq(0..MaxTyped) /\ Len(q2) = Len(p.queue) + 1
  BY <1>1, <1>3, AppendProperties
<1>5. q2 \in Seq(Nat)
  BY <1>1, <1>4, EventNumbers
<1> HIDE DEF q2
<1>6. /\ p2 \in Process /\ p2.at = "on" /\ p2.queue = q2 /\ p2.hello = p.hello /\ p2.stop = p.stop
  BY <1>1, <1>5 DEF Process
<1> HIDE DEF p2
<1>7. Fits(h, wire, u, p2, read, t + 1, from)
  BY <1>1, <1>3, <1>4, <1>6 DEF Fits
<1>8. Agree(h, u, wire, p2, t + 1)
  <2>1. h.at # "absent"
    BY <1>1 DEF Agree
  <2> QED  BY <1>1, <1>2, <1>6, <2>1 DEF Agree
<1>9. ASSUME session = "running", h.at # "done"
      PROVE  OnTheWay(h, u, p2, t + 1, passed)
  <2> DEFINE n == Ahead(h, passed) + Len(h.inHand) + Len(u)
  <2>1. /\ RunFrom(h.inHand, Ahead(h, passed))
        /\ RunFrom(u, Ahead(h, passed) + Len(h.inHand))
        /\ RunFrom(p.queue, n) /\ t + 1 = n + Len(p.queue) /\ n \in Nat
    BY <1>1, <1>2, <1>9 DEF OnTheWay
  <2> HIDE DEF n
  <2>2. RunFrom(q2, n)
    <3>1. 0..MaxTyped \in SUBSET Nat
      OBVIOUS
    <3>2. RunFrom(Append(p.queue, t + 1), n)
      BY <1>1, <1>3, <2>1, <3>1, LastRuns
    <3> QED  BY <3>2 DEF q2
  <2>3. (t + 1) + 1 = n + Len(q2)
    BY <1>1, <1>4, <2>1, SMTT(40)
  <2> QED  BY <1>6, <2>1, <2>2, <2>3 DEF OnTheWay, n
<1>10. Stream(log, latch, h, wire, p2.at, read, from, first)
  BY <1>1, <1>6
<1> QED
  BY <1>1, <1>7, <1>8, <1>9, <1>10 DEF Kept, p2, q2

\* The client's standard input has ended, or its writer task has.
LEMMA Stops ==
  ASSUME NEW c, NEW w, NEW h, NEW wire, NEW u, NEW p, NEW read, NEW t, NEW from,
         NEW first, NEW passed,
         Kept(c, w, h, wire, u, p, read, t, from, first, passed), p.at = "on",
         NEW p2, \/ p2 = [p EXCEPT !.stop = TRUE]
                 \/ p2 = [p EXCEPT !.shut = TRUE, !.stop = TRUE, !.queue = <<>>]
  PROVE  Kept(c, w, h, wire, u, p2, read, t, from, first, passed)
<1>1. /\ h \in Handler /\ Fits(h, wire, u, p, read, t, from) /\ Agree(h, u, wire, p, t)
      /\ Stream(log, latch, h, wire, p.at, read, from, first) /\ Passed(heard[c], w, h, passed)
      /\ session = "running" /\ h.at # "done" => OnTheWay(h, u, p, t, passed)
      /\ p \in Process /\ p.queue \in Seq(0..MaxTyped)
      /\ first \in {1, 2} /\ passed \in 0..(MaxTyped + 1)
  BY KeptFacts DEF Kept, Fits
<1>2. /\ p2 \in Process /\ p2.at = "on" /\ p2.hello = p.hello /\ p2.stop
      /\ p2.queue \in Seq(0..MaxTyped) /\ (p2.queue = p.queue \/ p2.queue = <<>>)
  <2>1. <<>> \in Seq(Nat) /\ <<>> \in Seq(0..MaxTyped)
    BY NothingTyped
  <2>2. CASE p2 = [p EXCEPT !.stop = TRUE]
    BY <1>1, <2>2 DEF Process
  <2>3. CASE p2 = [p EXCEPT !.shut = TRUE, !.stop = TRUE, !.queue = <<>>]
    BY <1>1, <2>1, <2>3 DEF Process
  <2> QED  BY <2>2, <2>3
<1>3. Fits(h, wire, u, p2, read, t, from)
  BY <1>1, <1>2 DEF Fits
<1>4. Agree(h, u, wire, p2, t)
  <2>1. h.at # "absent" /\ p.hello
    BY <1>1 DEF Agree
  <2> QED  BY <1>1, <1>2, <2>1 DEF Agree
<1>5. session = "running" /\ h.at # "done" => OnTheWay(h, u, p2, t, passed)
  BY <1>1, <1>2 DEF OnTheWay
<1>6. Stream(log, latch, h, wire, p2.at, read, from, first)
  BY <1>1, <1>2
<1> QED
  BY <1>1, <1>3, <1>4, <1>5, <1>6 DEF Kept

\* The writer task has written an event.
LEMMA Sends ==
  ASSUME NEW c, NEW w, NEW h, NEW wire, NEW u, NEW p, NEW read, NEW t, NEW from,
         NEW first, NEW passed,
         Kept(c, w, h, wire, u, p, read, t, from, first, passed),
         p.at = "on", p.queue # <<>>, ~p.stop, Len(u) < WireCap
  PROVE  Kept(c, w, h, wire, Append(u, Head(p.queue)), [p EXCEPT !.queue = Tail(@)], read, t,
              from, first, passed)
<1> DEFINE x == Head(p.queue)
           q2 == Tail(p.queue)
           u2 == Append(u, x)
           p2 == [p EXCEPT !.queue = q2]
<1>1. /\ h \in Handler /\ Fits(h, wire, u, p, read, t, from) /\ Agree(h, u, wire, p, t)
      /\ Stream(log, latch, h, wire, p.at, read, from, first) /\ Passed(heard[c], w, h, passed)
      /\ session = "running" /\ h.at # "done" => OnTheWay(h, u, p, t, passed)
      /\ p \in Process /\ first \in {1, 2} /\ passed \in 0..(MaxTyped + 1)
      /\ p.queue \in Seq(0..MaxTyped) /\ u \in Seq(0..MaxTyped) /\ t \in Nat /\ MaxTyped \in Nat
      /\ Len(h.inHand) \in Nat /\ Len(u) \in Nat /\ Ahead(h, passed) \in Nat /\ Alive(p.at)
      /\ WireCap \in Nat
  BY KeptFacts, CapAssumption DEF Kept, Fits
<1>2. /\ x \in 0..MaxTyped /\ q2 \in Seq(0..MaxTyped) /\ Len(q2) = Len(p.queue) - 1
      /\ Len(p.queue) \in Nat \ {0}
  BY <1>1, HeadTailProperties, EmptySeq
<1>3. q2 \in Seq(Nat)
  BY <1>1, <1>2, EventNumbers
<1> HIDE DEF x, q2
<1>4. u2 \in Seq(0..MaxTyped) /\ Len(u2) = Len(u) + 1
  BY <1>1, <1>2, AppendProperties
<1> HIDE DEF u2
<1>5. /\ p2 \in Process /\ p2.at = "on" /\ p2.queue = q2 /\ p2.hello = p.hello /\ p2.stop = p.stop
  BY <1>1, <1>3 DEF Process
<1> HIDE DEF p2
<1>6. Fits(h, wire, u2, p2, read, t, from)
  <2>1. Len(u2) <= WireCap
    BY <1>1, <1>4
  <2> QED  BY <1>1, <1>2, <1>4, <1>5, <2>1 DEF Fits
<1>7. p.hello /\ h.at # "absent"
  BY <1>1 DEF Agree
<1>8. Agree(h, u2, wire, p2, t)
  BY <1>1, <1>5, <1>7 DEF Agree
<1>9. ASSUME session = "running", h.at # "done"
      PROVE  OnTheWay(h, u2, p2, t, passed)
  <2> DEFINE m == Ahead(h, passed) + Len(h.inHand)
  <2>1. /\ RunFrom(h.inHand, Ahead(h, passed)) /\ RunFrom(u, m)
        /\ RunFrom(p.queue, m + Len(u)) /\ t + 1 = m + Len(u) + Len(p.queue) /\ m \in Nat
    BY <1>1, <1>7, <1>9, SMTT(40) DEF OnTheWay
  <2> HIDE DEF m
  <2>2. m + Len(u) \in Nat /\ 0..MaxTyped \in SUBSET Nat
    BY <1>1, <2>1
  <2>3. x = m + Len(u) /\ RunFrom(q2, (m + Len(u)) + 1)
    <3>1. Head(p.queue) = m + Len(u) /\ RunFrom(Tail(p.queue), (m + Len(u)) + 1)
      BY <1>1, <2>1, <2>2, FirstRuns
    <3> QED  BY <3>1 DEF x, q2
  <2>4. RunFrom(u2, m)
    <3>1. RunFrom(Append(u, x), m)
      BY <1>1, <1>2, <2>1, <2>2, <2>3, LastRuns
    <3> QED  BY <3>1 DEF u2
  <2>5. m + Len(u2) = (m + Len(u)) + 1 /\ t + 1 = m + Len(u2) + Len(q2)
    <3>1. /\ Len(u) \in Nat /\ Len(p.queue) \in Nat /\ m \in Nat /\ t \in Nat
          /\ t + 1 = m + Len(u) + Len(p.queue)
          /\ Len(u2) = Len(u) + 1 /\ Len(q2) = Len(p.queue) - 1
      BY <1>1, <1>2, <1>4, <2>1
    <3> DEFINE i == Len(u)
               j == Len(p.queue)
               i2 == Len(u2)
               j2 == Len(q2)
    <3> HIDE DEF i, j, i2, j2
    <3>2. /\ i \in Nat /\ j \in Nat /\ m \in Nat /\ t \in Nat
          /\ t + 1 = m + i + j /\ i2 = i + 1 /\ j2 = j - 1
      BY <3>1 DEF i, j, i2, j2
    <3>3. m + i2 = (m + i) + 1 /\ t + 1 = m + i2 + j2
      BY ONLY <3>2
    <3> QED  BY <3>3 DEF i, j, i2, j2
  <2> QED  BY <1>5, <2>1, <2>3, <2>4, <2>5 DEF OnTheWay, m
<1>10. Stream(log, latch, h, wire, p2.at, read, from, first)
  BY <1>1, <1>5
<1> QED
  BY <1>1, <1>6, <1>8, <1>9, <1>10 DEF Kept, p2, u2, q2, x
-----------------------------------------------------------------------------
(* The actions.                                                             *)

\* The state of client c after the step.
Becomes(c, h, wire, u, p, read, t, from) ==
  /\ srv' = [srv EXCEPT ![c] = h] /\ down' = [down EXCEPT ![c] = wire]
  /\ up' = [up EXCEPT ![c] = u] /\ cli' = [cli EXCEPT ![c] = p]
  /\ shown' = [shown EXCEPT ![c] = read] /\ typed' = [typed EXCEPT ![c] = t]
  /\ since' = [since EXCEPT ![c] = from]

LEMMA MovesSteps ==
  ASSUME AttachInv, NEW c \in Clients, Accept(c) \/ DropSlow(c) \/ CloseStream(c)
  PROVE  AttachInv'
<1>1. PICK first, passed :
        Kept(c, Waiting(c), srv[c], down[c], up[c], cli[c], shown[c], typed[c], since[c],
             first, passed)
  BY KeptNow
<1>2. PICK at2 :
        /\ \/ srv[c].at = "backlog" /\ at2 \in {"hello", "done"}
           \/ srv[c].at = "stream" /\ srv[c].held = <<>> /\ at2 = "goodbye"
        /\ srv' = [srv EXCEPT ![c].at = at2]
        /\ UNCHANGED <<bridge, inward, down, up, client, since>>
  BY DEF Accept, DropSlow, CloseStream, Idle, Disconnect, Goto
<1>3. Kept(c, Waiting(c), [srv[c] EXCEPT !.at = at2], down[c], up[c], cli[c], shown[c], typed[c],
           since[c], first, passed)
  BY <1>1, <1>2, MovesOn
<1>4. Becomes(c, [srv[c] EXCEPT !.at = at2], down[c], up[c], cli[c], shown[c], typed[c], since[c])
  BY <1>2, Unmoved DEF Becomes, client
<1>5. UNCHANGED <<bridge, inward>>
  BY <1>2
<1> QED
  BY <1>3, <1>4, <1>5, QuietStep DEF Becomes
LEMMA GreetStep ==
  ASSUME AttachInv, NEW c \in Clients, Greet(c)
  PROVE  AttachInv'
<1> DEFINE frame == [kind |-> "ok", n |-> 0]
           h2 == [srv[c] EXCEPT !.at = "latch"]
           wire2 == Wrote(cli[c], down[c], frame)
<1>1. PICK first, passed :
        Kept(c, Waiting(c), srv[c], down[c], up[c], cli[c], shown[c], typed[c], since[c],
             first, passed)
  BY KeptNow
<1>2. /\ srv[c].at = "hello" /\ up[c] # <<>> /\ (Len(down[c]) < WireCap \/ cli[c].at = "quit")
      /\ srv' = [srv EXCEPT ![c].at = "latch"] /\ up' = [up EXCEPT ![c] = Tail(@)]
      /\ Write(c, frame) /\ UNCHANGED <<bridge, inward, client, since>>
  BY DEF Greet, Room, Goto
<1>3. Kept(c, Waiting(c), h2, wire2, Tail(up[c]), cli[c], shown[c], typed[c], since[c], first, passed)
  BY <1>1, <1>2, Greets
<1>4. Becomes(c, h2, wire2, Tail(up[c]), cli[c], shown[c], typed[c], since[c])
  <2>1. down' = [down EXCEPT ![c] = wire2]
    BY <1>2, Unmoved DEF Write, Wrote
  <2> QED  BY <1>2, <2>1, Unmoved DEF Becomes, client
<1> QED
  BY <1>2, <1>3, <1>4, QuietStep DEF Becomes

LEMMA FinishSteps ==
  ASSUME AttachInv, NEW c \in Clients,
         Refuse(c) \/ HelloTimeout(c) \/ WriteFails(c) \/ SayGoodbye(c)
  PROVE  AttachInv'
<1> DEFINE frame == [kind |-> "goodbye", n |-> 0]
<1>1. PICK first, passed :
        Kept(c, Waiting(c), srv[c], down[c], up[c], cli[c], shown[c], typed[c], since[c],
             first, passed)
  BY KeptNow
<1>2. /\ srv[c].at \in {"hello", "stream", "goodbye"}
      /\ srv' = [srv EXCEPT ![c] = NoHandler("done")] /\ up' = [up EXCEPT ![c] = <<>>]
      /\ UNCHANGED <<bridge, inward, client, since>>
  BY DEF Refuse, HelloTimeout, WriteFails, SayGoodbye, Finish
<1>3. PICK wire2 :
        /\ down' = [down EXCEPT ![c] = wire2]
        /\ \/ wire2 = down[c]
           \/ /\ srv[c].at = "goodbye" /\ wire2 = Wrote(cli[c], down[c], frame)
              /\ Len(down[c]) < WireCap \/ cli[c].at = "quit"
  <2>1. CASE Refuse(c) \/ HelloTimeout(c) \/ WriteFails(c)
    BY <2>1, Unmoved DEF Refuse, HelloTimeout, WriteFails
  <2>2. CASE SayGoodbye(c)
    <3>1. down' = [down EXCEPT ![c] = Wrote(cli[c], down[c], frame)]
      BY <2>2, Unmoved DEF SayGoodbye, Write, Wrote
    <3> QED  BY <2>2, <3>1 DEF SayGoodbye, Room
  <2> QED  BY <2>1, <2>2
<1>4. Kept(c, Waiting(c), NoHandler("done"), wire2, <<>>, cli[c], shown[c], typed[c], since[c],
           first, passed)
  BY <1>1, <1>2, <1>3, Finishes
<1>5. Becomes(c, NoHandler("done"), wire2, <<>>, cli[c], shown[c], typed[c], since[c])
  BY <1>2, <1>3, Unmoved DEF Becomes, client
<1> QED
  BY <1>2, <1>4, <1>5, QuietStep DEF Becomes

LEMMA ReplayStep ==
  ASSUME AttachInv, NEW c \in Clients, ReplayTitle(c)
  PROVE  AttachInv'
<1> DEFINE frame == [kind |-> "title", n |-> latch]
           h2 == [srv[c] EXCEPT !.at = "size"]
           wire2 == IF latch = 0 THEN down[c] ELSE Wrote(cli[c], down[c], frame)
<1>1. PICK first, passed :
        Kept(c, Waiting(c), srv[c], down[c], up[c], cli[c], shown[c], typed[c], since[c],
             first, passed)
  BY KeptNow
<1>2. /\ srv[c].at = "latch" /\ (Len(down[c]) < WireCap \/ cli[c].at = "quit")
      /\ srv' = [srv EXCEPT ![c].at = "size"]
      /\ IF latch = 0 THEN UNCHANGED down ELSE Write(c, frame)
      /\ UNCHANGED <<bridge, inward, up, client, since>>
  BY DEF ReplayTitle, Room, Goto
<1>3. PICK first2 :
        Kept(c, Waiting(c), h2, wire2, up[c], cli[c], shown[c], typed[c], since[c], first2, passed)
  BY <1>1, <1>2, Replays
<1>4. Becomes(c, h2, wire2, up[c], cli[c], shown[c], typed[c], since[c])
  <2>1. down' = [down EXCEPT ![c] = wire2]
    BY <1>2, Unmoved DEF Write, Wrote
  <2> QED  BY <1>2, <2>1, Unmoved DEF Becomes, client
<1> QED
  BY <1>2, <1>3, <1>4, QuietStep DEF Becomes

LEMMA SubscribeStep ==
  ASSUME AttachInv, NEW c \in Clients, Subscribe(c)
  PROVE  AttachInv'
<1> DEFINE h2 == [srv[c] EXCEPT !.at = "stream", !.cursor = Len(log)]
<1>1. PICK first, passed :
        Kept(c, Waiting(c), srv[c], down[c], up[c], cli[c], shown[c], typed[c], since[c],
             first, passed)
  BY KeptNow
<1>2. /\ srv[c].at = "subscribe"
      /\ srv' = [srv EXCEPT ![c].at = "stream", ![c].cursor = Len(log)]
      /\ since' = [since EXCEPT ![c] = Len(log)]
      /\ UNCHANGED <<bridge, inward, down, up, client>>
  BY DEF Subscribe, NextFrame
<1>3. Len(log) <= MaxFrames
  BY DEF AttachInv, Typed, TypeOK
<1>4. Kept(c, Waiting(c), h2, down[c], up[c], cli[c], shown[c], typed[c], Len(log), first, passed)
  BY <1>1, <1>2, <1>3, Subscribes
<1>5. Becomes(c, h2, down[c], up[c], cli[c], shown[c], typed[c], Len(log))
  BY <1>2, Unmoved DEF Becomes, client
<1> QED
  BY <1>2, <1>4, <1>5, QuietStep DEF Becomes

LEMMA RecvStep ==
  ASSUME AttachInv, NEW c \in Clients, Recv(c)
  PROVE  AttachInv'
<1> DEFINE h2 == [srv[c] EXCEPT !.cursor = @ + 1, !.held = <<srv[c].cursor + 1>>]
<1>1. PICK first, passed :
        Kept(c, Waiting(c), srv[c], down[c], up[c], cli[c], shown[c], typed[c], since[c],
             first, passed)
  BY KeptNow
<1>2. /\ srv[c].at = "stream" /\ srv[c].held = <<>> /\ srv[c].cursor < Len(log)
      /\ srv' = [srv EXCEPT ![c].cursor = @ + 1, ![c].held = <<srv[c].cursor + 1>>]
      /\ UNCHANGED <<bridge, inward, down, up, client, since>>
  BY DEF Recv, Idle
<1>3. Kept(c, Waiting(c), h2, down[c], up[c], cli[c], shown[c], typed[c], since[c], first, passed)
  BY <1>1, <1>2, Holds
<1>4. Becomes(c, h2, down[c], up[c], cli[c], shown[c], typed[c], since[c])
  BY <1>2, Unmoved DEF Becomes, client
<1> QED
  BY <1>2, <1>3, <1>4, QuietStep DEF Becomes

LEMMA ForwardStep ==
  ASSUME AttachInv, NEW c \in Clients, Forward(c)
  PROVE  AttachInv'
<1> DEFINE frame == [kind |-> "output", n |-> Head(srv[c].held)]
           h2 == [srv[c] EXCEPT !.held = <<>>]
           wire2 == Wrote(cli[c], down[c], frame)
<1>1. PICK first, passed :
        Kept(c, Waiting(c), srv[c], down[c], up[c], cli[c], shown[c], typed[c], since[c],
             first, passed)
  BY KeptNow
<1>2. /\ srv[c].at = "stream" /\ srv[c].held # <<>>
      /\ Len(down[c]) < WireCap \/ cli[c].at = "quit"
      /\ srv' = [srv EXCEPT ![c].held = <<>>] /\ Write(c, frame)
      /\ UNCHANGED <<bridge, inward, up, client, since>>
  BY DEF Forward, Room
<1>3. Kept(c, Waiting(c), h2, wire2, up[c], cli[c], shown[c], typed[c], since[c], first, passed)
  BY <1>1, <1>2, Forwards
<1>4. Becomes(c, h2, wire2, up[c], cli[c], shown[c], typed[c], since[c])
  <2>1. down' = [down EXCEPT ![c] = wire2]
    BY <1>2, Unmoved DEF Write, Wrote
  <2> QED  BY <1>2, <2>1, Unmoved DEF Becomes, client
<1> QED
  BY <1>2, <1>3, <1>4, QuietStep DEF Becomes

LEMMA ReadEventStep ==
  ASSUME AttachInv, NEW c \in Clients, ReadEvent(c)
  PROVE  AttachInv'
<1> DEFINE h2 == [srv[c] EXCEPT !.inHand = <<Head(up[c])>>]
<1>1. PICK first, passed :
        Kept(c, Waiting(c), srv[c], down[c], up[c], cli[c], shown[c], typed[c], since[c],
             first, passed)
  BY KeptNow
<1>2. /\ srv[c].at \in {"subscribe", "stream", "goodbye"} /\ srv[c].inHand = <<>> /\ up[c] # <<>>
      /\ srv' = [srv EXCEPT ![c].inHand = <<Head(up[c])>>] /\ up' = [up EXCEPT ![c] = Tail(@)]
      /\ UNCHANGED <<bridge, inward, down, client, since>>
  BY DEF ReadEvent, Reads
<1>3. Kept(c, Waiting(c), h2, down[c], Tail(up[c]), cli[c], shown[c], typed[c], since[c],
           first, passed)
  BY <1>1, <1>2, Reading
<1>4. Becomes(c, h2, down[c], Tail(up[c]), cli[c], shown[c], typed[c], since[c])
  BY <1>2, Unmoved DEF Becomes, client
<1> QED
  BY <1>2, <1>3, <1>4, QuietStep DEF Becomes
LEMMA SendSizeStep ==
  ASSUME AttachInv, NEW c \in Clients, SendSize(c)
  PROVE  AttachInv'
<1> DEFINE h2 == [srv[c] EXCEPT !.at = "subscribe"]
<1>1. PICK first, passed :
        Kept(c, Waiting(c), srv[c], down[c], up[c], cli[c], shown[c], typed[c], since[c],
             first, passed)
  BY KeptNow
<1>2. /\ srv[c].at = "size" /\ srv' = [srv EXCEPT ![c].at = "subscribe"]
      /\ UNCHANGED <<bridge, heard, down, up, client, since>>
  BY DEF SendSize, Goto
<1>3. heard[c] \in Seq(0..MaxTyped) /\ MaxTyped \in Nat /\ Typed
  BY ClientFacts DEF AttachInv
<1>4. Becomes(c, h2, down[c], up[c], cli[c], shown[c], typed[c], since[c])
  BY <1>2, Unmoved DEF Becomes, client
<1>5. Waiting(c) = {}
  BY <1>1, <1>2, <1>3, SizeSent
<1>6. CASE Receiving /\ EventRoom /\ events' = Append(events, <<c, 0>>)
  <2>1. 0 \in 0..MaxTyped
    BY <1>3
  <2>2. /\ events' \in Seq(Clients \X (0..MaxTyped)) /\ Len(events') = Len(events) + 1
        /\ Waiting(c)' = Waiting(c) \cup {0}
        /\ \A d \in Clients \ {c} : Waiting(d)' = Waiting(d)
        /\ InOrder'
    BY <1>3, <1>5, <1>6, <2>1, EventsPut DEF AttachInv, EventsInv
  <2>3. Len(events') <= EventCap
    <3>1. Len(events) \in Nat
      BY <1>3, LenProperties DEF Typed, TypeOK
    <3> QED  BY <1>6, <2>2, <3>1, CapAssumption DEF EventRoom
  <2>4. Kept(c, Waiting(c) \cup {0}, h2, down[c], up[c], cli[c], shown[c], typed[c], since[c], first, 1)
    BY <1>1, <1>2, <1>3, SizeSent
  <2>5. Kept(c, Waiting(c)', h2, down[c], up[c], cli[c], shown[c], typed[c], since[c], first, 1)
    BY <2>2, <2>4
  <2> QED  BY <1>2, <1>4, <2>2, <2>3, <2>5, LocalStep DEF Becomes
<1>7. CASE ~Receiving /\ UNCHANGED events
  <2>1. session # "running" /\ UNCHANGED <<bridge, inward>>
    BY <1>2, <1>7 DEF Receiving, inward
  <2>2. Kept(c, Waiting(c), h2, down[c], up[c], cli[c], shown[c], typed[c], since[c], first, passed)
    BY <1>1, <1>2, <1>3, <2>1, SizeSent
  <2> QED  BY <1>4, <2>1, <2>2, QuietStep DEF Becomes
<1> QED
  BY <1>6, <1>7 DEF SendSize

LEMMA PassOnStep ==
  ASSUME AttachInv, NEW c \in Clients, PassOn(c)
  PROVE  AttachInv'
<1>1. PICK first, passed :
        Kept(c, Waiting(c), srv[c], down[c], up[c], cli[c], shown[c], typed[c], since[c],
             first, passed)
  BY KeptNow
<1>2. srv[c].inHand # <<>> /\ UNCHANGED <<bridge, heard, down, up, client, since>>
  BY DEF PassOn
<1>3. /\ heard[c] \in Seq(0..MaxTyped) /\ MaxTyped \in Nat /\ Typed
      /\ srv[c] \in Handler /\ srv[c].deaf \in BOOLEAN
  <2>1. heard[c] \in Seq(0..MaxTyped) /\ MaxTyped \in Nat /\ Typed /\ srv[c] \in Handler
    BY ClientFacts DEF AttachInv
  <2> QED  BY <2>1 DEF Handler
<1>6. ASSUME NEW ends \in BOOLEAN, NEW h2, h2 = [srv[c] EXCEPT !.inHand = <<>>, !.deaf = ends]
      PROVE  /\ h2 \in Handler /\ h2.at = srv[c].at /\ h2.cursor = srv[c].cursor
             /\ h2.held = srv[c].held /\ h2.inHand = <<>>
  BY <1>3, <1>6, NothingTyped DEF Handler
<1>4. CASE /\ Receiving /\ EventRoom
           /\ events' = Append(events, <<c, Head(srv[c].inHand)>>)
           /\ srv' = [srv EXCEPT ![c].inHand = <<>>]
  <2> DEFINE e == Head(srv[c].inHand)
             h2 == [srv[c] EXCEPT !.inHand = <<>>, !.deaf = srv[c].deaf]
  <2>1. session = "running"
    BY <1>4 DEF Receiving
  <2>9. /\ h2 \in Handler /\ h2.at = srv[c].at /\ h2.cursor = srv[c].cursor
        /\ h2.held = srv[c].held /\ h2.inHand = <<>>
    BY <1>3, <1>6
  <2>2. /\ Kept(c, Waiting(c) \cup {e}, h2, down[c], up[c], cli[c], shown[c], typed[c], since[c],
                first, passed + 1)
        /\ e \in 0..MaxTyped /\ \A x \in Waiting(c) : x < e
    <3> HIDE DEF h2
    <3>1. /\ Head(srv[c].inHand) \in 0..MaxTyped /\ Head(srv[c].inHand) = passed
          /\ \A x \in Waiting(c) : x < passed
      BY <1>1, <1>2, <2>1, NextEvent
    <3>2. Kept(c, Waiting(c) \cup {Head(srv[c].inHand)}, h2, down[c], up[c], cli[c], shown[c],
               typed[c], since[c], first, passed + 1)
      BY <1>1, <1>2, <1>3, <2>1, <2>9, PassesOn
    <3> QED  BY <3>1, <3>2
  <2>3. h2 = [srv[c] EXCEPT !.inHand = <<>>]
    BY <1>3 DEF Handler
  <2> HIDE DEF e, h2
  <2>4. events' = Append(events, <<c, e>>)
    BY <1>4 DEF e
  <2>5. /\ events' \in Seq(Clients \X (0..MaxTyped)) /\ Len(events') = Len(events) + 1
        /\ Waiting(c)' = Waiting(c) \cup {e}
        /\ \A d \in Clients \ {c} : Waiting(d)' = Waiting(d)
        /\ InOrder'
    BY <1>3, <2>2, <2>4, EventsPut DEF AttachInv, EventsInv
  <2>6. Len(events') <= EventCap
    <3>1. Len(events) \in Nat
      BY <1>3, LenProperties DEF Typed, TypeOK
    <3> QED  BY <1>4, <2>5, <3>1, CapAssumption DEF EventRoom
  <2>7. Kept(c, Waiting(c)', h2, down[c], up[c], cli[c], shown[c], typed[c], since[c],
             first, passed + 1)
    BY <2>2, <2>5
  <2>8. Becomes(c, h2, down[c], up[c], cli[c], shown[c], typed[c], since[c])
    BY <1>2, <1>4, <2>3, Unmoved DEF Becomes, client
  <2> QED  BY <1>2, <2>5, <2>6, <2>7, <2>8, LocalStep DEF Becomes
<1>5. CASE /\ ~Receiving /\ UNCHANGED events
           /\ \E ends \in BOOLEAN :
                srv' = [srv EXCEPT ![c].inHand = <<>>, ![c].deaf = ends]
  <2>1. PICK ends \in BOOLEAN : srv' = [srv EXCEPT ![c].inHand = <<>>, ![c].deaf = ends]
    BY <1>5
  <2> DEFINE h2 == [srv[c] EXCEPT !.inHand = <<>>, !.deaf = ends]
  <2>2. session # "running" /\ UNCHANGED <<bridge, inward>>
    BY <1>2, <1>5 DEF Receiving, inward
  <2>5. /\ h2 \in Handler /\ h2.at = srv[c].at /\ h2.cursor = srv[c].cursor
        /\ h2.held = srv[c].held /\ h2.inHand = <<>>
    BY <1>3, <1>6
  <2>3. Kept(c, Waiting(c), h2, down[c], up[c], cli[c], shown[c], typed[c], since[c], first, passed)
    <3> HIDE DEF h2
    <3> QED  BY <1>1, <1>2, <1>3, <2>2, <2>5, PassesOn
  <2>4. Becomes(c, h2, down[c], up[c], cli[c], shown[c], typed[c], since[c])
    BY <1>2, <2>1, Unmoved DEF Becomes, client
  <2> QED  BY <2>2, <2>3, <2>4, QuietStep DEF Becomes
<1> QED
  BY <1>4, <1>5 DEF PassOn

LEMMA ConnectStep ==
  ASSUME AttachInv, NEW c \in Clients, Connect(c)
  PROVE  AttachInv'
<1> DEFINE h2 == [srv[c] EXCEPT !.at = "backlog"]
           p2 == [cli[c] EXCEPT !.at = "connecting"]
<1>1. PICK first, passed :
        Kept(c, Waiting(c), srv[c], down[c], up[c], cli[c], shown[c], typed[c], since[c],
             first, passed)
  BY KeptNow
<1>2. /\ cli[c].at = "off" /\ cli' = [cli EXCEPT ![c].at = "connecting"]
      /\ srv' = [srv EXCEPT ![c].at = "backlog"]
      /\ UNCHANGED <<bridge, inward, down, up, shown, typed, since>>
  BY DEF Connect, Goto
<1>3. Kept(c, Waiting(c), h2, down[c], up[c], p2, shown[c], typed[c], since[c], first, passed)
  BY <1>1, <1>2, Connects
<1>4. Becomes(c, h2, down[c], up[c], p2, shown[c], typed[c], since[c])
  BY <1>2, Unmoved DEF Becomes
<1> QED
  BY <1>2, <1>3, <1>4, QuietStep DEF Becomes

LEMMA HelloStep ==
  ASSUME AttachInv, NEW c \in Clients, SendHello(c)
  PROVE  AttachInv'
<1> DEFINE u2 == Append(up[c], 0)
           p2 == [cli[c] EXCEPT !.hello = TRUE]
<1>1. PICK first, passed :
        Kept(c, Waiting(c), srv[c], down[c], up[c], cli[c], shown[c], typed[c], since[c],
             first, passed)
  BY KeptNow
<1>2. /\ cli[c].at = "connecting" /\ ~cli[c].hello /\ cli' = [cli EXCEPT ![c].hello = TRUE]
      /\ up' = [up EXCEPT ![c] = Append(@, 0)]
      /\ UNCHANGED <<bridge, inward, srv, down, shown, typed, since>>
  BY DEF SendHello
<1>3. Kept(c, Waiting(c), srv[c], down[c], u2, p2, shown[c], typed[c], since[c], first, passed)
  BY <1>1, <1>2, Hellos
<1>4. Becomes(c, srv[c], down[c], u2, p2, shown[c], typed[c], since[c])
  BY <1>2, Unmoved DEF Becomes
<1> QED
  BY <1>2, <1>3, <1>4, QuietStep DEF Becomes

LEMMA QuitSteps ==
  ASSUME AttachInv, NEW c \in Clients, Running(c), Quit(c), UNCHANGED <<bridge, inward, srv, up>>
  PROVE  AttachInv'
<1>1. PICK first, passed :
        Kept(c, Waiting(c), srv[c], down[c], up[c], cli[c], shown[c], typed[c], since[c],
             first, passed)
  BY KeptNow
<1>2. Alive(cli[c].at)
  BY DEF Running, Alive
<1>3. Kept(c, Waiting(c), srv[c], <<>>, up[c], NoProcess("quit"), <<>>, 0, 0, first, passed)
  BY <1>1, <1>2, Quits
<1>4. Becomes(c, srv[c], <<>>, up[c], NoProcess("quit"), <<>>, 0, 0)
  BY Unmoved DEF Becomes, Quit
<1> QED
  BY <1>3, <1>4, QuietStep DEF Becomes

LEMMA ReadFrameStep ==
  ASSUME AttachInv, NEW c \in Clients, ReadFrame(c)
  PROVE  AttachInv'
<1> DEFINE frame == Head(down[c])
           read2 == IF frame.kind = "ok" THEN shown[c] ELSE Append(shown[c], frame)
           p2 == [cli[c] EXCEPT !.at = "on"]
<1>1. /\ Running(c) /\ down[c] # <<>> /\ UNCHANGED <<bridge, inward, srv, up>>
      /\ \/ Quit(c)
         \/ /\ frame.kind # "goodbye" /\ cli' = [cli EXCEPT ![c].at = "on"]
            /\ shown' = IF frame.kind = "ok" THEN shown
                                             ELSE [shown EXCEPT ![c] = Append(@, frame)]
            /\ down' = [down EXCEPT ![c] = Tail(@)] /\ UNCHANGED <<typed, since>>
  BY DEF ReadFrame
<1>2. CASE Quit(c)
  BY <1>1, <1>2, QuitSteps
<1>3. CASE ~Quit(c)
  <2>1. PICK first, passed :
          Kept(c, Waiting(c), srv[c], down[c], up[c], cli[c], shown[c], typed[c], since[c],
               first, passed)
    BY KeptNow
  <2>2. Alive(cli[c].at) /\ frame.kind # "goodbye"
    BY <1>1, <1>3 DEF Running, Alive
  <2>3. Kept(c, Waiting(c), srv[c], Tail(down[c]), up[c], p2, read2, typed[c], since[c],
             first, passed)
    BY <1>1, <2>1, <2>2, ReadsFrame
  <2>4. Becomes(c, srv[c], Tail(down[c]), up[c], p2, read2, typed[c], since[c])
    BY <1>1, <1>3, Unmoved DEF Becomes
  <2> QED  BY <1>1, <2>3, <2>4, QuietStep DEF Becomes
<1> QED
  BY <1>2, <1>3

LEMMA TypeStep ==
  ASSUME AttachInv, NEW c \in Clients, Type(c)
  PROVE  AttachInv'
<1> DEFINE p2 == [cli[c] EXCEPT !.queue = Append(@, typed[c] + 1)]
<1>1. PICK first, passed :
        Kept(c, Waiting(c), srv[c], down[c], up[c], cli[c], shown[c], typed[c], since[c],
             first, passed)
  BY KeptNow
<1>2. /\ cli[c].at = "on" /\ ~cli[c].stop /\ typed[c] < MaxTyped
      /\ typed' = [typed EXCEPT ![c] = @ + 1]
      /\ cli' = [cli EXCEPT ![c].queue = Append(@, typed[c] + 1)]
      /\ UNCHANGED <<bridge, inward, srv, down, up, shown, since>>
  BY DEF Type
<1>3. Kept(c, Waiting(c), srv[c], down[c], up[c], p2, shown[c], typed[c] + 1, since[c],
           first, passed)
  BY <1>1, <1>2, Types
<1>4. Becomes(c, srv[c], down[c], up[c], p2, shown[c], typed[c] + 1, since[c])
  BY <1>2, Unmoved DEF Becomes
<1> QED
  BY <1>2, <1>3, <1>4, QuietStep DEF Becomes

LEMMA WriterSteps ==
  ASSUME AttachInv, NEW c \in Clients, StdinEnds(c) \/ SendEvent(c)
  PROVE  AttachInv'
<1>1. PICK first, passed :
        Kept(c, Waiting(c), srv[c], down[c], up[c], cli[c], shown[c], typed[c], since[c],
             first, passed)
  BY KeptNow
<1>2. cli[c].at = "on" /\ UNCHANGED <<bridge, inward, srv, down, shown, typed, since>>
  BY DEF StdinEnds, SendEvent
<1>3. CASE /\ ~cli[c].stop /\ Len(up[c]) < WireCap /\ cli[c].queue # <<>>
           /\ up' = [up EXCEPT ![c] = Append(@, Head(cli[c].queue))]
           /\ cli' = [cli EXCEPT ![c].queue = Tail(@)]
  <2> DEFINE u2 == Append(up[c], Head(cli[c].queue))
             p2 == [cli[c] EXCEPT !.queue = Tail(@)]
  <2>1. Kept(c, Waiting(c), srv[c], down[c], u2, p2, shown[c], typed[c], since[c], first, passed)
    BY <1>1, <1>2, <1>3, Sends
  <2>2. Becomes(c, srv[c], down[c], u2, p2, shown[c], typed[c], since[c])
    BY <1>2, <1>3, Unmoved DEF Becomes
  <2> QED  BY <1>2, <2>1, <2>2, QuietStep DEF Becomes
<1>4. ASSUME NEW p2, \/ p2 = [cli[c] EXCEPT !.stop = TRUE]
                     \/ p2 = [cli[c] EXCEPT !.shut = TRUE, !.stop = TRUE, !.queue = <<>>],
             cli' = [cli EXCEPT ![c] = p2], UNCHANGED up
      PROVE  AttachInv'
  <2>1. Kept(c, Waiting(c), srv[c], down[c], up[c], p2, shown[c], typed[c], since[c], first, passed)
    BY <1>1, <1>2, <1>4, Stops
  <2>2. Becomes(c, srv[c], down[c], up[c], p2, shown[c], typed[c], since[c])
    BY <1>2, <1>4, Unmoved DEF Becomes
  <2> QED  BY <1>2, <2>1, <2>2, QuietStep DEF Becomes
<1>5. CASE StdinEnds(c)
  BY <1>4, <1>5 DEF StdinEnds
<1>6. CASE SendEvent(c)
  BY <1>3, <1>4, <1>6, ZenonT(40) DEF SendEvent
<1> QED
  BY <1>5, <1>6
-----------------------------------------------------------------------------
(* The session takes an event, and it ends.                                 *)

LEMMA StreamsSame ==
  ASSUME StreamsInv, UNCHANGED <<log, latch, titling, srv, down, cli, shown, since>>
  PROVE  StreamsInv'
<1>1. LogInv'
  BY DEF StreamsInv, LogInv
<1>2. ASSUME NEW c \in Clients
      PROVE  \E first \in {1, 2} : StreamAt(c, first)'
  <2>1. PICK first \in {1, 2} : StreamAt(c, first)
    BY DEF StreamsInv
  <2>2. StreamAt(c, first)'
    BY <2>1 DEF StreamAt
  <2> QED  BY <2>2
<1> QED
  BY <1>1, <1>2 DEF StreamsInv

LEMMA TakeStep ==
  ASSUME AttachInv, TakeEvent
  PROVE  AttachInv'
<1> DEFINE c == Head(events)[1]
           e == Head(events)[2]
<1>1. /\ Typed /\ StreamsInv /\ EventsInv /\ InOrder /\ events # <<>> /\ events' = Tail(events)
      /\ heard' = [heard EXCEPT ![c] = Append(@, e)]
      /\ UNCHANGED <<log, latch, titling, session, accepting, srv, down, up, cli, shown, typed, since>>
  BY DEF AttachInv, EventsInv, TakeEvent, bridge, client
<1>2. PICK k, x : k = c /\ x = e
  OBVIOUS
<1>3. heard' = [heard EXCEPT ![k] = Append(@, x)]
  BY <1>1, <1>2
<1>4. /\ events' \in Seq(Clients \X (0..MaxTyped)) /\ Len(events') <= Len(events)
      /\ k \in Clients /\ x \in Waiting(k) /\ (\A y \in Waiting(k) : x <= y)
      /\ Waiting(k)' = Waiting(k) \ {x}
      /\ (\A d \in Clients \ {k} : Waiting(d)' = Waiting(d))
      /\ InOrder'
  BY <1>1, <1>2, EventsTaken
<1> HIDE DEF c, e
<1>5. PICK passed \in 0..(MaxTyped + 1) : PassedAt(k, passed)
  BY <1>1, <1>4 DEF EventsInv
<1>6. /\ heard \in [Clients -> Seq(0..MaxTyped)] /\ heard[k] \in Seq(0..MaxTyped)
      /\ Len(heard[k]) \in Nat /\ MaxTyped \in Nat /\ passed \in Nat
      /\ Len(events) \in Nat /\ Len(events') \in Nat /\ Len(events) <= EventCap
  <2>1. heard \in [Clients -> Seq(0..MaxTyped)] /\ events \in Seq(Clients \X (0..MaxTyped)) /\ Len(events) <= EventCap
    BY <1>1 DEF Typed, TypeOK
  <2> QED  BY <1>4, <2>1, BoundAssumption, LenProperties
<1>7. /\ RunFrom(heard[k], 0) /\ Len(heard[k]) <= passed
      /\ Waiting(k) = {y \in 0..MaxTyped : Len(heard[k]) <= y /\ y < passed}
  BY <1>5 DEF PassedAt, Passed
<1>8. x = Len(heard[k]) /\ x \in 0..MaxTyped /\ x < passed
  <2>1. x \in 0..MaxTyped /\ Len(heard[k]) <= x /\ x < passed
    BY <1>4, <1>7
  <2>2. Len(heard[k]) \in Waiting(k)
    BY <1>6, <1>7, <2>1
  <2> QED  BY <1>4, <1>6, <2>1, <2>2
<1>9. heard'[k] = Append(heard[k], x) /\ \A d \in Clients \ {k} : heard'[d] = heard[d]
  BY <1>3, <1>4, <1>6
<1>10. /\ heard'[k] \in Seq(0..MaxTyped) /\ Len(heard'[k]) = Len(heard[k]) + 1
       /\ RunFrom(heard'[k], 0)
  <2>1. 0..MaxTyped \in SUBSET Nat /\ x = 0 + Len(heard[k])
    BY <1>6, <1>8
  <2>2. /\ Append(heard[k], x) \in Seq(0..MaxTyped)
        /\ Len(Append(heard[k], x)) = Len(heard[k]) + 1 /\ RunFrom(Append(heard[k], x), 0)
    BY <1>6, <1>7, <1>8, <2>1, LastRuns
  <2> QED  BY <1>9, <2>2
<1>11. Typed'
  <2>1. heard' \in [Clients -> Seq(0..MaxTyped)]
    BY <1>3, <1>4, <1>6, <1>9, <1>10
  <2>2. Len(events') <= EventCap
    BY <1>4, <1>6, CapAssumption
  <2> QED  BY <1>1, <1>4, <2>1, <2>2 DEF Typed, TypeOK
<1>12. StreamsInv'
  BY <1>1, StreamsSame
<1>13. Passed(heard'[k], Waiting(k)', srv[k], passed)
  <2>1. Waiting(k)' = {y \in 0..MaxTyped : Len(heard[k]) + 1 <= y /\ y < passed}
    <3>1. ASSUME NEW y \in 0..MaxTyped
          PROVE  Len(heard[k]) <= y /\ y # Len(heard[k]) <=> Len(heard[k]) + 1 <= y
      BY <1>6
    <3> QED  BY <1>4, <1>7, <1>8, <3>1
  <2>2. Len(heard[k]) + 1 <= passed
    BY <1>6, <1>8
  <2>3. srv[k].at \in {"absent", "backlog", "hello", "latch", "size"} => passed = 0
    BY <1>5 DEF PassedAt, Passed
  <2> QED  BY <1>10, <2>1, <2>2, <2>3 DEF Passed
<1>14. EventsInv'
  <2>1. Others(k)
    BY <1>1, <1>9 DEF Others
  <2>2. Agree(srv'[k], up'[k], down'[k], cli'[k], typed'[k])
    BY <1>1, <1>4 DEF EventsInv
  <2>3. Passed(heard'[k], Waiting(k)', srv'[k], passed)
    BY <1>1, <1>13
  <2>4. session = "running" /\ srv'[k].at # "done" =>
          OnTheWay(srv'[k], up'[k], cli'[k], typed'[k], passed)
    BY <1>1, <1>5 DEF PassedAt
  <2> QED  BY <1>1, <1>4, <2>1, <2>2, <2>3, <2>4, EventsStep
<1> QED
  BY <1>11, <1>12, <1>14 DEF AttachInv

LEMMA DropServerStep ==
  ASSUME AttachInv, DropServer
  PROVE  AttachInv'
<1>1. /\ Typed /\ StreamsInv /\ EventsInv /\ session' = "gone" /\ events' = <<>>
      /\ UNCHANGED <<log, latch, titling, accepting, heard, srv, down, up, cli, shown, typed, since>>
  BY DEF AttachInv, DropServer, client
<1>2. <<>> \in Seq(Clients \X (0..MaxTyped)) /\ Len(<<>>) = 0 /\ DOMAIN <<>> = {} /\ Range(<<>>) = {}
  BY NothingTyped
<1>3. Typed'
  <2>1. Len(events') <= EventCap
    BY <1>1, <1>2, CapAssumption
  <2> QED  BY <1>1, <1>2, <2>1 DEF Typed, TypeOK
<1>4. StreamsInv'
  BY <1>1, StreamsSame
<1>5. InOrder' /\ \A d : Waiting(d)' = {}
  BY <1>1, <1>2 DEF InOrder, Waiting
<1>6. ASSUME NEW d \in Clients
      PROVE  /\ Agree(srv[d], up[d], down[d], cli[d], typed[d])'
             /\ \E passed2 \in 0..(MaxTyped + 1) : PassedAt(d, passed2)'
  <2>1. PICK passed \in 0..(MaxTyped + 1) : PassedAt(d, passed)
    BY <1>1 DEF EventsInv
  <2>2. /\ RunFrom(heard[d], 0) /\ Len(heard[d]) <= passed
        /\ srv[d].at \in {"absent", "backlog", "hello", "latch", "size"} => passed = 0
    BY <2>1 DEF PassedAt, Passed
  <2>3. Len(heard[d]) \in Nat /\ MaxTyped \in Nat
    BY <1>1, ClientFacts
  <2>4. Len(heard[d]) \in 0..(MaxTyped + 1)
    BY <2>2, <2>3
  <2>5. {e \in 0..MaxTyped : Len(heard[d]) <= e /\ e < Len(heard[d])} = {}
    BY <2>3
  <2>6. Passed(heard[d], {}, srv[d], Len(heard[d]))
    BY <2>2, <2>3, <2>5 DEF Passed
  <2>7. ASSUME NEW n, n = Len(heard[d])
        PROVE  PassedAt(d, n)'
    BY <1>1, <1>5, <2>6, <2>7 DEF PassedAt
  <2>8. \E passed2 \in 0..(MaxTyped + 1) : PassedAt(d, passed2)'
    BY <2>4, <2>7
  <2>9. Agree(srv[d], up[d], down[d], cli[d], typed[d])'
    BY <1>1 DEF EventsInv
  <2> QED  BY <2>8, <2>9
<1>7. EventsInv'
  BY <1>5, <1>6 DEF EventsInv
<1> QED
  BY <1>3, <1>4, <1>7 DEF AttachInv

LEMMA StopStep ==
  ASSUME AttachInv, StopAccepting
  PROVE  AttachInv'
<1>1. /\ Typed /\ StreamsInv /\ EventsInv /\ accepting' = FALSE
      /\ srv' = [c \in Clients |-> IF srv[c].at = "backlog" THEN [srv[c] EXCEPT !.at = "done"]
                                                            ELSE srv[c]]
      /\ UNCHANGED <<log, latch, titling, session, events, heard, down, up, cli, shown, typed, since>>
  BY DEF AttachInv, StopAccepting, inward, client
<1>2. InOrder' /\ \A d : Waiting(d)' = Waiting(d)
  BY <1>1, SameEvents DEF EventsInv
<1>3. ASSUME NEW c \in Clients
      PROVE  \E first, passed :
               Kept(c, Waiting(c), srv'[c], down[c], up[c], cli[c], shown[c], typed[c], since[c],
                    first, passed)
  <2>1. PICK first, passed :
          Kept(c, Waiting(c), srv[c], down[c], up[c], cli[c], shown[c], typed[c], since[c],
               first, passed)
    BY KeptNow
  <2>2. CASE srv[c].at = "backlog"
    <3>1. Kept(c, Waiting(c), [srv[c] EXCEPT !.at = "done"], down[c], up[c], cli[c], shown[c],
               typed[c], since[c], first, passed)
      BY <2>1, <2>2, MovesOn
    <3>2. srv'[c] = [srv[c] EXCEPT !.at = "done"]
      BY <1>1, <2>2
    <3> QED  BY <3>1, <3>2
  <2>3. CASE srv[c].at # "backlog"
    <3>1. srv'[c] = srv[c]
      BY <1>1, <2>3
    <3> QED  BY <2>1, <3>1
  <2> QED  BY <2>2, <2>3
<1>4. Typed'
  <2>1. \A c \in Clients : /\ srv'[c] \in Handler /\ srv'[c].cursor \in 0..Len(log)
                           /\ srv'[c].held \in Seq(1..Len(log))
                           /\ srv'[c].inHand \in Seq(0..MaxTyped)
    BY <1>3 DEF Kept, Fits
  <2>2. srv' \in [Clients -> Handler]
    BY <1>1, <2>1
  <2> QED  BY <1>1, <2>1, <2>2 DEF Typed, TypeOK
<1>5. LogInv'
  BY <1>1 DEF StreamsInv, LogInv
<1>6. ASSUME NEW c \in Clients
      PROVE  /\ \E first \in {1, 2} : StreamAt(c, first)'
             /\ Agree(srv[c], up[c], down[c], cli[c], typed[c])'
             /\ \E passed \in 0..(MaxTyped + 1) : PassedAt(c, passed)'
  <2>1. PICK first, passed :
          Kept(c, Waiting(c), srv'[c], down[c], up[c], cli[c], shown[c], typed[c], since[c],
               first, passed)
    BY <1>3
  <2>2. first \in {1, 2} /\ passed \in 0..(MaxTyped + 1)
    BY <2>1 DEF Kept
  <2>3. StreamAt(c, first)'
    BY <1>1, <2>1 DEF Kept, StreamAt
  <2>4. Agree(srv[c], up[c], down[c], cli[c], typed[c])'
    BY <1>1, <2>1 DEF Kept
  <2>5. PassedAt(c, passed)'
    BY <1>1, <1>2, <2>1 DEF Kept, PassedAt
  <2> QED  BY <2>2, <2>3, <2>4, <2>5
<1>7. StreamsInv' /\ EventsInv'
  BY <1>2, <1>5, <1>6 DEF StreamsInv, EventsInv
<1> QED
  BY <1>4, <1>7 DEF AttachInv
-----------------------------------------------------------------------------
(* Theorems.                                                                *)

LEMMA AttachStep ==
  ASSUME AttachInv, [Next]_vars
  PROVE  AttachInv'
<1>1. CASE SessionStep
  BY <1>1, BroadcastStep, LatchStep, TakeStep, DropServerStep, StopStep DEF SessionStep
<1>2. ASSUME NEW c \in Clients, HandlerStep(c)
      PROVE  AttachInv'
  BY <1>2, MovesSteps, GreetStep, FinishSteps, ReplayStep, SendSizeStep, SubscribeStep, RecvStep,
     ForwardStep
     DEF HandlerStep
<1>3. ASSUME NEW c \in Clients, ReaderStep(c)
      PROVE  AttachInv'
  BY <1>3, ReadEventStep, PassOnStep DEF ReaderStep
<1>4. ASSUME NEW c \in Clients, ClientStep(c)
      PROVE  AttachInv'
  <2>1. CASE ConnectionEnds(c) \/ Die(c)
    BY <2>1, QuitSteps DEF ConnectionEnds, Die
  <2> QED
    BY <1>4, <2>1, ConnectStep, HelloStep, ReadFrameStep, TypeStep, WriterSteps
       DEF ClientStep, Receive
<1>5. CASE UNCHANGED vars
  <2>1. /\ Typed /\ StreamsInv /\ EventsInv
        /\ UNCHANGED <<log, latch, titling, session, accepting, events, heard, inward, srv, down, up,
                       cli, shown, typed, since>>
    BY <1>5 DEF AttachInv, vars, bridge, inward, client
  <2>2. Typed'
    BY <2>1 DEF Typed, TypeOK
  <2>3. StreamsInv'
    BY <2>1, StreamsSame
  <2>4. EventsInv'
    BY <2>1, EventsSame
  <2> QED  BY <2>2, <2>3, <2>4 DEF AttachInv
<1> QED
  BY <1>1, <1>2, <1>3, <1>4, <1>5 DEF Next

LEMMA AttachAlways == Spec => []AttachInv
<1>1. Init => AttachInv
  BY AttachInit
<1>2. AttachInv /\ [Next]_vars => AttachInv'
  BY AttachStep
<1> QED
  BY <1>1, <1>2, PTL DEF Spec

\* A client shows the latched title and then every frame from its subscription on,
\* none twice and none left out, and no channel is over its depth: a handler that
\* has fallen BROADCAST_CAPACITY frames behind (RecvError::Lagged in server.rs)
\* disconnects its client and never resumes past the hole.
THEOREM StreamsHaveNoHole == Spec => []StreamInv
<1>1. AttachInv => StreamInv
  BY MeansStream
<1> QED
  BY <1>1, AttachAlways, PTL

\* set_title latches a title before it broadcasts it, and a handler reads the latch
\* before it subscribes: a client may see a title twice, but none after a newer one.
THEOREM TitlesGoForward == Spec => []TitlesForward
<1>1. AttachInv => TitlesForward
  BY MeansTitles
<1> QED
  BY <1>1, AttachAlways, PTL

\* The handler sends the initial size to event_tx before it starts the reader task
\* on the same sender: the session gets the size first, then what the user types,
\* in order, with nothing lost while the client stays.
THEOREM EventsStayInOrder == Spec => []EventsInOrder
<1>1. AttachInv => EventsInOrder
  BY MeansEvents
<1> QED
  BY <1>1, AttachAlways, PTL
=============================================================================
