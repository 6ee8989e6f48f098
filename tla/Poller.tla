------------------------------ MODULE Poller ------------------------------
(***************************************************************************)
(* The Slack client (client.rs): the task that polls the channel's history *)
(* for what users write, against the calls that post and edit the bridge's *)
(* own messages in the same channel under the same user.                   *)
(*                                                                         *)
(* Slack is external.  It stores messages in the order of their timestamps *)
(* and a message is known by its position in that order.  A page of the    *)
(* history is cut at a limit: without a cursor, or by one reading of the   *)
(* API, the newest messages are kept, by the other those closest to the    *)
(* cursor; the code does not say which, so both can happen.  Nor does it   *)
(* say in one way whether a page has the message at the cursor again: the  *)
(* comment on the seed calls `oldest` inclusive, the one on the cursor     *)
(* takes it to be exclusive.  Both are modelled.                           *)
(***************************************************************************)
EXTENDS Integers, Sequences, FiniteSets, SequencesExt

CONSTANTS
  Callers,   \* tasks of the bridge that post: the outer loop, the dispatchers
  Editors,   \* those that edit, too: the dispatchers
  Texts,     \* texts the bridge posts
  Limit,     \* messages of one page, 20
  ChanCap,   \* depth of the subscription
  TsCap,     \* MAX_POSTED_TS
  TextCap,   \* MAX_POSTED_TEXTS
  MaxOld,    \* bound: messages in the channel before the subscription
  MaxPosts,  \* bound: messages in the channel
  MaxOwn,    \* bound: those of them that are the bridge's own
  MaxEdit,   \* bound: messages in the channel up to which an edit begins
  MaxAgain   \* bound: deliveries after which a repeated one is not recorded

ASSUME CapAssumption ==
  /\ Limit \in Nat \ {0} /\ ChanCap \in Nat \ {0} /\ TsCap \in Nat \ {0}
  /\ TextCap \in Nat \ {0}
ASSUME BoundAssumption ==
  MaxPosts \in Nat /\ MaxOld \in 0..MaxPosts /\ MaxAgain \in Nat

\* A user writes a message, or one that the loop drops: it has a subtype (a join)
\* or mentions a marker.  The bridge's text comes back as it was posted, with the
\* marker in its shortcode form, or altered in another way.
UserKinds == {"user", "dropped"}
OwnKinds  == {"unicode", "shortcode", "altered"}

VARIABLES
  inclusive,  \* Slack: whether `oldest` is inclusive; never changes
  posts,      \* the channel: a kind for each message, and the text if it is own
  poster,     \* what each caller of send_message and edit_message is at
  postedTs,   \* PostedTsRing.queue, the oldest first
  postedText, \* PostedTextRing.queue
  poller,     \* "seeding", "sleeping", "handling", "sending", "stopped"
  cursor,     \* last_ts, 0 for None
  page,       \* copies of the messages of the page that are still to be handled
  waiting,    \* messages in the subscription
  delivered,  \* history: messages sent to the subscriber
  old,        \* history: length of the channel when subscribe was called
  seed,       \* history: length of the channel when it was seeded, -1 if that failed
  overrun,    \* history: messages that fell out of a full page
  early,      \* history: messages fetched altered whose ts was not in the ring
  forgotten   \* history: messages whose ts fell out of the ring

Message == [kind : UserKinds \cup OwnKinds, text : Texts \cup {"none"}]
Call == [at : {"idle", "posting", "stored", "editing"},
         text : Texts \cup {"none"}, id : 0..MaxPosts]
Idle == [at |-> "idle", text |-> "none", id |-> 0]

rings   == <<postedTs, postedText>>
fetched == <<seed, overrun, early>>
reading == <<poller, cursor, page, waiting, delivered, fetched>>
past    == <<inclusive, old>>
vars    == <<posts, poster, rings, reading, past, forgotten>>

UserMessage(kind) == [kind |-> kind, text |-> "none"]
Own(i) == posts[i].kind \in OwnKinds
OwnPosts == {i \in DOMAIN posts : Own(i)}

Init ==
  /\ inclusive \in BOOLEAN
  /\ old \in 0..MaxOld /\ posts = [i \in 1..old |-> UserMessage("user")]
  /\ poster = [c \in Callers |-> Idle] /\ postedTs = <<>> /\ postedText = <<>>
  /\ poller = "seeding" /\ cursor = 0 /\ page = <<>> /\ waiting = 0
  /\ delivered = <<>> /\ seed = 0 /\ overrun = {} /\ early = {} /\ forgotten = {}

-----------------------------------------------------------------------------
(* The rings.                                                              *)

\* insert: an entry that is there keeps its place, a full ring evicts its oldest.
Inserted(queue, x, cap) ==
  IF Contains(queue, x) THEN queue
  ELSE Append(IF Len(queue) >= cap THEN Tail(queue) ELSE queue, x)

RecordTs(i) ==
  /\ postedTs' = Inserted(postedTs, i, TsCap)
  /\ forgotten' = forgotten \cup (ToSet(postedTs) \ ToSet(postedTs'))

-----------------------------------------------------------------------------
(* The users, and the calls of the bridge.                                 *)

UserWrites ==
  /\ Len(posts) < MaxPosts
  /\ \E kind \in UserKinds : posts' = Append(posts, UserMessage(kind))
  /\ UNCHANGED <<poster, rings, reading, past, forgotten>>

Remembered(text) == Inserted(postedText, text, TextCap)

\* send_message and edit_message remember the text before the call is made.
\* A message is edited by the id that send_message returned, which its caller
\* keeps whether or not the ring does.
StartPost(c) ==
  /\ poster[c].at = "idle"
  /\ \E text \in Texts :
       /\ poster' = [poster EXCEPT ![c] = [at |-> "posting", text |-> text, id |-> 0]]
       /\ postedText' = Remembered(text)
  /\ UNCHANGED <<posts, postedTs, reading, past, forgotten>>

StartEdit(c) ==
  /\ c \in Editors /\ poster[c].at = "idle" /\ Len(posts) <= MaxEdit
  /\ \E text \in Texts, i \in ToSet(postedTs) \cup forgotten :
       /\ Own(i)
       /\ poster' = [poster EXCEPT ![c] = [at |-> "editing", text |-> text, id |-> i]]
       /\ postedText' = Remembered(text)
  /\ UNCHANGED <<posts, postedTs, reading, past, forgotten>>

\* Slack stores the message; the poller can see it from now on.
Store(c) ==
  /\ poster[c].at = "posting" /\ Len(posts) < MaxPosts /\ Cardinality(OwnPosts) < MaxOwn
  /\ \E kind \in OwnKinds : posts' = Append(posts, [kind |-> kind, text |-> poster[c].text])
  /\ poster' = [poster EXCEPT ![c].at = "stored", ![c].id = Len(posts) + 1]
  /\ UNCHANGED <<rings, reading, past, forgotten>>

StoreEdit(c) ==
  /\ poster[c].at = "editing"
  /\ \E kind \in OwnKinds :
       posts' = [posts EXCEPT ![poster[c].id] = [kind |-> kind, text |-> poster[c].text]]
  /\ poster' = [poster EXCEPT ![c] = Idle]
  /\ UNCHANGED <<rings, reading, past, forgotten>>

\* The response carries the ts.
Answered(c) ==
  /\ poster[c].at = "stored"
  /\ RecordTs(poster[c].id)
  /\ poster' = [poster EXCEPT ![c] = Idle]
  /\ UNCHANGED <<posts, postedText, reading, past>>

\* The call fails, before or after Slack has stored the message.
CallFails(c) ==
  /\ poster[c].at # "idle"
  /\ poster' = [poster EXCEPT ![c] = Idle]
  /\ UNCHANGED <<posts, rings, reading, past, forgotten>>

-----------------------------------------------------------------------------
(* The poller.                                                             *)

Newest == Len(posts)

\* subscribe: the newest message becomes the cursor and counts as handled.
Seed ==
  /\ poller = "seeding" /\ poller' = "sleeping"
  /\ seed' = Len(posts)
  /\ cursor' = Newest
  /\ IF Newest = 0 THEN UNCHANGED <<postedTs, forgotten>> ELSE RecordTs(Newest)
  /\ UNCHANGED <<posts, poster, postedText, page, waiting, delivered, overrun, early, past>>

SeedFails ==
  /\ poller = "seeding" /\ poller' = "sleeping"
  /\ seed' = -1
  /\ UNCHANGED <<posts, poster, rings, cursor, page, waiting, delivered, overrun, early>>
  /\ UNCHANGED <<past, forgotten>>

\* A page, newest first, of the messages past position i.
After(i, newest) ==
  LET n    == Len(posts) - i
      kept == IF n > Limit THEN Limit ELSE n
      top  == IF newest THEN Len(posts) ELSE i + kept
  IN  [k \in 1..kept |-> [id |-> top + 1 - k, is |-> posts[top + 1 - k]]]

\* Where a page begins: it has the message at the cursor, or not.
Oldest == IF inclusive /\ cursor # 0 THEN cursor - 1 ELSE cursor

Ids(messages) == {messages[k].id : k \in DOMAIN messages}

\* Mutant: a page is handled in the order it comes.
AsReceived(messages) == messages

\* The code reverses a page.
Chronological(messages) == Reverse(messages)

\* What lies between the cursor and a page of the newest messages.
Missed(messages) == ((cursor + 1)..Len(posts)) \ Ids(messages)

FetchedEarly(message) == message.is.kind = "altered" /\ ~Contains(postedTs, message.id)

Poll ==
  /\ poller = "sleeping"
  /\ \E newest \in {TRUE, cursor = 0} :
       LET messages == After(Oldest, newest) IN
         /\ page' = Chronological(messages)
         /\ overrun' = IF newest THEN overrun \cup Missed(messages) ELSE overrun
         /\ early' = early \cup {m.id : m \in {n \in ToSet(messages) : FetchedEarly(n)}}
         /\ poller' = IF messages = <<>> THEN "sleeping" ELSE "handling"
  /\ UNCHANGED <<posts, poster, rings, cursor, waiting, delivered, seed, past, forgotten>>

\* The cursor only moves forward, over the messages that are filtered, too.
Advanced(i) == IF i > cursor THEN i ELSE cursor

\* Mutant: only the marker as it was posted is looked for.
UnicodeOnly(message) == message.kind = "unicode"

HasMarker(message) == message.kind \in {"unicode", "shortcode"}

\* Mutant: what comes from the bridge's own user is dropped.
FilteredByUser(message) == TRUE

\* Every test of the loop body that ends in `continue`.
Filtered(message) ==
  \/ message.is.kind = "dropped"
  \/ HasMarker(message.is)
  \/ Contains(postedTs, message.id)
  \/ message.is.kind = "unicode" /\ Contains(postedText, message.is.text)

Handle ==
  /\ poller = "handling"
  /\ LET message == Head(page) IN
       /\ cursor' = Advanced(message.id)
       /\ IF Filtered(message)
            THEN /\ page' = Tail(page)
                 /\ poller' = IF Tail(page) = <<>> THEN "sleeping" ELSE "handling"
            ELSE poller' = "sending" /\ UNCHANGED page
  /\ UNCHANGED <<posts, poster, rings, waiting, delivered, fetched, past, forgotten>>

\* The history records a repeated message as long as it is short.
Recorded(i) ==
  IF Contains(delivered, i) /\ Len(delivered) >= MaxAgain THEN delivered
  ELSE Append(delivered, i)

\* tx.send waits for room.
Send ==
  /\ poller = "sending" /\ waiting < ChanCap
  /\ delivered' = Recorded(Head(page).id)
  /\ waiting' = waiting + 1
  /\ page' = Tail(page)
  /\ poller' = IF Tail(page) = <<>> THEN "sleeping" ELSE "handling"
  /\ UNCHANGED <<posts, poster, rings, cursor, fetched, past, forgotten>>

\* It fails when the subscriber has gone; nothing is posted after that.
SubscriberGone ==
  /\ poller = "sending" /\ poller' = "stopped"
  /\ page' = <<>> /\ waiting' = 0
  /\ UNCHANGED <<posts, poster, rings, cursor, delivered, fetched, past, forgotten>>

Take ==
  /\ waiting > 0 /\ waiting' = waiting - 1
  /\ UNCHANGED <<posts, poster, rings, poller, cursor, page, delivered, fetched, past, forgotten>>

-----------------------------------------------------------------------------
Bridge == \E c \in Callers : \/ StartPost(c) \/ StartEdit(c) \/ Store(c) \/ StoreEdit(c)
                             \/ Answered(c) \/ CallFails(c)
Loop   == Seed \/ SeedFails \/ Handle \/ Send

Next == UserWrites \/ Bridge \/ Loop \/ Poll \/ SubscriberGone \/ Take

Spec == Init /\ [][Next]_vars

\* A poll that fails only doubles the wait, up to a minute, and changes nothing:
\* the loop polls for ever and succeeds now and then.  The session takes its
\* messages while it runs.
Fairness == WF_vars(Loop) /\ WF_vars(Poll) /\ WF_vars(Take)

FairSpec == Spec /\ Fairness

-----------------------------------------------------------------------------
(* Properties.                                                             *)

\* The rings, the cursor and the page are well-typed and within their bounds.
TypeOK ==
  /\ inclusive \in BOOLEAN
  /\ posts \in Seq(Message) /\ Len(posts) <= MaxPosts
  /\ poster \in [Callers -> Call]
  /\ postedTs \in Seq(1..MaxPosts) /\ Len(postedTs) <= TsCap
  /\ postedText \in Seq(Texts) /\ Len(postedText) <= TextCap
  /\ IsInjective(postedTs) /\ IsInjective(postedText)
  /\ poller \in {"seeding", "sleeping", "handling", "sending", "stopped"}
  /\ cursor \in 0..Len(posts)
  /\ page \in Seq([id : 1..Len(posts), is : Message]) /\ Len(page) <= Limit
  /\ waiting \in 0..ChanCap /\ delivered \in Seq(1..Len(posts))
  /\ old \in 0..Len(posts) /\ seed \in -1..Len(posts)
  /\ overrun \cup early \cup forgotten \subseteq 1..Len(posts)

\* What users write reaches the bridge in the order they wrote it: once if
\* `oldest` is exclusive; else a message can come again with every poll, but
\* never after a later one.
InOrderOnce ==
  \A i, j \in DOMAIN delivered :
    i < j => \/ delivered[i] < delivered[j]
             \/ inclusive /\ delivered[i] = delivered[j]

\* No message of a user is passed over by the cursor: it has been delivered, is
\* about to be, or fell out of a full page.
NothingSkipped ==
  \A i \in 1..cursor :
    posts[i].kind = "user" /\ seed # -1 /\ i > seed /\ poller # "stopped"
      => i \in ToSet(delivered) \cup Ids(page) \cup overrun

\* The comments on the seed: the history from before the subscription is not
\* replayed into the shell, nor is the seed if `oldest` is inclusive, as long as
\* the ring has the mark set for it.  When seeding fails, at most one page of
\* the history is.
NothingOld ==
  \A i \in ToSet(delivered) :
    IF seed = -1 THEN i > old - Limit
    ELSE i > seed \/ (inclusive /\ i = seed /\ i \in forgotten)

\* The bridge reads what users write after it began, all of it, in order, and
\* once unless Slack sends the message at the cursor with every page.
RelayInv == TypeOK /\ InOrderOnce /\ NothingSkipped /\ NothingOld

\* The bridge does not feed its own output back into the shell, unless Slack
\* altered the text and the poller saw it while the ts was not in the ring, or
\* the ring forgot the ts.
NeverEcho ==
  \A i \in ToSet(delivered) : Own(i) => i \in early \cup forgotten

\* A message of a user is delivered in the end, unless it fell out of a page or
\* the subscriber has gone.  (What is unread stays so until it is read, and what
\* is read stays read: then this is `leads to'.)
Unread(i) ==
  /\ i \in DOMAIN posts /\ posts[i].kind = "user"
  /\ poller \notin {"seeding", "stopped"} /\ seed # -1 /\ i > seed
  /\ i \notin ToSet(delivered) \cup overrun

EventuallyRead == \A i \in 1..MaxPosts : []<>~Unread(i)
=============================================================================
