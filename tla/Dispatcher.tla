----------------------------- MODULE Dispatcher -----------------------------
(***************************************************************************)
(* The transcript dispatcher of bridge-core (dispatch.rs): a task that     *)
(* receives snapshots of the terminal over a bounded channel and publishes *)
(* them as messages of a chat channel, one rate-limited call at a time.    *)
(*                                                                         *)
(* The ordered input (rows that scrolled off, stand-alone messages and     *)
(* anchors) is a stream of numbered positions.  A row of n characters owns *)
(* n consecutive positions, a stand-alone message of k pages owns k, an    *)
(* anchor owns one.  Live frames are outside the stream: the newest wins.  *)
(*                                                                         *)
(* A call to the platform suspends the task.  It is started by one action  *)
(* and answered by another, and the session keeps handing work over in     *)
(* between.  One action stands for the code between two suspensions.       *)
(***************************************************************************)
EXTENDS Naturals, Sequences

CONSTANTS
  Limit,         \* TranscriptFormat::size_limit
  FreshOverhead, \* TranscriptFormat::fresh_overhead (label and fences)
  Depth,         \* DISPATCH_CHANNEL_DEPTH
  Texts,         \* renderings of the live screen
  NoText,        \* None of Option<String>
  RowLens,       \* bound: lengths of the rows offered
  PageCounts,    \* bound: pages of the stand-alone messages offered
  MaxRows,       \* bound: rows of one frame
  MaxSent,       \* bound: positions handed over
  Faults,        \* ways a platform call may fail: "err", "lost", "toolong"
  MaxFaults      \* bound: failed calls

\* An empty scroll-buffer message must have room for one character at least,
\* or the over-wide row of WriteSplit would never get shorter.
ASSUME SizeAssumption ==
  /\ Limit \in Nat /\ FreshOverhead \in Nat /\ FreshOverhead < Limit

ASSUME BoundAssumption ==
  /\ Depth \in Nat \ {0} /\ MaxSent \in Nat /\ MaxRows \in Nat /\ MaxFaults \in Nat
  /\ RowLens \subseteq Nat \ {0} /\ PageCounts \subseteq Nat \ {0}
  /\ Faults \subseteq {"err", "lost", "toolong"}
  /\ NoText \notin Texts

VARIABLES
  chan,       \* DispatchMsg not yet received by the task
  closed,     \* the handle dropped its sender
  queue,      \* Dispatcher.queue
  latestLive, \* Dispatcher.latest_live
  currentId,  \* Dispatcher.current_message_id, 0 for None
  active,     \* Dispatcher.active, id 0 for None
  lastLive,   \* Dispatcher.last_live_body
  call,       \* the platform call the task is awaiting
  stopped,    \* the task has returned
  transcript, \* the messages of the chat channel; a message id is its index
  sent,       \* history: positions handed over so far
  taken,      \* history: positions that have left the queue
  anchors,    \* history: positions of the anchors that have left the queue
  shown,      \* history: positions that have ever been in a message
  faults      \* failed calls so far

handleVars == <<chan, closed, sent>>
queueVars  == <<queue, taken, anchors>>
liveVars   == <<currentId, lastLive>>
sinkVars   == <<transcript, shown, faults>>
vars == <<handleVars, queueVars, liveVars, sinkVars,
          latestLive, active, call, stopped>>

-----------------------------------------------------------------------------
(* Data.                                                                   *)

\* Positions lo..hi of the stream; size is their measure, with any newline.
Span == {s \in [lo : Nat, hi : Nat, size : Nat] : s.lo <= s.hi /\ s.hi < s.lo + s.size}

\* A message body: a scroll buffer ("scroll"), the same sealed ("history"),
\* one page of a stand-alone message ("stream"), or a live frame ("live").
Body == [kind : {"scroll", "history", "stream", "live"},
         rows : Seq(Span), text : Texts \cup {NoText}]

Work == {w \in [type : {"row", "stream", "anchor"}, lo : Nat, hi : Nat] :
           w.lo <= w.hi /\ (w.type = "anchor" => w.lo = w.hi)}

\* A frame has rows and possibly a live text (is_edit) or a chunk (not
\* is_edit); Say and Anchor carry their own positions in chunk.
DispatchMsg == [rows : Seq(Work), live : Texts \cup {NoText}, chunk : Seq(Work)]

\* Where the task is suspended.
CallSite == {"idle", "stream", "liveEdit", "livePost", "demote", "open",
             "extend", "rollLock", "fullLock", "anchorLock"}
Call == [at : CallSite, id : Nat, body : Body, batch : Seq(Span)]

Scroll(rows) == [kind |-> "scroll", rows |-> rows, text |-> NoText]
History(body) == [body EXCEPT !.kind = "history"]
LiveBody(t)  == [kind |-> "live", rows |-> <<>>, text |-> t]
Page(span)   == [kind |-> "stream", rows |-> <<span>>, text |-> NoText]

NoBuffer == [id |-> 0, body |-> Scroll(<<>>)]
NoCall   == [at |-> "idle", id |-> 0, body |-> Scroll(<<>>), batch |-> <<>>]

\* TranscriptFormat::measure is additive: the rows plus the fixed framing.
Measure(rows) ==
  LET upTo[k \in 0..Len(rows)] == IF k = 0 THEN 0 ELSE upTo[k-1] + rows[k].size
  IN  upTo[Len(rows)]
BodySize(body) == FreshOverhead + Measure(body.rows)
Monus(m, n)    == IF m > n THEN m - n ELSE 0

\* The positions some rows hold.
Units(rows) == UNION {rows[i].lo..rows[i].hi : i \in DOMAIN rows}

\* The measure of a row: its characters and the newline.
RowSize(w) == w.hi - w.lo + 2
WholeRow(w) == [lo |-> w.lo, hi |-> w.hi, size |-> RowSize(w)]

-----------------------------------------------------------------------------
Init ==
  /\ chan = <<>> /\ closed = FALSE /\ sent = 0
  /\ queue = <<>> /\ taken = 0 /\ anchors = {}
  /\ latestLive = NoText
  /\ currentId = 0 /\ lastLive = NoText
  /\ active = NoBuffer
  /\ call = NoCall /\ stopped = FALSE
  /\ transcript = <<>> /\ shown = {} /\ faults = 0

-----------------------------------------------------------------------------
(* The handle.  All its sends are try_send: a hand-off to a full channel is *)
(* refused and changes nothing, so only the accepted ones are steps.       *)

HasCapacity == Len(chan) < Depth

HandOff(msg, last) ==
  /\ ~closed /\ HasCapacity
  /\ last <= MaxSent
  /\ chan' = Append(chan, msg)
  /\ sent' = last
  /\ UNCHANGED <<closed, queueVars, liveVars, sinkVars,
                 latestLive, active, call, stopped>>

Stream(from, pages) == [type |-> "stream", lo |-> from + 1, hi |-> from + pages]

\* The rows of a frame are given by the position each one ends at.
RowStart(ends, i) == IF i = 1 THEN sent + 1 ELSE ends[i-1] + 1
RowEnds ==
  {ends \in UNION {[1..n -> (sent + 1)..MaxSent] : n \in 0..MaxRows} :
     \A i \in DOMAIN ends : /\ RowStart(ends, i) <= ends[i]
                           /\ ends[i] + 1 - RowStart(ends, i) \in RowLens}
Rows(ends) ==
  [i \in 1..Len(ends) |-> [type |-> "row", lo |-> RowStart(ends, i), hi |-> ends[i]]]
RowsEnd(ends) == IF ends = <<>> THEN sent ELSE ends[Len(ends)]

\* try_send_frame: rows and at most one of a live screen (is_edit) and a
\* distinct chunk.  A frame with neither rows nor live is never sent.
TrySendFrame ==
  \E ends \in RowEnds :
    \/ \E live \in Texts \cup {NoText} :
         /\ ends # <<>> \/ live # NoText
         /\ HandOff([rows |-> Rows(ends), live |-> live, chunk |-> <<>>], RowsEnd(ends))
    \/ \E pages \in PageCounts :
         HandOff([rows |-> Rows(ends), live |-> NoText,
                  chunk |-> <<Stream(RowsEnd(ends), pages)>>], RowsEnd(ends) + pages)

Say ==
  \E pages \in PageCounts :
    HandOff([rows |-> <<>>, live |-> NoText, chunk |-> <<Stream(sent, pages)>>],
            sent + pages)

Anchor ==
  HandOff([rows |-> <<>>, live |-> NoText,
           chunk |-> <<[type |-> "anchor", lo |-> sent + 1, hi |-> sent + 1]>>],
          sent + 1)

\* shutdown drops the sender; it then waits for the task to stop.
Shutdown ==
  /\ ~closed
  /\ closed' = TRUE
  /\ UNCHANGED <<chan, sent, queueVars, liveVars, sinkVars,
                 latestLive, active, call, stopped>>

-----------------------------------------------------------------------------
(* The task between two platform calls.                                    *)

Idle == call = NoCall /\ ~stopped

\* Mutants: the queue is not looked at; any live frame counts.
HasUnshownLive == latestLive \notin {NoText, lastLive}
HasAnyWork     == queue # <<>> \/ latestLive # NoText

HasPendingWork == queue # <<>> \/ latestLive \notin {NoText, lastLive}

\* What ingest appends to the queue, in order.
Queued(msg) == msg.rows \o msg.chunk

\* Both receives of run, the blocking one and the absorbing try_recv loop.
Ingest ==
  /\ Idle /\ chan # <<>>
  /\ LET msg == Head(chan) IN
       /\ queue' = queue \o Queued(msg)
       /\ latestLive' = IF msg.live = NoText THEN latestLive ELSE msg.live
  /\ chan' = Tail(chan)
  /\ UNCHANGED <<closed, sent, taken, anchors, liveVars, sinkVars, active, call, stopped>>

\* run leaves its loop: nothing pending, the channel empty and closed.
Stop ==
  /\ Idle /\ chan = <<>> /\ closed /\ ~HasPendingWork
  /\ stopped' = TRUE
  /\ UNCHANGED <<handleVars, queueVars, liveVars, sinkVars, latestLive, active, call>>

\* post_one_unit starts on a unit of the given type once the channel is drained.
AtFront(type) ==
  /\ Idle /\ chan = <<>>
  /\ queue # <<>> /\ Head(queue).type = type

Await(at, id, body, batch) ==
  call' = [at |-> at, id |-> id, body |-> body, batch |-> batch]

\* Mutant: the caller keeps the buffer it seals.
LockActiveKept(at, batch) ==
  /\ UNCHANGED active
  /\ Await(at, active.id, History(active.body), batch)

\* lock_active: relabel the active buffer, which the caller has taken.
LockActive(at, batch) ==
  /\ active' = NoBuffer
  /\ Await(at, active.id, History(active.body), batch)

\* Mutant: a fresh message is taken to have no framing.
AvailableUnframed ==
  IF active.id # 0 THEN Monus(Limit, BodySize(active.body)) ELSE Limit

\* flush_one_scroll_batch: room left in the active buffer, or in a fresh one.
Available ==
  IF active.id # 0 THEN Monus(Limit, BodySize(active.body))
                   ELSE Limit - FreshOverhead

\* The active buffer cannot fit the next row: seal it, flush the row later.
SealFull ==
  /\ AtFront("row") /\ active.id # 0
  /\ RowSize(Head(queue)) > Available
  /\ LockActive("fullLock", <<>>)
  /\ UNCHANGED <<handleVars, queueVars, liveVars, sinkVars, latestLive, stopped>>

\* Mutant: the rows go in under the header.
ExtensionAtTheTop(batch) == [active.body EXCEPT !.rows = batch \o @]

LiveToDemote == currentId # 0
Extension(batch) == [active.body EXCEPT !.rows = @ \o batch]

\* ingest_scroll_batch up to its first await: demote the live message into
\* the buffer, post a fresh buffer, extend the active one, or roll it over.
IngestScrollBatch(batch) ==
  \/ /\ active.id = 0 /\ LiveToDemote
     /\ Await("demote", currentId, Scroll(batch), batch)
     /\ currentId' = 0
     /\ UNCHANGED active
  \/ /\ active.id = 0 /\ ~LiveToDemote
     /\ Await("open", 0, Scroll(batch), batch)
     /\ UNCHANGED <<currentId, active>>
  \/ /\ active.id # 0
     /\ IF BodySize(Extension(batch)) <= Limit
          THEN Await("extend", active.id, Extension(batch), batch) /\ UNCHANGED active
          ELSE LockActive("rollLock", batch)
     /\ UNCHANGED currentId

\* drain_rows_into_budget: the first n works are rows and fit together.
Batch(n) == [i \in 1..n |-> WholeRow(queue[i])]
Fits(n) == /\ \A i \in 1..n : queue[i].type = "row"
           /\ Measure(Batch(n)) <= Available

FlushRows ==
  /\ AtFront("row")
  /\ \E n \in 1..Len(queue) :
       /\ Fits(n) /\ (n < Len(queue) => ~Fits(n + 1))
       /\ IngestScrollBatch(Batch(n))
       /\ queue' = SubSeq(queue, n + 1, Len(queue))
       /\ taken' = queue[n].hi
  /\ UNCHANGED <<handleVars, anchors, lastLive, sinkVars, latestLive, stopped>>

\* Mutants: what is put back goes last, or is forgotten.
RequeueLast(works) == queue' = Tail(queue) \o works
RequeueNone(works) == queue' = Tail(queue)

\* The unit in front is taken; what is left of it goes back in front.
Requeue(works) == queue' = works \o Tail(queue)

\* A row wider than an empty buffer: its first characters fill the budget and
\* the rest, if any, goes back to the front as a row of its own.
FlushWideRow ==
  /\ AtFront("row") /\ active.id = 0
  /\ RowSize(Head(queue)) > Available
  /\ LET row == Head(queue)
         cut == row.lo + Available - 1
     IN  /\ IngestScrollBatch(<<[lo |-> row.lo, hi |-> cut, size |-> Available]>>)
         /\ Requeue(IF cut < row.hi THEN <<[row EXCEPT !.lo = cut + 1]>> ELSE <<>>)
         /\ taken' = cut
  /\ UNCHANGED <<handleVars, anchors, lastLive, sinkVars, latestLive, stopped>>

\* A stand-alone message: post its first page, put the others back in front.
PostStream ==
  /\ AtFront("stream")
  /\ LET msg   == Head(queue)
         first == [lo |-> msg.lo, hi |-> msg.lo, size |-> 1]
     IN  /\ Await("stream", 0, Page(first), <<first>>)
         /\ Requeue([i \in 1..(msg.hi - msg.lo) |-> Stream(msg.lo + i - 1, 1)])
         /\ taken' = msg.lo
  /\ UNCHANGED <<handleVars, anchors, liveVars, sinkVars, latestLive, active, stopped>>

\* Mutant: what the forgotten live message showed still counts as shown.
ForgetLiveId == currentId' = 0 /\ UNCHANGED lastLive

ForgetLive == currentId' = 0 /\ lastLive' = NoText

\* An anchor seals the active buffer, if any, and forgets the live message.
TakeAnchor ==
  /\ AtFront("anchor")
  /\ queue' = Tail(queue)
  /\ taken' = Head(queue).hi
  /\ anchors' = anchors \cup {Head(queue).hi}
  /\ \/ /\ active.id # 0
        /\ LockActive("anchorLock", <<>>)
        /\ UNCHANGED liveVars
     \/ /\ active.id = 0
        /\ ForgetLive
        /\ UNCHANGED <<active, call>>
  /\ UNCHANGED <<handleVars, sinkVars, latestLive, stopped>>

\* post_or_edit_live, only once the ordered queue is empty.
PostOrEditLive ==
  /\ Idle /\ chan = <<>> /\ queue = <<>> /\ HasPendingWork
  /\ IF currentId # 0 THEN Await("liveEdit", currentId, LiveBody(latestLive), <<>>)
                      ELSE Await("livePost", 0, LiveBody(latestLive), <<>>)
  /\ UNCHANGED <<handleVars, queueVars, liveVars, sinkVars, latestLive, active, stopped>>

-----------------------------------------------------------------------------
(* The answers of the platform.  "ok": the message is posted or edited.     *)
(* "err": the call fails and the platform has changed nothing.  "lost": the *)
(* platform did it, but the answer is lost and the caller sees an error.   *)

Outcomes == {"ok"} \cup (Faults \ {"toolong"})

\* The id a successful call leaves the message with.
MessageId == IF call.id = 0 THEN Len(transcript) + 1 ELSE call.id

Written ==
  IF call.id = 0 THEN Append(transcript, call.body)
                 ELSE [transcript EXCEPT ![call.id] = call.body]

Answer(at, o) ==
  /\ call.at = at /\ ~stopped
  /\ o # "ok" => faults < MaxFaults
  /\ faults' = IF o = "ok" THEN faults ELSE faults + 1
  /\ transcript' = IF o = "err" THEN transcript ELSE Written
  /\ shown' = IF o = "err" THEN shown ELSE shown \cup Units(call.body.rows)
  /\ UNCHANGED <<handleVars, queueVars, latestLive, stopped>>

\* The result of posting a page, of the edit that seals a full buffer, is ignored.
StreamAnswer(o) ==
  /\ Answer("stream", o)
  /\ call' = NoCall
  /\ UNCHANGED <<liveVars, active>>

FullLockAnswer(o) ==
  /\ Answer("fullLock", o)
  /\ call' = NoCall
  /\ UNCHANGED <<liveVars, active>>

AnchorLockAnswer(o) ==
  /\ Answer("anchorLock", o)
  /\ call' = NoCall
  /\ ForgetLive
  /\ UNCHANGED active

\* A failed live edit gives up the message and posts the frame afresh.
LiveEditAnswer(o) ==
  /\ Answer("liveEdit", o)
  /\ \/ /\ o = "ok"
        /\ call' = NoCall
        /\ lastLive' = call.body.text
        /\ UNCHANGED currentId
     \/ /\ o # "ok"
        /\ Await("livePost", 0, call.body, <<>>)
        /\ currentId' = 0
        /\ UNCHANGED lastLive
  /\ UNCHANGED active

\* A failed live post is left pending, to be tried again.
LivePostAnswer(o) ==
  /\ Answer("livePost", o)
  /\ call' = NoCall
  /\ \/ o = "ok" /\ currentId' = MessageId /\ lastLive' = call.body.text
     \/ o # "ok" /\ UNCHANGED liveVars
  /\ UNCHANGED active

\* A failed demotion posts the same body afresh; current_message_id is gone,
\* last_live_body is reset by the successful demotion only.
DemoteAnswer(o) ==
  /\ Answer("demote", o)
  /\ \/ /\ o = "ok"
        /\ call' = NoCall
        /\ lastLive' = NoText
        /\ active' = [id |-> MessageId, body |-> call.body]
     \/ /\ o # "ok"
        /\ Await("open", 0, Scroll(call.batch), call.batch)
        /\ UNCHANGED <<lastLive, active>>
  /\ UNCHANGED currentId

\* Mutant: the buffer counts as opened although its post failed.
OpenedUnchecked(o) == [id |-> MessageId, body |-> call.body]

Opened(o) == IF o = "ok" THEN [id |-> MessageId, body |-> call.body] ELSE active

\* A failed post of a fresh buffer is logged, and its rows are gone.
OpenAnswer(o) ==
  /\ Answer("open", o)
  /\ call' = NoCall
  /\ active' = Opened(o)
  /\ UNCHANGED liveVars

\* Mutant: the body kept is the one computed, not the one accepted.
ExtendedUncut == [active EXCEPT !.body.rows = @ \o call.batch]

Extended == [active EXCEPT !.body = call.body]

\* A failed extension seals the buffer as it was and rolls over.
ExtendAnswer(o) ==
  /\ Answer("extend", o)
  /\ \/ /\ o = "ok"
        /\ call' = NoCall
        /\ active' = Extended
     \/ /\ o # "ok"
        /\ LockActive("rollLock", call.batch)
  /\ UNCHANGED liveVars

\* Whatever the sealing edit returned, the batch opens a fresh buffer.
RollLockAnswer(o) ==
  /\ Answer("rollLock", o)
  /\ Await("open", 0, Scroll(call.batch), call.batch)
  /\ UNCHANGED <<liveVars, active>>

\* MessageTooLong: shrink cuts the end of the body, by one character at least,
\* and the same call is made again.  Some character of the first row is kept.
\* (A page or a live frame that is cut is still that page, that frame.)
Cut(rows, k, last) ==
  Append(SubSeq(rows, 1, k - 1),
         [lo |-> rows[k].lo, hi |-> last, size |-> last + 1 - rows[k].lo])

TooLong ==
  /\ "toolong" \in Faults /\ faults < MaxFaults
  /\ ~stopped /\ call.body.kind \in {"scroll", "history"}
  /\ \E k \in 1..Len(call.body.rows) :
       \E last \in call.body.rows[k].lo..call.body.rows[k].hi :
         LET rows == Cut(call.body.rows, k, last) IN
           /\ rows # call.body.rows
           /\ call' = [call EXCEPT !.body.rows = rows]
  /\ faults' = faults + 1
  /\ UNCHANGED <<handleVars, queueVars, liveVars, transcript, shown,
                 latestLive, active, stopped>>

-----------------------------------------------------------------------------
Session == TrySendFrame \/ Say \/ Anchor \/ Shutdown

PostOneUnit == \/ SealFull \/ FlushRows \/ FlushWideRow
               \/ PostStream \/ TakeAnchor \/ PostOrEditLive

Platform ==
  \/ \E o \in Outcomes :
       \/ StreamAnswer(o)   \/ LiveEditAnswer(o) \/ LivePostAnswer(o)
       \/ DemoteAnswer(o)   \/ OpenAnswer(o)     \/ ExtendAnswer(o)
       \/ RollLockAnswer(o) \/ FullLockAnswer(o) \/ AnchorLockAnswer(o)
  \/ TooLong

\* The task has returned; nothing is left to do.
Finished == stopped /\ UNCHANGED vars

Next == Session \/ Ingest \/ PostOneUnit \/ Platform \/ Stop \/ Finished

Spec == Init /\ [][Next]_vars

\* A runnable task runs and every platform call is answered in the end (the
\* client sets no timeout of its own: an assumption on the platform).  The
\* channel is found empty again and again, since the session sends at most
\* one frame per tick and the absorbing loop never suspends: strong fairness.
Fairness == WF_vars(Ingest) /\ SF_vars(PostOneUnit) /\ WF_vars(Platform) /\ WF_vars(Stop)

FairSpec == Spec /\ Fairness

-----------------------------------------------------------------------------
(* The inductive strengthening of OpenMessagesInSync and LiveHasMessage.     *)

\* The message a suspended task is about to write: a post has no id yet; an
\* edit names the live message, the active buffer, or a message that was one
\* of them and has been taken.
CallConsistent ==
  /\ call.at = "idle" => call = NoCall
  /\ call.at \in {"stream", "livePost", "open"} => call.id = 0
  /\ call.at = "stream" => call.body.kind = "stream"
  /\ call.at \in {"liveEdit", "livePost"} =>
       call.body.text \in Texts /\ call.body = LiveBody(call.body.text)
  /\ call.at = "liveEdit" => call.id = currentId /\ currentId # 0
  /\ call.at = "livePost" => currentId = 0
  /\ call.at = "demote" => call.id # 0 /\ currentId = 0 /\ active.id = 0
  /\ call.at = "open" => active.id = 0
  /\ call.at = "extend" => call.id = active.id /\ active.id # 0
  /\ call.at \in {"demote", "open", "extend"} => call.body.kind = "scroll"
  /\ call.at \in {"rollLock", "fullLock", "anchorLock"} =>
       /\ active.id = 0 /\ call.id # 0 /\ call.id # currentId
       /\ call.body.kind = "history"

\* An edit awaited is of a buffer not yet sealed or of a live message.
EditTarget == call.id # 0 => transcript[call.id].kind \in {"scroll", "live"}

\* While no call has failed, last_live_body is set exactly when the live
\* message exists or is being turned into the scroll buffer.
LiveKept ==
  faults = 0 /\ lastLive # NoText => currentId # 0 \/ call.at = "demote"

-----------------------------------------------------------------------------
(* Properties.                                                              *)

Holders(u)     == {m \in DOMAIN transcript : u \in Units(transcript[m].rows)}
Visible        == {u \in 1..sent : Holders(u) # {}}
Scrollback     == {m \in DOMAIN transcript : transcript[m].kind \in {"scroll", "history"}}
ScrollRows(m)  == transcript[m].rows

\* The state of the handle, the task, the awaited call and the channel is
\* well-typed: in particular an edit names a message that exists.
TypeOK ==
  /\ chan \in Seq(DispatchMsg) /\ closed \in BOOLEAN /\ sent \in Nat
  /\ queue \in Seq(Work) /\ taken \in Nat /\ anchors \subseteq Nat
  /\ latestLive \in Texts \cup {NoText} /\ lastLive \in Texts \cup {NoText}
  /\ currentId \in 0..Len(transcript)
  /\ active \in [id : 0..Len(transcript), body : Body]
  /\ call \in Call /\ call.id <= Len(transcript)
  /\ stopped \in BOOLEAN
  /\ transcript \in Seq(Body) /\ shown \subseteq Nat /\ faults \in Nat

\* What the task remembers of its two open messages is what the platform
\* holds, whatever calls failed, were shrunk or lost their answer: the body of
\* the active buffer (ActiveScrollBuffer.body, from which the room left and the
\* next edit are computed), and the live text (last_live_body).  They are two
\* different messages, so no live frame ever overwrites scrolled-off rows.
OpenMessagesInSync ==
  /\ active.id # 0 => /\ transcript[active.id] = active.body
                      /\ active.body.kind = "scroll"
  /\ currentId # 0 => lastLive \in Texts /\ transcript[currentId] = LiveBody(lastLive)
  /\ active.id # 0 => active.id # currentId

\* README: each row lives in exactly one message.  As long as no call failed,
\* every position that left the queue and is not in the awaited batch is in
\* exactly one message of the channel, and nothing else is in any.
ExactlyOnce ==
  faults = 0 =>
    \A u \in 1..sent :
      IF u <= taken /\ u \notin anchors /\ u \notin Units(call.batch)
        THEN \E m \in DOMAIN transcript : Holders(u) = {m}
        ELSE Holders(u) = {}

\* As long as no call failed, reading the buffer and history messages from the
\* top of the channel down gives the rows in the order they scrolled off, and
\* the message the live screen is edited in stands below all of them:
\* extensions, demotions and roll-overs never put a row above an older one.
ReadsInOrder ==
  faults = 0 =>
    /\ \A m, n \in Scrollback :
         \A i \in DOMAIN ScrollRows(m), j \in DOMAIN ScrollRows(n) :
           m < n \/ (m = n /\ i < j) => ScrollRows(m)[i].hi < ScrollRows(n)[j].lo
    /\ currentId # 0 => \A m \in Scrollback : m < currentId

\* As long as no call failed, a live frame believed posted (last_live_body) has
\* a live message: has_pending_work never mistakes a screen that is no longer
\* in the channel for one that is.
LiveHasMessage ==
  faults = 0 /\ call = NoCall /\ lastLive # NoText => currentId # 0

\* Whatever fails, no buffer or history message holds rows from both sides of
\* an anchor: rows queued before it stay in the history above.
AnchorSeparates ==
  \A m \in Scrollback, a \in anchors :
    \A i, j \in DOMAIN ScrollRows(m) :
      ~(ScrollRows(m)[i].lo < a /\ a < ScrollRows(m)[j].hi)

\* Whatever fails, no message of the scrollback exceeds the platform's limit.
WithinLimit == \A m \in Scrollback : BodySize(transcript[m]) <= Limit

\* The inductive invariant the proofs rest on.
OpenInv == TypeOK /\ CallConsistent /\ OpenMessagesInSync /\ LiveKept

\* The messages the task may still edit, and those it is done with.
Open == {currentId, active.id, call.id} \ {0}
Done == {m \in DOMAIN transcript :
           m \notin Open \/ transcript[m].kind \in {"history", "stream"}}

\* Whatever fails, a message that is relabelled as history, is a stand-alone
\* message, or is let go (by an anchor, or given up after a failure) is never
\* edited again: what was read above the live screen stays as it was read.
SealedForever ==
  [][\A m \in Done : m \in Done' /\ transcript'[m] = transcript[m]]_vars

\* Once the handle is dropped the task stops, with nothing pending, even if
\* calls fail: no failure makes it spin on the same unit of work.
Drains == closed ~> stopped

\* As long as no call fails, whatever was handed over is in the channel in the
\* end.
EventuallyVisible ==
  \A u \in 1..MaxSent : (sent >= u) ~> (u \in Visible \cup anchors \/ faults > 0)

\* As long as no call fails, a screen handed over is shown, unless a newer one
\* is.
LiveConverges ==
  \A t \in Texts : (latestLive = t) ~> \/ latestLive # t \/ faults > 0
                                       \/ currentId # 0 /\ transcript[currentId] = LiveBody(t)

\* The dispatcher implements OrderedLog: every step of the handle, of the task
\* and of the platform is one of its steps or a stutter.  Positions become
\* visible in the order they were handed over, whatever fails: rows pushed back
\* by a hard split, pages put back in front and batches posted again never
\* overtake or fall behind the rest.  (What a cut took out of the channel may
\* come back later: the text of a buffer is cut, its edit loses its answer, and
\* the buffer is sealed with the text it had before.)
Log == INSTANCE OrderedLog WITH
  received <- IF queue = <<>> THEN taken ELSE queue[Len(queue)].hi,
  visible  <- Visible \cup anchors,
  appeared <- shown \cup anchors,
  want     <- latestLive,
  screen   <- IF currentId = 0 THEN NoText ELSE transcript[currentId].text,
  broken   <- faults > 0

ImplementsOrderedLog == Log!Spec
=============================================================================
