-------------------------- MODULE DispatcherProofs --------------------------
(***************************************************************************)
(* Theorems about Dispatcher, for every value of its constants: types and  *)
(* open messages; the order, the completeness and the size of what it      *)
(* publishes; and that it implements OrderedLog: each of its steps is a    *)
(* step of that specification, or leaves its variables alone.              *)
(***************************************************************************)
EXTENDS Dispatcher, InductionLemmas, SequenceTheorems, TLAPS

-----------------------------------------------------------------------------
(* Sequences and bodies.                                                    *)

LEMMA BodyTypes ==
  /\ \A rows \in Seq(Span) : Scroll(rows) \in Body
  /\ \A body \in Body : History(body) \in Body
  /\ \A t \in Texts : LiveBody(t) \in Body
  /\ \A s \in Span : Page(s) \in Body /\ <<s>> \in Seq(Span)
  /\ NoCall \in Call /\ NoBuffer.body \in Body /\ NoBuffer.id = 0 /\ NoCall.id = 0
<1>1. \A rows \in Seq(Span) : Scroll(rows) \in Body
  BY DEF Scroll, Body
<1>2. \A body \in Body : History(body) \in Body
  BY DEF History, Body
<1>3. \A t \in Texts : LiveBody(t) \in Body
  BY DEF LiveBody, Body
<1>4. \A s \in Span : Page(s) \in Body /\ <<s>> \in Seq(Span)
  BY DEF Page, Body
<1>5. <<>> \in Seq(Span)
  OBVIOUS
<1>6. NoCall \in Call /\ NoBuffer.body \in Body /\ NoBuffer.id = 0 /\ NoCall.id = 0
  BY <1>1, <1>5 DEF NoCall, Call, CallSite, NoBuffer
<1> QED
  BY <1>1, <1>2, <1>3, <1>4, <1>6

\* A sequence given by its elements.
LEMMA SeqOfElements ==
  ASSUME NEW S, NEW n \in Nat, NEW f \in [1..n -> S]
  PROVE  f \in Seq(S) /\ Len(f) = n
<1>1. f \in Seq(S)
  BY SeqDef
<1> QED
  BY <1>1, LenProperties

\* The rows handed over in one frame are well-formed and follow what was sent.
LEMMA RowsType ==
  ASSUME TypeOK, NEW ends \in RowEnds
  PROVE  /\ Rows(ends) \in Seq(Work)
         /\ RowsEnd(ends) \in Nat
<1>1. PICK n \in 0..MaxRows : ends \in [1..n -> (sent + 1)..MaxSent]
  BY DEF RowEnds
<1>2. n \in Nat /\ sent \in Nat /\ MaxSent \in Nat /\ MaxRows \in Nat
  BY BoundAssumption DEF TypeOK
<1>3. ends \in Seq((sent + 1)..MaxSent) /\ Len(ends) = n
  BY <1>1, <1>2, SeqOfElements
<1>4. ASSUME NEW i \in 1..n
      PROVE  RowStart(ends, i) \in Nat /\ ends[i] \in Nat /\ RowStart(ends, i) <= ends[i]
  <2>1. ends[i] \in Nat
    BY <1>1, <1>2
  <2>2. i # 1 => i - 1 \in 1..n
    BY <1>2
  <2>3. i # 1 => ends[i-1] \in Nat
    BY <1>1, <1>2, <2>2
  <2>4. RowStart(ends, i) \in Nat
    BY <1>2, <2>3 DEF RowStart
  <2>5. RowStart(ends, i) <= ends[i]
    BY <1>1 DEF RowEnds
  <2> QED  BY <2>1, <2>4, <2>5
<1>5. \A i \in 1..n : [type |-> "row", lo |-> RowStart(ends, i), hi |-> ends[i]] \in Work
  BY <1>4 DEF Work
<1>6. Rows(ends) \in [1..n -> Work]
  BY <1>3, <1>5 DEF Rows
<1>7. RowsEnd(ends) \in Nat
  BY <1>1, <1>2, <1>3, <1>4 DEF RowsEnd
<1> QED
  BY <1>2, <1>6, <1>7, SeqOfElements

LEMMA StreamType ==
  ASSUME NEW from \in Nat, NEW pages \in Nat \ {0}
  PROVE  Stream(from, pages) \in Work /\ <<Stream(from, pages)>> \in Seq(Work)
<1>1. Stream(from, pages) \in Work
  BY DEF Stream, Work
<1> QED
  BY <1>1

\* A hand-off keeps the types.
LEMMA HandOffType ==
  ASSUME TypeOK, NEW msg \in DispatchMsg, NEW last \in Nat, HandOff(msg, last)
  PROVE  TypeOK'
BY DEF TypeOK, HandOff, queueVars, liveVars, sinkVars

LEMMA SessionType ==
  ASSUME TypeOK, Session
  PROVE  TypeOK'
<1>1. <<>> \in Seq(Work) /\ sent \in Nat /\ NoText \in Texts \cup {NoText}
  BY DEF TypeOK
<1>2. ASSUME TrySendFrame
      PROVE  TypeOK'
  <2>1. PICK ends \in RowEnds :
           \/ \E live \in Texts \cup {NoText} :
                HandOff([rows |-> Rows(ends), live |-> live, chunk |-> <<>>], RowsEnd(ends))
           \/ \E pages \in PageCounts :
                HandOff([rows |-> Rows(ends), live |-> NoText,
                         chunk |-> <<Stream(RowsEnd(ends), pages)>>], RowsEnd(ends) + pages)
    BY <1>2 DEF TrySendFrame
  <2>2. Rows(ends) \in Seq(Work) /\ RowsEnd(ends) \in Nat
    BY RowsType
  <2>3. ASSUME NEW live \in Texts \cup {NoText},
               HandOff([rows |-> Rows(ends), live |-> live, chunk |-> <<>>], RowsEnd(ends))
        PROVE  TypeOK'
    <3>1. [rows |-> Rows(ends), live |-> live, chunk |-> <<>>] \in DispatchMsg
      BY <1>1, <2>2 DEF DispatchMsg
    <3> QED  BY <2>2, <2>3, <3>1, HandOffType
  <2>4. ASSUME NEW pages \in PageCounts,
               HandOff([rows |-> Rows(ends), live |-> NoText,
                        chunk |-> <<Stream(RowsEnd(ends), pages)>>], RowsEnd(ends) + pages)
        PROVE  TypeOK'
    <3>1. pages \in Nat \ {0}
      BY BoundAssumption
    <3>2. <<Stream(RowsEnd(ends), pages)>> \in Seq(Work)
      BY <2>2, <3>1, StreamType
    <3>3. [rows |-> Rows(ends), live |-> NoText,
           chunk |-> <<Stream(RowsEnd(ends), pages)>>] \in DispatchMsg
      BY <1>1, <2>2, <3>2 DEF DispatchMsg
    <3>4. RowsEnd(ends) + pages \in Nat
      BY <2>2, <3>1
    <3> QED  BY <2>4, <3>3, <3>4, HandOffType
  <2> QED  BY <2>1, <2>3, <2>4
<1>3. ASSUME Say
      PROVE  TypeOK'
  <2>1. PICK pages \in PageCounts :
          HandOff([rows |-> <<>>, live |-> NoText, chunk |-> <<Stream(sent, pages)>>],
                  sent + pages)
    BY <1>3 DEF Say
  <2>2. pages \in Nat \ {0}
    BY BoundAssumption
  <2>3. <<Stream(sent, pages)>> \in Seq(Work)
    BY <1>1, <2>2, StreamType
  <2>4. [rows |-> <<>>, live |-> NoText, chunk |-> <<Stream(sent, pages)>>] \in DispatchMsg
    BY <1>1, <2>3 DEF DispatchMsg
  <2> QED  BY <1>1, <2>1, <2>2, <2>4, HandOffType
<1>4. ASSUME Anchor
      PROVE  TypeOK'
  <2>1. [type |-> "anchor", lo |-> sent + 1, hi |-> sent + 1] \in Work
    BY <1>1 DEF Work
  <2>2. [rows |-> <<>>, live |-> NoText,
         chunk |-> <<[type |-> "anchor", lo |-> sent + 1, hi |-> sent + 1]>>] \in DispatchMsg
    BY <1>1, <2>1 DEF DispatchMsg
  <2> QED  BY <1>1, <1>4, <2>2, HandOffType DEF Anchor
<1>5. ASSUME Shutdown
      PROVE  TypeOK'
  BY <1>5 DEF Shutdown, TypeOK, queueVars, liveVars, sinkVars
<1> QED  BY <1>2, <1>3, <1>4, <1>5 DEF Session

-----------------------------------------------------------------------------
(* The task.                                                                *)

LEMMA IngestType ==
  ASSUME TypeOK, Ingest
  PROVE  TypeOK'
<1> DEFINE msg == Head(chan)
<1>1. chan \in Seq(DispatchMsg) /\ chan # <<>> /\ queue \in Seq(Work)
  BY DEF TypeOK, Ingest, Queued
<1>2. msg \in DispatchMsg /\ Tail(chan) \in Seq(DispatchMsg)
  BY <1>1, HeadTailProperties
<1>3. queue \o msg.rows \o msg.chunk \in Seq(Work)
  BY <1>1, <1>2, ConcatProperties DEF DispatchMsg
<1>4. queue' \in Seq(Work) /\ chan' \in Seq(DispatchMsg)
  BY <1>2, <1>3 DEF Ingest, Queued
<1>5. latestLive' \in Texts \cup {NoText}
  BY <1>2 DEF Ingest, Queued, DispatchMsg, TypeOK
<1> QED
  BY <1>4, <1>5 DEF TypeOK, Ingest, Queued, liveVars, sinkVars

\* Starting a call on an existing message, or a post (id 0).
LEMMA AwaitType ==
  ASSUME NEW at \in CallSite, NEW id \in 0..Len(transcript), Len(transcript) \in Nat,
         NEW body \in Body, NEW batch \in Seq(Span), Await(at, id, body, batch)
  PROVE  call' \in Call /\ call'.id <= Len(transcript) /\ call'.at = at
BY DEF Await, Call

LEMMA LockActiveType ==
  ASSUME TypeOK, NEW at \in CallSite, NEW batch \in Seq(Span), LockActive(at, batch)
  PROVE  /\ call' \in Call /\ call'.id <= Len(transcript)
         /\ active' \in [id : 0..Len(transcript), body : Body]
<1>1. Len(transcript) \in Nat /\ active.id \in 0..Len(transcript) /\ active.body \in Body
  BY DEF TypeOK
<1>2. History(active.body) \in Body
  BY <1>1, BodyTypes
<1>3. NoBuffer \in [id : 0..Len(transcript), body : Body]
  BY <1>1, BodyTypes DEF NoBuffer
<1> QED
  BY <1>1, <1>2, <1>3, AwaitType DEF LockActive

LEMMA IngestScrollBatchType ==
  ASSUME TypeOK, NEW batch \in Seq(Span), IngestScrollBatch(batch)
  PROVE  /\ call' \in Call /\ call'.id <= Len(transcript)
         /\ active' \in [id : 0..Len(transcript), body : Body]
         /\ currentId' \in 0..Len(transcript)
<1> DEFINE extended == [active.body EXCEPT !.rows = @ \o batch]
<1>1. /\ Len(transcript) \in Nat /\ currentId \in 0..Len(transcript)
      /\ active \in [id : 0..Len(transcript), body : Body]
  BY DEF TypeOK
<1>2. Scroll(batch) \in Body
  BY BodyTypes
<1>3. active.body.rows \o batch \in Seq(Span)
  BY <1>1, ConcatProperties DEF Body
<1>4. extended \in Body
  BY <1>1, <1>3 DEF Body
<1>5. CASE active.id = 0 /\ currentId # 0
  BY <1>1, <1>2, <1>5, AwaitType DEF IngestScrollBatch, LiveToDemote, Extension, CallSite
<1>6. CASE active.id = 0 /\ currentId = 0
  BY <1>1, <1>2, <1>6, AwaitType DEF IngestScrollBatch, LiveToDemote, Extension, CallSite
<1>7. CASE active.id # 0 /\ BodySize(extended) <= Limit
  <2>1. Await("extend", active.id, extended, batch) /\ UNCHANGED active /\ UNCHANGED currentId
    BY <1>7 DEF IngestScrollBatch, LiveToDemote, Extension
  <2> QED  BY <1>1, <1>4, <2>1, AwaitType DEF CallSite
<1>8. CASE active.id # 0 /\ ~(BodySize(extended) <= Limit)
  <2>1. LockActive("rollLock", batch) /\ UNCHANGED currentId
    BY <1>8 DEF IngestScrollBatch, LiveToDemote, Extension
  <2> QED  BY <1>1, <2>1, LockActiveType DEF CallSite
<1> QED
  BY <1>5, <1>6, <1>7, <1>8

LEMMA BatchType ==
  ASSUME TypeOK, NEW n \in 1..Len(queue)
  PROVE  /\ Batch(n) \in Seq(Span)
         /\ SubSeq(queue, n + 1, Len(queue)) \in Seq(Work)
         /\ queue[n].hi \in Nat
<1>1. queue \in Seq(Work) /\ n \in Nat /\ Len(queue) \in Nat
  BY DEF TypeOK
<1>2. \A i \in 1..Len(queue) : queue[i] \in Work
  BY <1>1
<1>3. \A i \in 1..n : WholeRow(queue[i]) \in Span
  BY <1>1, <1>2 DEF WholeRow, RowSize, Span, Work
<1>4. Batch(n) \in [1..n -> Span]
  BY <1>3 DEF Batch
<1>5. SubSeq(queue, n + 1, Len(queue)) \in Seq(Work)
  BY <1>1, <1>2, SubSeqProperties
<1> QED
  BY <1>1, <1>2, <1>4, <1>5, SeqOfElements DEF Work

LEMMA PostOneUnitType ==
  ASSUME TypeOK, PostOneUnit
  PROVE  TypeOK'
<1>1. /\ queue \in Seq(Work) /\ Len(transcript) \in Nat /\ transcript \in Seq(Body)
      /\ currentId \in 0..Len(transcript) /\ 0 \in 0..Len(transcript) /\ <<>> \in Seq(Span)
      /\ active \in [id : 0..Len(transcript), body : Body]
  BY DEF TypeOK
<1>2. queue # <<>> => Head(queue) \in Work /\ Tail(queue) \in Seq(Work)
  BY <1>1, HeadTailProperties
<1>3. CASE SealFull
  <2>1. /\ call' \in Call /\ call'.id <= Len(transcript)
        /\ active' \in [id : 0..Len(transcript), body : Body]
    BY <1>1, <1>3, LockActiveType DEF SealFull, CallSite
  <2> QED
    BY <1>3, <2>1 DEF SealFull, TypeOK, handleVars, queueVars, liveVars, sinkVars
<1>4. CASE FlushRows
  <2>1. PICK n \in 1..Len(queue) :
          /\ IngestScrollBatch(Batch(n))
          /\ queue' = SubSeq(queue, n + 1, Len(queue))
          /\ taken' = queue[n].hi
    BY <1>4 DEF FlushRows
  <2>2. queue' \in Seq(Work) /\ taken' \in Nat /\ Batch(n) \in Seq(Span)
    BY <2>1, BatchType
  <2>3. /\ call' \in Call /\ call'.id <= Len(transcript)
        /\ active' \in [id : 0..Len(transcript), body : Body]
        /\ currentId' \in 0..Len(transcript)
    BY <2>1, <2>2, IngestScrollBatchType
  <2> QED
    BY <1>4, <2>2, <2>3 DEF FlushRows, TypeOK, handleVars, sinkVars
<1>5. CASE FlushWideRow
  <2> DEFINE row == Head(queue)
             cut == row.lo + Available - 1
             piece == [lo |-> row.lo, hi |-> cut, size |-> Available]
             rest == [row EXCEPT !.lo = cut + 1]
  <2>1. row \in Work /\ Tail(queue) \in Seq(Work) /\ active.id = 0
    BY <1>2, <1>5 DEF FlushWideRow, Requeue, AtFront
  <2>2. Available \in Nat \ {0}
    BY <2>1, SizeAssumption DEF Available
  <2>3. cut \in Nat /\ row.lo <= cut
    BY <2>1, <2>2 DEF Work
  <2>4. <<piece>> \in Seq(Span)
    BY <2>1, <2>2, <2>3 DEF Span, Work
  <2>5. cut < row.hi => <<rest>> \in Seq(Work)
    BY <2>1, <2>3 DEF Work
  <2>6. queue' \in Seq(Work)
    BY <1>5, <2>1, <2>5, ConcatProperties DEF FlushWideRow, Requeue
  <2>7. IngestScrollBatch(<<piece>>) /\ taken' = cut
    BY <1>5 DEF FlushWideRow, Requeue
  <2>8. /\ call' \in Call /\ call'.id <= Len(transcript)
        /\ active' \in [id : 0..Len(transcript), body : Body]
        /\ currentId' \in 0..Len(transcript)
    BY <2>4, <2>7, IngestScrollBatchType
  <2> QED
    BY <1>5, <2>3, <2>6, <2>7, <2>8 DEF FlushWideRow, Requeue, TypeOK, handleVars, sinkVars
<1>6. CASE PostStream
  <2> DEFINE msg == Head(queue)
             first == [lo |-> msg.lo, hi |-> msg.lo, size |-> 1]
             pages == [i \in 1..(msg.hi - msg.lo) |-> Stream(msg.lo + i - 1, 1)]
  <2>1. msg \in Work /\ Tail(queue) \in Seq(Work)
    BY <1>2, <1>6 DEF PostStream, Requeue, AtFront
  <2>2. first \in Span /\ msg.hi - msg.lo \in Nat
    BY <2>1 DEF Span, Work
  <2>3. \A i \in 1..(msg.hi - msg.lo) : Stream(msg.lo + i - 1, 1) \in Work
    BY <2>1 DEF Stream, Work
  <2>4. pages \in Seq(Work)
    BY <2>2, <2>3, SeqOfElements
  <2>5. queue' \in Seq(Work) /\ taken' \in Nat
    BY <1>6, <2>1, <2>4, ConcatProperties DEF PostStream, Requeue, Work
  <2>6. Page(first) \in Body /\ <<first>> \in Seq(Span)
    BY <2>2, BodyTypes
  <2>7. Await("stream", 0, Page(first), <<first>>)
    BY <1>6 DEF PostStream, Requeue
  <2>8. call' \in Call /\ call'.id <= Len(transcript)
    BY <1>1, <2>6, <2>7, AwaitType DEF CallSite
  <2> QED
    BY <1>6, <2>5, <2>8 DEF PostStream, Requeue, TypeOK, handleVars, liveVars, sinkVars
<1>7. CASE TakeAnchor
  <2>1. Head(queue).hi \in Nat /\ Tail(queue) \in Seq(Work)
    BY <1>2, <1>7 DEF TakeAnchor, ForgetLive, AtFront, Work
  <2>2. queue' \in Seq(Work) /\ taken' \in Nat /\ anchors' \subseteq Nat
    BY <1>7, <2>1 DEF TakeAnchor, ForgetLive, TypeOK
  <2>3. CASE active.id # 0
    <3>1. LockActive("anchorLock", <<>>) /\ UNCHANGED liveVars
      BY <1>7, <2>3 DEF TakeAnchor, ForgetLive
    <3>2. /\ call' \in Call /\ call'.id <= Len(transcript)
          /\ active' \in [id : 0..Len(transcript), body : Body]
      BY <1>1, <3>1, LockActiveType DEF CallSite
    <3> QED
      BY <1>7, <2>2, <3>1, <3>2 DEF TakeAnchor, ForgetLive, TypeOK, handleVars, liveVars, sinkVars
  <2>4. CASE active.id = 0
    <3>1. currentId' = 0 /\ lastLive' = NoText /\ UNCHANGED <<active, call>>
      BY <1>7, <2>4 DEF TakeAnchor, ForgetLive
    <3> QED
      BY <1>1, <1>7, <2>2, <3>1 DEF TakeAnchor, ForgetLive, TypeOK, handleVars, sinkVars
  <2> QED  BY <2>3, <2>4
<1>8. CASE PostOrEditLive
  <2>1. latestLive \in Texts
    BY <1>8 DEF PostOrEditLive, HasPendingWork, TypeOK
  <2>2. LiveBody(latestLive) \in Body
    BY <2>1, BodyTypes
  <2>3. \/ Await("liveEdit", currentId, LiveBody(latestLive), <<>>)
        \/ Await("livePost", 0, LiveBody(latestLive), <<>>)
    BY <1>8 DEF PostOrEditLive
  <2>4. call' \in Call /\ call'.id <= Len(transcript)
    <3>1. CASE Await("liveEdit", currentId, LiveBody(latestLive), <<>>)
      BY <1>1, <2>2, <3>1, AwaitType DEF CallSite
    <3>2. CASE Await("livePost", 0, LiveBody(latestLive), <<>>)
      BY <1>1, <2>2, <3>2, AwaitType DEF CallSite
    <3> QED  BY <2>3, <3>1, <3>2
  <2> QED
    BY <1>8, <2>4 DEF PostOrEditLive, TypeOK, handleVars, queueVars, liveVars, sinkVars
<1> QED
  BY <1>3, <1>4, <1>5, <1>6, <1>7, <1>8 DEF PostOneUnit

-----------------------------------------------------------------------------
(* The platform.                                                            *)

LEMMA UnitsAreNat ==
  ASSUME NEW rows \in Seq(Span)
  PROVE  Units(rows) \subseteq Nat
<1>1. \A i \in DOMAIN rows : rows[i].lo \in Nat /\ rows[i].hi \in Nat
  BY DEF Span
<1> QED
  BY <1>1 DEF Units

\* An answer never removes a message, and a successful call has a message.
LEMMA AnswerType ==
  ASSUME TypeOK, NEW at \in CallSite \ {"idle"}, NEW o \in Outcomes, Answer(at, o)
  PROVE  /\ transcript' \in Seq(Body)
         /\ Len(transcript') \in Nat /\ Len(transcript) \in Nat
         /\ Len(transcript') >= Len(transcript)
         /\ o = "ok" => MessageId \in 1..Len(transcript')
         /\ faults' \in Nat
<1>1. /\ transcript \in Seq(Body) /\ Len(transcript) \in Nat /\ faults \in Nat
      /\ call \in Call /\ call.id \in 0..Len(transcript)
  BY DEF TypeOK, Call
<1>2. call.body \in Body
  BY <1>1 DEF Call
<1>3. /\ Written \in Seq(Body)
      /\ Len(Written) = IF call.id = 0 THEN Len(transcript) + 1 ELSE Len(transcript)
  BY <1>1, <1>2, AppendProperties, ExceptSeq DEF Written
<1>4. transcript' = IF o = "err" THEN transcript ELSE Written
  BY DEF Answer
<1>5. faults' \in Nat
  BY <1>1 DEF Answer
<1> QED
  BY <1>1, <1>3, <1>4, <1>5 DEF MessageId

\* The part of TypeOK that an answer decides itself.
LEMMA AnsweredType ==
  ASSUME TypeOK, NEW at \in CallSite \ {"idle"}, NEW o \in Outcomes, Answer(at, o),
         call' \in Call, call'.id <= Len(transcript'),
         currentId' \in 0..Len(transcript'), lastLive' \in Texts \cup {NoText},
         active' \in [id : 0..Len(transcript'), body : Body]
  PROVE  TypeOK'
<1>1. transcript' \in Seq(Body) /\ faults' \in Nat
  BY AnswerType
<1>2. call.body.rows \in Seq(Span) /\ shown \subseteq Nat
  BY DEF TypeOK, Call, Body
<1>3. shown' \subseteq Nat
  BY <1>2, UnitsAreNat DEF Answer
<1> QED
  BY <1>1, <1>3 DEF Answer, TypeOK, handleVars, queueVars

LEMMA TooLongType ==
  ASSUME TypeOK, TooLong
  PROVE  TypeOK'
<1> DEFINE old == call.body.rows
<1>1. /\ call \in Call /\ call.body \in Body /\ old \in Seq(Span) /\ Len(old) \in Nat
  BY DEF TypeOK, Call, Body
<1>2. PICK k \in 1..Len(old) : \E last \in old[k].lo..old[k].hi :
        call' = [call EXCEPT !.body.rows = Cut(old, k, last)]
  BY DEF TooLong
<1>3. PICK last \in old[k].lo..old[k].hi :
        call' = [call EXCEPT !.body.rows = Cut(old, k, last)]
  BY <1>2
<1>4. old[k] \in Span /\ \A i \in 1..(k - 1) : old[i] \in Span
  BY <1>1
<1>5. last \in Nat /\ old[k].lo \in Nat /\ old[k].lo <= last
  BY <1>3, <1>4 DEF Span
<1>6. [lo |-> old[k].lo, hi |-> last, size |-> last + 1 - old[k].lo] \in Span
  BY <1>5 DEF Span
<1>7. SubSeq(old, 1, k - 1) \in Seq(Span)
  BY <1>1, <1>4, SubSeqProperties
<1>8. Cut(old, k, last) \in Seq(Span)
  BY <1>6, <1>7, AppendProperties DEF Cut
<1>9. call' \in Call /\ call'.id = call.id
  BY <1>1, <1>3, <1>8 DEF Call, Body
<1>10. faults' \in Nat
  BY DEF TooLong, TypeOK
<1> QED
  BY <1>9, <1>10 DEF TooLong, TypeOK, handleVars, queueVars, liveVars

LEMMA PlatformType ==
  ASSUME TypeOK, Platform
  PROVE  TypeOK'
<1>1. /\ call \in Call /\ call.id <= Len(transcript) /\ transcript \in Seq(Body)
      /\ currentId \in 0..Len(transcript) /\ lastLive \in Texts \cup {NoText}
      /\ active \in [id : 0..Len(transcript), body : Body]
  BY DEF TypeOK
<1>2. /\ call.body \in Body /\ call.batch \in Seq(Span) /\ call.body.text \in Texts \cup {NoText}
      /\ NoCall \in Call /\ NoCall.id = 0
  BY <1>1, BodyTypes DEF Call, Body
<1>3. CASE TooLong
  BY <1>3, TooLongType
<1>4. ASSUME NEW o \in Outcomes,
             \/ StreamAnswer(o)   \/ LiveEditAnswer(o) \/ LivePostAnswer(o)
             \/ DemoteAnswer(o)   \/ OpenAnswer(o)     \/ ExtendAnswer(o)
             \/ RollLockAnswer(o) \/ FullLockAnswer(o) \/ AnchorLockAnswer(o)
      PROVE  TypeOK'
  <2>1. PICK at \in CallSite \ {"idle"} : Answer(at, o)
    BY <1>4 DEF CallSite, StreamAnswer, LiveEditAnswer, LivePostAnswer, DemoteAnswer,
                OpenAnswer, Opened, ExtendAnswer, Extended, RollLockAnswer, FullLockAnswer, AnchorLockAnswer, ForgetLive
  <2>2. /\ Len(transcript') \in Nat /\ Len(transcript) \in Nat
        /\ Len(transcript') >= Len(transcript)
        /\ o = "ok" => MessageId \in 1..Len(transcript')
    BY <2>1, AnswerType
  <2>3. /\ active \in [id : 0..Len(transcript'), body : Body]
        /\ currentId \in 0..Len(transcript')
        /\ NoBuffer \in [id : 0..Len(transcript'), body : Body]
        /\ o = "ok" => [id |-> MessageId, body |-> call.body] \in [id : 0..Len(transcript'), body : Body]
        /\ 0 \in 0..Len(transcript')
    BY <1>1, <1>2, <2>2, BodyTypes DEF NoBuffer
  <2>4. call' \in Call /\ call'.id <= Len(transcript')
    <3>1. CASE call' = NoCall
      BY <1>2, <2>2, <3>1
    <3>2. CASE Await("livePost", 0, call.body, <<>>)
      BY <1>2, <2>2, <3>2 DEF Await, Call, CallSite
    <3>3. CASE Await("open", 0, Scroll(call.batch), call.batch)
      BY <1>2, <2>2, <3>3, BodyTypes DEF Await, Call, CallSite
    <3>4. CASE LockActive("rollLock", call.batch)
      BY <1>2, <2>2, <3>4, LockActiveType DEF CallSite, Call
    <3> QED
      BY <1>4, <3>1, <3>2, <3>3, <3>4
      DEF StreamAnswer, LiveEditAnswer, LivePostAnswer, DemoteAnswer, OpenAnswer, Opened,
          ExtendAnswer, Extended, RollLockAnswer, FullLockAnswer, AnchorLockAnswer, ForgetLive
  <2>5. active' \in [id : 0..Len(transcript'), body : Body]
    <3>1. active' = active \/ active' = NoBuffer
          \/ (o = "ok" /\ active' = [id |-> MessageId, body |-> call.body])
          \/ active' = [active EXCEPT !.body = call.body]
      BY <1>4
      DEF StreamAnswer, LiveEditAnswer, LivePostAnswer, DemoteAnswer, OpenAnswer, Opened, ExtendAnswer, Extended,
          RollLockAnswer, FullLockAnswer, AnchorLockAnswer, ForgetLive, LockActive
    <3> QED
      BY <1>2, <2>3, <3>1
  <2>6. currentId' \in 0..Len(transcript') /\ lastLive' \in Texts \cup {NoText}
    <3>1. \/ currentId' = currentId \/ currentId' = 0
          \/ o = "ok" /\ currentId' = MessageId
      BY <1>4
      DEF StreamAnswer, LiveEditAnswer, LivePostAnswer, DemoteAnswer, OpenAnswer, Opened, ExtendAnswer, Extended,
          RollLockAnswer, FullLockAnswer, AnchorLockAnswer, ForgetLive, liveVars
    <3>2. lastLive' \in {lastLive, NoText, call.body.text}
      BY <1>4
      DEF StreamAnswer, LiveEditAnswer, LivePostAnswer, DemoteAnswer, OpenAnswer, Opened, ExtendAnswer, Extended,
          RollLockAnswer, FullLockAnswer, AnchorLockAnswer, ForgetLive, liveVars
    <3> QED
      BY <1>1, <1>2, <2>2, <2>3, <3>1, <3>2
  <2> QED
    BY <2>1, <2>4, <2>5, <2>6, AnsweredType
<1> QED
  BY <1>3, <1>4 DEF Platform

LEMMA InitType == Init => TypeOK
<1> SUFFICES ASSUME Init PROVE TypeOK
  OBVIOUS
<1>1. Len(transcript) = 0 /\ transcript \in Seq(Body)
  BY DEF Init
<1>2. NoBuffer \in [id : 0..Len(transcript), body : Body] /\ NoCall \in Call /\ NoCall.id = 0
  BY <1>1, BodyTypes DEF NoBuffer
<1>3. <<>> \in Seq(DispatchMsg) /\ <<>> \in Seq(Work) /\ 0 \in 0..Len(transcript)
  BY <1>1
<1>4. chan \in Seq(DispatchMsg) /\ queue \in Seq(Work) /\ currentId \in 0..Len(transcript)
  BY <1>3 DEF Init
<1>5. /\ active \in [id : 0..Len(transcript), body : Body]
      /\ call \in Call /\ call.id <= Len(transcript)
  BY <1>1, <1>2 DEF Init
<1>6. /\ closed \in BOOLEAN /\ stopped \in BOOLEAN /\ sent \in Nat /\ taken \in Nat
      /\ anchors \subseteq Nat /\ shown \subseteq Nat /\ faults \in Nat
      /\ latestLive \in Texts \cup {NoText} /\ lastLive \in Texts \cup {NoText}
  BY DEF Init
<1> QED
  BY <1>1, <1>4, <1>5, <1>6 DEF TypeOK

LEMMA TypeStep == TypeOK /\ [Next]_vars => TypeOK'
<1> SUFFICES ASSUME TypeOK, [Next]_vars PROVE TypeOK'
  OBVIOUS
<1>1. CASE Session      BY <1>1, SessionType
<1>2. CASE Ingest       BY <1>2, IngestType
<1>3. CASE PostOneUnit  BY <1>3, PostOneUnitType
<1>4. CASE Platform     BY <1>4, PlatformType
<1>5. CASE Stop
  BY <1>5 DEF Stop, TypeOK, handleVars, queueVars, liveVars, sinkVars
<1>6. CASE UNCHANGED vars
  BY <1>6 DEF TypeOK, vars, handleVars, queueVars, liveVars, sinkVars
<1> QED
  BY <1>1, <1>2, <1>3, <1>4, <1>5, <1>6 DEF Next, Finished

\* Type correctness: in every reachable state, for every size limit, channel
\* depth and set of faults, the dispatcher's state is well-typed; an edit or a
\* remembered message id always names a message the channel has.
THEOREM TypeCorrect == Spec => []TypeOK
  BY InitType, TypeStep, PTL DEF Spec

-----------------------------------------------------------------------------
(* The open messages.                                                       *)

\* The parts of OpenInv that TypeOK leaves to prove.
Consistent == CallConsistent /\ OpenMessagesInSync /\ LiveKept

\* They only depend on the task's own fields, the call and the channel.
LEMMA FrameConsistent ==
  ASSUME Consistent, UNCHANGED <<call, currentId, active, lastLive, transcript, faults>>
  PROVE  Consistent'
BY DEF Consistent, CallConsistent, OpenMessagesInSync, LiveKept

\* What is known of a task that is between two calls.
LEMMA IdleFacts ==
  ASSUME OpenInv, Idle
  PROVE  /\ call = NoCall /\ call.at = "idle"
         /\ active.id \in 0..Len(transcript) /\ currentId \in 0..Len(transcript)
         /\ active.id # 0 => /\ active.id # currentId
                             /\ transcript[active.id] = active.body
                             /\ active.body.kind = "scroll"
         /\ currentId # 0 => lastLive \in Texts /\ transcript[currentId] = LiveBody(lastLive)
         /\ faults = 0 /\ lastLive # NoText => currentId # 0
BY DEF OpenInv, TypeOK, Idle, OpenMessagesInSync, LiveKept, NoCall

\* Sealing the active buffer, between two calls.
LEMMA SealConsistent ==
  ASSUME OpenInv, Idle, active.id # 0,
         NEW at \in {"fullLock", "anchorLock", "rollLock"}, NEW batch \in Seq(Span),
         LockActive(at, batch), UNCHANGED <<currentId, lastLive, transcript, faults>>
  PROVE  Consistent'
<1>1. /\ active.id # currentId /\ active.body \in Body
      /\ currentId # 0 => lastLive \in Texts /\ transcript[currentId] = LiveBody(lastLive)
      /\ faults = 0 /\ lastLive # NoText => currentId # 0
  BY IdleFacts DEF OpenInv, TypeOK
<1>2. History(active.body).kind = "history"
  BY <1>1 DEF History, Body
<1>3. /\ active'.id = 0 /\ call'.at = at /\ call'.id = active.id
      /\ call'.body = History(active.body)
  BY DEF LockActive, Await, NoBuffer
<1>4. CallConsistent'
  BY <1>1, <1>2, <1>3 DEF CallConsistent
<1> QED
  BY <1>1, <1>3, <1>4 DEF Consistent, OpenMessagesInSync, LiveKept

\* Starting to write a batch of rows.
LEMMA IngestScrollBatchConsistent ==
  ASSUME OpenInv, Idle, NEW batch \in Seq(Span), IngestScrollBatch(batch),
         UNCHANGED <<lastLive, transcript, faults>>
  PROVE  Consistent'
<1> DEFINE extended == [active.body EXCEPT !.rows = @ \o batch]
<1>1. /\ active.id # 0 => /\ active.id # currentId
                          /\ transcript[active.id] = active.body
                          /\ active.body.kind = "scroll"
      /\ currentId # 0 => lastLive \in Texts /\ transcript[currentId] = LiveBody(lastLive)
      /\ faults = 0 /\ lastLive # NoText => currentId # 0
      /\ active.body \in Body
  BY IdleFacts DEF OpenInv, TypeOK
<1>2. CASE active.id = 0 /\ currentId # 0
  <2>1. /\ currentId' = 0 /\ active' = active
        /\ call'.at = "demote" /\ call'.id = currentId /\ call'.body = Scroll(batch)
    BY <1>2 DEF IngestScrollBatch, LiveToDemote, Extension, Await
  <2>2. CallConsistent'
    BY <1>2, <2>1 DEF CallConsistent, Scroll
  <2> QED  BY <1>2, <2>1, <2>2 DEF Consistent, OpenMessagesInSync, LiveKept
<1>3. CASE active.id = 0 /\ currentId = 0
  <2>1. /\ currentId' = 0 /\ active' = active
        /\ call'.at = "open" /\ call'.id = 0 /\ call'.body = Scroll(batch)
    BY <1>3 DEF IngestScrollBatch, LiveToDemote, Extension, Await
  <2>2. CallConsistent'
    BY <1>3, <2>1 DEF CallConsistent, Scroll
  <2> QED  BY <1>1, <1>3, <2>1, <2>2 DEF Consistent, OpenMessagesInSync, LiveKept
<1>4. CASE active.id # 0 /\ BodySize(extended) <= Limit
  <2>0. Await("extend", active.id, extended, batch) /\ UNCHANGED active /\ UNCHANGED currentId
    BY <1>4 DEF IngestScrollBatch, LiveToDemote, Extension
  <2>1. /\ currentId' = currentId /\ active' = active
        /\ call'.at = "extend" /\ call'.id = active.id /\ call'.body = extended
    BY <2>0 DEF Await
  <2>2. extended.kind = "scroll"
    BY <1>1, <1>4 DEF Body
  <2>3. CallConsistent'
    BY <1>4, <2>1, <2>2 DEF CallConsistent
  <2> QED  BY <1>1, <2>1, <2>3 DEF Consistent, OpenMessagesInSync, LiveKept
<1>5. CASE active.id # 0 /\ ~(BodySize(extended) <= Limit)
  <2>1. LockActive("rollLock", batch) /\ UNCHANGED currentId
    BY <1>5 DEF IngestScrollBatch, LiveToDemote, Extension
  <2> QED  BY <1>5, <2>1, SealConsistent
<1> QED  BY <1>2, <1>3, <1>4, <1>5

LEMMA PostOneUnitConsistent ==
  ASSUME OpenInv, PostOneUnit
  PROVE  Consistent'
<1>1. Idle /\ <<>> \in Seq(Span) /\ TypeOK
  <2>1. CASE SealFull \/ FlushRows \/ FlushWideRow
    BY <2>1 DEF SealFull, FlushRows, FlushWideRow, AtFront, OpenInv
  <2>2. CASE PostStream \/ TakeAnchor \/ PostOrEditLive
    BY <2>2 DEF PostStream, TakeAnchor, PostOrEditLive, AtFront, OpenInv
  <2> QED  BY <2>1, <2>2 DEF PostOneUnit
<1>2. /\ active.id # 0 => /\ active.id # currentId
                          /\ transcript[active.id] = active.body
                          /\ active.body.kind = "scroll"
      /\ currentId # 0 => lastLive \in Texts /\ transcript[currentId] = LiveBody(lastLive)
      /\ faults = 0 /\ lastLive # NoText => currentId # 0
      /\ call = NoCall
  BY <1>1, IdleFacts
<1>3. CASE SealFull
  BY <1>1, <1>3, SealConsistent DEF SealFull, liveVars, sinkVars
<1>4. CASE FlushRows
  <2>1. PICK n \in 1..Len(queue) : IngestScrollBatch(Batch(n))
    BY <1>4 DEF FlushRows
  <2>2. Batch(n) \in Seq(Span)
    BY <1>1, BatchType
  <2> QED  BY <1>1, <1>4, <2>1, <2>2, IngestScrollBatchConsistent DEF FlushRows, sinkVars
<1>5. CASE FlushWideRow
  <2> DEFINE row == Head(queue)
             piece == [lo |-> row.lo, hi |-> row.lo + Available - 1, size |-> Available]
  <2>1. row \in Work /\ active.id = 0
    BY <1>1, <1>5, HeadTailProperties DEF FlushWideRow, Requeue, AtFront, TypeOK
  <2>2. Available \in Nat \ {0}
    BY <2>1, SizeAssumption DEF Available
  <2>3. <<piece>> \in Seq(Span)
    BY <2>1, <2>2 DEF Span, Work
  <2> QED
    BY <1>1, <1>5, <2>3, IngestScrollBatchConsistent DEF FlushWideRow, Requeue, sinkVars
<1>6. CASE PostStream
  <2>1. /\ call'.at = "stream" /\ call'.id = 0 /\ call'.body.kind = "stream"
        /\ UNCHANGED <<currentId, lastLive, active, transcript, faults>>
    BY <1>6 DEF PostStream, Requeue, Await, Page, liveVars, sinkVars
  <2> QED
    BY <1>2, <2>1 DEF Consistent, CallConsistent, OpenMessagesInSync, LiveKept
<1>7. CASE TakeAnchor
  <2>1. CASE active.id # 0
    BY <1>1, <1>7, <2>1, SealConsistent DEF TakeAnchor, ForgetLive, liveVars, sinkVars
  <2>2. CASE active.id = 0
    <3>1. /\ currentId' = 0 /\ lastLive' = NoText
          /\ UNCHANGED <<active, call, transcript, faults>>
      BY <1>7, <2>2 DEF TakeAnchor, ForgetLive, sinkVars
    <3> QED
      BY <1>2, <2>2, <3>1 DEF Consistent, CallConsistent, OpenMessagesInSync, LiveKept, NoCall
  <2> QED  BY <2>1, <2>2
<1>8. CASE PostOrEditLive
  <2>1. latestLive \in Texts
    BY <1>1, <1>8 DEF PostOrEditLive, HasPendingWork, TypeOK
  <2>2. /\ UNCHANGED <<currentId, lastLive, active, transcript, faults>>
        /\ call'.body = LiveBody(latestLive)
        /\ \/ currentId # 0 /\ call'.at = "liveEdit" /\ call'.id = currentId
           \/ currentId = 0 /\ call'.at = "livePost" /\ call'.id = 0
    BY <1>8 DEF PostOrEditLive, Await, liveVars, sinkVars
  <2>3. LiveBody(latestLive).text = latestLive
    BY DEF LiveBody
  <2>4. CallConsistent'
    BY <2>1, <2>2, <2>3 DEF CallConsistent
  <2> QED
    BY <1>2, <2>2, <2>4 DEF Consistent, OpenMessagesInSync, LiveKept
<1> QED
  BY <1>3, <1>4, <1>5, <1>6, <1>7, <1>8 DEF PostOneUnit

\* An answer to an edit changes its message only; an answer to a post adds one.
LEMMA AnswerWrites ==
  ASSUME TypeOK, NEW at \in CallSite \ {"idle"}, NEW o \in Outcomes, Answer(at, o)
  PROVE  /\ call.at = at
         /\ \A m \in 1..Len(transcript) :
              m # call.id => m \in 1..Len(transcript') /\ transcript'[m] = transcript[m]
         /\ o = "ok" => transcript'[MessageId] = call.body
         /\ call.id = 0 => MessageId = Len(transcript) + 1
         /\ call.id # 0 => MessageId = call.id
         /\ o = "ok" => faults' = faults
         /\ o # "ok" => faults' # 0
<1>1. /\ transcript \in Seq(Body) /\ Len(transcript) \in Nat /\ faults \in Nat
      /\ call \in Call /\ call.id \in 0..Len(transcript) /\ call.body \in Body
  BY DEF TypeOK, Call
<1>2. transcript' = IF o = "err" THEN transcript ELSE Written
  BY DEF Answer
<1>3. CASE call.id = 0
  <2>1. Written = Append(transcript, call.body)
    BY <1>3 DEF Written
  <2> QED
    BY <1>1, <1>2, <1>3, <2>1, AppendProperties DEF Answer, MessageId
<1>4. CASE call.id # 0
  <2>1. Written = [transcript EXCEPT ![call.id] = call.body]
    BY <1>4 DEF Written
  <2> QED
    BY <1>1, <1>2, <1>4, <2>1, ExceptSeq DEF Answer, MessageId
<1> QED  BY <1>3, <1>4

LEMMA PlatformConsistent ==
  ASSUME OpenInv, Platform
  PROVE  Consistent'
<1>1. /\ TypeOK /\ CallConsistent /\ OpenMessagesInSync /\ LiveKept
      /\ transcript \in Seq(Body) /\ Len(transcript) \in Nat
      /\ currentId \in 0..Len(transcript) /\ active.id \in 0..Len(transcript)
      /\ call.body \in Body /\ active.body \in Body
      /\ call.batch \in Seq(Span) /\ faults \in Nat
  BY DEF OpenInv, TypeOK, Call
<1>2. CASE TooLong
  <2>1. /\ UNCHANGED <<currentId, lastLive, active, transcript>>
        /\ faults' # 0
        /\ call.body.kind \in {"scroll", "history"}
    BY <1>1, <1>2 DEF TooLong, liveVars
  <2>2. \E rows : call' = [call EXCEPT !.body.rows = rows]
    BY <1>2 DEF TooLong
  <2>3. /\ call'.at = call.at /\ call'.id = call.id
        /\ call'.body.kind = call.body.kind /\ call.at # "idle"
    <3>1. call.at # "idle"
      BY <1>1, <1>2 DEF TooLong, CallConsistent, NoCall, Scroll
    <3> QED  BY <2>2, <3>1, <1>1 DEF TypeOK, Call, Body
  <2>4. call.at \notin {"liveEdit", "livePost", "stream"}
    BY <1>1, <2>1 DEF CallConsistent, LiveBody
  <2>5. CallConsistent'
    BY <1>1, <2>1, <2>3, <2>4 DEF CallConsistent
  <2> QED
    BY <1>1, <2>1, <2>5 DEF Consistent, OpenMessagesInSync, LiveKept
<1>3. CASE \E o \in Outcomes : StreamAnswer(o)
  <2>1. PICK o \in Outcomes : StreamAnswer(o)
    BY <1>3
  <2>2. Answer("stream", o) /\ call' = NoCall /\ UNCHANGED <<liveVars, active>>
    BY <2>1 DEF StreamAnswer
  <2> QED
    BY <1>1, <2>2, AnswerWrites
    DEF CallSite, Consistent, CallConsistent, OpenMessagesInSync, LiveKept, NoCall, liveVars
<1>4. CASE \E o \in Outcomes : FullLockAnswer(o)
  <2>1. PICK o \in Outcomes : FullLockAnswer(o)
    BY <1>4
  <2>2. Answer("fullLock", o) /\ call' = NoCall /\ UNCHANGED <<liveVars, active>>
    BY <2>1 DEF FullLockAnswer
  <2> QED
    BY <1>1, <2>2, AnswerWrites
    DEF CallSite, Consistent, CallConsistent, OpenMessagesInSync, LiveKept, NoCall, liveVars
<1>5. CASE \E o \in Outcomes : AnchorLockAnswer(o)
  <2>1. PICK o \in Outcomes : AnchorLockAnswer(o)
    BY <1>5
  <2>2. /\ Answer("anchorLock", o) /\ call' = NoCall
        /\ currentId' = 0 /\ lastLive' = NoText /\ UNCHANGED active
    BY <2>1 DEF AnchorLockAnswer, ForgetLive
  <2> QED
    BY <1>1, <2>2, AnswerWrites
    DEF CallSite, Consistent, CallConsistent, OpenMessagesInSync, LiveKept, NoCall
<1>6. CASE \E o \in Outcomes : LiveEditAnswer(o)
  <2>1. PICK o \in Outcomes : LiveEditAnswer(o)
    BY <1>6
  <2>2. Answer("liveEdit", o) /\ active' = active
    BY <2>1 DEF LiveEditAnswer
  <2>3. /\ call.id = currentId /\ currentId # 0 /\ active.id # currentId
        /\ call.body.text \in Texts /\ call.body = LiveBody(call.body.text)
    BY <1>1, <2>2 DEF Answer, CallConsistent, OpenMessagesInSync
  <2>4. CASE o = "ok"
    <3>1. call' = NoCall /\ lastLive' = call.body.text /\ currentId' = currentId
      BY <2>1, <2>4 DEF LiveEditAnswer
    <3> QED
      BY <1>1, <2>2, <2>3, <2>4, <3>1, AnswerWrites
      DEF CallSite, Consistent, CallConsistent, OpenMessagesInSync, LiveKept, NoCall
  <2>5. CASE o # "ok"
    <3>1. /\ call'.at = "livePost" /\ call'.id = 0 /\ call'.body = call.body
          /\ currentId' = 0 /\ lastLive' = lastLive
      BY <2>1, <2>5 DEF LiveEditAnswer, Await
    <3>2. CallConsistent'
      BY <2>3, <3>1 DEF CallConsistent
    <3> QED
      BY <1>1, <2>2, <2>3, <2>5, <3>1, <3>2, AnswerWrites
      DEF CallSite, Consistent, OpenMessagesInSync, LiveKept
  <2> QED  BY <2>4, <2>5
<1>7. CASE \E o \in Outcomes : LivePostAnswer(o)
  <2>1. PICK o \in Outcomes : LivePostAnswer(o)
    BY <1>7
  <2>2. Answer("livePost", o) /\ active' = active /\ call' = NoCall
    BY <2>1 DEF LivePostAnswer
  <2>3. /\ call.id = 0 /\ currentId = 0
        /\ call.body.text \in Texts /\ call.body = LiveBody(call.body.text)
    BY <1>1, <2>2 DEF Answer, CallConsistent
  <2>4. CASE o = "ok"
    <3>1. currentId' = MessageId /\ lastLive' = call.body.text
      BY <2>1, <2>4 DEF LivePostAnswer
    <3> QED
      BY <1>1, <2>2, <2>3, <2>4, <3>1, AnswerWrites
      DEF CallSite, Consistent, CallConsistent, OpenMessagesInSync, LiveKept, NoCall
  <2>5. CASE o # "ok"
    <3>1. currentId' = currentId /\ lastLive' = lastLive
      BY <2>1, <2>5 DEF LivePostAnswer, liveVars
    <3> QED
      BY <1>1, <2>2, <2>3, <2>5, <3>1, AnswerWrites
      DEF CallSite, Consistent, CallConsistent, OpenMessagesInSync, LiveKept, NoCall
  <2> QED  BY <2>4, <2>5
<1>8. CASE \E o \in Outcomes : DemoteAnswer(o)
  <2>1. PICK o \in Outcomes : DemoteAnswer(o)
    BY <1>8
  <2>2. Answer("demote", o) /\ currentId' = currentId
    BY <2>1 DEF DemoteAnswer
  <2>3. call.id # 0 /\ currentId = 0 /\ active.id = 0 /\ call.body.kind = "scroll"
    BY <1>1, <2>2 DEF Answer, CallConsistent
  <2>4. CASE o = "ok"
    <3>1. /\ call' = NoCall /\ lastLive' = NoText
          /\ active' = [id |-> MessageId, body |-> call.body]
      BY <2>1, <2>4 DEF DemoteAnswer
    <3> QED
      BY <1>1, <2>2, <2>3, <2>4, <3>1, AnswerWrites
      DEF CallSite, Consistent, CallConsistent, OpenMessagesInSync, LiveKept, NoCall
  <2>5. CASE o # "ok"
    <3>1. /\ call'.at = "open" /\ call'.id = 0 /\ call'.body.kind = "scroll"
          /\ lastLive' = lastLive /\ active' = active
      BY <2>1, <2>5 DEF DemoteAnswer, Await, Scroll
    <3>2. CallConsistent'
      BY <2>3, <3>1 DEF CallConsistent
    <3> QED
      BY <1>1, <2>2, <2>3, <2>5, <3>1, <3>2, AnswerWrites
      DEF CallSite, Consistent, OpenMessagesInSync, LiveKept
  <2> QED  BY <2>4, <2>5
<1>9. CASE \E o \in Outcomes : OpenAnswer(o)
  <2>1. PICK o \in Outcomes : OpenAnswer(o)
    BY <1>9
  <2>2. /\ Answer("open", o) /\ call' = NoCall
        /\ currentId' = currentId /\ lastLive' = lastLive
        /\ active' = IF o = "ok" THEN [id |-> MessageId, body |-> call.body] ELSE active
    BY <2>1 DEF OpenAnswer, Opened, liveVars
  <2>3. call.id = 0 /\ active.id = 0 /\ call.body.kind = "scroll"
    BY <1>1, <2>2 DEF Answer, CallConsistent
  <2> QED
    BY <1>1, <2>2, <2>3, AnswerWrites
    DEF CallSite, Consistent, CallConsistent, OpenMessagesInSync, LiveKept, NoCall
<1>10. CASE \E o \in Outcomes : ExtendAnswer(o)
  <2>1. PICK o \in Outcomes : ExtendAnswer(o)
    BY <1>10
  <2>2. Answer("extend", o) /\ currentId' = currentId /\ lastLive' = lastLive
    BY <2>1 DEF ExtendAnswer, Extended, liveVars
  <2>3. /\ call.id = active.id /\ active.id # 0 /\ active.id # currentId
        /\ call.body.kind = "scroll"
    BY <1>1, <2>2 DEF Answer, CallConsistent, OpenMessagesInSync
  <2>4. CASE o = "ok"
    <3>1. call' = NoCall /\ active' = [active EXCEPT !.body = call.body]
      BY <2>1, <2>4 DEF ExtendAnswer, Extended
    <3>2. active'.id = active.id /\ active'.body = call.body
      BY <1>1, <3>1 DEF TypeOK
    <3> QED
      BY <1>1, <2>2, <2>3, <2>4, <3>1, <3>2, AnswerWrites
      DEF CallSite, Consistent, CallConsistent, OpenMessagesInSync, LiveKept, NoCall
  <2>5. CASE o # "ok"
    <3>1. /\ call'.at = "rollLock" /\ call'.id = active.id
          /\ call'.body = History(active.body) /\ active'.id = 0
      BY <2>1, <2>5 DEF ExtendAnswer, Extended, LockActive, Await, NoBuffer
    <3>2. call'.body.kind = "history"
      BY <1>1, <3>1 DEF History, Body
    <3>3. CallConsistent'
      BY <2>2, <2>3, <3>1, <3>2 DEF CallConsistent
    <3> QED
      BY <1>1, <2>2, <2>3, <2>5, <3>1, <3>3, AnswerWrites
      DEF CallSite, Consistent, OpenMessagesInSync, LiveKept
  <2> QED  BY <2>4, <2>5
<1>11. CASE \E o \in Outcomes : RollLockAnswer(o)
  <2>1. PICK o \in Outcomes : RollLockAnswer(o)
    BY <1>11
  <2>2. /\ Answer("rollLock", o) /\ currentId' = currentId /\ lastLive' = lastLive
        /\ active' = active
        /\ call'.at = "open" /\ call'.id = 0 /\ call'.body.kind = "scroll"
    BY <2>1 DEF RollLockAnswer, liveVars, Await, Scroll
  <2>3. call.id # 0 /\ call.id # currentId /\ active.id = 0
    BY <1>1, <2>2 DEF Answer, CallConsistent
  <2>4. CallConsistent'
    BY <2>2, <2>3 DEF CallConsistent
  <2> QED
    BY <1>1, <2>2, <2>3, <2>4, AnswerWrites
    DEF CallSite, Consistent, OpenMessagesInSync, LiveKept
<1> QED
  BY <1>2, <1>3, <1>4, <1>5, <1>6, <1>7, <1>8, <1>9, <1>10, <1>11 DEF Platform


LEMMA ConsistentStep ==
  ASSUME OpenInv, [Next]_vars
  PROVE  Consistent'
<1>1. TypeOK /\ Consistent
  BY DEF OpenInv, Consistent
<1>2. CASE Session
  <2>1. ASSUME NEW msg, NEW last, HandOff(msg, last)
        PROVE  UNCHANGED <<call, currentId, active, lastLive, transcript, faults>>
    BY <2>1 DEF HandOff, liveVars, sinkVars
  <2>2. UNCHANGED <<call, currentId, active, lastLive, transcript, faults>>
    BY <1>2, <2>1 DEF Session, TrySendFrame, Say, Anchor, Shutdown, liveVars, sinkVars
  <2> QED  BY <1>1, <2>2, FrameConsistent
<1>3. CASE Ingest \/ Stop \/ UNCHANGED vars
  <2>1. UNCHANGED <<call, currentId, active, lastLive, transcript, faults>>
    BY <1>3 DEF Ingest, Queued, Stop, vars, liveVars, sinkVars
  <2> QED  BY <1>1, <2>1, FrameConsistent
<1>4. CASE PostOneUnit
  BY <1>4, PostOneUnitConsistent
<1>5. CASE Platform
  BY <1>5, PlatformConsistent
<1> QED
  BY <1>2, <1>3, <1>4, <1>5 DEF Next, Finished

\* OpenInv is inductive.
LEMMA OpenInvInit == Init => OpenInv
<1>1. Init => CallConsistent /\ OpenMessagesInSync /\ LiveKept
  BY DEF Init, CallConsistent, OpenMessagesInSync, LiveKept, NoCall, NoBuffer
<1> QED
  BY <1>1, InitType DEF OpenInv

LEMMA OpenInvStep == OpenInv /\ [Next]_vars => OpenInv'
<1> SUFFICES ASSUME OpenInv, [Next]_vars PROVE OpenInv'
  OBVIOUS
<1>1. TypeOK'
  BY TypeStep DEF OpenInv
<1>2. Consistent'
  BY ConsistentStep
<1> QED
  BY <1>1, <1>2 DEF OpenInv, Consistent

\* The dispatcher's knowledge of its open messages is right in every reachable
\* state, for every limit, channel depth and mix of failed, lost and shrunk
\* calls: the active buffer it sizes the next batch against is what the
\* channel holds, the live message shows last_live_body, and no message is
\* both, so a live frame never overwrites rows.
THEOREM OpenMessages == Spec => []OpenMessagesInSync
<1>1. OpenInv => OpenMessagesInSync
  BY DEF OpenInv
<1> QED
  BY <1>1, OpenInvInit, OpenInvStep, PTL DEF Spec

\* As long as no call fails, a screen the task believes shown is shown: the
\* live message is only forgotten together with last_live_body.
THEOREM LiveHasMessageAlways == Spec => []LiveHasMessage
<1>1. OpenInv => LiveHasMessage
  BY DEF OpenInv, LiveKept, LiveHasMessage, NoCall
<1> QED
  BY <1>1, OpenInvInit, OpenInvStep, PTL DEF Spec

-----------------------------------------------------------------------------
(* Sealed messages.                                                         *)

\* The edit awaited never names a sealed buffer or a stand-alone message.
LEMMA EditTargetStep == OpenInv /\ EditTarget /\ [Next]_vars => EditTarget'
<1> SUFFICES ASSUME OpenInv, EditTarget, [Next]_vars PROVE EditTarget'
  OBVIOUS
<1>1. TypeOK /\ CallConsistent /\ OpenMessagesInSync /\ call.id \in 0..Len(transcript)
      /\ Len(transcript) \in Nat
  BY DEF OpenInv, TypeOK, Call
<1>2. CASE UNCHANGED <<call, transcript>>
  BY <1>2 DEF EditTarget
<1>3. CASE Session \/ Ingest \/ Stop \/ UNCHANGED vars
  <2>1. ASSUME NEW msg, NEW last, HandOff(msg, last)
        PROVE  UNCHANGED <<call, transcript>>
    BY <2>1 DEF HandOff, sinkVars
  <2>2. UNCHANGED <<call, transcript>>
    BY <1>3, <2>1 DEF Session, TrySendFrame, Say, Anchor, Shutdown, Ingest, Stop, vars, sinkVars
  <2> QED  BY <1>2, <2>2
<1>4. CASE PostOneUnit
  <2>1. Idle /\ transcript' = transcript
    <3>1. CASE SealFull \/ FlushRows \/ FlushWideRow
      BY <3>1 DEF SealFull, FlushRows, FlushWideRow, AtFront, sinkVars
    <3>2. CASE PostStream \/ TakeAnchor \/ PostOrEditLive
      BY <3>2 DEF PostStream, TakeAnchor, PostOrEditLive, AtFront, sinkVars
    <3> QED  BY <1>4, <3>1, <3>2 DEF PostOneUnit
  <2>2. /\ active.id # 0 => transcript[active.id].kind = "scroll"
        /\ currentId # 0 => transcript[currentId].kind = "live"
    BY <1>1 DEF OpenMessagesInSync, LiveBody
  <2>3. ASSUME NEW batch, IngestScrollBatch(batch)
        PROVE  call'.id \in {0, active.id, currentId}
    BY <2>3 DEF IngestScrollBatch, LockActive, Await
  <2>4. call' = call \/ call'.id \in {0, active.id, currentId}
    <3>1. CASE FlushRows \/ FlushWideRow
      BY <2>3, <3>1 DEF FlushRows, FlushWideRow
    <3>2. CASE SealFull \/ TakeAnchor
      BY <3>2 DEF SealFull, TakeAnchor, LockActive, Await
    <3>3. CASE PostStream \/ PostOrEditLive
      BY <3>3 DEF PostStream, PostOrEditLive, Await
    <3> QED  BY <1>4, <3>1, <3>2, <3>3 DEF PostOneUnit
  <2> QED  BY <2>1, <2>2, <2>4 DEF EditTarget
<1>5. CASE TooLong
  <2>1. transcript' = transcript /\ \E rows : call' = [call EXCEPT !.body.rows = rows]
    BY <1>5 DEF TooLong
  <2>2. call'.id = call.id
    BY <1>1, <2>1 DEF TypeOK, Call
  <2> QED  BY <2>1, <2>2 DEF EditTarget
<1>6. ASSUME NEW o \in Outcomes, ExtendAnswer(o)
      PROVE  EditTarget'
  <2>1. Answer("extend", o) /\ call.at = "extend"
    BY <1>6 DEF ExtendAnswer, Answer
  <2>2. /\ call.id = active.id /\ active.id # 0 /\ call.body.kind = "scroll"
        /\ transcript[call.id].kind = "scroll"
    BY <1>1, <2>1 DEF CallConsistent, OpenMessagesInSync
  <2>3. transcript'[call.id].kind = "scroll"
    <3>1. transcript' = transcript \/ transcript' = [transcript EXCEPT ![call.id] = call.body]
      BY <2>1, <2>2 DEF Answer, Written
    <3> QED  BY <1>1, <2>2, <3>1 DEF TypeOK
  <2>4. call'.id \in {0, active.id}
    BY <1>6 DEF ExtendAnswer, LockActive, Await, NoCall
  <2> QED  BY <2>2, <2>3, <2>4 DEF EditTarget
<1>7. ASSUME NEW o \in Outcomes,
             \/ StreamAnswer(o)   \/ LiveEditAnswer(o) \/ LivePostAnswer(o)
             \/ DemoteAnswer(o)   \/ OpenAnswer(o)     \/ RollLockAnswer(o)
             \/ FullLockAnswer(o) \/ AnchorLockAnswer(o)
      PROVE  EditTarget'
  <2>1. call'.id = 0
    BY <1>7 DEF StreamAnswer, LiveEditAnswer, LivePostAnswer, DemoteAnswer, OpenAnswer,
                RollLockAnswer, FullLockAnswer, AnchorLockAnswer, Await, NoCall
  <2> QED  BY <2>1 DEF EditTarget
<1> QED
  BY <1>3, <1>4, <1>5, <1>6, <1>7 DEF Next, Platform, Finished

\* The step SealedForever allows.
KeepsDone == \A m \in Done : m \in Done' /\ transcript'[m] = transcript[m]

\* It is enough that every message open after the step was open, or is the one
\* the step adds to the channel, and that no message changes but the one edited.
LEMMA DoneIfOpenShrinks ==
  ASSUME TypeOK, EditTarget, Open' \subseteq Open \cup {Len(transcript) + 1},
         \A m \in 1..Len(transcript) :
           m # call.id => m \in 1..Len(transcript') /\ transcript'[m] = transcript[m],
         DOMAIN transcript' = 1..Len(transcript')
  PROVE  KeepsDone
<1>1. /\ DOMAIN transcript = 1..Len(transcript) /\ Len(transcript) \in Nat
      /\ call.id \in Nat
  BY LenProperties DEF TypeOK, Call
<1> SUFFICES ASSUME NEW m \in Done
             PROVE  m \in Done' /\ transcript'[m] = transcript[m]
  BY DEF KeepsDone
<1>2. m \in 1..Len(transcript) /\ m # Len(transcript) + 1
  BY <1>1 DEF Done
<1>3. m # call.id
  BY <1>1, <1>2 DEF Done, Open, EditTarget
<1>4. m \in 1..Len(transcript') /\ transcript'[m] = transcript[m]
  BY <1>2, <1>3
<1> QED
  BY <1>2, <1>4 DEF Done

LEMMA SealedStep == OpenInv /\ EditTarget /\ [Next]_vars => [KeepsDone]_vars
<1> SUFFICES ASSUME OpenInv, EditTarget, [Next]_vars PROVE KeepsDone
  OBVIOUS
<1>0. TypeOK /\ (transcript \in Seq(Body)) /\ (DOMAIN transcript = 1..Len(transcript))
      /\ (DOMAIN transcript' = 1..Len(transcript'))
  <2>1. TypeOK /\ TypeOK'
    BY TypeStep DEF OpenInv
  <2> QED  BY <2>1, LenProperties DEF TypeOK
<1>1. CASE Session \/ Ingest \/ Stop \/ UNCHANGED vars
  <2>1. ASSUME NEW msg, NEW last, HandOff(msg, last)
        PROVE  UNCHANGED <<call, currentId, active, transcript>>
    BY <2>1 DEF HandOff, liveVars, sinkVars
  <2>2. UNCHANGED <<call, currentId, active, transcript>>
    BY <1>1, <2>1 DEF Session, TrySendFrame, Say, Anchor, Shutdown, Ingest, Queued, Stop,
                      vars, liveVars, sinkVars
  <2> QED  BY <2>2, <1>0, DoneIfOpenShrinks DEF Open
<1>2. CASE PostOneUnit
  <2>1. UNCHANGED transcript
    BY <1>2 DEF PostOneUnit, SealFull, FlushRows, FlushWideRow, PostStream, Requeue, TakeAnchor, ForgetLive,
                PostOrEditLive, sinkVars
  <2>2. ASSUME NEW batch, IngestScrollBatch(batch)
        PROVE  Open' \subseteq Open
    BY <2>2 DEF IngestScrollBatch, LiveToDemote, Extension, LockActive, Await, Open, NoBuffer
  <2>3. CASE FlushRows \/ FlushWideRow
    <3>1. \E batch : IngestScrollBatch(batch)
      BY <2>3 DEF FlushRows, FlushWideRow, Requeue
    <3> QED  BY <2>1, <2>2, <3>1, <1>0, DoneIfOpenShrinks
  <2>4. CASE SealFull \/ TakeAnchor
    <3>1. Open' \subseteq Open
      BY <2>4 DEF SealFull, TakeAnchor, ForgetLive, LockActive, Await, Open, NoBuffer, liveVars
    <3> QED  BY <2>1, <3>1, <1>0, DoneIfOpenShrinks
  <2>5. CASE PostStream \/ PostOrEditLive
    <3>1. Open' \subseteq Open
      BY <2>5 DEF PostStream, Requeue, PostOrEditLive, Await, Open, liveVars
    <3> QED  BY <2>1, <3>1, <1>0, DoneIfOpenShrinks
  <2> QED  BY <1>2, <2>3, <2>4, <2>5 DEF PostOneUnit
<1>3. CASE TooLong
  <2>1. UNCHANGED <<currentId, active, transcript>>
    BY <1>3 DEF TooLong, liveVars
  <2>2. \E rows : call' = [call EXCEPT !.body.rows = rows]
    BY <1>3 DEF TooLong
  <2>3. call'.id = call.id
    BY <1>0, <2>2 DEF TypeOK, Call
  <2> QED  BY <2>1, <2>3, <1>0, DoneIfOpenShrinks DEF Open
<1>4. ASSUME NEW o \in Outcomes,
             \/ StreamAnswer(o)   \/ LiveEditAnswer(o) \/ LivePostAnswer(o)
             \/ DemoteAnswer(o)   \/ OpenAnswer(o)     \/ ExtendAnswer(o)
             \/ RollLockAnswer(o) \/ FullLockAnswer(o) \/ AnchorLockAnswer(o)
      PROVE  KeepsDone
  <2>1. PICK at \in CallSite \ {"idle"} : Answer(at, o)
    BY <1>4 DEF CallSite, StreamAnswer, LiveEditAnswer, LivePostAnswer, DemoteAnswer,
                OpenAnswer, Opened, ExtendAnswer, Extended, RollLockAnswer, FullLockAnswer, AnchorLockAnswer, ForgetLive
  <2>2. /\ \A m \in 1..Len(transcript) :
             m # call.id => m \in 1..Len(transcript') /\ transcript'[m] = transcript[m]
        /\ MessageId \in {call.id, Len(transcript) + 1}
    BY <1>0, <2>1, AnswerWrites
  <2>3. currentId' \in {currentId, 0, MessageId}
    BY <1>4 DEF StreamAnswer, LiveEditAnswer, LivePostAnswer, DemoteAnswer, OpenAnswer, Opened,
                ExtendAnswer, Extended, RollLockAnswer, FullLockAnswer, AnchorLockAnswer, ForgetLive, liveVars
  <2>4. active'.id \in {active.id, 0, MessageId}
    BY <1>0, <1>4 DEF StreamAnswer, LiveEditAnswer, LivePostAnswer, DemoteAnswer, OpenAnswer, Opened,
                ExtendAnswer, Extended, RollLockAnswer, FullLockAnswer, AnchorLockAnswer, ForgetLive,
                LockActive, NoBuffer, TypeOK
  <2>5. call'.id \in {0, active.id}
    BY <1>4 DEF StreamAnswer, LiveEditAnswer, LivePostAnswer, DemoteAnswer, OpenAnswer, Opened,
                ExtendAnswer, Extended, RollLockAnswer, FullLockAnswer, AnchorLockAnswer, ForgetLive,
                LockActive, NoCall, Await
  <2>6. Open' \subseteq Open \cup {Len(transcript) + 1}
    BY <2>2, <2>3, <2>4, <2>5 DEF Open
  <2> QED  BY <2>2, <2>6, <1>0, DoneIfOpenShrinks
<1> QED
  BY <1>1, <1>2, <1>3, <1>4 DEF Next, Platform, Finished

\* A message relabelled as history, a stand-alone message, and one the
\* dispatcher has let go (by an anchor, or given up after a failed call) is never
\* edited again, for every mix of failures.
THEOREM SealedStaysSealed == Spec => SealedForever
<1>1. Init => EditTarget
  BY DEF Init, EditTarget, NoCall
<1>2. Spec => [](OpenInv /\ EditTarget)
  BY <1>1, OpenInvInit, OpenInvStep, EditTargetStep, PTL DEF Spec
<1> QED
  BY <1>2, SealedStep, PTL DEF Spec, SealedForever, KeepsDone

-----------------------------------------------------------------------------
(* The input that has not left the queue is numbered without a gap from     *)
(* taken + 1 on: first the queue, then the messages of the channel.         *)

\* The last position of works that follow position from.
EndOf(works, from) == IF works = <<>> THEN from ELSE works[Len(works)].hi

Contiguous(works, from) ==
  \A i \in DOMAIN works : works[i].lo = (IF i = 1 THEN from ELSE works[i-1].hi) + 1

\* The positions the messages of the channel end at.
ChannelEnds(ends, msgs, from, to) ==
  /\ ends \in [0..Len(msgs) -> 0..to] /\ ends[0] = from /\ ends[Len(msgs)] = to
  /\ \A i \in 1..Len(msgs) : /\ Contiguous(Queued(msgs[i]), ends[i-1])
                             /\ ends[i] = EndOf(Queued(msgs[i]), ends[i-1])

InputInv ==
  /\ Contiguous(queue, taken)
  /\ \E ends : ChannelEnds(ends, chan, EndOf(queue, taken), sent)

-----------------------------------------------------------------------------
(* What holds whatever fails.                                               *)

Ordered(rows)   == \A i, j \in DOMAIN rows : i < j => rows[i].hi < rows[j].lo
Upto(rows, end) == \A i \in DOMAIN rows : 0 < rows[i].lo /\ rows[i].hi <= end
Separated(rows, by) ==
  \A a \in by : \A i, j \in DOMAIN rows : ~(rows[i].lo < a /\ a < rows[j].hi)
Below(rows, by) == \A a \in by, i \in DOMAIN rows : a < rows[i].lo

\* Rows in order, none after end, on one side of every anchor.
Placed(rows, end, by) == Ordered(rows) /\ Upto(rows, end) /\ Separated(rows, by)

\* The calls that publish a batch, and those that still may.
Publishing == {"stream", "demote", "open", "extend"}
Carrying   == Publishing \cup {"rollLock"}

\* Every body is in order, older than what is still queued and on one side of
\* every anchor.
PlacedInv ==
  /\ anchors \subseteq 1..taken /\ shown \subseteq 1..taken
  /\ \A m \in DOMAIN transcript : /\ Placed(transcript[m].rows, taken, anchors)
                                  /\ Units(transcript[m].rows) \subseteq shown
  /\ Placed(active.body.rows, taken, anchors)
  /\ Placed(call.body.rows, taken, anchors)
  /\ Placed(call.batch, taken, anchors)

\* The buffer that may grow lies below the last anchor, and so does the batch.
BelowInv ==
  /\ active.id # 0 => Below(active.body.rows, anchors)
  /\ call.at \in Carrying => call.batch # <<>> /\ Below(call.batch, anchors)
  /\ call.at \in Publishing => Below(call.body.rows, anchors)

\* What a call would show for the first time belongs to its batch, and is newer
\* than all that was ever shown.
FreshInv ==
  /\ call.at \notin Publishing => Units(call.body.rows) \subseteq shown
  /\ call.at \in Publishing =>
       Units(call.body.rows) \subseteq shown \cup Units(call.batch)
  /\ call.at \notin Carrying => call.batch = <<>>
  /\ \A v \in shown, u \in Units(call.batch) \ shown : v < u
  /\ call.at \in Publishing =>
       \A v \in Units(call.body.rows), u \in Units(call.batch) \ Units(call.body.rows) : v < u

\* A live frame awaited is the newest one and nothing else is pending.
LiveInv ==
  call.at \in {"liveEdit", "livePost"} => queue = <<>> /\ call.body.text = latestLive

\* Room left: every scroll buffer fits, and so does the batch in a fresh one.
SizeInv ==
  /\ \A m \in Scrollback : BodySize(transcript[m]) <= Limit
  /\ call.body.kind \in {"scroll", "history"} => BodySize(call.body) <= Limit
  /\ BodySize(Scroll(call.batch)) <= Limit

-----------------------------------------------------------------------------
(* What holds as long as no call failed.                                    *)

\* A call writes what the task computed.
PlainInv ==
  faults = 0 =>
    /\ call.at \in {"stream", "demote", "open"} => call.body.rows = call.batch
    /\ call.at = "extend" => call.body.rows = active.body.rows \o call.batch
    /\ call.at \in {"fullLock", "anchorLock"} =>
         transcript[call.id].kind = "scroll" /\ transcript[call.id].rows = call.body.rows
    /\ call.at = "demote" => transcript[call.id].kind = "live"
    /\ call.at # "rollLock"
    /\ call.at = "open" => currentId = 0

\* Live frames hold no position.
LiveIsEmpty == \A m \in DOMAIN transcript : transcript[m].kind = "live" => transcript[m].rows = <<>>

OrderInv ==
  faults = 0 =>
    /\ \A m, n \in Scrollback :
         \A i \in DOMAIN ScrollRows(m), j \in DOMAIN ScrollRows(n) :
           m < n => ScrollRows(m)[i].hi < ScrollRows(n)[j].lo
    /\ \A m \in Scrollback : /\ currentId # 0 => m < currentId
                             /\ active.id # 0 => m <= active.id
                             /\ call.at = "demote" => m < call.id
    /\ call.at \in Publishing =>
         \A m \in Scrollback : \A i \in DOMAIN ScrollRows(m), j \in DOMAIN call.batch :
           ScrollRows(m)[i].hi < call.batch[j].lo

\* ExactlyOnce for the positions that have left the queue.
OnceInv ==
  faults = 0 =>
    \A u \in 1..taken :
      IF u \in anchors \cup Units(call.batch)
        THEN Holders(u) = {}
        ELSE \E m \in DOMAIN transcript : Holders(u) = {m}

LogInv ==
  /\ OpenInv /\ InputInv /\ PlacedInv /\ BelowInv /\ FreshInv /\ LiveInv /\ SizeInv
  /\ PlainInv /\ LiveIsEmpty /\ OrderInv /\ OnceInv

-----------------------------------------------------------------------------
(* The measure of rows is a sum.                                            *)

Sums(g, rows) ==
  /\ g \in [0..Len(rows) -> Nat] /\ g[0] = 0
  /\ \A k \in 1..Len(rows) : g[k] = g[k-1] + rows[k].size

\* The recursion Measure is defined by.
Unfolds(g, rows) ==
  g = [k \in 0..Len(rows) |-> IF k = 0 THEN 0 ELSE g[k-1] + rows[k].size]

LEMMA SpanFacts ==
  ASSUME NEW rows \in Seq(Span)
  PROVE  /\ Len(rows) \in Nat /\ DOMAIN rows = 1..Len(rows)
         /\ \A i \in 1..Len(rows) :
              /\ rows[i] \in Span
              /\ rows[i].lo \in Nat /\ rows[i].hi \in Nat /\ rows[i].size \in Nat
              /\ rows[i].lo <= rows[i].hi /\ rows[i].hi < rows[i].lo + rows[i].size
<1>1. Len(rows) \in Nat /\ DOMAIN rows = 1..Len(rows)
  BY LenProperties
<1>2. \A i \in 1..Len(rows) : rows[i] \in Span
  BY ElementOfSeq
<1> QED
  BY <1>1, <1>2 DEF Span

LEMMA SumsExist ==
  ASSUME NEW rows \in Seq(Span)
  PROVE  \E g : Sums(g, rows)
<1> DEFINE P(g, n) == /\ g \in [0..n -> Nat] /\ g[0] = 0
                      /\ \A k \in 1..n : g[k] = g[k-1] + rows[k].size
           S == {n \in 0..Len(rows) : \E g : P(g, n)}
<1>0. Len(rows) \in Nat
  BY SpanFacts
<1>1. 0 \in S
  <2>1. P([k \in 0..0 |-> 0], 0)
    OBVIOUS
  <2> HIDE DEF P
  <2> QED  BY <1>0, <2>1
<1>2. ASSUME NEW n \in 0..(Len(rows) - 1), n \in S
      PROVE  n + 1 \in S
  <2>1. PICK g : P(g, n)
    BY <1>2
  <2> DEFINE h == [k \in 0..(n+1) |-> IF k <= n THEN g[k] ELSE g[n] + rows[n+1].size]
  <2>2. rows[n+1].size \in Nat
    BY <1>0, SpanFacts
  <2>3. h \in [0..(n+1) -> Nat]
    BY <2>1, <2>2
  <2>4. h[0] = 0 /\ \A k \in 1..(n+1) : h[k] = h[k-1] + rows[k].size
    BY <2>1
  <2>5. P(h, n + 1)
    BY <2>3, <2>4
  <2> HIDE DEF P, h
  <2> QED  BY <1>0, <2>5
<1>3. 0..Len(rows) \subseteq S
  <2> HIDE DEF S
  <2> QED  BY <1>0, <1>1, <1>2, UpToInduction
<1>4. Len(rows) \in S
  <2> HIDE DEF S
  <2> QED  BY <1>0, <1>3
<1>5. \E g : P(g, Len(rows))
  <2> HIDE DEF P
  <2> QED  BY <1>4
<1> QED
  BY <1>5 DEF Sums

\* Any such sum is the one Measure takes.
LEMMA MeasureIs ==
  ASSUME NEW rows \in Seq(Span), NEW g, Sums(g, rows)
  PROVE  Measure(rows) = g[Len(rows)]
<1> DEFINE c == CHOOSE f : Unfolds(f, rows)
<1>0. Len(rows) \in Nat
  BY SpanFacts
<1>1. Unfolds(g, rows)
  BY <1>0 DEF Sums, Unfolds
<1>2. Unfolds(c, rows)
  BY <1>1, Zenon
<1>3. Measure(rows) = c[Len(rows)]
  BY Zenon DEF Measure, Unfolds
<1>4. \A k \in 0..Len(rows) : c[k] = IF k = 0 THEN 0 ELSE c[k-1] + rows[k].size
  <2> HIDE DEF c
  <2> QED  BY <1>2 DEF Unfolds
<1> DEFINE S == {k \in 0..Len(rows) : c[k] = g[k]}
<1>5. 0 \in S /\ \A k \in 0..(Len(rows) - 1) : k \in S => k + 1 \in S
  <2> HIDE DEF c
  <2> QED  BY <1>0, <1>4 DEF Sums
<1>6. 0..Len(rows) \subseteq S
  <2> HIDE DEF S
  <2> QED  BY <1>0, <1>5, UpToInduction
<1> QED
  BY <1>0, <1>3, <1>6

LEMMA MeasureEmpty == Measure(<<>>) = 0
<1>1. <<>> \in Seq(Span) /\ Len(<<>>) = 0
  BY EmptySeq
<1>2. Sums([k \in 0..0 |-> 0], <<>>)
  BY <1>1 DEF Sums
<1> QED
  BY <1>1, <1>2, MeasureIs

LEMMA MeasureType ==
  ASSUME NEW rows \in Seq(Span)
  PROVE  Measure(rows) \in Nat
<1>1. PICK g : Sums(g, rows)
  BY SumsExist
<1> QED
  BY <1>1, MeasureIs, SpanFacts, SMTT(40) DEF Sums

LEMMA MeasureSingle ==
  ASSUME NEW s \in Span
  PROVE  Measure(<<s>>) = s.size
<1>1. <<s>> \in Seq(Span) /\ Len(<<s>>) = 1 /\ <<s>>[1] = s /\ s.size \in Nat
  BY DEF Span
<1>2. Sums([k \in 0..1 |-> IF k = 0 THEN 0 ELSE s.size], <<s>>)
  BY <1>1 DEF Sums
<1> QED
  BY <1>1, <1>2, MeasureIs

\* The measure of a body that is extended is what was there and what is added.
LEMMA MeasureConcat ==
  ASSUME NEW rows \in Seq(Span), NEW more \in Seq(Span)
  PROVE  Measure(rows \o more) = Measure(rows) + Measure(more)
<1>1. PICK g : Sums(g, rows)
  BY SumsExist
<1>2. PICK h : Sums(h, more)
  BY SumsExist
<1> DEFINE m == Len(rows)
           n == Len(more)
           both == rows \o more
           f == [k \in 0..(m + n) |-> IF k <= m THEN g[k] ELSE g[m] + h[k - m]]
<1>3. /\ both \in Seq(Span) /\ Len(both) = m + n
      /\ \A i \in 1..(m + n) : both[i] = IF i <= m THEN rows[i] ELSE more[i - m]
  BY ConcatProperties
<1>4. m \in Nat /\ n \in Nat
  BY SpanFacts
<1>5. /\ \A k \in 0..m : g[k] \in Nat
      /\ \A k \in 1..m : g[k] = g[k-1] + rows[k].size
      /\ \A k \in 0..n : h[k] \in Nat
      /\ \A k \in 1..n : h[k] = h[k-1] + more[k].size
      /\ g[0] = 0 /\ h[0] = 0
  BY <1>1, <1>2 DEF Sums
<1> HIDE DEF m, n, both
<1>6. f \in [0..(m + n) -> Nat] /\ f[0] = 0
  <2>1. ASSUME NEW k \in 0..(m + n)
        PROVE  (IF k <= m THEN g[k] ELSE g[m] + h[k - m]) \in Nat
    <3>1. k <= m => k \in 0..m
      BY <1>4
    <3>2. ~(k <= m) => k - m \in 0..n
      BY <1>4
    <3>3. g[m] \in Nat
      BY <1>4, <1>5
    <3> QED  BY <1>5, <3>1, <3>2, <3>3
  <2> QED  BY <1>4, <1>5, <2>1
<1>7. ASSUME NEW k \in 1..(m + n)
      PROVE  f[k] = f[k-1] + both[k].size
  <2>1. CASE k <= m
    <3>1. k \in 1..m /\ k - 1 \in 0..(m + n) /\ k - 1 <= m /\ k \in 0..(m + n)
      BY <1>4, <2>1
    <3>2. f[k] = g[k] /\ f[k-1] = g[k-1] /\ both[k] = rows[k]
      BY <1>3, <2>1, <3>1
    <3> QED  BY <1>5, <3>1, <3>2
  <2>2. CASE k > m
    <3>1. k - m \in 1..n /\ f[k] = g[m] + h[k - m] /\ both[k] = more[k - m]
      BY <1>3, <1>4, <2>2
    <3>2. h[k - m] = h[k - m - 1] + more[k - m].size /\ g[m] \in Nat /\ h[k - m - 1] \in Nat
      BY <1>4, <1>5, <3>1
    <3>3. more[k - m].size \in Nat
      BY <3>1, SpanFacts DEF n
    <3>4. f[k-1] = g[m] + h[k - m - 1]
      <4>1. k - 1 \in 0..(m + n) /\ (k - 1) - m = k - m - 1
        BY <1>4, <2>2
      <4>2. CASE k - 1 <= m
        <5>1. k - 1 = m /\ k - m - 1 = 0
          BY <1>4, <2>2, <4>2
        <5> QED  BY <1>4, <1>5, <3>2, <4>1, <5>1
      <4>3. CASE ~(k - 1 <= m)
        BY <4>1, <4>3
      <4> QED  BY <4>2, <4>3
    <3> QED  BY <3>1, <3>2, <3>3, <3>4
  <2> QED  BY <1>4, <2>1, <2>2
<1>8. Sums(f, both)
  BY <1>3, <1>6, <1>7 DEF Sums
<1>9. f[m + n] = g[m] + h[n]
  BY <1>4, <1>5
<1> HIDE DEF f
<1>10. Measure(both) = f[m + n]
  BY <1>3, <1>8, MeasureIs
<1>11. Measure(rows) = g[m] /\ Measure(more) = h[n]
  BY <1>1, <1>2, MeasureIs DEF m, n
<1> QED
  BY <1>9, <1>10, <1>11 DEF both

\* shrink never makes a body longer.
LEMMA CutProperties ==
  ASSUME NEW rows \in Seq(Span), NEW k \in 1..Len(rows), NEW last \in rows[k].lo..rows[k].hi
  PROVE  /\ Cut(rows, k, last) \in Seq(Span) /\ Len(Cut(rows, k, last)) = k
         /\ \A i \in 1..k : /\ Cut(rows, k, last)[i].lo = rows[i].lo
                            /\ Cut(rows, k, last)[i].hi = IF i = k THEN last ELSE rows[i].hi
         /\ Measure(Cut(rows, k, last)) <= Measure(rows)
<1> DEFINE head == SubSeq(rows, 1, k - 1)
           tail == SubSeq(rows, k + 1, Len(rows))
           e == [lo |-> rows[k].lo, hi |-> last, size |-> last + 1 - rows[k].lo]
<1>1. /\ Len(rows) \in Nat /\ rows[k] \in Span /\ k \in Nat
      /\ \A i \in 1..Len(rows) : rows[i] \in Span
      /\ rows[k].lo \in Nat /\ rows[k].hi \in Nat /\ rows[k].size \in Nat
      /\ rows[k].lo <= rows[k].hi /\ rows[k].hi < rows[k].lo + rows[k].size
  BY SpanFacts
<1>2. last \in Nat /\ e.size = last + 1 - rows[k].lo /\ e.size \in Nat
      /\ e.size <= rows[k].size /\ e \in Span /\ e.lo = rows[k].lo /\ e.hi = last
  <2>1. last \in Nat /\ rows[k].lo <= last /\ last <= rows[k].hi
    BY <1>1
  <2>2. /\ last + 1 - rows[k].lo \in Nat /\ last + 1 - rows[k].lo <= rows[k].size
        /\ last < rows[k].lo + (last + 1 - rows[k].lo)
    BY <1>1, <2>1
  <2> QED  BY <1>1, <2>1, <2>2 DEF Span
<1>3. /\ head \in Seq(Span) /\ Len(head) = k - 1 /\ \A i \in 1..(k - 1) : head[i] = rows[i]
      /\ tail \in Seq(Span) /\ Len(tail) = Len(rows) - k
      /\ \A i \in 1..(Len(rows) - k) : tail[i] = rows[k + i]
  BY <1>1, SubSeqProperties
<1>4. /\ Cut(rows, k, last) = head \o <<e>>
      /\ Cut(rows, k, last) \in Seq(Span) /\ Len(Cut(rows, k, last)) = k
      /\ \A i \in 1..k : Cut(rows, k, last)[i] = IF i = k THEN e ELSE rows[i]
  <2>1. Cut(rows, k, last) = Append(head, e)
    BY DEF Cut
  <2> HIDE DEF head, e
  <2> QED  BY <1>1, <1>2, <1>3, <2>1, AppendProperties, AppendIsConcat, SMTT(40)
<1>5. /\ <<e>> \in Seq(Span) /\ <<rows[k]>> \in Seq(Span)
      /\ Measure(<<e>>) = e.size /\ Measure(<<rows[k]>>) = rows[k].size
  BY <1>1, <1>2, MeasureSingle
<1>6. rows = (head \o <<rows[k]>>) \o tail
  <2> HIDE DEF head, tail
  <2> DEFINE first == head \o <<rows[k]>>
             whole == first \o tail
  <2>1. /\ first \in Seq(Span) /\ Len(first) = k
        /\ \A i \in 1..k : first[i] = rows[i]
    BY <1>1, <1>3, <1>5, ConcatProperties, SMTT(40)
  <2> HIDE DEF first
  <2>2. /\ whole \in Seq(Span) /\ Len(whole) = Len(first) + Len(tail)
        /\ \A i \in 1..(Len(first) + Len(tail)) :
             whole[i] = IF i <= Len(first) THEN first[i] ELSE tail[i - Len(first)]
    BY <1>3, <2>1, ConcatProperties
  <2> HIDE DEF whole
  <2>3. Len(whole) = Len(rows)
    BY <1>1, <1>3, <2>1, <2>2
  <2>4. ASSUME NEW i \in 1..Len(whole)
        PROVE  whole[i] = rows[i]
    <3>1. CASE i <= k
      <4>1. i \in 1..k /\ i \in 1..(Len(first) + Len(tail)) /\ i <= Len(first)
        BY <1>1, <2>1, <2>2, <3>1
      <4> QED  BY <2>1, <2>2, <4>1
    <3>2. CASE ~(i <= k)
      <4>1. i - k \in 1..(Len(rows) - k) /\ k + (i - k) = i
        BY <1>1, <2>3, <3>2
      <4> QED  BY <1>1, <1>3, <2>1, <2>2, <2>3, <3>2, <4>1
    <3> QED  BY <3>1, <3>2
  <2>5. whole = rows
    BY <2>2, <2>3, <2>4, SeqEqual, Zenon
  <2> QED  BY <2>5 DEF whole, first
<1>7. /\ Measure(rows) = Measure(head) + rows[k].size + Measure(tail)
      /\ Measure(head) \in Nat /\ Measure(tail) \in Nat
  <2>1. head \o <<rows[k]>> \in Seq(Span)
    BY <1>3, <1>5, ConcatProperties
  <2> HIDE DEF head, tail
  <2>2. Measure(rows) = Measure(head \o <<rows[k]>>) + Measure(tail)
    BY <1>3, <1>6, <2>1, MeasureConcat
  <2>3. Measure(head \o <<rows[k]>>) = Measure(head) + rows[k].size
    BY <1>3, <1>5, MeasureConcat
  <2>4. Measure(head) \in Nat /\ Measure(tail) \in Nat
    BY <1>3, MeasureType
  <2> QED  BY <2>2, <2>3, <2>4
<1>8. Measure(Cut(rows, k, last)) = Measure(head) + e.size
  BY <1>3, <1>4, <1>5, MeasureConcat
<1>9. Measure(Cut(rows, k, last)) <= Measure(rows)
  <2> HIDE DEF head, tail, e
  <2> QED  BY <1>1, <1>2, <1>7, <1>8, SMTT(40)
<1> HIDE DEF head, tail, e
<1> QED
  BY <1>1, <1>2, <1>4, <1>9

-----------------------------------------------------------------------------
(* Works numbered without a gap.                                            *)

LEMMA WorkFacts ==
  ASSUME NEW works \in Seq(Work)
  PROVE  /\ Len(works) \in Nat /\ DOMAIN works = 1..Len(works)
         /\ \A i \in 1..Len(works) :
              /\ works[i] \in Work
              /\ works[i].lo \in Nat /\ works[i].hi \in Nat /\ works[i].lo <= works[i].hi
         /\ works # <<>> <=> 0 < Len(works)
<1>1. Len(works) \in Nat /\ DOMAIN works = 1..Len(works)
  BY LenProperties
<1>2. \A i \in 1..Len(works) : works[i] \in Work
  BY ElementOfSeq
<1>3. works # <<>> <=> 0 < Len(works)
  BY <1>1, EmptySeq
<1> QED
  BY <1>1, <1>2, <1>3 DEF Work

\* They are in order, each after what they follow and up to their end.
LEMMA ContiguousOrder ==
  ASSUME NEW works \in Seq(Work), NEW from \in Nat, Contiguous(works, from)
  PROVE  /\ \A i, j \in 1..Len(works) : i < j => works[i].hi < works[j].lo
         /\ \A i \in 1..Len(works) : from < works[i].lo /\ works[i].hi <= EndOf(works, from)
         /\ EndOf(works, from) \in Nat /\ from <= EndOf(works, from)
<1> DEFINE S == {k \in 0..Len(works) :
                   \A j \in 1..k : /\ from < works[j].lo
                                   /\ \A i \in 1..k : i < j => works[i].hi < works[j].lo}
<1>1. Len(works) \in Nat
  BY WorkFacts
<1>2. 0 \in S
  BY <1>1
<1>3. ASSUME NEW k \in 0..(Len(works) - 1), k \in S
      PROVE  k + 1 \in S
  <2>1. /\ \A j \in 1..k : /\ from < works[j].lo
                           /\ \A i \in 1..k : i < j => works[i].hi < works[j].lo
        /\ k \in Nat /\ k + 1 \in 1..Len(works) /\ 1..(k+1) = 1..k \cup {k+1}
    BY <1>1, <1>3
  <2>2. \A i \in 1..(k+1) : works[i].lo \in Nat /\ works[i].hi \in Nat /\ works[i].lo <= works[i].hi
    BY <1>1, <2>1, WorkFacts
  <2>3. works[k+1].lo = (IF k + 1 = 1 THEN from ELSE works[k+1-1].hi) + 1
    BY <2>1, WorkFacts DEF Contiguous
  <2>4. CASE k = 0
    BY <1>1, <2>1, <2>2, <2>3, <2>4
  <2>5. CASE k # 0
    <3>1. works[k+1].lo = works[k].hi + 1 /\ k \in 1..k
      BY <2>1, <2>3, <2>5
    <3>2. from < works[k+1].lo
      BY <2>1, <2>2, <3>1
    <3>3. ASSUME NEW i \in 1..k
          PROVE  works[i].hi < works[k+1].lo
      <4>1. i = k \/ works[i].hi < works[k].lo
        BY <2>1, <3>1
      <4> QED  BY <2>1, <2>2, <3>1, <4>1
    <3> QED  BY <1>1, <2>1, <3>2, <3>3
  <2> QED  BY <2>4, <2>5
<1>4. 0..Len(works) \subseteq S
  <2> HIDE DEF S
  <2> QED  BY <1>1, <1>2, <1>3, UpToInduction
<1>5. Len(works) \in S
  <2> HIDE DEF S
  <2> QED  BY <1>1, <1>4
<1>6. \A j \in 1..Len(works) : /\ from < works[j].lo
                               /\ \A i \in 1..Len(works) : i < j => works[i].hi < works[j].lo
  BY <1>5
<1>7. CASE works = <<>>
  BY <1>1, <1>6, <1>7, WorkFacts DEF EndOf
<1>8. CASE works # <<>>
  <2>1. Len(works) \in 1..Len(works) /\ EndOf(works, from) = works[Len(works)].hi
    BY <1>1, <1>8, WorkFacts DEF EndOf
  <2>2. \A i \in 1..Len(works) : works[i].hi <= EndOf(works, from)
    <3> TAKE i \in 1..Len(works)
    <3>1. i = Len(works) \/ works[i].hi < works[Len(works)].lo
      BY <1>1, <1>6, <2>1
    <3> QED  BY <2>1, <3>1, WorkFacts
  <2> QED  BY <1>6, <2>1, <2>2, WorkFacts
<1> QED
  BY <1>7, <1>8

\* No position between is left out.
LEMMA ContiguousCovers ==
  ASSUME NEW works \in Seq(Work), NEW from \in Nat, Contiguous(works, from),
         NEW n \in 1..Len(works), NEW u \in (from + 1)..works[n].hi
  PROVE  \E i \in 1..n : u \in works[i].lo..works[i].hi
<1> DEFINE S == {k \in 0..n : k # 0 /\ u <= works[k].hi =>
                                \E i \in 1..k : u \in works[i].lo..works[i].hi}
<1>1. Len(works) \in Nat /\ n \in Nat /\ works[n].hi \in Nat
  BY WorkFacts
<1>2. 0 \in S /\ u \in Nat /\ from < u
  BY <1>1
<1>3. ASSUME NEW k \in 0..(n - 1), k \in S
      PROVE  k + 1 \in S
  <2> SUFFICES ASSUME u <= works[k+1].hi PROVE \E i \in 1..(k+1) : u \in works[i].lo..works[i].hi
    BY <1>1
  <2>1. k + 1 \in 1..Len(works) /\ k \in Nat /\ (k # 0 => k \in 1..Len(works))
    BY <1>1
  <2>2. works[k+1].lo \in Nat /\ works[k+1].hi \in Nat /\ (k # 0 => works[k].hi \in Nat)
    BY <2>1, WorkFacts
  <2>3. works[k+1].lo = (IF k + 1 = 1 THEN from ELSE works[k+1-1].hi) + 1
    <3> HIDE DEF S
    <3>1. k + 1 \in DOMAIN works
      BY <2>1, WorkFacts
    <3> QED  BY <3>1 DEF Contiguous
  <2>4. CASE u >= works[k+1].lo
    BY <1>2, <2>1, <2>2, <2>4
  <2>5. CASE u < works[k+1].lo
    <3>1. k # 0 /\ works[k+1].lo = works[k].hi + 1
      BY <1>2, <2>1, <2>3, <2>5
    <3>2. u <= works[k].hi
      BY <1>2, <2>2, <2>5, <3>1
    <3>3. PICK i \in 1..k : u \in works[i].lo..works[i].hi
      BY <1>3, <3>1, <3>2
    <3> QED  BY <2>1, <3>3
  <2> QED  BY <1>2, <2>2, <2>4, <2>5
<1>4. 0..n \subseteq S
  <2> HIDE DEF S
  <2> QED  BY <1>1, <1>2, <1>3, UpToInduction
<1>5. n \in S
  <2> HIDE DEF S
  <2> QED  BY <1>1, <1>4
<1> QED
  BY <1>1, <1>5

LEMMA ContiguousConcat ==
  ASSUME NEW works \in Seq(Work), NEW more \in Seq(Work), NEW from \in Nat,
         Contiguous(works, from), Contiguous(more, EndOf(works, from))
  PROVE  /\ Contiguous(works \o more, from)
         /\ EndOf(works \o more, from) = EndOf(more, EndOf(works, from))
<1> DEFINE m == Len(works)
           n == Len(more)
           both == works \o more
<1>1. /\ both \in Seq(Work) /\ Len(both) = m + n
      /\ \A i \in 1..(m + n) : both[i] = IF i <= m THEN works[i] ELSE more[i - m]
      /\ DOMAIN both = 1..(m + n) /\ (both # <<>> <=> 0 < m + n)
  BY ConcatProperties, WorkFacts
<1>2. /\ m \in Nat /\ n \in Nat /\ (works # <<>> <=> 0 < m) /\ (more # <<>> <=> 0 < n)
      /\ DOMAIN works = 1..m /\ DOMAIN more = 1..n
  BY WorkFacts
<1> HIDE DEF m, n, both
<1>3. ASSUME NEW i \in 1..(m + n)
      PROVE  both[i].lo = (IF i = 1 THEN from ELSE both[i-1].hi) + 1
  <2>1. CASE i <= m
    <3>1. i \in 1..m /\ both[i] = works[i] /\ (i # 1 => i - 1 \in 1..(m + n) /\ i - 1 <= m)
      BY <1>1, <1>2, <2>1
    <3>2. i # 1 => both[i-1] = works[i-1]
      BY <1>1, <3>1
    <3> QED  BY <1>2, <3>1, <3>2 DEF Contiguous
  <2>2. CASE i = m + 1
    <3>1. 1 \in 1..n /\ both[i] = more[1] /\ more[1].lo = EndOf(works, from) + 1
      BY <1>1, <1>2, <2>2 DEF Contiguous
    <3>2. i # 1 => i - 1 = m /\ m \in 1..(m + n) /\ works # <<>>
      BY <1>2, <2>2
    <3>3. i # 1 => both[i-1] = works[m] /\ EndOf(works, from) = works[m].hi
      BY <1>1, <3>2 DEF EndOf, m
    <3>4. i = 1 => works = <<>> /\ EndOf(works, from) = from
      BY <1>2, <2>2 DEF EndOf
    <3> QED  BY <3>1, <3>3, <3>4
  <2>3. CASE i > m + 1
    <3>1. /\ i - m \in 1..n /\ i - m # 1 /\ ~(i <= m) /\ i # 1
          /\ i - 1 \in 1..(m + n) /\ ~(i - 1 <= m) /\ (i - 1) - m = (i - m) - 1
      BY <1>2, <2>3
    <3>2. both[i] = more[i - m] /\ both[i-1] = more[(i - m) - 1]
      BY <1>1, <3>1
    <3>3. more[i - m].lo = more[(i - m) - 1].hi + 1
      BY <1>2, <3>1 DEF Contiguous
    <3> QED  BY <3>1, <3>2, <3>3
  <2> QED  BY <1>2, <2>1, <2>2, <2>3
<1>4. Contiguous(both, from)
  BY <1>1, <1>3 DEF Contiguous
<1>5. EndOf(both, from) = EndOf(more, EndOf(works, from))
  <2>1. CASE n = 0
    <3>1. /\ more = <<>> /\ m + n = m /\ (0 < m => both[m] = works[m])
          /\ (both = <<>> <=> works = <<>>)
      BY <1>1, <1>2, <2>1
    <3> QED  BY <1>1, <1>2, <3>1 DEF EndOf, m
  <2>2. CASE n # 0
    <3>1. more # <<>> /\ both # <<>> /\ m + n \in 1..(m + n) /\ ~(m + n <= m) /\ (m + n) - m = n
      BY <1>1, <1>2, <2>2
    <3>2. both[m + n] = more[n]
      BY <1>1, <3>1
    <3> QED  BY <1>1, <3>1, <3>2 DEF EndOf, n
  <2> QED  BY <2>1, <2>2
<1> QED
  BY <1>4, <1>5 DEF both

\* What is left when the first n have been taken.
LEMMA ContiguousSuffix ==
  ASSUME NEW works \in Seq(Work), NEW from \in Nat, Contiguous(works, from),
         NEW n \in 1..Len(works)
  PROVE  LET rest == SubSeq(works, n + 1, Len(works)) IN
         /\ rest \in Seq(Work) /\ Contiguous(rest, works[n].hi)
         /\ EndOf(rest, works[n].hi) = EndOf(works, from)
<1> DEFINE rest == SubSeq(works, n + 1, Len(works))
           m == Len(works) - n
<1>1. Len(works) \in Nat /\ n \in Nat /\ m \in Nat /\ works # <<>>
      /\ DOMAIN works = 1..Len(works) /\ \A i \in 1..Len(works) : works[i] \in Work
  BY WorkFacts
<1>2. rest \in Seq(Work) /\ Len(rest) = m /\ \A i \in 1..m : rest[i] = works[n + i]
  <2>1. /\ rest \in Seq(Work)
        /\ Len(rest) = IF n + 1 <= Len(works) THEN Len(works) - (n + 1) + 1 ELSE 0
        /\ \A i \in 1..(Len(works) - (n + 1) + 1) : rest[i] = works[(n + 1) + i - 1]
    BY <1>1, SubSeqProperties
  <2>2. Len(works) - (n + 1) + 1 = m
    BY <1>1
  <2>3. Len(rest) = m
    <3> DEFINE k == Len(works)
    <3>1. k \in Nat /\ n \in Nat /\ n <= k
      BY <1>1
    <3>2. Len(rest) = IF n + 1 <= k THEN k - (n + 1) + 1 ELSE 0
      BY <2>1
    <3> HIDE DEF rest, k
    <3>3. Len(rest) = k - n
      BY <3>1, <3>2
    <3> QED  BY <3>3 DEF k
  <2>4. \A i \in 1..m : (n + 1) + i - 1 = n + i
    <3> HIDE DEF m
    <3> QED  BY <1>1
  <2> QED  BY <2>1, <2>2, <2>3, <2>4
<1>3. DOMAIN rest = 1..m /\ (rest # <<>> <=> 0 < m)
  BY <1>2, WorkFacts
<1> HIDE DEF rest
<1>4. ASSUME NEW i \in 1..m
      PROVE  rest[i].lo = (IF i = 1 THEN works[n].hi ELSE rest[i-1].hi) + 1
  <2>1. n + i \in 1..Len(works) /\ n + i # 1 /\ (n + i) - 1 = n + (i - 1)
    BY <1>1
  <2>2. works[n + i].lo = works[n + (i - 1)].hi + 1
    BY <1>1, <2>1 DEF Contiguous
  <2>3. i # 1 => i - 1 \in 1..m /\ rest[i-1] = works[n + (i - 1)]
    BY <1>1, <1>2
  <2>4. i = 1 => n + (i - 1) = n
    BY <1>1
  <2> QED  BY <1>2, <2>2, <2>3, <2>4
<1>5. Contiguous(rest, works[n].hi)
  BY <1>3, <1>4 DEF Contiguous
<1>6. EndOf(rest, works[n].hi) = EndOf(works, from)
  <2>1. CASE m = 0
    BY <1>1, <1>3, <2>1 DEF EndOf
  <2>2. CASE m # 0
    <3>1. n + m = Len(works)
      BY <1>1
    <3>3. m \in 1..m /\ 0 < m
      <4> HIDE DEF m
      <4> QED  BY <1>1, <2>2
    <3>2. rest # <<>> /\ rest[m] = works[n + m]
      BY <1>2, <1>3, <3>3
    <3> QED  BY <1>1, <1>2, <3>1, <3>2 DEF EndOf
  <2> QED  BY <2>1, <2>2
<1> QED
  BY <1>2, <1>5, <1>6 DEF rest
\* What is left when the first has been taken.
LEMMA ContiguousTail ==
  ASSUME NEW works \in Seq(Work), NEW from \in Nat, Contiguous(works, from), works # <<>>
  PROVE  /\ Head(works) \in Work /\ Head(works) = works[1] /\ Head(works).lo = from + 1
         /\ Tail(works) \in Seq(Work) /\ Contiguous(Tail(works), Head(works).hi)
         /\ EndOf(Tail(works), Head(works).hi) = EndOf(works, from)
<1>1. Head(works) \in Work /\ Head(works) = works[1] /\ Tail(works) = SubSeq(works, 2, Len(works))
  BY HeadTailProperties, TailIsSubSeq
<1>2. 1 \in 1..Len(works) /\ 1 + 1 = 2 /\ DOMAIN works = 1..Len(works)
  BY WorkFacts
<1>3. works[1].lo = from + 1
  BY <1>2 DEF Contiguous
<1>4. LET rest == SubSeq(works, 1 + 1, Len(works)) IN
        /\ rest \in Seq(Work) /\ Contiguous(rest, works[1].hi)
        /\ EndOf(rest, works[1].hi) = EndOf(works, from)
  BY <1>2, ContiguousSuffix
<1> QED
  BY <1>1, <1>2, <1>3, <1>4

\* Putting other works in front of what is left of the queue.
LEMMA ContiguousRequeue ==
  ASSUME NEW works \in Seq(Work), NEW from \in Nat, Contiguous(works, from), works # <<>>,
         NEW front \in Seq(Work), NEW start \in Nat,
         Contiguous(front, start), EndOf(front, start) = Head(works).hi
  PROVE  /\ front \o Tail(works) \in Seq(Work) /\ Contiguous(front \o Tail(works), start)
         /\ EndOf(front \o Tail(works), start) = EndOf(works, from)
<1>1. /\ Tail(works) \in Seq(Work) /\ Contiguous(Tail(works), Head(works).hi)
      /\ EndOf(Tail(works), Head(works).hi) = EndOf(works, from)
  BY ContiguousTail
<1>2. front \o Tail(works) \in Seq(Work)
  BY <1>1, ConcatProperties
<1>3. Contiguous(Tail(works), EndOf(front, start))
  BY <1>1
<1>4. /\ Contiguous(front \o Tail(works), start)
      /\ EndOf(front \o Tail(works), start) = EndOf(Tail(works), EndOf(front, start))
  BY <1>1, <1>3, ContiguousConcat
<1> QED
  BY <1>1, <1>2, <1>4

LEMMA ContiguousEmpty ==
  ASSUME NEW from
  PROVE  <<>> \in Seq(Work) /\ Contiguous(<<>>, from) /\ EndOf(<<>>, from) = from
<1>1. <<>> \in Seq(Work) /\ DOMAIN <<>> = {}
  BY EmptySeq
<1> QED
  BY <1>1 DEF Contiguous, EndOf

LEMMA ContiguousSingle ==
  ASSUME NEW w \in Work
  PROVE  <<w>> \in Seq(Work) /\ EndOf(<<w>>, w.lo - 1) = w.hi
         /\ \A from \in Nat : w.lo = from + 1 => Contiguous(<<w>>, from) /\ EndOf(<<w>>, from) = w.hi
<1>1. <<w>> \in Seq(Work) /\ Len(<<w>>) = 1 /\ <<w>>[1] = w /\ DOMAIN <<w>> = {1} /\ <<w>> # <<>>
  OBVIOUS
<1> QED
  BY <1>1 DEF Contiguous, EndOf

-----------------------------------------------------------------------------
(* The input.                                                               *)

LEMMA InputFacts ==
  ASSUME TypeOK, InputInv
  PROVE  /\ taken \in Nat /\ sent \in Nat /\ EndOf(queue, taken) \in Nat
         /\ taken <= EndOf(queue, taken) /\ EndOf(queue, taken) <= sent
<1>1. PICK ends : ChannelEnds(ends, chan, EndOf(queue, taken), sent)
  BY DEF InputInv
<1>2. Len(chan) \in Nat /\ sent \in Nat /\ taken \in Nat /\ queue \in Seq(Work)
  BY LenProperties DEF TypeOK
<1>3. EndOf(queue, taken) = ends[0] /\ ends[0] \in 0..sent
  BY <1>1, <1>2 DEF ChannelEnds
<1>4. taken <= EndOf(queue, taken)
  BY <1>2, ContiguousOrder DEF InputInv
<1> QED
  BY <1>2, <1>3, <1>4

\* A message handed over goes on where the last one ended.
LEMMA HandOffInput ==
  ASSUME TypeOK, InputInv, NEW msg, NEW last \in Nat, HandOff(msg, last), sent <= last,
         Contiguous(Queued(msg), sent), EndOf(Queued(msg), sent) = last
  PROVE  InputInv'
<1>1. PICK ends : ChannelEnds(ends, chan, EndOf(queue, taken), sent)
  BY DEF InputInv
<1> DEFINE n == Len(chan)
           more == [i \in 0..(n + 1) |-> IF i <= n THEN ends[i] ELSE last]
<1>2. /\ n \in Nat /\ sent \in Nat /\ chan' = Append(chan, msg) /\ sent' = last
      /\ queue' = queue /\ taken' = taken /\ chan \in Seq(DispatchMsg)
  BY LenProperties DEF TypeOK, HandOff, queueVars
<1>3. Len(chan') = n + 1 /\ chan'[n + 1] = msg /\ \A i \in 1..n : chan'[i] = chan[i]
  BY <1>2, AppendProperties
<1>4. more \in [0..Len(chan') -> 0..sent']
  <2>1. ASSUME NEW i \in 0..(n + 1) PROVE (IF i <= n THEN ends[i] ELSE last) \in 0..last
    <3>0. ends \in [0..n -> 0..sent]
      BY <1>1 DEF ChannelEnds
    <3> HIDE DEF n
    <3>1. i <= n => ends[i] \in 0..sent
      BY <1>2, <3>0
    <3> QED  BY <1>2, <3>1
  <2> QED  BY <1>2, <1>3, <2>1
<1>5. more[0] = ends[0] /\ more[n + 1] = last /\ \A i \in 0..n : more[i] = ends[i]
  BY <1>2
<1>6. /\ ends \in [0..n -> 0..sent] /\ ends[0] = EndOf(queue, taken) /\ ends[n] = sent
      /\ \A i \in 1..n : /\ Contiguous(Queued(chan[i]), ends[i-1])
                         /\ ends[i] = EndOf(Queued(chan[i]), ends[i-1])
  BY <1>1 DEF ChannelEnds
<1> HIDE DEF more, n
<1>7. ASSUME NEW i \in 1..(n + 1)
      PROVE  /\ Contiguous(Queued(chan'[i]), more[i-1])
             /\ more[i] = EndOf(Queued(chan'[i]), more[i-1])
  <2>1. CASE i = n + 1
    <3>1. more[i-1] = sent
      BY <1>2, <1>5, <1>6, <2>1
    <3> QED  BY <1>3, <1>5, <2>1, <3>1
  <2>2. CASE i # n + 1
    <3>1. i \in 1..n /\ i - 1 \in 0..n /\ i \in 0..n
      BY <1>2, <2>2
    <3> QED  BY <1>3, <1>5, <1>6, <3>1
  <2> QED  BY <2>1, <2>2
<1>8. ChannelEnds(more, chan', EndOf(queue', taken'), sent')
  BY <1>2, <1>3, <1>4, <1>5, <1>6, <1>7 DEF ChannelEnds
<1> QED
  BY <1>2, <1>8 DEF InputInv

LEMMA IngestInput ==
  ASSUME TypeOK, InputInv, Ingest
  PROVE  /\ InputInv' /\ EndOf(queue', taken') \in EndOf(queue, taken)..sent
         /\ taken' = taken /\ sent' = sent
<1>1. PICK ends : ChannelEnds(ends, chan, EndOf(queue, taken), sent)
  BY DEF InputInv
<1> DEFINE n == Len(chan)
           more == [i \in 0..(n - 1) |-> ends[i + 1]]
           works == Queued(chan[1])
<1>2. /\ n \in Nat /\ n # 0 /\ sent \in Nat /\ taken \in Nat /\ chan \in Seq(DispatchMsg)
      /\ queue' = queue \o works /\ chan' = Tail(chan) /\ taken' = taken /\ sent' = sent
      /\ queue \in Seq(Work) /\ chan[1] \in DispatchMsg
  BY LenProperties, EmptySeq, HeadTailProperties DEF TypeOK, Ingest
<1>3. Len(chan') = n - 1 /\ \A i \in 1..(n - 1) : chan'[i] = chan[i + 1]
  BY <1>2, HeadTailProperties
<1>4. works \in Seq(Work)
  BY <1>2, ConcatProperties DEF DispatchMsg, Queued
<1>5. /\ ends \in [0..n -> 0..sent] /\ ends[0] = EndOf(queue, taken) /\ ends[n] = sent
      /\ \A i \in 1..n : /\ Contiguous(Queued(chan[i]), ends[i-1])
                         /\ ends[i] = EndOf(Queued(chan[i]), ends[i-1])
  BY <1>1 DEF ChannelEnds
<1>6. Contiguous(works, EndOf(queue, taken)) /\ ends[1] = EndOf(works, EndOf(queue, taken))
  <2>1. 1 \in 1..n /\ 1 - 1 = 0
    BY <1>2
  <2> QED  BY <1>5, <2>1
<1>7. /\ Contiguous(queue', taken') /\ EndOf(queue', taken') = ends[1]
  BY <1>2, <1>4, <1>6, ContiguousConcat DEF InputInv
<1>8. more \in [0..Len(chan') -> 0..sent']
  <2>1. \A i \in 0..(n - 1) : ends[i + 1] \in 0..sent
    BY <1>2, <1>5
  <2> QED  BY <1>2, <1>3, <2>1
<1>9. \A i \in 0..(n - 1) : more[i] = ends[i + 1]
  BY <1>2
<1> HIDE DEF more, n, works
<1>10. more[0] = ends[1] /\ more[n - 1] = sent
  BY <1>2, <1>5, <1>9
<1>11. ASSUME NEW i \in 1..(n - 1)
       PROVE  /\ Contiguous(Queued(chan'[i]), more[i-1])
              /\ more[i] = EndOf(Queued(chan'[i]), more[i-1])
  <2>1. i + 1 \in 1..n /\ i \in 0..(n - 1) /\ i - 1 \in 0..(n - 1) /\ (i + 1) - 1 = i /\ (i - 1) + 1 = i
    BY <1>2
  <2> QED  BY <1>3, <1>5, <1>9, <2>1
<1>12. ChannelEnds(more, chan', EndOf(queue', taken'), sent')
  BY <1>2, <1>3, <1>7, <1>8, <1>10, <1>11 DEF ChannelEnds
<1>13. InputInv'
  BY <1>2, <1>7, <1>12 DEF InputInv
<1>14. ends[1] \in EndOf(queue, taken)..sent
  <2>1. EndOf(queue, taken) \in Nat
    BY InputFacts
  <2>2. EndOf(queue, taken) <= ends[1]
    BY <1>4, <1>6, <2>1, ContiguousOrder
  <2>3. ends[1] \in 0..sent
    BY <1>2, <1>5
  <2> QED  BY <1>2, <2>1, <2>2, <2>3
<1> QED
  BY <1>2, <1>7, <1>13, <1>14

\* Taking units off the queue leaves the messages of the channel where they are.
LEMMA TakenInput ==
  ASSUME TypeOK, InputInv, UNCHANGED <<chan, sent>>,
         Contiguous(queue', taken'), EndOf(queue', taken') = EndOf(queue, taken)
  PROVE  InputInv'
<1>1. PICK ends : ChannelEnds(ends, chan, EndOf(queue, taken), sent)
  BY DEF InputInv
<1> QED
  BY <1>1 DEF InputInv
\* The rows of a frame follow what was handed over before.
LEMMA RowsContiguous ==
  ASSUME TypeOK, NEW ends \in RowEnds
  PROVE  /\ Rows(ends) \in Seq(Work) /\ Contiguous(Rows(ends), sent)
         /\ EndOf(Rows(ends), sent) = RowsEnd(ends) /\ RowsEnd(ends) \in Nat
         /\ sent <= RowsEnd(ends)
<1>1. Rows(ends) \in Seq(Work) /\ RowsEnd(ends) \in Nat /\ sent \in Nat
  BY RowsType DEF TypeOK
<1>2. PICK n \in 0..MaxRows : ends \in [1..n -> (sent + 1)..MaxSent]
  BY DEF RowEnds
<1>3. n \in Nat /\ ends \in Seq((sent + 1)..MaxSent) /\ Len(ends) = n
  BY <1>1, <1>2, BoundAssumption, SeqOfElements
<1>4. /\ Rows(ends) = [i \in 1..n |-> [type |-> "row", lo |-> RowStart(ends, i), hi |-> ends[i]]]
      /\ Len(Rows(ends)) = n /\ DOMAIN Rows(ends) = 1..n
  BY <1>1, <1>3, WorkFacts DEF Rows
<1>5. ASSUME NEW i \in 1..n
      PROVE  Rows(ends)[i].lo = (IF i = 1 THEN sent ELSE Rows(ends)[i-1].hi) + 1
  <2>1. Rows(ends)[i].lo = RowStart(ends, i)
    BY <1>4
  <2>2. i # 1 => i - 1 \in 1..n
    BY <1>3
  <2>3. i # 1 => Rows(ends)[i-1].hi = ends[i-1]
    BY <1>4, <2>2
  <2> QED  BY <2>1, <2>3 DEF RowStart
<1>6. Contiguous(Rows(ends), sent)
  BY <1>4, <1>5 DEF Contiguous
<1>7. EndOf(Rows(ends), sent) = RowsEnd(ends)
  <2>1. CASE n = 0
    <3>1. ends = <<>> /\ Rows(ends) = <<>>
      BY <1>1, <1>3, <1>4, <2>1, EmptySeq, WorkFacts
    <3> QED  BY <3>1 DEF EndOf, RowsEnd
  <2>2. CASE n # 0
    <3>1. ends # <<>> /\ Rows(ends) # <<>> /\ n \in 1..n
      BY <1>1, <1>3, <1>4, <2>2, EmptySeq
    <3>2. Rows(ends)[n].hi = ends[n]
      BY <1>4, <3>1
    <3> QED  BY <1>3, <1>4, <3>1, <3>2 DEF EndOf, RowsEnd
  <2> QED  BY <2>1, <2>2
<1>8. sent <= RowsEnd(ends)
  BY <1>1, <1>6, <1>7, ContiguousOrder
<1> QED
  BY <1>1, <1>6, <1>7, <1>8

LEMMA StreamContiguous ==
  ASSUME NEW from \in Nat, NEW pages \in Nat \ {0}
  PROVE  /\ Contiguous(<<Stream(from, pages)>>, from)
         /\ EndOf(<<Stream(from, pages)>>, from) = from + pages
<1>1. Stream(from, pages) \in Work /\ Stream(from, pages).lo = from + 1
      /\ Stream(from, pages).hi = from + pages
  BY StreamType DEF Stream
<1> QED
  BY <1>1, ContiguousSingle

\* Every step of the handle but Shutdown hands over a message that goes on
\* where the last one ended.
LEMMA SessionHandsOff ==
  ASSUME TypeOK, Session, ~Shutdown
  PROVE  \E msg \in DispatchMsg, last \in Nat :
           /\ HandOff(msg, last) /\ sent <= last
           /\ Contiguous(Queued(msg), sent) /\ EndOf(Queued(msg), sent) = last
<1>0. sent \in Nat /\ <<>> \in Seq(Work) /\ NoText \in Texts \cup {NoText}
  BY DEF TypeOK
<1>1. ASSUME NEW rows \in Seq(Work), NEW live \in Texts \cup {NoText}, NEW chunk \in Seq(Work),
             NEW mid \in Nat, NEW last \in Nat,
             Contiguous(rows, sent), EndOf(rows, sent) = mid,
             Contiguous(chunk, mid), EndOf(chunk, mid) = last,
             HandOff([rows |-> rows, live |-> live, chunk |-> chunk], last)
      PROVE  \E msg \in DispatchMsg, end \in Nat :
               /\ HandOff(msg, end) /\ sent <= end
               /\ Contiguous(Queued(msg), sent) /\ EndOf(Queued(msg), sent) = end
  <2> DEFINE msg == [rows |-> rows, live |-> live, chunk |-> chunk]
  <2>1. msg \in DispatchMsg /\ Queued(msg) = rows \o chunk
    BY DEF DispatchMsg, Queued
  <2>2. rows \o chunk \in Seq(Work)
    BY ConcatProperties
  <2>3. Contiguous(rows \o chunk, sent) /\ EndOf(rows \o chunk, sent) = last
    BY <1>0, <1>1, ContiguousConcat
  <2>4. sent <= last
    BY <1>0, <2>2, <2>3, ContiguousOrder
  <2> HIDE DEF msg
  <2> QED  BY <1>1, <2>1, <2>3, <2>4 DEF msg
<1>2. ASSUME TrySendFrame
      PROVE  \E msg \in DispatchMsg, last \in Nat :
               /\ HandOff(msg, last) /\ sent <= last
               /\ Contiguous(Queued(msg), sent) /\ EndOf(Queued(msg), sent) = last
  <2>1. PICK ends \in RowEnds :
           \/ \E live \in Texts \cup {NoText} :
                HandOff([rows |-> Rows(ends), live |-> live, chunk |-> <<>>], RowsEnd(ends))
           \/ \E pages \in PageCounts :
                HandOff([rows |-> Rows(ends), live |-> NoText,
                         chunk |-> <<Stream(RowsEnd(ends), pages)>>], RowsEnd(ends) + pages)
    BY <1>2 DEF TrySendFrame
  <2>2. /\ Rows(ends) \in Seq(Work) /\ Contiguous(Rows(ends), sent)
        /\ EndOf(Rows(ends), sent) = RowsEnd(ends) /\ RowsEnd(ends) \in Nat
    BY RowsContiguous
  <2>3. ASSUME NEW live \in Texts \cup {NoText},
               HandOff([rows |-> Rows(ends), live |-> live, chunk |-> <<>>], RowsEnd(ends))
        PROVE  \E msg \in DispatchMsg, last \in Nat :
                 /\ HandOff(msg, last) /\ sent <= last
                 /\ Contiguous(Queued(msg), sent) /\ EndOf(Queued(msg), sent) = last
    <3>1. Contiguous(<<>>, RowsEnd(ends)) /\ EndOf(<<>>, RowsEnd(ends)) = RowsEnd(ends)
      BY ContiguousEmpty
    <3> QED  BY <1>0, <1>1, <2>2, <2>3, <3>1
  <2>4. ASSUME NEW pages \in PageCounts,
               HandOff([rows |-> Rows(ends), live |-> NoText,
                        chunk |-> <<Stream(RowsEnd(ends), pages)>>], RowsEnd(ends) + pages)
        PROVE  \E msg \in DispatchMsg, last \in Nat :
                 /\ HandOff(msg, last) /\ sent <= last
                 /\ Contiguous(Queued(msg), sent) /\ EndOf(Queued(msg), sent) = last
    <3>1. pages \in Nat \ {0}
      BY BoundAssumption
    <3>2. /\ Contiguous(<<Stream(RowsEnd(ends), pages)>>, RowsEnd(ends))
          /\ EndOf(<<Stream(RowsEnd(ends), pages)>>, RowsEnd(ends)) = RowsEnd(ends) + pages
          /\ <<Stream(RowsEnd(ends), pages)>> \in Seq(Work) /\ RowsEnd(ends) + pages \in Nat
      BY <2>2, <3>1, StreamContiguous, StreamType
    <3> QED  BY <1>0, <1>1, <2>2, <2>4, <3>2
  <2> QED  BY <2>1, <2>3, <2>4
<1>3. ASSUME Say
      PROVE  \E msg \in DispatchMsg, last \in Nat :
               /\ HandOff(msg, last) /\ sent <= last
               /\ Contiguous(Queued(msg), sent) /\ EndOf(Queued(msg), sent) = last
  <2>1. PICK pages \in PageCounts :
          HandOff([rows |-> <<>>, live |-> NoText, chunk |-> <<Stream(sent, pages)>>], sent + pages)
    BY <1>3 DEF Say
  <2>2. pages \in Nat \ {0}
    BY BoundAssumption
  <2>3. /\ Contiguous(<<Stream(sent, pages)>>, sent)
        /\ EndOf(<<Stream(sent, pages)>>, sent) = sent + pages
        /\ <<Stream(sent, pages)>> \in Seq(Work) /\ sent + pages \in Nat
    BY <1>0, <2>2, StreamContiguous, StreamType
  <2>4. Contiguous(<<>>, sent) /\ EndOf(<<>>, sent) = sent
    BY ContiguousEmpty
  <2> QED  BY <1>0, <1>1, <2>1, <2>3, <2>4
<1>4. ASSUME Anchor
      PROVE  \E msg \in DispatchMsg, last \in Nat :
               /\ HandOff(msg, last) /\ sent <= last
               /\ Contiguous(Queued(msg), sent) /\ EndOf(Queued(msg), sent) = last
  <2> DEFINE w == [type |-> "anchor", lo |-> sent + 1, hi |-> sent + 1]
  <2>1. w \in Work /\ w.lo = sent + 1 /\ w.hi = sent + 1 /\ sent + 1 \in Nat
    BY <1>0 DEF Work
  <2>2. HandOff([rows |-> <<>>, live |-> NoText, chunk |-> <<w>>], sent + 1)
    BY <1>4 DEF Anchor
  <2>3. Contiguous(<<>>, sent) /\ EndOf(<<>>, sent) = sent
    BY ContiguousEmpty
  <2> HIDE DEF w
  <2>4. <<w>> \in Seq(Work) /\ Contiguous(<<w>>, sent) /\ EndOf(<<w>>, sent) = sent + 1
    BY <1>0, <2>1, ContiguousSingle
  <2> QED  BY <1>0, <1>1, <2>1, <2>2, <2>3, <2>4
<1> QED
  BY <1>2, <1>3, <1>4 DEF Session
LEMMA SessionInput ==
  ASSUME TypeOK, InputInv, Session
  PROVE  InputInv' /\ sent <= sent' /\ UNCHANGED <<queueVars, liveVars, sinkVars, latestLive, active, call, stopped>>
<1>1. CASE Shutdown
  <2>1. UNCHANGED <<chan, sent, queueVars>>
    BY <1>1 DEF Shutdown
  <2>2. InputInv'
    BY <2>1 DEF InputInv, queueVars
  <2>3. sent <= sent'
    BY <2>1 DEF TypeOK
  <2> QED  BY <1>1, <2>2, <2>3 DEF Shutdown
<1>2. CASE ~Shutdown
  <2>1. PICK msg \in DispatchMsg, last \in Nat :
          /\ HandOff(msg, last) /\ sent <= last
          /\ Contiguous(Queued(msg), sent) /\ EndOf(Queued(msg), sent) = last
    BY <1>2, SessionHandsOff
  <2>2. InputInv'
    BY <2>1, HandOffInput
  <2> QED  BY <2>1, <2>2 DEF HandOff
<1> QED
  BY <1>1, <1>2

-----------------------------------------------------------------------------
(* Batches.                                                                 *)

\* What the units taken off the queue in one step make: rows that follow all
\* that was taken before, with nothing left out, and fit a fresh message.
NewBatch(batch) ==
  /\ batch \in Seq(Span) /\ batch # <<>> /\ Ordered(batch)
  /\ \A i \in DOMAIN batch : taken < batch[i].lo /\ batch[i].hi <= taken'
  /\ Units(batch) = (taken + 1)..taken'
  /\ BodySize(Scroll(batch)) <= Limit

\* What is left of the queue goes on where the units taken end.
Takes ==
  /\ Contiguous(queue', taken') /\ EndOf(queue', taken') = EndOf(queue, taken)
  /\ taken' \in Nat /\ taken <= taken'

Flush(batch) ==
  /\ NewBatch(batch) /\ IngestScrollBatch(batch)
  /\ active.id # 0 => BodySize(Extension(batch)) <= Limit
  /\ Idle /\ Takes /\ UNCHANGED <<handleVars, anchors, lastLive, sinkVars, latestLive, stopped>>

LEMMA SizeFacts ==
  ASSUME NEW rows \in Seq(Span)
  PROVE  BodySize(Scroll(rows)) = FreshOverhead + Measure(rows) /\ Measure(rows) \in Nat
BY MeasureType DEF BodySize, Scroll

\* A batch that fits the room Available computes makes no message too long.
LEMMA AvailableFits ==
  ASSUME TypeOK, active.id # 0 => BodySize(active.body) <= Limit,
         NEW batch \in Seq(Span), Measure(batch) <= Available
  PROVE  /\ BodySize(Scroll(batch)) <= Limit
         /\ active.id # 0 => BodySize(Extension(batch)) <= Limit
<1> DEFINE old == active.body.rows
<1>1. active.body \in Body /\ old \in Seq(Span) /\ Limit \in Nat /\ FreshOverhead \in Nat
      /\ FreshOverhead < Limit
  BY SizeAssumption DEF TypeOK, Body
<1>2. Measure(old) \in Nat /\ Measure(batch) \in Nat
  BY <1>1, MeasureType
<1>3. BodySize(active.body) = FreshOverhead + Measure(old)
      /\ BodySize(Scroll(batch)) = FreshOverhead + Measure(batch)
  BY SizeFacts DEF BodySize
<1>4. BodySize(Extension(batch)) = FreshOverhead + (Measure(old) + Measure(batch))
  <2>1. Extension(batch).rows = old \o batch
    BY <1>1 DEF Extension, Body
  <2> HIDE DEF old
  <2> QED  BY <1>1, <2>1, MeasureConcat DEF BodySize
<1> HIDE DEF old
<1>5. CASE active.id = 0
  BY <1>1, <1>2, <1>3, <1>5 DEF Available
<1>6. CASE active.id # 0
  <2>1. Available = Limit - (FreshOverhead + Measure(old))
    BY <1>1, <1>2, <1>3, <1>6 DEF Available, Monus
  <2> QED  BY <1>1, <1>2, <1>3, <1>4, <1>6, <2>1
<1> QED
  BY <1>5, <1>6

\* Between two calls the active buffer is within the limit.
LEMMA ActiveFits ==
  ASSUME OpenInv, SizeInv
  PROVE  active.id # 0 => BodySize(active.body) <= Limit
<1> SUFFICES ASSUME active.id # 0 PROVE BodySize(active.body) <= Limit
  OBVIOUS
<1>1. transcript[active.id] = active.body /\ active.body.kind = "scroll"
  BY DEF OpenInv, OpenMessagesInSync
<1>2. active.id \in DOMAIN transcript
  BY DEF OpenInv, TypeOK
<1> QED
  BY <1>1, <1>2 DEF SizeInv, Scrollback

LEMMA FlushRowsFlush ==
  ASSUME OpenInv, InputInv, SizeInv, FlushRows
  PROVE  \E batch : Flush(batch)
<1>1. PICK n \in 1..Len(queue) :
        /\ Fits(n) /\ IngestScrollBatch(Batch(n))
        /\ queue' = SubSeq(queue, n + 1, Len(queue)) /\ taken' = queue[n].hi
  BY DEF FlushRows
<1>2. TypeOK /\ queue \in Seq(Work) /\ taken \in Nat /\ Contiguous(queue, taken)
      /\ Len(queue) \in Nat /\ n \in Nat
  BY LenProperties DEF OpenInv, TypeOK, InputInv
<1> DEFINE batch == Batch(n)
<1>3. batch \in Seq(Span) /\ Len(batch) = n /\ DOMAIN batch = 1..n
      /\ \A i \in 1..n : batch[i].lo = queue[i].lo /\ batch[i].hi = queue[i].hi
  <2>1. batch \in Seq(Span)
    BY <1>2, BatchType
  <2>2. batch = [i \in 1..n |-> WholeRow(queue[i])]
    BY DEF Batch
  <2>3. DOMAIN batch = 1..n
    BY <2>2
  <2> QED  BY <1>2, <2>1, <2>2, <2>3, LenProperties DEF WholeRow
<1>4. /\ \A i \in 1..Len(queue) : /\ queue[i].lo \in Nat /\ queue[i].hi \in Nat
                                  /\ queue[i].lo <= queue[i].hi /\ taken < queue[i].lo
      /\ \A i, j \in 1..Len(queue) : i < j => queue[i].hi < queue[j].lo
  BY <1>2, WorkFacts, ContiguousOrder
<1>5. \A i \in 1..n : i \in 1..Len(queue) /\ queue[i].hi <= queue[n].hi
  <2> TAKE i \in 1..n
  <2>1. i \in 1..Len(queue)
    BY <1>2
  <2>2. i = n \/ i < n
    BY <1>2
  <2> QED  BY <1>4, <2>1, <2>2
<1> HIDE DEF batch
<1>6. batch # <<>> /\ Ordered(batch) /\ \A i \in DOMAIN batch : taken < batch[i].lo /\ batch[i].hi <= taken'
  <2>1. batch # <<>>
    BY <1>2, <1>3, EmptySeq
  <2> QED  BY <1>1, <1>3, <1>4, <1>5, <2>1 DEF Ordered
<1>7. Units(batch) = (taken + 1)..taken'
  <2>1. ASSUME NEW u \in (taken + 1)..taken' PROVE u \in Units(batch)
    <3>1. PICK i \in 1..n : u \in queue[i].lo..queue[i].hi
      BY <1>1, <1>2, <2>1, ContiguousCovers
    <3> QED  BY <1>3, <3>1 DEF Units
  <2>2. ASSUME NEW u \in Units(batch) PROVE u \in (taken + 1)..taken'
    <3>1. PICK i \in 1..n : u \in queue[i].lo..queue[i].hi
      BY <1>3, <2>2 DEF Units
    <3> QED  BY <1>1, <1>2, <1>4, <1>5, <3>1
  <2> QED  BY <2>1, <2>2
<1>8. BodySize(Scroll(batch)) <= Limit /\ (active.id # 0 => BodySize(Extension(batch)) <= Limit)
  <2>1. Measure(batch) <= Available
    BY <1>1 DEF Fits, batch
  <2> QED  BY <1>2, <1>3, <2>1, ActiveFits, AvailableFits
<1>9. Takes
  <2>1. LET rest == SubSeq(queue, n + 1, Len(queue)) IN
          /\ rest \in Seq(Work) /\ Contiguous(rest, queue[n].hi)
          /\ EndOf(rest, queue[n].hi) = EndOf(queue, taken)
    BY <1>2, ContiguousSuffix
  <2> QED  BY <1>1, <1>2, <1>4, <2>1 DEF Takes
<1>10. Flush(batch)
  BY <1>1, <1>3, <1>6, <1>7, <1>8, <1>9 DEF Flush, NewBatch, FlushRows, AtFront, batch
<1> QED
  BY <1>10

LEMMA FlushWideRowFlush ==
  ASSUME OpenInv, InputInv, SizeInv, FlushWideRow
  PROVE  \E batch : Flush(batch)
<1> DEFINE row == Head(queue)
           cut == row.lo + Available - 1
           piece == [lo |-> row.lo, hi |-> cut, size |-> Available]
           batch == <<piece>>
           front == IF cut < row.hi THEN <<[row EXCEPT !.lo = cut + 1]>> ELSE <<>>
<1>1. TypeOK /\ queue \in Seq(Work) /\ taken \in Nat /\ Contiguous(queue, taken)
      /\ queue # <<>> /\ active.id = 0 /\ RowSize(row) > Available
  BY DEF OpenInv, TypeOK, InputInv, FlushWideRow, AtFront
<1>2. row \in Work /\ row.lo = taken + 1 /\ row.hi \in Nat /\ row.lo <= row.hi
  BY <1>1, ContiguousTail DEF Work
<1>3. Available \in Nat \ {0} /\ Available = Limit - FreshOverhead
  BY <1>1, SizeAssumption DEF Available
<1>4. cut \in Nat /\ row.lo <= cut /\ cut <= row.hi
  BY <1>1, <1>2, <1>3 DEF RowSize
<1>5. piece \in Span /\ piece.lo = taken + 1 /\ piece.hi = cut /\ piece.size = Available
  BY <1>1, <1>2, <1>3, <1>4 DEF Span
<1>6. front \in Seq(Work) /\ Contiguous(front, cut) /\ EndOf(front, cut) = row.hi
  <2>1. CASE cut < row.hi
    <3> DEFINE w == [row EXCEPT !.lo = cut + 1]
    <3>1. w \in Work /\ w.lo = cut + 1 /\ w.hi = row.hi
      BY <1>2, <1>4, <2>1 DEF Work
    <3> HIDE DEF cut, w
    <3>2. <<w>> \in Seq(Work) /\ Contiguous(<<w>>, cut) /\ EndOf(<<w>>, cut) = w.hi
      BY <1>4, <3>1, ContiguousSingle
    <3> QED  BY <2>1, <3>1, <3>2 DEF w
  <2>2. CASE ~(cut < row.hi)
    <3>1. cut = row.hi
      BY <1>2, <1>4, <2>2
    <3> HIDE DEF cut
    <3> QED  BY <2>2, <3>1, ContiguousEmpty
  <2> QED  BY <2>1, <2>2
<1>7. queue' = front \o Tail(queue) /\ taken' = cut /\ IngestScrollBatch(batch)
  BY DEF FlushWideRow, Requeue
<1> HIDE DEF front, cut, piece
<1>8. Takes
  <2>1. /\ Contiguous(front \o Tail(queue), cut)
        /\ EndOf(front \o Tail(queue), cut) = EndOf(queue, taken)
    BY <1>1, <1>4, <1>6, ContiguousRequeue
  <2> QED  BY <1>1, <1>2, <1>4, <1>7, <2>1 DEF Takes
<1>9. /\ batch \in Seq(Span) /\ batch # <<>> /\ DOMAIN batch = {1} /\ batch[1] = piece
      /\ Measure(batch) = Available
  BY <1>5, MeasureSingle
<1> HIDE DEF batch
<1>10. BodySize(Scroll(batch)) <= Limit
  BY <1>3, <1>9, SizeFacts, SizeAssumption
<1>11. Ordered(batch) /\ \A i \in DOMAIN batch : taken < batch[i].lo /\ batch[i].hi <= taken'
  BY <1>1, <1>4, <1>5, <1>7, <1>9 DEF Ordered
<1>12. Units(batch) = (taken + 1)..taken'
  BY <1>5, <1>7, <1>9 DEF Units
<1>13. Flush(batch)
  BY <1>1, <1>7, <1>8, <1>9, <1>10, <1>11, <1>12 DEF Flush, NewBatch, FlushWideRow, AtFront
<1> QED
  BY <1>13

\* The first page of a stand-alone message.
LEMMA PostStreamTakes ==
  ASSUME OpenInv, InputInv, PostStream
  PROVE  /\ Takes /\ NewBatch(call'.batch) /\ call'.body.rows = call'.batch
         /\ call'.at = "stream" /\ call'.id = 0 /\ call'.body.kind = "stream"
         /\ Idle /\ UNCHANGED <<handleVars, anchors, liveVars, sinkVars, latestLive, active, stopped>>
<1> DEFINE msg == Head(queue)
           first == [lo |-> msg.lo, hi |-> msg.lo, size |-> 1]
           batch == <<first>>
           n == msg.hi - msg.lo
           pages == [i \in 1..n |-> Stream(msg.lo + i - 1, 1)]
<1>1. TypeOK /\ queue \in Seq(Work) /\ taken \in Nat /\ Contiguous(queue, taken) /\ queue # <<>>
  BY DEF OpenInv, TypeOK, InputInv, PostStream, AtFront
<1>2. msg \in Work /\ msg.lo = taken + 1 /\ msg.hi \in Nat /\ msg.lo \in Nat /\ msg.lo <= msg.hi
      /\ n \in Nat
  BY <1>1, ContiguousTail DEF Work
<1>3. first \in Span /\ first.lo = taken + 1 /\ first.hi = taken + 1 /\ first.size = 1
  BY <1>2 DEF Span
<1>4. \A i \in 1..n : /\ pages[i] \in Work /\ pages[i].lo = msg.lo + i /\ pages[i].hi = msg.lo + i
  <2> TAKE i \in 1..n
  <2>1. pages[i] = Stream(msg.lo + i - 1, 1)
    OBVIOUS
  <2> HIDE DEF pages
  <2> QED  BY <1>2, <2>1 DEF Stream, Work
<1>5. pages \in Seq(Work) /\ Len(pages) = n /\ DOMAIN pages = 1..n
  <2>1. pages \in [1..n -> Work]
    BY <1>4
  <2> HIDE DEF pages, n
  <2> QED  BY <1>2, <2>1, SeqOfElements
<1>6. /\ call' = [at |-> "stream", id |-> 0, body |-> Page(first), batch |-> batch]
      /\ queue' = pages \o Tail(queue) /\ taken' = msg.lo
  BY DEF PostStream, Requeue, Await
<1>7. n = 0 \/ n \in 1..n
  BY <1>2
<1>8. msg.lo + n = msg.hi
  BY <1>2
<1> HIDE DEF pages, n
<1>9. Contiguous(pages, msg.lo) /\ EndOf(pages, msg.lo) = msg.hi
  <2>1. ASSUME NEW i \in 1..n
        PROVE  pages[i].lo = (IF i = 1 THEN msg.lo ELSE pages[i-1].hi) + 1
    <3>1. i # 1 => i - 1 \in 1..n
      BY <1>2
    <3>2. i # 1 => pages[i-1].hi = msg.lo + (i - 1)
      BY <1>4, <3>1
    <3> QED  BY <1>2, <1>4, <3>2
  <2>2. pages = <<>> <=> n = 0
    BY <1>2, <1>5, EmptySeq, WorkFacts
  <2> QED  BY <1>2, <1>4, <1>5, <1>7, <1>8, <2>1, <2>2 DEF Contiguous, EndOf
<1>10. Takes
  <2>1. /\ Contiguous(pages \o Tail(queue), msg.lo)
        /\ EndOf(pages \o Tail(queue), msg.lo) = EndOf(queue, taken)
    BY <1>1, <1>2, <1>5, <1>9, ContiguousRequeue
  <2> QED  BY <1>1, <1>2, <1>6, <2>1 DEF Takes
<1> HIDE DEF first
<1>11. /\ batch \in Seq(Span) /\ batch # <<>> /\ DOMAIN batch = {1} /\ batch[1] = first
       /\ Measure(batch) = 1
  BY <1>3, MeasureSingle
<1>12. Page(first).rows = batch /\ Page(first).kind = "stream"
  BY DEF Page
<1> HIDE DEF batch
<1>13. BodySize(Scroll(batch)) <= Limit
  BY <1>11, SizeFacts, SizeAssumption
<1>14. Ordered(batch) /\ \A i \in DOMAIN batch : taken < batch[i].lo /\ batch[i].hi <= taken'
  BY <1>1, <1>2, <1>3, <1>6, <1>11 DEF Ordered
<1>15. Units(batch) = (taken + 1)..taken'
  BY <1>2, <1>3, <1>6, <1>11 DEF Units
<1>16. NewBatch(batch)
  BY <1>11, <1>13, <1>14, <1>15 DEF NewBatch
<1> QED
  BY <1>6, <1>10, <1>12, <1>16 DEF PostStream, AtFront

LEMMA TakeAnchorTakes ==
  ASSUME OpenInv, InputInv, TakeAnchor
  PROVE  Takes /\ taken' = taken + 1 /\ anchors' = anchors \cup {taken + 1}
<1>1. TypeOK /\ queue \in Seq(Work) /\ taken \in Nat /\ Contiguous(queue, taken) /\ queue # <<>>
      /\ Head(queue).type = "anchor"
      /\ queue' = Tail(queue) /\ taken' = Head(queue).hi /\ anchors' = anchors \cup {Head(queue).hi}
  BY DEF OpenInv, TypeOK, InputInv, TakeAnchor, AtFront
<1>2. /\ Head(queue) \in Work /\ Head(queue).lo = taken + 1
      /\ Contiguous(Tail(queue), Head(queue).hi)
      /\ EndOf(Tail(queue), Head(queue).hi) = EndOf(queue, taken)
  BY <1>1, ContiguousTail
<1>3. Head(queue).hi = taken + 1
  BY <1>1, <1>2 DEF Work
<1> QED
  BY <1>1, <1>2, <1>3 DEF Takes
-----------------------------------------------------------------------------
(* Rows and the positions they hold.                                        *)

LEMMA UnitsFacts ==
  ASSUME NEW rows \in Seq(Span)
  PROVE  /\ \A u : u \in Units(rows) <=>
              u \in Nat /\ \E i \in 1..Len(rows) : rows[i].lo <= u /\ u <= rows[i].hi
         /\ Units(<<>>) = {}
<1>1. DOMAIN rows = 1..Len(rows) /\ \A i \in 1..Len(rows) : rows[i].lo \in Nat /\ rows[i].hi \in Nat
  BY SpanFacts
<1>2. Units(<<>>) = {}
  BY DEF Units
<1>3. ASSUME NEW u
      PROVE  u \in Units(rows) <=>
               u \in Nat /\ \E i \in 1..Len(rows) : rows[i].lo <= u /\ u <= rows[i].hi
  <2>1. u \in Units(rows) <=> \E i \in 1..Len(rows) : u \in rows[i].lo..rows[i].hi
    BY <1>1 DEF Units
  <2>2. \A i \in 1..Len(rows) : u \in rows[i].lo..rows[i].hi <=>
                                  u \in Nat /\ rows[i].lo <= u /\ u <= rows[i].hi
    BY <1>1
  <2> QED  BY <2>1, <2>2
<1> QED
  BY <1>2, <1>3

LEMMA UnitsConcat ==
  ASSUME NEW rows \in Seq(Span), NEW more \in Seq(Span)
  PROVE  Units(rows \o more) = Units(rows) \cup Units(more)
<1> DEFINE m == Len(rows)
           n == Len(more)
           both == rows \o more
<1>1. /\ both \in Seq(Span) /\ Len(both) = m + n
      /\ \A i \in 1..(m + n) : both[i] = IF i <= m THEN rows[i] ELSE more[i - m]
  BY ConcatProperties
<1>2. m \in Nat /\ n \in Nat /\ DOMAIN rows = 1..m /\ DOMAIN more = 1..n /\ DOMAIN both = 1..(m + n)
  BY <1>1, SpanFacts
<1> HIDE DEF m, n, both
<1>3. ASSUME NEW u \in Units(both) PROVE u \in Units(rows) \cup Units(more)
  <2>1. PICK i \in 1..(m + n) : u \in both[i].lo..both[i].hi
    BY <1>2, <1>3 DEF Units
  <2>2. CASE i <= m
    <3>1. i \in 1..m
      BY <1>2, <2>2
    <3> QED  BY <1>1, <1>2, <2>1, <2>2, <3>1 DEF Units
  <2>3. CASE ~(i <= m)
    <3>1. i - m \in 1..n
      BY <1>2, <2>3
    <3> QED  BY <1>1, <1>2, <2>1, <2>3, <3>1 DEF Units
  <2> QED  BY <2>2, <2>3
<1>4. ASSUME NEW u \in Units(rows) PROVE u \in Units(both)
  <2>1. PICK i \in 1..m : u \in rows[i].lo..rows[i].hi
    BY <1>2, <1>4 DEF Units
  <2>2. i \in 1..(m + n) /\ both[i] = rows[i]
    BY <1>1, <1>2
  <2> QED  BY <1>2, <2>1, <2>2 DEF Units
<1>5. ASSUME NEW u \in Units(more) PROVE u \in Units(both)
  <2>1. PICK i \in 1..n : u \in more[i].lo..more[i].hi
    BY <1>2, <1>5 DEF Units
  <2>2. m + i \in 1..(m + n) /\ ~(m + i <= m) /\ (m + i) - m = i
    BY <1>2
  <2>3. both[m + i] = more[i]
    BY <1>1, <2>2
  <2> QED  BY <1>2, <2>1, <2>2, <2>3 DEF Units
<1> QED
  BY <1>3, <1>4, <1>5 DEF both

LEMMA PlacedEmpty ==
  ASSUME NEW end, NEW by
  PROVE  Placed(<<>>, end, by) /\ Below(<<>>, by)
BY DEF Placed, Ordered, Upto, Separated, Below

\* No position after the end, and none that is an anchor the rows stand below.
LEMMA PlacedUnits ==
  ASSUME NEW rows \in Seq(Span), NEW end \in Nat, NEW by, Placed(rows, end, by)
  PROVE  /\ Units(rows) \subseteq 1..end
         /\ Below(rows, by) /\ by \subseteq Nat => Units(rows) \cap by = {}
<1>1. /\ DOMAIN rows = 1..Len(rows)
      /\ \A i \in 1..Len(rows) : rows[i].lo \in Nat /\ rows[i].hi \in Nat /\ 0 < rows[i].lo /\ rows[i].hi <= end
  BY SpanFacts DEF Placed, Upto
<1>2. Units(rows) \subseteq 1..end
  <2> SUFFICES ASSUME NEW u \in Units(rows) PROVE u \in 1..end
    OBVIOUS
  <2>1. PICK i \in 1..Len(rows) : u \in Nat /\ rows[i].lo <= u /\ u <= rows[i].hi
    BY UnitsFacts
  <2> QED  BY <1>1, <2>1
<1>3. ASSUME Below(rows, by), by \subseteq Nat, NEW a \in by, a \in Units(rows)
      PROVE  FALSE
  <2>1. PICK i \in 1..Len(rows) : a \in Nat /\ rows[i].lo <= a /\ a <= rows[i].hi
    BY <1>3, UnitsFacts
  <2>2. a < rows[i].lo
    BY <1>1, <1>3, <2>1 DEF Below
  <2> QED  BY <1>1, <2>1, <2>2
<1> QED
  BY <1>2, <1>3

\* Rows stay where they are when units leave the queue, an anchor among them or not.
LEMMA PlacedLater ==
  ASSUME NEW rows \in Seq(Span), NEW end \in Nat, NEW by \in SUBSET Nat, Placed(rows, end, by),
         NEW end2 \in Nat, end <= end2, NEW by2, by2 \in {by, by \cup {end + 1}}
  PROVE  Placed(rows, end2, by2)
<1>1. /\ DOMAIN rows = 1..Len(rows)
      /\ \A i \in 1..Len(rows) : rows[i].lo \in Nat /\ rows[i].hi \in Nat /\ 0 < rows[i].lo /\ rows[i].hi <= end
  BY SpanFacts DEF Placed, Upto
<1>2. Upto(rows, end2)
  BY <1>1 DEF Upto
<1>3. ASSUME NEW a \in by2, NEW i \in 1..Len(rows), NEW j \in 1..Len(rows)
      PROVE  ~(rows[i].lo < a /\ a < rows[j].hi)
  <2>1. CASE a \in by
    BY <1>1, <2>1 DEF Placed, Separated
  <2>2. CASE a = end + 1
    BY <1>1, <2>2
  <2> QED  BY <2>1, <2>2
<1> QED
  BY <1>1, <1>2, <1>3 DEF Placed, Separated

\* Rows that all stand below every anchor are on one side of each.
LEMMA BelowSeparated ==
  ASSUME NEW rows \in Seq(Span), NEW by \in SUBSET Nat, Below(rows, by)
  PROVE  Separated(rows, by)
<1>1. DOMAIN rows = 1..Len(rows) /\ \A i \in 1..Len(rows) : rows[i].lo \in Nat
  BY SpanFacts
<1>2. ASSUME NEW a \in by, NEW i \in 1..Len(rows)
      PROVE  ~(rows[i].lo < a)
  BY <1>1 DEF Below
<1> QED
  BY <1>1, <1>2 DEF Separated

LEMMA NewBatchPlaced ==
  ASSUME taken \in Nat, taken' \in Nat, taken <= taken', anchors \subseteq 1..taken,
         NEW batch, NewBatch(batch)
  PROVE  Placed(batch, taken', anchors) /\ Below(batch, anchors)
<1>1. /\ batch \in Seq(Span) /\ DOMAIN batch = 1..Len(batch) /\ Ordered(batch)
      /\ \A i \in 1..Len(batch) : /\ batch[i].lo \in Nat /\ batch[i].hi \in Nat
                                  /\ taken < batch[i].lo /\ batch[i].hi <= taken'
  BY SpanFacts DEF NewBatch
<1>2. Below(batch, anchors)
  <2> SUFFICES ASSUME NEW a \in anchors, NEW i \in 1..Len(batch) PROVE a < batch[i].lo
    BY <1>1 DEF Below
  <2>1. a \in 1..taken
    OBVIOUS
  <2> QED  BY <1>1, <2>1
<1>3. Separated(batch, anchors)
  BY <1>1, <1>2, BelowSeparated
<1>4. Upto(batch, taken')
  BY <1>1 DEF Upto
<1> QED
  BY <1>1, <1>2, <1>3, <1>4 DEF Placed

\* Extending the rows of an open buffer with a batch.
LEMMA ExtensionPlaced ==
  ASSUME taken \in Nat, taken' \in Nat, taken <= taken', anchors \subseteq 1..taken,
         NEW rows \in Seq(Span), Placed(rows, taken, anchors), Below(rows, anchors),
         NEW batch, NewBatch(batch)
  PROVE  Placed(rows \o batch, taken', anchors) /\ Below(rows \o batch, anchors)
<1> DEFINE m == Len(rows)
           n == Len(batch)
           both == rows \o batch
<1>1. /\ batch \in Seq(Span) /\ DOMAIN batch = 1..n /\ Ordered(batch) /\ n \in Nat
      /\ \A i \in 1..n : /\ batch[i].lo \in Nat /\ batch[i].hi \in Nat
                         /\ taken < batch[i].lo /\ batch[i].hi <= taken'
  BY SpanFacts DEF NewBatch
<1>2. /\ DOMAIN rows = 1..m /\ Ordered(rows) /\ m \in Nat
      /\ \A i \in 1..m : /\ rows[i].lo \in Nat /\ rows[i].hi \in Nat
                         /\ 0 < rows[i].lo /\ rows[i].hi <= taken
  BY SpanFacts DEF Placed, Upto
<1>3. /\ both \in Seq(Span) /\ DOMAIN both = 1..(m + n)
      /\ \A i \in 1..(m + n) : both[i] = IF i <= m THEN rows[i] ELSE batch[i - m]
  BY <1>1, ConcatProperties, SpanFacts
<1>4. Below(batch, anchors)
  BY NewBatchPlaced
<1> HIDE DEF m, n, both
<1>5. \A i \in 1..(m + n) : IF i <= m THEN i \in 1..m ELSE i - m \in 1..n
  BY <1>1, <1>2
<1>6. Below(both, anchors)
  <2> SUFFICES ASSUME NEW a \in anchors, NEW i \in 1..(m + n) PROVE a < both[i].lo
    BY <1>3 DEF Below
  <2>1. CASE i <= m
    BY <1>2, <1>3, <1>5, <2>1 DEF Below
  <2>2. CASE ~(i <= m)
    BY <1>1, <1>3, <1>4, <1>5, <2>2 DEF Below
  <2> QED  BY <2>1, <2>2
<1>7. Upto(both, taken')
  <2> SUFFICES ASSUME NEW i \in 1..(m + n) PROVE 0 < both[i].lo /\ both[i].hi <= taken'
    BY <1>3 DEF Upto
  <2>1. CASE i <= m
    BY <1>2, <1>3, <1>5, <2>1
  <2>2. CASE ~(i <= m)
    <3>1. both[i] = batch[i - m] /\ i - m \in 1..n
      BY <1>3, <1>5, <2>2
    <3> QED  BY <1>1, <3>1
  <2> QED  BY <2>1, <2>2
<1>8. Ordered(both)
  <2> SUFFICES ASSUME NEW i \in 1..(m + n), NEW j \in 1..(m + n), i < j
               PROVE  both[i].hi < both[j].lo
    BY <1>3 DEF Ordered
  <2>1. CASE j <= m
    <3>1. i \in 1..m /\ j \in 1..m /\ both[i] = rows[i] /\ both[j] = rows[j]
      BY <1>2, <1>3, <1>5, <2>1
    <3> QED  BY <1>2, <3>1 DEF Ordered
  <2>2. CASE i <= m /\ ~(j <= m)
    <3>1. both[i] = rows[i] /\ both[j] = batch[j - m] /\ i \in 1..m /\ j - m \in 1..n
      BY <1>3, <1>5, <2>2
    <3> QED  BY <1>1, <1>2, <3>1
  <2>3. CASE ~(i <= m)
    <3>1. /\ both[i] = batch[i - m] /\ both[j] = batch[j - m] /\ i - m \in 1..n
          /\ j - m \in 1..n /\ i - m < j - m
      BY <1>2, <1>3, <1>5, <2>3
    <3> QED  BY <1>1, <3>1 DEF Ordered
  <2> QED  BY <1>2, <2>1, <2>2, <2>3
<1>9. Separated(both, anchors)
  BY <1>3, <1>6, BelowSeparated
<1> QED
  BY <1>6, <1>7, <1>8, <1>9 DEF Placed, both

\* shrink takes positions off the end of a body and nothing else.
LEMMA CutPlaced ==
  ASSUME NEW rows \in Seq(Span), NEW k \in 1..Len(rows), NEW last \in rows[k].lo..rows[k].hi,
         NEW end \in Nat, NEW by \in SUBSET Nat, Placed(rows, end, by)
  PROVE  /\ Placed(Cut(rows, k, last), end, by)
         /\ Below(rows, by) => Below(Cut(rows, k, last), by)
         /\ Units(Cut(rows, k, last)) \subseteq Units(rows)
         /\ \A v \in Units(Cut(rows, k, last)), u \in Units(rows) \ Units(Cut(rows, k, last)) : v < u
<1> DEFINE n == Len(rows)
           cut == Cut(rows, k, last)
<1>1. /\ n \in Nat /\ DOMAIN rows = 1..n
      /\ \A i \in 1..n : rows[i].lo \in Nat /\ rows[i].hi \in Nat /\ rows[i].lo <= rows[i].hi
  BY SpanFacts
<1>2. /\ cut \in Seq(Span) /\ Len(cut) = k /\ DOMAIN cut = 1..k
      /\ \A i \in 1..k : cut[i].lo = rows[i].lo /\ cut[i].hi = IF i = k THEN last ELSE rows[i].hi
  BY CutProperties, SpanFacts
<1>3. k \in Nat /\ k <= n /\ last \in Nat /\ rows[k].lo <= last /\ last <= rows[k].hi
      /\ \A i \in 1..k : i \in 1..n
  BY <1>1
<1> HIDE DEF n, cut
<1>4. \A i \in 1..k : cut[i].lo \in Nat /\ cut[i].hi \in Nat /\ cut[i].hi <= rows[i].hi
  BY <1>1, <1>2, <1>3
<1>5. Ordered(cut)
  <2> SUFFICES ASSUME NEW i \in 1..k, NEW j \in 1..k, i < j PROVE cut[i].hi < cut[j].lo
    BY <1>2 DEF Ordered
  <2>1. rows[i].hi < rows[j].lo
    BY <1>1, <1>3 DEF Placed, Ordered
  <2> QED  BY <1>1, <1>2, <1>3, <1>4, <2>1
<1>6. Upto(cut, end)
  <2> SUFFICES ASSUME NEW i \in 1..k PROVE 0 < cut[i].lo /\ cut[i].hi <= end
    BY <1>2 DEF Upto
  <2>1. 0 < rows[i].lo /\ rows[i].hi <= end
    BY <1>1, <1>3 DEF Placed, Upto
  <2> QED  BY <1>1, <1>2, <1>3, <1>4, <2>1
<1>7. Separated(cut, by)
  <2> SUFFICES ASSUME NEW a \in by, NEW i \in 1..k, NEW j \in 1..k
               PROVE  ~(cut[i].lo < a /\ a < cut[j].hi)
    BY <1>2 DEF Separated
  <2>1. ~(rows[i].lo < a /\ a < rows[j].hi)
    BY <1>1, <1>3 DEF Placed, Separated
  <2> QED  BY <1>1, <1>2, <1>3, <1>4, <2>1
<1>8. Below(rows, by) => Below(cut, by)
  <2> SUFFICES ASSUME Below(rows, by), NEW a \in by, NEW i \in 1..k PROVE a < cut[i].lo
    BY <1>2 DEF Below
  <2> QED  BY <1>1, <1>2, <1>3 DEF Below
<1>9. ASSUME NEW u \in Units(cut)
      PROVE  u \in Units(rows) /\ u \in Nat /\ u <= last
  <2>1. PICK i \in 1..k : u \in Nat /\ cut[i].lo <= u /\ u <= cut[i].hi
    BY <1>2, UnitsFacts
  <2>2. rows[i].lo <= u /\ u <= rows[i].hi /\ i \in 1..n
    BY <1>1, <1>2, <1>3, <1>4, <2>1
  <2>3. u \in Units(rows)
    BY <2>1, <2>2, UnitsFacts DEF n
  <2>4. CASE i = k
    BY <1>2, <2>1, <2>3, <2>4
  <2>5. CASE i # k
    <3>1. i < k
      BY <1>3, <2>5
    <3>2. rows[i].hi < rows[k].lo
      BY <1>1, <1>3, <3>1 DEF Placed, Ordered
    <3> QED  BY <1>1, <1>3, <2>1, <2>2, <2>3, <3>2
  <2> QED  BY <2>4, <2>5
<1>10. ASSUME NEW u \in Units(rows), u \notin Units(cut)
       PROVE  u \in Nat /\ last < u
  <2>1. PICK i \in 1..n : u \in Nat /\ rows[i].lo <= u /\ u <= rows[i].hi
    BY UnitsFacts DEF n
  <2>2. i \in 1..k => ~(cut[i].lo <= u /\ u <= cut[i].hi)
    BY <1>2, <1>10, <2>1, UnitsFacts
  <2>3. CASE i < k
    <3>1. i \in 1..k /\ i # k
      BY <1>3, <2>3
    <3> QED  BY <1>2, <2>1, <2>2, <3>1
  <2>4. CASE i = k
    <3>1. i \in 1..k
      BY <1>3, <2>4
    <3> QED  BY <1>2, <1>3, <2>1, <2>2, <2>4, <3>1
  <2>5. CASE i > k
    <3>1. rows[k].hi < rows[i].lo
      BY <1>1, <1>3, <2>5 DEF Placed, Ordered
    <3>2. k \in 1..n
      BY <1>3
    <3> QED  BY <1>1, <1>3, <2>1, <3>1, <3>2
  <2> QED  BY <1>3, <2>3, <2>4, <2>5
<1>11. \A v \in Units(cut), u \in Units(rows) \ Units(cut) : v < u
  BY <1>3, <1>9, <1>10
<1>12. Placed(cut, end, by)
  BY <1>5, <1>6, <1>7 DEF Placed
<1> QED
  BY <1>8, <1>9, <1>11, <1>12 DEF cut
-----------------------------------------------------------------------------
(* What the steps of the task have in common.                               *)

\* Nothing, or one anchor, left the queue.
AnchorAtMost ==
  \/ taken' = taken /\ anchors' = anchors
  \/ taken' = taken + 1 /\ anchors' = anchors \cup {taken + 1}

\* The active buffer is sealed: SealFull, or an anchor.
Sealing ==
  /\ AnchorAtMost /\ active.id # 0 /\ active' = NoBuffer /\ currentId' = currentId
  /\ call'.at \in {"fullLock", "anchorLock"} /\ call'.id = active.id
  /\ call'.body = History(active.body) /\ call'.batch = <<>>

\* An anchor with no buffer to seal.
Forgetting ==
  /\ AnchorAtMost /\ active.id = 0 /\ active' = active /\ currentId' = 0 /\ call' = call

\* A live frame is posted or edited.
Showing ==
  /\ taken' = taken /\ anchors' = anchors /\ queue' = <<>> /\ latestLive \in Texts
  /\ active' = active /\ currentId' = currentId
  /\ \/ call'.at = "liveEdit" /\ call'.id = currentId /\ currentId # 0
     \/ call'.at = "livePost" /\ call'.id = 0
  /\ call'.body = LiveBody(latestLive) /\ call'.batch = <<>>

\* A batch is published.
Batching ==
  /\ anchors' = anchors /\ active' = active /\ NewBatch(call'.batch)
  /\ \/ /\ call'.at = "stream" /\ call'.id = 0 /\ currentId' = currentId
        /\ call'.body.kind = "stream" /\ call'.body.rows = call'.batch
     \/ /\ call'.at = "demote" /\ active.id = 0 /\ currentId # 0 /\ call'.id = currentId
        /\ currentId' = 0 /\ call'.body = Scroll(call'.batch)
     \/ /\ call'.at = "open" /\ active.id = 0 /\ call'.id = 0 /\ currentId = 0 /\ currentId' = 0
        /\ call'.body = Scroll(call'.batch)
     \/ /\ call'.at = "extend" /\ active.id # 0 /\ call'.id = active.id /\ currentId' = currentId
        /\ call'.body = Extension(call'.batch) /\ BodySize(call'.body) <= Limit

Starts ==
  /\ Idle /\ Takes /\ UNCHANGED <<handleVars, sinkVars, latestLive, stopped>>
  /\ Sealing \/ Forgetting \/ Showing \/ Batching

LEMMA FlushBatching ==
  ASSUME NEW batch, Flush(batch)
  PROVE  Batching
<1>1. /\ NewBatch(batch) /\ IngestScrollBatch(batch) /\ anchors' = anchors
      /\ active.id # 0 => BodySize(Extension(batch)) <= Limit
  BY DEF Flush
<1>2. CASE active.id = 0 /\ currentId # 0
  <2>1. Await("demote", currentId, Scroll(batch), batch) /\ currentId' = 0 /\ active' = active
    BY <1>1, <1>2 DEF IngestScrollBatch, LiveToDemote
  <2>2. /\ call'.at = "demote" /\ call'.id = currentId /\ call'.body = Scroll(batch)
        /\ call'.batch = batch
    BY <2>1 DEF Await
  <2> QED  BY <1>1, <1>2, <2>1, <2>2 DEF Batching
<1>3. CASE active.id = 0 /\ currentId = 0
  <2>1. Await("open", 0, Scroll(batch), batch) /\ currentId' = currentId /\ active' = active
    BY <1>1, <1>3 DEF IngestScrollBatch, LiveToDemote
  <2>2. call'.at = "open" /\ call'.id = 0 /\ call'.body = Scroll(batch) /\ call'.batch = batch
    BY <2>1 DEF Await
  <2> QED  BY <1>1, <1>3, <2>1, <2>2 DEF Batching
<1>4. CASE active.id # 0
  <2>1. Await("extend", active.id, Extension(batch), batch) /\ currentId' = currentId /\ active' = active
    BY <1>1, <1>4 DEF IngestScrollBatch
  <2>2. /\ call'.at = "extend" /\ call'.id = active.id /\ call'.body = Extension(batch)
        /\ call'.batch = batch
    BY <2>1 DEF Await
  <2> QED  BY <1>1, <1>4, <2>1, <2>2 DEF Batching
<1> QED
  BY <1>2, <1>3, <1>4

LEMMA PostOneUnitStarts ==
  ASSUME OpenInv, InputInv, SizeInv, PostOneUnit
  PROVE  Starts
<1>1. TypeOK /\ taken \in Nat /\ Contiguous(queue, taken)
  BY DEF OpenInv, TypeOK, InputInv
<1>2. ASSUME NEW batch, Flush(batch)
      PROVE  Starts
  BY <1>2, FlushBatching DEF Flush, Starts
<1>3. ASSUME NEW at, LockActive(at, <<>>)
      PROVE  /\ call'.at = at /\ call'.id = active.id /\ call'.body = History(active.body)
             /\ call'.batch = <<>> /\ active' = NoBuffer
  BY <1>3 DEF LockActive, Await
<1>4. CASE SealFull
  <2>1. LockActive("fullLock", <<>>) /\ active.id # 0 /\ Idle
        /\ UNCHANGED <<handleVars, queueVars, liveVars, sinkVars, latestLive, stopped>>
    BY <1>4 DEF SealFull, AtFront
  <2>2. Takes
    BY <1>1, <2>1 DEF Takes, queueVars
  <2>3. Sealing
    BY <1>3, <2>1 DEF Sealing, AnchorAtMost, queueVars, liveVars
  <2> QED  BY <2>1, <2>2, <2>3 DEF Starts
<1>5. CASE FlushRows \/ FlushWideRow
  BY <1>2, <1>5, FlushRowsFlush, FlushWideRowFlush
<1>6. CASE PostStream
  <2>1. /\ Takes /\ NewBatch(call'.batch) /\ call'.body.rows = call'.batch
        /\ call'.at = "stream" /\ call'.id = 0 /\ call'.body.kind = "stream"
        /\ Idle /\ UNCHANGED <<handleVars, anchors, liveVars, sinkVars, latestLive, active, stopped>>
    BY <1>6, PostStreamTakes
  <2> QED  BY <2>1 DEF Starts, Batching, liveVars
<1>7. CASE TakeAnchor
  <2>1. Takes /\ AnchorAtMost
    BY <1>7, TakeAnchorTakes DEF AnchorAtMost
  <2>2. Idle /\ UNCHANGED <<handleVars, sinkVars, latestLive, stopped>>
    BY <1>7 DEF TakeAnchor, AtFront
  <2>3. CASE active.id # 0
    <3>1. LockActive("anchorLock", <<>>) /\ currentId' = currentId
      BY <1>7, <2>3 DEF TakeAnchor, liveVars
    <3> QED  BY <1>3, <2>1, <2>2, <2>3, <3>1 DEF Starts, Sealing
  <2>4. CASE active.id = 0
    <3>1. currentId' = 0 /\ active' = active /\ call' = call
      BY <1>7, <2>4 DEF TakeAnchor, ForgetLive
    <3> QED  BY <2>1, <2>2, <2>4, <3>1 DEF Starts, Forgetting
  <2> QED  BY <2>3, <2>4
<1>8. CASE PostOrEditLive
  <2>1. /\ Idle /\ queue = <<>> /\ HasPendingWork
        /\ UNCHANGED <<handleVars, queueVars, liveVars, sinkVars, latestLive, active, stopped>>
        /\ \/ currentId # 0 /\ Await("liveEdit", currentId, LiveBody(latestLive), <<>>)
           \/ Await("livePost", 0, LiveBody(latestLive), <<>>)
    BY <1>8 DEF PostOrEditLive
  <2>2. latestLive \in Texts
    BY <1>1, <2>1 DEF HasPendingWork, TypeOK
  <2>3. Takes
    BY <1>1, <2>1 DEF Takes, queueVars
  <2>4. /\ \/ call'.at = "liveEdit" /\ call'.id = currentId /\ currentId # 0
           \/ call'.at = "livePost" /\ call'.id = 0
        /\ call'.body = LiveBody(latestLive) /\ call'.batch = <<>>
    BY <2>1 DEF Await
  <2>5. Showing
    BY <2>1, <2>2, <2>4 DEF Showing, queueVars, liveVars
  <2> QED  BY <2>1, <2>3, <2>5 DEF Starts
<1> QED
  BY <1>4, <1>5, <1>6, <1>7, <1>8 DEF PostOneUnit

\* What follows an answer.
Ended ==
  /\ call' = NoCall
  /\ \/ active' = active
     \/ /\ call.at \in {"demote", "open", "extend"}
        /\ active'.id = MessageId /\ active'.body = call.body

Reposting ==
  /\ call.at = "liveEdit" /\ active' = active
  /\ call'.at = "livePost" /\ call'.id = 0 /\ call'.body = call.body /\ call'.batch = <<>>

Opening(o) ==
  /\ call.at = "rollLock" \/ (call.at = "demote" /\ o # "ok")
  /\ active' = active /\ currentId' = currentId
  /\ call'.at = "open" /\ call'.id = 0 /\ call'.body = Scroll(call.batch) /\ call'.batch = call.batch

RollingOver(o) ==
  /\ call.at = "extend" /\ o # "ok" /\ active' = NoBuffer /\ currentId' = currentId
  /\ call'.at = "rollLock" /\ call'.id = active.id
  /\ call'.body = History(active.body) /\ call'.batch = call.batch

LiveIdAfter(o) ==
  \/ currentId' = currentId
  \/ call.at \in {"anchorLock", "liveEdit"} /\ currentId' = 0
  \/ call.at = "livePost" /\ o = "ok" /\ currentId' = MessageId

Answered(o) ==
  /\ Answer(call.at, o) /\ call.at \in CallSite \ {"idle"}
  /\ Ended \/ (Reposting /\ o # "ok") \/ Opening(o) \/ RollingOver(o)
  /\ LiveIdAfter(o)
  /\ o = "ok" /\ call.at \in {"demote", "open", "extend"} => active'.id = MessageId
  /\ o = "ok" /\ call.at = "liveEdit" => currentId' = currentId
  /\ o = "ok" /\ call.at = "livePost" => currentId' = MessageId

AnyAnswer(o) ==
  \/ StreamAnswer(o)   \/ LiveEditAnswer(o) \/ LivePostAnswer(o)
  \/ DemoteAnswer(o)   \/ OpenAnswer(o)     \/ ExtendAnswer(o)
  \/ RollLockAnswer(o) \/ FullLockAnswer(o) \/ AnchorLockAnswer(o)

LEMMA AnswersAnswered ==
  ASSUME OpenInv, NEW o \in Outcomes, AnyAnswer(o)
  PROVE  Answered(o)
<1>1. /\ TypeOK /\ CallConsistent /\ active \in [id : 0..Len(transcript), body : Body]
  BY DEF OpenInv, TypeOK
<1>2. ASSUME NEW at, Answer(at, o) PROVE call.at = at /\ Answer(call.at, o)
  BY <1>2 DEF Answer
<1>3. CASE StreamAnswer(o) \/ FullLockAnswer(o)
  BY <1>2, <1>3 DEF StreamAnswer, FullLockAnswer, liveVars, Answered, Ended, LiveIdAfter, CallSite
<1>4. CASE AnchorLockAnswer(o)
  BY <1>2, <1>4 DEF AnchorLockAnswer, ForgetLive, Answered, Ended, LiveIdAfter, CallSite
<1>5. CASE LiveEditAnswer(o)
  <2>1. call.at = "liveEdit" /\ Answer(call.at, o) /\ active' = active
    BY <1>2, <1>5 DEF LiveEditAnswer
  <2>2. CASE o = "ok"
    BY <1>5, <2>1, <2>2 DEF LiveEditAnswer, Answered, Ended, LiveIdAfter, CallSite
  <2>3. CASE o # "ok"
    <3>1. /\ call'.at = "livePost" /\ call'.id = 0 /\ call'.body = call.body /\ call'.batch = <<>>
          /\ currentId' = 0
      BY <1>5, <2>3 DEF LiveEditAnswer, Await
    <3> QED  BY <2>1, <2>3, <3>1 DEF Answered, Reposting, LiveIdAfter, CallSite
  <2> QED  BY <2>2, <2>3
<1>6. CASE LivePostAnswer(o)
  BY <1>2, <1>6 DEF LivePostAnswer, Answered, Ended, LiveIdAfter, CallSite, liveVars
<1>7. ASSUME NEW at, Await("open", 0, Scroll(call.batch), call.batch)
      PROVE  /\ call'.at = "open" /\ call'.id = 0 /\ call'.body = Scroll(call.batch)
             /\ call'.batch = call.batch
  BY <1>7 DEF Await
<1>8. CASE DemoteAnswer(o)
  <2>1. call.at = "demote" /\ Answer(call.at, o) /\ currentId' = currentId
    BY <1>2, <1>8 DEF DemoteAnswer
  <2>2. CASE o = "ok"
    <3>1. call' = NoCall /\ active' = [id |-> MessageId, body |-> call.body]
      BY <1>8, <2>2 DEF DemoteAnswer
    <3> QED  BY <2>1, <2>2, <3>1 DEF Answered, Ended, LiveIdAfter, CallSite
  <2>3. CASE o # "ok"
    <3>1. Await("open", 0, Scroll(call.batch), call.batch) /\ active' = active
      BY <1>8, <2>3 DEF DemoteAnswer
    <3> QED  BY <1>7, <2>1, <2>3, <3>1 DEF Answered, Opening, LiveIdAfter, CallSite
  <2> QED  BY <2>2, <2>3
<1>9. CASE OpenAnswer(o)
  <2>1. call.at = "open" /\ Answer(call.at, o) /\ currentId' = currentId /\ call' = NoCall
        /\ active' = Opened(o)
    BY <1>2, <1>9 DEF OpenAnswer, liveVars
  <2>2. IF o = "ok" THEN active'.id = MessageId /\ active'.body = call.body ELSE active' = active
    BY <2>1 DEF Opened
  <2> QED  BY <2>1, <2>2 DEF Answered, Ended, LiveIdAfter, CallSite
<1>10. CASE ExtendAnswer(o)
  <2>1. call.at = "extend" /\ Answer(call.at, o) /\ currentId' = currentId
    BY <1>2, <1>10 DEF ExtendAnswer, liveVars
  <2>2. CASE o = "ok"
    <3>1. call' = NoCall /\ active' = [active EXCEPT !.body = call.body]
      BY <1>10, <2>2 DEF ExtendAnswer, Extended
    <3>2. active'.id = active.id /\ active'.body = call.body
      BY <1>1, <3>1
    <3>3. active.id = MessageId
      BY <1>1, <2>1 DEF CallConsistent, MessageId
    <3> QED  BY <2>1, <2>2, <3>1, <3>2, <3>3 DEF Answered, Ended, LiveIdAfter, CallSite
  <2>3. CASE o # "ok"
    <3>1. /\ call'.at = "rollLock" /\ call'.id = active.id
          /\ call'.body = History(active.body) /\ call'.batch = call.batch /\ active' = NoBuffer
      BY <1>10, <2>3 DEF ExtendAnswer, LockActive, Await
    <3> QED  BY <2>1, <2>3, <3>1 DEF Answered, RollingOver, LiveIdAfter, CallSite
  <2> QED  BY <2>2, <2>3
<1>11. CASE RollLockAnswer(o)
  <2>1. /\ call.at = "rollLock" /\ Answer(call.at, o) /\ currentId' = currentId /\ active' = active
        /\ Await("open", 0, Scroll(call.batch), call.batch)
    BY <1>2, <1>11 DEF RollLockAnswer, liveVars
  <2> QED  BY <1>7, <2>1 DEF Answered, Opening, LiveIdAfter, CallSite
<1> QED
  BY <1>3, <1>4, <1>5, <1>6, <1>8, <1>9, <1>10, <1>11 DEF AnyAnswer

\* The message an answer leaves written, if the platform did what it was asked.
LEMMA AnswerTranscript ==
  ASSUME TypeOK, NEW o \in Outcomes, Answered(o)
  PROVE  /\ transcript \in Seq(Body) /\ transcript' \in Seq(Body) /\ Len(transcript) \in Nat
         /\ DOMAIN transcript = 1..Len(transcript)
         /\ MessageId \in 1..(Len(transcript) + 1)
         /\ (call.id = 0 <=> MessageId = Len(transcript) + 1) /\ (call.id # 0 <=> MessageId = call.id)
         /\ o = "err" => transcript' = transcript /\ shown' = shown
         /\ o # "err" => /\ DOMAIN transcript' = DOMAIN transcript \cup {MessageId}
                         /\ transcript'[MessageId] = call.body
                         /\ \A m \in DOMAIN transcript \ {MessageId} : transcript'[m] = transcript[m]
                         /\ shown' = shown \cup Units(call.body.rows)
         /\ taken' = taken /\ anchors' = anchors /\ queue' = queue /\ latestLive' = latestLive
         /\ sent' = sent
         /\ (faults' = 0 => o = "ok" /\ faults = 0) /\ (o = "ok" => faults' = faults)
         /\ (o # "ok" => faults' # 0)
<1>1. /\ transcript \in Seq(Body) /\ Len(transcript) \in Nat /\ faults \in Nat
      /\ call.id \in 0..Len(transcript) /\ call.body \in Body
      /\ DOMAIN transcript = 1..Len(transcript)
  BY LenProperties DEF TypeOK, Call
<1>2. /\ Answer(call.at, o) /\ call.at \in CallSite \ {"idle"}
  BY DEF Answered
<1>3. /\ transcript' = IF o = "err" THEN transcript ELSE Written
      /\ shown' = IF o = "err" THEN shown ELSE shown \cup Units(call.body.rows)
      /\ taken' = taken /\ anchors' = anchors /\ queue' = queue /\ latestLive' = latestLive
      /\ sent' = sent
      /\ faults' = IF o = "ok" THEN faults ELSE faults + 1
  BY <1>2 DEF Answer, queueVars, handleVars
<1>4. transcript' \in Seq(Body)
  BY <1>2, AnswerType
<1> DEFINE WrittenFacts ==
             /\ MessageId \in 1..(Len(transcript) + 1)
             /\ (call.id = 0 <=> MessageId = Len(transcript) + 1) /\ (call.id # 0 <=> MessageId = call.id)
             /\ DOMAIN Written = DOMAIN transcript \cup {MessageId}
             /\ Written[MessageId] = call.body
             /\ \A m \in DOMAIN transcript \ {MessageId} : Written[m] = transcript[m]
<1>5. ASSUME call.id = 0
      PROVE  WrittenFacts
  <2>1. Written = Append(transcript, call.body) /\ MessageId = Len(transcript) + 1
    BY <1>5 DEF Written, MessageId
  <2>2. /\ Written \in Seq(Body) /\ Len(Written) = Len(transcript) + 1
        /\ Written[Len(transcript) + 1] = call.body
        /\ \A m \in 1..Len(transcript) : Written[m] = transcript[m]
    BY <1>1, <2>1, AppendProperties
  <2>3. DOMAIN Written = 1..Len(transcript) \cup {Len(transcript) + 1}
    BY <1>1, <2>2, LenProperties
  <2>4. MessageId \in 1..(Len(transcript) + 1) /\ MessageId \notin 1..Len(transcript) /\ MessageId # 0
    BY <1>1, <2>1
  <2> HIDE DEF MessageId
  <2> QED  BY <1>1, <1>5, <2>1, <2>2, <2>3, <2>4
<1>6. ASSUME call.id # 0
      PROVE  WrittenFacts
  <2>1. Written = [transcript EXCEPT ![call.id] = call.body] /\ MessageId = call.id
        /\ call.id \in 1..Len(transcript)
    BY <1>1, <1>6 DEF Written, MessageId
  <2>2. /\ DOMAIN Written = 1..Len(transcript) /\ Written[call.id] = call.body
        /\ \A m \in 1..Len(transcript) \ {call.id} : Written[m] = transcript[m]
    BY <1>1, <2>1
  <2>3. call.id # Len(transcript) + 1
    BY <1>1
  <2> QED  BY <1>1, <1>6, <2>1, <2>2, <2>3
<1>7. WrittenFacts
  BY <1>5, <1>6
<1>8. /\ faults' = 0 => o = "ok" /\ faults = 0
      /\ o = "ok" => faults' = faults
      /\ o # "ok" => faults' # 0
  BY <1>1, <1>3
<1> QED
  BY <1>1, <1>3, <1>4, <1>7, <1>8

\* What a cut leaves alone.
Shrinking ==
  /\ call.body.kind \in {"scroll", "history"} /\ call.at \notin {"idle", "stream", "liveEdit", "livePost"}
  /\ call'.at = call.at /\ call'.id = call.id /\ call'.batch = call.batch
  /\ call'.body.kind = call.body.kind /\ call'.body.text = call.body.text
  /\ \E k \in 1..Len(call.body.rows) :
       \E last \in call.body.rows[k].lo..call.body.rows[k].hi :
         call'.body.rows = Cut(call.body.rows, k, last)
  /\ faults' # 0
  /\ UNCHANGED <<handleVars, queueVars, liveVars, transcript, shown, latestLive, active, stopped>>

LEMMA TooLongShrinks ==
  ASSUME OpenInv, TooLong
  PROVE  Shrinking
<1>1. /\ TypeOK /\ CallConsistent /\ call \in Call /\ call.body \in Body /\ faults \in Nat
  BY DEF OpenInv, TypeOK, Call
<1>2. PICK k \in 1..Len(call.body.rows) : \E last \in call.body.rows[k].lo..call.body.rows[k].hi :
        /\ Cut(call.body.rows, k, last) # call.body.rows
        /\ call' = [call EXCEPT !.body.rows = Cut(call.body.rows, k, last)]
  BY DEF TooLong
<1>3. PICK last \in call.body.rows[k].lo..call.body.rows[k].hi :
        call' = [call EXCEPT !.body.rows = Cut(call.body.rows, k, last)]
  BY <1>2
<1>4. /\ call'.at = call.at /\ call'.id = call.id /\ call'.batch = call.batch
      /\ call'.body.kind = call.body.kind /\ call'.body.text = call.body.text
      /\ call'.body.rows = Cut(call.body.rows, k, last)
  BY <1>1, <1>3 DEF Call, Body
<1>5. /\ call.body.kind \in {"scroll", "history"} /\ faults' = faults + 1
      /\ UNCHANGED <<handleVars, queueVars, liveVars, transcript, shown, latestLive, active, stopped>>
  BY DEF TooLong
<1>6. call.at \notin {"stream", "liveEdit", "livePost"}
  BY <1>1, <1>5 DEF CallConsistent, LiveBody
<1>7. call.at # "idle"
  <2>1. call # NoCall
    <3>1. call.body.rows # <<>>
      BY <1>1 DEF Body
    <3> QED  BY <3>1 DEF NoCall, Scroll
  <2> QED  BY <1>1, <2>1 DEF CallConsistent
<1> QED
  BY <1>1, <1>4, <1>5, <1>6, <1>7 DEF Shrinking
-----------------------------------------------------------------------------
(* Where rows are.                                                          *)

LEMMA TypeFacts ==
  ASSUME TypeOK
  PROVE  /\ transcript \in Seq(Body) /\ Len(transcript) \in Nat /\ DOMAIN transcript = 1..Len(transcript)
         /\ \A m \in DOMAIN transcript : transcript[m] \in Body /\ transcript[m].rows \in Seq(Span)
         /\ active.body \in Body /\ active.body.rows \in Seq(Span) /\ active.id \in 0..Len(transcript)
         /\ call.body \in Body /\ call.body.rows \in Seq(Span) /\ call.batch \in Seq(Span)
         /\ call.id \in 0..Len(transcript) /\ currentId \in 0..Len(transcript)
         /\ taken \in Nat /\ anchors \in SUBSET Nat /\ shown \in SUBSET Nat /\ faults \in Nat
         /\ sent \in Nat
<1>1. /\ transcript \in Seq(Body) /\ Len(transcript) \in Nat /\ DOMAIN transcript = 1..Len(transcript)
  BY LenProperties DEF TypeOK
<1>2. \A m \in DOMAIN transcript : transcript[m] \in Body
  BY <1>1, ElementOfSeq
<1>3. \A b \in Body : b.rows \in Seq(Span)
  BY DEF Body
<1>4. active.body \in Body /\ active.id \in 0..Len(transcript)
  BY DEF TypeOK
<1>5. call.body \in Body /\ call.batch \in Seq(Span) /\ call.id \in 0..Len(transcript)
  BY <1>1 DEF TypeOK, Call
<1>6. /\ currentId \in 0..Len(transcript) /\ sent \in Nat
      /\ taken \in Nat /\ anchors \in SUBSET Nat /\ shown \in SUBSET Nat /\ faults \in Nat
  BY DEF TypeOK
<1> QED
  BY <1>1, <1>2, <1>3, <1>4, <1>5, <1>6

LEMMA BodyFields ==
  /\ \A rows : Scroll(rows).rows = rows /\ Scroll(rows).kind = "scroll"
  /\ \A b \in Body : History(b).rows = b.rows /\ History(b).kind = "history"
  /\ \A t : LiveBody(t).rows = <<>> /\ LiveBody(t).kind = "live" /\ LiveBody(t).text = t
  /\ NoBuffer.id = 0 /\ NoBuffer.body.rows = <<>>
  /\ NoCall.at = "idle" /\ NoCall.id = 0 /\ NoCall.batch = <<>>
  /\ NoCall.body = Scroll(<<>>) /\ NoCall.body.rows = <<>>
BY DEF Scroll, History, Body, LiveBody, NoBuffer, NoCall

\* What is in an extended body.
LEMMA ExtensionFields ==
  ASSUME TypeOK, NEW batch
  PROVE  Extension(batch).rows = active.body.rows \o batch /\ Extension(batch).kind = active.body.kind
BY TypeFacts DEF Extension, Body

\* Anchors that leave the queue come after all there were.
LEMMA StartsAnchors ==
  ASSUME TypeOK, PlacedInv, Starts
  PROVE  /\ taken' \in Nat /\ taken <= taken' /\ anchors' \subseteq 1..taken'
         /\ anchors' \in {anchors, anchors \cup {taken + 1}}
         /\ \A rows \in Seq(Span) : Placed(rows, taken, anchors) => Placed(rows, taken', anchors')
<1>1. taken \in Nat /\ taken' \in Nat /\ taken <= taken' /\ anchors \subseteq 1..taken
      /\ anchors \in SUBSET Nat
  BY TypeFacts DEF Starts, Takes, PlacedInv
<1>2. AnchorAtMost \/ anchors' = anchors
  BY DEF Starts, Sealing, Forgetting, Showing, Batching
<1>3. anchors' \in {anchors, anchors \cup {taken + 1}} /\ (anchors' # anchors => taken' = taken + 1)
  BY <1>2 DEF AnchorAtMost
<1>4. anchors' \subseteq 1..taken'
  BY <1>1, <1>3
<1>5. \A rows \in Seq(Span) : Placed(rows, taken, anchors) => Placed(rows, taken', anchors')
  BY <1>1, <1>3, PlacedLater
<1> QED
  BY <1>1, <1>3, <1>4, <1>5

LEMMA StartsPlaced ==
  ASSUME OpenInv, PlacedInv, BelowInv, Starts
  PROVE  PlacedInv'
<1>1. TypeOK /\ call = NoCall /\ call.at = "idle" /\ sinkVars' = sinkVars
  BY IdleFacts DEF OpenInv, Starts
<1>2. /\ taken \in Nat /\ taken' \in Nat /\ taken <= taken' /\ anchors' \subseteq 1..taken'
      /\ \A rows \in Seq(Span) : Placed(rows, taken, anchors) => Placed(rows, taken', anchors')
      /\ anchors \subseteq 1..taken
  BY <1>1, StartsAnchors, TypeFacts DEF PlacedInv
<1>3. /\ shown' \subseteq 1..taken' /\ transcript' = transcript /\ shown' = shown
      /\ \A m \in DOMAIN transcript : /\ Placed(transcript[m].rows, taken', anchors')
                                      /\ Units(transcript[m].rows) \subseteq shown
  <2>1. \A m \in DOMAIN transcript : transcript[m].rows \in Seq(Span)
    BY <1>1, TypeFacts
  <2> QED  BY <1>1, <1>2, <2>1 DEF PlacedInv, sinkVars
<1>4. Placed(active.body.rows, taken', anchors') /\ Placed(<<>>, taken', anchors')
  BY <1>1, <1>2, TypeFacts, PlacedEmpty DEF PlacedInv
<1>5. /\ Placed(active'.body.rows, taken', anchors')
      /\ Placed(call'.body.rows, taken', anchors')
      /\ Placed(call'.batch, taken', anchors')
  <2>1. CASE Sealing
    BY <1>1, <1>4, <2>1, BodyFields, TypeFacts DEF Sealing
  <2>2. CASE Forgetting
    BY <1>1, <1>4, <2>2, BodyFields DEF Forgetting
  <2>3. CASE Showing
    BY <1>4, <2>3, BodyFields DEF Showing
  <2>4. CASE Batching
    <3> DEFINE batch == call'.batch
    <3>1. active' = active /\ NewBatch(batch) /\ anchors' = anchors
      BY <2>4 DEF Batching
    <3> HIDE DEF batch
    <3>2. Placed(batch, taken', anchors')
      BY <1>2, <3>1, NewBatchPlaced
    <3>3. call'.body.rows = batch \/ (active.id # 0 /\ call'.body.rows = active.body.rows \o batch)
      BY <1>1, <2>4, BodyFields, ExtensionFields DEF Batching, batch
    <3>4. active.id # 0 => Placed(active.body.rows \o batch, taken', anchors')
      BY <1>1, <1>2, <3>1, TypeFacts, ExtensionPlaced DEF PlacedInv, BelowInv
    <3> QED  BY <1>4, <3>1, <3>2, <3>3, <3>4 DEF batch
  <2> QED  BY <2>1, <2>2, <2>3, <2>4 DEF Starts
<1> QED
  BY <1>2, <1>3, <1>5 DEF PlacedInv

LEMMA StartsBelow ==
  ASSUME OpenInv, PlacedInv, BelowInv, Starts
  PROVE  BelowInv'
<1>1. TypeOK /\ call = NoCall /\ call.at = "idle" /\ active.body.rows \in Seq(Span)
  BY IdleFacts, TypeFacts DEF OpenInv, Starts
<1>2. CASE Sealing \/ Forgetting \/ Showing
  <2>1. call'.at \in {"fullLock", "anchorLock", "idle", "liveEdit", "livePost"}
    BY <1>1, <1>2 DEF Sealing, Forgetting, Showing
  <2>2. active'.id # 0 => active' = active /\ active.id # 0 /\ anchors' = anchors
    BY <1>2, BodyFields DEF Sealing, Forgetting, Showing
  <2> QED  BY <2>1, <2>2 DEF BelowInv, Carrying, Publishing
<1>3. CASE Batching
  <2> DEFINE batch == call'.batch
  <2>1. active' = active /\ NewBatch(batch) /\ anchors' = anchors
        /\ call'.at \in {"stream", "demote", "open", "extend"}
    BY <1>3 DEF Batching
  <2>2. call'.body.rows = batch \/ (active.id # 0 /\ call'.body.rows = active.body.rows \o batch)
    BY <1>1, <1>3, BodyFields, ExtensionFields DEF Batching
  <2> HIDE DEF batch
  <2>3. /\ taken \in Nat /\ taken' \in Nat /\ taken <= taken' /\ anchors \subseteq 1..taken
    BY <1>1, TypeFacts DEF Starts, Takes, PlacedInv
  <2>4. Below(batch, anchors) /\ batch # <<>>
    BY <2>1, <2>3, NewBatchPlaced DEF NewBatch
  <2>5. active.id # 0 => Below(active.body.rows \o batch, anchors)
    BY <1>1, <2>1, <2>3, ExtensionPlaced DEF PlacedInv, BelowInv
  <2>6. active.id # 0 => Below(active.body.rows, anchors)
    BY DEF BelowInv
  <2> QED  BY <2>1, <2>2, <2>4, <2>5, <2>6 DEF BelowInv, Carrying, Publishing, batch
<1> QED
  BY <1>2, <1>3 DEF Starts

LEMMA StartsFresh ==
  ASSUME OpenInv, PlacedInv, FreshInv, Starts
  PROVE  FreshInv'
<1>1. TypeOK /\ call = NoCall /\ call.at = "idle" /\ shown' = shown /\ active.body.rows \in Seq(Span)
      /\ shown \subseteq 1..taken /\ taken \in Nat /\ taken' \in Nat /\ active.body \in Body
  BY IdleFacts, TypeFacts DEF OpenInv, Starts, sinkVars, PlacedInv, Takes
<1>2. active.id # 0 => Units(active.body.rows) \subseteq shown
  BY TypeFacts DEF OpenInv, OpenMessagesInSync, PlacedInv, TypeOK
<1>3. Units(<<>>) = {}
  BY DEF Units
<1>4. CASE Sealing \/ Forgetting \/ Showing
  <2>1. call'.at \in {"fullLock", "anchorLock", "idle", "liveEdit", "livePost"} /\ call'.batch = <<>>
    BY <1>1, <1>4, BodyFields DEF Sealing, Forgetting, Showing
  <2>2. Units(call'.body.rows) \subseteq shown
    BY <1>1, <1>2, <1>3, <1>4, BodyFields DEF Sealing, Forgetting, Showing
  <2> QED  BY <1>1, <1>3, <2>1, <2>2 DEF FreshInv, Carrying, Publishing
<1>5. CASE Batching
  <2> DEFINE batch == call'.batch
  <2>1. NewBatch(batch) /\ call'.at \in {"stream", "demote", "open", "extend"}
    BY <1>5 DEF Batching
  <2>2. call'.body.rows = batch \/ (active.id # 0 /\ call'.body.rows = active.body.rows \o batch)
    BY <1>1, <1>5, BodyFields, ExtensionFields DEF Batching
  <2> HIDE DEF batch
  <2>3. batch \in Seq(Span) /\ Units(batch) = (taken + 1)..taken'
    BY <2>1 DEF NewBatch
  <2>4. active.id # 0 => Units(active.body.rows \o batch) = Units(active.body.rows) \cup Units(batch)
    BY <1>1, <2>3, UnitsConcat
  <2>5. \A v \in shown, u \in Units(batch) : v < u
    BY <1>1, <2>3
  <2>6. Units(call'.body.rows) \subseteq shown \cup Units(batch)
        /\ Units(batch) \subseteq Units(call'.body.rows)
    BY <1>2, <2>2, <2>4
  <2> QED  BY <1>1, <2>1, <2>5, <2>6 DEF FreshInv, Carrying, Publishing, batch
<1> QED
  BY <1>4, <1>5 DEF Starts

LEMMA StartsLive ==
  ASSUME OpenInv, Starts
  PROVE  LiveInv'
<1>1. call = NoCall /\ call.at = "idle" /\ latestLive' = latestLive
  BY IdleFacts DEF OpenInv, Starts
<1>2. call'.at \in {"liveEdit", "livePost"} => Showing
  BY <1>1 DEF Starts, Sealing, Forgetting, Batching
<1> QED
  BY <1>1, <1>2, BodyFields DEF LiveInv, Showing

LEMMA EmptyFits == BodySize(Scroll(<<>>)) <= Limit
<1>1. Scroll(<<>>).rows = <<>>
  BY DEF Scroll
<1>2. BodySize(Scroll(<<>>)) = FreshOverhead + 0
  BY <1>1, MeasureEmpty DEF BodySize
<1> QED
  BY <1>2, SizeAssumption

LEMMA StartsSize ==
  ASSUME OpenInv, SizeInv, Starts
  PROVE  SizeInv'
<1>1. TypeOK /\ call = NoCall /\ call.at = "idle" /\ transcript' = transcript
      /\ active.body \in Body
  BY IdleFacts, TypeFacts DEF OpenInv, Starts, sinkVars
<1>2. BodySize(Scroll(<<>>)) <= Limit
  BY EmptyFits
<1>3. \A m \in Scrollback' : BodySize(transcript'[m]) <= Limit
  BY <1>1 DEF SizeInv, Scrollback
<1>4. active.id # 0 => BodySize(active.body) <= Limit
  BY ActiveFits
<1>5. ASSUME NEW b1, NEW b2, b1.rows = b2.rows PROVE BodySize(b1) = BodySize(b2)
  BY <1>5 DEF BodySize
<1>6. /\ call'.body.kind \in {"scroll", "history"} => BodySize(call'.body) <= Limit
      /\ BodySize(Scroll(call'.batch)) <= Limit
  <2>1. CASE Sealing
    BY <1>1, <1>2, <1>4, <1>5, <2>1, BodyFields DEF Sealing
  <2>2. CASE Forgetting
    BY <1>1, <1>2, <2>2, BodyFields DEF Forgetting
  <2>3. CASE Showing
    BY <1>2, <2>3, BodyFields DEF Showing
  <2>4. CASE Batching
    BY <2>4 DEF Batching, NewBatch
  <2> QED  BY <2>1, <2>2, <2>3, <2>4 DEF Starts
<1>7. \A m \in Scrollback' : BodySize(transcript[m])' <= Limit
  BY <1>1, <1>3 DEF BodySize
<1>8. BodySize(call.body)' = BodySize(call'.body) /\ BodySize(Scroll(call.batch))' = BodySize(Scroll(call'.batch))
  BY DEF BodySize, Scroll
<1> QED
  BY <1>6, <1>7, <1>8 DEF SizeInv
\* The bodies there are after an answer.
LEMMA AnsweredBodies ==
  ASSUME OpenInv, NEW o \in Outcomes, Answered(o)
  PROVE  /\ \A m \in DOMAIN transcript' : \/ m \in DOMAIN transcript /\ transcript'[m] = transcript[m]
                                          \/ o # "err" /\ m = MessageId /\ transcript'[m] = call.body
         /\ active'.body.rows \in {active.body.rows, <<>>, call.body.rows}
         /\ call'.body.rows \in {<<>>, call.body.rows, call.batch, active.body.rows}
         /\ call'.batch \in {<<>>, call.batch}
<1>1. TypeOK /\ active.body \in Body
  BY TypeFacts DEF OpenInv
<1>2. \A m \in DOMAIN transcript' : \/ m \in DOMAIN transcript /\ transcript'[m] = transcript[m]
                                    \/ o # "err" /\ m = MessageId /\ transcript'[m] = call.body
  BY <1>1, AnswerTranscript
<1>3. Ended \/ Reposting \/ Opening(o) \/ RollingOver(o)
  BY DEF Answered
<1> QED
  BY <1>1, <1>2, <1>3, BodyFields DEF Ended, Reposting, Opening, RollingOver

LEMMA AnsweredPlaced ==
  ASSUME OpenInv, PlacedInv, NEW o \in Outcomes, Answered(o)
  PROVE  PlacedInv'
<1>1. /\ TypeOK /\ taken' = taken /\ anchors' = anchors /\ taken \in Nat
      /\ anchors \subseteq 1..taken /\ shown \subseteq 1..taken
  BY AnswerTranscript, TypeFacts DEF OpenInv, PlacedInv
<1>2. /\ Placed(<<>>, taken, anchors) /\ Placed(active.body.rows, taken, anchors)
      /\ Placed(call.body.rows, taken, anchors) /\ Placed(call.batch, taken, anchors)
  BY PlacedEmpty DEF PlacedInv
<1>3. Units(call.body.rows) \subseteq 1..taken
  BY <1>1, <1>2, PlacedUnits, TypeFacts
<1>4. /\ shown' = IF o = "err" THEN shown ELSE shown \cup Units(call.body.rows)
  BY <1>1, AnswerTranscript
<1>5. ASSUME NEW m \in DOMAIN transcript'
      PROVE  /\ Placed(transcript'[m].rows, taken, anchors)
             /\ Units(transcript'[m].rows) \subseteq shown'
  <2>1. CASE m \in DOMAIN transcript /\ transcript'[m] = transcript[m]
    BY <1>4, <2>1 DEF PlacedInv
  <2>2. CASE o # "err" /\ transcript'[m] = call.body
    BY <1>2, <1>4, <2>2
  <2> QED  BY <2>1, <2>2, AnsweredBodies
<1>6. /\ Placed(active'.body.rows, taken, anchors) /\ Placed(call'.body.rows, taken, anchors)
      /\ Placed(call'.batch, taken, anchors)
  BY <1>2, AnsweredBodies
<1> QED
  BY <1>1, <1>3, <1>4, <1>5, <1>6 DEF PlacedInv

LEMMA AnsweredBelow ==
  ASSUME OpenInv, BelowInv, NEW o \in Outcomes, Answered(o)
  PROVE  BelowInv'
<1>1. TypeOK /\ anchors' = anchors
  BY AnswerTranscript DEF OpenInv
<1>2. /\ active.id # 0 => Below(active.body.rows, anchors)
      /\ call.at \in Carrying => call.batch # <<>> /\ Below(call.batch, anchors)
      /\ call.at \in Publishing => Below(call.body.rows, anchors)
  BY DEF BelowInv
<1>3. CASE Ended
  <2>1. active' = active \/ (call.at \in Publishing /\ active'.body = call.body)
    BY <1>3 DEF Ended, Publishing
  <2>2. call'.at \notin Carrying /\ call'.at \notin Publishing
    BY <1>3, BodyFields DEF Ended, Carrying, Publishing
  <2> QED  BY <1>1, <1>2, <2>1, <2>2 DEF BelowInv
<1>4. CASE Reposting
  BY <1>1, <1>2, <1>4 DEF Reposting, BelowInv, Carrying, Publishing
<1>5. CASE Opening(o)
  <2>1. /\ call.at \in Carrying /\ active' = active /\ call'.body.rows = call.batch
        /\ call'.batch = call.batch
    BY <1>5, BodyFields DEF Opening, Carrying, Publishing
  <2> QED  BY <1>1, <1>2, <2>1 DEF BelowInv
<1>6. CASE RollingOver(o)
  <2>1. /\ call.at \in Carrying /\ active'.id = 0 /\ call'.batch = call.batch
        /\ call'.at \notin Publishing
    BY <1>6, BodyFields DEF RollingOver, Carrying, Publishing
  <2> QED  BY <1>1, <1>2, <2>1 DEF BelowInv
<1> QED
  BY <1>3, <1>4, <1>5, <1>6 DEF Answered

LEMMA AnsweredFresh ==
  ASSUME OpenInv, PlacedInv, FreshInv, NEW o \in Outcomes, Answered(o)
  PROVE  FreshInv'
<1>1. TypeOK /\ shown \subseteq shown' /\ Units(<<>>) = {}
      /\ shown' \subseteq shown \cup Units(call.body.rows)
  BY AnswerTranscript DEF OpenInv, Units
<1>2. /\ call.at \notin Publishing => Units(call.body.rows) \subseteq shown
      /\ \A v \in shown, u \in Units(call.batch) \ shown : v < u
      /\ call.at \in Publishing =>
           \A v \in Units(call.body.rows), u \in Units(call.batch) \ Units(call.body.rows) : v < u
  BY DEF FreshInv
<1>3. \A v \in shown', u \in Units(call.batch) \ shown' : v < u
  <2>1. CASE shown' = shown
    BY <1>2, <2>1
  <2>2. CASE shown' # shown
    <3>1. shown' = shown \cup Units(call.body.rows)
      BY <1>1, <2>2, AnswerTranscript
    <3>2. call.at \in Publishing
      BY <1>2, <2>2, <3>1
    <3> QED  BY <1>2, <3>1, <3>2
  <2> QED  BY <2>1, <2>2
<1>4. CASE Ended
  <2>1. call'.at = "idle" /\ call'.batch = <<>> /\ call'.body.rows = <<>>
    BY <1>4, BodyFields DEF Ended
  <2> QED  BY <1>1, <2>1 DEF FreshInv, Carrying, Publishing
<1>5. CASE Reposting
  <2>1. /\ call'.at = "livePost" /\ call'.batch = <<>> /\ call'.body.rows = call.body.rows
        /\ call.at = "liveEdit"
    BY <1>5 DEF Reposting
  <2>2. Units(call.body.rows) \subseteq shown
    BY <1>2, <2>1 DEF Publishing
  <2> QED  BY <1>1, <2>1, <2>2 DEF FreshInv, Carrying, Publishing
<1>6. CASE Opening(o)
  <2>1. call'.at = "open" /\ call'.batch = call.batch /\ call'.body.rows = call.batch
    BY <1>6, BodyFields DEF Opening
  <2> QED  BY <1>3, <2>1 DEF FreshInv, Carrying, Publishing
<1>7. CASE RollingOver(o)
  <2>1. /\ call'.at = "rollLock" /\ call'.batch = call.batch /\ call.at = "extend"
        /\ call'.body.rows = active.body.rows
    BY <1>1, <1>7, BodyFields, TypeFacts DEF RollingOver
  <2>2. transcript[active.id] = active.body /\ active.id \in DOMAIN transcript
    BY <1>1, <2>1, TypeFacts DEF OpenInv, CallConsistent, OpenMessagesInSync
  <2>3. Units(active.body.rows) \subseteq shown
    BY <2>2 DEF PlacedInv
  <2> QED  BY <1>1, <1>3, <2>1, <2>3 DEF FreshInv, Carrying, Publishing
<1> QED
  BY <1>4, <1>5, <1>6, <1>7 DEF Answered

LEMMA AnsweredLive ==
  ASSUME OpenInv, LiveInv, NEW o \in Outcomes, Answered(o)
  PROVE  LiveInv'
<1>1. TypeOK /\ queue' = queue /\ latestLive' = latestLive
  BY AnswerTranscript DEF OpenInv
<1>2. call'.at \in {"liveEdit", "livePost"} => call.at = "liveEdit" /\ call'.body = call.body
  BY BodyFields DEF Answered, Ended, Reposting, Opening, RollingOver
<1> QED
  BY <1>1, <1>2 DEF LiveInv

LEMMA AnsweredSize ==
  ASSUME OpenInv, SizeInv, NEW o \in Outcomes, Answered(o)
  PROVE  SizeInv'
<1>1. TypeOK /\ active.body \in Body
  BY TypeFacts DEF OpenInv
<1>2. /\ \A m \in DOMAIN transcript :
           transcript[m].kind \in {"scroll", "history"} => BodySize(transcript[m]) <= Limit
      /\ call.body.kind \in {"scroll", "history"} => BodySize(call.body) <= Limit
      /\ BodySize(Scroll(call.batch)) <= Limit
  BY DEF SizeInv, Scrollback
<1>3. \A m \in DOMAIN transcript' :
        transcript'[m].kind \in {"scroll", "history"} => BodySize(transcript'[m]) <= Limit
  BY <1>2, AnsweredBodies
<1>4. ASSUME NEW b1, NEW b2, b1.rows = b2.rows PROVE BodySize(b1) = BodySize(b2)
  BY <1>4 DEF BodySize
<1>5. /\ call'.body.kind \in {"scroll", "history"} => BodySize(call'.body) <= Limit
      /\ BodySize(Scroll(call'.batch)) <= Limit
  <2>1. CASE Ended
    BY <2>1, EmptyFits, BodyFields DEF Ended
  <2>2. CASE Reposting
    BY <1>2, <2>2, EmptyFits DEF Reposting
  <2>3. CASE Opening(o)
    BY <1>2, <2>3 DEF Opening
  <2>4. CASE RollingOver(o)
    <3>1. active.id # 0
      BY <2>4 DEF RollingOver, OpenInv, CallConsistent
    <3>2. BodySize(active.body) <= Limit
      BY <3>1, ActiveFits
    <3>3. BodySize(History(active.body)) = BodySize(active.body)
      BY <1>1, <1>4, BodyFields
    <3> QED  BY <1>2, <2>4, <3>2, <3>3 DEF RollingOver
  <2> QED  BY <2>1, <2>2, <2>3, <2>4 DEF Answered
<1>6. \A m \in Scrollback' : BodySize(transcript[m])' <= Limit
  BY <1>3 DEF BodySize, Scrollback
<1>7. BodySize(call.body)' = BodySize(call'.body) /\ BodySize(Scroll(call.batch))' = BodySize(Scroll(call'.batch))
  BY DEF BodySize, Scroll
<1> QED
  BY <1>5, <1>6, <1>7 DEF SizeInv

LEMMA AnsweredLiveIsEmpty ==
  ASSUME OpenInv, LiveIsEmpty, NEW o \in Outcomes, Answered(o)
  PROVE  LiveIsEmpty'
<1>1. call.body.kind = "live" => call.body.rows = <<>>
  <2>1. call.at \in {"liveEdit", "livePost"} => call.body = LiveBody(call.body.text)
    BY DEF OpenInv, CallConsistent
  <2>2. call.at \in CallSite \ {"idle", "liveEdit", "livePost"} => call.body.kind # "live"
    BY DEF OpenInv, CallConsistent, CallSite
  <2> QED  BY <2>1, <2>2, BodyFields DEF Answered
<1> QED
  BY <1>1, AnsweredBodies DEF LiveIsEmpty

-----------------------------------------------------------------------------
(* A cut.                                                                   *)

LEMMA ShrinkingPlaced ==
  ASSUME OpenInv, PlacedInv, BelowInv, FreshInv, Shrinking
  PROVE  PlacedInv' /\ BelowInv' /\ FreshInv'
<1>1. /\ TypeOK /\ taken \in Nat /\ anchors \in SUBSET Nat /\ call.body.rows \in Seq(Span)
      /\ UNCHANGED <<taken, anchors, transcript, shown, active>>
      /\ call'.at = call.at /\ call'.batch = call.batch
  BY TypeFacts DEF OpenInv, Shrinking, queueVars
<1>2. /\ Placed(call'.body.rows, taken, anchors)
      /\ Below(call.body.rows, anchors) => Below(call'.body.rows, anchors)
      /\ Units(call'.body.rows) \subseteq Units(call.body.rows)
      /\ \A v \in Units(call'.body.rows), u \in Units(call.body.rows) \ Units(call'.body.rows) : v < u
  <2>1. PICK k \in 1..Len(call.body.rows) :
          \E last \in call.body.rows[k].lo..call.body.rows[k].hi :
            call'.body.rows = Cut(call.body.rows, k, last)
    BY DEF Shrinking
  <2>2. PICK last \in call.body.rows[k].lo..call.body.rows[k].hi :
          call'.body.rows = Cut(call.body.rows, k, last)
    BY <2>1
  <2>3. Placed(call.body.rows, taken, anchors)
    BY DEF PlacedInv
  <2> QED  BY <1>1, <2>2, <2>3, CutPlaced
<1>3. PlacedInv'
  BY <1>1, <1>2 DEF PlacedInv
<1>4. BelowInv'
  BY <1>1, <1>2 DEF BelowInv
<1>5. FreshInv'
  <2>1. call.at \in Publishing =>
          \A v \in Units(call'.body.rows), u \in Units(call.batch) \ Units(call'.body.rows) : v < u
    <3> SUFFICES ASSUME call.at \in Publishing, NEW v \in Units(call'.body.rows),
                        NEW u \in Units(call.batch) \ Units(call'.body.rows)
                 PROVE  v < u
      OBVIOUS
    <3>1. CASE u \in Units(call.body.rows)
      BY <1>2, <3>1
    <3>2. CASE u \notin Units(call.body.rows)
      BY <1>2, <3>2 DEF FreshInv
    <3> QED  BY <3>1, <3>2
  <2>2. /\ call.at \notin Publishing => Units(call'.body.rows) \subseteq shown
        /\ call.at \in Publishing => Units(call'.body.rows) \subseteq shown \cup Units(call.batch)
    BY <1>2 DEF FreshInv
  <2> QED  BY <1>1, <2>1, <2>2 DEF FreshInv
<1> QED
  BY <1>3, <1>4, <1>5

LEMMA ShrinkingSize ==
  ASSUME OpenInv, SizeInv, LiveInv, LiveIsEmpty, Shrinking
  PROVE  SizeInv' /\ LiveInv' /\ LiveIsEmpty'
<1>1. /\ TypeOK /\ call.body.rows \in Seq(Span) /\ transcript' = transcript
      /\ call'.batch = call.batch /\ call'.body.kind = call.body.kind /\ call'.at = call.at
      /\ call.at \notin {"liveEdit", "livePost"}
      /\ call.body.kind \in {"scroll", "history"}
  BY TypeFacts DEF OpenInv, Shrinking
<1>2. PICK k \in 1..Len(call.body.rows) :
        \E last \in call.body.rows[k].lo..call.body.rows[k].hi :
          call'.body.rows = Cut(call.body.rows, k, last)
  BY DEF Shrinking
<1>3. PICK last \in call.body.rows[k].lo..call.body.rows[k].hi :
        call'.body.rows = Cut(call.body.rows, k, last)
  BY <1>2
<1>4. /\ Measure(call'.body.rows) <= Measure(call.body.rows)
      /\ Measure(call'.body.rows) \in Nat /\ Measure(call.body.rows) \in Nat
  BY <1>1, <1>3, CutProperties, MeasureType
<1>5. BodySize(call'.body) <= Limit
  <2>1. BodySize(call.body) <= Limit
    BY <1>1 DEF SizeInv
  <2> QED  BY <1>4, <2>1, SizeAssumption DEF BodySize
<1>6. \A m \in Scrollback' : BodySize(transcript[m])' <= Limit
  BY <1>1 DEF BodySize, SizeInv, Scrollback
<1>7. BodySize(call.body)' = BodySize(call'.body) /\ BodySize(Scroll(call.batch))' = BodySize(Scroll(call.batch))
  BY <1>1 DEF BodySize, Scroll
<1>8. SizeInv'
  BY <1>5, <1>6, <1>7 DEF SizeInv
<1>9. LiveInv' /\ LiveIsEmpty'
  BY <1>1 DEF LiveInv, LiveIsEmpty
<1> QED
  BY <1>8, <1>9
-----------------------------------------------------------------------------
(* As long as no call fails.                                                *)

LEMMA StartsPlain ==
  ASSUME OpenInv, Starts
  PROVE  PlainInv'
<1>1. /\ TypeOK /\ call = NoCall /\ call.at = "idle" /\ transcript' = transcript /\ active.body \in Body
      /\ active.id # 0 => transcript[active.id] = active.body /\ active.body.kind = "scroll"
      /\ currentId # 0 => transcript[currentId] = LiveBody(lastLive)
  BY IdleFacts, TypeFacts DEF OpenInv, Starts, sinkVars
<1>2. CASE Sealing
  BY <1>1, <1>2, BodyFields DEF Sealing, PlainInv
<1>3. CASE Forgetting \/ Showing
  BY <1>1, <1>3 DEF Forgetting, Showing, PlainInv
<1>4. CASE Batching
  <2>1. CASE call'.at = "extend"
    <3>1. active' = active /\ call'.body = Extension(call'.batch)
      BY <1>4, <2>1 DEF Batching
    <3>2. call'.body.rows = active'.body.rows \o call'.batch
      BY <1>1, <3>1, ExtensionFields
    <3> QED  BY <2>1, <3>2 DEF PlainInv
  <2>2. CASE call'.at = "demote"
    <3>1. call'.id = currentId /\ currentId # 0 /\ call'.body.rows = call'.batch
      BY <1>4, <2>2, BodyFields DEF Batching
    <3>2. transcript'[call'.id].kind = "live"
      BY <1>1, <3>1, BodyFields
    <3> QED  BY <2>2, <3>1, <3>2 DEF PlainInv
  <2>3. CASE call'.at = "open"
    <3>1. currentId' = 0 /\ call'.body.rows = call'.batch
      BY <1>4, <2>3, BodyFields DEF Batching
    <3> QED  BY <2>3, <3>1 DEF PlainInv
  <2>4. CASE call'.at = "stream"
    <3>1. call'.body.rows = call'.batch
      BY <1>4, <2>4 DEF Batching
    <3> QED  BY <2>4, <3>1 DEF PlainInv
  <2> QED  BY <1>4, <2>1, <2>2, <2>3, <2>4 DEF Batching
<1> QED
  BY <1>2, <1>3, <1>4 DEF Starts

LEMMA StartsOrder ==
  ASSUME OpenInv, PlacedInv, OrderInv, Starts
  PROVE  OrderInv'
<1> SUFFICES ASSUME faults' = 0 PROVE OrderInv'
  BY DEF OrderInv
<1>1. /\ TypeOK /\ call = NoCall /\ call.at = "idle" /\ transcript' = transcript /\ faults = 0
      /\ taken \in Nat
  BY IdleFacts, TypeFacts DEF OpenInv, Starts, sinkVars
<1>2. Scrollback' = Scrollback /\ \A m : ScrollRows(m)' = ScrollRows(m)
  BY <1>1 DEF Scrollback, ScrollRows
<1>3. /\ currentId' \in {currentId, 0} /\ active'.id \in {active.id, 0}
      /\ call'.at = "demote" => call'.id = currentId /\ currentId # 0
  BY <1>1, BodyFields DEF Starts, Sealing, Forgetting, Showing, Batching
<1>4. /\ \A m, n \in Scrollback :
           \A i \in DOMAIN ScrollRows(m), j \in DOMAIN ScrollRows(n) :
             m < n => ScrollRows(m)[i].hi < ScrollRows(n)[j].lo
      /\ \A m \in Scrollback : /\ currentId # 0 => m < currentId
                               /\ active.id # 0 => m <= active.id
  BY <1>1 DEF OrderInv
<1>5. call'.at \in Publishing => NewBatch(call'.batch)
  BY <1>1 DEF Starts, Sealing, Forgetting, Showing, Batching, Publishing
<1>6. ASSUME call'.at \in Publishing, NEW m \in Scrollback,
             NEW i \in DOMAIN ScrollRows(m), NEW j \in DOMAIN call'.batch
      PROVE  ScrollRows(m)[i].hi < call'.batch[j].lo
  <2>1. m \in DOMAIN transcript /\ ScrollRows(m) = transcript[m].rows
    BY DEF Scrollback, ScrollRows
  <2>2. ScrollRows(m) \in Seq(Span) /\ Placed(ScrollRows(m), taken, anchors)
    BY <1>1, <2>1, TypeFacts DEF PlacedInv
  <2>3. ScrollRows(m)[i].hi \in Nat /\ ScrollRows(m)[i].hi <= taken
    BY <2>2, SpanFacts DEF Placed, Upto
  <2>4. call'.batch \in Seq(Span) /\ taken < call'.batch[j].lo
    BY <1>5, <1>6 DEF NewBatch
  <2>5. call'.batch[j].lo \in Nat
    BY <2>4, SpanFacts
  <2> QED  BY <1>1, <2>3, <2>4, <2>5
<1> QED
  BY <1>2, <1>3, <1>4, <1>6 DEF OrderInv

LEMMA StartsOnce ==
  ASSUME OpenInv, PlacedInv, OnceInv, Starts
  PROVE  OnceInv'
<1> SUFFICES ASSUME faults' = 0, NEW u \in 1..taken'
             PROVE  (IF u \in anchors \cup Units(call.batch)
                       THEN Holders(u) = {}
                       ELSE \E m \in DOMAIN transcript : Holders(u) = {m})'
  BY DEF OnceInv
<1>1. /\ TypeOK /\ call = NoCall /\ call.at = "idle" /\ transcript' = transcript /\ faults = 0
      /\ taken \in Nat /\ taken' \in Nat /\ taken <= taken' /\ anchors \subseteq 1..taken
  BY IdleFacts, TypeFacts DEF OpenInv, Starts, sinkVars, Takes, PlacedInv
<1>2. Holders(u)' = Holders(u)
  BY <1>1 DEF Holders
<1>3. Units(call.batch)' = Units(call'.batch) /\ Units(<<>>) = {}
  BY DEF Units
<1>4. \/ Units(call'.batch) = {} /\ AnchorAtMost
      \/ Units(call'.batch) = (taken + 1)..taken' /\ anchors' = anchors
  <2>1. CASE Sealing
    BY <1>3, <2>1 DEF Sealing
  <2>2. CASE Forgetting
    BY <1>1, <1>3, <2>2, BodyFields DEF Forgetting
  <2>3. CASE Showing
    BY <1>3, <2>3 DEF Showing, AnchorAtMost
  <2>4. CASE Batching
    BY <2>4 DEF Batching, NewBatch
  <2> QED  BY <2>1, <2>2, <2>3, <2>4 DEF Starts
<1>5. CASE u <= taken
  <2>1. u \in 1..taken /\ u \notin (taken + 1)..taken' /\ u # taken + 1
    BY <1>1, <1>5
  <2>2. u \in anchors' <=> u \in anchors
    BY <1>4, <2>1 DEF AnchorAtMost
  <2>3. u \notin Units(call'.batch) /\ Units(call.batch) = {}
    BY <1>1, <1>3, <1>4, <2>1, BodyFields
  <2>4. IF u \in anchors \cup Units(call.batch) THEN Holders(u) = {}
        ELSE \E m \in DOMAIN transcript : Holders(u) = {m}
    BY <1>1, <2>1 DEF OnceInv
  <2> QED  BY <1>1, <1>2, <1>3, <2>2, <2>3, <2>4
<1>6. CASE taken < u
  <2>1. u \in (taken + 1)..taken'
    BY <1>1, <1>6
  <2>2. u \in anchors' \cup Units(call'.batch)
    BY <1>1, <1>4, <2>1 DEF AnchorAtMost
  <2>3. ASSUME NEW m \in Holders(u) PROVE FALSE
    <3>1. m \in DOMAIN transcript /\ u \in Units(transcript[m].rows)
      BY <2>3 DEF Holders
    <3>2. Units(transcript[m].rows) \subseteq 1..taken
      BY <1>1, <3>1, TypeFacts, PlacedUnits DEF PlacedInv
    <3> QED  BY <1>1, <1>6, <3>1, <3>2
  <2>4. Holders(u) = {}
    BY <2>3
  <2> QED  BY <1>2, <1>3, <2>2, <2>4
<1> QED
  BY <1>1, <1>5, <1>6

\* An answer to a call, when none has failed: the message it writes holds what
\* it held before and the batch.
LEMMA PlainAnswer ==
  ASSUME OpenInv, PlainInv, LiveIsEmpty, FreshInv, NEW o \in Outcomes, Answered(o), faults' = 0
  PROVE  /\ o = "ok" /\ faults = 0 /\ call' = NoCall
         /\ \/ /\ call.at \in {"stream", "livePost"} /\ MessageId = Len(transcript) + 1
               /\ call.body.kind \in {"stream", "live"} /\ active' = active
               /\ call.at = "stream" => currentId' = currentId /\ call.body.rows = call.batch
               /\ call.at = "livePost" => /\ currentId' = MessageId
                                          /\ call.body.rows = <<>> /\ call.batch = <<>>
            \/ /\ call.at = "liveEdit" /\ MessageId = currentId /\ currentId # 0
               /\ currentId' = currentId /\ active' = active
               /\ transcript[MessageId].kind = "live" /\ call.body.kind = "live"
               /\ transcript[MessageId].rows = <<>> /\ call.body.rows = <<>> /\ call.batch = <<>>
            \/ /\ call.at \in {"fullLock", "anchorLock"} /\ MessageId = call.id /\ call.id # 0
               /\ active' = active /\ currentId' \in {currentId, 0}
               /\ transcript[MessageId].kind = "scroll" /\ call.body.kind = "history"
               /\ transcript[MessageId].rows = call.body.rows /\ call.batch = <<>>
            \/ /\ call.at = "demote" /\ MessageId = call.id /\ call.id # 0
               /\ active'.id = MessageId /\ currentId' = 0 /\ call.body.kind = "scroll"
               /\ transcript[MessageId].kind = "live" /\ transcript[MessageId].rows = <<>>
               /\ call.body.rows = call.batch
            \/ /\ call.at = "open" /\ MessageId = Len(transcript) + 1
               /\ active'.id = MessageId /\ currentId' = 0 /\ call.body.kind = "scroll"
               /\ call.body.rows = call.batch
            \/ /\ call.at = "extend" /\ MessageId = active.id /\ active.id # 0
               /\ active'.id = active.id /\ currentId' = currentId /\ call.body.kind = "scroll"
               /\ transcript[MessageId].kind = "scroll"
               /\ call.body.rows = transcript[MessageId].rows \o call.batch
<1>1. /\ TypeOK /\ CallConsistent /\ OpenMessagesInSync
      /\ o = "ok" /\ faults = 0 /\ call.at \in CallSite \ {"idle"}
      /\ (call.id = 0 => MessageId = Len(transcript) + 1)
      /\ (call.id # 0 => MessageId = call.id /\ call.id \in DOMAIN transcript)
  BY AnswerTranscript, TypeFacts DEF OpenInv, Answered
<1>2. /\ call.at \in {"stream", "demote", "open"} => call.body.rows = call.batch
      /\ call.at = "extend" => call.body.rows = active.body.rows \o call.batch
      /\ call.at \in {"fullLock", "anchorLock"} =>
           transcript[call.id].kind = "scroll" /\ transcript[call.id].rows = call.body.rows
      /\ call.at = "demote" => transcript[call.id].kind = "live"
      /\ call.at # "rollLock"
      /\ call.at = "open" => currentId = 0
  BY <1>1 DEF PlainInv
<1>3. call' = NoCall /\ Ended /\ LiveIdAfter(o)
  BY <1>1, <1>2 DEF Answered, Reposting, Opening, RollingOver, Ended
<1>4. /\ call.at \notin {"demote", "open", "extend"} => active' = active
      /\ call.at \in {"demote", "open", "extend"} => active'.id = MessageId
      /\ call.at \notin Carrying => call.batch = <<>>
  BY <1>1, <1>3 DEF Ended, Answered, FreshInv
<1>5. /\ call.at \in {"liveEdit", "livePost"} => call.body.kind = "live" /\ call.body.rows = <<>>
  BY <1>1, BodyFields DEF CallConsistent
<1>6. CASE call.at = "stream"
  BY <1>1, <1>2, <1>3, <1>4, <1>6 DEF CallConsistent, LiveIdAfter
<1>7. CASE call.at = "livePost"
  BY <1>1, <1>3, <1>4, <1>5, <1>7 DEF CallConsistent, Answered, Carrying, Publishing
<1>8. CASE call.at = "liveEdit"
  <2>1. MessageId = currentId /\ currentId # 0 /\ transcript[currentId] = LiveBody(lastLive)
    BY <1>1, <1>8 DEF CallConsistent, OpenMessagesInSync
  <2>2. currentId' = currentId
    BY <1>1, <1>8 DEF Answered
  <2>3. call.batch = <<>> /\ active' = active
    BY <1>4, <1>8 DEF Carrying, Publishing
  <2> QED  BY <1>1, <1>3, <1>5, <1>8, <2>1, <2>2, <2>3, BodyFields
<1>9. CASE call.at \in {"fullLock", "anchorLock"}
  <2>1. call.id # 0 /\ call.body.kind = "history"
    BY <1>1, <1>9 DEF CallConsistent
  <2>2. call.batch = <<>> /\ active' = active
    BY <1>4, <1>9 DEF Carrying, Publishing
  <2>3. currentId' \in {currentId, 0}
    BY <1>3, <1>9 DEF LiveIdAfter
  <2> QED  BY <1>1, <1>2, <1>3, <1>9, <2>1, <2>2, <2>3
<1>10. CASE call.at = "demote"
  <2>1. call.id # 0 /\ currentId = 0 /\ call.body.kind = "scroll"
    BY <1>1, <1>10 DEF CallConsistent
  <2>2. transcript[call.id].rows = <<>>
    BY <1>1, <1>2, <1>10, <2>1 DEF LiveIsEmpty
  <2>3. currentId' = 0
    BY <1>3, <1>10, <2>1 DEF LiveIdAfter
  <2> QED  BY <1>1, <1>2, <1>3, <1>4, <1>10, <2>1, <2>2, <2>3
<1>11. CASE call.at = "open"
  <2>1. call.id = 0 /\ call.body.kind = "scroll"
    BY <1>1, <1>11 DEF CallConsistent
  <2>2. currentId' = 0
    BY <1>2, <1>3, <1>11 DEF LiveIdAfter
  <2> QED  BY <1>1, <1>2, <1>3, <1>4, <1>11, <2>1, <2>2
<1>12. CASE call.at = "extend"
  <2>1. call.id = active.id /\ active.id # 0 /\ call.body.kind = "scroll"
    BY <1>1, <1>12 DEF CallConsistent
  <2>2. transcript[active.id] = active.body /\ active.body.kind = "scroll"
    BY <1>1, <2>1 DEF OpenMessagesInSync
  <2>3. currentId' = currentId
    BY <1>3, <1>12 DEF LiveIdAfter
  <2> QED  BY <1>1, <1>2, <1>3, <1>4, <1>12, <2>1, <2>2, <2>3
<1> QED
  BY <1>1, <1>2, <1>6, <1>7, <1>8, <1>9, <1>10, <1>11, <1>12 DEF CallSite

LEMMA AnsweredPlain ==
  ASSUME OpenInv, PlainInv, LiveIsEmpty, FreshInv, NEW o \in Outcomes, Answered(o)
  PROVE  PlainInv'
<1> SUFFICES ASSUME faults' = 0 PROVE PlainInv'
  BY DEF PlainInv
<1>1. call'.at = "idle"
  BY PlainAnswer, BodyFields
<1> QED
  BY <1>1 DEF PlainInv

\* The message the answer writes gains the batch, no other message changes.
LEMMA PlainHolders ==
  ASSUME OpenInv, PlainInv, LiveIsEmpty, FreshInv, NEW o \in Outcomes, Answered(o), faults' = 0
  PROVE  \A u : Holders(u)' = Holders(u) \cup (IF u \in Units(call.batch) THEN {MessageId} ELSE {})
<1>1. /\ TypeOK /\ o = "ok" /\ DOMAIN transcript = 1..Len(transcript) /\ Len(transcript) \in Nat
      /\ DOMAIN transcript' = DOMAIN transcript \cup {MessageId}
      /\ transcript'[MessageId] = call.body
      /\ \A m \in DOMAIN transcript \ {MessageId} : transcript'[m] = transcript[m]
      /\ call.batch \in Seq(Span)
      /\ \A m \in DOMAIN transcript : transcript[m].rows \in Seq(Span)
  BY PlainAnswer, AnswerTranscript, TypeFacts DEF OpenInv
<1>2. /\ MessageId \notin DOMAIN transcript => Units(call.body.rows) = Units(call.batch)
      /\ MessageId \in DOMAIN transcript =>
           Units(call.body.rows) = Units(transcript[MessageId].rows) \cup Units(call.batch)
  <2>0. Units(<<>>) = {}
    BY DEF Units
  <2>1. MessageId = Len(transcript) + 1 => MessageId \notin DOMAIN transcript
    BY <1>1
  <2>2. CASE call.at \in {"stream", "livePost", "open"}
    <3>1. MessageId = Len(transcript) + 1 /\ call.body.rows = call.batch
      BY <2>2, PlainAnswer
    <3> QED  BY <2>1, <3>1
  <2>3. CASE call.at \in {"liveEdit", "fullLock", "anchorLock", "demote"}
    <3>1. \/ transcript[MessageId].rows = call.body.rows /\ call.batch = <<>>
          \/ transcript[MessageId].rows = <<>> /\ call.body.rows = call.batch
      BY <2>3, PlainAnswer
    <3>2. MessageId \in DOMAIN transcript
      <4>1. MessageId = call.id /\ call.id # 0
        BY <2>3, PlainAnswer DEF OpenInv, CallConsistent
      <4> QED  BY <1>1, <4>1, TypeFacts
    <3> QED  BY <2>0, <3>1, <3>2
  <2>4. CASE call.at = "extend"
    <3>1. MessageId = active.id /\ active.id # 0
          /\ call.body.rows = transcript[MessageId].rows \o call.batch
      BY <2>4, PlainAnswer
    <3>2. MessageId \in DOMAIN transcript
      BY <1>1, <3>1, TypeFacts
    <3> QED  BY <1>1, <3>1, <3>2, UnitsConcat
  <2> QED  BY <2>2, <2>3, <2>4, PlainAnswer
<1>3. ASSUME NEW u
      PROVE  Holders(u)' = Holders(u) \cup (IF u \in Units(call.batch) THEN {MessageId} ELSE {})
  <2>1. \A m : m \in Holders(u)' <=> m \in DOMAIN transcript' /\ u \in Units(transcript'[m].rows)
    BY DEF Holders, Units
  <2>2. \A m : m \in Holders(u) <=> m \in DOMAIN transcript /\ u \in Units(transcript[m].rows)
    BY DEF Holders
  <2>3. ASSUME NEW m PROVE m \in Holders(u)' <=>
                 m \in Holders(u) \/ (u \in Units(call.batch) /\ m = MessageId)
    <3>1. CASE m = MessageId
      BY <1>1, <1>2, <2>1, <2>2, <3>1
    <3>2. CASE m # MessageId
      BY <1>1, <2>1, <2>2, <3>2
    <3> QED  BY <3>1, <3>2
  <2> QED  BY <2>3
<1> QED
  BY <1>3

LEMMA AnsweredOnce ==
  ASSUME OpenInv, PlacedInv, BelowInv, PlainInv, LiveIsEmpty, FreshInv, OnceInv,
         NEW o \in Outcomes, Answered(o)
  PROVE  OnceInv'
<1> SUFFICES ASSUME faults' = 0, NEW u \in 1..taken'
             PROVE  (IF u \in anchors \cup Units(call.batch)
                       THEN Holders(u) = {}
                       ELSE \E m \in DOMAIN transcript : Holders(u) = {m})'
  BY DEF OnceInv
<1>1. /\ TypeOK /\ o = "ok" /\ faults = 0 /\ taken' = taken /\ anchors' = anchors
      /\ DOMAIN transcript' = DOMAIN transcript \cup {MessageId}
      /\ call.batch \in Seq(Span) /\ anchors \in SUBSET Nat /\ taken \in Nat
  BY PlainAnswer, AnswerTranscript, TypeFacts DEF OpenInv
<1>2. Units(call.batch)' = {}
  <2>1. call'.batch = <<>>
    BY PlainAnswer, BodyFields
  <2> QED  BY <2>1 DEF Units
<1>3. Holders(u)' = Holders(u) \cup (IF u \in Units(call.batch) THEN {MessageId} ELSE {})
  BY PlainHolders
<1>4. Units(call.batch) \cap anchors = {}
  <2>1. call.batch # <<>> => Below(call.batch, anchors)
    BY DEF BelowInv, FreshInv
  <2>2. call.batch = <<>> => Units(call.batch) = {}
    BY DEF Units
  <2>3. Placed(call.batch, taken, anchors)
    BY DEF PlacedInv
  <2> QED  BY <1>1, <2>1, <2>2, <2>3, PlacedUnits
<1>5. IF u \in anchors \cup Units(call.batch) THEN Holders(u) = {}
      ELSE \E m \in DOMAIN transcript : Holders(u) = {m}
  BY <1>1 DEF OnceInv
<1>6. CASE u \in anchors
  BY <1>1, <1>2, <1>3, <1>4, <1>5, <1>6
<1>7. CASE u \in Units(call.batch)
  <2>1. Holders(u)' = {MessageId} /\ u \notin anchors
    BY <1>3, <1>4, <1>5, <1>7
  <2> QED  BY <1>1, <1>2, <2>1
<1>8. CASE u \notin anchors \cup Units(call.batch)
  <2>1. PICK m \in DOMAIN transcript : Holders(u) = {m}
    BY <1>5, <1>8
  <2>2. Holders(u)' = {m} /\ m \in DOMAIN transcript'
    BY <1>1, <1>3, <1>8, <2>1
  <2> QED  BY <1>1, <1>2, <1>8, <2>2
<1> QED
  BY <1>6, <1>7, <1>8
\* A message that the answer adds to the scrollback, or extends, stands below
\* all of it; a sealed one keeps its rows.
LEMMA PlainScrollback ==
  ASSUME OpenInv, PlainInv, LiveIsEmpty, FreshInv, OrderInv,
         NEW o \in Outcomes, Answered(o), faults' = 0
  PROVE  /\ \A m \in Scrollback' : m # MessageId => m \in Scrollback /\ transcript'[m] = transcript[m]
         /\ MessageId \in Scrollback' =>
              \/ MessageId \in Scrollback /\ transcript'[MessageId].rows = transcript[MessageId].rows
              \/ /\ call.at \in Publishing /\ \A m \in Scrollback : m # MessageId => m < MessageId
                 /\ \/ transcript'[MessageId].rows = call.batch
                    \/ /\ MessageId \in Scrollback
                       /\ transcript'[MessageId].rows = transcript[MessageId].rows \o call.batch
<1>1. /\ TypeOK /\ o = "ok" /\ faults = 0 /\ Len(transcript) \in Nat
      /\ DOMAIN transcript = 1..Len(transcript)
      /\ DOMAIN transcript' = DOMAIN transcript \cup {MessageId}
      /\ transcript'[MessageId] = call.body
      /\ \A m \in DOMAIN transcript \ {MessageId} : transcript'[m] = transcript[m]
      /\ active.id \in 0..Len(transcript) /\ call.id \in 0..Len(transcript)
  BY PlainAnswer, AnswerTranscript, TypeFacts DEF OpenInv
<1>2. /\ \A m : m \in Scrollback' <=>
                m \in DOMAIN transcript' /\ transcript'[m].kind \in {"scroll", "history"}
      /\ \A m : m \in Scrollback <=>
                m \in DOMAIN transcript /\ transcript[m].kind \in {"scroll", "history"}
  BY DEF Scrollback
<1>3. \A m \in Scrollback' : m # MessageId => m \in Scrollback /\ transcript'[m] = transcript[m]
  BY <1>1, <1>2
<1>4. \A m \in Scrollback : /\ active.id # 0 => m <= active.id
                            /\ call.at = "demote" => m < call.id
                            /\ m < Len(transcript) + 1
  BY <1>1, <1>2 DEF OrderInv
<1>5. ASSUME MessageId \in Scrollback'
      PROVE  \/ MessageId \in Scrollback /\ transcript'[MessageId].rows = transcript[MessageId].rows
             \/ /\ call.at \in Publishing /\ \A m \in Scrollback : m # MessageId => m < MessageId
                /\ \/ transcript'[MessageId].rows = call.batch
                   \/ /\ MessageId \in Scrollback
                      /\ transcript'[MessageId].rows = transcript[MessageId].rows \o call.batch
  <2>1. call.body.kind \in {"scroll", "history"}
    BY <1>1, <1>2, <1>5
  <2>2. CASE call.at \in {"fullLock", "anchorLock"}
    <3>1. /\ MessageId = call.id /\ call.id # 0 /\ transcript[MessageId].kind = "scroll"
          /\ transcript[MessageId].rows = call.body.rows
      BY <2>2, PlainAnswer
    <3>2. MessageId \in Scrollback
      BY <1>1, <1>2, <3>1
    <3> QED  BY <1>1, <3>1, <3>2
  <2>3. CASE call.at = "demote"
    <3>1. MessageId = call.id /\ call.body.rows = call.batch
      BY <2>3, PlainAnswer
    <3> QED  BY <1>1, <1>4, <2>3, <3>1 DEF Publishing
  <2>4. CASE call.at = "open"
    <3>1. MessageId = Len(transcript) + 1 /\ call.body.rows = call.batch
      BY <2>4, PlainAnswer
    <3> QED  BY <1>1, <1>4, <2>4, <3>1 DEF Publishing
  <2>5. CASE call.at = "extend"
    <3>1. /\ MessageId = active.id /\ active.id # 0 /\ transcript[MessageId].kind = "scroll"
          /\ call.body.rows = transcript[MessageId].rows \o call.batch
      BY <2>5, PlainAnswer
    <3>2. MessageId \in Scrollback /\ \A m \in Scrollback : m # MessageId => m < MessageId
      BY <1>1, <1>2, <1>4, <3>1
    <3> QED  BY <1>1, <2>5, <3>1, <3>2 DEF Publishing
  <2> QED  BY <2>1, <2>2, <2>3, <2>4, <2>5, PlainAnswer
<1> QED
  BY <1>3, <1>5

LEMMA AnsweredOrder ==
  ASSUME OpenInv, PlainInv, LiveIsEmpty, FreshInv, OrderInv, NEW o \in Outcomes, Answered(o)
  PROVE  OrderInv'
<1> SUFFICES ASSUME faults' = 0 PROVE OrderInv'
  BY DEF OrderInv
<1>1. /\ TypeOK /\ faults = 0 /\ call'.at = "idle" /\ Len(transcript) \in Nat
      /\ Scrollback \subseteq 1..Len(transcript) /\ MessageId \in 1..(Len(transcript) + 1)
      /\ Scrollback' \subseteq Nat
      /\ \A m \in Scrollback : transcript[m].rows \in Seq(Span)
      /\ call.batch \in Seq(Span) /\ active.id \in Nat /\ currentId \in Nat
  <2>1. TypeOK /\ faults = 0 /\ call'.at = "idle" /\ o = "ok"
    BY PlainAnswer, BodyFields DEF OpenInv
  <2>2. DOMAIN transcript' = DOMAIN transcript \cup {MessageId} /\ MessageId \in 1..(Len(transcript) + 1)
    BY <2>1, AnswerTranscript
  <2>3. DOMAIN transcript' \subseteq Nat
    BY <2>1, <2>2, TypeFacts
  <2> QED  BY <2>1, <2>2, <2>3, TypeFacts DEF Scrollback
<1>2. /\ \A m \in Scrollback' : m # MessageId => m \in Scrollback /\ transcript'[m] = transcript[m]
      /\ MessageId \in Scrollback' =>
           \/ MessageId \in Scrollback /\ transcript'[MessageId].rows = transcript[MessageId].rows
           \/ /\ call.at \in Publishing /\ \A m \in Scrollback : m # MessageId => m < MessageId
              /\ \/ transcript'[MessageId].rows = call.batch
                 \/ /\ MessageId \in Scrollback
                    /\ transcript'[MessageId].rows = transcript[MessageId].rows \o call.batch
  BY PlainScrollback
<1>3. \A m, n \in Scrollback :
        \A i \in DOMAIN transcript[m].rows, j \in DOMAIN transcript[n].rows :
          m < n => transcript[m].rows[i].hi < transcript[n].rows[j].lo
  BY <1>1 DEF OrderInv, ScrollRows
<1>4. ASSUME NEW m \in Scrollback', NEW n \in Scrollback', m < n,
             NEW i \in DOMAIN transcript'[m].rows, NEW j \in DOMAIN transcript'[n].rows
      PROVE  transcript'[m].rows[i].hi < transcript'[n].rows[j].lo
  <2>1. CASE m # MessageId /\ n # MessageId
    BY <1>2, <1>3, <1>4, <2>1
  <2>2. CASE n = MessageId
    <3>1. m \in Scrollback /\ transcript'[m] = transcript[m]
      BY <1>1, <1>2, <1>4, <2>2
    <3>2. CASE n \in Scrollback /\ transcript'[n].rows = transcript[n].rows
      BY <1>3, <1>4, <3>1, <3>2
    <3>3. ASSUME call.at \in Publishing, NEW l \in DOMAIN call.batch
          PROVE  transcript[m].rows[i].hi < call.batch[l].lo
      BY <1>1, <1>4, <3>1, <3>3 DEF OrderInv, ScrollRows
    <3>4. CASE call.at \in Publishing /\ transcript'[n].rows = call.batch
      BY <1>4, <3>1, <3>3, <3>4
    <3>5. CASE call.at \in Publishing /\ n \in Scrollback
               /\ transcript'[n].rows = transcript[n].rows \o call.batch
      <4>1. \/ j \in DOMAIN transcript[n].rows /\ transcript'[n].rows[j] = transcript[n].rows[j]
            \/ \E l \in DOMAIN call.batch : transcript'[n].rows[j] = call.batch[l]
        <5>1. transcript[n].rows \in Seq(Span) /\ call.batch \in Seq(Span)
          BY <1>1, <3>5
        <5>2. j \in DOMAIN (transcript[n].rows \o call.batch)
          BY <1>4, <3>5
        <5> HIDE DEF MessageId
        <5>3. \A s, t \in Seq(Span) : \A l \in DOMAIN (s \o t) :
                \/ l \in DOMAIN s /\ (s \o t)[l] = s[l]
                \/ l - Len(s) \in DOMAIN t /\ (s \o t)[l] = t[l - Len(s)]
          OBVIOUS
        <5> QED  BY <3>5, <5>1, <5>2, <5>3
      <4> QED  BY <1>3, <1>4, <3>1, <3>3, <3>5, <4>1
    <3> QED  BY <1>2, <2>2, <3>2, <3>4, <3>5
  <2>3. CASE m = MessageId
    <3>1. n \in Scrollback /\ transcript'[n] = transcript[n] /\ n # MessageId
      BY <1>1, <1>2, <1>4, <2>3
    <3>2. ~(n < MessageId)
      <4>1. n \in Nat /\ MessageId \in Nat /\ MessageId < n
        BY <1>1, <1>4, <2>3, <3>1
      <4> QED  BY <4>1
    <3>3. MessageId \in Scrollback /\ transcript'[MessageId].rows = transcript[MessageId].rows
      BY <1>2, <2>3, <3>1, <3>2
    <3> QED  BY <1>3, <1>4, <2>3, <3>1, <3>3
  <2> QED  BY <2>1, <2>2, <2>3
<1>5. ASSUME NEW m \in Scrollback'
      PROVE  (currentId' # 0 => m < currentId') /\ (active'.id # 0 => m <= active'.id)
  <2>1. m # MessageId => m \in Scrollback
    BY <1>2
  <2>2. \A n \in Scrollback : (currentId # 0 => n < currentId) /\ (active.id # 0 => n <= active.id)
    BY <1>1 DEF OrderInv
  <2>3. m \in Nat
    BY <1>1
  <2>4. MessageId \in Scrollback' /\ call.at \notin Publishing => MessageId \in Scrollback
    BY <1>2
  <2>5. CASE call.at \in {"fullLock", "anchorLock"}
    <3>1. active' = active /\ currentId' \in {currentId, 0}
      BY <2>5, PlainAnswer
    <3> QED  BY <2>1, <2>2, <2>4, <2>5, <3>1 DEF Publishing
  <2>6. CASE call.at \in {"stream", "livePost", "liveEdit"}
    <3>1. o = "ok" /\ active' = active /\ call.body.kind \in {"stream", "live"}
      BY <2>6, PlainAnswer
    <3>2. m # MessageId
      <4>1. transcript'[MessageId].kind \in {"stream", "live"}
        BY <1>1, <3>1, AnswerTranscript
      <4> QED  BY <4>1 DEF Scrollback
    <3>3. m \in Scrollback
      BY <2>1, <3>2
    <3>4. currentId' = currentId \/ currentId' = Len(transcript) + 1
      BY <2>6, PlainAnswer
    <3>5. m < Len(transcript) + 1
      BY <1>1, <3>3
    <3> QED  BY <2>2, <3>1, <3>3, <3>4, <3>5
  <2>7. CASE call.at = "extend"
    <3>1. /\ MessageId = active.id /\ active.id # 0 /\ active'.id = active.id /\ currentId' = currentId
          /\ transcript[MessageId].kind = "scroll"
      BY <2>7, PlainAnswer
    <3>2. MessageId \in Scrollback
      BY <1>1, <3>1, TypeFacts DEF Scrollback
    <3> QED  BY <2>1, <2>2, <3>1, <3>2
  <2>8. CASE call.at \in {"open", "demote"}
    <3>1. /\ active'.id = MessageId /\ currentId' = 0
          /\ call.at = "open" => MessageId = Len(transcript) + 1
          /\ call.at = "demote" => MessageId = call.id
      BY <2>8, PlainAnswer
    <3>2. \A n \in Scrollback : n <= MessageId
      <4>1. \A n \in Scrollback : call.at = "demote" => n < call.id
        BY <1>1 DEF OrderInv
      <4> QED  BY <1>1, <2>8, <3>1, <4>1
    <3>3. MessageId <= MessageId
      BY <1>1
    <3> QED  BY <2>1, <3>1, <3>2, <3>3
  <2> QED  BY <2>5, <2>6, <2>7, <2>8, PlainAnswer
<1>6. call'.at \notin Publishing \cup {"demote"}
  BY <1>1 DEF Publishing
<1>7. \A m, n \in Scrollback' :
        \A i \in DOMAIN ScrollRows(m)', j \in DOMAIN ScrollRows(n)' :
          m < n => ScrollRows(m)'[i].hi < ScrollRows(n)'[j].lo
  BY <1>4 DEF ScrollRows
<1> QED
  BY <1>5, <1>6, <1>7 DEF OrderInv
-----------------------------------------------------------------------------
(* The invariant.                                                           *)

LEMMA LogInvInit == Init => LogInv
<1> SUFFICES ASSUME Init PROVE LogInv
  OBVIOUS
<1>1. /\ chan = <<>> /\ sent = 0 /\ queue = <<>> /\ taken = 0 /\ anchors = {}
      /\ currentId = 0 /\ active = NoBuffer /\ call = NoCall
      /\ transcript = <<>> /\ shown = {} /\ faults = 0
  BY DEF Init
<1>2. OpenInv
  BY OpenInvInit
<1>3. /\ call.at = "idle" /\ call.batch = <<>> /\ call.body = Scroll(<<>>) /\ call.body.rows = <<>>
      /\ active.id = 0 /\ active.body.rows = <<>>
  BY <1>1, BodyFields
<1>4. DOMAIN transcript = {} /\ Scrollback = {} /\ Units(<<>>) = {}
  BY <1>1 DEF Scrollback, Units
<1>5. InputInv
  <2>1. Contiguous(queue, taken) /\ EndOf(queue, taken) = 0
    BY <1>1, ContiguousEmpty
  <2> DEFINE e == [k \in 0..0 |-> 0]
  <2>2. ChannelEnds(e, chan, 0, 0)
    <3>1. Len(chan) = 0
      BY <1>1
    <3> QED  BY <3>1 DEF ChannelEnds
  <2> HIDE DEF e
  <2>3. \E ends : ChannelEnds(ends, chan, EndOf(queue, taken), sent)
    BY <1>1, <2>1, <2>2
  <2> QED  BY <2>1, <2>3 DEF InputInv
<1>6. PlacedInv
  BY <1>1, <1>3, <1>4, PlacedEmpty DEF PlacedInv
<1>7. BelowInv /\ FreshInv /\ LiveInv
  BY <1>1, <1>3, <1>4 DEF BelowInv, FreshInv, LiveInv, Carrying, Publishing
<1>8. SizeInv
  BY <1>3, <1>4, EmptyFits DEF SizeInv
<1>9. PlainInv /\ LiveIsEmpty /\ OrderInv
  BY <1>1, <1>3, <1>4 DEF PlainInv, LiveIsEmpty, OrderInv, Publishing
<1>10. OnceInv
  BY <1>1 DEF OnceInv
<1> QED
  BY <1>2, <1>5, <1>6, <1>7, <1>8, <1>9, <1>10 DEF LogInv

\* A step that leaves the channel and what the task remembers of it alone.
LEMMA LogFrame ==
  ASSUME LogInv, UNCHANGED <<taken, anchors, sinkVars, active, currentId, call>>,
         call.at = "idle" \/ UNCHANGED <<queue, latestLive>>
  PROVE  /\ PlacedInv' /\ BelowInv' /\ FreshInv' /\ LiveInv' /\ SizeInv'
         /\ PlainInv' /\ LiveIsEmpty' /\ OrderInv' /\ OnceInv'
<1>1. /\ taken' = taken /\ anchors' = anchors /\ transcript' = transcript /\ shown' = shown
      /\ faults' = faults /\ active' = active /\ currentId' = currentId /\ call' = call
  BY DEF sinkVars
<1>2. Scrollback' = Scrollback /\ (\A m : ScrollRows(m)' = ScrollRows(m))
      /\ (\A u : Holders(u)' = Holders(u))
  BY <1>1 DEF Scrollback, ScrollRows, Holders
<1>3. PlacedInv' /\ BelowInv' /\ FreshInv'
  BY <1>1 DEF LogInv, PlacedInv, BelowInv, FreshInv
<1>4. LiveInv'
  BY <1>1 DEF LogInv, LiveInv
<1>5. SizeInv'
  BY <1>1, <1>2 DEF LogInv, SizeInv
<1>6. PlainInv' /\ LiveIsEmpty'
  BY <1>1 DEF LogInv, PlainInv, LiveIsEmpty
<1>7. OrderInv'
  BY <1>1, <1>2 DEF LogInv, OrderInv
<1>8. OnceInv'
  BY <1>1, <1>2 DEF LogInv, OnceInv
<1> QED
  BY <1>3, <1>4, <1>5, <1>6, <1>7, <1>8

LEMMA LogInvStep == LogInv /\ [Next]_vars => LogInv'
<1> SUFFICES ASSUME LogInv, [Next]_vars PROVE LogInv'
  OBVIOUS
<1>1. /\ OpenInv /\ TypeOK /\ InputInv /\ PlacedInv /\ BelowInv /\ FreshInv /\ LiveInv /\ SizeInv
      /\ PlainInv /\ LiveIsEmpty /\ OrderInv /\ OnceInv
  BY DEF LogInv, OpenInv
<1>2. OpenInv'
  BY <1>1, OpenInvStep
<1>3. CASE Session
  <2>1. InputInv' /\ UNCHANGED <<queueVars, liveVars, sinkVars, latestLive, active, call, stopped>>
    BY <1>1, <1>3, SessionInput
  <2>2. UNCHANGED <<taken, anchors, sinkVars, active, currentId, call>> /\ UNCHANGED <<queue, latestLive>>
    BY <2>1 DEF queueVars, liveVars
  <2> QED  BY <1>2, <2>1, <2>2, LogFrame DEF LogInv
<1>4. CASE Ingest
  <2>1. InputInv'
    BY <1>1, <1>4, IngestInput
  <2>2. UNCHANGED <<taken, anchors, sinkVars, active, currentId, call>> /\ call.at = "idle"
    BY <1>4, BodyFields DEF Ingest, Idle, liveVars
  <2> QED  BY <1>2, <2>1, <2>2, LogFrame DEF LogInv
<1>5. CASE PostOneUnit
  <2>1. Starts
    BY <1>1, <1>5, PostOneUnitStarts
  <2>2. InputInv'
    BY <1>1, <2>1, TakenInput DEF Starts, Takes, handleVars
  <2>3. LiveIsEmpty'
    <3>1. transcript' = transcript
      BY <2>1 DEF Starts, sinkVars
    <3> QED  BY <1>1, <3>1 DEF LiveIsEmpty
  <2>4. PlacedInv' /\ BelowInv' /\ FreshInv' /\ LiveInv' /\ SizeInv'
    BY <1>1, <2>1, StartsPlaced, StartsBelow, StartsFresh, StartsLive, StartsSize
  <2>5. PlainInv' /\ OrderInv' /\ OnceInv'
    BY <1>1, <2>1, StartsPlain, StartsOrder, StartsOnce
  <2> QED  BY <1>2, <2>2, <2>3, <2>4, <2>5 DEF LogInv
<1>6. ASSUME NEW o \in Outcomes, AnyAnswer(o) PROVE LogInv'
  <2>1. Answered(o)
    BY <1>1, <1>6, AnswersAnswered
  <2>2. InputInv'
    <3>1. UNCHANGED <<chan, sent, queue, taken>>
      BY <2>1 DEF Answered, Answer, handleVars, queueVars
    <3> QED  BY <1>1, <3>1 DEF InputInv
  <2>3. PlacedInv' /\ BelowInv' /\ FreshInv' /\ LiveInv' /\ SizeInv' /\ LiveIsEmpty'
    BY <1>1, <2>1, AnsweredPlaced, AnsweredBelow, AnsweredFresh, AnsweredLive, AnsweredSize,
       AnsweredLiveIsEmpty
  <2>4. PlainInv' /\ OrderInv' /\ OnceInv'
    BY <1>1, <2>1, AnsweredPlain, AnsweredOrder, AnsweredOnce
  <2> QED  BY <1>2, <2>2, <2>3, <2>4 DEF LogInv
<1>7. CASE TooLong
  <2>1. Shrinking
    BY <1>1, <1>7, TooLongShrinks
  <2>2. InputInv'
    <3>1. UNCHANGED <<chan, sent, queue, taken>>
      BY <2>1 DEF Shrinking, handleVars, queueVars
    <3> QED  BY <1>1, <3>1 DEF InputInv
  <2>3. PlainInv' /\ OrderInv' /\ OnceInv'
    BY <2>1 DEF Shrinking, PlainInv, OrderInv, OnceInv
  <2>4. PlacedInv' /\ BelowInv' /\ FreshInv' /\ LiveInv' /\ SizeInv' /\ LiveIsEmpty'
    BY <1>1, <2>1, ShrinkingPlaced, ShrinkingSize
  <2> QED  BY <1>2, <2>2, <2>3, <2>4 DEF LogInv
<1>8. CASE Stop \/ Finished \/ UNCHANGED vars
  <2>1. /\ UNCHANGED <<chan, sent, queue, taken, anchors, latestLive>>
        /\ UNCHANGED <<taken, anchors, sinkVars, active, currentId, call>>
    BY <1>8 DEF Stop, Finished, vars, handleVars, queueVars, liveVars
  <2>2. InputInv'
    BY <1>1, <2>1 DEF InputInv
  <2> QED  BY <1>2, <2>1, <2>2, LogFrame DEF LogInv
<1> QED
  BY <1>3, <1>4, <1>5, <1>6, <1>7, <1>8 DEF Next, Platform, AnyAnswer

LEMMA LogInvAlways == Spec => []LogInv
<1>1. Init => LogInv
  BY LogInvInit
<1>2. LogInv /\ [Next]_vars => LogInv'
  BY LogInvStep
<1> QED
  BY <1>1, <1>2, PTL DEF Spec

-----------------------------------------------------------------------------
(* What the invariant says of the channel.                                  *)

LEMMA LogInvSeparates == LogInv => AnchorSeparates
  BY DEF LogInv, PlacedInv, Placed, Separated, AnchorSeparates, Scrollback, ScrollRows

LEMMA LogInvOrder == LogInv => ReadsInOrder
<1> SUFFICES ASSUME LogInv, faults = 0 PROVE ReadsInOrder
  BY DEF ReadsInOrder
<1>1. ASSUME NEW m \in Scrollback, NEW n \in Scrollback,
             NEW i \in DOMAIN ScrollRows(m), NEW j \in DOMAIN ScrollRows(n),
             m < n \/ (m = n /\ i < j)
      PROVE  ScrollRows(m)[i].hi < ScrollRows(n)[j].lo
  <2>1. CASE m < n
    BY <1>1, <2>1 DEF LogInv, OrderInv
  <2>2. CASE m = n /\ i < j
    <3>1. Ordered(ScrollRows(m))
      BY DEF LogInv, PlacedInv, Placed, Scrollback, ScrollRows
    <3> QED  BY <1>1, <2>2, <3>1 DEF Ordered
  <2> QED  BY <1>1, <2>1, <2>2
<1>2. currentId # 0 => \A m \in Scrollback : m < currentId
  BY DEF LogInv, OrderInv
<1> QED
  BY <1>1, <1>2 DEF ReadsInOrder

LEMMA LogInvHolders ==
  ASSUME LogInv
  PROVE  /\ \A u : u \notin 1..taken => Holders(u) = {} /\ u \notin Units(call.batch)
         /\ Units(call.batch) \subseteq 1..taken /\ anchors \subseteq 1..taken
         /\ taken \in Nat /\ sent \in Nat /\ taken <= sent
<1>1. TypeOK /\ PlacedInv /\ taken \in Nat /\ sent \in Nat
  BY TypeFacts DEF LogInv, OpenInv
<1>2. taken <= sent
  BY <1>1, InputFacts DEF LogInv
<1>3. Units(call.batch) \subseteq 1..taken
  BY <1>1, TypeFacts, PlacedUnits DEF PlacedInv
<1>4. ASSUME NEW u, NEW m \in Holders(u) PROVE u \in 1..taken
  <2>1. m \in DOMAIN transcript /\ u \in Units(transcript[m].rows)
    BY <1>4 DEF Holders
  <2> QED  BY <1>1, <2>1, TypeFacts, PlacedUnits DEF PlacedInv
<1> QED
  BY <1>1, <1>2, <1>3, <1>4 DEF PlacedInv

LEMMA LogInvOnce == LogInv => ExactlyOnce
<1> SUFFICES ASSUME LogInv, faults = 0, NEW u \in 1..sent
             PROVE  IF u <= taken /\ u \notin anchors /\ u \notin Units(call.batch)
                      THEN \E m \in DOMAIN transcript : Holders(u) = {m}
                      ELSE Holders(u) = {}
  BY DEF ExactlyOnce
<1>1. CASE u <= taken
  <2>1. u \in 1..taken
    BY <1>1, LogInvHolders
  <2> QED  BY <1>1, <2>1 DEF LogInv, OnceInv
<1>2. CASE ~(u <= taken)
  <2>1. u \notin 1..taken
    BY <1>2
  <2> QED  BY <1>2, <2>1, LogInvHolders
<1> QED
  BY <1>1, <1>2

\* README: each row lives in exactly one message, as long as no call failed.
THEOREM ExactlyOnceAlways == Spec => []ExactlyOnce
  BY LogInvAlways, LogInvOnce, PTL

\* As long as no call failed the scrollback reads from the top down in the order
\* the rows scrolled off, and the live message stands below it.
THEOREM ReadsInOrderAlways == Spec => []ReadsInOrder
  BY LogInvAlways, LogInvOrder, PTL

\* Whatever fails, no message holds rows from both sides of an anchor.
THEOREM AnchorsSeparate == Spec => []AnchorSeparates
  BY LogInvAlways, LogInvSeparates, PTL

\* Whatever fails, no message of the scrollback exceeds the platform's limit:
\* drain_rows_into_budget, the cut of an over-wide row and the check of
\* ingest_scroll_batch together leave no way to compute a longer one.
THEOREM AllWithinLimit == Spec => []WithinLimit
<1>1. LogInv => WithinLimit
  BY DEF LogInv, SizeInv, WithinLimit
<1> QED
  BY <1>1, LogInvAlways, PTL

-----------------------------------------------------------------------------
(* The variables of OrderedLog.                                             *)

Received == EndOf(queue, taken)
InChannel == Visible \cup anchors
Appeared == shown \cup anchors
Screen == IF currentId = 0 THEN NoText ELSE transcript[currentId].text

LogVars == <<sent, Received, InChannel, Appeared, latestLive, Screen, faults > 0>>

LogFacts ==
  /\ \A u : u \in Visible <=> \E m \in DOMAIN transcript : u \in Units(transcript[m].rows)
  /\ Visible \subseteq shown /\ shown \subseteq 1..taken /\ anchors \subseteq 1..taken
  /\ taken \in Nat /\ sent \in Nat /\ Received \in Nat
  /\ taken <= Received /\ Received <= sent
  /\ Screen \in Texts \cup {NoText} /\ latestLive \in Texts \cup {NoText}
  /\ faults \in Nat
  /\ faults = 0 => InChannel = (1..taken) \ Units(call.batch)

LEMMA LogState == LogInv => LogFacts
<1> SUFFICES ASSUME LogInv PROVE LogFacts
  OBVIOUS
<1>1. /\ TypeOK /\ PlacedInv /\ taken \in Nat /\ sent \in Nat /\ Received \in Nat
      /\ taken <= Received /\ Received <= sent /\ faults \in Nat
  BY InputFacts, TypeFacts DEF LogInv, OpenInv, Received
<1>2. ASSUME NEW m \in DOMAIN transcript, NEW u \in Units(transcript[m].rows)
      PROVE  u \in 1..sent /\ u \in shown
  <2>1. u \in shown /\ shown \subseteq 1..taken
    BY <1>1, <1>2 DEF PlacedInv
  <2> QED  BY <1>1, <2>1
<1>3. \A u : u \in Visible <=> \E m \in DOMAIN transcript : u \in Units(transcript[m].rows)
  BY <1>2 DEF Visible, Holders
<1>4. Visible \subseteq shown /\ shown \subseteq 1..taken /\ anchors \subseteq 1..taken
  BY <1>1, <1>2, <1>3 DEF PlacedInv
<1>5. Screen \in Texts \cup {NoText} /\ latestLive \in Texts \cup {NoText}
  <2>1. currentId # 0 => transcript[currentId] \in Body
    BY <1>1, TypeFacts
  <2> QED  BY <1>1, <2>1 DEF Screen, Body, TypeOK
<1>6. ASSUME faults = 0
      PROVE  InChannel = (1..taken) \ Units(call.batch)
  <2>1. Units(call.batch) \cap anchors = {}
    <3>1. call.batch \in Seq(Span) /\ Placed(call.batch, taken, anchors) /\ anchors \subseteq Nat
      BY <1>1, TypeFacts DEF PlacedInv
    <3>2. call.batch = <<>> \/ Below(call.batch, anchors)
      BY DEF LogInv, BelowInv, FreshInv
    <3>3. call.batch = <<>> => Units(call.batch) = {}
      BY DEF Units
    <3> QED  BY <1>1, <3>1, <3>2, <3>3, PlacedUnits
  <2>2. \A u \in 1..taken : IF u \in anchors \cup Units(call.batch)
                              THEN Holders(u) = {}
                              ELSE \E m \in DOMAIN transcript : Holders(u) = {m}
    BY <1>6 DEF LogInv, OnceInv
  <2>3. \A u \in 1..taken : u \in Visible <=> Holders(u) # {}
    BY <1>1, <1>3 DEF Holders
  <2>4. \A u \in 1..taken : u \in InChannel <=> u \notin Units(call.batch)
    BY <2>1, <2>2, <2>3 DEF InChannel
  <2>5. InChannel \subseteq 1..taken
    BY <1>4 DEF InChannel
  <2> QED  BY <2>4, <2>5
<1> QED
  BY <1>1, <1>3, <1>4, <1>5, <1>6 DEF LogFacts

\* What a step adds to shown it adds to the channel.
Shows == /\ shown \subseteq shown' /\ anchors \subseteq anchors'
         /\ shown' \subseteq shown \cup Visible'

LEMMA LogStateAfter == LogInv' => LogFacts'
  BY LogState, PTL

LEMMA AppearedGrows ==
  ASSUME LogInv', Shows
  PROVE  Appeared' = Appeared \cup InChannel'
<1>1. Visible' \subseteq shown'
  BY LogStateAfter DEF LogFacts
<1> QED
  BY <1>1 DEF Shows, Appeared, InChannel

\* After a failure: all that has to hold is that the new comes after the old.
LEMMA DegradedStep ==
  ASSUME LogInv, LogInv', Shows, faults' # 0, sent <= sent', Received <= Received',
         \A u \in InChannel' \ Appeared, v \in Appeared : v < u
  PROVE  Log!Next
<1>1. LogFacts /\ LogFacts' /\ Appeared' = Appeared \cup InChannel'
  BY LogState, LogStateAfter, AppearedGrows
<1>2. /\ Received' \in Received..sent' /\ InChannel' \subseteq 1..sent' /\ faults' > 0
      /\ latestLive' \in Texts \cup {NoText} /\ Screen' \in Texts \cup {NoText}
  <2>1. Received \in Nat /\ Received' \in Nat /\ Received' <= sent' /\ sent' \in Nat
    BY <1>1 DEF LogFacts
  <2>2. taken' \in Nat /\ taken' <= sent' /\ Visible' \subseteq 1..taken' /\ anchors' \subseteq 1..taken'
    BY <1>1 DEF LogFacts
  <2>3. InChannel' \subseteq 1..sent'
    BY <2>1, <2>2 DEF InChannel
  <2>4. faults' > 0
    BY <1>1 DEF LogFacts
  <2> QED  BY <1>1, <2>1, <2>3, <2>4 DEF LogFacts
<1>3. Log!Degraded
  BY <1>2 DEF Log!Degraded, Received, EndOf, InChannel, Appeared, Screen
<1> QED
  BY <1>1, <1>2, <1>3 DEF Log!Next, InChannel, Appeared

\* As long as no call failed.
LEMMA WholeStep ==
  ASSUME LogInv', Shows, faults' = 0, Log!Whole
  PROVE  Log!Next
<1>1. Appeared' = Appeared \cup InChannel'
  BY AppearedGrows
<1>2. ~(faults' > 0)
  OBVIOUS
<1> QED
  BY <1>1, <1>2 DEF Log!Next, InChannel, Appeared

\* A step that neither writes a message nor takes anything off the queue.
LEMMA QuietStep ==
  ASSUME LogInv, LogInv', UNCHANGED <<transcript, shown, anchors, faults, currentId>>,
         UNCHANGED taken
  PROVE  Shows /\ UNCHANGED <<InChannel, Appeared, Screen>>
<1>1. LogFacts /\ LogFacts'
  BY LogState, LogStateAfter
<1>2. Visible' = Visible
  BY <1>1 DEF LogFacts
<1> QED
  BY <1>2 DEF Shows, InChannel, Appeared, Screen
LEMMA SessionLog ==
  ASSUME LogInv, LogInv', Session
  PROVE  Log!Next \/ UNCHANGED LogVars
<1>1. /\ sent <= sent' /\ UNCHANGED <<queue, taken, anchors, latestLive>>
      /\ UNCHANGED <<transcript, shown, anchors, faults, currentId>>
  BY SessionInput DEF LogInv, OpenInv, queueVars, sinkVars, liveVars
<1>2. /\ Shows /\ UNCHANGED <<InChannel, Appeared, Screen>> /\ Received' = Received
      /\ sent \in Nat /\ sent' \in Nat /\ Received \in Nat
  BY <1>1, QuietStep, LogState, LogStateAfter DEF LogFacts, Received
<1>3. CASE faults' # 0
  <2>1. \A u \in InChannel' \ Appeared, v \in Appeared : v < u
    <3>1. InChannel \subseteq Appeared
      BY LogState DEF LogFacts, InChannel, Appeared
    <3> QED  BY <1>2, <3>1
  <2>2. Received <= Received'
    BY <1>2
  <2> QED  BY <1>1, <1>2, <1>3, <2>1, <2>2, DegradedStep
<1>4. CASE faults' = 0 /\ sent' # sent
  <2>1. Log!HandOver
    <3>1. sent' > sent
      BY <1>1, <1>2, <1>4
    <3> QED  BY <1>1, <1>2, <3>1 DEF Log!HandOver, InChannel, Screen
  <2> QED  BY <1>2, <1>4, <2>1, WholeStep DEF Log!Whole
<1>5. CASE sent' = sent
  BY <1>1, <1>2, <1>5 DEF LogVars
<1> QED
  BY <1>3, <1>4, <1>5

LEMMA IngestLog ==
  ASSUME LogInv, LogInv', Ingest
  PROVE  Log!Next
<1>1. /\ TypeOK /\ InputInv /\ chan # <<>>
      /\ UNCHANGED <<transcript, shown, anchors, faults, currentId>>
      /\ taken' = taken /\ sent' = sent
  BY DEF LogInv, OpenInv, Ingest, sinkVars, liveVars
<1>2. Received' \in Received..sent
  BY <1>1, IngestInput DEF Received
<1>3. latestLive' \in {latestLive} \cup Texts
  <2>1. Head(chan) \in DispatchMsg
    BY <1>1 DEF TypeOK
  <2> QED  BY <2>1 DEF Ingest, DispatchMsg
<1>4. Shows /\ UNCHANGED <<InChannel, Appeared, Screen>> /\ Received \in Nat /\ sent \in Nat
  BY <1>1, QuietStep, LogState DEF LogFacts
<1>5. CASE faults' # 0
  <2>1. \A u \in InChannel' \ Appeared, v \in Appeared : v < u
    <3>1. InChannel \subseteq Appeared
      BY LogState DEF LogFacts, InChannel, Appeared
    <3> QED  BY <1>4, <3>1
  <2>2. Received <= Received' /\ sent <= sent'
    BY <1>1, <1>2, <1>4
  <2> QED  BY <1>4, <1>5, <2>1, <2>2, DegradedStep
<1>6. CASE faults' = 0
  <2>1. Log!Receive
    BY <1>1, <1>2, <1>3, <1>4 DEF Log!Receive, InChannel, Screen, Received, EndOf
  <2> QED  BY <1>4, <1>6, <2>1, WholeStep DEF Log!Whole
<1> QED
  BY <1>5, <1>6

\* A unit is taken off the queue: an anchor appears at once, a batch when the
\* call that publishes it is answered.
LEMMA StartsLog ==
  ASSUME LogInv, LogInv', Starts
  PROVE  Log!Next \/ UNCHANGED LogVars
<1>1. /\ OpenInv /\ TypeOK /\ PlacedInv /\ call = NoCall /\ call.batch = <<>>
      /\ sent' = sent /\ Received' = Received /\ latestLive' = latestLive
      /\ transcript' = transcript /\ shown' = shown /\ faults' = faults
      /\ taken' \in Nat /\ taken \in Nat /\ taken <= taken'
      /\ anchors' \in {anchors, anchors \cup {taken + 1}}
  BY StartsAnchors, TypeFacts, BodyFields
     DEF LogInv, OpenInv, Starts, Takes, handleVars, sinkVars, Received, Idle
<1>2. /\ LogFacts /\ LogFacts' /\ Visible' = Visible
  BY <1>1, LogState, LogStateAfter DEF LogFacts
<1>3. Shows
  BY <1>1, <1>2 DEF Shows
<1>4. /\ currentId' \in {currentId, 0} /\ Screen' \in {Screen, NoText}
  <2>1. currentId' \in {currentId, 0}
    BY <1>1 DEF Starts, Sealing, Forgetting, Showing, Batching
  <2> QED  BY <1>1, <2>1 DEF Screen
<1>5. CASE faults' # 0
  <2>1. \A u \in InChannel' \ Appeared, v \in Appeared : v < u
    <3>1. TAKE u \in InChannel' \ Appeared, v \in Appeared
    <3>2. u = taken + 1
      BY <1>1, <1>2 DEF InChannel, Appeared, LogFacts
    <3>3. v \in 1..taken
      BY <1>2 DEF Appeared, LogFacts
    <3> QED  BY <1>1, <3>2, <3>3
  <2>2. Received <= Received' /\ sent <= sent'
    BY <1>1, <1>2 DEF LogFacts
  <2> QED  BY <1>3, <1>5, <2>1, <2>2, DegradedStep
<1>6. CASE faults' = 0
  <2>1. InChannel = 1..taken
    <3>1. InChannel = (1..taken) \ Units(call.batch) /\ Units(call.batch) = {}
      BY <1>1, <1>2, <1>6 DEF LogFacts, Units
    <3> QED  BY <3>1
  <2>2. CASE anchors' = anchors
    <3>1. InChannel' = InChannel /\ Appeared' = Appeared
      BY <1>1, <1>2, <2>2 DEF InChannel, Appeared
    <3>2. CASE Screen' = Screen
      BY <1>1, <3>1, <3>2 DEF LogVars
    <3>3. CASE Screen' = NoText
      <4>1. Log!Hide
        BY <1>1, <3>1, <3>3 DEF Log!Hide, InChannel, Screen, Received, EndOf
      <4> QED  BY <1>3, <1>6, <4>1, WholeStep DEF Log!Whole
    <3> QED  BY <1>4, <3>2, <3>3
  <2>3. CASE anchors' # anchors
    <3>1. taken' = taken + 1 /\ anchors' = anchors \cup {taken + 1}
      BY <2>3 DEF Starts, Sealing, Forgetting, Showing, Batching, AnchorAtMost
    <3>2. InChannel' = InChannel \cup {taken + 1}
      BY <1>2, <3>1 DEF InChannel
    <3>3. InChannel' = 1..(taken + 1) /\ taken + 1 \in 1..Received
      <4>1. taken' <= Received' /\ Received \in Nat
        BY <1>2 DEF LogFacts
      <4> QED  BY <1>1, <2>1, <3>1, <3>2, <4>1
    <3>4. \E n \in 1..Received : InChannel' = 1..n /\ InChannel \subseteq InChannel'
      BY <3>2, <3>3
    <3>5. Log!Appear
      BY <1>1, <1>4, <3>4 DEF Log!Appear, InChannel, Screen, Received, EndOf
    <3> QED  BY <1>3, <1>6, <3>5, WholeStep DEF Log!Whole
  <2> QED  BY <2>2, <2>3
<1> QED
  BY <1>5, <1>6

\* The batch of the call appears with its answer, and nothing else.
LEMMA AnsweredLog ==
  ASSUME LogInv, LogInv', NEW o \in Outcomes, Answered(o)
  PROVE  Log!Next \/ UNCHANGED LogVars
<1>1. /\ OpenInv /\ TypeOK /\ PlacedInv /\ BelowInv /\ FreshInv /\ LiveInv /\ PlainInv /\ LiveIsEmpty
      /\ sent' = sent /\ Received' = Received /\ latestLive' = latestLive
      /\ taken' = taken /\ anchors' = anchors
      /\ Received \in Nat /\ sent \in Nat /\ taken \in Nat
      /\ o = "err" => transcript' = transcript /\ shown' = shown
      /\ o # "err" => /\ DOMAIN transcript' = DOMAIN transcript \cup {MessageId}
                      /\ transcript'[MessageId] = call.body
                      /\ \A m \in DOMAIN transcript \ {MessageId} : transcript'[m] = transcript[m]
                      /\ shown' = shown \cup Units(call.body.rows)
  BY AnswerTranscript, LogState DEF LogInv, OpenInv, Received, LogFacts
<1>2. LogFacts /\ LogFacts'
  BY LogState, LogStateAfter
<1>3. \A u : u \in Visible' => u \in Visible \cup Units(call.body.rows)
  BY <1>1, <1>2 DEF LogFacts
<1>4. Shows
  BY <1>1, <1>2 DEF Shows, LogFacts
<1>5. CASE faults' # 0
  <2>1. \A u \in InChannel' \ Appeared, v \in Appeared : v < u
    <3>1. TAKE u \in InChannel' \ Appeared, v \in Appeared
    <3>2. u \in Units(call.body.rows) \ shown
      BY <1>1, <1>2, <1>3 DEF InChannel, Appeared, LogFacts
    <3>3. u \in Units(call.batch) \ shown /\ call.at \in Publishing
      BY <1>1, <3>2 DEF FreshInv
    <3>4. CASE v \in shown
      BY <1>1, <3>3, <3>4 DEF FreshInv
    <3>5. CASE v \in anchors
      <4>1. Below(call.batch, anchors) /\ call.batch \in Seq(Span) /\ v \in Nat
        BY <1>1, <1>2, <3>3, <3>5, TypeFacts DEF BelowInv, Carrying, LogFacts
      <4>2. PICK i \in 1..Len(call.batch) : call.batch[i].lo <= u /\ u \in Nat
        BY <3>3, <4>1, UnitsFacts
      <4>3. v < call.batch[i].lo /\ call.batch[i].lo \in Nat
        BY <3>5, <4>1, SpanFacts DEF Below
      <4> QED  BY <4>1, <4>2, <4>3
    <3> QED  BY <3>4, <3>5 DEF Appeared
  <2>2. Received <= Received' /\ sent <= sent'
    BY <1>1
  <2> QED  BY <1>4, <1>5, <2>1, <2>2, DegradedStep
<1>6. CASE faults' = 0
  <2>1. /\ o = "ok" /\ faults = 0 /\ call'.batch = <<>>
    BY <1>1, <1>6, PlainAnswer, BodyFields
  <2>2. InChannel = (1..taken) \ Units(call.batch) /\ InChannel' = 1..taken
    <3>1. InChannel' = (1..taken) \ Units(call'.batch) /\ Units(call'.batch) = {}
      BY <1>1, <1>2, <1>6, <2>1 DEF LogFacts, Units
    <3> QED  BY <1>2, <2>1, <3>1 DEF LogFacts
  <2>3. CASE call.at \in {"liveEdit", "livePost"}
    <3>1. /\ queue = <<>> /\ call.batch = <<>> /\ call.body.text = latestLive /\ latestLive \in Texts
          /\ currentId' = MessageId
      <4>1. queue = <<>> /\ call.body.text = latestLive /\ call.body.text \in Texts
        BY <1>1, <2>3 DEF LiveInv, OpenInv, CallConsistent
      <4>2. call.batch = <<>> /\ currentId' = MessageId
        BY <1>1, <1>6, <2>3, PlainAnswer
      <4> QED  BY <4>1, <4>2
    <3>2. InChannel = 1..taken /\ Received = taken /\ Units(call.batch) = {}
      BY <2>2, <3>1 DEF Received, EndOf, Units
    <3>3. MessageId # 0
      BY <1>1, <2>1, AnswerTranscript
    <3>4. Screen' = latestLive
      BY <1>1, <2>1, <3>1, <3>3 DEF Screen
    <3>5. latestLive # NoText
      BY <3>1, BoundAssumption
    <3>6. Log!Show
      BY <1>1, <2>2, <3>2, <3>4, <3>5 DEF Log!Show, InChannel, Screen, Received, EndOf
    <3> QED  BY <1>4, <1>6, <3>6, WholeStep DEF Log!Whole
  <2>4. CASE call.at \notin {"liveEdit", "livePost"}
    <3>1. Screen' \in {Screen, NoText}
      <4>1. currentId' \in {currentId, 0}
        BY <1>1, <1>6, <2>4, PlainAnswer, BodyFields DEF LogInv
      <4>2. currentId' # 0 => currentId # MessageId /\ currentId \in DOMAIN transcript
        <5>1. ASSUME currentId' # 0 PROVE currentId # MessageId
          <6>1. currentId' = currentId
            BY <4>1, <5>1
          <6>2. CASE call.at = "stream"
            BY <1>1, <1>6, <6>2, PlainAnswer, TypeFacts
          <6>3. CASE call.at \in {"fullLock", "anchorLock"}
            BY <1>1, <1>6, <6>3, PlainAnswer DEF OpenInv, CallConsistent
          <6>4. CASE call.at = "extend"
            BY <1>1, <1>6, <6>4, PlainAnswer DEF OpenInv, OpenMessagesInSync
          <6>5. CASE call.at \in {"open", "demote"}
            BY <1>1, <1>6, <5>1, <6>5, PlainAnswer
          <6> QED  BY <1>1, <1>6, <2>4, <6>2, <6>3, <6>4, <6>5, PlainAnswer
        <5> QED  BY <1>1, <4>1, <5>1, TypeFacts
      <4> QED  BY <1>1, <2>1, <4>1, <4>2 DEF Screen
    <3>2. CASE call.batch = <<>>
      <4>1. InChannel' = InChannel
        BY <2>2, <3>2 DEF Units
      <4>2. CASE Screen' = NoText
        <5>1. Log!Hide
          BY <1>1, <4>1, <4>2 DEF Log!Hide, InChannel, Screen, Received, EndOf
        <5> QED  BY <1>4, <1>6, <5>1, WholeStep DEF Log!Whole
      <4>3. CASE Screen' = Screen
        <5>1. Appeared' = Appeared \cup InChannel' /\ InChannel \subseteq Appeared
          BY <1>2, <1>4, AppearedGrows DEF LogFacts, InChannel, Appeared
        <5>2. Appeared' = Appeared
          BY <4>1, <5>1
        <5> QED  BY <1>1, <1>6, <2>1, <4>1, <4>3, <5>2 DEF LogVars
      <4> QED  BY <3>1, <4>2, <4>3
    <3>3. CASE call.batch # <<>>
      <4>1. taken \in 1..Received
        <5>1. call.batch \in Seq(Span) /\ Upto(call.batch, taken)
          BY <1>1, TypeFacts DEF PlacedInv, Placed
        <5>2. 0 < call.batch[1].lo /\ call.batch[1].hi <= taken /\ 1 \in 1..Len(call.batch)
          BY <3>3, <5>1, SpanFacts DEF Upto
        <5>3. 0 < taken
          BY <1>1, <5>1, <5>2, SpanFacts
        <5> QED  BY <1>1, <1>2, <5>3 DEF LogFacts
      <4>2. \E n \in 1..Received : InChannel' = 1..n /\ InChannel \subseteq InChannel'
        BY <2>2, <4>1
      <4>3. Log!Appear
        BY <1>1, <3>1, <4>2 DEF Log!Appear, InChannel, Screen, Received, EndOf
      <4> QED  BY <1>4, <1>6, <4>3, WholeStep DEF Log!Whole
    <3> QED  BY <3>2, <3>3
  <2> QED  BY <2>3, <2>4
<1> QED
  BY <1>5, <1>6

LEMMA LogNextStep ==
  LogInv /\ LogInv' /\ [Next]_vars => Log!Next \/ UNCHANGED LogVars
<1> SUFFICES ASSUME LogInv, LogInv', [Next]_vars
             PROVE  Log!Next \/ UNCHANGED LogVars
  OBVIOUS
<1>1. OpenInv /\ InputInv /\ SizeInv
  BY DEF LogInv
<1>2. CASE Session
  BY <1>2, SessionLog
<1>3. CASE Ingest
  BY <1>3, IngestLog
<1>4. CASE PostOneUnit
  BY <1>1, <1>4, PostOneUnitStarts, StartsLog
<1>5. ASSUME NEW o \in Outcomes, AnyAnswer(o)
      PROVE  Log!Next \/ UNCHANGED LogVars
  BY <1>1, <1>5, AnswersAnswered, AnsweredLog
<1>6. CASE TooLong
  <2>1. /\ UNCHANGED <<transcript, shown, anchors, currentId, sent, queue, taken, latestLive>>
        /\ faults' # 0
    BY <1>1, <1>6, TooLongShrinks DEF Shrinking, handleVars, queueVars, liveVars
  <2>2. LogFacts /\ LogFacts' /\ Visible' = Visible
    BY <2>1, LogState, LogStateAfter DEF LogFacts
  <2>3. Shows /\ InChannel' = InChannel /\ InChannel \subseteq Appeared
    BY <2>1, <2>2 DEF Shows, InChannel, Appeared, LogFacts
  <2>4. Received <= Received' /\ sent <= sent'
    BY <2>1, <2>2 DEF LogFacts, Received
  <2> QED  BY <2>1, <2>3, <2>4, DegradedStep
<1>7. CASE Stop \/ Finished \/ UNCHANGED vars
  <2>1. /\ UNCHANGED <<transcript, shown, anchors, faults, currentId>>
        /\ UNCHANGED <<taken, sent, queue, latestLive>>
    BY <1>7 DEF Stop, Finished, vars, handleVars, queueVars, liveVars, sinkVars
  <2>2. UNCHANGED <<InChannel, Appeared, Screen>> /\ Received' = Received
    BY <2>1, QuietStep DEF Received
  <2> QED  BY <2>1, <2>2 DEF LogVars
<1> QED
  BY <1>2, <1>3, <1>4, <1>5, <1>6, <1>7 DEF Next, Platform, AnyAnswer

LEMMA LogInit == Init => Log!Init
<1> SUFFICES ASSUME Init PROVE Log!Init
  OBVIOUS
<1>1. LogFacts
  BY LogInvInit, LogState
<1>2. /\ sent = 0 /\ queue = <<>> /\ taken = 0 /\ anchors = {} /\ shown = {}
      /\ latestLive = NoText /\ currentId = 0 /\ faults = 0
  BY DEF Init
<1>3. Visible = {}
  BY <1>1, <1>2 DEF LogFacts
<1> QED
  BY <1>2, <1>3 DEF Log!Init

\* The dispatcher implements OrderedLog: what was handed over appears in the
\* channel without gaps and in order, and is never taken back, as long as no
\* call fails; whatever fails, what appears for the first time comes after all
\* that ever appeared.
THEOREM DispatcherImplementsLog == Spec => ImplementsOrderedLog
<1>1. Init => Log!Init
  BY LogInit
<1>2. LogInv /\ LogInv' /\ [Next]_vars =>
        [Log!Next]_<<sent, IF queue = <<>> THEN taken ELSE queue[Len(queue)].hi,
                     Visible \cup anchors, shown \cup anchors, latestLive,
                     IF currentId = 0 THEN NoText ELSE transcript[currentId].text, faults > 0>>
  BY LogNextStep DEF LogVars, Received, EndOf, InChannel, Appeared, Screen
<1> QED
  BY <1>1, <1>2, LogInvAlways, PTL DEF Spec, ImplementsOrderedLog, Log!Spec
=============================================================================
