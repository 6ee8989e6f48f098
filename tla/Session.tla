------------------------------ MODULE Session ------------------------------
(***************************************************************************)
(* One shell session: run_session of bridge.rs with the threads of         *)
(* pty_backend.rs.  The shell writes chunks of output to its terminal; the *)
(* reader thread moves them into a bounded channel; the session loop feeds *)
(* them to the renderer, whose ring keeps the rows that scrolled off; each *)
(* tick hands the ring to the dispatcher.  Input goes the other way, from  *)
(* chat and attach clients through a bounded channel and the writer thread *)
(* to the terminal.                                                        *)
(*                                                                         *)
(* The rows that scroll off are numbered in the order they are written.  A *)
(* chunk is the row its processing scrolls off, 0 if it scrolls none.      *)
(* One action stands for the code of the loop between two awaits.          *)
(***************************************************************************)
EXTENDS Naturals, Sequences, Functions

CONSTANTS
  OutputCap,    \* depth of the output channel (PTY -> application)
  InputCap,     \* depth of the input channel (application -> PTY)
  TtyCap,       \* chunks the operating system buffers in each direction
  InboxCap,     \* depth of the attach event channel and of the subscription
  Depth,        \* DISPATCH_CHANNEL_DEPTH
  RingSizes,    \* values of the setting scroll_buffer
  Refreshes,    \* values of the setting anchor_refresh
  Jobs,         \* bound: jobs that may outlive the shell and keep the terminal open
  Echo,         \* bound: chunks a program answers one input with
  MaxRows,      \* bound: rows the programs write
  Blanks,       \* bound: chunks without a row, {0} or {}
  MaxArrivals,  \* bound: chat messages and attach events
  Kinds,        \* bound: kinds of chat messages that arrive
  EventKinds    \* bound: kinds of attach events that arrive

\* A chat message as handle_slack_message tells them apart: text or a key, a
\* resize, --clear, any command that is only answered, the two settings the
\* session reads, --kill, --new force, and the end of the subscription.
ChatKinds == {"input", "resize", "clear", "say", "scroll_buffer", "anchor_refresh",
              "kill", "force", "closed"}
AttachKinds == {"input", "resize"}

ASSUME CapAssumption ==
  /\ OutputCap \in Nat \ {0} /\ InputCap \in Nat \ {0} /\ TtyCap \in Nat \ {0}
  /\ InboxCap \in Nat \ {0} /\ Depth \in Nat \ {0}
  /\ RingSizes \subseteq Nat /\ Refreshes \subseteq Nat

ASSUME BoundAssumption ==
  /\ Blanks \subseteq {0} /\ Echo \in Nat /\ MaxRows \in Nat /\ MaxArrivals \in Nat
  /\ "shell" \notin Jobs
  /\ Kinds \subseteq ChatKinds /\ EventKinds \subseteq AttachKinds

VARIABLES
  holders,     \* processes that have the terminal open
  written,     \* rows written so far
  owed,        \* chunks a program has to write before it reads again
  ttyOut,      \* output the operating system buffers
  ttyIn,       \* number of inputs it buffers
  reader,      \* the reader thread: the chunk in hand, and whether it is done
  output,      \* the output channel
  writer,      \* the writer thread: inputs in hand, and whether it is done
  input,       \* number of inputs in the input channel
  exited,      \* the watcher has fired exit_tx
  loop,        \* where the session loop is
  resume,      \* whose branch awaits input_tx.send
  outcome,     \* SessionEnd, "none" while the loop runs
  grace,       \* shell_exited_at and its timer: "off", "running", "over"
  interrupt,   \* the ctrl_c() listener of the present select has fired
  tickDue,     \* the render tick has elapsed
  pressed,     \* history: the user has pressed Ctrl+C
  events,      \* attach events not yet received
  chat,        \* chat messages not yet received
  arrivals,    \* chat messages and attach events so far
  ringMax,     \* TuiRenderer.scroll_buffer_max
  refresh,     \* RuntimeSettings.anchor_refresh
  sinceAnchor, \* messages_since_anchor
  postedLive,  \* posted_live_frame
  rows         \* where the rows are on the way to the dispatcher, see Rows

\* ring: TuiRenderer.scroll_buffer; frames: messages in the dispatcher's
\* channel.  History: the rows the dispatcher accepted, those that fell off the
\* ring, those thrown away by clear_scroll_buffer, those drained for a frame
\* that was refused, those dropped with the output channel and by the reader.
Rows == [ring : Seq(1..MaxRows), frames : 0..Depth, handed : Seq(1..MaxRows),
         evicted : SUBSET (1..MaxRows), cleared : SUBSET (1..MaxRows),
         refused : SUBSET (1..MaxRows), dropped : SUBSET (1..MaxRows)]

terminal == <<holders, written, owed, ttyOut, ttyIn>>
threads  == <<reader, output, writer, input, exited>>
control  == <<loop, resume, outcome, grace, interrupt, tickDue>>
inbox    == <<pressed, events, chat, arrivals>>
settings == <<ringMax, refresh, sinceAnchor, postedLive>>
vars     == <<terminal, threads, control, inbox, settings, rows>>

HungUp == holders = {}

\* run_session has returned: its ends of the channels are dropped.
Gone == loop = "ended"

RowsOf(chunks) == Range(chunks) \ {0}

Init ==
  /\ holders \in {{"shell"} \cup js : js \in SUBSET Jobs}
  /\ written = 0 /\ owed = 0 /\ ttyOut = <<>> /\ ttyIn = 0
  /\ reader = [held |-> <<>>, done |-> FALSE] /\ output = <<>>
  /\ writer = [held |-> 0, done |-> FALSE] /\ input = 0
  /\ exited = FALSE
  /\ loop = "select" /\ resume = "none" /\ outcome = "none" /\ grace = "off"
  /\ interrupt = FALSE /\ tickDue = TRUE
  /\ pressed = FALSE /\ events = <<>> /\ chat = <<>> /\ arrivals = 0
  /\ ringMax \in RingSizes /\ refresh \in Refreshes
  /\ sinceAnchor = 0 /\ postedLive = FALSE
  /\ rows = [ring |-> <<>>, frames |-> 0, handed |-> <<>>,
             evicted |-> {}, cleared |-> {}, refused |-> {}, dropped |-> {}]

-----------------------------------------------------------------------------
(* The terminal and the programs that have it open.                        *)

\* A program writes a chunk; it waits while the buffer is full.
Write ==
  /\ ~HungUp /\ Len(ttyOut) < TtyCap
  /\ \E chunk \in Blanks \cup ({written + 1} \cap 1..MaxRows) :
       /\ ttyOut' = Append(ttyOut, chunk)
       /\ written' = IF chunk = 0 THEN written ELSE chunk
  /\ owed' = IF owed = 0 THEN 0 ELSE owed - 1
  /\ UNCHANGED <<holders, ttyIn, threads, control, inbox, settings, rows>>

\* A program reads an input, once it has written its answer to the last one.
Consume ==
  /\ ~HungUp /\ ttyIn > 0 /\ owed = 0
  /\ ttyIn' = ttyIn - 1
  /\ owed' \in 0..Echo
  /\ UNCHANGED <<holders, written, ttyOut, threads, control, inbox, settings, rows>>

\* A program closes the terminal: the shell exits, or a job it has left behind.
Exit ==
  /\ \E p \in holders : holders' = holders \ {p}
  /\ UNCHANGED <<written, owed, ttyOut, ttyIn, threads, control, inbox, settings, rows>>

-----------------------------------------------------------------------------
(* The threads of pty_backend.rs.                                          *)

\* reader.read: a chunk, or the end of the file once nobody can write.
Read ==
  /\ ~reader.done /\ reader.held = <<>>
  /\ \/ /\ ttyOut # <<>>
        /\ reader' = [reader EXCEPT !.held = <<Head(ttyOut)>>]
        /\ ttyOut' = Tail(ttyOut)
     \/ /\ ttyOut = <<>> /\ HungUp
        /\ reader' = [reader EXCEPT !.done = TRUE]
        /\ UNCHANGED ttyOut
  /\ UNCHANGED <<holders, written, owed, ttyIn, output, writer, input, exited>>
  /\ UNCHANGED <<control, inbox, settings, rows>>

\* Mutant: the thread does not notice that the receiver is gone.
NeverDropped == FALSE

OutputDropped == Gone

\* output_tx.blocking_send: waits for room; once the receiver is gone it fails,
\* and the thread ends with the chunk in its hand.
Forward ==
  /\ ~reader.done /\ reader.held # <<>>
  /\ \/ /\ OutputDropped
        /\ reader' = [held |-> <<>>, done |-> TRUE]
        /\ rows' = [rows EXCEPT !.dropped = @ \cup RowsOf(reader.held)]
        /\ UNCHANGED output
     \/ /\ ~OutputDropped /\ Len(output) < OutputCap
        /\ output' = output \o reader.held
        /\ reader' = [reader EXCEPT !.held = <<>>]
        /\ UNCHANGED rows
  /\ UNCHANGED <<terminal, writer, input, exited, control, inbox, settings>>

\* input_rx.blocking_recv: an input, or the end once the senders are gone.
Fetch ==
  /\ ~writer.done /\ writer.held = 0
  /\ \/ /\ input > 0
        /\ input' = input - 1
        /\ writer' = [writer EXCEPT !.held = 1]
     \/ /\ input = 0 /\ Gone
        /\ writer' = [writer EXCEPT !.done = TRUE]
        /\ UNCHANGED input
  /\ UNCHANGED <<terminal, reader, output, exited, control, inbox, settings, rows>>

\* writer.write_all: waits for room, fails once nobody has the terminal open.
Type ==
  /\ ~writer.done /\ writer.held = 1
  /\ \/ /\ HungUp
        /\ writer' = [writer EXCEPT !.done = TRUE]
        /\ UNCHANGED ttyIn
     \/ /\ ~HungUp /\ ttyIn < TtyCap
        /\ ttyIn' = ttyIn + 1
        /\ writer' = [writer EXCEPT !.held = 0]
  /\ UNCHANGED <<holders, written, owed, ttyOut, reader, output, input, exited>>
  /\ UNCHANGED <<control, inbox, settings, rows>>

\* The watcher's try_wait reports that the shell is gone.
Watch ==
  /\ ~exited /\ "shell" \notin holders
  /\ exited' = TRUE
  /\ UNCHANGED <<terminal, reader, output, writer, input, control, inbox, settings, rows>>

-----------------------------------------------------------------------------
(* What happens around the loop.                                           *)

\* Every select makes its own ctrl_c() listener: a signal that comes while the
\* loop is inside a branch, or has left, is heard by none.
Press ==
  /\ ~pressed /\ pressed' = TRUE
  /\ interrupt' = (loop = "select")
  /\ UNCHANGED <<terminal, threads, loop, resume, outcome, grace, tickDue>>
  /\ UNCHANGED <<events, chat, arrivals, settings, rows>>

ChatArrives ==
  /\ Len(chat) < InboxCap
  /\ arrivals < MaxArrivals /\ arrivals' = arrivals + 1
  /\ \E kind \in Kinds : chat' = Append(chat, kind)
  /\ UNCHANGED <<terminal, threads, control, pressed, events, settings, rows>>

EventArrives ==
  /\ Len(events) < InboxCap
  /\ arrivals < MaxArrivals /\ arrivals' = arrivals + 1
  /\ \E kind \in EventKinds : events' = Append(events, kind)
  /\ UNCHANGED <<terminal, threads, control, pressed, chat, settings, rows>>

TickElapses ==
  /\ ~tickDue /\ outcome = "none" /\ tickDue' = TRUE
  /\ UNCHANGED <<terminal, threads, loop, resume, outcome, grace, interrupt>>
  /\ UNCHANGED <<inbox, settings, rows>>

GraceElapses ==
  /\ grace = "running" /\ outcome = "none" /\ grace' = "over"
  /\ UNCHANGED <<terminal, threads, loop, resume, outcome, interrupt, tickDue>>
  /\ UNCHANGED <<inbox, settings, rows>>

\* The dispatcher task receives a message (Ingest of module Dispatcher).
DispatcherTakes ==
  /\ rows.frames > 0
  /\ rows' = [rows EXCEPT !.frames = @ - 1]
  /\ UNCHANGED <<terminal, threads, control, inbox, settings>>

-----------------------------------------------------------------------------
(* Operations of the renderer and of the dispatcher's handle on the rows.  *)

HasCapacity(r) == r.frames < Depth

\* try_send
Accept(n) == IF n < Depth THEN n + 1 ELSE n

\* scroll_off_top: a full ring evicts its oldest row, one of size 0 keeps none.
ScrolledOff(r, row) ==
  IF ringMax = 0 THEN [r EXCEPT !.evicted = @ \cup {row}]
  ELSE IF Len(r.ring) >= ringMax
    THEN [r EXCEPT !.ring = Append(Tail(@), row), !.evicted = @ \cup {Head(r.ring)}]
    ELSE [r EXCEPT !.ring = Append(@, row)]

Processed(r, chunk) == IF chunk = 0 THEN r ELSE ScrolledOff(r, chunk)

\* Mutant: the ring is shrunk while it has max rows, not only while it has more.
ShrunkTooFar(r, max) ==
  LET gone == IF Len(r.ring) >= max THEN Len(r.ring) - max + 1 ELSE 0
  IN  [r EXCEPT !.ring = SubSeq(@, gone + 1, Len(@)),
                !.evicted = @ \cup Range(SubSeq(r.ring, 1, Len(r.ring) - max))]

\* set_scroll_buffer_max: the oldest rows go, up to the new size.
Shrunk(r, max) ==
  LET gone == IF Len(r.ring) > max THEN Len(r.ring) - max ELSE 0
  IN  [r EXCEPT !.ring = SubSeq(@, gone + 1, Len(@)),
                !.evicted = @ \cup Range(SubSeq(r.ring, 1, gone))]

Said(r) == [r EXCEPT !.frames = Accept(@)]

\* anchor, which a full channel refuses, and clear_scroll_buffer.
Anchored(r) ==
  [r EXCEPT !.frames = Accept(@), !.ring = <<>>, !.cleared = @ \cup Range(r.ring)]

\* drain_scroll_buffer_rows and try_send_frame: there is always a live frame.
HandedOver(r) ==
  IF HasCapacity(r)
    THEN [r EXCEPT !.frames = @ + 1, !.ring = <<>>, !.handed = @ \o r.ring]
    ELSE [r EXCEPT !.ring = <<>>, !.refused = @ \cup Range(r.ring)]

-----------------------------------------------------------------------------
(* The session loop.  Its select is biased: a branch runs when it is ready  *)
(* and none before it is.                                                  *)

\* Mutant: the grace timer is looked at only when there is no output.
ReadyOutputFirst ==
  <<interrupt, grace = "over" /\ output = <<>>, grace = "off" /\ exited,
    output # <<>> \/ reader.done, events # <<>>, tickDue, chat # <<>> >>

\* Ctrl+C, grace over, shell reaped, output, attach event, tick, chat message.
Ready == <<interrupt, grace = "over", grace = "off" /\ exited,
           output # <<>> \/ reader.done, events # <<>>, tickDue, chat # <<>> >>

Branch(i) == loop = "select" /\ Ready[i] /\ \A j \in 1..(i - 1) : ~Ready[j]

\* Out of the loop, through the final flush, to the wait for the dispatcher.
EndSession(how, r) ==
  /\ loop' = "flushing" /\ outcome' = how
  /\ rows' = HandedOver(r)

\* pty.kill
Kill == holders' = holders \ {"shell"}

Interrupted ==
  /\ Branch(1)
  /\ Kill
  /\ EndSession("Interrupted", rows)
  /\ UNCHANGED <<written, owed, ttyOut, ttyIn, threads, resume, grace, interrupt, tickDue>>
  /\ UNCHANGED <<inbox, settings>>

GraceOver ==
  /\ Branch(2)
  /\ EndSession("ShellExited", rows)
  /\ UNCHANGED <<terminal, threads, resume, grace, interrupt, tickDue, inbox, settings>>

ShellReaped ==
  /\ Branch(3)
  /\ grace' = "running"
  /\ UNCHANGED <<terminal, threads, loop, resume, outcome, interrupt, tickDue>>
  /\ UNCHANGED <<inbox, settings, rows>>

ProcessOutput ==
  /\ Branch(4) /\ output # <<>>
  /\ rows' = Processed(rows, Head(output))
  /\ output' = Tail(output)
  /\ UNCHANGED <<terminal, reader, writer, input, exited, control, inbox, settings>>

\* Mutant: the session ends with the reader, whatever is left in the channel.
ReaderDone == reader.done

\* recv returns None: all senders are gone and the channel is empty.
OutputEnds == reader.done /\ output = <<>>

OutputClosed ==
  /\ Branch(4) /\ OutputEnds
  /\ EndSession("ShellExited", rows)
  /\ UNCHANGED <<terminal, threads, resume, grace, interrupt, tickDue, inbox, settings>>

\* Mutant: a send waits for room even if the writer thread is gone.
SentIfRoom == input < InputCap /\ input' = input + 1

\* input_tx.send, awaited by a branch: it fails at once when the writer thread
\* is gone, and suspends the loop while the channel is full.
Sent ==
  /\ writer.done \/ input < InputCap
  /\ input' = IF writer.done THEN input ELSE input + 1
Suspend(who) ==
  /\ ~writer.done /\ input = InputCap
  /\ loop' = "sending" /\ resume' = who
  /\ UNCHANGED input

AttachEvent ==
  /\ Branch(5)
  /\ events' = Tail(events)
  /\ \/ Head(events) = "resize" /\ UNCHANGED <<input, loop, resume>>
     \/ Head(events) = "input" /\ Sent /\ UNCHANGED <<loop, resume>>
     \/ Head(events) = "input" /\ Suspend("attach")
  /\ UNCHANGED <<terminal, reader, output, writer, exited, outcome, grace, interrupt, tickDue>>
  /\ UNCHANGED <<pressed, chat, arrivals, settings, rows>>

\* A tick that finds the channel full leaves the rows in the ring.
MayHandOver == HasCapacity(rows)

Tick ==
  /\ Branch(6)
  /\ tickDue' = FALSE
  /\ IF MayHandOver THEN rows' = HandedOver(rows) /\ postedLive' = TRUE
                    ELSE UNCHANGED <<rows, postedLive>>
  /\ UNCHANGED <<terminal, threads, loop, resume, outcome, grace, interrupt>>
  /\ UNCHANGED <<inbox, ringMax, refresh, sinceAnchor>>

\* The anchor refresh after a chat message that has left the rows in r and
\* posted_live_frame in live; n is the setting by then.
AnchorDue(live, n) == n > 0 /\ live /\ sinceAnchor + 1 >= n
Refreshed(r, live, n) == IF AnchorDue(live, n) THEN Anchored(r) ELSE r
CountMessage(live, n) ==
  /\ sinceAnchor' = IF n > 0 /\ live /\ ~AnchorDue(live, n) THEN sinceAnchor + 1 ELSE 0
  /\ postedLive' = (live /\ ~AnchorDue(live, n))

\* A chat message that is answered in one go.
Answer(r, live, n) ==
  /\ rows' = Refreshed(r, live, n)
  /\ CountMessage(live, n)
  /\ refresh' = n

HandleChat(kind) ==
  \/ kind \in {"resize", "say"} /\ Answer(Said(rows), postedLive, refresh) /\ UNCHANGED ringMax
  \/ kind = "clear" /\ Answer(Said(Anchored(rows)), FALSE, refresh) /\ UNCHANGED ringMax
  \/ kind = "scroll_buffer" /\ \E max \in RingSizes :
       Answer(Said(Shrunk(rows, max)), postedLive, refresh) /\ ringMax' = max
  \/ kind = "anchor_refresh" /\ \E n \in Refreshes :
       Answer(Said(rows), postedLive, n) /\ UNCHANGED ringMax

ChatCommand ==
  /\ Branch(7)
  /\ HandleChat(Head(chat))
  /\ chat' = Tail(chat)
  /\ UNCHANGED <<terminal, threads, control, pressed, events, arrivals>>

ChatInput ==
  /\ Branch(7) /\ Head(chat) = "input"
  /\ \/ /\ Sent
        /\ Answer(rows, postedLive, refresh)
        /\ UNCHANGED <<loop, resume, ringMax>>
     \/ Suspend("chat") /\ UNCHANGED <<settings, rows>>
  /\ chat' = Tail(chat)
  /\ UNCHANGED <<terminal, reader, output, writer, exited, outcome, grace, interrupt, tickDue>>
  /\ UNCHANGED <<pressed, events, arrivals>>

\* --kill and --new force run the anchor refresh, too, before they end the
\* session; the end of the subscription does not.
ChatEnds ==
  /\ Branch(7)
  /\ Kill
  /\ \/ /\ Head(chat) = "kill"
        /\ EndSession("UserKilled", Refreshed(rows, postedLive, refresh))
        /\ CountMessage(postedLive, refresh)
     \/ /\ Head(chat) = "force"
        /\ EndSession("UserRequestedNew", Refreshed(rows, postedLive, refresh))
        /\ CountMessage(postedLive, refresh)
     \/ /\ Head(chat) = "closed"
        /\ EndSession("Interrupted", rows)
        /\ UNCHANGED <<sinceAnchor, postedLive>>
  /\ chat' = Tail(chat)
  /\ UNCHANGED <<written, owed, ttyOut, ttyIn, threads, resume, grace, interrupt, tickDue>>
  /\ UNCHANGED <<pressed, events, arrivals, ringMax, refresh>>

\* The awaited send has found room, or the writer thread is gone.
SendReturns ==
  /\ loop = "sending"
  /\ Sent
  /\ loop' = "select" /\ resume' = "none"
  /\ \/ resume = "attach" /\ UNCHANGED <<settings, rows>>
     \/ resume = "chat" /\ Answer(rows, postedLive, refresh) /\ UNCHANGED ringMax
  /\ UNCHANGED <<terminal, reader, output, writer, exited, outcome, grace, interrupt, tickDue>>
  /\ UNCHANGED inbox

\* The dispatcher has stopped, or SHUTDOWN_POST_TIMEOUT has elapsed.  output_rx
\* is dropped with what is left in the channel.
Return ==
  /\ loop = "flushing" /\ loop' = "ended"
  /\ output' = <<>>
  /\ rows' = [rows EXCEPT !.dropped = @ \cup RowsOf(output)]
  /\ UNCHANGED <<terminal, reader, writer, input, exited>>
  /\ UNCHANGED <<resume, outcome, grace, interrupt, tickDue, inbox, settings>>

-----------------------------------------------------------------------------
Programs == Write \/ Consume \/ Exit
Around   == Press \/ ChatArrives \/ EventArrives \/ TickElapses \/ GraceElapses
            \/ DispatcherTakes
RunSession == \/ Interrupted \/ GraceOver \/ ShellReaped \/ ProcessOutput \/ OutputClosed
              \/ AttachEvent \/ Tick \/ ChatCommand \/ ChatInput \/ ChatEnds
              \/ SendReturns \/ Return

\* The session has returned and the threads are through.
Finished == Gone /\ reader.done /\ writer.done /\ UNCHANGED vars

Next == Programs \/ Around \/ RunSession
        \/ Read \/ Forward \/ Fetch \/ Type \/ Watch \/ Finished

Spec == Init /\ [][Next]_vars

\* Threads and the task that runs the loop go on when they can, timers elapse,
\* the dispatcher makes progress (Drains of module Dispatcher).  A program
\* writes what it owes and reads what is typed; nobody makes it exit.
Fairness ==
  /\ WF_vars(RunSession)
  /\ WF_vars(Read) /\ WF_vars(Forward) /\ WF_vars(Fetch) /\ WF_vars(Type) /\ WF_vars(Watch)
  /\ WF_vars(TickElapses) /\ WF_vars(GraceElapses) /\ WF_vars(DispatcherTakes)
  /\ WF_vars(owed > 0 /\ Write) /\ WF_vars(Consume)

FairSpec == Spec /\ Fairness

-----------------------------------------------------------------------------
(* Properties.                                                             *)

\* The state of the programs, threads, channels and loop is well-typed, and no
\* channel holds more than its depth.
TypeOK ==
  /\ holders \subseteq {"shell"} \cup Jobs /\ written \in 0..MaxRows /\ owed \in 0..Echo
  /\ ttyOut \in Seq(0..MaxRows) /\ Len(ttyOut) <= TtyCap /\ ttyIn \in 0..TtyCap
  /\ reader \in [held : {<<>>} \cup {<<c>> : c \in 0..MaxRows}, done : BOOLEAN]
  /\ output \in Seq(0..MaxRows) /\ Len(output) <= OutputCap
  /\ writer \in [held : {0, 1}, done : BOOLEAN] /\ input \in 0..InputCap
  /\ exited \in BOOLEAN
  /\ loop \in {"select", "sending", "flushing", "ended"}
  /\ resume \in {"none", "attach", "chat"}
  /\ outcome \in {"none", "ShellExited", "UserRequestedNew", "UserKilled", "Interrupted"}
  /\ grace \in {"off", "running", "over"} /\ interrupt \in BOOLEAN /\ tickDue \in BOOLEAN
  /\ pressed \in BOOLEAN /\ events \in Seq(AttachKinds) /\ chat \in Seq(ChatKinds)
  /\ arrivals \in 0..MaxArrivals
  /\ ringMax \in RingSizes /\ refresh \in Refreshes
  /\ sinceAnchor \in Nat /\ postedLive \in BOOLEAN
  /\ rows \in Rows /\ Len(rows.ring) <= ringMax

\* The stages a row goes through, the last one first.
Stages == <<rows.handed, rows.ring, output, reader.held, ttyOut>>

\* README: rows reach the scroll buffer in order and without duplication.
\* Within a stage the rows increase, and those of a later stage are older: no
\* interleaving of the threads, ticks, anchors and evictions reorders or
\* repeats a row.
RowsInOrder ==
  \A i, j \in DOMAIN Stages :
    \A a \in DOMAIN Stages[i], b \in DOMAIN Stages[j] :
      (i < j \/ (i = j /\ a < b)) /\ Stages[i][a] # 0 /\ Stages[j][b] # 0
        => Stages[i][a] < Stages[j][b]

\* The rows that may still be handed over; nobody reads the terminal once the
\* reader thread has ended.
OnItsWay == UNION {Range(rows.ring), RowsOf(output), RowsOf(reader.held),
                   IF reader.done THEN {} ELSE RowsOf(ttyOut)}

\* The rows the session took and did not hand over, and those it never took.
Discarded == rows.evicted \cup rows.cleared \cup rows.refused
Dropped == rows.dropped \cup IF reader.done THEN RowsOf(ttyOut) ELSE {}

\* README: no data loss.  Every row written is on its way, handed over, or lost
\* in one of the four ways there are, and never in two of these places: the
\* ring was full, an anchor cleared it, the final frame was refused, or it had
\* not reached the loop when the session ended.  That last one befalls only a
\* session that did not end with its output, and once the session and the
\* reader thread are through no row stays behind on its way.
RowsAccountedFor ==
  /\ UNION {Range(rows.handed), OnItsWay, Discarded, Dropped} = 1..written
  /\ Range(rows.handed) \cap OnItsWay = {}
  /\ (Range(rows.handed) \cup OnItsWay) \cap (Discarded \cup Dropped) = {}
  /\ Discarded \cap Dropped = {}
  /\ rows.refused # {} => outcome # "none"
  /\ Dropped # {} => Gone /\ (outcome = "ShellExited" => grace = "over")
  /\ Gone /\ reader.done => OnItsWay = {}

\* The rows of the terminal are kept: typed, in order, and none unaccounted for.
RowsInv == TypeOK /\ RowsInOrder /\ RowsAccountedFor

\* A session that ends because its output has ended has rendered all of it, up
\* to the last chunk, even if the shell was reaped long before.
TrailingOutputKept ==
  outcome = "ShellExited" /\ grace # "over" =>
    Range(rows.handed) \cup Discarded = 1..written

\* Once every program has closed the terminal the session ends, even if the
\* loop is suspended on a full input channel and every buffer is full.
HangupEndsSession == HungUp ~> Gone

\* Once the shell is reaped the session ends, even if a job it left behind
\* writes for ever, unless the loop stays suspended on the input channel.
ExitEndsSession == <>exited => <>Gone \/ <>[](loop = "sending")

\* The reader and the writer thread end after the session, as soon as no
\* program has the terminal open.
ThreadsFinish == (Gone /\ HungUp) ~> (reader.done /\ writer.done)
=============================================================================
