------------------------------ MODULE Attach ------------------------------
(***************************************************************************)
(* The attach server (server.rs) and its clients (client.rs).  The session *)
(* broadcasts its output, and a frame for each change of the window title, *)
(* to the handler of each client, which writes it to its connection.  The  *)
(* title is latched, too, for clients that come later.  The other way, a   *)
(* client's reader task puts what the user types into one bounded channel  *)
(* that the session drains.                                                *)
(*                                                                         *)
(* Every client has two tasks in the server and three threads or tasks of  *)
(* its own.  A broadcast frame is known by its position in the log, a      *)
(* client's events are numbered from 0, its initial size.                  *)
(***************************************************************************)
EXTENDS Naturals, Sequences, Functions

CONSTANTS
  Clients,
  Wedged,        \* clients that may stop reading
  Typists,       \* bound: clients whose user types
  Mortal,        \* bound: clients whose input ends or whose process is killed
  BroadcastCap,  \* BROADCAST_CAPACITY
  EventCap,      \* depth of the event channel
  WireCap,       \* frames a connection buffers in each direction
  MaxFrames,     \* bound: frames the session broadcasts
  MaxTitles,     \* bound: titles among them
  MaxTyped       \* bound: events of one client after its Hello

ASSUME ClientAssumption == Wedged \subseteq Clients
\* HelloOk and the latched title are written to an empty connection.
ASSUME CapAssumption ==
  /\ BroadcastCap \in Nat \ {0} /\ EventCap \in Nat \ {0} /\ WireCap \in Nat \ {0, 1}
ASSUME BoundAssumption ==
  Typists \cup Mortal \subseteq Clients /\ MaxFrames \in Nat /\ MaxTitles \in Nat /\ MaxTyped \in Nat

VARIABLES
  log,        \* frames broadcast so far: 0 for output, t for the t-th title
  latch,      \* title_bytes, 0 for None
  titling,    \* the title that set_title has latched and not yet broadcast, or 0
  session,    \* "running" or "gone"
  accepting,  \* the accept task is alive
  events,     \* the event channel: pairs of a client and an event
  heard,      \* history: what the session received from each client
  srv,        \* handle_client and its reader task, see Handler
  down, up,   \* the connection, from and to the server
  cli,        \* the client process, see Process
  shown,      \* frames a client has written to its terminal
  typed,      \* events a client's user has produced
  since       \* history: length of the log when a client's handler subscribed

Phases  == {"absent", "backlog", "hello", "latch", "size", "subscribe", "stream",
            "goodbye", "done"}
Frames  == [kind : {"ok", "goodbye", "title", "output"}, n : Nat]
Handler == [at : Phases, cursor : Nat, held : Seq(Nat), deaf : BOOLEAN, inHand : Seq(Nat)]
Process == [at : {"off", "connecting", "on", "quit"}, hello : BOOLEAN, queue : Seq(Nat),
            stop : BOOLEAN, shut : BOOLEAN]

bridge == <<log, latch, titling, session, accepting>>
inward == <<events, heard>>
client == <<cli, shown, typed>>
vars   == <<bridge, inward, srv, down, up, client, since>>

NoHandler(phase) == [at |-> phase, cursor |-> 0, held |-> <<>>, deaf |-> FALSE,
                     inHand |-> <<>>]

NoProcess(phase) == [at |-> phase, hello |-> FALSE, queue |-> <<>>, stop |-> FALSE,
                     shut |-> FALSE]

Init ==
  /\ log = <<>> /\ latch = 0 /\ titling = 0 /\ session = "running" /\ accepting = TRUE
  /\ events = <<>> /\ heard = [c \in Clients |-> <<>>]
  /\ srv = [c \in Clients |-> NoHandler("absent")]
  /\ down = [c \in Clients |-> <<>>] /\ up = [c \in Clients |-> <<>>]
  /\ cli = [c \in Clients |-> NoProcess("off")]
  /\ shown = [c \in Clients |-> <<>>] /\ typed = [c \in Clients |-> 0]
  /\ since = [c \in Clients |-> 0]

-----------------------------------------------------------------------------
(* The session, as far as it uses the server.                              *)

Output ==
  /\ session = "running" /\ titling = 0 /\ Len(log) < MaxFrames
  /\ log' = Append(log, 0)
  /\ UNCHANGED <<latch, titling, session, accepting, inward, srv, down, up, client, since>>

\* set_title takes two steps: handlers run on other threads meanwhile.
LatchTitle ==
  /\ session = "running" /\ titling = 0 /\ Len(log) < MaxFrames /\ latch < MaxTitles
  /\ latch' = latch + 1 /\ titling' = latch + 1
  /\ UNCHANGED <<log, session, accepting, inward, srv, down, up, client, since>>

BroadcastTitle ==
  /\ titling # 0 /\ log' = Append(log, titling) /\ titling' = 0
  /\ UNCHANGED <<latch, session, accepting, inward, srv, down, up, client, since>>

TakeEvent ==
  /\ session = "running" /\ events # <<>>
  /\ LET c == Head(events)[1]
     IN  heard' = [heard EXCEPT ![c] = Append(@, Head(events)[2])]
  /\ events' = Tail(events)
  /\ UNCHANGED <<bridge, srv, down, up, client, since>>

\* run_session returns and drops its locals: the event receiver, its sender of
\* the broadcast, and the server, which aborts the accept task.
DropServer ==
  /\ session = "running" /\ titling = 0 /\ session' = "gone"
  /\ events' = <<>>
  /\ UNCHANGED <<log, latch, titling, accepting, heard, srv, down, up, client, since>>

\* Mutant: the accept task is not aborted.
NotAborted == FALSE

Aborted == session = "gone"

\* The aborted task ends; what it has not accepted is reset.
StopAccepting ==
  /\ Aborted /\ accepting /\ accepting' = FALSE
  /\ srv' = [c \in Clients |-> IF srv[c].at = "backlog" THEN [srv[c] EXCEPT !.at = "done"]
                                                        ELSE srv[c]]
  /\ UNCHANGED <<log, latch, titling, session, inward, down, up, client, since>>

-----------------------------------------------------------------------------
(* The handler of a client.                                                *)

Goto(c, phase) == srv' = [srv EXCEPT ![c].at = phase]

\* The task returns: the connection closes, the reader is aborted.
Finish(c) ==
  /\ srv' = [srv EXCEPT ![c] = NoHandler("done")]
  /\ up' = [up EXCEPT ![c] = <<>>]

\* Mutant: a frame stays in the BufWriter.
Unflushed(c, frame) == UNCHANGED down

\* write_frame and flush; what is written to a client that has gone is lost.
Write(c, frame) ==
  down' = IF cli[c].at = "quit" THEN down ELSE [down EXCEPT ![c] = Append(@, frame)]

Room(c) == Len(down[c]) < WireCap \/ cli[c].at = "quit"

Accept(c) ==
  /\ accepting /\ srv[c].at = "backlog"
  /\ Goto(c, "hello")
  /\ UNCHANGED <<bridge, inward, down, up, client, since>>

Greet(c) ==
  /\ srv[c].at = "hello" /\ up[c] # <<>> /\ Room(c)
  /\ up' = [up EXCEPT ![c] = Tail(@)]
  /\ Write(c, [kind |-> "ok", n |-> 0])
  /\ Goto(c, "latch")
  /\ UNCHANGED <<bridge, inward, client, since>>

\* The Hello has another version or token, or the connection has ended.
Refuse(c) ==
  /\ srv[c].at = "hello" /\ (up[c] # <<>> \/ cli[c].at = "quit")
  /\ Finish(c)
  /\ UNCHANGED <<bridge, inward, down, client, since>>

HelloTimeout(c) ==
  /\ srv[c].at = "hello" /\ up[c] = <<>>
  /\ Finish(c)
  /\ UNCHANGED <<bridge, inward, down, client, since>>

ReplayTitle(c) ==
  /\ srv[c].at = "latch" /\ Room(c)
  /\ IF latch = 0 THEN UNCHANGED down ELSE Write(c, [kind |-> "title", n |-> latch])
  /\ Goto(c, "size")
  /\ UNCHANGED <<bridge, inward, up, client, since>>

Receiving == session = "running"

EventRoom == Len(events) < EventCap

\* Mutant: the reader task is started before the initial size is sent.
ReadsEarly(c) == srv[c].at \in {"size", "subscribe", "stream", "goodbye"}

\* The reader task has been started.
Reads(c) == srv[c].at \in {"subscribe", "stream", "goodbye"}

\* event_tx.send waits for room; it fails once the receiver is dropped.
SendSize(c) ==
  /\ srv[c].at = "size"
  /\ \/ Receiving /\ EventRoom /\ events' = Append(events, <<c, 0>>)
     \/ ~Receiving /\ UNCHANGED events
  /\ Goto(c, "subscribe")
  /\ UNCHANGED <<bridge, heard, down, up, client, since>>

\* Mutant: a subscriber begins with the oldest frame still in the buffer.
OldestFrame == IF Len(log) > BroadcastCap THEN Len(log) - BroadcastCap ELSE 0

NextFrame == Len(log)

\* subscribe, and the handler's own sender is dropped.
Subscribe(c) ==
  /\ srv[c].at = "subscribe"
  /\ srv' = [srv EXCEPT ![c].at = "stream", ![c].cursor = NextFrame]
  /\ since' = [since EXCEPT ![c] = NextFrame]
  /\ UNCHANGED <<bridge, inward, down, up, client>>

\* Mutant: the handler keeps its sender while it streams.
HoldsSenderToo(c) == srv[c].at \in {"hello", "latch", "size", "subscribe", "stream"}

HoldsSender(c) == srv[c].at \in {"hello", "latch", "size", "subscribe"}

BroadcastClosed ==
  session = "gone" /\ ~accepting /\ \A c \in Clients : ~HoldsSender(c)

\* The frame of the log at the cursor has been overwritten.
Lagged(c) == Len(log) - srv[c].cursor > BroadcastCap

Idle(c) == srv[c].at = "stream" /\ srv[c].held = <<>>

Recv(c) ==
  /\ Idle(c) /\ srv[c].cursor < Len(log) /\ ~Lagged(c)
  /\ srv' = [srv EXCEPT ![c].cursor = @ + 1, ![c].held = <<srv[c].cursor + 1>>]
  /\ UNCHANGED <<bridge, inward, down, up, client, since>>

Forward(c) ==
  /\ srv[c].at = "stream" /\ srv[c].held # <<>> /\ Room(c)
  /\ Write(c, [kind |-> "output", n |-> Head(srv[c].held)])
  /\ srv' = [srv EXCEPT ![c].held = <<>>]
  /\ UNCHANGED <<bridge, inward, up, client, since>>

WriteFails(c) ==
  /\ srv[c].at = "stream" /\ srv[c].held # <<>> /\ cli[c].at = "quit"
  /\ Finish(c)
  /\ UNCHANGED <<bridge, inward, down, client, since>>

\* Mutant: a slow client goes on with the oldest frame still in the buffer.
SkipAhead(c) == srv' = [srv EXCEPT ![c].cursor = Len(log) - BroadcastCap]

Disconnect(c) == Goto(c, "goodbye")

DropSlow(c) ==
  /\ Idle(c) /\ Lagged(c)
  /\ Disconnect(c)
  /\ UNCHANGED <<bridge, inward, down, up, client, since>>

CloseStream(c) ==
  /\ Idle(c) /\ srv[c].cursor = Len(log) /\ BroadcastClosed
  /\ Goto(c, "goodbye")
  /\ UNCHANGED <<bridge, inward, down, up, client, since>>

SayGoodbye(c) ==
  /\ srv[c].at = "goodbye" /\ Room(c)
  /\ Write(c, [kind |-> "goodbye", n |-> 0])
  /\ Finish(c)
  /\ UNCHANGED <<bridge, inward, client, since>>

-----------------------------------------------------------------------------
(* The reader task of a client.                                            *)

ReadEvent(c) ==
  /\ Reads(c) /\ ~srv[c].deaf /\ srv[c].inHand = <<>> /\ up[c] # <<>>
  /\ srv' = [srv EXCEPT ![c].inHand = <<Head(up[c])>>]
  /\ up' = [up EXCEPT ![c] = Tail(@)]
  /\ UNCHANGED <<bridge, inward, down, client, since>>

\* An Input that cannot be passed on ends the task, a Resize does not.
PassOn(c) ==
  /\ srv[c].inHand # <<>>
  /\ \/ /\ Receiving /\ EventRoom
        /\ events' = Append(events, <<c, Head(srv[c].inHand)>>)
        /\ srv' = [srv EXCEPT ![c].inHand = <<>>]
     \/ /\ ~Receiving /\ UNCHANGED events
        /\ \E ends \in BOOLEAN :
             srv' = [srv EXCEPT ![c].inHand = <<>>, ![c].deaf = ends]
  /\ UNCHANGED <<bridge, heard, down, up, client, since>>

-----------------------------------------------------------------------------
(* The client process.                                                     *)

\* connect succeeds while the listener is open.
Connect(c) ==
  /\ cli[c].at = "off" /\ accepting
  /\ cli' = [cli EXCEPT ![c].at = "connecting"]
  /\ Goto(c, "backlog")
  /\ UNCHANGED <<bridge, inward, down, up, shown, typed, since>>

SendHello(c) ==
  /\ cli[c].at = "connecting" /\ ~cli[c].hello
  /\ cli' = [cli EXCEPT ![c].hello = TRUE]
  /\ up' = [up EXCEPT ![c] = Append(@, 0)]
  /\ UNCHANGED <<bridge, inward, srv, down, shown, typed, since>>

Running(c) == cli[c].at \in {"connecting", "on"}

\* The process ends; the histories of it end with it.
Quit(c) ==
  /\ cli' = [cli EXCEPT ![c] = NoProcess("quit")]
  /\ down' = [down EXCEPT ![c] = <<>>]
  /\ shown' = [shown EXCEPT ![c] = <<>>]
  /\ typed' = [typed EXCEPT ![c] = 0]
  /\ since' = [since EXCEPT ![c] = 0]

\* A Goodbye ends the reader loop; the loop looks at the stop flag after each
\* other frame.
ReadFrame(c) ==
  /\ Running(c) /\ down[c] # <<>>
  /\ LET frame == Head(down[c]) IN
       IF frame.kind = "goodbye" \/ cli[c].stop
         THEN Quit(c)
         ELSE /\ cli' = [cli EXCEPT ![c].at = "on"]
              /\ shown' = IF frame.kind = "ok" THEN shown
                                               ELSE [shown EXCEPT ![c] = Append(@, frame)]
              /\ down' = [down EXCEPT ![c] = Tail(@)]
              /\ UNCHANGED <<typed, since>>
  /\ UNCHANGED <<bridge, inward, srv, up>>

ConnectionEnds(c) ==
  /\ Running(c) /\ down[c] = <<>> /\ srv[c].at = "done"
  /\ Quit(c)
  /\ UNCHANGED <<bridge, inward, srv, up>>

\* The user types, or the watcher sees another size.
Type(c) ==
  /\ c \in Typists /\ cli[c].at = "on" /\ ~cli[c].stop /\ typed[c] < MaxTyped
  /\ typed' = [typed EXCEPT ![c] = @ + 1]
  /\ cli' = [cli EXCEPT ![c].queue = Append(@, typed[c] + 1)]
  /\ UNCHANGED <<bridge, inward, srv, down, up, shown, since>>

StdinEnds(c) ==
  /\ c \in Mortal /\ cli[c].at = "on" /\ ~cli[c].stop
  /\ cli' = [cli EXCEPT ![c].stop = TRUE]
  /\ UNCHANGED <<bridge, inward, srv, down, up, shown, typed, since>>

\* The writer task: it drops a message it receives after the stop, and a write
\* to a connection the server has closed fails.
SendEvent(c) ==
  /\ cli[c].at = "on" /\ cli[c].queue # <<>> /\ ~cli[c].shut
  /\ \/ /\ ~cli[c].stop /\ srv[c].at # "done" /\ Len(up[c]) < WireCap
        /\ up' = [up EXCEPT ![c] = Append(@, Head(cli[c].queue))]
        /\ cli' = [cli EXCEPT ![c].queue = Tail(@)]
     \/ /\ cli[c].stop \/ srv[c].at = "done"
        /\ cli' = [cli EXCEPT ![c].shut = TRUE, ![c].stop = TRUE, ![c].queue = <<>>]
        /\ UNCHANGED up
  /\ UNCHANGED <<bridge, inward, srv, down, shown, typed, since>>

\* The window is closed, or the process is killed.
Die(c) ==
  /\ c \in Mortal /\ Running(c)
  /\ Quit(c)
  /\ UNCHANGED <<bridge, inward, srv, up>>

-----------------------------------------------------------------------------
SessionStep == \/ Output \/ LatchTitle \/ BroadcastTitle \/ TakeEvent
               \/ DropServer \/ StopAccepting

HandlerStep(c) ==
  \/ Accept(c) \/ Greet(c) \/ Refuse(c) \/ HelloTimeout(c) \/ ReplayTitle(c)
  \/ SendSize(c) \/ Subscribe(c) \/ Recv(c) \/ Forward(c) \/ WriteFails(c)
  \/ DropSlow(c) \/ CloseStream(c) \/ SayGoodbye(c)

ReaderStep(c) == ReadEvent(c) \/ PassOn(c)

Receive(c) == ReadFrame(c) \/ ConnectionEnds(c)

ClientStep(c) == \/ Connect(c) \/ SendHello(c) \/ Receive(c) \/ Type(c)
                 \/ StdinEnds(c) \/ SendEvent(c) \/ Die(c)

Next == SessionStep \/ \E c \in Clients : HandlerStep(c) \/ ReaderStep(c) \/ ClientStep(c)

Spec == Init /\ [][Next]_vars

\* The tasks of the server and the reader loop of a client go on when they can.
\* Nobody has to connect, type, or end the session.
Fairness ==
  /\ WF_vars(BroadcastTitle) /\ WF_vars(StopAccepting)
  /\ \A c \in Clients :
       /\ WF_vars(HandlerStep(c)) /\ WF_vars(ReaderStep(c))
       /\ c \notin Wedged => WF_vars(Receive(c))

FairSpec == Spec /\ Fairness

-----------------------------------------------------------------------------
(* Properties.                                                             *)

\* The server, the connections and the clients are well-typed, and no channel
\* holds more than its depth.
TypeOK ==
  /\ log \in Seq(0..MaxTitles) /\ Len(log) <= MaxFrames
  /\ latch \in 0..MaxTitles /\ titling \in 0..latch
  /\ session \in {"running", "gone"} /\ accepting \in BOOLEAN
  /\ events \in Seq(Clients \X (0..MaxTyped)) /\ Len(events) <= EventCap
  /\ heard \in [Clients -> Seq(0..MaxTyped)]
  /\ srv \in [Clients -> Handler] /\ cli \in [Clients -> Process]
  /\ \A c \in Clients : srv[c].cursor \in 0..Len(log) /\ srv[c].held \in Seq(1..Len(log))
  /\ down \in [Clients -> Seq(Frames)] /\ up \in [Clients -> Seq(0..MaxTyped)]
  /\ \A c \in Clients : Len(down[c]) <= WireCap /\ Len(up[c]) <= WireCap
  /\ shown \in [Clients -> Seq(Frames)] /\ typed \in [Clients -> 0..MaxTyped]
  /\ since \in [Clients -> 0..MaxFrames]

\* 1 if the first frame a client has shown is the latched title, else 0.
Replayed(c) == IF shown[c] # <<>> /\ Head(shown[c]).kind = "title" THEN 1 ELSE 0

\* The comment of BROADCAST_CAPACITY and of the Lagged branch: a slow client is
\* disconnected.  What a client shows after the latched title is the broadcast
\* from its subscription on, without a hole and without a repetition, however
\* slow it reads.
GapFree ==
  \A c \in Clients : \A i \in DOMAIN shown[c] :
    i > Replayed(c) => shown[c][i] = [kind |-> "output", n |-> since[c] + i - Replayed(c)]

\* Channels are within their depth, and no client sees a hole in the output.
StreamInv == TypeOK /\ GapFree

TitleOf(frame) == IF frame.kind = "title" THEN frame.n ELSE log[frame.n]

\* A client's window never goes back to an earlier title, though a title reaches
\* it by the latch and by the broadcast.
TitlesForward ==
  \A c \in Clients : \A i, j \in DOMAIN shown[c] :
    LET earlier == TitleOf(shown[c][i])
        later   == TitleOf(shown[c][j])
    IN  i < j /\ earlier # 0 /\ later # 0 => earlier <= later

\* The events of a client in the channel.
Waiting(c) == {e \in 0..MaxTyped : <<c, e>> \in Range(events)}

\* What the session receives from a client is its initial size and then what
\* the user typed, in order and without a hole; while the handler streams and
\* the client runs nothing of it is lost on the way.  Of each client the first
\* `passed` events have been received or wait in the channel.
EventsInOrder ==
  /\ \A i, j \in DOMAIN events :
       i < j /\ events[i][1] = events[j][1] => events[i][2] < events[j][2]
  /\ \A c \in Clients : \E passed \in 0..(MaxTyped + 1) :
       /\ \A i \in DOMAIN heard[c] : heard[c][i] = i - 1
       /\ Waiting(c) = {e \in 0..MaxTyped : Len(heard[c]) <= e /\ e < passed}
       /\ Len(heard[c]) <= passed
       /\ session = "running" /\ srv[c].at = "stream" /\ cli[c].at = "on" /\ ~cli[c].stop
            => srv[c].inHand \o up[c] \o cli[c].queue
                 = [i \in 1..(typed[c] + 1 - passed) |-> passed + i - 1]

\* The comment of accept_task: after the session every client's window closes,
\* whatever another client does, one that never reads or never says Hello
\* included.
WindowsClose ==
  \A c \in Clients \ Wedged : (session = "gone") ~> ~Running(c)

ShownAt(c, n) == \E i \in DOMAIN shown[c] : shown[c][i].kind = "output" /\ shown[c][i].n = n

\* A frame broadcast to a client that reads is shown, unless the client is
\* disconnected as too slow or goes away.
Delivered ==
  \A c \in Clients \ Wedged : \A n \in 1..MaxFrames :
    (srv[c].at = "stream" /\ since[c] < n /\ n <= Len(log))
      ~> (ShownAt(c, n) \/ srv[c].at = "done" \/ ~Running(c))
=============================================================================
