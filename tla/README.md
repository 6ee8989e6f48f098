# CliBridge in TLA+

CliBridge runs a shell in a pseudo-terminal and mirrors it into a Slack channel:
the screen is one message that is edited in place, what scrolls off the screen
becomes messages above it, and what people type into the channel is sent to the
shell. This directory holds a TLA+ model of its concurrent core and of its pure
algorithms, the TLC configurations that check it, and TLAPS proofs about it.

## The system

| Part | Source | State | Operations | Talks to |
|---|---|---|---|---|
| Transcript dispatcher | `bridge-core/src/dispatch.rs` | bounded channel, ordered queue, newest live frame, id and text of the live message, active scroll buffer | `try_send_frame`, `say`, `anchor`, `shutdown`; the task's `ingest`, `post_one_unit` | session loop (channel in), platform (post, edit) |
| Session loop | `cli-bridge/src/bridge.rs` `run_session` | renderer, tick, grace timer, anchor counter | one `select!` over Ctrl+C, grace, exit, output, attach events, tick, chat messages; final flush | everything |
| Session lifecycle | `bridge.rs` `run`, `await_new_or_quit` | which session runs | start, wait for `--new`, quit | session loop, Slack client |
| PTY backend | `bridge-pty/src/pty_backend.rs` | child, master, two channels of 256, one-shot exit signal | reader, writer and watcher threads; `resize`, `kill` | session loop, operating system |
| Attach server | `cli-bridge/src/attach/server.rs` | broadcast of 1024 frames, event channel, latched title, client tasks | accept, handshake, title replay, subscribe, forward, drop | session loop, attach clients |
| Slack client | `bridge-slack/src/client.rs` | poll cursor, ring of 4096 posted timestamps, ring of 64 posted texts, back-off | seed, poll, filter, deliver; post and edit | Slack |
| Renderer | `bridge-slack/src/renderer.rs` | screen, cursor, scroll-off ring, carry of an unfinished escape sequence, last rendering | `process`, `take_pending`, `drain_scroll_buffer_rows`, `clear_scroll_buffer`, `resize` | session loop |
| Transcript format | `bridge-slack/src/format.rs` | none | measure, paginate, shrink | dispatcher |
| Commands, settings | `bridge-core/src/commands.rs`, `settings.rs` | runtime settings | parse, apply | session loop |
| Storage, login, command line, configuration | `bridge-auth`, `main.rs`, `config.rs` | files, keyring | start-up only | session lifecycle |

What is hard, and what makes each part correct:

- **Dispatcher.** Its task is suspended in every platform call while the session
  hands over more; a call may fail, may take effect and lose its answer, or may
  be rejected as too long and be repeated with a cut body. Correct means: what
  scrolled off appears once, in order, above the live screen; the task's copy of
  the two messages it still edits is what the channel holds; history is never
  edited; the queue drains; the newest screen is shown in the end.
- **Session loop and PTY.** Five bounded channels and four threads wait on each
  other. Correct means: no output is lost short of the ring's limit, trailing
  output is rendered before the teardown, the session and its threads end when the
  shell or its programs do.
- **Session lifecycle.** Time-outs detach work instead of stopping it. Correct
  means: a session's posts are over when the next one starts; a quit request
  made at any time ends the bridge.
- **Attach server.** Clients join at any time, lag, and hold senders of the
  broadcast. Correct means: a client sees the current title and a gap-free
  stretch of output, and every client sees the end of the session.
- **Slack poller.** Messages, its own among them, arrive between two polls and
  between a post and its answer. Correct means: each message of somebody else is
  delivered once and in order, none of its own is.
- **Renderer and format.** Pure functions over byte streams and texts: the result
  must not depend on how the input was split; pages must fit and give the text
  back.

`PROJECT.json` lists the hazards one by one, at the line where each bites, with
the properties that cover it.

## Modules

| Module | Models | Checked by |
|---|---|---|
| `Dispatcher` | the transcript dispatcher | `MCDispatcher` |
| `OrderedLog` | what the dispatcher promises; `Dispatcher` implements it | `MCDispatcher` |
| `DispatcherProofs` | theorems about `Dispatcher`: open messages, order, completeness and size, and that it implements `OrderedLog` | the proof system |
| `LifecycleProofs` | theorems about `Lifecycle` | the proof system |
| `PollerProofs` | theorems about `Poller` | the proof system |
| `SessionProofs` | theorems about `Session` | the proof system |
| `AttachProofs` | theorems about `Attach` | the proof system |
| `RendererProofs` | theorems about `Renderer` | the proof system |
| `InputProofs` | theorems about `Format`, `Frames`, `Parser` and `Commands` | the proof system |
| `InductionLemmas` | induction and recursion over numbers, and what `FlattenSeq` does, for the proofs above | the proof system |
| `Session` | the session loop, the PTY threads and channels, the renderer's ring | `MCSession` |
| `Lifecycle` | sessions one after the other, late dispatchers, quitting, the rate limiter | `MCLifecycle` |
| `Attach` | attach server, connections and client processes | `MCAttach` |
| `Poller` | the Slack poller and the calls that post and edit beside it | `MCPoller` |
| `Renderer` | the virtual screen | `MCRenderer` |
| `Parser` | byte stream to screen operations, in chunks | `MCText` |
| `Format` | sizing, paginating, extending, shrinking of message bodies | `MCText` |
| `Inputs` | the properties of `Format`, `Parser`, `Frames` and `Commands`, asked of one input | `MCText` |
| `Frames` | the attach wire format | `MCText` |
| `Commands` | key presses typed as commands | `MCText` |

The modules meet at these seams. `Session` hands rows and frames to a channel whose
other end is `Dispatcher`; `Lifecycle` treats a session as a source of units and its
dispatcher as the poster of them, and adds what neither sees, that a dispatcher
may outlive its session. `Attach` feeds the `events` of `Session` and consumes
what `Session` reads from the PTY; `Poller` feeds its `chat`. `Renderer` produces
the rows that `Session` numbers, `Parser` the operations `Renderer` obeys;
`Format` cuts the pages that `Dispatcher` takes as given, and its
`ShrinkKeepsBlock` is what `Dispatcher` assumes of a cut.

Of the plan nothing is left but what the last section lists.

## Dispatcher

### What the variables and actions stand for

The ordered input is numbered. A row of *n* characters owns *n* consecutive
positions, a stand-alone message of *k* pages owns *k*, an anchor owns one; a
message of the channel is the sequence of the spans it shows. So "no row twice,
none missing, in order" is a statement about numbers, and a row cut in the middle
keeps its identity. Live frames are outside the numbering: each replaces the one
before, and the text is a model value.

| Model | Code |
|---|---|
| `chan`, `closed` | the `mpsc` channel of `DISPATCH_CHANNEL_DEPTH`, the dropped sender |
| `queue`, `latestLive`, `currentId`, `active`, `lastLive` | the fields of `Dispatcher` |
| `call` | where the task is suspended, the message and body it sent, the batch it still holds |
| `transcript` | the channel: message id to body (index = time of posting) |
| `sent`, `taken`, `anchors`, `shown`, `faults` | history: positions handed over, off the queue, of anchors, ever visible; failed calls |

The handle's operations are `TrySendFrame`, `Say`, `Anchor`, `Shutdown`. All are
`try_send`, so a hand-over to a full channel is no step. `Ingest` is a receive,
`Stop` the exit of `run`. The six alternatives of `PostOneUnit` are the unit
`post_one_unit` picks, each up to its first await. The actions `...Answer` are
the code from an await to the next one, with the result `ok`, `err` (nothing
happened) or `lost` (it happened and the caller sees an error); `TooLong` is the
`MessageTooLong` answer and the cut of `shrink`, after which the same call is
repeated. An await that cannot be observed from outside (the absorbing
`try_recv` loop never suspends) has no action of its own.

Abstractions: the text of a row is its positions; `measure` is the characters
plus one newline per row plus a constant framing (`FreshOverhead`); the pages of
a stand-alone message are given, their cutting belongs to `format.rs`; a cut may
be anywhere that keeps a character, which covers both shrinking paths. A frame
with a distinct chunk (`is_edit` false) is an input of the library that the
renderer never produces: both are enumerated.

### Runs

| Run | Question | Bounds |
|---|---|---|
| `dispatcher_safety` | is the transcript kept exactly once, in order, within the limit, and history never edited, whatever one call returns? does it implement `OrderedLog`? | 5 positions, rows of 1 or 5 characters, limit 5 with framing 1, two rows per frame, two screens, channel depth 1, one failure of any kind |
| `dispatcher_live` | does it stop after the handle is dropped, failures or not, and does all that is handed over, and the newest screen, appear if none fails? | 3 positions, limit 4, one failure |

The bounds are small but the interesting cases are inside them: a buffer holds two
one-character rows, so a third seals it; a row of five characters is wider than
an empty buffer and is split, its rest meeting a non-empty queue; a cut leaves a
body shorter than what was sent; a live message is demoted, forgotten by an
anchor, and posted again. A depth of one is the strongest interleaving of
hand-over and receipt there is; a deeper channel only delays what the queue
holds already. Two screens are enough for "unchanged", "changed" and "changed
back".

`OrderedLog` is the promise without the messages it is kept with: positions
appear as a growing prefix, and the live screen is one cell that is shown only
when all received before it has appeared. Its variable `broken` says that a call
has failed (`broken <- faults > 0` in the mapping); from then on its action
`Degraded` only promises that what appears for the first time does so below all
that ever appeared. "Ever" matters, and is why `appeared` is kept beside
`visible`: with two failures, a lost answer and a cut, a row can be cut off again
and come back while a newer one is there.

The properties that say `faults = 0` are about runs without failed calls: after a
failure the code drops a page or a batch with a warning, or posts a batch again
whose first post took effect. What holds whatever fails is `OpenMessagesInSync`,
`AnchorSeparates`, `WithinLimit`, `SealedForever`, `Drains` and the degraded part
of `ImplementsOrderedLog`.

### Fairness

- `WF(Ingest)`, `WF(Stop)`: the runtime polls a task that can go on.
- `WF(Platform)`: every call is answered. The HTTP client sets no time-out of its
  own, so this is an assumption on the network, not something the code ensures.
- `SF(PostOneUnit)`: a unit is started only when the channel has been found
  empty. The absorbing loop takes what is there without suspending and the
  session sends one frame per tick of 1.1 s, so it is found empty again and
  again; weak fairness would let the session refill it each time.
- The session is under no fairness: it may stop handing over, or never shut down.

### Proofs

All theorems hold for every limit, depth, set of texts, set of failures and bound
that meets the two assumptions of `Dispatcher` (`SizeAssumption`: an empty buffer
has room for a character; `BoundAssumption`: the bounds are numbers).

`DispatcherProofs`:

- `TypeCorrect`: `TypeOK` is an invariant. It is not routine: it contains that
  every remembered or awaited id names a message that exists.
- `OpenMessages`: `OpenMessagesInSync` is an invariant. It is not inductive: when
  the answer to an edit arrives one must know which message was being edited and
  that the task has not started to edit another one. The strengthening
  `OpenInv` adds `CallConsistent`, which says for each suspension point what the
  call is about and which of the remembered ids are empty, and `LiveKept`.
- `LiveHasMessageAlways`: follows from `LiveKept`.
- `SealedStaysSealed`: the action property `SealedForever`. A step writes to one
  message only, that of the awaited call (`EditTarget`: it is a buffer or a live
  message), and a message is let go of for good: a message outside `Open` and one
  with a history or stand-alone body stay so.

Each action has a typing lemma and a lemma that it keeps `CallConsistent`; the
answers share one lemma on what a call writes.

It proves `ExactlyOnce`, `ReadsInOrder`, `AnchorSeparates` and
`WithinLimit` from one inductive invariant, `LogInv`. Its parts build on one another:

- `InputInv`: what has not left the queue is numbered without a gap from `taken` on,
  the queue first and then the channel, up to `sent`. Needed because the rest of a
  split row and the pages of a message go back to the front.
- `PlacedInv`, `BelowInv`: the rows of every body (in the channel, of the active
  buffer, of the awaited call, of the batch) are in order, not newer than `taken`, and
  on one side of every anchor; what may still grow is below the last anchor. This
  gives `AnchorSeparates`.
- `FreshInv`: what the awaited call shows for the first time belongs to its batch and is
  newer than all that was ever shown; needed for the refinement.
- `SizeInv`: every scroll buffer, the body of the awaited call and the batch in a fresh
  message are within the limit. The batch counts since a roll-over posts it in a
  message of its own. This gives `WithinLimit`.
- `PlainInv`, `OrderInv`, `OnceInv`: as long as no call failed, what a call writes is
  what the task computed, messages follow each other as their rows do, and each
  position that left the queue is in one message or in the batch. They give
  `ReadsInOrder` and `ExactlyOnce`.

It also proves `DispatcherImplementsLog`, that is `ImplementsOrderedLog`:
by `LogInv` every action maps to an action of `OrderedLog` or leaves its variables
alone. While no call has failed the positions in the channel are those off the queue
minus the awaited batch, so an answer extends the prefix.

The measure of a list of rows is a recursive function. What is proved of it (it is a
sum, of a concatenation the sum of both, and a cut with fewer characters is smaller)
is by induction over the length, with `UpToInduction` of `InductionLemmas`: the
principle stated with a set in place of a predicate, since the provers cannot
instantiate theorems that take an operator. `NatSetInduction` is derived from the
well-foundedness of the subsets of a finite set.

Model-checked only: the liveness properties (`Drains`, `EventuallyVisible`,
`LiveConverges`), which like `ENABLED` are beyond the prover.

## Session

### What the variables and actions stand for

A row that scrolls off the screen is a number, in the order the programs write
them; a chunk of output is the row its processing scrolls off, or 0. The row
travels through the stages below; `rows` keeps the last three and how rows were
lost.

| Model | Code |
|---|---|
| `holders`, `written`, `owed`, `ttyOut`, `ttyIn` | external: the processes that have the terminal open and the buffers of the operating system |
| `reader`, `writer`, `exited` | the three blocking threads of `PtyBackend` |
| `output`, `input` | the two channels of 256 between threads and loop |
| `loop`, `resume`, `outcome`, `grace`, `interrupt`, `tickDue` | where `run_session` is, and the signals and timers of its select |
| `events`, `chat` | attach events and chat messages waiting |
| `ringMax`, `refresh`, `sinceAnchor`, `postedLive` | settings and the anchor-refresh counter |
| `rows` | the renderer's ring, the dispatcher's channel, the rows handed over, evicted, cleared, refused, dropped |

`Ready` lists the seven branches of the select in their order and `Branch(i)` is
"ready, and none before it is", the meaning of `biased`. A branch is one action;
the only awaits inside one are the sends to the input channel, which take the
loop to `sending` when the channel is full, and `SendReturns` is the rest of the
branch. The anchor refresh that follows a chat message is part of its action. A
session ends through `EndSession`, with the final flush, and `Return` once the
dispatcher has stopped or two seconds have passed.

A press of Ctrl+C is heard only in `select`: each select calls
`tokio::signal::ctrl_c()` anew, and a listener sees the signals after its making.

The dispatcher is represented by the length of its channel; `Dispatcher` models
what happens behind it, and its `Drains` and `Ingest` justify the fairness of
`DispatcherTakes`. Attach clients appear as events only.

### Runs

| Run | Question | Bounds |
|---|---|---|
| `session_safety` | do rows arrive in order, once, and is every loss one of the four there are (evicted by the ring's limit, cleared by an anchor, refused with the final frame, dropped with the output channel by a session that ended before its output did)? does none stay behind on its way once all is over? is trailing output rendered before the teardown? | 2 rows, rings of 1 or 2, refresh after every message, a job beside the shell that may write after it, two chat messages or attach events of any kind, all channels of depth 1 |
| `session_teardown` | do the session and its threads end when the programs or the shell do? | 4 inputs, so that every buffer on the input side is full and the loop suspended; a job that outlives the shell; chunks without rows, without limit |
| `session_cleared` | has what an anchor clears been posted, as the comment says? (no) | as `session_safety` without attach events |

Channels of depth 1 make every full and empty channel reachable in a few steps;
deeper ones only need longer runs to fill. Two rows with a ring of one overflow it,
and shrinking a ring of two to one evicts. The job is what makes output come later than
the shell's exit: the grace timer then ends a session with rows in the channel, in the
reader thread's hand and in the terminal, and `Return` drops the channel.
`ExitEndsSession` is about the end alone: that a biased select starves the tick and the
chat messages while output is always ready is what the code does.

The suspended send is half of a circular wait: loop, input channel, writer
thread, terminal, program, terminal, reader thread, output channel, loop. While
it lasts nothing is served. What holds nevertheless is what `session_teardown`
checks: when the programs close the terminal the wait is undone.

### Fairness

Threads and the loop go on when they can (`WF` of each thread, of the loop as a
whole since it is one task); timers elapse; a program writes what it owes and
reads what is typed. The loop gets no fairness per branch: a biased select
promises none. Nobody makes a program exit, and nobody types.

### Proofs

`SessionProofs` proves `RowsInv` and `TrailingOutputKept` for channels, rings and terminal
buffers of every size, every number of jobs, rows and messages (`CapAssumption`: depths
are not zero, and the settings are numbers; `BoundAssumption`), from the inductive
invariant `SessionInv`:

- `RowFlow`: each stage is increasing as a sequence, the sets of rows of any two stages are
  one before the other (`Flow`), and with the lost rows they are exactly those written
  (`Kept`). `RowsInOrder` says the same by positions in a sequence of sequences, which
  the provers do not survive; `OrderAsSets` and `StageSets` show the two to be
  equivalent. One lemma for each operation on the rows (`KeptScrolledOff`,
  `KeptShrunk`, `KeptAnchored`, `KeptHandedOver`, ...) says that it keeps `Kept`; each
  holds for any ring and any stages behind it, so a chat command that shrinks, speaks
  and anchors is three of them in a row.
- `ReaderInv`: while the session runs, the reader thread is through only if nobody has the
  terminal open, the terminal's buffer is empty and nothing is in its hand. With the
  order of the branch (`recv` returns nothing only when the channel is empty) this is why
  the tail of the output is not cut.
- `EndInv`: a session that ended with its output ended after the last program had closed the
  terminal, so no row is written after the final flush; any other drops what had not
  reached the loop, and only when it is gone. After the final flush the ring, and after
  the return the channel, are empty. Without it neither `TrailingOutputKept` nor the last
  parts of `RowsInv` are inductive.
- `LoopInv`: the loop has an outcome exactly when it has left its select; only the final
  frame may be refused.

`Aside`, `GoesOn` and `Ends` split the steps of the loop: those that move no row, those that
move rows and go on, those that end the session.

`HangupEndsSession`, `ExitEndsSession` and `ThreadsFinish` are liveness properties and only
model-checked.

Left out: the pixels. A resize keeps or cuts the bottom of the screen
(`Vec::resize` in `TuiRenderer::resize`), which scrolls nothing off; blank rows and
rows of the alternate screen never enter the ring and are chunks without a row.
tokio's cooperative budget only makes a task yield and poll again from the first
branch, so it changes nothing in the order of the branches.

## Lifecycle

| Model | Code |
|---|---|
| `main`, `goal` | where `run` and `await_new_or_quit` are, and what follows the message being posted |
| `session`, `outcome` | which session it is, the `SessionEnd` it returned |
| `timer` | what is left of `SHUTDOWN_POST_TIMEOUT`, for the dispatcher or for the goodbye |
| `made`, `left`, `late` | units each session has made, units its dispatcher has not posted, dispatchers that outlived the wait |
| `queue`, `phase`, `delay`, `since` | the mutex of `RateLimiter` with the callers in line, what each does, its sleep, the age of `last_call` |
| `wedged` | no call to the platform returns (external) |
| `posted`, `gap`, `quitting` | history: what was posted in which order, the time between the last two calls, the time since Ctrl+C |

`acquire` is three actions: join the line (`Enter`), compute the sleep with the
mutex held (`Lock`), take note of the time and release (`Grant`). The guard that
tokio drops with a cancelled future is `Cancel`; a call that was already let
through is simply never answered. A message of the outer loop that fails ends the
run, except the goodbye, which is only logged and ends it anyway. So does a shell that
cannot be spawned (`SpawnFails`).

The run `lifecycle` (2 sessions of 2 units, interval 1, timeout 2, the platform may
be wedged at any moment) checks that calls stay an interval apart whoever makes
them (`LimiterInv`), that the channel reads session by session except for the units
of a dispatcher that was left behind (`SessionsApart`), that a Ctrl+C that the select of
a session hears ends the bridge within two timeouts even if the platform never answers
(`QuitIsPrompt`; one pressed while the outer loop awaits a post, or the session the
shell's input, is not heard and not counted), that
`--kill` ends it if the platform does answer (`KillEnds`), and that nobody waits
for the limiter for ever (`LimiterServes`). A timeout of two intervals is enough
for the dispatcher to be cut off before, in and after its sleep; two sessions are
enough for one late dispatcher to race the next session's and the outer loop.

Fairness: the outer loop, each dispatcher, each holder of the mutex, and time; the
mutex is first come, first served (tokio's is a fair semaphore). Wedging is never
forced. Nobody ends a session.

`LifecycleProofs` proves the three safety properties for every interval, timeout and
number of sessions and messages (`TimeAssumption`: an interval and a timeout are not
zero; `BoundAssumption`), from the inductive invariant `LifecycleInv`:

- `MutexInv`: the line of the mutex is injective and holds exactly the callers that wait
  or sleep, the one that sleeps is its head, and what is left of its sleep plus the
  time since the last call is at least an interval (`LimiterInv` follows). It is what
  makes the sleep right although it is computed once and the time goes on.
- `TaskInv`, `LoopInv`: who calls has something to post; the outer loop calls only while
  it posts. They exclude that a new call of a caller meets its old one in the line.
- `QuitInv`: after a Ctrl+C that was heard the time gone by plus what is left of the timer is within one
  timeout during the shutdown and within two during the goodbye (`QuitIsPrompt`
  follows). It rests on `Tick`: a timer that has elapsed is noticed before more time
  passes, so "two timeouts" is up to the delay of the runtime.
- `PostedInv`: a dispatcher that still posts belongs to the present session or is `late`,
  and nothing later than the present session is in the channel before it is over
  (`SessionsApart` follows).

`KillEnds` and `LimiterServes` are liveness properties and only model-checked.

## Attach

| Model | Code |
|---|---|
| `log` | all frames sent to the `broadcast` channel; a receiver is a position in it (`cursor`), and it has lagged when it is more than `BROADCAST_CAPACITY` behind |
| `latch`, `titling` | `title_bytes`; a title that `set_title` has latched and not yet sent |
| `session`, `accepting` | the session's ends of the channels, the accept task |
| `events`, `heard` | the event channel, and what the session has taken from it |
| `srv` | `handle_client` (one phase for each await) and its reader task |
| `down`, `up` | the connection, each way with a bound |
| `cli`, `shown`, `typed` | `client.rs`: the reader loop, the writer task, the stop flag; what it wrote to the terminal and what the user typed |
| `since` | history: where a client's subscription began |

Between its awaits `handle_client` is one action; each of its writes and sends may
be suspended, with the session and the other clients going on. Whether the
broadcast is closed is computed from who holds a sender: the session, the accept
task, and each handler until it has subscribed.

| Run | Question | Bounds |
|---|---|---|
| `attach_safety` | is what a client shows gap-free, do titles never go back, do its events arrive complete and in order? | 2 clients, one of which types, closes its input or is killed; 2 frames, each output or title; broadcast and event channels of 1 |
| `attach_live` | does every window close after the session, and is every frame shown or the client disconnected? | 2 clients, of which one may stop reading for ever |
| `attach_title` | does a client see the latched title, as the comment says? (no) | 1 client |

A broadcast buffer of one makes a client lag after two frames. Fairness: the
server's tasks and the reader loop of each client that is not `Wedged`; nobody has
to connect, type or end the session. The handshake's timeout is a step that is
always possible until the Hello is there, so a client that never says it is
covered by the fairness of its handler.

### Proofs

`AttachProofs` proves `StreamInv`, `TitlesForward` and `EventsInOrder` for any set of clients,
of which any may be wedged, typing or mortal, and every depth of the three channels
(`CapAssumption`: none is zero, and a connection takes two frames, for HelloOk and the
latched title are written before anybody reads), from the inductive invariant
`AttachInv`:

- `Stream`: the frames written to a client have places, in what it has shown and then in the
  connection. `FrameAt` says what is at a place: HelloOk at the first, the title at the
  second if `first` is 2, and then frame `from + (place - first)` of the broadcast.
  `WrittenBy` ties the number of frames written to the phase and the cursor of the
  handler, so the next frame it takes from the broadcast is the next place. Without it
  `GapFree` is not inductive; and that a lagging handler only ever disconnects is what
  keeps it.
- `LogInv`: titles in the log increase, none is newer than the latch, and one that is latched
  and not yet sent is newer than all in the log. With it, a title from the latch is not
  newer than the titles a handler gets after it has subscribed (`FrameAt`), though it may
  be the same one.
- `Passed`, `OnTheWay`: of each client the first `passed` events have reached the channel; those
  not yet received are in it, and the following ones are, in this order and without a
  hole, in the reader task's hand, in the connection and in the client's queue, up to the
  last one typed. Before the reader task is started the Hello stands at the head of the
  connection in the place of the initial size (`Ahead`).
- `Agree`: the handler and the client agree on the handshake (nobody gets past it without a
  Hello, nothing is written before), and a handler holds at most one frame and one event.

A step of one client is a lemma about values (`Greets`, `Forwards`, `PassesOn`, `ReadsFrame`,
...: if `Kept` holds of the state of a client then it holds of the next one), and
`LocalStep` carries it over to the functions and the other clients. The session's
steps change all of them: a frame more in the log keeps every stream (`StreamGrows`).

`WindowsClose` and `Delivered` are liveness properties and only model-checked, and so is the
violation of `TitleCurrent`.

## Poller

| Model | Code |
|---|---|
| `posts` | the channel at Slack (external): a message is known by its place in time order |
| `inclusive` | whether Slack's `oldest` is inclusive (external); chosen once |
| `poster` | for each task that posts (the outer loop, a dispatcher, perhaps one left behind), its call of `send_message` or `edit_message` and how far it is |
| `postedTs`, `postedText` | `PostedTsRing`, `PostedTextRing` |
| `poller`, `cursor`, `page`, `waiting` | the polling task: where it is, `last_ts`, what is left of the page, the subscription |
| `delivered`, `old`, `seed` | history: what was delivered, the length of the channel at `subscribe` and when it was seeded |
| `overrun`, `early`, `forgotten` | history: what fell out of a page, what was fetched altered while its timestamp was not in the ring, whose timestamp the ring has evicted |

A poll takes copies of the messages, and posts, edits and answers go on while they
are handled. Which messages a full page keeps when there is a cursor (the newest,
or those closest to it) is Slack's affair and is left open. So is whether the page has
the message at the cursor again: the comment at 667-668 calls `oldest` inclusive, the
loop relies on its being exclusive, and nothing in the repository decides it. Each
behaviour takes one reading, and both are checked. A failed poll changes only the
wait before the next one.

The run `poller` checks `RelayInv`, `NeverEcho` and `EventuallyRead`. `RelayInv` says that
what users write is delivered in order, that the cursor skips nothing, and that
nothing from before the subscription is replayed. Under the exclusive reading each
message is delivered once. Under the inclusive one it is not: a user's message at the
cursor is in neither ring, so every poll delivers it again until a later message
moves the cursor, and what `InOrderOnce` still promises is that it never comes after a later
one. Only the seed has a mark in the ring, and it comes again once the ring has
forgotten the mark.

Bounds: 3 messages, all of which may be there before the subscription, pages of 2, a
subscription of 1, rings of 1. Two tasks post and one of them edits; with rings of one their
calls evict each other's entries, and one may be answered while the other is
fetched. At most two messages are the bridge's own (`MaxOwn`): one is forgotten when
the other is answered. An edit begins while there is one message (`MaxEdit`) and may end
with three, so it meets every later stage of the poller. A delivery that repeats one
is recorded while fewer than two are (`MaxAgain`), which shows a repetition and keeps the
history finite. Users' messages are of two kinds, those the loop delivers and those it
drops by subtype or by marker, which take the same way.

Own messages are told by the marker or by their timestamp. The text ring holds the text with
its marker, so it repeats the test of the marker and `NeverEcho` does not rest on it.

Four failings are in the model and the properties say so:

- more messages between two polls than a page holds may fall out (`overrun`);
- when the seed fails the first poll replays up to a page of what was there before
  (`NothingOld`); three old messages and pages of two tell a page from everything;
- an own message that Slack altered may come back if the poller fetches it before the
  answer to the post has arrived (`early`);
- or if the ring forgets its timestamp before the message is handled (`forgotten`). A ring
  of one makes that happen; the comment at `MAX_POSTED_TS` argues that 4096 of them
  are more than a poll looks back, which is an argument about rates that no invariant
  of the code states.

Fairness: the polling task and the session go on; a poll succeeds now and then.

`PollerProofs` proves `RelayInv` and `NeverEcho` for rings, pages and subscriptions of every
size and every number of messages, from the inductive invariant `PollerInv`:

- `PosterInv`, `TsInv`: a call that has reached Slack has an own message; the ring holds
  own messages and those the seed counted as handled. Otherwise the timestamp filter
  could drop a user's message.
- `PageInv`: the page is a run of consecutive messages past the cursor, or from it on; its copies agree
  with the channel on users' messages and on whose the others are, although an own one
  may be edited after it was fetched.
- `OrderInv`, `FloorInv`: what was delivered is not past the cursor and not behind the page,
  and above what the subscription found; under the inclusive reading the message at the
  cursor may be both delivered and on the page.
- `MarkInv`: the seed is in the ring or forgotten. Without it an inclusive page could bring
  back the message the subscription began with.
- `CoveredInv`: every user's message before the next one to handle was delivered or fell out
  of a page. Stated for the message in hand and not for the cursor, which moves first.
- `EchoInv`: an altered message on the page is known by its timestamp or an exception
  applies; one that is being sent has passed the filters.

`EventuallyRead` is a liveness property and only model-checked.

## Renderer

A cell holds the number of the character that was written there, so a character
that an operation moves, doubles or leaves behind can be told from a new one with
the same face. `screen` and `inverse` are two grids as in the code; every operation
says once where each cell is taken from, and `Rearrange` applies that to both, as
the code does in two parallel blocks. `alt_screen`, `saved_cursor`, `pending_wrap`
and the ring are the fields of `TuiRenderer`; `written` (what was printed, and where) and
`out` (the rows that have left the ring) are history.

The run `renderer` takes every order of the operations, with resizes between a grid
of 2 x 2 and one of 1 x 1, two characters (inked or inverse spaces), rings of 0 and 1:

- `ScreenInv`: the grids, the stashed ones included, have the shape the code indexes
  them with, cursors are on the grid, no character is in two places.
- `InverseLockstep`: a cell is inverse exactly if its character was written so.
- `AltPrivate`: nothing written on the alternate screen reaches the ring or the
  primary screen.
- `FrameShowsScreen`: `render_screen` shows every character and the cursor, whatever
  it trims.
- `ScrollKeepsContent`: on the primary screen a line feed, a scroll, a drain keep the
  transcript (gone, ring, screen) as it is, and printing takes away only what it
  writes over.

A grid of two rows and two columns has a first and a last row and column, wraps,
scrolls and shifts by its whole size and by less. One bound (`SavedAtCorner`) leaves out
states: the cursor is saved only at the corner the smaller grid lacks, which is where
restoring it after a resize can go wrong. Numbers of cursor movements are 1,
enough to reach and to pass an edge; those of shifts and scrolls are 1 and 2.

### Proofs

`RendererProofs` proves the four invariants and `ScrollKeepsContent` for screens, rings, steps and counts of every
size, from the inductive invariant `RInv`:

- `Sane`: a pair of grids of the given shape, in which each character was written before, is
  there once, and is inverse exactly if it was written so. It is demanded of the screen
  and of the stash: a resize while the alternate screen is shown changes both, and the
  stash is the screen after the switch back. The characters of the two are apart.
- `HistoryInv`: the rows of the ring and those that left it hold no character twice, none of
  the screen or the stash, and none that was written on the alternate screen. A line of the
  primary screen moves from one to the other, so neither half is inductive by itself.
- `RingInv`, `SizeInv`: the ring is within its maximum, sizes are positive and cursors on
  the grid.

An operation on the grids is described once, by a function from the cells of the new grid
to those of the old one. `MovedSane` says that any such move is harmless that takes no
cell twice and fills the rest with blanks; each operation then only has to show that
its own function is one-to-one. Scrolling moves in the grid and appends to the ring
(`CaptureTopHistory`, by induction over the number of lines), printing adds one new
character (`WroteCell`).

`ScrollingLosesNothing` is the action property. What rows show is a concatenation of what
their cells show (`Joined`), so it may be taken apart: the lines that leave the screen show
the same after trimming (`SeenTrimmed`), the ring and what left it show together what
they showed (`KeptHistory`), and the lines that enter show nothing (`PrintedLifted`). That
a character is in one place only is what makes printing take away just one: every cell but
the written one shows what it showed (`SameFace`).

`FrameIsComplete` needs of the invariant only the shape; its
argument is that the rows and columns left out are blank by the choice of the last one shown.

## Parser, Format, Frames, Commands

Pure functions, checked by the run `text` on every input within bounds. Each input
is an initial state of `MCText`, and a property is an operator of the module applied
to the input.

- `Parser`: `find_process_end` (`ProcessEnd`), the carry (`Process`), `process_tui`
  (`Events`). Bytes stand for their class. Of the loops a turn is an operator (`Skip`,
  `Obey`) and the loop a function that is given as many turns as there are bytes.
  `SplitIndependent`: for every sequence of up to two of eleven well-formed units and
  every way to cut its bytes into chunks, of which the last may end inside a unit, the
  screen has after each chunk been asked for what the complete units say, and exactly
  the bytes behind them are carried. Well-formed (`Units`) are a character, an escape
  with a byte that is not part of a character, a control sequence, a string with
  either end, and one broken off by an escape.
- `Format`: `measure`, the bodies, `split_fenced`, both paginations with their hard
  split, `shrink`. Symbols have a cost (an emoji 2, an escaped ampersand 5).
  `PagesFaithful`: pages fit and give the text back, for texts of up to six symbols
  with pages of five to fifteen. `BodiesKeepShape`: shrinking gets smaller, small
  enough, and leaves a block that can be extended; extending and sealing keep rows.
- `Frames`: `encode`, `decode`, `write_frame`, `read_frame`. Bytes have eight values,
  so that lengths that do not fit their field are within reach. `WholeFramesOnly`: two
  messages of every kind, the connection broken after every byte.
- `Commands`: `parse_key_combo` and below, `encode_key` and below. What is typed is a
  sequence of segments, the parts between plus signs, each a word and its digits.
  `KeysUnderstood`: every key after up to two of five words for modifiers, or three
  that hold all of them, with several counts, is parsed as what was meant, and no two
  keys under the same modifiers send the same bytes, except for the pairs that share a
  control byte on every terminal. The widest number is 4096, so that counts which do
  not fit are within reach (a `u32` in the code).

### Proofs

`InputProofs` proves `PagesFaithful` and `BodiesKeepShape` for texts of any length, any
sizes to shrink to and any rows to add. The assumptions are those of `Format`: every
symbol costs at least one (`CostAssumption`), a fence is none of the other symbols, and a
scroll buffer has room for any one symbol (`RoomAssumption`). Without the last one a page
with a single character could be too long; the limit of some thousand units and a header
of a few give it. The theorems about one operation are more general: `BlockPages`
holds under every header that leaves room, `PlainPages` for every text that is not one
block.

- `MeasureConcat`, `MeasurePrefix`: a measure is a sum, so of two texts it is the sum of
  both, and a proper prefix measures less.
- `LinesWhole`, `HardSplitWhole`, `PiecesWhole`: the three splitters gather pieces from what
  they read. The text in the pieces and in the one being made (`Whole`) is what was read so
  far, and for the latter two each is within the budget (`Fitting`). By induction over the
  steps; a step is `TookFits`, or for a wide line a hard split in the place of one step.
- `SplitFramed`: taking a block apart gives the header and the content it was made of, if
  neither has a fence in it. With it a page of a block is known to be one again.
- `ShrinkByCharsKeeps`: what is left is a proper prefix, or not even one symbol fits.
- `ExtendFramed`, `LockFramed`: new rows go before the closing fence, and only the label of
  the header is changed.

It proves `WholeFramesOnly` for every sequence of messages, cut at every byte. The
assumptions are those of `Frames`: a byte tells the tags apart (`BaseAssumption`), and the
largest payload has a length of four bytes (`PayloadAssumption`; 16 MiB in the code).

- `RoundTrip`, by induction over the width: a number that fits is what its bytes stand for,
  and of one that does not the remainder is left. `DecodeEncode` follows: a payload gives
  its message back, except for a Hello whose token is too long for its length byte,
  which is malformed.
- `ReadWhole`, `ReadCut`: of a stream that starts with a frame the reader takes that frame
  and leaves what follows; of a proper prefix of a frame it takes nothing.
- `FrameAt`, `NextFrame`: where each frame is on the wire, and that what arrives behind the
  first ones begins with the next frame or is a part of it. No frame is empty
  (`SizesGrow`), which is why a reader is done within as many turns as there are bytes.
- `TurnTakes`, `TurnEnds`: so a turn takes the next whole frame, or is the last.

It proves `SplitIndependent` for every sequence of units, with parameters, intermediates
and bodies of any length, and every set of places where it is cut.

- `CompleteEnd`: of bytes that begin with whole units and end with a proper part of one,
  `find_process_end` finds the end of the whole ones. `SkipUnit` says what a turn does at
  the start of a unit: it goes to the unit's end (a broken-off string takes two turns), or
  stays if the end has not arrived. `Milestones` puts the turns together: a loop that gets
  from each of these ends to the next, with no more turns than there are bytes, ends at
  the last, and stays there.
- `CompleteEvents`: whole units, decoded and obeyed, ask for what they say. Decoding does
  not mix two units, since none begins with the second byte of a character (`Utf8Concat`).
  `ObeyUnit` is the turn, and the turns are put together in the same way.
- `ProcessAt`: so `process` leads from the stage where one chunk ended (`StageAt`) to that
  where the next one ends, and `AnyCuts` follows by induction over the bytes.

It proves `KeysUnderstood` for every key, every sequence of modifiers under any of their
names, repeated or not, and digits of any length. The assumption is that of `Commands`: a
press may happen, and the number of every function key fits (`PressAssumption`).

- `ValueRun` gives the recursion by which digits are read, and `ValueShort` what one and two
  of them stand for, which is all a function key needs; a longer count is only compared.
- `NamedParsed`, `CharParsed`, `DigitParsed`, `FunctionParsed`: what each kind of segment is
  parsed as; `KeyParsed` puts the kinds together. The letter f with digits is left out, as
  it is a function key or a repetition according to the number.
- `AliasFacts`: no word stands for two modifiers, and none is empty; so `FrontOfSegments`
  finds the modifiers in front of a key or of two plus signs. `OtherCombo` and `PlusCombo`
  are the two forms of a press, and `EveryPress` follows.
- `ThreeForms`: a key sends one byte, perhaps behind an escape, or an escape sequence, or
  is shift and tab. `LengthsApart` tells these apart; `OneByteApart` tells the single bytes
  apart, except for the five pairs, and `EscapesApart` the sequences, by their number and
  final byte (`CodesApart`). `EveryKeyDistinct` follows.

## Divergences

Two runs end in a violation on purpose; `PROJECT.json` quotes the comments.
`session_cleared`: an anchor drops rows that were never posted. `attach_title`: a title
set while a client is between the replay of the latch and its subscription never
reaches it.

Others were met while modelling and are part of the model, or of what it leaves out:

- `dispatch.rs`: a live message whose demotion fails is forgotten with its text still
  remembered, so the same screen is not posted anew (687, against 677-678), which is why
  `LiveHasMessage` speaks of runs without failed calls; rows that
  arrive after a reply are spliced into the buffer above it (675, against 606-607).
- `bridge.rs`: Ctrl+C pressed while the loop waits in `input_tx.send` is lost (728,
  against 418-419); output that is always ready starves the tick and the chat
  messages, since the select is biased (456, against 502-506); `--kill` posts its
  message without a deadline and hangs with a wedged network.
- `renderer.rs`: in a malformed stream, such as an escape inside a control sequence,
  the result depends on where the chunks are cut (against 75-79); a deferred wrap
  survives a resize, and then wraps in the middle of a wider row; rows cut off by a
  resize never enter the ring; a size of 0 is not refused; a huge number in a cursor
  movement overflows the sum (479, 485, 555).
- `format.rs`: a body with three backticks among its content is not seen as a block
  and is paginated or shrunk with an open fence (against `dispatch.rs` 129-131 and
  145-148).
- `client.rs`: the comment at 667-668 calls `oldest` inclusive while the loop relies on its
  being exclusive. `Poller` has both: were it inclusive, the last message of a user would
  be delivered again with every poll, since only the seed is marked. For own texts that come back unaltered the text ring repeats the
  test of the marker.
- `commands.rs`: `--+` alone is text and `--++` the plus key; `--f13` is the letter f
  thirteen times; `--raw` with a character beyond ASCII slices inside it (582).
- `bridge-auth`: credentials are stored under the origin, so two workspaces signed in
  through one origin overwrite each other.

## Not modelled

- Second names of keys (`pgup`, `del`, `escape`, `spc`, `bs` and the like): a key has one
  name in `Commands`. The modifiers have all of theirs.
- The other command words and the texts of help and settings (`commands.rs`,
  `settings.rs`): one arm each, no state beyond the field it sets. Those that matter
  to the session are the kinds of chat messages of `Session`.
- `connect`, the look-up of channels and the HTTP layer of the Slack client: a
  sequence of calls at start-up. A post or an edit is an action of `Dispatcher`, and,
  as far as the poller sees it, of `Poller`.
- Login and credential storage, command line, configuration file, the launcher of
  terminal windows: start-up only, input and output.
- Zero sizes, malformed escape sequences, numbers beyond the width of an integer in
  `Renderer` and `Parser`: what the code does with them is named above.
- Time is counted only in `Lifecycle`; elsewhere a timer may elapse at any moment.
- Liveness properties and those of the two runs that end in a violation have no theorem;
  the other properties do.
