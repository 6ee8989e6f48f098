----------------------------- MODULE Lifecycle -----------------------------
(***************************************************************************)
(* The outer loop of the bridge (run and await_new_or_quit of bridge.rs):  *)
(* one shell session after the other, a message of its own between two of  *)
(* them, and the limiter (rate_limiter.rs) that spaces every call to the   *)
(* platform.  A session ends with a wait for its dispatcher that is cut    *)
(* off after a while; the dispatcher then goes on beside the next session  *)
(* and shares the limiter with it.                                         *)
(*                                                                         *)
(* What a session does inside is Session, what its dispatcher does is      *)
(* Dispatcher; here a session makes units and its dispatcher posts them.   *)
(* Time is counted down to the deadlines the code waits for.               *)
(***************************************************************************)
EXTENDS Integers, Sequences, SequencesExt

CONSTANTS
  Interval,     \* min_interval of the limiter
  Timeout,      \* SHUTDOWN_POST_TIMEOUT
  MaxSessions,  \* bound: sessions of one run
  MaxUnits,     \* bound: units one session makes
  MaxMessages   \* bound: chat messages between sessions

ASSUME TimeAssumption == Interval \in Nat \ {0} /\ Timeout \in Nat \ {0}
ASSUME BoundAssumption ==
  MaxSessions \in Nat \ {0} /\ MaxUnits \in Nat /\ MaxMessages \in Nat

Sessions == 1..MaxSessions

\* Tasks that call the platform: the outer loop, 0, and a dispatcher for each
\* session.
Callers == {0} \cup Sessions

Outcomes == {"none", "ShellExited", "UserRequestedNew", "UserKilled", "Interrupted"}

VARIABLES
  main,     \* the outer loop: "posting", "session", "shutdown", "idle", "ended"
  goal,     \* what follows the post in progress: "session", "idle" or "ended"
  session,  \* number of the present or last session
  outcome,  \* its SessionEnd
  timer,    \* time left of the shutdown or of the goodbye
  made,     \* units each session has made
  left,     \* units each dispatcher has not posted
  late,     \* sessions whose dispatcher was left to itself
  queue,    \* callers waiting for the limiter's mutex, the first one holds it
  phase,    \* of each caller: "none", "waiting", "sleeping", "calling"
  delay,    \* of each sleeping caller: what is left of its sleep
  since,    \* time since last_call, Interval for longer or never
  wedged,   \* no call to the platform returns
  posted,   \* history: sessions of the messages, see Rank
  gap,      \* history: time between the last two calls let through
  quitting, \* history: time since Ctrl+C was heard, -1 before
  messages  \* chat messages read between sessions

loop     == <<main, goal, session, outcome, timer>>
units    == <<made, left, late>>
limiter  == <<queue, phase, delay, since>>
histories == <<posted, gap, quitting>>
vars     == <<loop, units, limiter, wedged, histories, messages>>

\* Position a message should have: the opening, the units of session 1, what
\* the outer loop says after it, the units of session 2, and so on.
Rank(caller) == IF caller = 0 THEN 2 * session + 1 ELSE 2 * caller

Init ==
  /\ main = "posting" /\ goal = "session" /\ session = 0 /\ outcome = "none" /\ timer = 0
  /\ made = [s \in Sessions |-> 0] /\ left = [s \in Sessions |-> 0] /\ late = {}
  /\ queue = <<>> /\ phase = [c \in Callers |-> "none"] /\ delay = [c \in Callers |-> 0]
  /\ since = Interval /\ wedged = FALSE
  /\ posted = <<>> /\ gap = Interval /\ quitting = -1 /\ messages = 0

\* When run returns the runtime is dropped, and every task with it.
Running == main # "ended"

-----------------------------------------------------------------------------
(* The limiter: acquire holds the mutex while it sleeps.                   *)

\* A call begins: the caller joins the queue of the mutex.
Enter(c) ==
  /\ queue' = Append(queue, c)
  /\ phase' = [phase EXCEPT ![c] = "waiting"]
  /\ UNCHANGED <<delay, since>>

\* Mutant: the mutex is released before the sleep.
AnyInLine(c) == TRUE

HoldsLock(c) == Head(queue) = c

\* The caller holds the mutex and computes how long to sleep.
Lock(c) ==
  /\ Running /\ phase[c] = "waiting" /\ HoldsLock(c)
  /\ phase' = [phase EXCEPT ![c] = "sleeping"]
  /\ delay' = [delay EXCEPT ![c] = Interval - since]
  /\ UNCHANGED <<loop, units, queue, since, wedged, histories, messages>>

\* Mutant: the mutex is not released before the call.
Kept(c) == queue

\* A caller waits in one place at most.
Without(line, c) ==
  IF c \in ToSet(line) THEN RemoveAt(line, CHOOSE i \in DOMAIN line : line[i] = c) ELSE line

Released(c) == Without(queue, c)

\* It has slept: last_call is now, and the mutex is released.
Grant(c) ==
  /\ Running /\ phase[c] = "sleeping" /\ delay[c] = 0
  /\ phase' = [phase EXCEPT ![c] = "calling"]
  /\ queue' = Released(c)
  /\ since' = 0 /\ gap' = since
  /\ UNCHANGED <<loop, units, delay, wedged, posted, quitting, messages>>

\* A call that is dropped leaves the queue, and last_call as it was.
Cancel(c) ==
  /\ queue' = Without(queue, c)
  /\ phase' = [phase EXCEPT ![c] = "none"]
  /\ UNCHANGED <<delay, since>>

-----------------------------------------------------------------------------
(* The platform.                                                           *)

Return(c) ==
  /\ Running /\ phase[c] = "calling" /\ ~wedged
  /\ phase' = [phase EXCEPT ![c] = "none"]
  /\ UNCHANGED <<queue, delay, since>>

Wedge ==
  /\ Running /\ ~wedged /\ wedged' = TRUE
  /\ UNCHANGED <<loop, units, limiter, histories, messages>>

-----------------------------------------------------------------------------
(* The dispatchers.                                                        *)

Make ==
  /\ main = "session" /\ made[session] < MaxUnits
  /\ made' = [made EXCEPT ![session] = @ + 1]
  /\ left' = [left EXCEPT ![session] = @ + 1]
  /\ UNCHANGED <<loop, late, limiter, wedged, histories, messages>>

\* Every task awaits one call before it makes the next.
InTurn(c) == phase[c] = "none"

DispatcherPosts(s) ==
  /\ Running /\ left[s] > 0 /\ InTurn(s)
  /\ Enter(s)
  /\ UNCHANGED <<loop, units, wedged, histories, messages>>

\* A unit is posted, or given up after an error (see Dispatcher).
DispatcherDone(s) ==
  /\ Return(s)
  /\ left' = [left EXCEPT ![s] = @ - 1]
  /\ posted' \in {posted, Append(posted, Rank(s))}
  /\ UNCHANGED <<loop, made, late, wedged, gap, quitting, messages>>

-----------------------------------------------------------------------------
(* The outer loop.                                                         *)

\* It begins to post a message, and then does what is next.
Post(next) ==
  /\ main' = "posting" /\ goal' = next

MainPosts ==
  /\ main = "posting" /\ InTurn(0)
  /\ Enter(0)
  /\ UNCHANGED <<loop, units, wedged, histories, messages>>

\* Every message but the goodbye ends the run when it fails.
MainDone ==
  /\ Return(0)
  /\ \/ /\ posted' = Append(posted, Rank(0))
        /\ main' = goal
        /\ session' = IF goal = "session" THEN session + 1 ELSE session
        /\ outcome' = IF goal = "session" THEN "none" ELSE outcome
     \/ main' = "ended" /\ UNCHANGED <<posted, session, outcome>>
  /\ timer' = 0
  /\ UNCHANGED <<goal, units, wedged, gap, quitting, messages>>

\* The shell cannot be spawned, before the session has done anything: run returns
\* the error.
SpawnFails ==
  /\ main = "session" /\ made[session] = 0
  /\ main' = "ended"
  /\ UNCHANGED <<goal, session, outcome, timer, units, limiter, wedged, histories, messages>>

\* The session ends and waits for its dispatcher.  A new session is not asked
\* for beyond the bound.
EndSession(how) ==
  /\ main = "session" /\ main' = "shutdown"
  /\ how = "UserRequestedNew" => session < MaxSessions
  /\ outcome' = how /\ timer' = Timeout
  /\ quitting' = IF how = "Interrupted" THEN 0 ELSE -1
  /\ UNCHANGED <<goal, session, units, limiter, wedged, posted, gap, messages>>

\* Mutant: --kill is treated as the exit of the shell.
NextWithoutKill == [ShellExited |-> "idle", UserRequestedNew |-> "session",
                    UserKilled |-> "idle", Interrupted |-> "ended"]

NextAfter == [ShellExited |-> "idle", UserRequestedNew |-> "session",
              UserKilled |-> "ended", Interrupted |-> "ended"]

\* Mutant: the goodbye is awaited like any other message.
NoBudget == 0

\* Only the goodbye has a deadline.
GoodbyeBudget == Timeout

AfterSession ==
  /\ Post(NextAfter[outcome])
  /\ timer' = IF outcome = "Interrupted" THEN GoodbyeBudget ELSE 0
  /\ UNCHANGED <<session, outcome>>

\* Mutant: the sender is dropped and the task is not awaited.
NotAwaited == TRUE

\* The dispatcher has nothing left and stops.
Drained == left[session] = 0

ShutdownDone ==
  /\ main = "shutdown" /\ Drained
  /\ AfterSession
  /\ UNCHANGED <<units, limiter, wedged, histories, messages>>

ShutdownTimeout ==
  /\ main = "shutdown" /\ timer = 0
  /\ late' = IF left[session] = 0 THEN late ELSE late \cup {session}
  /\ AfterSession
  /\ UNCHANGED <<made, left, limiter, wedged, histories, messages>>

HasDeadline == outcome = "Interrupted" /\ GoodbyeBudget > 0

GoodbyeTimeout ==
  /\ main = "posting" /\ HasDeadline /\ timer = 0
  /\ main' = "ended"
  /\ Cancel(0)
  /\ UNCHANGED <<goal, session, outcome, timer, units, wedged, histories, messages>>

\* await_new_or_quit: --new, --kill, a message that is only answered.
IdleMessage ==
  /\ main = "idle" /\ messages < MaxMessages
  /\ messages' = messages + 1
  /\ \/ session < MaxSessions /\ Post("session")
     \/ Post("ended")
     \/ Post("idle")
  /\ UNCHANGED <<session, outcome, timer, units, limiter, wedged, histories>>

\* Ctrl+C, or the end of the subscription.
IdleQuit ==
  /\ main = "idle" /\ main' = "ended"
  /\ UNCHANGED <<goal, session, outcome, timer, units, limiter, wedged, histories, messages>>

\* Time passes; a timer that has elapsed is noticed first.
Tick ==
  /\ Running
  /\ main = "shutdown" \/ (main = "posting" /\ HasDeadline) => timer > 0
  /\ timer' = IF timer = 0 THEN 0 ELSE timer - 1
  /\ delay' = [c \in Callers |-> IF delay[c] = 0 THEN 0 ELSE delay[c] - 1]
  /\ since' = IF since = Interval THEN Interval ELSE since + 1
  /\ quitting' = IF quitting \in {-1, 2 * Timeout + 1} THEN quitting ELSE quitting + 1
  /\ UNCHANGED <<main, goal, session, outcome, units, queue, phase, wedged>>
  /\ UNCHANGED <<posted, gap, messages>>

-----------------------------------------------------------------------------
Dispatchers == \E s \in Sessions : DispatcherPosts(s) \/ DispatcherDone(s)
MainStep == \/ MainPosts \/ MainDone \/ ShutdownDone \/ ShutdownTimeout \/ GoodbyeTimeout

Next ==
  \/ MainStep \/ Dispatchers \/ Make \/ Wedge \/ SpawnFails \/ IdleMessage \/ IdleQuit \/ Tick
  \/ \E how \in Outcomes \ {"none"} : EndSession(how)
  \/ \E c \in Callers : Lock(c) \/ Grant(c)

Spec == Init /\ [][Next]_vars

\* Tasks go on, time passes, the mutex is handed to the first in line, and the
\* platform answers unless it is wedged.
Fairness ==
  /\ WF_vars(MainStep) /\ WF_vars(Tick)
  /\ \A s \in Sessions : WF_vars(DispatcherPosts(s) \/ DispatcherDone(s))
  /\ \A c \in Callers : WF_vars(Lock(c) \/ Grant(c))

FairSpec == Spec /\ Fairness

-----------------------------------------------------------------------------
(* Properties.                                                             *)

\* The outer loop, the dispatchers and the limiter are well-typed, and the
\* limiter's mutex has one holder.
TypeOK ==
  /\ main \in {"posting", "session", "shutdown", "idle", "ended"}
  /\ goal \in {"session", "idle", "ended"} /\ session \in 0..MaxSessions
  /\ outcome \in Outcomes /\ timer \in 0..Timeout
  /\ made \in [Sessions -> 0..MaxUnits] /\ left \in [Sessions -> 0..MaxUnits]
  /\ late \subseteq Sessions
  /\ queue \in Seq(Callers) /\ IsInjective(queue)
  /\ phase \in [Callers -> {"none", "waiting", "sleeping", "calling"}]
  /\ \A c \in Callers : phase[c] \in {"waiting", "sleeping"} <=> c \in ToSet(queue)
  /\ \A c, d \in Callers : phase[c] = "sleeping" /\ phase[d] = "sleeping" => c = d
  /\ delay \in [Callers -> 0..Interval] /\ since \in 0..Interval
  /\ wedged \in BOOLEAN /\ posted \in Seq(1..(2 * MaxSessions + 1))
  /\ gap \in 0..Interval /\ quitting \in -1..(2 * Timeout + 1)
  /\ messages \in 0..MaxMessages

\* The comment of RateLimiter: between two calls there is the interval, also
\* when a dispatcher that was left to itself competes with the outer loop and
\* with the next session, and when a waiting call is given up.
Spacing == gap = Interval

\* The limiter has one holder at a time and spaces the calls.
LimiterInv == TypeOK /\ Spacing

\* The channel reads session by session: what a session printed, what the outer
\* loop says after it, the next session.  Only the units of a session whose
\* dispatcher was left to itself may come later than that.
SessionsApart ==
  \A i, j \in DOMAIN posted :
    i < j /\ posted[i] > posted[j] => \E s \in late : posted[j] = 2 * s

\* The comment of SHUTDOWN_POST_TIMEOUT: when the network is wedged the bridge
\* exits rather than hangs.  Within two timeouts it is gone after a Ctrl+C that
\* the select of the session hears; this does not count the time one is not
\* listened for, while the outer loop awaits a post or the session the shell's
\* input.
QuitIsPrompt == main # "ended" => quitting <= 2 * Timeout

\* The comment of UserKilled: the outer loop exits cleanly, unless the platform
\* never answers.
KillEnds == (outcome = "UserKilled") ~> (main = "ended" \/ wedged)

\* Whoever waits for the limiter gets its turn, though a task may be cancelled
\* while it waits or sleeps and a call that was let through may never return.
LimiterServes ==
  \A c \in Callers : (phase[c] = "waiting") ~> (phase[c] # "waiting" \/ main = "ended")
=============================================================================
