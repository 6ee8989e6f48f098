--------------------------- MODULE LifecycleProofs ---------------------------
(***************************************************************************)
(* Theorems about the outer loop and the limiter, for every value of the   *)
(* constants of Lifecycle.                                                 *)
(***************************************************************************)
EXTENDS Lifecycle, SequenceTheorems, TLAPS

-----------------------------------------------------------------------------
(* The inductive invariant.                                                 *)

\* The limiter: who sleeps holds the mutex, and what is left of its sleep
\* completes the interval.
MutexInv ==
  /\ queue \in Seq(Callers) /\ IsInjective(queue)
  /\ phase \in [Callers -> {"none", "waiting", "sleeping", "calling"}]
  /\ \A c \in Callers : phase[c] \in {"waiting", "sleeping"} <=> c \in ToSet(queue)
  /\ delay \in [Callers -> 0..Interval] /\ since \in 0..Interval /\ gap = Interval
  /\ \A c \in Callers :
       phase[c] = "sleeping" => queue # <<>> /\ Head(queue) = c /\ Interval <= delay[c] + since

\* The rest of the state.
LoopType ==
  /\ main \in {"posting", "session", "shutdown", "idle", "ended"}
  /\ goal \in {"session", "idle", "ended"} /\ session \in 0..MaxSessions
  /\ outcome \in Outcomes /\ timer \in 0..Timeout
  /\ made \in [Sessions -> 0..MaxUnits] /\ left \in [Sessions -> 0..MaxUnits]
  /\ late \subseteq Sessions
  /\ wedged \in BOOLEAN /\ posted \in Seq(1..(2 * MaxSessions + 1))
  /\ quitting \in -1..(2 * Timeout + 1) /\ messages \in 0..MaxMessages

\* A task that makes a call has something to post, and the outer loop calls
\* only while it posts.
TaskInv ==
  /\ phase[0] # "none" => main \in {"posting", "ended"}
  /\ \A s \in Sessions : (phase[s] # "none" => left[s] > 0) /\ left[s] <= made[s]

\* What is to follow a post, or a session.
LoopInv ==
  /\ main \in {"session", "shutdown"} => session > 0
  /\ main = "posting" /\ goal = "session" => session < MaxSessions
  /\ main = "shutdown" => outcome # "none"
  /\ main = "shutdown" /\ outcome = "UserRequestedNew" => session < MaxSessions

\* After Ctrl+C: a budget for the dispatcher and one for the goodbye.
QuitInv ==
  /\ quitting # -1 => outcome = "Interrupted"
  /\ outcome = "Interrupted" =>
       /\ main \in {"shutdown", "posting", "ended"}
       /\ main = "shutdown" => quitting + timer <= Timeout
       /\ main = "posting" => goal = "ended" /\ quitting + timer <= 2 * Timeout

\* A dispatcher that still posts is that of the present session or was left
\* to itself, and until the session is over nothing later is in the channel.
PostedInv ==
  /\ \A s \in Sessions :
       left[s] > 0 => s \in late \/ (s = session /\ main \in {"session", "shutdown"})
  /\ late \subseteq 1..session
  /\ \A i \in DOMAIN posted : /\ posted[i] <= 2 * session + 1
                              /\ main \in {"session", "shutdown"} => posted[i] <= 2 * session

LifecycleInv ==
  /\ MutexInv /\ LoopType /\ TaskInv /\ LoopInv /\ QuitInv /\ PostedInv /\ SessionsApart
-----------------------------------------------------------------------------
(* The queue of the mutex.                                                  *)

LEMMA SetOfLine ==
  ASSUME NEW line \in Seq(Callers)
  PROVE  /\ \A d : d \in ToSet(line) <=> \E i \in 1..Len(line) : line[i] = d
         /\ Len(line) \in Nat /\ \A i \in 1..Len(line) : line[i] \in Callers
  BY DEF ToSet

LEMMA JoinLine ==
  ASSUME NEW line \in Seq(Callers), IsInjective(line), NEW c \in Callers, c \notin ToSet(line)
  PROVE  /\ Append(line, c) \in Seq(Callers) /\ IsInjective(Append(line, c))
         /\ ToSet(Append(line, c)) = ToSet(line) \cup {c}
         /\ line # <<>> => Append(line, c) # <<>> /\ Head(Append(line, c)) = Head(line)
<1> DEFINE longer == Append(line, c)
<1>1. /\ longer \in Seq(Callers) /\ Len(longer) = Len(line) + 1 /\ longer[Len(line) + 1] = c
      /\ \A i \in 1..Len(line) : longer[i] = line[i]
  BY AppendProperties
<1>2. /\ Len(line) \in Nat /\ DOMAIN line = 1..Len(line) /\ DOMAIN longer = 1..(Len(line) + 1)
      /\ \A d : d \in ToSet(line) <=> \E i \in 1..Len(line) : line[i] = d
      /\ \A d : d \in ToSet(longer) <=> \E i \in 1..(Len(line) + 1) : longer[i] = d
  BY <1>1, SetOfLine DEF ToSet
<1> HIDE DEF longer
<1>3. IsInjective(longer)
  <2> SUFFICES ASSUME NEW i \in 1..(Len(line) + 1), NEW j \in 1..(Len(line) + 1),
                      longer[i] = longer[j]
               PROVE  i = j
    BY <1>2 DEF IsInjective
  <2>1. CASE i \in 1..Len(line) /\ j \in 1..Len(line)
    BY <1>1, <1>2, <2>1 DEF IsInjective
  <2>2. CASE i = Len(line) + 1 \/ j = Len(line) + 1
    BY <1>1, <1>2, <2>2
  <2> QED  BY <1>2, <2>1, <2>2
<1>4. ToSet(longer) = ToSet(line) \cup {c}
  <2>1. ASSUME NEW d PROVE d \in ToSet(longer) <=> d \in ToSet(line) \cup {c}
    <3>1. \A i \in 1..(Len(line) + 1) : i \in 1..Len(line) \/ i = Len(line) + 1
      BY <1>2
    <3>2. Len(line) + 1 \in 1..(Len(line) + 1) /\ 1..Len(line) \subseteq 1..(Len(line) + 1)
      BY <1>2
    <3> QED  BY <1>1, <1>2, <3>1, <3>2
  <2> QED  BY <2>1
<1>5. line # <<>> => longer # <<>> /\ Head(longer) = Head(line)
  <2> SUFFICES ASSUME line # <<>> PROVE longer # <<>> /\ Head(longer) = Head(line)
    OBVIOUS
  <2>1. 1 \in 1..Len(line)
    OBVIOUS
  <2> QED  BY <1>1, <2>1
<1> QED
  BY <1>1, <1>3, <1>4, <1>5 DEF longer

LEMMA LeaveLine ==
  ASSUME NEW line \in Seq(Callers), IsInjective(line), NEW c \in Callers
  PROVE  /\ Without(line, c) \in Seq(Callers) /\ IsInjective(Without(line, c))
         /\ ToSet(Without(line, c)) = ToSet(line) \ {c}
         /\ line # <<>> /\ Head(line) # c =>
              Without(line, c) # <<>> /\ Head(Without(line, c)) = Head(line)
<1>1. CASE c \notin ToSet(line)
  BY <1>1 DEF Without
<1>2. CASE c \in ToSet(line)
  <2>0. PICK k \in 1..Len(line) : line[k] = c /\ Without(line, c) = RemoveAt(line, k)
    <3> DEFINE first == CHOOSE i \in DOMAIN line : line[i] = c
    <3>1. Without(line, c) = RemoveAt(line, first)
      BY <1>2 DEF Without
    <3>2. first \in 1..Len(line) /\ line[first] = c
      <4>1. \E i \in DOMAIN line : line[i] = c
        BY <1>2, SetOfLine
      <4> QED  BY <4>1
    <3> HIDE DEF first
    <3> QED  BY <3>1, <3>2
  <2> DEFINE n == Len(line)
             front == SubSeq(line, 1, k - 1)
             back == SubSeq(line, k + 1, n)
             rest == front \o back
  <2>1. Without(line, c) = rest /\ n \in Nat /\ k \in 1..n /\ DOMAIN line = 1..n
    BY <2>0 DEF RemoveAt
  <2>2. /\ front \in Seq(Callers) /\ Len(front) = k - 1 /\ \A i \in 1..(k - 1) : front[i] = line[i]
    <3>1. \A i \in 1..(k - 1) : line[i] \in Callers
      BY <2>1, SetOfLine
    <3> QED  BY <2>1, <3>1, SubSeqProperties
  <2>3. /\ back \in Seq(Callers) /\ Len(back) = n - k /\ \A i \in 1..(n - k) : back[i] = line[k + i]
    <3> HIDE DEF n
    <3>1. \A i \in (k + 1)..n : line[i] \in Callers
      BY <2>1, SetOfLine DEF n
    <3>2. /\ back \in Seq(Callers) /\ Len(back) = IF k + 1 <= n THEN n - (k + 1) + 1 ELSE 0
          /\ \A i \in 1..(n - (k + 1) + 1) : back[i] = line[k + 1 + i - 1]
      BY <2>1, <3>1, SubSeqProperties
    <3> HIDE DEF back
    <3>3. Len(back) = n - k
      BY <2>1, <3>2
    <3>4. \A i \in 1..(n - k) : i \in 1..(n - (k + 1) + 1) /\ k + 1 + i - 1 = k + i
      BY <2>1
    <3> QED  BY <3>2, <3>3, <3>4
  <2>4. /\ rest \in Seq(Callers) /\ Len(rest) = n - 1
        /\ \A i \in 1..(k - 1) : rest[i] = line[i]
        /\ \A i \in k..(n - 1) : rest[i] = line[i + 1]
    <3> HIDE DEF front, back, n
    <3>1. rest \in Seq(Callers) /\ Len(rest) = (k - 1) + (n - k)
          /\ \A i \in 1..Len(rest) : rest[i] = IF i <= k - 1 THEN front[i] ELSE back[i - (k - 1)]
      <4>1. /\ rest \in Seq(Callers) /\ Len(rest) = Len(front) + Len(back)
            /\ \A i \in 1..(Len(front) + Len(back)) :
                 rest[i] = IF i <= Len(front) THEN front[i] ELSE back[i - Len(front)]
        BY <2>2, <2>3, ConcatProperties
      <4> QED  BY <2>2, <2>3, <4>1
    <3>2. Len(rest) = n - 1
      BY <2>1, <3>1
    <3> HIDE DEF rest
    <3>3. ASSUME NEW i \in 1..(k - 1) PROVE rest[i] = line[i]
      BY <2>1, <2>2, <3>1, <3>2
    <3>4. ASSUME NEW i \in k..(n - 1) PROVE rest[i] = line[i + 1]
      <4>1. i - (k - 1) \in 1..(n - k) /\ k + (i - (k - 1)) = i + 1 /\ ~(i <= k - 1) /\ i \in 1..(n - 1)
        BY <2>1
      <4> QED  BY <2>3, <3>1, <3>2, <4>1
    <3> QED  BY <3>1, <3>2, <3>3, <3>4
  <2> HIDE DEF n, rest
  <2>5. DOMAIN rest = 1..(n - 1)
    BY <2>4
  <2> DEFINE At(i) == IF i < k THEN i ELSE i + 1
  <2>6. \A i \in 1..(n - 1) : At(i) \in 1..n /\ At(i) # k /\ rest[i] = line[At(i)]
    BY <2>1, <2>4
  <2>7. \A i, j \in 1..(n - 1) : At(i) = At(j) => i = j
    BY <2>1
  <2>8. \A j \in 1..n : j # k => \E i \in 1..(n - 1) : j = At(i)
    <3> SUFFICES ASSUME NEW j \in 1..n, j # k PROVE \E i \in 1..(n - 1) : j = At(i)
      OBVIOUS
    <3>1. CASE j < k
      <4>1. j \in 1..(n - 1) /\ At(j) = j
        BY <2>1, <3>1
      <4> QED  BY <4>1
    <3>2. CASE j > k
      <4>1. j - 1 \in 1..(n - 1) /\ At(j - 1) = j
        BY <2>1, <3>2
      <4> QED  BY <4>1
    <3> QED  BY <2>1, <3>1, <3>2
  <2>9. \A i \in 1..(n - 1) : i < k => At(i) = i
    OBVIOUS
  <2> HIDE DEF At
  <2>10. IsInjective(rest)
    <3>1. \A i, j \in 1..n : line[i] = line[j] => i = j
      BY <2>1 DEF IsInjective
    <3> QED  BY <2>5, <2>6, <2>7, <3>1 DEF IsInjective
  <2>11. ToSet(rest) = ToSet(line) \ {c}
    <3>1. \A i, j \in 1..n : line[i] = line[j] => i = j
      BY <2>1 DEF IsInjective
    <3>2. ASSUME NEW d PROVE d \in ToSet(rest) <=> d \in ToSet(line) /\ d # c
      <4>1. d \in ToSet(rest) <=> \E i \in 1..(n - 1) : line[At(i)] = d
        BY <2>5, <2>6 DEF ToSet
      <4>2. d \in ToSet(line) <=> \E j \in 1..n : line[j] = d
        BY <2>1 DEF ToSet
      <4> QED  BY <2>0, <2>1, <2>6, <2>8, <3>1, <4>1, <4>2
    <3> QED  BY <3>2
  <2>12. Head(line) # c => rest # <<>> /\ Head(rest) = Head(line)
    <3> SUFFICES ASSUME Head(line) # c PROVE rest # <<>> /\ Head(rest) = Head(line)
      OBVIOUS
    <3>1. Head(line) = line[1] /\ k # 1
      BY <2>0, <2>1
    <3>2. 1 \in 1..(n - 1) /\ At(1) = 1
      BY <2>1, <2>9, <3>1
    <3>3. rest[1] = line[1] /\ Len(rest) = n - 1
      BY <2>4, <2>6, <3>2
    <3>4. Len(rest) # 0
      BY <2>1, <3>2, <3>3
    <3>5. rest # <<>>
      BY <3>4
    <3>6. Head(rest) = rest[1]
      BY <2>4, <3>5
    <3> QED  BY <3>1, <3>3, <3>5, <3>6
  <2> QED  BY <2>1, <2>4, <2>10, <2>11, <2>12
<1> QED
  BY <1>1, <1>2

-----------------------------------------------------------------------------
(* The limiter.                                                             *)

LEMMA EnterMutex ==
  ASSUME MutexInv, NEW c \in Callers, phase[c] = "none", Enter(c), gap' = gap
  PROVE  MutexInv'
<1>1. /\ queue' = Append(queue, c) /\ phase' = [phase EXCEPT ![c] = "waiting"]
      /\ delay' = delay /\ since' = since /\ c \notin ToSet(queue)
  BY DEF Enter, MutexInv
<1>2. /\ queue' \in Seq(Callers) /\ IsInjective(queue') /\ ToSet(queue') = ToSet(queue) \cup {c}
      /\ queue # <<>> => queue' # <<>> /\ Head(queue') = Head(queue)
  BY <1>1, JoinLine DEF MutexInv
<1>3. /\ phase' \in [Callers -> {"none", "waiting", "sleeping", "calling"}]
      /\ phase'[c] = "waiting" /\ \A d \in Callers : d # c => phase'[d] = phase[d]
  BY <1>1 DEF MutexInv
<1> QED
  BY <1>1, <1>2, <1>3 DEF MutexInv

LEMMA LockMutex ==
  ASSUME MutexInv, NEW c \in Callers, Lock(c)
  PROVE  MutexInv'
<1>1. /\ queue' = queue /\ phase[c] = "waiting" /\ Head(queue) = c
      /\ phase' = [phase EXCEPT ![c] = "sleeping"]
      /\ delay' = [delay EXCEPT ![c] = Interval - since] /\ since' = since /\ gap' = gap
  BY DEF Lock, HoldsLock, histories
<1>2. /\ phase' \in [Callers -> {"none", "waiting", "sleeping", "calling"}]
      /\ phase'[c] = "sleeping" /\ \A d \in Callers : d # c => phase'[d] = phase[d]
      /\ delay'[c] = Interval - since /\ \A d \in Callers : d # c => delay'[d] = delay[d]
  BY <1>1 DEF MutexInv
<1>3. Interval - since \in 0..Interval /\ Interval <= (Interval - since) + since
  BY TimeAssumption DEF MutexInv
<1>4. delay' \in [Callers -> 0..Interval]
  BY <1>1, <1>3 DEF MutexInv
<1>5. queue # <<>>
  BY <1>1 DEF MutexInv, ToSet
<1> QED
  BY <1>1, <1>2, <1>3, <1>4, <1>5 DEF MutexInv

LEMMA OneSleeps ==
  ASSUME MutexInv, NEW c \in Callers, NEW d \in Callers, phase[c] = "sleeping", phase[d] = "sleeping"
  PROVE  c = d
  BY DEF MutexInv

LEMMA GrantMutex ==
  ASSUME MutexInv, NEW c \in Callers, Grant(c)
  PROVE  MutexInv'
<1>1. /\ phase[c] = "sleeping" /\ delay[c] = 0 /\ phase' = [phase EXCEPT ![c] = "calling"]
      /\ queue' = Without(queue, c) /\ since' = 0 /\ gap' = since /\ delay' = delay
  BY DEF Grant, Released
<1>2. /\ queue' \in Seq(Callers) /\ IsInjective(queue') /\ ToSet(queue') = ToSet(queue) \ {c}
  BY <1>1, LeaveLine DEF MutexInv
<1>3. /\ phase' \in [Callers -> {"none", "waiting", "sleeping", "calling"}]
      /\ phase'[c] = "calling" /\ \A d \in Callers : d # c => phase'[d] = phase[d]
  BY <1>1 DEF MutexInv
<1>4. \A d \in Callers : phase'[d] # "sleeping"
  BY <1>1, <1>3, OneSleeps
<1>5. gap' = Interval /\ since' \in 0..Interval
  BY <1>1, TimeAssumption DEF MutexInv
<1> QED
  BY <1>1, <1>2, <1>3, <1>4, <1>5 DEF MutexInv

LEMMA CancelMutex ==
  ASSUME MutexInv, NEW c \in Callers, Cancel(c), gap' = gap
  PROVE  MutexInv'
<1>1. /\ phase' = [phase EXCEPT ![c] = "none"] /\ queue' = Without(queue, c)
      /\ since' = since /\ delay' = delay
  BY DEF Cancel
<1>2. /\ queue' \in Seq(Callers) /\ IsInjective(queue') /\ ToSet(queue') = ToSet(queue) \ {c}
      /\ queue # <<>> /\ Head(queue) # c => queue' # <<>> /\ Head(queue') = Head(queue)
  BY <1>1, LeaveLine DEF MutexInv
<1>3. /\ phase' \in [Callers -> {"none", "waiting", "sleeping", "calling"}]
      /\ phase'[c] = "none" /\ \A d \in Callers : d # c => phase'[d] = phase[d]
  BY <1>1 DEF MutexInv
<1> QED
  BY <1>1, <1>2, <1>3 DEF MutexInv

LEMMA ReturnMutex ==
  ASSUME MutexInv, NEW c \in Callers, Return(c), gap' = gap
  PROVE  MutexInv'
<1>1. /\ phase' = [phase EXCEPT ![c] = "none"] /\ phase[c] = "calling"
      /\ UNCHANGED <<queue, since, delay>>
  BY DEF Return
<1>2. /\ phase' \in [Callers -> {"none", "waiting", "sleeping", "calling"}]
      /\ phase'[c] = "none" /\ \A d \in Callers : d # c => phase'[d] = phase[d]
  BY <1>1 DEF MutexInv
<1> QED
  BY <1>1, <1>2 DEF MutexInv

LEMMA TickMutex ==
  ASSUME MutexInv, Tick
  PROVE  MutexInv'
<1>1. /\ delay' = [c \in Callers |-> IF delay[c] = 0 THEN 0 ELSE delay[c] - 1]
      /\ since' = IF since = Interval THEN Interval ELSE since + 1
      /\ UNCHANGED <<queue, phase, gap>>
  BY DEF Tick
<1>2. since \in 0..Interval /\ \A c \in Callers : delay[c] \in 0..Interval
  BY DEF MutexInv
<1>3. since' \in 0..Interval /\ delay' \in [Callers -> 0..Interval]
  BY <1>1, <1>2, TimeAssumption
<1>4. ASSUME NEW c \in Callers, Interval <= delay[c] + since
      PROVE  Interval <= delay'[c] + since'
  <2>1. delay[c] \in Nat /\ since \in Nat
    BY <1>2, TimeAssumption
  <2> QED  BY <1>1, <1>2, <1>4, <2>1, TimeAssumption
<1> QED
  BY <1>1, <1>3, <1>4 DEF MutexInv

LEMMA QuietMutex ==
  ASSUME MutexInv, UNCHANGED <<limiter, gap>>
  PROVE  MutexInv'
  BY DEF MutexInv, limiter

LEMMA MutexStep ==
  ASSUME MutexInv, [Next]_vars
  PROVE  MutexInv'
<1>1. CASE MainPosts
  BY <1>1, EnterMutex DEF MainPosts, InTurn, Callers, histories
<1>2. CASE MainDone
  BY <1>2, ReturnMutex DEF MainDone, Callers
<1>3. ASSUME NEW s \in Sessions, DispatcherPosts(s) PROVE MutexInv'
  BY <1>3, EnterMutex DEF DispatcherPosts, InTurn, Callers, histories
<1>4. ASSUME NEW s \in Sessions, DispatcherDone(s) PROVE MutexInv'
  BY <1>4, ReturnMutex DEF DispatcherDone, Callers
<1>5. CASE GoodbyeTimeout
  BY <1>5, CancelMutex DEF GoodbyeTimeout, Callers, histories
<1>6. ASSUME NEW c \in Callers, Lock(c) \/ Grant(c) PROVE MutexInv'
  BY <1>6, LockMutex, GrantMutex
<1>7. CASE Tick
  BY <1>7, TickMutex
<1>8. CASE Make \/ Wedge \/ SpawnFails \/ IdleMessage \/ IdleQuit \/ ShutdownDone \/ ShutdownTimeout \/ UNCHANGED vars
  BY <1>8, QuietMutex DEF Make, Wedge, SpawnFails, IdleMessage, IdleQuit, ShutdownDone, ShutdownTimeout,
       vars, histories
<1>9. ASSUME NEW how \in Outcomes \ {"none"}, EndSession(how) PROVE MutexInv'
  BY <1>9, QuietMutex DEF EndSession
<1> QED
  BY <1>1, <1>2, <1>3, <1>4, <1>5, <1>6, <1>7, <1>8, <1>9 DEF Next, MainStep, Dispatchers

-----------------------------------------------------------------------------
(* The outer loop and the dispatchers.                                      *)

LEMMA ConstantFacts ==
  /\ MaxSessions \in Nat /\ MaxSessions # 0 /\ MaxUnits \in Nat /\ MaxMessages \in Nat
  /\ Timeout \in Nat /\ Timeout # 0 /\ Sessions = 1..MaxSessions /\ 0 \in Callers
  /\ Sessions \subseteq Callers /\ 0 \notin Sessions /\ Callers \subseteq Nat
  BY BoundAssumption, TimeAssumption DEF Sessions, Callers

\* What the loop posts and what it does next.
LEMMA NextAfterFacts ==
  ASSUME NEW how \in Outcomes \ {"none"}
  PROVE  /\ NextAfter[how] \in {"session", "idle", "ended"}
         /\ NextAfter[how] = "session" => how = "UserRequestedNew"
         /\ how = "Interrupted" => NextAfter[how] = "ended"
  BY DEF NextAfter, Outcomes

\* What ends a session's shutdown.
AfterShutdown ==
  /\ main = "shutdown" /\ AfterSession /\ (left[session] = 0 \/ late' = late \cup {session})
  /\ late \subseteq late' /\ late' \subseteq late \cup {session}
  /\ UNCHANGED <<made, left, limiter, wedged, histories, messages>>

LEMMA ShutdownEnds ==
  ASSUME ShutdownDone \/ ShutdownTimeout
  PROVE  AfterShutdown
<1>1. CASE ShutdownDone
  BY <1>1 DEF ShutdownDone, Drained, AfterShutdown, units
<1>2. CASE ShutdownTimeout
  BY <1>2 DEF ShutdownTimeout, AfterShutdown
<1> QED
  BY <1>1, <1>2

LEMMA TypeInit == Init => LoopType
  BY ConstantFacts DEF Init, LoopType, Outcomes

LEMMA TypeStep ==
  ASSUME LoopType, MutexInv, TaskInv, LoopInv, [Next]_vars
  PROVE  LoopType'
<1> USE ConstantFacts
<1>0. /\ session \in 0..MaxSessions /\ session \in Nat
      /\ \A s \in Sessions : made[s] \in 0..MaxUnits /\ left[s] \in 0..MaxUnits /\ left[s] <= made[s]
  BY DEF LoopType, TaskInv
<1>1. CASE MainPosts
  BY <1>1 DEF MainPosts, LoopType, loop, units, histories
<1>2. CASE MainDone
  <2>1. /\ UNCHANGED <<goal, made, left, late, wedged, quitting, messages>> /\ timer' = 0
    BY <1>2 DEF MainDone, units
  <2>2. /\ main' \in {goal, "ended"} /\ posted' \in {posted, Append(posted, Rank(0))}
        /\ outcome' \in {outcome, "none"}
        /\ session' = session \/ (session' = session + 1 /\ goal = "session")
    BY <1>2 DEF MainDone
  <2>3. main = "posting"
    BY <1>2 DEF MainDone, Return, TaskInv, Running, LoopType
  <2>4. session' \in 0..MaxSessions
    BY <1>0, <2>2, <2>3 DEF LoopInv
  <2>5. Rank(0) \in 1..(2 * MaxSessions + 1)
    BY <1>0 DEF Rank
  <2>6. posted' \in Seq(1..(2 * MaxSessions + 1))
    <3>1. posted \in Seq(1..(2 * MaxSessions + 1))
      BY DEF LoopType
    <3>2. Append(posted, Rank(0)) \in Seq(1..(2 * MaxSessions + 1))
      BY <2>5, <3>1, AppendProperties
    <3> QED  BY <2>2, <3>1, <3>2
  <2> QED  BY <2>1, <2>2, <2>4, <2>6, SMTT(40) DEF LoopType, Outcomes
<1>3. ASSUME NEW s \in Sessions, DispatcherPosts(s) PROVE LoopType'
  BY <1>3 DEF DispatcherPosts, LoopType, loop, units, histories
<1>4. ASSUME NEW s \in Sessions, DispatcherDone(s) PROVE LoopType'
  <2>1. /\ UNCHANGED <<main, goal, session, outcome, timer, made, late, wedged, quitting, messages>>
        /\ left' = [left EXCEPT ![s] = @ - 1] /\ posted' \in {posted, Append(posted, Rank(s))}
    BY <1>4 DEF DispatcherDone, loop
  <2>2. left[s] > 0
    BY <1>4 DEF DispatcherDone, Return, TaskInv
  <2>3. left' \in [Sessions -> 0..MaxUnits]
    <3>1. left[s] - 1 \in 0..MaxUnits
      BY <1>0, <2>2
    <3> QED  BY <2>1, <3>1 DEF LoopType
  <2>4. Rank(s) \in 1..(2 * MaxSessions + 1)
    BY DEF Rank
  <2>5. posted' \in Seq(1..(2 * MaxSessions + 1))
    <3>1. posted \in Seq(1..(2 * MaxSessions + 1))
      BY DEF LoopType
    <3>2. Append(posted, Rank(s)) \in Seq(1..(2 * MaxSessions + 1))
      BY <2>4, <3>1, AppendProperties
    <3> QED  BY <2>1, <3>1, <3>2
  <2> QED  BY <2>1, <2>3, <2>5 DEF LoopType
<1>5. CASE GoodbyeTimeout
  BY <1>5 DEF GoodbyeTimeout, LoopType, units, histories
<1>6. ASSUME NEW c \in Callers, Lock(c) \/ Grant(c) PROVE LoopType'
  BY <1>6 DEF Lock, Grant, LoopType, loop, units, histories
<1>7. CASE Tick
  <2>1. timer' \in 0..Timeout
    BY <1>7 DEF Tick, LoopType
  <2>2. quitting' \in -1..(2 * Timeout + 1)
    BY <1>7 DEF Tick, LoopType
  <2> QED  BY <1>7, <2>1, <2>2 DEF Tick, LoopType, units
<1>8. CASE Make
  <2>1. /\ main = "session" /\ made[session] < MaxUnits /\ session \in Sessions
        /\ made' = [made EXCEPT ![session] = @ + 1] /\ left' = [left EXCEPT ![session] = @ + 1]
        /\ UNCHANGED <<loop, late, wedged, posted, quitting, messages>>
    BY <1>0, <1>8 DEF Make, LoopInv, histories
  <2>2. made[session] + 1 \in 0..MaxUnits /\ left[session] + 1 \in 0..MaxUnits
    BY <1>0, <2>1
  <2> QED  BY <2>1, <2>2 DEF LoopType, loop
<1>9. CASE AfterShutdown
  <2>1. outcome \in Outcomes \ {"none"} /\ session \in Sessions
    BY <1>0, <1>9 DEF AfterShutdown, LoopInv, LoopType
  <2>2. main' = "posting" /\ goal' = NextAfter[outcome] /\ timer' \in {0, Timeout}
        /\ UNCHANGED <<session, outcome>>
    BY <1>9 DEF AfterShutdown, AfterSession, Post, GoodbyeBudget
  <2> QED  BY <1>9, <2>1, <2>2, NextAfterFacts DEF AfterShutdown, LoopType, histories
<1>10. CASE IdleMessage
  BY <1>10 DEF IdleMessage, Post, LoopType, units, histories
<1>11. CASE IdleQuit \/ SpawnFails \/ Wedge \/ UNCHANGED vars
  BY <1>11 DEF IdleQuit, SpawnFails, Wedge, vars, LoopType, loop, units, histories
<1>12. ASSUME NEW how \in Outcomes \ {"none"}, EndSession(how) PROVE LoopType'
  BY <1>12 DEF EndSession, LoopType, units
<1> QED
  BY <1>1, <1>2, <1>3, <1>4, <1>5, <1>6, <1>7, <1>8, <1>9, <1>10, <1>11, <1>12, ShutdownEnds
  DEF Next, MainStep, Dispatchers

LEMMA TaskStep ==
  ASSUME LoopType, MutexInv, TaskInv, LoopInv, [Next]_vars
  PROVE  TaskInv'
<1> USE ConstantFacts
<1>0. /\ \A s \in Sessions : made[s] \in Nat /\ left[s] \in Nat
      /\ phase \in [Callers -> {"none", "waiting", "sleeping", "calling"}]
  BY DEF LoopType, MutexInv
<1>1. CASE MainPosts
  <2>1. main = "posting" /\ main' = main /\ left' = left /\ made' = made
        /\ phase' = [phase EXCEPT ![0] = "waiting"]
    BY <1>1 DEF MainPosts, Enter, loop, units
  <2> QED  BY <1>0, <2>1 DEF TaskInv
<1>2. CASE MainDone
  <2>1. left' = left /\ made' = made /\ phase' = [phase EXCEPT ![0] = "none"]
    BY <1>2 DEF MainDone, Return, units
  <2> QED  BY <1>0, <2>1 DEF TaskInv
<1>3. ASSUME NEW s \in Sessions, DispatcherPosts(s) PROVE TaskInv'
  <2>1. left[s] > 0 /\ main' = main /\ left' = left /\ made' = made
        /\ phase' = [phase EXCEPT ![s] = "waiting"]
    BY <1>3 DEF DispatcherPosts, Enter, loop, units
  <2> QED  BY <1>0, <2>1 DEF TaskInv
<1>4. ASSUME NEW s \in Sessions, DispatcherDone(s) PROVE TaskInv'
  <2>1. main' = main /\ left' = [left EXCEPT ![s] = @ - 1] /\ made' = made
        /\ phase' = [phase EXCEPT ![s] = "none"]
    BY <1>4 DEF DispatcherDone, Return, loop
  <2>2. /\ \A t \in Sessions : t # s => left'[t] = left[t] /\ phase'[t] = phase[t]
        /\ left'[s] = left[s] - 1 /\ phase'[s] = "none" /\ phase'[0] = phase[0]
    BY <1>0, <2>1 DEF LoopType
  <2> QED  BY <1>0, <2>1, <2>2 DEF TaskInv
<1>5. CASE GoodbyeTimeout
  BY <1>0, <1>5 DEF GoodbyeTimeout, Cancel, units, TaskInv
<1>6. ASSUME NEW c \in Callers, Lock(c) \/ Grant(c) PROVE TaskInv'
  <2>1. phase[c] # "none" /\ phase' \in {[phase EXCEPT ![c] = "sleeping"], [phase EXCEPT ![c] = "calling"]}
        /\ main' = main /\ left' = left /\ made' = made
    BY <1>6 DEF Lock, Grant, loop, units
  <2>2. \A d \in Callers : phase'[d] # "none" => phase[d] # "none"
    BY <1>0, <2>1
  <2> QED  BY <2>1, <2>2 DEF TaskInv
<1>7. CASE Make
  <2>1. /\ main = "session" /\ main' = main /\ session \in Sessions /\ phase' = phase
        /\ made' = [made EXCEPT ![session] = @ + 1] /\ left' = [left EXCEPT ![session] = @ + 1]
    BY <1>7 DEF Make, LoopInv, LoopType, loop, limiter
  <2>2. \A t \in Sessions : \/ t # session /\ left'[t] = left[t] /\ made'[t] = made[t]
                            \/ t = session /\ left'[t] = left[t] + 1 /\ made'[t] = made[t] + 1
    BY <2>1 DEF LoopType
  <2> QED  BY <1>0, <2>1, <2>2 DEF TaskInv
<1>8. CASE AfterShutdown
  BY <1>8 DEF AfterShutdown, AfterSession, Post, TaskInv, limiter
<1>9. CASE IdleMessage \/ IdleQuit \/ SpawnFails
  BY <1>9 DEF IdleMessage, IdleQuit, SpawnFails, Post, TaskInv, limiter, units
<1>10. CASE Tick \/ Wedge \/ UNCHANGED vars
  BY <1>10 DEF Tick, Wedge, vars, TaskInv, limiter, units, loop
<1>11. ASSUME NEW how \in Outcomes \ {"none"}, EndSession(how) PROVE TaskInv'
  BY <1>11 DEF EndSession, TaskInv, limiter, units
<1> QED
  BY <1>1, <1>2, <1>3, <1>4, <1>5, <1>6, <1>7, <1>8, <1>9, <1>10, <1>11, ShutdownEnds
  DEF Next, MainStep, Dispatchers

\* What every step but those of the outer loop leaves alone.
Beside == UNCHANGED <<main, goal, session, outcome>>

LEMMA LoopStep ==
  ASSUME LoopType, TaskInv, LoopInv, [Next]_vars
  PROVE  LoopInv'
<1> USE ConstantFacts
<1>0. session \in Nat
  BY DEF LoopType
<1>1. CASE MainDone
  <2>1. main = "posting"
    BY <1>1 DEF MainDone, Return, TaskInv, Running, LoopType
  <2>2. CASE main' = "ended"
    BY <2>2 DEF LoopInv
  <2>3. CASE main' = goal /\ goal' = goal /\ session' = IF goal = "session" THEN session + 1 ELSE session
    BY <1>0, <2>1, <2>3 DEF LoopInv, LoopType
  <2> QED  BY <1>1, <2>2, <2>3 DEF MainDone
<1>2. CASE AfterShutdown
  <2>1. /\ outcome \in Outcomes \ {"none"} /\ session > 0 /\ session' = session
        /\ main' = "posting" /\ goal' = NextAfter[outcome]
        /\ outcome = "UserRequestedNew" => session < MaxSessions
    BY <1>2 DEF AfterShutdown, AfterSession, Post, LoopInv, LoopType
  <2> QED  BY <2>1, NextAfterFacts DEF LoopInv
<1>3. CASE IdleMessage
  BY <1>3 DEF IdleMessage, Post, LoopInv
<1>4. CASE IdleQuit \/ SpawnFails \/ GoodbyeTimeout
  BY <1>4 DEF IdleQuit, SpawnFails, GoodbyeTimeout, LoopInv
<1>5. ASSUME NEW how \in Outcomes \ {"none"}, EndSession(how) PROVE LoopInv'
  BY <1>5 DEF EndSession, LoopInv
<1>6. CASE Beside
  BY <1>6 DEF Beside, LoopInv
<1>7. CASE MainPosts \/ Make \/ Wedge \/ Tick \/ UNCHANGED vars
  BY <1>6, <1>7 DEF MainPosts, Make, Wedge, Tick, vars, loop, Beside
<1>8. ASSUME NEW s \in Sessions, DispatcherPosts(s) \/ DispatcherDone(s) PROVE LoopInv'
  BY <1>6, <1>8 DEF DispatcherPosts, DispatcherDone, loop, Beside
<1>9. ASSUME NEW c \in Callers, Lock(c) \/ Grant(c) PROVE LoopInv'
  BY <1>6, <1>9 DEF Lock, Grant, loop, Beside
<1> QED
  BY <1>1, <1>2, <1>3, <1>4, <1>5, <1>7, <1>8, <1>9, ShutdownEnds DEF Next, MainStep, Dispatchers

\* What is left of a budget: q has passed, t is left, and the next budget
\* starts or one unit passes.
LEMMA Budgets ==
  ASSUME NEW q \in Int, NEW t \in Nat, NEW b \in Nat, q + t <= b
  PROVE  /\ q <= b /\ q + 0 <= 2 * b /\ q + b <= 2 * b
         /\ t > 0 => (q + 1) + (t - 1) <= b
  OBVIOUS

LEMMA QuitStep ==
  ASSUME LoopType, TaskInv, LoopInv, QuitInv, [Next]_vars
  PROVE  QuitInv'
<1>0. /\ quitting \in -1..(2 * Timeout + 1) /\ timer \in 0..Timeout
      /\ quitting \in Int /\ timer \in Nat /\ timer <= Timeout /\ Timeout \in Nat
      /\ 2 * Timeout \in Nat
  BY TimeAssumption DEF LoopType
<1>1. CASE MainDone
  <2>1. main = "posting"
    BY <1>1 DEF MainDone, Return, TaskInv, Running, LoopType
  <2>2. /\ timer' = 0 /\ quitting' = quitting
        /\ \/ main' = goal /\ outcome' = IF goal = "session" THEN "none" ELSE outcome
           \/ main' = "ended" /\ outcome' = outcome
    BY <1>1 DEF MainDone
  <2>3. CASE outcome = "Interrupted"
    BY <2>1, <2>2, <2>3 DEF QuitInv
  <2>4. CASE outcome # "Interrupted"
    BY <2>2, <2>4 DEF QuitInv
  <2> QED  BY <2>3, <2>4
<1>2. CASE AfterShutdown
  <2>1. /\ outcome \in Outcomes \ {"none"} /\ main = "shutdown" /\ outcome' = outcome
        /\ main' = "posting" /\ goal' = NextAfter[outcome] /\ quitting' = quitting
        /\ timer' \in {0, Timeout}
    BY <1>2 DEF AfterShutdown, AfterSession, Post, LoopInv, LoopType, histories, GoodbyeBudget
  <2>2. ASSUME outcome = "Interrupted" PROVE quitting + timer' <= 2 * Timeout
    <3>1. quitting + timer <= Timeout
      BY <2>1, <2>2 DEF QuitInv
    <3>2. quitting + 0 <= 2 * Timeout /\ quitting + Timeout <= 2 * Timeout
      BY <1>0, <3>1, Budgets
    <3>3. timer' = 0 \/ timer' = Timeout
      BY <2>1
    <3> QED  BY <3>2, <3>3
  <2> QED  BY <2>1, <2>2, NextAfterFacts DEF QuitInv
<1>3. CASE IdleMessage \/ IdleQuit \/ SpawnFails
  <2>1. main \in {"idle", "session"} /\ outcome' = outcome /\ quitting' = quitting
    BY <1>3 DEF IdleMessage, IdleQuit, SpawnFails, histories
  <2>2. outcome # "Interrupted"
    BY <2>1 DEF QuitInv
  <2> QED  BY <2>1, <2>2 DEF QuitInv
<1>4. CASE GoodbyeTimeout
  BY <1>4 DEF GoodbyeTimeout, QuitInv, histories
<1>5. ASSUME NEW how \in Outcomes \ {"none"}, EndSession(how) PROVE QuitInv'
  <2>1. main' = "shutdown" /\ outcome' = how /\ timer' = Timeout
    BY <1>5 DEF EndSession
  <2>2. CASE how = "Interrupted"
    <3>1. quitting' = 0
      BY <1>5, <2>2 DEF EndSession
    <3>2. 0 + Timeout <= Timeout
      BY <1>0
    <3>3. quitting' + timer' <= Timeout
      BY <2>1, <3>1, <3>2
    <3> QED  BY <2>1, <2>2, <3>3 DEF QuitInv
  <2>3. CASE how # "Interrupted"
    <3>1. quitting' = -1
      BY <1>5, <2>3 DEF EndSession
    <3> QED  BY <2>1, <2>3, <3>1 DEF QuitInv
  <2> QED  BY <2>2, <2>3
<1>6. CASE Tick
  <2>1. /\ UNCHANGED <<main, goal, session, outcome>>
        /\ timer' = IF timer = 0 THEN 0 ELSE timer - 1
        /\ quitting' = IF quitting \in {-1, 2 * Timeout + 1} THEN quitting ELSE quitting + 1
    BY <1>6 DEF Tick
  <2>2. CASE outcome # "Interrupted"
    <3>1. quitting = -1
      BY <2>2 DEF QuitInv
    <3> QED  BY <2>1, <2>2, <3>1 DEF QuitInv
  <2>3. CASE outcome = "Interrupted" /\ main \in {"shutdown", "posting"}
    <3>1. timer > 0
      <4>1. Timeout > 0
        BY TimeAssumption
      <4> QED  BY <1>6, <2>3, <4>1 DEF Tick, HasDeadline, GoodbyeBudget
    <3>2. timer' = timer - 1
      BY <2>1, <3>1
    <3>3. ASSUME NEW bound \in Nat, quitting + timer <= bound PROVE quitting' + timer' <= bound
      <4>1. (quitting + 1) + (timer - 1) <= bound
        BY <1>0, <3>1, <3>3, Budgets
      <4>2. CASE quitting' = quitting + 1
        BY <3>2, <4>1, <4>2
      <4>3. CASE quitting' = quitting
        <5>1. quitting + (timer - 1) <= (quitting + 1) + (timer - 1)
          BY <1>0
        <5>2. /\ quitting + (timer - 1) \in Int /\ (quitting + 1) + (timer - 1) \in Int
          BY <1>0
        <5>3. quitting + (timer - 1) <= bound
          BY <4>1, <5>1, <5>2
        <5> QED  BY <3>2, <4>3, <5>3
      <4> QED  BY <2>1, <4>2, <4>3
    <3>4. main = "shutdown" => quitting' + timer' <= Timeout
      BY <1>0, <2>3, <3>3 DEF QuitInv
    <3>5. main = "posting" => goal = "ended" /\ quitting' + timer' <= 2 * Timeout
      BY <1>0, <2>3, <3>3 DEF QuitInv
    <3> QED  BY <2>1, <2>3, <3>4, <3>5 DEF QuitInv
  <2>4. CASE outcome = "Interrupted" /\ main \notin {"shutdown", "posting"}
    BY <2>1, <2>4 DEF QuitInv
  <2> QED  BY <2>2, <2>3, <2>4
<1>7. CASE Beside /\ quitting' = quitting /\ timer' = timer
  BY <1>7 DEF Beside, QuitInv
<1>8. CASE MainPosts \/ Make \/ Wedge \/ UNCHANGED vars
  BY <1>7, <1>8 DEF MainPosts, Make, Wedge, vars, loop, histories, Beside
<1>9. ASSUME NEW s \in Sessions, DispatcherPosts(s) \/ DispatcherDone(s) PROVE QuitInv'
  BY <1>7, <1>9 DEF DispatcherPosts, DispatcherDone, loop, histories, Beside
<1>10. ASSUME NEW c \in Callers, Lock(c) \/ Grant(c) PROVE QuitInv'
  BY <1>7, <1>10 DEF Lock, Grant, loop, histories, Beside
<1> QED
  BY <1>1, <1>2, <1>3, <1>4, <1>5, <1>6, <1>8, <1>9, <1>10, ShutdownEnds DEF Next, MainStep, Dispatchers

\* A message is added below the others, or by a dispatcher left to itself.
LEMMA PostedStep ==
  ASSUME LoopType, TaskInv, LoopInv, PostedInv, SessionsApart, [Next]_vars
  PROVE  PostedInv' /\ SessionsApart'
<1> USE ConstantFacts
<1> DEFINE Apart(p, l) == \A i, j \in DOMAIN p : i < j /\ p[i] > p[j] => \E s \in l : p[j] = 2 * s
           InSession == main \in {"session", "shutdown"}
<1>0. /\ session \in Nat /\ \A s \in Sessions : left[s] \in Nat
      /\ posted \in Seq(Nat) /\ Len(posted) \in Nat /\ DOMAIN posted = 1..Len(posted)
      /\ \A i \in DOMAIN posted : posted[i] \in Nat
      /\ SessionsApart <=> Apart(posted, late)
  <2>1. posted \in Seq(Nat)
    BY DEF LoopType
  <2>2. session \in Nat /\ \A s \in Sessions : left[s] \in Nat
    BY DEF LoopType
  <2> QED  BY <2>1, <2>2 DEF SessionsApart
<1>a. SessionsApart' <=> Apart(posted', late')
  BY DEF SessionsApart
\* One message is added.
<1>b. ASSUME NEW r \in Nat, posted' = Append(posted, r), late' = late,
             (\A i \in DOMAIN posted : posted[i] <= r) \/ \E s \in late : r = 2 * s
      PROVE  /\ SessionsApart' /\ DOMAIN posted' = 1..(Len(posted) + 1)
             /\ \A i \in DOMAIN posted' : (i \in DOMAIN posted /\ posted'[i] = posted[i]) \/ posted'[i] = r
  <2>1. /\ DOMAIN posted' = 1..(Len(posted) + 1) /\ posted'[Len(posted) + 1] = r
        /\ \A i \in DOMAIN posted : posted'[i] = posted[i]
    BY <1>0, <1>b, AppendProperties
  <2>2. ASSUME NEW i \in DOMAIN posted', NEW j \in DOMAIN posted', i < j, posted'[i] > posted'[j]
        PROVE  \E s \in late' : posted'[j] = 2 * s
    <3>1. i \in DOMAIN posted /\ posted'[i] = posted[i]
      BY <1>0, <2>1, <2>2
    <3>2. CASE j \in DOMAIN posted
      BY <1>0, <1>b, <2>1, <2>2, <3>1, <3>2 DEF SessionsApart
    <3>3. CASE j = Len(posted) + 1
      <4>1. posted'[j] = r /\ posted[i] > r /\ posted[i] \in Nat
        BY <1>0, <2>1, <2>2, <3>1, <3>3
      <4>2. ~(posted[i] <= r)
        BY <4>1
      <4> QED  BY <1>b, <3>1, <4>1, <4>2
    <3> QED  BY <1>0, <2>1, <3>2, <3>3, SMTT(40)
  <2>3. \A i \in DOMAIN posted' : i \in DOMAIN posted \/ i = Len(posted) + 1
    BY <1>0, <2>1
  <2> QED  BY <2>1, <2>2, <2>3 DEF SessionsApart
<1>1. CASE MainDone
  <2>1. main = "posting" /\ left' = left /\ late' = late
    BY <1>1 DEF MainDone, Return, TaskInv, Running, LoopType, units
  <2>2. CASE posted' = Append(posted, Rank(0)) /\ main' = goal
             /\ session' = IF goal = "session" THEN session + 1 ELSE session
    <3>1. Rank(0) = 2 * session + 1 /\ Rank(0) \in Nat /\ \A i \in DOMAIN posted : posted[i] <= Rank(0)
      BY <1>0 DEF Rank, PostedInv
    <3>2. /\ SessionsApart'
          /\ \A i \in DOMAIN posted' : (i \in DOMAIN posted /\ posted'[i] = posted[i]) \/ posted'[i] = Rank(0)
      BY <1>b, <2>1, <2>2, <3>1
    <3>3. \A i \in DOMAIN posted' : posted'[i] <= 2 * session + 1 /\ posted'[i] \in Nat
      BY <1>0, <3>1, <3>2 DEF PostedInv
    <3>4. \A i \in DOMAIN posted' : /\ posted'[i] <= 2 * session' + 1
                                    /\ main' \in {"session", "shutdown"} => posted'[i] <= 2 * session'
      <4>1. CASE goal = "session"
        <5>1. session' = session + 1
          BY <2>2, <4>1
        <5> QED  BY <1>0, <3>3, <5>1
      <4>2. CASE goal # "session"
        BY <2>2, <3>3, <4>2 DEF LoopType
      <4> QED  BY <4>1, <4>2
    <3>5. \A s \in Sessions : left'[s] > 0 => s \in late'
      BY <2>1 DEF PostedInv
    <3>6. late' \subseteq 1..session'
      BY <1>0, <2>1, <2>2 DEF PostedInv
    <3> QED  BY <3>2, <3>4, <3>5, <3>6 DEF PostedInv
  <2>3. CASE posted' = posted /\ main' = "ended" /\ session' = session
    BY <1>0, <1>a, <2>1, <2>3 DEF PostedInv
  <2> QED  BY <1>1, <2>2, <2>3 DEF MainDone
<1>2. ASSUME NEW s \in Sessions, DispatcherDone(s) PROVE PostedInv' /\ SessionsApart'
  <2>1. /\ UNCHANGED <<main, session, late>> /\ left[s] > 0
        /\ left' = [left EXCEPT ![s] = @ - 1] /\ posted' \in {posted, Append(posted, Rank(s))}
    BY <1>2 DEF DispatcherDone, Return, TaskInv, loop
  <2>2. Rank(s) = 2 * s /\ Rank(s) \in Nat
    BY DEF Rank
  <2>3. (s = session /\ InSession) \/ s \in late
    BY <2>1 DEF PostedInv
  <2>4. \A t \in Sessions : left'[t] > 0 => left[t] > 0
    <3>1. \A t \in Sessions : left'[t] = IF t = s THEN left[s] - 1 ELSE left[t]
      BY <2>1 DEF LoopType
    <3> QED  BY <1>0, <2>1, <3>1
  <2>5. s <= session
    <3>1. s \in late => s <= session
      BY DEF PostedInv
    <3> QED  BY <1>0, <2>3, <3>1
  <2>6. CASE posted' = posted
    BY <1>0, <1>a, <2>1, <2>4, <2>6 DEF PostedInv
  <2>7. CASE posted' = Append(posted, Rank(s))
    <3>1. (\A i \in DOMAIN posted : posted[i] <= Rank(s)) \/ \E t \in late : Rank(s) = 2 * t
      BY <2>2, <2>3 DEF PostedInv
    <3>2. /\ SessionsApart'
          /\ \A i \in DOMAIN posted' : (i \in DOMAIN posted /\ posted'[i] = posted[i]) \/ posted'[i] = Rank(s)
      BY <1>b, <2>1, <2>2, <2>7, <3>1
    <3>3. Rank(s) <= 2 * session /\ Rank(s) <= 2 * session + 1
      BY <1>0, <2>2, <2>5
    <3> QED  BY <2>1, <2>4, <3>2, <3>3 DEF PostedInv
  <2> QED  BY <2>1, <2>6, <2>7
<1>3. CASE AfterShutdown
  <2>1. /\ main = "shutdown" /\ main' = "posting" /\ session' = session /\ posted' = posted /\ left' = left
        /\ late \subseteq late' /\ (left[session] = 0 \/ session \in late') /\ session > 0
        /\ late' \subseteq late \cup {session}
    BY <1>3 DEF AfterShutdown, AfterSession, Post, histories, LoopInv
  <2>2. SessionsApart'
    BY <2>1 DEF SessionsApart
  <2>3. \A s \in Sessions : left'[s] > 0 => s \in late'
    BY <2>1 DEF PostedInv
  <2>4. late' \subseteq 1..session'
    BY <1>0, <2>1 DEF PostedInv
  <2> QED  BY <2>1, <2>2, <2>3, <2>4 DEF PostedInv
<1>4. CASE IdleMessage \/ IdleQuit
  <2>1. main = "idle" /\ main' \notin {"session", "shutdown"}
        /\ session' = session /\ posted' = posted /\ left' = left /\ late' = late
    BY <1>4 DEF IdleMessage, IdleQuit, Post, histories, units
  <2> QED  BY <1>0, <1>a, <2>1 DEF PostedInv
<1>5. CASE GoodbyeTimeout
  <2>1. main = "posting" /\ main' = "ended"
        /\ session' = session /\ posted' = posted /\ left' = left /\ late' = late
    BY <1>5 DEF GoodbyeTimeout, histories, units
  <2> QED  BY <1>0, <1>a, <2>1 DEF PostedInv
<1>6. ASSUME NEW how \in Outcomes \ {"none"}, EndSession(how) PROVE PostedInv' /\ SessionsApart'
  <2>1. main = "session" /\ main' = "shutdown"
        /\ session' = session /\ posted' = posted /\ left' = left /\ late' = late
    BY <1>6 DEF EndSession, units
  <2> QED  BY <1>0, <1>a, <2>1 DEF PostedInv
<1>7. CASE Make
  <2>1. /\ main = "session" /\ main' = main /\ session' = session /\ session \in Sessions
        /\ posted' = posted /\ late' = late /\ left' = [left EXCEPT ![session] = @ + 1]
    BY <1>7 DEF Make, LoopInv, LoopType, loop, histories
  <2>2. \A t \in Sessions : t # session => left'[t] = left[t]
    BY <2>1 DEF LoopType
  <2> QED  BY <1>0, <1>a, <2>1, <2>2 DEF PostedInv
<1>8. CASE UNCHANGED <<main, session, posted, left, late>>
  BY <1>0, <1>a, <1>8 DEF PostedInv
<1>9. CASE MainPosts \/ Wedge \/ Tick \/ UNCHANGED vars
  BY <1>8, <1>9 DEF MainPosts, Wedge, Tick, vars, loop, units, histories
<1>10. ASSUME NEW s \in Sessions, DispatcherPosts(s) PROVE PostedInv' /\ SessionsApart'
  BY <1>8, <1>10 DEF DispatcherPosts, loop, units, histories
<1>11. ASSUME NEW c \in Callers, Lock(c) \/ Grant(c) PROVE PostedInv' /\ SessionsApart'
  BY <1>8, <1>11 DEF Lock, Grant, loop, units, histories
<1>12. CASE SpawnFails
  <2>1. /\ main = "session" /\ main' = "ended" /\ made[session] = 0
        /\ session' = session /\ posted' = posted /\ left' = left /\ late' = late
    BY <1>12 DEF SpawnFails, histories, units
  <2>2. session \in Sessions /\ ~(left[session] > 0)
    <3>1. session \in Sessions
      BY <2>1 DEF LoopInv, LoopType
    <3>2. left[session] <= made[session] /\ left[session] \in Nat
      BY <1>0, <3>1 DEF TaskInv
    <3> QED  BY <2>1, <3>1, <3>2
  <2> QED  BY <1>0, <1>a, <2>1, <2>2 DEF PostedInv
<1> QED
  BY <1>1, <1>2, <1>3, <1>4, <1>5, <1>6, <1>7, <1>9, <1>10, <1>11, <1>12, ShutdownEnds
  DEF Next, MainStep, Dispatchers
-----------------------------------------------------------------------------
(* The theorems.                                                            *)

LEMMA LifecycleInit == Init => LifecycleInv
<1> SUFFICES ASSUME Init PROVE LifecycleInv
  OBVIOUS
<1>1. queue = <<>> /\ queue \in Seq(Callers) /\ posted = <<>> /\ DOMAIN queue = {} /\ DOMAIN posted = {}
  BY DEF Init
<1>2. MutexInv
  BY <1>1, TimeAssumption DEF Init, MutexInv, IsInjective, ToSet
<1>3. LoopType
  BY TypeInit
<1>4. TaskInv
  BY ConstantFacts DEF Init, TaskInv
<1>5. LoopInv /\ QuitInv
  BY ConstantFacts DEF Init, LoopInv, QuitInv
<1>6. PostedInv
  BY <1>1, ConstantFacts DEF Init, PostedInv
<1>7. SessionsApart
  BY <1>1 DEF SessionsApart
<1> QED
  BY <1>2, <1>3, <1>4, <1>5, <1>6, <1>7 DEF LifecycleInv

LEMMA LifecycleStep == LifecycleInv /\ [Next]_vars => LifecycleInv'
<1> SUFFICES ASSUME LifecycleInv, [Next]_vars PROVE LifecycleInv'
  OBVIOUS
<1> USE DEF LifecycleInv
<1>1. MutexInv'
  BY MutexStep
<1>2. LoopType' /\ TaskInv' /\ LoopInv'
  BY TypeStep, TaskStep, LoopStep
<1>3. QuitInv'
  BY QuitStep
<1>4. PostedInv' /\ SessionsApart'
  BY PostedStep
<1> QED
  BY <1>1, <1>2, <1>3, <1>4

LEMMA LifecycleAlways == Spec => []LifecycleInv
  BY LifecycleInit, LifecycleStep, PTL DEF Spec

LEMMA LimiterFollows == LifecycleInv => LimiterInv
<1> SUFFICES ASSUME MutexInv, LoopType PROVE LimiterInv
  BY DEF LifecycleInv
<1>1. \A c, d \in Callers : phase[c] = "sleeping" /\ phase[d] = "sleeping" => c = d
  BY DEF MutexInv
<1>2. gap = Interval /\ gap \in 0..Interval
  BY TimeAssumption DEF MutexInv
<1>3. TypeOK
  BY <1>1, <1>2 DEF MutexInv, LoopType, TypeOK
<1> QED
  BY <1>2, <1>3 DEF LimiterInv, Spacing

\* The comment of RateLimiter (rate_limiter.rs): whatever tasks share it, and
\* whichever of them give up while they wait, the mutex has one holder and
\* two calls are never let through within the interval.
THEOREM LimiterSpacesCalls == Spec => []LimiterInv
  BY LifecycleAlways, LimiterFollows, PTL

\* run of bridge.rs: the messages of the sessions follow one another in the
\* channel, except for those of a dispatcher whose shutdown timed out.
THEOREM SessionsStayApart == Spec => []SessionsApart
<1>1. LifecycleInv => SessionsApart
  BY DEF LifecycleInv
<1> QED
  BY <1>1, LifecycleAlways, PTL

\* SHUTDOWN_POST_TIMEOUT of bridge.rs: after Ctrl+C in a session the bridge is
\* gone within two timeouts, whatever the platform does.
THEOREM QuitAlwaysPrompt == Spec => []QuitIsPrompt
<1>1. LifecycleInv => QuitIsPrompt
  <2> SUFFICES ASSUME LifecycleInv, main # "ended" PROVE quitting <= 2 * Timeout
    BY DEF QuitIsPrompt
  <2>0. /\ quitting \in Int /\ timer \in Nat /\ Timeout \in Nat /\ 2 * Timeout \in Nat
        /\ Timeout <= 2 * Timeout
    BY TimeAssumption DEF LifecycleInv, LoopType
  <2>1. CASE outcome # "Interrupted"
    <3>1. quitting = -1
      BY <2>1 DEF LifecycleInv, QuitInv
    <3>2. -1 <= 2 * Timeout
      BY <2>0
    <3> QED  BY <3>1, <3>2
  <2>2. CASE main = "shutdown" /\ outcome = "Interrupted"
    <3>1. quitting <= Timeout
      BY <2>0, <2>2, Budgets DEF LifecycleInv, QuitInv
    <3> QED  BY <2>0, <3>1
  <2>3. CASE main = "posting" /\ outcome = "Interrupted"
    BY <2>0, <2>3, Budgets DEF LifecycleInv, QuitInv
  <2> QED  BY <2>1, <2>2, <2>3 DEF LifecycleInv, QuitInv
<1> QED
  BY <1>1, LifecycleAlways, PTL
=============================================================================
