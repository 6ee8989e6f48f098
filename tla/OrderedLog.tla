----------------------------- MODULE OrderedLog -----------------------------
(***************************************************************************)
(* What the dispatcher promises to the session, without the messages the   *)
(* promise is kept with: the ordered input appears in the channel without  *)
(* gaps, in order, once and for good; the live screen is one cell, updated *)
(* only when everything received before it has appeared.                   *)
(*                                                                         *)
(* Once a call to the platform has failed the promise is weaker: input may *)
(* be missing or cut off again and the live screen out of date, but what   *)
(* appears for the first time still does so in order.                      *)
(***************************************************************************)
EXTENDS Naturals

CONSTANTS Texts, NoText

VARIABLES
  sent,     \* positions handed over
  received, \* positions the dispatcher has received
  visible,  \* positions in the channel
  appeared, \* positions that have ever been in the channel
  want,     \* the newest live screen received
  screen,   \* the live screen in the channel, NoText for none
  broken    \* a call to the platform has failed

Init ==
  /\ sent = 0 /\ received = 0 /\ visible = {} /\ appeared = {}
  /\ want = NoText /\ screen = NoText /\ broken = FALSE

HandOver ==
  /\ sent' > sent
  /\ UNCHANGED <<received, visible, want, screen>>

\* The positions of one message, and possibly a live screen that replaces the
\* last one even if it was never shown.
Receive ==
  /\ received' \in received..sent
  /\ want' \in {want} \cup Texts
  /\ UNCHANGED <<sent, visible, screen>>

\* Appearing is a prefix that grows; the live screen may go, since its message
\* is turned into scrollback or left behind.
Appear ==
  /\ \E n \in 1..received : visible' = 1..n /\ visible \subseteq visible'
  /\ screen' \in {screen, NoText}
  /\ UNCHANGED <<sent, received, want>>

Hide ==
  /\ screen' = NoText
  /\ UNCHANGED <<sent, received, visible, want>>

Show ==
  /\ want # NoText /\ visible = 1..received
  /\ screen' = want
  /\ UNCHANGED <<sent, received, visible, want>>

Whole == HandOver \/ Receive \/ Appear \/ Hide \/ Show

\* What appears for the first time stands after all that ever appeared.
Degraded ==
  /\ sent' >= sent /\ received' \in received..sent'
  /\ visible' \subseteq 1..sent'
  /\ \A u \in visible' \ appeared, v \in appeared : v < u
  /\ want' \in Texts \cup {NoText} /\ screen' \in Texts \cup {NoText}

Next ==
  /\ appeared' = appeared \cup visible'
  /\ (~broken' /\ Whole) \/ (broken' /\ Degraded)

Spec == Init /\ [][Next]_<<sent, received, visible, appeared, want, screen, broken>>
=============================================================================
