----------------------------- MODULE MCAttach -----------------------------
(* Instances of Attach for TLC. *)
EXTENDS Attach, SequencesExt

\* What a comment of the code says of it, and it does not do.

Titles(c) ==
  SelectSeq([i \in DOMAIN shown[c] |-> TitleOf(shown[c][i])], LAMBDA t : t # 0)

\* set_title: "Newly-connecting clients will receive this frame right after
\* HelloOk; already-connected clients receive it via the normal broadcast".  A
\* client that has shown all there is shows the latched title.
TitleCurrent ==
  \A c \in Clients :
    cli[c].at = "on" /\ Idle(c) /\ srv[c].cursor = Len(log) /\ down[c] = <<>>
      /\ titling = 0 /\ latch # 0
      => Titles(c) # <<>> /\ Last(Titles(c)) = latch
=============================================================================
