----------------------------- MODULE MCSession -----------------------------
(* Instances of Session for TLC. *)
EXTENDS Session

\* What a comment of the code says of it, and it does not do.

\* run_session and --clear on clear_scroll_buffer: it is called "so we don't
\* repeat already-posted history".  What it clears has been handed over.
ClearedWasPosted == rows.cleared \subseteq Range(rows.handed)
=============================================================================
