------------------------------- MODULE Inputs -------------------------------
(* The properties of Format, Parser, Frames and Commands, of one input.    *)
EXTENDS Format, Parser, Frames, Commands

CONSTANTS
  Targets,  \* sizes a body is to be shrunk to
  Rows      \* texts a body is extended with

\* What is fenced in has no fence.
Contents == Seq(Symbols \ {Fence})

ASSUME InputAssumption == Targets \subseteq Nat /\ Rows \subseteq Contents

VARIABLE input  \* of which module, and what

\* Pages fit and give the text back, in blocks with and without a header, and
\* outside of a block: paginate of SlackTranscriptFormat.
PagesFaithful ==
  input.of = "Format" =>
    /\ \A header \in {<<>>, ScrollHeader} : BlockPagesFaithful(header, input.content)
    /\ PlainPagesFaithful(input.content)

\* Bodies remain blocks when they are shrunk to any size, extended and sealed:
\* shrink, extend_body and lock_body.
BodiesKeepShape ==
  input.of = "Format" =>
    /\ \A target \in Targets : ShrinkKeepsBlock(input.content, target)
    /\ \A rows \in Rows \cup {input.content} : ExtendKeepsBlock(input.content, rows)

\* However the bytes of well-formed units are cut into chunks, after each chunk the
\* screen has been asked for what the complete units say and the rest is kept:
\* find_process_end, and process with its carry.
SplitIndependent ==
  input.of = "Parser" => CutsDoNotMatter(input.units, input.cuts)

\* A reader gets the frames that arrived whole and nothing else: write_frame and
\* read_frame of the attach protocol.
WholeFramesOnly ==
  input.of = "Frames" => FramesWhole(input.msgs, input.cut)

\* Every key press, however it is spelled, is understood as it was meant, and the
\* program at the other end can tell it from any other: parse_key_combo, encode_key.
KeysUnderstood ==
  input.of = "Commands" =>
    /\ PressUnderstood(input.key, input.words, input.digits)
    /\ KeyDistinct(input.key, Held(input.words))
=============================================================================
