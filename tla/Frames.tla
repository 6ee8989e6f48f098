------------------------------- MODULE Frames -------------------------------
(***************************************************************************)
(* The wire format between the attach server and its clients               *)
(* (protocol.rs): a tag, the length in four bytes, the payload.  A byte is *)
(* a number below Base (256 in the code), so that widths stay visible.     *)
(***************************************************************************)
EXTENDS Integers, Sequences, SequencesExt, FiniteSetsExt

CONSTANTS
  Base,       \* number of values of a byte
  MaxPayload  \* MAX_PAYLOAD

Tags == [Hello |-> 1, HelloOk |-> 2, Output |-> 3, Input |-> 4, Resize |-> 5, Goodbye |-> 6]

ASSUME BaseAssumption == Base \in Nat /\ \A t \in DOMAIN Tags : Tags[t] < Base

\* A length fits in four bytes.
ASSUME PayloadAssumption == MaxPayload \in Nat /\ MaxPayload < Base * Base * Base * Base

Byte == 0..(Base - 1)
Word == 0..(Base * Base - 1)

Messages ==
  [tag : {"Hello"}, version : Byte, cols : Word, rows : Word, token : Seq(Byte)]
    \cup [tag : {"Output", "Input"}, bytes : Seq(Byte)]
    \cup [tag : {"Resize"}, cols : Word, rows : Word]
    \cup [tag : {"HelloOk", "Goodbye"}]

\* Big-endian, in a number of bytes; what does not fit is cut off.
BigEndian(n, width) ==
  LET high[k \in 0..width] == IF k = 0 THEN n ELSE high[k - 1] \div Base
  IN  [i \in 1..width |-> high[width - i] % Base]

Number(bytes) ==
  LET value[k \in 0..Len(bytes)] == IF k = 0 THEN 0 ELSE value[k - 1] * Base + bytes[k]
  IN  value[Len(bytes)]

\* The payload.
Encode(msg) ==
  CASE msg.tag = "Hello" ->
         BigEndian(msg.version, 1) \o BigEndian(msg.cols, 2) \o BigEndian(msg.rows, 2)
           \o BigEndian(Len(msg.token), 1) \o msg.token
    [] msg.tag \in {"Output", "Input"} -> msg.bytes
    [] msg.tag = "Resize" -> BigEndian(msg.cols, 2) \o BigEndian(msg.rows, 2)
    [] OTHER -> <<>>

Malformed == [tag |-> "error"]

\* Part of a payload, from its i-th byte.
Field(buf, i, width) == SubSeq(buf, i, i + width - 1)

Decode(tag, buf) ==
  CASE tag = "Hello" ->
         IF Len(buf) < 6 \/ Len(buf) # 6 + buf[6] THEN Malformed
         ELSE [tag |-> "Hello", version |-> buf[1], cols |-> Number(Field(buf, 2, 2)),
               rows |-> Number(Field(buf, 4, 2)), token |-> Field(buf, 7, buf[6])]
    [] tag \in {"Output", "Input"} -> [tag |-> tag, bytes |-> buf]
    [] tag = "Resize" ->
         IF Len(buf) # 4 THEN Malformed
         ELSE [tag |-> "Resize", cols |-> Number(Field(buf, 1, 2)), rows |-> Number(Field(buf, 3, 2))]
    [] OTHER -> [tag |-> tag]

\* What is put on the wire; a payload that is too large is refused.
WriteFrame(msg) ==
  LET payload == Encode(msg)
  IN  IF Len(payload) > MaxPayload THEN <<>>
      ELSE <<Tags[msg.tag]>> \o BigEndian(Len(payload), 4) \o payload

EndOfStream == [tag |-> "none"]

\* Mutant: a frame whose payload is cut short is taken as it is.
ReadFrameShort(wire) ==
  LET tag  == CHOOSE t \in DOMAIN Tags : Tags[t] = wire[1]
      len  == Number(Field(wire, 2, 4))
      here == IF Len(wire) < 5 + len THEN Len(wire) - 5 ELSE len
  IN  IF Len(wire) < 5 THEN [msg |-> EndOfStream, rest |-> <<>>]
      ELSE IF wire[1] \notin {Tags[t] : t \in DOMAIN Tags} THEN [msg |-> Malformed, rest |-> <<>>]
      ELSE [msg |-> Decode(tag, Field(wire, 6, here)), rest |-> SubSeq(wire, 6 + here, Len(wire))]

\* The first message of what the peer wrote before it closed the connection,
\* and the bytes after it.  A header that is cut short is a clean end.
ReadFrame(wire) ==
  LET tag == CHOOSE t \in DOMAIN Tags : Tags[t] = wire[1]
      len == Number(Field(wire, 2, 4))
  IN  IF Len(wire) < 5 THEN [msg |-> EndOfStream, rest |-> <<>>]
      ELSE IF \/ wire[1] \notin {Tags[t] : t \in DOMAIN Tags}
              \/ len > MaxPayload \/ Len(wire) < 5 + len
        THEN [msg |-> Malformed, rest |-> <<>>]
      ELSE [msg |-> Decode(tag, Field(wire, 6, len)), rest |-> SubSeq(wire, 6 + len, Len(wire))]

\* One turn of the loop of a reader, which ends with the stream or when it goes
\* wrong.
Turn(reader) ==
  LET read == ReadFrame(reader.rest)
  IN  IF read.msg \in {EndOfStream, Malformed} THEN reader
      ELSE [msgs |-> Append(reader.msgs, read.msg), rest |-> read.rest]

\* What a reader gets; no frame is empty.
ReadAll(wire) ==
  LET after[n \in 0..Len(wire)] ==
        IF n = 0 THEN [msgs |-> <<>>, rest |-> wire] ELSE Turn(after[n - 1])
  IN  after[Len(wire)].msgs

Fits(msg)       == Len(Encode(msg)) <= MaxPayload
ShortToken(msg) == msg.tag = "Hello" => Len(msg.token) < Base

\* The messages of a sequence that are written, and the bytes.
Sent(msgs) == FlattenSeq([i \in DOMAIN msgs |-> IF Fits(msgs[i]) THEN <<msgs[i]>> ELSE <<>>])
Wire(msgs) == FlattenSeq([i \in DOMAIN msgs |-> WriteFrame(msgs[i])])

\* Wherever the connection breaks, the reader has taken exactly the frames that
\* arrived whole, in order, each as it was sent, and none made of the rest; a
\* token whose length does not fit its byte is refused and never cut.
FramesWhole(msgs, cut) ==
  LET sent     == Sent(msgs)
      Size(n)  == Len(Wire(SubSeq(sent, 1, n)))
      Whole(n) == Size(n) <= cut /\ \A i \in 1..n : ShortToken(sent[i])
  IN  ReadAll(SubSeq(Wire(msgs), 1, cut)) =
        SubSeq(sent, 1, Max({n \in 0..Len(sent) : Whole(n)}))
=============================================================================
