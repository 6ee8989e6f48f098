------------------------------- MODULE Parser -------------------------------
(***************************************************************************)
(* From the bytes of the PTY to what the virtual screen is asked to do     *)
(* (process, find_process_end and process_tui in renderer.rs).  The bytes  *)
(* come in chunks that are cut anywhere; what is incomplete at the end of  *)
(* one is carried to the next.                                             *)
(*                                                                         *)
(* A byte stands for its class: "1" and " " for the parameter and          *)
(* intermediate bytes of a control sequence, "m" for its final bytes (of   *)
(* which "[", "]" and "\\" have other uses too), "C3" and "A9" for the two *)
(* bytes of a character.                                                   *)
(***************************************************************************)
EXTENDS Integers, Sequences, SequencesExt, FiniteSetsExt

Parameter    == {"1"}
Intermediate == {" "}
Final        == {"m", "[", "]", "\\"}
Bytes        == Parameter \cup Intermediate \cup Final \cup {"BEL", "ESC", "C3", "A9"}
Chars        == Bytes \cup {"e-acute", "U+FFFD"}

\* The first place from i on where s has one of some bytes or characters, one
\* past the end if there is none.
FirstOf(s, i, some) == Min({j \in i..Len(s) : s[j] \in some} \cup {Len(s) + 1})

-----------------------------------------------------------------------------
(* find_process_end: how far the bytes are complete.                       *)

Incomplete == 0

\* Just past the bell, or past the escape that ends the string; what follows
\* the escape has to be seen.
StringEnd(bytes, start) ==
  LET j == FirstOf(bytes, start, {"BEL", "ESC"})
  IN  IF j > Len(bytes) \/ (bytes[j] = "ESC" /\ j = Len(bytes)) THEN Incomplete
      ELSE IF bytes[j] = "ESC" /\ bytes[j + 1] = "\\" THEN j + 1 ELSE j

\* A byte that cannot stand in a control sequence ends it and is not part of it.
ControlEnd(bytes, start) ==
  LET j == FirstOf(bytes, start, Bytes \ (Parameter \cup Intermediate))
  IN  IF j > Len(bytes) THEN Incomplete ELSE IF bytes[j] \in Final THEN j ELSE j - 1

\* The last byte of the unit that begins at i.
UnitEnd(bytes, i) ==
  LET next == IF i < Len(bytes) THEN bytes[i + 1] ELSE "none"
  IN  IF bytes[i] \notin {"ESC", "C3"} THEN i
      ELSE IF next = "none" THEN Incomplete
      ELSE IF bytes[i] = "ESC" /\ next = "[" THEN ControlEnd(bytes, i + 2)
      ELSE IF bytes[i] = "ESC" /\ next = "]" THEN StringEnd(bytes, i + 2)
      ELSE i + 1

\* The loop of find_process_end: past one more unit, if there is a complete one.
Skip(bytes, done) ==
  IF done = Len(bytes) \/ UnitEnd(bytes, done + 1) = Incomplete THEN done
  ELSE UnitEnd(bytes, done + 1)

ProcessEnd(bytes) ==
  LET after[n \in 0..Len(bytes)] == IF n = 0 THEN 0 ELSE Skip(bytes, after[n - 1])
  IN  after[Len(bytes)]

-----------------------------------------------------------------------------
(* from_utf8_lossy and process_tui                                         *)

\* The character that begins with the i-th byte, if one does.
CharAt(bytes, i) ==
  CASE bytes[i] = "C3" /\ i < Len(bytes) /\ bytes[i + 1] = "A9" -> <<"e-acute">>
    [] bytes[i] = "A9" /\ i > 1 /\ bytes[i - 1] = "C3"          -> <<>>
    [] OTHER -> <<IF bytes[i] \in {"C3", "A9"} THEN "U+FFFD" ELSE bytes[i]>>

FromUtf8(bytes) == FlattenSeq([i \in DOMAIN bytes |-> CharAt(bytes, i)])

Put(c)             == [do |-> "put_char", char |-> c]
Csi(params, final) == [do |-> "handle_csi", params |-> params, final |-> final]
Escape(c)          == [do |-> "escape", char |-> c]

\* skip_string_body: the place after the string.
AfterString(chars, start) ==
  LET j == FirstOf(chars, start, {"BEL", "ESC"})
  IN  IF j < Len(chars) /\ chars[j] = "ESC" /\ chars[j + 1] = "\\" THEN j + 2 ELSE j + 1

\* One turn of the loop of process_tui, from the character after the done ones.
Obey(chars, screen) ==
  LET i == screen.done + 1
      Went(end)        == [screen EXCEPT !.done = end]
      Asked(end, what) == [done |-> end, events |-> Append(screen.events, what)]
  IN  IF i > Len(chars) THEN screen
      ELSE IF chars[i] # "ESC" THEN Asked(i, Put(chars[i]))
      ELSE IF i = Len(chars) THEN Went(i)
      ELSE IF chars[i + 1] = "[" THEN
        LET j == FirstOf(chars, i + 2, Chars \ Parameter)
            k == FirstOf(chars, j, Chars \ Intermediate)
        IN  IF k > Len(chars) THEN Went(k) ELSE Asked(k, Csi(SubSeq(chars, i + 2, j - 1), chars[k]))
      ELSE IF chars[i + 1] = "]" THEN Went(AfterString(chars, i + 2) - 1)
      ELSE Asked(i + 1, Escape(chars[i + 1]))

Events(chars) ==
  LET after[n \in 0..Len(chars)] ==
        IF n = 0 THEN [done |-> 0, events |-> <<>>] ELSE Obey(chars, after[n - 1])
  IN  after[Len(chars)].events

\* Mutant: nothing is carried over.
ProcessAll(stage, chunk) ==
  [carry |-> <<>>, events |-> stage.events \o Events(FromUtf8(chunk))]

\* What is carried so far and what has been done, and the next chunk.
Process(stage, chunk) ==
  LET bytes == stage.carry \o chunk
      end   == ProcessEnd(bytes)
  IN  [carry  |-> SubSeq(bytes, end + 1, Len(bytes)),
       events |-> stage.events \o Events(FromUtf8(SubSeq(bytes, 1, end)))]

-----------------------------------------------------------------------------
(* Properties, of the streams that consist of well-formed units.           *)

\* A unit is its bytes and what it asks for: a character, an escape, a control
\* sequence, a string (which asks for nothing) with one of its two ends, and one
\* that is broken off by an escape, whose next byte is then a character.
Unit(bytes, asks) == [bytes |-> bytes, asks |-> asks]
Plain == Bytes \ {"ESC", "C3", "A9"}

Characters    == {Unit(<<b>>, <<Put(b)>>) : b \in Plain}
                   \cup {Unit(<<"C3", "A9">>, <<Put("e-acute")>>)}
Escapes       == {Unit(<<"ESC", b>>, <<Escape(b)>>) : b \in Bytes \ {"[", "]", "C3", "A9"}}

Control(p, i, f)          == Unit(<<"ESC", "[">> \o p \o i \o <<f>>, <<Csi(p, f)>>)
Controls(params, between) == {Control(p, i, f) : p \in params, i \in between, f \in Final}

String(s, end, asks) == Unit(<<"ESC", "]">> \o s \o end, asks)
Strings(bodies)      == {String(s, end, <<>>) : s \in bodies, end \in {<<"BEL">>, <<"ESC", "\\">>}}

BrokenOff(s, b)    == String(s, <<"ESC", b>>, <<Put(b)>>)
Abandoned(bodies)  == {BrokenOff(s, b) : s \in bodies, b \in Plain \ {"\\"}}

UnitsOf(params, between, bodies) ==
  Characters \cup Escapes \cup Controls(params, between) \cup Strings(bodies) \cup Abandoned(bodies)

\* All that is well-formed.
Units == UnitsOf(Seq(Parameter), Seq(Intermediate), Seq(Bytes \ {"BEL", "ESC"}))

BytesOf(units) == FlattenSeq([i \in DOMAIN units |-> units[i].bytes])
AsksOf(units)  == FlattenSeq([i \in DOMAIN units |-> units[i].asks])

\* After each byte: the stage, and the chunk that is being filled, when a chunk
\* ends at every place in cuts.
Reading(bytes, cuts) ==
  LET at[p \in 0..Len(bytes)] ==
        IF p = 0 THEN [stage |-> [carry |-> <<>>, events |-> <<>>], chunk |-> <<>>]
        ELSE LET before == at[p - 1]
                 chunk  == Append(before.chunk, bytes[p])
             IN  IF p \in cuts THEN [stage |-> Process(before.stage, chunk), chunk |-> <<>>]
                 ELSE [before EXCEPT !.chunk = chunk]
  IN  at

\* However the stream is cut into chunks, after each of them the screen has been
\* asked for what the complete units say, nothing of a unit was printed, and the
\* bytes of the incomplete one are kept.
CutsDoNotMatter(units, cuts) ==
  LET bytes   == BytesOf(units)
      Upto(n) == Len(BytesOf(SubSeq(units, 1, n)))
  IN  \A p \in cuts :
        LET stage == Reading(bytes, cuts)[p].stage
            whole == Max({n \in 0..Len(units) : Upto(n) <= p})
        IN  /\ stage.events = AsksOf(SubSeq(units, 1, whole))
            /\ stage.carry = SubSeq(bytes, Upto(whole) + 1, p)
=============================================================================
