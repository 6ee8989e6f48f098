------------------------------ MODULE Commands ------------------------------
(***************************************************************************)
(* Key presses typed as chat commands, such as --ctrl+left3 (commands.rs): *)
(* how one is parsed and which bytes it sends to the terminal.             *)
(*                                                                         *)
(* What follows the dashes is a sequence of segments, the parts between    *)
(* plus signs; a segment is its word and the digits at its end.  A word of *)
(* one character is that character's code, as a sequence of length one.    *)
(***************************************************************************)
EXTENDS Integers, Sequences, SequencesExt, FiniteSetsExt

CONSTANTS
  MaxRepeat,  \* MAX_KEY_REPEAT
  MaxNumber   \* largest u32

\* Every function key has a number, and a press may happen.
ASSUME PressAssumption == MaxRepeat \in Nat \ {0} /\ MaxNumber \in Nat /\ MaxNumber >= 12

\* Codes of the digits, letters and other characters on the keyboard.
Digits     == 48..57
LowerCase  == 97..122
Printables == 33..126 \ 65..90
Plus       == 43

LetterKeys == [up |-> 65, down |-> 66, right |-> 67, left |-> 68, home |-> 72, end |-> 70]
TildeKeys  == [insert |-> 2, delete |-> 3, pageup |-> 5, pagedown |-> 6]
ByteKeys   == {"tab", "esc", "enter", "space", "backspace"}
Functions  == 1..12
TildeOfF   == <<0, 0, 0, 0, 15, 17, 18, 19, 20, 21, 23, 24>>

Char(c)  == [kind |-> "Char", code |-> c]
Named(n) == [kind |-> "Named", name |-> n]
F(n)     == [kind |-> "F", code |-> n]

Names == DOMAIN LetterKeys \cup DOMAIN TildeKeys \cup ByteKeys
Keys  == {Char(c) : c \in Printables} \cup {Named(n) : n \in Names} \cup {F(n) : n \in Functions}

NoKey == [kind |-> "none"]

-----------------------------------------------------------------------------
(* Parsing.                                                                *)

\* A segment has a word that is a name or, in a sequence, the code of one
\* character, and the codes of the digits after it.
Segment(name, chars, digits) == [name |-> name, chars |-> chars, digits |-> digits]
Name(n)      == Segment(n, <<>>, <<>>)
Letter(c)    == Segment("", <<c>>, <<>>)
Empty        == Segment("", <<>>, <<>>)
HasWord(seg) == seg.name # "" \/ seg.chars # <<>>
Codes(seg)   == seg.chars \o seg.digits

\* What digits stand for, or a number that is too wide.
OneDigitMore(n, digit) == IF n > MaxNumber THEN n ELSE n * 10 + (digit - 48)
Value(digits) ==
  LET upto[i \in 0..Len(digits)] == IF i = 0 THEN 0 ELSE OneDigitMore(upto[i - 1], digits[i])
  IN  upto[Len(digits)]

\* parse_key_name: a single character is itself, digits after an f may make a
\* function key.
ParseKeyName(seg) ==
  IF seg.name = "" /\ Len(Codes(seg)) = 1 THEN Char(Codes(seg)[1])
  ELSE IF seg.chars = <<102>> /\ Value(seg.digits) \in Functions THEN F(Value(seg.digits))
  ELSE IF seg.name \in Names /\ seg.digits = <<>> THEN Named(seg.name)
  ELSE NoKey

NoPress == [key |-> NoKey, mods |-> {}, count |-> 0]

\* Mutant: the count is peeled off before the whole is tried as a name.
ParseKeyCountFirst(seg) ==
  LET count == Value(seg.digits)
      key   == ParseKeyName([seg EXCEPT !.digits = <<>>])
  IN  IF seg.digits = <<>> THEN <<ParseKeyName(seg), 1>>
      ELSE IF ~HasWord(seg) \/ count \notin 1..MaxNumber THEN <<NoKey, 0>>
      ELSE <<key, Min({count, MaxRepeat})>>

\* parse_key_with_count: the whole is tried as a name first, then the digits
\* are a count, which is cut at the maximum and may not be 0 or too wide.
ParseKeyWithCount(seg) ==
  LET whole == ParseKeyName(seg)
      count == Value(seg.digits)
      key   == ParseKeyName([seg EXCEPT !.digits = <<>>])
  IN  IF whole # NoKey THEN <<whole, 1>>
      ELSE IF seg.digits = <<>> \/ ~HasWord(seg) \/ count \notin 1..MaxNumber THEN <<NoKey, 0>>
      ELSE <<key, Min({count, MaxRepeat})>>

Modifiers == {"ctrl", "alt", "shift"}
Aliases == [
  ctrl  |-> {Name("ctrl"), Name("control"), Letter(99)},
  alt   |-> {Name("alt"), Name("meta"), Name("opt"), Name("option"), Letter(97), Letter(109)},
  shift |-> {Name("shift"), Letter(115)}]

\* Without the plus signs at the end.
TrimmedEnd(segs) == SubSeq(segs, 1, Max({i \in DOMAIN segs : segs[i] # Empty} \cup {0}))

\* parse_key_combo: the last segment is the key, the others are modifiers.
\* What ends in a plus sign means the key of that name.
ParseKeyCombo(segs) ==
  LET plus  == Len(segs) > 1 /\ Last(segs) = Empty /\ segs # <<Empty, Empty>>
      front == IF plus THEN TrimmedEnd(segs) ELSE Front(segs)
      mods  == IF front = <<Empty>> THEN <<>> ELSE front
      press == IF plus THEN <<Char(Plus), 1>> ELSE ParseKeyWithCount(Last(segs))
  IN  IF press[1] = NoKey \/ (\E i \in DOMAIN mods : \A m \in Modifiers : mods[i] \notin Aliases[m])
      THEN NoPress
      ELSE [key |-> press[1], count |-> press[2],
            mods |-> {m \in Modifiers : \E i \in DOMAIN mods : mods[i] \in Aliases[m]}]

-----------------------------------------------------------------------------
(* Encoding.                                                               *)

Esc == 27
NoBytes == <<>>

CsiParam(mods) ==
  1 + (IF "shift" \in mods THEN 1 ELSE 0) + (IF "alt" \in mods THEN 2 ELSE 0)
    + (IF "ctrl" \in mods THEN 4 ELSE 0)

AltPrefixed(bytes, mods) == IF "alt" \in mods THEN <<Esc>> \o bytes ELSE bytes

Upper(c) == IF c \in LowerCase THEN c - 32 ELSE c

\* The control byte of a character, NoBytes if it has none.
CtrlByte(c) ==
  CASE Upper(c) \in 64..95 -> <<Upper(c) % 32>> [] c = 32 -> <<0>> [] c = 63 -> <<127>>
    [] OTHER -> NoBytes

EncodeChar(c, mods) ==
  LET shifted == IF "shift" \in mods THEN Upper(c) ELSE c
      bytes   == IF "ctrl" \in mods THEN CtrlByte(shifted) ELSE <<shifted>>
  IN  IF bytes = NoBytes THEN NoBytes ELSE AltPrefixed(bytes, mods)

\* ESC [, a number that may be missing, the modifiers, the final byte; a number
\* and a parameter count as one byte each.
EncodeCsi(number, final, mods) ==
  IF mods = {} THEN <<Esc, 91>> \o (IF number = 1 THEN <<>> ELSE <<number>>) \o <<final>>
  ELSE <<Esc, 91, number, 59, CsiParam(mods), final>>

EncodeNamed(name, mods) ==
  CASE name = "tab"       -> IF "shift" \in mods THEN <<Esc, 91, 90>> ELSE AltPrefixed(<<9>>, mods)
    [] name = "enter"     -> AltPrefixed(<<13>>, mods)
    [] name = "esc"       -> AltPrefixed(<<Esc>>, mods)
    [] name = "backspace" -> AltPrefixed(<<IF "ctrl" \in mods THEN 8 ELSE 127>>, mods)
    [] name = "space"     -> EncodeChar(32, mods)
    [] name \in DOMAIN LetterKeys -> EncodeCsi(1, LetterKeys[name], mods)
    [] OTHER -> EncodeCsi(TildeKeys[name], 126, mods)

\* F1 to F4 are ESC O and a letter when unmodified.
EncodeF(n, mods) ==
  IF n > 4 THEN EncodeCsi(TildeOfF[n], 126, mods)
  ELSE IF mods = {} THEN <<Esc, 79, 79 + n>> ELSE EncodeCsi(1, 79 + n, mods)

EncodeKey(key, mods) ==
  CASE key.kind = "Char" -> EncodeChar(key.code, mods)
    [] key.kind = "Named" -> EncodeNamed(key.name, mods)
    [] OTHER -> EncodeF(key.code, mods)

-----------------------------------------------------------------------------
(* Properties.                                                             *)

\* A modifier and one of its names.
Spellings == UNION {{[means |-> m, seg |-> a] : a \in Aliases[m]} : m \in Modifiers}

\* How a user spells a key, with a count if wanted.
KeySegment(key, digits) ==
  CASE key.kind = "Named" -> Segment(key.name, <<>>, digits)
    [] key.kind = "F" ->
         Segment("", <<102>>, IF key.code < 10 THEN <<48 + key.code>> ELSE <<49, 38 + key.code>>)
    [] key.kind = "Char" /\ key.code \in Digits -> Segment("", <<>>, <<key.code>>)
    [] OTHER -> Segment("", <<key.code>>, digits)

\* And a press: the modifiers in any order and by any of their names, then the key.
Segments(words) == [i \in DOMAIN words |-> words[i].seg]
Spell(key, words, digits) ==
  Segments(words)
    \o (IF key = Char(Plus) THEN <<Empty, Empty>> ELSE <<KeySegment(key, digits)>>)

\* A count can be added to every key but a function key, a digit, the plus sign
\* and the letter f.
TakesCount(key) ==
  key.kind = "Named" \/ (key.kind = "Char" /\ key.code \notin Digits \cup {Plus, 102})

Held(words) == {words[i].means : i \in DOMAIN words}

\* Every press can be typed, with every modifier, and is parsed as the key, the
\* modifiers and the count the user meant: a function key is never the letter f
\* repeated, a digit never a count, a plus sign never a separator.
PressUnderstood(key, words, digits) ==
  LET count == IF digits = <<>> THEN 1 ELSE Value(digits)
      press == [key |-> key, mods |-> Held(words), count |-> Min({count, MaxRepeat})]
  IN  (digits # <<>> => TakesCount(key)) /\ (key = Char(Plus) => words # <<>>)
        => ParseKeyCombo(Spell(key, words, digits)) =
             IF count \in 1..MaxNumber THEN press ELSE NoPress

\* Pairs of keys that have always been the same control byte on a terminal.
SameControl == {{Named("tab"), Char(105)}, {Named("enter"), Char(109)}, {Named("esc"), Char(91)},
                {Named("backspace"), Char(104)}, {Named("space"), Char(64)}}

\* Under the same modifiers no two keys send the same bytes, those pairs with
\* ctrl excepted: the program at the other end can tell what was pressed.
KeyDistinct(key, mods) ==
  \A other \in Keys \ {key} :
    EncodeKey(key, mods) = EncodeKey(other, mods) /\ EncodeKey(key, mods) # NoBytes
      => "ctrl" \in mods /\ {key, other} \in SameControl
=============================================================================
