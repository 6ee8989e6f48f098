------------------------------- MODULE MCText -------------------------------
(* The pure parts of the bridge on bounded inputs: each input is a state.   *)
EXTENDS Inputs

UpTo(n, S) == UNION {[1..k -> S] : k \in 0..n}

-----------------------------------------------------------------------------
\* An emoji is two UTF-16 units, an ampersand five characters when escaped.
\* A page takes five characters or so beside its framing.
MCCost == [a |-> 1, emoji |-> 2, amp |-> 5, nl |-> 1, fence |-> 3, label |-> 2, sealed |-> 2]
MCLimit == 15
MCTargets == 0..(3 * MCLimit)
MCRows == {<<>>, <<"amp">>}

Texts == {[of |-> "Format", content |-> c] : c \in UpTo(6, {"a", "emoji", "amp", "nl"})}

-----------------------------------------------------------------------------
\* One or two of each kind of unit.
MCBytes == {
  <<"m">>, <<"1">>, <<"C3", "A9">>, <<"ESC", "m">>,
  <<"ESC", "[", "m">>, <<"ESC", "[", "1", "1", "]">>, <<"ESC", "[", "1", " ", "m">>,
  <<"ESC", "]", "m", "[", "BEL">>, <<"ESC", "]", "1", "ESC", "\\">>,
  <<"ESC", "]", "C3", "A9", "BEL">>, <<"ESC", "]", "ESC", "m">> }
MCUnits ==
  {u \in UnitsOf({<<>>, <<"1">>, <<"1", "1">>}, {<<>>, <<" ">>},
                 {<<>>, <<"1">>, <<"m", "[">>, <<"C3", "A9">>}) : u.bytes \in MCBytes}

Places(units) == 1..Len(BytesOf(units))
Streams ==
  UNION {[of : {"Parser"}, units : {units}, cuts : SUBSET Places(units)] : units \in UpTo(2, MCUnits)}

-----------------------------------------------------------------------------
\* Bytes of eight values, so that a token of nine does not fit its length.
MCBase == 8
MCMaxPayload == 16

Token(n) == [i \in 1..n |-> i % MCBase]
MCMessages ==
  {[tag |-> "Hello", version |-> 1, cols |-> 9, rows |-> 3, token |-> Token(n)] : n \in {2, 9}}
    \cup {[tag |-> "HelloOk"], [tag |-> "Goodbye"], [tag |-> "Resize", cols |-> 63, rows |-> 0]}
    \cup {[tag |-> t, bytes |-> b] : t \in {"Output", "Input"},
                                     b \in {<<>>, <<3, 0, 0, 0, 1, 7>>, Token(17)}}
Connections ==
  UNION {[of : {"Frames"}, msgs : {msgs}, cut : 0..Len(Wire(msgs))] : msgs \in [1..2 -> MCMessages]}

-----------------------------------------------------------------------------
\* 4096 stands for the largest u32.
MCMaxRepeat == 1000
MCMaxNumber == 4096

\* A letter that is a modifier may be a key too.
MCSpellings == {s \in Spellings : s.seg \in {Name("ctrl"), Letter(99), Name("option"), Letter(109), Letter(115)}}
AllHeld     == {w \in [1..3 -> MCSpellings] : Held(w) = Modifiers /\ w[1].seg = Letter(99)}

Counts  == {<<>>, <<48>>, <<49>>, <<53>>, <<49, 48>>, <<49, 48, 48, 49>>, <<57, 57, 57, 57>>}
Presses ==
  [of : {"Commands"}, key : Keys, words : UpTo(2, MCSpellings) \cup AllHeld, digits : Counts]

-----------------------------------------------------------------------------
Init == input \in Texts \cup Streams \cup Connections \cup Presses
Next == UNCHANGED input

Spec == Init /\ [][Next]_input
=============================================================================
