------------------------------- MODULE Format -------------------------------
(***************************************************************************)
(* How a message body is sized, cut into pages, extended and shrunk        *)
(* (SlackTranscriptFormat in format.rs, shrink_by_chars in dispatch.rs).   *)
(*                                                                         *)
(* A text is a sequence of symbols; Cost is what the platform counts for   *)
(* one: UTF-16 units, with the entities it escapes.  The three backticks   *)
(* of a fence are one symbol.                                              *)
(***************************************************************************)
EXTENDS Integers, Sequences, SequencesExt, FiniteSetsExt

CONSTANTS
  SizeLimit,  \* SLACK_MESSAGE_SIZE_LIMIT
  Cost,       \* function from symbols to costs
  Newline,    \* a symbol
  Fence,      \* a symbol
  Label,      \* SCROLL_LABEL, a symbol
  Sealed      \* HISTORY_LABEL, a symbol

Symbols == DOMAIN Cost

\* slack_char_cost charges at least one unit.
ASSUME CostAssumption == Cost \in [Symbols -> Nat \ {0}]

ASSUME SymbolAssumption ==
  {Newline, Fence, Label, Sealed} \subseteq Symbols /\ Fence \notin {Newline, Label, Sealed}

Measure(text) ==
  LET sum[n \in 0..Len(text)] == IF n = 0 THEN 0 ELSE sum[n - 1] + Cost[text[n]]
  IN  sum[Len(text)]

FenceOpen  == <<Fence, Newline>>
FenceClose == <<Fence>>

Framed(header, content) == header \o FenceOpen \o content \o FenceClose
Overhead(header)        == Measure(Framed(header, <<>>))

\* The header of a scroll buffer.
ScrollHeader == <<Label, Newline>>

\* The limit of some thousand units leaves room in a scroll buffer.
ASSUME RoomAssumption ==
  SizeLimit \in Nat /\ \A c \in Symbols : Overhead(ScrollHeader) + Cost[c] <= SizeLimit

ScrollBody(rowsText) == Framed(ScrollHeader, rowsText)

\* Only the first label is changed.
LockBody(body) ==
  IF Label \in ToSet(body) THEN [body EXCEPT ![SelectInSeq(body, LAMBDA c : c = Label)] = Sealed]
  ELSE body

\* A body with no fence at its end gets one nevertheless.
ExtendBody(body, rowsText) ==
  (IF IsSuffix(FenceClose, body) THEN Front(body) ELSE body) \o rowsText \o FenceClose

-----------------------------------------------------------------------------
(* Taking a body apart.                                                    *)

NotFenced == <<>>

\* header and content of a body that is a single fenced block.
SplitFenced(body) ==
  LET opens == {i \in 1..(Len(body) - 1) : SubSeq(body, i, i + 1) = FenceOpen}
      open  == Min(opens)
      rest  == SubSeq(body, open + 2, Len(body))
  IN  IF opens = {} \/ ~IsSuffix(FenceClose, rest) \/ Fence \in ToSet(Front(rest)) THEN NotFenced
      ELSE <<SubSeq(body, 1, open - 1), Front(rest)>>

\* Pieces and the one being made.
Nothing == [done |-> <<>>, piece |-> <<>>]
Flush(acc) ==
  IF acc.piece = <<>> THEN acc ELSE [done |-> Append(acc.done, acc.piece), piece |-> <<>>]
Grow(acc, text) == [acc EXCEPT !.piece = @ \o text]

\* The pieces when Take has seen the elements of s one by one.
Gathered(Take(_, _), s) ==
  LET acc[n \in 0..Len(s)] == IF n = 0 THEN Nothing ELSE Take(acc[n - 1], s[n])
  IN  Flush(acc[Len(s)]).done

\* Mutant: the budget is compared with a number of characters.
ExceedsInLength(acc, text, budget) == Len(acc.piece) + Len(text) > budget

\* A text and the piece it is added to exceed the budget.
Exceeds(acc, text, budget) == Measure(acc.piece) + Measure(text) > budget

\* Lines with the newline each ends with.
Lines(text) ==
  LET Take(acc, c) == IF c = Newline THEN Flush(Grow(acc, <<c>>)) ELSE Grow(acc, <<c>>)
  IN  Gathered(Take, text)

\* A line that is too long for a page is cut between characters.
HardSplit(line, budget) ==
  LET Take(acc, c) == Grow(IF Exceeds(acc, <<c>>, budget) THEN Flush(acc) ELSE acc, <<c>>)
  IN  Gathered(Take, line)

\* Whole lines while they fit; a line wider than a page is cut and shares no
\* page with another.
Pieces(text, budget) ==
  LET Take(acc, line) ==
        IF Measure(line) > budget
          THEN [done |-> Flush(acc).done \o HardSplit(line, budget), piece |-> <<>>]
          ELSE Grow(IF Exceeds(acc, line, budget) THEN Flush(acc) ELSE acc, line)
  IN  Gathered(Take, Lines(text))

AtLeastOne(n) == IF n < 1 THEN 1 ELSE n

PaginatePlain(body) == Pieces(body, AtLeastOne(SizeLimit))

PaginateFenced(header, content) ==
  LET pieces == Pieces(content, AtLeastOne(SizeLimit - Overhead(header)))
  IN  IF pieces = <<>> THEN <<Framed(header, <<>>)>>
      ELSE [i \in DOMAIN pieces |-> Framed(header, pieces[i])]

Paginate(body) ==
  LET parts == SplitFenced(body)
  IN  IF Measure(body) <= SizeLimit THEN <<body>>
      ELSE IF parts = NotFenced THEN PaginatePlain(body)
      ELSE PaginateFenced(parts[1], parts[2])

-----------------------------------------------------------------------------
(* Shrinking, when the platform finds a body too long all the same.        *)

CannotShrink == <<>>

\* The longest proper prefix, but not the empty one, that measures at most
\* target.
ShrinkByChars(text, target) ==
  LET fitting == {n \in 1..(Len(text) - 1) : Measure(SubSeq(text, 1, n)) <= target}
  IN  IF fitting = {} THEN CannotShrink ELSE SubSeq(text, 1, Max(fitting))

\* Mutant: the fence is cut off with the end.
ShrinkOpen(body, target) == ShrinkByChars(body, target)

Shrink(body, target) ==
  LET parts   == SplitFenced(body)
      trimmed == ShrinkByChars(parts[2], target - Overhead(parts[1]))
      framed  == Framed(parts[1], trimmed)
  IN  IF parts = NotFenced THEN ShrinkByChars(body, target)
      ELSE IF trimmed = CannotShrink \/ Measure(framed) >= Measure(body) THEN CannotShrink
      ELSE framed

-----------------------------------------------------------------------------
(* Properties, of every text a message is made of.                         *)

\* The pages of a fenced block lose nothing, repeat nothing, each fits and is a
\* block under its header.  A character is not cut, however much its escaped
\* form costs.
BlockPagesFaithful(header, content) ==
  LET pages == Paginate(Framed(header, content))
      parts == [i \in DOMAIN pages |-> SplitFenced(pages[i])]
  IN  /\ \A i \in DOMAIN pages :
           Measure(pages[i]) <= SizeLimit /\ parts[i] # NotFenced /\ parts[i][1] = header
      /\ FlattenSeq([i \in DOMAIN pages |-> parts[i][2]]) = content

\* The same of a text that is no block.
PlainPagesFaithful(text) ==
  LET pages == Paginate(text)
  IN  /\ \A i \in DOMAIN pages : Measure(pages[i]) <= SizeLimit
      /\ FlattenSeq(pages) = text

\* Shrinking makes a body strictly smaller and small enough, keeps its start
\* and closes its fence, so that the retries end and the next extension goes
\* into the block; it gives up only when nothing of the content fits.
ShrinkKeepsBlock(content, target) ==
  LET body    == ScrollBody(content)
      parts   == SplitFenced(body)
      smaller == Shrink(body, target)
      kept    == SplitFenced(smaller)
  IN  IF smaller = CannotShrink
        THEN Len(content) < 2 \/ Overhead(parts[1]) + Cost[content[1]] > target
        ELSE /\ Measure(smaller) <= target /\ Measure(smaller) < Measure(body)
             /\ kept # NotFenced /\ kept[1] = parts[1]
             /\ IsStrictPrefix(kept[2], content)
             /\ ExtendBody(smaller, content) = ScrollBody(kept[2] \o content)

\* The rows of an extended or sealed body are those it had and the new ones.
ExtendKeepsBlock(content, rowsText) ==
  LET body == ExtendBody(ScrollBody(content), rowsText)
  IN  body = ScrollBody(content \o rowsText)
        /\ SplitFenced(LockBody(body)) = <<<<Sealed, Newline>>, content \o rowsText>>
=============================================================================
