------------------------------ MODULE Renderer ------------------------------
(***************************************************************************)
(* The virtual screen behind the live frame (renderer.rs): a grid of       *)
(* characters and, beside it, a grid of inverse flags; rows that scroll    *)
(* off the top go to the ring the bridge drains into the transcript; a     *)
(* full-screen program draws on an alternate screen that is thrown away.   *)
(*                                                                         *)
(* A cell holds the number of the character written there, the same for    *)
(* one character wherever an operation moves it, or Blank.  Cursors count  *)
(* from 1.  Each action is one complete unit of the output; how a chunked  *)
(* stream is cut into units is Parser.                                     *)
(***************************************************************************)
EXTENDS Integers, Sequences, FiniteSets, SequencesExt

CONSTANTS
  Sizes,      \* sizes <<rows, cols>> the screen may be given
  StartSize,  \* the size it starts with
  Maxima,     \* values of the setting scroll_buffer
  Steps,      \* numbers in the control sequences that move the cursor
  Counts,     \* numbers in those that shift, erase and scroll
  MaxWrites   \* bound: characters written

ASSUME SizeAssumption ==
  Sizes \subseteq (Nat \ {0}) \X (Nat \ {0}) /\ StartSize \in Sizes
ASSUME BoundAssumption ==
  Maxima \subseteq Nat /\ Maxima # {} /\ Steps \cup Counts \subseteq Nat \ {0}
  /\ MaxWrites \in Nat

VARIABLES
  rows, cols,         \* the size
  screen,             \* what each cell holds
  inverse,            \* the inverse flag of each cell
  cursor,             \* <<cursor_row, cursor_col>>
  pending_wrap,       \* the last column is written and the wrap deferred
  saved_cursor,       \* a position or None
  inverse_active,     \* characters are written inverse
  alt_screen,         \* the primary screen while the alternate one is shown, or None
  scroll_buffer,      \* the ring of rows
  scroll_buffer_max,  \* its size
  written,            \* history: of each character, what it was written as
  out                 \* history: rows that left the ring, in order

grid   == <<rows, cols, screen, inverse>>
place  == <<cursor, pending_wrap>>
ring   == <<scroll_buffer, scroll_buffer_max, out>>
others == <<saved_cursor, inverse_active, alt_screen>>
vars   == <<grid, place, ring, others, written>>

Blank == 0
None  == <<>>
OnAlternate == alt_screen # None

Least(a, b) == IF a < b THEN a ELSE b
Most(a, b)  == IF a > b THEN a ELSE b
Clamp(n, limit) == Most(1, Least(n, limit))

\* A character that is not a space.
Ink(cell) == cell # Blank /\ written[cell].ink

Cells == (1..rows) \X (1..cols)

\* Last place in 1..n that has property P, 0 if none has.
LastWith(n, P(_)) == CHOOSE i \in 0..n : (i > 0 => P(i)) /\ \A j \in (i + 1)..n : ~P(j)

\* The grid g where every cell takes what was at the place From gives for it,
\* and v where that is not on the grid.
Rearranged(g, v, height, width, From(_, _)) ==
  [r \in 1..height |-> [c \in 1..width |->
    LET p == From(r, c)
    IN  IF p \in Cells THEN g[p[1]][p[2]] ELSE v]]

\* Both grids are rearranged alike.
Rearrange(From(_, _)) ==
  /\ screen' = Rearranged(screen, Blank, rows, cols, From)
  /\ inverse' = Rearranged(inverse, FALSE, rows, cols, From)

Nowhere == <<0, 0>>

Init ==
  /\ rows = StartSize[1] /\ cols = StartSize[2]
  /\ screen = [r \in 1..rows |-> [c \in 1..cols |-> Blank]]
  /\ inverse = [r \in 1..rows |-> [c \in 1..cols |-> FALSE]]
  /\ cursor = <<1, 1>> /\ pending_wrap = FALSE
  /\ saved_cursor = None /\ inverse_active = FALSE /\ alt_screen = None
  /\ scroll_buffer = <<>> /\ scroll_buffer_max \in Maxima
  /\ written = <<>> /\ out = <<>>

-----------------------------------------------------------------------------
(* Scrolling.                                                              *)

\* Mutant: the last character of the row is taken for a space.
TrimmedShort(row) ==
  LET Inked(c) == Ink(row[c]) IN SubSeq(row, 1, LastWith(Len(row), Inked) - 1)

\* The row without the spaces at its end.
Trimmed(row) == LET Inked(c) == Ink(row[c]) IN SubSeq(row, 1, LastWith(Len(row), Inked))

\* What a row adds to the ring: nothing if it is empty.
Added(row) == IF Trimmed(row) = <<>> THEN <<>> ELSE <<Trimmed(row)>>

\* Mutant: the alternate screen scrolls into the ring.
CapturedAlways(dropped) == FlattenSeq([i \in DOMAIN dropped |-> Added(dropped[i])])

\* Rows that scroll_off_top captures: none from the alternate screen.
Captured(dropped) ==
  IF OnAlternate THEN <<>> ELSE FlattenSeq([i \in DOMAIN dropped |-> Added(dropped[i])])

\* The ring keeps its last max rows; with a maximum of 0 it keeps none.
Kept(all, max) ==
  LET evicted == Most(0, Len(all) - max)
  IN  /\ scroll_buffer' = SubSeq(all, evicted + 1, Len(all))
      /\ out' = out \o SubSeq(all, 1, evicted)

\* The top n rows leave the screen.
CaptureTop(n) ==
  /\ Kept(scroll_buffer \o Captured(SubSeq(screen, 1, n)), scroll_buffer_max)
  /\ UNCHANGED scroll_buffer_max

Up(n, r, c) == <<r + n, c>>

\* Mutant: the inverse grid is not scrolled.
ScrollOffTopCharacters(n) ==
  /\ CaptureTop(n)
  /\ screen' = Rearranged(screen, Blank, rows, cols, LAMBDA r, c : Up(n, r, c))
  /\ inverse' = inverse

ScrollOffTop(n) ==
  /\ CaptureTop(n)
  /\ Rearrange(LAMBDA r, c : Up(n, r, c))

-----------------------------------------------------------------------------
(* put_char                                                                *)

\* A printable character: a deferred wrap is carried out first.  A space that
\* is not inverse is what a blank cell holds.
PutChar(ink) ==
  LET scrolls == pending_wrap /\ cursor[1] = rows
      lift    == IF scrolls THEN 1 ELSE 0
      at      == IF pending_wrap THEN <<Least(cursor[1] + 1, rows), 1>> ELSE cursor
      seen    == ink \/ inverse_active
      id      == IF seen THEN Len(written) + 1 ELSE Blank
      Lifted(g, v) == Rearranged(g, v, rows, cols, LAMBDA r, c : Up(lift, r, c))
  IN  /\ id <= MaxWrites
      /\ cursor' = <<at[1], Least(at[2] + 1, cols)>>
      /\ pending_wrap' = (at[2] = cols)
      /\ written' = IF seen THEN Append(written,
           [ink |-> ink, inverse |-> inverse_active, alt |-> OnAlternate]) ELSE written
      /\ CaptureTop(lift)
      /\ screen' = [Lifted(screen, Blank) EXCEPT ![at[1]][at[2]] = id]
      /\ inverse' = [Lifted(inverse, FALSE) EXCEPT ![at[1]][at[2]] = inverse_active]
      /\ UNCHANGED <<rows, cols, others>>

LineFeed ==
  /\ cursor' = <<Least(cursor[1] + 1, rows), cursor[2]>> /\ pending_wrap' = FALSE
  /\ UNCHANGED <<rows, cols, others, written>>
  /\ IF cursor[1] = rows THEN ScrollOffTop(1) ELSE UNCHANGED <<screen, inverse, ring>>

\* Every operation that only moves the cursor gives up a deferred wrap.
MoveTo(r, c) ==
  /\ cursor' = <<Clamp(r, rows), Clamp(c, cols)>> /\ pending_wrap' = FALSE
  /\ UNCHANGED <<grid, ring, others, written>>

CarriageReturn == MoveTo(cursor[1], 1)
Backspace      == MoveTo(cursor[1], cursor[2] - 1)
Tab            == MoveTo(cursor[1], ((cursor[2] - 1) \div 8 + 1) * 8 + 1)

-----------------------------------------------------------------------------
(* handle_csi                                                              *)

CursorPosition(r, c) == MoveTo(r, c)
CursorUp(n)          == MoveTo(cursor[1] - n, cursor[2])
CursorDown(n)        == MoveTo(cursor[1] + n, cursor[2])
CursorForward(n)     == MoveTo(cursor[1], cursor[2] + n)
CursorBack(n)        == MoveTo(cursor[1], cursor[2] - n)
ColumnTo(n)          == MoveTo(cursor[1], n)
RowTo(n)             == MoveTo(n, cursor[2])

\* The operations below leave the cursor and a deferred wrap alone.
Rewrite(From(_, _)) ==
  /\ Rearrange(From)
  /\ UNCHANGED <<rows, cols, place, ring, others, written>>

Erase(Hit(_, _)) == Rewrite(LAMBDA r, c : IF Hit(r, c) THEN Nowhere ELSE <<r, c>>)

OnRow(r) == r = cursor[1]

\* Mode 3 does the same as mode 2.
EraseInDisplay(mode) ==
  \/ mode = 2 /\ Erase(LAMBDA r, c : TRUE)
  \/ mode = 0 /\ Erase(LAMBDA r, c : r > cursor[1] \/ (OnRow(r) /\ c >= cursor[2]))
  \/ mode = 1 /\ Erase(LAMBDA r, c : r < cursor[1] \/ (OnRow(r) /\ c <= cursor[2]))

EraseInLine(mode) ==
  \/ mode = 2 /\ Erase(LAMBDA r, c : OnRow(r))
  \/ mode = 0 /\ Erase(LAMBDA r, c : OnRow(r) /\ c >= cursor[2])
  \/ mode = 1 /\ Erase(LAMBDA r, c : OnRow(r) /\ c <= cursor[2])

EraseChars(n) ==
  Erase(LAMBDA r, c : OnRow(r) /\ c \in cursor[2]..(cursor[2] + n - 1))

DeleteChars(n) ==
  Rewrite(LAMBDA r, c : IF OnRow(r) /\ c >= cursor[2] THEN <<r, c + n>> ELSE <<r, c>>)

InsertChars(n) ==
  Rewrite(LAMBDA r, c :
    IF ~OnRow(r) \/ c < cursor[2] THEN <<r, c>>
    ELSE IF c < cursor[2] + n THEN Nowhere ELSE <<r, c - n>>)

\* Mutant: the inserted lines are not blanked.
RowBeforeKept(n, r) == IF r < cursor[1] + n THEN r ELSE r - n

\* Where InsertLines takes the row r from.
RowBefore(n, r) ==
  IF r < cursor[1] THEN r ELSE IF r < cursor[1] + n THEN 0 ELSE r - n

InsertLines(n) == Rewrite(LAMBDA r, c : <<RowBefore(n, r), c>>)

DeleteLines(n) ==
  Rewrite(LAMBDA r, c : IF r >= cursor[1] THEN <<r + n, c>> ELSE <<r, c>>)

ScrollDown(n) == Rewrite(LAMBDA r, c : <<r - n, c>>)

ScrollUp(n) ==
  /\ UNCHANGED <<rows, cols, place, others, written>>
  /\ ScrollOffTop(Least(n, rows))

\* SGR 7, 27 and 0.
SelectInverse(on) ==
  /\ inverse_active # on /\ inverse_active' = on
  /\ UNCHANGED <<grid, place, ring, saved_cursor, alt_screen, written>>

SaveCursor ==
  /\ saved_cursor' = cursor
  /\ UNCHANGED <<grid, place, ring, inverse_active, alt_screen, written>>

\* Into the screen as it is now.
Restored(position) == <<Least(position[1], rows), Least(position[2], cols)>>

RestoreCursor ==
  /\ cursor' = (IF saved_cursor = None THEN cursor ELSE Restored(saved_cursor))
  /\ pending_wrap' = FALSE
  /\ UNCHANGED <<grid, ring, others, written>>

EnterAltScreen ==
  /\ ~OnAlternate
  /\ alt_screen' = [screen |-> screen, inverse |-> inverse, cursor |-> cursor]
  /\ Rearrange(LAMBDA r, c : Nowhere)
  /\ cursor' = <<1, 1>> /\ pending_wrap' = FALSE
  /\ UNCHANGED <<rows, cols, ring, saved_cursor, inverse_active, written>>

ExitAltScreen ==
  /\ OnAlternate
  /\ screen' = alt_screen.screen /\ inverse' = alt_screen.inverse
  /\ cursor' = Restored(alt_screen.cursor) /\ pending_wrap' = FALSE
  /\ alt_screen' = None
  /\ UNCHANGED <<rows, cols, ring, saved_cursor, inverse_active, written>>

-----------------------------------------------------------------------------
(* The calls of the bridge.                                                *)

\* The grid is cut or filled up at the bottom and on the right, and so is the
\* stashed primary screen.
Reshaped(g, v, size) == Rearranged(g, v, size[1], size[2], LAMBDA r, c : <<r, c>>)

ReshapedSave(size) ==
  [screen |-> Reshaped(alt_screen.screen, Blank, size),
   inverse |-> Reshaped(alt_screen.inverse, FALSE, size),
   cursor |-> <<Least(alt_screen.cursor[1], size[1]), Least(alt_screen.cursor[2], size[2])>>]

Resize(size) ==
  /\ size # <<rows, cols>>
  /\ screen' = Reshaped(screen, Blank, size)
  /\ inverse' = Reshaped(inverse, FALSE, size)
  /\ rows' = size[1] /\ cols' = size[2]
  /\ cursor' = <<Least(cursor[1], size[1]), Least(cursor[2], size[2])>>
  /\ alt_screen' = (IF OnAlternate THEN ReshapedSave(size) ELSE None)
  /\ UNCHANGED <<pending_wrap, ring, saved_cursor, inverse_active, written>>

\* XTWINOPS 8: the program asks for a size, in one or both directions (the code
\* cuts it to 500).
XtWinOps(height, width) == <<height, width>> \in Sizes /\ Resize(<<height, width>>)

\* drain_scroll_buffer_rows, and clear_scroll_buffer for the ring's part.
Drain ==
  /\ scroll_buffer # <<>>
  /\ Kept(scroll_buffer, 0)
  /\ UNCHANGED <<scroll_buffer_max, grid, place, others, written>>

SetScrollBufferMax(max) ==
  /\ max # scroll_buffer_max /\ scroll_buffer_max' = max
  /\ Kept(scroll_buffer, max)
  /\ UNCHANGED <<grid, place, others, written>>

Output ==
  \/ \E ink \in BOOLEAN : PutChar(ink)
  \/ LineFeed \/ CarriageReturn \/ Backspace \/ Tab
  \/ \E r \in 1..rows, c \in 1..cols : CursorPosition(r, c)
  \/ \E n \in Steps  : \/ CursorUp(n) \/ CursorDown(n) \/ CursorForward(n) \/ CursorBack(n)
                       \/ ColumnTo(n) \/ RowTo(n)
  \/ \E n \in Counts : \/ EraseChars(n) \/ DeleteChars(n) \/ InsertChars(n)
                       \/ InsertLines(n) \/ DeleteLines(n) \/ ScrollUp(n) \/ ScrollDown(n)
  \/ \E mode \in 0..2 : EraseInDisplay(mode) \/ EraseInLine(mode)
  \/ \E on \in BOOLEAN : SelectInverse(on)
  \/ SaveCursor \/ RestoreCursor \/ EnterAltScreen \/ ExitAltScreen
  \/ \E size \in Sizes : XtWinOps(size[1], size[2])

Next ==
  \/ Output
  \/ \E size \in Sizes : Resize(size)
  \/ Drain
  \/ \E max \in Maxima : SetScrollBufferMax(max)

Spec == Init /\ [][Next]_vars

-----------------------------------------------------------------------------
(* render_screen                                                           *)

Block == -1

\* The cell belongs to a run of inverse cells that are all spaces: a cursor
\* the program draws itself.
InBlankRun(r, c) ==
  \A d \in 1..cols :
    (\A e \in Least(c, d)..Most(c, d) : inverse[r][e]) => ~Ink(screen[r][d])

Glyph(show, r, c) ==
  IF (show /\ <<r, c>> = cursor) \/ (inverse[r][c] /\ InBlankRun(r, c)) THEN Block
  ELSE IF Ink(screen[r][c]) THEN screen[r][c] ELSE Blank

\* Mutant: a row is left out if it has no character.
UsedByInk(r) == \E c \in 1..cols : Ink(screen[r][c])

\* A row that is not left out at the end of the frame.
Used(r) == \E c \in 1..cols : Ink(screen[r][c]) \/ inverse[r][c]

\* The frame's rows; the cursor is drawn if the user and the program want it.
Frame(show) ==
  LET last  == LastWith(rows, Used)
      until == IF show THEN Most(last, cursor[1]) ELSE last
      Line(r) == LET Seen(c) == Glyph(show, r, c) # Blank
                 IN  [c \in 1..LastWith(cols, Seen) |-> Glyph(show, r, c)]
  IN  [r \in 1..until |-> Line(r)]

-----------------------------------------------------------------------------
(* Properties                                                              *)

GridOf(S, g) == DOMAIN g = 1..rows /\ \A r \in 1..rows : g[r] \in [1..cols -> S]

\* The grids, those of the stashed screen too, have the shape the code indexes
\* them with, and both cursors are on the grid.
TypeOK ==
  LET ids == 0..Len(written)
  IN  /\ <<rows, cols>> \in Sizes
      /\ GridOf(ids, screen) /\ GridOf(BOOLEAN, inverse)
      /\ cursor \in Cells /\ pending_wrap \in BOOLEAN
      /\ OnAlternate => /\ GridOf(ids, alt_screen.screen)
                        /\ GridOf(BOOLEAN, alt_screen.inverse)
                        /\ alt_screen.cursor \in Cells
      /\ Len(scroll_buffer) <= scroll_buffer_max

\* The rows of the transcript, oldest first, and those of the screen not shown.
History == out \o scroll_buffer
Stashed == IF OnAlternate THEN alt_screen.screen ELSE <<>>

\* A character is in one place: once on one of the screens, in the ring, or
\* gone out ("each row lives in exactly one message").  An operation that
\* shifts cells or rows must blank what it leaves behind.
EachOnce ==
  LET all == History \o screen \o Stashed
  IN  \A i \in DOMAIN all : \A c \in DOMAIN all[i] : all[i][c] # Blank =>
        \A j \in DOMAIN all : \A d \in DOMAIN all[j] :
          all[j][d] = all[i][c] => j = i /\ d = c

\* The grids fit the size, the cursor is on the screen, no character is doubled.
ScreenInv == TypeOK /\ EachOnce

\* The inverse grid moves in lockstep with the characters, through every shift,
\* scroll, erasure, resize and change of screen: a cell is inverse exactly if
\* the character in it was written so.
InverseLockstep ==
  \A p \in Cells :
    LET id == screen[p[1]][p[2]]
    IN  inverse[p[1]][p[2]] = (id # Blank /\ written[id].inverse)

\* What a full-screen program writes on the alternate screen is never part of
\* the transcript, nor of the primary screen once that is back.
AltPrivate ==
  LET primary == History \o (IF OnAlternate THEN Stashed ELSE screen)
  IN  \A i \in DOMAIN primary : \A c \in DOMAIN primary[i] :
        primary[i][c] # Blank => ~written[primary[i][c]].alt

\* The live frame shows every character of the screen at its place, the one
\* under the cursor excepted, and the cursor, be it the terminal's or one the
\* program draws as an inverse space; trimming takes none of them away.
FrameShowsScreen ==
  \A show \in BOOLEAN :
    LET frame == Frame(show)
        Shows(p, g) == p[1] <= Len(frame) /\ p[2] <= Len(frame[p[1]]) /\ frame[p[1]][p[2]] = g
        Lone(p) == /\ inverse[p[1]][p[2]] /\ ~Ink(screen[p[1]][p[2]])
                   /\ \A d \in 1..cols : d # p[2] => ~inverse[p[1]][d]
    IN  \A p \in Cells :
          /\ Ink(screen[p[1]][p[2]]) /\ ~(show /\ p = cursor) => Shows(p, screen[p[1]][p[2]])
          /\ (show /\ p = cursor) \/ Lone(p) => Shows(p, Block)

\* The characters to be seen in a row, but x, and in many rows.
Seen(chars, row, x) ==
  FlattenSeq([c \in DOMAIN row |->
    IF row[c] \notin {Blank, x} /\ chars[row[c]].ink THEN <<row[c]>> ELSE <<>>])

Printed(chars, all, x) == FlattenSeq([i \in DOMAIN all |-> Seen(chars, all[i], x)])

\* On the primary screen scrolling loses nothing and changes no order of what
\* was printed and is still to be seen, from the top of the history: what
\* leaves the screen enters the ring, what leaves the ring goes out.  Printing
\* takes away only the character it writes over.
ScrollKeepsContent ==
  [][ ~OnAlternate /\ <<screen, ring>>' # <<screen, ring>> =>
      LET before(x) == Printed(written, History \o screen, x)
          after(x)  == Printed(written', History' \o screen', x)
      IN  /\ LineFeed \/ (\E n \in Counts : ScrollUp(n)) \/ Drain
               => after(Blank) = before(Blank)
          /\ (\E ink \in BOOLEAN : PutChar(ink)) =>
               LET id  == IF written' = written THEN Blank ELSE Len(written')
                   hit == IF pending_wrap /\ cursor[1] = rows THEN Blank
                          ELSE screen[cursor'[1]][IF pending_wrap' THEN cols ELSE cursor'[2] - 1]
               IN  after(id) = before(hit)
    ]_vars
=============================================================================
