----------------------------- MODULE MCRenderer -----------------------------
(* Instances of Renderer for TLC. *)
EXTENDS Renderer

\* Sizes are <<rows, cols>>.
MCSizes == {<<2, 2>>, <<1, 1>>}
MCStartSize == <<2, 2>>

\* The program saves its cursor only at the place that the smaller size lacks:
\* where the cursor is saved matters to nothing but RestoreCursor.
SavedAtCorner == saved_cursor \in {None, <<2, 2>>}
=============================================================================
