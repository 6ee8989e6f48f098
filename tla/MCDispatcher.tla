---------------------------- MODULE MCDispatcher ----------------------------
(* Instances of Dispatcher for TLC. *)
EXTENDS Dispatcher, TLC

CONSTANTS t1, t2

MCTexts == {t1, t2}
Symmetry == Permutations(MCTexts)
=============================================================================
