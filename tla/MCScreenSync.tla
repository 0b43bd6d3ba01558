---------------------------- MODULE MCScreenSync ----------------------------
(* ScreenSync for TLC.  A row means nothing but itself: where no temporal      *)
(* property is asked, states that differ by which row is which are one.        *)
EXTENDS ScreenSync, TLC

RowSymmetry == Permutations(Rows)
=============================================================================
