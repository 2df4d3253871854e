------------------------- MODULE MCSelectionOwnership -------------------------
(* Instances of SelectionOwnership for TLC: two objects of one process and  *)
(* one of another.                                                          *)
EXTENDS SelectionOwnership, TLC

CONSTANTS p1, p2, a, b, c

TwoAndOne == (a :> p1) @@ (b :> p1) @@ (c :> p2)
==============================================================================
