----------------------------- MODULE MCInterposer -----------------------------
(* Instances of Interposer for TLC.                                         *)
EXTENDS Interposer, TLC

Symmetry == Permutations(Funcs) \cup Permutations(Conds)
=============================================================================
