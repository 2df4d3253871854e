--------------------------- MODULE MCNotifierTimers ---------------------------
(* Instances of NotifierTimers for TLC: three microseconds make a second.   *)
EXTENDS NotifierTimers, TLC

CONSTANTS c, d

Ask(value, interval) == [value |-> value, interval |-> interval]

(* One shot, repeated with another interval, repeated by polling, polling. *)
Ordinary == {Ask(Tv(0, 2), Zero), Ask(Tv(1, 0), Tv(0, 2)), Ask(Tv(0, 2), Poll), Ask(Poll, Poll),
             Ask(Poll, Zero)}
(* Polls once, then ordinary.                                              *)
PollsFirst == {Ask(Poll, Tv(1, 0)), Ask(Tv(1, 0), Tv(1, 0))}

Late == Tv(9, 0)

Symmetry == Permutations(Clients)
=============================================================================
