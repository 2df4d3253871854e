---------------------------- MODULE MCClientStates ----------------------------
(* Instances of ClientStates for TLC.                                       *)
EXTENDS ClientStates

CONSTANTS a, b, d

Plain(iconic) == [transientFor |-> None, group |-> None, popup |-> FALSE, iconic |-> iconic]
In(w) == [Plain(FALSE) EXCEPT !.group = w]
For(w, iconic) == [Plain(iconic) EXCEPT !.transientFor = w]

(* A base window and a popup of it, or another base window of its group.    *)
Two == { a :> Plain(FALSE) @@ d :> For(a, TRUE), a :> Plain(TRUE) @@ d :> In(a) }

(* A base window, another of its group, and a popup of that one.            *)
Three == { a :> Plain(FALSE) @@ b :> In(a) @@ d :> For(b, FALSE) }
===============================================================================
