------------------------- MODULE MCSelectionRequests -------------------------
(* Instances of SelectionRequests for TLC.                                  *)
EXTENDS SelectionRequests

CONSTANTS t1, t2

Both == <<t1, t2>>
==============================================================================
