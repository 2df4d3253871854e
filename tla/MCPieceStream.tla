----------------------------- MODULE MCPieceStream -----------------------------
(* Instances of PieceStream for TLC.                                        *)
EXTENDS PieceStream
===============================================================================
