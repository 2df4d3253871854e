---------------------------- MODULE MCIncrTransfer ----------------------------
(* IncrTransfer for TLC; its constants are plain values.                    *)
EXTENDS IncrTransfer
==============================================================================
