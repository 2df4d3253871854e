---------------------------- MODULE MCScratchFile ----------------------------
(* Instances of ScratchFile for TLC.                                        *)
EXTENDS ScratchFile
===============================================================================
