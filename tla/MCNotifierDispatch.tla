-------------------------- MODULE MCNotifierDispatch --------------------------
(* Instances of NotifierDispatch for TLC.                                   *)
EXTENDS NotifierDispatch

CONSTANTS c1, c2

(* Codes: each event its own; all the same.                                *)
Distinct == <<1, 2, 3>>
Same == <<1, 1, 1, 1>>

(* Who has set which functions at first.                                   *)
Safe       == [x \in Clients |-> {"safe", "destroy"}]
SafeInput  == [x \in Clients |-> {"safe", "input", "destroy"}]
OneReader  == [x \in Clients |-> IF x = c1 THEN {"safe", "input", "destroy"} ELSE {"safe", "destroy"}]
Mixed      == [x \in Clients |-> IF x = c1 THEN {"safe", "immediate", "input"} ELSE {"safe"}]
AllKinds   == [x \in Clients |-> IF x = c1 THEN Detected \cup {"safe", "destroy"} ELSE {"safe"}]

Does(first, called, statuses, maxCalls, maxDetects, maxDepth) ==
  [funcs |-> first, calls |-> called, statuses |-> statuses,
   maxCalls |-> maxCalls, maxDetects |-> maxDetects, maxDepth |-> maxDepth]

(* Inside notify_start, readers and posts.                                 *)
Loop == Does(SafeInput, {"start", "flush", "unset", "destroy_later"}, {"cleanup"}, 3, 2, 6)

(* Safe and immediate functions, posts from outside the loop and from      *)
(* asynchronous functions.                                                 *)
Both == Does(Mixed, {"early", "start", "stop", "ignore", "remove", "set", "unset", "async"}, {}, 2, 1, 6)

(* Outside notify_start only.                                              *)
Out  == Does(Safe, {"early", "flush", "remove", "destroy_later", "destroy_now"}, {"check"}, 2, 0, 12)

(* Every kind of condition, every destroy status.                          *)
Many == Does(AllKinds, {"start", "once", "stop", "unset", "remove", "destroy_later", "veto"},
             {"check", "cleanup", "death", "save"}, 2, 2, 4)

(* Destroys that are vetoed, or not, with one more call.                   *)
Vetoes == Does(OneReader, {"start", "destroy_later", "veto"}, {"check", "death"}, 3, 1, 4)

(* One reader, one call: enough to see events with one code go astray.     *)
Reads == Does(OneReader, {"start"}, {}, 1, 1, 6)

JustLoop == {Loop}
Others   == {Both, Out, Many, Vetoes}
JustReads == {Reads}
==============================================================================
