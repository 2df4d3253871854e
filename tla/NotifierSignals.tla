--------------------------- MODULE NotifierSignals ---------------------------
(***************************************************************************)
(* Signal handling of the XView Notifier (libxview/notify): the signal     *)
(* catcher, the "lightweight" critical sections that delay it, the node    *)
(* pool it may draw on, and the detector loop that turns the signals it    *)
(* caught into notifications.                                              *)
(*                                                                         *)
(* There is one thread.  A signal handler interrupts it between any two    *)
(* steps, may itself be interrupted by a signal it does not block, and     *)
(* runs to its end before the interrupted code goes on: the activations of *)
(* the catcher form a stack, and the main program moves only when it is    *)
(* empty.                                                                  *)
(***************************************************************************)
EXTENDS Integers, Sequences, FiniteSets

CONSTANTS
  Signals,        \* the signals some client of the Notifier cares about
  Programs,       \* what is watched, and how the program was compiled
  PipeCap,        \* bytes the pipe holds before a write() to it blocks
  MinNodes,       \* NTFY_PRE_ALLOCED_MIN
  PreAlloced,     \* NTFY_PRE_ALLOCED
  NodesPerBlock,  \* NTFY_NODES_PER_BLOCK
  MaxRaises,      \* bound: signals the environment sends
  MaxCalls,       \* bound: Notifier calls the application makes
  MaxNesting,     \* bound: critical sections inside one another
  CalmEnv         \* the environment sends a signal only to a waiting program

ASSUME PoolAssumption ==
  /\ MinNodes \in Nat /\ PreAlloced \in Nat /\ NodesPerBlock \in Nat
  /\ MinNodes <= PreAlloced /\ PreAlloced <= NodesPerBlock

ASSUME EnvAssumption ==
  /\ PipeCap \in Nat /\ MaxRaises \in Nat /\ MaxCalls \in Nat
  /\ MaxNesting \in Nat \ {0}
  /\ CalmEnv \in BOOLEAN

(* watches: a descriptor is watched or a timer polls, so that the loop      *)
(* selects.  atomic: sigaddset() is one instruction (x86-64), or else a load *)
(* and a store.                                                            *)
ASSUME ProgramAssumption == Programs \subseteq [watches : BOOLEAN, atomic : BOOLEAN]

VARIABLES
  program,    \* one of Programs, for good
  mpc,        \* where the main program is
  after,      \* where it goes on after the critical section it is leaving
  blocked,    \* ntfy_sigs_blocked
  interrupts, \* ntfy_interrupts
  deaf,       \* ntfy_deaf_interrupts
  delayed,    \* ntfy_sigs_delayed
  received,   \* ndet_sigs_received
  managing,   \* ndet_sigs_managing
  installed,  \* the signals whose disposition is ndet_signal_catcher
  sync,       \* signals with an NTFY_SYNC_SIGNAL condition
  async,      \* signals with an NTFY_ASYNC_SIGNAL condition
  sigChange,  \* NDET_SIGNAL_CHANGE
  nodes,      \* ntfy_nodes_avail
  pipeOn,     \* pipe_started
  pipe,       \* bytes in pipefds
  ready,      \* select() reported the pipe readable
  eintr,      \* a handler ran while the program was blocked in the kernel
  queued,     \* signal notifications the dispatcher holds
  raised,     \* signals pending in the kernel
  mask,       \* the process's signal mask
  stack,      \* activations of ndet_signal_catcher, the innermost first
  nested,     \* ndet_send_delayed_sigs was entered at interrupt level
  raises, calls

mainVars    == <<mpc, after, blocked>>
sigVars     == <<delayed, received, queued>>
condVars    == <<managing, installed, sync, async, sigChange>>
kernelVars  == <<raised, mask>>
vars == <<program, mainVars, interrupts, deaf, sigVars, condVars, nodes, pipeOn, pipe, ready, eintr,
          kernelVars, stack, nested, raises, calls>>

MainPC == {"app", "top", "fig", "recalc", "params", "test", "topause", "paused",
           "toselect", "callselect", "selecting", "gather", "dispatch", "api", "leave"}
CatcherPC == {"enter", "check", "load", "store", "send", "unblock", "exit", "wake"}

Activation == [sig : Signals, pc : CatcherPC, old : SUBSET Signals,
               word : SUBSET Signals]

TypeOK ==
  /\ program \in Programs
  /\ mpc \in MainPC /\ after \in MainPC
  /\ blocked \in 0..MaxNesting /\ interrupts \in Nat /\ deaf \in BOOLEAN
  /\ delayed \subseteq Signals /\ received \subseteq Signals
  /\ managing \subseteq Signals /\ installed \subseteq Signals
  /\ sync \subseteq Signals /\ async \subseteq Signals /\ sigChange \in BOOLEAN
  /\ nodes \in Nat /\ pipeOn \in BOOLEAN /\ pipe \in 0..PipeCap
  /\ ready \in BOOLEAN /\ eintr \in BOOLEAN
  /\ queued \subseteq Signals /\ raised \subseteq Signals /\ mask \subseteq Signals
  /\ stack \in Seq(Activation) /\ nested \in BOOLEAN
  /\ raises \in 0..MaxRaises /\ calls \in 0..MaxCalls

Init ==
  /\ program \in Programs
  /\ mpc = "app" /\ after = "app" /\ blocked = 0
  /\ interrupts = 0 /\ deaf = FALSE
  /\ delayed = {} /\ received = {} /\ queued = {}
  /\ managing = {} /\ installed = {} /\ sync = {} /\ async = {} /\ sigChange = FALSE
  /\ nodes = 0 /\ pipeOn = FALSE /\ pipe = 0 /\ ready = FALSE /\ eintr = FALSE
  /\ raised = {} /\ mask = {} /\ stack = <<>> /\ nested = FALSE
  /\ raises = 0 /\ calls = 0

InCritical == blocked > 0
Running    == stack = <<>>          \* the main program has the processor

-----------------------------------------------------------------------------
(* Critical sections: NTFY_BEGIN_CRITICAL, NTFY_END_CRITICAL.               *)

(* Mutant: a section is begun twice and ended once.                        *)
BeginCritical_Unbalanced == blocked' = blocked + 2

BeginCritical == blocked' = blocked + 1

(* Mutant: the delayed signals are not looked at.                          *)
EndCritical_Forgets(next) ==
  /\ blocked = 1
  /\ nodes' = IF nodes < PreAlloced THEN nodes + NodesPerBlock ELSE nodes
  /\ blocked' = blocked - 1
  /\ mpc' = next /\ after' = next

(* ntfy_end_critical of an outermost section, up to the decrement: the pool *)
(* is replenished while the section still holds, then signals may come in   *)
(* again; the delayed ones are looked at in a later step.                   *)
EndCritical(next) ==
  /\ blocked = 1
  /\ nodes' = IF nodes < PreAlloced THEN nodes + NodesPerBlock ELSE nodes
  /\ blocked' = blocked - 1
  /\ mpc' = "leave" /\ after' = next

(* Mutant: the signal mask is not restored after the delayed signals.      *)
Leave_Blocks ==
  /\ Running /\ mpc = "leave"
  /\ mpc' = after
  /\ received' = received \cup delayed /\ delayed' = {}
  /\ mask' = IF delayed = {} THEN mask ELSE mask \cup managing
  /\ UNCHANGED <<program, after, blocked, interrupts, deaf, queued, condVars,
                 nodes, pipeOn, pipe, ready, eintr, raised, stack, nested,
                 raises, calls>>

(* The rest of ntfy_end_critical and ndet_send_delayed_sigs.  The managed   *)
(* signals are blocked from the copy of ntfy_sigs_delayed to the last       *)
(* asynchronous callout, so nothing comes between.                          *)
Leave ==
  /\ Running /\ mpc = "leave"
  /\ mpc' = after
  /\ received' = received \cup delayed
  /\ delayed' = {}
  /\ UNCHANGED <<program, after, blocked, interrupts, deaf, queued, condVars,
                 nodes, pipeOn, pipe, ready, eintr, kernelVars, stack, nested,
                 raises, calls>>

-----------------------------------------------------------------------------
(* Calls of the application, from its own code before notify_start or from *)
(* a function the dispatcher has called.                                   *)

CanCall == Running /\ mpc \in {"app", "dispatch"} /\ calls < MaxCalls

BeginCall ==
  /\ CanCall
  /\ BeginCritical
  /\ mpc' = "api" /\ after' = mpc /\ calls' = calls + 1
  /\ UNCHANGED <<program, interrupts, deaf, sigVars, condVars, nodes, pipeOn,
                 pipe, ready, eintr, kernelVars, stack, nested, raises>>

(* A call makes another from inside its section (notify_remove flushes what *)
(* is pending), which ends its own without looking at the delayed signals.  *)
EnterNested ==
  /\ Running /\ mpc = "api" /\ blocked < MaxNesting /\ calls < MaxCalls
  /\ BeginCritical /\ calls' = calls + 1
  /\ UNCHANGED <<program, mpc, after, interrupts, deaf, sigVars, condVars,
                 nodes, pipeOn, pipe, ready, eintr, kernelVars, stack, nested,
                 raises>>

LeaveNested ==
  /\ Running /\ mpc = "api" /\ blocked > 1
  /\ blocked' = blocked - 1
  /\ UNCHANGED <<program, mpc, after, interrupts, deaf, sigVars, condVars,
                 nodes, pipeOn, pipe, ready, eintr, kernelVars, stack, nested,
                 raises, calls>>

(* notify_set_signal_func(nclient, func, s, mode): ndet_enable_sig installs *)
(* the catcher and only then makes the signal a managed one.                *)
SetSignalFunc(s) ==
  /\ Running /\ mpc = "api"
  /\ \/ s \notin sync /\ sync' = sync \cup {s} /\ UNCHANGED async
     \/ s \notin async /\ async' = async \cup {s} /\ UNCHANGED sync
  /\ managing' = managing \cup {s} /\ installed' = installed \cup {s}
  /\ sigChange' = TRUE
  /\ EndCritical(after)
  /\ UNCHANGED <<program, interrupts, deaf, sigVars, pipeOn, pipe, ready,
                 eintr, kernelVars, stack, nested, raises, calls>>

(* The same with a null function: what the dispatcher holds for the signal *)
(* is flushed, the catcher stays until the loop recomputes.                *)
UnsetSignalFunc(s) ==
  /\ Running /\ mpc = "api" /\ sigChange' = TRUE
  /\ \/ s \in sync /\ sync' = sync \ {s} /\ queued' = queued \ {s} /\ UNCHANGED async
     \/ s \in async /\ async' = async \ {s} /\ UNCHANGED <<sync, queued>>
  /\ EndCritical(after)
  /\ UNCHANGED <<program, interrupts, deaf, delayed, received, managing,
                 installed, pipeOn, pipe, ready, eintr, kernelVars, stack,
                 nested, raises, calls>>

(* Any other call: it uses up some nodes and leaves signals alone.         *)
OtherCall ==
  /\ Running /\ mpc = "api"
  /\ EndCritical(after)
  /\ UNCHANGED <<program, interrupts, deaf, sigVars, condVars, pipeOn, pipe,
                 ready, eintr, kernelVars, stack, nested, raises, calls>>

(* xv_window_loop makes the catcher deaf while it runs its own loop.       *)
WindowLoop ==
  /\ Running /\ mpc = "dispatch" /\ (deaf \/ calls < MaxCalls)
  /\ deaf' = ~deaf /\ calls' = IF deaf THEN calls ELSE calls + 1
  /\ UNCHANGED <<program, mainVars, interrupts, sigVars, condVars, nodes,
                 pipeOn, pipe, ready, eintr, kernelVars, stack, nested,
                 raises>>

-----------------------------------------------------------------------------
(* The detector loop of notify_start.                                      *)

loopFrame == <<program, deaf, nested, raises, calls, kernelVars, stack, interrupts>>

Start ==
  /\ Running /\ mpc = "app"
  /\ mpc' = "top" /\ pipeOn' = TRUE
  /\ UNCHANGED <<after, blocked, sigVars, condVars, nodes, pipe, ready, eintr, loopFrame>>

LoopTop ==
  /\ Running /\ mpc = "top"
  /\ BeginCritical
  /\ mpc' = IF sigChange THEN "fig" ELSE "params"
  /\ UNCHANGED <<after, sigVars, condVars, nodes, pipeOn, pipe, ready, eintr, loopFrame>>

(* ndet_fig_sig_change empties the set of managed signals ...               *)
FigSigChange ==
  /\ Running /\ mpc = "fig"
  /\ mpc' = "recalc" /\ sigChange' = FALSE /\ managing' = {}
  /\ UNCHANGED <<after, blocked, sigVars, installed, sync, async, nodes, pipeOn, pipe,
                 ready, eintr, loopFrame>>

(* ... collects it anew from the conditions, and gives the signals no       *)
(* client waits for any more their previous disposition back.  It installs  *)
(* no catcher: ndet_enable_sig looks at the set just collected, and finds   *)
(* every signal in it.                                                      *)
Recalculate ==
  /\ Running /\ mpc = "recalc"
  /\ mpc' = "params"
  /\ managing' = sync \cup async /\ installed' = installed \cap managing'
  /\ raised' = raised \cap installed'
  /\ UNCHANGED <<program, after, blocked, sigVars, sync, async, sigChange,
                 nodes, pipeOn, pipe, ready, eintr, deaf, nested, raises,
                 calls, mask, stack, interrupts>>

Params ==
  /\ Running /\ mpc = "params"
  /\ EndCritical("test")
  /\ UNCHANGED <<sigVars, condVars, pipeOn, pipe, ready, eintr, loopFrame>>

(* Nothing to select on and no signal in hand: pause(), or give up if there *)
(* is no signal to wait for either; otherwise select().                     *)
Test ==
  /\ Running /\ mpc = "test"
  /\ mpc' = IF program.watches \/ received # {} THEN "toselect"
            ELSE IF managing # {} THEN "topause" ELSE "app"
  /\ UNCHANGED <<after, blocked, sigVars, condVars, nodes, pipeOn, pipe, ready, eintr, loopFrame>>

EnterPause ==
  /\ Running /\ mpc = "topause"
  /\ mpc' = "paused" /\ eintr' = FALSE
  /\ UNCHANGED <<after, blocked, sigVars, condVars, nodes, pipeOn, pipe, ready, loopFrame>>

(* pause() returns only after a handler has run in it.                      *)
PauseReturns ==
  /\ Running /\ mpc = "paused" /\ eintr
  /\ mpc' = "gather" /\ eintr' = FALSE
  /\ BeginCritical
  /\ UNCHANGED <<after, sigVars, condVars, nodes, pipeOn, pipe, ready, loopFrame>>

(* The timeout is chosen as the arguments of select() are evaluated: with a *)
(* signal in hand it polls and returns at once (the wait is left out), else *)
(* it waits, and a signal caught between here and the system call does not  *)
(* interrupt it.                                                            *)
ChooseTimeout ==
  /\ Running /\ mpc = "toselect" /\ received = {}
  /\ mpc' = "callselect"
  /\ UNCHANGED <<after, blocked, sigVars, condVars, nodes, pipeOn, pipe, ready, eintr,
                 loopFrame>>

EnterSelect ==
  /\ Running /\ mpc = "callselect"
  /\ mpc' = "selecting" /\ eintr' = FALSE
  /\ UNCHANGED <<after, blocked, sigVars, condVars, nodes, pipeOn, pipe, ready, loopFrame>>

(* select() returns when it polls, when a byte is in the pipe, when a       *)
(* handler has run in it (EINTR: no descriptor is reported, the pipe is not *)
(* read), or when some descriptor is ready.  The read loop empties the pipe.*)
SelectReturns ==
  /\ Running
  /\ \/ mpc = "toselect" /\ received # {}
     \/ mpc = "selecting"
  /\ mpc' = "gather" /\ eintr' = FALSE /\ ready' = (~eintr /\ pipe > 0)
  /\ BeginCritical
  /\ UNCHANGED <<after, sigVars, condVars, nodes, pipeOn, pipe, loopFrame>>

(* Mutant: ndet_sigs_received is cleared before it is taken over.          *)
Gather_ClearsFirst ==
  /\ Running /\ mpc = "gather"
  /\ received' = {} /\ UNCHANGED queued
  /\ pipe' = IF ready THEN 0 ELSE pipe
  /\ ready' = FALSE
  /\ EndCritical("dispatch")
  /\ UNCHANGED <<delayed, condVars, pipeOn, eintr, loopFrame>>

(* The received signals are taken over and enqueued with the dispatcher if  *)
(* a client waits for them synchronously; the pipe is read until it is empty*)
(* if select() reported it.                                                 *)
Gather ==
  /\ Running /\ mpc = "gather"
  /\ queued' = queued \cup (received \cap sync) /\ received' = {}
  /\ pipe' = IF ready THEN 0 ELSE pipe
  /\ ready' = FALSE
  /\ EndCritical("dispatch")
  /\ UNCHANGED <<delayed, condVars, pipeOn, eintr, loopFrame>>

(* ndis_dispatch hands one notification out ... or is through.              *)
Dispatch(s) ==
  /\ Running /\ mpc = "dispatch" /\ s \in queued
  /\ queued' = queued \ {s}
  /\ UNCHANGED <<mainVars, delayed, received, condVars, nodes, pipeOn, pipe, ready, eintr,
                 loopFrame>>

EndDispatch ==
  /\ Running /\ mpc = "dispatch" /\ queued = {} /\ ~deaf
  /\ mpc' = "top"
  /\ UNCHANGED <<after, blocked, sigVars, condVars, nodes, pipeOn, pipe, ready, eintr, loopFrame>>

-----------------------------------------------------------------------------
(* The kernel and the signal catcher.                                      *)

Waiting == mpc \in {"paused", "selecting"}

Raise(s) ==
  /\ raises < MaxRaises /\ s \in installed \ raised
  /\ CalmEnv => Running /\ Waiting /\ ~eintr /\ raised = {}
  /\ raised' = raised \cup {s} /\ raises' = raises + 1
  /\ UNCHANGED <<program, mainVars, interrupts, deaf, sigVars, condVars,
                 nodes, pipeOn, pipe, ready, eintr, mask, stack, nested,
                 calls>>

catcherFrame == <<program, mainVars, condVars, pipeOn, ready, queued, deaf, raises, calls>>

(* The kernel calls the catcher with its signal blocked (no SA_NODEFER).    *)
Deliver(s) ==
  /\ s \in raised \ mask
  /\ raised' = raised \ {s} /\ mask' = mask \cup {s}
  /\ stack' = <<[sig |-> s, pc |-> "enter", old |-> mask, word |-> {}]>> \o stack
  /\ eintr' = (eintr \/ Waiting)
  /\ UNCHANGED <<catcherFrame, interrupts, delayed, received, nodes, pipe, nested>>

Innermost(pc) == stack # <<>> /\ Head(stack).pc = pc
Me == Head(stack)
GoTo(pc) == stack' = [stack EXCEPT ![1].pc = pc]
Return == stack' = Tail(stack) /\ mask' = Me.old

(* The first two lines copy ndet_sigs_managing and block what it holds.     *)
BlockManaged ==
  /\ Innermost("enter")
  /\ GoTo("check") /\ mask' = mask \cup managing
  /\ UNCHANGED <<catcherFrame, interrupts, delayed, received, nodes, pipe, raised, eintr,
                 nested>>

(* Mutant: the catcher only looks at the node pool.                        *)
MustDelay_NodesOnly == nodes < MinNodes
MustDelay == InCritical \/ nodes < MinNodes

StartDelay ==
  /\ Innermost("check") /\ MustDelay
  /\ IF program.atomic
     THEN /\ delayed' = delayed \cup {Me.sig} /\ GoTo("wake")
          /\ mask' = Me.old \cup {Me.sig}
     ELSE GoTo("load") /\ UNCHANGED <<delayed, mask>>
  /\ UNCHANGED <<catcherFrame, interrupts, received, nodes, pipe, raised, eintr, nested>>

LoadDelayed ==
  /\ Innermost("load")
  /\ stack' = [stack EXCEPT ![1] = [@ EXCEPT !.pc = "store", !.word = delayed]]
  /\ UNCHANGED <<catcherFrame, interrupts, delayed, received, nodes, pipe, kernelVars,
                 eintr, nested>>

StoreDelayed ==
  /\ Innermost("store")
  /\ delayed' = Me.word \cup {Me.sig} /\ mask' = Me.old \cup {Me.sig}
  /\ GoTo("wake")
  /\ UNCHANGED <<catcherFrame, interrupts, received, nodes, pipe, raised, eintr, nested>>

(* A deaf catcher returns at once; the kernel restores the mask.            *)
ReturnDeaf ==
  /\ Innermost("check") /\ ~MustDelay /\ deaf
  /\ Return
  /\ UNCHANGED <<catcherFrame, interrupts, delayed, received, nodes, pipe, raised, eintr,
                 nested>>

BeginInterrupt ==
  /\ Innermost("check") /\ ~MustDelay /\ ~deaf
  /\ interrupts' = interrupts + 1 /\ GoTo("send")
  /\ UNCHANGED <<catcherFrame, delayed, received, nodes, pipe, kernelVars, eintr, nested>>

(* ndet_send_async_sigs: the signal counts as received, and its asynchronous*)
(* functions are called.  Such a function may make Notifier calls: a call   *)
(* takes a node from the pool if one is left, and its NTFY_END_CRITICAL     *)
(* sends what is delayed.                                                   *)
AsyncCall ==
  /\ Me.sig \in async
  /\ received' = received \cup {Me.sig} \cup delayed /\ delayed' = {}
  /\ nodes' = IF nodes > 0 THEN nodes - 1 ELSE 0
  /\ nested' = (nested \/ delayed # {})
  /\ \/ UNCHANGED <<condVars, calls>>
     \/ \E s \in Signals :
          /\ calls < MaxCalls /\ calls' = calls + 1 /\ sigChange' = TRUE
          /\ \/ async' = async \ {s} /\ UNCHANGED <<managing, installed>>
             \/ /\ async' = async \cup {s}
                /\ managing' = managing \cup {s} /\ installed' = installed \cup {s}
          /\ UNCHANGED sync

SendAsync ==
  /\ Innermost("send")
  /\ \/ AsyncCall
     \/ /\ received' = received \cup {Me.sig}
        /\ UNCHANGED <<delayed, nodes, nested, condVars, calls>>
  /\ GoTo("unblock")
  /\ UNCHANGED <<program, mainVars, pipeOn, ready, queued, deaf, raises,
                 interrupts, pipe, kernelVars, eintr>>

Unblock ==
  /\ Innermost("unblock")
  /\ mask' = Me.old \cup {Me.sig} /\ GoTo("exit")
  /\ UNCHANGED <<catcherFrame, interrupts, delayed, received, nodes, pipe, raised, eintr,
                 nested>>

EndInterrupt ==
  /\ Innermost("exit")
  /\ interrupts' = interrupts - 1 /\ GoTo("wake")
  /\ UNCHANGED <<catcherFrame, delayed, received, nodes, pipe, kernelVars, eintr, nested>>

(* Mutant: no byte is written.                                             *)
Wake_Silent ==
  /\ Innermost("wake")
  /\ Return
  /\ UNCHANGED <<catcherFrame, interrupts, delayed, received, nodes, pipe, raised, eintr,
                 nested>>

(* The last step writes a byte to the pipe, which blocks while it is full.  *)
Wake ==
  /\ Innermost("wake")
  /\ IF pipeOn THEN pipe < PipeCap /\ pipe' = pipe + 1 ELSE UNCHANGED pipe
  /\ Return
  /\ UNCHANGED <<catcherFrame, interrupts, delayed, received, nodes, raised, eintr, nested>>

-----------------------------------------------------------------------------
Application == \/ BeginCall \/ EnterNested \/ LeaveNested \/ OtherCall \/ WindowLoop
               \/ \E s \in Signals : SetSignalFunc(s) \/ UnsetSignalFunc(s)
Loop == \/ Start \/ Leave \/ LoopTop \/ FigSigChange \/ Recalculate \/ Params \/ Test
        \/ EnterPause \/ PauseReturns \/ ChooseTimeout \/ EnterSelect \/ SelectReturns
        \/ Gather \/ EndDispatch \/ \E s \in Signals : Dispatch(s)
Catcher == \/ BlockManaged \/ StartDelay \/ LoadDelayed \/ StoreDelayed \/ ReturnDeaf
           \/ BeginInterrupt \/ SendAsync \/ Unblock \/ EndInterrupt \/ Wake
Environment == \E s \in Signals : Raise(s) \/ Deliver(s)

Next == Application \/ Loop \/ Catcher \/ Environment
Spec == Init /\ [][Next]_vars


(* What the code's scheduling gives: the program runs on, a handler runs to *)
(* its end, the kernel delivers what is pending, a select() with something  *)
(* to report returns, functions of clients return and window loops end.     *)
(* Nothing makes the environment send a signal or a descriptor ready.       *)
Advance == \/ Leave \/ LoopTop \/ FigSigChange \/ Recalculate \/ Params \/ Test
           \/ EnterPause \/ PauseReturns \/ ChooseTimeout \/ EnterSelect
           \/ SelectReturns /\ (mpc = "toselect" \/ eintr \/ pipe > 0)
           \/ Gather \/ EndDispatch \/ LeaveNested \/ OtherCall
           \/ \E s \in Signals : Dispatch(s)
Fairness == /\ WF_vars(Advance) /\ WF_vars(Catcher)
            /\ WF_vars(deaf /\ WindowLoop)
            /\ \A s \in Signals : WF_vars(Deliver(s))
FairSpec == Spec /\ Fairness

-----------------------------------------------------------------------------
(* Properties.                                                             *)

(* Signals somewhere on their way from the catcher to the client.          *)
Acts(st) == {st[i] : i \in DOMAIN st}
Activations == Acts(stack)
InFlight == {a.sig : a \in {b \in Activations :
               b.pc \in {"enter", "check", "load", "store", "send"}}}
Held == InFlight \cup delayed \cup received \cup queued

(* Data integrity (ntfy.h, notes): no asynchronous function is called while *)
(* the code the signal interrupted is in a critical section.                *)
AsyncOutsideCritical ==
  \A a \in Activations : a.pc \in {"send", "unblock", "exit"} => ~InCritical

(* Whatever nesting of catchers took place, no signal stays blocked once    *)
(* the interrupted program goes on, not even after a deaf catcher, which    *)
(* returns without restoring the mask itself.                               *)
MaskRestored == Running => mask = {}

(* The catcher is in place for every signal some client waits for, whatever *)
(* calls and recomputations came between, and outside a recomputation the   *)
(* managed signals are exactly those it is in place for.                    *)
RegisteredIsCaught ==
  /\ sync \cup async \subseteq installed
  /\ mpc # "recalc" => managing = installed

(* A delayed signal waits for nothing but the end of a critical section, or *)
(* for nodes: it is never left behind by the section it was delayed by.     *)
DelayedNotForgotten ==
  Running /\ delayed # {} => InCritical \/ mpc = "leave" \/ nodes < MinNodes

(* The race the pipe was introduced for (ndet_loop.c, "NB!"): the loop      *)
(* never sits in select() with a caught signal in hand and the pipe empty.  *)
SelectNeverSleepsOnSignal ==
  Running /\ mpc = "selecting" /\ received \cup delayed # {} => pipe > 0

(* A caught signal with a synchronous function leaves the Notifier by being *)
(* handed to its client, or because the client or a window loop asked (if   *)
(* two catchers cannot interleave in sigaddset, as on x86-64).              *)
NoSignalVanishes ==
  [][program.atomic =>
       \A s \in Held \ Held' : s \in queued \/ s \notin sync \cap sync' \/ deaf]_vars

(* Every signal received while the loop runs is enqueued for its client, if *)
(* it is a loop that selects.                                               *)
SignalServiced ==
  \A s \in Signals :
    program.watches /\ s \in received \cap sync /\ mpc # "app"
      ~> s \in queued \/ s \notin sync \/ mpc = "app"

(* "The write to the pipe" can be made: the catcher does not hang in it.    *)
CatcherNeverHangs == Innermost("wake") /\ pipeOn => pipe < PipeCap

(* ntfyprotec.c: ntfy_interrupts is 0 or 1.                                 *)
InterruptsAtMostOne == interrupts <= 1

(* Assertion 10 of ndet_send_delayed_sigs: never entered at interrupt level.*)
DelayedNotSentInInterrupt == ~nested

-----------------------------------------------------------------------------
(* The inductive invariant the proofs of NotifierSignalsProofs rest on.     *)

CriticalPC  == {"api", "fig", "recalc", "params", "gather"}
InterruptPC == {"send", "unblock", "exit"}
WillWake    == \E a \in Activations : a.pc \notin {"enter", "check"}

(* The critical sections of the program are where blocked says they are.    *)
SectionsMatch ==
  /\ blocked > 0 <=> mpc \in CriticalPC
  /\ blocked > 1 => mpc = "api"
  /\ after \in {"app", "test", "dispatch"}

(* ntfy_interrupts counts the activations between the two macros.           *)
Interrupting(st)  == {i \in DOMAIN st : st[i].pc \in InterruptPC}
InterruptsCounted == interrupts = Cardinality(Interrupting(stack))

(* The innermost restored mask in the end is the outermost saved one: empty.*)
BottomSavedEmpty == stack # <<>> => stack[Len(stack)].old = {}

(* A delayed signal, or one about to be, has a reason to be.                *)
DelayJustified ==
  delayed # {} \/ (\E a \in Activations : a.pc \in {"load", "store"})
    => InCritical \/ mpc = "leave" \/ nodes < MinNodes

(* The pipe is on once the loop runs, and from the test on what the catcher *)
(* leaves behind comes with a byte in it, written or about to be.           *)
PipeFollows ==
  /\ pipeOn \/ (mpc \in {"app", "api", "leave"} /\ after = "app")
  /\ mpc \in {"test", "toselect", "callselect", "selecting"} /\ delayed # {}
       => pipe > 0 \/ WillWake
  /\ mpc \in {"callselect", "selecting"} /\ received # {} => pipe > 0 \/ WillWake

(* One-instruction updates never stop in the middle.                        *)
NoTornUpdate ==
  program.atomic => \A a \in Activations : a.pc \notin {"load", "store"}

IInv == /\ TypeOK /\ SectionsMatch /\ InterruptsCounted
        /\ AsyncOutsideCritical /\ MaskRestored /\ BottomSavedEmpty
        /\ RegisteredIsCaught /\ DelayJustified /\ PipeFollows /\ NoTornUpdate
=============================================================================
