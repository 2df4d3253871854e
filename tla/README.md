# Specifications of XView and olwm

This directory holds TLA+ specifications of the parts of the toolkit and the
window manager whose correctness depends on the order in which things happen:
the Notifier, selections, the piece streams of the text subwindow, and the states
of `olwm`'s clients. With them come the configurations that check them with TLC, and
proofs checked by TLAPS. All paths below are relative to `src/`; `notify/`,
`selection/` and `textsw/` stand for `libxview/notify/` and so on.

* [The system](#the-system): inventory of the repository
* [Plan](#plan): what is specified in which order
* [The modules](#the-modules): how each corresponds to the code
* [Runs](#runs): what each configuration asks, its bounds
* [Proofs](#proofs): what is proved, and how
* [What TLC refutes](#what-tlc-refutes): claims of comments that do not hold
* [Limits](#limits): what is not modelled or not proved

## The system

The repository is a 64-bit port of XView 4.0: the toolkit `libxview` (about
210 000 lines of C), the graphics library `libolgx` (6 000) and the window
manager `olwm` (40 000). Everything is single-threaded and built on Xlib. What
makes it hard is, within a process, *re-entrance*: signal handlers
interrupt the program between any two instructions, and functions of the
application, called by the toolkit, call the toolkit back while it is in the
middle of walking its own lists; and, between processes, that programs which share
nothing but the X server act on *events that are late*: what they tell has been
overtaken by the time it is read.

The core is the **Notifier** (`notify/`, 7 400 lines): every XView program runs
inside `notify_start`, and every other package reaches the program through
functions it registers there. Selections are where several programs work on one
protocol, olwm where one program has to guess what others have asked for. The text
subwindow has the one data structure of some depth.

| component | code | state it keeps | operations | what is hard | what makes it correct |
|---|---|---|---|---|---|
| signal delivery | `notify/ndet_loop.c`, `ntfyprotec.c`, `ntfy_node.c`, `ndet_s_sig.c` | critical-section and interrupt counters, delayed, received and managed signal sets, the node pool, a self-pipe | set and unset signal functions, begin and end critical, the catcher, a turn of the loop | nested handlers, sleeping races, tests that race with handlers | no signal is lost or stays blocked, handlers never run inside a critical section, the loop never sleeps on a caught signal |
| interposition | `notify/nint_*.c` | per condition a list of functions in a fixed-size node; a stack of copies | set, interpose, remove, next, push, pop | a list that changes while it is walked; callouts inside callouts | each notification runs down the list it started with; the stack's top is the running function's condition |
| dispatcher and posting | `notify/ndis*.c`, `ndetpevent.c`, `ndetpdeath.c`, `ndetremove.c`, `ndet_veto.c` | queues of conditions per client, a hint per client, global scratch arrays and table, flags | post event, post destroy, dispatch, flush, remove, veto, stop | nested dispatches write over the scratch arrays; functions and clients disappear while delivery is under way | nothing is handed out twice, lost, reordered or handed to a client that has gone |
| interval timers | `notify/ndetitimer.c`, `ndetsitimr.c`, `ndet_value.c`, `ndet_loop.c` | per condition a value, an interval and the time it was set; the process's two kernel timers | set, unset, ask, recompute, expire, poll | the clocks go on between reading and arming; one kernel timer stands for many | no timer is left behind, fires early, or begins to poll by itself |
| condition tables | `notify/ntfy_ctbl.c`, `ntfy_cond.c`, `ndet_die.c` | per type a list of conditions, enumerators with saved pointers | add, remove, enumerate, notify_die | removal during enumeration, nested enumerations | each surviving condition is visited once, no freed one |
| implicit dispatching, descriptors, children | `notify/ndet_read.c`, `ndetselect.c`, `ndet_fcntl.c`, `ndet_auto.c` | descriptor sets and their modes | read, select, fcntl, wait | `EINTR`, descriptors closed in between | read and select behave as without the Notifier |
| accessors | `notify/ndet_fd.c`, `nint_get.c`, `ntfy_debug.c` ... | none of their own | getters, messages | | |
| selections: ownership | `selection/sel_own.c`, `sel_util.c` | per object whether it owns the selection and since when; per process the object found for a selection, the last one registered | own, disown, destroy, clear, serve a request | a SelectionClear that comes after the object owns the selection again; several objects of one process, of which the server tells nothing; losing it while a request is served | who believes he owns the selection owns it or will be told |
| selections: requests | `selection/sel_req.c`, `sel_util.c` | a table of pending requests, their timers, a pool of properties | post, request and wait, answer, time out, several targets at once | answers after the timeout, when property and slot serve another request; blocking requests among posted ones | a request ends, is handed only its own data, shares no property |
| selections: increments | `selection/sel_own.c`, `sel_req.c` | the property, the place in the data, event masks | write, take, wait with a timeout, stop | both programs wait for events of one property that both change; either dies | each piece once, in order; nobody waits for ever |
| items, talk, quick and old selections | `selection/sel_item.c`, `talk.c`, `libxview/sel` | stored conversions, messages | set and get | | clients of the above |
| drag and drop | `libxview/dnd` | sites, the drag under way | send, decode, begin and finish a transfer | acknowledgement racing a timeout | source and destination agree whether the drop took place |
| olwm: client states | `olwm/states.c`, `events.c`, `winpane.c`, `winroot.c`, `winframe.c`, `group.c` | per window a state, unmappings to be expected, group and role; `WM_STATE` | manage, withdraw, iconify, open, hide, show all; restart | UnmapNotify events of olwm's own requests look like those of clients; windows withdrawn, mapped again or destroyed while events are on their way | what olwm believes is on the screen; `WM_STATE` says so |
| olwm: the rest | `olwm` | focus, decorations, menus, resources, drop sites | | | |
| objects and attributes | `libxview/base`, `attr` | instances, reference counts, attribute lists | create, get, set, destroy in phases | destruction vetoed in one phase, carried out in a later one | no use after destruction |
| text: piece streams and undo | `textsw/ps_impl.c`, `finger_tbl.c`, `txt_input.c`, `txt_sel.c` | a table of pieces, its length, the position with its cached piece, the records of the scratch stream, undo marks | insert, delete, set position, read, undo, checkpoint; writes that fail in memory | four summaries of one document, each kept by increments; records extended in place; undo over pieces that later edits split | they agree about the text; undo restores it |
| text: the scratch file | `textsw/es_file.c` | a file, a write buffer and a read buffer, two lengths | append, overwrite, cut back, read | a cell may be in three places at once; writes fail in the middle of an edit | a reader finds what was written; each read ends |
| text: views, fingers, files | `textsw` | marks that move with edits, lines, buffers | load, store, filter, display | positions that move under other edits | fingers follow their text |
| terminal subwindow | `libxview/ttysw` | screen contents, parser state | input, escape sequences | | |
| region lists | `libxview/rect` | lists of rectangles | union, intersection, difference | corner cases of geometry | the lists denote the right sets of points |
| windows, frames, notices | `libxview/window`, `win`, `frame`, `notice`, `fullscreen` | grabs, input masks | event translation, blocking notices | | |
| panels, menus, scrollbars, canvases ... | `libxview/panel`, `menu`, `openwin` ... | items and layout | drawing, pointer handling | | mostly appearance |
| server, screen, fonts, colours | `libxview/server`, `font`, `color` ... | caches in front of X | look-up | | |
| defaults, streams, strings, help, additions | `libxview/defaults`, `io_stream` ... | | | | |
| libolgx | `libolgx` | | drawing | | appearance |

How the Notifier's parts interact:

```
 kernel --signals--> catcher --delayed/received--> notify_start --enqueue--> dispatcher
            ^            | byte in the pipe ---------^  | ^                     | copies of callouts
            |            +-- asynchronous functions --+ | |                     v
   process timers <---- timers <-- top of the loop ---+ | |              interposition stack
            application functions: post, set, flush, remove, destroy <----------+
```

The *detector* (`ndet_*`) knows what clients wait for; the *dispatcher*
(`ndis_*`) holds what has been found and not yet handed out; the *interposer*
(`nint_*`) decides which functions a notification calls. Signals reach the
detector through the catcher, everything else through the loop or through calls
of clients.

`PROJECT.json` lists the components with their files and every hazard with its
line and the properties about it.

## Plan

1. `NotifierSignals` — the foundation: if signals are lost or the lists are
   entered from a handler, nothing above holds. Proved. **Done.**
2. `Interposer` — the lists of functions and the callout stack. Proved. **Done.**
3. `EventDelivery` and `NotifierDispatch` — what posting an event promises and
   the dispatcher that implements it, with destruction. Proved. **Done.**
4. `NotifierTimers` — timers over the loop of 1. Proved. **Done.**
5. `SelectionOwnership`, `SelectionRequests`, `IncrTransfer` with `Stream` — the
   selection service, owner and requestor as programs that exchange events, with
   timeouts and programs that die. Proved. **Done.**
6. `PieceStream` — the document of a text subwindow. Proved. **Done.**
   `ScratchFile` — the file below it, when writes fail. **Done.**
7. `ClientStates` of olwm. Proved. **Done.**
8. `ConditionTable` — the enumerators that keep a next pointer, the paranoid
   enumerator that removal repairs, and `notify_die` on top of it, with the
   error exits of the loop (SIGTERM). An abstract specification "every condition
   that stays is visited once".
9. Fingers of the text subwindow over `PieceStream`; `DragDrop` over the two
   modules on selections; implicit dispatching and children as callers of 1 and 3;
   `RectList` as pure operators against sets of points.

Composition: `NotifierDispatch` implements `EventDelivery` (a refinement mapping
at the end of the module). `NotifierDispatch` calls one function per
notification where the program runs down a list of them; `Interposer` is that
list. `NotifierTimers` has "the signals that have arrived" where
`NotifierSignals` has the catcher, and `NotifierSignals` has a set of queued
signals where `NotifierDispatch` has the queues. The seams are these variables:

| in | variable | stands for |
|---|---|---|
| `NotifierSignals` | `queued` | `NotifierDispatch.queue`, restricted to signals |
| `NotifierTimers` | `signals` | `NotifierSignals.received`, restricted to SIGALRM and SIGVTALRM |
| `NotifierTimers` | `queued` | `NotifierDispatch.queue`, restricted to timers |
| `NotifierDispatch` | one activation of kind "call" | a frame of `Interposer.stack` with the functions it calls |
| `SelectionOwnership` | `pc` at "incr" | a transfer of `IncrTransfer` |
| `SelectionRequests` | `calls` | "request" events in an owner's `SelectionOwnership.inbox` |
| `IncrTransfer` | `requestor` at "asked" | a request of `SelectionRequests` that has been posted |
| `PieceStream` | the sequence of records | what `ScratchFile` keeps, as long as its writes succeed |

`IncrTransfer` implements `Stream` (a refinement mapping again, proved).

## The modules

### NotifierSignals

| specification | code |
|---|---|
| `blocked`, `interrupts`, `deaf` | `ntfy_sigs_blocked`, `ntfy_interrupts`, `ntfy_deaf_interrupts` |
| `delayed`, `received`, `managing` | `ntfy_sigs_delayed`, `ndet_sigs_received`, `ndet_sigs_managing` |
| `nodes` | `ntfy_nodes_avail` |
| `program` | what the loop watches (descriptors, or signals only: then it pauses), and whether `sigaddset` was compiled to one instruction |
| `pipe`, `pipeOn` | `pipefds`, `pipe_started` |
| `mpc`, `after` | where `notify_start` or a call of the application is |
| `stack` | activations of `ndet_signal_catcher`, each with its saved mask |
| `raised`, `mask` | the kernel's pending signals and the process's mask |

The catcher is split into the steps between which another catcher may come in:
`BlockManaged`, `StartDelay` (or `LoadDelayed` and `StoreDelayed` if `sigaddset`
is two instructions), `BeginInterrupt`, `SendAsync`, `Unblock`, `EndInterrupt`,
`Wake`. The loop is split where a signal between two statements makes a
difference: `Test` decides between `pause` and `select`, `ChooseTimeout`
evaluates the timeout, `EnterSelect` enters the system call. A call of the
application is `BeginCall`, then one of `SetSignalFunc`, `UnsetSignalFunc`,
`OtherCall`, then `Leave`. Several asynchronous functions for one signal are one
step: nothing they do depends on how many they are.

### Interposer

`detector` is the callout of each condition in `ndet_clients`, `queue` the
copies `ndis_enqueue` makes, `stack` is `nint_stack`, `calls` the processor's
stack. A node is an array `slots` of `FuncsMax` pointers, of which the first
`count` are in use; `Junk` is what a node holds before it is written.
`InFront` and `Without` are the two loops that shift pointers. The callout is
copied by `Push` (`nint_push_callout`); `NextFunc` is `nint_next_callout`.
`Disciplined` says that functions call `notify_next_*` at most once, and the
last one never does; `FALSE` leaves functions free.

### EventDelivery and NotifierDispatch

`EventDelivery` is the promise: per client a queue of waiting events; an event is
taken once, waits or is handed out, and the waiting ones go in order or are
forgotten together.

In `NotifierDispatch` the processor's stack is explicit, with one record for each
activation that calls out: `sched` (`ndis_dispatch` with the scheduler),
`client` (`notify_client` with the prioritizer), `call` (a client's function) and
`copy` (a copy function called by `notify_post_event_and_arg`). What those share is
global: `sched` is `ndis_sched_nclients`, `events` is the arrays `ndis_events`
and `ndis_args` with their count, `eventQueued` is `NDIS_EVENT_QUEUED`, `vetoed`
is `NDET_VETOED`. `program` is the application that runs, one of the constant
`Programs`: a record of the functions its clients have set at first, the calls they
make and the destroy statuses they use, and the bounds on all of these.
`queue`, `order` and `latest` are the dispatcher's conditions,
its list of clients and the hint `condition_latest`. `funcs` is what the detector
knows; `processing` is `NCLT_EVENT_PROCESSING`.

An action runs from one call-out to the next: `NotifyEvent` and `NotifyOther`
end when the client's function has been entered, `Return...` is what
`ndis_send_func` and its callers do after it. A function may do any of the calls
in the program's `calls` before it returns. `Detect` is what a turn of the loop finds (the
selecting and the sweep over conditions, which change nothing else here).

### NotifierTimers

`timer` is the `NTFY_ITIMER` of each condition, `change`, `poll`, `auto` are the flags
and signal bits of the detector, `process` the kernel's timers, `clock` the two
clocks. `Top` and `Serve` start `ndet_update_real_itimer` or
`ndet_update_virtual_itimer` by reading the time; `Update` does the rest and
arms the process's timer, time going on between the two. `Subt` is
`ndet_tv_subt` with its three cases and its exception for the polling value;
`Minima` is the set of results `ndet_tv_min` may give over a list whose order
is not fixed. `PollSend` is `ndet_poll_send`. `due` is added: the time a timer
should expire, counted by the environment's clock and not by the code's
arithmetic.

### SelectionOwnership

| specification | code |
|---|---|
| `own`, `time`, `busy`, `losing` | `Sel_owner_info`: `own`, `time`, `SEL_BUSY` and `SEL_LOSE` in `status` |
| `context` | the object saved under the window's `selCtx` for the selection's atom |
| `client` | the list of `RegisterSelClient`, one selection's part of it |
| `seen` | the `server_get_timestamp` of a process |
| `server`, `inbox` | the X server: owner and last-change time; events on their way |
| `pc` | where a process waits: for the answer of `XGetSelectionOwner` in `sel_set_ownership` ("check"), for a new time ("retry"), for the second answer ("recheck"), in a transfer in increments ("incr") |

`Acquire`, `Confirmed`, `TooOld`, `TryAgain` and `Failed` are `sel_set_ownership`
split at its round trips to the server; `Disown` and `Destroy` are
`SelLoseOwnership` (with its two ways, `LoseOrMark`) and `sel_owner_destroy`; `HandleRequest`, `HandleClear` and
`Served` the handlers and `SelClean`. A request is refused (`Refuse`) or served
(`Serve`), and then in one piece, in increments, or as an obsolete client's (property
`None`): the branch for these returns before `SelClean` and leaves the object busy, which
the properties call `Stuck`. An event is taken from an `inbox` when the process
is idle; in a transfer only a SelectionClear is, as `xv_sel_block_for_event` leaves
the rest in the queue.

### SelectionRequests

`request` has a record of every `Sel_reply_info` ever made; `table` is the
requests' table (`Sel_req_list`), `taken` the entries of `Sel_prop_list` that are
not `avail`, `timer` the timers of pending requests. `Request` is `sel_post_req` or
`xv_get(SEL_DATA)` up to `XConvertSelection`; the owner, another program, sees
`calls` and leaves `events`; `Notified` is the handler of a SelectionNotify, `Answered` and
`BlockingTimeout` the two ends of `xv_sel_block_for_event`. Reading is split where
functions of the application run: `Read` calls the reply_proc, `Returned` is the rest
of a turn of the loop over targets. `End` is `xv_sel_end_request`, which finds the request's
slot anew by its contents.

### IncrTransfer and Stream

`Stream` is the promise: pieces in order, then the end, or a failure.
`IncrTransfer` has one property `value`, a queue of events for each program and
the place each is at. The owner's steps are `DoConversion`
(`Converts`) and one turn of `xv_sel_handle_incr` (`OwnerEvent`); the requestor's are
`XvGetRequestedValue` (`Notified`), the two statements of `ProcessIncr` before its
loop (`AddMask`, `Start`) and a turn of that loop (`RequestorEvent`). An event carries whether its
time differs from the request's, as `check_incr_prop` drops those for which it does
not. `patient` chooses at the beginning between programs that live and wait and
ones that die or give up at any moment.

### PieceStream

`pieces`, `length`, `position`, `current`, `lastWrite`, `recStart` and `oldest` are the
fields of `ps_private` of those names (`last_write_plus_one`, `rec_start`,
`oldest_not_undone_mark`). The scratch stream is the sequence of its records, each with
the pieces it removed and the number of characters it inserted; `undo` is `priv->undo`, with
the text at the time of each mark added. A character is named by where it comes from, so that
`Text`, what the table says, can be compared with `Replay`, what the records in force say.

`ps_replace` is four actions, one for each of its ways: `ReplaceRegion` (something is
deleted), `Extend` (the insertion continues the last one: record and piece are lengthened in
place), `Insert` and `InsertFirst`. `Fails` is the write to the scratch stream that
fails after the table has been split: the stream is then cut back to its old length. One in
memory (`es_mem`) always can be. One in a file (`es_file`, of every document that was loaded
from a file) cannot, and the code does not look at the result: for it `PieceStream` says
what happens when writes succeed, and `ScratchFile` what else may. `HoldSpan` and `InsertPieces` are
`ps_pieces_for_span` and `ps_insert_pieces`, `Checkpoint` and `Undo` the text
subwindow's `textsw_checkpoint_undo` and `textsw_do_undo` over `UndoTo` (`ps_undo_to_mark`).
The loops of the code (over pieces, over records) are recursive functions on the indices
`0..n`, so that the module can be reasoned about.

### ScratchFile

The stream of cells below `PieceStream`, for a document that was loaded from a file. A cell is a
field that is written as a whole: part of a header, a count, a flag, text of one call.

| specification | code |
|---|---|
| `file`, with `length` | the file in `/tmp` and `length_on_disk` |
| `writeBuf`, `readBuf` | `es_file_buf`s: where each starts, and what it holds |
| `wrote` | added: the cells as they were written. Its length is `private->length` |
| `lost` | added: the cells whose write failed, or was taken back with an edit |
| `edit` | `scratch_length` in `ps_replace` while an edit is under way |
| `reading` | `pos` and `still_needed` in the loop of `es_file_read` |

An edit is `Begin`, some `Write`s (the parts of a record: `es_file_replace` at the end) and
`Done`, or a write that fails and the way back: `WriteFails` is the failing `write(2)` (nothing,
or the first cells, have got to the file, `Failing`) and `Error_Return` in `ps_replace`
(`BackOut`, with the three things truncation may do). `Overwrite` is the count of a record that is
lengthened and the flag of one that is undone; `small` tells whether it has fewer than five bytes,
which go to the file directly. `MovedTo` is `es_file_move_write_buf`, `Flushed`
`es_file_flush_write_buf`, `Filled` `es_file_fill_buf`, `Uncached` `update_read_buf`. `Take`, `Fill` and
`ReadDirect` are the three turns that the loop of `es_file_read` can take. It is a loop of one thread:
nothing else happens until it ends, which is why weak fairness of its turns is assumed.

### ClientStates

`client` is olwm's `Client` with its state, its group and role, and `pendingUnmaps` of its pane;
`mapped` and `wmState` are the server's, `queue` the events that olwm has not read, with
what the user does among them; when a Client goes, `Orphaned` turns what is still to come for it
into events of no window. `asked` and `telling` are a client's own view: what it last did, and
whether the second request of `XWithdrawWindow` is still to come. `WaitsForRoot` is what the ICCCM
(4.1.4) asks of clients: one that has withdrawn a window maps it again only when that is
complete (`Withdrawn`): olwm has no Client of it and no request for one. `existing` holds
the windows that `ReparentTree` has yet to look at when olwm starts; their `WM_STATE` is what
an earlier olwm left. `StateNew`, `StateIconic`, `StateNormal`,
`StateInvisible` and `StateWithdrawn` carry the names of `states.c`; the actions `On...` are
the handlers that call them. A handler is one step, with the requests it makes.

## Runs

TLC is run with deadlock checking off everywhere: the environment's budget of
calls, signals and detections runs out, and `notify_start` then waits for good.

| run | about | instance |
|---|---|---|
| `signals` | data integrity, the mask, the self-pipe, delayed signals, `IInv`, and that a caught signal is serviced | 2 signals, 2 arrivals, 4 calls, nesting 2, pipe of 4; `Each` of 4 programs: a loop that selects or pauses, `sigaddset` in one instruction or torn |
| `interposer` | callouts follow their copies; `IInv`: lists dense, stacks matching | 2 conditions, 2 functions, nodes of 3, 4 changes, depth 3 |
| `dispatch_loop` | inside `notify_start`: no recursive, double or stale event; every waiting event is handed out | program `Loop`: 2 clients, 3 events (one copied), 3 calls, 2 detections, depth 6 |
| `dispatch_ways` | detector and dispatcher agree; nothing is stranded; the promise of `EventDelivery` is kept | programs `Both` (immediate functions, asynchronous posts), `Out` (outside the loop, depth 12), `Many` (every kind of condition and status), `Vetoes` |
| `timers` | none left behind, none early, none polling by itself, `IInv` | 2 clients with 2 timers each, 2 calls, 5 microseconds, 3 to a second |
| `timers_polls_first` | *violation:* "Reset itimer value from interval" (`notify/ndetitimer.c:165`) | 1 client, 1 call |
| `selection_owners` | who believes he owns the selection owns it or learns that he does not; a new owner is not undone by the loser | 2 processes, one with 2 objects; clock to 4, 4 calls, 2 events per process |
| `selection_requests` | properties kept apart, each answer to its own request, each request with its timer, each ended | 3 requests, 2 targets, `MULTIPLE` of both |
| `incr_transfer` | the pieces arrive as in a `Stream`; a patient transfer is completed, an impatient one ends; `IInv` | 4 pieces |
| `pieces` | table, records, cached piece and undo agree about the text | original of 1, length to 3, 3 edits of 1 character to a stream in memory, that may fail, 3 undo marks |
| `scratch_file` | a reader finds what was written last, but for what a failed write took with it; its reads of what is there end | buffers of 3 and 2 cells, parts of up to 4, 6 cells in all, 4 writes |
| `client_states` | no window let go for olwm's own unmapping; when all is handled, the screen is what olwm believes | 2 windows (popup of the other, or of its group), 2 requests, 2 actions of the user |

### Why the bounds are enough

* Signals: a race involves the program, the signal that is on its way and one
  that interrupts its catcher; two signals give every such pair, and a second
  arrival of either. Four calls allow one to be nested in another after two
  others have changed the conditions. `PreAlloced` = `NodesPerBlock` = 2 with
  `MinNodes` = 1 lets the pool run below the minimum and be refilled.
* Interposition: a node of three pointers is the smallest in which one is
  neither first nor last; the code's has `NTFY_FUNCS_MAX`, and the proofs
  are for any size. Two functions let the same one stand twice in a list.
* Dispatching: the interesting events are those posted from within a function
  for a client that is being handled. Three posts make one activation inside
  another with one more event pending; two clients make the scheduler pass one
  before the other has posted to it. Depth 6 is a dispatch (two records), a
  function, and a dispatch or copy inside it; outside the loop each post
  dispatches, so `Out` needs 12 for all its posts to nest. The
  programs have different calls because all of them at once are out of reach: each
  names the set its question needs. `notify_veto_destroy` needs no bound.
* Timers: three microseconds to a second make every case of the borrow and of
  the polling exception in `Subt` happen; five microseconds let a timer of one
  second expire and be wound up; two clients compete for one process timer.
* Ownership: the hazards need an owner that loses the selection to another process and has it
  again before it reads the SelectionClear, or an object of the same process in
  its place: three objects, four calls. `MaxTime` leaves a tick for each.
* Requests: a property goes from one request to another only after its first user
  has been ended with an answer still to come, and a third one can then come between; two
  targets make a partly converted `MULTIPLE`.
* Increments: four pieces give a first, a last and two in between whose
  events can be mixed up; the proof is for any number.
* Pieces: three edits are an insertion, one that splits or deletes it, and one after an undo
  of these. One original character lies before, in or after each. The three marks include
  the last place of the array, which is treated specially.
* Scratch file: three cells in the write buffer are text of an earlier edit, a header and the
  part that fails; parts of four cells exceed both buffers, those of three only the one for
  reads. Four writes are two edits of two parts each, or one edit and the overwriting of its
  cells, after which the write buffer may lie before, at or behind any place.
* Clients: two windows make a group and a follower. An iconification, a withdrawal and
  what the user does in between fit into two requests and two actions.

### Fairness

`NotifierSignals.Fairness`: the program goes on, a handler runs to its end, the
kernel delivers what is pending and not blocked, a `select` that has something
to report returns, functions of clients return, and a window loop ends. Nothing
obliges the environment to send a signal or make a descriptor ready, so a sleeping loop may sleep
for ever. `NotifierDispatch.FairSpec`: the notifier goes on and functions of
clients return; no client must call anything. `NotifierTimers.FairSpec`: the
time of day advances (weak fairness of a tick), and the loop's steps are
weakly fair, the return of `select` only if a timer polls, something is queued
or a signal has arrived. A single-threaded program on a kernel that schedules it
gives all of these; that functions return is what every XView program has to
grant anyway, as the manual requires.

`SelectionOwnership.FairSpec`: time goes on, a process reads its events, and what waits for
the server gets its answer; nobody must acquire, give up or ask. `SelectionRequests.FairRequests`:
the program goes on (weak), and a timer that is set again and again finds the process
idle expires (strong: a timer that is not served while a function runs
stays expired); the owner need not answer. `IncrTransfer.FairSpec`: the two programs go on, and
one that waits for events that do not come gets its timeout (only if `patient` is
`FALSE`; a patient transfer has none to rely on). `ScratchFile.FairSpec`: the loop of a read goes on.
`PieceStream` and `ClientStates`
state no liveness: nothing in them waits.

## Proofs

TLAPS proves the following for all values of the constants that satisfy the
modules' assumptions (`PoolAssumption`, `EnvAssumption`, `ProgramAssumption`, `FuncsAssumption`, `ConstantsAssumption`,
`BoundsAssumption`, `TimerAssumption`, `TransferAssumption`, `OwnersAssumption`, `RequestsAssumption`, `StatesAssumption`, `PieceAssumption`, which say no more than
that numbers are numbers, that MULTIPLE is no ordinary target, that the pool's minimum is not above its level, that there are finitely many
clients and windows, that hints are about these windows, that null and junk are not functions, that an object belongs to a process, that the server's clock can
reach 1, that the original document is within the bound on lengths and that textsw keeps at least two undo marks).

### NotifierSignalsProofs

`Invariance` is `Spec => []IInv`. The safety properties are not inductive: that the
mask is empty when the program runs needs to know what the *outermost* activation
saved (`BottomSavedEmpty`), as each restores what it found; that `interrupts` is
a natural number needs it to be counted by activations (`InterruptsCounted`);
that the loop does not sleep on a signal needs the byte that is still to be
written (`PipeFollows`, `WillWake`). `AsyncOutside`, `MaskIsRestored`,
`RegisteredCaught`, `DelayedSent`, `SelectRaceClosed` follow. `NothingVanishes`
is the action property, from `IInv`. It speaks of programs in which `sigaddset` is one
instruction (`program.atomic`), as it is with gcc on x86-64; `DelayedSent` needs no such condition.

### InterposerProofs

`TypeCorrect`, `ListsDense` and `StacksMatch` hold for any functions, from the
invariant `WInv`: frames hold at least one function, levels of activations rise
and exist. `Invariance` and `RunsDownTheList` are under the assumption
`Disciplined`: the index of a frame then stands at its innermost function
(`IndexFollows`), as long as that has not passed the notification on
(`CallersPassed`).

### NotifierTimersProofs

`SubtIsDifference` says what `ndet_tv_subt` computes, for seconds of any number of
microseconds: the difference, or nothing if that is negative or would poll. `TypeCorrect` and
`NoPollingMade` hold for any clients; every step moves a timer in one of five
ways (`StepMoves`), which is all that the invariant `Requested` depends on.
`Invariance` (`Spec => []IInv`) and `AlwaysWatched` assume `Orderly`: no timer is asked to poll first and then at an
ordinary interval, none is as long as the end of time, no virtual timer is asked
for its value, because in these three cases the code does leave timers behind. The
invariant adds `InTime`, so that no time is taken for "no timer" by `Armed`, and
`Taken`: the signals taken over by a turn of the loop are served before the next
`select`, which would write over them.

`NeverEarly` needs no assumption on clients at all. The notifier does not keep the time a timer
is due, only what is left of it and a time to compare with, and brings both up to date now and
then by two differences, each of which may leave out a microsecond. `Punctual` ties that to the
ghost `due`: a timer in real time is due no later than `set` and its value together, one in user
time no later than what is left once the process's timer has run down from `set` to where it
is, or was when the update under way read it (`Running`); a timer with nothing left, or one
that polls, is due within a microsecond. `MicroSubt` says what the differences are as numbers; the
inner one, if it leaves something out, only makes more be left (`PunctualExpired`, `PunctualCounted`).

### SelectionProofs: ownership

`TypeCorrect` and `BelievesRightlyAlways` hold whatever the times are, from the invariant
`WInv`. It says that an object which is acquiring, or serves in increments, is the one its process
finds, and in the first case does not own yet (`AskingIsFound`); that only busy objects are marked
`SEL_LOSE` (`MarkedIsBusy`), and a destroyed one goes on owning only if it was busy (`DiesBusy`); that of the objects
of a process only the last one registered owns, besides such as were left busy and are no longer found
(`Registered`); and that the owner's time is not ahead of the server's (`NotAhead`): so
the time in a SelectionClear is never before the acquisition that it ends, and the
comparison in the handler does not throw the news away.

`BelievesRightly` is split in two. `OwnsOrLearns` holds of busy objects as well: to serve a request is to
forget `SEL_LOSE` (the status is set anew), so the invariant has to say that this never
happens to the only trace of a loss. A request for an object comes before the SelectionClear that tells it of
the loss, as the server sends no request to a window that has lost (`Followed`, `InTurn`), and the mark of
one that is handled within a transfer stays until `SelClean`. `FindsNoOther` is what an obsolete client
destroys: it is stated of objects that are not `Stuck`, and `OneOwnsIt` (under "What TLC refutes") shows what becomes of the others.

`OwnerKnowsAlways` and `NewOneKeepsItAlways` assume `DistinctTimes`: with two acquisitions in
one tick a SelectionClear that is late cannot be told from one that is not. The invariant
`SInv` adds that marked objects still own (`LosingOwns`), that no two objects have the same time (`TimesUsed`), that who owns
acquired it no later than the server's last change (`OwnTimesPast`), that every
SelectionClear on its way is of an earlier change (`NewsPast`), that the time of the
server's owner is the last change, and what is on its way to it is older (`OwnerIsCurrent`),
and that a second attempt has a time of its own (`RetriesAnew`). Two lemmas
carry it: a step that gives up or leaves alone keeps it (`Keeping`, `GivingUp`), and so does
one that asks the server with a fresh time (`Asks`). `NewOneKeepsItAlways` follows as
the loser in the process has an earlier time than the new owner, so that the server
ignores what it gives up.

### IncrTransferProofs

`Invariance` is `Spec => []IInv`, `ImplementsStream` is `Spec => IsStream` if no convert_proc
fails in the middle (`MayTruncate = FALSE`). The argument is that, while nobody presses Stop, there is one
token: either the property has a value, or one event "delete" is on its way to the owner, never both
(`OneToken`), so that a piece is written only when the one before has been taken;
`InOrder` ties the pieces that have arrived to the owner's place in the data and to what
the property holds, and `NotStarted` says that the owner begins from the beginning, with the
requestor waiting. Each step is then a step of `Stream` or a stutter: taking a piece is
`Receive`, taking the piece of length zero `End`, giving up `Fail`.

### NotifierDispatchProofs

Every theorem is about any number of clients and events. Those about a class of
`Programs` name it as a hypothesis on what their clients call; outside the
class TLC refutes the property (see the next section), so the hypotheses are
where the code's own protection ends.

`BaseAlways`, for every program, is the base: the types, the dispatcher's lists
(`Lists`), which activation may rest on which (`NestedIn`: `notify_client` on the
scheduler, a dispatched function on the `notify_client` of its own client), and
`StillWanted`. A step moves the lists in one of two ways: they stay and no
function is unset (`Kept`), or those of one client are replaced by lists that fit
its functions (`Moved`). From it follow:

* `PendingStaysSound`: for every program.
* `NeverStranded`: for every program that does not enter `notify_start`. The
  invariant `OnePending` says that at most one condition is pending, and then
  `notify_client` for its client, or the scheduler about to reach that, is on top of the
  stack (`Alone`): functions are called only when nothing is pending any more, so the outer
  dispatches lose nothing when inner ones write over the table and the arrays.
* `VetoIsHonoured`: programs that veto do not call `notify_post_destroy` with
  `NOTIFY_IMMEDIATE`, and post nothing outside `notify_start`. Then only one dispatch
  is on the stack (`OneLevel`), and the flag belongs to the function that runs
  (`VetoKept`). No run repeats it; the table below has the programs outside the class.
* `NeverRecursiveSafe`: no immediate functions, nothing posted outside `notify_start`, no
  function set after its client was removed. The invariant `Guarded` says that the
  client of each safe call on the stack keeps its flag or has been removed.
* `NeverHandedTwice`, `HandsWhatPends`, `EventsStayIntact`, `PromiseIsKept`: each event has a
  code of its own (`DistinctCodes`), and programs with copy functions do not post from
  asynchronous functions (`CopiesKept`). The invariant `Told` says that an event is waiting,
  handed over or undecided, each once (`Ledger`), and that the arrays of the
  `notify_client` in turn hold the first events that wait for its client, in their
  order, or none that waits (`InTurn`). It is this disjunction that flushing, removing and nested
  dispatching keep: what goes, goes altogether, and an inner dispatch leaves empty arrays
  behind. In `PromiseIsKept` each step is one of four kinds, as far as events are concerned
  (`Quiet`, `Opens`, `Decides`, `Hands`), and each kind a step of `EventDelivery` or a stutter.

`OfKinds` is defined by recursion over a sequence. What it yields is proved without
an induction theorem: of the lengths for which a statement fails there would be a least
one (`Least`), and the sequence without its last element contradicts that.

### SelectionProofs: requests

Any targets, any list of targets, any number of requests. Three invariants, each on top of
the one before:

* `Base` assumes that no two requests have the same time (`OwnTimes`). The table finds a
  request by its contents, so it is the times (`Later`) that make `xv_sel_end_request` free
  the slot and the timer of the right one; each pending request stands in one slot
  (`Tabled`), and the pool has enough properties for the requests that may come (`Enough`,
  by counting), so that `Available` chooses what exists. `TimedAlways` follows.
* `Apart` assumes besides that no reply_proc posts a request (`~PostInside`). It says more
  than the property: a request under way shares no property with any *later* request,
  also one that has ended (`LaterApart`), as the owner may answer that one yet; the properties
  of a request are reserved until it is read (`Reserved`); and the list of pairs in a
  request's property is its own or a later one's (`ListsFrom`). `ApartFromEachOther` follows.
* `Delivered`: the owner answers in order (`InOrder`), so what it writes now belongs to a
  later request than any answer on its way or being read, and by `LaterApart` goes to
  other properties (`AnswerSpares`). What an answer names therefore still holds what
  was written for it (`Arrives`), until it is read (`ReadsGood`). `HandedAlways` follows.

Outside these hypotheses TLC refutes the properties (next section). A step is one of a few
kinds whatever its action (`StepIs`): a request is made, begins to be read or ends, an answer is
ignored, and each invariant is proved once for each kind.

### ClientStatesProofs

Any windows, any hints, any number of requests; the theorems assume `WaitsForRoot`. The
two properties are about the end of a history: a window that olwm has hidden gets its
`UnmapNotify` much later, and only if nothing else has ended it before. So the invariant
(`Good`) speaks of what the whole queue holds about each window:

* A window that is shown and has a Client has no event to come that would let it go, other
  than the unmappings of olwm's own, and of these no more than `pending`; it is mapped exactly
  when its state is Normal. One that has none yet is either still to be looked at
  (`ReparentTree`) or requested, and what is left of its past comes before the request
  (`Shows`). This is where the assumption is needed, in `MapKeeps`.
* One that is withdrawn has a synthetic event to come if it has a Client, and one after each
  request (`Withdraws`): the real `UnmapNotify` may have been counted as one of olwm's own.
* One that is destroyed and has a Client has its `DestroyNotify` to come.
* One that is mapped without a Client has been there since olwm started, and nothing has
  happened to it (`Found`); a MapRequest on a frame is of a window that has a Client.

The lemmas `Good...` say how each kind of step moves this for one window: an event is
appended or handled, a window is hidden, shown, let go, managed or changed by its client; the
lemmas `...Keeps` find for each action which kind it is for which windows, groups and
dependents included. What is counted is places in a sequence (`CountTail`, `CountConcat`), and a
handler unmaps each window once (`UnmapsOnce`).

The first attempt at this proof failed, rightly: it assumed only that the client waits until olwm
has let the window go. Then a window may be mapped, iconified, withdrawn and mapped again
while the first MapRequest is still unhandled. One window and four requests show it; with three
TLC finds nothing wrong. The assumption is now what the ICCCM says.

### PieceStreamProofs

Any original, any lengths and numbers of characters, any number of undo marks, with writes that
fail or not if the scratch stream is in memory, and for a scratch file whose writes succeed. `Invariance` is `Spec => []IInv`; `AlwaysConsistent`, `AlwaysReplay`,
`AlwaysReadRight`, `AlwaysOriginal` and `UndoAlwaysRestores` follow, the last of them an
action property.

A table of pieces is described by where they lie, not by what it sums up to: `Lies(ps, a, b)` says
that pieces of positive length stand end to end from `a` to `b`, `Shows(ps, text)` that each
of their characters is the one at that place of a text. Both fall apart at a cut and
join again (`Parted`, `Joined`), move (`Shifted`) and survive a split (`SplitIs`), so that each edit
is a computation on three parts: what is before it, what it replaces, and what is behind it and
moves (`Spliced`, `Edited`). Only at the end are they turned into `Denotes`, `LengthOf` and
`LaidFrom` (`DenotesIs`, `LengthIs`, `LaidIs`).

`IInv` says that there is a chain of records `C[1] .. C[n]` from the oldest edit in force to
`rec_start`, and for each a text `T[i]` and a set of places `B[i]`, such that (`Whole`):

* each record takes `T[i - 1]` to `T[i]`: the pieces it deleted show what `T[i - 1]` had there,
  what it inserted is its own text or what its pieces denote (`Edit`);
* the table lies from 0 to the length and shows `T[n]` (`Fits`);
* the table has an edge at every place of `B[n]`, and going back over a record takes `B[i]` to at
  least `B[i - 1]`, inside the deleted pieces as well. This is why the invariant is more than the
  properties: undo looks for the pieces that make up the inserted text, which works only
  if no piece reaches across an end of it. Splits and later edits keep such edges, and undo
  takes away edges that came later, and no others;
* the record that typing may lengthen is the last one of the chain, of the text kind, no mark is as
  new as it, and its end is `last_write_plus_one` (`Open`);
* each mark in force stands between two records of the chain and has the text of that place
  (`Marks`): undo to it leaves `T[k]`, which is `UndoRestores`.

Besides, the cached piece holds the position (`Cached`), and a held span is laid end to end
(`SpanLies`). Typing on is the delicate case: `Continues` shows that lengthening a record
in place gives the chain in which that record had inserted the longer text from the
start. `UndoneIs` follows undo along the chain record by record; `RecordUndone` is one of them.

What the recursive functions yield is proved without an induction theorem: of the numbers for
which a statement about a set fails there would be a least one (`Least`, `Induct`), and that a
function with the recursive equation exists is shown the same way (`SumsAre`, `TextsAre`, `BacksAre`,
`UndonesAre`, `ReplaysAre`). `IInv` quantifies over chains and is not for TLC to evaluate; TLC checks
the five properties that follow from it on the run `pieces`.

The proof asked two things of the model. `PieceAssumption` had not said that the original
fits `MaxLength`, the bound on the length of documents; and the folds over tables and
records were rewritten as recursive functions, with the same states on the run.

### Only model-checked

Liveness (`SignalServiced`, `NoneWaitsForEver`, `LearnsOfLoss`, `EndsSometime`, `Completes`,
`NobodyHangs`, `ReadsEnd`): fairness is out of reach of the prover. `ScratchFile` as a whole, with
`KeepsTheRest`. Every other safety invariant and action property of the passing runs is stated by a theorem, those that hold only of some
programs or environments under the hypotheses named above.

## What TLC refutes

One disagreement between the code and its own comments is kept as a run (`findings` in
`PROJECT.json`): a timer that polls first (`timers_polls_first`). After its first
notification the interval is its value, but no flag tells the loop to arm
anything: it is never called again and the loop spins.

The modules also state claims that hold in the instances above but not in all. They
are no part of a run; these constants show each one:

| property | change | what happens |
|---|---|---|
| `SignalServiced` | `signals`, without `program.watches` in the property, `Programs <- Pausing`, `Signals = {s1}`, `MaxRaises = 1`, `MaxCalls = 1` | "THIS RACE WAS FIXED BY THE USE OF pipefds" (`notify/ndet_loop.c:263`): with no descriptor to select on the loop calls `pause()` (278); nothing reads the pipe, and a signal caught between the test and the call leaves it sleeping |
| `CatcherNeverHangs` | `signals`, `Programs <- Pausing`, `CalmEnv = TRUE`, `PipeCap = 3`, `MaxRaises = 5` | a loop that only pauses never reads the pipe; when it is full the catcher hangs in `write` |
| `NoSignalVanishes` | `signals`, without `program.atomic` in the property, `Programs <- Torn` | two catchers interleave in `sigaddset` and one signal is lost; with gcc on x86-64 `sigaddset` on one word is one instruction |
| `InterruptsAtMostOne` | `signals` | a catcher in another catcher: `ntfy_interrupts` becomes 2 |
| `DelayedNotSentInInterrupt` | `signals` | `ndet_send_delayed_sigs` entered at interrupt level (its assertion 10); no signal is lost by it |
| `NextIsListed` | `interposer`, `Conds = {c1}`, `Disciplined = FALSE`, `MaxOps = 3`, `MaxDepth = 4` | "The next function for that condition is called" (`notify/nint.h:37`): the index check of `nint_next_callout` (`nint_next.c:36`) is one too late, and the last function of an interposed list calls what the node holds beyond it |
| `TopNeverRepeats` | `interposer` | a list of a single function is not compared with the new one, so the same function can be interposed on itself |
| `TruthIsTheDetectors` | `interposer` | a queued copy calls a function removed since |
| `HandedOnce` | `dispatch_loop`, `Programs <- JustReads`, `CodeOf <- Same`, `Copied = {}` | "Send client event (in order received)" (`notify/ndis_d_pri.c:69`): conditions are found by code, newest first; when a function posts a code of which two are pending, one event is handed out twice with its released argument, another never |
| `HandsPending` | `dispatch_loop`, `CodeOf <- Same`, a program like `Loop` with `calls = {"start", "flush"}` | a flushed event is handed out because its code was posted again |
| `HandsPending` | `dispatch_loop`, `CodeOf <- Four` (all different), `Copied = {1, 2}`, a program with `funcs = OneReader`, `calls = {"start", "async"}` | a copy function is overtaken by an asynchronous post, which changes the code in the shared condition; the event is then looked for under another's |
| `NoRecursiveSafe` | `dispatch_loop`, a program with `funcs = Mixed`, `calls = {"start"}` | an immediate event called inside a safe one clears the flag that protects it |
| `NoRecursiveSafe` | `dispatch_ways`, a program with `funcs = Safe`, `calls = {"early"}`, `maxCalls = 1`, `maxDepth = 12` | a dispatch within a dispatch: the return of the inner function clears the flag of the outer one |
| `NoRecursiveSafe` | `dispatch_loop`, a program with `funcs = SafeInput`, `calls = {"start", "remove", "set"}`, `maxCalls = 2`, `maxDetects = 1` | a client that is removed while it handles a safe event, and set again, has lost its flag |
| `VetoHonoured` | `dispatch_ways`, a program like `Many` with `calls = {"start", "veto", "destroy_later", "destroy_now"}`, `statuses = {"check", "cleanup"}`, `maxCalls = 4` | a destroy function called from within another resets the one veto flag |
| `VetoHonoured` | `dispatch_ways`, `CodeOf <- JustOne` (a single event), a program with `funcs = OneReader`, `calls = {"early", "once", "veto", "destroy_later"}`, `statuses = {"check", "cleanup"}`, `maxCalls = 4`, `maxDetects = 1`, `maxDepth = 8` | a post outside `notify_start` dispatches within the destroy function, and the next check resets the flag |
| `EventIntact` | `dispatch_loop`, `Copied = {1, 2}`, a program with `funcs = OneReader`, `calls = {"start", "async"}` | the copy function runs while the code is in the shared condition; an asynchronous post overwrites it |
| `Watched` | `timers`, `Asked = {"virtual"}` | asking for the value of a virtual timer that polls sets it to nothing |
| `TimerFires` | `timers_polls_first`, `Requests <- Ordinary`, `MaxCalls = 2` | of a client's real and virtual polling timers the second is never served |
| `OneOwnsIt` | `selection_owners` | "make it lose the ownership" (`selection/sel_own.c:118`): a request with property `None` that is converted takes the exit meant for transfers that are over (1024), without the answer and without `SelClean`; `SEL_BUSY` stays (708), the object is only marked (35), and goes on owning beside another object of its process |
| `FindsItself` | `selection_owners` | "every SELECTION_OWNER stores itself" (`selection/sel_util.c:56`): the end of a request of the same process deletes it from the context, so an owner refuses requests and never learns that it has lost |
| `AnswersOnlyAsOwner` | `selection_owners` | "if the time is outside, refuse" (`selection/sel_own.c:975`): after a loss `time` is 0 and the object still in the context, so it answers |
| `NewOneKeepsIt`, `OwnerKnows` | `selection_owners`, `DistinctTimes = FALSE` | of two objects of one process that acquire within a tick the loser's own `XSetSelectionOwner(None)` takes the selection from the winner |
| `PropertiesApart` | `selection_requests`, `PostInside = TRUE` | "the avail field should be reset to TRUE after a complete transaction" (`selection/sel_util.c:233`): a property of a `MULTIPLE` pair is made available after its reply (`sel_req.c:1085`) and again when all pairs are, when a request posted by the reply_proc may have it |
| `PropertiesApart` | `selection_requests`, `OwnTimes = FALSE` | two requests of one time cannot be told apart, and an answer ends the other one |
| `TimedWhilePending` | `selection_requests`, `OwnTimes = FALSE` | the end of a request finds the slot of another one of its time, target and property: that one is done with its timer still set |
| `HandedItsTarget` | `selection_requests`, `OwnTimes = FALSE` | a late answer is taken for that to a newer request of its time which has the property again; the reply_proc gets the newer one's list of pairs |
| `HandedItsTarget` | `selection_requests`, `PostInside = TRUE` | a property that is made available twice goes to two requests: the answer to one is overwritten by the other's |
| `SaysIncr` | `incr_transfer` | "calling the requestor reply_proc with type set to INCR" (`selection/sel_req.c:855`): the property has been deleted by the read before, so the first call has no value, or the first piece |
| `IsStream` | `incr_transfer`, `MayTruncate = TRUE` | a convert_proc that fails in the middle ends the transfer as if that were all the data ("REMINDER", `selection/sel_own.c:783`) |
| `ReadsWhatItWrote` | `scratch_file`, `SPECIFICATION Spec` | "ensure that the client reads what it wrote" (`textsw/es_file.c:172`): when a part of an edit cannot be written, truncation empties the write buffer, with the records of earlier edits that were still in it (897); the document has pieces that lie neither in a buffer nor on disk, and reading one ends in the abort of the loop's alarm (711-718, 743-750) |
| `BackedOut` | `scratch_file`, `SPECIFICATION Spec` | 'attempt to "back out" failed es_replace\'s' (`textsw/ps_impl.c:981`): if the first part of an edit has gone to disk before the second one fails, truncation is refused (`es_file.c:866`) and nobody looks; the next text is written behind the remains, and a piece that is typed on is lengthened over them |
| `ReadGetsSomething` | `scratch_file`, `SPECIFICATION Spec` | "assert(to_read != 0)" (`textsw/es_file.c:818`): a count or a flag of eight bytes moves the write buffer back; a read behind it that is longer than the read buffer then stops at the start of the write buffer, which lies before the place to read from (803), and says that it has got everything |
| `DependentsCanBeOpened` | `client_states`, `Windows = {a, b, d}`, `Hints <- Three`, `Left = {"Normal", "Iconic"}`, `MaxRequests = 1`, `MaxUser = 1` | a leader that goes while it is iconic leaves its followers iconic without an icon that would open them ("REMIND", `olwm/client.c:672`) |
| `OwnUnmapsExpected` | `client_states`, `WaitsForRoot = FALSE`, `MaxRequests = 3`, `MaxUser = 1` | a window that its client maps again before its withdrawal is complete is let go for an unmapping of olwm's own |
| `ScreenIsBelieved` | `client_states`, `WaitsForRoot = FALSE` | the same client maps a window whose frame goes: the request comes in on a frame that exists no more and the window stays unmapped |

Two facts about timers are modelled without a property: a notification of a timer's
former value that is queued when it is set anew is still delivered, and
`ndet_tv_min` takes the later of two times a microsecond apart.

## Limits

* Not modelled at all: the components with status `not_modelled` in
  `PROJECT.json`, with the reason.
* `NotifierSignals`: the handler that was installed before the Notifier's, to
  which the catcher chains; `NDET_STOP_ON_SIG`; `select` failing otherwise than by
  `EINTR`.
* `Interposer`: failing allocations, the growth of the stack's array by
  reallocation, and the read of `functions[0]` of a condition that holds a single
  function (`nint_inter.c:55`).
* `NotifierDispatch`: `notify_die`, schedulers and prioritizers replaced by the
  application, several descriptors of one kind for one client, SIGTERM
  (`ndet_auto.c:203`), the rest of a child's notifications after the first is flushed
  (`ndisdispch.c:604`), what `notify_stop` leaves queued for clients that the
  table does not list (`ndet_loop.c:425`). A copy function that removes its client or
  its function: no function of the application removes any while one runs, so that the checks made after it
  (`ndetpevent.c:152`) always succeed here. More than twenty clients or events: the table and the arrays
  are then reallocated (`ndisdispch.c:139`, `289`), also by a dispatch inside another one,
  which goes on with those that were freed; here they have room for all.
  `StillWanted` leaves out notifications that occur once (`OneShot`): the last
  one of a timer or child is enqueued after its function was unset, on purpose.
* `NotifierTimers`: one kind of clock jump only (standing still at the bound);
  signals take no time from the kernel to the set of arrived ones; timers longer than
  `NDET_END_OF_TIME` (`ndet_loop.c:647`) only as the assumption `Orderly`.
* `SelectionOwnership`: requests that are answered while `TooOld` waits for a time
  (`sel_prop_time`); what a `lose_proc` may do; transfers within one process; a failed
  acquisition, after which the previous owner of the same process goes on believing. What
  an object left busy by an obsolete client believes is checked only as far as `OwnsOrLearns` goes (see Proofs).
* `SelectionRequests`: increments (see `IncrTransfer`), transfers within a process,
  several selections and windows; the property of a blocking `MULTIPLE` request
  is never given back, which is in the model and no property objects to it; of two requests for one target the
  answer goes to the one that stands first in the table, and is an error there if it is the other's.
* `IncrTransfer`: increments inside `MULTIPLE`; other programs that write the property.
* `PieceStream`: a scratch stream that wraps (`ES_PS_SCRATCH_MAX_LEN`), holes in the
  original, fingers, failing writes in `ps_insert_pieces` (whose result the code ignores), failing writes to a
  scratch file (see `ScratchFile`);
  `save_insert` in `textsw_do_undo`, which may be used uninitialised. When the array of marks is
  full, `undo_count - 2` of them are moved (`txt_input.c:717`): the model does the same.
* `ScratchFile`: making the file, saving and backups, reads and seeks that fail, the five seconds after which a
  read that gets nowhere aborts. What the edits are about is left out: `PieceStream` does not go on after
  a failure in a file. A count that could not be overwritten is only in `lost`.
* `ClientStates`: the steps inside a handler, focus, decorations, positions, colour
  maps, override-redirect, pinned popups, a crash of olwm (a restart finds what
  `UnparentClient` left). Clients that map a window before its withdrawal is complete
  are left out by `WaitsForRoot` (see above for what happens to them).
* Sequential consistency of the single thread is assumed: the compiler may
  reorder accesses to the variables shared with handlers that are not
  `volatile`; the models take the order of the source.
