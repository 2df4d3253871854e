----------------------------- MODULE ClientStates -----------------------------
(***************************************************************************)
(* The states of the windows that olwm manages (olwm/states.c, with the    *)
(* handlers of winpane.c, winframe.c, winroot.c and kbdfuncs.c that drive  *)
(* them and the groups of group.c).                                        *)
(*                                                                         *)
(* olwm, the X server and the clients are three parties.  A client maps,   *)
(* unmaps and destroys its windows; the server tells olwm, or asks it to   *)
(* map them, by events that wait in one queue with what the user does.     *)
(* olwm unmaps a window itself when it iconifies it, and the event of that *)
(* looks like the one of a client that withdraws: olwm counts the ones it  *)
(* expects (pendingUnmaps).  A client also sends a synthetic UnmapNotify   *)
(* to the root after it has unmapped (XWithdrawWindow).                    *)
(*                                                                         *)
(* A handler is one step: nobody sees the state of olwm in between, and    *)
(* the requests it makes reach the server in one piece.                    *)
(***************************************************************************)
EXTENDS Integers, Sequences, FiniteSets, SequencesExt, FiniteSetsExt

CONSTANTS
  Windows,      \* the top-level windows of the clients
  None,         \* no window
  Hints,        \* what the clients may have set on them
  Left,         \* the WM_STATEs an earlier window manager may have left
  WaitsForRoot, \* a client that withdrew a window waits until that is complete
  MaxRequests,  \* bound: requests of clients
  MaxUser       \* bound: actions of the user

State == {"Normal", "Iconic", "Invisible"}
Role  == {"LEADER", "DEPENDENT", "INDEPENDENT"}
Hint  == [transientFor : Windows \cup {None}, group : Windows \cup {None},
          popup : BOOLEAN, iconic : BOOLEAN]

ASSUME StatesAssumption ==
  /\ None \notin Windows /\ IsFiniteSet(Windows)
  /\ Hints \subseteq [Windows -> Hint]
  /\ Left \subseteq {"none", "Normal", "Iconic"}
  /\ WaitsForRoot \in BOOLEAN /\ MaxRequests \in Nat /\ MaxUser \in Nat

VARIABLES
  hints,
  asked,    \* what the client last did with the window
  telling,  \* the client has yet to send the synthetic UnmapNotify
  mapped,   \* the window is mapped, on the root or in its frame
  wmState,  \* its WM_STATE property
  queue,    \* the events olwm has not handled
  existing, \* at startup: the windows found on the root and not yet looked at
  client,   \* olwm's Client of the window, with pendingUnmaps of its pane
  requests, user

clientVars == <<asked, telling, requests>>
vars == <<hints, clientVars, mapped, wmState, queue, existing, client, user>>

Client == [state : State, pending : Nat, group : Windows, role : Role]
Gone   == [state |-> "gone"]

IsManaged(w) == client[w] # Gone
Managed == {w \in Windows : IsManaged(w)}

(* own: the event of a request of olwm's; on: where a MapRequest comes in. *)
Event(type, w) == [type |-> type, win |-> w, own |-> FALSE, on |-> "root"]
MapRequest(w)  == [Event("MapRequest", w) EXCEPT !.on = IF IsManaged(w) THEN "frame" ELSE "root"]
OwnUnmap(w)    == [Event("UnmapNotify", w) EXCEPT !.own = TRUE]

-----------------------------------------------------------------------------
(* Groups: the clients that carry its id (group.c).                        *)

Members(g, role) == {w \in Managed : client[w].group = g /\ client[w].role = role}
GroupExists(g)   == \E w \in Managed : client[w].group = g

(* The group a window names, or the one of a dependent follower it names.  *)
Via(w) == IF IsManaged(w) /\ client[w].role = "DEPENDENT" THEN client[w].group ELSE w

Named(w) == CASE hints[w].transientFor # None -> Via(hints[w].transientFor)
              [] hints[w].transientFor = None /\ hints[w].group # None -> Via(hints[w].group)
              [] OTHER -> w

(* "I inhibit subgroups": a client that has no group of its own passes     *)
(* those who name it on to the group it is in.                             *)
GroupOf(w) == LET g == Named(w) IN
              IF g # w /\ ~GroupExists(g) /\ IsManaged(g) THEN client[g].group ELSE g

RoleOf(w) == CASE GroupOf(w) = w -> "LEADER"
               [] GroupOf(w) # w /\ (hints[w].transientFor # None \/ hints[w].popup) -> "DEPENDENT"
               [] OTHER -> "INDEPENDENT"

(* A new dependent follower's followers follow its leader                  *)
(* (promoteDependentFollowers).                                            *)
Promoted(w) == IF RoleOf(w) # "DEPENDENT" THEN client
               ELSE [c \in Windows |-> IF c \in Members(w, "DEPENDENT")
                                       THEN [client[c] EXCEPT !.group = GroupOf(w)] ELSE client[c]]

HasIcon(w) == client[w].role # "DEPENDENT" /\ ~hints[w].popup

(* Those that are iconified and opened with a window.                      *)
With(w) == CASE client[w].role = "LEADER"      -> Members(client[w].group, "LEADER")
                                                    \cup Members(client[w].group, "DEPENDENT")
             [] client[w].role = "INDEPENDENT" -> {w} \cup Members(w, "DEPENDENT")
             [] client[w].role = "DEPENDENT"   -> {w}

-----------------------------------------------------------------------------
(* Requests to the server.  An unmapped window has no UnmapNotify.         *)

Unmaps(ws) == SetToSeq({OwnUnmap(w) : w \in {x \in ws : mapped[x]}})
SetWMState(ws, state) == wmState' = [w \in Windows |-> IF w \in ws THEN state ELSE wmState[w]]
SetState(ws, state, count) ==
  client' = [w \in Windows |-> IF w \in ws THEN [client[w] EXCEPT !.state = state, !.pending = @ + count]
                                           ELSE client[w]]
Hidden(ws) == mapped' = [w \in Windows |-> mapped[w] /\ w \notin ws]
Shown(ws)  == mapped' = [w \in Windows |-> mapped[w] \/ w \in ws]

-----------------------------------------------------------------------------
(* The transitions.  rest is the queue without the event that led to it.   *)

Unchanged(rest) == queue' = rest /\ UNCHANGED <<mapped, wmState, client>>

(* Mutant: the unmapping is not counted.                                   *)
IconifyOne_Uncounted(ws, rest) ==
  /\ Hidden(ws) /\ queue' = rest \o Unmaps(ws)
  /\ SetState(ws, "Iconic", 0) /\ SetWMState(ws, "Iconic")

(* iconifyOne, for each of them.                                           *)
IconifyOne(ws, rest) ==
  /\ Hidden(ws) /\ queue' = rest \o Unmaps(ws)
  /\ SetState(ws, "Iconic", 1) /\ SetWMState(ws, "Iconic")

(* deiconifyOne and deiconifyGroup.                                        *)
Deiconify(ws, rest) ==
  /\ Shown(ws) /\ queue' = rest
  /\ SetState(ws, "Normal", 0) /\ SetWMState(ws, "Normal")

StateIconic(w, rest) ==
  \/ /\ HasIcon(w) /\ client[w].state = "Normal"
     /\ IconifyOne(With(w), rest)
  \/ /\ HasIcon(w) /\ client[w].state = "Invisible"
     /\ SetState({w}, "Iconic", 0) /\ SetWMState({w}, "Iconic")
     /\ queue' = rest /\ UNCHANGED mapped
  \/ (~HasIcon(w) \/ client[w].state = "Iconic") /\ Unchanged(rest)

StateNormal(w, rest) ==
  \/ client[w].state = "Iconic" /\ Deiconify(With(w), rest)
  \/ client[w].state = "Invisible" /\ Deiconify({w}, rest)
  \/ client[w].state = "Normal" /\ Unchanged(rest)

(* Mutant: the unmapping is not counted.                                   *)
StateInvisible_Uncounted(w, rest) ==
  \/ /\ client[w].state = "Normal"
     /\ Hidden({w}) /\ queue' = rest \o Unmaps({w}) /\ SetState({w}, "Invisible", 0)
     /\ SetWMState({w}, "Iconic")
  \/ /\ client[w].state = "Iconic"
     /\ queue' = rest /\ SetState({w}, "Invisible", 0) /\ SetWMState({w}, "Iconic")
     /\ UNCHANGED mapped
  \/ client[w].state = "Invisible" /\ Unchanged(rest)

(* WM_STATE says Iconic, since only olwm knows of InvisibleState.          *)
StateInvisible(w, rest) ==
  \/ /\ client[w].state = "Normal"
     /\ Hidden({w}) /\ queue' = rest \o Unmaps({w}) /\ SetState({w}, "Invisible", 1)
     /\ SetWMState({w}, "Iconic")
  \/ /\ client[w].state = "Iconic"
     /\ queue' = rest /\ SetState({w}, "Invisible", 0) /\ SetWMState({w}, "Iconic")
     /\ UNCHANGED mapped
  \/ client[w].state = "Invisible" /\ Unchanged(rest)

(* The Client and its windows go; what is still to come of them finds      *)
(* nobody, and a MapRequest on the frame is an orphan.  olwm no longer     *)
(* selects the events of the pane.                                         *)
Orphan(e) == IF e.type \in {"Toggle", "Open", "Hide"} THEN Event("Orphan", None)
             ELSE [e EXCEPT !.on = "root"]
Orphaned(w, rest) == [i \in DOMAIN rest |-> IF rest[i].win = w THEN Orphan(rest[i]) ELSE rest[i]]

StateWithdrawn(w, rest) ==
  /\ mapped' = [mapped EXCEPT ![w] = @ /\ client[w].state # "Normal"]
  /\ client' = [client EXCEPT ![w] = Gone]
  /\ queue' = Orphaned(w, rest)
  /\ UNCHANGED wmState

(* The state a new Client begins in.                                       *)
Initial(w, found) ==
  LET wanted == IF found /\ wmState[w] # "none" THEN wmState[w]
                ELSE IF hints[w].iconic THEN "Iconic" ELSE "Normal"
      leads  == Members(GroupOf(w), "LEADER")
  IN IF RoleOf(w) = "DEPENDENT" /\ \A l \in leads : client[l].state = "Normal"
     THEN "Normal" ELSE wanted

(* The UnmapNotifys a new Client is to expect (StateNew and ReparentTree). *)
Expected(w, found) == (IF Initial(w, found) = "Iconic" THEN 1 ELSE 0) + (IF found THEN 1 ELSE 0)

(* StateNew: reparenting a mapped window unmaps it and maps it again.      *)
StateNew(w, found, rest) ==
  \/ /\ ~IsManaged(w) /\ asked[w] # "destroyed" /\ (found => mapped[w])
     /\ client' = [Promoted(w) EXCEPT ![w] = [state |-> Initial(w, found), role |-> RoleOf(w),
                                               group |-> GroupOf(w), pending |-> Expected(w, found)]]
     /\ wmState' = [wmState EXCEPT ![w] = Initial(w, found)]
     /\ mapped' = [mapped EXCEPT ![w] = Initial(w, found) = "Normal"]
     /\ queue' = rest \o Unmaps({w}) \o (IF Initial(w, found) = "Iconic" THEN Unmaps({w}) ELSE <<>>)
  \/ (IsManaged(w) \/ asked[w] = "destroyed" \/ (found /\ ~mapped[w])) /\ Unchanged(rest)

-----------------------------------------------------------------------------
(* olwm looks at the windows that are there, and then handles its events.  *)

ReparentTree ==
  /\ existing # <<>> /\ existing' = Tail(existing)
  /\ StateNew(Head(existing), TRUE, queue)
  /\ UNCHANGED <<hints, clientVars, user>>

(* The next event, of a type and of a window that has a Client or not.     *)
Next1(type) == existing = <<>> /\ queue # <<>> /\ Head(queue).type = type
Rest  == Tail(queue)
Win   == Head(queue).win
Quiet == UNCHANGED <<hints, clientVars, existing, user>>

OnMapRequest ==
  /\ Next1("MapRequest") /\ Quiet
  /\ \/ Head(queue).on = "root" /\ StateNew(Win, FALSE, Rest)
     \/ /\ Head(queue).on = "frame"
        /\ IF client[Win].state = "Iconic" THEN StateNormal(Win, Rest) ELSE Unchanged(Rest)

OnUnmapNotify ==
  /\ Next1("UnmapNotify") /\ Quiet
  /\ \/ /\ IsManaged(Win) /\ client[Win].pending > 0
        /\ client' = [client EXCEPT ![Win].pending = @ - 1]
        /\ queue' = Rest /\ UNCHANGED <<mapped, wmState>>
     \/ IsManaged(Win) /\ client[Win].pending = 0 /\ StateWithdrawn(Win, Rest)
     \/ ~IsManaged(Win) /\ Unchanged(Rest)

(* eventUnmapNotify of the root.                                           *)
OnSynthetic ==
  /\ Next1("Synthetic") /\ Quiet
  /\ IF IsManaged(Win) THEN StateWithdrawn(Win, Rest) ELSE Unchanged(Rest)

OnDestroyNotify ==
  /\ Next1("DestroyNotify") /\ Quiet
  /\ IF IsManaged(Win) THEN StateWithdrawn(Win, Rest) ELSE Unchanged(Rest)

(* WM_CHANGE_STATE of a client (XIconifyWindow).                           *)
OnChangeState ==
  /\ Next1("ChangeState") /\ Quiet
  /\ IF IsManaged(Win) THEN StateIconic(Win, Rest) ELSE Unchanged(Rest)

(* ClientOpenCloseToggle: a window without an icon is asked to go away.    *)
OnToggle ==
  /\ Next1("Toggle") /\ Quiet
  /\ \/ HasIcon(Win) /\ client[Win].state = "Normal" /\ StateIconic(Win, Rest)
     \/ HasIcon(Win) /\ client[Win].state = "Iconic" /\ StateNormal(Win, Rest)
     \/ (~HasIcon(Win) \/ client[Win].state = "Invisible") /\ Unchanged(Rest)

(* A double click on the icon, which may be gone by now.                   *)
OnOpen == Next1("Open") /\ Quiet /\ StateNormal(Win, Rest)

OnHide == Next1("Hide") /\ Quiet /\ StateInvisible(Win, Rest)

(* KeyMakeVisibleAll: StateNormal of those that are invisible.             *)
OnShowAll ==
  /\ Next1("ShowAll") /\ Quiet
  /\ Deiconify({w \in Managed : client[w].state = "Invisible"}, Rest)

(* An event of a frame or an icon that has been destroyed.                 *)
OnOrphan == Next1("Orphan") /\ Quiet /\ Unchanged(Rest)

Olwm == \/ ReparentTree \/ OnMapRequest \/ OnUnmapNotify \/ OnSynthetic \/ OnDestroyNotify
        \/ OnChangeState \/ OnToggle \/ OnOpen \/ OnHide \/ OnShowAll \/ OnOrphan

-----------------------------------------------------------------------------
(* Clients and the user.                                                   *)

Send(es) == queue' = queue \o es
Requests == requests < MaxRequests /\ requests' = requests + 1
Others   == UNCHANGED <<hints, wmState, existing, client, user>>

(* A withdrawal is complete when olwm has let the window go and has no     *)
(* request left to map it (ICCCM 4.1.4).                                   *)
Withdrawn(w) == /\ ~IsManaged(w)
                /\ \A i \in DOMAIN queue : queue[i].win = w => queue[i].type # "MapRequest"

(* XMapWindow: on a window that is not mapped it comes to olwm.            *)
Map(w) ==
  /\ Requests /\ ~mapped[w] /\ asked[w] # "destroyed" /\ ~telling[w]
  /\ WaitsForRoot /\ asked[w] = "withdrawn" => Withdrawn(w)
  /\ asked' = [asked EXCEPT ![w] = "shown"] /\ Send(<<MapRequest(w)>>)
  /\ UNCHANGED <<telling, mapped>> /\ Others

(* XWithdrawWindow, in its two requests.  olwm has the events of a window  *)
(* that is its pane.                                                       *)
Gives(w, es) == Send(IF IsManaged(w) THEN es ELSE <<>>)
Unmapping(w) == IF mapped[w] THEN <<Event("UnmapNotify", w)>> ELSE <<>>

Withdraw(w) ==
  /\ Requests /\ asked[w] = "shown"
  /\ asked' = [asked EXCEPT ![w] = "withdrawn"] /\ telling' = [telling EXCEPT ![w] = TRUE]
  /\ mapped' = [mapped EXCEPT ![w] = FALSE] /\ Gives(w, Unmapping(w))
  /\ Others

Tell(w) ==
  /\ telling[w] /\ telling' = [telling EXCEPT ![w] = FALSE]
  /\ Send(<<Event("Synthetic", w)>>)
  /\ UNCHANGED <<asked, mapped, requests>> /\ Others

Destroy(w) ==
  /\ Requests /\ asked[w] # "destroyed" /\ ~telling[w]
  /\ asked' = [asked EXCEPT ![w] = "destroyed"]
  /\ mapped' = [mapped EXCEPT ![w] = FALSE]
  /\ Gives(w, Unmapping(w) \o <<Event("DestroyNotify", w)>>)
  /\ UNCHANGED telling /\ Others

(* XIconifyWindow.                                                         *)
Iconify(w) ==
  /\ Requests /\ asked[w] = "shown"
  /\ Send(<<Event("ChangeState", w)>>)
  /\ UNCHANGED <<asked, telling, mapped>> /\ Others

User ==
  /\ user < MaxUser /\ user' = user + 1
  /\ \/ \E w \in Managed, type \in {"Toggle", "Hide"} : Send(<<Event(type, w)>>)
     \/ \E w \in Managed : HasIcon(w) /\ client[w].state = "Iconic" /\ Send(<<Event("Open", w)>>)
     \/ Managed # {} /\ Send(<<Event("ShowAll", None)>>)
  /\ UNCHANGED <<hints, clientVars, mapped, wmState, existing, client>>

-----------------------------------------------------------------------------
(* olwm starts with what is there: windows without a WM_STATE, and those   *)
(* that an earlier one left mapped (UnparentClient).                       *)
Init ==
  /\ hints \in Hints
  /\ mapped \in [Windows -> BOOLEAN]
  /\ wmState \in [Windows -> Left \cup {"none"}]
  /\ \A w \in Windows : ~mapped[w] => wmState[w] = "none"
  /\ existing \in [1..Cardinality(Windows) -> Windows] /\ IsInjective(existing)
  /\ asked = [w \in Windows |-> IF mapped[w] THEN "shown" ELSE "withdrawn"]
  /\ telling = [w \in Windows |-> FALSE]
  /\ client = [w \in Windows |-> Gone] /\ queue = <<>>
  /\ requests = 0 /\ user = 0

Next == \/ Olwm \/ User
        \/ \E w \in Windows : Map(w) \/ Withdraw(w) \/ Tell(w) \/ Destroy(w) \/ Iconify(w)

Spec == Init /\ [][Next]_vars

-----------------------------------------------------------------------------
TypeOK ==
  /\ hints \in Hints
  /\ asked \in [Windows -> {"withdrawn", "shown", "destroyed"}]
  /\ telling \in [Windows -> BOOLEAN] /\ mapped \in [Windows -> BOOLEAN]
  /\ wmState \in [Windows -> {"none", "Normal", "Iconic"}]
  /\ client \in [Windows -> Client \cup {Gone}]
  /\ \A i \in DOMAIN queue : queue[i].win \in Windows \cup {None}

(* All variables keep their types, and a window that its client shows is   *)
(* never let go for an unmapping that olwm made itself: pendingUnmaps      *)
(* covers all of them in the queue.                                        *)
OwnUnmaps(w) == Cardinality({i \in DOMAIN queue : queue[i] = OwnUnmap(w)})
OwnUnmapsExpected ==
  /\ TypeOK
  /\ \A w \in Managed : asked[w] = "shown" => OwnUnmaps(w) <= client[w].pending

(* When all is handled, what olwm believes is on the screen: a window in   *)
(* NormalState is mapped and one in another is not, WM_STATE says so, and  *)
(* a window its client has withdrawn or destroyed is not managed.          *)
Settled == queue = <<>> /\ existing = <<>> /\ \A w \in Windows : ~telling[w]
ScreenIsBelieved ==
  Settled => \A w \in Windows :
    /\ IsManaged(w) <=> asked[w] = "shown"
    /\ IsManaged(w) => /\ mapped[w] <=> client[w].state = "Normal"
                       /\ wmState[w] = "Normal" <=> client[w].state = "Normal"

(* A dependent follower is iconic only with its leader, whose icon stands  *)
(* for it: without one nothing on the screen would open it again.          *)
DependentsCanBeOpened ==
  Settled => \A w \in Managed :
    client[w].role = "DEPENDENT" /\ client[w].state = "Iconic" =>
      \E l \in Managed : w \in With(l) /\ l # w /\ client[l].state # "Normal"
===============================================================================
