----------------------------- MODULE TaskServer -----------------------------
(***************************************************************************)
(* The server's copy of the task list while one client is connected.       *)
(*                                                                         *)
(* Two threads work on WindowManager without a lock.  The UI thread takes  *)
(* the hook's messages off its queue and adds, removes or renames one      *)
(* task.  The receive thread answers a CLIENT_REQUEST_ACTIVE_TASK_LIST: it *)
(* clears the map, enumerates the windows, fetches and sends the icons,    *)
(* then builds and sends the list.  Both write to the same socket, and     *)
(* Server_Send sleeps after every frame, so each frame sent is a point     *)
(* where the other thread runs.                                            *)
(*                                                                         *)
(* Granularity.  A step is a call on one container, or the sending of one  *)
(* frame.  A call that changes the map while the other thread iterates     *)
(* over it is undefined behaviour: from then on the iteration may go on,   *)
(* stop early, come to an entry again, or bring the process down.  So is   *)
(* the use of an entry that the other thread has erased meanwhile.         *)
(***************************************************************************)
EXTENDS Protocol, FiniteSets

CONSTANTS
    Absent,           \* "not a key of _activeWindowTasks"
    SubObjectEvents,  \* do carets and other sub-objects of a window raise events?
    MaxChanges,       \* bound on the changes of the desktop
    MaxRequests       \* bound on the task list requests served

ASSUME TaskServerAssumption ==
    /\ IsFiniteSet(Windows)
    /\ Absent \notin Icons \cup {NoIcon}
    /\ SubObjectEvents \in BOOLEAN
    /\ MaxChanges \in Nat
    /\ MaxRequests \in Nat

VARIABLES
    shown,       \* the windows on the screen
    title,       \* title[w]: what GetWindowText(w) returns
    winEvents,   \* events raised by windows and not yet given to hookEventProc
    msgQueue,    \* WM_CBTHOOK messages posted to the UI thread
    netState,    \* gNetworkManager->state
    active,      \* _activeWindowTasks: HWND to HICON
    cached,      \* _clientCachedIcons
    ui,          \* the UI thread: where it is, and its locals
    rx,          \* the receive thread: where it is, and its locals
    wire,        \* every frame sent to the client, in order
    alive,       \* FALSE once undefined behaviour has killed the process
    changes,     \* number of desktop changes so far
    requests,    \* number of task list requests so far
    interfered,  \* history: a hook message was handled or dropped around the last listing
    misjudged    \* history: windows hookEventProc last took to be hidden while they are on
                 \* the screen, or left out, and no listing has made up for it

screen == <<shown, title, changes>>
desktop == <<screen, winEvents>>
history == <<interfered, misjudged>>
vars == <<desktop, msgQueue, netState, active, cached, ui, rx, wire, alive, requests,
          history>>

-----------------------------------------------------------------------------
\* The keys of _activeWindowTasks.
Tasks == {w \in Windows : active[w] # Absent}

\* Variant: the lookup fails.
KnownNever(w) == FALSE

\* _activeWindowTasks.find(hwnd) finds an entry.
Known(w) == w \in Tasks

\* Variant: the test is the wrong way round.
NeedsPictureInverted(h) == h \in cached

\* !isIconInClientCache(hicon)
NeedsPicture(h) == h \notin cached

\* addIconToClientCache
Remember(h) == cached' = cached \cup {h}

Listing == rx.pc # "recv"

\* The receive thread holds an iterator into _activeWindowTasks.
Iterating ==
    rx.pc \in {"iconLoop", "getIcon", "lookup", "sendIcon", "cacheIcon", "rowLoop"}

Unvisited == Tasks \ rx.seen

\* The entries an iteration may come to next: any, when it is spoilt.
Reachable == IF rx.spoilt THEN Tasks ELSE Unvisited

\* Variant: a listing sends no pictures.
SendNoPicture(f) == wire' = (IF Listing /\ f.type = "SEND_ICON" THEN wire ELSE Append(wire, f))

Send(f) == wire' = Append(wire, f)

-----------------------------------------------------------------------------
(* The desktop: windows appear, change their title and disappear, and each *)
(* change raises one event (SHOW, NAMECHANGE; HIDE stands for DESTROY too).*)

Raise(event, w) ==
    /\ changes < MaxChanges
    /\ changes' = changes + 1
    /\ winEvents' = Append(winEvents, [event |-> event, hwnd |-> w])
    /\ UNCHANGED <<msgQueue, netState, active, cached, ui, rx, wire, alive, requests,
                   history>>

\* A new window, or a hidden one shown again.
WindowShown(w, t) ==
    /\ w \notin shown
    /\ shown' = shown \cup {w}
    /\ title' = [title EXCEPT ![w] = t]
    /\ Raise("SHOW", w)

\* A window that is hidden keeps its title; one that is destroyed has none.
WindowGone(w, t) ==
    /\ w \in shown
    /\ shown' = shown \ {w}
    /\ title' = [title EXCEPT ![w] = t]
    /\ Raise("HIDE", w)

WindowRenamed(w, t) ==
    /\ w \in shown
    /\ title[w] # t
    /\ title' = [title EXCEPT ![w] = t]
    /\ UNCHANGED shown
    /\ Raise("NAMECHANGE", w)

\* hookEventProc does not look at idObject: a caret that is shown or hidden in
\* w reads like w being shown or hidden.
SubObjectChanged(event, w) ==
    /\ SubObjectEvents
    /\ w \in shown
    /\ UNCHANGED <<shown, title>>
    /\ Raise(event, w)

Desktop ==
    \E w \in Windows :
        \/ \E t \in Titles : WindowShown(w, t) \/ WindowRenamed(w, t)
        \/ \E t \in {title[w], NoTitle} : WindowGone(w, t)
        \/ \E event \in {"SHOW", "HIDE"} : SubObjectChanged(event, w)

-----------------------------------------------------------------------------
(* HookDLL.                                                                *)

\* The DLL's IsAltTabWindow, called without the visibility check.
HasTitle(w) == title[w] # NoTitle

\* Variant: SetWinEventHook's range of events ends before NAMECHANGE.
PostsNoRename(e) == e.event = "HIDE" \/ (e.event = "SHOW" /\ HasTitle(e.hwnd))

\* The events hookEventProc posts.
Posts(e) == e.event = "HIDE" \/ HasTitle(e.hwnd)

LParam(event) ==
    CASE event = "HIDE" -> "DESTROY" [] event = "SHOW" -> "CREATE" [] OTHER -> "RENAME"

Misjudged(e) ==
    CASE e.event = "HIDE" -> IF e.hwnd \in shown THEN misjudged \cup {e.hwnd} ELSE misjudged
      [] e.event = "SHOW" -> IF HasTitle(e.hwnd) THEN misjudged \ {e.hwnd}
                             ELSE misjudged \cup {e.hwnd}
      [] OTHER            -> misjudged

\* An out-of-context hook runs when the UI thread asks for its next message or
\* waits for a window to answer GetHICON's WM_GETICON, so the window is tested
\* as it is then, not as it was at the event.
HookEventProc ==
    /\ ui.pc \in {"GetMessage", "modal", "addInsert"}
    /\ winEvents # <<>>
    /\ winEvents' = Tail(winEvents)
    /\ LET e == Head(winEvents) IN
        /\ msgQueue' = IF Posts(e)
                       THEN Append(msgQueue, [lParam |-> LParam(e.event), hwnd |-> e.hwnd])
                       ELSE msgQueue
        /\ misjudged' = Misjudged(e)
    /\ UNCHANGED <<screen, netState, active, cached, ui, rx, wire, alive, requests,
                   interfered>>

-----------------------------------------------------------------------------
(* The accept thread's Server_Connected.                                   *)

ServerConnected ==
    /\ netState = "AWAIT_CLIENT"
    /\ netState' = "CONNECTED"
    /\ UNCHANGED <<desktop, msgQueue, active, cached, ui, rx, wire, alive, requests,
                   history>>

-----------------------------------------------------------------------------
(* The UI thread.                                                          *)

UiIdle == [pc |-> "GetMessage", hwnd |-> NoWindow, hicon |-> NoIcon]

UiAt(pc, w, h) == ui' = [pc |-> pc, hwnd |-> w, hicon |-> h]

\* The thread is between two messages; "modal" is the message loop of the
\* About box, which hands every message on to DefWindowProc.
UiBetween == ui.pc \in {"GetMessage", "modal"}

\* What the UI thread does to the map may spoil a listing.
Interferes(so) == interfered' = (interfered \/ so) /\ UNCHANGED misjudged

\* GetMessage returns a hook message of this kind and the client is connected.
TakeMessage(kind) ==
    /\ ui.pc = "GetMessage"
    /\ msgQueue # <<>>
    /\ Head(msgQueue).lParam = kind
    /\ netState = "CONNECTED"
    /\ msgQueue' = Tail(msgQueue)
    /\ Interferes(Listing)
    /\ UNCHANGED <<desktop, netState, alive, requests>>

\* While the client is not connected, or a box is open, the message goes to
\* DefWindowProc.
DropMessage ==
    /\ UiBetween
    /\ netState # "CONNECTED" \/ ui.pc = "modal"
    /\ msgQueue # <<>>
    /\ msgQueue' = Tail(msgQueue)
    /\ Interferes(netState = "CONNECTED" \/ requests > 0)
    /\ UNCHANGED <<desktop, netState, active, cached, ui, rx, wire, alive, requests>>

\* IDC_ABOUT_BUTTON: MessageBox returns when the user has closed it.
AboutBox ==
    /\ UiBetween
    /\ UiAt(IF ui.pc = "modal" THEN "GetMessage" ELSE "modal", NoWindow, NoIcon)
    /\ UNCHANGED <<desktop, msgQueue, netState, active, cached, rx, wire, alive, requests,
                   history>>

\* A later step of a handler the UI thread is in.
UiStep(pc) ==
    /\ ui.pc = pc
    /\ Interferes(Listing)
    /\ UNCHANGED <<desktop, msgQueue, netState, alive, requests>>

\* Variant: without the last fallback.
GetHICONOrNull == Icons \cup {NoIcon}

\* The handles GetHICON may return: it falls back to the stock icon.
GetHICON == Icons

\* A UI write to the map spoils an iteration of the receive thread.
SpoilIteration == rx' = [rx EXCEPT !.spoilt = @ \/ Iterating]

\* And an entry that is erased is not there for refreshWindowTasksList to write to.
Erase(w) ==
    /\ active' = [active EXCEPT ![w] = Absent]
    /\ rx' = [rx EXCEPT !.spoilt = @ \/ Iterating, !.task = IF @ = w THEN NoWindow ELSE @]

AddWindowTask ==
    /\ TakeMessage("CREATE")
    /\ LET w == Head(msgQueue).hwnd IN
       IF Known(w) THEN UNCHANGED ui ELSE UiAt("addInsert", w, NoIcon)
    /\ UNCHANGED <<active, cached, rx, wire>>

\* insert() leaves an existing entry alone.
AddInsert ==
    /\ UiStep("addInsert")
    /\ \E h \in GetHICON :
        /\ active' = IF Known(ui.hwnd) THEN active
                     ELSE [active EXCEPT ![ui.hwnd] = h]
        /\ UiAt("addLookup", ui.hwnd, h)
    /\ SpoilIteration
    /\ UNCHANGED <<cached, wire>>

AddLookup ==
    /\ UiStep("addLookup")
    /\ UiAt(IF NeedsPicture(ui.hicon) THEN "addSendIcon" ELSE "addSend", ui.hwnd, ui.hicon)
    /\ UNCHANGED <<active, cached, rx, wire>>

AddSendIcon ==
    /\ UiStep("addSendIcon")
    /\ Send(SendIcon(ui.hicon))
    /\ UiAt("addCache", ui.hwnd, ui.hicon)
    /\ UNCHANGED <<active, cached, rx>>

AddCache ==
    /\ UiStep("addCache")
    /\ Remember(ui.hicon)
    /\ UiAt("addSend", ui.hwnd, ui.hicon)
    /\ UNCHANGED <<active, rx, wire>>

AddSend ==
    /\ UiStep("addSend")
    /\ Send(AddTask(ui.hwnd, ui.hicon, title[ui.hwnd]))
    /\ ui' = UiIdle
    /\ UNCHANGED <<active, cached, rx>>

RemoveWindowTask ==
    /\ TakeMessage("DESTROY")
    /\ LET w == Head(msgQueue).hwnd IN
       IF Known(w) THEN UiAt("removeErase", w, NoIcon) ELSE UNCHANGED ui
    /\ UNCHANGED <<active, cached, rx, wire>>

RemoveErase ==
    /\ UiStep("removeErase")
    /\ Erase(ui.hwnd)
    /\ UiAt("removeSend", ui.hwnd, NoIcon)
    /\ UNCHANGED <<cached, wire>>

\* erase() of an iterator that clear() has invalidated: nothing happens, or the
\* entry that is now in its place goes, or the process.
RemoveStale ==
    /\ ui.pc = "removeStale"
    /\ \/ UNCHANGED <<active, rx>>
       \/ \E w \in Tasks : Erase(w)
    /\ alive' \in BOOLEAN
    /\ UiAt("removeSend", ui.hwnd, NoIcon)
    /\ Interferes(Listing)
    /\ UNCHANGED <<desktop, msgQueue, netState, requests, cached, wire>>

RemoveSend ==
    /\ UiStep("removeSend")
    /\ Send(RemoveTask(ui.hwnd))
    /\ ui' = UiIdle
    /\ UNCHANGED <<active, cached, rx>>

UpdateWindowTaskTitle ==
    /\ TakeMessage("RENAME")
    /\ LET w == Head(msgQueue).hwnd IN
       IF Known(w) THEN UiAt("updateSend", w, NoIcon) ELSE UNCHANGED ui
    /\ UNCHANGED <<active, cached, rx, wire>>

UpdateSend ==
    /\ UiStep("updateSend")
    /\ Send(UpdateTask(ui.hwnd, title[ui.hwnd]))
    /\ ui' = UiIdle
    /\ UNCHANGED <<active, cached, rx>>

\* What the thread does of itself; for AddInsert it waits for a window to answer
\* WM_GETICON.
Pump ==
    \/ HookEventProc
    \/ DropMessage
    \/ AddWindowTask \/ RemoveWindowTask \/ UpdateWindowTaskTitle
    \/ AddLookup \/ AddSendIcon \/ AddCache \/ AddSend
    \/ RemoveErase \/ RemoveStale \/ RemoveSend
    \/ UpdateSend

UI == Pump \/ AddInsert

-----------------------------------------------------------------------------
(* The receive thread: Server_Recv of CLIENT_REQUEST_ACTIVE_TASK_LIST.     *)

RxStep(pc) ==
    /\ rx.pc = pc
    /\ UNCHANGED <<desktop, msgQueue, netState, ui, alive>>

RxQuiet == UNCHANGED <<requests, history>>

\* Variant: the map is not cleared.
NotCleared == active

Cleared == [w \in Windows |-> Absent]

\* A request arrives: _activeWindowTasks.clear(), then EnumWindows starts.  An
\* iterator that removeWindowTask holds is no longer valid.
RefreshClear ==
    /\ rx.pc = "recv"
    /\ requests < MaxRequests
    /\ ui' = IF ui.pc = "removeErase" THEN [ui EXCEPT !.pc = "removeStale"] ELSE ui
    /\ requests' = requests + 1
    /\ interfered' = ~UiBetween
    /\ misjudged' = {w \in misjudged : \E i \in DOMAIN msgQueue : msgQueue[i].hwnd = w}
    /\ rx' = [rx EXCEPT !.pc = "enumWindows", !.seen = {}]
    /\ active' = Cleared
    /\ UNCHANGED <<desktop, msgQueue, netState, alive, cached, wire>>

\* EnumWindows calls enumWindowsProc once for every window, in any order.
EnumWindowsProc(w) ==
    /\ RxStep("enumWindows")
    /\ w \notin rx.seen
    /\ active' = IF w \in shown /\ ~Known(w)
                 THEN [active EXCEPT ![w] = NoIcon] ELSE active
    /\ rx' = [rx EXCEPT !.seen = @ \cup {w}]
    /\ RxQuiet /\ UNCHANGED <<cached, wire>>

EnumWindowsDone ==
    /\ RxStep("enumWindows")
    /\ rx.seen = Windows
    /\ rx' = [rx EXCEPT !.pc = "iconLoop", !.seen = {}, !.spoilt = FALSE]
    /\ RxQuiet /\ UNCHANGED <<active, cached, wire>>

\* task = *it, and GetHICON(task.first) asks the window.
RefreshNext(w) ==
    /\ RxStep("iconLoop")
    /\ w \in Reachable
    /\ rx' = [rx EXCEPT !.pc = "getIcon", !.seen = @ \cup {w}, !.task = w]
    /\ RxQuiet /\ UNCHANGED <<active, cached, wire>>

\* task.second = hIcon, when the window has answered.  If task was erased meanwhile,
\* the write goes nowhere, or to the entry that is now in its place, or kills the
\* process.
RefreshGotIcon ==
    /\ rx.pc = "getIcon"
    /\ \E h \in GetHICON :
        /\ IF rx.task # NoWindow
           THEN active' = [active EXCEPT ![rx.task] = h] /\ UNCHANGED alive
           ELSE /\ active' \in {active} \cup {[active EXCEPT ![w] = h] : w \in Tasks}
                /\ alive' \in BOOLEAN
        /\ rx' = [rx EXCEPT !.pc = "lookup", !.hicon = h, !.task = NoWindow]
    /\ UNCHANGED <<desktop, msgQueue, netState, ui, cached, wire>> /\ RxQuiet

\* iconExistsInClientCache
RefreshLookup ==
    /\ RxStep("lookup")
    /\ rx' = [rx EXCEPT !.pc = IF NeedsPicture(rx.hicon) THEN "sendIcon" ELSE "iconLoop"]
    /\ RxQuiet /\ UNCHANGED <<active, cached, wire>>

RefreshSendIcon ==
    /\ RxStep("sendIcon")
    /\ Send(SendIcon(rx.hicon))
    /\ rx' = [rx EXCEPT !.pc = "cacheIcon"]
    /\ RxQuiet /\ UNCHANGED <<active, cached>>

RefreshCacheIcon ==
    /\ RxStep("cacheIcon")
    /\ Remember(rx.hicon)
    /\ rx' = [rx EXCEPT !.pc = "iconLoop"]
    /\ RxQuiet /\ UNCHANGED <<active, wire>>

\* Variant: the loops count up to the number of tasks in the frame.
LoopEndsAtCount == Cardinality(rx.seen) = rx.numTasks

\* An iteration ends at end(); a spoilt one may end anywhere.
LoopEnds == Unvisited = {} \/ rx.spoilt

RefreshDone ==
    /\ RxStep("iconLoop")
    /\ LoopEnds
    /\ rx' = [rx EXCEPT !.pc = "size"]
    /\ RxQuiet /\ UNCHANGED <<active, cached, wire>>

\* Variant: the windows on the screen are counted.
SizeOfDesktop == Cardinality(shown)

\* _activeWindowTasks.size()
Size == Cardinality(Tasks)

\* numActiveWindowTasks = _activeWindowTasks.size(): the header of the frame.
SendTasksSize ==
    /\ RxStep("size")
    /\ rx' = [rx EXCEPT !.pc = "rowLoop", !.seen = {}, !.spoilt = FALSE,
                        !.numTasks = Size, !.rows = {}]
    /\ RxQuiet /\ UNCHANGED <<active, cached, wire>>

SendTasksRow(w) ==
    /\ RxStep("rowLoop")
    /\ w \in Reachable
    /\ rx' = [rx EXCEPT !.seen = @ \cup {w},
                        !.rows = @ \cup {[hwnd |-> w, hicon |-> active[w],
                                          title |-> title[w]]}]
    /\ RxQuiet /\ UNCHANGED <<active, cached, wire>>

SendTasksDone ==
    /\ RxStep("rowLoop")
    /\ LoopEnds
    /\ Send(TaskList(rx.numTasks, rx.rows))
    /\ rx' = [rx EXCEPT !.pc = "recv", !.seen = {}, !.rows = {}, !.numTasks = 0,
                        !.hicon = NoIcon, !.spoilt = FALSE]
    /\ RxQuiet /\ UNCHANGED <<active, cached>>

\* Following an iterator into a node that is no longer there.
SpoiltCrash ==
    /\ rx.pc \in {"iconLoop", "rowLoop"}
    /\ rx.spoilt
    /\ alive' = FALSE
    /\ UNCHANGED <<desktop, msgQueue, netState, active, cached, ui, rx, wire, requests,
                   history>>

\* What the thread does of itself; for RefreshGotIcon it waits for a window.
Proceed ==
    \/ \E w \in Windows : EnumWindowsProc(w) \/ RefreshNext(w) \/ SendTasksRow(w)
    \/ EnumWindowsDone
    \/ RefreshLookup \/ RefreshSendIcon \/ RefreshCacheIcon \/ RefreshDone
    \/ SendTasksSize \/ SendTasksDone
    \/ SpoiltCrash

Listen == Proceed \/ RefreshGotIcon

-----------------------------------------------------------------------------
Init ==
    /\ shown \in SUBSET Windows
    /\ title \in [Windows -> Title]
    /\ \A w \in Windows : title[w] \in (IF w \in shown THEN Titles ELSE {NoTitle})
    /\ winEvents = <<>>
    /\ msgQueue = <<>>
    /\ netState = "AWAIT_CLIENT"
    /\ active = [w \in Windows |-> Absent]
    /\ cached = {}
    /\ ui = UiIdle
    /\ rx = [pc |-> "recv", seen |-> {}, hicon |-> NoIcon, task |-> NoWindow, numTasks |-> 0,
             rows |-> {}, spoilt |-> FALSE]
    /\ wire = <<>>
    /\ alive = TRUE
    /\ changes = 0
    /\ requests = 0
    /\ interfered = FALSE /\ misjudged = {}

Next ==
    /\ alive
    /\ Desktop \/ ServerConnected \/ AboutBox \/ UI \/ RefreshClear \/ Listen

(* The threads of the server are scheduled; windows and requests come, and *)
(* the About box is opened and closed, as the user likes.  No window has   *)
(* to answer WM_GETICON.                                                   *)
Fairness ==
    /\ WF_vars(alive /\ ServerConnected)
    /\ WF_vars(alive /\ Pump)
    /\ WF_vars(alive /\ Proceed)

Spec == Init /\ [][Next]_vars

FairSpec == Spec /\ Fairness

-----------------------------------------------------------------------------
UiPc == {"GetMessage", "modal", "addInsert", "addLookup", "addSendIcon", "addCache",
         "addSend", "removeErase", "removeStale", "removeSend", "updateSend"}

RxPc == {"recv", "enumWindows", "iconLoop", "getIcon", "lookup", "sendIcon", "cacheIcon",
         "size", "rowLoop"}

Event == [event : {"SHOW", "HIDE", "NAMECHANGE"}, hwnd : Windows]

HookMessage == [lParam : {"CREATE", "DESTROY", "RENAME"}, hwnd : Windows]

\* The types.  A thread that is about to send an icon or a task has one: the
\* frames it sends are well-formed because of where it is.
TypeOK ==
    /\ shown \subseteq Windows
    /\ title \in [Windows -> Title]
    /\ winEvents \in Seq(Event)
    /\ msgQueue \in Seq(HookMessage)
    /\ netState \in {"AWAIT_CLIENT", "CONNECTED"}
    /\ active \in [Windows -> Icons \cup {NoIcon, Absent}]
    /\ cached \subseteq Icons
    /\ ui \in [pc : UiPc, hwnd : Windows \cup {NoWindow}, hicon : Icons \cup {NoIcon}]
    /\ ~UiBetween => ui.hwnd \in Windows
    /\ ui.pc \in {"addLookup", "addSendIcon", "addCache", "addSend"} => ui.hicon \in Icons
    /\ rx \in [pc : RxPc, seen : SUBSET Windows, hicon : Icons \cup {NoIcon},
               task : Windows \cup {NoWindow}, numTasks : Nat, rows : SUBSET Row, spoilt : BOOLEAN]
    /\ rx.pc \in {"lookup", "sendIcon", "cacheIcon"} => rx.hicon \in Icons
    /\ wire \in Seq(Frame)
    /\ alive \in BOOLEAN
    /\ changes \in 0 .. MaxChanges
    /\ requests \in 0 .. MaxRequests
    /\ interfered \in BOOLEAN /\ misjudged \subseteq Windows

=============================================================================
