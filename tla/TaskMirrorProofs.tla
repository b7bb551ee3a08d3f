-------------------------- MODULE TaskMirrorProofs --------------------------
(***************************************************************************)
(* Theorems about the task list server, for any number of windows, icons   *)
(* and titles and any number of desktop changes and requests: types; that  *)
(* a task is never sent before the picture of its icon; and that the list  *)
(* the client shows is the server's and the server's is the desktop's,     *)
(* under the conditions of module TaskMirror.                              *)
(***************************************************************************)
EXTENDS TaskMirror, ViewProofs

\* The lemmas on folds, for the frames; Op itself means nothing here.
Played == INSTANCE ViewProofs WITH Op <- Apply

\* Replaying is folding.
LEMMA ReplayIsFold == \A s : Replay(s) = Played!Fold(<<>>, s)
BY Zenon DEF Replay, FoldLeft, Played!FoldLeft, MapThenFoldSet, Played!MapThenFoldSet,
   Max, Played!Max, Played!Fold

\* A client that has read nothing shows nothing.
LEMMA ReplayNone == Replay(<<>>) = <<>>
BY NullAssumption, Played!FoldEmpty, ReplayIsFold

\* The last frame is applied to the list the earlier ones left.
LEMMA ReplayOneMore ==
    ASSUME NEW s \in Seq(Frame), NEW f \in Frame
    PROVE  Replay(Append(s, f)) = Apply(Replay(s), f)
BY NullAssumption, Played!FoldAppend, ReplayIsFold

USE DEF desktop, screen, history

-----------------------------------------------------------------------------
(* Types, and pictures before tasks.                                       *)

\* The number of tasks written to the header of a list is a number.
LEMMA TasksAreFinite == Cardinality(Tasks) \in Nat
<1>1. Tasks \subseteq Windows
  BY DEF Tasks
<1>2. IsFiniteSet(Windows)
  BY TaskServerAssumption
<1>. QED
  BY <1>1, <1>2, FS_Subset, FS_CardinalityType

\* Appending a frame keeps the log a sequence of frames.
LEMMA SendTyped ==
    ASSUME wire \in Seq(Frame), NEW f \in Frame, Send(f)
    PROVE  wire' \in Seq(Frame)
BY DEF Send

\* What a desktop change raises is an event.
LEMMA RaiseTyped ==
    ASSUME TypeOK, NEW e \in {"SHOW", "HIDE", "NAMECHANGE"}, NEW w \in Windows,
           Raise(e, w), shown' \subseteq Windows, title' \in [Windows -> Title]
    PROVE  TypeOK'
<1>1. winEvents' \in Seq(Event)
  BY DEF TypeOK, Raise, Event
<1>2. changes' \in 0 .. MaxChanges
  BY TaskServerAssumption DEF TypeOK, Raise
<1>. QED
  BY <1>1, <1>2 DEF TypeOK, Raise, UiBetween

-----------------------------------------------------------------------------
(* Type correctness.                                                       *)

\* The locals of the receive thread.
Locals == [pc : RxPc, seen : SUBSET Windows, hicon : Icons \cup {NoIcon},
           task : Windows \cup {NoWindow}, numTasks : Nat, rows : SUBSET Row,
           spoilt : BOOLEAN]

\* The later steps of the UI thread's handlers.
Handler ==
    \/ AddInsert \/ AddLookup \/ AddSendIcon \/ AddCache \/ AddSend
    \/ RemoveErase \/ RemoveStale \/ RemoveSend
    \/ UpdateSend

\* The server starts with typed variables.
LEMMA InitTyped == Init => TypeOK
<1>. SUFFICES ASSUME Init PROVE TypeOK
  OBVIOUS
<1>1. /\ winEvents \in Seq(Event) /\ msgQueue \in Seq(HookMessage) /\ wire \in Seq(Frame)
  BY DEF Init
<1>2. ui \in [pc : UiPc, hwnd : Windows \cup {NoWindow}, hicon : Icons \cup {NoIcon}]
  BY DEF Init, UiIdle, UiPc
<1>3. rx \in Locals
  BY DEF Init, RxPc, Locals
<1>4. title \in [Windows -> Title] /\ active \in [Windows -> Icons \cup {NoIcon, Absent}]
  BY DEF Init
<1>5. changes \in 0 .. MaxChanges /\ requests \in 0 .. MaxRequests
  BY TaskServerAssumption DEF Init
<1>6. UiBetween /\ ui.pc = "GetMessage" /\ rx.pc = "recv" /\ shown \subseteq Windows
  BY DEF Init, UiIdle, UiBetween
<1>. QED
  BY <1>1, <1>2, <1>3, <1>4, <1>5, <1>6 DEF Init, TypeOK, Locals

\* What happens on the desktop keeps the types.
LEMMA DesktopTyped == TypeOK /\ Desktop => TypeOK'
<1>. SUFFICES ASSUME TypeOK, NEW w \in Windows,
                     \/ \E t \in Titles : WindowShown(w, t) \/ WindowRenamed(w, t)
                     \/ \E t \in {title[w], NoTitle} : WindowGone(w, t)
                     \/ \E event \in {"SHOW", "HIDE"} : SubObjectChanged(event, w)
              PROVE  TypeOK'
  BY DEF Desktop
<1>1. ASSUME NEW t \in Titles, WindowShown(w, t) PROVE TypeOK'
  BY <1>1, RaiseTyped DEF WindowShown, TypeOK, Title
<1>2. ASSUME NEW t \in Titles, WindowRenamed(w, t) PROVE TypeOK'
  BY <1>2, RaiseTyped DEF WindowRenamed, TypeOK, Title
<1>3. ASSUME NEW t \in {title[w], NoTitle}, WindowGone(w, t) PROVE TypeOK'
  BY <1>3, RaiseTyped DEF WindowGone, TypeOK, Title
<1>4. ASSUME NEW event \in {"SHOW", "HIDE"}, SubObjectChanged(event, w) PROVE TypeOK'
  BY <1>4, RaiseTyped DEF SubObjectChanged, TypeOK
<1>. QED
  BY <1>1, <1>2, <1>3, <1>4

\* A frame the UI thread or the receive thread sends is a frame.
LEMMA FrameTyped ==
    /\ \A n \in Nat, rows \in SUBSET Row : TaskList(n, rows) \in Frame
    /\ \A h \in Icons : SendIcon(h) \in Frame
    /\ \A w \in Windows, h \in Icons, t \in Title : AddTask(w, h, t) \in Frame
    /\ \A w \in Windows : RemoveTask(w) \in Frame
    /\ \A w \in Windows, t \in Title : UpdateTask(w, t) \in Frame
BY DEF Frame, TaskList, SendIcon, AddTask, RemoveTask, UpdateTask

\* What the DLL posts is a message.
LEMMA HookTyped == TypeOK /\ HookEventProc => TypeOK'
<1>. SUFFICES ASSUME TypeOK, HookEventProc PROVE TypeOK'
  OBVIOUS
<1>. DEFINE e == Head(winEvents)
<1>1. e \in Event /\ winEvents' \in Seq(Event)
  BY DEF HookEventProc, TypeOK
<1>2. msgQueue' \in Seq(HookMessage)
  <2>1. [lParam |-> LParam(e.event), hwnd |-> e.hwnd] \in HookMessage
    BY <1>1 DEF LParam, Event, HookMessage
  <2>. QED
    BY <2>1 DEF HookEventProc, TypeOK
<1>3. misjudged' \subseteq Windows
  BY <1>1 DEF HookEventProc, Misjudged, Event, TypeOK
<1>. QED
  BY <1>1, <1>2, <1>3 DEF HookEventProc, TypeOK, UiBetween

\* Taking a message off the queue leaves a queue, and names a window.
LEMMA TakeTyped ==
    ASSUME TypeOK, NEW kind, TakeMessage(kind)
    PROVE  /\ msgQueue' \in Seq(HookMessage)
           /\ Head(msgQueue).hwnd \in Windows
           /\ interfered' \in BOOLEAN /\ misjudged' \subseteq Windows
<1>1. Head(msgQueue) \in HookMessage /\ msgQueue' \in Seq(HookMessage)
  BY DEF TypeOK, TakeMessage
<1>2. Listing \in BOOLEAN
  BY DEF Listing
<1>. QED
  BY <1>1, <1>2 DEF TypeOK, TakeMessage, Interferes, HookMessage

\* The UI thread may spoil what the receive thread is iterating over, and nothing else
\* of what that thread knows.
LEMMA UiLeavesRx ==
    ASSUME TypeOK, UI
    PROVE  /\ rx' \in Locals /\ rx'.pc = rx.pc /\ rx'.hicon = rx.hicon
           /\ rx'.seen = rx.seen /\ rx'.rows = rx.rows /\ rx'.numTasks = rx.numTasks
<1>0. rx \in Locals
  BY DEF TypeOK, Locals
<1>1. CASE UNCHANGED rx
  BY <1>0, <1>1
<1>2. ASSUME NEW b \in BOOLEAN, NEW w \in Windows \cup {NoWindow},
             rx' = [rx EXCEPT !.spoilt = b, !.task = w]
      PROVE  /\ rx' \in Locals /\ rx'.pc = rx.pc /\ rx'.hicon = rx.hicon
             /\ rx'.seen = rx.seen /\ rx'.rows = rx.rows /\ rx'.numTasks = rx.numTasks
  BY <1>0, <1>2 DEF Locals
<1>3. rx.spoilt \/ Iterating \in BOOLEAN
  BY <1>0 DEF Locals, Iterating
<1>4. CASE SpoilIteration
  BY <1>0, <1>3, <1>4 DEF SpoilIteration, Locals
<1>5. ASSUME NEW w, Erase(w)
      PROVE  /\ rx' \in Locals /\ rx'.pc = rx.pc /\ rx'.hicon = rx.hicon
             /\ rx'.seen = rx.seen /\ rx'.rows = rx.rows /\ rx'.numTasks = rx.numTasks
  BY <1>0, <1>2, <1>3, <1>5 DEF Erase, Locals
<1>6. CASE RemoveErase \/ RemoveStale
  BY <1>1, <1>5, <1>6 DEF RemoveErase, RemoveStale
<1>7. CASE AddInsert
  BY <1>4, <1>7 DEF AddInsert
<1>8. CASE ~(RemoveErase \/ RemoveStale \/ AddInsert)
  <2>1. UNCHANGED rx
    BY <1>8 DEF UI, Pump, HookEventProc, DropMessage, AddWindowTask, RemoveWindowTask,
       UpdateWindowTaskTitle, AddLookup, AddSendIcon, AddCache, AddSend, RemoveSend,
       UpdateSend
  <2>. QED
    BY <1>1, <2>1
<1>. QED
  BY <1>6, <1>7, <1>8

\* The UI thread keeps the types.
LEMMA UITyped == TypeOK /\ UI => TypeOK'
<1>. SUFFICES ASSUME TypeOK, UI PROVE TypeOK'
  OBVIOUS
<1>. USE DEF UiAt, UiIdle, UiPc, UiBetween, Interferes
<1>1. CASE HookEventProc
  BY <1>1, HookTyped
<1>2. CASE DropMessage
  BY <1>2 DEF DropMessage, TypeOK
<1>3. CASE AddWindowTask
  BY <1>3, TakeTyped DEF AddWindowTask, TakeMessage, TypeOK
<1>4. CASE RemoveWindowTask
  BY <1>4, TakeTyped DEF RemoveWindowTask, TakeMessage, TypeOK
<1>5. CASE UpdateWindowTaskTitle
  BY <1>5, TakeTyped DEF UpdateWindowTaskTitle, TakeMessage, TypeOK
<1>6. CASE AddInsert
  <2>1. active' \in [Windows -> Icons \cup {NoIcon, Absent}]
    BY <1>6 DEF AddInsert, GetHICON, Known, Tasks, TypeOK
  <2>2. rx' \in Locals /\ rx'.pc = rx.pc /\ rx'.hicon = rx.hicon
    BY <1>6, UiLeavesRx DEF UI
  <2>. QED
    BY <1>6, <2>1, <2>2 DEF AddInsert, UiStep, GetHICON, Listing, Locals, TypeOK
<1>7. CASE AddLookup
  BY <1>7 DEF AddLookup, UiStep, Listing, TypeOK
<1>8. CASE AddSendIcon
  <2>1. wire' \in Seq(Frame)
    BY <1>8, FrameTyped, SendTyped DEF AddSendIcon, UiStep, TypeOK
  <2>. QED
    BY <1>8, <2>1 DEF AddSendIcon, UiStep, Listing, TypeOK
<1>9. CASE AddCache
  BY <1>9 DEF AddCache, Remember, UiStep, Listing, TypeOK
<1>10. CASE AddSend
  <2>1. wire' \in Seq(Frame)
    BY <1>10, FrameTyped, SendTyped DEF AddSend, UiStep, TypeOK
  <2>. QED
    BY <1>10, <2>1 DEF AddSend, UiStep, Listing, TypeOK
<1>11. CASE RemoveSend
  <2>1. wire' \in Seq(Frame)
    BY <1>11, FrameTyped, SendTyped DEF RemoveSend, UiStep, TypeOK
  <2>. QED
    BY <1>11, <2>1 DEF RemoveSend, UiStep, Listing, TypeOK
<1>12. CASE UpdateSend
  <2>1. wire' \in Seq(Frame)
    BY <1>12, FrameTyped, SendTyped DEF UpdateSend, UiStep, TypeOK
  <2>. QED
    BY <1>12, <2>1 DEF UpdateSend, UiStep, Listing, TypeOK
<1>13. CASE RemoveErase \/ RemoveStale
  <2>1. active' \in [Windows -> Icons \cup {NoIcon, Absent}] /\ alive' \in BOOLEAN
    BY <1>13 DEF RemoveErase, RemoveStale, Erase, UiStep, TypeOK
  <2>2. rx' \in Locals /\ rx'.pc = rx.pc /\ rx'.hicon = rx.hicon
    BY <1>13, UiLeavesRx DEF UI, Pump
  <2>3. /\ ui.hwnd \in Windows /\ ui' = [pc |-> "removeSend", hwnd |-> ui.hwnd, hicon |-> NoIcon]
        /\ UNCHANGED <<desktop, msgQueue, netState, requests, cached, wire, misjudged>>
        /\ interfered' = (interfered \/ Listing) /\ Listing \in BOOLEAN
    BY <1>13 DEF RemoveErase, RemoveStale, UiStep, Listing, TypeOK
  <2>. QED
    BY <2>1, <2>2, <2>3 DEF Locals, TypeOK
<1>. QED
  BY <1>1, <1>2, <1>3, <1>4, <1>5, <1>6, <1>7, <1>8, <1>9, <1>10, <1>11, <1>12, <1>13
  DEF UI, Pump

\* A request begins with the map cleared.
LEMMA RequestTyped == TypeOK /\ RefreshClear => TypeOK'
<1>. SUFFICES ASSUME TypeOK, RefreshClear PROVE TypeOK'
  OBVIOUS
<1>. USE DEF RefreshClear, Cleared
<1>1. rx' \in Locals /\ rx'.pc = "enumWindows"
  BY DEF TypeOK, Locals, RxPc
<1>2. active' \in [Windows -> Icons \cup {NoIcon, Absent}]
  OBVIOUS
<1>3. requests' \in 0 .. MaxRequests /\ interfered' \in BOOLEAN /\ misjudged' \subseteq Windows
  BY TaskServerAssumption DEF TypeOK, UiBetween
<1>4. /\ ui' \in [pc : UiPc, hwnd : Windows \cup {NoWindow}, hicon : Icons \cup {NoIcon}]
      /\ ~UiBetween' => ui'.hwnd \in Windows
      /\ ui'.pc \in {"addLookup", "addSendIcon", "addCache", "addSend"} => ui'.hicon \in Icons
  BY DEF TypeOK, UiPc, UiBetween
<1>. QED
  BY <1>1, <1>2, <1>3, <1>4 DEF TypeOK, Locals

\* The receive thread keeps the types.
LEMMA ListenTyped == TypeOK /\ Listen => TypeOK'
<1>. SUFFICES ASSUME TypeOK, Listen PROVE TypeOK'
  OBVIOUS
<1>. USE DEF RxStep, RxQuiet, UiBetween
<1>1. ASSUME NEW w \in Windows, EnumWindowsProc(w) PROVE TypeOK'
  <2>1. rx' \in Locals /\ rx'.pc = rx.pc /\ rx'.hicon = rx.hicon
    BY <1>1 DEF EnumWindowsProc, TypeOK, Locals
  <2>2. active' \in [Windows -> Icons \cup {NoIcon, Absent}]
    BY <1>1 DEF EnumWindowsProc, TypeOK
  <2>. QED
    BY <1>1, <2>1, <2>2 DEF EnumWindowsProc, TypeOK, Locals
<1>2. ASSUME NEW w \in Windows, RefreshNext(w) PROVE TypeOK'
  <2>1. rx' \in Locals /\ rx'.pc = "getIcon"
    BY <1>2 DEF RefreshNext, TypeOK, Locals, RxPc
  <2>. QED
    BY <1>2, <2>1 DEF RefreshNext, TypeOK, Locals
<1>3. ASSUME NEW w \in Windows, SendTasksRow(w) PROVE TypeOK'
  <2>1. [hwnd |-> w, hicon |-> active[w], title |-> title[w]] \in Row
    BY <1>3 DEF SendTasksRow, Reachable, Unvisited, Tasks, TypeOK, Row
  <2>2. rx' \in Locals /\ rx'.pc = rx.pc /\ rx'.hicon = rx.hicon
    BY <1>3, <2>1 DEF SendTasksRow, TypeOK, Locals
  <2>. QED
    BY <1>3, <2>2 DEF SendTasksRow, TypeOK, Locals
<1>4. CASE EnumWindowsDone
  <2>1. rx' \in Locals /\ rx'.pc = "iconLoop"
    BY <1>4 DEF EnumWindowsDone, TypeOK, Locals, RxPc
  <2>. QED
    BY <1>4, <2>1 DEF EnumWindowsDone, TypeOK, Locals
<1>5. CASE RefreshSendIcon
  <2>1. wire' \in Seq(Frame)
    BY <1>5, FrameTyped, SendTyped DEF RefreshSendIcon, TypeOK
  <2>2. rx' \in Locals /\ rx'.hicon = rx.hicon
    BY <1>5 DEF RefreshSendIcon, TypeOK, Locals, RxPc
  <2>. QED
    BY <1>5, <2>1, <2>2 DEF RefreshSendIcon, TypeOK, Locals
<1>6. CASE RefreshCacheIcon
  <2>1. rx' \in Locals /\ rx'.pc = "iconLoop"
    BY <1>6 DEF RefreshCacheIcon, Remember, TypeOK, Locals, RxPc
  <2>. QED
    BY <1>6, <2>1 DEF RefreshCacheIcon, Remember, TypeOK, Locals
<1>7. CASE RefreshDone
  <2>1. rx' \in Locals /\ rx'.pc = "size"
    BY <1>7 DEF RefreshDone, TypeOK, Locals, RxPc
  <2>. QED
    BY <1>7, <2>1 DEF RefreshDone, TypeOK, Locals
<1>8. CASE SendTasksSize
  <2>1. rx' \in Locals /\ rx'.pc = "rowLoop"
    BY <1>8, TasksAreFinite DEF SendTasksSize, Size, TypeOK, Locals, RxPc
  <2>. QED
    BY <1>8, <2>1 DEF SendTasksSize, Size, TypeOK, Locals
<1>9. CASE SendTasksDone
  <2>1. wire' \in Seq(Frame)
    BY <1>9, FrameTyped, SendTyped DEF SendTasksDone, TypeOK
  <2>2. rx' \in Locals /\ rx'.pc = "recv"
    BY <1>9 DEF SendTasksDone, TypeOK, Locals, RxPc
  <2>. QED
    BY <1>9, <2>1, <2>2 DEF SendTasksDone, TypeOK, Locals
<1>10. CASE SpoiltCrash
  BY <1>10 DEF SpoiltCrash, TypeOK
<1>11. CASE RefreshGotIcon
  <2>1. PICK h \in Icons :
          /\ IF rx.task # NoWindow
             THEN active' = [active EXCEPT ![rx.task] = h] /\ UNCHANGED alive
             ELSE /\ active' \in {active} \cup {[active EXCEPT ![w] = h] : w \in Tasks}
                  /\ alive' \in BOOLEAN
          /\ rx' = [rx EXCEPT !.pc = "lookup", !.hicon = h, !.task = NoWindow]
    BY <1>11 DEF RefreshGotIcon, GetHICON
  <2>2. rx' \in Locals /\ rx'.hicon \in Icons
    BY <2>1 DEF TypeOK, Locals, RxPc
  <2>3. active' \in [Windows -> Icons \cup {NoIcon, Absent}] /\ alive' \in BOOLEAN
    BY <2>1 DEF TypeOK
  <2>. QED
    BY <1>11, <2>2, <2>3 DEF RefreshGotIcon, TypeOK, Locals
<1>12. CASE RefreshLookup
  <2>1. rx' \in Locals /\ rx'.hicon = rx.hicon /\ rx.hicon \in Icons
    BY <1>12 DEF RefreshLookup, TypeOK, Locals, RxPc
  <2>. QED
    BY <1>12, <2>1 DEF RefreshLookup, TypeOK, Locals
<1>. QED
  BY <1>1, <1>2, <1>3, <1>4, <1>5, <1>6, <1>7, <1>8, <1>9, <1>10, <1>11, <1>12
  DEF Listen, Proceed

\* A step keeps the types.
LEMMA StepTyped == TypeOK /\ [Next]_vars => TypeOK'
<1>1. ASSUME TypeOK, ServerConnected PROVE TypeOK'
  BY <1>1 DEF ServerConnected, TypeOK, UiBetween
<1>2. ASSUME TypeOK, UNCHANGED vars PROVE TypeOK'
  BY <1>2 DEF vars, TypeOK, UiBetween
<1>3. ASSUME TypeOK, AboutBox PROVE TypeOK'
  BY <1>3 DEF AboutBox, UiAt, UiPc, UiBetween, TypeOK
<1>. QED
  BY <1>1, <1>2, <1>3, DesktopTyped, UITyped, RequestTyped, ListenTyped DEF Next

\* Every variable of the server stays within its type, whatever the two threads
\* do: every frame sent is one the client knows how to read, and a thread that
\* is about to send an icon or a task has one.
THEOREM Typing == Spec => []TypeOK
<1>. QED
  BY InitTyped, StepTyped, PTL DEF Spec

-----------------------------------------------------------------------------
(* The picture comes before the task.                                      *)

\* The log only grows: what was sent stays sent, and a frame added at its end
\* keeps IconBeforeAdd unless it is a task whose icon was never sent.
LEMMA SendKeeps ==
    ASSUME wire \in Seq(Frame), NEW f \in Frame, Send(f)
    PROVE  /\ \A h : IconSent(h) => IconSent(h)'
           /\ f = SendIcon(f.hicon) => IconSent(f.hicon)'
           /\ IconBeforeAdd /\ (f.type = "ADD_TASK" => IconSent(f.hicon)) => IconBeforeAdd'
<1>1. /\ Len(wire) \in Nat
      /\ Len(wire') = Len(wire) + 1
      /\ wire'[Len(wire) + 1] = f
      /\ \A i \in 1 .. Len(wire) : wire'[i] = wire[i]
  BY DEF Send
<1>2. ASSUME NEW h, IconSent(h) PROVE IconSent(h)'
  BY <1>1, <1>2 DEF IconSent, SendIcon
<1>3. ASSUME f = SendIcon(f.hicon) PROVE IconSent(f.hicon)'
  BY <1>1, <1>3 DEF IconSent
<1>4. ASSUME IconBeforeAdd, f.type = "ADD_TASK" => IconSent(f.hicon) PROVE IconBeforeAdd'
  <2>1. ASSUME NEW i \in 1 .. Len(wire'), wire'[i].type = "ADD_TASK"
        PROVE  \E j \in 1 .. i - 1 : wire'[j] = SendIcon(wire'[i].hicon)
    <3>1. CASE i \in 1 .. Len(wire)
      <4>1. PICK j \in 1 .. i - 1 : wire[j] = SendIcon(wire[i].hicon)
        BY <1>1, <1>4, <2>1, <3>1 DEF IconBeforeAdd, SentBefore
      <4>. QED
        BY <1>1, <3>1, <4>1
    <3>2. CASE i = Len(wire) + 1
      <4>1. PICK j \in 1 .. Len(wire) : wire[j] = SendIcon(f.hicon)
        BY <1>1, <1>4, <2>1, <3>2 DEF IconSent
      <4>. QED
        BY <1>1, <3>2, <4>1
    <3>. QED
      BY <1>1, <3>1, <3>2
  <2>. QED
    BY <2>1 DEF IconBeforeAdd, SentBefore
<1>. QED
  BY <1>2, <1>3, <1>4

\* Nothing sent, nothing changes.
LEMMA QuietKeeps ==
    ASSUME UNCHANGED wire
    PROVE  /\ \A h : IconSent(h) => IconSent(h)'
           /\ IconBeforeAdd => IconBeforeAdd'
BY DEF IconSent, IconBeforeAdd, SentBefore

\* Nothing was cached or sent at the start.
LEMMA InitIcons == Init => IconInv
BY DEF Init, IconInv, IconBeforeAdd, UiIdle

\* An icon is cached only after its picture was sent.
LEMMA IconStep == TypeOK /\ IconInv /\ [Next]_vars => IconInv'
<1>. SUFFICES ASSUME TypeOK, IconInv, [Next]_vars PROVE IconInv'
  OBVIOUS
<1>. USE DEF IconInv
\* Steps that send nothing, cache nothing and move neither thread.
<1>1. ASSUME UNCHANGED <<wire, cached, ui, rx>> PROVE IconInv'
  BY <1>1, QuietKeeps
<1>2. CASE Desktop \/ ServerConnected \/ HookEventProc \/ DropMessage \/ SpoiltCrash
  BY <1>1, <1>2 DEF Desktop, Raise, WindowShown, WindowGone, WindowRenamed,
     SubObjectChanged, ServerConnected, HookEventProc, DropMessage, SpoiltCrash
<1>3. CASE UNCHANGED vars
  BY <1>1, <1>3 DEF vars
<1>3a. CASE AboutBox
  BY <1>3a, QuietKeeps DEF AboutBox, UiAt
\* The UI thread.
<1>4. CASE \/ AddWindowTask \/ RemoveWindowTask \/ UpdateWindowTaskTitle \/ AddInsert
           \/ RemoveErase \/ RemoveStale
  <2>1. UNCHANGED <<wire, cached>> /\ ui'.pc \notin {"addCache", "addSend"}
    BY <1>4 DEF AddWindowTask, RemoveWindowTask, UpdateWindowTaskTitle, AddInsert,
       RemoveErase, RemoveStale, TakeMessage, UiStep, UiAt
  <2>2. rx'.pc = rx.pc /\ rx'.hicon = rx.hicon
    BY <1>4, UiLeavesRx DEF UI, Pump
  <2>. QED
    BY <2>1, <2>2, QuietKeeps
<1>5. CASE AddLookup
  BY <1>5, QuietKeeps DEF AddLookup, NeedsPicture, UiStep, UiAt
<1>6. CASE AddSendIcon
  <2>1. SendIcon(ui.hicon) \in Frame /\ ui.hicon \in Icons
    BY <1>6, FrameTyped DEF AddSendIcon, UiStep, TypeOK
  <2>2. IconSent(ui.hicon)' /\ IconBeforeAdd' /\ \A h : IconSent(h) => IconSent(h)'
    BY <1>6, <2>1, SendKeeps DEF AddSendIcon, UiAt, SendIcon, TypeOK
  <2>. QED
    BY <1>6, <2>2 DEF AddSendIcon, UiStep, UiAt
<1>7. CASE AddCache
  BY <1>7, QuietKeeps DEF AddCache, Remember, UiStep, UiAt
<1>8. CASE AddSend
  <2>1. AddTask(ui.hwnd, ui.hicon, title[ui.hwnd]) \in Frame
    BY <1>8, FrameTyped DEF AddSend, UiStep, UiBetween, TypeOK
  <2>2. IconBeforeAdd' /\ \A h : IconSent(h) => IconSent(h)'
    BY <1>8, <2>1, SendKeeps DEF AddSend, UiStep, AddTask, TypeOK
  <2>. QED
    BY <1>8, <2>2 DEF AddSend, UiIdle
<1>9. CASE RemoveSend
  <2>1. RemoveTask(ui.hwnd) \in Frame
    BY <1>9, FrameTyped DEF RemoveSend, UiStep, UiBetween, TypeOK
  <2>2. IconBeforeAdd' /\ \A h : IconSent(h) => IconSent(h)'
    BY <1>9, <2>1, SendKeeps DEF RemoveSend, RemoveTask, TypeOK
  <2>. QED
    BY <1>9, <2>2 DEF RemoveSend, UiIdle
<1>10. CASE UpdateSend
  <2>1. UpdateTask(ui.hwnd, title[ui.hwnd]) \in Frame
    BY <1>10, FrameTyped DEF UpdateSend, UiStep, UiBetween, TypeOK
  <2>2. IconBeforeAdd' /\ \A h : IconSent(h) => IconSent(h)'
    BY <1>10, <2>1, SendKeeps DEF UpdateSend, UpdateTask, TypeOK
  <2>. QED
    BY <1>10, <2>2 DEF UpdateSend, UiIdle
\* The receive thread.
<1>11. CASE \/ RefreshClear \/ EnumWindowsDone \/ RefreshDone \/ SendTasksSize
            \/ \E w \in Windows : EnumWindowsProc(w) \/ RefreshNext(w) \/ SendTasksRow(w)
           \/ RefreshGotIcon \/ RefreshLookup
  <2>1. /\ UNCHANGED <<wire, cached>> /\ rx'.pc # "cacheIcon"
        /\ ui' = ui \/ ui'.pc \notin {"addCache", "addSend"}
    BY <1>11 DEF RefreshClear, EnumWindowsDone, RefreshDone, SendTasksSize, EnumWindowsProc,
       RefreshNext, RefreshGotIcon, RefreshLookup, SendTasksRow, RxStep, TypeOK
  <2>. QED
    BY <2>1, QuietKeeps
<1>12. CASE RefreshSendIcon
  <2>1. SendIcon(rx.hicon) \in Frame /\ rx'.hicon = rx.hicon
    BY <1>12, FrameTyped DEF RefreshSendIcon, RxStep, TypeOK
  <2>2. IconSent(rx.hicon)' /\ IconBeforeAdd' /\ \A h : IconSent(h) => IconSent(h)'
    BY <1>12, <2>1, SendKeeps DEF RefreshSendIcon, SendIcon, TypeOK
  <2>. QED
    BY <1>12, <2>1, <2>2 DEF RefreshSendIcon, RxStep
<1>13. CASE RefreshCacheIcon
  BY <1>13, QuietKeeps DEF RefreshCacheIcon, Remember, RxStep, TypeOK
<1>14. CASE SendTasksDone
  <2>1. TaskList(rx.numTasks, rx.rows) \in Frame
    BY <1>14, FrameTyped DEF SendTasksDone, TypeOK
  <2>2. IconBeforeAdd' /\ \A h : IconSent(h) => IconSent(h)'
    BY <1>14, <2>1, SendKeeps DEF SendTasksDone, TaskList, TypeOK
  <2>3. UNCHANGED <<cached, ui>> /\ rx'.pc # "cacheIcon"
    BY <1>14 DEF SendTasksDone, RxStep, TypeOK
  <2>. QED
    BY <2>2, <2>3
<1>. QED
  BY <1>2, <1>3, <1>4, <1>5, <1>6, <1>7, <1>8, <1>9, <1>10, <1>11, <1>12, <1>13, <1>14,
     <1>3a
  DEF Next, UI, Pump, Handler, Listen, Proceed

\* Whatever the two threads do between any two of each other's steps, and even
\* when one spoils the other's iteration, every ADD_TASK the client receives
\* follows the picture of its icon.
THEOREM PictureBeforeTask == Spec => []IconBeforeAdd
<1>1. TypeOK /\ IconInv /\ [Next]_vars => (TypeOK /\ IconInv)'
  BY StepTyped, IconStep
<1>2. IconInv => IconBeforeAdd
  BY DEF IconInv
<1>. QED
  BY <1>1, <1>2, InitTyped, InitIcons, PTL DEF Spec

-----------------------------------------------------------------------------
(* Queues.                                                                 *)

\* What an element more at the end of a queue changes.
LEMMA Queued ==
    ASSUME NEW X, NEW q \in Seq(X), NEW e \in X, NEW K, NEW N
    PROVE  /\ Lacks(Append(q, e), N) <=> Lacks(q, N) /\ e \notin N
           /\ EndsIn(Append(q, e), K, N) <=> e \in K \/ (EndsIn(q, K, N) /\ e \notin N)
<1>. DEFINE p == Append(q, e)
            n == Len(q)
<1>1. /\ n \in Nat /\ DOMAIN q = 1 .. n /\ DOMAIN p = 1 .. (n + 1)
      /\ p[n + 1] = e /\ \A i \in 1 .. n : p[i] = q[i]
  OBVIOUS
<1>2. DOMAIN p = DOMAIN q \cup {n + 1} /\ \A i \in DOMAIN q : i < n + 1
  BY <1>1
<1>. HIDE DEF p, n
<1>3. Lacks(p, N) <=> Lacks(q, N) /\ e \notin N
  BY <1>1, <1>2 DEF Lacks
<1>4. e \in K => EndsIn(p, K, N)
  <2>1. \A j \in DOMAIN p : ~(j > n + 1)
    BY <1>1
  <2>. QED
    BY <1>1, <1>2, <2>1 DEF EndsIn
<1>5. ASSUME EndsIn(q, K, N), e \notin N PROVE EndsIn(p, K, N)
  <2>1. PICK i \in DOMAIN q : q[i] \in K /\ \A j \in DOMAIN q : j > i => q[j] \notin N
    BY <1>5 DEF EndsIn
  <2>. QED
    BY <1>1, <1>2, <1>5, <2>1 DEF EndsIn
<1>6. ASSUME EndsIn(p, K, N), e \notin K PROVE EndsIn(q, K, N) /\ e \notin N
  <2>1. PICK i \in DOMAIN p : p[i] \in K /\ \A j \in DOMAIN p : j > i => p[j] \notin N
    BY <1>6 DEF EndsIn
  <2>2. i \in DOMAIN q
    BY <1>1, <1>2, <1>6, <2>1
  <2>. QED
    BY <1>1, <1>2, <2>1, <2>2 DEF EndsIn
<1>. QED
  BY <1>3, <1>4, <1>5, <1>6 DEF p

\* What taking the head off a queue changes.
LEMMA Dequeued ==
    ASSUME NEW X, NEW q \in Seq(X), q # <<>>, NEW K, NEW N
    PROVE  /\ Lacks(q, N) <=> Lacks(Tail(q), N) /\ Head(q) \notin N
           /\ EndsIn(q, K, N) <=>
                 EndsIn(Tail(q), K, N) \/ (Head(q) \in K /\ Lacks(Tail(q), N))
<1>. DEFINE p == Tail(q)
            n == Len(q)
<1>1. /\ n \in Nat /\ n >= 1 /\ DOMAIN q = 1 .. n /\ DOMAIN p = 1 .. (n - 1)
      /\ q[1] = Head(q) /\ \A i \in 1 .. n - 1 : p[i] = q[i + 1]
  OBVIOUS
<1>. HIDE DEF p, n
<1>2. /\ 1 \in DOMAIN q
      /\ \A i \in DOMAIN p : i + 1 \in DOMAIN q /\ p[i] = q[i + 1] /\ i + 1 > 1
      /\ \A i, j \in DOMAIN p : i > j <=> i + 1 > j + 1
  BY <1>1
<1>3. \A i \in DOMAIN q : i = 1 \/ (i - 1 \in DOMAIN p /\ i = (i - 1) + 1)
  BY <1>1
<1>4. Lacks(q, N) <=> Lacks(p, N) /\ Head(q) \notin N
  BY <1>1, <1>2, <1>3 DEF Lacks
<1>5. ASSUME EndsIn(p, K, N) PROVE EndsIn(q, K, N)
  <2>1. PICK i \in DOMAIN p : p[i] \in K /\ \A j \in DOMAIN p : j > i => p[j] \notin N
    BY <1>5 DEF EndsIn
  <2>2. ASSUME NEW j \in DOMAIN q, j > i + 1 PROVE q[j] \notin N
    <3>1. j - 1 \in DOMAIN p /\ j - 1 > i /\ p[j - 1] = q[j]
      BY <1>1, <2>2
    <3>. QED
      BY <2>1, <3>1
  <2>. QED
    BY <1>2, <2>1, <2>2 DEF EndsIn
<1>6. ASSUME Head(q) \in K, Lacks(p, N) PROVE EndsIn(q, K, N)
  <2>1. ASSUME NEW j \in DOMAIN q, j > 1 PROVE q[j] \notin N
    <3>1. j - 1 \in DOMAIN p /\ p[j - 1] = q[j]
      BY <1>1, <2>1
    <3>. QED
      BY <1>6, <3>1 DEF Lacks
  <2>. QED
    BY <1>1, <1>2, <1>6, <2>1 DEF EndsIn
<1>7. ASSUME EndsIn(q, K, N), ~EndsIn(p, K, N) PROVE Head(q) \in K /\ Lacks(p, N)
  <2>1. PICK i \in DOMAIN q : q[i] \in K /\ \A j \in DOMAIN q : j > i => q[j] \notin N
    BY <1>7 DEF EndsIn
  <2>2. i = 1
    <3>1. ASSUME i # 1 PROVE FALSE
      <4>1. /\ i - 1 \in DOMAIN p /\ p[i - 1] = q[i]
            /\ \A j \in DOMAIN p : j > i - 1 => j + 1 \in DOMAIN q /\ j + 1 > i /\ p[j] = q[j + 1]
        BY <1>1, <2>1, <3>1
      <4>. QED
        BY <1>7, <2>1, <4>1 DEF EndsIn
    <3>. QED
      BY <3>1
  <2>. QED
    BY <1>1, <1>2, <2>1, <2>2 DEF Lacks
<1>. QED
  BY <1>4, <1>5, <1>6, <1>7 DEF p

\* Of two kinds of elements, one comes last, unless there is none.
LEMMA OneComesLast ==
    ASSUME NEW X, NEW q \in Seq(X), NEW K, NEW N
    PROVE  Lacks(q, N) \/ EndsIn(q, K, N) \/ EndsIn(q, N, K)
<1>. SUFFICES ASSUME ~Lacks(q, N) PROVE EndsIn(q, K, N) \/ EndsIn(q, N, K)
  OBVIOUS
<1>. DEFINE n == Len(q)
            S == {n - i : i \in {i \in DOMAIN q : q[i] \in K \cup N}}
<1>1. n \in Nat /\ DOMAIN q = 1 .. n /\ S \subseteq Nat /\ S # {}
  BY DEF Lacks
<1>2. PICK x \in S : \A y \in S : x <= y
  BY <1>1, Smallest
<1>3. PICK m \in DOMAIN q : q[m] \in K \cup N /\ x = n - m
  OBVIOUS
<1>4. \A j \in DOMAIN q : j > m => q[j] \notin K \cup N
  <2>1. ASSUME NEW j \in DOMAIN q, q[j] \in K \cup N PROVE ~(j > m)
    <3>1. n - j \in S
      BY <2>1
    <3>2. n - m <= n - j
      BY <1>2, <1>3, <3>1
    <3>. QED
      BY <1>1, <1>3, <3>2
  <2>. QED
    BY <2>1
<1>. QED
  BY <1>3, <1>4 DEF EndsIn

-----------------------------------------------------------------------------
(* What the queues say, whatever the threads do.                           *)

\* What a change of the desktop does: one window, one event.
DesktopMoves(w, e) ==
    /\ winEvents' = Append(winEvents, [event |-> e, hwnd |-> w])
    /\ \A v \in Windows \ {w} : title'[v] = title[v] /\ (v \in shown' <=> v \in shown)
    /\ \/ e = "SHOW" /\ w \notin shown /\ w \in shown'
       \/ e = "NAMECHANGE" /\ w \in shown /\ w \in shown'
       \/ e = "HIDE" /\ w \in shown /\ w \notin shown'
       \/ e \in {"SHOW", "HIDE"} /\ w \in shown /\ w \in shown' /\ title' = title
    /\ UNCHANGED <<msgQueue, netState, active, cached, ui, rx, wire, alive, requests,
                   interfered, misjudged>>

\* Every change of the desktop is one of these.
LEMMA DesktopMoving ==
    ASSUME TypeOK, Desktop
    PROVE  \E w \in Windows, e \in {"SHOW", "HIDE", "NAMECHANGE"} : DesktopMoves(w, e)
<1>1. PICK w \in Windows :
          \/ \E t \in Titles : WindowShown(w, t) \/ WindowRenamed(w, t)
          \/ \E t \in {title[w], NoTitle} : WindowGone(w, t)
          \/ \E event \in {"SHOW", "HIDE"} : SubObjectChanged(event, w)
  BY DEF Desktop
<1>. USE DEF TypeOK, Raise
<1>2. ASSUME NEW t \in Titles, WindowShown(w, t) PROVE DesktopMoves(w, "SHOW")
  BY <1>2 DEF WindowShown, DesktopMoves
<1>3. ASSUME NEW t \in Titles, WindowRenamed(w, t) PROVE DesktopMoves(w, "NAMECHANGE")
  BY <1>3 DEF WindowRenamed, DesktopMoves
<1>4. ASSUME NEW t, WindowGone(w, t) PROVE DesktopMoves(w, "HIDE")
  BY <1>4 DEF WindowGone, DesktopMoves
<1>5. ASSUME NEW e \in {"SHOW", "HIDE"}, SubObjectChanged(e, w) PROVE DesktopMoves(w, e)
  BY <1>5 DEF SubObjectChanged, DesktopMoves
<1>. QED
  BY <1>1, <1>2, <1>3, <1>4, <1>5

\* What a step of hookEventProc does: it turns an event into at most one message.
HookMoves(e) ==
    /\ e \in Event /\ winEvents # <<>> /\ e = Head(winEvents) /\ winEvents' = Tail(winEvents)
    /\ IF Posts(e)
       THEN msgQueue' = Append(msgQueue, [lParam |-> LParam(e.event), hwnd |-> e.hwnd])
       ELSE msgQueue' = msgQueue
    /\ misjudged' = Misjudged(e)
    /\ UNCHANGED <<shown, title, netState, active, cached, ui, rx, wire, requests, interfered>>

\* hookEventProc takes one event, and posts what it says about the window.
LEMMA HookMoving ==
    ASSUME TypeOK, HookEventProc
    PROVE  HookMoves(Head(winEvents))
BY DEF TypeOK, HookEventProc, HookMoves

\* The events of a window that an event belongs to, and the messages that the
\* message posted for it belongs to.
LEMMA Kinds ==
    ASSUME NEW w, NEW e, NEW v
    PROVE  LET x == [event |-> e, hwnd |-> v]
               m == [lParam |-> e, hwnd |-> v]
           IN  \A kinds : /\ x \in Events(kinds, w) <=> e \in kinds /\ v = w
                          /\ m \in Messages(kinds, w) <=> e \in kinds /\ v = w
BY DEF Events, Messages

\* Whether an event is one of some kinds of a window.
LEMMA EventKinds ==
    ASSUME NEW w, NEW x \in Event
    PROVE  \A kinds : x \in Events(kinds, w) <=> x.event \in kinds /\ x.hwnd = w
BY DEF Events, Event

\* Whether a message is one of some kinds of a window.
LEMMA MessageKinds ==
    ASSUME NEW w, NEW m \in HookMessage
    PROVE  \A kinds : m \in Messages(kinds, w) <=> m.lParam \in kinds /\ m.hwnd = w
BY DEF Messages, HookMessage

\* Every step, by what it does to the queues.
LEMMA QueueMoves ==
    ASSUME [Next]_vars
    PROVE  \/ Desktop \/ HookEventProc \/ RefreshClear
           \/ /\ msgQueue # <<>> /\ msgQueue' = Tail(msgQueue)
              /\ UNCHANGED <<shown, title, winEvents, misjudged>>
           \/ UNCHANGED <<shown, title, winEvents, msgQueue, misjudged>>
<1>1. CASE UNCHANGED vars
  BY <1>1 DEF vars
<1>2. CASE ServerConnected \/ AboutBox
  BY <1>2 DEF ServerConnected, AboutBox
<1>3. CASE DropMessage \/ AddWindowTask \/ RemoveWindowTask \/ UpdateWindowTaskTitle
  BY <1>3 DEF DropMessage, AddWindowTask, RemoveWindowTask, UpdateWindowTaskTitle,
     TakeMessage, Interferes
<1>4. CASE Handler
  BY <1>4 DEF Handler, AddInsert, AddLookup, AddSendIcon, AddCache, AddSend, RemoveErase,
     RemoveStale, Erase, RemoveSend, UpdateSend, UiStep, Interferes
<1>5. CASE Listen
  BY <1>5 DEF Listen, Proceed, EnumWindowsProc, RefreshNext, RefreshGotIcon, RefreshLookup,
     SendTasksRow, EnumWindowsDone, RefreshSendIcon, RefreshCacheIcon, RefreshDone,
     SendTasksSize, SendTasksDone, SpoiltCrash, RxStep, RxQuiet
<1>. QED
  BY <1>1, <1>2, <1>3, <1>4, <1>5 DEF Next, UI, Pump, Handler

\* What the queues announce is so, and stays so, whichever step is taken.
LEMMA QueueStep == TypeOK /\ QueueInv /\ [Next]_vars => QueueInv'
<1>. SUFFICES ASSUME TypeOK, QueueInv, [Next]_vars, NEW w \in Windows
              PROVE  /\ w \notin shown' =>
                           ~EndsIn(winEvents', Events({"SHOW"}, w), Events({"HIDE"}, w))
                     /\ w \notin shown' /\ Creates(w)' => HideComes(w)'
                     /\ w \in shown' /\ Unannounced(w)' /\ Destroys(w)' => w \in misjudged'
  BY DEF QueueInv
<1>. USE DEF HideComes, Unannounced, Creates, Destroys
<1>0. /\ winEvents \in Seq(Event) /\ msgQueue \in Seq(HookMessage)
      /\ w \notin shown => ~EndsIn(winEvents, Events({"SHOW"}, w), Events({"HIDE"}, w))
      /\ w \notin shown /\ Creates(w) => HideComes(w)
      /\ w \in shown /\ Unannounced(w) /\ Destroys(w) => w \in misjudged
  BY DEF QueueInv, TypeOK
<1>1. CASE UNCHANGED <<shown, title, winEvents, msgQueue, misjudged>>
  BY <1>0, <1>1
<1>2. CASE /\ msgQueue # <<>> /\ msgQueue' = Tail(msgQueue)
           /\ UNCHANGED <<shown, title, winEvents, misjudged>>
  BY <1>0, <1>2, Dequeued
<1>3. CASE Desktop
  <2>1. PICK v \in Windows, e \in {"SHOW", "HIDE", "NAMECHANGE"} : DesktopMoves(v, e)
    BY <1>3, DesktopMoving
  <2>. DEFINE x == [event |-> e, hwnd |-> v]
  <2>2. /\ \A N : Lacks(winEvents', N) <=> Lacks(winEvents, N) /\ x \notin N
        /\ \A K, N : EndsIn(winEvents', K, N)
                        <=> x \in K \/ (EndsIn(winEvents, K, N) /\ x \notin N)
    <3>1. x \in Event /\ winEvents' = Append(winEvents, x)
      BY <2>1 DEF Event, DesktopMoves
    <3>. HIDE DEF x
    <3>. QED
      BY <1>0, <3>1, Queued
  <2>3. \A kinds : x \in Events(kinds, w) <=> e \in kinds /\ v = w
    BY Kinds
  <2>. HIDE DEF x
  <2>4. UNCHANGED <<msgQueue, misjudged>>
    BY <2>1 DEF DesktopMoves
  <2>5. CASE v = w
    BY <1>0, <2>1, <2>2, <2>3, <2>4, <2>5 DEF DesktopMoves
  <2>6. CASE v # w
    BY <1>0, <2>1, <2>2, <2>3, <2>4, <2>6 DEF DesktopMoves
  <2>. QED
    BY <2>5, <2>6
<1>4. CASE HookEventProc
  <2>. DEFINE e == Head(winEvents)
              m == [lParam |-> LParam(e.event), hwnd |-> e.hwnd]
  <2>1. HookMoves(e)
    BY <1>4, HookMoving
  <2>. HIDE DEF e
  <2>2. e \in Event /\ e.event \in {"SHOW", "HIDE", "NAMECHANGE"} /\ m \in HookMessage
    BY <2>1 DEF HookMoves, Event, HookMessage, LParam
  <2>3. /\ \A N : Lacks(winEvents, N) <=> Lacks(winEvents', N) /\ e \notin N
        /\ \A K, N : EndsIn(winEvents, K, N)
                        <=> EndsIn(winEvents', K, N) \/ (e \in K /\ Lacks(winEvents', N))
    BY <1>0, <2>1, Dequeued DEF HookMoves
  <2>4. Posts(e) => \A K, N : EndsIn(msgQueue', K, N)
                                 <=> m \in K \/ (EndsIn(msgQueue, K, N) /\ m \notin N)
    <3>1. Posts(e) => msgQueue' = Append(msgQueue, m)
      BY <2>1 DEF HookMoves
    <3>2. m \in HookMessage /\ msgQueue \in Seq(HookMessage)
      BY <1>0, <2>2
    <3>. HIDE DEF m
    <3>3. ASSUME Posts(e), NEW K, NEW N
          PROVE  EndsIn(msgQueue', K, N) <=> m \in K \/ (EndsIn(msgQueue, K, N) /\ m \notin N)
      <4>1. msgQueue' = Append(msgQueue, m)
        BY <3>1, <3>3
      <4>. QED
        BY <3>2, <4>1, Queued
    <3>. QED
      BY <3>3
  <2>5. ~Posts(e) => msgQueue' = msgQueue
    BY <2>1 DEF HookMoves
  <2>6. /\ \A kinds : e \in Events(kinds, w) <=> e.event \in kinds /\ e.hwnd = w
        /\ \A kinds : m \in Messages(kinds, w) <=> LParam(e.event) \in kinds /\ e.hwnd = w
    <3>1. m \in HookMessage /\ m.lParam = LParam(e.event) /\ m.hwnd = e.hwnd
      BY <2>2
    <3>. HIDE DEF m
    <3>. QED
      BY <2>2, <3>1, EventKinds, MessageKinds
  <2>. HIDE DEF m
  <2>7. /\ LParam(e.event) = "CREATE" <=> e.event = "SHOW"
        /\ LParam(e.event) = "DESTROY" <=> e.event = "HIDE"
    BY <2>2 DEF LParam
  <2>8. shown' = shown /\ misjudged' = Misjudged(e)
    BY <2>1 DEF HookMoves
  <2>9. w \notin shown' => ~EndsIn(winEvents', Events({"SHOW"}, w), Events({"HIDE"}, w))
    BY <1>0, <2>3, <2>8
  <2>10. ASSUME w \notin shown', Creates(w)' PROVE HideComes(w)'
    <3>1. CASE e.event = "SHOW" /\ e.hwnd = w
      BY <1>0, <2>3, <2>6, <2>8, <2>10, <3>1
    <3>2. CASE e.event = "HIDE" /\ e.hwnd = w
      BY <2>4, <2>6, <2>7, <2>10, <3>2 DEF Posts
    <3>3. CASE ~(e.event \in {"SHOW", "HIDE"} /\ e.hwnd = w)
      <4>1. Creates(w)
        BY <2>4, <2>5, <2>6, <2>7, <2>10, <3>3
      <4>. QED
        BY <1>0, <2>3, <2>6, <2>8, <2>10, <3>3, <4>1
    <3>. QED
      BY <3>1, <3>2, <3>3
  <2>11. ASSUME w \in shown', Unannounced(w)', Destroys(w)' PROVE w \in misjudged'
    <3>1. CASE e.event = "SHOW" /\ e.hwnd = w
      <4>1. ~HasTitle(w)
        BY <2>4, <2>6, <2>7, <2>11, <3>1 DEF Posts
      <4>. QED
        BY <2>8, <3>1, <4>1 DEF Misjudged
    <3>2. CASE e.event = "HIDE" /\ e.hwnd = w
      BY <2>8, <2>11, <3>2 DEF Misjudged
    <3>3. CASE ~(e.event \in {"SHOW", "HIDE"} /\ e.hwnd = w)
      <4>1. Destroys(w) /\ Unannounced(w)
        BY <2>3, <2>4, <2>5, <2>6, <2>7, <2>11, <3>3
      <4>2. w \in misjudged
        BY <1>0, <2>8, <2>11, <4>1
      <4>. QED
        BY <2>2, <2>8, <3>3, <4>2 DEF Misjudged
    <3>. QED
      BY <3>1, <3>2, <3>3
  <2>. QED
    BY <2>9, <2>10, <2>11
<1>5. CASE RefreshClear
  <2>1. /\ UNCHANGED <<shown, winEvents, msgQueue>>
        /\ misjudged' = {v \in misjudged : \E i \in DOMAIN msgQueue : msgQueue[i].hwnd = v}
    BY <1>5 DEF RefreshClear, RxStep
  <2>2. ASSUME Destroys(w) PROVE \E i \in DOMAIN msgQueue : msgQueue[i].hwnd = w
    BY <2>2 DEF EndsIn, Messages
  <2>. QED
    BY <1>0, <2>1, <2>2
<1>. QED
  BY <1>1, <1>2, <1>3, <1>4, <1>5, QueueMoves

-----------------------------------------------------------------------------
(* Where the threads are.                                                  *)

\* A thread that starts or ends no handler, no listing and no entry of the map
\* leaves them where they are.
LEMMA PhaseKept ==
    ASSUME PhaseInv, UNCHANGED <<netState, active, rx, requests>>, UiBetween' = UiBetween,
           ui'.pc = "removeStale" => ui.pc = "removeStale", interfered => interfered'
    PROVE  PhaseInv'
BY DEF PhaseInv, Tasks, Listing

\* The UI thread keeps what the state says of the threads.
LEMMA PhaseOfUI == TypeOK /\ PhaseInv /\ UI => PhaseInv'
<1>. SUFFICES ASSUME TypeOK, PhaseInv, UI PROVE PhaseInv'
  OBVIOUS
<1>1. CASE HookEventProc
  BY <1>1, PhaseKept DEF HookEventProc, UiBetween
<1>2. CASE DropMessage
  BY <1>2, PhaseKept DEF DropMessage, UiBetween, Interferes
<1>3. ASSUME netState = "CONNECTED", netState' = netState, requests' = requests,
             interfered' = (interfered \/ Listing),
             ui'.pc = "removeStale" => ui.pc = "removeStale",
             rx'.pc = "getIcon" /\ rx'.task # NoWindow => rx'.task \in Tasks'
      PROVE  PhaseInv'
  BY <1>3, UiLeavesRx DEF PhaseInv, Listing
<1>4. ASSUME UNCHANGED rx, Tasks \subseteq Tasks'
      PROVE  rx'.pc = "getIcon" /\ rx'.task # NoWindow => rx'.task \in Tasks'
  BY <1>4 DEF PhaseInv
<1>5. ASSUME NEW w \in Windows, Erase(w)
      PROVE  rx'.pc = "getIcon" /\ rx'.task # NoWindow => rx'.task \in Tasks'
  <2>1. rx \in Locals /\ active \in [Windows -> Icons \cup {NoIcon, Absent}]
    BY DEF TypeOK, Locals
  <2>2. rx'.pc = rx.pc /\ rx'.task = (IF rx.task = w THEN NoWindow ELSE rx.task)
    BY <1>5, <2>1 DEF Erase, Locals
  <2>3. Tasks' = Tasks \ {w}
    BY <1>5, <2>1 DEF Erase, Tasks
  <2>. QED
    BY <2>2, <2>3 DEF PhaseInv
<1>6. CASE AddWindowTask \/ RemoveWindowTask \/ UpdateWindowTaskTitle
  BY <1>3, <1>4, <1>6 DEF AddWindowTask, RemoveWindowTask, UpdateWindowTaskTitle,
     TakeMessage, Interferes, UiAt, Tasks
<1>7. CASE Handler
  <2>1. netState = "CONNECTED"
    BY <1>7 DEF Handler, AddInsert, AddLookup, AddSendIcon, AddCache, AddSend, RemoveErase,
       RemoveStale, RemoveSend, UpdateSend, UiStep, PhaseInv, UiBetween
  <2>2. /\ netState' = netState /\ requests' = requests
        /\ interfered' = (interfered \/ Listing) /\ ui'.pc # "removeStale"
    BY <1>7 DEF Handler, AddInsert, AddLookup, AddSendIcon, AddCache, AddSend, RemoveErase,
       RemoveStale, RemoveSend, UpdateSend, UiStep, Interferes, UiAt, UiIdle
  <2>3. CASE AddLookup \/ AddSendIcon \/ AddCache \/ AddSend \/ RemoveSend \/ UpdateSend
    <3>1. UNCHANGED <<rx, active>>
      BY <2>3 DEF AddLookup, AddSendIcon, AddCache, AddSend, RemoveSend, UpdateSend
    <3>. QED
      BY <1>3, <1>4, <2>1, <2>2, <3>1 DEF Tasks
  <2>4. CASE AddInsert
    <3>1. rx'.pc = rx.pc /\ rx'.task = rx.task
      BY <2>4 DEF AddInsert, SpoilIteration, TypeOK
    <3>2. Tasks \subseteq Tasks'
      BY <2>4, TaskServerAssumption DEF AddInsert, Tasks, Known, GetHICON, TypeOK
    <3>. QED
      BY <1>3, <2>1, <2>2, <3>1, <3>2 DEF PhaseInv
  <2>5. CASE RemoveErase
    <3>1. Erase(ui.hwnd) /\ ui.hwnd \in Windows
      BY <2>5 DEF RemoveErase, UiStep, UiBetween, TypeOK
    <3>. QED
      BY <1>3, <1>5, <2>1, <2>2, <3>1
  <2>6. CASE RemoveStale
    <3>1. UNCHANGED <<active, rx>> \/ \E w \in Tasks : Erase(w)
      BY <2>6 DEF RemoveStale
    <3>2. \A w \in Tasks : w \in Windows
      BY DEF Tasks
    <3>. QED
      BY <1>3, <1>4, <1>5, <2>1, <2>2, <3>1, <3>2 DEF Tasks
  <2>. QED
    BY <1>7, <2>3, <2>4, <2>5, <2>6 DEF Handler
<1>. QED
  BY <1>1, <1>2, <1>6, <1>7 DEF UI, Pump, Handler

\* The icon of a window changes no task: an entry that is there is written to.
LEMMA GotIconTasks ==
    ASSUME TypeOK, PhaseInv, RefreshGotIcon
    PROVE  Tasks' = Tasks
<1>1. active \in [Windows -> Icons \cup {NoIcon, Absent}] /\ Absent \notin Icons
  BY TaskServerAssumption DEF TypeOK
<1>2. PICK h \in Icons :
        \/ active' = active
        \/ \E w \in Tasks : active' = [active EXCEPT ![w] = h]
  BY DEF RefreshGotIcon, GetHICON, PhaseInv
<1>. QED
  BY <1>1, <1>2 DEF Tasks

\* So does the receive thread.
LEMMA PhaseOfListing == TypeOK /\ PhaseInv /\ (RefreshClear \/ Listen) => PhaseInv'
<1>. SUFFICES ASSUME TypeOK, PhaseInv, RefreshClear \/ Listen PROVE PhaseInv'
  OBVIOUS
<1>. USE DEF RxStep, RxQuiet
<1>0. rx \in Locals /\ active \in [Windows -> Icons \cup {NoIcon, Absent}] /\ requests \in Nat
  BY DEF TypeOK, Locals
<1>1. CASE RefreshClear
  <2>1. /\ requests' > 0 /\ rx'.pc = "enumWindows" /\ rx'.rows = rx.rows
        /\ interfered' = ~UiBetween /\ Tasks' = {}
        /\ UNCHANGED netState /\ (UiBetween => ui' = ui)
    BY <1>0, <1>1 DEF RefreshClear, Locals, Cleared, Tasks, UiBetween
  <2>2. (UiBetween' <=> UiBetween) /\ (UiBetween => ui'.pc # "removeStale")
    BY <1>1 DEF RefreshClear, UiBetween, TypeOK
  <2>. QED
    BY <2>1, <2>2 DEF PhaseInv
<1>2. ASSUME NEW w \in Windows, EnumWindowsProc(w) PROVE PhaseInv'
  <2>1. /\ rx'.pc = "enumWindows" /\ rx'.rows = rx.rows /\ rx'.seen = rx.seen \cup {w}
        /\ rx.pc = "enumWindows"
        /\ UNCHANGED <<netState, ui, requests, interfered>>
    BY <1>0, <1>2 DEF EnumWindowsProc, Locals
  <2>2. Tasks' \subseteq Tasks \cup {w}
    BY <1>0, <1>2 DEF EnumWindowsProc, Tasks
  <2>. QED
    BY <2>1, <2>2 DEF PhaseInv, UiBetween, Listing
<1>3. ASSUME Tasks' = Tasks, rx.pc # "recv", rx'.pc # "enumWindows", IsFiniteSet(rx'.rows),
             rx'.pc # "getIcon", UNCHANGED <<netState, ui, requests, interfered>>
      PROVE  PhaseInv'
  BY <1>3 DEF PhaseInv, UiBetween, Listing
<1>4. ASSUME NEW w \in Windows, RefreshNext(w) PROVE PhaseInv'
  <2>1. /\ rx'.pc = "getIcon" /\ rx'.rows = rx.rows /\ rx'.task = w /\ w \in Tasks
        /\ rx.pc = "iconLoop" /\ Tasks' = Tasks
    BY <1>0, <1>4 DEF RefreshNext, Reachable, Unvisited, Locals, Tasks
  <2>. QED
    BY <1>4, <2>1 DEF RefreshNext, PhaseInv, Listing, UiBetween
<1>4a. CASE RefreshGotIcon
  <2>1. /\ rx'.pc = "lookup" /\ rx'.rows = rx.rows /\ rx.pc = "getIcon"
        /\ UNCHANGED <<netState, ui, requests, interfered>>
    BY <1>0, <1>4a DEF RefreshGotIcon, Locals
  <2>2. Tasks' = Tasks
    BY <1>4a, GotIconTasks
  <2>. QED
    BY <1>3, <2>1, <2>2 DEF PhaseInv
<1>4b. CASE RefreshLookup
  <2>1. rx'.pc \in {"sendIcon", "iconLoop"} /\ rx'.rows = rx.rows
    BY <1>0, <1>4b DEF RefreshLookup, Locals
  <2>. QED
    BY <1>3, <1>4b, <2>1 DEF RefreshLookup, Tasks, PhaseInv
<1>5. ASSUME NEW w \in Windows, SendTasksRow(w) PROVE PhaseInv'
  <2>1. rx'.pc = rx.pc /\ \E r : rx'.rows = rx.rows \cup {r}
    BY <1>0, <1>5 DEF SendTasksRow, Locals
  <2>2. IsFiniteSet(rx'.rows)
    BY <2>1, FS_AddElement DEF PhaseInv
  <2>. QED
    BY <1>3, <1>5, <2>1, <2>2 DEF SendTasksRow, Tasks
<1>6. CASE EnumWindowsDone \/ RefreshSendIcon \/ RefreshCacheIcon \/ RefreshDone
  <2>1. rx'.pc \notin {"enumWindows", "getIcon"} /\ rx'.rows = rx.rows /\ rx.pc # "recv"
    BY <1>0, <1>6 DEF EnumWindowsDone, RefreshSendIcon, RefreshCacheIcon, RefreshDone,
       Locals
  <2>. QED
    BY <1>3, <1>6, <2>1
    DEF EnumWindowsDone, RefreshSendIcon, RefreshCacheIcon, RefreshDone, Tasks, PhaseInv
<1>7. CASE SendTasksSize \/ SendTasksDone
  <2>1. rx'.pc \notin {"enumWindows", "getIcon"} /\ rx'.rows = {} /\ rx.pc # "recv"
    BY <1>0, <1>7 DEF SendTasksSize, SendTasksDone, Locals
  <2>. QED
    BY <1>3, <1>7, <2>1, FS_EmptySet DEF SendTasksSize, SendTasksDone, Tasks
<1>8. CASE SpoiltCrash
  BY <1>8, PhaseKept DEF SpoiltCrash, UiBetween
<1>. QED
  BY <1>1, <1>2, <1>4, <1>4a, <1>4b, <1>5, <1>6, <1>7, <1>8 DEF Listen, Proceed

\* So does every step.
LEMMA PhaseStep == TypeOK /\ PhaseInv /\ [Next]_vars => PhaseInv'
<1>. SUFFICES ASSUME TypeOK, PhaseInv, [Next]_vars PROVE PhaseInv'
  OBVIOUS
<1>1. CASE UNCHANGED vars
  <2>1. UNCHANGED <<netState, active, ui, rx, requests, interfered>>
    BY <1>1 DEF vars
  <2>. QED
    BY <2>1, PhaseKept DEF UiBetween
<1>2. CASE Desktop
  <2>1. UNCHANGED <<netState, active, ui, rx, requests, interfered>>
    BY <1>2, DesktopMoving DEF DesktopMoves
  <2>. QED
    BY <2>1, PhaseKept DEF UiBetween
<1>3. CASE ServerConnected
  BY <1>3 DEF ServerConnected, PhaseInv, UiBetween, Tasks, Listing
<1>4. CASE AboutBox
  BY <1>4, PhaseKept DEF AboutBox, UiAt, UiBetween
<1>. QED
  BY <1>1, <1>2, <1>3, <1>4, PhaseOfUI, PhaseOfListing DEF Next

-----------------------------------------------------------------------------
(* The map follows the desktop.                                            *)

\* A step that changes neither the desktop nor its events, and not whether a
\* window becomes a task, keeps a window tracked; a listing may pass over it.
LEMMA TrackKept ==
    ASSUME NEW w \in Windows, Tracked(w), requests' = requests,
           UNCHANGED <<shown, winEvents, misjudged>>,
           BecomesTask(w)' <=> BecomesTask(w),
           rx.pc = "enumWindows" /\ w \notin rx.seen =>
               rx'.pc = "enumWindows" /\ w \notin rx'.seen
    PROVE  Tracked(w)'
BY DEF Tracked, HideComes, Unannounced

\* Handling a message, or a later step of its handler, changes nothing about
\* which windows become tasks.
LEMMA HandlingKept ==
    ASSUME TypeOK, AddWindowTask \/ RemoveWindowTask \/ UpdateWindowTaskTitle \/ Handler,
           ~RemoveStale, NEW w \in Windows
    PROVE  BecomesTask(w)' <=> BecomesTask(w)
<1>0. /\ msgQueue \in Seq(HookMessage) /\ ui.pc \in UiPc
      /\ active \in [Windows -> Icons \cup {NoIcon, Absent}] /\ Absent \notin Icons
      /\ ~UiBetween => ui.hwnd \in Windows
  BY TaskServerAssumption DEF TypeOK
<1>. DEFINE m == Head(msgQueue)
            D == Messages({"DESTROY"}, w)
            C == Messages({"CREATE"}, w)
<1>1. ASSUME NEW kind, TakeMessage(kind)
      PROVE  /\ m \in HookMessage /\ m.lParam = kind /\ m.hwnd \in Windows
             /\ m \in D <=> kind = "DESTROY" /\ m.hwnd = w
             /\ m \in C <=> kind = "CREATE" /\ m.hwnd = w
             /\ Lacks(msgQueue, D) <=> Lacks(msgQueue', D) /\ m \notin D
             /\ Creates(w) <=> Creates(w)' \/ (m \in C /\ Lacks(msgQueue', D))
             /\ ui.pc = "GetMessage"
  <2>1. m \in HookMessage /\ m.lParam = kind /\ msgQueue # <<>> /\ msgQueue' = Tail(msgQueue)
    BY <1>0, <1>1 DEF TakeMessage
  <2>2. m.hwnd \in Windows
    BY <2>1 DEF HookMessage
  <2>3. \A kinds : m \in Messages(kinds, w) <=> kind \in kinds /\ m.hwnd = w
    BY <2>1, MessageKinds
  <2>4. /\ Lacks(msgQueue, D) <=> Lacks(msgQueue', D) /\ m \notin D
        /\ Creates(w) <=> Creates(w)' \/ (m \in C /\ Lacks(msgQueue', D))
    <3>. HIDE DEF D, C
    <3>1. /\ Lacks(msgQueue, D) <=> Lacks(msgQueue', D) /\ m \notin D
          /\ EndsIn(msgQueue, C, D) <=>
               EndsIn(msgQueue', C, D) \/ (m \in C /\ Lacks(msgQueue', D))
      BY <1>0, <2>1, Dequeued
    <3>. QED
      BY <3>1 DEF Creates, C, D
  <2>. QED
    BY <1>1, <2>1, <2>2, <2>3, <2>4 DEF TakeMessage
<1>. HIDE DEF m
<1>2. CASE AddWindowTask
  <2>1. TakeMessage("CREATE") /\ active' = active
    BY <1>2 DEF AddWindowTask
  <2>2. IF m.hwnd \in Tasks THEN ui' = ui ELSE ui'.pc = "addInsert" /\ ui'.hwnd = m.hwnd
    BY <1>2 DEF AddWindowTask, Known, UiAt, m
  <2>3. Tasks' = Tasks
    BY <2>1 DEF Tasks
  <2>. HIDE DEF D, C
  <2>4. CASE m.hwnd = w
    BY <1>1, <2>1, <2>2, <2>3, <2>4 DEF BecomesTask, D
  <2>5. CASE m.hwnd # w
    BY <1>1, <2>1, <2>2, <2>3, <2>5 DEF BecomesTask, D
  <2>. QED
    BY <2>4, <2>5
<1>3. CASE RemoveWindowTask
  <2>1. TakeMessage("DESTROY") /\ active' = active
    BY <1>3 DEF RemoveWindowTask
  <2>2. IF m.hwnd \in Tasks THEN ui'.pc = "removeErase" /\ ui'.hwnd = m.hwnd ELSE ui' = ui
    BY <1>3 DEF RemoveWindowTask, Known, UiAt, m
  <2>3. Tasks' = Tasks
    BY <2>1 DEF Tasks
  <2>. HIDE DEF D, C
  <2>4. CASE m.hwnd = w
    BY <1>1, <2>1, <2>2, <2>3, <2>4 DEF BecomesTask, D
  <2>5. CASE m.hwnd # w
    BY <1>1, <2>1, <2>2, <2>3, <2>5 DEF BecomesTask, D
  <2>. QED
    BY <2>4, <2>5
<1>4. CASE UpdateWindowTaskTitle
  <2>1. TakeMessage("RENAME")
    BY <1>4 DEF UpdateWindowTaskTitle
  <2>2. Tasks' = Tasks /\ (ui' = ui \/ ui'.pc = "updateSend")
    BY <1>4 DEF UpdateWindowTaskTitle, UiAt, Tasks
  <2>. HIDE DEF D, C
  <2>. QED
    BY <1>1, <2>1, <2>2 DEF BecomesTask, D
<1>5. CASE AddInsert
  <2>1. /\ Tasks' = Tasks \cup {ui.hwnd} /\ ui'.pc = "addLookup" /\ ui.pc = "addInsert"
        /\ msgQueue' = msgQueue
    BY <1>0, <1>5 DEF AddInsert, Known, UiAt, UiStep, Tasks, GetHICON, UiBetween
  <2>. QED
    BY <2>1 DEF BecomesTask, Creates
<1>6. CASE AddLookup \/ AddSendIcon \/ AddCache \/ AddSend \/ RemoveSend \/ UpdateSend
  <2>1. Tasks' = Tasks /\ msgQueue' = msgQueue
    BY <1>6 DEF AddLookup, AddSendIcon, AddCache, AddSend, RemoveSend, UpdateSend, UiStep,
       Tasks
  <2>2. ui.pc \in {"addLookup", "addSendIcon", "addCache", "addSend", "removeSend", "updateSend"}
    BY <1>6 DEF AddLookup, AddSendIcon, AddCache, AddSend, RemoveSend, UpdateSend, UiStep
  <2>3. ui'.pc \in {"addSendIcon", "addSend", "addCache", "GetMessage"}
    BY <1>6 DEF AddLookup, AddSendIcon, AddCache, AddSend, RemoveSend, UpdateSend, UiAt,
       UiIdle
  <2>. QED
    BY <2>1, <2>2, <2>3 DEF BecomesTask, Creates
<1>7. CASE RemoveErase
  <2>1. /\ Tasks' = Tasks \ {ui.hwnd} /\ ui'.pc = "removeSend" /\ ui.pc = "removeErase"
        /\ msgQueue' = msgQueue
    BY <1>0, <1>7 DEF RemoveErase, Erase, UiAt, UiStep, Tasks, UiBetween
  <2>. QED
    BY <2>1 DEF BecomesTask, Creates
<1>. QED
  BY <1>2, <1>3, <1>4, <1>5, <1>6, <1>7 DEF Handler

\* A window misjudged by hookEventProc is remembered, any other is announced by
\* the message it posts.
LEMMA TrackOfHook ==
    ASSUME TypeOK, QueueInv, QueueInv', TrackInv, HookEventProc
    PROVE  TrackInv'
<1>. DEFINE e == Head(winEvents)
            m == [lParam |-> LParam(e.event), hwnd |-> e.hwnd]
<1>1. HookMoves(e)
  BY HookMoving
<1>. HIDE DEF e
<1>2. e \in Event /\ e.event \in {"SHOW", "HIDE", "NAMECHANGE"} /\ m \in HookMessage
  BY <1>1 DEF HookMoves, Event, HookMessage, LParam
<1>3. /\ m.lParam = "CREATE" <=> e.event = "SHOW"
      /\ m.lParam = "DESTROY" <=> e.event = "HIDE"
      /\ m.hwnd = e.hwnd
      /\ Posts(e) => msgQueue' = Append(msgQueue, m)
      /\ ~Posts(e) => msgQueue' = msgQueue
  BY <1>1, <1>2 DEF LParam, HookMoves
<1>. HIDE DEF m
<1>. SUFFICES ASSUME ~interfered', NEW w \in Windows PROVE Tracked(w)'
  BY DEF TrackInv
<1>4. /\ ~interfered /\ Tracked(w)
      /\ UNCHANGED <<shown, active, ui, rx, requests>>
      /\ misjudged' = Misjudged(e)
  BY <1>1 DEF HookMoves, TrackInv
<1>5. /\ \A kinds : e \in Events(kinds, w) <=> e.event \in kinds /\ e.hwnd = w
      /\ \A kinds : m \in Messages(kinds, w) <=> m.lParam \in kinds /\ m.hwnd = w
  BY <1>2, EventKinds, MessageKinds
<1>6. \A N : Lacks(winEvents, N) <=> Lacks(winEvents', N) /\ e \notin N
  BY <1>1, Dequeued DEF HookMoves, TypeOK
<1>7. ASSUME Posts(e), NEW K, NEW N
      PROVE  /\ EndsIn(msgQueue', K, N) <=> m \in K \/ (EndsIn(msgQueue, K, N) /\ m \notin N)
             /\ Lacks(msgQueue', N) <=> Lacks(msgQueue, N) /\ m \notin N
  <2>1. msgQueue \in Seq(HookMessage) /\ msgQueue' = Append(msgQueue, m)
    BY <1>3, <1>7 DEF TypeOK
  <2>. QED
    BY <1>2, <2>1, Queued
<1>8. /\ BecomesTask(w)' => BecomesTask(w) \/ Creates(w)'
      /\ BecomesTask(w) => BecomesTask(w)' \/ (e.event = "HIDE" /\ e.hwnd = w)
  <2>1. CASE Posts(e)
    BY <1>3, <1>4, <1>5, <1>7, <2>1 DEF BecomesTask, Creates, Tasks
  <2>2. CASE ~Posts(e)
    BY <1>3, <1>4, <2>2 DEF BecomesTask, Creates, Tasks
  <2>. QED
    BY <2>1, <2>2
<1>9. ASSUME w \notin shown', BecomesTask(w)' PROVE HideComes(w)'
  <2>1. CASE Creates(w)'
    BY <1>9, <2>1 DEF QueueInv
  <2>2. CASE ~Creates(w)'
    <3>1. HideComes(w) /\ BecomesTask(w)'
      BY <1>4, <1>8, <1>9, <2>2 DEF Tracked
    <3>2. ~(e.event = "HIDE" /\ e.hwnd = w)
      <4>1. ASSUME e.event = "HIDE", e.hwnd = w PROVE FALSE
        <5>1. Posts(e) /\ m \in Messages({"DESTROY"}, w)
          BY <1>3, <1>5, <4>1 DEF Posts
        <5>2. ~Lacks(msgQueue', Messages({"DESTROY"}, w))
          BY <1>7, <5>1
        <5>. QED
          BY <1>9, <2>2, <5>2 DEF BecomesTask
      <4>. QED
        BY <4>1
    <3>. QED
      BY <1>5, <1>6, <3>1, <3>2 DEF HideComes
  <2>. QED
    BY <2>1, <2>2
<1>10. ASSUME w \in shown', requests' > 0
       PROVE  \/ rx'.pc = "enumWindows" /\ w \notin rx'.seen
              \/ ~Unannounced(w)' \/ BecomesTask(w)' \/ w \in misjudged'
  <2>1. CASE e.event = "HIDE" /\ e.hwnd = w
    BY <1>4, <1>10, <2>1 DEF Misjudged
  <2>2. CASE e.event = "SHOW" /\ e.hwnd = w
    <3>1. CASE HasTitle(w)
      <4>1. Posts(e) /\ m \in Messages({"CREATE"}, w)
        BY <1>3, <1>5, <2>2, <3>1 DEF Posts
      <4>2. Creates(w)'
        BY <1>7, <4>1 DEF Creates
      <4>. QED
        BY <4>2 DEF BecomesTask
    <3>2. CASE ~HasTitle(w)
      BY <1>4, <2>2, <3>2 DEF Misjudged
    <3>. QED
      BY <3>1, <3>2
  <2>3. CASE ~(e.event \in {"SHOW", "HIDE"} /\ e.hwnd = w)
    <3>1. Unannounced(w)' => Unannounced(w)
      BY <1>5, <1>6, <2>3 DEF Unannounced
    <3>2. w \in misjudged => w \in misjudged'
      BY <1>2, <1>4, <2>3 DEF Misjudged
    <3>. QED
      BY <1>4, <1>8, <1>10, <2>3, <3>1, <3>2 DEF Tracked
  <2>. QED
    BY <2>1, <2>2, <2>3
<1>. QED
  BY <1>9, <1>10 DEF Tracked

\* A listing sees the windows as they are: what it misses or has twice is still
\* announced.
LEMMA TrackOfListing ==
    ASSUME TypeOK, QueueInv, PhaseInv, TrackInv, RefreshClear \/ Listen
    PROVE  TrackInv'
<1>. SUFFICES ASSUME ~interfered', NEW w \in Windows PROVE Tracked(w)'
  BY DEF TrackInv
<1>. USE DEF RxStep, RxQuiet
<1>0. /\ rx \in Locals /\ active \in [Windows -> Icons \cup {NoIcon, Absent}]
      /\ requests \in Nat /\ Absent \notin Icons \cup {NoIcon}
      /\ msgQueue \in Seq(HookMessage)
  BY TaskServerAssumption DEF TypeOK, Locals
<1>1. CASE RefreshClear
  <2>1. /\ rx'.pc = "enumWindows" /\ rx'.seen = {} /\ UiBetween /\ Tasks' = {}
        /\ UNCHANGED <<shown, winEvents, msgQueue, ui>>
    BY <1>0, <1>1 DEF RefreshClear, Locals, Cleared, Tasks, UiBetween
  <2>2. BecomesTask(w)' <=> Creates(w)
    BY <2>1 DEF BecomesTask, Creates, UiBetween
  <2>. QED
    BY <2>1, <2>2 DEF Tracked, QueueInv, HideComes
<1>2. ASSUME UNCHANGED <<shown, winEvents, msgQueue, ui, requests, interfered, misjudged>>,
             w \in Tasks' <=> w \in Tasks,
             rx.pc = "enumWindows" /\ w \notin rx.seen =>
                 rx'.pc = "enumWindows" /\ w \notin rx'.seen
      PROVE  Tracked(w)'
  <2>1. BecomesTask(w)' <=> BecomesTask(w)
    BY <1>2 DEF BecomesTask, Creates
  <2>. QED
    BY <1>2, <2>1, TrackKept DEF TrackInv
<1>3. ASSUME NEW v \in Windows, EnumWindowsProc(v) PROVE Tracked(w)'
  <2>1. /\ rx.pc = "enumWindows" /\ rx'.pc = "enumWindows" /\ rx'.seen = rx.seen \cup {v}
        /\ UNCHANGED <<shown, winEvents, msgQueue, ui, requests, interfered, misjudged>>
    BY <1>0, <1>3 DEF EnumWindowsProc, Locals
  <2>2. Tasks' = IF v \in shown THEN Tasks \cup {v} ELSE Tasks
    BY <1>0, <1>3 DEF EnumWindowsProc, Known, Tasks
  <2>3a. CASE w # v
    BY <1>2, <2>1, <2>2, <2>3a
  <2>3. CASE w = v /\ w \notin shown
    <3>1. BecomesTask(w)' <=> BecomesTask(w)
      BY <2>1, <2>2, <2>3 DEF BecomesTask, Creates
    <3>. QED
      BY <2>1, <2>3, <3>1 DEF Tracked, TrackInv, HideComes
  <2>4. CASE w = v /\ w \in shown
    <3>. DEFINE C == Messages({"CREATE"}, w)
                D == Messages({"DESTROY"}, w)
    <3>1. w \in Tasks'
      BY <2>2, <2>4
    <3>2. Lacks(msgQueue, D) \/ EndsIn(msgQueue, C, D) \/ EndsIn(msgQueue, D, C)
      <4>. HIDE DEF C, D
      <4>. QED
        BY <1>0, OneComesLast
    <3>3. CASE Lacks(msgQueue, D) \/ EndsIn(msgQueue, C, D)
      <4>1. UiBetween'
        BY <2>1 DEF PhaseInv, Listing, UiBetween
      <4>. QED
        BY <2>1, <2>4, <3>1, <3>3, <4>1 DEF Tracked, BecomesTask, Creates, UiBetween
    <3>4. CASE EndsIn(msgQueue, D, C)
      <4>1. ~Unannounced(w) \/ w \in misjudged
        BY <2>4, <3>4 DEF QueueInv, Destroys
      <4>. QED
        BY <2>1, <2>4, <4>1 DEF Tracked, Unannounced
    <3>. QED
      BY <3>2, <3>3, <3>4
  <2>. QED
    BY <2>3a, <2>3, <2>4
<1>4. CASE EnumWindowsDone
  BY <1>0, <1>2, <1>4 DEF EnumWindowsDone, Locals, Tasks
<1>5. CASE RefreshGotIcon
  <2>1. Tasks' = Tasks
    BY <1>5, GotIconTasks
  <2>. QED
    BY <1>2, <1>5, <2>1 DEF RefreshGotIcon
<1>6. CASE \/ RefreshSendIcon \/ RefreshCacheIcon \/ RefreshDone \/ SendTasksSize
           \/ SendTasksDone \/ SpoiltCrash \/ RefreshLookup
           \/ \E v \in Windows : RefreshNext(v) \/ SendTasksRow(v)
  BY <1>2, <1>6 DEF RefreshNext, RefreshLookup, RefreshSendIcon, RefreshCacheIcon,
     RefreshDone, SendTasksSize, SendTasksDone, SpoiltCrash, SendTasksRow, Tasks
<1>. QED
  BY <1>1, <1>3, <1>4, <1>5, <1>6 DEF Listen, Proceed

\* The map lacks a window, or has one too many, only while a message is on its
\* way, or its window was misjudged.
LEMMA TrackStep ==
    ASSUME TypeOK, QueueInv, PhaseInv, TrackInv, [Next]_vars
    PROVE  TrackInv'
<1>1. CASE HookEventProc
  BY <1>1, QueueStep, TrackOfHook
<1>2. CASE RefreshClear \/ Listen
  BY <1>2, TrackOfListing
<1>. SUFFICES ASSUME ~interfered', NEW w \in Windows,
                     ~(HookEventProc \/ RefreshClear \/ Listen)
              PROVE  Tracked(w)'
  BY <1>1, <1>2 DEF TrackInv
<1>3. CASE Desktop
  <2>1. PICK v \in Windows, e \in {"SHOW", "HIDE", "NAMECHANGE"} : DesktopMoves(v, e)
    BY <1>3, DesktopMoving
  <2>. DEFINE x == [event |-> e, hwnd |-> v]
  <2>2. x \in Event /\ winEvents' = Append(winEvents, x) /\ winEvents \in Seq(Event)
    BY <2>1 DEF Event, DesktopMoves, TypeOK
  <2>3. \A kinds : x \in Events(kinds, w) <=> e \in kinds /\ v = w
    BY Kinds
  <2>. HIDE DEF x
  <2>4. \A N : Lacks(winEvents', N) <=> Lacks(winEvents, N) /\ x \notin N
    BY <2>2, Queued
  <2>5. /\ UNCHANGED <<msgQueue, active, ui, rx, requests, misjudged>> /\ Tracked(w)
        /\ BecomesTask(w)' <=> BecomesTask(w)
    BY <2>1 DEF DesktopMoves, TrackInv, BecomesTask, Creates, Tasks
  <2>6. CASE v = w
    BY <2>1, <2>3, <2>4, <2>5, <2>6 DEF DesktopMoves, Tracked, HideComes, Unannounced
  <2>7. CASE v # w
    BY <2>1, <2>3, <2>4, <2>5, <2>7 DEF DesktopMoves, Tracked, HideComes, Unannounced
  <2>. QED
    BY <2>6, <2>7
<1>4. CASE DropMessage
  <2>1. /\ netState # "CONNECTED" /\ requests = 0 /\ UiBetween /\ Tasks = {}
        /\ msgQueue \in Seq(HookMessage) /\ msgQueue # <<>> /\ msgQueue' = Tail(msgQueue)
        /\ UNCHANGED <<shown, winEvents, active, ui, rx, requests, misjudged>>
    <3>1. netState # "CONNECTED" /\ ~(requests > 0) /\ UiBetween
      BY <1>4 DEF DropMessage, Interferes
    <3>2. requests = 0
      BY <3>1, TaskServerAssumption DEF TypeOK
    <3>3. Tasks = {}
      BY <3>1, <3>2 DEF PhaseInv
    <3>. QED
      BY <1>4, <3>1, <3>2, <3>3 DEF DropMessage, Interferes, TypeOK
  <2>2. BecomesTask(w)' => BecomesTask(w)
    <3>1. Creates(w)' => Creates(w)
      BY <2>1, Dequeued DEF Creates
    <3>. QED
      BY <2>1, <3>1 DEF BecomesTask, Tasks, UiBetween
  <2>3. Tracked(w)
    BY <1>4 DEF DropMessage, Interferes, TrackInv
  <2>. QED
    BY <2>1, <2>2, <2>3 DEF Tracked, HideComes
<1>5. CASE AddWindowTask \/ RemoveWindowTask \/ UpdateWindowTaskTitle \/ Handler
  <2>1. /\ UNCHANGED <<shown, winEvents, requests, misjudged>>
        /\ ~interfered /\ ~Listing
    BY <1>5 DEF Handler, AddInsert, AddLookup, AddSendIcon, AddCache, AddSend, RemoveErase,
       RemoveStale, Erase, RemoveSend, UpdateSend, UiStep, Interferes, AddWindowTask,
       RemoveWindowTask, UpdateWindowTaskTitle, TakeMessage
  <2>2. BecomesTask(w)' <=> BecomesTask(w)
    BY <1>5, <2>1, HandlingKept DEF PhaseInv, RemoveStale
  <2>3. Tracked(w) /\ rx.pc # "enumWindows"
    BY <2>1 DEF TrackInv, Listing
  <2>. QED
    BY <2>1, <2>2, <2>3, TrackKept
<1>6. CASE ServerConnected \/ AboutBox \/ UNCHANGED vars
  <2>1. UNCHANGED <<shown, winEvents, msgQueue, active, rx, requests, interfered, misjudged>>
    BY <1>6 DEF ServerConnected, AboutBox, vars
  <2>2. ui.pc \in {"addInsert", "removeErase"} \/ ui'.pc \in {"addInsert", "removeErase"} => ui' = ui
    BY <1>6 DEF ServerConnected, AboutBox, UiBetween, UiAt, vars
  <2>3. BecomesTask(w)' <=> BecomesTask(w)
    BY <2>1, <2>2 DEF BecomesTask, Creates, Tasks
  <2>. QED
    BY <2>1, <2>3, TrackKept DEF TrackInv
<1>. QED
  BY <1>3, <1>4, <1>5, <1>6 DEF Next, UI, Pump, Handler

-----------------------------------------------------------------------------
(* The cache of pictures.                                                  *)

\* A picture sent is one sent before, or the last frame.
LEMMA SendAdds ==
    ASSUME wire \in Seq(Frame), NEW f \in Frame, Send(f)
    PROVE  \A h : IconSent(h)' <=> IconSent(h) \/ f = SendIcon(h)
<1>1. /\ Len(wire) \in Nat /\ Len(wire') = Len(wire) + 1
      /\ wire'[Len(wire) + 1] = f
      /\ \A i \in 1 .. Len(wire) : wire'[i] = wire[i]
  BY DEF Send
<1>2. 1 .. Len(wire') = 1 .. Len(wire) \cup {Len(wire) + 1}
  BY <1>1
<1>. QED
  BY <1>1, <1>2 DEF IconSent

\* Only pictures count.
LEMMA SendAddsNone ==
    ASSUME wire \in Seq(Frame), NEW f \in Frame, Send(f), f.type # "SEND_ICON"
    PROVE  \A h : IconSent(h)' <=> IconSent(h)
<1>1. \A h : f # SendIcon(h)
  BY DEF SendIcon
<1>. QED
  BY <1>1, SendAdds

\* Only a step that sends or remembers a picture changes the pictures sent or
\* the cache.
LEMMA CacheKept ==
    ASSUME [Next]_vars, TypeOK
    PROVE  \/ AddSendIcon \/ AddCache \/ RefreshSendIcon \/ RefreshCacheIcon
           \/ cached' = cached /\ \A h : IconSent(h)' <=> IconSent(h)
<1>1. CASE wire' = wire /\ cached' = cached
  BY <1>1 DEF IconSent
<1>2. CASE Desktop
  BY <1>1, <1>2, DesktopMoving DEF DesktopMoves
<1>3. CASE UNCHANGED vars
  BY <1>1, <1>3 DEF vars
<1>4. CASE \/ ServerConnected \/ AboutBox \/ HookEventProc \/ DropMessage \/ AddWindowTask
           \/ RemoveWindowTask \/ UpdateWindowTaskTitle \/ AddInsert \/ AddLookup
           \/ RemoveErase \/ RemoveStale
  BY <1>1, <1>4 DEF ServerConnected, AboutBox, HookEventProc, DropMessage, AddWindowTask,
     RemoveWindowTask, UpdateWindowTaskTitle, AddInsert, AddLookup, RemoveErase, RemoveStale
<1>5. CASE \/ RefreshClear \/ EnumWindowsDone \/ RefreshDone \/ SendTasksSize \/ SpoiltCrash
           \/ \E w \in Windows : EnumWindowsProc(w) \/ RefreshNext(w) \/ SendTasksRow(w)
           \/ RefreshGotIcon \/ RefreshLookup
  BY <1>1, <1>5 DEF RefreshClear, EnumWindowsDone, RefreshDone, SendTasksSize, SpoiltCrash,
     EnumWindowsProc, RefreshNext, RefreshGotIcon, RefreshLookup, SendTasksRow
<1>6. CASE AddSend
  <2>. DEFINE f == AddTask(ui.hwnd, ui.hicon, title[ui.hwnd])
  <2>1. f \in Frame /\ f.type # "SEND_ICON"
    BY <1>6, FrameTyped DEF AddSend, UiStep, UiBetween, TypeOK, AddTask
  <2>. HIDE DEF f
  <2>. QED
    BY <1>6, <2>1, SendAddsNone DEF AddSend, TypeOK, f
<1>7. CASE RemoveSend
  <2>1. RemoveTask(ui.hwnd) \in Frame /\ RemoveTask(ui.hwnd).type # "SEND_ICON"
    BY <1>7, FrameTyped DEF RemoveSend, UiStep, UiBetween, TypeOK, RemoveTask
  <2>. QED
    BY <1>7, <2>1, SendAddsNone DEF RemoveSend, TypeOK
<1>8. CASE UpdateSend
  <2>. DEFINE f == UpdateTask(ui.hwnd, title[ui.hwnd])
  <2>1. f \in Frame /\ f.type # "SEND_ICON"
    BY <1>8, FrameTyped DEF UpdateSend, UiStep, UiBetween, TypeOK, UpdateTask
  <2>. HIDE DEF f
  <2>. QED
    BY <1>8, <2>1, SendAddsNone DEF UpdateSend, TypeOK, f
<1>9. CASE SendTasksDone
  <2>. DEFINE f == TaskList(rx.numTasks, rx.rows)
  <2>1. f \in Frame /\ f.type # "SEND_ICON"
    BY <1>9, FrameTyped DEF SendTasksDone, TypeOK, TaskList
  <2>. HIDE DEF f
  <2>. QED
    BY <1>9, <2>1, SendAddsNone DEF SendTasksDone, RxQuiet, TypeOK, f
<1>. QED
  BY <1>2, <1>3, <1>4, <1>5, <1>6, <1>7, <1>8, <1>9 DEF Next, UI, Pump, Handler, Listen,
     Proceed

\* The threads' next places: how each gets to where it sends or remembers.
LEMMA UiPlaces ==
    ASSUME [Next]_vars, TypeOK
    PROVE  \/ AddSendIcon \/ AddCache
           \/ /\ ui'.pc = "addCache" \/ ui.pc = "addCache" => ui' = ui
              /\ ui'.pc = "addSendIcon" => \/ ui' = ui
                                           \/ ui'.hicon \notin cached /\ cached' = cached
<1>1. CASE UNCHANGED ui
  BY <1>1
<1>2. CASE Desktop \/ Listen \/ ServerConnected \/ HookEventProc \/ DropMessage
           \/ UNCHANGED vars
  <2>1. UNCHANGED ui
    BY <1>2, DesktopMoving DEF DesktopMoves, ServerConnected, HookEventProc, DropMessage,
       RefreshClear, Listen, Proceed, EnumWindowsProc, RefreshNext, RefreshGotIcon,
       RefreshLookup, SendTasksRow, EnumWindowsDone, RefreshSendIcon, RefreshCacheIcon,
       RefreshDone, SendTasksSize, SendTasksDone, SpoiltCrash, RxStep, vars
  <2>. QED
    BY <2>1
<1>3. CASE \/ AboutBox \/ AddWindowTask \/ RemoveWindowTask \/ UpdateWindowTaskTitle
  BY <1>3 DEF AboutBox, AddWindowTask, RemoveWindowTask, UpdateWindowTaskTitle, TakeMessage,
     UiAt, UiBetween
<1>4. CASE \/ AddInsert \/ AddLookup \/ AddSend \/ RemoveErase \/ RemoveStale \/ RemoveSend
           \/ UpdateSend
  BY <1>4 DEF AddInsert, AddLookup, AddSend, RemoveErase, RemoveStale, RemoveSend,
     UpdateSend, UiStep, UiAt, UiIdle, NeedsPicture
<1>5. CASE RefreshClear
  BY <1>5 DEF RefreshClear, TypeOK
<1>. QED
  BY <1>2, <1>3, <1>4, <1>5 DEF Next, UI, Pump

\* How the receive thread comes to send and to cache an icon.
LEMMA RxPlaces ==
    ASSUME [Next]_vars, TypeOK
    PROVE  \/ RefreshSendIcon \/ RefreshCacheIcon
           \/ /\ rx'.pc = "cacheIcon" \/ rx.pc = "cacheIcon" =>
                    rx'.pc = rx.pc /\ rx'.hicon = rx.hicon
              /\ rx'.pc = "sendIcon" =>
                    \/ rx'.pc = rx.pc /\ rx'.hicon = rx.hicon
                    \/ rx'.hicon \notin cached /\ cached' = cached
<1>0. rx \in Locals
  BY DEF TypeOK, Locals
<1>1. CASE UNCHANGED rx
  BY <1>1
<1>2. CASE UI
  BY <1>0, <1>2, UiLeavesRx
<1>3. CASE \/ Desktop \/ ServerConnected \/ AboutBox \/ UNCHANGED vars
  BY <1>1, <1>3, DesktopMoving DEF DesktopMoves, ServerConnected, AboutBox, vars
<1>4. CASE RefreshClear \/ Listen
  BY <1>0, <1>1, <1>4 DEF RefreshClear, Listen, Proceed, EnumWindowsProc, RefreshNext,
     RefreshGotIcon, RefreshLookup, SendTasksRow, EnumWindowsDone, RefreshDone,
     SendTasksSize, SendTasksDone, SpoiltCrash, RxStep, Locals, NeedsPicture
<1>. QED
  BY <1>2, <1>3, <1>4 DEF Next

\* Only the next listing makes up for an interference.
LEMMA Repairs ==
    ASSUME [Next]_vars
    PROVE  RefreshClear \/ (interfered => interfered')
<1>1. CASE Desktop \/ ServerConnected \/ AboutBox \/ UNCHANGED vars
  BY <1>1 DEF Desktop, WindowShown, WindowRenamed, WindowGone, SubObjectChanged, Raise,
     ServerConnected, AboutBox, vars
<1>2. CASE UI
  BY <1>2 DEF UI, Pump, HookEventProc, DropMessage, AddWindowTask, RemoveWindowTask,
     UpdateWindowTaskTitle, TakeMessage, Handler, AddInsert, AddLookup, AddSendIcon,
     AddCache, AddSend, RemoveErase, RemoveStale, Erase, RemoveSend, UpdateSend, UiStep,
     Interferes
<1>3. CASE Listen
  BY <1>3 DEF Listen, Proceed, EnumWindowsProc, RefreshNext, RefreshGotIcon, RefreshLookup,
     SendTasksRow, EnumWindowsDone, RefreshSendIcon, RefreshCacheIcon, RefreshDone,
     SendTasksSize, SendTasksDone, SpoiltCrash, RxQuiet
<1>. QED
  BY <1>1, <1>2, <1>3 DEF Next

\* An icon that was sent is in the cache, or the thread that sent it is about to
\* put it there; one about to be sent is not.
LEMMA CacheStep ==
    ASSUME TypeOK, PhaseInv, PhaseInv', CacheInv, [Next]_vars
    PROVE  CacheInv'
<1>0. rx \in Locals /\ wire \in Seq(Frame)
  BY DEF TypeOK, Locals
<1>1. CASE AddSendIcon
  <2>1. SendIcon(ui.hicon) \in Frame /\ Send(SendIcon(ui.hicon))
    BY <1>1, FrameTyped DEF AddSendIcon, UiStep, TypeOK
  <2>2. \A h : IconSent(h)' <=> IconSent(h) \/ h = ui.hicon
    BY <1>0, <2>1, SendAdds DEF SendIcon
  <2>3. /\ ui.pc = "addSendIcon" /\ ui'.pc = "addCache" /\ ui'.hicon = ui.hicon
        /\ UNCHANGED <<cached, rx>> /\ (interfered => interfered')
    BY <1>1 DEF AddSendIcon, UiStep, UiAt, Interferes
  <2>. QED
    BY <2>2, <2>3 DEF CacheInv
<1>2. CASE AddCache
  <2>1. /\ ui.pc = "addCache" /\ ui'.pc = "addSend"
        /\ cached' = cached \cup {ui.hicon} /\ UNCHANGED <<rx, wire>>
        /\ ~interfered' => ~Listing
    BY <1>2 DEF AddCache, UiStep, UiAt, Interferes, Remember
  <2>. QED
    BY <2>1 DEF CacheInv, Listing, IconSent
<1>3. CASE RefreshSendIcon
  <2>1. SendIcon(rx.hicon) \in Frame /\ Send(SendIcon(rx.hicon))
    BY <1>3, FrameTyped DEF RefreshSendIcon, RxStep, TypeOK
  <2>2. \A h : IconSent(h)' <=> IconSent(h) \/ h = rx.hicon
    BY <1>0, <2>1, SendAdds DEF SendIcon
  <2>3. /\ rx.pc = "sendIcon" /\ rx'.pc = "cacheIcon" /\ rx'.hicon = rx.hicon
        /\ UNCHANGED <<cached, ui, interfered>>
    BY <1>0, <1>3 DEF RefreshSendIcon, RxStep, RxQuiet, Locals
  <2>. QED
    BY <2>2, <2>3 DEF CacheInv
<1>4. CASE RefreshCacheIcon
  <2>1. /\ rx.pc = "cacheIcon" /\ rx'.pc = "iconLoop"
        /\ cached' = cached \cup {rx.hicon} /\ UNCHANGED <<ui, wire, interfered>>
    BY <1>0, <1>4 DEF RefreshCacheIcon, RxStep, RxQuiet, Remember, Locals
  <2>2. ~interfered => ui.pc # "addSendIcon"
    BY <2>1 DEF PhaseInv, Listing, UiBetween
  <2>. QED
    BY <2>1, <2>2 DEF CacheInv, IconSent
<1>5. CASE ~(AddSendIcon \/ AddCache \/ RefreshSendIcon \/ RefreshCacheIcon)
  <2>1. cached' = cached /\ \A h : IconSent(h)' <=> IconSent(h)
    BY <1>5, CacheKept
  <2>2. ASSUME NEW h \in Icons, IconSent(h)'
        PROVE  \/ h \in cached'
               \/ ui'.pc = "addCache" /\ ui'.hicon = h
               \/ rx'.pc = "cacheIcon" /\ rx'.hicon = h
    BY <1>5, <2>1, <2>2, UiPlaces, RxPlaces DEF CacheInv
  <2>3. ASSUME ~interfered', ui'.pc = "addSendIcon" PROVE ui'.hicon \notin cached'
    <3>1. CASE RefreshClear
      BY <2>3, <3>1 DEF RefreshClear, UiBetween
    <3>2. CASE interfered => interfered'
      BY <1>5, <2>1, <2>3, <3>2, UiPlaces DEF CacheInv
    <3>. QED
      BY <3>1, <3>2, Repairs
  <2>4. ASSUME ~interfered', rx'.pc = "sendIcon" PROVE rx'.hicon \notin cached'
    <3>1. CASE RefreshClear
      BY <1>0, <2>4, <3>1 DEF RefreshClear, Locals
    <3>2. CASE interfered => interfered'
      BY <1>5, <2>1, <2>4, <3>2, RxPlaces DEF CacheInv
    <3>. QED
      BY <3>1, <3>2, Repairs
  <2>. QED
    BY <2>2, <2>3, <2>4 DEF CacheInv
<1>. QED
  BY <1>1, <1>2, <1>3, <1>4, <1>5

-----------------------------------------------------------------------------
(* Titles.                                                                 *)

\* The window of a task the client has been told of and not told to remove.
ToldOf(w) == w \in Tasks \/ (ui.pc = "removeSend" /\ ui.hwnd = w)

\* A row that is current stays so, unless a message is dropped or the frame that
\* replaces it is sent.
LEMMA CurrentKept ==
    ASSUME TypeOK, TrackInv, [Next]_vars, ~interfered, ~DropMessage, ~RefreshClear,
           NEW t \in Row, Current(t), ToldOf(t.hwnd),
           ~((RemoveSend \/ UpdateSend) /\ ui.hwnd = t.hwnd)
    PROVE  Current(t)'
<1>. DEFINE w == t.hwnd
            N == Events({"NAMECHANGE", "HIDE"}, w)
            M == Messages({"RENAME", "DESTROY"}, w)
            InHand == ui.pc \in {"updateSend", "removeErase", "removeSend"} /\ ui.hwnd = w
<1>0. /\ winEvents \in Seq(Event) /\ msgQueue \in Seq(HookMessage)
      /\ TitleComes(w) <=> ~Lacks(winEvents, N) \/ ~Lacks(msgQueue, M) \/ InHand
      /\ TitleComes(w)' <=> ~Lacks(winEvents', N) \/ ~Lacks(msgQueue', M) \/ InHand'
      /\ Current(t) <=> t.title = title[w] \/ title[w] = NoTitle \/ TitleComes(w)
      /\ Current(t)' <=> t.title = title'[w] \/ title'[w] = NoTitle \/ TitleComes(w)'
      /\ w \in Windows
  BY DEF TypeOK, TitleComes, Current, Row
<1>. HIDE DEF w, N, M
<1>1. ASSUME UNCHANGED <<title, winEvents, msgQueue>>, InHand => InHand'
      PROVE  Current(t)'
  BY <1>0, <1>1
<1>2. CASE Desktop
  <2>1. PICK v \in Windows, e \in {"SHOW", "HIDE", "NAMECHANGE"} : DesktopMoves(v, e)
    BY <1>2, DesktopMoving
  <2>. DEFINE x == [event |-> e, hwnd |-> v]
  <2>2. x \in Event /\ winEvents' = Append(winEvents, x) /\ UNCHANGED <<msgQueue, ui>>
    BY <2>1 DEF Event, DesktopMoves
  <2>3. x \in N <=> e \in {"NAMECHANGE", "HIDE"} /\ v = w
    BY Kinds DEF N
  <2>. HIDE DEF x
  <2>4. Lacks(winEvents', N) <=> Lacks(winEvents, N) /\ x \notin N
    BY <1>0, <2>2, Queued
  <2>5. CASE v = w /\ e = "SHOW" /\ w \notin shown
    <3>1. CASE Lacks(msgQueue, Messages({"DESTROY"}, w)) /\ w \in Tasks /\ ~InHand
      <4>1. HideComes(w)
        BY <1>0, <3>1, <2>5 DEF TrackInv, Tracked, BecomesTask
      <4>2. ~Lacks(winEvents, N)
        BY <4>1 DEF HideComes, Lacks, Events, N
      <4>. QED
        BY <1>0, <2>4, <4>2
    <3>2. CASE ~Lacks(msgQueue, Messages({"DESTROY"}, w))
      <4>1. ~Lacks(msgQueue, M)
        BY <3>2 DEF Lacks, Messages, M
      <4>. QED
        BY <1>0, <2>2, <4>1
    <3>3. CASE InHand
      BY <1>0, <2>2, <3>3
    <3>. QED
      BY <3>1, <3>2, <3>3 DEF ToldOf, w
  <2>6. CASE v = w /\ ~(e = "SHOW" /\ w \notin shown)
    BY <1>0, <2>1, <2>2, <2>3, <2>4, <2>6 DEF DesktopMoves
  <2>7. CASE v # w
    BY <1>0, <2>1, <2>2, <2>3, <2>4, <2>7 DEF DesktopMoves
  <2>. QED
    BY <2>5, <2>6, <2>7
<1>3. CASE HookEventProc
  <2>. DEFINE e == Head(winEvents)
              m == [lParam |-> LParam(e.event), hwnd |-> e.hwnd]
  <2>1. HookMoves(e)
    BY <1>3, HookMoving
  <2>. HIDE DEF e
  <2>2. /\ e \in Event /\ e.event \in {"SHOW", "HIDE", "NAMECHANGE"} /\ m \in HookMessage
        /\ UNCHANGED <<title, ui>>
    BY <2>1 DEF HookMoves, Event, HookMessage, LParam
  <2>3. /\ m.lParam \in {"RENAME", "DESTROY"} <=> e.event \in {"NAMECHANGE", "HIDE"}
        /\ m.hwnd = e.hwnd
        /\ Posts(e) => msgQueue' = Append(msgQueue, m)
        /\ ~Posts(e) => msgQueue' = msgQueue
    BY <2>1, <2>2 DEF LParam, HookMoves
  <2>. HIDE DEF m
  <2>4. /\ e \in N <=> e.event \in {"NAMECHANGE", "HIDE"} /\ e.hwnd = w
        /\ m \in M <=> m.lParam \in {"RENAME", "DESTROY"} /\ m.hwnd = w
    BY <2>2, EventKinds, MessageKinds DEF N, M
  <2>5. Lacks(winEvents, N) <=> Lacks(winEvents', N) /\ e \notin N
    BY <1>0, <2>1, Dequeued DEF HookMoves
  <2>6. Posts(e) => (Lacks(msgQueue', M) <=> Lacks(msgQueue, M) /\ m \notin M)
    <3>1. ASSUME Posts(e) PROVE Lacks(msgQueue', M) <=> Lacks(msgQueue, M) /\ m \notin M
      <4>1. msgQueue' = Append(msgQueue, m)
        BY <2>3, <3>1
      <4>. QED
        BY <1>0, <2>2, <4>1, Queued
    <3>. QED
      BY <3>1
  <2>7. e \in N /\ ~Posts(e) => title[w] = NoTitle
    BY <2>2, <2>4 DEF Posts, HasTitle
  <2>. QED
    BY <1>0, <2>2, <2>3, <2>4, <2>5, <2>6, <2>7
<1>4. ASSUME NEW kind, TakeMessage(kind)
      PROVE  /\ Head(msgQueue) \in M <=> kind \in {"RENAME", "DESTROY"} /\ Head(msgQueue).hwnd = w
             /\ Lacks(msgQueue, M) <=> Lacks(msgQueue', M) /\ Head(msgQueue) \notin M
             /\ UNCHANGED <<title, winEvents>> /\ ui.pc = "GetMessage" /\ w \in Tasks
  <2>1. /\ Head(msgQueue) \in HookMessage /\ Head(msgQueue).lParam = kind
        /\ msgQueue # <<>> /\ msgQueue' = Tail(msgQueue) /\ UNCHANGED <<title, winEvents>>
        /\ ui.pc = "GetMessage"
    BY <1>0, <1>4 DEF TakeMessage
  <2>. QED
    BY <1>0, <2>1, Dequeued, MessageKinds DEF M, ToldOf, w
<1>5. CASE AddWindowTask
  <2>1. TakeMessage("CREATE")
    BY <1>5 DEF AddWindowTask
  <2>. QED
    BY <1>0, <1>4, <2>1
<1>6. CASE RemoveWindowTask
  <2>1. TakeMessage("DESTROY")
    BY <1>6 DEF RemoveWindowTask
  <2>2. Head(msgQueue).hwnd = w => ui'.pc = "removeErase" /\ ui'.hwnd = w
    BY <1>4, <1>6, <2>1 DEF RemoveWindowTask, Known, UiAt
  <2>. QED
    BY <1>0, <1>4, <2>1, <2>2
<1>7. CASE UpdateWindowTaskTitle
  <2>1. TakeMessage("RENAME")
    BY <1>7 DEF UpdateWindowTaskTitle
  <2>2. Head(msgQueue).hwnd = w => ui'.pc = "updateSend" /\ ui'.hwnd = w
    BY <1>4, <1>7, <2>1 DEF UpdateWindowTaskTitle, Known, UiAt
  <2>. QED
    BY <1>0, <1>4, <2>1, <2>2
<1>8. CASE Handler
  <2>1. UNCHANGED <<title, winEvents, msgQueue>>
    BY <1>8 DEF Handler, AddInsert, AddLookup, AddSendIcon, AddCache, AddSend, RemoveErase,
       RemoveStale, Erase, RemoveSend, UpdateSend, UiStep
  <2>2. CASE RemoveErase
    BY <1>1, <2>1, <2>2 DEF RemoveErase, UiStep, UiAt
  <2>3. CASE ~RemoveErase
    <3>1. ~InHand
      BY <1>8, <2>3 DEF Handler, AddInsert, AddLookup, AddSendIcon, AddCache, AddSend,
         RemoveStale, RemoveSend, UpdateSend, UiStep, w
    <3>. QED
      BY <1>1, <2>1, <3>1
  <2>. QED
    BY <2>2, <2>3
<1>9. CASE Listen
  <2>1. UNCHANGED <<title, winEvents, msgQueue, ui>>
    BY <1>9 DEF Listen, Proceed, EnumWindowsProc, RefreshNext, RefreshGotIcon,
       RefreshLookup, SendTasksRow, EnumWindowsDone, RefreshSendIcon, RefreshCacheIcon,
       RefreshDone, SendTasksSize, SendTasksDone, SpoiltCrash, RxStep
  <2>. QED
    BY <1>1, <2>1
<1>10. CASE ServerConnected \/ AboutBox \/ UNCHANGED vars
  <2>1. UNCHANGED <<title, winEvents, msgQueue>> /\ (ui' = ui \/ UiBetween)
    BY <1>10 DEF ServerConnected, AboutBox, vars
  <2>. QED
    BY <1>1, <2>1 DEF UiBetween
<1>. QED
  BY <1>2, <1>3, <1>5, <1>6, <1>7, <1>8, <1>9, <1>10 DEF Next, UI, Pump, Handler

-----------------------------------------------------------------------------
(* A listing under way.                                                    *)

\* What was sent stays sent.
LEMMA SentStays ==
    ASSUME TypeOK, [Next]_vars
    PROVE  \A h : IconSent(h) => IconSent(h)'
<1>1. CASE AddCache \/ RefreshCacheIcon
  BY <1>1 DEF AddCache, RefreshCacheIcon, IconSent
<1>2. CASE AddSendIcon
  BY <1>2, FrameTyped, SendAdds DEF AddSendIcon, UiStep, TypeOK
<1>3. CASE RefreshSendIcon
  BY <1>3, FrameTyped, SendAdds DEF RefreshSendIcon, RxStep, TypeOK
<1>. QED
  BY <1>1, <1>2, <1>3, CacheKept

\* While a listing is not disturbed, the UI thread handles no message.
LEMMA UndisturbedListing ==
    ASSUME TypeOK, PhaseInv, [Next]_vars, Listing, ~interfered'
    PROVE  \/ Listen
           \/ UNCHANGED <<wire, active, cached, rx>> /\ ~DropMessage /\ ~RemoveSend /\ ~UpdateSend
<1>1. CASE DropMessage \/ RefreshClear
  BY <1>1, TaskServerAssumption DEF DropMessage, Interferes, RefreshClear, RxStep, Listing,
     PhaseInv, TypeOK
<1>2. CASE AddWindowTask \/ RemoveWindowTask \/ UpdateWindowTaskTitle \/ Handler
  BY <1>2 DEF AddWindowTask, RemoveWindowTask, UpdateWindowTaskTitle, TakeMessage,
     Interferes, Handler, AddInsert, AddLookup, AddSendIcon, AddCache, AddSend, RemoveErase,
     RemoveStale, Erase, RemoveSend, UpdateSend, UiStep
<1>3. CASE \/ Desktop \/ ServerConnected \/ AboutBox \/ HookEventProc \/ UNCHANGED vars
  <2>1. UNCHANGED <<wire, active, cached, rx>>
    BY <1>3, DesktopMoving DEF DesktopMoves, ServerConnected, AboutBox, HookEventProc, vars
  <2>2. UiBetween
    BY <1>3, Repairs DEF PhaseInv, RefreshClear, RxStep, Listing
  <2>3. CASE DropMessage
    BY <1>1, <2>3
  <2>. QED
    BY <2>1, <2>2, <2>3 DEF RemoveSend, UpdateSend, UiStep, UiBetween
<1>. QED
  BY <1>1, <1>2, <1>3 DEF Next, UI, Pump, Handler

\* Only a request starts a listing.
LEMMA RxStarts ==
    ASSUME TypeOK, [Next]_vars, rx.pc = "recv", ~RefreshClear
    PROVE  rx'.pc = "recv"
<1>1. CASE UNCHANGED rx
  BY <1>1
<1>2. CASE UI
  BY <1>2, UiLeavesRx
<1>3. CASE \/ Desktop \/ ServerConnected \/ AboutBox \/ UNCHANGED vars
  BY <1>1, <1>3, DesktopMoving DEF DesktopMoves, ServerConnected, AboutBox, vars
<1>4. CASE Listen
  BY <1>4 DEF Listen, Proceed, EnumWindowsProc, RefreshNext, RefreshGotIcon, RefreshLookup,
     SendTasksRow, EnumWindowsDone, RefreshSendIcon, RefreshCacheIcon, RefreshDone,
     SendTasksSize, SendTasksDone, SpoiltCrash, RxStep
<1>. QED
  BY <1>2, <1>3, <1>4 DEF Next

\* An undisturbed listing has sent the pictures of the tasks that it visited, and
\* has a row of each.
LEMMA ListingStep ==
    ASSUME TypeOK, IconInv, PhaseInv, TrackInv, ListingInv, [Next]_vars
    PROVE  ListingInv'
<1>. SUFFICES ASSUME Listing', ~interfered', ~RefreshClear PROVE ListingInv'
  <2>1. CASE RefreshClear
    <3>1. rx'.pc = "enumWindows"
      BY <2>1 DEF RefreshClear, TypeOK
    <3>. QED
      BY <3>1 DEF ListingInv, Iterating
  <2>. QED
    BY <2>1 DEF ListingInv
<1>0. /\ rx \in Locals /\ active \in [Windows -> Icons \cup {NoIcon, Absent}]
      /\ Absent \notin Icons \cup {NoIcon}
  BY TaskServerAssumption DEF TypeOK, Locals
<1>1. /\ Listing /\ ~interfered
      /\ \A h : IconSent(h) => IconSent(h)'
  <2>1. rx.pc # "recv"
    BY RxStarts DEF Listing
  <2>. QED
    BY <2>1, Repairs, SentStays DEF Listing
<1>2. /\ Iterating \/ rx.pc = "size" => ~rx.spoilt
      /\ rx.pc = "getIcon" => rx.task \in Tasks
      /\ Iterating /\ rx.pc # "rowLoop" =>
            \A w \in rx.seen \cap Tasks :
                \/ IconSent(active[w])
                \/ rx.pc = "getIcon" /\ w = rx.task
                \/ rx.pc \in {"lookup", "sendIcon"} /\ active[w] = rx.hicon
      /\ rx.pc \in {"size", "rowLoop"} => \A w \in Tasks : IconSent(active[w])
      /\ rx.pc = "rowLoop" =>
            /\ rx.seen \subseteq Tasks /\ rx.numTasks = Cardinality(Tasks)
            /\ \A w \in rx.seen : \E r \in rx.rows : r.hwnd = w
            /\ \A r \in rx.rows : r.hwnd \in rx.seen /\ IconSent(r.hicon) /\ Current(r)
            /\ \A r, q \in rx.rows : r.hwnd = q.hwnd => r = q
  BY <1>1 DEF ListingInv
<1>3. ASSUME rx.pc = "rowLoop", ~DropMessage, ~RemoveSend, ~UpdateSend, NEW r \in rx.rows
      PROVE  Current(r)'
  <2>1. r \in Row /\ Current(r) /\ r.hwnd \in Tasks
    BY <1>0, <1>2, <1>3 DEF Locals
  <2>. QED
    BY <1>1, <1>3, <2>1, CurrentKept DEF ToldOf
<1>. USE DEF Iterating
<1>4. CASE UNCHANGED <<wire, active, cached, rx>> /\ ~DropMessage /\ ~RemoveSend /\ ~UpdateSend
  <2>1. Tasks' = Tasks /\ UNCHANGED <<rx, active>>
    BY <1>4 DEF Tasks
  <2>2. rx.pc = "rowLoop" => \A r \in rx.rows : Current(r)'
    BY <1>3, <1>4
  <2>. QED
    BY <1>1, <1>2, <2>1, <2>2 DEF ListingInv
<1>5. ASSUME Listen PROVE ~DropMessage /\ ~RemoveSend /\ ~UpdateSend
  <2>1. UNCHANGED <<msgQueue, ui>>
    BY <1>5 DEF Listen, Proceed, EnumWindowsProc, RefreshNext, RefreshGotIcon,
       RefreshLookup, SendTasksRow, EnumWindowsDone, RefreshSendIcon, RefreshCacheIcon,
       RefreshDone, SendTasksSize, SendTasksDone, SpoiltCrash, RxStep
  <2>2. ~RemoveSend /\ ~UpdateSend
    BY <1>1, <2>1 DEF RemoveSend, UpdateSend, UiStep, UiIdle, PhaseInv, UiBetween
  <2>3. DropMessage => msgQueue # <<>> /\ msgQueue' = Tail(msgQueue)
    BY DEF DropMessage
  <2>4. msgQueue # <<>> => Len(Tail(msgQueue)) # Len(msgQueue)
    BY DEF TypeOK
  <2>. QED
    BY <2>1, <2>2, <2>3, <2>4
<1>. USE DEF RxStep
<1>6. ASSUME NEW v \in Windows, EnumWindowsProc(v) PROVE ListingInv'
  <2>1. rx'.pc = "enumWindows"
    BY <1>0, <1>6 DEF EnumWindowsProc, Locals
  <2>. QED
    BY <2>1 DEF ListingInv
<1>7. CASE EnumWindowsDone
  <2>1. rx'.pc = "iconLoop" /\ rx'.seen = {} /\ rx'.spoilt = FALSE
    BY <1>0, <1>7 DEF EnumWindowsDone, Locals
  <2>. QED
    BY <2>1 DEF ListingInv
<1>8. ASSUME NEW v \in Windows, RefreshNext(v) PROVE ListingInv'
  <2>1. /\ rx.pc = "iconLoop" /\ rx'.pc = "getIcon" /\ v \in Tasks
        /\ rx'.seen = rx.seen \cup {v} /\ rx'.task = v /\ rx'.spoilt = rx.spoilt
        /\ active' = active /\ Tasks' = Tasks
    BY <1>0, <1>8 DEF RefreshNext, Reachable, Unvisited, Locals, Tasks
  <2>2. ASSUME NEW w \in rx'.seen \cap Tasks' PROVE IconSent(active[w])' \/ w = rx'.task
    BY <1>1, <1>2, <2>1, <2>2
  <2>. QED
    BY <1>2, <2>1, <2>2 DEF ListingInv
<1>8a. CASE RefreshGotIcon
  <2>1. rx.pc = "getIcon" /\ rx.task \in Tasks
    BY <1>2, <1>8a DEF RefreshGotIcon
  <2>2. PICK h \in Icons :
          /\ active' = [active EXCEPT ![rx.task] = h]
          /\ rx' = [rx EXCEPT !.pc = "lookup", !.hicon = h, !.task = NoWindow]
    BY <1>8a, <2>1, NullAssumption DEF RefreshGotIcon, GetHICON, Tasks
  <2>3. /\ rx'.seen = rx.seen /\ rx'.hicon = h /\ rx'.spoilt = rx.spoilt /\ rx'.pc = "lookup"
        /\ Tasks' = Tasks
    BY <1>0, <2>1, <2>2 DEF Locals, Tasks
  <2>4. ASSUME NEW w \in rx'.seen \cap Tasks'
        PROVE  IconSent(active[w])' \/ active'[w] = rx'.hicon
    <3>1. CASE w = rx.task
      BY <1>0, <2>2, <2>3, <3>1 DEF Tasks
    <3>2. CASE w # rx.task
      <4>1. IconSent(active[w]) /\ active'[w] = active[w]
        BY <1>0, <1>2, <2>1, <2>2, <2>3, <2>4, <3>2 DEF Tasks
      <4>. QED
        BY <1>1, <4>1
    <3>. QED
      BY <3>1, <3>2
  <2>. QED
    BY <1>2, <2>1, <2>3, <2>4 DEF ListingInv
<1>8b. CASE RefreshLookup
  <2>1. /\ rx.pc = "lookup" /\ rx'.pc = (IF NeedsPicture(rx.hicon) THEN "sendIcon" ELSE "iconLoop")
        /\ rx'.seen = rx.seen /\ rx'.hicon = rx.hicon /\ rx'.spoilt = rx.spoilt
        /\ active' = active /\ Tasks' = Tasks
    BY <1>0, <1>8b DEF RefreshLookup, Locals, Tasks
  <2>2. rx.hicon \in cached => IconSent(rx.hicon)
    BY DEF IconInv
  <2>. QED
    BY <1>1, <1>2, <2>1, <2>2 DEF ListingInv, NeedsPicture
<1>9. CASE RefreshSendIcon
  <2>1. /\ rx.pc = "sendIcon" /\ rx'.pc = "cacheIcon" /\ rx'.hicon = rx.hicon
        /\ rx'.seen = rx.seen /\ rx'.spoilt = rx.spoilt
        /\ active' = active /\ Tasks' = Tasks
    BY <1>0, <1>9 DEF RefreshSendIcon, Locals, Tasks
  <2>2. IconSent(rx.hicon)'
    BY <1>9, FrameTyped, SendAdds DEF RefreshSendIcon, TypeOK
  <2>. QED
    BY <1>1, <1>2, <2>1, <2>2 DEF ListingInv
<1>10. CASE RefreshCacheIcon
  <2>1. /\ rx.pc = "cacheIcon" /\ rx'.pc = "iconLoop"
        /\ rx'.seen = rx.seen /\ rx'.spoilt = rx.spoilt
        /\ active' = active /\ Tasks' = Tasks
    BY <1>0, <1>10 DEF RefreshCacheIcon, Locals, Tasks
  <2>. QED
    BY <1>1, <1>2, <2>1 DEF ListingInv
<1>11. CASE RefreshDone
  <2>1. /\ rx.pc = "iconLoop" /\ rx'.pc = "size" /\ rx'.spoilt = rx.spoilt
        /\ active' = active /\ Tasks' = Tasks
        /\ Tasks \subseteq rx.seen \/ rx.spoilt
    BY <1>0, <1>11 DEF RefreshDone, Locals, Tasks, LoopEnds, Unvisited
  <2>. QED
    BY <1>1, <1>2, <2>1 DEF ListingInv
<1>12. CASE SendTasksSize
  <2>1. /\ rx.pc = "size" /\ rx'.pc = "rowLoop" /\ rx'.spoilt = FALSE
        /\ rx'.seen = {} /\ rx'.rows = {} /\ rx'.numTasks = Cardinality(Tasks)
        /\ active' = active /\ Tasks' = Tasks
    BY <1>0, <1>12 DEF SendTasksSize, Locals, Tasks, Size
  <2>. QED
    BY <1>1, <1>2, <2>1 DEF ListingInv
<1>13. ASSUME NEW v \in Windows, SendTasksRow(v) PROVE ListingInv'
  <2>. DEFINE new == [hwnd |-> v, hicon |-> active[v], title |-> title[v]]
  <2>1. /\ rx.pc = "rowLoop" /\ rx'.pc = "rowLoop" /\ rx'.spoilt = rx.spoilt
        /\ rx'.seen = rx.seen \cup {v} /\ rx'.rows = rx.rows \cup {new}
        /\ rx'.numTasks = rx.numTasks /\ v \in Tasks \ rx.seen
        /\ active' = active /\ Tasks' = Tasks /\ title' = title
    BY <1>0, <1>2, <1>13 DEF SendTasksRow, Reachable, Unvisited, Locals, Tasks
  <2>2. new.hwnd = v /\ new.hicon = active[v]
    OBVIOUS
  <2>. HIDE DEF new
  <2>3. \A r \in rx.rows : Current(r)'
    BY <1>3, <1>5, <1>13, <2>1 DEF Listen, Proceed
  <2>4. \A r \in rx'.rows : r.hwnd \in rx'.seen /\ IconSent(r.hicon)' /\ Current(r)'
    <3>1. ASSUME NEW r \in rx'.rows
          PROVE  r.hwnd \in rx'.seen /\ IconSent(r.hicon)' /\ Current(r)'
      <4>1. CASE r \in rx.rows
        BY <1>1, <1>2, <2>1, <2>3, <4>1
      <4>2. CASE r = new
        <5>1. IconSent(r.hicon) /\ r.hwnd = v
          BY <1>2, <2>1, <2>2, <4>2
        <5>2. Current(r)'
          BY <2>1, <4>2 DEF Current, new
        <5>. QED
          BY <1>1, <2>1, <5>1, <5>2
      <4>. QED
        BY <2>1, <4>1, <4>2
    <3>. QED
      BY <3>1
  <2>5. \A r, q \in rx'.rows : r.hwnd = q.hwnd => r = q
    BY <1>2, <2>1, <2>2
  <2>6. \A w \in rx'.seen : \E r \in rx'.rows : r.hwnd = w
    BY <1>2, <2>1, <2>2
  <2>7. \A w \in Tasks' : IconSent(active[w])'
    BY <1>1, <1>2, <2>1
  <2>. QED
    BY <1>2, <2>1, <2>4, <2>5, <2>6, <2>7 DEF ListingInv
<1>14. CASE SendTasksDone
  BY <1>0, <1>14 DEF SendTasksDone, Locals, Listing
<1>15. CASE SpoiltCrash
  <2>1. Tasks' = Tasks /\ UNCHANGED <<rx, active>>
    BY <1>15 DEF SpoiltCrash, Tasks
  <2>2. rx.pc = "rowLoop" => \A r \in rx.rows : Current(r)'
    BY <1>3, <1>5, <1>15 DEF Listen, Proceed
  <2>. QED
    BY <1>1, <1>2, <2>1, <2>2 DEF ListingInv
<1>. QED
  BY <1>1, <1>4, <1>6, <1>7, <1>8, <1>8a, <1>8b, <1>9, <1>10, <1>11, <1>12, <1>13, <1>14,
     <1>15, UndisturbedListing DEF Listen, Proceed

-----------------------------------------------------------------------------
(* What the client shows.                                                  *)

\* Every step, by what it sends.
LEMMA WireMoves ==
    ASSUME TypeOK, [Next]_vars
    PROVE  \/ UNCHANGED wire
           \/ \E f \in Frame :
                /\ Send(f)
                /\ \/ AddSendIcon /\ f = SendIcon(ui.hicon)
                   \/ AddSend /\ f = AddTask(ui.hwnd, ui.hicon, title[ui.hwnd])
                   \/ RemoveSend /\ f = RemoveTask(ui.hwnd)
                   \/ UpdateSend /\ f = UpdateTask(ui.hwnd, title[ui.hwnd])
                   \/ RefreshSendIcon /\ f = SendIcon(rx.hicon)
                   \/ SendTasksDone /\ f = TaskList(rx.numTasks, rx.rows)
<1>1. CASE \/ Desktop \/ UNCHANGED vars \/ ServerConnected \/ AboutBox \/ HookEventProc
           \/ DropMessage \/ AddWindowTask \/ RemoveWindowTask \/ UpdateWindowTaskTitle
           \/ AddInsert \/ AddLookup \/ AddCache \/ RemoveErase \/ RemoveStale
  BY <1>1, DesktopMoving DEF DesktopMoves, vars, ServerConnected, AboutBox, HookEventProc,
     DropMessage, AddWindowTask, RemoveWindowTask, UpdateWindowTaskTitle, AddInsert,
     AddLookup, AddCache, RemoveErase, RemoveStale
<1>2. CASE \/ RefreshClear \/ EnumWindowsDone \/ RefreshCacheIcon \/ RefreshDone
           \/ SendTasksSize \/ SpoiltCrash
           \/ \E w \in Windows : EnumWindowsProc(w) \/ RefreshNext(w) \/ SendTasksRow(w)
           \/ RefreshGotIcon \/ RefreshLookup
  BY <1>2 DEF RefreshClear, EnumWindowsDone, RefreshCacheIcon, RefreshDone, SendTasksSize,
     SpoiltCrash, EnumWindowsProc, RefreshNext, RefreshGotIcon, RefreshLookup, SendTasksRow
<1>3. CASE AddSendIcon
  BY <1>3, FrameTyped DEF AddSendIcon, UiStep, TypeOK
<1>4. CASE AddSend
  BY <1>4, FrameTyped DEF AddSend, UiStep, UiBetween, TypeOK
<1>5. CASE RemoveSend
  BY <1>5, FrameTyped DEF RemoveSend, UiStep, UiBetween, TypeOK
<1>6. CASE UpdateSend
  BY <1>6, FrameTyped DEF UpdateSend, UiStep, UiBetween, TypeOK
<1>7. CASE RefreshSendIcon
  BY <1>7, FrameTyped DEF RefreshSendIcon, RxStep, TypeOK
<1>8. CASE SendTasksDone
  BY <1>8, FrameTyped DEF SendTasksDone, TypeOK
<1>. QED
  BY <1>1, <1>2, <1>3, <1>4, <1>5, <1>6, <1>7, <1>8 DEF Next, UI, Pump, Handler, Listen,
     Proceed

\* The client applies the frame sent to its list.
LEMMA ClientReads ==
    ASSUME TypeOK, NEW f \in Frame, Send(f)
    PROVE  ClientList' = Apply(ClientList, f)
BY ReplayOneMore DEF TypeOK, Send, ClientList

\* What the client has is a list of rows.
LEMMA ClientListStep ==
    ASSUME TypeOK, PhaseInv, ClientList \in Seq(Row), [Next]_vars
    PROVE  ClientList' \in Seq(Row)
<1>1. CASE UNCHANGED wire
  BY <1>1 DEF ClientList
<1>2. ASSUME NEW f \in Frame, Send(f), f.type = "ACTIVE_TASK_LIST" => f.tasks = rx.rows
      PROVE  ClientList' \in Seq(Row)
  <2>1. IsFiniteSet(rx.rows)
    BY DEF PhaseInv
  <2>. QED
    BY <1>2, <2>1, ClientReads, ApplyTyped
<1>. QED
  BY <1>1, <1>2, WireMoves DEF SendIcon, AddTask, RemoveTask, UpdateTask, TaskList

\* The end of an undisturbed listing: the client shows the tasks of the map.
LEMMA ClientOfListing ==
    ASSUME TypeOK, PhaseInv, ListingInv, [Next]_vars, SendTasksDone, ~interfered
    PROVE  ClientInv'
<1>0. rx \in Locals
  BY DEF TypeOK, Locals
<1>. DEFINE f == TaskList(rx.numTasks, rx.rows)
            list == RowsListed(ClientList, rx.rows)
<1>1. /\ rx.pc = "rowLoop" /\ Send(f) /\ (Tasks \subseteq rx.seen \/ rx.spoilt)
      /\ UNCHANGED <<title, winEvents, msgQueue, active, ui>>
  BY DEF SendTasksDone, RxStep, LoopEnds, Unvisited
<1>2. UiBetween /\ UiBetween' /\ Told' = Tasks /\ Tasks' = Tasks
  BY <1>1 DEF PhaseInv, Listing, UiBetween, Told, Tasks
<1>3. ClientList' = list
  <2>1. f \in Frame /\ f.type = "ACTIVE_TASK_LIST" /\ f.tasks = rx.rows
    BY FrameTyped DEF TypeOK, TaskList
  <2>. HIDE DEF f
  <2>2. Apply(ClientList, f) = list
    BY <2>1 DEF Apply
  <2>. QED
    BY <1>1, <2>1, <2>2, ClientReads
<1>4. /\ rx.seen = Tasks
      /\ \A w \in rx.seen : \E r \in rx.rows : r.hwnd = w
      /\ \A r \in rx.rows : r.hwnd \in rx.seen /\ Current(r)
      /\ \A r, q \in rx.rows : r.hwnd = q.hwnd => r = q
  BY <1>1 DEF ListingInv, Listing, Iterating
<1>5. ShowsOnce(list, Tasks) /\ \A i \in DOMAIN list : list[i] \in rx.rows
  <2>1. {r.hwnd : r \in rx.rows} = Tasks
    BY <1>4
  <2>2. rx.rows \in SUBSET Row /\ IsFiniteSet(rx.rows)
    BY <1>0 DEF PhaseInv, Locals
  <2>3. /\ ShowsOnce(list, {r.hwnd : r \in rx.rows})
        /\ \A i \in DOMAIN list : list[i] \in rx.rows
    BY <1>4, <2>2, ListedShows, Zenon
  <2>. QED
    BY <2>1, <2>3, Zenon
<1>6. \A r \in rx.rows : Current(r)'
  BY <1>1, <1>4 DEF Current, TitleComes
<1>7. \A i \in DOMAIN ClientList' : Current(ClientList[i])'
  <2>. HIDE DEF list
  <2>1. ASSUME NEW i \in DOMAIN ClientList' PROVE Current(ClientList[i])'
    <3>1. PICK r \in rx.rows : r = ClientList'[i]
      BY <1>3, <1>5, <2>1
    <3>2. Current(r)'
      BY <1>6
    <3>. QED
      BY <3>1, <3>2 DEF Current
  <2>. QED
    BY <2>1
<1>8. ShowsOnce(ClientList, Told)'
  BY <1>2, <1>3, <1>5 DEF ShowsOnce
<1>. QED
  BY <1>2, <1>7, <1>8 DEF ClientInv, UiBetween

\* The client has what the map has, but for what a thread is about to send.
LEMMA ClientStep ==
    ASSUME TypeOK, PhaseInv, TrackInv, ListingInv, ClientInv, ClientList \in Seq(Row),
           [Next]_vars
    PROVE  ClientInv'
<1>. SUFFICES ASSUME ~Listing', ~interfered', ~SendTasksDone PROVE ClientInv'
  <2>1. CASE SendTasksDone
    <3>1. RefreshClear => Listing'
      BY DEF RefreshClear, Listing, TypeOK
    <3>2. interfered' => ClientInv'
      BY DEF ClientInv
    <3>3. Listing' => ClientInv'
      BY DEF ClientInv
    <3>. QED
      BY <2>1, <3>1, <3>2, <3>3, Repairs, ClientOfListing
  <2>. QED
    BY <2>1 DEF ClientInv
<1>0. /\ active \in [Windows -> Icons \cup {NoIcon, Absent}] /\ Absent \notin Icons \cup {NoIcon}
      /\ ui.pc \in UiPc /\ (~UiBetween => ui.hwnd \in Windows)
      /\ title \in [Windows -> Title] /\ NoWindow \notin Windows
  BY TaskServerAssumption, NullAssumption DEF TypeOK
<1>1. ~RefreshClear
  BY DEF RefreshClear, Listing, TypeOK
<1>2. ~interfered /\ ~Listing
  <2>1. ~interfered
    BY <1>1, Repairs
  <2>2. ASSUME Listing PROVE FALSE
    <3>1. ~UNCHANGED rx
      BY <2>2 DEF Listing
    <3>2. Listen
      BY <2>2, <3>1, UndisturbedListing
    <3>. QED
      BY <3>1, <3>2 DEF Listen, Proceed, EnumWindowsProc, RefreshNext, RefreshGotIcon,
         RefreshLookup, SendTasksRow, EnumWindowsDone, RefreshSendIcon, RefreshCacheIcon,
         RefreshDone, SendTasksSize, SpoiltCrash, RxStep, Listing, TypeOK
  <2>. QED
    BY <2>1, <2>2
<1>3. /\ ui.pc \in {"addInsert", "removeSend"} => ui.hwnd \notin Tasks
      /\ ui.pc \in {"addLookup", "addSendIcon", "addCache", "addSend", "updateSend"}
            => ui.hwnd \in Tasks
      /\ ui.pc = "removeErase" => ui.hwnd \in Tasks
      /\ ShowsOnce(ClientList, Told)
      /\ \A i \in DOMAIN ClientList : Current(ClientList[i])
  BY <1>2 DEF ClientInv
<1>4. ASSUME ~DropMessage, NEW i \in DOMAIN ClientList,
             ~((RemoveSend \/ UpdateSend) /\ ui.hwnd = ClientList[i].hwnd),
             NEW t, t = ClientList[i]
      PROVE  Current(t)'
  <2>1. t \in Row /\ Current(t)
    BY <1>3, <1>4
  <2>2. t.hwnd \in Told
    BY <1>3, <1>4 DEF ShowsOnce
  <2>3. ToldOf(t.hwnd)
    BY <2>2 DEF Told, ToldOf
  <2>. QED
    BY <1>1, <1>2, <1>4, <2>1, <2>3, CurrentKept
\* Steps that send nothing the client makes anything of.
<1>5. ASSUME ClientList' = ClientList, Told' = Told, ~DropMessage, ~RemoveSend, ~UpdateSend,
             ui'.pc \in {"addInsert", "removeSend"} => ui'.hwnd \notin Tasks',
             ui'.pc \in {"addLookup", "addSendIcon", "addCache", "addSend", "updateSend"}
                => ui'.hwnd \in Tasks',
             ui'.pc = "removeErase" => ui'.hwnd \in Tasks'
      PROVE  ClientInv'
  <2>1. ASSUME NEW i \in DOMAIN ClientList' PROVE Current(ClientList[i])'
    <3>1. PICK t : t = ClientList[i]
      OBVIOUS
    <3>2. Current(t)'
      BY <1>4, <1>5, <2>1, <3>1
    <3>. QED
      BY <1>5, <3>1, <3>2 DEF Current
  <2>2. ShowsOnce(ClientList, Told)'
    BY <1>3, <1>5 DEF ShowsOnce
  <2>. QED
    BY <1>5, <2>1, <2>2 DEF ClientInv
<1>6. CASE DropMessage
  <2>1. netState # "CONNECTED" /\ ~(requests > 0) /\ UiBetween
    BY <1>6 DEF DropMessage, Interferes
  <2>2. Tasks = {}
    <3>1. requests = 0
      BY <2>1, TaskServerAssumption DEF TypeOK
    <3>. QED
      BY <2>1, <3>1 DEF PhaseInv
  <2>3. /\ Tasks' = {} /\ ClientList' = ClientList /\ ui' = ui
    BY <1>6, <2>2 DEF DropMessage, Tasks, ClientList
  <2>4. Told = {} /\ Told' = {} /\ UiBetween'
    BY <2>1, <2>2, <2>3 DEF Told, UiBetween
  <2>5. DOMAIN ClientList = {}
    BY <1>3, <2>4 DEF ShowsOnce
  <2>. QED
    BY <2>3, <2>4, <2>5 DEF ClientInv, ShowsOnce, UiBetween
<1>7. CASE Desktop \/ ServerConnected \/ HookEventProc \/ UNCHANGED vars
  <2>1. UNCHANGED <<wire, active, ui>> /\ (DropMessage => ClientInv')
    BY <1>6, <1>7, DesktopMoving DEF DesktopMoves, ServerConnected, HookEventProc, vars
  <2>2. RemoveSend \/ UpdateSend => ui' # ui
    BY DEF RemoveSend, UpdateSend, UiStep, UiIdle
  <2>. QED
    BY <1>3, <1>5, <2>1, <2>2 DEF ClientList, Told, Tasks
<1>8. CASE AboutBox
  <2>1. UNCHANGED <<wire, active>> /\ UiBetween /\ UiBetween' /\ (DropMessage => ClientInv')
    BY <1>6, <1>8 DEF AboutBox, UiAt, UiBetween
  <2>2. ~(RemoveSend \/ UpdateSend)
    BY <2>1 DEF RemoveSend, UpdateSend, UiStep, UiBetween
  <2>. QED
    BY <1>5, <2>1, <2>2 DEF ClientList, Told, Tasks, UiBetween
<1>9. ASSUME NEW kind, TakeMessage(kind), ~DropMessage, ClientList' = ClientList,
             Told' = Told,
             ui'.pc \in {"addInsert", "removeSend"} => ui'.hwnd \notin Tasks',
             ui'.pc \in {"addLookup", "addSendIcon", "addCache", "addSend", "updateSend"}
                => ui'.hwnd \in Tasks',
             ui'.pc = "removeErase" => ui'.hwnd \in Tasks'
      PROVE  ClientInv'
  <2>1. ~RemoveSend /\ ~UpdateSend
    BY <1>9 DEF TakeMessage, RemoveSend, UpdateSend, UiStep
  <2>. QED
    BY <1>5, <1>9, <2>1
<1>10. CASE AddWindowTask /\ ~DropMessage
  <2>. DEFINE w == Head(msgQueue).hwnd
  <2>1. /\ TakeMessage("CREATE") /\ UNCHANGED <<wire, active>> /\ ui.pc = "GetMessage"
        /\ IF w \in Tasks THEN ui' = ui ELSE ui'.pc = "addInsert" /\ ui'.hwnd = w
    BY <1>10 DEF AddWindowTask, TakeMessage, Known, UiAt
  <2>. HIDE DEF w
  <2>. QED
    BY <1>9, <1>10, <2>1 DEF ClientList, Told, Tasks
<1>11. CASE RemoveWindowTask /\ ~DropMessage
  <2>. DEFINE w == Head(msgQueue).hwnd
  <2>1. /\ TakeMessage("DESTROY") /\ UNCHANGED <<wire, active>> /\ ui.pc = "GetMessage"
        /\ IF w \in Tasks THEN ui'.pc = "removeErase" /\ ui'.hwnd = w ELSE ui' = ui
    BY <1>11 DEF RemoveWindowTask, TakeMessage, Known, UiAt
  <2>. HIDE DEF w
  <2>. QED
    BY <1>9, <1>11, <2>1 DEF ClientList, Told, Tasks
<1>12. CASE UpdateWindowTaskTitle /\ ~DropMessage
  <2>. DEFINE w == Head(msgQueue).hwnd
  <2>1. /\ TakeMessage("RENAME") /\ UNCHANGED <<wire, active>> /\ ui.pc = "GetMessage"
        /\ IF w \in Tasks THEN ui'.pc = "updateSend" /\ ui'.hwnd = w ELSE ui' = ui
    BY <1>12 DEF UpdateWindowTaskTitle, TakeMessage, Known, UiAt
  <2>. HIDE DEF w
  <2>. QED
    BY <1>9, <1>12, <2>1 DEF ClientList, Told, Tasks
\* The later steps of a handler.
<1>13. ASSUME NEW pc, UiStep(pc), pc \notin {"GetMessage", "modal"}
       PROVE  ~DropMessage
  BY <1>13 DEF UiStep, DropMessage, UiBetween
<1>14. ASSUME NEW pc, UiStep(pc), pc \notin {"GetMessage", "modal", "removeSend", "updateSend"}
       PROVE  ~DropMessage /\ ~RemoveSend /\ ~UpdateSend
  BY <1>14, <1>13 DEF UiStep, RemoveSend, UpdateSend
<1>15. CASE AddInsert
  <2>1. /\ UiStep("addInsert") /\ ui.pc = "addInsert" /\ ui.hwnd \in Windows
        /\ UNCHANGED wire /\ ui'.pc = "addLookup" /\ ui'.hwnd = ui.hwnd
        /\ Tasks' = Tasks \cup {ui.hwnd} /\ ui.hwnd \notin Tasks
    BY <1>0, <1>3, <1>15 DEF AddInsert, UiStep, UiAt, GetHICON, Known, Tasks, UiBetween
  <2>. QED
    BY <1>5, <1>14, <2>1 DEF ClientList, Told
<1>16. CASE AddLookup \/ AddCache
  <2>1. /\ UNCHANGED <<wire, active>> /\ ui.pc \in {"addLookup", "addCache"}
        /\ ui'.pc \in {"addSendIcon", "addSend"} /\ ui'.hwnd = ui.hwnd /\ ui.hwnd \in Tasks
        /\ ~DropMessage /\ ~RemoveSend /\ ~UpdateSend
    BY <1>3, <1>14, <1>16 DEF AddLookup, AddCache, UiStep, UiAt
  <2>. QED
    BY <1>5, <2>1 DEF ClientList, Told, Tasks
<1>17. CASE AddSendIcon
  <2>1. /\ UNCHANGED active /\ ui.pc = "addSendIcon" /\ Send(SendIcon(ui.hicon))
        /\ ui'.pc = "addCache" /\ ui'.hwnd = ui.hwnd /\ ui.hwnd \in Tasks
        /\ ~DropMessage /\ ~RemoveSend /\ ~UpdateSend
    BY <1>3, <1>14, <1>17 DEF AddSendIcon, UiStep, UiAt
  <2>2. SendIcon(ui.hicon) \in Frame
    BY <2>1, FrameTyped DEF TypeOK
  <2>3. ClientList' = ClientList
    BY <2>1, <2>2, ClientReads DEF Apply, SendIcon
  <2>. QED
    BY <1>5, <2>1, <2>3 DEF Told, Tasks
<1>17a. CASE RemoveErase
  <2>1. /\ UiStep("removeErase") /\ ui.pc = "removeErase" /\ ui.hwnd \in Tasks
        /\ UNCHANGED wire /\ ui'.pc = "removeSend" /\ ui'.hwnd = ui.hwnd
        /\ Tasks' = Tasks \ {ui.hwnd}
    BY <1>0, <1>3, <1>17a DEF RemoveErase, Erase, UiStep, UiAt, Tasks
  <2>2. Told' = Told
    BY <2>1 DEF Told
  <2>. QED
    BY <1>5, <1>14, <2>1, <2>2 DEF ClientList
<1>17b. CASE RemoveStale
  BY <1>2, <1>17b DEF RemoveStale, PhaseInv
\* The client is told.
<1>18. CASE AddSend \/ RemoveSend \/ UpdateSend
  <2>1. /\ UNCHANGED <<title, active>> /\ ui' = UiIdle /\ ~DropMessage
        /\ ui.pc \in {"addSend", "removeSend", "updateSend"}
    BY <1>13, <1>18 DEF AddSend, RemoveSend, UpdateSend, UiStep
  <2>2. Tasks' = Tasks /\ Told' = Tasks /\ ui'.pc = "GetMessage"
    BY <2>1 DEF Tasks, Told, UiIdle
  <2>3. ASSUME ShowsOnce(ClientList', Tasks),
               \A i \in DOMAIN ClientList' :
                  \/ ClientList'[i].title = title[ClientList'[i].hwnd]
                  \/ \E j \in DOMAIN ClientList :
                        /\ ClientList'[i] = ClientList[j]
                        /\ (RemoveSend \/ UpdateSend) => ui.hwnd # ClientList[j].hwnd
        PROVE  ClientInv'
    <3>1. ASSUME NEW i \in DOMAIN ClientList' PROVE Current(ClientList[i])'
      <4>1. PICK t : t = ClientList'[i]
        OBVIOUS
      <4>2. CASE t.title = title[t.hwnd]
        BY <2>1, <4>1, <4>2 DEF Current
      <4>3. CASE \E j \in DOMAIN ClientList :
                    /\ t = ClientList[j]
                    /\ (RemoveSend \/ UpdateSend) => ui.hwnd # ClientList[j].hwnd
        <5>1. Current(t)'
          BY <1>4, <2>1, <4>3
        <5>. QED
          BY <4>1, <5>1 DEF Current
      <4>. QED
        BY <2>3, <3>1, <4>1, <4>2, <4>3
    <3>2. ShowsOnce(ClientList, Told)'
      BY <2>2, <2>3 DEF ShowsOnce
    <3>. QED
      BY <2>2, <3>1, <3>2 DEF ClientInv
  <2>4. CASE AddSend
    <3>. DEFINE t == Task(ui.hwnd, ui.hicon, title[ui.hwnd])
                f == AddTask(ui.hwnd, ui.hicon, title[ui.hwnd])
    <3>1. /\ ui.pc = "addSend" /\ Send(f) /\ ui.hwnd \in Tasks /\ Told = Tasks \ {ui.hwnd}
          /\ ui.hwnd \in Windows /\ ui.hicon \in Icons /\ title[ui.hwnd] \in Title
      BY <1>0, <1>3, <2>4 DEF AddSend, UiStep, Told, Tasks, TypeOK
    <3>2. f \in Frame
      BY <3>1, FrameTyped
    <3>3. ClientList' = Append(ClientList, t)
      BY <3>1, <3>2, ClientReads DEF Apply, AddTask
    <3>4. t \in Row /\ t.hwnd = ui.hwnd /\ t.title = title[ui.hwnd]
      BY <3>1 DEF Task, Row
    <3>. HIDE DEF t, f
    <3>5. ShowsOnce(Append(ClientList, t), Told \cup {t.hwnd})
      BY <1>3, <3>1, <3>4, AddedShows
    <3>6. Told \cup {t.hwnd} = Tasks
      BY <3>1, <3>4
    <3>7. \A i \in DOMAIN ClientList' :
             ClientList'[i] = t \/ \E j \in DOMAIN ClientList : ClientList'[i] = ClientList[j]
      BY <3>3, <3>4
    <3>8. ~RemoveSend /\ ~UpdateSend
      BY <3>1 DEF RemoveSend, UpdateSend, UiStep
    <3>. QED
      BY <2>3, <3>3, <3>4, <3>5, <3>6, <3>7, <3>8
  <2>5. CASE RemoveSend
    <3>. DEFINE rest == RemoveTaskByHwnd(ClientList, ui.hwnd)
    <3>1. /\ ui.pc = "removeSend" /\ Send(RemoveTask(ui.hwnd)) /\ ui.hwnd \notin Tasks
          /\ Told = Tasks \cup {ui.hwnd} /\ ui.hwnd \in Windows
      BY <1>0, <1>3, <2>5 DEF RemoveSend, UiStep, Told, UiBetween
    <3>2. RemoveTask(ui.hwnd) \in Frame
      BY <3>1, FrameTyped
    <3>3. ClientList' = rest
      BY <3>1, <3>2, ClientReads DEF Apply, RemoveTask
    <3>3a. rest = RemoveTaskByHwnd(ClientList, ui.hwnd)
      OBVIOUS
    <3>. HIDE DEF rest
    <3>4. /\ ShowsOnce(rest, Told \ {ui.hwnd})
          /\ \A i \in DOMAIN rest :
                \E j \in DOMAIN ClientList : /\ rest[i] = ClientList[j]
                                             /\ ClientList[j].hwnd # ui.hwnd
      BY <1>3, <3>3a, RemovedShows
    <3>5. Told \ {ui.hwnd} = Tasks
      BY <3>1
    <3>. QED
      BY <2>3, <3>3, <3>4, <3>5
  <2>6. CASE UpdateSend
    <3>. DEFINE renamed == SetTitleByHwnd(ClientList, ui.hwnd, title[ui.hwnd])
                f == UpdateTask(ui.hwnd, title[ui.hwnd])
    <3>1. /\ ui.pc = "updateSend" /\ Send(f) /\ Told = Tasks /\ ui.hwnd \in Windows
          /\ title[ui.hwnd] \in Title
      BY <1>0, <1>3, <2>6 DEF UpdateSend, UiStep, Told, UiBetween
    <3>2. f \in Frame
      BY <3>1, FrameTyped
    <3>3. ClientList' = renamed
      BY <3>1, <3>2, ClientReads DEF Apply, UpdateTask
    <3>4. /\ ShowsOnce(renamed, Tasks)
          /\ \A i \in DOMAIN renamed :
                IF renamed[i].hwnd = ui.hwnd THEN renamed[i].title = title[ui.hwnd]
                ELSE \E j \in DOMAIN ClientList : renamed[i] = ClientList[j]
      BY <1>3, <3>1, RetitledShows
    <3>. HIDE DEF renamed
    <3>5. ASSUME NEW i \in DOMAIN renamed
          PROVE  \/ renamed[i].title = title[renamed[i].hwnd]
                 \/ \E j \in DOMAIN ClientList :
                       renamed[i] = ClientList[j] /\ ui.hwnd # ClientList[j].hwnd
      BY <3>4
    <3>. QED
      BY <2>3, <3>3, <3>4, <3>5
  <2>. QED
    BY <1>18, <2>4, <2>5, <2>6
<1>19. CASE Listen
  BY <1>2, <1>19 DEF Listen, Proceed, EnumWindowsProc, RefreshNext, RefreshGotIcon,
     RefreshLookup, SendTasksRow, EnumWindowsDone, RefreshSendIcon, RefreshCacheIcon,
     RefreshDone, SendTasksSize, SendTasksDone, SpoiltCrash, RxStep, Listing
<1>. QED
  BY <1>1, <1>6, <1>7, <1>8, <1>10, <1>11, <1>12, <1>15, <1>16, <1>17, <1>17a, <1>17b,
     <1>18,
     <1>19
  DEF Next, UI, Pump

-----------------------------------------------------------------------------
(* A list the client can read.                                             *)

\* A listing ends when its list is sent.
LEMMA ListingEnds ==
    ASSUME TypeOK, PhaseInv, [Next]_vars, Listing, ~Listing', ~interfered'
    PROVE  SendTasksDone
<1>1. Listen
  BY UndisturbedListing DEF Listing
<1>. QED
  BY <1>1 DEF Listen, Proceed, EnumWindowsProc, RefreshNext, RefreshGotIcon, RefreshLookup,
     SendTasksRow, EnumWindowsDone, RefreshSendIcon, RefreshCacheIcon, RefreshDone,
     SendTasksSize, SpoiltCrash, RxStep, Listing, TypeOK

\* There are as many rows as windows, when each window has one.
LEMMA RowsCount ==
    ASSUME NEW rows, IsFiniteSet(rows), NEW ws,
           \A w \in ws : \E r \in rows : r.hwnd = w,
           \A r \in rows : r.hwnd \in ws,
           \A r, q \in rows : r.hwnd = q.hwnd => r = q
    PROVE  Cardinality(rows) = Cardinality(ws)
<1>. DEFINE f == [r \in rows |-> r.hwnd]
<1>1. f \in Bijection(rows, ws)
  BY DEF Bijection, Injection, Surjection, IsInjective
<1>2. ExistsBijection(rows, ws)
  BY <1>1, Zenon DEF ExistsBijection
<1>. QED
  BY <1>2, FS_Bijection

\* A list is complete once its last row is sent, and its pictures precede it.
LEMMA ReadableStep ==
    ASSUME TypeOK, PhaseInv, ListingInv, ListReadable, [Next]_vars
    PROVE  ListReadable'
<1>. SUFFICES ASSUME JustListed', ~interfered'
              PROVE  (/\ Last(wire).numTasks = Cardinality(Last(wire).tasks)
                      /\ \A r \in Last(wire).tasks : SentBefore(r.hicon, Len(wire)))'
  BY DEF ListReadable
<1>1. ~RefreshClear
  BY DEF RefreshClear, JustListed, Listing, TypeOK
<1>2. ~interfered /\ (Listing => SendTasksDone) /\ wire \in Seq(Frame)
  BY <1>1, Repairs, ListingEnds DEF JustListed, TypeOK
<1>3. CASE UNCHANGED wire
  <2>1. ~Listing
    BY <1>2, <1>3 DEF SendTasksDone, Send
  <2>2. JustListed
    BY <1>3, <2>1 DEF JustListed
  <2>. QED
    BY <1>2, <1>3, <2>2 DEF ListReadable, SentBefore
<1>4. ASSUME NEW f \in Frame, Send(f), f.type # "ACTIVE_TASK_LIST" PROVE FALSE
  <2>1. Last(wire') = f
    BY <1>2, <1>4 DEF Send, Last
  <2>. QED
    BY <1>4, <2>1 DEF JustListed
<1>5. ASSUME NEW f \in Frame, Send(f), SendTasksDone, f = TaskList(rx.numTasks, rx.rows)
      PROVE  (/\ Last(wire).numTasks = Cardinality(Last(wire).tasks)
              /\ \A r \in Last(wire).tasks : SentBefore(r.hicon, Len(wire)))'
  <2>1. /\ Last(wire') = f /\ Len(wire) \in Nat /\ Len(wire') = Len(wire) + 1
        /\ \A i \in 1 .. Len(wire) : wire'[i] = wire[i]
        /\ f.numTasks = rx.numTasks /\ f.tasks = rx.rows
    BY <1>2, <1>5 DEF Send, Last, TaskList
  <2>2. rx.pc = "rowLoop" /\ (Tasks \subseteq rx.seen \/ rx.spoilt)
    BY <1>5 DEF SendTasksDone, RxStep, LoopEnds, Unvisited
  <2>3. /\ rx.seen = Tasks /\ rx.numTasks = Cardinality(Tasks)
        /\ \A w \in Tasks : \E r \in rx.rows : r.hwnd = w
        /\ \A r \in rx.rows : r.hwnd \in Tasks /\ IconSent(r.hicon)
        /\ \A r, q \in rx.rows : r.hwnd = q.hwnd => r = q
    BY <1>2, <2>2 DEF ListingInv, Listing, Iterating
  <2>4. rx.numTasks = Cardinality(rx.rows)
    BY <2>3, RowsCount DEF PhaseInv
  <2>5. ASSUME NEW r \in rx.rows PROVE \E j \in 1 .. Len(wire') - 1 : wire'[j] = SendIcon(r.hicon)
    <3>1. PICK j \in 1 .. Len(wire) : wire[j] = SendIcon(r.hicon)
      BY <2>3 DEF IconSent
    <3>. QED
      BY <2>1, <3>1
  <2>. QED
    BY <2>1, <2>4, <2>5 DEF SentBefore
<1>. QED
  BY <1>3, <1>4, <1>5, WireMoves DEF SendIcon, AddTask, RemoveTask, UpdateTask

-----------------------------------------------------------------------------
(* The theorems.                                                           *)

\* The invariant holds before anything happened.
LEMMA InitMirror == Init => MirrorInv
<1>. SUFFICES ASSUME Init PROVE MirrorInv
  OBVIOUS
<1>1. /\ wire = <<>> /\ winEvents = <<>> /\ msgQueue = <<>> /\ requests = 0
      /\ ui.pc = "GetMessage" /\ rx.pc = "recv" /\ rx.rows = {} /\ cached = {}
      /\ Tasks = {} /\ ~Listing /\ UiBetween
  BY DEF Init, UiIdle, Tasks, Listing, UiBetween
<1>2. IconInv
  BY InitIcons
<1>3. QueueInv
  BY <1>1 DEF QueueInv, EndsIn, Creates, Destroys
<1>4. PhaseInv
  BY <1>1, FS_EmptySet DEF PhaseInv
<1>5. TrackInv
  BY <1>1 DEF TrackInv, Tracked, BecomesTask, Creates, EndsIn
<1>6. CacheInv /\ ListingInv
  BY <1>1 DEF CacheInv, ListingInv, IconSent
<1>7. ClientList = <<>>
  BY <1>1, ReplayNone DEF ClientList
<1>8. ClientInv /\ ClientList \in Seq(Row)
  BY <1>1, <1>7 DEF ClientInv, ShowsOnce, Told
<1>9. ListReadable
  BY <1>1 DEF ListReadable, JustListed
<1>. QED
  BY <1>2, <1>3, <1>4, <1>5, <1>6, <1>8, <1>9 DEF MirrorInv

\* Every step keeps the invariant.
LEMMA MirrorStep == TypeOK /\ MirrorInv /\ [Next]_vars => MirrorInv'
<1>. SUFFICES ASSUME TypeOK, MirrorInv, [Next]_vars PROVE MirrorInv'
  OBVIOUS
<1>1. /\ IconInv /\ QueueInv /\ PhaseInv /\ TrackInv /\ CacheInv /\ ListingInv /\ ClientInv
      /\ ClientList \in Seq(Row) /\ ListReadable
  BY DEF MirrorInv
<1>2. IconInv' /\ QueueInv' /\ PhaseInv'
  BY <1>1, IconStep, QueueStep, PhaseStep
<1>3. TrackInv' /\ ListingInv' /\ ClientInv'
  BY <1>1, TrackStep, ListingStep, ClientStep
<1>4. CacheInv'
  BY <1>1, <1>2, CacheStep
<1>5. ClientList' \in Seq(Row) /\ ListReadable'
  BY <1>1, ClientListStep, ReadableStep
<1>. QED
  BY <1>2, <1>3, <1>4, <1>5 DEF MirrorInv

\* The invariant behind the four properties below: what the queues announce, how
\* far the threads are, and what the client has been told, whatever the two
\* threads do between any two of each other's steps.
THEOREM Mirroring == Spec => [](TypeOK /\ MirrorInv)
<1>1. Init => TypeOK /\ MirrorInv
  BY InitTyped, InitMirror
<1>2. TypeOK /\ MirrorInv /\ [Next]_vars => (TypeOK /\ MirrorInv)'
  BY StepTyped, MirrorStep
<1>. QED
  BY <1>1, <1>2, PTL DEF Spec

\* The last list sent, if nothing disturbed its listing, has as many rows as its
\* header says, and the pictures they refer to were sent before it.
THEOREM ListsAreReadable == Spec => []ListReadable
<1>1. TypeOK /\ MirrorInv => ListReadable
  BY DEF MirrorInv
<1>. QED
  BY <1>1, Mirroring, PTL

\* While both threads are between two messages, the client shows the tasks of
\* the server's map, each once.
THEOREM ClientMirrors == Spec => []ClientMirrorsServer
<1>1. ASSUME TypeOK, MirrorInv, ServerIdle, ~interfered, NEW w \in Windows
      PROVE  Copies(w) = IF w \in Tasks THEN 1 ELSE 0
  <2>. DEFINE P == {i \in 1 .. Len(ClientList) : ClientList[i].hwnd = w}
  <2>1. Told = Tasks
    BY <1>1 DEF ServerIdle, UiBetween, Told
  <2>2. ShowsOnce(ClientList, Tasks) /\ DOMAIN ClientList = 1 .. Len(ClientList)
    BY <1>1, <2>1 DEF MirrorInv, ClientInv, ServerIdle
  <2>3. CASE w \in Tasks
    <3>1. \E i \in P : P = {i}
      BY <2>2, <2>3 DEF ShowsOnce
    <3>. QED
      BY <2>3, <3>1, FS_Singleton DEF Copies
  <2>4. CASE w \notin Tasks
    <3>1. P = {}
      BY <2>2, <2>4 DEF ShowsOnce
    <3>. QED
      BY <2>4, <3>1, FS_EmptySet DEF Copies
  <2>. QED
    BY <2>3, <2>4
<1>2. TypeOK /\ MirrorInv => ClientMirrorsServer
  BY <1>1 DEF ClientMirrorsServer
<1>. QED
  BY <1>2, Mirroring, PTL

\* Once every event and message is handled, no task of the client shows an old
\* title of a window that has one.
THEOREM TitlesAreCurrent == Spec => []TitlesConverge
<1>1. ASSUME TypeOK, MirrorInv, Quiescent, ~interfered, NEW i \in 1 .. Len(ClientList),
             title[ClientList[i].hwnd] # NoTitle
      PROVE  ClientList[i].title = title[ClientList[i].hwnd]
  <2>1. Current(ClientList[i])
    BY <1>1 DEF MirrorInv, ClientInv, Quiescent, ServerIdle
  <2>2. ~TitleComes(ClientList[i].hwnd)
    BY <1>1 DEF Quiescent, ServerIdle, UiBetween, TitleComes, Lacks
  <2>. QED
    BY <1>1, <2>1, <2>2 DEF Current
<1>2. TypeOK /\ MirrorInv => TitlesConverge
  BY <1>1 DEF TitlesConverge
<1>. QED
  BY <1>2, Mirroring, PTL

\* After a listing, once every event and message is handled, the server's tasks
\* are the windows on the screen, less those hookEventProc misjudged.
THEOREM ServerTracks == Spec => []ServerTracksDesktop
<1>1. ASSUME TypeOK, MirrorInv, Quiescent, ~interfered, requests > 0, NEW w \in Windows
      PROVE  /\ w \in Tasks => w \in shown
             /\ w \in shown /\ w \notin Tasks => w \in misjudged
  <2>1. Tracked(w)
    BY <1>1 DEF MirrorInv, TrackInv
  <2>2. BecomesTask(w) <=> w \in Tasks
    BY <1>1 DEF Quiescent, ServerIdle, UiBetween, BecomesTask, Creates, EndsIn, Lacks
  <2>3. ~HideComes(w) /\ Unannounced(w) /\ rx.pc # "enumWindows"
    BY <1>1 DEF Quiescent, ServerIdle, Listing, HideComes, Unannounced, Lacks
  <2>. QED
    BY <1>1, <2>1, <2>2, <2>3 DEF Tracked
<1>2. TypeOK /\ MirrorInv => ServerTracksDesktop
  BY <1>1 DEF ServerTracksDesktop, Tasks, TypeOK
<1>. QED
  BY <1>2, Mirroring, PTL

\* Every frame the server sends fits those before it, unless a hook message was
\* handled around the last listing.
LEMMA SentFits ==
    ASSUME TypeOK, MirrorInv, [Next]_vars, ~interfered', wire' # wire
    PROVE  Fits(wire, Last(wire'))
<1>1. ~RefreshClear
  BY DEF RefreshClear
<1>2. ~interfered /\ wire \in Seq(Frame)
  BY <1>1, Repairs DEF TypeOK
<1>3. /\ IconInv /\ PhaseInv /\ CacheInv /\ ListingInv /\ ClientInv
      /\ ClientList \in Seq(Row) /\ ClientList = Replay(wire)
  BY DEF MirrorInv, ClientList
<1>4. \A h : SendIcon(h) \in ToSet(wire) <=> IconSent(h)
  BY <1>2 DEF ToSet, IconSent
<1>5. \A f \in Frame : Send(f) => Last(wire') = f
  BY <1>2 DEF Send, Last
<1>6. ASSUME ~Listing PROVE {t.hwnd : t \in ToSet(Replay(wire))} = Told
  <2>1. ShowsOnce(ClientList, Told)
    BY <1>2, <1>3, <1>6 DEF ClientInv
  <2>2. Told = {ClientList[i].hwnd : i \in DOMAIN ClientList}
    BY <2>1 DEF ShowsOnce
  <2>3. ToSet(ClientList) = {ClientList[i] : i \in DOMAIN ClientList}
    BY DEF ToSet
  <2>. DEFINE list == ClientList
  <2>. HIDE DEF list
  <2>4. {t.hwnd : t \in {list[i] : i \in DOMAIN list}} = {list[i].hwnd : i \in DOMAIN list}
    OBVIOUS
  <2>. QED
    BY <1>3, <2>2, <2>3, <2>4, Zenon DEF list
<1>7. ASSUME NEW pc, UiStep(pc) PROVE ~Listing /\ ui.pc = pc
  BY <1>7 DEF UiStep, Interferes
<1>8. ASSUME NEW f \in Frame, Send(f), AddSendIcon, f = SendIcon(ui.hicon)
      PROVE  Fits(wire, f)
  <2>1. ui.pc = "addSendIcon" /\ ~Listing /\ ui.hicon \in Icons
    BY <1>7, <1>8 DEF AddSendIcon, TypeOK
  <2>2. ~IconSent(ui.hicon)
    BY <1>2, <1>3, <2>1 DEF CacheInv, Listing
  <2>. QED
    BY <1>4, <1>8, <2>2 DEF Fits, SendIcon
<1>9. ASSUME NEW f \in Frame, Send(f), RefreshSendIcon, f = SendIcon(rx.hicon)
      PROVE  Fits(wire, f)
  <2>1. rx.pc = "sendIcon" /\ Listing /\ rx.hicon \in Icons
    BY <1>9 DEF RefreshSendIcon, RxStep, Listing, TypeOK
  <2>2. ~IconSent(rx.hicon)
    BY <1>2, <1>3, <2>1 DEF CacheInv, PhaseInv, UiBetween
  <2>. QED
    BY <1>4, <1>9, <2>2 DEF Fits, SendIcon
<1>10. ASSUME NEW f \in Frame, Send(f), AddSend, f = AddTask(ui.hwnd, ui.hicon, title[ui.hwnd])
       PROVE  Fits(wire, f)
  <2>1. ui.pc = "addSend" /\ ~Listing
    BY <1>7, <1>10 DEF AddSend
  <2>2. IconSent(ui.hicon) /\ ui.hwnd \notin Told
    BY <1>3, <2>1 DEF IconInv, Told
  <2>. QED
    BY <1>4, <1>6, <1>10, <2>1, <2>2 DEF Fits, AddTask
<1>11. ASSUME NEW f \in Frame, Send(f), RemoveSend, f = RemoveTask(ui.hwnd)
       PROVE  Fits(wire, f)
  <2>1. ui.pc = "removeSend" /\ ~Listing
    BY <1>7, <1>11 DEF RemoveSend
  <2>2. ui.hwnd \in Told
    BY <2>1 DEF Told
  <2>. QED
    BY <1>6, <1>11, <2>1, <2>2 DEF Fits, RemoveTask
<1>12. ASSUME NEW f \in Frame, Send(f), UpdateSend, f = UpdateTask(ui.hwnd, title[ui.hwnd])
       PROVE  Fits(wire, f)
  <2>1. ui.pc = "updateSend" /\ ~Listing
    BY <1>7, <1>12 DEF UpdateSend
  <2>2. ui.hwnd \in Told
    BY <1>2, <1>3, <2>1 DEF ClientInv, Told
  <2>. QED
    BY <1>6, <1>12, <2>1, <2>2 DEF Fits, UpdateTask
<1>13. ASSUME NEW f \in Frame, Send(f), SendTasksDone, f = TaskList(rx.numTasks, rx.rows)
       PROVE  Fits(wire, f)
  <2>1. rx.pc = "rowLoop" /\ (Tasks \subseteq rx.seen \/ rx.spoilt)
    BY <1>13 DEF SendTasksDone, RxStep, LoopEnds, Unvisited
  <2>2. /\ rx.seen = Tasks /\ rx.numTasks = Cardinality(Tasks)
        /\ \A w \in Tasks : \E r \in rx.rows : r.hwnd = w
        /\ \A r \in rx.rows : r.hwnd \in Tasks /\ IconSent(r.hicon)
        /\ \A r, q \in rx.rows : r.hwnd = q.hwnd => r = q
    BY <1>2, <1>3, <2>1 DEF ListingInv, Listing, Iterating
  <2>3. rx.numTasks = Cardinality(rx.rows)
    BY <1>3, <2>2, RowsCount DEF PhaseInv
  <2>4. {r.hwnd : r \in rx.rows} = Tasks
    BY <2>2
  <2>5. /\ f.type = "ACTIVE_TASK_LIST" /\ f.numTasks = rx.numTasks /\ f.tasks = rx.rows
    BY <1>13 DEF TaskList
  <2>6. rx.numTasks = Cardinality({r.hwnd : r \in rx.rows})
    BY <2>2, <2>4, Zenon
  <2>7. \A r \in rx.rows : SendIcon(r.hicon) \in ToSet(wire)
    BY <1>4, <2>2
  <2>. QED
    BY <2>3, <2>5, <2>6, <2>7 DEF Fits
<1>. QED
  BY <1>5, <1>8, <1>9, <1>10, <1>11, <1>12, <1>13, WireMoves

\* What module TaskClient assumes of its server, the server does.
THEOREM SentFramesFit == Spec => FramesFit
<1>1. TypeOK /\ MirrorInv /\ [Next]_vars
         => [~interfered' /\ wire' # wire => Fits(wire, Last(wire'))]_vars
  BY SentFits DEF vars
<1>. QED
  BY <1>1, Mirroring, PTL DEF Spec, FramesFit

=============================================================================
