----------------------------- MODULE TaskMirror -----------------------------
(***************************************************************************)
(* What the server's handling of the task list promises, and under which   *)
(* conditions: relations between the desktop, the server's map and what a  *)
(* client makes of the frames it was sent.                                 *)
(***************************************************************************)
EXTENDS TaskServer, ClientView

-----------------------------------------------------------------------------
(* Icons.                                                                  *)

SentBefore(h, i) == \E j \in 1 .. i - 1 : wire[j] = SendIcon(h)

IconSent(h) == \E j \in 1 .. Len(wire) : wire[j] = SendIcon(h)

\* The client looks the picture of a new task up in its icon map when it draws
\* it, so addWindowTask sends the icon first.  Two threads fill the cache that
\* decides whether to send it, and a listing may run between any two steps:
\* every ADD_TASK follows the picture of its icon all the same.
IconBeforeAdd ==
    \A i \in 1 .. Len(wire) :
        wire[i].type = "ADD_TASK" => SentBefore(wire[i].hicon, i)

JustListed == ~Listing /\ wire # <<>> /\ Last(wire).type = "ACTIVE_TASK_LIST"

\* Why it holds: an icon enters the cache after it was sent, by whichever
\* thread, and a thread past the sending has sent it.  This is inductive.
IconInv ==
    /\ IconBeforeAdd
    /\ \A h \in cached : IconSent(h)
    /\ ui.pc \in {"addCache", "addSend"} => IconSent(ui.hicon)
    /\ rx.pc = "cacheIcon" => IconSent(rx.hicon)

-----------------------------------------------------------------------------
(* The list.                                                               *)

\* The client reads as many rows as the header announces, and looks the picture
\* of each up when it draws it.  The header is written from size() before the
\* rows are, and the pictures are sent before both: unless a hook message was
\* handled around the listing, header and rows agree, so that the stream stays
\* in step, and no row refers to a picture the client has not got.
ListReadable ==
    JustListed /\ ~interfered =>
        /\ Last(wire).numTasks = Cardinality(Last(wire).tasks)
        /\ \A r \in Last(wire).tasks : SentBefore(r.hicon, Len(wire))

ClientList == Replay(wire)

Copies(w) == Cardinality({i \in 1 .. Len(ClientList) : ClientList[i].hwnd = w})

ServerIdle == UiBetween /\ ~Listing

Quiescent == ServerIdle /\ winEvents = <<>> /\ msgQueue = <<>>

\* When both threads are between two messages, the client shows the tasks in
\* _activeWindowTasks, each exactly once, whatever was added, removed and
\* listed so far, as long as no hook message was handled around the last
\* listing: a listing repairs what an earlier one got wrong.
ClientMirrorsServer ==
    ServerIdle /\ ~interfered =>
        \A w \in Windows : Copies(w) = IF w \in Tasks THEN 1 ELSE 0

\* The server reads a title when it sends a frame, not when the event was
\* raised.  Once every event is handled, no task of the client shows an old
\* title: the only exception is a title that became empty, for which the hook
\* posts nothing.
TitlesConverge ==
    Quiescent /\ ~interfered =>
        \A i \in 1 .. Len(ClientList) :
            LET t == ClientList[i] IN
            title[t.hwnd] # NoTitle => t.title = title[t.hwnd]

\* After a listing, once every event is handled, the map holds the windows on
\* the screen and no other: it was filled by EnumWindows and kept up to date by
\* events handled later, between which windows came and went.  A window may be
\* missing only if hookEventProc took the hiding of its caret for its own, or
\* saw it before it had a title.
ServerTracksDesktop ==
    Quiescent /\ ~interfered /\ netState = "CONNECTED" /\ requests > 0
        => Tasks \subseteq shown /\ shown \ Tasks \subseteq misjudged

\* What the client may rely on: every frame fits the frames before it, as long
\* as no hook message was handled around the last listing, whatever happened
\* around the listings before.  Module TaskClient assumes this of its server.
FramesFit == [][~interfered' /\ wire' # wire => Fits(wire, Last(wire'))]_vars

-----------------------------------------------------------------------------
(* Why these hold: an inductive invariant, in parts.                       *)

Lacks(q, N) == \A i \in DOMAIN q : q[i] \notin N

\* An element of K is in q, and none of N comes after it.
EndsIn(q, K, N) ==
    \E i \in DOMAIN q : q[i] \in K /\ \A j \in DOMAIN q : j > i => q[j] \notin N

Events(kinds, w)   == [event : kinds, hwnd : {w}]
Messages(kinds, w) == [lParam : kinds, hwnd : {w}]

HideComes(w)   == ~Lacks(winEvents, Events({"HIDE"}, w))
Unannounced(w) == Lacks(winEvents, Events({"SHOW", "HIDE"}, w))
Creates(w)     == EndsIn(msgQueue, Messages({"CREATE"}, w), Messages({"DESTROY"}, w))
Destroys(w)    == EndsIn(msgQueue, Messages({"DESTROY"}, w), Messages({"CREATE"}, w))

\* What the queues say of a window, whatever the threads do.
QueueInv ==
    \A w \in Windows :
        /\ w \notin shown =>
              ~EndsIn(winEvents, Events({"SHOW"}, w), Events({"HIDE"}, w))
        /\ w \notin shown /\ Creates(w) => HideComes(w)
        /\ w \in shown /\ Unannounced(w) /\ Destroys(w) => w \in misjudged

\* The window is a task once the messages queued are handled.
BecomesTask(w) ==
    \/ Creates(w)
    \/ /\ w \in Tasks \/ (ui.pc = "addInsert" /\ ui.hwnd = w)
       /\ ~(ui.pc = "removeErase" /\ ui.hwnd = w)
       /\ Lacks(msgQueue, Messages({"DESTROY"}, w))

\* Where the threads are.  The entry that waits for its icon is there or has been
\* erased.  A listing that is not disturbed leaves the UI thread between two
\* messages, and enumWindowsProc adds no window it was not called for.
PhaseInv ==
    /\ netState # "CONNECTED" => UiBetween /\ (requests = 0 => Tasks = {})
    /\ Listing => requests > 0
    /\ IsFiniteSet(rx.rows)
    /\ rx.pc = "getIcon" /\ rx.task # NoWindow => rx.task \in Tasks
    /\ ~interfered =>
        /\ Listing => UiBetween
        /\ ui.pc # "removeStale"
        /\ rx.pc = "enumWindows" => Tasks \subseteq rx.seen

\* A window that is gone and still a task will be taken out, and one on the
\* screen that no listing has still to visit is a task or becomes one.
Tracked(w) ==
    /\ w \notin shown /\ BecomesTask(w) => HideComes(w)
    /\ w \in shown /\ requests > 0 =>
          \/ rx.pc = "enumWindows" /\ w \notin rx.seen
          \/ ~Unannounced(w) \/ BecomesTask(w) \/ w \in misjudged

TrackInv == ~interfered => \A w \in Windows : Tracked(w)

\* Every icon sent is in the cache, unless a thread is about to put it there; an
\* icon about to be sent is not.
CacheInv ==
    /\ \A h \in Icons : IconSent(h) =>
          \/ h \in cached
          \/ ui.pc = "addCache" /\ ui.hicon = h
          \/ rx.pc = "cacheIcon" /\ rx.hicon = h
    /\ ~interfered =>
          /\ ui.pc = "addSendIcon" => ui.hicon \notin cached
          /\ rx.pc = "sendIcon" => rx.hicon \notin cached

\* The title is the window's, or a message that will set it is on its way.
TitleComes(w) ==
    \/ ~Lacks(winEvents, Events({"NAMECHANGE", "HIDE"}, w))
    \/ ~Lacks(msgQueue, Messages({"RENAME", "DESTROY"}, w))
    \/ ui.pc \in {"updateSend", "removeErase", "removeSend"} /\ ui.hwnd = w

Current(t) == t.title = title[t.hwnd] \/ title[t.hwnd] = NoTitle \/ TitleComes(t.hwnd)

\* How far an undisturbed listing has got.
ListingInv ==
    Listing /\ ~interfered =>
        /\ Iterating \/ rx.pc = "size" => ~rx.spoilt
        /\ rx.pc = "getIcon" => rx.task \in Tasks
        /\ Iterating /\ rx.pc # "rowLoop" =>
              \A w \in rx.seen \cap Tasks :
                  \/ IconSent(active[w])
                  \/ rx.pc = "getIcon" /\ w = rx.task
                  \/ rx.pc \in {"lookup", "sendIcon"} /\ active[w] = rx.hicon
        /\ rx.pc \in {"size", "rowLoop"} => \A w \in Tasks : IconSent(active[w])
        /\ rx.pc = "rowLoop" =>
              /\ rx.seen \subseteq Tasks /\ rx.numTasks = Cardinality(Tasks)
              /\ \A w \in rx.seen : \E r \in rx.rows : r.hwnd = w
              /\ \A r \in rx.rows : r.hwnd \in rx.seen /\ IconSent(r.hicon) /\ Current(r)
              /\ \A r, q \in rx.rows : r.hwnd = q.hwnd => r = q

\* The tasks the client has been told: the UI thread changes the map first.
Told ==
    IF ui.pc \in {"addLookup", "addSendIcon", "addCache", "addSend"} THEN Tasks \ {ui.hwnd}
    ELSE IF ui.pc = "removeSend" THEN Tasks \cup {ui.hwnd} ELSE Tasks

ClientInv ==
    ~Listing /\ ~interfered =>
        /\ ui.pc \in {"addInsert", "removeSend"} => ui.hwnd \notin Tasks
        /\ ui.pc \in {"addLookup", "addSendIcon", "addCache", "addSend", "updateSend"}
              => ui.hwnd \in Tasks
        /\ ui.pc = "removeErase" => ui.hwnd \in Tasks
        /\ ShowsOnce(ClientList, Told)
        /\ \A i \in DOMAIN ClientList : Current(ClientList[i])

MirrorInv ==
    /\ IconInv /\ QueueInv /\ PhaseInv /\ TrackInv /\ CacheInv /\ ListingInv /\ ClientInv
    /\ ClientList \in Seq(Row)
    /\ ListReadable

-----------------------------------------------------------------------------
(* Liveness.                                                               *)

\* A client that asked for the list gets it, however busy the desktop is, unless a
\* window never answers WM_GETICON, or the UI thread writes to the map that is being
\* iterated over and the process dies of it, or goes round in it for ever.
RequestIsAnswered ==
    Listing ~> (~Listing \/ ~alive \/ [](rx.pc = "getIcon") \/ []rx.spoilt)

\* A row may be sent before the picture it refers to when the UI thread is
\* adding that task; the picture follows.
RowIconFollows ==
    \A h \in Icons :
        (\E i \in 1 .. Len(wire) : wire[i].type = "ACTIVE_TASK_LIST"
                                   /\ \E r \in wire[i].tasks : r.hicon = h)
            ~> (IconSent(h) \/ ~alive)

-----------------------------------------------------------------------------
(* What the documentation says, without the conditions above.              *)

WellFormed ==
    \A i \in 1 .. Len(wire) :
        wire[i].type = "ACTIVE_TASK_LIST" => wire[i].numTasks = Cardinality(wire[i].tasks)

Listed == Quiescent /\ netState = "CONNECTED" /\ requests > 0

\* README, step 7: after "Connect", a list of current tasks is displayed on the
\* client.  Stated only of a client that can parse what it was sent: once every
\* event is handled, it shows each window on the screen once and no other.
ClientShowsCurrentTasks ==
    Listed /\ WellFormed => \A w \in Windows : Copies(w) = IF w \in shown THEN 1 ELSE 0

=============================================================================
