----------------------------- MODULE TaskClient -----------------------------
(***************************************************************************)
(* The Android client while it is connected: the client thread reads the   *)
(* server's frames, the UI thread keeps the list and draws it.             *)
(*                                                                         *)
(* The client thread posts every change of taskList to the UI thread, with *)
(* one exception: for an UPDATE_TASK it walks through taskList itself and  *)
(* sets the title of the Task it finds.  It does not wait for what it has  *)
(* posted before, and the UI thread may change the list during the walk,   *)
(* which the iterator reports by an exception that ends the thread.        *)
(* iconMap is a HashMap that one thread fills while the other looks rows   *)
(* up in it: a lookup during a put may miss what is there.                 *)
(*                                                                         *)
(* The server is any that sends frames which fit those before; module      *)
(* TaskMirror shows, as FramesFit, when RemoteTaskbar's does.              *)
(***************************************************************************)
EXTENDS ClientView

CONSTANTS
    Rows,        \* the rows the server may send
    MaxFrames    \* bound on the frames the server sends

ASSUME TaskClientAssumption ==
    /\ Rows \subseteq [hwnd : Windows, hicon : Icons, title : Titles]
    /\ IsFiniteSet(Rows)
    /\ MaxFrames \in Nat

VARIABLES
    pending,    \* frames sent and not yet read
    read,       \* history: the frames read, in order
    thread,     \* the client thread: where it is in the last frame read
    posts,      \* what it has still to post for that frame
    uiQueue,    \* the runnables posted to the UI thread
    taskList,   \* the Task objects, in order; id is the object's identity
    created,    \* number of Task objects so far
    iconMap,    \* the icons the client has a picture of
    drawn,      \* the rows as they were last drawn
    dirty,      \* notifyDataSetChanged was called since
    overlapped, \* history: a walk began with changes of the list still queued
    torn        \* history: the rows were last drawn during a put

channel == <<pending, read>>
view == <<drawn, dirty, torn>>
vars == <<channel, thread, posts, uiQueue, taskList, view, created, iconMap, overlapped>>

-----------------------------------------------------------------------------
(* The server.                                                             *)

ServerFrames ==
         {TaskList(Cardinality(rows), rows) : rows \in SUBSET Rows}
    \cup {SendIcon(h) : h \in Icons}
    \cup {AddTask(r.hwnd, r.hicon, r.title) : r \in Rows}
    \cup {RemoveTask(w) : w \in Windows}
    \cup {UpdateTask(w, t) : w \in Windows, t \in Titles}

ServerSends(f) ==
    /\ Len(pending) + Len(read) < MaxFrames
    /\ Fits(read \o pending, f)
    /\ pending' = Append(pending, f)
    /\ UNCHANGED <<read, thread, posts, uiQueue, taskList, view, created, iconMap, overlapped>>

-----------------------------------------------------------------------------
(* The client thread.                                                      *)

AddRow(t)    == [op |-> "add", task |-> t]
RemoveRow(w) == [op |-> "remove", hwnd |-> w]
Clear        == [op |-> "clear"]
Notify       == [op |-> "notify"]

\* Variant: clearTaskList is not called.
ClearNothing == <<>>
ClearTaskList == <<Clear>>

UpdateItems == <<Notify>>

\* The Task object of a row.
NewTask(r, id) == [id |-> id, hwnd |-> r.hwnd, hicon |-> r.hicon, title |-> r.title]

Running == [pc |-> "readInt", cursor |-> 0, stale |-> FALSE, found |-> 0]

\* readInt() returns the type of the next frame.
Reads(type) ==
    /\ thread.pc = "readInt"
    /\ posts = <<>>
    /\ pending # <<>>
    /\ Head(pending).type = type
    /\ pending' = Tail(pending)
    /\ read' = Append(read, Head(pending))
    /\ UNCHANGED <<uiQueue, taskList, view, iconMap>>

ReadTaskList ==
    /\ Reads("ACTIVE_TASK_LIST")
    /\ LET rows == SetToSeq(Head(pending).tasks)
           Add(i) == AddRow(NewTask(rows[i], created + i))
       IN /\ posts' = ClearTaskList \o [i \in DOMAIN rows |-> Add(i)] \o UpdateItems
          /\ created' = created + Len(rows)
    /\ UNCHANGED <<thread, overlapped>>

\* iconMap.put begins, on this thread.
ReadIcon ==
    /\ Reads("SEND_ICON")
    /\ thread' = [Running EXCEPT !.pc = "put"]
    /\ UNCHANGED <<posts, created, overlapped>>

ReadAddTask ==
    /\ Reads("ADD_TASK")
    /\ posts' = <<AddRow(NewTask(Head(pending), created + 1))>> \o UpdateItems
    /\ created' = created + 1
    /\ UNCHANGED <<thread, overlapped>>

ReadRemoveTask ==
    /\ Reads("REMOVE_TASK")
    /\ posts' = <<RemoveRow(Head(pending).hwnd)>> \o UpdateItems
    /\ UNCHANGED <<thread, created, overlapped>>

\* getTaskByHwnd begins: an iterator over taskList.
ReadUpdateTask ==
    /\ Reads("UPDATE_TASK")
    /\ thread' = [Running EXCEPT !.pc = "walk"]
    /\ overlapped' = (overlapped \/ uiQueue # <<>>)
    /\ UNCHANGED <<posts, created>>

Step(pc) ==
    /\ thread.pc = pc
    /\ UNCHANGED <<channel, uiQueue, view, created, overlapped>>

\* Variant: the picture is not kept.
PutNothing(h) == iconMap
Put(h) == iconMap \cup {h}

\* Nothing is drawn for a new picture.
PutIcon ==
    /\ Step("put")
    /\ iconMap' = Put(Last(read).hicon)
    /\ thread' = Running
    /\ UNCHANGED <<posts, taskList>>

\* Variant: the comparison is the wrong way round.
MatchesOther(t) == t.hwnd # Last(read).hwnd
Matches(t) == t.hwnd = Last(read).hwnd

\* Variants: every other task, and the first one again and again.
SkipsOne(cursor) == cursor + 2
Stays(cursor) == cursor
NextIndex(cursor) == cursor + 1

\* hasNext() compares the cursor with the size.
HasNext == thread.cursor # Len(taskList)

WalkEnds ==
    /\ Step("walk")
    /\ ~HasNext
    /\ thread' = Running
    /\ posts' = UpdateItems
    /\ UNCHANGED <<taskList, iconMap>>

\* next() throws when the list was changed since the iterator was made.
Walk ==
    /\ Step("walk")
    /\ HasNext
    /\ thread' = IF thread.stale THEN [Running EXCEPT !.pc = "dead"]
                 ELSE LET t == taskList[thread.cursor + 1] IN
                      IF Matches(t) THEN [thread EXCEPT !.pc = "setTitle", !.found = t.id]
                      ELSE [thread EXCEPT !.cursor = NextIndex(@)]
    /\ UNCHANGED <<posts, taskList, iconMap>>

\* t.title = title, whether or not t is still in the list.
SetTitle ==
    /\ Step("setTitle")
    /\ taskList' = [i \in DOMAIN taskList |->
                      IF taskList[i].id = thread.found
                      THEN [taskList[i] EXCEPT !.title = Last(read).title] ELSE taskList[i]]
    /\ thread' = Running
    /\ posts' = UpdateItems
    /\ UNCHANGED iconMap

\* runOnUiThread.
Post ==
    /\ posts # <<>>
    /\ uiQueue' = Append(uiQueue, Head(posts))
    /\ posts' = Tail(posts)
    /\ UNCHANGED <<channel, thread, taskList, view, created, iconMap, overlapped>>

ClientThread ==
    \/ ReadTaskList \/ ReadIcon \/ ReadAddTask \/ ReadRemoveTask \/ ReadUpdateTask
    \/ PutIcon \/ WalkEnds \/ Walk \/ SetTitle \/ Post

-----------------------------------------------------------------------------
(* The UI thread.                                                          *)

UiStep == UNCHANGED <<channel, posts, created, iconMap, overlapped>>

\* What a runnable does to taskList.
Run(list, r) ==
    CASE r.op = "add"    -> Append(list, r.task)
      [] r.op = "remove" -> RemoveTaskByHwnd(list, r.hwnd)
      [] r.op = "clear"  -> <<>>
      [] OTHER           -> list

\* The adapter's add, remove and clear notify the grid as well.
RunRunnable ==
    /\ uiQueue # <<>>
    /\ uiQueue' = Tail(uiQueue)
    /\ taskList' = Run(taskList, Head(uiQueue))
    /\ thread' = [thread EXCEPT !.stale = @ \/ (thread.pc = "walk" /\ taskList' # taskList)]
    /\ dirty' = TRUE
    /\ UNCHANGED <<drawn, torn>> /\ UiStep

\* getView for each row: the title of the Task, and what iconMap.get returns.
GetViews ==
    /\ dirty
    /\ dirty' = FALSE
    /\ torn' = (thread.pc = "put")
    /\ \E missed \in (IF torn' THEN SUBSET iconMap ELSE {{}}) :
         drawn' = [i \in DOMAIN taskList |->
                     [hwnd |-> taskList[i].hwnd, title |-> taskList[i].title,
                      picture |-> taskList[i].hicon \in iconMap \ missed]]
    /\ UNCHANGED <<thread, uiQueue, taskList>> /\ UiStep

UI == RunRunnable \/ GetViews

-----------------------------------------------------------------------------
Init ==
    /\ pending = <<>> /\ read = <<>>
    /\ thread = Running
    /\ posts = <<>> /\ uiQueue = <<>>
    /\ taskList = <<>> /\ created = 0
    /\ iconMap = {}
    /\ drawn = <<>> /\ dirty = FALSE
    /\ overlapped = FALSE /\ torn = FALSE

Next == (\E f \in ServerFrames : ServerSends(f)) \/ ClientThread \/ UI

Spec == Init /\ [][Next]_vars

(* Both threads of the client are scheduled; the server need not send.     *)
FairSpec == Spec /\ WF_vars(ClientThread) /\ WF_vars(UI)

-----------------------------------------------------------------------------
(* Properties.                                                             *)

TaskObject == [id : 1 .. created, hwnd : Windows, hicon : Icons, title : Titles]

Runnable == [op : {"add"}, task : TaskObject] \cup [op : {"remove"}, hwnd : Windows]
            \cup {Clear, Notify}

\* The types.  The iterator never goes past an unchanged list, and a thread in
\* the middle of a frame has read one of that kind.
TypeOK ==
    /\ pending \in Seq(Frame) /\ read \in Seq(Frame)
    /\ thread \in [pc : {"readInt", "put", "walk", "setTitle", "dead"},
                   cursor : Nat, stale : BOOLEAN, found : 0 .. created]
    /\ thread.pc = "put" => read # <<>> /\ Last(read).type = "SEND_ICON"
    /\ thread.pc \in {"walk", "setTitle"} => read # <<>> /\ Last(read).type = "UPDATE_TASK"
    /\ thread.pc = "walk" /\ ~thread.stale => thread.cursor <= Len(taskList)
    /\ posts \in Seq(Runnable) /\ uiQueue \in Seq(Runnable)
    /\ taskList \in Seq(TaskObject)
    /\ created \in Nat
    /\ iconMap \subseteq Icons
    /\ drawn \in Seq([hwnd : Windows, title : Titles, picture : BOOLEAN])
    /\ dirty \in BOOLEAN /\ overlapped \in BOOLEAN /\ torn \in BOOLEAN

Hwnds(list) == [i \in DOMAIN list |-> list[i].hwnd]

Reading == Replay(read)

\* The changes still under way, to come after those of the list itself.
Settling == FoldLeft(Run, taskList, uiQueue \o posts)

\* Whatever is still to be posted or run, and whichever threads' steps come
\* between: the list is going to hold the tasks the frames read so far stand
\* for, in that order, even if an exception has ended the client thread.
ListFollowsFrames == Hwnds(Settling) = Hwnds(Reading)

Settled == posts = <<>> /\ uiQueue = <<>> /\ thread.pc \in {"readInt", "dead"} /\ ~dirty

Shown(list) == [i \in DOMAIN list |-> [hwnd |-> list[i].hwnd, title |-> list[i].title]]

\* The titles, which another thread than the list's own sets, are right as well
\* and the client thread lives, unless an update was read while the UI thread had
\* runnables of earlier frames to run.
TitlesFollowFrames ==
    ~overlapped => thread.pc # "dead" /\ (Settled => Shown(drawn) = Shown(Reading))

\* No row is drawn without its picture, unless it is drawn in the middle of a
\* put.  iconMap is not drawn again when it changes; it suffices that the picture
\* came first, because this thread puts it into the map before it posts the row.
PicturesDrawn == ~torn => \A i \in DOMAIN drawn : drawn[i].picture

-----------------------------------------------------------------------------
(* Why these hold: an inductive invariant, in parts.                       *)

\* Every frame sent, read or not, fits those before it.
Stream == read \o pending

StreamInv ==
    /\ Stream \in Seq(ServerFrames)
    /\ \A i \in DOMAIN Stream : Fits(SubSeq(Stream, 1, i - 1), Stream[i])

\* A picture read is in the map, or the thread is about to put it there; rows,
\* and rows still to come, have theirs in the map.
PictureInv ==
    /\ \A h \in Icons : SendIcon(h) \in ToSet(read) =>
          h \in iconMap \/ (thread.pc = "put" /\ Last(read) = SendIcon(h))
    /\ \A i \in DOMAIN taskList : taskList[i].hicon \in iconMap
    /\ \A q \in {posts, uiQueue} : \A i \in DOMAIN q :
          q[i].op = "add" => q[i].task.hicon \in iconMap

\* The client thread does nothing else while it has something to post.
PostingInv == posts # <<>> => thread.pc = "readInt"

\* The changes of the list still under way.
Coming == uiQueue \o posts

\* No two Task objects are the same one.
ObjectInv ==
    /\ \A i, j \in DOMAIN taskList : taskList[i].id = taskList[j].id => i = j
    /\ \A i, j \in DOMAIN Coming :
          Coming[i].op = "add" /\ Coming[j].op = "add" /\ Coming[i].task.id = Coming[j].task.id
              => i = j
    /\ \A i \in DOMAIN taskList, j \in DOMAIN Coming :
          Coming[j].op = "add" => taskList[i].id # Coming[j].task.id

Updating == thread.pc \in {"walk", "setTitle"}

\* The tasks before place k are none of the update's.
NoneBefore(k) == \A i \in 1 .. k - 1 : taskList[i].hwnd # Last(read).hwnd

\* With nothing left to do, the rows drawn are those of the list.
DrawnInv == posts = <<>> /\ uiQueue = <<>> /\ ~dirty => Shown(drawn) = Shown(taskList)

\* A walk that nothing overlaps finds the first task of the update's window in the
\* list that the frames before it stand for.
TitleInv ==
    ~overlapped =>
        /\ thread.pc # "dead"
        /\ ~Updating => Shown(Settling) = Shown(Reading)
        /\ Updating =>
              /\ uiQueue = <<>> /\ ~thread.stale
              /\ Shown(taskList) = Shown(Replay(Front(read)))
        /\ thread.pc = "walk" => NoneBefore(thread.cursor + 1)
        /\ thread.pc = "setTitle" =>
              \E k \in DOMAIN taskList :
                  /\ taskList[k].id = thread.found
                  /\ taskList[k].hwnd = Last(read).hwnd /\ NoneBefore(k)

ClientInv ==
    /\ StreamInv /\ PictureInv /\ PicturesDrawn
    /\ PostingInv /\ ListFollowsFrames /\ ObjectInv
    /\ DrawnInv /\ TitleInv

-----------------------------------------------------------------------------
(* Liveness.                                                               *)

\* Every frame is read and shown in the end, unless the thread has ended.
FramesAreShown == (pending # <<>>) ~> ((Settled /\ pending = <<>>) \/ thread.pc = "dead")

=============================================================================
