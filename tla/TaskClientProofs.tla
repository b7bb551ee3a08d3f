-------------------------- MODULE TaskClientProofs --------------------------
(***************************************************************************)
(* Theorems about the Android client, for any rows and any number of       *)
(* frames: its list is going to hold what the frames read stand for,       *)
(* titles and pictures included, whatever the client thread and the UI     *)
(* thread do between any two of each other's steps.                        *)
(***************************************************************************)
EXTENDS TaskClient, ViewProofs

\* The lemmas on folds, for the frames and, below, for the runnables; Op itself
\* means nothing here.
Played == INSTANCE ViewProofs WITH Op <- Apply

\* Replaying is folding.
LEMMA ReplayIsFold == \A s : Replay(s) = Played!Fold(<<>>, s)
BY Zenon DEF Replay, FoldLeft, Played!FoldLeft, MapThenFoldSet, Played!MapThenFoldSet,
   Max, Played!Max, Played!Fold

\* A client that has read nothing shows nothing.
LEMMA ReplayNone == Replay(<<>>) = <<>>
BY NullAssumption, Played!FoldEmpty, ReplayIsFold

\* The last frame is applied to the list the earlier ones left.
LEMMA ReplayOneMore ==
    ASSUME NEW s \in Seq(Frame), NEW f \in Frame
    PROVE  Replay(Append(s, f)) = Apply(Replay(s), f)
BY NullAssumption, Played!FoldAppend, ReplayIsFold

USE DEF channel, view

-----------------------------------------------------------------------------
(* The frames.                                                             *)

\* What the server may send.
LEMMA FramesSent ==
    \A f \in ServerFrames :
        /\ f \in Frame
        /\ f.type = "ACTIVE_TASK_LIST" => f.tasks \subseteq Rows /\ IsFiniteSet(f.tasks)
        /\ f.type = "SEND_ICON" => f = SendIcon(f.hicon) /\ f.hicon \in Icons
        /\ f.type = "ADD_TASK" => f.hwnd \in Windows /\ f.hicon \in Icons /\ f.title \in Titles
        /\ f.type = "REMOVE_TASK" => f.hwnd \in Windows
        /\ f.type = "UPDATE_TASK" => f.hwnd \in Windows /\ f.title \in Titles
<1>. SUFFICES ASSUME NEW f \in ServerFrames
              PROVE  /\ f \in Frame
                     /\ f.type = "ACTIVE_TASK_LIST" => f.tasks \subseteq Rows /\ IsFiniteSet(f.tasks)
                     /\ f.type = "SEND_ICON" => f = SendIcon(f.hicon) /\ f.hicon \in Icons
                     /\ f.type = "ADD_TASK" =>
                          f.hwnd \in Windows /\ f.hicon \in Icons /\ f.title \in Titles
                     /\ f.type = "REMOVE_TASK" => f.hwnd \in Windows
                     /\ f.type = "UPDATE_TASK" => f.hwnd \in Windows /\ f.title \in Titles
  OBVIOUS
<1>1. Rows \subseteq [hwnd : Windows, hicon : Icons, title : Titles] /\ Rows \subseteq Row
  BY TaskClientAssumption DEF Row, Title
<1>2. ASSUME NEW rows \in SUBSET Rows, f = TaskList(Cardinality(rows), rows)
      PROVE  f \in Frame /\ f.type = "ACTIVE_TASK_LIST" /\ f.tasks \subseteq Rows
             /\ IsFiniteSet(f.tasks)
  <2>1. IsFiniteSet(rows) /\ Cardinality(rows) \in Nat
    BY TaskClientAssumption, FS_Subset, FS_CardinalityType
  <2>. QED
    BY <1>1, <1>2, <2>1 DEF TaskList, Frame
<1>3. ASSUME NEW h \in Icons, f = SendIcon(h)
      PROVE  f \in Frame /\ f.type = "SEND_ICON" /\ f.hicon = h
  BY <1>3 DEF SendIcon, Frame
<1>4. ASSUME NEW r \in Rows, f = AddTask(r.hwnd, r.hicon, r.title)
      PROVE  /\ f \in Frame /\ f.type = "ADD_TASK"
             /\ f.hwnd \in Windows /\ f.hicon \in Icons /\ f.title \in Titles
  BY <1>1, <1>4 DEF AddTask, Frame, Title
<1>5. ASSUME NEW w \in Windows, f = RemoveTask(w)
      PROVE  f \in Frame /\ f.type = "REMOVE_TASK" /\ f.hwnd \in Windows
  BY <1>5 DEF RemoveTask, Frame
<1>6. ASSUME NEW w \in Windows, NEW t \in Titles, f = UpdateTask(w, t)
      PROVE  f \in Frame /\ f.type = "UPDATE_TASK" /\ f.hwnd \in Windows /\ f.title \in Titles
  BY <1>6 DEF UpdateTask, Frame, Title
<1>. QED
  BY <1>2, <1>3, <1>4, <1>5, <1>6 DEF ServerFrames

\* The next frame is one that fits those read.
LEMMA NextFrame ==
    ASSUME TypeOK, StreamInv, NEW type, Reads(type)
    PROVE  /\ Head(pending) \in ServerFrames /\ Head(pending).type = type
           /\ Fits(read, Head(pending))
           /\ read \in Seq(Frame) /\ read' \in Seq(Frame) /\ pending' \in Seq(Frame)
           /\ read' = Append(read, Head(pending))
           /\ read' # <<>> /\ Last(read') = Head(pending) /\ Front(read') = read
           /\ Stream' = Stream
           /\ ToSet(read') = ToSet(read) \cup {Head(pending)}
<1>. DEFINE f == Head(pending)
<1>1. /\ pending \in Seq(Frame) /\ read \in Seq(Frame) /\ pending # <<>> /\ f.type = type
      /\ read' = Append(read, f) /\ pending' = Tail(pending) /\ f \in Frame
  BY DEF TypeOK, Reads
<1>2. Stream[Len(read) + 1] = f /\ Len(read) + 1 \in DOMAIN Stream
  BY <1>1 DEF Stream
<1>3. SubSeq(Stream, 1, Len(read)) = read
  BY <1>1 DEF Stream
<1>4. f \in ServerFrames
  BY <1>2 DEF StreamInv
<1>5. Fits(read, f)
  <2>1. Fits(SubSeq(Stream, 1, Len(read) + 1 - 1), Stream[Len(read) + 1])
    BY <1>2 DEF StreamInv
  <2>2. Len(read) + 1 - 1 = Len(read)
    BY <1>1
  <2>. QED
    BY <1>2, <1>3, <2>1, <2>2
<1>6. Stream' = Stream
  BY <1>1 DEF Stream
<1>7. read' # <<>> /\ Last(read') = f /\ Front(read') = read
  BY <1>1 DEF Last, Front
<1>8. ToSet(read') = ToSet(read) \cup {f}
  <2>. DEFINE n == Len(read)
              more == read'
  <2>1. /\ n \in Nat /\ DOMAIN read = 1 .. n /\ DOMAIN more = DOMAIN read \cup {n + 1}
        /\ more[n + 1] = f /\ \A i \in DOMAIN read : more[i] = read[i]
    BY <1>1
  <2>. HIDE DEF more, n, f
  <2>. QED
    BY <2>1 DEF ToSet, more
<1>9. read' \in Seq(Frame) /\ pending' \in Seq(Frame)
  BY <1>1
<1>. QED
  BY <1>1, <1>4, <1>5, <1>6, <1>7, <1>8, <1>9

-----------------------------------------------------------------------------
(* Types.                                                                  *)

\* A list of Task objects stays one when more objects are created.
LEMMA ObjectsGrow ==
    ASSUME created \in Nat, created' \in Nat, created <= created'
    PROVE  TaskObject \subseteq TaskObject' /\ Runnable \subseteq Runnable'
<1>1. 1 .. created \subseteq 1 .. created'
  OBVIOUS
<1>2. TaskObject \subseteq TaskObject'
  BY <1>1 DEF TaskObject
<1>. QED
  BY <1>2 DEF Runnable

\* A sequence of some elements is one of any that include them.
LEMMA SeqGrows == \A X, Y : X \subseteq Y => Seq(X) \subseteq Seq(Y)
OBVIOUS

\* The Task objects of a listing, and what is posted for it.
LEMMA ListingPosts ==
    ASSUME TypeOK, StreamInv, ReadTaskList
    PROVE  LET rows == SetToSeq(Head(pending).tasks)
               adds == [i \in DOMAIN rows |-> AddRow(NewTask(rows[i], created + i))]
           IN  /\ rows \in Seq(Rows)
               /\ created' = created + Len(rows)
               /\ adds \in Seq(Runnable') /\ posts' = <<Clear>> \o adds \o <<Notify>>
<1>. DEFINE rows == SetToSeq(Head(pending).tasks)
            adds == [i \in DOMAIN rows |-> AddRow(NewTask(rows[i], created + i))]
<1>1. Head(pending).tasks \subseteq Rows /\ IsFiniteSet(Head(pending).tasks)
  BY NextFrame, FramesSent DEF ReadTaskList
<1>2. rows \in Seq(Rows)
  BY <1>1, SetListed, SeqGrows
<1>3. created' = created + Len(rows) /\ posts' = <<Clear>> \o adds \o <<Notify>>
  BY DEF ReadTaskList, ClearTaskList, UpdateItems
<1>. HIDE DEF rows
<1>4. DOMAIN rows = 1 .. Len(rows) /\ Len(rows) \in Nat
  BY <1>2
<1>5. ASSUME NEW i \in DOMAIN rows PROVE AddRow(NewTask(rows[i], created + i)) \in Runnable'
  <2>1. rows[i] \in [hwnd : Windows, hicon : Icons, title : Titles]
    BY <1>2, <1>5, TaskClientAssumption
  <2>2. created + i \in 1 .. created'
    BY <1>3, <1>4, <1>5 DEF TypeOK
  <2>3. NewTask(rows[i], created + i) \in TaskObject'
    BY <2>1, <2>2 DEF NewTask, TaskObject
  <2>. QED
    BY <2>3 DEF Runnable, AddRow
<1>6. adds \in Seq(Runnable')
  BY <1>4, <1>5
<1>. QED
  BY <1>2, <1>3, <1>6 DEF rows

\* The places of the client thread.
ThreadRec == [pc : {"readInt", "put", "walk", "setTitle", "dead"},
              cursor : Nat, stale : BOOLEAN, found : 0 .. created]

\* What the client thread reads and posts has its type.
LEMMA ReadTyped ==
    ASSUME TypeOK, StreamInv,
           ReadTaskList \/ ReadIcon \/ ReadAddTask \/ ReadRemoveTask \/ ReadUpdateTask
    PROVE  TypeOK'
<1>1. PICK type : Reads(type)
  BY DEF ReadTaskList, ReadIcon, ReadAddTask, ReadRemoveTask, ReadUpdateTask
<1>2. /\ UNCHANGED <<uiQueue, taskList, drawn, dirty, torn, iconMap>> /\ posts = <<>>
      /\ thread.pc = "readInt"
  BY <1>1 DEF Reads
<1>3. /\ read' \in Seq(Frame) /\ pending' \in Seq(Frame) /\ read' # <<>>
      /\ Last(read') = Head(pending) /\ Head(pending).type = type
      /\ Head(pending) \in ServerFrames
  BY <1>1, NextFrame
<1>4. created \in Nat /\ created' \in Nat /\ created <= created'
  <2>1. CASE ReadTaskList
    <3>1. created' = created + Len(SetToSeq(Head(pending).tasks))
          /\ Len(SetToSeq(Head(pending).tasks)) \in Nat
      BY <2>1, ListingPosts
    <3>. QED
      BY <3>1 DEF TypeOK
  <2>2. CASE ReadIcon \/ ReadAddTask \/ ReadRemoveTask \/ ReadUpdateTask
    BY <2>2 DEF TypeOK, ReadIcon, ReadAddTask, ReadRemoveTask, ReadUpdateTask
  <2>. QED
    BY <2>1, <2>2
<1>5. TaskObject \subseteq TaskObject' /\ Runnable \subseteq Runnable'
  BY <1>4, ObjectsGrow
<1>6. uiQueue' \in Seq(Runnable') /\ taskList' \in Seq(TaskObject')
  BY <1>2, <1>5, SeqGrows DEF TypeOK
<1>7. posts' \in Seq(Runnable')
  <2>1. CASE ReadTaskList
    <3>. DEFINE rows == SetToSeq(Head(pending).tasks)
                adds == [i \in DOMAIN rows |-> AddRow(NewTask(rows[i], created + i))]
    <3>1. adds \in Seq(Runnable') /\ posts' = <<Clear>> \o adds \o <<Notify>>
      BY <2>1, ListingPosts
    <3>2. Clear \in Runnable' /\ Notify \in Runnable'
      BY DEF Runnable
    <3>. HIDE DEF adds
    <3>. QED
      BY <3>1, <3>2
  <2>2. CASE ReadAddTask
    <3>1. Head(pending).type = "ADD_TASK"
      BY <2>2, NextFrame DEF ReadAddTask
    <3>2. NewTask(Head(pending), created + 1) \in TaskObject'
      BY <2>2, <1>3, <1>4, <3>1, FramesSent DEF ReadAddTask, NewTask, TaskObject
    <3>3. AddRow(NewTask(Head(pending), created + 1)) \in Runnable' /\ Notify \in Runnable'
      BY <3>2 DEF Runnable, AddRow
    <3>. QED
      BY <2>2, <3>3 DEF ReadAddTask, UpdateItems
  <2>3. CASE ReadRemoveTask
    <3>1. Head(pending).type = "REMOVE_TASK"
      BY <2>3, NextFrame DEF ReadRemoveTask
    <3>2. RemoveRow(Head(pending).hwnd) \in Runnable' /\ Notify \in Runnable'
      BY <1>3, <3>1, FramesSent DEF Runnable, RemoveRow
    <3>. QED
      BY <2>3, <3>2 DEF ReadRemoveTask, UpdateItems
  <2>4. CASE ReadIcon \/ ReadUpdateTask
    <3>1. posts' = <<>>
      BY <2>4, <1>2 DEF ReadIcon, ReadUpdateTask
    <3>. QED
      BY <3>1
  <2>. QED
    BY <2>1, <2>2, <2>3, <2>4 DEF UpdateItems
<1>8. /\ thread' \in ThreadRec'
      /\ thread'.pc = "put" => Last(read').type = "SEND_ICON"
      /\ thread'.pc \in {"walk", "setTitle"} => Last(read').type = "UPDATE_TASK"
      /\ thread'.pc = "walk" /\ ~thread'.stale => thread'.cursor <= Len(taskList')
      /\ overlapped' \in BOOLEAN
  <2>1. CASE ReadTaskList \/ ReadAddTask \/ ReadRemoveTask
    <3>1. thread' = thread /\ overlapped' = overlapped
      BY <2>1 DEF ReadTaskList, ReadAddTask, ReadRemoveTask
    <3>2. 0 .. created \subseteq 0 .. created'
      BY <1>4
    <3>3. thread' \in ThreadRec'
      BY <3>1, <3>2 DEF TypeOK, ThreadRec
    <3>. QED
      BY <1>2, <3>1, <3>3 DEF TypeOK
  <2>2. CASE ReadIcon
    <3>1. Head(pending).type = "SEND_ICON"
      BY <2>2, NextFrame DEF ReadIcon
    <3>2. /\ thread' = [pc |-> "put", cursor |-> 0, stale |-> FALSE, found |-> 0]
          /\ overlapped' = overlapped
      BY <2>2 DEF ReadIcon, Running
    <3>3. thread' \in ThreadRec'
      BY <1>4, <3>2 DEF ThreadRec
    <3>. QED
      BY <1>3, <3>1, <3>2, <3>3 DEF TypeOK
  <2>3. CASE ReadUpdateTask
    <3>1. Head(pending).type = "UPDATE_TASK"
      BY <2>3, NextFrame DEF ReadUpdateTask
    <3>2. thread' = [pc |-> "walk", cursor |-> 0, stale |-> FALSE, found |-> 0]
      BY <2>3 DEF ReadUpdateTask, Running
    <3>3. thread' \in ThreadRec'
      BY <1>4, <3>2 DEF ThreadRec
    <3>4. overlapped' \in BOOLEAN
      BY <2>3, Zenon DEF ReadUpdateTask
    <3>5. Len(taskList') \in Nat
      BY <1>6
    <3>. QED
      BY <1>3, <3>1, <3>2, <3>3, <3>4, <3>5
  <2>. QED
    BY <2>1, <2>2, <2>3
<1>. QED
  BY <1>2, <1>3, <1>4, <1>6, <1>7, <1>8 DEF TypeOK, ThreadRec

\* What a runnable leaves is a list again.
LEMMA RunTyped ==
    ASSUME NEW X, NEW list \in Seq(X), NEW r, r.op = "add" => r.task \in X
    PROVE  Run(list, r) \in Seq(X)
<1>1. CASE r.op = "add"
  BY <1>1 DEF Run
<1>2. CASE r.op = "remove"
  <2>1. RemoveTaskByHwnd(list, r.hwnd) \in Seq(X)
    BY Removed
  <2>. QED
    BY <1>2, <2>1 DEF Run
<1>3. CASE r.op \notin {"add", "remove"}
  BY <1>3 DEF Run
<1>. QED
  BY <1>1, <1>2, <1>3

\* The first element of a queue and the others.
LEMMA HeadTyped ==
    ASSUME NEW X, NEW q \in Seq(X), q # <<>>
    PROVE  Head(q) \in X /\ Tail(q) \in Seq(X)
OBVIOUS

\* The frame the client thread has read last is one the server sent.
LEMMA LastRead ==
    ASSUME TypeOK, StreamInv, read # <<>>
    PROVE  Last(read) \in ServerFrames
<1>1. read \in Seq(Frame) /\ pending \in Seq(Frame) /\ Stream \in Seq(ServerFrames)
  BY DEF TypeOK, StreamInv
<1>2. Len(read) \in DOMAIN Stream /\ Stream[Len(read)] = read[Len(read)]
  BY <1>1 DEF Stream
<1>. QED
  BY <1>1, <1>2 DEF Last

\* Between two reads the client thread keeps the types.
LEMMA ThreadTyped ==
    ASSUME TypeOK, StreamInv, PutIcon \/ WalkEnds \/ Walk \/ SetTitle \/ Post
    PROVE  TypeOK'
<1>. USE DEF Step
<1>0. /\ UNCHANGED <<channel, view, created, overlapped>> /\ TaskObject' = TaskObject
      /\ Runnable' = Runnable
  BY DEF PutIcon, WalkEnds, Walk, SetTitle, Post, TaskObject, Runnable
<1>1. <<Notify>> \in Seq(Runnable)
  BY DEF Runnable
<1>2. Running \in ThreadRec
  BY DEF Running, ThreadRec, TypeOK
<1>3. CASE PutIcon
  <2>1. iconMap' \subseteq Icons
    <3>1. Last(read).hicon \in Icons
      <4>1. Last(read) \in Frame /\ Last(read).type = "SEND_ICON"
        BY <1>3 DEF PutIcon, TypeOK, Last
      <4>. QED
        BY <4>1 DEF Frame
    <3>. QED
      BY <1>3, <3>1 DEF PutIcon, Put, TypeOK
  <2>2. thread' = Running /\ UNCHANGED <<posts, uiQueue, taskList>>
    BY <1>3 DEF PutIcon
  <2>. QED
    BY <1>0, <1>2, <2>1, <2>2 DEF TypeOK, ThreadRec, Running
<1>4. CASE WalkEnds
  <2>1. thread' = Running /\ posts' = <<Notify>> /\ UNCHANGED <<uiQueue, taskList, iconMap>>
    BY <1>4 DEF WalkEnds, UpdateItems
  <2>. QED
    BY <1>0, <1>1, <1>2, <2>1 DEF TypeOK, ThreadRec, Running
<1>5. CASE Walk
  <2>. DEFINE t == taskList[thread.cursor + 1]
  <2>1. UNCHANGED <<posts, uiQueue, taskList, iconMap>> /\ thread.pc = "walk"
    BY <1>5 DEF Walk
  <2>2. /\ thread' \in ThreadRec /\ thread'.pc \in {"dead", "setTitle", "walk"}
        /\ thread'.pc = "walk" /\ ~thread'.stale => thread'.cursor <= Len(taskList)
    <3>1. CASE thread.stale
      <4>1. thread' = [Running EXCEPT !.pc = "dead"]
        BY <1>5, <3>1 DEF Walk
      <4>. QED
        BY <4>1, <1>2 DEF ThreadRec, Running
    <3>2. CASE ~thread.stale
      <4>1. thread.cursor \in Nat /\ thread.cursor + 1 <= Len(taskList) /\ t \in TaskObject
        BY <1>5, <2>1, <3>2 DEF Walk, HasNext, TypeOK
      <4>2. CASE Matches(t)
        <5>1. thread' = [thread EXCEPT !.pc = "setTitle", !.found = t.id]
          BY <1>5, <3>2, <4>2 DEF Walk
        <5>2. t.id \in 0 .. created
          BY <4>1 DEF TaskObject, TypeOK
        <5>. QED
          BY <5>1, <5>2 DEF ThreadRec, TypeOK
      <4>3. CASE ~Matches(t)
        <5>1. thread' = [thread EXCEPT !.cursor = @ + 1] /\ thread \in ThreadRec
          BY <1>5, <3>2, <4>3 DEF Walk, NextIndex, TypeOK, ThreadRec
        <5>2. thread' \in ThreadRec /\ thread'.pc = thread.pc /\ thread'.cursor = thread.cursor + 1
          BY <4>1, <5>1 DEF ThreadRec
        <5>. QED
          BY <2>1, <4>1, <5>2
      <4>. QED
        BY <4>2, <4>3
    <3>. QED
      BY <3>1, <3>2
  <2>. QED
    BY <1>0, <2>1, <2>2 DEF TypeOK, ThreadRec
<1>6. CASE SetTitle
  <2>1. thread' = Running /\ posts' = <<Notify>> /\ UNCHANGED <<uiQueue, iconMap>>
    BY <1>6 DEF SetTitle, UpdateItems
  <2>2. thread.pc = "setTitle"
    BY <1>6 DEF SetTitle
  <2>3. Last(read).title \in Titles
    BY <2>2, LastRead, FramesSent DEF TypeOK
  <2>4. taskList' \in Seq(TaskObject)
    <3>. DEFINE new(i) == IF taskList[i].id = thread.found
                          THEN [taskList[i] EXCEPT !.title = Last(read).title] ELSE taskList[i]
    <3>1. taskList' = [i \in DOMAIN taskList |-> new(i)]
      BY <1>6 DEF SetTitle
    <3>2. ASSUME NEW i \in DOMAIN taskList PROVE new(i) \in TaskObject
      <4>1. taskList[i] \in TaskObject
        BY <3>2 DEF TypeOK
      <4>. QED
        BY <2>3, <4>1 DEF TaskObject
    <3>3. DOMAIN taskList = 1 .. Len(taskList) /\ Len(taskList) \in Nat
      BY DEF TypeOK
    <3>. HIDE DEF new
    <3>. QED
      BY <3>1, <3>2, <3>3
  <2>. QED
    BY <1>0, <1>1, <1>2, <2>1, <2>4 DEF TypeOK, ThreadRec, Running
<1>7. CASE Post
  <2>1. uiQueue' \in Seq(Runnable) /\ posts' \in Seq(Runnable)
    BY <1>7, HeadTyped DEF Post, TypeOK
  <2>. QED
    BY <1>0, <1>7, <2>1 DEF TypeOK, Post
<1>. QED
  BY <1>3, <1>4, <1>5, <1>6, <1>7

\* So does the UI thread.
LEMMA UITyped ==
    ASSUME TypeOK, UI
    PROVE  TypeOK'
<1>. USE DEF UiStep
<1>0. /\ UNCHANGED <<channel, posts, created, iconMap, overlapped>> /\ TaskObject' = TaskObject
      /\ Runnable' = Runnable
  BY DEF UI, RunRunnable, GetViews, TaskObject, Runnable
<1>1. CASE RunRunnable
  <2>1. Head(uiQueue) \in Runnable /\ uiQueue' \in Seq(Runnable)
    BY <1>1, HeadTyped DEF RunRunnable, TypeOK
  <2>2. taskList' \in Seq(TaskObject)
    <3>1. Head(uiQueue).op = "add" => Head(uiQueue).task \in TaskObject
      BY <2>1 DEF Runnable, Clear, Notify
    <3>. QED
      BY <1>1, <3>1, RunTyped DEF RunRunnable, TypeOK
  <2>3. /\ thread' \in ThreadRec /\ thread'.pc = thread.pc
        /\ thread'.pc = "walk" /\ ~thread'.stale => thread'.cursor <= Len(taskList')
    <3>1. /\ thread' = [thread EXCEPT !.stale = @ \/ (thread.pc = "walk" /\ taskList' # taskList)]
          /\ thread \in ThreadRec
      BY <1>1 DEF RunRunnable, TypeOK, ThreadRec
    <3>2. (thread.stale \/ (thread.pc = "walk" /\ taskList' # taskList)) \in BOOLEAN
      OBVIOUS
    <3>3. /\ thread' \in ThreadRec /\ thread'.pc = thread.pc /\ thread'.cursor = thread.cursor
          /\ thread'.stale = (thread.stale \/ (thread.pc = "walk" /\ taskList' # taskList))
      BY <3>1, <3>2 DEF ThreadRec
    <3>. QED
      BY <3>3 DEF TypeOK
  <2>4. dirty' = TRUE /\ UNCHANGED <<drawn, torn>>
    BY <1>1 DEF RunRunnable
  <2>. QED
    BY <1>0, <2>1, <2>2, <2>3, <2>4 DEF TypeOK, ThreadRec
<1>2. CASE GetViews
  <2>1. UNCHANGED <<thread, uiQueue, taskList>> /\ dirty' = FALSE /\ torn' \in BOOLEAN
    BY <1>2 DEF GetViews
  <2>2. PICK missed : drawn' = [i \in DOMAIN taskList |->
                        [hwnd |-> taskList[i].hwnd, title |-> taskList[i].title,
                         picture |-> taskList[i].hicon \in iconMap \ missed]]
    BY <1>2 DEF GetViews
  <2>3. \A i \in DOMAIN taskList : taskList[i].hwnd \in Windows /\ taskList[i].title \in Titles
    <3>1. \A i \in DOMAIN taskList : taskList[i] \in TaskObject
      BY DEF TypeOK
    <3>. QED
      BY <3>1 DEF TaskObject
  <2>4. DOMAIN taskList = 1 .. Len(taskList) /\ Len(taskList) \in Nat
    BY DEF TypeOK
  <2>5. drawn' \in Seq([hwnd : Windows, title : Titles, picture : BOOLEAN])
    BY <2>2, <2>3, <2>4
  <2>. QED
    BY <1>0, <2>1, <2>5 DEF TypeOK
<1>. QED
  BY <1>1, <1>2 DEF UI

\* A frame sent changes nothing else.
LEMMA SendTyped ==
    ASSUME TypeOK, NEW f \in ServerFrames, ServerSends(f)
    PROVE  TypeOK'
<1>1. /\ UNCHANGED <<read, thread, posts, uiQueue, taskList, drawn, dirty, torn, created, iconMap,
                     overlapped>>
      /\ pending' = Append(pending, f) /\ TaskObject' = TaskObject /\ Runnable' = Runnable
  BY DEF ServerSends, TaskObject, Runnable
<1>2. pending' \in Seq(Frame)
  BY <1>1, FramesSent DEF TypeOK
<1>. QED
  BY <1>1, <1>2 DEF TypeOK

\* The frames sent fit one another.
LEMMA StreamStep ==
    ASSUME TypeOK, StreamInv, Next
    PROVE  StreamInv'
<1>0. /\ read \in Seq(Frame) /\ pending \in Seq(Frame)
      /\ Stream \in Seq(ServerFrames)
      /\ \A i \in DOMAIN Stream : Fits(SubSeq(Stream, 1, i - 1), Stream[i])
  BY DEF TypeOK, StreamInv
<1>1. ASSUME NEW f \in ServerFrames, ServerSends(f) PROVE StreamInv'
  <2>1. /\ Stream' = Append(Stream, f) /\ read' = read
        /\ Fits(Stream, f)
    BY <1>0, <1>1 DEF ServerSends, Stream
  <2>. DEFINE s == Stream
              t == Stream'
  <2>3. s \in Seq(ServerFrames) /\ t = Append(s, f)
    BY <1>0, <2>1
  <2>4. \A i \in DOMAIN t : Fits(SubSeq(t, 1, i - 1), t[i])
    <3>. HIDE DEF s, t
    <3>1. /\ Len(s) \in Nat /\ DOMAIN s = 1 .. Len(s) /\ DOMAIN t = 1 .. (Len(s) + 1)
          /\ t[Len(s) + 1] = f
          /\ \A i \in 1 .. Len(s) : t[i] = s[i]
      BY <2>3
    <3>2. \A i \in 1 .. (Len(s) + 1) : SubSeq(t, 1, i - 1) = SubSeq(s, 1, i - 1)
      <4>1. \A i \in 1 .. (Len(s) + 1) : i - 1 \in Nat /\ i - 1 <= Len(s)
        BY <3>1
      <4>. QED
        BY <2>3, <3>1, <4>1
    <3>3. SubSeq(s, 1, Len(s)) = s
      BY <2>3
    <3>4. ASSUME NEW i \in DOMAIN t PROVE Fits(SubSeq(t, 1, i - 1), t[i])
      <4>1. CASE i \in DOMAIN s
        <5>1. SubSeq(t, 1, i - 1) = SubSeq(s, 1, i - 1) /\ t[i] = s[i]
          BY <3>1, <3>2, <4>1
        <5>. QED
          BY <1>0, <4>1, <5>1 DEF s
      <4>2. CASE i \notin DOMAIN s
        <5>1. i = Len(s) + 1 /\ i - 1 = Len(s)
          BY <3>1, <4>2
        <5>2. SubSeq(t, 1, i - 1) = s
          BY <3>1, <3>2, <3>3, <5>1
        <5>. QED
          BY <2>1, <3>1, <5>1, <5>2 DEF s
      <4>. QED
        BY <4>1, <4>2
    <3>. QED
      BY <3>4
  <2>5. t \in Seq(ServerFrames)
    BY <2>3
  <2>. QED
    BY <2>4, <2>5 DEF StreamInv
<1>2. ASSUME NEW type, Reads(type) PROVE StreamInv'
  <2>1. Stream' = Stream
    BY <1>2, NextFrame
  <2>. QED
    BY <2>1 DEF StreamInv
<1>3. CASE UNCHANGED <<read, pending>>
  <2>1. Stream' = Stream
    BY <1>3 DEF Stream
  <2>. QED
    BY <2>1 DEF StreamInv
<1>4. CASE ClientThread \/ UI
  <2>1. (\E type : Reads(type)) \/ UNCHANGED <<read, pending>>
    BY <1>4, Zenon DEF ClientThread, UI, ReadTaskList, ReadIcon, ReadAddTask, ReadRemoveTask,
       ReadUpdateTask, PutIcon, WalkEnds, Walk, SetTitle, Post, Step, RunRunnable, GetViews, UiStep
  <2>. QED
    BY <1>2, <1>3, <2>1
<1>. QED
  BY <1>1, <1>4 DEF Next

\* The types, and the frames, are kept by every step.
LEMMA TypedStep ==
    ASSUME TypeOK, StreamInv, [Next]_vars
    PROVE  (TypeOK /\ StreamInv)'
<1>1. CASE Next
  <2>1. TypeOK'
    BY <1>1, SendTyped, ReadTyped, ThreadTyped, UITyped DEF Next, ClientThread
  <2>. QED
    BY <1>1, <2>1, StreamStep
<1>2. CASE UNCHANGED vars
  BY <1>2 DEF vars, TypeOK, StreamInv, TaskObject, Runnable, Stream
<1>. QED
  BY <1>1, <1>2

\* A client that has just connected.
LEMMA InitTyped == Init => TypeOK /\ StreamInv
<1>. SUFFICES ASSUME Init PROVE TypeOK /\ StreamInv
  OBVIOUS
<1>1. TypeOK
  <2>1. /\ pending = <<>> /\ read = <<>> /\ posts = <<>> /\ uiQueue = <<>> /\ taskList = <<>>
        /\ thread = [pc |-> "readInt", cursor |-> 0, stale |-> FALSE, found |-> 0]
        /\ created = 0 /\ iconMap = {} /\ drawn = <<>>
        /\ dirty = FALSE /\ overlapped = FALSE /\ torn = FALSE
    BY DEF Init, Running
  <2>2. \A X : <<>> \in Seq(X)
    OBVIOUS
  <2>3. thread \in ThreadRec /\ thread.pc = "readInt"
    BY <2>1 DEF ThreadRec
  <2>. QED
    BY <2>1, <2>2, <2>3 DEF TypeOK, ThreadRec
<1>2. Stream = <<>>
  BY DEF Init, Stream
<1>. QED
  BY <1>1, <1>2 DEF StreamInv

-----------------------------------------------------------------------------
(* Pictures.                                                               *)

\* What the map holds it keeps.
LEMMA PicturesKept == TypeOK /\ Next => iconMap \subseteq iconMap'
<1>. SUFFICES ASSUME TypeOK, Next PROVE iconMap \subseteq iconMap'
  OBVIOUS
<1>1. CASE PutIcon
  BY <1>1 DEF PutIcon, Put
<1>2. CASE ~PutIcon
  BY <1>2, Zenon DEF Next, ServerSends, ClientThread, UI, ReadTaskList, ReadIcon, ReadAddTask,
     ReadRemoveTask, ReadUpdateTask, WalkEnds, Walk, SetTitle, Post, Reads, RunRunnable, GetViews,
     UiStep
<1>. QED
  BY <1>1, <1>2

\* A picture that a frame refers to is in the map when the frame is read.
LEMMA PicturesRead ==
    ASSUME TypeOK, StreamInv, PictureInv, NEW type, Reads(type), NEW h \in Icons,
           SendIcon(h) \in ToSet(read)
    PROVE  h \in iconMap
<1>1. thread.pc = "readInt"
  BY DEF Reads
<1>. QED
  BY <1>1 DEF PictureInv

\* A task is posted only after its picture was put into the map.
LEMMA PicturePosted ==
    ASSUME TypeOK, StreamInv, PictureInv, ClientThread, ~Post
    PROVE  \A i \in DOMAIN posts' : posts'[i].op = "add" => posts'[i].task.hicon \in iconMap'
<1>1. CASE ReadTaskList
  <2>. DEFINE f == Head(pending)
              rows == SetToSeq(f.tasks)
              adds == [i \in DOMAIN rows |-> AddRow(NewTask(rows[i], created + i))]
  <2>1. /\ rows \in Seq(Rows) /\ posts' = <<Clear>> \o adds \o <<Notify>>
        /\ adds \in Seq(Runnable') /\ iconMap' = iconMap
    BY <1>1, ListingPosts DEF ReadTaskList, Reads
  <2>2. f.type = "ACTIVE_TASK_LIST" /\ Fits(read, f) /\ f.tasks \subseteq Rows
        /\ IsFiniteSet(f.tasks)
    BY <1>1, NextFrame, FramesSent DEF ReadTaskList
  <2>3. \A r \in f.tasks : r.hicon \in iconMap
    <3>1. \A r \in f.tasks : SendIcon(r.hicon) \in ToSet(read) /\ r.hicon \in Icons
      BY <2>2, TaskClientAssumption DEF Fits
    <3>. QED
      BY <1>1, <3>1, PicturesRead DEF ReadTaskList
  <2>4. rows \in Seq(f.tasks)
    BY <2>2, SetListed
  <2>. HIDE DEF rows, f
  <2>5. \A i \in DOMAIN rows : adds[i].task.hicon \in iconMap
    <3>1. ASSUME NEW i \in DOMAIN rows PROVE adds[i].task.hicon \in iconMap
      <4>1. rows[i].hicon \in iconMap
        BY <2>3, <2>4, <3>1
      <4>2. adds[i].task.hicon = rows[i].hicon
        BY <3>1 DEF AddRow, NewTask
      <4>. QED
        BY <4>1, <4>2
    <3>. QED
      BY <3>1
  <2>6. DOMAIN adds = DOMAIN rows
    OBVIOUS
  <2>7. Clear.op # "add" /\ Notify.op # "add"
    BY DEF Clear, Notify
  <2>. HIDE DEF adds
  <2>8. ASSUME NEW i \in DOMAIN posts'
        PROVE  posts'[i] \in {Clear, Notify} \/ \E j \in DOMAIN adds : posts'[i] = adds[j]
    BY <2>1, <2>8
  <2>. QED
    BY <2>1, <2>5, <2>6, <2>7, <2>8
<1>2. CASE ReadAddTask
  <2>. DEFINE f == Head(pending)
  <2>1. f.type = "ADD_TASK" /\ Fits(read, f) /\ f.hicon \in Icons
    BY <1>2, NextFrame, FramesSent DEF ReadAddTask
  <2>2. f.hicon \in iconMap
    BY <1>2, <2>1, PicturesRead DEF ReadAddTask, Fits
  <2>. DEFINE a == AddRow(NewTask(f, created + 1))
  <2>3. posts' = <<a>> \o <<Notify>> /\ iconMap' = iconMap
    BY <1>2 DEF ReadAddTask, UpdateItems, Reads
  <2>4. a.task.hicon = f.hicon /\ Notify.op # "add"
    BY DEF AddRow, NewTask, Notify
  <2>. HIDE DEF a
  <2>5. ASSUME NEW i \in DOMAIN posts' PROVE posts'[i] \in {a, Notify}
    BY <2>3, <2>5
  <2>. QED
    BY <2>2, <2>3, <2>4, <2>5
<1>3. CASE ReadRemoveTask \/ WalkEnds \/ SetTitle
  <2>1. \E w : posts' = <<RemoveRow(w), Notify>> \/ posts' = <<Notify>>
    BY <1>3 DEF ReadRemoveTask, WalkEnds, SetTitle, UpdateItems
  <2>. QED
    BY <2>1 DEF RemoveRow, Notify
<1>4. CASE ReadIcon \/ ReadUpdateTask \/ PutIcon \/ Walk
  <2>1. posts' = posts
    BY <1>4 DEF ReadIcon, ReadUpdateTask, PutIcon, Walk
  <2>. QED
    BY <2>1, PicturesKept DEF PictureInv, Next
<1>. QED
  BY <1>1, <1>2, <1>3, <1>4 DEF ClientThread

\* The rows shown, and still to come, have their pictures in the map.
LEMMA PictureStep ==
    ASSUME TypeOK, StreamInv, PictureInv, Next
    PROVE  PictureInv'
<1>0. iconMap \subseteq iconMap'
  BY PicturesKept
<1>. DEFINE Pictured(q) == \A i \in DOMAIN q : q[i].op = "add" => q[i].task.hicon \in iconMap
<1>1. \A h \in Icons : (SendIcon(h) \in ToSet(read) =>
          h \in iconMap \/ (thread.pc = "put" /\ Last(read) = SendIcon(h)))'
  <2>. SUFFICES ASSUME NEW h \in Icons, SendIcon(h) \in ToSet(read')
                PROVE  h \in iconMap' \/ (thread'.pc = "put" /\ Last(read') = SendIcon(h))
    BY Zenon
  <2>1. CASE \E type : Reads(type)
    <3>1. PICK type : Reads(type)
      BY <2>1
    <3>2. /\ ToSet(read') = ToSet(read) \cup {Head(pending)} /\ Last(read') = Head(pending)
          /\ Head(pending).type = type
      BY <3>1, NextFrame
    <3>3. CASE SendIcon(h) \in ToSet(read)
      BY <1>0, <3>1, <3>3, PicturesRead
    <3>4. CASE SendIcon(h) = Head(pending)
      <4>1. type = "SEND_ICON"
        BY <3>2, <3>4 DEF SendIcon
      <4>2. ReadIcon
        BY <3>1, <4>1, <2>1 DEF Next, ServerSends, ClientThread, UI, ReadTaskList, ReadAddTask,
           ReadRemoveTask, ReadUpdateTask, Reads, PutIcon, WalkEnds, Walk, SetTitle, Post, Step,
           RunRunnable, GetViews, UiStep
      <4>3. thread'.pc = "put"
        BY <4>2 DEF ReadIcon, Running
      <4>. QED
        BY <3>2, <3>4, <4>3
    <3>. QED
      BY <3>2, <3>3, <3>4
  <2>2. CASE read' = read
    <3>1. h \in iconMap \/ (thread.pc = "put" /\ Last(read) = SendIcon(h))
      BY <2>2 DEF PictureInv
    <3>2. CASE PutIcon
      <4>1. SendIcon(h).hicon = h
        BY DEF SendIcon
      <4>. QED
        BY <1>0, <3>1, <3>2, <4>1 DEF PutIcon, Put
    <3>3. CASE ~PutIcon /\ thread.pc = "put"
      <4>1. thread'.pc = thread.pc
        <5>1. CASE RunRunnable
          BY <5>1 DEF RunRunnable, TypeOK
        <5>2. CASE ~RunRunnable
          BY <3>3, <5>2 DEF Next, ServerSends, ClientThread, UI, ReadTaskList, ReadIcon,
             ReadAddTask, ReadRemoveTask, ReadUpdateTask, Reads, WalkEnds, Walk, SetTitle, Post,
             Step, GetViews
        <5>. QED
          BY <5>1, <5>2
      <4>. QED
        BY <1>0, <2>2, <3>1, <3>3, <4>1
    <3>. QED
      BY <1>0, <3>1, <3>2, <3>3
  <2>3. (\E type : Reads(type)) \/ read' = read
    BY Zenon DEF Next, ServerSends, ClientThread, UI, ReadTaskList, ReadIcon, ReadAddTask,
       ReadRemoveTask, ReadUpdateTask, PutIcon, WalkEnds, Walk, SetTitle, Post, Step, RunRunnable,
       GetViews, UiStep
  <2>. QED
    BY <2>1, <2>2, <2>3
<1>2. Pictured(posts)' /\ Pictured(uiQueue)'
  <2>0. Pictured(posts) /\ Pictured(uiQueue) /\ posts \in Seq(Runnable) /\ uiQueue \in Seq(Runnable)
    BY DEF PictureInv, TypeOK
  <2>1. CASE Post
    <3>1. /\ posts # <<>> /\ posts' = Tail(posts) /\ uiQueue' = Append(uiQueue, Head(posts))
          /\ iconMap' = iconMap
      BY <2>1 DEF Post
    <3>. QED
      BY <2>0, <3>1
  <2>2. CASE RunRunnable
    <3>1. /\ uiQueue # <<>> /\ uiQueue' = Tail(uiQueue) /\ posts' = posts /\ iconMap' = iconMap
      BY <2>2 DEF RunRunnable, UiStep
    <3>. QED
      BY <2>0, <3>1
  <2>3. CASE ClientThread /\ ~Post
    <3>1. Pictured(posts)'
      BY <2>3, PicturePosted
    <3>2. uiQueue' = uiQueue
      BY <2>3 DEF ClientThread, ReadTaskList, ReadIcon, ReadAddTask, ReadRemoveTask,
         ReadUpdateTask, Reads, PutIcon, WalkEnds, Walk, SetTitle, Step
    <3>. QED
      BY <1>0, <2>0, <3>1, <3>2
  <2>4. CASE GetViews \/ \E f \in ServerFrames : ServerSends(f)
    <3>1. UNCHANGED <<posts, uiQueue>>
      BY <2>4 DEF GetViews, UiStep, ServerSends
    <3>. QED
      BY <1>0, <2>0, <3>1
  <2>. QED
    BY <2>1, <2>2, <2>3, <2>4 DEF Next, UI
<1>3. \A i \in DOMAIN taskList' : taskList'[i].hicon \in iconMap'
  <2>0. (\A i \in DOMAIN taskList : taskList[i].hicon \in iconMap) /\ taskList \in Seq(TaskObject)
    BY DEF PictureInv, TypeOK
  <2>1. CASE RunRunnable
    <3>. DEFINE Kept == {t \in TaskObject : t.hicon \in iconMap}
                r == Head(uiQueue)
    <3>1. taskList \in Seq(Kept)
      BY <2>0
    <3>2. r \in Runnable /\ (r.op = "add" => r.task.hicon \in iconMap)
      BY <2>1 DEF RunRunnable, PictureInv, TypeOK
    <3>3. r.op = "add" => r.task \in Kept
      BY <3>2 DEF Runnable, Clear, Notify
    <3>. HIDE DEF Kept, r
    <3>4. Run(taskList, r) \in Seq(Kept)
      BY <3>1, <3>3, RunTyped
    <3>5. taskList' = Run(taskList, r)
      BY <2>1 DEF RunRunnable, r
    <3>6. \A i \in DOMAIN taskList' : taskList'[i] \in Kept
      BY <3>4, <3>5
    <3>. QED
      BY <1>0, <3>6 DEF Kept
  <2>2. CASE SetTitle
    <3>1. taskList' = [i \in DOMAIN taskList |->
                      IF taskList[i].id = thread.found
                      THEN [taskList[i] EXCEPT !.title = Last(read).title] ELSE taskList[i]]
      BY <2>2 DEF SetTitle
    <3>2. ASSUME NEW i \in DOMAIN taskList' PROVE taskList'[i].hicon = taskList[i].hicon
      BY <3>1, <3>2, <2>0 DEF TaskObject
    <3>. QED
      BY <1>0, <2>0, <3>1, <3>2
  <2>3. CASE ~RunRunnable /\ ~SetTitle
    <3>1. taskList' = taskList
      BY <2>3, Zenon DEF Next, ServerSends, ClientThread, UI, ReadTaskList, ReadIcon, ReadAddTask,
         ReadRemoveTask, ReadUpdateTask, Reads, PutIcon, WalkEnds, Walk, Post, Step, GetViews
    <3>. QED
      BY <1>0, <2>0, <3>1
  <2>. QED
    BY <2>1, <2>2, <2>3
<1>. QED
  BY <1>1, <1>2, <1>3 DEF PictureInv

\* A row is drawn without its picture only during a put.
LEMMA DrawnStep ==
    ASSUME TypeOK, PictureInv, PicturesDrawn, [Next]_vars
    PROVE  PicturesDrawn'
<1>1. CASE GetViews
  <2>. SUFFICES ASSUME ~torn', NEW i \in DOMAIN drawn' PROVE drawn'[i].picture
    BY DEF PicturesDrawn
  <2>1. PICK missed \in (IF torn' THEN SUBSET iconMap ELSE {{}}) :
          drawn' = [j \in DOMAIN taskList |->
                     [hwnd |-> taskList[j].hwnd, title |-> taskList[j].title,
                      picture |-> taskList[j].hicon \in iconMap \ missed]]
    BY <1>1 DEF GetViews
  <2>2. missed = {}
    BY <2>1
  <2>3. i \in DOMAIN taskList /\ drawn'[i].picture = (taskList[i].hicon \in iconMap \ missed)
    BY <2>1
  <2>. QED
    BY <2>2, <2>3 DEF PictureInv
<1>2. CASE ~GetViews
  <2>1. UNCHANGED <<drawn, torn>>
    BY <1>2, Zenon DEF Next, vars, ServerSends, ClientThread, UI, ReadTaskList, ReadIcon,
       ReadAddTask, ReadRemoveTask, ReadUpdateTask, Reads, PutIcon, WalkEnds, Walk, SetTitle, Post,
       Step, RunRunnable
  <2>. QED
    BY <2>1 DEF PicturesDrawn
<1>. QED
  BY <1>1, <1>2

-----------------------------------------------------------------------------
(* Running the runnables under way.                                        *)

Ran == INSTANCE ViewProofs WITH Op <- Run

\* Any Task objects and runnables, however many of them there are so far.
AnyTask == [id : Nat, hwnd : Windows, hicon : Icons, title : Titles]

AnyRunnable == [op : {"add"}, task : AnyTask] \cup [op : {"remove"}, hwnd : Windows]
               \cup {Clear, Notify}

\* The queues and the list are among those that the lemmas on folds speak of.
LEMMA AnyTyped ==
    /\ TypeOK  => taskList \in Seq(AnyTask) /\ uiQueue \in Seq(AnyRunnable)
                  /\ posts \in Seq(AnyRunnable)
    /\ TypeOK' => taskList' \in Seq(AnyTask) /\ uiQueue' \in Seq(AnyRunnable)
                  /\ posts' \in Seq(AnyRunnable)
<1>1. \A n \in Nat : 1 .. n \subseteq Nat
  OBVIOUS
<1>2. TypeOK => TaskObject \subseteq AnyTask /\ Runnable \subseteq AnyRunnable
  BY <1>1 DEF TypeOK, TaskObject, Runnable, AnyTask, AnyRunnable
<1>3. TypeOK' => TaskObject' \subseteq AnyTask /\ Runnable' \subseteq AnyRunnable
  BY <1>1 DEF TypeOK, TaskObject, Runnable, AnyTask, AnyRunnable
<1>. QED
  BY <1>2, <1>3, SeqGrows DEF TypeOK

\* Running them one after the other is folding.
LEMMA SettlingIsFold ==
    Settling = Ran!Fold(taskList, Coming) /\ Settling' = Ran!Fold(taskList', Coming')
<1>1. \A list, s : FoldLeft(Run, list, s) = Ran!Fold(list, s)
  BY Zenon DEF FoldLeft, Ran!FoldLeft, MapThenFoldSet, Ran!MapThenFoldSet, Max, Ran!Max, Ran!Fold
<1>. QED
  BY <1>1, Zenon DEF Settling, Coming

\* One runnable, and the first one of several.
LEMMA FoldOne == \A list, r : Ran!Fold(list, <<r>>) = Run(list, r)
<1>. TAKE list, r
<1>1. <<>> \in Seq({r}) /\ r \in {r} /\ Append(<<>>, r) = <<r>>
  OBVIOUS
<1>2. Ran!Fold(list, Append(<<>>, r)) = Run(Ran!Fold(list, <<>>), r)
  BY NullAssumption, <1>1, Ran!FoldAppend
<1>3. Ran!Fold(list, <<>>) = list
  BY NullAssumption, Ran!FoldEmpty
<1>. QED
  BY <1>1, <1>2, <1>3, Zenon

\* Running the runnables of two queues is running those of one, then the
\* other's.
LEMMA FoldBoth ==
    \A s, t \in Seq(AnyRunnable) : \A list :
        Ran!Fold(list, s \o t) = Ran!Fold(Ran!Fold(list, s), t)
<1>. SUFFICES ASSUME NEW s \in Seq(AnyRunnable), NEW t \in Seq(AnyRunnable), NEW list
              PROVE  Ran!Fold(list, s \o t) = Ran!Fold(Ran!Fold(list, s), t)
  OBVIOUS
<1>1. \A u \in Seq(AnyRunnable) : Ran!Fold(list, s \o u) = Ran!Fold(Ran!Fold(list, s), u)
  BY NullAssumption, Ran!FoldConcat
<1>. QED
  BY <1>1

\* Running the first runnable leaves the others to be run on what it gives.
LEMMA FoldFirst ==
    ASSUME NEW q \in Seq(AnyRunnable), q # <<>>, NEW list
    PROVE  Ran!Fold(list, q) = Ran!Fold(Run(list, Head(q)), Tail(q))
<1>. DEFINE h == <<Head(q)>>
            t == Tail(q)
<1>1. h \in Seq(AnyRunnable) /\ t \in Seq(AnyRunnable) /\ q = h \o t
  OBVIOUS
<1>2. Ran!Fold(list, h) = Run(list, Head(q))
  BY FoldOne
<1>. HIDE DEF h, t
<1>3. Ran!Fold(list, q) = Ran!Fold(Ran!Fold(list, h), t)
  BY <1>1, FoldBoth, Zenon
<1>. QED
  BY <1>2, <1>3, Zenon DEF t

\* A runnable does the same to two lists alike.
LEMMA RunAlike ==
    ASSUME NEW a \in Seq(AnyTask), NEW b \in Seq(AnyTask), NEW r \in AnyRunnable, NEW titles,
           Alike(a, b, titles)
    PROVE  /\ Run(a, r) \in Seq(AnyTask) /\ Run(b, r) \in Seq(AnyTask)
           /\ Alike(Run(a, r), Run(b, r), titles)
<1>1. r.op = "add" => r.task \in AnyTask
  BY DEF AnyRunnable, Clear, Notify
<1>2. Run(a, r) \in Seq(AnyTask) /\ Run(b, r) \in Seq(AnyTask)
  BY <1>1, RunTyped
<1>3. CASE r.op = "add"
  <2>1. Run(a, r) = Append(a, r.task) /\ Run(b, r) = Append(b, r.task)
    BY <1>3 DEF Run
  <2>. QED
    BY <1>1, <1>2, <1>3, <2>1, AppendAlike
<1>4. CASE r.op = "remove"
  <2>1. Run(a, r) = RemoveTaskByHwnd(a, r.hwnd) /\ Run(b, r) = RemoveTaskByHwnd(b, r.hwnd)
    BY <1>4 DEF Run
  <2>. QED
    BY <1>2, <2>1, RemoveAlike
<1>5. CASE r.op = "clear"
  BY <1>5 DEF Run, Alike
<1>6. CASE r.op \notin {"add", "remove", "clear"}
  BY <1>6 DEF Run
<1>. QED
  BY <1>2, <1>3, <1>4, <1>5, <1>6

\* So do any number of them.
LEMMA FoldAlike ==
    ASSUME NEW a \in Seq(AnyTask), NEW b \in Seq(AnyTask), NEW q \in Seq(AnyRunnable), NEW titles,
           Alike(a, b, titles)
    PROVE  /\ Ran!Fold(a, q) \in Seq(AnyTask) /\ Ran!Fold(b, q) \in Seq(AnyTask)
           /\ Alike(Ran!Fold(a, q), Ran!Fold(b, q), titles)
<1>. DEFINE R == {p \in Seq(AnyTask) \X Seq(AnyTask) : Alike(p[1], p[2], titles)}
<1>1. \A p \in R, r \in AnyRunnable : <<Run(p[1], r), Run(p[2], r)>> \in R
  BY RunAlike
<1>2. <<a, b>> \in R
  OBVIOUS
<1>3. ASSUME NEW c, NEW d, <<c, d>> \in R
      PROVE  c \in Seq(AnyTask) /\ d \in Seq(AnyTask) /\ Alike(c, d, titles)
  BY <1>3
<1>. HIDE DEF R
<1>4. <<Ran!Fold(a, q), Ran!Fold(b, q)>> \in R
  BY NullAssumption, <1>1, <1>2, Ran!FoldRelated
<1>. QED
  BY <1>3, <1>4

\* What is under way leaves a list of Task objects.
LEMMA FoldTyped ==
    ASSUME NEW list \in Seq(AnyTask), NEW q \in Seq(AnyRunnable)
    PROVE  Ran!Fold(list, q) \in Seq(AnyTask)
<1>1. Alike(list, list, TRUE)
  BY DEF Alike
<1>. QED
  BY <1>1, FoldAlike

\* Adding the tasks of a sequence to an empty list makes that list.
LEMMA FoldAdds ==
    ASSUME NEW tasks \in Seq(AnyTask)
    PROVE  LET adds == [i \in DOMAIN tasks |-> AddRow(tasks[i])] IN
           adds \in Seq(AnyRunnable) /\ Ran!Fold(<<>>, adds) = tasks
<1>. DEFINE Adds(s) == [i \in DOMAIN s |-> AddRow(s[i])]
            E == {n \in Nat : \A s \in Seq(AnyTask) : Len(s) = n => Ran!Fold(<<>>, Adds(s)) = s}
<1>0. \A t \in AnyTask : AddRow(t) \in AnyRunnable /\ \A list : Run(list, AddRow(t)) = Append(list, t)
  BY DEF AnyRunnable, AddRow, Run
<1>1. \A s \in Seq(AnyTask) : Adds(s) \in Seq(AnyRunnable) /\ Len(Adds(s)) = Len(s)
  <2>. TAKE s \in Seq(AnyTask)
  <2>1. DOMAIN s = 1 .. Len(s) /\ Len(s) \in Nat /\ \A i \in DOMAIN s : AddRow(s[i]) \in AnyRunnable
    BY <1>0
  <2>. QED
    BY <2>1
<1>2. 0 \in E
  <2>1. \A s \in Seq(AnyTask) : Len(s) = 0 => s = <<>> /\ Adds(s) = <<>>
    BY <1>1
  <2>2. Ran!Fold(<<>>, <<>>) = <<>>
    BY NullAssumption, Ran!FoldEmpty
  <2>. HIDE DEF Adds
  <2>. QED
    BY <2>1, <2>2
<1>3. ASSUME NEW n \in Nat, n \in E PROVE n + 1 \in E
  <2>1. ASSUME NEW s \in Seq(AnyTask), Len(s) = n + 1 PROVE Ran!Fold(<<>>, Adds(s)) = s
    <3>. DEFINE front == SubSeq(s, 1, n)
                t == s[n + 1]
    <3>1. front \in Seq(AnyTask) /\ Len(front) = n /\ t \in AnyTask /\ s = Append(front, t)
      BY <2>1
    <3>2. Adds(s) = Append(Adds(front), AddRow(t))
      <4>1. /\ DOMAIN front = 1 .. n /\ \A i \in 1 .. n : front[i] = s[i]
            /\ DOMAIN s = 1 .. (n + 1)
        BY <2>1, <3>1
      <4>. DEFINE c == Adds(s)
                  d == Adds(front)
      <4>2. /\ c \in Seq(AnyRunnable) /\ d \in Seq(AnyRunnable) /\ Len(c) = n + 1 /\ Len(d) = n
        BY <1>1, <2>1, <3>1
      <4>3. c[n + 1] = AddRow(t) /\ \A i \in 1 .. n : c[i] = d[i]
        BY <4>1
      <4>4. AddRow(t) \in AnyRunnable
        BY <1>0, <3>1
      <4>. HIDE DEF c, d, t
      <4>5. c = Append(d, AddRow(t))
        BY <4>2, <4>3, <4>4
      <4>. QED
        BY <4>5 DEF c, d
    <3>3. Ran!Fold(<<>>, Adds(front)) = front /\ Adds(front) \in Seq(AnyRunnable)
      BY <1>1, <1>3, <3>1
    <3>. HIDE DEF front, t, Adds
    <3>4. Ran!Fold(<<>>, Append(Adds(front), AddRow(t))) = Run(front, AddRow(t))
      BY NullAssumption, <1>0, <3>1, <3>3, Ran!FoldAppend
    <3>. QED
      BY <1>0, <3>1, <3>2, <3>4
  <2>. QED
    BY <2>1
<1>. HIDE DEF E
<1>4. \A n \in Nat : n \in E
  BY <1>2, <1>3, Induction
<1>. QED
  BY <1>1, <1>4 DEF E

-----------------------------------------------------------------------------
(* The list.                                                               *)

\* Lists alike have the same windows, and the same titles.
LEMMA AlikeHwnds ==
    ASSUME NEW X, NEW Y, NEW a \in Seq(X), NEW b \in Seq(Y)
    PROVE  /\ Alike(a, b, FALSE) <=> Hwnds(a) = Hwnds(b)
           /\ Alike(a, b, TRUE) <=> Shown(a) = Shown(b)
           /\ Alike(a, b, TRUE) => Alike(a, b, FALSE)
<1>. DEFINE Pair(list, i) == [hwnd |-> list[i].hwnd, title |-> list[i].title]
<1>0. /\ DOMAIN a = 1 .. Len(a) /\ DOMAIN b = 1 .. Len(b) /\ Len(a) \in Nat /\ Len(b) \in Nat
      /\ DOMAIN a = DOMAIN b <=> Len(a) = Len(b)
  OBVIOUS
<1>1. Alike(a, b, FALSE) <=> Hwnds(a) = Hwnds(b)
  <2>1. Hwnds(a) = Hwnds(b) <=> DOMAIN a = DOMAIN b /\ \A i \in DOMAIN a : a[i].hwnd = b[i].hwnd
    BY DEF Hwnds
  <2>. QED
    BY <1>0, <2>1 DEF Alike
<1>2. Alike(a, b, TRUE) <=> Shown(a) = Shown(b)
  <2>1. Shown(a) = Shown(b) <=> DOMAIN a = DOMAIN b /\ \A i \in DOMAIN a : Pair(a, i) = Pair(b, i)
    BY DEF Shown
  <2>2. \A i : Pair(a, i) = Pair(b, i) <=> a[i].hwnd = b[i].hwnd /\ a[i].title = b[i].title
    OBVIOUS
  <2>. QED
    BY <1>0, <2>1, <2>2 DEF Alike
<1>. QED
  BY <1>1, <1>2 DEF Alike

\* The frames the server may send make lists of rows.
LEMMA ReplayTyped == \A s \in Seq(ServerFrames) : Replay(s) \in Seq(Row)
<1>. DEFINE R == Seq(Row) \X Seq(Row)
<1>1. \A p \in R, f \in ServerFrames : <<Apply(p[1], f), Apply(p[2], f)>> \in R
  <2>1. \A list \in Seq(Row), f \in ServerFrames : Apply(list, f) \in Seq(Row)
    BY FramesSent, ApplyTyped
  <2>. QED
    BY <2>1
<1>2. <<<<>>, <<>>>> \in R
  <2>1. <<>> \in Seq(Row)
    OBVIOUS
  <2>. QED
    BY <2>1, Zenon
<1>3. \A a, b : <<a, b>> \in R => a \in Seq(Row)
  OBVIOUS
<1>. HIDE DEF R
<1>4. \A s \in Seq(ServerFrames) : <<Played!Fold(<<>>, s), Played!Fold(<<>>, s)>> \in R
  BY NullAssumption, <1>1, <1>2, Played!FoldRelated
<1>. QED
  BY <1>3, <1>4, ReplayIsFold

\* So does a first part of them.
LEMMA PartTyped ==
    ASSUME NEW r \in Seq(Frame), NEW p \in Seq(Frame), r \o p \in Seq(ServerFrames)
    PROVE  /\ Replay(r) \in Seq(Row)
           /\ r # <<>> => Front(r) \in Seq(Frame) /\ Replay(Front(r)) \in Seq(Row)
<1>1. \A i \in 1 .. Len(r) : (r \o p)[i] = r[i] /\ i \in DOMAIN (r \o p)
  OBVIOUS
<1>2. \A i \in 1 .. Len(r) : r[i] \in ServerFrames
  BY <1>1
<1>3. r \in Seq(ServerFrames)
  BY <1>2
<1>4. r # <<>> => Front(r) \in Seq(ServerFrames) /\ Front(r) \in Seq(Frame)
  BY <1>3 DEF Front
<1>. QED
  BY <1>3, <1>4, ReplayTyped

\* The list that the frames read stand for, and the one before the last of them.
LEMMA ReadingTyped ==
    /\ TypeOK /\ StreamInv =>
          /\ Reading \in Seq(Row)
          /\ read # <<>> => Front(read) \in Seq(Frame) /\ Replay(Front(read)) \in Seq(Row)
    /\ TypeOK' /\ StreamInv' => Reading' \in Seq(Row)
<1>1. ASSUME TypeOK, StreamInv
      PROVE  /\ Reading \in Seq(Row)
             /\ read # <<>> => Front(read) \in Seq(Frame) /\ Replay(Front(read)) \in Seq(Row)
  <2>1. read \in Seq(Frame) /\ pending \in Seq(Frame) /\ read \o pending \in Seq(ServerFrames)
    BY <1>1 DEF TypeOK, StreamInv, Stream
  <2>. QED
    BY <2>1, PartTyped DEF Reading
<1>2. ASSUME TypeOK', StreamInv' PROVE Reading' \in Seq(Row)
  <2>1. read' \in Seq(Frame) /\ pending' \in Seq(Frame) /\ read' \o pending' \in Seq(ServerFrames)
    BY <1>2 DEF TypeOK, StreamInv, Stream
  <2>2. Replay(read') \in Seq(Row)
    BY <2>1, PartTyped
  <2>. QED
    BY <2>2 DEF Reading
<1>. QED
  BY <1>1, <1>2

\* Of the frames read and of the list to come, the client knows the windows and,
\* unless it is at an update, the titles.
Follows(titles) == Alike(Settling, Reading, titles)

\* Reading a frame, what is posted for it makes the list that the frame makes.
LEMMA ReadFollows ==
    ASSUME TypeOK, StreamInv, TypeOK', NEW titles, Follows(titles),
           ReadTaskList \/ ReadIcon \/ ReadAddTask \/ ReadRemoveTask
    PROVE  Follows(titles)'
<1>. DEFINE f == Head(pending)
<1>0. PICK type : Reads(type)
  BY DEF ReadTaskList, ReadIcon, ReadAddTask, ReadRemoveTask
<1>1. /\ f \in Frame /\ f \in ServerFrames /\ f.type = type /\ Reading \in Seq(Row)
      /\ Fits(read, f)
  BY <1>0, NextFrame, FramesSent, ReadingTyped
<1>2. Reading' = Apply(Reading, f) /\ Reading' \in Seq(Row)
  <2>1. read \in Seq(Frame) /\ read' = Append(read, f)
    BY <1>0, NextFrame
  <2>2. Reading' = Apply(Reading, f)
    BY <1>1, <2>1, ReplayOneMore DEF Reading
  <2>. QED
    BY <1>1, <2>2, FramesSent, ApplyTyped
<1>3. Settling \in Seq(AnyTask) /\ Settling = Ran!Fold(taskList, uiQueue)
  <2>1. Coming = uiQueue
    BY <1>0 DEF Reads, Coming, TypeOK
  <2>. QED
    BY <2>1, AnyTyped, FoldTyped, SettlingIsFold
<1>4. Settling' = Ran!Fold(Settling, posts')
  <2>1. Settling' = Ran!Fold(taskList', uiQueue' \o posts')
    BY SettlingIsFold DEF Coming
  <2>2. taskList' = taskList /\ uiQueue' = uiQueue
    BY <1>0 DEF Reads
  <2>. QED
    BY NullAssumption, <1>3, <2>1, <2>2, AnyTyped, Ran!FoldConcat
<1>5. Alike(Settling, Reading, titles)
  BY DEF Follows
<1>6. CASE ReadTaskList
  <2>. DEFINE rows == SetToSeq(f.tasks)
              tasks == [i \in DOMAIN rows |-> NewTask(rows[i], created + i)]
              adds == [i \in DOMAIN tasks |-> AddRow(tasks[i])]
  <2>1. rows \in Seq(Rows) /\ posts' = <<Clear>> \o adds \o <<Notify>>
    BY <1>6, ListingPosts
  <2>2. Reading' = rows
    BY <1>1, <1>2, <1>6, NextFrame DEF ReadTaskList, Apply, RowsListed
  <2>3. tasks \in Seq(AnyTask)
    <3>. HIDE DEF rows
    <3>0. rows \in Seq(Rows)
      BY <2>1
    <3>1. DOMAIN rows = 1 .. Len(rows) /\ Len(rows) \in Nat /\ created \in Nat
      BY <3>0 DEF TypeOK
    <3>2. ASSUME NEW i \in DOMAIN rows PROVE NewTask(rows[i], created + i) \in AnyTask
      <4>1. rows[i] \in [hwnd : Windows, hicon : Icons, title : Titles] /\ created + i \in Nat
        BY <2>1, <3>1, <3>2, TaskClientAssumption
      <4>. QED
        BY <4>1 DEF NewTask, AnyTask
    <3>. QED
      BY <3>1, <3>2
  <2>. HIDE DEF rows
  <2>4. Alike(tasks, rows, titles)
    <3>1. DOMAIN tasks = DOMAIN rows /\ DOMAIN rows = 1 .. Len(rows) /\ Len(tasks) = Len(rows)
      BY <2>1, <2>3
    <3>2. \A i \in DOMAIN rows : tasks[i].hwnd = rows[i].hwnd /\ tasks[i].title = rows[i].title
      BY DEF NewTask
    <3>. QED
      BY <3>1, <3>2 DEF Alike
  <2>. HIDE DEF tasks
  <2>5. adds \in Seq(AnyRunnable) /\ Ran!Fold(<<>>, adds) = tasks
    BY <2>3, FoldAdds
  <2>. HIDE DEF adds
  <2>6. Ran!Fold(Settling, posts') = tasks
    <3>. DEFINE c == <<Clear>>
                n == <<Notify>>
                front == c \o adds
    <3>1. /\ c \in Seq(AnyRunnable) /\ n \in Seq(AnyRunnable) /\ front \in Seq(AnyRunnable)
          /\ posts' = front \o n /\ front = c \o adds
      BY <2>1, <2>5 DEF AnyRunnable
    <3>2. Ran!Fold(Settling, c) = <<>> /\ \A list : Ran!Fold(list, n) = list
      BY FoldOne DEF Run, Clear, Notify
    <3>. HIDE DEF c, n, front
    <3>3. Ran!Fold(Settling, posts') = Ran!Fold(Ran!Fold(Settling, front), n)
      BY <3>1, FoldBoth, Zenon
    <3>4. Ran!Fold(Settling, front) = Ran!Fold(Ran!Fold(Settling, c), adds)
      BY <2>5, <3>1, FoldBoth, Zenon
    <3>. QED
      BY <2>5, <3>2, <3>3, <3>4, Zenon
  <2>. QED
    BY <1>4, <2>2, <2>4, <2>6, Zenon DEF Follows
<1>7. CASE ReadAddTask
  <2>. DEFINE t == NewTask(f, created + 1)
              a == AddRow(t)
  <2>1. f.type = "ADD_TASK" /\ posts' = <<a>> \o <<Notify>>
    BY <1>7, NextFrame DEF ReadAddTask, UpdateItems
  <2>2. Reading' = Append(Reading, Task(f.hwnd, f.hicon, f.title))
        /\ Task(f.hwnd, f.hicon, f.title) \in Row
    BY <1>1, <1>2, <2>1, FramesSent DEF Apply, Task, Row, Title
  <2>3. t \in AnyTask /\ a \in AnyRunnable
    <3>1. created + 1 \in Nat
      BY DEF TypeOK
    <3>2. t \in AnyTask
      BY <1>1, <2>1, <3>1, FramesSent DEF NewTask, AnyTask
    <3>. QED
      BY <3>2 DEF AddRow, AnyRunnable
  <2>4. Ran!Fold(Settling, posts') = Append(Settling, t)
    <3>. DEFINE m == <<a>>
                n == <<Notify>>
    <3>1. m \in Seq(AnyRunnable) /\ n \in Seq(AnyRunnable) /\ posts' = m \o n
      BY <2>1, <2>3 DEF AnyRunnable
    <3>2. Run(Settling, a) = Append(Settling, t) /\ \A list : Ran!Fold(list, n) = list
      BY FoldOne DEF Run, AddRow, Notify
    <3>3. Ran!Fold(Settling, m) = Run(Settling, a)
      BY FoldOne
    <3>. HIDE DEF m, n, a, t
    <3>4. Ran!Fold(Settling, posts') = Ran!Fold(Ran!Fold(Settling, m), n)
      BY <3>1, FoldBoth, Zenon
    <3>. QED
      BY <3>2, <3>3, <3>4, Zenon
  <2>5. /\ t.hwnd = Task(f.hwnd, f.hicon, f.title).hwnd
        /\ t.title = Task(f.hwnd, f.hicon, f.title).title
    BY DEF NewTask, Task
  <2>. HIDE DEF t, a, f
  <2>6. Alike(Append(Settling, t), Append(Reading, Task(f.hwnd, f.hicon, f.title)), titles)
    BY <1>1, <1>3, <1>5, <2>2, <2>3, <2>5, AppendAlike
  <2>. QED
    BY <1>4, <2>2, <2>4, <2>6, Zenon DEF Follows
<1>8. CASE ReadRemoveTask
  <2>. DEFINE r == RemoveRow(f.hwnd)
  <2>1. f.type = "REMOVE_TASK" /\ posts' = <<r>> \o <<Notify>>
    BY <1>8, NextFrame DEF ReadRemoveTask, UpdateItems
  <2>2. Reading' = RemoveTaskByHwnd(Reading, f.hwnd)
    BY <1>2, <2>1 DEF Apply
  <2>3. r \in AnyRunnable
    BY <1>1, <2>1, FramesSent DEF RemoveRow, AnyRunnable
  <2>4. Ran!Fold(Settling, posts') = RemoveTaskByHwnd(Settling, f.hwnd)
    <3>. DEFINE m == <<r>>
                n == <<Notify>>
    <3>1. m \in Seq(AnyRunnable) /\ n \in Seq(AnyRunnable) /\ posts' = m \o n
      BY <2>1, <2>3 DEF AnyRunnable
    <3>2. Run(Settling, r) = RemoveTaskByHwnd(Settling, f.hwnd) /\ \A list : Ran!Fold(list, n) = list
      BY FoldOne DEF Run, RemoveRow, Notify
    <3>3. Ran!Fold(Settling, m) = Run(Settling, r)
      BY FoldOne
    <3>. HIDE DEF m, n, r
    <3>4. Ran!Fold(Settling, posts') = Ran!Fold(Ran!Fold(Settling, m), n)
      BY <3>1, FoldBoth, Zenon
    <3>. QED
      BY <3>2, <3>3, <3>4, Zenon
  <2>. HIDE DEF f
  <2>5. Alike(RemoveTaskByHwnd(Settling, f.hwnd), RemoveTaskByHwnd(Reading, f.hwnd), titles)
    BY <1>1, <1>3, <1>5, RemoveAlike
  <2>. QED
    BY <1>4, <2>2, <2>4, <2>5, Zenon DEF Follows
<1>9. CASE ReadIcon
  <2>1. f.type = "SEND_ICON" /\ posts' = <<>>
    BY <1>0, <1>9, NextFrame DEF ReadIcon, Reads
  <2>2. Reading' = Reading
    BY <1>2, <2>1 DEF Apply
  <2>3. Settling' = Settling
    BY NullAssumption, <1>4, <2>1, Ran!FoldEmpty
  <2>. QED
    BY <1>5, <2>2, <2>3, Zenon DEF Follows
<1>. QED
  BY <1>6, <1>7, <1>8, <1>9

\* What the client thread has posted already is on its way all the same.
LEMMA PostSettles ==
    ASSUME TypeOK, TypeOK', Post
    PROVE  Settling' = Settling
<1>1. /\ posts \in Seq(AnyRunnable) /\ uiQueue \in Seq(AnyRunnable) /\ posts # <<>>
      /\ posts' = Tail(posts) /\ uiQueue' = Append(uiQueue, Head(posts)) /\ taskList' = taskList
  BY AnyTyped DEF Post
<1>2. Coming' = Coming
  BY <1>1 DEF Coming
<1>. QED
  BY <1>1, <1>2, SettlingIsFold

\* What has been run is no longer on its way.
LEMMA RunSettles ==
    ASSUME TypeOK, TypeOK', RunRunnable
    PROVE  Settling' = Settling
<1>1. /\ posts \in Seq(AnyRunnable) /\ uiQueue \in Seq(AnyRunnable) /\ uiQueue # <<>>
      /\ posts' = posts /\ uiQueue' = Tail(uiQueue) /\ taskList' = Run(taskList, Head(uiQueue))
  BY AnyTyped DEF RunRunnable, UiStep
<1>2. /\ Coming \in Seq(AnyRunnable) /\ Coming # <<>> /\ Head(Coming) = Head(uiQueue)
      /\ Tail(Coming) = Coming'
  BY <1>1 DEF Coming
<1>. HIDE DEF Coming
<1>3. Ran!Fold(taskList, Coming) = Ran!Fold(Run(taskList, Head(Coming)), Tail(Coming))
  BY <1>2, FoldFirst
<1>. QED
  BY <1>1, <1>2, <1>3, SettlingIsFold, Zenon

\* A notification is on its way as well, which changes no list.
LEMMA NotifySettles ==
    ASSUME TypeOK, TypeOK', posts = <<>>, posts' = UpdateItems, uiQueue' = uiQueue
    PROVE  /\ Settling = Ran!Fold(taskList, uiQueue) /\ Settling' = Ran!Fold(taskList', uiQueue)
           /\ taskList \in Seq(AnyTask) /\ taskList' \in Seq(AnyTask)
           /\ uiQueue \in Seq(AnyRunnable)
<1>. DEFINE n == <<Notify>>
<1>1. uiQueue \in Seq(AnyRunnable) /\ taskList \in Seq(AnyTask) /\ taskList' \in Seq(AnyTask)
  BY AnyTyped
<1>2. Coming = uiQueue /\ Coming' = uiQueue \o n /\ n \in Seq(AnyRunnable)
  BY <1>1 DEF Coming, UpdateItems, AnyRunnable
<1>3. \A list : Ran!Fold(list, n) = list
  BY FoldOne DEF Run, Notify
<1>. HIDE DEF n
<1>4. Settling' = Ran!Fold(Ran!Fold(taskList', uiQueue), n)
  BY <1>1, <1>2, FoldBoth, SettlingIsFold, Zenon
<1>. QED
  BY <1>1, <1>2, <1>3, <1>4, SettlingIsFold, Zenon

\* Every step but a read and SetTitle leaves what is under way, and what the
\* frames read stand for, as it was.
LEMMA Undisturbed ==
    ASSUME TypeOK, TypeOK', PostingInv,
           \/ \E f \in ServerFrames : ServerSends(f)
           \/ PutIcon \/ WalkEnds \/ Walk \/ Post \/ UI \/ UNCHANGED vars
    PROVE  Settling' = Settling /\ Reading' = Reading
<1>1. Reading' = Reading
  <2>1. read' = read
    BY DEF ServerSends, PutIcon, WalkEnds, Walk, Post, UI, RunRunnable, GetViews, UiStep, Step, vars
  <2>. QED
    BY <2>1 DEF Reading
<1>2. CASE WalkEnds
  <2>1. posts = <<>> /\ posts' = UpdateItems /\ UNCHANGED <<uiQueue, taskList>>
    BY <1>2 DEF WalkEnds, Step, PostingInv
  <2>. QED
    BY <1>1, <2>1, NotifySettles
<1>3. CASE Post
  BY <1>1, <1>3, PostSettles
<1>4. CASE RunRunnable
  BY <1>1, <1>4, RunSettles
<1>5. CASE \/ \E f \in ServerFrames : ServerSends(f)
           \/ PutIcon \/ Walk \/ GetViews \/ UNCHANGED vars
  <2>1. UNCHANGED <<taskList, uiQueue, posts>>
    BY <1>5 DEF ServerSends, PutIcon, Walk, GetViews, UiStep, Step, vars
  <2>. QED
    BY <1>1, <2>1 DEF Settling
<1>. QED
  BY <1>2, <1>3, <1>4, <1>5 DEF UI

\* A title set changes no window of the list to come.
LEMMA SetTitleFollows ==
    ASSUME TypeOK, TypeOK', PostingInv, Follows(FALSE), Reading \in Seq(Row), SetTitle
    PROVE  Follows(FALSE)'
<1>1. /\ posts = <<>> /\ posts' = UpdateItems /\ UNCHANGED <<uiQueue, read>>
      /\ taskList' = [i \in DOMAIN taskList |->
                      IF taskList[i].id = thread.found
                      THEN [taskList[i] EXCEPT !.title = Last(read).title] ELSE taskList[i]]
  BY DEF SetTitle, Step, PostingInv
<1>2. /\ Settling = Ran!Fold(taskList, uiQueue) /\ Settling' = Ran!Fold(taskList', uiQueue)
      /\ taskList \in Seq(AnyTask) /\ taskList' \in Seq(AnyTask) /\ uiQueue \in Seq(AnyRunnable)
  BY <1>1, NotifySettles
<1>3. Alike(taskList', taskList, FALSE)
  <2>1. DOMAIN taskList = 1 .. Len(taskList) /\ \A i \in DOMAIN taskList : taskList[i] \in AnyTask
    BY <1>2
  <2>2. Len(taskList') = Len(taskList)
    BY <1>1, <1>2
  <2>3. \A i \in DOMAIN taskList : taskList'[i].hwnd = taskList[i].hwnd
    BY <1>1, <2>1 DEF AnyTask
  <2>. QED
    BY <2>1, <2>2, <2>3 DEF Alike
<1>4. Alike(Settling', Settling, FALSE)
  BY <1>2, <1>3, FoldAlike
<1>5. Reading' = Reading
  BY <1>1 DEF Reading
<1>. QED
  BY <1>4, <1>5 DEF Follows, Alike

\* Nor does the frame that asks for it.
LEMMA UpdateFollows ==
    ASSUME TypeOK, StreamInv, Follows(FALSE), ReadUpdateTask
    PROVE  /\ Follows(FALSE)' /\ Settling' = Settling
           /\ Reading' = SetTitleByHwnd(Reading, Head(pending).hwnd, Head(pending).title)
<1>. DEFINE f == Head(pending)
<1>1. /\ f \in Frame /\ f.type = "UPDATE_TASK" /\ Reading \in Seq(Row)
      /\ read \in Seq(Frame) /\ read' = Append(read, f)
  BY NextFrame, FramesSent, ReadingTyped DEF ReadUpdateTask
<1>2. Reading' = SetTitleByHwnd(Reading, f.hwnd, f.title)
  BY <1>1, ReplayOneMore DEF Reading, Apply
<1>3. Settling' = Settling
  BY DEF ReadUpdateTask, Reads, Settling
<1>. HIDE DEF f
<1>4. Alike(Settling, SetTitleByHwnd(Reading, f.hwnd, f.title), FALSE)
  BY <1>1, RetitleKeepsWindows DEF Follows
<1>. QED
  BY <1>2, <1>3, <1>4, Zenon DEF Follows, f

\* Whatever happens, the windows of the list to come are those of the frames read.
LEMMA ListStep ==
    ASSUME TypeOK, StreamInv, TypeOK', PostingInv, Follows(FALSE), [Next]_vars
    PROVE  Follows(FALSE)'
<1>1. CASE ReadTaskList \/ ReadIcon \/ ReadAddTask \/ ReadRemoveTask
  BY <1>1, ReadFollows
<1>2. CASE ReadUpdateTask
  BY <1>2, UpdateFollows
<1>3. CASE SetTitle
  BY <1>3, SetTitleFollows, ReadingTyped
<1>4. CASE \/ \E f \in ServerFrames : ServerSends(f)
           \/ PutIcon \/ WalkEnds \/ Walk \/ Post \/ UI \/ UNCHANGED vars
  <2>1. Settling' = Settling /\ Reading' = Reading
    BY <1>4, Undisturbed
  <2>. QED
    BY <2>1 DEF Follows
<1>. QED
  BY <1>1, <1>2, <1>3, <1>4 DEF Next, ClientThread

\* The client thread posts before it does anything else.
LEMMA PostingStep ==
    ASSUME TypeOK, PostingInv, [Next]_vars
    PROVE  PostingInv'
<1>1. CASE ReadTaskList \/ ReadAddTask \/ ReadRemoveTask \/ ReadIcon \/ ReadUpdateTask
  <2>1. posts' = <<>> \/ thread'.pc = "readInt"
    BY <1>1 DEF ReadTaskList, ReadAddTask, ReadRemoveTask, ReadIcon, ReadUpdateTask, Reads
  <2>. QED
    BY <2>1 DEF PostingInv
<1>2. CASE PutIcon \/ WalkEnds \/ SetTitle
  BY <1>2 DEF PutIcon, WalkEnds, SetTitle, Running, PostingInv
<1>3. CASE Walk
  BY <1>3 DEF Walk, Step, PostingInv
<1>4. CASE Post
  BY <1>4 DEF Post, PostingInv
<1>5. CASE RunRunnable
  <2>1. thread'.pc = thread.pc /\ posts' = posts
    BY <1>5 DEF RunRunnable, UiStep, TypeOK
  <2>. QED
    BY <2>1 DEF PostingInv
<1>6. CASE GetViews \/ UNCHANGED vars \/ \E f \in ServerFrames : ServerSends(f)
  BY <1>6 DEF GetViews, UiStep, vars, ServerSends, PostingInv
<1>. QED
  BY <1>1, <1>2, <1>3, <1>4, <1>5, <1>6 DEF Next, ClientThread, UI

-----------------------------------------------------------------------------
(* The Task objects.                                                       *)

\* A queue adds each object once, and none with an identity up to n.
AddsOnce(q, n) ==
    /\ \A i, j \in DOMAIN q :
          q[i].op = "add" /\ q[j].op = "add" /\ q[i].task.id = q[j].task.id => i = j
    /\ \A i \in DOMAIN q : q[i].op = "add" => q[i].task.id > n

\* What is posted for a frame adds new objects only.
LEMMA PostedAddsOnce ==
    ASSUME TypeOK, StreamInv,
           ReadTaskList \/ ReadIcon \/ ReadAddTask \/ ReadRemoveTask \/ ReadUpdateTask
           \/ WalkEnds \/ SetTitle
    PROVE  posts' # <<>> => AddsOnce(posts', created)
<1>0. created \in Nat
  BY DEF TypeOK
<1>1. CASE ReadTaskList
  <2>. DEFINE rows == SetToSeq(Head(pending).tasks)
              adds == [i \in DOMAIN rows |-> AddRow(NewTask(rows[i], created + i))]
              m == Len(rows)
  <2>1. rows \in Seq(Rows) /\ posts' = <<Clear>> \o adds \o <<Notify>> /\ adds \in Seq(Runnable')
    BY <1>1, ListingPosts
  <2>2. m \in Nat /\ DOMAIN rows = 1 .. m /\ Len(adds) = m
    BY <2>1
  <2>. HIDE DEF rows
  <2>3. \A i \in 1 .. m : adds[i].task.id = created + i
    BY <2>2 DEF AddRow, NewTask
  <2>4. Clear.op # "add" /\ Notify.op # "add"
    BY DEF Clear, Notify
  <2>. HIDE DEF adds, m
  <2>5. /\ Len(posts') = m + 2
        /\ posts'[1] = Clear /\ posts'[m + 2] = Notify
        /\ \A i \in 2 .. m + 1 : posts'[i] = adds[i - 1]
    BY <2>1, <2>2
  <2>6. DOMAIN posts' = 1 .. m + 2
    BY <2>1, <2>2
  <2>7. \A i \in DOMAIN posts' : posts'[i].op = "add" => posts'[i].task.id = created + (i - 1)
                                                          /\ i \in 2 .. m + 1
    <3>1. \A i \in 1 .. m + 2 : i = 1 \/ i = m + 2 \/ i \in 2 .. m + 1
      BY <2>2
    <3>2. \A i \in 2 .. m + 1 : i - 1 \in 1 .. m
      BY <2>2
    <3>. QED
      BY <2>3, <2>4, <2>5, <2>6, <3>1, <3>2
  <2>. QED
    BY <1>0, <2>2, <2>7, <2>6 DEF AddsOnce
<1>2. CASE ReadAddTask
  <2>. DEFINE a == AddRow(NewTask(Head(pending), created + 1))
              p == posts'
  <2>1. p = <<a>> \o <<Notify>>
    BY <1>2 DEF ReadAddTask, UpdateItems
  <2>2. a.task.id = created + 1 /\ Notify.op # "add"
    BY DEF AddRow, NewTask, Notify
  <2>. HIDE DEF a, p
  <2>3. DOMAIN p = {1, 2} /\ p[1] = a /\ p[2] = Notify
    BY <2>1
  <2>4. AddsOnce(p, created)
    BY <1>0, <2>2, <2>3 DEF AddsOnce
  <2>. QED
    BY <2>4 DEF p
<1>3. CASE ReadRemoveTask \/ WalkEnds \/ SetTitle
  <2>. DEFINE p == posts'
  <2>1. \E w : p = <<RemoveRow(w)>> \o <<Notify>> \/ p = <<Notify>>
    BY <1>3 DEF ReadRemoveTask, WalkEnds, SetTitle, UpdateItems
  <2>2. \A i \in DOMAIN p : p[i].op # "add"
    BY <2>1 DEF RemoveRow, Notify
  <2>. HIDE DEF p
  <2>3. AddsOnce(p, created)
    BY <2>2 DEF AddsOnce
  <2>. QED
    BY <2>3 DEF p
<1>4. CASE ReadIcon \/ ReadUpdateTask
  BY <1>4 DEF ReadIcon, ReadUpdateTask, Reads
<1>. QED
  BY <1>1, <1>2, <1>3, <1>4

\* The identities so far.
LEMMA SmallIds ==
    ASSUME TypeOK
    PROVE  /\ created \in Nat
           /\ \A i \in DOMAIN taskList : taskList[i].id \in 1 .. created
           /\ Coming \in Seq(Runnable)
           /\ \A i \in DOMAIN Coming : Coming[i].op = "add" => Coming[i].task.id \in 1 .. created
<1>1. Coming \in Seq(Runnable)
  BY DEF Coming, TypeOK
<1>2. \A i \in DOMAIN Coming : Coming[i] \in Runnable
  BY <1>1
<1>3. \A r \in Runnable : r.op = "add" => r.task \in TaskObject
  BY DEF Runnable, Clear, Notify
<1>4. \A i \in DOMAIN taskList : taskList[i] \in TaskObject
  BY DEF TypeOK
<1>5. \A t \in TaskObject : t.id \in 1 .. created
  BY DEF TaskObject
<1>. QED
  BY <1>1, <1>2, <1>3, <1>4, <1>5 DEF TypeOK

\* New objects are none of the old ones.
LEMMA PostedObjects ==
    ASSUME TypeOK, ObjectInv, NEW p, AddsOnce(p, created), NEW X, p \in Seq(X),
           posts = <<>>, uiQueue' = uiQueue, posts' = p,
           Len(taskList') = Len(taskList), taskList' \in Seq(AnyTask),
           \A i \in DOMAIN taskList' : taskList'[i].id = taskList[i].id
    PROVE  ObjectInv'
<1>. DEFINE q == uiQueue
            c == Coming'
<1>1. /\ created \in Nat /\ Coming = q /\ q \in Seq(Runnable)
      /\ \A i \in DOMAIN taskList : taskList[i].id \in 1 .. created
      /\ \A i \in DOMAIN q : q[i].op = "add" => q[i].task.id \in 1 .. created
  <2>1. Coming = q
    BY DEF Coming, TypeOK
  <2>. QED
    BY <2>1, SmallIds, Zenon
<1>2. c = q \o p
  BY DEF Coming
<1>3. DOMAIN taskList' = DOMAIN taskList
  BY DEF TypeOK
<1>. HIDE DEF q, c
<1>4. /\ Len(q) \in Nat /\ Len(p) \in Nat /\ DOMAIN q = 1 .. Len(q) /\ DOMAIN p = 1 .. Len(p)
      /\ DOMAIN c = 1 .. (Len(q) + Len(p))
      /\ \A i \in DOMAIN c : (i \in DOMAIN q /\ c[i] = q[i])
                             \/ (i - Len(q) \in DOMAIN p /\ c[i] = p[i - Len(q)])
  <2>1. c \in Seq(X \cup Runnable) /\ Len(c) = Len(q) + Len(p)
    BY <1>1, <1>2
  <2>. QED
    BY <1>1, <1>2, <2>1
<1>5. /\ \A i, j \in DOMAIN q :
            q[i].op = "add" /\ q[j].op = "add" /\ q[i].task.id = q[j].task.id => i = j
      /\ \A i \in DOMAIN taskList, j \in DOMAIN q : q[j].op = "add" => taskList[i].id # q[j].task.id
      /\ \A i, j \in DOMAIN taskList : taskList[i].id = taskList[j].id => i = j
  BY <1>1 DEF ObjectInv
<1>6. /\ \A i, j \in DOMAIN p :
            p[i].op = "add" /\ p[j].op = "add" /\ p[i].task.id = p[j].task.id => i = j
      /\ \A i \in DOMAIN p : p[i].op = "add" => p[i].task.id > created
  BY DEF AddsOnce
<1>7. \A i, j \in DOMAIN c :
         c[i].op = "add" /\ c[j].op = "add" /\ c[i].task.id = c[j].task.id => i = j
  <2>. SUFFICES ASSUME NEW i \in DOMAIN c, NEW j \in DOMAIN c, c[i].op = "add", c[j].op = "add",
                       c[i].task.id = c[j].task.id
                PROVE  i = j
    OBVIOUS
  <2>1. CASE i \in DOMAIN q /\ c[i] = q[i] /\ j \in DOMAIN q /\ c[j] = q[j]
    BY <1>5, <2>1
  <2>2. CASE /\ i - Len(q) \in DOMAIN p /\ c[i] = p[i - Len(q)]
             /\ j - Len(q) \in DOMAIN p /\ c[j] = p[j - Len(q)]
    <3>1. i - Len(q) = j - Len(q)
      BY <1>6, <2>2
    <3>. QED
      BY <1>4, <3>1
  <2>3. CASE i \in DOMAIN q /\ c[i] = q[i] /\ j - Len(q) \in DOMAIN p /\ c[j] = p[j - Len(q)]
    BY <1>1, <1>6, <2>3
  <2>4. CASE j \in DOMAIN q /\ c[j] = q[j] /\ i - Len(q) \in DOMAIN p /\ c[i] = p[i - Len(q)]
    BY <1>1, <1>6, <2>4
  <2>. QED
    BY <1>4, <2>1, <2>2, <2>3, <2>4
<1>8. \A i \in DOMAIN taskList, j \in DOMAIN c : c[j].op = "add" => taskList[i].id # c[j].task.id
  BY <1>1, <1>4, <1>5, <1>6
<1>. QED
  BY <1>3, <1>5, <1>7, <1>8 DEF ObjectInv, c

\* Running a runnable takes an object from the queue to the list, or away.
LEMMA RunObjects ==
    ASSUME TypeOK, ObjectInv, RunRunnable
    PROVE  ObjectInv'
<1>. DEFINE c == Coming
            d == Coming'
            r == Head(uiQueue)
<1>1. /\ c \in Seq(Runnable) /\ d \in Seq(Runnable) /\ Len(c) = Len(d) + 1
      /\ c[1] = r /\ \A i \in DOMAIN d : d[i] = c[i + 1]
  <2>1. /\ uiQueue \in Seq(Runnable) /\ posts \in Seq(Runnable) /\ uiQueue # <<>>
        /\ uiQueue' = Tail(uiQueue) /\ posts' = posts
    BY DEF RunRunnable, UiStep, TypeOK
  <2>. QED
    BY <2>1 DEF Coming
<1>2. taskList \in Seq(TaskObject) /\ taskList' = Run(taskList, r)
  BY DEF RunRunnable, TypeOK
<1>3. /\ \A i, j \in DOMAIN c :
            c[i].op = "add" /\ c[j].op = "add" /\ c[i].task.id = c[j].task.id => i = j
      /\ \A i \in DOMAIN taskList, j \in DOMAIN c : c[j].op = "add" => taskList[i].id # c[j].task.id
      /\ \A i, j \in DOMAIN taskList : taskList[i].id = taskList[j].id => i = j
  BY DEF ObjectInv
<1>4. r \in Runnable
  BY <1>1
<1>. HIDE DEF c, d, r
<1>5. /\ Len(d) \in Nat /\ DOMAIN d = 1 .. Len(d) /\ DOMAIN c = 1 .. (Len(d) + 1)
      /\ 1 \in DOMAIN c /\ \A i \in DOMAIN d : i + 1 \in DOMAIN c /\ i + 1 # 1
  BY <1>1
<1>6. \A i, j \in DOMAIN d : d[i].op = "add" /\ d[j].op = "add" /\ d[i].task.id = d[j].task.id
                                => i = j
  <2>1. \A i, j \in DOMAIN d : i + 1 = j + 1 => i = j
    BY <1>5
  <2>. QED
    BY <1>1, <1>3, <1>5, <2>1
<1>7. \A i \in DOMAIN d : r.op = "add" /\ d[i].op = "add" => d[i].task.id # r.task.id
  BY <1>1, <1>3, <1>5
<1>8. \A i \in DOMAIN taskList : r.op = "add" => taskList[i].id # r.task.id
  BY <1>1, <1>3, <1>5
<1>9. \A i \in DOMAIN taskList, j \in DOMAIN d : d[j].op = "add" => taskList[i].id # d[j].task.id
  BY <1>1, <1>3, <1>5
<1>. DEFINE Distinct(list) ==
              /\ \A i, j \in DOMAIN list : list[i].id = list[j].id => i = j
              /\ \A i \in DOMAIN list, j \in DOMAIN d : d[j].op = "add" => list[i].id # d[j].task.id
<1>10. ASSUME r.op = "add" PROVE Distinct(taskList')
  <2>. DEFINE t == r.task
              n == Len(taskList)
              more == Append(taskList, t)
  <2>1. taskList' = more
    BY <1>2, <1>10 DEF Run
  <2>2. /\ n \in Nat /\ DOMAIN taskList = 1 .. n /\ DOMAIN more = 1 .. (n + 1)
        /\ \A i \in DOMAIN more : IF i = n + 1 THEN more[i] = t
                                  ELSE i \in DOMAIN taskList /\ more[i] = taskList[i]
    BY <1>2
  <2>. HIDE DEF more, n, t
  <2>3. \A i \in DOMAIN taskList : taskList[i].id # t.id
    BY <1>8, <1>10 DEF t
  <2>4. \A i \in DOMAIN d : d[i].op = "add" => d[i].task.id # t.id
    BY <1>7, <1>10 DEF t
  <2>5. \A i, j \in DOMAIN more : more[i].id = more[j].id => i = j
    <3>. SUFFICES ASSUME NEW i \in DOMAIN more, NEW j \in DOMAIN more, more[i].id = more[j].id
                  PROVE  i = j
      OBVIOUS
    <3>. QED
      BY <1>3, <2>2, <2>3
  <2>. QED
    BY <1>9, <2>1, <2>2, <2>4, <2>5
<1>11. ASSUME r.op = "remove" PROVE Distinct(taskList')
  <2>. DEFINE rest == RemoveTaskByHwnd(taskList, r.hwnd)
              k == Min(Places(taskList, r.hwnd))
              at(i) == IF i < k THEN i ELSE i + 1
  <2>1. taskList' = rest
    BY <1>2, <1>11 DEF Run
  <2>2. \/ rest = taskList
        \/ /\ k \in Places(taskList, r.hwnd) /\ rest \in Seq(TaskObject)
           /\ Len(rest) = Len(taskList) - 1 /\ \A i \in 1 .. Len(rest) : rest[i] = taskList[at(i)]
    BY <1>2, RemovedAt, Zenon
  <2>3. CASE rest = taskList
    BY <1>3, <1>9, <2>1, <2>3
  <2>4. ASSUME k \in Places(taskList, r.hwnd), rest \in Seq(TaskObject),
               Len(rest) = Len(taskList) - 1, \A i \in 1 .. Len(rest) : rest[i] = taskList[at(i)]
        PROVE  Distinct(taskList')
    <3>. HIDE DEF k, rest
    <3>1. k \in Nat /\ Len(taskList) \in Nat /\ DOMAIN taskList = 1 .. Len(taskList)
          /\ DOMAIN rest = 1 .. Len(rest)
      BY <1>2, <2>4 DEF Places
    <3>2. /\ \A i \in DOMAIN rest : at(i) \in DOMAIN taskList /\ rest[i] = taskList[at(i)]
          /\ \A i, j \in DOMAIN rest : at(i) = at(j) => i = j
      BY <2>4, <3>1
    <3>. HIDE DEF at
    <3>. QED
      BY <1>3, <1>9, <2>1, <3>2
  <2>. QED
    BY <2>2, <2>3, <2>4
<1>12. ASSUME r.op = "clear" PROVE Distinct(taskList')
  <2>1. taskList' = <<>>
    BY <1>2, <1>12 DEF Run
  <2>. QED
    BY <2>1
<1>13. ASSUME r.op \notin {"add", "remove", "clear"} PROVE Distinct(taskList')
  <2>1. taskList' = taskList
    BY <1>2, <1>13 DEF Run
  <2>. QED
    BY <1>3, <1>9, <2>1
<1>14. Distinct(taskList')
  BY <1>10, <1>11, <1>12, <1>13
<1>. QED
  BY <1>6, <1>14 DEF ObjectInv, d

\* Objects stay apart.
LEMMA ObjectStep ==
    ASSUME TypeOK, StreamInv, TypeOK', PostingInv, ObjectInv, [Next]_vars
    PROVE  ObjectInv'
<1>1. CASE ReadTaskList \/ ReadIcon \/ ReadAddTask \/ ReadRemoveTask \/ ReadUpdateTask
  <2>1. posts = <<>> /\ UNCHANGED <<uiQueue, taskList>>
    BY <1>1 DEF ReadTaskList, ReadIcon, ReadAddTask, ReadRemoveTask, ReadUpdateTask, Reads
  <2>2. CASE posts' = <<>>
    BY <2>1, <2>2 DEF ObjectInv, Coming
  <2>3. CASE posts' # <<>>
    <3>1. AddsOnce(posts', created)
      BY <1>1, <2>3, PostedAddsOnce
    <3>2. posts' \in Seq(AnyRunnable) /\ taskList' \in Seq(AnyTask)
      BY AnyTyped
    <3>. QED
      BY <2>1, <3>1, <3>2, PostedObjects
  <2>. QED
    BY <2>2, <2>3
<1>2. CASE WalkEnds \/ SetTitle
  <2>1. posts = <<>> /\ posts' = <<Notify>> /\ uiQueue' = uiQueue
    BY <1>2 DEF WalkEnds, SetTitle, Step, UpdateItems, PostingInv
  <2>2. AddsOnce(posts', created)
    <3>1. posts' # <<>>
      BY <2>1
    <3>. QED
      BY <1>2, <3>1, PostedAddsOnce
  <2>3. posts' \in Seq(AnyRunnable) /\ taskList' \in Seq(AnyTask) /\ taskList \in Seq(AnyTask)
    BY AnyTyped
  <2>4. Len(taskList') = Len(taskList) /\ \A i \in DOMAIN taskList' : taskList'[i].id = taskList[i].id
    <3>1. CASE WalkEnds
      BY <3>1 DEF WalkEnds
    <3>2. CASE SetTitle
      <4>1. taskList' = [i \in DOMAIN taskList |->
                      IF taskList[i].id = thread.found
                      THEN [taskList[i] EXCEPT !.title = Last(read).title] ELSE taskList[i]]
        BY <3>2 DEF SetTitle
      <4>2. \A i \in DOMAIN taskList : taskList[i] \in AnyTask
        BY <2>3
      <4>3. \A i \in DOMAIN taskList' : taskList'[i].id = taskList[i].id
        BY <4>1, <4>2 DEF AnyTask
      <4>4. Len(taskList') = Len(taskList)
        BY <2>3, <4>1
      <4>. QED
        BY <4>3, <4>4
    <3>. QED
      BY <1>2, <3>1, <3>2
  <2>. QED
    BY <2>1, <2>2, <2>3, <2>4, PostedObjects
<1>3. CASE Post
  <2>1. /\ posts \in Seq(AnyRunnable) /\ uiQueue \in Seq(AnyRunnable) /\ posts # <<>>
        /\ posts' = Tail(posts) /\ uiQueue' = Append(uiQueue, Head(posts)) /\ taskList' = taskList
    BY <1>3, AnyTyped DEF Post
  <2>2. Coming' = Coming
    BY <2>1 DEF Coming
  <2>. QED
    BY <2>1, <2>2 DEF ObjectInv
<1>4. CASE RunRunnable
  BY <1>4, RunObjects
<1>5. CASE \/ \E f \in ServerFrames : ServerSends(f)
           \/ PutIcon \/ Walk \/ GetViews \/ UNCHANGED vars
  <2>1. UNCHANGED <<taskList, uiQueue, posts>>
    BY <1>5 DEF ServerSends, PutIcon, Walk, GetViews, UiStep, Step, vars
  <2>. QED
    BY <2>1 DEF ObjectInv, Coming
<1>. QED
  BY <1>1, <1>2, <1>3, <1>4, <1>5 DEF Next, ClientThread, UI

-----------------------------------------------------------------------------
(* The titles.                                                             *)

\* While it is at an update, the client thread has applied the frames before it.
LEMMA UpdateRead ==
    ASSUME TypeOK, StreamInv, Updating
    PROVE  /\ Replay(Front(read)) \in Seq(Row)
           /\ Last(read).type = "UPDATE_TASK"
           /\ Last(read).hwnd \in Windows /\ Last(read).title \in Titles
           /\ Reading = SetTitleByHwnd(Replay(Front(read)), Last(read).hwnd, Last(read).title)
<1>1. read \in Seq(Frame) /\ read # <<>> /\ Last(read).type = "UPDATE_TASK"
  BY DEF TypeOK, Updating
<1>2. Last(read) \in ServerFrames
  BY <1>1, LastRead
<1>3. Front(read) \in Seq(Frame) /\ Replay(Front(read)) \in Seq(Row)
  BY <1>1, ReadingTyped
<1>4. read = Append(Front(read), Last(read))
  BY <1>1 DEF Front, Last
<1>5. Reading = Apply(Replay(Front(read)), Last(read))
  BY <1>2, <1>3, <1>4, FramesSent, ReplayOneMore DEF Reading
<1>. QED
  BY <1>1, <1>2, <1>3, <1>5, FramesSent DEF Apply

\* The list that the client knows is that of the frames, titles included.
LEMMA TitlesAlike ==
    ASSUME TypeOK, StreamInv
    PROVE  /\ Settling \in Seq(AnyTask)
           /\ Follows(TRUE) <=> Shown(Settling) = Shown(Reading)
           /\ Follows(FALSE) <=> Hwnds(Settling) = Hwnds(Reading)
<1>1. Coming \in Seq(AnyRunnable) /\ taskList \in Seq(AnyTask)
  BY AnyTyped DEF Coming
<1>2. Settling \in Seq(AnyTask)
  BY <1>1, FoldTyped, SettlingIsFold
<1>. QED
  BY <1>2, ReadingTyped, AlikeHwnds DEF Follows

\* The same after a step.
LEMMA PrimedAlike ==
    ASSUME TypeOK', StreamInv'
    PROVE  /\ Follows(TRUE)' <=> Shown(Settling') = Shown(Reading')
           /\ Follows(FALSE)' <=> Hwnds(Settling') = Hwnds(Reading')
<1>1. Coming' \in Seq(AnyRunnable) /\ taskList' \in Seq(AnyTask)
  BY AnyTyped DEF Coming
<1>2. Settling' \in Seq(AnyTask)
  BY <1>1, FoldTyped, SettlingIsFold
<1>3. Reading' \in Seq(Row)
  BY ReadingTyped
<1>. QED
  BY <1>2, <1>3, AlikeHwnds DEF Follows

\* The rows drawn carry the titles of the list when nothing is going on.
LEMMA DrawnTitles ==
    ASSUME TypeOK, DrawnInv, [Next]_vars
    PROVE  DrawnInv'
<1>1. CASE GetViews
  <2>1. PICK missed \in (IF torn' THEN SUBSET iconMap ELSE {{}}) :
          drawn' = [j \in DOMAIN taskList |->
                     [hwnd |-> taskList[j].hwnd, title |-> taskList[j].title,
                      picture |-> taskList[j].hicon \in iconMap \ missed]]
    BY <1>1 DEF GetViews
  <2>2. taskList' = taskList
    BY <1>1 DEF GetViews
  <2>3. Shown(drawn') = Shown(taskList')
    BY <2>1, <2>2 DEF Shown
  <2>. QED
    BY <2>3 DEF DrawnInv, Shown
<1>2. CASE RunRunnable
  BY <1>2 DEF RunRunnable, DrawnInv
<1>3. CASE Post
  <2>1. uiQueue \in Seq(Runnable) /\ uiQueue' = Append(uiQueue, Head(posts))
    BY <1>3 DEF Post, TypeOK
  <2>2. uiQueue' # <<>>
    BY <2>1
  <2>. QED
    BY <2>2 DEF DrawnInv
<1>4. CASE WalkEnds \/ SetTitle
  <2>1. posts' = <<Notify>>
    BY <1>4 DEF WalkEnds, SetTitle, UpdateItems
  <2>. QED
    BY <2>1 DEF DrawnInv
<1>5. CASE \/ ReadTaskList \/ ReadIcon \/ ReadAddTask \/ ReadRemoveTask \/ ReadUpdateTask
           \/ PutIcon \/ Walk \/ UNCHANGED vars \/ \E f \in ServerFrames : ServerSends(f)
  <2>1. /\ UNCHANGED <<drawn, dirty, taskList, uiQueue>>
        /\ posts' = <<>> => posts = <<>>
    BY <1>5 DEF ReadTaskList, ReadIcon, ReadAddTask, ReadRemoveTask, ReadUpdateTask, Reads,
       PutIcon, Walk, Step, ServerSends, vars
  <2>. QED
    BY <2>1 DEF DrawnInv, Shown
<1>. QED
  BY <1>1, <1>2, <1>3, <1>4, <1>5 DEF Next, ClientThread, UI

\* A walk that finds no task leaves the list that the update leaves.
LEMMA NoneFound ==
    ASSUME TypeOK, TypeOK', StreamInv, PostingInv, TitleInv, ~overlapped, WalkEnds
    PROVE  Follows(TRUE)'
<1>. DEFINE old == Replay(Front(read))
            w == Last(read).hwnd
<1>0. /\ posts = <<>> /\ posts' = UpdateItems /\ UNCHANGED <<uiQueue, taskList, read>>
      /\ thread.pc = "walk" /\ thread.cursor = Len(taskList)
  BY DEF WalkEnds, Step, HasNext, PostingInv
<1>1. /\ uiQueue = <<>> /\ Shown(taskList) = Shown(old)
      /\ \A i \in 1 .. (thread.cursor + 1) - 1 : taskList[i].hwnd # w
  BY <1>0 DEF TitleInv, Updating, NoneBefore
<1>2. /\ old \in Seq(Row) /\ Reading = SetTitleByHwnd(old, w, Last(read).title)
  BY <1>0, UpdateRead DEF Updating
<1>3. /\ taskList \in Seq(AnyTask) /\ Settling' = Ran!Fold(taskList', uiQueue)
  BY <1>0, AnyTyped, NotifySettles
<1>4. Settling' = taskList
  BY NullAssumption, <1>0, <1>1, <1>3, Ran!FoldEmpty
<1>. HIDE DEF old
<1>5. Alike(taskList, old, TRUE)
  BY <1>1, <1>2, <1>3, AlikeHwnds
<1>6. Places(taskList, w) = {}
  <2>1. (thread.cursor + 1) - 1 = Len(taskList)
    BY <1>0, <1>3
  <2>. QED
    BY <1>1, <2>1 DEF Places
<1>7. Places(old, w) = {}
  BY <1>5, <1>6, SamePlaces, Zenon
<1>8. Reading = old
  BY <1>2, <1>7, RetitledAt
<1>9. Reading' = Reading
  BY <1>0 DEF Reading
<1>. QED
  BY <1>4, <1>5, <1>8, <1>9, Zenon DEF Follows

\* The title set is that of the task the update is about, and of no other.
LEMMA RightTitle ==
    ASSUME TypeOK, TypeOK', StreamInv, PostingInv, ObjectInv, TitleInv, ~overlapped, SetTitle
    PROVE  Follows(TRUE)'
<1>. DEFINE old == Replay(Front(read))
            w == Last(read).hwnd
            new == Last(read).title
<1>0. /\ posts = <<>> /\ posts' = UpdateItems /\ UNCHANGED <<uiQueue, read>>
      /\ thread.pc = "setTitle"
      /\ taskList' = [i \in DOMAIN taskList |->
                      IF taskList[i].id = thread.found
                      THEN [taskList[i] EXCEPT !.title = new] ELSE taskList[i]]
  BY DEF SetTitle, Step, PostingInv
<1>1. uiQueue = <<>> /\ Shown(taskList) = Shown(old)
  BY <1>0 DEF TitleInv, Updating
<1>2. PICK k \in DOMAIN taskList : /\ taskList[k].id = thread.found /\ taskList[k].hwnd = w
                                   /\ \A i \in 1 .. k - 1 : taskList[i].hwnd # w
  BY <1>0 DEF TitleInv, NoneBefore
<1>3. old \in Seq(Row) /\ Reading = SetTitleByHwnd(old, w, new) /\ new \in Titles
  BY <1>0, UpdateRead DEF Updating
<1>4. /\ taskList \in Seq(AnyTask) /\ Settling' = Ran!Fold(taskList', uiQueue)
  BY <1>0, AnyTyped, NotifySettles
<1>5. Settling' = taskList'
  BY NullAssumption, <1>1, <1>4, Ran!FoldEmpty
<1>6. \A i \in DOMAIN taskList : taskList[i].id = thread.found => i = k
  BY <1>2 DEF ObjectInv
<1>. HIDE DEF old, w, new
<1>7. Alike(taskList, old, TRUE)
  BY <1>1, <1>3, <1>4, AlikeHwnds
<1>8. /\ DOMAIN taskList = 1 .. Len(taskList) /\ taskList[k] \in AnyTask
      /\ Len(taskList') = Len(taskList)
  BY <1>0, <1>4
<1>9. /\ taskList'[k].title = new /\ taskList'[k].hwnd = w
      /\ \A i \in 1 .. Len(taskList) : i # k => taskList'[i] = taskList[i]
  BY <1>0, <1>2, <1>6, <1>8 DEF AnyTask
<1>10. k \in 1 .. Len(taskList)
  BY <1>8
<1>11. Alike(taskList', SetTitleByHwnd(old, w, new), TRUE)
  <2>. DEFINE c == taskList'
  <2>1. Len(c) = Len(taskList) /\ c[k].hwnd = w /\ c[k].title = new
        /\ \A i \in 1 .. Len(taskList) : i # k => c[i] = taskList[i]
    BY <1>8, <1>9
  <2>. HIDE DEF c
  <2>2. Alike(c, SetTitleByHwnd(old, w, new), TRUE)
    <3>1. \A d : \A j \in 1 .. Len(taskList) :
             /\ Len(d) = Len(taskList) /\ taskList[j].hwnd = w
             /\ \A i \in 1 .. j - 1 : taskList[i].hwnd # w
             /\ \A i \in 1 .. Len(taskList) : i # j => d[i] = taskList[i]
             /\ d[j].hwnd = w /\ d[j].title = new
             => Alike(d, SetTitleByHwnd(old, w, new), TRUE)
      BY <1>3, <1>4, <1>7, RetitleAlike
    <3>. QED
      BY <1>2, <1>10, <2>1, <3>1
  <2>. QED
    BY <2>2 DEF c
<1>12. Reading' = Reading
  BY <1>0 DEF Reading
<1>. QED
  BY <1>3, <1>5, <1>11, <1>12, Zenon DEF Follows

\* A walk begins at an update that nothing overlaps.
LEMMA WalkBegins ==
    ASSUME TypeOK, StreamInv, TitleInv, ReadUpdateTask
    PROVE  TitleInv'
<1>. SUFFICES ASSUME ~overlapped' PROVE TitleInv'
  BY DEF TitleInv
<1>1. /\ ~overlapped /\ uiQueue = <<>> /\ posts = <<>> /\ UNCHANGED <<uiQueue, posts, taskList>>
      /\ thread.pc = "readInt"
      /\ thread' = [pc |-> "walk", cursor |-> 0, stale |-> FALSE, found |-> 0]
  BY DEF ReadUpdateTask, Reads, Running
<1>2. Front(read') = read
  BY NextFrame DEF ReadUpdateTask
<1>3. Shown(Settling) = Shown(Reading)
  BY <1>1 DEF TitleInv, Updating
<1>4. Settling = taskList
  <2>1. Coming = <<>>
    BY <1>1 DEF Coming
  <2>. QED
    BY NullAssumption, <2>1, Ran!FoldEmpty, SettlingIsFold
<1>5. Shown(taskList') = Shown(Replay(Front(read')))
  BY <1>1, <1>2, <1>3, <1>4 DEF Reading
<1>6. thread'.pc = "walk" /\ ~thread'.stale /\ thread'.cursor + 1 = 1
  BY <1>1
<1>7. \A i \in 1 .. (thread'.cursor + 1) - 1 : taskList'[i].hwnd # Last(read').hwnd
  BY <1>6
<1>. QED
  BY <1>1, <1>5, <1>6, <1>7 DEF TitleInv, Updating, NoneBefore

\* It goes on task by task, and sets the title of the first one of the window.
LEMMA WalkGoesOn ==
    ASSUME TypeOK, TitleInv, Walk
    PROVE  TitleInv'
<1>. SUFFICES ASSUME ~overlapped' PROVE TitleInv'
  BY DEF TitleInv
<1>. DEFINE t == taskList[thread.cursor + 1]
<1>1. /\ ~overlapped /\ UNCHANGED <<read, uiQueue, posts, taskList>>
      /\ thread.pc = "walk" /\ thread.cursor # Len(taskList)
  BY DEF Walk, Step, HasNext
<1>2. /\ uiQueue = <<>> /\ ~thread.stale /\ Shown(taskList) = Shown(Replay(Front(read)))
      /\ \A i \in 1 .. (thread.cursor + 1) - 1 : taskList[i].hwnd # Last(read).hwnd
  BY <1>1 DEF TitleInv, Updating, NoneBefore
<1>3. thread \in ThreadRec /\ thread.cursor \in Nat /\ thread.cursor + 1 \in DOMAIN taskList
  BY <1>1, <1>2 DEF TypeOK, ThreadRec
<1>4. Shown(taskList') = Shown(Replay(Front(read'))) /\ uiQueue' = <<>>
  BY <1>1, <1>2
<1>5. CASE Matches(t)
  <2>1. thread' = [thread EXCEPT !.pc = "setTitle", !.found = t.id]
    BY <1>2, <1>5 DEF Walk
  <2>2. thread'.pc = "setTitle" /\ ~thread'.stale /\ thread'.found = t.id
    BY <1>2, <1>3, <2>1 DEF ThreadRec
  <2>. DEFINE k == thread.cursor + 1
  <2>3. /\ k \in DOMAIN taskList' /\ taskList'[k].id = thread'.found
        /\ taskList'[k].hwnd = Last(read').hwnd
        /\ \A i \in 1 .. k - 1 : taskList'[i].hwnd # Last(read').hwnd
    BY <1>1, <1>2, <1>3, <1>5, <2>2 DEF Matches
  <2>. HIDE DEF k
  <2>. QED
    BY <1>4, <2>2, <2>3 DEF TitleInv, Updating, NoneBefore
<1>6. CASE ~Matches(t)
  <2>1. thread' = [thread EXCEPT !.cursor = @ + 1]
    BY <1>2, <1>6 DEF Walk, NextIndex
  <2>2. thread'.pc = "walk" /\ ~thread'.stale /\ thread'.cursor = thread.cursor + 1
    BY <1>1, <1>2, <1>3, <2>1 DEF ThreadRec
  <2>3. \A i \in 1 .. (thread.cursor + 1) : taskList[i].hwnd # Last(read).hwnd
    BY <1>2, <1>3, <1>6 DEF Matches
  <2>4. \A i \in 1 .. (thread'.cursor + 1) - 1 : taskList'[i].hwnd # Last(read').hwnd
    <3>1. (thread'.cursor + 1) - 1 = thread.cursor + 1
      BY <1>3, <2>2
    <3>. QED
      BY <1>1, <2>3, <3>1
  <2>. QED
    BY <1>4, <2>2, <2>4 DEF TitleInv, Updating, NoneBefore
<1>. QED
  BY <1>5, <1>6

\* Away from the updates, it is the list to come that carries the titles.
LEMMA AwayFromUpdates ==
    ASSUME ~overlapped' => thread'.pc \in {"readInt", "put"} /\ Shown(Settling') = Shown(Reading')
    PROVE  TitleInv'
BY DEF TitleInv, Updating

\* The titles, too, are those of the frames read.
LEMMA TitleStep ==
    ASSUME TypeOK, TypeOK', StreamInv, StreamInv', PostingInv, ObjectInv, TitleInv, [Next]_vars
    PROVE  TitleInv'
<1>1. CASE ReadTaskList \/ ReadIcon \/ ReadAddTask \/ ReadRemoveTask
  <2>1. overlapped' = overlapped /\ thread.pc = "readInt" /\ thread'.pc \in {"readInt", "put"}
    BY <1>1 DEF ReadTaskList, ReadIcon, ReadAddTask, ReadRemoveTask, Reads, Running
  <2>2. ASSUME ~overlapped' PROVE Shown(Settling') = Shown(Reading')
    <3>1. Follows(TRUE)
      BY <2>1, <2>2, TitlesAlike DEF TitleInv, Updating
    <3>2. Follows(TRUE)'
      BY <1>1, <3>1, ReadFollows
    <3>. QED
      BY <3>2, PrimedAlike
  <2>. QED
    BY <2>1, <2>2, AwayFromUpdates
<1>2. CASE ReadUpdateTask
  BY <1>2, WalkBegins
<1>3. CASE Walk
  BY <1>3, WalkGoesOn
<1>4. CASE WalkEnds \/ SetTitle
  <2>1. overlapped' = overlapped /\ thread'.pc = "readInt"
    BY <1>4 DEF WalkEnds, SetTitle, Step, Running
  <2>2. ASSUME ~overlapped' PROVE Shown(Settling') = Shown(Reading')
    <3>1. Follows(TRUE)'
      BY <1>4, <2>1, <2>2, NoneFound, RightTitle
    <3>. QED
      BY <3>1, PrimedAlike
  <2>. QED
    BY <2>1, <2>2, AwayFromUpdates
<1>5. CASE PutIcon
  <2>1. Settling' = Settling /\ Reading' = Reading
    BY <1>5, Undisturbed
  <2>2. overlapped' = overlapped /\ thread.pc = "put" /\ thread'.pc = "readInt"
    BY <1>5 DEF PutIcon, Step, Running
  <2>3. ~overlapped => Shown(Settling) = Shown(Reading)
    BY <2>2 DEF TitleInv, Updating
  <2>. QED
    BY <2>1, <2>2, <2>3, AwayFromUpdates
<1>6. CASE Post
  <2>1. Settling' = Settling /\ Reading' = Reading
    BY <1>6, Undisturbed
  <2>2. overlapped' = overlapped /\ thread.pc = "readInt" /\ thread'.pc = "readInt"
    BY <1>6 DEF Post, PostingInv
  <2>3. ~overlapped => Shown(Settling) = Shown(Reading)
    BY <2>2 DEF TitleInv, Updating
  <2>. QED
    BY <2>1, <2>2, <2>3, AwayFromUpdates
<1>7. CASE RunRunnable
  <2>1. Settling' = Settling /\ Reading' = Reading
    BY <1>7, Undisturbed DEF UI
  <2>2. overlapped' = overlapped /\ thread'.pc = thread.pc /\ uiQueue # <<>>
    BY <1>7 DEF RunRunnable, UiStep, TypeOK
  <2>3. ~overlapped => thread.pc \in {"readInt", "put"} /\ Shown(Settling) = Shown(Reading)
    BY <2>2 DEF TitleInv, Updating, TypeOK
  <2>. QED
    BY <2>1, <2>2, <2>3, AwayFromUpdates
<1>8. CASE GetViews \/ UNCHANGED vars \/ \E f \in ServerFrames : ServerSends(f)
  <2>1. Settling' = Settling /\ Reading' = Reading
    BY <1>8, Undisturbed DEF UI
  <2>2. UNCHANGED <<overlapped, thread, uiQueue, taskList, read>>
    BY <1>8 DEF GetViews, UiStep, vars, ServerSends
  <2>. QED
    BY <2>1, <2>2 DEF TitleInv, Updating, NoneBefore
<1>. QED
  BY <1>1, <1>2, <1>3, <1>4, <1>5, <1>6, <1>7, <1>8 DEF Next, ClientThread, UI

-----------------------------------------------------------------------------
(* The theorems.                                                           *)

\* The client starts with an empty list and nothing posted.
LEMMA InitClient == Init => TypeOK /\ ClientInv
<1>. SUFFICES ASSUME Init PROVE TypeOK /\ ClientInv
  OBVIOUS
<1>0. TypeOK /\ StreamInv
  BY InitTyped
<1>1. /\ read = <<>> /\ pending = <<>> /\ taskList = <<>> /\ posts = <<>> /\ uiQueue = <<>>
      /\ drawn = <<>> /\ thread.pc = "readInt"
  BY DEF Init, Running
<1>2. Coming = <<>> /\ Settling = <<>>
  <2>1. Coming = <<>>
    BY <1>1 DEF Coming
  <2>. QED
    BY NullAssumption, <1>1, <2>1, SettlingIsFold, Ran!FoldEmpty
<1>3. Reading = <<>>
  BY <1>1, ReplayNone DEF Reading
<1>4. PictureInv /\ PicturesDrawn
  <2>1. ToSet(read) = {}
    BY <1>1 DEF ToSet
  <2>. QED
    BY <1>1, <2>1 DEF PictureInv, PicturesDrawn
<1>5. PostingInv /\ ListFollowsFrames /\ ObjectInv
  BY <1>1, <1>2, <1>3 DEF PostingInv, ListFollowsFrames, ObjectInv
<1>6. DrawnInv /\ TitleInv
  BY <1>1, <1>2, <1>3 DEF DrawnInv, TitleInv, Updating
<1>. QED
  BY <1>0, <1>4, <1>5, <1>6 DEF ClientInv

\* Every step of the two threads and of the server keeps the invariant.
LEMMA ClientStep ==
    TypeOK /\ ClientInv /\ [Next]_vars => (TypeOK /\ ClientInv)'
<1>. SUFFICES ASSUME TypeOK, ClientInv, [Next]_vars PROVE (TypeOK /\ ClientInv)'
  OBVIOUS
<1>0. /\ StreamInv /\ PictureInv /\ PicturesDrawn /\ PostingInv /\ ListFollowsFrames /\ ObjectInv
      /\ DrawnInv /\ TitleInv
  BY DEF ClientInv
<1>1. TypeOK' /\ StreamInv'
  BY <1>0, TypedStep
<1>2. PictureInv'
  <2>1. CASE Next
    BY <1>0, <2>1, PictureStep
  <2>2. CASE UNCHANGED vars
    BY <1>0, <2>2 DEF vars, PictureInv
  <2>. QED
    BY <2>1, <2>2
<1>3. PicturesDrawn' /\ PostingInv' /\ DrawnInv'
  BY <1>0, DrawnStep, PostingStep, DrawnTitles
<1>4. ListFollowsFrames'
  <2>1. Follows(FALSE)
    BY <1>0, TitlesAlike DEF ListFollowsFrames
  <2>2. Follows(FALSE)'
    BY <1>0, <1>1, <2>1, ListStep
  <2>. QED
    BY <1>1, <2>2, PrimedAlike DEF ListFollowsFrames
<1>5. ObjectInv'
  BY <1>0, <1>1, ObjectStep
<1>6. TitleInv'
  BY <1>0, <1>1, TitleStep
<1>. QED
  BY <1>1, <1>2, <1>3, <1>4, <1>5, <1>6 DEF ClientInv

\* The types, and the parts of the inductive invariant, hold in every state.
THEOREM Client == Spec => [](TypeOK /\ ClientInv)
<1>. QED
  BY InitClient, ClientStep, PTL DEF Spec

\* The types of the client's threads and queues: an iterator never goes past the
\* end of an unchanged list.
THEOREM ClientTyped == Spec => []TypeOK
BY Client, PTL

\* Whatever the two threads do between each other's steps, the list is going to
\* hold the tasks of the frames read, in their order.
THEOREM ListFollows == Spec => []ListFollowsFrames
<1>1. ClientInv => ListFollowsFrames
  BY DEF ClientInv
<1>. QED
  BY <1>1, Client, PTL

\* A row is drawn with its picture, except in the middle of a put.
THEOREM PicturesFirst == Spec => []PicturesDrawn
<1>1. ClientInv => PicturesDrawn
  BY DEF ClientInv
<1>. QED
  BY <1>1, Client, PTL

\* Unless an update was read while runnables of earlier frames were waiting, the
\* thread lives, and the rows drawn carry the titles of the frames read.
THEOREM TitlesFollow == Spec => []TitlesFollowFrames
<1>1. TypeOK /\ ClientInv => TitlesFollowFrames
  <2>. SUFFICES ASSUME TypeOK, ClientInv, ~overlapped
                PROVE  thread.pc # "dead" /\ (Settled => Shown(drawn) = Shown(Reading))
    BY DEF TitlesFollowFrames
  <2>1. thread.pc # "dead" /\ (~Updating => Shown(Settling) = Shown(Reading))
    BY DEF ClientInv, TitleInv
  <2>2. ASSUME Settled PROVE Shown(drawn) = Shown(Reading)
    <3>1. Shown(drawn) = Shown(taskList)
      BY <2>2 DEF Settled, ClientInv, DrawnInv
    <3>2. Settling = taskList
      <4>1. Coming = <<>>
        BY <2>2 DEF Coming, Settled
      <4>. QED
        BY NullAssumption, <4>1, Ran!FoldEmpty, SettlingIsFold
    <3>3. ~Updating
      BY <2>2 DEF Settled, Updating
    <3>. QED
      BY <2>1, <3>1, <3>2, <3>3
  <2>. QED
    BY <2>1, <2>2
<1>. QED
  BY <1>1, Client, PTL

=============================================================================
