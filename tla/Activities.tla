----------------------------- MODULE Activities -----------------------------
(***************************************************************************)
(* The life of the Android client: LoginActivity starts a TasksActivity,   *)
(* each TasksActivity starts a client thread of its own, and the server    *)
(* accepts one connection each time it is started.                         *)
(*                                                                         *)
(* What a client thread reads does not go to its own activity but to       *)
(* TasksActivity.instance, a static variable, as it is when the thread     *)
(* looks; taskList, in which a tap and a removal look rows up, is static   *)
(* as well.  Back closes the socket of the activity, if there is one yet.  *)
(* An activity the system destroys and creates again, as it does when the  *)
(* configuration changes, leaves its thread running.                       *)
(*                                                                         *)
(* A frame is one operation on a list; ACTIVE_TASK_LIST is a "clear" and   *)
(* some "add", for ClientThread.run looks TasksActivity.instance up again  *)
(* for each.  Titles and pictures are module TaskClient's.                 *)
(***************************************************************************)
EXTENDS Naturals, Sequences

CONSTANTS
    Windows,        \* HWNDs
    MaxActivities,  \* bound on the activities created
    MaxFrames       \* bound on the frames read

ASSUME ActivitiesAssumption == MaxActivities \in Nat /\ MaxFrames \in Nat

Activities == 1 .. MaxActivities

VARIABLES
    intents,   \* startActivity was called and onCreate was not yet
    stack,     \* the activities over LoginActivity, the visible one first
    instance,  \* TasksActivity.instance: they are numbered as they are created
    pressed,   \* the visible activity got Back's key down, and no key up yet
    list,      \* per activity: the rows of its adapter
    shown,     \* per activity: the rows as they were last laid out
    changed,   \* the activities whose adapter has changed since
    uiQueue,   \* the runnables posted to the UI thread
    thread,    \* per activity: where its client thread is, and its frame
    socket,    \* per activity: ClientThread.socket
    backlog,   \* the connections the server has not accepted, in order
    client,    \* the connection it has accepted, or 0
    frames,    \* number of frames read so far
    left,      \* history: the activities that Back has disconnected
    covered,   \* history: one was created over another
    mixed      \* history: one was created while the thread of another lived

screen  == <<intents, stack, instance, pressed>>
rows    == <<list, shown, changed>>
network == <<backlog, client, frames>>
history == <<left, covered, mixed>>
vars    == <<screen, rows, uiQueue, thread, socket, network, history>>

-----------------------------------------------------------------------------
Goto(a, pc) == thread' = [thread EXCEPT ![a].pc = pc]

Alive(a) == thread[a].pc \notin {"new", "done"}

Frame == [op : {"add", "remove"}, hwnd : Windows] \cup {[op |-> "clear"]}

Notify == [op |-> "notify"]

(* The user and the system.                                                *)

\* LoginActivity's button, which can be tapped again before the activity shows.
GotoTaskActivity ==
    /\ stack = <<>>
    /\ intents < 2 /\ instance + intents < MaxActivities
    /\ intents' = intents + 1
    /\ UNCHANGED <<stack, instance, pressed, rows, uiQueue, thread, socket, network, history>>

\* Variant: taskList is created once for all.
OldTaskList == IF instance = 0 THEN <<>> ELSE list[instance]

NewTaskList == <<>>

\* TasksActivity.onCreate, with the activities under the new one.
OnCreate(under) ==
    /\ instance' = instance + 1
    /\ stack' = <<instance + 1>> \o under
    /\ list' = [list EXCEPT ![instance + 1] = NewTaskList]
    /\ changed' = changed \cup {instance + 1}
    /\ Goto(instance + 1, "connect")
    /\ covered' = (covered \/ under # <<>>)
    /\ mixed' = (mixed \/ \E b \in Activities : Alive(b))
    /\ pressed' = FALSE
    /\ UNCHANGED <<shown, uiQueue, socket, network, left>>

StartActivity ==
    /\ intents > 0
    /\ intents' = intents - 1
    /\ OnCreate(stack)

Recreate ==
    /\ stack # <<>>
    /\ instance + intents < MaxActivities
    /\ OnCreate(Tail(stack))
    /\ UNCHANGED intents

\* Variant: the socket is not closed.
LeaveOpen(a) == socket
CloseSocket(a) == [socket EXCEPT ![a] = "closed"]

\* Variant: the activity that shows again is the instance again.
InstanceBelow == IF Len(stack) > 1 THEN stack[2] ELSE instance
InstanceAfterBack == instance

\* onKeyDown: closeConnection of the visible activity, at each repetition of the
\* key again.  A null socket is an exception that closeConnection swallows.
BackDown ==
    /\ stack # <<>>
    /\ pressed' = TRUE
    /\ LET a == Head(stack) IN
       IF socket[a] = "open" THEN socket' = CloseSocket(a) /\ left' = left \cup {a}
       ELSE UNCHANGED <<socket, left>>
    /\ UNCHANGED <<intents, stack, instance, rows, uiQueue, thread, network, covered, mixed>>

\* The key up: the framework finishes the activity that got the key down.  It
\* need not come: a cancelled one finishes nothing, and a later Back is as this.
BackUp ==
    /\ pressed /\ pressed' = FALSE
    /\ stack' = Tail(stack)
    /\ instance' = InstanceAfterBack
    /\ UNCHANGED <<intents, rows, uiQueue, thread, socket, network, history>>

-----------------------------------------------------------------------------
(* The client threads.                                                     *)

\* new Socket(...): the connection is there before the field is assigned.
Connect(a) ==
    /\ thread[a].pc = "connect"
    /\ \/ Goto(a, "assign") /\ backlog' = Append(backlog, a)
       \/ Goto(a, "done") /\ UNCHANGED backlog
    /\ UNCHANGED <<screen, rows, uiQueue, socket, client, frames, history>>

AssignSocket(a) ==
    /\ thread[a].pc = "assign"
    /\ socket' = [socket EXCEPT ![a] = "open"]
    /\ Goto(a, "read")
    /\ UNCHANGED <<screen, rows, uiQueue, network, history>>

\* The server sends to the client it has accepted, and what it likes.
Read(a, f) ==
    /\ thread[a].pc = "read" /\ socket[a] = "open"
    /\ client = a /\ frames < MaxFrames
    /\ thread' = [thread EXCEPT ![a] = [pc |-> "post", frame |-> f]]
    /\ frames' = frames + 1
    /\ UNCHANGED <<screen, rows, uiQueue, socket, backlog, client, history>>

\* The server has closed the connection.
Refused(a) == a # client /\ \A i \in DOMAIN backlog : backlog[i] # a

\* A read that throws: this end is closed, or the other.
ReadFails(a) ==
    /\ thread[a].pc = "read"
    /\ socket[a] = "closed" \/ Refused(a)
    /\ Goto(a, "done")
    /\ UNCHANGED <<screen, rows, uiQueue, socket, network, history>>

\* clearTaskList, addTask or removeTaskByHwnd, and updateItems, which is as good
\* as one step: to redraw another activity as well changes nothing.
Post(a) ==
    /\ thread[a].pc = "post"
    /\ LET Runnable(f) == [frame |-> f, on |-> instance, by |-> a]
       IN uiQueue' = uiQueue \o <<Runnable(thread[a].frame), Runnable(Notify)>>
    /\ thread' = [thread EXCEPT ![a] = [pc |-> "read", frame |-> Notify]]
    /\ UNCHANGED <<screen, rows, socket, network, history>>

ClientThread(a) ==
    \/ Connect(a) \/ AssignSocket(a) \/ ReadFails(a) \/ Post(a)
    \/ \E f \in Frame : Read(a, f)

-----------------------------------------------------------------------------
(* The UI thread.                                                          *)

\* The static taskList.
TaskListNow == list[instance]

\* getTaskByHwnd and ListItemArrayAdapter.remove: a Task of another list is not
\* found in this one.
RemoveTask(on, w) ==
    LET Hits == {i \in DOMAIN TaskListNow : TaskListNow[i].hwnd = w}
    IN IF on # instance \/ Hits = {} THEN list[on]
       ELSE LET first == CHOOSE i \in Hits : \A j \in Hits : i <= j
            IN SubSeq(list[on], 1, first - 1) \o SubSeq(list[on], first + 1, Len(list[on]))

Result(r, on) ==
    CASE r.frame.op = "clear"  -> <<>>
      [] r.frame.op = "add"    -> Append(list[on], [hwnd |-> r.frame.hwnd, by |-> r.by])
      [] r.frame.op = "remove" -> RemoveTask(on, r.frame.hwnd)
      [] OTHER                 -> list[on]

\* Variant: the runnable looks TasksActivity.instance up.
InstanceNow(r) == instance
Target(r) == r.on

\* Variant: the list is changed behind the adapter's back.
Silent(r) == r.frame = Notify
Notifies(r) == TRUE

\* The adapter's add, remove and clear notify the grid as well.
RunRunnable ==
    /\ uiQueue # <<>>
    /\ LET r == Head(uiQueue)
           on == Target(r)
       IN /\ list' = [list EXCEPT ![on] = Result(r, on)]
          /\ changed' = IF Notifies(r) THEN changed \cup {on} ELSE changed
    /\ uiQueue' = Tail(uiQueue)
    /\ UNCHANGED <<shown, screen, thread, socket, network, history>>

\* The layout pass of the visible activity.
Layout ==
    /\ stack # <<>> /\ Head(stack) \in changed
    /\ shown' = [shown EXCEPT ![Head(stack)] = list[Head(stack)]]
    /\ changed' = changed \ {Head(stack)}
    /\ UNCHANGED <<list, uiQueue, screen, thread, socket, network, history>>

UI == RunRunnable \/ Layout

\* The rows that can be tapped: a grid that has to be laid out again ignores taps.
Tappable ==
    IF stack = <<>> \/ Head(stack) \in changed THEN {} ELSE DOMAIN shown[Head(stack)]

\* onItemClick: what is opened, and on which connection.
OnItemClick(i) == [hwnd |-> TaskListNow[i].hwnd, on |-> Head(stack)]

\* The X of a row: its own Task, on the connection of the latest activity.
OnCloseClick(i) == [hwnd |-> shown[Head(stack)][i].hwnd, on |-> instance]

-----------------------------------------------------------------------------
(* The server.                                                             *)

Accept ==
    /\ client = 0 /\ backlog # <<>>
    /\ client' = Head(backlog) /\ backlog' = Tail(backlog)
    /\ UNCHANGED <<frames, screen, rows, uiQueue, thread, socket, history>>

\* Its user presses Disconnect and then Connect.
RestartServer ==
    /\ client # 0
    /\ client' = 0 /\ backlog' = <<>>
    /\ UNCHANGED <<frames, screen, rows, uiQueue, thread, socket, history>>

-----------------------------------------------------------------------------
Init ==
    /\ intents = 0 /\ stack = <<>> /\ instance = 0 /\ pressed = FALSE
    /\ list = [a \in Activities |-> <<>>]
    /\ shown = list /\ changed = {}
    /\ uiQueue = <<>>
    /\ thread = [a \in Activities |-> [pc |-> "new", frame |-> Notify]]
    /\ socket = [a \in Activities |-> "null"]
    /\ backlog = <<>> /\ client = 0 /\ frames = 0
    /\ left = {} /\ covered = FALSE /\ mixed = FALSE

Next ==
    \/ GotoTaskActivity \/ StartActivity \/ Recreate \/ BackDown \/ BackUp
    \/ \E a \in Activities : ClientThread(a)
    \/ UI
    \/ Accept \/ RestartServer

Spec == Init /\ [][Next]_vars

\* The threads of the client run.
FairSpec == Spec /\ \A a \in Activities : WF_vars(ClientThread(a))

-----------------------------------------------------------------------------
(* Properties.                                                             *)

Row == [hwnd : Windows, by : Activities]

\* The types.  An activity that has been created has its thread.
TypeOK ==
    /\ intents \in 0 .. 2 /\ instance \in 0 .. MaxActivities /\ (pressed => stack # <<>>)
    /\ stack \in Seq(1 .. instance)
    /\ list \in [Activities -> Seq(Row)] /\ shown \in [Activities -> Seq(Row)]
    /\ changed \subseteq Activities
    /\ uiQueue \in Seq([frame : Frame \cup {Notify}, on : Activities, by : Activities])
    /\ thread \in [Activities -> [pc : {"new", "connect", "assign", "read", "post", "done"},
                                  frame : Frame \cup {Notify}]]
    /\ \A a \in Activities : thread[a].pc = "post" <=> thread[a].frame # Notify
    /\ \A a \in Activities : thread[a].pc = "new" <=> a > instance
    /\ socket \in [Activities -> {"null", "open", "closed"}]
    /\ backlog \in Seq(Activities) /\ client \in 0 .. MaxActivities
    /\ frames \in 0 .. MaxFrames
    /\ pressed \in BOOLEAN /\ left \subseteq Activities /\ covered \in BOOLEAN /\ mixed \in BOOLEAN

\* An activity lists what its own thread has read, as long as none was created
\* while the thread of another still lived.
ListsItsOwn == ~mixed => \A a \in Activities : \A i \in DOMAIN list[a] : list[a][i].by = a

\* A row that can be tapped is the one that the tap opens: onItemClick looks the
\* position up in a list that is not the grid's when activities cover each other.
TapHitsRow ==
    ~covered => \A i \in Tappable :
        /\ i \in DOMAIN TaskListNow
        /\ OnItemClick(i).hwnd = shown[Head(stack)][i].hwnd

\* As long as neither happened, a tap on a row or on its X goes to the server, on
\* an open socket: the rows shown are of the one client that it has accepted.  It
\* is lost only when the server has ended that connection, or Back has, whose key
\* up is still to come or was cancelled.
TapReachesServer ==
    ~mixed /\ ~covered => \A i \in Tappable :
        \A a \in {OnItemClick(i).on, OnCloseClick(i).on} :
            (client = a /\ socket[a] = "open") \/ Refused(a) \/ a \in left

-----------------------------------------------------------------------------
(* Why these hold: an inductive invariant, in parts.                       *)

\* There is room for the activities asked for.
RoomInv == instance + intents <= MaxActivities

\* The only thread that lives is that of the latest activity, and what it posts is
\* for the list of that activity.
OneThreadInv ==
    ~mixed =>
        /\ \A a \in Activities : Alive(a) => a = instance
        /\ \A i \in DOMAIN uiQueue : uiQueue[i].on = uiQueue[i].by

\* Only the latest activity shows, and the rows laid out are those of its list.
ScreenInv ==
    /\ ~covered => stack \in {<<>>, <<instance>>}
    /\ \A a \in Activities \ changed : shown[a] = list[a]

\* The thread of the activity has read a frame.
Heard(a) ==
    \/ thread[a].pc = "post"
    \/ \E i \in DOMAIN uiQueue : uiQueue[i].by = a
    \/ \E b \in Activities : \E i \in DOMAIN list[b] : list[b][i].by = a

Waiting(a) == \E i \in DOMAIN backlog : backlog[i] = a

\* A connection is made once and accepted once, and read only when it was.
AcceptInv ==
    /\ \A i, j \in DOMAIN backlog : backlog[i] = backlog[j] => i = j
    /\ \A a \in Activities :
          /\ Waiting(a) => client # a /\ ~Heard(a)
          /\ Waiting(a) \/ client = a \/ Heard(a) => thread[a].pc \notin {"new", "connect"}

\* What was read came through the activity's socket, which only Back closes.
SocketInv ==
    \A a \in Activities :
        /\ Heard(a) => socket[a] # "null"
        /\ socket[a] = "closed" => a \in left

LifeInv == RoomInv /\ OneThreadInv /\ ListsItsOwn /\ ScreenInv /\ AcceptInv /\ SocketInv

-----------------------------------------------------------------------------
(* Liveness.                                                               *)

\* Back ends the client thread when it had its socket, whatever the thread was
\* doing and whatever the server does.
BackEndsThread == \A a \in Activities : a \in left ~> thread[a].pc = "done"

=============================================================================
