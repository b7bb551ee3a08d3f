------------------------- MODULE ActivitiesProofs -------------------------
(***************************************************************************)
(* Theorems about the life of the Android client, for any number of        *)
(* activities and frames: as long as no activity is created over another,  *)
(* or while the thread of another lives, the static variables do no harm.  *)
(***************************************************************************)
EXTENDS Activities, WellFoundedInduction, TLAPS

\* The order of the natural numbers, which is well-founded.
Less == {p \in Nat \X Nat : p[1] < p[2]}

\* So a set of numbers has a smallest.
LEMMA Smallest ==
    ASSUME NEW S, S \subseteq Nat, S # {}
    PROVE  \E x \in S : \A y \in S : x <= y
<1>1. IsWellFoundedOn(Less, Nat)
  BY NatLessThanWellFounded, Zenon DEF Less, OpToRel
<1>2. PICK x \in S : \A y \in S : <<y, x>> \notin Less
  BY <1>1, WFMin, Zenon
<1>3. ASSUME NEW y \in S, ~(x <= y) PROVE FALSE
  <2>1. <<y, x>> \in Nat \X Nat /\ y < x
    BY <1>3
  <2>. QED
    BY <1>2, <2>1 DEF Less
<1>. QED
  BY <1>3

USE DEF screen, rows, network, history

-----------------------------------------------------------------------------
(* Types.                                                                  *)

Runnables == [frame : Frame \cup {Notify}, on : Activities, by : Activities]

ThreadRec == [pc : {"new", "connect", "assign", "read", "post", "done"},
              frame : Frame \cup {Notify}]

\* The first of a queue, and the rest.
LEMMA HeadAndTail ==
    ASSUME NEW S, NEW s \in Seq(S), s # <<>>
    PROVE  /\ Head(s) \in S /\ Tail(s) \in Seq(S)
           /\ \A i \in DOMAIN Tail(s) : i + 1 \in DOMAIN s /\ Tail(s)[i] = s[i + 1]
           /\ 1 \in DOMAIN s /\ Head(s) = s[1]
OBVIOUS

\* What is in a queue when more was added to it.
LEMMA InBoth ==
    ASSUME NEW S, NEW s \in Seq(S), NEW p \in Seq(S)
    PROVE  \A i \in DOMAIN (s \o p) :
              \/ i \in DOMAIN s /\ (s \o p)[i] = s[i]
              \/ i - Len(s) \in DOMAIN p /\ (s \o p)[i] = p[i - Len(s)]
OBVIOUS

\* The thread of an activity moves, the others stay.
LEMMA Moved ==
    ASSUME TypeOK, NEW a \in Activities, NEW pc, Goto(a, pc),
           pc \in {"connect", "assign", "read", "done"}, thread[a].pc # "post"
    PROVE  /\ thread' \in [Activities -> ThreadRec]
           /\ thread'[a].pc = pc /\ thread'[a].frame = Notify
           /\ \A b \in Activities \ {a} : thread'[b] = thread[b]
<1>1. thread \in [Activities -> ThreadRec] /\ thread[a].frame = Notify
  BY DEF TypeOK, ThreadRec
<1>2. thread' = [thread EXCEPT ![a].pc = pc]
  BY DEF Goto
<1>. QED
  BY <1>1, <1>2 DEF ThreadRec

\* A frame is not a notification.
LEMMA FramesNotify == Notify \notin Frame
BY DEF Frame, Notify

\* Removing a task leaves tasks of the list only.
LEMMA RemovedRows ==
    ASSUME TypeOK, NEW on \in Activities, NEW w
    PROVE  /\ RemoveTask(on, w) \in Seq(Row)
           /\ \A i \in DOMAIN RemoveTask(on, w) :
                \E j \in DOMAIN list[on] : RemoveTask(on, w)[i] = list[on][j]
<1>. DEFINE Hits == {i \in DOMAIN TaskListNow : TaskListNow[i].hwnd = w}
            first == CHOOSE i \in Hits : \A j \in Hits : i <= j
            s == list[on]
            front == SubSeq(s, 1, first - 1)
            back == SubSeq(s, first + 1, Len(s))
<1>0. s \in Seq(Row)
  BY DEF TypeOK
<1>1. CASE on # instance \/ Hits = {}
  <2>1. RemoveTask(on, w) = s
    BY <1>1 DEF RemoveTask
  <2>. QED
    BY <1>0, <2>1
<1>2. CASE on = instance /\ Hits # {}
  <2>1. RemoveTask(on, w) = front \o back
    BY <1>2 DEF RemoveTask
  <2>2. first \in 1 .. Len(s)
    <3>1. Hits \subseteq 1 .. Len(s) /\ Hits \subseteq Nat
      BY <1>0, <1>2 DEF TaskListNow
    <3>. HIDE DEF Hits
    <3>2. \E i \in Hits : \A j \in Hits : i <= j
      BY <1>2, <3>1, Smallest
    <3>3. first \in Hits
      BY <3>2, Zenon
    <3>. QED
      BY <3>1, <3>3
  <2>. HIDE DEF first
  <2>3. /\ front \in Seq(Row) /\ \A i \in DOMAIN front : i \in DOMAIN s /\ front[i] = s[i]
        /\ back \in Seq(Row)
        /\ \A i \in DOMAIN back : first + i \in DOMAIN s /\ back[i] = s[first + i]
    BY <1>0, <2>2
  <2>. HIDE DEF front, back, s
  <2>4. front \o back \in Seq(Row)
    BY <2>3
  <2>5. \A i \in DOMAIN (front \o back) :
           \/ i \in DOMAIN front /\ (front \o back)[i] = front[i]
           \/ i - Len(front) \in DOMAIN back /\ (front \o back)[i] = back[i - Len(front)]
    BY <2>3
  <2>6. \A i \in DOMAIN (front \o back) : \E j \in DOMAIN s : (front \o back)[i] = s[j]
    BY <2>3, <2>5
  <2>. QED
    BY <2>1, <2>4, <2>6 DEF s
<1>. QED
  BY <1>1, <1>2

\* What a runnable makes of a list: rows of that list, and the one it adds.
LEMMA ResultRows ==
    ASSUME TypeOK, NEW r \in Runnables, NEW on \in Activities
    PROVE  /\ Result(r, on) \in Seq(Row)
           /\ \A i \in DOMAIN Result(r, on) :
                \/ \E j \in DOMAIN list[on] : Result(r, on)[i] = list[on][j]
                \/ Result(r, on)[i].by = r.by
<1>0. list[on] \in Seq(Row)
  BY DEF TypeOK
<1>1. CASE r.frame.op = "clear"
  BY <1>1 DEF Result
<1>2. CASE r.frame.op = "add"
  <2>. DEFINE t == [hwnd |-> r.frame.hwnd, by |-> r.by]
              s == list[on]
              more == Append(s, t)
  <2>1. t \in Row /\ t.by = r.by
    BY <1>2 DEF Runnables, Frame, Notify, Row
  <2>2. Result(r, on) = more
    BY <1>2 DEF Result
  <2>. HIDE DEF t, s
  <2>3. more \in Seq(Row) /\ \A i \in DOMAIN more : more[i] = t \/ (i \in DOMAIN s /\ more[i] = s[i])
    BY <1>0, <2>1 DEF s
  <2>. QED
    BY <2>1, <2>2, <2>3 DEF s
<1>3. CASE r.frame.op = "remove"
  <2>1. Result(r, on) = RemoveTask(on, r.frame.hwnd)
    BY <1>3 DEF Result
  <2>. QED
    BY <2>1, RemovedRows
<1>4. CASE r.frame.op \notin {"clear", "add", "remove"}
  <2>1. Result(r, on) = list[on]
    BY <1>4 DEF Result
  <2>. QED
    BY <1>0, <2>1
<1>. QED
  BY <1>1, <1>2, <1>3, <1>4

\* What RunRunnable does to the lists.
LEMMA RunLists ==
    ASSUME TypeOK, RunRunnable
    PROVE  \E r \in Runnables :
              /\ uiQueue # <<>> /\ r = Head(uiQueue) /\ uiQueue' = Tail(uiQueue)
              /\ uiQueue \in Seq(Runnables) /\ uiQueue' \in Seq(Runnables)
              /\ list' \in [Activities -> Seq(Row)]
              /\ changed' = changed \cup {r.on}
              /\ \A a \in Activities : a # r.on => list'[a] = list[a]
              /\ \A i \in DOMAIN list'[r.on] :
                    \/ \E j \in DOMAIN list[r.on] : list'[r.on][i] = list[r.on][j]
                    \/ list'[r.on][i].by = r.by
<1>. DEFINE r == Head(uiQueue)
<1>1. /\ uiQueue # <<>> /\ uiQueue' = Tail(uiQueue) /\ uiQueue \in Seq(Runnables)
      /\ list \in [Activities -> Seq(Row)]
      /\ list' = [list EXCEPT ![r.on] = Result(r, r.on)] /\ changed' = changed \cup {r.on}
  BY DEF RunRunnable, TypeOK, Runnables, Target, Notifies
<1>2. r \in Runnables /\ uiQueue' \in Seq(Runnables) /\ r.on \in Activities
  <2>1. r \in Runnables /\ uiQueue' \in Seq(Runnables)
    BY <1>1
  <2>. QED
    BY <2>1 DEF Runnables
<1>. HIDE DEF r
<1>3. Result(r, r.on) \in Seq(Row)
      /\ \A i \in DOMAIN Result(r, r.on) :
                \/ \E j \in DOMAIN list[r.on] : Result(r, r.on)[i] = list[r.on][j]
                \/ Result(r, r.on)[i].by = r.by
  BY <1>2, ResultRows
<1>4. list' \in [Activities -> Seq(Row)] /\ list'[r.on] = Result(r, r.on)
      /\ \A a \in Activities : a # r.on => list'[a] = list[a]
  BY <1>1, <1>2, <1>3
<1>. QED
  BY <1>1, <1>2, <1>3, <1>4 DEF r

\* What a client thread posts, for the latest activity.
LEMMA Posted ==
    ASSUME TypeOK, NEW a \in Activities, Post(a)
    PROVE  /\ uiQueue' \in Seq(Runnables)
           /\ \A i \in DOMAIN uiQueue' :
                \/ \E j \in DOMAIN uiQueue : uiQueue'[i] = uiQueue[j]
                \/ uiQueue'[i].on = instance /\ uiQueue'[i].by = a
<1>. DEFINE Runnable(f) == [frame |-> f, on |-> instance, by |-> a]
            p == <<Runnable(thread[a].frame), Runnable(Notify)>>
<1>1. uiQueue' = uiQueue \o p /\ thread[a].pc = "post"
  BY DEF Post
<1>2. instance \in Activities
  BY <1>1, ActivitiesAssumption DEF TypeOK, Activities
<1>3. thread[a].frame \in Frame \cup {Notify}
  BY DEF TypeOK
<1>4. Runnable(thread[a].frame) \in Runnables /\ Runnable(Notify) \in Runnables
  BY <1>2, <1>3 DEF Runnables
<1>5. \A f : Runnable(f).on = instance /\ Runnable(f).by = a
  OBVIOUS
<1>. HIDE DEF Runnable
<1>6. p \in Seq(Runnables) /\ \A i \in DOMAIN p : p[i].on = instance /\ p[i].by = a
  BY <1>4, <1>5
<1>. HIDE DEF p
<1>7. uiQueue \in Seq(Runnables)
  BY DEF TypeOK, Runnables
<1>8. uiQueue' \in Seq(Runnables)
  BY <1>1, <1>6, <1>7
<1>9. \A i \in DOMAIN (uiQueue \o p) :
        \/ i \in DOMAIN uiQueue /\ (uiQueue \o p)[i] = uiQueue[i]
        \/ i - Len(uiQueue) \in DOMAIN p /\ (uiQueue \o p)[i] = p[i - Len(uiQueue)]
  BY <1>6, <1>7, InBoth, Zenon
<1>. QED
  BY <1>1, <1>6, <1>8, <1>9

\* What a new activity changes.
LEMMA Created ==
    ASSUME TypeOK, RoomInv, StartActivity \/ Recreate
    PROVE  \E under \in Seq(1 .. instance) :
              /\ instance + 1 \in Activities
              /\ instance' = instance + 1 /\ intents' + instance' <= MaxActivities
              /\ intents' \in 0 .. 2
              /\ under = stack \/ (stack # <<>> /\ under = Tail(stack))
              /\ stack' = <<instance + 1>> \o under
              /\ list' = [list EXCEPT ![instance + 1] = <<>>]
              /\ changed' = changed \cup {instance + 1}
              /\ Goto(instance + 1, "connect") /\ pressed' = FALSE
              /\ covered' = (covered \/ under # <<>>)
              /\ mixed' = (mixed \/ \E b \in Activities : Alive(b))
              /\ UNCHANGED <<shown, uiQueue, socket, network, left>>
<1>1. CASE StartActivity
  <2>1. intents > 0 /\ intents' = intents - 1 /\ OnCreate(stack)
    BY <1>1 DEF StartActivity
  <2>2. /\ instance + 1 \in Activities /\ intents' \in 0 .. 2 /\ stack \in Seq(1 .. instance)
        /\ intents' + (instance + 1) <= MaxActivities
    BY <2>1, ActivitiesAssumption DEF TypeOK, RoomInv, Activities
  <2>. QED
    BY <2>1, <2>2, Zenon DEF OnCreate, NewTaskList
<1>2. CASE Recreate
  <2>1. /\ stack # <<>> /\ instance + intents < MaxActivities /\ OnCreate(Tail(stack))
        /\ intents' = intents
    BY <1>2 DEF Recreate
  <2>2. /\ instance + 1 \in Activities /\ intents' \in 0 .. 2 /\ Tail(stack) \in Seq(1 .. instance)
        /\ intents' + (instance + 1) <= MaxActivities
    BY <2>1, ActivitiesAssumption DEF TypeOK, RoomInv, Activities
  <2>. QED
    BY <2>1, <2>2, Zenon DEF OnCreate, NewTaskList
<1>. QED
  BY <1>1, <1>2

\* An activity is created and its thread starts.
LEMMA CreationTyped ==
    ASSUME TypeOK, RoomInv, StartActivity \/ Recreate
    PROVE  TypeOK' /\ RoomInv'
<1>1. PICK under \in Seq(1 .. instance) :
              /\ instance + 1 \in Activities
              /\ instance' = instance + 1 /\ intents' + instance' <= MaxActivities
              /\ intents' \in 0 .. 2
              /\ under = stack \/ (stack # <<>> /\ under = Tail(stack))
              /\ stack' = <<instance + 1>> \o under
              /\ list' = [list EXCEPT ![instance + 1] = <<>>]
              /\ changed' = changed \cup {instance + 1}
              /\ Goto(instance + 1, "connect") /\ pressed' = FALSE
              /\ covered' = (covered \/ under # <<>>)
              /\ mixed' = (mixed \/ \E b \in Activities : Alive(b))
              /\ UNCHANGED <<shown, uiQueue, socket, network, left>>
  BY Created
<1>. DEFINE n == instance + 1
<1>2. instance \in Nat /\ n \in 1 .. MaxActivities /\ instance' = n
  BY <1>1 DEF TypeOK, Activities
<1>3. stack' \in Seq(1 .. instance')
  <2>1. under \in Seq(1 .. n) /\ <<n>> \in Seq(1 .. n)
    BY <1>1, <1>2
  <2>. HIDE DEF n
  <2>. QED
    BY <1>1, <1>2, <2>1 DEF n
<1>4. /\ thread' \in [Activities -> ThreadRec]
      /\ thread'[n].pc = "connect" /\ thread'[n].frame = Notify
      /\ \A b \in Activities \ {n} : thread'[b] = thread[b]
  <2>1. thread[n].pc = "new"
    BY <1>1, <1>2 DEF TypeOK
  <2>. QED
    BY <1>1, <2>1, Moved
<1>5. /\ \A a \in Activities : thread'[a].pc = "post" <=> thread'[a].frame # Notify
      /\ \A a \in Activities : thread'[a].pc = "new" <=> a > instance'
  <2>1. \A a \in Activities \ {n} : a > instance <=> a > n
    BY <1>2 DEF Activities
  <2>2. ~(n > n)
    BY <1>2
  <2>3. /\ \A a \in Activities : thread[a].pc = "post" <=> thread[a].frame # Notify
        /\ \A a \in Activities : thread[a].pc = "new" <=> a > instance
    BY DEF TypeOK
  <2>. HIDE DEF n
  <2>4. ASSUME NEW a \in Activities
        PROVE  /\ thread'[a].pc = "post" <=> thread'[a].frame # Notify
               /\ thread'[a].pc = "new" <=> a > n
    <3>1. CASE a = n
      BY <1>4, <2>2, <3>1
    <3>2. CASE a # n
      BY <1>4, <2>1, <2>3, <3>2
    <3>. QED
      BY <3>1, <3>2
  <2>. QED
    BY <1>2, <2>4
<1>6. list' \in [Activities -> Seq(Row)]
  <2>1. <<>> \in Seq(Row)
    OBVIOUS
  <2>. QED
    BY <1>1, <2>1 DEF TypeOK
<1>7. covered' \in BOOLEAN /\ mixed' \in BOOLEAN
  BY <1>1, Zenon
<1>8. /\ pressed' = FALSE /\ shown' = shown /\ uiQueue' = uiQueue /\ socket' = socket /\ backlog' = backlog
      /\ client' = client /\ frames' = frames /\ left' = left
      /\ changed' \subseteq Activities /\ instance' \in 0 .. MaxActivities /\ intents' \in 0 .. 2
  BY <1>1, <1>2 DEF TypeOK, Activities
<1>9. RoomInv'
  BY <1>1, <1>2, <1>8 DEF RoomInv
<1>. HIDE DEF n
<1>10. TypeOK'
  BY <1>3, <1>4, <1>5, <1>6, <1>7, <1>8 DEF TypeOK, ThreadRec
<1>. QED
  BY <1>9, <1>10

\* A client thread takes a step.
LEMMA ThreadTyped ==
    ASSUME TypeOK, NEW a \in Activities, ClientThread(a)
    PROVE  TypeOK'
<1>0. UNCHANGED <<screen, list, shown, changed, client, left, covered, mixed>>
  BY DEF ClientThread, Connect, AssignSocket, ReadFails, Post, Read
<1>1. /\ thread' \in [Activities -> ThreadRec]
      /\ thread'[a].pc = "post" <=> thread'[a].frame # Notify
      /\ thread[a].pc # "new" /\ thread'[a].pc # "new"
      /\ \A b \in Activities \ {a} : thread'[b] = thread[b]
  <2>1. CASE Connect(a) \/ AssignSocket(a) \/ ReadFails(a)
    <3>1. PICK pc \in {"assign", "done", "read"} : Goto(a, pc)
      BY <2>1 DEF Connect, AssignSocket, ReadFails
    <3>2. thread[a].pc \notin {"new", "post"}
      BY <2>1 DEF Connect, AssignSocket, ReadFails
    <3>. QED
      BY <3>1, <3>2, Moved
  <2>2. CASE Post(a)
    <3>1. thread' = [thread EXCEPT ![a] = [pc |-> "read", frame |-> Notify]] /\ thread[a].pc = "post"
      BY <2>2 DEF Post
    <3>2. [pc |-> "read", frame |-> Notify] \in ThreadRec
      BY DEF ThreadRec
    <3>. QED
      BY <3>1, <3>2 DEF TypeOK, ThreadRec
  <2>3. ASSUME NEW f \in Frame, Read(a, f)
        PROVE  /\ thread' \in [Activities -> ThreadRec]
               /\ thread'[a].pc = "post" <=> thread'[a].frame # Notify
               /\ thread[a].pc # "new" /\ thread'[a].pc # "new"
               /\ \A b \in Activities \ {a} : thread'[b] = thread[b]
    <3>1. thread' = [thread EXCEPT ![a] = [pc |-> "post", frame |-> f]] /\ thread[a].pc = "read"
      BY <2>3 DEF Read
    <3>2. [pc |-> "post", frame |-> f] \in ThreadRec /\ f # Notify
      BY FramesNotify DEF ThreadRec
    <3>. QED
      BY <3>1, <3>2 DEF TypeOK, ThreadRec
  <2>. QED
    BY <2>1, <2>2, <2>3 DEF ClientThread
<1>2. /\ \A b \in Activities : thread'[b].pc = "post" <=> thread'[b].frame # Notify
      /\ \A b \in Activities : thread'[b].pc = "new" <=> b > instance'
  BY <1>0, <1>1 DEF TypeOK
<1>3. /\ uiQueue' \in Seq(Runnables) /\ socket' \in [Activities -> {"null", "open", "closed"}]
      /\ backlog' \in Seq(Activities) /\ frames' \in 0 .. MaxFrames
  <2>1. CASE Post(a)
    <3>1. UNCHANGED <<socket, backlog, frames>>
      BY <2>1 DEF Post
    <3>2. uiQueue' \in Seq(Runnables)
      BY <2>1, Posted
    <3>. QED
      BY <3>1, <3>2 DEF TypeOK
  <2>2. CASE ~Post(a)
    <3>1. /\ uiQueue' = uiQueue
          /\ socket' = socket \/ socket' = [socket EXCEPT ![a] = "open"]
          /\ backlog' = backlog \/ backlog' = Append(backlog, a)
          /\ frames' = frames \/ (frames < MaxFrames /\ frames' = frames + 1)
      BY <2>2 DEF ClientThread, Connect, AssignSocket, ReadFails, Read
    <3>2. socket' \in [Activities -> {"null", "open", "closed"}]
      BY <3>1 DEF TypeOK
    <3>3. backlog' \in Seq(Activities)
      <4>1. backlog \in Seq(Activities)
        BY DEF TypeOK
      <4>. QED
        BY <3>1, <4>1
    <3>4. frames' \in 0 .. MaxFrames
      BY <3>1, ActivitiesAssumption DEF TypeOK
    <3>. QED
      BY <3>1, <3>2, <3>3, <3>4 DEF TypeOK, Runnables
  <2>. QED
    BY <2>1, <2>2
<1>. QED
  BY <1>0, <1>1, <1>2, <1>3 DEF TypeOK, ThreadRec, Runnables

\* The UI thread, the user and the server leave the types alone.
LEMMA OthersTyped ==
    ASSUME TypeOK, UI \/ GotoTaskActivity \/ BackDown \/ BackUp \/ Accept \/ RestartServer
    PROVE  TypeOK'
<1>1. CASE RunRunnable
  <2>1. PICK r \in Runnables : /\ uiQueue' \in Seq(Runnables) /\ list' \in [Activities -> Seq(Row)]
                               /\ changed' = changed \cup {r.on}
    BY <1>1, RunLists
  <2>2. r.on \in Activities
    BY DEF Runnables
  <2>3. UNCHANGED <<shown, screen, thread, socket, network, history>>
    BY <1>1 DEF RunRunnable
  <2>. QED
    BY <2>1, <2>2, <2>3 DEF TypeOK, Runnables
<1>2. CASE Layout
  <2>1. /\ stack # <<>> /\ stack \in Seq(1 .. instance)
        /\ shown' = [shown EXCEPT ![Head(stack)] = list[Head(stack)]]
        /\ changed' = changed \ {Head(stack)}
        /\ UNCHANGED <<list, uiQueue, screen, thread, socket, network, history>>
    BY <1>2 DEF Layout, TypeOK
  <2>2. Head(stack) \in Activities
    <3>1. Head(stack) \in 1 .. instance
      BY <2>1, HeadAndTail, Zenon
    <3>. QED
      BY <3>1, ActivitiesAssumption DEF TypeOK, Activities
  <2>3. shown' \in [Activities -> Seq(Row)] /\ changed' \subseteq Activities
    BY <2>1, <2>2 DEF TypeOK
  <2>. QED
    BY <2>1, <2>3 DEF TypeOK
<1>3. CASE GotoTaskActivity
  <2>1. /\ intents < 2 /\ intents' = intents + 1
        /\ UNCHANGED <<stack, instance, pressed, rows, uiQueue, thread, socket, network, history>>
    BY <1>3 DEF GotoTaskActivity
  <2>2. intents' \in 0 .. 2
    BY <2>1 DEF TypeOK
  <2>. QED
    BY <2>1, <2>2 DEF TypeOK
<1>4. CASE BackDown
  <2>. DEFINE a == Head(stack)
  <2>1. /\ stack # <<>> /\ pressed' = TRUE
        /\ UNCHANGED <<intents, stack, instance, rows, uiQueue, thread, network, covered, mixed>>
        /\ \/ socket' = [socket EXCEPT ![a] = "closed"] /\ left' = left \cup {a}
           \/ UNCHANGED <<socket, left>>
    BY <1>4, Zenon DEF BackDown, CloseSocket
  <2>2. a \in 1 .. instance
    BY <2>1 DEF TypeOK
  <2>3. a \in Activities
    BY <2>2, ActivitiesAssumption DEF TypeOK, Activities
  <2>. HIDE DEF a
  <2>4. socket' \in [Activities -> {"null", "open", "closed"}] /\ left' \subseteq Activities
    BY <2>1, <2>3 DEF TypeOK
  <2>. QED
    BY <2>1, <2>4 DEF TypeOK
<1>6. CASE BackUp
  <2>1. /\ pressed' = FALSE /\ instance' = instance
        /\ stack # <<>> /\ stack' = Tail(stack)
        /\ UNCHANGED <<intents, rows, uiQueue, thread, socket, network, history>>
    BY <1>6 DEF BackUp, InstanceAfterBack, TypeOK
  <2>2. stack' \in Seq(1 .. instance)
    BY <2>1 DEF TypeOK
  <2>. QED
    BY <2>1, <2>2 DEF TypeOK
<1>5. CASE Accept \/ RestartServer
  <2>1. /\ UNCHANGED <<frames, screen, rows, uiQueue, thread, socket, history>>
        /\ \/ backlog # <<>> /\ client' = Head(backlog) /\ backlog' = Tail(backlog)
           \/ client' = 0 /\ backlog' = <<>>
    BY <1>5 DEF Accept, RestartServer
  <2>2. backlog' \in Seq(Activities) /\ client' \in Activities \cup {0}
    <3>1. backlog \in Seq(Activities)
      BY DEF TypeOK
    <3>2. backlog # <<>> => Head(backlog) \in Activities /\ Tail(backlog) \in Seq(Activities)
      BY <3>1, HeadAndTail, Zenon
    <3>3. CASE backlog # <<>> /\ client' = Head(backlog) /\ backlog' = Tail(backlog)
      BY <3>2, <3>3
    <3>4. CASE client' = 0 /\ backlog' = <<>>
      BY <3>4
    <3>. QED
      BY <2>1, <3>3, <3>4, Zenon
  <2>3. client' \in 0 .. MaxActivities
    BY <2>2, ActivitiesAssumption DEF Activities
  <2>. QED
    BY <2>1, <2>2, <2>3 DEF TypeOK
<1>. QED
  BY <1>1, <1>2, <1>3, <1>4, <1>5, <1>6 DEF UI

\* What the steps that create no activity leave alone.
LEMMA Steady ==
    ASSUME \/ UI \/ GotoTaskActivity \/ BackDown \/ BackUp \/ Accept \/ RestartServer
           \/ \E a \in Activities : ClientThread(a)
    PROVE  UNCHANGED <<instance, covered, mixed>>
BY DEF UI, RunRunnable, Layout, GotoTaskActivity, BackDown, BackUp, InstanceAfterBack, Accept, RestartServer,
       ClientThread, Connect, AssignSocket, ReadFails, Post, Read

\* A step keeps the types, and the room for the activities asked for.
LEMMA TypedStep ==
    ASSUME TypeOK, RoomInv, [Next]_vars
    PROVE  TypeOK' /\ RoomInv'
<1>1. CASE StartActivity \/ Recreate
  BY <1>1, CreationTyped
<1>2. CASE GotoTaskActivity
  <2>1. /\ instance + intents < MaxActivities /\ intents' = intents + 1 /\ instance' = instance
    BY <1>2 DEF GotoTaskActivity
  <2>2. RoomInv'
    BY <2>1, ActivitiesAssumption DEF TypeOK, RoomInv
  <2>. QED
    BY <1>2, <2>2, OthersTyped
<1>3. CASE UI \/ BackDown \/ BackUp \/ Accept \/ RestartServer
  <2>1. intents' = intents /\ instance' = instance
    BY <1>3 DEF UI, RunRunnable, Layout, BackDown, BackUp, InstanceAfterBack, Accept, RestartServer
  <2>. QED
    BY <1>3, <2>1, OthersTyped DEF RoomInv
<1>4. CASE \E a \in Activities : ClientThread(a)
  <2>1. PICK a \in Activities : ClientThread(a)
    BY <1>4
  <2>2. intents' = intents /\ instance' = instance
    BY <2>1 DEF ClientThread, Connect, AssignSocket, ReadFails, Post, Read
  <2>. QED
    BY <2>1, <2>2, ThreadTyped DEF RoomInv
<1>5. CASE UNCHANGED vars
  BY <1>5 DEF vars, TypeOK, RoomInv
<1>. QED
  BY <1>1, <1>2, <1>3, <1>4, <1>5 DEF Next

-----------------------------------------------------------------------------
(* The static variables.                                                   *)

\* A step keeps the one thread and what it has posted.
LEMMA OneThreadStep ==
    ASSUME TypeOK, RoomInv, OneThreadInv, [Next]_vars
    PROVE  OneThreadInv'
<1>. SUFFICES ASSUME ~mixed'
              PROVE  /\ \A a \in Activities : Alive(a)' => a = instance'
                     /\ \A i \in DOMAIN uiQueue' : uiQueue'[i].on = uiQueue'[i].by
  BY DEF OneThreadInv
<1>1. CASE StartActivity \/ Recreate
  <2>1. /\ instance + 1 \in Activities /\ instance' = instance + 1
        /\ Goto(instance + 1, "connect")
        /\ ~mixed /\ \A b \in Activities : ~Alive(b)
        /\ UNCHANGED uiQueue
    BY <1>1, Created
  <2>2. thread[instance + 1].pc # "post"
    BY <2>1 DEF TypeOK, Alive
  <2>3. \A b \in Activities \ {instance + 1} : thread'[b] = thread[b]
    BY <2>1, <2>2, Moved
  <2>. QED
    BY <2>1, <2>3 DEF OneThreadInv, Alive
<1>2. CASE \E a \in Activities : ClientThread(a)
  <2>1. PICK a \in Activities : ClientThread(a)
    BY <1>2
  <2>2. UNCHANGED <<instance, mixed>>
    BY <1>2, Steady
  <2>3. Alive(a) /\ \A b \in Activities \ {a} : thread'[b] = thread[b]
    BY <2>1 DEF ClientThread, Connect, AssignSocket, ReadFails, Post, Read, Goto, Alive, TypeOK
  <2>4. a = instance
    BY <2>2, <2>3 DEF OneThreadInv
  <2>5. \A b \in Activities : Alive(b)' => b = instance'
    BY <2>2, <2>3, <2>4 DEF OneThreadInv, Alive
  <2>6. CASE Post(a)
    <3>1. \A i \in DOMAIN uiQueue' : \/ \E j \in DOMAIN uiQueue : uiQueue'[i] = uiQueue[j]
                                     \/ uiQueue'[i].on = instance /\ uiQueue'[i].by = a
      BY <2>6, Posted
    <3>. QED
      BY <2>2, <2>4, <2>5, <3>1 DEF OneThreadInv
  <2>7. CASE ~Post(a)
    <3>1. uiQueue' = uiQueue
      BY <2>1, <2>7 DEF ClientThread, Connect, AssignSocket, ReadFails, Read
    <3>. QED
      BY <2>2, <2>5, <3>1 DEF OneThreadInv
  <2>. QED
    BY <2>6, <2>7
<1>3. CASE RunRunnable
  <2>1. /\ uiQueue # <<>> /\ uiQueue' = Tail(uiQueue) /\ uiQueue \in Seq(Runnables)
    BY <1>3, RunLists
  <2>2. UNCHANGED <<instance, thread, mixed>>
    BY <1>3 DEF RunRunnable
  <2>3. \A i \in DOMAIN uiQueue' : i + 1 \in DOMAIN uiQueue /\ uiQueue'[i] = uiQueue[i + 1]
    BY <2>1, HeadAndTail
  <2>. QED
    BY <2>2, <2>3 DEF OneThreadInv, Alive
<1>4. CASE \/ Layout \/ GotoTaskActivity \/ BackDown \/ BackUp \/ Accept \/ RestartServer \/ UNCHANGED vars
  <2>1. UNCHANGED <<instance, thread, uiQueue, mixed>>
    BY <1>4 DEF Layout, GotoTaskActivity, BackDown, BackUp, InstanceAfterBack, Accept, RestartServer, vars
  <2>. QED
    BY <2>1 DEF OneThreadInv, Alive
<1>. QED
  BY <1>1, <1>2, <1>3, <1>4 DEF Next, UI

\* A step keeps each list to the rows of one thread.
LEMMA ListsStep ==
    ASSUME TypeOK, RoomInv, OneThreadInv, ListsItsOwn, [Next]_vars
    PROVE  ListsItsOwn'
<1>. SUFFICES ASSUME ~mixed', NEW a \in Activities
              PROVE  \A i \in DOMAIN list'[a] : list'[a][i].by = a
  BY DEF ListsItsOwn
<1>1. CASE StartActivity \/ Recreate
  <2>1. /\ instance + 1 \in Activities /\ ~mixed
        /\ list' = [list EXCEPT ![instance + 1] = <<>>]
    BY <1>1, Created
  <2>2. list'[a] = list[a] \/ list'[a] = <<>>
    BY <2>1 DEF TypeOK
  <2>. QED
    BY <2>1, <2>2 DEF ListsItsOwn
<1>2. CASE RunRunnable
  <2>1. PICK r \in Runnables :
              /\ uiQueue # <<>> /\ r = Head(uiQueue) /\ uiQueue \in Seq(Runnables)
              /\ \A b \in Activities : b # r.on => list'[b] = list[b]
              /\ \A i \in DOMAIN list'[r.on] :
                    \/ \E j \in DOMAIN list[r.on] : list'[r.on][i] = list[r.on][j]
                    \/ list'[r.on][i].by = r.by
    BY <1>2, RunLists
  <2>2. ~mixed
    BY <1>2 DEF RunRunnable
  <2>3. r.on = r.by
    BY <2>1, <2>2, HeadAndTail DEF OneThreadInv
  <2>. QED
    BY <2>1, <2>2, <2>3 DEF ListsItsOwn
<1>3. CASE \/ Layout \/ GotoTaskActivity \/ BackDown \/ BackUp \/ Accept \/ RestartServer \/ UNCHANGED vars
           \/ \E b \in Activities : ClientThread(b)
  <2>1. UNCHANGED <<list, mixed>>
    BY <1>3 DEF Layout, GotoTaskActivity, BackDown, BackUp, Accept, RestartServer, vars,
                ClientThread, Connect, AssignSocket, ReadFails, Post, Read
  <2>. QED
    BY <2>1 DEF ListsItsOwn
<1>. QED
  BY <1>1, <1>2, <1>3 DEF Next, UI

\* A step keeps the latest activity on top, and what is laid out up to date.
LEMMA ScreenStep ==
    ASSUME TypeOK, RoomInv, ScreenInv, [Next]_vars
    PROVE  ScreenInv'
<1>1. CASE StartActivity \/ Recreate
  <2>1. PICK under \in Seq(1 .. instance) :
              /\ instance + 1 \in Activities /\ instance' = instance + 1
              /\ stack' = <<instance + 1>> \o under
              /\ list' = [list EXCEPT ![instance + 1] = <<>>]
              /\ changed' = changed \cup {instance + 1}
              /\ covered' = (covered \/ under # <<>>)
              /\ UNCHANGED shown
    BY <1>1, Created
  <2>2. ~covered' => stack' = <<instance'>>
    <3>1. under = <<>> => <<instance + 1>> \o under = <<instance + 1>>
      OBVIOUS
    <3>. QED
      BY <2>1, <3>1, Zenon
  <2>3. \A a \in Activities \ changed' : shown'[a] = list'[a]
    BY <2>1 DEF ScreenInv, TypeOK
  <2>. QED
    BY <2>2, <2>3 DEF ScreenInv
<1>2. CASE RunRunnable
  <2>1. PICK r \in Runnables : /\ changed' = changed \cup {r.on}
                               /\ \A a \in Activities : a # r.on => list'[a] = list[a]
    BY <1>2, RunLists
  <2>2. UNCHANGED <<shown, stack, instance, covered>>
    BY <1>2 DEF RunRunnable
  <2>. QED
    BY <2>1, <2>2 DEF ScreenInv
<1>3. CASE Layout
  <2>. DEFINE h == Head(stack)
  <2>1. /\ stack # <<>> /\ h \in changed
        /\ shown' = [shown EXCEPT ![h] = list[h]] /\ changed' = changed \ {h}
        /\ UNCHANGED <<list, stack, instance, covered>>
    BY <1>3 DEF Layout
  <2>. HIDE DEF h
  <2>2. h \in Activities /\ DOMAIN shown = Activities
    BY <2>1 DEF TypeOK
  <2>3. \A a \in Activities \ changed' : shown'[a] = list'[a]
    BY <2>1, <2>2 DEF ScreenInv
  <2>. QED
    BY <2>1, <2>3 DEF ScreenInv
<1>4. CASE BackDown \/ BackUp
  <2>1. /\ stack' = stack \/ (stack # <<>> /\ stack' = Tail(stack))
        /\ UNCHANGED <<instance, list, shown, changed, covered>>
    BY <1>4 DEF BackDown, BackUp, InstanceAfterBack, TypeOK
  <2>2. stack = <<instance>> => Tail(stack) = <<>>
    OBVIOUS
  <2>. QED
    BY <2>1, <2>2 DEF ScreenInv
<1>5. CASE \/ GotoTaskActivity \/ Accept \/ RestartServer \/ UNCHANGED vars
           \/ \E b \in Activities : ClientThread(b)
  <2>1. UNCHANGED <<stack, instance, list, shown, changed, covered>>
    BY <1>5 DEF GotoTaskActivity, Accept, RestartServer, vars,
                ClientThread, Connect, AssignSocket, ReadFails, Post, Read
  <2>. QED
    BY <2>1 DEF ScreenInv
<1>. QED
  BY <1>1, <1>2, <1>3, <1>4, <1>5 DEF Next, UI

-----------------------------------------------------------------------------
(* The connection accepted.                                                *)

\* The steps that leave the server's queue alone: what they read is of the
\* connection accepted.
LEMMA AcceptKept ==
    ASSUME AcceptInv, UNCHANGED <<backlog, client>>,
           \A a \in Activities :
              /\ Heard(a)' => Heard(a) \/ client = a
              /\ thread'[a].pc \in {"new", "connect"} => thread[a].pc \in {"new", "connect"}
    PROVE  AcceptInv'
<1>1. \A a \in Activities : Waiting(a)' <=> Waiting(a)
  BY DEF Waiting
<1>2. \A i, j \in DOMAIN backlog' : backlog'[i] = backlog'[j] => i = j
  BY DEF AcceptInv
<1>3. ASSUME NEW a \in Activities
      PROVE  /\ Waiting(a)' => client' # a /\ ~Heard(a)'
             /\ Waiting(a)' \/ client' = a \/ Heard(a)' => thread'[a].pc \notin {"new", "connect"}
  <2>1. /\ Waiting(a) => client # a /\ ~Heard(a)
        /\ Waiting(a) \/ client = a \/ Heard(a) => thread[a].pc \notin {"new", "connect"}
    BY DEF AcceptInv
  <2>. QED
    BY <1>1, <2>1
<1>. QED
  BY <1>2, <1>3, Zenon DEF AcceptInv

\* What is posted or listed was heard.
LEMMA HeardOf ==
    ASSUME NEW a \in Activities
    PROVE  /\ thread[a].pc = "post" => Heard(a)
           /\ \A i \in DOMAIN uiQueue : uiQueue[i].by = a => Heard(a)
           /\ \A b \in Activities : \A i \in DOMAIN list[b] : list[b][i].by = a => Heard(a)
BY Zenon DEF Heard

\* A thread may read from the connection accepted.
Reads(a) == client = a /\ socket[a] = "open"

\* What has been heard of a thread is what it has just read, or was heard before.
LEMMA HeardKept ==
    ASSUME NEW a \in Activities,
           thread'[a].pc = "post" => Heard(a) \/ Reads(a),
           \A i \in DOMAIN uiQueue' : uiQueue'[i].by = a => Heard(a),
           \A b \in Activities : \A i \in DOMAIN list'[b] : list'[b][i].by = a => Heard(a)
    PROVE  Heard(a)' => Heard(a) \/ Reads(a)
<1>. SUFFICES ASSUME Heard(a)' PROVE Heard(a) \/ Reads(a)
  OBVIOUS
<1>1. \/ thread'[a].pc = "post"
      \/ \E i \in DOMAIN uiQueue' : uiQueue'[i].by = a
      \/ \E b \in Activities : \E i \in DOMAIN list'[b] : list'[b][i].by = a
  BY Zenon DEF Heard
<1>. QED
  BY <1>1, Zenon

\* So it is when a client thread takes a step.
LEMMA HeardThread ==
    ASSUME TypeOK, NEW a \in Activities, ClientThread(a), NEW b \in Activities
    PROVE  Heard(b)' => Heard(b) \/ Reads(b)
<1>1. UNCHANGED list
  BY DEF ClientThread, AssignSocket, ReadFails, Post, Read, Connect
<1>2. /\ \A c \in Activities \ {a} : thread'[c] = thread[c]
      /\ thread'[a].pc = "post" => Reads(a)
  <2>1. CASE \E f \in Frame : Read(a, f)
    BY <2>1 DEF Read, Reads, TypeOK
  <2>2. CASE Post(a)
    BY <2>2 DEF Post, TypeOK
  <2>3. CASE AssignSocket(a) \/ ReadFails(a) \/ Connect(a)
    <3>1. PICK pc \in {"assign", "done", "read"} : Goto(a, pc)
      BY <2>3 DEF Connect, AssignSocket, ReadFails
    <3>2. thread[a].pc # "post"
      BY <2>3 DEF Connect, AssignSocket, ReadFails
    <3>3. /\ thread'[a].pc = pc
          /\ \A c \in Activities \ {a} : thread'[c] = thread[c]
      BY <3>1, <3>2, Moved
    <3>. QED
      BY <3>3
  <2>. QED
    BY <2>1, <2>2, <2>3 DEF ClientThread
<1>3. \A i \in DOMAIN uiQueue' : \/ \E j \in DOMAIN uiQueue : uiQueue'[i] = uiQueue[j]
                                 \/ thread[a].pc = "post" /\ uiQueue'[i].by = a
  <2>1. CASE Post(a)
    <3>1. thread[a].pc = "post"
      BY <2>1 DEF Post
    <3>. QED
      BY <2>1, <3>1, Posted
  <2>2. CASE ~Post(a)
    <3>1. UNCHANGED uiQueue
      BY <2>2 DEF ClientThread, AssignSocket, ReadFails, Read, Connect
    <3>. QED
      BY <3>1
  <2>. QED
    BY <2>1, <2>2
<1>4. thread'[b].pc = "post" => Heard(b) \/ Reads(b)
  BY <1>2, HeardOf
<1>5. \A i \in DOMAIN uiQueue' : uiQueue'[i].by = b => Heard(b)
  BY <1>3, HeardOf
<1>6. \A c \in Activities : \A i \in DOMAIN list'[c] : list'[c][i].by = b => Heard(b)
  BY <1>1, HeardOf
<1>. QED
  BY <1>4, <1>5, <1>6, HeardKept

\* And when a runnable runs: what it lists was posted.
LEMMA HeardRun ==
    ASSUME TypeOK, RunRunnable, NEW a \in Activities
    PROVE  Heard(a)' => Heard(a) \/ Reads(a)
<1>1. PICK r \in Runnables :
            /\ uiQueue # <<>> /\ r = Head(uiQueue) /\ uiQueue' = Tail(uiQueue)
            /\ uiQueue \in Seq(Runnables)
            /\ \A b \in Activities : b # r.on => list'[b] = list[b]
            /\ \A i \in DOMAIN list'[r.on] :
                  \/ \E j \in DOMAIN list[r.on] : list'[r.on][i] = list[r.on][j]
                  \/ list'[r.on][i].by = r.by
  BY RunLists
<1>2. UNCHANGED thread
  BY DEF RunRunnable
<1>3. /\ \A i \in DOMAIN uiQueue' : i + 1 \in DOMAIN uiQueue /\ uiQueue'[i] = uiQueue[i + 1]
      /\ 1 \in DOMAIN uiQueue /\ r = uiQueue[1]
  BY <1>1, HeadAndTail
<1>4. r.on \in Activities
  BY DEF Runnables
<1>5. thread'[a].pc = "post" => Heard(a) \/ Reads(a)
  BY <1>2, HeardOf
<1>6. \A i \in DOMAIN uiQueue' : uiQueue'[i].by = a => Heard(a)
  BY <1>3, HeardOf
<1>7. r.by = a => Heard(a)
  BY <1>3, HeardOf
<1>8. ASSUME NEW c \in Activities, NEW i \in DOMAIN list'[c], list'[c][i].by = a
      PROVE  Heard(a)
  BY <1>1, <1>4, <1>7, <1>8, HeardOf
<1>. QED
  BY <1>5, <1>6, <1>8, HeardKept

\* And when an activity is created, with an empty list.
LEMMA HeardCreated ==
    ASSUME TypeOK, RoomInv, StartActivity \/ Recreate, NEW a \in Activities
    PROVE  Heard(a)' => Heard(a) \/ Reads(a)
<1>. DEFINE n == instance + 1
<1>1. /\ n \in Activities /\ Goto(n, "connect")
      /\ list' = [list EXCEPT ![n] = <<>>]
      /\ UNCHANGED uiQueue
  BY Created
<1>2. thread[n].pc = "new"
  BY <1>1 DEF TypeOK, Activities
<1>. HIDE DEF n
<1>3. /\ thread'[n].pc = "connect"
      /\ \A b \in Activities \ {n} : thread'[b] = thread[b]
  BY <1>1, <1>2, Moved
<1>4. \A b \in Activities : list'[b] = list[b] \/ list'[b] = <<>>
  BY <1>1 DEF TypeOK
<1>5. thread'[a].pc = "post" => Heard(a) \/ Reads(a)
  BY <1>3, HeardOf
<1>6. \A i \in DOMAIN uiQueue' : uiQueue'[i].by = a => Heard(a)
  BY <1>1, HeardOf
<1>7. \A c \in Activities : \A i \in DOMAIN list'[c] : list'[c][i].by = a => Heard(a)
  BY <1>4, HeardOf
<1>. QED
  BY <1>5, <1>6, <1>7, HeardKept

\* In any step.
LEMMA HeardStep ==
    ASSUME TypeOK, RoomInv, [Next]_vars, NEW a \in Activities
    PROVE  Heard(a)' => Heard(a) \/ Reads(a)
<1>1. CASE StartActivity \/ Recreate
  BY <1>1, HeardCreated
<1>2. CASE \E b \in Activities : ClientThread(b)
  BY <1>2, HeardThread
<1>3. CASE RunRunnable
  BY <1>3, HeardRun
<1>4. CASE \/ Layout \/ GotoTaskActivity \/ BackDown \/ BackUp \/ Accept \/ RestartServer
           \/ UNCHANGED vars
  <2>1. UNCHANGED <<thread, uiQueue, list>>
    BY <1>4 DEF Layout, GotoTaskActivity, BackDown, BackUp, Accept, RestartServer, vars
  <2>. QED
    BY <2>1 DEF Heard
<1>. QED
  BY <1>1, <1>2, <1>3, <1>4 DEF Next, UI

\* A step keeps the socket that was read from, and what closed it.
LEMMA SocketStep ==
    ASSUME TypeOK, RoomInv, SocketInv, [Next]_vars
    PROVE  SocketInv'
<1>1. \A a \in Activities : Heard(a)' => socket[a] # "null"
  BY HeardStep DEF SocketInv, Reads
<1>2. CASE BackDown
  <2>1. \/ /\ socket' = [socket EXCEPT ![Head(stack)] = "closed"]
           /\ left' = left \cup {Head(stack)}
        \/ UNCHANGED <<socket, left>>
    BY <1>2 DEF BackDown, CloseSocket
  <2>. QED
    BY <1>1, <2>1 DEF SocketInv, TypeOK
<1>3. CASE \E a \in Activities : AssignSocket(a)
  <2>1. PICK a \in Activities : socket' = [socket EXCEPT ![a] = "open"] /\ UNCHANGED left
    BY <1>3 DEF AssignSocket
  <2>. QED
    BY <1>1, <2>1 DEF SocketInv, TypeOK
<1>4. CASE ~BackDown /\ ~\E a \in Activities : AssignSocket(a)
  <2>1. CASE StartActivity \/ Recreate
    <3>1. UNCHANGED <<socket, left>>
      BY <2>1, Created
    <3>. QED
      BY <1>1, <3>1 DEF SocketInv
  <2>2. CASE ~(StartActivity \/ Recreate)
    <3>1. UNCHANGED <<socket, left>>
      BY <1>4, <2>2 DEF Next, UI, RunRunnable, Layout, GotoTaskActivity, BackUp, Accept, vars,
                        RestartServer, ClientThread, Connect, ReadFails, Post, Read
    <3>. QED
      BY <1>1, <3>1 DEF SocketInv
  <2>. QED
    BY <2>1, <2>2
<1>. QED
  BY <1>2, <1>3, <1>4

\* A step of a client thread, but for a connection made.
LEMMA AcceptThread ==
    ASSUME TypeOK, AcceptInv, NEW a \in Activities,
           AssignSocket(a) \/ ReadFails(a) \/ Post(a) \/ (\E f \in Frame : Read(a, f))
             \/ (Connect(a) /\ UNCHANGED backlog)
    PROVE  AcceptInv'
<1>1. UNCHANGED <<backlog, client>> /\ ClientThread(a)
  BY DEF AssignSocket, ReadFails, Post, Read, Connect, ClientThread
<1>2. /\ \A b \in Activities \ {a} : thread'[b] = thread[b]
      /\ thread'[a].pc \notin {"new", "connect"}
  BY DEF Connect, AssignSocket, ReadFails, Post, Read, Goto, TypeOK
<1>3. \A b \in Activities : Heard(b)' => Heard(b) \/ client = b
  BY <1>1, HeardThread DEF Reads
<1>. QED
  BY <1>1, <1>2, <1>3, AcceptKept

\* A thread has connected: it has read nothing, and is accepted in its turn.
LEMMA AcceptConnect ==
    ASSUME TypeOK, AcceptInv, NEW a \in Activities,
           Connect(a), Goto(a, "assign"), backlog' = Append(backlog, a)
    PROVE  AcceptInv'
<1>1. UNCHANGED <<uiQueue, list, client>> /\ thread[a].pc = "connect"
  BY DEF Connect
<1>2. /\ thread'[a].pc = "assign"
      /\ \A b \in Activities \ {a} : thread'[b] = thread[b]
  BY <1>1, Moved
<1>3. ~Waiting(a) /\ client # a /\ ~Heard(a)
  BY <1>1 DEF AcceptInv
<1>4. \A b \in Activities : Heard(b)' <=> Heard(b)
  BY <1>1, <1>2 DEF Heard
<1>5. backlog \in Seq(Activities)
  BY DEF TypeOK
<1>6. /\ \A i \in DOMAIN backlog' : \/ i \in DOMAIN backlog /\ backlog'[i] = backlog[i]
                                    \/ i = Len(backlog) + 1 /\ backlog'[i] = a
      /\ \A i \in DOMAIN backlog : i \in DOMAIN backlog' /\ backlog'[i] = backlog[i]
      /\ Len(backlog) + 1 \in DOMAIN backlog' /\ backlog'[Len(backlog) + 1] = a
  BY <1>5
<1>7. \A b \in Activities : Waiting(b)' <=> Waiting(b) \/ b = a
  BY <1>6 DEF Waiting
<1>8. \A i, j \in DOMAIN backlog' : backlog'[i] = backlog'[j] => i = j
  BY <1>3, <1>6 DEF Waiting, AcceptInv
<1>9. ASSUME NEW b \in Activities
      PROVE  /\ Waiting(b)' => client' # b /\ ~Heard(b)'
             /\ Waiting(b)' \/ client' = b \/ Heard(b)' => thread'[b].pc \notin {"new", "connect"}
  <2>1. /\ Waiting(b) => client # b /\ ~Heard(b)
        /\ Waiting(b) \/ client = b \/ Heard(b) => thread[b].pc \notin {"new", "connect"}
    BY DEF AcceptInv
  <2>2. CASE b = a
    BY <1>1, <1>2, <1>3, <1>4, <2>2
  <2>3. CASE b # a
    BY <1>1, <1>2, <1>4, <1>7, <2>1, <2>3
  <2>. QED
    BY <2>2, <2>3
<1>. QED
  BY <1>8, <1>9, Zenon DEF AcceptInv

\* The server accepts the first connection that waits, or starts again.
LEMMA AcceptServer ==
    ASSUME TypeOK, AcceptInv, Accept \/ RestartServer
    PROVE  AcceptInv'
<1>1. UNCHANGED <<uiQueue, list, thread>>
  BY DEF Accept, RestartServer
<1>2. \A b \in Activities : Heard(b)' <=> Heard(b)
  BY <1>1 DEF Heard
<1>3. CASE Accept
  <2>1. backlog # <<>> /\ client' = Head(backlog) /\ backlog' = Tail(backlog)
    BY <1>3 DEF Accept
  <2>2. backlog \in Seq(Activities)
    BY DEF TypeOK
  <2>3. /\ \A i \in DOMAIN backlog' : i + 1 \in DOMAIN backlog /\ backlog'[i] = backlog[i + 1]
        /\ 1 \in DOMAIN backlog /\ client' = backlog[1]
    BY <2>1, <2>2, HeadAndTail
  <2>4. DOMAIN backlog' \subseteq Nat \ {0}
    BY <2>1, <2>2
  <2>5. \A i, j \in DOMAIN backlog' : backlog'[i] = backlog'[j] => i = j
    BY <2>3, <2>4 DEF AcceptInv
  <2>6. ASSUME NEW b \in Activities
        PROVE  /\ Waiting(b)' => client' # b /\ Waiting(b)
               /\ client' = b => Waiting(b)
    BY <2>3, <2>4 DEF AcceptInv, Waiting
  <2>7. ASSUME NEW b \in Activities
        PROVE  /\ Waiting(b)' => client' # b /\ ~Heard(b)'
               /\ Waiting(b)' \/ client' = b \/ Heard(b)' => thread'[b].pc \notin {"new", "connect"}
    <3>1. /\ Waiting(b) => client # b /\ ~Heard(b)
          /\ Waiting(b) \/ client = b \/ Heard(b) => thread[b].pc \notin {"new", "connect"}
      BY DEF AcceptInv
    <3>. QED
      BY <1>1, <1>2, <2>6, <3>1
  <2>. QED
    BY <2>5, <2>7, Zenon DEF AcceptInv
<1>4. CASE RestartServer
  <2>1. client' = 0 /\ backlog' = <<>>
    BY <1>4 DEF RestartServer
  <2>2. \A b \in Activities : ~Waiting(b)' /\ client' # b
    BY <2>1 DEF Waiting, Activities
  <2>3. \A i, j \in DOMAIN backlog' : backlog'[i] = backlog'[j] => i = j
    BY <2>1
  <2>4. \A b \in Activities : Heard(b) => thread[b].pc \notin {"new", "connect"}
    BY DEF AcceptInv
  <2>. QED
    BY <1>1, <1>2, <2>2, <2>3, <2>4 DEF AcceptInv
<1>. QED
  BY <1>3, <1>4

\* A step keeps the order of connecting, being accepted and reading.
LEMMA AcceptStep ==
    ASSUME TypeOK, RoomInv, AcceptInv, [Next]_vars
    PROVE  AcceptInv'
<1>1. CASE StartActivity \/ Recreate
  <2>. DEFINE n == instance + 1
  <2>1. /\ n \in Activities /\ Goto(n, "connect")
        /\ list' = [list EXCEPT ![n] = <<>>]
        /\ UNCHANGED <<uiQueue, backlog, client>>
    BY <1>1, Created
  <2>2. thread[n].pc = "new"
    BY <2>1 DEF TypeOK, Activities
  <2>. HIDE DEF n
  <2>3. /\ thread'[n].pc = "connect"
        /\ \A b \in Activities \ {n} : thread'[b] = thread[b]
    BY <2>1, <2>2, Moved
  <2>4. \A a \in Activities : Heard(a)' => Heard(a) \/ client = a
    BY <1>1, HeardCreated DEF Reads
  <2>. QED
    BY <2>1, <2>2, <2>3, <2>4, AcceptKept
<1>2. CASE \E a \in Activities : ClientThread(a)
  <2>1. PICK a \in Activities : ClientThread(a)
    BY <1>2
  <2>2. CASE Connect(a)
    <3>1. \/ Goto(a, "assign") /\ backlog' = Append(backlog, a)
          \/ UNCHANGED backlog
      BY <2>2 DEF Connect
    <3>. QED
      BY <2>2, <3>1, AcceptThread, AcceptConnect
  <2>3. CASE ~Connect(a)
    BY <2>1, <2>3, AcceptThread DEF ClientThread
  <2>. QED
    BY <2>2, <2>3
<1>3. CASE RunRunnable
  <2>1. UNCHANGED <<thread, backlog, client>>
    BY <1>3 DEF RunRunnable
  <2>2. \A a \in Activities : Heard(a)' => Heard(a) \/ client = a
    BY <1>3, HeardRun DEF Reads
  <2>. QED
    BY <2>1, <2>2, AcceptKept
<1>4. CASE Accept \/ RestartServer
  BY <1>4, AcceptServer
<1>5. CASE Layout \/ GotoTaskActivity \/ BackDown \/ BackUp \/ UNCHANGED vars
  <2>1. UNCHANGED <<thread, backlog, client, uiQueue, list>>
    BY <1>5 DEF Layout, GotoTaskActivity, BackDown, BackUp, vars
  <2>2. \A a \in Activities : Heard(a)' <=> Heard(a)
    BY <2>1 DEF Heard
  <2>. QED
    BY <2>1, <2>2, AcceptKept
<1>. QED
  BY <1>1, <1>2, <1>3, <1>4, <1>5 DEF Next, UI

-----------------------------------------------------------------------------
(* The theorems.                                                           *)

\* Nothing was started.
LEMMA InitLife == Init => TypeOK /\ LifeInv
<1>. SUFFICES ASSUME Init PROVE TypeOK /\ LifeInv
  OBVIOUS
<1>1. TypeOK
  <2>1. Activities = 1 .. MaxActivities /\ MaxActivities \in Nat /\ MaxFrames \in Nat
    BY ActivitiesAssumption DEF Activities
  <2>2. [pc |-> "new", frame |-> Notify] \in ThreadRec
    BY DEF ThreadRec
  <2>3. thread \in [Activities -> ThreadRec]
    BY <2>2 DEF Init
  <2>4. /\ \A a \in Activities : thread[a].pc = "post" <=> thread[a].frame # Notify
        /\ \A a \in Activities : thread[a].pc = "new" <=> a > instance
    BY <2>1 DEF Init
  <2>5. list \in [Activities -> Seq(Row)] /\ shown \in [Activities -> Seq(Row)]
    BY DEF Init
  <2>6. socket \in [Activities -> {"null", "open", "closed"}]
    BY DEF Init
  <2>7. /\ stack \in Seq(1 .. instance) /\ uiQueue \in Seq(Runnables) /\ backlog \in Seq(Activities)
    BY DEF Init
  <2>8. /\ intents \in 0 .. 2 /\ instance \in 0 .. MaxActivities /\ client \in 0 .. MaxActivities
        /\ frames \in 0 .. MaxFrames /\ changed \subseteq Activities /\ left \subseteq Activities
    BY <2>1 DEF Init
  <2>9. /\ covered \in BOOLEAN /\ mixed \in BOOLEAN /\ pressed \in BOOLEAN
        /\ pressed => stack # <<>>
    BY DEF Init
  <2>. QED
    BY <2>3, <2>4, <2>5, <2>6, <2>7, <2>8, <2>9 DEF TypeOK, ThreadRec, Runnables
<1>2. RoomInv
  BY ActivitiesAssumption DEF Init, RoomInv
<1>3. OneThreadInv
  BY DEF Init, OneThreadInv, Alive
<1>4. ListsItsOwn
  BY DEF Init, ListsItsOwn
<1>5. ScreenInv
  BY DEF Init, ScreenInv
<1>6. AcceptInv
  <2>1. /\ \A a \in Activities : thread[a].pc = "new"
        /\ uiQueue = <<>> /\ \A b \in Activities : list[b] = <<>>
        /\ backlog = <<>> /\ client = 0
    BY DEF Init
  <2>2. \A a \in Activities : ~Heard(a) /\ ~Waiting(a) /\ client # a
    BY <2>1 DEF Heard, Waiting, Activities
  <2>. QED
    BY <2>1, <2>2 DEF AcceptInv
<1>7. SocketInv
  <2>1. /\ \A a \in Activities : thread[a].pc = "new" /\ socket[a] = "null"
        /\ uiQueue = <<>> /\ \A b \in Activities : list[b] = <<>>
    BY DEF Init
  <2>2. \A a \in Activities : ~Heard(a)
    BY <2>1 DEF Heard
  <2>. QED
    BY <2>1, <2>2 DEF SocketInv
<1>. QED
  BY <1>1, <1>2, <1>3, <1>4, <1>5, <1>6, <1>7 DEF LifeInv

\* The life of the client keeps the types and the inductive invariant: there is
\* room for the activities asked for, one thread lives and lists its own rows, the
\* screen is that of the latest activity, and connections are accepted in turn.
THEOREM Life == Spec => [](TypeOK /\ LifeInv)
<1>1. TypeOK /\ LifeInv /\ [Next]_vars => TypeOK' /\ LifeInv'
  BY TypedStep, OneThreadStep, ListsStep, ScreenStep, AcceptStep, SocketStep
     DEF LifeInv
<1>. QED
  BY InitLife, <1>1, PTL DEF Spec

\* The types hold, for any number of activities and frames.
THEOREM LifeTyped == Spec => []TypeOK
BY Life, PTL

\* TasksActivity.instance sends no frame to the list of another activity, as long
\* as none was created while the thread of another lived.
THEOREM ListsOwnRows == Spec => []ListsItsOwn
<1>1. LifeInv => ListsItsOwn
  BY DEF LifeInv
<1>. QED
  BY Life, <1>1, PTL

\* When activities do not cover each other, what is laid out and not out of date
\* is the list of the latest activity.
LEMMA RowsTapped ==
    ASSUME TypeOK, LifeInv, ~covered, NEW i \in Tappable
    PROVE  /\ instance \in Activities /\ Head(stack) = instance
           /\ i \in DOMAIN list[instance] /\ shown[instance] = list[instance]
<1>1. stack # <<>> /\ Head(stack) \notin changed /\ i \in DOMAIN shown[Head(stack)]
  BY DEF Tappable
<1>2. stack = <<instance>>
  BY <1>1 DEF LifeInv, ScreenInv
<1>3. Head(stack) = instance
  BY <1>2
<1>4. Head(stack) \in 1 .. instance
  BY <1>1, HeadAndTail, Zenon DEF TypeOK
<1>5. instance \in Activities
  BY <1>3, <1>4, ActivitiesAssumption DEF TypeOK, Activities
<1>. QED
  BY <1>1, <1>3, <1>5 DEF LifeInv, ScreenInv

\* A tap opens the row under it, although onItemClick looks its position up in the
\* static taskList.
THEOREM TapsHit == Spec => []TapHitsRow
<1>1. TypeOK /\ LifeInv => TapHitsRow
  BY RowsTapped DEF TapHitsRow, TaskListNow, OnItemClick
<1>. QED
  BY Life, <1>1, PTL

\* A tap goes to the server on the connection that is shown: that its rows were
\* read says that it was accepted, and no other is before the server ends it.  Its
\* socket is open, unless Back has closed it.
THEOREM TapsArrive == Spec => []TapReachesServer
<1>1. ASSUME TypeOK, LifeInv, ~mixed, ~covered, NEW i \in Tappable
      PROVE  /\ OnItemClick(i).on = instance /\ OnCloseClick(i).on = instance
             /\ client = instance \/ Refused(instance)
             /\ socket[instance] = "open" \/ instance \in left
  <2>1. /\ instance \in Activities /\ Head(stack) = instance
        /\ i \in DOMAIN list[instance]
    BY <1>1, RowsTapped
  <2>2. list[instance][i].by = instance
    BY <1>1, <2>1 DEF LifeInv, ListsItsOwn
  <2>3. Heard(instance)
    BY <2>1, <2>2, HeardOf
  <2>4. ~Waiting(instance)
    BY <1>1, <2>1, <2>3 DEF LifeInv, AcceptInv
  <2>5. socket[instance] = "open" \/ instance \in left
    BY <1>1, <2>1, <2>3 DEF LifeInv, SocketInv, TypeOK
  <2>. QED
    BY <2>1, <2>4, <2>5 DEF OnItemClick, OnCloseClick, Refused, Waiting
<1>2. TypeOK /\ LifeInv => TapReachesServer
  BY <1>1 DEF TapReachesServer
<1>. QED
  BY Life, <1>2, PTL

=============================================================================
