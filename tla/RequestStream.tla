---------------------------- MODULE RequestStream ----------------------------
(***************************************************************************)
(* The requests of one client, from the taps on its list to what the       *)
(* server's receive thread does about them.                                *)
(*                                                                         *)
(* The client writes each request to its socket in one piece: one int for  *)
(* the task list, two for a window to open or to close.  TCP keeps the     *)
(* bytes in order and nothing else: one recv() may return several          *)
(* requests, or part of one, or end within an int.  IServer_RecieveThread  *)
(* does not frame them: whatever recv() left in recvBuffer, Server_Recv    *)
(* reads its first two ints.  The buffer is not cleared, and a recv() that *)
(* returns 0 is served as well.                                            *)
(***************************************************************************)
EXTENDS Integers, Sequences, FiniteSets

CONSTANTS
    Byte,        \* the values of a byte
    IntSize,     \* sizeof(int)
    Code,        \* the int that stands for each type of request
    Windows,     \* the HWNDs of the desktop, as ints
    BufferSize,  \* BUFFER_SIZE, in bytes
    MaxTaps      \* bound on the taps of the user

Types == {"ACTIVE_TASK_LIST", "WINDOW_OPEN", "WINDOW_CLOSE"}

\* An int, as its bytes on the wire.
Ints == [1 .. IntSize -> Byte]

\* The NULL HWND, and what calloc leaves in the buffer.
Zero == [j \in 1 .. IntSize |-> 0]

Codes == {Code[type] : type \in Types}

\* The ints that requests are made of.
Word == Codes \cup Windows \cup {Zero}

ASSUME RequestAssumption ==
    /\ 0 \in Byte
    /\ IntSize \in Nat \ {0}
    /\ Code \in [Types -> Ints]
    /\ \A s, t \in Types : Code[s] = Code[t] => s = t
    /\ Zero \notin Codes
    /\ Windows \subseteq Ints \ (Codes \cup {Zero})
    /\ BufferSize \in Nat /\ BufferSize >= 2 * IntSize
    /\ MaxTaps \in Nat

VARIABLES
    client,    \* where the Android client is
    sent,      \* the requests it has sent, in order
    stream,    \* the ints that were sent and that recv() has not returned in full
    taken,     \* how many bytes of the first of them it has returned
    buffer,    \* the first two ints of server->recvBuffer
    rx,        \* the receive thread
    executed,  \* what Server_Recv has done, in order
    torn,      \* history: a recv() ended within an int
    split,     \* history: a recv() ended within a request
    hasty      \* history: a request was sent before the last one was served

vars == <<client, sent, stream, taken, buffer, rx, executed, torn, split, hasty>>

-----------------------------------------------------------------------------
Request(type, w) == [type |-> type, hwnd |-> w]

\* What the client writes for a request.
Words(r) ==
    IF r.type = "ACTIVE_TASK_LIST" THEN <<Code[r.type]>> ELSE <<Code[r.type], r.hwnd>>

Deed(type, w) == [type |-> type, hwnd |-> w, again |-> rx.length = 0]

\* Variant: no break after the case of WINDOW_OPEN.
FallsThrough(type, w) ==
    executed' = executed \o <<Deed(type, w)>> \o
                (IF type = "WINDOW_OPEN" THEN <<Deed("WINDOW_CLOSE", w)>> ELSE <<>>)

Execute(type, w) == executed' = Append(executed, Deed(type, w))

-----------------------------------------------------------------------------
(* The client.                                                             *)

Write(r) ==
    /\ sent' = Append(sent, r)
    /\ stream' = stream \o Words(r)
    /\ hasty' = (hasty \/ stream # <<>> \/ rx.pc # "recv")
    /\ UNCHANGED <<taken, buffer, rx, executed, torn, split>>

\* The client thread, once it is connected.
RequestActiveTaskList ==
    /\ client = "connected"
    /\ client' = "running"
    /\ Write(Request("ACTIVE_TASK_LIST", Zero))

\* Rows to tap on come with the list, or before it with an ADD_TASK.
Tap(type, w) ==
    /\ client = "running"
    /\ Len(sent) <= MaxTaps
    /\ UNCHANGED client
    /\ Write(Request(type, w))

SignalWindowOpen(w)  == Tap("WINDOW_OPEN", w)
SignalWindowClose(w) == Tap("WINDOW_CLOSE", w)

CloseConnection ==
    /\ client # "left"
    /\ client' = "left"
    /\ UNCHANGED <<sent, stream, taken, buffer, rx, executed, torn, split, hasty>>

Client ==
    \/ RequestActiveTaskList
    \/ \E w \in Windows : SignalWindowOpen(w) \/ SignalWindowClose(w)
    \/ CloseConnection

-----------------------------------------------------------------------------
(* The receive thread.                                                     *)

RxAt(pc, length) == rx' = [pc |-> pc, length |-> length]

\* Byte j of the i-th int of what recv() returns, which starts within an int when
\* the last recv() ended within one.
Arriving(i, j) ==
    IF taken + j <= IntSize THEN stream[i][taken + j] ELSE stream[i + 1][taken + j - IntSize]

\* recv() returns the stream up to byte b of its (k + 1)-th int, and overwrites as
\* much of the buffer.
RecvReturns(k, b) ==
    LET n == IntSize * k + b - taken
        Overwritten(i, j) == IF i = 1 THEN j <= n ELSE IntSize + j <= n
    IN
    /\ rx.pc = "recv"
    /\ n \in 1 .. BufferSize
    /\ k <= Len(stream) /\ (b > 0 => k < Len(stream))
    /\ stream' = SubSeq(stream, k + 1, Len(stream))
    /\ taken' = b
    /\ buffer' = [i \in 1 .. 2 |-> [j \in 1 .. IntSize |->
                     IF Overwritten(i, j) THEN Arriving(i, j) ELSE buffer[i][j]]]
    /\ torn' = (torn \/ b > 0)
    /\ split' = (split \/ b > 0 \/ (stream' # <<>> /\ stream'[1] \in Windows))
    /\ RxAt("onRecv", n)
    /\ UNCHANGED <<client, sent, executed, hasty>>

\* recv() returns 0: the client has closed its end and everything is read.
RecvZero ==
    /\ rx.pc = "recv"
    /\ client = "left"
    /\ stream = <<>>
    /\ RxAt("onRecv", 0)
    /\ UNCHANGED <<client, sent, stream, taken, buffer, executed, torn, split, hasty>>

\* Variant: SOCKET_ERROR, which is -1, is a length like any other.
ServeFailure == RxAt("onRecv", -1)

\* The loop ends when recv() fails.
GiveUp == RxAt("done", 0)

\* A client that has left resets the connection when the server sends to it.
RecvFails ==
    /\ rx.pc = "recv"
    /\ client = "left"
    /\ GiveUp
    /\ UNCHANGED <<client, sent, stream, taken, buffer, executed, torn, split, hasty>>

\* Variant: the thread goes on after a recv() of 0.
AfterAlways(length) == "recv"

\* The loop ends after a recv() of 0.
After(length) == IF length = 0 THEN "done" ELSE "recv"

RxServes == UNCHANGED <<client, sent, stream, taken, buffer, torn, split, hasty>>

\* Variant: WINDOW_CLOSE has no case.
CasesNoClose == Types \ {"WINDOW_CLOSE"}

\* The cases of Server_Recv's switch.
Cases == Types

\* Server_Recv: the two ints at the start of the buffer, whatever recv() wrote.
Dispatch ==
    /\ rx.pc = "onRecv"
    /\ \/ \E type \in Cases :
            /\ buffer[1] = Code[type]
            /\ Execute(type, IF type = "ACTIVE_TASK_LIST" THEN Zero ELSE buffer[2])
            /\ RxAt(type, rx.length)
       \/ /\ \A type \in Cases : buffer[1] # Code[type]
          /\ RxAt(After(rx.length), 0)
          /\ UNCHANGED executed
    /\ RxServes

Served(type) ==
    /\ rx.pc = type
    /\ RxAt(After(rx.length), 0)
    /\ RxServes /\ UNCHANGED executed

\* The list has been sent: not while a window does not answer WM_GETICON.
TaskListSent == Served("ACTIVE_TASK_LIST")

\* The window has come to the front: SetWindowPos waits for its thread as well.
WindowOpened == Served("WINDOW_OPEN")

\* SendMessage(hwnd, WM_CLOSE) returns when the window has dealt with it: not
\* while it asks its user whether to save.
WindowAnswered == Served("WINDOW_CLOSE")

\* What the thread does of itself, and what it waits for a window to do.
Receive ==
    \/ \E k \in 0 .. Len(stream), b \in 0 .. IntSize - 1 : RecvReturns(k, b)
    \/ RecvZero \/ RecvFails \/ Dispatch

Answered == TaskListSent \/ WindowOpened \/ WindowAnswered

-----------------------------------------------------------------------------
\* Variant: the buffer is not zeroed when it is allocated.
Malloc == [1 .. 2 -> Word]

Calloc == {[i \in 1 .. 2 |-> Zero]}

Init ==
    /\ client = "connected"
    /\ sent = <<>> /\ stream = <<>> /\ executed = <<>>
    /\ buffer \in Calloc
    /\ rx = [pc |-> "recv", length |-> 0]
    /\ taken = 0
    /\ torn = FALSE /\ split = FALSE /\ hasty = FALSE

Next == Client \/ Receive \/ Answered

Spec == Init /\ [][Next]_vars

(* The receive thread runs.  Nobody has to tap or to leave, and no window  *)
(* has to answer a message.                                                *)
FairSpec == Spec /\ WF_vars(Receive)

-----------------------------------------------------------------------------
(* Properties.                                                             *)

RxPc == {"recv", "onRecv", "done"} \cup Types

\* The types.  The thread never waits with a length that is not from recv().
TypeOK ==
    /\ client \in {"connected", "running", "left"}
    /\ sent \in Seq([type : Types, hwnd : Windows \cup {Zero}])
    /\ stream \in Seq(Word)
    /\ taken \in 0 .. IntSize - 1 /\ (taken > 0 => stream # <<>>)
    /\ buffer \in [1 .. 2 -> Ints]
    /\ rx \in [pc : RxPc, length : 0 .. BufferSize]
    /\ executed \in Seq([type : Types, hwnd : Ints, again : BOOLEAN])
    /\ torn \in BOOLEAN /\ split \in BOOLEAN /\ hasty \in BOOLEAN

Named(w) == \E i \in 1 .. Len(sent) : sent[i].hwnd = w

\* Whatever requests recv() joins or cuts in two, and whatever an earlier one left
\* in the buffer: no window is opened or closed that its client has not named, as
\* long as no recv() has ended within an int.
ActsOnNamedWindows ==
    ~torn => \A i \in 1 .. Len(executed) :
                executed[i].hwnd \in Windows => Named(executed[i].hwnd)

\* The deeds that recv() called for, or those that only its end called for again.
Done(again) == {i \in 1 .. Len(executed) : executed[i].again = again}

AskedBy(i) == Request(executed[i].type, executed[i].hwnd)

\* f tells of each deed which of the first k requests asked for it: they are done
\* in the order they were sent, and some may be left out.
Follows(f, k) ==
    /\ f \in [Done(FALSE) -> 1 .. k]
    /\ \A i, j \in Done(FALSE) : i < j => f[i] < f[j]
    /\ \A i \in Done(FALSE) : AskedBy(i) = sent[f[i]]

\* As long as no request is cut in two, the server does what its client asked
\* for, in that order, nothing twice and nothing else: requests may only be
\* skipped.  When the client leaves, one request may be done again.
NothingInvented ==
    ~split =>
        /\ \E f \in [Done(FALSE) -> 1 .. Len(sent)] : Follows(f, Len(sent))
        /\ \A i, j \in Done(TRUE) : i = j
        /\ \A i \in Done(TRUE) : \E m \in 1 .. Len(sent) : AskedBy(i) = sent[m]

\* The first k requests have been served, each in its turn.
ServedTo(k) == Done(FALSE) = 1 .. k /\ \A i \in 1 .. k : AskedBy(i) = sent[i]

\* None is skipped when the client waits for each to be served: requests get
\* lost only when one recv() returns several.
PacedRequestsServed ==
    ~hasty /\ ~split /\ rx.pc = "recv" /\ stream = <<>> => ServedTo(Len(sent))

-----------------------------------------------------------------------------
(* Why these hold: an inductive invariant, in parts.                       *)

\* The windows of requests are those that need one.
SentInv == \A k \in 1 .. Len(sent) : sent[k].hwnd = Zero <=> sent[k].type = "ACTIVE_TASK_LIST"

\* What is in the stream are the requests after the k-th, all of each: the i-th
\* starts at p[i].
Cut(k, p) ==
    /\ p \in [k + 1 .. Len(sent) + 1 -> 1 .. Len(stream) + 1]
    /\ p[k + 1] = 1 /\ p[Len(sent) + 1] = Len(stream) + 1
    /\ \A i \in k + 1 .. Len(sent) :
          /\ p[i + 1] = p[i] + Len(Words(sent[i]))
          /\ \A j \in 1 .. Len(Words(sent[i])) : stream[p[i] + j - 1] = Words(sent[i])[j]

\* The buffer starts with the m-th request.
Buffered(m) ==
    /\ buffer[1] = Code[sent[m].type]
    /\ sent[m].hwnd # Zero => buffer[2] = sent[m].hwnd

\* Dispatch is about to look at ints that recv() has returned.
Held == rx.pc = "onRecv" /\ rx.length > 0

\* recv() has returned k requests; the first of the last ones is in the buffer,
\* and was not done before Dispatch does it.
ReceivedInv(k) ==
    \E m \in 0 .. k, f \in [Done(FALSE) -> 1 .. k] :
        /\ IF m = 0 THEN buffer[1] = Zero ELSE Buffered(m)
        /\ Follows(f, k)
        /\ Held => m > 0 /\ \A i \in Done(FALSE) : f[i] < m

\* The end of the stream is served once, and then the thread ends.
AgainInv ==
    /\ \A i, j \in Done(TRUE) : i = j
    /\ \A i \in Done(TRUE) : \E m \in 1 .. Len(sent) : AskedBy(i) = sent[m]
    /\ Done(TRUE) # {} => rx.pc = "done" \/ (rx.pc \in Types /\ rx.length = 0)

WholeInv ==
    ~split => /\ \E k \in 0 .. Len(sent) :
                    /\ ReceivedInv(k)
                    /\ \E p \in [k + 1 .. Len(sent) + 1 -> 1 .. Len(stream) + 1] : Cut(k, p)
              /\ AgainInv

\* The last request is on its way, or before Dispatch, or served as all before it.
PacedInv ==
    LET n == Len(sent) IN
    ~hasty /\ ~split =>
        /\ stream # <<>> => /\ n > 0 /\ stream = Words(sent[n])
                            /\ rx.pc \in {"recv", "done"} /\ ServedTo(n - 1)
        /\ stream = <<>> /\ Held => n > 0 /\ Buffered(n) /\ ServedTo(n - 1)
        /\ stream = <<>> /\ ~Held => ServedTo(n)

\* recv() goes on within an int only after it has ended there.
AlignedInv == (taken > 0 => torn) /\ (torn => split)

RequestInv == SentInv /\ AlignedInv /\ WholeInv /\ PacedInv

-----------------------------------------------------------------------------
(* Liveness.                                                               *)

\* When its client has left, the receive thread ends, unless a window never answers
\* what it is sent for a request: WM_GETICON, SetWindowPos or WM_CLOSE.
ThreadEnds == client = "left" ~> (rx.pc = "done" \/ [](rx.pc \in Types))

-----------------------------------------------------------------------------
Closes(s, w) == Cardinality({i \in 1 .. Len(s) : s[i].type = "WINDOW_CLOSE" /\ s[i].hwnd = w})

\* README, step 8: "press the X on the task to close it".  A window is not sent
\* WM_CLOSE more often than its X was pressed.
OneCloseForOnePress ==
    ~split => \A w \in Windows : Closes(executed, w) <= Closes(sent, w)

=============================================================================
