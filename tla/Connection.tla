----------------------------- MODULE Connection -----------------------------
(***************************************************************************)
(* The server's connection: the "Connect" button, NetworkManager, and the  *)
(* two threads that Server_Start creates.                                  *)
(*                                                                         *)
(* The UI thread starts and ends a connection; the accept thread waits for *)
(* one client and announces it through a callback; the receive thread      *)
(* waits for the connection, then serves the client's requests, also       *)
(* through a callback.  Nobody joins a thread: the UI thread frees the     *)
(* Server structure while the receive thread still holds a pointer to it,  *)
(* and the allocator may hand the same block out at the next start.        *)
(*                                                                         *)
(* The only request here is the task list, sent by a client as it          *)
(* connects; serving it fills _activeWindowTasks and sends one reply.      *)
(***************************************************************************)
EXTENDS Naturals, FiniteSets

CONSTANTS
    MaxStarts,   \* bound on the presses of "Connect"
    Clients,     \* Android clients, each connecting once
    Blocks,      \* blocks of memory for a Server structure
    Null,        \* the NULL pointer, and no socket
    PortTaken    \* may bind() or listen() fail?

Starts == 1 .. MaxStarts

ASSUME ConnectionAssumption ==
    /\ MaxStarts \in Nat
    /\ Null \notin Blocks \cup Clients
    /\ PortTaken \in BOOLEAN

VARIABLES
    netState,    \* gNetworkManager->state
    server,      \* gNetworkManager->_server
    block,       \* the Server structures, in use or freed
    onConnected, \* IServer_OnConnected is registered
    onRecv,      \* IServer_OnRecv is registered
    ui,          \* the UI thread
    acceptor,    \* acceptor[g]: the accept thread of the g-th start
    receiver,    \* receiver[g]: the receive thread of the g-th start
    listening,   \* the starts whose server socket is open and listening
    conn,        \* conn[c]: how far the connection of client c is
    left,        \* the clients that have closed their end
    inbox,       \* the clients whose request has arrived and is not read yet
    replied,     \* the clients that were sent the task list, and by which thread
    tasks,       \* _activeWindowTasks is filled in
    label,       \* the text of the connect button
    starts,      \* number of starts
    alive,       \* FALSE once undefined behaviour has killed the process
    early,       \* history: this start's client was accepted before startUp ended
    overtaken    \* history: a click came while a callback was about to set the label

manager == <<netState, server>>
callbacks == <<onConnected, onRecv>>
threads == <<acceptor, receiver>>
sockets == <<listening, conn>>
clients == <<left, inbox, replied>>
program == <<manager, block, callbacks, ui, threads, tasks, label, starts, alive>>
history == <<early, overtaken>>
vars == <<program, sockets, clients, history>>

-----------------------------------------------------------------------------
\* Server_Create returns a block of zeroes.
NewServer(g) == [mem |-> "live", connected |-> FALSE, serverSocket |-> g,
                 clientSocket |-> Null, recvBuffer |-> "zero"]

Live(p) == block[p].mem = "live"

\* What reading server->connected may yield: anything, once it is freed.
Connected(p) == IF Live(p) THEN {block[p].connected} ELSE BOOLEAN

\* And what its recvBuffer points to.
Buffered(p) == IF Live(p) THEN {block[p].recvBuffer} ELSE {"null", "zero", "list"}

\* Writing to a structure that was freed may corrupt the heap.
Touch(p) == alive' \in (IF Live(p) THEN {TRUE} ELSE BOOLEAN)

\* Variant: updateConnectButton has no branch for this state.
ButtonTextPartial(state) ==
    CASE state = "DISCONNECTED" -> "Connect" [] state = "AWAIT_CLIENT" -> "Connecting..."
      [] OTHER -> "garbage"

ButtonText(state) ==
    CASE state = "DISCONNECTED" -> "Connect"
      [] state = "AWAIT_CLIENT" -> "Connecting..."
      [] state = "CONNECTED"    -> "Disconnect"

-----------------------------------------------------------------------------
(* The clients.                                                            *)

ClientConnects(c) ==
    /\ conn[c].at = "away"
    /\ \E g \in listening : conn' = [conn EXCEPT ![c] = [at |-> "backlog", start |-> g]]
    /\ inbox' = inbox \cup {c}
    /\ UNCHANGED <<program, listening, left, replied, history>>

ClientLeaves(c) ==
    /\ conn[c].at \in {"backlog", "accepted"}
    /\ c \notin left
    /\ left' = left \cup {c}
    /\ UNCHANGED <<program, sockets, inbox, replied, history>>

-----------------------------------------------------------------------------
(* The UI thread.                                                          *)

UiIdle == ui.pc = "idle"

UiAt(pc) == ui' = [ui EXCEPT !.pc = pc]

\* A callback is between setting the state and setting the label.
Announcing == \E g \in Starts : acceptor[g].pc \in {"readState", "setLabel"}

Clicked ==
    /\ overtaken' = (overtaken \/ Announcing)
    /\ UNCHANGED <<manager, block, callbacks, threads, sockets, clients, tasks, label, starts,
                   alive, early>>

\* IDC_CONNECT_BUTTON in state DISCONNECTED: startUp, which would first close
\* and destroy a server that is still there.
ClickConnect ==
    /\ UiIdle
    /\ netState = "DISCONNECTED"
    /\ starts < MaxStarts
    /\ ui' = [pc |-> IF server = Null THEN "start" ELSE "close", next |-> "start"]
    /\ Clicked

\* Variant: the button also cancels the waiting for a client.
EndsOrCancels(state) == state # "DISCONNECTED"

\* The states in which the button ends the connection.
Ends(state) == state = "CONNECTED"

\* IDC_CONNECT_BUTTON in state CONNECTED: disconnect.
ClickDisconnect ==
    /\ UiIdle
    /\ Ends(netState)
    /\ ui' = [pc |-> IF server = Null THEN "button" ELSE "close", next |-> "state"]
    /\ Clicked

UiStep(pc) ==
    /\ ui.pc = pc
    /\ UNCHANGED <<threads, clients, alive, overtaken>>

\* Server_Close: both sockets; clients on them are cut off.
ServerClose ==
    /\ UiStep("close")
    /\ LET s == block[server] IN
        /\ listening' = listening \ {s.serverSocket}
        /\ conn' = [c \in Clients |->
                      IF \/ c = s.clientSocket
                         \/ conn[c] = [at |-> "backlog", start |-> s.serverSocket]
                      THEN [conn[c] EXCEPT !.at = "reset"] ELSE conn[c]]
    /\ block' = [block EXCEPT ![server].clientSocket = Null, ![server].serverSocket = 0,
                              ![server].connected = FALSE]
    /\ UiAt("destroy")
    /\ UNCHANGED <<manager, callbacks, tasks, label, starts, early>>

\* Server_Destroy: free(recvBuffer), recvBuffer = 0, free(server).
ServerDestroy ==
    /\ UiStep("destroy")
    /\ block' = [block EXCEPT ![server].recvBuffer = "null", ![server].mem = "freed"]
    /\ UiAt("forget")
    /\ UNCHANGED <<manager, callbacks, sockets, tasks, label, starts, early>>

\* Variant: the pointer is kept.
NotForgotten == server

Forgotten == Null

ForgetServer ==
    /\ UiStep("forget")
    /\ server' = Forgotten
    /\ UiAt(ui.next)
    /\ UNCHANGED <<netState, block, callbacks, sockets, tasks, label, starts, early>>

\* Variant: the button is not updated.
ThenNothing == "idle"

\* After disconnect, updateConnectButton.
ThenButton == "button"

SetDisconnected ==
    /\ UiStep("state")
    /\ netState' = "DISCONNECTED"
    /\ UiAt(ThenButton)
    /\ UNCHANGED <<server, block, callbacks, sockets, tasks, label, starts, early>>

\* Server_Create and Server_Start: the results of bind() and listen() are not
\* looked at, and both threads run from here on.
ServerStart ==
    /\ ui.pc = "start"
    /\ starts' = starts + 1
    /\ \E b \in Blocks :
        /\ block[b].mem # "live"
        /\ block' = [block EXCEPT ![b] = NewServer(starts')]
        /\ server' = b
        /\ acceptor' = [acceptor EXCEPT ![starts'] =
                          [pc |-> "accept", ptr |-> b, text |-> ""]]
        /\ receiver' = [receiver EXCEPT ![starts'] =
                          [pc |-> "wait", ptr |-> b, sock |-> Null, length |-> 0]]
    /\ \/ listening' = listening \cup {starts'}
       \/ PortTaken /\ UNCHANGED listening
    /\ early' = FALSE
    /\ UiAt("await")
    /\ UNCHANGED <<netState, callbacks, conn, clients, tasks, label, alive, overtaken>>

SetAwaitClient ==
    /\ UiStep("await")
    /\ netState' = "AWAIT_CLIENT"
    /\ UiAt("onConnected")
    /\ UNCHANGED <<server, block, callbacks, sockets, tasks, label, starts, early>>

ServerOnConnected ==
    /\ UiStep("onConnected")
    /\ onConnected' = TRUE
    /\ UiAt("onRecv")
    /\ UNCHANGED <<manager, block, onRecv, sockets, tasks, label, starts, early>>

ServerOnRecv ==
    /\ UiStep("onRecv")
    /\ onRecv' = TRUE
    /\ UiAt("reset")
    /\ UNCHANGED <<manager, block, onConnected, sockets, tasks, label, starts, early>>

\* gWindowManager->reset(), after startUp has returned.
Reset ==
    /\ UiStep("reset")
    /\ tasks' = FALSE
    /\ UiAt("button")
    /\ UNCHANGED <<manager, block, callbacks, sockets, label, starts, early>>

UpdateConnectButton ==
    /\ UiStep("button")
    /\ label' = ButtonText(netState)
    /\ UiAt("idle")
    /\ UNCHANGED <<manager, block, callbacks, sockets, tasks, starts, early>>

Click == ClickConnect \/ ClickDisconnect

Handler ==
    \/ ServerClose \/ ServerDestroy \/ ForgetServer \/ SetDisconnected
    \/ ServerStart \/ SetAwaitClient \/ ServerOnConnected \/ ServerOnRecv
    \/ Reset \/ UpdateConnectButton

-----------------------------------------------------------------------------
(* IServer_AcceptThread.                                                   *)

AcceptStep(g, pc) ==
    /\ acceptor[g].pc = pc
    /\ UNCHANGED <<server, callbacks, ui, receiver, listening, clients, tasks, starts,
                   overtaken>>

AcceptAt(g, pc) == acceptor' = [acceptor EXCEPT ![g].pc = pc]

AcceptReturns(g) ==
    /\ AcceptStep(g, "accept")
    /\ g \in listening
    /\ \E c \in Clients :
        /\ conn[c] = [at |-> "backlog", start |-> g]
        /\ conn' = [conn EXCEPT ![c].at = "accepted"]
        /\ block' = [block EXCEPT ![acceptor[g].ptr].clientSocket = c]
    /\ Touch(acceptor[g].ptr)
    /\ early' = (ui.pc # "idle")
    /\ AcceptAt(g, "accepted")
    /\ UNCHANGED <<netState, label>>

\* The socket is closed, or was never bound; clientSocket is INVALID_SOCKET.
AcceptFails(g) ==
    /\ AcceptStep(g, "accept")
    /\ g \notin listening
    /\ block' = [block EXCEPT ![acceptor[g].ptr].clientSocket = Null]
    /\ Touch(acceptor[g].ptr)
    /\ AcceptAt(g, "done")
    /\ UNCHANGED <<netState, conn, label, early>>

\* Variant: the receive thread is not told.
NotTold == FALSE

\* server->connected = 1 lets the receive thread go on.
Told == TRUE

AcceptConnected(g) ==
    /\ AcceptStep(g, "accepted")
    /\ block' = [block EXCEPT ![acceptor[g].ptr].connected = Told]
    /\ Touch(acceptor[g].ptr)
    /\ AcceptAt(g, "callback")
    /\ UNCHANGED <<netState, conn, label, early>>

\* Server_Connected, if it is registered.
AcceptCallback(g) ==
    /\ AcceptStep(g, "callback")
    /\ IF onConnected
       THEN netState' = "CONNECTED" /\ AcceptAt(g, "readState")
       ELSE AcceptAt(g, "done") /\ UNCHANGED netState
    /\ UNCHANGED <<block, conn, label, alive, early>>

\* updateConnectButton reads the state, and sends WM_SETTEXT to a window of the
\* UI thread, which takes it when it is back at its message loop.
AcceptReadState(g) ==
    /\ AcceptStep(g, "readState")
    /\ acceptor' = [acceptor EXCEPT ![g].pc = "setLabel",
                                    ![g].text = ButtonText(netState)]
    /\ UNCHANGED <<netState, block, conn, label, alive, early>>

AcceptSetLabel(g) ==
    /\ AcceptStep(g, "setLabel")
    /\ UiIdle
    /\ label' = acceptor[g].text
    /\ acceptor' = [acceptor EXCEPT ![g].pc = "done", ![g].text = ""]
    /\ UNCHANGED <<netState, block, conn, alive, early>>

Accept(g) ==
    \/ AcceptReturns(g) \/ AcceptFails(g) \/ AcceptConnected(g)
    \/ AcceptCallback(g) \/ AcceptReadState(g) \/ AcceptSetLabel(g)

-----------------------------------------------------------------------------
(* IServer_RecieveThread.                                                  *)

RecvStep(g, pc) ==
    /\ receiver[g].pc = pc
    /\ UNCHANGED <<manager, callbacks, ui, acceptor, sockets, left, label, starts, history>>

\* A thread that ends leaves no locals behind.
RecvAt(g, pc) ==
    receiver' = [receiver EXCEPT ![g] =
                   IF pc = "done" THEN [pc |-> "done", ptr |-> @.ptr, sock |-> Null, length |-> 0]
                   ELSE [@ EXCEPT !.pc = pc]]

\* while(!server->connected) Sleep(100);
RecvWait(g) ==
    /\ RecvStep(g, "wait")
    /\ TRUE \in Connected(receiver[g].ptr)
    /\ RecvAt(g, "check")
    /\ UNCHANGED <<block, inbox, replied, tasks, alive>>

\* while(server->connected): recv() is called on the socket that is there now.
RecvCheck(g) ==
    /\ RecvStep(g, "check")
    /\ \E connected \in Connected(receiver[g].ptr) :
        IF connected
        THEN LET p == receiver[g].ptr IN
             receiver' = [receiver EXCEPT
                ![g].pc = "recv",
                ![g].sock = IF Live(p) THEN block[p].clientSocket ELSE Null]
        ELSE RecvAt(g, "done")
    /\ UNCHANGED <<block, inbox, replied, tasks, alive>>

SocketOpen(s) == s # Null /\ conn[s].at = "accepted"

\* recv() returns a request, or 0 when the client has left.  recvBuffer still
\* holds the request before, then.
RecvReturns(g) ==
    /\ RecvStep(g, "recv")
    /\ LET s == receiver[g].sock  p == receiver[g].ptr IN
        /\ SocketOpen(s)
        /\ s \in inbox \/ s \in left
        /\ inbox' = inbox \ {s}
        /\ receiver' = [receiver EXCEPT ![g].pc = "onRecv",
                                        ![g].length = IF s \in inbox THEN 4 ELSE 0]
        /\ block' = [block EXCEPT ![p].recvBuffer = IF s \in inbox THEN "list" ELSE @]
        /\ Touch(p)
    /\ UNCHANGED <<replied, tasks>>

\* recv() fails, and the failure is written to server->recvBufferLength.
RecvFails(g) ==
    /\ RecvStep(g, "recv")
    /\ ~SocketOpen(receiver[g].sock)
    /\ Touch(receiver[g].ptr)
    /\ RecvAt(g, "done")
    /\ UNCHANGED <<block, inbox, replied, tasks>>

After(length) == IF length = 0 THEN "done" ELSE "check"

\* Server_Recv, if it is registered: it follows the pointer, which Server_Destroy
\* has set to NULL; a buffer of zeroes is no request.
RecvDispatch(g) ==
    /\ RecvStep(g, "onRecv")
    /\ LET r == receiver[g] IN
       IF onRecv
       THEN \E buffer \in Buffered(r.ptr) :
               /\ alive' = (buffer # "null")
               /\ RecvAt(g, IF buffer = "list" THEN "refresh" ELSE After(r.length))
       ELSE RecvAt(g, After(r.length)) /\ UNCHANGED alive
    /\ UNCHANGED <<block, inbox, replied, tasks>>

\* Variant: the map is cleared and the windows are not put in.
Emptied == FALSE

Filled == TRUE

\* refreshWindowTasksList, which waits for every window to name its icon.
RecvRefresh(g) ==
    /\ RecvStep(g, "refresh")
    /\ tasks' = Filled
    /\ RecvAt(g, "send")
    /\ UNCHANGED <<block, inbox, replied, alive>>

\* sendWindowTasksToClient sends on whatever server NetworkManager has by now;
\* without one, Server_Send follows the NULL pointer.
RecvSend(g) ==
    /\ RecvStep(g, "send")
    /\ IF server = Null
       THEN alive' = FALSE /\ UNCHANGED replied
       ELSE /\ Touch(server)
            /\ replied' = IF Live(server) /\ SocketOpen(block[server].clientSocket)
                          THEN replied \cup {[client |-> block[server].clientSocket, by |-> g]}
                          ELSE replied
    /\ RecvAt(g, After(receiver[g].length))
    /\ UNCHANGED <<block, inbox, tasks>>

\* What waits for no window.
Serve(g) ==
    \/ RecvWait(g) \/ RecvCheck(g) \/ RecvReturns(g) \/ RecvFails(g)
    \/ RecvDispatch(g) \/ RecvSend(g)

Receive(g) == Serve(g) \/ RecvRefresh(g)

-----------------------------------------------------------------------------
Init ==
    /\ netState = "DISCONNECTED"
    /\ server = Null
    /\ block = [b \in Blocks |-> [mem |-> "freed", connected |-> FALSE,
                    serverSocket |-> 0, clientSocket |-> Null, recvBuffer |-> "zero"]]
    /\ onConnected = FALSE /\ onRecv = FALSE
    /\ ui = [pc |-> "idle", next |-> "start"]
    /\ acceptor = [g \in Starts |-> [pc |-> "none", ptr |-> Null, text |-> ""]]
    /\ receiver = [g \in Starts |-> [pc |-> "none", ptr |-> Null, sock |-> Null, length |-> 0]]
    /\ listening = {} /\ left = {} /\ inbox = {} /\ replied = {}
    /\ conn = [c \in Clients |-> [at |-> "away", start |-> 0]]
    /\ tasks = FALSE
    /\ label = "Connect"
    /\ starts = 0
    /\ alive = TRUE
    /\ early = FALSE /\ overtaken = FALSE

Next ==
    /\ alive
    /\ \/ Click \/ Handler
       \/ \E c \in Clients : ClientConnects(c) \/ ClientLeaves(c)
       \/ \E g \in Starts : Accept(g) \/ Receive(g)

Spec == Init /\ [][Next]_vars

(* Threads are scheduled; nobody has to click, connect or leave.  A thread *)
(* that reads a freed structure may read FALSE for ever, and a window need *)
(* not answer the thread that lists it.                                    *)
FairSpec ==
    /\ Spec
    /\ WF_vars(alive /\ Handler)
    /\ \A g \in Starts :
        /\ WF_vars(alive /\ Accept(g))
        /\ WF_vars(alive /\ receiver[g].ptr # Null /\ Live(receiver[g].ptr) /\ Serve(g))

-----------------------------------------------------------------------------
(* Properties.                                                             *)

UiPc == {"idle", "close", "destroy", "forget", "state", "start", "await",
         "onConnected", "onRecv", "reset", "button"}

AcceptPc == {"none", "accept", "accepted", "callback", "readState", "setLabel", "done"}

RecvPc == {"none", "wait", "check", "recv", "onRecv", "refresh", "send", "done"}

Text == {"Connect", "Connecting...", "Disconnect"}

ServerRec == [mem : {"live", "freed"}, connected : BOOLEAN, serverSocket : 0 .. MaxStarts,
              clientSocket : Clients \cup {Null}, recvBuffer : {"null", "zero", "list"}]

AcceptorRec == [pc : AcceptPc, ptr : Blocks \cup {Null}, text : Text \cup {""}]

ReceiverRec == [pc : RecvPc, ptr : Blocks \cup {Null}, sock : Clients \cup {Null},
                length : {0, 4}]

ConnRec == [at : {"away", "backlog", "accepted", "reset"}, start : 0 .. MaxStarts]

\* The types.  A thread that runs has a pointer.
TypeOK ==
    /\ netState \in {"DISCONNECTED", "AWAIT_CLIENT", "CONNECTED"}
    /\ server \in Blocks \cup {Null}
    /\ block \in [Blocks -> ServerRec]
    /\ onConnected \in BOOLEAN /\ onRecv \in BOOLEAN
    /\ ui \in [pc : UiPc, next : {"start", "state"}]
    /\ acceptor \in [Starts -> AcceptorRec]
    /\ receiver \in [Starts -> ReceiverRec]
    /\ \A g \in Starts :
        /\ acceptor[g].pc # "none" => acceptor[g].ptr \in Blocks
        /\ acceptor[g].pc = "setLabel" => acceptor[g].text \in Text
        /\ receiver[g].pc # "none" => receiver[g].ptr \in Blocks
    /\ listening \subseteq Starts
    /\ conn \in [Clients -> ConnRec]
    /\ left \subseteq Clients /\ inbox \subseteq Clients
    /\ replied \subseteq [client : Clients, by : Starts]
    /\ tasks \in BOOLEAN
    /\ label \in Text
    /\ starts \in 0 .. MaxStarts
    /\ alive \in BOOLEAN /\ early \in BOOLEAN /\ overtaken \in BOOLEAN

\* While the UI thread handles hook messages it sends to the client whenever the
\* state is CONNECTED, and sendMessage does not test _server: in that state
\* there is a server with a client, though the state is set by another thread.
\* And "Connect" never finds a server left over.
ServerMatchesState ==
    UiIdle =>
        /\ netState = "DISCONNECTED" <=> server = Null
        /\ netState = "CONNECTED" =>
              Live(server) /\ block[server].connected /\ block[server].clientSocket # Null

\* The accept thread writes to a structure the UI thread may free, without a
\* lock; while it still has to, the structure is the current server's.
AcceptorOwnsServer ==
    \A g \in Starts :
        acceptor[g].pc \in {"accept", "accepted"} =>
            acceptor[g].ptr = server /\ Live(server) /\ ui.pc \notin {"close", "destroy", "forget"}

\* No server is closed or destroyed a second time.
NoDoubleFree == ui.pc \in {"close", "destroy"} => server # Null /\ Live(server)

\* Why these three hold: where the UI thread is says whether there is a server
\* and what the state may be, and the accept thread of the last start has work
\* left only while the state is not CONNECTED, in which nothing can end the
\* connection.  This is inductive.
ServerInv ==
    /\ ui.pc \in {"idle", "button"} => (netState = "DISCONNECTED" <=> server = Null)
    /\ ui.pc \in {"onConnected", "onRecv", "reset"} =>
          server # Null /\ netState # "DISCONNECTED"
    /\ ui.pc = "start" => server = Null /\ netState = "DISCONNECTED" /\ starts < MaxStarts
    /\ ui.pc = "await" => server # Null
    /\ ui.pc \in {"close", "destroy", "forget"} =>
          server # Null /\ netState = "CONNECTED" /\ ui.next = "state"
    /\ ui.pc = "state" => netState = "CONNECTED" /\ server = Null
    /\ server # Null /\ ui.pc # "forget" => Live(server)

ServingInv ==
    /\ netState = "CONNECTED" /\ ui.pc \notin {"destroy", "forget", "state"} =>
          server # Null /\ block[server].connected /\ block[server].clientSocket # Null
    /\ \A g \in Starts :
          /\ acceptor[g].pc \in {"accept", "accepted", "callback"} =>
                g = starts /\ acceptor[g].ptr = server /\ server # Null
                /\ netState # "CONNECTED"
          /\ acceptor[g].pc \in {"accepted", "callback"} => block[server].clientSocket # Null
          /\ acceptor[g].pc = "callback" => block[server].connected

\* Both threads write the label of the button from the state they read.  When
\* neither is about to, it fits the state, unless a click came between the two.
LabelAgrees ==
    UiIdle /\ ~Announcing /\ ~early /\ ~overtaken => label = ButtonText(netState)

\* startUp is under way, or its click has still to set the label.
Starting == {"await", "onConnected", "onRecv", "reset", "button"}

\* Why LabelAgrees holds, with the invariants above: a client that did not come
\* early is accepted by an idle UI thread, which then leaves the label to the
\* callback.  This is inductive.
LabelInv ==
    /\ early => \A g \in Starts : acceptor[g].pc # "accept"
    /\ ~early /\ ui.pc \in Starting =>
          \A g \in Starts : acceptor[g].pc \notin {"accepted", "callback"}
    /\ ~overtaken =>
          /\ ui.pc \in {"close", "destroy", "forget", "state", "start"} => ~Announcing
          /\ ~early /\ ui.pc \in Starting => ~Announcing
          /\ ~early /\ UiIdle =>
                /\ Announcing => netState = "CONNECTED"
                /\ \A g \in Starts :
                      acceptor[g].pc = "setLabel" => acceptor[g].text = ButtonText("CONNECTED")
                /\ ~Announcing => label = ButtonText(netState)

Replied(c, g) == [client |-> c, by |-> g] \in replied

\* The map a listing filled in is there for as long as its client is connected:
\* reset() comes before, unless the client was accepted while startUp ran.
ListSurvives ==
    UiIdle /\ netState = "CONNECTED" /\ ~early =>
        (Replied(block[server].clientSocket, starts) => tasks)

\* Why: until reset() is over, the receive thread of this start waits for a
\* client that does not come early.  This is inductive, with LabelInv.
TasksInv ==
    /\ \A g \in Starts :
          g > starts => receiver[g].pc = "none" /\ \A r \in replied : r.by # g
    /\ starts \in Starts /\ ~early =>
          /\ ui.pc \in Starting \ {"button"} =>
                /\ receiver[starts].pc = "wait" /\ receiver[starts].ptr = server
                /\ ~block[server].connected
                /\ \A r \in replied : r.by # starts
          /\ receiver[starts].pc = "send" \/ (\E r \in replied : r.by = starts) => tasks

\* A thread that waits for a window to name its icon, in the service of the client.
Listing(g, c) == receiver[g].pc = "refresh" /\ receiver[g].sock = c

\* A client that connects once the server awaits it gets its task list, from the
\* receive thread of its own start or from one of an earlier start that took the
\* request, unless it leaves, is disconnected, another client came first, or a
\* window keeps that thread waiting for ever.
LateClientIsServed ==
    \A c \in Clients :
        conn[c].at = "backlog" /\ UiIdle /\ netState = "AWAIT_CLIENT" ~>
            \/ \E g \in Starts : Replied(c, g) \/ []Listing(g, c)
            \/ c \in left
            \/ conn[c].at = "reset"
            \/ \E d \in Clients \ {c} : conn[d] = [conn[c] EXCEPT !.at = "accepted"]
            \/ ~alive

-----------------------------------------------------------------------------
(* The session this implements.  There is one from Server_Start to         *)
(* Server_Close, whatever netState says in between.                        *)

InSession == server # Null /\ ui.pc \notin {"destroy", "forget"}

Phase ==
    IF ~InSession THEN "off"
    ELSE IF acceptor[starts].pc \in {"accept", "accepted", "callback"} THEN "waiting"
    ELSE IF netState = "CONNECTED" /\ ui.pc # "await" THEN "connected" ELSE "stuck"

SessionClient == IF InSession THEN block[server].clientSocket ELSE Null

RepliedTo == {r.client : r \in replied}

S == INSTANCE Session WITH phase <- Phase, client <- SessionClient, told <- RepliedTo

\* The threads, the callbacks and the states of NetworkManager implement a
\* session: whatever threads of earlier starts are still there, a session has at
\* most one client, only that client is sent a list, and a session whose client
\* came too early to be announced is stuck for good.
ImplementsSession == S!Spec

\* Why, with ServerInv and ServingInv: nobody is the client before accept()
\* returns, nor after Server_Close.  This is inductive.
SessionInv ==
    /\ server # Null => starts \in Starts
    /\ \A g \in Starts : acceptor[g].pc = "accept" => block[server].clientSocket = Null
    /\ ui.pc = "destroy" => block[server].clientSocket = Null
    /\ ui.pc = "forget" => ~Live(server)

-----------------------------------------------------------------------------
(* What the documentation says, without these conditions.                  *)

\* README, step 7: once a client has connected, the server says "Connected!".
SaysConnected ==
    \A g \in Starts :
        UiIdle /\ acceptor[g].pc = "done" /\ acceptor[g].ptr = server
            /\ block[server].clientSocket # Null
                => netState = "CONNECTED"

=============================================================================
