-------------------------- MODULE ConnectionProofs --------------------------
(***************************************************************************)
(* Theorems about the connection, for any number of starts, clients and    *)
(* blocks of memory, and whether or not bind() fails: the UI thread never  *)
(* sends without a server, the accept thread never writes to a server that *)
(* was destroyed, and no server is destroyed twice; each step is one of    *)
(* module Session or none; the label fits the state; and the list that a   *)
(* client was sent stays in the map.                                       *)
(***************************************************************************)
EXTENDS Connection, TLAPS

USE DEF program, manager, callbacks, threads, sockets, clients, history

\* Names of single values and of what all clicks leave alone.
USE DEF Clicked, Ends, Forgotten, ThenButton, Told, Filled

-----------------------------------------------------------------------------
(* Type correctness.                                                       *)

\* The button has one of its three texts.
LEMMA ButtonTextTyped ==
    ASSUME NEW s \in {"DISCONNECTED", "AWAIT_CLIENT", "CONNECTED"}
    PROVE  ButtonText(s) \in Text
BY DEF ButtonText, Text

\* A write to a freed structure leaves the process alive or not.
LEMMA TouchTyped ==
    ASSUME NEW p, Touch(p) PROVE alive' \in BOOLEAN
BY DEF Touch

\* Starts are numbered from 1.
LEMMA StartNumbers ==
    0 \in 0 .. MaxStarts /\ \A g \in Starts : g \in 0 .. MaxStarts /\ g # 0
BY ConnectionAssumption DEF Starts

\* The types hold at the start.
LEMMA InitTyped == Init => TypeOK
<1>. SUFFICES ASSUME Init PROVE TypeOK
  OBVIOUS
<1>. USE StartNumbers
<1>1. block \in [Blocks -> ServerRec]
  BY DEF Init, ServerRec
<1>2. acceptor \in [Starts -> AcceptorRec] /\ \A g \in Starts : acceptor[g].pc = "none"
  BY DEF Init, AcceptorRec, AcceptPc
<1>3. receiver \in [Starts -> ReceiverRec] /\ \A g \in Starts : receiver[g].pc = "none"
  BY DEF Init, ReceiverRec, RecvPc
<1>4. conn \in [Clients -> ConnRec]
  BY DEF Init, ConnRec
<1>. QED
  BY <1>1, <1>2, <1>3, <1>4 DEF Init, TypeOK, UiPc, Text

\* The button's handler keeps them until it is left.
LEMMA ClickTyped == TypeOK /\ Click => TypeOK'
<1>. SUFFICES ASSUME TypeOK, Click PROVE TypeOK'
  OBVIOUS
<1>1. Announcing \in BOOLEAN
  BY DEF Announcing
<1>2. ui' \in [pc : UiPc, next : {"start", "state"}] /\ overtaken' \in BOOLEAN
  BY <1>1 DEF Click, ClickConnect, ClickDisconnect, TypeOK, UiPc
<1>. QED
  BY <1>2 DEF Click, ClickConnect, ClickDisconnect, TypeOK

\* The server starts from nothing, under a number of its own.
LEMMA StartIsNew ==
    ASSUME TypeOK, ServerInv, ServerStart
    PROVE  /\ starts' = starts + 1 /\ starts' \in Starts
           /\ server = Null /\ netState = "DISCONNECTED"
<1>1. starts' = starts + 1 /\ ui.pc = "start"
  BY DEF ServerStart
<1>2. starts < MaxStarts /\ server = Null /\ netState = "DISCONNECTED"
  BY <1>1 DEF ServerInv
<1>3. starts \in 0 .. MaxStarts
  BY DEF TypeOK
<1>. QED
  BY <1>1, <1>2, <1>3, ConnectionAssumption DEF Starts

\* startUp and disconnect keep them.
LEMMA HandlerTyped == TypeOK /\ ServerInv /\ Handler => TypeOK'
<1>. SUFFICES ASSUME TypeOK, ServerInv, Handler PROVE TypeOK'
  OBVIOUS
<1>. USE DEF UiStep, UiAt, UiPc
<1>1. CASE ServerClose
  <2>1. server \in Blocks
    BY <1>1 DEF ServerClose, ServerInv, TypeOK
  <2>2. block[server] \in ServerRec
    BY <2>1 DEF TypeOK
  <2>3. [block[server] EXCEPT !.clientSocket = Null, !.serverSocket = 0,
                              !.connected = FALSE] \in ServerRec
    BY <2>2, StartNumbers DEF ServerRec
  <2>4. block' = [block EXCEPT ![server] = [block[server] EXCEPT
                     !.clientSocket = Null, !.serverSocket = 0, !.connected = FALSE]]
    BY <1>1, <2>1, <2>2 DEF ServerClose, TypeOK, ServerRec
  <2>5. block' \in [Blocks -> ServerRec]
    BY <2>3, <2>4 DEF TypeOK
  <2>6. conn' \in [Clients -> ConnRec]
    BY <1>1 DEF ServerClose, TypeOK, ConnRec
  <2>7. listening' \subseteq Starts
    BY <1>1 DEF ServerClose, TypeOK
  <2>. QED
    BY <1>1, <2>5, <2>6, <2>7 DEF ServerClose, TypeOK
<1>2. CASE ServerDestroy
  <2>1. server \in Blocks
    BY <1>2 DEF ServerDestroy, UiStep, ServerInv, TypeOK
  <2>2. block[server] \in ServerRec
    BY <2>1 DEF TypeOK
  <2>2a. [block[server] EXCEPT !.recvBuffer = "null", !.mem = "freed"] \in ServerRec
    BY <2>2 DEF ServerRec
  <2>3. block' = [block EXCEPT ![server] =
                    [block[server] EXCEPT !.recvBuffer = "null", !.mem = "freed"]]
    BY <1>2, <2>1 DEF ServerDestroy, TypeOK, ServerRec
  <2>4. block' \in [Blocks -> ServerRec]
    BY <2>2a, <2>3 DEF TypeOK
  <2>. QED
    BY <1>2, <2>4 DEF ServerDestroy, TypeOK
<1>3. CASE ForgetServer
  BY <1>3 DEF ForgetServer, TypeOK
<1>4. CASE SetDisconnected
  BY <1>4 DEF SetDisconnected, TypeOK
<1>5. CASE SetAwaitClient
  BY <1>5 DEF SetAwaitClient, TypeOK
<1>6. CASE ServerOnConnected
  BY <1>6 DEF ServerOnConnected, TypeOK
<1>7. CASE ServerOnRecv
  BY <1>7 DEF ServerOnRecv, TypeOK
<1>8. CASE Reset
  BY <1>8 DEF Reset, TypeOK
<1>9. CASE UpdateConnectButton
  BY <1>9, ButtonTextTyped DEF UpdateConnectButton, TypeOK
<1>10. CASE ServerStart
  <2>1. starts' = starts + 1 /\ starts' \in Starts
    BY <1>10, StartIsNew
  <2>2. PICK b \in Blocks :
          /\ block' = [block EXCEPT ![b] = NewServer(starts')]
          /\ server' = b
          /\ acceptor' = [acceptor EXCEPT ![starts'] = [pc |-> "accept", ptr |-> b, text |-> ""]]
          /\ receiver' = [receiver EXCEPT ![starts'] =
                            [pc |-> "wait", ptr |-> b, sock |-> Null, length |-> 0]]
    BY <1>10 DEF ServerStart
  <2>3. NewServer(starts') \in ServerRec
    BY <2>1, StartNumbers DEF NewServer, ServerRec
  <2>4. block' \in [Blocks -> ServerRec]
    BY <2>2, <2>3 DEF TypeOK
  <2>5. [pc |-> "accept", ptr |-> server', text |-> ""] \in AcceptorRec
    BY <2>2 DEF AcceptorRec, AcceptPc
  <2>6. acceptor' \in [Starts -> AcceptorRec]
    BY <2>2, <2>5 DEF TypeOK
  <2>7. [pc |-> "wait", ptr |-> server', sock |-> Null, length |-> 0] \in ReceiverRec
    BY <2>2 DEF ReceiverRec, RecvPc
  <2>8. receiver' \in [Starts -> ReceiverRec]
    BY <2>2, <2>7 DEF TypeOK
  <2>9. \A g \in Starts :
          /\ acceptor'[g].pc # "none" => acceptor'[g].ptr \in Blocks
          /\ acceptor'[g].pc = "setLabel" => acceptor'[g].text \in Text
          /\ receiver'[g].pc # "none" => receiver'[g].ptr \in Blocks
    BY <2>1, <2>2 DEF TypeOK
  <2>10. listening' \subseteq Starts
    BY <1>10, <2>1 DEF ServerStart, TypeOK
  <2>11. starts' \in 0 .. MaxStarts
    BY <2>1, StartNumbers
  <2>. QED
    BY <1>10, <2>2, <2>4, <2>6, <2>8, <2>9, <2>10, <2>11 DEF ServerStart, TypeOK
<1>. QED
  BY <1>1, <1>2, <1>3, <1>4, <1>5, <1>6, <1>7, <1>8, <1>9, <1>10 DEF Handler

\* A step of an accept thread to another place keeps the threads typed.
LEMMA AcceptAtTyped ==
    ASSUME TypeOK, NEW g \in Starts, NEW pc \in AcceptPc \ {"none", "setLabel"},
           acceptor[g].pc # "none", AcceptAt(g, pc)
    PROVE  /\ acceptor' \in [Starts -> AcceptorRec]
           /\ \A h \in Starts :
                /\ acceptor'[h].pc # "none" => acceptor'[h].ptr \in Blocks
                /\ acceptor'[h].pc = "setLabel" => acceptor'[h].text \in Text
           /\ \A h \in Starts \ {g} : acceptor'[h] = acceptor[h]
           /\ acceptor'[g].pc = pc /\ acceptor'[g].ptr = acceptor[g].ptr
<1>1. acceptor[g] \in AcceptorRec
  BY DEF TypeOK
<1>2. [acceptor[g] EXCEPT !.pc = pc] \in AcceptorRec
  BY <1>1 DEF AcceptorRec
<1>3. acceptor' = [acceptor EXCEPT ![g] = [acceptor[g] EXCEPT !.pc = pc]]
  BY DEF AcceptAt
<1>4. acceptor' \in [Starts -> AcceptorRec]
  BY <1>2, <1>3 DEF TypeOK
<1>5. acceptor'[g].pc = pc /\ acceptor'[g].ptr = acceptor[g].ptr
  BY <1>1, <1>3 DEF TypeOK, AcceptorRec
<1>6. \A h \in Starts \ {g} : acceptor'[h] = acceptor[h]
  BY <1>3 DEF TypeOK
<1>. QED
  BY <1>4, <1>5, <1>6 DEF TypeOK

\* An accept thread keeps them.
LEMMA AcceptTyped ==
    ASSUME TypeOK, NEW g \in Starts, Accept(g)
    PROVE  TypeOK'
<1>. DEFINE p == acceptor[g].ptr
<1>. USE DEF AcceptStep
<1>1. CASE AcceptReturns(g)
  <2>1. PICK c \in Clients :
          /\ conn' = [conn EXCEPT ![c].at = "accepted"]
          /\ block' = [block EXCEPT ![p].clientSocket = c]
    BY <1>1 DEF AcceptReturns
  <2>2. conn' \in [Clients -> ConnRec]
    BY <2>1 DEF TypeOK, ConnRec
  <2>3. block' \in [Blocks -> ServerRec]
    <3>1. p \in Blocks /\ block[p] \in ServerRec
      BY <1>1 DEF AcceptReturns, TypeOK
    <3>2. [block[p] EXCEPT !.clientSocket = c] \in ServerRec
      BY <3>1 DEF ServerRec
    <3>3. block' = [block EXCEPT ![p] = [block[p] EXCEPT !.clientSocket = c]]
      BY <2>1
    <3>. QED
      BY <3>1, <3>2, <3>3 DEF TypeOK
  <2>. QED
    BY <1>1, <2>2, <2>3, TouchTyped, AcceptAtTyped DEF AcceptReturns, TypeOK, AcceptPc
<1>2. CASE AcceptFails(g)
  <2>1. block' \in [Blocks -> ServerRec]
    <3>1. p \in Blocks /\ block[p] \in ServerRec
      BY <1>2 DEF AcceptFails, TypeOK
    <3>2. [block[p] EXCEPT !.clientSocket = Null] \in ServerRec
      BY <3>1 DEF ServerRec
    <3>3. block' = [block EXCEPT ![p] = [block[p] EXCEPT !.clientSocket = Null]]
      BY <1>2 DEF AcceptFails
    <3>. QED
      BY <3>1, <3>2, <3>3 DEF TypeOK
  <2>. QED
    BY <1>2, <2>1, TouchTyped, AcceptAtTyped DEF AcceptFails, TypeOK, AcceptPc
<1>3. CASE AcceptConnected(g)
  <2>1. block' \in [Blocks -> ServerRec]
    <3>1. p \in Blocks /\ block[p] \in ServerRec
      BY <1>3 DEF AcceptConnected, TypeOK
    <3>2. [block[p] EXCEPT !.connected = TRUE] \in ServerRec
      BY <3>1 DEF ServerRec
    <3>3. block' = [block EXCEPT ![p] = [block[p] EXCEPT !.connected = TRUE]]
      BY <1>3 DEF AcceptConnected
    <3>. QED
      BY <3>2, <3>3 DEF TypeOK
  <2>. QED
    BY <1>3, <2>1, TouchTyped, AcceptAtTyped DEF AcceptConnected, TypeOK, AcceptPc
<1>4. CASE AcceptCallback(g)
  <2>1. netState' \in {"DISCONNECTED", "AWAIT_CLIENT", "CONNECTED"}
    BY <1>4 DEF AcceptCallback, TypeOK
  <2>2. /\ acceptor' \in [Starts -> AcceptorRec]
        /\ \A h \in Starts :
             /\ acceptor'[h].pc # "none" => acceptor'[h].ptr \in Blocks
             /\ acceptor'[h].pc = "setLabel" => acceptor'[h].text \in Text
    BY <1>4, AcceptAtTyped DEF AcceptCallback, AcceptPc
  <2>. QED
    BY <1>4, <2>1, <2>2 DEF AcceptCallback, TypeOK
<1>5. CASE AcceptReadState(g)
  <2>1. ButtonText(netState) \in Text
    BY ButtonTextTyped DEF TypeOK
  <2>2. acceptor[g] \in AcceptorRec
    BY DEF TypeOK
  <2>3. [acceptor[g] EXCEPT !.pc = "setLabel", !.text = ButtonText(netState)] \in AcceptorRec
    BY <2>1, <2>2 DEF AcceptorRec, AcceptPc
  <2>4. acceptor' = [acceptor EXCEPT ![g] =
                      [acceptor[g] EXCEPT !.pc = "setLabel", !.text = ButtonText(netState)]]
    BY <1>5 DEF AcceptReadState, TypeOK
  <2>5. acceptor' \in [Starts -> AcceptorRec]
    BY <2>3, <2>4 DEF TypeOK
  <2>6. acceptor'[g].ptr = acceptor[g].ptr /\ acceptor'[g].text = ButtonText(netState)
    BY <2>2, <2>4 DEF TypeOK, AcceptorRec
  <2>7. \A h \in Starts \ {g} : acceptor'[h] = acceptor[h]
    BY <2>4 DEF TypeOK
  <2>. QED
    BY <1>5, <2>1, <2>5, <2>6, <2>7 DEF AcceptReadState, TypeOK
<1>6. CASE AcceptSetLabel(g)
  <2>1. label' \in Text
    BY <1>6 DEF AcceptSetLabel, TypeOK
  <2>2. acceptor[g] \in AcceptorRec /\ acceptor[g].ptr \in Blocks
    BY <1>6 DEF AcceptSetLabel, TypeOK
  <2>. DEFINE rec == [acceptor[g] EXCEPT !.pc = "done", !.text = ""]
  <2>3. rec \in AcceptorRec /\ rec.ptr \in Blocks /\ rec.pc # "setLabel"
    BY <2>2 DEF AcceptorRec, AcceptPc
  <2>4. acceptor' = [acceptor EXCEPT ![g] = rec]
    BY <1>6 DEF AcceptSetLabel, TypeOK
  <2>. HIDE DEF rec
  <2>5. /\ acceptor' \in [Starts -> AcceptorRec]
        /\ \A h \in Starts :
             /\ acceptor'[h].pc # "none" => acceptor'[h].ptr \in Blocks
             /\ acceptor'[h].pc = "setLabel" => acceptor'[h].text \in Text
    BY <2>3, <2>4 DEF TypeOK
  <2>. QED
    BY <1>6, <2>1, <2>5 DEF AcceptSetLabel, TypeOK
<1>. QED
  BY <1>1, <1>2, <1>3, <1>4, <1>5, <1>6 DEF Accept

\* So does any step of a receive thread that has its pointer and keeps it.
LEMMA RecvMoveTyped ==
    ASSUME TypeOK, NEW g \in Starts, receiver[g].pc # "none",
           NEW rec \in ReceiverRec, rec.ptr = receiver[g].ptr,
           receiver' = [receiver EXCEPT ![g] = rec]
    PROVE  /\ receiver' \in [Starts -> ReceiverRec]
           /\ \A h \in Starts : receiver'[h].pc # "none" => receiver'[h].ptr \in Blocks
BY DEF TypeOK

\* A step of a receive thread to another place keeps it typed.
LEMMA RecvAtTyped ==
    ASSUME TypeOK, NEW g \in Starts, NEW pc \in RecvPc,
           receiver[g].pc # "none", RecvAt(g, pc)
    PROVE  /\ receiver' \in [Starts -> ReceiverRec]
           /\ \A h \in Starts : receiver'[h].pc # "none" => receiver'[h].ptr \in Blocks
BY DEF TypeOK, RecvAt, ReceiverRec

\* A receive thread goes on at one of its places.
LEMMA AfterTyped == \A n : After(n) \in RecvPc
BY DEF After, RecvPc

\* A receive thread keeps them.
LEMMA ReceiveTyped ==
    ASSUME TypeOK, NEW g \in Starts, Receive(g)
    PROVE  TypeOK'
<1>. DEFINE r == receiver[g]
<1>. USE DEF RecvStep
<1>1. CASE RecvWait(g)
  BY <1>1, RecvAtTyped DEF RecvWait, TypeOK, RecvPc
<1>2. CASE RecvCheck(g)
  <2>1. /\ receiver' \in [Starts -> ReceiverRec]
        /\ \A h \in Starts : receiver'[h].pc # "none" => receiver'[h].ptr \in Blocks
    <3>1. CASE RecvAt(g, "done")
      BY <1>2, <3>1, RecvAtTyped DEF RecvCheck, RecvPc
    <3>2. CASE receiver' = [receiver EXCEPT
                ![g].pc = "recv",
                ![g].sock = IF Live(r.ptr) THEN block[r.ptr].clientSocket ELSE Null]
      <4>1. r.ptr \in Blocks
        BY <1>2 DEF RecvCheck, TypeOK
      <4>2. (IF Live(r.ptr) THEN block[r.ptr].clientSocket ELSE Null) \in Clients \cup {Null}
        BY <4>1 DEF TypeOK, ServerRec
      <4>. DEFINE v == IF Live(r.ptr) THEN block[r.ptr].clientSocket ELSE Null
                  rec == [r EXCEPT !.pc = "recv", !.sock = v]
      <4>3. r \in ReceiverRec /\ r.pc # "none"
        BY <1>2 DEF RecvCheck, TypeOK
      <4>4. rec \in ReceiverRec /\ rec.ptr = r.ptr
        BY <4>2, <4>3 DEF ReceiverRec, RecvPc
      <4>5. receiver' = [receiver EXCEPT ![g] = rec]
        BY <3>2
      <4>. HIDE DEF rec, v
      <4>. QED
        BY <4>3, <4>4, <4>5, RecvMoveTyped
    <3>. QED
      BY <1>2, <3>1, <3>2 DEF RecvCheck
  <2>. QED
    BY <1>2, <2>1 DEF RecvCheck, TypeOK
<1>3. CASE RecvReturns(g)
  <2>1. /\ receiver' \in [Starts -> ReceiverRec]
        /\ \A h \in Starts : receiver'[h].pc # "none" => receiver'[h].ptr \in Blocks
    <3>. DEFINE n == IF r.sock \in inbox THEN 4 ELSE 0
                rec == [r EXCEPT !.pc = "onRecv", !.length = n]
    <3>1. r \in ReceiverRec /\ r.pc # "none"
      BY <1>3 DEF RecvReturns, TypeOK
    <3>2. rec \in ReceiverRec /\ rec.ptr = r.ptr
      BY <3>1 DEF ReceiverRec, RecvPc
    <3>3. receiver' = [receiver EXCEPT ![g] = rec]
      BY <1>3 DEF RecvReturns
    <3>. HIDE DEF rec, n
    <3>. QED
      BY <3>1, <3>2, <3>3, RecvMoveTyped
  <2>2. block' \in [Blocks -> ServerRec]
    BY <1>3 DEF RecvReturns, TypeOK, ServerRec
  <2>3. alive' \in BOOLEAN /\ inbox' \subseteq Clients
    BY <1>3, TouchTyped DEF RecvReturns, TypeOK
  <2>. QED
    BY <1>3, <2>1, <2>2, <2>3 DEF RecvReturns, TypeOK
<1>4. CASE RecvFails(g)
  BY <1>4, RecvAtTyped, TouchTyped DEF RecvFails, TypeOK, RecvPc
<1>5. CASE RecvDispatch(g)
  <2>1. /\ receiver' \in [Starts -> ReceiverRec]
        /\ \A h \in Starts : receiver'[h].pc # "none" => receiver'[h].ptr \in Blocks
    BY <1>5, RecvAtTyped, AfterTyped DEF RecvDispatch, RecvPc
  <2>. QED
    BY <1>5, <2>1 DEF RecvDispatch, TypeOK
<1>6. CASE RecvRefresh(g)
  BY <1>6, RecvAtTyped DEF RecvRefresh, TypeOK, RecvPc
<1>7. CASE RecvSend(g)
  <2>1. /\ receiver' \in [Starts -> ReceiverRec]
        /\ \A h \in Starts : receiver'[h].pc # "none" => receiver'[h].ptr \in Blocks
    BY <1>7, RecvAtTyped, AfterTyped DEF RecvSend
  <2>2. alive' \in BOOLEAN
    BY <1>7, TouchTyped DEF RecvSend
  <2>3. replied' \subseteq [client : Clients, by : Starts]
    <3>1. CASE server = Null
      BY <1>7, <3>1 DEF RecvSend, TypeOK
    <3>2. CASE server # Null
      <4>1. block[server].clientSocket \in Clients \cup {Null}
        BY <3>2 DEF TypeOK, ServerRec
      <4>2. SocketOpen(block[server].clientSocket) => block[server].clientSocket \in Clients
        BY <4>1 DEF SocketOpen
      <4>. QED
        BY <1>7, <3>2, <4>2 DEF RecvSend, TypeOK
    <3>. QED
      BY <3>1, <3>2
  <2>. QED
    BY <1>7, <2>1, <2>2, <2>3 DEF RecvSend, TypeOK
<1>. QED
  BY <1>1, <1>2, <1>3, <1>4, <1>5, <1>6, <1>7 DEF Receive, Serve

\* A client that comes or goes keeps them.
LEMMA ClientTyped ==
    ASSUME TypeOK, NEW c \in Clients, ClientConnects(c) \/ ClientLeaves(c)
    PROVE  TypeOK'
<1>1. CASE ClientConnects(c)
  <2>1. conn' \in [Clients -> ConnRec]
    BY <1>1, StartNumbers DEF ClientConnects, TypeOK, ConnRec
  <2>. QED
    BY <1>1, <2>1 DEF ClientConnects, TypeOK
<1>2. CASE ClientLeaves(c)
  BY <1>2 DEF ClientLeaves, TypeOK
<1>. QED
  BY <1>1, <1>2

\* Every step keeps them, when there is a server where the UI thread expects
\* one.
LEMMA StepTyped == TypeOK /\ ServerInv /\ [Next]_vars => TypeOK'
<1>1. ASSUME TypeOK, UNCHANGED vars PROVE TypeOK'
  BY <1>1 DEF vars, TypeOK
<1>. QED
  BY <1>1, ClickTyped, HandlerTyped, AcceptTyped, ReceiveTyped, ClientTyped DEF Next

-----------------------------------------------------------------------------
(* The inductive invariant: who may have a server, and who may change it.  *)

\* No client has the value of a pointer to none.
LEMMA NullIsNoClient == \A c \in Clients : c # Null
BY ConnectionAssumption

\* Nor has any block of memory.
LEMMA NullIsNoBlock == \A b \in Blocks : b # Null
BY ConnectionAssumption

\* There is no server at the start, and no accept thread.
LEMMA InitInv == Init => ServerInv /\ ServingInv
<1>. SUFFICES ASSUME Init PROVE ServerInv /\ ServingInv
  OBVIOUS
<1>1. ui.pc = "idle" /\ server = Null /\ netState = "DISCONNECTED"
  BY DEF Init
<1>2. \A g \in Starts : acceptor[g].pc = "none"
  BY DEF Init
<1>3. ServerInv
  BY <1>1 DEF ServerInv
<1>4. ServingInv
  BY <1>1, <1>2 DEF ServingInv
<1>. QED
  BY <1>3, <1>4

\* What the invariant reads of a structure: not its receive buffer.
SameServers == \A b \in Blocks :
    /\ block'[b].mem = block[b].mem
    /\ block'[b].connected = block[b].connected
    /\ block'[b].clientSocket = block[b].clientSocket

\* A step that moves neither the UI thread nor an accept thread keeps the
\* invariant.
LEMMA UnmovedInv ==
    ASSUME TypeOK, ServerInv, ServingInv, SameServers,
           UNCHANGED <<netState, server, ui, acceptor, starts>>
    PROVE  ServerInv' /\ ServingInv'
<1>. USE DEF SameServers, TypeOK
<1>1. ServerInv'
  BY DEF ServerInv, Live
<1>2. ServingInv'
  BY DEF ServingInv
<1>. QED
  BY <1>1, <1>2

\* A click keeps the invariant.
LEMMA ClickInv == TypeOK /\ ServerInv /\ ServingInv /\ Click => ServerInv' /\ ServingInv'
<1>. SUFFICES ASSUME TypeOK, ServerInv, ServingInv, Click PROVE ServerInv' /\ ServingInv'
  OBVIOUS
<1>. USE DEF UiIdle
<1>1. CASE ClickConnect
  <2>1. server = Null /\ ui' = [pc |-> "start", next |-> "start"]
    BY <1>1 DEF ClickConnect, ServerInv
  <2>2. ServerInv'
    BY <1>1, <2>1 DEF ClickConnect, ServerInv
  <2>3. ServingInv'
    BY <1>1, <2>1 DEF ClickConnect, ServingInv
  <2>. QED
    BY <2>2, <2>3
<1>2. CASE ClickDisconnect
  <2>1. server # Null /\ ui' = [pc |-> "close", next |-> "state"]
    BY <1>2 DEF ClickDisconnect, ServerInv
  <2>2. ServerInv'
    BY <1>2, <2>1 DEF ClickDisconnect, ServerInv, Live
  <2>3. ServingInv'
    BY <1>2, <2>1 DEF ClickDisconnect, ServingInv
  <2>. QED
    BY <2>2, <2>3
<1>. QED
  BY <1>1, <1>2 DEF Click

\* So do startUp and disconnect, step by step.
LEMMA HandlerInv == TypeOK /\ ServerInv /\ ServingInv /\ Handler => ServerInv' /\ ServingInv'
<1>. SUFFICES ASSUME TypeOK, ServerInv, ServingInv, Handler PROVE ServerInv' /\ ServingInv'
  OBVIOUS
<1>. USE DEF UiStep, UiAt
<1>1. CASE ServerClose
  <2>1. netState = "CONNECTED" /\ server \in Blocks /\ ui.next = "state"
    BY <1>1 DEF ServerClose, ServerInv, TypeOK
  <2>2. ui'.pc = "destroy" /\ ui'.next = "state"
    BY <1>1, <2>1 DEF ServerClose, TypeOK
  <2>3. Live(server)'
    BY <1>1, <2>1 DEF ServerClose, ServerInv, TypeOK, ServerRec, Live
  <2>4. ServerInv'
    BY <1>1, <2>1, <2>2, <2>3, NullIsNoBlock DEF ServerClose, ServerInv
  <2>5. ServingInv'
    BY <1>1, <2>1, <2>2 DEF ServerClose, ServingInv
  <2>. QED
    BY <2>4, <2>5
<1>2. CASE ServerDestroy
  <2>1. netState = "CONNECTED" /\ server # Null /\ ui.next = "state"
    BY <1>2 DEF ServerDestroy, ServerInv
  <2>2. ui'.pc = "forget" /\ ui'.next = "state"
    BY <1>2, <2>1 DEF ServerDestroy, TypeOK
  <2>3. ServerInv'
    BY <1>2, <2>1, <2>2 DEF ServerDestroy, ServerInv
  <2>4. ServingInv'
    BY <1>2, <2>1, <2>2 DEF ServerDestroy, ServingInv
  <2>. QED
    BY <2>3, <2>4
<1>3. CASE ForgetServer
  <2>1. netState = "CONNECTED" /\ ui.next = "state"
    BY <1>3 DEF ForgetServer, ServerInv
  <2>2. ui'.pc = "state" /\ server' = Null
    BY <1>3, <2>1 DEF ForgetServer, TypeOK
  <2>3. ServerInv'
    BY <1>3, <2>1, <2>2 DEF ForgetServer, ServerInv
  <2>4. ServingInv'
    BY <1>3, <2>1, <2>2 DEF ForgetServer, ServingInv
  <2>. QED
    BY <2>3, <2>4
<1>4. CASE SetDisconnected
  <2>1. netState = "CONNECTED" /\ server = Null
    BY <1>4 DEF SetDisconnected, ServerInv
  <2>2. ui'.pc = "button" /\ netState' = "DISCONNECTED"
    BY <1>4 DEF SetDisconnected, TypeOK
  <2>3. ServerInv'
    BY <1>4, <2>1, <2>2 DEF SetDisconnected, ServerInv
  <2>4. ServingInv'
    BY <1>4, <2>1, <2>2 DEF SetDisconnected, ServingInv
  <2>. QED
    BY <2>3, <2>4
<1>5. CASE ServerStart
  <2>1. server = Null /\ netState = "DISCONNECTED"
    BY <1>5, StartIsNew
  <2>2. starts' \in Starts /\ starts' = starts + 1
    BY <1>5, StartIsNew
  <2>3. PICK b \in Blocks :
          /\ block' = [block EXCEPT ![b] = NewServer(starts')]
          /\ server' = b
          /\ acceptor' = [acceptor EXCEPT ![starts'] = [pc |-> "accept", ptr |-> b, text |-> ""]]
    BY <1>5 DEF ServerStart
  <2>4. ui'.pc = "await" /\ netState' = netState
    BY <1>5 DEF ServerStart, TypeOK
  <2>5. server' # Null /\ Live(server)'
    BY <2>3, NullIsNoBlock DEF TypeOK, Live, NewServer
  <2>6. \A g \in Starts : acceptor[g].pc \notin {"accept", "accepted", "callback"}
    BY <2>1 DEF ServingInv
  <2>7. ServerInv'
    BY <2>1, <2>4, <2>5 DEF ServerInv
  <2>8. \A g \in Starts : acceptor'[g].pc \in {"accept", "accepted", "callback"} =>
            g = starts' /\ acceptor'[g].ptr = server' /\ acceptor'[g].pc = "accept"
    BY <2>2, <2>3, <2>6 DEF TypeOK
  <2>9. ServingInv'
    BY <2>1, <2>4, <2>5, <2>8 DEF ServingInv
  <2>. QED
    BY <2>7, <2>9
<1>6. CASE SetAwaitClient
  <2>1. ui'.pc = "onConnected" /\ netState' = "AWAIT_CLIENT" /\ server # Null
    BY <1>6 DEF SetAwaitClient, ServerInv, TypeOK
  <2>2. ServerInv'
    BY <1>6, <2>1 DEF SetAwaitClient, ServerInv, Live
  <2>3. ServingInv'
    BY <1>6, <2>1 DEF SetAwaitClient, ServingInv
  <2>. QED
    BY <2>2, <2>3
<1>7. CASE ServerOnConnected \/ ServerOnRecv \/ Reset \/ UpdateConnectButton
  <2>1. UNCHANGED <<netState, server, block, acceptor, starts>>
    BY <1>7 DEF ServerOnConnected, ServerOnRecv, Reset, UpdateConnectButton
  <2>2. \/ ui'.pc \in {"onRecv", "reset", "button"} /\ server # Null /\ netState # "DISCONNECTED"
        \/ ui'.pc = "idle" /\ ui.pc = "button"
    BY <1>7 DEF ServerOnConnected, ServerOnRecv, Reset, UpdateConnectButton, ServerInv, TypeOK
  <2>3. ui.pc \in {"onConnected", "onRecv", "reset", "button"}
    BY <1>7 DEF ServerOnConnected, ServerOnRecv, Reset, UpdateConnectButton
  <2>4. ServerInv'
    BY <2>1, <2>2, <2>3 DEF ServerInv, Live
  <2>5. ServingInv'
    BY <2>1, <2>2, <2>3 DEF ServingInv
  <2>. QED
    BY <2>4, <2>5
<1>. QED
  BY <1>1, <1>2, <1>3, <1>4, <1>5, <1>6, <1>7 DEF Handler

\* The accept thread that still has work is that of the last start.
LEMMA AcceptorAlone ==
    ASSUME ServingInv, NEW g \in Starts, acceptor[g].pc \in {"accept", "accepted", "callback"}
    PROVE  \A h \in Starts \ {g} : acceptor[h].pc \notin {"accept", "accepted", "callback"}
BY DEF ServingInv

\* So does an accept thread, the last start's or an earlier one.
LEMMA AcceptInv ==
    ASSUME TypeOK, ServerInv, ServingInv, NEW g \in Starts, Accept(g)
    PROVE  ServerInv' /\ ServingInv'
<1>. USE DEF AcceptStep, AcceptPc
<1>. DEFINE Working == {"accept", "accepted", "callback"}
<1>1. CASE AcceptReturns(g) \/ AcceptFails(g) \/ AcceptConnected(g)
  <2>1. /\ g = starts /\ acceptor[g].ptr = server /\ server # Null /\ server \in Blocks
        /\ netState # "CONNECTED" /\ acceptor[g].pc \in Working
    BY <1>1 DEF AcceptReturns, AcceptFails, AcceptConnected, ServingInv, TypeOK
  <2>2. UNCHANGED <<netState, server, ui, starts>>
    BY <1>1 DEF AcceptReturns, AcceptFails, AcceptConnected
  <2>3. \A h \in Starts \ {g} : acceptor'[h].pc \notin Working
    BY <1>1, <2>1, AcceptorAlone, AcceptAtTyped DEF AcceptReturns, AcceptFails, AcceptConnected
  <2>4. acceptor'[g].ptr = server
    BY <1>1, <2>1, AcceptAtTyped DEF AcceptReturns, AcceptFails, AcceptConnected
  <2>5. block[server] \in ServerRec
    BY <2>1 DEF TypeOK
  <2>6. Live(server)' = Live(server)
    BY <1>1, <2>1, <2>2, <2>5
       DEF AcceptReturns, AcceptFails, AcceptConnected, TypeOK, ServerRec, Live
  <2>7. ServerInv'
    BY <2>2, <2>6 DEF ServerInv
  <2>8. /\ acceptor'[g].pc \in {"accepted", "callback"} => block'[server].clientSocket # Null
        /\ acceptor'[g].pc = "callback" => block'[server].connected
    <3>1. CASE AcceptReturns(g)
      <4>1. acceptor'[g].pc = "accepted"
        BY <3>1, AcceptAtTyped DEF AcceptReturns
      <4>2. block'[server].clientSocket # Null
        BY <3>1, <2>1, <2>5, NullIsNoClient DEF AcceptReturns, TypeOK, ServerRec
      <4>. QED
        BY <4>1, <4>2
    <3>2. CASE AcceptFails(g)
      <4>1. acceptor'[g].pc = "done"
        BY <3>2, AcceptAtTyped DEF AcceptFails
      <4>. QED
        BY <4>1
    <3>3. CASE AcceptConnected(g)
      BY <3>3, <2>1, <2>5 DEF AcceptConnected, TypeOK, ServerRec, ServingInv
    <3>. QED
      BY <1>1, <3>1, <3>2, <3>3
  <2>9. ServingInv'
    BY <2>1, <2>2, <2>3, <2>4, <2>8 DEF ServingInv
  <2>. QED
    BY <2>7, <2>9
<1>2. CASE AcceptCallback(g)
  <2>1. /\ server # Null /\ netState # "CONNECTED" /\ acceptor[g].pc \in Working
        /\ block[server].connected /\ block[server].clientSocket # Null
    BY <1>2 DEF AcceptCallback, ServingInv
  <2>2. UNCHANGED <<server, ui, starts, block>> /\ netState' \in {netState, "CONNECTED"}
    BY <1>2 DEF AcceptCallback
  <2>3. acceptor'[g].pc \in {"readState", "done"}
    BY <1>2, AcceptAtTyped DEF AcceptCallback
  <2>4. \A h \in Starts : acceptor'[h].pc \notin Working
    BY <1>2, <2>1, <2>3, AcceptorAlone, AcceptAtTyped DEF AcceptCallback
  <2>5. ServerInv'
    BY <2>1, <2>2 DEF ServerInv, Live
  <2>6. ServingInv'
    BY <2>1, <2>2, <2>4 DEF ServingInv
  <2>. QED
    BY <2>5, <2>6
<1>3. CASE AcceptReadState(g) \/ AcceptSetLabel(g)
  <2>1. UNCHANGED <<netState, server, ui, starts, block>>
    BY <1>3 DEF AcceptReadState, AcceptSetLabel
  <2>2. \A h \in Starts : acceptor'[h].pc \in Working => acceptor'[h] = acceptor[h]
    <3>1. \A h \in Starts \ {g} : acceptor'[h] = acceptor[h]
      BY <1>3 DEF AcceptReadState, AcceptSetLabel, AcceptAt, TypeOK
    <3>2. acceptor'[g].pc \in {"setLabel", "done"}
      <4>1. CASE AcceptReadState(g)
        BY <4>1 DEF AcceptReadState, TypeOK, AcceptorRec
      <4>2. CASE AcceptSetLabel(g)
        BY <4>2 DEF AcceptSetLabel, TypeOK, AcceptorRec
      <4>. QED
        BY <1>3, <4>1, <4>2
    <3>. QED
      BY <3>1, <3>2
  <2>3. ServerInv'
    BY <2>1 DEF ServerInv, Live
  <2>4. ServingInv'
    BY <2>1, <2>2 DEF ServingInv
  <2>. QED
    BY <2>3, <2>4
<1>. QED
  BY <1>1, <1>2, <1>3 DEF Accept

\* So does a receive thread, which may write into memory that is used again.
LEMMA ReceiveInv ==
    ASSUME TypeOK, ServerInv, ServingInv, NEW g \in Starts, Receive(g)
    PROVE  ServerInv' /\ ServingInv'
<1>. USE DEF RecvStep
<1>1. UNCHANGED <<netState, server, ui, acceptor, starts>>
  BY DEF Receive, Serve, RecvWait, RecvCheck, RecvReturns, RecvFails, RecvDispatch, RecvRefresh, RecvSend
<1>2. CASE RecvReturns(g)
  <2>1. SameServers
    BY <1>2 DEF RecvReturns, SameServers, TypeOK, ServerRec
  <2>. QED
    BY <1>1, <2>1, UnmovedInv
<1>3. CASE UNCHANGED block
  BY <1>1, <1>3, UnmovedInv DEF SameServers
<1>. QED
  BY <1>2, <1>3 DEF Receive, Serve, RecvWait, RecvCheck, RecvFails, RecvDispatch, RecvRefresh, RecvSend

\* So does a client.
LEMMA ClientInv ==
    ASSUME TypeOK, ServerInv, ServingInv, NEW c \in Clients,
           ClientConnects(c) \/ ClientLeaves(c)
    PROVE  ServerInv' /\ ServingInv'
<1>1. UNCHANGED <<netState, server, ui, acceptor, starts, block>>
  BY DEF ClientConnects, ClientLeaves
<1>. QED
  BY <1>1, UnmovedInv DEF SameServers

IInv == TypeOK /\ ServerInv /\ ServingInv

\* So does every step.
LEMMA StepInv == IInv /\ [Next]_vars => IInv'
<1>. SUFFICES ASSUME IInv, [Next]_vars PROVE ServerInv' /\ ServingInv'
  BY StepTyped DEF IInv
<1>1. CASE UNCHANGED vars
  BY <1>1, UnmovedInv DEF IInv, vars, SameServers
<1>2. CASE Next
  BY <1>2, ClickInv, HandlerInv, AcceptInv, ReceiveInv, ClientInv DEF IInv, Next
<1>. QED
  BY <1>1, <1>2

\* The invariant holds in every reachable state.
LEMMA Invariance == Spec => []IInv
<1>1. Init => IInv
  BY InitTyped, InitInv DEF IInv
<1>. QED
  BY <1>1, StepInv, PTL DEF Spec

-----------------------------------------------------------------------------
(* The theorems.                                                           *)

\* The variables keep their types, and a thread that runs has a pointer.
THEOREM ConnectionTyping == Spec => []TypeOK
BY Invariance, PTL DEF IInv

\* At its message loop the UI thread finds a server exactly when the state is
\* not DISCONNECTED, and in state CONNECTED one with a client: the sendMessage
\* of a hook message, which does not test _server, never follows NULL.
THEOREM SendsToServer == Spec => []ServerMatchesState
<1>1. IInv => ServerMatchesState
  BY DEF IInv, ServerMatchesState, ServerInv, ServingInv, UiIdle
<1>. QED
  BY <1>1, Invariance, PTL

\* The accept thread, which no lock protects, writes only to a server that is
\* the current one and that nobody is about to free.
THEOREM AcceptorSafe == Spec => []AcceptorOwnsServer
<1>1. IInv => AcceptorOwnsServer
  <2>. SUFFICES ASSUME IInv, NEW g \in Starts, acceptor[g].pc \in {"accept", "accepted"}
                PROVE  /\ acceptor[g].ptr = server /\ Live(server)
                       /\ ui.pc \notin {"close", "destroy", "forget"}
    BY DEF AcceptorOwnsServer
  <2>1. acceptor[g].ptr = server /\ server # Null /\ netState # "CONNECTED"
    BY DEF IInv, ServingInv
  <2>2. ui.pc \notin {"close", "destroy", "forget"}
    BY <2>1 DEF IInv, ServerInv
  <2>. QED
    BY <2>1, <2>2 DEF IInv, ServerInv
<1>. QED
  BY <1>1, Invariance, PTL

\* Server_Close and Server_Destroy are called on a server, and on each one once.
THEOREM DestroyedOnce == Spec => []NoDoubleFree
<1>1. IInv => NoDoubleFree
  BY DEF IInv, NoDoubleFree, ServerInv
<1>. QED
  BY <1>1, Invariance, PTL

-----------------------------------------------------------------------------
(* The refinement mapping.                                                 *)

Working == {"accept", "accepted", "callback"}

\* The accept thread of the last start has something left to do.
Serving == acceptor[starts].pc \in Working

\* The phase of the session, by cases.
LEMMA PhaseIs ==
    /\ ~InSession => Phase = "off"
    /\ InSession /\ Serving => Phase = "waiting"
    /\ InSession /\ ~Serving /\ netState = "CONNECTED" /\ ui.pc # "await" => Phase = "connected"
    /\ InSession /\ ~Serving /\ ~(netState = "CONNECTED" /\ ui.pc # "await") => Phase = "stuck"
BY DEF Phase, Serving, Working

\* The same after a step.
LEMMA PhaseIsNext ==
    /\ ~InSession' => Phase' = "off"
    /\ InSession' /\ Serving' => Phase' = "waiting"
    /\ InSession' /\ ~Serving' /\ netState' = "CONNECTED" /\ ui'.pc # "await"
         => Phase' = "connected"
    /\ InSession' /\ ~Serving' /\ ~(netState' = "CONNECTED" /\ ui'.pc # "await")
         => Phase' = "stuck"
BY DEF Phase, Serving, Working

\* Nothing of the session changes.
Same == UNCHANGED <<Phase, SessionClient, RepliedTo>>

\* A step of the session, or none.
SessionStep == S!Next \/ Same

SameSockets == \A b \in Blocks : /\ block'[b].mem = block[b].mem
                                 /\ block'[b].clientSocket = block[b].clientSocket

\* Steps that leave the server, the places and the socket alone are none.
LEMMA UnmovedSession ==
    ASSUME TypeOK, ServerInv, ServingInv, SessionInv,
           UNCHANGED <<netState, server, ui, starts, replied>>,
           SameSockets,
           \A g \in Starts : /\ acceptor'[g].pc \in Working <=> acceptor[g].pc \in Working
                             /\ acceptor'[g].pc = "accept" => acceptor[g].pc = "accept"
    PROVE  SessionInv' /\ Same
<1>. USE DEF SameSockets
<1>1. InSession' = InSession
  BY DEF InSession
<1>2. InSession => Serving' = Serving
  BY DEF InSession, SessionInv, Serving
<1>3. Phase' = Phase
  BY <1>1, <1>2, PhaseIs, PhaseIsNext
<1>4. SessionClient' = SessionClient
  BY <1>1 DEF SessionClient, InSession, TypeOK
<1>5. SessionInv'
  <2>1. \A g \in Starts : acceptor'[g].pc = "accept" => block'[server].clientSocket = Null
    BY DEF SessionInv, ServingInv, TypeOK, Working
  <2>2. ui.pc = "destroy" => block'[server].clientSocket = Null
    BY DEF SessionInv, ServerInv, TypeOK
  <2>3. ui.pc = "forget" => ~Live(server)'
    BY DEF SessionInv, ServerInv, TypeOK, Live
  <2>. QED
    BY <2>1, <2>2, <2>3 DEF SessionInv
<1>. QED
  BY <1>3, <1>4, <1>5 DEF Same, RepliedTo

-----------------------------------------------------------------------------
(* The button.                                                             *)

\* A click changes nothing of the session.
LEMMA ClickSession ==
    ASSUME TypeOK, ServerInv, SessionInv, Click
    PROVE  SessionInv' /\ Same
<1>1. /\ UNCHANGED <<netState, server, block, acceptor, starts, replied>>
      /\ ui.pc = "idle" /\ ui'.pc \in {"start", "close"}
  BY DEF Click, ClickConnect, ClickDisconnect, UiIdle, ServerInv
<1>2. InSession' = InSession /\ Serving' = Serving
  BY <1>1 DEF InSession, Serving
<1>3. Phase' = Phase
  BY <1>1, <1>2, PhaseIs, PhaseIsNext
<1>4. SessionInv'
  BY <1>1 DEF SessionInv
<1>. QED
  BY <1>1, <1>2, <1>3, <1>4 DEF Same, SessionClient, RepliedTo

\* Server_Close ends the session, and Server_Start begins one; the rest of
\* what the UI thread does is no step of a session.
LEMMA HandlerSession ==
    ASSUME TypeOK, ServerInv, ServingInv, SessionInv, Handler
    PROVE  SessionInv' /\ SessionStep
<1>. USE DEF UiStep, UiAt
<1>0. replied' = replied /\ RepliedTo' = RepliedTo
  BY DEF Handler, ServerClose, ServerDestroy, ForgetServer, SetDisconnected, ServerStart,
         SetAwaitClient, ServerOnConnected, ServerOnRecv, Reset, UpdateConnectButton, RepliedTo
<1>1. CASE ServerClose
  <2>1. /\ UNCHANGED <<netState, server, acceptor, starts>>
        /\ ui.pc = "close" /\ ui'.pc = "destroy"
        /\ server \in Blocks /\ netState = "CONNECTED"
    BY <1>1 DEF ServerClose, ServerInv, TypeOK
  <2>2. block'[server].clientSocket = Null
    BY <1>1, <2>1 DEF ServerClose, TypeOK, ServerRec
  <2>3. \A g \in Starts : acceptor[g].pc \notin Working
    BY <2>1 DEF ServingInv, Working
  <2>4. SessionInv'
    BY <2>1, <2>2, <2>3 DEF SessionInv, Working
  <2>5. InSession /\ ~Serving /\ ~InSession'
    BY <2>1, <2>3, NullIsNoBlock DEF InSession, Serving, SessionInv
  <2>6. Phase = "connected" /\ Phase' = "off" /\ SessionClient' = Null
    BY <2>1, <2>5, PhaseIs, PhaseIsNext DEF SessionClient
  <2>. QED
    BY <1>0, <2>4, <2>6 DEF SessionStep, S!Next, S!Disconnect
<1>2. CASE ServerDestroy \/ ForgetServer \/ SetDisconnected
  <2>1. /\ ~InSession /\ ~InSession'
        /\ UNCHANGED <<acceptor, starts>>
        /\ ui'.pc # "destroy"
    BY <1>2 DEF ServerDestroy, ForgetServer, SetDisconnected, InSession, ServerInv, TypeOK
  <2>2. netState = "CONNECTED" /\ server' \in {server, Null}
    BY <1>2 DEF ServerDestroy, ForgetServer, SetDisconnected, ServerInv
  <2>3. \A g \in Starts : acceptor[g].pc \notin Working
    BY <2>2 DEF ServingInv, Working
  <2>4. ui'.pc = "forget" => server' = server /\ ~Live(server)'
    <3>1. CASE ServerDestroy
      <4>1. server \in Blocks /\ server' = server
        BY <3>1 DEF ServerDestroy, ServerInv, TypeOK
      <4>2. block'[server].mem = "freed"
        BY <3>1, <4>1 DEF ServerDestroy, TypeOK, ServerRec
      <4>. QED
        BY <4>1, <4>2 DEF Live
    <3>2. CASE ForgetServer \/ SetDisconnected
      BY <3>2 DEF ForgetServer, SetDisconnected, ServerInv, TypeOK
    <3>. QED
      BY <1>2, <3>1, <3>2
  <2>5. SessionInv'
    BY <2>1, <2>2, <2>3, <2>4 DEF SessionInv, Working
  <2>. QED
    BY <1>0, <2>1, <2>5, PhaseIs, PhaseIsNext DEF SessionStep, Same, SessionClient
<1>3. CASE ServerStart
  <2>1. server = Null /\ starts' \in Starts
    BY <1>3, StartIsNew
  <2>2. PICK b \in Blocks :
          /\ block' = [block EXCEPT ![b] = NewServer(starts')]
          /\ server' = b
          /\ acceptor' = [acceptor EXCEPT ![starts'] = [pc |-> "accept", ptr |-> b, text |-> ""]]
    BY <1>3 DEF ServerStart
  <2>3. ui'.pc = "await"
    BY <1>3 DEF ServerStart, TypeOK
  <2>4. block'[server'].clientSocket = Null /\ acceptor'[starts'].pc = "accept"
    BY <2>1, <2>2 DEF NewServer, TypeOK
  <2>5. ~InSession /\ InSession' /\ Serving'
    BY <2>1, <2>2, <2>3, <2>4, NullIsNoBlock DEF InSession, Serving, Working
  <2>6. SessionInv'
    BY <2>1, <2>3, <2>4 DEF SessionInv
  <2>7. /\ Phase = "off" /\ Phase' = "waiting"
        /\ SessionClient = Null /\ SessionClient' = Null
    BY <2>4, <2>5, PhaseIs, PhaseIsNext DEF SessionClient
  <2>. QED
    BY <1>0, <2>6, <2>7 DEF SessionStep, S!Next, S!Connect
<1>4. CASE SetAwaitClient
  <2>1. /\ UNCHANGED <<server, block, acceptor, starts>>
        /\ ui.pc = "await" /\ ui'.pc = "onConnected" /\ netState' = "AWAIT_CLIENT"
    BY <1>4 DEF SetAwaitClient, TypeOK
  <2>2. InSession' = InSession /\ Serving' = Serving
    BY <2>1 DEF InSession, Serving
  <2>3. Phase' = Phase
    BY <2>1, <2>2, PhaseIs, PhaseIsNext
  <2>4. SessionInv'
    BY <2>1 DEF SessionInv
  <2>. QED
    BY <1>0, <2>1, <2>2, <2>3, <2>4 DEF SessionStep, Same, SessionClient
<1>5. CASE ServerOnConnected \/ ServerOnRecv \/ Reset \/ UpdateConnectButton
  <2>1. /\ UNCHANGED <<netState, server, block, acceptor, starts>>
        /\ ui.pc \notin {"await", "destroy", "forget"}
        /\ ui'.pc \notin {"await", "destroy", "forget"}
    BY <1>5 DEF ServerOnConnected, ServerOnRecv, Reset, UpdateConnectButton, TypeOK
  <2>2. InSession' = InSession /\ Serving' = Serving
    BY <2>1 DEF InSession, Serving
  <2>3. Phase' = Phase
    BY <2>1, <2>2, PhaseIs, PhaseIsNext
  <2>4. SessionInv'
    BY <2>1 DEF SessionInv
  <2>. QED
    BY <1>0, <2>1, <2>2, <2>3, <2>4 DEF SessionStep, Same, SessionClient
<1>. QED
  BY <1>1, <1>2, <1>3, <1>4, <1>5 DEF Handler

-----------------------------------------------------------------------------
(* The accept thread.                                                      *)

\* A step of the accept thread of the last start leaves the others with
\* nothing left to do.
LEMMA LastAcceptor ==
    ASSUME TypeOK, ServingInv, NEW g \in Starts, acceptor[g].pc \in Working,
           NEW pc \in AcceptPc, acceptor' = [acceptor EXCEPT ![g].pc = pc]
    PROVE  /\ g = starts /\ acceptor[g].ptr = server /\ server \in Blocks
           /\ netState # "CONNECTED"
           /\ acceptor'[g].pc = pc
           /\ \A h \in Starts \ {g} : acceptor'[h].pc \notin Working
BY DEF ServingInv, TypeOK, Working, AcceptorRec

\* An accept thread accepts, announces or fails to announce the client of its
\* session, or does nothing to a later one.
LEMMA AcceptSession ==
    ASSUME TypeOK, ServerInv, ServingInv, SessionInv, NEW g \in Starts, Accept(g)
    PROVE  SessionInv' /\ SessionStep
<1>. USE DEF AcceptStep, AcceptAt
<1>0. UNCHANGED <<server, ui, starts, replied>> /\ RepliedTo' = RepliedTo
  BY DEF Accept, AcceptReturns, AcceptFails, AcceptConnected, AcceptCallback, AcceptReadState,
         AcceptSetLabel, RepliedTo
<1>1. CASE AcceptReturns(g)
  <2>1. /\ g = starts /\ acceptor[g].ptr = server /\ server \in Blocks
        /\ netState # "CONNECTED" /\ netState' = netState
        /\ acceptor[g].pc = "accept" /\ acceptor'[g].pc = "accepted"
        /\ \A h \in Starts \ {g} : acceptor'[h].pc \notin Working
    BY <1>1, LastAcceptor DEF AcceptReturns, Working, AcceptPc
  <2>2. PICK c \in Clients : block' = [block EXCEPT ![server].clientSocket = c]
    BY <1>1, <2>1 DEF AcceptReturns
  <2>3. block'[server].clientSocket = c /\ block[server].clientSocket = Null
    BY <2>1, <2>2 DEF SessionInv, TypeOK, ServerRec
  <2>4. InSession /\ InSession' /\ Serving /\ Serving'
    BY <1>0, <2>1, NullIsNoBlock DEF InSession, Serving, Working, ServerInv
  <2>5. Phase = "waiting" /\ Phase' = "waiting"
    BY <2>4, PhaseIs, PhaseIsNext
  <2>6. SessionClient = Null /\ SessionClient' = c
    BY <1>0, <2>3, <2>4 DEF SessionClient
  <2>7. SessionInv'
    BY <1>0, <2>1 DEF SessionInv, ServerInv, Working
  <2>. QED
    BY <1>0, <2>5, <2>6, <2>7 DEF SessionStep, S!Next, S!Accept
<1>2. CASE AcceptFails(g)
  <2>1. /\ g = starts /\ acceptor[g].ptr = server /\ server \in Blocks
        /\ netState # "CONNECTED" /\ netState' = netState
        /\ acceptor[g].pc = "accept" /\ acceptor'[g].pc = "done"
        /\ \A h \in Starts \ {g} : acceptor'[h].pc \notin Working
    BY <1>2, LastAcceptor DEF AcceptFails, Working, AcceptPc
  <2>2. block'[server].clientSocket = Null /\ block[server].clientSocket = Null
    BY <1>2, <2>1 DEF AcceptFails, SessionInv, TypeOK, ServerRec
  <2>3. InSession /\ InSession' /\ Serving /\ ~Serving'
    BY <1>0, <2>1, NullIsNoBlock DEF InSession, Serving, Working, ServerInv
  <2>4. Phase = "waiting" /\ Phase' = "stuck"
    BY <2>1, <2>3, PhaseIs, PhaseIsNext
  <2>5. SessionClient' = SessionClient
    BY <1>0, <2>2, <2>3 DEF SessionClient
  <2>6. SessionInv'
    BY <1>0, <2>1 DEF SessionInv, ServerInv, Working
  <2>. QED
    BY <1>0, <2>4, <2>5, <2>6 DEF SessionStep, S!Next, S!Miss
<1>3. CASE AcceptConnected(g)
  <2>1. /\ netState' = netState /\ acceptor[g].pc = "accepted" /\ acceptor'[g].pc = "callback"
        /\ \A h \in Starts \ {g} : acceptor'[h] = acceptor[h]
    BY <1>3 DEF AcceptConnected, TypeOK, AcceptorRec
  <2>2. SameSockets
    BY <1>3 DEF AcceptConnected, SameSockets, TypeOK, ServerRec
  <2>. QED
    BY <1>0, <2>1, <2>2, UnmovedSession DEF SessionStep, Working
<1>4. CASE AcceptCallback(g)
  <2>1. /\ acceptor[g].pc = "callback" /\ UNCHANGED block
        /\ \/ acceptor'[g].pc = "readState" /\ netState' = "CONNECTED"
           \/ acceptor'[g].pc = "done" /\ netState' = netState
        /\ g = starts /\ acceptor[g].ptr = server /\ server \in Blocks
        /\ netState # "CONNECTED"
        /\ \A h \in Starts \ {g} : acceptor'[h].pc \notin Working
    BY <1>4, LastAcceptor DEF AcceptCallback, Working, AcceptPc
  <2>2. block[server].clientSocket # Null
    BY <2>1 DEF ServingInv
  <2>3. InSession /\ InSession' /\ Serving /\ ~Serving'
    BY <1>0, <2>1, NullIsNoBlock DEF InSession, Serving, Working, ServerInv
  <2>4. Phase = "waiting" /\ Phase' \in {"connected", "stuck"}
    BY <2>3, PhaseIs, PhaseIsNext
  <2>5. SessionClient' = SessionClient /\ SessionClient # Null
    BY <1>0, <2>1, <2>2, <2>3 DEF SessionClient
  <2>6. SessionInv'
    BY <1>0, <2>1 DEF SessionInv, ServerInv, Working
  <2>. QED
    BY <1>0, <2>4, <2>5, <2>6 DEF SessionStep, S!Next, S!Announce, S!Miss
<1>5. CASE AcceptReadState(g) \/ AcceptSetLabel(g)
  <2>1. /\ UNCHANGED <<netState, block>>
        /\ acceptor[g].pc \in {"readState", "setLabel"}
        /\ acceptor'[g].pc \in {"setLabel", "done"}
        /\ \A h \in Starts \ {g} : acceptor'[h] = acceptor[h]
    BY <1>5 DEF AcceptReadState, AcceptSetLabel, TypeOK, AcceptorRec
  <2>. QED
    BY <1>0, <2>1, UnmovedSession DEF SessionStep, Working, SameSockets
<1>. QED
  BY <1>1, <1>2, <1>3, <1>4, <1>5 DEF Accept

-----------------------------------------------------------------------------
(* The receive threads and the clients.                                    *)

\* A list goes to the client of the session that there is, whichever start the
\* thread that sends it belongs to.
LEMMA ReceiveSession ==
    ASSUME TypeOK, ServerInv, ServingInv, SessionInv, NEW g \in Starts, Receive(g)
    PROVE  SessionInv' /\ SessionStep
<1>. USE DEF RecvStep
<1>1. UNCHANGED <<netState, server, ui, acceptor, starts>>
  BY DEF Receive, Serve, RecvWait, RecvCheck, RecvReturns, RecvFails, RecvDispatch, RecvRefresh, RecvSend
<1>2. SameSockets
  <2>1. CASE RecvReturns(g)
    BY <2>1 DEF RecvReturns, SameSockets, TypeOK, ServerRec
  <2>2. CASE UNCHANGED block
    BY <2>2 DEF SameSockets
  <2>. QED
    BY <2>1, <2>2
       DEF Receive, Serve, RecvWait, RecvCheck, RecvFails, RecvDispatch, RecvRefresh, RecvSend
<1>3. CASE replied' = replied
  BY <1>1, <1>2, <1>3, UnmovedSession DEF SessionStep
<1>4. CASE RecvSend(g) /\ replied' # replied
  <2>1. /\ UNCHANGED block /\ server \in Blocks /\ Live(server)
        /\ block[server].clientSocket # Null
        /\ replied' = replied \cup {[client |-> block[server].clientSocket, by |-> g]}
    BY <1>4 DEF RecvSend, SocketOpen, TypeOK
  <2>2. InSession
    BY <2>1, NullIsNoBlock DEF InSession, SessionInv
  <2>3. SessionInv'
    BY <1>1, <2>1 DEF SessionInv, Live
  <2>4. Phase' = Phase /\ SessionClient' = SessionClient
    BY <1>1, <2>1, PhaseIs, PhaseIsNext DEF InSession, Serving, SessionClient
  <2>5. SessionClient = block[server].clientSocket
    BY <2>2 DEF SessionClient
  <2>6. RepliedTo' = RepliedTo \cup {SessionClient}
    <3>. DEFINE reply == [client |-> SessionClient, by |-> g]
    <3>1. replied' = replied \cup {reply} /\ reply.client = SessionClient
      BY <2>1, <2>5
    <3>. HIDE DEF reply
    <3>. QED
      BY <3>1 DEF RepliedTo
  <2>. QED
    BY <2>1, <2>3, <2>4, <2>5, <2>6 DEF SessionStep, S!Next, S!Tell
<1>. QED
  BY <1>3, <1>4 DEF Receive, Serve, RecvWait, RecvCheck, RecvReturns, RecvFails, RecvDispatch, RecvRefresh

\* A client that comes or goes changes nothing of the session.
LEMMA ClientSession ==
    ASSUME TypeOK, ServerInv, ServingInv, SessionInv, NEW c \in Clients,
           ClientConnects(c) \/ ClientLeaves(c)
    PROVE  SessionInv' /\ Same
<1>1. UNCHANGED <<netState, server, ui, acceptor, starts, block, replied>>
  BY DEF ClientConnects, ClientLeaves
<1>. QED
  BY <1>1, UnmovedSession DEF SameSockets

-----------------------------------------------------------------------------
(* The theorem.                                                            *)

\* Every step is a step of the session, or changes nothing of it.
LEMMA SessionStepNext ==
    ASSUME IInv, SessionInv, [Next]_vars
    PROVE  SessionInv' /\ SessionStep
<1>1. CASE UNCHANGED vars
  <2>1. UNCHANGED <<netState, server, ui, acceptor, starts, block, replied>>
    BY <1>1 DEF vars
  <2>. QED
    BY <2>1, UnmovedSession DEF IInv, SameSockets, SessionStep
<1>2. CASE Next
  BY <1>2, ClickSession, HandlerSession, AcceptSession, ReceiveSession, ClientSession
     DEF IInv, Next, SessionStep
<1>. QED
  BY <1>1, <1>2

\* There is no session at the start.
LEMMA SessionBegins == Init => SessionInv /\ S!Init
<1>. SUFFICES ASSUME Init PROVE SessionInv /\ S!Init
  OBVIOUS
<1>1. ~InSession
  BY DEF Init, InSession
<1>2. Phase = "off" /\ SessionClient = Null
  BY <1>1, PhaseIs DEF SessionClient
<1>3. RepliedTo = {}
  BY DEF Init, RepliedTo
<1>4. SessionInv
  BY DEF Init, SessionInv
<1>. QED
  BY <1>2, <1>3, <1>4 DEF S!Init

\* Every behaviour of the threads, the callbacks and the button is a session
\* after the other, each with at most one client, as module Session has them.
THEOREM SessionImplemented == Spec => ImplementsSession
<1>1. SessionInv /\ IInv /\ [Next]_vars
        => SessionInv' /\ [S!Next]_<<Phase, SessionClient, RepliedTo>>
  BY SessionStepNext DEF SessionStep, Same
<1>2. Spec => [](SessionInv /\ IInv)
  BY SessionBegins, Invariance, <1>1, PTL DEF Spec
<1>. QED
  BY SessionBegins, <1>1, <1>2, PTL DEF Spec, ImplementsSession, S!Spec

-----------------------------------------------------------------------------
(* The label of the button.                                                *)

\* Steps that touch neither the state nor the label, of the threads whose places
\* do not matter here.
LEMMA LabelKept ==
    ASSUME LabelInv, UNCHANGED <<netState, ui, acceptor, label, early, overtaken>>
    PROVE  LabelInv'
BY DEF LabelInv, Announcing, UiIdle

\* A click that overtakes a callback is remembered.
LEMMA ClickLabel ==
    ASSUME TypeOK, ServerInv, LabelInv, Click
    PROVE  LabelInv'
<1>1. /\ UNCHANGED <<netState, acceptor, label, early>> /\ UiIdle
      /\ overtaken' = (overtaken \/ Announcing) /\ Announcing' = Announcing
  BY DEF Click, ClickConnect, ClickDisconnect, Announcing
<1>2. ui'.pc \in {"close", "start"}
  <2>1. CASE ClickConnect
    BY <2>1 DEF ClickConnect
  <2>2. CASE ClickDisconnect
    <3>1. netState = "CONNECTED" /\ ui.pc = "idle"
      BY <2>2 DEF ClickDisconnect, UiIdle
    <3>2. server # Null
      BY <3>1 DEF ServerInv
    <3>. QED
      BY <2>2, <3>2 DEF ClickDisconnect
  <2>. QED
    BY <2>1, <2>2 DEF Click
<1>3. ui'.pc \notin Starting /\ ~UiIdle'
  BY <1>2 DEF Starting, UiIdle
<1>. QED
  BY <1>1, <1>2, <1>3 DEF LabelInv

\* The UI thread leaves the label right when it is back at its message loop.
LEMMA HandlerLabel ==
    ASSUME TypeOK, ServerInv, ServingInv, LabelInv, Handler
    PROVE  LabelInv'
<1>. USE DEF UiStep, UiAt
<1>1. CASE ServerClose \/ ServerDestroy \/ ForgetServer
  <2>1. UNCHANGED <<netState, acceptor, label, early, overtaken>> /\ Announcing' = Announcing
    BY <1>1 DEF ServerClose, ServerDestroy, ForgetServer, Announcing
  <2>2. ui.pc \in {"close", "destroy", "forget"} /\ ui.next = "state"
    BY <1>1 DEF ServerClose, ServerDestroy, ForgetServer, ServerInv
  <2>3. ui'.pc \in {"destroy", "forget", "state"}
    BY <1>1, <2>2 DEF ServerClose, ServerDestroy, ForgetServer, TypeOK
  <2>. QED
    BY <2>1, <2>2, <2>3 DEF LabelInv, Starting, UiIdle
<1>2. CASE SetDisconnected
  <2>1. /\ UNCHANGED <<acceptor, label, early, overtaken>> /\ Announcing' = Announcing
        /\ ui.pc = "state" /\ ui'.pc = "button"
    BY <1>2 DEF SetDisconnected, Announcing, TypeOK
  <2>2. netState = "CONNECTED"
    BY <2>1 DEF ServerInv
  <2>3. \A g \in Starts : acceptor[g].pc \notin {"accept", "accepted", "callback"}
    BY <2>2 DEF ServingInv
  <2>. QED
    BY <2>1, <2>3 DEF LabelInv, Starting, UiIdle
<1>3. CASE ServerStart
  <2>1. server = Null /\ starts' \in Starts
    BY <1>3, StartIsNew
  <2>2. /\ ui.pc = "start" /\ ui'.pc = "await" /\ early' = FALSE /\ overtaken' = overtaken
    BY <1>3 DEF ServerStart, TypeOK
  <2>2a. \A g \in Starts : acceptor'[g] = acceptor[g] \/ acceptor'[g].pc = "accept"
    <3>1. PICK b \in Blocks :
            acceptor' = [acceptor EXCEPT ![starts'] = [pc |-> "accept", ptr |-> b, text |-> ""]]
      BY <1>3 DEF ServerStart
    <3>. QED
      BY <2>1, <3>1 DEF TypeOK
  <2>3. \A g \in Starts : acceptor[g].pc \notin {"accept", "accepted", "callback"}
    BY <2>1 DEF ServingInv
  <2>4. ~overtaken => ~Announcing'
    BY <2>2, <2>2a DEF LabelInv, Announcing
  <2>. QED
    BY <2>2, <2>2a, <2>3, <2>4 DEF LabelInv, Starting, UiIdle
<1>4. CASE SetAwaitClient \/ ServerOnConnected \/ ServerOnRecv \/ Reset
  <2>1. /\ UNCHANGED <<acceptor, label, early, overtaken>> /\ Announcing' = Announcing
        /\ ui.pc \in Starting /\ ui'.pc \in Starting
    BY <1>4 DEF SetAwaitClient, ServerOnConnected, ServerOnRecv, Reset, Announcing, TypeOK,
       Starting
  <2>. QED
    BY <2>1 DEF LabelInv, Starting, UiIdle
<1>5. CASE UpdateConnectButton
  <2>1. /\ UNCHANGED <<netState, acceptor, early, overtaken>> /\ Announcing' = Announcing
        /\ ui.pc = "button" /\ ui'.pc = "idle" /\ label' = ButtonText(netState)
    BY <1>5 DEF UpdateConnectButton, Announcing, TypeOK
  <2>2. ~overtaken /\ ~early => ~Announcing
    BY <2>1 DEF LabelInv, Starting
  <2>. QED
    BY <2>1, <2>2 DEF LabelInv, Starting, UiIdle, Announcing
<1>. QED
  BY <1>1, <1>2, <1>3, <1>4, <1>5 DEF Handler

\* A client is accepted early, or the UI thread leaves the label to the callback.
LEMMA AcceptLabel ==
    ASSUME TypeOK, ServerInv, ServingInv, LabelInv, NEW g \in Starts, Accept(g)
    PROVE  LabelInv'
<1>. USE DEF AcceptStep, AcceptPc
<1>0. ui' = ui /\ overtaken' = overtaken
  BY DEF Accept, AcceptReturns, AcceptFails, AcceptConnected, AcceptCallback,
     AcceptReadState, AcceptSetLabel
<1>1. CASE AcceptReturns(g)
  <2>1. /\ UNCHANGED <<netState, label>> /\ early' = (ui.pc # "idle") /\ acceptor[g].pc = "accept"
        /\ acceptor'[g].pc = "accepted" /\ \A h \in Starts \ {g} : acceptor'[h] = acceptor[h]
    BY <1>1, AcceptAtTyped DEF AcceptReturns
  <2>2. \A h \in Starts : acceptor'[h].pc # "accept"
    BY <2>1, AcceptorAlone
  <2>3. Announcing' = Announcing
    BY <2>1 DEF Announcing
  <2>4. ~early
    BY <2>1 DEF LabelInv
  <2>5. \A h \in Starts : acceptor'[h].pc = "setLabel" => acceptor'[h] = acceptor[h]
    BY <2>1
  <2>. QED
    BY <1>0, <2>1, <2>2, <2>3, <2>4, <2>5 DEF LabelInv, Starting, UiIdle
<1>2. CASE AcceptFails(g) \/ AcceptConnected(g)
  <2>1. /\ UNCHANGED <<netState, label, early>> /\ acceptor[g].pc \in {"accept", "accepted"}
        /\ acceptor'[g].pc \in {"done", "callback"}
        /\ acceptor'[g].pc = "callback" => acceptor[g].pc = "accepted"
        /\ \A h \in Starts \ {g} : acceptor'[h] = acceptor[h]
    BY <1>2, AcceptAtTyped DEF AcceptFails, AcceptConnected
  <2>2. Announcing' = Announcing
    BY <2>1 DEF Announcing
  <2>3. \A h \in Starts : acceptor'[h].pc = "setLabel" => acceptor'[h] = acceptor[h]
    BY <2>1
  <2>4. \A h \in Starts : acceptor'[h].pc \in {"accept"} => acceptor'[h] = acceptor[h]
    BY <2>1
  <2>. QED
    BY <1>0, <2>1, <2>2, <2>3, <2>4 DEF LabelInv, Starting, UiIdle
<1>3. CASE AcceptCallback(g)
  <2>1. /\ UNCHANGED <<label, early>> /\ acceptor[g].pc = "callback"
        /\ \/ acceptor'[g].pc = "readState" /\ netState' = "CONNECTED"
           \/ acceptor'[g].pc = "done" /\ netState' = netState
        /\ \A h \in Starts \ {g} : acceptor'[h] = acceptor[h]
    BY <1>3, AcceptAtTyped DEF AcceptCallback
  <2>2. server # Null
    BY <2>1 DEF ServingInv
  <2>3. /\ ui.pc \notin {"close", "destroy", "forget", "state", "start"}
        /\ ~early => ui.pc \notin Starting
    <3>1. netState # "CONNECTED"
      BY <2>1 DEF ServingInv
    <3>. QED
      BY <2>1, <2>2, <3>1 DEF ServerInv, LabelInv
  <2>4. \A h \in Starts : acceptor'[h].pc \in {"accept", "setLabel"} => acceptor'[h] = acceptor[h]
    BY <2>1
  <2>5. Announcing' => netState' = "CONNECTED" \/ Announcing
    BY <2>1 DEF Announcing
  <2>6. ~Announcing' => acceptor'[g].pc = "done" /\ netState' = netState /\ ~Announcing
    BY <2>1 DEF Announcing
  <2>7. netState = "CONNECTED" => netState' = "CONNECTED"
    BY <2>1
  <2>. QED
    BY <1>0, <2>1, <2>3, <2>4, <2>5, <2>6, <2>7 DEF LabelInv, UiIdle
<1>4. CASE AcceptReadState(g)
  <2>1. /\ UNCHANGED <<netState, label, early>> /\ acceptor[g].pc = "readState"
        /\ acceptor'[g].pc = "setLabel" /\ acceptor'[g].text = ButtonText(netState)
        /\ \A h \in Starts \ {g} : acceptor'[h] = acceptor[h]
    BY <1>4 DEF AcceptReadState, TypeOK, AcceptorRec
  <2>2. Announcing /\ Announcing'
    BY <2>1 DEF Announcing
  <2>3. \A h \in Starts : acceptor'[h].pc \in {"accept", "accepted", "callback"}
                             => acceptor'[h] = acceptor[h]
    BY <2>1
  <2>4. ~overtaken /\ ~early /\ UiIdle =>
          \A h \in Starts : acceptor'[h].pc = "setLabel" => acceptor'[h].text = ButtonText("CONNECTED")
    BY <2>1, <2>2 DEF LabelInv
  <2>. QED
    BY <1>0, <2>1, <2>2, <2>3, <2>4 DEF LabelInv, UiIdle
<1>5. CASE AcceptSetLabel(g)
  <2>1. /\ UNCHANGED <<netState, early>> /\ acceptor[g].pc = "setLabel" /\ UiIdle
        /\ acceptor'[g].pc = "done" /\ label' = acceptor[g].text
        /\ \A h \in Starts \ {g} : acceptor'[h] = acceptor[h]
    BY <1>5 DEF AcceptSetLabel, TypeOK, AcceptorRec
  <2>2. Announcing
    BY <2>1 DEF Announcing
  <2>3. \A h \in Starts : acceptor'[h].pc \in {"accept", "accepted", "callback", "setLabel"}
                             => acceptor'[h] = acceptor[h]
    BY <2>1
  <2>4. ~overtaken /\ ~early =>
          label' = ButtonText("CONNECTED") /\ netState = "CONNECTED"
    BY <2>1, <2>2 DEF LabelInv
  <2>. QED
    BY <1>0, <2>1, <2>3, <2>4 DEF LabelInv, UiIdle, Starting
<1>. QED
  BY <1>1, <1>2, <1>3, <1>4, <1>5 DEF Accept

\* No step of any thread breaks it.
LEMMA LabelStep ==
    ASSUME IInv, LabelInv, [Next]_vars
    PROVE  LabelInv'
<1>1. CASE UNCHANGED vars
  BY <1>1, LabelKept DEF vars
<1>2. ASSUME NEW g \in Starts, Receive(g) PROVE LabelInv'
  BY <1>2, LabelKept DEF Receive, Serve, RecvWait, RecvCheck, RecvReturns, RecvFails, RecvDispatch,
     RecvRefresh, RecvSend, RecvStep
<1>3. ASSUME NEW c \in Clients, ClientConnects(c) \/ ClientLeaves(c) PROVE LabelInv'
  BY <1>3, LabelKept DEF ClientConnects, ClientLeaves
<1>. QED
  BY <1>1, <1>2, <1>3, ClickLabel, HandlerLabel, AcceptLabel DEF IInv, Next

\* The label fits the state at the start.
LEMMA InitLabel == Init => LabelInv
<1>. SUFFICES ASSUME Init PROVE LabelInv
  OBVIOUS
<1>1. /\ ~early /\ ui.pc = "idle" /\ label = "Connect" /\ netState = "DISCONNECTED"
      /\ \A g \in Starts : acceptor[g].pc = "none"
  BY DEF Init
<1>2. ButtonText(netState) = label
  BY <1>1 DEF ButtonText
<1>. QED
  BY <1>1, <1>2 DEF LabelInv, Starting, UiIdle, Announcing

\* Whichever thread wrote it last, the label of the button fits the state once no
\* callback is about to set it, unless a client or a click came in between.
THEOREM LabelIsRight == Spec => []LabelAgrees
<1>1. LabelInv => LabelAgrees
  BY DEF LabelInv, LabelAgrees
<1>2. IInv /\ LabelInv /\ [Next]_vars => LabelInv'
  BY LabelStep
<1>. QED
  BY InitLabel, <1>1, <1>2, Invariance, PTL DEF Spec

-----------------------------------------------------------------------------
(* The list that was sent and the map.                                     *)

\* startUp has not got past reset() yet.
BeforeReset == Starting \ {"button"}

\* Steps that no receive thread takes part in, and that neither start a server
\* nor empty the map.
LEMMA TasksKept ==
    ASSUME TasksInv, UNCHANGED <<receiver, replied, tasks, starts>>, ~early' => ~early,
           ~early' /\ ui'.pc \in BeforeReset =>
              ui.pc \in BeforeReset /\ server' = server
              /\ block'[server].connected = block[server].connected
    PROVE  TasksInv'
BY DEF TasksInv, BeforeReset

\* reset() empties a map that no list sent by this start has been read from.
LEMMA HandlerTasks ==
    ASSUME IInv, TasksInv, Handler
    PROVE  TasksInv'
<1>. USE DEF UiStep, UiAt, IInv
<1>1. CASE ServerClose \/ ServerDestroy \/ ForgetServer \/ SetDisconnected \/ UpdateConnectButton
  <2>1. /\ UNCHANGED <<receiver, replied, tasks, starts, early>>
        /\ ui'.pc \in {"destroy", "forget", "state", "button", "idle"}
    BY <1>1 DEF ServerClose, ServerDestroy, ForgetServer, SetDisconnected, UpdateConnectButton,
       ServerInv, TypeOK
  <2>. QED
    BY <2>1, TasksKept DEF BeforeReset, Starting
<1>2. CASE SetAwaitClient \/ ServerOnConnected \/ ServerOnRecv
  <2>1. /\ UNCHANGED <<receiver, replied, tasks, starts, early, server, block>>
        /\ ui.pc \in BeforeReset
    BY <1>2 DEF SetAwaitClient, ServerOnConnected, ServerOnRecv, BeforeReset, Starting
  <2>. QED
    BY <2>1, TasksKept
<1>3. CASE Reset
  <2>1. /\ UNCHANGED <<receiver, replied, starts, early>>
        /\ ui.pc \in BeforeReset /\ ui'.pc \notin BeforeReset
    BY <1>3 DEF Reset, BeforeReset, Starting, TypeOK
  <2>2. starts \in Starts /\ ~early =>
          receiver[starts].pc = "wait" /\ \A r \in replied : r.by # starts
    BY <2>1 DEF TasksInv, BeforeReset
  <2>. QED
    BY <2>1, <2>2 DEF TasksInv, BeforeReset
<1>4. CASE ServerStart
  <2>1. starts' = starts + 1 /\ starts' \in Starts
    BY <1>4, StartIsNew
  <2>2. PICK b \in Blocks :
          /\ block' = [block EXCEPT ![b] = NewServer(starts')]
          /\ server' = b
          /\ receiver' = [receiver EXCEPT ![starts'] =
                            [pc |-> "wait", ptr |-> b, sock |-> Null, length |-> 0]]
    BY <1>4 DEF ServerStart
  <2>3. receiver'[starts'].pc = "wait" /\ receiver'[starts'].ptr = server'
    BY <2>1, <2>2 DEF TypeOK
  <2>4. ~block'[server'].connected
    BY <2>2 DEF NewServer, TypeOK
  <2>5. replied' = replied /\ starts \in Nat
    <3>1. replied' = replied
      BY <1>4 DEF ServerStart
    <3>2. starts \in 0 .. MaxStarts
      BY DEF TypeOK
    <3>. QED
      BY <3>1, <3>2, ConnectionAssumption
  <2>6. \A r \in replied : r.by # starts'
    BY <2>1, <2>5 DEF TasksInv
  <2>7. \A g \in Starts : g > starts' =>
          receiver'[g].pc = "none" /\ \A r \in replied' : r.by # g
    <3>1. \A g \in Starts : g > starts' => g > starts /\ receiver'[g] = receiver[g]
      BY <2>1, <2>2, <2>5 DEF Starts, TypeOK
    <3>. QED
      BY <2>5, <3>1 DEF TasksInv
  <2>. QED
    BY <2>3, <2>4, <2>5, <2>6, <2>7 DEF TasksInv
<1>. QED
  BY <1>1, <1>2, <1>3, <1>4 DEF Handler

\* Only a client that comes early lets the receive thread go on before reset().
LEMMA AcceptTasks ==
    ASSUME IInv, LabelInv, TasksInv, NEW g \in Starts, Accept(g)
    PROVE  TasksInv'
<1>. USE DEF AcceptStep, IInv
<1>1. UNCHANGED <<server, ui, receiver, replied, tasks, starts>>
  BY DEF Accept, AcceptReturns, AcceptFails, AcceptConnected, AcceptCallback,
     AcceptReadState, AcceptSetLabel
<1>2. CASE AcceptReturns(g)
  <2>1. ~early /\ early' = (ui.pc # "idle")
    BY <1>2 DEF AcceptReturns, LabelInv
  <2>. QED
    BY <1>1, <2>1, TasksKept DEF BeforeReset, Starting
<1>3. CASE AcceptFails(g)
  <2>1. early' = early /\ block' = [block EXCEPT ![acceptor[g].ptr].clientSocket = Null]
    BY <1>3 DEF AcceptFails
  <2>2. server # Null => block'[server].connected = block[server].connected
    BY <2>1 DEF TypeOK, ServerRec
  <2>3. ui.pc \in BeforeReset => server # Null
    BY DEF ServerInv, BeforeReset, Starting
  <2>. QED
    BY <1>1, <2>1, <2>2, <2>3, TasksKept
<1>4. CASE AcceptConnected(g)
  <2>1. early' = early /\ (~early => ui.pc \notin Starting)
    BY <1>4 DEF AcceptConnected, LabelInv
  <2>. QED
    BY <1>1, <2>1, TasksKept DEF BeforeReset
<1>5. CASE AcceptCallback(g) \/ AcceptReadState(g) \/ AcceptSetLabel(g)
  <2>1. UNCHANGED <<early, block>>
    BY <1>5 DEF AcceptCallback, AcceptReadState, AcceptSetLabel
  <2>. QED
    BY <1>1, <2>1, TasksKept
<1>. QED
  BY <1>2, <1>3, <1>4, <1>5 DEF Accept

\* A receive thread fills the map in before it sends the list.
LEMMA ReceiveTasks ==
    ASSUME IInv, TasksInv, NEW g \in Starts, Receive(g)
    PROVE  TasksInv'
<1>. USE DEF RecvStep, RecvAt
<1>0. TypeOK /\ ServerInv
  BY DEF IInv
<1>1. /\ UNCHANGED <<server, ui, starts, early>> /\ receiver[g].pc # "none"
      /\ \A h \in Starts \ {g} : receiver'[h] = receiver[h]
  BY <1>0 DEF Receive, Serve, RecvWait, RecvCheck, RecvReturns, RecvFails, RecvDispatch, RecvRefresh,
     RecvSend, TypeOK
<1>2. \A b \in Blocks : block'[b].connected = block[b].connected
  <2>1. CASE RecvReturns(g)
    BY <2>1, <1>0 DEF RecvReturns, TypeOK, ServerRec
  <2>2. CASE UNCHANGED block
    BY <2>2
  <2>. QED
    BY <2>1, <2>2 DEF Receive, Serve, RecvWait, RecvCheck, RecvFails, RecvDispatch, RecvRefresh, RecvSend
<1>3. /\ \A r \in replied' : r \in replied \/ (r.by = g /\ receiver[g].pc = "send")
      /\ replied \subseteq replied'
  <2>1. CASE RecvSend(g)
    <3>1. \/ replied' = replied
          \/ \E c : replied' = replied \cup {[client |-> c, by |-> g]}
      BY <2>1, Zenon DEF RecvSend
    <3>2. receiver[g].pc = "send"
      BY <2>1 DEF RecvSend
    <3>. QED
      BY <3>1, <3>2
  <2>2. CASE UNCHANGED replied
    BY <2>2
  <2>. QED
    BY <2>1, <2>2 DEF Receive, Serve, RecvWait, RecvCheck, RecvReturns, RecvFails, RecvDispatch,
       RecvRefresh
<1>4. (tasks => tasks') /\ (receiver'[g].pc = "send" => tasks')
  <2>1. CASE RecvRefresh(g)
    <3>1. tasks'
      BY <2>1 DEF RecvRefresh
    <3>. QED
      BY <3>1
  <2>2. CASE RecvWait(g) \/ RecvCheck(g) \/ RecvReturns(g) \/ RecvFails(g) \/ RecvDispatch(g)
             \/ RecvSend(g)
    <3>1. receiver'[g].pc \in {"check", "recv", "onRecv", "refresh", "done"}
      <4>1. CASE RecvWait(g) \/ RecvCheck(g) \/ RecvReturns(g) \/ RecvFails(g)
        <5>0. receiver \in [Starts -> ReceiverRec] /\ receiver[g] \in ReceiverRec
          BY <1>0 DEF TypeOK
        <5>1. CASE RecvWait(g)
          BY <5>0, <5>1 DEF RecvWait, ReceiverRec
        <5>2. CASE RecvCheck(g)
          BY <5>0, <5>2 DEF RecvCheck, ReceiverRec
        <5>3. CASE RecvReturns(g)
          BY <5>0, <5>3 DEF RecvReturns, ReceiverRec
        <5>4. CASE RecvFails(g)
          BY <5>0, <5>4 DEF RecvFails, ReceiverRec
        <5>. QED
          BY <4>1, <5>1, <5>2, <5>3, <5>4
      <4>2. CASE RecvDispatch(g) \/ RecvSend(g)
        <5>1. receiver[g] \in ReceiverRec
          BY <1>0 DEF TypeOK
        <5>2. \E pc \in {"check", "refresh", "done"} : RecvAt(g, pc)
          BY <4>2 DEF RecvDispatch, RecvSend, After
        <5>. QED
          BY <5>1, <5>2, <1>0 DEF TypeOK, ReceiverRec
      <4>. QED
        BY <2>2, <4>1, <4>2
    <3>2. tasks' = tasks
      BY <2>2 DEF RecvWait, RecvCheck, RecvReturns, RecvFails, RecvDispatch, RecvSend
    <3>. QED
      BY <3>1, <3>2
  <2>. QED
    BY <2>1, <2>2 DEF Receive, Serve
<1>5. \A h \in Starts : h > starts => h # g
  BY <1>1 DEF TasksInv
<1>6. ASSUME ~early, ui.pc \in BeforeReset, starts = g PROVE FALSE
  <2>1. receiver[g].pc = "wait" /\ receiver[g].ptr = server /\ ~block[server].connected
    BY <1>6 DEF TasksInv, BeforeReset
  <2>2. Live(server)
    BY <1>0, <1>6 DEF ServerInv, BeforeReset, Starting
  <2>3. RecvWait(g)
    BY <2>1 DEF Receive, Serve, RecvWait, RecvCheck, RecvReturns, RecvFails, RecvDispatch, RecvRefresh,
       RecvSend
  <2>. QED
    BY <2>1, <2>2, <2>3 DEF RecvWait, Connected
<1>7. ui.pc \in BeforeReset => server \in Blocks
  BY <1>0 DEF ServerInv, BeforeReset, Starting, TypeOK
<1>8. ASSUME starts \in Starts, ~early
      PROVE  /\ ui.pc \in BeforeReset =>
                  /\ receiver'[starts].pc = "wait" /\ receiver'[starts].ptr = server
                  /\ ~block'[server].connected
                  /\ \A r \in replied' : r.by # starts
             /\ receiver'[starts].pc = "send" \/ (\E r \in replied' : r.by = starts) => tasks'
  <2>1. CASE starts = g
    <3>1. ui.pc \notin BeforeReset
      BY <1>6, <1>8, <2>1
    <3>2. receiver[g].pc = "send" \/ (\E r \in replied : r.by = g) => tasks
      BY <1>8, <2>1 DEF TasksInv
    <3>3. (\E r \in replied' : r.by = g) => tasks'
      BY <1>3, <1>4, <3>2
    <3>. QED
      BY <1>4, <2>1, <3>1, <3>3
  <2>2. CASE starts # g
    <3>1. receiver'[starts] = receiver[starts]
      BY <1>1, <1>8, <2>2
    <3>2. \A r \in replied' : r.by = starts => r \in replied
      BY <1>3, <2>2
    <3>3. /\ ui.pc \in BeforeReset =>
                /\ receiver[starts].pc = "wait" /\ receiver[starts].ptr = server
                /\ ~block[server].connected
                /\ \A r \in replied : r.by # starts
          /\ receiver[starts].pc = "send" \/ (\E r \in replied : r.by = starts) => tasks
      BY <1>8 DEF TasksInv, BeforeReset
    <3>4. ui.pc \in BeforeReset => ~block'[server].connected
      BY <1>2, <1>7, <3>3
    <3>5. ui.pc \in BeforeReset => \A r \in replied' : r.by # starts
      BY <3>2, <3>3
    <3>6. (\E r \in replied' : r.by = starts) => tasks'
      BY <1>4, <3>2, <3>3
    <3>. QED
      BY <1>4, <3>1, <3>3, <3>4, <3>5, <3>6
  <2>. QED
    BY <2>1, <2>2
<1>9. \A h \in Starts : h > starts =>
        receiver'[h].pc = "none" /\ \A r \in replied' : r.by # h
  BY <1>1, <1>3, <1>5 DEF TasksInv
<1>. QED
  BY <1>1, <1>8, <1>9 DEF TasksInv, BeforeReset

\* No step of any thread breaks it.
LEMMA TasksStep ==
    ASSUME IInv, LabelInv, TasksInv, [Next]_vars
    PROVE  TasksInv'
<1>1. CASE UNCHANGED vars
  BY <1>1, TasksKept DEF vars
<1>2. CASE Click
  <2>1. /\ UNCHANGED <<receiver, replied, tasks, starts, early>>
        /\ ui'.pc \in {"start", "close", "button"}
    BY <1>2 DEF Click, ClickConnect, ClickDisconnect
  <2>. QED
    BY <2>1, TasksKept DEF BeforeReset, Starting
<1>3. ASSUME NEW c \in Clients, ClientConnects(c) \/ ClientLeaves(c) PROVE TasksInv'
  BY <1>3, TasksKept DEF ClientConnects, ClientLeaves
<1>. QED
  BY <1>1, <1>2, <1>3, HandlerTasks, AcceptTasks, ReceiveTasks DEF Next

\* No list was sent at the start.
LEMMA InitTasks == Init => TasksInv
<1>. SUFFICES ASSUME Init PROVE TasksInv
  OBVIOUS
<1>1. starts = 0 /\ starts \notin Starts /\ replied = {}
  <2>1. starts = 0 /\ replied = {}
    BY DEF Init
  <2>2. \A g \in Starts : g # 0
    BY StartNumbers
  <2>. QED
    BY <2>1, <2>2
<1>2. \A g \in Starts : receiver[g].pc = "none"
  BY DEF Init
<1>. QED
  BY <1>1, <1>2 DEF TasksInv

\* The list that a client was sent is in the map for as long as it is connected,
\* unless it was accepted while startUp was still under way.
THEOREM ListIsKept == Spec => []ListSurvives
<1>1. Spec => [](IInv /\ LabelInv)
  <2>1. IInv /\ LabelInv /\ [Next]_vars => LabelInv'
    BY LabelStep
  <2>. QED
    BY InitLabel, <2>1, Invariance, PTL DEF Spec
<1>2. IInv /\ LabelInv /\ TasksInv /\ [Next]_vars => TasksInv'
  BY TasksStep
<1>3. IInv /\ SessionInv /\ TasksInv => ListSurvives
  <2>. SUFFICES ASSUME IInv, SessionInv, TasksInv, UiIdle, netState = "CONNECTED", ~early,
                       Replied(block[server].clientSocket, starts)
                PROVE  tasks
    BY DEF ListSurvives
  <2>1. starts \in Starts
    BY DEF IInv, ServingInv, SessionInv, UiIdle
  <2>2. \E r \in replied : r.by = starts
    BY DEF Replied
  <2>. QED
    BY <2>1, <2>2 DEF TasksInv
<1>4. SessionInv /\ IInv /\ [Next]_vars => SessionInv'
  BY SessionStepNext
<1>5. Spec => []SessionInv
  BY SessionBegins, Invariance, <1>4, PTL DEF Spec
<1>. QED
  BY InitTasks, <1>1, <1>2, <1>3, <1>5, PTL DEF Spec

=============================================================================
