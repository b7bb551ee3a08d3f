------------------------ MODULE RequestStreamProofs ------------------------
(***************************************************************************)
(* Theorems about the requests, for any windows, any number of taps, any   *)
(* size of an int and of the receive buffer, and any bytes at which recv() *)
(* ends: as long as it ends within no int nothing is done to a window that *)
(* its client has not named, as long as it ends within no request nothing  *)
(* is done that it has not asked for, and a client that waits is served.   *)
(***************************************************************************)
EXTENDS RequestStream, WellFoundedInduction, TLAPS

ReqType == [type : Types, hwnd : Windows \cup {Zero}]

\* The ints of the requests: 0 is one, no code is 0 and no window is either.
LEMMA WordFacts ==
    /\ Zero \in Ints /\ Word \subseteq Ints /\ Windows \subseteq Word /\ Zero \in Word
    /\ Zero \notin Windows
    /\ \A t \in Types : /\ Code[t] \in Word /\ Code[t] \notin Windows /\ Code[t] # Zero
    /\ \A s, t \in Types : Code[s] = Code[t] => s = t
<1>1. Zero \in Ints
  BY RequestAssumption DEF Zero, Ints
<1>2. /\ Code \in [Types -> Ints] /\ Zero \notin Codes
      /\ Windows \subseteq Ints /\ Windows \cap (Codes \cup {Zero}) = {}
      /\ \A s, t \in Types : Code[s] = Code[t] => s = t
  BY RequestAssumption
<1>. HIDE DEF Zero, Ints, Types
<1>3. \A t \in Types : Code[t] \in Codes /\ Code[t] \in Ints
  BY <1>2 DEF Codes
<1>4. Codes \subseteq Ints
  BY <1>2 DEF Codes
<1>. QED
  BY <1>1, <1>2, <1>3, <1>4 DEF Word

\* A request is made of a type and, when it names one, of its window.
LEMMA WordsTyped ==
    ASSUME NEW t \in Types, NEW w \in Windows \cup {Zero}
    PROVE  /\ Request(t, w) \in ReqType
           /\ Words(Request(t, w)) \in Seq(Word)
           /\ \A i \in 1 .. Len(Words(Request(t, w))) :
                Words(Request(t, w))[i] \in Windows => Words(Request(t, w))[i] = w
<1>. DEFINE c == Code[t]
<1>1. Request(t, w) \in ReqType /\ c \in Word /\ c \notin Windows /\ w \in Word
  BY WordFacts DEF Request, ReqType
<1>1a. Words(Request(t, w)) = IF t = "ACTIVE_TASK_LIST" THEN <<c>> ELSE <<c, w>>
  BY DEF Request, Words
<1>. HIDE DEF c
<1>2. CASE t = "ACTIVE_TASK_LIST"
  <2>1. Words(Request(t, w)) = <<c>>
    BY <1>1a, <1>2
  <2>2. <<c>> \in Seq(Word) /\ Len(<<c>>) = 1 /\ <<c>>[1] = c
    BY <1>1
  <2>. QED
    BY <1>1, <2>1, <2>2
<1>3. CASE t # "ACTIVE_TASK_LIST"
  <2>1. Words(Request(t, w)) = <<c, w>>
    BY <1>1a, <1>3
  <2>2. <<c, w>> \in Seq(Word) /\ Len(<<c, w>>) = 2 /\ <<c, w>>[1] = c /\ <<c, w>>[2] = w
    BY <1>1
  <2>. QED
    BY <1>1, <2>1, <2>2
<1>. QED
  BY <1>2, <1>3

\* What the client does, whichever request it writes.
LEMMA WriteEffect ==
    ASSUME Client
    PROVE  \/ UNCHANGED <<sent, stream, taken, buffer, rx, executed, torn, split>> /\ hasty' = hasty
           \/ \E t \in Types, w \in Windows \cup {Zero} : Write(Request(t, w))
BY DEF Client, RequestActiveTaskList, SignalWindowOpen, SignalWindowClose, Tap,
       CloseConnection, Types

\* The client is connected, running or gone.
LEMMA ClientPlace == TypeOK /\ [Next]_vars => client' \in {"connected", "running", "left"}
BY DEF TypeOK, Next, vars, Client, RequestActiveTaskList, SignalWindowOpen,
       SignalWindowClose, Tap, CloseConnection, Receive, RecvReturns, RecvZero, RecvFails,
       Dispatch, Answered, TaskListSent, WindowOpened, WindowAnswered, Served, RxServes

\* The types hold at the start.
LEMMA InitTyped == Init => TypeOK
<1>. SUFFICES ASSUME Init PROVE TypeOK
  OBVIOUS
<1>1. buffer \in [1 .. 2 -> Ints] /\ taken \in 0 .. IntSize - 1 /\ ~(taken > 0)
  BY WordFacts, RequestAssumption DEF Init, Calloc
<1>2. rx \in [pc : RxPc, length : 0 .. BufferSize]
  BY RequestAssumption DEF Init, Calloc, RxPc
<1>3. sent = <<>> /\ stream = <<>> /\ executed = <<>>
  BY DEF Init, Calloc
<1>4. /\ sent \in Seq([type : Types, hwnd : Windows \cup {Zero}])
      /\ stream \in Seq(Word)
      /\ executed \in Seq([type : Types, hwnd : Ints, again : BOOLEAN])
  BY <1>3
<1>5. client = "connected" /\ torn = FALSE /\ split = FALSE /\ hasty = FALSE
  BY DEF Init, Calloc
<1>. QED
  BY <1>1, <1>2, <1>4, <1>5 DEF TypeOK

\* recv() returns bytes of the stream only.
LEMMA BytesReturned ==
    ASSUME TypeOK, NEW k \in 0 .. Len(stream), NEW b \in 0 .. IntSize - 1, RecvReturns(k, b)
    PROVE  buffer' \in [1 .. 2 -> Ints]
<1>. DEFINE n == IntSize * k + b - taken
            l == Len(stream)
            x == IntSize * k
<1>1. /\ n \in 1 .. BufferSize /\ k <= l /\ (b > 0 => k < l)
      /\ buffer' = [i \in 1 .. 2 |-> [j \in 1 .. IntSize |->
                       IF (IF i = 1 THEN j <= n ELSE IntSize + j <= n)
                       THEN Arriving(i, j) ELSE buffer[i][j]]]
  BY DEF RecvReturns
<1>2. /\ IntSize \in Nat \ {0} /\ k \in Nat /\ l \in Nat /\ b \in 0 .. IntSize - 1
      /\ taken \in 0 .. IntSize - 1
  BY RequestAssumption DEF TypeOK
<1>3. /\ x \in Nat /\ (k = 0 => x = 0) /\ (k = 1 => x = IntSize)
      /\ (k = 2 => x = IntSize + IntSize)
  BY <1>2
<1>. HIDE DEF x, l
<1>4. /\ n = x + b - taken
      /\ n >= 1 => 1 <= l
      /\ x + b > IntSize => 2 <= l
      /\ x + b > IntSize + IntSize => 3 <= l
  <2>1. k = 0 \/ k = 1 \/ k = 2 \/ k >= 3
    BY <1>2
  <2>. QED
    BY <1>1, <1>2, <1>3, <2>1 DEF x
<1>. HIDE DEF n
<1>5. \A i \in 1 .. l : stream[i] \in [1 .. IntSize -> Byte]
  BY WordFacts DEF TypeOK, Ints, l
<1>6. \A i \in 1 .. 2 : buffer[i] \in [1 .. IntSize -> Byte]
  BY DEF TypeOK, Ints
<1>7. ASSUME NEW i \in 1 .. 2, NEW j \in 1 .. IntSize
      PROVE  (IF (IF i = 1 THEN j <= n ELSE IntSize + j <= n)
              THEN Arriving(i, j) ELSE buffer[i][j]) \in Byte
  <2>1. buffer[i][j] \in Byte
    BY <1>6
  <2>2. CASE i = 1 /\ j <= n
    <3>1. CASE taken + j <= IntSize
      <4>1. 1 \in 1 .. l /\ taken + j \in 1 .. IntSize
        BY <1>2, <1>4, <2>2, <3>1
      <4>2. stream[1][taken + j] \in Byte
        BY <1>5, <4>1
      <4>. QED
        BY <2>2, <3>1, <4>2 DEF Arriving
    <3>2. CASE ~(taken + j <= IntSize)
      <4>1. 2 \in 1 .. l /\ taken + j - IntSize \in 1 .. IntSize
        BY <1>2, <1>3, <1>4, <2>2, <3>2
      <4>2. stream[2][taken + j - IntSize] \in Byte
        BY <1>5, <4>1
      <4>. QED
        BY <2>2, <3>2, <4>2 DEF Arriving
    <3>. QED
      BY <3>1, <3>2
  <2>3. CASE i = 2 /\ IntSize + j <= n
    <3>1. CASE taken + j <= IntSize
      <4>1. 2 \in 1 .. l /\ taken + j \in 1 .. IntSize
        BY <1>2, <1>3, <1>4, <2>3, <3>1
      <4>2. stream[2][taken + j] \in Byte
        BY <1>5, <4>1
      <4>. QED
        BY <2>3, <3>1, <4>2 DEF Arriving
    <3>2. CASE ~(taken + j <= IntSize)
      <4>1. 3 \in 1 .. l /\ taken + j - IntSize \in 1 .. IntSize
        BY <1>2, <1>3, <1>4, <2>3, <3>2
      <4>2. stream[3][taken + j - IntSize] \in Byte
        BY <1>5, <4>1
      <4>. QED
        BY <2>3, <3>2, <4>2 DEF Arriving
    <3>. QED
      BY <3>1, <3>2
  <2>4. i = 1 \/ i = 2
    OBVIOUS
  <2>. QED
    BY <2>1, <2>2, <2>3, <2>4
<1>. QED
  BY <1>1, <1>7 DEF Ints

\* recv() has returned the first n ints of the stream, each in full.
ReturnsInts(n) ==
    /\ rx.pc = "recv" /\ n \in 1 .. Len(stream)
    /\ stream' = SubSeq(stream, n + 1, Len(stream))
    /\ buffer'[1] = stream[1]
    /\ buffer'[2] = IF n = 1 THEN buffer[2] ELSE stream[2]
    /\ rx'.pc = "onRecv" /\ rx'.length \in Nat \ {0}
    /\ UNCHANGED <<client, sent, executed, hasty>>

\* As long as recv() has ended within no int, the buffer gets ints as they were sent.
LEMMA IntsReturned ==
    ASSUME TypeOK, AlignedInv,
           NEW k \in 0 .. Len(stream), NEW b \in 0 .. IntSize - 1, RecvReturns(k, b), ~torn'
    PROVE  ReturnsInts(k)
<1>. DEFINE n == IntSize * k + b - taken
            x == IntSize * k
<1>1. /\ n \in 1 .. BufferSize /\ k <= Len(stream)
      /\ stream' = SubSeq(stream, k + 1, Len(stream))
      /\ buffer' = [i \in 1 .. 2 |-> [j \in 1 .. IntSize |->
                       IF (IF i = 1 THEN j <= n ELSE IntSize + j <= n)
                       THEN Arriving(i, j) ELSE buffer[i][j]]]
      /\ ~torn /\ ~(b > 0)
      /\ rx.pc = "recv" /\ rx' = [pc |-> "onRecv", length |-> n]
      /\ UNCHANGED <<client, sent, executed, hasty>>
  BY DEF RecvReturns, RxAt
<1>2. /\ IntSize \in Nat \ {0} /\ k \in Nat /\ Len(stream) \in Nat
      /\ taken = 0 /\ b = 0
  BY <1>1, RequestAssumption DEF TypeOK, AlignedInv
<1>3. x \in Nat /\ n = x /\ (k = 0 => x = 0) /\ (k = 1 => x = IntSize)
      /\ (k = 2 => x = IntSize + IntSize)
  BY <1>2
<1>4. k >= 2 => x >= IntSize + IntSize
  <2>. SUFFICES ASSUME k >= 2 PROVE x >= IntSize + IntSize
    OBVIOUS
  <2>1. PICK d \in Nat : k = d + 2
    <3>1. k - 2 \in Nat /\ k = (k - 2) + 2
      BY <1>2
    <3>. QED
      BY <3>1
  <2>2. IntSize * d \in Nat /\ x = IntSize * d + IntSize + IntSize
    BY <1>2, <2>1
  <2>. QED
    BY <1>2, <2>2
<1>. HIDE DEF x, n
<1>5. k \in 1 .. Len(stream) /\ n \in Nat \ {0} /\ n >= IntSize
  <2>1. k # 0
    BY <1>1, <1>3
  <2>2. k = 1 \/ k >= 2
    BY <1>2, <2>1
  <2>. QED
    BY <1>1, <1>2, <1>3, <1>4, <2>2
<1>6. \A i \in 1 .. Len(stream) : stream[i] \in [1 .. IntSize -> Byte]
  BY WordFacts DEF TypeOK, Ints
<1>7. \A i, j : j \in 1 .. IntSize => Arriving(i, j) = stream[i][j]
  BY <1>2 DEF Arriving
<1>8. buffer'[1] = stream[1]
  <2>1. stream[1] \in [1 .. IntSize -> Byte]
    BY <1>5, <1>6
  <2>2. \A j \in 1 .. IntSize : j <= n
    BY <1>2, <1>5
  <2>3. buffer'[1] = [j \in 1 .. IntSize |-> stream[1][j]]
    BY <1>1, <1>7, <2>2
  <2>. QED
    BY <2>1, <2>3
<1>9. buffer'[2] = IF k = 1 THEN buffer[2] ELSE stream[2]
  <2>1. buffer'[2] = [j \in 1 .. IntSize |-> IF IntSize + j <= n THEN Arriving(2, j)
                                                                 ELSE buffer[2][j]]
    BY <1>1
  <2>2. CASE k = 1
    <3>1. \A j \in 1 .. IntSize : ~(IntSize + j <= n)
      BY <1>2, <1>3, <2>2
    <3>2. buffer[2] \in [1 .. IntSize -> Byte]
      BY DEF TypeOK, Ints
    <3>. QED
      BY <2>1, <2>2, <3>1, <3>2
  <2>3. CASE k # 1
    <3>1. k >= 2
      BY <1>5, <2>3
    <3>2. \A j \in 1 .. IntSize : IntSize + j <= n
      BY <1>2, <1>3, <1>4, <3>1
    <3>3. stream[2] \in [1 .. IntSize -> Byte]
      BY <1>5, <1>6, <3>1
    <3>4. buffer'[2] = [j \in 1 .. IntSize |-> stream[2][j]]
      BY <1>7, <2>1, <3>2
    <3>. QED
      BY <2>3, <3>3, <3>4
  <2>. QED
    BY <2>2, <2>3
<1>. QED
  BY <1>1, <1>5, <1>8, <1>9 DEF ReturnsInts

\* The receive thread keeps the types, whatever recv() returns.
LEMMA ReceiveTyped == TypeOK /\ (Receive \/ Answered) => TypeOK'
<1>. SUFFICES ASSUME TypeOK, Receive \/ Answered PROVE TypeOK'
  OBVIOUS
<1>. USE RequestAssumption DEF RxAt, RxServes, RxPc
<1>1. ASSUME NEW k \in 0 .. Len(stream), NEW b \in 0 .. IntSize - 1, RecvReturns(k, b)
      PROVE  TypeOK'
  <2>1. /\ stream' \in Seq(Word) /\ taken' \in 0 .. IntSize - 1
        /\ taken' > 0 => stream' # <<>>
    <3>1. /\ k <= Len(stream) /\ (b > 0 => k < Len(stream)) /\ taken' = b
          /\ stream' = SubSeq(stream, k + 1, Len(stream)) /\ stream \in Seq(Word)
      BY <1>1 DEF RecvReturns, TypeOK
    <3>2. stream' \in Seq(Word) /\ Len(stream') = Len(stream) - k
      BY <3>1
    <3>3. b > 0 => Len(stream') # 0
      BY <3>1, <3>2
    <3>4. Len(<<>>) = 0
      OBVIOUS
    <3>. QED
      BY <3>1, <3>2, <3>3, <3>4
  <2>2. torn' \in BOOLEAN /\ split' \in BOOLEAN
    BY <1>1, Zenon DEF RecvReturns, TypeOK
  <2>3. rx' \in [pc : RxPc, length : 0 .. BufferSize]
    <3>1. \E n \in 1 .. BufferSize : rx' = [pc |-> "onRecv", length |-> n]
      BY <1>1 DEF RecvReturns
    <3>. QED
      BY <3>1
  <2>4. UNCHANGED <<client, sent, executed, hasty>>
    BY <1>1 DEF RecvReturns
  <2>. QED
    BY <1>1, <2>1, <2>2, <2>3, <2>4, BytesReturned DEF TypeOK
<1>2. CASE RecvZero
  BY <1>2 DEF RecvZero, TypeOK
<1>3. CASE RecvFails
  BY <1>3 DEF RecvFails, GiveUp, TypeOK
<1>4. CASE Dispatch
  <2>1. executed' \in Seq([type : Types, hwnd : Ints, again : BOOLEAN])
    <3>1. CASE UNCHANGED executed
      BY <3>1 DEF TypeOK
    <3>2. ASSUME NEW t \in Types, NEW u \in Ints, Execute(t, u)
          PROVE  executed' \in Seq([type : Types, hwnd : Ints, again : BOOLEAN])
      <4>1. Deed(t, u)
              \in [type : Types, hwnd : Ints, again : BOOLEAN]
        BY DEF Deed
      <4>. QED
        BY <3>2, <4>1 DEF Execute, TypeOK
    <3>3. Zero \in Ints /\ buffer[2] \in Ints
      BY WordFacts DEF TypeOK
    <3>. QED
      BY <1>4, <3>1, <3>2, <3>3 DEF Dispatch, Cases
  <2>2. rx' \in [pc : RxPc, length : 0 .. BufferSize]
    <3>1. rx.length \in 0 .. BufferSize /\ 0 \in 0 .. BufferSize
      BY DEF TypeOK
    <3>2. (\E t \in Types : rx' = [pc |-> t, length |-> rx.length])
          \/ rx' = [pc |-> After(rx.length), length |-> 0]
      BY <1>4 DEF Dispatch, Cases
    <3>. QED
      BY <3>1, <3>2 DEF After
  <2>. QED
    BY <1>4, <2>1, <2>2 DEF Dispatch, Cases, TypeOK
<1>5. CASE TaskListSent \/ WindowOpened \/ WindowAnswered
  BY <1>5 DEF TaskListSent, WindowOpened, WindowAnswered, Served, After, TypeOK
<1>. QED
  BY <1>1, <1>2, <1>3, <1>4, <1>5 DEF Receive, Answered

\* Every step keeps them.
LEMMA StepTyped == TypeOK /\ [Next]_vars => TypeOK'
<1>. SUFFICES ASSUME TypeOK, [Next]_vars PROVE TypeOK'
  OBVIOUS
<1>1. CASE UNCHANGED vars
  BY <1>1 DEF vars, TypeOK
<1>2. CASE Client
  <2>1. CASE UNCHANGED <<sent, stream, taken, buffer, rx, executed, torn, split>> /\ hasty' = hasty
    BY <2>1, ClientPlace DEF TypeOK
  <2>2. ASSUME NEW t \in Types, NEW w \in Windows \cup {Zero}, Write(Request(t, w))
        PROVE  TypeOK'
    <3>1. sent' \in Seq(ReqType) /\ stream' \in Seq(Word)
      BY <2>2, WordsTyped DEF Write, TypeOK, ReqType
    <3>2. hasty' \in BOOLEAN
      BY <2>2 DEF Write, TypeOK
    <3>3. taken' > 0 => stream' # <<>>
      <4>1. /\ stream' = stream \o Words(Request(t, w)) /\ taken' = taken
            /\ stream \in Seq(Word) /\ (taken > 0 => stream # <<>>)
        BY <2>2 DEF Write, TypeOK
      <4>2. Words(Request(t, w)) \in Seq(Word)
        BY WordsTyped
      <4>. DEFINE x == Words(Request(t, w))
      <4>. HIDE DEF x
      <4>3. x \in Seq(Word) /\ stream' = stream \o x
        BY <4>1, <4>2 DEF x
      <4>. QED
        BY <4>1, <4>3
    <3>. QED
      BY <2>2, <3>1, <3>2, <3>3, ClientPlace DEF Write, TypeOK, ReqType
  <2>. QED
    BY <1>2, <2>1, <2>2, WriteEffect
<1>3. CASE Receive \/ Answered
  BY <1>3, ReceiveTyped
<1>. QED
  BY <1>1, <1>2, <1>3 DEF Next

-----------------------------------------------------------------------------
\* Every window in a request on its way, and every window a request has left in
\* the buffer, has been named.
NamedInv ==
    /\ \A i \in 1 .. Len(stream) : stream[i] \in Windows => Named(stream[i])
    /\ ~torn => \A i \in {1, 2} : buffer[i] \in Windows => Named(buffer[i])
    /\ ActsOnNamedWindows

\* Where recv() goes on in the stream, after any step.
LEMMA AlignedStep == AlignedInv /\ [Next]_vars => AlignedInv'
<1>. SUFFICES ASSUME AlignedInv, [Next]_vars PROVE AlignedInv'
  OBVIOUS
<1>1. CASE UNCHANGED <<taken, torn, split>>
  BY <1>1 DEF AlignedInv
<1>2. ASSUME NEW k, NEW b, RecvReturns(k, b) PROVE AlignedInv'
  <2>1. taken' = b /\ torn' = (torn \/ b > 0)
        /\ (split' = (split \/ b > 0 \/ (stream' # <<>> /\ stream'[1] \in Windows)))
    BY <1>2, Zenon DEF RecvReturns
  <2>. QED
    BY <2>1, Zenon DEF AlignedInv
<1>. QED
  BY <1>1, <1>2, WriteEffect
     DEF Next, vars, Write, Receive, RecvZero, RecvFails, Dispatch, Answered, TaskListSent,
         WindowOpened, WindowAnswered, Served, RxServes

\* What has been named stays named.
LEMMA NamedKept ==
    ASSUME TypeOK, [Next]_vars, NEW w, Named(w)
    PROVE  Named(w)'
<1>1. PICK i \in 1 .. Len(sent) : sent[i].hwnd = w
  BY DEF Named
<1>2. i \in 1 .. Len(sent') /\ sent'[i] = sent[i]
  <2>1. CASE UNCHANGED sent
    BY <2>1
  <2>2. ASSUME NEW r, Write(r) PROVE i \in 1 .. Len(sent') /\ sent'[i] = sent[i]
    BY <2>2 DEF Write, TypeOK
  <2>. QED
    BY <2>1, <2>2, WriteEffect
       DEF Next, vars, Receive, RecvReturns, RecvZero, RecvFails, Dispatch, Answered, TaskListSent,
           WindowOpened, WindowAnswered, Served, RxServes
<1>. QED
  BY <1>1, <1>2 DEF Named

\* recv() copies from the stream and leaves the rest of the buffer: no window
\* comes from elsewhere.
LEMMA NamedStep == TypeOK /\ AlignedInv /\ NamedInv /\ [Next]_vars => NamedInv'
<1>. SUFFICES ASSUME TypeOK, AlignedInv, NamedInv, [Next]_vars PROVE NamedInv'
  OBVIOUS
<1>. USE DEF RxAt, RxServes
<1>1. CASE UNCHANGED <<stream, buffer, executed, torn>>
  BY <1>1, NamedKept DEF NamedInv, ActsOnNamedWindows
<1>2. ASSUME NEW t \in Types, NEW w \in Windows \cup {Zero}, Write(Request(t, w))
      PROVE  NamedInv'
  <2>. DEFINE ws == Words(Request(t, w))
  <2>1. ws \in Seq(Word) /\ \A i \in 1 .. Len(ws) : ws[i] \in Windows => ws[i] = w
    BY WordsTyped
  <2>2. Named(w)'
    <3>1. sent' = Append(sent, Request(t, w)) /\ sent \in Seq(ReqType)
      BY <1>2 DEF Write, TypeOK, ReqType
    <3>2. Len(sent') \in 1 .. Len(sent') /\ sent'[Len(sent')] = Request(t, w)
      BY <3>1
    <3>. QED
      BY <3>2 DEF Named, Request
  <2>3. stream' = stream \o ws /\ stream \in Seq(Word)
    BY <1>2 DEF Write, TypeOK
  <2>4. \A i \in 1 .. Len(stream') : stream'[i] \in Windows => Named(stream[i])'
    <3>. SUFFICES ASSUME NEW i \in 1 .. Len(stream'), stream'[i] \in Windows
                  PROVE  Named(stream[i])'
      OBVIOUS
    <3>. HIDE DEF ws
    <3>1. CASE i \in 1 .. Len(stream)
      <4>1. stream'[i] = stream[i]
        BY <2>1, <2>3, <3>1
      <4>. QED
        BY <3>1, <4>1, NamedKept DEF NamedInv
    <3>2. CASE i \notin 1 .. Len(stream)
      <4>1. i - Len(stream) \in 1 .. Len(ws) /\ stream'[i] = ws[i - Len(stream)]
        BY <2>1, <2>3, <3>2
      <4>. QED
        BY <2>1, <2>2, <4>1
    <3>. QED
      BY <3>1, <3>2
  <2>. QED
    BY <1>2, <2>4, NamedKept DEF Write, NamedInv, ActsOnNamedWindows
<1>3. ASSUME NEW k \in 0 .. Len(stream), NEW b \in 0 .. IntSize - 1, RecvReturns(k, b)
      PROVE  NamedInv'
  <2>1. /\ k <= Len(stream) /\ stream \in Seq(Word) /\ UNCHANGED <<sent, executed>>
        /\ stream' = SubSeq(stream, k + 1, Len(stream)) /\ k \in Nat
    BY <1>3 DEF RecvReturns, TypeOK
  <2>2. \A i \in 1 .. Len(stream') : i + k \in 1 .. Len(stream) /\ stream'[i] = stream[i + k]
    BY <2>1
  <2>3. \A v : Named(v)' = Named(v)
    BY <2>1 DEF Named
  <2>4. \A i \in 1 .. Len(stream') : stream'[i] \in Windows => Named(stream[i])'
    BY <2>2, <2>3 DEF NamedInv
  <2>5. CASE torn'
    BY <2>4, <2>5 DEF NamedInv, ActsOnNamedWindows
  <2>6. CASE ~torn'
    <3>1. ReturnsInts(k) /\ ~torn
      BY <1>3, <2>6, IntsReturned DEF RecvReturns
    <3>2. /\ k \in 1 .. Len(stream) /\ buffer'[1] = stream[1]
          /\ buffer'[2] = IF k = 1 THEN buffer[2] ELSE stream[2]
      BY <3>1 DEF ReturnsInts
    <3>3. 1 \in 1 .. Len(stream) /\ (k # 1 => 2 \in 1 .. Len(stream))
      BY <2>1, <3>2
    <3>4. \A i \in {1, 2} : buffer'[i] \in Windows => Named(buffer[i])'
      BY <2>3, <3>1, <3>2, <3>3 DEF NamedInv
    <3>5. ActsOnNamedWindows'
      BY <2>1, <2>3, <3>1 DEF NamedInv, ActsOnNamedWindows
    <3>. QED
      BY <2>4, <3>4, <3>5 DEF NamedInv
  <2>. QED
    BY <2>5, <2>6
<1>4. CASE Dispatch
  <2>1. UNCHANGED <<sent, stream, buffer, torn>>
    BY <1>4 DEF Dispatch, Cases
  <2>2. \A v : Named(v)' = Named(v)
    BY <2>1 DEF Named
  <2>3. CASE UNCHANGED executed
    BY <2>1, <2>3, <1>1
  <2>4. ASSUME NEW t \in Types, NEW u, u = Zero \/ u = buffer[2], Execute(t, u)
        PROVE  NamedInv'
    <3>1. ~torn => (u \in Windows => Named(u))
      BY <2>4, WordFacts DEF NamedInv
    <3>2. ActsOnNamedWindows'
      BY <2>1, <2>2, <2>4, <3>1 DEF NamedInv, ActsOnNamedWindows, Execute, Deed, TypeOK
    <3>. QED
      BY <2>1, <2>2, <3>2 DEF NamedInv
  <2>. QED
    BY <1>4, <2>3, <2>4 DEF Dispatch, Cases
<1>. QED
  BY <1>1, <1>2, <1>3, <1>4, WriteEffect
     DEF Next, vars, Receive, RecvZero, RecvFails, Answered, TaskListSent, WindowOpened,
         WindowAnswered, Served

-----------------------------------------------------------------------------
(* What is served.                                                         *)

\* The order of the natural numbers, which is well-founded.
Less == {p \in Nat \X Nat : p[1] < p[2]}

\* So a set of numbers has a smallest.
LEMMA Smallest ==
    ASSUME NEW S, S \subseteq Nat, S # {}
    PROVE  \E x \in S : \A y \in S : x <= y
<1>1. IsWellFoundedOn(Less, Nat)
  BY NatLessThanWellFounded, Zenon DEF Less, OpToRel
<1>2. PICK x \in S : \A y \in S : <<y, x>> \notin Less
  BY <1>1, WFMin, Zenon
<1>3. ASSUME NEW y \in S, ~(x <= y) PROVE FALSE
  <2>1. <<y, x>> \in Nat \X Nat /\ y < x
    BY <1>3
  <2>. QED
    BY <1>2, <2>1 DEF Less
<1>. QED
  BY <1>3

Paired(r) == r \in ReqType /\ (r.hwnd = Zero <=> r.type = "ACTIVE_TASK_LIST")

\* The ints of a request.
LEMMA WordsOf ==
    ASSUME NEW r, Paired(r)
    PROVE  /\ Words(r) \in Seq(Word) /\ Len(Words(r)) \in {1, 2}
           /\ Words(r)[1] = Code[r.type] /\ r.type \in Types
           /\ Code[r.type] \notin Windows /\ Code[r.type] # Zero
           /\ Len(Words(r)) = 2 <=> r.hwnd # Zero
           /\ r.hwnd # Zero => Words(r)[2] = r.hwnd /\ r.hwnd \in Windows
<1>. DEFINE c == Code[r.type]
<1>1. /\ r.type \in Types /\ c \in Word /\ c \notin Windows /\ c # Zero
      /\ r.hwnd \in Windows \cup {Zero} /\ r.hwnd \in Word
  BY WordFacts DEF Paired, ReqType
<1>1a. Words(r) = IF r.type = "ACTIVE_TASK_LIST" THEN <<c>> ELSE <<c, r.hwnd>>
  BY DEF Words
<1>1b. r.hwnd = Zero <=> r.type = "ACTIVE_TASK_LIST"
  BY DEF Paired
<1>. HIDE DEF c
<1>2. CASE r.type = "ACTIVE_TASK_LIST"
  <2>1. Words(r) = <<c>>
    BY <1>1a, <1>2
  <2>2. <<c>> \in Seq(Word) /\ Len(<<c>>) = 1 /\ <<c>>[1] = c
    BY <1>1
  <2>. QED
    BY <1>1, <1>1b, <1>2, <2>1, <2>2 DEF c
<1>3. CASE r.type # "ACTIVE_TASK_LIST"
  <2>1. Words(r) = <<c, r.hwnd>>
    BY <1>1a, <1>3
  <2>2. /\ <<c, r.hwnd>> \in Seq(Word) /\ Len(<<c, r.hwnd>>) = 2
        /\ <<c, r.hwnd>>[1] = c /\ <<c, r.hwnd>>[2] = r.hwnd
    BY <1>1
  <2>. QED
    BY <1>1, <1>1b, <1>3, <2>1, <2>2 DEF c
<1>. QED
  BY <1>2, <1>3

\* The client asks for the list, or for something about a window.
LEMMA Asks ==
    ASSUME Client
    PROVE  \/ UNCHANGED <<sent, stream, taken, buffer, rx, executed, torn, split, hasty>>
           \/ \E r : Paired(r) /\ Write(r)
<1>1. ASSUME NEW t \in {"WINDOW_OPEN", "WINDOW_CLOSE"}, NEW w \in Windows
      PROVE  Paired(Request(t, w))
  BY WordFacts DEF Paired, Request, ReqType, Types
<1>2. Paired(Request("ACTIVE_TASK_LIST", Zero))
  BY DEF Paired, Request, ReqType, Types
<1>. QED
  BY <1>1, <1>2 DEF Client, RequestActiveTaskList, SignalWindowOpen, SignalWindowClose, Tap,
                    CloseConnection

\* Only a request for the list names no window.
LEMMA SentPaired ==
    ASSUME TypeOK, SentInv, NEW k \in 1 .. Len(sent)
    PROVE  Paired(sent[k])
<1>1. sent \in Seq(ReqType)
  BY DEF TypeOK, ReqType
<1>2. sent[k] \in ReqType
  BY <1>1
<1>3. sent[k].hwnd = Zero <=> sent[k].type = "ACTIVE_TASK_LIST"
  BY DEF SentInv
<1>. QED
  BY <1>2, <1>3 DEF Paired

\* What Write does to the requests sent.
LEMMA Sends ==
    ASSUME TypeOK, SentInv, NEW r, Paired(r), Write(r)
    PROVE  /\ Len(sent) \in Nat /\ Len(sent') = Len(sent) + 1 /\ sent'[Len(sent')] = r
           /\ \A k \in 1 .. Len(sent) : sent'[k] = sent[k]
           /\ SentInv'
           /\ UNCHANGED <<taken, buffer, rx, executed, torn, split>>
<1>1. sent \in Seq(ReqType) /\ sent' = Append(sent, r) /\ r \in ReqType
  BY DEF Write, TypeOK, ReqType, Paired
<1>2. /\ Len(sent) \in Nat /\ Len(sent') = Len(sent) + 1 /\ sent'[Len(sent')] = r
      /\ \A k \in 1 .. Len(sent) : sent'[k] = sent[k]
  BY <1>1
<1>3. SentInv'
  <2>1. ASSUME NEW k \in 1 .. Len(sent')
        PROVE  sent'[k].hwnd = Zero <=> sent'[k].type = "ACTIVE_TASK_LIST"
    <3>1. k \in 1 .. Len(sent) \/ k = Len(sent')
      BY <1>2
    <3>. QED
      BY <1>2, <3>1 DEF SentInv, Paired
  <2>. QED
    BY <2>1 DEF SentInv
<1>. QED
  BY <1>2, <1>3 DEF Write

\* A request written is a whole one at the end of the stream.
LEMMA CutMore ==
    ASSUME TypeOK, SentInv, NEW k \in 0 .. Len(sent), NEW p, Cut(k, p),
           NEW r, Paired(r), Write(r)
    PROVE  \E q : Cut(k, q)'
<1>. DEFINE n == Len(sent)
            l == Len(stream)
            w == Words(r)
<1>1. PICK q : q = [i \in k + 1 .. n + 2 |-> IF i = n + 2 THEN l + Len(w) + 1 ELSE p[i]]
  OBVIOUS
<1>2. /\ n \in Nat /\ k \in 0 .. n /\ Len(sent') = n + 1 /\ sent'[n + 1] = r
      /\ \A i \in 1 .. n : sent'[i] = sent[i]
  BY Sends
<1>3. w \in Seq(Word) /\ stream \in Seq(Word) /\ stream' = stream \o w /\ Len(w) \in {1, 2}
  BY WordsOf DEF TypeOK, Write
<1>. HIDE DEF w
<1>4. /\ l \in Nat /\ Len(stream') = l + Len(w)
      /\ \A i \in 1 .. l : stream'[i] = stream[i]
      /\ \A i \in 1 .. Len(w) : stream'[l + i] = w[i]
  BY <1>3
<1>5. /\ p \in [k + 1 .. n + 1 -> 1 .. l + 1]
      /\ p[k + 1] = 1 /\ p[n + 1] = l + 1
      /\ \A i \in k + 1 .. n :
          /\ p[i + 1] = p[i] + Len(Words(sent[i]))
          /\ \A j \in 1 .. Len(Words(sent[i])) : stream[p[i] + j - 1] = Words(sent[i])[j]
  BY DEF Cut
<1>. HIDE DEF n, l
<1>6. q \in [k + 1 .. n + 2 -> 1 .. l + Len(w) + 1]
  BY <1>1, <1>2, <1>3, <1>4, <1>5
<1>7. q[k + 1] = 1 /\ q[n + 2] = l + Len(w) + 1 /\ q[n + 1] = l + 1
  BY <1>1, <1>2, <1>5 DEF n
<1>8. ASSUME NEW i \in k + 1 .. n + 1
      PROVE  /\ q[i + 1] = q[i] + Len(Words(sent'[i]))
             /\ \A j \in 1 .. Len(Words(sent'[i])) : stream'[q[i] + j - 1] = Words(sent'[i])[j]
  <2>1. CASE i = n + 1
    <3>1. Words(sent'[i]) = w /\ q[i] = l + 1 /\ q[i + 1] = l + Len(w) + 1
      BY <1>2, <1>7, <2>1 DEF w
    <3>2. \A j \in 1 .. Len(w) : l + 1 + j - 1 = l + j
      BY <1>3, <1>4
    <3>3. \A j \in 1 .. Len(w) : stream'[l + 1 + j - 1] = w[j]
      BY <1>4, <3>2
    <3>4. q[i + 1] = q[i] + Len(Words(sent'[i]))
      <4>1. l \in Nat /\ Len(w) \in Nat
        BY <1>3, <1>4
      <4>2. l + Len(w) + 1 = l + 1 + Len(w)
        BY <4>1
      <4>. QED
        BY <3>1, <4>2
    <3>5. \A j \in 1 .. Len(Words(sent'[i])) : stream'[q[i] + j - 1] = Words(sent'[i])[j]
      BY <3>1, <3>3
    <3>. QED
      BY <3>4, <3>5
  <2>2. CASE i # n + 1
    <3>1. i \in k + 1 .. n /\ i \in 1 .. n /\ sent'[i] = sent[i] /\ i + 1 # n + 2
      BY <1>2, <2>2 DEF n
    <3>2. q[i] = p[i] /\ q[i + 1] = p[i + 1] /\ p[i] \in Nat \ {0} /\ p[i + 1] \in 1 .. l + 1
      <4>1. /\ i \in k + 1 .. n + 2 /\ i # n + 2 /\ i + 1 \in k + 1 .. n + 2
            /\ i \in k + 1 .. n + 1 /\ i + 1 \in k + 1 .. n + 1
        BY <1>2, <3>1
      <4>2. p[i] \in 1 .. l + 1 /\ p[i + 1] \in 1 .. l + 1
        BY <1>5, <4>1
      <4>. QED
        BY <1>1, <3>1, <4>1, <4>2
    <3>3. Len(Words(sent[i])) \in {1, 2}
      BY <3>1, SentPaired, WordsOf DEF n
    <3>. DEFINE m == Len(Words(sent[i]))
    <3>4. p[i + 1] = p[i] + m /\ \A j \in 1 .. m : stream[p[i] + j - 1] = Words(sent[i])[j]
      BY <1>5, <3>1
    <3>5. \A j \in 1 .. m : p[i] + j - 1 \in 1 .. l
      <4>1. m \in Nat
        BY <3>3
      <4>. HIDE DEF m
      <4>2. l \in Nat /\ p[i] \in Nat \ {0} /\ p[i] + m \in 1 .. l + 1
        BY <1>4, <3>2, <3>4
      <4>. QED
        BY <4>1, <4>2
    <3>. QED
      BY <1>4, <3>1, <3>2, <3>4, <3>5
  <2>. QED
    BY <2>1, <2>2
<1>9. n + 1 + 1 = n + 2
  BY <1>2
<1>10. Cut(k, q)'
  BY <1>2, <1>4, <1>6, <1>7, <1>8, <1>9 DEF Cut
<1>. QED
  BY <1>10

\* The starts of the requests, in order.
LEMMA CutOrder ==
    ASSUME TypeOK, SentInv, NEW k \in 0 .. Len(sent), NEW p, Cut(k, p)
    PROVE  /\ \A i \in k + 1 .. Len(sent) + 1 : p[i] \in 1 .. Len(stream) + 1
           /\ \A i \in k + 1 .. Len(sent) :
                 /\ p[i + 1] = p[i] + Len(Words(sent[i])) /\ Len(Words(sent[i])) \in {1, 2}
                 /\ stream[p[i]] = Code[sent[i].type]
                 /\ Len(Words(sent[i])) = 2 <=> sent[i].hwnd # Zero
                 /\ sent[i].hwnd # Zero =>
                       /\ stream[p[i] + 1] = sent[i].hwnd /\ sent[i].hwnd \in Windows
           /\ \A i \in k + 2 .. Len(sent) + 1 : p[i] >= 2
<1>. DEFINE n == Len(sent)
<1>0. n \in Nat /\ Len(stream) \in Nat
  BY DEF TypeOK
<1>1. \A i \in k + 1 .. n + 1 : p[i] \in 1 .. Len(stream) + 1
  BY DEF Cut
<1>2. ASSUME NEW i \in k + 1 .. n
      PROVE  /\ p[i + 1] = p[i] + Len(Words(sent[i])) /\ Len(Words(sent[i])) \in {1, 2}
             /\ stream[p[i]] = Code[sent[i].type]
             /\ Len(Words(sent[i])) = 2 <=> sent[i].hwnd # Zero
             /\ sent[i].hwnd # Zero =>
                   /\ stream[p[i] + 1] = sent[i].hwnd /\ sent[i].hwnd \in Windows
  <2>. DEFINE w == Words(sent[i])
  <2>1. i \in 1 .. n /\ i \in k + 1 .. n + 1
    BY <1>0
  <2>2. /\ Len(w) \in {1, 2} /\ w[1] = Code[sent[i].type]
        /\ Len(w) = 2 <=> sent[i].hwnd # Zero
        /\ sent[i].hwnd # Zero => w[2] = sent[i].hwnd /\ sent[i].hwnd \in Windows
    BY <2>1, SentPaired, WordsOf
  <2>3. /\ p[i + 1] = p[i] + Len(w)
        /\ \A j \in 1 .. Len(w) : stream[p[i] + j - 1] = w[j]
    BY DEF Cut
  <2>. HIDE DEF w
  <2>4. p[i] \in Nat
    BY <1>0, <1>1, <2>1
  <2>5. 1 \in 1 .. Len(w) /\ p[i] + 1 - 1 = p[i] /\ p[i] + 2 - 1 = p[i] + 1
        /\ (Len(w) = 2 => 2 \in 1 .. Len(w))
    BY <2>2, <2>4
  <2>. QED
    BY <2>2, <2>3, <2>5 DEF w
<1>3. ASSUME NEW i \in k + 2 .. n + 1
      PROVE  p[i] >= 2
  <2>1. PICK j \in k + 1 .. n : i = j + 1 /\ j \in k + 1 .. n + 1
    <3>1. i - 1 \in k + 1 .. n /\ i - 1 \in k + 1 .. n + 1 /\ i - 1 + 1 = i
      BY <1>0
    <3>. QED
      BY <3>1
  <2>. DEFINE m == Len(Words(sent[j]))
  <2>2. p[j + 1] = p[j] + m /\ m \in {1, 2}
    BY <1>2
  <2>3. p[j] \in Nat \ {0}
    BY <1>0, <1>1, <2>1
  <2>. HIDE DEF n, m
  <2>. QED
    BY <2>1, <2>2, <2>3
<1>. QED
  BY <1>1, <1>2, <1>3

\* What recv() returns, when it does not end within a request, are whole ones; the
\* first of them is at the start of the buffer.
LEMMA CutLess ==
    ASSUME TypeOK, SentInv, NEW k \in 0 .. Len(sent), NEW p, Cut(k, p),
           NEW n, ReturnsInts(n), stream' # <<>> => stream'[1] \notin Windows
    PROVE  /\ k + 1 \in 1 .. Len(sent) /\ Buffered(k + 1)'
           /\ \E h \in k + 1 .. Len(sent) : \E q : Cut(h, q)'
<1>. DEFINE N == Len(sent)
            l == Len(stream)
<1>1. /\ n \in 1 .. l /\ stream \in Seq(Word) /\ stream' = SubSeq(stream, n + 1, l)
      /\ buffer'[1] = stream[1] /\ buffer'[2] = IF n = 1 THEN buffer[2] ELSE stream[2]
      /\ sent' = sent
      /\ stream' # <<>> => stream'[1] \notin Windows
  BY DEF ReturnsInts, TypeOK
<1>2. /\ Len(stream') = l - n /\ l \in Nat /\ N \in Nat /\ k \in 0 .. N
      /\ \A i \in 1 .. l - n : stream'[i] = stream[i + n]
      /\ n < l => stream[n + 1] \notin Windows
  <2>1. Len(stream') = l - n /\ \A i \in 1 .. l - n : stream'[i] = stream[i + n]
    <3>1. n \in 1 .. l /\ stream \in Seq(Word) /\ stream' = SubSeq(stream, n + 1, l)
      BY <1>1
    <3>. QED
      BY <3>1
  <2>2. n < l => stream' # <<>> /\ stream'[1] = stream[n + 1]
    <3>1. n < l => 1 \in 1 .. l - n /\ 1 + n = n + 1 /\ Len(stream') # 0
      BY <1>1, <2>1
    <3>2. Len(<<>>) = 0
      OBVIOUS
    <3>. QED
      BY <2>1, <3>1, <3>2
  <2>. QED
    BY <1>1, <2>1, <2>2 DEF TypeOK
<1>3. /\ p \in [k + 1 .. N + 1 -> 1 .. l + 1]
      /\ p[k + 1] = 1 /\ p[N + 1] = l + 1
      /\ \A i \in k + 1 .. N : \A j \in 1 .. Len(Words(sent[i])) :
            stream[p[i] + j - 1] = Words(sent[i])[j]
  BY DEF Cut
<1>4. /\ \A i \in k + 1 .. N + 1 : p[i] \in 1 .. l + 1
      /\ \A i \in k + 1 .. N :
            /\ p[i + 1] = p[i] + Len(Words(sent[i])) /\ Len(Words(sent[i])) \in {1, 2}
            /\ stream[p[i]] = Code[sent[i].type]
            /\ Len(Words(sent[i])) = 2 <=> sent[i].hwnd # Zero
            /\ sent[i].hwnd # Zero => stream[p[i] + 1] = sent[i].hwnd /\ sent[i].hwnd \in Windows
      /\ \A i \in k + 2 .. N + 1 : p[i] >= 2
  BY CutOrder
<1>. HIDE DEF N, l
<1>5. PICK h \in k + 1 .. N + 1 : p[h] >= n + 1 /\ \A i \in k + 1 .. N + 1 : p[i] >= n + 1 => h <= i
  <2>. DEFINE S == {i \in k + 1 .. N + 1 : p[i] >= n + 1}
  <2>1. N + 1 \in S /\ S \subseteq Nat
    BY <1>1, <1>2, <1>3
  <2>. HIDE DEF S
  <2>2. PICK h \in S : \A i \in S : h <= i
    BY <2>1, Smallest
  <2>. QED
    BY <2>2 DEF S
<1>6. PICK g \in k + 1 .. N : h = g + 1 /\ g \in k + 1 .. N + 1 /\ g \in Nat
  <2>1. h # k + 1
    BY <1>1, <1>3, <1>5
  <2>2. h - 1 \in k + 1 .. N /\ h - 1 \in k + 1 .. N + 1 /\ h = h - 1 + 1
    BY <1>2, <1>5, <2>1
  <2>. QED
    BY <1>2, <2>2
<1>. DEFINE m == Len(Words(sent[g]))
<1>7. /\ p[g] \in 1 .. n /\ p[g + 1] = p[g] + m /\ m \in {1, 2}
      /\ m = 2 <=> sent[g].hwnd # Zero
      /\ sent[g].hwnd # Zero => stream[p[g] + 1] = sent[g].hwnd /\ sent[g].hwnd \in Windows
  <2>1. ~(p[g] >= n + 1)
    BY <1>5, <1>6
  <2>2. p[g] \in 1 .. l + 1
    BY <1>4, <1>6
  <2>3. p[g] \in 1 .. n
    BY <1>1, <1>2, <2>1, <2>2
  <2>. QED
    BY <1>4, <1>6, <2>3
<1>. HIDE DEF m
<1>8. p[g + 1] = n + 1
  <2>1. p[g + 1] >= n + 1 /\ p[g + 1] \in 1 .. l + 1
    BY <1>4, <1>5, <1>6
  <2>. SUFFICES ASSUME p[g + 1] # n + 1 PROVE FALSE
    OBVIOUS
  <2>2. m = 2 /\ p[g] = n /\ n < l
    <3>1. p[g] \in 1 .. n /\ p[g] + m >= n + 1 /\ p[g] + m # n + 1 /\ p[g] + m \in 1 .. l + 1
          /\ m \in {1, 2} /\ n \in Nat /\ l \in Nat
      BY <1>1, <1>2, <1>7, <2>1
    <3>. QED
      BY <3>1
  <2>3. stream[n + 1] \in Windows
    BY <1>7, <2>2
  <2>. QED
    BY <1>2, <2>2, <2>3
<1>9. k + 1 \in k + 1 .. N /\ k + 1 \in 1 .. N
  BY <1>2, <1>6
<1>10. Buffered(k + 1)'
  <2>1. stream[1] = Code[sent[k + 1].type]
    BY <1>3, <1>4, <1>9
  <2>2. ASSUME sent[k + 1].hwnd # Zero PROVE n # 1 /\ stream[2] = sent[k + 1].hwnd
    <3>1. stream[1 + 1] = sent[k + 1].hwnd /\ p[k + 1 + 1] = 1 + Len(Words(sent[k + 1]))
          /\ Len(Words(sent[k + 1])) = 2
      BY <1>3, <1>4, <1>9, <2>2
    <3>2. p[k + 1 + 1] = 3 /\ k + 1 + 1 = k + 2
      BY <1>2, <3>1
    <3>3. n # 1
      <4>. SUFFICES ASSUME n = 1 PROVE FALSE
        OBVIOUS
      <4>1. p[g] = 1
        BY <1>7
      <4>2. g = k + 1
        <5>1. g # k + 1 => g \in k + 2 .. N + 1
          BY <1>2, <1>6
        <5>2. ~(1 >= 2)
          OBVIOUS
        <5>. QED
          BY <1>4, <4>1, <5>1, <5>2
      <4>. QED
        BY <1>8, <3>2, <4>2
    <3>. QED
      BY <3>1, <3>3
  <2>. QED
    BY <1>1, <2>1, <2>2 DEF Buffered
<1>11. \E q : Cut(g, q)'
  <2>1. PICK q : q = [i \in g + 1 .. N + 1 |-> p[i] - n]
    OBVIOUS
  <2>2. \A i \in g + 1 .. N + 1 : i \in k + 1 .. N + 1 /\ i >= h
    BY <1>2, <1>6
  <2>3. \A i \in g + 1 .. N + 1 : p[i] \in n + 1 .. l + 1
    <3>. DEFINE S == {i \in g + 1 .. N + 1 : ~(p[i] >= n + 1)}
    <3>0. \A i \in g + 1 .. N + 1 : p[i] \in 1 .. l + 1 /\ n \in Nat /\ l \in Nat
      BY <1>1, <1>2, <1>4, <2>2
    <3>. SUFFICES ASSUME S # {} PROVE FALSE
      BY <3>0
    <3>1. S \subseteq Nat
      BY <1>2, <1>6
    <3>. HIDE DEF S
    <3>2. PICK i \in S : \A j \in S : i <= j
      BY <3>1, Smallest
    <3>3. i \in g + 1 .. N + 1 /\ ~(p[i] >= n + 1) /\ i # g + 1
      BY <1>8, <1>1, <3>2 DEF S
    <3>4. PICK j \in g + 1 .. N : i = j + 1
      <4>1. i - 1 \in g + 1 .. N /\ i = i - 1 + 1
        BY <1>2, <1>6, <3>3
      <4>. QED
        BY <4>1
    <3>5. j \in g + 1 .. N + 1 /\ j \in k + 1 .. N /\ ~(i <= j)
      BY <1>2, <1>6, <3>4
    <3>6. p[j] >= n + 1
      BY <3>2, <3>5 DEF S
    <3>. DEFINE c == Len(Words(sent[j]))
    <3>7. p[i] = p[j] + c /\ c \in {1, 2}
      BY <1>4, <3>4, <3>5
    <3>. HIDE DEF c
    <3>8. p[j] \in 1 .. l + 1 /\ p[i] \in 1 .. l + 1
      BY <1>4, <2>2, <3>3, <3>5
    <3>9. p[j] \in Nat /\ n \in Nat
      BY <1>1, <1>2, <3>8
    <3>. QED
      BY <3>3, <3>6, <3>7, <3>9
  <2>4. q \in [g + 1 .. N + 1 -> 1 .. (l - n) + 1]
    <3>1. \A i \in g + 1 .. N + 1 : p[i] - n \in 1 .. (l - n) + 1
      BY <1>1, <1>2, <2>3
    <3>. QED
      BY <2>1, <3>1
  <2>5. q[g + 1] = 1 /\ q[N + 1] = (l - n) + 1
    <3>1. g + 1 \in g + 1 .. N + 1 /\ N + 1 \in g + 1 .. N + 1
      BY <1>2, <1>6
    <3>. QED
      BY <1>1, <1>2, <1>3, <1>8, <2>1, <3>1
  <2>6. ASSUME NEW i \in g + 1 .. N
        PROVE  /\ q[i + 1] = q[i] + Len(Words(sent[i]))
               /\ \A j \in 1 .. Len(Words(sent[i])) : stream'[q[i] + j - 1] = Words(sent[i])[j]
    <3>. DEFINE w == Words(sent[i])
                c == Len(w)
    <3>1. i \in g + 1 .. N + 1 /\ i + 1 \in g + 1 .. N + 1 /\ i \in k + 1 .. N
      BY <1>2, <1>6
    <3>2. /\ q[i] = p[i] - n /\ q[i + 1] = p[i + 1] - n
          /\ p[i] \in n + 1 .. l + 1 /\ p[i + 1] \in n + 1 .. l + 1
      BY <2>1, <2>3, <3>1
    <3>3. /\ p[i + 1] = p[i] + c /\ c \in Nat
          /\ \A j \in 1 .. c : stream[p[i] + j - 1] = w[j]
      <4>1. p[i + 1] = p[i] + c /\ c \in {1, 2}
        BY <1>4, <3>1
      <4>2. \A j \in 1 .. c : stream[p[i] + j - 1] = w[j]
        BY <1>3, <3>1
      <4>. QED
        BY <4>1, <4>2
    <3>. HIDE DEF w, c
    <3>4. /\ p[i] \in n + 1 .. l + 1 /\ p[i] + c \in n + 1 .. l + 1 /\ n \in Nat /\ l \in Nat
          /\ q[i] = p[i] - n /\ q[i + 1] = p[i] + c - n /\ c \in Nat
      BY <1>1, <1>2, <3>2, <3>3
    <3>5. q[i + 1] = q[i] + c
      BY <3>4
    <3>6. \A j \in 1 .. c : /\ q[i] + j - 1 \in 1 .. l - n
                            /\ q[i] + j - 1 + n = p[i] + j - 1
      <4>. DEFINE a == p[i]
                  b == q[i]
      <4>1. a \in n + 1 .. l + 1 /\ a + c \in n + 1 .. l + 1 /\ b = a - n
        BY <3>4
      <4>. HIDE DEF a, b
      <4>2. \A j \in 1 .. c : b + j - 1 \in 1 .. l - n /\ b + j - 1 + n = a + j - 1
        BY <3>4, <4>1
      <4>. QED
        BY <4>2 DEF a, b
    <3>7. \A j \in 1 .. c : stream'[q[i] + j - 1] = w[j]
      BY <1>2, <3>3, <3>6
    <3>. QED
      BY <3>5, <3>7 DEF w, c
  <2>7. sent' = sent /\ Len(stream') = l - n
    BY <1>1, <1>2
  <2>8. Cut(g, q)'
    BY <2>4, <2>5, <2>6, <2>7 DEF Cut, N
  <2>. QED
    BY <2>8
<1>. QED
  BY <1>1, <1>9, <1>10, <1>11 DEF N

\* What has been done, when nothing more is.
LEMMA NothingDone ==
    ASSUME executed' = executed
    PROVE  /\ \A x : Done(x)' = Done(x)
           /\ \A i : AskedBy(i)' = AskedBy(i)
BY DEF Done, AskedBy

\* What has been done, when a deed is added.
LEMMA OneMoreDone ==
    ASSUME TypeOK, NEW t \in Types, NEW u \in Ints, Execute(t, u),
           NEW n, n = Len(executed) + 1
    PROVE  /\ n \in Nat /\ n \notin 1 .. n - 1
           /\ Done(TRUE) \subseteq 1 .. n - 1 /\ Done(FALSE) \subseteq 1 .. n - 1
           /\ rx.length = 0 => /\ Done(TRUE)' = Done(TRUE) \cup {n}
                               /\ Done(FALSE)' = Done(FALSE)
           /\ rx.length # 0 => /\ Done(FALSE)' = Done(FALSE) \cup {n}
                               /\ Done(TRUE)' = Done(TRUE)
           /\ \A i \in 1 .. n - 1 : AskedBy(i)' = AskedBy(i)
           /\ AskedBy(n)' = Request(t, u)
<1>. DEFINE d == Deed(t, u)
<1>1. executed' = Append(executed, d) /\ d.type = t /\ d.hwnd = u /\ d.again = (rx.length = 0)
  BY DEF Execute, Deed
<1>2. executed \in Seq([type : Types, hwnd : Ints, again : BOOLEAN])
  BY DEF TypeOK
<1>. HIDE DEF d
<1>3. /\ n \in Nat /\ n - 1 = Len(executed) /\ Len(executed') = n /\ executed'[n] = d
      /\ \A i \in 1 .. n - 1 : executed'[i] = executed[i]
  BY <1>1, <1>2
<1>4. 1 .. n = (1 .. n - 1) \cup {n} /\ n \notin 1 .. n - 1
  BY <1>3
<1>5. \A i \in 1 .. n - 1 : AskedBy(i)' = AskedBy(i)
  BY <1>3 DEF AskedBy
<1>6. AskedBy(n)' = Request(t, u)
  BY <1>1, <1>3 DEF AskedBy
<1>7. \A x : Done(x) \subseteq 1 .. n - 1
  BY <1>3 DEF Done
<1>8. \A x : Done(x)' = Done(x) \cup {i \in {n} : d.again = x}
  BY <1>3, <1>4 DEF Done
<1>9. CASE rx.length = 0
  <2>1. d.again = TRUE /\ d.again # FALSE
    BY <1>1, <1>9
  <2>2. Done(TRUE)' = Done(TRUE) \cup {n} /\ Done(FALSE)' = Done(FALSE)
    BY <1>8, <2>1
  <2>. QED
    BY <1>3, <1>4, <1>5, <1>6, <1>7, <1>9, <2>2
<1>10. CASE rx.length # 0
  <2>1. d.again = FALSE /\ d.again # TRUE
    BY <1>1, <1>10
  <2>2. Done(FALSE)' = Done(FALSE) \cup {n} /\ Done(TRUE)' = Done(TRUE)
    BY <1>8, <2>1
  <2>. QED
    BY <1>3, <1>4, <1>5, <1>6, <1>7, <1>10, <2>2
<1>. QED
  BY <1>9, <1>10

\* The first k requests were received, and the m-th is in the buffer.
Fits(k, p, m, f) ==
    /\ Cut(k, p)
    /\ IF m = 0 THEN buffer[1] = Zero ELSE Buffered(m)
    /\ Follows(f, k)
    /\ Held => m > 0 /\ \A i \in Done(FALSE) : f[i] < m

\* What the parts of the invariant say of the state before a step.
LEMMA WholeParts ==
    ASSUME WholeInv, ~split
    PROVE  /\ AgainInv
           /\ \E k \in 0 .. Len(sent) : \E p : \E m \in 0 .. k, f \in [Done(FALSE) -> 1 .. k] :
                 Fits(k, p, m, f)
BY DEF WholeInv, ReceivedInv, Fits

\* And what they need after it.
LEMMA WholeAgain ==
    ASSUME AgainInv', NEW k, NEW p, NEW m, NEW f,
           k \in 0 .. Len(sent'), m \in 0 .. k, Cut(k, p)', Follows(f, k)',
           IF m = 0 THEN buffer'[1] = Zero ELSE Buffered(m)',
           Held' => m > 0 /\ \A i \in Done(FALSE)' : f[i] < m
    PROVE  WholeInv'
<1>1. f \in [Done(FALSE)' -> 1 .. k]
  BY DEF Follows
<1>2. ReceivedInv(k)'
  BY <1>1 DEF ReceivedInv
<1>3. p \in [k + 1 .. Len(sent') + 1 -> 1 .. Len(stream') + 1]
  BY DEF Cut
<1>. QED
  BY <1>2, <1>3 DEF WholeInv

\* Steps that move the receive thread only.
LEMMA WholeQuiet ==
    ASSUME WholeInv, UNCHANGED <<sent, stream, taken, buffer, executed, torn, split>>, Held' => Held,
           rx.pc # "done" => \/ rx.pc \in Types /\ rx.length = 0 /\ rx'.pc = "done"
                             \/ rx.pc \in Types /\ rx.length # 0
                             \/ rx.pc \in {"recv", "onRecv"}
                             \/ rx' = rx,
           rx.pc = "done" => rx' = rx
    PROVE  WholeInv'
<1>. SUFFICES ASSUME ~split' PROVE WholeInv'
  BY DEF WholeInv
<1>1. ~split
  OBVIOUS
<1>2. AgainInv
  BY <1>1, WholeParts
<1>3. PICK k \in 0 .. Len(sent) : \E p : \E m \in 0 .. k, f \in [Done(FALSE) -> 1 .. k] :
          Fits(k, p, m, f)
  BY <1>1, WholeParts
<1>3a. PICK p : \E m \in 0 .. k, f \in [Done(FALSE) -> 1 .. k] : Fits(k, p, m, f)
  BY <1>3
<1>4. PICK m \in 0 .. k, f \in [Done(FALSE) -> 1 .. k] :
                 /\ Cut(k, p)
                 /\ IF m = 0 THEN buffer[1] = Zero ELSE Buffered(m)
                 /\ Follows(f, k)
                 /\ Held => m > 0 /\ \A i \in Done(FALSE) : f[i] < m
  BY <1>3a DEF Fits
<1>5. Cut(k, p)' /\ k \in 0 .. Len(sent')
  BY <1>4 DEF Cut
<1>6. IF m = 0 THEN buffer'[1] = Zero ELSE Buffered(m)'
  BY <1>4 DEF Buffered
<1>7. Follows(f, k)'
  BY <1>4, NothingDone DEF Follows
<1>8. Held' => m > 0 /\ \A i \in Done(FALSE)' : f[i] < m
  BY <1>4, NothingDone
<1>9. AgainInv'
  BY <1>2, NothingDone DEF AgainInv, Types
<1>. QED
  BY <1>5, <1>6, <1>7, <1>8, <1>9, WholeAgain

\* A request is written.
LEMMA WholeWrite ==
    ASSUME TypeOK, SentInv, WholeInv, NEW r, Paired(r), Write(r)
    PROVE  WholeInv'
<1>. SUFFICES ASSUME ~split' PROVE WholeInv'
  BY DEF WholeInv
<1>1. /\ Len(sent) \in Nat /\ Len(sent') = Len(sent) + 1
      /\ \A k \in 1 .. Len(sent) : sent'[k] = sent[k]
      /\ UNCHANGED <<taken, buffer, rx, executed, torn, split>>
  BY Sends
<1>2. ~split /\ AgainInv
  BY <1>1, WholeParts
<1>3. PICK k \in 0 .. Len(sent) : \E p : \E m \in 0 .. k, f \in [Done(FALSE) -> 1 .. k] :
          Fits(k, p, m, f)
  BY <1>2, WholeParts
<1>3a. PICK p : \E m \in 0 .. k, f \in [Done(FALSE) -> 1 .. k] : Fits(k, p, m, f)
  BY <1>3
<1>4. PICK m \in 0 .. k, f \in [Done(FALSE) -> 1 .. k] :
                 /\ Cut(k, p)
                 /\ IF m = 0 THEN buffer[1] = Zero ELSE Buffered(m)
                 /\ Follows(f, k)
                 /\ Held => m > 0 /\ \A i \in Done(FALSE) : f[i] < m
  BY <1>3a DEF Fits
<1>5. PICK q : Cut(k, q)'
  BY <1>4, CutMore
<1>6. k \in 0 .. Len(sent') /\ \A i \in 1 .. k : i \in 1 .. Len(sent)
  BY <1>1
<1>7. IF m = 0 THEN buffer'[1] = Zero ELSE Buffered(m)'
  <2>1. m # 0 => m \in 1 .. Len(sent)
    BY <1>1
  <2>. QED
    BY <1>1, <1>4, <2>1 DEF Buffered
<1>8. Follows(f, k)'
  <2>1. \A i \in Done(FALSE) : f[i] \in 1 .. Len(sent)
    BY <1>6
  <2>. QED
    BY <1>1, <1>4, <2>1, NothingDone DEF Follows
<1>9. Held' => m > 0 /\ \A i \in Done(FALSE)' : f[i] < m
  BY <1>1, <1>4, NothingDone DEF Held
<1>10. AgainInv'
  <2>1. ASSUME NEW i \in Done(TRUE)'
        PROVE  \E h \in 1 .. Len(sent') : AskedBy(i)' = sent'[h]
    <3>1. PICK h \in 1 .. Len(sent) : AskedBy(i) = sent[h]
      BY <1>1, <1>2, NothingDone DEF AgainInv
    <3>2. h \in 1 .. Len(sent') /\ sent'[h] = sent[h]
      BY <1>1
    <3>. QED
      BY <1>1, <3>1, <3>2, NothingDone
  <2>. QED
    BY <1>1, <1>2, <2>1, NothingDone DEF AgainInv
<1>. QED
  BY <1>5, <1>6, <1>7, <1>8, <1>9, <1>10, WholeAgain

\* A recv() that has cut no request.
LEMMA RecvUncut ==
    ASSUME TypeOK, AlignedInv, NEW n \in 0 .. Len(stream), NEW b \in 0 .. IntSize - 1,
           RecvReturns(n, b), ~split'
    PROVE  ReturnsInts(n) /\ ~split /\ (stream' # <<>> => stream'[1] \notin Windows)
<1>1. /\ split' = (split \/ b > 0 \/ (stream' # <<>> /\ stream'[1] \in Windows))
      /\ torn' = (torn \/ b > 0)
  BY Zenon DEF RecvReturns
<1>2. ~split /\ ~(b > 0) /\ (stream' # <<>> => stream'[1] \notin Windows)
  BY <1>1, Zenon
<1>3. ~torn'
  BY <1>1, <1>2, Zenon DEF AlignedInv
<1>. QED
  BY <1>2, <1>3, IntsReturned

\* recv() returns whole requests.
LEMMA WholeRecv ==
    ASSUME TypeOK, SentInv, AlignedInv, WholeInv,
           NEW n \in 0 .. Len(stream), NEW b \in 0 .. IntSize - 1, RecvReturns(n, b)
    PROVE  WholeInv'
<1>. SUFFICES ASSUME ~split' PROVE WholeInv'
  BY DEF WholeInv
<1>0. ReturnsInts(n) /\ (stream' # <<>> => stream'[1] \notin Windows)
  BY RecvUncut
<1>1. /\ UNCHANGED <<sent, executed>> /\ rx.pc = "recv" /\ ~split /\ Len(sent) \in Nat
  BY RecvUncut DEF ReturnsInts, TypeOK
<1>2. AgainInv
  BY <1>1, WholeParts
<1>3. PICK k \in 0 .. Len(sent) : \E p : \E m \in 0 .. k, f \in [Done(FALSE) -> 1 .. k] :
          Fits(k, p, m, f)
  BY <1>1, WholeParts
<1>3a. PICK p : \E m \in 0 .. k, f \in [Done(FALSE) -> 1 .. k] : Fits(k, p, m, f)
  BY <1>3
<1>4. PICK m \in 0 .. k, f \in [Done(FALSE) -> 1 .. k] : Cut(k, p) /\ Follows(f, k)
  BY <1>3a DEF Fits
<1>5. /\ k + 1 \in 1 .. Len(sent) /\ Buffered(k + 1)'
      /\ \E h \in k + 1 .. Len(sent) : \E q : Cut(h, q)'
  BY <1>0, <1>4, CutLess
<1>6. PICK h \in k + 1 .. Len(sent) : \E q : Cut(h, q)'
  BY <1>5
<1>6a. PICK q : Cut(h, q)'
  BY <1>6
<1>7. /\ h \in 0 .. Len(sent') /\ k + 1 \in 0 .. h /\ k + 1 # 0 /\ k + 1 > 0
      /\ \A i \in 1 .. k : i \in 1 .. h /\ i < k + 1
  BY <1>1
<1>8. Follows(f, h)'
  BY <1>1, <1>4, <1>7, NothingDone DEF Follows
<1>9. \A i \in Done(FALSE)' : f[i] < k + 1
  BY <1>1, <1>4, <1>7, NothingDone
<1>10. AgainInv'
  BY <1>1, <1>2, NothingDone DEF AgainInv, Types
<1>. QED
  BY <1>5, <1>6a, <1>7, <1>8, <1>9, <1>10, WholeAgain

\* What Server_Recv does for the request at the start of the buffer.
LEMMA DispatchDoes ==
    ASSUME TypeOK, SentInv, Dispatch, NEW t \in Types, buffer[1] = Code[t]
    PROVE  /\ RxAt(t, rx.length)
           /\ \E u \in Ints :
                /\ Execute(t, u)
                /\ \A m \in 1 .. Len(sent) : Buffered(m) => Request(t, u) = sent[m]
<1>. DEFINE u == IF t = "ACTIVE_TASK_LIST" THEN Zero ELSE buffer[2]
<1>1. Execute(t, u) /\ RxAt(t, rx.length)
  <2>1. \A s \in Types : buffer[1] = Code[s] => s = t
    BY WordFacts
  <2>. QED
    BY <2>1 DEF Dispatch, Cases
<1>2. u \in Ints
  BY WordFacts DEF TypeOK
<1>3. ASSUME NEW m \in 1 .. Len(sent), Buffered(m)
      PROVE  Request(t, u) = sent[m]
  <2>1. Paired(sent[m])
    BY SentPaired
  <2>2. sent[m].type = t /\ sent[m].hwnd = u
    <3>1. sent[m].type \in Types /\ Code[sent[m].type] = Code[t]
      BY <1>3, <2>1 DEF Paired, ReqType, Buffered
    <3>2. sent[m].type = t
      BY <3>1, WordFacts
    <3>. QED
      BY <1>3, <2>1, <3>2 DEF Paired, Buffered
  <2>. HIDE DEF u
  <2>. QED
    BY <2>1, <2>2 DEF Paired, ReqType, Request
<1>. QED
  BY <1>1, <1>2, <1>3

\* Server_Recv does what is in the buffer.
LEMMA WholeDispatch ==
    ASSUME TypeOK, SentInv, WholeInv, Dispatch
    PROVE  WholeInv'
<1>0. UNCHANGED <<sent, stream, taken, buffer, torn, split>> /\ rx.pc = "onRecv" /\ Len(sent) \in Nat
  BY DEF Dispatch, RxServes, TypeOK
<1>1. CASE \A t \in Types : buffer[1] # Code[t]
  <2>1. UNCHANGED executed /\ rx' = [pc |-> After(rx.length), length |-> 0]
    BY <1>1 DEF Dispatch, Cases, RxAt
  <2>2. ~Held'
    BY <2>1 DEF Held
  <2>. QED
    BY <1>0, <2>1, <2>2, WholeQuiet
<1>2. ASSUME NEW t \in Types, buffer[1] = Code[t] PROVE WholeInv'
  <2>. SUFFICES ASSUME ~split' PROVE WholeInv'
    BY DEF WholeInv
  <2>1. AgainInv
    BY <1>0, WholeParts
  <2>2. PICK k \in 0 .. Len(sent) : \E p : \E m \in 0 .. k, f \in [Done(FALSE) -> 1 .. k] :
            Fits(k, p, m, f)
    BY <1>0, WholeParts
  <2>2a. PICK p : \E m \in 0 .. k, f \in [Done(FALSE) -> 1 .. k] : Fits(k, p, m, f)
    BY <2>2
  <2>3. PICK m \in 0 .. k, f \in [Done(FALSE) -> 1 .. k] :
                 /\ Cut(k, p)
                 /\ IF m = 0 THEN buffer[1] = Zero ELSE Buffered(m)
                 /\ Follows(f, k)
                 /\ Held => m > 0 /\ \A i \in Done(FALSE) : f[i] < m
    BY <2>2a DEF Fits
  <2>4. m # 0 /\ m \in 1 .. k /\ m \in 1 .. Len(sent) /\ Buffered(m)
    BY <1>0, <1>2, <2>3, WordFacts
  <2>5. PICK u \in Ints : Execute(t, u) /\ Request(t, u) = sent[m]
    BY <1>2, <2>4, DispatchDoes
  <2>6. PICK n : n = Len(executed) + 1
    OBVIOUS
  <2>7. /\ n \in Nat /\ n \notin 1 .. n - 1
        /\ Done(TRUE) \subseteq 1 .. n - 1 /\ Done(FALSE) \subseteq 1 .. n - 1
        /\ rx.length = 0 => /\ Done(TRUE)' = Done(TRUE) \cup {n}
                            /\ Done(FALSE)' = Done(FALSE)
        /\ rx.length # 0 => /\ Done(FALSE)' = Done(FALSE) \cup {n}
                            /\ Done(TRUE)' = Done(TRUE)
        /\ \A i \in 1 .. n - 1 : AskedBy(i)' = AskedBy(i)
        /\ AskedBy(n)' = sent[m]
    BY <2>5, <2>6, OneMoreDone
  <2>8. rx' = [pc |-> t, length |-> rx.length] /\ ~Held'
    BY <1>2, DispatchDoes DEF RxAt, Held, Types
  <2>9. Cut(k, p)' /\ k \in 0 .. Len(sent')
    BY <1>0, <2>3 DEF Cut
  <2>10. IF m = 0 THEN buffer'[1] = Zero ELSE Buffered(m)'
    BY <1>0, <2>4 DEF Buffered
  <2>11. Done(TRUE) = {}
    BY <1>0, <2>1 DEF AgainInv, Types
  <2>12. CASE rx.length = 0
    <3>1. Done(TRUE)' = {n} /\ Done(FALSE)' = Done(FALSE)
      BY <2>7, <2>11, <2>12, Zenon
    <3>2. Follows(f, k)'
      BY <1>0, <2>3, <2>7, <3>1 DEF Follows
    <3>3. AgainInv'
      <4>1. \A i \in Done(TRUE)' : \E h \in 1 .. Len(sent') : AskedBy(i)' = sent'[h]
        BY <1>0, <2>4, <2>7, <3>1
      <4>2. rx'.pc \in Types /\ rx'.length = 0
        BY <1>2, <2>8, <2>12
      <4>. QED
        BY <3>1, <4>1, <4>2 DEF AgainInv
    <3>. QED
      BY <2>8, <2>9, <2>10, <3>2, <3>3, WholeAgain
  <2>13. CASE rx.length # 0
    <3>1. Done(TRUE)' = {} /\ Done(FALSE)' = Done(FALSE) \cup {n}
      BY <2>7, <2>11, <2>13, Zenon
    <3>2. \A i \in Done(FALSE) : f[i] < m
      <4>1. Held
        BY <1>0, <2>13 DEF Held, TypeOK
      <4>. QED
        BY <2>3, <4>1
    <3>3. PICK g : g = [i \in Done(FALSE) \cup {n} |-> IF i = n THEN m ELSE f[i]]
      OBVIOUS
    <3>4. /\ Done(FALSE) \subseteq 1 .. n - 1 /\ n \notin Done(FALSE)
          /\ \A i \in Done(FALSE) : i \in Nat /\ i < n
      <4>1. Done(FALSE) \subseteq 1 .. n - 1 /\ n \in Nat
        BY <2>7, Zenon
      <4>. DEFINE D == Done(FALSE)
      <4>2. D \subseteq 1 .. n - 1
        BY <4>1, Zenon
      <4>. HIDE DEF D
      <4>3. D \subseteq 1 .. n - 1 /\ n \notin D /\ \A i \in D : i \in Nat /\ i < n
        BY <4>1, <4>2
      <4>. QED
        BY <4>3, Zenon DEF D
    <3>5. g \in [Done(FALSE)' -> 1 .. k]
      BY <2>3, <2>4, <3>1, <3>3, <3>4
    <3>6. g[n] = m /\ \A i \in Done(FALSE) : g[i] = f[i]
      BY <3>3, <3>4
    <3>7. \A i, j \in Done(FALSE)' : i < j => g[i] < g[j]
      <4>1. \A i, j \in Done(FALSE) : i < j => f[i] < f[j]
        BY <2>3 DEF Follows
      <4>2. n \in Nat
        BY <2>7
      <4>3. ~(n < n) /\ \A i \in Done(FALSE) : ~(n < i)
        <5>1. \A i \in Nat : i < n => ~(n < i)
          BY <4>2
        <5>2. ~(n < n)
          BY <4>2
        <5>. QED
          BY <3>4, <5>1, <5>2, Zenon
      <4>. QED
        BY <3>1, <3>2, <3>6, <4>1, <4>3, Zenon
    <3>8. \A i \in Done(FALSE)' : AskedBy(i)' = sent'[g[i]]
      BY <1>0, <2>3, <2>7, <3>1, <3>4, <3>6 DEF Follows
    <3>9. Follows(g, k)'
      BY <3>5, <3>7, <3>8 DEF Follows
    <3>10. AgainInv'
      BY <3>1 DEF AgainInv
    <3>. QED
      BY <2>8, <2>9, <2>10, <3>9, <3>10, WholeAgain
  <2>. QED
    BY <2>12, <2>13
<1>. QED
  BY <1>1, <1>2

\* A step keeps the requests whole, and done in their order.
LEMMA WholeStep ==
    ASSUME TypeOK, SentInv, AlignedInv, WholeInv, [Next]_vars
    PROVE  SentInv' /\ WholeInv'
<1>. USE DEF RxAt, RxServes
<1>1. CASE UNCHANGED <<sent, stream, taken, buffer, rx, executed, torn, split>>
  <2>1. Held' => Held
    BY <1>1 DEF Held
  <2>. QED
    BY <1>1, <2>1, WholeQuiet DEF SentInv
<1>2. ASSUME NEW r, Paired(r), Write(r) PROVE SentInv' /\ WholeInv'
  BY <1>2, Sends, WholeWrite
<1>3. CASE Client
  BY <1>1, <1>2, <1>3, Asks
<1>4. ASSUME NEW n \in 0 .. Len(stream), NEW b \in 0 .. IntSize - 1, RecvReturns(n, b)
      PROVE  SentInv' /\ WholeInv'
  BY <1>4, WholeRecv DEF SentInv, RecvReturns
<1>5. CASE Dispatch
  BY <1>5, WholeDispatch DEF SentInv, Dispatch
<1>6. CASE RecvZero \/ RecvFails
  <2>1. /\ UNCHANGED <<sent, stream, taken, buffer, executed, torn, split>> /\ rx.pc = "recv"
        /\ rx' = [pc |-> "onRecv", length |-> 0] \/ rx' = [pc |-> "done", length |-> 0]
    BY <1>6 DEF RecvZero, RecvFails, GiveUp
  <2>2. ~Held'
    BY <2>1 DEF Held
  <2>. QED
    BY <2>1, <2>2, WholeQuiet DEF SentInv
<1>7. CASE TaskListSent \/ WindowOpened \/ WindowAnswered
  <2>1. /\ UNCHANGED <<sent, stream, taken, buffer, executed, torn, split>> /\ rx.pc \in Types
        /\ rx' = [pc |-> IF rx.length = 0 THEN "done" ELSE "recv", length |-> 0]
    BY <1>7 DEF TaskListSent, WindowOpened, WindowAnswered, Served, After, Types
  <2>2. ~Held' /\ rx.pc # "done"
    BY <2>1 DEF Held, Types
  <2>. QED
    BY <2>1, <2>2, WholeQuiet DEF SentInv
<1>8. CASE UNCHANGED vars
  BY <1>1, <1>8 DEF vars
<1>. QED
  BY <1>3, <1>4, <1>5, <1>6, <1>7, <1>8 DEF Next, Receive, Answered

\* What was served in its turn stays so, when nothing more is done.
LEMMA ServedKept ==
    ASSUME UNCHANGED executed, NEW k, ServedTo(k),
           \A i \in 1 .. k : sent'[i] = sent[i]
    PROVE  ServedTo(k)'
BY NothingDone DEF ServedTo

\* A client that waits writes its next request.
LEMMA PacedWrite ==
    ASSUME TypeOK, SentInv, PacedInv, NEW r, Paired(r), Write(r)
    PROVE  PacedInv'
<1>. SUFFICES ASSUME ~hasty', ~split' PROVE PacedInv'
  BY DEF PacedInv
<1>1. ~hasty /\ stream = <<>> /\ rx.pc = "recv" /\ stream' = stream \o Words(r)
  BY Zenon DEF Write
<1>2. /\ Len(sent) \in Nat /\ Len(sent') = Len(sent) + 1 /\ sent'[Len(sent')] = r
      /\ \A k \in 1 .. Len(sent) : sent'[k] = sent[k]
      /\ UNCHANGED <<taken, buffer, rx, executed, torn, split>>
  BY Sends
<1>3. ServedTo(Len(sent))
  BY <1>1, <1>2 DEF PacedInv, Held
<1>4. stream' = Words(r) /\ stream' # <<>>
  <2>1. Words(r) \in Seq(Word) /\ Len(Words(r)) # 0
    BY WordsOf
  <2>. DEFINE w == Words(r)
  <2>. HIDE DEF w
  <2>2. w \in Seq(Word) /\ Len(w) # 0
    BY <2>1 DEF w
  <2>3. <<>> \o w = w /\ w # <<>>
    BY <2>2
  <2>. QED
    BY <1>1, <2>3 DEF w
<1>5. PICK k : k = Len(sent)
  OBVIOUS
<1>6. ServedTo(k)' /\ k = Len(sent') - 1 /\ Len(sent') > 0
  BY <1>2, <1>3, <1>5, ServedKept
<1>7. ServedTo(Len(sent) - 1)'
  BY <1>6 DEF ServedTo
<1>. QED
  BY <1>1, <1>2, <1>4, <1>6, <1>7 DEF PacedInv

\* recv() returns the request that was on its way.
LEMMA PacedRecv ==
    ASSUME TypeOK, SentInv, AlignedInv, PacedInv,
           NEW n \in 0 .. Len(stream), NEW b \in 0 .. IntSize - 1, RecvReturns(n, b)
    PROVE  PacedInv'
<1>. SUFFICES ASSUME ~hasty', ~split' PROVE PacedInv'
  BY DEF PacedInv
<1>. DEFINE N == Len(sent)
            r == sent[N]
            w == Words(r)
<1>0. ReturnsInts(n)
  BY RecvUncut
<1>1. /\ rx.pc = "recv" /\ n \in 1 .. Len(stream)
      /\ stream' = SubSeq(stream, n + 1, Len(stream))
      /\ buffer'[1] = stream[1] /\ buffer'[2] = IF n = 1 THEN buffer[2] ELSE stream[2]
      /\ rx'.pc = "onRecv" /\ rx'.length \in Nat \ {0}
      /\ UNCHANGED <<sent, executed, hasty>>
  BY <1>0 DEF ReturnsInts
<1>2. ~split /\ (stream' # <<>> => stream'[1] \notin Windows)
  BY RecvUncut
<1>3. /\ stream \in Seq(Word) /\ Len(stream) \in Nat /\ n \in Nat \ {0} /\ n \in 1 .. Len(stream)
      /\ stream # <<>> /\ N \in Nat
  BY <1>1 DEF TypeOK
<1>4. N > 0 /\ stream = w /\ ServedTo(N - 1)
  BY <1>1, <1>2, <1>3 DEF PacedInv
<1>5. /\ w \in Seq(Word) /\ Len(w) \in {1, 2} /\ w[1] = Code[r.type]
      /\ Len(w) = 2 <=> r.hwnd # Zero
      /\ r.hwnd # Zero => w[2] = r.hwnd /\ r.hwnd \in Windows
  <2>1. N \in 1 .. Len(sent)
    BY <1>3, <1>4
  <2>2. Paired(r)
    BY <2>1, SentPaired
  <2>. QED
    BY <2>2, WordsOf
<1>. HIDE DEF w, r
<1>6. n = Len(w)
  <2>. SUFFICES ASSUME n # Len(w) PROVE FALSE
    OBVIOUS
  <2>1. n = 1 /\ Len(w) = 2
    <3>1. n \in 1 .. Len(w) /\ Len(w) \in {1, 2}
      BY <1>3, <1>4, <1>5
    <3>2. \A a \in {1, 2} : \A d \in 1 .. a : d # a => d = 1 /\ a = 2
      OBVIOUS
    <3>. QED
      BY <3>1, <3>2, Zenon
  <2>2. stream' # <<>> /\ stream'[1] = w[2]
    <3>1. w \in Seq(Word) /\ stream' = SubSeq(w, 2, 2)
      BY <1>1, <1>4, <1>5, <2>1
    <3>2. SubSeq(w, 2, 2) # <<>> /\ SubSeq(w, 2, 2)[1] = w[2]
      BY <2>1, <3>1
    <3>. QED
      BY <3>1, <3>2
  <2>. QED
    BY <1>2, <1>5, <2>1, <2>2
<1>7. stream' = <<>>
  BY <1>1, <1>4, <1>5, <1>6
<1>8. Buffered(N)'
  <2>1. buffer'[1] = w[1] /\ buffer'[2] = IF n = 1 THEN buffer[2] ELSE w[2]
    BY <1>1, <1>4
  <2>2. buffer'[1] = Code[r.type] /\ (r.hwnd # Zero => buffer'[2] = r.hwnd)
    BY <1>5, <1>6, <2>1
  <2>. QED
    BY <1>1, <2>2 DEF Buffered, r
<1>9. ServedTo(N - 1)'
  BY <1>1, <1>4, ServedKept DEF ServedTo, Done, AskedBy
<1>10. Held'
  BY <1>1, <1>3 DEF Held
<1>. QED
  BY <1>1, <1>4, <1>7, <1>8, <1>9, <1>10 DEF PacedInv

\* Server_Recv does the request that is in the buffer, or the last one again.
LEMMA PacedDispatch ==
    ASSUME TypeOK, SentInv, WholeInv, PacedInv, Dispatch
    PROVE  PacedInv'
<1>. SUFFICES ASSUME ~hasty', ~split' PROVE PacedInv'
  BY DEF PacedInv
<1>0. /\ UNCHANGED <<sent, stream, taken, buffer, torn, split, hasty>> /\ rx.pc = "onRecv"
      /\ Len(sent) \in Nat /\ rx.length \in Nat
  BY RequestAssumption DEF Dispatch, RxServes, TypeOK
<1>1. stream = <<>> /\ ~split /\ ~hasty
  BY <1>0 DEF PacedInv
<1>2. AgainInv /\ Done(TRUE) = {}
  BY <1>0, <1>1, WholeParts DEF AgainInv, Types
<1>. SUFFICES ~Held' /\ ServedTo(Len(sent))'
  BY <1>0, <1>1 DEF PacedInv
<1>3. CASE \A t \in Types : buffer[1] # Code[t]
  <2>1. UNCHANGED executed /\ rx' = [pc |-> After(rx.length), length |-> 0]
    BY <1>3 DEF Dispatch, Cases, RxAt
  <2>2. ~Held
    <3>. SUFFICES ASSUME Held PROVE FALSE
      OBVIOUS
    <3>1. Len(sent) \in 1 .. Len(sent) /\ Buffered(Len(sent))
      BY <1>0, <1>1 DEF PacedInv
    <3>2. Paired(sent[Len(sent)])
      BY <3>1, SentPaired
    <3>. QED
      BY <1>3, <3>1, <3>2 DEF Paired, ReqType, Buffered
  <2>3. ServedTo(Len(sent))
    BY <1>0, <1>1, <2>2 DEF PacedInv
  <2>4. ServedTo(Len(sent))'
    BY <1>0, <2>1, <2>3 DEF ServedTo, Done, AskedBy
  <2>. QED
    BY <2>1, <2>4 DEF Held
<1>4. ASSUME NEW t \in Types, buffer[1] = Code[t] PROVE ~Held' /\ ServedTo(Len(sent))'
  <2>1. PICK u \in Ints : Execute(t, u)
            /\ \A m \in 1 .. Len(sent) : Buffered(m) => Request(t, u) = sent[m]
    BY <1>4, DispatchDoes
  <2>2. PICK n : n = Len(executed) + 1
    OBVIOUS
  <2>3. /\ n \in Nat /\ n \notin 1 .. n - 1
        /\ Done(TRUE) \subseteq 1 .. n - 1 /\ Done(FALSE) \subseteq 1 .. n - 1
        /\ rx.length = 0 => Done(FALSE)' = Done(FALSE)
        /\ rx.length # 0 => Done(FALSE)' = Done(FALSE) \cup {n}
        /\ \A i \in 1 .. n - 1 : AskedBy(i)' = AskedBy(i)
        /\ AskedBy(n)' = Request(t, u)
    BY <2>1, <2>2, OneMoreDone
  <2>4. rx' = [pc |-> t, length |-> rx.length] /\ ~Held'
    BY <1>4, DispatchDoes DEF RxAt, Held, Types
  <2>5. CASE rx.length = 0
    <3>1. ServedTo(Len(sent))
      BY <1>0, <1>1, <2>5 DEF PacedInv, Held
    <3>2. Done(FALSE)' = 1 .. Len(sent) /\ 1 .. Len(sent) \subseteq 1 .. n - 1
      BY <2>3, <2>5, <3>1 DEF ServedTo
    <3>3. \A i \in 1 .. Len(sent') : AskedBy(i)' = sent'[i]
      BY <1>0, <2>3, <3>1, <3>2 DEF ServedTo
    <3>. QED
      BY <1>0, <2>4, <3>2, <3>3 DEF ServedTo
  <2>6. CASE rx.length # 0
    <3>. DEFINE N == Len(sent)
    <3>1. Held
      BY <1>0, <2>6 DEF Held
    <3>2. N > 0 /\ Buffered(N) /\ ServedTo(N - 1)
      BY <1>0, <1>1, <3>1 DEF PacedInv
    <3>3. N \in 1 .. N /\ Request(t, u) = sent[N]
      BY <1>0, <2>1, <3>2
    <3>4. n = N
      <4>1. 1 .. n - 1 = Done(TRUE) \cup Done(FALSE)
        <5>1. Len(executed) = n - 1 /\ executed \in Seq([type : Types, hwnd : Ints, again : BOOLEAN])
          BY <2>2, <2>3 DEF TypeOK
        <5>2. \A i \in 1 .. n - 1 : executed[i].again \in BOOLEAN
          <6>. DEFINE T == [type : Types, hwnd : Ints, again : BOOLEAN]
          <6>1. executed \in Seq(T) /\ Len(executed) = n - 1
            BY <5>1
          <6>. HIDE DEF T
          <6>2. \A i \in 1 .. n - 1 : executed[i] \in T
            BY <6>1
          <6>3. \A d \in T : d.again \in BOOLEAN
            BY DEF T
          <6>. QED
            BY <6>2, <6>3, Zenon
        <5>3. \A i \in 1 .. n - 1 : i \in Done(TRUE) \cup Done(FALSE)
          BY <5>1, <5>2, Zenon DEF Done
        <5>. QED
          BY <2>3, <5>3, Zenon
      <4>2. 1 .. n - 1 = 1 .. N - 1
        BY <1>2, <3>2, <4>1, Zenon DEF ServedTo
      <4>3. n - 1 \in Nat /\ N - 1 \in Nat
        BY <1>0, <2>2, <2>3, <3>2 DEF TypeOK
      <4>4. \A a, b \in Nat : (1 .. a) = (1 .. b) => a = b
        <5>1. ASSUME NEW a \in Nat, NEW b \in Nat, (1 .. a) = (1 .. b) PROVE ~(a < b)
          <6>. SUFFICES ASSUME a < b PROVE FALSE
            OBVIOUS
          <6>1. b \in 1 .. b /\ b \notin 1 .. a
            OBVIOUS
          <6>. QED
            BY <5>1, <6>1
        <5>2. ASSUME NEW a \in Nat, NEW b \in Nat, (1 .. a) = (1 .. b) PROVE ~(b < a) /\ ~(a < b)
          BY <5>1, <5>2
        <5>. QED
          BY <5>2
      <4>5. n - 1 = N - 1
        BY <4>2, <4>3, <4>4
      <4>. QED
        BY <1>0, <2>3, <4>5
    <3>5. Done(FALSE)' = 1 .. N
      <4>1. Done(FALSE)' = (1 .. N - 1) \cup {N}
        BY <2>3, <2>6, <3>2, <3>4, Zenon DEF ServedTo
      <4>2. (1 .. N - 1) \cup {N} = 1 .. N
        BY <1>0, <3>2
      <4>. QED
        BY <4>1, <4>2, Zenon
    <3>6. \A i \in 1 .. N : AskedBy(i)' = sent'[i]
      <4>1. \A i \in 1 .. N : i = N \/ i \in 1 .. N - 1
        BY <1>0
      <4>2. \A i \in 1 .. N - 1 : AskedBy(i)' = sent[i]
        BY <2>3, <3>2, <3>4 DEF ServedTo
      <4>3. \A i : i = N => AskedBy(i)' = sent[i]
        BY <2>3, <3>3, <3>4
      <4>. QED
        BY <1>0, <4>1, <4>2, <4>3, Zenon
    <3>. QED
      BY <1>0, <2>4, <3>5, <3>6 DEF ServedTo
  <2>. QED
    BY <2>5, <2>6
<1>. QED
  BY <1>3, <1>4

\* A step keeps a waiting client served.
LEMMA PacedStep ==
    ASSUME TypeOK, SentInv, AlignedInv, WholeInv, PacedInv, [Next]_vars
    PROVE  PacedInv'
<1>. USE DEF RxAt, RxServes
<1>1. CASE UNCHANGED <<sent, stream, taken, buffer, rx, executed, torn, split, hasty>>
  BY <1>1 DEF PacedInv, Held, ServedTo, Done, AskedBy, Buffered
<1>2. ASSUME NEW r, Paired(r), Write(r) PROVE PacedInv'
  BY <1>2, PacedWrite
<1>3. CASE Client
  BY <1>1, <1>2, <1>3, Asks
<1>4. ASSUME NEW n \in 0 .. Len(stream), NEW b \in 0 .. IntSize - 1, RecvReturns(n, b)
      PROVE  PacedInv'
  BY <1>4, PacedRecv
<1>5. CASE Dispatch
  BY <1>5, PacedDispatch
<1>6. CASE RecvZero \/ RecvFails \/ TaskListSent \/ WindowOpened \/ WindowAnswered
  <2>1. /\ UNCHANGED <<sent, stream, taken, buffer, executed, torn, split, hasty>>
        /\ rx.pc # "onRecv" /\ ~Held'
        /\ rx.pc = "recv" /\ stream # <<>> => rx'.pc = "done"
        /\ rx.pc # "recv" => rx.pc \in Types
    BY <1>6 DEF RecvZero, RecvFails, GiveUp, TaskListSent, WindowOpened, WindowAnswered, Served,
                After, Types, Held
  <2>2. ~Held
    BY <2>1 DEF Held
  <2>3. \A k : ServedTo(k)' <=> ServedTo(k)
    BY <2>1 DEF ServedTo, Done, AskedBy
  <2>. QED
    BY <2>1, <2>2, <2>3 DEF PacedInv, ServedTo, Done, AskedBy, Types
<1>7. CASE UNCHANGED vars
  BY <1>1, <1>7 DEF vars
<1>. QED
  BY <1>3, <1>4, <1>5, <1>6, <1>7 DEF Next, Receive, Answered

\* Nothing was sent, received or done at the start.
LEMMA InitRequests == Init => RequestInv
<1>. SUFFICES ASSUME Init PROVE RequestInv
  OBVIOUS
<1>1. /\ sent = <<>> /\ stream = <<>> /\ executed = <<>> /\ buffer[1] = Zero
      /\ rx = [pc |-> "recv", length |-> 0]
  BY DEF Init, Calloc
<1>2. Done(TRUE) = {} /\ Done(FALSE) = {} /\ ~Held /\ 1 .. 0 = {} /\ Len(sent) = 0
  BY <1>1 DEF Done, Held
<1>3. SentInv
  BY <1>1 DEF SentInv
<1>4. PacedInv
  BY <1>1, <1>2 DEF PacedInv, ServedTo
<1>5. WholeInv
  <2>1. PICK f : f = [i \in {} |-> 0]
    OBVIOUS
  <2>2. f \in [Done(FALSE) -> 1 .. 0] /\ Follows(f, 0)
    BY <1>2, <2>1 DEF Follows
  <2>3. ReceivedInv(0)
    <3>1. 0 \in 0 .. 0 /\ ~Held /\ buffer[1] = Zero
      BY <1>1, <1>2
    <3>. QED
      BY <2>2, <3>1 DEF ReceivedInv
  <2>4. PICK p : p = [i \in {1} |-> 1]
    OBVIOUS
  <2>5. p \in [0 + 1 .. Len(sent) + 1 -> 1 .. Len(stream) + 1] /\ Cut(0, p)
    <3>1. 0 + 1 .. Len(sent) + 1 = {1} /\ 1 .. Len(stream) + 1 = {1} /\ 0 + 1 .. Len(sent) = {}
      BY <1>1
    <3>. QED
      BY <1>1, <2>4, <3>1 DEF Cut
  <2>6. AgainInv
    BY <1>2 DEF AgainInv
  <2>. QED
    BY <1>2, <2>3, <2>5, <2>6 DEF WholeInv
<1>6. AlignedInv
  BY DEF Init, AlignedInv
<1>. QED
  BY <1>3, <1>4, <1>5, <1>6 DEF RequestInv

-----------------------------------------------------------------------------
(* The theorems about requests.                                            *)

\* The variables keep their types: what Server_Recv dispatches on are ints that
\* came from the stream or from calloc, with a length that recv() returned.
THEOREM RequestTyping == Spec => []TypeOK
<1>1. Init => TypeOK
  BY InitTyped
<1>. QED
  BY <1>1, StepTyped, PTL DEF Spec

\* Whatever requests recv() joins or cuts in two, and whatever earlier ones left in
\* the buffer, a window is opened or closed only if its client has named it: as long
\* as no recv() has ended within an int.
THEOREM OnlyNamedWindows == Spec => []ActsOnNamedWindows
<1>1. Init => TypeOK /\ AlignedInv /\ NamedInv
  <2>1. Init => AlignedInv /\ NamedInv
    BY WordFacts DEF Init, Calloc, AlignedInv, NamedInv, ActsOnNamedWindows
  <2>. QED
    BY <2>1, InitTyped
<1>2. TypeOK /\ AlignedInv /\ NamedInv /\ [Next]_vars
        => (TypeOK /\ AlignedInv /\ NamedInv)'
  BY StepTyped, AlignedStep, NamedStep
<1>3. NamedInv => ActsOnNamedWindows
  BY DEF NamedInv
<1>. QED
  BY <1>1, <1>2, <1>3, PTL DEF Spec

\* What is in the stream, in the buffer and done belongs together: as long as none
\* is cut in two, whole requests are received, and done in their order.
THEOREM Requests == Spec => [](TypeOK /\ RequestInv)
<1>1. TypeOK /\ RequestInv /\ [Next]_vars => TypeOK' /\ RequestInv'
  BY StepTyped, AlignedStep, WholeStep, PacedStep DEF RequestInv
<1>. QED
  BY InitTyped, InitRequests, <1>1, PTL DEF Spec

\* The server does what its client has asked for, in that order and nothing twice,
\* but for one request that may be done again when recv() returns 0.
THEOREM DoesAsAsked == Spec => []NothingInvented
<1>1. ASSUME TypeOK, RequestInv, ~split
      PROVE  /\ AgainInv
             /\ \E f \in [Done(FALSE) -> 1 .. Len(sent)] : Follows(f, Len(sent))
  <2>1. PICK k \in 0 .. Len(sent) : \E f \in [Done(FALSE) -> 1 .. k] : Follows(f, k)
    BY <1>1 DEF RequestInv, WholeInv, ReceivedInv
  <2>2. PICK f \in [Done(FALSE) -> 1 .. k] : Follows(f, k)
    BY <2>1
  <2>3. f \in [Done(FALSE) -> 1 .. Len(sent)] /\ Follows(f, Len(sent))
    <3>1. 1 .. k \subseteq 1 .. Len(sent)
      BY <1>1 DEF TypeOK
    <3>. QED
      BY <2>2, <3>1 DEF Follows
  <2>. QED
    BY <1>1, <2>3 DEF RequestInv, WholeInv
<1>2. TypeOK /\ RequestInv => NothingInvented
  BY <1>1 DEF NothingInvented, AgainInv
<1>. QED
  BY Requests, <1>2, PTL

\* A client that waits for each of its requests to be served has all of them done.
THEOREM WaitingIsServed == Spec => []PacedRequestsServed
<1>1. RequestInv => PacedRequestsServed
  BY DEF RequestInv, PacedInv, Held, PacedRequestsServed
<1>. QED
  BY Requests, <1>1, PTL

=============================================================================
