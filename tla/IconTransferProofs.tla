-------------------------- MODULE IconTransferProofs --------------------------
(***************************************************************************)
(* Theorems about the pictures, for any windows and HICONs, any pictures   *)
(* and sizes, and whatever applications do to their icons: what is sent    *)
(* for an icon is its picture, and the rows show it.                       *)
(***************************************************************************)
EXTENDS IconTransfer, TLAPS

Sized == [size : Nat, bytes : Sendable]

\* What is sent for a HICON is as long as it says, unless it is too large.
LEMMA PngIs ==
    ASSUME TypeOK, NEW h \in HICON
    PROVE  /\ image[h] \in Images \cup {NoBytes}
           /\ HIconToPNG(h) \in Sized
           /\ LET png == HIconToPNG(h) IN
              /\ png.bytes = NoBytes => png.size = 0
              /\ png.bytes = Undefined => png.size > MaxFileSize
              /\ png.bytes \in Images => png.size = PngSize[png.bytes] /\ png.size <= MaxFileSize
              /\ image[h] \in Images /\ PngSize[image[h]] <= MaxFileSize => png.bytes = image[h]
           /\ ReadFails(h) => NotRead(h) \in Sized
<1>1. image[h] \in Images \cup {NoBytes}
  BY DEF TypeOK
<1>2. /\ NoBytes \notin Images /\ Undefined \notin Images
      /\ NoBytes # Undefined /\ MaxFileSize \in Nat
      /\ \A i \in Images : PngSize[i] \in Nat
  BY IconAssumption DEF NoBytes, Undefined
<1>3. CASE image[h] = NoBytes
  BY <1>2, <1>3 DEF HIconToPNG, SavedSize, Sendable, Sized, ReadFails
<1>4. CASE image[h] \in Images
  <2>1. PngSize[image[h]] \in Nat
    BY <1>2, <1>4
  <2>. QED
    BY <1>2, <1>4, <2>1 DEF HIconToPNG, NotRead, SavedSize, Sendable, Sized
<1>. QED
  BY <1>1, <1>3, <1>4

\* What SendIconToClient does to the cache and to the client.
LEMMA IconSent ==
    ASSUME TypeOK, SendIconToClient
    PROVE  \E h \in HICON :
              /\ job.at = "send" /\ h = job.hicon /\ job' = [job EXCEPT !.at = "row"]
              /\ UNCHANGED <<image, source, hung, changes, rows>>
              /\ \/ h \in cache /\ UNCHANGED <<cache, iconMap, spoiled, unread>>
                 \/ /\ cache' = cache \cup {h}
                    /\ iconMap' = [iconMap EXCEPT ![h] = HIconToPNG(h)]
                    /\ UNCHANGED <<spoiled, unread>>
                 \/ /\ cache' = cache \cup {h} /\ spoiled' = spoiled \cup {h}
                    /\ iconMap' = [iconMap EXCEPT ![h] = [size |-> 0, bytes |-> NoBytes]]
                    /\ UNCHANGED unread
                 \/ /\ cache' = cache \cup {h} /\ spoiled' = spoiled \cup {h}
                    /\ iconMap' = [iconMap EXCEPT ![h] = NotRead(h)]
                    /\ unread' = unread \cup {h} /\ ReadFails(h)
<1>1. job.at = "send" /\ job.hicon \in HICON
  BY DEF SendIconToClient, TypeOK, Idle
<1>2. /\ job' = [job EXCEPT !.at = "row"]
      /\ UNCHANGED <<image, source, hung, changes, rows>>
      /\ \/ job.hicon \in cache /\ UNCHANGED <<cache, iconMap, spoiled, unread>>
         \/ Send(job.hicon, HIconToPNG(job.hicon)) /\ UNCHANGED <<spoiled, unread>>
         \/ /\ \E png \in NoStream : Send(job.hicon, png)
            /\ spoiled' = spoiled \cup {job.hicon} /\ UNCHANGED unread
         \/ /\ Send(job.hicon, NotRead(job.hicon)) /\ ReadFails(job.hicon)
            /\ spoiled' = spoiled \cup {job.hicon} /\ unread' = unread \cup {job.hicon}
  BY DEF SendIconToClient, ServerStep, desktop, history, IconExistsInClientCache
<1>3. \A png \in NoStream : png = [size |-> 0, bytes |-> NoBytes]
  BY DEF NoStream, InitialSize
<1>. QED
  BY <1>1, <1>2, <1>3 DEF Send

\* What GetHICON finds is a HICON.
LEMMA IconGot ==
    ASSUME TypeOK, GetHICON
    PROVE  /\ UNCHANGED <<image, source, hung, changes, cache, iconMap, rows, spoiled, unread>>
           /\ \/ \E w \in Windows, h \in HICON : job' = Got(w, h)
              \/ \E w \in Windows, p \in 1 .. 4 : job' = [at |-> "get", hwnd |-> w, place |-> p]
<1>1. /\ job.at = "get" /\ job = [at |-> "get", hwnd |-> job.hwnd, place |-> job.place]
      /\ job.hwnd \in Windows /\ job.place \in 1 .. 4
  BY DEF GetHICON, TypeOK, Idle
<1>. DEFINE h == source[job.hwnd][job.place]
<1>2. h \in Handles \cup {Null}
  BY <1>1 DEF TypeOK
<1>3. \/ h # Null /\ job' = Got(job.hwnd, h)
      \/ job' = Got(job.hwnd, Default)
      \/ job.place # 4 /\ job' = [job EXCEPT !.place = job.place + 1]
  BY DEF GetHICON, Fallback
<1>4. UNCHANGED <<image, source, hung, changes, cache, iconMap, rows, spoiled, unread>>
  BY DEF GetHICON, ServerStep, desktop, history
<1>. HIDE DEF h
<1>5. CASE h # Null /\ job' = Got(job.hwnd, h)
  BY <1>1, <1>2, <1>4, <1>5 DEF HICON
<1>6. CASE job' = Got(job.hwnd, Default)
  BY <1>1, <1>4, <1>6 DEF HICON
<1>7. CASE job.place # 4 /\ job' = [job EXCEPT !.place = job.place + 1]
  <2>1. job' = [at |-> "get", hwnd |-> job.hwnd, place |-> job.place + 1]
    BY <1>1, <1>7
  <2>2. job.place + 1 \in 1 .. 4
    BY <1>1, <1>7
  <2>. QED
    BY <1>1, <1>4, <2>1, <2>2
<1>. QED
  BY <1>3, <1>5, <1>6, <1>7

\* A step keeps the types.
LEMMA IconTyped ==
    ASSUME TypeOK, [Next]_vars
    PROVE  TypeOK'
<1>. DEFINE Get == [at : {"get"}, hwnd : Windows, place : 1 .. 4]
            Sending == [at : {"send", "row"}, hwnd : Windows, hicon : HICON,
                        image : Images \cup {NoBytes}]
            Shown == [hicon : HICON, image : Images \cup {NoBytes}]
<1>. USE DEF desktop, history
<1>0. job \in {Idle} \cup Get \cup Sending
  BY DEF TypeOK
<1>1. ASSUME Change PROVE changes' \in 0 .. MaxChanges /\ UNCHANGED <<job, cache, iconMap, rows, unread>>
  BY <1>1, IconAssumption DEF Change, TypeOK
<1>2. ASSUME NEW w \in Windows, NEW p \in 1 .. 4, NEW h \in Handles, SetIcon(w, p, h)
      PROVE  TypeOK'
  <2>1. source' \in [Windows -> [1 .. 4 -> Handles \cup {Null}]]
    BY <1>2 DEF SetIcon, TypeOK
  <2>. QED
    BY <1>1, <1>2, <2>1 DEF SetIcon, TypeOK
<1>3. ASSUME NEW h \in Handles, NEW i \in Images \cup {NoBytes}, ReplaceIcon(h, i)
      PROVE  TypeOK'
  <2>1. h \in HICON
    BY DEF HICON
  <2>2. image' \in [HICON \cup {Null} -> Images \cup {NoBytes}] /\ spoiled' \subseteq HICON
    BY <1>3, <2>1 DEF ReplaceIcon, TypeOK
  <2>. QED
    BY <1>1, <1>3, <2>2 DEF ReplaceIcon, TypeOK
<1>4. ASSUME NEW w \in Windows, Hang(w) PROVE TypeOK'
  BY <1>4 DEF Hang, TypeOK
<1>5. ASSUME NEW w \in Windows, Begin(w) PROVE TypeOK'
  <2>1. job' \in Get
    BY <1>5 DEF Begin
  <2>. QED
    BY <1>5, <2>1 DEF Begin, ServerStep, TypeOK
<1>6. CASE GetHICON
  <2>1. ASSUME NEW w \in Windows, NEW h \in HICON PROVE Got(w, h) \in Sending
    BY PngIs DEF Got
  <2>2. job' \in Get \cup Sending
    BY <1>6, <2>1, IconGot
  <2>3. UNCHANGED <<image, source, hung, changes, cache, iconMap, rows, spoiled, unread>>
    BY <1>6, IconGot
  <2>. QED
    BY <2>2, <2>3 DEF TypeOK
<1>7. CASE SendIconToClient
  <2>1. PICK h \in HICON :
              /\ job.at = "send" /\ h = job.hicon /\ job' = [job EXCEPT !.at = "row"]
              /\ UNCHANGED <<image, source, hung, changes, rows>>
              /\ \/ h \in cache /\ UNCHANGED <<cache, iconMap, spoiled, unread>>
                 \/ /\ cache' = cache \cup {h}
                    /\ iconMap' = [iconMap EXCEPT ![h] = HIconToPNG(h)]
                    /\ UNCHANGED <<spoiled, unread>>
                 \/ /\ cache' = cache \cup {h} /\ spoiled' = spoiled \cup {h}
                    /\ iconMap' = [iconMap EXCEPT ![h] = [size |-> 0, bytes |-> NoBytes]]
                    /\ UNCHANGED unread
                 \/ /\ cache' = cache \cup {h} /\ spoiled' = spoiled \cup {h}
                    /\ iconMap' = [iconMap EXCEPT ![h] = NotRead(h)]
                    /\ unread' = unread \cup {h} /\ ReadFails(h)
    BY <1>7, IconSent
  <2>2. job' \in Sending
    BY <1>0, <2>1 DEF Idle
  <2>3. /\ HIconToPNG(h) \in Sized /\ [size |-> 0, bytes |-> NoBytes] \in Sized
        /\ ReadFails(h) => NotRead(h) \in Sized
    BY PngIs DEF Sized, Sendable
  <2>4. iconMap' \in [HICON \cup {Null} -> {Unsent} \cup Sized]
    BY <2>1, <2>3 DEF TypeOK, Sized
  <2>5. cache' \subseteq HICON /\ spoiled' \subseteq HICON /\ unread' \subseteq HICON
    BY <2>1 DEF TypeOK
  <2>. QED
    BY <2>1, <2>2, <2>4, <2>5 DEF TypeOK, Sized
<1>8. CASE SendRow
  <2>1. /\ job.at = "row" /\ job' = Idle
        /\ rows' = [rows EXCEPT ![job.hwnd] = [hicon |-> job.hicon, image |-> job.image]]
        /\ UNCHANGED <<image, source, hung, changes, cache, iconMap, spoiled, unread>>
    BY <1>8 DEF SendRow, ServerStep
  <2>2. job.hwnd \in Windows /\ [hicon |-> job.hicon, image |-> job.image] \in Shown
    BY <1>0, <2>1 DEF Idle
  <2>3. rows' \in [Windows -> {NoRow} \cup Shown]
    BY <2>1, <2>2 DEF TypeOK
  <2>. QED
    BY <2>1, <2>3 DEF TypeOK
<1>9. CASE UNCHANGED vars
  BY <1>9 DEF vars, TypeOK
<1>. QED
  BY <1>2, <1>3, <1>4, <1>5, <1>6, <1>7, <1>8, <1>9 DEF Next, Server

\* Before the first step everything is as it should be.
LEMMA IconStart ==
    ASSUME Init
    PROVE  TypeOK /\ BytesAreThePicture /\ IconInv
<1>1. /\ image \in [HICON \cup {Null} -> Images \cup {NoBytes}]
      /\ \A h \in HICON \cup {Null} : image[h] = NoBytes <=> h = Null
  BY DEF Init
<1>2. /\ source = [w \in Windows |-> [p \in 1 .. 4 |-> Null]]
      /\ hung = {} /\ changes = 0 /\ job = Idle /\ cache = {} /\ spoiled = {} /\ unread = {}
      /\ iconMap = [h \in HICON \cup {Null} |-> Unsent]
      /\ rows = [w \in Windows |-> NoRow]
  BY DEF Init
<1>3. TypeOK
  BY <1>1, <1>2, IconAssumption DEF TypeOK
<1>4. BytesAreThePicture
  <2>1. /\ Nothing \notin Images /\ Nothing # NoBytes
        /\ Nothing # Undefined
    BY IconAssumption DEF Nothing, NoBytes, Undefined
  <2>2. \A h \in HICON : iconMap[h].bytes = Nothing
    BY <1>2 DEF Unsent
  <2>. QED
    BY <2>1, <2>2 DEF BytesAreThePicture
<1>5. IconInv
  <2>1. \A h \in HICON : image[h] \in Images
    BY <1>1, IconAssumption
  <2>. QED
    BY <1>2, <2>1 DEF IconInv, Intact, Idle
<1>. QED
  BY <1>3, <1>4, <1>5

\* No step sends bytes that are not of a picture, whatever becomes of the icons:
\* only SendIconToClient changes what the client has.
LEMMA BytesStep ==
    ASSUME TypeOK, BytesAreThePicture,
           [Next]_vars
    PROVE  BytesAreThePicture'
<1>. DEFINE Sound(png) == /\ png.bytes = NoBytes => png.size = 0
                          /\ png.bytes = Undefined => png.size > MaxFileSize
                          /\ png.bytes \in Images => /\ png.size = PngSize[png.bytes]
                                                     /\ png.size <= MaxFileSize
<1>1. CASE SendIconToClient
  <2>1. PICK h \in HICON :
              \/ UNCHANGED <<iconMap, unread>>
              \/ iconMap' = [iconMap EXCEPT ![h] = HIconToPNG(h)] /\ UNCHANGED unread
              \/ /\ iconMap' = [iconMap EXCEPT ![h] = [size |-> 0, bytes |-> NoBytes]]
                 /\ UNCHANGED unread
              \/ /\ iconMap' = [iconMap EXCEPT ![h] = NotRead(h)]
                 /\ unread' = unread \cup {h}
    BY <1>1, IconSent
  <2>2. Sound(HIconToPNG(h))
    BY PngIs
  <2>3. Sound([size |-> 0, bytes |-> NoBytes])
    BY IconAssumption DEF NoBytes, Undefined
  <2>4. /\ NotRead(h).bytes = Undefined
        /\ Undefined \notin Images /\ NoBytes # Undefined
    BY IconAssumption DEF NotRead, NoBytes, Undefined
  <2>5. \A g \in HICON : Sound(iconMap[g]) \/ (g \in unread /\ iconMap[g].bytes = Undefined)
    BY <2>4 DEF BytesAreThePicture
  <2>6. iconMap \in [HICON \cup {Null} -> {Unsent} \cup Sized]
    BY DEF TypeOK, Sized
  <2>. HIDE DEF Sound
  <2>7. \A g \in HICON : Sound(iconMap'[g]) \/ (g \in unread' /\ iconMap'[g].bytes = Undefined)
    BY <2>1, <2>2, <2>3, <2>4, <2>5, <2>6
  <2>. QED
    BY <2>4, <2>7 DEF Sound, BytesAreThePicture
<1>2. CASE ~SendIconToClient
  <2>1. UNCHANGED <<iconMap, unread>>
    BY <1>2 DEF Next, Server, SetIcon, ReplaceIcon, Change,
       Hang, Begin, GetHICON, SendRow, vars, history
  <2>. QED
    BY <2>1 DEF BytesAreThePicture
<1>. QED
  BY <1>1, <1>2

\* A step in which no icon is destroyed, nothing is sent and no row is written
\* keeps the invariant, if a task it prepares has its icon's picture.
LEMMA IconQuiet ==
    ASSUME IconInv, UNCHANGED <<image, cache, iconMap, rows, spoiled, unread>>,
           \/ UNCHANGED job
           \/ job'.at \in {"idle", "get"}
           \/ job'.at = "send" /\ job'.image = image[job'.hicon]
    PROVE  IconInv'
<1>1. Intact' = Intact
  BY DEF Intact
<1>2. \A h : HIconToPNG(h)' = HIconToPNG(h)
  BY DEF HIconToPNG, SavedSize
<1>3. /\ \A h \in Intact' : image'[h] \in Images
      /\ \A h \in Intact' \cap cache' : iconMap'[h] = HIconToPNG(h)'
  BY <1>1, <1>2 DEF IconInv
<1>4. /\ job'.at \in {"send", "row"} /\ job'.hicon \in Intact' => job'.image = image'[job'.hicon]
      /\ job'.at = "row" => job'.hicon \in cache'
  BY <1>1 DEF IconInv
<1>5. \A w \in Windows : rows'[w] # NoRow =>
          /\ rows'[w].hicon \in cache'
          /\ rows'[w].hicon \in Intact' => rows'[w].image = image'[rows'[w].hicon]
  BY <1>1 DEF IconInv
<1>. QED
  BY <1>3, <1>4, <1>5 DEF IconInv

\* A step keeps the invariant.
LEMMA IconStep ==
    ASSUME TypeOK, IconInv, [Next]_vars
    PROVE  IconInv'
<1>1. ASSUME NEW h \in Handles, NEW i, ReplaceIcon(h, i) PROVE IconInv'
  <2>1. /\ image' = [image EXCEPT ![h] = i] /\ spoiled' = spoiled \cup {h}
        /\ UNCHANGED <<job, cache, iconMap, rows>>
    BY <1>1 DEF ReplaceIcon, Change
  <2>2. Intact' \subseteq Intact /\ h \notin Intact'
    BY <2>1 DEF Intact
  <2>3. \A g : g # h => image'[g] = image[g] /\ HIconToPNG(g)' = HIconToPNG(g)
    BY <2>1 DEF HIconToPNG, SavedSize, TypeOK
  <2>4. /\ \A g \in Intact' : image'[g] \in Images
        /\ \A g \in Intact' \cap cache' : iconMap'[g] = HIconToPNG(g)'
    BY <2>1, <2>2, <2>3 DEF IconInv
  <2>5. /\ job'.at \in {"send", "row"} /\ job'.hicon \in Intact' => job'.image = image'[job'.hicon]
        /\ job'.at = "row" => job'.hicon \in cache'
    BY <2>1, <2>2, <2>3 DEF IconInv
  <2>6. \A w \in Windows : rows'[w] # NoRow =>
            /\ rows'[w].hicon \in cache'
            /\ rows'[w].hicon \in Intact' => rows'[w].image = image'[rows'[w].hicon]
    BY <2>1, <2>2, <2>3 DEF IconInv
  <2>. QED
    BY <2>4, <2>5, <2>6 DEF IconInv
<1>2. CASE GetHICON
  <2>1. UNCHANGED <<image, source, hung, changes, cache, iconMap, rows, spoiled, unread>>
    BY <1>2, IconGot
  <2>2. \/ job'.at = "send" /\ job'.image = image[job'.hicon]
        \/ job'.at = "get"
    BY <1>2, IconGot DEF Got
  <2>. QED
    BY <2>1, <2>2, IconQuiet
<1>3. CASE SendIconToClient
  <2>1. PICK h \in HICON :
              /\ job.at = "send" /\ h = job.hicon /\ job' = [job EXCEPT !.at = "row"]
              /\ UNCHANGED <<image, source, hung, changes, rows>>
              /\ \/ h \in cache /\ UNCHANGED <<cache, iconMap, spoiled, unread>>
                 \/ /\ cache' = cache \cup {h}
                    /\ iconMap' = [iconMap EXCEPT ![h] = HIconToPNG(h)]
                    /\ UNCHANGED <<spoiled, unread>>
                 \/ /\ cache' = cache \cup {h} /\ spoiled' = spoiled \cup {h}
                    /\ iconMap' = [iconMap EXCEPT ![h] = [size |-> 0, bytes |-> NoBytes]]
                    /\ UNCHANGED unread
                 \/ /\ cache' = cache \cup {h} /\ spoiled' = spoiled \cup {h}
                    /\ iconMap' = [iconMap EXCEPT ![h] = NotRead(h)]
                    /\ unread' = unread \cup {h} /\ ReadFails(h)
    BY <1>3, IconSent
  <2>2. job' = [at |-> "row", hwnd |-> job.hwnd, hicon |-> h, image |-> job.image]
    BY <2>1 DEF TypeOK, Idle
  <2>3. \A g : HIconToPNG(g)' = HIconToPNG(g)
    BY <2>1 DEF HIconToPNG, SavedSize
  <2>4. Intact' \subseteq Intact /\ h \in cache' /\ cache \subseteq cache'
    BY <2>1 DEF Intact
  <2>5. \A g \in Intact' \cap cache' : iconMap'[g] = HIconToPNG(g)'
    <3>1. SUFFICES ASSUME NEW g \in Intact' \cap cache' PROVE iconMap'[g] = HIconToPNG(g)
      BY <2>3
    <3>2. g \in Intact /\ g \in HICON /\ (g \in cache \/ g = h)
      BY <2>1, <2>4 DEF Intact
    <3>3. g \in cache => iconMap[g] = HIconToPNG(g)
      BY <3>2 DEF IconInv
    <3>4. iconMap \in [HICON \cup {Null} -> {Unsent} \cup Sized]
      BY DEF TypeOK, Sized
    <3>5. g = h => g \notin spoiled'
      BY <3>1 DEF Intact
    <3>6. CASE g # h
      <4>1. iconMap'[g] = iconMap[g]
        BY <2>1, <3>2, <3>4, <3>6
      <4>. QED
        BY <3>2, <3>3, <3>6, <4>1
    <3>7. CASE g = h
      <4>1. \/ UNCHANGED iconMap /\ h \in cache
            \/ iconMap' = [iconMap EXCEPT ![h] = HIconToPNG(h)]
        BY <2>1, <3>5, <3>7
      <4>. QED
        BY <3>3, <3>4, <3>7, <4>1
    <3>. QED
      BY <3>6, <3>7
  <2>6. \A g \in Intact' : image'[g] \in Images
    BY <2>1, <2>4 DEF IconInv
  <2>7. /\ job'.at \in {"send", "row"} /\ job'.hicon \in Intact' => job'.image = image'[job'.hicon]
        /\ job'.at = "row" => job'.hicon \in cache'
    BY <2>1, <2>2, <2>4 DEF IconInv
  <2>8. \A w \in Windows : rows'[w] # NoRow =>
            /\ rows'[w].hicon \in cache'
            /\ rows'[w].hicon \in Intact' => rows'[w].image = image'[rows'[w].hicon]
    BY <2>1, <2>4 DEF IconInv
  <2>. QED
    BY <2>5, <2>6, <2>7, <2>8 DEF IconInv
<1>4. CASE SendRow
  <2>1. /\ job.at = "row" /\ job' = Idle
        /\ rows' = [rows EXCEPT ![job.hwnd] = [hicon |-> job.hicon, image |-> job.image]]
        /\ UNCHANGED <<image, source, hung, changes, cache, iconMap, spoiled, unread>>
    BY <1>4 DEF SendRow, ServerStep, desktop, history
  <2>2. /\ Intact' = Intact /\ job'.at = "idle"
        /\ \A g : HIconToPNG(g)' = HIconToPNG(g)
    BY <2>1 DEF Intact, HIconToPNG, SavedSize, Idle
  <2>3. /\ \A g \in Intact' : image'[g] \in Images
        /\ \A g \in Intact' \cap cache' : iconMap'[g] = HIconToPNG(g)'
    BY <2>1, <2>2 DEF IconInv
  <2>4. ASSUME NEW w \in Windows, rows'[w] # NoRow
        PROVE  /\ rows'[w].hicon \in cache'
               /\ rows'[w].hicon \in Intact' => rows'[w].image = image'[rows'[w].hicon]
    <3>1. CASE w = job.hwnd
      <4>1. rows'[w] = [hicon |-> job.hicon, image |-> job.image]
        BY <2>1, <3>1 DEF TypeOK
      <4>. QED
        BY <2>1, <2>2, <4>1 DEF IconInv
    <3>2. CASE w # job.hwnd
      <4>1. rows'[w] = rows[w]
        BY <2>1, <3>2 DEF TypeOK
      <4>. QED
        BY <2>1, <2>2, <2>4, <4>1 DEF IconInv
    <3>. QED
      BY <3>1, <3>2
  <2>. QED
    BY <2>2, <2>3, <2>4 DEF IconInv
<1>5. ASSUME \/ \E w \in Windows, p \in 1 .. 4, h \in Handles : SetIcon(w, p, h)
             \/ \E w \in Windows : Hang(w) \/ Begin(w)
             \/ UNCHANGED vars
      PROVE  IconInv'
  <2>1. UNCHANGED <<image, cache, iconMap, rows, spoiled, unread>> /\ (UNCHANGED job \/ job'.at = "get")
    BY <1>5 DEF SetIcon, Change, Hang, Begin, ServerStep,
       desktop, history, vars
  <2>. QED
    BY <2>1, IconQuiet
<1>. QED
  BY <1>1, <1>2, <1>3, <1>4, <1>5 DEF Next, Server

\* The types of the pictures' way, for all windows, icons and sizes.
THEOREM IconTypes == Spec => []TypeOK
<1>1. Init => TypeOK
  BY IconStart
<1>2. TypeOK /\ [Next]_vars => TypeOK'
  BY IconTyped
<1>. QED
  BY <1>1, <1>2, PTL DEF Spec

\* As many bytes are sent as the header says and all are of the picture, unless
\* it is larger than the buffer or its stream was made and could not be read: no
\* destroyed icon and no stream that could not be made leads to anything else.
THEOREM BytesSent == Spec => []BytesAreThePicture
<1>1. Init => BytesAreThePicture
  BY IconStart
<1>2. /\ TypeOK /\ BytesAreThePicture /\ [Next]_vars
      => BytesAreThePicture'
  BY BytesStep
<1>. QED
  BY <1>1, <1>2, IconTypes, PTL DEF Spec

\* A row shows the icon its window had when it was listed, unless that icon was
\* destroyed, replaced, not converted or is too large.
THEOREM RowsShowIcons == Spec => []RowShowsItsIcon
<1>1. Init => IconInv
  BY IconStart
<1>2. TypeOK /\ IconInv /\ [Next]_vars => IconInv'
  BY IconStep
<1>3. TypeOK /\ IconInv => RowShowsItsIcon
  <2>. SUFFICES ASSUME TypeOK, IconInv, NEW w \in Windows, rows[w] # NoRow,
                       rows[w].hicon \notin spoiled, PngSize[rows[w].image] <= MaxFileSize
                PROVE  iconMap[rows[w].hicon].bytes = rows[w].image
    BY DEF RowShowsItsIcon
  <2>1. PICK h \in HICON : h = rows[w].hicon
    BY DEF TypeOK
  <2>2. h \in Intact
    BY <2>1 DEF Intact
  <2>3. iconMap[h] = HIconToPNG(h) /\ rows[w].image = image[h] /\ image[h] \in Images
    BY <2>1, <2>2 DEF IconInv
  <2>. QED
    BY <2>1, <2>3, PngIs
<1>. QED
  BY <1>1, <1>2, <1>3, IconTypes, PTL DEF Spec

=============================================================================
