---------------------------- MODULE IconTransfer ----------------------------
(***************************************************************************)
(* The picture of a task, from the window's icon to the client's row.      *)
(*                                                                         *)
(* A task carries a HICON.  GetHICON asks five places for one, two of them *)
(* by a message that the window has to answer.  HIconToPNG converts it into *)
(* a buffer of PNG_MAX_FILESIZE bytes; sendIconToClient ignores its result *)
(* and sends as many bytes as it says the picture has, copied or not.  The *)
(* server sends a HICON's picture once, the client keeps it under the      *)
(* HICON.                                                                  *)
(*                                                                         *)
(* A HICON is the application's: it may destroy it at any time, and the    *)
(* system may give the same value to another icon.  Here one window is     *)
(* dealt with at a time; two threads doing so is module TaskServer's.      *)
(***************************************************************************)
EXTENDS Naturals, Sequences

CONSTANTS
    Windows,      \* HWNDs
    Handles,      \* HICONs of applications
    Default,      \* the HICON of IDI_APPLICATION
    Null,         \* no HICON
    Images,       \* pictures
    PngSize,      \* how large each is as a PNG
    MaxFileSize,  \* PNG_MAX_FILESIZE
    MaxChanges    \* bound on what applications do to their icons

HICON == Handles \cup {Default}

\* What may be sent instead of an image: no bytes, or bytes no one has written.
NoBytes   == "no bytes"
Undefined == "undefined"

\* What the client has before.
Nothing   == "nothing"

ASSUME IconAssumption ==
    /\ Default \notin Handles /\ Null \notin HICON
    /\ {NoBytes, Undefined, Nothing} \cap Images = {}
    /\ PngSize \in [Images -> Nat \ {0}]
    /\ MaxFileSize \in Nat /\ MaxChanges \in Nat

VARIABLES
    image,    \* the picture behind each HICON, NoBytes when there is none
    source,   \* per window: its class icon, its big, small and small class icon
    hung,     \* the windows that answer no message
    changes,  \* number of changes so far
    job,      \* the server: the window it deals with and how far it is
    cache,    \* _clientCachedIcons
    iconMap,  \* the client's iconMap
    rows,     \* the client's rows: the HICON of each, and its picture then
    spoiled,  \* history: the HICONs destroyed, replaced or not converted
    unread    \* history: those of them whose PNG was made and then not read

desktop == <<image, source, hung, changes>>
history == <<spoiled, unread>>
vars == <<desktop, job, cache, iconMap, rows, history>>

\* Variant: the windows are asked first.
AskedFirst == {1, 2}

\* The places that GetHICON asks by WM_GETICON.
Asked == {2, 3}

Idle == [at |-> "idle"]

NoRow == [hicon |-> Null, image |-> NoBytes]

-----------------------------------------------------------------------------
(* The applications.                                                       *)

Change ==
    /\ changes < MaxChanges
    /\ changes' = changes + 1
    /\ UNCHANGED <<job, cache, iconMap, rows, unread>>

SetIcon(w, p, h) ==
    /\ Change
    /\ source' = [source EXCEPT ![w][p] = h]
    /\ UNCHANGED <<image, hung, spoiled>>

\* DestroyIcon, and perhaps a new icon of the same value.
ReplaceIcon(h, i) ==
    /\ Change
    /\ i # image[h]
    /\ image' = [image EXCEPT ![h] = i]
    /\ spoiled' = spoiled \cup {h}
    /\ UNCHANGED <<source, hung>>

Hang(w) ==
    /\ hung' = IF w \in hung THEN hung \ {w} ELSE hung \cup {w}
    /\ UNCHANGED <<image, source, changes, job, cache, iconMap, rows, history>>

-----------------------------------------------------------------------------
(* The server, on either thread.                                           *)

ServerStep == UNCHANGED desktop

Begin(w) ==
    /\ job = Idle
    /\ job' = [at |-> "get", hwnd |-> w, place |-> 1]
    /\ ServerStep /\ UNCHANGED <<cache, iconMap, rows, history>>

\* Variant: there is no icon to fall back on.
NoFallback == Null
Fallback == Default

Got(w, h) == [at |-> "send", hwnd |-> w, hicon |-> h, image |-> image[h]]

\* GetHICON: SendMessage waits for the window.
GetHICON ==
    /\ job.at = "get"
    /\ LET w == job.hwnd
           p == job.place
       IN /\ p \in Asked => w \notin hung
          /\ job' = IF source[w][p] # Null THEN Got(w, source[w][p])
                    ELSE IF p = 4 THEN Got(w, Fallback)
                    ELSE [job EXCEPT !.place = p + 1]
    /\ ServerStep /\ UNCHANGED <<cache, iconMap, rows, history>>

\* Variant: pngSize is not initialised.
SizeUnset == {0, MaxFileSize}
InitialSize == {0}

\* createAlphaChannelBitmapFromIcon and Bitmap::Save: nothing is saved for a
\* HICON that is no icon any more.
SavedSize(h) == IF image[h] = NoBytes THEN 0 ELSE PngSize[image[h]]

\* What is sent after HIconToPNG, when it could create its stream.  The size is
\* stored before it is compared with the buffer's, and nothing is read then.
HIconToPNG(h) ==
    [size |-> SavedSize(h), bytes |-> IF SavedSize(h) > MaxFileSize THEN Undefined ELSE image[h]]

\* What is sent when it could not, or could not seek to its end.
NoStream == [size : InitialSize, bytes : {NoBytes}]

\* What is sent when Read fails, or reads less: the size is stored by then, and
\* sendIconToClient does not look at the -1 that HIconToPNG returns.
NotRead(h) == [size |-> SavedSize(h), bytes |-> Undefined]

ReadFails(h) == SavedSize(h) \in 1 .. MaxFileSize

\* Variant: the cache is asked the wrong way round.
ExistsNot(h) == h \notin cache
IconExistsInClientCache(h) == h \in cache

Send(h, png) ==
    /\ iconMap' = [iconMap EXCEPT ![h] = png]
    /\ cache' = cache \cup {h}

SendIconToClient ==
    /\ job.at = "send"
    /\ LET h == job.hicon IN
       \/ IconExistsInClientCache(h) /\ UNCHANGED <<cache, iconMap, history>>
       \/ ~IconExistsInClientCache(h) /\ Send(h, HIconToPNG(h)) /\ UNCHANGED history
       \/ /\ ~IconExistsInClientCache(h)
          /\ \E png \in NoStream : Send(h, png)
          /\ spoiled' = spoiled \cup {h} /\ UNCHANGED unread
       \/ /\ ~IconExistsInClientCache(h) /\ ReadFails(h)
          /\ Send(h, NotRead(h))
          /\ spoiled' = spoiled \cup {h} /\ unread' = unread \cup {h}
    /\ job' = [job EXCEPT !.at = "row"]
    /\ ServerStep /\ UNCHANGED rows

SendRow ==
    /\ job.at = "row"
    /\ rows' = [rows EXCEPT ![job.hwnd] = [hicon |-> job.hicon, image |-> job.image]]
    /\ job' = Idle
    /\ ServerStep /\ UNCHANGED <<cache, iconMap, history>>

Server == GetHICON \/ SendIconToClient \/ SendRow

-----------------------------------------------------------------------------
Unsent == [size |-> 0, bytes |-> Nothing]

\* Each application has an icon; no window says so yet.
Init ==
    /\ image \in {f \in [HICON \cup {Null} -> Images \cup {NoBytes}] :
                   \A h \in HICON \cup {Null} : f[h] = NoBytes <=> h = Null}
    /\ source = [w \in Windows |-> [p \in 1 .. 4 |-> Null]]
    /\ hung = {} /\ changes = 0
    /\ job = Idle
    /\ cache = {}
    /\ iconMap = [h \in HICON \cup {Null} |-> Unsent]
    /\ rows = [w \in Windows |-> NoRow]
    /\ spoiled = {} /\ unread = {}

Next ==
    \/ \E w \in Windows, p \in 1 .. 4, h \in Handles : SetIcon(w, p, h)
    \/ \E h \in Handles, i \in Images \cup {NoBytes} : ReplaceIcon(h, i)
    \/ \E w \in Windows : Hang(w) \/ Begin(w)
    \/ Server

Spec == Init /\ [][Next]_vars

\* The server's threads run; a window need never answer.
FairSpec == Spec /\ WF_vars(Server)

-----------------------------------------------------------------------------
(* Properties.                                                             *)

Sendable == Images \cup {NoBytes, Undefined}

\* The types.  The task of every row and of every picture has a HICON.
TypeOK ==
    /\ image \in [HICON \cup {Null} -> Images \cup {NoBytes}]
    /\ source \in [Windows -> [1 .. 4 -> Handles \cup {Null}]]
    /\ hung \subseteq Windows /\ changes \in 0 .. MaxChanges
    /\ job \in {Idle} \cup [at : {"get"}, hwnd : Windows, place : 1 .. 4]
             \cup [at : {"send", "row"}, hwnd : Windows, hicon : HICON,
                   image : Images \cup {NoBytes}]
    /\ cache \subseteq HICON
    /\ iconMap \in [HICON \cup {Null} -> {Unsent} \cup [size : Nat, bytes : Sendable]]
    /\ rows \in [Windows -> {NoRow} \cup [hicon : HICON, image : Images \cup {NoBytes}]]
    /\ spoiled \subseteq HICON /\ unread \subseteq HICON

\* As many bytes are sent as the header says, and they are of a picture that fits
\* the buffer.  Bytes that are of none, what lies in and behind the buffer, go out
\* in two cases: the picture is larger than the buffer, or its stream was made
\* and could not be read.  No destroyed icon and no stream that could not be made
\* leads to them.
BytesAreThePicture ==
    \A h \in HICON : LET png == iconMap[h] IN
        /\ png.bytes = NoBytes => png.size = 0
        /\ png.bytes = Undefined => png.size > MaxFileSize \/ h \in unread
        /\ png.bytes \in Images => png.size = PngSize[png.bytes] /\ png.size <= MaxFileSize

\* A row shows the icon its window had when it was listed, unless the icon was
\* destroyed or replaced, could not be converted, or is too large: the cache is
\* kept by HICON, and the rows of several windows share a picture.
RowShowsItsIcon ==
    \A w \in Windows :
        LET r == rows[w] IN
        r # NoRow /\ r.hicon \notin spoiled /\ PngSize[r.image] <= MaxFileSize
            => iconMap[r.hicon].bytes = r.image

-----------------------------------------------------------------------------
(* Why these hold: an inductive invariant.                                 *)

Intact == HICON \ spoiled

\* A HICON that was never destroyed, replaced or badly converted has its first
\* picture: the task that is sent has it, the rows have it, and so has the client
\* once the HICON is in the cache, where it is before any row that shows it.
IconInv ==
    /\ \A h \in Intact : image[h] \in Images
    /\ \A h \in Intact \cap cache : iconMap[h] = HIconToPNG(h)
    /\ job.at \in {"send", "row"} /\ job.hicon \in Intact => job.image = image[job.hicon]
    /\ job.at = "row" => job.hicon \in cache
    /\ \A w \in Windows : rows[w] # NoRow =>
          /\ rows[w].hicon \in cache
          /\ rows[w].hicon \in Intact => rows[w].image = image[rows[w].hicon]

-----------------------------------------------------------------------------
(* Liveness.                                                               *)

At(w, p) == job.at = "get" /\ job.hwnd = w /\ job.place = p

\* A window keeps the server waiting only while it hangs, or hangs again and
\* again, and not even then when its class has an icon.
TaskIsSent ==
    \A w \in Windows :
        /\ At(w, 1) ~> (job = Idle \/ []<>(w \in hung))
        /\ (At(w, 1) /\ source[w][1] # Null) ~> (job = Idle)

=============================================================================
