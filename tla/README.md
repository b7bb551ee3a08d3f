# RemoteTaskbar in TLA+

RemoteTaskbar shows the tasks of a Windows desktop on an Android phone, and opens and closes them
from there. The program is a Windows server in C++ (`src/RemoteTaskbarServer`), a DLL it loads into
other processes (`HookDLL`), and an Android client in Java (`src/RemoteTaskbarClient`). They share one
TCP connection. There are no tests in the repository and no locks in the code. This directory holds
TLA+ models of the parts that keep state, the TLC runs that check them, and proofs.

Paths below are relative to `src/RemoteTaskbarServer` (server) and
`src/RemoteTaskbarClient/src/com/isdp/remotetaskbarclient` (client).

## 1. The system

| Component | State | Operations | Talks to |
|---|---|---|---|
| Hook DLL (`HookDLL/HookDLL.cpp`) | the window that receives the messages, in a section shared by all processes | `hookEventProc`, install, uninstall | posts `WM_CBTHOOK` to the server's UI thread |
| `HookController` | the loaded DLL | `init`, `hook`, `unhook`, the destructor | the DLL, whose section every server process shares |
| Message loop (`src/main.cpp`) | the thread's queue | takes a message, calls `WindowManager` or the window procedure | all of the server |
| `WindowManager` | `_activeWindowTasks` (window to icon), `_clientCachedIcons` | `addWindowTask`, `removeWindowTask`, `updateWindowTaskTitle`, `refreshWindowTasksList`, `sendWindowTasksToClient`, `performWindowOpen`, `performWindowClose`, `reset` | called by the UI thread and by the receive thread; sends through `NetworkManager` |
| `NetworkManager` | `_server`, `state` | `startUp`, `disconnect`, `sendMessage`, callbacks `Server_Connected` and `Server_Recv` | `Server.cpp` |
| Sockets (`network/Server.cpp`) | `Server`: two sockets, `connected`, `recvBuffer`; two global callbacks | `Server_Create`, `Server_Start`, `Server_Close`, `Server_Destroy`, `Server_Send`, the accept thread, the receive thread | the network |
| `WindowControlGUI` | the button's label | the Connect button, `updateConnectButton` | `NetworkManager`, `WindowManager` |
| `IconUtil` | none | `GetHICON`, `HIconToPNG` | windows (`WM_GETICON`), GDI+ |
| `ClientThread` | the socket, the stream position | `run`: five kinds of frames; `requestActiveTaskList`, `signalWindowOpen`, `signalWindowClose`, `closeConnection` | the server; posts runnables to the Android UI thread |
| `TasksActivity`, `ListItemArrayAdapter` | `taskList`, `iconMap`, what is drawn | `addTask`, `removeTaskByHwnd`, `clearTaskList`, `updateItems`, `getTaskByHwnd`, taps, Back | `ClientThread` |
| `LoginActivity` | address and port | starts `TasksActivity` | - |
| `network/Client.cpp` | - | not called by anything | - |

Threads of the server: the UI thread (message loop, button, hook messages), and per start one accept
thread and one receive thread, which also executes the requests. Threads of the client: the client
thread, which reads frames, and Android's UI thread, which owns the list.

What is hard in it:

* **Two threads on `WindowManager`.** The receive thread clears, fills, iterates over and sends the map
  while the UI thread adds to it, removes from it and sends. `Server_Send` sleeps 100 ms after each
  frame (`SEND_DELAY`), so the windows of time are wide. The iterator can become invalid.
* **Start, accept and disconnect.** The accept thread and the receive thread start before `startUp` has
  set the state and registered the callbacks. `disconnect` frees a structure both threads hold.
* **A byte stream treated as messages.** One `recv()` is taken for one request. The buffer is reused
  and is dispatched again when `recv()` returns 0.
* **Two threads on the client's list.** Rows are added and removed by posted runnables, titles are set
  by the client thread.
* **Memory shared by processes.** The hook's destination is a variable that every server process can
  change, and it outlives a process that crashes while another runs.
* **Values that are used again.** A `HICON` may be destroyed and given to another icon; the cache is keyed by it.
* **Static variables on the phone.** `TasksActivity.instance`, `taskList` and `iconMap` belong to no activity, but
  activities are left, started twice and created again, and each has a thread of its own.
* **Events against state.** Titles are read when a frame is sent. Events are dropped while the state is
  not `CONNECTED`.

`PROJECT.json` lists these hazards line by line.

What makes each part correct:

* task list: when both threads rest, the client has each task of the map once, the map is the desktop,
  titles are current, and every row's picture precedes it;
* connection: what the UI thread sends goes to a live server with a client; no thread frees or writes to
  what another has freed; the state, the button and the accept thread agree; a client gets its list;
* requests: what is done is what was asked for, in that order, once;
* client: what is drawn is what the frames stand for; a list shows what its own connection said; what a tap
  opens is the row that was tapped;
* hook: a window event is posted once, to a server that listens, and no server that is gone keeps others from
  listening;
* icons: the bytes sent for a picture are that picture, and a row shows the icon of its window.

## 2. The modules

| Module | Models |
|---|---|
| `Protocol` | the frames from the server to the client (`Global.h` 36-40 and where each is built) |
| `TaskServer` | the task list server while one client is connected: desktop, DLL, message loop, `WindowManager` on two threads |
| `ClientView` | what a client that runs alone makes of a sequence of frames: the handlers of `ClientThread.run` as a fold; and which frames fit those before |
| `TaskMirror` | `TaskServer` with `ClientView`: the properties of the task list |
| `ViewProofs` | lemmas about `ClientView`: folding a sequence with any operator, lists in which rows are added, removed and renamed |
| `TaskMirrorProofs` | theorems about `TaskServer` and `TaskMirror` |
| `Session` | what a user of the server can rely on between "Connect" and "Disconnect": the abstract connection |
| `Connection` | `NetworkManager`, `Server.cpp`, the Connect button; several starts, several clients; shown to implement `Session` |
| `ConnectionProofs` | theorems about `Connection`, one of them that it implements `Session` |
| `RequestStream` | requests as ints on a stream, `recv()`, `Server_Recv` |
| `RequestStreamProofs` | theorems about `RequestStream` |
| `TaskClient` | the client's two threads, the queue between them, the list and the drawing |
| `TaskClientProofs` | theorems about `TaskClient` |
| `Activities` | the life of the client: activities, their threads and sockets, static variables, taps |
| `ActivitiesProofs` | theorems about `Activities` |
| `HookInstall` | several server processes and the DLL's shared section |
| `HookInstallProofs` | theorems about `HookInstall` |
| `IconTransfer` | a picture from the window's icon to the client's row: `GetHICON`, `HIconToPNG`, `sendIconToClient`, the cache |
| `IconTransferProofs` | theorems about `IconTransfer` |
| `MC...` | the constants of the runs |

How they fit together. `ClientView!Replay` is the abstract client: `TaskMirror` uses it to say what the server's frames mean,
and `TaskClient` checks the two-threaded client against the same definition. `ClientView!Fits` is the contract
between the two halves: `TaskMirror!FramesFit` says that the server sends only frames that fit (as long as no hook
message was handled around a listing), and `TaskClient` accepts just these from its server. So the server's half
(frames mean the right list) and the client's half (the list drawn is what the frames mean) meet, and neither has to
be composed with the other's threads. The other modules take one assumption of these two each and look behind it:
`HookInstall` behind "each event is posted once to this server", `IconTransfer` behind "a picture is a `HICON`",
`Activities` behind "one activity, one thread, one connection", `Connection` behind "one client is connected",
`RequestStream` behind "a listing was asked for".

### How the models correspond to the code

**TaskServer.** `active` is `_activeWindowTasks`, `cached` is `_clientCachedIcons`, `msgQueue` is the UI
thread's queue, `ui` and `rx` hold each thread's program counter and locals, and `wire` is every frame
sent. A step is a call on one container or the sending of one frame. This is as fine as the properties
need: between two such calls a thread touches only its own locals and the windows. `refreshWindowTasksList`
is `RefreshClear`, `EnumWindowsProc`, `EnumWindowsDone` and a loop of `RefreshIcon`, `RefreshSendIcon`,
`RefreshCacheIcon`. `sendWindowTasksToClient` is `SendTasksSize` (line 145), `SendTasksRow`, `SendTasksDone`.
`removeWindowTask` finds, erases and sends in three steps, and `GetHICON` is a step of its own between
`RefreshNext` and `RefreshGotIcon`, because the window's answer to WM_GETICON may take any time or never come.
If the UI thread inserts or erases while the receive thread holds an iterator, the behaviour of the
program is undefined: the iteration may go on with any row, one it has seen included (`Reachable`), end early
(`LoopEnds`), or kill the process (`alive`). The same holds for the two uses of an entry that is gone: `task.second` written
after the UI thread has erased the entry (`RefreshGotIcon`), and `erase` of an iterator which the receive thread's
`clear()` has invalidated (`RemoveStale`): nothing happens, another entry is hit, or the process dies. A window shown is one `IsAltTabWindow` accepts but for
its title, which the hook tests (`HasTitle`). The desktop raises one event
per change, and `SubObjectEvents` adds the HIDE of a caret or another sub-object. The history variable `interfered`
says that a hook message was being handled during the last listing, or was dropped once the client was connected or a
listing had been made; the next listing clears it. `misjudged` holds the windows for which the DLL posted nothing or the wrong thing: their title was empty
when they were shown, or a sub-object's event was taken for theirs. The About box (`AboutBox`) is a message loop of its
own, started from the button's handler: a hook message it takes goes to the window procedure and is lost.

**Connection.** `block` is the memory of the `Server` structures. A block that was freed can be allocated
again (`Live`, `Touch`), so a late thread can write to the structure of a later start. `acceptor[g]` and
`receiver[g]` are the threads of start `g`; each keeps its pointer in a local. `Server_Start` is one step
up to the creation of the threads, and the assignments that follow it are steps of their own. The accept thread
reads the state and writes the label in two steps, the second when the UI thread is back at its message loop (WM_SETTEXT is
sent to it). `Server_Destroy` also nulls `recvBuffer`; a receive thread that gets there later follows the null pointer
(`RecvDispatch`), and one that sends when `_server` is null dies of that (`RecvSend`). `early` records that a client was
accepted while `startUp` ran, `overtaken` that a click came between the two steps of a label. `PortTaken`
lets `bind()` fail.

**RequestStream.** A request is one int or two, an int is `IntSize` bytes, and `recv()` returns any number of bytes up to
`BufferSize`. It may end inside an int (`taken` is how far), and the buffer is overwritten byte by byte, so that the int
which `Server_Recv` reads can be made of two (`Arriving`). `Zero` is what `calloc` put into the buffer. The model
keeps the first two ints of the buffer, which are all that is read. Rows to tap on may come before the list, with an
ADD_TASK. `hasty` records that the client sent a request before the last one was served, `split`
that a `recv()` ended inside a request, `torn` that one ended inside an int.

**TaskClient.** `uiQueue` holds the runnables posted to the UI thread, `posts` those the client thread is
about to post for the frame it has read. `Walk` is `getTaskByHwnd` row by row; a change of the list under it is a
`ConcurrentModificationException`, and the thread ends, as in the code's `catch` around the loop.
`dirty` and `drawn` are the adapter's notification and the rows last returned by `getView`. `overlapped`
records that an update was read while runnables of earlier frames were waiting, `torn` that rows were drawn in the middle
of a `put` into the `HashMap`, when a `get` may miss any key. The server sends any frame that fits
(`ServerFrames`, an assumption of the model with no lines of its own, as `ClientView!Fits`).

**Activities.** Activities are numbered as they are created; `instance` is the static variable, `stack` what is on the
screen. `Connect` and `AssignSocket` are two steps because Back may come between: then there is a connection but
no socket to close. Back is two steps: `BackDown` is `onKeyDown`, which closes the socket, and `BackUp` the key up, on which the
framework finishes the activity; it may come late or not at all, and until then a visible activity has a closed socket.
A runnable goes to the adapter it was posted for (`on`), and looks rows up in the list of
`instance`, which is what `taskList` then refers to. `Tappable` is the framework's rule that a grid whose data has
changed ignores taps until it is laid out. `covered` records that an activity was created over another (a double tap),
`mixed` that one was created while the thread of another lived. `Recreate` is the system's, for a change of the configuration.

**HookInstall.** `hooks` holds the servers with a hook, `dest` and `handle` are the shared section. A process goes from
`LoadLibrary` through the four steps of `installEventHook` (test, set the hook, store the handle, store the destination) to its message loop, then through `unhook`, `~HookController`
and `FreeLibrary`, and may be killed anywhere. The section lasts until no process has the DLL loaded.

**IconTransfer.** One window is dealt with at a time (the races are `TaskServer`'s). `image` is what the system has behind
a `HICON`: an application may destroy an icon and the value may come back. `job.place` is which of the five places
`GetHICON` is asking; two need an answer of the window. `png.size` and `png.bytes` are kept apart, because
`HIconToPNG` stores the size before it compares it with the buffer's and before it reads the stream, and nobody looks at
its result. So two failures differ: without a stream nothing is announced (`NoStream`), without a `Read` the size is
announced and bytes nobody wrote are sent (`NotRead`, recorded in `unread`). `spoiled` records the icons destroyed, replaced or not converted.

Abstracted everywhere: window handles, icons and titles are model values, integers stay small, wording and logging are left
out. Titles longer than 253 characters (`MAX_WINDOW_TITLE_LENGTH` is 255), which are cut, and byte order are not modelled.

## 3. The runs

| Run | Question | Instance |
|---|---|---|
| `mirror` | do the client's list, the map and the desktop agree, do pictures come first, does a second listing repair what the first got wrong? | 2 windows, 1 icon, with and without a title, sub-object events, 2 changes, 2 listings |
| `relist` | is a listing answered, do pictures follow? | 1 window, 2 icons, 2 changes, 2 listings, fairness |
| `connection` | state, server, threads and label over reconnects; is it a `Session`? | 2 starts, 2 clients, 1 block, port free or taken |
| `late_client` | does a client that comes when the server waits get its list, also with a receive thread of an earlier start about? | 2 starts, a client each, 1 block, port free or taken, fairness |
| `requests` | is what is executed what was asked for? | 2 windows, 3 taps, ints of 2 bytes, 6 bytes per `recv()`, fairness |
| `client` | does the phone show what the frames say? | 2 windows, 2 icons, 2 titles, 4 frames, fairness |
| `activities` | whose frames does a list show, what does a tap do, does Back end the thread? | 2 activities, 2 windows, 2 frames, fairness |
| `hooks` | who gets the events of the windows, and who keeps others from getting them? | 3 servers, fairness |
| `icons` | what is sent for an icon, and what do the rows show? | 2 windows, 1 handle and the default one, a small and a large picture, 2 changes, fairness |

Three runs show where the code does not do what the documentation says:

| Run | Violated | What happens |
|---|---|---|
| `dropped_events` | `ClientShowsCurrentTasks` | The list is served as soon as `connected` is set. A hook message handled before `Server_Connected` sets the state is dropped, so the client's list is wrong and stays so. |
| `lost_callback` | `SaysConnected` | A client is accepted before `startUp` ends. `Server_Connected` is not registered yet, or its CONNECTED is overwritten with AWAIT_CLIENT. The button stays at "Connecting...", and in that state it does nothing. |
| `phantom_close` | `OneCloseForOnePress` | The user closes a window and leaves. `recv()` returns 0, and the buffer, which still holds the close, is executed again. |

Properties of the passing runs, by what they rule out:

* `IconBeforeAdd`, `ListReadable`, `RowIconFollows`: rows without a picture. `getView` looks the picture
  up when it draws, and nothing draws the row again when the picture arrives. `ListReadable` also says that the header
  announces as many rows as there are; another number puts the client out of step.
* `ClientMirrorsServer`, `TitlesConverge`, `ServerTracksDesktop`: the chain from client to desktop. Each
  has the condition `~interfered`; section 5 says what happens without it. The condition is about the last listing
  only, so they also say that a listing repairs whatever went wrong before.
* `FramesFit`: what `TaskClient` assumes of its server.
* `RequestIsAnswered`: a listing ends although the map changes under it, unless a window never answers WM_GETICON, or the
  undefined iteration kills the process or goes round for ever.
* `ServerMatchesState`, `AcceptorOwnsServer`, `NoDoubleFree`: the unlocked accesses to `_server` from the UI
  thread and the accept thread are safe. They are because the button does nothing in state AWAIT_CLIENT.
  `LabelAgrees`, `ListSurvives` relate the label and the map to the state.
* `ImplementsSession`: `Connection` implements `Session` under a refinement mapping that reads the phase off the
  places of the threads, not only off `netState`. A session has one client, only that client is told the tasks,
  a session that never announces its client is stuck for good, and threads of an earlier start cannot change the
  session of a later one.
* `LateClientIsServed`: a client that connects after `startUp` gets its list, from the thread of its start or from an earlier
  one that took its request, unless it leaves, is cut off, is not the first, or a window keeps that thread waiting.
* `ActsOnNamedWindows`, `NothingInvented`, `PacedRequestsServed`, `ThreadEnds`: what can happen to requests
  when TCP joins them and cuts them. Whatever requests are joined or cut between ints, a window nobody named is never acted
  on; it takes a cut inside an int (`torn`). `ThreadEnds` excuses a thread that waits for a window for ever.
* `ListFollowsFrames`, `TitlesFollowFrames`, `PicturesDrawn`, `FramesAreShown`: the client's two threads.
* `ListsItsOwn`, `TapHitsRow`, `TapReachesServer`, `BackEndsThread`: the client's life. The conditions `~covered` and
  `~mixed` are needed (section 5).
* `OneHook`, `AloneIsHeard`, `QuitFreesSection`: the shared section works as a lock only for servers that are not
  in `installEventHook` together; a server that installed alone keeps the events whatever others do; a server that
  quits hands the section on while others still run.
* `BytesAreThePicture`, `RowShowsItsIcon`, `TaskIsSent`: only a picture above the buffer's size, or one whose stream could
  not be read, is sent as bytes nobody wrote; rows show what they should unless the icon was destroyed, replaced or failed; only a window that
  hangs (for good, or again and again) holds the server up, and not when its class has an icon.

### Why the bounds are enough

The races of the task list need one listing, one handler, and one change of the desktop in between; a second change lets a
window go and come back, two windows let the iteration meet a row that is new and one that is gone, and two windows
with one icon let both threads want to send the same picture. The second listing meets the map and the
cache of the first. `relist` has one window because liveness is checked without symmetry; its two icons let a
window change its icon between listings. For `Connection` two starts are
the smallest case where a thread outlives its server and meets the memory of the next one, and one block
makes sure that memory is used again. Three taps leave an old request in the buffer, then a joined
one, then a cut one. An int of two bytes can be cut in one place, the three ints of the buffer are more than a request,
and one of the two windows is the other's first byte followed by a zero, so that a torn HWND can be a window. Four frames reach icon, list or add, update and remove. Two activities are
the smallest case where a thread meets the static variables of another; two frames let one be under way when the second
activity is created. Three servers: one that runs, one that races or crashes, and one that is started afterwards. One `HICON` of an
application is enough for it to be shared, destroyed and come back. Changes, listings, starts, taps,
frames and activities are bounded by `MaxChanges`, `MaxRequests`, `MaxStarts`, `MaxTaps`, `MaxFrames` and `MaxActivities`, each a guard
of the action that counts. The proofs hold for every value of them.

Two runs with fairness have an action constraint, which keeps TLC within minutes; neither stops a fair action.
`OneClientEach` (`late_client`) restricts what users do: each client comes to the start of its number, the first is cut off by
Disconnect or stays but does not leave of itself, and the last connection is not ended. The client of the second start then
meets the threads of the first in every place where Disconnect can have left them, which is the case that matters;
behaviours in which the first client has also left are not looked at by this run. `FirstIsW1` (`activities`) gives the window that is named first the name w1; any behaviour is
one of these with its windows renamed. The largest instances have 2.1 million states (`mirror`), 1.2 million (`requests`) and
0.9 million (`relist`, `activities`).

`CHECK_DEADLOCK FALSE` is set where a cfg has it because the system may stop: users stop clicking, windows stop
changing, and the bounds are reached. `icons` does without it: a window can always hang and recover.

### Fairness

Weak fairness is assumed of the steps that a thread takes of itself, which the operating systems schedule, and of nothing else.
Windows need not change, users need not tap, click or leave, servers need not be started, quit or send. Above all, no window
has to answer a message that is sent to it: `SendMessage` returns when the window's thread has dealt with the message, and
with WM_GETICON (`IconUtil.cpp:199`), WM_CLOSE (`WindowManager.cpp:233`) and `SetWindowPos` that may be never. The
steps that wait for it are outside the fair actions, and every liveness property names the wait as a way out:

| Module | Fair | Not fair |
|---|---|---|
| `TaskServer` | `ServerConnected`, `Pump`, `Proceed` | `AddInsert`, `RefreshGotIcon` (WM_GETICON), `RefreshClear`, `Desktop`, `AboutBox` |
| `Connection` | `Handler`, each `Accept(g)`, each `Serve(g)` while its structure is live | `RecvRefresh` (WM_GETICON), clicks, clients |
| `RequestStream` | `Receive` | `Answered` (all three kinds), the client |
| `IconTransfer` | `Server`, whose `GetHICON` is not enabled while the window hangs | `Hang` and its end, icons that change |
| `TaskClient` | the client thread, the UI thread | the server's frames |
| `Activities` | each client thread by itself | the user, the system, the UI thread, the server's `accept()` |
| `HookInstall` | what a started server does of itself (`Proceed(s)`) | starting, quitting, killing |

A thread that polls a freed structure is not assumed to see any particular value in it, and an iteration that has gone
through an invalid iterator is not assumed to visit a row only once: `RequestIsAnswered` lets it go round for ever.

## 4. The proofs

All proofs are of the specifications the runs check, for every value of the constants, from the named
assumptions of each module only (bounds in Nat, special values outside the sets, finite sets of windows and rows).
Every safety property and every action property of the passing runs is proved; an inductive invariant is in the
module whose properties it proves, under "Why these hold", and was checked by TLC before it was proved.

**`TaskMirrorProofs`** (`TaskServer` with `TaskMirror`).

* `Typing`: `Spec => []TypeOK`.
* `PictureBeforeTask`: `Spec => []IconBeforeAdd`. The step that sends ADD_TASK needs to know that the picture went out:
  `IconInv` adds that every cached icon was sent and that a thread past `sendIconToClient` has sent its icon. Both
  threads fill the cache only after sending, and `wire` only grows.
* `Mirroring`: `Spec => [](TypeOK /\ MirrorInv)`, from which `ListsAreReadable`, `ClientMirrors`, `TitlesAreCurrent`,
  `ServerTracks` and the action property `SentFramesFit` follow. `ClientMirrorsServer` and `ServerTracksDesktop` speak of
  states in which both threads rest, and say nothing of the way there. `MirrorInv` does, in parts:
  * `QueueInv`, of the two queues alone: what is on the way does not end in a task for a window that is gone, unless its HIDE
    is still to come, nor take out the task of one on the screen, unless the DLL misjudged it;
  * `PhaseInv`: an undisturbed listing leaves the UI thread between two messages;
  * `TrackInv`: a window that is gone and is still a task has its HIDE or DESTROY on the way, one on the screen has been
    visited by the listing, is announced, or was misjudged;
  * `CacheInv`, `ListingInv`: the icons sent are those cached or about to be, and the rows of an undisturbed listing are
    the windows it visited, each once;
  * `ClientInv`: the client, which is the replay of `wire`, shows `Told`: the map less the task that the UI thread has
    added and not sent, with the task that it has removed and not sent; titles are current or a RENAME is on its way.

**`ConnectionProofs`** (`Connection`).

* `ConnectionTyping`, `SendsToServer`, `AcceptorSafe`, `DestroyedOnce`: typing and three safety
  properties from one invariant, `TypeOK /\ ServerInv /\ ServingInv`. `ServerInv` ties the UI thread's
  place to whether there is a server and what the state may be. `ServingInv` says that the accept
  thread of the last start has work left only while the state is not CONNECTED. As `disconnect` is
  reached only from CONNECTED, the two threads never meet on the structure.
* `SessionImplemented`: `Spec => ImplementsSession`, the refinement. `SessionInv` adds to the invariant
  above that nobody is the client before `accept()` returns nor after `Server_Close`. With it, each action maps to one of
  `Session` or to a stutter: `ServerStart` to `Connect`, `AcceptReturns` to `Accept`, `AcceptCallback` to `Announce` or
  `Miss`, `AcceptFails` to `Miss`, a `RecvSend` that reaches a client to `Tell`, `ServerClose` to `Disconnect`.
* `LabelIsRight`: `LabelInv` adds that, unless a client came early, an accept thread announces its client only to a UI thread
  that has left `startUp`, so that of the two writers of the label the callback is the last.
* `ListIsKept`: `TasksInv` adds that until `reset()` is over the receive thread of this start waits for a client: a list
  is sent only after the map was cleared, never before.

**`RequestStreamProofs`** (`RequestStream`).

* `RequestTyping`, `OnlyNamedWindows`: `NamedInv` adds to the types that, as long as no `recv()` has ended inside an int, the
  stream and the buffer hold only named windows, which a `recv()` of whole ints preserves whatever it copies.
* `Requests`: `Spec => [](TypeOK /\ RequestInv)`, from which `DoesAsAsked` and `WaitingIsServed` follow. `Cut(k, p)` says that
  what is in the stream are the requests after the k-th, and where each begins; a `recv()` of n ints that cuts none
  moves k to the request that begins behind them. `ReceivedInv` says that the first of the requests just received is
  in the buffer and that only earlier ones were done; `AgainInv` that the end of the stream is served once;
  `PacedInv` that a client that waits has one request under way, in the stream or in the buffer.

**`IconTransferProofs`** (`IconTransfer`).

* `IconTypes`, `BytesSent`: typing, and `BytesAreThePicture`, which is inductive with it: only `SendIconToClient` changes what
  the client has, and of the four things it may send two are no picture: one above the buffer's size and one not read.
* `RowsShowIcons`: `IconInv` says that an icon that was never destroyed, replaced or badly converted has its first picture
  in the task that is sent, in the rows, and, once the `HICON` is in the cache, on the client; and that it is in the
  cache before any row shows it.

**`TaskClientProofs`** (`TaskClient`).

* `Client`: `Spec => [](TypeOK /\ ClientInv)`, from which `ClientTyped`, `ListFollows`, `PicturesFirst` and `TitlesFollow`
  follow. `StreamInv`: every frame sent fits those before it. `PictureInv`: a runnable that adds a row has its picture in the map.
  `ListFollowsFrames` is inductive because running the queued runnables after a frame's handler and replaying the frame
  give lists with the same windows in the same places. `TitleInv` says that a walk that nothing overlaps looks through the list
  which the frames before the update stand for and has found none of the window's tasks yet; `ObjectInv`, that no
  two rows are one `Task` object, so that the title is set in one row. `DrawnInv`: rows not due to be drawn again are drawn.
* The rows are assumed to be finitely many (`IsFiniteSet(Rows)`): a handle is an `int` and a title has at most 255 characters. The
  frames, their order and their number are not bounded by it.

**`ActivitiesProofs`** (`Activities`).

* `Life`: `Spec => [](TypeOK /\ LifeInv)`, from which `LifeTyped`, `ListsOwnRows`, `TapsHit` and `TapsArrive` follow.
  `OneThreadInv`: unless an activity was created while the thread of another lived, the only living thread is that of
  `instance` and all runnables under way are for its adapter. `ScreenInv`: unless one was created over another, only
  `instance` shows, and its rows are laid out unless it has changed. `AcceptInv`: a connection waits once, and
  a thread that has read a frame, or whose frames are in some list or on their way, was accepted.

**`HookInstallProofs`** (`HookInstall`).

* `HookTyping`, `EventsOnce`, `AloneKeepsEvents`: typing, `OneHook` and `AloneIsHeard`. `LockInv`: as long as no
  two servers overlapped, the section is a lock, a server past the test found it free, and a hook is the holder's or of the
  server about to take it. `AloneInv` does not need that condition: a server that loaded the DLL first found the section
  empty, and afterwards the others find it taken.

**Lists and induction** (`ViewProofs`). What a client makes of the frames is a fold, and a statement about
every sequence of frames needs induction. The library's induction theorems take an operator as a parameter, which the provers
cannot instantiate; `ViewProofs`, whose statements are lemmas, takes another way. `Smallest`: a nonempty set of numbers has a smallest, since
their order is well-founded. `Induction` takes the smallest exception. From it follow, for a constant operator `Op` that each
instance gives (`Apply` for frames, `Run` for runnables), `FoldAppend` (one more element is applied last),
`FoldConcat` (a fold can be interrupted) and `FoldRelated` (a relation that the operator keeps is kept by the fold).
The rest of `ViewProofs` is about one frame or runnable: what it does to a list that shows each window once, and that
two lists of the same windows stay so.

Only model-checked: the liveness properties (`RequestIsAnswered`, `RowIconFollows`, `LateClientIsServed`, `ThreadEnds`,
`FramesAreShown`, `BackEndsThread`, `QuitFreesSection`, `TaskIsSent`), which are out of the prover's reach; and the three
runs that end in a violation.

## 5. What the conditions of the properties stand for

These are behaviours of the code that TLC shows when a condition of a property is removed. No line of the
documentation says otherwise, so they have no run of their own.

Task list (`~interfered`, `misjudged`):

* A window that does not answer WM_GETICON keeps the receive thread, and on the UI thread everything, waiting for as long.
* A window appears during a listing. The listing includes it, and then the UI thread, which looked it up before, sends
  ADD_TASK: the client shows it twice.
* With a hook message in the middle of a listing, the header's row count and the rows disagree, and
  more rows than announced overflow the buffer allocated at `WindowManager.cpp:162`.
* While the About box is open, hook messages go to the window procedure and are lost.
* A window shown without a title never becomes a task: SHOW is filtered, the later RENAME does not add.
* The HIDE event of a caret removes the task of its window, because `idObject` is not tested.
* A title that becomes empty is not propagated, the exception in `TitlesConverge`.

Connection (`early`):

* A request that arrives before `Server_OnRecv` is registered is discarded.
* With the port taken, `accept()` fails at once and the server stays in AWAIT_CLIENT, in which the button does nothing:
  the session of `Session` is "stuck".
* Nothing leaves CONNECTED when the client leaves: `Session` has no action for it.
* After `disconnect`, a receive thread in the middle of a request goes on with a freed structure and
  sends through a null `_server`, or to the client of the next start. A TODO in `NetworkManager.cpp:79` concedes
  the point for the destructor.

Client (`overlapped`, `torn`, `covered`, `mixed`):

* ADD_TASK then UPDATE_TASK: the client thread looks the task up before the UI thread has added it, and the new title is
  lost; or the list changes under `getTaskByHwnd`, and the exception ends the client thread.
* After a double tap on Connect and one Back, the visible activity is not `instance`: a tap looks the position up in the
  other activity's list, and the X sends on the other's connection.
* Back before the thread has assigned `socket` closes nothing. The thread goes on, may be the one client that the server
  accepts, and fills the list of the activity created next. An activity created again by the system leaves
  its thread behind in the same way.

Hooks (`overlapped`, `crashed`, `alone`):

* Two servers in `installEventHook` at once set two hooks. The events of both go to the destination stored last, each twice, and
  the handle that is stored last may be the other's, so that neither can remove its hook.
* A server killed while another has the DLL loaded leaves its window in the section: servers started afterwards install
  nothing and never get an event, until all of them are gone.

Requests (`torn`, `split`, `hasty`):

* A `recv()` that ends inside an HWND leaves bytes of an earlier int behind the new ones, and `Server_Recv` reads the two as
  one HWND, which may be a window that the client has not named (`ActsOnNamedWindows` without `~torn`).
* Of several requests in one `recv()` only the first is executed.

Icons (`spoiled`, `unread`, size):

* A picture above 8000 bytes is announced with its size and sent from a buffer it was never copied to; so is one whose
  stream cannot be read.
* An application that destroys an icon and gets the same `HICON` for a new one shows the old picture, until `reset()`.

## 6. Not modelled, and the plan

Not modelled: `Client.cpp` (not called), the build files, the window's
creation and text area, the CBT hook of the DLL (nothing installs it), `LoginActivity`'s address and preferences, GDI+'s conversion of pixels and
`GetEncoderClsid`, and the few instructions in which `WinMain` deletes its objects (`main.cpp:74-79`) while the accept
and receive threads still run, after which the process ends. `PostMessage` into a full queue (10 000 messages) is out of a small model's reach.

Left to do:

1. the abstract client as a specification of its own, which applies one frame at a time, and the theorem that `TaskClient`
   implements it with its list and the runnables under way (`ListFollowsFrames` is the mapping);
2. the two halves joined: that the frames `TaskMirror` sends while nothing interfered are frames that `TaskClient` accepts
   (`SentFramesFit` is the step of it);
3. `QuitFreesSection` without its liveness: that a server past `unhook` has left no hook and no destination behind;
4. what stays proved when a condition is dropped: how long a list that was interfered with can stay wrong.

## 7. Running it

    tlc -workers 2 -config TaskMirror.cfg MCTaskMirror.tla
    tlapm ConnectionProofs.tla
    tlapm TaskMirrorProofs.tla

Each `.cfg` begins with a comment that says what it is for; `PROJECT.json` maps every definition to the lines it models.
