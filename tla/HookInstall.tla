----------------------------- MODULE HookInstall -----------------------------
(***************************************************************************)
(* The WinEvent hook of the server processes of one desktop.               *)
(*                                                                         *)
(* Every server loads HookDLL.dll, whose section .SHARE all of them share: *)
(* msgRedirectDestination, the window that hookEventProc posts to, and     *)
(* hookEventHandle.  installEventHook takes the section like a lock: it    *)
(* tests the destination, sets the hook, stores the handle and then the    *)
(* destination, with nothing to make the steps one.  Nobody reads what     *)
(* installEventHook and HookController::init return.                       *)
(*                                                                         *)
(* The hook runs out of context: its callback is called in the server that *)
(* has set it.  A callback of any server posts to the shared destination.  *)
(***************************************************************************)
EXTENDS Naturals, FiniteSets

CONSTANTS
    Servers,   \* the server processes; each is started once
    Null       \* the NULL of HWND and HWINEVENTHOOK

ASSUME HookAssumption == Null \notin Servers /\ IsFiniteSet(Servers)

VARIABLES
    dest,        \* msgRedirectDestination: the server whose window it is, or Null
    handle,      \* hookEventHandle: the server that has set the hook, or Null
    hooks,       \* the servers with a hook in the system
    pc,          \* where WinMain of each server is
    alone,       \* history: the servers that met no other, and no failure, in installEventHook
    overlapped,  \* history: two servers were in installEventHook at once
    crashed      \* history: a server has died without removing its hook

section == <<dest, handle>>
history == <<alone, overlapped, crashed>>
vars    == <<section, hooks, pc, history>>

-----------------------------------------------------------------------------
Loaded     == {s \in Servers : pc[s] \notin {"new", "gone"}}
Installing == {s \in Servers : pc[s] \in {"install", "hook", "store", "set"}}

Goto(s, place) == pc' = [pc EXCEPT ![s] = place]

At(s, from, to) == pc[s] = from /\ Goto(s, to)

\* The last process that unloads the DLL takes the section with it.
SectionKept == UNCHANGED section

\* Variant: the section outlives the processes.
SectionStays(s) == SectionKept

SectionAfter(s) ==
    IF Loaded \subseteq {s} THEN dest' = Null /\ handle' = Null ELSE SectionKept

\* Variant: a hook outlives its process.
HooksStay(s) == hooks

HooksWithout(s) == hooks \ {s}

Leave(s) ==
    /\ Goto(s, "gone")
    /\ SectionAfter(s)
    /\ hooks' = HooksWithout(s)
    /\ alone' = alone \ {s}

-----------------------------------------------------------------------------
(* HookController::init and hook.                                          *)

\* LoadLibrary: whoever is about to install is not alone any more.
LoadLibrary(s) ==
    /\ At(s, "new", "install")
    /\ alone' = (alone \ Installing) \cup (IF Loaded = {} THEN {s} ELSE {})
    /\ UNCHANGED <<section, hooks, overlapped, crashed>>

\* The DLL is not found.  Nobody looks at the result of init, and hook() calls
\* the function pointer that the constructor has not set.
InitFails(s) ==
    /\ At(s, "new", "gone")
    /\ UNCHANGED <<section, hooks, history>>

\* Variant: the destination is not tested.
AlwaysFree == TRUE

SectionFree == dest = Null

\* installEventHook: the test.
TestDestination(s) ==
    /\ pc[s] = "install"
    /\ Goto(s, IF SectionFree THEN "hook" ELSE "running")
    /\ overlapped' = (overlapped \/ (SectionFree /\ \E r \in Servers : pc[r] \in {"hook", "store", "set"}))
    /\ UNCHANGED <<section, hooks, alone, crashed>>

\* installEventHook: SetWinEventHook, which may fail.
SetWinEventHook(s) ==
    /\ At(s, "hook", "store")
    /\ \/ hooks' = hooks \cup {s} /\ UNCHANGED alone
       \/ hooks' = hooks /\ alone' = alone \ {s}
    /\ UNCHANGED <<section, overlapped, crashed>>

\* installEventHook: its result is stored in the section.
StoreHandle(s) ==
    /\ At(s, "store", "set")
    /\ handle' = IF s \in hooks THEN s ELSE Null
    /\ UNCHANGED <<dest, hooks, history>>

\* installEventHook: the handle is read back from the section.
SetDestination(s) ==
    /\ At(s, "set", "running")
    /\ dest' = IF handle # Null THEN s ELSE dest
    /\ UNCHANGED <<handle, hooks, history>>

-----------------------------------------------------------------------------
(* WinMain after its loop: unhook(), and again in ~HookController.         *)

Quit(s) ==
    /\ At(s, "running", "unhook")
    /\ UNCHANGED <<section, hooks, history>>

\* uninstallEventHook: the test and UnhookWinEvent, which removes only a hook
\* of the thread that calls it.  WinMain calls it twice; the second call never
\* finds a hook to remove.
Uninstall(s, from, next) ==
    /\ pc[s] = from
    /\ IF dest = s /\ handle = s /\ s \in hooks
       THEN hooks' = HooksWithout(s) /\ Goto(s, "unhooked")
       ELSE UNCHANGED hooks /\ Goto(s, next)
    /\ UNCHANGED <<section, history>>

Unhook(s)           == Uninstall(s, "unhook", "delete")
DeleteController(s) == Uninstall(s, "delete", "free")

\* Variant: the destination stays.
Kept == dest

Freed == Null

\* uninstallEventHook: the destination is cleared.
ClearDestination(s) ==
    /\ At(s, "unhooked", "delete")
    /\ dest' = Freed
    /\ UNCHANGED <<handle, hooks, history>>

FreeLibrary(s) ==
    /\ pc[s] = "free"
    /\ Leave(s)
    /\ UNCHANGED <<overlapped, crashed>>

\* The process is killed: the system removes its hook, the section stays as
\* it is for the others.
Crash(s) ==
    /\ s \in Loaded
    /\ Leave(s)
    /\ crashed' = TRUE
    /\ UNCHANGED overlapped

-----------------------------------------------------------------------------
Init ==
    /\ dest = Null /\ handle = Null /\ hooks = {}
    /\ pc = [s \in Servers |-> "new"]
    /\ alone = {} /\ overlapped = FALSE /\ crashed = FALSE

\* What a started server does without its user.
Proceed(s) ==
    \/ TestDestination(s) \/ SetWinEventHook(s) \/ StoreHandle(s) \/ SetDestination(s)
    \/ Unhook(s) \/ ClearDestination(s) \/ DeleteController(s) \/ FreeLibrary(s)

Next == \E s \in Servers : LoadLibrary(s) \/ InitFails(s) \/ Proceed(s) \/ Quit(s) \/ Crash(s)

Spec == Init /\ [][Next]_vars

\* A started process runs; nobody has to start one, to quit or to kill it.
FairSpec == Spec /\ \A s \in Servers : WF_vars(Proceed(s))

-----------------------------------------------------------------------------
(* Properties.                                                             *)

Places == {"new", "install", "hook", "store", "set", "running", "unhook", "unhooked",
           "delete", "free", "gone"}

\* The types.  Only a loaded server has a hook: none survives its process.
TypeOK ==
    /\ dest \in Servers \cup {Null} /\ handle \in Servers \cup {Null}
    /\ pc \in [Servers -> Places]
    /\ hooks \subseteq Loaded /\ alone \subseteq Loaded
    /\ overlapped \in BOOLEAN /\ crashed \in BOOLEAN

\* installEventHook keeps the hooks to one, so that a window event is posted
\* once: whatever servers start, quit or crash, two hooks are in the system
\* only after two servers were in installEventHook at once.
OneHook == overlapped \/ Cardinality(hooks) <= 1

\* Why: as long as no two have been in installEventHook at once, the section
\* is a lock.  A server past the test found it free, a hook is the holder's or
\* that of the server about to take the section, and the server between
\* UnhookWinEvent and the clearing holds it, without a hook.  This is inductive.
LockInv ==
    \/ overlapped
    \/ /\ \A s \in Servers : pc[s] \in {"hook", "store", "set"} =>
             dest = Null /\ \A r \in Servers \ {s} : pc[r] \notin {"hook", "store", "set"}
       /\ \A s \in hooks : dest = s \/ pc[s] = "store" \/ (pc[s] = "set" /\ handle = s)
       /\ \A s \in Servers : pc[s] = "unhooked" => dest = s /\ s \notin hooks

Hears(s) == dest = s /\ s \in hooks

\* A server that was the only one while it installed its hook gets the events
\* as long as it runs, whatever other servers do later, whatever crashes and
\* races there were before it.
AloneIsHeard == \A s \in alone : pc[s] = "running" => Hears(s) /\ handle = s

\* Why: it found the section as no process had used it, and once it holds it,
\* the others find it taken.  This is inductive, whatever LockInv says.
AloneInv ==
    /\ Loaded = {} => dest = Null /\ handle = Null
    /\ \A s \in alone :
         /\ pc[s] \in {"install", "hook", "store", "set"} => Loaded = {s} /\ dest = Null
         /\ pc[s] \in {"store", "set"} => s \in hooks
         /\ pc[s] = "set" => handle = s
         /\ pc[s] \in {"running", "unhook"} =>
               /\ Hears(s) /\ handle = s
               /\ \A r \in Servers \ {s} : pc[r] \notin {"hook", "store", "set", "unhooked"}

\* A server that quits hands the section to the next one, even while other
\* servers keep the DLL loaded.
QuitFreesSection ==
    \A s \in Servers :
        (pc[s] = "unhook" /\ dest = s) ~> (dest # s \/ crashed \/ overlapped)

=============================================================================
