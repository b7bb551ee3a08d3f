-------------------------- MODULE HookInstallProofs --------------------------
(***************************************************************************)
(* Theorems about the hook of the server processes, for any number of      *)
(* servers that start, quit, fail and crash in any order.                  *)
(***************************************************************************)
EXTENDS HookInstall, FiniteSetTheorems, TLAPS

USE DEF Freed, SectionFree, HooksWithout, SectionKept

-----------------------------------------------------------------------------
(* Types.                                                                  *)

\* A process that ends leaves the types as they are.
LEMMA LeaveTyped ==
    ASSUME TypeOK, NEW s \in Servers, Leave(s)
    PROVE  /\ dest' \in Servers \cup {Null} /\ handle' \in Servers \cup {Null}
           /\ pc' \in [Servers -> Places]
           /\ Loaded' = Loaded \ {s}
           /\ hooks' \subseteq Loaded' /\ alone' \subseteq Loaded'
<1>1. /\ dest' \in Servers \cup {Null} /\ handle' \in Servers \cup {Null}
      /\ pc' \in [Servers -> Places]
  BY DEF TypeOK, Leave, Goto, SectionAfter, section, Places
<1>2. Loaded' = Loaded \ {s}
  BY DEF TypeOK, Leave, Goto, Loaded
<1>. QED
  BY <1>1, <1>2 DEF TypeOK, Leave

\* So does a step of a loaded process to another place.
LEMMA MoveTyped ==
    ASSUME TypeOK, NEW s \in Loaded, NEW place \in Places \ {"new", "gone"}, Goto(s, place)
    PROVE  pc' \in [Servers -> Places] /\ Loaded' = Loaded
BY DEF TypeOK, Goto, Loaded, Places

\* Every step keeps the types.
LEMMA TypeStep ==
    ASSUME TypeOK, [Next]_vars
    PROVE  TypeOK'
<1>1. CASE UNCHANGED vars
  BY <1>1 DEF TypeOK, vars, section, history, Loaded
<1>2. ASSUME NEW s \in Servers, LoadLibrary(s)
      PROVE  TypeOK'
  <2>1. pc' \in [Servers -> Places] /\ Loaded' = Loaded \cup {s}
    BY <1>2 DEF LoadLibrary, At, Goto, TypeOK, Loaded, Places
  <2>. QED
    BY <1>2, <2>1 DEF LoadLibrary, TypeOK, section
<1>3. ASSUME NEW s \in Servers, InitFails(s)
      PROVE  TypeOK'
  <2>1. pc' \in [Servers -> Places] /\ Loaded' = Loaded
    BY <1>3 DEF InitFails, At, Goto, TypeOK, Loaded, Places
  <2>. QED
    BY <1>3, <2>1 DEF InitFails, TypeOK, section, history
<1>4. ASSUME NEW s \in Servers, TestDestination(s)
      PROVE  TypeOK'
  <2>1. pc' \in [Servers -> Places] /\ Loaded' = Loaded
    BY <1>4, MoveTyped DEF TestDestination, Loaded, Places
  <2>2. overlapped' \in BOOLEAN
    BY <1>4 DEF TestDestination, TypeOK
  <2>. QED
    BY <1>4, <2>1, <2>2 DEF TestDestination, TypeOK, section
<1>5. ASSUME NEW s \in Servers, SetWinEventHook(s)
      PROVE  TypeOK'
  <2>1. pc' \in [Servers -> Places] /\ Loaded' = Loaded /\ s \in Loaded
    BY <1>5, MoveTyped DEF SetWinEventHook, At, Loaded, Places
  <2>. QED
    BY <1>5, <2>1 DEF SetWinEventHook, TypeOK, section
<1>11. ASSUME NEW s \in Servers, StoreHandle(s)
       PROVE  TypeOK'
  <2>1. pc' \in [Servers -> Places] /\ Loaded' = Loaded
    BY <1>11, MoveTyped DEF StoreHandle, At, Loaded, Places
  <2>. QED
    BY <1>11, <2>1 DEF StoreHandle, TypeOK, history
<1>6. ASSUME NEW s \in Servers, SetDestination(s)
      PROVE  TypeOK'
  <2>1. pc' \in [Servers -> Places] /\ Loaded' = Loaded
    BY <1>6, MoveTyped DEF SetDestination, At, Loaded, Places
  <2>. QED
    BY <1>6, <2>1 DEF SetDestination, TypeOK, history
<1>7. ASSUME NEW s \in Servers, Quit(s)
      PROVE  TypeOK'
  <2>1. pc' \in [Servers -> Places] /\ Loaded' = Loaded
    BY <1>7, MoveTyped DEF Quit, At, Loaded, Places
  <2>. QED
    BY <1>7, <2>1 DEF Quit, TypeOK, section, history
<1>8. ASSUME NEW s \in Servers, Unhook(s) \/ DeleteController(s)
      PROVE  TypeOK'
  <2>1. pc' \in [Servers -> Places] /\ Loaded' = Loaded
    BY <1>8, MoveTyped DEF Unhook, DeleteController, Uninstall, Loaded, Places
  <2>. QED
    BY <1>8, <2>1 DEF Unhook, DeleteController, Uninstall, TypeOK, section, history
<1>9. ASSUME NEW s \in Servers, ClearDestination(s)
      PROVE  TypeOK'
  <2>1. pc' \in [Servers -> Places] /\ Loaded' = Loaded
    BY <1>9, MoveTyped DEF ClearDestination, At, Loaded, Places
  <2>. QED
    BY <1>9, <2>1 DEF ClearDestination, TypeOK, history
<1>10. ASSUME NEW s \in Servers, FreeLibrary(s) \/ Crash(s)
       PROVE  TypeOK'
  <2>1. Leave(s) /\ overlapped' = overlapped /\ crashed' \in {crashed, TRUE}
    BY <1>10 DEF FreeLibrary, Crash
  <2>. QED
    BY <2>1, LeaveTyped DEF TypeOK
<1>. QED
  BY <1>1, <1>2, <1>3, <1>4, <1>5, <1>6, <1>7, <1>8, <1>9, <1>10, <1>11 DEF Next, Proceed

\* They hold at the start.
LEMMA TypeInit == Init => TypeOK
BY DEF Init, TypeOK, Places, Loaded

\* Every variable keeps its type, and no hook survives the process that has set
\* it, whatever servers start, quit and crash.
THEOREM HookTyping == Spec => []TypeOK
<1>. QED
  BY TypeInit, TypeStep, PTL DEF Spec

-----------------------------------------------------------------------------
(* The section as a lock.                                                  *)

\* A server that finds the section taken installs nothing, so that it stays a
\* lock, as long as no two overlap.
LEMMA LockStep ==
    ASSUME HookAssumption, TypeOK, LockInv, [Next]_vars
    PROVE  LockInv'
<1>. SUFFICES ASSUME ~overlapped'
              PROVE  LockInv'
  BY DEF LockInv
<1>. USE DEF HookAssumption
<1>0. ~overlapped
  BY DEF Next, Proceed, LoadLibrary, InitFails, TestDestination, SetWinEventHook,
         StoreHandle, SetDestination, Quit, Unhook, DeleteController, Uninstall, ClearDestination,
         FreeLibrary, Crash, vars, history
<1>1. CASE UNCHANGED vars
  BY <1>1 DEF LockInv, vars, section, history
<1>2. ASSUME NEW s \in Servers, LoadLibrary(s) \/ InitFails(s) \/ Quit(s)
      PROVE  LockInv'
  <2>1. /\ UNCHANGED <<dest, handle, hooks>>
        /\ pc[s] \notin {"hook", "store", "set", "unhooked"} /\ pc'[s] \notin {"hook", "store", "set", "unhooked"}
        /\ \A r \in Servers \ {s} : pc'[r] = pc[r]
    BY <1>2 DEF LoadLibrary, InitFails, Quit, At, Goto, TypeOK, section
  <2>. QED
    BY <1>0, <2>1 DEF LockInv, TypeOK, Loaded
<1>3. ASSUME NEW s \in Servers, TestDestination(s)
      PROVE  LockInv'
  <2>1. /\ UNCHANGED <<dest, handle, hooks>> /\ pc[s] = "install"
        /\ pc'[s] \in {"hook", "running"} /\ (pc'[s] = "hook" => dest = Null)
        /\ \A r \in Servers \ {s} : pc'[r] = pc[r]
    BY <1>3 DEF TestDestination, Goto, TypeOK, section
  <2>2. pc'[s] = "hook" => \A r \in Servers : pc[r] \notin {"hook", "store", "set"}
    BY <1>3, <2>1 DEF TestDestination, Goto, TypeOK
  <2>. QED
    BY <1>0, <2>1, <2>2 DEF LockInv, TypeOK, Loaded
<1>4. ASSUME NEW s \in Servers, SetWinEventHook(s)
      PROVE  LockInv'
  <2>1. /\ dest' = dest /\ handle' = handle /\ pc[s] = "hook" /\ pc'[s] = "store"
        /\ hooks' = hooks \cup {s} \/ hooks' = hooks
        /\ \A r \in Servers \ {s} : pc'[r] = pc[r]
    BY <1>4 DEF SetWinEventHook, At, Goto, TypeOK, section
  <2>. QED
    BY <1>0, <2>1 DEF LockInv, TypeOK, Loaded
<1>9. ASSUME NEW s \in Servers, StoreHandle(s)
      PROVE  LockInv'
  <2>1. /\ UNCHANGED <<dest, hooks>> /\ pc[s] = "store" /\ pc'[s] = "set"
        /\ s \in hooks => handle' = s
        /\ \A r \in Servers \ {s} : pc'[r] = pc[r]
    BY <1>9 DEF StoreHandle, At, Goto, TypeOK
  <2>. QED
    BY <1>0, <2>1 DEF LockInv, TypeOK, Loaded
<1>5. ASSUME NEW s \in Servers, SetDestination(s)
      PROVE  LockInv'
  <2>1. /\ UNCHANGED <<hooks, handle>> /\ pc[s] = "set" /\ pc'[s] = "running"
        /\ dest' = IF handle # Null THEN s ELSE dest
        /\ \A r \in Servers \ {s} : pc'[r] = pc[r]
    BY <1>5 DEF SetDestination, At, Goto, TypeOK
  <2>2. hooks \subseteq {s} /\ (s \in hooks => handle = s)
    BY <1>0, <2>1 DEF LockInv, TypeOK, Loaded
  <2>. QED
    BY <1>0, <2>1, <2>2 DEF LockInv, TypeOK, Loaded
<1>6. ASSUME NEW s \in Servers, Unhook(s) \/ DeleteController(s)
      PROVE  LockInv'
  <2>1. /\ UNCHANGED <<dest, handle>> /\ pc[s] \notin {"hook", "store", "set"}
        /\ hooks' \subseteq hooks
        /\ (pc'[s] = "unhooked" /\ dest = s /\ s \notin hooks') \/ pc'[s] \in {"delete", "free"}
        /\ \A r \in Servers \ {s} : pc'[r] = pc[r]
    BY <1>6 DEF Unhook, DeleteController, Uninstall, Goto, TypeOK, section
  <2>. QED
    BY <1>0, <2>1 DEF LockInv, TypeOK, Loaded
<1>7. ASSUME NEW s \in Servers, ClearDestination(s)
      PROVE  LockInv'
  <2>1. /\ UNCHANGED <<hooks, handle>> /\ pc[s] = "unhooked" /\ pc'[s] = "delete"
        /\ dest' = Null
        /\ \A r \in Servers \ {s} : pc'[r] = pc[r]
    BY <1>7 DEF ClearDestination, At, Goto, TypeOK
  <2>2. dest = s /\ \A r \in Servers : pc[r] \notin {"hook", "store", "set"}
    BY <1>0, <2>1 DEF LockInv
  <2>. QED
    BY <1>0, <2>1, <2>2 DEF LockInv, TypeOK, Loaded
<1>8. ASSUME NEW s \in Servers, FreeLibrary(s) \/ Crash(s)
      PROVE  LockInv'
  <2>1. /\ pc'[s] = "gone" /\ hooks' = hooks \ {s}
        /\ \A r \in Servers \ {s} : pc'[r] = pc[r]
        /\ UNCHANGED <<dest, handle>> \/ Loaded \subseteq {s}
    BY <1>8 DEF FreeLibrary, Crash, Leave, Goto, SectionAfter, section, TypeOK
  <2>. QED
    BY <1>0, <2>1 DEF LockInv, TypeOK, Loaded
<1>. QED
  BY <1>1, <1>2, <1>3, <1>4, <1>5, <1>6, <1>7, <1>8, <1>9 DEF Next, Proceed

\* The section is free at the start.
LEMMA LockInit == Init => LockInv
BY DEF Init, LockInv

\* Only the holder of the lock has a hook.
LEMMA LockIsOneHook ==
    ASSUME HookAssumption, TypeOK, LockInv
    PROVE  OneHook
<1>. SUFFICES ASSUME ~overlapped
              PROVE  Cardinality(hooks) <= 1
  BY DEF OneHook
<1>1. \A s, r \in hooks : s = r
  BY DEF LockInv, TypeOK, Loaded, HookAssumption
<1>2. CASE hooks = {}
  <2>1. Cardinality(hooks) = 0
    BY <1>2, FS_EmptySet, Zenon
  <2>. QED
    BY <2>1
<1>3. CASE hooks # {}
  <2>1. PICK s \in hooks : TRUE
    BY <1>3
  <2>2. hooks = {s}
    BY <1>1, <2>1
  <2>3. Cardinality(hooks) = 1
    BY <2>2, FS_Singleton, Zenon
  <2>. QED
    BY <2>3
<1>. QED
  BY <1>2, <1>3

\* A window event is posted once: two hooks are in the system only after two
\* servers were in installEventHook at once.
THEOREM EventsOnce == Spec => []OneHook
<1>. QED
  BY HookAssumption, TypeInit, TypeStep, LockInit, LockStep, LockIsOneHook, PTL DEF Spec

-----------------------------------------------------------------------------
(* A server that was alone.                                                *)

\* A server that was alone in installEventHook keeps the section from the
\* others.
LEMMA AloneStep ==
    ASSUME HookAssumption, TypeOK, AloneInv, [Next]_vars
    PROVE  AloneInv'
<1>. USE DEF HookAssumption, Hears
<1>1. CASE UNCHANGED vars
  BY <1>1 DEF AloneInv, Loaded, vars, section, history
<1>2. ASSUME NEW s \in Servers, LoadLibrary(s)
      PROVE  AloneInv'
  <2>1. /\ UNCHANGED <<dest, handle, hooks>> /\ pc[s] = "new" /\ pc'[s] = "install"
        /\ \A r \in Servers \ {s} : pc'[r] = pc[r]
    BY <1>2 DEF LoadLibrary, At, Goto, TypeOK, section
  <2>2. Loaded' = Loaded \cup {s}
    BY <2>1 DEF Loaded
  <2>3. \A r \in alone' :
          \/ r = s /\ Loaded = {}
          \/ r \in alone /\ r # s /\ pc[r] \notin {"install", "hook", "store", "set"}
    BY <1>2, <2>1 DEF LoadLibrary, Installing, TypeOK, Loaded
  <2>. QED
    BY <2>1, <2>2, <2>3 DEF AloneInv, TypeOK, Loaded
<1>3. ASSUME NEW s \in Servers, InitFails(s)
      PROVE  AloneInv'
  <2>1. /\ UNCHANGED <<dest, handle, hooks, alone>> /\ pc[s] = "new" /\ pc'[s] = "gone"
        /\ \A r \in Servers \ {s} : pc'[r] = pc[r]
    BY <1>3 DEF InitFails, At, Goto, TypeOK, section, history
  <2>2. Loaded' = Loaded
    BY <2>1 DEF Loaded
  <2>. QED
    BY <2>1, <2>2 DEF AloneInv, TypeOK, Loaded
<1>4. ASSUME NEW s \in Servers, TestDestination(s)
      PROVE  AloneInv'
  <2>1. /\ UNCHANGED <<dest, handle, hooks, alone>> /\ pc[s] = "install"
        /\ pc'[s] = IF dest = Null THEN "hook" ELSE "running"
        /\ \A r \in Servers \ {s} : pc'[r] = pc[r]
    BY <1>4 DEF TestDestination, Goto, TypeOK, section
  <2>2. Loaded' = Loaded
    BY <2>1 DEF Loaded
  <2>. QED
    BY <2>1, <2>2 DEF AloneInv, TypeOK, Loaded
<1>5. ASSUME NEW s \in Servers, SetWinEventHook(s)
      PROVE  AloneInv'
  <2>1. /\ UNCHANGED <<dest, handle>> /\ pc[s] = "hook" /\ pc'[s] = "store"
        /\ \/ hooks' = hooks \cup {s} /\ alone' = alone
           \/ hooks' = hooks /\ alone' = alone \ {s}
        /\ \A r \in Servers \ {s} : pc'[r] = pc[r]
    BY <1>5 DEF SetWinEventHook, At, Goto, TypeOK, section
  <2>2. Loaded' = Loaded /\ s \in Loaded
    BY <2>1 DEF Loaded
  <2>3. \A r \in alone : r = s \/ pc[r] \notin {"install", "hook", "store", "set", "running", "unhook"}
    BY <2>1, <2>2 DEF AloneInv, TypeOK, Loaded
  <2>. QED
    BY <2>1, <2>2, <2>3 DEF AloneInv, TypeOK, Loaded
<1>11. ASSUME NEW s \in Servers, StoreHandle(s)
       PROVE  AloneInv'
  <2>1. /\ UNCHANGED <<dest, hooks, alone>> /\ pc[s] = "store" /\ pc'[s] = "set"
        /\ s \in hooks => handle' = s
        /\ \A r \in Servers \ {s} : pc'[r] = pc[r]
    BY <1>11 DEF StoreHandle, At, Goto, TypeOK, history
  <2>2. Loaded' = Loaded /\ s \in Loaded
    BY <2>1 DEF Loaded
  <2>3. \A r \in alone : r = s \/ pc[r] \notin {"install", "hook", "store", "set", "running", "unhook"}
    BY <2>1, <2>2 DEF AloneInv, TypeOK, Loaded
  <2>. QED
    BY <2>1, <2>2, <2>3 DEF AloneInv, TypeOK, Loaded
<1>6. ASSUME NEW s \in Servers, SetDestination(s)
      PROVE  AloneInv'
  <2>1. /\ UNCHANGED <<hooks, handle, alone>> /\ pc[s] = "set" /\ pc'[s] = "running"
        /\ dest' = IF handle # Null THEN s ELSE dest
        /\ \A r \in Servers \ {s} : pc'[r] = pc[r]
    BY <1>6 DEF SetDestination, At, Goto, TypeOK, history
  <2>2. Loaded' = Loaded /\ s \in Loaded
    BY <2>1 DEF Loaded
  <2>3. \A r \in alone : r = s \/ pc[r] \notin {"install", "hook", "store", "set", "running", "unhook"}
    BY <2>1, <2>2 DEF AloneInv, TypeOK, Loaded
  <2>4. s \in alone => /\ handle = s /\ s \in hooks
                       /\ \A r \in Servers \ {s} : pc[r] \in {"new", "gone"}
    BY <2>1 DEF AloneInv, Loaded
  <2>. QED
    BY <2>1, <2>2, <2>3, <2>4 DEF AloneInv, TypeOK, Loaded
<1>7. ASSUME NEW s \in Servers, Quit(s)
      PROVE  AloneInv'
  <2>1. /\ UNCHANGED <<dest, handle, hooks, alone>> /\ pc[s] = "running" /\ pc'[s] = "unhook"
        /\ \A r \in Servers \ {s} : pc'[r] = pc[r]
    BY <1>7 DEF Quit, At, Goto, TypeOK, section, history
  <2>2. Loaded' = Loaded
    BY <2>1 DEF Loaded
  <2>. QED
    BY <2>1, <2>2 DEF AloneInv, TypeOK, Loaded
<1>8. ASSUME NEW s \in Servers, Unhook(s) \/ DeleteController(s)
      PROVE  AloneInv'
  <2>1. /\ UNCHANGED <<dest, handle, alone>> /\ pc[s] \in {"unhook", "delete"}
        /\ hooks' = hooks \ {s} \/ hooks' = hooks
        /\ (pc'[s] = "unhooked" /\ dest = s) \/ pc'[s] \in {"delete", "free"}
        /\ \A r \in Servers \ {s} : pc'[r] = pc[r]
    BY <1>8 DEF Unhook, DeleteController, Uninstall, Goto, TypeOK, section, history
  <2>2. Loaded' = Loaded /\ s \in Loaded
    BY <2>1 DEF Loaded
  <2>. QED
    BY <2>1, <2>2 DEF AloneInv, TypeOK, Loaded
<1>9. ASSUME NEW s \in Servers, ClearDestination(s)
      PROVE  AloneInv'
  <2>1. /\ UNCHANGED <<hooks, handle, alone>> /\ pc[s] = "unhooked" /\ pc'[s] = "delete"
        /\ dest' = Null
        /\ \A r \in Servers \ {s} : pc'[r] = pc[r]
    BY <1>9 DEF ClearDestination, At, Goto, TypeOK, history
  <2>2. Loaded' = Loaded /\ s \in Loaded
    BY <2>1 DEF Loaded
  <2>. QED
    BY <2>1, <2>2 DEF AloneInv, TypeOK, Loaded
<1>10. ASSUME NEW s \in Servers, FreeLibrary(s) \/ Crash(s)
       PROVE  AloneInv'
  <2>1. Leave(s) /\ s \in Loaded
    BY <1>10 DEF FreeLibrary, Crash, Loaded
  <2>2. /\ pc'[s] = "gone" /\ hooks' = hooks \ {s} /\ alone' = alone \ {s}
        /\ \A r \in Servers \ {s} : pc'[r] = pc[r]
        /\ IF Loaded \subseteq {s} THEN dest' = Null /\ handle' = Null
           ELSE dest' = dest /\ handle' = handle
    BY <2>1 DEF Leave, Goto, SectionAfter, section, TypeOK
  <2>3. Loaded' = Loaded \ {s}
    BY <2>1, LeaveTyped
  <2>4. \A r \in alone' : pc[r] \notin {"install", "hook", "store", "set"} /\ ~(Loaded \subseteq {s})
    BY <2>1, <2>2 DEF AloneInv, TypeOK
  <2>. QED
    BY <2>2, <2>3, <2>4 DEF AloneInv, TypeOK, Loaded
<1>. QED
  BY <1>1, <1>2, <1>3, <1>4, <1>5, <1>6, <1>7, <1>8, <1>9, <1>10, <1>11 DEF Next, Proceed

\* No server runs at the start.
LEMMA AloneInit == Init => AloneInv
BY DEF Init, AloneInv

\* So it has the hook and the destination.
LEMMA AloneInvHears ==
    ASSUME AloneInv
    PROVE  AloneIsHeard
BY DEF AloneInv, AloneIsHeard

\* A server that met no other in installEventHook gets the events of the
\* windows as long as it runs.
THEOREM AloneKeepsEvents == Spec => []AloneIsHeard
<1>. QED
  BY HookAssumption, TypeInit, TypeStep, AloneInit, AloneStep, AloneInvHears, PTL DEF Spec

=============================================================================
