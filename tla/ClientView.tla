----------------------------- MODULE ClientView -----------------------------
(***************************************************************************)
(* What the frames of the server mean: the list an Android client shows    *)
(* that applies them one at a time and in order.  The client itself splits *)
(* the work between two threads (module TaskClient); this is the reading   *)
(* of the protocol the server can count on.                                *)
(***************************************************************************)
EXTENDS Protocol, SequencesExt

\* new Task(hwnd, hicon, title)
Task(w, h, t) == [hwnd |-> w, hicon |-> h, title |-> t]

\* removeTaskByHwnd removes the first task with this window only.
RemoveTaskByHwnd(list, w) == RemoveFirstMatch(list, LAMBDA t : t.hwnd = w)

\* getTaskByHwnd finds the first task with this window, and its title is set.
SetTitleByHwnd(list, w, title) ==
    LET i == SelectInSeq(list, LAMBDA t : t.hwnd = w) IN
    IF i = 0 THEN list ELSE [list EXCEPT ![i].title = title]

\* Variant: clearTaskList is not called.
RowsKept(list, rows) == list \o SetToSeq(rows)

\* clearTaskList, then addTask for each row.
RowsListed(list, rows) == SetToSeq(rows)

\* The effect of one frame.  An icon goes to iconMap, which the list refers to.
Apply(list, f) ==
    CASE f.type = "ACTIVE_TASK_LIST" -> RowsListed(list, f.tasks)
      [] f.type = "ADD_TASK"         -> Append(list, Task(f.hwnd, f.hicon, f.title))
      [] f.type = "REMOVE_TASK"      -> RemoveTaskByHwnd(list, f.hwnd)
      [] f.type = "UPDATE_TASK"      -> SetTitleByHwnd(list, f.hwnd, f.title)
      [] OTHER                       -> list

Replay(frames) == FoldLeft(Apply, <<>>, frames)

\* What the client relies on when it reads frame f after these frames: the
\* header counts the rows, each window has one row at a time, and a picture
\* comes once, before the rows that refer to it.
Fits(frames, f) ==
    LET listed == {t.hwnd : t \in ToSet(Replay(frames))}
        Pictured(h) == SendIcon(h) \in ToSet(frames)
    IN CASE f.type = "ACTIVE_TASK_LIST" ->
              /\ f.numTasks = Cardinality(f.tasks)
              /\ f.numTasks = Cardinality({r.hwnd : r \in f.tasks})
              /\ \A r \in f.tasks : Pictured(r.hicon)
         [] f.type = "SEND_ICON" -> ~Pictured(f.hicon)
         [] f.type = "ADD_TASK"  -> f.hwnd \notin listed /\ Pictured(f.hicon)
         [] OTHER                -> f.hwnd \in listed

\* The list shows each of the windows once and no other.
ShowsOnce(list, ws) ==
    /\ \A i, j \in DOMAIN list : list[i].hwnd = list[j].hwnd => i = j
    /\ ws = {list[i].hwnd : i \in DOMAIN list}

=============================================================================
