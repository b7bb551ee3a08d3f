------------------------------ MODULE Protocol ------------------------------
(***************************************************************************)
(* The messages of RemoteTaskbar.  The server sends the Android client     *)
(* frames, each an int type followed by its fields; the client sends the   *)
(* server requests.  A window title, an icon handle and a window handle    *)
(* are members of small sets; the picture bytes of an icon are left out.   *)
(***************************************************************************)
EXTENDS Naturals, Sequences

CONSTANTS
    Windows,   \* HWNDs of the top-level, unowned windows that are not tool windows
    Icons,     \* HICONs that GetHICON may return
    Titles,    \* titles a window on the screen may carry
    NoTitle,   \* the empty title
    NoWindow,  \* the NULL HWND
    NoIcon     \* the NULL HICON

ASSUME NullAssumption == NoWindow \notin Windows /\ NoIcon \notin Icons

Title == Titles \cup {NoTitle}

(* One entry of a task list.  The icon is NULL only while a listing is     *)
(* still filling in the entries it has just inserted.                      *)
Row == [hwnd : Windows, hicon : Icons \cup {NoIcon}, title : Title]

TaskList(n, rows)  == [type |-> "ACTIVE_TASK_LIST", numTasks |-> n, tasks |-> rows]
SendIcon(h)        == [type |-> "SEND_ICON", hicon |-> h]
AddTask(w, h, t)   == [type |-> "ADD_TASK", hwnd |-> w, hicon |-> h, title |-> t]
RemoveTask(w)      == [type |-> "REMOVE_TASK", hwnd |-> w]
UpdateTask(w, t)   == [type |-> "UPDATE_TASK", hwnd |-> w, title |-> t]

Frame ==
         [type : {"ACTIVE_TASK_LIST"}, numTasks : Nat, tasks : SUBSET Row]
    \cup [type : {"SEND_ICON"}, hicon : Icons]
    \cup [type : {"ADD_TASK"}, hwnd : Windows, hicon : Icons, title : Title]
    \cup [type : {"REMOVE_TASK"}, hwnd : Windows]
    \cup [type : {"UPDATE_TASK"}, hwnd : Windows, title : Title]

=============================================================================
