---------------------------- MODULE MCActivities ----------------------------
(* The life of the client, instantiated for TLC. *)
EXTENDS Activities

CONSTANTS w1, w2

\* The windows are alike: the first that a frame names is w1.
FirstIsW1 ==
    frames' = 1 => \A a \in Activities :
        LET f == thread'[a].frame IN f.op \in {"add", "remove"} => f.hwnd = w1

=============================================================================
