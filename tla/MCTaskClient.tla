---------------------------- MODULE MCTaskClient ----------------------------
(* The Android client, instantiated for TLC. *)
EXTENDS TaskClient

CONSTANTS w1, w2, i1, i2, t1, t2

\* The second window may share the first one's icon.
MCRows == {Task(w1, i1, t1), Task(w1, i1, t2), Task(w2, i2, t1), Task(w2, i1, t1)}

=============================================================================
