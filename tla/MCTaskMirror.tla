---------------------------- MODULE MCTaskMirror ----------------------------
(* The task list server, instantiated for TLC. *)
EXTENDS TaskMirror

\* Windows and icons are interchangeable: no action names one of them.
Symmetry == Permutations(Windows) \cup Permutations(Icons)

=============================================================================
