---------------------------- MODULE MCConnection ----------------------------
(* The connection, instantiated for TLC. *)
EXTENDS Connection, TLC

\* Clients and blocks are interchangeable.
Symmetry == Permutations(Clients) \cup Permutations(Blocks)

\* When the clients are numbers: each comes to the start of its number, only the
\* last may leave of itself, and its connection is not ended.
OneClientEach ==
    /\ \A c \in Clients : conn'[c].start \in {0, c}
    /\ left' \subseteq {MaxStarts}
    /\ starts = MaxStarts => ui'.pc # "close"

=============================================================================
