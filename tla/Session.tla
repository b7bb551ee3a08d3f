------------------------------ MODULE Session ------------------------------
(***************************************************************************)
(* What a user of the server can rely on, between pressing "Connect" and   *)
(* "Disconnect": a session has no client at first, then the first client   *)
(* that connects, until it ends.  The button ends a session only once its  *)
(* client has been announced; a session that never announces one is stuck, *)
(* and stays so.  A session does not end because its client leaves.        *)
(***************************************************************************)
CONSTANTS Clients, Null

VARIABLES
    phase,    \* "off", "waiting", "connected" or "stuck"
    client,   \* the client of this session
    told      \* the clients that were sent a task list

Init == phase = "off" /\ client = Null /\ told = {}

\* The user presses "Connect".
Connect ==
    /\ phase = "off"
    /\ phase' = "waiting"
    /\ UNCHANGED <<client, told>>

\* A client is accepted; there is no second one.
Accept(c) ==
    /\ phase = "waiting"
    /\ client = Null
    /\ client' = c
    /\ UNCHANGED <<phase, told>>

Announce ==
    /\ phase = "waiting"
    /\ client # Null
    /\ phase' = "connected"
    /\ UNCHANGED <<client, told>>

\* The announcement is lost, or there is no socket to accept on.
Miss ==
    /\ phase = "waiting"
    /\ phase' = "stuck"
    /\ UNCHANGED <<client, told>>

\* The client, announced or not, is sent a list.
Tell ==
    /\ client # Null
    /\ told' = told \cup {client}
    /\ UNCHANGED <<phase, client>>

\* The user presses "Disconnect".
Disconnect ==
    /\ phase = "connected"
    /\ phase' = "off"
    /\ client' = Null
    /\ UNCHANGED told

Next == Connect \/ (\E c \in Clients : Accept(c)) \/ Announce \/ Miss \/ Tell \/ Disconnect

Spec == Init /\ [][Next]_<<phase, client, told>>

=============================================================================
