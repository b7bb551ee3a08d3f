--------------------------- MODULE MCIconTransfer ---------------------------
(* The transfer of pictures, instantiated for TLC. *)
EXTENDS IconTransfer, TLC

CONSTANTS icon, photo

MCImages == {icon, photo}

\* The photo is larger than the buffer.
MCPngSize == icon :> 1 @@ photo :> 3

=============================================================================
