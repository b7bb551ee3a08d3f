--------------------------- MODULE MCRequestStream ---------------------------
(* The request stream, instantiated for TLC: an int of two bytes, the low ones of  *)
(* the codes in Global.h (1001 to 1003, most significant byte first).              *)
EXTENDS RequestStream

Codes16 ==
    [type \in Types |-> IF type = "ACTIVE_TASK_LIST" THEN <<3, 233>>
                       ELSE IF type = "WINDOW_OPEN" THEN <<3, 234>> ELSE <<3, 235>>]

Bytes == 0 .. 255

\* Two windows, one of them the first byte of the other and a byte of the empty buffer.
Two == {<<1, 10>>, <<1, 0>>}

\* One window.
One == {<<1, 10>>}

=============================================================================
