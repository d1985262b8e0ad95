------------------------------ MODULE ByteStream ------------------------------
(***************************************************************************)
(* What a pipe promises: a bounded first-in first-out stream of bytes.  The   *)
(* bytes an operation copies are visible, the stream is what is between.      *)
(***************************************************************************)
EXTENDS Naturals, Sequences

CONSTANTS Bytes, Capacity

VARIABLES stream, copied

vars == <<stream, copied>>

Init == stream = <<>> /\ copied.op = "none"

\* A write adds bytes at the end, as far as there is room.
Write ==
    /\ copied'.op = "write"
    /\ stream' = stream \o copied'.data
    /\ Len(stream') <= Capacity

\* A read takes bytes from the front.
Read ==
    /\ copied'.op = "read"
    /\ stream = copied'.data \o stream'

Quiet == copied'.op = "none" /\ UNCHANGED stream

Next == Write \/ Read \/ Quiet

Spec == Init /\ [][Next]_vars
==============================================================================
