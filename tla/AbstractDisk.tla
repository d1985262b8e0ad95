----------------------------- MODULE AbstractDisk -----------------------------
(***************************************************************************)
(* What a disk cache promises: requests take effect as on the disk itself     *)
(* (content), and what the platter holds (durable) only lags behind.         *)
(***************************************************************************)
CONSTANTS Blocks, Values, Zero, NoRequest

VARIABLES content, durable, request

vars == <<content, durable, request>>

Requests == [op : {"read", "write", "zero_fill"}, block : Blocks, value : Values]

Init == content \in [Blocks -> Values] /\ durable = content /\ request = NoRequest

Call ==
    /\ request = NoRequest /\ request' \in Requests
    /\ UNCHANGED <<content, durable>>

\* Only a write changes the content, and only of its block; it may fail.
Perform ==
    /\ request # NoRequest /\ request' = NoRequest
    /\ \/ request.op = "write" /\ content' = [content EXCEPT ![request.block] = request.value]
       \/ request.op = "zero_fill" /\ content' = [content EXCEPT ![request.block] = Zero]
       \/ request.op # "zero_fill" /\ UNCHANGED content
    /\ UNCHANGED durable

\* Some blocks reach the platter.
Persist ==
    /\ \E B \in SUBSET Blocks :
          durable' = [b \in Blocks |-> IF b \in B THEN content[b] ELSE durable[b]]
    /\ UNCHANGED <<content, request>>

Next == Call \/ Perform \/ Persist

Spec == Init /\ [][Next]_vars
==============================================================================
