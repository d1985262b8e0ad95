---------------------------- MODULE AbstractMutex ----------------------------
(* What Mutex promises its users: at most one holder, and a free mutex that   *)
(* somebody waits for is eventually taken.                                    *)
CONSTANTS Threads, NoThread

VARIABLES holder, waiting

vars == <<holder, waiting>>

Init == holder = NoThread /\ waiting = {}

Request(t) ==
    /\ t # holder /\ t \notin waiting
    /\ waiting' = waiting \union {t}
    /\ UNCHANGED holder

Acquire(t) ==
    /\ holder = NoThread /\ t \in waiting
    /\ holder' = t
    /\ waiting' = waiting \ {t}

Release(t) ==
    /\ holder = t
    /\ holder' = NoThread
    /\ UNCHANGED waiting

Next == \E t \in Threads : Request(t) \/ Acquire(t) \/ Release(t)

Safety == Init /\ [][Next]_vars

\* Some waiter gets a free mutex; which one is not promised.
Spec == Safety /\ WF_vars(\E t \in Threads : Acquire(t))
==============================================================================
