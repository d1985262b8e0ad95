----------------------------- MODULE SharedMutex -----------------------------
(***************************************************************************)
(* Kernel/Multitasking/Mutex.cpp, class SharedMutex: a sleeping              *)
(* reader/writer lock.  Steps are cut as in Mutex: one critical section of   *)
(* m_state_access_lock each, and blocking is a step of its own.              *)
(***************************************************************************)
EXTENDS Sequences, Integers, FiniteSets

CONSTANTS Threads

VARIABLES
    m_shared_refcount,
    m_shared_waiters,
    m_exclusive_waiters,
    phase,      \* as in Mutex; "held" is split by mode
    mode,       \* which of the two locks the thread's current call is about
    unblocked

vars == <<m_shared_refcount, m_shared_waiters, m_exclusive_waiters, phase, mode, unblocked>>

exclusive_mode == -1
free_mode == 0

Init ==
    /\ m_shared_refcount = free_mode
    /\ m_shared_waiters = <<>> /\ m_exclusive_waiters = <<>>
    /\ phase = [t \in Threads |-> "out"]
    /\ mode = [t \in Threads |-> "shared"]
    /\ unblocked = [t \in Threads |-> FALSE]

call_lock(t, m) ==
    /\ phase[t] = "out"
    /\ phase' = [phase EXCEPT ![t] = "try"]
    /\ mode' = [mode EXCEPT ![t] = m]
    /\ UNCHANGED <<m_shared_refcount, m_shared_waiters, m_exclusive_waiters, unblocked>>

Park(t) ==
    /\ unblocked' = [unblocked EXCEPT ![t] = FALSE]
    /\ phase' = [phase EXCEPT ![t] = "park"]
    /\ UNCHANGED <<m_shared_refcount, mode>>

Enter(t, refcount) ==
    /\ m_shared_refcount' = refcount
    /\ phase' = [phase EXCEPT ![t] = "held"]
    /\ UNCHANGED <<m_shared_waiters, m_exclusive_waiters, mode, unblocked>>

\* One iteration of the loop of exclusive_lock().
exclusive_lock(t) ==
    /\ phase[t] = "try" /\ mode[t] = "exclusive"
    /\ \/ m_shared_refcount = free_mode /\ Enter(t, exclusive_mode)
       \/ /\ m_shared_refcount # free_mode
          /\ m_exclusive_waiters' = Append(m_exclusive_waiters, t)
          /\ Park(t) /\ UNCHANGED m_shared_waiters

\* One iteration of the loop of shared_lock().
shared_lock(t) ==
    /\ phase[t] = "try" /\ mode[t] = "shared"
    /\ \/ m_shared_refcount >= free_mode /\ Enter(t, m_shared_refcount + 1)
       \/ /\ m_shared_refcount < free_mode
          /\ m_shared_waiters' = Append(m_shared_waiters, t)
          /\ Park(t) /\ UNCHANGED m_exclusive_waiters

block(t) ==
    /\ phase[t] = "park"
    /\ phase' = [phase EXCEPT ![t] = IF unblocked[t] THEN "try" ELSE "blocked"]
    /\ UNCHANGED <<m_shared_refcount, m_shared_waiters, m_exclusive_waiters, mode, unblocked>>

\* t leaves and the threads of W are unblocked.
Leave(t, W) ==
    /\ unblocked' = [u \in Threads |-> unblocked[u] \/ u \in W]
    /\ phase' = [u \in Threads |-> IF u = t THEN "out"
                                   ELSE IF u \in W /\ phase[u] = "blocked" THEN "try"
                                   ELSE phase[u]]
    /\ UNCHANGED mode

\* Mutant: exclusive waiters are forgotten.
LeaveToNobody(t) == Leave(t, {}) /\ UNCHANGED m_exclusive_waiters

\* Wake the first exclusive waiter, if there is one.
LeaveToExclusive(t) ==
    \/ /\ m_exclusive_waiters = <<>>
       /\ Leave(t, {}) /\ UNCHANGED m_exclusive_waiters
    \/ /\ m_exclusive_waiters # <<>>
       /\ Leave(t, {Head(m_exclusive_waiters)})
       /\ m_exclusive_waiters' = Tail(m_exclusive_waiters)

\* Mutant: the count is decremented as in shared_unlock.
exclusive_unlock_decrements(t) ==
    /\ phase[t] = "held" /\ mode[t] = "exclusive"
    /\ m_shared_refcount' = m_shared_refcount - 1
    /\ Leave(t, {})
    /\ UNCHANGED <<m_shared_waiters, m_exclusive_waiters>>

\* All shared waiters are woken; an exclusive one only if there are none.
exclusive_unlock(t) ==
    /\ phase[t] = "held" /\ mode[t] = "exclusive"
    /\ m_shared_refcount' = free_mode
    /\ m_shared_waiters' = <<>>
    /\ \/ /\ m_shared_waiters # <<>>
          /\ Leave(t, {m_shared_waiters[i] : i \in DOMAIN m_shared_waiters})
          /\ UNCHANGED m_exclusive_waiters
       \/ m_shared_waiters = <<>> /\ LeaveToExclusive(t)

shared_unlock(t) ==
    /\ phase[t] = "held" /\ mode[t] = "shared"
    /\ m_shared_refcount' = m_shared_refcount - 1
    /\ UNCHANGED m_shared_waiters
    /\ \/ m_shared_refcount = free_mode + 1 /\ LeaveToExclusive(t)
       \/ /\ m_shared_refcount # free_mode + 1
          /\ Leave(t, {}) /\ UNCHANGED m_exclusive_waiters

Next ==
    \E t \in Threads :
        \/ \E m \in {"shared", "exclusive"} : call_lock(t, m)
        \/ exclusive_lock(t) \/ shared_lock(t) \/ block(t)
        \/ exclusive_unlock(t) \/ shared_unlock(t)

Spec == Init /\ [][Next]_vars

\* A thread that runs goes on running, and a critical section ends.
Fairness ==
    \A t \in Threads :
        /\ WF_vars(exclusive_lock(t) \/ shared_lock(t)) /\ WF_vars(block(t))
        /\ WF_vars(exclusive_unlock(t) \/ shared_unlock(t))

FairSpec == Spec /\ Fairness
------------------------------------------------------------------------------
Inside(m) == {t \in Threads : phase[t] = "held" /\ mode[t] = m}

TypeOK ==
    /\ m_shared_refcount \in exclusive_mode .. Cardinality(Threads)
    /\ m_shared_waiters \in Seq(Threads) /\ m_exclusive_waiters \in Seq(Threads)
    /\ phase \in [Threads -> {"out", "try", "park", "blocked", "held"}]
    /\ mode \in [Threads -> {"shared", "exclusive"}]
    /\ unblocked \in [Threads -> BOOLEAN]

\* m_shared_refcount is -1 for one exclusive owner and no shared one, and counts
\* the shared owners otherwise: writers exclude everybody.
RefcountExact ==
    \/ /\ m_shared_refcount = exclusive_mode
       /\ Cardinality(Inside("exclusive")) = 1 /\ Inside("shared") = {}
    \/ /\ m_shared_refcount = Cardinality(Inside("shared"))
       /\ Inside("exclusive") = {}

\* Shared waiters are only kept waiting by a writer inside (exclusive_unlock empties
\* their queue), and a free lock that writers sleep on is never abandoned: a thread
\* is on its way to it and will wake one of them.
NoStrandedWaiter ==
    /\ m_shared_waiters # <<>> => m_shared_refcount = exclusive_mode
    /\ m_shared_refcount = free_mode /\ m_exclusive_waiters # <<>>
          => \E t \in Threads : phase[t] = "try" \/ (phase[t] = "park" /\ unblocked[t])

\* Whoever calls for the lock, somebody gets it.
SomebodyEnters ==
    (\E t \in Threads : phase[t] \in {"try", "park", "blocked"})
        ~> (\E t \in Threads : phase[t] = "held")
==============================================================================
