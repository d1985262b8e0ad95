-------------------------------- MODULE Mutex --------------------------------
(***************************************************************************)
(* Kernel/Multitasking/Mutex.cpp, class Mutex: a sleeping lock.  Its state   *)
(* is only touched under m_state_access_lock, so each critical section is    *)
(* one step; a waiter queues its blocker in one step and blocks in a later   *)
(* one, and between the two it can already be unblocked.                     *)
(***************************************************************************)
EXTENDS Sequences, Naturals

CONSTANTS Threads, NoThread

ASSUME NoThreadAssumption == NoThread \notin Threads

VARIABLES
    m_owner,
    m_waiters,  \* the threads whose MutexBlocker is queued, in order
    phase,      \* where each thread is: see Phases
    unblocked   \* the result of its current MutexBlocker is UNBLOCKED

vars == <<m_owner, m_waiters, phase, unblocked>>

\* "out": not using the mutex.  "try": at the top of lock()'s loop.  "park": has
\* queued its blocker, pick_next has not blocked it yet.  "blocked": BLOCKED.
\* "held": lock() has returned.
Phases == {"out", "try", "park", "blocked", "held"}

Init ==
    /\ m_owner = NoThread
    /\ m_waiters = <<>>
    /\ phase = [t \in Threads |-> "out"]
    /\ unblocked = [t \in Threads |-> FALSE]

call_lock(t) ==
    /\ phase[t] = "out"
    /\ phase' = [phase EXCEPT ![t] = "try"]
    /\ UNCHANGED <<m_owner, m_waiters, unblocked>>

\* Mutant: the owner is not looked at.
lock_ignores_owner(t) ==
    /\ phase[t] = "try"
    /\ m_owner' = t
    /\ phase' = [phase EXCEPT ![t] = "held"]
    /\ UNCHANGED <<m_waiters, unblocked>>

\* One iteration of lock() under m_state_access_lock.
lock(t) ==
    /\ phase[t] = "try"
    /\ \/ /\ m_owner = NoThread
          /\ m_owner' = t
          /\ phase' = [phase EXCEPT ![t] = "held"]
          /\ UNCHANGED <<m_waiters, unblocked>>
       \/ /\ m_owner # NoThread
          /\ m_waiters' = Append(m_waiters, t)
          /\ unblocked' = [unblocked EXCEPT ![t] = FALSE]
          /\ phase' = [phase EXCEPT ![t] = "park"]
          /\ UNCHANGED m_owner

\* Mutant: an early unblock is lost.
block_always(t) ==
    /\ phase[t] = "park"
    /\ phase' = [phase EXCEPT ![t] = "blocked"]
    /\ UNCHANGED <<m_owner, m_waiters, unblocked>>

\* blocker.block(): pick_next blocks the thread unless it was unblocked first.
block(t) ==
    /\ phase[t] = "park"
    /\ phase' = [phase EXCEPT ![t] = IF unblocked[t] THEN "try" ELSE "blocked"]
    /\ UNCHANGED <<m_owner, m_waiters, unblocked>>

\* Mutants: the first waiter is woken but stays queued; nobody is woken.
unlock_keeps_waiter(t) ==
    /\ phase[t] = "held"
    /\ m_owner' = NoThread
    /\ phase' = [u \in Threads |-> IF u = t THEN "out"
                                   ELSE IF m_waiters # <<>> /\ u = Head(m_waiters) THEN "try"
                                   ELSE phase[u]]
    /\ UNCHANGED <<m_waiters, unblocked>>

unlock_wakes_nobody(t) ==
    /\ phase[t] = "held"
    /\ m_owner' = NoThread
    /\ phase' = [phase EXCEPT ![t] = "out"]
    /\ UNCHANGED <<m_waiters, unblocked>>

\* unlock(), with the Scheduler::unblock of the first waiter.
unlock(t) ==
    /\ phase[t] = "held"
    /\ m_owner' = NoThread
    /\ \/ /\ m_waiters = <<>>
          /\ phase' = [phase EXCEPT ![t] = "out"]
          /\ UNCHANGED <<m_waiters, unblocked>>
       \/ /\ m_waiters # <<>>
          /\ LET w == Head(m_waiters) IN
                /\ unblocked' = [unblocked EXCEPT ![w] = TRUE]
                /\ phase' = [phase EXCEPT ![t] = "out",
                                          ![w] = IF phase[w] = "blocked" THEN "try" ELSE @]
          /\ m_waiters' = Tail(m_waiters)

Next == \E t \in Threads : call_lock(t) \/ lock(t) \/ block(t) \/ unlock(t)

Spec == Init /\ [][Next]_vars

\* A thread that runs goes on running, and a critical section ends.
Fairness ==
    \A t \in Threads : WF_vars(lock(t)) /\ WF_vars(block(t)) /\ WF_vars(unlock(t))

FairSpec == Spec /\ Fairness
------------------------------------------------------------------------------
TypeOK ==
    /\ m_owner \in Threads \union {NoThread}
    /\ m_waiters \in Seq(Threads)
    /\ phase \in [Threads -> Phases]
    /\ unblocked \in [Threads -> BOOLEAN]

\* A thread is past lock() just when it is m_owner: unlock()'s ASSERT(m_owner ==
\* current) holds, and no two threads are inside at once.
OwnerIsInside == \A t \in Threads : phase[t] = "held" <=> m_owner = t

\* The queued blockers are those of threads that wait and were not unblocked, one
\* each: unlock() never unblocks a thread that has gone on, nor the same one twice.
WaitersExact ==
    /\ \A t \in Threads :
          (\E i \in DOMAIN m_waiters : m_waiters[i] = t)
              <=> (phase[t] \in {"park", "blocked"} /\ (phase[t] = "park" => ~unblocked[t]))
    /\ \A i, j \in DOMAIN m_waiters : m_waiters[i] = m_waiters[j] => i = j

\* Nobody is left behind: when the mutex is free and threads are queued, a
\* thread is on its way to take it, and will wake the next one.
NoStrandedWaiter ==
    m_owner = NoThread /\ m_waiters # <<>> =>
        \E t \in Threads : phase[t] = "try" \/ (phase[t] = "park" /\ unblocked[t])

\* With the sleeping and the waking hidden, Mutex is an abstract mutex.
Abstract == INSTANCE AbstractMutex WITH
    holder <- m_owner,
    waiting <- {t \in Threads : phase[t] \in {"try", "park", "blocked"}}

\* lock() and unlock() implement the abstract mutex, with its liveness.
ImplementsMutex == Abstract!Spec

\* The safety part of it, as proved for any set of threads.
ImplementsMutexSafety == Abstract!Safety
==============================================================================
