------------------------------- MODULE Blockers -------------------------------
(***************************************************************************)
(* Those who block threads and wake them one by one: Mutex, SharedMutex and   *)
(* the deferred IRQ thread.  A behaviour exercises one of the three, and the   *)
(* others stay as they were created.                                          *)
(*                                                                           *)
(* The proofs are for any sets of threads, CPUs and IRQ handlers.  Each of    *)
(* the three has an inductive invariant, from which the properties follow;    *)
(* Mutex implements AbstractMutex.                                           *)
(***************************************************************************)
EXTENDS Mutex, SequenceFacts, FiniteSetTheorems, WellFoundedInduction

CONSTANTS SharedThreads, CPUs, Handlers, MaxPending, None

VARIABLES exercised,
          m_shared_refcount, m_shared_waiters, m_exclusive_waiters, shared_phase, mode,
          shared_unblocked,
          pending, registered, irq, m_blocker, irq_unblocked, pc, todo, handling

sharedVars == <<m_shared_refcount, m_shared_waiters, m_exclusive_waiters, shared_phase, mode,
                shared_unblocked>>
deferredVars == <<pending, registered, irq, m_blocker, irq_unblocked, pc, todo, handling>>

Shared == INSTANCE SharedMutex WITH
    Threads <- SharedThreads, phase <- shared_phase, unblocked <- shared_unblocked

Deferred == INSTANCE DeferredIRQ WITH unblocked <- irq_unblocked

blockersVars == <<vars, sharedVars, deferredVars, exercised>>

BlockersInit == Init /\ Shared!Init /\ Deferred!Init

BlockersNext ==
    /\ UNCHANGED exercised
    /\ \/ exercised = "Mutex" /\ Next /\ UNCHANGED <<sharedVars, deferredVars>>
       \/ exercised = "SharedMutex" /\ Shared!Next /\ UNCHANGED <<vars, deferredVars>>
       \/ exercised = "DeferredIRQ" /\ Deferred!Next /\ UNCHANGED <<vars, sharedVars>>

BlockersSpec == BlockersInit /\ [][BlockersNext]_blockersVars

\* The type invariants of the three.
TypesOK == TypeOK /\ Shared!TypeOK /\ Deferred!TypeOK

\* m_shared_refcount tells who is inside a SharedMutex; its readers wait for a writer only
\* and a free lock with sleepers is never abandoned; the deferred IRQ thread can be woken
\* while it sleeps and does not sleep over an invocation whose interrupt has gone.
WakeupsExact == Shared!RefcountExact /\ Shared!NoStrandedWaiter /\ Deferred!NoLostInvocation

-----------------------------------------------------------------------------
(* Mutex.                                                                    *)

\* What Mutex.cpp maintains between critical sections of m_state_access_lock.
IInv == TypeOK /\ OwnerIsInside /\ WaitersExact /\ NoStrandedWaiter

\* A Mutex is constructed unowned and with no waiter.
LEMMA InitIInv == Init => IInv
  BY NoThreadAssumption
     DEF Init, IInv, TypeOK, Phases, OwnerIsInside, WaitersExact, NoStrandedWaiter

\* A thread that enters lock() is neither queued nor the owner.
LEMMA CallLockIInv ==
    ASSUME NEW t \in Threads, IInv, call_lock(t)
    PROVE  IInv'
<1> USE DEF IInv, TypeOK, Phases, call_lock
<1>1. TypeOK'
  BY Zenon
<1>2. OwnerIsInside'
  BY Zenon DEF OwnerIsInside
<1>3. WaitersExact'
  BY Zenon DEF WaitersExact
<1>4. NoStrandedWaiter'
  BY Zenon DEF NoStrandedWaiter
<1> QED
  BY Zenon, <1>1, <1>2, <1>3, <1>4

\* A blocked loop iteration queues the thread, which was not queued before.
LEMMA LockIInv ==
    ASSUME NEW t \in Threads, IInv, lock(t)
    PROVE  IInv'
<1> USE DEF IInv, TypeOK, Phases
<1>1. CASE m_owner = NoThread
  <2>1. m_owner' = t /\ phase' = [phase EXCEPT ![t] = "held"] /\ UNCHANGED <<m_waiters, unblocked>>
    BY Zenon, <1>1 DEF lock
  <2>2. phase[t] = "try"
    BY Zenon DEF lock
  <2>3. TypeOK'
    BY Zenon, <2>1
  <2>4. OwnerIsInside'
    BY Zenon, <1>1, <2>1, NoThreadAssumption DEF OwnerIsInside
  <2>5. WaitersExact'
    BY Zenon, <2>1, <2>2 DEF WaitersExact
  <2>6. NoStrandedWaiter'
    BY Zenon, <2>1, NoThreadAssumption DEF NoStrandedWaiter
  <2> QED
    BY Zenon, <2>3, <2>4, <2>5, <2>6
<1>2. CASE m_owner # NoThread
  <2>1. /\ m_waiters' = Append(m_waiters, t)
        /\ unblocked' = [unblocked EXCEPT ![t] = FALSE]
        /\ phase' = [phase EXCEPT ![t] = "park"]
        /\ m_owner' = m_owner
    BY Zenon, <1>2 DEF lock
  <2>2. phase[t] = "try"
    BY Zenon DEF lock
  <2>3. TypeOK'
    BY <2>1
  <2>4. OwnerIsInside'
    BY Zenon, <2>1, <2>2 DEF OwnerIsInside
  <2>5. WaitersExact'
    <3>0. ~In(t, m_waiters) /\ NoRepeat(m_waiters)
      BY Zenon, <2>2 DEF WaitersExact, In, NoRepeat
    <3>1. /\ \A u : In(u, m_waiters') <=> (In(u, m_waiters) \/ u = t)
          /\ NoRepeat(m_waiters')
      BY Zenon, <2>1, <3>0, AppendIn
    <3>2. /\ \A u \in Threads : u # t => phase'[u] = phase[u] /\ unblocked'[u] = unblocked[u]
          /\ phase'[t] = "park" /\ ~unblocked'[t]
      BY Zenon, <2>1
    <3> QED
      BY Zenon, <3>1, <3>2 DEF WaitersExact, In, NoRepeat
  <2>6. NoStrandedWaiter'
    BY Zenon, <1>2, <2>1 DEF NoStrandedWaiter
  <2> QED
    BY Zenon, <2>3, <2>4, <2>5, <2>6
<1> QED
  BY Zenon, <1>1, <1>2

\* An unblock that comes before the block sends the thread back to the loop.
LEMMA BlockIInv ==
    ASSUME NEW t \in Threads, IInv, block(t)
    PROVE  IInv'
<1> USE DEF IInv, TypeOK, Phases, block
<1>1. TypeOK'
  BY Zenon
<1>2. OwnerIsInside'
  BY Zenon DEF OwnerIsInside
<1>3. WaitersExact'
  BY DEF WaitersExact
<1>4. NoStrandedWaiter'
  BY Zenon DEF NoStrandedWaiter
<1> QED
  BY Zenon, <1>1, <1>2, <1>3, <1>4

\* The first waiter leaves the queue and is on its way, blocked or not.
LEMMA UnlockIInv ==
    ASSUME NEW t \in Threads, IInv, unlock(t)
    PROVE  IInv'
<1> USE DEF IInv, TypeOK, Phases
<1>1. phase[t] = "held" /\ m_owner = t /\ m_owner' = NoThread
  BY Zenon DEF unlock, OwnerIsInside
<1>2. CASE m_waiters = <<>>
  <2>1. phase' = [phase EXCEPT ![t] = "out"] /\ UNCHANGED <<m_waiters, unblocked>>
    BY Zenon, <1>2 DEF unlock
  <2>2. TypeOK'
    BY Zenon, <1>1, <2>1
  <2>3. OwnerIsInside'
    BY Zenon, <1>1, <2>1, NoThreadAssumption DEF OwnerIsInside
  <2>4. WaitersExact'
    BY Zenon, <1>1, <2>1 DEF WaitersExact
  <2>5. NoStrandedWaiter'
    BY Zenon, <1>2, <2>1 DEF NoStrandedWaiter
  <2> QED
    BY Zenon, <2>2, <2>3, <2>4, <2>5
<1>3. CASE m_waiters # <<>>
  <2> DEFINE w == Head(m_waiters)
  <2>1. /\ unblocked' = [unblocked EXCEPT ![w] = TRUE]
        /\ phase' = [phase EXCEPT ![t] = "out",
                                  ![w] = IF phase[w] = "blocked" THEN "try" ELSE @]
        /\ m_waiters' = Tail(m_waiters)
    BY Zenon, <1>3 DEF unlock
  <2>2. m_waiters' \in Seq(Threads) /\ w \in Threads
    BY Zenon, <1>3, <2>1, TailElements
  <2>3. /\ In(w, m_waiters)
        /\ \A u : In(u, m_waiters') <=> (In(u, m_waiters) /\ u # w)
        /\ NoRepeat(m_waiters')
    BY <1>3, <2>1, TailIn DEF WaitersExact, NoRepeat
  <2> HIDE DEF w
  <2>4. phase[w] \in {"park", "blocked"} /\ w # t
    BY Zenon, <1>1, <2>2, <2>3 DEF WaitersExact, In
  <2>5. TypeOK'
    BY Zenon, <1>1, <2>1, <2>2
  <2>6. OwnerIsInside'
    BY Zenon, <1>1, <2>1, <2>2, <2>4, NoThreadAssumption DEF OwnerIsInside
  <2>7. WaitersExact'
    <3>1. \A u \in Threads : u # w /\ u # t => phase'[u] = phase[u] /\ unblocked'[u] = unblocked[u]
      BY Zenon, <2>1
    <3>2. phase'[t] = "out" /\ phase'[w] \in {"try", "park"} /\ unblocked'[w] = TRUE
      BY Zenon, <2>1, <2>2, <2>4
    <3>3. ASSUME NEW u \in Threads
          PROVE  In(u, m_waiters')
                    <=> (phase'[u] \in {"park", "blocked"} /\ (phase'[u] = "park" => ~unblocked'[u]))
      <4>1. CASE u = w
        BY Zenon, <2>3, <3>2, <4>1
      <4>2. CASE u = t
        <5>1. ~In(t, m_waiters)
          BY Zenon, <1>1 DEF WaitersExact, In
        <5> QED
          BY Zenon, <2>3, <3>2, <4>2, <5>1
      <4>3. CASE u # w /\ u # t
        BY Zenon, <2>3, <3>1, <4>3 DEF WaitersExact, In
      <4> QED
        BY Zenon, <4>1, <4>2, <4>3
    <3> QED
      BY Zenon, <2>3, <3>3 DEF WaitersExact, In, NoRepeat
  <2>8. NoStrandedWaiter'
    BY Zenon, <2>1, <2>2, <2>4 DEF NoStrandedWaiter
  <2> QED
    BY Zenon, <2>5, <2>6, <2>7, <2>8
<1> QED
  BY Zenon, <1>2, <1>3

\* No critical section of Mutex.cpp breaks the invariant.
LEMMA NextIInv == IInv /\ [Next]_vars => IInv'
<1> SUFFICES ASSUME IInv, [Next]_vars
             PROVE  IInv'
  BY Zenon
<1>1. CASE UNCHANGED vars
  BY Zenon, <1>1 DEF vars, IInv, TypeOK, OwnerIsInside, WaitersExact, NoStrandedWaiter
<1>2. ASSUME NEW t \in Threads, call_lock(t) \/ lock(t) \/ block(t) \/ unlock(t)
      PROVE  IInv'
  BY Zenon, <1>2, CallLockIInv, LockIInv, BlockIInv, UnlockIInv
<1> QED
  BY Zenon, <1>1, <1>2 DEF Next

\* The invariant Mutex.cpp relies on holds of every behaviour.
THEOREM MutexInvariant == Spec => []IInv
  BY InitIInv, NextIInv, PTL DEF Spec

\* At most one thread is inside, and it is m_owner: ASSERT(m_owner == current)
\* of Mutex::unlock never fails.
THEOREM MutexOwnerIsInside == Spec => []OwnerIsInside
<1>1. IInv => OwnerIsInside
  BY Zenon DEF IInv
<1> QED
  BY <1>1, MutexInvariant, PTL

\* Mutex::unlock only ever unblocks a thread that is still waiting.
THEOREM MutexWaitersExact == Spec => []WaitersExact
<1>1. IInv => WaitersExact
  BY Zenon DEF IInv
<1> QED
  BY <1>1, MutexInvariant, PTL

\* The unlock that frees the mutex leaves nobody behind.
THEOREM MutexNoStrandedWaiter == Spec => []NoStrandedWaiter
<1>1. IInv => NoStrandedWaiter
  BY Zenon DEF IInv
<1> QED
  BY <1>1, MutexInvariant, PTL

\* Each critical section of Mutex.cpp is one step of the abstract mutex, or is
\* one of the sleeping steps it does not show.
LEMMA StepRefines ==
    ASSUME IInv, [Next]_vars
    PROVE  [Abstract!Next]_Abstract!vars
<1> DEFINE W == {u \in Threads : phase[u] \in {"try", "park", "blocked"}}
<1> USE DEF IInv, TypeOK, Phases, Abstract!vars
<1>1. CASE UNCHANGED vars
  <2>1. W' = W /\ m_owner' = m_owner
    BY Zenon, <1>1 DEF vars
  <2> QED
    BY Zenon, <2>1
<1>2. ASSUME NEW t \in Threads, call_lock(t)
      PROVE  Abstract!Next
  <2>1. W' = W \union {t} /\ t \notin W /\ m_owner' = m_owner /\ t # m_owner
    BY Zenon, <1>2 DEF call_lock, OwnerIsInside
  <2> QED
    BY Zenon, <2>1 DEF Abstract!Next, Abstract!Request
<1>3. ASSUME NEW t \in Threads, lock(t)
      PROVE  [Abstract!Next]_Abstract!vars
  <2>1. CASE m_owner = NoThread
    <3>1. W' = W \ {t} /\ t \in W /\ m_owner' = t
      BY Zenon, <1>3, <2>1 DEF lock
    <3> QED
      BY Zenon, <2>1, <3>1 DEF Abstract!Next, Abstract!Acquire
  <2>2. CASE m_owner # NoThread
    <3>1. W' = W /\ m_owner' = m_owner
      BY Zenon, <1>3, <2>2 DEF lock
    <3> QED
      BY Zenon, <3>1
  <2> QED
    BY Zenon, <2>1, <2>2
<1>4. ASSUME NEW t \in Threads, block(t)
      PROVE  UNCHANGED Abstract!vars
  <2>1. W' = W /\ m_owner' = m_owner
    BY Zenon, <1>4 DEF block
  <2> QED
    BY Zenon, <2>1
<1>5. ASSUME NEW t \in Threads, unlock(t)
      PROVE  Abstract!Next
  <2>1. m_owner = t /\ m_owner' = NoThread /\ phase[t] = "held"
    BY Zenon, <1>5 DEF unlock, OwnerIsInside
  <2>2. W' = W
    <3>1. CASE m_waiters = <<>>
      BY Zenon, <1>5, <2>1, <3>1 DEF unlock
    <3>2. CASE m_waiters # <<>>
      <4> DEFINE w == Head(m_waiters)
      <4>1. w \in Threads /\ phase[w] \in {"park", "blocked"}
        BY <3>2, TailElements DEF WaitersExact
      <4>2. phase' = [phase EXCEPT ![t] = "out",
                                   ![w] = IF phase[w] = "blocked" THEN "try" ELSE @]
        BY Zenon, <1>5, <3>2 DEF unlock
      <4> HIDE DEF w
      <4> QED
        BY Zenon, <2>1, <4>1, <4>2
    <3> QED
      BY Zenon, <3>1, <3>2
  <2> QED
    BY Zenon, <2>1, <2>2 DEF Abstract!Next, Abstract!Release
<1> QED
  BY Zenon, <1>1, <1>2, <1>3, <1>4, <1>5 DEF Next

\* lock() and unlock() implement the safety of the abstract mutex: mutual
\* exclusion, and a release for every acquisition.
THEOREM MutexImplementsAbstract == Spec => ImplementsMutexSafety
<1>1. Init => Abstract!Init
  BY Zenon DEF Init, Abstract!Init
<1>2. IInv /\ [Next]_vars => [Abstract!Next]_Abstract!vars
  BY Zenon, StepRefines
<1> QED
  BY <1>1, <1>2, MutexInvariant, PTL DEF Spec, ImplementsMutexSafety, Abstract!Safety

-----------------------------------------------------------------------------
(* SharedMutex.                                                               *)

\* SharedMutex counts with the Cardinality of an instance, which is the same.
LEMMA SharedCardinality == \A S : Shared!Cardinality(S) = Cardinality(S)
  BY Zenon, Zenon DEF Shared!Cardinality, Cardinality, Shared!IsFiniteSet, IsFiniteSet

SharedTypes ==
    /\ m_shared_refcount \in Int
    /\ m_shared_waiters \in Seq(SharedThreads) /\ m_exclusive_waiters \in Seq(SharedThreads)
    /\ shared_phase \in [SharedThreads -> {"out", "try", "park", "blocked", "held"}]
    /\ mode \in [SharedThreads -> {"shared", "exclusive"}]
    /\ shared_unblocked \in [SharedThreads -> BOOLEAN]

\* t sleeps, or is about to, and nobody has unblocked it.
SharedWaits(t, m) == mode[t] = m /\ (shared_phase[t] = "blocked" \/ (shared_phase[t] = "park" /\ ~shared_unblocked[t]))

\* Each list holds the blockers of those who wait for that kind of lock, once each.
SharedQueuesExact ==
    /\ NoRepeat(m_shared_waiters) /\ NoRepeat(m_exclusive_waiters)
    /\ \A t \in SharedThreads : In(t, m_shared_waiters) <=> SharedWaits(t, "shared")
    /\ \A t \in SharedThreads : In(t, m_exclusive_waiters) <=> SharedWaits(t, "exclusive")

\* What SharedMutex maintains between critical sections of m_state_access_lock.
SharedIInv == SharedTypes /\ Shared!RefcountExact /\ SharedQueuesExact /\ Shared!NoStrandedWaiter

\* A SharedMutex is constructed free and with no waiter.
LEMMA SharedInit == Shared!Init => SharedIInv
<1> SUFFICES ASSUME Shared!Init PROVE SharedIInv
  BY Zenon
<1> USE DEF Shared!Init, Shared!free_mode
<1>1. SharedTypes
  BY DEF SharedTypes
<1>2. Shared!RefcountExact
  <2>1. Shared!Inside("shared") = {} /\ Shared!Inside("exclusive") = {}
    BY Zenon DEF Shared!Inside
  <2> QED
    BY Zenon, <2>1, FS_EmptySet, SharedCardinality DEF Shared!RefcountExact
<1>3. SharedQueuesExact
  BY DEF SharedQueuesExact, NoRepeat, In, SharedWaits
<1>4. Shared!NoStrandedWaiter
  BY Zenon DEF Shared!NoStrandedWaiter
<1> QED
  BY Zenon, <1>1, <1>2, <1>3, <1>4 DEF SharedIInv

\* A step that lets nobody in or out and leaves the count alone keeps it exact.
LEMMA InsideUntouched ==
    ASSUME SharedIInv, m_shared_refcount' = m_shared_refcount,
           \A t \in SharedThreads : \A m \in {"shared", "exclusive"} :
               (shared_phase'[t] = "held" /\ mode'[t] = m) <=> (shared_phase[t] = "held" /\ mode[t] = m)
    PROVE  Shared!RefcountExact'
<1>1. Shared!Inside("shared")' = Shared!Inside("shared") /\ Shared!Inside("exclusive")' = Shared!Inside("exclusive")
  BY Zenon DEF Shared!Inside
<1> QED
  BY Zenon, <1>1, SharedCardinality DEF SharedIInv, Shared!RefcountExact

\* A thread that calls for the lock does not wait for it yet.
LEMMA SharedCallLock ==
    ASSUME NEW t \in SharedThreads, NEW m \in {"shared", "exclusive"}, SharedIInv, Shared!call_lock(t, m)
    PROVE  SharedIInv'
<1> USE DEF SharedIInv, SharedTypes, Shared!call_lock
<1>1. SharedTypes'
  BY Zenon
<1>2. Shared!RefcountExact'
  BY Zenon, InsideUntouched
<1>3. SharedQueuesExact'
  BY Zenon DEF SharedQueuesExact, SharedWaits
<1>4. Shared!NoStrandedWaiter'
  BY Zenon DEF Shared!NoStrandedWaiter
<1> QED
  BY Zenon, <1>1, <1>2, <1>3, <1>4

\* Whoever comes in is counted; the lists stay as they are, for the one who enters is on neither.
LEMMA SharedEnter ==
    ASSUME IsFiniteSet(SharedThreads), NEW t \in SharedThreads, SharedIInv, shared_phase[t] = "try",
           \/ mode[t] = "exclusive" /\ m_shared_refcount = Shared!free_mode /\ Shared!Enter(t, Shared!exclusive_mode)
           \/ mode[t] = "shared" /\ m_shared_refcount >= Shared!free_mode /\ Shared!Enter(t, m_shared_refcount + 1)
    PROVE  SharedIInv'
<1> USE DEF SharedIInv, SharedTypes, Shared!Enter, Shared!free_mode, Shared!exclusive_mode
<1>1. SharedTypes'
  OBVIOUS
<1>2. Shared!RefcountExact'
  <2>1. IsFiniteSet(Shared!Inside("shared")) /\ IsFiniteSet(Shared!Inside("exclusive"))
    BY Zenon, FS_Subset DEF Shared!Inside
  <2>2. Cardinality(Shared!Inside("shared")) \in Nat
    BY Zenon, <2>1, FS_CardinalityType
  <2>3. m_shared_refcount = Cardinality(Shared!Inside("shared")) /\ Shared!Inside("exclusive") = {}
    BY <2>2, SharedCardinality DEF Shared!RefcountExact
  <2>4. CASE mode[t] = "exclusive" /\ m_shared_refcount = 0 /\ m_shared_refcount' = -1
    <3>1. Shared!Inside("shared") = {}
      BY Zenon, <2>1, <2>3, <2>4, FS_EmptySet
    <3>2. Shared!Inside("shared")' = {} /\ Shared!Inside("exclusive")' = {t}
      BY Zenon, <2>3, <2>4, <3>1 DEF Shared!Inside
    <3>3. Cardinality(Shared!Inside("exclusive")') = 1
      BY Zenon, <3>2, FS_Singleton
    <3> QED
      BY Zenon, <2>4, <3>2, <3>3, SharedCardinality DEF Shared!RefcountExact
  <2>5. CASE mode[t] = "shared" /\ m_shared_refcount' = m_shared_refcount + 1
    <3>1. Shared!Inside("shared")' = Shared!Inside("shared") \union {t} /\ Shared!Inside("exclusive")' = {} /\ t \notin Shared!Inside("shared")
      BY Zenon, <2>3, <2>5 DEF Shared!Inside
    <3>2. Cardinality(Shared!Inside("shared")') = Cardinality(Shared!Inside("shared")) + 1
      BY Zenon, <2>1, <3>1, FS_AddElement
    <3> QED
      BY Zenon, <2>3, <2>5, <3>1, <3>2, SharedCardinality DEF Shared!RefcountExact
  <2> QED
    BY Zenon, <2>4, <2>5
<1>3. SharedQueuesExact'
  BY DEF SharedQueuesExact, SharedWaits
<1>4. Shared!NoStrandedWaiter'
  BY DEF Shared!NoStrandedWaiter
<1> QED
  BY Zenon, <1>1, <1>2, <1>3, <1>4

\* One more waits; it was on no list.
LEMMA SharedPark ==
    ASSUME IsFiniteSet(SharedThreads), NEW t \in SharedThreads, SharedIInv, shared_phase[t] = "try", Shared!Park(t),
           \/ /\ mode[t] = "exclusive" /\ m_shared_refcount # Shared!free_mode
              /\ m_exclusive_waiters' = Append(m_exclusive_waiters, t) /\ UNCHANGED m_shared_waiters
           \/ /\ mode[t] = "shared" /\ m_shared_refcount < Shared!free_mode
              /\ m_shared_waiters' = Append(m_shared_waiters, t) /\ UNCHANGED m_exclusive_waiters
    PROVE  SharedIInv'
<1> USE DEF SharedIInv, SharedTypes, Shared!Park, Shared!free_mode
<1>1. SharedTypes'
  <2>1. Append(m_exclusive_waiters, t) \in Seq(SharedThreads) /\ Append(m_shared_waiters, t) \in Seq(SharedThreads)
    BY Zenon, AppendElements
  <2> QED
    BY Zenon, <2>1
<1>2. Shared!RefcountExact'
  BY Zenon, InsideUntouched
<1>3. SharedQueuesExact'
  <2>1. ~In(t, m_shared_waiters) /\ ~In(t, m_exclusive_waiters)
    BY Zenon DEF SharedQueuesExact, SharedWaits
  <2>2. \A u \in SharedThreads : u # t => \A m : SharedWaits(u, m)' <=> SharedWaits(u, m)
    BY Zenon DEF SharedWaits
  <2>3. \A m : SharedWaits(t, m)' <=> mode[t] = m
    BY Zenon DEF SharedWaits
  <2>4. CASE mode[t] = "exclusive" /\ m_exclusive_waiters' = Append(m_exclusive_waiters, t) /\ UNCHANGED m_shared_waiters
    <3>1. NoRepeat(m_exclusive_waiters') /\ \A u : In(u, m_exclusive_waiters') <=> (In(u, m_exclusive_waiters) \/ u = t)
      BY Zenon, <2>1, <2>4, AppendIn DEF SharedQueuesExact
    <3> QED
      BY Zenon, <2>1, <2>2, <2>3, <2>4, <3>1 DEF SharedQueuesExact
  <2>5. CASE mode[t] = "shared" /\ m_shared_waiters' = Append(m_shared_waiters, t) /\ UNCHANGED m_exclusive_waiters
    <3>1. NoRepeat(m_shared_waiters') /\ \A u : In(u, m_shared_waiters') <=> (In(u, m_shared_waiters) \/ u = t)
      BY Zenon, <2>1, <2>5, AppendIn DEF SharedQueuesExact
    <3> QED
      BY Zenon, <2>1, <2>2, <2>3, <2>5, <3>1 DEF SharedQueuesExact
  <2> QED
    BY Zenon, <2>4, <2>5
<1>4. Shared!NoStrandedWaiter'
  <2>1. m_shared_waiters' # <<>> => m_shared_refcount = Shared!exclusive_mode
    <3>0. Cardinality(Shared!Inside("shared")) \in Nat
      BY Zenon, FS_Subset, FS_CardinalityType DEF Shared!Inside
    <3>1. m_shared_refcount < 0 => m_shared_refcount = Shared!exclusive_mode
      BY <3>0, SharedCardinality DEF Shared!RefcountExact, Shared!exclusive_mode
    <3> QED
      BY Zenon, <3>1 DEF Shared!NoStrandedWaiter
  <2> QED
    BY <2>1 DEF Shared!NoStrandedWaiter, Shared!exclusive_mode
<1> QED
  BY Zenon, <1>1, <1>2, <1>3, <1>4

\* An unblock that comes before the block sends the thread back to the loop.
LEMMA SharedBlock ==
    ASSUME NEW t \in SharedThreads, SharedIInv, Shared!block(t)
    PROVE  SharedIInv'
<1> USE DEF SharedIInv, SharedTypes, Shared!block
<1>1. SharedTypes'
  BY Zenon
<1>2. Shared!RefcountExact'
  BY Zenon, InsideUntouched
<1>3. SharedQueuesExact'
  BY Zenon DEF SharedQueuesExact, SharedWaits
<1>4. Shared!NoStrandedWaiter'
  BY Zenon DEF Shared!NoStrandedWaiter
<1> QED
  BY Zenon, <1>1, <1>2, <1>3, <1>4

\* What an unlock that wakes the threads of W does to who is inside, who waits and who is on its way.
LEMMA LeaveFacts ==
    ASSUME SharedTypes, NEW t \in SharedThreads, NEW W \in SUBSET SharedThreads, shared_phase[t] = "held", Shared!Leave(t, W)
    PROVE  /\ shared_phase' \in [SharedThreads -> {"out", "try", "park", "blocked", "held"}]
           /\ shared_unblocked' \in [SharedThreads -> BOOLEAN] /\ mode' = mode
           /\ \A m : Shared!Inside(m)' = Shared!Inside(m) \ {t}
           /\ \A u \in SharedThreads : \A m : SharedWaits(u, m)' <=> (SharedWaits(u, m) /\ u \notin W)
           /\ \A u \in W : \A m : SharedWaits(u, m) => shared_phase'[u] = "try" \/ (shared_phase'[u] = "park" /\ shared_unblocked'[u])
           /\ \A u \in SharedThreads : u # t /\ (shared_phase[u] = "try" \/ (shared_phase[u] = "park" /\ shared_unblocked[u]))
                 => (shared_phase'[u] = "try" \/ (shared_phase'[u] = "park" /\ shared_unblocked'[u]))
<1> USE DEF SharedTypes, Shared!Leave
<1>1. shared_phase' \in [SharedThreads -> {"out", "try", "park", "blocked", "held"}]
  BY Zenon
<1>2. shared_unblocked' \in [SharedThreads -> BOOLEAN] /\ mode' = mode
  BY Zenon
<1>3. \A m : Shared!Inside(m)' = Shared!Inside(m) \ {t}
  BY Zenon DEF Shared!Inside
<1>4. \A u \in SharedThreads : \A m : SharedWaits(u, m)' <=> (SharedWaits(u, m) /\ u \notin W)
  BY Zenon DEF SharedWaits
<1>5. \A u \in W : \A m : SharedWaits(u, m) => shared_phase'[u] = "try" \/ (shared_phase'[u] = "park" /\ shared_unblocked'[u])
  BY Zenon DEF SharedWaits
<1>6. \A u \in SharedThreads : u # t /\ (shared_phase[u] = "try" \/ (shared_phase[u] = "park" /\ shared_unblocked[u]))
          => (shared_phase'[u] = "try" \/ (shared_phase'[u] = "park" /\ shared_unblocked'[u]))
  BY Zenon
<1> QED
  BY Zenon, <1>1, <1>2, <1>3, <1>4, <1>5, <1>6

\* The first writer in the list, if there is one, leaves it and is on its way.
LEMMA LeaveToExclusiveFacts ==
    ASSUME SharedIInv, NEW t \in SharedThreads, shared_phase[t] = "held", Shared!LeaveToExclusive(t), UNCHANGED m_shared_waiters
    PROVE  /\ \E W \in SUBSET SharedThreads : Shared!Leave(t, W)
           /\ m_exclusive_waiters' \in Seq(SharedThreads)
           /\ SharedQueuesExact'
           /\ m_exclusive_waiters' # <<>> =>
                 \E u \in SharedThreads : shared_phase'[u] = "try" \/ (shared_phase'[u] = "park" /\ shared_unblocked'[u])
<1> USE DEF SharedIInv
<1>0. \A u : ~In(u, <<>>)
  BY DEF In
<1>1. CASE m_exclusive_waiters = <<>>
  <2>1. Shared!Leave(t, {}) /\ m_exclusive_waiters' = <<>>
    BY Zenon, <1>1 DEF Shared!LeaveToExclusive
  <2>2. \A u \in SharedThreads : \A m : SharedWaits(u, m)' <=> SharedWaits(u, m)
    BY <2>1, LeaveFacts
  <2>3. SharedQueuesExact'
    BY Zenon, <1>1, <2>1, <2>2 DEF SharedQueuesExact
  <2> QED
    BY <2>1, <2>3
<1>2. CASE m_exclusive_waiters # <<>>
  <2> DEFINE w == Head(m_exclusive_waiters)
  <2>1. Shared!Leave(t, {w}) /\ m_exclusive_waiters' = Tail(m_exclusive_waiters)
    BY Zenon, <1>2 DEF Shared!LeaveToExclusive
  <2>2. w \in SharedThreads /\ m_exclusive_waiters' \in Seq(SharedThreads)
    BY Zenon, <1>2, <2>1, TailElements DEF SharedTypes
  <2>3. /\ In(w, m_exclusive_waiters) /\ NoRepeat(m_exclusive_waiters')
        /\ \A u : In(u, m_exclusive_waiters') <=> (In(u, m_exclusive_waiters) /\ u # w)
    BY Zenon, <1>2, <2>1, TailIn DEF SharedTypes, SharedQueuesExact
  <2> HIDE DEF w
  <2>4. SharedWaits(w, "exclusive") /\ ~SharedWaits(w, "shared")
    BY Zenon, <2>2, <2>3 DEF SharedQueuesExact, SharedWaits
  <2>5. /\ \A u \in SharedThreads : \A m : SharedWaits(u, m)' <=> (SharedWaits(u, m) /\ u \notin {w})
        /\ shared_phase'[w] = "try" \/ (shared_phase'[w] = "park" /\ shared_unblocked'[w])
    BY Zenon, <2>1, <2>2, <2>4, LeaveFacts
  <2>6. SharedQueuesExact'
    BY Zenon, <2>3, <2>4, <2>5 DEF SharedQueuesExact
  <2> QED
    BY Zenon, <2>1, <2>2, <2>5, <2>6
<1> QED
  BY Zenon, <1>1, <1>2

\* The one writer leaves; readers that wait come first.
LEMMA ExclusiveUnlock ==
    ASSUME IsFiniteSet(SharedThreads), NEW t \in SharedThreads, SharedIInv, Shared!exclusive_unlock(t)
    PROVE  SharedIInv'
<1> USE DEF SharedIInv, Shared!free_mode, Shared!exclusive_mode
<1>0. shared_phase[t] = "held" /\ mode[t] = "exclusive" /\ m_shared_refcount' = 0 /\ m_shared_waiters' = <<>>
  BY Zenon DEF Shared!exclusive_unlock
<1>1. /\ \E W \in SUBSET SharedThreads : Shared!Leave(t, W)
      /\ m_exclusive_waiters' \in Seq(SharedThreads)
      /\ SharedQueuesExact'
      /\ m_exclusive_waiters' # <<>> =>
            \E u \in SharedThreads : shared_phase'[u] = "try" \/ (shared_phase'[u] = "park" /\ shared_unblocked'[u])
  <2>1. CASE m_shared_waiters = <<>>
    <3>1. Shared!LeaveToExclusive(t) /\ UNCHANGED m_shared_waiters
      BY Zenon, <1>0, <2>1 DEF Shared!exclusive_unlock
    <3> QED
      BY Zenon, <1>0, <3>1, LeaveToExclusiveFacts
  <2>2. CASE m_shared_waiters # <<>>
    <3> DEFINE W == {m_shared_waiters[i] : i \in DOMAIN m_shared_waiters}
    <3>1. Shared!Leave(t, W) /\ m_exclusive_waiters' = m_exclusive_waiters
      BY Zenon, <2>2 DEF Shared!exclusive_unlock
    <3>2. W \in SUBSET SharedThreads /\ (\A u : u \in W <=> In(u, m_shared_waiters)) /\ m_shared_waiters[1] \in W
      BY <2>2 DEF SharedTypes, In
    <3> HIDE DEF W
    <3>3. /\ \A u \in SharedThreads : \A m : SharedWaits(u, m)' <=> (SharedWaits(u, m) /\ u \notin W)
          /\ \A u \in W : \A m : SharedWaits(u, m) => shared_phase'[u] = "try" \/ (shared_phase'[u] = "park" /\ shared_unblocked'[u])
      BY Zenon, <1>0, <3>1, <3>2, LeaveFacts
    <3>4. \A u \in SharedThreads : u \in W <=> SharedWaits(u, "shared")
      BY Zenon, <3>2 DEF SharedQueuesExact
    <3>5. \A u \in SharedThreads : ~SharedWaits(u, "shared")' /\ (SharedWaits(u, "exclusive")' <=> SharedWaits(u, "exclusive"))
      BY Zenon, <3>3, <3>4 DEF SharedWaits
    <3>6. SharedQueuesExact'
      BY <1>0, <3>1, <3>5 DEF SharedQueuesExact, NoRepeat, In
    <3>7. \E u \in SharedThreads : shared_phase'[u] = "try" \/ (shared_phase'[u] = "park" /\ shared_unblocked'[u])
      BY Zenon, <3>2, <3>3, <3>4
    <3> QED
      BY Zenon, <3>1, <3>2, <3>6, <3>7 DEF SharedTypes
  <2> QED
    BY Zenon, <2>1, <2>2
<1>2. PICK W \in SUBSET SharedThreads : Shared!Leave(t, W)
  BY Zenon, <1>1
<1>3. /\ shared_phase' \in [SharedThreads -> {"out", "try", "park", "blocked", "held"}]
      /\ shared_unblocked' \in [SharedThreads -> BOOLEAN] /\ mode' = mode
      /\ \A m : Shared!Inside(m)' = Shared!Inside(m) \ {t}
  BY Zenon, <1>0, <1>2, LeaveFacts
<1>4. SharedTypes'
  BY <1>0, <1>1, <1>3 DEF SharedTypes
<1>5. Shared!RefcountExact'
  <2>1. t \in Shared!Inside("exclusive")
    BY Zenon, <1>0 DEF Shared!Inside
  <2>2. Cardinality(Shared!Inside("exclusive")) = 1 /\ Shared!Inside("shared") = {} /\ IsFiniteSet(Shared!Inside("exclusive"))
    BY Zenon, <2>1, FS_Subset, SharedCardinality DEF Shared!RefcountExact, Shared!Inside
  <2>3. Shared!Inside("exclusive") = {t}
    BY <2>1, <2>2, FS_Singleton
  <2>4. Shared!Inside("exclusive")' = {} /\ Shared!Inside("shared")' = {}
    BY Zenon, <1>3, <2>2, <2>3
  <2> QED
    BY Zenon, <1>0, <2>4, FS_EmptySet, SharedCardinality DEF Shared!RefcountExact
<1>6. Shared!NoStrandedWaiter'
  BY Zenon, <1>0, <1>1 DEF Shared!NoStrandedWaiter
<1> QED
  BY Zenon, <1>1, <1>4, <1>5, <1>6

\* A reader leaves, and the last one wakes a writer; no reader waits while readers are inside.
LEMMA SharedUnlock ==
    ASSUME IsFiniteSet(SharedThreads), NEW t \in SharedThreads, SharedIInv, Shared!shared_unlock(t)
    PROVE  SharedIInv'
<1> USE DEF SharedIInv, Shared!free_mode, Shared!exclusive_mode
<1>0. /\ shared_phase[t] = "held" /\ mode[t] = "shared" /\ m_shared_refcount' = m_shared_refcount - 1
      /\ UNCHANGED m_shared_waiters /\ m_shared_refcount \in Int
  BY Zenon DEF Shared!shared_unlock, SharedTypes
<1>1. /\ \E W \in SUBSET SharedThreads : Shared!Leave(t, W)
      /\ m_exclusive_waiters' \in Seq(SharedThreads)
      /\ SharedQueuesExact'
      /\ m_exclusive_waiters' # <<>> /\ m_shared_refcount = 1 =>
            \E u \in SharedThreads : shared_phase'[u] = "try" \/ (shared_phase'[u] = "park" /\ shared_unblocked'[u])
  <2>1. CASE Shared!LeaveToExclusive(t)
    BY Zenon, <1>0, <2>1, LeaveToExclusiveFacts
  <2>2. CASE m_shared_refcount # 1 /\ Shared!Leave(t, {}) /\ UNCHANGED m_exclusive_waiters
    <3>1. \A u \in SharedThreads : \A m : SharedWaits(u, m)' <=> SharedWaits(u, m)
      BY <1>0, <2>2, LeaveFacts
    <3>2. SharedQueuesExact'
      BY Zenon, <1>0, <2>2, <3>1 DEF SharedQueuesExact
    <3> QED
      BY Zenon, <2>2, <3>2 DEF SharedTypes
  <2> QED
    BY <2>1, <2>2 DEF Shared!shared_unlock
<1>2. PICK W \in SUBSET SharedThreads : Shared!Leave(t, W)
  BY Zenon, <1>1
<1>3. /\ shared_phase' \in [SharedThreads -> {"out", "try", "park", "blocked", "held"}]
      /\ shared_unblocked' \in [SharedThreads -> BOOLEAN] /\ mode' = mode
      /\ \A m : Shared!Inside(m)' = Shared!Inside(m) \ {t}
  BY Zenon, <1>0, <1>2, LeaveFacts
<1>4. SharedTypes'
  BY <1>0, <1>1, <1>3 DEF SharedTypes
<1>5. t \in Shared!Inside("shared") /\ t \notin Shared!Inside("exclusive") /\ IsFiniteSet(Shared!Inside("shared"))
  BY Zenon, <1>0, FS_Subset DEF Shared!Inside
<1>6. m_shared_refcount = Cardinality(Shared!Inside("shared")) /\ Shared!Inside("exclusive") = {}
  BY Zenon, <1>5, SharedCardinality DEF Shared!RefcountExact
<1>7. Cardinality(Shared!Inside("shared")) \in Nat /\ Cardinality(Shared!Inside("shared") \ {t}) = Cardinality(Shared!Inside("shared")) - 1
  BY Zenon, <1>5, FS_CardinalityType, FS_RemoveElement
<1>8. Shared!RefcountExact'
  <2>1. Shared!Inside("exclusive")' = {} /\ Shared!Inside("shared")' = Shared!Inside("shared") \ {t}
    BY Zenon, <1>3, <1>6
  <2> QED
    BY Zenon, <1>0, <1>6, <1>7, <2>1, SharedCardinality DEF Shared!RefcountExact
<1>9. Shared!NoStrandedWaiter'
  <2>1. m_shared_waiters' = <<>>
    BY <1>0, <1>6, <1>7 DEF Shared!NoStrandedWaiter
  <2> QED
    BY <1>0, <1>1, <2>1 DEF Shared!NoStrandedWaiter
<1> QED
  BY Zenon, <1>1, <1>4, <1>8, <1>9

\* No critical section breaks the invariant.
LEMMA SharedNext == ASSUME IsFiniteSet(SharedThreads), SharedIInv, [Shared!Next]_(Shared!vars) PROVE SharedIInv'
<1>1. CASE UNCHANGED Shared!vars
  <2>1. SharedTypes' /\ SharedQueuesExact' /\ Shared!NoStrandedWaiter'
    BY Zenon, <1>1 DEF Shared!vars, SharedIInv, SharedTypes, SharedQueuesExact, SharedWaits, Shared!NoStrandedWaiter
  <2>2. Shared!RefcountExact'
    BY Zenon, <1>1, InsideUntouched DEF Shared!vars
  <2> QED
    BY Zenon, <2>1, <2>2 DEF SharedIInv
<1>2. ASSUME NEW t \in SharedThreads, Shared!exclusive_lock(t) PROVE SharedIInv'
  BY Zenon, <1>2, SharedEnter, SharedPark DEF Shared!exclusive_lock
<1>3. ASSUME NEW t \in SharedThreads, Shared!shared_lock(t) PROVE SharedIInv'
  BY Zenon, <1>3, SharedEnter, SharedPark DEF Shared!shared_lock
<1> QED
  BY Zenon, <1>1, <1>2, <1>3, SharedCallLock, SharedBlock, ExclusiveUnlock, SharedUnlock DEF Shared!Next

\* However many threads there are, the reference count of SharedMutex is -1 exactly when one thread
\* is inside between exclusive_lock() and exclusive_unlock(), and then no other is inside; otherwise
\* it counts those between shared_lock() and shared_unlock().
THEOREM WritersExclude == ASSUME IsFiniteSet(SharedThreads) PROVE Shared!Spec => []Shared!RefcountExact
<1>1. SharedIInv /\ [Shared!Next]_(Shared!vars) => SharedIInv'
  BY Zenon, SharedNext
<1>2. SharedIInv => Shared!RefcountExact
  BY Zenon DEF SharedIInv
<1> QED
  BY <1>1, <1>2, SharedInit, PTL DEF Shared!Spec

\* However many threads there are, readers wait in SharedMutex only while a writer is inside, and
\* a free SharedMutex that writers wait for has a thread on its way to it.
THEOREM NobodyStranded == ASSUME IsFiniteSet(SharedThreads) PROVE Shared!Spec => []Shared!NoStrandedWaiter
<1>1. SharedIInv /\ [Shared!Next]_(Shared!vars) => SharedIInv'
  BY Zenon, SharedNext
<1>2. SharedIInv => Shared!NoStrandedWaiter
  BY Zenon DEF SharedIInv
<1> QED
  BY <1>1, <1>2, SharedInit, PTL DEF Shared!Spec

-----------------------------------------------------------------------------
(* The deferred IRQ thread.                                                  *)

\* An interrupt has counted its invocation and has not asked for the thread yet.
InterruptUnderWay == \E c \in CPUs : irq[c] # None

\* While the thread runs its blocker is published, and it has left a pending invocation behind
\* only if it will not block, or if the interrupt that counted it will still ask.
RunsBefore ==
    pc = "run" =>
        \/ irq_unblocked \/ InterruptUnderWay
        \/ \A h \in registered \ todo : pending[h] = 0

\* What holds between the steps of interrupts, drivers and do_run_handlers.
DeferredIInv ==
    /\ Deferred!TypeOK
    /\ pc \in {"run", "blocked", "clear"} <=> m_blocker
    /\ \A h \in Handlers \ registered : pending[h] = 0
    /\ handling # None => pc = "run"
    /\ RunsBefore
    /\ Deferred!NoLostInvocation

\* No handler is registered at first, and the thread has not run.
LEMMA DeferredInit == Deferred!Init => DeferredIInv
<1> SUFFICES ASSUME Deferred!Init PROVE DeferredIInv
  BY Zenon
<1> USE DEF Deferred!Init
<1>1. Deferred!TypeOK
  BY Zenon DEF Deferred!TypeOK
<1>2. \A h \in Handlers \ registered : pending[h] = 0
  BY Zenon
<1>3. pc = "set" /\ ~m_blocker /\ handling = None
  BY Zenon
<1> QED
  BY Zenon, <1>1, <1>2, <1>3 DEF DeferredIInv, RunsBefore, Deferred!NoLostInvocation

\* The loop over m_handlers has a first one to visit.
LEMMA FirstHandler ==
    ASSUME Handlers \subseteq Nat, todo \subseteq Handlers, todo # {}
    PROVE  Deferred!First(todo) \in todo
<1>1. todo \subseteq Nat
  BY Zenon
<1>2. \E h \in todo : \A g \in todo : ~(<<g, h>> \in OpToRel(<, Nat))
  BY Zenon, Zenon, <1>1, NatLessThanWellFounded, WFMin
<1>3. \A g, h \in Nat : <<g, h>> \notin OpToRel(<, Nat) => ~(g < h)
  BY Zenon DEF OpToRel
<1>4. \A g, h \in Nat : ~(g < h) => h <= g
  OBVIOUS
<1>5. \E h \in todo : \A g \in todo : h <= g
  BY Zenon, Zenon, <1>1, <1>2, <1>3, <1>4
<1> QED
  BY Zenon, Zenon, <1>5 DEF Deferred!First

\* Drivers come and go while the thread does not run handlers, and go only when they are quiet.
LEMMA RegistrationKeeps ==
    ASSUME DeferredIInv, NEW h \in Handlers, Deferred!register_handler(h) \/ Deferred!unregister_handler(h)
    PROVE  DeferredIInv'
<1> USE DEF DeferredIInv, Deferred!register_handler, Deferred!unregister_handler, Deferred!HandlersLockFree
<1>1. Deferred!TypeOK'
  BY Zenon DEF Deferred!TypeOK
<1>2. \A g \in Handlers \ registered' : pending'[g] = 0
  BY Zenon DEF Deferred!TypeOK
<1>3. RunsBefore'
  BY Zenon DEF RunsBefore
<1>4. Deferred!NoLostInvocation'
  BY DEF Deferred!NoLostInvocation
<1> QED
  BY <1>1, <1>2, <1>3, <1>4

\* An interrupt counts, and is under way until it has asked for the thread.
LEMMA InvokeKeeps ==
    ASSUME None \notin Handlers, DeferredIInv, NEW c \in CPUs, NEW h \in Handlers, Deferred!deferred_invoke(c, h)
    PROVE  DeferredIInv'
<1> USE DEF DeferredIInv, Deferred!deferred_invoke
<1>1. Deferred!TypeOK'
  BY DEF Deferred!TypeOK
<1>2. InterruptUnderWay' /\ irq'[c] # None
  BY Zenon DEF InterruptUnderWay, Deferred!TypeOK
<1>3. \A g \in Handlers \ registered' : pending'[g] = 0
  BY Zenon DEF Deferred!TypeOK
<1>4. RunsBefore'
  BY Zenon, <1>2 DEF RunsBefore
<1>5. Deferred!NoLostInvocation'
  BY Zenon, <1>2 DEF Deferred!NoLostInvocation
<1> QED
  BY Zenon, <1>1, <1>3, <1>4, <1>5

\* It finds the blocker published from before the handlers are run to after the thread has slept.
LEMMA RequestKeeps ==
    ASSUME DeferredIInv, NEW c \in CPUs, Deferred!request_invocation(c)
    PROVE  DeferredIInv'
<1> USE DEF DeferredIInv, Deferred!request_invocation
<1>1. Deferred!TypeOK'
  BY Zenon DEF Deferred!TypeOK
<1>2. pc' \in {"run", "blocked", "clear"} <=> m_blocker'
  BY Zenon DEF Deferred!TypeOK
<1>3. RunsBefore'
  BY Zenon DEF RunsBefore, Deferred!TypeOK
<1>4. Deferred!NoLostInvocation'
  BY Zenon DEF Deferred!NoLostInvocation
<1> QED
  BY Zenon, <1>1, <1>2, <1>3, <1>4

\* The thread blocks only when every handler that it has passed is still without an invocation,
\* or an interrupt is under way.
LEMMA ThreadKeeps ==
    ASSUME Handlers \subseteq Nat, None \notin Handlers, DeferredIInv, Deferred!do_run_handlers
    PROVE  DeferredIInv'
<1> USE DEF DeferredIInv
<1>1. CASE Deferred!set_blocker
  BY Zenon, <1>1 DEF Deferred!set_blocker, Deferred!TypeOK, RunsBefore, Deferred!NoLostInvocation
<1>2. CASE Deferred!invoke
  <2> DEFINE h == Deferred!First(todo)
  <2>1. h \in todo /\ h \in Handlers
    BY Zenon, <1>2, FirstHandler DEF Deferred!invoke, Deferred!TypeOK
  <2>2. /\ pc = "run" /\ UNCHANGED <<registered, irq, m_blocker, irq_unblocked, pc>>
        /\ \/ pending[h] > 0 /\ pending' = [pending EXCEPT ![h] = @ - 1] /\ handling' = h /\ todo' = todo
           \/ ~(pending[h] > 0) /\ todo' = todo \ {h} /\ pending' = pending /\ handling' = handling
    BY Zenon, <1>2 DEF Deferred!invoke
  <2> HIDE DEF h
  <2>3. Deferred!TypeOK'
    <3>1. pending' \in [Handlers -> Nat]
      BY <2>1, <2>2 DEF Deferred!TypeOK
    <3>2. todo' \subseteq Handlers /\ handling' \in Handlers \union {None}
      BY Zenon, <2>1, <2>2 DEF Deferred!TypeOK
    <3> QED
      BY Zenon, <2>2, <3>1, <3>2 DEF Deferred!TypeOK
  <2>4. \A g \in Handlers : pending[g] = 0 => pending'[g] = 0
    BY <2>1, <2>2 DEF Deferred!TypeOK
  <2>5. todo' # todo => pending[h] = 0 /\ todo' = todo \ {h}
    BY <2>1, <2>2 DEF Deferred!TypeOK
  <2>6. InterruptUnderWay' <=> InterruptUnderWay
    BY Zenon, <2>2 DEF InterruptUnderWay
  <2>7. RunsBefore'
    BY Zenon, <2>2, <2>4, <2>5, <2>6 DEF RunsBefore, Deferred!TypeOK
  <2> QED
    BY Zenon, <2>2, <2>3, <2>4, <2>7 DEF Deferred!NoLostInvocation
<1>3. CASE Deferred!handled
  BY Zenon, <1>3 DEF Deferred!handled, Deferred!TypeOK, RunsBefore, InterruptUnderWay, Deferred!NoLostInvocation
<1>4. CASE Deferred!block
  <2>1. Deferred!TypeOK'
    BY Zenon, <1>4 DEF Deferred!block, Deferred!TypeOK
  <2>2. Deferred!NoLostInvocation'
    BY <1>4 DEF Deferred!block, RunsBefore, InterruptUnderWay, Deferred!NoLostInvocation, Deferred!TypeOK
  <2> QED
    BY Zenon, <1>4, <2>1, <2>2 DEF Deferred!block, RunsBefore
<1>5. CASE Deferred!clear_blocker
  BY Zenon, <1>5 DEF Deferred!clear_blocker, Deferred!TypeOK, RunsBefore, Deferred!NoLostInvocation
<1> QED
  BY Zenon, <1>1, <1>2, <1>3, <1>4, <1>5 DEF Deferred!do_run_handlers

\* No step of an interrupt, of a driver or of the thread breaks the invariant.
LEMMA DeferredNext ==
    ASSUME Handlers \subseteq Nat, None \notin Handlers, DeferredIInv, Deferred!Next
    PROVE  DeferredIInv'
  BY Zenon, RegistrationKeeps, InvokeKeeps, RequestKeeps, ThreadKeeps DEF Deferred!Next

-----------------------------------------------------------------------------
(* The three together.                                                       *)

\* What each maintains, whichever of them is exercised.
BlockersIInv == IInv /\ SharedIInv /\ DeferredIInv

\* A step of one leaves the others as they were.
LEMMA BlockersStep ==
    ASSUME IsFiniteSet(SharedThreads), Handlers \subseteq Nat, None \notin Handlers,
           BlockersIInv, [BlockersNext]_blockersVars
    PROVE  BlockersIInv'
<1> USE DEF BlockersIInv
<1>1. UNCHANGED vars => IInv'
  BY Zenon, NextIInv
<1>2. UNCHANGED sharedVars => SharedIInv'
  BY Zenon, SharedNext DEF sharedVars, Shared!vars
<1>3. UNCHANGED deferredVars => DeferredIInv'
  BY DEF deferredVars, DeferredIInv, Deferred!TypeOK, RunsBefore, InterruptUnderWay, Deferred!NoLostInvocation
<1>4. Next => IInv'
  BY Zenon, NextIInv
<1>5. Shared!Next => SharedIInv'
  BY Zenon, SharedNext
<1>6. Deferred!Next => DeferredIInv'
  BY Zenon, DeferredNext
<1> QED
  BY Zenon, <1>1, <1>2, <1>3, <1>4, <1>5, <1>6 DEF BlockersNext, blockersVars

\* However many threads, CPUs and handlers there are: m_shared_refcount of a SharedMutex is -1 exactly when one
\* thread is between exclusive_lock() and exclusive_unlock(), alone, and counts the readers otherwise; its readers wait
\* for a writer only, and a free one with sleepers has a thread on its way to it; the deferred IRQ thread can be woken
\* while it sleeps, and sleeps over an invocation only while the interrupt that counted it has still to ask for it.
THEOREM WakeupsAlwaysExact ==
    ASSUME IsFiniteSet(SharedThreads), Handlers \subseteq Nat, None \notin Handlers
    PROVE  BlockersSpec => []WakeupsExact
<1>1. BlockersInit => BlockersIInv
  BY Zenon, InitIInv, SharedInit, DeferredInit DEF BlockersInit, BlockersIInv
<1>2. BlockersIInv /\ [BlockersNext]_blockersVars => BlockersIInv'
  BY Zenon, BlockersStep
<1>3. BlockersIInv => WakeupsExact
  BY Zenon DEF BlockersIInv, SharedIInv, DeferredIInv, WakeupsExact
<1> QED
  BY <1>1, <1>2, <1>3, PTL DEF BlockersSpec

\* No count of a Mutex, a SharedMutex or a deferred IRQ handler leaves its range: a SharedMutex is never held
\* more often than there are threads, and m_pending_count never goes below zero.
THEOREM BlockersTypesOK ==
    ASSUME IsFiniteSet(SharedThreads), Handlers \subseteq Nat, None \notin Handlers
    PROVE  BlockersSpec => []TypesOK
<1>1. BlockersInit => BlockersIInv
  BY Zenon, InitIInv, SharedInit, DeferredInit DEF BlockersInit, BlockersIInv
<1>2. BlockersIInv /\ [BlockersNext]_blockersVars => BlockersIInv'
  BY Zenon, BlockersStep
<1>3. SharedIInv => Shared!TypeOK
  <2> SUFFICES ASSUME SharedIInv PROVE Shared!TypeOK
    BY Zenon
  <2> DEFINE readers == Shared!Inside("shared")
  <2>1. readers \subseteq SharedThreads
    BY Zenon DEF Shared!Inside
  <2>2. Cardinality(readers) \in Nat /\ Cardinality(SharedThreads) \in Nat /\ Cardinality(readers) <= Cardinality(SharedThreads)
    BY Zenon, <2>1, FS_Subset, FS_CardinalityType
  <2>3. m_shared_refcount = -1 \/ m_shared_refcount = Cardinality(readers)
    BY Zenon, SharedCardinality DEF SharedIInv, Shared!RefcountExact, Shared!exclusive_mode
  <2> HIDE DEF readers
  <2>4. m_shared_refcount \in -1 .. Shared!Cardinality(SharedThreads)
    BY <2>2, <2>3, SharedCardinality
  <2> QED
    BY Zenon, <2>4 DEF SharedIInv, SharedTypes, Shared!TypeOK, Shared!exclusive_mode
<1>4. BlockersIInv => TypesOK
  BY Zenon, <1>3 DEF BlockersIInv, IInv, DeferredIInv, TypesOK
<1> QED
  BY <1>1, <1>2, <1>4, PTL DEF BlockersSpec
==============================================================================
