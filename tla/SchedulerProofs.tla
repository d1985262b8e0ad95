--------------------------- MODULE SchedulerProofs ---------------------------
(***************************************************************************)
(* Scheduler for any number of CPUs, threads and processes: a thread runs on *)
(* one CPU, the lists hold what the states of the threads say, once each, no *)
(* wakeup is lost, a thread that has died never runs again, and a process    *)
(* counts its threads to the end.  All of it follows from the invariants of  *)
(* SchedulerInvariant.                                                      *)
(***************************************************************************)
EXTENDS SchedulerInvariant, FiniteSetTheorems

\* The lists as the properties name them.
LEMMA Lists ==
    /\ \A t : t \in ListOf(ready) <=> In(t, ready)
    /\ \A t : t \in Released <=> Freed(t)
    /\ \A t \in Threads : Lives(t) <=> Exists(t) /\ t \notin Released
<1>1. \A t : t \in Released <=> Freed(t)
  BY Zenon DEF Released, ListOf, Freed, In
<1>2. \A t : t \in ListOf(ready) <=> In(t, ready)
  BY Zenon DEF ListOf, In
<1> QED
  BY Zenon, <1>1, <1>2 DEF Lives, Exists

\* However many CPUs enter pick_next() in whatever order: no two have the same current thread, none has one that is on
\* the ready list, asleep or with the finalizer, two execute on one kernel stack only between the release of
\* s_queues_lock and switch_task(), and free_deferred_threads(), which increments its iterator twice, never has two to free.
THEOREM ThreadsRunOnce == Spec => []OneCPUPerThread
<1>1. IInv => OneCPUPerThread
  <2> SUFFICES ASSUME IInv PROVE OneCPUPerThread
    BY Zenon
  <2> USE DEF IInv
  <2>1. RunsOnce
    <3> SUFFICES ASSUME NEW c \in CPUs, current[c] \in Threads
                 PROVE  /\ \A d \in CPUs : current[d] = current[c] => d = c
                        /\ ~In(current[c], ready) /\ ~Freed(current[c])
                        /\ pc[c] \in {"run", "lock", "switch"} => state[current[c]] = "RUNNING" /\ current[c] \notin sleeping
      BY Zenon, Lists DEF RunsOnce
    <3> QED
      BY DEF CPUsExact, QueuesExact, Lives
  <2>2. StackSharedOnlyInWindow
    BY DEF StackSharedOnlyInWindow, CPUsExact
  <2>3. AtMostOneDeferred
    <3>1. Len(<<>>) <= 1 /\ \A t \in Threads : Len(<<t>>) <= 1
      OBVIOUS
    <3> QED
      BY Zenon, <3>1 DEF AtMostOneDeferred, DeferredExact
  <2> QED
    BY Zenon, <2>1, <2>2, <2>3 DEF OneCPUPerThread
<1> QED
  BY <1>1, AlwaysIInv, PTL

\* The node of a thread is on one list at most, once, whoever pops it off and queues it: the ready list, the deferred
\* list or one of the finalizer's two.  The ready list has just the threads that are READY and that nobody has killed,
\* so that the ASSERT of Thread::activate() holds for whatever pick_next() takes off it.
THEOREM ListsMatchThreads == Spec => []ListsExact
<1>1. IInv => ListsExact
  <2> SUFFICES ASSUME IInv PROVE ListsExact
    BY Zenon
  <2> USE DEF IInv
  <2>1. ReadyExact
    BY Zenon, Lists DEF ReadyExact, QueuesExact
  <2>2. NoRepeat(deferred) /\ \A t \in Threads : In(t, deferred) => Lives(t) /\ state[t] = "DEAD"
    <3>1. CASE deferred = <<>>
      BY Zenon, <3>1, NothingIn, EmptyNoRepeat
    <3>2. CASE deferred # <<>>
      <4>1. PICK t \in Threads : deferred = <<t>> /\ state[t] = "DEAD" /\ Lives(t)
        BY Zenon, <3>2 DEF DeferredExact
      <4>2. NoRepeat(<<t>>)
        BY DEF NoRepeat
      <4> QED
        BY <4>1, <4>2, PopOnly
    <3> QED
      BY Zenon, <3>1, <3>2
  <2>3. ready \in Seq(Threads) /\ deferred \in Seq(Threads) /\ toFree \in Seq(Threads) /\ freeing \in Seq(Threads)
    BY Zenon DEF Types
  <2>4. \A t \in Threads : In(t, ready) => Lives(t) /\ state[t] = "READY"
    BY Zenon DEF QueuesExact
  <2> DEFINE rd == ready \o deferred  rdf == rd \o toFree
  <2>5. rd \in Seq(Threads) /\ NoRepeat(rd) /\ \A t \in Threads : In(t, rd) => Lives(t)
    BY Zenon, <2>2, <2>3, <2>4, ConcatIn DEF QueuesExact
  <2> HIDE DEF rd
  <2>6. \A t \in Threads : Lives(t) => ~In(t, toFree) /\ ~In(t, freeing)
    BY Zenon DEF Lives, Freed
  <2>7. rdf \in Seq(Threads) /\ NoRepeat(rdf) /\ \A t \in Threads : In(t, rdf) => Lives(t) \/ In(t, toFree)
    BY Zenon, <2>3, <2>5, <2>6, ConcatIn DEF FinalizerExact
  <2> HIDE DEF rdf
  <2>8. NoRepeat(rdf \o freeing)
    BY Zenon, <2>3, <2>6, <2>7, ConcatIn DEF FinalizerExact
  <2>9. OneList
    BY Zenon, <2>8 DEF OneList, NoRepeat, rdf, rd
  <2> QED
    BY Zenon, <2>1, <2>9 DEF ListsExact
<1> QED
  BY <1>1, AlwaysIInv, PTL

\* Both: wherever a thread goes, it is on the one list that its state asks for, or on one CPU.
THEOREM ThreadsAlwaysExact == Spec => []ThreadsExact
  BY ThreadsRunOnce, ListsMatchThreads, PTL DEF ThreadsExact

\* An unblock() that comes before pick_next() has committed the block is not lost: whoever is BLOCKED still waits for
\* its result, and is in the sleeping set just when it has a SleepBlocker and has not been killed.
THEOREM WakeupsArrive == Spec => []NoLostWakeup
<1>1. IInv => NoLostWakeup
  BY Zenon, Lists DEF IInv, QueuesExact, NoLostWakeup
<1> QED
  BY <1>1, AlwaysIInv, PTL

\* A CPU changes its thread in pick_next_thread() alone.
LEMMA OnlyPickNext ==
    ASSUME [Next]_vars, current' # current
    PROVE  \E c \in CPUs : pick_next_thread(c)
<1> USE DEF cpuVars
<1>1. ~Create
  BY Zenon DEF Create, register_process, create_thread_check, create_thread_emplace, register_thread
<1>2. ASSUME NEW c \in CPUs, PickNext(c) PROVE pick_next_thread(c)
  BY Zenon, <1>2 DEF PickNext, pick_next_lock, LockThen, free_deferred_threads, wake_ready_threads, pick_next_keep, pick_next_block,
              kill_current_thread, kill_all_begin, kill_all_next, kill_all_end, switch_task
<1>3. \A c \in CPUs : ~yield(c) /\ \A t \in Threads : ~Runs(c, t)
  BY DEF yield, Runs, set_invulnerable, wait, sleep, block, exit_thread, exit_process
<1>4. ~Finalizer
  BY Zenon DEF Finalizer, swap_queues, do_free_thread, unregister_process, do_free_process
<1>5. ~TimePasses /\ ~Halted /\ ~UNCHANGED vars /\ \A t \in Threads : ~unblock(t)
  BY Zenon DEF TimePasses, Halted, vars, unblock
<1> QED
  BY Zenon, <1>1, <1>2, <1>3, <1>4, <1>5 DEF Next

\* "this thread will never be run again" (exit_thread): what a CPU switches to is READY, never a thread that is dying
\* or with the finalizer.
THEOREM TheDeadStayDead == Spec => ExitedNeverRuns
<1>1. ASSUME IInv, [Next]_vars, NEW c \in CPUs, current'[c] # current[c]
      PROVE  /\ current'[c] \notin Dying \union Released
             /\ current'[c] \in Threads => state[current'[c]] = "READY"
  <2> USE <1>1 DEF IInv
  <2>1. PICK d \in CPUs : pick_next_thread(d)
    BY Zenon, <1>1, OnlyPickNext
  <2> DEFINE runs == current[d] \in Threads /\ state[current[d]] = "RUNNING"
             queue == IF runs THEN Append(ready, current[d]) ELSE ready
             next == IF queue = <<>> THEN Idle ELSE Head(queue)
  <2>2. current' = [current EXCEPT ![d] = next]
    BY Zenon, <2>1 DEF pick_next_thread, Requeued
  <2>3. c = d /\ current'[c] = next /\ next # current[c]
    BY Zenon, <1>1, <2>2 DEF Types
  <2>4. queue # <<>> => next \in Threads /\ (In(next, ready) \/ next = current[d])
    <3>1. ASSUME queue # <<>> PROVE In(Head(queue), queue) /\ Head(queue) \in Threads
      <4>1. queue \in Seq(Threads)
        <5>1. ready \in Seq(Threads)
          BY Zenon DEF Types
        <5>2. runs => Append(ready, current[d]) \in Seq(Threads)
          BY Zenon, <5>1, AppendElements
        <5> QED
          BY Zenon, <5>1, <5>2
      <4> HIDE DEF queue
      <4>2. Head(queue) = queue[1] /\ Head(queue) \in Threads /\ 1 \in DOMAIN queue
        BY <3>1, <4>1, TailElements
      <4> QED
        BY Zenon, <4>2 DEF In
    <3>2. \A u \in Threads : In(u, queue) => In(u, ready) \/ u = current[d]
      <4>1. ready \in Seq(Threads)
        BY Zenon DEF Types
      <4>2. runs => \A u : In(u, Append(ready, current[d])) <=> (In(u, ready) \/ u = current[d])
        BY <4>1, AppendIn
      <4> QED
        BY Zenon, <4>2
    <3> HIDE DEF queue
    <3> QED
      BY Zenon, <3>1, <3>2
  <2> HIDE DEF queue
  <2>5. next = Idle \/ (next \in Threads /\ In(next, ready))
    BY Zenon, <2>3, <2>4
  <2> HIDE DEF next
  <2>6. \A t \in Dying : t \in Threads /\ state[t] = "DEAD"
    <3>1. \A t : t \in Dying <=> In(t, deferred)
      BY Zenon DEF Dying, ListOf, In
    <3>2. ASSUME NEW u \in Threads, deferred = <<u>>, state[u] = "DEAD" PROVE \A t \in Dying : t \in Threads /\ state[t] = "DEAD"
      BY <3>1, <3>2, PopOnly
    <3> QED
      BY Zenon, <3>1, <3>2, NothingIn DEF DeferredExact
  <2>7. \A t \in Released : t \in Threads
    <3>1. \A q \in Seq(Threads) : \A i \in DOMAIN q : q[i] \in Threads
      OBVIOUS
    <3> QED
      BY <3>1 DEF Released, ListOf, Types
  <2>8. \A t \in Threads : In(t, ready) => state[t] = "READY" /\ t \notin Released
    BY Zenon, Lists DEF QueuesExact
  <2> QED
    BY Zenon, <2>3, <2>5, <2>6, <2>7, <2>8, NotAThreadAssumption
<1>2. IInv /\ [Next]_vars =>
          [\A c \in CPUs : current'[c] # current[c] =>
              /\ current'[c] \notin Dying \union Released
              /\ current'[c] \in Threads => state[current'[c]] = "READY"]_vars
  BY Zenon, <1>1
<1> QED
  BY <1>2, AlwaysIInv, PTL DEF Spec, ExitedNeverRuns

\* Threads is finite, and so is every set of threads.
LEMMA ThreadsCount == CountFacts
<1>1. \A S \in SUBSET Threads : IsFiniteSet(S)
  BY Zenon, FS_Subset, ThreadsAssumption
<1>2. Cardinality({}) = 0
  BY Zenon, FS_EmptySet
<1>3. ASSUME NEW S \in SUBSET Threads, NEW t \in Threads
      PROVE  /\ t \notin S => Cardinality(S \union {t}) = Cardinality(S) + 1
             /\ t \in S => Cardinality(S \ {t}) = Cardinality(S) - 1
  BY Zenon, <1>1, FS_AddElement, FS_RemoveElement
<1> QED
  BY Zenon, <1>2, <1>3 DEF CountFacts

\* m_alive_thread_count is the number of the registered threads that are neither deferred nor released, whoever creates,
\* exits and kills them, so that the last thread to go is the one that sees it reach zero.  A process is released when it
\* is EXITING, as mark_as_released() asserts, and from then on nothing of it runs, is ready or sleeps.
THEOREM ProcessesEnd == Spec => []LifeCycleExact
<1>1. IInv /\ LInv => LifeCycleExact
  <2> SUFFICES ASSUME IInv, LInv PROVE LifeCycleExact
    BY Zenon
  <2> USE DEF LInv
  <2>1. \A t \in Threads : Counted(t) <=> Exists(t) /\ t \notin Dying \union Released
    <3>1. \A t : t \in Dying <=> In(t, deferred)
      BY Zenon DEF Dying, ListOf, In
    <3> QED
      BY Zenon, <3>1, Lists DEF Counted
  <2>2. AliveCount
    <3>1. \A p \in Procs : Alive(p) = {t \in Threads : /\ Owner[t] = p /\ Exists(t)
                                                       /\ t \notin Dying \union Released}
      BY Zenon, <2>1 DEF Alive
    <3> QED
      BY Zenon, <3>1 DEF AliveCount, CountExact
  <2>3. ASSUME NEW p \in Procs, p \in procsToFree
        PROVE  /\ pstate[p] = "EXITING" /\ p \notin processes
               /\ \A t \in Threads : Owner[t] = p => ~Lives(t)
    BY Zenon, <2>3 DEF GoneExact, IInv, Types
  <2>4. \A t \in Threads : ~Lives(t) => t \notin ListOf(ready) /\ t \notin sleeping
    BY Zenon, Lists DEF IInv, QueuesExact
  <2>5. \A t \in Threads : ~Lives(t) => \A c \in CPUs : current[c] # t
    BY Zenon DEF IInv, CPUsExact
  <2>6. ReleasedProcessIsQuiet
    <3>1. procsToFree \subseteq Procs
      BY Zenon DEF GoneExact
    <3> QED
      BY Zenon, <2>3, <2>4, <2>5, <3>1 DEF ReleasedProcessIsQuiet
  <2> QED
    BY Zenon, <2>2, <2>6 DEF LifeCycleExact
<1> QED
  BY <1>1, AlwaysIInv, InitLInv, NextLInv, ThreadsCount, PTL DEF Spec
==============================================================================
