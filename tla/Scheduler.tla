------------------------------ MODULE Scheduler ------------------------------
(***************************************************************************)
(* The SMP round-robin scheduler of Kernel/Multitasking: Scheduler, Thread, *)
(* Blocker, Process (its life cycle) and TaskFinalizer.                     *)
(*                                                                         *)
(* Every CPU runs its current thread; Scheduler::pick_next runs with        *)
(* interrupts disabled and is split at the points where other CPUs can see  *)
(* or change state it uses: taking s_queues_lock, each iteration of its     *)
(* loops, and the window between dropping the lock and switch_task.  An     *)
(* idle thread is represented by Idle; it is never on a list.               *)
(***************************************************************************)
EXTENDS Integers, Sequences, FiniteSets

CONSTANTS
    CPUs,       \* CPU::processors()
    Threads,    \* thread ids; the kill loop visits them in id order
    Procs,
    Owner,      \* Thread::owner()
    Main,       \* the thread a process is created with
    MaxTime,    \* bound on Timer::nanoseconds_since_boot()
    Idle, NoProc, NoCPU

ASSUME OwnerAssumption == Owner \in [Threads -> Procs]
ASSUME MainAssumption ==
    /\ Main \in [Procs -> Threads]
    /\ \A p \in Procs : Owner[Main[p]] = p
ASSUME ThreadsAssumption ==
    /\ Threads \subseteq Nat
    /\ IsFiniteSet(Threads)
ASSUME NotAThreadAssumption ==
    /\ Idle \notin Threads
    /\ NoProc \notin Procs
    /\ NoCPU \notin CPUs
ASSUME MaxTimeAssumption == MaxTime \in Nat

VARIABLES
    state,        \* Thread::m_state
    requested,    \* Thread::m_requested_state
    shouldDie,    \* Thread::m_should_die
    invulnerable, \* Thread::m_is_invulnerable
    killer,       \* Thread::m_should_kill_all_threads
    blocker,      \* the Blocker Thread::m_blocker points to
    wakeTime,     \* SleepBlocker::m_wake_time
    ready,        \* Scheduler::m_ready_threads
    sleeping,     \* Scheduler::m_sleeping_threads
    deferred,     \* Scheduler::m_deferred_deleted_dead_threads
    processes,    \* Scheduler::m_processes
    queuesLock,   \* holder of Scheduler::s_queues_lock
    current,      \* CPU::LocalData::m_current_thread
    stack,        \* the thread on whose kernel stack the CPU executes
    pc,           \* where the CPU is: running a thread or inside pick_next
    itr,          \* iterator of free_deferred_threads
    toKill,       \* threads the kill loop has not visited yet
    pstate,       \* Process::m_state
    alive,        \* Process::m_alive_thread_count
    threads,      \* Process::m_threads
    creating,     \* progress of Process::create_thread
    toFree,       \* TaskFinalizer::m_threads_to_free
    freeing,      \* TaskFinalizer::m_threads_being_freed
    unregistering,\* process do_free_thread is about to unregister
    procsToFree,  \* TaskFinalizer::m_processes_to_free
    now,          \* Timer::nanoseconds_since_boot()
    panic         \* an ASSERT that can fail did fail: the kernel has stopped

threadVars == <<state, requested, shouldDie, invulnerable, killer, blocker, wakeTime>>
listVars == <<ready, sleeping, deferred>>
cpuVars == <<queuesLock, current, stack, pc, itr, toKill>>
procVars == <<processes, pstate, alive, threads, creating>>
finalizerVars == <<toFree, freeing, unregistering, procsToFree>>
vars == <<threadVars, listVars, cpuVars, procVars, finalizerVars, now, panic>>

------------------------------------------------------------------------------
\* Blocker types that matter here: SLEEP is handled by the scheduler itself, IO
\* and IRQ are interruptable, DISK_IO, MUTEX and PROCESS_LOAD are not.
BlockerTypes == {"SLEEP", "IO", "MUTEX"}
is_interruptable(b) == b.type # "MUTEX"

\* Blocker::set_result moves m_result off UNDEFINED once and clears
\* m_should_block with it, so should_block() is exactly this.
should_block(b) == b.result = "UNDEFINED"

\* Mutant: the blocker is forgotten with its early result.
set_result_detaches(b, r) == [b EXCEPT !.type = "NONE", !.result = r]

set_result(b, r) == IF should_block(b) THEN [b EXCEPT !.result = r] ELSE b

NoBlocker == [type |-> "NONE", result |-> "NONE"]
Blockers == [type : BlockerTypes, result : {"UNDEFINED", "UNBLOCKED", "INTERRUPTED"}]

\* Mutant: the node stays on its list.
pop_off_forgets(s, t) == s

\* List::pop_off of a node that is on list s.
PopOff(s, t) ==
    LET i == CHOOSE i \in DOMAIN s : s[i] = t
    IN  SubSeq(s, 1, i - 1) \o SubSeq(s, i + 1, Len(s))

\* What the kernel code a thread runs may do: its CPU executes it, on its own
\* stack, outside pick_next.
Executes(c, t) == panic = "none" /\ pc[c] = "run" /\ current[c] = t

LockFree == panic = "none" /\ queuesLock = NoCPU

\* process.lock() is only held across steps by the kill loop.
ProcessLockFree(p) ==
    \A c \in CPUs : pc[c] = "kill" => current[c] \in Threads /\ Owner[current[c]] # p

Init ==
    /\ state = [t \in Threads |-> "UNDEFINED"]
    /\ requested = [t \in Threads |-> "UNDEFINED"]
    /\ shouldDie = [t \in Threads |-> FALSE]
    /\ invulnerable = [t \in Threads |-> FALSE]
    /\ killer = [t \in Threads |-> FALSE]
    /\ blocker = [t \in Threads |-> NoBlocker]
    /\ wakeTime = [t \in Threads |-> 0]
    /\ ready = <<>> /\ sleeping = {} /\ deferred = <<>>
    /\ processes = {}
    /\ queuesLock = NoCPU
    /\ current = [c \in CPUs |-> Idle]
    /\ stack = [c \in CPUs |-> Idle]
    /\ pc = [c \in CPUs |-> "run"]
    /\ itr = 1 /\ toKill = {}
    /\ pstate = [p \in Procs |-> "ALIVE"]
    /\ alive = [p \in Procs |-> 0]
    /\ threads = [p \in Procs |-> {Main[p]}]
    /\ creating = [t \in Threads |-> "no"]
    /\ toFree = <<>> /\ freeing = <<>>
    /\ unregistering = NoProc /\ procsToFree = {}
    /\ now = 0
    /\ panic = "none"
------------------------------------------------------------------------------
(* Creating processes and threads.                                         *)

\* Mutant: the new thread is not counted.
increment_forgotten(p) == UNCHANGED alive

increment_alive_thread_count(p) == alive' = [alive EXCEPT ![p] = @ + 1]

\* Process::create_supervisor / create_user end in register_process.
register_process(p) ==
    /\ LockFree
    /\ p \notin processes /\ pstate[p] = "ALIVE" /\ creating[Main[p]] = "no"
    /\ processes' = processes \union {p}
    /\ creating' = [creating EXCEPT ![Main[p]] = "done"]
    /\ state' = [state EXCEPT ![Main[p]] = "READY"]
    /\ increment_alive_thread_count(p)
    /\ ready' = Append(ready, Main[p])
    /\ UNCHANGED <<requested, shouldDie, invulnerable, killer, blocker, wakeTime,
                   sleeping, deferred, cpuVars, pstate, threads, finalizerVars, now, panic>>

\* Process::create_thread called by somebody who holds a reference to a
\* registered process: the is_alive() check is made before m_lock is taken.
create_thread_check(t) ==
    LET p == Owner[t] IN
    /\ panic = "none"
    /\ creating[t] = "no" /\ t # Main[p] /\ creating[Main[p]] = "done"
    /\ creating' = [creating EXCEPT ![t] = IF pstate[p] = "ALIVE" THEN "checked" ELSE "done"]
    /\ UNCHANGED <<threadVars, listVars, cpuVars, processes, pstate, alive, threads,
                   finalizerVars, now, panic>>

\* ... then m_threads.emplace under m_lock ...
create_thread_emplace(t) ==
    /\ panic = "none"
    /\ creating[t] = "checked" /\ ProcessLockFree(Owner[t])
    /\ creating' = [creating EXCEPT ![t] = "emplaced"]
    /\ threads' = [threads EXCEPT ![Owner[t]] = @ \union {t}]
    /\ UNCHANGED <<threadVars, listVars, cpuVars, processes, pstate, alive,
                   finalizerVars, now, panic>>

\* ... then Scheduler::register_thread.
register_thread(t) ==
    /\ LockFree
    /\ creating[t] = "emplaced"
    /\ creating' = [creating EXCEPT ![t] = "done"]
    /\ \/ /\ pstate[Owner[t]] # "ALIVE"
          /\ shouldDie' = [shouldDie EXCEPT ![t] = TRUE]
          /\ state' = [state EXCEPT ![t] = "DEAD"]
          /\ toFree' = Append(toFree, t)
          /\ UNCHANGED <<alive, ready>>
       \/ /\ pstate[Owner[t]] = "ALIVE"
          /\ increment_alive_thread_count(Owner[t])
          /\ state' = [state EXCEPT ![t] = "READY"]
          /\ ready' = Append(ready, t)
          /\ UNCHANGED <<shouldDie, toFree>>
    /\ UNCHANGED <<requested, invulnerable, killer, blocker, wakeTime, sleeping, deferred,
                   cpuVars, processes, pstate, threads, freeing, unregistering,
                   procsToFree, now, panic>>
------------------------------------------------------------------------------
(* What a running thread does.  Interrupts are disabled from the step that  *)
(* leaves "run" until switch_task.                                          *)

Enter(c) == pc' = [pc EXCEPT ![c] = "lock"]

\* SyscallDispatcher::handle_interrupt, ScopedInvulnerability, set_invulnerable.
set_invulnerable(c, t) ==
    /\ Executes(c, t)
    /\ invulnerable' = [invulnerable EXCEPT ![t] = ~@]
    /\ UNCHANGED <<state, requested, shouldDie, killer, blocker, wakeTime, listVars,
                   cpuVars, procVars, finalizerVars, now, panic>>

\* Scheduler::block on a fresh blocker, which may have been unblocked before
\* the thread got here (its owner published it on a waiter list first).  All
\* blockers but SleepBlocker are used by invulnerable threads only.
block(c, t, b) ==
    /\ Executes(c, t)
    /\ b.type # "SLEEP" => invulnerable[t]
    /\ blocker' = [blocker EXCEPT ![t] = b]
    /\ requested' = [requested EXCEPT ![t] = "BLOCKED"]
    /\ Enter(c)
    /\ UNCHANGED <<state, shouldDie, invulnerable, killer, listVars, queuesLock, current,
                   stack, itr, toKill, procVars, finalizerVars, now, panic>>

\* Scheduler::sleep.
sleep(c, t, w) ==
    /\ block(c, t, [type |-> "SLEEP", result |-> "UNDEFINED"])
    /\ wakeTime' = [wakeTime EXCEPT ![t] = w]

\* Mutex::lock, Pipe::block_until_*, AsyncRequest::wait, ...
wait(c, t) ==
    /\ \E ty \in BlockerTypes \ {"SLEEP"}, r \in {"UNDEFINED", "UNBLOCKED"} :
          block(c, t, [type |-> ty, result |-> r])
    /\ UNCHANGED wakeTime

\* Scheduler::yield and Scheduler::on_tick; also what an idle CPU does.
yield(c) ==
    /\ panic = "none" /\ pc[c] = "run"
    /\ Enter(c)
    /\ UNCHANGED <<threadVars, listVars, queuesLock, current, stack, itr, toKill, procVars,
                   finalizerVars, now, panic>>

\* Scheduler::exit_thread; its callers have made the thread vulnerable.
exit_thread(c, t) ==
    /\ Executes(c, t) /\ ~invulnerable[t]
    /\ shouldDie' = [shouldDie EXCEPT ![t] = TRUE]
    /\ Enter(c)
    /\ UNCHANGED <<state, requested, invulnerable, killer, blocker, wakeTime, listVars,
                   queuesLock, current, stack, itr, toKill, procVars, finalizerVars, now, panic>>

\* Scheduler::exit_process and Scheduler::crash: Process::exit is a
\* compare-and-exchange, and whoever wins it becomes the killer.
exit_process(c, t) ==
    LET p == Owner[t] IN
    /\ Executes(c, t) /\ ~invulnerable[t]
    /\ killer' = [killer EXCEPT ![t] = @ \/ pstate[p] = "ALIVE"]
    /\ pstate' = [pstate EXCEPT ![p] = IF @ = "ALIVE" THEN "EXITING" ELSE @]
    /\ shouldDie' = [shouldDie EXCEPT ![t] = TRUE]
    /\ Enter(c)
    /\ UNCHANGED <<state, requested, invulnerable, blocker, wakeTime, listVars, queuesLock,
                   current, stack, itr, toKill, processes, alive, threads, creating,
                   finalizerVars, now, panic>>
------------------------------------------------------------------------------
(* Waking a blocked thread.                                                *)

\* Mutant: any thread is made READY.
unblock_any_state(t) ==
    /\ blocker' = [blocker EXCEPT ![t] = NoBlocker]
    /\ state' = [state EXCEPT ![t] = "READY"]
    /\ ready' = Append(ready, t)

\* Scheduler::unblock_unchecked.  A thread that is not BLOCKED yet only gets
\* its blocker's result; pick_next finds it there.
unblock_unchecked(t) ==
    /\ blocker' = [blocker EXCEPT ![t] =
                      IF state[t] = "BLOCKED" THEN NoBlocker ELSE set_result(@, "UNBLOCKED")]
    /\ state' = [state EXCEPT ![t] = IF @ = "BLOCKED" THEN "READY" ELSE @]
    /\ ready' = IF state[t] = "BLOCKED" THEN Append(ready, t) ELSE ready

\* Blocker::unblock by an interrupt handler or a thread on another CPU.
unblock(t) ==
    /\ LockFree
    /\ blocker[t].type \in BlockerTypes \ {"SLEEP"}
    /\ should_block(blocker[t])
    /\ unblock_unchecked(t)
    /\ UNCHANGED <<requested, shouldDie, invulnerable, killer, wakeTime, sleeping, deferred,
                   cpuVars, procVars, finalizerVars, now, panic>>

\* The clock the sleeping threads are compared with.
TimePasses ==
    /\ panic = "none" /\ now < MaxTime
    /\ now' = now + 1
    /\ UNCHANGED <<threadVars, listVars, cpuVars, procVars, finalizerVars, panic>>
------------------------------------------------------------------------------
(* Scheduler::pick_next.                                                   *)

Goto(c, l) == pc' = [pc EXCEPT ![c] = l]

LockThen(c, l) ==
    /\ LockFree /\ pc[c] = "lock"
    /\ queuesLock' = c
    /\ itr' = 1
    /\ Goto(c, l)
    /\ UNCHANGED <<threadVars, listVars, current, stack, toKill, procVars, finalizerVars,
                   now, panic>>

pick_next_lock(c) == LockThen(c, "deferred")

\* One iteration of free_deferred_threads: pop(itr++) and then the loop's own
\* ++itr.  Past the end the circular list wraps around to its first node.
free_deferred_threads(c) ==
    /\ pc[c] = "deferred"
    /\ \/ /\ itr = Len(deferred) + 1
          /\ Goto(c, "wake")
          /\ UNCHANGED <<deferred, toFree, itr>>
       \/ /\ itr # Len(deferred) + 1
          /\ deferred' = PopOff(deferred, deferred[itr])
          /\ toFree' = Append(toFree, deferred[itr])
          /\ itr' = IF itr = Len(deferred) THEN 1 ELSE itr + 1
          /\ UNCHANGED pc
    /\ UNCHANGED <<threadVars, ready, sleeping, queuesLock, current, stack, toKill, procVars,
                   freeing, unregistering, procsToFree, now, panic>>

\* One iteration of wake_ready_threads: the set is sorted by wake-up time.
wake_ready_threads(c) ==
    /\ pc[c] = "wake"
    /\ \/ /\ \A t \in sleeping : wakeTime[t] > now
          /\ Goto(c, "decide")
          /\ UNCHANGED <<state, blocker, ready, sleeping>>
       \/ \E t \in sleeping :
             /\ wakeTime[t] <= now
             /\ \A u \in sleeping : wakeTime[t] <= wakeTime[u]
             /\ sleeping' = sleeping \ {t}
             /\ unblock_unchecked(t)
             /\ UNCHANGED pc
    /\ UNCHANGED <<requested, shouldDie, invulnerable, killer, wakeTime, deferred, queuesLock,
                   current, stack, itr, toKill, procVars, finalizerVars, now, panic>>

MustDie(t) == t \in Threads /\ shouldDie[t] /\ ~invulnerable[t]

\* pick_next, nothing asked of the current thread.
pick_next_keep(c) ==
    /\ pc[c] = "decide"
    /\ ~MustDie(current[c])
    /\ current[c] \in Threads => requested[current[c]] = "UNDEFINED"
    /\ Goto(c, "pick")
    /\ UNCHANGED <<threadVars, listVars, queuesLock, current, stack, itr, toKill, procVars,
                   finalizerVars, now, panic>>

\* Mutant: the early result is not looked at.
never_too_early(t) == FALSE

unblocked_too_early(t) == ~should_block(blocker[t])

\* pick_next, requested state BLOCKED: block, unless unblocked too early.
pick_next_block(c) ==
    LET t == current[c] IN
    /\ pc[c] = "decide"
    /\ t \in Threads /\ ~MustDie(t) /\ requested[t] = "BLOCKED"
    /\ \/ /\ ~unblocked_too_early(t)
          /\ state' = [state EXCEPT ![t] = "BLOCKED"]
          /\ sleeping' = IF blocker[t].type = "SLEEP" THEN sleeping \union {t} ELSE sleeping
          /\ UNCHANGED blocker
       \/ /\ unblocked_too_early(t)
          /\ blocker' = [blocker EXCEPT ![t] = NoBlocker]
          /\ UNCHANGED <<state, sleeping>>
    /\ requested' = [requested EXCEPT ![t] = "UNDEFINED"]
    /\ Goto(c, "pick")
    /\ UNCHANGED <<shouldDie, invulnerable, killer, wakeTime, ready, deferred, queuesLock,
                   current, stack, itr, toKill, procVars, finalizerVars, now, panic>>

\* kill_current_thread of a thread that is not the process killer.
kill_current_thread(c) ==
    LET t == current[c]
        p == Owner[t]
    IN
    /\ pc[c] = "decide" /\ MustDie(t) /\ ~killer[t]
    /\ state' = [state EXCEPT ![t] = "DEAD"]
    /\ alive' = [alive EXCEPT ![p] = @ - 1]
    /\ pstate' = [pstate EXCEPT ![p] = IF @ = "ALIVE" /\ alive[p] = 1 THEN "EXITING" ELSE @]
    /\ deferred' = Append(deferred, t)
    /\ Goto(c, "pick")
    /\ UNCHANGED <<requested, shouldDie, invulnerable, killer, blocker, wakeTime, ready,
                   sleeping, queuesLock, current, stack, itr, toKill, processes, threads,
                   creating, finalizerVars, now, panic>>

\* kill_current_thread of the killer: start the loop over process.threads().
kill_all_begin(c) ==
    LET t == current[c] IN
    /\ pc[c] = "decide" /\ MustDie(t) /\ killer[t]
    /\ state' = [state EXCEPT ![t] = "DEAD"]
    /\ toKill' = threads[Owner[t]]
    /\ Goto(c, "kill")
    /\ UNCHANGED <<requested, shouldDie, invulnerable, killer, blocker, wakeTime, listVars,
                   queuesLock, current, stack, itr, procVars, finalizerVars, now, panic>>

\* One iteration of that loop.
kill_all_next(c) ==
    \E u \in toKill :
    LET t == current[c]
        p == Owner[t]
        sleeps == state[u] = "BLOCKED" /\ blocker[u].type = "SLEEP"
        gone == sleeps \/ state[u] = "READY"   \* freed on the spot
        woken == state[u] = "BLOCKED" /\ ~sleeps /\ is_interruptable(blocker[u])
    IN
    /\ pc[c] = "kill"
    /\ \A v \in toKill : u <= v
    /\ toKill' = toKill \ {u}
    /\ alive' = [alive EXCEPT ![p] = IF u = t \/ gone THEN @ - 1 ELSE @]
    /\ deferred' = IF u = t THEN Append(deferred, t) ELSE deferred
    /\ shouldDie' = [shouldDie EXCEPT ![u] = TRUE]
    /\ sleeping' = IF sleeps THEN sleeping \ {u} ELSE sleeping
    /\ toFree' = IF gone THEN Append(toFree, u) ELSE toFree
    /\ ready' = IF woken THEN Append(ready, u)
                ELSE IF state[u] = "READY" THEN PopOff(ready, u) ELSE ready
    /\ state' = [state EXCEPT ![u] = IF woken THEN "READY" ELSE @]
    /\ blocker' = [blocker EXCEPT ![u] = IF woken THEN NoBlocker ELSE @]
    /\ UNCHANGED <<requested, invulnerable, killer, wakeTime, queuesLock, current, stack, pc,
                   itr, processes, pstate, threads, creating, freeing, unregistering,
                   procsToFree, now, panic>>

kill_all_end(c) ==
    /\ pc[c] = "kill" /\ toKill = {}
    /\ Goto(c, "pick")
    /\ UNCHANGED <<threadVars, listVars, queuesLock, current, stack, itr, toKill, procVars,
                   finalizerVars, now, panic>>

Requeued(t) == Append(ready, t)

\* pick_next_thread, deactivate and activate, and the release of the lock.  A
\* thread that still runs is queued before the front of the list is taken.
pick_next_thread(c) ==
    LET t == current[c]
        runs == t \in Threads /\ state[t] = "RUNNING"
        queue == IF runs THEN Requeued(t) ELSE ready
        next == IF queue = <<>> THEN Idle ELSE Head(queue)
    IN
    /\ pc[c] = "pick"
    /\ ready' = IF queue = <<>> THEN queue ELSE Tail(queue)
    /\ current' = [current EXCEPT ![c] = next]
    /\ state' = [u \in Threads |-> IF u = next THEN "RUNNING"
                                   ELSE IF u = t /\ runs THEN "READY" ELSE state[u]]
    /\ queuesLock' = NoCPU
    /\ Goto(c, "switch")
    /\ UNCHANGED <<requested, shouldDie, invulnerable, killer, blocker, wakeTime, sleeping,
                   deferred, stack, itr, toKill, procVars, finalizerVars, now, panic>>

\* switch_task: only now does the CPU leave the previous thread's stack.
switch_task(c) ==
    /\ panic = "none" /\ pc[c] = "switch"
    /\ stack' = [stack EXCEPT ![c] = current[c]]
    /\ Goto(c, "run")
    /\ UNCHANGED <<threadVars, listVars, queuesLock, current, itr, toKill, procVars,
                   finalizerVars, now, panic>>
------------------------------------------------------------------------------
(* TaskFinalizer::finalize_task_queue.  The finalizer's own scheduling is    *)
(* abstracted: it is a thread no process can kill.                          *)

swap_queues ==
    /\ panic = "none"
    /\ freeing = <<>> /\ procsToFree = {} /\ unregistering = NoProc /\ toFree # <<>>
    /\ freeing' = toFree
    /\ toFree' = <<>>
    /\ UNCHANGED <<threadVars, listVars, cpuVars, procVars, unregistering, procsToFree, now,
                   panic>>

\* process.threads().empty() once t is removed.
is_last_thread(p, t) == threads[p] \ {t} = {}

do_free_thread ==
    LET t == Head(freeing)
        p == Owner[t]
    IN
    /\ panic = "none"
    /\ freeing # <<>> /\ unregistering = NoProc /\ ProcessLockFree(p)
    /\ freeing' = Tail(freeing)
    /\ threads' = [threads EXCEPT ![p] = @ \ {t}]
    /\ unregistering' = IF is_last_thread(p, t) THEN p ELSE NoProc
    /\ UNCHANGED <<threadVars, listVars, cpuVars, processes, pstate, alive, creating, toFree,
                   procsToFree, now, panic>>

\* Scheduler::unregister_process, with its ASSERT that the process is known.
unregister_process ==
    /\ LockFree
    /\ unregistering # NoProc
    /\ IF unregistering \in processes
       THEN /\ processes' = processes \ {unregistering}
            /\ procsToFree' = procsToFree \union {unregistering}
            /\ unregistering' = NoProc
            /\ UNCHANGED panic
       ELSE /\ panic' = "unregister_process"
            /\ UNCHANGED <<processes, procsToFree, unregistering>>
    /\ UNCHANGED <<threadVars, listVars, cpuVars, pstate, alive, threads, creating, toFree,
                   freeing, now>>

\* do_free_process ends in mark_as_released.
do_free_process(p) ==
    /\ panic = "none"
    /\ freeing = <<>> /\ unregistering = NoProc /\ p \in procsToFree
    /\ procsToFree' = procsToFree \ {p}
    /\ pstate' = [pstate EXCEPT ![p] = "EXITED"]
    /\ UNCHANGED <<threadVars, listVars, cpuVars, processes, alive, threads, creating, toFree,
                   freeing, unregistering, now, panic>>

\* runtime::panic halts every CPU.
Halted == panic # "none" /\ UNCHANGED vars
------------------------------------------------------------------------------
PickNext(c) ==
    \/ pick_next_lock(c) \/ free_deferred_threads(c) \/ wake_ready_threads(c)
    \/ pick_next_keep(c) \/ pick_next_block(c) \/ kill_current_thread(c)
    \/ kill_all_begin(c) \/ kill_all_next(c) \/ kill_all_end(c)
    \/ pick_next_thread(c) \/ switch_task(c)

Runs(c, t) ==
    \/ set_invulnerable(c, t) \/ wait(c, t)
    \/ \E w \in 1..MaxTime : sleep(c, t, w)
    \/ exit_thread(c, t) \/ exit_process(c, t)

Finalizer ==
    \/ swap_queues \/ do_free_thread \/ unregister_process
    \/ \E p \in Procs : do_free_process(p)

Create ==
    \/ \E p \in Procs : register_process(p)
    \/ \E t \in Threads :
          create_thread_check(t) \/ create_thread_emplace(t) \/ register_thread(t)

Next ==
    \/ Create
    \/ \E c \in CPUs : PickNext(c) \/ yield(c) \/ \E t \in Threads : Runs(c, t)
    \/ \E t \in Threads : unblock(t)
    \/ Finalizer
    \/ TimePasses
    \/ Halted

Spec == Init /\ [][Next]_vars

\* pick_next runs with interrupts disabled and waits for nothing but the queues
\* lock, whose holders never stop; the timer interrupts every CPU that runs; the
\* finalizer thread polls its queue forever and is not starved of the spin lock
\* other CPUs keep taking and dropping; the clock does not stop.
Fairness ==
    /\ \A c \in CPUs : WF_vars(PickNext(c)) /\ WF_vars(yield(c))
    /\ WF_vars(Finalizer) /\ SF_vars(unregister_process)
    /\ WF_vars(TimePasses)

FairSpec == Spec /\ Fairness
------------------------------------------------------------------------------
ListOf(s) == {s[i] : i \in DOMAIN s}
Dying == ListOf(deferred)
Released == ListOf(toFree) \union ListOf(freeing)

\* Registered, and the finalizer has not destroyed it.
Exists(t) == creating[t] = "done" /\ t \in threads[Owner[t]]

TypeOK ==
    /\ state \in [Threads -> {"UNDEFINED", "RUNNING", "DEAD", "BLOCKED", "READY"}]
    /\ requested \in [Threads -> {"UNDEFINED", "BLOCKED"}]
    /\ shouldDie \in [Threads -> BOOLEAN]
    /\ invulnerable \in [Threads -> BOOLEAN]
    /\ killer \in [Threads -> BOOLEAN]
    /\ blocker \in [Threads -> Blockers \union {NoBlocker}]
    /\ wakeTime \in [Threads -> Nat]
    /\ ready \in Seq(Threads) /\ sleeping \subseteq Threads /\ deferred \in Seq(Threads)
    /\ processes \subseteq Procs
    /\ queuesLock \in CPUs \union {NoCPU}
    /\ current \in [CPUs -> Threads \union {Idle}]
    /\ stack \in [CPUs -> Threads \union {Idle}]
    /\ pc \in [CPUs -> {"run", "lock", "deferred", "wake", "decide", "kill", "pick", "switch"}]
    /\ itr \in Nat \ {0} /\ toKill \subseteq Threads
    /\ pstate \in [Procs -> {"ALIVE", "EXITING", "EXITED"}]
    /\ alive \in [Procs -> Int]
    /\ threads \in [Procs -> SUBSET Threads]
    /\ creating \in [Threads -> {"no", "checked", "emplaced", "done"}]
    /\ toFree \in Seq(Threads) /\ freeing \in Seq(Threads)
    /\ unregistering \in Procs \union {NoProc} /\ procsToFree \subseteq Procs
    /\ now \in Nat
    /\ panic \in {"none", "unregister_process"}

\* The intrusive list node of a thread is on at most one of the four lists, and
\* on that one once (the ASSERT of StandaloneListNode::set_my_list).
OneList ==
    LET all == ready \o deferred \o toFree \o freeing
    IN  \A i, j \in DOMAIN all : all[i] = all[j] => i = j

\* No two CPUs have the same current thread, and a thread that a CPU runs is
\* not at the same time up for grabs on the ready list, asleep or released.
RunsOnce ==
    \A c \in CPUs : current[c] \in Threads =>
        /\ \A d \in CPUs : current[d] = current[c] => d = c
        /\ current[c] \notin ListOf(ready) \union Released
        /\ pc[c] \in {"run", "lock", "switch"} =>
              /\ state[current[c]] = "RUNNING"
              /\ current[c] \notin sleeping

\* The ready list holds exactly the READY threads nobody has killed, so that
\* Thread::activate's ASSERT(m_state == READY) holds for whatever is picked.
ReadyExact ==
    \A t \in Threads : t \in ListOf(ready) <=> (state[t] = "READY" /\ Exists(t) /\ t \notin Released)

\* A BLOCKED thread that has not been killed still waits for its wake-up: an
\* unblock that came before pick_next committed the block was not lost.  It is
\* in the sleeping set just when its blocker is a SleepBlocker.
NoLostWakeup ==
    \A t \in Threads : state[t] = "BLOCKED" =>
        /\ should_block(blocker[t])
        /\ t \in sleeping <=> (blocker[t].type = "SLEEP" /\ Exists(t) /\ t \notin Released)

\* m_alive_thread_count counts the registered threads that are neither deferred
\* nor released, so decrement_alive_thread_count never passes zero and the last
\* thread to go is the one that sees it reach zero.
AliveCount ==
    \A p \in Procs : alive[p] =
        Cardinality({t \in Threads : /\ Owner[t] = p /\ Exists(t)
                                     /\ t \notin Dying \union Released})

\* A process handed to the finalizer is EXITING (the ASSERT of
\* mark_as_released) and nothing of it can run, wake up or be released again.
ReleasedProcessIsQuiet ==
    \A p \in procsToFree :
        /\ pstate[p] = "EXITING" /\ p \notin processes
        /\ \A t \in Threads : Owner[t] = p =>
              /\ t \notin ListOf(ready) \union sleeping
              /\ \A c \in CPUs : current[c] # t

\* exit_thread does not save its thread's state "because this thread will never
\* be run again": a thread that is dying or released is never activated.
ExitedNeverRuns ==
    [][\A c \in CPUs : current'[c] # current[c] =>
          /\ current'[c] \notin Dying \union Released
          /\ current'[c] \in Threads => state[current'[c]] = "READY"]_vars

\* free_deferred_threads increments its iterator twice per iteration; it still
\* empties the list because no two threads are ever deferred at once.
AtMostOneDeferred == Len(deferred) <= 1

\* switch_task runs after the queues lock is dropped: two CPUs may execute on one
\* kernel stack, but only inside that window of one of them.
StackSharedOnlyInWindow ==
    \A c, d \in CPUs :
        stack[c] = stack[d] /\ stack[c] \in Threads /\ c # d
            => pc[c] = "switch" \/ pc[d] = "switch"

\* The lists agree with the threads: a node is on one list, and the ready list holds
\* the threads that may be activated.
ListsExact == OneList /\ ReadyExact

\* A thread is on one CPU and its stack in use by one, but for the hand-over, and
\* at most one dead thread waits for its CPU to leave its stack.
OneCPUPerThread == RunsOnce /\ StackSharedOnlyInWindow /\ AtMostOneDeferred

\* A thread is on one list, the one its state asks for, and runs on one CPU.
ThreadsExact == ListsExact /\ OneCPUPerThread

\* A process counts its threads to the end and is quiet once it is released.
LifeCycleExact == AliveCount /\ ReleasedProcessIsQuiet

\* Round robin: a READY thread is eventually picked (or killed), however many
\* others share its CPU.
ReadyRuns ==
    \A t \in Threads :
        state[t] = "READY" ~>
            (state[t] # "READY" \/ t \in Released \/ ~Exists(t) \/ panic # "none")

\* A sleeping thread whose time has come leaves the sleeping set.
SleeperWakes ==
    \A t \in Threads : t \in sleeping ~> (t \notin sleeping \/ panic # "none")

\* A dead thread is destroyed by the finalizer, although free_deferred_threads
\* hands it over only when some CPU next enters pick_next.
DeadIsFreed ==
    \A t \in Threads : t \in Dying \union Released ~> (~Exists(t) \/ panic # "none")

\* Mutex::lock asserts invulnerability because "Threads shouldn't be able to die
\* when acquiring/owning a mutex": no invulnerable thread is released.
InvulnerableLives == \A t \in Dying \union Released : ~invulnerable[t]
==============================================================================
