------------------------------ MODULE MCBlockers ------------------------------
(***************************************************************************)
(* Blocking and being woken, checked in one run: a behaviour exercises a   *)
(* Mutex, a SharedMutex, the deferred IRQ thread, which hand out wakeups   *)
(* one by one, or the scheduler itself; the others stay as they were       *)
(* created.                                                                *)
(***************************************************************************)
EXTENDS Blockers

CONSTANTS Idle, NoProc, NoCPU

VARIABLES state, requested, shouldDie, invulnerable, killer, blocker, wakeTime, ready, sleeping,
          deferred, processes, queuesLock, current, stack, cpu, itr, toKill, pstate, alive, threads,
          creating, toFree, freeing, unregistering, procsToFree, now, panic

schedulerVars == <<state, requested, shouldDie, invulnerable, killer, blocker, wakeTime, ready, sleeping,
                   deferred, processes, queuesLock, current, stack, cpu, itr, toKill, pstate, alive,
                   threads, creating, toFree, freeing, unregistering, procsToFree, now, panic>>
MCVars == <<blockersVars, schedulerVars>>

\* One CPU and a process with two threads.
TheScheduler == INSTANCE Scheduler WITH
    CPUs <- {1}, Threads <- {1, 2}, Procs <- {1}, Owner <- <<1, 1>>, Main <- <<1>>, MaxTime <- 1,
    pc <- cpu

MCInit ==
    /\ BlockersInit /\ TheScheduler!Init
    /\ exercised \in {"Mutex", "SharedMutex", "DeferredIRQ", "Scheduler"}

MCNext ==
    \/ BlockersNext /\ UNCHANGED schedulerVars
    \/ exercised = "Scheduler" /\ TheScheduler!Next /\ UNCHANGED blockersVars

\* No fair action of an unused Mutex or SharedMutex is enabled; the deferred IRQ
\* thread and the scheduler take steps unasked.
MCSpec ==
    /\ MCInit /\ [][MCNext]_MCVars
    /\ Fairness /\ Shared!Fairness
    /\ exercised = "DeferredIRQ" => Deferred!Fairness
    /\ exercised = "Scheduler" => TheScheduler!Fairness

\* Whoever calls for a SharedMutex, somebody gets it; every pending invocation of an IRQ
\* handler is served; a READY thread is picked, a due sleeper wakes, a dead thread is freed.
EverybodyIsServed ==
    /\ Shared!SomebodyEnters
    /\ Deferred!Served
    /\ TheScheduler!ReadyRuns /\ TheScheduler!SleeperWakes /\ TheScheduler!DeadIsFreed
==============================================================================
