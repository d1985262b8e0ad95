------------------------- MODULE SchedulerInvariant --------------------------
(***************************************************************************)
(* What Scheduler maintains for any number of CPUs, threads and processes:   *)
(* the threads, their lists and the CPUs (IInv), and the lives of the        *)
(* processes (LInv).  One lemma per step, or kind of step, of the code.       *)
(***************************************************************************)
EXTENDS Scheduler, SequenceFacts, TLAPS

Types ==
    /\ state \in [Threads -> {"UNDEFINED", "RUNNING", "DEAD", "BLOCKED", "READY"}]
    /\ blocker \in [Threads -> Blockers \union {NoBlocker}]
    /\ killer \in [Threads -> BOOLEAN]
    /\ ready \in Seq(Threads) /\ sleeping \subseteq Threads /\ deferred \in Seq(Threads)
    /\ current \in [CPUs -> Threads \union {Idle}]
    /\ stack \in [CPUs -> Threads \union {Idle}]
    /\ pc \in [CPUs -> {"run", "lock", "deferred", "wake", "decide", "kill", "pick", "switch"}]
    /\ toKill \subseteq Threads
    /\ pstate \in [Procs -> {"ALIVE", "EXITING", "EXITED"}]
    /\ threads \in [Procs -> SUBSET Threads]
    /\ creating \in [Threads -> {"no", "checked", "emplaced", "done"}]
    /\ toFree \in Seq(Threads) /\ freeing \in Seq(Threads)

Freed(t) == In(t, toFree) \/ In(t, freeing)

\* Registered, and not handed to the finalizer.
Lives(t) == creating[t] = "done" /\ t \in threads[Owner[t]] /\ ~Freed(t)

\* pick_next() has s_queues_lock until it has picked.
UnderLock == {"deferred", "wake", "decide", "kill", "pick"}
LockExact == \A c \in CPUs : pc[c] \in UnderLock <=> queuesLock = c

\* A CPU has its thread to itself; only in pick_next(), under the lock, may it be anything but RUNNING.
CPUsExact ==
    /\ \A c, d \in CPUs : current[c] \in Threads /\ current[c] = current[d] => c = d
    /\ \A c \in CPUs : current[c] \in Threads =>
           /\ Lives(current[c])
           /\ \/ state[current[c]] = "RUNNING"
              \/ pc[c] = "pick" /\ state[current[c]] \in {"BLOCKED", "DEAD"}
              \/ pc[c] = "kill" /\ state[current[c]] = "DEAD"
    /\ \A c \in CPUs : pc[c] # "switch" => stack[c] = current[c]

\* One thread at most is deferred, a dead one, and free_deferred_threads() gets it before the next.
DeferredExact ==
    /\ itr = 1
    /\ deferred = <<>> \/ \E t \in Threads : deferred = <<t>> /\ state[t] = "DEAD" /\ Lives(t)
    /\ \A c \in CPUs : pc[c] \in {"wake", "decide"} => deferred = <<>>
    /\ \A c \in CPUs : pc[c] = "kill" =>
           /\ current[c] \in Threads /\ killer[current[c]] /\ state[current[c]] = "DEAD"
           /\ current[c] \in toKill => deferred = <<>>

\* The state of a thread that lives says on which list it is.
QueuesExact ==
    /\ NoRepeat(ready)
    /\ \A t \in Threads :
           /\ In(t, ready) <=> state[t] = "READY" /\ Lives(t)
           /\ t \in sleeping <=> state[t] = "BLOCKED" /\ blocker[t].type = "SLEEP" /\ Lives(t)
           /\ state[t] = "RUNNING" => Lives(t)
           /\ state[t] = "BLOCKED" => should_block(blocker[t]) /\ (blocker[t].type # "SLEEP" => Lives(t))

\* The finalizer gets a thread once.
FinalizerExact ==
    /\ NoRepeat(toFree) /\ NoRepeat(freeing)
    /\ \A t \in Threads : ~(In(t, toFree) /\ In(t, freeing))

\* Until it is registered a thread is nowhere but in its process.
CreationExact ==
    /\ \A t \in Threads : creating[t] # "done" => state[t] = "UNDEFINED" /\ ~Freed(t)
    /\ \A p \in Procs : creating[Main[p]] = "no" => Main[p] \in threads[p]
    /\ \A t \in Threads : creating[t] = "emplaced" => t \in threads[Owner[t]]
    /\ \A p \in Procs : \A t \in threads[p] : Owner[t] = p

\* One thread of a process kills the others, once: whoever it frees from a list was not freed before.
KillExact ==
    /\ \A t, u \in Threads : killer[t] /\ killer[u] /\ Owner[t] = Owner[u] => t = u
    /\ \A t \in Threads : killer[t] => pstate[Owner[t]] # "ALIVE"
    /\ \A t \in Threads : Freed(t) /\ state[t] \in {"READY", "BLOCKED"} =>
           \E k \in Threads : killer[k] /\ Owner[k] = Owner[t] /\ state[k] = "DEAD"
    /\ \A c \in CPUs : pc[c] = "kill" =>
           /\ toKill \subseteq threads[Owner[current[c]]]
           /\ \A t \in toKill : state[t] \in {"READY", "BLOCKED"} => ~Freed(t)

\* What the scheduler maintains.
IInv == /\ Types /\ LockExact /\ CPUsExact /\ DeferredExact /\ QueuesExact /\ FinalizerExact
        /\ CreationExact /\ KillExact

------------------------------------------------------------------------------
(* List::pop_off and pop_front.                                            *)

\* pop_off of a node that is on the list takes out just that one.
LEMMA PopOffIn ==
    ASSUME NEW S, NEW s \in Seq(S), NEW t, NoRepeat(s), In(t, s)
    PROVE  /\ PopOff(s, t) \in Seq(S)
           /\ \A y : In(y, PopOff(s, t)) <=> (In(y, s) /\ y # t)
           /\ NoRepeat(PopOff(s, t))
<1> DEFINE i == CHOOSE k \in DOMAIN s : s[k] = t
<1>1. i \in DOMAIN s /\ s[i] = t
  BY Zenon DEF In
<1> HIDE DEF i
<1>2. LET r == SubSeq(s, 1, i - 1) \o SubSeq(s, i + 1, Len(s))
      IN  /\ r \in Seq(S)
          /\ \A y : In(y, r) <=> (In(y, s) /\ y # t)
          /\ NoRepeat(r)
  BY Zenon, <1>1, RemoveIn
<1> QED
  BY Zenon, <1>2 DEF PopOff, i

\* The deferred list has one thread at most.
LEMMA PopOnly ==
    ASSUME NEW t
    PROVE  /\ PopOff(<<t>>, <<t>>[1]) = <<>> /\ <<t>>[1] = t /\ Len(<<t>>) = 1
           /\ \A y : In(y, <<t>>) <=> y = t
<1>1. <<t>>[1] = t /\ Len(<<t>>) = 1 /\ DOMAIN <<t>> = {1}
  OBVIOUS
<1>2. (CHOOSE i \in DOMAIN <<t>> : <<t>>[i] = t) = 1
  BY Zenon, <1>1
<1>3. SubSeq(<<t>>, 1, 0) = <<>> /\ SubSeq(<<t>>, 2, 1) = <<>>
  OBVIOUS
<1>4. PopOff(<<t>>, t) = <<>> \o <<>>
  BY <1>1, <1>2, <1>3 DEF PopOff
<1>5. <<>> \o <<>> = <<>>
  OBVIOUS
<1>6. \A y : In(y, <<t>>) <=> y = t
  BY Zenon, <1>1 DEF In
<1> QED
  BY Zenon, <1>1, <1>4, <1>5, <1>6

------------------------------------------------------------------------------
(* Init *)

\* Nothing is registered and the CPUs are idle.
LEMMA InitIInv == Init => IInv
<1> SUFFICES ASSUME Init PROVE IInv
  BY Zenon
<1> USE DEF Init
<1>1. Types
  BY MainAssumption DEF Types
<1>2. LockExact /\ CPUsExact
  BY Zenon, NotAThreadAssumption DEF LockExact, UnderLock, CPUsExact
<1>3. DeferredExact
  BY Zenon DEF DeferredExact
<1>4. QueuesExact /\ FinalizerExact
  BY Zenon, NothingIn, EmptyNoRepeat DEF QueuesExact, FinalizerExact
<1>5. CreationExact
  BY Zenon, NothingIn, MainAssumption DEF CreationExact, Freed
<1>6. KillExact
  BY Zenon, NothingIn DEF KillExact, Freed
<1> QED
  BY Zenon, <1>1, <1>2, <1>3, <1>4, <1>5, <1>6 DEF IInv

------------------------------------------------------------------------------
(* Steps that leave the states of the threads and the lists alone.         *)

\* A blocker may change until its thread is BLOCKED.
SameThreads ==
    /\ UNCHANGED <<state, ready, sleeping, deferred, creating, threads, toFree, freeing>>
    /\ blocker' \in [Threads -> Blockers \union {NoBlocker}]
    /\ \A t \in Threads : state[t] = "BLOCKED" => blocker'[t] = blocker[t]

\* Such a step keeps what is said of threads and lists alone.
LEMMA SameThreadsFacts ==
    ASSUME IInv, SameThreads
    PROVE  /\ QueuesExact' /\ FinalizerExact' /\ CreationExact'
           /\ \A t \in Threads : (Lives(t)' <=> Lives(t)) /\ (Freed(t)' <=> Freed(t))
<1> USE DEF IInv, SameThreads
<1>1. \A t \in Threads : (Lives(t)' <=> Lives(t)) /\ (Freed(t)' <=> Freed(t))
  BY Zenon DEF Lives, Freed
<1>2. QueuesExact'
  BY Zenon, <1>1 DEF QueuesExact, should_block
<1>3. FinalizerExact' /\ CreationExact'
  BY Zenon, <1>1 DEF FinalizerExact, CreationExact
<1> QED
  BY Zenon, <1>1, <1>2, <1>3

\* A CPU stays where it is, enters pick_next(), or leaves it.
Moves ==
    \/ UNCHANGED <<pc, stack>>
    \/ \E c \in CPUs : pc[c] = "run" /\ pc' = [pc EXCEPT ![c] = "lock"] /\ UNCHANGED stack
    \/ \E c \in CPUs : /\ pc[c] = "switch" /\ pc' = [pc EXCEPT ![c] = "run"]
                       /\ stack' = [stack EXCEPT ![c] = current[c]]

\* Nothing, a process is released, or a thread becomes the killer of its process.
Exits ==
    \/ UNCHANGED <<killer, pstate>>
    \/ \E p \in Procs : pstate' = [pstate EXCEPT ![p] = "EXITED"] /\ UNCHANGED killer
    \/ \E t \in Threads : /\ pstate[Owner[t]] = "ALIVE" /\ pstate' = [pstate EXCEPT ![Owner[t]] = "EXITING"]
                          /\ killer' = [killer EXCEPT ![t] = TRUE]

\* A step outside pick_next(), or on its way in or out.
LEMMA Outside ==
    ASSUME IInv, SameThreads, UNCHANGED <<queuesLock, current, itr, toKill>>, Moves, Exits
    PROVE  IInv'
<1> USE DEF IInv
<1>1. /\ QueuesExact' /\ FinalizerExact' /\ CreationExact'
      /\ \A t \in Threads : (Lives(t)' <=> Lives(t)) /\ (Freed(t)' <=> Freed(t))
  BY Zenon, SameThreadsFacts
<1>2. Types'
  <2>1. pc' \in [CPUs -> {"run", "lock", "deferred", "wake", "decide", "kill", "pick", "switch"}]
    BY DEF Types, Moves
  <2>2. stack' \in [CPUs -> Threads \union {Idle}]
    BY DEF Types, Moves
  <2>3. killer' \in [Threads -> BOOLEAN]
    BY Zenon DEF Types, Exits
  <2>4. \A t \in Threads : Owner[t] \in Procs
    BY Zenon, OwnerAssumption
  <2>5. pstate' \in [Procs -> {"ALIVE", "EXITING", "EXITED"}]
    BY <2>4 DEF Types, Exits
  <2> QED
    BY Zenon, <2>1, <2>2, <2>3, <2>5 DEF Types, SameThreads
<1>3. LockExact'
  BY DEF LockExact, UnderLock, Types, Moves
<1>4. \A d \in CPUs : \A l \in UnderLock : pc'[d] = l <=> pc[d] = l
  BY DEF UnderLock, Types, Moves
<1>5. CPUsExact'
  <2>1. \A d \in CPUs : pc'[d] # "switch" => stack'[d] = current'[d]
    BY DEF CPUsExact, Types, Moves
  <2>2. \A d \in CPUs : current'[d] \in Threads =>
           /\ Lives(current[d])'
           /\ \/ state'[current'[d]] = "RUNNING"
              \/ pc'[d] = "pick" /\ state'[current'[d]] \in {"BLOCKED", "DEAD"}
              \/ pc'[d] = "kill" /\ state'[current'[d]] = "DEAD"
    BY <1>1, <1>4 DEF CPUsExact, UnderLock, SameThreads, Lives, Freed
  <2> QED
    BY <2>1, <2>2 DEF CPUsExact
<1>6. \A t \in Threads : killer[t] => killer'[t]
  BY DEF Types, Exits
<1>7. DeferredExact'
  BY Zenon, <1>1, <1>4, <1>6 DEF DeferredExact, UnderLock, SameThreads
<1>8. KillExact'
  <2>1. \A t, u \in Threads : killer'[t] /\ killer'[u] /\ Owner[t] = Owner[u] => t = u
    BY DEF KillExact, Types, Exits
  <2>2. \A t \in Threads : killer'[t] => pstate'[Owner[t]] # "ALIVE"
    BY OwnerAssumption DEF KillExact, Types, Exits
  <2>3. \A t \in Threads : Freed(t)' /\ state'[t] \in {"READY", "BLOCKED"} =>
           \E k \in Threads : killer'[k] /\ Owner[k] = Owner[t] /\ state'[k] = "DEAD"
    BY Zenon, <1>1, <1>6 DEF KillExact, SameThreads
  <2>4. \A d \in CPUs : pc'[d] = "kill" =>
           /\ toKill' \subseteq threads'[Owner[current'[d]]]
           /\ \A t \in toKill' : state'[t] \in {"READY", "BLOCKED"} => ~Freed(t)'
    BY Zenon, <1>1, <1>4 DEF KillExact, UnderLock, Types, SameThreads
  <2> QED
    BY Zenon, <2>1, <2>2, <2>3, <2>4 DEF KillExact
<1> QED
  BY Zenon, <1>1, <1>2, <1>3, <1>5, <1>7, <1>8

\* Whoever is under the lock is alone there, and the threads of the others are RUNNING.
LEMMA Holder ==
    ASSUME IInv, NEW c \in CPUs, pc[c] \in UnderLock
    PROVE  /\ queuesLock = c
           /\ \A d \in CPUs : d # c => pc[d] \notin UnderLock
           /\ \A d \in CPUs : d # c /\ current[d] \in Threads => state[current[d]] = "RUNNING"
           /\ pc[c] \in {"deferred", "wake", "decide"} /\ current[c] \in Threads => state[current[c]] = "RUNNING"
<1> USE DEF IInv
<1>1. queuesLock = c /\ \A d \in CPUs : d # c => pc[d] \notin UnderLock
  BY Zenon DEF LockExact
<1> QED
  BY Zenon, <1>1 DEF CPUsExact, UnderLock

\* While the lock is free every thread that a CPU has is RUNNING.
LEMMA NoHolder ==
    ASSUME IInv, queuesLock = NoCPU
    PROVE  /\ \A d \in CPUs : pc[d] \notin UnderLock
           /\ \A d \in CPUs : current[d] \in Threads => state[current[d]] = "RUNNING"
<1> USE DEF IInv
<1>1. \A d \in CPUs : pc[d] \notin UnderLock
  BY Zenon, NotAThreadAssumption DEF LockExact
<1> QED
  BY Zenon, <1>1 DEF CPUsExact, UnderLock

\* pick_next() takes the lock or goes on to its next part.
LEMMA Inside ==
    ASSUME IInv, SameThreads, UNCHANGED <<current, stack, toKill, killer, pstate>>, itr' = 1,
           NEW c \in CPUs, queuesLock' = c,
           NEW l \in {"deferred", "wake", "decide", "pick"}, pc' = [pc EXCEPT ![c] = l],
           \/ pc[c] \in UnderLock
           \/ queuesLock = NoCPU /\ pc[c] # "switch",
           pc[c] \in {"pick", "kill"} => l = "pick",
           l \in {"wake", "decide"} => deferred = <<>>
    PROVE  IInv'
<1> USE DEF IInv
<1>1. /\ QueuesExact' /\ FinalizerExact' /\ CreationExact'
      /\ \A t \in Threads : (Lives(t)' <=> Lives(t)) /\ (Freed(t)' <=> Freed(t))
  BY Zenon, SameThreadsFacts
<1>2. Types'
  BY Zenon DEF Types, SameThreads
<1>3. \A d \in CPUs : d # c => pc[d] \notin UnderLock
  BY Zenon, Holder, NoHolder
<1>4. pc'[c] = l /\ \A d \in CPUs : d # c => pc'[d] = pc[d]
  BY Zenon DEF Types
<1>5. LockExact'
  BY Zenon, <1>3, <1>4 DEF LockExact, UnderLock
<1>6. CPUsExact'
  BY <1>1, <1>3, <1>4 DEF CPUsExact, UnderLock, SameThreads
<1>7. DeferredExact'
  BY Zenon, <1>1, <1>3, <1>4 DEF DeferredExact, UnderLock, SameThreads
<1>8. KillExact'
  BY <1>1, <1>3, <1>4 DEF KillExact, UnderLock, SameThreads
<1> QED
  BY Zenon, <1>1, <1>2, <1>5, <1>6, <1>7, <1>8

\* Steps of the code outside the scheduler, of the clock, and the finalizer's at processes.
LEMMA QuietSteps ==
    ASSUME IInv, \/ UNCHANGED vars \/ TimePasses \/ Halted \/ unregister_process
                 \/ \E p \in Procs : do_free_process(p)
                 \/ \E c \in CPUs : yield(c) \/ switch_task(c)
                 \/ \E c \in CPUs, t \in Threads : set_invulnerable(c, t) \/ exit_thread(c, t)
    PROVE  IInv'
<1> USE DEF vars, threadVars, listVars, cpuVars, procVars, finalizerVars
<1>1. SameThreads
  <2>1. UNCHANGED <<state, blocker, ready, sleeping, deferred, creating, threads, toFree, freeing>>
    BY Zenon DEF TimePasses, Halted, unregister_process, do_free_process, yield, switch_task, set_invulnerable, exit_thread
  <2> QED
    BY Zenon, <2>1 DEF SameThreads, IInv, Types
<1>2. UNCHANGED <<queuesLock, current, itr, toKill>>
  BY Zenon DEF TimePasses, Halted, unregister_process, do_free_process, yield, switch_task, set_invulnerable, exit_thread
<1>3. Moves
  BY Zenon DEF TimePasses, Halted, unregister_process, do_free_process, yield, switch_task, set_invulnerable, exit_thread,
         Moves, Enter, Goto, Executes
<1>4. Exits
  BY Zenon DEF TimePasses, Halted, unregister_process, do_free_process, yield, switch_task, set_invulnerable, exit_thread, Exits
<1> QED
  BY Zenon, <1>1, <1>2, <1>3, <1>4, Outside

\* exit_process(): the compare-and-exchange makes one killer.
LEMMA ExitProcess ==
    ASSUME IInv, NEW c \in CPUs, NEW t \in Threads, exit_process(c, t)
    PROVE  IInv'
<1> USE DEF exit_process, listVars, finalizerVars
<1>1. SameThreads
  BY Zenon DEF SameThreads, IInv, Types
<1>2. Moves
  BY Zenon DEF Moves, Enter, Executes
<1>3. Exits
  <2>1. CASE pstate[Owner[t]] = "ALIVE"
    <3>1. pstate' = [pstate EXCEPT ![Owner[t]] = "EXITING"] /\ killer' = [killer EXCEPT ![t] = TRUE]
      BY Zenon, <2>1, OwnerAssumption DEF IInv, Types
    <3> QED
      BY Zenon, <2>1, <3>1 DEF Exits
  <2>2. CASE pstate[Owner[t]] # "ALIVE"
    <3>1. pstate' = pstate
      BY Zenon, <2>2, OwnerAssumption DEF IInv, Types
    <3>2. killer' = killer
      BY Zenon, <2>2 DEF IInv, Types
    <3> QED
      BY Zenon, <3>1, <3>2 DEF Exits
  <2> QED
    BY Zenon, <2>1, <2>2
<1> QED
  BY Zenon, <1>1, <1>2, <1>3, Outside

\* A thread that is about to block gets a new blocker; it is RUNNING still.
LEMMA Blocks ==
    ASSUME IInv, NEW c \in CPUs, NEW t \in Threads, NEW b \in Blockers, block(c, t, b)
    PROVE  IInv'
<1> USE DEF block, listVars, procVars, finalizerVars
<1>1. state[t] = "RUNNING"
  BY Zenon DEF IInv, CPUsExact, Executes
<1>2. SameThreads
  BY Zenon, <1>1 DEF SameThreads, IInv, Types
<1>3. Moves /\ Exits
  BY Zenon DEF Moves, Exits, Enter, Executes
<1> QED
  BY Zenon, <1>2, <1>3, Outside

\* sleep() and the waits of the other blockers.
LEMMA SleepsAndWaits ==
    ASSUME IInv, NEW c \in CPUs, NEW t \in Threads, wait(c, t) \/ \E w \in 1 .. MaxTime : sleep(c, t, w)
    PROVE  IInv'
<1>1. [type |-> "SLEEP", result |-> "UNDEFINED"] \in Blockers
  BY Zenon DEF Blockers, BlockerTypes
<1>2. \A ty \in BlockerTypes, r \in {"UNDEFINED", "UNBLOCKED"} : [type |-> ty, result |-> r] \in Blockers
  BY Zenon DEF Blockers
<1>3. \E b \in Blockers : block(c, t, b)
  BY Zenon, <1>1, <1>2 DEF wait, sleep
<1> QED
  BY Zenon, <1>3, Blocks

\* pick_next() goes on and finds nothing to do in one of its parts.
LEMMA PickNextGoesOn ==
    ASSUME IInv, NEW c \in CPUs,
           \/ pick_next_lock(c) \/ pick_next_keep(c) \/ kill_all_end(c)
           \/ free_deferred_threads(c) /\ itr = Len(deferred) + 1
           \/ wake_ready_threads(c) /\ pc' # pc
    PROVE  IInv'
<1> USE DEF threadVars, listVars, procVars, finalizerVars, Goto
<1>0. itr = 1 /\ blocker \in [Threads -> Blockers \union {NoBlocker}]
  BY Zenon DEF IInv, Types, DeferredExact
<1>1. CASE pick_next_lock(c)
  <2>1. SameThreads
    BY Zenon, <1>0, <1>1 DEF pick_next_lock, LockThen, SameThreads
  <2> QED
    BY Zenon, <1>1, <2>1, Inside DEF pick_next_lock, LockThen, LockFree
<1>2. CASE pick_next_keep(c)
  <2>1. SameThreads
    BY Zenon, <1>0, <1>2 DEF pick_next_keep, SameThreads
  <2> QED
    BY Zenon, <1>0, <1>2, <2>1, Inside, Holder DEF pick_next_keep, UnderLock
<1>3. CASE kill_all_end(c)
  <2>1. SameThreads
    BY Zenon, <1>0, <1>3 DEF kill_all_end, SameThreads
  <2> QED
    BY Zenon, <1>0, <1>3, <2>1, Inside, Holder DEF kill_all_end, UnderLock
<1>4. CASE free_deferred_threads(c) /\ itr = Len(deferred) + 1
  <2>1. SameThreads /\ pc[c] = "deferred" /\ pc' = [pc EXCEPT ![c] = "wake"] /\ itr' = 1
    BY Zenon, <1>0, <1>4 DEF free_deferred_threads, SameThreads
  <2>2. deferred = <<>>
    BY <1>0, <1>4 DEF IInv, Types
  <2> QED
    BY Zenon, <1>4, <2>1, <2>2, Inside, Holder DEF free_deferred_threads, UnderLock
<1>5. CASE wake_ready_threads(c) /\ pc' # pc
  <2>1. pc[c] = "wake" /\ pc' = [pc EXCEPT ![c] = "decide"] /\ UNCHANGED <<state, blocker, ready, sleeping>>
    BY Zenon, <1>5 DEF wake_ready_threads
  <2>3. SameThreads
    BY Zenon, <1>0, <1>5, <2>1 DEF wake_ready_threads, SameThreads
  <2>2. deferred = <<>>
    BY Zenon, <2>1 DEF IInv, DeferredExact
  <2> QED
    BY Zenon, <1>0, <1>5, <2>1, <2>2, <2>3, Inside, Holder DEF wake_ready_threads, UnderLock
<1> QED
  BY Zenon, <1>1, <1>2, <1>3, <1>4, <1>5

\* What keeps KillExact: nobody becomes a killer, the dead stay dead, and whoever is freed from a list is freed by
\* the killer of its process.
LEMMA KillFrame ==
    ASSUME IInv, killer' = killer, \A p \in Procs : pstate[p] # "ALIVE" => pstate'[p] # "ALIVE",
           \A t \in Threads : state[t] = "DEAD" => state'[t] = "DEAD",
           \A t \in Threads : Freed(t)' /\ state'[t] \in {"READY", "BLOCKED"} =>
               \/ Freed(t) /\ state[t] \in {"READY", "BLOCKED"}
               \/ \E c \in CPUs : pc[c] = "kill" /\ Owner[current[c]] = Owner[t],
           \A c \in CPUs : pc'[c] = "kill" =>
               /\ toKill' \subseteq threads'[Owner[current'[c]]]
               /\ \A t \in toKill' : state'[t] \in {"READY", "BLOCKED"} => ~Freed(t)'
    PROVE  KillExact'
<1> USE DEF IInv
<1>1. \A t \in Threads : killer'[t] => pstate'[Owner[t]] # "ALIVE"
  BY Zenon, OwnerAssumption DEF KillExact
<1>2. ASSUME NEW t \in Threads, Freed(t)', state'[t] \in {"READY", "BLOCKED"}
      PROVE  \E k \in Threads : killer'[k] /\ Owner[k] = Owner[t] /\ state'[k] = "DEAD"
  <2>1. CASE Freed(t) /\ state[t] \in {"READY", "BLOCKED"}
    BY Zenon, <2>1 DEF KillExact
  <2>2. CASE \E c \in CPUs : pc[c] = "kill" /\ Owner[current[c]] = Owner[t]
    <3>1. PICK c \in CPUs : pc[c] = "kill" /\ Owner[current[c]] = Owner[t]
      BY Zenon, <2>2
    <3>2. current[c] \in Threads /\ killer[current[c]] /\ state[current[c]] = "DEAD"
      BY Zenon, <3>1 DEF DeferredExact
    <3> QED
      BY Zenon, <3>1, <3>2
  <2> QED
    BY Zenon, <1>2, <2>1, <2>2
<1> QED
  BY Zenon, <1>1, <1>2 DEF KillExact

------------------------------------------------------------------------------
(* Threads come.                                                           *)

\* A thread that is not registered is nowhere.
LEMMA Newcomer ==
    ASSUME IInv, NEW t \in Threads, creating[t] # "done"
    PROVE  /\ state[t] = "UNDEFINED" /\ ~Freed(t) /\ ~Lives(t)
           /\ ~In(t, ready) /\ t \notin sleeping /\ deferred # <<t>>
           /\ \A c \in CPUs : current[c] # t
<1> USE DEF IInv
<1>1. state[t] = "UNDEFINED" /\ ~Freed(t) /\ ~Lives(t)
  BY Zenon DEF CreationExact, Lives
<1>2. ~In(t, ready) /\ t \notin sleeping
  BY Zenon, <1>1 DEF QueuesExact
<1>3. deferred # <<t>>
  BY <1>1 DEF DeferredExact
<1> QED
  BY Zenon, <1>1, <1>2, <1>3 DEF CPUsExact

\* create_thread() up to register_thread().
LEMMA CreateThread ==
    ASSUME IInv, NEW t \in Threads, create_thread_check(t) \/ create_thread_emplace(t)
    PROVE  IInv'
<1> USE DEF IInv
<1>0. /\ creating[t] # "done"
      /\ UNCHANGED <<state, blocker, killer, ready, sleeping, deferred, queuesLock, current, stack, pc, itr, toKill, pstate,
                     toFree, freeing>>
      /\ creating' \in [Threads -> {"no", "checked", "emplaced", "done"}]
      /\ \A u \in Threads : u # t => creating'[u] = creating[u]
      /\ creating'[t] # "no" /\ (creating'[t] = "emplaced" => t \in threads'[Owner[t]])
      /\ threads' \in [Procs -> SUBSET Threads]
      /\ \A p \in Procs : threads[p] \subseteq threads'[p] /\ \A u \in threads'[p] : u \in threads[p] \/ (u = t /\ p = Owner[t])
  <2>1. CASE create_thread_check(t)
    BY Zenon, <2>1 DEF create_thread_check, Types, threadVars, listVars, cpuVars, finalizerVars
  <2>2. CASE create_thread_emplace(t)
    <3>1. /\ creating[t] = "checked" /\ creating' = [creating EXCEPT ![t] = "emplaced"]
          /\ threads' = [threads EXCEPT ![Owner[t]] = @ \union {t}]
          /\ UNCHANGED <<state, blocker, killer, ready, sleeping, deferred, queuesLock, current, stack, pc, itr, toKill,
                         pstate, toFree, freeing>>
      BY Zenon, <2>2 DEF create_thread_emplace, threadVars, listVars, cpuVars, finalizerVars
    <3>2. Owner[t] \in Procs /\ threads \in [Procs -> SUBSET Threads]
      BY Zenon, OwnerAssumption DEF Types
    <3>3. /\ threads'[Owner[t]] = threads[Owner[t]] \union {t}
          /\ \A p \in Procs : p # Owner[t] => threads'[p] = threads[p]
          /\ threads' \in [Procs -> SUBSET Threads]
      BY Zenon, <3>1, <3>2
    <3>4. /\ creating' \in [Threads -> {"no", "checked", "emplaced", "done"}]
          /\ creating'[t] = "emplaced" /\ \A u \in Threads : u # t => creating'[u] = creating[u]
      BY Zenon, <3>1 DEF Types
    <3> QED
      BY Zenon, <3>1, <3>2, <3>3, <3>4
  <2> QED
    BY Zenon, <2>1, <2>2
<1>1. state[t] = "UNDEFINED" /\ ~Freed(t) /\ deferred # <<t>> /\ \A c \in CPUs : current[c] # t
  BY Zenon, <1>0, Newcomer
<1>2. \A u \in Threads : Freed(u)' <=> Freed(u)
  BY Zenon, <1>0 DEF Freed
<1>3. \A u \in Threads : u # t => (Lives(u)' <=> Lives(u))
  BY Zenon, <1>0, <1>2, OwnerAssumption DEF Lives
<1>4. Types'
  BY Zenon, <1>0 DEF Types
<1>5. LockExact' /\ FinalizerExact'
  BY Zenon, <1>0 DEF LockExact, FinalizerExact
<1>6. CPUsExact'
  BY Zenon, <1>0, <1>1, <1>3 DEF CPUsExact
<1>7. DeferredExact'
  BY Zenon, <1>0, <1>1, <1>3 DEF DeferredExact
<1>8. QueuesExact'
  BY Zenon, <1>0, <1>1, <1>3, Newcomer DEF QueuesExact
<1>9. CreationExact'
  BY <1>0, <1>1, <1>2, OwnerAssumption, MainAssumption DEF CreationExact
<1>10. KillExact'
  <2>1. \A c \in CPUs : pc[c] = "kill" => Owner[current[c]] \in Procs
    BY Zenon, OwnerAssumption DEF DeferredExact
  <2> QED
    BY Zenon, <1>0, <1>2, <2>1 DEF KillExact
<1> QED
  BY Zenon, <1>4, <1>5, <1>6, <1>7, <1>8, <1>9, <1>10

\* A new thread is put on the ready list.
LEMMA Registered ==
    ASSUME IInv, queuesLock = NoCPU, NEW t \in Threads, creating[t] # "done", t \in threads[Owner[t]],
           creating' = [creating EXCEPT ![t] = "done"], state' = [state EXCEPT ![t] = "READY"], ready' = Append(ready, t),
           UNCHANGED <<blocker, killer, sleeping, deferred, queuesLock, current, stack, pc, itr, toKill, pstate, threads,
                       toFree, freeing>>
    PROVE  IInv'
<1> USE DEF IInv
<1>1. /\ state[t] = "UNDEFINED" /\ ~Freed(t) /\ ~In(t, ready) /\ t \notin sleeping /\ deferred # <<t>>
      /\ \A c \in CPUs : current[c] # t
  BY Zenon, Newcomer
<1>2. /\ \A u \in Threads : Freed(u)' <=> Freed(u)
      /\ \A u \in Threads : Lives(u)' <=> (Lives(u) \/ u = t)
  BY Zenon, <1>1 DEF Lives, Freed, Types
<1>3. state'[t] = "READY" /\ creating'[t] = "done" /\ \A u \in Threads : u # t => state'[u] = state[u] /\ creating'[u] = creating[u]
  BY Zenon DEF Types
<1>4. Types'
  BY Zenon, AppendElements DEF Types
<1>5. LockExact' /\ FinalizerExact'
  BY Zenon DEF LockExact, FinalizerExact
<1>6. CPUsExact'
  BY <1>1, <1>2, <1>3 DEF CPUsExact
<1>7. DeferredExact'
  BY <1>1, <1>2, <1>3 DEF DeferredExact
<1>8. QueuesExact'
  <2>1. NoRepeat(ready') /\ \A u : In(u, ready') <=> (In(u, ready) \/ u = t)
    BY <1>1, AppendIn DEF QueuesExact, Types
  <2> QED
    BY <1>1, <1>2, <1>3, <2>1 DEF QueuesExact
<1>9. CreationExact'
  BY <1>1, <1>2, <1>3 DEF CreationExact
<1>10. KillExact'
  <2>1. \A c \in CPUs : pc[c] # "kill"
    BY Zenon, NoHolder DEF UnderLock
  <2> QED
    BY Zenon, <1>1, <1>2, <1>3, <2>1, KillFrame
<1> QED
  BY Zenon, <1>4, <1>5, <1>6, <1>7, <1>8, <1>9, <1>10

\* A new thread of a process that has exited meanwhile goes to the finalizer.
LEMMA Rejected ==
    ASSUME IInv, queuesLock = NoCPU, NEW t \in Threads, creating[t] # "done",
           creating' = [creating EXCEPT ![t] = "done"], state' = [state EXCEPT ![t] = "DEAD"], toFree' = Append(toFree, t),
           UNCHANGED <<blocker, killer, ready, sleeping, deferred, queuesLock, current, stack, pc, itr, toKill, pstate, threads,
                       freeing>>
    PROVE  IInv'
<1> USE DEF IInv
<1>1. /\ state[t] = "UNDEFINED" /\ ~Freed(t) /\ ~In(t, ready) /\ t \notin sleeping /\ deferred # <<t>> /\ ~Lives(t)
      /\ \A c \in CPUs : current[c] # t
  BY Zenon, Newcomer
<1>2. ~In(t, toFree) => NoRepeat(toFree') /\ \A u : In(u, toFree') <=> (In(u, toFree) \/ u = t)
  BY Zenon, AppendIn DEF FinalizerExact, Types
<1>3. /\ \A u \in Threads : Freed(u)' <=> (Freed(u) \/ u = t)
      /\ \A u \in Threads : Lives(u)' <=> Lives(u)
  BY Zenon, <1>1, <1>2 DEF Lives, Freed, Types
<1>4. state'[t] = "DEAD" /\ creating'[t] = "done" /\ \A u \in Threads : u # t => state'[u] = state[u] /\ creating'[u] = creating[u]
  BY Zenon DEF Types
<1>5. Types'
  BY Zenon, AppendElements DEF Types
<1>6. LockExact'
  BY Zenon DEF LockExact
<1>7. FinalizerExact'
  BY Zenon, <1>1, <1>2 DEF FinalizerExact, Freed
<1>8. CPUsExact'
  BY <1>1, <1>3, <1>4 DEF CPUsExact
<1>9. DeferredExact'
  BY <1>1, <1>3, <1>4 DEF DeferredExact
<1>10. QueuesExact'
  BY <1>1, <1>3, <1>4 DEF QueuesExact
<1>11. CreationExact'
  BY <1>1, <1>3, <1>4 DEF CreationExact
<1>12. KillExact'
  <2>1. \A c \in CPUs : pc[c] # "kill"
    BY Zenon, NoHolder DEF UnderLock
  <2> QED
    BY Zenon, <1>1, <1>3, <1>4, <2>1, KillFrame
<1> QED
  BY Zenon, <1>5, <1>6, <1>7, <1>8, <1>9, <1>10, <1>11, <1>12

\* register_process() and register_thread().
LEMMA Registers ==
    ASSUME IInv, (\E p \in Procs : register_process(p)) \/ (\E t \in Threads : register_thread(t))
    PROVE  IInv'
<1> USE DEF cpuVars, finalizerVars, LockFree
<1>1. ASSUME NEW p \in Procs, register_process(p) PROVE IInv'
  <2>1. Main[p] \in Threads /\ Owner[Main[p]] = p
    BY Zenon, MainAssumption
  <2>2. creating[Main[p]] = "no" /\ Main[p] \in threads[p]
    BY Zenon, <1>1 DEF register_process, IInv, CreationExact
  <2> QED
    BY Zenon, <1>1, <2>1, <2>2, Registered DEF register_process
<1>2. ASSUME NEW t \in Threads, register_thread(t) PROVE IInv'
  <2>1. creating[t] = "emplaced" /\ t \in threads[Owner[t]]
    BY Zenon, <1>2 DEF register_thread, IInv, CreationExact
  <2> QED
    BY Zenon, <1>2, <2>1, Registered, Rejected DEF register_thread
<1> QED
  BY Zenon, <1>1, <1>2

------------------------------------------------------------------------------
(* Threads move from list to list.                                         *)

\* A thread that sleeps, and whose process nobody has killed, is made READY.
LEMMA WakeUp ==
    ASSUME IInv, NEW t \in Threads, Lives(t), state[t] = "BLOCKED", \A c \in CPUs : current[c] # t,
           state' = [state EXCEPT ![t] = "READY"], blocker' = [blocker EXCEPT ![t] = NoBlocker],
           ready' = Append(ready, t), sleeping' = sleeping \ {t}, toKill' \subseteq toKill,
           UNCHANGED <<killer, deferred, queuesLock, current, stack, pc, itr, pstate, threads, creating, toFree, freeing>>
    PROVE  IInv'
<1> USE DEF IInv
<1>1. /\ \A u \in Threads : Freed(u)' <=> Freed(u)
      /\ \A u \in Threads : Lives(u)' <=> Lives(u)
  BY Zenon DEF Lives, Freed
<1>2. state'[t] = "READY" /\ \A u \in Threads : u # t => state'[u] = state[u] /\ blocker'[u] = blocker[u]
  BY Zenon DEF Types
<1>3. Types'
  BY Zenon, AppendElements DEF Types
<1>4. LockExact' /\ FinalizerExact'
  BY Zenon DEF LockExact, FinalizerExact
<1>5. CPUsExact'
  BY <1>1, <1>2 DEF CPUsExact
<1>6. DeferredExact'
  BY <1>1, <1>2 DEF DeferredExact
<1>7. QueuesExact'
  <2>1. ~In(t, ready)
    BY Zenon DEF QueuesExact
  <2>2. NoRepeat(ready') /\ \A u : In(u, ready') <=> (In(u, ready) \/ u = t)
    BY <2>1, AppendIn DEF QueuesExact, Types
  <2> QED
    BY <1>1, <1>2, <2>2 DEF QueuesExact, should_block
<1>8. CreationExact'
  BY <1>1, <1>2 DEF CreationExact, Lives
<1>9. KillExact'
  <2>1. ~Freed(t)
    BY Zenon DEF Lives
  <2>2. \A c \in CPUs : pc'[c] = "kill" =>
            /\ toKill' \subseteq threads'[Owner[current'[c]]]
            /\ \A u \in toKill' : state'[u] \in {"READY", "BLOCKED"} => ~Freed(u)'
    <3>1. toKill \subseteq Threads
      BY Zenon DEF Types
    <3> QED
      BY Zenon, <1>1, <1>2, <2>1, <3>1 DEF KillExact
  <2> QED
    BY Zenon, <1>1, <1>2, <2>1, <2>2, KillFrame
<1> QED
  BY Zenon, <1>3, <1>4, <1>5, <1>6, <1>7, <1>8, <1>9

\* Blocker::unblock() of a thread that is BLOCKED, or not yet.
LEMMA Unblock ==
    ASSUME IInv, NEW t \in Threads, unblock(t)
    PROVE  IInv'
<1> USE DEF unblock, unblock_unchecked, cpuVars, procVars, finalizerVars, LockFree
<1>1. CASE state[t] = "BLOCKED"
  <2>1. blocker[t].type # "SLEEP"
    BY Zenon DEF BlockerTypes
  <2>2. Lives(t) /\ t \notin sleeping
    BY Zenon, <1>1, <2>1 DEF IInv, QueuesExact
  <2>3. \A c \in CPUs : current[c] # t
    BY Zenon, <1>1, NoHolder
  <2>4. sleeping' = sleeping \ {t}
    BY Zenon, <2>2
  <2>5. /\ state' = [state EXCEPT ![t] = "READY"] /\ blocker' = [blocker EXCEPT ![t] = NoBlocker]
        /\ ready' = Append(ready, t)
    BY Zenon, <1>1 DEF IInv, Types
  <2> QED
    BY Zenon, <1>1, <2>2, <2>3, <2>4, <2>5, WakeUp
<1>2. CASE state[t] # "BLOCKED"
  <2>1. set_result(blocker[t], "UNBLOCKED") \in Blockers
    <3>1. blocker[t] \in Blockers /\ should_block(blocker[t])
      BY DEF IInv, Types, BlockerTypes, NoBlocker
    <3> QED
      BY Zenon, <3>1 DEF set_result, Blockers
  <2>2. state' = state /\ ready' = ready
    BY Zenon, <1>2 DEF IInv, Types
  <2>3. blocker' = [blocker EXCEPT ![t] = set_result(blocker[t], "UNBLOCKED")]
    BY Zenon, <1>2 DEF IInv, Types
  <2>4. SameThreads
    <3>1. blocker' \in [Threads -> Blockers \union {NoBlocker}]
      BY Zenon, <2>1, <2>3 DEF IInv, Types
    <3>2. \A u \in Threads : state[u] = "BLOCKED" => blocker'[u] = blocker[u]
      BY Zenon, <1>2, <2>3 DEF IInv, Types
    <3> QED
      BY Zenon, <2>2, <3>1, <3>2 DEF SameThreads
  <2>5. Moves /\ Exits
    BY Zenon DEF Moves, Exits
  <2> QED
    BY Zenon, <2>4, <2>5, Outside
<1> QED
  BY Zenon, <1>1, <1>2

\* wake_ready_threads() finds a sleeper whose time has come.
LEMMA WakeSleeper ==
    ASSUME IInv, NEW c \in CPUs, wake_ready_threads(c), pc' = pc
    PROVE  IInv'
<1> USE DEF procVars, finalizerVars
<1>0. pc[c] = "wake" /\ pc \in [CPUs -> {"run", "lock", "deferred", "wake", "decide", "kill", "pick", "switch"}]
  BY Zenon DEF wake_ready_threads, IInv, Types
<1>1. pc' # [pc EXCEPT ![c] = "decide"]
  BY Zenon, <1>0
<1>2. PICK t \in sleeping : sleeping' = sleeping \ {t} /\ unblock_unchecked(t)
  BY Zenon, <1>1 DEF wake_ready_threads, Goto
<1>3. t \in Threads /\ state[t] = "BLOCKED" /\ Lives(t)
  BY Zenon DEF IInv, Types, QueuesExact
<1>4. \A d \in CPUs : current[d] # t
  BY Zenon, <1>0, <1>3, Holder DEF UnderLock
<1>5. /\ state' = [state EXCEPT ![t] = "READY"] /\ blocker' = [blocker EXCEPT ![t] = NoBlocker]
      /\ ready' = Append(ready, t)
  BY Zenon, <1>2, <1>3 DEF unblock_unchecked, IInv, Types
<1> QED
  BY Zenon, <1>2, <1>3, <1>4, <1>5, WakeUp DEF wake_ready_threads

\* free_deferred_threads() hands the dead thread to the finalizer.
LEMMA FreeDeferred ==
    ASSUME IInv, NEW c \in CPUs, free_deferred_threads(c), itr # Len(deferred) + 1
    PROVE  IInv'
<1> USE DEF IInv
<1>1. pc[c] = "deferred" /\ itr = 1 /\ deferred # <<>>
  BY DEF free_deferred_threads, DeferredExact
<1>2. PICK t \in Threads : deferred = <<t>> /\ state[t] = "DEAD" /\ Lives(t)
  BY Zenon, <1>1 DEF DeferredExact
<1>3. PopOff(<<t>>, <<t>>[1]) = <<>> /\ <<t>>[1] = t /\ Len(<<t>>) = 1
  BY Zenon, PopOnly
<1>4. /\ deferred' = <<>> /\ toFree' = Append(toFree, t) /\ itr' = 1
      /\ UNCHANGED <<state, blocker, killer, ready, sleeping, queuesLock, current, stack, pc, toKill, pstate, threads,
                     creating, freeing>>
  BY Zenon, <1>1, <1>2, <1>3 DEF free_deferred_threads, threadVars, procVars
<1>5. NoRepeat(toFree') /\ \A u : In(u, toFree') <=> (In(u, toFree) \/ u = t)
  BY Zenon, <1>2, <1>4, AppendIn DEF FinalizerExact, Types, Lives, Freed
<1>6. /\ \A u \in Threads : Freed(u)' <=> (Freed(u) \/ u = t)
      /\ \A u \in Threads : Lives(u)' <=> (Lives(u) /\ u # t)
  BY Zenon, <1>4, <1>5 DEF Lives, Freed
<1>7. Types'
  BY <1>2, <1>4, AppendElements DEF Types
<1>8. LockExact'
  BY Zenon, <1>4 DEF LockExact
<1>9. FinalizerExact'
  BY Zenon, <1>2, <1>4, <1>5 DEF FinalizerExact, Lives, Freed
<1>10. CPUsExact'
  <2>1. \A d \in CPUs : current[d] # t
    BY Zenon, <1>1, <1>2, Holder DEF UnderLock
  <2> QED
    BY Zenon, <1>4, <1>6, <2>1 DEF CPUsExact
<1>11. DeferredExact'
  BY Zenon, <1>4 DEF DeferredExact
<1>12. QueuesExact'
  BY Zenon, <1>2, <1>4, <1>6 DEF QueuesExact
<1>13. CreationExact'
  BY Zenon, <1>2, <1>4, <1>6 DEF CreationExact, Lives
<1>14. KillExact'
  <2>1. \A d \in CPUs : pc[d] # "kill"
    BY Zenon, <1>1, Holder DEF UnderLock
  <2> QED
    BY Zenon, <1>2, <1>4, <1>6, <2>1, KillFrame
<1> QED
  BY Zenon, <1>7, <1>8, <1>9, <1>10, <1>11, <1>12, <1>13, <1>14

\* pick_next() commits the block, unless it was unblocked too early.
LEMMA PickNextBlock ==
    ASSUME IInv, NEW c \in CPUs, pick_next_block(c)
    PROVE  IInv'
<1> DEFINE t == current[c]
<1>0. /\ pc[c] = "decide" /\ t \in Threads /\ pc' = [pc EXCEPT ![c] = "pick"]
      /\ UNCHANGED <<killer, ready, deferred, queuesLock, current, stack, itr, toKill, pstate, threads, creating, toFree,
                     freeing>>
  BY Zenon DEF pick_next_block, procVars, finalizerVars, Goto
<1>1. queuesLock = c /\ state[t] = "RUNNING" /\ Lives(t) /\ pc[c] \in UnderLock
  BY Zenon, <1>0, Holder DEF UnderLock, IInv, CPUsExact
<1>2. CASE unblocked_too_early(t)
  <2>1. blocker' = [blocker EXCEPT ![t] = NoBlocker] /\ UNCHANGED <<state, sleeping>>
    BY Zenon, <1>2 DEF pick_next_block
  <2>2. SameThreads
    BY Zenon, <1>0, <1>1, <2>1 DEF SameThreads, IInv, Types
  <2>3. itr' = 1
    BY Zenon, <1>0 DEF IInv, DeferredExact
  <2> QED
    BY Zenon, <1>0, <1>1, <2>2, <2>3, Inside
<1>3. CASE ~unblocked_too_early(t)
  <2> USE DEF IInv
  <2>0. /\ state' = [state EXCEPT ![t] = "BLOCKED"] /\ blocker' = blocker
        /\ sleeping' = IF blocker[t].type = "SLEEP" THEN sleeping \union {t} ELSE sleeping
        /\ should_block(blocker[t])
    BY Zenon, <1>3 DEF pick_next_block, unblocked_too_early
  <2> HIDE DEF t
  <2>1. /\ \A u \in Threads : Freed(u)' <=> Freed(u)
        /\ \A u \in Threads : Lives(u)' <=> Lives(u)
    BY Zenon, <1>0 DEF Lives, Freed
  <2>2. state'[t] = "BLOCKED" /\ \A u \in Threads : u # t => state'[u] = state[u]
    BY Zenon, <1>0, <2>0 DEF Types
  <2>3. pc'[c] = "pick" /\ \A d \in CPUs : d # c => pc'[d] = pc[d]
    BY Zenon, <1>0 DEF Types
  <2>4. Types'
    BY Zenon, <1>0, <2>0 DEF Types
  <2>5. LockExact'
    BY Zenon, <1>0, <1>1, <2>3 DEF LockExact, UnderLock
  <2>6. FinalizerExact'
    BY Zenon, <1>0 DEF FinalizerExact
  <2>7. CPUsExact'
    <3>1. current' = current /\ current[c] = t
      BY Zenon, <1>0 DEF t
    <3>2. ASSUME NEW d \in CPUs, NEW u \in Threads, current[d] = u
          PROVE  /\ Lives(u)'
                 /\ \/ state'[u] = "RUNNING"
                    \/ pc'[d] = "pick" /\ state'[u] \in {"BLOCKED", "DEAD"}
                    \/ pc'[d] = "kill" /\ state'[u] = "DEAD"
      <4>1. CASE d = c
        BY Zenon, <1>1, <2>1, <2>2, <2>3, <3>1, <3>2, <4>1
      <4>2. CASE d # c
        <5>1. u # t
          BY Zenon, <3>1, <3>2, <4>2 DEF CPUsExact
        <5>2. Lives(u)' /\ state'[u] = state[u] /\ pc'[d] = pc[d]
          BY Zenon, <2>1, <2>2, <2>3, <3>2, <4>2, <5>1 DEF CPUsExact
        <5> QED
          BY Zenon, <3>2, <5>2 DEF CPUsExact
      <4> QED
        BY Zenon, <4>1, <4>2
    <3>3. \A d \in CPUs : pc'[d] # "switch" => stack'[d] = current'[d]
      BY Zenon, <1>0, <2>3 DEF CPUsExact
    <3>4. \A d, e \in CPUs : current'[d] \in Threads /\ current'[d] = current'[e] => d = e
      BY Zenon, <3>1 DEF CPUsExact
    <3> QED
      BY <3>1, <3>2, <3>3, <3>4 DEF CPUsExact
  <2>8. DeferredExact'
    <3>1. deferred' = <<>> /\ itr' = 1
      BY Zenon, <1>0 DEF DeferredExact
    <3>2. \A d \in CPUs : pc'[d] # "kill"
      BY Zenon, <1>0, <1>1, <2>3, Holder DEF UnderLock
    <3> QED
      BY Zenon, <3>1, <3>2 DEF DeferredExact
  <2>9. QueuesExact'
    <3>1. \A u \in Threads : u \in sleeping' <=> (u \in sleeping \/ (u = t /\ blocker[t].type = "SLEEP"))
      BY Zenon, <2>0
    <3> QED
      BY <1>0, <1>1, <2>0, <2>1, <2>2, <3>1 DEF QueuesExact, should_block
  <2>10. CreationExact'
    <3>1. creating[t] = "done"
      BY Zenon, <1>1 DEF Lives
    <3> QED
      BY Zenon, <1>0, <2>1, <2>2, <3>1 DEF CreationExact
  <2>11. KillExact'
    <3>1. \A d \in CPUs : pc'[d] # "kill"
      BY Zenon, <1>0, <1>1, <2>3, Holder DEF UnderLock
    <3>2. ~Freed(t)
      BY Zenon, <1>1 DEF Lives
    <3> QED
      BY Zenon, <1>0, <1>1, <2>1, <2>2, <3>1, <3>2, KillFrame
  <2> QED
    BY Zenon, <2>4, <2>5, <2>6, <2>7, <2>8, <2>9, <2>10, <2>11
<1> QED
  BY Zenon, <1>2, <1>3

\* The current thread is DEAD from here on.
LEMMA Dies ==
    ASSUME IInv, NEW c \in CPUs, pc[c] = "decide", current[c] \in Threads,
           state' = [state EXCEPT ![current[c]] = "DEAD"],
           UNCHANGED <<blocker, killer, ready, sleeping, queuesLock, current, stack, itr, threads, creating, toFree, freeing>>,
           NEW l \in {"pick", "kill"}, pc' = [pc EXCEPT ![c] = l],
           pstate' \in [Procs -> {"ALIVE", "EXITING", "EXITED"}], toKill' \subseteq Threads,
           \A p \in Procs : pstate[p] # "ALIVE" => pstate'[p] # "ALIVE",
           l = "pick" => deferred' = <<current[c]>>,
           l = "kill" => deferred' = deferred /\ toKill' = threads[Owner[current[c]]] /\ killer[current[c]]
    PROVE  IInv'
<1> DEFINE t == current[c]
<1> USE DEF IInv
<1>0. /\ queuesLock = c /\ state[t] = "RUNNING" /\ Lives(t) /\ deferred = <<>> /\ t \in Threads
      /\ \A d \in CPUs : d # c => pc[d] \notin UnderLock
  BY Zenon, Holder DEF UnderLock, CPUsExact, DeferredExact
<1>1. /\ \A u \in Threads : Freed(u)' <=> Freed(u)
      /\ \A u \in Threads : Lives(u)' <=> Lives(u)
  BY Zenon DEF Lives, Freed
<1>2. state'[t] = "DEAD" /\ \A u \in Threads : u # t => state'[u] = state[u]
  BY Zenon DEF Types
<1>3. pc'[c] = l /\ \A d \in CPUs : d # c => pc'[d] = pc[d]
  BY Zenon DEF Types
<1>4. deferred' \in Seq(Threads)
  <2>1. <<t>> \in Seq(Threads)
    BY <1>0
  <2> QED
    BY Zenon, <2>1 DEF Types
<1>5. Types'
  BY Zenon, <1>0, <1>4 DEF Types
<1>6. LockExact' /\ FinalizerExact'
  BY Zenon, <1>0, <1>3 DEF LockExact, UnderLock, FinalizerExact
<1>7. CPUsExact'
  BY <1>0, <1>1, <1>2, <1>3 DEF CPUsExact
<1>8. DeferredExact'
  <2>1. itr' = 1 /\ current'[c] = t
    BY Zenon DEF DeferredExact
  <2>2. \A d \in CPUs : pc'[d] \notin {"wake", "decide"} /\ (pc'[d] = "kill" => d = c /\ l = "kill")
    BY Zenon, <1>0, <1>3 DEF UnderLock
  <2>3. PICK u \in Threads : u = t /\ Lives(u)' /\ state'[u] = "DEAD"
    BY Zenon, <1>0, <1>1, <1>2
  <2>4. deferred' = <<>> \/ \E v \in Threads : deferred' = <<v>> /\ state'[v] = "DEAD" /\ Lives(v)'
    BY Zenon, <1>0, <2>3
  <2>5. l = "kill" => deferred' = <<>> /\ killer'[t]
    BY Zenon, <1>0
  <2> QED
    BY Zenon, <1>0, <1>2, <2>1, <2>2, <2>4, <2>5 DEF DeferredExact
<1>9. QueuesExact'
  BY <1>0, <1>1, <1>2 DEF QueuesExact, should_block
<1>10. CreationExact'
  BY <1>0, <1>1, <1>2 DEF CreationExact, Lives
<1>11. KillExact'
  <2>1. \A d \in CPUs : pc'[d] = "kill" => d = c /\ l = "kill"
    BY Zenon, <1>0, <1>3 DEF UnderLock
  <2>2. l = "kill" => \A u \in toKill' : state'[u] \in {"READY", "BLOCKED"} => ~Freed(u)'
    <3> SUFFICES ASSUME l = "kill", NEW u \in toKill', state'[u] \in {"READY", "BLOCKED"}, Freed(u)'
                 PROVE  FALSE
      BY Zenon
    <3>0. toKill' = threads[Owner[t]] /\ killer[t] /\ Owner[t] \in Procs
      BY Zenon, <1>0, OwnerAssumption
    <3>1. u \in Threads /\ Owner[u] = Owner[t] /\ u # t /\ killer[t]
      BY <1>2, <3>0 DEF CreationExact
    <3>2. PICK k \in Threads : killer[k] /\ Owner[k] = Owner[u] /\ state[k] = "DEAD"
      BY Zenon, <1>1, <1>2, <3>1 DEF KillExact
    <3>3. k = t
      BY Zenon, <1>0, <3>1, <3>2 DEF KillExact
    <3> QED
      BY Zenon, <1>0, <3>2, <3>3
  <2>3. \A d \in CPUs : pc'[d] = "kill" =>
           /\ toKill' \subseteq threads'[Owner[current'[d]]]
           /\ \A u \in toKill' : state'[u] \in {"READY", "BLOCKED"} => ~Freed(u)'
    BY Zenon, <2>1, <2>2
  <2>4. \A u \in Threads : /\ state[u] = "DEAD" => state'[u] = "DEAD"
                           /\ state'[u] \in {"READY", "BLOCKED"} => state[u] \in {"READY", "BLOCKED"}
    BY Zenon, <1>0, <1>2
  <2> QED
    BY Zenon, <1>1, <2>3, <2>4, KillFrame
<1> QED
  BY Zenon, <1>5, <1>6, <1>7, <1>8, <1>9, <1>10, <1>11

\* kill_current_thread(), of the killer and of any other thread.
LEMMA KillCurrent ==
    ASSUME IInv, NEW c \in CPUs, kill_current_thread(c) \/ kill_all_begin(c)
    PROVE  IInv'
<1> USE DEF Goto, procVars, finalizerVars
<1>1. CASE kill_current_thread(c)
  <2>1. /\ pc[c] = "decide" /\ current[c] \in Threads /\ deferred = <<>>
        /\ deferred' = Append(deferred, current[c])
    BY Zenon, <1>1 DEF kill_current_thread, MustDie, IInv, DeferredExact
  <2>2. deferred' = <<current[c]>>
    BY <2>1
  <2>3. pstate' = [pstate EXCEPT ![Owner[current[c]]] =
                      IF @ = "ALIVE" /\ alive[Owner[current[c]]] = 1 THEN "EXITING" ELSE @]
    BY Zenon, <1>1 DEF kill_current_thread
  <2>4. pstate' \in [Procs -> {"ALIVE", "EXITING", "EXITED"}] /\ \A p \in Procs : pstate[p] # "ALIVE" => pstate'[p] # "ALIVE"
    BY Zenon, <2>3 DEF IInv, Types
  <2>5. /\ state' = [state EXCEPT ![current[c]] = "DEAD"] /\ pc' = [pc EXCEPT ![c] = "pick"]
        /\ UNCHANGED <<blocker, killer, ready, sleeping, queuesLock, current, stack, itr, threads, creating, toFree,
                       freeing, toKill>>
    BY Zenon, <1>1 DEF kill_current_thread
  <2>6. toKill' \subseteq Threads
    BY Zenon, <2>5 DEF IInv, Types
  <2> QED
    BY Zenon, <2>1, <2>2, <2>4, <2>5, <2>6, Dies
<1>2. CASE kill_all_begin(c)
  <2>1. /\ pc[c] = "decide" /\ current[c] \in Threads /\ killer[current[c]]
        /\ toKill' = threads[Owner[current[c]]]
        /\ state' = [state EXCEPT ![current[c]] = "DEAD"] /\ pc' = [pc EXCEPT ![c] = "kill"]
        /\ UNCHANGED <<blocker, killer, ready, sleeping, deferred, queuesLock, current, stack, itr, pstate, threads,
                       creating, toFree, freeing>>
    BY Zenon, <1>2 DEF kill_all_begin, MustDie, listVars
  <2>2. toKill' \subseteq Threads
    BY Zenon, <2>1, OwnerAssumption DEF IInv, Types
  <2>3. pstate' \in [Procs -> {"ALIVE", "EXITING", "EXITED"}] /\ \A p \in Procs : pstate[p] # "ALIVE" => pstate'[p] # "ALIVE"
    BY Zenon, <2>1 DEF IInv, Types
  <2> QED
    BY Zenon, <2>1, <2>2, <2>3, Dies
<1> QED
  BY Zenon, <1>1, <1>2
------------------------------------------------------------------------------
(* kill_all_threads_except_current, and the choice of the next thread.       *)

\* The loop over the threads of the process comes to its killer, or to a thread it can only mark.
LEMMA KillMarks ==
    ASSUME IInv, NEW c \in CPUs, pc[c] = "kill", NEW u \in toKill, toKill' = toKill \ {u},
           IF u = current[c] THEN deferred' = Append(deferred, current[c]) ELSE deferred' = deferred,
           UNCHANGED <<state, blocker, killer, ready, sleeping, queuesLock, current, stack, pc, itr, pstate, threads,
                       creating, toFree, freeing>>
    PROVE  IInv'
<1> USE DEF IInv
<1>1. /\ \A v \in Threads : Freed(v)' <=> Freed(v)
      /\ \A v \in Threads : Lives(v)' <=> Lives(v)
  BY Zenon DEF Lives, Freed
<1>2. /\ current[c] \in Threads /\ state[current[c]] = "DEAD" /\ Lives(current[c])
      /\ \A d \in CPUs : d # c => pc[d] \notin UnderLock
  BY Zenon, Holder DEF UnderLock, DeferredExact, CPUsExact
<1>3. deferred' = IF u = current[c] THEN <<current[c]>> ELSE deferred
  <2>1. u = current[c] => deferred = <<>>
    BY Zenon DEF DeferredExact
  <2>2. Append(<<>>, current[c]) = <<current[c]>>
    OBVIOUS
  <2> QED
    BY Zenon, <2>1, <2>2
<1>4. Types'
  <2>1. <<current[c]>> \in Seq(Threads)
    BY <1>2
  <2> QED
    BY Zenon, <1>3, <2>1 DEF Types
<1>5. LockExact' /\ CPUsExact' /\ FinalizerExact'
  BY Zenon, <1>1 DEF LockExact, CPUsExact, FinalizerExact
<1>6. DeferredExact'
  BY Zenon, <1>1, <1>2, <1>3 DEF DeferredExact, UnderLock
<1>7. QueuesExact' /\ CreationExact'
  BY Zenon, <1>1 DEF QueuesExact, should_block, CreationExact
<1>8. KillExact'
  BY Zenon, <1>1 DEF KillExact, Types
<1> QED
  BY Zenon, <1>4, <1>5, <1>6, <1>7, <1>8

\* ... comes to one that is READY or asleep, and takes it off its list for the finalizer.
LEMMA KillFrees ==
    ASSUME IInv, NEW c \in CPUs, pc[c] = "kill", NEW u \in toKill, toKill' = toKill \ {u},
           \/ state[u] = "READY" /\ ready' = PopOff(ready, u) /\ sleeping' = sleeping
           \/ state[u] = "BLOCKED" /\ blocker[u].type = "SLEEP" /\ ready' = ready /\ sleeping' = sleeping \ {u},
           toFree' = Append(toFree, u),
           UNCHANGED <<state, blocker, killer, deferred, queuesLock, current, stack, pc, itr, pstate, threads,
                       creating, freeing>>
    PROVE  IInv'
<1> USE DEF IInv
<1>1. /\ u \in Threads /\ Owner[u] = Owner[current[c]] /\ Lives(u)
      /\ current[c] \in Threads /\ state[current[c]] = "DEAD"
  <2>1. current[c] \in Threads /\ state[current[c]] = "DEAD"
    BY Zenon DEF DeferredExact
  <2>2. u \in Threads /\ u \in threads[Owner[current[c]]] /\ ~Freed(u)
    BY Zenon DEF KillExact, Types
  <2>3. Owner[u] = Owner[current[c]]
    BY Zenon, <2>1, <2>2, OwnerAssumption DEF CreationExact
  <2>4. creating[u] = "done"
    BY Zenon, <2>2 DEF CreationExact
  <2> QED
    BY Zenon, <2>1, <2>2, <2>3, <2>4 DEF Lives
<1>2. \A d \in CPUs : current[d] # u
  BY Zenon, <1>1, Holder DEF UnderLock
<1>3. NoRepeat(toFree') /\ \A v : In(v, toFree') <=> (In(v, toFree) \/ v = u)
  BY <1>1, AppendIn DEF FinalizerExact, Types, Lives, Freed
<1>4. /\ \A v \in Threads : Freed(v)' <=> (Freed(v) \/ v = u)
      /\ \A v \in Threads : Lives(v)' <=> (Lives(v) /\ v # u)
  BY Zenon, <1>3 DEF Lives, Freed
<1>5. /\ ready' \in Seq(Threads) /\ NoRepeat(ready')
      /\ \A v \in Threads : In(v, ready') <=> (In(v, ready) /\ v # u)
  <2>1. CASE state[u] = "READY"
    <3>1. ready' = PopOff(ready, u) /\ In(u, ready) /\ NoRepeat(ready) /\ ready \in Seq(Threads)
      BY Zenon, <1>1, <2>1 DEF QueuesExact, Types
    <3> QED
      BY Zenon, <3>1, PopOffIn
  <2>2. CASE state[u] # "READY"
    BY <1>1, <2>2 DEF QueuesExact, Types
  <2> QED
    BY Zenon, <2>1, <2>2
<1>6. \A v \in Threads : v \in sleeping' <=> (v \in sleeping /\ v # u)
  BY Zenon, <1>1 DEF QueuesExact
<1>7. Types'
  <2>1. toFree' \in Seq(Threads)
    BY Zenon, <1>1, AppendElements DEF Types
  <2> QED
    BY Zenon, <1>5, <2>1 DEF Types
<1>8. LockExact'
  BY Zenon DEF LockExact
<1>9. FinalizerExact'
  BY Zenon, <1>1, <1>3 DEF FinalizerExact, Lives, Freed
<1>10. CPUsExact'
  BY Zenon, <1>2, <1>4 DEF CPUsExact
<1>11. DeferredExact'
  BY Zenon, <1>1, <1>4 DEF DeferredExact
<1>12. QueuesExact'
  BY Zenon, <1>1, <1>4, <1>5, <1>6 DEF QueuesExact, should_block
<1>13. CreationExact'
  BY Zenon, <1>1, <1>4 DEF CreationExact, Lives
<1>14. KillExact'
  <2>1. \A d \in CPUs : pc'[d] = "kill" =>
            /\ toKill' \subseteq threads'[Owner[current'[d]]]
            /\ \A v \in toKill' : state'[v] \in {"READY", "BLOCKED"} => ~Freed(v)'
    BY Zenon, <1>4 DEF KillExact, Types
  <2> QED
    BY Zenon, <1>1, <1>4, <2>1, KillFrame
<1> QED
  BY Zenon, <1>7, <1>8, <1>9, <1>10, <1>11, <1>12, <1>13, <1>14

\* One iteration of the loop: the two above, and the thread it wakes up to die.
LEMMA KillAllNext ==
    ASSUME IInv, NEW c \in CPUs, kill_all_next(c)
    PROVE  IInv'
<1> DEFINE Sleeps(u) == state[u] = "BLOCKED" /\ blocker[u].type = "SLEEP"
           Woken(u) == state[u] = "BLOCKED" /\ ~Sleeps(u) /\ is_interruptable(blocker[u])
           Gone(u) == Sleeps(u) \/ state[u] = "READY"
<1>1. PICK u \in toKill :
         /\ pc[c] = "kill" /\ toKill' = toKill \ {u}
         /\ deferred' = IF u = current[c] THEN Append(deferred, current[c]) ELSE deferred
         /\ sleeping' = IF Sleeps(u) THEN sleeping \ {u} ELSE sleeping
         /\ toFree' = IF Gone(u) THEN Append(toFree, u) ELSE toFree
         /\ ready' = IF Woken(u) THEN Append(ready, u) ELSE IF state[u] = "READY" THEN PopOff(ready, u) ELSE ready
         /\ state' = [state EXCEPT ![u] = IF Woken(u) THEN "READY" ELSE @]
         /\ blocker' = [blocker EXCEPT ![u] = IF Woken(u) THEN NoBlocker ELSE @]
         /\ UNCHANGED <<killer, queuesLock, current, stack, pc, itr, pstate, threads, creating, freeing>>
  BY Zenon DEF kill_all_next
<1>2. /\ u \in Threads /\ current[c] \in Threads /\ state[current[c]] = "DEAD"
      /\ state \in [Threads -> {"UNDEFINED", "RUNNING", "DEAD", "BLOCKED", "READY"}] /\ DOMAIN blocker = Threads
      /\ blocker \in [Threads -> Blockers \union {NoBlocker}]
  BY Zenon, <1>1 DEF IInv, DeferredExact, Types
<1>3. CASE Woken(u)
  <2>1. u # current[c] /\ ~Gone(u) /\ state[u] = "BLOCKED" /\ blocker[u].type # "SLEEP"
    BY Zenon, <1>2, <1>3
  <2>2. Lives(u) /\ u \notin sleeping
    BY Zenon, <1>2, <2>1 DEF IInv, QueuesExact
  <2>3. \A d \in CPUs : current[d] # u
    BY Zenon, <1>1, <1>2, <2>1, Holder DEF UnderLock
  <2>4. /\ state' = [state EXCEPT ![u] = "READY"] /\ blocker' = [blocker EXCEPT ![u] = NoBlocker]
        /\ ready' = Append(ready, u) /\ UNCHANGED <<deferred, toFree>> /\ sleeping' = sleeping \ {u} /\ toKill' \subseteq toKill
    BY Zenon, <1>1, <1>3, <2>1, <2>2
  <2> QED
    BY Zenon, <1>1, <1>2, <2>1, <2>2, <2>3, <2>4, WakeUp
<1>4. CASE ~Woken(u)
  <2>1. state' = state /\ blocker' = blocker
    BY Zenon, <1>1, <1>2, <1>4
  <2>2. CASE Gone(u)
    <3>1. u # current[c]
      BY Zenon, <1>2, <2>2
    <3>2. toFree' = Append(toFree, u) /\ deferred' = deferred
      BY Zenon, <1>1, <2>2, <3>1
    <3>3. \/ state[u] = "READY" /\ ready' = PopOff(ready, u) /\ sleeping' = sleeping
          \/ state[u] = "BLOCKED" /\ blocker[u].type = "SLEEP" /\ ready' = ready /\ sleeping' = sleeping \ {u}
      BY Zenon, <1>1, <1>4, <2>2
    <3> HIDE DEF Gone, Woken, Sleeps
    <3> QED
      BY Zenon, <1>1, <2>1, <3>2, <3>3, KillFrees
  <2>3. CASE ~Gone(u)
    <3>1. UNCHANGED <<toFree, sleeping, ready>>
      BY Zenon, <1>1, <1>4, <2>3
    <3>2. IF u = current[c] THEN deferred' = Append(deferred, current[c]) ELSE deferred' = deferred
      BY Zenon, <1>1
    <3> HIDE DEF Gone, Woken, Sleeps
    <3> QED
      BY Zenon, <1>1, <2>1, <3>1, <3>2, KillMarks
  <2> QED
    BY Zenon, <2>2, <2>3
<1> QED
  BY Zenon, <1>3, <1>4

\* pick_next() puts the thread that still runs at the end of the queue and takes the first one.
LEMMA PickNextThread ==
    ASSUME IInv, NEW c \in CPUs, pick_next_thread(c)
    PROVE  IInv'
<1> DEFINE t == current[c]
           runs == t \in Threads /\ state[t] = "RUNNING"
           queue == IF runs THEN Append(ready, t) ELSE ready
           next == IF queue = <<>> THEN Idle ELSE Head(queue)
<1>0. /\ pc[c] = "pick" /\ pc' = [pc EXCEPT ![c] = "switch"] /\ queuesLock' = NoCPU
      /\ ready' = IF queue = <<>> THEN queue ELSE Tail(queue)
      /\ current' = [current EXCEPT ![c] = next]
      /\ state' = [u \in Threads |-> IF u = next THEN "RUNNING" ELSE IF u = t /\ runs THEN "READY" ELSE state[u]]
      /\ UNCHANGED <<blocker, killer, sleeping, deferred, stack, itr, toKill, pstate, threads, creating, toFree, freeing>>
  BY Zenon DEF pick_next_thread, Requeued, Goto, procVars, finalizerVars
<1> USE DEF IInv
<1>1. /\ queue \in Seq(Threads) /\ NoRepeat(queue)
      /\ \A u \in Threads : In(u, queue) <=> (In(u, ready) \/ (runs /\ u = t))
  <2>1. ready \in Seq(Threads) /\ NoRepeat(ready)
    BY Zenon DEF Types, QueuesExact
  <2>2. CASE runs
    <3>1. ~In(t, ready)
      BY Zenon, <2>2 DEF QueuesExact
    <3> QED
      BY <2>1, <2>2, <3>1, AppendIn, AppendElements
  <2>3. CASE ~runs
    BY Zenon, <2>1, <2>3
  <2> QED
    BY Zenon, <2>2, <2>3
<1> HIDE DEF queue
<1>2. /\ ready' \in Seq(Threads) /\ NoRepeat(ready')
      /\ \A u \in Threads : In(u, ready') <=> ((In(u, ready) \/ (runs /\ u = t)) /\ u # next)
      /\ next = Idle \/ (next \in Threads /\ (In(next, ready) \/ (runs /\ next = t)))
  <2>1. CASE queue = <<>>
    <3>1. next = Idle /\ Idle \notin Threads /\ ready' = queue
      BY Zenon, <1>0, <2>1, NotAThreadAssumption
    <3> QED
      BY Zenon, <1>1, <3>1
  <2>2. CASE queue # <<>>
    <3>1. next = Head(queue) /\ ready' = Tail(queue)
      BY Zenon, <1>0, <2>2
    <3>2. next \in Threads /\ Tail(queue) \in Seq(Threads)
      BY Zenon, <1>1, <2>2, <3>1, TailElements
    <3>3. In(next, queue) /\ NoRepeat(Tail(queue)) /\ \A u : In(u, Tail(queue)) <=> (In(u, queue) /\ u # next)
      BY Zenon, <1>1, <2>2, <3>1, TailIn
    <3> QED
      BY Zenon, <1>1, <3>1, <3>2, <3>3
  <2> QED
    BY Zenon, <2>1, <2>2
<1> HIDE DEF next
<1>3. /\ \A u \in Threads : Freed(u)' <=> Freed(u)
      /\ \A u \in Threads : Lives(u)' <=> Lives(u)
  BY Zenon, <1>0 DEF Lives, Freed
<1>4. pc'[c] = "switch" /\ \A d \in CPUs : d # c => pc'[d] = pc[d]
  BY Zenon, <1>0 DEF Types
<1>5. current'[c] = next /\ \A d \in CPUs : d # c => current'[d] = current[d]
  BY Zenon, <1>0 DEF Types
<1>6. \A u \in Threads : state'[u] = IF u = next THEN "RUNNING" ELSE IF u = t /\ runs THEN "READY" ELSE state[u]
  BY Zenon, <1>0
<1>7. /\ next \in Threads => Lives(next) /\ state[next] \in {"READY", "RUNNING"}
      /\ runs => Lives(t)
      /\ \A d \in CPUs : d # c => pc[d] \notin UnderLock
      /\ \A d \in CPUs : d # c /\ current[d] \in Threads => state[current[d]] = "RUNNING" /\ current[d] # t /\ current[d] # next
  <2>1. /\ \A d \in CPUs : d # c => pc[d] \notin UnderLock
        /\ \A d \in CPUs : d # c /\ current[d] \in Threads => state[current[d]] = "RUNNING" /\ current[d] # t
    BY Zenon, <1>0, Holder DEF UnderLock, CPUsExact
  <2>2. runs => Lives(t)
    BY Zenon DEF QueuesExact
  <2>3. \A u \in Threads : In(u, ready) => Lives(u) /\ state[u] = "READY"
    BY Zenon DEF QueuesExact
  <2>4. next \in Threads => In(next, ready) \/ (runs /\ next = t)
    BY Zenon, <1>2, NotAThreadAssumption
  <2> HIDE DEF t
  <2> QED
    BY Zenon, <2>1, <2>2, <2>3, <2>4
<1>8. next \in Threads \union {Idle}
  BY Zenon, <1>2
<1>9. \A u \in Threads : state[u] = "DEAD" => state'[u] = "DEAD"
  BY Zenon, <1>6, <1>7
<1> HIDE DEF t
<1>10. Types'
  <2>1. state' \in [Threads -> {"UNDEFINED", "RUNNING", "DEAD", "BLOCKED", "READY"}]
    BY Zenon, <1>0 DEF Types
  <2>2. /\ current' \in [CPUs -> Threads \union {Idle}]
        /\ pc' \in [CPUs -> {"run", "lock", "deferred", "wake", "decide", "kill", "pick", "switch"}]
    BY Zenon, <1>0, <1>8 DEF Types
  <2> QED
    BY Zenon, <1>0, <1>2, <2>1, <2>2 DEF Types
<1>11. LockExact' /\ FinalizerExact'
  <2>1. LockExact'
    BY Zenon, <1>0, <1>4, <1>7, NotAThreadAssumption DEF LockExact, UnderLock
  <2> QED
    BY Zenon, <1>0, <2>1 DEF FinalizerExact
<1>12. CPUsExact'
  <2>1. \A d, e \in CPUs : current'[d] \in Threads /\ current'[d] = current'[e] => d = e
    BY <1>5, <1>7 DEF CPUsExact
  <2>2. \A d \in CPUs : current'[d] \in Threads => state'[current'[d]] = "RUNNING"
    BY <1>5, <1>6, <1>7
  <2>3. \A d \in CPUs : current'[d] \in Threads => Lives(current'[d])
    BY Zenon, <1>5, <1>7 DEF CPUsExact
  <2>4. \A d \in CPUs : current'[d] \in Threads => Lives(current[d])'
    BY Zenon, <1>0, <2>3 DEF Lives, Freed
  <2>5. \A d \in CPUs : pc'[d] # "switch" => stack'[d] = current'[d]
    BY <1>0, <1>4, <1>5 DEF CPUsExact
  <2> QED
    BY Zenon, <2>1, <2>2, <2>4, <2>5 DEF CPUsExact
<1>13. \A d \in CPUs : pc'[d] \notin UnderLock
  BY Zenon, <1>4, <1>7 DEF UnderLock
<1>14. DeferredExact'
  BY Zenon, <1>0, <1>3, <1>9, <1>13 DEF DeferredExact, UnderLock
<1>15. QueuesExact'
  <2>1. \A u \in Threads : state'[u] = "READY" <=> u # next /\ (state[u] = "READY" \/ (runs /\ u = t))
    BY <1>6
  <2>2. \A u \in Threads : state'[u] = "BLOCKED" <=> state[u] = "BLOCKED"
    BY Zenon, <1>6, <1>7
  <2>3. \A u \in Threads : In(u, ready') <=> state'[u] = "READY" /\ Lives(u)
    BY Zenon, <1>2, <1>7, <2>1 DEF QueuesExact
  <2>4. \A u \in Threads : state'[u] = "RUNNING" => Lives(u)
    BY Zenon, <1>6, <1>7 DEF QueuesExact
  <2> QED
    BY Zenon, <1>0, <1>2, <1>3, <2>2, <2>3, <2>4 DEF QueuesExact, should_block
<1>16. CreationExact'
  <2>1. \A u \in Threads : creating[u] # "done" => u # next /\ ~(u = t /\ runs)
    BY Zenon, <1>7 DEF Lives
  <2> QED
    BY Zenon, <1>0, <1>3, <1>6, <2>1 DEF CreationExact
<1>17. KillExact'
  <2>1. \A u \in Threads : Freed(u)' /\ state'[u] \in {"READY", "BLOCKED"} => Freed(u) /\ state[u] \in {"READY", "BLOCKED"}
    BY Zenon, <1>3, <1>6, <1>7 DEF Lives
  <2> QED
    BY Zenon, <1>0, <1>9, <1>13, <2>1, KillFrame DEF UnderLock
<1> QED
  BY Zenon, <1>10, <1>11, <1>12, <1>14, <1>15, <1>16, <1>17
------------------------------------------------------------------------------
(* The finalizer.                                                          *)

\* It takes over the threads that were handed to it, and destroys them one by one.
LEMMA Finalizes ==
    ASSUME IInv, swap_queues \/ do_free_thread
    PROVE  IInv'
<1> USE DEF IInv
<1>1. UNCHANGED <<state, blocker, killer, ready, sleeping, deferred, queuesLock, current, stack, pc, itr, toKill, pstate,
                  creating>>
  BY Zenon DEF swap_queues, do_free_thread, threadVars, listVars, cpuVars, procVars
<1>2. /\ toFree' \in Seq(Threads) /\ freeing' \in Seq(Threads) /\ FinalizerExact'
      /\ threads' \in [Procs -> SUBSET Threads]
      /\ \A u \in Threads : Freed(u)' => Freed(u)
      /\ \A u \in Threads : Lives(u)' <=> Lives(u)
      /\ \A p \in Procs : \A u \in threads[p] : u \in threads'[p] \/ (Freed(u) /\ ProcessLockFree(p))
      /\ \A p \in Procs : threads'[p] \subseteq threads[p]
  <2>1. CASE swap_queues
    <3>1. freeing = <<>> /\ freeing' = toFree /\ toFree' = <<>> /\ threads' = threads
      BY Zenon, <2>1 DEF swap_queues, procVars
    <3>2. \A u \in Threads : Freed(u)' <=> Freed(u)
      BY Zenon, <3>1, NothingIn DEF Freed
    <3>3. FinalizerExact'
      BY Zenon, <3>1, NothingIn, EmptyNoRepeat DEF FinalizerExact
    <3> QED
      BY Zenon, <1>1, <3>1, <3>2, <3>3 DEF Types, Lives
  <2>2. CASE do_free_thread
    <3> DEFINE t == Head(freeing)
    <3>1. /\ freeing # <<>> /\ ProcessLockFree(Owner[t]) /\ freeing' = Tail(freeing) /\ toFree' = toFree
          /\ threads' = [threads EXCEPT ![Owner[t]] = @ \ {t}]
      BY Zenon, <2>2 DEF do_free_thread
    <3>2. t \in Threads /\ Tail(freeing) \in Seq(Threads) /\ freeing \in Seq(Threads) /\ NoRepeat(freeing)
      BY Zenon, <3>1, TailElements DEF Types, FinalizerExact
    <3>3. In(t, freeing) /\ NoRepeat(Tail(freeing)) /\ \A u : In(u, Tail(freeing)) <=> (In(u, freeing) /\ u # t)
      BY Zenon, <3>1, <3>2, TailIn
    <3> HIDE DEF t
    <3>4. \A u \in Threads : /\ Freed(u)' <=> (Freed(u) /\ u # t)
                             /\ u = t => Freed(u)
      BY Zenon, <3>1, <3>2, <3>3 DEF Freed, FinalizerExact
    <3>5. FinalizerExact'
      BY Zenon, <3>1, <3>3 DEF FinalizerExact
    <3>6. /\ threads' \in [Procs -> SUBSET Threads]
          /\ \A p \in Procs : threads'[p] = IF p = Owner[t] THEN threads[p] \ {t} ELSE threads[p]
      BY Zenon, <3>1 DEF Types
    <3>7. \A u \in Threads : Lives(u)' <=> Lives(u)
      BY Zenon, <1>1, <3>2, <3>4, <3>6, OwnerAssumption DEF Lives
    <3>8. \A p \in Procs : \A u \in threads[p] : u \in threads'[p] \/ (Freed(u) /\ ProcessLockFree(p))
      BY Zenon, <3>1, <3>2, <3>4, <3>6
    <3> QED
      BY Zenon, <3>1, <3>2, <3>4, <3>5, <3>6, <3>7, <3>8 DEF Types
  <2> QED
    BY Zenon, <2>1, <2>2
<1>3. Types'
  BY Zenon, <1>1, <1>2 DEF Types
<1>4. LockExact'
  BY Zenon, <1>1 DEF LockExact
<1>5. CPUsExact'
  <2>1. \A d \in CPUs : current'[d] \in Threads => Lives(current'[d])
    BY Zenon, <1>1 DEF CPUsExact
  <2>2. \A d \in CPUs : current'[d] \in Threads => Lives(current[d])'
    <3> SUFFICES ASSUME NEW d \in CPUs, NEW u \in Threads, u = current'[d] PROVE Lives(current[d])'
      BY Zenon
    <3>1. Lives(u)'
      BY Zenon, <1>2, <2>1
    <3> QED
      BY Zenon, <1>1, <3>1 DEF Lives, Freed
  <2> QED
    BY Zenon, <1>1, <2>2 DEF CPUsExact
<1>6. DeferredExact'
  BY Zenon, <1>1, <1>2 DEF DeferredExact
<1>7. QueuesExact'
  BY Zenon, <1>1, <1>2 DEF QueuesExact, should_block
<1>8. CreationExact'
  <2>1. \A u \in Threads : creating[u] # "done" => ~Freed(u)
    BY Zenon DEF CreationExact
  <2>2. \A p \in Procs : Main[p] \in Threads
    BY Zenon, MainAssumption
  <2>3. \A p \in Procs : creating'[Main[p]] = "no" => Main[p] \in threads'[p]
    BY Zenon, <1>1, <1>2, <2>1, <2>2 DEF CreationExact
  <2>4. \A u \in Threads : creating'[u] = "emplaced" => u \in threads'[Owner[u]]
    BY Zenon, <1>1, <1>2, <2>1, OwnerAssumption DEF CreationExact
  <2> QED
    BY Zenon, <1>1, <1>2, <2>1, <2>3, <2>4 DEF CreationExact
<1>9. KillExact'
  <2>1. ASSUME NEW d \in CPUs, pc'[d] = "kill"
        PROVE  toKill' \subseteq threads'[Owner[current'[d]]]
    <3>1. current[d] \in Threads /\ Owner[current[d]] \in Procs /\ toKill \subseteq threads[Owner[current[d]]]
      BY Zenon, <1>1, <2>1, OwnerAssumption DEF DeferredExact, KillExact
    <3>2. ~ProcessLockFree(Owner[current[d]])
      BY Zenon, <1>1, <2>1 DEF ProcessLockFree
    <3> QED
      BY Zenon, <1>1, <1>2, <3>1, <3>2
  <2>2. \A d \in CPUs : pc'[d] = "kill" => \A u \in toKill' : state'[u] \in {"READY", "BLOCKED"} => ~Freed(u)'
    BY Zenon, <1>1, <1>2 DEF KillExact, Types
  <2> QED
    BY Zenon, <1>1, <1>2, <2>1, <2>2, KillFrame
<1> QED
  BY Zenon, <1>2, <1>3, <1>4, <1>5, <1>6, <1>7, <1>8, <1>9
------------------------------------------------------------------------------
(* The invariant.                                                          *)

\* Every part of pick_next() keeps the invariant ...
LEMMA PickNextIInv ==
    ASSUME IInv, NEW c \in CPUs, PickNext(c)
    PROVE  IInv'
<1>1. CASE pick_next_lock(c) \/ pick_next_keep(c) \/ kill_all_end(c)
  BY Zenon, <1>1, PickNextGoesOn
<1>2. CASE free_deferred_threads(c)
  BY Zenon, <1>2, PickNextGoesOn, FreeDeferred
<1>3. CASE wake_ready_threads(c)
  BY Zenon, <1>3, PickNextGoesOn, WakeSleeper
<1>4. CASE pick_next_block(c)
  BY Zenon, <1>4, PickNextBlock
<1>5. CASE kill_current_thread(c) \/ kill_all_begin(c)
  BY Zenon, <1>5, KillCurrent
<1>6. CASE kill_all_next(c)
  BY Zenon, <1>6, KillAllNext
<1>7. CASE pick_next_thread(c)
  BY Zenon, <1>7, PickNextThread
<1>8. CASE switch_task(c)
  BY Zenon, <1>8, QuietSteps
<1> QED
  BY Zenon, <1>1, <1>2, <1>3, <1>4, <1>5, <1>6, <1>7, <1>8 DEF PickNext

\* ... and so does every step of the scheduler, its callers and the finalizer.
LEMMA NextIInv == IInv /\ [Next]_vars => IInv'
<1> SUFFICES ASSUME IInv, [Next]_vars PROVE IInv'
  BY Zenon
<1>1. CASE Create
  BY Zenon, <1>1, CreateThread, Registers DEF Create
<1>2. ASSUME NEW c \in CPUs, PickNext(c) \/ yield(c) PROVE IInv'
  BY Zenon, <1>2, PickNextIInv, QuietSteps
<1>3. ASSUME NEW c \in CPUs, NEW t \in Threads, Runs(c, t) PROVE IInv'
  <2>1. CASE set_invulnerable(c, t) \/ exit_thread(c, t)
    BY Zenon, <2>1, QuietSteps
  <2>2. CASE wait(c, t) \/ \E w \in 1 .. MaxTime : sleep(c, t, w)
    BY Zenon, <2>2, SleepsAndWaits
  <2>3. CASE exit_process(c, t)
    BY Zenon, <2>3, ExitProcess
  <2> QED
    BY Zenon, <1>3, <2>1, <2>2, <2>3 DEF Runs
<1>4. CASE \E t \in Threads : unblock(t)
  BY Zenon, <1>4, Unblock
<1>5. CASE Finalizer
  BY Zenon, <1>5, Finalizes, QuietSteps DEF Finalizer
<1>6. CASE TimePasses \/ Halted \/ UNCHANGED vars
  BY Zenon, <1>6, QuietSteps
<1> QED
  BY Zenon, <1>1, <1>2, <1>3, <1>4, <1>5, <1>6 DEF Next

\* It holds always.
LEMMA AlwaysIInv == Spec => []IInv
  BY InitIInv, NextIInv, PTL DEF Spec
------------------------------------------------------------------------------
(* The life of a process.                                                    *)

\* m_alive_thread_count is to count it.
Counted(t) == Lives(t) /\ ~In(t, deferred)
Alive(p) == {t \in Threads : Owner[t] = p /\ Counted(t)}

\* What there is to know of the sizes of sets of threads: there are finitely many.
CountFacts ==
    /\ Cardinality({}) = 0
    /\ \A S \in SUBSET Threads : \A t \in Threads :
          /\ t \notin S => Cardinality(S \union {t}) = Cardinality(S) + 1
          /\ t \in S => Cardinality(S \ {t}) = Cardinality(S) - 1

CountExact == /\ alive \in [Procs -> Int]
              /\ \A p \in Procs : alive[p] = Cardinality(Alive(p))

\* A thread is with its process from the emplace on; the first one is there from the start.
NewThreadsExact ==
    \A t \in Threads :
        /\ t = Main[Owner[t]] => creating[t] \in {"no", "done"}
        /\ t # Main[Owner[t]] /\ creating[t] \in {"no", "checked"} => t \notin threads[Owner[t]]

\* The last thread to go ends its process.
LastThreadExits ==
    \A p \in Procs : pstate[p] = "ALIVE" /\ creating[Main[p]] = "done" => Alive(p) # {}

\* When a process is unregistered all its threads are gone, and none comes any more; it is unregistered once.
GoneExact ==
    /\ unregistering \in Procs \union {NoProc} /\ procsToFree \subseteq Procs
    /\ \A p \in Procs :
          /\ unregistering = p \/ p \in procsToFree =>
                pstate[p] # "ALIVE" /\ \A t \in Threads : Owner[t] = p => ~Lives(t)
          /\ p \in procsToFree => pstate[p] # "EXITED" /\ p \notin processes
          /\ p \in processes => pstate[p] # "EXITED"

\* What the life of a process adds to IInv.
LInv == CountExact /\ NewThreadsExact /\ LastThreadExits /\ GoneExact

\* No process has a thread that is counted before it is registered.
LEMMA InitLInv == CountFacts /\ Init => LInv
<1> SUFFICES ASSUME CountFacts, Init PROVE LInv
  BY Zenon
<1>1. \A t \in Threads : creating[t] = "no" /\ ~Lives(t)
  BY Zenon DEF Init, Lives
<1>2. \A p \in Procs : Alive(p) = {}
  BY Zenon, <1>1 DEF Alive, Counted
<1>3. CountExact
  <2>1. alive = [p \in Procs |-> 0]
    BY Zenon DEF Init
  <2> QED
    BY <2>1, <1>2 DEF CountExact, CountFacts
<1>4. NewThreadsExact
  <2>1. threads = [p \in Procs |-> {Main[p]}]
    BY Zenon DEF Init
  <2> QED
    BY Zenon, <1>1, <2>1, OwnerAssumption DEF NewThreadsExact
<1>5. LastThreadExits
  BY Zenon, <1>1, MainAssumption DEF LastThreadExits
<1>6. GoneExact
  <2>1. /\ unregistering = NoProc /\ procsToFree = {} /\ processes = {}
    BY Zenon DEF Init
  <2> QED
    BY Zenon, <2>1, NotAThreadAssumption DEF GoneExact
<1> QED
  BY Zenon, <1>3, <1>4, <1>5, <1>6 DEF LInv

\* Processes go from ALIVE to EXITING.
Calm == /\ UNCHANGED <<processes, unregistering, procsToFree>>
        /\ \A p \in Procs : pstate'[p] = pstate[p] \/ (pstate[p] = "ALIVE" /\ pstate'[p] = "EXITING")

\* No thread starts to live in a step that leaves the books of the finalizer alone.
LEMMA StillGone ==
    ASSUME LInv, Calm, \A t \in Threads : Lives(t)' => Lives(t)
    PROVE  GoneExact'
  BY Zenon DEF LInv, GoneExact, Calm

\* A step that leaves what is counted and the threads of the processes alone.
LEMMA SameCount ==
    ASSUME LInv, UNCHANGED <<alive>>, Calm,
           creating' = creating, threads' = threads,
           \A t \in Threads : (Lives(t)' => Lives(t)) /\ (Counted(t)' <=> Counted(t))
    PROVE  LInv'
<1> USE DEF LInv
<1>1. \A p \in Procs : Alive(p)' = Alive(p)
  BY Zenon DEF Alive
<1>2. CountExact'
  BY Zenon, <1>1 DEF CountExact
<1>3. NewThreadsExact'
  BY Zenon DEF NewThreadsExact
<1>4. LastThreadExits'
  BY Zenon, <1>1 DEF LastThreadExits, Calm
<1> QED
  BY Zenon, <1>2, <1>3, <1>4, StillGone

\* increment_alive_thread_count() of a thread that comes to be counted.
LEMMA CountsUp ==
    ASSUME CountFacts, LInv, NEW t \in Threads, ~Counted(t), Counted(t)',
           \A u \in Threads : u # t => (Counted(u)' <=> Counted(u)),
           alive' = [alive EXCEPT ![Owner[t]] = @ + 1]
    PROVE  CountExact' /\ Alive(Owner[t])' # {} /\ \A p \in Procs : p # Owner[t] => Alive(p)' = Alive(p)
<1> USE DEF LInv
<1>1. Alive(Owner[t])' = Alive(Owner[t]) \union {t} /\ t \notin Alive(Owner[t])
  BY Zenon DEF Alive
<1>2. \A p \in Procs : p # Owner[t] => Alive(p)' = Alive(p)
  BY Zenon DEF Alive
<1>3. Alive(Owner[t]) \in SUBSET Threads
  BY Zenon DEF Alive
<1>4. Cardinality(Alive(Owner[t]) \union {t}) = Cardinality(Alive(Owner[t])) + 1
  BY Zenon, <1>1, <1>3 DEF CountFacts
<1>5. /\ Owner[t] \in Procs /\ alive'[Owner[t]] = alive[Owner[t]] + 1 /\ alive' \in [Procs -> Int]
      /\ \A p \in Procs : p # Owner[t] => alive'[p] = alive[p]
  BY OwnerAssumption DEF CountExact
<1>6. CountExact'
  BY Zenon, <1>1, <1>2, <1>4, <1>5 DEF CountExact
<1> QED
  BY Zenon, <1>1, <1>2, <1>6

\* decrement_alive_thread_count() of a thread that is not to be counted any more.
LEMMA CountsDown ==
    ASSUME CountFacts, LInv, NEW t \in Threads, Counted(t), ~Counted(t)',
           \A u \in Threads : u # t => (Counted(u)' <=> Counted(u)),
           alive' = [alive EXCEPT ![Owner[t]] = @ - 1]
    PROVE  /\ CountExact'
           /\ Alive(Owner[t])' = {} => alive[Owner[t]] = 1
           /\ \A p \in Procs : p # Owner[t] => Alive(p)' = Alive(p)
<1> USE DEF LInv
<1>1. Alive(Owner[t])' = Alive(Owner[t]) \ {t} /\ t \in Alive(Owner[t])
  BY Zenon DEF Alive
<1>2. \A p \in Procs : p # Owner[t] => Alive(p)' = Alive(p)
  BY Zenon DEF Alive
<1>3. Alive(Owner[t]) \in SUBSET Threads
  BY Zenon DEF Alive
<1>4. Cardinality(Alive(Owner[t]) \ {t}) = Cardinality(Alive(Owner[t])) - 1
  BY Zenon, <1>1, <1>3 DEF CountFacts
<1>5. /\ Owner[t] \in Procs /\ alive'[Owner[t]] = alive[Owner[t]] - 1 /\ alive' \in [Procs -> Int]
      /\ alive[Owner[t]] \in Int
      /\ \A p \in Procs : p # Owner[t] => alive'[p] = alive[p]
  BY OwnerAssumption DEF CountExact
<1>6. CountExact'
  BY Zenon, <1>1, <1>2, <1>4, <1>5 DEF CountExact
<1>7. Alive(Owner[t])' = {} => alive'[Owner[t]] = 0
  BY Zenon, <1>5, <1>6 DEF CountExact, CountFacts
<1> QED
  BY <1>2, <1>5, <1>6, <1>7

\* A deferred thread is DEAD and not freed yet.
LEMMA DeferredDead ==
    ASSUME IInv, NEW t \in Threads, In(t, deferred)
    PROVE  state[t] = "DEAD" /\ Lives(t)
<1>1. PICK u \in Threads : deferred = <<u>> /\ state[u] = "DEAD" /\ Lives(u)
  BY Zenon, NothingIn DEF IInv, DeferredExact
<1>2. t = u
  BY Zenon, <1>1, PopOnly
<1> QED
  BY Zenon, <1>1, <1>2

\* Steps that touch neither the threads of a process nor the lists of the dead.
LEMMA LeaveLifeAlone ==
    ASSUME LInv, Calm, UNCHANGED <<alive, creating, threads, deferred, toFree, freeing>>
    PROVE  LInv'
<1>1. \A t \in Threads : (Lives(t)' <=> Lives(t)) /\ (Counted(t)' <=> Counted(t))
  BY Zenon DEF Lives, Freed, Counted
<1> QED
  BY Zenon, <1>1, SameCount

\* Most of what a thread does, its wakeups, and most of pick_next().
LEMMA QuietLife ==
    ASSUME IInv, LInv,
           \/ \E c \in CPUs :
                 \/ pick_next_lock(c) \/ wake_ready_threads(c) \/ pick_next_keep(c) \/ pick_next_block(c)
                 \/ kill_all_begin(c) \/ kill_all_end(c) \/ pick_next_thread(c) \/ switch_task(c) \/ yield(c)
                 \/ \E t \in Threads : set_invulnerable(c, t) \/ exit_thread(c, t) \/ wait(c, t)
                                       \/ (\E w \in 1 .. MaxTime : sleep(c, t, w))
           \/ \E t \in Threads : unblock(t)
           \/ TimePasses \/ Halted \/ UNCHANGED vars
    PROVE  LInv'
<1> USE DEF procVars, finalizerVars, listVars
<1>1. ASSUME UNCHANGED <<procVars, finalizerVars, deferred>> PROVE LInv'
  BY Zenon, <1>1, LeaveLifeAlone DEF Calm
<1>2. ASSUME NEW c \in CPUs,
             \/ pick_next_lock(c) \/ wake_ready_threads(c) \/ pick_next_keep(c) \/ pick_next_block(c)
             \/ kill_all_begin(c) \/ kill_all_end(c) \/ pick_next_thread(c) \/ switch_task(c) \/ yield(c)
      PROVE  UNCHANGED <<procVars, finalizerVars, deferred>>
  BY Zenon, <1>2 DEF pick_next_lock, LockThen, wake_ready_threads, pick_next_keep, pick_next_block, kill_all_begin,
                     kill_all_end, pick_next_thread, switch_task, yield
<1>3. ASSUME NEW c \in CPUs, NEW t \in Threads,
             \/ set_invulnerable(c, t) \/ exit_thread(c, t) \/ wait(c, t) \/ (\E w \in 1 .. MaxTime : sleep(c, t, w))
      PROVE  UNCHANGED <<procVars, finalizerVars, deferred>>
  BY Zenon, <1>3 DEF set_invulnerable, exit_thread, wait, sleep, block
<1>4. ASSUME (\E t \in Threads : unblock(t)) \/ TimePasses \/ Halted \/ UNCHANGED vars
      PROVE  UNCHANGED <<procVars, finalizerVars, deferred>>
  BY Zenon, <1>4 DEF unblock, TimePasses, Halted, vars
<1> QED
  BY Zenon, <1>1, <1>2, <1>3, <1>4

\* exit_process().
LEMMA ExitLife ==
    ASSUME IInv, LInv, NEW c \in CPUs, NEW t \in Threads, exit_process(c, t)
    PROVE  LInv'
<1>1. /\ UNCHANGED <<processes, unregistering, procsToFree, alive, creating, threads, deferred, toFree, freeing>>
      /\ pstate' = [pstate EXCEPT ![Owner[t]] = IF @ = "ALIVE" THEN "EXITING" ELSE @]
  BY Zenon DEF exit_process, listVars, finalizerVars
<1>2. Calm
  BY Zenon, <1>1 DEF Calm, IInv, Types
<1> QED
  BY Zenon, <1>1, <1>2, LeaveLifeAlone

\* free_deferred_threads() and the swap of the finalizer's queues move the dead.
LEMMA MoveTheDead ==
    ASSUME IInv, LInv, swap_queues \/ \E c \in CPUs : free_deferred_threads(c)
    PROVE  LInv'
<1> USE DEF IInv
<1>1. CASE swap_queues
  <2>1. /\ UNCHANGED <<processes, pstate, unregistering, procsToFree, alive, creating, threads, deferred>>
        /\ freeing = <<>> /\ freeing' = toFree /\ toFree' = <<>>
    BY Zenon, <1>1 DEF swap_queues, listVars, procVars
  <2>2. \A t \in Threads : Freed(t)' <=> Freed(t)
    BY Zenon, <2>1, NothingIn DEF Freed
  <2>3. \A t \in Threads : (Lives(t)' <=> Lives(t)) /\ (Counted(t)' <=> Counted(t))
    BY Zenon, <2>1, <2>2 DEF Lives, Counted
  <2> QED
    BY Zenon, <2>1, <2>3, SameCount DEF Calm
<1>2. ASSUME NEW c \in CPUs, free_deferred_threads(c) PROVE LInv'
  <2>1. UNCHANGED <<processes, pstate, unregistering, procsToFree, alive, creating, threads, freeing>>
    BY Zenon, <1>2 DEF free_deferred_threads, procVars
  <2>2. CASE UNCHANGED <<deferred, toFree>>
    BY Zenon, <2>1, <2>2, LeaveLifeAlone DEF Calm
  <2>3. CASE ~UNCHANGED <<deferred, toFree>>
    <3>1. /\ itr # Len(deferred) + 1 /\ deferred' = PopOff(deferred, deferred[itr])
          /\ toFree' = Append(toFree, deferred[itr])
      BY Zenon, <1>2, <2>3 DEF free_deferred_threads
    <3>2. itr = 1 /\ Len(<<>>) + 1 = 1
      BY DEF DeferredExact
    <3>3. PICK u \in Threads : deferred = <<u>>
      BY Zenon, <3>1, <3>2 DEF DeferredExact
    <3>4. deferred' = <<>> /\ toFree' = Append(toFree, u) /\ \A y : In(y, deferred) <=> y = u
      BY Zenon, <3>1, <3>2, <3>3, PopOnly
    <3>5. \A y : In(y, toFree') <=> (In(y, toFree) \/ y = u)
      <4>1. toFree \in Seq(Threads)
        BY Zenon DEF Types
      <4> QED
        BY Zenon, <3>4, <4>1, AppendIn
    <3>6. \A t \in Threads : Freed(t)' <=> (Freed(t) \/ t = u)
      BY Zenon, <2>1, <3>5 DEF Freed
    <3>7. \A t \in Threads : (Lives(t)' => Lives(t)) /\ (Counted(t)' <=> Counted(t))
      BY Zenon, <2>1, <3>4, <3>6, NothingIn DEF Lives, Counted
    <3> QED
      BY Zenon, <2>1, <3>7, SameCount DEF Calm
  <2> QED
    BY Zenon, <2>2, <2>3
<1> QED
  BY Zenon, <1>1, <1>2

\* create_thread() up to register_thread(): the thread is not counted yet, and if the process exits before the check it
\* is not even with it.
LEMMA CreateLife ==
    ASSUME IInv, LInv, NEW t \in Threads, create_thread_check(t) \/ create_thread_emplace(t)
    PROVE  LInv'
<1> USE DEF IInv, LInv
<1>0. Owner[t] \in Procs /\ Main[Owner[t]] \in Threads
  BY Zenon, OwnerAssumption, MainAssumption
<1>1. /\ creating[t] # "done" /\ t # Main[Owner[t]] /\ creating[t] \in {"no", "checked"}
      /\ UNCHANGED <<processes, pstate, unregistering, procsToFree, alive, deferred, toFree, freeing>>
  BY Zenon DEF create_thread_check, create_thread_emplace, finalizerVars, listVars, NewThreadsExact
<1>2. /\ \A u \in Threads : u # t => creating'[u] = creating[u]
      /\ \A u \in Threads : u # t => (u \in threads'[Owner[u]] <=> u \in threads[Owner[u]])
      /\ \/ creating'[t] = "emplaced"
         \/ creating'[t] \in {"checked", "done"} /\ t \notin threads'[Owner[t]]
  <2>1. CASE create_thread_check(t)
    BY Zenon, <1>1, <2>1 DEF create_thread_check, Types, NewThreadsExact
  <2>2. CASE create_thread_emplace(t)
    <3>1. threads' = [threads EXCEPT ![Owner[t]] = @ \union {t}] /\ creating' = [creating EXCEPT ![t] = "emplaced"]
      BY Zenon, <2>2 DEF create_thread_emplace
    <3> QED
      BY Zenon, <1>0, <3>1, OwnerAssumption DEF Types
  <2> QED
    BY Zenon, <2>1, <2>2
<1>3. \A u \in Threads : (Lives(u)' <=> Lives(u)) /\ (Counted(u)' <=> Counted(u))
  BY Zenon, <1>1, <1>2 DEF Lives, Freed, Counted
<1>4. \A p \in Procs : Alive(p)' = Alive(p)
  BY Zenon, <1>3 DEF Alive
<1>5. CountExact'
  BY Zenon, <1>1, <1>4 DEF CountExact
<1>6. NewThreadsExact'
  BY Zenon, <1>1, <1>2 DEF NewThreadsExact
<1>7. \A p \in Procs : creating'[Main[p]] = creating[Main[p]]
  <2>1. \A p \in Procs : Main[p] \in Threads /\ Main[p] # t
    BY Zenon, <1>1, MainAssumption
  <2> QED
    BY Zenon, <1>2, <2>1
<1>8. LastThreadExits'
  BY Zenon, <1>1, <1>4, <1>7 DEF LastThreadExits
<1>9. GoneExact'
  BY Zenon, <1>1, <1>3, StillGone DEF Calm
<1> QED
  BY Zenon, <1>5, <1>6, <1>8, <1>9

\* A thread whose registration is under way is nowhere yet.
LEMMA RegisterLife ==
    ASSUME CountFacts, IInv, LInv, NEW t \in Threads, creating[t] # "done", t \in threads[Owner[t]],
           pstate[Owner[t]] = "ALIVE", creating' = [creating EXCEPT ![t] = "done"],
           alive' = [alive EXCEPT ![Owner[t]] = @ + 1],
           UNCHANGED <<pstate, threads, deferred, toFree, freeing, unregistering, procsToFree>>,
           processes' = processes \/ processes' = processes \union {Owner[t]}
    PROVE  LInv'
<1> USE DEF IInv, LInv
<1>1. ~Freed(t) /\ ~Lives(t) /\ ~In(t, deferred) /\ Owner[t] \in Procs
  BY Zenon, DeferredDead, OwnerAssumption DEF CreationExact, Lives
<1>2. creating'[t] = "done" /\ \A u \in Threads : u # t => creating'[u] = creating[u]
  BY Zenon DEF Types
<1>3. /\ Lives(t)' /\ Counted(t)' /\ ~Counted(t)
      /\ \A u \in Threads : u # t => (Lives(u)' <=> Lives(u)) /\ (Counted(u)' <=> Counted(u))
  BY Zenon, <1>1, <1>2 DEF Lives, Freed, Counted
<1>4. CountExact' /\ Alive(Owner[t])' # {} /\ \A p \in Procs : p # Owner[t] => Alive(p)' = Alive(p)
  BY Zenon, <1>3, CountsUp
<1>5. NewThreadsExact'
  BY Zenon, <1>2 DEF NewThreadsExact
<1>6. LastThreadExits'
  <2>1. \A p \in Procs : p # Owner[t] => creating'[Main[p]] = creating[Main[p]]
    BY Zenon, <1>2, MainAssumption
  <2> QED
    BY Zenon, <1>4, <2>1 DEF LastThreadExits
<1>7. GoneExact'
  <2>1. unregistering # Owner[t] /\ Owner[t] \notin procsToFree
    BY Zenon, <1>1 DEF GoneExact
  <2>2. \A p \in Procs : unregistering' = p \/ p \in procsToFree' =>
           pstate'[p] # "ALIVE" /\ \A u \in Threads : Owner[u] = p => ~Lives(u)'
    BY Zenon, <1>3, <2>1 DEF GoneExact
  <2>3. \A p \in Procs : /\ p \in procsToFree' => pstate'[p] # "EXITED" /\ p \notin processes'
                         /\ p \in processes' => pstate'[p] # "EXITED"
    BY Zenon, <2>1 DEF GoneExact
  <2> QED
    BY Zenon, <2>2, <2>3 DEF GoneExact
<1> QED
  BY Zenon, <1>4, <1>5, <1>6, <1>7

\* register_process() and register_thread().
LEMMA RegistersLife ==
    ASSUME CountFacts, IInv, LInv, (\E p \in Procs : register_process(p)) \/ (\E t \in Threads : register_thread(t))
    PROVE  LInv'
<1> USE DEF IInv
<1>1. ASSUME NEW p \in Procs, register_process(p) PROVE LInv'
  <2>1. Main[p] \in Threads /\ Owner[Main[p]] = p
    BY Zenon, MainAssumption
  <2>2. /\ pstate[p] = "ALIVE" /\ creating[Main[p]] = "no" /\ creating' = [creating EXCEPT ![Main[p]] = "done"]
        /\ alive' = [alive EXCEPT ![p] = @ + 1] /\ processes' = processes \union {p}
        /\ UNCHANGED <<pstate, threads, deferred, toFree, freeing, unregistering, procsToFree>>
    BY Zenon, <1>1 DEF register_process, increment_alive_thread_count, finalizerVars
  <2>3. Main[p] \in threads[p]
    BY Zenon, <2>2 DEF CreationExact
  <2> QED
    BY Zenon, <2>1, <2>2, <2>3, RegisterLife
<1>2. ASSUME NEW t \in Threads, register_thread(t), pstate[Owner[t]] = "ALIVE" PROVE LInv'
  <2>1. /\ creating[t] = "emplaced" /\ creating' = [creating EXCEPT ![t] = "done"]
        /\ alive' = [alive EXCEPT ![Owner[t]] = @ + 1] /\ processes' = processes
        /\ UNCHANGED <<pstate, threads, deferred, toFree, freeing, unregistering, procsToFree>>
    BY Zenon, <1>2 DEF register_thread, increment_alive_thread_count
  <2>2. t \in threads[Owner[t]]
    BY Zenon, <2>1 DEF CreationExact
  <2> QED
    BY Zenon, <1>2, <2>1, <2>2, RegisterLife
<1>3. ASSUME NEW t \in Threads, register_thread(t), pstate[Owner[t]] # "ALIVE" PROVE LInv'
  <2> USE DEF LInv
  <2>1. /\ creating[t] = "emplaced" /\ creating' = [creating EXCEPT ![t] = "done"] /\ toFree' = Append(toFree, t)
        /\ UNCHANGED <<alive, processes, pstate, threads, deferred, freeing, unregistering, procsToFree>>
    BY Zenon, <1>3 DEF register_thread
  <2>2. creating'[t] = "done" /\ \A u \in Threads : u # t => creating'[u] = creating[u]
    BY Zenon, <2>1 DEF Types
  <2>3. \A u \in Threads : Freed(u)' <=> (Freed(u) \/ u = t)
    <3>1. toFree \in Seq(Threads)
      BY Zenon DEF Types
    <3>2. \A u : In(u, toFree') <=> (In(u, toFree) \/ u = t)
      BY Zenon, <2>1, <3>1, AppendIn
    <3> QED
      BY Zenon, <2>1, <3>2 DEF Freed
  <2>4. \A u \in Threads : (Lives(u)' <=> Lives(u)) /\ (Counted(u)' <=> Counted(u))
    BY Zenon, <2>1, <2>2, <2>3 DEF Lives, Counted
  <2>5. \A p \in Procs : Alive(p)' = Alive(p)
    BY Zenon, <2>4 DEF Alive
  <2>6. CountExact'
    BY Zenon, <2>1, <2>5 DEF CountExact
  <2>7. NewThreadsExact'
    BY Zenon, <2>1, <2>2 DEF NewThreadsExact
  <2>8. LastThreadExits'
    <3>1. \A p \in Procs : p # Owner[t] => creating'[Main[p]] = creating[Main[p]]
      BY Zenon, <2>2, MainAssumption
    <3> QED
      BY Zenon, <1>3, <2>1, <2>5, <3>1 DEF LastThreadExits
  <2>9. GoneExact'
    BY Zenon, <2>1, <2>4, StillGone DEF Calm
  <2> QED
    BY Zenon, <2>6, <2>7, <2>8, <2>9
<1> QED
  BY Zenon, <1>1, <1>2, <1>3

\* A thread is counted off, and if it was the last one of a process that was ALIVE the process is not any more.
LEMMA CountedOff ==
    ASSUME CountFacts, LInv, NEW t \in Threads, Counted(t), ~Counted(t)',
           \A u \in Threads : (Lives(u)' => Lives(u)) /\ (u # t => (Counted(u)' <=> Counted(u))),
           alive' = [alive EXCEPT ![Owner[t]] = @ - 1], Calm, UNCHANGED <<creating, threads>>,
           pstate'[Owner[t]] = "ALIVE" => alive[Owner[t]] # 1
    PROVE  LInv'
<1> USE DEF LInv
<1>1. /\ CountExact'
      /\ Alive(Owner[t])' = {} => alive[Owner[t]] = 1
      /\ \A p \in Procs : p # Owner[t] => Alive(p)' = Alive(p)
  BY Zenon, CountsDown
<1>2. NewThreadsExact'
  BY Zenon DEF NewThreadsExact
<1>3. LastThreadExits'
  BY Zenon, <1>1 DEF LastThreadExits, Calm
<1> QED
  BY Zenon, <1>1, <1>2, <1>3, StillGone

\* kill_current_thread().
LEMMA KillCurrentLife ==
    ASSUME CountFacts, IInv, LInv, NEW c \in CPUs, kill_current_thread(c)
    PROVE  LInv'
<1> USE DEF IInv
<1>0. PICK t \in Threads : t = current[c]
  BY Zenon DEF kill_current_thread, MustDie
<1>1. /\ pc[c] = "decide" /\ alive' = [alive EXCEPT ![Owner[t]] = @ - 1] /\ deferred' = Append(deferred, t)
      /\ pstate' = [pstate EXCEPT ![Owner[t]] = IF @ = "ALIVE" /\ alive[Owner[t]] = 1 THEN "EXITING" ELSE @]
      /\ UNCHANGED <<processes, threads, creating, toFree, freeing, unregistering, procsToFree>>
  BY Zenon, <1>0 DEF kill_current_thread, finalizerVars
<1>2. deferred = <<>> /\ Lives(t)
  BY Zenon, <1>0, <1>1 DEF DeferredExact, CPUsExact
<1>3. deferred' = <<t>>
  <2>1. Append(<<>>, t) = <<t>>
    OBVIOUS
  <2> QED
    BY Zenon, <1>1, <1>2, <2>1
<1>4. \A u : ~In(u, deferred) /\ (In(u, deferred') <=> u = t)
  BY Zenon, <1>2, <1>3, NothingIn, PopOnly
<1>5. \A u \in Threads : Lives(u)' <=> Lives(u)
  BY Zenon, <1>1 DEF Lives, Freed
<1>6. Counted(t) /\ ~Counted(t)' /\ \A u \in Threads : u # t => (Counted(u)' <=> Counted(u))
  BY Zenon, <1>1, <1>2, <1>4, <1>5 DEF Counted
<1>7. Calm /\ (pstate'[Owner[t]] = "ALIVE" => alive[Owner[t]] # 1)
  BY Zenon, <1>1, OwnerAssumption DEF Calm, Types
<1> QED
  BY Zenon, <1>1, <1>5, <1>6, <1>7, CountedOff

\* The loop over the threads of a process counts off the killer and whoever it frees.
LEMMA KillAllLife ==
    ASSUME CountFacts, IInv, LInv, NEW c \in CPUs, kill_all_next(c)
    PROVE  LInv'
<1> USE DEF IInv
<1>0. PICK t \in Threads : t = current[c]
  BY Zenon DEF kill_all_next, DeferredExact
<1> DEFINE Sleeps(u) == state[u] = "BLOCKED" /\ blocker[u].type = "SLEEP"
           Gone(u) == Sleeps(u) \/ state[u] = "READY"
<1>1. PICK u \in toKill :
        /\ pc[c] = "kill"
        /\ alive' = [alive EXCEPT ![Owner[t]] = IF u = t \/ Gone(u) THEN @ - 1 ELSE @]
        /\ deferred' = IF u = t THEN Append(deferred, t) ELSE deferred
        /\ toFree' = IF Gone(u) THEN Append(toFree, u) ELSE toFree
        /\ UNCHANGED <<processes, pstate, threads, creating, freeing, unregistering, procsToFree>>
  BY Zenon, <1>0 DEF kill_all_next
<1>2. /\ u \in Threads /\ u \in threads[Owner[t]] /\ Owner[t] \in Procs
      /\ killer[t] /\ state[t] = "DEAD" /\ Lives(t) /\ (u = t => deferred = <<>>)
  <2>1. killer[t] /\ state[t] = "DEAD" /\ (u = t => deferred = <<>>)
    BY Zenon, <1>0, <1>1 DEF DeferredExact
  <2>2. toKill \subseteq threads[Owner[t]] /\ toKill \subseteq Threads
    BY Zenon, <1>0, <1>1 DEF KillExact, Types
  <2>3. Lives(t)
    BY Zenon, <1>0 DEF CPUsExact
  <2> QED
    BY Zenon, <1>1, <2>1, <2>2, <2>3, OwnerAssumption
<1>3. Owner[u] = Owner[t] /\ pstate[Owner[t]] # "ALIVE"
  <2>1. Owner[u] = Owner[t]
    BY Zenon, <1>2 DEF CreationExact
  <2>2. pstate[Owner[t]] # "ALIVE"
    BY Zenon, <1>2 DEF KillExact
  <2> QED
    BY Zenon, <2>1, <2>2
<1>4. Calm
  BY Zenon, <1>1 DEF Calm
<1>5. CASE u = t
  <2>1. ~Gone(u)
    BY Zenon, <1>2, <1>5
  <2>2. deferred' = <<t>>
    <3>1. Append(<<>>, t) = <<t>>
      OBVIOUS
    <3> QED
      BY Zenon, <1>1, <1>2, <1>5, <3>1
  <2>3. \A v : ~In(v, deferred) /\ (In(v, deferred') <=> v = t)
    BY Zenon, <1>2, <1>5, <2>2, NothingIn, PopOnly
  <2>4. \A v \in Threads : Lives(v)' <=> Lives(v)
    BY Zenon, <1>1, <2>1 DEF Lives, Freed
  <2>5. Counted(t) /\ ~Counted(t)' /\ \A v \in Threads : v # t => (Counted(v)' <=> Counted(v))
    BY Zenon, <1>2, <2>3, <2>4 DEF Counted
  <2>6. alive' = [alive EXCEPT ![Owner[t]] = @ - 1]
    BY Zenon, <1>1, <1>5
  <2> QED
    BY Zenon, <1>1, <1>3, <1>4, <2>4, <2>5, <2>6, CountedOff
<1>6. CASE u # t /\ Gone(u)
  <2>1. state[u] \in {"READY", "BLOCKED"}
    BY Zenon, <1>6
  <2>2. ~Freed(u) /\ creating[u] = "done"
    BY Zenon, <1>1, <1>2, <2>1 DEF KillExact, CreationExact
  <2>3. Lives(u) /\ ~In(u, deferred)
    BY Zenon, <1>2, <1>3, <2>1, <2>2, DeferredDead DEF Lives
  <2>4. deferred' = deferred /\ toFree' = Append(toFree, u) /\ alive' = [alive EXCEPT ![Owner[u]] = @ - 1]
    BY Zenon, <1>1, <1>3, <1>6
  <2>5. \A v \in Threads : Freed(v)' <=> (Freed(v) \/ v = u)
    <3>1. toFree \in Seq(Threads)
      BY Zenon DEF Types
    <3>2. \A v : In(v, toFree') <=> (In(v, toFree) \/ v = u)
      BY Zenon, <1>2, <2>4, <3>1, AppendIn
    <3> QED
      BY Zenon, <1>1, <3>2 DEF Freed
  <2>6. ~Lives(u)' /\ \A v \in Threads : v # u => (Lives(v)' <=> Lives(v))
    BY Zenon, <1>1, <1>2, <2>5 DEF Lives
  <2>7. Counted(u) /\ ~Counted(u)' /\ \A v \in Threads : v # u => (Counted(v)' <=> Counted(v))
    BY Zenon, <2>3, <2>4, <2>6 DEF Counted
  <2> QED
    BY Zenon, <1>1, <1>2, <1>3, <1>4, <2>3, <2>4, <2>6, <2>7, CountedOff
<1>7. CASE u # t /\ ~Gone(u)
  <2>1. alive' = [alive EXCEPT ![Owner[t]] = @]
    BY Zenon, <1>1, <1>7
  <2>2. alive' = alive
    BY <1>2, <2>1 DEF LInv, CountExact
  <2> QED
    BY Zenon, <1>1, <1>4, <1>7, <2>2, LeaveLifeAlone
<1> QED
  BY Zenon, <1>5, <1>6, <1>7

\* The finalizer destroys a thread; if that was the last one of its process, the process is not ALIVE and has none that lives.
LEMMA FreeThreadLife ==
    ASSUME IInv, LInv, do_free_thread
    PROVE  LInv'
<1> USE DEF IInv, LInv
<1>0. PICK t \in Threads : t = Head(freeing) /\ In(t, freeing) /\ \A y : In(y, Tail(freeing)) <=> (In(y, freeing) /\ y # t)
  <2>1. freeing \in Seq(Threads) /\ freeing # <<>> /\ NoRepeat(freeing)
    BY Zenon DEF do_free_thread, Types, FinalizerExact
  <2>2. Head(freeing) \in Threads
    BY Zenon, <2>1, TailElements
  <2>3. In(Head(freeing), freeing) /\ \A y : In(y, Tail(freeing)) <=> (In(y, freeing) /\ y # Head(freeing))
    BY Zenon, <2>1, TailIn
  <2> QED
    BY Zenon, <2>2, <2>3
<1>1. /\ freeing' = Tail(freeing) /\ threads' = [threads EXCEPT ![Owner[t]] = @ \ {t}]
      /\ unregistering' = IF threads[Owner[t]] \ {t} = {} THEN Owner[t] ELSE NoProc
      /\ unregistering = NoProc
      /\ UNCHANGED <<deferred, processes, pstate, alive, creating, toFree, procsToFree>>
  BY Zenon, <1>0 DEF do_free_thread, is_last_thread, listVars
<1>2. /\ Owner[t] \in Procs /\ threads'[Owner[t]] = threads[Owner[t]] \ {t}
      /\ \A p \in Procs : p # Owner[t] => threads'[p] = threads[p]
  BY Zenon, <1>1, OwnerAssumption DEF Types
<1>3. Freed(t) /\ ~Lives(t) /\ creating[t] = "done"
  BY Zenon, <1>0 DEF Freed, Lives, CreationExact
<1>4. \A u \in Threads : (u \in threads'[Owner[u]] <=> (u \in threads[Owner[u]] /\ u # t))
  BY Zenon, <1>2, OwnerAssumption
<1>5. \A u \in Threads : u # t => (Freed(u)' <=> Freed(u))
  BY Zenon, <1>0, <1>1 DEF Freed
<1>6. \A u \in Threads : (Lives(u)' <=> Lives(u)) /\ (Counted(u)' <=> Counted(u))
  BY Zenon, <1>1, <1>3, <1>4, <1>5 DEF Lives, Counted
<1>7. \A p \in Procs : Alive(p)' = Alive(p)
  BY Zenon, <1>6 DEF Alive
<1>8. CountExact' /\ LastThreadExits'
  BY Zenon, <1>1, <1>7 DEF CountExact, LastThreadExits
<1>9. NewThreadsExact'
  BY Zenon, <1>1, <1>4 DEF NewThreadsExact
<1>10. ASSUME threads[Owner[t]] \ {t} = {} PROVE pstate[Owner[t]] # "ALIVE" /\ \A u \in Threads : Owner[u] = Owner[t] => ~Lives(u)
  <2>1. \A u \in Threads : Owner[u] = Owner[t] => ~Lives(u)
    BY Zenon, <1>3, <1>10 DEF Lives
  <2>2. Alive(Owner[t]) = {}
    BY Zenon, <2>1 DEF Alive, Counted
  <2>3. creating[Main[Owner[t]]] = "done"
    <3>1. Main[Owner[t]] \in Threads /\ Owner[Main[Owner[t]]] = Owner[t]
      BY Zenon, <1>2, MainAssumption
    <3>2. creating[Main[Owner[t]]] = "no" => Main[Owner[t]] \in threads[Owner[t]] /\ Main[Owner[t]] # t
      BY Zenon, <1>2, <1>3 DEF CreationExact
    <3> QED
      BY Zenon, <1>10, <3>1, <3>2 DEF NewThreadsExact
  <2> QED
    BY Zenon, <1>2, <2>1, <2>2, <2>3 DEF LastThreadExits
<1>11. GoneExact'
  BY Zenon, <1>1, <1>2, <1>6, <1>10, NotAThreadAssumption DEF GoneExact
<1> QED
  BY Zenon, <1>8, <1>9, <1>11

\* unregister_process() hands over a process that it knew; do_free_process() ends it.
LEMMA UnregisterLife ==
    ASSUME IInv, LInv, unregister_process \/ \E p \in Procs : do_free_process(p)
    PROVE  LInv'
<1> USE DEF IInv, LInv
<1>1. UNCHANGED <<deferred, alive, threads, creating, toFree, freeing>>
  BY Zenon DEF unregister_process, do_free_process, listVars
<1>2. \A t \in Threads : (Lives(t)' <=> Lives(t)) /\ (Counted(t)' <=> Counted(t))
  BY Zenon, <1>1 DEF Lives, Freed, Counted
<1>3. \A p \in Procs : Alive(p)' = Alive(p)
  BY Zenon, <1>2 DEF Alive
<1>4. CountExact' /\ NewThreadsExact'
  BY Zenon, <1>1, <1>3 DEF CountExact, NewThreadsExact
<1>5. CASE unregister_process
  <2>1. LastThreadExits'
    BY Zenon, <1>1, <1>3, <1>5 DEF LastThreadExits, unregister_process
  <2>2. GoneExact'
    <3>1. CASE unregistering \in processes
      <4>1. /\ processes' = processes \ {unregistering} /\ procsToFree' = procsToFree \union {unregistering}
            /\ unregistering' = NoProc /\ pstate' = pstate
        BY Zenon, <1>5, <3>1 DEF unregister_process
      <4>2. unregistering \in Procs
        BY Zenon, <1>5 DEF GoneExact, unregister_process
      <4> QED
        BY Zenon, <1>2, <3>1, <4>1, <4>2, NotAThreadAssumption DEF GoneExact
    <3>2. CASE unregistering \notin processes
      <4>1. UNCHANGED <<processes, procsToFree, unregistering, pstate>>
        BY Zenon, <1>5, <3>2 DEF unregister_process
      <4> QED
        BY Zenon, <1>2, <4>1, StillGone DEF Calm
    <3> QED
      BY Zenon, <3>1, <3>2
  <2> QED
    BY Zenon, <1>4, <2>1, <2>2
<1>6. ASSUME NEW p \in Procs, do_free_process(p) PROVE LInv'
  <2>1. /\ p \in procsToFree /\ procsToFree' = procsToFree \ {p} /\ pstate' = [pstate EXCEPT ![p] = "EXITED"]
        /\ UNCHANGED <<processes, unregistering>>
    BY Zenon, <1>6 DEF do_free_process
  <2>2. pstate'[p] = "EXITED" /\ \A q \in Procs : q # p => pstate'[q] = pstate[q]
    BY Zenon, <2>1 DEF Types
  <2>3. LastThreadExits'
    BY Zenon, <1>1, <1>3, <2>2 DEF LastThreadExits
  <2>4. GoneExact'
    BY Zenon, <1>2, <2>1, <2>2 DEF GoneExact
  <2> QED
    BY Zenon, <1>4, <2>3, <2>4
<1> QED
  BY Zenon, <1>5, <1>6

\* Every step keeps the count and the order of exit and release.
LEMMA NextLInv == CountFacts /\ IInv /\ LInv /\ [Next]_vars => LInv'
<1> SUFFICES ASSUME CountFacts, IInv, LInv, [Next]_vars PROVE LInv'
  BY Zenon
<1>1. CASE Create
  BY Zenon, <1>1, CreateLife, RegistersLife DEF Create
<1>2. ASSUME NEW c \in CPUs, PickNext(c) \/ yield(c) PROVE LInv'
  <2>1. CASE free_deferred_threads(c)
    BY Zenon, <2>1, MoveTheDead
  <2>2. CASE kill_current_thread(c) \/ kill_all_next(c)
    BY Zenon, <2>2, KillCurrentLife, KillAllLife
  <2>3. CASE \/ pick_next_lock(c) \/ wake_ready_threads(c) \/ pick_next_keep(c) \/ pick_next_block(c)
             \/ kill_all_begin(c) \/ kill_all_end(c) \/ pick_next_thread(c) \/ switch_task(c) \/ yield(c)
    BY Zenon, <2>3, QuietLife
  <2> QED
    BY Zenon, <1>2, <2>1, <2>2, <2>3 DEF PickNext
<1>3. ASSUME NEW c \in CPUs, NEW t \in Threads, Runs(c, t) PROVE LInv'
  <2>1. CASE exit_process(c, t)
    BY Zenon, <2>1, ExitLife
  <2>2. CASE set_invulnerable(c, t) \/ exit_thread(c, t) \/ wait(c, t) \/ (\E w \in 1 .. MaxTime : sleep(c, t, w))
    BY Zenon, <2>2, QuietLife
  <2> QED
    BY Zenon, <1>3, <2>1, <2>2 DEF Runs
<1>4. CASE (\E t \in Threads : unblock(t)) \/ TimePasses \/ Halted \/ UNCHANGED vars
  BY Zenon, <1>4, QuietLife
<1>5. CASE Finalizer
  BY Zenon, <1>5, MoveTheDead, FreeThreadLife, UnregisterLife DEF Finalizer
<1> QED
  BY Zenon, <1>1, <1>2, <1>3, <1>4, <1>5 DEF Next
==============================================================================
