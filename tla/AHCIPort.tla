------------------------------- MODULE AHCIPort -------------------------------
(***************************************************************************)
(* The asynchronous path of a disk request: StorageDevice::AsyncRequest on   *)
(* the requesting thread's stack (Drivers/Storage.cpp), the command slots    *)
(* and request queue of one AHCI port (Drivers/AHCI/AHCI.cpp), the device,   *)
(* and the deferred interrupt thread that completes commands.                *)
(*                                                                         *)
(* A request is named by its thread: the next one of the same thread lives   *)
(* at the same place of its stack.  Once an assertion has failed or the port  *)
(* is left with a request that is gone, the model stops (ub).                *)
(***************************************************************************)
EXTENDS Naturals, Sequences, TLC

CONSTANTS
    Threads,
    SlotCount,  \* m_command_slots_per_port
    MaxOps,     \* bound on the commands one request is split into by build_ops
    MaxIRQ,     \* interrupts counted before further ones coalesce with them
    None

ASSUME SlotCountAssumption == SlotCount \in Nat \ {0}
ASSUME MaxOpsAssumption == MaxOps \in Nat \ {0}
ASSUME MaxIRQAssumption == MaxIRQ \in Nat \ {0}
ASSUME NoneAssumption == None \notin Threads

VARIABLES
    pc,             \* where each thread is in submit_request and wait
    slot,           \* the slot allocate_slot gave it
    ops,            \* QueuedRequest::queued_ops: how many are left
    moved,          \* how many of its commands the device has carried out
    done,           \* how many of its commands handle_port_irq has popped
    unblocked,      \* its m_blocker has a result
    m_is_completed,
    qr,             \* its QueuedRequest is allocated
    slot_map, slot_to_request, request_queue,
    locked,         \* port.state_access_lock is held by the interrupt thread
    command_issue,  \* PxCI: the request whose command the slot carries, or None
    irqs,           \* interrupts not handled yet
    command_status, \* the slots handle_port_irq saw busy
    bit,            \* the slot its loop is at
    completing,     \* the request AsyncRequest::complete is in the middle of
    ub

requestVars == <<pc, slot, ops, moved, done, unblocked, m_is_completed, qr>>
portVars == <<slot_map, slot_to_request, request_queue>>
irqVars == <<locked, command_status, bit, completing>>
vars == <<requestVars, portVars, irqVars, command_issue, irqs, ub>>

Slots == 0 .. SlotCount - 1
Range(f) == {f[x] : x \in DOMAIN f}

Init ==
    /\ pc = [t \in Threads |-> "idle"]
    /\ slot = [t \in Threads |-> 0]
    /\ ops = [t \in Threads |-> 0] /\ moved = [t \in Threads |-> 0]
    /\ done = [t \in Threads |-> 0]
    /\ unblocked = [t \in Threads |-> FALSE]
    /\ m_is_completed = [t \in Threads |-> FALSE]
    /\ qr = [t \in Threads |-> FALSE]
    /\ slot_map = {} /\ slot_to_request = [s \in Slots |-> None] /\ request_queue = <<>>
    /\ locked = FALSE /\ command_status = {} /\ bit = 0 /\ completing = None
    /\ command_issue = [s \in Slots |-> None]
    /\ irqs = 0
    /\ ub = FALSE
------------------------------------------------------------------------------
(* The requesting thread.                                                   *)

Step(t, from, to) == ~ub /\ pc[t] = from /\ pc' = [pc EXCEPT ![t] = to]

\* AsyncRequest::make_read / make_write, then build_ops in process_async_request.
make_request(t, n) ==
    /\ Step(t, "idle", "submit")
    /\ ops' = [ops EXCEPT ![t] = n]
    /\ qr' = [qr EXCEPT ![t] = TRUE]
    /\ UNCHANGED <<slot, moved, done, unblocked, m_is_completed, portVars, irqVars, command_issue, irqs, ub>>

\* PortState::allocate_slot: the first free bit of slot_map.
FirstFree(s) == s \in Slots \ slot_map /\ \A r \in Slots \ slot_map : s <= r

allocate_slot(t) ==
    /\ ~locked
    /\ \/ \E s \in Slots :
             /\ FirstFree(s)
             /\ Step(t, "submit", "assign")
             /\ slot' = [slot EXCEPT ![t] = s]
             /\ slot_map' = slot_map \union {s}
             /\ UNCHANGED request_queue
       \/ /\ Slots \subseteq slot_map
          /\ Step(t, "submit", "wait")
          /\ request_queue' = Append(request_queue, t)
          /\ UNCHANGED <<slot, slot_map>>
    /\ UNCHANGED <<ops, moved, done, unblocked, m_is_completed, qr, slot_to_request, irqVars,
                   command_issue, irqs, ub>>

\* After the port lock is dropped.
assign_slot(t) ==
    /\ Step(t, "assign", "execute")
    /\ slot_to_request' = [slot_to_request EXCEPT ![slot[t]] = t]
    /\ UNCHANGED <<slot, ops, moved, done, unblocked, m_is_completed, qr, slot_map,
                   request_queue, irqVars, command_issue, irqs, ub>>

\* execute(qr.queued_ops.front()), from the queued request.
execute(t) ==
    /\ Step(t, "execute", "wait")
    /\ ub' = ~qr[t]
    /\ command_issue' = [command_issue EXCEPT ![slot[t]] = t]
    /\ UNCHANGED <<slot, ops, moved, done, unblocked, m_is_completed, qr, portVars, irqVars,
                   irqs>>

\* AsyncRequest::wait: m_is_completed is checked, then the thread blocks.
wait(t) ==
    /\ \/ m_is_completed[t] /\ Step(t, "wait", "return")
       \/ ~m_is_completed[t] /\ Step(t, "wait", "park")
    /\ UNCHANGED <<slot, ops, moved, done, unblocked, m_is_completed, qr, portVars, irqVars,
                   command_issue, irqs, ub>>

block(t) ==
    /\ \/ unblocked[t] /\ Step(t, "park", "return")
       \/ ~unblocked[t] /\ Step(t, "park", "blocked")
    /\ UNCHANGED <<slot, ops, moved, done, unblocked, m_is_completed, qr, portVars, irqVars,
                   command_issue, irqs, ub>>

\* The caller of wait() returns: the request is gone.
return(t) ==
    /\ Step(t, "return", "idle")
    /\ ub' = (t \in Range(slot_to_request) \union Range(request_queue))
    /\ slot' = [slot EXCEPT ![t] = 0] /\ ops' = [ops EXCEPT ![t] = 0]
    /\ moved' = [moved EXCEPT ![t] = 0] /\ done' = [done EXCEPT ![t] = 0]
    /\ unblocked' = [unblocked EXCEPT ![t] = FALSE]
    /\ m_is_completed' = [m_is_completed EXCEPT ![t] = FALSE]
    /\ qr' = [qr EXCEPT ![t] = FALSE]
    /\ UNCHANGED <<portVars, irqVars, command_issue, irqs>>
------------------------------------------------------------------------------
\* The device carries out a command, clears its PxCI bit and interrupts.
DeviceCompletes(s) ==
    LET t == command_issue[s] IN
    /\ ~ub /\ t # None
    /\ command_issue' = [command_issue EXCEPT ![s] = None]
    /\ moved' = [moved EXCEPT ![t] = IF @ < MaxOps THEN @ + 1 ELSE @]
    /\ irqs' = IF irqs < MaxIRQ THEN irqs + 1 ELSE irqs
    /\ UNCHANGED <<pc, slot, ops, done, unblocked, m_is_completed, qr, portVars, irqVars, ub>>
------------------------------------------------------------------------------
(* The deferred interrupt thread.                                           *)

\* handle_deferred_irq; handle_port_irq takes the lock and reads PxCI.
handle_port_irq ==
    /\ ~ub /\ irqs > 0 /\ ~locked
    /\ irqs' = irqs - 1
    /\ locked' = TRUE
    /\ command_status' = {s \in Slots : command_issue[s] # None}
    /\ UNCHANGED <<requestVars, portVars, bit, completing, command_issue, ub>>

\* Mutant: the loop runs one slot too far.
InLoop_off_by_one == ~ub /\ locked /\ completing = None /\ bit \in 0..SlotCount

InLoop == ~ub /\ locked /\ completing = None /\ bit \in Slots

IsCompleted(s) == s \in slot_map /\ s \notin command_status /\ slot_to_request[s] # None

next_bit ==
    /\ InLoop /\ ~IsCompleted(bit)
    /\ bit' = bit + 1
    /\ UNCHANGED <<requestVars, portVars, locked, command_status, completing, command_issue,
                   irqs, ub>>

\* "Request has even more OPs".
next_op ==
    LET t == slot_to_request[bit] IN
    /\ InLoop /\ IsCompleted(bit) /\ ops[t] > 1
    /\ ops' = [ops EXCEPT ![t] = @ - 1] /\ done' = [done EXCEPT ![t] = @ + 1]
    /\ command_issue' = [command_issue EXCEPT ![bit] = t]
    /\ bit' = bit + 1
    /\ UNCHANGED <<pc, slot, moved, unblocked, m_is_completed, qr, portVars, locked,
                   command_status, completing, irqs, ub>>

\* The last op: AsyncRequest::complete up to m_blocker.unblock().
complete_unblock ==
    LET t == slot_to_request[bit] IN
    /\ InLoop /\ IsCompleted(bit) /\ ops[t] = 1
    /\ ops' = [ops EXCEPT ![t] = 0] /\ done' = [done EXCEPT ![t] = @ + 1]
    /\ slot_to_request' = [slot_to_request EXCEPT ![bit] = None]
    /\ unblocked' = [unblocked EXCEPT ![t] = TRUE]
    /\ pc' = [pc EXCEPT ![t] = IF @ = "blocked" THEN "return" ELSE @]
    /\ completing' = t
    /\ ub' = m_is_completed[t]
    /\ UNCHANGED <<slot, moved, m_is_completed, qr, slot_map, request_queue, locked,
                   command_status, bit, command_issue, irqs>>

\* Mutant: the slot stays taken.
deallocate_nothing(s) == UNCHANGED slot_map

deallocate_slot(s) == slot_map' = slot_map \ {s}

\* Mutant: the queue is served from its back.
pop_back(queue) == [first |-> queue[Len(queue)], rest |-> SubSeq(queue, 1, Len(queue) - 1)]

pop_front(queue) == [first |-> Head(queue), rest |-> Tail(queue)]

\* m_is_completed.store(true): the request may be gone, and the thread's next
\* request, which is not unblocked yet, may have taken its place.  Then the
\* QueuedRequest is deleted, and its slot is freed or given to the next in line.
complete_store ==
    LET t == completing IN
    /\ ~ub /\ t # None
    /\ completing' = None
    /\ \E hit \in BOOLEAN :
          /\ unblocked[t] => hit
          /\ pc[t] = "idle" => ~hit
          /\ m_is_completed' = [m_is_completed EXCEPT ![t] = @ \/ hit]
    /\ qr' = [qr EXCEPT ![t] = @ /\ ~unblocked[t]]
    /\ \/ /\ request_queue = <<>>
          /\ deallocate_slot(bit)
          /\ UNCHANGED <<slot_to_request, request_queue, command_issue>>
       \/ /\ request_queue # <<>>
          /\ slot_to_request' = [slot_to_request EXCEPT ![bit] = pop_front(request_queue).first]
          /\ command_issue' = [command_issue EXCEPT ![bit] = pop_front(request_queue).first]
          /\ request_queue' = pop_front(request_queue).rest
          /\ UNCHANGED slot_map
    /\ bit' = bit + 1
    /\ UNCHANGED <<pc, slot, ops, moved, done, unblocked, locked, command_status, irqs, ub>>

irq_return ==
    /\ ~ub /\ locked /\ bit = SlotCount
    /\ locked' = FALSE
    /\ command_status' = {} /\ bit' = 0
    /\ UNCHANGED <<requestVars, portVars, completing, command_issue, irqs,
                   ub>>

DeferredThread ==
    handle_port_irq \/ next_bit \/ next_op \/ complete_unblock \/ complete_store \/ irq_return

Requester(t) ==
    allocate_slot(t) \/ assign_slot(t) \/ execute(t) \/ wait(t) \/ block(t) \/ return(t)

Next ==
    \/ \E t \in Threads : Requester(t) \/ \E n \in 1..MaxOps : make_request(t, n)
    \/ \E s \in Slots : DeviceCompletes(s)
    \/ DeferredThread
    \/ ub /\ UNCHANGED vars

Spec == Init /\ [][Next]_vars

\* Threads that can run do, the device finishes every command, and the deferred
\* interrupt thread serves every interrupt (DeferredIRQ).
Fairness ==
    /\ \A t \in Threads : WF_vars(Requester(t))
    /\ \A s \in Slots : WF_vars(DeviceCompletes(s))
    /\ WF_vars(DeferredThread)

FairSpec == Spec /\ Fairness

\* Threads are alike.
ThreadSymmetry == Permutations(Threads)
------------------------------------------------------------------------------
TypeOK ==
    /\ pc \in [Threads -> {"idle", "submit", "assign", "execute", "wait", "park", "blocked", "return"}]
    /\ slot \in [Threads -> Slots]
    /\ ops \in [Threads -> 0..MaxOps] /\ moved \in [Threads -> Nat] /\ done \in [Threads -> Nat]
    /\ unblocked \in [Threads -> BOOLEAN] /\ m_is_completed \in [Threads -> BOOLEAN]
    /\ qr \in [Threads -> BOOLEAN]
    /\ slot_map \subseteq Slots
    /\ slot_to_request \in [Slots -> Threads \union {None}]
    /\ request_queue \in Seq(Threads)
    /\ locked \in BOOLEAN /\ ub \in BOOLEAN
    /\ command_issue \in [Slots -> Threads \union {None}]
    /\ irqs \in 0..MaxIRQ
    /\ command_status \subseteq Slots /\ bit \in 0..SlotCount
    /\ completing \in Threads \union {None}

\* Requests queue up only while every slot is taken, and a slot is taken only by
\* a request that is being submitted, executed or completed: no slot leaks and
\* no queued request is forgotten.
SlotsAccounted ==
    ~ub =>
        /\ request_queue # <<>> => slot_map = Slots
        /\ \A s \in slot_map :
              \/ slot_to_request[s] # None
              \/ completing # None /\ bit = s
              \/ \E t \in Threads : pc[t] = "assign" /\ slot[t] = s

\* A request is never in two slots or in a slot and in the queue, and a slot that
\* was just allocated is nobody else's.
OneSlotPerRequest ==
    ~ub =>
        /\ \A r, s \in Slots : slot_to_request[r] = slot_to_request[s] /\ r # s => slot_to_request[r] = None
        /\ Range(request_queue) \intersect Range(slot_to_request) = {}
        /\ \A i, j \in DOMAIN request_queue : request_queue[i] = request_queue[j] => i = j
        /\ \A t, u \in Threads :
              pc[t] = "assign" =>
                 /\ slot_to_request[slot[t]] = None
                 /\ pc[u] = "assign" /\ slot[u] = slot[t] => u = t

\* Slots and requests match one to one, and none of either is lost.
SlotsExact == SlotsAccounted /\ OneSlotPerRequest

\* A thread that waits for its request gets an answer: the queue of a busy port is
\* served in order, and the completion that comes between the check of
\* m_is_completed and the block is not lost.
RequestReturns == \A t \in Threads : pc[t] \in {"wait", "park", "blocked"} ~> (pc[t] = "return" \/ ub)

\* handle_port_irq: "A command has been completed" of every slot that is taken and
\* whose PxCI bit is clear: what it completes, the device has carried out.
CommandHasBeenCompleted == ~ub => \A t \in Threads : done[t] <= moved[t]

\* ASSERT(!m_is_completed) of AsyncRequest::complete: whoever is about to be
\* completed has not been marked completed by the store of an earlier request.
NotCompletedTwice ==
    InLoop /\ IsCompleted(bit) /\ ops[slot_to_request[bit]] = 1
        => ~m_is_completed[slot_to_request[bit]]
==============================================================================
