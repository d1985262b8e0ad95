---------------------------- MODULE AHCIPortProofs ----------------------------
(***************************************************************************)
(* AHCIPort for any number of threads, slots and commands per request: slots *)
(* and requests match one to one and none of either is lost, as long as no   *)
(* assertion has failed.                                                    *)
(***************************************************************************)
EXTENDS AHCIPort, SequenceFacts

\* A request is in a slot or in the queue only between the step that puts it there and its return ...
Queued(t) == In(t, request_queue)
Assigned(t) == \E s \in Slots : slot_to_request[s] = t
AssignedLater == \A t \in Threads : pc[t] \in {"idle", "submit", "assign"} => ~Queued(t) /\ ~Assigned(t)

\* ... a slot that it is given is taken, and nobody else's ...
SlotsTaken ==
    /\ \A s \in Slots : slot_to_request[s] # None => s \in slot_map
    /\ \A t \in Threads : pc[t] = "assign" => slot[t] \in slot_map /\ slot_to_request[slot[t]] = None
    /\ \A t, u \in Threads : pc[t] = "assign" /\ pc[u] = "assign" /\ slot[t] = slot[u] => t = u

\* ... and the slot whose request is being completed is taken and assigned to nobody, under the lock of the port.
CompletingExact ==
    completing # None =>
        /\ locked /\ bit \in slot_map /\ slot_to_request[bit] = None
        /\ \A t \in Threads : pc[t] = "assign" => slot[t] # bit

RequestsOnce ==
    /\ NoRepeat(request_queue)
    /\ \A r, s \in Slots : slot_to_request[r] = slot_to_request[s] /\ slot_to_request[r] # None => r = s
    /\ \A t \in Threads : ~(Queued(t) /\ Assigned(t))

SlotsKept ==
    /\ request_queue # <<>> => slot_map = Slots
    /\ \A s \in slot_map :
          \/ slot_to_request[s] # None
          \/ completing # None /\ bit = s
          \/ \E t \in Threads : pc[t] = "assign" /\ slot[t] = s

SInv == AssignedLater /\ SlotsTaken /\ CompletingExact /\ RequestsOnce /\ SlotsKept

IInv == TypeOK /\ (~ub => SInv)

\* The port is idle at first.
LEMMA InitIInv == Init => IInv
<1> SUFFICES ASSUME Init PROVE IInv
  OBVIOUS
<1> USE DEF Init
<1>1. TypeOK
  <2>1. 0 \in Slots /\ 0 \in 0 .. MaxOps /\ 0 \in 0 .. MaxIRQ /\ 0 \in 0 .. SlotCount /\ 0 \in Nat /\ <<>> \in Seq(Threads)
    BY SlotCountAssumption, MaxOpsAssumption, MaxIRQAssumption DEF Slots
  <2> QED
    BY Zenon, <2>1 DEF TypeOK
<1>2. \A t : ~In(t, request_queue)
  BY Zenon, NothingIn
<1>3. \A t \in Threads : ~Assigned(t) /\ pc[t] # "assign"
  BY Zenon, NoneAssumption DEF Assigned
<1>4. AssignedLater /\ SlotsTaken
  BY Zenon, <1>2, <1>3 DEF AssignedLater, SlotsTaken, Queued
<1>5. CompletingExact /\ RequestsOnce /\ SlotsKept
  BY Zenon, <1>2, <1>3, EmptyNoRepeat DEF CompletingExact, RequestsOnce, SlotsKept, Queued
<1> QED
  BY Zenon, <1>1, <1>4, <1>5 DEF IInv, SInv
------------------------------------------------------------------------------
(* Types.                                                                   *)

\* A step of the requesting thread.
LEMMA RequesterTypes ==
    ASSUME TypeOK, NEW t \in Threads, Requester(t) \/ \E n \in 1 .. MaxOps : make_request(t, n)
    PROVE  TypeOK'
<1>0. /\ \A l \in {"idle", "submit", "assign", "execute", "wait", "park", "blocked", "return"} :
            [pc EXCEPT ![t] = l] \in [Threads -> {"idle", "submit", "assign", "execute", "wait", "park", "blocked", "return"}]
      /\ \A s \in Slots : [slot EXCEPT ![t] = s] \in [Threads -> Slots]
      /\ \A n \in 0 .. MaxOps : [ops EXCEPT ![t] = n] \in [Threads -> 0 .. MaxOps]
  BY Zenon DEF TypeOK
<1> USE DEF TypeOK, Step, portVars, irqVars
<1>1. ASSUME NEW n \in 1 .. MaxOps, make_request(t, n) PROVE TypeOK'
  <2>1. n \in 0 .. MaxOps
    BY MaxOpsAssumption
  <2> QED
    BY Zenon, <1>0, <1>1, <2>1 DEF make_request
<1>2. CASE allocate_slot(t)
  <2>1. Append(request_queue, t) \in Seq(Threads)
    BY Zenon, AppendElements
  <2>2. \A s \in Slots : slot_map \union {s} \subseteq Slots
    BY Zenon
  <2>3. slot' \in [Threads -> Slots] /\ slot_map' \subseteq Slots /\ request_queue' \in Seq(Threads)
    BY Zenon, <1>0, <1>2, <2>1, <2>2 DEF allocate_slot
  <2> QED
    BY Zenon, <1>0, <1>2, <2>3 DEF allocate_slot
<1>3. CASE assign_slot(t)
  BY Zenon, <1>0, <1>3 DEF assign_slot
<1>4. CASE execute(t)
  BY Zenon, <1>0, <1>4 DEF execute
<1>5. CASE wait(t) \/ block(t)
  BY Zenon, <1>0, <1>5 DEF wait, block
<1>6. CASE return(t)
  <2>1. 0 \in Slots /\ 0 \in 0 .. MaxOps /\ 0 \in Nat
    BY SlotCountAssumption, MaxOpsAssumption DEF Slots
  <2>2. /\ pc' \in [Threads -> {"idle", "submit", "assign", "execute", "wait", "park", "blocked", "return"}]
        /\ slot' \in [Threads -> Slots] /\ ops' \in [Threads -> 0 .. MaxOps]
    BY Zenon, <1>0, <1>6, <2>1 DEF return
  <2>3. moved' \in [Threads -> Nat] /\ done' \in [Threads -> Nat]
    BY Zenon, <1>6, <2>1 DEF return
  <2>4. /\ unblocked' \in [Threads -> BOOLEAN] /\ m_is_completed' \in [Threads -> BOOLEAN]
        /\ qr' \in [Threads -> BOOLEAN]
    BY Zenon, <1>6 DEF return
  <2>5. ub' \in BOOLEAN
    BY <1>6 DEF return
  <2> QED
    BY Zenon, <1>6, <2>2, <2>3, <2>4, <2>5 DEF return
<1> QED
  BY Zenon, <1>1, <1>2, <1>3, <1>4, <1>5, <1>6 DEF Requester

\* A step of the device or of the deferred interrupt thread.
LEMMA PortTypes ==
    ASSUME IInv, DeferredThread \/ \E s \in Slots : DeviceCompletes(s)
    PROVE  TypeOK'
<1>0. TypeOK
  BY DEF IInv
<1> USE <1>0, SlotCountAssumption, MaxOpsAssumption, MaxIRQAssumption, NoneAssumption DEF TypeOK, requestVars, portVars, irqVars
<1>1. ASSUME NEW s \in Slots, DeviceCompletes(s) PROVE TypeOK'
  <2>1. irqs' \in 0 .. MaxIRQ
    BY <1>1 DEF DeviceCompletes
  <2>2. command_issue[s] \in Threads /\ moved[command_issue[s]] + 1 \in Nat
    BY <1>1 DEF DeviceCompletes
  <2> QED
    BY Zenon, <1>1, <2>1, <2>2 DEF DeviceCompletes
<1>2. CASE handle_port_irq
  <2>1. irqs' \in 0 .. MaxIRQ
    BY <1>2 DEF handle_port_irq
  <2> QED
    BY Zenon, <1>2, <2>1 DEF handle_port_irq
<1>3. bit \in Slots => bit + 1 \in 0 .. SlotCount
  BY DEF Slots
<1>4. CASE next_bit
  BY Zenon, <1>3, <1>4 DEF next_bit, InLoop
<1>5. ASSUME InLoop, IsCompleted(bit) PROVE slot_to_request[bit] \in Threads /\ bit \in Slots
  BY Zenon, <1>5 DEF InLoop, IsCompleted
<1>6. CASE next_op
  <2> DEFINE t == slot_to_request[bit]
  <2>1. t \in Threads /\ bit \in Slots
    BY Zenon, <1>5, <1>6 DEF next_op
  <2>2. ops[t] - 1 \in 0 .. MaxOps /\ done[t] + 1 \in Nat
    BY <1>6, <2>1 DEF next_op
  <2> QED
    BY Zenon, <1>3, <1>6, <2>1, <2>2 DEF next_op
<1>7. CASE complete_unblock
  <2> DEFINE t == slot_to_request[bit]
  <2>1. t \in Threads /\ bit \in Slots
    BY Zenon, <1>5, <1>7 DEF complete_unblock
  <2>2. 0 \in 0 .. MaxOps /\ done[t] + 1 \in Nat
    BY <2>1
  <2>3. /\ ops' \in [Threads -> 0 .. MaxOps] /\ done' \in [Threads -> Nat]
        /\ pc' \in [Threads -> {"idle", "submit", "assign", "execute", "wait", "park", "blocked", "return"}]
    BY Zenon, <1>7, <2>1, <2>2 DEF complete_unblock
  <2>4. /\ slot_to_request' \in [Slots -> Threads \union {None}] /\ unblocked' \in [Threads -> BOOLEAN]
        /\ completing' \in Threads /\ ub' \in BOOLEAN
    BY Zenon, <1>7, <2>1 DEF complete_unblock
  <2> QED
    BY Zenon, <1>7, <2>3, <2>4 DEF complete_unblock
<1>8. CASE complete_store
  <2>1. bit \in Slots /\ completing \in Threads
    BY Zenon, <1>8 DEF complete_store, IInv, SInv, CompletingExact
  <2>2. request_queue # <<>> => Head(request_queue) \in Threads /\ Tail(request_queue) \in Seq(Threads)
    BY Zenon, TailElements
  <2>3. m_is_completed' \in [Threads -> BOOLEAN] /\ qr' \in [Threads -> BOOLEAN]
    BY Zenon, <1>8, <2>1 DEF complete_store
  <2>4. /\ slot_map' \subseteq Slots /\ slot_to_request' \in [Slots -> Threads \union {None}]
        /\ request_queue' \in Seq(Threads) /\ command_issue' \in [Slots -> Threads \union {None}]
    <3>1. CASE request_queue = <<>>
      <4>1. UNCHANGED <<slot_to_request, request_queue, command_issue>> /\ slot_map' = slot_map \ {bit}
        BY Zenon, <1>8, <3>1 DEF complete_store, deallocate_slot
      <4> QED
        BY Zenon, <4>1
    <3>2. CASE request_queue # <<>>
      <4>1. /\ slot_to_request' = [slot_to_request EXCEPT ![bit] = Head(request_queue)]
            /\ command_issue' = [command_issue EXCEPT ![bit] = Head(request_queue)]
            /\ request_queue' = Tail(request_queue) /\ slot_map' = slot_map
        BY Zenon, <1>8, <3>2 DEF complete_store, pop_front
      <4> QED
        BY Zenon, <2>1, <2>2, <3>2, <4>1
    <3> QED
      BY Zenon, <3>1, <3>2
  <2> QED
    BY Zenon, <1>3, <1>8, <2>1, <2>3, <2>4 DEF complete_store
<1>9. CASE irq_return
  <2>1. 0 \in 0 .. SlotCount
    OBVIOUS
  <2> QED
    BY Zenon, <1>9, <2>1 DEF irq_return
<1> QED
  BY Zenon, <1>1, <1>2, <1>4, <1>6, <1>7, <1>8, <1>9 DEF DeferredThread
------------------------------------------------------------------------------
(* Slots.                                                                   *)

\* A step that leaves slots, queue and the threads about to be assigned alone.
LEMMA SameSlots ==
    ASSUME SInv, UNCHANGED <<slot_map, slot_to_request, request_queue, completing>>,
           completing # None => locked' /\ bit' = bit,
           \A t \in Threads : /\ pc'[t] = "assign" <=> pc[t] = "assign"
                              /\ pc[t] = "assign" => slot'[t] = slot[t]
                              /\ \/ pc'[t] = pc[t] \/ pc'[t] \notin {"idle", "submit", "assign"}
                                 \/ pc[t] \in {"idle", "submit", "assign"} \/ (~Queued(t) /\ ~Assigned(t))
    PROVE  SInv'
<1> USE DEF SInv
<1>1. \A t \in Threads : (Queued(t)' <=> Queued(t)) /\ (Assigned(t)' <=> Assigned(t))
  BY Zenon DEF Queued, Assigned
<1>2. AssignedLater'
  BY Zenon, <1>1 DEF AssignedLater
<1>3. SlotsTaken'
  BY Zenon DEF SlotsTaken
<1>4. CompletingExact'
  BY Zenon DEF CompletingExact
<1>5. RequestsOnce'
  BY Zenon, <1>1 DEF RequestsOnce
<1>6. SlotsKept'
  BY Zenon DEF SlotsKept
<1> QED
  BY Zenon, <1>2, <1>3, <1>4, <1>5, <1>6

\* What a thread does outside allocate_slot() and assign_slot().
LEMMA RequesterSlots ==
    ASSUME IInv, ~ub', NEW t \in Threads,
           \/ \E n \in 1 .. MaxOps : make_request(t, n)
           \/ execute(t) \/ wait(t) \/ block(t) \/ return(t)
    PROVE  SInv'
<1> USE DEF IInv
<1>1. SInv
  BY Zenon DEF make_request, execute, wait, block, return, Step
<1>2. /\ UNCHANGED <<slot_map, slot_to_request, request_queue, completing, locked, bit>>
      /\ \A u \in Threads : u # t => pc'[u] = pc[u] /\ slot'[u] = slot[u]
      /\ pc[t] # "assign" /\ pc'[t] # "assign"
      /\ pc[t] = "return" \/ pc[t] = "idle" \/ pc'[t] \notin {"idle", "submit", "assign"}
  BY DEF make_request, execute, wait, block, return, Step, portVars, irqVars, TypeOK
<1>3. pc[t] = "return" => ~Queued(t) /\ ~Assigned(t)
  <2> SUFFICES ASSUME pc[t] = "return" PROVE ~Queued(t) /\ ~Assigned(t)
    OBVIOUS
  <2>1. return(t)
    BY Zenon DEF make_request, execute, wait, block, Step
  <2>2. t \notin Range(slot_to_request) \union Range(request_queue)
    BY Zenon, <2>1 DEF return
  <2> QED
    BY <2>2 DEF Range, Queued, Assigned, In, TypeOK
<1>4. completing # None => locked' /\ bit' = bit
  BY Zenon, <1>1, <1>2 DEF SInv, CompletingExact
<1>5. ASSUME NEW u \in Threads
      PROVE  /\ pc'[u] = "assign" <=> pc[u] = "assign"
             /\ pc[u] = "assign" => slot'[u] = slot[u]
             /\ \/ pc'[u] = pc[u] \/ pc'[u] \notin {"idle", "submit", "assign"}
                \/ pc[u] \in {"idle", "submit", "assign"} \/ (~Queued(u) /\ ~Assigned(u))
  <2>1. CASE u = t
    BY Zenon, <1>2, <1>3, <2>1
  <2>2. CASE u # t
    BY Zenon, <1>2, <2>2
  <2> QED
    BY Zenon, <2>1, <2>2
<1> QED
  BY Zenon, <1>1, <1>2, <1>4, <1>5, SameSlots

\* The device, and the steps of handle_port_irq() that complete nothing.
LEMMA PortSlots ==
    ASSUME IInv, ~ub',
           (\E s \in Slots : DeviceCompletes(s)) \/ handle_port_irq \/ next_bit \/ next_op \/ irq_return
    PROVE  SInv'
<1>1. SInv
  BY Zenon DEF IInv, DeviceCompletes, handle_port_irq, next_bit, next_op, irq_return, InLoop
<1>2. UNCHANGED <<slot_map, slot_to_request, request_queue, completing, pc, slot>>
  BY Zenon DEF DeviceCompletes, handle_port_irq, next_bit, next_op, irq_return, requestVars, portVars, irqVars
<1>3. completing # None => locked' /\ bit' = bit
  <2> SUFFICES ASSUME completing # None PROVE locked' /\ bit' = bit
    OBVIOUS
  <2>1. locked /\ bit \in Slots
    BY Zenon, <1>1 DEF SInv, CompletingExact, IInv, TypeOK
  <2>2. ~handle_port_irq /\ ~next_bit /\ ~next_op
    BY Zenon, <2>1 DEF handle_port_irq, next_bit, next_op, InLoop
  <2>3. ~irq_return
    <3>1. SlotCount \notin Slots
      BY SlotCountAssumption DEF Slots
    <3> QED
      BY Zenon, <2>1, <3>1 DEF irq_return
  <2> QED
    BY Zenon, <2>1, <2>2, <2>3 DEF DeviceCompletes, irqVars
<1> QED
  BY Zenon, <1>1, <1>2, <1>3, SameSlots

\* allocate_slot() finds a free slot: it is nobody's.
LEMMA Allocates ==
    ASSUME IInv, NEW t \in Threads, NEW s \in Slots, s \notin slot_map, ~locked, ~ub,
           pc[t] = "submit", pc' = [pc EXCEPT ![t] = "assign"], slot' = [slot EXCEPT ![t] = s],
           slot_map' = slot_map \union {s}, UNCHANGED <<request_queue, slot_to_request, completing, locked, bit>>
    PROVE  SInv'
<1> USE DEF IInv, SInv
<1>0. completing = None /\ request_queue = <<>>
  BY Zenon DEF CompletingExact, SlotsKept
<1>1. \A u \in Threads : (Queued(u)' <=> Queued(u)) /\ (Assigned(u)' <=> Assigned(u))
  BY Zenon DEF Queued, Assigned
<1>2. /\ pc'[t] = "assign" /\ slot'[t] = s
      /\ \A u \in Threads : u # t => pc'[u] = pc[u] /\ slot'[u] = slot[u]
  BY Zenon DEF TypeOK
<1>3. slot_to_request[s] = None /\ \A u \in Threads : pc[u] = "assign" => slot[u] # s
  BY Zenon DEF SlotsTaken
<1>4. AssignedLater'
  BY Zenon, <1>1, <1>2 DEF AssignedLater
<1>5. SlotsTaken'
  <2>1. \A r \in Slots : slot_to_request'[r] # None => r \in slot_map'
    BY Zenon DEF SlotsTaken
  <2>2. \A u \in Threads : pc'[u] = "assign" => slot'[u] \in slot_map' /\ slot_to_request'[slot'[u]] = None
    BY <1>2, <1>3 DEF SlotsTaken
  <2>3. \A u, v \in Threads : pc'[u] = "assign" /\ pc'[v] = "assign" /\ slot'[u] = slot'[v] => u = v
    BY <1>2, <1>3 DEF SlotsTaken
  <2> QED
    BY Zenon, <2>1, <2>2, <2>3 DEF SlotsTaken
<1>6. CompletingExact' /\ RequestsOnce'
  BY Zenon, <1>0, <1>1 DEF CompletingExact, RequestsOnce
<1>7. SlotsKept'
  <2>1. ASSUME NEW u \in Threads, pc[u] = "assign" PROVE pc'[u] = "assign" /\ slot'[u] = slot[u]
    BY Zenon, <1>2, <2>1
  <2> QED
    BY <1>0, <1>2, <2>1 DEF SlotsKept
<1> QED
  BY Zenon, <1>4, <1>5, <1>6, <1>7

\* There is no free slot: the request is queued.
LEMMA Queues ==
    ASSUME IInv, NEW t \in Threads, Slots \subseteq slot_map, ~ub,
           pc[t] = "submit", pc' = [pc EXCEPT ![t] = "wait"], request_queue' = Append(request_queue, t),
           UNCHANGED <<slot, slot_map, slot_to_request, completing, locked, bit>>
    PROVE  SInv'
<1> USE DEF IInv, SInv
<1>1. pc'[t] = "wait" /\ \A u \in Threads : u # t => pc'[u] = pc[u]
  BY Zenon DEF TypeOK
<1>2. ~Queued(t) /\ ~Assigned(t) /\ \A u \in Threads : Assigned(u)' <=> Assigned(u)
  BY Zenon DEF AssignedLater, Assigned
<1>3. /\ \A u \in Threads : Queued(u)' <=> (Queued(u) \/ u = t)
      /\ NoRepeat(request_queue')
  BY Zenon, <1>2, AppendIn DEF Queued, TypeOK, RequestsOnce
<1>4. AssignedLater'
  BY Zenon, <1>1, <1>2, <1>3 DEF AssignedLater
<1>5. \A u \in Threads : pc'[u] = "assign" <=> pc[u] = "assign"
  BY Zenon, <1>1
<1>6. SlotsTaken' /\ CompletingExact'
  BY Zenon, <1>5 DEF SlotsTaken, CompletingExact
<1>7. RequestsOnce'
  BY Zenon, <1>2, <1>3 DEF RequestsOnce
<1>8. SlotsKept'
  BY Zenon, <1>5 DEF SlotsKept, TypeOK
<1> QED
  BY Zenon, <1>4, <1>6, <1>7, <1>8

\* assign_slot(), after the lock of the port was dropped: the slot is still its own.
LEMMA Assigns ==
    ASSUME IInv, NEW t \in Threads, ~ub, assign_slot(t)
    PROVE  SInv'
<1> USE DEF IInv, SInv
<1>0. PICK s \in Slots : s = slot[t]
  BY Zenon DEF TypeOK
<1>1. /\ pc[t] = "assign" /\ pc' = [pc EXCEPT ![t] = "execute"]
      /\ slot_to_request' = [slot_to_request EXCEPT ![s] = t]
      /\ UNCHANGED <<slot, slot_map, request_queue, completing, locked, bit>>
  BY Zenon, <1>0 DEF assign_slot, Step, irqVars
<1>2. pc'[t] = "execute" /\ \A u \in Threads : u # t => pc'[u] = pc[u]
  BY Zenon, <1>1 DEF TypeOK
<1>3. slot_to_request'[s] = t /\ \A r \in Slots : r # s => slot_to_request'[r] = slot_to_request[r]
  BY Zenon, <1>1 DEF TypeOK
<1>4. s \in slot_map /\ slot_to_request[s] = None /\ ~Queued(t) /\ ~Assigned(t) /\ t # None
  BY Zenon, <1>0, <1>1, NoneAssumption DEF SlotsTaken, AssignedLater
<1>5. \A u \in Threads : (Queued(u)' <=> Queued(u)) /\ (Assigned(u)' <=> (Assigned(u) \/ u = t))
  <2>1. \A u \in Threads : Queued(u)' <=> Queued(u)
    BY Zenon, <1>1 DEF Queued
  <2>2. \A u \in Threads : u # None
    BY Zenon, NoneAssumption
  <2> QED
    BY Zenon, <1>3, <1>4, <2>1, <2>2 DEF Assigned
<1>6. \A u \in Threads : pc'[u] = "assign" => u # t /\ pc[u] = "assign" /\ slot[u] # s
  BY Zenon, <1>0, <1>1, <1>2 DEF SlotsTaken
<1>7. AssignedLater'
  BY Zenon, <1>2, <1>5 DEF AssignedLater
<1>8. SlotsTaken'
  <2>1. \A r \in Slots : slot_to_request'[r] # None => r \in slot_map'
    BY Zenon, <1>1, <1>3, <1>4 DEF SlotsTaken
  <2>2. \A u \in Threads : pc'[u] = "assign" => slot'[u] \in slot_map' /\ slot_to_request'[slot'[u]] = None
    BY Zenon, <1>1, <1>3, <1>6 DEF SlotsTaken, TypeOK
  <2>3. \A u, v \in Threads : pc'[u] = "assign" /\ pc'[v] = "assign" /\ slot'[u] = slot'[v] => u = v
    BY Zenon, <1>1, <1>6 DEF SlotsTaken
  <2> QED
    BY Zenon, <2>1, <2>2, <2>3 DEF SlotsTaken
<1>9. CompletingExact'
  <2>1. completing # None => bit # s /\ bit \in Slots
    BY Zenon, <1>0, <1>1 DEF CompletingExact, TypeOK
  <2> QED
    BY Zenon, <1>1, <1>3, <1>6, <2>1 DEF CompletingExact
<1>10. RequestsOnce'
  <2>1. ASSUME NEW q \in Slots, NEW r \in Slots, slot_to_request'[q] = slot_to_request'[r], slot_to_request'[q] # None
        PROVE  q = r
    <3>1. \A p \in Slots : p # s => slot_to_request'[p] # t
      BY Zenon, <1>3, <1>4 DEF Assigned
    <3> QED
      BY Zenon, <1>3, <2>1, <3>1 DEF RequestsOnce
  <2> QED
    BY Zenon, <1>1, <1>4, <1>5, <2>1 DEF RequestsOnce
<1>11. SlotsKept'
  <2>1. request_queue' # <<>> => slot_map' = Slots
    BY Zenon, <1>1 DEF SlotsKept
  <2>2. ASSUME NEW r \in slot_map, r # s
        PROVE  \/ slot_to_request'[r] # None
               \/ completing' # None /\ bit' = r
               \/ \E u \in Threads : pc'[u] = "assign" /\ slot'[u] = r
    BY Zenon, <1>0, <1>1, <1>2, <1>3, <2>2 DEF SlotsKept, TypeOK
  <2>3. slot_to_request'[s] # None
    BY Zenon, <1>3, <1>4
  <2> QED
    BY Zenon, <1>1, <2>1, <2>2, <2>3 DEF SlotsKept
<1> QED
  BY Zenon, <1>7, <1>8, <1>9, <1>10, <1>11

\* The last op of a request completes: it leaves its slot, which stays taken.
LEMMA Completes ==
    ASSUME IInv, complete_unblock
    PROVE  SInv'
<1> USE DEF IInv, SInv
<1>0. ~ub /\ locked /\ bit \in Slots /\ bit \in slot_map /\ completing = None /\ slot_to_request[bit] # None
  BY Zenon DEF complete_unblock, InLoop, IsCompleted
<1>1. PICK t \in Threads : t = slot_to_request[bit]
  BY Zenon, <1>0 DEF TypeOK
<1>2. /\ slot_to_request' = [slot_to_request EXCEPT ![bit] = None]
      /\ pc' = [pc EXCEPT ![t] = IF @ = "blocked" THEN "return" ELSE @]
      /\ completing' = t /\ t # None
      /\ UNCHANGED <<slot, slot_map, request_queue, locked, bit>>
  BY Zenon, <1>0, <1>1 DEF complete_unblock
<1>3. /\ slot_to_request'[bit] = None
      /\ \A r \in Slots : r # bit => slot_to_request'[r] = slot_to_request[r]
  BY Zenon, <1>0, <1>2 DEF TypeOK
<1>4. \A u \in Threads : pc'[u] = pc[u] \/ (u = t /\ pc[u] = "blocked" /\ pc'[u] = "return")
  BY Zenon, <1>2 DEF TypeOK
<1>5. \A u \in Threads : /\ Queued(u)' <=> Queued(u)
                         /\ Assigned(u)' => Assigned(u)
  <2>1. \A u \in Threads : u # None
    BY Zenon, NoneAssumption
  <2> QED
    BY Zenon, <1>2, <1>3, <2>1 DEF Queued, Assigned
<1>6. \A u \in Threads : pc'[u] = "assign" <=> pc[u] = "assign"
  BY Zenon, <1>4
<1>7. \A u \in Threads : pc[u] = "assign" => slot[u] # bit /\ slot[u] \in Slots
  BY Zenon, <1>0 DEF SlotsTaken, TypeOK
<1>8. AssignedLater'
  BY Zenon, <1>0, <1>4, <1>5 DEF AssignedLater
<1>9. SlotsTaken'
  <2>1. \A r \in Slots : slot_to_request'[r] # None => r \in slot_map'
    BY Zenon, <1>0, <1>2, <1>3 DEF SlotsTaken
  <2>2. ASSUME NEW u \in Threads, pc'[u] = "assign"
        PROVE  slot'[u] \in slot_map' /\ slot_to_request'[slot'[u]] = None
    <3>1. pc[u] = "assign" /\ slot[u] # bit /\ slot[u] \in Slots
      BY Zenon, <1>6, <1>7, <2>2
    <3>2. slot[u] \in slot_map /\ slot_to_request[slot[u]] = None
      BY Zenon, <1>0, <3>1 DEF SlotsTaken
    <3> QED
      BY Zenon, <1>2, <1>3, <3>1, <3>2
  <2> QED
    BY Zenon, <1>0, <1>2, <1>6, <2>1, <2>2 DEF SlotsTaken
<1>10. CompletingExact'
  BY Zenon, <1>0, <1>2, <1>3, <1>6, <1>7 DEF CompletingExact
<1>11. RequestsOnce'
  BY Zenon, <1>0, <1>2, <1>3, <1>5 DEF RequestsOnce
<1>12. SlotsKept'
  <2>1. request_queue' # <<>> => slot_map' = Slots
    BY Zenon, <1>0, <1>2 DEF SlotsKept
  <2>2. ASSUME NEW r \in slot_map, r # bit
        PROVE  slot_to_request'[r] # None \/ \E u \in Threads : pc'[u] = "assign" /\ slot'[u] = r
    BY Zenon, <1>0, <1>2, <1>3, <1>6, <2>2 DEF SlotsKept, TypeOK
  <2> QED
    BY Zenon, <1>2, <2>1, <2>2 DEF SlotsKept
<1> QED
  BY Zenon, <1>8, <1>9, <1>10, <1>11, <1>12

\* The queue is empty when a request is done: its slot is freed.
LEMMA Deallocates ==
    ASSUME IInv, ~ub, completing # None, completing' = None, request_queue = <<>>, slot_map' = slot_map \ {bit},
           UNCHANGED <<slot_to_request, request_queue, pc, slot>>
    PROVE  SInv'
<1> USE DEF IInv, SInv
<1>1. /\ bit \in slot_map /\ slot_to_request[bit] = None
      /\ \A u \in Threads : pc[u] = "assign" => slot[u] # bit
  BY Zenon DEF CompletingExact
<1>2. \A u \in Threads : (Queued(u)' <=> Queued(u)) /\ (Assigned(u)' <=> Assigned(u))
  BY Zenon DEF Queued, Assigned
<1>3. AssignedLater' /\ CompletingExact' /\ RequestsOnce'
  BY Zenon, <1>2 DEF AssignedLater, CompletingExact, RequestsOnce
<1>4. SlotsTaken'
  BY Zenon, <1>1 DEF SlotsTaken
<1>5. SlotsKept'
  BY Zenon, <1>1 DEF SlotsKept
<1> QED
  BY Zenon, <1>3, <1>4, <1>5

\* Somebody is queued when a request is done: the first in the queue gets its slot.
LEMMA PassesOn ==
    ASSUME IInv, ~ub, completing # None, completing' = None, request_queue # <<>>,
           slot_to_request' = [slot_to_request EXCEPT ![bit] = Head(request_queue)],
           request_queue' = Tail(request_queue), UNCHANGED <<slot_map, pc, slot>>
    PROVE  SInv'
<1> USE DEF IInv, SInv
<1>0. /\ bit \in slot_map /\ bit \in Slots /\ slot_to_request[bit] = None
      /\ \A u \in Threads : pc[u] = "assign" => slot[u] # bit
  BY Zenon DEF CompletingExact, TypeOK
<1>1. /\ In(Head(request_queue), request_queue)
      /\ \A y : In(y, Tail(request_queue)) <=> (In(y, request_queue) /\ y # Head(request_queue))
      /\ NoRepeat(Tail(request_queue))
  BY Zenon, TailIn DEF TypeOK, RequestsOnce
<1>2. PICK h \in Threads : h = Head(request_queue)
  BY Zenon, TailElements DEF TypeOK
<1>3. /\ slot_to_request'[bit] = h
      /\ \A r \in Slots : r # bit => slot_to_request'[r] = slot_to_request[r]
  BY Zenon, <1>0, <1>2 DEF TypeOK
<1>4. h # None /\ Queued(h) /\ ~Assigned(h)
  BY Zenon, <1>1, <1>2, NoneAssumption DEF RequestsOnce, Queued
<1>5. \A u \in Threads : /\ Queued(u)' <=> (Queued(u) /\ u # h)
                         /\ Assigned(u)' => (Assigned(u) \/ u = h)
  <2>1. \A u \in Threads : Queued(u)' <=> (Queued(u) /\ u # h)
    BY Zenon, <1>1, <1>2 DEF Queued
  <2> QED
    BY Zenon, <1>3, <2>1 DEF Assigned
<1>6. AssignedLater' /\ CompletingExact'
  BY Zenon, <1>4, <1>5 DEF AssignedLater, CompletingExact
<1>7. SlotsTaken'
  <2>1. \A r \in Slots : slot_to_request'[r] # None => r \in slot_map'
    BY Zenon, <1>0, <1>3 DEF SlotsTaken
  <2>2. \A u \in Threads : pc'[u] = "assign" => slot'[u] \in slot_map' /\ slot_to_request'[slot'[u]] = None
    BY Zenon, <1>0, <1>3 DEF SlotsTaken, TypeOK
  <2> QED
    BY Zenon, <2>1, <2>2 DEF SlotsTaken
<1>8. RequestsOnce'
  <2>1. ASSUME NEW q \in Slots, NEW r \in Slots, slot_to_request'[q] = slot_to_request'[r], slot_to_request'[q] # None
        PROVE  q = r
    <3>1. \A p \in Slots : p # bit => slot_to_request'[p] # h
      BY Zenon, <1>3, <1>4 DEF Assigned
    <3> QED
      BY Zenon, <1>3, <2>1, <3>1 DEF RequestsOnce
  <2> QED
    BY Zenon, <1>1, <1>5, <2>1 DEF RequestsOnce
<1>9. SlotsKept'
  <2>1. slot_map' = Slots
    BY Zenon DEF SlotsKept
  <2>2. ASSUME NEW r \in slot_map, r # bit
        PROVE  slot_to_request'[r] # None \/ \E u \in Threads : pc'[u] = "assign" /\ slot'[u] = r
    BY Zenon, <1>3, <2>2 DEF SlotsKept, TypeOK
  <2>3. slot_to_request'[bit] # None
    BY Zenon, <1>3, <1>4
  <2> QED
    BY Zenon, <2>1, <2>2, <2>3 DEF SlotsKept
<1> QED
  BY Zenon, <1>6, <1>7, <1>8, <1>9
------------------------------------------------------------------------------
\* Every step keeps the invariant; once an assertion has failed only the types are left.
LEMMA NextIInv == IInv /\ [Next]_vars => IInv'
<1> SUFFICES ASSUME IInv, [Next]_vars PROVE IInv'
  OBVIOUS
<1>1. CASE UNCHANGED vars
  <2>1. TypeOK'
    BY Zenon, <1>1 DEF IInv, TypeOK, vars, requestVars, portVars, irqVars
  <2>2. ub' = ub /\ (SInv => SInv')
    BY Zenon, <1>1, SameSlots DEF vars, requestVars, portVars, irqVars, SInv, CompletingExact
  <2> QED
    BY Zenon, <2>1, <2>2 DEF IInv
<1>2. ASSUME NEW t \in Threads, Requester(t) \/ \E n \in 1 .. MaxOps : make_request(t, n) PROVE IInv'
  <2>1. TypeOK'
    BY Zenon, <1>2, RequesterTypes DEF IInv
  <2>2. CASE allocate_slot(t)
    <3>1. ~locked /\ ~ub /\ pc[t] = "submit" /\ UNCHANGED <<slot_to_request, completing, locked, bit>>
      BY Zenon, <2>2 DEF allocate_slot, Step, irqVars
    <3>2. ASSUME NEW s \in Slots, FirstFree(s), Step(t, "submit", "assign"), slot' = [slot EXCEPT ![t] = s],
                 slot_map' = slot_map \union {s}, UNCHANGED request_queue
          PROVE  SInv'
      <4>1. s \notin slot_map
        BY Zenon, <3>2 DEF FirstFree
      <4> QED
        BY Zenon, <3>1, <3>2, <4>1, Allocates DEF Step
    <3>3. ASSUME Slots \subseteq slot_map, Step(t, "submit", "wait"), request_queue' = Append(request_queue, t),
                 UNCHANGED <<slot, slot_map>>
          PROVE  SInv'
      BY Zenon, <3>1, <3>3, Queues DEF Step
    <3> QED
      BY Zenon, <2>1, <2>2, <3>2, <3>3 DEF allocate_slot, IInv
  <2>3. CASE assign_slot(t)
    BY Zenon, <2>1, <2>3, Assigns DEF IInv, assign_slot, Step
  <2> QED
    BY Zenon, <1>2, <2>1, <2>2, <2>3, RequesterSlots DEF IInv, Requester
<1>3. ASSUME (\E s \in Slots : DeviceCompletes(s)) \/ DeferredThread PROVE IInv'
  <2>1. TypeOK'
    BY Zenon, <1>3, PortTypes
  <2>2. CASE complete_unblock
    BY Zenon, <2>1, <2>2, Completes DEF IInv
  <2>3. CASE complete_store
    <3>1. ~ub /\ completing # None /\ completing' = None /\ UNCHANGED <<pc, slot>>
      BY Zenon, <2>3 DEF complete_store
    <3>2. CASE request_queue = <<>> /\ deallocate_slot(bit) /\ UNCHANGED <<slot_to_request, request_queue, command_issue>>
      BY Zenon, <2>1, <3>1, <3>2, Deallocates DEF deallocate_slot, IInv
    <3>3. CASE /\ request_queue # <<>>
               /\ slot_to_request' = [slot_to_request EXCEPT ![bit] = pop_front(request_queue).first]
               /\ request_queue' = pop_front(request_queue).rest
               /\ UNCHANGED slot_map
      <4>1. pop_front(request_queue).first = Head(request_queue) /\ pop_front(request_queue).rest = Tail(request_queue)
        BY Zenon DEF pop_front
      <4> QED
        BY Zenon, <2>1, <3>1, <3>3, <4>1, PassesOn DEF IInv
    <3> QED
      BY Zenon, <2>3, <3>2, <3>3 DEF complete_store
  <2> QED
    BY Zenon, <1>3, <2>1, <2>2, <2>3, PortSlots DEF IInv, DeferredThread
<1> QED
  BY Zenon, <1>1, <1>2, <1>3 DEF Next

\* TypeOK, for every number of threads, slots and commands per request.
THEOREM PortTypesOK == Spec => []TypeOK
<1>1. IInv => TypeOK
  BY DEF IInv
<1> QED
  BY InitIInv, NextIInv, <1>1, PTL DEF Spec

\* SlotsExact, for every number of threads, slots and commands per request: until an assertion fails, no
\* slot of a port leaks (allocate_slot, deallocate_slot), nobody is queued while a slot is free, and no
\* request has two slots or shares one, also across the lock that is dropped before assign_slot.
THEOREM SlotsAndRequestsMatch == Spec => []SlotsExact
<1>1. IInv => SlotsExact
  <2> SUFFICES ASSUME IInv PROVE SlotsExact
    OBVIOUS
  <2>1. SlotsAccounted
    BY Zenon DEF SlotsAccounted, IInv, SInv, SlotsKept
  <2>2. ASSUME ~ub PROVE Range(request_queue) \intersect Range(slot_to_request) = {}
    <3>1. SInv /\ TypeOK
      BY Zenon, <2>2 DEF IInv
    <3>2. \A x \in Range(request_queue) : x \in Threads /\ Queued(x)
      BY <3>1 DEF Range, Queued, In, TypeOK
    <3>3. \A x \in Range(slot_to_request) : x \in Threads => Assigned(x)
      BY Zenon, <3>1 DEF Range, Assigned, TypeOK
    <3> QED
      BY Zenon, <3>1, <3>2, <3>3 DEF SInv, RequestsOnce
  <2>3. ASSUME ~ub
        PROVE  /\ \A r, s \in Slots : slot_to_request[r] = slot_to_request[s] /\ r # s => slot_to_request[r] = None
               /\ \A i, j \in DOMAIN request_queue : request_queue[i] = request_queue[j] => i = j
    BY Zenon, <2>3 DEF IInv, SInv, RequestsOnce, NoRepeat
  <2>4. ASSUME ~ub, NEW t \in Threads, NEW u \in Threads, pc[t] = "assign"
        PROVE  slot_to_request[slot[t]] = None /\ (pc[u] = "assign" /\ slot[u] = slot[t] => u = t)
    BY Zenon, <2>4 DEF IInv, SInv, SlotsTaken
  <2>5. OneSlotPerRequest
    BY Zenon, <2>2, <2>3, <2>4 DEF OneSlotPerRequest
  <2> QED
    BY Zenon, <2>1, <2>5 DEF SlotsExact
<1> QED
  BY InitIInv, NextIInv, <1>1, PTL DEF Spec
==============================================================================
