---------------------------- MODULE IPICommunicator ----------------------------
(***************************************************************************)
(* Inter-processor invalidation requests (Interrupts/IPICommunicator.cpp,    *)
(* the request queues of Core/CPU.cpp) as AddressSpace::unmap_range uses     *)
(* them: the unmapping CPU posts a request that lives on its stack to every  *)
(* other CPU and waits, with interrupts disabled, until all have dropped the *)
(* range from their TLB.  The one lock modelled is the memory manager's       *)
(* m_virtual_region_lock, an InterruptSafeSpinLock: free_all_virtual_regions  *)
(* unmaps while it holds it, allocations and page faults take it.            *)
(*                                                                         *)
(* Every CPU has at most one request under way, so a request is named by the  *)
(* CPU that posted it.                                                       *)
(***************************************************************************)
EXTENDS Integers, Sequences, FiniteSets

CONSTANTS
    CPUs,
    Pages,
    Operations, \* what the kernel does: a subset of the operations below
    MaxRequests,\* LocalData::max_ipi_requests
    NoCPU, NoPage

AllOperations == {"free", "free_all", "allocate", "fault"}

ASSUME CPUsAssumption == IsFiniteSet(CPUs) /\ NoCPU \notin CPUs
ASSUME PagesAssumption == NoPage \notin Pages
ASSUME OperationsAssumption == Operations \subseteq AllOperations
\* The queue holds a request of every other CPU.
ASSUME MaxRequestsAssumption == MaxRequests \in Nat /\ Cardinality(CPUs) <= MaxRequests + 1

VARIABLES
    mapped,     \* pages that are present in the page table
    tlb,        \* pages each CPU may still translate
    pc, op,     \* where each CPU is, and in which operation ("free" when in none)
    page,       \* the range it unmaps
    targets,    \* the CPUs post_request has not come to yet
    countdown,  \* m_completion_countdown of its request
    requests,   \* m_requests of each CPU
    lock        \* holder of m_virtual_region_lock

vars == <<mapped, tlb, pc, op, page, targets, countdown, requests, lock>>

Init ==
    /\ mapped = Pages
    /\ tlb = [c \in CPUs |-> {}]
    /\ pc = [c \in CPUs |-> "run"]
    /\ op = [c \in CPUs |-> "free"]
    /\ page = [c \in CPUs |-> NoPage]
    /\ targets = [c \in CPUs |-> {}]
    /\ countdown = [c \in CPUs |-> 0]
    /\ requests = [c \in CPUs |-> <<>>]
    /\ lock = NoCPU
------------------------------------------------------------------------------
Frees(o) == o \in {"free", "free_all"}

\* Every operation but the page fault, which enters through an interrupt gate,
\* is called with interrupts enabled; free takes no lock around its unmap.  A
\* region is freed once: ASSERT(!vr.is_released()).
Start(c, o, p) ==
    /\ pc[c] = "run"
    /\ IF Frees(o) THEN p \in mapped /\ \A d \in CPUs : page[d] # p ELSE p = NoPage
    /\ op' = [op EXCEPT ![c] = o]
    /\ page' = [page EXCEPT ![c] = p]
    /\ pc' = [pc EXCEPT ![c] = IF o = "free" THEN "unmap" ELSE "spin"]
    /\ UNCHANGED <<mapped, tlb, targets, countdown, requests, lock>>

\* SpinLock::do_lock.
Acquire(c) ==
    /\ pc[c] = "spin" /\ lock = NoCPU
    /\ lock' = c
    /\ pc' = [pc EXCEPT ![c] = IF op[c] = "free_all" THEN "unmap" ELSE "unlock"]
    /\ UNCHANGED <<mapped, tlb, op, page, targets, countdown, requests>>

Release(c) ==
    /\ pc[c] = "unlock"
    /\ lock' = NoCPU
    /\ pc' = [pc EXCEPT ![c] = "run"]
    /\ op' = [op EXCEPT ![c] = "free"]
    /\ UNCHANGED <<mapped, tlb, page, targets, countdown, requests>>

\* unmap_range with interrupts disabled: local_unmap_page clears the entry and
\* invalidates it here; post_request starts.
unmap_range(c) ==
    /\ pc[c] = "unmap"
    /\ mapped' = mapped \ {page[c]}
    /\ tlb' = [tlb EXCEPT ![c] = @ \ {page[c]}]
    /\ targets' = [targets EXCEPT ![c] = CPUs \ {c}]
    /\ pc' = [pc EXCEPT ![c] = "post"]
    /\ UNCHANGED <<op, page, countdown, requests, lock>>

\* Mutant: the request is queued but not counted.
post_uncounted(c, d) ==
    /\ pc[c] = "post" /\ d \in targets[c]
    /\ targets' = [targets EXCEPT ![c] = @ \ {d}]
    /\ requests' = [requests EXCEPT ![d] = Append(@, c)]
    /\ UNCHANGED <<mapped, tlb, pc, op, page, countdown, lock>>

\* One CPU of the loop in post_request: count, then LocalData::push_request.
post_request(c, d) ==
    /\ pc[c] = "post" /\ d \in targets[c]
    /\ targets' = [targets EXCEPT ![c] = @ \ {d}]
    /\ countdown' = [countdown EXCEPT ![c] = @ + 1]
    /\ requests' = [requests EXCEPT ![d] = Append(@, c)]
    /\ UNCHANGED <<mapped, tlb, pc, op, page, lock>>

post_done(c) ==
    /\ pc[c] = "post" /\ targets[c] = {}
    /\ pc' = [pc EXCEPT ![c] = "wait"]
    /\ UNCHANGED <<mapped, tlb, op, page, targets, countdown, requests, lock>>

\* Mutant: the caller does not wait.
no_wait(c) ==
    /\ pc[c] = "wait"
    /\ page' = [page EXCEPT ![c] = NoPage]
    /\ pc' = [pc EXCEPT ![c] = IF op[c] = "free_all" THEN "unlock" ELSE "run"]
    /\ UNCHANGED <<mapped, tlb, op, targets, countdown, requests, lock>>

\* wait_for_completion sees zero: the request leaves the stack.
wait_for_completion(c) ==
    /\ pc[c] = "wait" /\ countdown[c] = 0
    /\ page' = [page EXCEPT ![c] = NoPage]
    /\ pc' = [pc EXCEPT ![c] = IF op[c] = "free_all" THEN "unlock" ELSE "run"]
    /\ UNCHANGED <<mapped, tlb, op, targets, countdown, requests, lock>>

\* Mutant: a waiting CPU does not process its own queue.
Processes_not_waiting(c) == pc[c] = "run" \/ (pc[c] = "spin" /\ op[c] # "fault")

\* A CPU handles the interrupt when interrupts are enabled, which includes the
\* window that do_lock opens while it spins if they were enabled before; and it
\* processes its queue while it waits for its own request.
Processes(c) ==
    \/ pc[c] \in {"run", "wait"}
    \/ pc[c] = "spin" /\ op[c] # "fault"

\* Mutant: the request is completed without being carried out.
process_without_invalidation(c) ==
    /\ Processes(c) /\ requests[c] # <<>>
    /\ countdown' = [countdown EXCEPT ![Head(requests[c])] = @ - 1]
    /\ requests' = [requests EXCEPT ![c] = Tail(@)]
    /\ UNCHANGED <<mapped, tlb, pc, op, page, targets, lock>>

\* process_pending: pop_request, invalidate_range, complete.
process_pending(c) ==
    LET r == Head(requests[c]) IN
    /\ Processes(c) /\ requests[c] # <<>>
    /\ tlb' = [tlb EXCEPT ![c] = @ \ {page[r]}]
    /\ countdown' = [countdown EXCEPT ![r] = @ - 1]
    /\ requests' = [requests EXCEPT ![c] = Tail(@)]
    /\ UNCHANGED <<mapped, pc, op, page, targets, lock>>

\* The processor caches the translation of a mapped page, and drops it again.
Translate(c, p) ==
    /\ \/ p \in mapped \ tlb[c] /\ tlb' = [tlb EXCEPT ![c] = @ \union {p}]
       \/ p \in tlb[c] /\ tlb' = [tlb EXCEPT ![c] = @ \ {p}]
    /\ UNCHANGED <<mapped, pc, op, page, targets, countdown, requests, lock>>

\* The range is given back to the allocator after unmap_range returned, and may
\* then be mapped anew.
map_page(p) ==
    /\ p \notin mapped /\ \A c \in CPUs : page[c] # p
    /\ mapped' = mapped \union {p}
    /\ UNCHANGED <<tlb, pc, op, page, targets, countdown, requests, lock>>

Kernel(c) ==
    \/ Acquire(c) \/ Release(c)
    \/ unmap_range(c)
    \/ \E d \in CPUs : post_request(c, d)
    \/ post_done(c) \/ wait_for_completion(c)

Next ==
    \/ \E c \in CPUs :
          \/ Kernel(c) \/ process_pending(c)
          \/ \E o \in Operations, p \in Pages \union {NoPage} : Start(c, o, p)
          \/ \E p \in Pages : Translate(c, p)
    \/ \E p \in Pages : map_page(p)

Spec == Init /\ [][Next]_vars

\* Kernel code keeps running, and a pending interrupt is taken when interrupts are
\* enabled, however briefly.
Fairness ==
    \A c \in CPUs : WF_vars(Kernel(c)) /\ SF_vars(process_pending(c))

FairSpec == Spec /\ Fairness
------------------------------------------------------------------------------
TypeOK ==
    /\ mapped \subseteq Pages
    /\ tlb \in [CPUs -> SUBSET Pages]
    /\ pc \in [CPUs -> {"run", "spin", "unmap", "post", "wait", "unlock"}]
    /\ op \in [CPUs -> AllOperations]
    /\ page \in [CPUs -> Pages \union {NoPage}]
    /\ targets \in [CPUs -> SUBSET CPUs]
    /\ countdown \in [CPUs -> Nat]
    /\ requests \in [CPUs -> Seq(CPUs)]
    /\ lock \in CPUs \union {NoCPU}

Queued(c, d) == \E i \in DOMAIN requests[d] : requests[d][i] = c

\* Who holds a pointer to the request of c.
Holders(c) == {d \in CPUs : Queued(c, d)}

\* Who still can use the translation of an unmapped page has been or will be told:
\* the page is being unmapped by a CPU that has not returned from unmap_range,
\* so its frame is not given back before every TLB has dropped it.
NoStaleTranslation ==
    \A d \in CPUs : \A p \in tlb[d] \ mapped :
        \E c \in CPUs : page[c] = p /\ pc[c] \in {"post", "wait"} /\ (d \in targets[c] \/ Queued(c, d))

\* The countdown is exactly the number of queues that hold the request, so no CPU
\* holds a pointer to a request whose owner has returned.
CountdownExact ==
    \A c \in CPUs :
        /\ countdown[c] = Cardinality(Holders(c))
        /\ countdown[c] > 0 => pc[c] \in {"post", "wait"}

\* push_request never panics with "IPI request queue full": a queue holds every
\* other CPU's request at most once.
QueueNeverFull ==
    \A d \in CPUs :
        /\ Len(requests[d]) <= MaxRequests
        /\ \A i, j \in DOMAIN requests[d] : requests[d][i] = requests[d][j] => i = j
        /\ ~Queued(d, d)

\* A page fault spins with interrupts disabled on m_virtual_region_lock.
FaultSpins(d) == pc[d] = "spin" /\ op[d] = "fault"

\* unmap_range returns unless a page fault spins forever: the CPUs that wait for
\* each other, or for the lock with interrupts enabled, serve each other's requests.
UnmapReturns ==
    (\A d \in CPUs : []<>~FaultSpins(d)) => \A c \in CPUs : pc[c] = "wait" ~> pc[c] # "wait"

\* "Service IPIs/IRQs/whatever while waiting" (SpinLock::do_lock): whoever spins
\* does not keep the owner of the lock from going on.
SpinningServesIPIs == \A c \in CPUs : pc[c] = "wait" ~> pc[c] # "wait"
==============================================================================
