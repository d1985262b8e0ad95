----------------------------- MODULE DeferredIRQ -----------------------------
(***************************************************************************)
(* Kernel/Interrupts/DeferredIRQ: interrupt handlers count an invocation and *)
(* wake one kernel thread, which runs the deferred handlers.                 *)
(***************************************************************************)
EXTENDS Integers, FiniteSets

CONSTANTS
    CPUs,       \* where interrupts arrive; each runs one handler at a time
    Handlers,   \* naturals: the thread visits Set<DeferredIRQHandler*> in order
    MaxPending, \* bound on DeferredIRQHandler::m_pending_count
    None

VARIABLES
    pending,    \* DeferredIRQHandler::m_pending_count
    registered, \* DeferredIRQManager::m_handlers
    irq,        \* the handler whose deferred_invoke a CPU is in the middle of
    m_blocker,  \* DeferredIRQManager::m_blocker is not null
    unblocked,  \* the result of irq_blocker is UNBLOCKED
    pc,         \* where do_run_handlers is
    todo,       \* handlers the loop over m_handlers has not passed
    handling    \* the handler handle_deferred_irq is running for

vars == <<pending, registered, irq, m_blocker, unblocked, pc, todo, handling>>

Init ==
    /\ pending = [h \in Handlers |-> 0]
    /\ registered = {}
    /\ irq = [c \in CPUs |-> None]
    /\ m_blocker = FALSE /\ unblocked = FALSE
    /\ pc = "set" /\ todo = {} /\ handling = None

\* m_handlers_modification_lock is held by the thread while it runs handlers.
HandlersLockFree == pc # "run"

register_handler(h) ==
    /\ HandlersLockFree /\ h \notin registered
    /\ registered' = registered \union {h}
    /\ UNCHANGED <<pending, irq, m_blocker, unblocked, pc, todo, handling>>

\* ~DeferredIRQHandler: a driver goes away only when it is quiet.
unregister_handler(h) ==
    /\ HandlersLockFree /\ h \in registered
    /\ pending[h] = 0 /\ \A c \in CPUs : irq[c] # h
    /\ registered' = registered \ {h}
    /\ UNCHANGED <<pending, irq, m_blocker, unblocked, pc, todo, handling>>

\* deferred_invoke counts first ...
deferred_invoke(c, h) ==
    /\ irq[c] = None /\ h \in registered /\ pending[h] < MaxPending
    /\ pending' = [pending EXCEPT ![h] = @ + 1]
    /\ irq' = [irq EXCEPT ![c] = h]
    /\ UNCHANGED <<registered, m_blocker, unblocked, pc, todo, handling>>

\* ... then asks for the thread to be unblocked, under m_blocker_access_lock.
request_invocation(c) ==
    /\ irq[c] # None
    /\ irq' = [irq EXCEPT ![c] = None]
    /\ unblocked' = (unblocked \/ m_blocker)
    /\ pc' = IF m_blocker /\ pc = "blocked" THEN "clear" ELSE pc
    /\ UNCHANGED <<pending, registered, m_blocker, todo, handling>>
------------------------------------------------------------------------------
(* do_run_handlers, one action per step of its loop.                        *)

set_blocker ==
    /\ pc = "set"
    /\ m_blocker' = TRUE /\ unblocked' = FALSE
    /\ pc' = "run" /\ todo' = registered
    /\ UNCHANGED <<pending, registered, irq, handling>>

First(S) == CHOOSE h \in S : \A g \in S : h <= g

\* while (handler->is_pending()) handler->invoke();
invoke ==
    /\ pc = "run" /\ handling = None /\ todo # {}
    /\ LET h == First(todo) IN
       IF pending[h] > 0
       THEN /\ pending' = [pending EXCEPT ![h] = @ - 1]
            /\ handling' = h
            /\ UNCHANGED todo
       ELSE /\ todo' = todo \ {h}
            /\ UNCHANGED <<pending, handling>>
    /\ UNCHANGED <<registered, irq, m_blocker, unblocked, pc>>

\* handle_deferred_irq returns.
handled ==
    /\ handling # None
    /\ handling' = None
    /\ UNCHANGED <<pending, registered, irq, m_blocker, unblocked, pc, todo>>

\* irq_blocker.block(): only a blocker nobody unblocked blocks.
block ==
    /\ pc = "run" /\ handling = None /\ todo = {}
    /\ pc' = IF unblocked THEN "clear" ELSE "blocked"
    /\ UNCHANGED <<pending, registered, irq, m_blocker, unblocked, todo, handling>>

clear_blocker ==
    /\ pc = "clear"
    /\ m_blocker' = FALSE
    /\ pc' = "set"
    /\ UNCHANGED <<pending, registered, irq, unblocked, todo, handling>>

do_run_handlers == set_blocker \/ invoke \/ handled \/ block \/ clear_blocker

Next ==
    \/ \E h \in Handlers : register_handler(h) \/ unregister_handler(h)
    \/ \E c \in CPUs : request_invocation(c) \/ \E h \in Handlers : deferred_invoke(c, h)
    \/ do_run_handlers

Spec == Init /\ [][Next]_vars

\* An interrupt handler runs to its end; the thread is never killed and is
\* scheduled whenever it is ready.
Fairness == WF_vars(do_run_handlers) /\ \A c \in CPUs : WF_vars(request_invocation(c))

FairSpec == Spec /\ Fairness
------------------------------------------------------------------------------
TypeOK ==
    /\ pending \in [Handlers -> Nat]
    /\ registered \subseteq Handlers
    /\ irq \in [CPUs -> Handlers \union {None}]
    /\ m_blocker \in BOOLEAN /\ unblocked \in BOOLEAN
    /\ pc \in {"set", "run", "blocked", "clear"}
    /\ todo \subseteq Handlers
    /\ handling \in Handlers \union {None}

\* The thread sleeps over a pending invocation only while the interrupt that
\* counted it has still to call request_invocation: none is lost, whatever the
\* order of the count, the blocker's publication and the two locks.  While it sleeps
\* its blocker is published and was not unblocked, so that this call wakes it.
NoLostInvocation ==
    pc = "blocked" =>
        /\ m_blocker /\ ~unblocked
        /\ (\E h \in registered : pending[h] > 0) => \E c \in CPUs : irq[c] # None

\* Every pending invocation is served, unless another handler is kept busy
\* forever: the while loop of one handler does not let the others pass.
Served ==
    \A h \in Handlers :
        (\A g \in Handlers : g # h => <>[](pending[g] = 0)) => (pending[h] > 0 ~> handling = h)
==============================================================================
