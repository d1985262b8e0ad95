-------------------------------- MODULE Lock --------------------------------
(***************************************************************************)
(* Kernel/Common/Lock.h: the spin locks. One lock of a kind is taken by the   *)
(* code of every CPU and, for the kinds made for that, by interrupt handlers, *)
(* which enter through interrupt gates (interrupts off) and run wherever the  *)
(* CPU has interrupts on: before the lock, after it, or in the window that    *)
(* do_lock() opens between two attempts.                                     *)
(*                                                                         *)
(* A CPU's frames are its calls of lock(), the innermost last.               *)
(***************************************************************************)
EXTENDS Integers, Sequences, FiniteSets, SequencesExt

CONSTANTS
    LockCPUs,
    Unlocked,           \* the value of a free lock
    Kinds,              \* the kinds of lock that are tried
    MaxFrames,          \* bound on the nesting of calls on a CPU
    max_acquire_attempts

VARIABLES
    kind,
    wereEnabled,        \* whether the code of each CPU runs with interrupts on
    m_lock,
    m_depth,            \* of a recursive lock
    readers,            \* the number of shared holders in m_lock of a shared lock
    m_acquire_attempts,
    frames,
    interrupts,         \* per CPU, whether they are enabled
    deadlocked          \* did_deadlock() panicked

lockVars == <<kind, wereEnabled, m_lock, m_depth, readers, m_acquire_attempts, frames, interrupts, deadlocked>>

InterruptSafe == kind \in {"InterruptSafeSpinLock", "RecursiveInterruptSafeSpinLock", "SharedInterruptSafeSpinLock"}
Recursive == kind \in {"RecursiveSpinLock", "RecursiveInterruptSafeSpinLock"}
Shared == kind \in {"SharedSpinLock", "SharedInterruptSafeSpinLock"}

Init ==
    /\ kind \in Kinds
    /\ wereEnabled \in [LockCPUs -> BOOLEAN]
    /\ m_lock = Unlocked
    /\ m_depth = 0
    /\ readers = 0
    /\ m_acquire_attempts = 0
    /\ frames = [c \in LockCPUs |-> << >>]
    /\ interrupts = wereEnabled
    /\ deadlocked = FALSE

Frame(mode, handler, saved) == [mode |-> mode, handler |-> handler, interrupt_state |-> saved, at |-> "try"]

Top(c) == Last(frames[c])
Busy(c) == frames[c] # << >>
At(c, place) == Busy(c) /\ Top(c).at = place
Goes(c, place) == frames' = [frames EXCEPT ![c][Len(frames[c])].at = place]
Enter(c, frame) == frames' = [frames EXCEPT ![c] = Append(@, frame)]

Modes == IF Shared THEN {"exclusive", "shared"} ELSE IF Recursive THEN {"exclusive"} ELSE {"exclusive", "attempt"}

-----------------------------------------------------------------------------
\* lock(interrupt_state): the state is read and interrupts go off before the first attempt.
Disabled(c) == IF InterruptSafe THEN [interrupts EXCEPT ![c] = FALSE] ELSE interrupts

\* The code of the CPU locks, again if the lock is recursive and it has it already.
lock(c) ==
    /\ Len(frames[c]) < MaxFrames
    /\ ~Busy(c) \/ (Recursive /\ At(c, "held"))
    /\ \E mode \in Modes : Enter(c, Frame(mode, FALSE, interrupts[c]))
    /\ interrupts' = Disabled(c)
    /\ UNCHANGED <<kind, wereEnabled, m_lock, m_depth, readers, m_acquire_attempts, deadlocked>>

\* An interrupt whose handler takes the same lock: it arrives with interrupts off.
Interrupt(c) ==
    /\ InterruptSafe
    /\ interrupts[c]
    /\ Len(frames[c]) < MaxFrames
    /\ \E mode \in Modes : Enter(c, Frame(mode, TRUE, FALSE))
    /\ interrupts' = [interrupts EXCEPT ![c] = FALSE]
    /\ UNCHANGED <<kind, wereEnabled, m_lock, m_depth, readers, m_acquire_attempts, deadlocked>>

\* compare_and_exchange() from unlocked. The word of a shared lock is 1 both for a writer and for one
\* reader, and do_shared_lock() gives up its guess when it reads a 1: only a free lock lets anybody in.
Free == m_lock = Unlocked /\ readers = 0

Acquire(c) ==
    /\ At(c, "try")
    /\ Free
    /\ IF Top(c).mode = "shared"
       THEN readers' = 1 /\ UNCHANGED m_lock /\ Goes(c, "held")
       ELSE m_lock' = c /\ UNCHANGED readers /\ Goes(c, "acquired")
    /\ UNCHANGED <<kind, wereEnabled, m_depth, m_acquire_attempts, interrupts, deadlocked>>

did_acquire_lock(c) ==
    /\ At(c, "acquired")
    /\ Goes(c, "held")
    /\ m_acquire_attempts' = 0
    /\ m_depth' = IF Recursive THEN m_depth + 1 ELSE m_depth
    /\ UNCHANGED <<kind, wereEnabled, m_lock, readers, interrupts, deadlocked>>

\* "we already own the lock".
Reenter(c) ==
    /\ At(c, "try")
    /\ Recursive /\ m_lock = c
    /\ m_depth' = m_depth + 1
    /\ Goes(c, "held")
    /\ UNCHANGED <<kind, wereEnabled, m_lock, readers, m_acquire_attempts, interrupts, deadlocked>>

\* Mutant: a waiter opens the window although its caller had interrupts off.
service_interrupts_always(c) == InterruptSafe

service_interrupts(c) ==
    CASE kind \in {"InterruptSafeSpinLock", "RecursiveInterruptSafeSpinLock"} -> Top(c).interrupt_state
      [] kind = "SharedSpinLock" -> TRUE
      [] OTHER -> FALSE

\* A failed attempt. The counter belongs to the lock, and only an exclusive acquisition resets it.
did_fail_to_acquire(c) ==
    /\ At(c, "try") /\ Top(c).mode # "attempt"
    /\ ~Free /\ ~(Recursive /\ m_lock = c)
    /\ m_acquire_attempts' = m_acquire_attempts + 1
    /\ deadlocked' = (m_acquire_attempts' >= max_acquire_attempts)
    /\ IF service_interrupts(c)
       THEN interrupts' = [interrupts EXCEPT ![c] = TRUE] /\ Goes(c, "window")
       ELSE UNCHANGED <<interrupts, frames>>
    /\ UNCHANGED <<kind, wereEnabled, m_lock, m_depth, readers>>

CloseWindow(c) ==
    /\ At(c, "window")
    /\ interrupts' = [interrupts EXCEPT ![c] = FALSE]
    /\ Goes(c, "try")
    /\ UNCHANGED <<kind, wereEnabled, m_lock, m_depth, readers, m_acquire_attempts, deadlocked>>

\* try_lock() that finds the lock taken.
GiveUp(c) ==
    /\ At(c, "try") /\ Top(c).mode = "attempt"
    /\ ~Free
    /\ Goes(c, "unlocked")
    /\ UNCHANGED <<kind, wereEnabled, m_lock, m_depth, readers, m_acquire_attempts, interrupts, deadlocked>>

\* Mutant: the outer unlock of a recursive lock is the inner one.
Outermost_any == TRUE

Outermost == m_depth = 1

unlock(c) ==
    /\ At(c, "held")
    /\ CASE Top(c).mode = "shared" -> readers' = readers - 1 /\ UNCHANGED <<m_lock, m_depth>>
         [] Recursive -> /\ m_depth' = m_depth - 1
                         /\ m_lock' = IF Outermost THEN Unlocked ELSE m_lock
                         /\ UNCHANGED readers
         [] OTHER -> m_lock' = Unlocked /\ UNCHANGED <<m_depth, readers>>
    /\ Goes(c, "unlocked")
    /\ UNCHANGED <<kind, wereEnabled, m_acquire_attempts, interrupts, deadlocked>>

\* The end of unlock(interrupt_state) and of a failed try_lock(), and the return of a handler.
Restore(c) ==
    /\ At(c, "unlocked")
    /\ interrupts' = [interrupts EXCEPT ![c] =
                         \/ @
                         \/ InterruptSafe /\ Top(c).interrupt_state
                         \/ Top(c).handler]
    /\ frames' = [frames EXCEPT ![c] = Front(@)]
    /\ UNCHANGED <<kind, wereEnabled, m_lock, m_depth, readers, m_acquire_attempts, deadlocked>>

Next ==
    /\ ~deadlocked
    /\ \E c \in LockCPUs : \/ lock(c) \/ Interrupt(c) \/ Acquire(c) \/ did_acquire_lock(c) \/ Reenter(c)
                           \/ did_fail_to_acquire(c) \/ CloseWindow(c) \/ GiveUp(c) \/ unlock(c) \/ Restore(c)

-----------------------------------------------------------------------------
TypeOK ==
    /\ m_lock \in LockCPUs \union {Unlocked}
    /\ m_depth \in 0 .. MaxFrames
    /\ readers \in 0 .. Cardinality(LockCPUs)
    /\ m_acquire_attempts \in 0 .. max_acquire_attempts
    /\ interrupts \in [LockCPUs -> BOOLEAN]
    /\ \A c \in LockCPUs : Len(frames[c]) <= MaxFrames

Holding(c) == {i \in DOMAIN frames[c] : frames[c][i].at = "held"}
Holders == {c \in LockCPUs : Holding(c) # {}}

\* Calls of any kind of lock, nested and interrupted in any order on any CPU: never two CPUs inside;
\* no call waits for a lock that its own CPU has and that waits for it to return; the depth of a
\* recursive lock is the number of calls that are inside; the code whose interrupts were off is never
\* interrupted by a call it makes; and when the last call returned, interrupts are as they were.
LocksExact ==
    /\ Cardinality(Holders) <= 1
    /\ \A c \in LockCPUs : \A i \in Holding(c) :
           \A j \in i + 1 .. Len(frames[c]) : Recursive /\ frames[c][j].at \in {"try", "held", "unlocked"}
    /\ Recursive => m_depth = Cardinality(UNION {{c} \X Holding(c) : c \in LockCPUs})
    /\ InterruptSafe => \A c \in LockCPUs :
                            /\ \A i \in DOMAIN frames[c] : frames[c][i].handler => wereEnabled[c]
                            /\ Busy(c) \/ interrupts[c] = wereEnabled[c]
                            /\ Holding(c) # {} => ~interrupts[c]
=============================================================================
