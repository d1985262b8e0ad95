--------------------------- MODULE ProcessorStart ---------------------------
(***************************************************************************)
(* CPU::start_all_processors(), LAPIC::start_processor(), the trampoline and  *)
(* CPU::ap_entrypoint(): the boot processor starts the others one by one,     *)
(* through three words of low memory that they share, and with delays that    *)
(* it and every new processor measure with the PIT, under the PIT's lock.     *)
(*                                                                         *)
(* How far a processor gets during a delay is open: the delay bounds nothing  *)
(* here, so that a slow processor is found dead, needs a second SIPI, or is   *)
(* alive by then.                                                            *)
(***************************************************************************)
EXTENDS Integers, FiniteSets

CONSTANTS
    Others,             \* the application processors
    BSP,
    Nobody

VARIABLES
    bsp,                \* where start_all_processors() is
    starting,           \* the processor that is being started
    remaining,          \* those still to be started
    ALIVE,              \* the words at 0x500, 0x510 and 0x520
    ACKNOWLEDGED,
    STACK,
    ap,                 \* where each application processor is
    stackOf,            \* the stack that each of them runs on, by the processor it was allocated for
    pitLock,            \* the lock of the timer that is primary at boot
    s_processors,       \* the processors with local data
    online,
    s_alive_counter,
    primary             \* the primary timer

startVars == <<bsp, starting, remaining, ALIVE, ACKNOWLEDGED, STACK, ap, stackOf, pitLock, s_processors, online,
               s_alive_counter, primary>>

\* CPU::initialize(): the boot processor is online, alone.
StartInit ==
    /\ bsp = "create"
    /\ starting = Nobody
    /\ remaining = Others
    /\ ALIVE = FALSE
    /\ ACKNOWLEDGED = FALSE
    /\ STACK = Nobody
    /\ ap = [c \in Others |-> "off"]
    /\ stackOf = [c \in Others |-> Nobody]
    /\ pitLock = Nobody
    /\ s_processors = {BSP}
    /\ online = {BSP}
    /\ s_alive_counter = 1
    /\ primary = "PIT"

-----------------------------------------------------------------------------
(* The boot processor *)

\* The local data of everybody is there before anybody starts.
CreateLocalData ==
    /\ bsp = "create"
    /\ s_processors' = s_processors \union Others
    /\ bsp' = "next"
    /\ UNCHANGED <<starting, remaining, ALIVE, ACKNOWLEDGED, STACK, ap, stackOf, pitLock, online, s_alive_counter, primary>>

\* start_processor() up to the lock of the timer: both flags down, a new stack for this one.
StartProcessor ==
    /\ bsp = "next"
    /\ \E c \in remaining :
           /\ starting' = c
           /\ remaining' = remaining \ {c}
           /\ STACK' = c
    /\ ALIVE' = FALSE
    /\ ACKNOWLEDGED' = FALSE
    /\ bsp' = "lock"
    /\ UNCHANGED <<ap, stackOf, pitLock, s_processors, online, s_alive_counter, primary>>

LockTimer ==
    /\ bsp = "lock"
    /\ pitLock = Nobody
    /\ pitLock' = BSP
    /\ bsp' = "init"
    /\ UNCHANGED <<starting, remaining, ALIVE, ACKNOWLEDGED, STACK, ap, stackOf, s_processors, online, s_alive_counter, primary>>

send_init_to ==
    /\ bsp = "init"
    /\ ap' = [ap EXCEPT ![starting] = "wait-for-SIPI"]
    /\ bsp' = "first SIPI"
    /\ UNCHANGED <<starting, remaining, ALIVE, ACKNOWLEDGED, STACK, stackOf, pitLock, s_processors, online, s_alive_counter, primary>>

\* A processor reacts to one SIPI, to the first or (an old one) only to the second.
send_startup_to ==
    /\ bsp \in {"first SIPI", "second SIPI"}
    /\ \/ ap[starting] = "wait-for-SIPI" /\ ap' = [ap EXCEPT ![starting] = "trampoline"]
       \/ UNCHANGED ap
    /\ bsp' = IF bsp = "first SIPI" THEN "first check" ELSE "second check"
    /\ UNCHANGED <<starting, remaining, ALIVE, ACKNOWLEDGED, STACK, stackOf, pitLock, s_processors, online, s_alive_counter, primary>>

\* The look at ALIVE after a delay; leaving start_processor() frees the timer's lock.
CheckAlive ==
    /\ bsp \in {"first check", "second check"}
    /\ IF ALIVE
       THEN ACKNOWLEDGED' = TRUE /\ pitLock' = Nobody /\ bsp' = "wait"
       ELSE /\ bsp' = IF bsp = "first check" THEN "second SIPI" ELSE "panic"
            /\ UNCHANGED <<ACKNOWLEDGED, pitLock>>
    /\ UNCHANGED <<starting, remaining, ALIVE, STACK, ap, stackOf, s_processors, online, s_alive_counter, primary>>

\* Mutant: the next processor is started without waiting for this one to be online.
Arrived_anyhow == TRUE

Arrived == starting \in online

WaitOnline ==
    /\ bsp = "wait"
    /\ Arrived
    /\ bsp' = IF remaining = {} THEN "make primary" ELSE "next"
    /\ UNCHANGED <<starting, remaining, ALIVE, ACKNOWLEDGED, STACK, ap, stackOf, pitLock, s_processors, online, s_alive_counter, primary>>

MakePrimary ==
    /\ bsp = "make primary"
    /\ primary' = "LAPIC"
    /\ bsp' = "done"
    /\ UNCHANGED <<starting, remaining, ALIVE, ACKNOWLEDGED, STACK, ap, stackOf, pitLock, s_processors, online, s_alive_counter>>

-----------------------------------------------------------------------------
(* An application processor *)

Moves(c, from, to) == ap[c] = from /\ ap' = [ap EXCEPT ![c] = to]

Trampoline(c) ==
    /\ Moves(c, "trampoline", "wait for ack")
    /\ ALIVE' = TRUE
    /\ UNCHANGED <<bsp, starting, remaining, ACKNOWLEDGED, STACK, stackOf, pitLock, s_processors, online, s_alive_counter, primary>>

wait_for_bsp(c) ==
    /\ ACKNOWLEDGED
    /\ Moves(c, "wait for ack", "paging")
    /\ UNCHANGED <<bsp, starting, remaining, ALIVE, ACKNOWLEDGED, STACK, stackOf, pitLock, s_processors, online, s_alive_counter, primary>>

higher_half(c) ==
    /\ Moves(c, "paging", "entrypoint")
    /\ stackOf' = [stackOf EXCEPT ![c] = STACK]
    /\ UNCHANGED <<bsp, starting, remaining, ALIVE, ACKNOWLEDGED, STACK, pitLock, s_processors, online, s_alive_counter, primary>>

\* calibrate_for_this_processor(): the delay of the primary timer, under its lock.
BeginCalibration(c) ==
    /\ Moves(c, "entrypoint", "calibrating")
    /\ pitLock = Nobody
    /\ pitLock' = c
    /\ UNCHANGED <<bsp, starting, remaining, ALIVE, ACKNOWLEDGED, STACK, stackOf, s_processors, online, s_alive_counter, primary>>

\* The timer is unmasked; its ticks are pending, for interrupts are still off.
EndCalibration(c) ==
    /\ Moves(c, "calibrating", "calibrated")
    /\ pitLock' = Nobody
    /\ UNCHANGED <<bsp, starting, remaining, ALIVE, ACKNOWLEDGED, STACK, stackOf, s_processors, online, s_alive_counter, primary>>

\* The idle process, the TSS, then bring_online().
bring_online(c) ==
    /\ Moves(c, "calibrated", "online")
    /\ online' = online \union {c}
    /\ UNCHANGED <<bsp, starting, remaining, ALIVE, ACKNOWLEDGED, STACK, stackOf, pitLock, s_processors, s_alive_counter, primary>>

\* The counter, then interrupts: the ticks call the scheduler once the LAPIC timer is primary.
EnableInterrupts(c) ==
    /\ Moves(c, "online", "idle")
    /\ s_alive_counter' = s_alive_counter + 1
    /\ UNCHANGED <<bsp, starting, remaining, ALIVE, ACKNOWLEDGED, STACK, stackOf, pitLock, s_processors, online, primary>>

on_tick(c) ==
    /\ primary = "LAPIC"
    /\ Moves(c, "idle", "scheduled")
    /\ UNCHANGED <<bsp, starting, remaining, ALIVE, ACKNOWLEDGED, STACK, stackOf, pitLock, s_processors, online, s_alive_counter, primary>>

StartNext ==
    /\ bsp # "panic"
    /\ \/ CreateLocalData \/ StartProcessor \/ LockTimer \/ send_init_to \/ send_startup_to \/ CheckAlive
       \/ WaitOnline \/ MakePrimary
       \/ \E c \in Others : \/ Trampoline(c) \/ wait_for_bsp(c) \/ higher_half(c) \/ BeginCalibration(c)
                            \/ EndCalibration(c) \/ bring_online(c) \/ EnableInterrupts(c) \/ on_tick(c)

StartSpec == StartInit /\ [][StartNext]_startVars

\* Everybody schedules, or the boot processor gave up on one.
Started == bsp = "panic" \/ (bsp = "done" /\ \A c \in Others : ap[c] = "scheduled")

-----------------------------------------------------------------------------
StartTypeOK ==
    /\ starting \in Others \union {Nobody} /\ STACK \in Others \union {Nobody}
    /\ remaining \subseteq Others
    /\ ALIVE \in BOOLEAN /\ ACKNOWLEDGED \in BOOLEAN
    /\ stackOf \in [Others -> Others \union {Nobody}]
    /\ pitLock \in Others \union {BSP, Nobody}
    /\ online \subseteq s_processors /\ s_processors \subseteq Others \union {BSP}
    /\ s_alive_counter \in 1 .. Cardinality(Others) + 1
    /\ primary \in {"PIT", "LAPIC"}

Past(c, places) == ap[c] \in places

\* However slow a processor is and whichever SIPI it heard, it runs on the stack that was allocated for
\* it and for nobody else; only the one being started uses the shared words, and an acknowledgement is
\* never taken by another; a delay is measured by one processor at a time and with the PIT; nobody
\* schedules before everybody is online and counted, except the one that is on its way to count itself.
StartExact ==
    /\ \A c \in Others :
           /\ stackOf[c] \in {Nobody, c}
           /\ Past(c, {"entrypoint", "calibrating", "calibrated", "online", "idle", "scheduled"}) => stackOf[c] = c
           /\ Past(c, {"wait-for-SIPI", "trampoline", "wait for ack", "paging"}) => c = starting
           /\ ap[c] = "calibrating" => pitLock = c /\ primary = "PIT" /\ bsp = "wait"
           /\ ap[c] = "scheduled" => online = Others \union {BSP}
    /\ s_alive_counter = 1 + Cardinality({c \in Others : Past(c, {"idle", "scheduled"})})
    /\ bsp \in {"make primary", "done"} => online = Others \union {BSP}
=============================================================================
