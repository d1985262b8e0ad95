-------------------------------- MODULE Clock --------------------------------
(***************************************************************************)
(* Kernel/Interrupts/Timer.h and Timer.cpp of 32 bit builds: the time since   *)
(* boot is a 64 bit number that the boot processor's tick adds to in two      *)
(* halves, and that others read in two halves; a sequence counter, odd        *)
(* during the update, tells a reader to try again.                           *)
(***************************************************************************)
EXTENDS Integers

CONSTANTS
    Readers,
    Half,           \* the number of values of the lower half: 2^32
    Period,         \* nanoseconds_in_second / current_frequency()
    MaxTicks

VARIABLES
    low, high,                      \* s_nanoseconds_since_boot
    s_time_update_sync_counter,
    tick,                           \* where on_tick() is
    reader,                         \* per reader: its place, captured_update and the halves it read
    since                           \* per reader: the time when it began

clockVars == <<low, high, s_time_update_sync_counter, tick, reader, since>>

Now == high * Half + low

NoRead == [at |-> "idle", captured_update |-> 0, low |-> 0, high |-> 0]

Init ==
    /\ low = 0 /\ high = 0
    /\ s_time_update_sync_counter = 0
    /\ tick = "idle"
    /\ reader = [r \in Readers |-> NoRead]
    /\ since = [r \in Readers |-> 0]

\* on_tick() of the boot processor, under s_lock: the counter, the addition with its carry, the counter.
BeginUpdate ==
    /\ tick = "idle"
    /\ s_time_update_sync_counter < 2 * MaxTicks
    /\ s_time_update_sync_counter' = s_time_update_sync_counter + 1
    /\ tick' = "low"
    /\ UNCHANGED <<low, high, reader, since>>

AddLow ==
    /\ tick = "low"
    /\ low' = (low + Period) % Half
    /\ tick' = IF low + Period >= Half THEN "carry" ELSE "end"
    /\ UNCHANGED <<high, s_time_update_sync_counter, reader, since>>

AddHigh ==
    /\ tick = "carry"
    /\ high' = high + 1
    /\ tick' = "end"
    /\ UNCHANGED <<low, s_time_update_sync_counter, reader, since>>

EndUpdate ==
    /\ tick = "end"
    /\ s_time_update_sync_counter' = s_time_update_sync_counter + 1
    /\ tick' = "idle"
    /\ UNCHANGED <<low, high, reader, since>>

-----------------------------------------------------------------------------
(* nanoseconds_since_boot() *)

Reads(r, state) == reader' = [reader EXCEPT ![r] = state] /\ UNCHANGED <<low, high, s_time_update_sync_counter, tick>>

\* The time when a read begins: the last one that an update has completed.
BeginRead(r) ==
    /\ reader[r].at \in {"idle", "returned"}
    /\ Reads(r, [NoRead EXCEPT !.at = "capture"])
    /\ since' = [since EXCEPT ![r] = (s_time_update_sync_counter \div 2) * Period]

\* Mutant: an odd counter is as good as an even one.
Settled_always(counter) == TRUE

Settled(counter) == counter % 2 = 0

Capture(r) ==
    /\ reader[r].at = "capture"
    /\ Settled(s_time_update_sync_counter)
    /\ Reads(r, [reader[r] EXCEPT !.at = "read", !.captured_update = s_time_update_sync_counter])
    /\ UNCHANGED since

\* The two halves, in the order the compiler chose.
ReadHalves(r) ==
    /\ \/ reader[r].at = "read" /\ Reads(r, [reader[r] EXCEPT !.at = "high", !.low = low])
       \/ reader[r].at = "read" /\ Reads(r, [reader[r] EXCEPT !.at = "low", !.high = high])
       \/ reader[r].at = "high" /\ Reads(r, [reader[r] EXCEPT !.at = "compare", !.high = high])
       \/ reader[r].at = "low" /\ Reads(r, [reader[r] EXCEPT !.at = "compare", !.low = low])
    /\ UNCHANGED since

Compare(r) ==
    /\ reader[r].at = "compare"
    /\ Reads(r, [reader[r] EXCEPT !.at =
                    IF reader[r].captured_update = s_time_update_sync_counter THEN "returned" ELSE "capture"])
    /\ UNCHANGED since

Next ==
    \/ BeginUpdate \/ AddLow \/ AddHigh \/ EndUpdate
    \/ \E r \in Readers : BeginRead(r) \/ Capture(r) \/ ReadHalves(r) \/ Compare(r)

-----------------------------------------------------------------------------
TypeOK ==
    /\ low \in 0 .. Half - 1
    /\ s_time_update_sync_counter \in 0 .. 2 * MaxTicks
    /\ tick \in {"idle", "low", "carry", "end"}
    /\ \A r \in Readers : reader[r].at \in {"idle", "capture", "read", "low", "high", "compare", "returned"}

\* A time that was read is the time of a tick, never halves of two, and lies between the time when the
\* read began and now: a clock that is read twice never goes back.
TimeExact ==
    \A r \in Readers :
        reader[r].at = "returned" =>
            LET time == reader[r].high * Half + reader[r].low
            IN  /\ time % Period = 0
                /\ since[r] <= time
                /\ time <= ((s_time_update_sync_counter + 1) \div 2) * Period
=============================================================================
