--------------------------------- MODULE Pipe ---------------------------------
(***************************************************************************)
(* Pipes (FileSystem/Pipe.cpp): streams of two sides over one ring buffer,   *)
(* each used by one thread at a time, with block_until_readable/writable.    *)
(* Every operation holds m_state->lock throughout, except that the thread     *)
(* blocks without it.  Calls that return an error at once leave no trace.    *)
(***************************************************************************)
EXTENDS Integers, Sequences, FiniteSets

CONSTANTS
    Streams,
    Bytes,
    capacity

VARIABLES
    side,       \* m_side, or "none" of a stream that does not exist yet
    m_is_closed,
    reader_count, writer_count,
    read_offset, write_offset, size, buffer,
    read_waiters, write_waiters,
    phase,      \* where the stream's thread is in block_until_*
    result,     \* its blocker's m_result
    copied      \* what the last step copied from or to a user's buffer

bufferVars == <<read_offset, write_offset, size, buffer>>
countVars == <<side, m_is_closed, reader_count, writer_count>>
waitVars == <<read_waiters, write_waiters, phase, result>>
vars == <<bufferVars, countVars, waitVars, copied>>

Positions == 0 .. capacity - 1
Min2(a, b) == IF a < b THEN a ELSE b
Nothing == [op |-> "none", data |-> <<>>]

Init ==
    /\ \E x \in Streams, s \in {"READ", "WRITE"} :
          /\ side = [y \in Streams |-> IF y = x THEN s ELSE "none"]
          /\ reader_count = (IF s = "READ" THEN 1 ELSE 0)
          /\ writer_count = (IF s = "WRITE" THEN 1 ELSE 0)
    /\ m_is_closed = [x \in Streams |-> FALSE]
    /\ read_offset = 0 /\ write_offset = 0 /\ size = 0
    /\ buffer \in [Positions -> Bytes]
    /\ read_waiters = <<>> /\ write_waiters = <<>>
    /\ phase = [x \in Streams |-> "idle"]
    /\ result = [x \in Streams |-> "UNDEFINED"]
    /\ copied = Nothing

Open(x, s) == side[x] = s /\ ~m_is_closed[x]
Idle(x) == phase[x] = "idle"
------------------------------------------------------------------------------
\* Mutant: waiters that are not BLOCKED yet are missed.
Unblock_misses_listed(waiters) ==
    /\ phase' = [x \in Streams |-> IF (\E i \in DOMAIN waiters : waiters[i] = x) /\ phase[x] = "blocked"
                                   THEN "woken" ELSE phase[x]]
    /\ UNCHANGED result

\* Every waiter of a list is popped and unblocked.
Unblock(waiters) ==
    LET woken == {waiters[i] : i \in DOMAIN waiters} IN
    /\ result' = [x \in Streams |-> IF x \in woken /\ result[x] = "UNDEFINED"
                                    THEN "UNBLOCKED" ELSE result[x]]
    /\ phase' = [x \in Streams |-> IF x \in woken /\ phase[x] = "blocked"
                                   THEN "woken" ELSE phase[x]]

WakeWriters == Unblock(write_waiters) /\ write_waiters' = <<>> /\ UNCHANGED read_waiters
WakeReaders == Unblock(read_waiters) /\ read_waiters' = <<>> /\ UNCHANGED write_waiters

\* clone: a new stream of either side on the same state.
clone(x, y, s) ==
    /\ side[x] # "none" /\ ~m_is_closed[x] /\ side[y] = "none"
    /\ side' = [side EXCEPT ![y] = s]
    /\ reader_count' = reader_count + (IF s = "READ" THEN 1 ELSE 0)
    /\ writer_count' = writer_count + (IF s = "WRITE" THEN 1 ELSE 0)
    /\ UNCHANGED <<m_is_closed, bufferVars, waitVars>>

\* Mutant: the offset does not wrap around.
advance_straight(offset, n) == offset + n

\* The loop over chunks: a chunk ends at the end of the buffer, where the offset
\* starts over.
advance(offset, n) == (offset + n) % capacity

\* The first n bytes of the stream.
Readable(n) == [i \in 1..n |-> buffer[(read_offset + i - 1) % capacity]]

\* read: up to two chunks, around the end of the buffer.  A copy that faults
\* restores read_offset and size, as if nothing had been read.
read(x, bytes) ==
    LET n == Min2(bytes, size) IN
    /\ Open(x, "READ") /\ Idle(x) /\ size > 0
    /\ read_offset' = advance(read_offset, n)
    /\ size' = size - n
    /\ WakeWriters
    /\ copied' = [op |-> "read", data |-> Readable(n)]
    /\ UNCHANGED <<countVars, write_offset, buffer>>

\* Mutant: what does not fit before the end of the buffer is not copied.
Stored_one_chunk(data, n) ==
    [p \in Positions |->
        IF p - write_offset \in 0 .. n - 1 THEN data[p - write_offset + 1] ELSE buffer[p]]

\* What the buffer holds after the first n of data were copied to write_offset.
Stored(data, n) ==
    [p \in Positions |->
        LET i == (p - write_offset) % capacity IN
        IF i < n THEN data[i + 1] ELSE buffer[p]]

write(x, data) ==
    LET n == Min2(Len(data), capacity - size) IN
    /\ Open(x, "WRITE") /\ Idle(x) /\ size < capacity
    /\ buffer' = Stored(data, n)
    /\ write_offset' = advance(write_offset, n)
    /\ size' = size + n
    /\ WakeReaders
    /\ copied' = [op |-> "write", data |-> SubSeq(data, 1, n)]
    /\ UNCHANGED <<countVars, read_offset>>

\* The copy faults after n bytes: write_offset and size are restored, the bytes
\* already copied stay behind.
write_faults(x, data, n) ==
    /\ Open(x, "WRITE") /\ Idle(x)
    /\ n < Min2(Len(data), capacity - size)
    /\ buffer' = Stored(data, n)
    /\ UNCHANGED <<countVars, waitVars, read_offset, write_offset, size>>

\* close, by whoever owns the stream, its own thread blocked or not.
close(x) ==
    /\ side[x] # "none" /\ ~m_is_closed[x]
    /\ m_is_closed' = [m_is_closed EXCEPT ![x] = TRUE]
    /\ \/ /\ side[x] = "READ"
          /\ reader_count' = reader_count - 1
          /\ IF reader_count' = 0 THEN WakeWriters ELSE UNCHANGED waitVars
          /\ UNCHANGED writer_count
       \/ /\ side[x] = "WRITE"
          /\ writer_count' = writer_count - 1
          /\ IF writer_count' = 0 THEN WakeReaders ELSE UNCHANGED waitVars
          /\ UNCHANGED reader_count
    /\ UNCHANGED <<side, bufferVars>>
------------------------------------------------------------------------------
(* block_until_readable / block_until_writable.                              *)

block_until_readable(x) ==
    /\ Open(x, "READ") /\ Idle(x) /\ size = 0 /\ writer_count # 0
    /\ read_waiters' = Append(read_waiters, x)
    /\ phase' = [phase EXCEPT ![x] = "listed"]
    /\ UNCHANGED <<bufferVars, countVars, write_waiters, result>>

block_until_writable(x) ==
    /\ Open(x, "WRITE") /\ Idle(x) /\ size = capacity /\ reader_count # 0
    /\ write_waiters' = Append(write_waiters, x)
    /\ phase' = [phase EXCEPT ![x] = "listed"]
    /\ UNCHANGED <<bufferVars, countVars, read_waiters, result>>

\* Blocker::block, without the lock.
block(x) ==
    /\ phase[x] = "listed"
    /\ phase' = [phase EXCEPT ![x] = IF result[x] = "UNDEFINED" THEN "blocked" ELSE "woken"]
    /\ UNCHANGED <<bufferVars, countVars, read_waiters, write_waiters, result>>

\* Thread::interrupt: an IOBlocker is interruptable.
interrupt(x) ==
    /\ phase[x] = "blocked"
    /\ result' = [result EXCEPT ![x] = "INTERRUPTED"]
    /\ phase' = [phase EXCEPT ![x] = "woken"]
    /\ UNCHANGED <<bufferVars, countVars, read_waiters, write_waiters>>

\* "if (blocker.is_on_a_list()) blocker.pop_off()", then the blocker is gone.
Without(waiters, x) == SelectSeq(waiters, LAMBDA w : w # x)

block_returns(x) ==
    /\ phase[x] = "woken"
    /\ read_waiters' = Without(read_waiters, x)
    /\ write_waiters' = Without(write_waiters, x)
    /\ phase' = [phase EXCEPT ![x] = "idle"]
    /\ result' = [result EXCEPT ![x] = "UNDEFINED"]
    /\ UNCHANGED <<bufferVars, countVars>>

Data == UNION {[1..n -> Bytes] : n \in 0 .. capacity + 1}

Blocking(x) == block(x) \/ block_returns(x)

Next ==
    \E x \in Streams :
        \/ \E n \in 0 .. capacity + 1 : read(x, n)
        \/ \E data \in Data : write(x, data)
        \/ /\ \/ \E y \in Streams, s \in {"READ", "WRITE"} : clone(x, y, s)
              \/ \E data \in Data, n \in 1 .. capacity : write_faults(x, data, n)
              \/ close(x)
              \/ block_until_readable(x) \/ block_until_writable(x)
              \/ Blocking(x) \/ interrupt(x)
           /\ copied' = Nothing

Spec == Init /\ [][Next]_vars
------------------------------------------------------------------------------
SideOf == {"none", "READ", "WRITE"}

TypeOK ==
    /\ side \in [Streams -> SideOf]
    /\ m_is_closed \in [Streams -> BOOLEAN]
    /\ reader_count \in Nat /\ writer_count \in Nat
    /\ read_offset \in Positions /\ write_offset \in Positions
    /\ size \in 0..capacity
    /\ buffer \in [Positions -> Bytes]
    /\ read_waiters \in Seq(Streams) /\ write_waiters \in Seq(Streams)
    /\ phase \in [Streams -> {"idle", "listed", "blocked", "woken"}]
    /\ result \in [Streams -> {"UNDEFINED", "UNBLOCKED", "INTERRUPTED"}]
    /\ copied.op \in {"none", "read", "write"} /\ copied.data \in Seq(Bytes)

\* The ring buffer is a FIFO stream: reads return what was written, in order and
\* once, whatever the offsets, the wrap-around, the failed copies and the readers.
Abstract == INSTANCE ByteStream WITH
    Capacity <- capacity,
    stream <- Readable(size)

ImplementsByteStream == Abstract!Spec

Waiting(waiters, x) == \E i \in DOMAIN waiters : waiters[i] = x

\* A thread waits to read only while there is nothing to read and somebody can
\* still write, and the other way round: write, read and the last close miss no
\* waiter, also one that is between the check and the block.
NoLostWakeup ==
    \A x \in Streams :
        phase[x] \in {"listed", "blocked"} /\ result[x] = "UNDEFINED" =>
            \/ side[x] = "READ" /\ size = 0 /\ writer_count > 0 /\ Waiting(read_waiters, x)
            \/ side[x] = "WRITE" /\ size = capacity /\ reader_count > 0 /\ Waiting(write_waiters, x)

\* The waiter lists hold blockers on the stacks of threads that are still inside
\* block_until_*, each once: an interrupted thread takes its blocker with it.
WaitersAreAlive ==
    /\ \A x \in Streams : Idle(x) => ~Waiting(read_waiters, x) /\ ~Waiting(write_waiters, x)
    /\ Len(read_waiters) + Len(write_waiters)
          = Cardinality({x \in Streams : Waiting(read_waiters, x) \/ Waiting(write_waiters, x)})
==============================================================================
