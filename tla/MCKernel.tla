------------------------------- MODULE MCKernel -------------------------------
(***************************************************************************)
(* The scheduler, the start of the processors, the locks, the clock and the   *)
(* task loader, and the library they are built with, checked in one run.  A   *)
(* behaviour exercises one of them.  The scheduler and the start have variables *)
(* of their own; the others share v1 to v11, of which those that a component   *)
(* does not use are "unused".                                                 *)
(***************************************************************************)
EXTENDS Scheduler, ProcessorStart, TLC

CONSTANTS p1, c1, c2, c3, NoOne

VARIABLES exercised, v1, v2, v3, v4, v5, v6, v7, v8, v9, v10, v11

others == <<v1, v2, v3, v4, v5, v6, v7, v8, v9, v10, v11>>
MCVars == <<vars, startVars, others, exercised>>

\* Both threads belong to p1, which was created with thread 1.
TwoThreads == 1..2
OwnerTwo == [t \in 1..2 |-> p1]
MainOne == [p \in {p1} |-> 1]

CPUSymmetry == Permutations(CPUs)

MCKinds == {"SpinLock", "InterruptSafeSpinLock", "RecursiveInterruptSafeSpinLock",
            "SharedInterruptSafeSpinLock", "RecursiveSpinLock", "SharedSpinLock"}

\* Executables: missing, not ELF, empty, with two segments, with a truncated header, not aligned.
Header(type, at, mem, file) ==
    [type |-> type, virtual_address |-> at, bytes_in_memory |-> mem, bytes_in_file |-> file]
Executable(opens, header, segments) == [opens |-> opens, header |-> header, segments |-> segments]
MCFiles ==
    {Executable(FALSE, TRUE, <<>>), Executable(TRUE, FALSE, <<>>), Executable(TRUE, TRUE, <<>>),
     Executable(TRUE, TRUE, <<Header("LOAD", 0, 3, 2), Header("OTHER", 0, 0, 0), Header("LOAD", 4, 8, 8)>>),
     Executable(TRUE, TRUE, <<Header("LOAD", 1, 2, 2), Header("SHORT", 0, 0, 0)>>),
     Executable(TRUE, TRUE, <<Header("LOAD", 2, 4, 4)>>)}
MCTexts == {[text |-> "a", size |-> 1], [text |-> "b", size |-> 15], [text |-> "c", size |-> 0]}

TheList == INSTANCE List WITH
    Lists <- {"l1", "l2"}, ListNodes <- {"n1", "n2", "n3"},
    next <- v1, previous <- v2, m_size <- v3, m_my_list <- v4, contents <- v5
Tree == INSTANCE RedBlackTree WITH
    Keys <- 1..8, Copies <- 3, DuplicateKeys <- {1, 2}, tree <- v1, allow_duplicates <- v2, freedEnd <- v3
Log == INSTANCE LogRing WITH
    Capacities <- 1..3, CharactersPerRow <- 2, Characters <- {"a", "b"}, MaxLog <- 8,
    RowCapacity <- v1, m_log_records <- v2, m_earliest_record <- v3, m_current_record <- v4,
    m_current_record_untouched <- v5, m_buffer_full <- v6, text <- v7
Array == INSTANCE DynamicArray WITH
    Arrays <- {c1, c2}, Values <- {"v"}, Default <- "default", Raw <- "raw", MaxSize <- 4,
    array <- v1, meant <- v2, miscopied <- v3
Str == INSTANCE KernelString WITH
    Strings <- {c1, c2}, Views <- {<<" ", "a", " ">>}, Space <- " ", SmallCapacity <- 2, MaxLength <- 5,
    string <- v1, meant <- v2
Locks == INSTANCE Lock WITH
    LockCPUs <- {c1, c2}, Unlocked <- NoOne, Kinds <- MCKinds, MaxFrames <- 3, max_acquire_attempts <- 3,
    kind <- v1, wereEnabled <- v2, m_lock <- v3, m_depth <- v4, readers <- v5, m_acquire_attempts <- v6,
    frames <- v7, interrupts <- v8, deadlocked <- v9
Loader == INSTANCE TaskLoader WITH
    Files <- MCFiles, Texts <- MCTexts, MaxTexts <- 2, PageSize <- 4, Word <- 4,
    request <- v1, starter <- v2, m_should_block <- v3, answer <- v4, loader <- v5, current_offset <- v6,
    regions <- v7, streams <- v8, invulnerable <- v9, stack <- v10, touchedDead <- v11
Time == INSTANCE Clock WITH
    Readers <- {c3}, Half <- 4, Period <- 3, MaxTicks <- 5,
    low <- v1, high <- v2, s_time_update_sync_counter <- v3, tick <- v4, reader <- v5, since <- v6

UnusedFrom(n) ==
    /\ n <= 1 => v1 = "unused" /\ v2 = "unused"
    /\ n <= 3 => v3 = "unused"
    /\ n <= 4 => v4 = "unused" /\ v5 = "unused"
    /\ n <= 6 => v6 = "unused"
    /\ n <= 7 => v7 = "unused"
    /\ n <= 8 => v8 = "unused" /\ v9 = "unused"
    /\ n <= 10 => v10 = "unused" /\ v11 = "unused"

MCInit ==
    /\ Init /\ StartInit
    /\ \/ exercised \in {"scheduler", "start"} /\ UnusedFrom(1)
       \/ exercised = "list" /\ TheList!Init /\ UnusedFrom(6)
       \/ exercised = "tree" /\ Tree!Init /\ UnusedFrom(4)
       \/ exercised = "log" /\ Log!Init /\ UnusedFrom(8)
       \/ exercised = "array" /\ Array!Init /\ UnusedFrom(4)
       \/ exercised = "string" /\ Str!Init /\ UnusedFrom(3)
       \/ exercised = "lock" /\ Locks!Init /\ UnusedFrom(10)
       \/ exercised = "loader" /\ Loader!Init
       \/ exercised = "clock" /\ Time!Init /\ UnusedFrom(7)

\* A component whose behaviour may end, and has.
Rests ==
    CASE exercised = "tree" -> v3
      [] exercised = "log" -> Len(v7) = 8
      [] exercised = "array" -> v3
      [] exercised = "lock" -> v9
      [] exercised = "loader" -> v2 = "returned" /\ v5 \in {"userspace", "exited"}
      [] exercised = "start" -> Started
      [] OTHER -> FALSE

UnchangedFrom(n) ==
    /\ n <= 1 => UNCHANGED <<v1, v2>>
    /\ n <= 3 => UNCHANGED v3
    /\ n <= 4 => UNCHANGED <<v4, v5>>
    /\ n <= 6 => UNCHANGED v6
    /\ n <= 7 => UNCHANGED v7
    /\ n <= 8 => UNCHANGED <<v8, v9>>
    /\ n <= 10 => UNCHANGED <<v10, v11>>

MCNext ==
    /\ UNCHANGED exercised
    /\ \/ exercised = "scheduler" /\ Next /\ UNCHANGED <<startVars, others>>
       \/ exercised = "start" /\ StartNext /\ UNCHANGED <<vars, others>>
       \/ /\ UNCHANGED <<vars, startVars>>
          /\ \/ exercised = "list" /\ TheList!Next /\ UnchangedFrom(6)
             \/ exercised = "tree" /\ Tree!Next /\ UnchangedFrom(4)
             \/ exercised = "log" /\ Log!Next /\ UnchangedFrom(8)
             \/ exercised = "array" /\ Array!Next /\ UnchangedFrom(4)
             \/ exercised = "string" /\ Str!Next /\ UnchangedFrom(3)
             \/ exercised = "lock" /\ Locks!Next /\ UnchangedFrom(10)
             \/ exercised = "loader" /\ Loader!Next
             \/ exercised = "clock" /\ Time!Next /\ UnchangedFrom(7)
             \/ Rests /\ UNCHANGED others

MCSpec == MCInit /\ [][MCNext]_MCVars

\* The type invariants of the ten.
TypesOK ==
    CASE exercised = "scheduler" -> TypeOK
      [] exercised = "list" -> TheList!TypeOK
      [] exercised = "tree" -> Tree!TypeOK
      [] exercised = "log" -> Log!TypeOK
      [] exercised = "array" -> Array!TypeOK
      [] exercised = "string" -> Str!TypeOK
      [] exercised = "lock" -> Locks!TypeOK
      [] exercised = "loader" -> Loader!TypeOK
      [] exercised = "start" -> StartTypeOK
      [] exercised = "clock" -> Time!TypeOK

\* Lists and trees, arrays and strings hold what was put into them, in order, after any sequence
\* of calls and every growth of their buffers, with the links, colours and terminators right; the
\* searches of a tree find the right node; the log ring has the last rows of what was logged.
ContainersExact ==
    CASE exercised = "list" -> TheList!ListsExact
      [] exercised = "tree" -> Tree!Balanced /\ Tree!SearchesExact /\ Tree!SetLastIsLast
      [] exercised = "array" -> Array!ArraysExact
      [] exercised = "string" -> Str!StringsExact
      [] exercised = "log" -> Log!LogExact
      [] OTHER -> TRUE

\* Locks of every kind exclude, and restore interrupts, however their calls nest and interrupt
\* each other (Lock!LocksExact); under the sequence counter the 64-bit clock is read whole on a
\* 32-bit processor and never goes back (Clock!TimeExact).
LocksExact ==
    /\ exercised = "lock" => Locks!LocksExact
    /\ exercised = "clock" => Time!TimeExact

\* load_from_file and do_load exchange their request while it lives, and the program starts with
\* its arguments, streams and segments in place, or not at all (TaskLoader!LoadsExact).
LoadsExact == exercised = "loader" => Loader!LoadsExact
==============================================================================
