------------------------------ MODULE FAT32Path ------------------------------
(***************************************************************************)
(* Walking a path (FAT32::open_file_from_path, create_file, remove_file) and   *)
(* VFS::open, which opens or creates: threads that hold the lock of one         *)
(* directory at a time and count references to open Files.                    *)
(*                                                                         *)
(* A File is identified by the place of the directory entry it was opened       *)
(* through, so a directory d has the identifier of its own entry and one for     *)
(* the ".." entry of every directory in it.                                   *)
(***************************************************************************)
EXTENDS Integers, Sequences, FiniteSets

CONSTANTS
    Threads,
    Objects, Directories,   \* the files and directories that may exist below the root
    Parent,                 \* [Objects -> Directories \cup {"root"}]
    Calls,                  \* the calls made: [fn, path, create]
    MaxLeaked               \* how many references may be forgotten

VARIABLES
    exists,     \* the objects that have a directory entry
    refcount,   \* m_identifier_to_file
    owner,      \* the owner of every File's lock
    call,       \* what every thread is doing
    handle,     \* the File a thread has open
    leaked,     \* history: the references nobody will drop, by identifier
    defect      \* "none", "panic", "lock kept" or "null file"

vars == <<exists, refcount, owner, call, handle, leaked, defect>>

Entry(o) == <<"entry", o>>
DotDot(d) == <<"..", d>>
m_root_directory == Entry("root")
Ids == {m_root_directory} \cup {Entry(o) : o \in Objects} \cup {DotDot(d) : d \in Directories}
None == <<"none">>
Nobody == "nobody"

\* What the File opened through an entry stands for.
Target(id) == IF id[1] = ".." THEN Parent[id[2]] ELSE id[2]
is_directory(id) == Target(id) \in Directories \cup {"root"}

\* The entry called node in a directory, if it has one.
Find(id, node) ==
    {e \in Ids : \/ node = ".." /\ Target(id) # "root" /\ e = DotDot(Target(id))
                 \/ node \in exists /\ Parent[node] = Target(id) /\ e = Entry(node)}

Idle == [fn |-> "none", pc |-> "idle", path |-> <<>>, todo |-> <<>>, cur |-> None, next |-> None,
         create |-> FALSE]

Init ==
    /\ exists \in {e \in SUBSET Objects : \A o \in e : Parent[o] \in e \cup {"root"}}
    /\ refcount = [id \in Ids |-> IF id = m_root_directory THEN 1 ELSE 0]
    /\ owner = [id \in Ids |-> Nobody]
    /\ call = [t \in Threads |-> Idle]
    /\ handle = [t \in Threads |-> None]
    /\ leaked = [id \in Ids |-> 0]
    /\ defect = "none"

----------------------------------------------------------------------------

\* Mutant: the root directory is closed like any other.
Dropped_any(id) == [refcount EXCEPT ![id] = @ - 1]

\* close(): the root directory is never closed; the last reference deletes the File, and
\* its lock with it.
Dropped(id) == [refcount EXCEPT ![id] = IF id = m_root_directory THEN @ ELSE @ - 1]
Dies(id) == id # m_root_directory /\ refcount[id] = 1
close(id) ==
    /\ refcount' = Dropped(id)
    /\ owner' = IF Dies(id) THEN [owner EXCEPT ![id] = Nobody] ELSE owner
unlock_and_close(t, id) ==
    /\ owner[id] = t
    /\ refcount' = Dropped(id)
    /\ owner' = [owner EXCEPT ![id] = Nobody]

\* Mutex::unlock asserts that the caller owns the mutex.
NotOwner(t, id) == owner[id] # t

\* Every entry that ends the walk forgets the File it has reached.
Leak(id) == leaked' = IF id \in {None, m_root_directory} THEN leaked
                      ELSE [leaked EXCEPT ![id] = @ + 1]

begin(t, c) ==
    /\ call[t].pc = "idle" /\ (c.fn # "open" \/ handle[t] = None)
    /\ call' = [call EXCEPT ![t] = [Idle EXCEPT !.fn = c.fn, !.pc = "node", !.path = c.path,
                                    !.todo = c.path, !.cur = m_root_directory, !.create = c.create]]
    /\ UNCHANGED <<exists, refcount, owner, handle, leaked, defect>>

Node(t) == Head(call[t].todo)
IsLast(t) == Len(call[t].todo) = 1
At(t, pc) == call[t].pc = pc
Return(t) == call' = [call EXCEPT ![t] = Idle]
Panic == defect' = "panic" /\ UNCHANGED <<exists, refcount, owner, call, handle, leaked>>

----------------------------------------------------------------------------
(* The head of the loop over the nodes of the path.                         *)

\* A "." is passed over; only create and remove mind that the path ends with it.
skip_dot(t) ==
    /\ At(t, "node") /\ call[t].todo # <<>> /\ Node(t) = "."
    /\ call[t].fn = "open" \/ ~IsLast(t)
    /\ call' = [call EXCEPT ![t].todo = Tail(@)]
    /\ UNCHANGED <<exists, refcount, owner, handle, leaked, defect>>

\* "Tried to remove '.'": the File of the node before it stays referenced.
ends_in_dots(t) ==
    /\ At(t, "node") /\ call[t].fn \in {"create", "remove"} /\ IsLast(t) /\ Node(t) \in {".", ".."}
    /\ IF call[t].fn = "remove" /\ NotOwner(t, call[t].cur) THEN Panic
       ELSE /\ \A id \in Ids : leaked[id] < MaxLeaked
            /\ IF call[t].fn = "remove" THEN unlock_and_close(t, call[t].cur) ELSE close(call[t].cur)
            /\ Leak(call[t].next) /\ Return(t)
            /\ UNCHANGED <<exists, handle, defect>>

\* Leave the directory for the one found in it (create has unlocked it already).
advance(t) ==
    /\ At(t, "node") /\ call[t].todo # <<>> /\ Node(t) # "."
    /\ ~(call[t].fn # "open" /\ IsLast(t) /\ Node(t) = "..")
    /\ IF call[t].next = None
       THEN call' = [call EXCEPT ![t].pc = "lock"] /\ UNCHANGED <<refcount, owner>>
       ELSE /\ IF call[t].fn = "create" THEN close(call[t].cur) ELSE unlock_and_close(t, call[t].cur)
            /\ call' = [call EXCEPT ![t].pc = "lock", ![t].cur = call[t].next, ![t].next = None]
    /\ UNCHANGED <<exists, handle, leaked, defect>>

lock(t) ==
    /\ At(t, "lock") /\ owner[call[t].cur] = Nobody
    /\ owner' = [owner EXCEPT ![call[t].cur] = t]
    /\ call' = [call EXCEPT ![t].pc = "search"]
    /\ UNCHANGED <<exists, refcount, handle, leaked, defect>>

----------------------------------------------------------------------------
(* The search of the locked directory.                                      *)

\* IS_FILE: create_file closes the File and keeps its lock.
not_a_directory(t) ==
    /\ At(t, "search") /\ ~is_directory(call[t].cur)
    /\ IF call[t].fn = "create"
       THEN /\ close(call[t].cur)
            /\ defect' = IF Dies(call[t].cur) THEN defect ELSE "lock kept"
       ELSE unlock_and_close(t, call[t].cur) /\ UNCHANGED defect
    /\ Return(t) /\ UNCHANGED <<exists, handle, leaked>>

Entries(t) == Find(call[t].cur, Node(t))
Searches(t) == At(t, "search") /\ is_directory(call[t].cur)

\* Mutant: a File that is open already is not counted again.
open_uncounted(t) ==
    /\ Searches(t) /\ (call[t].fn = "open" \/ ~IsLast(t))
    /\ \E e \in Entries(t) :
          /\ refcount' = [refcount EXCEPT ![e] = 1]
          /\ call' = [call EXCEPT ![t].pc = "node", ![t].todo = Tail(@), ![t].next = e]
    /\ owner' = IF call[t].fn = "create" THEN [owner EXCEPT ![call[t].cur] = Nobody] ELSE owner
    /\ UNCHANGED <<exists, handle, leaked, defect>>

open_or_incref(t) ==
    /\ Searches(t) /\ (call[t].fn = "open" \/ ~IsLast(t))
    /\ \E e \in Entries(t) :
          /\ refcount' = [refcount EXCEPT ![e] = @ + 1]
          /\ call' = [call EXCEPT ![t].pc = "node", ![t].todo = Tail(@), ![t].next = e]
    /\ owner' = IF call[t].fn = "create" THEN [owner EXCEPT ![call[t].cur] = Nobody] ELSE owner
    /\ UNCHANGED <<exists, handle, leaked, defect>>

\* VFS::open goes on with create() when there is no such file, and with open() again when
\* somebody else has created it.
Restarted(t, fn) ==
    [call EXCEPT ![t] = [Idle EXCEPT !.fn = fn, !.pc = "node", !.path = call[t].path,
                         !.todo = call[t].path, !.cur = m_root_directory, !.create = TRUE]]

no_such_file(t) ==
    /\ Searches(t) /\ Entries(t) = {}
    /\ ~(call[t].fn = "create" /\ IsLast(t))
    /\ unlock_and_close(t, call[t].cur)
    /\ call' = IF call[t].fn = "open" /\ call[t].create THEN Restarted(t, "create")
               ELSE [call EXCEPT ![t] = Idle]
    /\ UNCHANGED <<exists, handle, leaked, defect>>

\* create() returns a code and no File: VFS::open makes its stream over a null one.
create_entry(t) ==
    /\ Searches(t) /\ call[t].fn = "create" /\ IsLast(t)
    /\ unlock_and_close(t, call[t].cur)
    /\ LET o == Node(t)
           possible == o \in Objects /\ Parent[o] = Target(call[t].cur)
       IN  IF Entries(t) # {}
           THEN /\ call' = IF call[t].create THEN Restarted(t, "open") ELSE [call EXCEPT ![t] = Idle]
                /\ UNCHANGED <<exists, defect>>                       \* FILE_ALREADY_EXISTS
           ELSE /\ exists' = IF possible THEN exists \cup {o} ELSE exists
                /\ defect' = IF possible /\ call[t].create THEN "null file" ELSE defect
                /\ Return(t)
    /\ UNCHANGED <<handle, leaked>>

HasEntries(id) == \E o \in exists : Parent[o] = Target(id)

remove_entry(t) ==
    /\ Searches(t) /\ call[t].fn = "remove" /\ IsLast(t)
    /\ \E e \in Entries(t) :
          exists' = IF refcount[e] > 0 \/ HasEntries(e) THEN exists      \* FILE_IS_BUSY
                    ELSE exists \ {Target(e)}
    /\ unlock_and_close(t, call[t].cur)
    /\ Return(t) /\ UNCHANGED <<handle, leaked, defect>>

----------------------------------------------------------------------------

\* The path is walked: a path of dots never locked the directory it unlocks.
finish(t) ==
    /\ At(t, "node") /\ call[t].todo = <<>>
    /\ IF NotOwner(t, call[t].cur) THEN Panic
       ELSE /\ unlock_and_close(t, call[t].cur)
            /\ call' = [call EXCEPT ![t].pc = "found", ![t].cur = None]
            /\ UNCHANGED <<exists, handle, leaked, defect>>

\* OnlyIf::FILE.
check_constraint(t) ==
    /\ At(t, "found")
    /\ IF is_directory(call[t].next)
       THEN close(call[t].next) /\ UNCHANGED handle                   \* IS_DIRECTORY
       ELSE handle' = [handle EXCEPT ![t] = call[t].next] /\ UNCHANGED <<refcount, owner>>
    /\ Return(t) /\ UNCHANGED <<exists, leaked, defect>>

\* FileIterator::close.
close_handle(t) ==
    /\ At(t, "idle") /\ handle[t] # None
    /\ close(handle[t])
    /\ handle' = [handle EXCEPT ![t] = None]
    /\ UNCHANGED <<exists, call, leaked, defect>>

Step(t) ==
    \/ \E c \in Calls : begin(t, c)
    \/ skip_dot(t) \/ ends_in_dots(t) \/ advance(t) \/ lock(t)
    \/ not_a_directory(t) \/ open_or_incref(t) \/ no_such_file(t) \/ create_entry(t)
    \/ remove_entry(t) \/ finish(t) \/ check_constraint(t) \/ close_handle(t)

Next == defect = "none" /\ \E t \in Threads : Step(t)

Spec == Init /\ [][Next]_vars

----------------------------------------------------------------------------
(* Properties.                                                              *)

\* The types of the variables.
TypeOK ==
    /\ exists \subseteq Objects /\ refcount \in [Ids -> Nat] /\ leaked \in [Ids -> Nat]
    /\ owner \in [Ids -> Threads \cup {Nobody}]
    /\ handle \in [Threads -> Ids \cup {None}]
    /\ \A t \in Threads : /\ call[t].pc \in {"idle", "node", "lock", "search", "found"}
                          /\ {call[t].cur, call[t].next} \subseteq Ids \cup {None}
    /\ defect \in {"none", "panic", "lock kept", "null file"}

References(id) ==
    Cardinality({t \in Threads : call[t].cur = id}) + Cardinality({t \in Threads : call[t].next = id})
        + Cardinality({t \in Threads : handle[t] = id})

\* The count of every File but the root's is the number of walks and streams that refer to
\* it, and of the references that were forgotten: no File is deleted while it is used.
ReferencesExact ==
    \A id \in Ids \ {m_root_directory} : refcount[id] = References(id) + leaked[id]

\* Walks never deadlock: a thread that waits for the lock of a directory holds none, and a
\* thread that has returned holds none.
WaitsEmptyHanded ==
    defect = "none" =>
        \A t \in Threads : call[t].pc \in {"lock", "found", "idle"} => \A id \in Ids : owner[id] # t

\* What is open exists: an entry is not removed while somebody has its File, and the
\* directories it lies in stay too.
OpenExists ==
    \A o \in Objects : refcount[Entry(o)] > 0 => o \in exists /\ Parent[o] \in exists \cup {"root"}

\* "Used to uniquely identify a file within the volume": nothing has two open Files.
OneFileEach ==
    \A i, j \in Ids : refcount[i] > 0 /\ refcount[j] > 0 /\ Target(i) = Target(j) => i = j

\* VFS::open with IOMode::CREATE ends with a file.
CreateOpens == defect # "null file"
==============================================================================
