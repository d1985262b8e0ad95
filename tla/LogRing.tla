------------------------------- MODULE LogRing -------------------------------
(***************************************************************************)
(* Kernel/Common/LogRing.h: the last rows of the kernel's log, kept in a      *)
(* fixed array that the memory sink writes and that a reader walks from the   *)
(* earliest row to the end.                                                  *)
(*                                                                         *)
(* write() handles its message a character at a time and the memory sink's    *)
(* lock keeps readers out of a message; a message of one character is an     *)
(* action, so that every cut of the text into messages is covered.           *)
(***************************************************************************)
EXTENDS Integers, Sequences, SequencesExt

CONSTANTS
    Capacities,         \* the values of RowCapacity that are tried
    CharactersPerRow,
    Characters,
    MaxLog              \* characters written

NewLine == "\n"

VARIABLES
    RowCapacity,
    m_log_records,
    m_earliest_record,
    m_current_record,
    m_current_record_untouched,
    m_buffer_full,
    text                \* everything written so far

ringVars == <<RowCapacity, m_log_records, m_earliest_record, m_current_record, m_current_record_untouched,
              m_buffer_full, text>>

Init ==
    /\ RowCapacity \in Capacities
    /\ m_log_records = [r \in 0 .. RowCapacity - 1 |-> << >>]
    /\ m_earliest_record = 0
    /\ m_current_record = 0
    /\ m_current_record_untouched = TRUE
    /\ m_buffer_full = FALSE
    /\ text = << >>

\* Mutant: only the row that was in use is ever the earliest one.
advance_earliest_never(full, current) == m_earliest_record

\* The earliest row once row `current` is about to be overwritten.
advance_earliest_record_if_needed(full, current) ==
    IF full /\ current = m_earliest_record THEN (m_earliest_record + 1) % RowCapacity ELSE m_earliest_record

Store(c, current, untouched, full) ==
    /\ m_earliest_record' = IF untouched THEN advance_earliest_record_if_needed(full, current) ELSE m_earliest_record
    /\ m_log_records' = [m_log_records EXCEPT ![current] = IF untouched THEN <<c>> ELSE Append(@, c)]
    /\ m_current_record' = current
    /\ m_current_record_untouched' = FALSE
    /\ m_buffer_full' = full

RowIsOver(c) ==
    \/ ~m_current_record_untouched /\ Len(m_log_records[m_current_record]) = CharactersPerRow
    \/ c = NewLine

next_record == (m_current_record + 1) % RowCapacity

write(c) ==
    /\ Len(text) < MaxLog
    /\ text' = Append(text, c)
    /\ UNCHANGED RowCapacity
    /\ IF ~RowIsOver(c)
       THEN Store(c, m_current_record, m_current_record_untouched, m_buffer_full)
       ELSE IF m_current_record_untouched
       THEN UNCHANGED <<m_log_records, m_earliest_record, m_current_record, m_current_record_untouched, m_buffer_full>>
       ELSE IF c = NewLine
       THEN /\ m_current_record' = next_record
            /\ m_current_record_untouched' = TRUE
            /\ m_buffer_full' = (m_buffer_full \/ next_record = 0)
            /\ UNCHANGED <<m_log_records, m_earliest_record>>
       ELSE Store(c, next_record, TRUE, m_buffer_full \/ next_record = 0)

Next == \E c \in Characters \union {NewLine} : write(c)

-----------------------------------------------------------------------------
(* Reading: a range-for from begin() to end(). *)

begin ==
    [m_read_offset |-> m_earliest_record,
     should_meet_ourselves |-> \/ m_buffer_full
                               \/ ~m_current_record_untouched /\ m_current_record + 1 = RowCapacity]

end ==
    IF m_buffer_full THEN m_earliest_record
    ELSE (m_current_record + (IF m_current_record_untouched THEN 0 ELSE 1)) % RowCapacity

\* Iterator::operator!= lets the walk pass its end once if it should meet itself there.
RowsRead ==
    LET distance == (end - begin.m_read_offset + RowCapacity) % RowCapacity
        count == IF distance = 0 /\ begin.should_meet_ourselves THEN RowCapacity ELSE distance
    IN  [i \in 1 .. count |-> m_log_records[(begin.m_read_offset + i - 1) % RowCapacity]]

-----------------------------------------------------------------------------
\* The rows of a text: it breaks at new lines and after CharactersPerRow characters; no row is empty.
RowsOf(written) ==
    LET Put(rows, c) ==
            IF c = NewLine THEN IF Last(rows) = << >> THEN rows ELSE Append(rows, << >>)
            ELSE IF Len(Last(rows)) = CharactersPerRow THEN Append(rows, <<c>>)
            ELSE Append(Front(rows), Append(Last(rows), c))
        all == FoldLeft(Put, << << >> >>, written)
    IN  IF Last(all) = << >> THEN Front(all) ELSE all

TypeOK ==
    /\ m_log_records \in [0 .. RowCapacity - 1 -> Seq(Characters)]
    /\ m_earliest_record \in 0 .. RowCapacity - 1
    /\ m_current_record \in 0 .. RowCapacity - 1
    /\ m_current_record_untouched \in BOOLEAN
    /\ m_buffer_full \in BOOLEAN

\* Whatever was written and however often the ring wrapped, a reader sees exactly the last
\* RowCapacity rows of the log, oldest first: none twice, none overwritten, the current one last.
LogExact ==
    LET rows == RowsOf(text)
        kept == IF Len(rows) < RowCapacity THEN Len(rows) ELSE RowCapacity
    IN  RowsRead = SubSeq(rows, Len(rows) - kept + 1, Len(rows))
=============================================================================
