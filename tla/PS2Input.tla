------------------------------ MODULE PS2Input ------------------------------
(***************************************************************************)
(* From the bytes of a PS/2 keyboard and mouse to the state of the keys and   *)
(* the cursor: PS2Keyboard and PS2Mouse::handle_action decode one byte per     *)
(* interrupt and post to the EventManager, whose queue the thread of the       *)
(* window manager empties when it next runs.                                  *)
(***************************************************************************)
EXTENDS Integers, Sequences, SequencesExt, FiniteSetsExt

CONSTANTS
    KeySets,     \* sets of keys, some of DOMAIN Codes: a behaviour uses those of one, or the mouse if it is empty
    Reports,     \* what the mouse reports: records, see MousePacket
    SubTypes,    \* the PS2Mouse::SubType of the mouse: 0, 3 or 4
    MaxQueue,    \* max_event_queue_size
    MaxWire,     \* bound: no key is touched while more bytes wait to be read
    Width, Height

VARIABLES
    used,                      \* the keys in use
    wire, m_state,             \* the bytes of the keyboard to come; PS2Keyboard::m_state
    mouseWire, m_packet, m_sub_type,
    m_event_queue, m_key_state, m_last_mouse_state, m_shadow_cursor_location, cursor,
    pending,                   \* history: the events that the bytes on the wires stand for
    waiting,                   \* history: the posted events that the queue should hold
    known, overwritten,        \* history: the keys as last posted; those, or the cursor, whose event got lost
    wrong                      \* history: something was posted that nobody did

vars == <<used, wire, m_state, mouseWire, m_packet, m_sub_type, m_event_queue, m_key_state, m_last_mouse_state,
          m_shadow_cursor_location, cursor, pending, waiting, known, overwritten, wrong>>

(***************************************************************************)
(* Kernel/Common/CircularBuffer.h, the type of the event queue: a fixed        *)
(* number of slots, of which a new element of a full buffer takes the oldest   *)
(* one's.                                                                    *)
(***************************************************************************)

Empty(filler) == [m_buffer |-> [i \in 0 .. MaxQueue - 1 |-> filler], m_begin |-> 0, m_end |-> 0, m_enqueued_count |-> 0]

empty(b) == b.m_enqueued_count = 0

increment(index) == IF index = MaxQueue - 1 THEN 0 ELSE index + 1

\* Mutant: an element that takes the place of the oldest is counted as one more.
on_element_enqueued_counts_all(b) == [b EXCEPT !.m_end = increment(@), !.m_enqueued_count = @ + 1]

on_element_enqueued(b) ==
    IF b.m_enqueued_count + 1 > MaxQueue
    THEN [b EXCEPT !.m_end = increment(@), !.m_begin = increment(@)]
    ELSE [b EXCEPT !.m_end = increment(@), !.m_enqueued_count = @ + 1]

Enqueue(b, elem) == on_element_enqueued([b EXCEPT !.m_buffer[b.m_end] = elem])

front(b) == b.m_buffer[b.m_begin]
Dequeue(b) == [b EXCEPT !.m_enqueued_count = @ - 1, !.m_begin = increment(@)]

\* What the buffer holds, oldest first.
Contents(b) == [i \in 1 .. b.m_enqueued_count |-> b.m_buffer[(b.m_begin + i - 1) % MaxQueue]]

(***************************************************************************)
(* The devices.                                                            *)
(***************************************************************************)

Keys == UNION KeySets

Bit(byte, n) == (byte \div 2^n) % 2 = 1

\* Scan code set 1, which the controller translates to: the code of a key, and whether 0xE0 precedes it.
Codes == [A |-> <<30, FALSE>>, ONE |-> <<2, FALSE>>, LEFT_SHIFT |-> <<42, FALSE>>, CAPS_LOCK |-> <<58, FALSE>>,
          LEFT_CTRL |-> <<29, FALSE>>, NUM_LK |-> <<69, FALSE>>, NP_ASTERISK |-> <<55, FALSE>>,
          RIGHT_CTRL |-> <<29, TRUE>>, ARROW_UP |-> <<72, TRUE>>, PRT_SC |-> <<55, TRUE>>,
          PAUSE_BREAK |-> <<69, FALSE>>]

Toggled == {"CAPS_LOCK", "NUM_LK", "SCR_LK"}
Buttons == {"MOUSE_LEFT_BUTTON", "MOUSE_MIDDLE_BUTTON", "MOUSE_RIGHT_BUTTON", "MOUSE_BUTTON_4", "MOUSE_BUTTON_5"}

\* The bytes for a key that goes down or up.
ScanCodes(key, down) ==
    LET up == IF down THEN 0 ELSE 128 IN
    CASE key = "PRT_SC" -> IF down THEN <<224, 42, 224, 55>> ELSE <<224, 183, 224, 170>>
      [] key = "PAUSE_BREAK" -> <<225, 29, 69, 225, 157, 197>>
      [] OTHER -> (IF Codes[key][2] THEN <<224>> ELSE <<>>) \o <<Codes[key][1] + up>>

KeyEvent(key, down) == [type |-> "KEY_STATE", key |-> key, down |-> down]

\* A report, as the three or four bytes of a packet.
MousePacket(r) ==
    LET flag(holds, n) == IF holds THEN 2^n ELSE 0
        wheel == IF m_sub_type = 3 THEN r.wheel % 256
                 ELSE (r.wheel % 16) + flag("MOUSE_BUTTON_4" \in r.down, 4) + flag("MOUSE_BUTTON_5" \in r.down, 5)
    IN <<flag("MOUSE_LEFT_BUTTON" \in r.down, 0) + flag("MOUSE_RIGHT_BUTTON" \in r.down, 1)
           + flag("MOUSE_MIDDLE_BUTTON" \in r.down, 2) + 8 + flag(r.dx < 0, 4) + flag(r.dy < 0, 5)
           + flag(r.overflow, 6),
         r.dx % 256, r.dy % 256>> \o (IF m_sub_type = 0 THEN <<>> ELSE <<wheel>>)

(***************************************************************************)
(* EventManager.                                                           *)
(***************************************************************************)

Init ==
    /\ used \in KeySets /\ m_sub_type \in SubTypes /\ (used # {} => m_sub_type = 0)
    /\ wire = <<>> /\ m_state = "NORMAL" /\ mouseWire = <<>> /\ m_packet = <<>>
    /\ m_event_queue = Empty(KeyEvent("A", FALSE))
    /\ m_key_state = [k \in Keys \cup Buttons |-> FALSE] /\ m_last_mouse_state = {}
    /\ m_shadow_cursor_location = <<Width \div 2, Height \div 2>> /\ cursor = m_shadow_cursor_location
    /\ pending = <<>> /\ waiting = <<>> /\ known = m_key_state /\ overwritten = {} /\ wrong = FALSE

\* update_state_of_key
update_state_of_key(states, key, down) ==
    CASE key \in Toggled -> IF down THEN [states EXCEPT ![key] = ~@] ELSE states
      [] OTHER -> [states EXCEPT ![key] = down]

Applied(states, e) ==
    IF e.type \in {"KEY_STATE", "BUTTON_STATE"} THEN update_state_of_key(states, e.key, e.down) ELSE states

\* push_event, of several events one after the other.
Pushed(events) == FoldLeft(Enqueue, m_event_queue, events)

\* What is pushed, for the histories: the oldest events of a full queue are overwritten.
Posted(events) ==
    LET all == waiting \o events
        dropped == IF Len(all) > MaxQueue THEN Len(all) - MaxQueue ELSE 0
        about(indexes) == {all[i].key : i \in {j \in indexes : all[j].type \notin {"CHAR_TYPED", "MOUSE_SCROLL"}}}
        later == about(dropped + 1 .. Len(all)) \ Toggled
    IN /\ m_event_queue' = Pushed(events)
       /\ waiting' = SubSeq(all, dropped + 1, Len(all))
       /\ overwritten' = (overwritten \cup about(1 .. dropped)) \ later
       /\ known' = FoldLeft(Applied, known, events)

\* to_char: shift and caps lock cancel out for a letter, caps lock does nothing to the others.
to_char(key, shift, caps) ==
    CASE key = "A" -> IF shift # caps THEN "A" ELSE "a"
      [] key = "ONE" -> IF shift THEN "!" ELSE "1"

\* With the keys as last dispatched.
generate_char_typed_if_applicable(key) ==
    IF key \in {"A", "ONE"}
    THEN <<[type |-> "CHAR_TYPED",
            character |-> to_char(key, m_key_state["LEFT_SHIFT"], m_key_state["CAPS_LOCK"])]>>
    ELSE <<>>
KeyboardEvents(key, down) == <<KeyEvent(key, down)>> \o (IF down THEN generate_char_typed_if_applicable(key) ELSE <<>>)

\* Screen::cursor_position_for_delta
cursor_position_for_delta(dx, dy) ==
    LET x == m_shadow_cursor_location[1]
        y == m_shadow_cursor_location[2]
    IN <<IF dx < 0 THEN (IF x > -dx THEN x + dx ELSE 0)
                   ELSE (IF x + dx + 1 < Width THEN x + dx ELSE Width - 1),
         IF dy < 0 THEN (IF y - dy + 1 < Height THEN y - dy ELSE Height - 1)
                   ELSE (IF y > dy THEN y - dy ELSE 0)>>

\* post_action(Mouse::Action): what moved, what scrolled, and the buttons that changed.
MouseEvents(a, location) ==
    LET changed(b) ==
            IF (b \in a.down) # (b \in m_last_mouse_state)
            THEN <<[type |-> "BUTTON_STATE", key |-> b, down |-> b \in a.down]>> ELSE <<>>
    IN (IF a.dx # 0 \/ a.dy # 0 THEN <<[type |-> "MOUSE_MOVE", key |-> "CURSOR", to |-> location]>> ELSE <<>>)
       \o (IF a.wheel # 0 THEN <<[type |-> "MOUSE_SCROLL", delta |-> a.wheel]>> ELSE <<>>)
       \o changed("MOUSE_LEFT_BUTTON") \o changed("MOUSE_MIDDLE_BUTTON") \o changed("MOUSE_RIGHT_BUTTON")
       \o changed("MOUSE_BUTTON_4") \o changed("MOUSE_BUTTON_5")

(***************************************************************************)
(* PS2Keyboard::handle_action                                              *)
(***************************************************************************)

\* single_byte_keys and multi_byte_keys
single_byte_keys(raw) == {k \in DOMAIN Codes \ {"PRT_SC", "PAUSE_BREAK"} : Codes[k] = <<raw, FALSE>>}
multi_byte_keys(raw) == {k \in DOMAIN Codes \ {"PRT_SC"} : Codes[k] = <<raw, TRUE>>}

\* The state after a byte and the keyboard actions it completes: a sequence of <<key, down>>.
Decoded(state, code) ==
    LET key(of(_)) == IF of(code % 128) = {} THEN <<>> ELSE <<<<CHOOSE k \in of(code % 128) : TRUE, code < 128>>>>
        if(expected, then) == [state |-> IF code = expected THEN then ELSE state, posts |-> <<>>]
        normal(posts) == [state |-> "NORMAL", posts |-> posts]
    IN CASE state = "E0" /\ code \in {42, 183} -> [state |-> "PRINT_SCREEN_1", posts |-> <<>>]
         [] state = "E0" /\ code \notin {42, 183} -> normal(key(multi_byte_keys))
         [] state = "PRINT_SCREEN_1" /\ code = 224 -> [state |-> "E0_REPEAT", posts |-> <<>>]
         [] state = "PRINT_SCREEN_1" /\ code # 224 -> normal(key(single_byte_keys))
         [] state = "E0_REPEAT" ->
                normal(IF code = 55 THEN <<<<"PRT_SC", TRUE>>>>
                       ELSE IF code = 170 THEN <<<<"PRT_SC", FALSE>>>> ELSE <<>>)
         [] state = "NORMAL" /\ code = 224 -> [state |-> "E0", posts |-> <<>>]
         [] state = "NORMAL" /\ code = 225 -> [state |-> "E1", posts |-> <<>>]
         [] state = "NORMAL" /\ code \notin {224, 225} -> normal(key(single_byte_keys))
         [] state = "E1" -> if(29, "PAUSE_1")
         [] state = "PAUSE_1" -> if(69, "PAUSE_2")
         [] state = "PAUSE_2" -> if(225, "E1_REPEAT")
         [] state = "E1_REPEAT" -> if(157, "PAUSE_3")
         [] state = "PAUSE_3" ->
                normal(IF code = 197 THEN <<<<"PAUSE_BREAK", TRUE>>, <<"PAUSE_BREAK", FALSE>>>> ELSE <<>>)

\* The events of the devices, in the order they were done.
Caused(e) == e.type # "CHAR_TYPED"

\* What is posted is what comes next of what was done; the character typed is that of the
\* shift and caps lock keys, but for their events that still wait to be dispatched or were overwritten.
AsDone(events) ==
    LET caused == SelectSeq(events, Caused)
        shifts == {"LEFT_SHIFT", "CAPS_LOCK"}
        late == overwritten \cap shifts # {}
                \/ \E i \in DOMAIN waiting : waiting[i].type = "KEY_STATE" /\ waiting[i].key \in shifts
    IN /\ pending' = SubSeq(pending, Len(caused) + 1, Len(pending))
       /\ wrong' = \/ wrong
                   \/ caused # SubSeq(pending, 1, Len(caused))
                   \/ ~late /\ \E i \in DOMAIN events :
                          /\ ~Caused(events[i])
                          /\ events[i].character # to_char(events[i - 1].key, known["LEFT_SHIFT"], known["CAPS_LOCK"])

keyboard_handle_action ==
    /\ wire # <<>>
    /\ LET decoded == Decoded(m_state, Head(wire))
           events == FlattenSeq([i \in DOMAIN decoded.posts |-> KeyboardEvents(decoded.posts[i][1], decoded.posts[i][2])])
       IN /\ m_state' = decoded.state
          /\ Posted(events) /\ AsDone(events)
    /\ wire' = Tail(wire)
    /\ UNCHANGED <<mouseWire, m_packet, m_sub_type, m_key_state, m_last_mouse_state, m_shadow_cursor_location, cursor>>

\* A key goes down or up: down again while it is held, when the keyboard repeats it.
touch_key(key, down) ==
    /\ Len(wire) <= MaxWire
    /\ wire' = wire \o ScanCodes(key, down)
    /\ pending' = pending \o IF key = "PAUSE_BREAK" THEN <<KeyEvent(key, TRUE), KeyEvent(key, FALSE)>>
                             ELSE <<KeyEvent(key, down)>>
    /\ UNCHANGED <<m_state, mouseWire, m_packet, m_sub_type, m_event_queue, m_key_state, m_last_mouse_state,
                   m_shadow_cursor_location, cursor, waiting, known, overwritten, wrong>>

(***************************************************************************)
(* PS2Mouse::handle_action                                                 *)
(***************************************************************************)

bytes_in_packet == IF m_sub_type = 0 THEN 3 ELSE 4

\* Mutant: the sign bit of x is taken for that of y too.
Signed_by_x(flags, n, byte) == IF Bit(flags, 4) THEN byte - 256 ELSE byte

\* The delta of an axis, whose sign is bit n of the first byte, in nine bits.
Signed(flags, n, byte) == IF Bit(flags, n) THEN byte - 256 ELSE byte

\* parse_packet
parse_packet(p) ==
    LET nibble == p[4] % 16
        wheel == CASE m_sub_type = 0 -> 0
                   [] m_sub_type = 3 -> IF Bit(p[4], 7) THEN p[4] - 256 ELSE p[4]
                   [] m_sub_type = 4 -> IF nibble \in {1, 2} THEN 1 ELSE IF nibble \in {14, 15} THEN -1 ELSE 0
    IN [dx |-> IF Bit(p[1], 6) THEN 0 ELSE Signed(p[1], 4, p[2]),
        dy |-> IF Bit(p[1], 7) THEN 0 ELSE Signed(p[1], 5, p[3]),
        wheel |-> wheel,
        down |-> (IF Bit(p[1], 0) THEN {"MOUSE_LEFT_BUTTON"} ELSE {})
                 \cup (IF Bit(p[1], 1) THEN {"MOUSE_RIGHT_BUTTON"} ELSE {})
                 \cup (IF Bit(p[1], 2) THEN {"MOUSE_MIDDLE_BUTTON"} ELSE {})
                 \cup (IF m_sub_type = 4 /\ Bit(p[4], 4) THEN {"MOUSE_BUTTON_4"} ELSE {})
                 \cup (IF m_sub_type = 4 /\ Bit(p[4], 5) THEN {"MOUSE_BUTTON_5"} ELSE {})]

\* append_packet_data: a first byte without the bit that is always set is skipped.
mouse_handle_action ==
    /\ mouseWire # <<>>
    /\ mouseWire' = Tail(mouseWire)
    /\ LET bytes == Append(m_packet, Head(mouseWire))
           a == parse_packet(bytes)
           location == cursor_position_for_delta(a.dx, a.dy)
           events == MouseEvents(a, location)
       IN CASE m_packet = <<>> /\ ~Bit(Head(mouseWire), 3) ->
                   UNCHANGED <<m_packet, m_event_queue, m_last_mouse_state, m_shadow_cursor_location,
                               pending, waiting, known, overwritten, wrong>>
            [] (m_packet # <<>> \/ Bit(Head(mouseWire), 3)) /\ Len(bytes) # bytes_in_packet ->
                   /\ m_packet' = bytes
                   /\ UNCHANGED <<m_event_queue, m_last_mouse_state, m_shadow_cursor_location,
                                  pending, waiting, known, overwritten, wrong>>
            [] (m_packet # <<>> \/ Bit(Head(mouseWire), 3)) /\ Len(bytes) = bytes_in_packet ->
                   /\ m_packet' = <<>> /\ m_last_mouse_state' = a.down
                   /\ m_shadow_cursor_location' = IF a.dx # 0 \/ a.dy # 0 THEN location ELSE m_shadow_cursor_location
                   /\ Posted(events) /\ AsDone(events)
    /\ UNCHANGED <<wire, m_state, m_sub_type, m_key_state, cursor>>

\* The mouse reports; noise: a byte that begins no packet comes first.
report(r, noise) ==
    /\ mouseWire = <<>>
    /\ r.wheel # 0 => m_sub_type # 0
    /\ r.down \cap {"MOUSE_BUTTON_4", "MOUSE_BUTTON_5"} # {} => m_sub_type = 4
    /\ mouseWire' = noise \o MousePacket(r)
    /\ LET clamped(v, bound) == Min({Max({v, 0}), bound - 1})
           dx == IF r.overflow THEN 0 ELSE r.dx
           to == <<clamped(m_shadow_cursor_location[1] + dx, Width), clamped(m_shadow_cursor_location[2] - r.dy, Height)>>
       IN pending' = pending \o MouseEvents([r EXCEPT !.dx = dx], to)
    /\ UNCHANGED <<wire, m_state, m_packet, m_sub_type, m_event_queue, m_key_state, m_last_mouse_state,
                   m_shadow_cursor_location, cursor, waiting, known, overwritten, wrong>>

\* EventManager::dispatch_pending, one event: what the windows make of it is in Desktop.
dispatch_event ==
    /\ ~empty(m_event_queue)
    /\ LET e == front(m_event_queue) IN
       /\ m_key_state' = Applied(m_key_state, e)
       /\ cursor' = IF e.type = "MOUSE_MOVE" THEN e.to ELSE cursor
    /\ m_event_queue' = Dequeue(m_event_queue)
    /\ waiting' = Tail(waiting)
    /\ UNCHANGED <<wire, m_state, mouseWire, m_packet, m_sub_type, m_last_mouse_state, m_shadow_cursor_location,
                   pending, known, overwritten, wrong>>

Next ==
    /\ UNCHANGED used
    /\ \/ \E key \in used, down \in BOOLEAN : touch_key(key, down)
       \/ used = {} /\ \E r \in Reports, noise \in {<<>>, <<0>>} : report(r, noise)
       \/ keyboard_handle_action
       \/ mouse_handle_action
       \/ dispatch_event

Spec == Init /\ [][Next]_vars

-----------------------------------------------------------------------------

\* The types of the variables; the handlers decode into their own states only.
TypeOK ==
    /\ \A i \in DOMAIN wire : wire[i] \in 0 .. 255
    /\ m_state \in {"NORMAL", "E0", "PRINT_SCREEN_1", "E0_REPEAT", "E1", "PAUSE_1", "PAUSE_2", "E1_REPEAT", "PAUSE_3"}
    /\ Len(m_packet) < 4 /\ m_sub_type \in {0, 3, 4}
    /\ m_event_queue.m_enqueued_count \in 0 .. MaxQueue
    /\ m_key_state \in [Keys \cup Buttons -> BOOLEAN]
    /\ m_shadow_cursor_location \in (0 .. Width - 1) \X (0 .. Height - 1)

\* The handlers post what was done with the keyboard and the mouse, all of it and in order,
\* whatever the bytes of the sequences have in common, and end between two sequences when all
\* bytes are read; a typed character is that of the keys of the moment, unless they wait in
\* the queue; the queue of EventManager holds the latest events in the order they were posted.
InputExact ==
    /\ ~wrong
    /\ wire = <<>> /\ mouseWire = <<>> => pending = <<>> /\ m_state = "NORMAL" /\ m_packet = <<>>
    /\ Contents(m_event_queue) = waiting

\* Once dispatch_pending has emptied the queue every key is in the state last posted for it and the
\* cursor where the mouse has moved it, but for the keys whose last event was overwritten.
KeysExact ==
    /\ \A k \in (Keys \cup Buttons) \ overwritten :
           FoldLeft(Applied, m_key_state, waiting)[k] = known[k]
    /\ waiting = <<>> /\ "CURSOR" \notin overwritten => cursor = m_shadow_cursor_location
=============================================================================
