------------------------------ MODULE TouchPad ------------------------------
(***************************************************************************)
(* Kernel/Drivers/TouchPad.cpp, the gestures of a touchpad, fed by             *)
(* SynapticsTouchpad::handle_action, which turns packets into updates: one     *)
(* for the primary finger with the buttons and, when two fingers or more are    *)
(* down, one for the secondary finger.                                        *)
(***************************************************************************)
EXTENDS Integers, Sequences

CONSTANTS
    Positions,                  \* pairs of positive coordinates; <<0, 0>> is no position
    MaxDelta,                   \* a delta above is taken for an error (100 pixels)
    Near                        \* fingers that close are taken for the same one (25 units)

VARIABLES
    m_remembers_primary_finger, m_single_button_touchpad, m_supports_multifinger,
    m_finger_count, m_has_sent_second_finger,   \* SynapticsTouchpad
    m_state,                                    \* TouchPad::State
    posted,         \* the actions the last packet has posted to the EventManager
    m_last_mouse_state,   \* the buttons as EventManager last got them
    packet,         \* the last packet
    onPad           \* history: the last valid reports of the fingers since they came down

vars == <<m_remembers_primary_finger, m_single_button_touchpad, m_supports_multifinger, m_finger_count,
          m_has_sent_second_finger, m_state, posted, m_last_mouse_state, packet, onPad>>

Nowhere == <<0, 0>>
Minus(p, q) == <<p[1] - q[1], p[2] - q[2]>>
Abs(n) == IF n < 0 THEN -n ELSE n
NoButtons == [left |-> FALSE, middle |-> FALSE]

Init ==
    /\ m_remembers_primary_finger \in BOOLEAN /\ m_single_button_touchpad \in BOOLEAN
    /\ m_supports_multifinger \in BOOLEAN
    /\ m_finger_count = 0 /\ m_has_sent_second_finger = FALSE
    /\ m_state = [primary |-> Nowhere, primary_previous |-> Nowhere, secondary |-> Nowhere, finger_count |-> 0,
                  gesture |-> "PRIMARY_IS_CURSOR", finger_flip_pending |-> FALSE, memorized_primary |-> Nowhere,
                  fingers_flipped |-> FALSE]
    /\ posted = <<>> /\ m_last_mouse_state = NoButtons
    /\ packet = [count |-> 0, index |-> 0, at |-> Nowhere, left |-> FALSE, middle |-> FALSE]
    /\ onPad = [primary |-> Nowhere, secondary |-> Nowhere]

(***************************************************************************)
(* What an update posts.                                                   *)
(***************************************************************************)

\* The buttons of a new Action are released; only the primary finger's update sets them.
buttons_from_update(u) ==
    CASE u.index # 0 -> NoButtons
      [] u.index = 0 /\ m_single_button_touchpad -> [left |-> u.left \/ u.middle, middle |-> FALSE]
      [] u.index = 0 /\ ~m_single_button_touchpad -> [left |-> u.left, middle |-> u.middle]

is_primary_button_pressed(u) == IF m_single_button_touchpad THEN u.middle ELSE u.left

move_from_update(s, u) ==
    LET previous == IF u.index = 0 THEN s.primary ELSE s.secondary
        delta == Minus(u.at, previous)
    IN IF u.index > 1 \/ u.at = Nowhere \/ previous = Nowhere \/ Abs(delta[1]) > MaxDelta \/ Abs(delta[2]) > MaxDelta
       THEN Nowhere ELSE delta

Action(buttons, delta, wheel) == [buttons |-> buttons, delta |-> delta, wheel |-> wheel]

\* action_from_update: the next state and what is posted.
action_from_update(s, u, include_move) ==
    [state |-> IF u.index # 0 THEN s
               ELSE [s EXCEPT !.primary_previous = s.primary, !.primary = u.at, !.finger_count = u.count],
     posts |-> <<Action(buttons_from_update(u), IF include_move THEN move_from_update(s, u) ELSE Nowhere, <<>>)>>]

\* scroll_from_update, of axis 1 (x) or 2 (y): the longer way of the two fingers.
scroll_from_update(s, u, axis) ==
    LET primary == s.primary_previous[axis] - s.primary[axis]
        secondary == s.secondary[axis] - u.at[axis]
    IN IF Nowhere \in {s.primary_previous, s.primary, s.secondary, u.at} THEN 0
       ELSE IF Abs(primary) >= Abs(secondary) THEN primary ELSE secondary

To(r, gesture) == [r EXCEPT !.state.gesture = gesture]
Quietly(s) == [state |-> s, posts |-> <<>>]
WithSecondary(r, u) == [r EXCEPT !.state.secondary = u.at]

(***************************************************************************)
(* The handlers, one for every gesture.                                    *)
(***************************************************************************)

\* Mutant: the last delta of the gesture is still posted.
Leaves_moving(s, u) ==
    To(action_from_update(s, u, TRUE), IF u.count = 1 THEN "PRIMARY_IS_CURSOR" ELSE "TOO_MANY_FINGERS")

\* One finger, or more than two, end every gesture of two fingers.
Leaves(s, u) ==
    To(action_from_update(s, u, FALSE), IF u.count = 1 THEN "PRIMARY_IS_CURSOR" ELSE "TOO_MANY_FINGERS")

handle_update_for_primary_is_cursor(s, u) ==
    CASE u.index # 0 -> Quietly(s)
      [] u.index = 0 /\ u.count = 1 -> action_from_update(s, u, TRUE)
      [] u.index = 0 /\ u.count = 2 -> To(action_from_update(s, u, FALSE), "PENDING_TRANSITION")
      [] u.index = 0 /\ u.count > 2 -> To(action_from_update(s, u, FALSE), "TOO_MANY_FINGERS")

handle_update_for_primary_is_cursor_with_two_fingers(s, u) ==
    CASE u.count # 2 -> Leaves(s, u)
      [] u.count = 2 /\ u.index = 0 -> action_from_update(s, u, TRUE)
      [] u.count = 2 /\ u.index = 1 -> WithSecondary(Quietly(s), u)

\* late: the touch began more than scroll_bias_ms ago.
handle_update_for_pending_transition(s, u, late) ==
    LET above == IF s.fingers_flipped THEN s.primary[2] > u.at[2] ELSE s.primary[2] <= u.at[2]
        gesture == CASE above /\ s.fingers_flipped -> "PRIMARY_IS_CURSOR_WITH_TWO_FINGERS"
                     [] above /\ late /\ ~s.fingers_flipped -> "SECONDARY_IS_CURSOR"
                     [] OTHER -> IF is_primary_button_pressed(u) THEN "SCROLLING_SELECTION" ELSE "SCROLLING"
    IN CASE u.count # 2 -> Leaves(s, u)
         [] u.count = 2 /\ u.index # 1 -> To(action_from_update(s, u, FALSE), "PRIMARY_IS_CURSOR")
         [] u.count = 2 /\ u.index = 1 ->
                WithSecondary(To(Quietly([s EXCEPT !.fingers_flipped = FALSE]), gesture), u)

handle_update_for_secondary_is_cursor(s, u) ==
    CASE u.count # 2 -> Leaves(s, u)
      [] u.count = 2 /\ u.index # 1 -> action_from_update(s, u, FALSE)
      [] u.count = 2 /\ u.index = 1 -> WithSecondary(action_from_update(s, u, TRUE), u)

handle_update_for_scrolling(s, u) ==
    LET vertical == scroll_from_update(s, u, 2)
        horizontal == scroll_from_update(s, u, 1)
        scroll(wheel, axis) == Action(buttons_from_update(u), Nowhere, <<wheel, axis>>)
    IN CASE u.count # 2 -> Leaves(s, u)
         [] u.count = 2 /\ u.index = 0 ->
                To(action_from_update(s, u, FALSE),
                   IF is_primary_button_pressed(u) THEN "SCROLLING_SELECTION" ELSE s.gesture)
         [] u.count = 2 /\ u.index = 1 ->
                WithSecondary([state |-> s, posts |-> <<scroll(vertical, 2)>> \o
                                   IF horizontal # 0 THEN <<scroll(horizontal, 1)>> ELSE <<>>], u)

handle_update_for_scrolling_selection(s, u) ==
    CASE u.count # 2 -> Leaves(s, u)
      [] u.count = 2 /\ u.index = 0 /\ ~is_primary_button_pressed(u) -> To(action_from_update(s, u, FALSE), "SCROLLING")
      [] u.count = 2 /\ u.index = 0 /\ is_primary_button_pressed(u) -> action_from_update(s, u, TRUE)
      [] u.count = 2 /\ u.index = 1 -> WithSecondary(action_from_update(s, u, TRUE), u)

handle_update_for_too_many_fingers(s, u) ==
    LET r == IF u.index = 0 THEN action_from_update(s, u, FALSE) ELSE WithSecondary(Quietly(s), u)
    IN CASE u.count = 1 -> To(r, "PRIMARY_IS_CURSOR")
         [] u.count = 2 /\ u.index = 0 -> To(r, "PENDING_TRANSITION")
         [] OTHER -> r

Handled(s, u, late) ==
    CASE s.gesture = "PRIMARY_IS_CURSOR" -> handle_update_for_primary_is_cursor(s, u)
      [] s.gesture = "PRIMARY_IS_CURSOR_WITH_TWO_FINGERS" -> handle_update_for_primary_is_cursor_with_two_fingers(s, u)
      [] s.gesture = "PENDING_TRANSITION" -> handle_update_for_pending_transition(s, u, late)
      [] s.gesture = "SECONDARY_IS_CURSOR" -> handle_update_for_secondary_is_cursor(s, u)
      [] s.gesture = "SCROLLING" -> handle_update_for_scrolling(s, u)
      [] s.gesture = "SCROLLING_SELECTION" -> handle_update_for_scrolling_selection(s, u)
      [] s.gesture = "TOO_MANY_FINGERS" -> handle_update_for_too_many_fingers(s, u)

\* The primary finger of a touchpad that remembers it may come back as the secondary one.
FlipChecked(s, u) ==
    LET close == Abs(u.at[1] - s.memorized_primary[1]) < Near /\ Abs(u.at[2] - s.memorized_primary[2]) < Near
        begins == m_remembers_primary_finger /\ s.finger_count < 2 /\ u.count = 2 /\ u.at # Nowhere
    IN CASE begins -> [s EXCEPT !.memorized_primary = s.primary, !.finger_flip_pending = TRUE]
         [] ~begins /\ s.finger_flip_pending ->
                [s EXCEPT !.finger_flip_pending = FALSE,
                          !.fingers_flipped = @ \/ (u.index = 1 /\ u.count = 2 /\ u.at # Nowhere /\ close)]
         [] OTHER -> s

submit_update(u, late) ==
    LET r == IF u.count = 0
             THEN LET released == To(action_from_update(m_state, u, FALSE), "PRIMARY_IS_CURSOR")
                  IN [released EXCEPT !.state.finger_flip_pending = FALSE]
             ELSE Handled(FlipChecked(m_state, u), u, late)
    IN /\ m_state' = r.state
       /\ posted' = r.posts
       /\ m_last_mouse_state' = IF r.posts = <<>> THEN m_last_mouse_state ELSE r.posts[Len(r.posts)].buttons

(***************************************************************************)
(* SynapticsTouchpad::handle_action, for a whole packet                    *)
(***************************************************************************)

\* The fingers that a packet with this w tells of; 4 and 5: one finger, 6: a palm.
CountOf(w) ==
    CASE ~m_supports_multifinger -> 1
      [] m_supports_multifinger /\ w = 0 -> 2
      [] m_supports_multifinger /\ w = 1 -> IF m_finger_count < 3 THEN 3 ELSE m_finger_count
      [] m_supports_multifinger /\ w >= 4 -> 1

Update(count, index, at, left, middle) == [count |-> count, index |-> index, at |-> at, left |-> left, middle |-> middle]
Config == <<m_remembers_primary_finger, m_single_button_touchpad, m_supports_multifinger>>

\* The packet of the primary finger.
absolute_packet(w, at, left, middle) ==
    LET invalid == w >= 6 \/ at = Nowhere
        count == IF invalid THEN 0 ELSE CountOf(w)
        u == Update(count, 0, IF invalid THEN Nowhere ELSE at, left, middle)
    IN /\ m_finger_count' = count
       /\ submit_update(u, FALSE)
       /\ m_has_sent_second_finger' = FALSE
       /\ packet' = u
       /\ onPad' = [primary |-> u.at, secondary |-> IF count < 2 THEN Nowhere ELSE onPad.secondary]
       /\ UNCHANGED Config

\* The packet of a secondary finger: of several, the first is the one that counts.
secondary_finger_packet(at, late) ==
    LET u == Update(m_finger_count, 1, at, FALSE, FALSE) IN
    /\ m_supports_multifinger /\ packet.count >= 2
    /\ IF m_has_sent_second_finger
       THEN posted' = <<>> /\ UNCHANGED <<m_has_sent_second_finger, m_state, m_last_mouse_state, packet, onPad>>
       ELSE /\ m_has_sent_second_finger' = TRUE
            /\ submit_update(u, late)
            /\ packet' = u
            /\ onPad' = [onPad EXCEPT !.secondary = at]
    /\ UNCHANGED <<Config, m_finger_count>>

\* The number of fingers, of three and more; of less, it is out of sync.
finger_state_packet(count) ==
    /\ m_supports_multifinger /\ packet.count >= 2
    /\ m_finger_count' = IF m_finger_count >= 3 /\ count >= 3 THEN count ELSE m_finger_count
    /\ posted' = <<>>
    /\ UNCHANGED <<Config, m_has_sent_second_finger, m_state, m_last_mouse_state, packet, onPad>>

Next ==
    \/ \E <<w, at>> \in ({0, 1, 4} \X Positions) \cup {<<6, Nowhere>>}, left, middle \in BOOLEAN :
           absolute_packet(w, at, left, middle)
    \/ \E at \in Positions \cup {Nowhere}, late \in BOOLEAN : secondary_finger_packet(at, late)
    \/ \E count \in {2, 4} : finger_state_packet(count)

Spec == Init /\ [][Next]_vars

-----------------------------------------------------------------------------

TypeOK ==
    /\ m_finger_count \in 0 .. 4 /\ m_has_sent_second_finger \in BOOLEAN
    /\ m_state.finger_count \in 0 .. 4
    /\ m_state.gesture \in {"PRIMARY_IS_CURSOR", "PRIMARY_IS_CURSOR_WITH_TWO_FINGERS", "PENDING_TRANSITION",
                            "SECONDARY_IS_CURSOR", "SCROLLING", "SCROLLING_SELECTION", "TOO_MANY_FINGERS"}
    /\ {m_state.primary, m_state.primary_previous, m_state.secondary, m_state.memorized_primary} \subseteq
           Positions \cup {Nowhere}

Moved(i) == posted[i].delta # Nowhere \/ posted[i].wheel # <<>>

\* Whatever order the packets come in: with more than two fingers down the gesture is
\* TOO_MANY_FINGERS and neither the cursor moves nor anything scrolls; two fingers select exactly
\* while the primary button is held; a lone finger never scrolls; and the fingers the handlers
\* remember are those that are down, so that no delta is taken from where an earlier touch ended.
GesturesExact ==
    /\ m_state.finger_count > 2 =>
           /\ m_state.gesture = "TOO_MANY_FINGERS"
           /\ \A i \in DOMAIN posted : ~Moved(i)
    /\ packet.index = 0 /\ packet.count = 2 =>
           (m_state.gesture = "SCROLLING_SELECTION" => is_primary_button_pressed(packet))
           /\ (m_state.gesture = "SCROLLING" => ~is_primary_button_pressed(packet))
    /\ packet.count < 2 => m_state.gesture = "PRIMARY_IS_CURSOR" /\ \A i \in DOMAIN posted : posted[i].wheel = <<>>
    /\ m_state.primary = onPad.primary
    /\ m_state.gesture \in {"SECONDARY_IS_CURSOR", "SCROLLING", "SCROLLING_SELECTION"} =>
           m_state.secondary = onPad.secondary

\* "State of buttons is ignored for finger_index != 0.": an update of the secondary finger leaves
\* the buttons of the mouse as the last update of the primary finger has set them.
SecondaryKeepsButtons ==
    [][packet'.index = 1 => m_last_mouse_state' = m_last_mouse_state]_vars
=============================================================================
