------------------------------- MODULE Desktop -------------------------------
(***************************************************************************)
(* The windows on the screen: WindowManager, Window, WindowFrame, Screen,      *)
(* Compositor and Painter.  Threads create and close windows, interrupts post   *)
(* what the mouse does, and the thread of the window manager holds the window    *)
(* lock while it dispatches the events that wait and composes a frame.          *)
(* A surface is not stored: what pixel <<x, y>> of window w shows follows from  *)
(* the position and from the state the buttons were last drawn in.             *)
(***************************************************************************)
EXTENDS Integers, Sequences, SequencesExt

CONSTANTS
    Windows,            \* model values or strings, without Desktop and Nobody
    Desktop, Nobody,
    Width, Height, DesktopHeight,   \* the screen, and its rows above the task bar
    ViewWidth, ViewHeight,          \* the window's own part
    UpperFrame, SideFrame, BottomFrame, ButtonWidth,
    CursorWidth, CursorHeight,
    Corners,            \* the locations at which windows are created
    Targets,            \* the points the mouse moves to
    MaxWork             \* bound: the windows created, the other commands and the events of a behaviour

VARIABLES
    m_windows, focused,             \* the list, front first; Window::s_currently_focused
    window,                         \* of every window: location, state, drag_begin, invalidated, dirty, drawn
    registered, closing,            \* the windows in the map of their thread; those between remove_window and the rest of close
    cursor,
    running,                        \* the window manager thread holds the lock, dispatches and composes
    work,                           \* counts up to MaxWork
    m_dirty_rects,                  \* of the compositor, as the set of their pixels
    m_last_cursor_location, screen,
    outOfOrder                      \* compose drew a dragged window over one in front of it

vars == <<m_windows, focused, window, registered, closing, cursor, running, work, m_dirty_rects,
          m_last_cursor_location, screen, outOfOrder>>

(***************************************************************************)
(* Rect.                                                                   *)
(***************************************************************************)

Rect(x, y, w, h) == [x |-> x, y |-> y, w |-> w, h |-> h]
right(r) == r.x + r.w - 1
bottom(r) == r.y + r.h - 1
translated(r, p) == Rect(r.x + p[1], r.y + p[2], r.w, r.h)

\* Its right and bottom edges belong to what contains calls the rectangle.
contains(r, p) == p[1] >= r.x /\ p[1] <= r.x + r.w /\ p[2] >= r.y /\ p[2] <= r.y + r.h

\* What is drawn and clipped, by contrast, ends with right and bottom.
Within(r, p) == r.x <= p[1] /\ p[1] <= right(r) /\ r.y <= p[2] /\ p[2] <= bottom(r)
AllPixels == (0 .. Width - 1) \X (0 .. Height - 1)
Pixels(r) == {p \in AllPixels : Within(r, p)}

m_wallpaper_rect == Rect(0, 0, Width, DesktopHeight)

(***************************************************************************)
(* WindowFrame.                                                            *)
(***************************************************************************)

ButtonNames == {"MINIMIZE", "MAXIMIZE", "CLOSE"}

full_rect == Rect(0, 0, ViewWidth + 2 * SideFrame, ViewHeight + UpperFrame + BottomFrame)
view_rect == Rect(SideFrame, UpperFrame, ViewWidth, ViewHeight)
raw_draggable_rect == Rect(0, 0, full_rect.w - 3 * ButtonWidth, UpperFrame)

raw_rect_for_button(button) ==
    LET minimize == right(raw_draggable_rect)
    IN Rect(minimize + ButtonWidth * (CASE button = "MINIMIZE" -> 0 [] button = "MAXIMIZE" -> 1 [] button = "CLOSE" -> 2),
            0, ButtonWidth, UpperFrame)

full_translated_rect(w) == translated(full_rect, window[w].location)
rect_for_button(w, button) == translated(raw_rect_for_button(button), window[w].location)
draggable_rect(w) == translated(raw_draggable_rect, window[w].location)

Surface(drawn, p) ==
    LET buttons == {b \in ButtonNames : Within(raw_rect_for_button(b), p)}
    IN IF buttons = {} THEN "plain" ELSE drawn[CHOOSE b \in buttons : TRUE]

\* draw_button: on the surface, and the rectangle is to be shown.
DrawButton(o, button, state) ==
    [o EXCEPT !.drawn[button] = state, !.dirty = @ \cup {raw_rect_for_button(button)}]

\* paint: the frame, the released buttons and the title, whose text and padding are left out.
Painted(o) ==
    [o EXCEPT !.drawn = [b \in ButtonNames |-> "RELEASED"],
              !.dirty = @ \cup {raw_rect_for_button(b) : b \in ButtonNames} \cup {raw_draggable_rect}]

NewWindow(at) ==
    Painted([location |-> at, state |-> "NORMAL", drag_begin |-> <<0, 0>>, invalidated |-> FALSE, dirty |-> {},
             drawn |-> [b \in ButtonNames |-> "RELEASED"]])

Closed == [NewWindow(<<0, 0>>) EXCEPT !.state = "CLOSED", !.dirty = {}]

(***************************************************************************)
(* What is on the screen.                                                  *)
(***************************************************************************)

OnDesktop == <<Desktop, <<0, 0>>, "plain">>
PixelOf(w, p) ==
    LET q == <<p[1] - window[w].location[1], p[2] - window[w].location[2]>>
    IN <<w, q, Surface(window[w].drawn, q)>>

cursor_rect(at) == Rect(at[1], at[2], CursorWidth, CursorHeight)
OfCursor == <<Nobody, <<0, 0>>, "plain">>

Init ==
    /\ m_windows = <<>> /\ focused = Nobody
    /\ window = [w \in Windows |-> Closed]
    /\ registered = {} /\ closing = {}
    /\ cursor = <<Width \div 2, Height \div 2>>
    /\ running = FALSE /\ work = 0
    /\ m_dirty_rects = {} /\ m_last_cursor_location = cursor
    /\ screen = [p \in AllPixels |->
                    IF Within(cursor_rect(cursor), p) THEN OfCursor ELSE OnDesktop]
     /\ outOfOrder = FALSE

WindowLockIsFree == ~running

Works == work < MaxWork /\ work' = work + 1

(***************************************************************************)
(* Threads: CREATE_WINDOW, DESTROY_WINDOW, INVALIDATE_RECT and TaskFinalizer. *)
(***************************************************************************)

\* Window::create: add_window, under the lock, puts it in front and focuses it.
add_window(w, at) ==
    /\ WindowLockIsFree /\ Works /\ window[w].state = "CLOSED" /\ w \notin closing
    /\ window' = [window EXCEPT ![w] = NewWindow(at)]
    /\ m_windows' = <<w>> \o m_windows
    /\ focused' = w
    /\ m_dirty_rects' = m_dirty_rects \cup Pixels(translated(full_rect, at))
    /\ UNCHANGED <<registered, closing, cursor, running, m_last_cursor_location, screen, outOfOrder>>

\* Thread::add_window; fails: the command cannot be copied back and the window is closed again.
register_window(w, fails) ==
    /\ w \in Range(m_windows) /\ w \notin registered /\ w \notin closing
    /\ registered' = registered \cup {w}
    /\ closing' = IF fails THEN closing \cup {w} ELSE closing
    /\ UNCHANGED <<m_windows, focused, window, cursor, running, work, m_dirty_rects, m_last_cursor_location, screen, outOfOrder>>

\* A thread asks for the close of its window, or ends.
begin_close(w) ==
    /\ w \in registered \ closing
    /\ closing' = closing \cup {w}
    /\ UNCHANGED <<m_windows, focused, window, registered, cursor, running, work, m_dirty_rects,
                   m_last_cursor_location, screen, outOfOrder>>

\* Mutant: the focus stays with the window that goes.
FocusAfter_kept(w, list) == focused

FocusAfter(w, list) ==
    IF focused # w THEN focused ELSE IF list = <<>> THEN Desktop ELSE Head(list)

\* close, first half: remove_window, under the lock.
remove_window(w) ==
    /\ WindowLockIsFree /\ w \in closing /\ w \in Range(m_windows)
    /\ LET list == Remove(m_windows, w) IN
       /\ m_windows' = list
       /\ focused' = FocusAfter(w, list)
    /\ m_dirty_rects' = m_dirty_rects \cup Pixels(full_translated_rect(w))
    /\ UNCHANGED <<window, registered, closing, cursor, running, work, m_last_cursor_location, screen, outOfOrder>>

\* close, second half: the state, the surface and the entry in the thread's map.
finish_close(w) ==
    /\ w \in closing /\ w \notin Range(m_windows)
    /\ window' = [window EXCEPT ![w] = Closed]
    /\ closing' = closing \ {w} /\ registered' = registered \ {w}
    /\ UNCHANGED <<m_windows, focused, cursor, running, work, m_dirty_rects, m_last_cursor_location, screen, outOfOrder>>

\* INVALIDATE_RECT, with the window's own lock only.
invalidate_view(w) ==
    /\ Works /\ w \in registered \ closing
    /\ window' = [window EXCEPT ![w].dirty = @ \cup {view_rect}]
    /\ UNCHANGED <<m_windows, focused, registered, closing, cursor, running, m_dirty_rects,
                   m_last_cursor_location, screen, outOfOrder>>

\* SET_TITLE: whatever state the buttons are in.
set_title(w) ==
    /\ Works /\ w \in registered \ closing
    /\ window' = [window EXCEPT ![w] = Painted(@)]
    /\ UNCHANGED <<m_windows, focused, registered, closing, cursor, running, m_dirty_rects,
                   m_last_cursor_location, screen, outOfOrder>>

(***************************************************************************)
(* The window manager thread: EventManager::dispatch_pending.              *)
(***************************************************************************)

\* run: the lock is taken for a frame.
begin_frame ==
    /\ ~running /\ running' = TRUE
    /\ UNCHANGED <<m_windows, focused, window, registered, closing, cursor, work, m_dirty_rects,
                   m_last_cursor_location, screen, outOfOrder>>

\* Screen::check_if_focused_window_should_change: the list, the focus and the dirty rectangles after.
Focused ==
    LET under == SelectInSeq(m_windows, LAMBDA w : contains(full_translated_rect(w), cursor))
        w == m_windows[under]
    IN IF under = 0 THEN [list |-> m_windows, focused |-> Desktop, dirty |-> {}]
       ELSE IF w = focused THEN [list |-> m_windows, focused |-> w, dirty |-> {}]
       ELSE [list |-> <<w>> \o Remove(m_windows, w), focused |-> w, dirty |-> Pixels(full_translated_rect(w))]

\* Window::handle_event of the left button.
OnButton(w, down) ==
    LET o == window[w] IN
    IF down
    THEN IF contains(draggable_rect(w), cursor) THEN [o EXCEPT !.state = "IS_BEING_DRAGGED", !.drag_begin = cursor]
         ELSE IF o.state = "CLOSE_BUTTON_HOVERED"
              THEN DrawButton([o EXCEPT !.state = "CLOSE_BUTTON_PRESSED"], "CLOSE", "PRESSED")
              ELSE [o EXCEPT !.state = "NORMAL"]
    ELSE [(IF o.state = "CLOSE_BUTTON_PRESSED" THEN DrawButton(o, "CLOSE", "RELEASED") ELSE o) EXCEPT !.state = "NORMAL"]

Hovered(b) == CASE b = "CLOSE" -> "CLOSE_BUTTON_HOVERED" [] b = "MAXIMIZE" -> "MAXIMIZE_BUTTON_HOVERED"
                [] b = "MINIMIZE" -> "MINIMIZE_BUTTON_HOVERED"

release_buttons_if_needed(o) ==
    LET b == {n \in ButtonNames : o.state = Hovered(n)}
    IN IF b = {} THEN o ELSE DrawButton([o EXCEPT !.state = "NORMAL"], CHOOSE n \in b : TRUE, "RELEASED")

\* invalidate_rects_based_on_drag_delta: what the window no longer covers.
UncoveredBy(old, new) ==
    CASE old.x = new.x /\ old.y = new.y -> {}
      [] old.x = new.x /\ old.y > new.y -> {Rect(new.x, bottom(new), new.w, bottom(old) - bottom(new) + 1)}
      [] old.x = new.x /\ old.y < new.y -> {Rect(old.x, old.y, new.w, new.y - old.y + 1)}
      [] old.y = new.y /\ old.x > new.x -> {Rect(right(new), new.y, right(old) - right(new) + 1, new.h)}
      [] old.y = new.y /\ old.x < new.x -> {Rect(old.x, old.y, new.x - old.x + 1, new.h)}
      [] old.y > new.y /\ old.x > new.x ->
             {Rect(right(new), old.y, right(old) - right(new) + 1, bottom(new) - old.y + 1),
              Rect(old.x, bottom(new), old.w, bottom(old) - bottom(new) + 1)}
      [] old.y > new.y /\ old.x < new.x ->
             {Rect(old.x, old.y, new.x - old.x + 1, bottom(new) - old.y + 1),
              Rect(old.x, bottom(new), old.w, bottom(old) - bottom(new) + 1)}
      [] old.y < new.y /\ old.x > new.x ->
             {Rect(old.x, old.y, old.w, new.y - old.y + 1),
              Rect(right(new), new.y, right(old) - right(new) + 1, bottom(old) - new.y + 1)}
      [] old.y < new.y /\ old.x < new.x ->
             {Rect(old.x, old.y, old.w, new.y - old.y + 1),
              Rect(old.x, new.y, new.x - old.x + 1, bottom(new) - new.y + 1)}

\* Window::handle_event of a move: the window after, whether it took the event, and what it uncovers.
OnMove(w, p, is_handled) ==
    LET o == window[w]
        to == <<o.location[1] + p[1] - o.drag_begin[1], o.location[2] + p[2] - o.drag_begin[2]>>
        over == {b \in ButtonNames : contains(rect_for_button(w, b), p)}
        \* The buttons overlap by a column: the first one asked has it.
        button == IF "CLOSE" \in over THEN "CLOSE" ELSE IF "MAXIMIZE" \in over THEN "MAXIMIZE" ELSE "MINIMIZE"
        stays == o.state = Hovered(button) \/ (button = "CLOSE" /\ o.state = "CLOSE_BUTTON_PRESSED")
    IN CASE o.state = "IS_BEING_DRAGGED" ->
                [after |-> [o EXCEPT !.location = to, !.drag_begin = p, !.invalidated = TRUE], took |-> TRUE,
                 uncovered |-> UncoveredBy(full_translated_rect(w), translated(full_rect, to))]
         [] o.state # "IS_BEING_DRAGGED" /\ over # {} /\ ~is_handled ->
                [after |-> IF stays THEN o
                           ELSE DrawButton([release_buttons_if_needed(o) EXCEPT !.state = Hovered(button)], button, "HOVERED"),
                 took |-> TRUE, uncovered |-> {}]
         [] OTHER ->
                [after |-> release_buttons_if_needed(o), took |-> contains(full_translated_rect(w), p), uncovered |-> {}]

\* A move goes to all windows, front first; those behind one that took it know.
Handled(i, p) == \E j \in 1 .. i - 1 : OnMove(m_windows[j], p, FALSE).took

dispatch_button(key, down) ==
    /\ running /\ Works
    /\ LET f == IF down THEN Focused ELSE [list |-> m_windows, focused |-> focused, dirty |-> {}] IN
       /\ m_windows' = f.list /\ focused' = f.focused
       /\ m_dirty_rects' = m_dirty_rects \cup f.dirty
       /\ window' = IF f.focused \in Windows /\ key = "LEFT" THEN [window EXCEPT ![f.focused] = OnButton(f.focused, down)] ELSE window
    /\ UNCHANGED <<registered, closing, cursor, running, m_last_cursor_location, screen, outOfOrder>>

dispatch_move(p) ==
    /\ running /\ Works
    /\ cursor' = p
    /\ LET moved(i) == OnMove(m_windows[i], p, Handled(i, p))
           all == DOMAIN m_windows
       IN /\ window' = [w \in Windows |-> IF w \in Range(m_windows)
                                          THEN moved(CHOOSE i \in all : m_windows[i] = w).after ELSE window[w]]
          /\ m_dirty_rects' = m_dirty_rects \cup UNION {UNION {Pixels(r) : r \in moved(i).uncovered} : i \in all}
    /\ UNCHANGED <<m_windows, focused, registered, closing, running, m_last_cursor_location, screen, outOfOrder>>

(***************************************************************************)
(* Compositor::compose                                                     *)
(***************************************************************************)

\* Mutant: the windows are drawn front first.
BackToFront_reversed(list) == list

\* The order in which the windows are drawn.
BackToFront(list) == Reverse(list)

Covers(w, p) == Within(full_translated_rect(w), p) /\ Within(m_wallpaper_rect, p)

\* A pixel of a dirty rectangle: the desktop and, over it, the windows that are not drawn as a whole anyway.
Drawn(p) ==
    LET over == SelectSeq(BackToFront(m_windows), LAMBDA w : ~window[w].invalidated /\ Covers(w, p))
    IN IF over = <<>> THEN OnDesktop ELSE PixelOf(Last(over), p)

submit_dirty_rects(w) == UNION {Pixels(translated(r, window[w].location)) : r \in window[w].dirty}

compose ==
    /\ running
    /\ LET list == Range(m_windows)
           moved == cursor # m_last_cursor_location
           rects == m_dirty_rects \cup UNION {submit_dirty_rects(w) : w \in list}
                    \cup (IF moved THEN Pixels(cursor_rect(m_last_cursor_location)) ELSE {})
           m_cursor_invalidated == moved \/ cursor \in rects \/ \E w \in list : contains(full_translated_rect(w), cursor)
           whole(p) == SelectSeq(m_windows, LAMBDA w : window[w].invalidated /\ Covers(w, p))
       IN /\ screen' = [p \in AllPixels |->
                            CASE m_cursor_invalidated /\ Within(cursor_rect(cursor), p) -> OfCursor
                              [] OTHER -> IF whole(p) # <<>> THEN PixelOf(Last(whole(p)), p)
                                          ELSE IF p \in rects THEN Drawn(p) ELSE screen[p]]
          /\ window' = [w \in Windows |-> IF w \in list THEN [window[w] EXCEPT !.dirty = {}, !.invalidated = FALSE] ELSE window[w]]
    /\ m_dirty_rects' = {} /\ m_last_cursor_location' = cursor
    /\ running' = FALSE
    /\ outOfOrder' = \E i, j \in DOMAIN m_windows : i < j /\ window[m_windows[j]].invalidated
                                                /\ \E p \in AllPixels : Covers(m_windows[i], p) /\ Covers(m_windows[j], p)
    /\ UNCHANGED <<m_windows, focused, registered, closing, cursor, work>>

Next ==
    /\ ~outOfOrder
    /\ \/ \E w \in Windows :
              \/ \E at \in Corners : add_window(w, at)
              \/ \E fails \in BOOLEAN : register_window(w, fails)
              \/ begin_close(w) \/ remove_window(w) \/ finish_close(w) \/ invalidate_view(w) \/ set_title(w)
       \/ \E key \in {"LEFT", "OTHER"}, down \in BOOLEAN : dispatch_button(key, down)
       \/ \E p \in Targets : dispatch_move(p)
       \/ begin_frame \/ compose

Spec == Init /\ [][Next]_vars

-----------------------------------------------------------------------------

TypeOK ==
    /\ Range(m_windows) \subseteq Windows /\ focused \in Windows \cup {Desktop, Nobody}
    /\ registered \subseteq Windows /\ closing \subseteq Windows
    /\ \A w \in Windows :
           window[w].state \in {"NORMAL", "IS_BEING_DRAGGED", "CLOSED", "CLOSE_BUTTON_PRESSED"} \cup {Hovered(b) : b \in ButtonNames}
    /\ running \in BOOLEAN /\ work \in 0 .. MaxWork
    /\ DOMAIN screen = AllPixels

Shown(p) ==
    LET above == SelectInSeq(m_windows, LAMBDA w : Covers(w, p))
    IN IF above = 0 THEN OnDesktop ELSE PixelOf(m_windows[above], p)

\* What the next compose draws again.
Pending ==
    m_dirty_rects \cup UNION {submit_dirty_rects(w) \cup IF window[w].invalidated THEN Pixels(full_translated_rect(w)) ELSE {} :
                                 w \in Range(m_windows)}

\* No change is forgotten: at every moment each pixel shows the front-most window there, where it now is and with its
\* buttons as they are drawn, or the desktop, or it lies in a rectangle the next compose draws again, whatever was
\* created, closed, brought to the front, dragged or redrawn in between; and the cursor is where it was last drawn.
\* (Until compose draws a dragged window, as a whole, over one that came to the front since: FocusedOnTop.)
ScreenExact ==
    ~outOfOrder =>
        /\ \A p \in AllPixels \ Pixels(cursor_rect(m_last_cursor_location)) : screen[p] = Shown(p) \/ p \in Pending
        /\ screen[m_last_cursor_location] = OfCursor

\* The list, the map of the thread and the state agree on which windows exist, and a window with
\* the focus is the front one: never one that was closed.
FocusExact ==
    /\ focused \in Windows => m_windows # <<>> /\ focused = Head(m_windows)
    /\ IsInjective(m_windows)
    /\ \A w \in Range(m_windows) : window[w].state # "CLOSED"
    /\ \A w \in registered \ closing : w \in Range(m_windows)

\* "Invalidate the focused window as it must be redrawn on top of everything" (Screen.cpp): after a frame no window
\* covers one in front of it.
FocusedOnTop == ~outOfOrder
=============================================================================
