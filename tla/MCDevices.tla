------------------------------ MODULE MCDevices ------------------------------
(***************************************************************************)
(* The drivers of the USB controller, of the PS/2 controller, keyboard, mouse *)
(* and touch pad, and the window manager, checked in one run.  A behaviour     *)
(* exercises one of them.  Those other than keyboard and mouse share the       *)
(* variables v1 to v14; the ones a component does not use are "unused".        *)
(***************************************************************************)
EXTENDS PS2Input

VARIABLES exercised, v1, v2, v3, v4, v5, v6, v7, v8, v9, v10, v11, v12, v13, v14

others == <<v1, v2, v3, v4, v5, v6, v7, v8, v9, v10, v11, v12, v13, v14>>
MCVars == <<vars, others, exercised>>

\* A mouse report: the way, the wheel, the buttons that are down, and whether x overflows.
Report(dx, dy, wheel, down, overflow) ==
    [dx |-> dx, dy |-> dy, wheel |-> wheel, down |-> down, overflow |-> overflow]
MCReports ==
    {Report(-1, 1, 0, {}, FALSE), Report(1, -1, 0, {"MOUSE_LEFT_BUTTON"}, FALSE),
     Report(1, 1, -1, {"MOUSE_RIGHT_BUTTON"}, TRUE), Report(0, 0, 0, {"MOUSE_BUTTON_4"}, FALSE)}
MCKeySets ==
    {{}, {"A", "LEFT_SHIFT", "CAPS_LOCK"}, {"ONE", "LEFT_SHIFT"}, {"ONE", "CAPS_LOCK"},
     {"ARROW_UP", "LEFT_SHIFT"}, {"PRT_SC", "LEFT_SHIFT"}, {"PAUSE_BREAK", "LEFT_CTRL", "RIGHT_CTRL"}}

Usb == INSTANCE XHCI WITH
    m_port_count <- 2, Protocols <- {<<<<2, 1, 1>>, <<3, 2, 1>>>>},
    event_ring_segment_capacity <- 3, MaxUnreported <- 1, m_ports <- v1, ring <- v2,
    m_event_ring_index <- v3, m_event_ring_cycle <- v4, pc <- v5, at <- v6, status <- v7,
    busy <- v8, dequeue <- v9, enqueue <- v10, producerCycle <- v11, toReport <- v12,
    portsc <- v13, resetting <- v14
Controller == INSTANCE PS2Controller WITH
    AuxChannels <- <<"AUX_ZERO", "AUX_ONE">>, pc <- v1, channel <- v2, todo <- v3,
    resend_counter <- v4, dual <- v5, passed <- v6, multiplexed <- v7, present <- v8,
    drivers <- v9, config <- v10, enabled <- v11, scanning <- v12, identity <- v13
Pad == INSTANCE TouchPad WITH
    Positions <- {<<1, 1>>, <<2, 2>>}, MaxDelta <- 1, Near <- 1,
    m_remembers_primary_finger <- v1, m_single_button_touchpad <- v2,
    m_supports_multifinger <- v3, m_finger_count <- v4, m_has_sent_second_finger <- v5,
    m_state <- v6, posted <- v7, m_last_mouse_state <- v8, packet <- v9, onPad <- v10
Screen == INSTANCE Desktop WITH
    Windows <- {"w1", "w2"}, Desktop <- "desktop", Nobody <- "nobody", Width <- 4, Height <- 3,
    DesktopHeight <- 2, ViewWidth <- 4, ViewHeight <- 1, UpperFrame <- 1, SideFrame <- 0,
    BottomFrame <- 0, ButtonWidth <- 1, CursorWidth <- 1, CursorHeight <- 1,
    Corners <- {<<1, 0>>, <<0, -1>>}, Targets <- {<<0, 0>>, <<3, 0>>}, MaxWork <- 4,
    m_windows <- v1, focused <- v2, window <- v3, registered <- v4, closing <- v5, cursor <- v6,
    running <- v7, work <- v8, m_dirty_rects <- v9, m_last_cursor_location <- v10, screen <- v11,
    outOfOrder <- v12

UnusedFrom(n) ==
    /\ n <= 1 => /\ v1 = "unused" /\ v2 = "unused" /\ v3 = "unused" /\ v4 = "unused" /\ v5 = "unused"
                 /\ v6 = "unused" /\ v7 = "unused" /\ v8 = "unused" /\ v9 = "unused" /\ v10 = "unused"
    /\ n <= 11 => v11 = "unused" /\ v12 = "unused"
    /\ n <= 13 => v13 = "unused"
    /\ n <= 14 => v14 = "unused"

MCInit ==
    /\ exercised \in {"input", "usb", "controller", "touch pad", "windows"}
    /\ Init /\ (exercised # "input" => used = {} /\ m_sub_type = 0)
    /\ CASE exercised = "input" -> UnusedFrom(1)
         [] exercised = "usb" -> Usb!Init
         [] exercised = "controller" -> Controller!Init /\ UnusedFrom(14)
         [] exercised = "touch pad" -> Pad!Init /\ UnusedFrom(11)
         [] exercised = "windows" -> Screen!Init /\ UnusedFrom(13)

UnchangedFrom(n) ==
    /\ n <= 11 => UNCHANGED <<v11, v12>>
    /\ n <= 13 => UNCHANGED v13
    /\ n <= 14 => UNCHANGED v14

\* No port has powered on; discovery is over; the window manager has done its work.
Rests ==
    CASE exercised = "usb" -> \A p \in DOMAIN v1 : v1[p].mode = "NOT_PRESENT"
      [] exercised = "controller" -> v1 \in {"done", "panic"}
      [] exercised = "windows" -> v8 = 4 \/ v12
      [] OTHER -> FALSE

MCNext ==
    /\ UNCHANGED exercised
    /\ \/ exercised = "input" /\ Next /\ UNCHANGED others
       \/ /\ UNCHANGED vars
          /\ \/ exercised = "usb" /\ Usb!Next
             \/ exercised = "controller" /\ Controller!Next /\ UnchangedFrom(14)
             \/ exercised = "touch pad" /\ Pad!Next /\ UnchangedFrom(11)
             \/ exercised = "windows" /\ Screen!Next /\ UnchangedFrom(13)
             \/ Rests /\ UNCHANGED others

MCSpec == MCInit /\ [][MCNext]_MCVars

\* The type invariants of the five.
TypesOK ==
    CASE exercised = "usb" -> Usb!TypeOK
      [] exercised = "controller" -> Controller!TypeOK
      [] exercised = "input" -> TypeOK
      [] exercised = "touch pad" -> Pad!TypeOK
      [] exercised = "windows" -> Screen!TypeOK

\* Driver and controller agree on the event ring, wherever it wraps, and the two ports of a
\* connector are never both in use (XHCI!RingExact, OnePortOfAPair).
UsbExact == exercised = "usb" => Usb!RingExact /\ Usb!OnePortOfAPair

\* PS/2 devices are found one at a time and end up enabled with one driver each; the handlers
\* of the keyboard, the mouse and the touch pad post what was done, all of it and in order, and
\* the event queue keeps the latest of it (PS2Controller!DiscoveryExact, PS2Input!InputExact and
\* KeysExact, TouchPad!GesturesExact).
DevicesExact ==
    CASE exercised = "controller" -> Controller!DiscoveryExact
      [] exercised = "input" -> InputExact /\ KeysExact
      [] exercised = "touch pad" -> Pad!GesturesExact
      [] OTHER -> TRUE

\* Every pixel shows the front window, or is about to be drawn again, and the focus is never on
\* a window that is gone (Desktop!ScreenExact, FocusExact).
WindowsExact == exercised = "windows" => Screen!ScreenExact /\ Screen!FocusExact
==============================================================================
