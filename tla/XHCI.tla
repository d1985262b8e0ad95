--------------------------------- MODULE XHCI ---------------------------------
(***************************************************************************)
(* Kernel/Drivers/USB/XHCI: the event ring between the controller and the     *)
(* deferred interrupt handler, and the ports, of which a USB2 and a USB3 one   *)
(* may belong to the same connector.                                         *)
(*                                                                         *)
(* The controller (its ring state and PORTSC) is external: it reports a port   *)
(* when one of its change bits becomes set, as the driver expects of it, waits *)
(* while the ring is full, and interrupts when the ring is not empty and the   *)
(* handler is not busy (EHB).                                               *)
(* Of the change bits PEC and OCC are only logged, WRC is treated as PRC and   *)
(* PLC as CSC.                                                             *)
(***************************************************************************)
EXTENDS Integers, Sequences, FiniteSets

CONSTANTS
    m_port_count,
    Protocols,      \* the lists of supported protocol capabilities: <<revision, first port, count>>
    event_ring_segment_capacity,
    MaxUnreported   \* bound: nothing changes while so many ports wait to be reported

VARIABLES
    m_ports,        \* mode, state, pair (-1: none) and physical_offset of every port
    ring, m_event_ring_index, m_event_ring_cycle,
    pc, at, status, \* where the driver is, the port it works on, and the PORTSC it has read
    busy,           \* EHB: the driver has not written ERDP since the last interrupt
    dequeue,        \* what ERDP points to
    enqueue, producerCycle, toReport,   \* the controller's side of the ring
    portsc, resetting                   \* the ports

driverVars == <<m_ports, m_event_ring_index, m_event_ring_cycle, pc, at, status>>
ringVars == <<ring, busy, dequeue, enqueue, producerCycle>>
vars == <<driverVars, ringVars, toReport, portsc, resetting>>

Ports == 0..m_port_count - 1
Slots == 0..event_ring_segment_capacity - 1
Bits == {"CSC", "PRC", "CEC"}
Active == {"RESETTING", "INITIALIZATION", "RUNNING"}

----------------------------------------------------------------------------
(* detect_ports.                                                            *)

NoStatus == [ccs |-> FALSE, ped |-> FALSE, bits |-> {}]

NotPresent == [mode |-> "NOT_PRESENT", state |-> "IDLE", pair |-> -1, physical_offset |-> 0]

\* The last capability that lists a port says what it is.
Listed(protocols, p) ==
    LET listing == {i \in DOMAIN protocols :
                       p \in protocols[i][2] - 1 .. protocols[i][2] + protocols[i][3] - 2}
        i == CHOOSE i \in listing : \A j \in listing : j <= i
    IN  IF listing = {} THEN NotPresent
        ELSE [NotPresent EXCEPT !.mode = IF protocols[i][1] = 3 THEN "USB3" ELSE "USB2",
                                !.physical_offset = p - (protocols[i][2] - 1)]

\* Mutant: the second port of a pair is not told.
Paired_one_way(ports, p) ==
    LET mates == {q \in Ports \ {p} : q > p /\ ports[q].mode # "NOT_PRESENT"
                                      /\ ports[q].physical_offset = ports[p].physical_offset}
    IN  IF mates = {} \/ ports[p].mode = "NOT_PRESENT" THEN -1 ELSE CHOOSE q \in mates : TRUE

\* With one capability per revision two ports of the same offset are a pair.
Paired(ports, p) ==
    LET mates == {q \in Ports \ {p} : ports[q].mode # "NOT_PRESENT"
                                      /\ ports[q].physical_offset = ports[p].physical_offset}
    IN  IF mates = {} \/ ports[p].mode = "NOT_PRESENT" THEN -1 ELSE CHOOSE q \in mates : TRUE

detect_ports(protocols) ==
    LET listed == [p \in Ports |-> Listed(protocols, p)]
    IN  [p \in Ports |-> [listed[p] EXCEPT !.pair = Paired(listed, p)]]

Init ==
    /\ \E protocols \in Protocols : m_ports = detect_ports(protocols)
    /\ ring = [s \in Slots |-> [C |-> 0, port |-> 0]]
    /\ m_event_ring_index = 0 /\ m_event_ring_cycle = 1
    /\ pc = "boot" /\ at = 0 /\ status = NoStatus
    /\ busy = FALSE /\ dequeue = 0 /\ enqueue = 0 /\ producerCycle = 1
    /\ toReport = {}
    /\ portsc = [p \in Ports |-> NoStatus]
    /\ resetting = {}

----------------------------------------------------------------------------
(* The controller.                                                          *)

\* The port's register becomes r; a change bit that was not set is worth an event.
Changed(p, r) ==
    /\ Cardinality(toReport) < MaxUnreported
    /\ portsc' = [portsc EXCEPT ![p] = r]
    /\ toReport' = IF r.bits # portsc[p].bits THEN toReport \cup {p} ELSE toReport
    /\ UNCHANGED <<driverVars, ringVars>>

\* A USB3 port enables itself when something is connected.
ConnectionChanges(p) ==
    /\ m_ports[p].mode # "NOT_PRESENT"
    /\ LET up == ~portsc[p].ccs
       IN  Changed(p, [ccs |-> up, ped |-> up /\ m_ports[p].mode = "USB3",
                       bits |-> portsc[p].bits \cup {"CSC"}])
    /\ UNCHANGED resetting

LinkChanges(p) ==
    /\ portsc[p].ccs
    /\ Changed(p, [portsc[p] EXCEPT !.bits = @ \cup {"CSC"}])
    /\ UNCHANGED resetting

ConfigErrorArises(p) ==
    /\ portsc[p].ccs /\ m_ports[p].mode = "USB3"
    /\ Changed(p, [portsc[p] EXCEPT !.ped = FALSE, !.bits = @ \cup {"CEC"}])
    /\ UNCHANGED resetting

ResetEnds(p) ==
    /\ p \in resetting
    /\ Changed(p, [portsc[p] EXCEPT !.ped = @ \/ portsc[p].ccs, !.bits = @ \cup {"PRC"}])
    /\ resetting' = resetting \ {p}

NextSlot(s) == (s + 1) % event_ring_segment_capacity

\* One slot stays empty, so that a full ring is not taken for an empty one.
EventIsWritten(p) ==
    /\ p \in toReport /\ NextSlot(enqueue) # dequeue
    /\ ring' = [ring EXCEPT ![enqueue] = [C |-> producerCycle, port |-> p]]
    /\ enqueue' = NextSlot(enqueue)
    /\ producerCycle' = IF enqueue' = 0 THEN 1 - producerCycle ELSE producerCycle
    /\ toReport' = toReport \ {p}
    /\ UNCHANGED <<driverVars, busy, dequeue, portsc, resetting>>

\* handle_irq acknowledges the interrupt and calls deferred_invoke.
handle_irq ==
    /\ pc = "idle" /\ ~busy /\ enqueue # dequeue
    /\ busy' = TRUE /\ pc' = "events"
    /\ UNCHANGED <<m_ports, m_event_ring_index, m_event_ring_cycle, at, status, ring, dequeue, enqueue,
                   producerCycle, toReport, portsc, resetting>>

----------------------------------------------------------------------------
(* initialize: the ports are powered on one after the other.                *)

Acknowledged(p, bits) == [portsc EXCEPT ![p].bits = @ \ bits]
NextAtBoot == IF at + 1 = m_port_count THEN "idle" ELSE "boot"

\* The write that powers a port on acknowledges the changes it has read; a port that does not
\* come up is given up, its pair is not told.
power_on(comesUp) ==
    /\ pc = "boot"
    /\ LET present == m_ports[at].mode # "NOT_PRESENT"
           look == present /\ portsc[at].ccs
       IN  /\ comesUp \/ (present /\ portsc[at] = NoStatus)
           /\ m_ports' = IF comesUp THEN m_ports ELSE [m_ports EXCEPT ![at].mode = "NOT_PRESENT"]
           /\ portsc' = IF present THEN Acknowledged(at, portsc[at].bits) ELSE portsc
           /\ pc' = IF look THEN "status at boot" ELSE NextAtBoot
           /\ at' = IF look THEN at ELSE IF NextAtBoot = "boot" THEN at + 1 ELSE 0
    /\ UNCHANGED <<m_event_ring_index, m_event_ring_cycle, status, ringVars, toReport, resetting>>

----------------------------------------------------------------------------
(* handle_deferred_irq and handle_port_status_change.                        *)

\* Mutant: the cycle state is kept when the index wraps.
Wrapped_same_cycle ==
    IF m_event_ring_index = event_ring_segment_capacity THEN <<0, m_event_ring_cycle>>
    ELSE <<m_event_ring_index, m_event_ring_cycle>>

Wrapped ==
    IF m_event_ring_index = event_ring_segment_capacity THEN <<0, 1 - m_event_ring_cycle>>
    ELSE <<m_event_ring_index, m_event_ring_cycle>>

\* One turn of the loop: an event, or the end of them, where ERDP is written.
take_event ==
    /\ pc = "events"
    /\ m_event_ring_index' = Wrapped[1] /\ m_event_ring_cycle' = Wrapped[2]
    /\ IF ring[Wrapped[1]].C = Wrapped[2]
       THEN /\ pc' = "status" /\ at' = ring[Wrapped[1]].port
            /\ UNCHANGED <<dequeue, busy>>
       ELSE /\ pc' = "idle" /\ dequeue' = Wrapped[1] /\ busy' = FALSE
            /\ UNCHANGED at
    /\ UNCHANGED <<m_ports, status, ring, enqueue, producerCycle, toReport, portsc, resetting>>

read_status ==
    /\ pc \in {"status", "status at boot"}
    /\ status' = portsc[at]
    /\ pc' = IF pc = "status" THEN "acknowledge" ELSE "acknowledge at boot"
    /\ UNCHANGED <<m_ports, m_event_ring_index, m_event_ring_cycle, at, ringVars, toReport, portsc, resetting>>

AtBoot == pc \in {"acknowledge at boot", "wait at boot"}

\* The event has been dealt with.
Done ==
    /\ m_event_ring_index' = IF AtBoot THEN m_event_ring_index ELSE m_event_ring_index + 1
    /\ pc' = IF ~AtBoot THEN "events" ELSE NextAtBoot
    /\ status' = NoStatus
    /\ at' = IF AtBoot /\ NextAtBoot = "boot" THEN at + 1 ELSE 0

Becomes(state) == m_ports' = [m_ports EXCEPT ![at].state = state]
StateOfPair == IF m_ports[at].pair = -1 THEN "IDLE" ELSE m_ports[m_ports[at].pair].state

begin_port_initialization == Becomes("INITIALIZATION")
reset_port == resetting' = resetting \cup {at}

handle_port_config_error == Becomes("IDLE") /\ Done /\ UNCHANGED resetting

handle_port_reset_status_change ==
    /\ IF m_ports[at].state # "RESETTING" THEN UNCHANGED m_ports
       ELSE IF status.ped THEN begin_port_initialization ELSE Becomes("IDLE")
    /\ Done /\ UNCHANGED resetting

\* Mutant: the other port of the connector is not looked at.
PairIsActive_never == FALSE

PairIsActive == StateOfPair \in Active

\* A USB3 port is ready, a USB2 one is reset first.
Start ==
    IF m_ports[at].mode = "USB3"
    THEN (IF status.ped THEN begin_port_initialization ELSE Becomes("IDLE")) /\ UNCHANGED resetting
    ELSE Becomes("RESETTING") /\ reset_port

handle_port_connect_status_change ==
    LET down == ~status.ccs
        state == m_ports[at].state
        waits == m_ports[at].mode = "USB2" /\ m_ports[at].pair # -1
    IN  CASE down /\ state = "SPURIOUS_CONNECTION" -> Becomes("IDLE") /\ Done /\ UNCHANGED resetting
          [] ~(down /\ state = "SPURIOUS_CONNECTION") /\ PairIsActive ->
                Done /\ UNCHANGED <<m_ports, resetting>>
          [] ~PairIsActive /\ down /\ state # "SPURIOUS_CONNECTION" ->
                /\ IF state \in Active THEN Becomes("IDLE") ELSE UNCHANGED m_ports
                /\ Done /\ UNCHANGED resetting
          [] ~PairIsActive /\ ~down /\ waits ->
                IF StateOfPair # "IDLE" THEN Done /\ UNCHANGED <<m_ports, resetting>>
                ELSE /\ pc' = IF AtBoot THEN "wait at boot" ELSE "wait"
                     /\ UNCHANGED <<m_ports, resetting, at, status, m_event_ring_index>>
          [] ~PairIsActive /\ ~down /\ ~waits -> Start /\ Done

\* The changes that were read are acknowledged, and one kind of them is handled.
handle_port_status_change ==
    /\ pc \in {"acknowledge", "acknowledge at boot"}
    /\ portsc' = Acknowledged(at, status.bits)
    /\ CASE "CEC" \in status.bits -> handle_port_config_error
         [] "CEC" \notin status.bits /\ "PRC" \in status.bits -> handle_port_reset_status_change
         [] status.bits \cap {"CEC", "PRC"} = {} /\ status.bits # {} -> handle_port_connect_status_change
         [] status.bits = {} -> Done /\ UNCHANGED <<m_ports, resetting>>
    /\ UNCHANGED <<m_event_ring_cycle, ringVars, toReport>>

\* A USB2 port gives a USB3 connection 100ms to come up.
wait_for_usb3 ==
    /\ pc \in {"wait", "wait at boot"}
    /\ IF portsc[m_ports[at].pair].ccs
       THEN Becomes("SPURIOUS_CONNECTION") /\ UNCHANGED resetting
       ELSE Start
    /\ Done
    /\ UNCHANGED <<m_event_ring_cycle, ringVars, toReport, portsc>>

----------------------------------------------------------------------------

Next ==
    \/ \E p \in Ports : \/ ConnectionChanges(p) \/ LinkChanges(p) \/ ConfigErrorArises(p)
                        \/ ResetEnds(p) \/ EventIsWritten(p)
    \/ handle_irq \/ \E comesUp \in BOOLEAN : power_on(comesUp)
    \/ take_event \/ read_status \/ handle_port_status_change \/ wait_for_usb3

Spec == Init /\ [][Next]_vars

----------------------------------------------------------------------------
(* Properties.                                                              *)

\* The types of the variables.
TypeOK ==
    /\ m_ports \in [Ports -> [mode : {"NOT_PRESENT", "USB2", "USB3"}, pair : Ports \cup {-1},
                              state : {"IDLE", "SPURIOUS_CONNECTION"} \cup Active,
                              physical_offset : Ports]]
    /\ ring \in [Slots -> [C : {0, 1}, port : Ports]]
    /\ m_event_ring_index \in 0..event_ring_segment_capacity /\ m_event_ring_cycle \in {0, 1}
    /\ at \in Ports /\ dequeue \in Slots /\ enqueue \in Slots /\ busy \in BOOLEAN
    /\ toReport \subseteq Ports /\ resetting \subseteq Ports
    /\ portsc \in [Ports -> [ccs : BOOLEAN, ped : BOOLEAN, bits : SUBSET Bits]]

\* handle_deferred_irq and the controller agree on the ring: the events between the
\* driver's index and the place the controller writes to next are the ones with the cycle
\* state the driver looks for, however often the ring has wrapped, so that it handles every
\* event and none twice.
RingExact ==
    LET here == Wrapped[1]
        ahead == (enqueue - here) % event_ring_segment_capacity
    IN  /\ \A n \in 0..event_ring_segment_capacity - 1 :
              LET s == (here + n) % event_ring_segment_capacity
                  cycle == IF here + n < event_ring_segment_capacity THEN Wrapped[2] ELSE 1 - Wrapped[2]
              IN  (ring[s].C = cycle) <=> n < ahead
        /\ pc = "idle" /\ ~busy => dequeue = here

\* The two ports of a connector name each other, are of different revisions unless they did
\* not power on, and are never both in use for what is connected to it.
OnePortOfAPair ==
    \A p \in Ports : m_ports[p].pair # -1 =>
        LET q == m_ports[p].pair
        IN  /\ m_ports[q].pair = p
            /\ m_ports[q].mode = m_ports[p].mode => m_ports[p].mode = "NOT_PRESENT"
            /\ ~(m_ports[p].state \in Active /\ m_ports[q].state \in Active)
=============================================================================
