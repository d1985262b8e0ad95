---------------------------- MODULE PS2Controller ----------------------------
(***************************************************************************)
(* PS2Controller::discover_all_devices: the controller and its ports are       *)
(* tested, the devices reset, identified and given a driver one at a time, and *)
(* those found enabled.  What the hardware answers is any answer it may give,   *)
(* late, garbled or none.                                                     *)
(***************************************************************************)
EXTENDS Integers, Sequences, FiniteSets

CONSTANTS AuxChannels   \* the ports of a multiplexing controller, AUX_ZERO to AUX_THREE, in that order

Channels == {"ONE", "TWO"} \cup {AuxChannels[i] : i \in DOMAIN AuxChannels}

VARIABLES
    pc, channel, todo,      \* the step; the channel it works on; the channels to come
    resend_counter,
    dual, passed, multiplexed, present, drivers,
    config,                 \* the configuration as last written
    enabled, scanning,      \* the controller's ports, and the devices that send unasked
    identity                \* the identity bytes of the device on the channel

vars == <<pc, channel, todo, resend_counter, dual, passed, multiplexed, present, drivers, config, enabled, scanning, identity>>

Config(irqs, clocks, translated) == [irq_enabled |-> irqs, clock_disabled |-> clocks, translation |-> translated]

Init ==
    /\ pc = "disable_ports" /\ channel = "ONE" /\ todo = <<>> /\ resend_counter = 3
    /\ dual = FALSE /\ passed = {} /\ multiplexed = FALSE /\ present = {} /\ drivers = {}
    /\ config \in {Config({"ONE"}, {}, TRUE), Config({"ONE", "TWO"}, {}, TRUE)}
    /\ enabled \in {{"ONE"}, {"ONE", "TWO"}} /\ scanning \in SUBSET {"ONE", "TWO"}
    /\ identity = <<>>

Panics == pc' = "panic" /\ UNCHANGED <<channel, todo, resend_counter, dual, passed, multiplexed, present, drivers,
                                      config, enabled, scanning, identity>>

\* The ports are off, interrupts and translation too; a second port that now has no clock may exist.
disable_ports ==
    /\ pc = "disable_ports"
    /\ enabled' = {}
    /\ dual' \in BOOLEAN
    /\ config' = Config({}, IF dual' THEN {"ONE", "TWO"} ELSE {"ONE"}, FALSE)
    /\ pc' = "self_test"
    /\ UNCHANGED <<channel, todo, resend_counter, passed, multiplexed, present, drivers, scanning, identity>>

\* TEST_CONTROLLER, and the second port for a try.
self_test(answer, second) ==
    /\ pc = "self_test"
    /\ IF answer = "passed"
       THEN /\ dual' = (dual /\ second)
            /\ pc' = "test_ports"
            /\ UNCHANGED <<channel, todo, resend_counter, passed, multiplexed, present, drivers, config, enabled, scanning, identity>>
       ELSE Panics

\* test_port of one port or both, and the detection of multiplexing when both pass.
test_ports(good, answersVersion) ==
    /\ pc = "test_ports"
    /\ passed' = good \cap (IF dual THEN {"ONE", "TWO"} ELSE {"ONE"})
    /\ multiplexed' = (answersVersion /\ passed' = {"ONE", "TWO"})
    /\ todo' = (IF "ONE" \in passed' THEN <<"ONE">> ELSE <<>>)
               \o (IF "TWO" \notin passed' THEN <<>>
                   ELSE IF ~multiplexed' THEN <<"TWO">> ELSE AuxChannels)
    /\ pc' = "next_device"
    /\ UNCHANGED <<channel, resend_counter, dual, present, drivers, config, enabled, scanning, identity>>

\* Mutant: the port stays enabled for the next device.
disabled_not(c) == enabled

\* disable
disabled(c) == enabled \ {c}

\* initialize_device_if_present, up to the first command: the port is on, and whatever the
\* device sent before DISABLE_SCANNING reached it is read and thrown away.
next_device ==
    /\ pc = "next_device" /\ todo # <<>>
    /\ channel' = Head(todo) /\ todo' = Tail(todo)
    /\ enabled' = enabled \cup {Head(todo)}
    /\ pc' = "reset"
    /\ UNCHANGED <<resend_counter, dual, passed, multiplexed, present, drivers, config, scanning, identity>>

\* reset_device: ACK and then the result of the device's test; nothing, 0xFE or a failure: no device.
reset_device(answer) ==
    /\ pc = "reset"
    /\ IF answer = "self_test_passed"
       THEN pc' = "disable_scanning" /\ UNCHANGED enabled
       ELSE pc' = "next_device" /\ enabled' = disabled(channel)
    /\ scanning' = IF answer = "self_test_passed" THEN scanning \cup {channel} ELSE scanning \ {channel}
    /\ identity' = <<>>
    /\ UNCHANGED <<channel, todo, resend_counter, dual, passed, multiplexed, present, drivers, config>>

\* send_command_to_device with an ACK expected, one attempt: other bytes are skipped; the third
\* attempt ends in a panic before its answer is read, and so does no answer at all.
Attempt(from, answer) ==
    /\ pc = from
    /\ answer \in {"ack", "resend", "none"}

Acknowledged(answer) == answer = "ack" /\ resend_counter > 1
Resent(answer) == answer = "resend" /\ resend_counter > 1
GivesUp(answer) == resend_counter = 1 \/ answer = "none"

Resends(answer) ==
    \/ /\ Resent(answer)
       /\ resend_counter' = resend_counter - 1
       /\ UNCHANGED <<pc, channel, todo, dual, passed, multiplexed, present, drivers, config, enabled, scanning, identity>>
    \/ GivesUp(answer) /\ Panics

disable_scanning(answer) ==
    /\ Attempt("disable_scanning", answer)
    /\ \/ /\ Acknowledged(answer)
          /\ pc' = "identify" /\ resend_counter' = 3 /\ scanning' = scanning \ {channel}
          /\ UNCHANGED <<channel, todo, dual, passed, multiplexed, present, drivers, config, enabled, identity>>
       \/ Resends(answer)

\* identify_device: IDENTIFY, then bytes until none comes; a byte that cannot come there is skipped.
identify(answer) ==
    /\ Attempt("identify", answer)
    /\ \/ /\ Acknowledged(answer)
          /\ pc' = "identity" /\ resend_counter' = 3
          /\ UNCHANGED <<channel, todo, dual, passed, multiplexed, present, drivers, config, enabled, scanning, identity>>
       \/ Resends(answer)

FirstBytes == {0, 3, 4, 171}
SecondBytes == {65, 193, 131}

identity_byte(byte) ==
    /\ pc = "identity" /\ Len(identity) < 2
    /\ identity' = IF byte \in (IF identity = <<>> THEN FirstBytes ELSE SecondBytes) THEN Append(identity, byte) ELSE identity
    /\ UNCHANGED <<pc, channel, todo, resend_counter, dual, passed, multiplexed, present, drivers, config, enabled, scanning>>

is_keyboard == Len(identity) \in {0, 2}

\* No further byte, or two of them: the driver is made; the port is off until all devices are known.
construct(magic) ==
    /\ pc = "identity"
    /\ drivers' = drivers \cup {<<channel, IF is_keyboard THEN "PS2Keyboard"
                                           ELSE IF magic THEN "SynapticsTouchpad" ELSE "PS2Mouse">>}
    /\ present' = present \cup {channel}
    /\ enabled' = disabled(channel)
    /\ pc' = "next_device"
    /\ UNCHANGED <<channel, todo, resend_counter, dual, passed, multiplexed, config, scanning, identity>>

\* Telling a mouse from a touch pad, and setting either up, takes further commands and answers.
mouse_stays_silent == pc = "identity" /\ ~is_keyboard /\ Panics

\* All channels are done: the devices found are enabled, the first port first.
all_known ==
    /\ pc = "next_device" /\ todo = <<>>
    /\ IF passed = {} THEN Panics
       ELSE /\ todo' = SelectSeq(<<"ONE">> \o (IF multiplexed THEN AuxChannels ELSE <<"TWO">>),
                                 LAMBDA c : c \in present)
            /\ pc' = "enable"
            /\ UNCHANGED <<channel, resend_counter, dual, passed, multiplexed, present, drivers, config, enabled, scanning, identity>>

enable ==
    /\ pc = "enable" /\ todo # <<>>
    /\ channel' = Head(todo) /\ todo' = Tail(todo)
    /\ enabled' = enabled \cup {Head(todo)}
    /\ pc' = "enable_scanning"
    /\ UNCHANGED <<resend_counter, dual, passed, multiplexed, present, drivers, config, scanning, identity>>

enable_scanning(answer) ==
    /\ Attempt("enable_scanning", answer)
    /\ \/ /\ Acknowledged(answer)
          /\ pc' = "enable" /\ resend_counter' = 3 /\ scanning' = scanning \cup {channel}
          /\ UNCHANGED <<channel, todo, dual, passed, multiplexed, present, drivers, config, enabled, identity>>
       \/ Resends(answer)

\* The last write of the configuration: interrupts for the ports with a device.
configure ==
    /\ pc = "enable" /\ todo = <<>>
    /\ LET ports == (IF "ONE" \in present THEN {"ONE"} ELSE {}) \cup (IF present \ {"ONE"} # {} THEN {"TWO"} ELSE {})
       IN config' = Config(ports, {"ONE", "TWO"} \ ports, "ONE" \in present)
    /\ pc' = "done"
    /\ UNCHANGED <<channel, todo, resend_counter, dual, passed, multiplexed, present, drivers, enabled, scanning, identity>>

Next ==
    \/ disable_ports
    \/ \E answer \in {"passed", "failed"}, second \in BOOLEAN : self_test(answer, second)
    \/ \E good \in SUBSET {"ONE", "TWO"}, answersVersion \in BOOLEAN : test_ports(good, answersVersion)
    \/ next_device
    \/ \E answer \in {"self_test_passed", "none", "resend", "reset_failure"} : reset_device(answer)
    \/ \E answer \in {"ack", "resend", "none"} : disable_scanning(answer) \/ identify(answer) \/ enable_scanning(answer)
    \/ \E byte \in {0, 3, 171, 131, 7} : identity_byte(byte)
    \/ \E magic \in BOOLEAN : construct(magic)
    \/ mouse_stays_silent
    \/ all_known
    \/ enable
    \/ configure

Spec == Init /\ [][Next]_vars

-----------------------------------------------------------------------------

TypeOK ==
    /\ channel \in Channels /\ resend_counter \in 1 .. 3
    /\ passed \subseteq {"ONE", "TWO"} /\ present \subseteq Channels /\ enabled \subseteq Channels /\ scanning \subseteq Channels
    /\ drivers \subseteq Channels \X {"PS2Keyboard", "PS2Mouse", "SynapticsTouchpad"}

\* While a device is reset and identified no other port is enabled, and the device itself no
\* longer sends unasked once it is asked who it is, so that what is read is its answer; when
\* discovery ends, the ports with a driver are those that are enabled, scan and interrupt, one
\* driver each, all others are off, and a multiplexed port is never used as the plain second one.
DiscoveryExact ==
    /\ pc \in {"reset", "disable_scanning", "identify", "identity"} => enabled = {channel}
    /\ pc \in {"identify", "identity"} => channel \notin scanning
    /\ pc = "done" =>
           /\ present = enabled /\ present \subseteq scanning /\ present = {d[1] : d \in drivers}
           /\ Cardinality(drivers) = Cardinality(present)
           /\ config.irq_enabled = {IF c = "ONE" THEN "ONE" ELSE "TWO" : c \in present}
           /\ config.clock_disabled = {"ONE", "TWO"} \ config.irq_enabled
           /\ multiplexed => "TWO" \notin present
=============================================================================
