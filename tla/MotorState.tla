----------------------------- MODULE MotorState -----------------------------
(***************************************************************************)
(* class MotorState (motor_state.hpp): one simulated wheel motor, a record *)
(* with an operator for each member function, and what the motor node      *)
(* makes of a command frame for it.  Velocities are integers and times are *)
(* ticks; position_rad_, which only feeds the encoder count (see CanWire), *)
(* is left out.                                                            *)
(***************************************************************************)
EXTENDS Integers, Sequences

CONSTANTS
    Sequences,   \* sequence numbers a command may carry
    Targets,     \* target velocities a command may carry
    Watchdogs,   \* watchdog durations a command may carry, in ticks
    Accel        \* max_acceleration_rad_s2_, per tick

ASSUME MotorAssumption ==
    /\ Sequences \subseteq Nat /\ 0 \in Sequences
    /\ Targets \subseteq Int /\ 0 \in Targets
    /\ Watchdogs \subseteq Nat
    /\ Accel \in Nat \ {0}

\* The velocities between two targets: a motor never leaves this range.
Speeds == UNION {pair[1] .. pair[2] : pair \in Targets \X Targets}

Motor ==
    [ target : Targets, velocity : Speeds, watchdog : Watchdogs \cup {0},
      sequence : Sequences, enabled : BOOLEAN, watchdog_stopped : BOOLEAN,
      protocol_fault : BOOLEAN ]

NewMotor ==
    [ target |-> 0, velocity |-> 0, watchdog |-> 0, sequence |-> 0,
      enabled |-> FALSE, watchdog_stopped |-> FALSE, protocol_fault |-> FALSE ]

AcceptCommand(m, seq, v, watchdog) ==
    [m EXCEPT !.sequence = seq, !.target = v, !.watchdog = watchdog,
              !.enabled = TRUE, !.watchdog_stopped = FALSE]

\* Seeded fault: the target of the last command is left standing.
DisableKeepsTarget(m, seq, watchdog) ==
    [m EXCEPT !.sequence = seq, !.watchdog = watchdog,
              !.enabled = FALSE, !.watchdog_stopped = FALSE]

Disable(m, seq, watchdog) ==
    [m EXCEPT !.sequence = seq, !.target = 0, !.watchdog = watchdog,
              !.enabled = FALSE, !.watchdog_stopped = FALSE]

SetProtocolFault(m, fault) == [m EXCEPT !.protocol_fault = fault]

Clamp(x, limit) == IF x > limit THEN limit ELSE IF x < -limit THEN -limit ELSE x

WatchdogExpired(m, since) == m.enabled /\ since > m.watchdog

\* Seeded fault: the whole step is taken however close the target is.
ApproachOvershoots(velocity, target, dt) ==
    IF target > velocity THEN velocity + Accel * dt
    ELSE IF target < velocity THEN velocity - Accel * dt ELSE velocity

Approach(velocity, target, dt) ==
    velocity + Clamp(target - velocity, Accel * dt)

Update(m, dt, since) ==
    LET target == IF WatchdogExpired(m, since) THEN 0 ELSE m.target IN
    [m EXCEPT !.target = target,
              !.watchdog_stopped = @ \/ WatchdogExpired(m, since),
              !.velocity = Approach(@, target, dt)]

\* The status byte: bit 0 enabled, bit 1 watchdog stopped, bit 2 fault.
Status(m) ==
    (IF m.enabled THEN 1 ELSE 0) + (IF m.watchdog_stopped THEN 2 ELSE 0)
        + (IF m.protocol_fault THEN 4 ELSE 0)

-----------------------------------------------------------------------------
(***************************************************************************)
(* The frames of the motor node                                            *)
(***************************************************************************)
Wheels == {0, 1}

\* What decode_command makes of the payload; "short" is a wrong DLC,
\* "reserved" a byte set that must be zero.
Payload == {"good", "short", "reserved"}
Command == [wheel : Wheels, payload : Payload, sequence : Sequences,
            enabled : BOOLEAN, velocity : Targets, watchdog : Watchdogs]

Ack == [kind : {"ack"}, wheel : Wheels, sequence : Sequences, result : 0 .. 2]
Reading == [sequence : Sequences, velocity : Speeds, status : 0 .. 7]
Feedback == [kind : {"feedback"}, wheel : Wheels, reading : Reading,
             short : BOOLEAN]
ErrorFrame == [kind |-> "error"]
BusFrame == Ack \cup Feedback \cup {ErrorFrame}

Adopted(m, c) ==
    IF c.payload # "good" THEN SetProtocolFault(m, TRUE)
    ELSE IF c.enabled
         THEN AcceptCommand(SetProtocolFault(m, FALSE), c.sequence, c.velocity,
                            c.watchdog)
         ELSE Disable(SetProtocolFault(m, FALSE), c.sequence, c.watchdog)

AckResult(c) ==
    CASE c.payload = "good" -> 0 [] c.payload = "short" -> 1 [] OTHER -> 2

AckFor(c, result) ==
    [ kind |-> "ack", wheel |-> c.wheel, sequence |-> c.sequence,
      result |-> result ]

ReadingOf(m) ==
    [sequence |-> m.sequence, velocity |-> m.velocity, status |-> Status(m)]

FeedbackFor(report, short) ==
    [ kind |-> "feedback", wheel |-> report.wheel, reading |-> report.reading,
      short |-> short ]
=============================================================================
