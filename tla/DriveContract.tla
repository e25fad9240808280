---------------------------- MODULE DriveContract ----------------------------
(***************************************************************************)
(* What the hardware plugin promises the two motors, whatever happens on   *)
(* the bus: they are stopped before they are first driven, both are driven *)
(* in every cycle with what the controllers want, any fault puts one stop  *)
(* behind whatever was sent, and after a stop nothing is sent until a new  *)
(* activation, which forgets what was wanted.                              *)
(***************************************************************************)
EXTENDS Integers, Sequences

CONSTANTS
    WireMax,      \* largest velocity of a command frame
    Velocities    \* what a controller may want

VARIABLES
    phase,     \* "released", "operating", or "stopped" by a fault
    wanted,    \* the velocity wanted of each wheel
    sent       \* frames sent by the last step

vars == <<phase, wanted, sent>>

Wheels == {0, 1}

Still == [w \in Wheels |-> 0]

Limited(v) ==
    IF v > WireMax THEN WireMax ELSE IF v < -WireMax - 1 THEN -WireMax - 1 ELSE v

StopFrame(w) == [wheel |-> w, enabled |-> FALSE, velocity |-> 0]
DriveFrame(w) == [wheel |-> w, enabled |-> TRUE, velocity |-> Limited(wanted[w])]

BothStopped == <<StopFrame(0), StopFrame(1)>>

\* Each of the two stop frames may fail to leave; the other is sent anyway.
Stops == {<<>>, <<StopFrame(0)>>, <<StopFrame(1)>>, BothStopped}

Init ==
    /\ phase = "released"
    /\ wanted = Still
    /\ sent = <<>>

Activate ==
    /\ phase # "operating"
    /\ sent' \in Stops
    /\ phase' = IF sent' = BothStopped THEN "operating" ELSE "stopped"
    /\ wanted' = Still

Want(w, v) ==
    /\ wanted' = [wanted EXCEPT ![w] = v]
    /\ sent' = <<>>
    /\ UNCHANGED phase

Command ==
    /\ phase = "operating"
    /\ sent' = <<DriveFrame(0), DriveFrame(1)>>
    /\ UNCHANGED <<phase, wanted>>

\* A fault in the middle of a cycle may come after the first command frame.
Fault ==
    /\ phase # "stopped" /\ phase' = "stopped"
    /\ wanted' = Still
    /\ IF phase = "operating"
       THEN \E driven \in {<<>>, <<DriveFrame(0)>>}, stops \in Stops :
                sent' = driven \o stops
       ELSE sent' = <<>>

Release ==
    /\ wanted' = Still
    /\ IF phase = "operating"
       THEN phase' = "released" /\ sent' \in Stops
       ELSE UNCHANGED phase /\ sent' = <<>>

\* Everything else is invisible to the motors.
Quiet == sent' = <<>> /\ UNCHANGED <<phase, wanted>>

Next ==
    \/ Quiet
    \/ Activate
    \/ \E w \in Wheels, v \in Velocities : Want(w, v)
    \/ Command
    \/ Fault
    \/ Release

Spec == Init /\ [][Next]_vars
=============================================================================
