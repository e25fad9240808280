------------------------ MODULE MC_CanMotorHardware ------------------------
(* The claim of the design document that CanMotorHardware is run against.  *)
EXTENDS CanMotorHardware

\* "on_activate() opens SocketCAN, initializes state to zero" (the design
\* document of 2026-07-17, line 147): the exported wheel state restarts.
ActivationZeroesState ==
    [][lifecycle = "inactive" /\ lifecycle' = "active" =>
           velocities' = [w \in Wheels |-> 0]]_vars
=============================================================================
