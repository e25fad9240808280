-------------------------- MODULE MC_VirtualMotor --------------------------
(* Sets of command frames for model checking VirtualMotor.                 *)
EXTENDS VirtualMotor

\* Every command the left motor may get: the right one stays at rest.
MCLeft == {c \in Command : c.wheel = 0 /\ (c.enabled \/ c.velocity = 0)}

\* One command, to count frames with.
MCCount == {c \in Command :
    c.wheel = 0 /\ c.velocity = 0 /\ c.sequence = 0 /\ c.payload = "good"
        /\ c.enabled}
=============================================================================
