---------------------------- MODULE MotorContract ----------------------------
(***************************************************************************)
(* What the motor node promises the bus, whatever its threads, timers,     *)
(* locks and injected faults do: a command is obeyed before it is          *)
(* answered, and answered at most once, before the next one is obeyed;     *)
(* only a command that was obeyed keeps the watchdog quiet; the readings   *)
(* of both motors are taken together and leave in the order in which they  *)
(* were taken, each at most once.  Any frame may be lost.                  *)
(***************************************************************************)
EXTENDS MotorState

CONSTANTS
    Commands,   \* the command frames that the bus may carry
    MaxAge,     \* bound: ages are kept up to this one
    MaxLag      \* ticks by which the clock value of an update may be old

VARIABLES
    motors,         \* the two motors
    last_command,   \* ticks since a motor obeyed a valid command
    owed,           \* the command to be answered, one or none
    reports,        \* readings to be reported, oldest first
    sent            \* frames put on the bus by the last step

vars == <<motors, last_command, owed, reports, sent>>

Init ==
    /\ motors = [w \in Wheels |-> NewMotor]
    /\ last_command = [w \in Wheels |-> 0]
    /\ owed = <<>> /\ reports = <<>> /\ sent = <<>>

-----------------------------------------------------------------------------
Obey(c) ==
    /\ owed = <<>> /\ owed' = <<c>>
    /\ motors' = [motors EXCEPT ![c.wheel] = Adopted(@, c)]
    /\ last_command' = [last_command EXCEPT
                          ![c.wheel] = IF c.payload = "good" THEN 0 ELSE @]
    /\ sent' = <<>>
    /\ UNCHANGED reports

Acknowledge ==
    /\ owed # <<>> /\ owed' = <<>>
    /\ sent' \in {<<>>, <<AckFor(owed[1], AckResult(owed[1]))>>}
    /\ UNCHANGED <<motors, last_command, reports>>

\* dt is the time since the last update; the watchdog is judged by a clock
\* value that may be "lag" ticks old.
Advance(dt, lag) ==
    /\ motors' = [w \in Wheels |-> Update(motors[w], dt, last_command[w] - lag)]
    /\ sent' = <<>>
    /\ UNCHANGED <<last_command, owed, reports>>

Sample ==
    /\ reports' = reports \o
         <<[wheel |-> 0, reading |-> ReadingOf(motors[0])],
           [wheel |-> 1, reading |-> ReadingOf(motors[1])]>>
    /\ sent' = <<>>
    /\ UNCHANGED <<motors, last_command, owed>>

\* The oldest reading leaves, perhaps after an error frame, or is lost.
Emit ==
    /\ reports # <<>> /\ reports' = Tail(reports)
    /\ \E error \in {<<>>, <<ErrorFrame>>}, short \in BOOLEAN :
           sent' \in {error, error \o <<FeedbackFor(Head(reports), short)>>}
    /\ UNCHANGED <<motors, last_command, owed>>

\* A reading is given up before its turn.
Discard ==
    /\ \E i \in 1 .. Len(reports) :
           reports' = SubSeq(reports, 1, i - 1) \o SubSeq(reports, i + 1, Len(reports))
    /\ sent' = <<>>
    /\ UNCHANGED <<motors, last_command, owed>>

\* A step that the bus sees nothing of, or only an error frame.
Other ==
    /\ sent' \in {<<>>, <<ErrorFrame>>}
    /\ UNCHANGED <<motors, last_command, owed, reports>>

Older(age) == IF age < MaxAge THEN age + 1 ELSE age

Tick ==
    /\ last_command' = [w \in Wheels |-> Older(last_command[w])]
    /\ sent' = <<>>
    /\ UNCHANGED <<motors, owed, reports>>

Next ==
    \/ \E c \in Commands : Obey(c)
    \/ Acknowledge
    \/ \E dt \in 0 .. MaxAge, lag \in 0 .. MaxLag : Advance(dt, lag)
    \/ Sample
    \/ Emit
    \/ Discard
    \/ Other
    \/ Tick

Spec == Init /\ [][Next]_vars
=============================================================================
