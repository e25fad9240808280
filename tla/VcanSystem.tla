------------------------------ MODULE VcanSystem ------------------------------
(***************************************************************************)
(* The robot: the hardware plugin (CanMotorHardware), the motor node as    *)
(* its contract describes it (MotorContract, which VirtualMotor keeps),    *)
(* the bus between them, and the controller manager, which calls read, the *)
(* controllers and write in every control cycle and the lifecycle          *)
(* callbacks between two cycles.                                           *)
(*                                                                         *)
(* Each process reads the bus from the receive queue of its own socket.    *)
(* A queue is first in first out, holds QueueMax frames, and drops what    *)
(* arrives when it is full; the plugin's queue exists while its receiver   *)
(* is open.  "Faults" says what may go wrong in a run:                     *)
(*   "command", "ack"  frames of that kind are lost                        *)
(*   "send"      a send of the plugin throws                               *)
(*   "noise"     error frames, and feedback frames of a wrong length, that *)
(*               the plugin ignores: to it they are as good as lost        *)
(*   "late"      time passes whatever is still to be done                  *)
(*   "restless"  the component is activated with frames still on their way *)
(***************************************************************************)
EXTENDS CanMotorHardware

CONSTANTS
    Faults,            \* what may go wrong
    LossyWheels,       \* whose frames may be lost
    Duties,            \* what everybody does once in a tick
    CommandWatchdog,   \* command_watchdog_ms_, in ticks
    Accel,             \* acceleration of a motor, per tick
    MaxAge, MaxLag,    \* see MotorContract
    QueueMax,          \* capacity of a receive queue
    MaxStale           \* bound: the age of a feedback frame is kept up to this

ASSUME SystemAssumption ==
    /\ Faults \subseteq {"command", "ack", "send", "noise", "late", "restless"}
    /\ LossyWheels \subseteq Wheels
    /\ Duties \subseteq {"cycle", "advance", "report"}
    /\ CommandWatchdog \in Nat /\ Accel \in Nat \ {0}
    /\ MaxLag \in Nat /\ MaxAge \in Nat /\ CommandWatchdog + MaxLag < MaxAge
    /\ QueueMax \in Nat \ {0} /\ MaxStale \in Nat
    /\ WireMin .. WireMax \subseteq FeedbackVelocities

VARIABLES
    motors, last_command, owed, reports, motor_sent,   \* see MotorContract
    to_motors,    \* receive queue of the motor node
    to_plugin,    \* receive queue of the plugin: frames and their ages
    turn,         \* the control cycle: "read", then "write"
    done,         \* duties performed since the last tick
    suspects,     \* history: wheels that lost a command or an ACK since the
                  \* activation, or had one on its way at the activation
    lost,         \* history: wheels that lost what the plugin waits for
    shown_age     \* history: age of the feedback that velocities_ shows

Motors == INSTANCE MotorContract WITH
    Sequences <- SequenceNumbers, Targets <- WireMin .. WireMax,
    Watchdogs <- {CommandWatchdog}, Commands <- {}, sent <- motor_sent

plugin == <<lifecycle, pc, frames, commands, velocities, health, latch, sockets,
            diagnostics, wire, updated>>
node == <<motors, last_command, owed, reports>>
bus == <<to_motors, to_plugin>>
history == <<suspects, lost, shown_age>>
system_vars == <<vars, node, motor_sent, bus, turn, done, history>>

\* A duty is performed once in a tick.
Perform(duty) ==
    duty \in Duties \ done /\ done' = done \cup {duty}

SystemInit ==
    /\ Init
    /\ Motors!Init
    /\ to_motors = <<>> /\ to_plugin = <<>>
    /\ turn = "read" /\ done = {}
    /\ suspects = {} /\ lost = {}
    /\ shown_age = [w \in Wheels |-> 0]

-----------------------------------------------------------------------------
(***************************************************************************)
(* The bus                                                                 *)
(***************************************************************************)
Enqueue(queue, new) ==
    SubSeq(queue \o new, 1, IF Len(queue) + Len(new) < QueueMax
                            THEN Len(queue) + Len(new) ELSE QueueMax)

\* What the motor node decodes of a command frame (CanWire).
CommandOf(f) ==
    [ wheel |-> f.wheel, payload |-> "good", sequence |-> f.sequence,
      enabled |-> f.enabled, velocity |-> f.velocity,
      watchdog |-> CommandWatchdog ]

Entry(f) == [frame |-> f, age |-> 0]

Awaited(w, seq) ==
    \E i \in 1 .. Len(health.pending[w]) : health.pending[w][i].sequence = seq

MayFail(kind, w) == kind \in Faults /\ w \in LossyWheels

\* The command c, or its ACK, is gone.
Missing(c) ==
    /\ suspects' = suspects \cup {c.wheel}
    /\ lost' = IF Awaited(c.wheel, c.sequence) THEN lost \cup {c.wheel} ELSE lost

OnTheWay(w) ==
    \/ \E i \in 1 .. Len(to_motors) : to_motors[i].wheel = w
    \/ owed # <<>> /\ owed[1].wheel = w

-----------------------------------------------------------------------------
(***************************************************************************)
(* The plugin.  Its diagnostics lock is free and its component is not      *)
(* finalized: the runs of CanMotorHardware are about those.                *)
(***************************************************************************)
NodeIdle == UNCHANGED node /\ motor_sent' = <<>>

PluginEnvironment ==
    /\ ~diagnostics_pending' /\ lifecycle' # "finalized"
    /\ "send" \in Faults \/ ~SendThrew

\* After a callback: its frames are on the bus, and a closed receiver has
\* no queue.
PluginSteps ==
    /\ PluginEnvironment
    /\ NodeIdle
    /\ to_motors' = Enqueue(to_motors, [i \in 1 .. Len(sent') |-> CommandOf(sent'[i])])
    /\ to_plugin' = IF receiver' THEN to_plugin ELSE <<>>

\* The bound keeps the frames of the plugin in the queue of the motor node.
Room == Len(to_motors) + 4 <= QueueMax

Activate ==
    /\ turn = "read" /\ Room
    /\ "restless" \in Faults \/ \A w \in Wheels : ~OnTheWay(w)
    /\ OnActivate
    /\ "send" \in Faults \/ lifecycle' = "active"
    /\ PluginSteps
    /\ suspects' = {w \in Wheels : OnTheWay(w)} /\ lost' = {}
    /\ shown_age' = [w \in Wheels |-> 0]
    /\ UNCHANGED <<turn, done>>

Deactivate ==
    /\ turn = "read" /\ Room
    /\ OnDeactivate
    /\ PluginSteps
    /\ UNCHANGED <<turn, done, history>>

BeginRead ==
    /\ turn = "read" /\ "cycle" \notin done /\ Room
    /\ ReadStart
    /\ PluginSteps
    /\ turn' = IF pc' = "idle" THEN "write" ELSE "read"
    /\ UNCHANGED <<done, history>>

ReadFrame ==
    LET f == Head(to_plugin).frame IN
    /\ pc = "reading" /\ to_plugin # <<>> /\ to_plugin' = Tail(to_plugin)
    /\ \/ f.kind = "ack" /\ ReceiveAck(f.wheel, f.sequence, f.result)
       \/ f.kind = "feedback" /\ ~f.short
            /\ ReceiveFeedback(f.wheel, f.reading.velocity)
       \/ f.kind = "feedback" /\ f.short /\ ReceiveIgnored
       \/ f.kind = "error" /\ ReceiveWarning({"CRTL"})
    /\ PluginEnvironment
    /\ shown_age' = IF f.kind = "feedback" /\ ~f.short
                    THEN [shown_age EXCEPT ![f.wheel] = Head(to_plugin).age]
                    ELSE shown_age
    /\ NodeIdle
    /\ UNCHANGED <<to_motors, turn, done, suspects, lost>>

EndRead ==
    /\ pc = "reading" /\ (to_plugin = <<>> \/ frames = MaxFramesPerRead) /\ Room
    /\ ReadFinish
    /\ PluginSteps
    /\ turn' = "write"
    /\ UNCHANGED <<done, history>>

WriteCommands ==
    /\ turn = "write" /\ Room
    /\ Write
    /\ PluginSteps
    /\ turn' = "read" /\ Perform("cycle")
    /\ UNCHANGED history

Control ==
    /\ turn = "write"
    /\ \E w \in Wheels, v \in Velocities : ControllerUpdate(w, v)
    /\ PluginSteps
    /\ UNCHANGED <<turn, done, history>>

-----------------------------------------------------------------------------
(***************************************************************************)
(* The motor node                                                          *)
(***************************************************************************)
PluginIdle == UNCHANGED plugin /\ sent' = <<>>

Received(new) ==
    to_plugin' = IF receiver THEN Enqueue(to_plugin, [i \in 1 .. Len(new) |-> Entry(new[i])])
                 ELSE <<>>

Obey ==
    /\ to_motors # <<>> /\ to_motors' = Tail(to_motors)
    /\ \/ Motors!Obey(Head(to_motors)) /\ UNCHANGED <<suspects, lost>>
       \/ /\ MayFail("command", Head(to_motors).wheel) /\ owed = <<>>
          /\ NodeIdle /\ Missing(Head(to_motors))
    /\ PluginIdle
    /\ UNCHANGED <<to_plugin, turn, done, shown_age>>

\* A full queue loses the ACK as well as a failing send does.
Answer ==
    /\ Motors!Acknowledge
    /\ MayFail("ack", owed[1].wheel) \/ motor_sent' # <<>>
    /\ Received(motor_sent')
    /\ IF motor_sent' = <<>> \/ Len(to_plugin) = QueueMax
       THEN Missing(owed[1]) ELSE UNCHANGED <<suspects, lost>>
    /\ PluginIdle
    /\ UNCHANGED <<to_motors, turn, done, shown_age>>

Advance ==
    /\ Perform("advance")
    /\ \E dt \in 1 .. MaxAge, lag \in 0 .. MaxLag : Motors!Advance(dt, lag)
    /\ PluginIdle
    /\ UNCHANGED <<bus, turn, history>>

Sample ==
    /\ reports = <<>> /\ Perform("report")
    /\ Motors!Sample
    /\ PluginIdle
    /\ UNCHANGED <<bus, turn, history>>

Emit ==
    /\ Motors!Emit
    /\ \E i \in 1 .. Len(motor_sent') : motor_sent'[i].kind = "feedback"
    /\ \/ MayFail("noise", Head(reports).wheel)
       \/ \A i \in 1 .. Len(motor_sent') :
              motor_sent'[i].kind = "feedback" /\ ~motor_sent'[i].short
    /\ Received(motor_sent')
    /\ PluginIdle
    /\ UNCHANGED <<to_motors, turn, done, history>>

-----------------------------------------------------------------------------
\* Everybody has done what one tick allows for: a control cycle, an update
\* and a report, and no command is left unanswered.
OnTime ==
    /\ done = Duties
    /\ to_motors = <<>> /\ owed = <<>> /\ reports = <<>>

Stale(age) == IF age < MaxStale THEN age + 1 ELSE age

\* While a fault is latched no decision looks at the plugin's own deadlines;
\* here they stand still.
Pass ==
    /\ "late" \in Faults \/ OnTime
    /\ IF fault_latched THEN PluginIdle ELSE Tick
    /\ Motors!Tick
    /\ to_plugin' = [i \in 1 .. Len(to_plugin) |->
                       [to_plugin[i] EXCEPT !.age = Stale(@)]]
    /\ shown_age' = [w \in Wheels |-> Stale(shown_age[w])]
    /\ done' = {}
    /\ UNCHANGED <<to_motors, turn, suspects, lost>>

SystemNext ==
    \/ Activate
    \/ Deactivate
    \/ BeginRead
    \/ ReadFrame
    \/ EndRead
    \/ WriteCommands
    \/ Control
    \/ Obey
    \/ Answer
    \/ Advance
    \/ Sample
    \/ Emit
    \/ Pass

SystemSpec == SystemInit /\ [][SystemNext]_system_vars

\* The control loop, the threads and timers of the motor node and the clock go
\* on (strongly, the clock: no number of callbacks makes time stand still);
\* nothing is assumed of the lifecycle callbacks, the controllers and the
\* frames that get lost.
FairSystemSpec ==
    /\ SystemSpec
    /\ WF_system_vars(BeginRead) /\ WF_system_vars(ReadFrame)
    /\ WF_system_vars(EndRead) /\ WF_system_vars(WriteCommands)
    /\ WF_system_vars(Obey) /\ WF_system_vars(Answer)
    /\ WF_system_vars(Advance) /\ WF_system_vars(Sample)
    /\ WF_system_vars(Emit) /\ SF_system_vars(Pass)

-----------------------------------------------------------------------------
(***************************************************************************)
(* Properties                                                              *)
(***************************************************************************)
SystemTypeOK ==
    /\ TypeOK
    /\ motors \in [Wheels -> Motors!Motor]
    /\ last_command \in [Wheels -> 0 .. MaxAge]
    /\ owed \in {<<>>} \cup {<<c>> : c \in Motors!Command}
    /\ to_motors \in Seq(Motors!Command) /\ Len(to_motors) <= QueueMax
    /\ \A i \in 1 .. Len(to_plugin) :
           to_plugin[i].frame \in Motors!BusFrame /\ to_plugin[i].age \in 0 .. MaxStale
    /\ Len(to_plugin) <= QueueMax /\ (~receiver => to_plugin = <<>>)
    /\ turn \in {"read", "write"} /\ (pc = "reading" => turn = "read")
    /\ done \subseteq Duties /\ suspects \subseteq Wheels /\ lost \subseteq suspects

\* With everybody on time, a robot that loses nothing but feedback frames
\* latches no fault other than the feedback timeout of a wheel whose feedback
\* really is too old, and no motor that is driven is stopped by its watchdog:
\* the ACKs, feedback and watchdogs of the two processes keep step.
NoSpuriousFault ==
    lifecycle = "active" =>
        /\ fault_latched =>
               LET w == stop_reason.wheel IN
               /\ stop_reason.cause = "feedback_timeout" /\ w \in LossyWheels
               /\ shown_age[w] > FeedbackTimeout
        /\ \A w \in Wheels : trail[w] = "driving" => ~motors[w].watchdog_stopped

\* When the plugin operates and waits for no ACK of a wheel it has driven,
\* that motor has adopted the last command it was sent, whatever was lost,
\* late, or left over from an earlier activation.
AckMeansObeyed ==
    pc = "idle" /\ Operating =>
        \A w \in Wheels :
            health.pending[w] = <<>> /\ trail[w] = "driving" =>
                motors[w].sequence = sequences[w] /\ motors[w].enabled

\* An ACK is only called unexpected, and the robot stopped for it, when a
\* command or an ACK of that wheel was lost or was still on its way when the
\* component was activated; no ACK is ever a rejection.
UnexpectedAckHasCause ==
    /\ stop_reason.cause = "unexpected_ack" => stop_reason.wheel \in suspects
    /\ stop_reason.cause # "ack_rejected"

\* While everybody is on time, a read that reports success shows feedback of
\* both wheels that was put on the bus not longer ago than the feedback
\* timeout and one control cycle, although the age is counted from the
\* moment a frame leaves the queue.
ShownFeedbackIsRecent ==
    [][pc = "reading" /\ pc' = "idle" /\ ~fault_latched' =>
           \A w \in Wheels : shown_age[w] <= FeedbackTimeout + 1]_system_vars

\* A lost command or a lost ACK does not go unnoticed: the plugin keeps
\* waiting for an ACK of that wheel until it latches the fault or is released,
\* whatever it receives meanwhile, so that the ACK timeout must come
\* (GoodReadIsHealthy: no successful read leaves an overdue ACK behind).
LossStaysAwaited ==
    pc = "idle" /\ Operating => \A w \in lost : health.pending[w] # <<>>

\* A fault that stays latched brings both motors to rest: by the stop
\* frames, or by the watchdogs when those are lost.
FaultStopsMotors ==
    <>[]fault_latched =>
        <>[](\A w \in Wheels : motors[w].target = 0 /\ motors[w].velocity = 0)
=============================================================================
