--------------------------- MODULE VcanSystem_proofs ---------------------------
(***************************************************************************)
(* Theorems about the robot: the plugin, the bus and the motors together,  *)
(* for every value of the constants.                                       *)
(***************************************************************************)
EXTENDS VcanSystem, CanMotorHardware_contract, FiniteSetTheorems

-----------------------------------------------------------------------------
(***************************************************************************)
(* One motor, as the contract of the motor node has it                     *)
(***************************************************************************)
LEMMA WireRange ==
    /\ WireMin \in Int /\ WireMax \in Int /\ 0 \in WireMin .. WireMax
    /\ WireMin .. WireMax \subseteq Int
BY HardwareAssumption DEF WireMin

LEMMA MotorSpeeds == Motors!Speeds = WireMin .. WireMax
<1>1. ASSUME NEW v \in Motors!Speeds PROVE v \in WireMin .. WireMax
    <2>1. PICK pair \in (WireMin .. WireMax) \X (WireMin .. WireMax) : v \in pair[1] .. pair[2]
        BY <1>1, Zenon DEF Motors!Speeds
    <2>2. pair[1] \in WireMin .. WireMax /\ pair[2] \in WireMin .. WireMax
        OBVIOUS
    <2> QED BY <2>1, <2>2, WireRange
<1>2. ASSUME NEW v \in WireMin .. WireMax PROVE v \in Motors!Speeds
    <2> DEFINE pair == <<WireMin, WireMax>>
    <2>1. /\ pair \in (WireMin .. WireMax) \X (WireMin .. WireMax)
          /\ pair[1] .. pair[2] = WireMin .. WireMax
        BY WireRange
    <2> QED BY <1>2, <2>1, Zenon DEF Motors!Speeds
<1> QED BY <1>1, <1>2

LEMMA ProductNat == ASSUME NEW a \in Nat, NEW b \in Nat PROVE a * b \in Nat
BY SMT

LEMMA ApproachRange ==
    ASSUME NEW v \in WireMin .. WireMax, NEW t \in WireMin .. WireMax, NEW dt \in Nat
    PROVE  Motors!Approach(v, t, dt) \in WireMin .. WireMax
<1> DEFINE k == Accel * dt
<1>1. k \in Nat
    BY ProductNat, SystemAssumption
<1> HIDE DEF k
<1>2. v + Motors!Clamp(t - v, k) \in WireMin .. WireMax
    BY <1>1, WireRange, SMT DEF Motors!Clamp
<1> QED BY <1>2 DEF Motors!Approach, k

LEMMA MotorFields ==
    Motors!Motor =
        [ target : WireMin .. WireMax, velocity : WireMin .. WireMax,
          watchdog : {CommandWatchdog, 0}, sequence : SequenceNumbers,
          enabled : BOOLEAN, watchdog_stopped : BOOLEAN, protocol_fault : BOOLEAN ]
<1>1. {CommandWatchdog} \cup {0} = {CommandWatchdog, 0}
    OBVIOUS
<1> QED BY <1>1, MotorSpeeds DEF Motors!Motor

LEMMA NewMotorType == Motors!NewMotor \in Motors!Motor
BY MotorFields, WireRange, HealthAssumption DEF Motors!NewMotor, SequenceNumbers

LEMMA AdoptedMotor ==
    ASSUME NEW m \in Motors!Motor, NEW c \in Motors!Command, c.payload = "good"
    PROVE  LET n == Motors!Adopted(m, c) IN
           n \in Motors!Motor /\ n.sequence = c.sequence /\ n.enabled = c.enabled
BY MotorFields, WireRange
   DEF Motors!Adopted, Motors!SetProtocolFault, Motors!AcceptCommand, Motors!Disable,
       Motors!Command

LEMMA UpdatedMotor ==
    ASSUME NEW m \in Motors!Motor, NEW dt \in Nat, NEW since \in Int
    PROVE  LET n == Motors!Update(m, dt, since) IN
           n \in Motors!Motor /\ n.sequence = m.sequence /\ n.enabled = m.enabled
<1> DEFINE target == IF Motors!WatchdogExpired(m, since) THEN 0 ELSE m.target
           v == Motors!Approach(m.velocity, target, dt)
           stopped == m.watchdog_stopped \/ Motors!WatchdogExpired(m, since)
<1>1. target \in WireMin .. WireMax /\ m.velocity \in WireMin .. WireMax
    BY MotorFields, WireRange
<1>2. v \in WireMin .. WireMax
    BY <1>1, ApproachRange
<1>3. stopped \in BOOLEAN
    BY MotorFields DEF Motors!WatchdogExpired
<1>4. Motors!Update(m, dt, since) =
        [m EXCEPT !.target = target, !.watchdog_stopped = stopped, !.velocity = v]
    BY MotorFields DEF Motors!Update
<1> HIDE DEF target, v, stopped
<1> QED BY <1>1, <1>2, <1>3, <1>4, MotorFields

LEMMA StatusRange ==
    ASSUME NEW m \in Motors!Motor PROVE Motors!Status(m) \in 0 .. 7
BY MotorFields, SMT DEF Motors!Status

ReportRecord == [wheel : Wheels, reading : Motors!Reading]

LEMMA ReportType ==
    ASSUME NEW m \in Motors!Motor, NEW w \in Wheels
    PROVE  [wheel |-> w, reading |-> Motors!ReadingOf(m)] \in ReportRecord
<1>1. Motors!ReadingOf(m) \in Motors!Reading
    BY StatusRange, MotorFields, MotorSpeeds DEF Motors!ReadingOf, Motors!Reading
<1> QED BY <1>1 DEF ReportRecord

LEMMA FeedbackType ==
    ASSUME NEW r \in ReportRecord, NEW short \in BOOLEAN
    PROVE  LET f == Motors!FeedbackFor(r, short) IN
           f \in Motors!Feedback /\ f.kind = "feedback"
BY DEF Motors!FeedbackFor, Motors!Feedback, ReportRecord, Motors!Wheels, Wheels

LEMMA AckType ==
    ASSUME NEW c \in Motors!Command, c.payload = "good"
    PROVE  LET f == Motors!AckFor(c, Motors!AckResult(c)) IN
           /\ f \in Motors!Ack /\ f.kind = "ack" /\ f.result = 0
           /\ f.wheel = c.wheel /\ f.sequence = c.sequence
BY DEF Motors!AckFor, Motors!AckResult, Motors!Command, Motors!Ack

\* What the plugin sends is a well-formed command.
LEMMA CommandType ==
    ASSUME NEW f \in Frame
    PROVE  CommandOf(f) \in Motors!Command /\ CommandOf(f).payload = "good"
BY WireRange DEF CommandOf, Motors!Command, Frame, Motors!Wheels, Wheels, Motors!Payload

-----------------------------------------------------------------------------
(***************************************************************************)
(* The receive queues                                                      *)
(***************************************************************************)
\* A queue takes new entries behind the old ones and drops what is too much.
Grows(S, q, new, e) ==
    /\ e \in Seq(S) /\ Len(e) <= QueueMax
    /\ Len(e) >= Len(q) /\ Len(e) <= Len(q) + Len(new)
    /\ Len(q) + Len(new) <= QueueMax => Len(e) = Len(q) + Len(new)
    /\ Len(q) < QueueMax /\ Len(new) > 0 => Len(e) > Len(q)
    /\ \A i \in 1 .. Len(q) : e[i] = q[i]
    /\ \A i \in Len(q) + 1 .. Len(e) : e[i] = new[i - Len(q)]

LEMMA EnqueueIs ==
    ASSUME NEW S, NEW q \in Seq(S), NEW new \in Seq(S), Len(q) <= QueueMax
    PROVE  Grows(S, q, new, Enqueue(q, new))
<1> DEFINE r == q \o new
           n == IF Len(q) + Len(new) < QueueMax THEN Len(q) + Len(new) ELSE QueueMax
           e == SubSeq(r, 1, n)
<1>1. Len(q) \in Nat /\ Len(new) \in Nat /\ QueueMax \in Nat /\ n \in Nat
    BY SystemAssumption, LenProperties
<1>2. /\ r \in Seq(S) /\ Len(r) = Len(q) + Len(new)
      /\ \A i \in 1 .. Len(q) + Len(new) :
             r[i] = IF i <= Len(q) THEN q[i] ELSE new[i - Len(q)]
    BY ConcatProperties
<1>3. n <= Len(r) /\ n >= Len(q) /\ n <= QueueMax
    BY <1>1, <1>2
<1>4. n <= Len(q) + Len(new) /\ (Len(q) + Len(new) <= QueueMax => n = Len(q) + Len(new))
    BY <1>1
<1>5. Len(q) < QueueMax /\ Len(new) > 0 => n > Len(q)
    BY <1>1
<1> HIDE DEF n, r
<1>6. \A i \in 1 .. n : r[i] \in S
    BY <1>1, <1>2, <1>3, ElementOfSeq
<1>7. /\ e \in Seq(S) /\ Len(e) = IF 1 <= n THEN n - 1 + 1 ELSE 0
      /\ \A i \in 1 .. n - 1 + 1 : e[i] = r[1 + i - 1]
    BY <1>1, <1>6, SubSeqProperties
<1>8. /\ Len(e) = n /\ \A i \in 1 .. n : e[i] = r[i]
    BY <1>1, <1>7
<1> HIDE DEF e
<1>9. \A i \in 1 .. Len(q) : e[i] = q[i]
    BY <1>1, <1>2, <1>3, <1>8
<1>10. ASSUME NEW i \in Len(q) + 1 .. n PROVE e[i] = new[i - Len(q)]
    <2>1. i \in 1 .. n /\ i \in 1 .. Len(q) + Len(new) /\ ~(i <= Len(q))
        BY <1>1, <1>2, <1>3
    <2> QED BY <1>2, <1>8, <2>1
<1>11. Enqueue(q, new) = e
    BY DEF Enqueue, e, n, r
<1>12. Grows(S, q, new, e)
    BY <1>3, <1>4, <1>5, <1>7, <1>8, <1>9, <1>10 DEF Grows
<1> QED BY <1>11, <1>12

GoodCommand == {c \in Motors!Command : c.payload = "good"}

\* No ACK of the motor node is a rejection.
GoodFrame == {f \in Motors!BusFrame : f.kind = "ack" => f.result = 0}

BusEntry == [frame : GoodFrame, age : 0 .. MaxStale]

\* What is known of the motor node, of the bus and of the cycle.  Every
\* command on its way is well formed, and so every ACK accepts it.
NodeOK ==
    /\ motors \in [Wheels -> Motors!Motor]
    /\ last_command \in [Wheels -> 0 .. MaxAge]
    /\ owed \in {<<>>} \cup {<<c>> : c \in GoodCommand}
    /\ reports \in Seq(ReportRecord)

BusOK ==
    /\ to_motors \in Seq(GoodCommand) /\ Len(to_motors) <= QueueMax
    /\ to_plugin \in Seq(BusEntry) /\ Len(to_plugin) <= QueueMax
    /\ ~receiver => to_plugin = <<>>

CycleOK ==
    /\ turn \in {"read", "write"} /\ (pc = "reading" => turn = "read")
    /\ done \subseteq Duties /\ suspects \subseteq Wheels /\ lost \subseteq suspects

SystemInv == TypeOK /\ QueueInv /\ NodeOK /\ BusOK /\ CycleOK

CommandsOf(new) == [i \in 1 .. Len(new) |-> CommandOf(new[i])]
EntriesOf(new) == [i \in 1 .. Len(new) |-> Entry(new[i])]

LEMMA CommandsType ==
    ASSUME NEW new \in Seq(Frame)
    PROVE  CommandsOf(new) \in Seq(GoodCommand) /\ Len(CommandsOf(new)) = Len(new)
<1>1. \A i \in 1 .. Len(new) : new[i] \in Frame
    BY ElementOfSeq
<1>2. \A i \in 1 .. Len(new) : CommandsOf(new)[i] \in GoodCommand
    BY <1>1, CommandType DEF CommandsOf, GoodCommand
<1>3. Len(new) \in Nat /\ CommandsOf(new) = [i \in 1 .. Len(new) |-> CommandsOf(new)[i]]
    BY LenProperties DEF CommandsOf
<1> QED BY <1>2, <1>3, IsASeq

LEMMA EntriesType ==
    ASSUME NEW new \in Seq(GoodFrame)
    PROVE  EntriesOf(new) \in Seq(BusEntry) /\ Len(EntriesOf(new)) = Len(new)
<1>1. \A i \in 1 .. Len(new) : new[i] \in GoodFrame
    BY ElementOfSeq
<1>2. 0 \in 0 .. MaxStale
    BY SystemAssumption
<1>3. \A i \in 1 .. Len(new) : EntriesOf(new)[i] \in BusEntry
    BY <1>1, <1>2 DEF EntriesOf, Entry, BusEntry
<1>4. Len(new) \in Nat /\ EntriesOf(new) = [i \in 1 .. Len(new) |-> EntriesOf(new)[i]]
    BY LenProperties DEF EntriesOf
<1> QED BY <1>3, <1>4, IsASeq

\* Frames for the plugin: they are queued behind the others, or lost.
LEMMA ReceivedType ==
    ASSUME SystemInv, NEW new \in Seq(GoodFrame), Received(new), UNCHANGED receiver
    PROVE  /\ to_plugin' \in Seq(BusEntry) /\ Len(to_plugin') <= QueueMax
           /\ ~receiver' => to_plugin' = <<>>
<1>1. to_plugin \in Seq(BusEntry) /\ Len(to_plugin) <= QueueMax /\ QueueMax \in Nat
    BY SystemAssumption DEF SystemInv, BusOK
<1>2. CASE receiver
    <2>1. to_plugin' = Enqueue(to_plugin, EntriesOf(new))
        BY <1>2 DEF Received, EntriesOf
    <2> QED BY <1>1, <1>2, <2>1, EntriesType, EnqueueIs DEF Grows
<1>3. CASE ~receiver
    BY <1>1, <1>3 DEF Received
<1> QED BY <1>2, <1>3

-----------------------------------------------------------------------------
(***************************************************************************)
(* Type correctness                                                        *)
(***************************************************************************)
LEMMA EntryTypes ==
    ASSUME to_plugin \in Seq(BusEntry)
    PROVE  \A i \in 1 .. Len(to_plugin) :
               to_plugin[i].frame \in Motors!BusFrame /\ to_plugin[i].age \in 0 .. MaxStale
<1>1. \A i \in 1 .. Len(to_plugin) : to_plugin[i] \in BusEntry
    BY ElementOfSeq
<1> QED BY <1>1 DEF BusEntry, GoodFrame

LEMMA SystemInvTypes == SystemInv => SystemTypeOK
<1> SUFFICES ASSUME SystemInv PROVE SystemTypeOK
    OBVIOUS
<1>1. GoodCommand \subseteq Motors!Command
    BY DEF GoodCommand
<1>2. owed \in {<<>>} \cup {<<c>> : c \in Motors!Command}
    BY <1>1 DEF SystemInv, NodeOK
<1>3. to_motors \in Seq(Motors!Command)
    BY <1>1 DEF SystemInv, BusOK
<1> QED BY <1>2, <1>3, EntryTypes
        DEF SystemInv, SystemTypeOK, NodeOK, BusOK, CycleOK

LEMMA SystemInvInit == SystemInit => SystemInv
<1> SUFFICES ASSUME SystemInit PROVE SystemInv
    OBVIOUS
<1>1. TypeOK /\ QueueInv
    BY InitType, QueueInvInit DEF SystemInit
<1>2. NodeOK
    BY NewMotorType, SystemAssumption
       DEF SystemInit, Motors!Init, NodeOK, Motors!Wheels, Wheels
<1>3. BusOK
    BY SystemAssumption DEF SystemInit, BusOK
<1>4. CycleOK
    BY DEF SystemInit, Init, CycleOK
<1> QED BY <1>1, <1>2, <1>3, <1>4 DEF SystemInv

\* A step of the robot is a step of the plugin, or leaves it alone.
LEMMA FrameTypes ==
    ASSUME SystemInv, to_plugin # <<>>
    PROVE  LET f == Head(to_plugin).frame IN
           /\ Tail(to_plugin) \in Seq(BusEntry)
           /\ Len(Tail(to_plugin)) = Len(to_plugin) - 1
           /\ f.kind = "ack" => /\ f.wheel \in Wheels /\ f.sequence \in SequenceNumbers
                                /\ f.result = 0
           /\ f.kind = "feedback" => /\ f.wheel \in Wheels
                                     /\ f.reading.velocity \in FeedbackVelocities
<1> DEFINE f == Head(to_plugin).frame
<1>1. /\ Head(to_plugin) \in BusEntry /\ Tail(to_plugin) \in Seq(BusEntry)
      /\ Len(Tail(to_plugin)) = Len(to_plugin) - 1
    BY HeadTailProperties DEF SystemInv, BusOK
<1>2. f \in GoodFrame
    BY <1>1 DEF BusEntry
<1>3. f \in Motors!Ack \cup Motors!Feedback \cup {Motors!ErrorFrame}
      /\ (f.kind = "ack" => f.result = 0)
    BY <1>2 DEF GoodFrame, Motors!BusFrame
<1> HIDE DEF f
<1>4. f.kind = "ack" => f \in Motors!Ack
    BY <1>3 DEF Motors!Feedback, Motors!ErrorFrame
<1>5. f.kind = "feedback" => f \in Motors!Feedback
    BY <1>3 DEF Motors!Ack, Motors!ErrorFrame
<1>6. f \in Motors!Ack => f.wheel \in Wheels /\ f.sequence \in SequenceNumbers
    BY DEF Motors!Ack, Motors!Wheels, Wheels
<1>7. f \in Motors!Feedback => f.wheel \in Wheels /\ f.reading.velocity \in FeedbackVelocities
    BY MotorSpeeds, SystemAssumption DEF Motors!Feedback, Motors!Reading, Motors!Wheels, Wheels
<1> QED BY <1>1, <1>3, <1>4, <1>5, <1>6, <1>7 DEF f

LEMMA PluginMoves ==
    ASSUME SystemInv, [SystemNext]_system_vars PROVE [Next]_vars \/ PluginIdle
<1>1. CASE ReadFrame
    <2> DEFINE f == Head(to_plugin).frame
    <2>1. /\ f.kind = "ack" => /\ f.wheel \in Wheels /\ f.sequence \in SequenceNumbers
                               /\ f.result = 0
          /\ f.kind = "feedback" => /\ f.wheel \in Wheels
                                    /\ f.reading.velocity \in FeedbackVelocities
        BY <1>1, FrameTypes DEF ReadFrame
    <2>2. \/ f.kind = "ack" /\ ReceiveAck(f.wheel, f.sequence, f.result)
          \/ f.kind = "feedback" /\ ReceiveFeedback(f.wheel, f.reading.velocity)
          \/ ReceiveIgnored \/ ReceiveWarning({"CRTL"})
        BY <1>1 DEF ReadFrame
    <2> HIDE DEF f
    <2>3. {"CRTL"} \in SUBSET ErrorBits
        BY DEF ErrorBits
    <2>4. ReadStep
        BY <2>1, <2>2, <2>3 DEF ReadStep
    <2> QED BY <2>4 DEF Next
<1>2. CASE Activate \/ Deactivate \/ BeginRead \/ EndRead \/ WriteCommands \/ Control
    BY <1>2 DEF Activate, Deactivate, BeginRead, EndRead, WriteCommands, Control,
                Next, ReadStep
<1>3. CASE Obey \/ Answer \/ Advance \/ Sample \/ Emit
    BY <1>3 DEF Obey, Answer, Advance, Sample, Emit
<1>4. CASE Pass
    BY <1>4 DEF Pass, Next
<1>5. CASE UNCHANGED system_vars
    BY <1>5 DEF system_vars
<1> QED BY <1>1, <1>2, <1>3, <1>4, <1>5 DEF SystemNext

LEMMA PluginInvNext ==
    ASSUME SystemInv, [SystemNext]_system_vars PROVE TypeOK' /\ QueueInv'
<1>1. CASE [Next]_vars
    BY <1>1, NextType, QueueInvNext DEF SystemInv
<1>2. CASE PluginIdle
    <2>1. TypeOK'
        BY <1>2 DEF PluginIdle, plugin, SystemInv, TypeOK, latch, sockets, diagnostics, wire
    <2>2. QueueInv'
        BY <1>2 DEF PluginIdle, plugin, SystemInv, QueueInv, Queues, latch, sockets, wire
    <2> QED BY <2>1, <2>2
<1> QED BY <1>1, <1>2, PluginMoves

LEMMA SentArrives ==
    ASSUME SystemInv, TypeOK', PluginSteps PROVE NodeOK' /\ BusOK'
<1>1. NodeOK'
    BY DEF PluginSteps, NodeIdle, node, SystemInv, NodeOK
<1>2. to_motors' = Enqueue(to_motors, CommandsOf(sent'))
    BY DEF PluginSteps, CommandsOf
<1>3. CommandsOf(sent') \in Seq(GoodCommand)
    BY CommandsType DEF TypeOK
<1>4. to_motors' \in Seq(GoodCommand) /\ Len(to_motors') <= QueueMax
    BY <1>2, <1>3, EnqueueIs DEF SystemInv, BusOK, Grows
<1>5. /\ to_plugin' \in Seq(BusEntry) /\ Len(to_plugin') <= QueueMax
      /\ ~receiver' => to_plugin' = <<>>
    BY SystemAssumption DEF PluginSteps, SystemInv, BusOK
<1> QED BY <1>1, <1>4, <1>5 DEF BusOK

LEMMA GoodCommandType ==
    ASSUME NEW c \in GoodCommand
    PROVE  c \in Motors!Command /\ c.payload = "good" /\ c.wheel \in Wheels
           /\ c.sequence \in SequenceNumbers
BY DEF GoodCommand, Motors!Command, Motors!Wheels, Wheels

LEMMA NextCommand ==
    ASSUME SystemInv, to_motors # <<>>
    PROVE  /\ Head(to_motors) \in GoodCommand /\ Tail(to_motors) \in Seq(GoodCommand)
           /\ Len(Tail(to_motors)) = Len(to_motors) - 1 /\ Len(to_motors) \in Nat
BY HeadTailProperties, LenProperties DEF SystemInv, BusOK

LEMMA OwedCommand ==
    ASSUME SystemInv, owed # <<>>
    PROVE  owed[1] \in GoodCommand /\ owed = <<owed[1]>>
BY DEF SystemInv, NodeOK

\* Nothing of the bus changes for the plugin while its sockets are the same.
LEMMA IdleSockets ==
    ASSUME PluginIdle PROVE UNCHANGED <<receiver, pc, health, sequences>>
BY DEF PluginIdle, plugin, sockets, wire

LEMMA ObeyType == ASSUME SystemInv, Obey PROVE NodeOK' /\ BusOK'
<1> DEFINE c == Head(to_motors)
<1>1. /\ c \in GoodCommand /\ Tail(to_motors) \in Seq(GoodCommand)
      /\ Len(Tail(to_motors)) = Len(to_motors) - 1 /\ Len(to_motors) \in Nat
    BY NextCommand DEF Obey
<1>2. to_motors' = Tail(to_motors) /\ UNCHANGED to_plugin /\ UNCHANGED receiver
    BY IdleSockets DEF Obey
<1>3. BusOK'
    BY <1>1, <1>2, SystemAssumption DEF SystemInv, BusOK
<1>4. CASE NodeIdle
    <2>1. UNCHANGED <<motors, last_command, owed, reports>>
        BY <1>4 DEF NodeIdle, node
    <2> QED BY <1>3, <2>1 DEF SystemInv, NodeOK
<1>5. CASE Motors!Obey(c)
    <2>1. /\ owed' = <<c>> /\ UNCHANGED reports
          /\ motors' = [motors EXCEPT ![c.wheel] = Motors!Adopted(motors[c.wheel], c)]
          /\ last_command' = [last_command EXCEPT ![c.wheel] = 0]
        BY <1>1, <1>5, GoodCommandType DEF Motors!Obey
    <2> HIDE DEF c
    <2>2. motors' \in [Wheels -> Motors!Motor]
        BY <1>1, <2>1, GoodCommandType, AdoptedMotor DEF SystemInv, NodeOK
    <2>3. 0 \in 0 .. MaxAge /\ last_command \in [Wheels -> 0 .. MaxAge]
        BY SystemAssumption DEF SystemInv, NodeOK
    <2>4. last_command' \in [Wheels -> 0 .. MaxAge]
        BY <2>1, <2>3
    <2> QED BY <1>1, <1>3, <2>1, <2>2, <2>4 DEF SystemInv, NodeOK
<1> QED BY <1>3, <1>4, <1>5 DEF Obey

LEMMA AnswerSends ==
    ASSUME SystemInv, Answer
    PROVE  LET a == Motors!AckFor(owed[1], Motors!AckResult(owed[1])) IN
           /\ a \in GoodFrame /\ a.kind = "ack"
           /\ a.wheel = owed[1].wheel /\ a.sequence = owed[1].sequence
           /\ motor_sent' \in {<<>>, <<a>>}
<1> DEFINE a == Motors!AckFor(owed[1], Motors!AckResult(owed[1]))
<1>1. owed[1] \in Motors!Command /\ owed[1].payload = "good"
    BY OwedCommand, GoodCommandType DEF Answer, Motors!Acknowledge
<1>2. /\ a \in Motors!Ack /\ a.kind = "ack" /\ a.result = 0
      /\ a.wheel = owed[1].wheel /\ a.sequence = owed[1].sequence
    BY <1>1, AckType
<1>3. motor_sent' \in {<<>>, <<a>>}
    BY DEF Answer, Motors!Acknowledge
<1> HIDE DEF a
<1>4. a \in GoodFrame
    BY <1>2 DEF GoodFrame, Motors!BusFrame
<1> QED BY <1>2, <1>3, <1>4 DEF a

LEMMA AnswerType == ASSUME SystemInv, Answer PROVE NodeOK' /\ BusOK'
<1>1. motor_sent' \in Seq(GoodFrame)
    <2> DEFINE a == Motors!AckFor(owed[1], Motors!AckResult(owed[1]))
    <2>1. a \in GoodFrame /\ motor_sent' \in {<<>>, <<a>>}
        BY AnswerSends
    <2> HIDE DEF a
    <2>2. <<a>> \in Seq(GoodFrame) /\ <<>> \in Seq(GoodFrame)
        BY <2>1
    <2> QED BY <2>1, <2>2
<1>2. /\ owed' = <<>> /\ UNCHANGED <<motors, last_command, reports>>
      /\ Received(motor_sent') /\ UNCHANGED to_motors /\ UNCHANGED receiver
    BY IdleSockets DEF Answer, Motors!Acknowledge
<1>3. BusOK'
    BY <1>1, <1>2, ReceivedType DEF SystemInv, BusOK
<1>4. NodeOK'
    BY <1>2 DEF SystemInv, NodeOK
<1> QED BY <1>3, <1>4

LEMMA AdvanceMotors ==
    ASSUME SystemInv, Advance
    PROVE  /\ motors' \in [Wheels -> Motors!Motor]
           /\ \A w \in Wheels : /\ motors'[w].sequence = motors[w].sequence
                                /\ motors'[w].enabled = motors[w].enabled
           /\ UNCHANGED <<last_command, owed, reports>>
<1>1. PICK dt \in 1 .. MaxAge, lag \in 0 .. MaxLag : Motors!Advance(dt, lag)
    BY DEF Advance
<1>2. /\ motors' = [w \in Wheels |-> Motors!Update(motors[w], dt, last_command[w] - lag)]
      /\ UNCHANGED <<last_command, owed, reports>>
    BY <1>1 DEF Motors!Advance, Motors!Wheels, Wheels
<1>3. \A w \in Wheels : /\ motors[w] \in Motors!Motor /\ dt \in Nat
                        /\ last_command[w] - lag \in Int
    BY SystemAssumption DEF SystemInv, NodeOK
<1> QED BY <1>2, <1>3, UpdatedMotor

LEMMA AdvanceType == ASSUME SystemInv, Advance PROVE NodeOK' /\ BusOK'
<1>1. NodeOK'
    BY AdvanceMotors DEF SystemInv, NodeOK
<1>2. BusOK'
    BY IdleSockets DEF Advance, bus, SystemInv, BusOK
<1> QED BY <1>1, <1>2

LEMMA SampleType == ASSUME SystemInv, Sample PROVE NodeOK' /\ BusOK'
<1> DEFINE left == [wheel |-> 0, reading |-> Motors!ReadingOf(motors[0])]
           right == [wheel |-> 1, reading |-> Motors!ReadingOf(motors[1])]
<1>1. left \in ReportRecord /\ right \in ReportRecord
    BY ReportType DEF SystemInv, NodeOK, Wheels
<1>2. reports' = reports \o <<left, right>> /\ UNCHANGED <<motors, last_command, owed>>
    BY DEF Sample, Motors!Sample
<1> HIDE DEF left, right
<1>3. NodeOK'
    BY <1>1, <1>2 DEF SystemInv, NodeOK
<1>4. BusOK'
    BY IdleSockets DEF Sample, bus, SystemInv, BusOK
<1> QED BY <1>3, <1>4

LEMMA EmitSends ==
    ASSUME SystemInv, Emit
    PROVE  /\ motor_sent' \in Seq(GoodFrame)
           /\ \A i \in 1 .. Len(motor_sent') : motor_sent'[i].kind # "ack"
<1>1. PICK error \in {<<>>, <<Motors!ErrorFrame>>}, short \in BOOLEAN :
          motor_sent' \in {error, error \o <<Motors!FeedbackFor(Head(reports), short)>>}
    BY DEF Emit, Motors!Emit
<1> DEFINE f == Motors!FeedbackFor(Head(reports), short)
           S == {g \in GoodFrame : g.kind # "ack"}
<1>2. Head(reports) \in ReportRecord
    BY HeadTailProperties DEF Emit, Motors!Emit, SystemInv, NodeOK
<1>3. f \in Motors!Feedback /\ f.kind = "feedback"
    BY <1>2, FeedbackType
<1> HIDE DEF f
<1>4. f \in S
    BY <1>3 DEF GoodFrame, Motors!BusFrame
<1>5. Motors!ErrorFrame \in S
    BY DEF GoodFrame, Motors!BusFrame, Motors!ErrorFrame
<1>6. motor_sent' \in {error, error \o <<f>>}
    BY <1>1 DEF f
<1> HIDE DEF S
<1>7. error \in Seq(S) /\ <<f>> \in Seq(S)
    <2> DEFINE e == Motors!ErrorFrame
    <2>1. e \in S /\ error \in {<<>>, <<e>>}
        BY <1>5
    <2> HIDE DEF e
    <2>2. <<e>> \in Seq(S) /\ <<>> \in Seq(S) /\ <<f>> \in Seq(S)
        BY <1>4, <2>1
    <2> QED BY <2>1, <2>2
<1>8. motor_sent' \in Seq(S)
    BY <1>6, <1>7, ConcatProperties
<1>9. \A i \in 1 .. Len(motor_sent') : motor_sent'[i] \in S
    BY <1>8, ElementOfSeq
<1>10. S \subseteq GoodFrame
    BY DEF S
<1>11. motor_sent' \in Seq(GoodFrame)
    BY <1>8, <1>10
<1> QED BY <1>9, <1>11 DEF S

LEMMA EmitType == ASSUME SystemInv, Emit PROVE NodeOK' /\ BusOK'
<1>1. /\ UNCHANGED <<motors, last_command, owed>> /\ reports # <<>>
      /\ reports' = Tail(reports)
      /\ Received(motor_sent') /\ UNCHANGED to_motors /\ UNCHANGED receiver
    BY IdleSockets DEF Emit, Motors!Emit
<1>2. reports' \in Seq(ReportRecord)
    BY <1>1, HeadTailProperties DEF SystemInv, NodeOK
<1>3. BusOK'
    BY <1>1, EmitSends, ReceivedType DEF SystemInv, BusOK
<1>4. NodeOK'
    BY <1>1, <1>2 DEF SystemInv, NodeOK
<1> QED BY <1>3, <1>4

LEMMA ReadFrameType == ASSUME SystemInv, ReadFrame PROVE NodeOK' /\ BusOK' /\ pc' = pc
<1>1. UNCHANGED <<receiver, pc>>
    BY DEF ReadFrame, ReceiveAck, ReceiveFeedback, ReceiveIgnored, ReceiveWarning, sockets
<1>2. to_plugin # <<>> /\ to_plugin' = Tail(to_plugin) /\ UNCHANGED to_motors /\ NodeIdle
    BY DEF ReadFrame
<1>3. receiver
    BY <1>2 DEF SystemInv, BusOK
<1>4. BusOK'
    <2>1. to_plugin' \in Seq(BusEntry) /\ Len(to_plugin') = Len(to_plugin) - 1
        BY <1>2, FrameTypes
    <2>2. Len(to_plugin) \in Nat /\ QueueMax \in Nat
        BY SystemAssumption DEF SystemInv, BusOK
    <2> QED BY <1>1, <1>2, <1>3, <2>1, <2>2 DEF SystemInv, BusOK
<1>5. NodeOK'
    BY <1>2 DEF NodeIdle, node, SystemInv, NodeOK
<1> QED BY <1>1, <1>4, <1>5

LEMMA PassType == ASSUME SystemInv, Pass PROVE NodeOK' /\ BusOK'
<1>1. UNCHANGED receiver
    BY IdleSockets DEF Pass, Tick, sockets
<1>2. \A e \in BusEntry : [e EXCEPT !.age = Stale(@)] \in BusEntry
    BY SystemAssumption, SMT DEF BusEntry, Stale
<1>3. to_plugin' \in Seq(BusEntry) /\ Len(to_plugin') = Len(to_plugin)
    <2>1. to_plugin \in Seq(BusEntry)
        BY DEF SystemInv, BusOK
    <2>2. \A i \in 1 .. Len(to_plugin) : [to_plugin[i] EXCEPT !.age = Stale(@)] \in BusEntry
        BY <1>2, <2>1
    <2> QED BY <2>1, <2>2 DEF Pass
<1>4. to_plugin = <<>> => to_plugin' = <<>>
    BY <1>3 DEF Pass
<1>5. UNCHANGED <<to_motors, motors, owed, reports>>
      /\ last_command' = [w \in Wheels |-> Motors!Older(last_command[w])]
    BY DEF Pass, Motors!Tick, Motors!Wheels, Wheels
<1>6. last_command' \in [Wheels -> 0 .. MaxAge]
    BY <1>5, SystemAssumption, SMT DEF SystemInv, NodeOK, Motors!Older
<1>7. BusOK'
    BY <1>1, <1>3, <1>4, <1>5 DEF SystemInv, BusOK
<1> QED BY <1>5, <1>6, <1>7 DEF SystemInv, NodeOK

LEMMA CycleType == ASSUME SystemInv, [SystemNext]_system_vars PROVE CycleOK'
<1>1. CycleOK /\ TypeOK
    BY DEF SystemInv
<1>2. CASE Activate \/ Deactivate \/ Control
    <2>1. pc' = pc
        BY <1>2 DEF Activate, Deactivate, Control, OnActivate, OnDeactivate, StopAndRelease,
                    ControllerUpdate
    <2>2. /\ UNCHANGED <<turn, done>>
          /\ \/ suspects' = suspects /\ lost' = lost
             \/ suspects' \subseteq Wheels /\ lost' = {}
        BY <1>2 DEF Activate, Deactivate, Control, history
    <2> QED BY <1>1, <2>1, <2>2 DEF CycleOK
<1>3. CASE BeginRead
    <2>1. pc' \in {"idle", "reading"}
        BY <1>3, PluginInvNext DEF SystemNext, TypeOK
    <2> QED BY <1>1, <1>3, <2>1 DEF BeginRead, history, CycleOK
<1>4. CASE EndRead
    <2>1. pc' = "idle"
        BY <1>4 DEF EndRead, ReadFinish, AbortRead
    <2> QED BY <1>1, <1>4, <2>1 DEF EndRead, history, CycleOK
<1>5. CASE WriteCommands
    <2>1. pc = "idle" /\ pc' = pc
        BY <1>5 DEF WriteCommands, Write, Refuse, SocketMissing
    <2> QED BY <1>1, <1>5, <2>1 DEF WriteCommands, Perform, history, CycleOK
<1>6. CASE ReadFrame
    BY <1>1, <1>6, ReadFrameType DEF ReadFrame, CycleOK
<1>7. ASSUME NEW c \in GoodCommand, Missing(c)
      PROVE  suspects' \subseteq Wheels /\ lost' \subseteq suspects'
    BY <1>1, <1>7, GoodCommandType DEF Missing, CycleOK
<1>8. CASE Obey
    <2>1. suspects' \subseteq Wheels /\ lost' \subseteq suspects'
        BY <1>1, <1>7, <1>8, NextCommand DEF Obey, CycleOK
    <2> QED BY <1>1, <1>8, <2>1, IdleSockets DEF Obey, CycleOK
<1>9. CASE Answer
    <2>1. owed[1] \in GoodCommand
        BY <1>9, OwedCommand DEF Answer, Motors!Acknowledge
    <2>2. suspects' \subseteq Wheels /\ lost' \subseteq suspects'
        BY <1>1, <1>7, <1>9, <2>1 DEF Answer, CycleOK
    <2> QED BY <1>1, <1>9, <2>2, IdleSockets DEF Answer, CycleOK
<1>10. CASE Advance \/ Sample \/ Emit
    BY <1>1, <1>10, IdleSockets DEF Advance, Sample, Emit, Perform, history, CycleOK
<1>11. CASE Pass
    <2>1. pc' = pc
        BY <1>11, IdleSockets DEF Pass, Tick
    <2> QED BY <1>1, <1>11, <2>1 DEF Pass, CycleOK
<1>12. CASE UNCHANGED system_vars
    BY <1>1, <1>12 DEF system_vars, vars, history, CycleOK
<1> QED BY <1>2, <1>3, <1>4, <1>5, <1>6, <1>8, <1>9, <1>10, <1>11, <1>12 DEF SystemNext

LEMMA SystemInvNext ==
    ASSUME SystemInv, [SystemNext]_system_vars PROVE SystemInv'
<1>1. TypeOK' /\ QueueInv' /\ CycleOK'
    BY PluginInvNext, CycleType
<1>2. CASE Activate \/ Deactivate \/ BeginRead \/ EndRead \/ WriteCommands \/ Control
    BY <1>1, <1>2, SentArrives DEF Activate, Deactivate, BeginRead, EndRead, WriteCommands,
                                   Control, SystemInv
<1>3. CASE UNCHANGED system_vars
    <2>1. NodeOK' /\ BusOK'
        BY <1>3 DEF system_vars, vars, sockets, node, bus, SystemInv, NodeOK, BusOK
    <2> QED BY <1>1, <2>1 DEF SystemInv
<1>4. CASE ReadFrame \/ Obey \/ Answer \/ Advance \/ Sample \/ Emit \/ Pass
    BY <1>1, <1>4, ReadFrameType, ObeyType, AnswerType, AdvanceType, SampleType, EmitType,
       PassType DEF SystemInv
<1> QED BY <1>2, <1>3, <1>4 DEF SystemNext

LEMMA SystemInvariant == SystemSpec => []SystemInv
BY SystemInvInit, SystemInvNext, PTL DEF SystemSpec

\* Everything in the robot keeps its range: what is on its way, what the
\* processes remember of each other, and the histories.
THEOREM SystemTypeCorrect == SystemSpec => []SystemTypeOK
BY SystemInvariant, SystemInvTypes, PTL

-----------------------------------------------------------------------------
(***************************************************************************)
(* What is on its way.  The frames about a wheel travel in one direction:  *)
(* a command waits in to_motors, is obeyed, is owed an ACK, and the ACK    *)
(* waits in to_plugin.  "Places" numbers the places along the way, nearest *)
(* to the plugin first.  Sequence numbers are compared by how many         *)
(* commands ago they were used.                                            *)
(***************************************************************************)
Back(last, s) == IF s <= last THEN last - s ELSE last - s + SeqMod

Places == 1 - QueueMax .. QueueMax + 1

AckAt(w, k, s) ==
    /\ k + QueueMax \in 1 .. Len(to_plugin)
    /\ to_plugin[k + QueueMax].frame.kind = "ack"
    /\ to_plugin[k + QueueMax].frame.wheel = w
    /\ to_plugin[k + QueueMax].frame.sequence = s

OwedAt(w, k, s) ==
    k = 1 /\ owed # <<>> /\ owed[1].wheel = w /\ owed[1].sequence = s

CommandAt(w, k, s) ==
    /\ k - 1 \in 1 .. Len(to_motors)
    /\ to_motors[k - 1].wheel = w /\ to_motors[k - 1].sequence = s

Flies(w, k, s) == AckAt(w, k, s) \/ OwedAt(w, k, s) \/ CommandAt(w, k, s)

OnWay(w, s) == \E k \in Places : Flies(w, k, s)

\* What is ahead on its way was sent earlier.
InOrder(w) ==
    \A k, l \in Places, s, r \in SequenceNumbers :
        Flies(w, k, s) /\ Flies(w, l, r) /\ k < l
            => Back(sequences[w], s) > Back(sequences[w], r)

\* The plugin waits for the ACKs of its latest commands.
Counted(w) ==
    /\ Len(health.pending[w]) <= MaxPending
    /\ \A i \in 1 .. Len(health.pending[w]) :
           Back(sequences[w], health.pending[w][i].sequence) = Len(health.pending[w]) - i

\* What flies was sent in this activation, and is either a command that the
\* plugin waits for or its stop frame.  Only a wheel that was activated with
\* frames on their way may have older ones, for which the receive queue of
\* the motor node is the bound: commands come in pairs, so that a wheel has
\* half of it.
HalfQueue == QueueMax \div 2

Slack(w) == IF w \in suspects /\ "restless" \in Faults THEN HalfQueue ELSE 0

Recent(w) ==
    \A k \in Places, s \in SequenceNumbers : Flies(w, k, s) =>
        /\ Back(sequences[w], s) <= Len(health.pending[w]) + Slack(w)
        /\ Back(sequences[w], s) >= Len(health.pending[w]) =>
               /\ Slack(w) = 0 => health.ignored[w] = s
               /\ Len(health.pending[w]) = 0 => trail[w] # "driving"

Enabling(w) ==
    \A i \in 1 .. Len(to_motors) :
        /\ to_motors[i].wheel = w
        /\ Back(sequences[w], to_motors[i].sequence) < Len(health.pending[w])
        => to_motors[i].enabled

\* A command that is answered was adopted, or a later one was.
Adopting(w) ==
    /\ \A k \in Places, s \in SequenceNumbers :
           /\ Flies(w, k, s) /\ k <= 1
           /\ Back(sequences[w], s) < Len(health.pending[w])
           => /\ Back(sequences[w], motors[w].sequence) <= Back(sequences[w], s)
              /\ motors[w].enabled
    /\ Len(health.pending[w]) = 0 /\ trail[w] = "driving" =>
           motors[w].sequence = sequences[w] /\ motors[w].enabled

\* Without a loss every ACK that is waited for is on its way; after one, some
\* ACK that is waited for is not.
Complete(w) ==
    w \notin suspects =>
        \A i \in 1 .. Len(health.pending[w]) : OnWay(w, health.pending[w][i].sequence)

Missed(w) ==
    w \in lost =>
        \E i \in 1 .. Len(health.pending[w]) : ~OnWay(w, health.pending[w][i].sequence)

Tracked(w) ==
    /\ InOrder(w) /\ Counted(w) /\ Recent(w) /\ Enabling(w) /\ Adopting(w)
    /\ Complete(w) /\ Missed(w)

\* The sequence numbers are told apart: always those of a wheel whose frames
\* were gone when it was activated; of another wheel if no failing send uses
\* up numbers and there are enough of them for what the queue holds.
Distinct(w) ==
    \/ w \notin suspects
    \/ "restless" \notin Faults
    \/ "send" \notin Faults /\ MaxPending + HalfQueue < SeqMod

Live == sender /\ ~fault_latched

-----------------------------------------------------------------------------
(***************************************************************************)
(* Sequence numbers                                                        *)
(***************************************************************************)
LEMMA SequenceRange ==
    /\ SeqMod \in Nat \ {0} /\ SequenceNumbers = 0 .. SeqMod - 1
    /\ QueueMax \in Nat \ {0} /\ MaxPending \in Nat \ {0}
BY HealthAssumption, HardwareAssumption, SystemAssumption DEF SequenceNumbers

LEMMA HalfRange ==
    /\ HalfQueue \in Nat /\ HalfQueue <= QueueMax /\ QueueMax <= 2 * HalfQueue + 1
    /\ \A b \in Nat : 2 * b <= QueueMax => b <= HalfQueue
BY SequenceRange DEF HalfQueue

LEMMA NextIs ==
    ASSUME NEW s \in SequenceNumbers
    PROVE  NextSequence(s) = IF s + 1 = SeqMod THEN 0 ELSE s + 1
BY SequenceRange DEF NextSequence

LEMMA BackType ==
    ASSUME NEW last \in SequenceNumbers, NEW s \in SequenceNumbers
    PROVE  Back(last, s) \in Nat /\ Back(last, s) < SeqMod
BY SequenceRange DEF Back

LEMMA BackSelf == ASSUME NEW last \in SequenceNumbers PROVE Back(last, last) = 0
BY SequenceRange DEF Back

LEMMA BackInjective ==
    ASSUME NEW last \in SequenceNumbers, NEW s \in SequenceNumbers,
           NEW r \in SequenceNumbers, Back(last, s) = Back(last, r)
    PROVE  s = r
BY SequenceRange DEF Back

\* One more command has been sent.
LEMMA BackNext ==
    ASSUME NEW last \in SequenceNumbers, NEW s \in SequenceNumbers,
           Back(last, s) < SeqMod - 1
    PROVE  Back(NextSequence(last), s) = Back(last, s) + 1
BY SequenceRange, NextIs DEF Back

-----------------------------------------------------------------------------
(***************************************************************************)
(* Places                                                                  *)
(***************************************************************************)
LEMMA PlaceRange ==
    /\ Places \subseteq Int
    /\ \A k \in Int : k \in Places <=> 1 - QueueMax <= k /\ k <= QueueMax + 1
BY SequenceRange DEF Places

\* Everything that flies is somewhere, and has a number.
LEMMA FlyingPlace ==
    ASSUME SystemInv, NEW w, NEW k \in Int, NEW s, Flies(w, k, s)
    PROVE  /\ k \in Places /\ s \in SequenceNumbers
           /\ k <= 0 <=> AckAt(w, k, s)
           /\ k = 1 <=> OwedAt(w, k, s)
           /\ k >= 2 <=> CommandAt(w, k, s)
<1>1. /\ Len(to_plugin) \in Nat /\ Len(to_plugin) <= QueueMax
      /\ Len(to_motors) \in Nat /\ Len(to_motors) <= QueueMax
    BY LenProperties DEF SystemInv, BusOK
<1>2. ASSUME AckAt(w, k, s) PROVE k <= 0 /\ k \in Places /\ s \in SequenceNumbers
    <2>1. k \in Places /\ k <= 0
        BY <1>1, <1>2, PlaceRange, SequenceRange DEF AckAt
    <2>2. to_plugin[k + QueueMax] \in BusEntry
        BY <1>2, ElementOfSeq DEF AckAt, SystemInv, BusOK
    <2> DEFINE f == to_plugin[k + QueueMax].frame
    <2>3. f \in Motors!BusFrame /\ f.kind = "ack" /\ f.sequence = s
        BY <1>2, <2>2 DEF AckAt, BusEntry, GoodFrame
    <2> HIDE DEF f
    <2>4. f \in Motors!Ack
        BY <2>3 DEF Motors!BusFrame, Motors!Feedback, Motors!ErrorFrame
    <2>5. s \in SequenceNumbers
        BY <2>3, <2>4 DEF Motors!Ack
    <2> QED BY <2>1, <2>5
<1>3. ASSUME OwedAt(w, k, s) PROVE k = 1 /\ k \in Places /\ s \in SequenceNumbers
    <2>1. k \in Places
        BY <1>3, PlaceRange, SequenceRange DEF OwedAt
    <2>2. owed[1] \in GoodCommand
        BY <1>3, OwedCommand DEF OwedAt
    <2> QED BY <1>3, <2>1, <2>2, GoodCommandType DEF OwedAt
<1>4. ASSUME CommandAt(w, k, s) PROVE k >= 2 /\ k \in Places /\ s \in SequenceNumbers
    <2>1. k \in Places /\ k >= 2
        BY <1>1, <1>4, PlaceRange, SequenceRange DEF CommandAt
    <2>2. to_motors[k - 1] \in GoodCommand
        BY <1>4, ElementOfSeq DEF CommandAt, SystemInv, BusOK
    <2> QED BY <1>4, <2>1, <2>2, GoodCommandType DEF CommandAt
<1> QED BY <1>2, <1>3, <1>4 DEF Flies

\* Two frames about a wheel have different numbers.
LEMMA FlightUnique ==
    ASSUME NEW w, InOrder(w), sequences[w] \in SequenceNumbers,
           NEW k \in Places, NEW l \in Places, NEW s \in SequenceNumbers,
           Flies(w, k, s), Flies(w, l, s)
    PROVE  k = l
<1>1. Back(sequences[w], s) \in Nat
    BY BackType
<1>2. k \in Int /\ l \in Int
    BY PlaceRange
<1> QED BY <1>1, <1>2 DEF InOrder

-----------------------------------------------------------------------------
(***************************************************************************)
(* Frames move on.  f says where a frame was before the step.              *)
(***************************************************************************)
Moves(w, f) ==
    /\ \A k \in Places, s \in SequenceNumbers :
           Flies(w, k, s)' => f[k] \in Places /\ Flies(w, f[k], s)
    /\ \A k, l \in Places, s, r \in SequenceNumbers :
           Flies(w, k, s)' /\ Flies(w, l, r)' /\ k < l => f[k] < f[l]

SameBooks(w) ==
    /\ sequences'[w] = sequences[w] /\ trail'[w] = trail[w]
    /\ health'.ignored[w] = health.ignored[w]
    /\ Len(health'.pending[w]) = Len(health.pending[w])
    /\ \A i \in 1 .. Len(health.pending[w]) :
           health'.pending[w][i].sequence = health.pending[w][i].sequence

SameMotor(w) ==
    motors'[w].sequence = motors[w].sequence /\ motors'[w].enabled = motors[w].enabled

\* What is still to be obeyed was so before.
StillQueued ==
    \A i \in 1 .. Len(to_motors') : \E j \in 1 .. Len(to_motors) : to_motors'[i] = to_motors[j]

\* What TypeOK says of the books of a wheel.
LEMMA BooksType ==
    ASSUME TypeOK, NEW w \in Wheels
    PROVE  /\ sequences[w] \in SequenceNumbers
           /\ health.pending[w] \in Seq(PendingAck)
           /\ Len(health.pending[w]) \in Nat
           /\ \A i \in 1 .. Len(health.pending[w]) :
                  health.pending[w][i].sequence \in SequenceNumbers
           /\ trail[w] \in TrailState
<1>1. health.pending[w] \in Seq(PendingAck)
    BY DEF TypeOK, Health
<1>2. \A i \in 1 .. Len(health.pending[w]) : health.pending[w][i] \in PendingAck
    BY <1>1, ElementOfSeq
<1> QED BY <1>1, <1>2, LenProperties DEF TypeOK, PendingAck

LEMMA SlackType == ASSUME NEW w PROVE Slack(w) \in Nat /\ Slack(w) <= HalfQueue
BY HalfRange DEF Slack

LEMMA OrderMoves ==
    ASSUME NEW w, NEW f, InOrder(w), Moves(w, f), sequences'[w] = sequences[w]
    PROVE  InOrder(w)'
BY DEF InOrder, Moves

LEMMA RecentMoves ==
    ASSUME TypeOK, NEW w \in Wheels, NEW f, Recent(w), Moves(w, f), SameBooks(w),
           w \in suspects => w \in suspects'
    PROVE  Recent(w)'
<1>1. Slack(w) \in Nat /\ Slack(w)' \in Nat /\ Slack(w) <= Slack(w)'
    BY HalfRange DEF Slack, HalfQueue
<1> SUFFICES ASSUME NEW k \in Places, NEW s \in SequenceNumbers, Flies(w, k, s)'
             PROVE  /\ Back(sequences'[w], s) <= Len(health'.pending[w]) + Slack(w)'
                    /\ Back(sequences'[w], s) >= Len(health'.pending[w]) =>
                           /\ Slack(w)' = 0 => health'.ignored[w] = s
                           /\ Len(health'.pending[w]) = 0 => trail'[w] # "driving"
    BY DEF Recent
<1>2. f[k] \in Places /\ Flies(w, f[k], s)
    BY DEF Moves
<1>3. /\ Back(sequences[w], s) <= Len(health.pending[w]) + Slack(w)
      /\ Back(sequences[w], s) >= Len(health.pending[w]) =>
             /\ Slack(w) = 0 => health.ignored[w] = s
             /\ Len(health.pending[w]) = 0 => trail[w] # "driving"
    BY <1>2 DEF Recent
<1>4. Back(sequences[w], s) \in Nat /\ Len(health.pending[w]) \in Nat
    BY BackType, BooksType
<1>5. Slack(w)' = 0 => Slack(w) = 0
    BY <1>1
<1> QED BY <1>1, <1>3, <1>4, <1>5 DEF SameBooks

LEMMA EnablingMoves ==
    ASSUME NEW w, Enabling(w), StillQueued, SameBooks(w)
    PROVE  Enabling(w)'
BY DEF Enabling, StillQueued, SameBooks

LEMMA AdoptingMoves ==
    ASSUME NEW w, NEW f, Adopting(w), Moves(w, f), SameBooks(w), SameMotor(w),
           \A k \in Places : k <= 1 => f[k] <= 1
    PROVE  Adopting(w)'
BY DEF Adopting, Moves, SameBooks, SameMotor

LEMMA OnWayMoves ==
    ASSUME NEW w, NEW f, Moves(w, f), NEW s \in SequenceNumbers, OnWay(w, s)'
    PROVE  OnWay(w, s)
BY DEF Moves, OnWay

LEMMA CountedSame ==
    ASSUME NEW w, Counted(w), SameBooks(w) PROVE Counted(w)'
BY DEF Counted, SameBooks

\* A step that loses nothing of a wheel.
LEMMA TrackedMoves ==
    ASSUME TypeOK, NEW w \in Wheels, NEW f, Tracked(w), Moves(w, f), SameBooks(w),
           SameMotor(w), StillQueued, \A k \in Places : k <= 1 => f[k] <= 1,
           \A s \in SequenceNumbers : OnWay(w, s) => OnWay(w, s)',
           w \in suspects <=> w \in suspects', w \in lost <=> w \in lost'
    PROVE  Tracked(w)'
<1>1. InOrder(w)' /\ Counted(w)' /\ Recent(w)' /\ Enabling(w)' /\ Adopting(w)'
    BY OrderMoves, CountedSame, RecentMoves, EnablingMoves, AdoptingMoves
       DEF Tracked, SameBooks
<1>2. \A i \in 1 .. Len(health.pending[w]) : health.pending[w][i].sequence \in SequenceNumbers
    BY BooksType
<1>3. Complete(w)'
    BY <1>2 DEF Tracked, Complete, SameBooks
<1>4. Missed(w)'
    BY <1>2, OnWayMoves DEF Tracked, Missed, SameBooks
<1> QED BY <1>1, <1>3, <1>4 DEF Tracked

\* A step that loses one frame of a wheel, the one that was at place l.
LEMMA TrackedLoses ==
    ASSUME TypeOK, NEW w \in Wheels, NEW f, Tracked(w), Moves(w, f), SameBooks(w),
           SameMotor(w), StillQueued, \A k \in Places : k <= 1 => f[k] <= 1,
           NEW l \in Places, NEW s \in SequenceNumbers, Flies(w, l, s),
           \A k \in Places, r \in SequenceNumbers : Flies(w, k, r)' => f[k] # l,
           w \in suspects', w \in lost' => w \in lost \/ Awaited(w, s)
    PROVE  Tracked(w)'
<1>1. InOrder(w)' /\ Counted(w)' /\ Recent(w)' /\ Enabling(w)' /\ Adopting(w)'
    BY OrderMoves, CountedSame, RecentMoves, EnablingMoves, AdoptingMoves
       DEF Tracked, SameBooks
<1>2. /\ sequences[w] \in SequenceNumbers
      /\ \A i \in 1 .. Len(health.pending[w]) :
             health.pending[w][i].sequence \in SequenceNumbers
    BY BooksType
<1>3. Complete(w)'
    BY DEF Complete
<1>4. ~OnWay(w, s)'
    <2> SUFFICES ASSUME NEW k \in Places, Flies(w, k, s)' PROVE FALSE
        BY DEF OnWay
    <2>1. f[k] \in Places /\ Flies(w, f[k], s)
        BY DEF Moves
    <2>2. f[k] = l
        BY <1>2, <2>1, FlightUnique DEF Tracked
    <2> QED BY <2>2
<1>5. Missed(w)'
    <2> SUFFICES ASSUME w \in lost'
                 PROVE  \E i \in 1 .. Len(health.pending[w]), r \in SequenceNumbers :
                            health.pending[w][i].sequence = r /\ ~OnWay(w, r)'
        BY DEF Missed, SameBooks
    <2>1. CASE w \in lost
        <3>1. PICK i \in 1 .. Len(health.pending[w]) :
                  ~OnWay(w, health.pending[w][i].sequence)
            BY <2>1 DEF Tracked, Missed
        <3>2. PICK r \in SequenceNumbers :
                  r = health.pending[w][i].sequence /\ ~OnWay(w, r)
            BY <1>2, <3>1
        <3>3. ~OnWay(w, r)'
            BY <3>2, OnWayMoves
        <3> QED BY <3>2, <3>3
    <2>2. CASE Awaited(w, s)
        BY <1>4, <2>2 DEF Awaited
    <2> QED BY <2>1, <2>2
<1> QED BY <1>1, <1>3, <1>5 DEF Tracked

-----------------------------------------------------------------------------
(***************************************************************************)
(* Where the steps move the frames                                         *)
(***************************************************************************)
InPlace == [k \in Places |-> k]

\* The same answers, commands and debt: nothing moves.
LEMMA NothingMoves ==
    ASSUME NEW w, UNCHANGED <<to_motors, owed>>,
           \A k \in Places, s \in SequenceNumbers : AckAt(w, k, s)' <=> AckAt(w, k, s)
    PROVE  /\ Moves(w, InPlace) /\ StillQueued
           /\ \A s \in SequenceNumbers : OnWay(w, s) => OnWay(w, s)'
<1>1. \A k \in Places, s \in SequenceNumbers : Flies(w, k, s)' <=> Flies(w, k, s)
    BY DEF Flies, OwedAt, CommandAt
<1>2. \A k \in Places : InPlace[k] = k
    BY DEF InPlace
<1>3. Moves(w, InPlace)
    BY <1>1, <1>2 DEF Moves
<1>4. StillQueued
    BY DEF StillQueued
<1> QED BY <1>1, <1>3, <1>4 DEF OnWay

LEMMA InPlaceStays == \A k \in Places : k <= 1 => InPlace[k] <= 1
BY DEF InPlace

LEMMA EnqueueNothing ==
    ASSUME NEW S, NEW q \in Seq(S), Len(q) <= QueueMax PROVE Enqueue(q, <<>>) = q
<1>1. <<>> \in Seq(S) /\ Len(<<>>) = 0 /\ Len(q) \in Nat
    BY LenProperties
<1> DEFINE e == Enqueue(q, <<>>)
<1>2. /\ e \in Seq(S) /\ Len(e) >= Len(q) /\ Len(e) <= Len(q) + Len(<<>>)
      /\ \A i \in 1 .. Len(q) : e[i] = q[i]
    BY <1>1, EnqueueIs DEF Grows
<1>3. Len(e) = Len(q)
    BY <1>1, <1>2, LenProperties
<1> HIDE DEF e
<1>4. e = q
    BY <1>2, <1>3, SeqEqual
<1> QED BY <1>4 DEF e

LEMMA NoCommandsMove ==
    ASSUME SystemInv, PluginSteps, sent' = <<>> PROVE to_motors' = to_motors
<1>1. [i \in 1 .. Len(sent') |-> CommandOf(sent'[i])] = <<>>
    OBVIOUS
<1> QED BY <1>1, EnqueueNothing DEF PluginSteps, SystemInv, BusOK

\* A step of the plugin that sends nothing and keeps its socket open.
LEMMA QuietPluginMoves ==
    ASSUME SystemInv, PluginSteps, sent' = <<>>, receiver', NEW w
    PROVE  /\ Moves(w, InPlace) /\ StillQueued
           /\ \A s \in SequenceNumbers : OnWay(w, s) => OnWay(w, s)'
<1>1. UNCHANGED <<to_motors, owed, to_plugin>>
    BY NoCommandsMove DEF PluginSteps, NodeIdle, node
<1>2. \A k \in Places, s \in SequenceNumbers : AckAt(w, k, s)' <=> AckAt(w, k, s)
    BY <1>1 DEF AckAt
<1> QED BY <1>1, <1>2, NothingMoves

LEMMA PassMoves ==
    ASSUME SystemInv, Pass, NEW w
    PROVE  /\ Moves(w, InPlace) /\ StillQueued
           /\ \A s \in SequenceNumbers : OnWay(w, s) => OnWay(w, s)'
<1>1. UNCHANGED <<to_motors, owed>>
    BY DEF Pass, Motors!Tick
<1>2. \A i \in 1 .. Len(to_plugin) : to_plugin[i] \in BusEntry
    BY ElementOfSeq DEF SystemInv, BusOK
<1>3. Len(to_plugin) \in Nat
    BY LenProperties DEF SystemInv, BusOK
<1>4. Len(to_plugin') = Len(to_plugin)
    BY <1>3 DEF Pass
<1>5. \A i \in 1 .. Len(to_plugin) : to_plugin'[i].frame = to_plugin[i].frame
    BY <1>2 DEF Pass, BusEntry
<1>6. \A k \in Places, s \in SequenceNumbers : AckAt(w, k, s)' <=> AckAt(w, k, s)
    BY <1>4, <1>5 DEF AckAt
<1> QED BY <1>1, <1>6, NothingMoves

LEMMA EmitMoves ==
    ASSUME SystemInv, Emit, receiver, NEW w
    PROVE  /\ Moves(w, InPlace) /\ StillQueued
           /\ \A s \in SequenceNumbers : OnWay(w, s) => OnWay(w, s)'
<1> DEFINE new == EntriesOf(motor_sent')
<1>1. UNCHANGED <<to_motors, owed>>
    BY DEF Emit, Motors!Emit
<1>2. to_plugin' = Enqueue(to_plugin, new)
    BY DEF Emit, Received, EntriesOf
<1>3. /\ new \in Seq(BusEntry) /\ Len(new) = Len(motor_sent')
      /\ motor_sent' \in Seq(GoodFrame) /\ Len(motor_sent') \in Nat
      /\ \A i \in 1 .. Len(motor_sent') : motor_sent'[i].kind # "ack"
    BY EmitSends, EntriesType, LenProperties
<1>4. \A i \in 1 .. Len(new) : new[i].frame.kind # "ack"
    BY <1>3 DEF EntriesOf, Entry
<1>5. /\ to_plugin \in Seq(BusEntry) /\ Len(to_plugin) <= QueueMax
      /\ Len(to_plugin) \in Nat
    BY LenProperties DEF SystemInv, BusOK
<1> DEFINE e == Enqueue(to_plugin, new)
<1> HIDE DEF new
<1>10. Grows(BusEntry, to_plugin, new, e)
    BY <1>3, <1>5, EnqueueIs
<1>11. to_plugin' = e
    BY <1>2
<1> HIDE DEF e
<1>6. /\ to_plugin' \in Seq(BusEntry)
      /\ Len(to_plugin') >= Len(to_plugin) /\ Len(to_plugin') <= Len(to_plugin) + Len(new)
      /\ \A i \in 1 .. Len(to_plugin) : to_plugin'[i] = to_plugin[i]
      /\ \A i \in Len(to_plugin) + 1 .. Len(to_plugin') :
             to_plugin'[i] = new[i - Len(to_plugin)]
    BY <1>10, <1>11 DEF Grows
<1>7. Len(to_plugin') \in Nat /\ Len(new) \in Nat
    BY <1>3, <1>6, LenProperties
<1>8. \A i \in Len(to_plugin) + 1 .. Len(to_plugin') : to_plugin'[i].frame.kind # "ack"
    BY <1>4, <1>5, <1>6, <1>7
<1>9. ASSUME NEW k \in Places, NEW s \in SequenceNumbers
      PROVE  AckAt(w, k, s)' <=> AckAt(w, k, s)
    <2> DEFINE i == k + QueueMax
    <2>1. i \in Int
        BY PlaceRange, SequenceRange
    <2>2. \/ i \in 1 .. Len(to_plugin)
          \/ i \in Len(to_plugin) + 1 .. Len(to_plugin')
          \/ i \notin 1 .. Len(to_plugin')
        BY <1>5, <1>7, <2>1
    <2>3. i \in 1 .. Len(to_plugin) => i \in 1 .. Len(to_plugin')
        BY <1>5, <1>6, <1>7, <2>1
    <2>4. i \in Len(to_plugin) + 1 .. Len(to_plugin') => i \notin 1 .. Len(to_plugin)
        BY <1>5, <1>7, <2>1
    <2> QED BY <1>6, <1>8, <2>2, <2>3, <2>4 DEF AckAt
<1> QED BY <1>1, <1>9, NothingMoves

\* The plugin takes the frame at the first place; the others move up.
First == 1 - QueueMax

Drawn == [k \in Places |-> IF k <= 0 THEN k + 1 ELSE k]

LEMMA ReadMoves ==
    ASSUME SystemInv, ReadFrame, NEW w
    PROVE  /\ Moves(w, Drawn) /\ StillQueued /\ \A k \in Places : k <= 1 => Drawn[k] <= 1
           /\ \A k \in Places, r \in SequenceNumbers : Flies(w, k, r)' => Drawn[k] # First
           /\ \A s \in SequenceNumbers : OnWay(w, s) => OnWay(w, s)' \/ AckAt(w, First, s)
<1>1. /\ UNCHANGED <<to_motors, owed>>
      /\ to_plugin # <<>> /\ to_plugin' = Tail(to_plugin)
    BY DEF ReadFrame, NodeIdle, node
<1>2. /\ to_plugin \in Seq(BusEntry) /\ Len(to_plugin) <= QueueMax
      /\ Len(to_plugin) \in Nat \ {0}
    BY <1>1, LenProperties, EmptySeq DEF SystemInv, BusOK
<1>3. /\ Len(to_plugin') = Len(to_plugin) - 1
      /\ \A i \in 1 .. Len(to_plugin) - 1 : to_plugin'[i] = to_plugin[i + 1]
    BY <1>1, <1>2, HeadTailProperties
<1>4. /\ \A k \in Places : Drawn[k] = IF k <= 0 THEN k + 1 ELSE k
      /\ \A k \in Places : k <= 0 => k + 1 \in Places
      /\ First \in Places /\ \A k \in Places : k >= First
      /\ \A k \in Places : k # First => k - 1 \in Places
      /\ QueueMax \in Nat \ {0} /\ First = 1 - QueueMax /\ Places \subseteq Int
    BY PlaceRange, SequenceRange DEF Drawn, First
<1>5. ASSUME NEW k \in Places, NEW s \in SequenceNumbers, AckAt(w, k, s)'
      PROVE  k <= -1 /\ AckAt(w, k + 1, s)
    <2>1. k + QueueMax \in 1 .. Len(to_plugin) - 1
        BY <1>3, <1>5 DEF AckAt
    <2>2. k <= -1 /\ (k + 1) + QueueMax = (k + QueueMax) + 1
          /\ (k + 1) + QueueMax \in 1 .. Len(to_plugin)
        BY <1>2, <1>4, <2>1
    <2> QED BY <1>3, <1>5, <2>1, <2>2 DEF AckAt
<1>6. ASSUME NEW k \in Places, NEW s \in SequenceNumbers, AckAt(w, k, s), k # First
      PROVE  AckAt(w, k - 1, s)'
    <2> DEFINE i == (k - 1) + QueueMax
    <2>1. i \in 1 .. Len(to_plugin) - 1 /\ i + 1 = k + QueueMax
        BY <1>2, <1>4, <1>6 DEF AckAt
    <2>2. to_plugin'[i] = to_plugin[k + QueueMax] /\ i \in 1 .. Len(to_plugin')
        BY <1>3, <2>1
    <2> QED BY <1>6, <2>2 DEF AckAt
<1>7. \A k \in Places, s \in SequenceNumbers :
          /\ OwedAt(w, k, s)' <=> OwedAt(w, k, s)
          /\ CommandAt(w, k, s)' <=> CommandAt(w, k, s)
          /\ OwedAt(w, k, s) => k >= 1
          /\ CommandAt(w, k, s) => k >= 2
    BY <1>1, <1>4, LenProperties DEF OwedAt, CommandAt, SystemInv, BusOK
<1>8. ASSUME NEW k \in Places, NEW s \in SequenceNumbers, Flies(w, k, s)'
      PROVE  /\ Drawn[k] \in Places /\ Flies(w, Drawn[k], s) /\ Drawn[k] # First
             /\ k <= -1 \/ k >= 1
    BY <1>4, <1>5, <1>7, <1>8 DEF Flies
<1>9. Moves(w, Drawn)
    BY <1>4, <1>8 DEF Moves
<1>10. StillQueued
    BY <1>1 DEF StillQueued
<1>11. \A s \in SequenceNumbers : OnWay(w, s) => OnWay(w, s)' \/ AckAt(w, First, s)
    <2> SUFFICES ASSUME NEW s \in SequenceNumbers, NEW k \in Places, Flies(w, k, s),
                        ~AckAt(w, First, s)
                 PROVE  OnWay(w, s)'
        BY DEF OnWay
    <2>1. CASE AckAt(w, k, s)
        BY <1>4, <1>6, <2>1 DEF OnWay, Flies
    <2>2. CASE OwedAt(w, k, s) \/ CommandAt(w, k, s)
        BY <1>7, <2>2 DEF OnWay, Flies
    <2> QED BY <2>1, <2>2 DEF Flies
<1> QED BY <1>4, <1>8, <1>9, <1>10, <1>11

\* The motor node takes the next command: it is obeyed, or lost.
Taken == [k \in Places |-> IF k >= 1 THEN k + 1 ELSE k]

LEMMA TakenIs ==
    ASSUME NEW k \in Places
    PROVE  Taken[k] = (IF k >= 1 THEN k + 1 ELSE k) /\ Taken[k] \in Int /\ k \in Int
BY PlaceRange DEF Taken

LEMMA QueueTaken ==
    ASSUME SystemInv, to_motors # <<>>, to_motors' = Tail(to_motors), NEW w
    PROVE  /\ StillQueued
           /\ \A k \in Places, s \in SequenceNumbers :
                  CommandAt(w, k, s)' => k >= 2 /\ CommandAt(w, k + 1, s)
           /\ \A k \in Places, s \in SequenceNumbers :
                  CommandAt(w, k, s) => k = 2 \/ (k - 1 \in Places /\ CommandAt(w, k - 1, s)')
<1>1. /\ to_motors \in Seq(GoodCommand) /\ Len(to_motors) <= QueueMax
      /\ Len(to_motors) \in Nat \ {0}
    BY LenProperties, EmptySeq DEF SystemInv, BusOK
<1>2. /\ Len(to_motors') = Len(to_motors) - 1
      /\ \A i \in 1 .. Len(to_motors) - 1 : to_motors'[i] = to_motors[i + 1]
    BY <1>1, HeadTailProperties
<1>3. StillQueued
    <2>1. \A i \in 1 .. Len(to_motors) - 1 : i + 1 \in 1 .. Len(to_motors)
        BY <1>1
    <2> QED BY <1>2, <2>1 DEF StillQueued
<1>4. ASSUME NEW k \in Places, NEW s \in SequenceNumbers, CommandAt(w, k, s)'
      PROVE  k >= 2 /\ CommandAt(w, k + 1, s)
    <2>1. k \in Int /\ k - 1 \in 1 .. Len(to_motors) - 1
        BY <1>2, <1>4, PlaceRange DEF CommandAt
    <2>2. k >= 2 /\ (k + 1) - 1 = (k - 1) + 1 /\ (k + 1) - 1 \in 1 .. Len(to_motors)
        BY <1>1, <2>1
    <2> QED BY <1>2, <1>4, <2>1, <2>2 DEF CommandAt
<1>5. ASSUME NEW k \in Places, NEW s \in SequenceNumbers, CommandAt(w, k, s), k # 2
      PROVE  k - 1 \in Places /\ CommandAt(w, k - 1, s)'
    <2> DEFINE i == (k - 1) - 1
    <2>1. i \in 1 .. Len(to_motors) - 1 /\ i + 1 = k - 1 /\ k - 1 \in Places
        BY <1>1, <1>5, PlaceRange, SequenceRange DEF CommandAt
    <2>2. to_motors'[i] = to_motors[k - 1] /\ i \in 1 .. Len(to_motors')
        BY <1>2, <2>1
    <2> QED BY <1>5, <2>1, <2>2 DEF CommandAt
<1> QED BY <1>3, <1>4, <1>5

Skipped == [k \in Places |-> IF k >= 2 THEN k + 1 ELSE k]

LEMMA SkippedIs ==
    ASSUME NEW k \in Places
    PROVE  Skipped[k] = (IF k >= 2 THEN k + 1 ELSE k) /\ Skipped[k] \in Int /\ k \in Int
BY PlaceRange DEF Skipped

LEMMA ObeyKeeps ==
    ASSUME Obey, NEW w
    PROVE  /\ owed = <<>> /\ to_motors # <<>> /\ to_motors' = Tail(to_motors)
           /\ \A k \in Places, s \in SequenceNumbers : AckAt(w, k, s)' <=> AckAt(w, k, s)
BY DEF Obey, Motors!Obey, AckAt

LEMMA TwoPlaces == 1 \in Places /\ 2 \in Places
BY PlaceRange, SequenceRange

\* For a wheel that is owed nothing afterwards.
LEMMA SkipMoves ==
    ASSUME SystemInv, Obey, NEW w, \A k \in Places, s \in SequenceNumbers : ~OwedAt(w, k, s)'
    PROVE  /\ Moves(w, Skipped) /\ StillQueued /\ \A k \in Places : k <= 1 => Skipped[k] <= 1
           /\ \A k \in Places, r \in SequenceNumbers : Flies(w, k, r)' => Skipped[k] # 2
           /\ \A s \in SequenceNumbers : OnWay(w, s) => OnWay(w, s)' \/ CommandAt(w, 2, s)
<1>1. /\ StillQueued
      /\ \A k \in Places, s \in SequenceNumbers :
             CommandAt(w, k, s)' => k >= 2 /\ CommandAt(w, k + 1, s)
      /\ \A k \in Places, s \in SequenceNumbers :
             CommandAt(w, k, s) => k = 2 \/ (k - 1 \in Places /\ CommandAt(w, k - 1, s)')
    BY ObeyKeeps, QueueTaken
<1>2. \A k \in Places, s \in SequenceNumbers :
          /\ AckAt(w, k, s)' <=> AckAt(w, k, s)
          /\ ~OwedAt(w, k, s) /\ ~OwedAt(w, k, s)'
    BY ObeyKeeps DEF OwedAt
<1>3. ASSUME NEW k \in Places, NEW s \in SequenceNumbers, Flies(w, k, s)'
      PROVE  /\ Skipped[k] \in Places /\ Flies(w, Skipped[k], s) /\ Skipped[k] # 2
             /\ k <= 0 \/ k >= 2
    <2>1. CASE AckAt(w, k, s)'
        <3>1. AckAt(w, k, s) /\ Flies(w, k, s) /\ k \in Int
            BY <1>2, <2>1, PlaceRange DEF Flies
        <3>2. k <= 0
            BY <3>1, FlyingPlace
        <3> QED BY <3>1, <3>2, SkippedIs
    <2>2. CASE CommandAt(w, k, s)'
        <3>1. k >= 2 /\ CommandAt(w, k + 1, s) /\ Flies(w, k + 1, s) /\ k + 1 \in Int
            BY <1>1, <2>2, PlaceRange DEF Flies
        <3>2. k + 1 \in Places
            BY <3>1, FlyingPlace
        <3> QED BY <3>1, <3>2, SkippedIs
    <2> QED BY <1>2, <1>3, <2>1, <2>2 DEF Flies
<1>4. Moves(w, Skipped)
    BY <1>3, SkippedIs DEF Moves
<1>5. \A k \in Places : k <= 1 => Skipped[k] <= 1
    BY SkippedIs
<1>6. \A s \in SequenceNumbers : OnWay(w, s) => OnWay(w, s)' \/ CommandAt(w, 2, s)
    <2> SUFFICES ASSUME NEW s \in SequenceNumbers, NEW k \in Places, Flies(w, k, s),
                        ~CommandAt(w, 2, s)
                 PROVE  OnWay(w, s)'
        BY DEF OnWay
    <2> QED BY <1>1, <1>2 DEF Flies, OnWay
<1> QED BY <1>1, <1>3, <1>4, <1>5, <1>6

LEMMA ObeyedMoves ==
    ASSUME SystemInv, Obey, owed' = <<Head(to_motors)>>, NEW w
    PROVE  /\ Moves(w, Taken) /\ StillQueued
           /\ \A s \in SequenceNumbers : OnWay(w, s) => OnWay(w, s)'
<1>1. /\ StillQueued
      /\ \A k \in Places, s \in SequenceNumbers :
             CommandAt(w, k, s)' => k >= 2 /\ CommandAt(w, k + 1, s)
      /\ \A k \in Places, s \in SequenceNumbers :
             CommandAt(w, k, s) => k = 2 \/ (k - 1 \in Places /\ CommandAt(w, k - 1, s)')
    BY ObeyKeeps, QueueTaken
<1>2. \A k \in Places, s \in SequenceNumbers :
          /\ AckAt(w, k, s)' <=> AckAt(w, k, s)
          /\ ~OwedAt(w, k, s)
          /\ OwedAt(w, k, s)' <=> k = 1 /\ CommandAt(w, 2, s)
    <2>1. /\ owed = <<>> /\ owed' # <<>> /\ owed'[1] = to_motors[1]
          /\ 2 - 1 = 1 /\ 1 \in 1 .. Len(to_motors)
        BY ObeyKeeps, LenProperties, EmptySeq DEF SystemInv, BusOK
    <2> QED BY <2>1, ObeyKeeps DEF OwedAt, CommandAt
<1>3. ASSUME NEW k \in Places, NEW s \in SequenceNumbers, Flies(w, k, s)'
      PROVE  Taken[k] \in Places /\ Flies(w, Taken[k], s)
    <2>1. CASE AckAt(w, k, s)'
        <3>1. AckAt(w, k, s) /\ Flies(w, k, s) /\ k \in Int
            BY <1>2, <2>1, PlaceRange DEF Flies
        <3>2. k <= 0
            BY <3>1, FlyingPlace
        <3> QED BY <3>1, <3>2, TakenIs
    <2>2. CASE CommandAt(w, k, s)'
        <3>1. k >= 2 /\ CommandAt(w, k + 1, s) /\ Flies(w, k + 1, s) /\ k + 1 \in Int
            BY <1>1, <2>2, PlaceRange DEF Flies
        <3>2. k + 1 \in Places
            BY <3>1, FlyingPlace
        <3> QED BY <3>1, <3>2, TakenIs
    <2>3. CASE OwedAt(w, k, s)'
        <3>1. k = 1 /\ CommandAt(w, 2, s) /\ Taken[k] = 2
            BY <1>2, <2>3, TakenIs
        <3> QED BY <3>1, TwoPlaces DEF Flies
    <2> QED BY <1>3, <2>1, <2>2, <2>3 DEF Flies
<1>4. Moves(w, Taken)
    BY <1>3, TakenIs DEF Moves
<1>5. \A s \in SequenceNumbers : OnWay(w, s) => OnWay(w, s)'
    <2> SUFFICES ASSUME NEW s \in SequenceNumbers, NEW k \in Places, Flies(w, k, s)
                 PROVE  OnWay(w, s)'
        BY DEF OnWay
    <2> QED BY <1>1, <1>2, TwoPlaces DEF Flies, OnWay
<1> QED BY <1>1, <1>4, <1>5

\* The motor node answers: the ACK waits behind the others, or is lost.
Answered == [k \in Places |-> IF k = Len(to_plugin) + First THEN 1 ELSE k]

LEMMA AnsweredIs ==
    ASSUME NEW k \in Places
    PROVE  Answered[k] = (IF k = Len(to_plugin) + First THEN 1 ELSE k) /\ k \in Int
BY PlaceRange DEF Answered

LEMMA AnsweredMoves ==
    ASSUME SystemInv, Answer, receiver, NEW w,
           motor_sent' # <<>>, Len(to_plugin) # QueueMax
    PROVE  /\ Moves(w, Answered) /\ StillQueued
           /\ \A k \in Places : k <= 1 => Answered[k] <= 1
           /\ \A s \in SequenceNumbers : OnWay(w, s) => OnWay(w, s)'
<1> DEFINE a == Motors!AckFor(owed[1], Motors!AckResult(owed[1]))
           new == EntriesOf(motor_sent')
           e == Enqueue(to_plugin, new)
           n == Len(to_plugin) + 1
<1>1. /\ a \in GoodFrame /\ a.kind = "ack"
      /\ a.wheel = owed[1].wheel /\ a.sequence = owed[1].sequence
      /\ motor_sent' = <<a>>
    BY AnswerSends
<1> HIDE DEF a
<1>2. new \in Seq(BusEntry) /\ Len(new) = 1 /\ new[1].frame = a
    <2>1. <<a>> \in Seq(GoodFrame) /\ Len(<<a>>) = 1 /\ <<a>>[1] = a
        BY <1>1
    <2>2. EntriesOf(<<a>>)[1].frame = a
        BY <2>1 DEF EntriesOf, Entry
    <2> QED BY <1>1, <2>1, <2>2, EntriesType
<1>3. /\ to_plugin \in Seq(BusEntry)
      /\ Len(to_plugin) <= QueueMax /\ Len(to_plugin) < QueueMax
      /\ Len(to_plugin) \in Nat
    BY LenProperties, SequenceRange DEF SystemInv, BusOK
<1>5. to_plugin' = e
    BY DEF Answer, Received, EntriesOf
<1> HIDE DEF new
<1>4. Grows(BusEntry, to_plugin, new, e)
    BY <1>2, <1>3, EnqueueIs
<1> HIDE DEF e
<1>6. /\ Len(to_plugin') = n /\ to_plugin'[n].frame = a
      /\ \A i \in 1 .. Len(to_plugin) : to_plugin'[i] = to_plugin[i]
    <2>1. Len(e) = n
        BY <1>2, <1>3, <1>4, SequenceRange DEF Grows
    <2>2. n \in Len(to_plugin) + 1 .. Len(e) /\ n - Len(to_plugin) = 1
        BY <1>3, <2>1
    <2> QED BY <1>2, <1>4, <1>5, <2>1, <2>2 DEF Grows
<1>7. /\ UNCHANGED to_motors /\ owed # <<>> /\ owed' = <<>>
    BY DEF Answer, Motors!Acknowledge
<1>8. /\ Len(to_plugin) + First \in Places /\ Len(to_plugin) + First <= 0
      /\ (Len(to_plugin) + First) + QueueMax = n /\ First = 1 - QueueMax
    BY <1>3, PlaceRange, SequenceRange DEF First
<1>9. \A k \in Places, s \in SequenceNumbers :
          /\ CommandAt(w, k, s)' <=> CommandAt(w, k, s)
          /\ ~OwedAt(w, k, s)'
          /\ OwedAt(w, k, s) <=> k = 1 /\ a.wheel = w /\ a.sequence = s
    BY <1>1, <1>7 DEF CommandAt, OwedAt
<1>10. ASSUME NEW k \in Places, NEW s \in SequenceNumbers
       PROVE  AckAt(w, k, s)' <=>
                  \/ AckAt(w, k, s)
                  \/ k = Len(to_plugin) + First /\ a.wheel = w /\ a.sequence = s
    <2> DEFINE i == k + QueueMax
    <2>1. i \in Int /\ k \in Int
        BY PlaceRange, SequenceRange
    <2>2. /\ i = n <=> k = Len(to_plugin) + First
          /\ i \in 1 .. n <=> i \in 1 .. Len(to_plugin) \/ i = n
          /\ n \notin 1 .. Len(to_plugin)
        BY <1>3, <1>8, <2>1, SequenceRange
    <2> QED BY <1>1, <1>6, <2>2 DEF AckAt
<1>11. ASSUME NEW k \in Places, NEW s \in SequenceNumbers, Flies(w, k, s)'
       PROVE  /\ Answered[k] \in Places /\ Flies(w, Answered[k], s)
              /\ k < Len(to_plugin) + First \/ k = Len(to_plugin) + First \/ k >= 2
    <2>1. CASE k = Len(to_plugin) + First
        <3>1. ~CommandAt(w, k, s) /\ ~AckAt(w, k, s)
            BY <1>3, <1>8, <2>1, SequenceRange DEF CommandAt, AckAt
        <3>2. a.wheel = w /\ a.sequence = s
            BY <1>9, <1>10, <1>11, <3>1 DEF Flies
        <3> QED BY <1>9, <2>1, <3>2, AnsweredIs, TwoPlaces DEF Flies
    <2>2. CASE k # Len(to_plugin) + First
        <3>1. Answered[k] = k /\ (AckAt(w, k, s) \/ CommandAt(w, k, s))
            BY <1>9, <1>10, <1>11, <2>2, AnsweredIs DEF Flies
        <3>2. AckAt(w, k, s) => k < Len(to_plugin) + First
            BY <1>3, <1>8, PlaceRange, SequenceRange DEF AckAt
        <3>3. CommandAt(w, k, s) => k >= 2
            BY PlaceRange, LenProperties DEF CommandAt, SystemInv, BusOK
        <3> QED BY <3>1, <3>2, <3>3 DEF Flies
    <2> QED BY <2>1, <2>2
<1>12. Moves(w, Answered)
    BY <1>3, <1>8, <1>11, AnsweredIs, SequenceRange DEF Moves
<1>13. \A s \in SequenceNumbers : OnWay(w, s) => OnWay(w, s)'
    <2> SUFFICES ASSUME NEW s \in SequenceNumbers, NEW k \in Places, Flies(w, k, s)
                 PROVE  OnWay(w, s)'
        BY DEF OnWay
    <2> QED BY <1>8, <1>9, <1>10 DEF Flies, OnWay
<1>14. StillQueued
    BY <1>7 DEF StillQueued
<1>15. \A k \in Places : k <= 1 => Answered[k] <= 1
    BY AnsweredIs
<1> QED BY <1>12, <1>13, <1>14, <1>15

LEMMA UnansweredMoves ==
    ASSUME SystemInv, Answer, receiver, NEW w,
           motor_sent' = <<>> \/ Len(to_plugin) = QueueMax
    PROVE  /\ Moves(w, InPlace) /\ StillQueued
           /\ \A k \in Places, r \in SequenceNumbers : Flies(w, k, r)' => InPlace[k] # 1
           /\ \A s \in SequenceNumbers : OnWay(w, s) => OnWay(w, s)' \/ OwedAt(w, 1, s)
<1> DEFINE new == EntriesOf(motor_sent')
<1>1. /\ to_plugin \in Seq(BusEntry) /\ Len(to_plugin) <= QueueMax /\ Len(to_plugin) \in Nat
    BY LenProperties DEF SystemInv, BusOK
<1>2. to_plugin' = Enqueue(to_plugin, new)
    BY DEF Answer, Received, EntriesOf
<1>3. to_plugin' = to_plugin
    <2>1. CASE motor_sent' = <<>>
        <3>1. new = <<>>
            BY <2>1 DEF EntriesOf
        <3> HIDE DEF new
        <3> QED BY <1>1, <1>2, <3>1, EnqueueNothing
    <2>2. CASE Len(to_plugin) = QueueMax
        <3> DEFINE a == Motors!AckFor(owed[1], Motors!AckResult(owed[1]))
        <3>1. a \in GoodFrame /\ motor_sent' \in {<<>>, <<a>>}
            BY AnswerSends
        <3> HIDE DEF a
        <3>7. <<a>> \in Seq(GoodFrame) /\ <<>> \in Seq(GoodFrame)
            BY <3>1
        <3>2. motor_sent' \in Seq(GoodFrame)
            BY <3>1, <3>7
        <3>3. new \in Seq(BusEntry)
            BY <3>2, EntriesType
        <3> DEFINE e == Enqueue(to_plugin, new)
        <3> HIDE DEF new
        <3>4. Grows(BusEntry, to_plugin, new, e)
            BY <1>1, <3>3, EnqueueIs
        <3> HIDE DEF e
        <3>5. /\ e \in Seq(BusEntry) /\ Len(e) = Len(to_plugin)
              /\ \A i \in 1 .. Len(to_plugin) : e[i] = to_plugin[i]
            BY <1>1, <2>2, <3>4, LenProperties, SequenceRange DEF Grows
        <3>6. e = to_plugin
            BY <1>1, <3>5, SeqEqual
        <3> QED BY <1>2, <3>6 DEF e
    <2> QED BY <2>1, <2>2
<1>4. UNCHANGED to_motors /\ owed' = <<>>
    BY DEF Answer, Motors!Acknowledge
<1>5. \A k \in Places, s \in SequenceNumbers :
          /\ AckAt(w, k, s)' <=> AckAt(w, k, s)
          /\ CommandAt(w, k, s)' <=> CommandAt(w, k, s)
          /\ ~OwedAt(w, k, s)'
    BY <1>3, <1>4 DEF AckAt, CommandAt, OwedAt
<1>6. \A k \in Places : InPlace[k] = k /\ k \in Int
    BY PlaceRange DEF InPlace
<1>7. \A k \in Places, s \in SequenceNumbers : AckAt(w, k, s) \/ CommandAt(w, k, s) => k # 1
    <2> SUFFICES ASSUME NEW k \in Places, NEW s \in SequenceNumbers,
                        AckAt(w, k, s) \/ CommandAt(w, k, s)
                 PROVE  k # 1
        OBVIOUS
    <2>1. Flies(w, k, s) /\ k \in Int
        BY <1>6 DEF Flies
    <2> QED BY <2>1, FlyingPlace
<1>8. Moves(w, InPlace)
    BY <1>5, <1>6 DEF Moves, Flies
<1>9. \A k \in Places, r \in SequenceNumbers : Flies(w, k, r)' => InPlace[k] # 1
    BY <1>5, <1>6, <1>7 DEF Flies
<1>10. \A s \in SequenceNumbers : OnWay(w, s) => OnWay(w, s)' \/ OwedAt(w, 1, s)
    <2> SUFFICES ASSUME NEW s \in SequenceNumbers, NEW k \in Places, Flies(w, k, s)
                 PROVE  OnWay(w, s)' \/ OwedAt(w, 1, s)
        BY DEF OnWay
    <2>1. OwedAt(w, k, s) => k = 1
        BY DEF OwedAt
    <2> QED BY <1>5, <2>1 DEF Flies, OnWay
<1>11. StillQueued
    BY <1>4 DEF StillQueued
<1> QED BY <1>8, <1>9, <1>10, <1>11

-----------------------------------------------------------------------------
(***************************************************************************)
(* What each step makes of the books                                       *)
(***************************************************************************)
LEMMA IdleBooks == ASSUME PluginIdle, NEW w PROVE SameBooks(w)
BY DEF PluginIdle, plugin, wire, SameBooks

\* The first command in the queue of the motor node.
LEMMA NextIsAt ==
    ASSUME SystemInv, to_motors # <<>>, NEW w
    PROVE  LET c == Head(to_motors) IN
           /\ c = to_motors[1] /\ 1 \in 1 .. Len(to_motors) /\ c \in GoodCommand
           /\ \A s : CommandAt(w, 2, s) <=> c.wheel = w /\ c.sequence = s
<1>1. /\ Head(to_motors) = to_motors[1] /\ 1 \in 1 .. Len(to_motors) /\ 2 - 1 = 1
      /\ Head(to_motors) \in GoodCommand
    BY NextCommand, LenProperties, EmptySeq DEF SystemInv, BusOK
<1> QED BY <1>1 DEF CommandAt

LEMMA LostCommandTracked ==
    ASSUME SystemInv, Obey, NodeIdle, Missing(Head(to_motors)), NEW w \in Wheels, Tracked(w)
    PROVE  Tracked(w)'
<1> DEFINE c == Head(to_motors)
<1>1. to_motors # <<>> /\ owed' = <<>> /\ SameMotor(w)
    BY ObeyKeeps DEF NodeIdle, node, SameMotor
<1>2. TypeOK /\ SameBooks(w)
    BY IdleBooks DEF Obey, SystemInv
<1>3. \A k \in Places, s \in SequenceNumbers : ~OwedAt(w, k, s)'
    BY <1>1 DEF OwedAt
<1>4. /\ Moves(w, Skipped) /\ StillQueued /\ \A k \in Places : k <= 1 => Skipped[k] <= 1
      /\ \A k \in Places, r \in SequenceNumbers : Flies(w, k, r)' => Skipped[k] # 2
      /\ \A s \in SequenceNumbers : OnWay(w, s) => OnWay(w, s)' \/ CommandAt(w, 2, s)
    BY <1>3, SkipMoves
<1>5. /\ c \in GoodCommand /\ c.sequence \in SequenceNumbers
      /\ \A s : CommandAt(w, 2, s) <=> c.wheel = w /\ c.sequence = s
    BY <1>1, NextIsAt, GoodCommandType
<1>6. /\ suspects' = suspects \cup {c.wheel}
      /\ lost' = IF Awaited(c.wheel, c.sequence) THEN lost \cup {c.wheel} ELSE lost
    BY DEF Missing
<1> HIDE DEF c
<1>7. CASE c.wheel = w
    <2>1. Flies(w, 2, c.sequence)
        BY <1>5, <1>7 DEF Flies
    <2>2. w \in suspects' /\ (w \in lost' => w \in lost \/ Awaited(w, c.sequence))
        BY <1>6, <1>7
    <2> QED BY <1>1, <1>2, <1>4, <1>5, <2>1, <2>2, TwoPlaces, TrackedLoses
<1>8. CASE c.wheel # w
    <2>1. (w \in suspects <=> w \in suspects') /\ (w \in lost <=> w \in lost')
        BY <1>6, <1>8
    <2>2. \A s \in SequenceNumbers : OnWay(w, s) => OnWay(w, s)'
        BY <1>4, <1>5, <1>8
    <2> QED BY <1>1, <1>2, <1>4, <2>1, <2>2, TrackedMoves
<1> QED BY <1>7, <1>8

LEMMA ObeyedTracked ==
    ASSUME SystemInv, Obey, Motors!Obey(Head(to_motors)), UNCHANGED <<suspects, lost>>,
           NEW w \in Wheels, Tracked(w)
    PROVE  Tracked(w)'
<1> DEFINE c == Head(to_motors)
           last == sequences[w]
<1>1. /\ to_motors # <<>> /\ owed' = <<c>>
      /\ motors' = [motors EXCEPT ![c.wheel] = Motors!Adopted(motors[c.wheel], c)]
    BY ObeyKeeps DEF Motors!Obey
<1>2. TypeOK /\ SameBooks(w)
    BY IdleBooks DEF Obey, SystemInv
<1>3. /\ c = to_motors[1] /\ 1 \in 1 .. Len(to_motors)
      /\ c \in GoodCommand /\ c.sequence \in SequenceNumbers /\ c.wheel \in Wheels
      /\ \A s : CommandAt(w, 2, s) <=> c.wheel = w /\ c.sequence = s
    BY <1>1, NextIsAt, GoodCommandType
<1>4. motors \in [Wheels -> Motors!Motor]
    BY DEF SystemInv, NodeOK
<1>5. CASE c.wheel # w
    <2>1. SameMotor(w)
        BY <1>1, <1>3, <1>4, <1>5 DEF SameMotor
    <2>2. \A k \in Places, s \in SequenceNumbers : ~OwedAt(w, k, s)'
        BY <1>1, <1>5 DEF OwedAt
    <2>3. /\ Moves(w, Skipped) /\ StillQueued /\ \A k \in Places : k <= 1 => Skipped[k] <= 1
          /\ \A s \in SequenceNumbers : OnWay(w, s) => OnWay(w, s)' \/ CommandAt(w, 2, s)
        BY <2>2, SkipMoves
    <2>4. \A s \in SequenceNumbers : OnWay(w, s) => OnWay(w, s)'
        BY <1>3, <1>5, <2>3
    <2> QED BY <1>2, <2>1, <2>3, <2>4, TrackedMoves
<1>6. CASE c.wheel = w
    <2>1. /\ Moves(w, Taken) /\ StillQueued
          /\ \A s \in SequenceNumbers : OnWay(w, s) => OnWay(w, s)'
        BY <1>1, ObeyedMoves
    <2>2. InOrder(w)' /\ Counted(w)' /\ Recent(w)' /\ Enabling(w)'
        BY <1>2, <2>1, OrderMoves, CountedSame, RecentMoves, EnablingMoves
           DEF Tracked, SameBooks
    <2>3. /\ motors'[w].sequence = c.sequence /\ motors'[w].enabled = c.enabled
        BY <1>1, <1>3, <1>4, <1>6, AdoptedMotor, GoodCommandType
    <2>4. Flies(w, 2, c.sequence) /\ CommandAt(w, 2, c.sequence)
        BY <1>3, <1>6 DEF Flies
    <2>5. Back(last, c.sequence) \in Nat /\ last \in SequenceNumbers
          /\ Len(health.pending[w]) \in Nat
        BY <1>2, <1>3, BackType, BooksType
    <2>6. Back(last, c.sequence) < Len(health.pending[w]) => c.enabled
        BY <1>3, <1>6 DEF Tracked, Enabling
    <2>7. ASSUME NEW k \in Places, NEW s \in SequenceNumbers, Flies(w, k, s)', k <= 1,
                 Back(last, s) < Len(health.pending[w])
          PROVE  Back(last, c.sequence) <= Back(last, s) /\ c.enabled
        <3>1. Flies(w, Taken[k], s) /\ Taken[k] \in Places
            BY <2>1, <2>7 DEF Moves
        <3>2. Back(last, s) \in Nat
            BY <2>5, BackType
        <3>3. CASE k = 1
            <4>1. Taken[k] = 2
                BY <3>3, TakenIs
            <4>2. s = c.sequence
                BY <1>3, <3>1, <4>1, FlyingPlace, TwoPlaces DEF Flies, CommandAt
            <4> QED BY <2>5, <2>6, <2>7, <4>2
        <3>4. CASE k <= 0
            <4>1. Taken[k] = k /\ k < 2
                BY <3>4, TakenIs
            <4>2. Back(last, s) > Back(last, c.sequence)
                BY <1>3, <2>4, <3>1, <4>1, TwoPlaces DEF Tracked, InOrder
            <4> QED BY <2>5, <2>6, <2>7, <3>2, <4>2
        <3> QED BY <2>7, <3>3, <3>4, TakenIs
    <2>8. ~(Len(health.pending[w]) = 0 /\ trail[w] = "driving")
        <3>1. Back(last, c.sequence) >= Len(health.pending[w]) =>
                  (Len(health.pending[w]) = 0 => trail[w] # "driving")
            BY <1>3, <2>4, TwoPlaces DEF Tracked, Recent
        <3> QED BY <2>5, <3>1
    <2> HIDE DEF c
    <2>9. Adopting(w)'
        BY <1>2, <2>3, <2>7, <2>8 DEF Adopting, SameBooks
    <2>10. Complete(w)' /\ Missed(w)'
        <3>1. \A i \in 1 .. Len(health.pending[w]) :
                  health.pending[w][i].sequence \in SequenceNumbers
            BY <1>2, BooksType
        <3> QED BY <1>2, <2>1, <3>1, OnWayMoves DEF Tracked, Complete, Missed, SameBooks
    <2> QED BY <2>2, <2>9, <2>10 DEF Tracked
<1> QED BY <1>5, <1>6

LEMMA ObeyTracked ==
    ASSUME SystemInv, Obey, NEW w \in Wheels, Tracked(w) PROVE Tracked(w)'
BY ObeyedTracked, LostCommandTracked DEF Obey

LEMMA AnswerTracked ==
    ASSUME SystemInv, Answer, receiver, NEW w \in Wheels, Tracked(w) PROVE Tracked(w)'
<1>1. TypeOK /\ SameBooks(w)
    BY IdleBooks DEF Answer, SystemInv
<1>2. SameMotor(w) /\ owed # <<>>
    BY DEF Answer, Motors!Acknowledge, SameMotor
<1>3. CASE motor_sent' # <<>> /\ Len(to_plugin) # QueueMax
    <2>1. UNCHANGED <<suspects, lost>>
        BY <1>3 DEF Answer
    <2>2. /\ Moves(w, Answered) /\ StillQueued
          /\ \A k \in Places : k <= 1 => Answered[k] <= 1
          /\ \A s \in SequenceNumbers : OnWay(w, s) => OnWay(w, s)'
        BY <1>3, AnsweredMoves
    <2> QED BY <1>1, <1>2, <2>1, <2>2, TrackedMoves
<1>4. CASE motor_sent' = <<>> \/ Len(to_plugin) = QueueMax
    <2> DEFINE c == owed[1]
    <2>1. /\ Moves(w, InPlace) /\ StillQueued
          /\ \A k \in Places, r \in SequenceNumbers : Flies(w, k, r)' => InPlace[k] # 1
          /\ \A s \in SequenceNumbers : OnWay(w, s) => OnWay(w, s)' \/ OwedAt(w, 1, s)
        BY <1>4, UnansweredMoves
    <2>2. /\ c \in GoodCommand /\ c.sequence \in SequenceNumbers
          /\ \A s : OwedAt(w, 1, s) <=> c.wheel = w /\ c.sequence = s
        BY <1>2, OwedCommand, GoodCommandType DEF OwedAt
    <2>3. /\ suspects' = suspects \cup {c.wheel}
          /\ lost' = IF Awaited(c.wheel, c.sequence) THEN lost \cup {c.wheel} ELSE lost
        BY <1>4 DEF Answer, Missing
    <2> HIDE DEF c
    <2>4. CASE c.wheel = w
        <3>1. Flies(w, 1, c.sequence)
            BY <2>2, <2>4 DEF Flies
        <3>2. w \in suspects' /\ (w \in lost' => w \in lost \/ Awaited(w, c.sequence))
            BY <2>3, <2>4
        <3> QED BY <1>1, <1>2, <2>1, <2>2, <3>1, <3>2, TwoPlaces, InPlaceStays, TrackedLoses
    <2>5. CASE c.wheel # w
        <3>1. (w \in suspects <=> w \in suspects') /\ (w \in lost <=> w \in lost')
            BY <2>3, <2>5
        <3>2. \A s \in SequenceNumbers : OnWay(w, s) => OnWay(w, s)'
            BY <2>1, <2>2, <2>5
        <3> QED BY <1>1, <1>2, <2>1, <3>1, <3>2, InPlaceStays, TrackedMoves
    <2> QED BY <2>4, <2>5
<1> QED BY <1>3, <1>4

-----------------------------------------------------------------------------
(***************************************************************************)
(* The plugin takes a frame                                                *)
(***************************************************************************)
LEMMA HeadIs ==
    ASSUME SystemInv, to_plugin # <<>>, NEW w
    PROVE  LET f == Head(to_plugin).frame IN
           /\ First \in Places /\ First <= 1
           /\ \A k \in Places : k >= First
           /\ \A s : AckAt(w, First, s) <=> f.kind = "ack" /\ f.wheel = w /\ f.sequence = s
<1>1. /\ Head(to_plugin) = to_plugin[1] /\ 1 \in 1 .. Len(to_plugin)
    BY HeadTailProperties, LenProperties, EmptySeq DEF SystemInv, BusOK
<1>2. First + QueueMax = 1 /\ First \in Places /\ First <= 1 /\ \A k \in Places : k >= First
    BY PlaceRange, SequenceRange DEF First
<1> QED BY <1>1, <1>2 DEF AckAt

LEMMA ReadKeeps ==
    ASSUME ReadFrame, NEW w
    PROVE  /\ to_plugin # <<>> /\ SameMotor(w)
           /\ UNCHANGED <<sequences, trail, suspects, lost, to_motors>>
<1>1. UNCHANGED <<sequences, trail>>
    BY DEF ReadFrame, ReceiveAck, ReceiveFeedback, ReceiveIgnored, ReceiveWarning, wire
<1> QED BY <1>1 DEF ReadFrame, NodeIdle, node, SameMotor

\* Any frame other than an ACK of that wheel.
LEMMA OtherFrameBooks ==
    ASSUME SystemInv, ReadFrame, NEW w \in Wheels,
           \A s \in SequenceNumbers : ~AckAt(w, First, s)
    PROVE  SameBooks(w)
<1> DEFINE f == Head(to_plugin).frame
<1>1. /\ to_plugin # <<>> /\ UNCHANGED <<sequences, trail>>
    BY ReadKeeps
<1>2. /\ f.kind = "ack" => f.wheel \in Wheels /\ f.sequence \in SequenceNumbers
      /\ f.kind = "feedback" => f.wheel \in Wheels
    BY <1>1, FrameTypes
<1>3. f.kind = "ack" => f.wheel # w
    BY <1>1, <1>2, HeadIs
<1>4. \/ f.kind = "ack" /\ ReceiveAck(f.wheel, f.sequence, f.result)
      \/ f.kind = "feedback" /\ ReceiveFeedback(f.wheel, f.reading.velocity)
      \/ ReceiveIgnored \/ ReceiveWarning({"CRTL"})
    BY DEF ReadFrame
<1> HIDE DEF f
<1>5. health'.pending[w] = health.pending[w] /\ health'.ignored[w] = health.ignored[w]
    <2>1. health \in Health
        BY DEF SystemInv, TypeOK
    <2>2. CASE f.kind = "ack" /\ ReceiveAck(f.wheel, f.sequence, f.result)
        <3>1. health' = AckReceived(health, f.wheel, f.sequence, f.result)
            BY <2>2 DEF ReceiveAck
        <3> QED BY <1>2, <1>3, <2>1, <2>2, <3>1 DEF AckReceived, Health
    <2>3. CASE ReceiveFeedback(f.wheel, f.reading.velocity)
        BY <2>1, <2>3 DEF ReceiveFeedback, FeedbackReceived, Health
    <2>4. CASE ReceiveIgnored \/ ReceiveWarning({"CRTL"})
        BY <2>4 DEF ReceiveIgnored, ReceiveWarning
    <2> QED BY <1>4, <2>2, <2>3, <2>4
<1> QED BY <1>1, <1>5 DEF SameBooks

LEMMA OtherFrameTracked ==
    ASSUME SystemInv, ReadFrame, NEW w \in Wheels, Tracked(w),
           \A s \in SequenceNumbers : ~AckAt(w, First, s)
    PROVE  Tracked(w)'
<1>1. TypeOK /\ SameBooks(w) /\ SameMotor(w) /\ UNCHANGED <<suspects, lost>>
    BY OtherFrameBooks, ReadKeeps DEF SystemInv
<1>2. /\ Moves(w, Drawn) /\ StillQueued /\ \A k \in Places : k <= 1 => Drawn[k] <= 1
      /\ \A s \in SequenceNumbers : OnWay(w, s) => OnWay(w, s)'
    BY ReadMoves
<1> QED BY <1>1, <1>2, TrackedMoves

\* An ACK of that wheel.
LEMMA AckEffect ==
    ASSUME TypeOK, NEW w \in Wheels, NEW s \in SequenceNumbers, ReceiveAck(w, s, 0)
    PROVE  /\ AnswersFront(health, w, s) =>
                  /\ health'.pending[w] = Tail(health.pending[w])
                  /\ health'.ignored[w] = health.ignored[w]
           /\ ~AnswersFront(health, w, s) =>
                  /\ health'.pending[w] = health.pending[w]
                  /\ health'.ignored[w] # health.ignored[w] => health.ignored[w] = s
<1>1. health \in Health /\ health' = AckReceived(health, w, s, 0)
    BY DEF TypeOK, ReceiveAck
<1> QED BY <1>1 DEF AckReceived, AckVerdict, Health

\* The ACK that arrives is the oldest: while nothing was lost it is the one
\* that is waited for first, if it is waited for.
LEMMA FrontFirst ==
    ASSUME TypeOK, NEW w \in Wheels, Tracked(w), w \notin suspects,
           NEW s \in SequenceNumbers, AckAt(w, First, s), First \in Places,
           \A k \in Places : k >= First,
           Back(sequences[w], s) < Len(health.pending[w])
    PROVE  AnswersFront(health, w, s)
<1> DEFINE p == health.pending[w]
           last == sequences[w]
<1>1. /\ last \in SequenceNumbers /\ p \in Seq(PendingAck) /\ Len(p) \in Nat
      /\ \A i \in 1 .. Len(p) : p[i].sequence \in SequenceNumbers
    BY BooksType
<1>2. Back(last, s) \in Nat
    BY <1>1, BackType
<1>3. 1 \in 1 .. Len(p) /\ p # <<>> /\ Head(p) = p[1]
    BY <1>1, <1>2, HeadTailProperties
<1>4. PICK k \in Places : Flies(w, k, p[1].sequence)
    BY <1>3 DEF Tracked, Complete, OnWay
<1>5. Back(last, p[1].sequence) = Len(p) - 1
    BY <1>3 DEF Tracked, Counted
<1>6. k = First
    <2>1. Flies(w, First, s)
        BY DEF Flies
    <2>2. ~(First < k)
        BY <1>1, <1>2, <1>3, <1>4, <1>5, <2>1 DEF Tracked, InOrder
    <2> QED BY <2>2, PlaceRange
<1>7. p[1].sequence = s
    <2>1. Flies(w, First, p[1].sequence) /\ Flies(w, First, s)
        BY <1>4, <1>6 DEF Flies
    <2>2. Back(last, s) = Back(last, p[1].sequence)
        <3>1. First <= 0
            BY SequenceRange DEF First
        <3>2. First # 1 /\ ~(First - 1 \in 1 .. Len(to_motors))
            BY <3>1, PlaceRange, SequenceRange DEF First
        <3>3. AckAt(w, First, p[1].sequence)
            BY <2>1, <3>2 DEF Flies, OwedAt, CommandAt
        <3> QED BY <3>3 DEF AckAt
    <2> QED BY <1>1, <1>3, <2>2, BackInjective
<1> QED BY <1>3, <1>7 DEF AnswersFront

\* What is left when it is taken was sent later.
LEMMA RestIsLater ==
    ASSUME SystemInv, ReadFrame, NEW w \in Wheels, InOrder(w),
           NEW s \in SequenceNumbers, AckAt(w, First, s)
    PROVE  \A k \in Places, r \in SequenceNumbers : Flies(w, k, r)' =>
               /\ Drawn[k] \in Places /\ Flies(w, Drawn[k], r)
               /\ Back(sequences[w], r) < Back(sequences[w], s)
<1> SUFFICES ASSUME NEW k \in Places, NEW r \in SequenceNumbers, Flies(w, k, r)'
             PROVE  /\ Drawn[k] \in Places /\ Flies(w, Drawn[k], r)
                    /\ Back(sequences[w], r) < Back(sequences[w], s)
    OBVIOUS
<1>1. First \in Places /\ \A l \in Places : l >= First
    BY ReadKeeps, HeadIs
<1>2. Drawn[k] \in Places /\ Flies(w, Drawn[k], r) /\ Drawn[k] # First
    BY ReadMoves DEF Moves
<1>3. First < Drawn[k] /\ Flies(w, First, s)
    <2>1. First \in Int /\ Drawn[k] \in Int /\ Drawn[k] >= First
        BY <1>1, <1>2, PlaceRange
    <2>2. Flies(w, First, s)
        BY DEF Flies
    <2> QED BY <1>2, <2>1, <2>2
<1>4. Back(sequences[w], r) < Back(sequences[w], s)
    <2>1. Back(sequences[w], s) > Back(sequences[w], r)
        BY <1>1, <1>2, <1>3 DEF InOrder
    <2>2. sequences[w] \in SequenceNumbers
        BY BooksType DEF SystemInv
    <2>3. Back(sequences[w], s) \in Nat /\ Back(sequences[w], r) \in Nat
        BY <2>2, BackType
    <2> QED BY <2>1, <2>3
<1> QED BY <1>2, <1>4

LEMMA FrontAckTracked ==
    ASSUME SystemInv, ReadFrame, NEW w \in Wheels, Tracked(w),
           NEW s \in SequenceNumbers, AckAt(w, First, s),
           ReceiveAck(w, s, 0), AnswersFront(health, w, s)
    PROVE  Tracked(w)'
<1> DEFINE p == health.pending[w]
           last == sequences[w]
<1>1. /\ TypeOK /\ last \in SequenceNumbers /\ p \in Seq(PendingAck) /\ Len(p) \in Nat
      /\ \A i \in 1 .. Len(p) : p[i].sequence \in SequenceNumbers
    BY BooksType DEF SystemInv
<1>2. /\ p # <<>> /\ p[1].sequence = s /\ Len(p) >= 1 /\ 1 \in 1 .. Len(p)
    BY <1>1, HeadTailProperties, EmptySeq DEF AnswersFront
<1>3. /\ health'.pending[w] = Tail(p) /\ Len(Tail(p)) = Len(p) - 1
      /\ \A i \in 1 .. Len(p) - 1 : Tail(p)[i] = p[i + 1]
    BY <1>1, <1>2, AckEffect, HeadTailProperties
<1>4. /\ SameMotor(w) /\ UNCHANGED <<sequences, trail, suspects, lost, to_motors>>
    BY ReadKeeps
<1>5. Back(last, s) = Len(p) - 1
    BY <1>2 DEF Tracked, Counted
<1>6. /\ Moves(w, Drawn) /\ \A k \in Places : k <= 1 => Drawn[k] <= 1
      /\ \A r \in SequenceNumbers : OnWay(w, r) => OnWay(w, r)' \/ AckAt(w, First, r)
    BY ReadMoves
<1>7. \A k \in Places, r \in SequenceNumbers : Flies(w, k, r)' =>
          /\ Drawn[k] \in Places /\ Flies(w, Drawn[k], r) /\ Back(last, r) < Len(p) - 1
    BY <1>5, RestIsLater DEF Tracked
<1>8. \A r \in SequenceNumbers : Back(last, r) \in Nat
    BY <1>1, BackType
<1>9. InOrder(w)'
    BY <1>4, <1>6, OrderMoves DEF Tracked
<1>10. Counted(w)'
    <2>1. \A i \in 1 .. Len(p) - 1 : i + 1 \in 1 .. Len(p)
        BY <1>1
    <2>2. \A i \in 1 .. Len(p) - 1 : Back(last, p[i + 1].sequence) = Len(p) - (i + 1)
        BY <2>1 DEF Tracked, Counted
    <2>3. Len(p) <= MaxPending /\ MaxPending \in Nat
        BY SequenceRange DEF Tracked, Counted
    <2>4. \A i \in 1 .. Len(p) - 1 : Len(p) - (i + 1) = (Len(p) - 1) - i
        BY <1>1
    <2>5. Len(p) - 1 <= MaxPending
        BY <1>1, <2>3
    <2> HIDE DEF p, last
    <2> QED BY <1>3, <1>4, <2>2, <2>4, <2>5 DEF Counted, p, last
<1>11. Recent(w)'
    <2> SUFFICES ASSUME NEW k \in Places, NEW r \in SequenceNumbers, Flies(w, k, r)'
                 PROVE  /\ Back(last, r) <= (Len(p) - 1) + Slack(w)'
                        /\ ~(Back(last, r) >= Len(p) - 1)
        BY <1>3, <1>4 DEF Recent
    <2>1. Back(last, r) < Len(p) - 1 /\ Back(last, r) \in Nat /\ Slack(w)' \in Nat
        BY <1>7, <1>8, HalfRange DEF Slack, HalfQueue
    <2> QED BY <1>1, <2>1
<1>12. Enabling(w)'
    <2> SUFFICES ASSUME NEW i \in 1 .. Len(to_motors), to_motors[i].wheel = w,
                        Back(last, to_motors[i].sequence) < Len(p) - 1
                 PROVE  to_motors[i].enabled
        BY <1>3, <1>4 DEF Enabling
    <2>1. to_motors[i].sequence \in SequenceNumbers
        BY ElementOfSeq, GoodCommandType DEF SystemInv, BusOK
    <2>2. Back(last, to_motors[i].sequence) < Len(p)
        BY <1>1, <1>8, <2>1
    <2> QED BY <2>2 DEF Tracked, Enabling
<1>13. Adopting(w)'
    <2>1. ASSUME NEW k \in Places, NEW r \in SequenceNumbers, Flies(w, k, r)', k <= 1
          PROVE  Back(last, motors[w].sequence) <= Back(last, r) /\ motors[w].enabled
        <3>1. Drawn[k] \in Places /\ Flies(w, Drawn[k], r) /\ Drawn[k] <= 1
            BY <1>6, <1>7, <2>1
        <3>2. Back(last, r) < Len(p)
            <4>1. Back(last, r) < Len(p) - 1
                BY <1>7, <2>1
            <4>2. Back(last, r) \in Nat /\ Len(p) \in Nat
                BY <1>1, <1>8
            <4> HIDE DEF p, last
            <4> QED BY <4>1, <4>2
        <3> QED BY <3>1, <3>2 DEF Tracked, Adopting
    <2>2. ASSUME Len(p) = 1 PROVE motors[w].sequence = last /\ motors[w].enabled
        <3>1. First \in Places /\ First <= 1 /\ Flies(w, First, s)
            BY ReadKeeps, HeadIs DEF Flies
        <3>2. Back(last, s) = 0 /\ Back(last, s) < Len(p)
            BY <1>5, <2>2
        <3>3. Back(last, motors[w].sequence) <= 0 /\ motors[w].enabled
            BY <3>1, <3>2 DEF Tracked, Adopting
        <3>4. motors[w].sequence \in SequenceNumbers
            BY MotorFields DEF SystemInv, NodeOK
        <3>5. Back(last, motors[w].sequence) = Back(last, last)
            BY <1>1, <1>8, <3>3, <3>4, BackSelf
        <3> QED BY <1>1, <3>3, <3>4, <3>5, BackInjective
    <2>3. Len(p) - 1 = 0 => Len(p) = 1
        BY <1>1
    <2> HIDE DEF p, last
    <2> QED BY <1>3, <1>4, <2>1, <2>2, <2>3 DEF Adopting, SameMotor, last
<1>14. Complete(w)'
    <2> SUFFICES ASSUME w \notin suspects, NEW i \in 1 .. Len(p) - 1
                 PROVE  \E r \in SequenceNumbers :
                            Tail(p)[i].sequence = r /\ OnWay(w, r)'
        BY <1>3, <1>4 DEF Complete
    <2>1. i + 1 \in 1 .. Len(p) /\ Tail(p)[i] = p[i + 1] /\ Len(p) - (i + 1) # Len(p) - 1
        BY <1>1, <1>3
    <2>2. PICK r \in SequenceNumbers : r = p[i + 1].sequence
        BY <1>1, <2>1
    <2>3. OnWay(w, r) /\ Back(last, r) = Len(p) - (i + 1)
        BY <2>1, <2>2 DEF Tracked, Complete, Counted
    <2>4. r # s
        BY <1>5, <2>1, <2>3
    <2>5. ~AckAt(w, First, r)
        BY <2>4 DEF AckAt
    <2>6. OnWay(w, r)'
        BY <1>6, <2>3, <2>5
    <2> QED BY <2>1, <2>2, <2>6
<1>15. Missed(w)'
    <2> SUFFICES ASSUME w \in lost
                 PROVE  \E i \in 1 .. Len(p) - 1, r \in SequenceNumbers :
                            Tail(p)[i].sequence = r /\ ~OnWay(w, r)'
        BY <1>3, <1>4 DEF Missed
    <2>1. PICK i \in 1 .. Len(p) : ~OnWay(w, p[i].sequence)
        BY DEF Tracked, Missed
    <2>2. OnWay(w, s)
        BY ReadKeeps, HeadIs DEF OnWay, Flies
    <2>3. i # 1
        BY <1>2, <2>1, <2>2
    <2>4. i - 1 \in 1 .. Len(p) - 1 /\ (i - 1) + 1 = i
        BY <1>1, <2>3
    <2>5. PICK r \in SequenceNumbers : r = p[i].sequence
        BY <1>1
    <2>6. ~OnWay(w, r)'
        BY <1>6, <2>1, <2>5, OnWayMoves
    <2>7. Tail(p)[i - 1].sequence = r
        BY <1>3, <2>4, <2>5
    <2> QED BY <2>4, <2>6, <2>7
<1> QED BY <1>9, <1>10, <1>11, <1>12, <1>13, <1>14, <1>15 DEF Tracked

\* An ACK other than the one waited for first: that of the stop frame, or one
\* that nobody waits for.
LEMMA OtherAckTracked ==
    ASSUME SystemInv, ReadFrame, NEW w \in Wheels, Tracked(w),
           NEW s \in SequenceNumbers, AckAt(w, First, s),
           ReceiveAck(w, s, 0), ~AnswersFront(health, w, s)
    PROVE  Tracked(w)'
<1> DEFINE p == health.pending[w]
           last == sequences[w]
<1>1. /\ TypeOK /\ last \in SequenceNumbers /\ Len(p) \in Nat
      /\ \A i \in 1 .. Len(p) : p[i].sequence \in SequenceNumbers
    BY BooksType DEF SystemInv
<1>2. /\ health'.pending[w] = p
      /\ health'.ignored[w] # health.ignored[w] => health.ignored[w] = s
    BY <1>1, AckEffect
<1>3. /\ SameMotor(w) /\ UNCHANGED <<sequences, trail, suspects, lost, to_motors>>
    BY ReadKeeps
<1>4. /\ Moves(w, Drawn) /\ \A k \in Places : k <= 1 => Drawn[k] <= 1
      /\ \A r \in SequenceNumbers : OnWay(w, r) => OnWay(w, r)' \/ AckAt(w, First, r)
    BY ReadMoves
<1>5. InOrder(w)'
    BY <1>3, <1>4, OrderMoves DEF Tracked
<1>6. Counted(w)' /\ Enabling(w)'
    BY <1>2, <1>3 DEF Tracked, Counted, Enabling
<1>7. Recent(w)'
    <2> SUFFICES ASSUME NEW k \in Places, NEW r \in SequenceNumbers, Flies(w, k, r)'
                 PROVE  /\ Back(last, r) <= Len(p) + Slack(w)
                        /\ Back(last, r) >= Len(p) =>
                               /\ Slack(w) = 0 => health'.ignored[w] = r
                               /\ Len(p) = 0 => trail[w] # "driving"
        BY <1>2, <1>3 DEF Recent, Slack
    <2>1. Drawn[k] \in Places /\ Flies(w, Drawn[k], r) /\ Back(last, r) < Back(last, s)
        BY RestIsLater DEF Tracked
    <2>2. /\ Back(last, r) <= Len(p) + Slack(w)
          /\ Back(last, r) >= Len(p) =>
                 /\ Slack(w) = 0 => health.ignored[w] = r
                 /\ Len(p) = 0 => trail[w] # "driving"
        BY <2>1 DEF Tracked, Recent
    <2>3. r # s
        <3>1. Back(last, r) \in Nat
            BY <1>1, BackType
        <3> QED BY <2>1, <3>1
    <2> QED BY <1>2, <2>2, <2>3
<1>8. Adopting(w)'
    <2>1. ASSUME NEW k \in Places, NEW r \in SequenceNumbers, Flies(w, k, r)', k <= 1
          PROVE  Drawn[k] \in Places /\ Flies(w, Drawn[k], r) /\ Drawn[k] <= 1
        BY <1>4, <2>1 DEF Moves
    <2> QED BY <1>2, <1>3, <2>1 DEF Tracked, Adopting, SameMotor
<1>9. Complete(w)'
    <2> SUFFICES ASSUME w \notin suspects, NEW i \in 1 .. Len(p)
                 PROVE  \E r \in SequenceNumbers : p[i].sequence = r /\ OnWay(w, r)'
        BY <1>2, <1>3 DEF Complete
    <2>1. PICK r \in SequenceNumbers : r = p[i].sequence
        BY <1>1
    <2>2. OnWay(w, r) /\ Back(last, r) = Len(p) - i
        BY <2>1 DEF Tracked, Complete, Counted
    <2>3. ~AckAt(w, First, r)
        <3>1. Back(last, r) < Len(p)
            BY <1>1, <2>2
        <3>2. First \in Places /\ \A l \in Places : l >= First
            BY ReadKeeps, HeadIs
        <3>3. SUFFICES ASSUME AckAt(w, First, r) PROVE AnswersFront(health, w, r)
            BY DEF AckAt
        <3> HIDE DEF p, last
        <3> QED BY <1>1, <3>1, <3>2, <3>3, FrontFirst DEF p, last
    <2> QED BY <1>4, <2>1, <2>2, <2>3
<1>10. Missed(w)'
    <2> SUFFICES ASSUME w \in lost
                 PROVE  \E i \in 1 .. Len(p), r \in SequenceNumbers :
                            p[i].sequence = r /\ ~OnWay(w, r)'
        BY <1>2, <1>3 DEF Missed
    <2>1. PICK i \in 1 .. Len(p) : ~OnWay(w, p[i].sequence)
        BY DEF Tracked, Missed
    <2>2. PICK r \in SequenceNumbers : r = p[i].sequence
        BY <1>1
    <2>3. ~OnWay(w, r)'
        BY <1>4, <2>1, <2>2, OnWayMoves
    <2> QED BY <2>2, <2>3
<1> QED BY <1>5, <1>6, <1>7, <1>8, <1>9, <1>10 DEF Tracked

\* Which ACK the plugin takes.
LEMMA AckTaken ==
    ASSUME SystemInv, ReadFrame, NEW w \in Wheels, NEW s \in SequenceNumbers,
           AckAt(w, First, s)
    PROVE  ReceiveAck(w, s, 0)
<1> DEFINE f == Head(to_plugin).frame
<1>1. to_plugin # <<>>
    BY ReadKeeps
<1>2. f.kind = "ack" /\ f.wheel = w /\ f.sequence = s /\ f.result = 0
    BY <1>1, HeadIs, FrameTypes
<1> QED BY <1>2 DEF ReadFrame

LEMMA ReadFrameTracked ==
    ASSUME SystemInv, ReadFrame, NEW w \in Wheels, Tracked(w) PROVE Tracked(w)'
<1>1. CASE \A s \in SequenceNumbers : ~AckAt(w, First, s)
    BY <1>1, OtherFrameTracked
<1>2. ASSUME NEW s \in SequenceNumbers, AckAt(w, First, s) PROVE Tracked(w)'
    BY <1>2, AckTaken, FrontAckTracked, OtherAckTracked
<1> QED BY <1>1, <1>2

\* While nothing of a wheel was lost, each of its ACKs is waited for, or is
\* that of the stop frame.
LEMMA TrackedVerdict ==
    ASSUME SystemInv, ReadFrame, NEW w \in Wheels, Tracked(w), w \notin suspects,
           NEW s \in SequenceNumbers, AckAt(w, First, s)
    PROVE  AckVerdict(health, w, s, 0) \in {"ACCEPTED", "IGNORED"}
<1>1. TypeOK /\ sequences[w] \in SequenceNumbers /\ Len(health.pending[w]) \in Nat
    BY BooksType DEF SystemInv
<1>2. First \in Places /\ \A l \in Places : l >= First
    BY ReadKeeps, HeadIs
<1>3. CASE Back(sequences[w], s) < Len(health.pending[w])
    <2>1. AnswersFront(health, w, s)
        BY <1>1, <1>2, <1>3, FrontFirst
    <2> QED BY <2>1 DEF AckVerdict
<1>4. CASE ~(Back(sequences[w], s) < Len(health.pending[w]))
    <2>1. Flies(w, First, s) /\ Back(sequences[w], s) \in Nat
        BY <1>1, BackType DEF Flies
    <2>2. Back(sequences[w], s) >= Len(health.pending[w])
        BY <1>1, <1>4, <2>1
    <2>3. health.ignored[w] = s
        BY <1>2, <2>1, <2>2 DEF Tracked, Recent, Slack
    <2> QED BY <2>3 DEF AckVerdict
<1> QED BY <1>3, <1>4

\* The robot is only stopped for an ACK that has a cause.
LEMMA ReadFrameBlames ==
    ASSUME SystemInv, ReadFrame, \A w \in Wheels : w \notin suspects => Tracked(w),
           UnexpectedAckHasCause
    PROVE  UnexpectedAckHasCause'
<1>1. to_plugin # <<>> /\ suspects' = suspects
    BY ReadKeeps
<1>2. CASE stop_reason' = stop_reason
    BY <1>1, <1>2 DEF UnexpectedAckHasCause
<1>3. CASE stop_reason' # stop_reason
    <2> DEFINE f == Head(to_plugin).frame
    <2>1. f.kind = "ack" /\ ReceiveAck(f.wheel, f.sequence, f.result)
        BY <1>3 DEF ReadFrame, ReceiveFeedback, ReceiveIgnored, ReceiveWarning, latch
    <2>2. f.wheel \in Wheels /\ f.sequence \in SequenceNumbers /\ f.result = 0
          /\ AckAt(f.wheel, First, f.sequence)
        BY <1>1, <2>1, FrameTypes, HeadIs
    <2> DEFINE w == f.wheel
               s == f.sequence
               verdict == AckVerdict(health, w, s, 0)
    <2>3. stop_reason' =
              CASE verdict = "REJECTED"   -> FirstReason(ReasonOf("ack_rejected", w))
                [] verdict = "UNEXPECTED" -> FirstReason(ReasonOf("unexpected_ack", w))
                [] OTHER                  -> stop_reason
        BY <2>1, <2>2 DEF ReceiveAck
    <2> HIDE DEF f
    <2>4. verdict # "REJECTED"
        BY DEF AckVerdict
    <2>5. verdict = "UNEXPECTED" /\ stop_reason' = ReasonOf("unexpected_ack", w)
        BY <1>3, <2>3, <2>4 DEF FirstReason
    <2>6. w \in suspects
        <3> SUFFICES ASSUME w \notin suspects PROVE FALSE
            OBVIOUS
        <3>1. verdict \in {"ACCEPTED", "IGNORED"}
            BY <2>2, TrackedVerdict
        <3> QED BY <2>5, <3>1
    <2> QED BY <1>1, <2>5, <2>6 DEF UnexpectedAckHasCause, ReasonOf
<1> QED BY <1>2, <1>3

-----------------------------------------------------------------------------
(***************************************************************************)
(* What a callback sends, with the sequence numbers and the books          *)
(***************************************************************************)
Noted(h, g, w, enabled, seq) ==
    /\ h.pending[w] = IF enabled THEN Append(g.pending[w], [sequence |-> seq, age |-> 0])
                      ELSE g.pending[w]
    /\ h.ignored[w] = IF enabled THEN g.ignored[w] ELSE seq

SameNotes(h, g, w) == h.pending[w] = g.pending[w] /\ h.ignored[w] = g.ignored[w]

\* The frame f tells motor w the number seq.
Tells(f, w, enabled, seq) ==
    f.wheel = w /\ f.enabled = enabled /\ f.sequence = seq

Issues(l, r, w, enabled, delivered) ==
    /\ r.open = l.open /\ (r.success <=> l.open /\ delivered)
    /\ r.sequences = IF l.open THEN [l.sequences EXCEPT ![w] = NextSequence(@)]
                     ELSE l.sequences
    /\ r.success =>
           /\ \E f \in Frame : /\ r.sent = Append(l.sent, f)
                               /\ Tells(f, w, enabled, r.sequences[w])
           /\ Noted(r.health, l.health, w, enabled, r.sequences[w])
           /\ \A u \in Wheels \ {w} : SameNotes(r.health, l.health, u)
           /\ r.trail = [l.trail EXCEPT ![w] = TrailAfter(@, enabled)]
    /\ ~r.success => r.sent = l.sent

LEMMA SendCommandIssues ==
    ASSUME NEW l \in LinkRecord, NEW w \in Wheels, NEW enabled \in BOOLEAN,
           NEW v \in Int, NEW delivered \in BOOLEAN
    PROVE  Issues(l, SendCommand(l, w, enabled, v, delivered), w, enabled, delivered)
<1> DEFINE r == SendCommand(l, w, enabled, v, delivered)
           seq == NextSequence(l.sequences[w])
<1>1. CASE ~(l.open /\ delivered)
    BY <1>1 DEF SendCommand, LinkRecord, Issues
<1>2. CASE l.open /\ delivered
    <2> DEFINE f == [wheel |-> w, sequence |-> seq, enabled |-> enabled,
                     velocity |-> WireVelocity(v)]
               after == IF enabled THEN CommandSent(l.health, w, seq)
                        ELSE SafeStopSent(l.health, w, seq)
    <2>1. /\ r.sent = Append(l.sent, f) /\ r.open = l.open /\ r.success = TRUE
          /\ r.sequences = [l.sequences EXCEPT ![w] = NextSequence(@)]
          /\ r.health = after
          /\ r.trail = [l.trail EXCEPT ![w] = TrailAfter(@, enabled)]
        BY <1>2 DEF SendCommand, LinkRecord
    <2>2. f \in Frame /\ Tells(f, w, enabled, seq)
        BY NextSequenceType, WireVelocityType DEF LinkRecord, Frame, Tells
    <2>3. /\ Noted(after, l.health, w, enabled, seq)
          /\ \A u \in Wheels \ {w} : SameNotes(after, l.health, u)
        <3>1. l.health \in Health
            BY DEF LinkRecord
        <3>2. CASE enabled
            BY <3>1, <3>2 DEF CommandSent, Health, Noted, SameNotes
        <3>3. CASE ~enabled
            BY <3>1, <3>3 DEF SafeStopSent, Health, Noted, SameNotes
        <3> QED BY <3>2, <3>3
    <2>4. r.sequences[w] = seq
        BY <2>1 DEF LinkRecord
    <2> HIDE DEF f, r, after, seq
    <2> QED BY <1>2, <2>1, <2>2, <2>3, <2>4 DEF Issues, r
<1> QED BY <1>1, <1>2

\* Both motors are sent a frame, the left one first.
Pair(l, r, enabled) ==
    /\ Len(r.sent) = 2
    /\ \A w \in Wheels :
           /\ r.sequences[w] = NextSequence(l.sequences[w])
           /\ Tells(r.sent[w + 1], w, enabled, r.sequences[w])
           /\ Noted(r.health, l.health, w, enabled, r.sequences[w])
           /\ r.trail[w] = TrailAfter(l.trail[w], enabled)

\* A number is used up without a frame.
Wasted(l, r) ==
    \E w \in Wheels : /\ r.sequences[w] = NextSequence(l.sequences[w])
                      /\ \A i \in 1 .. Len(r.sent) : r.sent[i].wheel # w

LEMMA TwoSends ==
    ASSUME NEW l \in LinkRecord, NEW m \in LinkRecord, NEW r \in LinkRecord,
           NEW enabled \in BOOLEAN, NEW d \in Outcomes, l.sent = <<>>, l.open,
           Issues(l, m, 0, enabled, d[0]), Issues(m, r, 1, enabled, d[1])
    PROVE  /\ m.success /\ r.success => Pair(l, r, enabled)
           /\ ~(m.success /\ r.success) => Wasted(l, r)
<1>1. m.open /\ 0 \in Wheels /\ 1 \in Wheels
    BY DEF Issues, Wheels
<1>2. /\ l.sequences \in [Wheels -> SequenceNumbers]
      /\ l.trail \in [Wheels -> TrailState]
      /\ r.sequences[0] = NextSequence(l.sequences[0])
      /\ r.sequences[1] = NextSequence(l.sequences[1])
      /\ m.sequences[0] = r.sequences[0]
    BY <1>1 DEF Issues, LinkRecord, Wheels
<1>3. CASE m.success /\ r.success
    <2>1. PICK f \in Frame : m.sent = Append(<<>>, f) /\ Tells(f, 0, enabled, m.sequences[0])
        BY <1>3 DEF Issues
    <2>2. PICK g \in Frame : r.sent = Append(m.sent, g) /\ Tells(g, 1, enabled, r.sequences[1])
        BY <1>3 DEF Issues
    <2>3. /\ Len(r.sent) = 2 /\ r.sent[1] = f /\ r.sent[2] = g
        <3>1. <<>> \in Seq(Frame) /\ Len(<<>>) = 0
            OBVIOUS
        <3>2. m.sent \in Seq(Frame) /\ Len(m.sent) = 1 /\ m.sent[1] = f
            BY <2>1, <3>1, AppendProperties
        <3> QED BY <2>2, <3>2, AppendProperties
    <2>4. /\ Noted(r.health, l.health, 0, enabled, r.sequences[0])
          /\ Noted(r.health, l.health, 1, enabled, r.sequences[1])
        <3>1. /\ Noted(m.health, l.health, 0, enabled, m.sequences[0])
              /\ SameNotes(m.health, l.health, 1)
            BY <1>3 DEF Issues, Wheels
        <3>2. /\ Noted(r.health, m.health, 1, enabled, r.sequences[1])
              /\ SameNotes(r.health, m.health, 0)
            BY <1>3 DEF Issues, Wheels
        <3> QED BY <1>2, <3>1, <3>2 DEF Noted, SameNotes
    <2>5. /\ r.trail[0] = TrailAfter(l.trail[0], enabled)
          /\ r.trail[1] = TrailAfter(l.trail[1], enabled)
        BY <1>1, <1>2, <1>3 DEF Issues, LinkRecord, Wheels
    <2> QED BY <1>2, <1>3, <2>1, <2>2, <2>3, <2>4, <2>5 DEF Pair, Wheels
<1>4. CASE ~m.success
    <2>1. m.sent = <<>>
        BY <1>4 DEF Issues
    <2>2. \A i \in 1 .. Len(r.sent) : r.sent[i].wheel # 0
        <3>1. CASE r.success
            <4>1. PICK g \in Frame : r.sent = Append(<<>>, g) /\ Tells(g, 1, enabled, r.sequences[1])
                BY <2>1, <3>1 DEF Issues
            <4>2. <<>> \in Seq(Frame) /\ Len(<<>>) = 0
                OBVIOUS
            <4>3. Len(r.sent) = 1 /\ r.sent[1] = g
                BY <4>1, <4>2, AppendProperties
            <4> QED BY <4>1, <4>3 DEF Tells
        <3>2. CASE ~r.success
            BY <2>1, <3>2 DEF Issues
        <3> QED BY <3>1, <3>2
    <2> QED BY <1>1, <1>2, <1>4, <2>2 DEF Wasted
<1>5. CASE m.success /\ ~r.success
    <2>1. PICK f \in Frame : m.sent = Append(<<>>, f) /\ Tells(f, 0, enabled, m.sequences[0])
        BY <1>5 DEF Issues
    <2>2. <<>> \in Seq(Frame) /\ Len(<<>>) = 0
        OBVIOUS
    <2>3. Len(m.sent) = 1 /\ m.sent[1] = f /\ r.sent = m.sent
        BY <1>5, <2>1, <2>2, AppendProperties DEF Issues
    <2>4. \A i \in 1 .. Len(r.sent) : r.sent[i].wheel # 1
        BY <2>1, <2>3 DEF Tells
    <2> QED BY <1>1, <1>2, <1>5, <2>4 DEF Wasted
<1> QED BY <1>3, <1>4, <1>5

LEMMA SafeStopIssues ==
    ASSUME NEW l \in LinkRecord, NEW d \in Outcomes, l.sent = <<>>
    PROVE  LET s == SafeStop(l, d) IN
           /\ l.open /\ s.success => Pair(l, s, FALSE)
           /\ l.open /\ ~s.success => Wasted(l, s)
           /\ ~l.open => ~s.success /\ s.sent = <<>> /\ s.sequences = l.sequences
<1> DEFINE left == SendCommand(l, 0, FALSE, 0, d[0])
           right == SendCommand(left, 1, FALSE, 0, d[1])
           s == SafeStop(l, d)
<1>0. /\ 0 \in Wheels /\ 1 \in Wheels /\ d[0] \in BOOLEAN /\ d[1] \in BOOLEAN
      /\ 0 \in Int /\ FALSE \in BOOLEAN
    BY DEF Outcomes, Wheels
<1>1. left \in LinkRecord
    BY <1>0, SendCommandType, Zenon
<1>2. right \in LinkRecord
    BY <1>0, <1>1, SendCommandType, Zenon
<1>3. Issues(l, left, 0, FALSE, d[0])
    BY <1>0, SendCommandIssues, Zenon
<1>4. Issues(left, right, 1, FALSE, d[1])
    BY <1>0, <1>1, SendCommandIssues, Zenon
<1>5. s = [right EXCEPT !.success = left.success /\ right.success]
    BY DEF SafeStop
<1> HIDE DEF left, right, s
<1>6. /\ s.sent = right.sent /\ (s.success <=> left.success /\ right.success)
      /\ s.health = right.health /\ s.trail = right.trail /\ s.sequences = right.sequences
    BY <1>2, <1>5 DEF LinkRecord
<1>7. CASE l.open
    <2>1. /\ left.success /\ right.success => Pair(l, right, FALSE)
          /\ ~(left.success /\ right.success) => Wasted(l, right)
        BY <1>0, <1>1, <1>2, <1>3, <1>4, <1>7, TwoSends
    <2>2. (Pair(l, right, FALSE) <=> Pair(l, s, FALSE)) /\ (Wasted(l, right) <=> Wasted(l, s))
        BY <1>6 DEF Pair, Wasted
    <2> QED BY <1>6, <1>7, <2>1, <2>2 DEF s
<1>8. CASE ~l.open
    BY <1>3, <1>4, <1>6, <1>8 DEF Issues, s
<1> QED BY <1>7, <1>8

\* write() on an open socket.
LEMMA SendCommandsIssue ==
    ASSUME TypeOK, sender, NEW d \in Outcomes, SendCommands(d).success
    PROVE  Pair(Link, SendCommands(d), TRUE)
<1> DEFINE left == SendCommand(Link, 0, TRUE, commands[0], d[0])
           right == SendCommand(left, 1, TRUE, commands[1], d[1])
<1>1. /\ commands[0] \in Int /\ commands[1] \in Int
      /\ 0 \in Wheels /\ 1 \in Wheels /\ d[0] \in BOOLEAN /\ d[1] \in BOOLEAN
      /\ TRUE \in BOOLEAN
    BY HardwareAssumption DEF TypeOK, Wheels, Outcomes
<1>2. left \in LinkRecord /\ Link \in LinkRecord
    BY <1>1, LinkType, SendCommandType, Zenon
<1>3. right \in LinkRecord
    BY <1>1, <1>2, SendCommandType, Zenon
<1>4. Issues(Link, left, 0, TRUE, d[0])
    BY <1>1, <1>2, SendCommandIssues, Zenon
<1>5. Issues(left, right, 1, TRUE, d[1])
    BY <1>1, <1>2, SendCommandIssues, Zenon
<1>6. SendCommands(d) = right /\ left.success
    BY DEF SendCommands
<1>7. Link.sent = <<>> /\ Link.open
    BY DEF Link
<1> HIDE DEF left, right
<1> QED BY <1>1, <1>2, <1>3, <1>4, <1>5, <1>6, <1>7, TwoSends

-----------------------------------------------------------------------------
(***************************************************************************)
(* Both motors are sent a frame                                            *)
(***************************************************************************)
BothSent(enabled) ==
    /\ Len(sent') = 2
    /\ \A w \in Wheels : /\ sequences'[w] = NextSequence(sequences[w])
                         /\ Tells(sent'[w + 1], w, enabled, sequences'[w])

LEMMA WriteEffect ==
    ASSUME SystemInv, Live, WriteCommands, ~fault_latched'
    PROVE  /\ BothSent(TRUE) /\ sent' \in Seq(Frame) /\ receiver'
           /\ PluginSteps /\ Room /\ UNCHANGED history
           /\ \A w \in Wheels : /\ Noted(health', health, w, TRUE, sequences'[w])
                                /\ Len(health.pending[w]) < MaxPending
<1>1. TypeOK /\ sender /\ receiver /\ ~fault_latched
    BY DEF SystemInv, QueueInv, Live
<1>2. /\ \A w \in Wheels : Len(health.pending[w]) < MaxPending
      /\ \E delivered, stopped \in Outcomes : Drive(delivered, stopped)
      /\ UNCHANGED sockets
    BY <1>1 DEF WriteCommands, Write, MayOperate
<1>3. PICK d \in Outcomes, stopped \in Outcomes : Drive(d, stopped)
    BY <1>2
<1>4. SendCommands(d).success /\ Transmitted(SendCommands(d))
    BY <1>3 DEF Drive, EnterSafeStop
<1> DEFINE r == SendCommands(d)
<1>5. r \in LinkRecord /\ Pair(Link, r, TRUE)
    BY <1>1, <1>4, SendCommandsType, SendCommandsIssue
<1>6. sequences' = r.sequences /\ health' = r.health /\ sent' = r.sent
    BY <1>4 DEF Transmitted
<1>7. Link.sequences = sequences /\ Link.health = health
    BY DEF Link
<1> HIDE DEF r
<1>8. BothSent(TRUE) /\ \A w \in Wheels : Noted(health', health, w, TRUE, sequences'[w])
    BY <1>5, <1>6, <1>7 DEF Pair, BothSent
<1>9. sent' \in Seq(Frame)
    BY <1>5, <1>6 DEF LinkRecord
<1> QED BY <1>1, <1>2, <1>8, <1>9 DEF WriteCommands, sockets

LEMMA ActivateEffect ==
    ASSUME SystemInv, Activate, sender', ~fault_latched'
    PROVE  /\ BothSent(FALSE) /\ sent' \in Seq(Frame) /\ receiver'
           /\ PluginSteps /\ Room
           /\ \A w \in Wheels : /\ health'.pending[w] = <<>>
                                /\ health'.ignored[w] = sequences'[w]
                                /\ trail'[w] = "armed"
<1>1. TypeOK
    BY DEF SystemInv
<1>2. PICK d \in Outcomes : SocketsOpened(d)
    BY DEF Activate, OnActivate, SocketsUnavailable, ActivationFailed
<1> DEFINE r == SafeStop(FreshLink, d)
<1>3. /\ r.success /\ Transmitted(r) /\ receiver'
    BY <1>2 DEF SocketsOpened, ActivationFailed
<1>4. /\ FreshLink \in LinkRecord /\ FreshLink.open /\ FreshLink.sent = <<>>
      /\ FreshLink.sequences = sequences /\ FreshLink.health = Reset
      /\ \A w \in Wheels : FreshLink.trail[w] = "idle"
    BY <1>1, FreshLinkType DEF FreshLink, Link
<1>5. r \in LinkRecord /\ Pair(FreshLink, r, FALSE)
    BY <1>3, <1>4, SafeStopIssues, SafeStopType
<1>6. sequences' = r.sequences /\ health' = r.health /\ sent' = r.sent /\ trail' = r.trail
    BY <1>3 DEF Transmitted
<1> HIDE DEF r
<1>7. BothSent(FALSE)
    BY <1>4, <1>5, <1>6 DEF Pair, BothSent
<1>8. sent' \in Seq(Frame)
    BY <1>5, <1>6 DEF LinkRecord
<1>9. ASSUME NEW w \in Wheels
      PROVE  /\ health'.pending[w] = <<>> /\ health'.ignored[w] = sequences'[w]
             /\ trail'[w] = "armed"
    <2>1. Noted(health', Reset, w, FALSE, sequences'[w])
        BY <1>4, <1>5, <1>6 DEF Pair
    <2>2. trail'[w] = TrailAfter("idle", FALSE)
        BY <1>4, <1>5, <1>6 DEF Pair
    <2> QED BY <2>1, <2>2 DEF Noted, Reset, TrailAfter
<1> QED BY <1>3, <1>7, <1>8, <1>9 DEF Activate

\* Where the new frame of a wheel waits.
Behind(w) == Len(to_motors) + 1 + w

LEMMA QueueAfterSend ==
    ASSUME SystemInv, PluginSteps, Room, NEW enabled, BothSent(enabled),
           sent' \in Seq(Frame), NEW w \in Wheels
    PROVE  /\ Len(to_motors') = Len(to_motors) + 2
           /\ \A i \in 1 .. Len(to_motors) : to_motors'[i] = to_motors[i]
           /\ Behind(w) \in 1 .. Len(to_motors') /\ Behind(w) > Len(to_motors)
           /\ \A i \in 1 .. Len(to_motors') : to_motors'[i].wheel = w =>
                  i \in 1 .. Len(to_motors) \/ i = Behind(w)
           /\ Tells(to_motors'[Behind(w)], w, enabled, sequences'[w])
<1> DEFINE new == CommandsOf(sent')
           e == Enqueue(to_motors, new)
<1>1. /\ new \in Seq(GoodCommand) /\ Len(new) = 2
      /\ \A u \in Wheels : u + 1 \in 1 .. 2 /\ Tells(new[u + 1], u, enabled, sequences'[u])
    <2>1. \A u \in Wheels : u + 1 \in 1 .. 2
        BY DEF Wheels
    <2>2. \A u \in Wheels : new[u + 1] = CommandOf(sent'[u + 1])
        BY <2>1 DEF BothSent, CommandsOf
    <2>3. new \in Seq(GoodCommand) /\ Len(new) = 2
        BY CommandsType DEF BothSent
    <2>4. \A f : /\ CommandOf(f).wheel = f.wheel /\ CommandOf(f).enabled = f.enabled
                 /\ CommandOf(f).sequence = f.sequence
        BY DEF CommandOf
    <2> HIDE DEF new
    <2>5. \A u \in Wheels : Tells(new[u + 1], u, enabled, sequences'[u])
        BY <2>2, <2>4 DEF BothSent, Tells
    <2> QED BY <2>1, <2>3, <2>5
<1>2. /\ to_motors \in Seq(GoodCommand) /\ Len(to_motors) \in Nat
      /\ Len(to_motors) <= QueueMax /\ Len(to_motors) + 2 <= QueueMax
    BY LenProperties, SequenceRange DEF SystemInv, BusOK, Room
<1>3. to_motors' = e
    BY DEF PluginSteps, CommandsOf
<1> HIDE DEF new
<1>4. Grows(GoodCommand, to_motors, new, e)
    BY <1>1, <1>2, EnqueueIs
<1> HIDE DEF e
<1>5. /\ Len(to_motors') = Len(to_motors) + 2
      /\ \A i \in 1 .. Len(to_motors) : to_motors'[i] = to_motors[i]
      /\ \A i \in Len(to_motors) + 1 .. Len(to_motors) + 2 :
             to_motors'[i] = new[i - Len(to_motors)]
    BY <1>1, <1>2, <1>3, <1>4 DEF Grows
<1>6. \A u \in Wheels : /\ Behind(u) \in Len(to_motors) + 1 .. Len(to_motors) + 2
                        /\ Behind(u) - Len(to_motors) = u + 1
                        /\ Behind(u) > Len(to_motors) /\ Behind(u) \in 1 .. Len(to_motors) + 2
    BY <1>2 DEF Behind, Wheels
<1>7. \A u \in Wheels : Tells(to_motors'[Behind(u)], u, enabled, sequences'[u])
    BY <1>1, <1>5, <1>6
<1>8. \A i \in 1 .. Len(to_motors) + 2 :
          i \in 1 .. Len(to_motors) \/ \E u \in Wheels : i = Behind(u)
    BY <1>2 DEF Behind, Wheels
<1>9. \A i \in 1 .. Len(to_motors') : to_motors'[i].wheel = w =>
          i \in 1 .. Len(to_motors) \/ i = Behind(w)
    BY <1>5, <1>7, <1>8 DEF Tells
<1> QED BY <1>5, <1>6, <1>7, <1>9

LEMMA CommandsAfterSend ==
    ASSUME SystemInv, PluginSteps, Room, NEW enabled, BothSent(enabled),
           sent' \in Seq(Frame), NEW w \in Wheels, NEW k \in Places,
           NEW s \in SequenceNumbers
    PROVE  /\ CommandAt(w, k, s)' <=>
                  CommandAt(w, k, s) \/ (k = Behind(w) + 1 /\ s = sequences'[w])
           /\ CommandAt(w, k, s) => k < Behind(w) + 1
           /\ Behind(w) + 1 \in Places /\ Behind(w) + 1 >= 2
<1>1. /\ Len(to_motors') = Len(to_motors) + 2
      /\ \A i \in 1 .. Len(to_motors) : to_motors'[i] = to_motors[i]
      /\ Behind(w) \in 1 .. Len(to_motors') /\ Behind(w) > Len(to_motors)
      /\ \A i \in 1 .. Len(to_motors') : to_motors'[i].wheel = w =>
             i \in 1 .. Len(to_motors) \/ i = Behind(w)
      /\ Tells(to_motors'[Behind(w)], w, enabled, sequences'[w])
    BY QueueAfterSend
<1>2. k \in Int /\ Len(to_motors) \in Nat /\ Len(to_motors) + 2 <= QueueMax
      /\ QueueMax \in Nat
    BY PlaceRange, LenProperties, SequenceRange DEF SystemInv, BusOK, Room
<1>3. /\ Behind(w) + 1 \in Places /\ Behind(w) + 1 >= 2 /\ Behind(w) \in Nat
    BY <1>1, <1>2, PlaceRange
<1>4. \A i \in 1 .. Len(to_motors) : i \in 1 .. Len(to_motors')
    BY <1>1, <1>2
<1>5. (k = Behind(w) + 1 <=> k - 1 = Behind(w)) /\ (k - 1 <= Len(to_motors) => k < Behind(w) + 1)
    BY <1>1, <1>2, <1>3
<1>6. CASE k - 1 \in 1 .. Len(to_motors)
    BY <1>1, <1>2, <1>3, <1>4, <1>5, <1>6 DEF CommandAt
<1>7. CASE k - 1 \notin 1 .. Len(to_motors)
    <2>1. ~CommandAt(w, k, s)
        BY <1>7 DEF CommandAt
    <2>2. CommandAt(w, k, s)' <=> k - 1 = Behind(w) /\ s = sequences'[w]
        BY <1>1, <1>7 DEF CommandAt, Tells
    <2> QED BY <1>3, <1>5, <2>1, <2>2
<1> QED BY <1>6, <1>7

LEMMA FliesAfterSend ==
    ASSUME SystemInv, PluginSteps, receiver', Room, NEW enabled, BothSent(enabled),
           sent' \in Seq(Frame), NEW w \in Wheels, NEW k \in Places,
           NEW s \in SequenceNumbers
    PROVE  /\ Flies(w, k, s)' <=>
                  Flies(w, k, s) \/ (k = Behind(w) + 1 /\ s = sequences'[w])
           /\ Flies(w, k, s) => k < Behind(w) + 1
           /\ Behind(w) + 1 \in Places /\ Behind(w) + 1 >= 2
<1>1. /\ CommandAt(w, k, s)' <=>
             CommandAt(w, k, s) \/ (k = Behind(w) + 1 /\ s = sequences'[w])
      /\ CommandAt(w, k, s) => k < Behind(w) + 1
      /\ Behind(w) + 1 \in Places /\ Behind(w) + 1 >= 2
    BY CommandsAfterSend
<1>2. (AckAt(w, k, s)' <=> AckAt(w, k, s)) /\ (OwedAt(w, k, s)' <=> OwedAt(w, k, s))
    BY DEF PluginSteps, NodeIdle, node, AckAt, OwedAt
<1>3. k \in Int /\ Behind(w) + 1 \in Int
    BY <1>1, PlaceRange
<1>4. AckAt(w, k, s) \/ OwedAt(w, k, s) => k < Behind(w) + 1
    <2>1. AckAt(w, k, s) \/ OwedAt(w, k, s) => k <= 1
        BY <1>3, FlyingPlace DEF Flies
    <2> QED BY <1>1, <1>3, <2>1
<1> QED BY <1>1, <1>2, <1>4 DEF Flies

-----------------------------------------------------------------------------
(***************************************************************************)
(* The plugin writes its commands                                          *)
(***************************************************************************)
\* There are more numbers than can be on their way.
LEMMA BackBound ==
    ASSUME TypeOK, MaxPending < SeqMod, NEW w \in Wheels, Distinct(w),
           Len(health.pending[w]) < MaxPending, NEW s \in SequenceNumbers,
           Back(sequences[w], s) <= Len(health.pending[w]) + Slack(w)
    PROVE  Back(NextSequence(sequences[w]), s) = Back(sequences[w], s) + 1
<1>1. sequences[w] \in SequenceNumbers /\ Len(health.pending[w]) \in Nat
    BY BooksType
<1>2. Back(sequences[w], s) \in Nat
    BY <1>1, BackType
<1>3. Slack(w) = 0 \/ (Slack(w) = HalfQueue /\ MaxPending + HalfQueue < SeqMod)
    BY DEF Slack, Distinct
<1>4. Back(sequences[w], s) < SeqMod - 1
    BY <1>1, <1>2, <1>3, SequenceRange, HalfRange
<1> QED BY <1>1, <1>4, BackNext

LEMMA WriteTracked ==
    ASSUME SystemInv, MaxPending < SeqMod, Live, WriteCommands, ~fault_latched',
           NEW w \in Wheels, Distinct(w), Tracked(w)
    PROVE  Tracked(w)'
<1> DEFINE p == health.pending[w]
           p1 == health'.pending[w]
           last == sequences[w]
           next == sequences'[w]
           new == Behind(w) + 1
<1>1. /\ TypeOK /\ last \in SequenceNumbers /\ p \in Seq(PendingAck) /\ Len(p) \in Nat
      /\ \A i \in 1 .. Len(p) : p[i].sequence \in SequenceNumbers
    BY BooksType DEF SystemInv
<1>2. /\ BothSent(TRUE) /\ sent' \in Seq(Frame) /\ receiver' /\ PluginSteps /\ Room
      /\ Noted(health', health, w, TRUE, next) /\ Len(p) < MaxPending
      /\ UNCHANGED <<suspects, lost>>
    BY WriteEffect DEF history
<1>3. next = NextSequence(last) /\ next \in SequenceNumbers
    BY <1>1, <1>2, NextSequenceType DEF BothSent
<1>4. /\ p1 = Append(p, [sequence |-> next, age |-> 0]) /\ Len(p1) = Len(p) + 1
      /\ \A i \in 1 .. Len(p) : p1[i] = p[i]
      /\ p1[Len(p1)].sequence = next
      /\ health'.ignored[w] = health.ignored[w]
    <2> DEFINE a == [sequence |-> next, age |-> 0]
    <2>1. a \in PendingAck /\ a.sequence = next
        BY <1>3, HealthAssumption DEF PendingAck, AckAge
    <2>2. p1 = Append(p, a) /\ health'.ignored[w] = health.ignored[w]
        BY <1>2 DEF Noted
    <2> HIDE DEF a, p, p1
    <2>3. Len(p1) = Len(p) + 1 /\ p1[Len(p) + 1] = a /\ \A i \in 1 .. Len(p) : p1[i] = p[i]
        BY <1>1, <2>1, <2>2, AppendProperties
    <2> QED BY <2>1, <2>2, <2>3 DEF a
<1>5. SameMotor(w)
    BY <1>2 DEF PluginSteps, NodeIdle, node, SameMotor
<1>6. \A k \in Places, s \in SequenceNumbers :
          /\ Flies(w, k, s)' <=> Flies(w, k, s) \/ (k = new /\ s = next)
          /\ Flies(w, k, s) => k < new
          /\ new \in Places /\ new >= 2
    BY <1>2, FliesAfterSend
<1>7. \A s \in SequenceNumbers : Back(last, s) \in Nat /\ Back(next, s) \in Nat
    BY <1>1, <1>3, BackType
<1>8. Back(next, next) = 0
    BY <1>3, BackSelf
<1>9. \A k \in Places, s \in SequenceNumbers :
          Flies(w, k, s) => Back(next, s) = Back(last, s) + 1
    BY <1>1, <1>2, <1>3, BackBound DEF Tracked, Recent
<1>10. Slack(w)' = Slack(w) /\ Slack(w) \in Nat
    BY <1>2, HalfRange DEF Slack, HalfQueue
<1>11. \A i \in 1 .. Len(p) :
           /\ Back(last, p[i].sequence) = Len(p) - i
           /\ Back(next, p[i].sequence) = Len(p) - i + 1
    <2> SUFFICES ASSUME NEW i \in 1 .. Len(p)
                 PROVE  /\ Back(last, p[i].sequence) = Len(p) - i
                        /\ Back(next, p[i].sequence) = Len(p) - i + 1
        OBVIOUS
    <2>1. Back(last, p[i].sequence) = Len(p) - i
        BY DEF Tracked, Counted
    <2>2. Back(last, p[i].sequence) <= Len(p) + Slack(w)
        BY <1>1, <1>10, <2>1
    <2>3. Back(next, p[i].sequence) = Back(last, p[i].sequence) + 1
        BY <1>1, <1>2, <1>3, <2>2, BackBound
    <2> QED BY <2>1, <2>3
<1>12. \A k \in Places : k \in Int
    BY PlaceRange
<1> HIDE DEF p, p1, last, next, new
<1>13. InOrder(w)'
    <2> SUFFICES ASSUME NEW k \in Places, NEW l \in Places, NEW s \in SequenceNumbers,
                        NEW r \in SequenceNumbers, Flies(w, k, s)', Flies(w, l, r)', k < l
                 PROVE  Back(next, s) > Back(next, r)
        BY DEF InOrder, next
    <2>1. Flies(w, k, s)
        <3>1. ~(k = new)
            <4>1. l < new \/ l = new
                BY <1>6
            <4>2. new \in Int
                BY <1>6, <1>12
            <4> QED BY <1>12, <4>1, <4>2
        <3> QED BY <1>6, <3>1
    <2>2. Back(next, s) = Back(last, s) + 1
        BY <1>9, <2>1
    <2>3. CASE Flies(w, l, r)
        <3>1. Back(last, s) > Back(last, r)
            BY <2>1, <2>3 DEF Tracked, InOrder, last
        <3>2. Back(next, r) = Back(last, r) + 1
            BY <1>9, <2>3
        <3> QED BY <1>7, <2>2, <3>1, <3>2
    <2>4. CASE r = next
        BY <1>7, <1>8, <2>2, <2>4
    <2> QED BY <1>6, <2>3, <2>4
<1>14. Counted(w)'
    <2>1. ASSUME NEW i \in 1 .. Len(p) + 1
          PROVE  Back(next, p1[i].sequence) = (Len(p) + 1) - i
        <3>1. CASE i \in 1 .. Len(p)
            <4>1. Back(next, p1[i].sequence) = Len(p) - i + 1
                BY <1>4, <1>11, <3>1
            <4> QED BY <1>1, <3>1, <4>1
        <3>2. CASE i = Len(p) + 1
            BY <1>1, <1>4, <1>8, <3>2
        <3> QED BY <1>1, <3>1, <3>2
    <2>2. Len(p) + 1 <= MaxPending
        BY <1>1, <1>2, SequenceRange
    <2> QED BY <1>4, <2>1, <2>2 DEF Counted, p1, next
<1>15. Recent(w)'
    <2> SUFFICES ASSUME NEW k \in Places, NEW s \in SequenceNumbers, Flies(w, k, s)'
                 PROVE  /\ Back(next, s) <= Len(p) + 1 + Slack(w)
                        /\ Back(next, s) >= Len(p) + 1 /\ Slack(w) = 0 =>
                               health.ignored[w] = s
        <3>1. Len(p) + 1 # 0
            BY <1>1
        <3> QED BY <1>4, <1>10, <3>1 DEF Recent, p1, next
    <2>1. CASE Flies(w, k, s)
        <3>1. /\ Back(last, s) <= Len(p) + Slack(w)
              /\ Back(last, s) >= Len(p) /\ Slack(w) = 0 => health.ignored[w] = s
            BY <2>1 DEF Tracked, Recent, p, last
        <3>2. Back(next, s) = Back(last, s) + 1
            BY <1>9, <2>1
        <3> QED BY <1>1, <1>7, <1>10, <3>1, <3>2
    <2>2. CASE s = next
        BY <1>1, <1>8, <1>10, <2>2
    <2> QED BY <1>6, <2>1, <2>2
<1>16. Enabling(w)'
    <2> SUFFICES ASSUME NEW i \in 1 .. Len(to_motors'), to_motors'[i].wheel = w,
                        Back(next, to_motors'[i].sequence) < Len(p) + 1
                 PROVE  to_motors'[i].enabled
        BY <1>4 DEF Enabling, p1, next
    <2>1. /\ \A j \in 1 .. Len(to_motors) : to_motors'[j] = to_motors[j]
          /\ i \in 1 .. Len(to_motors) \/ i = Behind(w)
          /\ Tells(to_motors'[Behind(w)], w, TRUE, next)
        BY <1>2, QueueAfterSend DEF next
    <2>2. CASE i \in 1 .. Len(to_motors)
        <3>1. to_motors[i].sequence \in SequenceNumbers
            BY <2>2, ElementOfSeq, GoodCommandType DEF SystemInv, BusOK
        <3>2. CommandAt(w, i + 1, to_motors[i].sequence) /\ i + 1 \in Int
            BY <2>1, <2>2 DEF CommandAt
        <3>3. Flies(w, i + 1, to_motors[i].sequence) /\ i + 1 \in Places
            BY <3>2, FlyingPlace DEF Flies
        <3>4. Back(next, to_motors[i].sequence) = Back(last, to_motors[i].sequence) + 1
            BY <1>9, <3>1, <3>3
        <3>5. Back(last, to_motors[i].sequence) < Len(p)
            BY <1>1, <1>7, <2>1, <2>2, <3>1, <3>4
        <3> QED BY <2>1, <2>2, <3>5 DEF Tracked, Enabling, p, last
    <2>3. CASE i = Behind(w)
        BY <2>1, <2>3 DEF Tells
    <2> QED BY <2>1, <2>2, <2>3
<1>17. Adopting(w)'
    <2>1. ASSUME NEW k \in Places, NEW s \in SequenceNumbers, Flies(w, k, s)', k <= 1,
                 Back(next, s) < Len(p) + 1
          PROVE  Back(next, motors[w].sequence) <= Back(next, s) /\ motors[w].enabled
        <3>1. Flies(w, k, s)
            BY <1>6, <1>12, <2>1
        <3>2. Back(next, s) = Back(last, s) + 1
            BY <1>9, <3>1
        <3>3. Back(last, s) < Len(p)
            BY <1>1, <1>7, <2>1, <3>2
        <3>4. Back(last, motors[w].sequence) <= Back(last, s) /\ motors[w].enabled
            BY <2>1, <3>1, <3>3 DEF Tracked, Adopting, p, last
        <3>5. motors[w].sequence \in SequenceNumbers
            BY MotorFields DEF SystemInv, NodeOK
        <3>6. Back(last, motors[w].sequence) <= Len(p) + Slack(w)
            BY <1>1, <1>7, <1>10, <3>3, <3>4, <3>5
        <3>7. Back(next, motors[w].sequence) = Back(last, motors[w].sequence) + 1
            BY <1>1, <1>2, <1>3, <3>5, <3>6, BackBound DEF p, last, next
        <3> QED BY <1>7, <3>2, <3>4, <3>5, <3>7
    <2>2. Len(p) + 1 # 0
        BY <1>1
    <2> QED BY <1>4, <1>5, <2>1, <2>2 DEF Adopting, SameMotor, p1, next
<1>18. Complete(w)'
    <2> SUFFICES ASSUME w \notin suspects, NEW i \in 1 .. Len(p) + 1
                 PROVE  \E s \in SequenceNumbers, k \in Places :
                            p1[i].sequence = s /\ Flies(w, k, s)'
        BY <1>2, <1>4 DEF Complete, OnWay, p1
    <2>1. CASE i \in 1 .. Len(p)
        <3>1. PICK s \in SequenceNumbers : s = p[i].sequence
            BY <1>1, <2>1
        <3>2. PICK k \in Places : Flies(w, k, s)
            BY <2>1, <3>1 DEF Tracked, Complete, OnWay, p
        <3> QED BY <1>4, <1>6, <2>1, <3>1, <3>2
    <2>2. CASE i = Len(p) + 1
        <3>1. new \in Places
            BY <1>3, <1>6, TwoPlaces
        <3>2. PICK k \in Places, s \in SequenceNumbers : k = new /\ s = next
            BY <1>3, <3>1
        <3>3. Flies(w, k, s)'
            BY <1>6, <3>2
        <3> QED BY <1>4, <2>2, <3>2, <3>3
    <2> QED BY <1>1, <2>1, <2>2
<1>19. Missed(w)'
    <2> SUFFICES ASSUME w \in lost
                 PROVE  \E i \in 1 .. Len(p) + 1, s \in SequenceNumbers :
                            p1[i].sequence = s /\ \A k \in Places : ~Flies(w, k, s)'
        BY <1>2, <1>4 DEF Missed, OnWay, p1
    <2>1. PICK i \in 1 .. Len(p) : ~OnWay(w, p[i].sequence)
        BY DEF Tracked, Missed, p
    <2>2. PICK s \in SequenceNumbers : s = p[i].sequence
        BY <1>1
    <2>3. s # next
        BY <1>1, <1>8, <1>11, <2>2
    <2>4. \A k \in Places : ~Flies(w, k, s)'
        BY <1>6, <2>1, <2>2, <2>3 DEF OnWay
    <2>5. i \in 1 .. Len(p) + 1
        BY <1>1
    <2> QED BY <1>4, <2>2, <2>4, <2>5
<1> QED BY <1>13, <1>14, <1>15, <1>16, <1>17, <1>18, <1>19 DEF Tracked

-----------------------------------------------------------------------------
(***************************************************************************)
(* Without failing sends every number goes with a frame                    *)
(***************************************************************************)
NoneSent == sent' = <<>> /\ sequences' = sequences

LEMMA WastedThrows ==
    ASSUME TypeOK, 1 < SeqMod, NEW l, NEW r, l.sequences = sequences, Transmitted(r),
           Wasted(l, r)
    PROVE  SendThrew
<1>1. PICK w \in Wheels : /\ r.sequences[w] = NextSequence(l.sequences[w])
                          /\ \A i \in 1 .. Len(r.sent) : r.sent[i].wheel # w
    BY DEF Wasted
<1>2. sequences'[w] = NextSequence(sequences[w]) /\ sequences[w] \in SequenceNumbers
    BY <1>1 DEF Transmitted, TypeOK
<1>3. SentTo(w) = 0
    <2>1. {i \in 1 .. Len(sent') : sent'[i].wheel = w} = {}
        BY <1>1 DEF Transmitted
    <2> QED BY <2>1, FS_EmptySet DEF SentTo
<1>4. (sequences[w] + 0) % SeqMod = sequences[w]
    BY <1>2, SequenceRange
<1>5. sequences'[w] # sequences[w]
    BY <1>2, NextIs, SequenceRange
<1> QED BY <1>3, <1>4, <1>5 DEF SendThrew

LEMMA StopSends ==
    ASSUME TypeOK, 1 < SeqMod, ~SendThrew, NEW l \in {Link, FreshLink}, NEW d \in Outcomes,
           Transmitted(SafeStop(l, d))
    PROVE  NoneSent \/ BothSent(FALSE)
<1> DEFINE r == SafeStop(l, d)
<1>1. l \in LinkRecord /\ l.sent = <<>> /\ l.sequences = sequences
    <2>1. Link \in LinkRecord /\ Link.sent = <<>> /\ Link.sequences = sequences
        BY LinkType DEF Link
    <2>2. /\ FreshLink \in LinkRecord /\ FreshLink.sent = <<>>
          /\ FreshLink.sequences = sequences
        BY FreshLinkType DEF Link, FreshLink
    <2> QED BY <2>1, <2>2
<1>2. /\ l.open /\ r.success => Pair(l, r, FALSE)
      /\ l.open /\ ~r.success => Wasted(l, r)
      /\ ~l.open => r.sent = <<>> /\ r.sequences = l.sequences
    BY <1>1, SafeStopIssues
<1>3. sequences' = r.sequences /\ sent' = r.sent
    BY DEF Transmitted
<1>4. ~Wasted(l, r)
    BY <1>1, WastedThrows
<1> HIDE DEF r
<1>5. l.open /\ r.success => BothSent(FALSE)
    BY <1>1, <1>2, <1>3 DEF Pair, BothSent
<1> QED BY <1>1, <1>2, <1>3, <1>4, <1>5 DEF NoneSent

LEMMA AttemptSendsBoth ==
    ASSUME TypeOK, 1 < SeqMod, ~SendThrew, NEW d \in Outcomes, AttemptFaultSafeStop(Link, d)
    PROVE  NoneSent \/ BothSent(FALSE)
<1>1. CASE fault_stop_attempted
    BY <1>1 DEF AttemptFaultSafeStop, Transmitted, Link, NoneSent
<1>2. CASE ~fault_stop_attempted
    BY <1>2, StopSends DEF AttemptFaultSafeStop
<1> QED BY <1>1, <1>2

LEMMA DriveSends ==
    ASSUME TypeOK, FaultInv, ~SendThrew, pc = "idle", ~fault_latched, sender,
           NEW d \in Outcomes, NEW stopped \in Outcomes, Drive(d, stopped)
    PROVE  BothSent(TRUE)
<1> DEFINE r == SendCommands(d)
<1>1. r.success
    <2> SUFFICES ASSUME ~r.success PROVE FALSE
        OBVIOUS
    <2>1. stop_reason' = FirstReason(Reason("can_send_error")) /\ stop_reason = NoReason
        BY DEF Drive, EnterSafeStop, FaultInv
    <2>2. stop_reason' = Reason("can_send_error")
        BY <2>1 DEF FirstReason
    <2>3. stop_reason'.cause = "can_send_error" /\ stop_reason.cause = "none"
        BY <2>1, <2>2 DEF Reason, NoReason
    <2> QED BY <2>3 DEF SendThrew
<1>2. Transmitted(r)
    BY <1>1 DEF Drive
<1>3. Pair(Link, r, TRUE)
    BY <1>1, SendCommandsIssue
<1>4. sequences' = r.sequences /\ sent' = r.sent /\ Link.sequences = sequences
    BY <1>2 DEF Transmitted, Link
<1> HIDE DEF r
<1> QED BY <1>3, <1>4 DEF Pair, BothSent

LEMMA PluginSends ==
    ASSUME SystemInv, FaultInv, 1 < SeqMod, "send" \notin Faults,
           Activate \/ Deactivate \/ BeginRead \/ EndRead \/ WriteCommands \/ Control
    PROVE  \/ NoneSent
           \/ Room /\ \E enabled \in BOOLEAN :
                  BothSent(enabled) /\ (enabled => Live /\ WriteCommands)
<1>1. TypeOK /\ ~SendThrew
    BY DEF SystemInv, Activate, Deactivate, BeginRead, EndRead, WriteCommands, Control,
           PluginSteps, PluginEnvironment
<1>2. ASSUME NEW d \in Outcomes, AttemptFaultSafeStop(Link, d)
      PROVE  NoneSent \/ BothSent(FALSE)
    BY <1>1, <1>2, AttemptSendsBoth
<1>3. CASE Activate
    <2>1. CASE SocketsUnavailable
        BY <2>1 DEF SocketsUnavailable, Transmitted, Link, NoneSent
    <2>2. ASSUME NEW d \in Outcomes, SocketsOpened(d) PROVE NoneSent \/ BothSent(FALSE)
        BY <1>1, <2>2, StopSends DEF SocketsOpened
    <2> QED BY <1>3, <2>1, <2>2 DEF Activate, OnActivate
<1>4. CASE Deactivate
    <2>1. PICK d \in Outcomes : ReleaseStop(d, "inactive")
        BY <1>4 DEF Deactivate, OnDeactivate, StopAndRelease
    <2>2. AttemptFaultSafeStop(Link, d) \/ Transmitted(SafeStop(Link, d))
        BY <2>1 DEF ReleaseStop
    <2>3. NoneSent \/ BothSent(FALSE)
        BY <1>1, <1>2, <2>2, StopSends
    <2> QED BY <1>4, <2>3 DEF Deactivate
<1>5. CASE BeginRead
    <2>1. ReadStart /\ Room
        BY <1>5 DEF BeginRead
    <2>2. CASE SocketMissing("can_receive_unavailable")
        <3>1. PICK d \in Outcomes : AttemptFaultSafeStop(Link, d)
            BY <2>2 DEF SocketMissing
        <3> QED BY <1>2, <2>1, <3>1
    <2>3. CASE ~SocketMissing("can_receive_unavailable")
        BY <2>1, <2>3 DEF ReadStart, Refuse, NoneSent, wire
    <2> QED BY <2>2, <2>3
<1>6. CASE EndRead
    <2>1. ReadFinish /\ Room
        BY <1>6 DEF EndRead
    <2>2. CASE ReadFault
        <3>1. PICK d \in Outcomes : AttemptFaultSafeStop(Link, d)
            BY <2>1, <2>2 DEF ReadFinish, AbortRead
        <3> QED BY <1>2, <2>1, <3>1
    <2>3. CASE ~ReadFault
        BY <2>1, <2>3 DEF ReadFinish, NoneSent, wire
    <2> QED BY <2>2, <2>3
<1>7. CASE WriteCommands
    <2>1. Write /\ Room /\ pc = "idle"
        BY <1>7 DEF WriteCommands, Write
    <2>2. CASE Refuse
        BY <2>2 DEF Refuse, NoneSent, wire
    <2>3. CASE SocketMissing("can_send_unavailable")
        <3>1. PICK d \in Outcomes : AttemptFaultSafeStop(Link, d)
            BY <2>3 DEF SocketMissing
        <3> QED BY <1>2, <2>1, <3>1
    <2>4. CASE MayOperate /\ sender /\ ~Refuse /\ ~SocketMissing("can_send_unavailable")
        <3>1. PICK d \in Outcomes, stopped \in Outcomes : Drive(d, stopped)
            BY <2>1, <2>4 DEF Write
        <3>2. BothSent(TRUE)
            BY <1>1, <2>1, <2>4, <3>1, DriveSends DEF MayOperate
        <3> QED BY <1>7, <2>1, <2>4, <3>2 DEF MayOperate, Live
    <2> QED BY <2>1, <2>2, <2>3, <2>4 DEF Write
<1>8. CASE Control
    BY <1>8 DEF Control, ControllerUpdate, NoneSent, wire
<1> QED BY <1>3, <1>4, <1>5, <1>6, <1>7, <1>8

-----------------------------------------------------------------------------
(***************************************************************************)
(* What the motor node has still to do                                     *)
(***************************************************************************)
Waits(w, k, s) == OwedAt(w, k, s) \/ CommandAt(w, k, s)

\* The commands that wait are in the order of their numbers, and the latest
\* of a wheel has the last number used.  They come in pairs: of the frames
\* behind a command not more than half are of its wheel.
Backlog(w) ==
    /\ \A k \in Places, s \in SequenceNumbers :
           Waits(w, k, s) => 2 * Back(sequences[w], s) <= Len(to_motors) + 1 - k
    /\ \A k, l \in Places, s, r \in SequenceNumbers :
           Waits(w, k, s) /\ Waits(w, l, r) /\ k < l
               => Back(sequences[w], s) > Back(sequences[w], r)

Enough == "send" \notin Faults /\ 1 < SeqMod /\ HalfQueue < SeqMod

LEMMA WaitsIs ==
    ASSUME SystemInv, NEW w, NEW k \in Places, NEW s \in SequenceNumbers
    PROVE  /\ Waits(w, k, s) => Flies(w, k, s) /\ k >= 1 /\ k <= Len(to_motors) + 1
           /\ k \in Int /\ Len(to_motors) \in Nat
<1>1. k \in Int /\ Len(to_motors) \in Nat
    BY PlaceRange, LenProperties DEF SystemInv, BusOK
<1>2. OwedAt(w, k, s) => k = 1
    BY DEF OwedAt
<1>3. CommandAt(w, k, s) => k >= 2 /\ k <= Len(to_motors) + 1
    BY <1>1 DEF CommandAt
<1> QED BY <1>1, <1>2, <1>3 DEF Waits, Flies

\* The queue and the debt stay, or the debt is paid.
LEMMA BacklogKept ==
    ASSUME NEW w, Backlog(w), UNCHANGED to_motors, sequences'[w] = sequences[w],
           owed' = owed \/ owed' = <<>>
    PROVE  Backlog(w)'
<1>1. \A k \in Places, s \in SequenceNumbers : Waits(w, k, s)' => Waits(w, k, s)
    BY DEF Waits, OwedAt, CommandAt
<1> QED BY <1>1 DEF Backlog

LEMMA BacklogObey ==
    ASSUME SystemInv, Obey, NEW w \in Wheels, Backlog(w) PROVE Backlog(w)'
<1>1. /\ owed = <<>> /\ to_motors # <<>> /\ to_motors' = Tail(to_motors)
      /\ owed' = <<>> \/ owed' = <<Head(to_motors)>>
    BY ObeyKeeps DEF Obey, Motors!Obey, NodeIdle, node
<1>2. sequences' = sequences
    BY IdleSockets DEF Obey
<1>3. \A k \in Places, s \in SequenceNumbers :
          CommandAt(w, k, s)' => k >= 2 /\ CommandAt(w, k + 1, s)
    BY <1>1, QueueTaken
<1>4. \A s : CommandAt(w, 2, s) <=> Head(to_motors).wheel = w /\ Head(to_motors).sequence = s
    BY <1>1, NextIsAt
<1>5. \A k \in Places, s \in SequenceNumbers : OwedAt(w, k, s)' => k = 1 /\ CommandAt(w, 2, s)
    BY <1>1, <1>4 DEF OwedAt
<1>6. ASSUME NEW k \in Places, NEW s \in SequenceNumbers, Waits(w, k, s)'
      PROVE  k + 1 \in Places /\ Waits(w, k + 1, s) /\ k \in Int
    <2>1. CommandAt(w, k + 1, s) /\ k \in Int /\ k + 1 \in Int
        BY <1>3, <1>5, <1>6, PlaceRange DEF Waits
    <2>2. k + 1 \in Places
        BY <2>1, FlyingPlace DEF Flies
    <2> QED BY <2>1, <2>2 DEF Waits
<1>7. Len(to_motors') = Len(to_motors) - 1 /\ Len(to_motors) \in Nat
    BY <1>1, NextCommand
<1>8. ASSUME NEW k \in Places, NEW s \in SequenceNumbers, Waits(w, k, s)'
      PROVE  2 * Back(sequences[w], s) <= Len(to_motors') + 1 - k
    <2>1. 2 * Back(sequences[w], s) <= Len(to_motors) + 1 - (k + 1) /\ k \in Int
        BY <1>6, <1>8 DEF Backlog
    <2>2. Len(to_motors) + 1 - (k + 1) = Len(to_motors') + 1 - k
        BY <1>7, <2>1
    <2> QED BY <2>1, <2>2
<1>9. ASSUME NEW k \in Places, NEW l \in Places, NEW s \in SequenceNumbers,
             NEW r \in SequenceNumbers, Waits(w, k, s)', Waits(w, l, r)', k < l
      PROVE  Back(sequences[w], s) > Back(sequences[w], r)
    <2>1. k + 1 < l + 1
        BY <1>6, <1>9
    <2> QED BY <1>6, <1>9, <2>1 DEF Backlog
<1> QED BY <1>2, <1>8, <1>9 DEF Backlog

LEMMA BacklogSend ==
    ASSUME SystemInv, Enough, PluginSteps, Room, NEW enabled, BothSent(enabled),
           sent' \in Seq(Frame), NEW w \in Wheels, Backlog(w)
    PROVE  Backlog(w)'
<1> DEFINE last == sequences[w]
           next == sequences'[w]
           new == Behind(w) + 1
           n == Len(to_motors)
<1>1. /\ last \in SequenceNumbers /\ next \in SequenceNumbers /\ next = NextSequence(last)
      /\ n \in Nat /\ n + 4 <= QueueMax /\ QueueMax \in Nat /\ SeqMod \in Nat
      /\ HalfQueue < SeqMod /\ HalfQueue \in Nat /\ QueueMax <= 2 * HalfQueue + 1
    BY NextSequenceType, LenProperties, SequenceRange, HalfRange
       DEF SystemInv, TypeOK, BusOK, BothSent, Room, Enough
<1>2. \A k \in Places, s \in SequenceNumbers :
          /\ Waits(w, k, s)' <=> Waits(w, k, s) \/ (k = new /\ s = next)
          /\ Waits(w, k, s) => k < new
    <2> SUFFICES ASSUME NEW k \in Places, NEW s \in SequenceNumbers
                 PROVE  /\ Waits(w, k, s)' <=> Waits(w, k, s) \/ (k = new /\ s = next)
                        /\ Waits(w, k, s) => k < new
        OBVIOUS
    <2>1. /\ CommandAt(w, k, s)' <=> CommandAt(w, k, s) \/ (k = new /\ s = next)
          /\ CommandAt(w, k, s) => k < new
          /\ new \in Places /\ new >= 2
        BY CommandsAfterSend
    <2>2. OwedAt(w, k, s)' <=> OwedAt(w, k, s)
        BY DEF PluginSteps, NodeIdle, node, OwedAt
    <2>3. OwedAt(w, k, s) => k < new
        <3>1. new \in Int
            BY <2>1, PlaceRange
        <3> QED BY <2>1, <3>1 DEF OwedAt
    <2> QED BY <2>1, <2>2, <2>3 DEF Waits
<1>3. Len(to_motors') = n + 2
    BY QueueAfterSend
<1>4. \A s \in SequenceNumbers : Back(last, s) \in Nat /\ Back(next, s) \in Nat
    BY <1>1, BackType
<1>5. Back(next, next) = 0
    BY <1>1, BackSelf
<1>6. ASSUME NEW k \in Places, NEW s \in SequenceNumbers, Waits(w, k, s)
      PROVE  /\ 2 * Back(last, s) <= n + 1 - k /\ Back(next, s) = Back(last, s) + 1
             /\ k \in Int
    <2>1. 2 * Back(last, s) <= n + 1 - k /\ k >= 1 /\ k \in Int
        BY <1>6, WaitsIs DEF Backlog
    <2>2. Back(last, s) < SeqMod - 1
        BY <1>1, <1>4, <2>1
    <2> QED BY <1>1, <2>1, <2>2, BackNext
<1>7. new = n + 2 + w /\ w \in 0 .. 1
    BY <1>1 DEF Behind, Wheels
<1> HIDE DEF last, next, new, n
<1>8. ASSUME NEW k \in Places, NEW s \in SequenceNumbers, Waits(w, k, s)'
      PROVE  2 * Back(next, s) <= n + 2 + 1 - k
    <2>1. CASE Waits(w, k, s)
        <3>1. 2 * Back(last, s) <= n + 1 - k /\ Back(next, s) = Back(last, s) + 1 /\ k \in Int
            BY <1>6, <2>1
        <3>2. Back(last, s) \in Nat /\ n \in Nat
            BY <1>1, <1>4
        <3> QED BY <3>1, <3>2
    <2>2. CASE k = new /\ s = next
        BY <1>1, <1>5, <1>7, <2>2
    <2> QED BY <1>2, <1>8, <2>1, <2>2
<1>9. ASSUME NEW k \in Places, NEW l \in Places, NEW s \in SequenceNumbers,
             NEW r \in SequenceNumbers, Waits(w, k, s)', Waits(w, l, r)', k < l
      PROVE  Back(next, s) > Back(next, r)
    <2>1. k \in Int /\ l \in Int /\ new \in Int
        BY <1>1, <1>7, PlaceRange
    <2>2. l <= new
        BY <1>2, <1>9, <2>1
    <2>3. Waits(w, k, s)
        BY <1>2, <1>9, <2>1, <2>2
    <2>4. CASE Waits(w, l, r)
        <3>1. Back(last, s) > Back(last, r)
            BY <1>9, <2>3, <2>4 DEF Backlog, last
        <3> QED BY <1>4, <1>6, <2>3, <2>4, <3>1
    <2>5. CASE r = next
        BY <1>4, <1>5, <1>6, <2>3, <2>5
    <2> QED BY <1>2, <1>9, <2>4, <2>5
<1> QED BY <1>3, <1>8, <1>9 DEF Backlog, next, n

LEMMA BacklogNext ==
    ASSUME SystemInv, TypeOK', FaultInv, Enough, [SystemNext]_system_vars,
           NEW w \in Wheels, Backlog(w)
    PROVE  Backlog(w)'
<1>1. CASE Activate \/ Deactivate \/ BeginRead \/ EndRead \/ WriteCommands \/ Control
    <2>1. PluginSteps
        BY <1>1 DEF Activate, Deactivate, BeginRead, EndRead, WriteCommands, Control
    <2>2. CASE NoneSent
        <3>1. to_motors' = to_motors /\ owed' = owed /\ sequences'[w] = sequences[w]
            BY <2>1, <2>2, NoCommandsMove DEF NoneSent, PluginSteps, NodeIdle, node
        <3> QED BY <3>1, BacklogKept
    <2>3. CASE Room /\ \E enabled \in BOOLEAN : BothSent(enabled)
        BY <2>1, <2>3, BacklogSend DEF TypeOK
    <2> QED BY <1>1, <2>2, <2>3, PluginSends DEF Enough
<1>2. CASE Obey
    BY <1>2, BacklogObey
<1>3. CASE ReadFrame
    <2>1. UNCHANGED <<to_motors, owed, sequences>>
        BY <1>3, ReadKeeps DEF ReadFrame, NodeIdle, node
    <2> QED BY <2>1, BacklogKept
<1>4. CASE Answer \/ Advance \/ Sample \/ Emit
    <2>1. UNCHANGED to_motors /\ sequences' = sequences
        BY <1>4, IdleSockets DEF Answer, Advance, Sample, Emit, bus
    <2>2. owed' = owed \/ owed' = <<>>
        BY <1>4, AdvanceMotors DEF Answer, Sample, Emit, Motors!Acknowledge, Motors!Sample,
                                   Motors!Emit
    <2> QED BY <2>1, <2>2, BacklogKept
<1>5. CASE Pass
    <2>1. UNCHANGED <<to_motors, owed, sequences>>
        BY <1>5, IdleSockets DEF Pass, Motors!Tick, Tick, wire
    <2> QED BY <2>1, BacklogKept
<1>6. CASE UNCHANGED system_vars
    <2>1. UNCHANGED <<to_motors, owed, sequences>>
        BY <1>6 DEF system_vars, vars, wire, node, bus
    <2> QED BY <2>1, BacklogKept
<1> QED BY <1>1, <1>2, <1>3, <1>4, <1>5, <1>6 DEF SystemNext

-----------------------------------------------------------------------------
(***************************************************************************)
(* The plugin is activated                                                 *)
(***************************************************************************)
LEMMA ActivateTracked ==
    ASSUME SystemInv, InactiveIsClosed, Activate, sender', ~fault_latched',
           NEW w \in Wheels, Distinct(w)', w \in suspects' => Backlog(w)'
    PROVE  Tracked(w)'
<1> DEFINE next == sequences'[w]
           new == Behind(w) + 1
<1>1. /\ BothSent(FALSE) /\ sent' \in Seq(Frame) /\ receiver' /\ PluginSteps /\ Room
      /\ health'.pending[w] = <<>> /\ health'.ignored[w] = next /\ trail'[w] = "armed"
    BY ActivateEffect
<1>2. /\ TypeOK /\ next \in SequenceNumbers /\ to_plugin = <<>>
      /\ suspects' = {u \in Wheels : OnTheWay(u)} /\ lost' = {}
      /\ "restless" \in Faults \/ ~OnTheWay(w)
    <2>1. ~receiver /\ sequences[w] \in SequenceNumbers
        BY DEF SystemInv, QueueInv, InactiveIsClosed, Activate, OnActivate, TypeOK
    <2>2. next \in SequenceNumbers
        BY <1>1, <2>1, NextSequenceType DEF BothSent
    <2> QED BY <2>1, <2>2 DEF SystemInv, BusOK, Activate
<1>3. Len(health'.pending[w]) = 0 /\ trail'[w] # "driving" /\ lost' = {} /\ next \in SequenceNumbers
    BY <1>1, <1>2
<1>4. \A s \in SequenceNumbers : Back(next, s) \in Nat
    BY <1>2, BackType
<1>5. \A k \in Places, s \in SequenceNumbers :
          /\ Flies(w, k, s)' <=> Flies(w, k, s) \/ (k = new /\ s = next)
          /\ Flies(w, k, s) => k < new
    BY <1>1, FliesAfterSend
<1>6. \A k \in Places, s \in SequenceNumbers : ~AckAt(w, k, s)'
    <2>1. to_plugin' = <<>>
        BY <1>1, <1>2 DEF PluginSteps
    <2> QED BY <2>1 DEF AckAt
<1>7. \A k \in Places, s \in SequenceNumbers : Flies(w, k, s)' => Waits(w, k, s)'
    BY <1>6 DEF Flies, Waits
<1> HIDE DEF next, new
<1>8. InOrder(w)' /\ Recent(w)'
    <2>1. CASE w \in suspects'
        <3>1. HalfQueue \in Nat \ {0}
            <4>1. Len(to_motors) \in Nat /\ Len(to_motors) + 4 <= QueueMax
                BY <1>1, LenProperties DEF SystemInv, BusOK, Room
            <4> QED BY <4>1, SequenceRange, HalfRange
        <3>2. Backlog(w)' /\ Slack(w)' = HalfQueue
            BY <1>2, <2>1 DEF Slack, HalfQueue
        <3>3. InOrder(w)'
            BY <1>7, <3>2 DEF InOrder, Backlog
        <3>4. ASSUME NEW k \in Places, NEW s \in SequenceNumbers, Flies(w, k, s)'
              PROVE  Back(next, s) <= HalfQueue
            <4>1. SystemInv' /\ Waits(w, k, s)'
                BY <1>7, <3>4, SystemInvNext DEF SystemNext
            <4>2. 2 * Back(next, s) <= Len(to_motors') + 1 - k
                BY <3>2, <4>1 DEF Backlog, next
            <4>3. k >= 1 /\ k \in Int
                <5>1. k \in Int
                    BY PlaceRange
                <5>2. OwedAt(w, k, s)' \/ CommandAt(w, k, s)'
                    BY <4>1 DEF Waits
                <5>3. CommandAt(w, k, s)' => k - 1 >= 1
                    BY <5>1 DEF CommandAt
                <5> QED BY <5>1, <5>2, <5>3 DEF OwedAt
            <4>4. Len(to_motors') \in Nat /\ Len(to_motors') <= QueueMax
                BY <4>1, LenProperties DEF SystemInv, BusOK
            <4>5. 2 * Back(next, s) <= QueueMax
                BY <1>4, <4>2, <4>3, <4>4, SequenceRange
            <4> QED BY <1>4, <4>5, HalfRange
        <3>5. Recent(w)'
            BY <1>3, <3>1, <3>2, <3>4 DEF Recent, next
        <3> QED BY <3>3, <3>5
    <2>2. CASE w \notin suspects'
        <3>1. \A k \in Places, s \in SequenceNumbers : ~Flies(w, k, s)
            <4> SUFFICES ASSUME NEW k \in Places, NEW s \in SequenceNumbers, Flies(w, k, s)
                         PROVE  OnTheWay(w)
                BY <1>2, <2>2
            <4>1. ~AckAt(w, k, s)
                BY <1>2 DEF AckAt
            <4> QED BY <4>1 DEF Flies, OwedAt, CommandAt, OnTheWay
        <3>2. \A k \in Places, s \in SequenceNumbers : Flies(w, k, s)' <=> k = new /\ s = next
            BY <1>5, <3>1
        <3>3. InOrder(w)'
            BY <3>2, PlaceRange DEF InOrder
        <3>4. Back(next, next) = 0 /\ Slack(w)' \in Nat
            BY <1>2, BackSelf, HalfRange DEF Slack, HalfQueue
        <3>5. health'.ignored[w] = next
            BY <1>1 DEF next
        <3>6. Recent(w)'
            BY <1>3, <3>2, <3>4, <3>5 DEF Recent, next
        <3> QED BY <3>3, <3>6
    <2> QED BY <2>1, <2>2
<1>9. Counted(w)'
    BY <1>3, SequenceRange DEF Counted
<1>10. Enabling(w)'
    <2> SUFFICES ASSUME NEW i \in 1 .. Len(to_motors')
                 PROVE  ~(Back(next, to_motors'[i].sequence) < 0)
        BY <1>3 DEF Enabling, next
    <2>1. SystemInv'
        BY SystemInvNext DEF SystemNext
    <2>2. to_motors'[i].sequence \in SequenceNumbers
        BY <2>1, ElementOfSeq, GoodCommandType DEF SystemInv, BusOK
    <2> QED BY <1>4, <2>2
<1>11. Adopting(w)'
    BY <1>3, <1>4 DEF Adopting, next
<1>12. Complete(w)' /\ Missed(w)'
    BY <1>3 DEF Complete, Missed
<1> QED BY <1>8, <1>9, <1>10, <1>11, <1>12 DEF Tracked

-----------------------------------------------------------------------------
(***************************************************************************)
(* Every step keeps track                                                  *)
(***************************************************************************)
LEMMA QuietTracked ==
    ASSUME SystemInv, PluginSteps, sent' = <<>>, receiver', UNCHANGED <<suspects, lost>>,
           NEW w \in Wheels, SameBooks(w), Tracked(w)
    PROVE  Tracked(w)'
<1>1. TypeOK /\ SameMotor(w)
    BY DEF SystemInv, PluginSteps, NodeIdle, node, SameMotor
<1> QED BY <1>1, QuietPluginMoves, TrackedMoves, InPlaceStays

\* A read and a controller that leave the plugin operating send nothing.
LEMMA QuietCycle ==
    ASSUME SystemInv, BeginRead \/ EndRead \/ Control, ~fault_latched', NEW w
    PROVE  /\ PluginSteps /\ sent' = <<>> /\ UNCHANGED <<suspects, lost>>
           /\ SameBooks(w) /\ UNCHANGED <<fault_latched, sockets, stop_reason>>
<1>1. CASE BeginRead
    BY <1>1 DEF BeginRead, ReadStart, MayOperate, Refuse, SocketMissing, EnterSafeStop,
                latch, wire, history, SameBooks
<1>2. CASE EndRead
    BY <1>2 DEF EndRead, ReadFinish, AbortRead, EnterSafeStop, latch, wire, history,
                SameBooks
<1>3. CASE Control
    BY <1>3 DEF Control, ControllerUpdate, latch, wire, history, SameBooks
<1> QED BY <1>1, <1>2, <1>3

LEMMA IdleTracked ==
    ASSUME SystemInv, Advance \/ Sample \/ Emit, receiver, NEW w \in Wheels, Tracked(w)
    PROVE  Tracked(w)'
<1>1. /\ TypeOK /\ SameBooks(w) /\ UNCHANGED <<suspects, lost, to_motors, owed>>
    BY IdleBooks, AdvanceMotors
       DEF SystemInv, Advance, Sample, Emit, Motors!Sample, Motors!Emit, history, bus
<1>2. SameMotor(w)
    BY AdvanceMotors DEF Sample, Emit, Motors!Sample, Motors!Emit, SameMotor
<1>3. /\ Moves(w, InPlace) /\ StillQueued
      /\ \A s \in SequenceNumbers : OnWay(w, s) => OnWay(w, s)'
    <2>1. CASE Emit
        BY <2>1, EmitMoves
    <2>2. CASE Advance \/ Sample
        <3>1. \A k \in Places, s \in SequenceNumbers : AckAt(w, k, s)' <=> AckAt(w, k, s)
            BY <2>2 DEF Advance, Sample, bus, AckAt
        <3> QED BY <1>1, <3>1, NothingMoves
    <2> QED BY <2>1, <2>2
<1> QED BY <1>1, <1>2, <1>3, TrackedMoves, InPlaceStays

LEMMA AgedBooks ==
    ASSUME TypeOK, Tick, NEW w \in Wheels PROVE SameBooks(w)
<1>1. /\ health \in Health /\ health' = Aged(health)
      /\ sequences' = sequences /\ trail' = trail
    BY DEF TypeOK, Tick, wire
<1>2. Len(health.pending[w]) \in Nat
    BY BooksType
<1>3. health'.ignored[w] = health.ignored[w]
    BY <1>1 DEF Aged, Health
<1>4. health'.pending[w] = [i \in 1 .. Len(health.pending[w]) |->
            [ sequence |-> health.pending[w][i].sequence,
              age      |-> Older(health.pending[w][i].age, AckTimeout) ]]
    BY <1>1 DEF Aged, Health
<1>5. Len(health'.pending[w]) = Len(health.pending[w])
    BY <1>2, <1>4
<1>6. \A i \in 1 .. Len(health.pending[w]) :
          health'.pending[w][i].sequence = health.pending[w][i].sequence
    BY <1>4
<1> QED BY <1>1, <1>3, <1>5, <1>6 DEF SameBooks

LEMMA PassTracked ==
    ASSUME SystemInv, Pass, NEW w \in Wheels, Tracked(w) PROVE Tracked(w)'
<1>1. TypeOK /\ UNCHANGED <<suspects, lost>> /\ SameMotor(w)
    BY DEF SystemInv, Pass, Motors!Tick, SameMotor
<1>2. SameBooks(w)
    BY <1>1, IdleBooks, AgedBooks DEF Pass
<1> QED BY <1>1, <1>2, PassMoves, TrackedMoves, InPlaceStays

-----------------------------------------------------------------------------
(***************************************************************************)
(* The cause of a stop                                                     *)
(***************************************************************************)
AckCauses == {"unexpected_ack", "ack_rejected"}

\* Only a read that takes an ACK records one of these.
BlamesNoAck ==
    \/ stop_reason' = stop_reason /\ suspects \subseteq suspects'
    \/ stop_reason'.cause \notin AckCauses

LEMMA CallbackBlames ==
    ASSUME Activate \/ Deactivate \/ BeginRead \/ EndRead \/ WriteCommands \/ Control
    PROVE  BlamesNoAck
<1>1. CASE Activate
    <2>1. stop_reason' \in {NoReason, Reason("activation_failed")}
        BY <1>1 DEF Activate, OnActivate, SocketsUnavailable, SocketsOpened, ActivationFailed
    <2> QED BY <2>1 DEF NoReason, Reason, AckCauses, BlamesNoAck
<1>2. CASE Deactivate \/ Control
    BY <1>2 DEF Deactivate, OnDeactivate, StopAndRelease, Control, ControllerUpdate, latch,
                history, BlamesNoAck
<1>3. CASE BeginRead
    <2>1. stop_reason' \in {stop_reason, Reason("can_receive_unavailable")}
        BY <1>3 DEF BeginRead, ReadStart, Refuse, SocketMissing, EnterSafeStop, latch
    <2> QED BY <1>3, <2>1 DEF BeginRead, history, Reason, AckCauses, BlamesNoAck
<1>4. CASE EndRead
    <2>1. stop_reason' \in {stop_reason, TimeoutReason}
        BY <1>4 DEF EndRead, ReadFinish, AbortRead, EnterSafeStop, FirstReason, latch
    <2> QED BY <1>4, <2>1 DEF EndRead, history, TimeoutReason, ReasonOf, AckCauses, BlamesNoAck
<1>5. CASE WriteCommands
    <2>1. stop_reason' \in {stop_reason, Reason("can_send_unavailable"), Reason("can_send_error")}
        BY <1>5 DEF WriteCommands, Write, Refuse, SocketMissing, Drive, EnterSafeStop,
                    FirstReason, latch
    <2> QED BY <1>5, <2>1 DEF WriteCommands, history, Reason, AckCauses, BlamesNoAck
<1> QED BY <1>1, <1>2, <1>3, <1>4, <1>5

LEMMA OtherBlames ==
    ASSUME Obey \/ Answer \/ Advance \/ Sample \/ Emit \/ Pass \/ UNCHANGED system_vars
    PROVE  BlamesNoAck
BY DEF Obey, Answer, Missing, Advance, Sample, Emit, Pass, PluginIdle, plugin, Tick,
       latch, vars, system_vars, history, BlamesNoAck

LEMMA CauseNext ==
    ASSUME SystemInv, [SystemNext]_system_vars,
           Live => \A w \in Wheels : w \notin suspects => Tracked(w),
           UnexpectedAckHasCause
    PROVE  UnexpectedAckHasCause'
<1>1. CASE ReadFrame
    <2>1. Live
        BY <1>1 DEF ReadFrame, SystemInv, QueueInv, Live
    <2> QED BY <1>1, <2>1, ReadFrameBlames
<1>2. CASE ~ReadFrame
    <2>1. BlamesNoAck
        BY <1>2, CallbackBlames, OtherBlames DEF SystemNext
    <2>2. CASE stop_reason' = stop_reason /\ suspects \subseteq suspects'
        BY <2>2 DEF UnexpectedAckHasCause
    <2>3. CASE stop_reason'.cause \notin AckCauses
        BY <2>3 DEF UnexpectedAckHasCause, AckCauses
    <2> QED BY <2>1, <2>2, <2>3 DEF BlamesNoAck
<1> QED BY <1>1, <1>2

-----------------------------------------------------------------------------
(***************************************************************************)
(* The invariant                                                           *)
(***************************************************************************)
AllTracked == Live => \A w \in Wheels : Distinct(w) => Tracked(w)

TrackInv ==
    /\ SystemInv /\ FaultInv /\ InactiveIsClosed
    /\ Enough => \A w \in Wheels : Backlog(w)
    /\ AllTracked
    /\ UnexpectedAckHasCause

LEMMA TrackInvInit == SystemInit => TrackInv
<1> SUFFICES ASSUME SystemInit PROVE TrackInv
    OBVIOUS
<1>1. SystemInv /\ FaultInv /\ InactiveIsClosed /\ ~Live
    BY SystemInvInit, FaultInvInit DEF SystemInit, Init, InactiveIsClosed, Live
<1>2. UnexpectedAckHasCause
    BY DEF SystemInit, Init, NoReason, Reason, UnexpectedAckHasCause
<1>3. ASSUME NEW w \in Wheels PROVE Backlog(w)
    <2>1. to_motors = <<>> /\ owed = <<>> /\ Len(to_motors) = 0
        BY DEF SystemInit, Motors!Init
    <2>2. \A k \in Places, s \in SequenceNumbers : ~Waits(w, k, s)
        BY <2>1 DEF Waits, OwedAt, CommandAt
    <2> QED BY <2>2 DEF Backlog
<1> QED BY <1>1, <1>2, <1>3 DEF TrackInv, AllTracked

LEMMA PluginKeeps ==
    ASSUME SystemInv, FaultInv, InactiveIsClosed, [SystemNext]_system_vars
    PROVE  FaultInv' /\ InactiveIsClosed'
<1>1. CASE [Next]_vars
    BY <1>1, FaultInvNext, InactiveIsClosedNext DEF SystemInv
<1>2. CASE PluginIdle
    BY <1>2 DEF PluginIdle, plugin, latch, sockets, FaultInv, InactiveIsClosed
<1> QED BY <1>1, <1>2, PluginMoves

\* Activation apart, what is tracked was tracked before.
LEMMA LiveBefore ==
    ASSUME SystemInv, [SystemNext]_system_vars, Live', ~Activate
    PROVE  /\ Live /\ receiver /\ receiver'
           /\ ~Deactivate
           /\ suspects \subseteq suspects'
<1>1. SystemInv'
    BY SystemInvNext
<1>2. sender' /\ ~fault_latched' /\ receiver'
    BY <1>1 DEF Live, SystemInv, QueueInv
<1>3. ~Deactivate
    BY <1>2 DEF Deactivate, OnDeactivate, StopAndRelease
<1>4. CASE BeginRead \/ EndRead \/ Control
    BY <1>2, <1>3, <1>4, QuietCycle DEF sockets, Live, SystemInv, QueueInv
<1>5. CASE WriteCommands
    <2>2. ~Refuse \/ ~fault_latched
        BY <1>2 DEF Refuse, latch
    <2>3. \A cause : ~SocketMissing(cause)
        BY <1>2 DEF SocketMissing, EnterSafeStop
    <2>4. Write
        BY <1>5 DEF WriteCommands
    <2>1. Live
        BY <2>2, <2>3, <2>4 DEF Write, MayOperate, Live
    <2> QED BY <1>2, <1>3, <1>5, <2>1 DEF WriteCommands, history, Live, SystemInv, QueueInv
<1>6. CASE ReadFrame
    <2>1. Live /\ receiver
        BY <1>6 DEF ReadFrame, SystemInv, QueueInv, Live
    <2> QED BY <1>2, <1>3, <1>6, <2>1, ReadKeeps
<1>7. CASE Obey \/ Answer \/ Advance \/ Sample \/ Emit \/ Pass \/ UNCHANGED system_vars
    <2>1. UNCHANGED <<fault_latched, sockets>>
        BY <1>7 DEF Obey, Answer, Advance, Sample, Emit, Pass, PluginIdle, plugin, Tick,
                    latch, system_vars, vars
    <2>2. suspects \subseteq suspects'
        BY <1>7 DEF Obey, Answer, Missing, Advance, Sample, Emit, Pass, history, system_vars
    <2> QED BY <1>2, <1>3, <2>1, <2>2 DEF sockets, Live
<1> QED BY <1>3, <1>4, <1>5, <1>6, <1>7 DEF SystemNext

LEMMA DistinctBefore ==
    ASSUME NEW w, Distinct(w)', suspects \subseteq suspects' PROVE Distinct(w)
BY DEF Distinct

LEMMA TrackedNext ==
    ASSUME SystemInv, AllTracked, MaxPending < SeqMod, [SystemNext]_system_vars,
           Live', ~Activate, NEW w \in Wheels, Distinct(w)'
    PROVE  Tracked(w)'
<1>1. /\ Live /\ receiver /\ receiver' /\ ~Deactivate /\ ~fault_latched'
      /\ Distinct(w) /\ Tracked(w) /\ TypeOK
    BY LiveBefore, DistinctBefore DEF AllTracked, SystemInv, Live
<1>2. CASE BeginRead \/ EndRead \/ Control
    BY <1>1, <1>2, QuietCycle, QuietTracked
<1>3. CASE ReadFrame
    BY <1>1, <1>3, ReadFrameTracked
<1>4. CASE WriteCommands
    BY <1>1, <1>4, WriteTracked
<1>5. CASE Obey
    BY <1>1, <1>5, ObeyTracked
<1>6. CASE Answer
    BY <1>1, <1>6, AnswerTracked
<1>7. CASE Advance \/ Sample \/ Emit
    BY <1>1, <1>7, IdleTracked
<1>8. CASE Pass
    BY <1>1, <1>8, PassTracked
<1>9. CASE UNCHANGED system_vars
    <2>1. /\ UNCHANGED <<to_motors, to_plugin, owed, motors, suspects, lost>>
          /\ SameBooks(w) /\ SameMotor(w)
        BY <1>9 DEF system_vars, vars, wire, node, bus, history, SameBooks, SameMotor
    <2>2. \A k \in Places, s \in SequenceNumbers : AckAt(w, k, s)' <=> AckAt(w, k, s)
        BY <2>1 DEF AckAt
    <2>3. /\ Moves(w, InPlace) /\ StillQueued
          /\ \A s \in SequenceNumbers : OnWay(w, s) => OnWay(w, s)'
        BY <2>1, <2>2, NothingMoves
    <2> QED BY <1>1, <2>1, <2>3, TrackedMoves, InPlaceStays
<1> QED BY <1>1, <1>2, <1>3, <1>4, <1>5, <1>6, <1>7, <1>8, <1>9 DEF SystemNext

\* A wheel that is activated with frames on their way is one of a run that
\* allows for it.
LEMMA FreshOrRestless ==
    ASSUME Activate, NEW w \in Wheels, w \in suspects', Distinct(w)', MaxPending < SeqMod
    PROVE  Enough
<1>1. "restless" \in Faults
    BY DEF Activate
<1>2. "send" \notin Faults /\ MaxPending + HalfQueue < SeqMod
    BY <1>1 DEF Distinct
<1>3. MaxPending \in Nat \ {0} /\ HalfQueue \in Nat /\ SeqMod \in Nat
    BY SequenceRange, HalfRange
<1> QED BY <1>2, <1>3 DEF Enough

LEMMA TrackInvNext ==
    ASSUME TrackInv, MaxPending < SeqMod, [SystemNext]_system_vars PROVE TrackInv'
<1>1. SystemInv /\ FaultInv /\ InactiveIsClosed /\ AllTracked
    BY DEF TrackInv
<1>2. SystemInv' /\ FaultInv' /\ InactiveIsClosed' /\ TypeOK'
    BY <1>1, SystemInvNext, PluginKeeps DEF SystemInv
<1>3. Enough => \A w \in Wheels : Backlog(w)'
    BY <1>1, <1>2, BacklogNext DEF TrackInv
<1>4. AllTracked'
    <2> SUFFICES ASSUME Live', NEW w \in Wheels, Distinct(w)' PROVE Tracked(w)'
        BY DEF AllTracked
    <2>1. CASE Activate
        <3>1. w \in suspects' => Backlog(w)'
            BY <1>3, <2>1, FreshOrRestless
        <3> QED BY <1>1, <2>1, <3>1, ActivateTracked DEF Live
    <2>2. CASE ~Activate
        BY <1>1, <2>2, TrackedNext
    <2> QED BY <2>1, <2>2
<1>5. UnexpectedAckHasCause'
    <2>1. Live => \A w \in Wheels : w \notin suspects => Tracked(w)
        BY <1>1 DEF AllTracked, Distinct
    <2> QED BY <1>1, <2>1, CauseNext DEF TrackInv
<1> QED BY <1>2, <1>3, <1>4, <1>5 DEF TrackInv, Enough

LEMMA TrackInvariant ==
    ASSUME MaxPending < SeqMod PROVE SystemSpec => []TrackInv
<1>1. SystemInit => TrackInv
    BY TrackInvInit
<1>2. TrackInv /\ [SystemNext]_system_vars => TrackInv'
    BY TrackInvNext
<1> QED BY <1>1, <1>2, PTL DEF SystemSpec

-----------------------------------------------------------------------------
\* Fewer than SeqMod (256) commands of a motor are ever waiting for their ACK.
FewPending == MaxPending < SeqMod

\* Either the component is only activated when nothing is on its way, or no
\* send fails and the numbers outlast what a receive queue can hold of one
\* motor (kernel queues hold a few hundred frames, there are 256 numbers).
NumbersLast ==
    \/ "restless" \notin Faults
    \/ "send" \notin Faults /\ MaxPending + HalfQueue < SeqMod

\* The robot is never stopped for an ACK of a wheel that lost nothing, and no
\* ACK is ever a rejection: the books of the plugin (pending_acks_, the ACK of
\* the stop frame) agree with what the bus and the motor node still hold.
THEOREM AcksHaveCause ==
    ASSUME FewPending PROVE SystemSpec => []UnexpectedAckHasCause
<1>1. TrackInv => UnexpectedAckHasCause
    BY DEF TrackInv
<1> QED BY <1>1, TrackInvariant, PTL DEF FewPending

LEMMA OperatingTracked ==
    ASSUME TrackInv, NumbersLast, Operating, NEW w \in Wheels PROVE Tracked(w)
<1>1. Live
    BY DEF TrackInv, SystemInv, QueueInv, Operating, Live
<1> QED BY <1>1 DEF TrackInv, AllTracked, NumbersLast, Distinct

\* A plugin that operates and waits for no ACK of a wheel it drives (its
\* pending_acks_ is empty) has had its last command adopted by that motor,
\* whatever was lost, late, or left over from an earlier activation.
THEOREM AckIsObedience ==
    ASSUME FewPending, NumbersLast PROVE SystemSpec => []AckMeansObeyed
<1>1. ASSUME TrackInv PROVE AckMeansObeyed
    <2> SUFFICES ASSUME Operating, NEW w \in Wheels,
                        health.pending[w] = <<>>, trail[w] = "driving"
                 PROVE  motors[w].sequence = sequences[w] /\ motors[w].enabled
        BY DEF AckMeansObeyed
    <2>1. Adopting(w) /\ Len(health.pending[w]) = 0
        BY <1>1, OperatingTracked DEF Tracked
    <2> QED BY <2>1 DEF Adopting
<1> QED BY <1>1, TrackInvariant, PTL DEF FewPending

\* A lost command or a lost ACK does not go unnoticed: the plugin keeps
\* waiting for an ACK of that wheel (ack_timed_out will find it) for as long
\* as it operates, whatever it receives meanwhile.
THEOREM LossAwaited ==
    ASSUME FewPending, NumbersLast PROVE SystemSpec => []LossStaysAwaited
<1>1. ASSUME TrackInv PROVE LossStaysAwaited
    <2> SUFFICES ASSUME Operating, NEW w \in lost, health.pending[w] = <<>>
                 PROVE  FALSE
        BY DEF LossStaysAwaited
    <2>1. w \in Wheels
        BY <1>1 DEF TrackInv, SystemInv, CycleOK
    <2>2. Missed(w) /\ Len(health.pending[w]) = 0
        BY <1>1, <2>1, OperatingTracked DEF Tracked
    <2> QED BY <2>2 DEF Missed
<1> QED BY <1>1, TrackInvariant, PTL DEF FewPending
=============================================================================
