------------------------ MODULE VirtualMotor_proofs ------------------------
(***************************************************************************)
(* Theorems about the motor node, for every value of its constants: any    *)
(* targets, watchdogs and accelerations, any fault injection, any delay.   *)
(***************************************************************************)
EXTENDS VirtualMotor, SequenceTheorems, TLAPS

-----------------------------------------------------------------------------
(***************************************************************************)
(* One motor                                                               *)
(***************************************************************************)
LEMMA ProductNat == ASSUME NEW a \in Nat, NEW b \in Nat PROVE a * b \in Nat
BY SMT

\* A step towards the target does not pass it.
LEMMA ClampBetween ==
    ASSUME NEW v \in Int, NEW t \in Int, NEW k \in Nat
    PROVE  LET r == v + Clamp(t - v, k) IN
           /\ r \in Int
           /\ v <= t => v <= r /\ r <= t
           /\ t <= v => t <= r /\ r <= v
BY SMT DEF Clamp

LEMMA SpeedsAre ==
    ASSUME NEW v PROVE v \in Speeds <=> \E a \in Targets, b \in Targets : v \in a .. b
<1>1. ASSUME v \in Speeds PROVE \E a \in Targets, b \in Targets : v \in a .. b
    <2>1. PICK pair \in Targets \X Targets : v \in pair[1] .. pair[2]
        BY <1>1, Zenon DEF Speeds
    <2>2. pair[1] \in Targets /\ pair[2] \in Targets
        OBVIOUS
    <2> QED BY <2>1, <2>2
<1>2. ASSUME NEW a \in Targets, NEW b \in Targets, v \in a .. b PROVE v \in Speeds
    <2> DEFINE pair == <<a, b>>
    <2>1. pair \in Targets \X Targets /\ pair[1] .. pair[2] = a .. b
        OBVIOUS
    <2> QED BY <1>2, <2>1, Zenon DEF Speeds
<1> QED BY <1>1, <1>2

LEMMA SpeedsInt == Speeds \subseteq Int /\ Targets \subseteq Speeds
BY MotorAssumption, SpeedsAre, SMT

LEMMA ApproachType ==
    ASSUME NEW v \in Speeds, NEW t \in Targets, NEW dt \in Nat
    PROVE  Approach(v, t, dt) \in Speeds
<1> DEFINE k == Accel * dt
           r == v + Clamp(t - v, k)
<1>1. k \in Nat
    BY ProductNat, MotorAssumption
<1>2. v \in Int /\ t \in Int
    BY SpeedsInt
<1>3. PICK a \in Targets, b \in Targets : v \in a .. b
    BY SpeedsAre
<1>4. a \in Int /\ b \in Int
    BY SpeedsInt
<1> HIDE DEF k
<1>5. /\ r \in Int
      /\ v <= t => v <= r /\ r <= t
      /\ t <= v => t <= r /\ r <= v
    BY <1>1, <1>2, ClampBetween
<1> HIDE DEF r
<1>6. CASE v <= t
    <2>1. r \in a .. t
        BY <1>2, <1>3, <1>4, <1>5, <1>6, SMT
    <2> QED BY <1>3, <2>1, SpeedsAre DEF Approach, r, k
<1>7. CASE t <= v
    <2>1. r \in t .. b
        BY <1>2, <1>3, <1>4, <1>5, <1>7, SMT
    <2> QED BY <1>3, <2>1, SpeedsAre DEF Approach, r, k
<1> QED BY <1>2, <1>6, <1>7, SMT

LEMMA NewMotorType == NewMotor \in Motor
BY MotorAssumption, SpeedsInt DEF NewMotor, Motor

LEMMA AdoptedType ==
    ASSUME NEW m \in Motor, NEW c \in Command PROVE Adopted(m, c) \in Motor
BY MotorAssumption DEF Adopted, SetProtocolFault, AcceptCommand, Disable, Motor, Command

LEMMA UpdateType ==
    ASSUME NEW m \in Motor, NEW dt \in Nat, NEW since \in Int
    PROVE  Update(m, dt, since) \in Motor
<1> DEFINE target == IF WatchdogExpired(m, since) THEN 0 ELSE m.target
<1>1. target \in Targets /\ m.velocity \in Speeds
    BY MotorAssumption DEF Motor
<1>2. Approach(m.velocity, target, dt) \in Speeds
    BY <1>1, ApproachType
<1>3. m.watchdog_stopped \/ WatchdogExpired(m, since) \in BOOLEAN
    BY DEF Motor, WatchdogExpired
<1> HIDE DEF target
<1>4. Update(m, dt, since) =
        [m EXCEPT !.target = target,
                  !.watchdog_stopped = m.watchdog_stopped \/ WatchdogExpired(m, since),
                  !.velocity = Approach(m.velocity, target, dt)]
    BY DEF Update, target, Motor
<1> QED BY <1>1, <1>2, <1>3, <1>4 DEF Motor, WatchdogExpired

LEMMA ReadingType == ASSUME NEW m \in Motor PROVE ReadingOf(m) \in Reading
<1>1. Status(m) \in 0 .. 7
    BY SMT DEF Status, Motor
<1> QED BY <1>1 DEF ReadingOf, Reading, Motor

LEMMA AckType == ASSUME NEW c \in Command PROVE AckFor(c, AckResult(c)) \in BusFrame
BY DEF AckFor, AckResult, BusFrame, Ack, Command

ReportRecord == [wheel : Wheels, reading : Reading]

LEMMA FeedbackType ==
    ASSUME NEW r \in ReportRecord, NEW short \in BOOLEAN
    PROVE  FeedbackFor(r, short) \in Feedback
BY DEF FeedbackFor, Feedback, ReportRecord

-----------------------------------------------------------------------------
(***************************************************************************)
(* Type correctness                                                        *)
(***************************************************************************)
LEMMA TypeOKInit == Init => TypeOK
<1> SUFFICES ASSUME Init PROVE TypeOK
    OBVIOUS
<1>1. motors \in [Wheels -> Motor]
    BY NewMotorType DEF Init
<1>2. /\ last_command \in [Wheels -> 0 .. MaxAge] /\ since_valid \in [Wheels -> 0 .. MaxAge]
      /\ elapsed \in 0 .. MaxAge /\ step \in 0 .. MaxAge /\ elapsed <= MaxLag
      /\ command_count \in 0 .. CountCycle - 1 /\ feedback_count \in 0 .. CountCycle - 1
    BY VirtualMotorAssumption, SMT DEF Init
<1>3. /\ snapshot \in Seq([wheel : Wheels, reading : Reading]) /\ Len(snapshot) <= 2
      /\ delayed_frames \in Seq(Delayed) /\ sent \in Seq(BusFrame)
    BY DEF Init
<1> QED BY <1>1, <1>2, <1>3 DEF Init, TypeOK

LEMMA ShortSequences ==
    ASSUME NEW S, NEW x \in S, NEW y \in S
    PROVE  <<>> \in Seq(S) /\ <<x>> \in Seq(S) /\ <<x>> \o <<y>> \in Seq(S)
           /\ <<>> \o <<y>> \in Seq(S) /\ <<x>> \o <<>> \in Seq(S)
           /\ <<>> \o <<>> \in Seq(S)
OBVIOUS

LEMMA CountType == \A n \in Nat : CountAfter(n) \in 0 .. CountCycle - 1
BY VirtualMotorAssumption, SMT DEF CountAfter

LEMMA OlderType ==
    \A age \in 0 .. MaxAge :
        Older(age) \in 0 .. MaxAge /\ (age < MaxLag => Older(age) <= MaxLag)
BY VirtualMotorAssumption, SMT DEF Older

LEMMA TypeOKReceive == ASSUME TypeOK, NEW c \in Commands, Receive(c) PROVE TypeOK'
<1>1. command_count \in Nat
    BY VirtualMotorAssumption DEF TypeOK
<1>2. command_count' \in 0 .. CountCycle - 1
    BY <1>1, CountType DEF Receive
<1>3. /\ rx' \in {"receive", "apply", "ack", "stopped"}
      /\ command' \in {<<>>} \cup {<<d>> : d \in Commands}
      /\ rx' \in {"apply", "ack"} <=> command' # <<>>
    <2>1. CASE UNCHANGED <<rx, command>>
        BY <2>1 DEF TypeOK
    <2>2. CASE rx' = "apply" /\ command' = <<c>>
        BY <2>2
    <2> QED BY <2>1, <2>2 DEF Receive
<1>4. sent' \in Seq(BusFrame)
    BY DEF Receive
<1>5. UNCHANGED <<motors, last_command, since_valid, ex, elapsed, step, snapshot,
                  feedback_count, delayed_frames>>
    BY DEF Receive, executor
<1> QED BY <1>2, <1>3, <1>4, <1>5 DEF TypeOK

LEMMA CommandInHand ==
    ASSUME TypeOK, rx \in {"apply", "ack"}
    PROVE  command[1] \in Command /\ command[1] \in Commands /\ command = <<command[1]>>
BY VirtualMotorAssumption DEF TypeOK

LEMMA TypeOKApply == ASSUME TypeOK, Apply PROVE TypeOK'
<1> DEFINE c == command[1]
<1>1. c \in Command /\ c.wheel \in Wheels
    BY CommandInHand DEF Apply, Command
<1>2. motors' \in [Wheels -> Motor]
    BY <1>1, AdoptedType DEF Apply, TypeOK
<1>3. /\ last_command' \in [Wheels -> 0 .. MaxAge]
      /\ since_valid' \in [Wheels -> 0 .. MaxAge]
    BY <1>1, VirtualMotorAssumption DEF Apply, LastCommandAfter, TypeOK
<1> QED BY <1>2, <1>3 DEF Apply, executor, TypeOK

LEMMA TypeOKSendAck == ASSUME TypeOK, SendAck PROVE TypeOK'
<1>1. command[1] \in Command
    BY CommandInHand DEF SendAck
<1>2. sent' \in Seq(BusFrame)
    <2>1. Answer(command[1]) \in BusFrame
        BY <1>1, AckType DEF Answer
    <2> QED BY <2>1, ShortSequences DEF SendAck
<1> QED BY <1>2 DEF SendAck, executor, TypeOK

LEMMA TypeOKUpdateApply == ASSUME TypeOK, UpdateApply PROVE TypeOK'
<1>1. \A w \in Wheels : /\ motors[w] \in Motor /\ step \in Nat
                        /\ SinceLastCommand(w) \in Int
    BY VirtualMotorAssumption, SMT DEF TypeOK, SinceLastCommand
<1>2. motors' \in [Wheels -> Motor]
    BY <1>1, UpdateType DEF UpdateApply
<1>3. step' \in 0 .. MaxAge
    BY VirtualMotorAssumption DEF UpdateApply
<1> QED BY <1>2, <1>3 DEF UpdateApply, receiver, TypeOK

LEMMA DeliverSends ==
    ASSUME TypeOK, Deliver
    PROVE  delayed_frames' \in Seq(Delayed) /\ sent' \in Seq(Feedback \cup {ErrorFrame})
<1>1. delayed_frames \in Seq(Delayed) /\ delayed_frames # <<>>
    BY DEF Deliver, FrontIsDue, TypeOK
<1>2. Head(delayed_frames).frame \in Feedback \cup {ErrorFrame}
    <2>1. Head(delayed_frames) \in Delayed
        BY <1>1, HeadTailProperties
    <2> QED BY <2>1 DEF Delayed
<1>3. delayed_frames' \in Seq(Delayed)
    BY <1>1, HeadTailProperties DEF Deliver
<1>4. sent' \in Seq(Feedback \cup {ErrorFrame})
    BY <1>2, ShortSequences DEF Deliver
<1> QED BY <1>3, <1>4

LEMMA NoAckOnBus == Seq(Feedback \cup {ErrorFrame}) \subseteq Seq(BusFrame)
BY DEF BusFrame

LEMMA TypeOKDeliver == ASSUME TypeOK, Deliver PROVE TypeOK'
BY DeliverSends, NoAckOnBus DEF Deliver, receiver, TypeOK

LEMMA TypeOKPublishStart == ASSUME TypeOK, PublishStart PROVE TypeOK'
<1>1. Report(0) \in ReportRecord /\ Report(1) \in ReportRecord
    BY ReadingType DEF Report, ReportRecord, TypeOK, Wheels
<1>2. /\ snapshot' \in Seq(ReportRecord) /\ Len(snapshot') <= 2
      /\ snapshot' # <<>>
    BY <1>1 DEF PublishStart
<1> QED BY <1>2 DEF PublishStart, receiver, TypeOK, ReportRecord

LEMMA PublishSends ==
    ASSUME TypeOK, PublishWheel
    PROVE  delayed_frames' \in Seq(Delayed) /\ sent' \in Seq(Feedback \cup {ErrorFrame})
<1> DEFINE count == CountAfter(feedback_count)
           short == EveryN(MalformedFeedbackEveryN, count)
           frame == FeedbackFor(Head(snapshot), short)
<1>1. snapshot \in Seq(ReportRecord) /\ snapshot # <<>> /\ Len(snapshot) <= 2
    BY DEF TypeOK, PublishWheel, ReportRecord
<1>2. /\ Head(snapshot) \in ReportRecord /\ Tail(snapshot) \in Seq(ReportRecord)
      /\ Len(Tail(snapshot)) <= 2
    BY <1>1, HeadTailProperties
<1>3. short \in BOOLEAN
    BY DEF EveryN
<1>4. frame \in Feedback
    BY <1>2, <1>3, FeedbackType
<1> HIDE DEF short, frame
<1>5. sent' \in Seq(Feedback \cup {ErrorFrame})
    <2>1. frame \in Feedback \cup {ErrorFrame}
        BY <1>4
    <2>2. \/ sent' \in {<<>>, <<ErrorFrame>>}
          \/ \E e \in {<<>>, <<ErrorFrame>>}, f \in {<<>>, <<frame>>} : sent' = e \o f
        BY DEF PublishWheel, frame, short
    <2> QED BY <2>1, <2>2, ShortSequences
<1>6. delayed_frames' \in Seq(Delayed)
    <2>1. FeedbackDelay > 0 => [frame |-> frame, wait |-> FeedbackDelay] \in Delayed
        BY <1>4, VirtualMotorAssumption, SMT DEF Delayed
    <2>2. DelayedAfter(frame) =
              Append(delayed_frames, [frame |-> frame, wait |-> FeedbackDelay])
        BY DEF DelayedAfter
    <2>3. \/ delayed_frames' = delayed_frames
          \/ FeedbackDelay > 0 /\ delayed_frames' = DelayedAfter(frame)
        BY DEF PublishWheel, frame, short
    <2>4. delayed_frames \in Seq(Delayed)
        BY DEF TypeOK
    <2>5. ASSUME NEW d \in Delayed PROVE Append(delayed_frames, d) \in Seq(Delayed)
        BY <2>4
    <2> QED BY <2>1, <2>2, <2>3, <2>4, <2>5
<1> QED BY <1>5, <1>6

LEMMA TypeOKPublishWheel == ASSUME TypeOK, PublishWheel PROVE TypeOK'
<1>1. snapshot \in Seq(ReportRecord) /\ snapshot # <<>> /\ Len(snapshot) <= 2
    BY DEF TypeOK, PublishWheel, ReportRecord
<1>2. Tail(snapshot) \in Seq(ReportRecord) /\ Len(Tail(snapshot)) <= 2
    BY <1>1, HeadTailProperties
<1>3. feedback_count' \in 0 .. CountCycle - 1
    BY CountType, VirtualMotorAssumption, SMT DEF PublishWheel, TypeOK
<1>4. delayed_frames' \in Seq(Delayed) /\ sent' \in Seq(BusFrame)
    BY PublishSends, NoAckOnBus
<1>5. /\ snapshot' = Tail(snapshot)
      /\ ex' = IF Tail(snapshot) = <<>> THEN "idle" ELSE "publish"
      /\ UNCHANGED <<motors, last_command, receiver, elapsed, step, since_valid>>
    BY DEF PublishWheel
<1> QED BY <1>2, <1>3, <1>4, <1>5 DEF receiver, TypeOK, ReportRecord

LEMMA TypeOKTick == ASSUME TypeOK, Tick PROVE TypeOK'
<1>1. /\ last_command' \in [Wheels -> 0 .. MaxAge]
      /\ since_valid' \in [Wheels -> 0 .. MaxAge]
    BY OlderType DEF Tick, TypeOK
<1>2. elapsed' \in 0 .. MaxAge /\ (ex' \in {"update", "deliver"} => elapsed' <= MaxLag)
    BY OlderType DEF Tick, TypeOK
<1>3. delayed_frames' \in Seq(Delayed)
    <2>1. \A d \in Delayed : [d EXCEPT !.wait = Sooner(@)] \in Delayed
        BY VirtualMotorAssumption, SMT DEF Delayed, Sooner
    <2>2. \A i \in 1 .. Len(delayed_frames) :
              [delayed_frames[i] EXCEPT !.wait = Sooner(@)] \in Delayed
        BY <2>1 DEF TypeOK
    <2> QED BY <2>2 DEF Tick, TypeOK
<1>4. /\ sent' \in Seq(BusFrame)
      /\ UNCHANGED <<motors, rx, command, command_count, ex, step, snapshot, feedback_count>>
    BY DEF Tick, receiver
<1> QED BY <1>1, <1>2, <1>3, <1>4 DEF TypeOK

LEMMA TypeOKNext == ASSUME TypeOK, [Next]_vars PROVE TypeOK'
<1>1. ASSUME NEW c \in Commands, Receive(c) PROVE TypeOK'
    BY <1>1, TypeOKReceive
<1>2. CASE ReceiveFails
    BY <1>2 DEF ReceiveFails, executor, TypeOK
<1>3. CASE UpdateStart
    BY <1>3, VirtualMotorAssumption, SMT DEF UpdateStart, receiver, TypeOK
<1>4. CASE UpdateFinish
    BY <1>4 DEF UpdateFinish, receiver, TypeOK
<1>5. CASE UNCHANGED vars
    BY <1>5 DEF vars, receiver, executor, TypeOK
<1> QED BY <1>1, <1>2, <1>3, <1>4, <1>5, TypeOKApply, TypeOKSendAck, TypeOKUpdateApply,
           TypeOKDeliver, TypeOKPublishStart, TypeOKPublishWheel, TypeOKTick DEF Next

\* Every variable of the motor node keeps its range, and no velocity leaves
\* the range of the targets: MotorState::update never overshoots, however
\* late its timer is.
THEOREM MotorTypeCorrect == Spec => []TypeOK
BY TypeOKInit, TypeOKNext, PTL DEF Spec

-----------------------------------------------------------------------------
(***************************************************************************)
(* What the two threads agree on                                           *)
(*                                                                         *)
(* The watchdog reads last_command_, the property the history; an ACK is   *)
(* sent after the lock is given up, so its truth rests on what update()    *)
(* leaves of the command in hand.                                          *)
(***************************************************************************)
InForce(c, m) == c.payload = "good" => m.sequence = c.sequence /\ ~m.protocol_fault

Agreement ==
    /\ since_valid = last_command
    /\ rx = "ack" => InForce(command[1], motors[command[1].wheel])

MotorInv == TypeOK /\ TargetNeedsPermission /\ Agreement

LEMMA AdoptedPermission ==
    ASSUME NEW m \in Motor, NEW c \in Command,
           m.target # 0 => m.enabled /\ ~m.watchdog_stopped
    PROVE  LET n == Adopted(m, c) IN
           /\ n.target # 0 => n.enabled /\ ~n.watchdog_stopped
           /\ InForce(c, n)
BY DEF Adopted, SetProtocolFault, AcceptCommand, Disable, Motor, Command, InForce

LEMMA UpdatePermission ==
    ASSUME NEW m \in Motor, NEW dt, NEW since,
           m.target # 0 => m.enabled /\ ~m.watchdog_stopped
    PROVE  LET n == Update(m, dt, since) IN
           /\ n.target # 0 => n.enabled /\ ~n.watchdog_stopped
           /\ n.sequence = m.sequence /\ n.protocol_fault = m.protocol_fault
<1> DEFINE target == IF WatchdogExpired(m, since) THEN 0 ELSE m.target
           stopped == m.watchdog_stopped \/ WatchdogExpired(m, since)
           v == Approach(m.velocity, target, dt)
<1>1. Update(m, dt, since) =
        [m EXCEPT !.target = target, !.watchdog_stopped = stopped, !.velocity = v]
    BY DEF Update, Motor
<1>2. target # 0 => m.enabled /\ ~stopped
    OBVIOUS
<1> HIDE DEF target, stopped, v
<1> QED BY <1>1, <1>2 DEF Motor

LEMMA MotorInvInit == Init => MotorInv
<1>1. Init => TargetNeedsPermission /\ Agreement
    BY DEF Init, TargetNeedsPermission, Agreement, NewMotor
<1> QED BY <1>1, TypeOKInit DEF MotorInv

LEMMA MotorInvApply == ASSUME MotorInv, Apply PROVE TargetNeedsPermission' /\ Agreement'
<1> DEFINE c == command[1]
<1>1. c \in Command /\ c.wheel \in Wheels /\ command' = command
    BY CommandInHand DEF MotorInv, Apply, Command
<1>2. motors \in [Wheels -> Motor] /\ since_valid = last_command
    BY DEF MotorInv, TypeOK, Agreement
<1>3. motors' = [motors EXCEPT ![c.wheel] = Adopted(motors[c.wheel], c)]
    BY DEF Apply
<1>4. /\ Adopted(motors[c.wheel], c).target # 0 =>
             /\ Adopted(motors[c.wheel], c).enabled
             /\ ~Adopted(motors[c.wheel], c).watchdog_stopped
      /\ InForce(c, Adopted(motors[c.wheel], c))
    BY <1>1, <1>2, AdoptedPermission DEF MotorInv, TargetNeedsPermission
<1>5. since_valid' = last_command'
    BY <1>2 DEF Apply, LastCommandAfter
<1> HIDE DEF c
<1>6. TargetNeedsPermission'
    BY <1>1, <1>2, <1>3, <1>4 DEF MotorInv, TargetNeedsPermission
<1>7. InForce(c, motors'[c.wheel])
    BY <1>1, <1>2, <1>3, <1>4
<1> QED BY <1>1, <1>5, <1>6, <1>7 DEF Agreement, c

LEMMA MotorInvUpdate ==
    ASSUME MotorInv, UpdateApply PROVE TargetNeedsPermission' /\ Agreement'
<1>1. ASSUME NEW w \in Wheels
      PROVE  /\ motors'[w].target # 0 =>
                    motors'[w].enabled /\ ~motors'[w].watchdog_stopped
             /\ motors'[w].sequence = motors[w].sequence
             /\ motors'[w].protocol_fault = motors[w].protocol_fault
    <2>1. motors[w] \in Motor
        BY DEF MotorInv, TypeOK
    <2>2. motors'[w] = Update(motors[w], step, SinceLastCommand(w))
        BY DEF UpdateApply
    <2> QED BY <2>1, <2>2, UpdatePermission DEF MotorInv, TargetNeedsPermission
<1>2. rx = "ack" => command[1].wheel \in Wheels
    BY CommandInHand DEF MotorInv, Command
<1>3. UNCHANGED <<rx, command, last_command, since_valid>>
    BY DEF UpdateApply, receiver
<1> QED BY <1>1, <1>2, <1>3 DEF MotorInv, TargetNeedsPermission, Agreement, InForce

LEMMA MotorInvNext == ASSUME MotorInv, [Next]_vars PROVE MotorInv'
<1>1. TypeOK'
    BY TypeOKNext DEF MotorInv
<1>2. CASE Apply
    BY <1>1, <1>2, MotorInvApply DEF MotorInv
<1>3. CASE UpdateApply
    BY <1>1, <1>3, MotorInvUpdate DEF MotorInv
<1>4. CASE Tick
    BY <1>1, <1>4 DEF Tick, receiver, MotorInv, TargetNeedsPermission, Agreement
<1>5. ASSUME \/ \E c \in Commands : Receive(c)
             \/ SendAck \/ ReceiveFails
      PROVE  MotorInv'
    <2>1. /\ rx' # "ack"
          /\ UNCHANGED <<motors, last_command, since_valid>>
        BY <1>5 DEF Receive, SendAck, ReceiveFails
    <2> QED BY <1>1, <2>1 DEF MotorInv, TargetNeedsPermission, Agreement
<1>6. ASSUME \/ UpdateStart \/ Deliver \/ UpdateFinish \/ PublishStart \/ PublishWheel
             \/ UNCHANGED vars
      PROVE  MotorInv'
    <2>1. UNCHANGED <<motors, last_command, since_valid, rx, command>>
        BY <1>6 DEF UpdateStart, Deliver, UpdateFinish, PublishStart, PublishWheel,
                    receiver, vars
    <2> QED BY <1>1, <2>1 DEF MotorInv, TargetNeedsPermission, Agreement
<1> QED BY <1>2, <1>3, <1>4, <1>5, <1>6 DEF Next

LEMMA MotorInvariant == Spec => []MotorInv
BY MotorInvInit, MotorInvNext, PTL DEF Spec

\* A motor has somewhere to go only while it is enabled and not stopped by
\* its watchdog, whichever thread wrote it last.
THEOREM PermissionNeeded == Spec => []TargetNeedsPermission
BY MotorInvariant, PTL DEF MotorInv

\* The watchdog does not stop a motor early: the clock value that update()
\* took before it waited for the lock only makes a command look younger.
THEOREM WatchdogPatient == Spec => WatchdogNeverEarly
<1>1. ASSUME MotorInv, [Next]_vars, NEW w \in Wheels,
             ~motors[w].watchdog_stopped, motors'[w].watchdog_stopped
      PROVE  since_valid[w] > motors[w].watchdog
    <2>1. motors[w] \in Motor
        BY <1>1 DEF MotorInv, TypeOK
    <2>2. CASE Apply
        <3>1. command[1] \in Command /\ command[1].wheel \in Wheels
            BY <1>1, <2>2, CommandInHand DEF MotorInv, Apply, Command
        <3>2. ~Adopted(motors[w], command[1]).watchdog_stopped
            BY <1>1, <2>1 DEF Adopted, SetProtocolFault, AcceptCommand, Disable, Motor
        <3>3. motors'[w] \in {motors[w], Adopted(motors[w], command[1])}
            BY <1>1, <2>2, <3>1 DEF Apply, MotorInv, TypeOK
        <3> QED BY <1>1, <3>2, <3>3
    <2>3. CASE UpdateApply
        <3>1. motors'[w] = Update(motors[w], step, SinceLastCommand(w))
            BY <2>3 DEF UpdateApply
        <3>2. WatchdogExpired(motors[w], SinceLastCommand(w))
            BY <1>1, <2>1, <3>1, Zenon DEF Update, Motor
        <3>3. /\ last_command[w] \in 0 .. MaxAge /\ elapsed \in 0 .. MaxAge
              /\ since_valid[w] = last_command[w]
            BY <1>1 DEF MotorInv, TypeOK, Agreement
        <3>4. motors[w].watchdog \in Nat
            BY <2>1, MotorAssumption DEF Motor
        <3> QED BY <3>2, <3>3, <3>4, VirtualMotorAssumption, SMT DEF WatchdogExpired, SinceLastCommand
    <2>4. CASE ~Apply /\ ~UpdateApply
        <3>1. UNCHANGED motors
            BY <1>1, <2>4 DEF Next, vars, Receive, SendAck, ReceiveFails, UpdateStart,
                Deliver, UpdateFinish, PublishStart, PublishWheel, Tick
        <3> QED BY <1>1, <3>1
    <2> QED BY <2>2, <2>3, <2>4
<1>2. ASSUME MotorInv, [Next]_vars
      PROVE  \A w \in Wheels : ~motors[w].watchdog_stopped /\ motors'[w].watchdog_stopped
                 => since_valid[w] > motors[w].watchdog
    BY <1>1, <1>2
<1> QED BY <1>2, MotorInvariant, PTL DEF Spec, WatchdogNeverEarly

\* An ACK with result 0 is about the command that is in force, although it
\* is sent after the lock was given up: only update() runs in between.
THEOREM AckTruthful == Spec => AckTellsTruth
<1>1. ASSUME MotorInv, MotorInv', Next,
             NEW i \in 1 .. Len(sent'), sent'[i].kind = "ack", sent'[i].result = 0
      PROVE  LET a == sent'[i] IN /\ motors[a.wheel].sequence = a.sequence
                                 /\ ~motors[a.wheel].protocol_fault
    <2>1. CASE SendAck
        <3>1. command[1] \in Command /\ rx = "ack"
            BY <1>1, <2>1, CommandInHand DEF MotorInv, SendAck
        <3>2. sent'[i] = Answer(command[1])
            BY <1>1, <2>1 DEF SendAck
        <3>3. command[1].payload = "good"
            BY <1>1, <3>1, <3>2 DEF Answer, AckFor, AckResult, Command
        <3> QED BY <1>1, <3>1, <3>2, <3>3
                DEF MotorInv, Agreement, InForce, Answer, AckFor
    <2>2. CASE ~SendAck
        <3>1. \/ sent' = <<>> \/ Deliver \/ PublishWheel
            BY <1>1, <2>2 DEF Next, Receive, Apply, ReceiveFails, UpdateStart,
                UpdateApply, UpdateFinish, PublishStart, Tick
        <3>2. sent' \in Seq(Feedback \cup {ErrorFrame})
            BY <1>1, <3>1, DeliverSends, PublishSends, ShortSequences DEF MotorInv
        <3>3. sent'[i] \in Feedback \cup {ErrorFrame}
            BY <1>1, <3>2
        <3> QED BY <1>1, <3>3 DEF Feedback, ErrorFrame
    <2> QED BY <2>1, <2>2
<1>2. ASSUME MotorInv, MotorInv', Next
      PROVE  \A i \in 1 .. Len(sent') :
                 LET a == sent'[i] IN
                 a.kind = "ack" /\ a.result = 0 =>
                     /\ motors[a.wheel].sequence = a.sequence
                     /\ ~motors[a.wheel].protocol_fault
    BY <1>1, <1>2
<1> QED BY <1>2, MotorInvariant, PTL DEF Spec, AckTellsTruth

-----------------------------------------------------------------------------
(***************************************************************************)
(* The delayed feedback                                                    *)
(*                                                                         *)
(* update() stops at the first frame that is not due.  No frame behind it  *)
(* is due either, because the queue is in the order of the due times: all  *)
(* frames wait equally long, and they age together.                        *)
(***************************************************************************)
InOrder(q) == \A i, j \in 1 .. Len(q) : i <= j => q[i].wait <= q[j].wait

QueueInv == TypeOK /\ InOrder(delayed_frames)

LEMMA AppendInOrder ==
    ASSUME NEW q \in Seq(Delayed), InOrder(q), NEW frame
    PROVE  InOrder(Append(q, [frame |-> frame, wait |-> FeedbackDelay]))
<1> DEFINE last == [frame |-> frame, wait |-> FeedbackDelay]
           r == Append(q, last)
<1>1. /\ Len(q) \in Nat /\ Len(r) = Len(q) + 1
      /\ \A i \in 1 .. Len(q) : r[i] = q[i] /\ q[i] \in Delayed
      /\ r[Len(q) + 1] = last
    OBVIOUS
<1>2. \A i \in 1 .. Len(q) : q[i].wait \in -MaxLag .. FeedbackDelay
    BY <1>1 DEF Delayed
<1>3. last.wait = FeedbackDelay /\ FeedbackDelay \in Nat
    BY VirtualMotorAssumption
<1> HIDE DEF r, last
<1>4. ASSUME NEW i \in 1 .. Len(r), NEW j \in 1 .. Len(r), i <= j
      PROVE  r[i].wait <= r[j].wait
    <2>1. CASE j <= Len(q)
        <3>1. i \in 1 .. Len(q) /\ j \in 1 .. Len(q)
            BY <1>1, <1>4, <2>1
        <3> QED BY <1>1, <1>4, <3>1 DEF InOrder
    <2>2. CASE j > Len(q) /\ i <= Len(q)
        <3>1. i \in 1 .. Len(q) /\ j = Len(q) + 1
            BY <1>1, <1>4, <2>2
        <3> QED BY <1>1, <1>2, <1>3, <3>1, VirtualMotorAssumption
    <2>3. CASE j > Len(q) /\ i > Len(q)
        <3>1. i = Len(q) + 1 /\ j = Len(q) + 1
            BY <1>1, <1>4, <2>3
        <3> QED BY <1>1, <1>3, <3>1
    <2> QED BY <1>1, <2>1, <2>2, <2>3
<1> QED BY <1>4 DEF InOrder, r, last

LEMMA TailInOrder ==
    ASSUME NEW q \in Seq(Delayed), q # <<>>, InOrder(q) PROVE InOrder(Tail(q))
<1>1. /\ Len(q) \in Nat /\ Len(Tail(q)) = Len(q) - 1
      /\ \A i \in 1 .. Len(q) - 1 : Tail(q)[i] = q[i + 1]
    OBVIOUS
<1>2. ASSUME NEW i \in 1 .. Len(q) - 1, NEW j \in 1 .. Len(q) - 1, i <= j
      PROVE  q[i + 1].wait <= q[j + 1].wait
    <2>1. i + 1 \in 1 .. Len(q) /\ j + 1 \in 1 .. Len(q) /\ i + 1 <= j + 1
        BY <1>1, <1>2
    <2> QED BY <2>1 DEF InOrder
<1> QED BY <1>1, <1>2 DEF InOrder

LEMMA QueueInvTick == ASSUME QueueInv, Tick PROVE InOrder(delayed_frames')
<1>1. /\ Len(delayed_frames) \in Nat /\ Len(delayed_frames') = Len(delayed_frames)
      /\ \A i \in 1 .. Len(delayed_frames) :
             /\ delayed_frames[i] \in Delayed
             /\ delayed_frames'[i] =
                    [delayed_frames[i] EXCEPT !.wait = Sooner(delayed_frames[i].wait)]
    BY DEF Tick, QueueInv, TypeOK
<1>2. \A i \in 1 .. Len(delayed_frames) :
          /\ delayed_frames'[i].wait = Sooner(delayed_frames[i].wait)
          /\ delayed_frames[i].wait \in -MaxLag .. FeedbackDelay
    BY <1>1 DEF Delayed
<1>3. \A a, b \in -MaxLag .. FeedbackDelay : a <= b => Sooner(a) <= Sooner(b)
    BY VirtualMotorAssumption, SMT DEF Sooner
<1> QED BY <1>1, <1>2, <1>3 DEF QueueInv, InOrder

LEMMA QueueInvNext == ASSUME QueueInv, [Next]_vars PROVE QueueInv'
<1>1. TypeOK' /\ delayed_frames \in Seq(Delayed)
    BY TypeOKNext DEF QueueInv, TypeOK
<1>2. CASE Tick
    BY <1>1, <1>2, QueueInvTick DEF QueueInv
<1>3. CASE Deliver
    BY <1>1, <1>3, TailInOrder DEF QueueInv, Deliver, FrontIsDue
<1>4. CASE PublishWheel
    <2>1. \/ delayed_frames' = delayed_frames
          \/ \E frame : delayed_frames' = DelayedAfter(frame)
        BY <1>4 DEF PublishWheel
    <2> QED BY <1>1, <2>1, AppendInOrder DEF QueueInv, DelayedAfter
<1>5. CASE ~Tick /\ ~Deliver /\ ~PublishWheel
    <2>1. UNCHANGED delayed_frames
        BY <1>5 DEF Next, vars, executor, Receive, Apply, SendAck, ReceiveFails,
            UpdateStart, UpdateApply, UpdateFinish, PublishStart
    <2> QED BY <1>1, <2>1 DEF QueueInv
<1> QED BY <1>2, <1>3, <1>4, <1>5

\* update() leaves no delayed feedback behind that was due when it started.
THEOREM OverdueLeaves == Spec => OverdueFeedbackLeaves
<1>1. Init => QueueInv
    BY TypeOKInit DEF Init, QueueInv, InOrder
<1>2. ASSUME QueueInv, Next, ex = "deliver", ex' = "idle",
             NEW i \in 1 .. Len(delayed_frames)
      PROVE  delayed_frames[i].wait > -elapsed
    <2>1. ~FrontIsDue
        BY <1>2 DEF Next, executor, Receive, Apply, SendAck, ReceiveFails, UpdateStart,
            UpdateApply, UpdateFinish, Deliver, PublishStart, PublishWheel, Tick
    <2>2. /\ delayed_frames \in Seq(Delayed) /\ delayed_frames # <<>>
          /\ 1 \in 1 .. Len(delayed_frames) /\ 1 <= i
          /\ Head(delayed_frames) = delayed_frames[1]
        BY <1>2 DEF QueueInv, TypeOK
    <2>3. delayed_frames[1].wait <= delayed_frames[i].wait
        BY <1>2, <2>2 DEF QueueInv, InOrder
    <2>4. delayed_frames[1] \in Delayed /\ delayed_frames[i] \in Delayed
        BY <2>2
    <2>5. /\ delayed_frames[1].wait \in Int /\ delayed_frames[i].wait \in Int
          /\ elapsed \in Int
        BY <1>2, <2>4, VirtualMotorAssumption DEF Delayed, QueueInv, TypeOK
    <2> QED BY <2>1, <2>2, <2>3, <2>5, SMT DEF FrontIsDue
<1>3. ASSUME QueueInv, Next
      PROVE  ex = "deliver" /\ ex' = "idle" =>
                 \A i \in 1 .. Len(delayed_frames) : delayed_frames[i].wait > -elapsed
    BY <1>2, <1>3
<1> QED BY <1>1, <1>3, QueueInvNext, PTL DEF Spec, OverdueFeedbackLeaves

-----------------------------------------------------------------------------
(***************************************************************************)
(* The contract with the bus                                               *)
(*                                                                         *)
(* The node implements MotorContract.  What the readers of the bus are     *)
(* owed is spread over two places: the readings in the delay queue are     *)
(* older than those that publish_feedback still has in hand.               *)
(***************************************************************************)
Queued(q) ==
    [i \in 1 .. Len(q) |-> [ wheel   |-> q[i].frame.wheel,
                             reading |-> q[i].frame.reading ]]

Reports == Queued(delayed_frames) \o snapshot

LEMMA FeedbackReports ==
    ASSUME NEW f \in Feedback
    PROVE  LET r == [wheel |-> f.wheel, reading |-> f.reading] IN
           r \in ReportRecord /\ f = FeedbackFor(r, f.short)
BY DEF Feedback, FeedbackFor, ReportRecord

LEMMA QueuedType ==
    ASSUME NEW q \in Seq(Delayed)
    PROVE  Queued(q) \in Seq(ReportRecord) /\ Len(Queued(q)) = Len(q)
<1>1. \A i \in 1 .. Len(q) : q[i].frame \in Feedback
    <2>1. \A i \in 1 .. Len(q) : q[i] \in Delayed
        BY ElementOfSeq
    <2> QED BY <2>1 DEF Delayed
<1>2. \A i \in 1 .. Len(q) : Queued(q)[i] \in ReportRecord
    BY <1>1, FeedbackReports DEF Queued
<1>3. Len(q) \in Nat /\ Queued(q) = [i \in 1 .. Len(q) |-> Queued(q)[i]]
    BY LenProperties DEF Queued
<1> QED BY <1>2, <1>3, IsASeq

LEMMA QueuedEmpty == Queued(<<>>) = <<>>
BY DEF Queued

LEMMA QueuedHead ==
    ASSUME NEW q \in Seq(Delayed), q # <<>>
    PROVE  /\ Queued(q) # <<>>
           /\ Tail(Queued(q)) = Queued(Tail(q))
           /\ Head(q).frame = FeedbackFor(Head(Queued(q)), Head(q).frame.short)
           /\ Head(q).frame.short \in BOOLEAN
<1>1. Queued(q) \in Seq(ReportRecord) /\ Len(Queued(q)) = Len(q)
    BY QueuedType
<1>2. Len(q) \in Nat /\ Len(q) > 0 /\ Head(q) = q[1] /\ q[1] \in Delayed
    OBVIOUS
<1>3. Queued(q) # <<>>
    BY <1>1, <1>2
<1>4. /\ Tail(q) \in Seq(Delayed) /\ Len(Tail(q)) = Len(q) - 1
      /\ \A i \in 1 .. Len(Tail(q)) : Tail(q)[i] = q[i + 1]
    BY HeadTailProperties
<1>5. /\ Tail(Queued(q)) \in Seq(ReportRecord) /\ Len(Tail(Queued(q))) = Len(q) - 1
      /\ \A i \in 1 .. Len(q) - 1 : Tail(Queued(q))[i] = Queued(q)[i + 1]
    BY <1>1, <1>3, HeadTailProperties
<1>6. Queued(Tail(q)) \in Seq(ReportRecord) /\ Len(Queued(Tail(q))) = Len(q) - 1
    BY <1>4, QueuedType
<1>7. ASSUME NEW i \in 1 .. Len(q) - 1 PROVE Queued(Tail(q))[i] = Queued(q)[i + 1]
    <2>1. i \in 1 .. Len(Tail(q)) /\ i + 1 \in 1 .. Len(q) /\ Tail(q)[i] = q[i + 1]
        BY <1>2, <1>4
    <2> QED BY <2>1 DEF Queued
<1>8. Tail(Queued(q)) = Queued(Tail(q))
    BY <1>5, <1>6, <1>7, SeqEqual
<1>9. Head(Queued(q)) = Queued(q)[1] /\ 1 \in 1 .. Len(q)
    BY <1>1, <1>2, <1>3
<1>10. Queued(q)[1] = [wheel |-> q[1].frame.wheel, reading |-> q[1].frame.reading]
    BY <1>9 DEF Queued
<1>11. q[1].frame \in Feedback
    BY <1>2 DEF Delayed
<1>12. Head(q).frame.short \in BOOLEAN
    BY <1>2, <1>11 DEF Feedback
<1> QED BY <1>2, <1>3, <1>8, <1>9, <1>10, <1>11, <1>12, FeedbackReports

LEMMA QueuedAppend ==
    ASSUME NEW q \in Seq(Delayed), NEW d \in Delayed
    PROVE  Queued(Append(q, d)) =
               Append(Queued(q), [wheel |-> d.frame.wheel, reading |-> d.frame.reading])
<1> DEFINE r == [wheel |-> d.frame.wheel, reading |-> d.frame.reading]
           left == Queued(Append(q, d))
           right == Append(Queued(q), r)
<1>1. r \in ReportRecord
    BY FeedbackReports DEF Delayed
<1>2. /\ Append(q, d) \in Seq(Delayed) /\ Len(Append(q, d)) = Len(q) + 1
      /\ \A i \in 1 .. Len(q) : Append(q, d)[i] = q[i]
      /\ Append(q, d)[Len(q) + 1] = d /\ Len(q) \in Nat
    BY AppendProperties, LenProperties
<1>3. left \in Seq(ReportRecord) /\ Len(left) = Len(q) + 1
    BY <1>2, QueuedType
<1>4. /\ right \in Seq(ReportRecord) /\ Len(right) = Len(q) + 1
      /\ \A i \in 1 .. Len(q) : right[i] = Queued(q)[i]
      /\ right[Len(q) + 1] = r
    BY <1>1, QueuedType, AppendProperties
<1>5. \A i \in 1 .. Len(q) : left[i] = Queued(q)[i]
    BY <1>2 DEF Queued
<1>6. left[Len(q) + 1] = r
    BY <1>2 DEF Queued
<1> HIDE DEF left, right
<1>7. \A i \in 1 .. Len(q) + 1 : left[i] = right[i]
    BY <1>2, <1>4, <1>5, <1>6
<1>8. left = right
    BY <1>3, <1>4, <1>7, SeqEqual
<1> QED BY <1>8 DEF left, right

\* What leaves a sequence that is put together from two.
LEMMA ConcatHead ==
    ASSUME NEW S, NEW a \in Seq(S), NEW s \in Seq(S), a # <<>>
    PROVE  a \o s # <<>> /\ Head(a \o s) = Head(a) /\ Tail(a \o s) = Tail(a) \o s
<1>1. /\ a \o s \in Seq(S) /\ Len(a \o s) = Len(a) + Len(s)
      /\ \A i \in 1 .. Len(a) + Len(s) :
             (a \o s)[i] = IF i <= Len(a) THEN a[i] ELSE s[i - Len(a)]
    BY ConcatProperties
<1>2. Len(a) \in Nat /\ Len(s) \in Nat /\ Len(a) > 0 /\ Head(a) = a[1]
    OBVIOUS
<1>3. a \o s # <<>>
    BY <1>1, <1>2
<1>4. /\ Tail(a) \in Seq(S) /\ Len(Tail(a)) = Len(a) - 1
      /\ \A i \in 1 .. Len(a) - 1 : Tail(a)[i] = a[i + 1]
    BY HeadTailProperties
<1>5. /\ Tail(a \o s) \in Seq(S) /\ Len(Tail(a \o s)) = Len(a) + Len(s) - 1
      /\ \A i \in 1 .. Len(a) + Len(s) - 1 : Tail(a \o s)[i] = (a \o s)[i + 1]
    BY <1>1, <1>3, HeadTailProperties
<1>6. /\ Tail(a) \o s \in Seq(S) /\ Len(Tail(a) \o s) = Len(a) - 1 + Len(s)
      /\ \A i \in 1 .. Len(a) - 1 + Len(s) :
             (Tail(a) \o s)[i] =
                 IF i <= Len(a) - 1 THEN Tail(a)[i] ELSE s[i - (Len(a) - 1)]
    BY <1>4, ConcatProperties
<1>7. ASSUME NEW i \in 1 .. Len(a) + Len(s) - 1
      PROVE  Tail(a \o s)[i] = (Tail(a) \o s)[i]
    <2>1. CASE i <= Len(a) - 1
        <3>1. i + 1 \in 1 .. Len(a) + Len(s) /\ i + 1 <= Len(a) /\ i \in 1 .. Len(a) - 1
            BY <1>2, <2>1
        <3> QED BY <1>1, <1>2, <1>4, <1>5, <1>6, <2>1, <3>1
    <2>2. CASE ~(i <= Len(a) - 1)
        <3>1. /\ i + 1 \in 1 .. Len(a) + Len(s) /\ ~(i + 1 <= Len(a))
              /\ i + 1 - Len(a) = i - (Len(a) - 1)
            BY <1>2, <2>2
        <3> QED BY <1>1, <1>2, <1>5, <1>6, <2>2, <3>1
    <2> QED BY <2>1, <2>2
<1>8. Len(Tail(a \o s)) = Len(Tail(a) \o s)
    BY <1>2, <1>5, <1>6
<1>9. Tail(a \o s) = Tail(a) \o s
    BY <1>2, <1>5, <1>6, <1>7, <1>8, SeqEqual
<1>10. Head(a \o s) = (a \o s)[1] /\ 1 \in 1 .. Len(a) + Len(s) /\ 1 <= Len(a)
    BY <1>1, <1>2, <1>3
<1> QED BY <1>1, <1>2, <1>3, <1>9, <1>10

LEMMA HeadMoves ==
    ASSUME NEW S, NEW a \in Seq(S), NEW s \in Seq(S), s # <<>>
    PROVE  Append(a, Head(s)) \o Tail(s) = a \o s
<1>1. Head(s) \in S /\ Tail(s) \in Seq(S) /\ <<Head(s)>> \in Seq(S)
    BY HeadTailProperties
<1>2. <<Head(s)>> \o Tail(s) = s
    <2> DEFINE h == <<Head(s)>>
    <2>1. /\ h \o Tail(s) \in Seq(S) /\ Len(h) = 1 /\ h[1] = Head(s)
          /\ Len(h \o Tail(s)) = Len(h) + Len(Tail(s))
          /\ \A i \in 1 .. Len(h) + Len(Tail(s)) :
                 (h \o Tail(s))[i] = IF i <= Len(h) THEN h[i] ELSE Tail(s)[i - Len(h)]
        BY <1>1, ConcatProperties
    <2>2. /\ Len(s) \in Nat /\ Len(Tail(s)) = Len(s) - 1 /\ Head(s) = s[1]
          /\ \A i \in 1 .. Len(s) - 1 : Tail(s)[i] = s[i + 1]
        BY HeadTailProperties
    <2> HIDE DEF h
    <2>3. ASSUME NEW i \in 1 .. Len(s) PROVE (h \o Tail(s))[i] = s[i]
        <3>1. CASE i = 1
            BY <2>1, <2>2, <3>1
        <3>2. CASE i > 1
            <4>1. i - 1 \in 1 .. Len(s) - 1 /\ (i - 1) + 1 = i /\ ~(i <= 1)
                BY <2>2, <3>2
            <4>2. Tail(s)[i - 1] = s[i]
                BY <2>2, <4>1
            <4> QED BY <2>1, <2>2, <4>1, <4>2
        <3>3. i = 1 \/ i > 1
            OBVIOUS
        <3> QED BY <3>1, <3>2, <3>3
    <2>4. h \o Tail(s) = s
        BY <2>1, <2>2, <2>3, SeqEqual
    <2> QED BY <2>4 DEF h
<1>3. Append(a, Head(s)) = a \o <<Head(s)>>
    BY <1>1, AppendIsConcat
<1>4. (a \o <<Head(s)>>) \o Tail(s) = a \o (<<Head(s)>> \o Tail(s))
    BY <1>1, ConcatAssociative
<1> QED BY <1>2, <1>3, <1>4

LEMMA HeadGivenUp ==
    ASSUME NEW S, NEW a \in Seq(S), NEW s \in Seq(S), s # <<>>
    PROVE  \E i \in 1 .. Len(a \o s) :
               a \o Tail(s) =
                   SubSeq(a \o s, 1, i - 1) \o SubSeq(a \o s, i + 1, Len(a \o s))
<1> DEFINE i == Len(a) + 1
           r == a \o s
<1>1. /\ r \in Seq(S) /\ Len(r) = Len(a) + Len(s)
      /\ \A j \in 1 .. Len(a) + Len(s) : r[j] = IF j <= Len(a) THEN a[j] ELSE s[j - Len(a)]
    BY ConcatProperties
<1>2. Len(a) \in Nat /\ Len(s) \in Nat /\ Len(s) > 0
    OBVIOUS
<1>3. \A j \in 1 .. Len(r) : r[j] \in S
    BY <1>1, ElementOfSeq
<1> HIDE DEF r
<1>4. i \in 1 .. Len(r) /\ i - 1 = Len(a)
    BY <1>1, <1>2
<1>5. SubSeq(r, 1, Len(a)) = a
    <2>1. /\ SubSeq(r, 1, Len(a)) \in Seq(S)
          /\ Len(SubSeq(r, 1, Len(a))) = Len(a)
          /\ \A j \in 1 .. Len(a) : SubSeq(r, 1, Len(a))[j] = r[1 + j - 1]
        <3>1. \A j \in 1 .. Len(a) : r[j] \in S
            BY <1>1, <1>2, <1>3
        <3>2. /\ SubSeq(r, 1, Len(a)) \in Seq(S)
              /\ Len(SubSeq(r, 1, Len(a))) = IF 1 <= Len(a) THEN Len(a) - 1 + 1 ELSE 0
              /\ \A j \in 1 .. Len(a) - 1 + 1 : SubSeq(r, 1, Len(a))[j] = r[1 + j - 1]
            BY <1>2, <3>1, SubSeqProperties
        <3> QED BY <1>2, <3>2
    <2>2. \A j \in 1 .. Len(a) : SubSeq(r, 1, Len(a))[j] = a[j]
        BY <1>1, <1>2, <2>1
    <2> QED BY <2>1, <2>2, SeqEqual
<1>6. SubSeq(r, i + 1, Len(r)) = Tail(s)
    <2> DEFINE t == SubSeq(r, i + 1, Len(r))
    <2>1. /\ t \in Seq(S) /\ Len(t) = Len(s) - 1
          /\ \A j \in 1 .. Len(s) - 1 : t[j] = r[(i + 1) + j - 1]
        <3>1. \A j \in i + 1 .. Len(r) : r[j] \in S
            BY <1>1, <1>2, <1>3
        <3>2. /\ t \in Seq(S)
              /\ Len(t) = IF i + 1 <= Len(r) THEN Len(r) - (i + 1) + 1 ELSE 0
              /\ \A j \in 1 .. Len(r) - (i + 1) + 1 : t[j] = r[(i + 1) + j - 1]
            <4>1. i + 1 \in Int /\ Len(r) \in Int
                BY <1>1, <1>2
            <4> HIDE DEF i
            <4> QED BY <3>1, <4>1, SubSeqProperties
        <3>3. Len(r) - (i + 1) + 1 = Len(s) - 1
            BY <1>1, <1>2
        <3>4. i + 1 <= Len(r) <=> 1 <= Len(s) - 1
            BY <1>1, <1>2
        <3> HIDE DEF i, t
        <3>5. Len(t) = Len(s) - 1
            BY <1>2, <3>2, <3>3, <3>4
        <3> QED BY <3>2, <3>3, <3>5
    <2> HIDE DEF t
    <2>2. /\ Tail(s) \in Seq(S) /\ Len(Tail(s)) = Len(s) - 1
          /\ \A j \in 1 .. Len(s) - 1 : Tail(s)[j] = s[j + 1]
        BY HeadTailProperties
    <2>3. ASSUME NEW j \in 1 .. Len(s) - 1 PROVE t[j] = Tail(s)[j]
        <3>1. /\ (i + 1) + j - 1 \in 1 .. Len(a) + Len(s)
              /\ ~((i + 1) + j - 1 <= Len(a)) /\ (i + 1) + j - 1 - Len(a) = j + 1
            BY <1>2
        <3>2. t[j] = r[(i + 1) + j - 1]
            BY <2>1
        <3>3. r[(i + 1) + j - 1] = s[j + 1]
            BY <1>1, <3>1
        <3> QED BY <2>2, <3>2, <3>3
    <2>4. t = Tail(s)
        BY <2>1, <2>2, <2>3, SeqEqual
    <2> QED BY <2>4 DEF t
<1>7. a \o Tail(s) = SubSeq(r, 1, i - 1) \o SubSeq(r, i + 1, Len(r))
    BY <1>4, <1>5, <1>6
<1> HIDE DEF i
<1> QED BY <1>4, <1>7 DEF r

-----------------------------------------------------------------------------
\* Without a delay publish_feedback sends at once and nothing is queued.
UndelayedQueueIsEmpty == FeedbackDelay = 0 => delayed_frames = <<>>

LEMMA UndelayedNext ==
    ASSUME UndelayedQueueIsEmpty, [Next]_vars PROVE UndelayedQueueIsEmpty'
<1>1. CASE Tick
    BY <1>1 DEF Tick, UndelayedQueueIsEmpty
<1>2. CASE Deliver
    BY <1>2 DEF Deliver, FrontIsDue, UndelayedQueueIsEmpty
<1>3. CASE PublishWheel
    <2>1. FeedbackDelay = 0 => UNCHANGED delayed_frames
        BY <1>3 DEF PublishWheel
    <2> QED BY <2>1 DEF UndelayedQueueIsEmpty
<1>4. CASE ~Tick /\ ~Deliver /\ ~PublishWheel
    <2>1. UNCHANGED delayed_frames
        BY <1>4 DEF Next, vars, executor, Receive, Apply, SendAck, ReceiveFails,
            UpdateStart, UpdateApply, UpdateFinish, PublishStart
    <2> QED BY <2>1 DEF UndelayedQueueIsEmpty
<1> QED BY <1>1, <1>2, <1>3, <1>4

BusInv == TypeOK /\ UndelayedQueueIsEmpty

LEMMA BusInvariant == Spec => []BusInv
<1>1. Init => UndelayedQueueIsEmpty
    BY DEF Init, UndelayedQueueIsEmpty
<1>2. Spec => []UndelayedQueueIsEmpty
    BY <1>1, UndelayedNext, PTL DEF Spec
<1> QED BY <1>2, MotorTypeCorrect, PTL DEF BusInv

\* The motors of the contract are the motors of the node.
LEMMA SameMotors ==
    /\ \A m, c : Contract!Adopted(m, c) = Adopted(m, c)
    /\ \A m, dt, since : Contract!Update(m, dt, since) = Update(m, dt, since)
    /\ \A m : Contract!ReadingOf(m) = ReadingOf(m)
    /\ \A c : Contract!AckFor(c, Contract!AckResult(c)) = Answer(c)
    /\ \A r, short : Contract!FeedbackFor(r, short) = FeedbackFor(r, short)
    /\ \A age : Contract!Older(age) = Older(age)
    /\ Contract!NewMotor = NewMotor /\ Contract!Wheels = Wheels
    /\ Contract!ErrorFrame = ErrorFrame
<1>1. \A m, c : Contract!Adopted(m, c) = Adopted(m, c)
    BY DEF Contract!Adopted, Contract!SetProtocolFault, Contract!AcceptCommand,
        Contract!Disable, Adopted, SetProtocolFault, AcceptCommand, Disable
<1>2. \A m, dt, since : Contract!Update(m, dt, since) = Update(m, dt, since)
    BY DEF Contract!Update, Contract!WatchdogExpired, Contract!Approach, Contract!Clamp,
        Update, WatchdogExpired, Approach, Clamp
<1>3. \A m : Contract!ReadingOf(m) = ReadingOf(m)
    BY DEF Contract!ReadingOf, Contract!Status, ReadingOf, Status
<1>4. \A c : Contract!AckFor(c, Contract!AckResult(c)) = Answer(c)
    BY DEF Contract!AckFor, Contract!AckResult, Answer, AckFor, AckResult
<1>5. \A r, short : Contract!FeedbackFor(r, short) = FeedbackFor(r, short)
    BY DEF Contract!FeedbackFor, FeedbackFor
<1>6. /\ \A age : Contract!Older(age) = Older(age)
      /\ Contract!NewMotor = NewMotor /\ Contract!Wheels = Wheels
      /\ Contract!ErrorFrame = ErrorFrame
    BY DEF Contract!Older, Older, Contract!NewMotor, NewMotor, Contract!Wheels, Wheels,
        Contract!ErrorFrame, ErrorFrame
<1> QED BY <1>1, <1>2, <1>3, <1>4, <1>5, <1>6

Owed == IF rx = "ack" THEN command ELSE <<>>

\* The actions of the contract, in the words of the node.
LEMMA MapsObey ==
    ASSUME NEW c \in Commands, Owed = <<>>, Owed' = <<c>>,
           motors' = [motors EXCEPT ![c.wheel] = Adopted(@, c)],
           last_command' = LastCommandAfter(c), sent' = <<>>, Reports' = Reports
    PROVE  Contract!Next
<1>1. Contract!Obey(c)
    BY SameMotors DEF Contract!Obey, Owed, Reports, Queued, LastCommandAfter
<1> QED BY <1>1 DEF Contract!Next

LEMMA MapsAcknowledge ==
    ASSUME Owed # <<>>, Owed' = <<>>, sent' \in {<<>>, <<Answer(Owed[1])>>},
           UNCHANGED <<motors, last_command>>, Reports' = Reports
    PROVE  Contract!Next
<1>1. Contract!Acknowledge
    BY SameMotors DEF Contract!Acknowledge, Owed, Reports, Queued
<1> QED BY <1>1 DEF Contract!Next

LEMMA MapsAdvance ==
    ASSUME NEW dt \in 0 .. MaxAge, NEW lag \in 0 .. MaxLag,
           motors' = [w \in Wheels |-> Update(motors[w], dt, last_command[w] - lag)],
           sent' = <<>>, UNCHANGED last_command, Owed' = Owed, Reports' = Reports
    PROVE  Contract!Next
<1>1. Contract!Advance(dt, lag)
    BY SameMotors DEF Contract!Advance, Owed, Reports, Queued
<1> QED BY <1>1 DEF Contract!Next

LEMMA MapsSample ==
    ASSUME Reports' = Reports \o <<Report(0), Report(1)>>, sent' = <<>>,
           UNCHANGED <<motors, last_command>>, Owed' = Owed
    PROVE  Contract!Next
<1>1. Contract!Sample
    BY SameMotors DEF Contract!Sample, Owed, Reports, Queued, Report
<1> QED BY <1>1 DEF Contract!Next

LEMMA MapsEmit ==
    ASSUME NEW error \in {<<>>, <<ErrorFrame>>}, NEW short \in BOOLEAN,
           Reports # <<>>, Reports' = Tail(Reports),
           sent' \in {error, error \o <<FeedbackFor(Head(Reports), short)>>},
           UNCHANGED <<motors, last_command>>, Owed' = Owed
    PROVE  Contract!Next
<1>1. Contract!Emit
    BY SameMotors DEF Contract!Emit, Owed, Reports, Queued
<1> QED BY <1>1 DEF Contract!Next

LEMMA MapsDiscard ==
    ASSUME NEW i \in 1 .. Len(Reports),
           Reports' = SubSeq(Reports, 1, i - 1) \o SubSeq(Reports, i + 1, Len(Reports)),
           sent' = <<>>, UNCHANGED <<motors, last_command>>, Owed' = Owed
    PROVE  Contract!Next
<1>1. Contract!Discard
    BY DEF Contract!Discard, Owed, Reports, Queued
<1> QED BY <1>1 DEF Contract!Next

LEMMA MapsOther ==
    ASSUME sent' \in {<<>>, <<ErrorFrame>>},
           UNCHANGED <<motors, last_command>>, Owed' = Owed, Reports' = Reports
    PROVE  Contract!Next
<1>1. Contract!Other
    BY SameMotors DEF Contract!Other, Owed, Reports, Queued
<1> QED BY <1>1 DEF Contract!Next

LEMMA MapsTick ==
    ASSUME last_command' = [w \in Wheels |-> Older(last_command[w])], sent' = <<>>,
           UNCHANGED motors, Owed' = Owed, Reports' = Reports
    PROVE  Contract!Next
<1>1. Contract!Tick
    BY SameMotors DEF Contract!Tick, Owed, Reports, Queued
<1> QED BY <1>1 DEF Contract!Next

-----------------------------------------------------------------------------
LEMMA InHand ==
    ASSUME TypeOK
    PROVE  /\ delayed_frames \in Seq(Delayed)
           /\ Queued(delayed_frames) \in Seq(ReportRecord)
           /\ snapshot \in Seq(ReportRecord)
           /\ Reports \in Seq(ReportRecord)
           /\ Reports = Queued(delayed_frames) \o snapshot
<1>1. delayed_frames \in Seq(Delayed) /\ snapshot \in Seq(ReportRecord)
    BY DEF TypeOK, ReportRecord
<1>2. Queued(delayed_frames) \in Seq(ReportRecord)
    BY <1>1, QueuedType
<1> QED BY <1>1, <1>2, ConcatProperties DEF Reports

LEMMA StepApply == ASSUME TypeOK, Apply PROVE Contract!Next
<1>1. command[1] \in Commands /\ command = <<command[1]>>
    BY CommandInHand DEF Apply
<1>2. /\ Owed = <<>> /\ Owed' = <<command[1]>>
      /\ Reports' = Reports
    BY <1>1 DEF Apply, executor, Owed, Reports, Queued
<1>3. /\ motors' = [motors EXCEPT ![command[1].wheel] = Adopted(@, command[1])]
      /\ last_command' = LastCommandAfter(command[1]) /\ sent' = <<>>
    BY DEF Apply
<1> QED BY <1>1, <1>2, <1>3, MapsObey

LEMMA StepSendAck == ASSUME TypeOK, SendAck PROVE Contract!Next
<1>1. command = <<command[1]>>
    BY CommandInHand DEF SendAck
<1>2. /\ Owed # <<>> /\ Owed[1] = command[1] /\ Owed' = <<>>
      /\ Reports' = Reports
    BY <1>1 DEF SendAck, executor, Owed, Reports, Queued
<1>3. /\ sent' \in {<<>>, <<Answer(Owed[1])>>}
      /\ UNCHANGED <<motors, last_command>>
    BY <1>2 DEF SendAck
<1> QED BY <1>2, <1>3, MapsAcknowledge

LEMMA StepUpdateApply == ASSUME TypeOK, UpdateApply PROVE Contract!Next
<1>1. step \in 0 .. MaxAge /\ elapsed \in 0 .. MaxLag
    BY VirtualMotorAssumption, SMT DEF TypeOK, UpdateApply
<1>2. /\ motors' = [w \in Wheels |-> Update(motors[w], step, last_command[w] - elapsed)]
      /\ sent' = <<>> /\ UNCHANGED last_command
    BY DEF UpdateApply, SinceLastCommand
<1>3. Owed' = Owed /\ Reports' = Reports
    BY DEF UpdateApply, receiver, Owed, Reports, Queued
<1> QED BY <1>1, <1>2, <1>3, MapsAdvance

LEMMA StepDeliver == ASSUME TypeOK, Deliver PROVE Contract!Next
<1> DEFINE q == delayed_frames
           short == Head(q).frame.short
<1>1. q \in Seq(Delayed) /\ q # <<>>
    BY DEF Deliver, FrontIsDue, TypeOK
<1>2. /\ Queued(q) # <<>> /\ Tail(Queued(q)) = Queued(Tail(q))
      /\ Head(q).frame = FeedbackFor(Head(Queued(q)), short)
      /\ short \in BOOLEAN
    BY <1>1, QueuedHead
<1>3. /\ Reports # <<>> /\ Head(Reports) = Head(Queued(q))
      /\ Tail(Reports) = Tail(Queued(q)) \o snapshot
    BY <1>2, InHand, ConcatHead
<1>4. Reports' = Queued(Tail(q)) \o snapshot
    BY DEF Deliver, Reports
<1>5. sent' \in {<<>>, <<FeedbackFor(Head(Reports), short)>>}
    BY <1>2, <1>3 DEF Deliver
<1>6. <<>> \o <<FeedbackFor(Head(Reports), short)>> = <<FeedbackFor(Head(Reports), short)>>
    OBVIOUS
<1>7. UNCHANGED <<motors, last_command>> /\ Owed' = Owed
    BY DEF Deliver, receiver, Owed
<1> HIDE DEF short
<1> QED BY <1>2, <1>3, <1>4, <1>5, <1>6, <1>7, MapsEmit

LEMMA StepPublishStart == ASSUME TypeOK, PublishStart PROVE Contract!Next
<1>1. snapshot = <<>> /\ snapshot' = <<Report(0), Report(1)>>
    BY DEF PublishStart, TypeOK
<1>2. Reports = Queued(delayed_frames)
    BY <1>1, InHand, ConcatEmptySeq
<1>3. Reports' = Reports \o <<Report(0), Report(1)>>
    BY <1>1, <1>2 DEF PublishStart, Reports
<1>4. sent' = <<>> /\ UNCHANGED <<motors, last_command>> /\ Owed' = Owed
    BY DEF PublishStart, receiver, Owed
<1> QED BY <1>3, <1>4, MapsSample

LEMMA StepPublishWheel == ASSUME BusInv, PublishWheel PROVE Contract!Next
<1> DEFINE count == CountAfter(feedback_count)
           short == EveryN(MalformedFeedbackEveryN, count)
           frame == FeedbackFor(Head(snapshot), short)
           queued == Queued(delayed_frames)
<1>1. /\ snapshot # <<>> /\ snapshot \in Seq(ReportRecord)
      /\ queued \in Seq(ReportRecord) /\ Reports = queued \o snapshot
      /\ delayed_frames \in Seq(Delayed)
    <2>1. snapshot # <<>>
        BY DEF BusInv, TypeOK, PublishWheel
    <2> QED BY <2>1, InHand DEF BusInv
<1>2. /\ snapshot' = Tail(snapshot) /\ UNCHANGED <<motors, last_command>> /\ Owed' = Owed
    BY DEF PublishWheel, receiver, Owed
<1>3. short \in BOOLEAN
    BY DEF EveryN
<1>4. Head(snapshot) \in ReportRecord
    BY <1>1, HeadTailProperties
<1>5. \/ sent' = <<>> /\ UNCHANGED delayed_frames
      \/ /\ FeedbackDelay = 0 /\ UNCHANGED delayed_frames
         /\ \E e \in {<<>>, <<ErrorFrame>>}, f \in {<<>>, <<frame>>} : sent' = e \o f
      \/ /\ FeedbackDelay > 0 /\ sent' \in {<<>>, <<ErrorFrame>>}
         /\ delayed_frames' = DelayedAfter(frame)
    BY DEF PublishWheel
<1> HIDE DEF short
<1>6. CASE sent' = <<>> /\ UNCHANGED delayed_frames
    <2>1. Reports' = queued \o Tail(snapshot)
        BY <1>2, <1>6 DEF Reports, Queued
    <2>2. PICK i \in 1 .. Len(Reports) :
              Reports' = SubSeq(Reports, 1, i - 1) \o SubSeq(Reports, i + 1, Len(Reports))
        BY <1>1, <2>1, HeadGivenUp
    <2> QED BY <1>2, <1>6, <2>2, MapsDiscard
<1>7. ASSUME FeedbackDelay = 0, UNCHANGED delayed_frames,
             NEW e \in {<<>>, <<ErrorFrame>>}, NEW f \in {<<>>, <<frame>>}, sent' = e \o f
      PROVE  Contract!Next
    <2>1. queued = <<>> /\ Queued(delayed_frames') = <<>>
        BY <1>7, QueuedEmpty DEF BusInv, UndelayedQueueIsEmpty
    <2>2. Reports = snapshot
        BY <1>1, <2>1, ConcatEmptySeq
    <2>3. Tail(snapshot) \in Seq(ReportRecord)
        BY <1>1, HeadTailProperties
    <2>4. Reports' = Tail(snapshot)
        BY <1>2, <2>1, <2>3, ConcatEmptySeq DEF Reports
    <2>5. frame = FeedbackFor(Head(Reports), short)
        BY <2>2
    <2>6. e \o <<>> = e
        OBVIOUS
    <2>7. sent' \in {e, e \o <<FeedbackFor(Head(Reports), short)>>}
        BY <1>7, <2>5, <2>6
    <2> QED BY <1>1, <1>2, <1>3, <2>2, <2>4, <2>7, MapsEmit
<1>8. CASE /\ FeedbackDelay > 0 /\ sent' \in {<<>>, <<ErrorFrame>>}
           /\ delayed_frames' = DelayedAfter(frame)
    <2> DEFINE d == [frame |-> frame, wait |-> FeedbackDelay]
    <2>1. d \in Delayed
        <3>1. FeedbackDelay \in -MaxLag .. FeedbackDelay
            BY VirtualMotorAssumption, SMT
        <3> QED BY <1>3, <1>4, <3>1, FeedbackType DEF Delayed
    <2>2. Head(snapshot) = [wheel |-> d.frame.wheel, reading |-> d.frame.reading]
        BY <1>4 DEF FeedbackFor, ReportRecord
    <2>3. delayed_frames' = Append(delayed_frames, d)
        BY <1>8 DEF DelayedAfter
    <2> HIDE DEF d
    <2>4. Queued(delayed_frames') = Append(queued, Head(snapshot))
        BY <1>1, <2>1, <2>2, <2>3, QueuedAppend
    <2>5. Reports' = Append(queued, Head(snapshot)) \o Tail(snapshot)
        BY <1>2, <2>4 DEF Reports
    <2>6. Reports' = Reports
        BY <1>1, <2>5, HeadMoves
    <2> QED BY <1>2, <1>8, <2>6, MapsOther
<1> QED BY <1>5, <1>6, <1>7, <1>8

LEMMA StepTick == ASSUME TypeOK, Tick PROVE Contract!Next
<1>1. delayed_frames \in Seq(Delayed)
    BY DEF TypeOK
<1>2. /\ Len(delayed_frames) \in Nat /\ Len(delayed_frames') = Len(delayed_frames)
      /\ \A i \in 1 .. Len(delayed_frames) :
             /\ delayed_frames[i] \in Delayed
             /\ delayed_frames'[i] =
                    [delayed_frames[i] EXCEPT !.wait = Sooner(delayed_frames[i].wait)]
    BY <1>1 DEF Tick
<1>3. \A i \in 1 .. Len(delayed_frames) : delayed_frames'[i].frame = delayed_frames[i].frame
    BY <1>2 DEF Delayed
<1>4. Queued(delayed_frames') = Queued(delayed_frames)
    BY <1>2, <1>3 DEF Queued
<1>5. Reports' = Reports
    BY <1>4 DEF Reports, Tick
<1>6. /\ last_command' = [w \in Wheels |-> Older(last_command[w])] /\ sent' = <<>>
      /\ UNCHANGED motors /\ Owed' = Owed
    BY DEF Tick, receiver, Owed
<1> QED BY <1>5, <1>6, MapsTick

LEMMA BusStep == ASSUME BusInv, [Next]_vars PROVE [Contract!Next]_Contract!vars
<1>1. TypeOK
    BY DEF BusInv
<1>2. ASSUME \/ \E c \in Commands : Receive(c)
             \/ ReceiveFails \/ UpdateStart \/ UpdateFinish
      PROVE  Contract!Next
    <2>1. /\ sent' = <<>> /\ UNCHANGED <<motors, last_command>>
          /\ UNCHANGED <<delayed_frames, snapshot>>
        BY <1>2 DEF Receive, ReceiveFails, UpdateStart, UpdateFinish, executor
    <2>2. Owed' = Owed
        BY <1>2 DEF Receive, ReceiveFails, UpdateStart, UpdateFinish, receiver, Owed
    <2>3. Reports' = Reports
        BY <2>1 DEF Reports, Queued
    <2> QED BY <2>1, <2>2, <2>3, MapsOther
<1>3. CASE UNCHANGED vars
    BY <1>3 DEF vars, receiver, executor, Contract!vars
<1> QED BY <1>1, <1>2, <1>3, StepApply, StepSendAck, StepUpdateApply, StepDeliver,
           StepPublishStart, StepPublishWheel, StepTick DEF Next

\* The node keeps its promise to the bus, whatever its two threads, its
\* timers, the delay queue and the injected faults do: it implements
\* MotorContract.  A command is obeyed, then answered at most once; readings
\* leave in the order in which they were taken.
THEOREM MotorContractKept == Spec => KeepsContract
<1>1. Init => Contract!Init
    BY SameMotors, QueuedEmpty DEF Init, Contract!Init, Queued
<1> QED BY <1>1, BusStep, BusInvariant, PTL DEF Spec, KeepsContract, Contract!Spec
=============================================================================
