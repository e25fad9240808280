---------------------------- MODULE VirtualMotor ----------------------------
(***************************************************************************)
(* class VirtualMotorNode (virtual_motor_node.cpp): two simulated motors   *)
(* on the CAN bus.  Two threads share motors_ and last_command_ under      *)
(* motor_mutex_: the receiver thread, which applies commands and answers   *)
(* with an ACK, and the executor, which runs the update and the feedback   *)
(* timer one after the other.                                              *)
(*                                                                         *)
(* A critical section is one action; what a thread does outside the lock   *)
(* (taking a frame, reading the clock, sending) is a step of its own, so   *)
(* the clock and the other thread may come in between.  Commands come from *)
(* an open environment; "sent" holds what the last step put on the bus.    *)
(* Time points are ages, as in HardwareHealth.                             *)
(***************************************************************************)
EXTENDS MotorState

CONSTANTS
    DropCommandEveryN, DropCommandWheels,     \* fault injection, 0 and {}:
    DropFeedbackEveryN, DropFeedbackWheels,   \* none
    MalformedFeedbackEveryN, ErrorFrameEveryN,
    Commands,        \* the command frames that the bus may carry
    FeedbackDelay,   \* feedback_delay_ms_, in ticks
    CountCycle,      \* bound: the frame counters are kept modulo this number
    MaxAge,          \* bound: ages are kept up to this one
    MaxLag,          \* bound: ticks that one run of update() may take
    MaxDelayed       \* bound: length of delayed_frames_

Intervals == {DropCommandEveryN, DropFeedbackEveryN, MalformedFeedbackEveryN,
              ErrorFrameEveryN}

ASSUME VirtualMotorAssumption ==
    /\ Commands \subseteq Command
    /\ Intervals \subseteq Nat /\ FeedbackDelay \in Nat
    /\ DropCommandWheels \subseteq Wheels /\ DropFeedbackWheels \subseteq Wheels
    /\ CountCycle \in Nat \ {0} /\ MaxLag \in Nat /\ MaxDelayed \in Nat
    /\ MaxAge \in Nat
    /\ \A n \in Intervals : n > 0 => CountCycle % n = 0
    /\ \A d \in Watchdogs : d + MaxLag < MaxAge

Delayed == [frame : Feedback, wait : -MaxLag .. FeedbackDelay]

VARIABLES
    motors,            \* motors_
    last_command,      \* last_command_: age of the last applied command
    rx,                \* receiver thread: "receive", "apply", "ack", "stopped"
    command,           \* receiver thread: the frames it works on, one or none
    command_count,     \* command_count_
    ex,                \* executor: "idle", "update", "deliver", "publish"
    elapsed,           \* age of last_update_, the clock value read by update()
    step,              \* executor: dt of the present update()
    snapshot,          \* executor: readings that are still to be published
    feedback_count,    \* feedback_count_
    delayed_frames,    \* delayed_frames_
    sent,              \* frames put on the bus by the last step
    since_valid        \* history: ticks since a valid command was applied

receiver == <<rx, command, command_count>>
executor == <<ex, elapsed, step, snapshot, feedback_count, delayed_frames>>
vars == <<motors, last_command, receiver, executor, sent, since_valid>>

EveryN(n, count) == n > 0 /\ count % n = 0
CountAfter(count) == (count + 1) % CountCycle

Init ==
    /\ motors = [w \in Wheels |-> NewMotor]
    /\ last_command = [w \in Wheels |-> 0]
    /\ rx = "receive" /\ command = <<>> /\ command_count = 0
    /\ ex = "idle" /\ elapsed = 0 /\ step = 0
    /\ snapshot = <<>> /\ feedback_count = 0 /\ delayed_frames = <<>>
    /\ sent = <<>>
    /\ since_valid = [w \in Wheels |-> 0]

-----------------------------------------------------------------------------
(***************************************************************************)
(* The receiver thread: receive_loop                                       *)
(***************************************************************************)
CommandDropped(w, count) ==
    w \in DropCommandWheels \/ EveryN(DropCommandEveryN, count)

\* receive() returns a command frame for wheel c.wheel.
Receive(c) ==
    /\ rx = "receive"
    /\ command_count' = CountAfter(command_count)
    /\ IF CommandDropped(c.wheel, command_count')
       THEN UNCHANGED <<rx, command>>
       ELSE rx' = "apply" /\ command' = <<c>>
    /\ sent' = <<>>
    /\ UNCHANGED <<motors, last_command, executor, since_valid>>

\* Seeded fault: the time of the command is not recorded.
LastCommandKept(c) == last_command

\* Seeded fault: a malformed command counts as a sign of life.
LastCommandAlways(c) == [last_command EXCEPT ![c.wheel] = 0]

LastCommandAfter(c) ==
    [last_command EXCEPT ![c.wheel] = IF c.payload = "good" THEN 0 ELSE @]

\* The critical section under motor_mutex_.
Apply ==
    LET c == command[1] IN
    /\ rx = "apply" /\ rx' = "ack"
    /\ motors' = [motors EXCEPT ![c.wheel] = Adopted(@, c)]
    /\ last_command' = LastCommandAfter(c)
    /\ since_valid' = [since_valid EXCEPT
                         ![c.wheel] = IF c.payload = "good" THEN 0 ELSE @]
    /\ sent' = <<>>
    /\ UNCHANGED <<command, command_count, executor>>

\* Seeded fault: a malformed command is answered as if it were accepted.
AnswerAccepted(c) == AckFor(c, 0)

Answer(c) == AckFor(c, AckResult(c))

\* A send may fail; the exception is logged and the frame is lost.
SendAck ==
    LET c == command[1] IN
    /\ rx = "ack" /\ rx' = "receive" /\ command' = <<>>
    /\ sent' \in {<<>>, <<Answer(c)>>}
    /\ UNCHANGED <<motors, last_command, command_count, executor, since_valid>>

\* receive() throws something else than a timeout: the thread ends for good.
ReceiveFails ==
    /\ rx = "receive" /\ rx' = "stopped"
    /\ sent' = <<>>
    /\ UNCHANGED <<motors, last_command, command, command_count, executor,
                   since_valid>>

-----------------------------------------------------------------------------
(***************************************************************************)
(* The executor: update and publish_feedback                               *)
(***************************************************************************)

\* The clock is read, and last_update_ set, before the lock is taken.
UpdateStart ==
    /\ ex = "idle" /\ ex' = "update"
    /\ step' = elapsed /\ elapsed' = 0
    /\ sent' = <<>>
    /\ UNCHANGED <<motors, last_command, receiver, snapshot, feedback_count,
                   delayed_frames, since_valid>>

\* now - last_command_[w], for the "now" that update() read "elapsed" ago.
SinceLastCommand(w) == last_command[w] - elapsed

\* The critical section under motor_mutex_.
UpdateApply ==
    /\ ex = "update" /\ ex' = "deliver"
    /\ motors' = [w \in Wheels |-> Update(motors[w], step, SinceLastCommand(w))]
    /\ step' = 0
    /\ sent' = <<>>
    /\ UNCHANGED <<last_command, receiver, elapsed, snapshot, feedback_count,
                   delayed_frames, since_valid>>

FrontIsDue ==
    /\ delayed_frames # <<>>
    /\ Head(delayed_frames).wait <= -elapsed

Deliver ==
    /\ ex = "deliver" /\ FrontIsDue
    /\ delayed_frames' = Tail(delayed_frames)
    /\ sent' \in {<<>>, <<Head(delayed_frames).frame>>}
    /\ UNCHANGED <<motors, last_command, receiver, ex, elapsed, step, snapshot,
                   feedback_count, since_valid>>

UpdateFinish ==
    /\ ex = "deliver" /\ ~FrontIsDue
    /\ ex' = "idle"
    /\ sent' = <<>>
    /\ UNCHANGED <<motors, last_command, receiver, elapsed, step, snapshot,
                   feedback_count, delayed_frames, since_valid>>

Report(w) == [wheel |-> w, reading |-> ReadingOf(motors[w])]

\* The critical section under motor_mutex_: both motors are read at once.
PublishStart ==
    /\ ex = "idle" /\ ex' = "publish"
    /\ Len(delayed_frames) + 2 <= MaxDelayed
    /\ snapshot' = <<Report(0), Report(1)>>
    /\ sent' = <<>>
    /\ UNCHANGED <<motors, last_command, receiver, elapsed, step, feedback_count,
                   delayed_frames, since_valid>>

FeedbackDropped(w, count) ==
    w \in DropFeedbackWheels \/ EveryN(DropFeedbackEveryN, count)

\* Seeded fault: the newest frame is queued first.
DelayedPushFront(frame) ==
    <<[frame |-> frame, wait |-> FeedbackDelay]>> \o delayed_frames

DelayedAfter(frame) ==
    Append(delayed_frames, [frame |-> frame, wait |-> FeedbackDelay])

\* One iteration of the loop over the wheels.
PublishWheel ==
    LET w      == Head(snapshot).wheel
        count  == CountAfter(feedback_count)
        frame  == FeedbackFor(Head(snapshot), EveryN(MalformedFeedbackEveryN, count))
        errors == IF EveryN(ErrorFrameEveryN, count) THEN {<<>>, <<ErrorFrame>>}
                                                     ELSE {<<>>}
    IN
    /\ ex = "publish"
    /\ feedback_count' = count
    /\ snapshot' = Tail(snapshot)
    /\ ex' = IF Tail(snapshot) = <<>> THEN "idle" ELSE "publish"
    /\ \/ /\ FeedbackDropped(w, count)
          /\ sent' = <<>> /\ UNCHANGED delayed_frames
       \/ /\ ~FeedbackDropped(w, count) /\ FeedbackDelay = 0
          /\ \E e \in errors, f \in {<<>>, <<frame>>} : sent' = e \o f
          /\ UNCHANGED delayed_frames
       \/ /\ ~FeedbackDropped(w, count) /\ FeedbackDelay > 0
          /\ sent' \in errors
          /\ delayed_frames' = DelayedAfter(frame)
    /\ UNCHANGED <<motors, last_command, receiver, elapsed, step, since_valid>>

-----------------------------------------------------------------------------
Older(age) == IF age < MaxAge THEN age + 1 ELSE age
Sooner(wait) == IF wait > -MaxLag THEN wait - 1 ELSE wait

Tick ==
    /\ ex \in {"update", "deliver"} => elapsed < MaxLag
    /\ last_command' = [w \in Wheels |-> Older(last_command[w])]
    /\ since_valid' = [w \in Wheels |-> Older(since_valid[w])]
    /\ elapsed' = Older(elapsed)
    /\ delayed_frames' = [i \in 1 .. Len(delayed_frames) |->
                            [delayed_frames[i] EXCEPT !.wait = Sooner(@)]]
    /\ sent' = <<>>
    /\ UNCHANGED <<motors, receiver, ex, step, snapshot, feedback_count>>

Next ==
    \/ \E c \in Commands : Receive(c)
    \/ Apply
    \/ SendAck
    \/ ReceiveFails
    \/ UpdateStart
    \/ UpdateApply
    \/ Deliver
    \/ UpdateFinish
    \/ PublishStart
    \/ PublishWheel
    \/ Tick

Spec == Init /\ [][Next]_vars

\* The executor runs on, serves an expired update timer again and again in
\* spite of the feedback timer, and time passes.  Nothing is assumed of the
\* receiver thread.
FairSpec ==
    /\ Spec
    /\ SF_vars(UpdateStart) /\ WF_vars(UpdateApply)
    /\ WF_vars(Deliver) /\ WF_vars(UpdateFinish)
    /\ WF_vars(PublishWheel)
    /\ WF_vars(Tick)

-----------------------------------------------------------------------------
(***************************************************************************)
(* Properties                                                              *)
(***************************************************************************)

\* Every variable keeps its range; a velocity stays between the targets that
\* were commanded (MotorState::update never overshoots).
TypeOK ==
    /\ motors \in [Wheels -> Motor]
    /\ last_command \in [Wheels -> 0 .. MaxAge]
    /\ rx \in {"receive", "apply", "ack", "stopped"}
    /\ command \in {<<>>} \cup {<<c>> : c \in Commands}
    /\ rx \in {"apply", "ack"} <=> command # <<>>
    /\ command_count \in 0 .. CountCycle - 1
    /\ ex \in {"idle", "update", "deliver", "publish"}
    /\ elapsed \in 0 .. MaxAge /\ step \in 0 .. MaxAge
    /\ ex \in {"update", "deliver"} => elapsed <= MaxLag
    /\ snapshot \in Seq([wheel : Wheels, reading : Reading]) /\ Len(snapshot) <= 2
    /\ ex = "publish" <=> snapshot # <<>>
    /\ feedback_count \in 0 .. CountCycle - 1
    /\ delayed_frames \in Seq(Delayed)
    /\ sent \in Seq(BusFrame)
    /\ since_valid \in [Wheels -> 0 .. MaxAge]

\* A motor has somewhere to go only while it is enabled and its watchdog has
\* not stopped it, whichever of the two threads wrote it last.
TargetNeedsPermission ==
    \A w \in Wheels :
        motors[w].target # 0 => motors[w].enabled /\ ~motors[w].watchdog_stopped

\* The watchdog never stops a motor whose last valid command is not older
\* than the duration it carried, although update() reads the clock before it
\* waits for the receiver thread to leave the lock.
WatchdogNeverEarly ==
    [][\A w \in Wheels :
           ~motors[w].watchdog_stopped /\ motors'[w].watchdog_stopped
               => since_valid[w] > motors[w].watchdog]_vars

\* An ACK with result 0, sent after the lock was given up, is about the
\* command that is in force: nothing replaced or spoiled it in between.
AckTellsTruth ==
    [][\A i \in 1 .. Len(sent') :
           LET a == sent'[i] IN
           a.kind = "ack" /\ a.result = 0 =>
               /\ motors[a.wheel].sequence = a.sequence
               /\ ~motors[a.wheel].protocol_fault]_vars

\* update() leaves no delayed feedback behind that was due when it started:
\* it stops at the first frame that is not, and relies on their order.
OverdueFeedbackLeaves ==
    [][ex = "deliver" /\ ex' = "idle" =>
           \A i \in 1 .. Len(delayed_frames) :
               delayed_frames[i].wait > -elapsed]_vars

\* When valid commands stop coming (the plugin stopped or died, the bus is
\* down, the receiver thread ended), both motors come to rest, also while
\* malformed commands go on.  This is the last of the stop mechanisms.
SilenceStopsMotors ==
    <>[][~(Apply /\ command[1].payload = "good")]_vars
        => <>[](\A w \in Wheels : motors[w].target = 0 /\ motors[w].velocity = 0)

\* The node keeps the contract of MotorContract: two threads, two timers,
\* the lock, the delay queue and the injected faults show on the bus as
\* commands obeyed then answered, and readings in the order of their time.
Contract == INSTANCE MotorContract WITH
    owed <- IF rx = "ack" THEN command ELSE <<>>,
    reports <- [i \in 1 .. Len(delayed_frames) |->
                  [wheel   |-> delayed_frames[i].frame.wheel,
                   reading |-> delayed_frames[i].frame.reading]] \o snapshot

KeepsContract == Contract!Spec
=============================================================================
