-------------------------- MODULE CanMotorHardware --------------------------
(***************************************************************************)
(* class CanMotorHardware (can_motor_hardware.cpp): the ros2_control       *)
(* system plugin that drives two CAN motors.  The controller manager calls *)
(* its lifecycle callbacks and, in every control cycle, read() and         *)
(* write(), all from one thread: they never overlap (pc).                  *)
(*                                                                         *)
(* read() drains the socket one frame at a time, so it is split into       *)
(* ReadStart, one Receive... action per frame and ReadFinish; the clock    *)
(* (Tick) may advance anywhere.  Every other callback is one action.       *)
(*                                                                         *)
(* The module is open: which frames arrive, which sends fail, whether the  *)
(* diagnostics lock is free and what the controllers command are           *)
(* nondeterministic.  "sent" holds the frames that the last step put on    *)
(* the bus, for a module that composes the plugin with its motors.         *)
(***************************************************************************)
EXTENDS HardwareHealth, FiniteSets

CONSTANTS
    MaxFramesPerRead,     \* kMaxFramesPerRead, 64
    Velocities,           \* what a controller may command
    WireMax,              \* largest velocity of a command frame (int16_t)
    FeedbackVelocities,   \* what a motor may report
    MaxPending            \* bound: write() needs fewer pending ACKs than this

ASSUME HardwareAssumption ==
    /\ MaxFramesPerRead \in Nat \ {0}
    /\ Velocities \subseteq Int /\ 0 \in Velocities
    /\ WireMax \in Nat
    /\ FeedbackVelocities \subseteq Int /\ 0 \in FeedbackVelocities
    /\ MaxPending \in Nat \ {0}

\* The bits of a SocketCAN error mask that the plugin tells apart; CRTL
\* stands for every bit that is only worth a warning.
ErrorBits == {"BUSOFF", "TX_TIMEOUT", "CRTL"}

NoWheel == -1
Reason(cause) == [cause |-> cause, wheel |-> NoWheel]
ReasonOf(cause, w) == [cause |-> cause, wheel |-> w]
NoReason == Reason("none")
StopReason ==
    [ cause : {"none", "activation_failed", "can_receive_unavailable",
               "can_send_unavailable", "can_receive_error", "can_send_error",
               "can_bus_off", "can_tx_timeout", "ack_rejected",
               "unexpected_ack", "feedback_timeout", "ack_timeout"},
      wheel : Wheels \cup {NoWheel} ]

DiagnosticState == {"inactive", "active", "safe_stop"}

\* The first ACK of an activation that no command accounts for: whose it was,
\* and whether it answered the command waited for (refusing it) or none.
BadAck == [wheel : Wheels \cup {NoWheel}, awaited : BOOLEAN]
NoBadAck == [wheel |-> NoWheel, awaited |-> FALSE]

WireMin == -WireMax - 1
Frame == [wheel : Wheels, sequence : SequenceNumbers, enabled : BOOLEAN,
          velocity : WireMin .. WireMax]

VARIABLES
    lifecycle,              \* the state the controller manager keeps for us
    pc, frames,             \* inside read(): how many frames it has taken
    commands,               \* commands_
    velocities,             \* velocities_ (positions_ is written with it)
    sequences,              \* sequences_: last sequence number used
    health,                 \* health_
    fault_latched,          \* fault_latched_
    fault_stop_attempted,   \* fault_stop_attempted_
    fault_stop_succeeded,   \* fault_stop_succeeded_
    stop_reason,            \* stop_reason_
    diagnostic_state,       \* diagnostic_state_
    diagnostics_pending,    \* diagnostics_pending_
    sender, receiver,       \* sender_ and receiver_: is the socket open
    sent,                   \* frames put on the bus by the last step
    unreported,             \* history: state or reason differ from /diagnostics
    trail,                  \* history: what each motor was sent since activation
    updated,                \* history: wheels commanded since activation
    bad_ack                 \* history: first bad ACK since activation

latch == <<fault_latched, fault_stop_attempted, fault_stop_succeeded,
           stop_reason, diagnostic_state, bad_ack>>
sockets == <<sender, receiver>>
diagnostics == <<diagnostics_pending, unreported>>
wire == <<sequences, trail>>
vars == <<lifecycle, pc, frames, commands, velocities, health, latch, sockets,
          diagnostics, sent, wire, updated>>

-----------------------------------------------------------------------------
(***************************************************************************)
(* Sending.  A link is the part of the state that a send changes, so that  *)
(* the sends of one callback can be chained; "delivered" says whether the  *)
(* socket took the frame (send throws otherwise).                          *)
(***************************************************************************)
TrailState == {"idle", "armed", "driving", "stopped", "broken"}

\* "broken": a frame that the stop protocol of one activation rules out.
TrailAfter(s, enabled) ==
    CASE s = "idle"  /\ ~enabled                 -> "armed"
      [] s \in {"armed", "driving"} /\ enabled   -> "driving"
      [] s \in {"armed", "driving"} /\ ~enabled  -> "stopped"
      [] OTHER                                   -> "broken"

LinkRecord ==
    [ open : BOOLEAN, sequences : [Wheels -> SequenceNumbers],
      health : Health, trail : [Wheels -> TrailState], sent : Seq(Frame),
      success : BOOLEAN ]

Link ==
    [ open |-> sender, sequences |-> sequences, health |-> health,
      trail |-> trail, sent |-> <<>>, success |-> TRUE ]

\* Seeded fault: the counter does not wrap.
NextSequenceUnbounded(s) == s + 1

NextSequence(s) == (s + 1) % SeqMod

WireVelocity(v) ==
    IF v > WireMax THEN WireMax ELSE IF v < WireMin THEN WireMin ELSE v

SendCommand(l, w, enabled, v, delivered) ==
    LET seq == NextSequence(l.sequences[w]) IN
    CASE ~l.open -> [l EXCEPT !.success = FALSE]
      [] l.open /\ ~delivered ->
            [l EXCEPT !.sequences[w] = seq, !.success = FALSE]
      [] l.open /\ delivered ->
            [l EXCEPT
                !.sequences[w] = seq,
                !.health = IF enabled THEN CommandSent(@, w, seq)
                                      ELSE SafeStopSent(@, w, seq),
                !.trail[w] = TrailAfter(@, enabled),
                !.sent = Append(@, [wheel |-> w, sequence |-> seq,
                                    enabled |-> enabled,
                                    velocity |-> WireVelocity(v)]),
                !.success = TRUE]

\* Seeded fault: the result of the first send is forgotten.
SafeStopLastResult(l, delivered) ==
    SendCommand(SendCommand(l, 0, FALSE, 0, delivered[0]),
                1, FALSE, 0, delivered[1])

\* The second motor is stopped even when the send to the first one failed.
SafeStop(l, delivered) ==
    LET left  == SendCommand(l, 0, FALSE, 0, delivered[0])
        right == SendCommand(left, 1, FALSE, 0, delivered[1])
    IN  [right EXCEPT !.success = left.success /\ right.success]

Outcomes == [Wheels -> BOOLEAN]

Transmitted(l) ==
    /\ sequences' = l.sequences
    /\ health' = l.health
    /\ trail' = l.trail
    /\ sent' = l.sent

\* How many frames the step sent to a motor, and whether a send threw: it has
\* then used up a sequence number without a frame.  (write() may lose two
\* numbers of a motor in one step, hence its reason.)
SentTo(w) == Cardinality({i \in 1 .. Len(sent') : sent'[i].wheel = w})

SendThrew ==
    \/ \E w \in Wheels : sequences'[w] # (sequences[w] + SentTo(w)) % SeqMod
    \/ stop_reason'.cause = "can_send_error" /\ stop_reason # stop_reason'

\* attempt_fault_safe_stop: one attempt for each latched fault.
AttemptFaultSafeStop(l, delivered) ==
    IF fault_stop_attempted
    THEN /\ Transmitted(l)
         /\ UNCHANGED <<fault_stop_attempted, fault_stop_succeeded>>
    ELSE /\ Transmitted(SafeStop(l, delivered))
         /\ fault_stop_attempted' = TRUE
         /\ fault_stop_succeeded' = SafeStop(l, delivered).success

-----------------------------------------------------------------------------
(***************************************************************************)
(* Diagnostics.  A report holds the state and the stop reason that the     *)
(* callback has reached.  It is due when it is forced, and also when       *)
(* nothing was published yet or kDiagnosticsPeriod has passed; "locked" is *)
(* RealtimePublisher::trylock.                                             *)
(***************************************************************************)
Changed == diagnostic_state' # diagnostic_state \/ stop_reason' # stop_reason

\* Seeded fault: a forced report that finds the lock taken is dropped.
PublishDropsForced(force) ==
    \E due \in {TRUE, force}, locked \in BOOLEAN :
        LET published == (due \/ diagnostics_pending) /\ locked
        IN  /\ unreported' = ((unreported \/ Changed) /\ ~published)
            /\ diagnostics_pending' = (diagnostics_pending /\ ~published)

PublishDiagnostics(force) ==
    \E due \in {TRUE, force}, locked \in BOOLEAN :
        LET published == (due \/ diagnostics_pending) /\ locked
        IN  /\ unreported' = ((unreported \/ Changed) /\ ~published)
            /\ diagnostics_pending' =
                   ((diagnostics_pending \/ force) /\ ~published)

\* The controller manager moves the component on after a success; after an
\* error it may finalize it (on_error is not overridden).
Returned(success, next) ==
    IF success THEN lifecycle' = next ELSE lifecycle' \in {lifecycle, "finalized"}

NoCommands == [w \in Wheels |-> 0]

\* How read() and write() leave when they find a fault.
EnterSafeStop(reason) ==
    /\ commands' = NoCommands
    /\ UNCHANGED bad_ack
    /\ stop_reason' = reason
    /\ fault_latched' = TRUE
    /\ diagnostic_state' = "safe_stop"
    /\ PublishDiagnostics(TRUE)
    /\ Returned(FALSE, lifecycle)

\* The first cause of an episode is kept.
FirstReason(reason) == IF stop_reason = NoReason THEN reason ELSE stop_reason

\* The record of the ACKs received, kept beside the code's own classification.
BadAckAfter(w, seq, ack_result) ==
    LET awaited == health.pending[w] # <<>> /\ Head(health.pending[w]).sequence = seq
        fits == IF awaited THEN ack_result = 0 ELSE health.ignored[w] = seq
    IN  IF fits \/ bad_ack # NoBadAck THEN bad_ack
                                      ELSE [wheel |-> w, awaited |-> awaited]

-----------------------------------------------------------------------------
Init ==
    /\ lifecycle = "inactive"
    /\ pc = "idle"
    /\ frames = 0
    /\ commands = NoCommands
    /\ velocities = [w \in Wheels |-> 0]
    /\ sequences = [w \in Wheels |-> 0]
    /\ health = Reset
    /\ fault_latched = FALSE
    /\ fault_stop_attempted = FALSE
    /\ fault_stop_succeeded = FALSE
    /\ stop_reason = NoReason
    /\ diagnostic_state = "inactive"
    /\ diagnostics_pending = FALSE
    /\ sender = FALSE
    /\ receiver = FALSE
    /\ unreported = FALSE
    /\ sent = <<>>
    /\ trail = [w \in Wheels |-> "idle"]
    /\ updated = {}
    /\ bad_ack = NoBadAck

-----------------------------------------------------------------------------
(***************************************************************************)
(* on_activate                                                             *)
(***************************************************************************)

\* Seeded fault: the commands of the previous activation survive.
ActivationCommandsKept == commands

ActivationCommands == NoCommands

ActivationFailed ==
    /\ sender' = FALSE /\ receiver' = FALSE
    /\ fault_latched' = TRUE
    /\ fault_stop_succeeded' = FALSE
    /\ diagnostic_state' = "safe_stop"
    /\ stop_reason' = Reason("activation_failed")
    /\ PublishDiagnostics(TRUE)
    /\ Returned(FALSE, lifecycle)

\* Opening one of the two sockets throws before anything else is done.
SocketsUnavailable ==
    /\ fault_stop_attempted' = FALSE
    /\ UNCHANGED bad_ack
    /\ Transmitted([Link EXCEPT !.trail = [w \in Wheels |-> "idle"]])
    /\ ActivationFailed

FreshLink ==
    [Link EXCEPT !.open = TRUE, !.health = Reset,
                 !.trail = [w \in Wheels |-> "idle"]]

SocketsOpened(delivered) ==
    LET l == SafeStop(FreshLink, delivered) IN
    /\ Transmitted(l)
    /\ bad_ack' = NoBadAck
    /\ IF l.success
       THEN /\ sender' = TRUE /\ receiver' = TRUE
            /\ fault_latched' = FALSE
            /\ fault_stop_attempted' = FALSE
            /\ fault_stop_succeeded' = FALSE
            /\ stop_reason' = NoReason
            /\ diagnostic_state' = "active"
            /\ PublishDiagnostics(TRUE)
            /\ Returned(TRUE, "active")
       ELSE /\ fault_stop_attempted' = TRUE
            /\ ActivationFailed

OnActivate ==
    /\ pc = "idle" /\ lifecycle = "inactive"
    /\ commands' = ActivationCommands
    /\ updated' = {}
    /\ \/ SocketsUnavailable
       \/ \E delivered \in Outcomes : SocketsOpened(delivered)
    /\ UNCHANGED <<pc, frames, velocities>>

(***************************************************************************)
(* stop_and_release: on_deactivate and on_shutdown.  The retries of        *)
(* flush_pending_diagnostics either get the lock before the deadline or    *)
(* leave the report pending: the outcomes of one forced publication.       *)
(***************************************************************************)
\* Seeded fault: the motors are stopped again after a fault stop.
ReleaseStopAlways(delivered, next) ==
    /\ Transmitted(SafeStop(Link, delivered))
    /\ UNCHANGED <<fault_stop_attempted, fault_stop_succeeded>>
    /\ Returned(SafeStop(Link, delivered).success, next)

ReleaseStop(delivered, next) ==
    IF fault_latched
    THEN /\ AttemptFaultSafeStop(Link, delivered)
         /\ Returned(fault_stop_succeeded', next)
    ELSE /\ Transmitted(SafeStop(Link, delivered))
         /\ UNCHANGED <<fault_stop_attempted, fault_stop_succeeded>>
         /\ Returned(SafeStop(Link, delivered).success, next)

\* Seeded fault: releasing the sockets hides the latched fault.
ReleasedStateInactive == "inactive"

ReleasedState == IF fault_latched THEN "safe_stop" ELSE "inactive"

StopAndRelease(next) ==
    /\ pc = "idle"
    /\ commands' = NoCommands
    /\ \E delivered \in Outcomes : ReleaseStop(delivered, next)
    /\ receiver' = FALSE /\ sender' = FALSE
    /\ diagnostic_state' = ReleasedState
    /\ UNCHANGED <<pc, frames, velocities, fault_latched, stop_reason, updated,
                   bad_ack>>
    /\ PublishDiagnostics(TRUE)

OnDeactivate == lifecycle = "active" /\ StopAndRelease("inactive")
OnShutdown == lifecycle \in {"inactive", "active"} /\ StopAndRelease("finalized")

-----------------------------------------------------------------------------
(***************************************************************************)
(* read                                                                    *)
(***************************************************************************)
\* Seeded fault: the latch is not looked at.
MayOperateAlways == TRUE

MayOperate == ~fault_latched

\* The early return of read() and write() while a fault is latched.
Refuse ==
    /\ UNCHANGED <<pc, frames, commands, velocities, health, latch, sockets,
                   wire, updated>>
    /\ sent' = <<>>
    /\ PublishDiagnostics(TRUE)
    /\ Returned(FALSE, lifecycle)

SocketMissing(cause) ==
    /\ \E delivered \in Outcomes : AttemptFaultSafeStop(Link, delivered)
    /\ EnterSafeStop(Reason(cause))
    /\ UNCHANGED <<pc, frames, velocities, sockets, updated>>

ReadStart ==
    /\ pc = "idle" /\ lifecycle \in {"inactive", "active"}
    /\ \/ ~MayOperate /\ Refuse
       \/ MayOperate /\ ~receiver /\ SocketMissing("can_receive_unavailable")
       \/ /\ MayOperate /\ receiver
          /\ pc' = "reading" /\ frames' = 0
          /\ sent' = <<>>
          /\ UNCHANGED <<lifecycle, commands, velocities, health, latch, sockets,
                         diagnostics, wire, updated>>

\* Seeded fault: the loop runs for as long as the socket has frames.
TakeFrameUncapped ==
    /\ pc = "reading"
    /\ frames' = (frames + 1) % (MaxFramesPerRead + 1)

\* The loop of read() takes one more frame from the socket.
TakeFrame ==
    /\ pc = "reading" /\ frames < MaxFramesPerRead
    /\ frames' = frames + 1

\* A malformed payload, another identifier, a remote frame, or an error
\* frame without a bit of interest.
ReceiveIgnored ==
    /\ TakeFrame
    /\ sent' = <<>>
    /\ UNCHANGED <<lifecycle, pc, commands, velocities, health, latch, sockets,
                   diagnostics, wire, updated>>

ReceiveFeedback(w, v) ==
    /\ TakeFrame
    /\ velocities' = [velocities EXCEPT ![w] = v]
    /\ health' = FeedbackReceived(health, w)
    /\ sent' = <<>>
    /\ UNCHANGED <<lifecycle, pc, commands, latch, sockets, diagnostics,
                   wire, updated>>

ReceiveAck(w, seq, ack_result) ==
    LET verdict == AckVerdict(health, w, seq, ack_result) IN
    /\ TakeFrame
    /\ health' = AckReceived(health, w, seq, ack_result)
    /\ stop_reason' =
         CASE verdict = "REJECTED"   -> FirstReason(ReasonOf("ack_rejected", w))
           [] verdict = "UNEXPECTED" -> FirstReason(ReasonOf("unexpected_ack", w))
           [] OTHER                  -> stop_reason
    /\ bad_ack' = BadAckAfter(w, seq, ack_result)
    /\ sent' = <<>>
    /\ UNCHANGED <<lifecycle, pc, commands, velocities, fault_latched,
                   fault_stop_attempted, fault_stop_succeeded, diagnostic_state,
                   sockets, diagnostics_pending, wire, updated>>
    /\ unreported' = (unreported \/ Changed)

\* read() returns from inside the loop.
AbortRead(reason) ==
    /\ pc = "reading" /\ pc' = "idle"
    /\ frames' = 0
    /\ \E delivered \in Outcomes : AttemptFaultSafeStop(Link, delivered)
    /\ EnterSafeStop(reason)
    /\ UNCHANGED <<velocities, sockets, updated>>

\* classify_can_error
FatalBits == {"BUSOFF", "TX_TIMEOUT"}

ReceiveWarning(mask) ==
    /\ mask # {} /\ mask \cap FatalBits = {}
    /\ TakeFrame
    /\ sent' = <<>>
    /\ UNCHANGED <<lifecycle, pc, commands, velocities, health, latch, sockets,
                   wire, updated>>
    /\ PublishDiagnostics(TRUE)

\* A fatal error replaces the cause recorded by an earlier ACK of this read.
ReceiveFatal(mask) ==
    /\ mask \cap FatalBits # {}
    /\ frames < MaxFramesPerRead
    /\ AbortRead(Reason(IF "BUSOFF" \in mask THEN "can_bus_off"
                                             ELSE "can_tx_timeout"))

ReceiveException ==
    /\ frames < MaxFramesPerRead
    /\ AbortRead(FirstReason(Reason("can_receive_error")))

TimedOut(w) == FeedbackTimedOut(health, w) \/ AckTimedOut(health, w)

\* Wheel 0 is examined before wheel 1, feedback before ACKs.
TimeoutReason ==
    LET w == IF TimedOut(0) THEN 0 ELSE 1
    IN  ReasonOf(IF FeedbackTimedOut(health, w)
                 THEN "feedback_timeout" ELSE "ack_timeout", w)

\* Seeded fault: only the last wheel examined decides.
ReadFaultLastWheel == health.ack_fault \/ TimedOut(1)

\* Seeded fault: only the deadlines decide.
ReadFaultDeadlines == \E w \in Wheels : TimedOut(w)

ReadFault == health.ack_fault \/ \E w \in Wheels : TimedOut(w)

\* The socket had no frame left, or the loop reached its limit.
ReadFinish ==
    \/ /\ ReadFault
       /\ AbortRead(IF \E w \in Wheels : TimedOut(w)
                    THEN FirstReason(TimeoutReason) ELSE stop_reason)
    \/ /\ ~ReadFault
       /\ pc = "reading" /\ pc' = "idle"
       /\ frames' = 0
       /\ sent' = <<>>
       /\ UNCHANGED <<commands, velocities, health, latch, sockets, wire, updated>>
       /\ PublishDiagnostics(FALSE)
       /\ Returned(TRUE, lifecycle)

(***************************************************************************)
(* write                                                                   *)
(***************************************************************************)
\* The second command is not sent when the first one failed.
SendCommands(delivered) ==
    LET left == SendCommand(Link, 0, TRUE, commands[0], delivered[0])
    IN  IF left.success
        THEN SendCommand(left, 1, TRUE, commands[1], delivered[1])
        ELSE left

Drive(delivered, stopped) ==
    LET l == SendCommands(delivered) IN
    \/ /\ l.success
       /\ Transmitted(l)
       /\ UNCHANGED <<commands, latch, diagnostics>>
       /\ Returned(TRUE, lifecycle)
    \/ /\ ~l.success
       /\ AttemptFaultSafeStop(l, stopped)
       /\ EnterSafeStop(FirstReason(Reason("can_send_error")))

Write ==
    /\ pc = "idle" /\ lifecycle \in {"inactive", "active"}
    /\ \/ ~MayOperate /\ Refuse
       \/ MayOperate /\ ~sender /\ SocketMissing("can_send_unavailable")
       \/ /\ MayOperate /\ sender
          /\ \A w \in Wheels : Len(health.pending[w]) < MaxPending
          /\ \E delivered, stopped \in Outcomes : Drive(delivered, stopped)
          /\ UNCHANGED <<pc, frames, velocities, sockets, updated>>

-----------------------------------------------------------------------------
(***************************************************************************)
(* The environment: a controller writes its command interface between two  *)
(* callbacks (whatever the lifecycle state: the interface is exported from *)
(* on_init on; the same value again changes nothing), and time passes.     *)
(***************************************************************************)
ControllerUpdate(w, v) ==
    /\ pc = "idle" /\ lifecycle # "finalized"
    /\ v # commands[w]
    /\ commands' = [commands EXCEPT ![w] = v]
    /\ updated' = updated \cup {w}
    /\ sent' = <<>>
    /\ UNCHANGED <<lifecycle, pc, frames, velocities, health, latch, sockets,
                   diagnostics, wire>>

\* While a fault is latched no decision looks at a deadline (only the text of
\* a report does), and activation resets them.
Tick ==
    /\ ~fault_latched
    /\ health' = Aged(health)
    /\ sent' = <<>>
    /\ UNCHANGED <<lifecycle, pc, frames, commands, velocities, latch, sockets,
                   diagnostics, wire, updated>>

\* One pass of the loop of read(): a poll of the socket and what follows it.
ReadStep ==
    \/ ReceiveIgnored
    \/ \E w \in Wheels, v \in FeedbackVelocities : ReceiveFeedback(w, v)
    \/ \E w \in Wheels, seq \in SequenceNumbers, ack_result \in {0, 1} :
           ReceiveAck(w, seq, ack_result)
    \/ \E mask \in SUBSET ErrorBits : ReceiveWarning(mask)
    \/ \E mask \in SUBSET ErrorBits : ReceiveFatal(mask)
    \/ ReceiveException
    \/ ReadFinish

Next ==
    \/ OnActivate
    \/ OnDeactivate
    \/ OnShutdown
    \/ ReadStart
    \/ ReadStep
    \/ Write
    \/ \E w \in Wheels, v \in Velocities : ControllerUpdate(w, v)
    \/ Tick

Spec == Init /\ [][Next]_vars

\* The control loop calls read() in every cycle, a poll of the socket comes
\* back within kReceivePollTimeout (with a frame or without one), and time
\* passes.  Nothing is assumed of the bus (it may always have another frame),
\* the controllers or the lifecycle callbacks.
FairSpec == Spec /\ WF_vars(ReadStart) /\ WF_vars(ReadStep) /\ WF_vars(Tick)

-----------------------------------------------------------------------------
(***************************************************************************)
(* Properties                                                              *)
(***************************************************************************)

\* Every variable keeps the range of its C++ type; sequence numbers stay in
\* the width of uint8_t (++sequences_[index]).
TypeOK ==
    /\ lifecycle \in {"inactive", "active", "finalized"}
    /\ pc \in {"idle", "reading"}
    /\ frames \in 0 .. MaxFramesPerRead
    /\ commands \in [Wheels -> Velocities]
    /\ velocities \in [Wheels -> FeedbackVelocities]
    /\ sequences \in [Wheels -> SequenceNumbers]
    /\ health \in Health
    /\ fault_latched \in BOOLEAN
    /\ fault_stop_attempted \in BOOLEAN
    /\ fault_stop_succeeded \in BOOLEAN
    /\ stop_reason \in StopReason
    /\ diagnostic_state \in DiagnosticState
    /\ diagnostics_pending \in BOOLEAN
    /\ sender \in BOOLEAN
    /\ receiver \in BOOLEAN
    /\ unreported \in BOOLEAN
    /\ sent \in Seq(Frame)
    /\ trail \in [Wheels -> TrailState]
    /\ updated \in SUBSET Wheels
    /\ bad_ack \in BadAck

\* In one activation each motor is sent one disabled frame, then enabled
\* ones, then at most one disabled frame, and after that nothing: a fault
\* stop is never repeated, never followed by a command, and a release after
\* it does not stop the motors again (send_safe_stop has four callers).
StopProtocol == \A w \in Wheels : trail[w] # "broken"

\* Between two callbacks the latch, the stop reason and the state shown to
\* the operator tell the same story, although nine places of the code set
\* them one after the other; inside read() only a cause found in an ACK may
\* be ahead of the latch.
FaultIsReported ==
    /\ pc = "idle" => /\ fault_latched <=> stop_reason # NoReason
                      /\ fault_latched <=> diagnostic_state = "safe_stop"
    /\ pc = "reading" => /\ ~fault_latched
                         /\ stop_reason # NoReason => health.ack_fault

\* A change of the operator-visible state is published or still owed
\* (diagnostics_pending_), however often trylock() fails.
DiagnosticsNotLost == pc = "idle" /\ unreported => diagnostics_pending

\* A motor is only told to turn by a command that a controller gave in the
\* present activation: commands from before a fault, a deactivation or a
\* failed activation are never sent.
FreshCommands ==
    /\ \A i \in 1 .. Len(sent) :
           sent[i].enabled /\ sent[i].velocity # 0 => sent[i].wheel \in updated
    /\ \A w \in Wheels : commands[w] # 0 => w \in updated

\* While the plugin operates, the ACKs it waits for are those of the latest
\* commands, without a gap, oldest first: ack_received and ack_timed_out
\* look at the front entry only and rely on it.
PendingContiguous ==
    ~fault_latched /\ sender =>
        \A w \in Wheels :
            LET p == health.pending[w] IN
            /\ p # <<>> => p[Len(p)].sequence = sequences[w]
            /\ \A i \in 1 .. Len(p) - 1 :
                   /\ p[i + 1].sequence = (p[i].sequence + 1) % SeqMod
                   /\ p[i].age >= p[i + 1].age

\* The recorded cause names what really happened, and the wheel it happened
\* to: a deadline that has passed, or the first bad ACK of the activation,
\* told apart as a refused command and an answer to none.  A deadline or a
\* broken socket never stands in for a bad ACK received before it.
StopReasonIsTrue ==
    LET w == stop_reason.wheel
        cause == stop_reason.cause IN
    /\ cause = "feedback_timeout" => FeedbackTimedOut(health, w)
    /\ cause = "ack_timeout"      => AckTimedOut(health, w)
    /\ cause = "ack_rejected"   => bad_ack = [wheel |-> w, awaited |-> TRUE]
    /\ cause = "unexpected_ack" => bad_ack = [wheel |-> w, awaited |-> FALSE]
    /\ cause \in {"feedback_timeout", "ack_timeout", "can_receive_error",
                  "can_send_error"} => bad_ack = NoBadAck

\* A latched fault ends in a successful activation only; until then its
\* cause stays as it was recorded, or makes way for that of a failed
\* activation, and no motor is enabled.
FaultSticky ==
    [][fault_latched =>
        /\ fault_latched' \/ (lifecycle = "inactive" /\ lifecycle' = "active")
        /\ \/ stop_reason' = stop_reason
           \/ /\ lifecycle = "inactive"
              /\ stop_reason' = IF fault_latched' THEN Reason("activation_failed")
                                                  ELSE NoReason
        /\ \A i \in 1 .. Len(sent') : ~sent'[i].enabled]_vars

\* A deactivation that reports success has stopped both motors, also when
\* the stop was sent by an earlier fault.
StopResultHonest ==
    [][lifecycle = "active" /\ lifecycle' = "inactive" =>
           \A w \in Wheels : trail'[w] = "stopped"]_vars

\* A read() that returns OK leaves no fault behind: no motor is silent for
\* longer than the feedback timeout and no command, wherever it stands in
\* the queue, waits for its ACK longer than the ACK timeout.
GoodReadIsHealthy ==
    [][pc = "reading" /\ pc' = "idle" /\ ~fault_latched' =>
        /\ ~health.ack_fault
        /\ \A w \in Wheels :
               /\ health.feedback_age[w] <= FeedbackTimeout
               /\ \A i \in 1 .. Len(health.pending[w]) :
                      health.pending[w][i].age <= AckTimeout]_vars

\* When a motor falls silent for good the plugin does not operate for ever,
\* whatever other traffic there is on the bus: the deadline is examined
\* because the loop of read() is bounded.
Operating == receiver /\ ~fault_latched

SilenceIsDetected ==
    \A w \in Wheels :
        <>[][\A v \in FeedbackVelocities : ~ReceiveFeedback(w, v)]_vars
            => []<>~Operating

\* The plugin keeps its promise to the motors: DriveContract, with the latch
\* and the socket as its phase and the frames without their sequence numbers.
Contract == INSTANCE DriveContract WITH
    phase  <- IF fault_latched THEN "stopped"
              ELSE IF sender THEN "operating" ELSE "released",
    wanted <- commands,
    sent   <- [i \in 1 .. Len(sent) |->
                 [ wheel |-> sent[i].wheel, enabled |-> sent[i].enabled,
                   velocity |-> sent[i].velocity ]]

KeepsDriveContract == Contract!Spec
=============================================================================
