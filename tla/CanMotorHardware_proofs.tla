----------------------- MODULE CanMotorHardware_proofs -----------------------
(***************************************************************************)
(* Theorems about CanMotorHardware, for every value of its constants.      *)
(* First what the operators on the health record and on a link return,     *)
(* then type correctness, then the safety invariants.                      *)
(***************************************************************************)
EXTENDS CanMotorHardware, TLAPS

-----------------------------------------------------------------------------
(***************************************************************************)
(* The health record                                                       *)
(***************************************************************************)

LEMMA ResetType == Reset \in Health
BY HealthAssumption DEF Reset, Health, Wheels, FeedbackAge, PendingAck, AckAge,
   SequenceNumbers, NoSequence

LEMMA CommandSentType ==
    ASSUME NEW h \in Health, NEW w \in Wheels, NEW seq \in SequenceNumbers
    PROVE  CommandSent(h, w, seq) \in Health
<1>1. [sequence |-> seq, age |-> 0] \in PendingAck
    BY HealthAssumption DEF PendingAck, AckAge
<1>2. Append(h.pending[w], [sequence |-> seq, age |-> 0]) \in Seq(PendingAck)
    BY <1>1 DEF Health
<1> QED BY <1>2 DEF CommandSent, Health

LEMMA SafeStopSentType ==
    ASSUME NEW h \in Health, NEW w \in Wheels, NEW seq \in SequenceNumbers
    PROVE  SafeStopSent(h, w, seq) \in Health
BY DEF SafeStopSent, Health

LEMMA FeedbackReceivedType ==
    ASSUME NEW h \in Health, NEW w \in Wheels
    PROVE  FeedbackReceived(h, w) \in Health
<1>1. 0 \in FeedbackAge
    BY HealthAssumption DEF FeedbackAge
<1> QED BY <1>1 DEF FeedbackReceived, Health

LEMMA AckReceivedType ==
    ASSUME NEW h \in Health, NEW w \in Wheels, NEW seq \in SequenceNumbers,
           NEW r \in {0, 1}
    PROVE  AckReceived(h, w, seq, r) \in Health
<1>1. h.pending[w] # <<>> => Tail(h.pending[w]) \in Seq(PendingAck)
    BY DEF Health
<1> QED BY <1>1 DEF AckReceived, AnswersFront, Health

LEMMA AgedType == ASSUME NEW h \in Health PROVE Aged(h) \in Health
<1>1. ASSUME NEW w \in Wheels
      PROVE  [i \in 1 .. Len(h.pending[w]) |->
                 [ sequence |-> h.pending[w][i].sequence,
                   age |-> Older(h.pending[w][i].age, AckTimeout) ]]
             \in Seq(PendingAck)
    <2>1. h.pending[w] \in Seq(PendingAck)
        BY DEF Health
    <2>2. ASSUME NEW i \in 1 .. Len(h.pending[w])
          PROVE  [ sequence |-> h.pending[w][i].sequence,
                   age |-> Older(h.pending[w][i].age, AckTimeout) ] \in PendingAck
        <3>1. h.pending[w][i] \in PendingAck
            BY <2>1
        <3> QED BY <3>1, HealthAssumption DEF PendingAck, AckAge, Older
    <2> QED BY <2>1, <2>2
<1>2. ASSUME NEW w \in Wheels
      PROVE  Older(h.feedback_age[w], FeedbackTimeout) \in FeedbackAge
    BY HealthAssumption DEF Health, FeedbackAge, Older
<1> QED BY <1>1, <1>2 DEF Aged, Health

-----------------------------------------------------------------------------
(***************************************************************************)
(* Links                                                                   *)
(***************************************************************************)

LEMMA NextSequenceType ==
    ASSUME NEW s \in SequenceNumbers PROVE NextSequence(s) \in SequenceNumbers
BY HealthAssumption DEF NextSequence, SequenceNumbers

LEMMA WireVelocityType ==
    ASSUME NEW v \in Int PROVE WireVelocity(v) \in WireMin .. WireMax
BY HardwareAssumption DEF WireVelocity, WireMin

LEMMA TrailAfterType ==
    ASSUME NEW s \in TrailState, NEW enabled \in BOOLEAN
    PROVE  TrailAfter(s, enabled) \in TrailState
BY DEF TrailAfter, TrailState

LEMMA SendCommandType ==
    ASSUME NEW l \in LinkRecord, NEW w \in Wheels, NEW enabled \in BOOLEAN,
           NEW v \in Int, NEW delivered \in BOOLEAN
    PROVE  SendCommand(l, w, enabled, v, delivered) \in LinkRecord
<1> DEFINE seq == NextSequence(l.sequences[w])
           frame == [wheel |-> w, sequence |-> seq, enabled |-> enabled,
                     velocity |-> WireVelocity(v)]
<1>1. seq \in SequenceNumbers
    BY NextSequenceType DEF LinkRecord
<1>2. CASE ~l.open
    BY <1>2 DEF SendCommand, LinkRecord
<1>3. CASE l.open /\ ~delivered
    BY <1>1, <1>3 DEF SendCommand, LinkRecord
<1>4. CASE l.open /\ delivered
    <2>1. CommandSent(l.health, w, seq) \in Health
        BY <1>1, CommandSentType DEF LinkRecord
    <2>2. SafeStopSent(l.health, w, seq) \in Health
        BY <1>1, SafeStopSentType DEF LinkRecord
    <2>3. TrailAfter(l.trail[w], enabled) \in TrailState
        BY TrailAfterType DEF LinkRecord
    <2>4. Append(l.sent, frame) \in Seq(Frame)
        BY <1>1, WireVelocityType DEF LinkRecord, Frame
    <2> HIDE DEF frame
    <2>5. SendCommand(l, w, enabled, v, delivered) =
            [l EXCEPT
                !.sequences[w] = seq,
                !.health = IF enabled THEN CommandSent(@, w, seq)
                                      ELSE SafeStopSent(@, w, seq),
                !.trail[w] = TrailAfter(@, enabled),
                !.sent = Append(@, frame),
                !.success = TRUE]
        BY <1>4 DEF SendCommand, frame
    <2> DEFINE after == IF enabled THEN CommandSent(l.health, w, seq)
                                   ELSE SafeStopSent(l.health, w, seq)
    <2>6. after \in Health
        BY <2>1, <2>2
    <2> HIDE DEF after, seq
    <2>7. SendCommand(l, w, enabled, v, delivered) =
            [ open |-> l.open, sequences |-> [l.sequences EXCEPT ![w] = seq],
              health |-> after,
              trail |-> [l.trail EXCEPT ![w] = TrailAfter(l.trail[w], enabled)],
              sent |-> Append(l.sent, frame), success |-> TRUE ]
        BY <2>5 DEF LinkRecord, after
    <2> QED BY <1>1, <2>3, <2>4, <2>6, <2>7 DEF LinkRecord
<1> QED BY <1>2, <1>3, <1>4 DEF LinkRecord

LEMMA SafeStopType ==
    ASSUME NEW l \in LinkRecord, NEW d \in Outcomes
    PROVE  SafeStop(l, d) \in LinkRecord
<1> DEFINE left == SendCommand(l, 0, FALSE, 0, d[0])
           right == SendCommand(left, 1, FALSE, 0, d[1])
<1>0. /\ 0 \in Wheels /\ 1 \in Wheels /\ d[0] \in BOOLEAN /\ d[1] \in BOOLEAN
      /\ 0 \in Int /\ FALSE \in BOOLEAN
    BY DEF Outcomes, Wheels
<1>1. left \in LinkRecord
    BY <1>0, SendCommandType, Zenon
<1> HIDE DEF left
<1>2. right \in LinkRecord
    BY <1>0, <1>1, SendCommandType, Zenon
<1> HIDE DEF right
<1>3. SafeStop(l, d) = [right EXCEPT !.success = left.success /\ right.success]
    BY DEF SafeStop, left, right
<1> QED BY <1>1, <1>2, <1>3 DEF LinkRecord

LEMMA LinkType == TypeOK => Link \in LinkRecord
BY DEF TypeOK, Link, LinkRecord

LEMMA FreshLinkType ==
    TypeOK => /\ FreshLink \in LinkRecord
              /\ [Link EXCEPT !.trail = [w \in Wheels |-> "idle"]] \in LinkRecord
BY LinkType, ResetType DEF FreshLink, LinkRecord, TrailState

LEMMA SendCommandsType ==
    ASSUME TypeOK, NEW d \in Outcomes
    PROVE  SendCommands(d) \in LinkRecord
<1> DEFINE left == SendCommand(Link, 0, TRUE, commands[0], d[0])
<1>1. /\ commands[0] \in Int /\ commands[1] \in Int
      /\ 0 \in Wheels /\ 1 \in Wheels /\ d[0] \in BOOLEAN /\ d[1] \in BOOLEAN
      /\ TRUE \in BOOLEAN
    BY HardwareAssumption DEF TypeOK, Wheels, Outcomes
<1>2. left \in LinkRecord
    BY <1>1, LinkType, SendCommandType, Zenon
<1> HIDE DEF left
<1>3. SendCommand(left, 1, TRUE, commands[1], d[1]) \in LinkRecord
    BY <1>1, <1>2, SendCommandType, Zenon
<1> QED BY <1>2, <1>3 DEF SendCommands, left

-----------------------------------------------------------------------------
(***************************************************************************)
(* Type correctness                                                        *)
(***************************************************************************)
WireOK ==
    /\ sequences \in [Wheels -> SequenceNumbers]
    /\ health \in Health
    /\ trail \in [Wheels -> TrailState]
    /\ sent \in Seq(Frame)

LEMMA TransmittedType ==
    ASSUME NEW l \in LinkRecord, Transmitted(l) PROVE WireOK'
BY DEF Transmitted, WireOK, LinkRecord

LEMMA AttemptType ==
    ASSUME TypeOK, NEW l \in LinkRecord, NEW d \in Outcomes,
           AttemptFaultSafeStop(l, d)
    PROVE  /\ WireOK'
           /\ fault_stop_attempted' \in BOOLEAN
           /\ fault_stop_succeeded' \in BOOLEAN
<1>1. SafeStop(l, d) \in LinkRecord
    BY SafeStopType
<1>2. SafeStop(l, d).success \in BOOLEAN
    BY <1>1 DEF LinkRecord
<1> QED BY <1>1, <1>2, TransmittedType DEF AttemptFaultSafeStop, TypeOK

LEMMA PublishType ==
    ASSUME TypeOK, NEW force \in BOOLEAN, PublishDiagnostics(force)
    PROVE  unreported' \in BOOLEAN /\ diagnostics_pending' \in BOOLEAN
BY DEF PublishDiagnostics

LEMMA ReturnedType ==
    ASSUME TypeOK, NEW success, NEW next \in {"inactive", "active", "finalized"},
           Returned(success, next)
    PROVE  lifecycle' \in {"inactive", "active", "finalized"}
BY DEF Returned, TypeOK

LEMMA EnterSafeStopType ==
    ASSUME TypeOK, NEW reason \in StopReason, EnterSafeStop(reason)
    PROVE  /\ lifecycle' \in {"inactive", "active", "finalized"}
           /\ commands' \in [Wheels -> Velocities]
           /\ fault_latched' \in BOOLEAN
           /\ stop_reason' \in StopReason
           /\ diagnostic_state' \in DiagnosticState
           /\ unreported' \in BOOLEAN /\ diagnostics_pending' \in BOOLEAN
           /\ bad_ack' \in BadAck
<1>1. lifecycle \in {"inactive", "active", "finalized"}
    BY DEF TypeOK
<1>2. lifecycle' \in {"inactive", "active", "finalized"}
    BY <1>1, ReturnedType DEF EnterSafeStop
<1>3. commands' \in [Wheels -> Velocities]
    BY HardwareAssumption DEF EnterSafeStop, NoCommands
<1>4. bad_ack' \in BadAck
    BY DEF EnterSafeStop, TypeOK
<1> QED BY <1>2, <1>3, <1>4, PublishType DEF EnterSafeStop, DiagnosticState

LEMMA ReasonType ==
    ASSUME NEW cause \in {"none", "activation_failed", "can_receive_unavailable",
               "can_send_unavailable", "can_receive_error", "can_send_error",
               "can_bus_off", "can_tx_timeout", "ack_rejected",
               "unexpected_ack", "feedback_timeout", "ack_timeout"},
           NEW w \in Wheels
    PROVE  Reason(cause) \in StopReason /\ ReasonOf(cause, w) \in StopReason
BY DEF Reason, ReasonOf, StopReason

LEMMA FirstReasonType ==
    ASSUME TypeOK, NEW reason \in StopReason
    PROVE  FirstReason(reason) \in StopReason
BY DEF FirstReason, TypeOK

LEMMA NoBadAckType == NoBadAck \in BadAck
BY DEF NoBadAck, BadAck

LEMMA BadAckAfterType ==
    ASSUME TypeOK, NEW w \in Wheels, NEW seq, NEW r
    PROVE  BadAckAfter(w, seq, r) \in BadAck
<1> DEFINE awaited ==
        health.pending[w] # <<>> /\ Head(health.pending[w]).sequence = seq
<1>1. awaited \in BOOLEAN
    OBVIOUS
<1>2. BadAckAfter(w, seq, r) \in {bad_ack, [wheel |-> w, awaited |-> awaited]}
    BY DEF BadAckAfter
<1> HIDE DEF awaited
<1> QED BY <1>1, <1>2 DEF BadAck, TypeOK

\* What TypeOK says of the variables that on_activate assigns.
ActivationOK ==
    /\ WireOK
    /\ fault_latched \in BOOLEAN
    /\ fault_stop_attempted \in BOOLEAN
    /\ fault_stop_succeeded \in BOOLEAN
    /\ sender \in BOOLEAN /\ receiver \in BOOLEAN
    /\ diagnostic_state \in DiagnosticState
    /\ stop_reason \in StopReason
    /\ unreported \in BOOLEAN /\ diagnostics_pending \in BOOLEAN
    /\ lifecycle \in {"inactive", "active", "finalized"}
    /\ bad_ack \in BadAck

LEMMA ActivationFailedType ==
    ASSUME TypeOK, ActivationFailed, WireOK', fault_stop_attempted' \in BOOLEAN,
           bad_ack' \in BadAck
    PROVE  ActivationOK'
<1>1. lifecycle \in {"inactive", "active", "finalized"}
    BY DEF TypeOK
<1>2. lifecycle' \in {"inactive", "active", "finalized"}
    BY <1>1, ReturnedType DEF ActivationFailed
<1>3. stop_reason' \in StopReason
    BY DEF ActivationFailed, Reason, StopReason
<1>4. unreported' \in BOOLEAN /\ diagnostics_pending' \in BOOLEAN
    BY PublishType DEF ActivationFailed
<1> QED BY <1>2, <1>3, <1>4 DEF ActivationFailed, ActivationOK, DiagnosticState

LEMMA OnActivateType == ASSUME TypeOK, OnActivate PROVE TypeOK'
<1>1. ASSUME SocketsUnavailable PROVE ActivationOK'
    <2>1. WireOK'
        BY <1>1, FreshLinkType, TransmittedType DEF SocketsUnavailable
    <2>2. bad_ack' \in BadAck
        BY <1>1 DEF SocketsUnavailable, TypeOK
    <2> QED BY <1>1, <2>1, <2>2, ActivationFailedType DEF SocketsUnavailable
<1>2. ASSUME NEW d \in Outcomes, SocketsOpened(d) PROVE ActivationOK'
    <2> DEFINE l == SafeStop(FreshLink, d)
    <2>1. WireOK'
        BY <1>2, FreshLinkType, SafeStopType, TransmittedType DEF SocketsOpened
    <2>2. bad_ack' \in BadAck
        BY <1>2, NoBadAckType DEF SocketsOpened
    <2>3. CASE ~l.success
        BY <1>2, <2>1, <2>2, <2>3, ActivationFailedType DEF SocketsOpened
    <2>4. CASE l.success
        <3>1. lifecycle' \in {"inactive", "active", "finalized"}
            BY <1>2, <2>4, ReturnedType DEF SocketsOpened
        <3>2. stop_reason' \in StopReason
            BY <1>2, <2>4 DEF SocketsOpened, NoReason, Reason, StopReason
        <3>3. unreported' \in BOOLEAN /\ diagnostics_pending' \in BOOLEAN
            BY <1>2, <2>4, PublishType DEF SocketsOpened
        <3> QED BY <1>2, <2>1, <2>2, <2>4, <3>1, <3>2, <3>3
                DEF SocketsOpened, ActivationOK, DiagnosticState
    <2> QED BY <2>3, <2>4
<1>3. ActivationOK'
    BY <1>1, <1>2 DEF OnActivate
<1>4. /\ commands' \in [Wheels -> Velocities]
      /\ updated' \in SUBSET Wheels
      /\ UNCHANGED <<pc, frames, velocities>>
    BY HardwareAssumption DEF OnActivate, ActivationCommands, NoCommands
<1> QED BY <1>3, <1>4 DEF TypeOK, ActivationOK, WireOK

LEMMA StopAndReleaseType ==
    ASSUME TypeOK, NEW next \in {"inactive", "finalized"}, StopAndRelease(next)
    PROVE  TypeOK'
<1>1. PICK d \in Outcomes : ReleaseStop(d, next)
    BY DEF StopAndRelease
<1>2. /\ WireOK'
      /\ fault_stop_attempted' \in BOOLEAN /\ fault_stop_succeeded' \in BOOLEAN
    <2>1. CASE fault_latched
        BY <1>1, <2>1, LinkType, AttemptType DEF ReleaseStop
    <2>2. CASE ~fault_latched
        BY <1>1, <2>2, LinkType, SafeStopType, TransmittedType
           DEF ReleaseStop, TypeOK
    <2> QED BY <2>1, <2>2
<1>3. lifecycle' \in {"inactive", "active", "finalized"}
    BY <1>1 DEF ReleaseStop, Returned, TypeOK
<1>4. /\ diagnostic_state' \in DiagnosticState
      /\ unreported' \in BOOLEAN /\ diagnostics_pending' \in BOOLEAN
    BY PublishType DEF StopAndRelease, ReleasedState, DiagnosticState
<1>5. commands' \in [Wheels -> Velocities]
    BY HardwareAssumption DEF StopAndRelease, NoCommands
<1> QED BY <1>2, <1>3, <1>4, <1>5 DEF StopAndRelease, TypeOK, WireOK

LEMMA RefuseType == ASSUME TypeOK, Refuse PROVE TypeOK'
<1>1. lifecycle' \in {"inactive", "active", "finalized"}
    BY DEF Refuse, Returned, TypeOK
<1>2. unreported' \in BOOLEAN /\ diagnostics_pending' \in BOOLEAN
    BY PublishType DEF Refuse
<1> QED BY <1>1, <1>2 DEF Refuse, TypeOK, latch, sockets, wire

LEMMA SocketMissingType ==
    ASSUME TypeOK,
           NEW cause \in {"can_receive_unavailable", "can_send_unavailable"},
           SocketMissing(cause)
    PROVE  TypeOK'
<1>1. Reason(cause) \in StopReason
    BY DEF Reason, StopReason
<1>2. EnterSafeStop(Reason(cause))
    BY DEF SocketMissing
<1>3. /\ WireOK'
      /\ fault_stop_attempted' \in BOOLEAN /\ fault_stop_succeeded' \in BOOLEAN
    BY LinkType, AttemptType DEF SocketMissing
<1> HIDE DEF EnterSafeStop
<1> QED BY <1>1, <1>2, <1>3, EnterSafeStopType
        DEF SocketMissing, TypeOK, WireOK, sockets

LEMMA AbortReadType ==
    ASSUME TypeOK, NEW reason \in StopReason, AbortRead(reason)
    PROVE  TypeOK'
<1>1. EnterSafeStop(reason)
    BY DEF AbortRead
<1>2. /\ WireOK'
      /\ fault_stop_attempted' \in BOOLEAN /\ fault_stop_succeeded' \in BOOLEAN
    BY LinkType, AttemptType DEF AbortRead
<1>3. frames' \in 0 .. MaxFramesPerRead
    BY HardwareAssumption DEF AbortRead
<1> QED BY <1>1, <1>2, <1>3, EnterSafeStopType
        DEF AbortRead, TypeOK, WireOK, sockets

LEMMA ReadFinishType == ASSUME TypeOK, ReadFinish PROVE TypeOK'
<1>1. CASE ~ReadFault
    <2>1. lifecycle' \in {"inactive", "active", "finalized"}
        BY <1>1 DEF ReadFinish, Returned, TypeOK
    <2>2. unreported' \in BOOLEAN /\ diagnostics_pending' \in BOOLEAN
        BY <1>1, PublishType DEF ReadFinish
    <2>3. /\ pc' = "idle" /\ frames' = 0 /\ sent' = <<>>
          /\ UNCHANGED <<commands, velocities, health, latch, sockets, wire, updated>>
        BY <1>1 DEF ReadFinish
    <2>4. frames' \in 0 .. MaxFramesPerRead /\ sent' \in Seq(Frame)
        BY <2>3, HardwareAssumption
    <2> QED BY <2>1, <2>2, <2>3, <2>4 DEF TypeOK, latch, sockets, wire
<1>2. CASE ReadFault
    <2>1. TimeoutReason \in StopReason
        BY DEF TimeoutReason, ReasonOf, StopReason, Wheels
    <2>2. stop_reason \in StopReason /\ FirstReason(TimeoutReason) \in StopReason
        BY <2>1, FirstReasonType DEF TypeOK
    <2>3. PICK reason \in StopReason : AbortRead(reason)
        BY <1>2, <2>2 DEF ReadFinish
    <2> QED BY <2>3, AbortReadType
<1> QED BY <1>1, <1>2

LEMMA DriveType ==
    ASSUME TypeOK, NEW d \in Outcomes, NEW stopped \in Outcomes,
           Drive(d, stopped), UNCHANGED <<pc, frames, velocities, sockets, updated>>
    PROVE  TypeOK'
<1> DEFINE l == SendCommands(d)
<1>1. l \in LinkRecord
    BY SendCommandsType
<1> HIDE DEF l
<1>2. CASE l.success
    <2>1. WireOK'
        BY <1>1, <1>2, TransmittedType DEF Drive, l
    <2>2. /\ lifecycle' \in {"inactive", "active", "finalized"}
          /\ UNCHANGED <<commands, latch, diagnostics>>
        BY <1>2 DEF Drive, l, Returned, TypeOK
    <2> QED BY <2>1, <2>2 DEF TypeOK, WireOK, latch, sockets, diagnostics
<1>3. CASE ~l.success
    <2> DEFINE reason == FirstReason(Reason("can_send_error"))
    <2>1. reason \in StopReason
        <3>1. Reason("can_send_error") \in StopReason
            BY DEF Reason, StopReason
        <3> QED BY <3>1, FirstReasonType
    <2>2. EnterSafeStop(reason) /\ AttemptFaultSafeStop(l, stopped)
        BY <1>3 DEF Drive, l
    <2>3. /\ WireOK'
          /\ fault_stop_attempted' \in BOOLEAN
          /\ fault_stop_succeeded' \in BOOLEAN
        BY <1>1, <2>2, AttemptType
    <2> QED BY <2>1, <2>2, <2>3, EnterSafeStopType DEF TypeOK, WireOK, sockets
<1> QED BY <1>2, <1>3

LEMMA TakeFrameType ==
    ASSUME TypeOK, TakeFrame PROVE frames' \in 0 .. MaxFramesPerRead
BY HardwareAssumption DEF TakeFrame, TypeOK

LEMMA InitType == Init => TypeOK
<1>1. 0 \in SequenceNumbers /\ 0 \in 0 .. MaxFramesPerRead
    BY HealthAssumption, HardwareAssumption DEF SequenceNumbers
<1>2. NoReason \in StopReason
    BY DEF NoReason, Reason, StopReason
<1>3. <<>> \in Seq(Frame)
    OBVIOUS
<1> QED BY <1>1, <1>2, <1>3, ResetType, NoBadAckType, HardwareAssumption
        DEF Init, TypeOK, NoCommands, DiagnosticState, TrailState

LEMMA NextType == ASSUME TypeOK, [Next]_vars PROVE TypeOK'
<1>0. <<>> \in Seq(Frame)
    OBVIOUS
<1>1. CASE OnActivate
    BY <1>1, OnActivateType
<1>2. CASE OnDeactivate
    BY <1>2, StopAndReleaseType DEF OnDeactivate
<1>3. CASE OnShutdown
    BY <1>3, StopAndReleaseType DEF OnShutdown
<1>4. CASE ReadStart
    <2>1. CASE Refuse
        BY <2>1, RefuseType
    <2>2. CASE SocketMissing("can_receive_unavailable")
        BY <2>2, SocketMissingType
    <2>3. ASSUME pc' = "reading", frames' = 0, sent' = <<>>,
                 UNCHANGED <<lifecycle, commands, velocities, health, latch, sockets,
                             diagnostics, wire, updated>>
          PROVE  TypeOK'
        BY <1>0, <2>3, HardwareAssumption
           DEF TypeOK, latch, sockets, diagnostics, wire
    <2> QED BY <1>4, <2>1, <2>2, <2>3 DEF ReadStart
<1>5. CASE ReceiveIgnored
    BY <1>0, <1>5, TakeFrameType
       DEF ReceiveIgnored, TypeOK, latch, sockets, diagnostics, wire
<1>6. ASSUME NEW w \in Wheels, NEW v \in FeedbackVelocities, ReceiveFeedback(w, v)
      PROVE  TypeOK'
    <2>1. FeedbackReceived(health, w) \in Health
        BY FeedbackReceivedType DEF TypeOK
    <2> QED BY <1>0, <1>6, <2>1, TakeFrameType
            DEF ReceiveFeedback, TypeOK, latch, sockets, diagnostics, wire
<1>7. ASSUME NEW w \in Wheels, NEW seq \in SequenceNumbers,
             NEW r \in {0, 1}, ReceiveAck(w, seq, r)
      PROVE  TypeOK'
    <2>1. AckReceived(health, w, seq, r) \in Health
        BY AckReceivedType DEF TypeOK
    <2>2. stop_reason' \in StopReason
        <3>1. /\ ReasonOf("ack_rejected", w) \in StopReason
              /\ ReasonOf("unexpected_ack", w) \in StopReason
            BY DEF ReasonOf, StopReason
        <3>2. /\ FirstReason(ReasonOf("ack_rejected", w)) \in StopReason
              /\ FirstReason(ReasonOf("unexpected_ack", w)) \in StopReason
              /\ stop_reason \in StopReason
            BY <3>1, FirstReasonType DEF TypeOK
        <3> QED BY <1>7, <3>2 DEF ReceiveAck
    <2>3. bad_ack' \in BadAck
        BY <1>7, BadAckAfterType DEF ReceiveAck
    <2> QED BY <1>0, <1>7, <2>1, <2>2, <2>3, TakeFrameType
            DEF ReceiveAck, TypeOK, sockets, wire
<1>8. ASSUME NEW mask \in SUBSET ErrorBits, ReceiveWarning(mask) PROVE TypeOK'
    <2>1. unreported' \in BOOLEAN /\ diagnostics_pending' \in BOOLEAN
        BY <1>8, PublishType DEF ReceiveWarning
    <2> QED BY <1>0, <1>8, <2>1, TakeFrameType
            DEF ReceiveWarning, TypeOK, latch, sockets, wire
<1>9. ASSUME NEW mask \in SUBSET ErrorBits, ReceiveFatal(mask) PROVE TypeOK'
    <2>1. /\ Reason("can_bus_off") \in StopReason
          /\ Reason("can_tx_timeout") \in StopReason
        BY DEF Reason, StopReason
    <2>2. PICK reason \in StopReason : AbortRead(reason)
        BY <1>9, <2>1 DEF ReceiveFatal
    <2> QED BY <2>2, AbortReadType
<1>10. CASE ReceiveException
    <2>1. Reason("can_receive_error") \in StopReason
        BY DEF Reason, StopReason
    <2> QED BY <1>10, <2>1, FirstReasonType, AbortReadType DEF ReceiveException
<1>11. CASE ReadFinish
    BY <1>11, ReadFinishType
<1>12. CASE Write
    <2>1. CASE Refuse
        BY <2>1, RefuseType
    <2>2. CASE SocketMissing("can_send_unavailable")
        BY <2>2, SocketMissingType
    <2>3. ASSUME NEW d \in Outcomes, NEW stopped \in Outcomes, Drive(d, stopped),
                 UNCHANGED <<pc, frames, velocities, sockets, updated>>
          PROVE  TypeOK'
        BY <2>3, DriveType
    <2> QED BY <1>12, <2>1, <2>2, <2>3 DEF Write
<1>13. ASSUME NEW w \in Wheels, NEW v \in Velocities, ControllerUpdate(w, v)
       PROVE  TypeOK'
    BY <1>0, <1>13
       DEF ControllerUpdate, TypeOK, latch, sockets, diagnostics, wire
<1>14. CASE Tick
    <2>1. Aged(health) \in Health
        BY AgedType DEF TypeOK
    <2> QED BY <1>0, <1>14, <2>1
            DEF Tick, TypeOK, latch, sockets, diagnostics, wire
<1>15. CASE UNCHANGED vars
    BY <1>15 DEF vars, TypeOK, latch, sockets, diagnostics, wire
<1> QED BY <1>1, <1>2, <1>3, <1>4, <1>5, <1>6, <1>7, <1>8, <1>9, <1>10, <1>11,
           <1>12, <1>13, <1>14, <1>15 DEF Next, ReadStep

\* Every variable keeps its type, in particular the sequence counters and the
\* sequence numbers remembered for ACKs stay in the width of uint8_t.
THEOREM TypeCorrect == Spec => []TypeOK
BY InitType, NextType, PTL DEF Spec
=============================================================================
