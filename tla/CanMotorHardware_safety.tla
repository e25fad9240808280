----------------------- MODULE CanMotorHardware_safety -----------------------
(***************************************************************************)
(* The safety properties of CanMotorHardware as theorems, for every value  *)
(* of its constants.  Each section strengthens one property until it is    *)
(* inductive; the type invariant is used throughout.                       *)
(***************************************************************************)
EXTENDS CanMotorHardware_proofs

-----------------------------------------------------------------------------
(***************************************************************************)
(* What a send and a stop do to a link                                     *)
(***************************************************************************)
SameDeadlines(h, g) ==
    /\ h.feedback_age = g.feedback_age
    /\ h.ack_fault = g.ack_fault

SendEffect(l, r, w, enabled, delivered) ==
    /\ r.open = l.open
    /\ r.success = (l.open /\ delivered)
    /\ SameDeadlines(r.health, l.health)
    /\ ~enabled => r.health.pending = l.health.pending
    /\ r.success => r.trail = [l.trail EXCEPT ![w] = TrailAfter(@, enabled)]
    /\ ~r.success => /\ r.trail = l.trail
                     /\ r.health = l.health
                     /\ r.sent = l.sent

LEMMA SendCommandEffect ==
    ASSUME NEW l \in LinkRecord, NEW w \in Wheels, NEW enabled \in BOOLEAN,
           NEW v \in Int, NEW delivered \in BOOLEAN
    PROVE  SendEffect(l, SendCommand(l, w, enabled, v, delivered), w, enabled,
                      delivered)
<1> DEFINE r == SendCommand(l, w, enabled, v, delivered)
<1>1. CASE ~l.open
    BY <1>1 DEF SendCommand, SendEffect, LinkRecord, SameDeadlines
<1>2. CASE l.open /\ ~delivered
    BY <1>2 DEF SendCommand, SendEffect, LinkRecord, SameDeadlines
<1>3. CASE l.open /\ delivered
    <2> DEFINE seq == NextSequence(l.sequences[w])
               after == IF enabled THEN CommandSent(l.health, w, seq)
                                   ELSE SafeStopSent(l.health, w, seq)
               frames_ == Append(l.sent, [wheel |-> w, sequence |-> seq,
                                          enabled |-> enabled,
                                          velocity |-> WireVelocity(v)])
    <2>1. SameDeadlines(after, l.health)
        BY DEF CommandSent, SafeStopSent, SameDeadlines, LinkRecord, Health
    <2>2. ~enabled => after.pending = l.health.pending
        BY DEF SafeStopSent, LinkRecord, Health
    <2>3. r = [l EXCEPT !.sequences[w] = seq, !.health = after,
                        !.trail[w] = TrailAfter(@, enabled),
                        !.sent = frames_, !.success = TRUE]
        BY <1>3 DEF SendCommand, LinkRecord
    <2> HIDE DEF after, seq, frames_, r
    <2> QED BY <1>3, <2>1, <2>2, <2>3 DEF LinkRecord, SendEffect, r
<1> QED BY <1>1, <1>2, <1>3 DEF LinkRecord

Stopped(l, d, w) ==
    IF l.open /\ d[w] THEN TrailAfter(l.trail[w], FALSE) ELSE l.trail[w]

\* What each motor is sent, and that nothing else of the health record than
\* the ignored ACKs changes.
StopEffect(l, s, d) ==
    /\ s.success => l.open /\ \A w \in Wheels : d[w]
    /\ SameDeadlines(s.health, l.health)
    /\ s.health.pending = l.health.pending
    /\ \A w \in Wheels : s.trail[w] = Stopped(l, d, w)

LEMMA SafeStopEffect ==
    ASSUME NEW l \in LinkRecord, NEW d \in Outcomes
    PROVE  StopEffect(l, SafeStop(l, d), d)
<1> DEFINE left == SendCommand(l, 0, FALSE, 0, d[0])
           right == SendCommand(left, 1, FALSE, 0, d[1])
           s == SafeStop(l, d)
<1>0. /\ 0 \in Wheels /\ 1 \in Wheels /\ d[0] \in BOOLEAN /\ d[1] \in BOOLEAN
      /\ 0 \in Int /\ FALSE \in BOOLEAN
    BY DEF Outcomes, Wheels
<1>1. left \in LinkRecord
    BY <1>0, SendCommandType, Zenon
<1>2. right \in LinkRecord
    BY <1>0, <1>1, SendCommandType, Zenon
<1>3. SendEffect(l, left, 0, FALSE, d[0])
    BY <1>0, SendCommandEffect, Zenon
<1>4. SendEffect(left, right, 1, FALSE, d[1])
    BY <1>0, <1>1, SendCommandEffect, Zenon
<1>5. s = [right EXCEPT !.success = left.success /\ right.success]
    BY DEF SafeStop
<1> HIDE DEF left, right, s
<1>6. /\ s.success = (left.success /\ right.success)
      /\ s.health = right.health /\ s.trail = right.trail
    BY <1>2, <1>5 DEF LinkRecord
<1>7. l.trail \in [Wheels -> TrailState] /\ left.trail \in [Wheels -> TrailState]
    BY <1>1 DEF LinkRecord
<1>8. /\ \A w \in Wheels \ {0} : left.trail[w] = l.trail[w]
      /\ left.trail[0] = Stopped(l, d, 0)
    BY <1>0, <1>3, <1>7 DEF SendEffect, Stopped
<1>9. /\ \A w \in Wheels \ {1} : right.trail[w] = left.trail[w]
      /\ right.trail[1] = Stopped(left, d, 1)
    BY <1>0, <1>4, <1>7 DEF SendEffect, Stopped
<1>10. left.open = l.open
    BY <1>3 DEF SendEffect
<1>11. \A w \in Wheels : s.trail[w] = Stopped(l, d, w)
    <2>1. left.trail[1] = l.trail[1] /\ right.trail[0] = left.trail[0]
        BY <1>8, <1>9 DEF Wheels
    <2>2. Stopped(left, d, 1) = Stopped(l, d, 1)
        BY <1>10, <2>1 DEF Stopped
    <2>3. s.trail[0] = Stopped(l, d, 0) /\ s.trail[1] = Stopped(l, d, 1)
        BY <1>6, <1>8, <1>9, <2>1, <2>2
    <2> QED BY <2>3 DEF Wheels
<1> QED BY <1>3, <1>4, <1>6, <1>11
        DEF SendEffect, StopEffect, SameDeadlines, Wheels, s

LEMMA SendCommandsEffect ==
    ASSUME TypeOK, NEW d \in Outcomes
    PROVE  /\ SendCommands(d).open = sender
           /\ SameDeadlines(SendCommands(d).health, health)
           /\ \A w \in Wheels : trail[w] \in {"armed", "driving"} =>
                  SendCommands(d).trail[w] \in {"armed", "driving"}
<1> DEFINE left == SendCommand(Link, 0, TRUE, commands[0], d[0])
           right == SendCommand(left, 1, TRUE, commands[1], d[1])
<1>1. /\ commands[0] \in Int /\ commands[1] \in Int
      /\ 0 \in Wheels /\ 1 \in Wheels /\ d[0] \in BOOLEAN /\ d[1] \in BOOLEAN
      /\ TRUE \in BOOLEAN
    BY HardwareAssumption DEF TypeOK, Wheels, Outcomes
<1>2. left \in LinkRecord /\ Link \in LinkRecord
    BY <1>1, LinkType, SendCommandType, Zenon
<1>3. SendEffect(Link, left, 0, TRUE, d[0])
    BY <1>1, <1>2, SendCommandEffect, Zenon
<1>4. SendEffect(left, right, 1, TRUE, d[1])
    BY <1>1, <1>2, SendCommandEffect, Zenon
<1> HIDE DEF left, right
<1>5. /\ Link.open = sender /\ Link.health = health /\ Link.trail = trail
      /\ trail \in [Wheels -> TrailState] /\ left.trail \in [Wheels -> TrailState]
    BY <1>2 DEF Link, TypeOK, LinkRecord
<1>6. \A t \in {"armed", "driving"} : TrailAfter(t, TRUE) \in {"armed", "driving"}
    BY DEF TrailAfter
<1>7. \A w \in Wheels : trail[w] \in {"armed", "driving"} =>
                          left.trail[w] \in {"armed", "driving"}
    BY <1>3, <1>5, <1>6 DEF SendEffect
<1>8. \A w \in Wheels : left.trail[w] \in {"armed", "driving"} =>
                          right.trail[w] \in {"armed", "driving"}
    BY <1>4, <1>5, <1>6 DEF SendEffect
<1>9. SendCommands(d) \in {left, right}
    BY DEF SendCommands, left, right
<1> QED BY <1>3, <1>4, <1>5, <1>7, <1>8, <1>9 DEF SendEffect, SameDeadlines

\* What a stop attempt leaves of the health record.
LEMMA AttemptKeeps ==
    ASSUME TypeOK, NEW l \in LinkRecord, NEW d \in Outcomes,
           AttemptFaultSafeStop(l, d)
    PROVE  SameDeadlines(health', l.health) /\ health'.pending = l.health.pending
BY SafeStopEffect DEF AttemptFaultSafeStop, Transmitted, StopEffect, SameDeadlines

LEMMA LinkFields ==
    TypeOK => /\ Link \in LinkRecord
              /\ Link.open = sender /\ Link.health = health /\ Link.trail = trail
BY LinkType DEF Link

\* stop_and_release never touches the deadlines.
LEMMA ReleaseKeeps ==
    ASSUME TypeOK, NEW next, StopAndRelease(next)
    PROVE  SameDeadlines(health', health) /\ health'.pending = health.pending
<1>1. PICK d \in Outcomes : ReleaseStop(d, next)
    BY DEF StopAndRelease
<1>2. CASE fault_latched
    BY <1>1, <1>2, LinkFields, AttemptKeeps DEF ReleaseStop
<1>3. CASE ~fault_latched
    BY <1>1, <1>3, LinkFields, SafeStopEffect
       DEF ReleaseStop, Transmitted, StopEffect
<1> QED BY <1>2, <1>3

-----------------------------------------------------------------------------
(***************************************************************************)
(* The latch, the stop reason and the diagnostic state                     *)
(***************************************************************************)
FaultInv ==
    /\ pc = "idle" => /\ fault_latched <=> stop_reason # NoReason
                      /\ fault_latched <=> diagnostic_state = "safe_stop"
                      /\ ~fault_latched => ~health.ack_fault
    /\ pc = "reading" => /\ ~fault_latched
                         /\ stop_reason # NoReason <=> health.ack_fault
                         /\ diagnostic_state # "safe_stop"


LEMMA FaultInvInit == Init => FaultInv
BY DEF Init, FaultInv, Reset

LEMMA ReasonNotNone ==
    ASSUME NEW cause, cause # "none", NEW w
    PROVE  Reason(cause) # NoReason /\ ReasonOf(cause, w) # NoReason
BY DEF Reason, ReasonOf, NoReason

LEMMA EnterSafeStopLatches ==
    ASSUME NEW reason, reason # NoReason, EnterSafeStop(reason), pc' = "idle"
    PROVE  FaultInv'
BY DEF EnterSafeStop, FaultInv

LEMMA FirstReasonNotNone ==
    ASSUME NEW reason, reason # NoReason PROVE FirstReason(reason) # NoReason
BY DEF FirstReason

LEMMA AckReceivedFault ==
    ASSUME NEW h \in Health, NEW w \in Wheels, NEW seq, NEW r
    PROVE  AckReceived(h, w, seq, r).ack_fault =
               (h.ack_fault \/ AckVerdict(h, w, seq, r) \in {"REJECTED", "UNEXPECTED"})
BY DEF AckReceived, Health

LEMMA FeedbackReceivedKeeps ==
    ASSUME NEW h \in Health, NEW w \in Wheels
    PROVE  /\ FeedbackReceived(h, w).ack_fault = h.ack_fault
           /\ FeedbackReceived(h, w).pending = h.pending
BY DEF FeedbackReceived, Health

LEMMA AgedKeeps ==
    ASSUME NEW h \in Health PROVE Aged(h).ack_fault = h.ack_fault
BY DEF Aged, Health

LEMMA FaultInvActivate == ASSUME TypeOK, FaultInv, OnActivate PROVE FaultInv'
<1>1. pc' = "idle"
    BY DEF OnActivate
<1>2. ASSUME ActivationFailed PROVE FaultInv'
    BY <1>1, <1>2, ReasonNotNone DEF ActivationFailed, FaultInv
<1>3. CASE SocketsUnavailable
    BY <1>2, <1>3 DEF SocketsUnavailable
<1>4. ASSUME NEW d \in Outcomes, SocketsOpened(d) PROVE FaultInv'
    <2> DEFINE l == SafeStop(FreshLink, d)
    <2>1. CASE ~l.success
        BY <1>2, <1>4, <2>1 DEF SocketsOpened
    <2>2. CASE l.success
        <3>1. /\ fault_latched' = FALSE /\ stop_reason' = NoReason
              /\ diagnostic_state' = "active" /\ health' = l.health
            BY <1>4, <2>2 DEF SocketsOpened, Transmitted
        <3>2. FreshLink \in LinkRecord /\ FreshLink.health = Reset
            BY FreshLinkType, LinkType DEF FreshLink, LinkRecord
        <3>3. health'.ack_fault = FALSE
            BY <3>1, <3>2, SafeStopEffect DEF StopEffect, SameDeadlines, Reset
        <3> QED BY <1>1, <3>1, <3>3 DEF FaultInv
    <2> QED BY <2>1, <2>2
<1> QED BY <1>3, <1>4 DEF OnActivate

LEMMA FaultInvRelease ==
    ASSUME TypeOK, FaultInv, NEW next, StopAndRelease(next) PROVE FaultInv'
<1>1. SameDeadlines(health', health)
    BY ReleaseKeeps
<1>2. /\ pc = "idle" /\ pc' = "idle"
      /\ UNCHANGED <<fault_latched, stop_reason>>
      /\ diagnostic_state' = IF fault_latched THEN "safe_stop" ELSE "inactive"
    BY DEF StopAndRelease, ReleasedState
<1> QED BY <1>1, <1>2 DEF FaultInv, SameDeadlines

LEMMA FaultInvReadFinish == ASSUME TypeOK, FaultInv, ReadFinish PROVE FaultInv'
<1>1. CASE ~ReadFault
    <2>1. pc = "reading" /\ pc' = "idle" /\ UNCHANGED <<health, latch>>
        BY <1>1 DEF ReadFinish
    <2>2. ~health.ack_fault
        BY <1>1 DEF ReadFault
    <2> QED BY <2>1, <2>2 DEF FaultInv, latch
<1>2. CASE ReadFault
    <2> DEFINE reason == IF \E w \in Wheels : TimedOut(w)
                         THEN FirstReason(TimeoutReason) ELSE stop_reason
    <2>1. AbortRead(reason)
        BY <1>2 DEF ReadFinish
    <2>2. TimeoutReason # NoReason
        BY ReasonNotNone DEF TimeoutReason
    <2>3. reason # NoReason
        BY <1>2, <2>1, <2>2, FirstReasonNotNone DEF ReadFault, AbortRead, FaultInv
    <2> HIDE DEF reason
    <2> QED BY <2>1, <2>3, EnterSafeStopLatches DEF AbortRead
<1> QED BY <1>1, <1>2

LEMMA FaultInvReceiveAck ==
    ASSUME TypeOK, FaultInv, NEW w \in Wheels, NEW seq \in SequenceNumbers,
           NEW r \in {0, 1}, ReceiveAck(w, seq, r)
    PROVE  FaultInv'
<1> DEFINE bad == AckVerdict(health, w, seq, r) \in {"REJECTED", "UNEXPECTED"}
<1>1. /\ pc = "reading" /\ pc' = "reading"
      /\ UNCHANGED <<fault_latched, diagnostic_state>>
    BY DEF ReceiveAck, TakeFrame
<1>2. health'.ack_fault = (health.ack_fault \/ bad)
    BY AckReceivedFault DEF ReceiveAck, TypeOK
<1>3. ~bad => stop_reason' = stop_reason
    BY DEF ReceiveAck
<1>4. bad => stop_reason' # NoReason
    <2>1. /\ FirstReason(ReasonOf("ack_rejected", w)) # NoReason
          /\ FirstReason(ReasonOf("unexpected_ack", w)) # NoReason
        BY ReasonNotNone, FirstReasonNotNone
    <2> QED BY <2>1 DEF ReceiveAck
<1>5. stop_reason # NoReason /\ bad => stop_reason' # NoReason
    BY <1>4
<1> HIDE DEF bad
<1> QED BY <1>1, <1>2, <1>3, <1>4, <1>5 DEF FaultInv

LEMMA FaultInvNext == ASSUME TypeOK, FaultInv, [Next]_vars PROVE FaultInv'
<1>1. CASE OnActivate
    BY <1>1, FaultInvActivate
<1>2. CASE OnDeactivate \/ OnShutdown
    BY <1>2, FaultInvRelease DEF OnDeactivate, OnShutdown
<1>3. ASSUME Refuse PROVE FaultInv'
    BY <1>3 DEF Refuse, FaultInv, latch
<1>4. ASSUME NEW cause, cause # "none", pc = "idle", SocketMissing(cause)
      PROVE  FaultInv'
    BY <1>4, ReasonNotNone, EnterSafeStopLatches DEF SocketMissing
<1>5. CASE ReadStart
    <2>1. ASSUME pc = "idle", MayOperate, pc' = "reading", UNCHANGED <<health, latch>>
          PROVE  FaultInv'
        BY <2>1 DEF FaultInv, MayOperate, latch
    <2> QED BY <1>3, <1>4, <1>5, <2>1 DEF ReadStart
<1>6. CASE ReceiveIgnored
    BY <1>6 DEF ReceiveIgnored, FaultInv, latch
<1>7. ASSUME NEW w \in Wheels, NEW v \in FeedbackVelocities, ReceiveFeedback(w, v)
      PROVE  FaultInv'
    <2>1. health'.ack_fault = health.ack_fault
        BY <1>7, FeedbackReceivedKeeps DEF ReceiveFeedback, TypeOK
    <2> QED BY <1>7, <2>1 DEF ReceiveFeedback, FaultInv, latch
<1>8. ASSUME NEW w \in Wheels, NEW seq \in SequenceNumbers, NEW r \in {0, 1},
             ReceiveAck(w, seq, r)
      PROVE  FaultInv'
    BY <1>8, FaultInvReceiveAck
<1>9. ASSUME NEW mask, ReceiveWarning(mask) PROVE FaultInv'
    BY <1>9 DEF ReceiveWarning, FaultInv, latch
<1>10. ASSUME NEW mask, ReceiveFatal(mask) PROVE FaultInv'
    BY <1>10, ReasonNotNone, EnterSafeStopLatches DEF ReceiveFatal, AbortRead
<1>11. CASE ReceiveException
    BY <1>11, ReasonNotNone, FirstReasonNotNone, EnterSafeStopLatches
       DEF ReceiveException, AbortRead
<1>12. CASE ReadFinish
    BY <1>12, FaultInvReadFinish
<1>13. CASE Write
    <2>1. ASSUME pc = "idle", MayOperate, UNCHANGED pc,
                 NEW d \in Outcomes, NEW stopped \in Outcomes, Drive(d, stopped)
          PROVE  FaultInv'
        <3>1. CASE SendCommands(d).success
            <4>1. SameDeadlines(health', health)
                BY <2>1, <3>1, SendCommandsEffect DEF Drive, Transmitted
            <4> QED BY <2>1, <3>1, <4>1
                    DEF Drive, FaultInv, SameDeadlines, latch
        <3>2. CASE ~SendCommands(d).success
            BY <2>1, <3>2, ReasonNotNone, FirstReasonNotNone, EnterSafeStopLatches
               DEF Drive
        <3> QED BY <3>1, <3>2
    <2> QED BY <1>3, <1>4, <1>13, <2>1 DEF Write
<1>14. ASSUME NEW w, NEW v, ControllerUpdate(w, v) PROVE FaultInv'
    BY <1>14 DEF ControllerUpdate, FaultInv, latch
<1>15. CASE Tick
    <2>1. health'.ack_fault = health.ack_fault
        BY <1>15, AgedKeeps DEF Tick, TypeOK
    <2> QED BY <1>15, <2>1 DEF Tick, FaultInv, latch
<1>16. CASE UNCHANGED vars
    BY <1>16 DEF vars, FaultInv, latch
<1> QED BY <1>1, <1>2, <1>5, <1>6, <1>7, <1>8, <1>9, <1>10, <1>11, <1>12, <1>13,
           <1>14, <1>15, <1>16 DEF Next, ReadStep

LEMMA FaultInvariant == Spec => []FaultInv
BY FaultInvInit, FaultInvNext, TypeCorrect, PTL DEF Spec

\* Between two callbacks the latch, the stop reason and the diagnostic state
\* agree; inside read() only a bad ACK has put a cause ahead of the latch.
THEOREM FaultReported == Spec => []FaultIsReported
<1>1. FaultInv => FaultIsReported
    BY DEF FaultInv, FaultIsReported
<1> QED BY <1>1, FaultInvariant, PTL

-----------------------------------------------------------------------------
(***************************************************************************)
(* The recorded cause                                                      *)
(***************************************************************************)
\* The history of bad ACKs goes with the fault flag of the health record, and
\* no deadline is recorded as a cause while the latch is open, so time can
\* only pass under causes that it does not touch.
BadAckKnown == health.ack_fault <=> bad_ack # NoBadAck

ReasonInv ==
    /\ StopReasonIsTrue
    /\ BadAckKnown
    /\ ~fault_latched =>
           stop_reason.cause \in {"none", "ack_rejected", "unexpected_ack"}

SameHealth == SameDeadlines(health', health) /\ health'.pending = health.pending

\* What StopReasonIsTrue says of a cause, for any health record and history.
ReasonHolds(h, b, reason) ==
    /\ reason.cause = "feedback_timeout" => FeedbackTimedOut(h, reason.wheel)
    /\ reason.cause = "ack_timeout"      => AckTimedOut(h, reason.wheel)
    /\ reason.cause = "ack_rejected"   => b = [wheel |-> reason.wheel, awaited |-> TRUE]
    /\ reason.cause = "unexpected_ack" => b = [wheel |-> reason.wheel, awaited |-> FALSE]
    /\ reason.cause \in {"feedback_timeout", "ack_timeout", "can_receive_error",
                         "can_send_error"} => b = NoBadAck

LEMMA ReasonHoldsNow ==
    StopReasonIsTrue <=> ReasonHolds(health, bad_ack, stop_reason)
BY DEF StopReasonIsTrue, ReasonHolds

LEMMA ReasonHoldsSame ==
    ASSUME SameHealth, NEW reason, ReasonHolds(health, bad_ack, reason)
    PROVE  ReasonHolds(health', bad_ack, reason)
BY DEF SameHealth, SameDeadlines, ReasonHolds, FeedbackTimedOut, AckTimedOut

LEMMA ReasonHoldsPlain ==
    ASSUME NEW h, NEW b, NEW cause,
           cause \notin {"feedback_timeout", "ack_timeout", "ack_rejected",
                         "unexpected_ack"},
           cause \in {"can_receive_error", "can_send_error"} => b = NoBadAck
    PROVE  ReasonHolds(h, b, Reason(cause))
BY DEF ReasonHolds, Reason

LEMMA ReasonInvInit == Init => ReasonInv
BY DEF Init, ReasonInv, BadAckKnown, StopReasonIsTrue, NoReason, Reason, Reset

\* Keeping the latch, the reason, the history and the deadlines keeps the
\* invariant ...
LEMMA ReasonInvKept ==
    ASSUME ReasonInv, SameHealth, UNCHANGED <<stop_reason, fault_latched, bad_ack>>
    PROVE  ReasonInv'
<1>1. ReasonHolds(health', bad_ack', stop_reason')
    BY ReasonHoldsNow, ReasonHoldsSame DEF ReasonInv
<1>2. StopReasonIsTrue'
    BY <1>1 DEF StopReasonIsTrue, ReasonHolds
<1> QED BY <1>2 DEF ReasonInv, BadAckKnown, SameHealth, SameDeadlines

\* ... while the latch is open, the fault flag is enough ...
LEMMA ReasonInvOpen ==
    ASSUME ReasonInv, ~fault_latched,
           UNCHANGED <<stop_reason, fault_latched, bad_ack>>,
           health'.ack_fault = health.ack_fault
    PROVE  ReasonInv'
BY DEF ReasonInv, BadAckKnown, StopReasonIsTrue

\* ... and entering the fault state takes a cause that holds then.
LEMMA ReasonInvEnter ==
    ASSUME ReasonInv, SameHealth, NEW reason, EnterSafeStop(reason),
           ReasonHolds(health, bad_ack, reason)
    PROVE  ReasonInv'
<1>1. stop_reason' = reason /\ fault_latched' = TRUE /\ bad_ack' = bad_ack
    BY DEF EnterSafeStop
<1>2. ReasonHolds(health', bad_ack', stop_reason')
    BY <1>1, ReasonHoldsSame
<1>3. StopReasonIsTrue'
    BY <1>2 DEF StopReasonIsTrue, ReasonHolds
<1> QED BY <1>1, <1>3 DEF ReasonInv, BadAckKnown, SameHealth, SameDeadlines

LEMMA AttemptSameHealth ==
    ASSUME TypeOK, NEW d \in Outcomes, AttemptFaultSafeStop(Link, d)
    PROVE  SameHealth
BY AttemptKeeps, LinkFields DEF SameHealth

LEMMA ReasonInvMissing ==
    ASSUME TypeOK, ReasonInv, SocketMissing("can_receive_unavailable")
                              \/ SocketMissing("can_send_unavailable")
    PROVE  ReasonInv'
<1>1. PICK cause \in {"can_receive_unavailable", "can_send_unavailable"} :
          EnterSafeStop(Reason(cause))
    BY DEF SocketMissing
<1>2. SameHealth
    BY AttemptSameHealth DEF SocketMissing
<1> QED BY <1>1, <1>2, ReasonHoldsPlain, ReasonInvEnter

LEMMA ReasonInvAbort ==
    ASSUME TypeOK, ReasonInv, NEW reason, AbortRead(reason),
           ReasonHolds(health, bad_ack, reason)
    PROVE  ReasonInv'
BY AttemptSameHealth, ReasonInvEnter DEF AbortRead

\* A cause that would hold if none is recorded yet: inside read() that is as
\* long as no bad ACK has come.
LEMMA FirstReasonHolds ==
    ASSUME FaultInv, ReasonInv, pc = "reading", NEW reason,
           bad_ack = NoBadAck => ReasonHolds(health, bad_ack, reason)
    PROVE  ReasonHolds(health, bad_ack, FirstReason(reason))
<1>1. stop_reason = NoReason => bad_ack = NoBadAck
    BY DEF FaultInv, ReasonInv, BadAckKnown
<1> QED BY <1>1, ReasonHoldsNow DEF ReasonInv, FirstReason

LEMMA TimeoutReasonHolds ==
    ASSUME \E w \in Wheels : TimedOut(w), bad_ack = NoBadAck
    PROVE  ReasonHolds(health, bad_ack, TimeoutReason)
<1> DEFINE w == IF TimedOut(0) THEN 0 ELSE 1
<1>1. TimedOut(w)
    BY DEF Wheels
<1>2. TimeoutReason.wheel = w
    BY DEF TimeoutReason, ReasonOf
<1>3. TimeoutReason.cause = IF FeedbackTimedOut(health, w)
                            THEN "feedback_timeout" ELSE "ack_timeout"
    BY DEF TimeoutReason, ReasonOf
<1> HIDE DEF w
<1> QED BY <1>1, <1>2, <1>3 DEF ReasonHolds, TimedOut

LEMMA ReasonInvActivate ==
    ASSUME TypeOK, ReasonInv, OnActivate PROVE ReasonInv'
<1>1. ASSUME ActivationFailed, BadAckKnown' PROVE ReasonInv'
    BY <1>1 DEF ActivationFailed, ReasonInv, StopReasonIsTrue, Reason
<1>2. ASSUME NEW d \in Outcomes, SocketsOpened(d) PROVE ReasonInv'
    <2>1. BadAckKnown'
        <3>1. FreshLink \in LinkRecord /\ FreshLink.health = Reset
            BY FreshLinkType, LinkType DEF FreshLink, LinkRecord
        <3>2. health'.ack_fault = FALSE
            BY <1>2, <3>1, SafeStopEffect
               DEF SocketsOpened, Transmitted, StopEffect, SameDeadlines, Reset
        <3>3. bad_ack' = NoBadAck
            BY <1>2 DEF SocketsOpened
        <3> QED BY <3>2, <3>3 DEF BadAckKnown
    <2>2. CASE ~SafeStop(FreshLink, d).success
        BY <1>1, <1>2, <2>1, <2>2 DEF SocketsOpened
    <2>3. CASE SafeStop(FreshLink, d).success
        <3>1. stop_reason' = NoReason
            BY <1>2, <2>3 DEF SocketsOpened
        <3> QED BY <2>1, <3>1 DEF ReasonInv, StopReasonIsTrue, NoReason, Reason
    <2> QED BY <2>2, <2>3
<1>3. CASE SocketsUnavailable
    <2>1. health' = health /\ bad_ack' = bad_ack
        BY <1>3, LinkFields DEF SocketsUnavailable, Transmitted, LinkRecord
    <2>2. BadAckKnown'
        BY <2>1 DEF ReasonInv, BadAckKnown
    <2> QED BY <1>1, <1>3, <2>2 DEF SocketsUnavailable
<1> QED BY <1>2, <1>3 DEF OnActivate

\* The history and the code's classification of an ACK agree.
LEMMA BadAckVerdict ==
    ASSUME TypeOK, NEW w \in Wheels, NEW seq, NEW r
    PROVE  LET verdict == AckVerdict(health, w, seq, r) IN
           /\ verdict \notin {"REJECTED", "UNEXPECTED"} \/ bad_ack # NoBadAck =>
                  BadAckAfter(w, seq, r) = bad_ack
           /\ bad_ack = NoBadAck /\ verdict = "REJECTED" =>
                  BadAckAfter(w, seq, r) = [wheel |-> w, awaited |-> TRUE]
           /\ bad_ack = NoBadAck /\ verdict = "UNEXPECTED" =>
                  BadAckAfter(w, seq, r) = [wheel |-> w, awaited |-> FALSE]
<1>1. CASE AnswersFront(health, w, seq)
    BY <1>1 DEF BadAckAfter, AckVerdict, AnswersFront
<1>2. CASE ~AnswersFront(health, w, seq)
    BY <1>2 DEF BadAckAfter, AckVerdict, AnswersFront
<1> QED BY <1>1, <1>2

LEMMA ReasonInvReceiveAck ==
    ASSUME TypeOK, FaultInv, ReasonInv, NEW w \in Wheels,
           NEW seq \in SequenceNumbers, NEW r \in {0, 1}, ReceiveAck(w, seq, r)
    PROVE  ReasonInv'
<1> DEFINE verdict == AckVerdict(health, w, seq, r)
           bad == verdict \in {"REJECTED", "UNEXPECTED"}
<1>1. ~fault_latched /\ fault_latched' = fault_latched
    BY DEF ReceiveAck, TakeFrame, FaultInv
<1>2. health'.ack_fault = (health.ack_fault \/ bad)
    BY AckReceivedFault DEF ReceiveAck, TypeOK
<1>3. bad_ack' = BadAckAfter(w, seq, r)
    BY DEF ReceiveAck
<1>4. health.ack_fault \in BOOLEAN
    BY DEF TypeOK, Health
<1>5. CASE ~bad \/ bad_ack # NoBadAck
    <2>1. bad_ack' = bad_ack
        BY <1>3, <1>5, BadAckVerdict
    <2>2. stop_reason' = stop_reason
        <3>1. CASE ~bad
            BY <3>1 DEF ReceiveAck
        <3>2. CASE bad_ack # NoBadAck
            <4>1. stop_reason # NoReason
                BY <3>2 DEF ReceiveAck, TakeFrame, FaultInv, ReasonInv, BadAckKnown
            <4> QED BY <4>1 DEF ReceiveAck, FirstReason
        <3> QED BY <1>5, <3>1, <3>2
    <2>3. health'.ack_fault = health.ack_fault
        BY <1>2, <1>4, <1>5 DEF ReasonInv, BadAckKnown
    <2> QED BY <1>1, <2>1, <2>2, <2>3, ReasonInvOpen
<1>6. CASE bad /\ bad_ack = NoBadAck
    <2>1. stop_reason = NoReason
        BY <1>6 DEF ReceiveAck, TakeFrame, FaultInv, ReasonInv, BadAckKnown
    <2>2. w # NoWheel /\ health'.ack_fault
        <3>1. w # NoWheel
            BY DEF Wheels, NoWheel
        <3>2. health'.ack_fault
            BY <1>2, <1>6, Zenon
        <3> QED BY <3>1, <3>2
    <2>3. CASE verdict = "REJECTED"
        <3>1. bad_ack' = [wheel |-> w, awaited |-> TRUE]
            BY <1>3, <1>6, <2>3, BadAckVerdict
        <3>2. stop_reason' = ReasonOf("ack_rejected", w)
            BY <2>1, <2>3 DEF ReceiveAck, FirstReason
        <3> QED BY <2>2, <3>1, <3>2
                DEF ReasonInv, BadAckKnown, StopReasonIsTrue, ReasonOf, NoBadAck
    <2>4. CASE verdict = "UNEXPECTED"
        <3>1. bad_ack' = [wheel |-> w, awaited |-> FALSE]
            BY <1>3, <1>6, <2>4, BadAckVerdict
        <3>2. stop_reason' = ReasonOf("unexpected_ack", w)
            BY <2>1, <2>4 DEF ReceiveAck, FirstReason
        <3> QED BY <2>2, <3>1, <3>2
                DEF ReasonInv, BadAckKnown, StopReasonIsTrue, ReasonOf, NoBadAck
    <2> QED BY <1>6, <2>3, <2>4
<1> QED BY <1>5, <1>6

LEMMA ReasonInvDrive ==
    ASSUME TypeOK, FaultInv, ReasonInv, pc = "idle", MayOperate,
           NEW d \in Outcomes, NEW stopped \in Outcomes, Drive(d, stopped)
    PROVE  ReasonInv'
<1>1. ~fault_latched /\ stop_reason = NoReason /\ ~health.ack_fault
    BY DEF MayOperate, FaultInv
<1>2. CASE SendCommands(d).success
    <2>1. SameDeadlines(health', health)
        BY <1>2, SendCommandsEffect DEF Drive, Transmitted
    <2>2. UNCHANGED latch
        BY <1>2 DEF Drive
    <2> QED BY <1>1, <2>1, <2>2, ReasonInvOpen DEF SameDeadlines, latch
<1>3. CASE ~SendCommands(d).success
    <2>1. EnterSafeStop(Reason("can_send_error"))
        BY <1>1, <1>3 DEF Drive, FirstReason
    <2>2. stop_reason' = Reason("can_send_error") /\ bad_ack' = bad_ack
        BY <2>1 DEF EnterSafeStop
    <2>3. SameDeadlines(health', health)
        <3>1. SendCommands(d) \in LinkRecord
            BY SendCommandsType
        <3>2. SameDeadlines(health', SendCommands(d).health)
            BY <1>3, <3>1, AttemptKeeps DEF Drive
        <3> QED BY <3>2, SendCommandsEffect DEF SameDeadlines
    <2>4. bad_ack = NoBadAck
        BY <1>1 DEF ReasonInv, BadAckKnown
    <2>5. fault_latched' = TRUE
        BY <2>1 DEF EnterSafeStop
    <2> QED BY <2>2, <2>3, <2>4, <2>5
            DEF ReasonInv, BadAckKnown, StopReasonIsTrue, SameDeadlines, Reason
<1> QED BY <1>2, <1>3

LEMMA ReasonInvNext ==
    ASSUME TypeOK, FaultInv, ReasonInv, [Next]_vars PROVE ReasonInv'
<1>1. CASE OnActivate
    BY <1>1, ReasonInvActivate
<1>2. CASE OnDeactivate \/ OnShutdown
    <2>1. PICK next : StopAndRelease(next)
        BY <1>2 DEF OnDeactivate, OnShutdown
    <2>2. SameHealth
        BY <2>1, ReleaseKeeps DEF SameHealth
    <2> QED BY <2>1, <2>2, ReasonInvKept DEF StopAndRelease
<1>3. ASSUME UNCHANGED <<health, latch>> PROVE ReasonInv'
    BY <1>3, ReasonInvKept DEF SameHealth, SameDeadlines, latch
<1>4. CASE ReadStart
    BY <1>3, <1>4, ReasonInvMissing DEF ReadStart, Refuse
<1>5. ASSUME NEW w \in Wheels, NEW v \in FeedbackVelocities, ReceiveFeedback(w, v)
      PROVE  ReasonInv'
    <2>1. health'.ack_fault = health.ack_fault
        BY <1>5, FeedbackReceivedKeeps DEF ReceiveFeedback, TypeOK
    <2>2. ~fault_latched
        BY <1>5 DEF ReceiveFeedback, TakeFrame, FaultInv
    <2> QED BY <1>5, <2>1, <2>2, ReasonInvOpen DEF ReceiveFeedback, latch
<1>6. ASSUME NEW w \in Wheels, NEW seq \in SequenceNumbers, NEW r \in {0, 1},
             ReceiveAck(w, seq, r)
      PROVE  ReasonInv'
    BY <1>6, ReasonInvReceiveAck
<1>7. CASE ReceiveIgnored \/ \E mask \in SUBSET ErrorBits : ReceiveWarning(mask)
    BY <1>3, <1>7 DEF ReceiveIgnored, ReceiveWarning
<1>8. ASSUME NEW mask \in SUBSET ErrorBits, ReceiveFatal(mask) PROVE ReasonInv'
    BY <1>8, ReasonHoldsPlain, ReasonInvAbort DEF ReceiveFatal
<1>9. CASE ReceiveException
    <2> DEFINE reason == Reason("can_receive_error")
    <2>1. pc = "reading" /\ AbortRead(FirstReason(reason))
        BY <1>9 DEF ReceiveException, AbortRead
    <2>2. bad_ack = NoBadAck => ReasonHolds(health, bad_ack, reason)
        BY ReasonHoldsPlain
    <2> HIDE DEF reason
    <2> QED BY <2>1, <2>2, FirstReasonHolds, ReasonInvAbort
<1>10. CASE ReadFinish
    <2>1. CASE ~ReadFault
        BY <1>3, <1>10, <2>1 DEF ReadFinish
    <2>2. CASE ReadFault
        <3> DEFINE reason == IF \E w \in Wheels : TimedOut(w)
                             THEN FirstReason(TimeoutReason) ELSE stop_reason
        <3>1. AbortRead(reason)
            BY <1>10, <2>2 DEF ReadFinish
        <3>2. ReasonHolds(health, bad_ack, reason)
            <4>1. pc = "reading"
                BY <3>1 DEF AbortRead
            <4> QED BY <4>1, TimeoutReasonHolds, FirstReasonHolds, ReasonHoldsNow
                    DEF ReasonInv
        <3> HIDE DEF reason
        <3> QED BY <3>1, <3>2, ReasonInvAbort
    <2> QED BY <2>1, <2>2
<1>11. CASE Write
    BY <1>3, <1>11, ReasonInvMissing, ReasonInvDrive DEF Write, Refuse
<1>12. ASSUME NEW w, NEW v, ControllerUpdate(w, v) PROVE ReasonInv'
    BY <1>3, <1>12 DEF ControllerUpdate
<1>13. CASE Tick
    <2>1. health'.ack_fault = health.ack_fault
        BY <1>13, AgedKeeps DEF Tick, TypeOK
    <2> QED BY <1>13, <2>1, ReasonInvOpen DEF Tick, latch
<1>14. CASE UNCHANGED vars
    BY <1>3, <1>14 DEF vars
<1> QED BY <1>1, <1>2, <1>4, <1>5, <1>6, <1>7, <1>8, <1>9, <1>10, <1>11, <1>12,
           <1>13, <1>14 DEF Next, ReadStep

\* A recorded timeout is one that really happened to the wheel it names, a
\* recorded ACK fault is the first bad ACK of the activation, from the wheel
\* and of the kind it names, and no later deadline or error hides it.
THEOREM ReasonCorrect == Spec => []StopReasonIsTrue
<1>1. ReasonInv => StopReasonIsTrue
    BY DEF ReasonInv
<1> QED BY <1>1, ReasonInvInit, ReasonInvNext, TypeCorrect, FaultInvariant, PTL
        DEF Spec

-----------------------------------------------------------------------------
(***************************************************************************)
(* What the motors were sent                                               *)
(***************************************************************************)
\* While the plugin operates every motor can still be stopped once; a latch
\* over an open socket has used its attempt; and a stop that is recorded as
\* successful stopped both motors.
TrailInv ==
    /\ StopProtocol
    /\ sender /\ ~fault_latched =>
           \A w \in Wheels : trail[w] \in {"armed", "driving"}
    /\ sender /\ fault_latched => fault_stop_attempted
    /\ fault_stop_succeeded => \A w \in Wheels : trail[w] = "stopped"

LEMMA TrailInvInit == Init => TrailInv
BY DEF Init, TrailInv, StopProtocol

SameStop == UNCHANGED <<trail, sender, fault_latched, fault_stop_attempted,
                        fault_stop_succeeded>>

LEMMA TrailInvKept == ASSUME TrailInv, SameStop PROVE TrailInv'
BY DEF TrailInv, StopProtocol, SameStop

\* Where a stop may be attempted.
Stoppable(l) ==
    /\ \A w \in Wheels : l.trail[w] # "broken"
    /\ l.open => \A w \in Wheels : l.trail[w] \in {"armed", "driving"}

LEMMA StopFromStoppable ==
    ASSUME NEW l \in LinkRecord, NEW d \in Outcomes, Stoppable(l)
    PROVE  LET s == SafeStop(l, d) IN
           /\ \A w \in Wheels : s.trail[w] # "broken"
           /\ s.success => l.open /\ \A w \in Wheels : s.trail[w] = "stopped"
<1> DEFINE s == SafeStop(l, d)
<1>1. StopEffect(l, s, d)
    BY SafeStopEffect
<1>2. \A t \in {"armed", "driving"} : TrailAfter(t, FALSE) = "stopped"
    BY DEF TrailAfter
<1>3. ASSUME NEW w \in Wheels PROVE Stopped(l, d, w) # "broken"
    BY <1>2 DEF Stoppable, Stopped
<1>4. ASSUME NEW w \in Wheels, l.open, d[w] PROVE Stopped(l, d, w) = "stopped"
    BY <1>2, <1>4 DEF Stoppable, Stopped
<1> HIDE DEF s
<1> QED BY <1>1, <1>3, <1>4 DEF StopEffect, s

\* An attempt that is refused because one was made leaves the link alone.
LEMMA AttemptTrail ==
    ASSUME TypeOK, TrailInv, NEW l \in LinkRecord, NEW d \in Outcomes, Stoppable(l),
           fault_stop_succeeded => \A w \in Wheels : l.trail[w] = "stopped",
           AttemptFaultSafeStop(l, d)
    PROVE  /\ fault_stop_attempted'
           /\ StopProtocol'
           /\ fault_stop_succeeded' => \A w \in Wheels : trail'[w] = "stopped"
<1>1. CASE fault_stop_attempted
    BY <1>1 DEF AttemptFaultSafeStop, Transmitted, Stoppable, StopProtocol
<1>2. CASE ~fault_stop_attempted
    <2>1. /\ trail' = SafeStop(l, d).trail
          /\ fault_stop_attempted' = TRUE
          /\ fault_stop_succeeded' = SafeStop(l, d).success
        BY <1>2 DEF AttemptFaultSafeStop, Transmitted
    <2> QED BY <2>1, StopFromStoppable DEF StopProtocol
<1> QED BY <1>1, <1>2

LEMMA LinkStoppable == TypeOK /\ TrailInv /\ ~fault_latched => Stoppable(Link)
BY LinkFields DEF TrailInv, StopProtocol, Stoppable

\* Entering the fault state from Link or after the sends of write().
LEMMA TrailInvEnter ==
    ASSUME TypeOK, TrailInv, NEW l \in LinkRecord, NEW d \in Outcomes, Stoppable(l),
           fault_stop_succeeded => \A w \in Wheels : l.trail[w] = "stopped",
           AttemptFaultSafeStop(l, d), fault_latched' = TRUE
    PROVE  TrailInv'
<1>1. /\ fault_stop_attempted'
      /\ StopProtocol'
      /\ fault_stop_succeeded' => \A w \in Wheels : trail'[w] = "stopped"
    BY AttemptTrail
<1> QED BY <1>1 DEF TrailInv

LEMMA TrailInvFault ==
    ASSUME TypeOK, TrailInv, ~fault_latched, NEW d \in Outcomes,
           AttemptFaultSafeStop(Link, d), fault_latched' = TRUE
    PROVE  TrailInv'
<1>1. fault_stop_succeeded => \A w \in Wheels : Link.trail[w] = "stopped"
    BY LinkFields DEF TrailInv
<1> QED BY <1>1, LinkFields, LinkStoppable, TrailInvEnter

LEMMA TrailInvAbort ==
    ASSUME TypeOK, FaultInv, TrailInv, NEW reason, AbortRead(reason)
    PROVE  TrailInv'
<1>1. ~fault_latched
    BY DEF AbortRead, FaultInv
<1> QED BY <1>1, TrailInvFault DEF AbortRead, EnterSafeStop

LEMMA TrailInvMissing ==
    ASSUME TypeOK, TrailInv, MayOperate, NEW cause, SocketMissing(cause)
    PROVE  TrailInv'
BY TrailInvFault DEF SocketMissing, EnterSafeStop, MayOperate

LEMMA TrailInvActivate == ASSUME TypeOK, TrailInv, OnActivate PROVE TrailInv'
<1>1. ASSUME ActivationFailed, StopProtocol' PROVE TrailInv'
    BY <1>1 DEF ActivationFailed, TrailInv
<1>2. CASE SocketsUnavailable
    <2>1. trail' = [w \in Wheels |-> "idle"]
        BY <1>2, LinkType DEF SocketsUnavailable, Transmitted, LinkRecord
    <2> QED BY <1>1, <1>2, <2>1 DEF SocketsUnavailable, StopProtocol
<1>3. ASSUME NEW d \in Outcomes, SocketsOpened(d) PROVE TrailInv'
    <2> DEFINE l == SafeStop(FreshLink, d)
    <2>1. /\ FreshLink \in LinkRecord /\ FreshLink.open
          /\ FreshLink.trail = [w \in Wheels |-> "idle"]
        BY FreshLinkType, LinkType DEF FreshLink, LinkRecord
    <2>2. StopEffect(FreshLink, l, d)
        BY <2>1, SafeStopEffect
    <2>3. TrailAfter("idle", FALSE) = "armed"
        BY DEF TrailAfter
    <2>4. \A w \in Wheels : Stopped(FreshLink, d, w) =
                             IF d[w] THEN "armed" ELSE "idle"
        BY <2>1, <2>3 DEF Stopped
    <2>5. trail' = l.trail
        BY <1>3 DEF SocketsOpened, Transmitted
    <2> HIDE DEF l
    <2>6. StopProtocol'
        BY <2>2, <2>4, <2>5 DEF StopEffect, StopProtocol
    <2>7. CASE ~l.success
        BY <1>1, <1>3, <2>6, <2>7 DEF SocketsOpened, l
    <2>8. CASE l.success
        <3>1. \A w \in Wheels : trail'[w] = "armed"
            BY <2>2, <2>4, <2>5, <2>8 DEF StopEffect
        <3>2. fault_latched' = FALSE /\ fault_stop_succeeded' = FALSE
            BY <1>3, <2>8 DEF SocketsOpened, l
        <3> QED BY <2>6, <3>1, <3>2 DEF TrailInv
    <2> QED BY <2>7, <2>8
<1> QED BY <1>2, <1>3 DEF OnActivate

\* A release, and what it means that it reports success.
LEMMA ReleaseTrail ==
    ASSUME TypeOK, TrailInv, NEW d \in Outcomes, NEW next, ReleaseStop(d, next),
           UNCHANGED fault_latched, ~sender'
    PROVE  /\ TrailInv'
           /\ lifecycle' \in {lifecycle, "finalized"} \/
                 \A w \in Wheels : trail'[w] = "stopped"
<1>1. CASE fault_latched
    <2>0. /\ AttemptFaultSafeStop(Link, d)
          /\ Returned(fault_stop_succeeded', next)
        BY <1>1 DEF ReleaseStop
    <2>1. CASE fault_stop_attempted
        <3>1. UNCHANGED <<trail, fault_stop_attempted, fault_stop_succeeded>>
            BY <2>0, <2>1, LinkFields DEF AttemptFaultSafeStop, Transmitted
        <3> QED BY <2>0, <3>1 DEF TrailInv, StopProtocol, Returned
    <2>2. CASE ~fault_stop_attempted
        <3>1. Stoppable(Link)
            BY <1>1, <2>2, LinkFields DEF TrailInv, StopProtocol, Stoppable
        <3>2. /\ StopProtocol'
              /\ fault_stop_succeeded' => \A w \in Wheels : trail'[w] = "stopped"
            BY <2>0, <3>1, LinkFields, AttemptTrail DEF TrailInv
        <3> QED BY <2>0, <3>2 DEF TrailInv, Returned
    <2> QED BY <2>1, <2>2
<1>2. CASE ~fault_latched
    <2> DEFINE s == SafeStop(Link, d)
    <2>0. /\ trail' = s.trail
          /\ UNCHANGED <<fault_stop_attempted, fault_stop_succeeded>>
          /\ Returned(s.success, next)
        BY <1>2 DEF ReleaseStop, Transmitted
    <2>1. /\ \A w \in Wheels : s.trail[w] # "broken"
          /\ s.success => \A w \in Wheels : s.trail[w] = "stopped"
        BY <1>2, LinkStoppable, LinkFields, StopFromStoppable
    <2>2. fault_stop_succeeded => \A w \in Wheels : s.trail[w] = "stopped"
        <3>1. fault_stop_succeeded => ~sender /\ \A w \in Wheels : trail[w] = "stopped"
            BY <1>2 DEF TrailInv, Wheels
        <3>2. StopEffect(Link, s, d)
            BY LinkFields, SafeStopEffect
        <3> HIDE DEF s
        <3> QED BY <3>1, <3>2, LinkFields DEF StopEffect, Stopped
    <2> HIDE DEF s
    <2> QED BY <1>2, <2>0, <2>1, <2>2 DEF TrailInv, StopProtocol, Returned
<1> QED BY <1>1, <1>2

LEMMA TrailInvRelease ==
    ASSUME TypeOK, TrailInv, NEW next, StopAndRelease(next)
    PROVE  /\ TrailInv'
           /\ lifecycle' \in {lifecycle, "finalized"} \/
                 \A w \in Wheels : trail'[w] = "stopped"
<1>1. /\ ~sender' /\ UNCHANGED fault_latched
      /\ \E d \in Outcomes : ReleaseStop(d, next)
    BY DEF StopAndRelease
<1> QED BY <1>1, ReleaseTrail

LEMMA TrailInvDrive ==
    ASSUME TypeOK, TrailInv, MayOperate, sender, UNCHANGED sockets,
           NEW d \in Outcomes, NEW stopped \in Outcomes, Drive(d, stopped)
    PROVE  TrailInv'
<1> DEFINE l == SendCommands(d)
<1>1. l \in LinkRecord
    BY SendCommandsType
<1>2. /\ \A w \in Wheels : trail[w] \in {"armed", "driving"}
      /\ ~fault_stop_succeeded
    BY DEF TrailInv, MayOperate, Wheels
<1>3. \A w \in Wheels : l.trail[w] \in {"armed", "driving"}
    BY <1>2, SendCommandsEffect
<1>4. CASE l.success
    <2>1. trail' = l.trail /\ UNCHANGED latch
        BY <1>4 DEF Drive, Transmitted
    <2> HIDE DEF l
    <2> QED BY <1>2, <1>3, <2>1
            DEF TrailInv, StopProtocol, MayOperate, latch, sockets
<1>5. CASE ~l.success
    <2>1. AttemptFaultSafeStop(l, stopped) /\ fault_latched' = TRUE
        BY <1>5 DEF Drive, EnterSafeStop
    <2> HIDE DEF l
    <2>2. Stoppable(l)
        BY <1>3 DEF Stoppable
    <2> QED BY <1>1, <1>2, <2>1, <2>2, TrailInvEnter
<1> QED BY <1>4, <1>5

LEMMA TrailInvNext ==
    ASSUME TypeOK, FaultInv, TrailInv, [Next]_vars PROVE TrailInv'
<1>1. CASE OnActivate
    BY <1>1, TrailInvActivate
<1>2. CASE OnDeactivate \/ OnShutdown
    BY <1>2, TrailInvRelease DEF OnDeactivate, OnShutdown
<1>3. ASSUME UNCHANGED <<trail, sockets, latch>> PROVE TrailInv'
    BY <1>3, TrailInvKept DEF SameStop, sockets, latch
<1>4. CASE ReadStart
    BY <1>3, <1>4, TrailInvMissing DEF ReadStart, Refuse, wire
<1>5. ASSUME NEW w \in Wheels, NEW v \in FeedbackVelocities, ReceiveFeedback(w, v)
      PROVE  TrailInv'
    BY <1>3, <1>5 DEF ReceiveFeedback, wire
<1>6. ASSUME NEW w \in Wheels, NEW seq \in SequenceNumbers, NEW r \in {0, 1},
             ReceiveAck(w, seq, r)
      PROVE  TrailInv'
    BY <1>6, TrailInvKept DEF ReceiveAck, SameStop, sockets, wire
<1>7. CASE ReceiveIgnored \/ \E mask \in SUBSET ErrorBits : ReceiveWarning(mask)
    BY <1>3, <1>7 DEF ReceiveIgnored, ReceiveWarning, wire
<1>8. ASSUME NEW mask \in SUBSET ErrorBits, ReceiveFatal(mask) PROVE TrailInv'
    BY <1>8, TrailInvAbort DEF ReceiveFatal
<1>9. CASE ReceiveException
    BY <1>9, TrailInvAbort DEF ReceiveException
<1>10. CASE ReadFinish
    <2>1. CASE ~ReadFault
        BY <1>3, <1>10, <2>1 DEF ReadFinish, wire
    <2>2. CASE ReadFault
        BY <1>10, <2>2, TrailInvAbort DEF ReadFinish
    <2> QED BY <2>1, <2>2
<1>11. CASE Write
    BY <1>3, <1>11, TrailInvMissing, TrailInvDrive DEF Write, Refuse, wire
<1>12. ASSUME NEW w, NEW v, ControllerUpdate(w, v) PROVE TrailInv'
    BY <1>3, <1>12 DEF ControllerUpdate, wire
<1>13. CASE Tick
    BY <1>3, <1>13 DEF Tick, wire
<1>14. CASE UNCHANGED vars
    BY <1>3, <1>14 DEF vars, wire
<1> QED BY <1>1, <1>2, <1>4, <1>5, <1>6, <1>7, <1>8, <1>9, <1>10, <1>11, <1>12,
           <1>13, <1>14 DEF Next, ReadStep

LEMMA TrailInvariant == Spec => []TrailInv
BY TrailInvInit, TrailInvNext, TypeCorrect, FaultInvariant, PTL DEF Spec

\* No activation sends a motor anything that the stop protocol rules out: no
\* second stop, and nothing after a stop.
THEOREM StopsOnce == Spec => []StopProtocol
<1>1. TrailInv => StopProtocol
    BY DEF TrailInv
<1> QED BY <1>1, TrailInvariant, PTL

\* Only on_deactivate leads from active to inactive.
LEMMA OthersStay ==
    ASSUME [Next]_vars, ~OnActivate, ~OnDeactivate, ~OnShutdown
    PROVE  lifecycle' \in {lifecycle, "finalized"}
<1>1. ASSUME NEW success, Returned(success, lifecycle)
      PROVE  lifecycle' \in {lifecycle, "finalized"}
    BY <1>1 DEF Returned
<1>2. ASSUME NEW reason, EnterSafeStop(reason)
      PROVE  lifecycle' \in {lifecycle, "finalized"}
    BY <1>1, <1>2 DEF EnterSafeStop
<1>3. CASE ReadStart
    BY <1>1, <1>2, <1>3 DEF ReadStart, Refuse, SocketMissing
<1>4. CASE ReadStep
    BY <1>1, <1>2, <1>4
       DEF ReadStep, ReceiveIgnored, ReceiveFeedback, ReceiveAck, ReceiveWarning,
           ReceiveFatal, ReceiveException, ReadFinish, AbortRead
<1>5. CASE Write
    BY <1>1, <1>2, <1>5 DEF Write, Refuse, SocketMissing, Drive
<1>6. CASE \E w \in Wheels, v \in Velocities : ControllerUpdate(w, v)
    BY <1>6 DEF ControllerUpdate
<1>7. CASE Tick \/ UNCHANGED vars
    BY <1>7 DEF Tick, vars
<1> QED BY <1>3, <1>4, <1>5, <1>6, <1>7 DEF Next

\* A deactivation that reports success has stopped both motors.
THEOREM StopHonest == Spec => StopResultHonest
<1>1. ASSUME TypeOK, TrailInv, [Next]_vars,
             lifecycle = "active", lifecycle' = "inactive"
      PROVE  \A w \in Wheels : trail'[w] = "stopped"
    <2>1. ~OnActivate
        BY <1>1 DEF OnActivate
    <2>2. CASE OnDeactivate \/ OnShutdown
        BY <1>1, <2>2, TrailInvRelease DEF OnDeactivate, OnShutdown
    <2> QED BY <1>1, <2>1, <2>2, OthersStay
<1> QED BY <1>1, TypeCorrect, TrailInvariant, PTL DEF Spec, StopResultHonest

-----------------------------------------------------------------------------
(***************************************************************************)
(* Diagnostics                                                             *)
(***************************************************************************)
\* Only a bad ACK changes the reported state without a forced report, and
\* the read() that took it ends with one.
DiagnosticsInv ==
    unreported /\ ~diagnostics_pending => pc = "reading" /\ health.ack_fault

LEMMA PublishForced ==
    ASSUME PublishDiagnostics(TRUE) PROVE DiagnosticsInv'
BY DEF PublishDiagnostics, DiagnosticsInv

LEMMA DiagnosticsInvReadFinish ==
    ASSUME DiagnosticsInv, ReadFinish PROVE DiagnosticsInv'
<1>1. CASE ReadFault
    BY <1>1, PublishForced DEF ReadFinish, AbortRead, EnterSafeStop
<1>2. CASE ~ReadFault
    <2>1. /\ UNCHANGED latch
          /\ PublishDiagnostics(FALSE)
        BY <1>2 DEF ReadFinish
    <2>2. ~health.ack_fault
        BY <1>2 DEF ReadFault
    <2>3. ~Changed
        BY <2>1 DEF Changed, latch
    <2> QED BY <2>1, <2>2, <2>3 DEF DiagnosticsInv, PublishDiagnostics
<1> QED BY <1>1, <1>2

LEMMA DiagnosticsInvNext ==
    ASSUME TypeOK, DiagnosticsInv, [Next]_vars PROVE DiagnosticsInv'
<1>1. CASE OnActivate
    <2>1. CASE SocketsUnavailable
        BY <2>1, PublishForced DEF SocketsUnavailable, ActivationFailed
    <2>2. ASSUME NEW d \in Outcomes, SocketsOpened(d) PROVE DiagnosticsInv'
        BY <2>2, PublishForced DEF SocketsOpened, ActivationFailed
    <2> QED BY <1>1, <2>1, <2>2 DEF OnActivate
<1>2. CASE OnDeactivate \/ OnShutdown
    BY <1>2, PublishForced DEF OnDeactivate, OnShutdown, StopAndRelease
<1>3. ASSUME Refuse \/ \E cause : SocketMissing(cause) PROVE DiagnosticsInv'
    BY <1>3, PublishForced DEF Refuse, SocketMissing, EnterSafeStop
\* Between two callbacks, and within one as long as no ACK fault goes away.
<1>4. ASSUME UNCHANGED diagnostics,
             \/ pc = "idle"
             \/ UNCHANGED pc /\ health'.ack_fault = health.ack_fault
      PROVE  DiagnosticsInv'
    BY <1>4 DEF DiagnosticsInv, diagnostics
<1>5. CASE ReadStart
    BY <1>3, <1>4, <1>5 DEF ReadStart
<1>6. CASE ReceiveIgnored
    BY <1>4, <1>6 DEF ReceiveIgnored
<1>7. ASSUME NEW w \in Wheels, NEW v \in FeedbackVelocities, ReceiveFeedback(w, v)
      PROVE  DiagnosticsInv'
    <2>1. health'.ack_fault = health.ack_fault
        BY <1>7, FeedbackReceivedKeeps DEF ReceiveFeedback, TypeOK
    <2> QED BY <1>4, <1>7, <2>1 DEF ReceiveFeedback
<1>8. ASSUME NEW w \in Wheels, NEW seq \in SequenceNumbers, NEW r \in {0, 1},
             ReceiveAck(w, seq, r)
      PROVE  DiagnosticsInv'
    <2> DEFINE bad == AckVerdict(health, w, seq, r) \in {"REJECTED", "UNEXPECTED"}
    <2>1. health'.ack_fault = (health.ack_fault \/ bad)
        BY <1>8, AckReceivedFault DEF ReceiveAck, TypeOK
    <2>2. ~bad => ~Changed
        BY <1>8 DEF ReceiveAck, Changed
    <2>3. /\ pc = "reading" /\ UNCHANGED <<pc, diagnostics_pending>>
          /\ unreported' = (unreported \/ Changed)
        BY <1>8 DEF ReceiveAck, TakeFrame
    <2> HIDE DEF bad
    <2> QED BY <2>1, <2>2, <2>3 DEF DiagnosticsInv
<1>9. ASSUME NEW mask, ReceiveWarning(mask) PROVE DiagnosticsInv'
    BY <1>9, PublishForced DEF ReceiveWarning
<1>10. ASSUME NEW reason, AbortRead(reason) PROVE DiagnosticsInv'
    BY <1>10, PublishForced DEF AbortRead, EnterSafeStop
<1>11. CASE ReceiveException \/ \E mask \in SUBSET ErrorBits : ReceiveFatal(mask)
    BY <1>10, <1>11 DEF ReceiveException, ReceiveFatal
<1>12. CASE ReadFinish
    BY <1>12, DiagnosticsInvReadFinish
<1>13. CASE Write
    <2>1. ASSUME pc = "idle", NEW d \in Outcomes, NEW stopped \in Outcomes,
                 Drive(d, stopped)
          PROVE  DiagnosticsInv'
        BY <1>4, <2>1, PublishForced DEF Drive, EnterSafeStop
    <2> QED BY <1>3, <1>13, <2>1 DEF Write
<1>14. ASSUME NEW w, NEW v, ControllerUpdate(w, v) PROVE DiagnosticsInv'
    BY <1>4, <1>14 DEF ControllerUpdate
<1>15. CASE Tick
    <2>1. health'.ack_fault = health.ack_fault
        BY <1>15, AgedKeeps DEF Tick, TypeOK
    <2> QED BY <1>4, <1>15, <2>1 DEF Tick
<1>16. CASE UNCHANGED vars
    BY <1>4, <1>16 DEF vars
<1> QED BY <1>1, <1>2, <1>5, <1>6, <1>7, <1>8, <1>9, <1>11, <1>12, <1>13, <1>14,
           <1>15, <1>16 DEF Next, ReadStep

\* A change of what the operator is shown is published or still owed, however
\* often the lock of the publisher is taken.
THEOREM NothingUnreported == Spec => []DiagnosticsNotLost
<1>1. Init => DiagnosticsInv
    BY DEF Init, DiagnosticsInv
<1>2. DiagnosticsInv => DiagnosticsNotLost
    BY DEF DiagnosticsInv, DiagnosticsNotLost
<1> QED BY <1>1, <1>2, DiagnosticsInvNext, TypeCorrect, PTL DEF Spec

-----------------------------------------------------------------------------
(***************************************************************************)
(* Which frames a callback puts on the bus                                 *)
(***************************************************************************)
Within(f, Ok) == \A i \in 1 .. Len(f) : f[i] \in Ok

DisabledFrames == {f \in Frame : ~f.enabled}

FreshFrames(wheels) ==
    {f \in Frame : f.enabled /\ f.velocity # 0 => f.wheel \in wheels}

Carries(f, w, enabled, v) ==
    f.wheel = w /\ f.enabled = enabled /\ f.velocity = WireVelocity(v)

\* A send leaves the frames sent so far or adds one for its motor.
LEMMA SendCommandSent ==
    ASSUME NEW l \in LinkRecord, NEW w \in Wheels, NEW enabled \in BOOLEAN,
           NEW v \in Int, NEW delivered \in BOOLEAN, NEW Ok,
           Within(l.sent, Ok),
           \A f \in Frame : Carries(f, w, enabled, v) => f \in Ok
    PROVE  Within(SendCommand(l, w, enabled, v, delivered).sent, Ok)
<1>1. CASE ~(l.open /\ delivered)
    BY <1>1 DEF SendCommand, LinkRecord
<1>2. CASE l.open /\ delivered
    <2> DEFINE f == [wheel |-> w, sequence |-> NextSequence(l.sequences[w]),
                     enabled |-> enabled, velocity |-> WireVelocity(v)]
    <2>1. SendCommand(l, w, enabled, v, delivered).sent = Append(l.sent, f)
        BY <1>2 DEF SendCommand, LinkRecord
    <2>2. f \in Frame
        BY NextSequenceType, WireVelocityType DEF LinkRecord, Frame
    <2>3. f \in Ok
        BY <2>2 DEF Carries
    <2>4. l.sent \in Seq(Frame)
        BY DEF LinkRecord
    <2> HIDE DEF f
    <2> QED BY <2>1, <2>2, <2>3, <2>4 DEF Within
<1> QED BY <1>1, <1>2

LEMMA SafeStopFrames ==
    ASSUME NEW l \in LinkRecord, NEW d \in Outcomes, NEW Ok,
           Within(l.sent, Ok), DisabledFrames \subseteq Ok
    PROVE  Within(SafeStop(l, d).sent, Ok)
<1> DEFINE left == SendCommand(l, 0, FALSE, 0, d[0])
           right == SendCommand(left, 1, FALSE, 0, d[1])
<1>0. /\ 0 \in Wheels /\ 1 \in Wheels /\ d[0] \in BOOLEAN /\ d[1] \in BOOLEAN
      /\ 0 \in Int /\ FALSE \in BOOLEAN
    BY DEF Outcomes, Wheels
<1>1. /\ \A f \in Frame : Carries(f, 0, FALSE, 0) => f \in Ok
      /\ \A f \in Frame : Carries(f, 1, FALSE, 0) => f \in Ok
    BY DEF DisabledFrames, Carries
<1>2. left \in LinkRecord
    BY <1>0, SendCommandType, Zenon
<1>3. right \in LinkRecord
    BY <1>0, <1>2, SendCommandType, Zenon
<1>4. Within(left.sent, Ok)
    BY <1>0, <1>1, SendCommandSent, Zenon
<1>5. Within(right.sent, Ok)
    BY <1>0, <1>1, <1>2, <1>4, SendCommandSent, Zenon
<1> HIDE DEF left
<1>6. SafeStop(l, d) = [right EXCEPT !.success = left.success /\ right.success]
    BY DEF SafeStop, left
<1> HIDE DEF right
<1>7. SafeStop(l, d).sent = right.sent
    BY <1>3, <1>6 DEF LinkRecord
<1> QED BY <1>5, <1>7

LEMMA AttemptFrames ==
    ASSUME NEW l \in LinkRecord, NEW d \in Outcomes, NEW Ok,
           Within(l.sent, Ok), DisabledFrames \subseteq Ok,
           AttemptFaultSafeStop(l, d)
    PROVE  Within(sent', Ok)
BY SafeStopFrames DEF AttemptFaultSafeStop, Transmitted

LEMMA LinkSent == Within(Link.sent, {}) /\ Within(FreshLink.sent, {})
BY DEF Link, FreshLink, Within

LEMMA NothingSent == ASSUME NEW Ok, sent' = <<>> PROVE Within(sent', Ok)
BY DEF Within

\* on_activate and stop_and_release only send disabled frames.
LEMMA ActivateFrames == ASSUME TypeOK, OnActivate PROVE Within(sent', DisabledFrames)
<1>1. /\ FreshLink \in LinkRecord /\ Within(FreshLink.sent, DisabledFrames)
      /\ [Link EXCEPT !.trail = [w \in Wheels |-> "idle"]].sent = <<>>
    BY FreshLinkType, LinkSent DEF Within, Link
<1>2. CASE SocketsUnavailable
    BY <1>1, <1>2, NothingSent DEF SocketsUnavailable, Transmitted
<1>3. ASSUME NEW d \in Outcomes, SocketsOpened(d)
      PROVE  Within(sent', DisabledFrames)
    BY <1>1, <1>3, SafeStopFrames DEF SocketsOpened, Transmitted
<1> QED BY <1>2, <1>3 DEF OnActivate

LEMMA ReleaseFrames ==
    ASSUME TypeOK, NEW next, StopAndRelease(next)
    PROVE  Within(sent', DisabledFrames)
<1>1. PICK d \in Outcomes : ReleaseStop(d, next)
    BY DEF StopAndRelease
<1>2. Link \in LinkRecord /\ Within(Link.sent, DisabledFrames)
    BY LinkType, LinkSent DEF Within
<1> QED BY <1>1, <1>2, AttemptFrames, SafeStopFrames DEF ReleaseStop, Transmitted

\* A latched fault ends in a successful activation only; until then its cause
\* stays as recorded, or is that of a failed activation, and no motor is
\* enabled.
THEOREM FaultStays == Spec => FaultSticky
<1> DEFINE Stays ==
        /\ fault_latched' \/ (lifecycle = "inactive" /\ lifecycle' = "active")
        /\ \/ stop_reason' = stop_reason
           \/ /\ lifecycle = "inactive"
              /\ stop_reason' = IF fault_latched' THEN Reason("activation_failed")
                                                  ELSE NoReason
        /\ \A i \in 1 .. Len(sent') : ~sent'[i].enabled
<1>1. ASSUME TypeOK, FaultInv, Next, fault_latched PROVE Stays
    <2>1. Within(sent', DisabledFrames) => \A i \in 1 .. Len(sent') : ~sent'[i].enabled
        BY DEF Within, DisabledFrames
    <2>2. CASE OnActivate
        <3>1. lifecycle = "inactive"
            BY <2>2 DEF OnActivate
        <3>2. ActivationFailed =>
                  fault_latched' /\ stop_reason' = Reason("activation_failed")
            BY DEF ActivationFailed
        <3>3. fault_latched' \/ lifecycle' = "active"
            BY <2>2, <3>2 DEF OnActivate, SocketsUnavailable, SocketsOpened, Returned
        <3>4. stop_reason' = IF fault_latched' THEN Reason("activation_failed")
                                               ELSE NoReason
            BY <2>2, <3>2 DEF OnActivate, SocketsUnavailable, SocketsOpened
        <3> QED BY <1>1, <2>1, <2>2, <3>1, <3>3, <3>4, ActivateFrames
    <2>3. CASE OnDeactivate \/ OnShutdown
        <3>1. PICK next : StopAndRelease(next)
            BY <2>3 DEF OnDeactivate, OnShutdown
        <3> QED BY <1>1, <2>1, <3>1, ReleaseFrames DEF StopAndRelease
    <2>4. ASSUME UNCHANGED <<fault_latched, stop_reason>>, sent' = <<>> PROVE Stays
        BY <1>1, <2>4
    <2>5. CASE ReadStart \/ Write
        BY <1>1, <2>4, <2>5 DEF ReadStart, Write, MayOperate, Refuse, latch
    <2>6. ~ReadStep
        BY <1>1 DEF FaultInv, ReadStep, ReceiveIgnored, ReceiveFeedback, ReceiveAck,
               ReceiveWarning, ReceiveFatal, ReceiveException, ReadFinish, AbortRead,
               TakeFrame
    <2>7. CASE \E w \in Wheels, v \in Velocities : ControllerUpdate(w, v)
        BY <2>4, <2>7 DEF ControllerUpdate, latch
    <2>8. ~Tick
        BY <1>1 DEF Tick
    <2> QED BY <1>1, <2>2, <2>3, <2>5, <2>6, <2>7, <2>8 DEF Next
<1>2. TypeOK /\ FaultInv /\ [Next]_vars => [fault_latched => Stays]_vars
    BY <1>1
<1> QED BY <1>2, TypeCorrect, FaultInvariant, PTL DEF Spec, FaultSticky

-----------------------------------------------------------------------------
(***************************************************************************)
(* Fresh commands                                                          *)
(***************************************************************************)
CommandsFresh == \A w \in Wheels : commands[w] # 0 => w \in updated

FreshInv == Within(sent, FreshFrames(updated)) /\ CommandsFresh

LEMMA DisabledIsFresh ==
    ASSUME NEW wheels PROVE DisabledFrames \subseteq FreshFrames(wheels)
BY DEF DisabledFrames, FreshFrames

LEMMA SendCommandsFrames ==
    ASSUME TypeOK, CommandsFresh, NEW d \in Outcomes
    PROVE  Within(SendCommands(d).sent, FreshFrames(updated))
<1> DEFINE Ok == FreshFrames(updated)
           left == SendCommand(Link, 0, TRUE, commands[0], d[0])
           right == SendCommand(left, 1, TRUE, commands[1], d[1])
<1>1. /\ commands[0] \in Int /\ commands[1] \in Int
      /\ 0 \in Wheels /\ 1 \in Wheels /\ d[0] \in BOOLEAN /\ d[1] \in BOOLEAN
      /\ TRUE \in BOOLEAN
    BY HardwareAssumption DEF TypeOK, Wheels, Outcomes
<1>2. WireVelocity(0) = 0
    BY HardwareAssumption DEF WireVelocity, WireMin
<1>3. /\ \A f \in Frame : Carries(f, 0, TRUE, commands[0]) => f \in Ok
      /\ \A f \in Frame : Carries(f, 1, TRUE, commands[1]) => f \in Ok
    BY <1>1, <1>2 DEF CommandsFresh, Carries, FreshFrames
<1>4. Link \in LinkRecord /\ Within(Link.sent, Ok)
    BY LinkType, LinkSent DEF Within
<1> HIDE DEF Ok
<1>5. left \in LinkRecord
    BY <1>1, <1>4, SendCommandType, Zenon
<1>6. Within(left.sent, Ok)
    BY <1>1, <1>3, <1>4, SendCommandSent, Zenon
<1>7. Within(right.sent, Ok)
    BY <1>1, <1>3, <1>5, <1>6, SendCommandSent, Zenon
<1>8. SendCommands(d) \in {left, right}
    BY DEF SendCommands
<1> HIDE DEF left, right
<1> QED BY <1>6, <1>7, <1>8 DEF Ok

LEMMA FreshInvQuiet ==
    ASSUME FreshInv, sent' = <<>>, UNCHANGED <<commands, updated>> PROVE FreshInv'
BY NothingSent DEF FreshInv, CommandsFresh

\* Entering the fault state clears the commands.
LEMMA FreshInvEnter ==
    ASSUME NEW l \in LinkRecord, NEW d \in Outcomes, NEW reason,
           Within(l.sent, FreshFrames(updated)), AttemptFaultSafeStop(l, d),
           EnterSafeStop(reason), UNCHANGED updated
    PROVE  FreshInv'
<1>1. Within(sent', FreshFrames(updated))
    BY DisabledIsFresh, AttemptFrames
<1>2. commands' = NoCommands
    BY DEF EnterSafeStop
<1> QED BY <1>1, <1>2 DEF FreshInv, CommandsFresh, NoCommands

LEMMA FreshInvFault ==
    ASSUME TypeOK, NEW d \in Outcomes, NEW reason, AttemptFaultSafeStop(Link, d),
           EnterSafeStop(reason), UNCHANGED updated
    PROVE  FreshInv'
<1>1. Link \in LinkRecord /\ Within(Link.sent, FreshFrames(updated))
    BY LinkType, LinkSent DEF Within
<1> QED BY <1>1, FreshInvEnter

LEMMA FreshInvNext == ASSUME TypeOK, FreshInv, [Next]_vars PROVE FreshInv'
<1>1. ASSUME Within(sent', DisabledFrames), commands' = NoCommands PROVE FreshInv'
    BY <1>1, DisabledIsFresh DEF Within, FreshInv, CommandsFresh, NoCommands
<1>2. CASE OnActivate
    BY <1>1, <1>2, ActivateFrames DEF OnActivate, ActivationCommands
<1>3. CASE OnDeactivate \/ OnShutdown
    <2>1. PICK next : StopAndRelease(next)
        BY <1>3 DEF OnDeactivate, OnShutdown
    <2> QED BY <1>1, <2>1, ReleaseFrames DEF StopAndRelease
<1>4. ASSUME NEW cause, SocketMissing(cause) PROVE FreshInv'
    BY <1>4, FreshInvFault DEF SocketMissing
<1>5. ASSUME NEW reason, AbortRead(reason) PROVE FreshInv'
    BY <1>5, FreshInvFault DEF AbortRead
<1>6. CASE ReadStart
    BY <1>4, <1>6, FreshInvQuiet DEF ReadStart, Refuse
<1>7. CASE ReadStep
    BY <1>5, <1>7, FreshInvQuiet
       DEF ReadStep, ReceiveIgnored, ReceiveFeedback, ReceiveAck, ReceiveWarning,
           ReceiveFatal, ReceiveException, ReadFinish
<1>8. CASE Write
    <2>1. ASSUME NEW d \in Outcomes, NEW stopped \in Outcomes, Drive(d, stopped),
                 UNCHANGED updated
          PROVE  FreshInv'
        <3>1. /\ SendCommands(d) \in LinkRecord
              /\ Within(SendCommands(d).sent, FreshFrames(updated))
            BY SendCommandsType, SendCommandsFrames DEF FreshInv
        <3>2. CASE SendCommands(d).success
            BY <2>1, <3>1, <3>2 DEF Drive, Transmitted, FreshInv, CommandsFresh
        <3>3. CASE ~SendCommands(d).success
            BY <2>1, <3>1, <3>3, FreshInvEnter DEF Drive
        <3> QED BY <3>2, <3>3
    <2> QED BY <1>4, <1>8, <2>1, FreshInvQuiet DEF Write, Refuse
<1>9. ASSUME NEW w \in Wheels, NEW v \in Velocities, ControllerUpdate(w, v)
      PROVE  FreshInv'
    <2>1. CommandsFresh'
        BY <1>9 DEF ControllerUpdate, FreshInv, CommandsFresh, TypeOK
    <2> QED BY <1>9, <2>1, NothingSent DEF ControllerUpdate, FreshInv
<1>10. CASE Tick
    BY <1>10, FreshInvQuiet DEF Tick
<1>11. CASE UNCHANGED vars
    BY <1>11 DEF vars, FreshInv, CommandsFresh
<1> QED BY <1>2, <1>3, <1>6, <1>7, <1>8, <1>9, <1>10, <1>11 DEF Next

\* A motor is only told to turn by a command given in the present activation.
THEOREM CommandsAreFresh == Spec => []FreshCommands
<1>1. Init => FreshInv
    BY DEF Init, FreshInv, CommandsFresh, NoCommands, Within
<1>2. FreshInv => FreshCommands
    BY DEF FreshInv, CommandsFresh, Within, FreshFrames, FreshCommands
<1> QED BY <1>1, <1>2, FreshInvNext, TypeCorrect, PTL DEF Spec

-----------------------------------------------------------------------------
(***************************************************************************)
(* The queues of pending ACKs: each one is the gap-free tail of the        *)
(* commands sent, oldest first, so examining the front entry alone finds   *)
(* every ACK that is overdue.  First, one queue.                           *)
(***************************************************************************)
\* "last" is the last sequence number used.  That ages fall along the whole
\* queue, not only from one entry to the next, is what the front entry is
\* compared with the others by.
QueueOK(p, last) ==
    /\ p # <<>> => p[Len(p)].sequence = last
    /\ \A i \in 1 .. Len(p) - 1 :
           p[i + 1].sequence = NextSequence(p[i].sequence)
    /\ \A i, j \in 1 .. Len(p) : i <= j => p[i].age >= p[j].age

LEMMA AgeType ==
    ASSUME NEW p \in Seq(PendingAck), NEW i \in 1 .. Len(p)
    PROVE  p[i].age \in AckAge /\ p[i].age \in Nat
<1>1. p[i] \in PendingAck
    OBVIOUS
<1> QED BY <1>1, HealthAssumption DEF PendingAck, AckAge

LEMMA EmptyQueue == ASSUME NEW last PROVE QueueOK(<<>>, last)
BY DEF QueueOK

LEMMA AppendQueue ==
    ASSUME NEW p \in Seq(PendingAck), NEW last \in SequenceNumbers,
           QueueOK(p, last)
    PROVE  QueueOK(Append(p, [sequence |-> NextSequence(last), age |-> 0]),
                   NextSequence(last))
<1> DEFINE next == NextSequence(last)
           q == Append(p, [sequence |-> next, age |-> 0])
<1>1. /\ Len(q) = Len(p) + 1 /\ Len(p) \in Nat
      /\ q[Len(q)].sequence = next /\ q[Len(q)].age = 0
      /\ \A i \in 1 .. Len(p) : q[i] = p[i]
    OBVIOUS
<1>2. \A i \in 1 .. Len(p) : p[i].age \in Nat
    BY AgeType
<1> HIDE DEF q
<1>3. ASSUME NEW i \in 1 .. Len(q) - 1
      PROVE  q[i + 1].sequence = NextSequence(q[i].sequence)
    <2>1. CASE i = Len(p)
        <3>1. q[i] = p[Len(p)] /\ p # <<>>
            BY <1>1, <2>1
        <3>2. p[Len(p)].sequence = last
            BY <3>1 DEF QueueOK
        <3> QED BY <1>1, <2>1, <3>1, <3>2
    <2>2. CASE i # Len(p)
        <3>1. /\ i \in 1 .. Len(p) - 1 /\ i + 1 \in 1 .. Len(p)
              /\ i \in 1 .. Len(p)
            BY <1>1, <2>2
        <3> QED BY <1>1, <3>1 DEF QueueOK
    <2> QED BY <2>1, <2>2
<1>4. ASSUME NEW i \in 1 .. Len(q), NEW j \in 1 .. Len(q), i <= j
      PROVE  q[i].age >= q[j].age
    <2>1. CASE j = Len(q)
        BY <1>1, <1>2, <2>1
    <2>2. CASE j # Len(q)
        <3>1. i \in 1 .. Len(p) /\ j \in 1 .. Len(p)
            BY <1>1, <1>4, <2>2
        <3> QED BY <1>1, <1>4, <3>1 DEF QueueOK
    <2> QED BY <2>1, <2>2
<1>5. QueueOK(q, next)
    BY <1>1, <1>3, <1>4 DEF QueueOK
<1> QED BY <1>5 DEF q

LEMMA TailQueue ==
    ASSUME NEW p \in Seq(PendingAck), p # <<>>, NEW last, QueueOK(p, last)
    PROVE  QueueOK(Tail(p), last)
<1> DEFINE q == Tail(p)
<1>1. /\ Len(q) = Len(p) - 1 /\ Len(p) \in Nat \ {0}
      /\ \A i \in 1 .. Len(q) : q[i] = p[i + 1]
    OBVIOUS
<1>2. q # <<>> => Len(q) # 0
    <2>1. q \in Seq(PendingAck)
        OBVIOUS
    <2> HIDE DEF q
    <2> QED BY <2>1
<1> HIDE DEF q
<1>3. q # <<>> => q[Len(q)].sequence = last
    BY <1>1, <1>2 DEF QueueOK
<1>4. ASSUME NEW i \in 1 .. Len(q) - 1
      PROVE  q[i + 1].sequence = NextSequence(q[i].sequence)
    <2>1. /\ i \in 1 .. Len(q) /\ i + 1 \in 1 .. Len(q)
          /\ i + 1 \in 1 .. Len(p) - 1
        BY <1>1
    <2> QED BY <1>1, <2>1 DEF QueueOK
<1>5. ASSUME NEW i \in 1 .. Len(q), NEW j \in 1 .. Len(q), i <= j
      PROVE  q[i].age >= q[j].age
    <2>1. i + 1 \in 1 .. Len(p) /\ j + 1 \in 1 .. Len(p) /\ i + 1 <= j + 1
        BY <1>1, <1>5
    <2> QED BY <1>1, <2>1 DEF QueueOK
<1> QED BY <1>3, <1>4, <1>5 DEF QueueOK, q

\* A tick ages every entry and keeps their order.
LEMMA OlderQueue ==
    ASSUME NEW p \in Seq(PendingAck), NEW last, QueueOK(p, last)
    PROVE  QueueOK([i \in 1 .. Len(p) |->
                       [ sequence |-> p[i].sequence,
                         age |-> Older(p[i].age, AckTimeout) ]], last)
<1> DEFINE q == [i \in 1 .. Len(p) |->
                    [ sequence |-> p[i].sequence,
                      age |-> Older(p[i].age, AckTimeout) ]]
<1>1. /\ Len(q) = Len(p) /\ Len(p) \in Nat
      /\ \A i \in 1 .. Len(p) : /\ q[i].sequence = p[i].sequence
                               /\ q[i].age = Older(p[i].age, AckTimeout)
    OBVIOUS
<1>2. \A i \in 1 .. Len(p) : p[i].age \in AckAge
    BY AgeType
<1>3. \A a, b \in AckAge : a >= b => Older(a, AckTimeout) >= Older(b, AckTimeout)
    BY HealthAssumption DEF AckAge, Older
<1>4. q # <<>> => p # <<>> /\ Len(p) \in 1 .. Len(p)
    OBVIOUS
<1> HIDE DEF q
<1>5. q # <<>> => q[Len(q)].sequence = last
    BY <1>1, <1>4 DEF QueueOK
<1>6. ASSUME NEW i \in 1 .. Len(q) - 1
      PROVE  q[i + 1].sequence = NextSequence(q[i].sequence)
    <2>1. i \in 1 .. Len(p) - 1 /\ i \in 1 .. Len(p) /\ i + 1 \in 1 .. Len(p)
        BY <1>1
    <2> QED BY <1>1, <2>1 DEF QueueOK
<1>7. ASSUME NEW i \in 1 .. Len(q), NEW j \in 1 .. Len(q), i <= j
      PROVE  q[i].age >= q[j].age
    BY <1>1, <1>2, <1>3, <1>7 DEF QueueOK
<1> QED BY <1>5, <1>6, <1>7 DEF QueueOK, q

\* If the front entry is in time, every entry is.
LEMMA FrontIsOldest ==
    ASSUME NEW p \in Seq(PendingAck), NEW last, QueueOK(p, last),
           p # <<>> => Head(p).age <= AckTimeout
    PROVE  \A i \in 1 .. Len(p) : p[i].age <= AckTimeout
<1> TAKE i \in 1 .. Len(p)
<1>1. /\ p # <<>> /\ 1 \in 1 .. Len(p) /\ 1 <= i /\ Head(p) = p[1]
    OBVIOUS
<1>2. p[1].age >= p[i].age
    BY <1>1 DEF QueueOK
<1>3. p[1].age \in AckAge /\ p[i].age \in AckAge
    BY <1>1, AgeType
<1> QED BY <1>1, <1>2, <1>3, HealthAssumption DEF AckAge

-----------------------------------------------------------------------------
(***************************************************************************)
(* The queues of the plugin                                                *)
(***************************************************************************)
Queues(h, last) == \A w \in Wheels : QueueOK(h.pending[w], last[w])

\* Both sockets are open or neither, and read() goes on with open ones: the
\* queues then are in order whenever a read examines them.
QueueInv ==
    /\ sender <=> receiver
    /\ pc = "reading" => sender /\ ~fault_latched
    /\ sender /\ ~fault_latched => Queues(health, sequences)

LEMMA CommandQueues ==
    ASSUME NEW l \in LinkRecord, NEW w \in Wheels, NEW v \in Int,
           NEW delivered \in BOOLEAN, Queues(l.health, l.sequences),
           SendCommand(l, w, TRUE, v, delivered).success
    PROVE  LET r == SendCommand(l, w, TRUE, v, delivered)
           IN  Queues(r.health, r.sequences)
<1> DEFINE r == SendCommand(l, w, TRUE, v, delivered)
           seq == NextSequence(l.sequences[w])
<1>1. l.open /\ delivered
    BY DEF SendCommand, LinkRecord
<1>2. /\ r.health = CommandSent(l.health, w, seq)
      /\ r.sequences = [l.sequences EXCEPT ![w] = seq]
    BY <1>1 DEF SendCommand, LinkRecord
<1>3. /\ l.health \in Health
      /\ l.sequences \in [Wheels -> SequenceNumbers]
      /\ l.health.pending \in [Wheels -> Seq(PendingAck)]
    BY DEF LinkRecord, Health
<1> HIDE DEF r
<1>4. r.health.pending = [l.health.pending EXCEPT
                             ![w] = Append(@, [sequence |-> seq, age |-> 0])]
    <2> HIDE DEF seq
    <2>1. CommandSent(l.health, w, seq).pending =
              [l.health.pending EXCEPT ![w] = Append(@, [sequence |-> seq, age |-> 0])]
        BY <1>3 DEF CommandSent, Health
    <2> QED BY <1>2, <2>1
<1>5. QueueOK(r.health.pending[w], r.sequences[w])
    BY <1>2, <1>3, <1>4, AppendQueue DEF Queues
<1>6. \A u \in Wheels \ {w} : QueueOK(r.health.pending[u], r.sequences[u])
    BY <1>2, <1>3, <1>4 DEF Queues
<1>7. Queues(r.health, r.sequences)
    BY <1>5, <1>6 DEF Queues
<1> QED BY <1>7 DEF r

LEMMA CommandsQueues ==
    ASSUME TypeOK, NEW d \in Outcomes, Queues(health, sequences),
           SendCommands(d).success
    PROVE  Queues(SendCommands(d).health, SendCommands(d).sequences)
<1> DEFINE left == SendCommand(Link, 0, TRUE, commands[0], d[0])
           right == SendCommand(left, 1, TRUE, commands[1], d[1])
<1>1. /\ commands[0] \in Int /\ commands[1] \in Int
      /\ 0 \in Wheels /\ 1 \in Wheels /\ d[0] \in BOOLEAN /\ d[1] \in BOOLEAN
      /\ TRUE \in BOOLEAN
    BY HardwareAssumption DEF TypeOK, Wheels, Outcomes
<1>2. Link \in LinkRecord /\ Queues(Link.health, Link.sequences)
    BY LinkType DEF Link
<1>3. left \in LinkRecord
    BY <1>1, <1>2, SendCommandType, Zenon
<1>4. left.success /\ SendCommands(d) = right
    BY DEF SendCommands
<1>5. Queues(left.health, left.sequences)
    BY <1>1, <1>2, <1>4, CommandQueues, Zenon
<1>6. Queues(right.health, right.sequences)
    BY <1>1, <1>3, <1>4, <1>5, CommandQueues, Zenon
<1> QED BY <1>4, <1>6

LEMMA AckQueues ==
    ASSUME NEW h \in Health, NEW w \in Wheels, NEW seq, NEW r,
           NEW last, Queues(h, last)
    PROVE  Queues(AckReceived(h, w, seq, r), last)
<1> DEFINE g == AckReceived(h, w, seq, r)
<1>1. h.pending \in [Wheels -> Seq(PendingAck)]
    BY DEF Health
<1>2. g.pending = [h.pending EXCEPT
                      ![w] = IF AnswersFront(h, w, seq) THEN Tail(@) ELSE @]
    BY DEF AckReceived, Health
<1> HIDE DEF g
<1>3. QueueOK(g.pending[w], last[w])
    BY <1>1, <1>2, TailQueue DEF Queues, AnswersFront
<1>4. \A u \in Wheels \ {w} : QueueOK(g.pending[u], last[u])
    BY <1>1, <1>2 DEF Queues
<1>5. Queues(g, last)
    BY <1>3, <1>4 DEF Queues
<1> QED BY <1>5 DEF g

LEMMA AgedQueues ==
    ASSUME NEW h \in Health, NEW last, Queues(h, last)
    PROVE  Queues(Aged(h), last)
<1>1. h.pending \in [Wheels -> Seq(PendingAck)]
    BY DEF Health
<1>2. Aged(h).pending = [w \in Wheels |-> [i \in 1 .. Len(h.pending[w]) |->
            [ sequence |-> h.pending[w][i].sequence,
              age      |-> Older(h.pending[w][i].age, AckTimeout) ]]]
    BY DEF Aged, Health
<1>3. ASSUME NEW w \in Wheels PROVE QueueOK(Aged(h).pending[w], last[w])
    BY <1>1, <1>2, OlderQueue DEF Queues
<1> QED BY <1>3 DEF Queues

LEMMA QueueInvInit == Init => QueueInv
BY DEF Init, QueueInv

\* An empty queue is in order, whatever was sent before.
LEMMA QueueInvActivate == ASSUME TypeOK, OnActivate PROVE QueueInv'
<1>0. pc' = "idle"
    BY DEF OnActivate
<1>1. ASSUME ActivationFailed PROVE QueueInv'
    BY <1>0, <1>1 DEF ActivationFailed, QueueInv
<1>2. ASSUME NEW d \in Outcomes, SocketsOpened(d) PROVE QueueInv'
    <2> DEFINE l == SafeStop(FreshLink, d)
    <2>1. CASE ~l.success
        BY <1>1, <1>2, <2>1 DEF SocketsOpened
    <2>2. CASE l.success
        <3>1. sender' /\ receiver' /\ health' = l.health
            BY <1>2, <2>2 DEF SocketsOpened, Transmitted
        <3>2. FreshLink \in LinkRecord /\ FreshLink.health = Reset
            BY FreshLinkType, LinkType DEF FreshLink, LinkRecord
        <3>3. health'.pending = [w \in Wheels |-> <<>>]
            BY <3>1, <3>2, SafeStopEffect DEF StopEffect, Reset
        <3>4. Queues(health', sequences')
            BY <3>3, EmptyQueue DEF Queues
        <3> QED BY <1>0, <3>1, <3>4 DEF QueueInv, Queues
    <2> QED BY <2>1, <2>2
<1> QED BY <1>1, <1>2 DEF OnActivate, SocketsUnavailable

\* Once a fault is latched nothing is claimed of the queues.
LEMMA QueueInvLatched ==
    ASSUME QueueInv, fault_latched', pc' = "idle", UNCHANGED sockets
    PROVE  QueueInv'
BY DEF QueueInv, sockets

LEMMA QueueInvStep ==
    ASSUME QueueInv, UNCHANGED <<fault_latched, sockets>>,
           pc' = "reading" => pc = "reading" \/ (receiver /\ ~fault_latched),
           sender /\ ~fault_latched => Queues(health, sequences)'
    PROVE  QueueInv'
BY DEF QueueInv, sockets

LEMMA QueueInvDrive ==
    ASSUME TypeOK, QueueInv, pc = "idle", MayOperate, sender,
           UNCHANGED <<pc, sockets>>,
           NEW d \in Outcomes, NEW stopped \in Outcomes, Drive(d, stopped)
    PROVE  QueueInv'
<1>1. CASE SendCommands(d).success
    <2>1. /\ health' = SendCommands(d).health
          /\ sequences' = SendCommands(d).sequences
          /\ UNCHANGED latch
        BY <1>1 DEF Drive, Transmitted
    <2>2. Queues(health', sequences')
        BY <1>1, <2>1, CommandsQueues DEF QueueInv, MayOperate
    <2>3. Queues(health, sequences)'
        BY <2>2 DEF Queues
    <2> QED BY <2>1, <2>3, QueueInvStep DEF latch
<1>2. CASE ~SendCommands(d).success
    <2>1. fault_latched'
        BY <1>2 DEF Drive, EnterSafeStop
    <2> QED BY <2>1, QueueInvLatched
<1> QED BY <1>1, <1>2

LEMMA QueueInvNext == ASSUME TypeOK, QueueInv, [Next]_vars PROVE QueueInv'
<1>1. CASE OnActivate
    BY <1>1, QueueInvActivate
<1>2. CASE OnDeactivate \/ OnShutdown
    BY <1>2 DEF OnDeactivate, OnShutdown, StopAndRelease, QueueInv
<1>3. ASSUME UNCHANGED <<health, sequences, fault_latched, sockets>>,
             pc' = "reading" => pc = "reading" \/ (receiver /\ ~fault_latched)
      PROVE  QueueInv'
    BY <1>3, QueueInvStep DEF QueueInv, Queues
<1>4. ASSUME NEW cause, pc = "idle", SocketMissing(cause) PROVE QueueInv'
    BY <1>4, QueueInvLatched DEF SocketMissing, EnterSafeStop
<1>5. ASSUME NEW reason, AbortRead(reason) PROVE QueueInv'
    BY <1>5, QueueInvLatched DEF AbortRead, EnterSafeStop
<1>6. CASE ReadStart
    BY <1>3, <1>4, <1>6 DEF ReadStart, Refuse, MayOperate, latch, wire
<1>7. CASE ReceiveIgnored \/ \E mask \in SUBSET ErrorBits : ReceiveWarning(mask)
    BY <1>3, <1>7 DEF ReceiveIgnored, ReceiveWarning, latch, wire
<1>8. ASSUME NEW w \in Wheels, NEW v \in FeedbackVelocities, ReceiveFeedback(w, v)
      PROVE  QueueInv'
    <2>1. health'.pending = health.pending
        BY <1>8, FeedbackReceivedKeeps DEF ReceiveFeedback, TypeOK
    <2> QED BY <1>8, <2>1, QueueInvStep
            DEF ReceiveFeedback, QueueInv, Queues, latch, wire
<1>9. ASSUME NEW w \in Wheels, NEW seq \in SequenceNumbers, NEW r \in {0, 1},
             ReceiveAck(w, seq, r)
      PROVE  QueueInv'
    <2>1. /\ health' = AckReceived(health, w, seq, r)
          /\ UNCHANGED <<pc, sequences, fault_latched, sockets>>
        BY <1>9 DEF ReceiveAck, wire
    <2>2. sender /\ ~fault_latched => Queues(health', sequences)
        BY <2>1, AckQueues DEF QueueInv, TypeOK
    <2>3. sender /\ ~fault_latched => Queues(health, sequences)'
        BY <2>1, <2>2 DEF Queues
    <2> QED BY <2>1, <2>3, QueueInvStep
<1>10. CASE ReceiveException \/ \E mask \in SUBSET ErrorBits : ReceiveFatal(mask)
    BY <1>5, <1>10 DEF ReceiveException, ReceiveFatal
<1>11. CASE ReadFinish
    <2>1. CASE ReadFault
        BY <1>5, <1>11, <2>1 DEF ReadFinish
    <2>2. CASE ~ReadFault
        BY <1>3, <1>11, <2>2 DEF ReadFinish, latch, wire
    <2> QED BY <2>1, <2>2
<1>12. CASE Write
    BY <1>3, <1>4, <1>12, QueueInvDrive DEF Write, Refuse, latch, wire
<1>13. ASSUME NEW w, NEW v, ControllerUpdate(w, v) PROVE QueueInv'
    BY <1>3, <1>13 DEF ControllerUpdate, latch, wire
<1>14. CASE Tick
    <2>1. /\ health' = Aged(health)
          /\ UNCHANGED <<pc, sequences, fault_latched, sockets>>
        BY <1>14 DEF Tick, latch, wire
    <2>2. sender /\ ~fault_latched => Queues(health', sequences)
        BY <2>1, AgedQueues DEF QueueInv, TypeOK
    <2>3. sender /\ ~fault_latched => Queues(health, sequences)'
        BY <2>1, <2>2 DEF Queues
    <2> QED BY <2>1, <2>3, QueueInvStep
<1>15. CASE UNCHANGED vars
    BY <1>3, <1>15 DEF vars, latch, wire
<1> QED BY <1>1, <1>2, <1>6, <1>7, <1>8, <1>9, <1>10, <1>11, <1>12, <1>13, <1>14,
           <1>15 DEF Next, ReadStep

LEMMA QueueInvariant == Spec => []QueueInv
BY QueueInvInit, QueueInvNext, TypeCorrect, PTL DEF Spec

\* While the plugin operates, the ACKs it waits for are those of its latest
\* commands, without a gap and oldest first.
THEOREM QueueOrdered == Spec => []PendingContiguous
<1>1. ASSUME TypeOK, QueueInv PROVE PendingContiguous
    <2> SUFFICES ASSUME ~fault_latched, sender, NEW w \in Wheels,
                        NEW i \in 1 .. Len(health.pending[w]) - 1
                 PROVE  LET p == health.pending[w] IN
                        /\ p[i + 1].sequence = (p[i].sequence + 1) % SeqMod
                        /\ p[i].age >= p[i + 1].age
        BY <1>1 DEF PendingContiguous, QueueInv, Queues, QueueOK
    <2> DEFINE p == health.pending[w]
    <2>1. p \in Seq(PendingAck) /\ QueueOK(p, sequences[w])
        BY <1>1 DEF QueueInv, Queues, TypeOK, Health
    <2>2. i \in 1 .. Len(p) /\ i + 1 \in 1 .. Len(p) /\ i <= i + 1
        BY <2>1
    <2> QED BY <2>1, <2>2 DEF QueueOK, NextSequence
<1> QED BY <1>1, QueueInvariant, TypeCorrect, PTL

\* A read() that returns OK has seen every motor and every ACK in time: also
\* the ACKs that it did not look at.
THEOREM GoodReadHealthy == Spec => GoodReadIsHealthy
<1>1. ASSUME TypeOK, QueueInv, Next,
             pc = "reading", pc' = "idle", ~fault_latched'
      PROVE  /\ ~health.ack_fault
             /\ \A w \in Wheels :
                    /\ health.feedback_age[w] <= FeedbackTimeout
                    /\ \A i \in 1 .. Len(health.pending[w]) :
                           health.pending[w][i].age <= AckTimeout
    <2>1. \A reason : ~AbortRead(reason)
        BY <1>1 DEF AbortRead, EnterSafeStop
    <2>2. ReadFinish
        BY <1>1, <2>1
           DEF Next, ReadStep, OnActivate, OnDeactivate, OnShutdown, StopAndRelease,
               ReadStart, ReceiveIgnored, ReceiveFeedback, ReceiveAck,
               ReceiveWarning, ReceiveFatal, ReceiveException, Write,
               ControllerUpdate, Tick, TakeFrame
    <2>3. ~ReadFault
        BY <2>1, <2>2 DEF ReadFinish
    <2>4. ~health.ack_fault
        BY <2>3 DEF ReadFault
    <2>5. ASSUME NEW w \in Wheels
          PROVE  /\ health.feedback_age[w] <= FeedbackTimeout
                 /\ \A i \in 1 .. Len(health.pending[w]) :
                        health.pending[w][i].age <= AckTimeout
        <3> DEFINE p == health.pending[w]
        <3>1. ~FeedbackTimedOut(health, w) /\ ~AckTimedOut(health, w)
            BY <2>3 DEF ReadFault, TimedOut
        <3>2. p \in Seq(PendingAck) /\ QueueOK(p, sequences[w])
            BY <1>1 DEF QueueInv, Queues, TypeOK, Health
        <3>3. health.feedback_age[w] \in FeedbackAge
            BY <1>1 DEF TypeOK, Health
        <3>4. health.feedback_age[w] <= FeedbackTimeout
            BY <3>1, <3>3, HealthAssumption DEF FeedbackTimedOut, FeedbackAge
        <3>5. p # <<>> => Head(p).age <= AckTimeout
            <4>1. p # <<>> => Head(p).age \in AckAge
                <5>1. p # <<>> => 1 \in 1 .. Len(p) /\ Head(p) = p[1]
                    BY <3>2
                <5> QED BY <3>2, <5>1, AgeType
            <4> QED BY <3>1, <4>1, HealthAssumption DEF AckTimedOut, AckAge
        <3> QED BY <3>2, <3>4, <3>5, FrontIsOldest
    <2> QED BY <2>4, <2>5
<1> QED BY <1>1, QueueInvariant, TypeCorrect, PTL DEF Spec, GoodReadIsHealthy
=============================================================================
