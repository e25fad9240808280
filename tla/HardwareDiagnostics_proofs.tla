--------------------- MODULE HardwareDiagnostics_proofs ---------------------
(***************************************************************************)
(* What the operator is shown, for every value of the constants.  The      *)
(* plugin with its reports is still the plugin, so that what is proved of  *)
(* CanMotorHardware can be used here.                                      *)
(***************************************************************************)
EXTENDS HardwareDiagnostics, CanMotorHardware_contract, FiniteSetTheorems

-----------------------------------------------------------------------------
LEMMA DiagnosticsIsNext ==
    ASSUME [DiagnosticsNext]_diagnostic_vars PROVE [Next]_vars
<1>1. ASSUME NEW mask \in Masks PROVE mask \in SUBSET ErrorBits
    BY <1>1, DiagnosticsAssumption
<1>2. CASE ReadAborted \/ \E mask \in Masks : WarningTaken(mask)
    <2>1. ReadStep
        BY <1>1, <1>2 DEF ReadAborted, WarningTaken, ReadStep
    <2> QED BY <2>1 DEF Next
<1>3. CASE \/ FrameIgnored \/ ReadFinished
           \/ \E w \in Wheels, v \in FeedbackVelocities : FeedbackTaken(w, v)
           \/ \E w \in Wheels, seq \in SequenceNumbers, result \in {0, 1} :
                  AckTaken(w, seq, result)
    <2>1. ReadStep
        BY <1>3 DEF FrameIgnored, ReadFinished, FeedbackTaken, AckTaken, ReadStep
    <2> QED BY <2>1 DEF Next
<1>4. CASE Activated \/ Released \/ ReadStarted \/ Written \/ Unseen
    BY <1>4 DEF Activated, Released, ReadStarted, Written, Unseen, Next
<1>5. CASE UNCHANGED diagnostic_vars
    BY <1>5 DEF diagnostic_vars
<1> QED BY <1>2, <1>3, <1>4, <1>5 DEF DiagnosticsNext

LEMMA DiagnosticsIsPlugin == DiagnosticsSpec => Spec
<1>1. DiagnosticsInit => Init
    BY DEF DiagnosticsInit
<1> QED BY <1>1, DiagnosticsIsNext, PTL DEF DiagnosticsSpec, Spec

-----------------------------------------------------------------------------
(***************************************************************************)
(* Steps in which no send throws: the error that is noted stays.           *)
(***************************************************************************)
LEMMA SequenceStays == \A s \in SequenceNumbers : (s + 0) % SeqMod = s
BY HealthAssumption DEF SequenceNumbers

LEMMA QuietDoesNotThrow ==
    ASSUME TypeOK, sent' = <<>>, UNCHANGED <<sequences, stop_reason>>
    PROVE  ~SendThrew
<1>1. ASSUME NEW w \in Wheels PROVE SentTo(w) = 0
    <2>1. {i \in 1 .. Len(sent') : sent'[i].wheel = w} = {}
        OBVIOUS
    <2> QED BY <2>1, FS_EmptySet DEF SentTo
<1>2. \A w \in Wheels : sequences'[w] = (sequences[w] + SentTo(w)) % SeqMod
    BY <1>1, SequenceStays DEF TypeOK
<1> QED BY <1>2 DEF SendThrew

LEMMA CommandsDoNotThrow ==
    ASSUME TypeOK, sender, NEW d \in Outcomes, SendCommands(d).success,
           Transmitted(SendCommands(d)), UNCHANGED stop_reason
    PROVE  ~SendThrew
<1> DEFINE l == SendCommands(d)
<1>1. /\ Bare(sent') = <<Contract!DriveFrame(0), Contract!DriveFrame(1)>>
      /\ \A w \in Wheels : sequences'[w] = NextSequence(sequences[w])
    BY SendCommandsSend DEF Transmitted
<1>2. sent' \in Seq(Frame)
    BY SendCommandsType DEF Transmitted, LinkRecord
<1>3. Len(sent') = 2
    BY <1>1, <1>2, BareType
<1>4. \A i \in 1 .. 2 : sent'[i].wheel = Bare(sent')[i].wheel
    BY <1>3 DEF Bare
<1>5. sent'[1].wheel = 0 /\ sent'[2].wheel = 1
    BY <1>1, <1>4 DEF Contract!DriveFrame
<1>6. ASSUME NEW w \in Wheels PROVE SentTo(w) = 1
    <2>1. {i \in 1 .. Len(sent') : sent'[i].wheel = w} = {w + 1}
        BY <1>3, <1>5 DEF Wheels
    <2> QED BY <2>1, FS_Singleton DEF SentTo
<1> QED BY <1>1, <1>6 DEF SendThrew, NextSequence

-----------------------------------------------------------------------------
(***************************************************************************)
(* The last report                                                         *)
(***************************************************************************)
\* Inside read() a bad ACK may be ahead of what was reported.
ReportInv ==
    ~diagnostics_pending /\ report # NoReport =>
        /\ report.state = diagnostic_state
        /\ report.last_can_error = last_can_error
        /\ pc = "idle" \/ stop_reason = NoReason => report.stop_reason = stop_reason
        /\ fault_latched =>
               report.bus = "ERROR" /\ \A w \in Wheels : report.motor[w] = "ERROR"

\* A report that leaves now is true.
LEMMA ReportIsTrue ==
    ASSUME TypeOK', FaultInv', report' = NextReport PROVE ReportInv'
<1>1. fault_latched' => diagnostic_state' = "safe_stop"
    BY DEF TypeOK, FaultInv
<1>2. fault_latched' => /\ report'.bus = "ERROR"
                        /\ \A w \in Wheels : report'.motor[w] = "ERROR"
    BY <1>1 DEF NextReport, BusLevel, MotorLevel
<1>3. /\ report'.state = diagnostic_state'
      /\ report'.last_can_error = last_can_error'
      /\ report'.stop_reason = stop_reason'
    BY DEF NextReport
<1> QED BY <1>2, <1>3 DEF ReportInv

LEMMA ReportForced ==
    ASSUME TypeOK', FaultInv', Published(TRUE) PROVE ReportInv'
BY ReportIsTrue DEF Published, ReportInv

LEMMA ReportKept ==
    ASSUME ReportInv,
           UNCHANGED <<report, last_can_error, diagnostic_state, fault_latched,
                       diagnostics_pending>>,
           \/ UNCHANGED stop_reason /\ (pc' = pc \/ pc = "idle")
           \/ pc' = "reading" /\ stop_reason' # NoReason
    PROVE  ReportInv'
BY DEF ReportInv

\* A bad ACK leaves a cause, another one changes nothing.
LEMMA AckReason ==
    ASSUME NEW w \in Wheels, NEW seq, NEW r, ReceiveAck(w, seq, r)
    PROVE  stop_reason' # NoReason \/ UNCHANGED stop_reason
BY ReasonNotNone, FirstReasonNotNone DEF ReceiveAck

LEMMA ReportReadFinished ==
    ASSUME TypeOK, FaultInv, TypeOK', FaultInv', ReportInv, ReadFinished
    PROVE  ReportInv'
<1>1. CASE ReadFault
    <2>1. Published(TRUE)
        BY <1>1 DEF ReadFinished, Published
    <2> QED BY <2>1, ReportForced
<1>2. CASE ~ReadFault
    <2>1. /\ pc = "reading" /\ sent' = <<>> /\ UNCHANGED <<latch, wire>>
          /\ PublishDiagnostics(FALSE)
        BY <1>2 DEF ReadFinished, ReadFinish
    <2>2. stop_reason = NoReason
        BY <1>2, <2>1 DEF ReadFault, FaultInv
    <2>3. UNCHANGED <<fault_latched, diagnostic_state, stop_reason, sequences>>
        BY <2>1 DEF latch, wire
    <2>4. last_can_error' = last_can_error
        BY <2>1, <2>3, QuietDoesNotThrow DEF ReadFinished, Noted
    <2>5. CASE report' = NextReport
        BY <2>5, ReportIsTrue
    <2>6. CASE report' = report /\ ~diagnostics_pending
        BY <2>2, <2>3, <2>4, <2>6 DEF ReportInv
    <2>7. CASE diagnostics_pending'
        BY <2>7 DEF ReportInv
    <2> QED BY <1>2, <2>5, <2>6, <2>7 DEF ReadFinished, Published
<1> QED BY <1>1, <1>2

LEMMA ReportWritten ==
    ASSUME TypeOK, FaultInv, TypeOK', FaultInv', ReportInv, Written
    PROVE  ReportInv'
<1>1. CASE fault_latched'
    BY <1>1, ReportForced DEF Written
<1>2. CASE ~fault_latched'
    <2>1. MayOperate /\ sender
        <3>1. ~MayOperate /\ Refuse => fault_latched'
            BY DEF Refuse, MayOperate, latch
        <3>2. \A cause : SocketMissing(cause) => fault_latched'
            BY DEF SocketMissing, EnterSafeStop
        <3> QED BY <1>2, <3>1, <3>2 DEF Written, Write
    <2>2. PICK d \in Outcomes, stopped \in Outcomes : Drive(d, stopped)
        BY <2>1 DEF Written, Write
    <2>3. SendCommands(d).success
        BY <1>2, <2>2 DEF Drive, EnterSafeStop
    <2>4. /\ Transmitted(SendCommands(d)) /\ UNCHANGED <<latch, diagnostics>>
        BY <2>2, <2>3 DEF Drive
    <2>5. UNCHANGED <<fault_latched, stop_reason, diagnostic_state, diagnostics_pending>>
        BY <2>4 DEF latch, diagnostics
    <2>6. last_can_error' = last_can_error
        BY <2>1, <2>3, <2>4, <2>5, CommandsDoNotThrow DEF Written, Noted
    <2>7. report' = report /\ pc' = pc
        BY <1>2, <2>1 DEF Written, Write
    <2> QED BY <2>5, <2>6, <2>7, ReportKept
<1> QED BY <1>1, <1>2

LEMMA ReportInvNext ==
    ASSUME TypeOK, FaultInv, TypeOK', FaultInv', ReportInv,
           [DiagnosticsNext]_diagnostic_vars
    PROVE  ReportInv'
<1>1. CASE Activated \/ Released \/ ReadAborted \/ \E mask \in Masks : WarningTaken(mask)
    BY <1>1, ReportForced DEF Activated, Released, ReadAborted, WarningTaken
<1>2. CASE ReadStarted
    <2>1. CASE pc' = "reading"
        BY <1>2, <2>1, ReportKept
           DEF ReadStarted, ReadStart, Refuse, SocketMissing, latch, diagnostics
    <2>2. CASE pc' # "reading"
        BY <1>2, <2>2, ReportForced DEF ReadStarted
    <2> QED BY <2>1, <2>2
<1>3. CASE FrameIgnored
    BY <1>3, ReportKept DEF FrameIgnored, ReceiveIgnored, diagnosis, latch, diagnostics
<1>4. ASSUME NEW w \in Wheels, NEW v \in FeedbackVelocities, FeedbackTaken(w, v)
      PROVE  ReportInv'
    BY <1>4, ReportKept DEF FeedbackTaken, ReceiveFeedback, diagnosis, latch, diagnostics
<1>5. ASSUME NEW w \in Wheels, NEW seq \in SequenceNumbers, NEW r \in {0, 1},
             AckTaken(w, seq, r)
      PROVE  ReportInv'
    <2>1. stop_reason' # NoReason \/ UNCHANGED stop_reason
        BY <1>5, AckReason DEF AckTaken
    <2>2. pc = "reading" /\ pc' = "reading"
        BY <1>5 DEF AckTaken, ReceiveAck, TakeFrame
    <2>3. UNCHANGED <<report, last_can_error, diagnostic_state, fault_latched,
                      diagnostics_pending>>
        BY <1>5 DEF AckTaken, ReceiveAck
    <2> QED BY <2>1, <2>2, <2>3, ReportKept
<1>6. CASE ReadFinished
    BY <1>6, ReportReadFinished
<1>7. CASE Written
    BY <1>7, ReportWritten
<1>8. CASE Unseen
    BY <1>8, ReportKept DEF Unseen, ControllerUpdate, Tick, diagnosis, latch, diagnostics
<1>9. CASE UNCHANGED diagnostic_vars
    BY <1>9, ReportKept DEF diagnostic_vars, vars, diagnosis, latch, diagnostics
<1> QED BY <1>1, <1>2, <1>3, <1>4, <1>5, <1>6, <1>7, <1>8, <1>9 DEF DiagnosticsNext

\* Between two callbacks the operator sees the state, the cause and the last
\* error as they are, and three errors when a fault is latched, unless a
\* report is owed.
THEOREM OperatorInformed == DiagnosticsSpec => []OperatorIsInformed
<1>1. DiagnosticsInit => ReportInv
    BY DEF DiagnosticsInit, ReportInv
<1>2. ReportInv => OperatorIsInformed
    BY DEF ReportInv, OperatorIsInformed
<1>3. DiagnosticsSpec => [](TypeOK /\ FaultInv)
    BY DiagnosticsIsPlugin, TypeCorrect, FaultInvariant, PTL
<1> QED BY <1>1, <1>2, <1>3, ReportInvNext, PTL DEF DiagnosticsSpec

-----------------------------------------------------------------------------
(***************************************************************************)
(* The ACK verdicts that are shown                                         *)
(***************************************************************************)
\* A bad verdict comes with the fault of the same read(); afterwards the
\* fault is latched, until a release closes the receiver.
WarningInv ==
    /\ ack_warning \in [Wheels -> BOOLEAN]
    /\ \A w \in Wheels : ack_warning[w] =>
           IF pc = "reading" THEN health.ack_fault ELSE fault_latched \/ ~receiver

LEMMA WarningKept ==
    ASSUME WarningInv, UNCHANGED ack_warning,
           \/ pc' # "reading" /\ (fault_latched' \/ ~receiver')
           \/ UNCHANGED <<pc, fault_latched, receiver>> /\ (health.ack_fault => health'.ack_fault)
           \/ pc = "idle" /\ ~fault_latched /\ receiver
           \/ pc = "reading" /\ ~health.ack_fault
    PROVE  WarningInv'
BY DEF WarningInv

LEMMA WarningInvNext ==
    ASSUME TypeOK, FaultInv, WarningInv, [DiagnosticsNext]_diagnostic_vars
    PROVE  WarningInv'
<1>1. CASE Activated
    <2>1. pc' = "idle" /\ (fault_latched' => ~receiver')
        BY <1>1 DEF Activated, OnActivate, SocketsUnavailable, SocketsOpened, ActivationFailed
    <2>2. \/ ack_warning' = ack_warning /\ fault_latched'
          \/ ack_warning' = NoWarnings
        BY <1>1 DEF Activated
    <2> QED BY <2>1, <2>2 DEF WarningInv, NoWarnings
<1>2. CASE Released
    BY <1>2, WarningKept DEF Released, OnDeactivate, OnShutdown, StopAndRelease
<1>3. CASE ReadStarted
    BY <1>3, WarningKept
       DEF ReadStarted, ReadStart, Refuse, SocketMissing, EnterSafeStop, MayOperate,
           latch, sockets
<1>4. CASE FrameIgnored
    BY <1>4, WarningKept DEF FrameIgnored, ReceiveIgnored, diagnosis, latch, sockets
<1>5. ASSUME NEW w \in Wheels, NEW v \in FeedbackVelocities, FeedbackTaken(w, v)
      PROVE  WarningInv'
    <2>1. health'.ack_fault = health.ack_fault
        BY <1>5, FeedbackReceivedKeeps DEF FeedbackTaken, ReceiveFeedback, TypeOK
    <2> QED BY <1>5, <2>1, WarningKept
            DEF FeedbackTaken, ReceiveFeedback, diagnosis, latch, sockets
<1>6. ASSUME NEW w \in Wheels, NEW seq \in SequenceNumbers, NEW r \in {0, 1},
             AckTaken(w, seq, r)
      PROVE  WarningInv'
    <2> DEFINE bad == AckVerdict(health, w, seq, r) \in {"REJECTED", "UNEXPECTED"}
    <2>1. health'.ack_fault = (health.ack_fault \/ bad)
        BY <1>6, AckReceivedFault DEF AckTaken, ReceiveAck, TypeOK
    <2>2. pc = "reading" /\ pc' = "reading"
        BY <1>6 DEF AckTaken, ReceiveAck, TakeFrame
    <2>3. ack_warning' = [ack_warning EXCEPT ![w] = bad]
        BY <1>6 DEF AckTaken
    <2>4. bad \in BOOLEAN
        OBVIOUS
    <2> HIDE DEF bad
    <2> QED BY <2>1, <2>2, <2>3, <2>4 DEF WarningInv
<1>7. ASSUME NEW mask \in Masks, WarningTaken(mask) PROVE WarningInv'
    BY <1>7, WarningKept DEF WarningTaken, ReceiveWarning, latch, sockets
<1>8. ASSUME NEW reason, AbortRead(reason), UNCHANGED ack_warning PROVE WarningInv'
    BY <1>8, WarningKept DEF AbortRead, EnterSafeStop
<1>9. CASE ReadAborted
    BY <1>8, <1>9 DEF ReadAborted, ReceiveFatal, ReceiveException
<1>10. CASE ReadFinished
    <2>1. CASE ReadFault
        BY <1>8, <1>10, <2>1 DEF ReadFinished, ReadFinish
    <2>2. CASE ~ReadFault
        <3>1. pc = "reading" /\ ~health.ack_fault
            BY <1>10, <2>2 DEF ReadFinished, ReadFinish, ReadFault
        <3> QED BY <1>10, <3>1, WarningKept DEF ReadFinished
    <2> QED BY <2>1, <2>2
<1>11. CASE Written
    <2>1. pc = "idle" /\ pc' = "idle" /\ UNCHANGED ack_warning
        BY <1>11 DEF Written, Write, Refuse, SocketMissing
    <2>2. fault_latched' \/ UNCHANGED <<fault_latched, receiver>>
        BY <1>11 DEF Written, Write, Refuse, SocketMissing, EnterSafeStop, Drive,
               latch, sockets
    <2> QED BY <2>1, <2>2 DEF WarningInv
<1>12. CASE Unseen
    <2>1. Tick => health'.ack_fault = health.ack_fault
        BY AgedKeeps DEF Tick, TypeOK
    <2> QED BY <1>12, <2>1, WarningKept
            DEF Unseen, ControllerUpdate, Tick, diagnosis, latch, sockets
<1>13. CASE UNCHANGED diagnostic_vars
    BY <1>13, WarningKept DEF diagnostic_vars, vars, diagnosis, latch, sockets
<1> QED BY <1>1, <1>2, <1>3, <1>4, <1>5, <1>6, <1>7, <1>9, <1>10, <1>11, <1>12, <1>13
        DEF DiagnosticsNext

\* No rejected or unexpected ACK is shown while the plugin operates on: it
\* stops at the end of the read() in which it came.
THEOREM BadAckStops == DiagnosticsSpec => []AckFaultStops
<1>1. DiagnosticsInit => WarningInv
    BY DEF DiagnosticsInit, WarningInv, NoWarnings
<1>2. WarningInv => AckFaultStops
    BY DEF WarningInv, AckFaultStops, Operating
<1>3. DiagnosticsSpec => [](TypeOK /\ FaultInv)
    BY DiagnosticsIsPlugin, TypeCorrect, FaultInvariant, PTL
<1> QED BY <1>1, <1>2, <1>3, WarningInvNext, PTL DEF DiagnosticsSpec
=============================================================================
