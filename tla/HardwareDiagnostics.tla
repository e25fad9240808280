------------------------ MODULE HardwareDiagnostics -------------------------
(***************************************************************************)
(* What the operator sees on /diagnostics: CanMotorHardware with the       *)
(* content of the reports that publish_diagnostics builds.  Every action   *)
(* of CanMotorHardware is kept; conjuncts about last_can_error_,           *)
(* last_ack_status_ and the last report that left are added to it.         *)
(*                                                                         *)
(* Of the three statuses of a report the level is kept, which goes with    *)
(* the text; the numbers (ages, counts, velocities, settings) are left     *)
(* out.                                                                    *)
(***************************************************************************)
EXTENDS CanMotorHardware

CONSTANT Masks    \* the error masks that the bus may deliver

\* A send that throws is told from the sequence numbers it uses up.
ASSUME DiagnosticsAssumption ==
    Masks \subseteq SUBSET ErrorBits /\ SeqMod > 1

VARIABLES
    last_can_error,   \* last_can_error_: the errors it describes
    ack_warning,      \* last_ack_status_ is REJECTED or UNEXPECTED
    report            \* the last message that was published, if any

diagnosis == <<last_can_error, ack_warning>>
diagnostic_vars == <<vars, diagnosis, report>>

NoError == {}    \* "none"
ErrorName ==
    [BUSOFF |-> "bus_off", TX_TIMEOUT |-> "tx_timeout", CRTL |-> "controller"]
Described(mask) == {ErrorName[bit] : bit \in mask}

NoWarnings == [w \in Wheels |-> FALSE]
NoReport == [state |-> "none"]

\* Seeded fault: a motor is judged by the deadlines only.
MotorLevelOfDeadlines(state, h, warning, w) ==
    CASE state # "inactive" /\ (FeedbackTimedOut(h, w) \/ AckTimedOut(h, w)) -> "ERROR"
      [] state = "inactive" -> "WARN"
      [] OTHER -> IF warning[w] THEN "WARN" ELSE "OK"

MotorLevel(state, h, warning, w) ==
    CASE state = "safe_stop" -> "ERROR"
      [] state = "inactive"  -> "WARN"
      [] OTHER -> IF FeedbackTimedOut(h, w) \/ AckTimedOut(h, w) THEN "ERROR"
                  ELSE IF warning[w] THEN "WARN" ELSE "OK"

BusLevel(state, error) ==
    CASE state = "safe_stop" -> "ERROR"
      [] state = "inactive"  -> "WARN"
      [] OTHER -> IF error # NoError THEN "WARN" ELSE "OK"

NextReport ==
    [ state |-> diagnostic_state', last_can_error |-> last_can_error',
      stop_reason |-> stop_reason',
      bus   |-> BusLevel(diagnostic_state', last_can_error'),
      motor |-> [w \in Wheels |->
                   MotorLevel(diagnostic_state', health', ack_warning', w)] ]

\* The report left if none is owed any more; one that is not forced and not
\* owed leaves twice a second.
Published(force) ==
    IF force \/ diagnostics_pending
    THEN IF diagnostics_pending' THEN UNCHANGED report ELSE report' = NextReport
    ELSE report' \in {report, NextReport}

\* The error of a send that throws replaces the one noted before it.
Noted(error) == last_can_error' = IF SendThrew THEN {"send"} ELSE error

-----------------------------------------------------------------------------
DiagnosticsInit ==
    /\ Init
    /\ last_can_error = NoError
    /\ ack_warning = NoWarnings
    /\ report = NoReport

\* Nothing was reset when a socket failed: then no stop was attempted.
Activated ==
    /\ OnActivate
    /\ last_can_error' = IF fault_latched' THEN {"activation"} ELSE NoError
    /\ ack_warning' = IF fault_latched' /\ ~fault_stop_attempted' THEN ack_warning
                      ELSE NoWarnings
    /\ Published(TRUE)

Released ==
    /\ OnDeactivate \/ OnShutdown
    /\ Noted(last_can_error)
    /\ UNCHANGED ack_warning
    /\ Published(TRUE)

ReadStarted ==
    /\ ReadStart
    /\ last_can_error' = IF MayOperate /\ ~receiver THEN {"receiver_unavailable"}
                         ELSE last_can_error
    /\ UNCHANGED ack_warning
    /\ IF pc' = "reading" THEN UNCHANGED report ELSE Published(TRUE)

FrameIgnored == ReceiveIgnored /\ UNCHANGED <<diagnosis, report>>

FeedbackTaken(w, v) == ReceiveFeedback(w, v) /\ UNCHANGED <<diagnosis, report>>

AckTaken(w, seq, result) ==
    /\ ReceiveAck(w, seq, result)
    /\ ack_warning' = [ack_warning EXCEPT ![w] =
                         AckVerdict(health, w, seq, result) \in {"REJECTED", "UNEXPECTED"}]
    /\ UNCHANGED <<last_can_error, report>>

WarningTaken(mask) ==
    /\ ReceiveWarning(mask)
    /\ last_can_error' = Described(mask)
    /\ UNCHANGED ack_warning
    /\ Published(TRUE)

ReadAborted ==
    /\ \/ \E mask \in Masks : ReceiveFatal(mask) /\ Noted(Described(mask))
       \/ ReceiveException /\ Noted({"receive"})
    /\ UNCHANGED ack_warning
    /\ Published(TRUE)

ReadFinished ==
    /\ ReadFinish
    /\ Noted(last_can_error)
    /\ UNCHANGED ack_warning
    /\ Published(ReadFault)

Written ==
    /\ Write
    /\ Noted(IF MayOperate /\ ~sender THEN {"sender_unavailable"} ELSE last_can_error)
    /\ UNCHANGED ack_warning
    /\ IF fault_latched' THEN Published(TRUE) ELSE UNCHANGED report

\* Nothing of this is reported: the level of a latched fault is ERROR however
\* much time passes.
Unseen ==
    /\ \/ \E w \in Wheels, v \in Velocities : ControllerUpdate(w, v)
       \/ Tick
    /\ UNCHANGED <<diagnosis, report>>

DiagnosticsNext ==
    \/ Activated
    \/ Released
    \/ ReadStarted
    \/ FrameIgnored
    \/ \E w \in Wheels, v \in FeedbackVelocities : FeedbackTaken(w, v)
    \/ \E w \in Wheels, seq \in SequenceNumbers, result \in {0, 1} :
           AckTaken(w, seq, result)
    \/ \E mask \in Masks : WarningTaken(mask)
    \/ ReadAborted
    \/ ReadFinished
    \/ Written
    \/ Unseen

DiagnosticsSpec == DiagnosticsInit /\ [][DiagnosticsNext]_diagnostic_vars

-----------------------------------------------------------------------------
(***************************************************************************)
(* Properties                                                              *)
(***************************************************************************)
\* Between two callbacks, unless a report is still owed, the operator sees
\* the state, the first cause of the stop and the last error of the bus as
\* they are, and all three levels at ERROR when a fault is latched: through
\* warnings in the middle of a read, taken locks, stop frames that fail and
\* deactivations.
OperatorIsInformed ==
    pc = "idle" /\ ~diagnostics_pending /\ report # NoReport =>
        /\ report.state = diagnostic_state
        /\ report.stop_reason = stop_reason
        /\ report.last_can_error = last_can_error
        /\ fault_latched => report.bus = "ERROR" /\ \A w \in Wheels : report.motor[w] = "ERROR"

\* The ACK verdict that a report shows and the latch agree: a rejected or
\* unexpected ACK does not outlive the read in which it came, nor a release
\* and the next activation, without a safe stop.
AckFaultStops ==
    pc = "idle" /\ Operating => \A w \in Wheels : ~ack_warning[w]
=============================================================================
