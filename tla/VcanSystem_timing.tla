---------------------------- MODULE VcanSystem_timing ----------------------------
(***************************************************************************)
(* What the robot promises when everybody is on time, for every value of   *)
(* the constants: the feedback that a successful read shows is recent, and *)
(* a robot that loses nothing but feedback is not stopped without need.    *)
(* Both follow from the invariant InStep: the plugin takes from its socket *)
(* in every tick what the last one left there.                             *)
(***************************************************************************)
EXTENDS VcanSystem_proofs

-----------------------------------------------------------------------------
(***************************************************************************)
(* The frames of one tick                                                  *)
(***************************************************************************)
\* What a report of a wheel puts on the bus: its feedback frame, and with
\* "noise" an error frame before it.
NoiseFrames(w) == IF MayFail("noise", w) THEN 2 ELSE 1
ReportFrames == NoiseFrames(0) + NoiseFrames(1)

\* The frames that the motor node will still send in this tick: those of the
\* report, and the ACKs of the commands that wait.
ToReport ==
    IF "report" \in Duties \ done \/ Len(reports) = 2 THEN ReportFrames
    ELSE IF Len(reports) = 1 THEN NoiseFrames(1) ELSE 0

ToAnswer == Len(to_motors) + Len(owed)

ToCome == ToAnswer + ToReport

\* The duties of a tick: a cycle that is under way is not done, one report at
\* a time is on its way, left wheel first.
TickOK ==
    /\ pc = "reading" \/ turn = "write" => "cycle" \notin done
    /\ Len(reports) <= 2
    /\ Len(reports) = 2 => reports[1].wheel = 0
    /\ Len(reports) > 0 => reports[Len(reports)].wheel = 1 /\ "report" \in done
    /\ shown_age \in [Wheels -> 0 .. MaxStale]

LEMMA FramesRange ==
    /\ NoiseFrames(0) \in 1 .. 2 /\ NoiseFrames(1) \in 1 .. 2
    /\ ReportFrames \in 2 .. 4 /\ ReportFrames = NoiseFrames(0) + NoiseFrames(1)
BY DEF NoiseFrames, ReportFrames

LEMMA LoadType ==
    ASSUME SystemInv
    PROVE  /\ Len(to_plugin) \in Nat /\ Len(to_motors) \in Nat /\ Len(reports) \in Nat
           /\ Len(owed) \in 0 .. 1 /\ (Len(owed) = 0 <=> owed = <<>>)
           /\ ToReport \in Nat /\ ToReport <= ReportFrames /\ ToAnswer \in Nat
           /\ ToCome \in Nat /\ ToCome = ToAnswer + ToReport
           /\ ToAnswer = Len(to_motors) + Len(owed)
<1>1. Len(to_plugin) \in Nat /\ Len(to_motors) \in Nat /\ Len(reports) \in Nat
    BY LenProperties DEF SystemInv, BusOK, NodeOK
<1>2. Len(owed) \in 0 .. 1 /\ (Len(owed) = 0 <=> owed = <<>>)
    BY DEF SystemInv, NodeOK
<1>3. ToReport \in Nat /\ ToReport <= ReportFrames
    BY FramesRange DEF ToReport
<1>4. ToAnswer \in Nat
    BY <1>1, <1>2 DEF ToAnswer
<1> QED BY <1>1, <1>2, <1>3, <1>4 DEF ToCome, ToAnswer

LEMMA LoadNext ==
    ASSUME SystemInv'
    PROVE  /\ Len(to_plugin') \in Nat /\ Len(to_motors') \in Nat /\ Len(reports') \in Nat
           /\ Len(owed') \in 0 .. 1 /\ (Len(owed') = 0 <=> owed' = <<>>)
           /\ ToReport' \in Nat /\ ToReport' <= ReportFrames /\ ToAnswer' \in Nat
           /\ ToCome' \in Nat /\ ToCome' = ToAnswer' + ToReport'
           /\ ToAnswer' = Len(to_motors') + Len(owed')
<1>1. Len(to_plugin') \in Nat /\ Len(to_motors') \in Nat /\ Len(reports') \in Nat
    BY LenProperties DEF SystemInv, BusOK, NodeOK
<1>2. Len(owed') \in 0 .. 1 /\ (Len(owed') = 0 <=> owed' = <<>>)
    BY DEF SystemInv, NodeOK
<1>3. UNCHANGED <<ReportFrames, NoiseFrames(0), NoiseFrames(1)>>
    BY DEF ReportFrames, NoiseFrames, MayFail
<1>4. ToReport' \in Nat /\ ToReport' <= ReportFrames
    BY <1>3, FramesRange DEF ToReport
<1>5. ToAnswer' \in Nat
    BY <1>1, <1>2 DEF ToAnswer
<1> QED BY <1>1, <1>2, <1>4, <1>5 DEF ToCome, ToAnswer

LEMMA TickInit == SystemInit => TickOK
<1> SUFFICES ASSUME SystemInit PROVE TickOK
    OBVIOUS
<1>1. reports = <<>> /\ Len(reports) = 0 /\ done = {}
    BY DEF SystemInit, Motors!Init
<1>2. shown_age \in [Wheels -> 0 .. MaxStale]
    BY SystemAssumption DEF SystemInit
<1> QED BY <1>1, <1>2 DEF TickOK

\* The reports leave in the order in which they were taken.
LEMMA EmitTakes ==
    ASSUME SystemInv, TickOK, Emit
    PROVE  /\ Head(reports).wheel \in Wheels /\ reports' = Tail(reports)
           /\ Len(reports') = Len(reports) - 1 /\ Len(reports) \in 1 .. 2
           /\ Head(reports).wheel = IF Len(reports) = 2 THEN 0 ELSE 1
           /\ Len(reports) = 2 => reports'[1].wheel = 1
           /\ "report" \in done /\ UNCHANGED done
<1>1. reports # <<>> /\ reports' = Tail(reports) /\ UNCHANGED done
    BY DEF Emit, Motors!Emit
<1>2. /\ reports \in Seq(ReportRecord) /\ Head(reports) = reports[1]
      /\ Head(reports) \in ReportRecord
      /\ Len(reports') = Len(reports) - 1 /\ Len(reports) \in Nat /\ Len(reports) > 0
      /\ \A i \in 1 .. Len(reports) - 1 : reports'[i] = reports[i + 1]
    BY <1>1, HeadTailProperties, LenProperties, EmptySeq DEF SystemInv, NodeOK
<1>3. Len(reports) \in 1 .. 2 /\ "report" \in done
    BY <1>2 DEF TickOK
<1>4. Head(reports).wheel \in Wheels
    BY <1>2 DEF ReportRecord
<1>5. CASE Len(reports) = 2
    <2>1. reports'[1] = reports[2] /\ reports[2].wheel = 1 /\ reports[1].wheel = 0
        BY <1>2, <1>5 DEF TickOK
    <2> QED BY <1>1, <1>2, <1>3, <1>4, <1>5, <2>1
<1>6. CASE Len(reports) = 1
    <2>1. reports[1].wheel = 1
        BY <1>6 DEF TickOK
    <2> QED BY <1>1, <1>2, <1>3, <1>4, <1>6, <2>1
<1> QED BY <1>3, <1>5, <1>6

LEMMA SampleTakes ==
    ASSUME SystemInv, Sample
    PROVE  /\ Len(reports) = 0 /\ Len(reports') = 2
           /\ reports'[1].wheel = 0 /\ reports'[2].wheel = 1
           /\ "report" \in Duties \ done /\ done' = done \cup {"report"}
<1> DEFINE left == [wheel |-> 0, reading |-> Motors!ReadingOf(motors[0])]
           right == [wheel |-> 1, reading |-> Motors!ReadingOf(motors[1])]
<1>1. reports = <<>> /\ reports' = <<>> \o <<left, right>>
    BY DEF Sample, Motors!Sample
<1>2. left.wheel = 0 /\ right.wheel = 1
    OBVIOUS
<1> HIDE DEF left, right
<1>3. Len(reports') = 2 /\ reports'[1] = left /\ reports'[2] = right
    BY <1>1
<1> QED BY <1>1, <1>2, <1>3 DEF Sample, Perform

LEMMA TickNext ==
    ASSUME SystemInv, TickOK, "late" \notin Faults, [SystemNext]_system_vars PROVE TickOK'
<1>1. /\ SystemInv' /\ 0 \in 0 .. MaxStale /\ MaxStale \in Nat
      /\ shown_age \in [Wheels -> 0 .. MaxStale]
    BY SystemInvNext, SystemAssumption DEF TickOK
<1>2. CASE Activate \/ Deactivate \/ Control
    <2>1. /\ pc' = pc /\ UNCHANGED <<turn, done, reports>>
        BY <1>2 DEF Activate, Deactivate, Control, OnActivate, OnDeactivate, StopAndRelease,
                    ControllerUpdate, PluginSteps, NodeIdle, node
    <2>2. shown_age' \in [Wheels -> 0 .. MaxStale]
        BY <1>1, <1>2 DEF Activate, Deactivate, Control, history
    <2> QED BY <2>1, <2>2 DEF TickOK
<1>3. CASE BeginRead
    <2>1. "cycle" \notin done /\ UNCHANGED <<done, reports, shown_age>>
        BY <1>3 DEF BeginRead, PluginSteps, NodeIdle, node, history
    <2> QED BY <2>1 DEF TickOK
<1>4. CASE EndRead
    <2>1. pc = "reading" /\ UNCHANGED <<done, reports, shown_age>>
        BY <1>4 DEF EndRead, PluginSteps, NodeIdle, node, history
    <2> QED BY <2>1 DEF TickOK
<1>5. CASE WriteCommands
    <2>1. pc' = "idle"
        BY <1>5 DEF WriteCommands, Write, Refuse, SocketMissing
    <2>2. turn' = "read" /\ done' = done \cup {"cycle"} /\ UNCHANGED <<reports, shown_age>>
        BY <1>5 DEF WriteCommands, Perform, PluginSteps, NodeIdle, node, history
    <2> QED BY <2>1, <2>2 DEF TickOK
<1>6. CASE ReadFrame
    <2>1. UNCHANGED <<pc, turn, done, reports>>
        BY <1>6, ReadFrameType DEF ReadFrame, NodeIdle, node
    <2>2. Head(to_plugin).age \in 0 .. MaxStale
        <3>1. to_plugin \in Seq(BusEntry) /\ to_plugin # <<>>
            BY <1>6 DEF ReadFrame, SystemInv, BusOK
        <3>2. Head(to_plugin) \in BusEntry
            BY <3>1, HeadTailProperties
        <3> QED BY <3>2 DEF BusEntry
    <2>3. shown_age' \in [Wheels -> 0 .. MaxStale]
        BY <1>1, <1>6, <2>2 DEF ReadFrame
    <2> QED BY <2>1, <2>3 DEF TickOK
<1>7. CASE Obey \/ Answer \/ UNCHANGED system_vars
    <2>1. UNCHANGED <<pc, turn, done, reports, shown_age>>
        BY <1>7, IdleSockets DEF Obey, Answer, Motors!Obey, Motors!Acknowledge, NodeIdle,
                                 node, system_vars, vars, history
    <2> QED BY <2>1 DEF TickOK
<1>8. CASE Advance
    <2>1. UNCHANGED <<pc, turn, reports, shown_age>> /\ done' = done \cup {"advance"}
        BY <1>8, IdleSockets, AdvanceMotors DEF Advance, Perform, history
    <2> QED BY <2>1 DEF TickOK
<1>9. CASE Sample
    <2>1. UNCHANGED <<pc, turn, shown_age>>
        BY <1>9, IdleSockets DEF Sample, history
    <2>2. /\ Len(reports') = 2 /\ reports'[1].wheel = 0 /\ reports'[2].wheel = 1
          /\ done' = done \cup {"report"}
        BY <1>9, SampleTakes
    <2> QED BY <2>1, <2>2 DEF TickOK
<1>10. CASE Emit
    <2>1. UNCHANGED <<pc, turn, shown_age>>
        BY <1>10, IdleSockets DEF Emit, history
    <2> QED BY <1>10, <2>1, EmitTakes DEF TickOK
<1>11. CASE Pass
    <2>1. reports' = <<>> /\ Len(reports') = 0 /\ done' = {}
        BY <1>11 DEF Pass, OnTime, Motors!Tick
    <2>2. shown_age' \in [Wheels -> 0 .. MaxStale]
        BY <1>1, <1>11 DEF Pass, Stale
    <2> QED BY <1>11, <2>1, <2>2 DEF TickOK
<1> QED BY <1>2, <1>3, <1>4, <1>5, <1>6, <1>7, <1>8, <1>9, <1>10, <1>11 DEF SystemNext

-----------------------------------------------------------------------------
(***************************************************************************)
(* The two processes keep step: what was queued before the last tick is    *)
(* drained by the read of this tick.                                       *)
(***************************************************************************)
\* Nobody is late, the controller manager runs a cycle in every tick, and
\* read() may take (kMaxFramesPerRead) what two reports and four ACKs bring.
InTime ==
    /\ "late" \notin Faults /\ "restless" \notin Faults /\ "cycle" \in Duties
    /\ ReportFrames + 4 <= MaxFramesPerRead

\* The first n frames of the plugin's queue are one tick old, the others new.
LeftOver(n) ==
    \A i \in 1 .. Len(to_plugin) : to_plugin[i].age = IF i <= n THEN 1 ELSE 0

ReadSoFar == IF pc = "reading" THEN frames ELSE 0

\* Of new frames there are no more than the report, the two ACKs of the write
\* of this tick and those of the stop frames of an activation.
Budget(n) ==
    /\ LeftOver(n)
    /\ Len(to_plugin) - n + ToCome
           <= ReportFrames + (IF "cycle" \in done THEN 4 ELSE 2)
    /\ Len(to_plugin) + ToCome <= 2 * ReportFrames + 4
    /\ n > 0 => /\ turn = "read" /\ "cycle" \notin done
                /\ n + ReadSoFar <= ReportFrames + 4

InStep == Live => \E n \in 0 .. Len(to_plugin) : Budget(n)

\* A step that adds nothing to the bus.
LEMMA BudgetStays ==
    ASSUME SystemInv, SystemInv', NEW n \in 0 .. Len(to_plugin), Budget(n),
           to_plugin' = to_plugin, ToCome' <= ToCome,
           "cycle" \in done' <=> "cycle" \in done,
           n > 0 => turn' = turn /\ ReadSoFar' <= ReadSoFar
    PROVE  n \in 0 .. Len(to_plugin') /\ Budget(n)'
<1>1. ToCome \in Nat /\ ToCome' \in Nat /\ Len(to_plugin) \in Nat /\ ReportFrames \in Nat
    BY LoadType, LoadNext, FramesRange
<1>2. ReadSoFar \in Nat /\ ReadSoFar' \in Nat
    BY DEF ReadSoFar, SystemInv, TypeOK
<1>3. LeftOver(n)'
    BY DEF Budget, LeftOver
<1>4. Len(to_plugin') = Len(to_plugin)
    OBVIOUS
<1>5. n > 0 => n + ReadSoFar' <= ReportFrames + 4
    <2> DEFINE a == ReadSoFar
               b == ReadSoFar'
               k == ReportFrames + 4
    <2>1. n \in Nat /\ (n > 0 => n + a <= k)
        BY <1>1 DEF Budget
    <2>2. a \in Nat /\ b \in Nat /\ k \in Nat /\ (n > 0 => b <= a)
        BY <1>1, <1>2
    <2> HIDE DEF a, b, k
    <2>3. n > 0 => n + b <= k
        BY <2>1, <2>2
    <2> QED BY <2>3 DEF b, k
<1>6. Len(to_plugin) - n + ToCome' <= ReportFrames + (IF "cycle" \in done THEN 4 ELSE 2)
    <2> DEFINE k == ReportFrames + (IF "cycle" \in done THEN 4 ELSE 2)
    <2>1. k \in Nat /\ Len(to_plugin) - n + ToCome <= k
        BY <1>1 DEF Budget
    <2> HIDE DEF k
    <2>2. Len(to_plugin) - n + ToCome' <= k
        BY <1>1, <2>1
    <2> QED BY <2>2 DEF k
<1>7. Len(to_plugin) + ToCome' <= 2 * ReportFrames + 4
    BY <1>1 DEF Budget
<1>8. ReportFrames' = ReportFrames
    BY DEF ReportFrames, NoiseFrames, MayFail
<1> QED BY <1>3, <1>4, <1>5, <1>6, <1>7, <1>8 DEF Budget

\* A step of the motor node that sends what was still to come.
LEMMA BudgetArrives ==
    ASSUME SystemInv, SystemInv', NEW n \in 0 .. Len(to_plugin), Budget(n),
           NEW new \in Seq(GoodFrame), Received(new), receiver, UNCHANGED <<turn, done>>,
           ReadSoFar' = ReadSoFar, Len(new) + ToCome' <= ToCome
    PROVE  n \in 0 .. Len(to_plugin') /\ Budget(n)'
<1>1. /\ ToCome \in Nat /\ ToCome' \in Nat /\ Len(to_plugin) \in Nat /\ ReportFrames \in Nat
      /\ Len(to_plugin') \in Nat /\ Len(new) \in Nat /\ n \in Nat
    <2>1. ToCome \in Nat /\ Len(to_plugin) \in Nat
        BY LoadType
    <2>2. ToCome' \in Nat /\ Len(to_plugin') \in Nat
        BY LoadNext
    <2>3. Len(new) \in Nat
        BY LenProperties
    <2> QED BY <2>1, <2>2, <2>3, FramesRange
<1>2. to_plugin' = Enqueue(to_plugin, EntriesOf(new))
    BY DEF Received, EntriesOf
<1>3. /\ EntriesOf(new) \in Seq(BusEntry) /\ Len(EntriesOf(new)) = Len(new)
      /\ to_plugin \in Seq(BusEntry) /\ Len(to_plugin) <= QueueMax
    BY EntriesType DEF SystemInv, BusOK
<1>4. Grows(BusEntry, to_plugin, EntriesOf(new), to_plugin')
    BY <1>2, <1>3, EnqueueIs
<1>5. /\ Len(to_plugin') >= Len(to_plugin) /\ Len(to_plugin') <= Len(to_plugin) + Len(new)
      /\ \A i \in 1 .. Len(to_plugin) : to_plugin'[i] = to_plugin[i]
      /\ \A i \in Len(to_plugin) + 1 .. Len(to_plugin') :
             to_plugin'[i] = EntriesOf(new)[i - Len(to_plugin)]
    BY <1>3, <1>4 DEF Grows
<1>6. ASSUME NEW i \in 1 .. Len(to_plugin')
      PROVE  to_plugin'[i].age = IF i <= n THEN 1 ELSE 0
    <2>1. CASE i <= Len(to_plugin)
        <3>1. i \in 1 .. Len(to_plugin)
            BY <1>1, <2>1
        <3> QED BY <1>5, <3>1 DEF Budget, LeftOver
    <2>2. CASE ~(i <= Len(to_plugin))
        <3>1. i \in Len(to_plugin) + 1 .. Len(to_plugin') /\ i - Len(to_plugin) \in 1 .. Len(new)
              /\ ~(i <= n)
            BY <1>1, <1>5, <2>2
        <3>2. to_plugin'[i] = Entry(new[i - Len(to_plugin)])
            BY <1>5, <3>1 DEF EntriesOf
        <3> QED BY <3>1, <3>2 DEF Entry
    <2> QED BY <2>1, <2>2
<1>7. LeftOver(n)'
    BY <1>6 DEF LeftOver
<1>8. Len(to_plugin') + ToCome' <= Len(to_plugin) + ToCome
    BY <1>1, <1>5
<1>9. Len(to_plugin') - n + ToCome' <= ReportFrames + (IF "cycle" \in done THEN 4 ELSE 2)
    <2> DEFINE k == ReportFrames + (IF "cycle" \in done THEN 4 ELSE 2)
    <2>1. k \in Nat /\ Len(to_plugin) - n + ToCome <= k
        BY <1>1 DEF Budget
    <2> HIDE DEF k
    <2>2. Len(to_plugin') - n + ToCome' <= k
        BY <1>1, <1>8, <2>1
    <2> QED BY <2>2 DEF k
<1>10. Len(to_plugin') + ToCome' <= 2 * ReportFrames + 4
    BY <1>1, <1>8 DEF Budget
<1>11. ReportFrames' = ReportFrames /\ n \in 0 .. Len(to_plugin')
    BY <1>1, <1>5 DEF ReportFrames, NoiseFrames, MayFail
<1> QED BY <1>7, <1>9, <1>10, <1>11 DEF Budget

\* A read takes what was left over first.
LEMMA BudgetDraws ==
    ASSUME SystemInv, SystemInv', NEW n \in 0 .. Len(to_plugin), Budget(n), ReadFrame
    PROVE  LET m == IF n > 0 THEN n - 1 ELSE 0 IN
           m \in 0 .. Len(to_plugin') /\ Budget(m)'
<1> DEFINE m == IF n > 0 THEN n - 1 ELSE 0
<1>1. /\ to_plugin # <<>> /\ to_plugin' = Tail(to_plugin)
      /\ UNCHANGED <<to_motors, turn, done, owed, reports>>
    BY DEF ReadFrame, NodeIdle, node
<1>2. /\ Len(to_plugin') = Len(to_plugin) - 1 /\ Len(to_plugin) \in Nat /\ Len(to_plugin) > 0
      /\ \A i \in 1 .. Len(to_plugin) - 1 : to_plugin'[i] = to_plugin[i + 1]
    BY <1>1, HeadTailProperties, LenProperties, EmptySeq DEF SystemInv, BusOK
<1>3. pc = "reading" /\ pc' = "reading" /\ frames' = frames + 1 /\ frames \in Nat
    <2>1. TakeFrame
        BY DEF ReadFrame, ReceiveAck, ReceiveFeedback, ReceiveIgnored, ReceiveWarning
    <2> QED BY <2>1, ReadFrameType DEF TakeFrame, SystemInv, TypeOK
<1>4. ReadSoFar = frames /\ ReadSoFar' = frames + 1
    BY <1>3 DEF ReadSoFar
<1>5. ToCome' = ToCome /\ ToCome \in Nat /\ ReportFrames \in Nat
    BY <1>1, LoadType, FramesRange DEF ToCome, ToAnswer, ToReport, ReportFrames, NoiseFrames,
                                        MayFail
<1>6. m \in 0 .. Len(to_plugin') /\ (m > 0 => n > 0 /\ m = n - 1)
    BY <1>2
<1>7. Len(to_plugin') - m <= Len(to_plugin) - n
    BY <1>2
<1>8. ASSUME NEW i \in 1 .. Len(to_plugin')
      PROVE  to_plugin'[i].age = IF i <= m THEN 1 ELSE 0
    <2>1. /\ i \in 1 .. Len(to_plugin) - 1 /\ i + 1 \in 1 .. Len(to_plugin)
          /\ (i <= m <=> i + 1 <= n)
        BY <1>2
    <2>2. to_plugin[i + 1].age = IF i + 1 <= n THEN 1 ELSE 0
        BY <2>1 DEF Budget, LeftOver
    <2> QED BY <1>2, <2>1, <2>2
<1> HIDE DEF m
<1>9. LeftOver(m)'
    BY <1>8 DEF LeftOver
<1>10. Len(to_plugin') - m + ToCome' <= ReportFrames + (IF "cycle" \in done THEN 4 ELSE 2)
    <2> DEFINE k == ReportFrames + (IF "cycle" \in done THEN 4 ELSE 2)
    <2>1. k \in Nat /\ Len(to_plugin) - n + ToCome <= k
        BY <1>5 DEF Budget
    <2> HIDE DEF k
    <2>2. Len(to_plugin') - m + ToCome' <= k
        BY <1>2, <1>5, <1>6, <1>7, <2>1
    <2> QED BY <2>2 DEF k
<1>11. Len(to_plugin') + ToCome' <= 2 * ReportFrames + 4
    BY <1>2, <1>5 DEF Budget
<1>12. m > 0 => turn = "read" /\ "cycle" \notin done /\ m + ReadSoFar' <= ReportFrames + 4
    BY <1>3, <1>4, <1>5, <1>6 DEF Budget
<1>13. ReportFrames' = ReportFrames
    BY DEF ReportFrames, NoiseFrames, MayFail
<1>14. Budget(m)'
    BY <1>1, <1>9, <1>10, <1>11, <1>12, <1>13 DEF Budget
<1> QED BY <1>6, <1>14 DEF m

\* When read() ends nothing is left over, whether it drained the queue or
\* came to its limit.
LEMMA AllDrawn ==
    ASSUME SystemInv, InTime, EndRead, NEW n \in 0 .. Len(to_plugin), Budget(n)
    PROVE  n = 0
<1>1. pc = "reading" /\ (to_plugin = <<>> \/ frames = MaxFramesPerRead) /\ frames \in Nat
    BY DEF EndRead, SystemInv, TypeOK
<1>2. n \in Nat /\ ReportFrames \in Nat /\ MaxFramesPerRead \in Nat
      /\ ReportFrames + 4 <= MaxFramesPerRead
    BY LoadType, FramesRange, HardwareAssumption DEF InTime
<1>3. CASE to_plugin = <<>>
    <2>1. Len(to_plugin) = 0
        BY <1>3
    <2> QED BY <2>1
<1>4. CASE frames = MaxFramesPerRead
    <2>1. n > 0 => n + frames <= ReportFrames + 4
        BY <1>1 DEF Budget, ReadSoFar
    <2> QED BY <1>1, <1>2, <1>4, <2>1
<1> QED BY <1>1, <1>3, <1>4

LEMMA IdleCommands ==
    ASSUME SystemInv, PluginSteps, sent' = <<>>
    PROVE  UNCHANGED <<to_motors, owed, reports, motors, last_command>>
<1>1. UNCHANGED <<owed, reports, motors, last_command>>
    BY DEF PluginSteps, NodeIdle, node
<1> QED BY <1>1, NoCommandsMove

LEMMA NothingOnTheWay ==
    ASSUME SystemInv, \A w \in Wheels : ~OnTheWay(w)
    PROVE  to_motors = <<>> /\ owed = <<>>
<1>1. to_motors = <<>>
    <2> SUFFICES ASSUME to_motors # <<>> PROVE FALSE
        OBVIOUS
    <2>1. Head(to_motors) \in GoodCommand /\ Len(to_motors) \in Nat /\ Head(to_motors) = to_motors[1]
        BY NextCommand
    <2>2. Head(to_motors).wheel \in Wheels /\ 1 \in 1 .. Len(to_motors)
        BY <2>1, GoodCommandType, EmptySeq DEF SystemInv, BusOK
    <2> QED BY <2>1, <2>2 DEF OnTheWay
<1>2. owed = <<>>
    <2> SUFFICES ASSUME owed # <<>> PROVE FALSE
        OBVIOUS
    <2>1. owed[1].wheel \in Wheels
        BY OwedCommand, GoodCommandType
    <2> QED BY <2>1 DEF OnTheWay
<1> QED BY <1>1, <1>2

\* The number of commands that wait after a callback.
LEMMA SentWait ==
    ASSUME SystemInv, PluginSteps, sent' \in Seq(Frame)
    PROVE  Len(to_motors') <= Len(to_motors) + Len(sent') /\ UNCHANGED <<owed, reports>>
<1>1. to_motors' = Enqueue(to_motors, CommandsOf(sent'))
    BY DEF PluginSteps, CommandsOf
<1>2. CommandsOf(sent') \in Seq(GoodCommand) /\ Len(CommandsOf(sent')) = Len(sent')
    BY CommandsType
<1>3. to_motors \in Seq(GoodCommand) /\ Len(to_motors) <= QueueMax
    BY DEF SystemInv, BusOK
<1>4. Grows(GoodCommand, to_motors, CommandsOf(sent'), to_motors')
    BY <1>1, <1>2, <1>3, EnqueueIs
<1> QED BY <1>2, <1>4 DEF Grows, PluginSteps, NodeIdle, node

\* An activation that need not expect old frames finds every queue empty.
LEMMA ActivateFresh ==
    ASSUME SystemInv, InactiveIsClosed, InTime, Activate, Live'
    PROVE  /\ to_motors = <<>> /\ owed = <<>> /\ to_plugin = <<>> /\ to_plugin' = <<>>
           /\ owed' = <<>> /\ Len(to_motors') <= 2 /\ UNCHANGED <<turn, done, reports, pc>>
<1>1. to_motors = <<>> /\ owed = <<>>
    BY NothingOnTheWay DEF Activate, InTime
<1>2. ~sender /\ UNCHANGED <<turn, done, pc>>
    BY DEF Activate, OnActivate, InactiveIsClosed
<1>3. to_plugin = <<>>
    BY <1>2 DEF SystemInv, QueueInv, BusOK
<1>4. PluginSteps /\ sent' \in Seq(Frame) /\ Len(sent') = 2
    BY ActivateEffect DEF Live, BothSent
<1>5. to_plugin' = <<>>
    BY <1>3, <1>4 DEF PluginSteps
<1> QED BY <1>1, <1>2, <1>3, <1>4, <1>5, SentWait

LEMMA BudgetActivate ==
    ASSUME SystemInv, SystemInv', InactiveIsClosed, InTime, Activate, Live'
    PROVE  Budget(0)'
<1>1. /\ to_plugin' = <<>> /\ owed' = <<>> /\ Len(to_motors') <= 2
      /\ UNCHANGED <<turn, done, reports>>
    BY ActivateFresh
<1>2. ToReport' = ToReport
    BY <1>1 DEF ToReport, ReportFrames, NoiseFrames, MayFail
<1>3. ToReport \in Nat /\ ToReport <= ReportFrames /\ ReportFrames \in Nat
    BY LoadType, FramesRange
<1>4. Len(to_motors') \in Nat /\ ToCome' = Len(to_motors') + 0 + ToReport
    <2>1. Len(owed') = 0 /\ Len(to_motors') \in Nat
        BY <1>1, LoadNext
    <2> QED BY <1>2, <2>1 DEF ToCome, ToAnswer
<1>5. ToCome' \in Nat /\ ToCome' <= ReportFrames + 2
    BY <1>1, <1>3, <1>4
<1>6. ReportFrames' = ReportFrames /\ Len(to_plugin') = 0 /\ LeftOver(0)'
    BY <1>1 DEF LeftOver, ReportFrames, NoiseFrames, MayFail
<1> DEFINE k == ReportFrames
           c == ToCome'
           p == Len(to_plugin')
<1>7. k \in 2 .. 4 /\ c \in Nat /\ c <= k + 2 /\ p = 0
    BY <1>5, <1>6, FramesRange
<1> HIDE DEF k, c, p
<1>8. p - 0 + c <= k + 2 /\ p - 0 + c <= k + 4 /\ p + c <= 2 * k + 4
    BY <1>7
<1> QED BY <1>6, <1>8 DEF Budget, k, c, p

LEMMA BudgetWrites ==
    ASSUME SystemInv, SystemInv', TickOK, WriteCommands, Live, Live',
           NEW n \in 0 .. Len(to_plugin), Budget(n)
    PROVE  Budget(0)'
<1>1. /\ PluginSteps /\ sent' \in Seq(Frame) /\ Len(sent') = 2 /\ receiver'
      /\ turn = "write" /\ done' = done \cup {"cycle"}
    BY WriteEffect DEF Live, BothSent, WriteCommands, Perform
<1>2. n = 0 /\ "cycle" \notin done
    BY <1>1 DEF TickOK, Budget
<1>3. to_plugin' = to_plugin /\ UNCHANGED <<owed, reports>>
      /\ Len(to_motors') <= Len(to_motors) + 2
    BY <1>1, SentWait DEF PluginSteps
<1>4. ToReport' = ToReport /\ ReportFrames' = ReportFrames
    BY <1>1, <1>3 DEF ToReport, ReportFrames, NoiseFrames, MayFail
<1>5. /\ Len(to_plugin) \in Nat /\ Len(to_motors) \in Nat /\ Len(owed) \in Nat
      /\ ToReport \in Nat /\ ToReport <= ReportFrames /\ ReportFrames \in 2 .. 4
      /\ ToCome = Len(to_motors) + Len(owed) + ToReport
    BY LoadType, FramesRange DEF ToCome, ToAnswer
<1>6. Len(to_motors') \in Nat /\ ToCome' = Len(to_motors') + Len(owed) + ToReport
    BY <1>3, <1>4, LoadNext DEF ToCome, ToAnswer
<1>7. ToCome \in Nat /\ ToCome' \in Nat /\ ToCome' <= ToCome + 2
    BY <1>3, <1>5, <1>6
<1>8. Len(to_plugin) - 0 + ToCome <= ReportFrames + 2
    BY <1>2 DEF Budget
<1>9. Len(to_plugin) - 0 + ToCome' <= ReportFrames + 4
      /\ Len(to_plugin) + ToCome' <= 2 * ReportFrames + 4
    BY <1>5, <1>7, <1>8
<1>10. LeftOver(0)'
    BY <1>2, <1>3 DEF Budget, LeftOver
<1>11. "cycle" \in done'
    BY <1>1
<1> QED BY <1>3, <1>4, <1>9, <1>10, <1>11 DEF Budget

\* A tick ends when everything has been answered and reported.
LEMMA BudgetAges ==
    ASSUME SystemInv, SystemInv', TickOK, InTime, 1 <= MaxStale, Pass,
           NEW n \in 0 .. Len(to_plugin), Budget(n)
    PROVE  n = 0 /\ \E k \in 0 .. Len(to_plugin') : Budget(k)'
<1>1. /\ done = Duties /\ to_motors = <<>> /\ owed = <<>> /\ reports = <<>>
      /\ UNCHANGED <<to_motors, owed, reports, turn, pc>> /\ done' = {}
    <2>1. UNCHANGED pc
        BY IdleSockets DEF Pass, Tick
    <2> QED BY <2>1 DEF Pass, OnTime, InTime, Motors!Tick
<1>2. "cycle" \in done /\ pc # "reading" /\ turn = "read"
    BY <1>1 DEF InTime, TickOK, SystemInv, CycleOK
<1>3. n = 0
    BY <1>2 DEF Budget
<1>4. /\ Len(to_plugin) \in Nat /\ ReportFrames \in 2 .. 4 /\ ToCome \in Nat
      /\ ToReport' \in Nat /\ ToReport' <= ReportFrames
    BY LoadType, LoadNext, FramesRange
<1>5. Len(to_plugin) <= ReportFrames + 4
    <2>1. Len(to_plugin) - 0 + ToCome <= ReportFrames + 4
        BY <1>2, <1>3 DEF Budget
    <2> QED BY <1>4, <2>1
<1>6. ToCome' = ToReport'
    <2>1. Len(to_motors') = 0 /\ Len(owed') = 0
        BY <1>1
    <2> DEFINE a == ToAnswer'
               b == ToReport'
               c == ToCome'
    <2>2. c = a + b /\ a = Len(to_motors') + Len(owed') /\ b \in Nat
        BY LoadNext
    <2> HIDE DEF a, b, c
    <2>3. c = b
        BY <2>1, <2>2
    <2> QED BY <2>3 DEF b, c
<1>7. /\ to_plugin' = [i \in 1 .. Len(to_plugin) |->
                          [to_plugin[i] EXCEPT !.age = Stale(to_plugin[i].age)]]
      /\ Len(to_plugin') = Len(to_plugin)
    BY <1>4 DEF Pass
<1>8. ASSUME NEW i \in 1 .. Len(to_plugin) PROVE to_plugin'[i].age = 1
    <2>1. to_plugin[i].age = 0
        BY <1>3, <1>4 DEF Budget, LeftOver
    <2>2. to_plugin[i] \in BusEntry /\ MaxStale \in Nat
        BY ElementOfSeq, SystemAssumption DEF SystemInv, BusOK
    <2> QED BY <1>7, <2>1, <2>2 DEF BusEntry, Stale
<1>9. PICK k \in Nat : k = Len(to_plugin)
    BY <1>4
<1>10. \A i \in 1 .. Len(to_plugin') : to_plugin'[i].age = IF i <= k THEN 1 ELSE 0
    <2> SUFFICES ASSUME NEW i \in 1 .. Len(to_plugin')
                 PROVE  to_plugin'[i].age = IF i <= k THEN 1 ELSE 0
        OBVIOUS
    <2>1. i \in 1 .. Len(to_plugin) /\ i <= k
        BY <1>7, <1>9
    <2> QED BY <1>8, <2>1
<1>11. ReadSoFar' = 0 /\ ReportFrames' = ReportFrames /\ LeftOver(k)'
    BY <1>1, <1>2, <1>10 DEF ReadSoFar, LeftOver, ReportFrames, NoiseFrames, MayFail
<1> DEFINE r == ReportFrames
           c == ToCome'
<1>12. k \in Nat /\ r \in 2 .. 4 /\ c \in Nat /\ c <= r /\ k <= r + 4
    BY <1>4, <1>5, <1>6, <1>9
<1> HIDE DEF r, c
<1>13. k - k + c <= r + 2 /\ k + c <= 2 * r + 4 /\ k + 0 <= r + 4 /\ k \in 0 .. k
    BY <1>12
<1>14. Budget(k)'
    <2>1. Len(to_plugin') = k /\ turn' = "read" /\ "cycle" \notin done'
        BY <1>1, <1>2, <1>7, <1>9
    <2> QED BY <1>11, <1>13, <2>1 DEF Budget, r, c
<1> QED BY <1>3, <1>7, <1>9, <1>13, <1>14

LEMMA ObeyTakes ==
    ASSUME SystemInv, SystemInv', Obey PROVE ToCome' <= ToCome
<1>1. /\ to_motors # <<>> /\ to_motors' = Tail(to_motors) /\ UNCHANGED <<done, reports>>
      /\ Len(owed') <= Len(owed) + 1
    <2>1. UNCHANGED <<owed, reports>> \/ (owed' = <<Head(to_motors)>> /\ UNCHANGED reports)
        BY DEF Obey, Motors!Obey, NodeIdle, node
    <2>2. Len(owed) \in 0 .. 1 /\ Len(owed') \in 0 .. 1
        BY LoadType, LoadNext
    <2>3. Len(owed') <= Len(owed) + 1
        BY <2>2
    <2> QED BY <2>1, <2>3 DEF Obey
<1>2. Len(to_motors') = Len(to_motors) - 1
    BY <1>1, NextCommand
<1>3. ToReport' = ToReport
    BY <1>1 DEF ToReport, ReportFrames, NoiseFrames, MayFail
<1> DEFINE c == ToCome'
           a == ToAnswer'
           b == ToReport'
<1>4. /\ c = a + b /\ a = Len(to_motors') + Len(owed') /\ b \in Nat
      /\ Len(owed') \in Nat
    BY LoadNext
<1>5. /\ ToCome = ToAnswer + b /\ ToAnswer = Len(to_motors) + Len(owed)
      /\ Len(to_motors) \in Nat /\ Len(owed) \in Nat
    BY <1>3, LoadType
<1> HIDE DEF a, b, c
<1>6. c <= ToCome
    BY <1>1, <1>2, <1>4, <1>5
<1> QED BY <1>6 DEF c

\* An ACK takes the place of its command.
LEMMA AnswerTakes ==
    ASSUME SystemInv, SystemInv', Answer
    PROVE  /\ motor_sent' \in Seq(GoodFrame) /\ Len(motor_sent') <= 1
           /\ Received(motor_sent') /\ Len(motor_sent') + ToCome' <= ToCome
           /\ UNCHANGED <<turn, done, pc, frames>>
<1>1. /\ owed # <<>> /\ owed' = <<>> /\ UNCHANGED <<to_motors, reports, done, turn>>
      /\ Received(motor_sent')
    BY DEF Answer, Motors!Acknowledge
<1>2. motor_sent' \in Seq(GoodFrame) /\ Len(motor_sent') \in 0 .. 1
    <2> DEFINE a == Motors!AckFor(owed[1], Motors!AckResult(owed[1]))
    <2>1. a \in GoodFrame /\ motor_sent' \in {<<>>, <<a>>}
        BY AnswerSends
    <2> HIDE DEF a
    <2>2. <<a>> \in Seq(GoodFrame) /\ <<>> \in Seq(GoodFrame)
        BY <2>1
    <2>3. Len(<<a>>) = 1 /\ Len(<<>>) = 0
        OBVIOUS
    <2>4. Len(motor_sent') \in 0 .. 1
        BY <2>1, <2>3
    <2> QED BY <2>1, <2>2, <2>4
<1>3. ToReport' = ToReport
    BY <1>1 DEF ToReport, ReportFrames, NoiseFrames, MayFail
<1> DEFINE c == ToCome'
           a == ToAnswer'
           b == ToReport'
<1>4. c = a + b /\ a = Len(to_motors') + Len(owed') /\ b \in Nat /\ Len(owed') = 0
    BY <1>1, LoadNext
<1>5. /\ ToCome = ToAnswer + b /\ ToAnswer = Len(to_motors) + Len(owed)
      /\ Len(to_motors) \in Nat /\ Len(owed) \in 0 .. 1 /\ Len(owed) # 0
    BY <1>1, <1>3, LoadType
<1> HIDE DEF a, b, c
<1>6. Len(motor_sent') + c <= ToCome
    BY <1>1, <1>2, <1>4, <1>5
<1>7. UNCHANGED <<pc, frames>>
    BY DEF Answer, PluginIdle, plugin
<1>8. Len(motor_sent') <= 1
    <2> DEFINE n == Len(motor_sent')
    <2>1. n \in 0 .. 1
        BY <1>2
    <2> HIDE DEF n
    <2>2. n <= 1
        BY <2>1
    <2> QED BY <2>2 DEF n
<1> QED BY <1>1, <1>2, <1>6, <1>7, <1>8 DEF c

\* A report is a feedback frame, of a noisy wheel perhaps a short one and
\* perhaps behind an error frame.
LEMMA EmitForms ==
    ASSUME SystemInv, Emit
    PROVE  \E short \in BOOLEAN :
               LET f == Motors!FeedbackFor(Head(reports), short) IN
               /\ motor_sent' \in {<<f>>, <<Motors!ErrorFrame, f>>}
               /\ ~MayFail("noise", Head(reports).wheel) => motor_sent' = <<f>> /\ ~short
<1>1. PICK error \in {<<>>, <<Motors!ErrorFrame>>}, short \in BOOLEAN :
          motor_sent' \in {error, error \o <<Motors!FeedbackFor(Head(reports), short)>>}
    BY DEF Emit, Motors!Emit
<1> DEFINE f == Motors!FeedbackFor(Head(reports), short)
           e == Motors!ErrorFrame
<1>2. e.kind = "error" /\ f.short = short /\ f.kind = "feedback"
    BY DEF Motors!ErrorFrame, Motors!FeedbackFor
<1>3. error \in {<<>>, <<e>>} /\ motor_sent' \in {error, error \o <<f>>}
    BY <1>1
<1>4. \E i \in 1 .. Len(motor_sent') : motor_sent'[i].kind = "feedback"
    BY DEF Emit
<1>5. MayFail("noise", Head(reports).wheel) \/
          \A i \in 1 .. Len(motor_sent') :
              motor_sent'[i].kind = "feedback" /\ ~motor_sent'[i].short
    BY DEF Emit
<1> HIDE DEF e, f
<1>6. <<>> \o <<f>> = <<f>> /\ <<e>> \o <<f>> = <<e, f>>
    <2>1. /\ <<e>> \in Seq({e, f}) /\ <<f>> \in Seq({e, f}) /\ <<>> \in Seq({e, f})
          /\ <<e, f>> \in Seq({e, f})
        OBVIOUS
    <2>2. /\ Len(<<e>>) = 1 /\ Len(<<f>>) = 1 /\ Len(<<e, f>>) = 2
          /\ <<e>>[1] = e /\ <<f>>[1] = f /\ <<e, f>>[1] = e /\ <<e, f>>[2] = f
        OBVIOUS
    <2>3. <<>> \o <<f>> = <<f>>
        BY <2>1, ConcatEmptySeq
    <2> DEFINE r == <<e>> \o <<f>>
    <2>4. r \in Seq({e, f}) /\ Len(r) = 2 /\ r[1] = e /\ r[2] = f
        <3>1. /\ r \in Seq({e, f}) /\ Len(r) = Len(<<e>>) + Len(<<f>>)
              /\ \A i \in 1 .. Len(<<e>>) + Len(<<f>>) :
                    r[i] = IF i <= Len(<<e>>) THEN <<e>>[i] ELSE <<f>>[i - Len(<<e>>)]
            BY <2>1, ConcatProperties
        <3> HIDE DEF r
        <3> QED BY <2>2, <3>1
    <2> HIDE DEF r
    <2>5. r = <<e, f>>
        BY <2>1, <2>2, <2>4, SeqEqual
    <2> QED BY <2>3, <2>5 DEF r
<1>7. motor_sent' \in {<<>>, <<e>>, <<f>>, <<e, f>>}
    BY <1>3, <1>6
<1>8. motor_sent' # <<>>
    BY <1>4
<1>9. motor_sent' # <<e>>
    <2> SUFFICES ASSUME motor_sent' = <<e>> PROVE FALSE
        OBVIOUS
    <2>1. \A i \in 1 .. Len(motor_sent') : motor_sent'[i] = e
        OBVIOUS
    <2> QED BY <1>2, <1>4, <2>1
<1>10. motor_sent' = <<e, f>> => motor_sent'[1] = e /\ 1 \in 1 .. Len(motor_sent')
    OBVIOUS
<1>11. motor_sent' = <<f>> => motor_sent'[1] = f /\ 1 \in 1 .. Len(motor_sent')
    OBVIOUS
<1>12. motor_sent' \in {<<f>>, <<e, f>>}
    BY <1>7, <1>8, <1>9
<1>13. ~MayFail("noise", Head(reports).wheel) => motor_sent' = <<f>> /\ ~short
    BY <1>2, <1>5, <1>10, <1>11, <1>12
<1> QED BY <1>12, <1>13 DEF e, f

\* A report takes no more frames than were set aside for it.
LEMMA EmitFrames ==
    ASSUME SystemInv, Emit
    PROVE  Len(motor_sent') <= NoiseFrames(Head(reports).wheel) /\ Len(motor_sent') \in Nat
<1>1. PICK short \in BOOLEAN :
          LET f == Motors!FeedbackFor(Head(reports), short) IN
          /\ motor_sent' \in {<<f>>, <<Motors!ErrorFrame, f>>}
          /\ ~MayFail("noise", Head(reports).wheel) => motor_sent' = <<f>> /\ ~short
    BY EmitForms
<1> DEFINE f == Motors!FeedbackFor(Head(reports), short)
           e == Motors!ErrorFrame
           w == Head(reports).wheel
<1>2. motor_sent' \in {<<f>>, <<e, f>>} /\ (~MayFail("noise", w) => motor_sent' = <<f>>)
    BY <1>1
<1> HIDE DEF e, f, w
<1>3. Len(<<f>>) = 1 /\ Len(<<e, f>>) = 2
    OBVIOUS
<1>4. NoiseFrames(w) = IF MayFail("noise", w) THEN 2 ELSE 1
    BY DEF NoiseFrames
<1>5. Len(motor_sent') = 1 \/ (Len(motor_sent') = 2 /\ MayFail("noise", w))
    BY <1>2, <1>3
<1> DEFINE n == Len(motor_sent')
           k == NoiseFrames(w)
<1>6. n = 1 \/ (n = 2 /\ MayFail("noise", w))
    BY <1>5
<1>7. k = IF MayFail("noise", w) THEN 2 ELSE 1
    BY <1>4
<1> HIDE DEF n, k
<1>8. n <= k /\ n \in Nat
    BY <1>6, <1>7
<1> QED BY <1>8 DEF n, k, w

LEMMA EmitSpends ==
    ASSUME SystemInv, SystemInv', TickOK, Emit
    PROVE  Len(motor_sent') + ToCome' <= ToCome /\ UNCHANGED <<turn, done, pc, frames>>
<1>1. /\ UNCHANGED <<to_motors, owed, turn, done, pc, frames>>
    BY DEF Emit, Motors!Emit, PluginIdle, plugin
<1>2. /\ Head(reports).wheel = IF Len(reports) = 2 THEN 0 ELSE 1
      /\ Len(reports') = Len(reports) - 1 /\ Len(reports) \in 1 .. 2 /\ "report" \in done
    BY EmitTakes
<1>3. UNCHANGED <<ReportFrames, NoiseFrames(0), NoiseFrames(1)>>
    BY DEF ReportFrames, NoiseFrames, MayFail
<1>4. /\ NoiseFrames(0) \in Nat /\ NoiseFrames(1) \in Nat
      /\ ReportFrames = NoiseFrames(0) + NoiseFrames(1)
    BY FramesRange
<1>5. ToReport = ToReport' + NoiseFrames(Head(reports).wheel)
    <2>1. CASE Len(reports) = 2
        <3>1. ToReport = ReportFrames /\ Head(reports).wheel = 0
            BY <1>1, <1>2, <2>1 DEF ToReport
        <3>2. ToReport' = NoiseFrames(1)
            BY <1>1, <1>2, <1>3, <2>1 DEF ToReport
        <3> QED BY <1>4, <3>1, <3>2
    <2>2. CASE Len(reports) = 1
        <3>1. ToReport = NoiseFrames(1) /\ Head(reports).wheel = 1
            BY <1>1, <1>2, <2>2 DEF ToReport
        <3>2. ToReport' = 0
            BY <1>1, <1>2, <1>3, <2>2 DEF ToReport
        <3> QED BY <1>4, <3>1, <3>2
    <2> QED BY <1>2, <2>1, <2>2
<1> DEFINE c == ToCome'
           a == ToAnswer'
           b == ToReport'
           k == NoiseFrames(Head(reports).wheel)
<1>6. c = a + b /\ a \in Nat /\ b \in Nat /\ ToReport = b + k /\ ToAnswer = a
    BY <1>1, <1>5, LoadNext DEF ToAnswer
<1>7. Len(motor_sent') \in Nat /\ Len(motor_sent') <= k /\ k \in Nat
    BY EmitFrames, <1>4, <1>2
<1>8. ToCome = ToAnswer + ToReport
    BY LoadType
<1> HIDE DEF a, b, c, k
<1>9. Len(motor_sent') + c <= ToCome
    BY <1>6, <1>7, <1>8
<1> QED BY <1>1, <1>9 DEF c

\* The counters of a step that leaves the bus and the reports alone.
LEMMA ToComeSame ==
    ASSUME UNCHANGED <<to_motors, owed>>, ToReport' = ToReport PROVE ToCome' = ToCome
BY DEF ToCome, ToAnswer

LEMMA ToReportSame ==
    ASSUME UNCHANGED reports, "report" \in done' <=> "report" \in done
    PROVE  ToReport' = ToReport
BY DEF ToReport, ReportFrames, NoiseFrames, MayFail

LEMMA InStepInit == SystemInit => InStep
BY DEF SystemInit, Init, InStep, Live

LEMMA InStepQuiet ==
    ASSUME SystemInv, SystemInv', Live', BeginRead \/ EndRead \/ Control,
           NEW n \in 0 .. Len(to_plugin), Budget(n), EndRead => n = 0
    PROVE  n \in 0 .. Len(to_plugin') /\ Budget(n)'
<1>1. ~fault_latched' /\ receiver'
    BY DEF Live, SystemInv, QueueInv
<1>2. PluginSteps /\ sent' = <<>>
    BY <1>1, QuietCycle
<1>3. UNCHANGED <<to_plugin, to_motors, owed, reports>>
    BY <1>1, <1>2, IdleCommands DEF PluginSteps
<1>4. UNCHANGED done
    BY DEF BeginRead, EndRead, Control
<1>5. ToCome' = ToCome /\ ToCome \in Nat
    BY <1>3, <1>4, ToComeSame, ToReportSame, LoadType
<1>6. ToCome' <= ToCome
    <2> DEFINE c == ToCome'
    <2>1. c = ToCome
        BY <1>5
    <2> HIDE DEF c
    <2>2. c <= ToCome
        BY <1>5, <2>1
    <2> QED BY <2>2 DEF c
<1>7. n > 0 => turn' = turn /\ ReadSoFar' <= ReadSoFar
    <2>1. CASE EndRead
        BY <2>1
    <2>2. CASE BeginRead
        <3>1. ~(~MayOperate /\ Refuse)
            <4> SUFFICES ASSUME ~MayOperate, Refuse PROVE FALSE
                OBVIOUS
            <4>1. fault_latched' = fault_latched
                BY DEF Refuse, latch
            <4> QED BY <1>1, <4>1 DEF MayOperate
        <3>2. ~SocketMissing("can_receive_unavailable")
            BY <1>1 DEF SocketMissing, EnterSafeStop
        <3>3. pc = "idle" /\ pc' = "reading" /\ frames' = 0
            BY <2>2, <3>1, <3>2 DEF BeginRead, ReadStart
        <3>4. turn = "read" /\ turn' = "read"
            BY <2>2, <3>3 DEF BeginRead
        <3>5. ReadSoFar = 0 /\ ReadSoFar' = 0
            BY <3>3 DEF ReadSoFar
        <3> QED BY <3>4, <3>5
    <2>3. CASE Control
        <3>1. UNCHANGED <<turn, pc>> /\ pc = "idle"
            BY <2>3 DEF Control, ControllerUpdate
        <3>2. ReadSoFar = 0 /\ ReadSoFar' = 0
            BY <3>1 DEF ReadSoFar
        <3> QED BY <3>1, <3>2
    <2> QED BY <2>1, <2>2, <2>3
<1> QED BY <1>3, <1>4, <1>6, <1>7, BudgetStays

LEMMA InStepMotor ==
    ASSUME SystemInv, SystemInv', TickOK, receiver,
           Obey \/ Answer \/ Advance \/ Sample \/ Emit \/ UNCHANGED system_vars,
           NEW n \in 0 .. Len(to_plugin), Budget(n)
    PROVE  n \in 0 .. Len(to_plugin') /\ Budget(n)'
<1>1. CASE Answer
    <2>1. /\ motor_sent' \in Seq(GoodFrame) /\ Received(motor_sent')
          /\ Len(motor_sent') + ToCome' <= ToCome /\ UNCHANGED <<turn, done, pc, frames>>
        BY <1>1, AnswerTakes
    <2>2. ReadSoFar' = ReadSoFar
        BY <2>1 DEF ReadSoFar
    <2> QED BY <2>1, <2>2, BudgetArrives
<1>2. CASE Emit
    <2>1. /\ Len(motor_sent') + ToCome' <= ToCome /\ UNCHANGED <<turn, done, pc, frames>>
        BY <1>2, EmitSpends
    <2>2. motor_sent' \in Seq(GoodFrame) /\ Received(motor_sent')
        BY <1>2, EmitSends DEF Emit
    <2>3. ReadSoFar' = ReadSoFar
        BY <2>1 DEF ReadSoFar
    <2> QED BY <2>1, <2>2, <2>3, BudgetArrives
<1>3. CASE Obey \/ Advance \/ Sample \/ UNCHANGED system_vars
    <2>1. /\ UNCHANGED <<to_plugin, turn, pc, frames>> /\ ("cycle" \in done' <=> "cycle" \in done)
        BY <1>3 DEF Obey, Advance, Sample, Perform, bus, PluginIdle, plugin, system_vars, vars
    <2>2. ReadSoFar' = ReadSoFar /\ ReadSoFar \in Nat
        BY <2>1 DEF ReadSoFar, SystemInv, TypeOK
    <2>3. CASE Obey
        <3>1. ToCome' <= ToCome
            BY <2>3, ObeyTakes
        <3> QED BY <2>1, <2>2, <3>1, BudgetStays
    <2>4. CASE Advance \/ Sample \/ UNCHANGED system_vars
        <3>1. UNCHANGED <<to_motors, owed>>
            BY <2>4 DEF Advance, Sample, Motors!Advance, Motors!Sample, bus, node, system_vars
        <3>2. ToReport' = ToReport
            <4>1. CASE Sample
                <5>1. /\ Len(reports') = 2 /\ "report" \in Duties \ done
                      /\ done' = done \cup {"report"}
                    BY <4>1, SampleTakes
                <5> QED BY <5>1 DEF ToReport, ReportFrames, NoiseFrames, MayFail
            <4>2. CASE Advance \/ UNCHANGED system_vars
                <5>1. UNCHANGED reports /\ ("report" \in done' <=> "report" \in done)
                    BY <4>2 DEF Advance, Motors!Advance, Perform, node, system_vars
                <5> QED BY <5>1, ToReportSame
            <4> QED BY <2>4, <4>1, <4>2
        <3>3. ToCome' = ToCome /\ ToCome \in Nat
            BY <3>1, <3>2, ToComeSame, LoadType
        <3>4. ToCome' <= ToCome
            <4> DEFINE c == ToCome'
            <4>1. c = ToCome
                BY <3>3
            <4> HIDE DEF c
            <4>2. c <= ToCome
                BY <3>3, <4>1
            <4> QED BY <4>2 DEF c
        <3> QED BY <2>1, <2>2, <3>4, BudgetStays
    <2> QED BY <1>3, <2>3, <2>4
<1> QED BY <1>1, <1>2, <1>3

LEMMA InStepNext ==
    ASSUME SystemInv, InactiveIsClosed, TickOK, InStep, InTime, 1 <= MaxStale,
           [SystemNext]_system_vars
    PROVE  InStep'
<1> SUFFICES ASSUME Live' PROVE \E n \in 0 .. Len(to_plugin') : Budget(n)'
    BY DEF InStep
<1>1. SystemInv'
    BY SystemInvNext
<1>2. CASE Activate
    <2>1. Budget(0)'
        BY <1>1, <1>2, BudgetActivate
    <2>2. 0 \in 0 .. Len(to_plugin')
        BY <1>1, LoadNext
    <2> QED BY <2>1, <2>2
<1>3. CASE ~Activate
    <2>1. Live /\ receiver /\ ~Deactivate
        BY <1>3, LiveBefore
    <2>2. PICK n \in 0 .. Len(to_plugin) : Budget(n)
        BY <2>1 DEF InStep
    <2>3. CASE BeginRead \/ EndRead \/ Control
        <3>1. EndRead => n = 0
            BY <2>2, AllDrawn
        <3> QED BY <1>1, <2>2, <2>3, <3>1, InStepQuiet
    <2>4. CASE ReadFrame
        <3> DEFINE m == IF n > 0 THEN n - 1 ELSE 0
        <3>1. m \in 0 .. Len(to_plugin') /\ Budget(m)'
            BY <1>1, <2>2, <2>4, BudgetDraws
        <3> QED BY <3>1
    <2>5. CASE WriteCommands
        <3>1. Budget(0)'
            BY <1>1, <2>1, <2>2, <2>5, BudgetWrites
        <3>2. 0 \in 0 .. Len(to_plugin')
            BY <1>1, LoadNext
        <3> QED BY <3>1, <3>2
    <2>6. CASE Obey \/ Answer \/ Advance \/ Sample \/ Emit \/ UNCHANGED system_vars
        BY <1>1, <2>1, <2>2, <2>6, InStepMotor
    <2>7. CASE Pass
        BY <1>1, <2>2, <2>7, BudgetAges
    <2> QED BY <1>3, <2>1, <2>3, <2>4, <2>5, <2>6, <2>7 DEF SystemNext
<1> QED BY <1>2, <1>3

-----------------------------------------------------------------------------
(***************************************************************************)
(* The age of the feedback that the plugin shows, and the age it counts.   *)
(***************************************************************************)
\* The i-th frame of the plugin's queue is a reading of wheel w.
Reading(i, w) ==
    /\ i \in 1 .. Len(to_plugin)
    /\ to_plugin[i].frame.kind = "feedback" /\ ~to_plugin[i].frame.short
    /\ to_plugin[i].frame.wheel = w

AgesMove(w) ==
    \/ health'.feedback_age[w] = health.feedback_age[w] /\ shown_age'[w] = shown_age[w]
    \/ health'.feedback_age[w] = 0 /\ shown_age'[w] = 0
    \/ /\ ReadFrame /\ Reading(1, w)
       /\ health'.feedback_age[w] = 0 /\ shown_age'[w] = to_plugin[1].age
    \/ /\ Pass /\ shown_age'[w] = Stale(shown_age[w])
       /\ health'.feedback_age[w] = Older(health.feedback_age[w], FeedbackTimeout)

\* No send changes the age of the feedback.
LEMMA SendKeepsAge ==
    ASSUME NEW l \in LinkRecord, NEW w \in Wheels, NEW enabled \in BOOLEAN,
           NEW v \in Int, NEW delivered \in BOOLEAN
    PROVE  SendCommand(l, w, enabled, v, delivered).health.feedback_age
               = l.health.feedback_age
<1>1. l.health \in Health
    BY DEF LinkRecord
<1> DEFINE seq == NextSequence(l.sequences[w])
<1>2. CommandSent(l.health, w, seq).feedback_age = l.health.feedback_age
    BY <1>1 DEF CommandSent, Health
<1>3. SafeStopSent(l.health, w, seq).feedback_age = l.health.feedback_age
    BY <1>1 DEF SafeStopSent, Health
<1> DEFINE f == [wheel |-> w, sequence |-> seq, enabled |-> enabled,
                 velocity |-> WireVelocity(v)]
<1>4. CASE ~l.open \/ ~delivered
    BY <1>4 DEF SendCommand, LinkRecord
<1>5. CASE l.open /\ delivered
    <2> DEFINE h == IF enabled THEN CommandSent(l.health, w, seq)
                    ELSE SafeStopSent(l.health, w, seq)
    <2>1. SendCommand(l, w, enabled, v, delivered).health = h
        BY <1>5 DEF SendCommand, LinkRecord
    <2> QED BY <1>2, <1>3, <2>1
<1> QED BY <1>4, <1>5

LEMMA StopKeepsAge ==
    ASSUME NEW l \in LinkRecord, NEW d \in Outcomes
    PROVE  SafeStop(l, d).health.feedback_age = l.health.feedback_age
<1> DEFINE left == SendCommand(l, 0, FALSE, 0, d[0])
           right == SendCommand(left, 1, FALSE, 0, d[1])
<1>1. d[0] \in BOOLEAN /\ d[1] \in BOOLEAN /\ 0 \in Wheels /\ 1 \in Wheels /\ 0 \in Int
    BY DEF Outcomes, Wheels
<1>2. left \in LinkRecord /\ left.health.feedback_age = l.health.feedback_age
    BY <1>1, SendCommandType, SendKeepsAge
<1>3. right \in LinkRecord /\ right.health.feedback_age = left.health.feedback_age
    BY <1>1, <1>2, SendCommandType, SendKeepsAge
<1> HIDE DEF left, right
<1>4. [right EXCEPT !.success = left.success /\ right.success].health = right.health
    BY <1>3 DEF LinkRecord
<1> QED BY <1>2, <1>3, <1>4 DEF SafeStop, left, right

LEMMA WriteKeepsAge ==
    ASSUME SystemInv, Live, WriteCommands, ~fault_latched'
    PROVE  health'.feedback_age = health.feedback_age
<1>1. TypeOK /\ sender /\ ~fault_latched
    BY DEF SystemInv, Live
<1>2. PICK d \in Outcomes, stopped \in Outcomes : Drive(d, stopped)
    BY <1>1 DEF WriteCommands, Write, MayOperate
<1>3. SendCommands(d).success /\ Transmitted(SendCommands(d))
    BY <1>2 DEF Drive, EnterSafeStop
<1> DEFINE left == SendCommand(Link, 0, TRUE, commands[0], d[0])
           right == SendCommand(left, 1, TRUE, commands[1], d[1])
<1>4. /\ commands[0] \in Int /\ commands[1] \in Int /\ TRUE \in BOOLEAN
      /\ 0 \in Wheels /\ 1 \in Wheels /\ d[0] \in BOOLEAN /\ d[1] \in BOOLEAN
    BY <1>1, HardwareAssumption DEF TypeOK, Wheels, Outcomes
<1>5. left \in LinkRecord /\ left.health.feedback_age = Link.health.feedback_age
    BY <1>1, <1>4, LinkType, SendCommandType, SendKeepsAge
<1>6. SendCommands(d) = IF left.success THEN right ELSE left
    BY DEF SendCommands
<1> HIDE DEF left
<1>7. right.health.feedback_age = left.health.feedback_age
    <2>1. left \in LinkRecord /\ 1 \in Wheels /\ TRUE \in BOOLEAN
          /\ commands[1] \in Int /\ d[1] \in BOOLEAN
        BY <1>4, <1>5
    <2>2. SendCommand(left, 1, TRUE, commands[1], d[1]).health.feedback_age
              = left.health.feedback_age
        BY <2>1, SendKeepsAge
    <2> QED BY <2>2
<1>8. health' = SendCommands(d).health /\ Link.health = health
    BY <1>3 DEF Transmitted, Link
<1> HIDE DEF right
<1> QED BY <1>5, <1>6, <1>7, <1>8

LEMMA ActivateResetsAge ==
    ASSUME SystemInv, Activate, sender', ~fault_latched', NEW w \in Wheels
    PROVE  health'.feedback_age[w] = 0 /\ shown_age'[w] = 0
<1>1. TypeOK
    BY DEF SystemInv
<1>2. PICK d \in Outcomes : SocketsOpened(d)
    BY DEF Activate, OnActivate, SocketsUnavailable, ActivationFailed
<1>3. health' = SafeStop(FreshLink, d).health
    BY <1>2 DEF SocketsOpened, Transmitted
<1>4. FreshLink \in LinkRecord /\ FreshLink.health = Reset
    BY <1>1, FreshLinkType DEF FreshLink, Link
<1>5. health'.feedback_age = Reset.feedback_age
    BY <1>3, <1>4, StopKeepsAge
<1>6. health'.feedback_age[w] = 0
    BY <1>5 DEF Reset
<1>7. shown_age' = [u \in Wheels |-> 0]
    BY DEF Activate
<1> QED BY <1>6, <1>7

\* What a frame that is read does to the ages.
LEMMA ReadAges ==
    ASSUME SystemInv, TickOK, ReadFrame, NEW w \in Wheels
    PROVE  IF Reading(1, w)
           THEN health'.feedback_age[w] = 0 /\ shown_age'[w] = to_plugin[1].age
           ELSE health'.feedback_age[w] = health.feedback_age[w]
                /\ shown_age'[w] = shown_age[w]
<1> DEFINE e == Head(to_plugin)
           f == e.frame
<1>1. /\ to_plugin # <<>> /\ e = to_plugin[1] /\ 1 \in 1 .. Len(to_plugin)
      /\ health \in Health /\ shown_age \in [Wheels -> 0 .. MaxStale]
    <2>1. to_plugin # <<>> /\ to_plugin \in Seq(BusEntry) /\ health \in Health
        BY DEF ReadFrame, SystemInv, BusOK, TypeOK
    <2>2. e = to_plugin[1] /\ Len(to_plugin) \in Nat /\ Len(to_plugin) # 0
        BY <2>1, EmptySeq, HeadTailProperties, LenProperties
    <2> QED BY <2>1, <2>2 DEF TickOK
<1>2. Reading(1, w) <=> f.kind = "feedback" /\ ~f.short /\ f.wheel = w
    BY <1>1 DEF Reading
<1>3. shown_age' = IF f.kind = "feedback" /\ ~f.short
                   THEN [shown_age EXCEPT ![f.wheel] = e.age] ELSE shown_age
    BY DEF ReadFrame
<1>4. f.kind = "feedback" => f.wheel \in Wheels
    BY <1>1, FrameTypes
<1>5. CASE f.kind = "feedback" /\ ~f.short
    <2>1. health' = FeedbackReceived(health, f.wheel)
        BY <1>5 DEF ReadFrame, ReceiveFeedback
    <2>2. health'.feedback_age = [health.feedback_age EXCEPT ![f.wheel] = 0]
        BY <1>1, <2>1 DEF FeedbackReceived, Health
    <2>3. health.feedback_age \in [Wheels -> FeedbackAge]
        BY <1>1 DEF Health
    <2> HIDE DEF e, f
    <2>4. /\ health'.feedback_age[w] = IF f.wheel = w THEN 0 ELSE health.feedback_age[w]
          /\ shown_age'[w] = IF f.wheel = w THEN e.age ELSE shown_age[w]
        BY <1>1, <1>3, <1>4, <1>5, <2>2, <2>3
    <2> QED BY <1>1, <1>2, <1>5, <2>4
<1>6. CASE ~(f.kind = "feedback" /\ ~f.short)
    <2>1. health'.feedback_age = health.feedback_age
        <3>1. CASE f.kind = "ack"
            <4>1. health' = AckReceived(health, f.wheel, f.sequence, f.result)
                BY <3>1 DEF ReadFrame, ReceiveAck
            <4> QED BY <1>1, <4>1 DEF AckReceived, Health
        <3>2. CASE f.kind # "ack"
            <4>1. UNCHANGED health
                BY <1>6, <3>2 DEF ReadFrame, ReceiveIgnored, ReceiveWarning
            <4> QED BY <4>1
        <3> QED BY <3>1, <3>2
    <2> QED BY <1>2, <1>3, <1>6, <2>1
<1> QED BY <1>5, <1>6

LEMMA AgesNext ==
    ASSUME SystemInv, TickOK, [SystemNext]_system_vars, Live', NEW w \in Wheels
    PROVE  AgesMove(w)
<1>1. sender' /\ ~fault_latched'
    BY DEF Live
<1>2. CASE Activate
    BY <1>1, <1>2, ActivateResetsAge DEF AgesMove
<1>3. CASE ~Activate
    <2>1. Live /\ ~Deactivate
        BY <1>3, LiveBefore
    <2>2. CASE ReadFrame
        BY <2>2, ReadAges DEF AgesMove
    <2>3. CASE BeginRead \/ EndRead \/ Control
        <3>1. UNCHANGED shown_age
            BY <2>3 DEF BeginRead, EndRead, Control, history
        <3>2. \A cause : ~SocketMissing(cause)
            BY <1>1 DEF SocketMissing, EnterSafeStop
        <3>3. \A reason : ~AbortRead(reason)
            BY <1>1 DEF AbortRead, EnterSafeStop
        <3>4. UNCHANGED health
            BY <2>3, <3>2, <3>3 DEF BeginRead, ReadStart, Refuse, EndRead, ReadFinish, Control,
                                    ControllerUpdate
        <3> QED BY <3>1, <3>4 DEF AgesMove
    <2>4. CASE WriteCommands
        <3>1. health'.feedback_age = health.feedback_age
            BY <1>1, <2>1, <2>4, WriteKeepsAge
        <3>2. UNCHANGED shown_age
            BY <2>4 DEF WriteCommands, history
        <3> QED BY <3>1, <3>2 DEF AgesMove
    <2>5. CASE Obey \/ Answer \/ Advance \/ Sample \/ Emit \/ UNCHANGED system_vars
        <3>1. UNCHANGED <<health, shown_age>>
            BY <2>5, IdleSockets DEF Obey, Answer, Advance, Sample, Emit, history, system_vars,
                                     vars
        <3> QED BY <3>1 DEF AgesMove
    <2>6. CASE Pass
        <3>1. Tick
            BY <2>1, <2>6 DEF Pass, Live
        <3>2. health' = Aged(health) /\ health \in Health
            BY <3>1 DEF Tick, SystemInv, TypeOK
        <3>3. health'.feedback_age[w] = Older(health.feedback_age[w], FeedbackTimeout)
            BY <3>2 DEF Aged, Health
        <3>4. shown_age'[w] = Stale(shown_age[w])
            BY <2>6 DEF Pass
        <3> QED BY <2>6, <3>3, <3>4 DEF AgesMove
    <2> QED BY <1>3, <2>1, <2>2, <2>3, <2>4, <2>5, <2>6 DEF SystemNext
<1> QED BY <1>2, <1>3

\* While the plugin has counted no timeout, what it shows is at most one tick
\* older than it counts: the tick that a frame spends in the queue.
Shown ==
    Live => \A w \in Wheels :
        health.feedback_age[w] <= FeedbackTimeout
            => shown_age[w] <= health.feedback_age[w] + 1

LEMMA AgesType ==
    ASSUME TypeOK, TickOK, NEW w \in Wheels
    PROVE  /\ health.feedback_age[w] \in 0 .. FeedbackTimeout + 1
           /\ shown_age[w] \in 0 .. MaxStale /\ FeedbackTimeout \in Nat /\ MaxStale \in Nat
<1>1. health \in Health
    BY DEF TypeOK
<1>2. health.feedback_age \in [Wheels -> FeedbackAge]
    BY <1>1 DEF Health
<1>3. shown_age \in [Wheels -> 0 .. MaxStale]
    BY DEF TickOK
<1> QED BY <1>2, <1>3, HealthAssumption, SystemAssumption DEF FeedbackAge

LEMMA ShownNext ==
    ASSUME SystemInv, InactiveIsClosed, TickOK, InStep, Shown, [SystemNext]_system_vars
    PROVE  Shown'
<1> SUFFICES ASSUME Live', NEW w \in Wheels, health'.feedback_age[w] <= FeedbackTimeout
             PROVE  shown_age'[w] <= health'.feedback_age[w] + 1
    BY DEF Shown
<1>1. /\ health.feedback_age[w] \in 0 .. FeedbackTimeout + 1
      /\ shown_age[w] \in 0 .. MaxStale /\ FeedbackTimeout \in Nat /\ MaxStale \in Nat
    BY AgesType DEF SystemInv
<1>2. AgesMove(w)
    BY AgesNext
<1>3. CASE health'.feedback_age[w] = 0 /\ shown_age'[w] = 0
    BY <1>3
<1>4. CASE /\ ReadFrame /\ Reading(1, w)
           /\ health'.feedback_age[w] = 0 /\ shown_age'[w] = to_plugin[1].age
    <2>1. Live
        BY <1>4 DEF ReadFrame, SystemInv, QueueInv, Live
    <2>2. PICK n \in 0 .. Len(to_plugin) : LeftOver(n)
        BY <2>1 DEF InStep, Budget
    <2>3. to_plugin[1].age \in {0, 1}
        BY <1>4, <2>2 DEF LeftOver, Reading
    <2> QED BY <1>4, <2>3
<1>5. CASE health'.feedback_age[w] = health.feedback_age[w] /\ shown_age'[w] = shown_age[w]
    <2>1. CASE Activate
        BY <2>1, ActivateResetsAge DEF Live
    <2>2. CASE ~Activate
        <3>1. Live
            BY <2>2, LiveBefore
        <3> QED BY <1>1, <1>5, <3>1 DEF Shown
    <2> QED BY <2>1, <2>2
<1>6. CASE /\ Pass /\ shown_age'[w] = Stale(shown_age[w])
           /\ health'.feedback_age[w] = Older(health.feedback_age[w], FeedbackTimeout)
    <2>1. CASE Activate
        BY <2>1, ActivateResetsAge DEF Live
    <2>2. CASE ~Activate
        <3>1. Live
            BY <2>2, LiveBefore
        <3>2. health.feedback_age[w] <= FeedbackTimeout
              /\ health'.feedback_age[w] = health.feedback_age[w] + 1
            BY <1>1, <1>6 DEF Older
        <3>3. shown_age[w] <= health.feedback_age[w] + 1
            BY <3>1, <3>2 DEF Shown
        <3>4. shown_age'[w] <= shown_age[w] + 1
            BY <1>1, <1>6 DEF Stale
        <3>5. shown_age'[w] \in Int
            BY <1>1, <1>6 DEF Stale
        <3> QED BY <1>1, <3>2, <3>3, <3>4, <3>5
    <2> QED BY <2>1, <2>2
<1> QED BY <1>2, <1>3, <1>4, <1>5, <1>6 DEF AgesMove

StepInv ==
    /\ SystemInv /\ FaultInv /\ InactiveIsClosed /\ TickOK
    /\ 1 <= MaxStale => InStep /\ Shown

LEMMA StepInvInit == SystemInit => StepInv
<1> SUFFICES ASSUME SystemInit PROVE StepInv
    OBVIOUS
<1>1. Init /\ ~Live
    BY DEF SystemInit, Init, Live
<1>2. FaultInv /\ InactiveIsClosed
    BY <1>1, FaultInvInit DEF Init, InactiveIsClosed
<1> QED BY <1>1, <1>2, SystemInvInit, TickInit, InStepInit DEF StepInv, Shown

LEMMA StepInvNext ==
    ASSUME StepInv, InTime, [SystemNext]_system_vars PROVE StepInv'
<1>1. SystemInv /\ FaultInv /\ InactiveIsClosed /\ TickOK /\ "late" \notin Faults
    BY DEF StepInv, InTime
<1>2. SystemInv' /\ FaultInv' /\ InactiveIsClosed' /\ TickOK'
    BY <1>1, SystemInvNext, PluginKeeps, TickNext
<1>3. ASSUME 1 <= MaxStale PROVE InStep' /\ Shown'
    <2>1. InStep /\ Shown
        BY <1>3 DEF StepInv
    <2> QED BY <1>1, <1>3, <2>1, InStepNext, ShownNext
<1> QED BY <1>2, <1>3 DEF StepInv

LEMMA StepInvariant ==
    ASSUME InTime PROVE SystemSpec => []StepInv
<1>1. SystemInit => StepInv
    BY StepInvInit
<1>2. StepInv /\ [SystemNext]_system_vars => StepInv'
    BY StepInvNext
<1> QED BY <1>1, <1>2, PTL DEF SystemSpec

\* A read that reports success shows feedback of both wheels no older than the
\* feedback timeout and one control cycle: because the control loop runs once
\* in every tick and drains within kMaxFramesPerRead what the last tick left
\* in the socket, a frame never waits there for more than a tick.
THEOREM ShownIsRecent ==
    ASSUME InTime PROVE SystemSpec => ShownFeedbackIsRecent
<1>1. ASSUME StepInv, [SystemNext]_system_vars, pc = "reading", pc' = "idle",
             ~fault_latched', NEW w \in Wheels
      PROVE  shown_age[w] <= FeedbackTimeout + 1
    <2>1. /\ SystemInv /\ TypeOK /\ TickOK
        BY <1>1 DEF StepInv, SystemInv
    <2>2. /\ health.feedback_age[w] \in 0 .. FeedbackTimeout + 1
          /\ shown_age[w] \in 0 .. MaxStale /\ FeedbackTimeout \in Nat /\ MaxStale \in Nat
        BY <2>1, AgesType
    <2>3. CASE MaxStale = 0
        BY <2>2, <2>3
    <2>4. CASE MaxStale # 0
        <3>1. Shown /\ Live
            BY <1>1, <2>1, <2>2, <2>4 DEF StepInv, SystemInv, QueueInv, Live
        <3>2. EndRead
            BY <1>1, <2>1, ReadFrameType, IdleSockets
               DEF SystemNext, Activate, Deactivate, BeginRead, WriteCommands, Control, Obey,
                   Answer, Advance, Sample, Emit, Pass, OnActivate, OnDeactivate,
                   StopAndRelease, ReadStart, Write, ControllerUpdate, Tick, system_vars, vars
        <3>3. \A reason : ~AbortRead(reason)
            BY <1>1 DEF AbortRead, EnterSafeStop
        <3>4. ~ReadFault
            BY <3>2, <3>3 DEF EndRead, ReadFinish
        <3>5. health.feedback_age[w] <= FeedbackTimeout
            BY <2>2, <3>4 DEF ReadFault, TimedOut, FeedbackTimedOut
        <3>6. shown_age[w] <= health.feedback_age[w] + 1
            BY <3>1, <3>5 DEF Shown
        <3> QED BY <2>2, <3>5, <3>6
    <2> QED BY <2>3, <2>4
<1>2. StepInv /\ [SystemNext]_system_vars =>
          [pc = "reading" /\ pc' = "idle" /\ ~fault_latched' =>
               \A w \in Wheels : shown_age[w] <= FeedbackTimeout + 1]_system_vars
    BY <1>1
<1>3. SystemSpec => []StepInv
    BY StepInvariant
<1> QED BY <1>2, <1>3, PTL DEF SystemSpec, ShownFeedbackIsRecent

-----------------------------------------------------------------------------
(***************************************************************************)
(* A robot that loses nothing but feedback: the books stay clean           *)
(***************************************************************************)
\* Nobody is late, only feedback frames get lost, a watchdog or a feedback
\* timeout is longer than a tick, and a receive queue holds what the motor
\* node sends in two ticks.
Nominal ==
    /\ InTime /\ Faults \subseteq {"noise"} /\ "report" \in Duties
    /\ 1 <= CommandWatchdog /\ 1 <= FeedbackTimeout /\ FeedbackTimeout < MaxStale
    /\ 2 * ReportFrames + 4 <= QueueMax

\* No ACK is blamed, and no command or ACK was lost.
Clean == Live => stop_reason = NoReason /\ suspects = {}

LEMMA QuietFaults ==
    ASSUME Nominal
    PROVE  /\ "send" \notin Faults /\ "late" \notin Faults /\ 1 <= MaxStale
           /\ \A w : ~MayFail("command", w) /\ ~MayFail("ack", w)
<1>1. FeedbackTimeout \in Nat /\ MaxStale \in Nat
    BY HealthAssumption, SystemAssumption
<1> QED BY <1>1 DEF Nominal, MayFail

\* There is room for the frame that the motor node still owes.
LEMMA RoomToAnswer ==
    ASSUME Nominal, SystemInv, InStep, Live, ToCome > 0
    PROVE  Len(to_plugin) + ToCome <= QueueMax /\ Len(to_plugin) # QueueMax
<1>1. PICK n \in 0 .. Len(to_plugin) : Budget(n)
    BY DEF InStep
<1>2. ToCome \in Nat /\ Len(to_plugin) \in Nat /\ ReportFrames \in Nat /\ QueueMax \in Nat
    BY LoadType, FramesRange, SystemAssumption
<1>3. Len(to_plugin) + ToCome <= 2 * ReportFrames + 4
    BY <1>1 DEF Budget
<1>4. 2 * ReportFrames + 4 <= QueueMax
    BY DEF Nominal
<1> QED BY <1>2, <1>3, <1>4

LEMMA AnswerArrives ==
    ASSUME Nominal, SystemInv, InStep, Live, Answer
    PROVE  UNCHANGED <<suspects, lost>>
<1>1. motor_sent' # <<>>
    BY QuietFaults DEF Answer
<1>2. owed # <<>>
    BY DEF Answer, Motors!Acknowledge
<1>3. ToCome > 0
    BY <1>2, LoadType
<1>4. Len(to_plugin) # QueueMax
    BY <1>3, RoomToAnswer
<1> QED BY <1>1, <1>4 DEF Answer

LEMMA ObeyLosesNothing ==
    ASSUME Nominal, Obey
    PROVE  Motors!Obey(Head(to_motors)) /\ UNCHANGED <<suspects, lost>>
BY QuietFaults DEF Obey

LEMMA AckNotBlamed ==
    ASSUME SystemInv, ReadFrame, stop_reason = NoReason, suspects = {},
           UnexpectedAckHasCause'
    PROVE  stop_reason' = NoReason
<1> DEFINE f == Head(to_plugin).frame
<1>1. suspects' = {}
    BY DEF ReadFrame
<1>2. stop_reason'.cause \notin {"unexpected_ack", "ack_rejected"}
    BY <1>1 DEF UnexpectedAckHasCause
<1>3. CASE f.kind = "ack"
    <2>1. ReceiveAck(f.wheel, f.sequence, f.result)
        BY <1>3 DEF ReadFrame
    <2>2. stop_reason' \in {stop_reason, FirstReason(ReasonOf("ack_rejected", f.wheel)),
                            FirstReason(ReasonOf("unexpected_ack", f.wheel))}
        BY <2>1 DEF ReceiveAck
    <2>3. \A r : FirstReason(r) = r
        BY DEF FirstReason
    <2>4. /\ ReasonOf("ack_rejected", f.wheel).cause = "ack_rejected"
          /\ ReasonOf("unexpected_ack", f.wheel).cause = "unexpected_ack"
        BY DEF ReasonOf
    <2> QED BY <1>2, <2>2, <2>3, <2>4
<1>4. CASE f.kind # "ack"
    BY <1>4 DEF ReadFrame, ReceiveFeedback, ReceiveIgnored, ReceiveWarning, latch
<1> QED BY <1>3, <1>4

LEMMA CleanNext ==
    ASSUME Nominal, SystemInv, InStep, Clean, UnexpectedAckHasCause',
           [SystemNext]_system_vars
    PROVE  Clean'
<1> SUFFICES ASSUME Live' PROVE stop_reason' = NoReason /\ suspects' = {}
    BY DEF Clean
<1>1. sender' /\ ~fault_latched'
    BY DEF Live
<1>2. CASE Activate
    <2>1. PICK d \in Outcomes : SocketsOpened(d)
        BY <1>1, <1>2 DEF Activate, OnActivate, SocketsUnavailable, ActivationFailed
    <2>2. stop_reason' = NoReason
        BY <1>1, <2>1 DEF SocketsOpened, ActivationFailed
    <2>3. suspects' = {w \in Wheels : OnTheWay(w)}
        BY <1>2 DEF Activate
    <2>4. \A w \in Wheels : ~OnTheWay(w)
        BY <1>2 DEF Activate, Nominal, InTime
    <2> QED BY <2>2, <2>3, <2>4
<1>3. CASE ~Activate
    <2>1. Live /\ ~Deactivate /\ stop_reason = NoReason /\ suspects = {}
        BY <1>3, LiveBefore DEF Clean
    <2>2. CASE BeginRead \/ EndRead \/ Control
        BY <1>1, <2>1, <2>2, QuietCycle
    <2>3. CASE ReadFrame
        BY <2>1, <2>3, AckNotBlamed DEF ReadFrame
    <2>4. CASE WriteCommands
        <3>1. \A cause : ~SocketMissing(cause)
            BY <1>1 DEF SocketMissing, EnterSafeStop
        <3>2. \A reason : ~EnterSafeStop(reason)
            BY <1>1 DEF EnterSafeStop
        <3>3. stop_reason' = stop_reason
            BY <2>4, <3>1, <3>2 DEF WriteCommands, Write, Refuse, Drive, latch
        <3> QED BY <2>1, <2>4, <3>3 DEF WriteCommands, history
    <2>5. CASE Obey
        <3>1. UNCHANGED stop_reason
            BY <2>5 DEF Obey, PluginIdle, plugin, latch
        <3> QED BY <2>1, <2>5, <3>1, ObeyLosesNothing
    <2>6. CASE Answer
        <3>1. UNCHANGED stop_reason
            BY <2>6 DEF Answer, PluginIdle, plugin, latch
        <3> QED BY <2>1, <2>6, <3>1, AnswerArrives
    <2>7. CASE Advance \/ Sample \/ Emit \/ Pass \/ UNCHANGED system_vars
        <3>1. UNCHANGED stop_reason
            BY <2>7 DEF Advance, Sample, Emit, Pass, PluginIdle, plugin, Tick, latch,
                        system_vars, vars
        <3>2. UNCHANGED suspects
            BY <2>7 DEF Advance, Sample, Emit, Pass, history, system_vars
        <3> QED BY <2>1, <3>1, <3>2
    <2> QED BY <1>3, <2>1, <2>2, <2>3, <2>4, <2>5, <2>6, <2>7 DEF SystemNext
<1> QED BY <1>2, <1>3

-----------------------------------------------------------------------------
(***************************************************************************)
(* Every ACK comes within the tick of its command, and is read in the next *)
(***************************************************************************)
\* Nothing is left to answer, and no ACK was queued in this tick.
NoneToAnswer ==
    /\ to_motors = <<>> /\ owed = <<>>
    /\ \A i \in 1 .. Len(to_plugin) :
           ~(to_plugin[i].frame.kind = "ack" /\ to_plugin[i].age = 0)

Settled(w) == health.pending[w] = <<>> \/ NoneToAnswer

\* Until write() sends the next commands, an ACK that is waited for can only
\* be one of those that are left over.
Acks == Live /\ "cycle" \notin done => \A w \in Wheels : Settled(w)

LEMMA NoneToAnswerKept ==
    ASSUME SystemInv, NoneToAnswer, Live, Live', [SystemNext]_system_vars,
           ~Activate, ~WriteCommands, ~Pass
    PROVE  NoneToAnswer'
<1>1. to_motors = <<>> /\ owed = <<>> /\ ~fault_latched' /\ receiver' /\ receiver
    BY LiveBefore DEF NoneToAnswer, Live
<1>2. ~Obey /\ ~Answer
    BY <1>1 DEF Obey, Answer, Motors!Acknowledge
<1>3. ~Deactivate
    BY LiveBefore
<1>4. CASE BeginRead \/ EndRead \/ Control
    <2>1. PluginSteps /\ sent' = <<>>
        BY <1>1, <1>4, QuietCycle
    <2>2. UNCHANGED <<to_plugin, to_motors, owed>>
        BY <1>1, <2>1, IdleCommands DEF PluginSteps
    <2> QED BY <2>2 DEF NoneToAnswer
<1>5. CASE ReadFrame
    <2>1. /\ to_plugin # <<>> /\ to_plugin' = Tail(to_plugin) /\ UNCHANGED <<to_motors, owed>>
        BY <1>5 DEF ReadFrame, NodeIdle, node
    <2>2. /\ Len(to_plugin') = Len(to_plugin) - 1 /\ Len(to_plugin) \in Nat
          /\ \A i \in 1 .. Len(to_plugin) - 1 : to_plugin'[i] = to_plugin[i + 1]
        BY <2>1, HeadTailProperties, LenProperties, EmptySeq DEF SystemInv, BusOK
    <2>3. ASSUME NEW i \in 1 .. Len(to_plugin')
          PROVE  ~(to_plugin'[i].frame.kind = "ack" /\ to_plugin'[i].age = 0)
        <3>1. i \in 1 .. Len(to_plugin) - 1 /\ i + 1 \in 1 .. Len(to_plugin)
            BY <2>2
        <3> QED BY <2>2, <3>1 DEF NoneToAnswer
    <2> QED BY <1>1, <2>1, <2>3 DEF NoneToAnswer
<1>6. CASE Emit
    <2>1. /\ motor_sent' \in Seq(GoodFrame) /\ UNCHANGED <<to_motors, owed>>
          /\ \A i \in 1 .. Len(motor_sent') : motor_sent'[i].kind # "ack"
        BY <1>6, EmitSends DEF Emit, Motors!Emit
    <2>2. to_plugin' = Enqueue(to_plugin, EntriesOf(motor_sent'))
        BY <1>1, <1>6 DEF Emit, Received, EntriesOf
    <2>3. /\ EntriesOf(motor_sent') \in Seq(BusEntry)
          /\ Len(EntriesOf(motor_sent')) = Len(motor_sent')
          /\ to_plugin \in Seq(BusEntry) /\ Len(to_plugin) <= QueueMax
        BY <2>1, EntriesType DEF SystemInv, BusOK
    <2>4. Grows(BusEntry, to_plugin, EntriesOf(motor_sent'), to_plugin')
        BY <2>2, <2>3, EnqueueIs
    <2>5. /\ \A i \in 1 .. Len(to_plugin) : to_plugin'[i] = to_plugin[i]
          /\ \A i \in Len(to_plugin) + 1 .. Len(to_plugin') :
                 to_plugin'[i] = EntriesOf(motor_sent')[i - Len(to_plugin)]
          /\ Len(to_plugin') <= Len(to_plugin) + Len(motor_sent')
          /\ Len(to_plugin) \in Nat /\ Len(to_plugin') \in Nat /\ Len(motor_sent') \in Nat
        BY <2>1, <2>3, <2>4, LenProperties DEF Grows
    <2>6. ASSUME NEW i \in 1 .. Len(to_plugin')
          PROVE  ~(to_plugin'[i].frame.kind = "ack" /\ to_plugin'[i].age = 0)
        <3>1. CASE i <= Len(to_plugin)
            <4>1. i \in 1 .. Len(to_plugin)
                BY <2>5, <3>1
            <4> QED BY <2>5, <4>1 DEF NoneToAnswer
        <3>2. CASE ~(i <= Len(to_plugin))
            <4>1. i \in Len(to_plugin) + 1 .. Len(to_plugin')
                  /\ i - Len(to_plugin) \in 1 .. Len(motor_sent')
                BY <2>5, <3>2
            <4>2. to_plugin'[i] = Entry(motor_sent'[i - Len(to_plugin)])
                BY <2>5, <4>1 DEF EntriesOf
            <4> QED BY <2>1, <4>1, <4>2 DEF Entry
        <3> QED BY <3>1, <3>2
    <2> QED BY <1>1, <2>1, <2>6 DEF NoneToAnswer
<1>7. CASE Advance \/ Sample \/ UNCHANGED system_vars
    <2>1. UNCHANGED <<to_motors, owed, to_plugin>>
        BY <1>7 DEF Advance, Sample, Motors!Advance, Motors!Sample, bus, node, system_vars
    <2> QED BY <2>1 DEF NoneToAnswer
<1> QED BY <1>2, <1>3, <1>4, <1>5, <1>6, <1>7 DEF SystemNext

\* Only write() and an activation start to wait for an ACK.
LEMMA NothingAwaited ==
    ASSUME SystemInv, Live, Live', [SystemNext]_system_vars, ~Activate, ~WriteCommands,
           NEW w \in Wheels, health.pending[w] = <<>>
    PROVE  health'.pending[w] = <<>>
<1>1. ~fault_latched /\ ~fault_latched' /\ ~Deactivate
    BY LiveBefore DEF Live
<1>2. CASE SameBooks(w)
    <2>1. SystemInv' /\ TypeOK'
        BY SystemInvNext DEF SystemInv
    <2>2. health' \in Health /\ Len(health'.pending[w]) = 0
        BY <1>2, <2>1 DEF SameBooks, TypeOK
    <2>3. health'.pending[w] \in Seq(PendingAck)
        BY <2>2 DEF Health
    <2> QED BY <2>2, <2>3, EmptySeq
<1>3. CASE BeginRead \/ EndRead \/ Control
    BY <1>1, <1>2, <1>3, QuietCycle
<1>4. CASE Obey \/ Answer \/ Advance \/ Sample \/ Emit \/ UNCHANGED system_vars
    <2>1. UNCHANGED health
        BY <1>4, IdleSockets DEF Obey, Answer, Advance, Sample, Emit, system_vars, vars
    <2> QED BY <2>1
<1>5. CASE Pass
    <2>1. Tick
        BY <1>1, <1>5 DEF Pass
    <2> QED BY <1>2, <2>1, AgedBooks DEF SystemInv
<1>6. CASE ReadFrame
    <2> DEFINE f == Head(to_plugin).frame
    <2>1. health \in Health
        BY DEF SystemInv, TypeOK
    <2>2. CASE f.kind = "ack"
        <3>1. health' = AckReceived(health, f.wheel, f.sequence, f.result)
            BY <1>6, <2>2 DEF ReadFrame, ReceiveAck
        <3>2. CASE f.wheel = w
            <4>1. ~AnswersFront(health, f.wheel, f.sequence)
                BY <3>2 DEF AnswersFront
            <4> QED BY <2>1, <3>1, <3>2, <4>1 DEF AckReceived, Health
        <3>3. CASE f.wheel # w
            BY <2>1, <3>1, <3>3 DEF AckReceived, Health
        <3> QED BY <3>2, <3>3
    <2>3. CASE f.kind # "ack"
        <3>1. health' = health \/ health' = FeedbackReceived(health, f.wheel)
            BY <1>6, <2>3 DEF ReadFrame, ReceiveFeedback, ReceiveIgnored, ReceiveWarning
        <3> QED BY <2>1, <3>1 DEF FeedbackReceived, Health
    <2> QED BY <2>2, <2>3
<1> QED BY <1>1, <1>3, <1>4, <1>5, <1>6 DEF SystemNext

LEMMA AcksNext ==
    ASSUME Nominal, SystemInv, TickOK, InStep, Acks, [SystemNext]_system_vars
    PROVE  Acks'
<1> SUFFICES ASSUME Live', "cycle" \notin done', NEW w \in Wheels PROVE Settled(w)'
    BY DEF Acks
<1>1. CASE Activate
    <2>1. health'.pending[w] = <<>>
        BY <1>1, ActivateEffect DEF Live
    <2> QED BY <2>1 DEF Settled
<1>2. ASSUME ~Activate PROVE Live /\ ~WriteCommands
    <2>1. ~WriteCommands
        BY DEF WriteCommands, Perform
    <2> QED BY <1>2, <2>1, LiveBefore
<1>3. CASE Pass /\ ~Activate
    <2>1. SystemInv' /\ InTime /\ 1 <= MaxStale /\ MaxStale \in Nat
        BY SystemInvNext, QuietFaults, SystemAssumption DEF Nominal
    <2>2. PICK n \in 0 .. Len(to_plugin) : Budget(n)
        BY <1>2, <1>3 DEF InStep
    <2>3. n = 0 /\ Len(to_plugin) \in Nat
        BY <1>3, <2>1, <2>2, BudgetAges, LoadType
    <2>4. /\ to_plugin' = [i \in 1 .. Len(to_plugin) |->
                              [to_plugin[i] EXCEPT !.age = Stale(to_plugin[i].age)]]
          /\ Len(to_plugin') = Len(to_plugin)
        BY <1>3, <2>3 DEF Pass
    <2>5. ASSUME NEW i \in 1 .. Len(to_plugin') PROVE to_plugin'[i].age = 1
        <3>1. i \in 1 .. Len(to_plugin)
            BY <2>4
        <3>2. to_plugin[i].age = 0
            BY <2>2, <2>3, <3>1 DEF Budget, LeftOver
        <3>3. to_plugin[i] \in BusEntry
            BY <3>1, ElementOfSeq DEF SystemInv, BusOK
        <3> QED BY <2>1, <2>4, <3>1, <3>2, <3>3 DEF BusEntry, Stale
    <2>6. to_motors' = <<>> /\ owed' = <<>>
        BY <1>3, <2>1 DEF Pass, OnTime, InTime, Motors!Tick
    <2>7. NoneToAnswer'
        BY <2>5, <2>6 DEF NoneToAnswer
    <2> QED BY <2>7 DEF Settled
<1>4. CASE ~Pass /\ ~Activate
    <2>1. Live /\ ~WriteCommands
        BY <1>2, <1>4
    <2>2. "cycle" \notin done
        BY <1>4, <2>1 DEF SystemNext, Deactivate, BeginRead, ReadFrame, EndRead, Control, Obey,
               Answer, Advance, Sample, Emit, Perform, system_vars
    <2>3. Settled(w)
        BY <2>1, <2>2 DEF Acks
    <2>4. CASE health.pending[w] = <<>>
        BY <1>4, <2>1, <2>4, NothingAwaited DEF Settled
    <2>5. CASE NoneToAnswer
        BY <1>4, <2>1, <2>5, NoneToAnswerKept DEF Settled
    <2> QED BY <2>3, <2>4, <2>5 DEF Settled
<1> QED BY <1>1, <1>3, <1>4

\* When read() ends no ACK is waited for: the motors have answered every
\* command, and the read has taken every answer.
LEMMA AllAnswered ==
    ASSUME Nominal, TrackInv, TickOK, InStep, Clean, Acks, EndRead, NEW w \in Wheels
    PROVE  health.pending[w] = <<>>
<1>1. SystemInv /\ TypeOK /\ pc = "reading"
    BY DEF TrackInv, SystemInv, EndRead, ReadFinish, AbortRead
<1>2. Live /\ receiver
    BY <1>1 DEF SystemInv, QueueInv, Live
<1>3. "cycle" \notin done /\ Settled(w) /\ suspects = {}
    BY <1>1, <1>2 DEF TickOK, Acks, Clean
<1>4. CASE NoneToAnswer
    <2>1. PICK n \in 0 .. Len(to_plugin) : Budget(n)
        BY <1>2 DEF InStep
    <2>2. n = 0
        BY <1>1, <2>1, AllDrawn DEF Nominal
    <2>3. \A i \in 1 .. Len(to_plugin) : to_plugin[i].frame.kind # "ack"
        BY <1>4, <2>1, <2>2 DEF NoneToAnswer, Budget, LeftOver
    <2>4. \A k \in Places, s \in SequenceNumbers : ~Flies(w, k, s)
        BY <1>4, <2>3 DEF NoneToAnswer, Flies, AckAt, OwedAt, CommandAt
    <2>5. Complete(w)
        BY <1>2, <1>3 DEF TrackInv, AllTracked, Distinct, Tracked
    <2>6. /\ health.pending[w] \in Seq(PendingAck) /\ Len(health.pending[w]) \in Nat
          /\ \A i \in 1 .. Len(health.pending[w]) :
                 health.pending[w][i].sequence \in SequenceNumbers
        BY <1>1, BooksType
    <2>7. \A i \in 1 .. Len(health.pending[w]) : FALSE
        BY <1>3, <2>4, <2>5, <2>6 DEF Complete, OnWay
    <2>8. Len(health.pending[w]) = 0
        BY <2>6, <2>7
    <2> QED BY <2>6, <2>8, EmptySeq
<1> QED BY <1>3, <1>4 DEF Settled

-----------------------------------------------------------------------------
(***************************************************************************)
(* A wheel whose feedback does not get lost is heard in every cycle        *)
(***************************************************************************)
\* A reading of the wheel was taken in this tick or the last, or waits to be.
Heard(w) ==
    \/ health.feedback_age[w] <= 1
    \/ \E i \in 1 .. Len(to_plugin) : Reading(i, w) /\ to_plugin[i].age = 1

\* A reading of this tick was taken, waits in a queue, or is still to come.
Coming(w) ==
    \/ health.feedback_age[w] = 0
    \/ \E i \in 1 .. Len(to_plugin) : Reading(i, w)
    \/ \E i \in 1 .. Len(reports) : reports[i].wheel = w
    \/ "report" \notin done

Feedback == Live => \A w \in Wheels : ~MayFail("noise", w) => Heard(w) /\ Coming(w)

\* The plugin never counts more than the age of what it shows.
Really == Live => \A w \in Wheels : health.feedback_age[w] <= shown_age[w]

LEMMA ReallyNext ==
    ASSUME Nominal, SystemInv, TickOK, Really, [SystemNext]_system_vars
    PROVE  Really'
<1> SUFFICES ASSUME Live', NEW w \in Wheels
             PROVE  health'.feedback_age[w] <= shown_age'[w]
    BY DEF Really
<1>1. /\ health.feedback_age[w] \in 0 .. FeedbackTimeout + 1
      /\ shown_age[w] \in 0 .. MaxStale /\ FeedbackTimeout \in Nat /\ MaxStale \in Nat
    BY AgesType DEF SystemInv
<1>2. CASE Activate
    BY <1>2, ActivateResetsAge DEF Live
<1>3. CASE ~Activate
    <2>1. health.feedback_age[w] <= shown_age[w]
        BY <1>3, LiveBefore DEF Really
    <2>2. AgesMove(w)
        BY AgesNext
    <2>3. Reading(1, w) => to_plugin[1].age \in Nat
        <3> SUFFICES ASSUME Reading(1, w) PROVE to_plugin[1].age \in Nat
            OBVIOUS
        <3>1. to_plugin[1] \in BusEntry
            BY ElementOfSeq DEF Reading, SystemInv, BusOK
        <3> QED BY <1>1, <3>1 DEF BusEntry
    <2>4. Older(health.feedback_age[w], FeedbackTimeout) <= Stale(shown_age[w])
        BY <1>1, <2>1 DEF Older, Stale, Nominal
    <2> QED BY <2>1, <2>2, <2>3, <2>4 DEF AgesMove
<1> QED BY <1>2, <1>3

LEMMA QueueGrows ==
    ASSUME SystemInv, NEW new \in Seq(GoodFrame), Received(new), receiver
    PROVE  /\ Len(to_plugin) \in Nat /\ Len(to_plugin') \in Nat
           /\ Len(to_plugin') >= Len(to_plugin)
           /\ Len(to_plugin) + Len(new) <= QueueMax =>
                  Len(to_plugin') = Len(to_plugin) + Len(new)
           /\ \A i \in 1 .. Len(to_plugin) : to_plugin'[i] = to_plugin[i]
           /\ \A i \in Len(to_plugin) + 1 .. Len(to_plugin') :
                  to_plugin'[i] = EntriesOf(new)[i - Len(to_plugin)]
<1>1. to_plugin' = Enqueue(to_plugin, EntriesOf(new))
    BY DEF Received, EntriesOf
<1>2. /\ EntriesOf(new) \in Seq(BusEntry) /\ Len(EntriesOf(new)) = Len(new)
      /\ to_plugin \in Seq(BusEntry) /\ Len(to_plugin) <= QueueMax
    BY EntriesType DEF SystemInv, BusOK
<1>3. Grows(BusEntry, to_plugin, EntriesOf(new), to_plugin')
    BY <1>1, <1>2, EnqueueIs
<1> QED BY <1>2, <1>3, LenProperties DEF Grows

\* A reading stays in the queue until it is its turn.
LEMMA ReadingStays ==
    ASSUME SystemInv, Live, Live', [SystemNext]_system_vars, ~Activate, ~Pass, ~ReadFrame,
           NEW i, NEW w, Reading(i, w)
    PROVE  Reading(i, w)' /\ to_plugin'[i] = to_plugin[i]
<1>1. ~fault_latched' /\ receiver' /\ receiver /\ ~Deactivate
    BY LiveBefore DEF Live
<1>2. CASE BeginRead \/ EndRead \/ Control \/ WriteCommands
    <2>1. PluginSteps
        BY <1>2 DEF BeginRead, EndRead, Control, WriteCommands
    <2>2. UNCHANGED to_plugin
        BY <1>1, <2>1 DEF PluginSteps
    <2> QED BY <2>2 DEF Reading
<1>3. CASE Answer \/ Emit
    <2>1. motor_sent' \in Seq(GoodFrame) /\ Received(motor_sent')
        <3>1. CASE Answer
            BY <3>1, SystemInvNext, AnswerTakes
        <3>2. CASE Emit
            BY <3>2, EmitSends DEF Emit
        <3> QED BY <1>3, <3>1, <3>2
    <2>2. i \in 1 .. Len(to_plugin)
        BY DEF Reading
    <2>3. i \in 1 .. Len(to_plugin') /\ to_plugin'[i] = to_plugin[i]
        BY <1>1, <2>1, <2>2, QueueGrows
    <2> QED BY <2>3 DEF Reading
<1>4. CASE Obey \/ Advance \/ Sample \/ UNCHANGED system_vars
    <2>1. UNCHANGED to_plugin
        BY <1>4 DEF Obey, Advance, Sample, bus, system_vars
    <2> QED BY <2>1 DEF Reading
<1> QED BY <1>1, <1>2, <1>3, <1>4 DEF SystemNext

\* The report of a wheel without noise is a frame that read() takes.
LEMMA ReadingEmitted ==
    ASSUME Nominal, SystemInv, TickOK, InStep, Live, Emit, NEW w \in Wheels,
           Head(reports).wheel = w, ~MayFail("noise", w)
    PROVE  \E i \in 1 .. Len(to_plugin') : Reading(i, w)'
<1>1. receiver
    BY DEF Live, SystemInv, QueueInv
<1>2. PICK short \in BOOLEAN :
          LET f == Motors!FeedbackFor(Head(reports), short) IN
          /\ motor_sent' \in {<<f>>, <<Motors!ErrorFrame, f>>}
          /\ ~MayFail("noise", Head(reports).wheel) => motor_sent' = <<f>> /\ ~short
    BY EmitForms
<1> DEFINE f == Motors!FeedbackFor(Head(reports), short)
<1>3. motor_sent' = <<f>> /\ ~short
    BY <1>2
<1>4. f.kind = "feedback" /\ ~f.short /\ f.wheel = w
    BY <1>3 DEF Motors!FeedbackFor
<1> HIDE DEF f
<1>5. Len(motor_sent') = 1 /\ motor_sent'[1] = f
    BY <1>3
<1>6. motor_sent' \in Seq(GoodFrame) /\ Received(motor_sent')
    BY EmitSends DEF Emit
<1>7. Len(to_plugin) + 1 <= QueueMax
    <2>1. ToCome > 0
        <3>1. SystemInv' /\ ToCome \in Nat
            BY LoadType, SystemInvNext DEF SystemNext
        <3> DEFINE c == ToCome'
                   n == Len(motor_sent')
        <3>2. n + c <= ToCome /\ c \in Nat /\ n = 1
            BY <1>5, <3>1, EmitSpends, LoadNext
        <3> HIDE DEF c, n
        <3> QED BY <3>1, <3>2
    <2>2. Len(to_plugin) + ToCome <= QueueMax /\ ToCome \in Nat /\ Len(to_plugin) \in Nat
          /\ QueueMax \in Nat
        BY <2>1, RoomToAnswer, LoadType, SystemAssumption
    <2> QED BY <2>1, <2>2
<1>8. PICK k \in Nat : k = Len(to_plugin)
    BY LoadType
<1>9. Len(to_plugin') = k + 1 /\ to_plugin'[k + 1] = EntriesOf(motor_sent')[1]
    <2>1. Len(to_plugin') = k + 1
        BY <1>1, <1>5, <1>6, <1>7, <1>8, QueueGrows
    <2>2. k + 1 \in Len(to_plugin) + 1 .. Len(to_plugin') /\ k + 1 - Len(to_plugin) = 1
        BY <1>8, <2>1
    <2>3. to_plugin'[k + 1] = EntriesOf(motor_sent')[k + 1 - Len(to_plugin)]
        BY <1>1, <1>6, <2>2, QueueGrows
    <2> QED BY <2>1, <2>2, <2>3
<1>10. to_plugin'[k + 1].frame = f
    BY <1>5, <1>9 DEF EntriesOf, Entry
<1>11. k + 1 \in 1 .. Len(to_plugin')
    BY <1>9
<1>12. Reading(k + 1, w)'
    BY <1>4, <1>10, <1>11 DEF Reading
<1> QED BY <1>11, <1>12

\* What the report has still to bring does not get lost on the way.
LEMMA ComingStays ==
    ASSUME Nominal, SystemInv, TickOK, InStep, Live, Live', [SystemNext]_system_vars,
           ~Activate, ~Pass, ~ReadFrame, NEW w \in Wheels, ~MayFail("noise", w), Coming(w)
    PROVE  Coming(w)'
<1>1. health'.feedback_age[w] = health.feedback_age[w]
    <2>1. AgesMove(w)
        BY AgesNext
    <2> DEFINE a == health'.feedback_age[w]
    <2>2. \/ a = health.feedback_age[w]
          \/ a = 0 /\ shown_age'[w] = 0
        BY <2>1 DEF AgesMove
    <2> HIDE DEF a
    <2>3. CASE a = health.feedback_age[w]
        BY <2>3 DEF a
    <2>4. CASE a = 0 /\ a # health.feedback_age[w]
        <3>1. ~Deactivate
            BY LiveBefore
        <3>2. CASE BeginRead \/ EndRead \/ Control
            <4>1. ~fault_latched'
                BY DEF Live
            <4>2. \A cause : ~SocketMissing(cause)
                BY <4>1 DEF SocketMissing, EnterSafeStop
            <4>3. \A reason : ~AbortRead(reason)
                BY <4>1 DEF AbortRead, EnterSafeStop
            <4>4. UNCHANGED health
                BY <3>2, <4>2, <4>3 DEF BeginRead, ReadStart, Refuse, EndRead, ReadFinish,
                                        Control, ControllerUpdate
            <4> QED BY <4>4
        <3>3. CASE WriteCommands
            BY <3>3, WriteKeepsAge DEF Live
        <3>4. CASE Obey \/ Answer \/ Advance \/ Sample \/ Emit \/ UNCHANGED system_vars
            BY <3>4, IdleSockets DEF Obey, Answer, Advance, Sample, Emit, system_vars, vars
        <3> QED BY <3>1, <3>2, <3>3, <3>4 DEF SystemNext
    <2> QED BY <2>2, <2>3, <2>4
<1>2. CASE health.feedback_age[w] = 0
    BY <1>1, <1>2 DEF Coming
<1>3. CASE \E i \in 1 .. Len(to_plugin) : Reading(i, w)
    <2>1. PICK i \in 1 .. Len(to_plugin) : Reading(i, w)
        BY <1>3
    <2>2. Reading(i, w)'
        BY <2>1, ReadingStays
    <2>3. i \in 1 .. Len(to_plugin')
        BY <2>2 DEF Reading
    <2> QED BY <2>2, <2>3 DEF Coming
<1>4. CASE \E i \in 1 .. Len(reports) : reports[i].wheel = w
    <2>1. CASE Emit
        <3>1. CASE Head(reports).wheel = w
            BY <2>1, <3>1, ReadingEmitted DEF Coming
        <3>2. CASE Head(reports).wheel # w
            <4>1. PICK i \in 1 .. Len(reports) : reports[i].wheel = w
                BY <1>4
            <4>2. /\ reports # <<>> /\ reports' = Tail(reports) /\ reports \in Seq(ReportRecord)
                BY <2>1 DEF Emit, Motors!Emit, SystemInv, NodeOK
            <4>3. /\ Len(reports') = Len(reports) - 1 /\ Len(reports) \in Nat
                  /\ Head(reports) = reports[1]
                  /\ \A j \in 1 .. Len(reports) - 1 : reports'[j] = reports[j + 1]
                BY <4>2, HeadTailProperties, LenProperties, EmptySeq
            <4>4. i # 1
                BY <3>2, <4>1, <4>3
            <4>5. i - 1 \in 1 .. Len(reports') /\ reports'[i - 1] = reports[i]
                <5>1. i - 1 \in 1 .. Len(reports) - 1 /\ (i - 1) + 1 = i
                    BY <4>3, <4>4
                <5> QED BY <4>3, <5>1
            <4> QED BY <4>1, <4>5 DEF Coming
        <3> QED BY <3>1, <3>2
    <2>2. CASE Sample
        <3>1. Len(reports) = 0
            BY <2>2, SampleTakes
        <3> QED BY <1>4, <3>1
    <2>3. CASE ~Emit /\ ~Sample
        <3>1. UNCHANGED reports
            BY <2>3 DEF SystemNext, Deactivate, BeginRead, EndRead, WriteCommands, Control, Obey,
                   Answer, Advance, PluginSteps, NodeIdle, node, Motors!Obey,
                   Motors!Acknowledge, Motors!Advance, system_vars
        <3> QED BY <1>4, <3>1 DEF Coming
    <2> QED BY <2>1, <2>2, <2>3
<1>5. CASE "report" \notin done
    <2>1. CASE Sample
        <3>1. Len(reports') = 2 /\ reports'[1].wheel = 0 /\ reports'[2].wheel = 1
            BY <2>1, SampleTakes
        <3>2. \E i \in 1 .. Len(reports') : reports'[i].wheel = w
            BY <3>1 DEF Wheels
        <3> QED BY <3>2 DEF Coming
    <2>2. CASE ~Sample
        <3>1. "report" \notin done'
            BY <1>5, <2>2 DEF SystemNext, Deactivate, BeginRead, EndRead, WriteCommands, Control,
                   Obey, Answer, Advance, Emit, Perform, system_vars
        <3> QED BY <3>1 DEF Coming
    <2> QED BY <2>1, <2>2
<1> QED BY <1>2, <1>3, <1>4, <1>5 DEF Coming

LEMMA HeardStays ==
    ASSUME SystemInv, TickOK, Live, Live', [SystemNext]_system_vars,
           ~Activate, ~Pass, ~ReadFrame, NEW w \in Wheels, Heard(w)
    PROVE  Heard(w)'
<1>1. CASE health.feedback_age[w] <= 1
    <2>1. AgesMove(w)
        BY AgesNext
    <2>2. health'.feedback_age[w] = health.feedback_age[w] \/ health'.feedback_age[w] = 0
        BY <2>1 DEF AgesMove
    <2>3. health'.feedback_age[w] <= 1
        BY <1>1, <2>2
    <2> QED BY <2>3 DEF Heard
<1>2. CASE \E i \in 1 .. Len(to_plugin) : Reading(i, w) /\ to_plugin[i].age = 1
    <2>1. PICK i \in 1 .. Len(to_plugin) : Reading(i, w) /\ to_plugin[i].age = 1
        BY <1>2
    <2>2. Reading(i, w)' /\ to_plugin'[i].age = 1
        BY <2>1, ReadingStays
    <2>3. i \in 1 .. Len(to_plugin')
        BY <2>2 DEF Reading
    <2> QED BY <2>2, <2>3 DEF Heard
<1> QED BY <1>1, <1>2 DEF Heard

\* A reading that is taken makes the age zero; the others move up.
LEMMA HeardRead ==
    ASSUME SystemInv, TickOK, ReadFrame, NEW w \in Wheels
    PROVE  (Heard(w) => Heard(w)') /\ (Coming(w) => Coming(w)')
<1>1. CASE Reading(1, w)
    <2>1. health'.feedback_age[w] = 0
        BY <1>1, ReadAges
    <2> QED BY <2>1 DEF Heard, Coming
<1>2. CASE ~Reading(1, w)
    <2>1. health'.feedback_age[w] = health.feedback_age[w] /\ UNCHANGED <<done, reports>>
        BY <1>2, ReadAges DEF ReadFrame, NodeIdle, node
    <2>2. to_plugin # <<>> /\ to_plugin' = Tail(to_plugin)
        BY DEF ReadFrame
    <2>3. /\ Len(to_plugin') = Len(to_plugin) - 1 /\ Len(to_plugin) \in Nat
          /\ \A i \in 1 .. Len(to_plugin) - 1 : to_plugin'[i] = to_plugin[i + 1]
        BY <2>2, HeadTailProperties, LenProperties, EmptySeq DEF SystemInv, BusOK
    <2>4. ASSUME NEW i \in 1 .. Len(to_plugin), Reading(i, w)
          PROVE  /\ i - 1 \in 1 .. Len(to_plugin') /\ Reading(i - 1, w)'
                 /\ to_plugin'[i - 1].age = to_plugin[i].age
        <3>1. i # 1
            BY <1>2, <2>4
        <3>2. i - 1 \in 1 .. Len(to_plugin) - 1 /\ (i - 1) + 1 = i /\ i - 1 \in 1 .. Len(to_plugin')
            BY <2>3, <3>1
        <3>3. to_plugin'[i - 1] = to_plugin[i]
            BY <2>3, <3>2
        <3>4. PICK j \in Int : j = i - 1
            BY <3>2
        <3>5. Reading(j, w)'
            BY <2>4, <3>2, <3>3, <3>4 DEF Reading
        <3> QED BY <3>2, <3>3, <3>4, <3>5
    <2>5. Heard(w) => Heard(w)'
        BY <2>1, <2>4 DEF Heard
    <2>6. Coming(w) => Coming(w)'
        BY <2>1, <2>4 DEF Coming
    <2> QED BY <2>5, <2>6
<1> QED BY <1>1, <1>2

\* After the clock nothing is heard but what was queued, and a new report is
\* due.
LEMMA HeardPass ==
    ASSUME Nominal, SystemInv, TickOK, InStep, Live, Pass, NEW w \in Wheels, Coming(w)
    PROVE  Heard(w)' /\ Coming(w)'
<1>1. SystemInv' /\ InTime /\ 1 <= MaxStale /\ MaxStale \in Nat /\ "report" \in Duties
    BY SystemInvNext, QuietFaults, SystemAssumption DEF Nominal, SystemNext
<1>2. done = Duties /\ reports = <<>> /\ done' = {}
    BY <1>1 DEF Pass, OnTime, InTime
<1>3. Coming(w)'
    BY <1>2 DEF Coming
<1>4. Len(reports) = 0 /\ "report" \in done
    BY <1>1, <1>2
<1>5. CASE health.feedback_age[w] = 0
    <2>1. Tick /\ health \in Health
        BY DEF Pass, Live, SystemInv, TypeOK
    <2>2. health'.feedback_age[w] = Older(health.feedback_age[w], FeedbackTimeout)
        BY <2>1 DEF Tick, Aged, Health
    <2>3. health'.feedback_age[w] <= 1
        BY <1>5, <2>2 DEF Older
    <2> QED BY <1>3, <2>3 DEF Heard
<1>6. CASE \E i \in 1 .. Len(to_plugin) : Reading(i, w)
    <2>1. PICK i \in 1 .. Len(to_plugin) : Reading(i, w)
        BY <1>6
    <2>2. PICK n \in 0 .. Len(to_plugin) : Budget(n)
        BY DEF InStep
    <2>3. n = 0 /\ Len(to_plugin) \in Nat
        BY <1>1, <2>2, BudgetAges, LoadType
    <2>4. to_plugin[i].age = 0 /\ to_plugin[i] \in BusEntry
        BY <2>2, <2>3, ElementOfSeq DEF Budget, LeftOver, SystemInv, BusOK
    <2>5. to_plugin' = [j \in 1 .. Len(to_plugin) |->
                           [to_plugin[j] EXCEPT !.age = Stale(to_plugin[j].age)]]
          /\ Len(to_plugin') = Len(to_plugin)
        BY <2>3 DEF Pass
    <2>6. to_plugin'[i].age = 1 /\ to_plugin'[i].frame = to_plugin[i].frame
        BY <1>1, <2>4, <2>5 DEF BusEntry, Stale
    <2>7. Reading(i, w)' /\ i \in 1 .. Len(to_plugin')
        BY <2>1, <2>5, <2>6 DEF Reading
    <2> QED BY <1>3, <2>6, <2>7 DEF Heard
<1> QED BY <1>4, <1>5, <1>6 DEF Coming

LEMMA FeedbackNext ==
    ASSUME Nominal, SystemInv, TickOK, InStep, Feedback, [SystemNext]_system_vars
    PROVE  Feedback'
<1> SUFFICES ASSUME Live', NEW w \in Wheels, ~MayFail("noise", w)
             PROVE  Heard(w)' /\ Coming(w)'
    BY DEF Feedback, MayFail
<1>1. CASE Activate
    <2>1. health'.feedback_age[w] = 0
        BY <1>1, ActivateResetsAge DEF Live
    <2> QED BY <2>1 DEF Heard, Coming
<1>2. CASE ~Activate
    <2>1. Live
        BY <1>2, LiveBefore
    <2>2. Heard(w) /\ Coming(w)
        BY <2>1 DEF Feedback
    <2> QED BY <1>2, <2>1, <2>2, ComingStays, HeardStays, HeardRead, HeardPass
<1> QED BY <1>1, <1>2

-----------------------------------------------------------------------------
(***************************************************************************)
(* What an active component may be stopped for                             *)
(***************************************************************************)
ActiveOK == lifecycle = "active" /\ ~fault_latched => sender

Named ==
    lifecycle = "active" /\ fault_latched =>
        LET w == stop_reason.wheel IN
        /\ stop_reason.cause = "feedback_timeout" /\ w \in LossyWheels
        /\ shown_age[w] > FeedbackTimeout

\* The one attempt of a fault stop is still to be had.
Spare == ~fault_latched => ~fault_stop_attempted

LEMMA SpareNext ==
    ASSUME SystemInv, Spare, [SystemNext]_system_vars PROVE Spare'
<1> SUFFICES ASSUME ~fault_latched' PROVE ~fault_stop_attempted'
    BY DEF Spare
<1>1. CASE Activate
    <2>1. PICK d \in Outcomes : SocketsOpened(d)
        BY <1>1 DEF Activate, OnActivate, SocketsUnavailable, ActivationFailed
    <2> QED BY <2>1 DEF SocketsOpened, ActivationFailed
<1>2. CASE Deactivate
    <2>1. fault_latched' = fault_latched /\ \E d \in Outcomes : ReleaseStop(d, "inactive")
        BY <1>2 DEF Deactivate, OnDeactivate, StopAndRelease
    <2>2. ~fault_latched
        BY <2>1
    <2>3. UNCHANGED fault_stop_attempted
        BY <2>1, <2>2 DEF ReleaseStop
    <2> QED BY <2>2, <2>3 DEF Spare
<1>3. CASE ~Activate /\ ~Deactivate
    <2>1. \A cause : ~SocketMissing(cause)
        BY DEF SocketMissing, EnterSafeStop
    <2>2. \A reason : ~AbortRead(reason)
        BY DEF AbortRead, EnterSafeStop
    <2>3. \A reason : ~EnterSafeStop(reason)
        BY DEF EnterSafeStop
    <2>4. UNCHANGED <<fault_latched, fault_stop_attempted>>
        <3>1. CASE BeginRead \/ EndRead \/ Control
            BY <2>1, <2>2, <3>1 DEF BeginRead, ReadStart, Refuse, EndRead, ReadFinish, Control,
                                    ControllerUpdate, latch
        <3>2. CASE WriteCommands
            BY <2>1, <2>3, <3>2 DEF WriteCommands, Write, Refuse, Drive, latch
        <3>3. CASE ReadFrame
            BY <3>3 DEF ReadFrame, ReceiveAck, ReceiveFeedback, ReceiveIgnored, ReceiveWarning,
                        latch
        <3>4. CASE Obey \/ Answer \/ Advance \/ Sample \/ Emit \/ Pass \/ UNCHANGED system_vars
            BY <3>4 DEF Obey, Answer, Advance, Sample, Emit, Pass, PluginIdle, plugin, Tick,
                        latch, system_vars, vars
        <3> QED BY <1>3, <3>1, <3>2, <3>3, <3>4 DEF SystemNext
    <2> QED BY <2>4 DEF Spare
<1> QED BY <1>1, <1>2, <1>3

\* The fault that ends a read is the timeout of a wheel that really is old.
LEMMA ReadNames ==
    ASSUME Nominal, TrackInv, TickOK, InStep, Clean, Acks, Feedback, Really, EndRead,
           fault_latched'
    PROVE  LET w == stop_reason'.wheel IN
           /\ stop_reason'.cause = "feedback_timeout" /\ w \in LossyWheels
           /\ shown_age'[w] > FeedbackTimeout
<1>1. SystemInv /\ FaultInv /\ pc = "reading" /\ TypeOK
    BY DEF TrackInv, SystemInv, EndRead, ReadFinish, AbortRead
<1>2. Live /\ stop_reason = NoReason
    BY <1>1 DEF SystemInv, QueueInv, Live, Clean
<1>3. ~health.ack_fault /\ ~fault_latched
    BY <1>1, <1>2 DEF FaultInv
<1>4. \A w \in Wheels : TimedOut(w) <=> FeedbackTimedOut(health, w)
    BY AllAnswered DEF TimedOut, AckTimedOut
<1>5. /\ ReadFault
      /\ AbortRead(IF \E w \in Wheels : TimedOut(w) THEN FirstReason(TimeoutReason)
                   ELSE stop_reason)
    BY <1>3 DEF EndRead, ReadFinish, latch
<1>6. \E w \in Wheels : TimedOut(w)
    BY <1>3, <1>5 DEF ReadFault
<1>7. stop_reason' = TimeoutReason
    BY <1>2, <1>5, <1>6 DEF AbortRead, EnterSafeStop, FirstReason
<1>8. PICK w \in Wheels : w = IF TimedOut(0) THEN 0 ELSE 1
    BY DEF Wheels
<1>9. TimedOut(w) /\ FeedbackTimedOut(health, w)
    BY <1>4, <1>6, <1>8 DEF Wheels
<1>10. stop_reason'.cause = "feedback_timeout" /\ stop_reason'.wheel = w
    BY <1>7, <1>8, <1>9 DEF TimeoutReason, ReasonOf
<1>11. /\ health.feedback_age[w] \in 0 .. FeedbackTimeout + 1 /\ shown_age[w] \in 0 .. MaxStale
       /\ FeedbackTimeout \in Nat /\ MaxStale \in Nat
    BY <1>1, AgesType
<1>12. shown_age'[w] = shown_age[w]
    BY DEF EndRead, history
<1>13. shown_age'[w] > FeedbackTimeout /\ health.feedback_age[w] > FeedbackTimeout
    BY <1>2, <1>9, <1>11, <1>12 DEF Really, FeedbackTimedOut
<1>14. w \in LossyWheels
    <2> SUFFICES ASSUME w \notin LossyWheels PROVE FALSE
        OBVIOUS
    <2>1. Heard(w)
        BY <1>2 DEF Feedback, MayFail
    <2>2. ~(health.feedback_age[w] <= 1)
        BY <1>11, <1>13 DEF Nominal
    <2>3. PICK i \in 1 .. Len(to_plugin) : to_plugin[i].age = 1
        BY <2>1, <2>2 DEF Heard
    <2>4. PICK n \in 0 .. Len(to_plugin) : Budget(n)
        BY <1>2 DEF InStep
    <2>5. n = 0
        BY <1>1, <2>4, AllDrawn DEF Nominal
    <2> QED BY <2>3, <2>4, <2>5 DEF Budget, LeftOver
<1> QED BY <1>10, <1>13, <1>14

\* A release that reports an error has been refused the stop frames before.
LEMMA ReleaseSucceeds ==
    ASSUME SystemInv, 1 < SeqMod, ~SendThrew, sender, ~fault_latched,
           NEW d \in Outcomes, ReleaseStop(d, "inactive")
    PROVE  lifecycle' = "inactive"
<1> DEFINE r == SafeStop(Link, d)
<1>1. TypeOK /\ Link \in LinkRecord /\ Link.sent = <<>> /\ Link.open
      /\ Link.sequences = sequences
    BY LinkType DEF SystemInv, Link
<1>2. Transmitted(r) /\ Returned(r.success, "inactive")
    BY DEF ReleaseStop
<1>3. Link.open /\ ~r.success => Wasted(Link, r)
    BY <1>1, SafeStopIssues
<1>4. ~Wasted(Link, r)
    BY <1>1, <1>2, WastedThrows
<1> HIDE DEF r
<1> QED BY <1>1, <1>2, <1>3, <1>4 DEF Returned

LEMMA DriveSucceeds ==
    ASSUME FaultInv, ~SendThrew, pc = "idle", ~fault_latched,
           NEW d \in Outcomes, NEW stopped \in Outcomes, Drive(d, stopped)
    PROVE  SendCommands(d).success /\ UNCHANGED latch
<1> SUFFICES ASSUME ~SendCommands(d).success PROVE FALSE
    BY DEF Drive
<1>1. stop_reason' = FirstReason(Reason("can_send_error")) /\ stop_reason = NoReason
    BY DEF Drive, EnterSafeStop, FaultInv
<1>2. stop_reason' = Reason("can_send_error")
    BY <1>1 DEF FirstReason
<1>3. stop_reason'.cause = "can_send_error" /\ stop_reason.cause = "none"
    BY <1>1, <1>2 DEF Reason, NoReason
<1> QED BY <1>3 DEF SendThrew

LEMMA ActiveNext ==
    ASSUME Nominal, 1 < SeqMod, TrackInv, TickOK, InStep, Clean, Acks, Feedback, Really,
           ActiveOK, Named, [SystemNext]_system_vars
    PROVE  ActiveOK' /\ Named'
<1> SUFFICES ASSUME lifecycle' = "active"
             PROVE  /\ ~fault_latched' => sender'
                    /\ fault_latched' =>
                           LET w == stop_reason'.wheel IN
                           /\ stop_reason'.cause = "feedback_timeout" /\ w \in LossyWheels
                           /\ shown_age'[w] > FeedbackTimeout
    BY DEF ActiveOK, Named
<1>1. SystemInv /\ FaultInv /\ TypeOK /\ "send" \notin Faults
    BY QuietFaults DEF TrackInv, SystemInv
<1>2. sender <=> receiver
    BY <1>1 DEF SystemInv, QueueInv
<1>3. ASSUME lifecycle = "active", UNCHANGED <<fault_latched, stop_reason, shown_age>>,
             fault_latched \/ sender' = sender
      PROVE  /\ ~fault_latched' => sender'
             /\ fault_latched' =>
                    LET w == stop_reason'.wheel IN
                    /\ stop_reason'.cause = "feedback_timeout" /\ w \in LossyWheels
                    /\ shown_age'[w] > FeedbackTimeout
    BY <1>3 DEF ActiveOK, Named
<1>4. ASSUME NEW cause, SocketMissing(cause) PROVE lifecycle = "active"
    BY <1>4 DEF SocketMissing, EnterSafeStop, Returned
<1>5. CASE Activate
    <2>1. lifecycle = "inactive" /\ ~ActivationFailed
        BY <1>5 DEF Activate, OnActivate, ActivationFailed, Returned
    <2>2. PICK d \in Outcomes : SocketsOpened(d)
        BY <1>5, <2>1 DEF Activate, OnActivate, SocketsUnavailable
    <2> QED BY <2>1, <2>2 DEF SocketsOpened
<1>6. CASE Deactivate
    <2>1. /\ lifecycle = "active" /\ UNCHANGED <<fault_latched, stop_reason, shown_age>>
          /\ ~SendThrew
        BY <1>1, <1>6 DEF Deactivate, OnDeactivate, StopAndRelease, history, PluginSteps,
                          PluginEnvironment
    <2>2. PICK d \in Outcomes : ReleaseStop(d, "inactive")
        BY <1>6 DEF Deactivate, OnDeactivate, StopAndRelease
    <2>3. fault_latched
        <3> SUFFICES ASSUME ~fault_latched PROVE FALSE
            OBVIOUS
        <3>1. sender
            BY <2>1 DEF ActiveOK
        <3> QED BY <1>1, <2>1, <2>2, <3>1, ReleaseSucceeds
    <2> QED BY <1>3, <2>1, <2>3
<1>7. CASE BeginRead
    <2>1. UNCHANGED shown_age /\ ReadStart
        BY <1>7 DEF BeginRead, history
    <2>2. ~(MayOperate /\ ~receiver /\ SocketMissing("can_receive_unavailable"))
        BY <1>2, <1>4 DEF ActiveOK, MayOperate
    <2>3. CASE Refuse
        BY <1>3, <2>1, <2>3 DEF Refuse, Returned, latch, sockets
    <2>4. CASE ~Refuse
        BY <1>3, <2>1, <2>2, <2>4 DEF ReadStart, latch, sockets
    <2> QED BY <2>3, <2>4
<1>8. CASE ReadFrame
    <2>1. pc = "reading" /\ UNCHANGED <<fault_latched, sender>>
        BY <1>8 DEF ReadFrame, ReceiveAck, ReceiveFeedback, ReceiveIgnored, ReceiveWarning,
                    latch, sockets
    <2> QED BY <1>1, <2>1 DEF SystemInv, QueueInv
<1>9. CASE EndRead
    <2>1. pc = "reading" /\ sender
        BY <1>1, <1>9 DEF EndRead, ReadFinish, AbortRead, SystemInv, QueueInv
    <2>2. sender' = sender
        BY <1>9 DEF EndRead, ReadFinish, AbortRead, sockets
    <2> QED BY <1>9, <2>1, <2>2, ReadNames
<1>10. CASE WriteCommands
    <2>1. UNCHANGED shown_age /\ Write /\ ~SendThrew
        BY <1>1, <1>10 DEF WriteCommands, history, PluginSteps, PluginEnvironment
    <2>2. ~(MayOperate /\ ~sender /\ SocketMissing("can_send_unavailable"))
        BY <1>4 DEF ActiveOK, MayOperate
    <2>3. CASE Refuse
        BY <1>3, <2>1, <2>3 DEF Refuse, Returned, latch, sockets
    <2>4. CASE ~Refuse
        <3>1. /\ MayOperate /\ sender /\ UNCHANGED sockets /\ pc = "idle"
              /\ \E delivered, stopped \in Outcomes : Drive(delivered, stopped)
            BY <2>1, <2>2, <2>4 DEF Write
        <3>2. UNCHANGED latch
            BY <1>1, <2>1, <3>1, DriveSucceeds DEF MayOperate
        <3> QED BY <3>1, <3>2 DEF latch, sockets, MayOperate
    <2> QED BY <2>3, <2>4
<1>11. CASE Control \/ Obey \/ Answer \/ Advance \/ Sample \/ Emit \/ UNCHANGED system_vars
    <2>1. UNCHANGED <<lifecycle, fault_latched, stop_reason, sender>>
        BY <1>11 DEF Control, ControllerUpdate, Obey, Answer, Advance, Sample, Emit, PluginIdle,
                     plugin, latch, sockets, system_vars, vars
    <2>2. UNCHANGED shown_age
        BY <1>11 DEF Control, Obey, Answer, Advance, Sample, Emit, history, system_vars
    <2> QED BY <1>3, <2>1, <2>2
<1>12. CASE Pass
    <2>1. UNCHANGED <<lifecycle, fault_latched, stop_reason, sender>>
        BY <1>12 DEF Pass, PluginIdle, plugin, Tick, latch, sockets
    <2>2. CASE ~fault_latched
        BY <2>1, <2>2 DEF ActiveOK
    <2>3. CASE fault_latched
        <3>1. PICK w \in LossyWheels : w = stop_reason.wheel
            BY <2>1, <2>3 DEF Named
        <3>2. shown_age[w] > FeedbackTimeout /\ stop_reason.cause = "feedback_timeout"
            BY <2>1, <2>3, <3>1 DEF Named
        <3>3. w \in Wheels /\ shown_age[w] \in 0 .. MaxStale /\ FeedbackTimeout \in Nat
              /\ MaxStale \in Nat
            BY <1>1, <3>1, SystemAssumption, AgesType
        <3>4. shown_age'[w] = Stale(shown_age[w])
            BY <1>12, <3>3 DEF Pass
        <3>5. shown_age'[w] > FeedbackTimeout
            BY <3>2, <3>3, <3>4 DEF Stale
        <3> QED BY <2>1, <2>3, <3>1, <3>2, <3>5
    <2> QED BY <2>2, <2>3
<1> QED BY <1>5, <1>6, <1>7, <1>8, <1>9, <1>10, <1>11, <1>12 DEF SystemNext

-----------------------------------------------------------------------------
(***************************************************************************)
(* No motor that is driven waits for its watchdog                          *)
(***************************************************************************)
WaitsFor(w) == \E i \in 1 .. Len(to_motors) : to_motors[i].wheel = w

\* An enabled motor obeyed its last command in this tick or the one before,
\* in this one when the cycle has been written and obeyed.
Driven(w) ==
    /\ ~motors[w].watchdog_stopped
    /\ motors[w].enabled =>
           /\ motors[w].watchdog = CommandWatchdog /\ last_command[w] <= 1
           /\ "cycle" \in done /\ ~WaitsFor(w) => last_command[w] = 0

DrivenOK == \A w \in Wheels : Driven(w)

\* The last of the commands that wait for w.
Latest(i, w) ==
    /\ to_motors[i].wheel = w
    /\ \A j \in 1 .. Len(to_motors) : j > i => to_motors[j].wheel # w

\* What a motor was told last, obeyed or still on its way, is to stop.
Ended(w) ==
    /\ ~WaitsFor(w) => ~motors[w].enabled
    /\ \A i \in 1 .. Len(to_motors) : Latest(i, w) => ~to_motors[i].enabled

EndedOK == ~Live => \A w \in Wheels : Ended(w)

\* Both motors have a command behind all the others.
LEMMA BothWait ==
    ASSUME SystemInv, SystemInv', PluginSteps, Room, NEW enabled \in BOOLEAN,
           BothSent(enabled), NEW w \in Wheels
    PROVE  WaitsFor(w)' /\ (~enabled => Ended(w)')
<1>1. sent' \in Seq(Frame)
    BY DEF SystemInv, TypeOK
<1>2. /\ Len(to_motors') = Len(to_motors) + 2
      /\ Behind(w) \in 1 .. Len(to_motors') /\ Behind(w) > Len(to_motors)
      /\ \A i \in 1 .. Len(to_motors') : to_motors'[i].wheel = w =>
             i \in 1 .. Len(to_motors) \/ i = Behind(w)
      /\ Tells(to_motors'[Behind(w)], w, enabled, sequences'[w])
    BY <1>1, QueueAfterSend
<1> DEFINE b == Behind(w)
<1>3. /\ b \in 1 .. Len(to_motors') /\ to_motors'[b].wheel = w
      /\ to_motors'[b].enabled = enabled
    BY <1>2 DEF Tells
<1>4. WaitsFor(w)'
    BY <1>3 DEF WaitsFor
<1>5. ASSUME NEW i \in 1 .. Len(to_motors'), Latest(i, w)', ~enabled
      PROVE  ~to_motors'[i].enabled
    <2>1. /\ to_motors'[i].wheel = w
          /\ \A j \in 1 .. Len(to_motors') : j > i => to_motors'[j].wheel # w
        BY <1>5 DEF Latest
    <2>2. ~(b > i)
        BY <1>3, <2>1
    <2>3. i = b
        <3>1. CASE i \in 1 .. Len(to_motors)
            BY <1>2, <2>2, <3>1
        <3>2. CASE i = Behind(w)
            BY <3>2
        <3> QED BY <1>2, <2>1, <3>1, <3>2
    <2> QED BY <1>3, <1>5, <2>3
<1>6. ASSUME ~enabled PROVE Ended(w)'
    BY <1>4, <1>5, <1>6 DEF Ended
<1> QED BY <1>4, <1>6

\* A motor that gets a command is driven as that command says.
LEMMA ObeyDrives ==
    ASSUME Nominal, SystemInv, Obey
    PROVE  LET c == Head(to_motors) IN
           /\ c.wheel \in Wheels /\ motors'[c.wheel].enabled = c.enabled
           /\ ~motors'[c.wheel].watchdog_stopped
           /\ motors'[c.wheel].watchdog = CommandWatchdog /\ last_command'[c.wheel] = 0
           /\ \A w \in Wheels \ {c.wheel} : /\ motors'[w] = motors[w]
                                            /\ last_command'[w] = last_command[w]
<1> DEFINE c == Head(to_motors)
<1>1. c \in GoodCommand /\ Motors!Obey(c)
    BY NextCommand, ObeyLosesNothing DEF Obey
<1>2. /\ c \in Motors!Command /\ c.payload = "good" /\ c.wheel \in Wheels
    BY <1>1, GoodCommandType
<1>3. /\ motors' = [motors EXCEPT ![c.wheel] = Motors!Adopted(motors[c.wheel], c)]
      /\ last_command' = [last_command EXCEPT ![c.wheel] = 0]
    BY <1>1, <1>2 DEF Motors!Obey
<1> HIDE DEF c
<1>4. motors \in [Wheels -> Motors!Motor] /\ last_command \in [Wheels -> 0 .. MaxAge]
    BY DEF SystemInv, NodeOK
<1>5. motors[c.wheel] \in Motors!Motor
    BY <1>2, <1>4
<1>6. c.watchdog = CommandWatchdog
    BY <1>2 DEF Motors!Command
<1> DEFINE m == motors[c.wheel]
           n == Motors!Adopted(m, c)
<1>7. n.enabled = c.enabled /\ ~n.watchdog_stopped /\ n.watchdog = CommandWatchdog
    <2> HIDE DEF m
    <2>1. m \in Motors!Motor
        BY <1>5 DEF m
    <2> QED BY <1>2, <1>6, <2>1, MotorFields
            DEF Motors!Adopted, Motors!SetProtocolFault, Motors!AcceptCommand,
                Motors!Disable, Motors!Command
<1>8. motors'[c.wheel] = n /\ last_command'[c.wheel] = 0
    BY <1>2, <1>3, <1>4
<1>9. \A w \in Wheels \ {c.wheel} : motors'[w] = motors[w] /\ last_command'[w] = last_command[w]
    BY <1>3, <1>4
<1> HIDE DEF m, n
<1> QED BY <1>2, <1>7, <1>8, <1>9 DEF c

\* The queue behind the command that is taken.
LEMMA QueueAfterObey ==
    ASSUME SystemInv, Obey
    PROVE  /\ Len(to_motors) \in Nat \ {0} /\ Len(to_motors') = Len(to_motors) - 1
           /\ Head(to_motors) = to_motors[1]
           /\ \A i \in 1 .. Len(to_motors') :
                  i + 1 \in 1 .. Len(to_motors) /\ to_motors'[i] = to_motors[i + 1]
<1>1. /\ to_motors # <<>> /\ to_motors' = Tail(to_motors) /\ to_motors \in Seq(GoodCommand)
    BY DEF Obey, SystemInv, BusOK
<1>2. /\ Len(to_motors') = Len(to_motors) - 1 /\ Len(to_motors) \in Nat \ {0}
      /\ Head(to_motors) = to_motors[1]
      /\ \A i \in 1 .. Len(to_motors) - 1 : to_motors'[i] = to_motors[i + 1]
    BY <1>1, HeadTailProperties, LenProperties, EmptySeq
<1>3. \A i \in 1 .. Len(to_motors') :
          i \in 1 .. Len(to_motors) - 1 /\ i + 1 \in 1 .. Len(to_motors)
    BY <1>2
<1> QED BY <1>2, <1>3

LEMMA ObeyEnds ==
    ASSUME Nominal, SystemInv, Obey, NEW w \in Wheels, Ended(w) PROVE Ended(w)'
<1> DEFINE c == Head(to_motors)
<1>1. /\ Len(to_motors) \in Nat \ {0} /\ Len(to_motors') = Len(to_motors) - 1 /\ c = to_motors[1]
      /\ \A i \in 1 .. Len(to_motors') :
             i + 1 \in 1 .. Len(to_motors) /\ to_motors'[i] = to_motors[i + 1]
    BY QueueAfterObey
<1>2. /\ motors'[c.wheel].enabled = c.enabled
      /\ \A u \in Wheels \ {c.wheel} : motors'[u] = motors[u]
    BY ObeyDrives
<1> HIDE DEF c
<1>3. ASSUME NEW j \in 1 .. Len(to_motors), j > 1
      PROVE  \E i \in 1 .. Len(to_motors') : i + 1 = j /\ to_motors'[i] = to_motors[j]
    <2>1. j - 1 \in 1 .. Len(to_motors') /\ (j - 1) + 1 = j
        BY <1>1, <1>3
    <2> QED BY <1>1, <2>1
<1>4. ASSUME ~WaitsFor(w)' PROVE ~motors'[w].enabled
    <2>1. \A j \in 1 .. Len(to_motors) : j > 1 => to_motors[j].wheel # w
        BY <1>3, <1>4 DEF WaitsFor
    <2>2. CASE c.wheel = w
        <3>1. 1 \in 1 .. Len(to_motors) /\ Latest(1, w)
            BY <1>1, <2>1, <2>2 DEF Latest
        <3> QED BY <1>1, <1>2, <2>2, <3>1 DEF Ended
    <2>3. CASE c.wheel # w
        <3>1. ASSUME NEW j \in 1 .. Len(to_motors) PROVE to_motors[j].wheel # w
            <4>1. j = 1 \/ j > 1
                BY <1>1
            <4> QED BY <1>1, <2>1, <2>3, <4>1
        <3>2. ~WaitsFor(w)
            BY <3>1 DEF WaitsFor
        <3> QED BY <1>2, <2>3, <3>2 DEF Ended
    <2> QED BY <2>2, <2>3
<1>5. ASSUME NEW i \in 1 .. Len(to_motors'), Latest(i, w)' PROVE ~to_motors'[i].enabled
    <2>1. i + 1 \in 1 .. Len(to_motors) /\ to_motors'[i] = to_motors[i + 1]
        BY <1>1
    <2>2. /\ to_motors'[i].wheel = w
          /\ \A k \in 1 .. Len(to_motors') : k > i => to_motors'[k].wheel # w
        BY <1>5 DEF Latest
    <2>3. ASSUME NEW j \in 1 .. Len(to_motors), j > i + 1 PROVE to_motors[j].wheel # w
        <3>1. j > 1
            BY <2>3
        <3>2. PICK k \in 1 .. Len(to_motors') : k + 1 = j /\ to_motors'[k] = to_motors[j]
            BY <1>3, <3>1
        <3>3. k > i
            BY <2>3, <3>2
        <3> QED BY <2>2, <3>2, <3>3
    <2>4. Latest(i + 1, w)
        BY <2>1, <2>2, <2>3 DEF Latest
    <2> QED BY <2>1, <2>4 DEF Ended
<1> QED BY <1>4, <1>5 DEF Ended

\* Commands go to both motors while the robot is live, and stop frames go to
\* both of them when that ends.
LEMMA WhatIsSent ==
    ASSUME Nominal, 1 < SeqMod, SystemInv, FaultInv, InactiveIsClosed, Spare,
           [SystemNext]_system_vars,
           Activate \/ Deactivate \/ BeginRead \/ EndRead \/ WriteCommands \/ Control
    PROVE  /\ Live /\ WriteCommands => Live' /\ Room /\ BothSent(TRUE)
           /\ ~(Live /\ WriteCommands) => NoneSent \/ (Room /\ BothSent(FALSE))
           /\ Live /\ ~Live' => BothSent(FALSE)
<1>1. TypeOK /\ ~SendThrew /\ "send" \notin Faults
    BY QuietFaults DEF SystemInv, Activate, Deactivate, BeginRead, EndRead, WriteCommands,
                       Control, PluginSteps, PluginEnvironment
<1>2. \/ NoneSent
      \/ Room /\ \E enabled \in BOOLEAN :
             BothSent(enabled) /\ (enabled => Live /\ WriteCommands)
    BY <1>1, PluginSends
<1>3. ~(Live /\ WriteCommands) => NoneSent \/ (Room /\ BothSent(FALSE))
    BY <1>2
<1>4. ASSUME Live, WriteCommands PROVE Live' /\ Room /\ BothSent(TRUE)
    <2>1. Write /\ Room /\ sender /\ ~fault_latched
        BY <1>4 DEF WriteCommands, Live
    <2>2. /\ pc = "idle" /\ UNCHANGED sockets
          /\ \E d, stopped \in Outcomes : Drive(d, stopped)
        BY <2>1 DEF Write, MayOperate
    <2>3. PICK d \in Outcomes, stopped \in Outcomes : Drive(d, stopped)
        BY <2>2
    <2>4. BothSent(TRUE) /\ UNCHANGED latch
        BY <1>1, <2>1, <2>2, <2>3, DriveSends, DriveSucceeds
    <2> QED BY <2>1, <2>2, <2>4 DEF latch, sockets, Live
<1>5. ASSUME Live, NEW d \in Outcomes, Transmitted(SafeStop(Link, d)) PROVE BothSent(FALSE)
    <2> DEFINE r == SafeStop(Link, d)
    <2>1. Link \in LinkRecord /\ Link.sent = <<>> /\ Link.open /\ Link.sequences = sequences
        BY <1>1, <1>5, LinkType DEF Link, Live
    <2>2. (r.success => Pair(Link, r, FALSE)) /\ (~r.success => Wasted(Link, r))
        BY <2>1, SafeStopIssues
    <2>3. ~Wasted(Link, r)
        BY <1>1, <1>5, <2>1, WastedThrows
    <2>4. sequences' = r.sequences /\ sent' = r.sent
        BY <1>5 DEF Transmitted
    <2> HIDE DEF r
    <2> QED BY <2>1, <2>2, <2>3, <2>4 DEF Pair, BothSent
<1>6. ASSUME Live, NEW d \in Outcomes, AttemptFaultSafeStop(Link, d) PROVE BothSent(FALSE)
    BY <1>5, <1>6 DEF AttemptFaultSafeStop, Spare, Live
<1>7. ASSUME Live, ~Live' PROVE BothSent(FALSE)
    <2>1. sender /\ receiver /\ ~fault_latched
        BY <1>7 DEF Live, SystemInv, QueueInv
    <2>2. CASE Activate
        BY <2>1, <2>2 DEF InactiveIsClosed, Activate, OnActivate
    <2>3. CASE Deactivate
        <3>1. PICK d \in Outcomes : ReleaseStop(d, "inactive")
            BY <2>3 DEF Deactivate, OnDeactivate, StopAndRelease
        <3> QED BY <1>5, <1>7, <2>1, <3>1 DEF ReleaseStop
    <2>4. CASE BeginRead
        <3>1. UNCHANGED <<latch, sockets>>
            BY <2>1, <2>4 DEF BeginRead, ReadStart, MayOperate
        <3> QED BY <1>7, <3>1 DEF latch, sockets, Live
    <2>5. CASE EndRead
        <3>1. ASSUME NEW reason, AbortRead(reason) PROVE BothSent(FALSE)
            BY <1>6, <1>7, <3>1 DEF AbortRead
        <3>2. CASE ~ReadFault
            <4>1. UNCHANGED <<latch, sockets>>
                BY <2>5, <3>2 DEF EndRead, ReadFinish
            <4> QED BY <1>7, <4>1 DEF latch, sockets, Live
        <3> QED BY <2>5, <3>1, <3>2 DEF EndRead, ReadFinish
    <2>6. CASE WriteCommands
        BY <1>4, <1>7, <2>6
    <2>7. CASE Control
        BY <1>7, <2>7 DEF Control, ControllerUpdate, latch, sockets, Live
    <2> QED BY <2>2, <2>3, <2>4, <2>5, <2>6, <2>7
<1> QED BY <1>3, <1>4, <1>7

\* What the plugin does to one motor: nothing, or a command behind the others.
LEMMA PluginStepsTo ==
    ASSUME Nominal, 1 < SeqMod, SystemInv, FaultInv, InactiveIsClosed, Spare,
           [SystemNext]_system_vars,
           Activate \/ Deactivate \/ BeginRead \/ EndRead \/ WriteCommands \/ Control,
           NEW w \in Wheels
    PROVE  /\ UNCHANGED <<motors, last_command>>
           /\ to_motors' = to_motors \/ WaitsFor(w)'
           /\ ~Live' => (~Live /\ to_motors' = to_motors) \/ Ended(w)'
           /\ Live /\ WriteCommands => WaitsFor(w)' /\ Live'
<1>1. SystemInv' /\ PluginSteps
    BY SystemInvNext DEF Activate, Deactivate, BeginRead, EndRead, WriteCommands, Control
<1>2. UNCHANGED <<motors, last_command>>
    BY <1>1 DEF PluginSteps, NodeIdle, node
<1>3. NoneSent => to_motors' = to_motors
    BY <1>1, NoCommandsMove DEF NoneSent
<1>4. /\ Live /\ WriteCommands => Live' /\ Room /\ BothSent(TRUE)
      /\ ~(Live /\ WriteCommands) => NoneSent \/ (Room /\ BothSent(FALSE))
      /\ Live /\ ~Live' => BothSent(FALSE)
    BY WhatIsSent
<1>5. ~(NoneSent /\ \E enabled : BothSent(enabled))
    <2> SUFFICES ASSUME NoneSent, NEW enabled, BothSent(enabled) PROVE FALSE
        OBVIOUS
    <2>1. Len(sent') = 2 /\ sent' = <<>>
        BY DEF NoneSent, BothSent
    <2> QED BY <2>1
<1>6. Room /\ BothSent(TRUE) => WaitsFor(w)'
    BY <1>1, BothWait
<1>7. Room /\ BothSent(FALSE) => WaitsFor(w)' /\ Ended(w)'
    BY <1>1, BothWait
<1>8. to_motors' = to_motors \/ WaitsFor(w)'
    BY <1>3, <1>4, <1>6, <1>7
<1>9. ~Live' => (~Live /\ to_motors' = to_motors) \/ Ended(w)'
    BY <1>3, <1>4, <1>5, <1>7
<1> QED BY <1>2, <1>4, <1>6, <1>8, <1>9

LEMMA EndedNext ==
    ASSUME Nominal, 1 < SeqMod, SystemInv, FaultInv, InactiveIsClosed, Spare, EndedOK,
           [SystemNext]_system_vars
    PROVE  EndedOK'
<1> SUFFICES ASSUME ~Live', NEW w \in Wheels PROVE Ended(w)'
    BY DEF EndedOK
<1>1. CASE Activate \/ Deactivate \/ BeginRead \/ EndRead \/ WriteCommands \/ Control
    <2>1. UNCHANGED motors /\ ((~Live /\ to_motors' = to_motors) \/ Ended(w)')
        BY <1>1, PluginStepsTo
    <2>2. CASE ~Live /\ to_motors' = to_motors
        BY <2>1, <2>2 DEF EndedOK, Ended, WaitsFor, Latest
    <2> QED BY <2>1, <2>2
<1>2. CASE ReadFrame
    <2>1. UNCHANGED <<fault_latched, sender, to_motors, motors>>
        BY <1>2 DEF ReadFrame, ReceiveAck, ReceiveFeedback, ReceiveIgnored, ReceiveWarning,
                    latch, sockets, NodeIdle, node
    <2> QED BY <2>1 DEF EndedOK, Ended, WaitsFor, Latest, Live
<1>3. ASSUME Obey \/ Answer \/ Advance \/ Sample \/ Emit \/ Pass \/ UNCHANGED system_vars
      PROVE  Ended(w)
    <2>1. UNCHANGED <<fault_latched, sender>>
        BY <1>3 DEF Obey, Answer, Advance, Sample, Emit, Pass, PluginIdle, plugin, Tick, latch,
                    sockets, system_vars, vars
    <2> QED BY <2>1 DEF EndedOK, Live
<1>4. CASE Obey
    BY <1>3, <1>4, ObeyEnds
<1>5. CASE Advance
    <2>1. motors'[w].enabled = motors[w].enabled /\ to_motors' = to_motors
        BY <1>5, AdvanceMotors DEF Advance, bus
    <2>2. Ended(w)
        BY <1>3, <1>5
    <2> QED BY <2>1, <2>2 DEF Ended, WaitsFor, Latest
<1>6. CASE Answer \/ Sample \/ Emit \/ Pass \/ UNCHANGED system_vars
    <2>1. UNCHANGED <<to_motors, motors>>
        BY <1>6 DEF Answer, Sample, Emit, Pass, Motors!Acknowledge, Motors!Sample, Motors!Emit,
                    Motors!Tick, bus, node, system_vars
    <2>2. Ended(w)
        BY <1>3, <1>6
    <2> QED BY <2>1, <2>2 DEF Ended, WaitsFor, Latest
<1> QED BY <1>1, <1>2, <1>4, <1>5, <1>6 DEF SystemNext

\* An update finds no watchdog that has expired.
LEMMA AdvanceDrives ==
    ASSUME Nominal, SystemInv, DrivenOK, Advance, NEW w \in Wheels
    PROVE  Driven(w)'
<1>1. PICK dt \in 1 .. MaxAge, lag \in 0 .. MaxLag : Motors!Advance(dt, lag)
    BY DEF Advance
<1>2. /\ motors' = [u \in Wheels |-> Motors!Update(motors[u], dt, last_command[u] - lag)]
      /\ UNCHANGED last_command
    BY <1>1 DEF Motors!Advance, Motors!Wheels, Wheels
<1> DEFINE m == motors[w]
           since == last_command[w] - lag
<1>3. motors'[w] = Motors!Update(m, dt, since)
    BY <1>2
<1>4. /\ m \in Motors!Motor /\ last_command[w] \in Nat /\ lag \in Nat /\ since \in Int
      /\ dt \in Nat /\ CommandWatchdog \in Nat
    BY SystemAssumption DEF SystemInv, NodeOK
<1>5. Driven(w)
    BY DEF DrivenOK
<1>6. m.enabled => last_command[w] <= 1 /\ m.watchdog = CommandWatchdog
    BY <1>5 DEF Driven
<1>7. 1 <= CommandWatchdog
    BY DEF Nominal
<1>8. ~Motors!WatchdogExpired(m, since)
    BY <1>4, <1>6, <1>7 DEF Motors!WatchdogExpired
<1> HIDE DEF m, since
<1>9. LET n == Motors!Update(m, dt, since) IN
      n.enabled = m.enabled /\ n.watchdog = m.watchdog /\ n.watchdog_stopped = m.watchdog_stopped
    BY <1>4, <1>8, MotorFields DEF Motors!Update
<1>10. /\ motors'[w].enabled = motors[w].enabled /\ motors'[w].watchdog = motors[w].watchdog
       /\ motors'[w].watchdog_stopped = motors[w].watchdog_stopped
    <2>1. m = motors[w]
        BY DEF m
    <2> QED BY <1>3, <1>9, <2>1
<1>11. to_motors' = to_motors /\ ("cycle" \in done' => "cycle" \in done)
    BY DEF Advance, Perform, bus
<1>12. WaitsFor(w)' <=> WaitsFor(w)
    BY <1>11 DEF WaitsFor
<1> QED BY <1>2, <1>5, <1>10, <1>11, <1>12 DEF Driven

LEMMA DrivenNext ==
    ASSUME Nominal, 1 < SeqMod, SystemInv, FaultInv, InactiveIsClosed, Spare, EndedOK,
           DrivenOK, [SystemNext]_system_vars
    PROVE  DrivenOK'
<1> SUFFICES ASSUME NEW w \in Wheels PROVE Driven(w)'
    BY DEF DrivenOK
<1>1. Driven(w)
    BY DEF DrivenOK
<1>2. CASE Activate \/ Deactivate \/ BeginRead \/ EndRead \/ WriteCommands \/ Control
    <2>1. /\ UNCHANGED <<motors, last_command>>
          /\ to_motors' = to_motors \/ WaitsFor(w)'
          /\ ~Live' => (~Live /\ to_motors' = to_motors) \/ Ended(w)'
          /\ Live /\ WriteCommands => WaitsFor(w)' /\ Live'
        BY <1>2, PluginStepsTo
    <2>2. WaitsFor(w) /\ to_motors' = to_motors => WaitsFor(w)'
        BY DEF WaitsFor
    <2>3. CASE WriteCommands
        <3>1. CASE Live
            BY <1>1, <2>1, <2>3, <3>1 DEF Driven
        <3>2. CASE ~Live
            <4>1. WaitsFor(w)' \/ ~motors[w].enabled
                BY <2>1, <2>2, <3>2 DEF EndedOK, Ended
            <4> QED BY <1>1, <2>1, <4>1 DEF Driven
        <3> QED BY <3>1, <3>2
    <2>4. CASE ~WriteCommands
        <3>1. UNCHANGED done
            BY <1>2, <2>4 DEF Activate, Deactivate, BeginRead, EndRead, Control
        <3> QED BY <1>1, <2>1, <2>2, <3>1 DEF Driven
    <2> QED BY <2>3, <2>4
<1>3. CASE Obey
    <2> DEFINE c == Head(to_motors)
    <2>1. /\ c.wheel \in Wheels /\ motors'[c.wheel].enabled = c.enabled
          /\ ~motors'[c.wheel].watchdog_stopped
          /\ motors'[c.wheel].watchdog = CommandWatchdog /\ last_command'[c.wheel] = 0
          /\ \A u \in Wheels \ {c.wheel} : /\ motors'[u] = motors[u]
                                           /\ last_command'[u] = last_command[u]
        BY <1>3, ObeyDrives
    <2>2. /\ Len(to_motors) \in Nat \ {0} /\ Len(to_motors') = Len(to_motors) - 1
          /\ c = to_motors[1]
          /\ \A i \in 1 .. Len(to_motors') :
                 i + 1 \in 1 .. Len(to_motors) /\ to_motors'[i] = to_motors[i + 1]
        BY <1>3, QueueAfterObey
    <2>3. UNCHANGED done
        BY <1>3 DEF Obey
    <2> HIDE DEF c
    <2>4. CASE w = c.wheel
        BY <2>1, <2>4 DEF Driven
    <2>5. CASE w # c.wheel
        <3>1. ASSUME WaitsFor(w) PROVE WaitsFor(w)'
            <4>1. PICK j \in 1 .. Len(to_motors) : to_motors[j].wheel = w
                BY <3>1 DEF WaitsFor
            <4>2. j # 1
                BY <2>2, <2>5, <4>1
            <4>3. j - 1 \in 1 .. Len(to_motors') /\ (j - 1) + 1 = j
                BY <2>2, <4>2
            <4>4. to_motors'[j - 1] = to_motors[j]
                BY <2>2, <4>3
            <4> QED BY <4>1, <4>3, <4>4 DEF WaitsFor
        <3>2. motors'[w] = motors[w] /\ last_command'[w] = last_command[w]
            BY <2>1, <2>5
        <3> QED BY <1>1, <2>3, <3>1, <3>2 DEF Driven
    <2> QED BY <2>4, <2>5
<1>4. CASE Advance
    BY <1>4, AdvanceDrives
<1>5. CASE Pass
    <2>1. /\ done = Duties /\ "cycle" \in done /\ to_motors = <<>> /\ to_motors' = <<>>
          /\ done' = {} /\ UNCHANGED motors
          /\ last_command' = [u \in Wheels |-> Motors!Older(last_command[u])]
        BY <1>5 DEF Pass, OnTime, Nominal, InTime, Motors!Tick, Motors!Wheels, Wheels
    <2>2. ~WaitsFor(w)
        BY <2>1 DEF WaitsFor
    <2>3. CASE motors[w].enabled
        <3>1. last_command[w] = 0
            BY <1>1, <2>1, <2>2, <2>3 DEF Driven
        <3>2. last_command'[w] <= 1
            BY <2>1, <3>1 DEF Motors!Older
        <3> QED BY <1>1, <2>1, <2>3, <3>2 DEF Driven
    <2>4. CASE ~motors[w].enabled
        BY <1>1, <2>1, <2>4 DEF Driven
    <2> QED BY <2>3, <2>4
<1>6. CASE ReadFrame \/ Answer \/ Sample \/ Emit \/ UNCHANGED system_vars
    <2>1. UNCHANGED <<to_motors, motors, last_command>>
        BY <1>6 DEF ReadFrame, NodeIdle, Answer, Sample, Emit, Motors!Acknowledge,
                    Motors!Sample, Motors!Emit, bus, node, system_vars
    <2>2. "cycle" \in done' => "cycle" \in done
        BY <1>6 DEF ReadFrame, Answer, Sample, Emit, Perform, system_vars
    <2>3. WaitsFor(w)' <=> WaitsFor(w)
        BY <2>1 DEF WaitsFor
    <2> QED BY <1>1, <2>1, <2>2, <2>3 DEF Driven
<1> QED BY <1>2, <1>3, <1>4, <1>5, <1>6 DEF SystemNext

-----------------------------------------------------------------------------
(***************************************************************************)
(* The invariant of a robot that loses nothing but feedback                *)
(***************************************************************************)
NominalInv ==
    /\ TrackInv /\ TickOK /\ InStep                   \* the two processes keep step,
    /\ Clean /\ Acks                                  \* every command is answered,
    /\ Feedback /\ Really                             \* the feedback ages are true,
    /\ Spare /\ ActiveOK /\ Named                     \* so that nothing else stops it,
    /\ DrivenOK /\ EndedOK                            \* and no motor waits too long

LEMMA NominalInvInit == SystemInit => NominalInv
<1> SUFFICES ASSUME SystemInit PROVE NominalInv
    OBVIOUS
<1>1. /\ Init /\ ~Live /\ lifecycle = "inactive" /\ ~fault_stop_attempted
      /\ to_motors = <<>> /\ Len(to_motors) = 0
    BY DEF SystemInit, Init, Live
<1>2. TrackInv /\ TickOK /\ InStep
    BY TrackInvInit, TickInit, InStepInit
<1>3. Clean /\ Acks /\ Feedback /\ Really /\ Spare /\ ActiveOK /\ Named
    BY <1>1 DEF Clean, Acks, Feedback, Really, Spare, ActiveOK, Named
<1>4. ASSUME NEW w \in Wheels PROVE ~motors[w].enabled /\ ~motors[w].watchdog_stopped
    BY DEF SystemInit, Motors!Init, Motors!NewMotor, Motors!Wheels, Wheels
<1>5. DrivenOK /\ EndedOK
    BY <1>1, <1>4 DEF DrivenOK, Driven, EndedOK, Ended, WaitsFor
<1> QED BY <1>2, <1>3, <1>5 DEF NominalInv

LEMMA NominalInvNext ==
    ASSUME Nominal, FewPending, NominalInv, [SystemNext]_system_vars PROVE NominalInv'
<1>1. /\ TrackInv /\ TickOK /\ InStep /\ Clean /\ Acks /\ Feedback /\ Really /\ Spare
      /\ ActiveOK /\ Named /\ DrivenOK /\ EndedOK
    BY DEF NominalInv
<1>2. /\ InTime /\ "late" \notin Faults /\ 1 <= MaxStale
    BY QuietFaults DEF Nominal
<1>3. MaxPending < SeqMod /\ 1 < SeqMod
    BY SequenceRange, HardwareAssumption DEF FewPending
<1>4. SystemInv /\ FaultInv /\ InactiveIsClosed
    BY <1>1 DEF TrackInv
<1>5. TrackInv' /\ UnexpectedAckHasCause'
    BY <1>1, <1>3, TrackInvNext DEF TrackInv
<1>6. TickOK' /\ InStep'
    BY <1>1, <1>2, <1>4, TickNext, InStepNext
<1>7. Clean' /\ Acks'
    BY <1>1, <1>4, <1>5, CleanNext, AcksNext
<1>8. Feedback' /\ Really'
    BY <1>1, <1>4, FeedbackNext, ReallyNext
<1>9. Spare'
    BY <1>1, <1>4, SpareNext
<1>10. ActiveOK' /\ Named'
    BY <1>1, <1>3, ActiveNext
<1>11. DrivenOK' /\ EndedOK'
    BY <1>1, <1>3, <1>4, DrivenNext, EndedNext
<1> QED BY <1>5, <1>6, <1>7, <1>8, <1>9, <1>10, <1>11 DEF NominalInv

LEMMA NominalInvariant ==
    ASSUME Nominal, FewPending PROVE SystemSpec => []NominalInv
<1>1. SystemInit => NominalInv
    BY NominalInvInit
<1>2. NominalInv /\ [SystemNext]_system_vars => NominalInv'
    BY NominalInvNext
<1> QED BY <1>1, <1>2, PTL DEF SystemSpec

\* A robot that loses nothing but feedback frames, with everybody on time, is
\* never stopped without need: the only fault read() and write() latch is the
\* feedback timeout of a wheel whose feedback is too old and may get lost, and
\* no motor that is driven is stopped by its command watchdog.
THEOREM OnlySilenceStops ==
    ASSUME Nominal, FewPending PROVE SystemSpec => []NoSpuriousFault
<1>1. NominalInv => NoSpuriousFault
    BY DEF NominalInv, Named, DrivenOK, Driven, NoSpuriousFault
<1> QED BY <1>1, NominalInvariant, PTL

=============================================================================
