---------------------- MODULE CanMotorHardware_contract ----------------------
(***************************************************************************)
(* CanMotorHardware implements DriveContract: every callback is an action  *)
(* of the contract or invisible to the motors.  First what the sends of a  *)
(* callback put on the bus, frame by frame, then the mapping.              *)
(***************************************************************************)
EXTENDS CanMotorHardware_safety, SequenceTheorems

-----------------------------------------------------------------------------
(***************************************************************************)
(* Frames without their sequence numbers                                   *)
(***************************************************************************)
BareFrame(f) == [wheel |-> f.wheel, enabled |-> f.enabled, velocity |-> f.velocity]

BareFrames == [wheel : Wheels, enabled : BOOLEAN, velocity : Int]

Bare(s) ==
    [i \in 1 .. Len(s) |-> [ wheel |-> s[i].wheel, enabled |-> s[i].enabled,
                             velocity |-> s[i].velocity ]]

LEMMA BareType ==
    ASSUME NEW s \in Seq(Frame)
    PROVE  Bare(s) \in Seq(BareFrames) /\ Len(Bare(s)) = Len(s)
<1>1. \A f \in Frame : BareFrame(f) \in BareFrames
    BY HardwareAssumption DEF Frame, BareFrame, BareFrames, WireMin
<1>2. \A i \in 1 .. Len(s) : s[i] \in Frame
    BY ElementOfSeq
<1>3. \A i \in 1 .. Len(s) : Bare(s)[i] \in BareFrames
    BY <1>1, <1>2 DEF Bare, BareFrame
<1>4. Len(s) \in Nat /\ Bare(s) = [i \in 1 .. Len(s) |-> Bare(s)[i]]
    BY LenProperties DEF Bare
<1> QED BY <1>3, <1>4, IsASeq

LEMMA BareEmpty == Bare(<<>>) = <<>>
BY DEF Bare

LEMMA BareAppend ==
    ASSUME NEW s \in Seq(Frame), NEW f \in Frame
    PROVE  Bare(Append(s, f)) = Append(Bare(s), BareFrame(f))
<1> DEFINE l == Bare(Append(s, f))
           r == Append(Bare(s), BareFrame(f))
<1>1. BareFrame(f) \in BareFrames
    BY HardwareAssumption DEF Frame, BareFrame, BareFrames, WireMin
<1>2. /\ Append(s, f) \in Seq(Frame) /\ Len(Append(s, f)) = Len(s) + 1
      /\ \A i \in 1 .. Len(s) : Append(s, f)[i] = s[i]
      /\ Append(s, f)[Len(s) + 1] = f /\ Len(s) \in Nat
    BY AppendProperties, LenProperties
<1>3. l \in Seq(BareFrames) /\ Len(l) = Len(s) + 1
    BY <1>2, BareType
<1>4. /\ r \in Seq(BareFrames) /\ Len(r) = Len(s) + 1
      /\ \A i \in 1 .. Len(s) : r[i] = Bare(s)[i]
      /\ r[Len(s) + 1] = BareFrame(f)
    BY <1>1, <1>2, BareType, AppendProperties
<1>5. \A i \in 1 .. Len(s) + 1 : l[i] = BareFrame(Append(s, f)[i])
    BY <1>2 DEF Bare, BareFrame
<1>6. \A i \in 1 .. Len(s) : Bare(s)[i] = BareFrame(s[i])
    BY DEF Bare, BareFrame
<1> HIDE DEF l, r
<1>7. \A i \in 1 .. Len(s) + 1 : l[i] = r[i]
    BY <1>2, <1>4, <1>5, <1>6
<1>8. l = r
    BY <1>3, <1>4, <1>7, SeqEqual
<1> QED BY <1>8 DEF l, r

LEMMA ShortConcat ==
    ASSUME NEW S, NEW q \in Seq(S), NEW a \in S, NEW b \in S
    PROVE  /\ q \o <<>> = q /\ q \o <<a>> = Append(q, a)
           /\ q \o <<a, b>> = Append(Append(q, a), b)
           /\ <<>> \o q = q
           /\ Append(<<>>, a) = <<a>> /\ Append(<<a>>, b) = <<a, b>>
<1>1. q \o <<>> = q /\ <<>> \o q = q
    BY ConcatEmptySeq
<1>2. <<>> \in Seq(S) /\ <<a>> \in Seq(S) /\ <<a, b>> \in Seq(S) /\ <<b>> \in Seq(S)
    OBVIOUS
<1>3. Append(<<>>, a) = <<a>>
    <2>1. Append(<<>>, a) \in Seq(S) /\ Len(Append(<<>>, a)) = 1 /\ Append(<<>>, a)[1] = a
        BY <1>2, AppendProperties
    <2>2. Len(<<a>>) = 1 /\ <<a>>[1] = a
        OBVIOUS
    <2> QED BY <1>2, <2>1, <2>2, SeqEqual
<1>4. Append(<<a>>, b) = <<a, b>>
    <2> DEFINE t == Append(<<a>>, b)
    <2>1. t \in Seq(S) /\ Len(t) = 2 /\ t[1] = a /\ t[2] = b
        BY <1>2, AppendProperties
    <2>2. Len(<<a, b>>) = 2 /\ <<a, b>>[1] = a /\ <<a, b>>[2] = b
        OBVIOUS
    <2> HIDE DEF t
    <2>3. \A i \in 1 .. 2 : t[i] = <<a, b>>[i]
        BY <2>1, <2>2
    <2>4. t = <<a, b>>
        BY <1>2, <2>1, <2>2, <2>3, SeqEqual
    <2> QED BY <2>4 DEF t
<1>5. Append(<<>>, a) = <<a>> /\ Append(<<a>>, b) = <<a, b>>
    BY <1>3, <1>4
<1>6. q \o <<a>> = Append(q, a)
    OBVIOUS
<1>7. Append(q, a) \o <<b>> = Append(Append(q, a), b)
    OBVIOUS
<1>8. <<a, b>> = <<a>> \o <<b>>
    <2>1. <<a>> \o <<b>> = Append(<<a>>, b)
        BY <1>2
    <2> QED BY <1>4, <2>1
<1>9. q \o <<a, b>> = (q \o <<a>>) \o <<b>>
    BY <1>2, <1>8, ConcatAssociative
<1> QED BY <1>1, <1>5, <1>6, <1>7, <1>9

-----------------------------------------------------------------------------
(***************************************************************************)
(* What a send adds to a link                                              *)
(***************************************************************************)
Sends(l, r, w, enabled, v, delivered) ==
    /\ r.open = l.open
    /\ r.success <=> l.open /\ delivered
    /\ r.success => /\ Bare(r.sent) = Append(Bare(l.sent),
                           [ wheel |-> w, enabled |-> enabled,
                             velocity |-> WireVelocity(v) ])
                    /\ r.sequences = [l.sequences EXCEPT ![w] = NextSequence(@)]
    /\ ~r.success => r.sent = l.sent

LEMMA SendCommandSends ==
    ASSUME NEW l \in LinkRecord, NEW w \in Wheels, NEW enabled \in BOOLEAN,
           NEW v \in Int, NEW delivered \in BOOLEAN
    PROVE  Sends(l, SendCommand(l, w, enabled, v, delivered), w, enabled, v, delivered)
<1> DEFINE r == SendCommand(l, w, enabled, v, delivered)
<1>1. CASE ~(l.open /\ delivered)
    BY <1>1 DEF SendCommand, LinkRecord, Sends
<1>2. CASE l.open /\ delivered
    <2> DEFINE f == [wheel |-> w, sequence |-> NextSequence(l.sequences[w]),
                     enabled |-> enabled, velocity |-> WireVelocity(v)]
    <2>1. /\ r.sent = Append(l.sent, f) /\ r.open = l.open /\ r.success = TRUE
          /\ r.sequences = [l.sequences EXCEPT ![w] = NextSequence(@)]
        BY <1>2 DEF SendCommand, LinkRecord
    <2>2. f \in Frame /\ l.sent \in Seq(Frame)
        BY NextSequenceType, WireVelocityType DEF LinkRecord, Frame
    <2>3. BareFrame(f) = [wheel |-> w, enabled |-> enabled, velocity |-> WireVelocity(v)]
        BY DEF BareFrame
    <2> HIDE DEF f, r
    <2>4. Bare(r.sent) = Append(Bare(l.sent), BareFrame(f))
        BY <2>1, <2>2, BareAppend
    <2> QED BY <1>2, <2>1, <2>3, <2>4 DEF Sends, r
<1> QED BY <1>1, <1>2

\* A stop adds one disabled frame for each motor whose send succeeds.
LEMMA SafeStopSends ==
    ASSUME NEW l \in LinkRecord, NEW d \in Outcomes
    PROVE  \E stops \in Contract!Stops :
               /\ Bare(SafeStop(l, d).sent) = Bare(l.sent) \o stops
               /\ SafeStop(l, d).success <=> stops = Contract!BothStopped
               /\ ~l.open => stops = <<>>
<1> DEFINE left == SendCommand(l, 0, FALSE, 0, d[0])
           right == SendCommand(left, 1, FALSE, 0, d[1])
           s == SafeStop(l, d)
           q == Bare(l.sent)
           a == [wheel |-> 0, enabled |-> FALSE, velocity |-> 0]
           b == [wheel |-> 1, enabled |-> FALSE, velocity |-> 0]
<1>0. /\ 0 \in Wheels /\ 1 \in Wheels /\ d[0] \in BOOLEAN /\ d[1] \in BOOLEAN
      /\ 0 \in Int /\ FALSE \in BOOLEAN
    BY DEF Outcomes, Wheels
<1>1. left \in LinkRecord
    BY <1>0, SendCommandType, Zenon
<1>2. right \in LinkRecord
    BY <1>0, <1>1, SendCommandType, Zenon
<1>3. Sends(l, left, 0, FALSE, 0, d[0])
    BY <1>0, SendCommandSends, Zenon
<1>4. Sends(left, right, 1, FALSE, 0, d[1])
    BY <1>0, <1>1, SendCommandSends, Zenon
<1>5. s = [right EXCEPT !.success = left.success /\ right.success]
    BY DEF SafeStop
<1> HIDE DEF left, right, s
<1>6. s.sent = right.sent /\ s.success = (left.success /\ right.success)
    BY <1>2, <1>5 DEF LinkRecord
<1>7. /\ Contract!StopFrame(0) = a /\ Contract!StopFrame(1) = b
      /\ Contract!BothStopped = <<a, b>>
      /\ Contract!Stops = {<<>>, <<a>>, <<b>>, <<a, b>>}
    BY DEF Contract!StopFrame, Contract!BothStopped, Contract!Stops
<1>8. WireVelocity(0) = 0
    BY HardwareAssumption DEF WireVelocity, WireMin
<1>9. q \in Seq(BareFrames) /\ a \in BareFrames /\ b \in BareFrames
    <2>1. l.sent \in Seq(Frame)
        BY DEF LinkRecord
    <2>2. a \in BareFrames /\ b \in BareFrames
        BY <1>0 DEF BareFrames
    <2>3. q \in Seq(BareFrames)
        BY <2>1, BareType
    <2> QED BY <2>2, <2>3
<1> HIDE DEF q, a, b
<1>10. /\ left.open = l.open
       /\ left.success <=> l.open /\ d[0]
       /\ Bare(left.sent) = IF left.success THEN Append(q, a) ELSE q
       /\ right.success <=> l.open /\ d[1]
       /\ Bare(right.sent) = IF right.success THEN Append(Bare(left.sent), b)
                             ELSE Bare(left.sent)
    BY <1>3, <1>4, <1>8 DEF Sends, q, a, b
<1>11. CASE left.success /\ right.success
    <2>1. Bare(s.sent) = q \o <<a, b>>
        BY <1>6, <1>9, <1>10, <1>11, ShortConcat
    <2> QED BY <1>6, <1>7, <1>10, <1>11, <2>1 DEF q, s
<1>12. CASE left.success /\ ~right.success
    <2>1. Bare(s.sent) = Append(q, a)
        BY <1>6, <1>10, <1>12
    <2>2. Bare(s.sent) = q \o <<a>>
        BY <1>9, <2>1, ShortConcat
    <2> QED BY <1>6, <1>7, <1>10, <1>12, <2>2 DEF q, s
<1>13. CASE ~left.success /\ right.success
    <2>1. Bare(s.sent) = q \o <<b>>
        BY <1>6, <1>9, <1>10, <1>13, ShortConcat
    <2>2. <<b>> # <<a, b>>
        OBVIOUS
    <2> QED BY <1>6, <1>7, <1>10, <1>13, <2>1, <2>2 DEF q, s
<1>14. CASE ~left.success /\ ~right.success
    <2>1. Bare(s.sent) = q \o <<>>
        BY <1>6, <1>9, <1>10, <1>14, ShortConcat
    <2> QED BY <1>6, <1>7, <1>10, <1>14, <2>1 DEF q, s
<1> QED BY <1>11, <1>12, <1>13, <1>14

LEMMA AttemptSends ==
    ASSUME NEW l \in LinkRecord, NEW d \in Outcomes, AttemptFaultSafeStop(l, d)
    PROVE  \E stops \in Contract!Stops :
               /\ Bare(sent') = Bare(l.sent) \o stops
               /\ ~l.open \/ fault_stop_attempted => stops = <<>>
<1>1. CASE fault_stop_attempted
    <2>1. sent' = l.sent
        BY <1>1 DEF AttemptFaultSafeStop, Transmitted
    <2>2. Bare(l.sent) \o <<>> = Bare(l.sent)
        BY BareType, ConcatEmptySeq DEF LinkRecord
    <2>3. <<>> \in Contract!Stops
        BY DEF Contract!Stops
    <2> QED BY <1>1, <2>1, <2>2, <2>3
<1>2. CASE ~fault_stop_attempted
    <2>1. sent' = SafeStop(l, d).sent
        BY <1>2 DEF AttemptFaultSafeStop, Transmitted
    <2> QED BY <1>2, <2>1, SafeStopSends
<1> QED BY <1>1, <1>2

\* write() sends both commands, or what had left when a send failed.
LEMMA SendCommandsSend ==
    ASSUME TypeOK, sender, NEW d \in Outcomes
    PROVE  LET l == SendCommands(d) IN
           /\ l.open
           /\ l.success => /\ Bare(l.sent) = <<Contract!DriveFrame(0), Contract!DriveFrame(1)>>
                           /\ \A w \in Wheels : l.sequences[w] = NextSequence(sequences[w])
           /\ ~l.success => Bare(l.sent) \in {<<>>, <<Contract!DriveFrame(0)>>}
<1> DEFINE left == SendCommand(Link, 0, TRUE, commands[0], d[0])
           right == SendCommand(left, 1, TRUE, commands[1], d[1])
           a == [wheel |-> 0, enabled |-> TRUE, velocity |-> WireVelocity(commands[0])]
           b == [wheel |-> 1, enabled |-> TRUE, velocity |-> WireVelocity(commands[1])]
<1>1. /\ commands[0] \in Int /\ commands[1] \in Int
      /\ 0 \in Wheels /\ 1 \in Wheels /\ d[0] \in BOOLEAN /\ d[1] \in BOOLEAN
      /\ TRUE \in BOOLEAN
    BY HardwareAssumption DEF TypeOK, Wheels, Outcomes
<1>2. left \in LinkRecord /\ Link \in LinkRecord
    BY <1>1, LinkType, SendCommandType, Zenon
<1>3. Sends(Link, left, 0, TRUE, commands[0], d[0])
    BY <1>1, <1>2, SendCommandSends, Zenon
<1>4. Sends(left, right, 1, TRUE, commands[1], d[1])
    BY <1>1, <1>2, SendCommandSends, Zenon
<1>5. SendCommands(d) = IF left.success THEN right ELSE left
    BY DEF SendCommands
<1> HIDE DEF left, right
<1>6. /\ Link.open = sender /\ Link.sent = <<>> /\ Link.sequences = sequences
      /\ sequences \in [Wheels -> SequenceNumbers]
    BY DEF Link, TypeOK
<1>7. Contract!DriveFrame(0) = a /\ Contract!DriveFrame(1) = b
    BY DEF Contract!DriveFrame, Contract!Limited, WireVelocity, WireMin
<1>8. a \in BareFrames /\ b \in BareFrames
    BY <1>1, WireVelocityType, HardwareAssumption DEF BareFrames, WireMin
<1>9. <<>> \in Seq(BareFrames) /\ Append(<<>>, a) = <<a>> /\ Append(<<a>>, b) = <<a, b>>
    BY <1>8, ShortConcat, EmptySeq
<1>10. /\ left.open
       /\ left.success <=> d[0]
       /\ left.success => Bare(left.sent) = Append(<<>>, a)
       /\ left.success => left.sequences = [sequences EXCEPT ![0] = NextSequence(@)]
       /\ ~left.success => Bare(left.sent) = <<>>
    BY <1>3, <1>6, BareEmpty DEF Sends
<1>11. /\ right.open
       /\ right.success => Bare(right.sent) = Append(Bare(left.sent), b)
       /\ right.success => right.sequences = [left.sequences EXCEPT ![1] = NextSequence(@)]
       /\ ~right.success => right.sent = left.sent
    BY <1>4, <1>10 DEF Sends
<1> HIDE DEF a, b
<1>12. CASE ~left.success
    BY <1>5, <1>10, <1>12
<1>13. CASE left.success /\ ~right.success
    BY <1>5, <1>7, <1>9, <1>10, <1>11, <1>13
<1>14. CASE left.success /\ right.success
    <2>1. Bare(right.sent) = <<a, b>>
        BY <1>9, <1>10, <1>11, <1>14
    <2>2. \A w \in Wheels : right.sequences[w] = NextSequence(sequences[w])
        BY <1>6, <1>10, <1>11, <1>14 DEF Wheels
    <2> QED BY <1>5, <1>7, <1>11, <1>14, <2>1, <2>2
<1> QED BY <1>12, <1>13, <1>14

-----------------------------------------------------------------------------
(***************************************************************************)
(* The mapping.  What is invisible in the phase has to be known of the     *)
(* plugin: no activation starts over an open socket, and a latch over an   *)
(* open socket has used its one attempt (TrailInv).                        *)
(***************************************************************************)
InactiveIsClosed == lifecycle = "inactive" => ~sender

LEMMA InactiveIsClosedNext ==
    ASSUME InactiveIsClosed, [Next]_vars PROVE InactiveIsClosed'
<1>1. ASSUME NEW success, Returned(success, lifecycle)
      PROVE  lifecycle' = "inactive" => lifecycle = "inactive"
    BY <1>1 DEF Returned
<1>2. CASE OnActivate
    BY <1>2 DEF OnActivate, SocketsUnavailable, SocketsOpened, ActivationFailed,
           Returned, InactiveIsClosed
<1>3. CASE OnDeactivate \/ OnShutdown
    BY <1>3 DEF OnDeactivate, OnShutdown, StopAndRelease, InactiveIsClosed
<1>4. CASE ReadStart \/ ReadStep \/ Write
    BY <1>1, <1>4
       DEF ReadStart, ReadStep, Write, Refuse, SocketMissing, EnterSafeStop, Drive,
           ReceiveIgnored, ReceiveFeedback, ReceiveAck, ReceiveWarning, ReceiveFatal,
           ReceiveException, ReadFinish, AbortRead, sockets, InactiveIsClosed
<1>5. CASE Tick \/ UNCHANGED vars \/ \E w \in Wheels, v \in Velocities : ControllerUpdate(w, v)
    BY <1>5 DEF Tick, ControllerUpdate, vars, sockets, InactiveIsClosed
<1> QED BY <1>2, <1>3, <1>4, <1>5 DEF Next

ContractInv == TypeOK /\ FaultInv /\ TrailInv /\ InactiveIsClosed

LEMMA ContractInvariant == Spec => []ContractInv
<1>1. Init => InactiveIsClosed
    BY DEF Init, InactiveIsClosed
<1>2. Spec => []InactiveIsClosed
    BY <1>1, InactiveIsClosedNext, PTL DEF Spec
<1> QED BY <1>2, TypeCorrect, FaultInvariant, TrailInvariant, PTL DEF ContractInv

Phase == IF fault_latched THEN "stopped"
         ELSE IF sender THEN "operating" ELSE "released"

\* The actions of the contract, in the words of the plugin.
LEMMA MapsQuiet ==
    ASSUME Bare(sent') = <<>>, Phase' = Phase, commands' = commands
    PROVE  Contract!Quiet
BY DEF Contract!Quiet, Phase, Bare

LEMMA MapsActivate ==
    ASSUME Phase # "operating", Bare(sent') \in Contract!Stops,
           Phase' = IF Bare(sent') = Contract!BothStopped THEN "operating" ELSE "stopped",
           commands' = NoCommands
    PROVE  Contract!Activate
BY DEF Contract!Activate, Contract!Still, Contract!Wheels, NoCommands, Wheels, Phase, Bare

LEMMA MapsFault ==
    ASSUME Phase # "stopped", Phase' = "stopped", commands' = NoCommands,
           IF Phase = "operating"
           THEN \E driven \in {<<>>, <<Contract!DriveFrame(0)>>}, stops \in Contract!Stops :
                    Bare(sent') = driven \o stops
           ELSE Bare(sent') = <<>>
    PROVE  Contract!Fault
BY DEF Contract!Fault, Contract!Still, Contract!Wheels, NoCommands, Wheels, Phase, Bare

LEMMA MapsRelease ==
    ASSUME commands' = NoCommands,
           IF Phase = "operating"
           THEN Phase' = "released" /\ Bare(sent') \in Contract!Stops
           ELSE Phase' = Phase /\ Bare(sent') = <<>>
    PROVE  Contract!Release
BY DEF Contract!Release, Contract!Still, Contract!Wheels, NoCommands, Wheels, Phase, Bare

LEMMA MapsCommand ==
    ASSUME Phase = "operating", Phase' = Phase, commands' = commands,
           Bare(sent') = <<Contract!DriveFrame(0), Contract!DriveFrame(1)>>
    PROVE  Contract!Command
BY DEF Contract!Command, Phase, Bare

-----------------------------------------------------------------------------
LEMMA StopsAre ==
    /\ <<>> \in Contract!Stops
    /\ \A s \in Contract!Stops : <<>> \o s = s
<1>1. ASSUME NEW w \in Wheels PROVE Contract!StopFrame(w) \in BareFrames
    BY <1>1 DEF Contract!StopFrame, BareFrames
<1>2. Contract!Stops \subseteq Seq(BareFrames)
    BY <1>1 DEF Contract!Stops, Contract!BothStopped, Wheels
<1> QED BY <1>2, ConcatEmptySeq DEF Contract!Stops

LEMMA StepActivate == ASSUME ContractInv, OnActivate PROVE Contract!Activate
<1>1. Phase # "operating" /\ commands' = NoCommands
    BY DEF ContractInv, InactiveIsClosed, OnActivate, ActivationCommands, Phase
<1>2. CASE SocketsUnavailable
    <2>1. sent' = <<>>
        BY <1>2, LinkType DEF SocketsUnavailable, Transmitted, Link
    <2>2. Phase' = "stopped"
        BY <1>2 DEF SocketsUnavailable, ActivationFailed, Phase
    <2>3. <<>> # Contract!BothStopped
        BY DEF Contract!BothStopped
    <2> QED BY <1>1, <2>1, <2>2, <2>3, BareEmpty, StopsAre, MapsActivate
<1>3. ASSUME NEW d \in Outcomes, SocketsOpened(d) PROVE Contract!Activate
    <2> DEFINE l == SafeStop(FreshLink, d)
    <2>1. FreshLink \in LinkRecord /\ FreshLink.sent = <<>>
        BY FreshLinkType DEF ContractInv, FreshLink, Link
    <2>2. PICK stops \in Contract!Stops :
              /\ Bare(l.sent) = Bare(<<>>) \o stops
              /\ l.success <=> stops = Contract!BothStopped
        BY <2>1, SafeStopSends
    <2>3. sent' = l.sent
        BY <1>3 DEF SocketsOpened, Transmitted
    <2>4. Bare(sent') = stops
        BY <2>2, <2>3, BareEmpty, StopsAre
    <2>5. Phase' = IF l.success THEN "operating" ELSE "stopped"
        BY <1>3 DEF SocketsOpened, ActivationFailed, Phase
    <2> HIDE DEF l
    <2> QED BY <1>1, <2>2, <2>4, <2>5, MapsActivate
<1> QED BY <1>2, <1>3 DEF OnActivate

LEMMA StepRelease ==
    ASSUME ContractInv, NEW next, StopAndRelease(next) PROVE Contract!Release
<1>1. PICK d \in Outcomes : ReleaseStop(d, next)
    BY DEF StopAndRelease
<1>2. /\ Link \in LinkRecord /\ Link.open = sender /\ Link.sent = <<>>
    BY LinkType DEF ContractInv, Link
<1>3. /\ commands' = NoCommands
      /\ Phase' = IF fault_latched THEN "stopped" ELSE "released"
    BY DEF StopAndRelease, Phase
<1>4. CASE fault_latched
    <2>1. PICK stops \in Contract!Stops :
              /\ Bare(sent') = Bare(<<>>) \o stops
              /\ ~sender \/ fault_stop_attempted => stops = <<>>
        BY <1>1, <1>2, <1>4, AttemptSends DEF ReleaseStop
    <2>2. ~sender \/ fault_stop_attempted
        BY <1>4 DEF ContractInv, TrailInv
    <2> QED BY <1>3, <1>4, <2>1, <2>2, BareEmpty, StopsAre, MapsRelease DEF Phase
<1>5. CASE ~fault_latched
    <2>1. sent' = SafeStop(Link, d).sent
        BY <1>1, <1>5 DEF ReleaseStop, Transmitted
    <2>2. PICK stops \in Contract!Stops :
              /\ Bare(sent') = Bare(<<>>) \o stops
              /\ ~sender => stops = <<>>
        BY <1>2, <2>1, SafeStopSends
    <2> QED BY <1>3, <1>5, <2>2, BareEmpty, StopsAre, MapsRelease DEF Phase
<1> QED BY <1>4, <1>5

\* A fault of read(), or of write() before anything was sent.
LEMMA StepFault ==
    ASSUME ContractInv, ~fault_latched, NEW d \in Outcomes, NEW reason,
           AttemptFaultSafeStop(Link, d), EnterSafeStop(reason), UNCHANGED sockets
    PROVE  Contract!Fault
<1>1. /\ Link \in LinkRecord /\ Link.open = sender /\ Link.sent = <<>>
    BY LinkType DEF ContractInv, Link
<1>2. PICK stops \in Contract!Stops :
          /\ Bare(sent') = Bare(<<>>) \o stops
          /\ ~sender \/ fault_stop_attempted => stops = <<>>
    BY <1>1, AttemptSends
<1>3. /\ Phase # "stopped" /\ Phase' = "stopped" /\ commands' = NoCommands
      /\ Phase = "operating" <=> sender
    BY DEF EnterSafeStop, Phase
<1> QED BY <1>2, <1>3, BareEmpty, StopsAre, MapsFault

LEMMA StepMissing ==
    ASSUME ContractInv, MayOperate, NEW cause, SocketMissing(cause)
    PROVE  Contract!Fault
BY StepFault DEF SocketMissing, MayOperate

LEMMA StepAbort ==
    ASSUME ContractInv, NEW reason, AbortRead(reason) PROVE Contract!Fault
<1>1. ~fault_latched
    BY DEF AbortRead, ContractInv, FaultInv
<1> QED BY <1>1, StepFault DEF AbortRead

LEMMA StepDrive ==
    ASSUME ContractInv, MayOperate, sender, UNCHANGED sockets,
           NEW d \in Outcomes, NEW stopped \in Outcomes, Drive(d, stopped)
    PROVE  Contract!Command \/ Contract!Fault
<1> DEFINE l == SendCommands(d)
<1>1. Phase = "operating"
    BY DEF MayOperate, Phase
<1>2. l \in LinkRecord
    BY SendCommandsType DEF ContractInv
<1>3. CASE l.success
    <2>1. /\ sent' = l.sent /\ commands' = commands /\ Phase' = Phase
        BY <1>3 DEF Drive, Transmitted, latch, sockets, Phase
    <2>2. Bare(l.sent) = <<Contract!DriveFrame(0), Contract!DriveFrame(1)>>
        BY <1>3, SendCommandsSend DEF ContractInv
    <2> QED BY <1>1, <2>1, <2>2, MapsCommand
<1>4. CASE ~l.success
    <2>1. AttemptFaultSafeStop(l, stopped)
        BY <1>4 DEF Drive
    <2>2. Phase' = "stopped" /\ commands' = NoCommands
        BY <1>4 DEF Drive, EnterSafeStop, Phase
    <2>3. Bare(l.sent) \in {<<>>, <<Contract!DriveFrame(0)>>}
        BY <1>4, SendCommandsSend DEF ContractInv
    <2>4. PICK stops \in Contract!Stops : Bare(sent') = Bare(l.sent) \o stops
        BY <1>2, <2>1, AttemptSends
    <2> HIDE DEF l
    <2> QED BY <1>1, <2>2, <2>3, <2>4, MapsFault
<1> QED BY <1>3, <1>4

LEMMA ContractStep ==
    ASSUME ContractInv, [Next]_vars PROVE [Contract!Next]_Contract!vars
<1>1. CASE OnActivate
    BY <1>1, StepActivate DEF Contract!Next
<1>2. CASE OnDeactivate \/ OnShutdown
    BY <1>2, StepRelease DEF OnDeactivate, OnShutdown, Contract!Next
<1>3. ASSUME sent' = <<>>, UNCHANGED <<latch, sockets, commands>> PROVE Contract!Next
    <2>1. Phase' = Phase
        BY <1>3 DEF Phase, latch, sockets
    <2> QED BY <1>3, <2>1, BareEmpty, MapsQuiet DEF Contract!Next
<1>4. CASE ReadStart
    BY <1>3, <1>4, StepMissing DEF ReadStart, Refuse, Contract!Next
<1>5. CASE ReceiveIgnored \/ \E w \in Wheels, v \in FeedbackVelocities : ReceiveFeedback(w, v)
    BY <1>3, <1>5 DEF ReceiveIgnored, ReceiveFeedback
<1>6. ASSUME NEW w \in Wheels, NEW seq \in SequenceNumbers, NEW r \in {0, 1},
             ReceiveAck(w, seq, r)
      PROVE  Contract!Next
    <2>1. sent' = <<>> /\ commands' = commands /\ Phase' = Phase
        BY <1>6 DEF ReceiveAck, Phase, sockets
    <2> QED BY <2>1, BareEmpty, MapsQuiet DEF Contract!Next
<1>7. ASSUME NEW mask, ReceiveWarning(mask) PROVE Contract!Next
    BY <1>3, <1>7 DEF ReceiveWarning
<1>8. ASSUME NEW reason, AbortRead(reason) PROVE Contract!Next
    BY <1>8, StepAbort DEF Contract!Next
<1>9. CASE ReceiveException \/ \E mask \in SUBSET ErrorBits : ReceiveFatal(mask)
    BY <1>8, <1>9 DEF ReceiveException, ReceiveFatal
<1>10. CASE ReadFinish
    BY <1>3, <1>8, <1>10 DEF ReadFinish
<1>11. CASE Write
    <2>1. CASE MayOperate /\ sender
        BY <1>11, <2>1, StepDrive DEF Write, Contract!Next
    <2>2. CASE ~(MayOperate /\ sender)
        BY <1>3, <1>11, <2>2, StepMissing DEF Write, Refuse, Contract!Next
    <2> QED BY <2>1, <2>2
<1>12. ASSUME NEW w \in Wheels, NEW v \in Velocities, ControllerUpdate(w, v)
       PROVE  Contract!Next
    <2>1. /\ Bare(sent') = <<>> /\ Phase' = Phase
          /\ commands' = [commands EXCEPT ![w] = v]
        BY <1>12, BareEmpty DEF ControllerUpdate, latch, sockets, Phase
    <2>2. Contract!Want(w, v)
        BY <2>1 DEF Contract!Want, Phase, Bare
    <2> QED BY <2>2 DEF Contract!Next, Contract!Wheels, Wheels
<1>13. CASE Tick
    BY <1>3, <1>13 DEF Tick
<1>14. CASE UNCHANGED vars
    BY <1>14 DEF vars, latch, sockets, Contract!vars
<1> QED BY <1>1, <1>2, <1>4, <1>5, <1>6, <1>7, <1>9, <1>10, <1>11, <1>12, <1>13, <1>14
        DEF Next, ReadStep

\* The plugin keeps its promise to the motors, whatever the bus, the clock,
\* the controllers and the operator do: it implements DriveContract.
THEOREM ContractKept == Spec => KeepsDriveContract
<1>1. Init => Contract!Init
    BY BareEmpty DEF Init, Contract!Init, Contract!Still, Contract!Wheels, NoCommands,
           Wheels, Bare
<1> QED BY <1>1, ContractStep, ContractInvariant, PTL
        DEF Spec, KeepsDriveContract, Contract!Spec
=============================================================================
