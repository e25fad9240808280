------------------------------- MODULE CanWire -------------------------------
(***************************************************************************)
(* From the launch arguments to the values that the other side decodes:    *)
(* on_init of the plugin and the constructor of the motor node check the   *)
(* configuration they share, then command, feedback and ACK frames cross   *)
(* the bus and each process takes what its filters and its receive         *)
(* function let through.  No frame leaves a trace that the next one could  *)
(* meet, so a behaviour is the way of one frame.  A frame on the bus       *)
(* reaches both processes, the plugin's own commands included: its         *)
(* receiver is another socket than its sender, and make_loopback_sender    *)
(* keeps loopback on.                                                      *)
(*                                                                         *)
(* Velocities are whole mrad/s, a NaN command is <<>>.  Positions are      *)
(* encoder counts.                                                         *)
(***************************************************************************)
EXTENDS CanProtocol, Sequences

CONSTANTS
    Nodes,        \* left_node_id and right_node_id may be any of these
    Watchdogs,    \* command_watchdog_ms may be any of these
    Numbers,      \* sequence numbers, status bytes and ACK results
    Velocities,   \* commanded and simulated velocities
    Positions,    \* simulated positions
    CountMax,     \* the largest encoder count: INT32_MAX
    Strangers     \* frames of other participants

ASSUME CanWireAssumption ==
    /\ Nodes \subseteq Int /\ Watchdogs \subseteq Int
    /\ Numbers \subseteq Byte
    /\ Velocities \subseteq Int /\ Positions \subseteq Int
    /\ CountMax \in Nat \ {0} /\ CountMax <= 2147483647

ASSUME StrangersAssumption ==
    \A f \in Strangers :
        /\ f.identifier \in Nat /\ f.extended \in BOOLEAN
        /\ f.remote \in BOOLEAN /\ f.data \in FrameData /\ f.dlc \in 0 .. 8

Wheels == {0, 1}

VARIABLES
    node_ids,     \* node_ids_ of both processes: <<>> until they started
    watchdog,     \* command_watchdog_ms_
    frame,        \* the frame on the bus, one or none
    meant,        \* history: what its sender was asked to say
    motors_got,   \* what the motor node made of the frame, one or none
    hardware_got  \* what the plugin made of the frame, one or none

config == <<node_ids, watchdog>>
vars == <<config, frame, meant, motors_got, hardware_got>>

Init ==
    /\ node_ids = <<>> /\ watchdog = 0
    /\ frame = <<>> /\ meant = <<>>
    /\ motors_got = <<>> /\ hardware_got = <<>>

-----------------------------------------------------------------------------
(***************************************************************************)
(* Configuration                                                           *)
(***************************************************************************)
\* Seeded fault: any positive uint8_t is taken.
NodeIdsAcceptedWide(left, right) ==
    left \in 1 .. 255 /\ right \in 1 .. 255 /\ left # right

\* The same check in on_init and in the constructor of the motor node.
NodeIdsAccepted(left, right) ==
    left \in 1 .. 127 /\ right \in 1 .. 127 /\ left # right

WatchdogAccepted(ms) == ms > 0 /\ ms <= 65535

\* Both processes are launched with the same arguments; they are not used
\* when either of them refuses its arguments.
Configure(left, right, ms) ==
    /\ node_ids = <<>>
    /\ NodeIdsAccepted(left, right) /\ WatchdogAccepted(ms)
    /\ node_ids' = <<left, right>>
    /\ watchdog' = ms
    /\ UNCHANGED <<frame, meant, motors_got, hardware_got>>

NodeOf(w) == node_ids[w + 1]

-----------------------------------------------------------------------------
(***************************************************************************)
(* Sending                                                                 *)
(***************************************************************************)
DataFrame(identifier, data, dlc) ==
    [ identifier |-> identifier, extended |-> FALSE, remote |-> FALSE,
      data |-> data, dlc |-> dlc ]

Put(f, meaning) ==
    /\ frame' = <<f>> /\ meant' = <<meaning>>
    /\ UNCHANGED <<config, motors_got, hardware_got>>

\* llround(clamp(v)): a NaN passes the clamp, and the value of llround, cut
\* to int32_t, is then unspecified.
Rounded(v) == IF v = <<>> THEN {-2147483647 - 1, -1, 0, 2147483647}
                          ELSE {ToInt16(v[1])}

Commanded == {<<v>> : v \in Velocities} \cup {<<>>}

SendCommand(w, sequence, enabled, v) ==
    \E velocity \in Rounded(v) :
        Put(DataFrame(CommandId(NodeOf(w)),
                      EncodeCommand(sequence, enabled, velocity, watchdog), 8),
            [ kind |-> "command", wheel |-> w, sequence |-> sequence,
              enabled |-> enabled, velocity |-> v ])

\* encoder_count: the count of a long run stays at the limit.
EncoderCount(position) ==
    IF position > CountMax THEN CountMax
    ELSE IF position < -CountMax - 1 THEN -CountMax - 1 ELSE position

\* Fault injection cuts a feedback frame to seven bytes, which the receiver
\* reads into a buffer of zeros.
Cut(data, dlc) == IF dlc = 8 THEN data ELSE [data EXCEPT ![8] = 0]

SendFeedback(w, sequence, status, velocity, position, dlc) ==
    LET f == [ sequence |-> sequence, status |-> status,
               velocity |-> ToInt16(velocity), count |-> EncoderCount(position) ]
    IN  Put(DataFrame(FeedbackId(NodeOf(w)), Cut(EncodeFeedback(f), dlc), dlc),
            [ kind |-> "feedback", wheel |-> w, sequence |-> sequence,
              status |-> status, velocity |-> velocity, position |-> position,
              dlc |-> dlc ])

SendAck(w, sequence, ack_result) ==
    Put(DataFrame(AckId(NodeOf(w)),
                  EncodeAck([sequence |-> sequence, result |-> ack_result]), 8),
        [ kind |-> "ack", wheel |-> w, sequence |-> sequence,
          result |-> ack_result ])

Identifiers == UNION {{CommandId(NodeOf(w)), FeedbackId(NodeOf(w)), AckId(NodeOf(w))}
                      : w \in Wheels}

\* A frame that is none of the six of this robot, or an ACK with a reserved
\* byte set.
SendStranger(f) ==
    /\ \/ f.extended \/ f.remote \/ f.identifier \notin Identifiers
       \/ f.identifier \in {AckId(NodeOf(w)) : w \in Wheels} /\ f.data[8] # 0
    /\ Put(f, [kind |-> "stranger"])

-----------------------------------------------------------------------------
(***************************************************************************)
(* Receiving                                                               *)
(***************************************************************************)
NodeSet == {node_ids[1], node_ids[2]}

Tagged(kind, w, decoded) ==
    IF decoded = <<>> THEN <<>>
    ELSE <<[kind |-> kind, wheel |-> w, value |-> decoded[1]]>>

\* receive_loop
MotorsDecode(f) ==
    IF ~Passes(VirtualMotorFilters(NodeSet), f) \/ f.remote THEN <<>>
    ELSE LET ws == {w \in Wheels : f.identifier = CommandId(NodeOf(w))} IN
         IF ws = {} THEN <<>>
         ELSE LET w == CHOOSE w \in ws : \A u \in ws : w <= u IN
              Tagged("command", w, DecodeCommand(f.data, f.dlc))

\* read: a wheel's feedback identifier is compared before its ACK identifier.
HardwareDecode(f) ==
    IF ~Passes(HardwareFilters(NodeSet), f) \/ f.remote THEN <<>>
    ELSE LET ws == {w \in Wheels : f.identifier \in
                        {FeedbackId(NodeOf(w)), AckId(NodeOf(w))}} IN
         IF ws = {} THEN <<>>
         ELSE LET w == CHOOSE w \in ws : \A u \in ws : w <= u IN
              IF f.identifier = FeedbackId(NodeOf(w))
              THEN Tagged("feedback", w, DecodeFeedback(f.data, f.dlc))
              ELSE Tagged("ack", w, DecodeAck(f.data, f.dlc))

Deliver ==
    /\ frame # <<>> /\ frame' = <<>>
    /\ motors_got' = MotorsDecode(frame[1])
    /\ hardware_got' = HardwareDecode(frame[1])
    /\ UNCHANGED <<config, meant>>

Send ==
    /\ node_ids # <<>> /\ meant = <<>>
    /\ \/ \E w \in Wheels, sequence \in Numbers, enabled \in BOOLEAN,
             v \in Commanded : SendCommand(w, sequence, enabled, v)
       \/ \E w \in Wheels, sequence \in Numbers, status \in 0 .. 7,
             velocity \in Velocities, position \in Positions, dlc \in {7, 8} :
                 SendFeedback(w, sequence, status, velocity, position, dlc)
       \/ \E w \in Wheels, sequence \in Numbers, ack_result \in 0 .. 2 :
              SendAck(w, sequence, ack_result)
       \/ \E f \in Strangers : SendStranger(f)

Next ==
    \/ \E left, right \in Nodes, ms \in Watchdogs : Configure(left, right, ms)
    \/ Send
    \/ Deliver

Spec == Init /\ [][Next]_vars

-----------------------------------------------------------------------------
(***************************************************************************)
(* Properties                                                              *)
(***************************************************************************)
Delivered(kind) == frame = <<>> /\ meant # <<>> /\ meant[1].kind = kind

\* A command reaches the wheel it is for, and nobody else, with the enable
\* bit, the velocity limited to the wire range and the watchdog of the
\* configuration; a NaN reaches it as some velocity of the wire range.
CommandArrives ==
    Delivered("command") =>
        /\ hardware_got = <<>>
        /\ motors_got # <<>>
        /\ LET m == meant[1]  g == motors_got[1] IN
           /\ g.wheel = m.wheel
           /\ g.value.sequence = m.sequence /\ g.value.enabled = m.enabled
           /\ g.value.watchdog = watchdog
           /\ IF m.velocity = <<>> THEN g.value.velocity \in Int16
              ELSE /\ m.velocity[1] \in Int16 => g.value.velocity = m.velocity[1]
                   /\ m.velocity[1] > 32767 => g.value.velocity = 32767
                   /\ m.velocity[1] < -32768 => g.value.velocity = -32768

\* Feedback reaches the wheel it is about with velocity and encoder count:
\* out of range they stay at the limit of their sign instead of jumping to
\* the other end.  A frame that was cut short is not taken.
FeedbackArrives ==
    Delivered("feedback") =>
        /\ motors_got = <<>>
        /\ (hardware_got = <<>>) <=> (meant[1].dlc # 8)
        /\ hardware_got # <<>> =>
           LET m == meant[1]  g == hardware_got[1] IN
           /\ g.kind = "feedback" /\ g.wheel = m.wheel
           /\ g.value.sequence = m.sequence /\ g.value.status = m.status
           /\ m.velocity \in Int16 => g.value.velocity = m.velocity
           /\ m.velocity >= 0 <=> g.value.velocity >= 0
           /\ m.position \in -CountMax - 1 .. CountMax =>
                  g.value.count = m.position
           /\ m.position > CountMax => g.value.count = CountMax
           /\ m.position < -CountMax - 1 => g.value.count = -CountMax - 1

\* An ACK reaches the plugin as the ACK of the wheel that sent it; frames of
\* other participants (another identifier, an extended or remote frame, a
\* reserved byte that is set) reach neither process.
OthersIgnored ==
    /\ Delivered("ack") =>
           /\ motors_got = <<>> /\ hardware_got # <<>>
           /\ LET m == meant[1]  g == hardware_got[1] IN
              /\ g.kind = "ack" /\ g.wheel = m.wheel
              /\ g.value.sequence = m.sequence /\ g.value.result = m.result
    /\ Delivered("stranger") => motors_got = <<>> /\ hardware_got = <<>>
=============================================================================
