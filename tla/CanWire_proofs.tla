--------------------------- MODULE CanWire_proofs ---------------------------
(***************************************************************************)
(* For every configuration that is accepted, every velocity, position,     *)
(* sequence number and stranger: what CanWire promises of a delivered      *)
(* frame.  First the codec (what decode makes of what encode wrote), then  *)
(* the identifiers, then the specification.                                *)
(***************************************************************************)
EXTENDS CanWire, TLAPS

-----------------------------------------------------------------------------
(* Division with remainder; a number below 256 is its own lowest byte.     *)
LEMMA Digits ==
    ASSUME NEW v \in Int
    PROVE  /\ v \div 256 \in Int /\ v % 256 \in Byte
           /\ v = 256 * (v \div 256) + (v % 256)
           /\ v \in Byte => v % 256 = v
           /\ v \in -128 .. -1 => v % 256 = v + 256
           /\ v \div 1 = v
           /\ (v \div 256) \div 256 = v \div 65536
           /\ (v \div 65536) \div 256 = v \div 16777216
BY SMT DEF Byte

(* Two bytes carry a 16-bit number, signed or not.                         *)
LEMMA TwoBytes ==
    ASSUME NEW v \in UInt16
    PROVE  /\ Octet(v, 1) \in Byte /\ Octet(v, 256) \in Byte
           /\ Octet(v, 1) + 256 * Octet(v, 256) = v
<1> DEFINE q == v \div 256
<1>1. v \in Int /\ q \in Int
  BY Digits, SMT DEF UInt16
<1>2. v = 256 * q + (v % 256) /\ v % 256 \in 0 .. 255 /\ v \div 1 = v
  BY <1>1, Digits, SMT DEF Byte
<1> HIDE DEF q
<1>3. q \in 0 .. 255
  BY <1>1, <1>2, SMT DEF UInt16
<1>4. q % 256 = q
  BY <1>3, SMT
<1> QED
  BY <1>1, <1>2, <1>3, <1>4, SMT DEF Octet, Byte, q

LEMMA TwoSignedBytes ==
    ASSUME NEW v \in Int16
    PROVE  /\ Octet(v, 1) \in Byte /\ Octet(v, 256) \in Byte
           /\ Octet(v, 256) >= 128 <=> v < 0
           /\ Octet(v, 1) + 256 * Octet(v, 256) = IF v < 0 THEN v + 65536 ELSE v
<1> DEFINE q == v \div 256
           r == v % 256
<1>1. v \in Int /\ q \in Int
  BY Digits, SMT DEF Int16
<1>2. v = 256 * q + r /\ r \in 0 .. 255 /\ v \div 1 = v
  BY <1>1, Digits, SMT DEF Byte
<1> HIDE DEF q, r
<1>3. q \in -128 .. 127
  BY <1>1, <1>2, SMT DEF Int16
<1>4. q % 256 = IF q < 0 THEN q + 256 ELSE q
  BY <1>3, SMT
<1>5. Octet(v, 1) = r /\ Octet(v, 256) = IF q < 0 THEN q + 256 ELSE q
  BY <1>2, <1>4, SMT DEF Octet, q, r
<1> QED
  BY <1>1, <1>2, <1>3, <1>5, SMT DEF Byte

(* Four bytes carry a signed 32-bit number.                                *)
LEMMA FourSignedBytes ==
    ASSUME NEW v \in Int32
    PROVE  /\ Octet(v, 1) \in Byte /\ Octet(v, 256) \in Byte
           /\ Octet(v, 65536) \in Byte /\ Octet(v, 16777216) \in Byte
           /\ Octet(v, 1) + 256 * Octet(v, 256) + 65536 * Octet(v, 65536)
                + 16777216 * (Octet(v, 16777216)
                    - (IF Octet(v, 16777216) >= 128 THEN 256 ELSE 0)) = v
<1> DEFINE q1 == v \div 256
           q2 == q1 \div 256
           q3 == q2 \div 256
<1>1. v \in Int /\ q1 \in Int /\ q2 \in Int /\ q3 \in Int
  BY Digits, SMT DEF Int32
<1>2. /\ v = 256 * q1 + (v % 256) /\ v % 256 \in 0 .. 255
      /\ q1 = 256 * q2 + (q1 % 256) /\ q1 % 256 \in 0 .. 255
      /\ q2 = 256 * q3 + (q2 % 256) /\ q2 % 256 \in 0 .. 255
  BY <1>1, Digits, SMT DEF Byte
<1>3. /\ Octet(v, 1) = v % 256 /\ Octet(v, 256) = q1 % 256
      /\ Octet(v, 65536) = q2 % 256 /\ Octet(v, 16777216) = q3 % 256
  BY <1>1, Digits, SMT DEF Octet
<1> DEFINE r0 == v % 256
           r1 == q1 % 256
           r2 == q2 % 256
           r3 == q3 % 256
<1>4. q3 \in -128 .. 127
  BY <1>1, <1>2, SMT DEF Int32
<1>5. r3 = IF q3 < 0 THEN q3 + 256 ELSE q3
  BY <1>4, SMT
<1> HIDE DEF q1, q2, q3, r0, r1, r2, r3
<1>6. r3 \in 0 .. 255 /\ (r3 >= 128 <=> q3 < 0)
  BY <1>4, <1>5, SMT
<1>7. r3 - (IF r3 >= 128 THEN 256 ELSE 0) = q3
  BY <1>4, <1>5, <1>6, SMT
<1>8. /\ v = 256 * q1 + r0 /\ q1 = 256 * q2 + r1 /\ q2 = 256 * q3 + r2
      /\ r0 \in Byte /\ r1 \in Byte /\ r2 \in Byte /\ r3 \in Byte
  BY <1>2, <1>6 DEF r0, r1, r2, Byte
<1>9. r0 + 256 * r1 + 65536 * r2 + 16777216 * q3 = v
  BY <1>1, <1>8, SMT DEF Byte
<1>10. /\ Octet(v, 1) = r0 /\ Octet(v, 256) = r1
       /\ Octet(v, 65536) = r2 /\ Octet(v, 16777216) = r3
  BY <1>3 DEF r0, r1, r2, r3
<1> QED
  BY <1>7, <1>8, <1>9, <1>10, SMT

LEMMA Saturated ==
    ASSUME NEW v \in Int
    PROVE  /\ ToInt16(v) \in Int16
           /\ v \in Int16 => ToInt16(v) = v
           /\ v > 32767 => ToInt16(v) = 32767
           /\ v < -32768 => ToInt16(v) = -32768
           /\ v >= 0 <=> ToInt16(v) >= 0
BY SMTT(30) DEF ToInt16, Int16

-----------------------------------------------------------------------------
(* decode_command makes of an encoded command what was encoded, with the   *)
(* velocity limited to the wire range.                                     *)
THEOREM CommandRoundTrip ==
    ASSUME NEW s \in Byte, NEW enabled \in BOOLEAN, NEW v \in Int, NEW ms \in UInt16
    PROVE  DecodeCommand(EncodeCommand(s, enabled, v, ms), 8) =
             << [ sequence |-> s, enabled |-> enabled, velocity |-> ToInt16(v),
                  watchdog |-> ms ] >>
<1> DEFINE t == ToInt16(v)
           d == EncodeCommand(s, enabled, v, ms)
<1>1. t \in Int16
  BY Saturated
<1>2. /\ d[1] = s /\ d[2] = (IF enabled THEN 1 ELSE 0)
      /\ d[3] = Octet(t, 1) /\ d[4] = Octet(t, 256)
      /\ d[5] = Octet(ms, 1) /\ d[6] = Octet(ms, 256) /\ d[7] = 0 /\ d[8] = 0
  BY DEF EncodeCommand
<1> HIDE DEF t, d
<1>3. (d[2] % 2 = 1) = enabled
  BY <1>2, SMT
<1>4. GetU16(d, 5) = ms
  BY <1>2, TwoBytes DEF GetU16
<1>5. GetI16(d, 3) = t
  BY <1>1, <1>2, TwoSignedBytes, SMT DEF GetI16, GetU16, Byte, Int16
<1> QED
  BY <1>2, <1>3, <1>4, <1>5 DEF DecodeCommand, d, t

(* decode_feedback gives back what encode_feedback was given.              *)
THEOREM FeedbackRoundTrip ==
    ASSUME NEW f \in Feedback
    PROVE  DecodeFeedback(EncodeFeedback(f), 8) = <<f>>
<1> DEFINE d == EncodeFeedback(f)
<1>1. /\ f.sequence \in Byte /\ f.status \in Byte
      /\ f.velocity \in Int16 /\ f.count \in Int32
      /\ f = [ sequence |-> f.sequence, status |-> f.status,
               velocity |-> f.velocity, count |-> f.count ]
  BY DEF Feedback
<1>2. /\ d[1] = f.sequence /\ d[2] = f.status
      /\ d[3] = Octet(f.velocity, 1) /\ d[4] = Octet(f.velocity, 256)
      /\ d[5] = Octet(f.count, 1) /\ d[6] = Octet(f.count, 256)
      /\ d[7] = Octet(f.count, 65536) /\ d[8] = Octet(f.count, 16777216)
  BY DEF EncodeFeedback
<1> HIDE DEF d
<1>3. GetI16(d, 3) = f.velocity
  BY <1>1, <1>2, TwoSignedBytes, SMT DEF GetI16, GetU16, Byte, Int16
<1>4. GetI32(d, 5) = f.count
  BY <1>1, <1>2, FourSignedBytes, SMT DEF GetI32, GetU16, Byte
<1> QED
  BY <1>1, <1>2, <1>3, <1>4 DEF DecodeFeedback, d

(* decode_ack gives back what encode_ack was given.                        *)
THEOREM AckRoundTrip ==
    ASSUME NEW s \in Byte, NEW r \in Byte
    PROVE  DecodeAck(EncodeAck([sequence |-> s, result |-> r]), 8) =
             << [sequence |-> s, result |-> r] >>
<1> DEFINE d == EncodeAck([sequence |-> s, result |-> r])
<1>1. /\ d[1] = s /\ d[2] = r /\ d[3] = 0 /\ d[4] = 0 /\ d[5] = 0
      /\ d[6] = 0 /\ d[7] = 0 /\ d[8] = 0
  BY DEF EncodeAck
<1> HIDE DEF d
<1>2. \A i \in 3 .. 8 : d[i] = 0
  <2>1. \A i \in 3 .. 8 : i = 3 \/ i = 4 \/ i = 5 \/ i = 6 \/ i = 7 \/ i = 8
    BY SMT
  <2> QED BY <1>1, <2>1
<1> QED
  BY <1>1, <1>2 DEF DecodeAck, d

-----------------------------------------------------------------------------
(***************************************************************************)
(* The identifiers.  A process that was started has two node identifiers;  *)
(* the six identifiers of the robot are then distinct, because those of    *)
(* one kind of frame fill less than 0x80.                                  *)
(***************************************************************************)
Started ==
    /\ node_ids = <<node_ids[1], node_ids[2]>>
    /\ NodeIdsAccepted(node_ids[1], node_ids[2])
    /\ WatchdogAccepted(watchdog) /\ watchdog \in Int

LEMMA Nodes_ ==
    ASSUME Started
    PROVE  /\ NodeOf(0) = node_ids[1] /\ NodeOf(1) = node_ids[2]
           /\ \A w \in Wheels : NodeOf(w) \in 1 .. 127
           /\ NodeOf(0) # NodeOf(1)
           /\ NodeSet = {NodeOf(w) : w \in Wheels}
BY DEF Started, NodeIdsAccepted, NodeOf, NodeSet, Wheels

LEMMA Distinct ==
    ASSUME Started, NEW w \in Wheels, NEW u \in Wheels
    PROVE  /\ CommandId(NodeOf(w)) # FeedbackId(NodeOf(u))
           /\ CommandId(NodeOf(w)) # AckId(NodeOf(u))
           /\ FeedbackId(NodeOf(w)) # AckId(NodeOf(u))
           /\ CommandId(NodeOf(w)) = CommandId(NodeOf(u)) => w = u
           /\ FeedbackId(NodeOf(w)) = FeedbackId(NodeOf(u)) => w = u
           /\ AckId(NodeOf(w)) = AckId(NodeOf(u)) => w = u
<1>1. NodeOf(w) \in 1 .. 127 /\ NodeOf(u) \in 1 .. 127
  BY Nodes_
<1>2. NodeOf(w) = NodeOf(u) => w = u
  BY Nodes_ DEF Wheels
<1> DEFINE a == NodeOf(w)
           b == NodeOf(u)
<1> HIDE DEF a, b
<1>3. a \in 1 .. 127 /\ b \in 1 .. 127
  BY <1>1 DEF a, b
<1>4. /\ 256 + a # 384 + b /\ 256 + a # 640 + b /\ 384 + a # 640 + b
      /\ 256 + a = 256 + b => a = b
      /\ 384 + a = 384 + b => a = b
      /\ 640 + a = 640 + b => a = b
  BY <1>3, SMT
<1> QED
  BY <1>2, <1>4 DEF CommandId, FeedbackId, AckId, a, b

LEMMA OnlyWheel ==
    ASSUME NEW w \in Wheels, NEW ws, ws = {w}
    PROVE  (CHOOSE v \in ws : \A u \in ws : v <= u) = w
<1>1. w \in ws /\ \A u \in ws : w <= u
  BY DEF Wheels
<1>2. (CHOOSE v \in ws : \A u \in ws : v <= u) \in ws
  BY <1>1, Zenon
<1> QED BY <1>2

(* The motor node takes the command frames of its nodes, and only those.   *)
LEMMA MotorsTake ==
    ASSUME Started, NEW f, f.extended \in BOOLEAN, f.remote \in BOOLEAN
    PROVE  /\ \A w \in Wheels :
                  ~f.extended /\ ~f.remote /\ f.identifier = CommandId(NodeOf(w)) =>
                      MotorsDecode(f) = Tagged("command", w, DecodeCommand(f.data, f.dlc))
           /\ f.extended \/ f.remote => MotorsDecode(f) = <<>>
           /\ (\A w \in Wheels : f.identifier # CommandId(NodeOf(w))) =>
                  MotorsDecode(f) = <<>>
<1>1. ASSUME NEW w \in Wheels, ~f.extended, ~f.remote,
             f.identifier = CommandId(NodeOf(w))
      PROVE  MotorsDecode(f) = Tagged("command", w, DecodeCommand(f.data, f.dlc))
  <2> DEFINE ws == {v \in Wheels : f.identifier = CommandId(NodeOf(v))}
  <2>1. ws = {w}
    BY <1>1, Distinct
  <2>2. Passes(VirtualMotorFilters(NodeSet), f)
    BY <1>1, Nodes_ DEF Passes, Admits, VirtualMotorFilters
  <2>3. MotorsDecode(f) =
          IF ws = {} THEN <<>>
          ELSE Tagged("command", CHOOSE v \in ws : \A u \in ws : v <= u,
                      DecodeCommand(f.data, f.dlc))
    BY <1>1, <2>2 DEF MotorsDecode
  <2> HIDE DEF ws
  <2>4. (CHOOSE v \in ws : \A u \in ws : v <= u) = w
    BY <2>1, OnlyWheel
  <2> QED
    BY <2>1, <2>3, <2>4
<1>2. CASE f.extended \/ f.remote
  BY <1>2 DEF MotorsDecode, Passes, Admits
<1>3. CASE \A w \in Wheels : f.identifier # CommandId(NodeOf(w))
  <2>1. {v \in Wheels : f.identifier = CommandId(NodeOf(v))} = {}
    BY <1>3
  <2> QED
    BY <2>1 DEF MotorsDecode
<1> QED
  BY <1>1, <1>2, <1>3

(* The plugin takes the feedback and ACK frames of its nodes, and only     *)
(* those.                                                                  *)
LEMMA HardwareTakes ==
    ASSUME Started, NEW f, f.extended \in BOOLEAN, f.remote \in BOOLEAN
    PROVE  /\ \A w \in Wheels :
                  ~f.extended /\ ~f.remote /\ f.identifier = FeedbackId(NodeOf(w)) =>
                      HardwareDecode(f) = Tagged("feedback", w, DecodeFeedback(f.data, f.dlc))
           /\ \A w \in Wheels :
                  ~f.extended /\ ~f.remote /\ f.identifier = AckId(NodeOf(w)) =>
                      HardwareDecode(f) = Tagged("ack", w, DecodeAck(f.data, f.dlc))
           /\ f.extended \/ f.remote => HardwareDecode(f) = <<>>
           /\ (\A w \in Wheels :
                  f.identifier \notin {FeedbackId(NodeOf(w)), AckId(NodeOf(w))}) =>
                  HardwareDecode(f) = <<>>
<1> DEFINE ws == {v \in Wheels : f.identifier \in {FeedbackId(NodeOf(v)), AckId(NodeOf(v))}}
<1>1. ASSUME NEW w \in Wheels, ~f.extended, ~f.remote,
             f.identifier \in {FeedbackId(NodeOf(w)), AckId(NodeOf(w))}
      PROVE  HardwareDecode(f) =
                 IF f.identifier = FeedbackId(NodeOf(w))
                 THEN Tagged("feedback", w, DecodeFeedback(f.data, f.dlc))
                 ELSE Tagged("ack", w, DecodeAck(f.data, f.dlc))
  <2>1. ws = {w}
    BY <1>1, Distinct
  <2>2. Passes(HardwareFilters(NodeSet), f)
    BY <1>1, Nodes_ DEF Passes, Admits, HardwareFilters
  <2> DEFINE chosen == CHOOSE v \in ws : \A u \in ws : v <= u
  <2>3. HardwareDecode(f) =
          IF ws = {} THEN <<>>
          ELSE IF f.identifier = FeedbackId(NodeOf(chosen))
               THEN Tagged("feedback", chosen, DecodeFeedback(f.data, f.dlc))
               ELSE Tagged("ack", chosen, DecodeAck(f.data, f.dlc))
    BY <1>1, <2>2 DEF HardwareDecode
  <2> HIDE DEF ws
  <2>4. chosen = w
    BY <2>1, OnlyWheel
  <2> HIDE DEF chosen
  <2> QED
    BY <2>1, <2>3, <2>4
<1>2. CASE f.extended \/ f.remote
  BY <1>2 DEF HardwareDecode, Passes, Admits
<1>3. CASE \A w \in Wheels : f.identifier \notin {FeedbackId(NodeOf(w)), AckId(NodeOf(w))}
  <2>1. ws = {}
    BY <1>3
  <2> QED
    BY <2>1 DEF HardwareDecode
<1>4. ASSUME NEW w \in Wheels PROVE FeedbackId(NodeOf(w)) # AckId(NodeOf(w))
  BY Distinct
<1> HIDE DEF ws
<1> QED
  BY <1>1, <1>2, <1>3, <1>4

-----------------------------------------------------------------------------
(***************************************************************************)
(* What a frame on the bus says of what its sender meant, for each kind of *)
(* frame, and what the two processes make of it.                           *)
(***************************************************************************)
CommandOnBus(f, m) ==
    /\ m.kind = "command" /\ m.wheel \in Wheels
    /\ m.sequence \in Byte /\ m.enabled \in BOOLEAN /\ m.velocity \in Commanded
    /\ \E v \in Rounded(m.velocity) :
          f = DataFrame(CommandId(NodeOf(m.wheel)),
                        EncodeCommand(m.sequence, m.enabled, v, watchdog), 8)

FeedbackOf(m) ==
    [ sequence |-> m.sequence, status |-> m.status,
      velocity |-> ToInt16(m.velocity), count |-> EncoderCount(m.position) ]

FeedbackOnBus(f, m) ==
    /\ m.kind = "feedback" /\ m.wheel \in Wheels
    /\ m.sequence \in Byte /\ m.status \in Byte
    /\ m.velocity \in Int /\ m.position \in Int /\ m.dlc \in {7, 8}
    /\ f = DataFrame(FeedbackId(NodeOf(m.wheel)),
                     Cut(EncodeFeedback(FeedbackOf(m)), m.dlc), m.dlc)

AckOnBus(f, m) ==
    /\ m.kind = "ack" /\ m.wheel \in Wheels
    /\ m.sequence \in Byte /\ m.result \in Byte
    /\ f = DataFrame(AckId(NodeOf(m.wheel)),
                     EncodeAck([sequence |-> m.sequence, result |-> m.result]), 8)

StrangerOnBus(f, m) ==
    /\ m.kind = "stranger"
    /\ f.extended \in BOOLEAN /\ f.remote \in BOOLEAN
    /\ \/ f.extended \/ f.remote \/ f.identifier \notin Identifiers
       \/ f.identifier \in {AckId(NodeOf(w)) : w \in Wheels} /\ f.data[8] # 0

OnBus(f, m) ==
    CommandOnBus(f, m) \/ FeedbackOnBus(f, m) \/ AckOnBus(f, m) \/ StrangerOnBus(f, m)

WireInv ==
    /\ node_ids # <<>> => Started
    /\ meant = <<>> => frame = <<>>
    /\ meant # <<>> => node_ids # <<>>
    /\ frame # <<>> => OnBus(frame[1], meant[1])
    /\ CommandArrives /\ FeedbackArrives /\ OthersIgnored

LEMMA ConstantsAre ==
    Numbers \subseteq Byte /\ Velocities \subseteq Int /\ Positions \subseteq Int
BY CanWireAssumption, SMT

(* The values that the properties speak of.                                *)
LEMMA RoundedIs ==
    ASSUME NEW v \in Commanded, NEW r \in Rounded(v)
    PROVE  /\ r \in Int
           /\ v # <<>> => v[1] \in Int /\ ToInt16(r) = ToInt16(v[1])
<1>1. CASE v = <<>>
  BY <1>1, SMT DEF Rounded
<1>2. CASE v # <<>>
  <2>1. PICK x \in Velocities : v = <<x>>
    BY <1>2, SMT DEF Commanded
  <2>2. v[1] \in Int
    BY <2>1, ConstantsAre, SMT
  <2>3. r = ToInt16(v[1])
    BY <1>2, SMT DEF Rounded
  <2>4. r \in Int16
    BY <2>2, <2>3, Saturated, SMT
  <2>5. r \in Int
    BY <2>4, SMT DEF Int16
  <2>6. ToInt16(r) = r
    BY <2>4, <2>5, Saturated, SMT
  <2> QED
    BY <1>2, <2>2, <2>3, <2>5, <2>6, SMT
<1> QED
  BY <1>1, <1>2, SMT

LEMMA CountIs ==
    ASSUME NEW p \in Int
    PROVE  /\ EncoderCount(p) \in Int32
           /\ p \in -CountMax - 1 .. CountMax => EncoderCount(p) = p
           /\ p > CountMax => EncoderCount(p) = CountMax
           /\ p < -CountMax - 1 => EncoderCount(p) = -CountMax - 1
BY CanWireAssumption, SMT DEF EncoderCount, Int32

LEMMA CommandDelivered ==
    ASSUME Started, NEW f, NEW m, CommandOnBus(f, m)
    PROVE  /\ HardwareDecode(f) = <<>>
           /\ \E v \in Int16 :
                 /\ MotorsDecode(f) =
                       <<[ kind |-> "command", wheel |-> m.wheel,
                           value |-> [ sequence |-> m.sequence, enabled |-> m.enabled,
                                       velocity |-> v, watchdog |-> watchdog ] ]>>
                 /\ m.velocity # <<>> => m.velocity[1] \in Int /\ v = ToInt16(m.velocity[1])
<1>1. PICK r \in Rounded(m.velocity) :
          f = DataFrame(CommandId(NodeOf(m.wheel)),
                        EncodeCommand(m.sequence, m.enabled, r, watchdog), 8)
  BY DEF CommandOnBus
<1> DEFINE d == EncodeCommand(m.sequence, m.enabled, r, watchdog)
           v == ToInt16(r)
<1>2. /\ m.wheel \in Wheels /\ m.sequence \in Byte /\ m.enabled \in BOOLEAN
      /\ m.velocity \in Commanded
  BY DEF CommandOnBus
<1>3. /\ r \in Int
      /\ m.velocity # <<>> => m.velocity[1] \in Int /\ v = ToInt16(m.velocity[1])
  BY <1>2, RoundedIs, SMT
<1>4. v \in Int16
  BY <1>3, Saturated, SMT
<1>5. watchdog \in UInt16
  BY SMT DEF Started, WatchdogAccepted, UInt16
<1>6. DecodeCommand(d, 8) =
          << [ sequence |-> m.sequence, enabled |-> m.enabled, velocity |-> v,
               watchdog |-> watchdog ] >>
  BY <1>2, <1>3, <1>5, CommandRoundTrip
<1> HIDE DEF d, v
<1>7. /\ f.identifier = CommandId(NodeOf(m.wheel)) /\ f.data = d /\ f.dlc = 8
      /\ f.extended \in BOOLEAN /\ f.remote \in BOOLEAN /\ ~f.extended /\ ~f.remote
  BY <1>1 DEF DataFrame, d
<1>8. MotorsDecode(f) = Tagged("command", m.wheel, DecodeCommand(d, 8))
  BY <1>2, <1>7, MotorsTake
<1>9. HardwareDecode(f) = <<>>
  <2>1. \A w \in Wheels : f.identifier \notin {FeedbackId(NodeOf(w)), AckId(NodeOf(w))}
    BY <1>2, <1>7, Distinct
  <2> QED
    BY <1>2, <1>7, <2>1, HardwareTakes
<1> QED
  BY <1>3, <1>4, <1>6, <1>8, <1>9 DEF Tagged

LEMMA FeedbackDelivered ==
    ASSUME Started, NEW f, NEW m, FeedbackOnBus(f, m)
    PROVE  /\ MotorsDecode(f) = <<>>
           /\ HardwareDecode(f) =
                 IF m.dlc # 8 THEN <<>>
                 ELSE <<[kind |-> "feedback", wheel |-> m.wheel, value |-> FeedbackOf(m)]>>
<1> DEFINE e == EncodeFeedback(FeedbackOf(m))
           d == Cut(e, m.dlc)
<1>1. /\ m.wheel \in Wheels /\ m.sequence \in Byte /\ m.status \in Byte
      /\ m.velocity \in Int /\ m.position \in Int
  BY DEF FeedbackOnBus
<1>2. FeedbackOf(m) \in Feedback
  BY <1>1, Saturated, CountIs, SMT DEF FeedbackOf, Feedback
<1>3. DecodeFeedback(e, 8) = <<FeedbackOf(m)>>
  BY <1>2, FeedbackRoundTrip
<1>4. m.dlc = 8 => d = e
  BY DEF Cut
<1> HIDE DEF e, d
<1>5. /\ f.identifier = FeedbackId(NodeOf(m.wheel)) /\ f.data = d /\ f.dlc = m.dlc
      /\ f.extended \in BOOLEAN /\ f.remote \in BOOLEAN /\ ~f.extended /\ ~f.remote
  BY DEF FeedbackOnBus, DataFrame, d, e
<1>6. HardwareDecode(f) = Tagged("feedback", m.wheel, DecodeFeedback(d, m.dlc))
  BY <1>1, <1>5, HardwareTakes
<1>7. MotorsDecode(f) = <<>>
  <2>1. \A w \in Wheels : f.identifier # CommandId(NodeOf(w))
    BY <1>1, <1>5, Distinct
  <2> QED
    BY <1>1, <1>5, <2>1, MotorsTake
<1>8. CASE m.dlc = 8
  BY <1>3, <1>4, <1>6, <1>7, <1>8 DEF Tagged
<1>9. CASE m.dlc # 8
  BY <1>6, <1>7, <1>9 DEF Tagged, DecodeFeedback
<1> QED
  BY <1>8, <1>9

LEMMA AckDelivered ==
    ASSUME Started, NEW f, NEW m, AckOnBus(f, m)
    PROVE  /\ MotorsDecode(f) = <<>>
           /\ HardwareDecode(f) =
                 <<[ kind |-> "ack", wheel |-> m.wheel,
                     value |-> [sequence |-> m.sequence, result |-> m.result] ]>>
<1> DEFINE d == EncodeAck([sequence |-> m.sequence, result |-> m.result])
<1>1. m.wheel \in Wheels /\ m.sequence \in Byte /\ m.result \in Byte
  BY DEF AckOnBus
<1>2. DecodeAck(d, 8) = <<[sequence |-> m.sequence, result |-> m.result]>>
  BY <1>1, AckRoundTrip
<1> HIDE DEF d
<1>3. /\ f.identifier = AckId(NodeOf(m.wheel)) /\ f.data = d /\ f.dlc = 8
      /\ f.extended \in BOOLEAN /\ f.remote \in BOOLEAN /\ ~f.extended /\ ~f.remote
  BY DEF AckOnBus, DataFrame, d
<1>4. HardwareDecode(f) = Tagged("ack", m.wheel, DecodeAck(d, 8))
  BY <1>1, <1>3, HardwareTakes
<1>5. MotorsDecode(f) = <<>>
  <2>1. \A w \in Wheels : f.identifier # CommandId(NodeOf(w))
    BY <1>1, <1>3, Distinct
  <2> QED
    BY <1>1, <1>3, <2>1, MotorsTake
<1> QED
  BY <1>2, <1>4, <1>5 DEF Tagged

LEMMA StrangerDelivered ==
    ASSUME Started, NEW f, NEW m, StrangerOnBus(f, m)
    PROVE  MotorsDecode(f) = <<>> /\ HardwareDecode(f) = <<>>
<1>1. f.extended \in BOOLEAN /\ f.remote \in BOOLEAN
  BY DEF StrangerOnBus
<1>2. CASE f.extended \/ f.remote
  BY <1>1, <1>2, MotorsTake, HardwareTakes
<1>3. CASE f.identifier \notin Identifiers
  <2>1. \A w \in Wheels : f.identifier \notin
            {CommandId(NodeOf(w)), FeedbackId(NodeOf(w)), AckId(NodeOf(w))}
    BY <1>3 DEF Identifiers
  <2> QED
    BY <1>1, <2>1, MotorsTake, HardwareTakes
<1>4. ASSUME NEW w \in Wheels, f.identifier = AckId(NodeOf(w)), f.data[8] # 0,
             ~f.extended, ~f.remote
      PROVE  MotorsDecode(f) = <<>> /\ HardwareDecode(f) = <<>>
  <2>1. HardwareDecode(f) = Tagged("ack", w, DecodeAck(f.data, f.dlc))
    BY <1>1, <1>4, HardwareTakes
  <2>2. DecodeAck(f.data, f.dlc) = <<>>
    BY <1>4 DEF DecodeAck
  <2>3. MotorsDecode(f) = <<>>
    <3>1. \A u \in Wheels : f.identifier # CommandId(NodeOf(u))
      BY <1>4, Distinct
    <3> QED
      BY <1>1, <3>1, MotorsTake
  <2> QED
    BY <2>1, <2>2, <2>3 DEF Tagged
<1> QED
  BY <1>2, <1>3, <1>4 DEF StrangerOnBus

-----------------------------------------------------------------------------
(***************************************************************************)
(* The specification                                                       *)
(***************************************************************************)
LEMMA WireInvInit == Init => WireInv
BY SMT DEF Init, WireInv, CommandArrives, FeedbackArrives, OthersIgnored, Delivered

LEMMA WireInvSend == ASSUME WireInv, Send PROVE WireInv'
<1>1. ASSUME NEW f, NEW m, Put(f, m), OnBus(f, m) PROVE WireInv'
  <2>1. /\ frame' = <<f>> /\ meant' = <<m>> /\ UNCHANGED <<node_ids, watchdog>>
    BY <1>1 DEF Put, config
  <2>2. OnBus(f, m)'
    BY <1>1, <2>1 DEF OnBus, CommandOnBus, FeedbackOnBus, AckOnBus, StrangerOnBus,
           Identifiers, NodeOf
  <2>3. Started'
    BY <2>1 DEF WireInv, Send, Started
  <2> QED
    BY <2>1, <2>2, <2>3, SMT DEF WireInv, CommandArrives, FeedbackArrives, OthersIgnored,
           Delivered, Send
<1>2. Numbers \subseteq Byte /\ Velocities \subseteq Int /\ Positions \subseteq Int
  BY ConstantsAre
<1>3. ASSUME NEW w \in Wheels, NEW s \in Numbers, NEW e \in BOOLEAN, NEW v \in Commanded,
             SendCommand(w, s, e, v)
      PROVE  WireInv'
  <2> DEFINE m == [kind |-> "command", wheel |-> w, sequence |-> s, enabled |-> e, velocity |-> v]
  <2>1. PICK r \in Rounded(v) :
            Put(DataFrame(CommandId(NodeOf(w)), EncodeCommand(s, e, r, watchdog), 8), m)
    BY <1>3 DEF SendCommand
  <2> DEFINE f == DataFrame(CommandId(NodeOf(w)), EncodeCommand(s, e, r, watchdog), 8)
  <2>2. CommandOnBus(f, m)
    BY <1>2 DEF CommandOnBus
  <2> HIDE DEF f, m
  <2> QED
    BY <1>1, <2>1, <2>2 DEF OnBus, f, m
<1>4. ASSUME NEW w \in Wheels, NEW s \in Numbers, NEW t \in 0 .. 7, NEW v \in Velocities,
             NEW p \in Positions, NEW dlc \in {7, 8}, SendFeedback(w, s, t, v, p, dlc)
      PROVE  WireInv'
  <2> DEFINE m == [ kind |-> "feedback", wheel |-> w, sequence |-> s, status |-> t,
                    velocity |-> v, position |-> p, dlc |-> dlc ]
             f == DataFrame(FeedbackId(NodeOf(w)),
                            Cut(EncodeFeedback(FeedbackOf(m)), dlc), dlc)
  <2>1. FeedbackOnBus(f, m)
    BY <1>2 DEF FeedbackOnBus, Byte
  <2>2. FeedbackOf(m) = [ sequence |-> s, status |-> t, velocity |-> ToInt16(v),
                          count |-> EncoderCount(p) ]
    BY DEF FeedbackOf
  <2>3. Put(f, m)
    BY <1>4, <2>2 DEF SendFeedback
  <2> HIDE DEF f, m
  <2> QED
    BY <1>1, <2>1, <2>3 DEF OnBus
<1>5. ASSUME NEW w \in Wheels, NEW s \in Numbers, NEW r \in 0 .. 2, SendAck(w, s, r)
      PROVE  WireInv'
  <2> DEFINE m == [kind |-> "ack", wheel |-> w, sequence |-> s, result |-> r]
             f == DataFrame(AckId(NodeOf(w)), EncodeAck([sequence |-> s, result |-> r]), 8)
  <2>1. AckOnBus(f, m)
    BY <1>2 DEF AckOnBus, Byte
  <2>2. Put(f, m)
    BY <1>5 DEF SendAck
  <2> HIDE DEF f, m
  <2> QED
    BY <1>1, <2>1, <2>2 DEF OnBus
<1>6. ASSUME NEW f \in Strangers, SendStranger(f) PROVE WireInv'
  <2> DEFINE m == [kind |-> "stranger"]
  <2>1. StrangerOnBus(f, m) /\ Put(f, m)
    BY <1>6, StrangersAssumption DEF SendStranger, StrangerOnBus
  <2> HIDE DEF m
  <2> QED
    BY <1>1, <2>1 DEF OnBus
<1> QED
  BY <1>3, <1>4, <1>5, <1>6 DEF Send

LEMMA WireInvDeliver == ASSUME WireInv, Deliver PROVE WireInv'
<1> DEFINE f == frame[1]
           m == meant[1]
<1>1. /\ frame' = <<>> /\ UNCHANGED <<node_ids, watchdog, meant>>
      /\ motors_got' = MotorsDecode(f) /\ hardware_got' = HardwareDecode(f)
      /\ meant # <<>> /\ Started /\ OnBus(f, m)
  BY DEF Deliver, WireInv, config
<1>2. Started' /\ (meant = <<>> => frame = <<>>)' /\ (meant # <<>> => node_ids # <<>>)'
  BY <1>1 DEF Started, WireInv
<1> HIDE DEF f
<1>3. CASE CommandOnBus(f, m)
  <2>1. PICK v \in Int16 :
            /\ MotorsDecode(f) =
                  <<[ kind |-> "command", wheel |-> m.wheel,
                      value |-> [ sequence |-> m.sequence, enabled |-> m.enabled,
                                  velocity |-> v, watchdog |-> watchdog ] ]>>
            /\ m.velocity # <<>> => m.velocity[1] \in Int /\ v = ToInt16(m.velocity[1])
    BY <1>1, <1>3, CommandDelivered
  <2>2. HardwareDecode(f) = <<>> /\ m.kind = "command"
    BY <1>1, <1>3, CommandDelivered DEF CommandOnBus
  <2>3. CommandArrives'
    <3>1. m.velocity # <<>> =>
              /\ m.velocity[1] \in Int16 => v = m.velocity[1]
              /\ m.velocity[1] > 32767 => v = 32767
              /\ m.velocity[1] < -32768 => v = -32768
      BY <2>1, Saturated, SMT
    <3> QED
      BY <1>1, <2>1, <2>2, <3>1, SMT DEF CommandArrives
  <2> QED
    BY <1>1, <1>2, <2>2, <2>3, SMT DEF WireInv, FeedbackArrives, OthersIgnored, Delivered
<1>4. CASE FeedbackOnBus(f, m)
  <2>1. /\ m.velocity \in Int /\ m.position \in Int /\ m.kind = "feedback"
    BY <1>4 DEF FeedbackOnBus
  <2>2. /\ MotorsDecode(f) = <<>>
        /\ HardwareDecode(f) = IF m.dlc # 8 THEN <<>>
              ELSE <<[kind |-> "feedback", wheel |-> m.wheel, value |-> FeedbackOf(m)]>>
    BY <1>1, <1>4, FeedbackDelivered
  <2>3. FeedbackArrives'
    <3>1. /\ FeedbackOf(m).sequence = m.sequence /\ FeedbackOf(m).status = m.status
          /\ FeedbackOf(m).velocity = ToInt16(m.velocity)
          /\ FeedbackOf(m).count = EncoderCount(m.position)
      BY DEF FeedbackOf
    <3>2. CASE m.dlc # 8
      BY <1>1, <2>2, <3>2, SMT DEF FeedbackArrives
    <3>3. CASE m.dlc = 8
      <4>1. hardware_got' =
              <<[kind |-> "feedback", wheel |-> m.wheel, value |-> FeedbackOf(m)]>>
        BY <1>1, <2>2, <3>3
      <4>2. /\ m.velocity \in Int16 => ToInt16(m.velocity) = m.velocity
            /\ m.velocity >= 0 <=> ToInt16(m.velocity) >= 0
        BY <2>1, Saturated
      <4> QED
        BY <1>1, <2>1, <2>2, <3>1, <3>3, <4>1, <4>2, CountIs, SMT DEF FeedbackArrives
    <3> QED
      BY <3>2, <3>3
  <2> QED
    BY <1>1, <1>2, <2>1, <2>3, SMT DEF WireInv, CommandArrives, OthersIgnored, Delivered
<1>5. CASE AckOnBus(f, m)
  BY <1>1, <1>2, <1>5, AckDelivered, SMT
     DEF WireInv, AckOnBus, CommandArrives, FeedbackArrives, OthersIgnored, Delivered
<1>6. CASE StrangerOnBus(f, m)
  BY <1>1, <1>2, <1>6, StrangerDelivered, SMT
     DEF WireInv, StrangerOnBus, CommandArrives, FeedbackArrives, OthersIgnored, Delivered
<1> QED
  BY <1>1, <1>3, <1>4, <1>5, <1>6 DEF OnBus

LEMMA WireInvNext == ASSUME WireInv, [Next]_vars PROVE WireInv'
<1>1. ASSUME NEW left \in Nodes, NEW right \in Nodes, NEW ms \in Watchdogs,
             Configure(left, right, ms)
      PROVE  WireInv'
  <2>1. /\ node_ids' = <<left, right>> /\ watchdog' = ms /\ ms \in Int
        /\ NodeIdsAccepted(left, right) /\ WatchdogAccepted(ms)
    BY <1>1, CanWireAssumption, SMT DEF Configure
  <2>2. Started'
    BY <2>1 DEF Started
  <2> QED
    BY <1>1, <2>2, SMT DEF Configure, WireInv, CommandArrives, FeedbackArrives,
           OthersIgnored, Delivered
<1>2. CASE UNCHANGED vars
  <2>1. UNCHANGED <<node_ids, watchdog, frame, meant, motors_got, hardware_got>>
    BY <1>2 DEF vars, config
  <2>2. /\ Started => Started'
        /\ CommandArrives => CommandArrives'
        /\ FeedbackArrives => FeedbackArrives'
        /\ OthersIgnored => OthersIgnored'
    BY <2>1, SMT DEF Started, CommandArrives, FeedbackArrives, OthersIgnored, Delivered
  <2>3. OnBus(frame[1], meant[1]) => OnBus(frame[1], meant[1])'
    BY <2>1 DEF OnBus, CommandOnBus, FeedbackOnBus, AckOnBus, StrangerOnBus,
           Identifiers, NodeOf
  <2> QED
    <3>1. (frame # <<>> => OnBus(frame[1], meant[1]))'
      BY <2>1, <2>3 DEF WireInv
    <3>2. (node_ids # <<>> => Started)'
      BY <2>1, <2>2 DEF WireInv
    <3>3. CommandArrives' /\ FeedbackArrives' /\ OthersIgnored'
      BY <2>2 DEF WireInv
    <3> QED
      BY <2>1, <3>1, <3>2, <3>3 DEF WireInv
<1> QED
  BY <1>1, <1>2, WireInvSend, WireInvDeliver DEF Next

LEMMA WireInvariant == Spec => []WireInv
BY WireInvInit, WireInvNext, PTL DEF Spec

(* A command reaches the wheel it is for, and nobody else, with what the   *)
(* plugin meant: for every accepted configuration and every velocity.      *)
THEOREM CommandsArrive == Spec => []CommandArrives
BY WireInvariant, PTL DEF WireInv

(* Feedback reaches the wheel it is about; what is out of range stays at   *)
(* the limit of its sign; a frame that was cut is not taken.               *)
THEOREM FeedbackIsRight == Spec => []FeedbackArrives
BY WireInvariant, PTL DEF WireInv

(* ACKs reach the plugin as ACKs of their wheel, and no frame of another   *)
(* participant reaches anybody.                                            *)
THEOREM StrangersIgnored == Spec => []OthersIgnored
BY WireInvariant, PTL DEF WireInv
=============================================================================
