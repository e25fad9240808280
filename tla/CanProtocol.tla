----------------------------- MODULE CanProtocol -----------------------------
(***************************************************************************)
(* The codec (can_protocol.hpp) and the receive filters (can_filters.hpp). *)
(* A FrameData is a tuple of eight bytes: byte n of the code is element    *)
(* n + 1.  An std::optional is <<>> or <<value>>.  \div rounds down, so    *)
(* that Octet also yields the bytes of a negative number in two's          *)
(* complement, which is what the casts to an unsigned type do.             *)
(***************************************************************************)
EXTENDS Integers

Byte == 0 .. 255
UInt16 == {n \in Int : 0 <= n /\ n <= 65535}
Int16 == {n \in Int : -32768 <= n /\ n <= 32767}
Int32 == {n \in Int : -2147483647 - 1 <= n /\ n <= 2147483647}
FrameData == Byte \X Byte \X Byte \X Byte \X Byte \X Byte \X Byte \X Byte

Command == [sequence : Byte, enabled : BOOLEAN, velocity : Int16, watchdog : UInt16]
Feedback == [sequence : Byte, status : Byte, velocity : Int16, count : Int32]
Ack == [sequence : Byte, result : Byte]

CommandId(node) == 256 + node    \* 0x100
FeedbackId(node) == 384 + node   \* 0x180
AckId(node) == 640 + node        \* 0x280

-----------------------------------------------------------------------------
Octet(value, weight) == (value \div weight) % 256

GetU16(data, i) == data[i] + 256 * data[i + 1]

\* Seeded fault: the sign bit is not looked at.
GetI16Unsigned(data, i) == GetU16(data, i)

GetI16(data, i) ==
    GetU16(data, i) - (IF data[i + 1] >= 128 THEN 65536 ELSE 0)

GetI32(data, i) ==
    GetU16(data, i) + 65536 * data[i + 2]
        + 16777216 * (data[i + 3] - (IF data[i + 3] >= 128 THEN 256 ELSE 0))

ToInt16(v) == IF v > 32767 THEN 32767 ELSE IF v < -32768 THEN -32768 ELSE v

EncodeCommand(sequence, enabled, velocity, watchdog) ==
    LET v == ToInt16(velocity) IN
    << sequence, IF enabled THEN 1 ELSE 0, Octet(v, 1), Octet(v, 256),
       Octet(watchdog, 1), Octet(watchdog, 256), 0, 0 >>

DecodeCommand(data, dlc) ==
    IF dlc # 8 \/ data[7] # 0 \/ data[8] # 0 THEN <<>>
    ELSE << [ sequence |-> data[1], enabled |-> data[2] % 2 = 1,
              velocity |-> GetI16(data, 3), watchdog |-> GetU16(data, 5) ] >>

EncodeFeedback(f) ==
    << f.sequence, f.status, Octet(f.velocity, 1), Octet(f.velocity, 256),
       Octet(f.count, 1), Octet(f.count, 256), Octet(f.count, 65536),
       Octet(f.count, 16777216) >>

DecodeFeedback(data, dlc) ==
    IF dlc # 8 THEN <<>>
    ELSE << [ sequence |-> data[1], status |-> data[2],
              velocity |-> GetI16(data, 3), count |-> GetI32(data, 5) ] >>

EncodeAck(a) == << a.sequence, a.result, 0, 0, 0, 0, 0, 0 >>

DecodeAck(data, dlc) ==
    IF dlc # 8 \/ \E i \in 3 .. 8 : data[i] # 0 THEN <<>>
    ELSE << [sequence |-> data[1], result |-> data[2]] >>

-----------------------------------------------------------------------------
(***************************************************************************)
(* Filters.  "extended" and "remote" are the EFF and RTR flags, which the  *)
(* mask of exact_standard_filter compares together with the identifier.    *)
(***************************************************************************)
\* Seeded fault: the mask leaves out CAN_EFF_FLAG.
AdmitsExtended(identifier, f) == ~f.remote /\ f.identifier = identifier

Admits(identifier, f) == ~f.extended /\ ~f.remote /\ f.identifier = identifier

HardwareFilters(node_ids) ==
    {FeedbackId(n) : n \in node_ids} \cup {AckId(n) : n \in node_ids}

VirtualMotorFilters(node_ids) == {CommandId(n) : n \in node_ids}

Passes(filters, f) == \E identifier \in filters : Admits(identifier, f)
=============================================================================
