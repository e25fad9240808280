--------------------------- MODULE HardwareHealth ---------------------------
(***************************************************************************)
(* class HardwareHealth (hardware_health.hpp): the hardware plugin's       *)
(* record of which command ACKs it still waits for, which safe-stop ACK it *)
(* will ignore, and how long ago each motor sent feedback.  The class is a *)
(* plain value that the plugin owns, so it is modelled as a record and     *)
(* each member function as an operator from a record to a record.          *)
(*                                                                         *)
(* The code stores time points and only ever compares "now - t > timeout". *)
(* Here each stored time point is the age "now - t", advanced by Aged and  *)
(* saturated one above its timeout, where every comparison has settled.    *)
(* stop_sent_ (it only selects a log line) and last_ack_status_ (reported  *)
(* text) are left out.                                                     *)
(***************************************************************************)
EXTENDS Integers, Sequences

CONSTANTS
    SeqMod,           \* number of sequence numbers: 256, the width of uint8_t
    AckTimeout,       \* ack_timeout_ in ticks: 0 if a tick is longer
    FeedbackTimeout   \* feedback_timeout_ in ticks

ASSUME HealthAssumption ==
    /\ SeqMod \in Nat \ {0}
    /\ AckTimeout \in Nat
    /\ FeedbackTimeout \in Nat

Wheels == {0, 1}    \* index 0 is the left motor, 1 the right one

SequenceNumbers == 0 .. SeqMod - 1
NoSequence == -1    \* std::nullopt
AckAge == 0 .. AckTimeout + 1
FeedbackAge == 0 .. FeedbackTimeout + 1

PendingAck == [sequence : SequenceNumbers, age : AckAge]

Health ==
    [ pending      : [Wheels -> Seq(PendingAck)],
      ignored      : [Wheels -> SequenceNumbers \cup {NoSequence}],
      feedback_age : [Wheels -> FeedbackAge],
      ack_fault    : BOOLEAN ]

-----------------------------------------------------------------------------

Reset ==
    [ pending      |-> [w \in Wheels |-> <<>>],
      ignored      |-> [w \in Wheels |-> NoSequence],
      feedback_age |-> [w \in Wheels |-> 0],
      ack_fault    |-> FALSE ]

(* Seeded fault: the new command is queued in front of the older ones.     *)
CommandSentPushFront(h, w, seq) ==
    [h EXCEPT !.pending[w] = <<[sequence |-> seq, age |-> 0]>> \o @]

CommandSent(h, w, seq) ==
    [h EXCEPT !.pending[w] = Append(@, [sequence |-> seq, age |-> 0])]

(* Seeded fault: the ACK of a safe stop is not expected.                   *)
SafeStopSentForgotten(h, w, seq) == h

SafeStopSent(h, w, seq) == [h EXCEPT !.ignored[w] = seq]

(* Seeded fault: any ACK is taken for the one that is waited for.          *)
AnswersFrontAny(h, w, seq) == h.pending[w] # <<>>

(* The ACK answers the oldest command still waiting for one.               *)
AnswersFront(h, w, seq) ==
    /\ h.pending[w] # <<>>
    /\ Head(h.pending[w]).sequence = seq

(* Seeded fault: a refusal and an answer to no command change places.      *)
AckVerdictSwapped(h, w, seq, result) ==
    IF AnswersFront(h, w, seq)
    THEN IF result = 0 THEN "ACCEPTED" ELSE "UNEXPECTED"
    ELSE IF h.ignored[w] = seq THEN "IGNORED" ELSE "REJECTED"

(* The AckStatus that ack_received returns.                                *)
AckVerdict(h, w, seq, result) ==
    IF AnswersFront(h, w, seq)
    THEN IF result = 0 THEN "ACCEPTED" ELSE "REJECTED"
    ELSE IF h.ignored[w] = seq THEN "IGNORED" ELSE "UNEXPECTED"

AckReceived(h, w, seq, result) ==
    LET verdict == AckVerdict(h, w, seq, result) IN
    [h EXCEPT
        !.pending[w] = IF AnswersFront(h, w, seq) THEN Tail(@) ELSE @,
        !.ignored[w] = IF verdict = "IGNORED" THEN NoSequence ELSE @,
        !.ack_fault  = @ \/ verdict \in {"REJECTED", "UNEXPECTED"}]

FeedbackReceived(h, w) == [h EXCEPT !.feedback_age[w] = 0]

(* Seeded fault: the newest entry is examined.                             *)
AckTimedOutNewest(h, w) ==
    /\ h.pending[w] # <<>>
    /\ h.pending[w][Len(h.pending[w])].age > AckTimeout

(* Only the front entry is examined: it is the oldest one.                 *)
AckTimedOut(h, w) ==
    /\ h.pending[w] # <<>>
    /\ Head(h.pending[w]).age > AckTimeout

FeedbackTimedOut(h, w) == h.feedback_age[w] > FeedbackTimeout

-----------------------------------------------------------------------------

Older(age, limit) == IF age > limit THEN age ELSE age + 1

(* One tick of std::chrono::steady_clock.                                  *)
Aged(h) ==
    [h EXCEPT
        !.pending = [w \in Wheels |-> [i \in 1 .. Len(h.pending[w]) |->
            [ sequence |-> h.pending[w][i].sequence,
              age      |-> Older(h.pending[w][i].age, AckTimeout) ]]],
        !.feedback_age = [w \in Wheels |->
            Older(h.feedback_age[w], FeedbackTimeout)]]
=============================================================================
