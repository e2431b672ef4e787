---------------------------- MODULE CanReliable ----------------------------
(***************************************************************************)
(* ReliableSender and ReliableReceiver of the CAN transport                *)
(* (src/src/runtime/aster_runtime/transport/can/reliable_path.hpp) as      *)
(* operators on their state.  The modules that own a sender and a receiver *)
(* (ReliablePath, CanRpc) apply them in their actions.                     *)
(*                                                                         *)
(* A message is an abstract value; its fragments carry the message and     *)
(* their index, so that a reassembly which mixes two messages is visible.  *)
(* A receiver serves one route, so the arbitration id is left out.  Time   *)
(* is left to the users: a deadline has passed or has not.                 *)
(***************************************************************************)
EXTENDS Integers, Sequences, Functions

CONSTANT SequenceModulus  \* numbers there are for messages (16 in the code, four bits)

ASSUME SequenceAssumption == SequenceModulus \in Nat /\ SequenceModulus >= 4

SequenceDistance(from, to) == (to - from) % SequenceModulus
NextSequence(sequence) == (sequence + 1) % SequenceModulus

\* A distance above this one, 7 of 16 in the code, is taken for an old message.
ForwardWindow == SequenceModulus \div 2 - 1

NoMessage == 0

-----------------------------------------------------------------------------
(* The sender.  next is the index of the next fragment to write.           *)

IdleSender == [state |-> "kIdle", sequence |-> 0, message |-> NoMessage,
               count |-> 0, next |-> 0, retries |-> 0]

SenderBusy(s) == s.state \in {"kSending", "kWaitingForAck"}

\* Begin, on a sender that is not busy.
Begin(sequence, message, count) ==
  [state |-> "kSending", sequence |-> sequence, message |-> message,
   count |-> count, next |-> 0, retries |-> 0]

\* The frames NextFrame yields while k of them are accepted by the writer.
NextFrames(s, k) ==
  [i \in 1 .. k |-> [sequence |-> s.sequence, index |-> s.next + i - 1,
                     count |-> s.count, message |-> s.message]]

\* The sender after k accepted frames; the frame after them, if there is one,
\* was rejected and OnFrameWrite has rewound to it.
AfterWrites(s, k) ==
  [s EXCEPT !.next = @ + k,
            !.state = IF s.next + k = s.count THEN "kWaitingForAck" ELSE "kSending"]

\* A late, repeated or foreign acknowledgement changes nothing.
HandleAck(s, sequence) ==
  IF s.state = "kWaitingForAck" /\ sequence = s.sequence
    THEN [s EXCEPT !.state = "kComplete"] ELSE s

\* Mutant: the retry budget is never used up.
RetryOrFailUnbounded(s, maximum_retries) ==
  [s EXCEPT !.state = "kSending", !.next = 0,
            !.retries = IF @ < maximum_retries THEN @ + 1 ELSE @]

\* Poll of a waiting sender whose retry deadline has passed.
RetryOrFail(s, maximum_retries) ==
  IF s.retries >= maximum_retries
    THEN [s EXCEPT !.state = "kFailed"]
    ELSE [s EXCEPT !.state = "kSending", !.next = 0, !.retries = @ + 1]

-----------------------------------------------------------------------------
(* The receiver.  parts maps the index of each fragment received to the    *)
(* message it came from; its domain is received_mask_.                     *)

NoParts == [i \in {} |-> NoMessage]

IdleReceiver == [active |-> FALSE, sequence |-> 0, count |-> 0, parts |-> NoParts,
                 completed |-> FALSE, last |-> 0]

Reset(r) == [r EXCEPT !.active = FALSE, !.count = 0, !.parts = NoParts]

ResetPeerHistory(r) == [Reset(r) EXCEPT !.completed = FALSE, !.last = 0]

\* The frame does not belong to the message being reassembled.
Opens(r, frame) == ~r.active \/ r.sequence # frame.sequence

\* PrepareMessage refuses: older than the active message, or than the last one.
OlderThanActive(r, frame) ==
  r.active /\ SequenceDistance(r.sequence, frame.sequence) > ForwardWindow
OlderThanCompleted(r, frame) ==
  r.completed /\ SequenceDistance(r.last, frame.sequence) > ForwardWindow

\* What is being reassembled once the frame's message is known: PrepareMessage
\* has superseded an older reassembly, also when it then refuses the message.
Prepared(r, frame) ==
  IF ~Opens(r, frame) \/ OlderThanActive(r, frame) THEN r
  ELSE IF OlderThanCompleted(r, frame) THEN Reset(r)
  ELSE [r EXCEPT !.active = TRUE, !.sequence = frame.sequence, !.count = frame.count,
                 !.parts = NoParts]

Refused(r, frame) ==
  IF Opens(r, frame)
    THEN OlderThanActive(r, frame) \/ OlderThanCompleted(r, frame)
    ELSE frame.count # r.count \/ frame.index \in DOMAIN r.parts

\* Mutant: a message that was already completed is delivered again.
IsDuplicateNever(r) == FALSE

\* The reassembled message is the one completed last.
IsDuplicate(r) == r.completed /\ r.last = r.sequence

Completed(r) == [Reset(r) EXCEPT !.completed = TRUE, !.last = r.sequence]

\* Every fragment has been received.
Whole(r) == DOMAIN r.parts = 0 .. r.count - 1

\* The fragment of a frame is copied into the reassembly.
WithFragment(r, frame) ==
  [r EXCEPT !.parts = [i \in DOMAIN @ \cup {frame.index} |->
                         IF i = frame.index THEN frame.message ELSE @[i]]]

\* Mutant: fragments are not matched against the message being reassembled.
AcceptAnyFragment(r, frame) ==
  LET with == WithFragment([r EXCEPT !.active = TRUE, !.sequence = frame.sequence,
                                     !.count = frame.count], frame)
  IN  CASE ~Whole(with) -> [receiver |-> with, ack |-> FALSE, content |-> {}]
        [] Whole(with) /\ IsDuplicate(with) ->
             [receiver |-> Reset(with), ack |-> TRUE, content |-> {}]
        [] Whole(with) /\ ~IsDuplicate(with) ->
             [receiver |-> Completed(with), ack |-> TRUE, content |-> Range(with.parts)]

\* AcceptImpl: the receiver afterwards, whether it yields an acknowledgement (for
\* the frame's sequence number), and the messages of whose fragments the message
\* it yields is made; none if it yields no message.
Accept(r, frame) ==
  LET here == Prepared(r, frame)
      with == WithFragment(here, frame)
  IN  CASE Refused(r, frame) ->
             [receiver |-> here, ack |-> FALSE, content |-> {}]
        [] ~Refused(r, frame) /\ ~Whole(with) ->
             [receiver |-> with, ack |-> FALSE, content |-> {}]
        [] ~Refused(r, frame) /\ Whole(with) /\ IsDuplicate(with) ->
             [receiver |-> Reset(with), ack |-> TRUE, content |-> {}]
        [] ~Refused(r, frame) /\ Whole(with) /\ ~IsDuplicate(with) ->
             [receiver |-> Completed(with), ack |-> TRUE, content |-> Range(with.parts)]
=============================================================================
