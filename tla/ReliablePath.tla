---------------------------- MODULE ReliablePath ----------------------------
(***************************************************************************)
(* A reliable CAN Channel: ReliableChannelEgress on one node,              *)
(* ReliableChannelIngress on another, and the bus between them             *)
(* (src/src/runtime/aster_runtime/transport/can/reliable_channel_bridge.hpp).*)
(*                                                                         *)
(* The writer of either end may reject any frame (its queue is full, or    *)
(* the application gate is closed).  The bus keeps the order of the frames *)
(* of one route, but it loses frames and may repeat one.  A deadline may   *)
(* pass at any time after it is set.                                       *)
(***************************************************************************)
EXTENDS CanReliable

CONSTANTS
  MaxMessages,     \* bound: messages sent in a behaviour
  MaxFragments,    \* bound: fragments of a message (16 in the code)
  MaximumRetries,  \* maximum_retries_
  BusDepth,        \* frames of each direction that can be under way
  MaxDelay,        \* bound: messages sent while an older frame is under way
  MaxRepeats       \* bound: frames the bus repeats

ASSUME PathAssumption ==
  /\ MaxMessages \in Nat /\ MaxFragments \in Nat \ {0} /\ MaximumRetries \in Nat
  /\ BusDepth \in Nat \ {0} /\ MaxDelay \in Nat /\ MaxRepeats \in Nat

VARIABLES
  sender,     \* Egress: sender_
  sequence,   \* Egress: sequence_, for the next message
  sent,       \* the messages begun so far, which number them
  receiver,   \* Ingress: receiver_
  delivered,  \* the message the receiver completed last
  content,    \* the messages whose fragments it was made of
  parity,     \* of the number of messages it completed
  dataBus,    \* frames from the egress to the ingress
  ackBus,     \* acknowledgements under way to the egress
  repeats     \* frames the bus has repeated so far

vars == <<sender, sequence, sent, receiver, delivered, content, parity, dataBus, ackBus, repeats>>

Init ==
  /\ sender = IdleSender /\ sequence = 0 /\ sent = 0
  /\ receiver = IdleReceiver /\ delivered = 0 /\ content = {} /\ parity = 0
  /\ dataBus = <<>> /\ ackBus = <<>> /\ repeats = 0

-----------------------------------------------------------------------------
(* Egress.                                                                 *)

\* Pump writes frames until the writer rejects one or all are written.
Pump(s, k) ==
  /\ k \in 0 .. s.count - s.next
  /\ Len(dataBus) + k <= BusDepth
  /\ dataBus' = dataBus \o NextFrames(s, k)
  /\ sender' = AfterWrites(s, k)

\* The bounds under which messages are sent: frames do not outlive MaxDelay
\* messages.  How long the other end is out of reach is not bounded.
WithinBounds ==
  /\ sent < MaxMessages
  /\ \A i \in 1 .. Len(dataBus) : sent - dataBus[i].message < MaxDelay
  /\ \A i \in 1 .. Len(ackBus) : sent - ackBus[i].message < MaxDelay

\* Send, of a message that is not rate limited and fits.
Send(count, k) ==
  /\ ~SenderBusy(sender)
  /\ WithinBounds
  /\ sent' = sent + 1
  /\ sequence' = NextSequence(sequence)
  /\ Pump(Begin(sequence, sent + 1, count), k)
  /\ UNCHANGED <<receiver, delivered, content, parity, ackBus, repeats>>

\* Poll of a sender that a rejected write has interrupted.
PollSending(k) ==
  /\ sender.state = "kSending"
  /\ Pump(sender, k)
  /\ UNCHANGED <<sequence, sent, receiver, delivered, content, parity, ackBus, repeats>>

\* Poll after the retry deadline: retransmit everything, or give up.
PollDeadline(k) ==
  /\ sender.state = "kWaitingForAck"
  /\ LET s == RetryOrFail(sender, MaximumRetries)
     IN  IF s.state = "kFailed"
           THEN k = 0 /\ sender' = s /\ UNCHANGED dataBus
           ELSE Pump(s, k)
  /\ UNCHANGED <<sequence, sent, receiver, delivered, content, parity, ackBus, repeats>>

\* The bus hands over the frame at the head of a queue, or hands it over and
\* repeats it.
Takes(bus) == bus # <<>>
Leaves(bus, repeat) == IF repeat THEN bus ELSE Tail(bus)
Repeats(repeat) ==
  IF repeat THEN repeats < MaxRepeats /\ repeats' = repeats + 1 ELSE UNCHANGED repeats

AcceptAcknowledgement(repeat) ==
  /\ Takes(ackBus)
  /\ Repeats(repeat) /\ ackBus' = Leaves(ackBus, repeat)
  /\ sender' = HandleAck(sender, Head(ackBus).sequence)
  /\ UNCHANGED <<sequence, sent, receiver, delivered, content, parity, dataBus>>

-----------------------------------------------------------------------------
(* Ingress.                                                                *)

\* The acknowledgement carries the sequence number alone; the message it is for
\* is kept with it only to bound its delay.
AckFor(frame) == [sequence |-> frame.sequence, message |-> frame.message]

\* Accept: the message is published (or dropped as too old) before the
\* acknowledgement is written, and the writer may reject the acknowledgement.
AcceptData(repeat, written) ==
  /\ Takes(dataBus)
  /\ Repeats(repeat) /\ dataBus' = Leaves(dataBus, repeat)
  /\ LET result == Accept(receiver, Head(dataBus))
     IN  /\ receiver' = result.receiver
         /\ IF result.content = {}
              THEN UNCHANGED <<delivered, content, parity>>
              ELSE /\ delivered' = Head(dataBus).message
                   /\ content' = result.content
                   /\ parity' = 1 - parity
         /\ written => result.ack /\ Len(ackBus) < BusDepth
         /\ ackBus' = IF written THEN Append(ackBus, AckFor(Head(dataBus))) ELSE ackBus
  /\ UNCHANGED <<sender, sequence, sent>>

\* Poll after the reassembly deadline.
ExpireReassembly ==
  /\ receiver.active
  /\ receiver' = Reset(receiver)
  /\ UNCHANGED <<sender, sequence, sent, delivered, content, parity, dataBus, ackBus, repeats>>

-----------------------------------------------------------------------------
LoseData ==
  /\ dataBus # <<>> /\ dataBus' = Tail(dataBus)
  /\ UNCHANGED <<sender, sequence, sent, receiver, delivered, content, parity, ackBus, repeats>>

LoseAck ==
  /\ ackBus # <<>> /\ ackBus' = Tail(ackBus)
  /\ UNCHANGED <<sender, sequence, sent, receiver, delivered, content, parity, dataBus, repeats>>

Writes == 0 .. MaxFragments

Next ==
  \/ \E count \in 1 .. MaxFragments, k \in Writes : Send(count, k)
  \/ \E k \in Writes : PollSending(k) \/ PollDeadline(k)
  \/ \E repeat \in BOOLEAN : AcceptAcknowledgement(repeat)
  \/ \E repeat, written \in BOOLEAN : AcceptData(repeat, written)
  \/ ExpireReassembly \/ LoseData \/ LoseAck

\* The executor polls the egress, time passes, the bus moves, and a writer that
\* is tried again and again accepts a frame in the end.  The last is an assumption
\* on the link: while its peer is lost, LinkControl keeps the application gate
\* closed and the writer rejects, and then the sender waits for the gate.
Fairness ==
  /\ SF_vars(\E k \in Writes \ {0} : PollSending(k))
  /\ WF_vars(\E k \in Writes : PollDeadline(k))
  /\ WF_vars(\E repeat, written \in BOOLEAN : AcceptData(repeat, written))

Spec == Init /\ [][Next]_vars /\ Fairness

-----------------------------------------------------------------------------
(* Properties.                                                             *)

\* What the ingress publishes is made of the fragments of one message, although
\* abandoned messages leave fragments behind.  One case is left: a message whose
\* number, after a whole turn of the numbers without a delivery, is that of an
\* incomplete message that no reassembly deadline has removed.
NoTornMessage == \A m \in content : m = delivered \/ delivered - m >= SequenceModulus

\* What the sender knows about the message sent last.
Outcome ==
  CASE SenderBusy(sender) -> "outstanding"
    [] sender.state = "kComplete" -> "acknowledged"
    [] sender.state = "kFailed" -> "failed"
    [] sender.state = "kIdle" -> "none"

Abstract == INSTANCE AcknowledgedChannel WITH outcome <- Outcome, Turn <- SequenceModulus

\* Egress, bus and ingress together keep the promise of AcknowledgedChannel:
\* in order, at most once, and acknowledged only when delivered, or when a whole
\* turn of the numbers went by since the last delivery.
ImplementsChannel == Abstract!Spec

\* A message does not stay under way for ever: the sender ends in kComplete or
\* kFailed after a bounded number of retransmissions, once the writer accepts.
SenderSettles == SenderBusy(sender) ~> ~SenderBusy(sender)

\* An acknowledged message has been delivered: the last step of the channel's
\* promise, stated by itself.
AcknowledgedMeansDelivered == sender.state = "kComplete" => delivered = sent
=============================================================================
