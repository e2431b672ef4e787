------------------------------ MODULE FastPath ------------------------------
(***************************************************************************)
(* A best-effort CAN Channel: FastChannelEgress on one node, FastCodec's   *)
(* frames on the bus and the FastReassembler of FastChannelIngress on      *)
(* another (src/src/runtime/aster_runtime/transport/can/channel_bridge.hpp *)
(* and fast_path.hpp).                                                     *)
(*                                                                         *)
(* A sample of one frame has no fragment header; a larger one is cut into  *)
(* fragments.  Frames carry the sample they belong to, so that a mixed     *)
(* reassembly is visible.  The bus keeps the order, loses frames and may   *)
(* repeat one; the writer may reject a frame in the middle of a sample.    *)
(***************************************************************************)
EXTENDS Integers, Sequences

CONSTANTS
  SequenceModulus, \* numbers there are for samples (64 in the code, six bits)
  MaxSamples,      \* bound: samples sent in a behaviour
  MaxFragments,    \* bound: fragments of a sample (16 in the code)
  BusDepth,        \* frames that can be under way
  MaxFaults        \* bound: frames the writer rejects or the bus repeats

ASSUME FastAssumption ==
  /\ MaxSamples \in Nat /\ MaxFragments \in Nat \ {0} /\ BusDepth \in Nat \ {0}
  /\ MaxFaults \in Nat /\ SequenceModulus \in Nat /\ SequenceModulus >= 4

VARIABLES
  sequence,    \* Egress: sequence_
  sent,        \* the samples given to Send so far, which number them
  bus,         \* frames under way
  reassembly,  \* FastReassembler: active_, sequence_, fragment_count_, parts
  history,     \* FastReassembler: has_last_sequence_ and last_sequence_
  delivered,   \* the sample completed last
  content,     \* the samples whose fragments it was made of
  parity,      \* of the number of samples completed
  seen,        \* the fragments of the newest sample that reached the reassembler
  rejections, repeats

vars == <<sequence, sent, bus, reassembly, history, delivered, content, parity, seen, rejections, repeats>>

\* A distance above the window, 31 of 64 in the code, is taken for an old sample.
ForwardWindow == SequenceModulus \div 2 - 1
SequenceDistance(from, to) == (to - from) % SequenceModulus

NoParts == [i \in {} |-> 0]
Inactive == [active |-> FALSE, sequence |-> 0, count |-> 0, parts |-> NoParts]

Init ==
  /\ sequence = 0 /\ sent = 0 /\ bus = <<>>
  /\ reassembly = Inactive /\ history = [known |-> FALSE, last |-> 0]
  /\ delivered = 0 /\ content = {} /\ parity = 0
  /\ seen = [sample |-> 0, count |-> 1, parts |-> {}]
  /\ rejections = 0 /\ repeats = 0

-----------------------------------------------------------------------------
(* Egress.                                                                 *)

\* FastCodec::Encode, the first k frames of a sample.
Encode(number, sample, count, k) ==
  [i \in 1 .. k |-> [sequence |-> number, index |-> i - 1, count |-> count, sample |-> sample]]

\* Send writes the frames in turn.  When the writer rejects one, Send returns at
\* once: the frames already written stay written and sequence_ does not advance.
Send(count, k) ==
  /\ sent < MaxSamples
  /\ k <= count /\ Len(bus) + k <= BusDepth
  /\ sent' = sent + 1
  /\ bus' = bus \o Encode(sequence, sent + 1, count, k)
  /\ sequence' = IF k = count THEN (sequence + 1) % SequenceModulus ELSE sequence
  /\ rejections' = rejections + (IF k < count THEN 1 ELSE 0)
  /\ rejections' + repeats <= MaxFaults
  /\ UNCHANGED <<reassembly, history, delivered, content, parity, seen, repeats>>

-----------------------------------------------------------------------------
(* FastReassembler.                                                        *)

IsSingle(frame) == frame.count = 1

\* Mutant: a reassembly in progress takes the fragments of any sample.
ContinuesAny(frame) == reassembly.active /\ ~IsSingle(frame)

\* The frame continues the reassembly in progress.
Continues(frame) ==
  reassembly.active /\ reassembly.sequence = frame.sequence /\ ~IsSingle(frame)

\* Mutant: a reassembly in progress is not given up for a newer sample.
BlockedByActiveAlways(frame) == reassembly.active

\* PrepareSequence: a replay of the sample in progress, or older than it.
BlockedByActive(frame) ==
  /\ reassembly.active
  /\ \/ reassembly.sequence = frame.sequence
     \/ SequenceDistance(reassembly.sequence, frame.sequence) > ForwardWindow

\* Mutant: the sample completed last is not remembered.
BlockedByHistoryNever(frame) == FALSE

\* PrepareSequence: the sample completed last, or older than it.
BlockedByHistory(frame) ==
  /\ history.known
  /\ \/ history.last = frame.sequence
     \/ SequenceDistance(history.last, frame.sequence) > ForwardWindow

Complete(frame, parts) ==
  /\ history' = [known |-> TRUE, last |-> frame.sequence]
  /\ delivered' = frame.sample /\ parity' = 1 - parity
  /\ content' = {parts[i] : i \in DOMAIN parts}
  /\ reassembly' = Inactive

\* The fragment is copied into the buffer; the last one completes the sample.
Store(frame, r) ==
  LET parts == [i \in DOMAIN r.parts \cup {frame.index} |->
                  IF i = frame.index THEN frame.sample ELSE r.parts[i]]
  IN  IF DOMAIN parts = 0 .. r.count - 1
        THEN Complete(frame, parts)
        ELSE /\ reassembly' = [r EXCEPT !.parts = parts]
             /\ UNCHANGED <<history, delivered, content, parity>>

Ignore == UNCHANGED <<reassembly, history, delivered, content, parity>>

\* Accept, for a frame of this route.
Accept(frame) ==
  \/ /\ Continues(frame) /\ reassembly.count # frame.count
     /\ reassembly' = Inactive /\ UNCHANGED <<history, delivered, content, parity>>
  \/ /\ Continues(frame) /\ reassembly.count = frame.count
     /\ IF frame.index \in DOMAIN reassembly.parts THEN Ignore ELSE Store(frame, reassembly)
  \/ /\ ~Continues(frame) /\ BlockedByActive(frame)
     /\ Ignore
  \/ /\ ~Continues(frame) /\ ~BlockedByActive(frame) /\ BlockedByHistory(frame)
     /\ reassembly' = Inactive /\ UNCHANGED <<history, delivered, content, parity>>
  \/ /\ ~Continues(frame) /\ ~BlockedByActive(frame) /\ ~BlockedByHistory(frame)
     /\ Store(frame, [active |-> TRUE, sequence |-> frame.sequence,
                      count |-> frame.count, parts |-> NoParts])

Receive(repeat) ==
  /\ bus # <<>>
  /\ IF repeat THEN rejections + repeats < MaxFaults /\ repeats' = repeats + 1 /\ UNCHANGED bus
               ELSE bus' = Tail(bus) /\ UNCHANGED repeats
  /\ Accept(Head(bus))
  /\ seen' = IF Head(bus).sample = seen.sample
               THEN [seen EXCEPT !.parts = @ \cup {Head(bus).index}]
               ELSE [sample |-> Head(bus).sample, count |-> Head(bus).count,
                     parts |-> {Head(bus).index}]
  /\ UNCHANGED <<sequence, sent, rejections>>

Lose ==
  /\ bus # <<>> /\ bus' = Tail(bus)
  /\ UNCHANGED <<sequence, sent, reassembly, history, delivered, content, parity, seen, rejections, repeats>>

Next ==
  \/ \E count \in 1 .. MaxFragments, k \in 0 .. MaxFragments : Send(count, k)
  \/ \E repeat \in BOOLEAN : Receive(repeat)
  \/ Lose

Spec == Init /\ [][Next]_vars

-----------------------------------------------------------------------------
(* Properties.                                                             *)

\* A subscriber gets samples in the order they were sent and each at most once,
\* although frames are lost and repeated and sequence numbers are reused.
InOrderAtMostOnce ==
  [][parity' # parity => delivered' > delivered]_vars

\* What is published is made of the fragments of one sample: an incomplete older
\* sample is dropped and not completed by a newer one.
NoTornSample == content \subseteq {delivered}

\* While the writer accepts every frame, whatever is lost and repeated, a sample is
\* torn in one case only: its number is that of an incomplete sample a whole turn of
\* the numbers before it, which the receiver, having no time-out, still holds.
TornOnlyAfterRejection ==
  rejections = 0 => \A s \in content : s = delivered \/ delivered - s >= SequenceModulus

\* While the writer accepts every frame, a sample all of whose frames arrive is
\* delivered, whatever was left over from the samples before it, unless none of as
\* many samples as the window holds was delivered before it: then it looks old.
WholeSampleDelivered ==
  (rejections = 0 /\ seen.parts = 0 .. seen.count - 1) =>
    delivered = seen.sample \/ seen.sample - delivered > ForwardWindow
=============================================================================
