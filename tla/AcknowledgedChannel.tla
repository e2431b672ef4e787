------------------------ MODULE AcknowledgedChannel ------------------------
(***************************************************************************)
(* What a reliable CAN Channel promises its two ends.  Messages are        *)
(* numbered in the order they are sent, one at a time.  A message reaches  *)
(* the other end at most once and never after a later one; the sender may  *)
(* learn that the message arrived, only if it did; or it may give up, and  *)
(* then the message may still arrive.  The numbers on the wire turn over   *)
(* after Turn messages: a message with nothing delivered for a whole turn  *)
(* before it may be taken for the one delivered last and acknowledged.     *)
(***************************************************************************)
EXTENDS Naturals

CONSTANT Turn

VARIABLES
  sent,       \* the number of the message sent last
  delivered,  \* the number of the message delivered last
  parity,     \* of the number of deliveries, so that each one is a step
  outcome     \* what the sender knows about the message sent last

vars == <<sent, delivered, parity, outcome>>

Init == sent = 0 /\ delivered = 0 /\ parity = 0 /\ outcome = "none"

Send ==
  /\ outcome # "outstanding"
  /\ sent' = sent + 1 /\ outcome' = "outstanding"
  /\ UNCHANGED <<delivered, parity>>

Deliver ==
  /\ delivered' \in delivered + 1 .. sent /\ parity' = 1 - parity
  /\ UNCHANGED <<sent, outcome>>

Acknowledge ==
  /\ outcome = "outstanding" /\ (delivered = sent \/ sent - delivered >= Turn)
  /\ outcome' = "acknowledged"
  /\ UNCHANGED <<sent, delivered, parity>>

GiveUp ==
  /\ outcome = "outstanding"
  /\ outcome' = "failed"
  /\ UNCHANGED <<sent, delivered, parity>>

Next == Send \/ Deliver \/ Acknowledge \/ GiveUp

Spec == Init /\ [][Next]_vars
=============================================================================
