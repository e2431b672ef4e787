----------------------------- MODULE WorkQueue -----------------------------
(***************************************************************************)
(* What an executor promises to those who post work: a bounded set of      *)
(* accepted tickets behind a start gate, each of which is begun at most    *)
(* once.  A ticket is first taken out of the queue and then begun: none is *)
(* taken before the gate opens or after closing starts, and none is begun  *)
(* after the queue is closed, which waits for the taken ones.  A ticket    *)
(* may be accepted without being ready (a reservation); it keeps its place *)
(* until it is armed, cancelled or discarded.                              *)
(***************************************************************************)
EXTENDS Integers, FiniteSets

CONSTANTS Capacity, Tickets

VARIABLES
  mode,   \* "gated", "open", "closing" or "closed"
  held,   \* reservations not armed yet
  ready,  \* tickets that may be taken once the gate is open
  taken,  \* tickets out of the queue whose work has not begun
  begun   \* tickets whose work has begun

vars == <<mode, held, ready, taken, begun>>

Init == mode = "gated" /\ held = {} /\ ready = {} /\ taken = {} /\ begun = {}

Waiting == held \cup ready
Accepting == mode \in {"gated", "open"}

\* A ticket that waits, is taken or has begun is not given out again.
Accept(t) ==
  /\ Accepting /\ Cardinality(Waiting) < Capacity
  /\ t \notin Waiting \cup taken \cup begun
  /\ \/ held' = held \cup {t} /\ UNCHANGED ready
     \/ ready' = ready \cup {t} /\ UNCHANGED held
  /\ UNCHANGED <<mode, taken, begun>>

Arm(t) ==
  /\ Accepting /\ t \in held
  /\ held' = held \ {t} /\ ready' = ready \cup {t}
  /\ UNCHANGED <<mode, taken, begun>>

Cancel(t) ==
  /\ Accepting /\ t \in Waiting
  /\ held' = held \ {t} /\ ready' = ready \ {t}
  /\ UNCHANGED <<mode, taken, begun>>

TakeOut(t) ==
  /\ mode = "open" /\ t \in ready
  /\ ready' = ready \ {t} /\ taken' = taken \cup {t}
  /\ UNCHANGED <<mode, held, begun>>

BeginWork(t) ==
  /\ mode \in {"open", "closing"} /\ t \in taken
  /\ taken' = taken \ {t} /\ begun' = begun \cup {t}
  /\ UNCHANGED <<mode, held, ready>>

Open ==
  /\ mode = "gated" /\ mode' = "open" /\ UNCHANGED <<held, ready, taken, begun>>

\* What waits is discarded; a queue nobody took from may close at once.
Close ==
  /\ mode # "closed" /\ mode' \in {"closing", "closed"}
  /\ mode' = "closed" => taken = {}
  /\ held' = {} /\ ready' = {}
  /\ UNCHANGED <<taken, begun>>

Next ==
  \/ Open \/ Close
  \/ \E t \in Tickets : Accept(t) \/ Arm(t) \/ Cancel(t) \/ TakeOut(t) \/ BeginWork(t)

Spec == Init /\ [][Next]_vars
=============================================================================
