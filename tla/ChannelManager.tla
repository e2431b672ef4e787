--------------------------- MODULE ChannelManager ---------------------------
(***************************************************************************)
(* The Channels inside a Linux node (ChannelManager,                       *)
(* src/src/platform/linux/channel_manager.cpp): registration until Seal,   *)
(* Publish, which posts one Delivery per subscriber while it holds the     *)
(* manager's mutex, Deliver on the executors of the subscribers, and the   *)
(* shutdown that NodeRuntime makes of Close, stopping the executors and    *)
(* ClearPending.                                                           *)
(*                                                                         *)
(* An executor is its queue, its gate, the work its threads have taken     *)
(* and not called yet, and the work they are inside (see ThreadExecutor    *)
(* and WorkQueue).  A Delivery is identified by the    *)
(* Channel, the place of its subscriber and the number of the message,     *)
(* which counts without end where topic.sequence wraps.  Payloads, types   *)
(* and last_failure, which Deliver writes and nothing reads, are left out. *)
(***************************************************************************)
EXTENDS Integers, Sequences, FiniteSets, Functions

CONSTANTS
  Topics,          \* resolved Channel names
  Executors,
  Capacity,        \* places in the queue of an executor
  NumThreads,      \* threads of an executor
  Serial,          \* the executors that have one thread only
  MaxSequence,     \* UINT32_MAX
  MaxSubscribers,  \* bound on the subscribers of a Channel
  MaxMessages      \* bound on the messages of a Channel

ASSUME ChannelAssumption ==
  /\ {Capacity, NumThreads, MaxSequence, MaxSubscribers, MaxMessages} \subseteq Nat \ {0}
  /\ Serial \subseteq Executors

VARIABLES
  subscribers,  \* per topic, the executors of its subscriptions, in order
  published,    \* the topics that have a publisher
  number,       \* per topic, the messages published
  sequence,     \* per topic, topic.sequence
  sealed, accepting,
  pending,      \* the list of Delivery objects
  publishing,   \* what the publisher that holds the mutex is doing
  mode,         \* per executor: "gated", "open" or "closed"
  queue,        \* per executor, the deliveries posted
  taken,        \* per executor, the deliveries its threads will call next
  running,      \* per executor, the deliveries its threads are inside
  control,      \* where NodeRuntime is
  handed,       \* history, per topic and subscription: messages handed over
  promised,     \* history: <<topic, number>> of every Publish that returned kOk
  discarded     \* history: deliveries dropped with the queue of an executor

registry == <<subscribers, published, sealed>>
executorVars == <<mode, queue, taken, running>>
history == <<handed, promised, discarded>>
vars == <<registry, number, sequence, accepting, pending, publishing, executorVars,
          control, history>>

NotPublishing == [active |-> FALSE]
Places == 1 .. MaxSubscribers
Delivery(t, place, n, s) == [topic |-> t, place |-> place, number |-> n, sequence |-> s]

Init ==
  /\ subscribers = [t \in Topics |-> <<>>] /\ published = {}
  /\ number = [t \in Topics |-> 0] /\ sequence = [t \in Topics |-> 0]
  /\ sealed = FALSE /\ accepting = FALSE
  /\ pending = {} /\ publishing = NotPublishing
  /\ mode = [e \in Executors |-> "gated"] /\ queue = [e \in Executors |-> <<>>]
  /\ taken = [e \in Executors |-> {}] /\ running = [e \in Executors |-> {}] /\ control = "running"
  /\ handed = [t \in Topics |-> [p \in Places |-> <<>>]]
  /\ promised = {} /\ discarded = {}

\* The manager's mutex is free.
Unlocked == ~publishing.active

-----------------------------------------------------------------------------
(* Registration, before NodeRuntime starts or gives up.                    *)

RegisterSubscriber(t, e) ==
  /\ ~sealed /\ control = "running" /\ Len(subscribers[t]) < MaxSubscribers
  /\ subscribers' = [subscribers EXCEPT ![t] = Append(@, e)]
  /\ UNCHANGED <<published, sealed, number, sequence, accepting, pending, publishing,
                 executorVars, control, history>>

RegisterPublisher(t) ==
  /\ ~sealed /\ control = "running" /\ published' = published \cup {t}
  /\ UNCHANGED <<subscribers, sealed, number, sequence, accepting, pending, publishing,
                 executorVars, control, history>>

Seal ==
  /\ ~sealed /\ control = "running" /\ \A t \in Topics : subscribers[t] # <<>> => t \in published
  /\ sealed' = TRUE /\ accepting' = TRUE
  /\ UNCHANGED <<subscribers, published, number, sequence, pending, publishing,
                 executorVars, control, history>>

-----------------------------------------------------------------------------
(* Publish, on any thread, a callback's included.                          *)

\* Mutant: the unsigned number wraps to zero.
NextSequenceThroughZero(s) == (s + 1) % (MaxSequence + 1)

\* Zero is skipped.
NextSequence(s) == IF s = MaxSequence THEN 1 ELSE s + 1

PublishBegin(t) ==
  /\ Unlocked /\ sealed /\ accepting /\ t \in published
  /\ subscribers[t] # <<>> /\ number[t] < MaxMessages
  /\ number' = [number EXCEPT ![t] = @ + 1]
  /\ sequence' = [sequence EXCEPT ![t] = NextSequence(@)]
  /\ publishing' = [active |-> TRUE, topic |-> t, place |-> 1, result |-> "kOk"]
  /\ UNCHANGED <<registry, accepting, pending, executorVars, control, history>>

\* Mutant: the status of the last subscriber is the result.
ResultOfLast(result, admitted) == IF admitted THEN "kOk" ELSE "kFailed"

\* The first failure is the result.
Result(result, admitted) == IF result = "kOk" /\ ~admitted THEN "kFailed" ELSE result

\* Mutant: the Delivery of a failed post stays in the list.
PendingAfterPostKept(delivery, admitted) == pending \cup {delivery}

\* The Delivery is in the list before it is posted, and leaves it if that fails.
PendingAfterPost(delivery, admitted) ==
  IF admitted THEN pending \cup {delivery} ELSE pending

Admits(e) == mode[e] # "closed" /\ Len(queue[e]) < Capacity

\* Mutant: posted work overtakes the work that waits.
EnqueueFirst(work, delivery) == <<delivery>> \o work

\* The queue is ordered by the time and the ticket of TryPost; the posts of the
\* manager are made under its mutex, one after the other.
Enqueue(work, delivery) == Append(work, delivery)

PublishPost ==
  /\ publishing.active /\ publishing.place <= Len(subscribers[publishing.topic])
  /\ LET t == publishing.topic
         e == subscribers[t][publishing.place]
         delivery == Delivery(t, publishing.place, number[t], sequence[t])
     IN  /\ queue' = IF Admits(e) THEN [queue EXCEPT ![e] = Enqueue(@, delivery)] ELSE queue
         /\ pending' = PendingAfterPost(delivery, Admits(e))
         /\ publishing' = [publishing EXCEPT !.place = @ + 1,
                                             !.result = Result(@, Admits(e))]
  /\ UNCHANGED <<registry, number, sequence, accepting, mode, taken, running, control, history>>

PublishEnd ==
  /\ publishing.active /\ publishing.place > Len(subscribers[publishing.topic])
  /\ publishing' = NotPublishing
  /\ promised' = IF publishing.result = "kOk"
                   THEN promised \cup {<<publishing.topic, number[publishing.topic]>>}
                   ELSE promised
  /\ UNCHANGED <<registry, number, sequence, accepting, pending, executorVars, control,
                 handed, discarded>>

-----------------------------------------------------------------------------
(* The executors, and Deliver on their threads.                            *)

OpenGate(e) ==
  /\ sealed /\ control = "running" /\ mode[e] = "gated"
  /\ mode' = [mode EXCEPT ![e] = "open"]
  /\ UNCHANGED <<registry, number, sequence, accepting, pending, publishing, queue, taken,
                 running, control, history>>

PoolSize(e) == IF e \in Serial THEN 1 ELSE NumThreads

Busy(e) == taken[e] \cup running[e]

\* Mutant: a thread that finds the last delivery does not take it.
DeliverTakeNotLast(e) ==
  /\ mode[e] = "open" /\ Len(queue[e]) > 1 /\ Cardinality(Busy(e)) < PoolSize(e)
  /\ taken' = [taken EXCEPT ![e] = @ \cup {Head(queue[e])}]
  /\ queue' = [queue EXCEPT ![e] = Tail(@)]
  /\ UNCHANGED <<registry, number, sequence, accepting, pending, publishing, mode, running,
                 control, history>>

\* A thread removes the first Delivery from the queue of its executor.
DeliverTake(e) ==
  /\ mode[e] = "open" /\ queue[e] # <<>> /\ Cardinality(Busy(e)) < PoolSize(e)
  /\ taken' = [taken EXCEPT ![e] = @ \cup {Head(queue[e])}]
  /\ queue' = [queue EXCEPT ![e] = Tail(@)]
  /\ UNCHANGED <<registry, number, sequence, accepting, pending, publishing, mode, running,
                 control, history>>

\* Deliver enters the callback, without any mutex.
DeliverEnter(e, delivery) ==
  /\ delivery \in taken[e]
  /\ taken' = [taken EXCEPT ![e] = @ \ {delivery}]
  /\ running' = [running EXCEPT ![e] = @ \cup {delivery}]
  /\ handed' = [handed EXCEPT ![delivery.topic][delivery.place] = Append(@, delivery.number)]
  /\ UNCHANGED <<registry, number, sequence, accepting, pending, publishing, mode, queue,
                 control, promised, discarded>>

\* The callback has returned: the mutex is taken and the Delivery erased.
DeliverFinish(e, delivery) ==
  /\ delivery \in running[e] /\ Unlocked
  /\ running' = [running EXCEPT ![e] = @ \ {delivery}]
  /\ pending' = pending \ {delivery}
  /\ UNCHANGED <<registry, number, sequence, accepting, publishing, mode, queue, taken,
                 control, history>>

-----------------------------------------------------------------------------
(* NodeRuntime's Quiesce.                                                  *)

Close ==
  /\ control = "running" /\ Unlocked
  /\ accepting' = FALSE /\ control' = "stopping"
  /\ UNCHANGED <<registry, number, sequence, pending, publishing, executorVars, history>>

\* Shutdown of an executor discards its queue; it returns when the threads are
\* idle, and only then the next executor is stopped.
StopExecutor(e) ==
  /\ control = "stopping" /\ mode[e] # "closed"
  /\ \A f \in Executors : mode[f] = "closed" => Busy(f) = {}
  /\ mode' = [mode EXCEPT ![e] = "closed"] /\ queue' = [queue EXCEPT ![e] = <<>>]
  /\ discarded' = discarded \cup Range(queue[e])
  /\ UNCHANGED <<registry, number, sequence, accepting, pending, publishing, taken, running,
                 control, handed, promised>>

\* Mutant: the list is cleared before the executors have stopped.
ClearPendingEarly ==
  /\ control = "stopping" /\ Unlocked
  /\ pending' = {} /\ control' = "stopped"
  /\ UNCHANGED <<registry, number, sequence, accepting, publishing, executorVars, history>>

ClearPending ==
  /\ control = "stopping" /\ Unlocked
  /\ \A e \in Executors : mode[e] = "closed" /\ Busy(e) = {}
  /\ pending' = {} /\ control' = "stopped"
  /\ UNCHANGED <<registry, number, sequence, accepting, publishing, executorVars, history>>

Finished == control = "stopped" /\ UNCHANGED vars

Threads(e) ==
  \/ DeliverTake(e)
  \/ \E delivery \in taken[e] : DeliverEnter(e, delivery)
  \/ \E delivery \in running[e] : DeliverFinish(e, delivery)
Publishing == PublishPost \/ PublishEnd

Next ==
  \/ \E t \in Topics :
       RegisterPublisher(t) \/ PublishBegin(t) \/ \E e \in Executors : RegisterSubscriber(t, e)
  \/ Seal \/ Publishing \/ Close \/ ClearPending \/ Finished
  \/ \E e \in Executors : OpenGate(e) \/ Threads(e) \/ StopExecutor(e)

\* Gates are opened, a Publish goes on, threads run and callbacks return.
Fairness ==
  /\ WF_vars(Publishing)
  /\ \A e \in Executors : WF_vars(OpenGate(e)) /\ WF_vars(Threads(e))

SafetySpec == Init /\ [][Next]_vars
Spec == SafetySpec /\ Fairness

-----------------------------------------------------------------------------
(* Properties.                                                             *)

Deliveries ==
  {Delivery(t, p, n, s) : t \in Topics, p \in Places, n \in 1 .. MaxMessages, s \in 1 .. MaxSequence}

\* Sequence numbers stay in the range of the counter when it wraps, and executors
\* within their capacity.
TypeOK ==
  /\ \A t \in Topics : Len(subscribers[t]) <= MaxSubscribers /\ number[t] \in 0 .. MaxMessages
  /\ sequence \in [Topics -> 0 .. MaxSequence] /\ published \subseteq Topics
  /\ sealed \in BOOLEAN /\ accepting \in BOOLEAN
  /\ pending \subseteq Deliveries /\ mode \in [Executors -> {"gated", "open", "closed"}]
  /\ \A e \in Executors :
       /\ Len(queue[e]) <= Capacity /\ Range(queue[e]) \subseteq Deliveries
       /\ Cardinality(Busy(e)) <= PoolSize(e) /\ taken[e] \cap running[e] = {}
  /\ control \in {"running", "stopping", "stopped"}

Outstanding == UNION {Range(queue[e]) \cup Busy(e) : e \in Executors}

\* A Delivery that an executor holds a pointer to, in its queue or on a thread
\* before or inside the callback, is an element of the list: Deliver and its final erase
\* never touch a freed one, whatever the shutdown does meanwhile.
WorkKeepsItsDelivery == Outstanding \subseteq pending

\* Conversely the list holds only what an executor holds, or has discarded while
\* the node shuts down, and nothing once the node has stopped.
NoDeliveryLeaks ==
  /\ pending \subseteq Outstanding \cup discarded
  /\ control = "stopped" => pending = {}

\* A subscriber is handed no message twice, and never a message while an earlier one
\* of the same Channel still waits in the queue of its executor, although Publish
\* runs on any thread and posts to the executors one after the other.  On a pool a
\* message can overtake only those that other threads have taken at the same time;
\* an executor with one thread hands the messages over in the order of Publish.
HandedInOrder ==
  \A t \in Topics : \A p \in DOMAIN subscribers[t] :
    LET received == handed[t][p]
    IN  /\ IsInjective(received)
        /\ \A n \in Range(received), d \in Range(queue[subscribers[t][p]]) :
             (d.topic = t /\ d.place = p) => n < d.number
        /\ subscribers[t][p] \in Serial =>
             \A i, j \in DOMAIN received : i < j => received[i] < received[j]

\* The message has reached the subscription, or waits in the queue of its executor.
Reaches(t, p, n) ==
  \/ n \in Range(handed[t][p])
  \/ \E d \in Outstanding \cup discarded : d.topic = t /\ d.place = p /\ d.number = n

\* A Publish that returned kOk has been accepted by every subscriber; a failure of
\* one is not hidden by the success of a later one.
OkReachesEverySubscriber ==
  \A m \in promised : \A p \in DOMAIN subscribers[m[1]] : Reaches(m[1], p, m[2])

\* A message whose Publish returned kOk is handed to every subscriber, unless the
\* node is shut down.
PromisedIsHanded ==
  \A t \in Topics, n \in 1 .. MaxMessages :
    (<<t, n>> \in promised) ~>
      (control # "running" \/ \A p \in DOMAIN subscribers[t] : n \in Range(handed[t][p]))
=============================================================================
