--------------------------- MODULE ThreadExecutor ---------------------------
(***************************************************************************)
(* aster::platform::linux::ThreadExecutor: a bounded queue of timed work,  *)
(* a start gate, and a pool of threads on one mutex and one condition      *)
(* variable (src/src/runtime/aster_runtime/platform/linux/                 *)
(* runtime_services.hpp).                                                  *)
(*                                                                         *)
(* Everything done under the mutex in one go is one step.  What happens    *)
(* after the mutex is released is a step of its own: the notifications of  *)
(* Enqueue, Activate and Shutdown, the joining of the threads, the calling *)
(* of work that was removed from the queue, the work itself, and the       *)
(* reading of the clock that precedes the queueing.                        *)
(***************************************************************************)
EXTENDS Integers, FiniteSets

CONSTANTS
  Capacity,    \* queue_.size()
  Workers,     \* the threads of the pool
  Posters,     \* threads that post work
  MaxTickets,  \* bound on the work accepted
  MaxTime      \* bound on the clock

ASSUME CapacityAssumption == Capacity \in Nat \ {0} /\ Workers # {}
ASSUME BoundAssumption == MaxTickets \in Nat /\ MaxTime \in Nat

VARIABLES
  state,         \* state_
  queue,         \* queue_
  size,          \* size_
  nextSequence,  \* next_sequence_
  worker,        \* what each thread of the pool does
  work,          \* the local `work` of each thread's Run, until it is called
  poster,        \* what each posting thread does
  control,       \* what the controlling thread does
  now,           \* the clock
  begun          \* history: tickets whose work has begun

vars == <<state, queue, size, nextSequence, worker, work, poster, control, now, begun>>

Slots == 1 .. Capacity
Tickets == 0 .. MaxTickets - 1
Time == 0 .. MaxTime
ThreadExecutorState == {"kConstructed", "kPrepared", "kRunning", "kQuiescing", "kStopped", "kFailed"}

\* "ready": contending for the mutex; "waiting" and "timed": inside wait and wait_for.
\* "taken": the mutex released, the work removed from the queue not called yet.
WorkerPoint == {"none", "ready", "waiting", "timed", "taken", "running", "exited"}
PosterPoint == {"idle", "stamped", "notify"}
ControlPoint == {"idle", "activated", "failing", "quiescing", "joining"}

WorkKind == {"none", "post", "postAt", "reserve"}

\* kind is how the work got into the queue; by is the thread that posted it.
EmptyEntry == [used |-> FALSE, timestamp |-> 0, sequence |-> 0, armed |-> FALSE,
               kind |-> "none", by |-> "none"]
Entry == [used : BOOLEAN, timestamp : Time, sequence : Tickets \cup {0}, armed : BOOLEAN,
          kind : WorkKind, by : Posters \cup {"none"}]

\* Work outside the queue: the ticket it had there, how it was queued and by whom.
NoWork == [sequence |-> 0, kind |-> "none", by |-> "none"]
WorkOf(entry) == [sequence |-> entry.sequence, kind |-> entry.kind, by |-> entry.by]

IdlePoster == [at |-> "idle", timestamp |-> 0]

Init ==
  /\ state = "kConstructed" /\ queue = [i \in Slots |-> EmptyEntry] /\ size = 0 /\ nextSequence = 0
  /\ worker = [w \in Workers |-> "none"] /\ work = [w \in Workers |-> NoWork]
  /\ poster = [p \in Posters |-> IdlePoster]
  /\ control = "idle" /\ now = 0 /\ begun = {}

queueVars == <<queue, size, nextSequence>>
Admitting == state \in {"kPrepared", "kRunning"}

-----------------------------------------------------------------------------
(* The condition variable.  Threads inside wait and wait_for.              *)

Waiters == {w \in Workers : worker[w] \in {"waiting", "timed"}}
Woken(W) == [w \in Workers |-> IF w \in W THEN "ready" ELSE worker[w]]

NotifyAll == worker' = Woken(Waiters)

NotifyOne ==
  \/ \E w \in Waiters : worker' = Woken({w})
  \/ Waiters = {} /\ UNCHANGED worker

-----------------------------------------------------------------------------
(* The controlling thread.                                                 *)

\* Prepare creates the threads under the mutex; creating one may throw, and then
\* the `created` ones are told to leave and joined.
Prepare(created) ==
  /\ control = "idle" /\ state = "kConstructed"
  /\ worker' = [w \in Workers |-> IF w \in created THEN "ready" ELSE "none"]
  /\ IF created = Workers THEN state' = "kPrepared" /\ UNCHANGED control
                             ELSE state' = "kFailed" /\ control' = "failing"
  /\ UNCHANGED <<queueVars, poster, now, work, begun>>

Activate ==
  /\ control = "idle" /\ state = "kPrepared"
  /\ state' = "kRunning" /\ control' = "activated"
  /\ UNCHANGED <<queueVars, worker, poster, now, work, begun>>

\* Mutant: Shutdown does not wake the threads.
BeginShutdownNoNotify ==
  /\ control = "idle" /\ Admitting
  /\ state' = "kQuiescing" /\ size' = 0 /\ control' = "joining"
  /\ UNCHANGED <<queue, nextSequence, worker, poster, now, work, begun>>

\* Shutdown up to the notification.  The entries stay where they are; only size_
\* is reset.
BeginShutdown ==
  /\ control = "idle" /\ Admitting
  /\ state' = "kQuiescing" /\ size' = 0 /\ control' = "quiescing"
  /\ UNCHANGED <<queue, nextSequence, worker, poster, now, work, begun>>

ShutdownUnprepared ==
  /\ control = "idle" /\ state = "kConstructed" /\ state' = "kStopped"
  /\ UNCHANGED <<queueVars, worker, poster, control, now, work, begun>>

\* The notifications of Activate, of a failed Prepare and of Shutdown.
ControlNotify ==
  /\ control \in {"activated", "failing", "quiescing"}
  /\ NotifyAll
  /\ control' = IF control = "activated" THEN "idle" ELSE "joining"
  /\ UNCHANGED <<state, queueVars, poster, now, work, begun>>

\* Mutant: the threads are not waited for.
JoinNobody ==
  /\ control = "joining"
  /\ state' = IF state = "kQuiescing" THEN "kStopped" ELSE state
  /\ control' = "idle"
  /\ UNCHANGED <<queueVars, worker, poster, now, work, begun>>

Join ==
  /\ control = "joining" /\ \A w \in Workers : worker[w] \in {"none", "exited"}
  /\ state' = IF state = "kQuiescing" THEN "kStopped" ELSE state
  /\ control' = "idle"
  /\ UNCHANGED <<queueVars, worker, poster, now, work, begun>>

ControlStep ==
  \/ \E created \in SUBSET Workers : Prepare(created)
  \/ Activate \/ BeginShutdown \/ ShutdownUnprepared \/ ControlNotify \/ Join

-----------------------------------------------------------------------------
(* Posting threads.                                                        *)

\* TryPost reads the clock before it takes the mutex.
TryPost(p) ==
  /\ poster[p].at = "idle"
  /\ poster' = [poster EXCEPT ![p] = [at |-> "stamped", timestamp |-> now]]
  /\ UNCHANGED <<state, queueVars, worker, control, now, work, begun>>

FirstFree(i) == ~queue[i].used /\ \A j \in 1 .. i - 1 : queue[j].used

\* Enqueue under the mutex.  Without admission or room the caller gets an error.
Enqueue(p, kind, timestamp) ==
  /\ \/ /\ ~Admitting \/ size = Capacity
        /\ poster' = [poster EXCEPT ![p] = IdlePoster]
        /\ UNCHANGED queueVars
     \/ /\ Admitting /\ size # Capacity /\ nextSequence < MaxTickets
        /\ \E i \in Slots :
             /\ FirstFree(i)
             /\ queue' = [queue EXCEPT ![i] =
                  [used |-> TRUE, timestamp |-> timestamp, sequence |-> nextSequence,
                   armed |-> kind # "reserve", kind |-> kind, by |-> p]]
        /\ nextSequence' = nextSequence + 1 /\ size' = size + 1
        /\ poster' = [poster EXCEPT ![p] = [IdlePoster EXCEPT !.at = "notify"]]
  /\ UNCHANGED <<state, worker, control, now, work, begun>>

EnqueueStamped(p) == poster[p].at = "stamped" /\ Enqueue(p, "post", poster[p].timestamp)

\* TryPostAt and Reserve read nothing before the mutex; the time is the caller's,
\* or none.
TryPostAt(p, timestamp) == poster[p].at = "idle" /\ Enqueue(p, "postAt", timestamp)
Reserve(p) == poster[p].at = "idle" /\ Enqueue(p, "reserve", 0)

EnqueueNotify(p) ==
  /\ poster[p].at = "notify"
  /\ NotifyOne
  /\ poster' = [poster EXCEPT ![p] = IdlePoster]
  /\ UNCHANGED <<state, queueVars, control, now, work, begun>>

\* The slot of a reservation, whether it was armed already or not.
Reservation(i) == queue[i].used /\ queue[i].kind = "reserve"

\* Mutant: arming a reservation wakes nobody.
ScheduleReservedSilently(i, timestamp) ==
  /\ Admitting /\ Reservation(i)
  /\ queue' = [queue EXCEPT ![i].timestamp = timestamp, ![i].armed = TRUE]
  /\ UNCHANGED <<state, size, nextSequence, worker, poster, control, now, work, begun>>

\* Arms a reservation, or moves an armed one to another time.
ScheduleReserved(i, timestamp) ==
  /\ Admitting /\ Reservation(i)
  /\ queue' = [queue EXCEPT ![i].timestamp = timestamp, ![i].armed = TRUE]
  /\ NotifyAll
  /\ UNCHANGED <<state, size, nextSequence, poster, control, now, work, begun>>

\* Mutant: a cancelled reservation is still counted.
CancelReservedStillCounted(i) ==
  /\ Admitting /\ Reservation(i)
  /\ queue' = [queue EXCEPT ![i] = EmptyEntry]
  /\ NotifyAll
  /\ UNCHANGED <<state, size, nextSequence, poster, control, now, work, begun>>

CancelReserved(i) ==
  /\ Admitting /\ Reservation(i)
  /\ queue' = [queue EXCEPT ![i] = EmptyEntry] /\ size' = size - 1
  /\ NotifyAll
  /\ UNCHANGED <<state, nextSequence, poster, control, now, work, begun>>

PosterStep(p) == EnqueueStamped(p) \/ EnqueueNotify(p)

-----------------------------------------------------------------------------
(* Run: the threads of the pool.                                           *)

Armed(i) == queue[i].used /\ queue[i].armed

\* Mutant: of two entries with the same time the later one is first.
BeforeLifo(a, b) ==
  a.timestamp < b.timestamp \/ (a.timestamp = b.timestamp /\ a.sequence > b.sequence)

Before(a, b) ==
  a.timestamp < b.timestamp \/ (a.timestamp = b.timestamp /\ a.sequence < b.sequence)

\* NextIndex.
IsNext(i) == Armed(i) /\ \A j \in Slots \ {i} : Armed(j) => Before(queue[i], queue[j])

Move(w, point) ==
  /\ worker' = [worker EXCEPT ![w] = point]
  /\ UNCHANGED <<state, queueVars, poster, control, now, work, begun>>

\* The wait at the start gate.
AtGate(w) == worker[w] = "ready" /\ state = "kPrepared" /\ Move(w, "waiting")

Leave(w) == worker[w] = "ready" /\ ~Admitting /\ Move(w, "exited")

Sleep(w) ==
  /\ worker[w] = "ready" /\ state = "kRunning"
  /\ \/ (\A i \in Slots : ~Armed(i)) /\ Move(w, "waiting")
     \/ (\E i \in Slots : IsNext(i) /\ queue[i].timestamp > now) /\ Move(w, "timed")

\* The entry is copied out and removed, and the mutex released.
Remove(w, i) ==
  /\ IsNext(i) /\ queue[i].timestamp <= now
  /\ queue' = [queue EXCEPT ![i] = EmptyEntry] /\ size' = size - 1
  /\ worker' = [worker EXCEPT ![w] = "taken"] /\ work' = [work EXCEPT ![w] = WorkOf(queue[i])]
  /\ UNCHANGED <<state, nextSequence, poster, control, now, begun>>

\* Mutant: work is taken from the queue until it is empty.
TakeUntilEmpty(w) ==
  worker[w] = "ready" /\ state # "kPrepared" /\ \E i \in Slots : Remove(w, i)

\* Mutant: the start gate is not looked at.
TakeBeforeGate(w) ==
  worker[w] = "ready" /\ Admitting /\ \E i \in Slots : Remove(w, i)

Take(w) ==
  worker[w] = "ready" /\ state = "kRunning" /\ \E i \in Slots : Remove(w, i)

\* The work is called, whatever happened to the executor since it was taken.
RunWork(w) ==
  /\ worker[w] = "taken"
  /\ worker' = [worker EXCEPT ![w] = "running"] /\ work' = [work EXCEPT ![w] = NoWork]
  /\ begun' = begun \cup {work[w].sequence}
  /\ UNCHANGED <<state, queueVars, poster, control, now>>

\* The work returns and the mutex is wanted again.
Finish(w) == worker[w] = "running" /\ Move(w, "ready")

\* wait_for ends at the latest after the delay, which is capped at 100 ms.
TimeOut(w) == worker[w] = "timed" /\ Move(w, "ready")

\* A condition variable may wake without a notification.
SpuriousWake(w) == worker[w] = "waiting" /\ Move(w, "ready")

Loop(w) == AtGate(w) \/ Leave(w) \/ Sleep(w) \/ Take(w) \/ RunWork(w)

Tick ==
  /\ now < MaxTime /\ now' = now + 1
  /\ UNCHANGED <<state, queueVars, worker, poster, control, work, begun>>

Next ==
  \/ ControlStep \/ Tick
  \/ \E p \in Posters :
       \/ TryPost(p) \/ PosterStep(p) \/ Reserve(p)
       \/ \E timestamp \in Time : TryPostAt(p, timestamp)
  \/ \E i \in Slots :
       \/ CancelReserved(i)
       \/ \E timestamp \in Time : ScheduleReserved(i, timestamp)
  \/ \E w \in Workers : Loop(w) \/ Finish(w) \/ TimeOut(w) \/ SpuriousWake(w)

\* Threads that can run do run, the clock advances, and a wait with a time-out
\* ends.  The clients and the controlling thread call what they like.
Scheduling ==
  /\ WF_vars(ControlNotify) /\ WF_vars(Join) /\ WF_vars(Tick)
  /\ \A p \in Posters : WF_vars(PosterStep(p))
  /\ \A w \in Workers : WF_vars(Loop(w)) /\ WF_vars(TimeOut(w))

\* Every callback returns.
WorkReturns == \A w \in Workers : WF_vars(Finish(w))

SafetySpec == Init /\ [][Next]_vars

Spec == SafetySpec /\ Scheduling /\ WorkReturns

\* A callback may run for as long as it likes.
SpecLongWork == SafetySpec /\ Scheduling

-----------------------------------------------------------------------------
(* Properties.                                                             *)

\* size_ stays within the capacity of the queue and every thread is at a point of
\* its loop.
TypeOK ==
  /\ state \in ThreadExecutorState /\ queue \in [Slots -> Entry]
  /\ size \in 0 .. Capacity /\ nextSequence \in 0 .. MaxTickets
  /\ worker \in [Workers -> WorkerPoint]
  /\ work \in [Workers -> [sequence : Tickets \cup {0}, kind : WorkKind, by : Posters \cup {"none"}]]
  /\ poster \in [Posters -> [at : PosterPoint, timestamp : Time]]
  /\ control \in ControlPoint /\ now \in Time /\ begun \subseteq Tickets

Used == {i \in Slots : queue[i].used}

\* size_ counts the occupied slots as long as work is accepted, so that Enqueue
\* finds a free slot exactly when it does not report kCapacityExceeded.
SizeCountsSlots == Admitting => size = Cardinality(Used)

\* When Shutdown, or a failed Prepare, has returned, no thread of the pool is
\* left, and so no callback is running.
JoinedMeansQuiet ==
  (control = "idle" /\ state \in {"kStopped", "kFailed"}) =>
    \A w \in Workers : worker[w] \in {"none", "exited"}

\* The work a thread posts with TryPost begins in the order it was posted, although
\* the time stamp is taken outside the mutex and the queue is sorted by it, as far
\* as the pool allows: when one begins, no earlier one is left in the queue.  What
\* it can overtake has been removed by another thread that has not called it yet,
\* so on a pool of one thread the order is strict.
PostsBeginInOrder ==
  [][\A w \in Workers :
       (worker[w] = "taken" /\ worker'[w] = "running" /\ work[w].kind = "post") =>
         \A i \in Slots : (queue[i].used /\ queue[i].kind = "post" /\ queue[i].by = work[w].by) =>
                           work[w].sequence < queue[i].sequence]_vars

\* The executor is a WorkQueue: accepted work is begun at most once, is not lost
\* while the executor runs, waits for the gate, is not taken once Shutdown has
\* begun, and never begins after Shutdown has returned.
Promise == INSTANCE WorkQueue WITH
  Tickets <- Tickets,
  mode  <- CASE state \in {"kConstructed", "kPrepared"} -> "gated"
             [] state = "kRunning" -> "open"
             [] state = "kStopped" \/ (state = "kFailed" /\ control = "idle") -> "closed"
             [] OTHER -> "closing",
  held  <- {queue[i].sequence : i \in {j \in Used : Admitting /\ ~queue[j].armed}},
  ready <- {queue[i].sequence : i \in {j \in Used : Admitting /\ queue[j].armed}},
  taken <- {work[w].sequence : w \in {v \in Workers : worker[v] = "taken"}},
  begun <- begun
ImplementsWorkQueue == Promise!Spec

IsQueued(t) == \E i \in Slots : Armed(i) /\ queue[i].sequence = t
IsTaken(t) == \E w \in Workers : worker[w] = "taken" /\ work[w].sequence = t

\* While the executor runs, all armed work is called sooner or later: no wake-up is
\* lost between Enqueue, ScheduleReserved and the threads.  (The work accepted is
\* bounded by MaxTickets, so that no backlog can be fed forever.)
ArmedWorkBegins ==
  state = "kRunning" ~> (state # "kRunning" \/ \A t \in Tickets : ~IsQueued(t) /\ ~IsTaken(t))

\* Shutdown and a failed Prepare return, wherever the threads are.
ShutdownReturns == control # "idle" ~> control = "idle"

\* Due work does not wait while a thread of the pool is idle: a callback that
\* does not return only takes away its own thread.
IdleThreadTakesWork ==
  \A t \in Tickets : (state = "kRunning" /\ IsQueued(t)) ~>
     (state # "kRunning" \/ ~IsQueued(t) \/ \A w \in Workers : worker[w] = "running")
=============================================================================
