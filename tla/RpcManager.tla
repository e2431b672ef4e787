----------------------------- MODULE RpcManager -----------------------------
(***************************************************************************)
(* RPC inside a Linux node: RpcManager (src/src/platform/linux/            *)
(* rpc_manager.cpp) between the executors of the callers and of the        *)
(* servers.                                                                *)
(*                                                                         *)
(* Every call has two pieces of work: Invoke, queued on the server's       *)
(* executor, and Complete, for which a place is reserved on the caller's.  *)
(* Each runs once at most, in any order, and whichever comes last frees    *)
(* the call.  The executors are those of WorkQueue, with times: a bounded  *)
(* queue behind a gate from which threads take any due work.               *)
(*                                                                         *)
(* What is done under the manager's mutex is one step, except in           *)
(* CallAsync: it calls into two executors, whose threads take work between *)
(* the calls, and the others wait for the mutex meanwhile.  Handlers,      *)
(* callbacks and reading the clock are steps of their own.                 *)
(***************************************************************************)
EXTENDS Integers, FiniteSets, Sequences

CONSTANTS
  Services,    \* service methods of the node
  Executors,
  Hosts,       \* the executors of the Modules that serve; any may have callers
  NoExecutor,
  Capacity,    \* queue_depth of each executor
  NumThreads,  \* threads of each executor
  MaxCalls,    \* bound on the calls made
  MaxTime      \* bound on the clock

ASSUME RpcAssumption ==
  /\ NoExecutor \notin Executors /\ Hosts \subseteq Executors /\ Capacity \in Nat \ {0} /\ NumThreads \in Nat \ {0}
  /\ MaxCalls \in Nat /\ MaxTime \in Nat

VARIABLES
  server,     \* per service: the executor of its handler
  clients,    \* the services some Module calls
  sealed, accepting,
  nextId,     \* next_id
  calling,    \* where the CallAsync that holds the mutex is
  calls,      \* per id: the Call
  invoke,     \* per id: where its Invoke is
  complete,   \* per id: where its Complete is
  mode,       \* per executor: its gate
  control,    \* what the controlling thread does
  now,        \* the clock
  answers     \* history, per id: the statuses its completion callback got

registry == <<server, clients, sealed, accepting>>
callVars == <<nextId, calling, calls, invoke, complete>>
vars == <<registry, callVars, mode, control, now, answers>>

Ids == 1 .. MaxCalls
Time == 0 .. MaxTime
NoDeadline == 0
Status == {"none", "kOk", "kTimeout", "kInternal", "kCancelled"}

\* A piece of work: not in the executor, holding a reserved place, queued, or run
\* by a thread that is about to enter the mutex, to call user code, or to enter
\* the mutex again.
WorkPoint == {"none", "held", "ready", "entered", "user", "returned", "clocked", "gone"}
InQueue == {"held", "ready"}
Running == {"entered", "user", "returned", "clocked"}

NoWork == [at |-> "none", executor |-> NoExecutor, time |-> 0, status |-> "none"]
NoCall == [phase |-> "none", service |-> "none", deadline |-> NoDeadline, status |-> "none",
           server_done |-> FALSE, completion_done |-> FALSE]

NotCalling == [id |-> 0, at |-> "none"]

Init ==
  /\ server = [s \in Services |-> NoExecutor] /\ clients = {} /\ sealed = FALSE /\ accepting = FALSE
  /\ nextId = 0 /\ calling = NotCalling /\ calls = [c \in Ids |-> NoCall]
  /\ invoke = [c \in Ids |-> NoWork] /\ complete = [c \in Ids |-> NoWork]
  /\ mode = [e \in Executors |-> "gated"] /\ control = "running" /\ now = 0
  /\ answers = [c \in Ids |-> <<>>]

\* The manager's mutex is free.
Unlocked == calling = NotCalling

-----------------------------------------------------------------------------
(* The executors.                                                          *)

Queued(e) ==
  Cardinality({c \in Ids : invoke[c].executor = e /\ invoke[c].at \in InQueue})
    + Cardinality({c \in Ids : complete[c].executor = e /\ complete[c].at \in InQueue})
Busy(e) ==
  Cardinality({c \in Ids : invoke[c].executor = e /\ invoke[c].at \in Running})
    + Cardinality({c \in Ids : complete[c].executor = e /\ complete[c].at \in Running})

\* A thread takes work that is due; the execution context holds the time.
Takes(work) ==
  /\ work.at = "ready" /\ work.time <= now
  /\ mode[work.executor] = "open" /\ Busy(work.executor) < NumThreads
Taken(work) == [work EXCEPT !.at = "entered", !.time = now]

TakeInvoke(c) ==
  /\ Takes(invoke[c]) /\ invoke' = [invoke EXCEPT ![c] = Taken(@)]
  /\ UNCHANGED <<registry, nextId, calling, calls, complete, mode, control, now, answers>>

TakeComplete(c) ==
  /\ Takes(complete[c]) /\ complete' = [complete EXCEPT ![c] = Taken(@)]
  /\ UNCHANGED <<registry, nextId, calling, calls, invoke, mode, control, now, answers>>

OpenGate(e) ==
  /\ sealed /\ control = "running" /\ mode[e] = "gated" /\ mode' = [mode EXCEPT ![e] = "open"]
  /\ UNCHANGED <<registry, callVars, control, now, answers>>

Tick ==
  /\ now < MaxTime /\ now' = now + 1
  /\ UNCHANGED <<registry, callVars, mode, control, answers>>

-----------------------------------------------------------------------------
(* Registration.                                                           *)

RegisterServer(s, e) ==
  /\ ~sealed /\ control = "running" /\ server[s] = NoExecutor
  /\ server' = [server EXCEPT ![s] = e]
  /\ UNCHANGED <<clients, sealed, accepting, callVars, mode, control, now, answers>>

RegisterClient(s) ==
  /\ ~sealed /\ control = "running" /\ clients' = clients \cup {s}
  /\ UNCHANGED <<server, sealed, accepting, callVars, mode, control, now, answers>>

Seal ==
  /\ ~sealed /\ control = "running" /\ \A s \in clients : server[s] # NoExecutor
  /\ sealed' = TRUE /\ accepting' = TRUE
  /\ UNCHANGED <<server, clients, callVars, mode, control, now, answers>>

-----------------------------------------------------------------------------
(* CallAsync.                                                              *)

\* Mutant: one place too many.
AdmitsOneMore(e) == mode[e] # "closed" /\ Queued(e) <= Capacity

Admits(e) == mode[e] # "closed" /\ Queued(e) < Capacity

\* ScheduleReserved; it finds nothing if the place was taken or discarded.
Scheduled(work, time) ==
  IF work.at \in InQueue /\ mode[work.executor] # "closed"
    THEN [work EXCEPT !.at = "ready", !.time = time]
    ELSE work

\* A call of a client on executor e, up to Reserve.  The deadline is compared with
\* the stamp of the caller's execution context, taken when its callback began.  The
\* id is used up even if the call is refused.
CallAsync(s, e, deadline, stamp) ==
  /\ Unlocked /\ nextId < MaxCalls /\ sealed /\ accepting /\ s \in clients
  /\ deadline # NoDeadline => stamp < deadline
  /\ server[s] # NoExecutor
  /\ LET id == nextId + 1
         phase == IF Admits(e) THEN "pending" ELSE "rejected"
     IN  /\ nextId' = id
         /\ calls' = [calls EXCEPT ![id] =
              [@ EXCEPT !.phase = phase, !.service = s, !.deadline = deadline]]
         /\ IF Admits(e)
              THEN /\ complete' = [complete EXCEPT ![id] =
                        [NoWork EXCEPT !.at = "held", !.executor = e]]
                   /\ calling' = [id |-> id, at |-> "reserved"]
              ELSE UNCHANGED <<complete, calling>>
  /\ UNCHANGED <<registry, invoke, mode, control, now, answers>>

\* TryPost on the server's executor; without a deadline that is all.
CallPost ==
  /\ calling.at = "reserved"
  /\ LET call == calls[calling.id]
         e == server[call.service]
     IN  /\ invoke' = IF Admits(e)
              THEN [invoke EXCEPT ![calling.id] =
                      [NoWork EXCEPT !.at = "ready", !.executor = e, !.time = now]]
              ELSE invoke
         /\ calling' = IF ~Admits(e) THEN [calling EXCEPT !.at = "refused"]
                       ELSE IF call.deadline = NoDeadline THEN NotCalling
                       ELSE [calling EXCEPT !.at = "posted"]
  /\ UNCHANGED <<registry, nextId, calls, complete, mode, control, now, answers>>

\* ScheduleReserved: the deadline is armed.
CallArm ==
  /\ calling.at = "posted" /\ calling' = NotCalling
  /\ complete' = [complete EXCEPT ![calling.id] = Scheduled(@, calls[calling.id].deadline)]
  /\ UNCHANGED <<registry, nextId, calls, invoke, mode, control, now, answers>>

\* CancelReserved, and the Call is erased.
CallUndo ==
  /\ calling.at = "refused" /\ calling' = NotCalling
  /\ complete' = [complete EXCEPT ![calling.id] = NoWork]
  /\ calls' = [calls EXCEPT ![calling.id].phase = "rejected"]
  /\ UNCHANGED <<registry, nextId, invoke, mode, control, now, answers>>

CallStep == CallPost \/ CallArm \/ CallUndo

-----------------------------------------------------------------------------
(* Invoke, on the server's executor.                                       *)

Late(c, time) == calls[c].deadline # NoDeadline /\ time >= calls[c].deadline

\* The call was answered before its turn came.
InvokeTooLate(c) ==
  /\ Unlocked /\ invoke[c].at = "entered" /\ calls[c].completion_done
  /\ calls' = [calls EXCEPT ![c].phase = "erased"]
  /\ invoke' = [invoke EXCEPT ![c].at = "gone"]
  /\ UNCHANGED <<registry, nextId, calling, complete, mode, control, now, answers>>

\* The handler is called unless the deadline has passed.
InvokeEnter(c) ==
  /\ Unlocked /\ invoke[c].at = "entered" /\ ~calls[c].completion_done
  /\ invoke' = [invoke EXCEPT ![c] =
       IF Late(c, @.time) THEN [@ EXCEPT !.at = "returned", !.status = "kTimeout"]
                          ELSE [@ EXCEPT !.at = "user"]]
  /\ UNCHANGED <<registry, nextId, calling, calls, complete, mode, control, now, answers>>

HandlerReturns(c, status) ==
  /\ invoke[c].at = "user"
  /\ invoke' = [invoke EXCEPT ![c].at = "returned", ![c].status = status]
  /\ UNCHANGED <<registry, nextId, calling, calls, complete, mode, control, now, answers>>

\* The clock is read again.  When it fails its status is the answer, and the time
\* is still the one of the execution context.
ReadClock(c, works) ==
  /\ invoke[c].at = "returned"
  /\ invoke' = [invoke EXCEPT ![c] =
       IF works THEN [@ EXCEPT !.at = "clocked", !.time = now,
                               !.status = IF Late(c, now) THEN "kTimeout" ELSE @]
                ELSE [@ EXCEPT !.at = "clocked", !.status = "kInternal"]]
  /\ UNCHANGED <<registry, nextId, calling, calls, complete, mode, control, now, answers>>

\* Mutant: a call that was answered meanwhile is left to others to free.
InvokeFinishNoErase(c) ==
  /\ Unlocked /\ invoke[c].at = "clocked"
  /\ invoke' = [invoke EXCEPT ![c].at = "gone"]
  /\ calls' = [calls EXCEPT ![c].server_done = TRUE, ![c].status = invoke[c].status]
  /\ complete' = [complete EXCEPT ![c] = Scheduled(@, invoke[c].time)]
  /\ UNCHANGED <<registry, nextId, calling, mode, control, now, answers>>

\* Mutant: the completion of an answered call is not armed.
InvokeFinishNoSchedule(c) ==
  /\ Unlocked /\ invoke[c].at = "clocked"
  /\ invoke' = [invoke EXCEPT ![c].at = "gone"]
  /\ IF calls[c].completion_done
       THEN calls' = [calls EXCEPT ![c].server_done = TRUE, ![c].phase = "erased"]
       ELSE calls' = [calls EXCEPT ![c].server_done = TRUE, ![c].status = invoke[c].status]
  /\ UNCHANGED <<registry, nextId, calling, complete, mode, control, now, answers>>

InvokeFinish(c) ==
  /\ Unlocked /\ invoke[c].at = "clocked"
  /\ invoke' = [invoke EXCEPT ![c].at = "gone"]
  /\ IF calls[c].completion_done
       THEN /\ calls' = [calls EXCEPT ![c].server_done = TRUE, ![c].phase = "erased"]
            /\ UNCHANGED complete
       ELSE /\ calls' = [calls EXCEPT ![c].server_done = TRUE, ![c].status = invoke[c].status]
            /\ complete' = [complete EXCEPT ![c] = Scheduled(@, invoke[c].time)]
  /\ UNCHANGED <<registry, nextId, calling, mode, control, now, answers>>

InvokeStep(c) ==
  \/ TakeInvoke(c) \/ InvokeTooLate(c) \/ InvokeEnter(c)
  \/ \E status \in {"kOk", "kInternal"} : HandlerReturns(c, status)
  \/ \E works \in BOOLEAN : ReadClock(c, works)
  \/ InvokeFinish(c)

-----------------------------------------------------------------------------
(* Complete, on the caller's executor.                                     *)

\* Mutant: the response is taken without looking whether there is one.
CompleteEnterUnchecked(c) ==
  /\ Unlocked /\ complete[c].at = "entered"
  /\ complete' = [complete EXCEPT ![c].at = "user",
       ![c].status = IF calls[c].status = "none" THEN "kOk" ELSE calls[c].status]
  /\ UNCHANGED <<registry, nextId, calling, calls, invoke, mode, control, now, answers>>

CompleteEnter(c) ==
  /\ Unlocked /\ complete[c].at = "entered"
  /\ complete' = [complete EXCEPT ![c].at = "user",
       ![c].status = IF ~calls[c].server_done \/ Late(c, complete[c].time) THEN "kTimeout"
                      ELSE calls[c].status]
  /\ UNCHANGED <<registry, nextId, calling, calls, invoke, mode, control, now, answers>>

CompletionReturns(c) ==
  /\ complete[c].at = "user"
  /\ complete' = [complete EXCEPT ![c].at = "returned"]
  /\ answers' = [answers EXCEPT ![c] = Append(@, complete[c].status)]
  /\ UNCHANGED <<registry, nextId, calling, calls, invoke, mode, control, now>>

\* Mutant: the call is freed although its handler may still be running.
CompleteFinishErase(c) ==
  /\ Unlocked /\ complete[c].at = "returned"
  /\ complete' = [complete EXCEPT ![c].at = "gone"]
  /\ calls' = [calls EXCEPT ![c].completion_done = TRUE, ![c].phase = "erased"]
  /\ UNCHANGED <<registry, nextId, calling, invoke, mode, control, now, answers>>

CompleteFinish(c) ==
  /\ Unlocked /\ complete[c].at = "returned"
  /\ complete' = [complete EXCEPT ![c].at = "gone"]
  /\ calls' = [calls EXCEPT ![c].completion_done = TRUE,
                            ![c].phase = IF calls[c].server_done THEN "erased" ELSE @]
  /\ UNCHANGED <<registry, nextId, calling, invoke, mode, control, now, answers>>

CompleteStep(c) ==
  TakeComplete(c) \/ CompleteEnter(c) \/ CompletionReturns(c) \/ CompleteFinish(c)

-----------------------------------------------------------------------------
(* Shutdown, as NodeRuntime does it: close, stop the executors, cancel.    *)

Close ==
  /\ Unlocked /\ control = "running" /\ control' = "stopping" /\ accepting' = FALSE
  /\ UNCHANGED <<server, clients, sealed, callVars, mode, now, answers>>

Discarded(work, e) ==
  IF work.executor = e /\ work.at \in InQueue THEN [work EXCEPT !.at = "gone"] ELSE work

\* One executor after the other; the next one when the threads of this one left.
StopExecutor(e) ==
  /\ control = "stopping" /\ mode[e] # "closed"
  /\ \A f \in Executors : mode[f] = "closed" => Busy(f) = 0
  /\ mode' = [mode EXCEPT ![e] = "closed"]
  /\ invoke' = [c \in Ids |-> Discarded(invoke[c], e)]
  /\ complete' = [c \in Ids |-> Discarded(complete[c], e)]
  /\ UNCHANGED <<registry, nextId, calling, calls, control, now, answers>>

BeginCancel ==
  /\ control = "stopping" /\ \A e \in Executors : mode[e] = "closed" /\ Busy(e) = 0
  /\ control' = "cancelling"
  /\ UNCHANGED <<registry, callVars, mode, now, answers>>

Pending == {c \in Ids : calls[c].phase = "pending"}

\* Mutant: every call left is told that it was cancelled.
CancelAll(c) ==
  /\ control = "cancelling" /\ c \in Pending /\ \A d \in Pending : c <= d
  /\ answers' = [answers EXCEPT ![c] = Append(@, "kCancelled")]
  /\ calls' = [calls EXCEPT ![c].phase = "erased"]
  /\ UNCHANGED <<registry, nextId, calling, invoke, complete, mode, control, now>>

\* CancelPending, for the call at the front of the list.
CancelFront(c) ==
  /\ control = "cancelling" /\ c \in Pending /\ \A d \in Pending : c <= d
  /\ answers' = IF calls[c].completion_done THEN answers
                ELSE [answers EXCEPT ![c] = Append(@, "kCancelled")]
  /\ calls' = [calls EXCEPT ![c].phase = "erased"]
  /\ UNCHANGED <<registry, nextId, calling, invoke, complete, mode, control, now>>

EndCancel ==
  /\ control = "cancelling" /\ Pending = {} /\ control' = "stopped"
  /\ UNCHANGED <<registry, callVars, mode, now, answers>>

ShutdownStep ==
  \/ BeginCancel \/ EndCancel
  \/ \E e \in Executors : StopExecutor(e)
  \/ \E c \in Ids : CancelFront(c)

Next ==
  \/ \E s \in Services :
       \/ RegisterClient(s) \/ \E e \in Hosts : RegisterServer(s, e)
       \/ \E e \in Executors, deadline \in Time, stamp \in 0 .. now :
            CallAsync(s, e, deadline, stamp)
  \/ CallStep \/ Seal \/ Close \/ ShutdownStep \/ Tick
  \/ \E e \in Executors : OpenGate(e)
  \/ \E c \in Ids : InvokeStep(c) \/ CompleteStep(c)

\* NodeRuntime opens every gate, threads run, user code returns, time passes, and
\* a shutdown that has begun goes on.
Fairness ==
  /\ WF_vars(Tick) /\ WF_vars(CallStep) /\ WF_vars(ShutdownStep)
  /\ \A e \in Executors : WF_vars(OpenGate(e))
  /\ \A c \in Ids : WF_vars(InvokeStep(c)) /\ WF_vars(CompleteStep(c))

SafetySpec == Init /\ [][Next]_vars
Spec == SafetySpec /\ Fairness

-----------------------------------------------------------------------------
(* Properties.                                                             *)

\* Every Call has a known phase and status, and reservations included no executor
\* holds more than its capacity.
TypeOK ==
  /\ server \in [Services -> Executors \cup {NoExecutor}] /\ clients \subseteq Services
  /\ sealed \in BOOLEAN /\ accepting \in BOOLEAN /\ nextId \in 0 .. MaxCalls
  /\ calling \in [id : 0 .. MaxCalls, at : {"none", "reserved", "posted", "refused"}]
  /\ calls \in [Ids -> [phase : {"none", "pending", "rejected", "erased"},
                        service : Services \cup {"none"}, deadline : Time, status : Status,
                        server_done : BOOLEAN, completion_done : BOOLEAN]]
  /\ \A work \in {invoke, complete} :
       work \in [Ids -> [at : WorkPoint, executor : Executors \cup {NoExecutor},
                         time : Time, status : Status]]
  /\ mode \in [Executors -> {"gated", "open", "closed"}]
  /\ \A e \in Executors : Queued(e) <= Capacity /\ Busy(e) <= NumThreads
  /\ control \in {"running", "stopping", "cancelling", "stopped"} /\ now \in Time

\* However the handler, the deadline and the shutdown race, the completion of an
\* accepted call is called exactly once, and that of a refused call never.
CompletedExactlyOnce ==
  \A c \in Ids :
    /\ Len(answers[c]) <= (IF calls[c].phase \in {"pending", "erased"} THEN 1 ELSE 0)
    /\ calls[c].phase = "erased" => Len(answers[c]) = 1

\* Work that is queued or running refers to a Call that is still in the list:
\* neither Invoke nor Complete touches a Call the other has freed, and a call that
\* was refused half-way leaves no reserved place behind.
WorkKeepsItsCall ==
  \A c \in Ids : \A work \in {invoke[c], complete[c]} :
    work.at \in InQueue \cup Running => calls[c].phase = "pending"

\* While the node runs, a Call whose two pieces of work are done is freed.
NoCallLeaks ==
  \A c \in Ids :
    (control = "running" /\ invoke[c].at = "gone" /\ complete[c].at = "gone")
      => calls[c].phase = "erased"

\* A client that is told kOk has its call answered by the handler, in time.
OkMeansAnswered ==
  \A c \in Ids :
    (complete[c].at \in {"user", "returned"} /\ complete[c].status = "kOk")
      => calls[c].server_done /\ calls[c].status = "kOk" /\ ~Late(c, invoke[c].time)

\* Every accepted call is answered, with or without a deadline and a shutdown.
CallsAreAnswered ==
  \A c \in Ids : calls[c].phase = "pending" ~> (answers[c] # <<>> \/ calls[c].phase = "rejected")
=============================================================================
