-------------------------------- MODULE Node --------------------------------
(***************************************************************************)
(* A Linux node: NodeRuntime over Supervisor over Runtime, with the        *)
(* executors whose worker threads run Module code                          *)
(* (src/src/platform/linux/node_runtime.cpp and supervisor.cpp).           *)
(*                                                                         *)
(* The controlling thread calls Initialize, Start and Shutdown of          *)
(* NodeRuntime; npc is where it is in them.  Runtime's own steps are those *)
(* of module Runtime, which this module extends; the hook that Runtime     *)
(* calls before it stops Modules is Quiesce, here a sequence of steps.     *)
(* Worker threads take steps of their own between those of the controlling *)
(* thread.                                                                 *)
(*                                                                         *)
(* An executor is abstracted to its state, the Modules that own its queued *)
(* work and the Module each worker is in; module ThreadExecutor has the    *)
(* detail.  An outstanding RPC is abstracted to the Module whose callback  *)
(* awaits it; module RpcManager has the detail.                            *)
(***************************************************************************)
EXTENDS Runtime

CONSTANTS
  NumExecutors,  \* executors.size()
  NumThreads     \* worker threads of an executor

ASSUME ExecutorAssumption == NumExecutors \in Nat /\ NumThreads \in Nat \ {0}

VARIABLES
  node,     \* NodeRuntime: Impl::state
  sup,      \* Supervisor: state_, "none" when there is no Supervisor
  npc,      \* where the controlling thread is in NodeRuntime and Supervisor
  outcome,  \* the state NodeRuntime enters when its Shutdown is done
  step,     \* the executor the loop of Prepare or Activate has reached
  q,        \* where the controlling thread is in Quiesce
  qstep,    \* the executor the loop of Quiesce has reached
  exec,     \* per executor: ThreadExecutorState
  queue,    \* per executor: the Modules that own queued work
  busy,     \* per executor and worker: the Module whose code runs, 0 if none
  pending,  \* the Modules whose RPC callback is outstanding
  closed,   \* ChannelManager and RpcManager are closed
  loaded    \* the Packages are loaded

control == <<node, sup, npc, outcome, step, loaded>>
workers == <<exec, queue, busy, pending>>
nodeVars == <<control, q, qstep, workers, closed>>
allVars == <<vars, nodeVars>>

Executors == 1 .. NumExecutors
Threads == 1 .. NumThreads

SupervisorState == {"kComposing", "kInitialized", "kRunning", "kStopped", "kFailed"}
ExecutorState == {"kConstructed", "kPrepared", "kRunning", "kQuiescing", "kStopped", "kFailed"}
NodePoint == {"idle", "prepare", "prepareFailed", "initialize", "initializeFailed", "start",
              "startFailed", "activate", "shutdown", "stopRuntime", "lastQuiesce"}

\* NodeRuntime registers the ChannelManager and the RpcManager, both fresh, so that
\* no Registry is refused.  A Module may be.
NodeInit ==
  /\ Init
  /\ \A m \in Modules : slots[m].instance_name = NoName
  /\ \A r \in RegistrySlots : ~BadRegistry(r)
  /\ node = "kComposing" /\ sup = "none" /\ npc = "idle" /\ outcome = "kStopped"
  /\ step = 1 /\ q = "none" /\ qstep = 0
  /\ exec = [e \in Executors |-> "kConstructed"]
  /\ queue = [e \in Executors |-> {}]
  /\ busy = [e \in Executors |-> [t \in Threads |-> 0]]
  /\ pending = {}
  /\ closed = FALSE
  /\ loaded = FALSE

-----------------------------------------------------------------------------
(* Quiesce: close admission, shut the executors down last one first, then  *)
(* cancel what is left.                                                    *)

BeginQuiesce == closed' = TRUE /\ q' = "stop" /\ qstep' = NumExecutors

\* Mutant: an executor that still waits at its start gate is not woken.
StopExecutorRunningOnly ==
  /\ q = "stop" /\ qstep # 0
  /\ CASE exec[qstep] = "kConstructed" ->
            /\ exec' = [exec EXCEPT ![qstep] = "kStopped"]
            /\ qstep' = qstep - 1 /\ UNCHANGED <<q, queue>>
       [] exec[qstep] \in {"kStopped", "kQuiescing", "kFailed"} ->
            qstep' = qstep - 1 /\ UNCHANGED <<q, exec, queue>>
       [] exec[qstep] = "kRunning" ->
            /\ exec' = [exec EXCEPT ![qstep] = "kQuiescing"]
            /\ queue' = [queue EXCEPT ![qstep] = {}]
            /\ q' = "join" /\ UNCHANGED qstep
       [] exec[qstep] = "kPrepared" ->
            q' = "join" /\ UNCHANGED <<exec, queue, qstep>>
  /\ UNCHANGED <<vars, control, busy, pending, closed>>

\* ThreadExecutor::Shutdown up to the joins.
StopExecutor ==
  /\ q = "stop" /\ qstep # 0
  /\ CASE exec[qstep] = "kConstructed" ->
            /\ exec' = [exec EXCEPT ![qstep] = "kStopped"]
            /\ qstep' = qstep - 1 /\ UNCHANGED <<q, queue>>
       [] exec[qstep] \in {"kStopped", "kQuiescing", "kFailed"} ->
            qstep' = qstep - 1 /\ UNCHANGED <<q, exec, queue>>
       [] exec[qstep] \in {"kPrepared", "kRunning"} ->
            /\ exec' = [exec EXCEPT ![qstep] = "kQuiescing"]
            /\ queue' = [queue EXCEPT ![qstep] = {}]
            /\ q' = "join" /\ UNCHANGED qstep
  /\ UNCHANGED <<vars, control, busy, pending, closed>>

\* Mutant: the workers are detached instead of joined.
JoinExecutorDetached ==
  /\ q = "join" /\ exec[qstep] = "kQuiescing"
  /\ exec' = [exec EXCEPT ![qstep] = "kStopped"]
  /\ q' = "stop" /\ qstep' = qstep - 1
  /\ UNCHANGED <<vars, control, queue, busy, pending, closed>>

\* The joins return once every worker has left its callback and its loop.
JoinExecutor ==
  /\ q = "join" /\ exec[qstep] = "kQuiescing"
  /\ \A t \in Threads : busy[qstep][t] = 0
  /\ exec' = [exec EXCEPT ![qstep] = "kStopped"]
  /\ q' = "stop" /\ qstep' = qstep - 1
  /\ UNCHANGED <<vars, control, queue, busy, pending, closed>>

\* ClearPending and CancelPending, then the return to whoever called Quiesce:
\* Runtime through its hook, or one of the functions below.
EndQuiesce ==
  /\ q = "stop" /\ qstep = 0
  /\ q' = "none" /\ pending' = {}
  /\ CASE pc = "hook" -> RunHook /\ UNCHANGED control
       [] npc \in {"prepareFailed", "initializeFailed"} ->
            /\ sup' = "kFailed" /\ npc' = "shutdown" /\ outcome' = "kFailed"
            /\ UNCHANGED <<vars, node, step, loaded>>
       [] npc = "startFailed" ->
            /\ sup' = "kFailed" /\ node' = "kFailed" /\ npc' = "shutdown"
            /\ outcome' = "kFailed"
            /\ UNCHANGED <<vars, step, loaded>>
       [] npc = "lastQuiesce" ->
            /\ sup' = "none" /\ loaded' = FALSE /\ node' = outcome /\ npc' = "idle"
            /\ UNCHANGED <<vars, outcome, step>>
  /\ UNCHANGED <<qstep, exec, queue, busy, closed>>

-----------------------------------------------------------------------------
(* Initialize.                                                             *)

\* NodeRuntime::Initialize: builds the Supervisor, the executors and the
\* Modules.  ok is FALSE when a Package or a Module could not be had.
InitializeNode(ok) ==
  /\ npc = "idle" /\ node = "kComposing"
  /\ sup' = "kComposing" /\ loaded' = TRUE
  /\ npc' = IF ok THEN "prepare" ELSE "shutdown"
  /\ outcome' = IF ok THEN outcome ELSE "kFailed"
  /\ UNCHANGED <<vars, node, step, q, qstep, workers, closed>>

\* ThreadExecutor::Prepare for the next executor; on failure Impl::Prepare quiesces.
PrepareExecutor(ok) ==
  /\ npc = "prepare" /\ step \in Executors
  /\ exec' = [exec EXCEPT ![step] = IF ok THEN "kPrepared" ELSE "kFailed"]
  /\ IF ok THEN step' = step + 1 /\ UNCHANGED <<npc, q, qstep, closed>>
           ELSE npc' = "prepareFailed" /\ BeginQuiesce /\ UNCHANGED step
  /\ UNCHANGED <<vars, node, sup, outcome, loaded, queue, busy, pending>>

\* Supervisor::Initialize goes on to Runtime::Initialize.
InitializeRuntime ==
  /\ npc = "prepare" /\ step \notin Executors
  /\ Initialize
  /\ npc' = "initialize"
  /\ UNCHANGED <<node, sup, outcome, step, loaded, q, qstep, workers, closed>>

\* Mutant: when Runtime::Initialize fails, neither Supervisor nor NodeRuntime cleans up.
InitializeReturnsNoQuiesce ==
  /\ npc = "initialize" /\ pc = "idle" /\ q = "none"
  /\ IF state = "kInitialized"
       THEN sup' = "kInitialized" /\ node' = "kInitialized" /\ npc' = "idle"
            /\ UNCHANGED <<q, qstep, closed>>
       ELSE npc' = "idle" /\ node' = "kFailed" /\ UNCHANGED <<q, qstep, closed, sup>>
  /\ UNCHANGED <<vars, outcome, step, loaded, workers>>

\* Runtime::Initialize has returned to Supervisor::Initialize.
InitializeReturns ==
  /\ npc = "initialize" /\ pc = "idle" /\ q = "none"
  /\ IF state = "kInitialized"
       THEN sup' = "kInitialized" /\ node' = "kInitialized" /\ npc' = "idle"
            /\ UNCHANGED <<q, qstep, closed>>
       ELSE npc' = "initializeFailed" /\ BeginQuiesce /\ UNCHANGED <<node, sup>>
  /\ UNCHANGED <<vars, outcome, step, loaded, workers>>

-----------------------------------------------------------------------------
(* Start.                                                                  *)

\* Mutant: the executors are activated before the Modules are started.
StartNodeActivateFirst ==
  /\ npc = "idle" /\ node = "kInitialized"
  /\ Start
  /\ exec' = [e \in Executors |-> "kRunning"]
  /\ npc' = "start"
  /\ UNCHANGED <<node, sup, outcome, step, loaded, q, qstep, queue, busy, pending, closed>>

StartNode ==
  /\ npc = "idle" /\ node = "kInitialized"
  /\ Start
  /\ npc' = "start"
  /\ UNCHANGED <<node, sup, outcome, step, loaded, q, qstep, workers, closed>>

\* Runtime::Start has returned to Supervisor::Start.
StartReturns ==
  /\ npc = "start" /\ pc = "idle" /\ q = "none"
  /\ IF state = "kRunning"
       THEN npc' = "activate" /\ step' = 1 /\ UNCHANGED <<q, qstep, closed>>
       ELSE npc' = "startFailed" /\ BeginQuiesce /\ UNCHANGED step
  /\ UNCHANGED <<vars, node, sup, outcome, loaded, workers>>

\* ThreadExecutor::Activate opens the start gate of the next executor.  Its error
\* path needs an executor that is not kPrepared; if there could be one, the
\* controlling thread would be stuck here and CallsReturn would not hold.
ActivateExecutor ==
  /\ npc = "activate" /\ step \in Executors /\ exec[step] = "kPrepared"
  /\ exec' = [exec EXCEPT ![step] = "kRunning"]
  /\ step' = step + 1
  /\ UNCHANGED <<vars, node, sup, npc, outcome, loaded, q, qstep, queue, busy, pending, closed>>

EndActivate ==
  /\ npc = "activate" /\ step \notin Executors
  /\ sup' = "kRunning" /\ node' = "kRunning" /\ npc' = "idle"
  /\ UNCHANGED <<vars, outcome, step, loaded, q, qstep, workers, closed>>

-----------------------------------------------------------------------------
(* Shutdown.                                                               *)

ShutdownNode ==
  /\ npc = "idle"
  /\ npc' = "shutdown" /\ outcome' = "kStopped"
  /\ UNCHANGED <<vars, node, sup, step, loaded, q, qstep, workers, closed>>

\* Supervisor::Shutdown, when there is a Supervisor: Runtime::Shutdown, which does
\* something only when Runtime is not already stopped or failed.
ShutdownRuntime ==
  /\ npc = "shutdown"
  /\ npc' = "stopRuntime"
  /\ IF sup \in {"kInitialized", "kRunning"} THEN Shutdown ELSE UNCHANGED vars
  /\ UNCHANGED <<node, sup, outcome, step, loaded, q, qstep, workers, closed>>

ShutdownReturns ==
  /\ npc = "stopRuntime" /\ pc = "idle" /\ q = "none"
  /\ sup' = IF sup \in {"none", "kComposing"} THEN sup ELSE "kStopped"
  /\ npc' = "lastQuiesce" /\ BeginQuiesce
  /\ UNCHANGED <<vars, node, outcome, step, loaded, workers>>

-----------------------------------------------------------------------------
(* Runtime under the Supervisor: its loops go on by themselves, and its    *)
(* hook is Quiesce.                                                        *)

RuntimeLoop == q = "none" /\ LoopStep /\ UNCHANGED nodeVars

CallHook ==
  /\ pc = "hook" /\ q = "none"
  /\ IF count # 0 THEN BeginQuiesce /\ UNCHANGED vars
                  ELSE RunHook /\ UNCHANGED <<closed, q, qstep>>
  /\ UNCHANGED <<control, workers>>

-----------------------------------------------------------------------------
(* The worker threads and the Modules.                                     *)

\* Module code runs or is called only between its Initialize and its Shutdown.
Alive(m) == m \in initialized /\ stopCalls[m] = 0

\* Enqueue rejects work in every other state.
Accepts(e) == exec[e] \in {"kPrepared", "kRunning"}

\* Mutant: the queue keeps accepting work while the workers are joined.
PostWhileQuiescing(e, m) ==
  /\ Alive(m) /\ exec[e] \in {"kPrepared", "kRunning", "kQuiescing", "kStopped"}
  /\ m \notin queue[e]
  /\ queue' = [queue EXCEPT ![e] = @ \cup {m}]
  /\ UNCHANGED <<vars, control, q, qstep, exec, busy, pending, closed>>

\* A Module, or a publication to one of its subscriptions, posts work for it.
Post(e, m) ==
  /\ Alive(m) /\ Accepts(e) /\ m \notin queue[e]
  /\ queue' = [queue EXCEPT ![e] = @ \cup {m}]
  /\ UNCHANGED <<vars, control, q, qstep, exec, busy, pending, closed>>

\* A worker takes work, once the start gate is open.
Take(e, t, m) ==
  /\ exec[e] = "kRunning" /\ busy[e][t] = 0 /\ m \in queue[e]
  /\ queue' = [queue EXCEPT ![e] = @ \ {m}]
  /\ busy' = [busy EXCEPT ![e][t] = m]
  /\ UNCHANGED <<vars, control, q, qstep, exec, pending, closed>>

\* The callback returns.
Finish(e, t) ==
  /\ busy[e][t] # 0
  /\ busy' = [busy EXCEPT ![e][t] = 0]
  /\ UNCHANGED <<vars, control, q, qstep, exec, queue, pending, closed>>

\* Mutant: RpcManager accepts calls after Close.
CallWhenClosed(m) ==
  /\ Alive(m) /\ m \notin pending
  /\ \A r \in RegistrySlots : sealed[registries[r]]
  /\ pending' = pending \cup {m}
  /\ UNCHANGED <<vars, control, q, qstep, exec, queue, busy, closed>>

\* RpcManager admits a call of a Module until Quiesce closes it.
Call(m) ==
  /\ Alive(m) /\ m \notin pending /\ ~closed
  /\ \A r \in RegistrySlots : sealed[registries[r]]
  /\ pending' = pending \cup {m}
  /\ UNCHANGED <<vars, control, q, qstep, exec, queue, busy, closed>>

\* The completion or the timeout of a call runs on the client's executor.
Answer(e, t, m) ==
  /\ exec[e] = "kRunning" /\ busy[e][t] = 0 /\ m \in pending
  /\ pending' = pending \ {m}
  /\ busy' = [busy EXCEPT ![e][t] = m]
  /\ UNCHANGED <<vars, control, q, qstep, exec, queue, closed>>

-----------------------------------------------------------------------------
QuiesceStep == StopExecutor \/ JoinExecutor \/ EndQuiesce

\* What the controlling thread does inside a call it has made.
ControlStep ==
  \/ QuiesceStep \/ RuntimeLoop \/ CallHook
  \/ \E ok \in BOOLEAN : PrepareExecutor(ok)
  \/ InitializeRuntime \/ InitializeReturns
  \/ StartReturns \/ ActivateExecutor \/ EndActivate
  \/ ShutdownRuntime \/ ShutdownReturns

\* The calls it makes, one after the other.
CallStep ==
  \/ \E ok \in BOOLEAN : InitializeNode(ok)
  \/ StartNode \/ ShutdownNode

WorkerStep ==
  \/ \E e \in Executors, m \in Modules : Post(e, m)
  \/ \E e \in Executors, t \in Threads, m \in Modules : Take(e, t, m) \/ Answer(e, t, m)
  \/ \E e \in Executors, t \in Threads : Finish(e, t)
  \/ \E m \in Modules : Call(m)

NodeNext == ControlStep \/ CallStep \/ WorkerStep

\* The controlling thread runs, and the callbacks of Modules return.
Fairness ==
  /\ WF_allVars(ControlStep)
  /\ \A e \in Executors, t \in Threads : WF_allVars(Finish(e, t))

NodeSpec == NodeInit /\ [][NodeNext]_allVars /\ Fairness

-----------------------------------------------------------------------------
(* Properties.                                                             *)

\* The states of the Runtime, the Supervisor and the executors are those of their
\* enumerations, and the loops over the executors stay within bounds.
NodeTypeOK ==
  /\ TypeOK
  /\ node \in SupervisorState /\ sup \in SupervisorState \cup {"none"}
  /\ npc \in NodePoint /\ outcome \in {"kStopped", "kFailed"}
  /\ step \in 1 .. NumExecutors + 1
  /\ q \in {"none", "stop", "join"} /\ qstep \in 0 .. NumExecutors
  /\ exec \in [Executors -> ExecutorState]
  /\ queue \in [Executors -> SUBSET Modules]
  /\ busy \in [Executors -> [Threads -> Modules \cup {0}]]
  /\ pending \subseteq Modules
  /\ closed \in BOOLEAN /\ loaded \in BOOLEAN

\* A Module's Shutdown is called only when no worker thread can be in, or ever
\* enter, the code of any Module: every executor that had workers is joined.
NoWorkAfterModuleShutdown ==
  (\E m \in Modules : stopCalls[m] > 0) =>
    /\ \A e \in Executors, t \in Threads : busy[e][t] = 0
    /\ \A e \in Executors : exec[e] \in {"kStopped", "kFailed"}

\* Worker threads run no Module code before every Module has been started,
\* although Modules may post work from their Initialize on.
StartGateHoldsWork ==
  (\E e \in Executors, t \in Threads : busy[e][t] # 0) =>
    started = Modules /\ initialized = Modules

\* A Module is never shut down with an RPC callback outstanding: cancellation
\* callbacks run while the Modules still exist, and nothing is admitted later.
RpcSettledBeforeModules ==
  \A m \in pending : Alive(m)

\* Packages are unloaded only when no thread runs or can come to run their code,
\* every Module made from them is stopped, and nothing is queued or outstanding.
PackagesOutliveTheirCode ==
  (node # "kComposing" /\ ~loaded) =>
    /\ \A e \in Executors : exec[e] \in {"kStopped", "kFailed"} /\ queue[e] = {}
    /\ \A e \in Executors, t \in Threads : busy[e][t] = 0
    /\ \A m \in Modules : ~Alive(m)
    /\ pending = {}

\* A node that reports an end state has no executor thread left: none running,
\* none waiting at the start gate, on the failure paths as well.
NothingLeftRunning ==
  (npc = "idle" /\ node \in {"kStopped", "kFailed"}) =>
    ~loaded /\ sup = "none" /\ \A e \in Executors : exec[e] \in {"kStopped", "kFailed"}

\* Each call of the controlling thread returns, if the callbacks of Modules do:
\* the joins are not stuck behind a queue or a closed gate.
CallsReturn == npc # "idle" ~> npc = "idle"
=============================================================================
