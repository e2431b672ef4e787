# Formal model of AsterCtrl

AsterCtrl is a runtime for robot controllers on Linux and Zephyr. A *node* loads
Modules, wires them through Channels (publish/subscribe) and RPC, runs their
callbacks on executors and connects to other nodes over CAN and USB. This
directory holds TLA+ specifications of it, TLC configurations and TLAPS proofs.
`PROJECT.json` maps every definition to the lines it models and lists the runs,
the mutants that show each property can fail, the hazards and the findings.

## Parts of the system and how they interact

| Part | State | Operations | What makes it hard |
| --- | --- | --- | --- |
| Runtime | lifecycle state, count of initialized Modules, failure record | Initialize, Start, Shutdown | every call may fail; exact rollback |
| NodeRuntime, Supervisor | node state, executors, RPC and Channel managers, Packages | Initialize, Start, Shutdown, Quiesce | worker threads run during all of it |
| ThreadExecutor (Linux) | bounded queue, start gate, workers | Prepare, Activate, TryPost, Reserve, Shutdown | condition variables, several workers |
| ChannelManager (Linux) | topics, list of Deliveries | Register, Seal, Publish, Deliver, Close, ClearPending | raw pointers in executor queues |
| RpcManager (Linux) | registered services, pending calls | CallAsync, Invoke, Complete, CancelPending | completion races timeout and shutdown |
| CAN reliable path | sender, 4-bit sequence, reassembly | Send, Poll, Accept | loss, repetition, retry, wrap-around |
| CAN fast path | 6-bit sequence, reassembly | Send, Accept | loss, partial writes, wrap-around |
| CAN RPC bridge | pending call, two reliable senders | CallAsync, Accept, Poll, ResetPeer | two stop-and-wait paths and a deadline |
| CAN link control | handshake, heartbeat, clock, gate | Poll, Accept | peer restarts, time-outs |
| CAN transport module | route table | PollOnce, Accept, ResetPeerRoutes | resets all routes after a peer restart |
| Zephyr CAN device | queues shared with interrupts | Start, Send, Poll, Stop | interrupts race every operation |
| Zephyr executor, LocalChannel, LocalRpc | message queue, fixed slots | TryPostAt, Publish, CallAsync | slots lost at shutdown, head of line |
| USB stream | receive buffer | Send, Poll | framing errors |
| Configuration, plugins, CLI | documents, loaded libraries | parse, load, generate | pure data |

NodeRuntime owns the executors, ChannelManager, RpcManager and (through
Supervisor) the Runtime. Runtime calls Modules in order; Modules post work on
executors from the first Initialize on, but a gate holds it until everything has
started. On shutdown Runtime calls one hook, Quiesce, before it stops the first
Module: the managers are closed, the executors joined, and what was left over is
cleared or cancelled. The CAN transport module polls the link control and all
routes from one executor; a route is a fast path, a reliable path or an RPC bridge.

## Modules

| Module | Models | Kind |
| --- | --- | --- |
| `Runtime` | `src/core/runtime.cpp` | one step per call into a Module, Registry or the hook |
| `RuntimeProofs` | | TLAPS proofs about `Runtime` |
| `Node` | `platform/linux/node_runtime.cpp`, `supervisor.cpp` | composition: extends `Runtime`, adds executors and worker threads |
| `WorkQueue` | | abstract specification of an executor |
| `ThreadExecutor` | `platform/linux/runtime_services.hpp` | refines `WorkQueue`; each critical section is a step |
| `ChannelManager` | `platform/linux/channel_manager.cpp` | Channels over abstract executors |
| `RpcManager` | `platform/linux/rpc_manager.cpp` | RPC over abstract executors |
| `CanReliable` | `transport/can/reliable_path.hpp` | sender and receiver as operators |
| `AcknowledgedChannel` | | abstract specification of the reliable path |
| `ReliablePath` | `reliable_channel_bridge.hpp` | egress, bus and ingress; refines `AcknowledgedChannel` |
| `FastPath` | `fast_path.hpp`, `channel_bridge.hpp` | egress, bus and reassembler |
| `CanRpc` | `rpc_bridge.hpp` | client, server and two directions of the bus |

Each system that is checked has an `MC` module and one `.cfg` per run; `Runtime` is
checked inside `Node`. Correspondence in short:

* **Runtime**: `pc`, `index` are the loop of the controlling thread; `count` is
  `initialized_module_count_`. `Initialize` validates slots as the code does;
  any call may fail and enters the same unwinding the code runs.
* **Node**: `npc` is the controlling thread in NodeRuntime and Supervisor, `q`
  its place in Quiesce; workers take and finish work in between. Work is known
  only by the Module it belongs to.
* **ThreadExecutor**: a step is what is done under the mutex; notifications, the
  clock read of TryPost, joins and the work are separate steps. So is the call of
  the work: a thread first removes an entry (`Take`, under the mutex), and between
  that and the call (`RunWork`) another thread of the pool may take and call later
  work, or Shutdown may begin. `WorkQueue` keeps the two apart as well.
  `wait` and `wait_for` are states of a worker that NotifyOne, NotifyAll, a
  time-out or a spurious wake-up ends.
* **ChannelManager**: Publish is PublishBegin, one PublishPost per subscriber and
  PublishEnd under the mutex, so that workers run between the posts. A thread takes
  a Delivery (`DeliverTake`), enters the callback later and without the mutex
  (`DeliverEnter`) and erases the Delivery under it (`DeliverFinish`). An executor
  in `Serial` has one thread and keeps the order of the messages; in a pool, a
  message may overtake one that another thread holds.
* **RpcManager**: Invoke and Complete are split at the points where the code
  releases the mutex; each executor's queue and threads are abstract. CallAsync
  keeps the mutex but calls two executors: Reserve, TryPost and, after it,
  ScheduleReserved or CancelReserved are steps during which everyone else waits for
  the mutex while the executors take work. Its deadline is compared with the time
  stamp of the caller's callback, which may be old.
* **CanReliable/ReliablePath/FastPath**: fragments carry the message they belong
  to, so that a mixed reassembly is visible; `content` and `parity` are history
  variables that show torn and repeated messages.
* **CanRpc**: `Accept`, `Poll` and `CallAsync` of both ends, each with the number
  of frames the writer accepts. A deadline is reduced to whether there is one.

## Runs

Bounds are the constants of the `.cfg` named in `PROJECT.json`.

| Run | Shows | Bounds and why they are enough |
| --- | --- | --- |
| `node` | exact unwinding, order, start gate, hook and failure record of `Runtime`; no work after a Module's shutdown, Packages outlive code, nothing left running, calls return | 2 Modules, 2 Registries, all valid and invalid Module slots (NodeRuntime registers two fresh Registries, so refused ones occur in the proofs about `Runtime` only), 2 executors of 1 thread, any call failing: the first and the last Module, before and after any work was posted |
| `executor` | queue accounting, nothing runs after a join, order of posts, refinement of `WorkQueue`, armed work begins, Shutdown returns | 2 workers, 1 posting thread, 2 slots, 3 tickets: full queue, reuse of a slot, timers that overtake |
| `rpc_manager` | one callback per call, no freed Call is used, none leaks, all are answered | 2 calls, 2 executors of 2 threads, the service on one and callers on both (the executors are alike, so the other choice adds nothing), queues of 2: a call refused by the server's queue after its place was reserved; deadline before, during and after the handler |
| `channels` | no freed or leaked Delivery, order per subscriber, kOk means every subscriber, accepted messages are handed over | 1 Channel with up to 2 subscribers on a pool of 2 threads and a serial executor; 3 messages let the sequence wrap (UINT32_MAX is 2) |
| `reliable_path` | refinement of `AcknowledgedChannel`, no torn message, the sender settles | 10 messages of up to 2 fragments and 8 numbers, so they turn over with any number of messages lost; 1 retry, 1 repeated frame |
| `fast_path` | order, at most once, whole samples within the window arrive, a torn sample needs a rejected write or a whole turn of the numbers | 18 samples of up to 2 fragments and 16 numbers, so they turn over with any number of samples lost; 2 rejected or repeated frames |
| `can_rpc` | one outcome per call, kOk from its own handler, a request is executed at most once by a server | 2 calls of 1 frame, 1 retry, 1 rejected write and 1 restart of the server at any place |

`CHECK_DEADLOCK FALSE` is used where a behaviour may end: the node has stopped, or
all messages the bound allows have been dealt with.

Losses on the bus are not bounded. The passing runs of the two CAN paths use fewer
sequence numbers than the code (`SequenceModulus` 8 instead of 16, 16 instead of
64; the window is half of them less one in both) so that whole turns of the
numbers are within reach; the runs of the findings and of `CanRpc` use the code's.
What a finite number cannot tell apart is stated in the properties themselves, and
the limits are exact (each run reaches them):

* a fast sample is refused as old when as many samples as the window holds (31)
  were not delivered before it (`WholeSampleDelivered`);
* an incomplete fast sample stays until another one supersedes it, since the
  reassembler has no time-out. After 31 samples lost with all their frames the
  next 32 are refused as old, and the 64th is then completed with the old
  fragments (`TornOnlyAfterRejection` allows this case and no other). The reliable
  path has the same limit at 16 messages when no reassembly deadline removes the
  fragments (`NoTornMessage`);
* a reliable message sixteen after the last delivered one is acknowledged without
  being delivered (`AcknowledgedChannel`, `Turn`; run `reliable_outage`).

Frames of the reliable path outlive the sending of one more message at most
(`MaxDelay`). Two calls of `can_rpc` do not repeat a sequence number.

### Fairness

Worker threads and the controlling thread that can run do run, callbacks return,
and time passes (weak fairness): the operating system schedules threads and a
Module that never returns blocks its own executor by design. On CAN the transport
module polls its routes periodically, so Poll and Accept are weakly fair; the
reliable path also assumes that a writer that is tried again and again accepts a
frame in the end (strong fairness of pumping), since its queue drains. That leaves
out a peer that stays lost: the link control then keeps the application gate closed
(`link_control.hpp:340`), the writer rejects, and a sender waits as long. No run
assumes that the bus delivers: losses are unrestricted, and liveness means an
answer or a time-out. `SpecLongWork` leaves out that callbacks return.

### Findings (runs that are expected to be violated)

| Run | What the code does |
| --- | --- |
| `reliable_outage` | after seven lost messages in a row the receiver refuses the next ones, and one that comes sixteen after the last completed one is acknowledged without being delivered |
| `fast_torn` | a write rejected in the middle of a sample leaves the sequence number unchanged, and the next sample is mixed with the old one |
| `executor_long_work` | a post may wake the thread that watches a timer; the timer is then watched by nobody while an idle thread waits |
| `can_rpc_client_wedge` | when the acknowledgement of a request is lost and its response is not, the sender stays busy and every later call fails |
| `can_rpc_server_wedge` | after a rejected write of a response nobody pumps the sender again and every later request is dropped |

## Proofs

`RuntimeProofs` proves, for every number of Modules and Registries and with or
without a hook (assumptions `SizeAssumption`, `HookAssumption`), that `Runtime`
satisfies `TypeOK`, `UnwoundExactlyOnce`, `ReverseOrder`, `StartGate`,
`HookBeforeModules` and `FailureNamesTheCause`.

None of these is inductive: that a Module is shut down once at the end follows
only from where the loops stand in between. The invariant `IInv` adds

* `Balance`: a Module has been shut down exactly if it was initialized and lies
  beyond `count`, so the count is the boundary of what is still to be unwound;
* `AtControlPoint`: what each loop has done at its index;
* `Registered`: slots point to Registries and sealed ones stay sealed;
* `Recorded`: the failure record agrees with what was initialized and started.

There is one lemma per action; `NextIInv` combines them and the theorems follow.
TLC checks the same properties in run `node`, where `Runtime` takes its steps between
those of the node.

Model-checked only: everything else, in particular all liveness (fairness and
ENABLED are outside the prover), both refinements and the CAN paths.

## Not modelled, and why

Bit layouts and codecs, name resolution, type descriptors, payloads, statistics
and diagnostics are abstracted everywhere. YAML configuration, the C ABI adapters,
the SocketCAN and tty adapters are data or system calls without protocol state. The
Python CLI runs offline. The clock does not fail in `CanRpc`. A restart of the
client, ResetPeer of the server and of the Channel routes, and the application gate
need the link control and come with it. The rate limit and the time stamps of the
fast path are left out.

## Plan

1. **LinkControl**: handshake, heartbeats, restart detection, time synchronisation
   and the gate (`link_control.hpp`, `control_plane.hpp`) between two nodes that
   restart; then its composition with `CanRpc` and the reliable path
   (`channel_transport_module.hpp`): nothing of an old session is taken for new.
   To look at there: observations stamped after the poll time (unsigned difference),
   rejected heartbeats that used a sequence number, frames refused because the
   synchronised time stepped back.
2. **CanDevice**: interrupts against Send, Poll and Stop of the Zephyr adapter:
   every frame counted once, no callback after Stop, no deadlock of the mutexes
   (Stop releases the control mutex to take the poll mutex).
3. **Zephyr executor, LocalChannel, LocalRpc, RpcRouter** and StaticNodeRuntime;
   work that is due waits behind the head of the queue there.
4. **USB**: COBS as a recursive operator checked against its inverse, the packet
   stream with lost and damaged bytes (a refused packet ends Poll and drops the rest); then generic routing and peer registry.
5. **PluginLoader** reference counts; time stamps and freshness; graph algorithms
   of the CLI as operators over small inputs.
6. **Proofs**: that expanding a truncated time stamp inverts it in range; the
   invariants of `ChannelManager` and `RpcManager`; `ThreadExecutor` implements
   `WorkQueue`; at-most-once of the sequence window of `CanReliable`.
