------------------------------ MODULE Runtime ------------------------------
(***************************************************************************)
(* The lifecycle owner aster::Runtime (src/src/core/runtime.cpp).          *)
(*                                                                         *)
(* A Runtime holds an array of Module slots and an array of Registry slots *)
(* and drives them through Initialize, Start and Shutdown.  All three are  *)
(* called by one controlling thread; what makes them hard is that every    *)
(* call into a Module or a Registry may fail, and that a failure anywhere  *)
(* must unwind exactly the Modules that were touched, last one first.      *)
(*                                                                         *)
(* A step of this module is one call into a Module, a Registry or the      *)
(* before_modules_shutdown hook, so that the modules which compose this    *)
(* one (Node) can interleave executor threads between the calls.           *)
(***************************************************************************)
EXTENDS Integers, FiniteSets

CONSTANTS
  NumModules,      \* modules_.size()
  NumRegistries,   \* registries_.size()
  Names,           \* the Module type names and non-empty instance names
  RegistryObjects, \* the Registry objects a slot may point to
  NoName,          \* the empty instance name of a slot
  NullRegistry,    \* the null pointer in a Registry slot
  HasHook          \* hooks_.before_modules_shutdown # nullptr

ASSUME SizeAssumption == NumModules \in Nat /\ NumRegistries \in Nat
ASSUME HookAssumption == HasHook \in BOOLEAN

VARIABLES
  slots,        \* per Module: is it valid, instance name, type name
  registries,   \* per Registry slot: the object it points to
  sealed,       \* per Registry object: sealed()
  state,        \* state_
  count,        \* initialized_module_count_
  failure,      \* failure_
  pc,           \* where the controlling thread is
  index,        \* the loop index of the call in progress
  unwindTo,     \* the state_ assigned when the unwinding in progress ends
  initialized,  \* history: Modules whose Initialize was called
  started,      \* history: Modules whose Start was called
  stopCalls,    \* history: how often each Module's Shutdown was called
  hookCalls     \* history: how often the hook was called

vars == <<slots, registries, sealed, state, count, failure, pc, index,
          unwindTo, initialized, started, stopCalls, hookCalls>>

Modules == 1 .. NumModules
RegistrySlots == 1 .. NumRegistries

RuntimeState == {"kConstructed", "kInitializing", "kInitialized", "kStarting",
                 "kRunning", "kShuttingDown", "kStopped", "kFailed"}

\* "idle": no call in progress; the others name the loop being executed.
ControlPoint == {"idle", "initialize", "seal", "start", "hook", "unwind"}

NoFailure == [operation |-> "none", index |-> 0]
Failure == [operation : {"none", "kModuleValidation", "kRegistryValidation",
                         "kInitialize", "kSeal", "kStart"}, index : Nat]
Slot == [valid : BOOLEAN, instance_name : Names \cup {NoName}, name : Names]

Init ==
  /\ slots \in [Modules -> Slot]
  /\ registries \in [RegistrySlots -> RegistryObjects \cup {NullRegistry}]
  /\ sealed \in [RegistryObjects -> BOOLEAN]
  /\ state = "kConstructed"
  /\ count = 0
  /\ failure = NoFailure
  /\ pc = "idle"
  /\ index = 0
  /\ unwindTo = "kStopped"
  /\ initialized = {}
  /\ started = {}
  /\ stopCalls = [m \in Modules |-> 0]
  /\ hookCalls = 0

-----------------------------------------------------------------------------
(* Validate: the first slot that is wrong decides the failure.             *)

EffectiveName(m) ==
  IF slots[m].instance_name = NoName THEN slots[m].name ELSE slots[m].instance_name

BadModule(m) ==
  \/ ~slots[m].valid
  \/ \E p \in 1 .. m - 1 : EffectiveName(p) = EffectiveName(m)

BadRegistry(r) ==
  \/ registries[r] = NullRegistry
  \/ registries[r] # NullRegistry /\ sealed[registries[r]]
  \/ \E p \in 1 .. r - 1 : registries[p] = registries[r]

\* Validate returns at the first slot that is wrong, Modules before Registries.
FirstBadModule(m) == BadModule(m) /\ \A p \in 1 .. m - 1 : ~BadModule(p)
FirstBadRegistry(r) ==
  /\ \A m \in Modules : ~BadModule(m)
  /\ BadRegistry(r) /\ \A p \in 1 .. r - 1 : ~BadRegistry(p)

Valid ==
  /\ \A m \in Modules : ~BadModule(m)
  /\ \A r \in RegistrySlots : ~BadRegistry(r)

-----------------------------------------------------------------------------
(* The three calls of the controlling thread.  In every other state_ they  *)
(* return kInvalidState (or, for Shutdown, nothing) and change nothing.    *)

history == <<initialized, started, stopCalls, hookCalls>>
composition == <<slots, registries>>

RejectComposition(operation, slot) ==
  /\ failure' = [operation |-> operation, index |-> slot]
  /\ state' = "kFailed"
  /\ UNCHANGED <<pc, index>>

Initialize ==
  /\ pc = "idle" /\ state = "kConstructed"
  /\ \/ \E m \in Modules :
          FirstBadModule(m) /\ RejectComposition("kModuleValidation", m)
     \/ \E r \in RegistrySlots :
          FirstBadRegistry(r) /\ RejectComposition("kRegistryValidation", r)
     \/ /\ Valid
        /\ state' = "kInitializing" /\ pc' = "initialize" /\ index' = 1
        /\ UNCHANGED failure
  /\ UNCHANGED <<sealed, count, unwindTo, composition, history>>

Start ==
  /\ pc = "idle" /\ state = "kInitialized"
  /\ state' = "kStarting" /\ pc' = "start" /\ index' = 1
  /\ UNCHANGED <<sealed, count, failure, unwindTo, composition, history>>

Shutdown ==
  /\ pc = "idle" /\ state \notin {"kStopped", "kFailed"}
  /\ IF state = "kConstructed"
       THEN state' = "kStopped" /\ UNCHANGED <<pc, unwindTo>>
       ELSE state' = "kShuttingDown" /\ pc' = "hook" /\ unwindTo' = "kStopped"
  /\ UNCHANGED <<sealed, count, failure, index, composition, history>>

-----------------------------------------------------------------------------
(* The loops of Initialize and Start.                                      *)

\* Mutant: the failure is recorded against the previous slot.
FailAndUnwindOffByOne(operation) ==
  /\ failure' = [operation |-> operation, index |-> index - 1]
  /\ pc' = "hook" /\ unwindTo' = "kFailed"
  /\ UNCHANGED index

\* RecordFailure, then ShutdownInitializedModules with state_ = kFailed after it.
FailAndUnwind(operation) ==
  /\ failure' = [operation |-> operation, index |-> index]
  /\ pc' = "hook" /\ unwindTo' = "kFailed"
  /\ UNCHANGED index

\* Mutant: the Module is counted only once its Initialize has succeeded.
InitializeModuleCountedAfter(ok) ==
  /\ pc = "initialize" /\ index \in Modules
  /\ count' = IF ok THEN index ELSE count
  /\ initialized' = initialized \cup {index}
  /\ IF ok THEN index' = index + 1 /\ UNCHANGED <<pc, failure, unwindTo>>
           ELSE FailAndUnwind("kInitialize")
  /\ UNCHANGED <<sealed, state, started, stopCalls, hookCalls, composition>>

\* initialized_module_count_ counts the Module before its Initialize runs.
InitializeModule(ok) ==
  /\ pc = "initialize" /\ index \in Modules
  /\ count' = index
  /\ initialized' = initialized \cup {index}
  /\ IF ok THEN index' = index + 1 /\ UNCHANGED <<pc, failure, unwindTo>>
           ELSE FailAndUnwind("kInitialize")
  /\ UNCHANGED <<sealed, state, started, stopCalls, hookCalls, composition>>

\* Mutant: the registries are not sealed before kInitialized.
BeginSealSkipped ==
  /\ pc = "initialize" /\ index \notin Modules
  /\ pc' = "seal" /\ index' = NumRegistries + 1
  /\ UNCHANGED <<sealed, state, count, failure, unwindTo, composition, history>>

BeginSeal ==
  /\ pc = "initialize" /\ index \notin Modules
  /\ pc' = "seal" /\ index' = 1
  /\ UNCHANGED <<sealed, state, count, failure, unwindTo, composition, history>>

SealRegistry(ok) ==
  /\ pc = "seal" /\ index \in RegistrySlots
  /\ IF ok THEN /\ sealed' = [sealed EXCEPT ![registries[index]] = TRUE]
                /\ index' = index + 1
                /\ UNCHANGED <<pc, failure, unwindTo>>
           ELSE FailAndUnwind("kSeal") /\ UNCHANGED sealed
  /\ UNCHANGED <<state, count, composition, history>>

EndInitialize ==
  /\ pc = "seal" /\ index \notin RegistrySlots
  /\ state' = "kInitialized" /\ pc' = "idle"
  /\ UNCHANGED <<sealed, count, failure, index, unwindTo, composition, history>>

StartModule(ok) ==
  /\ pc = "start" /\ index \in Modules
  /\ started' = started \cup {index}
  /\ IF ok THEN index' = index + 1 /\ UNCHANGED <<pc, failure, unwindTo>>
           ELSE FailAndUnwind("kStart")
  /\ UNCHANGED <<sealed, state, count, initialized, stopCalls, hookCalls, composition>>

EndStart ==
  /\ pc = "start" /\ index \notin Modules
  /\ state' = "kRunning" /\ pc' = "idle"
  /\ UNCHANGED <<sealed, count, failure, index, unwindTo, composition, history>>

-----------------------------------------------------------------------------
(* ShutdownInitializedModules: the hook, then Modules in reverse order.    *)

\* Mutant: the hook runs only for an explicit Shutdown, not for a rollback.
RunHookOnShutdownOnly ==
  /\ pc = "hook"
  /\ hookCalls' = IF count # 0 /\ HasHook /\ unwindTo = "kStopped"
                   THEN hookCalls + 1 ELSE hookCalls
  /\ pc' = "unwind"
  /\ UNCHANGED <<sealed, state, count, failure, index, unwindTo, initialized,
                 started, stopCalls, composition>>

RunHook ==
  /\ pc = "hook"
  /\ hookCalls' = IF count # 0 /\ HasHook THEN hookCalls + 1 ELSE hookCalls
  /\ pc' = "unwind"
  /\ UNCHANGED <<sealed, state, count, failure, index, unwindTo, initialized,
                 started, stopCalls, composition>>

\* Mutant: Modules are shut down first one first.
ShutdownModuleForward ==
  /\ pc = "unwind" /\ count # 0
  /\ count' = count - 1
  /\ stopCalls' = [stopCalls EXCEPT ![Cardinality(initialized) + 1 - count] = @ + 1]
  /\ UNCHANGED <<sealed, state, failure, pc, index, unwindTo, initialized,
                 started, hookCalls, composition>>

\* Mutant: the unwinding loop does not test initialized_module_count_.
ShutdownModuleUnguarded ==
  /\ pc = "unwind"
  /\ count' = count - 1
  /\ stopCalls' = [stopCalls EXCEPT ![count] = @ + 1]
  /\ UNCHANGED <<sealed, state, failure, pc, index, unwindTo, initialized,
                 started, hookCalls, composition>>

ShutdownModule ==
  /\ pc = "unwind" /\ count # 0
  /\ count' = count - 1
  /\ stopCalls' = [stopCalls EXCEPT ![count] = @ + 1]
  /\ UNCHANGED <<sealed, state, failure, pc, index, unwindTo, initialized,
                 started, hookCalls, composition>>

EndUnwind ==
  /\ pc = "unwind" /\ count = 0
  /\ state' = unwindTo /\ pc' = "idle"
  /\ UNCHANGED <<sealed, count, failure, index, unwindTo, composition, history>>

-----------------------------------------------------------------------------
\* One turn of the loop the call in progress is in.
LoopStep ==
  \/ \E ok \in BOOLEAN : InitializeModule(ok) \/ SealRegistry(ok) \/ StartModule(ok)
  \/ BeginSeal \/ EndInitialize \/ EndStart
  \/ ShutdownModule \/ EndUnwind

Next == Initialize \/ Start \/ Shutdown \/ LoopStep \/ RunHook

Spec == Init /\ [][Next]_vars
-----------------------------------------------------------------------------
(* Properties.                                                             *)

\* Every member has a value of its type; the count of initialized Modules never
\* leaves the range of the slots.
TypeOK ==
  /\ slots \in [Modules -> Slot]
  /\ registries \in [RegistrySlots -> RegistryObjects \cup {NullRegistry}]
  /\ sealed \in [RegistryObjects -> BOOLEAN]
  /\ state \in RuntimeState
  /\ count \in 0 .. NumModules
  /\ failure \in Failure
  /\ pc \in ControlPoint
  /\ index \in Nat
  /\ unwindTo \in {"kStopped", "kFailed"}
  /\ initialized \subseteq Modules
  /\ started \subseteq Modules
  /\ stopCalls \in [Modules -> Nat]
  /\ hookCalls \in Nat

\* Once the Runtime is kStopped or kFailed, Shutdown was called exactly once on
\* every Module whose Initialize was called (the one that failed included) and
\* on no other: Initialize, Start and Shutdown share the one unwinding loop.
UnwoundExactlyOnce ==
  (pc = "idle" /\ state \in {"kStopped", "kFailed"}) =>
    \A m \in Modules : stopCalls[m] = IF m \in initialized THEN 1 ELSE 0

\* Modules are shut down last one first: when Module i has been shut down, every
\* later Module that was ever initialized has been too.
ReverseOrder ==
  \A i, j \in Modules :
    (i < j /\ stopCalls[i] > 0 /\ j \in initialized) => stopCalls[j] > 0

\* No Module is started before every Module is initialized and every Registry
\* sealed, and the Modules are started in order.
StartGate ==
  started # {} =>
    /\ initialized = Modules
    /\ \A r \in RegistrySlots : sealed[registries[r]]
    /\ \A m \in started : 1 .. m \subseteq started

\* before_modules_shutdown runs once, before the first Module is shut down, on
\* every path that shuts a Module down (the executors are joined in it).
HookBeforeModules ==
  (HasHook /\ \E m \in Modules : stopCalls[m] > 0) => hookCalls = 1

\* failure() tells which call failed: after the unwinding the record still
\* describes exactly how far the composition had come.
FailureNamesTheCause ==
  (pc = "idle" /\ state = "kFailed") =>
    /\ failure.operation = "kInitialize" =>
         initialized = 1 .. failure.index /\ started = {}
    /\ failure.operation = "kSeal" =>
         /\ initialized = Modules /\ started = {}
         /\ \A r \in 1 .. failure.index - 1 : sealed[registries[r]]
    /\ failure.operation = "kStart" => started = 1 .. failure.index
    /\ failure.operation \in {"kModuleValidation", "kRegistryValidation"} =>
         initialized = {}
    /\ failure # NoFailure

=============================================================================
