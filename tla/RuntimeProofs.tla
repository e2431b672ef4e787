--------------------------- MODULE RuntimeProofs ---------------------------
(***************************************************************************)
(* Machine-checked proofs about Runtime, for every number of Modules and   *)
(* Registries.                                                             *)
(*                                                                         *)
(* The heart of the inductive invariant is Balance: at any moment, a       *)
(* Module has been shut down exactly when it was initialized and lies      *)
(* beyond initialized_module_count_.  The count is thus the boundary       *)
(* between what is still to be unwound and what already is, in the         *)
(* forward loop, in a rollback and in a Shutdown alike.                    *)
(***************************************************************************)
EXTENDS Runtime, TLAPS

Terminal == {"kStopped", "kFailed"}

AllSealed == \A r \in RegistrySlots : sealed[registries[r]] = TRUE

Balance ==
  /\ \A m \in Modules : stopCalls[m] = IF m \in initialized /\ m > count THEN 1 ELSE 0
  /\ \A m \in initialized : \A k \in 1 .. m : k \in initialized
  /\ 1 .. count \subseteq initialized

\* What is true at each control point of the controlling thread.
AtControlPoint ==
  /\ pc = "initialize" =>
       /\ state = "kInitializing" /\ index \in 1 .. NumModules + 1
       /\ initialized = 1 .. index - 1 /\ count = index - 1
       /\ started = {} /\ hookCalls = 0
  /\ pc = "seal" =>
       /\ state = "kInitializing" /\ index \in 1 .. NumRegistries + 1
       /\ initialized = Modules /\ count = NumModules
       /\ started = {} /\ hookCalls = 0
       /\ \A r \in 1 .. index - 1 : sealed[registries[r]] = TRUE
  /\ pc = "start" =>
       /\ state = "kStarting" /\ index \in 1 .. NumModules + 1
       /\ initialized = Modules /\ count = NumModules
       /\ started = 1 .. index - 1 /\ hookCalls = 0
  /\ pc = "hook" => hookCalls = 0 /\ initialized = 1 .. count
  /\ pc = "unwind" => (HasHook /\ initialized # {} => hookCalls = 1)
  /\ pc = "idle" =>
       /\ state \in {"kConstructed", "kInitialized", "kRunning", "kStopped", "kFailed"}
       /\ state = "kConstructed" =>
            initialized = {} /\ count = 0 /\ started = {} /\ hookCalls = 0
       /\ state = "kInitialized" =>
            initialized = Modules /\ count = NumModules /\ started = {} /\ hookCalls = 0
       /\ state = "kRunning" =>
            initialized = Modules /\ count = NumModules /\ hookCalls = 0
       /\ state \in Terminal => count = 0
       /\ state \in Terminal => (HasHook /\ initialized # {} => hookCalls = 1)

\* Beyond Initialize's validation, the Registry slots point to objects; once
\* every Registry is sealed it stays sealed.
Registered ==
  /\ (pc # "idle" \/ state \in {"kInitialized", "kRunning"}) =>
       \A r \in RegistrySlots : registries[r] \in RegistryObjects
  /\ pc = "start" \/ (pc = "idle" /\ state \in {"kInitialized", "kRunning"}) => AllSealed
  /\ started # {} => AllSealed /\ initialized = Modules
  /\ \A m \in started : \A k \in 1 .. m : k \in started

FailureFacts ==
  /\ failure.operation = "kInitialize" =>
       initialized = 1 .. failure.index /\ started = {}
  /\ failure.operation = "kSeal" =>
       /\ initialized = Modules /\ started = {}
       /\ failure.index \in RegistrySlots
       /\ \A r \in 1 .. failure.index - 1 : sealed[registries[r]] = TRUE
  /\ failure.operation = "kStart" => started = 1 .. failure.index
  /\ failure.operation \in {"kModuleValidation", "kRegistryValidation"} => initialized = {}
  /\ failure # NoFailure

Recorded ==
  (pc \in {"hook", "unwind"} /\ unwindTo = "kFailed") \/ (pc = "idle" /\ state = "kFailed")
    => FailureFacts

IInv == TypeOK /\ Balance /\ AtControlPoint /\ Registered /\ Recorded

-----------------------------------------------------------------------------
\* The inductive invariant holds of a Runtime that was just constructed.
LEMMA InitIInv == Init => IInv
<1> SUFFICES ASSUME Init PROVE IInv
  OBVIOUS
<1> USE SizeAssumption DEF Init, Modules, RegistrySlots
<1>1. TypeOK
  BY DEF TypeOK, RuntimeState, Failure, NoFailure, ControlPoint
<1>2. Balance
  BY DEF Balance
<1>3. AtControlPoint
  BY DEF AtControlPoint, Terminal
<1>4. Registered /\ Recorded
  BY DEF Registered, Recorded
<1> QED BY <1>1, <1>2, <1>3, <1>4 DEF IInv

\* Accepting a composition starts the ledgers of calls afresh; a refused one changes
\* nothing but the result.
LEMMA InitializeStep == IInv /\ Initialize => IInv'
<1> SUFFICES ASSUME IInv, Initialize PROVE IInv'
  OBVIOUS
<1> USE SizeAssumption DEF Modules, RegistrySlots
<1>0. /\ pc = "idle" /\ state = "kConstructed" /\ count = 0
      /\ initialized = {} /\ started = {} /\ hookCalls = 0
  BY DEF IInv, AtControlPoint, Initialize
<1>u. UNCHANGED <<slots, registries, sealed, count, unwindTo, initialized, started,
                  stopCalls, hookCalls>>
  BY DEF Initialize, composition, history
<1>1. ASSUME NEW operation \in {"kModuleValidation", "kRegistryValidation"}, NEW i \in Nat,
             RejectComposition(operation, i)
      PROVE  IInv'
  <2>1. TypeOK'
    BY <1>0, <1>u, <1>1 DEF RejectComposition, IInv, TypeOK, RuntimeState, Failure
  <2>2. Balance'
    BY <1>0, <1>u, <1>1 DEF RejectComposition, IInv, Balance
  <2>3. AtControlPoint'
    BY <1>0, <1>u, <1>1 DEF RejectComposition, IInv, AtControlPoint, Terminal
  <2>4. Registered' /\ Recorded'
    BY <1>0, <1>u, <1>1 DEF RejectComposition, IInv, Registered, Recorded, FailureFacts,
       NoFailure
  <2> QED BY <2>1, <2>2, <2>3, <2>4 DEF IInv
<1>2. ASSUME Valid, state' = "kInitializing", pc' = "initialize", index' = 1,
             UNCHANGED failure
      PROVE  IInv'
  <2>0. \A r \in RegistrySlots : registries[r] \in RegistryObjects
    BY <1>2 DEF Valid, BadRegistry, IInv, TypeOK
  <2>1. TypeOK'
    BY <1>0, <1>u, <1>2 DEF IInv, TypeOK, RuntimeState, ControlPoint
  <2>2. Balance'
    BY <1>0, <1>u, <1>2 DEF IInv, Balance
  <2>3. AtControlPoint'
    BY <1>0, <1>u, <1>2 DEF AtControlPoint
  <2>4. Registered' /\ Recorded'
    BY <1>0, <1>u, <1>2, <2>0 DEF Registered, Recorded
  <2> QED BY <2>1, <2>2, <2>3, <2>4 DEF IInv
<1> QED BY <1>1, <1>2 DEF Initialize

\* The shared part of the steps that fail and begin to unwind.
LEMMA FailStep ==
  ASSUME IInv, NEW operation \in {"kInitialize", "kSeal", "kStart"}, FailAndUnwind(operation),
         UNCHANGED <<slots, registries, sealed, state, hookCalls>>,
         hookCalls = 0, pc # "idle", TypeOK', Balance',
         initialized' = 1 .. count',
         started' # {} => AllSealed /\ initialized' = Modules,
         \A m \in started' : \A k \in 1 .. m : k \in started',
         FailureFacts'
  PROVE  IInv'
<1>1. AtControlPoint'
  BY DEF FailAndUnwind, AtControlPoint
<1>2. Registered'
  BY DEF FailAndUnwind, IInv, Registered, AllSealed, RegistrySlots
<1>3. Recorded'
  BY DEF Recorded
<1> QED BY <1>1, <1>2, <1>3 DEF IInv

\* Initializing one Module, whether it succeeds or fails, keeps the invariant.
LEMMA InitializeModuleStep ==
  ASSUME NEW ok \in BOOLEAN, IInv, InitializeModule(ok) PROVE IInv'
<1> USE SizeAssumption DEF Modules, RegistrySlots
<1>0. /\ pc = "initialize" /\ state = "kInitializing" /\ index \in 1 .. NumModules
      /\ initialized = 1 .. index - 1 /\ count = index - 1
      /\ started = {} /\ hookCalls = 0
      /\ count' = index /\ initialized' = 1 .. index
      /\ UNCHANGED <<slots, registries, sealed, state, started, stopCalls, hookCalls>>
  BY DEF InitializeModule, IInv, AtControlPoint, composition
<1>1. Balance'
  BY <1>0 DEF IInv, Balance, TypeOK
<1>2. CASE ok
  <2>0. index' = index + 1 /\ UNCHANGED <<pc, failure, unwindTo>>
    BY <1>2 DEF InitializeModule
  <2>1. TypeOK'
    BY <1>0, <2>0 DEF IInv, TypeOK
  <2>2. AtControlPoint'
    BY <1>0, <2>0 DEF AtControlPoint
  <2>3. Registered' /\ Recorded'
    BY <1>0, <2>0 DEF IInv, Registered, Recorded
  <2> QED BY <1>1, <2>1, <2>2, <2>3 DEF IInv
<1>3. CASE ~ok
  <2>0. FailAndUnwind("kInitialize")
    BY <1>3 DEF InitializeModule
  <2>1. TypeOK'
    BY <1>0, <2>0 DEF FailAndUnwind, IInv, TypeOK, Failure, ControlPoint
  <2>2. FailureFacts'
    BY <1>0, <2>0 DEF FailAndUnwind, FailureFacts, NoFailure
  <2> QED BY <1>0, <1>1, <2>0, <2>1, <2>2, FailStep
<1> QED BY <1>2, <1>3

\* Going from the Modules to the registries keeps the invariant.
LEMMA BeginSealStep == ASSUME IInv, BeginSeal PROVE IInv'
<1> USE SizeAssumption DEF Modules, RegistrySlots
<1>0. /\ pc = "initialize" /\ state = "kInitializing" /\ index = NumModules + 1
      /\ initialized = Modules /\ count = NumModules
      /\ started = {} /\ hookCalls = 0 /\ pc' = "seal" /\ index' = 1
      /\ UNCHANGED <<slots, registries, sealed, state, count, failure, unwindTo, initialized,
                     started, stopCalls, hookCalls>>
  BY DEF BeginSeal, IInv, AtControlPoint, composition, history
<1>1. TypeOK' /\ Balance'
  BY <1>0 DEF IInv, TypeOK, Balance, ControlPoint
<1>2. AtControlPoint'
  BY <1>0 DEF AtControlPoint
<1>3. Registered' /\ Recorded'
  BY <1>0 DEF IInv, Registered, Recorded
<1> QED BY <1>1, <1>2, <1>3 DEF IInv

\* Sealing one registry, whether it succeeds or fails, keeps the invariant.
LEMMA SealRegistryStep ==
  ASSUME NEW ok \in BOOLEAN, IInv, SealRegistry(ok) PROVE IInv'
<1> USE SizeAssumption DEF Modules, RegistrySlots
<1>0. /\ pc = "seal" /\ state = "kInitializing" /\ index \in 1 .. NumRegistries
      /\ initialized = Modules /\ count = NumModules
      /\ started = {} /\ hookCalls = 0
      /\ \A r \in 1 .. index - 1 : sealed[registries[r]] = TRUE
      /\ UNCHANGED <<slots, registries, state, count, initialized, started, stopCalls,
                     hookCalls>>
  BY DEF SealRegistry, IInv, AtControlPoint, composition, history
<1>r. \A r \in RegistrySlots : registries[r] \in RegistryObjects
  BY <1>0 DEF IInv, Registered
<1>1. Balance'
  BY <1>0 DEF IInv, Balance
<1>2. CASE ok
  <2>0. /\ index' = index + 1 /\ UNCHANGED <<pc, failure, unwindTo>>
        /\ sealed' = [sealed EXCEPT ![registries[index]] = TRUE]
    BY <1>2 DEF SealRegistry
  <2>1. TypeOK'
    BY <1>0, <1>r, <2>0 DEF IInv, TypeOK
  <2>2. \A r \in 1 .. index : sealed'[registries[r]] = TRUE
    BY <1>0, <1>r, <2>0 DEF IInv, TypeOK
  <2>3. AtControlPoint'
    BY <1>0, <2>0, <2>2 DEF AtControlPoint
  <2>4. Registered' /\ Recorded'
    BY <1>0, <1>r, <2>0 DEF IInv, Registered, Recorded
  <2> QED BY <1>1, <2>1, <2>3, <2>4 DEF IInv
<1>3. CASE ~ok
  <2>0. FailAndUnwind("kSeal") /\ UNCHANGED sealed
    BY <1>3 DEF SealRegistry
  <2>1. TypeOK'
    BY <1>0, <2>0 DEF FailAndUnwind, IInv, TypeOK, Failure, ControlPoint
  <2>2. FailureFacts'
    BY <1>0, <2>0 DEF FailAndUnwind, FailureFacts, NoFailure
  <2> QED BY <1>0, <1>1, <2>0, <2>1, <2>2, FailStep
<1> QED BY <1>2, <1>3

\* The end of Initialize keeps the invariant: every slot has been visited.
LEMMA EndInitializeStep == ASSUME IInv, EndInitialize PROVE IInv'
<1> USE SizeAssumption DEF Modules, RegistrySlots
<1>0. /\ pc = "seal" /\ index = NumRegistries + 1
      /\ initialized = Modules /\ count = NumModules
      /\ started = {} /\ hookCalls = 0
      /\ \A r \in 1 .. NumRegistries : sealed[registries[r]] = TRUE
      /\ state' = "kInitialized" /\ pc' = "idle"
      /\ UNCHANGED <<slots, registries, sealed, count, failure, index, unwindTo, initialized,
                     started, stopCalls, hookCalls>>
  BY DEF EndInitialize, IInv, AtControlPoint, composition, history
<1>1. TypeOK' /\ Balance'
  BY <1>0 DEF IInv, TypeOK, Balance, ControlPoint, RuntimeState
<1>2. AtControlPoint'
  BY <1>0 DEF AtControlPoint, Terminal
<1>3. Registered' /\ Recorded'
  BY <1>0 DEF IInv, Registered, Recorded, AllSealed
<1> QED BY <1>1, <1>2, <1>3 DEF IInv

\* Start, accepted or refused, keeps the invariant.
LEMMA StartStep == ASSUME IInv, Start PROVE IInv'
<1> USE SizeAssumption DEF Modules, RegistrySlots
<1>0. /\ pc = "idle" /\ state = "kInitialized"
      /\ initialized = Modules /\ count = NumModules
      /\ started = {} /\ hookCalls = 0 /\ AllSealed
      /\ state' = "kStarting" /\ pc' = "start" /\ index' = 1
      /\ UNCHANGED <<slots, registries, sealed, count, failure, unwindTo, initialized,
                     started, stopCalls, hookCalls>>
  BY DEF Start, IInv, AtControlPoint, Registered, composition, history
<1>1. TypeOK' /\ Balance'
  BY <1>0 DEF IInv, TypeOK, Balance, ControlPoint, RuntimeState
<1>2. AtControlPoint'
  BY <1>0 DEF AtControlPoint
<1>3. Registered' /\ Recorded'
  BY <1>0 DEF IInv, Registered, Recorded, AllSealed
<1> QED BY <1>1, <1>2, <1>3 DEF IInv

\* Starting one Module, whether it succeeds or fails, keeps the invariant.
LEMMA StartModuleStep ==
  ASSUME NEW ok \in BOOLEAN, IInv, StartModule(ok) PROVE IInv'
<1> USE SizeAssumption DEF Modules, RegistrySlots
<1>0. /\ pc = "start" /\ state = "kStarting" /\ index \in 1 .. NumModules
      /\ initialized = Modules /\ count = NumModules /\ hookCalls = 0
      /\ started' = 1 .. index /\ AllSealed
      /\ UNCHANGED <<slots, registries, sealed, state, count, initialized, stopCalls,
                     hookCalls>>
  BY DEF StartModule, IInv, AtControlPoint, Registered, composition
<1>1. Balance'
  BY <1>0 DEF IInv, Balance
<1>2. CASE ok
  <2>0. index' = index + 1 /\ UNCHANGED <<pc, failure, unwindTo>>
    BY <1>2 DEF StartModule
  <2>1. TypeOK'
    BY <1>0, <2>0 DEF IInv, TypeOK
  <2>2. AtControlPoint'
    BY <1>0, <2>0 DEF AtControlPoint
  <2>3. Registered' /\ Recorded'
    BY <1>0, <2>0 DEF IInv, Registered, Recorded, AllSealed
  <2> QED BY <1>1, <2>1, <2>2, <2>3 DEF IInv
<1>3. CASE ~ok
  <2>0. FailAndUnwind("kStart")
    BY <1>3 DEF StartModule
  <2>1. TypeOK'
    BY <1>0, <2>0 DEF FailAndUnwind, IInv, TypeOK, Failure, ControlPoint
  <2>2. FailureFacts'
    BY <1>0, <2>0 DEF FailAndUnwind, FailureFacts, NoFailure
  <2> QED BY <1>0, <1>1, <2>0, <2>1, <2>2, FailStep
<1> QED BY <1>2, <1>3

\* The end of Start keeps the invariant: every Module has been started.
LEMMA EndStartStep == ASSUME IInv, EndStart PROVE IInv'
<1> USE SizeAssumption DEF Modules, RegistrySlots
<1>0. /\ pc = "start" /\ initialized = Modules /\ count = NumModules
      /\ hookCalls = 0 /\ AllSealed /\ state' = "kRunning" /\ pc' = "idle"
      /\ UNCHANGED <<slots, registries, sealed, count, failure, index, unwindTo, initialized,
                     started, stopCalls, hookCalls>>
  BY DEF EndStart, IInv, AtControlPoint, Registered, composition, history
<1>1. TypeOK' /\ Balance'
  BY <1>0 DEF IInv, TypeOK, Balance, ControlPoint, RuntimeState
<1>2. AtControlPoint'
  BY <1>0 DEF AtControlPoint, Terminal
<1>3. Registered' /\ Recorded'
  BY <1>0 DEF IInv, Registered, Recorded, AllSealed
<1> QED BY <1>1, <1>2, <1>3 DEF IInv

\* Shutdown, accepted or refused, keeps the invariant.
LEMMA ShutdownStep == ASSUME IInv, Shutdown PROVE IInv'
<1> USE SizeAssumption DEF Modules, RegistrySlots
<1>0. /\ pc = "idle" /\ state \notin Terminal
      /\ UNCHANGED <<slots, registries, sealed, count, failure, index, initialized,
                     started, stopCalls, hookCalls>>
  BY DEF Shutdown, Terminal, composition, history
<1>1. Balance'
  BY <1>0 DEF IInv, Balance
<1>2. CASE state = "kConstructed"
  <2>0. state' = "kStopped" /\ UNCHANGED <<pc, unwindTo>>
    BY <1>2 DEF Shutdown
  <2>1. TypeOK'
    BY <1>0, <2>0 DEF IInv, TypeOK, RuntimeState
  <2>2. AtControlPoint'
    BY <1>0, <1>2, <2>0 DEF IInv, AtControlPoint, Terminal
  <2>3. Registered' /\ Recorded'
    BY <1>0, <1>2, <2>0 DEF IInv, Registered, Recorded, AllSealed
  <2> QED BY <1>1, <2>1, <2>2, <2>3 DEF IInv
<1>3. CASE state # "kConstructed"
  <2>0. state' = "kShuttingDown" /\ pc' = "hook" /\ unwindTo' = "kStopped"
    BY <1>3 DEF Shutdown
  <2>1. TypeOK'
    BY <1>0, <2>0 DEF IInv, TypeOK, RuntimeState, ControlPoint
  <2>2. AtControlPoint'
    BY <1>0, <1>3, <2>0 DEF IInv, AtControlPoint, Terminal
  <2>3. Registered' /\ Recorded'
    BY <1>0, <1>3, <2>0 DEF IInv, Registered, Recorded, AllSealed, AtControlPoint, Terminal
  <2> QED BY <1>1, <2>1, <2>2, <2>3 DEF IInv
<1> QED BY <1>2, <1>3

\* The before-shutdown hook is called once, before the first Module is shut down.
LEMMA RunHookStep == ASSUME IInv, RunHook PROVE IInv'
<1> USE SizeAssumption, HookAssumption DEF Modules, RegistrySlots
<1>0. /\ pc = "hook" /\ hookCalls = 0 /\ initialized = 1 .. count /\ pc' = "unwind"
      /\ hookCalls' = IF count # 0 /\ HasHook THEN hookCalls + 1 ELSE hookCalls
      /\ UNCHANGED <<slots, registries, sealed, state, count, failure, index, unwindTo,
                     initialized, started, stopCalls>>
  BY DEF RunHook, IInv, AtControlPoint, composition
<1>1. TypeOK' /\ Balance'
  BY <1>0 DEF IInv, TypeOK, Balance, ControlPoint
<1>2. AtControlPoint'
  BY <1>0 DEF IInv, AtControlPoint, TypeOK
<1>3. Registered' /\ Recorded'
  BY <1>0 DEF IInv, Registered, Recorded, AllSealed, FailureFacts
<1> QED BY <1>1, <1>2, <1>3 DEF IInv

\* One turn of the unwinding loop moves the boundary of Balance by one Module.
LEMMA ShutdownModuleStep == ASSUME IInv, ShutdownModule PROVE IInv'
<1> USE SizeAssumption DEF Modules, RegistrySlots
<1>0. /\ pc = "unwind" /\ count \in Modules /\ count' = count - 1
      /\ stopCalls' = [stopCalls EXCEPT ![count] = @ + 1]
      /\ UNCHANGED <<slots, registries, sealed, state, failure, pc, index, unwindTo,
                     initialized, started, hookCalls>>
  BY DEF ShutdownModule, IInv, TypeOK, composition
<1>1. TypeOK'
  BY <1>0 DEF IInv, TypeOK
<1>2. count \in initialized /\ stopCalls[count] = 0
  BY <1>0 DEF IInv, Balance
<1>3. Balance'
  <2>1. \A m \in Modules :
          stopCalls'[m] = IF m \in initialized /\ m > count - 1 THEN 1 ELSE 0
    BY <1>0, <1>2 DEF IInv, TypeOK, Balance
  <2> QED BY <1>0, <2>1 DEF IInv, Balance
<1>4. AtControlPoint'
  BY <1>0 DEF IInv, AtControlPoint
<1>5. Registered' /\ Recorded'
  BY <1>0 DEF IInv, Registered, Recorded, AllSealed, FailureFacts
<1> QED BY <1>1, <1>3, <1>4, <1>5 DEF IInv

\* When the unwinding loop is done no initialized Module is left.
LEMMA EndUnwindStep == ASSUME IInv, EndUnwind PROVE IInv'
<1> USE SizeAssumption DEF Modules, RegistrySlots
<1>0. /\ pc = "unwind" /\ count = 0 /\ state' = unwindTo /\ pc' = "idle"
      /\ unwindTo \in Terminal
      /\ UNCHANGED <<slots, registries, sealed, count, failure, index, unwindTo,
                     initialized, started, stopCalls, hookCalls>>
  BY DEF EndUnwind, IInv, TypeOK, Terminal, composition, history
<1>1. TypeOK' /\ Balance'
  BY <1>0 DEF IInv, TypeOK, Balance, ControlPoint, RuntimeState, Terminal
<1>2. AtControlPoint'
  BY <1>0 DEF IInv, AtControlPoint, Terminal
<1>3. Registered' /\ Recorded'
  BY <1>0 DEF IInv, Registered, Recorded, AllSealed, FailureFacts, Terminal
<1> QED BY <1>1, <1>2, <1>3 DEF IInv

\* Every step of the Runtime preserves the inductive invariant.
LEMMA NextIInv == IInv /\ [Next]_vars => IInv'
<1> SUFFICES ASSUME IInv, [Next]_vars PROVE IInv'
  OBVIOUS
<1>1. CASE UNCHANGED vars
  BY <1>1 DEF vars, IInv, TypeOK, Balance, AtControlPoint, Registered, Recorded, AllSealed,
     FailureFacts, Modules, RegistrySlots
<1>2. CASE Next
  BY <1>2, InitializeStep, StartStep, ShutdownStep, InitializeModuleStep, SealRegistryStep,
     StartModuleStep, BeginSealStep, EndInitializeStep, EndStartStep, RunHookStep,
     ShutdownModuleStep, EndUnwindStep
     DEF Next, LoopStep
<1> QED BY <1>1, <1>2

-----------------------------------------------------------------------------
\* The inductive invariant holds in every reachable state of the Runtime.
THEOREM Inductive == Spec => []IInv
BY InitIInv, NextIInv, PTL DEF Spec

\* Every Runtime variable keeps its type, whatever fails.
THEOREM TypeCorrect == Spec => []TypeOK
<1>1. IInv => TypeOK
  BY DEF IInv
<1> QED BY <1>1, Inductive, PTL

\* However Initialize, Start or Shutdown end, a Module is shut down exactly
\* once if its Initialize was called and never otherwise.
THEOREM UnwindTheorem == Spec => []UnwoundExactlyOnce
<1>1. IInv => UnwoundExactlyOnce
  BY SizeAssumption DEF IInv, AtControlPoint, Balance, UnwoundExactlyOnce, Terminal, Modules, TypeOK
<1> QED BY <1>1, Inductive, PTL

\* Modules are shut down in the reverse of the order of their initialization.
THEOREM ReverseOrderTheorem == Spec => []ReverseOrder
<1>1. IInv => ReverseOrder
  BY SizeAssumption DEF IInv, Balance, ReverseOrder, Modules, TypeOK
<1> QED BY <1>1, Inductive, PTL

\* Nothing is started before everything is initialized and sealed.
THEOREM StartGateTheorem == Spec => []StartGate
<1>1. IInv => StartGate
  BY DEF IInv, Registered, AllSealed, StartGate
<1> QED BY <1>1, Inductive, PTL

\* The hook that quiesces the executors runs once, before any Module stops.
THEOREM HookTheorem == Spec => []HookBeforeModules
<1>1. IInv => HookBeforeModules
  <2> SUFFICES ASSUME IInv, HasHook, NEW m \in Modules, stopCalls[m] > 0
               PROVE  hookCalls = 1
    BY DEF HookBeforeModules
  <2>1. m \in initialized /\ m > count
    BY DEF IInv, Balance
  <2>2. count < NumModules /\ initialized # 1 .. count /\ initialized # {}
    BY <2>1, SizeAssumption DEF Modules, IInv, TypeOK
  <2>3. pc \notin {"initialize", "seal", "start", "hook"}
    BY <2>1, <2>2, SizeAssumption DEF IInv, AtControlPoint, TypeOK
  <2>4. pc \in {"unwind", "idle"}
    BY <2>3 DEF IInv, TypeOK, ControlPoint
  <2> QED BY <2>2, <2>4, SizeAssumption DEF IInv, AtControlPoint, Terminal
<1> QED BY <1>1, Inductive, PTL

\* After a rollback, failure() still names the slot whose call failed.
THEOREM FailureTheorem == Spec => []FailureNamesTheCause
<1>1. IInv => FailureNamesTheCause
  BY DEF IInv, Recorded, FailureFacts, FailureNamesTheCause
<1> QED BY <1>1, Inductive, PTL
=============================================================================
