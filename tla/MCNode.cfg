CONSTANTS
  NumModules = 2
  NumRegistries = 2
  Names = {a, b}
  RegistryObjects = {r1, r2}
  NoName = NoName
  NullRegistry = NullRegistry
  HasHook = TRUE
  NumExecutors = 2
  NumThreads = 1
SPECIFICATION NodeSpec
CHECK_DEADLOCK FALSE
INVARIANTS
  UnwoundExactlyOnce
  ReverseOrder
  StartGate
  HookBeforeModules
  FailureNamesTheCause
  NodeTypeOK
  NoWorkAfterModuleShutdown
  StartGateHoldsWork
  RpcSettledBeforeModules
  PackagesOutliveTheirCode
  NothingLeftRunning
PROPERTIES
  CallsReturn
