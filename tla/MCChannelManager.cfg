CONSTANTS
  Topics = {t}
  Executors = {e1, e2}
  Capacity = 2
  NumThreads = 2
  Serial = {e2}
  MaxSequence = 2
  MaxSubscribers = 2
  MaxMessages = 3
SPECIFICATION Spec
INVARIANTS
  TypeOK
  WorkKeepsItsDelivery
  NoDeliveryLeaks
  HandedInOrder
  OkReachesEverySubscriber
PROPERTIES
  PromisedIsHanded
