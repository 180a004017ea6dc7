SPECIFICATION QueueSpec
CONSTANTS
  Items <- MCItems
  ZeroItem = ZeroItem
  EVENT_QUEUE_SIZE = 3
  e1 = e1
  e2 = e2
INVARIANTS
  QueueTypeOK
  RingConsistent
PROPERTY
  ImplementsFifo
