SPECIFICATION Spec
CONSTANTS
  QueueSize = 2
  Writers = {core1, irq0}
  Readers = {core0}
  NoOwner = NoOwner
  MaxMessages = 5
INVARIANTS
  TypeOK
  NewestPending
PROPERTIES
  ImplementsLossyQueue
  InOrderDelivery
