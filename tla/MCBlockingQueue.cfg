SPECIFICATION Spec
CONSTANTS
  Producers = {p1, p2}
  Consumers = {c1, c2}
  MaxPush = 2
INVARIANTS
  TypeOK
  NoLostWakeup
  Delivery
  NulloptIsFinal
PROPERTIES
  ImplementsClosableQueue
