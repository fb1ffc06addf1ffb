SPECIFICATION Spec
CONSTANTS
  Producers = {p1, p2}
  Consumers = {c1, c2}
  Closers = {k1}
  Capacity = 1
  MaxPushes = 3
SYMMETRY Symmetry
INVARIANTS TypeOK ExactlyOnceInOrder NoLostItemWakeup NoLostSlotWakeup
PROPERTIES Linearizable ClosedStaysDrained
