CONSTANTS
  f1 = f1
  f2 = f2
  f3 = f3
  Signalers <- MCSignalers
SPECIFICATION Spec
INVARIANTS
  TypeOK
  CountExact
  NoLostSignal
PROPERTIES
  ImplementsPromise
CHECK_DEADLOCK FALSE
