CONSTANTS
  e1 = e1
  e2 = e2
  c1 = c1
  c2 = c2
  Events <- MCEvents
  Closers <- MCClosers
SPECIFICATION Spec
INVARIANTS
  AnswerIsOwn
  ChannelsNeverPanic
  TrueThroughBoth
PROPERTIES
  SignalClosesClient
  OutletImplements
  WorkerEnds
  SubOutletImplements
CHECK_DEADLOCK FALSE
