CONSTANTS
  e1 = e1
  e2 = e2
  e3 = e3
  h1 = h1
  h2 = h2
  N = 2
  Ids <- MCIds
  Settings <- AllInputs
  Options <- AllOptions
  Events = {e1, e2, e3}
  ClientOf <- EventsOfAll
SPECIFICATION MCSpec
INVARIANTS
  CancelledAfterFinish
  AttachedNeverPanics
  CounterAfterInputs
  CleanReturn
PROPERTIES
  ImplementsBeater
CHECK_DEADLOCK FALSE
