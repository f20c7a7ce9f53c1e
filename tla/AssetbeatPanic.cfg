CONSTANTS
  e1 = e1
  e2 = e2
  e3 = e3
  h1 = h1
  h2 = h2
  N = 1
  Ids <- MCIds
  Settings <- OneInput
  Options <- NoListsOne
  Events = {e1, e2}
  ClientOf <- EventsOfOne
SPECIFICATION Spec
INVARIANTS
  CounterNeverPanics
CHECK_DEADLOCK FALSE
