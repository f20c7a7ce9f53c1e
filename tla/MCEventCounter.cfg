CONSTANTS
  c1 = c1
  c2 = c2
  e1 = e1
  e2 = e2
  e3 = e3
  Clients <- MCClients
  Events <- MCEvents
  ClientOf <- MCClientOf
  Waiters = {"first", "second"}
SPECIFICATION Spec
INVARIANTS
  CoversInFlight
PROPERTIES
  WaitSound
  WaitEndsOrPinned
CHECK_DEADLOCK FALSE
