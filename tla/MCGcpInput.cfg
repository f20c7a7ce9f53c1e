CONSTANTS
  i1 = i1
  i2 = i2
  i3 = i3
  None = None
  Instances <- MCInstances
  Members <- MCMembers
  Leaving <- MCLeaving
  Capacity <- MCCapacity
  Configurations <- MCConfigurations
SPECIFICATION Spec
INVARIANTS
  RelationsComplete
PROPERTIES
  GoneForgotten
CHECK_DEADLOCK FALSE
