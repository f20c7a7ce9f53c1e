CONSTANTS
  a1 = a1
  a2 = a2
  b1 = b1
  p1 = p1
  None = None
  Nodes <- MCNodes
  NameOf <- MCNameOf
  Pods <- MCPods
  HostOf <- MCHostOf
  Configurations <- MCConfigurations
  Overlap = 1
  ClusterUid = "uid"
SPECIFICATION Spec
INVARIANTS
  ErrorStopsWatchers
  CollectsSynced
  ParentIsHost
PROPERTIES
  FallsSilent
  PodsReported
CHECK_DEADLOCK FALSE
