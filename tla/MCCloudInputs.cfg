CONSTANTS
  None = None
  Configurations <- MCConfigurations
  Inputs <- MCInputs
  Tasks <- MCTasks
  Assets <- MCAssets
  Changing <- MCChanging
  Regions <- MCRegions
  GroupsOf <- MCGroupsOf
  ScalingGroups <- MCScalingGroups
  Members <- MCMembers
  Visible <- MCVisible
  Subscriptions <- MCSubscriptions
  ScaleSets <- MCScaleSets
  RegionOf <- MCRegionOf
  Addresses <- MCAddresses
SPECIFICATION Spec
INVARIANTS
  ClusterChild
  LogIsOfSubscription
PROPERTIES
  AddressesCurrent
  ImplementsCollection
CHECK_DEADLOCK FALSE
