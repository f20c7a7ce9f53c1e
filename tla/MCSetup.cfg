CONSTANTS
  c1 = c1
  c2 = c2
  Unset = Unset
  NoType = NoType
  InputTypes = {"stdin", "assets_aws", ""}
  Configs <- MCConfigs
  Runners <- MCRunners
  Clients <- MCClients
  Settings <- MCSettings
  Given <- MCGiven
SPECIFICATION SetupSpec
INVARIANTS
  AcceptedConfig
  NoInventedType
  ClientIsolated
CHECK_DEADLOCK FALSE
