CONSTANTS
  ProtocolIds <- MCProtocolIds
  ProtocolType <- MCProtocolType
  ListOrder <- MCListOrder
  UserIds <- MCUserIds
  Configs <- MCConfigs
  Options <- MCOptions
  DefaultOptions <- MCDefaultOptions
  Unkeyed <- MCUnkeyed
  Completions <- MCCompletions
  InitialTables <- MCInitialTables
  InitialUsers <- MCInitialUsers
  Requests <- MCRaceRequests
  NoUser = NoUser
  NoProtocol = NoProtocol
  Placeholder = Placeholder
  None = None
  Boot = Boot
  u1 = u1
  bare = bare
  keyed = keyed
  rekeyed = rekeyed
  warning = warning
  debug = debug
  XrayContainer = TRUE
  ComposeWritable = TRUE
  Slots = {s1, s2}
  MaxRequests = 3
  MaxCrashes = 0
  MaxFaults = 0
SPECIFICATION Spec
INVARIANT AppliedIsServed
