CONSTANTS
  ProtocolIds <- MCProtocolIds
  ProtocolType <- MCProtocolType
  ListOrder <- MCListOrder
  UserIds <- MCUserIds
  Configs <- MCRaceConfigs
  Options <- MCOptions
  DefaultOptions <- MCDefaultOptions
  Unkeyed <- MCUnkeyed
  Completions <- MCRaceCompletions
  InitialTables <- MCInitialTables
  InitialUsers <- MCInitialUsers
  Requests <- MCRequests
  NoUser = NoUser
  NoProtocol = NoProtocol
  Placeholder = Placeholder
  None = None
  Boot = Boot
  u1 = u1
  bare = bare
  keyed = keyed
  rekeyed = rekeyed
  warning = warning
  debug = debug
  XrayContainer = TRUE
  ComposeWritable = TRUE
  Slots = {s1, s2}
  MaxRequests = 2
  MaxCrashes = 1
  MaxFaults = 0
SPECIFICATION Spec
INVARIANTS TypeOK FreshUnlessDisturbed
PROPERTIES NoResurrection WritesKeepConfig Publishes
