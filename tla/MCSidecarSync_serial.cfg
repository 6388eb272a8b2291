CONSTANTS
  ProtocolIds <- MCProtocolIds
  ProtocolType <- MCProtocolType
  ListOrder <- MCListOrder
  UserIds <- MCUserIds
  Configs <- MCConfigs
  Options <- MCOptions
  DefaultOptions <- MCDefaultOptions
  Unkeyed <- MCUnkeyed
  Completions <- MCCompletions
  InitialTables <- MCInitialTables
  InitialUsers <- MCInitialUsers
  Requests <- MCRequests
  NoUser = NoUser
  NoProtocol = NoProtocol
  Placeholder = Placeholder
  None = None
  Boot = Boot
  u1 = u1
  bare = bare
  key1 = key1
  key2 = key2
  warning = warning
  XrayContainer = TRUE
  ComposeWritable = TRUE
  Slots = {s1}
  MaxRequests = 4
  MaxCrashes = 1
  MaxFaults = 0
SPECIFICATION Spec
INVARIANT AppliedProxySecret
