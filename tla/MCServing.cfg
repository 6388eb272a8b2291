CONSTANTS
  ProtocolIds <- MCProtocolIds
  ProtocolType <- MCProtocolType
  ListOrder <- MCListOrder
  UserIds <- MCUserIds
  Configs <- MCConfigs
  Options <- MCOptions
  NoUser = NoUser
  NoProtocol = NoProtocol
  Placeholder = Placeholder
  u1 = u1
  cfg = cfg
  options = options
SPECIFICATION Spec
INVARIANTS ServedExactly LinksMatchAccounts
