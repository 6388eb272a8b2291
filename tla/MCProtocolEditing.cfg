CONSTANTS
  KeyPairs <- MCKeyPairs
  ShortIds <- MCShortIds
  InitialRows <- MCInitialRows
  Edits <- MCEdits
  Missing = Missing
  None = None
  k1 = k1
  k2 = k2
  s1 = s1
  s2 = s2
  Tabs = {t1, t2}
  MaxRequests = 3
  MaxCrashes = 1
  MaxFaults = 1
SPECIFICATION Spec
SYMMETRY MCSymmetry
INVARIANTS TypeOK KeyPairsMatch  HandedLinkDials
PROPERTY CredentialStays
