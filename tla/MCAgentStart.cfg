CONSTANTS
  Defaults <- MCDefaults
  AdminKeys <- MCAdminKeys
  Secrets <- MCSecrets
  Environments <- MCEnvironments
  Admins = {a1, a2}
  Bases <- MCBases
  Host <- MCHost
  InitialPresets <- MCInitialPresets
  None = None
  k1 = k1
  k2 = k2
  j1 = j1
  j2 = j2
  j3 = j3
  MaxCrashes = 2
  MaxFaults = 1
  MaxInstalls = 1
SPECIFICATION FairSpec
INVARIANTS TypeOK SessionsSurvive StoredKeyServes SeedComplete HostFollowsBase
PROPERTIES SeedKeepsEdits ComesUp
