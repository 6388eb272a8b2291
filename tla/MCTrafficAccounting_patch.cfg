CONSTANTS
  Users <- MCUsers
  InitialUsed <- MCInitialUsed
  Counters <- MCCounters
  Patches <- MCPatches
  Granted <- MCGranted
  Keep = Keep
  Unseen = Unseen
  u1 = u1
  u2 = u2
  Slots = {s1}
  IdleTicks = 1
  MaxCarried = 3
  MaxCarriedInAll = 4
  MaxTicks = 1
  MaxRestarts = 1
  MaxCrashes = 1
  MaxFaults = 1
  MaxPatches = 1
  MaxDeletes = 1
  MaxDisturbances = 1
SPECIFICATION Spec
PROPERTY BilledStays
