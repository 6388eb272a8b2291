CONSTANTS
  background = background
  handler = handler
  Callers <- MCCallers
  Word <- MCWord
  MaxSent = 2
  MaxClock = 4
  MaxFalls = 1
SPECIFICATION Spec
INVARIANTS TypeOK LoneRateSane
