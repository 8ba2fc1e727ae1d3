SPECIFICATION FairSpec
CONSTANTS
  Slots = {ota_0, ota_1}
  NoSlot = none
  Old = old
  New = new
  MaxRuns = 2
  MaxFaults = 1
  MaxLosses = 1
INVARIANTS TypeOK LastGoodSpared SuccessIsInstalled FailureIsOver
PROPERTY InstallerReturns
CHECK_DEADLOCK FALSE
