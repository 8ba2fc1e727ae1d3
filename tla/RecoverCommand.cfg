SPECIFICATION Spec
CONSTANTS
  Boards = {target, other}
  Target = target
  Old = old
  New = new
  AcquireTime = 2
  RenewTime = 1
  ProbeTime = 2
  PrepareTime = 1
  FlashTime = 2
  FinishTime = 1
  Margin = 3
INVARIANTS RecoverTypeOK HeldWhileFlashing SuccessIsFlashed FailureUnwinds
CHECK_DEADLOCK FALSE
