SPECIFICATION FairSpec
CONSTANTS
  Readers = {httpd, display}
  Display = display
  MaxAttempts = 1
  Http = http
  Other = other
  NoOwner = no_owner
  Ops = {op1, op2}
  NoOp = no_op
  Trigger = httpd
  Callers = {rpc}
  MaxFaults = 1
INVARIANTS TypeOK CodeOnPage RunningHasUpdate OneHttpUpdate StatusRetained StatusConsistent
PROPERTIES LockLifts BusyEnds
