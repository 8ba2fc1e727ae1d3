SPECIFICATION Spec
CONSTANTS
  Readers = {httpd, display}
  Display = display
  MaxAttempts = 2
  Http = http
  Other = other
  NoOwner = no_owner
  Ops = {op1, op2, op3}
  NoOp = no_op
  Trigger = httpd
  Callers = {rpc}
  MaxFaults = 1
SYMMETRY OpSymmetry
INVARIANT NoCodeWhileRunning
