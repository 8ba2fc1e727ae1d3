SPECIFICATION OtaSpec
CONSTANTS
  Nand = Nand
  Other = Other
  NoOwner = NoOwner
  Ops = {op1, op2}
  NoOp = NoOp
  Bundles = {1}
  Root = 1
  MaxCandidates = 1
  MaxEntries = 1
  Screen = Screen
  Rpc = Rpc
  MaxFaults = 0
  NoBundle = NoBundle
PROPERTIES
  ProgressShown
