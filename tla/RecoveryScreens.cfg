SPECIFICATION FairSpec
CONSTANTS
  Nand = Nand
  Other = Other
  NoOwner = NoOwner
  Ops = {op1, op2}
  NoOp = NoOp
  Bundles = {1}
  Root = 1
  MaxCandidates = 1
  MaxEntries = 1
  Screen = Screen
  Rpc = Rpc
  MaxFaults = 1
  NoBundle = NoBundle
INVARIANTS
  TypeOK
  ConfirmNamesBundle
  NandExclusive
  NandGivesBack
PROPERTIES
  UpdatePageEnds
  NandBusyEnds
