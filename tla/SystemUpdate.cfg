SPECIFICATION Spec
CONSTANTS
  LocalSources = {http, nand}
  Iris = esp_iris
  NoOwner = no_owner
  Ops = {op1, op2}
  NoOp = no_op
  t0 = t0
  t1 = t1
  b0 = b0
  b1 = b1
  a0 = a0
  a1 = a1
  r0 = r0
  r1 = r1
  d1 = d1
  junk = junk
  Bundles <- MCBundles
  Images <- MCImages
  BootImages <- MCBootImages
  TableImages <- MCTableImages
  Table <- MCTable
  Regions <- MCRegions
  FixedRegions <- MCFixedRegions
  FactoryFlash <- MCFlash
  MaxFaults = 1
  MaxCrashes = 1
SYMMETRY Symmetry
INVARIANTS TypeOK WriterExclusion VerifiedStays ProtectionWindow CommittedIsInstalled
PROPERTIES WriterContract BootChainOrder FixedRegionsKept PowerLossSurvived
CHECK_DEADLOCK FALSE
