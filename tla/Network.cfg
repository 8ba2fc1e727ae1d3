SPECIFICATION FairSpec
CONSTANTS
  Main = Main
  Screen = Screen
  Rpc = Rpc
  Known = {a}
  Offered = {b}
  MaxRequests = 2
  MaxFaults = 1
INVARIANTS TypeOK LinkShown ScanAccounted StaysForgotten SavedAnswered
PROPERTY ConnectingEnds
