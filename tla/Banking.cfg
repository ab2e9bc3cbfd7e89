SPECIFICATION Spec
CONSTANTS
  Requests = {r1, r2}
  Jobs = {j1, j2}
  Orders <- MCOrders
  Orgs = {"0088", "0081"}
  AtBank <- MCAtBank
  Before <- MCBefore
  Earlier = Earlier
  Manual = "MANL"
  None = None
  Lookback = 1
  Initial = 2
  MaxDay = 2
CONSTRAINT Stage
SYMMETRY MCSymmetry
CHECK_DEADLOCK FALSE
INVARIANTS IdsOfTheirBank OneCreator NoDayIsMissed
