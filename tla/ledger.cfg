SPECIFICATION Spec
CONSTANTS
  k1 = k1
  k2 = k2
  NoKey = NoKey
  Key = {k1, k2}
  Multiplier = 2
  CostMultiplier = 2
  CommissionPerSide = 10
  TaxPer = 1000
  Fill <- MCFill
  MaxFills = 5
INVARIANTS TradesExplainResult AverageWithinFills
PROPERTIES ImplementsCashAccount
CHECK_DEADLOCK FALSE
