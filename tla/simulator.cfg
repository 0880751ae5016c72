SPECIFICATION Spec
CONSTANTS
  Price = {90, 100, 110}
  Scale = 10
  StopLoss = 1
  TakeProfit = 1
  ForceFinal = TRUE
  MaxBars = 4
INVARIANTS SignalsPair NextOpen FillsInsideBar ConservativeExits StopsHonoured SustainedOpensOnce
CHECK_DEADLOCK FALSE
