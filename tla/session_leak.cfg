SPECIFICATION Spec
CONSTANTS
  o1 = o1
  o2 = o2
  s1 = s1
  c1 = c1
  c2 = c2
  c3 = c3
  tx = tx
  Owner = {o1}
  Strategy = {s1}
  Version = {1}
  Contract = {c1}
  SymbolOf <- MCSymbolOf
  Ticket = {tx}
  NoTicket = NoTicket
  NoOwner = NoOwner
  MaxTime = 3
  InitialPosition <- LongTwo
  RouterTiming = "next_bar_open"
  DefaultQuantity = 1
  Gate = "research"
  AllowSignalPrice = FALSE
  PrefillInstalled = FALSE
  Fallible = FALSE
  Input <- DayInput
  Batch = TRUE
  Redelivery = FALSE
  Seedable = {}
  MaxInputs = 6
PROPERTIES LiquidatesOpenPositions
CHECK_DEADLOCK FALSE
