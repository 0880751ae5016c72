SPECIFICATION Spec
CONSTANTS
  o1 = o1
  o2 = o2
  s1 = s1
  c1 = c1
  c2 = c2
  c3 = c3
  tx = tx
  Owner = {o1}
  Strategy = {s1}
  Version = {1}
  Contract = {c1}
  SymbolOf <- MCSymbolOf
  Ticket = {tx}
  NoTicket = NoTicket
  NoOwner = NoOwner
  MaxTime = 2
  InitialPosition <- LongTwo
  RouterTiming = "current_close"
  DefaultQuantity = 1
  Gate = "disabled"
  AllowSignalPrice = FALSE
  PrefillInstalled = FALSE
  Fallible = FALSE
  Input <- DayInput
  Batch = TRUE
  Redelivery = FALSE
  Seedable = {c1}
  MaxInputs = 4
INVARIANTS NoNewExposure
CHECK_DEADLOCK FALSE
