SPECIFICATION Spec
CONSTANTS
  o1 = o1
  o2 = o2
  s1 = s1
  c1 = c1
  c2 = c2
  c3 = c3
  tx = tx
  Owner = {o1}
  Strategy = {s1}
  Version = {1}
  Contract = {c1}
  SymbolOf <- MCSymbolOf
  Ticket = {tx}
  NoTicket = NoTicket
  NoOwner = NoOwner
  MaxTime = 2
  InitialPosition <- Flat
  RouterTiming = "next_bar_open"
  DefaultQuantity = 1
  Gate = "deferred"
  AllowSignalPrice = FALSE
  PrefillInstalled = TRUE
  Fallible = TRUE
  Input <- ManualInput
  Batch = TRUE
  Redelivery = TRUE
  Seedable = {c1}
  MaxInputs = 4
INVARIANTS LedgerReconciles QuantitiesAuthorised NoLookAhead
PROPERTIES OrderLifecycle
CHECK_DEADLOCK FALSE
