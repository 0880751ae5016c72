SPECIFICATION QuoteSpec
CONSTANTS
  Process = {p1, p2}
  Instrument = {i1}
  MaxTime = 2
  Offset = {0, 8}
  Tag = {t1, t2}
  NoQuote = NoQuote
INVARIANTS TableLatest
