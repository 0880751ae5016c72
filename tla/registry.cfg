SPECIFICATION Spec
CONSTANTS
  a = a
  b = b
  x = x
  y = y
  first = first
  second = second
  portless = portless
  foreign = foreign
  plain = plain
  list1 = list1
  list2 = list2
  w1 = w1
  w2 = w2
  Plugin = {a, b}
  Strategy = {x, y}
  Schema = {1, 2}
  Parameters = {plain, list1, list2}
  Nested = {list1, list2}
  Provider = {first, second, portless, foreign}
  NoProvider = NoProvider
  NoDescriptor = NoDescriptor
  Identity <- MCIdentity
  Catalog <- MCCatalog
  Ports <- MCPorts
  Worker = {w1, w2}
  Request <- MCRequest
  Answer <- MCAnswer
INVARIANTS ValidatedBeforeDispatch DispatchedAsAdvertised ReturnedAnswersRequest CatalogWhole
PROPERTIES CatalogStable
