SPECIFICATION Spec
CONSTANTS
  e1 = e1
  e2 = e2
  e3 = e3
  e4 = e4
  Event <- MCEvent
  Instant <- MCInstant
  At <- MCAt
  HandlerCount <- MCHandlerCount
  Emission <- MCEmission
  MaxEvents = 3
  SharedClock = TRUE
INVARIANTS AtMostOnce Ordered QueueAgrees LostOnlyIfOvertaken
PROPERTIES ImplementsDelivery RunsAreBounded
