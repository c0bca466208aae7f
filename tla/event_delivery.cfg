SPECIFICATION FairSpec
CONSTANTS
  e1 = e1
  e2 = e2
  steady = steady
  flaky = flaky
  Procs = {p1, p2, p3}
  Events = {e1, e2}
  Consumers = {steady, flaky}
  Steady = {steady}
  Interest <- SomeInterest
  Limit = 1
  Connections = 4
  None = None
INVARIANTS StoreBeforeDelivery DeliveryInv
PROPERTIES DispatchedIsFinal SteadyDelivery PassesEnd
