SPECIFICATION Spec
CONSTANTS
  Ports <- LowPorts
  BootPorts <- FirstPort
  Handlers = {h1, h2}
  Default = Default
  WordBits = 4
  IntBits = 2
INVARIANTS
  NoneForgotten
  DispatchesPending
  HandlerGetsItsData
PROPERTY EventuallyServed
CHECK_DEADLOCK FALSE
