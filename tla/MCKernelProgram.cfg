SPECIFICATION Spec
CONSTANTS
  HeapSize = 10
  Header = 1
  Slack = 1
  SizeT = 64
  Requests = {2, 4}
  Safe = TRUE
  Chars <- MCChars
  IntBits = 5
  Formats <- MCFormats
INVARIANTS HeapSound PrintRight TextRight
PROPERTIES WritesInside ImplementsAllocator
CHECK_DEADLOCK FALSE
