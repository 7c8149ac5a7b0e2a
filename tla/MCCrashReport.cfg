SPECIFICATION Spec
CONSTANTS
  VirtStart = 0
  StartSite = 1
  CallSites = {2, 3}
  WildTargets = {0}
  EntrySite = 5
  CallbackSite = 6
  StackBase = 10
  StackSize = 20
  R15Values = {0, 24}
  Builds = {TRUE, FALSE}
  Archives <- MCArchives
  KernelVersion <- MCKernelVersion
  VersionAddress = 9
INVARIANTS BacktraceTrue
PROPERTY PanicShutsDown
CHECK_DEADLOCK FALSE
