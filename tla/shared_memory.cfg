SPECIFICATION Spec
CONSTANTS
  Level0 = 2
  Level1 = 2
  PageWords = 2
  Words = 2
  Half = 32
  Capacity0 = 3
  Capacity1 = 1
  Capacity2 = 2
  DelayDepth = 2
  AlmostFull = 1
  DataDepth = 2
  MaxPending = 4
  TTBR0 = 1
  Mask = 16
  Flags = 16
  Garbage = 5
  Requests = {1, 3}
  None = None
  Invalid = Invalid
  Addresses <- MCAddresses
  Layouts <- MCLayouts
  Translation <- MCTranslation
  Data <- MCData
  Listed <- MCListed
  Unlisted <- MCUnlisted
  Maps <- MCMaps
INVARIANTS
  PagesReported
PROPERTIES
  ImplementsLoads
