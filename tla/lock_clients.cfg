SPECIFICATION FairSpec
CONSTANTS
  Hosts = {h1}
  Bridges = {b1}
  Masters = {h1, b1}
  Delayed = {}
  Modulus = 3
  None = None
  NoRequest = NoRequest
INVARIANTS
  TypeOK
  MutualExclusion
  CriticalIsGranted
  IInv
  AddIsFresh
PROPERTIES
  ImplementsAtomicCell
  AddAnswered
  StoreAnswered
