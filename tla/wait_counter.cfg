SPECIFICATION Spec
CONSTANTS
  Hosts = {h1}
  Bridges = {b1}
  Masters = {h1, b1}
  Delayed = {}
  Modulus = 1
  None = None
  NoRequest = NoRequest
INVARIANTS
  ReturnsWithoutLock
