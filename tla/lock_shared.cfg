SPECIFICATION Spec
CONSTANTS
  Hosts = {h1, h2}
  Bridges = {b1, b2}
  Masters = {h1, h2, b1, b2}
  Delayed = {b1}
  Modulus = 1
  None = None
  NoRequest = NoRequest
INVARIANTS
  OneServicePerCycle
PROPERTIES
  NoRequestLost
  HandoverThroughFree
