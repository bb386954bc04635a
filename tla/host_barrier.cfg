SPECIFICATION Spec
CONSTANTS
  Hosts = {h1}
  Bridges = {b1}
  Masters = {h1, b1}
  Delayed = {h1}
  Modulus = 3
  None = None
  NoRequest = NoRequest
INVARIANTS
  AddIsFresh
