SPECIFICATION Spec
CONSTANTS
  Nodes <- TreeNodes
  Root = 1
  Nil = 0
  left <- TreeLeft
  right <- TreeRight
  Centres = {z1, z2}
  PoolSize = 7
  BatchSize = 2
  Terminator = Terminator
INVARIANTS
  AllSumsKept
