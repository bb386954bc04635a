SPECIFICATION FairSpec
CONSTANTS
  Nodes <- LopsidedNodes
  Root = 1
  Nil = 0
  left <- LopsidedLeft
  right <- LopsidedRight
  Centres = {z1, z2, z3}
  PoolSize = 7
  BatchSize = 3
  Terminator = Terminator
INVARIANTS
  TypeOK
  PoolPartition
  HeapAccounted
  FreedByLastUser
  CandidatesIntact
  PoolIvdep
  LeafOnce
  StackFits
PROPERTIES
  ImplementsTraversal
  Terminates
