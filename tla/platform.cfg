SPECIFICATION Spec
CONSTANTS
  main = main
  tool = tool
  Mains = {main}
  Tools = {tool}
  Table <- MCTable
  Own <- MCOwn
  NSACR = 1
  Garbage = 2
  MaxSwitches = 2
  None = None
INVARIANTS
  AcpTransactions
  FlushReported
PROPERTIES
  StableWhileValid
