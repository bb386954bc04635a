SPECIFICATION ArraySpec
CONSTANTS
  N = 4
  D = 2
  Coords <- MCCoords
INVARIANTS
  TypeOK
  SplitSound
  BoxesHold
  SumsExact
  PointsKept
  DeletedOnce
  SameTree
