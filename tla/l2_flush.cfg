SPECIFICATION Spec
CONSTANTS
  MaxWrites = 3
  NotCached = NotCached
INVARIANTS
  WrittenBeforeInvalidated
