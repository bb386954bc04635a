SPECIFICATION Spec
CHECK_DEADLOCK FALSE
CONSTANTS
  NumPlatforms = 2
  Builds = {"svm"}
INVARIANTS
  AllDevicesFinished
