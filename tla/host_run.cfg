SPECIFICATION Spec
CHECK_DEADLOCK FALSE
CONSTANTS
  NumPlatforms = 2
  Builds = {"svm", "no_svm"}
INVARIANTS
  HostTypeOK
  CallsLegal
  InputsWritten
  ResultsReady
  NoUseAfterFree
  CleanedUp
PROPERTIES
  Terminates
