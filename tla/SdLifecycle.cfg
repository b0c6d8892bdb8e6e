\* Two daemons that use one path, setup may fail.
SPECIFICATION FairSpec
CONSTANTS
  Daemon = {"d1", "d2"}
  PathOf <- MCOnePath
  MayFail = TRUE
INVARIANTS
  TypeOK
  StoppedIsClosed
  PathIsReached
PROPERTIES
  StopReturns
