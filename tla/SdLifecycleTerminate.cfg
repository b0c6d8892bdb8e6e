\* Two daemons at paths of their own, setup may fail.
SPECIFICATION Spec
CONSTANTS
  Daemon = {"d1", "d2"}
  PathOf <- MCOwnPaths
  MayFail = TRUE
INVARIANTS
  OrderlyEnd
