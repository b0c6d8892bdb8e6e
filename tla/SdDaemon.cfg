\* A prompt daemon: the staleness bound, the promise of SdLeases, and what the loop
\* must get to.
SPECIFICATION FairSpec
CONSTANTS
  Service = {"svc"}
  Instance = {"i1", "i2"}
  AnyInstance = "any"
  NoInstance = "none"
  Ipv4 = {"loopback"}
  Name = {}
  Loopback = "loopback"
  Transport = {"udp"}
  Port = {1, 2}
  IdSpan = 4
  IndexSpan = 4
  TtlMax = 3
  U32 = 16
  Second = 3
  Requests <- MCRequests
  UnixControl = TRUE
  Poll = 2
  MaxPending = 1
  Prompt = TRUE
  MaxNow = 6
INVARIANTS
  TypeOK
  CleanRegistry
  StaleBound
  KeysAgree
PROPERTIES
  LiveOfferKept
  ImplementsLeases
  NoStarvation
  StopReturns
  ExpiredForgotten
