\* A client over UDP, where requests overtake each other and get lost, and one over
\* Unix domain sockets that blocks on the requests it gave up.
SPECIFICATION FairSpec
CONSTANTS
  Service = {"svc"}
  Instance = {"i1", "i2"}
  AnyInstance = "any"
  NoInstance = "none"
  Ipv4 = {"loopback"}
  Name = {"name"}
  Loopback = "loopback"
  Transport = {"udp", "tcp"}
  Port = {1}
  IdSpan = 8
  IndexSpan = 4
  TtlMax = 3
  U32 = 16
  Second = 1
  Client = {"c1", "c2"}
  DescriptorOf <- MCDescriptorOf
  ProcessOf <- MCProcesses
  PortsOf <- MCPortsOf
  UnixClient = {"c2"}
  Patient = {}
  UnixQueue = 1
  Ordered = FALSE
  Lossy = TRUE
  Ttl = 1
  MaxCalls = 2
  MaxTime = 2
\* The callers stop after MaxCalls calls.
CHECK_DEADLOCK FALSE
INVARIANTS
  TypeOK
  AckIsOwn
  AnsweredCallSucceeds
  LastAckHolds
PROPERTIES
  CallReturns
  ImplementsDirectory
