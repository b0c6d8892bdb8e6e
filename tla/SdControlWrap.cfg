\* One client that runs out of the ids the header holds.
SPECIFICATION Spec
CONSTANTS
  Service = {"svc"}
  Instance = {"i1", "i2"}
  AnyInstance = "any"
  NoInstance = "none"
  Ipv4 = {"loopback"}
  Name = {"name"}
  Loopback = "loopback"
  Transport = {"udp", "tcp"}
  Port = {1}
  IdSpan = 2
  IndexSpan = 4
  TtlMax = 3
  U32 = 16
  Second = 1
  Client = {"c1"}
  DescriptorOf <- MCDescriptorOf
  ProcessOf <- MCProcesses
  PortsOf <- MCPortsOf
  UnixClient = {}
  Patient = {"c1"}
  UnixQueue = 1
  Ordered = TRUE
  Lossy = FALSE
  Ttl = 2
  MaxCalls = 2
  MaxTime = 1
\* The callers stop after MaxCalls calls.
CHECK_DEADLOCK FALSE
INVARIANTS
  AnsweredCallSucceeds
