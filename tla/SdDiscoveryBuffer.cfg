\* A daemon with one service more than the buffer holds.
SPECIFICATION Spec
CONSTANTS
  Service = {"svc"}
  Instance = {"i1", "i2", "i3"}
  AnyInstance = "any"
  NoInstance = "none"
  Ipv4 = {"loopback", "addr"}
  Name = {}
  Loopback = "loopback"
  Transport = {"udp"}
  Port = {1}
  IdSpan = 8
  IndexSpan = 4
  TtlMax = 3
  U32 = 16
  Second = 1
  Daemon = {"a"}
  Registries <- MCRegistries
  Queries <- MCQueries
  Buffer = 86
  SocketQueue = 2
  Window = 2
  MaxFinds = 1
\* The caller stops after MaxFinds calls.
CHECK_DEADLOCK FALSE
INVARIANTS
  NothingDropped
