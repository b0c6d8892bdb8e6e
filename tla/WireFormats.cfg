\* Descriptors of one service in two instances, at an address or a host name;
\* TTLs around zero and around the 24-bit clamp; ids around the 16-bit limit;
\* lists up to one service more than the option index can name.  The
\* bytes of the parameters have one bit: a u8 length goes up to 1, a u16 length up to 3.
SPECIFICATION MCSpec
CONSTANTS
  Service = {"svc"}
  Instance = {"i1"}
  AnyInstance = "any"
  NoInstance = "none"
  Ipv4 = {"loopback", "addr"}
  Name = {"name"}
  Loopback = "loopback"
  Transport = {"udp", "tcp"}
  Port = {1}
  IdSpan = 4
  IndexSpan = 2
  TtlMax = 7
  U32 = 16
  Ttls <- MCTtls
  Ids = {3, 4}
  MaxList = 3
  Base = 2
  Types <- VehicleTypes
  Samples <- VehicleSamples
  Surplus <- Leftovers
  NoValue = NoValue
INVARIANTS
  TtlDecides
  OfferArrives
  FindArrives
  ListArrives
  SentIsRead
  NothingMadeUp
