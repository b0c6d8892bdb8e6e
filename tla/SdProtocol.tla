----------------------------- MODULE SdProtocol -----------------------------
(***************************************************************************)
(* The SOME/IP-SD wire format of services/someip_sd_cpp/src/protocol.cpp:  *)
(* what the Build* functions put in a datagram and what the Parse*         *)
(* functions read out of it.  Bytes are abstracted to entries and options; *)
(* every field whose width, clamp or default changes what is read back is  *)
(* kept: the 16-bit request id, the 24-bit TTL, the 8-bit option index,    *)
(* the wildcard instance and the IPv4-only endpoint.                       *)
(***************************************************************************)
EXTENDS Integers, Sequences

CONSTANTS
    Service,      \* service ids
    Instance,     \* instance ids of real services (16 bit)
    AnyInstance,  \* the wire value 0xFFFF
    NoInstance,   \* std::nullopt
    Ipv4,         \* hosts inet_pton accepts, Loopback among them
    Name,         \* hosts it does not accept
    Loopback,     \* "127.0.0.1"
    Port,         \* endpoint ports, 0 (the default) not among them
    Transport,    \* transports a caller may name, "udp" (the default) among them
    IdSpan,       \* 2^16: the request ids of a SOME/IP header
    IndexSpan,    \* 2^8: the option indexes of an entry
    TtlMax,       \* 2^24 - 1: the longest TTL of an entry
    U32           \* 2^32: the values of std::uint32_t

ASSUME ProtocolAssumption ==
    /\ NoInstance \notin Instance \cup {AnyInstance}
    /\ Loopback \in Ipv4
    /\ Port \subseteq Nat \ {0}
    /\ "udp" \in Transport
    /\ IdSpan \in Nat \ {0}
    /\ IndexSpan \in Nat \ {0}
    /\ TtlMax \in Nat \ {0}
    /\ U32 \in Nat
    /\ U32 > TtlMax

-----------------------------------------------------------------------------
(* types.hpp and protocol.hpp *)

InstanceField == Instance \cup {AnyInstance}

ServiceDescriptor ==
    [service_id : Service, instance_id : InstanceField,
     endpoint_host : Ipv4 \cup Name, endpoint_port : Port \cup {0}, transport : Transport]

\* The transport of every option is UDP, whatever the descriptor names.
Option == [host : Ipv4, port : Port \cup {0}]

Entry ==
    [type : {"find", "offer"}, index : 0 .. (IndexSpan - 1), num_options : {0, 1},
     service_id : Service, instance_id : InstanceField, ttl : 0 .. TtlMax]

Payload == [entries : Seq(Entry), options : Seq(Option)]

NoPayload == [entries |-> << >>, options |-> << >>]

SdPacket ==
    [message_type : {"request", "response", "error", "undecodable"},
     request_id : Nat, payload : Payload]

-----------------------------------------------------------------------------
(* Building *)

\* Faulty: the host goes out unconverted.
FaultyEndpointOption(d) ==
    [host |-> d.endpoint_host, port |-> d.endpoint_port]

\* An endpoint that is no IPv4 address goes out as the loopback address.
BuildIpv4EndpointOption(d) ==
    [host |-> IF d.endpoint_host \in Ipv4 THEN d.endpoint_host ELSE Loopback,
     port |-> d.endpoint_port]

\* Faulty: the TTL is truncated to the 24 bits of its field.
FaultyServiceEntry(type, index, num_options, service_id, instance_id, ttl) ==
    [type |-> type, index |-> index, num_options |-> num_options,
     service_id |-> service_id, instance_id |-> instance_id, ttl |-> ttl % (TtlMax + 1)]

\* The TTL field has 24 bits: a longer TTL is clamped, never truncated.
BuildServiceEntry(type, index, num_options, service_id, instance_id, ttl) ==
    [type |-> type, index |-> index, num_options |-> num_options,
     service_id |-> service_id, instance_id |-> instance_id,
     ttl |-> IF ttl <= TtlMax THEN ttl ELSE TtlMax]

BuildSdFindPayload(service_id, instance_id) ==
    [entries |-> << BuildServiceEntry("find", 0, 0, service_id,
                       IF instance_id = NoInstance THEN AnyInstance ELSE instance_id, 0) >>,
     options |-> << >>]

BuildSdOfferPayload(d, ttl, stop_offer) ==
    [entries |-> << BuildServiceEntry("offer", 0, 1, d.service_id, d.instance_id,
                       IF stop_offer THEN 0 ELSE ttl) >>,
     options |-> << BuildIpv4EndpointOption(d) >>]

\* Faulty: every entry names the first option.
FaultyOfferPayloadList(services, ttl) ==
    [entries |-> [i \in 1 .. Len(services) |->
                    BuildServiceEntry("offer", 0, 1, services[i].service_id,
                                      services[i].instance_id, ttl)],
     options |-> [i \in 1 .. Len(services) |-> BuildIpv4EndpointOption(services[i])]]

\* The i-th entry names the i-th option by an index of 8 bits.
BuildSdOfferPayloadList(services, ttl) ==
    [entries |-> [i \in 1 .. Len(services) |->
                    BuildServiceEntry("offer", (i - 1) % IndexSpan, 1,
                                      services[i].service_id, services[i].instance_id, ttl)],
     options |-> [i \in 1 .. Len(services) |-> BuildIpv4EndpointOption(services[i])]]

-----------------------------------------------------------------------------
(* Parsing.  Every payload the program builds is well formed, so            *)
(* ParseSdBlocks fails on none; a request without entries is the payload of *)
(* an error reply.                                                          *)

\* The service an offer entry describes: without a usable option the
\* endpoint keeps the default of a fresh descriptor.
OfferOf(payload, entry) ==
    LET usable == entry.num_options > 0 /\ entry.index < Len(payload.options)
        option == payload.options[entry.index + 1]
    IN  [service_id |-> entry.service_id, instance_id |-> entry.instance_id,
         endpoint_host |-> IF usable THEN option.host ELSE Loopback,
         endpoint_port |-> IF usable THEN option.port ELSE 0,
         transport |-> "udp"]

IsFind(payload) ==
    payload.entries # << >> /\ payload.entries[1].type = "find"

\* Faulty: the wire value of the wildcard is taken for an instance.
FaultyFindPayload(payload) ==
    [service_id |-> payload.entries[1].service_id,
     instance_id |-> payload.entries[1].instance_id]

ParseSdFindPayload(payload) ==
    LET e == payload.entries[1]
    IN  [service_id |-> e.service_id,
         instance_id |-> IF e.instance_id = AnyInstance THEN NoInstance ELSE e.instance_id]

IsOffer(payload) ==
    payload.entries # << >> /\ payload.entries[1].type = "offer"

ParseSdOfferFirst(payload) ==
    [descriptor |-> OfferOf(payload, payload.entries[1]), ttl |-> payload.entries[1].ttl]

\* All offers of a payload.  A set: the order is that of an unordered_map.
ParseSdOffers(payload) ==
    {OfferOf(payload, payload.entries[i]) :
        i \in {j \in DOMAIN payload.entries : payload.entries[j].type = "offer"}}

-----------------------------------------------------------------------------
(* Packets.  EncodePacket writes 16 bits of the request id, so the datagram *)
(* is the packet with that id; DecodePacket refuses what it cannot read.    *)

EncodePacket(packet) == [packet EXCEPT !.request_id = packet.request_id % IdSpan]

Decodable(datagram) == datagram.message_type # "undecodable"

\* The four bytes "STOP" and other datagrams that DecodePacket throws on.
Undecodable == [message_type |-> "undecodable", request_id |-> 0, payload |-> NoPayload]

\* Bytes of a datagram: header 16, flags and the two lengths 12, 16 an
\* entry, 13 an option.  The reply to a find that names no service has both
\* lists, empty; an error reply has not even their lengths.
PacketSize(packet) ==
    IF packet.message_type = "error" THEN 16
    ELSE 16 + 12 + 16 * Len(packet.payload.entries) + 13 * Len(packet.payload.options)

\* What is read back of a descriptor that was sent.
Wire(d) ==
    [service_id |-> d.service_id, instance_id |-> d.instance_id,
     endpoint_host |-> IF d.endpoint_host \in Ipv4 THEN d.endpoint_host ELSE Loopback,
     endpoint_port |-> d.endpoint_port,
     transport |-> "udp"]

\* A C++ int passed as std::uint32_t.
ToU32(n) == n % U32
=============================================================================
