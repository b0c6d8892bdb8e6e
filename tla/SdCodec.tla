------------------------------ MODULE SdCodec ------------------------------
(***************************************************************************)
(* One packet at a time over the wire format of protocol.cpp: a caller of   *)
(* sd_api.cpp or the daemon builds it, the peer parses it.  The calls are   *)
(* RegisterService, UnregisterService, DiscoverServices and the daemon's     *)
(* answer to a find.                                                        *)
(***************************************************************************)
EXTENDS SdProtocol

CONSTANTS
    Ttls,     \* the ttl_sec RegisterService is called with: C++ ints
    Ids,      \* request ids AllocateRequestId hands out
    MaxList   \* bound: services in the answer to a find

ASSUME CodecAssumption ==
    Ttls \subseteq Int /\ Ids \subseteq Nat /\ MaxList \in Nat

VARIABLES
    call,     \* what the sender was asked to send
    wire,     \* the datagram on its way
    parsed    \* what the receiver read

vars == << call, wire, parsed >>

Nothing == [op |-> "none"]

Init ==
    /\ call = Nothing
    /\ wire = Undecodable
    /\ parsed = Nothing

Send(c, type, id, payload) ==
    /\ call = Nothing
    /\ call' = c
    /\ wire' = EncodePacket([message_type |-> type, request_id |-> id, payload |-> payload])
    /\ UNCHANGED parsed

\* RegisterService passes its int on as std::uint32_t.
RegisterService(d, ttl, id) ==
    Send([op |-> "register", descriptor |-> d, ttl |-> ttl, id |-> id],
         "request", id, BuildSdOfferPayload(d, ToU32(ttl), FALSE))

\* UnregisterService knows the ids only, the rest of the descriptor is default.
UnregisterService(service_id, instance_id, id) ==
    LET d == [service_id |-> service_id, instance_id |-> instance_id,
              endpoint_host |-> Loopback, endpoint_port |-> 0, transport |-> "udp"]
    IN  Send([op |-> "unregister", descriptor |-> d, id |-> id],
             "request", id, BuildSdOfferPayload(d, 0, TRUE))

DiscoverServices(service_id, instance_id, id) ==
    Send([op |-> "find", service_id |-> service_id, instance_id |-> instance_id, id |-> id],
         "request", id, BuildSdFindPayload(service_id, instance_id))

\* The answer of HandlePacket to a find, with TTL 3.
AnswerFind(services, id) ==
    Send([op |-> "list", services |-> services, id |-> id],
         "response", id, BuildSdOfferPayloadList(services, 3))

\* DecodePacket and the parser for what was sent.
Receive ==
    /\ call # Nothing /\ parsed = Nothing /\ Decodable(wire)
    /\ parsed' =
         CASE call.op \in {"register", "unregister"} ->
                [op |-> "offer", id |-> wire.request_id, is_find |-> IsFind(wire.payload),
                 offer |-> ParseSdOfferFirst(wire.payload)]
           [] call.op = "find" ->
                [op |-> "find", id |-> wire.request_id, is_find |-> IsFind(wire.payload),
                 query |-> ParseSdFindPayload(wire.payload)]
           [] OTHER ->
                [op |-> "list", id |-> wire.request_id,
                 services |-> ParseSdOffers(wire.payload)]
    /\ UNCHANGED << call, wire >>

\* The next packet.
Reset ==
    /\ parsed # Nothing
    /\ call' = Nothing /\ wire' = Undecodable /\ parsed' = Nothing

Lists == UNION {[1 .. n -> ServiceDescriptor] : n \in 0 .. MaxList}

Next ==
    \/ \E d \in ServiceDescriptor, ttl \in Ttls, id \in Ids : RegisterService(d, ttl, id)
    \/ \E s \in Service, i \in InstanceField, id \in Ids : UnregisterService(s, i, id)
    \/ \E s \in Service, i \in InstanceField \cup {NoInstance}, id \in Ids :
            DiscoverServices(s, i, id)
    \/ call = Nothing /\ \E services \in Lists, id \in Ids : AnswerFind(services, id)
    \/ Receive
    \/ Reset

Spec == Init /\ [][Next]_vars

-----------------------------------------------------------------------------
Got(op) == parsed # Nothing /\ call.op = op

\* No registration is taken for a withdrawal and no withdrawal for a
\* registration: HandlePacket tells them apart by the TTL alone, which
\* RegisterService casts from int and BuildServiceEntry clamps to 24 bits.
\* Only ttl_sec = 0 asks for what UnregisterService asks for.
TtlDecides ==
    /\ Got("register") /\ call.ttl % U32 # 0 => parsed.offer.ttl > 0
    /\ Got("unregister") => parsed.offer.ttl = 0

\* The daemon registers the service it was asked to register, under the ids
\* UnregisterService will name, at its IPv4 endpoint or at loopback, and for
\* UDP whatever transport the caller named.
OfferArrives ==
    Got("register") \/ Got("unregister") =>
        ~ parsed.is_find /\ parsed.offer.descriptor = Wire(call.descriptor)

\* A find arrives as the find that was sent, and the instance 0xFFFF as a find
\* for every instance.
FindArrives ==
    Got("find") =>
        /\ parsed.is_find
        /\ parsed.query.service_id = call.service_id
        /\ parsed.query.instance_id =
             IF call.instance_id = AnyInstance THEN NoInstance ELSE call.instance_id

\* Each service of a list arrives with its own endpoint, as long as the option
\* index of an entry can name the options of the list.
ListArrives ==
    Got("list") /\ Len(call.services) <= IndexSpan =>
        parsed.services = {Wire(call.services[i]) : i \in DOMAIN call.services}
=============================================================================
