----------------------------- MODULE SdRegistry -----------------------------
(***************************************************************************)
(* The daemon's table of offered services and what HandlePacket and        *)
(* CleanupExpired of services/someip_sd_cpp/src/sd_daemon.cpp make of it,   *)
(* as operators on a registry: the modules that run a daemon share them.    *)
(***************************************************************************)
EXTENDS SdProtocol, FiniteSets, Functions, SequencesExt

CONSTANT Second   \* ticks of the steady clock in a second

ASSUME SecondAssumption == Second \in Nat \ {0}
ASSUME IdsAssumption == IsFiniteSet(Service) /\ IsFiniteSet(Instance)

\* MakeRegistryKey packs the two 16-bit ids of a service in 32 bits.
Key == Service \X InstanceField
\* Faulty: the instance is shifted out of the key.
FaultyKeyOf(d) == << d.service_id >>
KeyOf(d) == << d.service_id, d.instance_id >>

RegistryEntry == [descriptor : ServiceDescriptor, expires_at : Nat]
IsRegistry(r) ==
    /\ DOMAIN r \subseteq Key
    /\ r = [k \in DOMAIN r |-> r[k]]
    /\ \A k \in DOMAIN r : r[k] \in RegistryEntry

\* The TTL HandlePacket writes in the answer to a find.
FindTtl == 3

Request(packet) == packet.message_type = "request"
IsFindRequest(req) == Request(req) /\ IsFind(req.payload)
IsOfferRequest(req) ==
    Request(req) /\ IsOffer(req.payload) /\ ParseSdOfferFirst(req.payload).ttl > 0
IsStopOffer(req) ==
    Request(req) /\ IsOffer(req.payload) /\ ParseSdOfferFirst(req.payload).ttl = 0

Offered(req) == ParseSdOfferFirst(req.payload).descriptor

\* Faulty: a lease is kept through the tick it ends in; no lease ever goes.
FaultyCleanupLate(registry, now) ==
    Restrict(registry, {k \in DOMAIN registry : registry[k].expires_at >= now})
FaultyCleanupNone(registry, now) == registry

CleanupExpired(registry, now) ==
    Restrict(registry, {k \in DOMAIN registry : registry[k].expires_at > now})

\* Faulty: the instance asked for is ignored.
FaultyMatches(registry, service_id, instance_id) ==
    {registry[k].descriptor : k \in
        {j \in DOMAIN registry : registry[j].descriptor.service_id = service_id}}

Matches(registry, service_id, instance_id) ==
    {registry[k].descriptor : k \in
        {j \in DOMAIN registry :
            /\ registry[j].descriptor.service_id = service_id
            /\ \/ instance_id = NoInstance
               \/ registry[j].descriptor.instance_id = instance_id}}

Lease(req, now) ==
    [descriptor |-> Offered(req),
     expires_at |-> now + ParseSdOfferFirst(req.payload).ttl * Second]

Put(registry, key, lease) ==
    [k \in DOMAIN registry \cup {key} |-> IF k = key THEN lease ELSE registry[k]]

\* Faulty: an offer is stored under the wildcard key.
FaultyRegistryKey(registry, now, req) ==
    IF IsStopOffer(req)
    THEN Restrict(registry, DOMAIN registry \ {KeyOf(Offered(req))})
    ELSE IF IsOfferRequest(req)
         THEN Put(registry, << Offered(req).service_id, AnyInstance >>, Lease(req, now))
    ELSE registry

\* Faulty: a stop offer takes away every instance of its service.
FaultyRegistryStopAll(registry, now, req) ==
    IF IsStopOffer(req)
    THEN Restrict(registry, {k \in DOMAIN registry : k[1] # Offered(req).service_id})
    ELSE IF IsOfferRequest(req) THEN Put(registry, KeyOf(Offered(req)), Lease(req, now))
    ELSE registry

\* Faulty: a stop offer takes away the very descriptor it carries only.
FaultyRegistryStopSame(registry, now, req) ==
    IF IsStopOffer(req)
    THEN Restrict(registry, {k \in DOMAIN registry : registry[k].descriptor # Offered(req)})
    ELSE IF IsOfferRequest(req) THEN Put(registry, KeyOf(Offered(req)), Lease(req, now))
    ELSE registry

\* What HandlePacket leaves in registry_, called at time now.
RegistryAfter(registry, now, req) ==
    IF IsStopOffer(req)
    THEN Restrict(registry, DOMAIN registry \ {KeyOf(Offered(req))})
    ELSE IF IsOfferRequest(req) THEN Put(registry, KeyOf(Offered(req)), Lease(req, now))
    ELSE registry

\* What HandlePacket puts in resp.  The order of a find's list is the
\* iteration order of unordered_map: SetToSeq is one such order.
AnswerTo(registry, req) ==
    LET Answer(type, payload) ==
            [message_type |-> type, request_id |-> req.request_id, payload |-> payload]
        query == ParseSdFindPayload(req.payload)
        found == Matches(registry, query.service_id, query.instance_id)
        offer == ParseSdOfferFirst(req.payload)
    IN  IF IsFindRequest(req)
        THEN Answer("response", BuildSdOfferPayloadList(SetToSeq(found), FindTtl))
        ELSE IF IsStopOffer(req)
        THEN Answer("response", BuildSdOfferPayload(offer.descriptor, 0, TRUE))
        ELSE IF IsOfferRequest(req)
        THEN Answer("response", BuildSdOfferPayload(offer.descriptor, offer.ttl, FALSE))
        ELSE Answer("error", NoPayload)
=============================================================================
