----------------------------- MODULE MCSdDaemon -----------------------------
(***************************************************************************)
(* A daemon with one service in two instances: its clients offer, stop and  *)
(* find, and send what HandlePacket refuses and what DecodePacket drops.    *)
(***************************************************************************)
EXTENDS SdDaemon

Ask(payload) ==
    [message_type |-> "request", request_id |-> 0, payload |-> payload]

\* A service at the loopback address.
At(instance, port) ==
    [service_id |-> "svc", instance_id |-> instance,
     endpoint_host |-> Loopback, endpoint_port |-> port, transport |-> "udp"]

MCRequests ==
    {Ask(BuildSdOfferPayload(At("i1", 1), 1, FALSE)),
     Ask(BuildSdOfferPayload(At("i1", 2), 2, FALSE)),
     Ask(BuildSdOfferPayload(At("i2", 1), 1, FALSE)),
     Ask(BuildSdOfferPayload(At("i1", 0), 0, TRUE)),
     Ask(BuildSdFindPayload("svc", NoInstance)),
     Ask(BuildSdFindPayload("svc", "i1")),
     [message_type |-> "response", request_id |-> 0, payload |-> NoPayload],
     Undecodable}

=============================================================================
