--------------------------- MODULE MCSdDiscovery ----------------------------
(***************************************************************************)
(* Two daemons with up to three services: an instance two daemons offer at  *)
(* two hosts, an instance one of them offers, and the wildcard query.       *)
(***************************************************************************)
EXTENDS SdDiscovery

At(instance, host) ==
    [service_id |-> "svc", instance_id |-> instance,
     endpoint_host |-> host, endpoint_port |-> 1, transport |-> "udp"]

Holding(descriptors) ==
    [k \in {KeyOf(d) : d \in descriptors} |->
        [descriptor |-> CHOOSE d \in descriptors : KeyOf(d) = k, expires_at |-> 9]]

MCRegistries ==
    {Holding({At("i1", "loopback")}),
     Holding({At("i1", "addr"), At("i2", "addr")}),
     Holding({At("i1", "addr"), At("i2", "addr"), At("i3", "addr")})}

MCQueries ==
    {[service_id |-> "svc", instance_id |-> "i1"],
     [service_id |-> "svc", instance_id |-> NoInstance]}
=============================================================================
