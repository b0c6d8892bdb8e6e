------------------------------ MODULE SdLeases ------------------------------
(***************************************************************************)
(* What a service discovery daemon promises, without its loop, its sockets  *)
(* or its cleanup: an offer is a lease, a find returns every matching lease *)
(* that runs and none that ran out Grace ticks ago or earlier, and nothing  *)
(* but the end of its lease or a stop offer takes a service away.           *)
(***************************************************************************)
EXTENDS SdProtocol, Functions

CONSTANTS Second, Grace

VARIABLES
    leases,   \* from <<service, instance>> to its descriptor and the end of its lease
    now,
    answer    \* the last answer given: to what, about what, with which services

lvars == << leases, now, answer >>

LeaseKey(d) == << d.service_id, d.instance_id >>

Running(k) == leases[k].expires_at > now
InGrace(k) == leases[k].expires_at + Grace > now

Fits(k, service_id, instance_id) ==
    /\ leases[k].descriptor.service_id = service_id
    /\ instance_id # NoInstance => leases[k].descriptor.instance_id = instance_id

Init ==
    /\ leases = << >>
    /\ now = 0
    /\ answer = [op |-> "none", about |-> << >>, services |-> {}]

Offer(d, ttl) ==
    /\ leases' = [k \in DOMAIN leases \cup {LeaseKey(d)} |->
                    IF k = LeaseKey(d)
                    THEN [descriptor |-> d, expires_at |-> now + ttl * Second]
                    ELSE leases[k]]
    /\ answer' = [op |-> "offer", about |-> << d, ttl >>, services |-> {d}]
    /\ UNCHANGED now

StopOffer(d) ==
    /\ leases' = Restrict(leases, DOMAIN leases \ {LeaseKey(d)})
    /\ answer' = [op |-> "stop", about |-> << d >>, services |-> {d}]
    /\ UNCHANGED now

Find(service_id, instance_id) ==
    LET fitting == {k \in DOMAIN leases : Fits(k, service_id, instance_id)}
    IN  \E K \in SUBSET {k \in fitting : InGrace(k)} :
            /\ {k \in fitting : Running(k)} \subseteq K
            /\ answer' = [op |-> "find", about |-> << service_id, instance_id >>,
                          services |-> {leases[k].descriptor : k \in K}]
            /\ UNCHANGED << leases, now >>

Refuse ==
    /\ answer' = [op |-> "refused", about |-> << >>, services |-> {}]
    /\ UNCHANGED << leases, now >>

\* Leases that ran out are forgotten, some or all, now or later.
Forget ==
    /\ \E K \in SUBSET {k \in DOMAIN leases : ~ Running(k)} :
            leases' = Restrict(leases, DOMAIN leases \ K)
    /\ UNCHANGED << now, answer >>

Tick == now' = now + 1 /\ UNCHANGED << leases, answer >>

Next ==
    \/ \E d \in ServiceDescriptor, ttl \in 1 .. TtlMax : Offer(d, ttl)
    \/ \E d \in ServiceDescriptor : StopOffer(d)
    \/ \E service_id \in Service, instance_id \in InstanceField \cup {NoInstance} :
            Find(service_id, instance_id)
    \/ Refuse
    \/ Forget
    \/ Tick

Spec == Init /\ [][Next]_lvars
=============================================================================
