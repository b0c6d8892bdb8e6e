---------------------------- MODULE SdDiscovery -----------------------------
(***************************************************************************)
(* DiscoverServices of sd_api.cpp against the daemons of a multicast group: *)
(* one find goes to all of them, each answers with its list, the caller     *)
(* collects answers until its deadline, skips what is not for this find,    *)
(* and merges the lists.  A datagram longer than the caller's buffer loses  *)
(* its end, which DecodePacket notices by the length.  The registries       *)
(* change at any time: clients register and withdraw, leases run out.       *)
(***************************************************************************)
EXTENDS SdRegistry

CONSTANTS
    Daemon,       \* the daemons of the group
    Registries,   \* the registries a daemon may have
    Queries,      \* the [service_id, instance_id] the caller looks for
    Buffer,       \* bytes of the caller's buffer: 4096
    SocketQueue,  \* datagrams the caller's socket holds; more are dropped
    Window,       \* ticks of timeout_ms
    MaxFinds      \* bound: calls of DiscoverServices

ASSUME DiscoveryAssumption ==
    /\ \A r \in Registries : IsRegistry(r) /\ \A k \in DOMAIN r : KeyOf(r[k].descriptor) = k
    /\ Queries \subseteq [service_id : Service, instance_id : InstanceField \cup {NoInstance}]
    /\ Buffer \in Nat /\ SocketQueue \in Nat /\ Window \in Nat /\ MaxFinds \in Nat

VARIABLES
    registry,     \* the registry of each daemon
    query,        \* the query of the call in progress or last
    collecting,   \* the caller is inside DiscoverServices
    request_id,   \* the id of its find
    left,         \* ticks until its deadline
    waited,       \* history: ticks since its find was sent
    finds,        \* the finds on their way, by daemon
    answers,      \* the answers on their way to the caller's port
    inbox,        \* the datagrams queued in the caller's socket
    list, error,  \* what the call returns
    heard,        \* history: the daemons whose answer to this find was received
    offered,      \* history: what the daemons answered to this find
    steady        \* history: what each daemon had registered throughout the call

vars == << registry, query, collecting, request_id, left, waited, finds, answers, inbox,
           list, error, heard, offered, steady >>

Services(r) == {r[k].descriptor : k \in DOMAIN r}

Init ==
    /\ registry \in [Daemon -> Registries]
    /\ query \in Queries
    /\ collecting = FALSE
    /\ request_id = 0
    /\ left = 0 /\ waited = 0
    /\ finds = {}
    /\ answers = {}
    /\ inbox = << >>
    /\ list = << >> /\ error = FALSE
    /\ heard = {} /\ offered = {}
    /\ steady = [d \in Daemon |-> Services(registry[d])]

\* The call up to sendto: the socket is new, its port may be an old one, and
\* each of the group's daemons gets a copy of the find: at any time, or never.
DiscoverServices(q) ==
    /\ ~ collecting /\ request_id < MaxFinds
    /\ query' = q
    /\ collecting' = TRUE
    /\ request_id' = request_id + 1
    /\ left' = Window /\ waited' = 0
    /\ finds' = finds \cup
          {[daemon |-> d,
            packet |-> EncodePacket([message_type |-> "request", request_id |-> request_id',
                          payload |-> BuildSdFindPayload(q.service_id, q.instance_id)])] :
              d \in Daemon}
    /\ inbox' = << >>
    /\ list' = << >> /\ error' = FALSE
    /\ heard' = {} /\ offered' = {}
    /\ steady' = [d \in Daemon |-> Services(registry[d])]
    /\ UNCHANGED << registry, answers >>

\* A daemon handles a find, whenever it arrives.
Answer ==
    \E f \in finds :
        LET packet == EncodePacket(AnswerTo(registry[f.daemon], f.packet))
        IN  /\ finds' = finds \ {f}
            /\ answers' = answers \cup {[daemon |-> f.daemon, packet |-> packet]}
            /\ offered' = IF f.packet.request_id = request_id % IdSpan
                          THEN offered \cup ParseSdOffers(packet.payload) ELSE offered
            /\ UNCHANGED << registry, query, collecting, request_id, left, waited, inbox,
                            list, error, heard, steady >>

\* An answer arrives: never, once, or again and again.  Without a socket at its
\* port, or room in it, it is lost.
Deliver ==
    /\ collecting /\ Len(inbox) < SocketQueue
    /\ \E a \in answers : inbox' = Append(inbox, a)
    /\ UNCHANGED << registry, query, collecting, request_id, left, waited, finds, answers,
                    list, error, heard, offered, steady >>

-----------------------------------------------------------------------------
(* Collecting *)

DedupKey(d) == << d.service_id, d.instance_id, d.endpoint_port >>

\* Faulty: a service is listed again when it is heard again; one instance of
\* a service hides the others.
FaultyFreshAll(services) == services
FaultyFreshService(services) ==
    {d \in services : \A i \in DOMAIN list : list[i].service_id # d.service_id}

\* The services of an answer whose keys the list does not have.  An answer
\* has no two of one key: they come from a registry.
Fresh(services) ==
    {d \in services : \A i \in DOMAIN list : DedupKey(list[i]) # DedupKey(d)}

Truncated(packet) == PacketSize(packet) > Buffer

\* Faulty: an answer to any find will do.
FaultyExpected(packet) == packet.message_type = "response"

Expected(packet) ==
    packet.request_id = request_id /\ packet.message_type = "response"

\* Faulty: each datagram starts the wait anew.
FaultyTimeLeft == Window

\* The deadline was computed before the loop; a turn waits for what is left.
TimeLeft == left

\* recvfrom and what follows it, in one turn before the deadline.
Collect ==
    /\ collecting /\ left > 0 /\ inbox # << >>
    /\ LET a == Head(inbox)
       IN  \/ /\ Truncated(a.packet)
              /\ error' = TRUE
              /\ UNCHANGED << list, heard >>
           \/ /\ ~ Truncated(a.packet) /\ ~ Expected(a.packet)
              /\ UNCHANGED << list, error, heard >>
           \/ /\ ~ Truncated(a.packet) /\ Expected(a.packet)
              /\ list' = list \o SetToSeq(Fresh(ParseSdOffers(a.packet.payload)))
              /\ heard' = heard \cup {a.daemon}
              /\ UNCHANGED error
    /\ inbox' = Tail(inbox)
    /\ left' = TimeLeft
    /\ UNCHANGED << registry, query, collecting, request_id, waited, finds, answers,
                    offered, steady >>

\* The deadline: poll times out, or the loop's own check finds it passed
\* although datagrams are queued.
Return ==
    /\ collecting /\ left = 0
    /\ collecting' = FALSE
    /\ inbox' = << >>
    /\ UNCHANGED << registry, query, request_id, left, waited, finds, answers,
                    list, error, heard, offered, steady >>

\* poll is interrupted, or fails, while it waits: the call ends with the list
\* so far.
Interrupted ==
    /\ collecting /\ left > 0 /\ inbox = << >>
    /\ collecting' = FALSE
    /\ left' = 0
    /\ UNCHANGED << registry, query, request_id, waited, finds, answers, inbox,
                    list, error, heard, offered, steady >>

Tick ==
    /\ collecting /\ left > 0
    /\ left' = left - 1 /\ waited' = waited + 1
    /\ UNCHANGED << registry, query, collecting, request_id, finds, answers, inbox,
                    list, error, heard, offered, steady >>

\* A daemon's registry becomes another one: registrations, withdrawals, expiry.
\* After the last call nobody looks at it.
Change(d) ==
    /\ collecting \/ request_id < MaxFinds
    /\ \E r \in Registries :
          /\ registry' = [registry EXCEPT ![d] = r]
          /\ steady' = IF collecting
                       THEN [steady EXCEPT ![d] = @ \cap Services(r)] ELSE steady
    /\ UNCHANGED << query, collecting, request_id, left, waited, finds, answers, inbox,
                    list, error, heard, offered >>

Next ==
    \/ \E q \in Queries : DiscoverServices(q)
    \/ \E d \in Daemon : Change(d)
    \/ Answer \/ Deliver \/ Collect \/ Return \/ Interrupted \/ Tick

Spec == Init /\ [][Next]_vars

-----------------------------------------------------------------------------
Listed == {list[i] : i \in DOMAIN list}

\* Only services that some daemon offered in answer to this very find are
\* listed: not what a late answer to an earlier find says, for another query
\* or from a registry that has changed since.
ListedIsOffered == Listed \subseteq offered

\* No service is listed twice for one port, whoever offered it how often.
NoDuplicates ==
    \A i, j \in DOMAIN list : DedupKey(list[i]) = DedupKey(list[j]) => i = j

Asked(s) ==
    /\ s.service_id = query.service_id
    /\ query.instance_id \in {AnyInstance, NoInstance, s.instance_id}

\* A service the caller asked for that stayed registered with a daemon
\* throughout the call is listed under its key once the daemon's answer was
\* read, whatever else came and went there or was heard from other daemons.
HeardIsListed ==
    \A d \in heard : \A s \in steady[d] :
        Asked(s) => \E l \in Listed : DedupKey(l) = DedupKey(s)

\* An answer the caller took from its socket in time adds its services to the
\* list: none is thrown away whole.
NothingDropped == ~ error

\* No call waits longer than its timeout, whatever arrives meanwhile: a daemon
\* that answers again and again does not hold it up.
EndsInTime == collecting => waited <= Window
=============================================================================
