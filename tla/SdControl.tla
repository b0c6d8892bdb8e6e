----------------------------- MODULE SdControl ------------------------------
(***************************************************************************)
(* The control calls of SomeIpSdApi (services/someip_sd_cpp/src/sd_api.cpp) *)
(* against a daemon: each call opens a socket of its own, sends one request,*)
(* waits for the first datagram or the timeout, closes the socket, and      *)
(* believes the answer if its id, type and payload fit.  Over UDP requests  *)
(* and answers travel a network and an answer goes to a port; over Unix     *)
(* domain sockets the sender blocks while the daemon's queue is full, and   *)
(* an answer goes to a path made of the process and the request id.  The    *)
(* daemon drops the leases that run out.                                     *)
(***************************************************************************)
EXTENDS SdRegistry

CONSTANTS
    Client,          \* API objects, each with one call at a time
    DescriptorOf,    \* the service each of them registers
    ProcessOf,       \* the process it lives in
    PortsOf,         \* the ports the kernel may give its sockets
    UnixClient,      \* those whose calls use Unix domain sockets, the others UDP
    Patient,         \* those with timeout_ms 0: their sockets never time out
    UnixQueue,       \* datagrams the daemon's Unix domain socket queues
    Ordered,         \* UDP requests reach the daemon in the order they were sent
    Lossy,           \* UDP requests and answers may be lost
    Ttl,             \* ttl_sec of every registration
    MaxCalls,        \* bound: calls of each client
    MaxTime          \* bound: ticks of the clock

ASSUME ControlAssumption ==
    /\ DescriptorOf \in [Client -> ServiceDescriptor]
    /\ PortsOf \in [Client -> SUBSET Nat]
    /\ UnixClient \subseteq Client /\ Patient \subseteq Client
    /\ Ordered \in BOOLEAN /\ Lossy \in BOOLEAN
    /\ UnixQueue \in Nat \ {0} /\ Ttl \in 1 .. TtlMax /\ MaxCalls \in Nat /\ MaxTime \in Nat

VARIABLES
    call,        \* the call of each client, in progress or last
    waiting,     \* the clients inside DoControlRequest
    sending,     \* those whose sendto has not returned
    next_id,     \* next_request_id_
    address,     \* the address each client's open socket was bound to
    bound,       \* which client's socket an address leads to
    requests,    \* the requests on their way to the daemon
    answers,     \* the answers on their way to a port
    inbox,       \* what each client's open socket has received
    registry,
    now,         \* the daemon's steady clock
    began,       \* history: when each client's last call began
    served       \* history: the clients whose last call the daemon handled

calls == << call, waiting, sending, next_id, address, bound, began >>
vars == << calls, requests, answers, inbox, registry, now, served >>

\* A call: what was asked, its request id, what it returned, and whether it
\* returned on the answer to its own request.
NoCall == [op |-> "none", id |-> 0, returned |-> "nothing", own |-> FALSE]

Init ==
    /\ call = [c \in Client |-> NoCall]
    /\ waiting = {} /\ sending = {}
    /\ next_id = [c \in Client |-> 1]
    /\ address = [c \in Client |-> << >>]
    /\ bound = << >>
    /\ requests = << >>
    /\ answers = {}
    /\ inbox = [c \in Client |-> << >>]
    /\ registry = << >>
    /\ now = 0
    /\ began = [c \in Client |-> 0]
    /\ served = {}

-----------------------------------------------------------------------------
(* The caller *)

RegisterPayload(c) == BuildSdOfferPayload(DescriptorOf[c], ToU32(Ttl), FALSE)
UnregisterPayload(c) ==
    BuildSdOfferPayload([service_id |-> DescriptorOf[c].service_id,
                         instance_id |-> DescriptorOf[c].instance_id,
                         endpoint_host |-> Loopback, endpoint_port |-> 0,
                         transport |-> "udp"], 0, TRUE)

\* A fresh port; or the path of the process and the id, whoever had it before.
Addresses(c) ==
    IF c \in UnixClient THEN {<< ProcessOf[c], next_id[c] >>}
    ELSE {<< p >> : p \in PortsOf[c]} \ DOMAIN bound

\* What a call of the operation asks the daemon.
PayloadOf(c, op) == IF op = "register" THEN RegisterPayload(c) ELSE UnregisterPayload(c)

\* A call up to its send: AllocateRequestId, socket, and unlink and bind of a path.
\* A port is taken here too, though the kernel gives it in sendto.
Call(c, op) ==
    /\ c \notin waiting
    /\ next_id[c] <= MaxCalls
    /\ \E a \in Addresses(c) :
          /\ address' = [address EXCEPT ![c] = a]
          /\ bound' = [b \in DOMAIN bound \cup {a} |-> IF b = a THEN c ELSE bound[b]]
    /\ call' = [call EXCEPT ![c] =
                  [op |-> op, id |-> next_id[c], returned |-> "nothing", own |-> FALSE]]
    /\ waiting' = waiting \cup {c} /\ sending' = sending \cup {c}
    /\ next_id' = [next_id EXCEPT ![c] = (next_id[c] + 1) % U32]
    /\ inbox' = [inbox EXCEPT ![c] = << >>]
    /\ began' = [began EXCEPT ![c] = now]
    /\ served' = served \ {c}
    /\ UNCHANGED << requests, answers, registry, now >>

RegisterService(c) == Call(c, "register")
UnregisterService(c) == Call(c, "unregister")

ByUnix(i) == requests[i].client \in UnixClient

\* sendto: it blocks while the daemon's Unix domain socket has no room.
Send(c) ==
    /\ c \in sending
    /\ c \in UnixClient => Cardinality({i \in DOMAIN requests : ByUnix(i)}) < UnixQueue
    /\ requests' = Append(requests,
          [client |-> c, id |-> call[c].id, from |-> address[c],
           packet |-> EncodePacket([message_type |-> "request", request_id |-> call[c].id,
                                    payload |-> PayloadOf(c, call[c].op)])])
    /\ sending' = sending \ {c}
    /\ UNCHANGED << call, waiting, next_id, address, bound, began,
                    answers, inbox, registry, now, served >>

\* Faulty: the socket is never closed.
FaultyClose(c) == bound' = bound

\* close and, for a path, unlink: of the path, whichever socket it leads to.
Close(c) ==
    bound' = IF c \in UnixClient \/ (address[c] \in DOMAIN bound /\ bound[address[c]] = c)
             THEN Restrict(bound, DOMAIN bound \ {address[c]})
             ELSE bound

Return(c, result, own) ==
    /\ Close(c)
    /\ call' = [call EXCEPT ![c].returned = result, ![c].own = own]
    /\ waiting' = waiting \ {c} /\ sending' = sending \ {c}
    /\ address' = [address EXCEPT ![c] = << >>]
    /\ UNCHANGED << next_id, began, requests, answers, registry, now, served >>

\* sendto returns an error, nothing was sent.
SendFails(c) ==
    /\ c \in sending
    /\ Return(c, "false", FALSE)
    /\ UNCHANGED inbox

\* Faulty: any answer will do; an acknowledgement must carry a TTL.
FaultyAcceptsAny(c, packet) ==
    packet.message_type = "response" /\ IsOffer(packet.payload)
FaultyAcceptsTtl(c, packet) ==
    /\ packet.request_id = call[c].id
    /\ packet.message_type = "response"
    /\ IsOffer(packet.payload) /\ ParseSdOfferFirst(packet.payload).ttl > 0

\* The checks of RegisterService and UnregisterService.
Accepts(c, packet) ==
    /\ packet.request_id = call[c].id
    /\ packet.message_type = "response"
    /\ IsOffer(packet.payload)

\* The first datagram ends the call, whatever it is.
Receive(c) ==
    /\ c \in waiting \ sending /\ inbox[c] # << >>
    /\ LET first == Head(inbox[c])
       IN  Return(c, IF Accepts(c, first.packet) THEN "true" ELSE "false",
                  first.client = c /\ first.id = call[c].id)
    /\ inbox' = [inbox EXCEPT ![c] = << >>]

\* Faulty: the socket has no SO_RCVTIMEO.
FaultyTimeout(c) == FALSE

\* SO_RCVTIMEO: nothing came in time.  It does not bound the send, and a timeout of
\* 0 is none.
Timeout(c) ==
    /\ c \in waiting \ (sending \cup Patient) /\ inbox[c] = << >>
    /\ Return(c, "false", FALSE)
    /\ UNCHANGED inbox

-----------------------------------------------------------------------------
(* The daemon and the network *)

\* The socket an address leads to queues the answer, if there is one.
Queue(a, answer) ==
    IF a \in DOMAIN bound
    THEN [inbox EXCEPT ![bound[a]] = Append(inbox[bound[a]], answer)]
    ELSE inbox

\* Nothing sent to the same socket of the daemon is still queued before it.
IsNext(i) == \A j \in 1 .. i - 1 : ByUnix(j) # ByUnix(i)

\* The daemon receives a request, handles it and answers its sender.
Handle(i) ==
    LET req == requests[i]
        answer == [client |-> req.client, id |-> req.id,
                   packet |-> EncodePacket(AnswerTo(registry, req.packet))]
    IN  /\ Ordered \/ ByUnix(i) => IsNext(i)
        /\ requests' = RemoveAt(requests, i)
        /\ registry' = RegistryAfter(registry, now, req.packet)
        /\ served' = served \cup {c \in Client : c = req.client /\ call[c].id = req.id}
        /\ \/ ByUnix(i) /\ inbox' = Queue(req.from, answer) /\ UNCHANGED answers
           \/ ~ ByUnix(i) /\ answers' = answers \cup {[to |-> req.from, answer |-> answer]}
                         /\ UNCHANGED inbox
        /\ UNCHANGED << calls, now >>

Serve == \E i \in DOMAIN requests : Handle(i)
ServeUnix == \E i \in DOMAIN requests : ByUnix(i) /\ Handle(i)

\* CleanupExpired, when there is something to drop.
Expire ==
    /\ registry' = CleanupExpired(registry, now) /\ registry' # registry
    /\ UNCHANGED << calls, requests, answers, inbox, now, served >>

Tick ==
    /\ now < MaxTime /\ now' = now + 1
    /\ UNCHANGED << calls, requests, answers, inbox, registry, served >>

\* An answer arrives at its port, open again or not.
Deliver ==
    /\ \E a \in answers :
          /\ answers' = answers \ {a}
          /\ inbox' = Queue(a.to, a.answer)
    /\ UNCHANGED << calls, requests, registry, now, served >>

LoseRequest ==
    /\ Lossy
    /\ \E i \in DOMAIN requests : ~ ByUnix(i) /\ requests' = RemoveAt(requests, i)
    /\ UNCHANGED << calls, answers, inbox, registry, now, served >>

LoseAnswer ==
    /\ Lossy
    /\ \E a \in answers : answers' = answers \ {a}
    /\ UNCHANGED << calls, requests, inbox, registry, now, served >>

Next ==
    \/ \E c \in Client :
         \/ RegisterService(c) \/ UnregisterService(c)
         \/ Send(c) \/ SendFails(c) \/ Receive(c) \/ Timeout(c)
    \/ Serve \/ Expire \/ Tick \/ Deliver \/ LoseRequest \/ LoseAnswer

\* A caller runs and its socket times out, and the daemon reads its Unix domain
\* socket; the network owes nothing, nor does sendto an error.
Fairness ==
    /\ \A c \in Client : WF_vars(Send(c)) /\ WF_vars(Receive(c) \/ Timeout(c))
    /\ WF_vars(ServeUnix)

Spec == Init /\ [][Next]_vars
FairSpec == Spec /\ Fairness

-----------------------------------------------------------------------------
TypeOK ==
    /\ \A c \in Client :
         /\ call[c].op \in {"none", "register", "unregister"}
         /\ call[c].returned \in {"nothing", "true", "false"}
         /\ Len(inbox[c]) <= MaxCalls
    /\ waiting \subseteq Client /\ sending \subseteq waiting
    /\ began \in [Client -> 0 .. now]
    /\ next_id \in [Client -> 0 .. U32 - 1]
    /\ \A a \in DOMAIN bound : bound[a] \in waiting
    /\ IsRegistry(registry)
    /\ served \subseteq Client

\* A call returns true only if the daemon handled that very request: the
\* answer to an earlier call that timed out, come late to the same address,
\* passes for no acknowledgement.
AckIsOwn ==
    \A c \in Client : call[c].returned = "true" => c \in served

\* A call that received the answer to its own request returns true: the
\* daemon refuses no registration and no withdrawal.
AnsweredCallSucceeds ==
    \A c \in Client : call[c].own => call[c].returned = "true"

\* Requests of the client are received in the order they were sent.
InOrder(c) == Ordered \/ c \in UnixClient

\* What a client whose requests stay in order was last told holds until its next
\* call: a service whose registration was acknowledged is registered with its
\* endpoint for its TTL at least, counted from the begin of the call, and one whose
\* withdrawal was acknowledged is gone, whatever earlier calls were given up.
LastAckHolds ==
    \A c \in Client :
        LET key == KeyOf(DescriptorOf[c])
        IN  InOrder(c) /\ c \notin waiting /\ call[c].returned = "true" =>
                /\ call[c].op = "register" /\ now < began[c] + Ttl * Second =>
                      /\ key \in DOMAIN registry
                      /\ registry[key].descriptor = Wire(DescriptorOf[c])
                /\ call[c].op = "unregister" => key \notin DOMAIN registry

\* What is registered under the ids of a client's service.
Place(c) ==
    LET key == KeyOf(DescriptorOf[c])
    IN  IF key \in DOMAIN registry THEN registry[key].descriptor ELSE NoPayload

Until(c) ==
    LET key == KeyOf(DescriptorOf[c])
    IN  IF key \in DOMAIN registry THEN registry[key].expires_at ELSE 0

\* What the requests of its earlier calls that are still queued ask.
Late(c) ==
    {op \in {"register", "unregister"} : \E i \in DOMAIN requests :
        /\ requests[i].client = c /\ requests[i].id # call[c].id
        /\ requests[i].packet.payload = PayloadOf(c, op)}

Directory ==
    INSTANCE SdDirectory WITH
        Listing <- [c \in Client |-> Wire(DescriptorOf[c])],
        Nothing <- NoPayload,
        Span <- Ttl * Second,
        Ordered <- {c \in Client : InOrder(c)},
        place <- [c \in Client |-> Place(c)],
        until <- [c \in Client |-> Until(c)],
        asked <- [c \in Client |-> call[c].op],
        told <- [c \in Client |-> call[c].returned],
        effect <- served,
        late <- [c \in Client |-> Late(c)]

\* Each call is one step on the directory, between its begin and its end if it
\* returns true, and at any time or never if it does not; an earlier call's step
\* never comes after a later one's if requests stay in order; and what was entered
\* stands for its TTL at least, unless its client strikes it out.
ImplementsDirectory == Directory!Spec

\* Every call of a client with a timeout returns, though no timeout bounds its send:
\* the daemon drains the queue, full of the requests of calls that were given up.
CallReturns == \A c \in Client \ Patient : c \in waiting ~> c \notin waiting
=============================================================================
