-------------------------- MODULE SdControlProofs ---------------------------
(***************************************************************************)
(* Theorems about the control calls of SdControl, for any number of         *)
(* clients, over both transports, whatever is lost and reordered, as long   *)
(* as no request id comes twice.                                             *)
(***************************************************************************)
EXTENDS SdControl, SdProtocolProofs, SequenceTheorems

\* The ids of a client are told apart in the 16 bits of the header.
FewCalls == MaxCalls < IdSpan /\ IdSpan < U32

\* The addresses a client's sockets may be bound to.
AddressOf(c) == {<< ProcessOf[c], n >> : n \in Nat} \cup {<< p >> : p \in PortsOf[c]}
Address == UNION {AddressOf(c) : c \in Client}

\* No two clients share a process or a port.
Apart == \A c, d \in Client : c # d => AddressOf(c) \cap AddressOf(d) = {}

Offers ==
    {BuildSdOfferPayload(d, ttl, stop) : d \in ServiceDescriptor, ttl \in Nat, stop \in BOOLEAN}
Packets(type) == [message_type : {type}, request_id : Nat, payload : Offers]

\* The ids a client's calls have sent; the present call's only once it is sent.
Sent(c, n) == n < next_id[c] /\ (c \in sending => n # call[c].id)

\* What may be on its way to the daemon: an offer of an earlier or the present call.
Asked ==
    {r \in [client : Client, id : 1 .. MaxCalls, from : Address, packet : Packets("request")] :
        /\ Sent(r.client, r.id) /\ r.packet.request_id = r.id
        /\ r.from \in AddressOf(r.client)}

\* What may be on its way back: if it is for the present call, that was served.
Told ==
    {a \in [client : Client, id : 1 .. MaxCalls, packet : Packets("response")] :
        /\ Sent(a.client, a.id) /\ a.packet.request_id = a.id
        /\ a.id = call[a.client].id => a.client \in served}

ToldTo(c) == {a \in Told : Apart => a.client = c}

Calls ==
    [op : {"none", "register", "unregister"}, id : 0 .. MaxCalls,
     returned : {"nothing", "true", "false"}, own : BOOLEAN]

CallsTyped ==
    /\ waiting \subseteq Client /\ served \subseteq Client /\ sending \subseteq waiting
    /\ now \in Nat /\ began \in [Client -> 0 .. now]
    /\ next_id \in [Client -> 1 .. MaxCalls + 1]
    /\ call \in [Client -> Calls]
    /\ \A c \in Client : call[c].id < next_id[c] /\ (c \in waiting => call[c].id > 0)

BoundApart ==
    /\ DOMAIN address = Client /\ \A c \in waiting : address[c] \in AddressOf(c)
    /\ \A a \in DOMAIN bound : bound[a] \in Client /\ a \in AddressOf(bound[a])

InFlight ==
    /\ requests \in Seq(Asked)
    /\ answers \subseteq {a \in [to : Address, answer : Told] : a.to \in AddressOf(a.answer.client)}
    /\ DOMAIN inbox = Client /\ \A c \in Client : inbox[c] \in Seq(ToldTo(c))

Believed ==
    \A c \in Client :
        /\ Apart /\ call[c].returned = "true" => c \in served
        /\ call[c].own => call[c].returned = "true"

IInv == CallsTyped /\ BoundApart /\ InFlight /\ Believed

-----------------------------------------------------------------------------
(* Sequences *)

LEMMA SeqMonotone ==
    ASSUME NEW S, NEW T, S \subseteq T, NEW s \in Seq(S)
    PROVE  s \in Seq(T)
<1>1. s \in [1 .. Len(s) -> S] /\ Len(s) \in Nat
  BY LenProperties
<1>2. s \in [1 .. Len(s) -> T]
  BY <1>1
<1> QED
  BY <1>1, <1>2, SeqDef

LEMMA RemoveAtTyped ==
    ASSUME NEW S, NEW s \in Seq(S), NEW i \in 1 .. Len(s)
    PROVE  RemoveAt(s, i) \in Seq(S)
<1>1. Len(s) \in Nat /\ \A j \in 1 .. Len(s) : s[j] \in S
  BY LenProperties, ElementOfSeq
<1>2. SubSeq(s, 1, i - 1) \in Seq(S)
  BY <1>1, SubSeqProperties
<1>3. SubSeq(s, i + 1, Len(s)) \in Seq(S)
  BY <1>1, SubSeqProperties
<1> QED
  BY <1>2, <1>3, ConcatProperties DEF RemoveAt

LEMMA EmptyTyped == \A S : << >> \in Seq(S)
OBVIOUS

-----------------------------------------------------------------------------
(* Answers *)

\* HandlePacket answers an offer, a stop offer too, with an offer of the same id.
LEMMA OfferAnswered ==
    ASSUME NEW r, NEW req \in Packets("request")
    PROVE  /\ AnswerTo(r, req) \in Packets("response")
           /\ AnswerTo(r, req).request_id = req.request_id
<1>1. PICK d \in ServiceDescriptor, ttl \in Nat, stop \in BOOLEAN :
         req.payload = BuildSdOfferPayload(d, ttl, stop)
  BY DEF Packets, Offers
<1> DEFINE offer == ParseSdOfferFirst(req.payload)
           answer(payload) ==
              [message_type |-> "response", request_id |-> req.request_id, payload |-> payload]
<1>2. /\ IsOffer(req.payload) /\ offer.descriptor = Wire(d)
  BY <1>1, OfferRoundTrip
<1>3. offer.ttl \in Nat
  BY <1>1, ProtocolAssumption DEF BuildSdOfferPayload, BuildServiceEntry, ParseSdOfferFirst
<1>4. ~ IsFindRequest(req) /\ Request(req) /\ req.request_id \in Nat
  BY <1>2 DEF IsFindRequest, IsFind, IsOffer, Request, Packets
<1>5. offer.descriptor \in ServiceDescriptor
  BY <1>2, ProtocolAssumption DEF Wire, ServiceDescriptor
<1>6. \A x \in ServiceDescriptor, n \in Nat, b \in BOOLEAN : BuildSdOfferPayload(x, n, b) \in Offers
  BY DEF Offers
<1>7. IsStopOffer(req) \/ IsOfferRequest(req)
  BY <1>2, <1>3, <1>4 DEF IsStopOffer, IsOfferRequest
<1>8. \/ AnswerTo(r, req) = answer(BuildSdOfferPayload(offer.descriptor, 0, TRUE))
      \/ AnswerTo(r, req) = answer(BuildSdOfferPayload(offer.descriptor, offer.ttl, FALSE))
  BY <1>4, <1>7 DEF AnswerTo
<1> HIDE DEF offer
<1>9. /\ BuildSdOfferPayload(offer.descriptor, 0, TRUE) \in Offers
      /\ BuildSdOfferPayload(offer.descriptor, offer.ttl, FALSE) \in Offers
  BY <1>3, <1>5, <1>6
<1>10. PICK p \in Offers : AnswerTo(r, req) = answer(p)
  BY <1>8, <1>9, Zenon
<1>11. answer(p) \in Packets("response") /\ answer(p).request_id = req.request_id
  BY <1>4 DEF Packets
<1> QED
  BY <1>10, <1>11

\* EncodePacket keeps an id that fits the header.
LEMMA EncodeKeeps ==
    ASSUME NEW type, NEW p \in Packets(type), p.request_id < IdSpan
    PROVE  EncodePacket(p) = p
<1>1. p.request_id % IdSpan = p.request_id
  BY ProtocolAssumption DEF Packets
<1> QED
  BY <1>1 DEF EncodePacket, Packets

LEMMA OffersAreOffers == ASSUME NEW p \in Offers PROVE IsOffer(p)
BY OfferRoundTrip DEF Offers

-----------------------------------------------------------------------------
(* The inductive step *)

LEMMA InitIInv == Init => IInv
<1> SUFFICES ASSUME Init PROVE IInv
  OBVIOUS
<1>1. NoCall \in Calls /\ NoCall.id = 0 /\ NoCall.own = FALSE /\ NoCall.returned = "nothing"
  BY ControlAssumption DEF NoCall, Calls
<1>2. 1 \in 1 .. MaxCalls + 1 /\ 0 \in 0 .. 0
  BY ControlAssumption
<1>3. CallsTyped
  BY <1>1, <1>2 DEF Init, CallsTyped
<1>4. BoundApart
  BY DEF Init, BoundApart
<1>5. InFlight
  BY DEF Init, InFlight
<1>6. Believed
  BY <1>1 DEF Init, Believed
<1> QED
  BY <1>3, <1>4, <1>5, <1>6 DEF IInv

\* What is on its way stays what it was when calls begin, are served and return.
LEMMA Keeps ==
    ASSUME CallsTyped, next_id' \in [Client -> Int],
           \A c \in Client : next_id[c] <= next_id'[c],
           \A c \in Client :
              \/ /\ call'[c].id = call[c].id
                 /\ (c \in served => c \in served') /\ (c \in sending' => c \in sending)
              \/ call'[c].id = next_id[c]
    PROVE  Asked \subseteq Asked' /\ Told \subseteq Told'
           /\ \A c \in Client : ToldTo(c) \subseteq ToldTo(c)'
<1>1. ASSUME NEW i \in 1 .. MaxCalls, NEW c \in Client, Sent(c, i)
      PROVE  Sent(c, i)' /\ i # next_id[c]
  BY <1>1 DEF CallsTyped, Sent
<1>2. Asked \subseteq Asked'
  BY <1>1 DEF Asked
<1>3. Told \subseteq Told'
  <2> SUFFICES ASSUME NEW a \in Told PROVE a \in Told'
    OBVIOUS
  <2>1. a.client \in Client /\ a.id \in 1 .. MaxCalls /\ Sent(a.client, a.id)
    BY DEF Told
  <2>2. Sent(a.client, a.id)' /\ a.id # next_id[a.client]
    BY <1>1, <2>1
  <2>3. a.id = call'[a.client].id => a.client \in served'
    BY <2>1, <2>2 DEF Told
  <2> QED
    BY <2>2, <2>3 DEF Told
<1> QED
  BY <1>2, <1>3 DEF ToldTo

\* Everything on its way is taken over, but for what the step changes.
LEMMA FlightKept ==
    ASSUME InFlight, Asked \subseteq Asked', Told \subseteq Told',
           \A c \in Client : ToldTo(c) \subseteq ToldTo(c)'
    PROVE  /\ requests \in Seq(Asked')
           /\ answers \subseteq {a \in [to : Address, answer : Told'] :
                                   a.to \in AddressOf(a.answer.client)}
           /\ \A c \in Client : inbox[c] \in Seq(ToldTo(c)')
<1>1. requests \in Seq(Asked')
  BY SeqMonotone DEF InFlight
<1>2. \A c \in Client : inbox[c] \in Seq(ToldTo(c)')
  BY SeqMonotone DEF InFlight
<1>3. answers \subseteq {a \in [to : Address, answer : Told'] :
                           a.to \in AddressOf(a.answer.client)}
  BY DEF InFlight
<1> QED
  BY <1>1, <1>2, <1>3

LEMMA CallStep ==
    ASSUME FewCalls, IInv, NEW c \in Client, NEW op \in {"register", "unregister"}, Call(c, op)
    PROVE  IInv'
<1> DEFINE n == next_id[c]
<1>0. CallsTyped /\ BoundApart /\ InFlight /\ Believed
  BY DEF IInv
<1>1. PICK a \in Addresses(c) :
         /\ address' = [address EXCEPT ![c] = a]
         /\ bound' = [b \in DOMAIN bound \cup {a} |-> IF b = a THEN c ELSE bound[b]]
  BY DEF Call
<1>2. /\ call' = [call EXCEPT ![c] = [op |-> op, id |-> n, returned |-> "nothing", own |-> FALSE]]
      /\ next_id' = [next_id EXCEPT ![c] = (n + 1) % U32]
      /\ waiting' = waiting \cup {c} /\ sending' = sending \cup {c} /\ served' = served \ {c}
      /\ began' = [began EXCEPT ![c] = now] /\ now' = now
      /\ inbox' = [inbox EXCEPT ![c] = << >>] /\ UNCHANGED << requests, answers >>
      /\ n \in 1 .. MaxCalls
  BY <1>0, ControlAssumption DEF Call, CallsTyped
<1> HIDE DEF n
<1>3. (n + 1) % U32 = n + 1 /\ n + 1 \in 1 .. MaxCalls + 1 /\ n < IdSpan
  BY <1>2, ControlAssumption, ProtocolAssumption DEF FewCalls
<1>4. a \in AddressOf(c)
  BY <1>0, <1>1 DEF Addresses, AddressOf, CallsTyped
<1>6. /\ next_id'[c] = n + 1 /\ next_id[c] = n
      /\ \A d \in Client \ {c} : next_id'[d] = next_id[d]
      /\ next_id' \in [Client -> 1 .. MaxCalls + 1]
  BY <1>0, <1>2, <1>3 DEF CallsTyped, n
<1>7. /\ call'[c].id = n /\ call'[c].returned = "nothing" /\ call'[c].own = FALSE
      /\ \A d \in Client \ {c} : call'[d] = call[d]
      /\ call' \in [Client -> Calls]
  BY <1>0, <1>2 DEF CallsTyped, Calls
<1>8. CallsTyped'
  <2>1. began' \in [Client -> 0 .. now'] /\ now' \in Nat
    BY <1>0, <1>2 DEF CallsTyped
  <2>2. /\ waiting' \subseteq Client /\ served' \subseteq Client /\ sending' \subseteq waiting'
        /\ \A d \in Client : call'[d].id < next_id'[d] /\ (d \in waiting' => call'[d].id > 0)
    BY <1>0, <1>2, <1>6, <1>7 DEF CallsTyped
  <2> QED
    BY <1>6, <1>7, <2>1, <2>2 DEF CallsTyped
<1>9. Asked \subseteq Asked' /\ Told \subseteq Told'
      /\ \A d \in Client : ToldTo(d) \subseteq ToldTo(d)'
  <2>1. \A d \in Client : next_id[d] <= next_id'[d]
    BY <1>0, <1>2, <1>6 DEF CallsTyped
  <2>2. \A d \in Client : \/ /\ call'[d].id = call[d].id
                             /\ (d \in served => d \in served') /\ (d \in sending' => d \in sending)
                          \/ call'[d].id = next_id[d]
    BY <1>2, <1>6, <1>7
  <2>3. next_id' \in [Client -> Int]
    BY <1>6
  <2> QED
    BY <1>0, <2>1, <2>2, <2>3, Keeps
<1>10. BoundApart'
  <2>1. DOMAIN address' = Client /\ \A d \in waiting' : address'[d] \in AddressOf(d)
    BY <1>0, <1>1, <1>2, <1>4 DEF BoundApart, CallsTyped
  <2>2. \A b \in DOMAIN bound' : bound'[b] \in Client /\ b \in AddressOf(bound'[b])
    BY <1>0, <1>1, <1>4 DEF BoundApart
  <2> QED
    BY <2>1, <2>2 DEF BoundApart, AddressOf
<1>11. InFlight'
  <2>3. \A d \in Client : inbox'[d] \in Seq(ToldTo(d)')
    <3>1. \A d \in Client : inbox'[d] = << >> \/ inbox'[d] = inbox[d]
      BY <1>0, <1>2 DEF InFlight
    <3>2. \A d \in Client : inbox[d] \in Seq(ToldTo(d)')
      BY <1>0, <1>9, FlightKept
    <3> QED
      BY <3>1, <3>2, EmptyTyped
  <2>4. DOMAIN inbox' = Client
    BY <1>0, <1>2 DEF InFlight
  <2> QED
    BY <1>0, <1>2, <1>9, <2>3, <2>4, FlightKept DEF InFlight
<1>12. Believed'
  BY <1>0, <1>2, <1>7 DEF Believed
<1> QED
  BY <1>8, <1>10, <1>11, <1>12 DEF IInv

\* What clients ask with is an offer, or a stop offer.
LEMMA PayloadsAreOffers ==
    ASSUME NEW c \in Client
    PROVE  \A op : PayloadOf(c, op) \in Offers
<1>0. \A x \in ServiceDescriptor, n \in Nat, b \in BOOLEAN : BuildSdOfferPayload(x, n, b) \in Offers
  BY DEF Offers
<1>1. DescriptorOf[c] \in ServiceDescriptor
  BY ControlAssumption
<1>2. ToU32(Ttl) \in Nat
  BY ControlAssumption, ProtocolAssumption DEF ToU32
<1>3. [service_id |-> DescriptorOf[c].service_id, instance_id |-> DescriptorOf[c].instance_id,
       endpoint_host |-> Loopback, endpoint_port |-> 0, transport |-> "udp"] \in ServiceDescriptor
  BY <1>1, ProtocolAssumption DEF ServiceDescriptor
<1>4. RegisterPayload(c) \in Offers
  BY <1>0, <1>1, <1>2 DEF RegisterPayload
<1>5. UnregisterPayload(c) \in Offers
  BY <1>0, <1>3 DEF UnregisterPayload
<1> QED
  BY <1>4, <1>5 DEF PayloadOf

LEMMA SendStep ==
    ASSUME FewCalls, IInv, NEW c \in Client, Send(c)
    PROVE  IInv'
<1> DEFINE n == call[c].id
           packet == [message_type |-> "request", request_id |-> n,
                      payload |-> PayloadOf(c, call[c].op)]
           r == [client |-> c, id |-> n, from |-> address[c], packet |-> packet]
<1>0. CallsTyped /\ BoundApart /\ InFlight /\ Believed
  BY DEF IInv
<1>1. /\ requests' = Append(requests, [client |-> c, id |-> n, from |-> address[c],
                                       packet |-> EncodePacket(packet)])
      /\ sending' = sending \ {c} /\ c \in sending
      /\ UNCHANGED << call, waiting, next_id, address, bound, began,
                      answers, inbox, registry, now, served >>
  BY DEF Send
<1>2. n \in 1 .. MaxCalls /\ n < next_id[c] /\ n < IdSpan
  BY <1>0, <1>1, ControlAssumption, ProtocolAssumption DEF CallsTyped, Calls, FewCalls
<1>3. packet \in Packets("request") /\ EncodePacket(packet) = packet
  <2>1. packet \in Packets("request")
    BY <1>2, PayloadsAreOffers DEF Packets
  <2> QED
    BY <1>2, <2>1, EncodeKeeps
<1>4. CallsTyped'
  BY <1>0, <1>1 DEF CallsTyped
<1>5. BoundApart' /\ Believed'
  BY <1>0, <1>1 DEF BoundApart, Believed, AddressOf
<1>6. Asked \subseteq Asked' /\ Told \subseteq Told'
      /\ \A d \in Client : ToldTo(d) \subseteq ToldTo(d)'
  <2>1. next_id' \in [Client -> Int] /\ \A d \in Client : next_id[d] <= next_id'[d]
    BY <1>0, <1>1 DEF CallsTyped
  <2>2. \A d \in Client : /\ call'[d].id = call[d].id
                          /\ (d \in served => d \in served') /\ (d \in sending' => d \in sending)
    BY <1>1
  <2> QED
    BY <1>0, <2>1, <2>2, Keeps
<1>7. r \in Asked'
  <2>1. address[c] \in AddressOf(c) /\ address[c] \in Address
    BY <1>0, <1>1 DEF BoundApart, CallsTyped, Address
  <2>2. Sent(c, n)'
    BY <1>1, <1>2 DEF Sent
  <2> QED
    BY <1>1, <1>2, <1>3, <2>1, <2>2 DEF Asked
<1>8. requests' \in Seq(Asked')
  <2>1. requests' = Append(requests, r)
    BY <1>1, <1>3
  <2> HIDE DEF r
  <2> QED
    BY <1>0, <1>6, <1>7, <2>1, FlightKept, AppendProperties
<1>9. InFlight'
  BY <1>0, <1>1, <1>6, <1>8, FlightKept DEF InFlight
<1> QED
  BY <1>4, <1>5, <1>9 DEF IInv

\* A call that returns was what it was, and returned what it did.
LEMMA ReturnedCall ==
    ASSUME CallsTyped, NEW c \in Client, NEW result \in {"true", "false"},
           NEW own \in BOOLEAN, Return(c, result, own)
    PROVE  /\ \A d \in Client \ {c} : call'[d] = call[d]
           /\ call'[c].op = call[c].op /\ call'[c].id = call[c].id
           /\ call'[c].returned = result /\ call'[c].own = own
           /\ call' \in [Client -> Calls]
<1>1. call' = [call EXCEPT ![c].returned = result, ![c].own = own]
  BY DEF Return
<1>2. call[c] \in Calls
  BY DEF CallsTyped
<1>3. PICK op \in {"none", "register", "unregister"}, i \in 0 .. MaxCalls,
           r \in {"nothing", "true", "false"}, o \in BOOLEAN :
         call[c] = [op |-> op, id |-> i, returned |-> r, own |-> o]
  BY <1>2 DEF Calls
<1>4. call'[c] = [op |-> op, id |-> i, returned |-> result, own |-> own]
  <2>1. call'[c] = [call[c] EXCEPT !.returned = result, !.own = own]
    BY <1>1 DEF CallsTyped
  <2>2. call'[c] = [[op |-> op, id |-> i, returned |-> r, own |-> o]
                       EXCEPT !.returned = result, !.own = own]
    BY <1>3, <2>1, Zenon
  <2> QED
    BY <2>2
<1>5. \A d \in Client \ {c} : call'[d] = call[d]
  BY <1>1 DEF CallsTyped
<1>6. call'[c] \in Calls
  BY <1>4 DEF Calls
<1>7. DOMAIN call' = Client /\ call' = [d \in Client |-> call'[d]]
  BY <1>1 DEF CallsTyped
<1>8. \A d \in Client : call'[d] \in Calls
  BY <1>5, <1>6 DEF CallsTyped
<1>9. call' \in [Client -> Calls]
  BY <1>7, <1>8
<1> QED
  BY <1>3, <1>4, <1>5, <1>9

\* A call returns what it was told, and leaves the rest.
LEMMA ReturnStep ==
    ASSUME IInv, NEW c \in Client, NEW result \in {"true", "false"}, NEW own \in BOOLEAN,
           Return(c, result, own), inbox' = [inbox EXCEPT ![c] = << >>] \/ UNCHANGED inbox,
           Apart /\ result = "true" => c \in served, own => result = "true"
    PROVE  IInv'
<1>0. CallsTyped /\ BoundApart /\ InFlight /\ Believed
  BY DEF IInv
<1>1. /\ call' = [call EXCEPT ![c].returned = result, ![c].own = own]
      /\ waiting' = waiting \ {c} /\ sending' = sending \ {c}
      /\ address' = [address EXCEPT ![c] = << >>]
      /\ UNCHANGED << next_id, began, requests, answers, now, served >>
      /\ Close(c)
  BY DEF Return
<1>2. /\ \A d \in Client \ {c} : call'[d] = call[d]
      /\ call'[c].id = call[c].id /\ call'[c].returned = result /\ call'[c].own = own
      /\ call' \in [Client -> Calls]
  BY <1>0, ReturnedCall
<1>3. CallsTyped'
  BY <1>0, <1>1, <1>2 DEF CallsTyped
<1>4. Asked \subseteq Asked' /\ Told \subseteq Told'
      /\ \A d \in Client : ToldTo(d) \subseteq ToldTo(d)'
  <2>1. \A d \in Client : next_id[d] <= next_id'[d] /\ call'[d].id = call[d].id
    BY <1>0, <1>1, <1>2 DEF CallsTyped
  <2>2. next_id' \in [Client -> Int]
    BY <1>0, <1>1 DEF CallsTyped
  <2> QED
    BY <1>0, <1>1, <2>1, <2>2, Keeps
<1>5. BoundApart'
  <2>1. DOMAIN address' = Client /\ \A d \in waiting' : address'[d] \in AddressOf(d)
    BY <1>0, <1>1 DEF BoundApart, CallsTyped
  <2>2. \A b \in DOMAIN bound' : b \in DOMAIN bound /\ bound'[b] = bound[b]
    BY <1>1 DEF Close, Restrict
  <2> QED
    BY <1>0, <2>1, <2>2 DEF BoundApart, AddressOf
<1>6. InFlight'
  <2>1. \A d \in Client : inbox'[d] \in Seq(ToldTo(d)')
    <3>1. \A d \in Client : inbox'[d] = << >> \/ inbox'[d] = inbox[d]
      BY <1>0 DEF InFlight
    <3>2. \A d \in Client : inbox[d] \in Seq(ToldTo(d)')
      BY <1>0, <1>4, FlightKept
    <3> QED
      BY <3>1, <3>2, EmptyTyped
  <2>2. DOMAIN inbox' = Client
    BY <1>0 DEF InFlight
  <2> QED
    BY <1>0, <1>1, <1>4, <2>1, <2>2, FlightKept DEF InFlight
<1>7. Believed'
  BY <1>0, <1>1, <1>2 DEF Believed
<1> QED
  BY <1>3, <1>5, <1>6, <1>7 DEF IInv

\* Wherever an answer is for, the socket it reaches may receive it.
LEMMA QueueTyped ==
    ASSUME IInv, NEW answer \in Told', NEW to \in AddressOf(answer.client),
           Told \subseteq Told', \A c \in Client : ToldTo(c) \subseteq ToldTo(c)',
           Asked \subseteq Asked', inbox' = Queue(to, answer)
    PROVE  DOMAIN inbox' = Client /\ \A c \in Client : inbox'[c] \in Seq(ToldTo(c)')
<1>1. DOMAIN inbox = Client /\ \A c \in Client : inbox[c] \in Seq(ToldTo(c)')
  BY FlightKept DEF IInv, InFlight
<1>2. CASE to \notin DOMAIN bound
  BY <1>1, <1>2 DEF Queue
<1>3. CASE to \in DOMAIN bound
  <2>1. PICK d \in Client : d = bound[to] /\ to \in AddressOf(d)
    BY <1>3 DEF IInv, BoundApart
  <2>2. answer.client \in Client
    BY DEF Told
  <2>3. Apart => answer.client = d
    BY <2>1, <2>2 DEF Apart
  <2>4. answer \in ToldTo(d)'
    BY <2>3 DEF ToldTo
  <2>5. inbox' = [inbox EXCEPT ![d] = Append(inbox[d], answer)]
    BY <1>3, <2>1 DEF Queue
  <2>6. Append(inbox[d], answer) \in Seq(ToldTo(d)')
    BY <1>1, <2>1, <2>4, AppendProperties
  <2>7. \A c \in Client : inbox'[c] = IF c = d THEN Append(inbox[d], answer) ELSE inbox[c]
    BY <1>1, <2>5
  <2>8. DOMAIN inbox' = Client
    BY <1>1, <2>5
  <2> QED
    BY <1>1, <2>6, <2>7, <2>8
<1> QED
  BY <1>2, <1>3

\* A step of the daemon or the network leaves the callers alone.
LEMMA OutsideStep ==
    ASSUME IInv, UNCHANGED calls, served \subseteq served', served' \subseteq Client,
           now' = now \/ now' = now + 1
    PROVE  /\ CallsTyped' /\ BoundApart' /\ Believed'
           /\ Asked \subseteq Asked' /\ Told \subseteq Told'
           /\ \A c \in Client : ToldTo(c) \subseteq ToldTo(c)'
<1>1. /\ call' = call /\ waiting' = waiting /\ sending' = sending /\ next_id' = next_id
      /\ bound' = bound /\ address' = address /\ began' = began
      /\ CallsTyped /\ BoundApart /\ Believed
  BY DEF IInv, calls
<1>2. CallsTyped'
  <2>1. now' \in Nat /\ began' \in [Client -> 0 .. now']
    BY <1>1 DEF CallsTyped
  <2> QED
    BY <1>1, <2>1 DEF CallsTyped
<1>3. BoundApart'
  BY <1>1 DEF BoundApart, AddressOf
<1>4. Believed'
  BY <1>1 DEF Believed
<1>5. /\ next_id' \in [Client -> Int] /\ \A c \in Client : next_id[c] <= next_id'[c]
      /\ \A c \in Client : /\ call'[c].id = call[c].id
                           /\ (c \in served => c \in served') /\ (c \in sending' => c \in sending)
  BY <1>1 DEF CallsTyped
<1> QED
  BY <1>1, <1>2, <1>3, <1>4, <1>5, Keeps

LEMMA ServeStep ==
    ASSUME FewCalls, IInv, Serve PROVE IInv'
<1> DEFINE answerTo(req) == [client |-> req.client, id |-> req.id,
                             packet |-> EncodePacket(AnswerTo(registry, req.packet))]
<1>1. PICK i \in DOMAIN requests :
         /\ requests' = RemoveAt(requests, i)
         /\ served' = served \cup {c \in Client : c = requests[i].client
                                                  /\ call[c].id = requests[i].id}
         /\ \/ inbox' = Queue(requests[i].from, answerTo(requests[i])) /\ UNCHANGED answers
            \/ /\ answers' = answers \cup {[to |-> requests[i].from,
                                            answer |-> answerTo(requests[i])]}
               /\ UNCHANGED inbox
  BY DEF Serve, Handle
<1>2. UNCHANGED << calls, now >> /\ call' = call /\ next_id' = next_id /\ sending' = sending
  BY DEF Serve, Handle, calls
<1>3. requests \in Seq(Asked) /\ i \in 1 .. Len(requests)
  BY DEF IInv, InFlight
<1>4. PICK req \in Asked : req = requests[i]
  BY <1>3, ElementOfSeq
<1>5. served \subseteq Client
  BY DEF IInv, CallsTyped
<1>6. /\ CallsTyped' /\ BoundApart' /\ Believed'
      /\ Asked \subseteq Asked' /\ Told \subseteq Told'
      /\ \A c \in Client : ToldTo(c) \subseteq ToldTo(c)'
  BY <1>1, <1>2, <1>5, OutsideStep
<1>7. PICK packet \in Packets("response") :
         packet = AnswerTo(registry, req.packet) /\ packet.request_id = req.packet.request_id
  <2>1. req.packet \in Packets("request")
    BY DEF Asked
  <2> QED
    BY <2>1, OfferAnswered
<1>8. /\ req.client \in Client /\ req.id \in 1 .. MaxCalls /\ Sent(req.client, req.id)
      /\ req.packet.request_id = req.id /\ req.from \in AddressOf(req.client)
      /\ req.from \in Address
  BY DEF Asked
<1>9. EncodePacket(packet) = packet
  <2>1. packet.request_id < IdSpan
    BY <1>7, <1>8, ControlAssumption, ProtocolAssumption DEF FewCalls
  <2> QED
    BY <2>1, EncodeKeeps
<1> DEFINE answer == [client |-> req.client, id |-> req.id, packet |-> packet]
<1>10. answerTo(requests[i]) = answer
  BY <1>4, <1>7, <1>9
<1>11. answer \in Told'
  <2>1. Sent(req.client, req.id)' /\ call' = call
    BY <1>2, <1>8 DEF Sent
  <2>2. call[req.client].id = req.id => req.client \in served'
    BY <1>1, <1>4, <1>8
  <2> QED
    BY <1>7, <1>8, <2>1, <2>2 DEF Told
<1>12. requests' \in Seq(Asked')
  <2>1. requests \in Seq(Asked')
    BY <1>3, <1>6, SeqMonotone
  <2> QED
    BY <1>1, <1>3, <2>1, RemoveAtTyped
<1>13. answer.client = req.client
  OBVIOUS
<1>14. \/ inbox' = Queue(req.from, answer) /\ UNCHANGED answers
       \/ answers' = answers \cup {[to |-> req.from, answer |-> answer]} /\ UNCHANGED inbox
  BY <1>1, <1>4, <1>10
<1> HIDE DEF answer, answerTo
<1>15. DOMAIN inbox' = Client /\ \A c \in Client : inbox'[c] \in Seq(ToldTo(c)')
  <2>1. CASE inbox' = Queue(req.from, answer)
    BY <1>6, <1>8, <1>11, <1>13, <2>1, QueueTyped
  <2>2. CASE UNCHANGED inbox
    <3>1. DOMAIN inbox = Client /\ InFlight
      BY DEF IInv, InFlight
    <3> QED
      BY <1>6, <2>2, <3>1, FlightKept
  <2> QED
    BY <1>14, <2>1, <2>2
<1>16. answers' \subseteq {a \in [to : Address, answer : Told'] :
                             a.to \in AddressOf(a.answer.client)}
  <2>1. answers \subseteq {a \in [to : Address, answer : Told'] :
                             a.to \in AddressOf(a.answer.client)}
    BY <1>6, FlightKept DEF IInv
  <2>2. [to |-> req.from, answer |-> answer]
          \in {a \in [to : Address, answer : Told'] : a.to \in AddressOf(a.answer.client)}
    BY <1>8, <1>11, <1>13
  <2> QED
    BY <1>14, <2>1, <2>2
<1>17. InFlight'
  BY <1>12, <1>15, <1>16 DEF InFlight
<1> QED
  BY <1>6, <1>17 DEF IInv

\* What the network delivers or loses was there.
LEMMA NetworkStep ==
    ASSUME IInv, Deliver \/ LoseRequest \/ LoseAnswer PROVE IInv'
<1>1. UNCHANGED calls /\ served' = served /\ now' = now
  BY DEF Deliver, LoseRequest, LoseAnswer
<1>2. served \subseteq Client
  BY DEF IInv, CallsTyped
<1>3. /\ CallsTyped' /\ BoundApart' /\ Believed'
      /\ Asked \subseteq Asked' /\ Told \subseteq Told'
      /\ \A c \in Client : ToldTo(c) \subseteq ToldTo(c)'
  BY <1>1, <1>2, OutsideStep
<1>4. /\ requests \in Seq(Asked')
      /\ answers \subseteq {a \in [to : Address, answer : Told'] :
                              a.to \in AddressOf(a.answer.client)}
      /\ DOMAIN inbox = Client /\ \A c \in Client : inbox[c] \in Seq(ToldTo(c)')
  BY <1>3, FlightKept DEF IInv, InFlight
<1>5. requests' \in Seq(Asked')
  <2>1. requests' = requests \/ \E i \in 1 .. Len(requests) : requests' = RemoveAt(requests, i)
    BY <1>4 DEF Deliver, LoseRequest, LoseAnswer
  <2> QED
    BY <1>4, <2>1, RemoveAtTyped
<1>6. answers' \subseteq answers
  BY DEF Deliver, LoseRequest, LoseAnswer
<1>7. DOMAIN inbox' = Client /\ \A c \in Client : inbox'[c] \in Seq(ToldTo(c)')
  <2>1. CASE Deliver
    <3>1. PICK a \in answers : inbox' = Queue(a.to, a.answer)
      BY <2>1 DEF Deliver
    <3>2. a.answer \in Told' /\ a.to \in AddressOf(a.answer.client)
      BY <1>4
    <3> QED
      BY <1>3, <3>1, <3>2, QueueTyped
  <2>2. CASE LoseRequest \/ LoseAnswer
    <3>1. inbox' = inbox
      BY <2>2 DEF LoseRequest, LoseAnswer
    <3> QED
      BY <1>4, <3>1
  <2> QED
    BY <2>1, <2>2
<1>8. InFlight'
  BY <1>4, <1>5, <1>6, <1>7 DEF InFlight
<1> QED
  BY <1>3, <1>8 DEF IInv

\* Time and the leases that run out are no business of the calls.
LEMMA ClockStep ==
    ASSUME IInv, Expire \/ Tick PROVE IInv'
<1>1. /\ UNCHANGED calls /\ served' = served /\ (now' = now \/ now' = now + 1)
      /\ UNCHANGED << requests, answers, inbox >> /\ served \subseteq Client
  BY DEF Expire, Tick, IInv, CallsTyped
<1>2. /\ CallsTyped' /\ BoundApart' /\ Believed'
      /\ Asked \subseteq Asked' /\ Told \subseteq Told'
      /\ \A c \in Client : ToldTo(c) \subseteq ToldTo(c)'
  BY <1>1, OutsideStep
<1>3. InFlight'
  BY <1>1, <1>2, FlightKept DEF IInv, InFlight
<1> QED
  BY <1>2, <1>3 DEF IInv

\* A client is told of its present call only what the daemon answered to it.
LEMMA ReceiveStep ==
    ASSUME IInv, NEW c \in Client, Receive(c) PROVE IInv'
<1>1. inbox[c] \in Seq(ToldTo(c)) /\ inbox[c] # << >>
  BY DEF IInv, InFlight, Receive
<1>2. PICK first \in ToldTo(c) : first = Head(inbox[c])
  BY <1>1, HeadTailProperties
<1> DEFINE result == IF Accepts(c, first.packet) THEN "true" ELSE "false"
           own == first.client = c /\ first.id = call[c].id
<1>3. /\ first.client \in Client /\ first.packet \in Packets("response")
      /\ first.packet.request_id = first.id
      /\ first.id = call[first.client].id => first.client \in served
      /\ Apart => first.client = c
  BY DEF ToldTo, Told
<1>4. first.packet.message_type = "response" /\ IsOffer(first.packet.payload)
  BY <1>3, OffersAreOffers DEF Packets
<1>5. Apart /\ result = "true" => c \in served
  BY <1>3 DEF Accepts
<1>6. own => result = "true"
  BY <1>3, <1>4 DEF Accepts
<1>7. Return(c, result, own) /\ inbox' = [inbox EXCEPT ![c] = << >>]
  BY <1>2 DEF Receive
<1>8. result \in {"true", "false"} /\ own \in BOOLEAN
  OBVIOUS
<1> HIDE DEF result, own
<1> QED
  BY <1>5, <1>6, <1>7, <1>8, ReturnStep

LEMMA TimeoutStep ==
    ASSUME IInv, NEW c \in Client, Timeout(c) PROVE IInv'
<1>1. Return(c, "false", FALSE) /\ UNCHANGED inbox
  BY DEF Timeout
<1> QED
  BY <1>1, ReturnStep

LEMMA SendFailsStep ==
    ASSUME IInv, NEW c \in Client, SendFails(c) PROVE IInv'
<1>1. Return(c, "false", FALSE) /\ UNCHANGED inbox
  BY DEF SendFails
<1> QED
  BY <1>1, ReturnStep

LEMMA InductiveStep ==
    ASSUME FewCalls, IInv, [Next]_vars PROVE IInv'
<1>1. ASSUME NEW c \in Client, RegisterService(c) \/ UnregisterService(c) PROVE IInv'
  BY <1>1, CallStep DEF RegisterService, UnregisterService
<1>2. ASSUME NEW c \in Client, Send(c) \/ SendFails(c) PROVE IInv'
  BY <1>2, SendStep, SendFailsStep
<1>3. ASSUME NEW c \in Client, Receive(c) PROVE IInv'
  BY <1>3, ReceiveStep
<1>4. ASSUME NEW c \in Client, Timeout(c) PROVE IInv'
  BY <1>4, TimeoutStep
<1>5. CASE Serve
  BY <1>5, ServeStep
<1>6. CASE Deliver \/ LoseRequest \/ LoseAnswer
  BY <1>6, NetworkStep
<1>7. CASE Expire \/ Tick
  BY <1>7, ClockStep
<1>8. CASE UNCHANGED vars
  BY <1>8 DEF vars, calls, IInv, CallsTyped, BoundApart, InFlight, Believed, Asked, Told, Sent,
     ToldTo, AddressOf
<1> QED
  BY <1>1, <1>2, <1>3, <1>4, <1>5, <1>6, <1>7, <1>8 DEF Next

\* The invariant that ties what is on its way to what was asked and served.
THEOREM Inductive == ASSUME FewCalls PROVE Spec => []IInv
<1>1. IInv /\ [Next]_vars => IInv'
  BY InductiveStep
<1> QED
  BY <1>1, InitIInv, PTL DEF Spec

\* RegisterService and UnregisterService return true only on the answer to
\* their own request, as long as no id comes twice and no two API objects share
\* a path or a port.
THEOREM AckBelongs == ASSUME FewCalls, Apart PROVE Spec => []AckIsOwn
<1>1. IInv => AckIsOwn
  BY DEF IInv, Believed, AckIsOwn
<1> QED
  BY <1>1, Inductive, PTL

\* No call whose own request was answered returns false.
THEOREM AnswerSucceeds == ASSUME FewCalls PROVE Spec => []AnsweredCallSucceeds
<1>1. IInv => AnsweredCallSucceeds
  BY DEF IInv, Believed, AnsweredCallSucceeds
<1> QED
  BY <1>1, Inductive, PTL

-----------------------------------------------------------------------------
(* The order of requests *)

Ops == {"register", "unregister"}

\* No two clients register under one service and instance.
OwnPlaces ==
    \A c, d \in Client : KeyOf(DescriptorOf[c]) = KeyOf(DescriptorOf[d]) => c = d

\* What a client's place should be after an operation of its own.
Outcome(c, op) == IF op = "register" THEN Wire(DescriptorOf[c]) ELSE NoPayload

\* A request asks what its client's call asked.
AskedBy(r) ==
    \E op \in Ops : /\ r.packet.payload = PayloadOf(r.client, op)
                    /\ r.id = call[r.client].id => op = call[r.client].op

\* The requests of one client are queued in the order of its calls.
Queued ==
    /\ \A i, j \in DOMAIN requests :
          i < j /\ requests[i].client = requests[j].client => requests[i].id < requests[j].id
    /\ \A i \in DOMAIN requests : AskedBy(requests[i])

\* A client's place shows its last call, or the lease of that call has run out.
Kept(c) ==
    \/ /\ Place(c) = Outcome(c, call[c].op)
       /\ call[c].op = "register" => Until(c) >= began[c] + Ttl * Second
    \/ call[c].op = "register" /\ now >= began[c] + Ttl * Second

\* Of a call that was handled nothing is queued any more and, in order, nothing
\* of the calls before it; and the registry shows what it asked.
Handled ==
    \A c \in served :
        /\ call[c].op \in Ops /\ c \notin sending
        /\ \A i \in DOMAIN requests :
              requests[i].client = c => requests[i].id # call[c].id /\ ~ InOrder(c)
        /\ OwnPlaces /\ InOrder(c) => Kept(c)

\* A client waits for the call that has not returned.
Waits ==
    \A c \in Client :
        c \in waiting <=> call[c].op \in Ops /\ call[c].returned = "nothing"

\* The calls of a client are numbered one by one.
Numbered == \A c \in Client : next_id[c] = call[c].id + 1

InTurn == Queued /\ Handled /\ Waits /\ Numbered /\ IsRegistry(registry)

LEMMA RemoveAtElements ==
    ASSUME NEW S, NEW s \in Seq(S), NEW i \in 1 .. Len(s)
    PROVE  /\ DOMAIN RemoveAt(s, i) = 1 .. Len(s) - 1
           /\ \A j \in 1 .. Len(s) - 1 :
                 RemoveAt(s, i)[j] = s[IF j < i THEN j ELSE j + 1]
<1> DEFINE n == Len(s)
           a == SubSeq(s, 1, i - 1)
           b == SubSeq(s, i + 1, n)
<1>1. n \in Nat /\ \A j \in 1 .. n : s[j] \in S
  BY LenProperties, ElementOfSeq
<1> HIDE DEF n
<1>2. i \in 1 .. n
  BY DEF n
<1>3. /\ a \in Seq(S) /\ Len(a) = i - 1
      /\ \A j \in 1 .. i - 1 : a[j] = s[j]
  <2>1. \A j \in 1 .. i - 1 : s[j] \in S
    BY <1>1, <1>2
  <2>2. /\ a \in Seq(S) /\ Len(a) = IF 1 <= i - 1 THEN i - 1 - 1 + 1 ELSE 0
        /\ \A j \in 1 .. i - 1 - 1 + 1 : a[j] = s[1 + j - 1]
    BY <1>2, <2>1, SubSeqProperties
  <2> QED
    BY <1>1, <1>2, <2>2
<1>4. /\ b \in Seq(S) /\ Len(b) = n - i
      /\ \A j \in 1 .. n - i : b[j] = s[i + j]
  <2>1. \A j \in i + 1 .. n : s[j] \in S
    BY <1>1, <1>2
  <2>2. /\ b \in Seq(S) /\ Len(b) = IF i + 1 <= n THEN n - (i + 1) + 1 ELSE 0
        /\ \A j \in 1 .. n - (i + 1) + 1 : b[j] = s[i + 1 + j - 1]
    BY <1>1, <1>2, <2>1, SubSeqProperties
  <2>3. n - (i + 1) + 1 = n - i
    BY <1>1, <1>2
  <2>4. Len(b) = n - i
    BY <1>1, <1>2, <2>2
  <2>5. ASSUME NEW j \in 1 .. n - i PROVE b[j] = s[i + j]
    <3>1. i + 1 + j - 1 = i + j
      BY <1>1, <1>2
    <3> QED
      BY <2>2, <2>3, <3>1
  <2> HIDE DEF b
  <2> QED
    BY <2>2, <2>4, <2>5
<1>5. RemoveAt(s, i) = a \o b
  BY DEF RemoveAt, n
<1> HIDE DEF a, b
<1>6. /\ a \o b \in Seq(S) /\ Len(a \o b) = n - 1
      /\ \A j \in 1 .. n - 1 : (a \o b)[j] = IF j <= i - 1 THEN a[j] ELSE b[j - (i - 1)]
  <2>1. Len(a) + Len(b) = n - 1
    BY <1>1, <1>2, <1>3, <1>4
  <2> QED
    BY <1>3, <1>4, <2>1, ConcatProperties
<1>7. ASSUME NEW j \in 1 .. n - 1 PROVE (a \o b)[j] = s[IF j < i THEN j ELSE j + 1]
  <2>1. CASE j < i
    BY <1>1, <1>2, <1>3, <1>6, <2>1
  <2>2. CASE ~ (j < i)
    <3>1. j - (i - 1) \in 1 .. n - i /\ i + (j - (i - 1)) = j + 1 /\ ~ (j <= i - 1)
      BY <1>1, <1>2, <2>2
    <3> QED
      BY <1>4, <1>6, <2>2, <3>1
  <2> QED
    BY <2>1, <2>2
<1>8. DOMAIN (a \o b) = 1 .. n - 1
  BY <1>6, LenProperties
<1> QED
  BY <1>5, <1>7, <1>8 DEF n

\* Whatever is left of the queue was in it, in the same order.
LEMMA RequestsLeft ==
    ASSUME InFlight, NEW i \in DOMAIN requests, requests' = RemoveAt(requests, i), Queued
    PROVE  /\ \A j \in DOMAIN requests' :
                 \E k \in DOMAIN requests : k # i /\ requests'[j] = requests[k]
           /\ \A k \in DOMAIN requests \ {i} :
                 \E j \in DOMAIN requests' : requests'[j] = requests[k]
           /\ \A j, l \in DOMAIN requests' :
                 j < l /\ requests'[j].client = requests'[l].client
                    => requests'[j].id < requests'[l].id
<1> DEFINE n == Len(requests)
           at(j) == IF j < i THEN j ELSE j + 1
<1>1. n \in Nat /\ DOMAIN requests = 1 .. n
  BY LenProperties DEF InFlight
<1>2. /\ DOMAIN requests' = 1 .. n - 1
      /\ \A j \in 1 .. n - 1 : requests'[j] = requests[at(j)]
  BY <1>1, RemoveAtElements DEF InFlight
<1> HIDE DEF n
<1>3. \A j \in 1 .. n - 1 : at(j) \in 1 .. n /\ at(j) # i
  BY <1>1
<1>4. \A j, l \in 1 .. n - 1 : j < l => at(j) < at(l)
  BY <1>1
<1>5. ASSUME NEW k \in 1 .. n, k # i PROVE \E j \in 1 .. n - 1 : at(j) = k
  <2>1. CASE k < i
    <3>1. k \in 1 .. n - 1 /\ at(k) = k
      BY <1>1, <2>1
    <3> QED
      BY <3>1
  <2>2. CASE ~ (k < i)
    <3>1. k - 1 \in 1 .. n - 1 /\ at(k - 1) = k
      BY <1>1, <1>5, <2>2
    <3> QED
      BY <3>1
  <2> QED
    BY <2>1, <2>2
<1> HIDE DEF at
<1>6. \A j \in DOMAIN requests' :
         \E k \in DOMAIN requests : k # i /\ requests'[j] = requests[k]
  BY <1>1, <1>2, <1>3
<1>7. \A k \in DOMAIN requests \ {i} : \E j \in DOMAIN requests' : requests'[j] = requests[k]
  BY <1>1, <1>2, <1>5
<1>8. ASSUME NEW j \in DOMAIN requests', NEW l \in DOMAIN requests', j < l,
             requests'[j].client = requests'[l].client
      PROVE  requests'[j].id < requests'[l].id
  BY <1>1, <1>2, <1>3, <1>4, <1>8 DEF Queued
<1> QED
  BY <1>6, <1>7, <1>8

-----------------------------------------------------------------------------
(* A client's place *)

LEMMA TtlFits == ToU32(Ttl) = Ttl /\ Ttl \in Nat /\ Ttl > 0 /\ Ttl <= TtlMax /\ Ttl * Second \in Nat
<1>1. Ttl \in Nat /\ Ttl > 0 /\ Ttl <= TtlMax /\ Second \in Nat
  BY ControlAssumption, ProtocolAssumption, SecondAssumption
<1>2. Ttl % U32 = Ttl
  BY <1>1, ProtocolAssumption
<1>3. Ttl * Second \in Nat
  BY <1>1
<1> QED
  BY <1>1, <1>2, <1>3 DEF ToU32

\* HandlePacket enters what a client registers under its ids, for its TTL.
LEMMA RegistrationHandled ==
    ASSUME NEW r, NEW t, NEW c \in Client, NEW req,
           req.message_type = "request", req.payload = RegisterPayload(c)
    PROVE  \E lease : /\ RegistryAfter(r, t, req) = Put(r, KeyOf(DescriptorOf[c]), lease)
                      /\ lease.descriptor = Wire(DescriptorOf[c])
                      /\ lease.expires_at = t + Ttl * Second
<1> DEFINE d == DescriptorOf[c]
           p == req.payload
<1>1. DescriptorOf[c] \in ServiceDescriptor
  BY ControlAssumption
<1>2. ToU32(Ttl) = Ttl /\ Ttl \in Nat /\ Ttl > 0 /\ Ttl <= TtlMax
  BY TtlFits
<1>3. p = BuildSdOfferPayload(d, Ttl, FALSE)
  BY <1>2 DEF RegisterPayload
<1> HIDE DEF p, d
<1>4. IsOffer(p) /\ ParseSdOfferFirst(p).descriptor = Wire(d) /\ ParseSdOfferFirst(p).ttl > 0
  BY <1>1, <1>2, <1>3, OfferRoundTrip DEF d
<1>5. ParseSdOfferFirst(p).ttl = Ttl
  BY <1>2, <1>3 DEF BuildSdOfferPayload, BuildServiceEntry, ParseSdOfferFirst
<1>6. IsOfferRequest(req) /\ ~ IsStopOffer(req)
  BY <1>2, <1>4, <1>5 DEF IsOfferRequest, IsStopOffer, Request, p
<1>7. KeyOf(Offered(req)) = KeyOf(d) /\ Offered(req) = Wire(d)
  BY <1>4 DEF Offered, KeyOf, Wire, p
<1>8. Lease(req, t).expires_at = t + Ttl * Second /\ Lease(req, t).descriptor = Wire(d)
  BY <1>5, <1>7 DEF Lease, p
<1>9. RegistryAfter(r, t, req) = Put(r, KeyOf(d), Lease(req, t))
  BY <1>6, <1>7 DEF RegistryAfter
<1> QED
  BY <1>8, <1>9 DEF d

\* It takes what a client withdraws away.
LEMMA WithdrawalHandled ==
    ASSUME NEW r, NEW t, NEW c \in Client, NEW req,
           req.message_type = "request", req.payload = UnregisterPayload(c)
    PROVE  RegistryAfter(r, t, req) = Restrict(r, DOMAIN r \ {KeyOf(DescriptorOf[c])})
<1> DEFINE d == DescriptorOf[c]
           e == [service_id |-> d.service_id, instance_id |-> d.instance_id,
                 endpoint_host |-> Loopback, endpoint_port |-> 0, transport |-> "udp"]
           p == req.payload
<1>1. p = BuildSdOfferPayload(e, 0, TRUE)
  BY DEF UnregisterPayload
<1>2. e \in ServiceDescriptor
  BY ControlAssumption, ProtocolAssumption DEF ServiceDescriptor
<1> HIDE DEF p, e
<1>3. IsOffer(p) /\ ParseSdOfferFirst(p).descriptor = Wire(e)
  BY <1>1, <1>2, OfferRoundTrip
<1>4. ParseSdOfferFirst(p).ttl = 0
  BY <1>1, ProtocolAssumption DEF BuildSdOfferPayload, BuildServiceEntry, ParseSdOfferFirst
<1>5. IsStopOffer(req)
  BY <1>3, <1>4 DEF IsStopOffer, Request, p
<1>6. KeyOf(Offered(req)) = KeyOf(d)
  BY <1>3 DEF Offered, KeyOf, Wire, p, e
<1> QED
  BY <1>5, <1>6 DEF RegistryAfter

\* It changes the client's own place and no other.
LEMMA PlaceAfter ==
    ASSUME OwnPlaces, NEW c \in Client, NEW op \in Ops, NEW req, now \in Nat,
           req.message_type = "request", req.payload = PayloadOf(c, op),
           registry' = RegistryAfter(registry, now, req)
    PROVE  \A d \in Client :
              /\ Place(d)' = IF d = c THEN Outcome(c, op) ELSE Place(d)
              /\ Until(d)' = IF d = c THEN (IF op = "register" THEN now + Ttl * Second ELSE 0)
                             ELSE Until(d)
<1> SUFFICES ASSUME NEW d \in Client
             PROVE  /\ Place(d)' = IF d = c THEN Outcome(c, op) ELSE Place(d)
                    /\ Until(d)' = IF d = c
                                   THEN (IF op = "register" THEN now + Ttl * Second ELSE 0)
                                   ELSE Until(d)
  OBVIOUS
<1> DEFINE k == KeyOf(DescriptorOf[c])
           l == KeyOf(DescriptorOf[d])
           end == now + Ttl * Second
<1>1. l = k <=> d = c
  BY DEF OwnPlaces
<1>2. /\ Place(d) = IF l \in DOMAIN registry THEN registry[l].descriptor ELSE NoPayload
      /\ Until(d) = IF l \in DOMAIN registry THEN registry[l].expires_at ELSE 0
  BY DEF Place, Until
<1>3. /\ Place(d)' = IF l \in DOMAIN registry' THEN registry'[l].descriptor ELSE NoPayload
      /\ Until(d)' = IF l \in DOMAIN registry' THEN registry'[l].expires_at ELSE 0
  BY DEF Place, Until
<1>4. CASE op = "register"
  <2>1. req.payload = RegisterPayload(c)
    BY <1>4 DEF PayloadOf
  <2>2. PICK lease : /\ registry' = Put(registry, k, lease)
                     /\ lease.descriptor = Wire(DescriptorOf[c])
                     /\ lease.expires_at = end
    BY <2>1, RegistrationHandled
  <2>3. lease.descriptor = Outcome(c, op)
    BY <1>4, <2>2 DEF Outcome
  <2> HIDE DEF k, l, end
  <2>4. /\ DOMAIN registry' = DOMAIN registry \cup {k}
        /\ \A x \in DOMAIN registry' : registry'[x] = IF x = k THEN lease ELSE registry[x]
    BY <2>2 DEF Put
  <2>5. /\ Place(d)' = IF d = c THEN Outcome(c, op) ELSE Place(d)
        /\ Until(d)' = IF d = c THEN end ELSE Until(d)
    BY <1>1, <1>2, <1>3, <2>2, <2>3, <2>4
  <2> QED
    BY <1>4, <2>5 DEF end
<1>5. CASE op = "unregister"
  <2>1. req.payload = UnregisterPayload(c) /\ op # "register"
    BY <1>5 DEF PayloadOf
  <2>2. registry' = Restrict(registry, DOMAIN registry \ {k})
    BY <2>1, WithdrawalHandled
  <2> HIDE DEF k, l
  <2>3. /\ DOMAIN registry' = DOMAIN registry \ {k}
        /\ \A x \in DOMAIN registry' : registry'[x] = registry[x]
    BY <2>2 DEF Restrict
  <2>4. CASE d = c
    BY <1>1, <1>3, <2>1, <2>3, <2>4 DEF Outcome
  <2>5. CASE d # c
    BY <1>1, <1>2, <1>3, <2>3, <2>5
  <2> QED
    BY <2>4, <2>5
<1> QED
  BY <1>4, <1>5 DEF Ops

\* CleanupExpired takes away only what has run out.
LEMMA PlaceExpired ==
    ASSUME IsRegistry(registry), now \in Nat, registry' = CleanupExpired(registry, now),
           NEW c \in Client
    PROVE  /\ IsRegistry(registry')
           /\ \/ Place(c)' = Place(c) /\ Until(c)' = Until(c)
              \/ Place(c)' = NoPayload /\ Until(c)' = 0 /\ Until(c) <= now
<1> DEFINE k == KeyOf(DescriptorOf[c])
           left == {x \in DOMAIN registry : registry[x].expires_at > now}
<1>1. registry' = Restrict(registry, left) /\ left \subseteq DOMAIN registry
  BY DEF CleanupExpired
<1>2. DOMAIN registry' = left /\ \A x \in left : registry'[x] = registry[x]
  BY <1>1 DEF Restrict
<1>3. \A x \in DOMAIN registry : registry[x].expires_at \in Nat
  BY DEF IsRegistry, RegistryEntry
<1>4. IsRegistry(registry')
  BY <1>1, RestrictTyped
<1>5. /\ Place(c) = IF k \in DOMAIN registry THEN registry[k].descriptor ELSE NoPayload
      /\ Until(c) = IF k \in DOMAIN registry THEN registry[k].expires_at ELSE 0
      /\ Place(c)' = IF k \in DOMAIN registry' THEN registry'[k].descriptor ELSE NoPayload
      /\ Until(c)' = IF k \in DOMAIN registry' THEN registry'[k].expires_at ELSE 0
  BY DEF Place, Until
<1> HIDE DEF k
<1>6. ASSUME k \in left PROVE Place(c)' = Place(c) /\ Until(c)' = Until(c)
  BY <1>1, <1>2, <1>5, <1>6
<1>7. ASSUME k \notin left PROVE Place(c)' = NoPayload /\ Until(c)' = 0 /\ Until(c) <= now
  <2>1. Place(c)' = NoPayload /\ Until(c)' = 0
    BY <1>2, <1>5, <1>7
  <2>2. Until(c) <= now
    <3>1. CASE k \in DOMAIN registry
      BY <1>3, <1>5, <1>7, <3>1
    <3>2. CASE k \notin DOMAIN registry
      BY <1>5, <3>2
    <3> QED
      BY <3>1, <3>2
  <2> QED
    BY <2>1, <2>2
<1> HIDE DEF left
<1> QED
  BY <1>4, <1>6, <1>7, Zenon

\* A client's two requests are told apart.
LEMMA PayloadsDiffer ==
    ASSUME NEW c \in Client PROVE PayloadOf(c, "register") # PayloadOf(c, "unregister")
<1> DEFINE r == PayloadOf(c, "register")
           u == PayloadOf(c, "unregister")
           e == [service_id |-> DescriptorOf[c].service_id,
                 instance_id |-> DescriptorOf[c].instance_id,
                 endpoint_host |-> Loopback, endpoint_port |-> 0, transport |-> "udp"]
<1>1. DescriptorOf[c] \in ServiceDescriptor /\ e \in ServiceDescriptor
  BY ControlAssumption, ProtocolAssumption DEF ServiceDescriptor
<1>2. ToU32(Ttl) \in Nat /\ ToU32(Ttl) > 0
  BY TtlFits
<1>3. r = BuildSdOfferPayload(DescriptorOf[c], ToU32(Ttl), FALSE)
  BY DEF PayloadOf, RegisterPayload
<1>4. u = BuildSdOfferPayload(e, 0, TRUE)
  BY DEF PayloadOf, UnregisterPayload
<1> HIDE DEF r, u, e
<1>5. ParseSdOfferFirst(r).ttl > 0
  BY <1>1, <1>2, <1>3, OfferRoundTrip
<1>6. ~ (ParseSdOfferFirst(u).ttl > 0)
  BY <1>1, <1>4, OfferRoundTrip
<1> QED
  BY <1>5, <1>6 DEF r, u

-----------------------------------------------------------------------------
(* The step of the order *)

LEMMA InitInTurn == Init => InTurn
<1> SUFFICES ASSUME Init PROVE InTurn
  OBVIOUS
<1>1. NoCall.op = "none" /\ NoCall.id = 0
  BY DEF NoCall
<1>2. Queued /\ Handled
  BY DEF Init, Queued, Handled
<1>3. Waits /\ Numbered
  BY <1>1 DEF Init, Waits, Numbered, Ops
<1>4. IsRegistry(registry)
  BY DEF Init, IsRegistry
<1> QED
  BY <1>2, <1>3, <1>4 DEF InTurn

LEMMA RequestsTyped ==
    ASSUME InFlight
    PROVE  /\ Len(requests) \in Nat /\ DOMAIN requests = 1 .. Len(requests)
           /\ \A i \in DOMAIN requests : requests[i] \in Asked
BY LenProperties, ElementOfSeq DEF InFlight

\* What a begun call changes.
LEMMA Begun ==
    ASSUME FewCalls, IInv, NEW c \in Client, NEW op \in Ops, Call(c, op)
    PROVE  /\ call'[c].op = op /\ call'[c].id = next_id[c] /\ call'[c].returned = "nothing"
           /\ \A d \in Client \ {c} : call'[d] = call[d] /\ next_id'[d] = next_id[d]
                                      /\ began'[d] = began[d]
           /\ next_id'[c] = next_id[c] + 1 /\ next_id[c] \in 1 .. MaxCalls
           /\ c \notin waiting /\ waiting' = waiting \cup {c} /\ sending' = sending \cup {c}
           /\ served' = served \ {c}
           /\ UNCHANGED << requests, answers, registry, now >>
           /\ \A i \in DOMAIN requests :
                 /\ requests[i].client \in Client
                 /\ requests[i].client = c => requests[i].id # next_id[c]
<1> DEFINE n == next_id[c]
<1>0. CallsTyped /\ InFlight
  BY DEF IInv
<1>1. /\ call' = [call EXCEPT ![c] = [op |-> op, id |-> n, returned |-> "nothing", own |-> FALSE]]
      /\ next_id' = [next_id EXCEPT ![c] = (n + 1) % U32]
      /\ began' = [began EXCEPT ![c] = now]
      /\ c \notin waiting /\ waiting' = waiting \cup {c} /\ sending' = sending \cup {c}
      /\ served' = served \ {c}
      /\ UNCHANGED << requests, answers, registry, now >>
      /\ n \in 1 .. MaxCalls
  BY <1>0, ControlAssumption DEF Call, CallsTyped
<1>2. (n + 1) % U32 = n + 1
  BY <1>1, ControlAssumption, ProtocolAssumption DEF FewCalls
<1>3. \A i \in DOMAIN requests :
         requests[i].client \in Client /\ (requests[i].client = c => requests[i].id # n)
  BY <1>0, RequestsTyped DEF Asked, Sent
<1> QED
  BY <1>0, <1>1, <1>2, <1>3 DEF CallsTyped

\* A client's place keeps showing its call, but for what runs out.
LEMMA StillKept ==
    ASSUME CallsTyped, NEW c \in Client, Kept(c), IsRegistry(registry),
           call'[c].op = call[c].op, began'[c] = began[c], now' = now \/ now' = now + 1,
           \/ Place(c)' = Place(c) /\ Until(c)' = Until(c)
           \/ Place(c)' = NoPayload /\ Until(c) <= now
    PROVE  Kept(c)'
<1> DEFINE end == began[c] + Ttl * Second
<1>1. now \in Nat /\ now' \in Nat /\ now' >= now /\ end \in Nat
  <2>1. now \in Nat /\ began[c] \in Nat
    BY DEF CallsTyped
  <2> QED
    BY <2>1, TtlFits
<1>2. Until(c) \in Nat
  BY DEF Until, IsRegistry, RegistryEntry
<1>3. Kept(c)' <=> \/ /\ Place(c)' = Outcome(c, call[c].op)
                      /\ call[c].op = "register" => Until(c)' >= end
                   \/ call[c].op = "register" /\ now' >= end
  BY DEF Kept, Outcome, Wire
<1>4. \/ /\ Place(c) = Outcome(c, call[c].op)
         /\ call[c].op = "register" => Until(c) >= end
      \/ call[c].op = "register" /\ now >= end
  BY DEF Kept
<1> HIDE DEF end
<1>5. CASE Place(c)' = Place(c) /\ Until(c)' = Until(c)
  BY <1>1, <1>3, <1>4, <1>5
<1>6. CASE Place(c)' = NoPayload /\ Until(c) <= now
  <2>1. CASE call[c].op = "register"
    <3>1. now' >= end
      BY <1>1, <1>2, <1>4, <1>6, <2>1
    <3> QED
      BY <1>3, <2>1, <3>1
  <2>2. CASE call[c].op # "register"
    BY <1>3, <1>6, <2>2 DEF Outcome
  <2> QED
    BY <2>1, <2>2
<1> QED
  BY <1>5, <1>6

LEMMA CallInTurn ==
    ASSUME FewCalls, IInv, InTurn, NEW c \in Client, NEW op \in Ops, Call(c, op)
    PROVE  InTurn'
<1>0. CallsTyped /\ InFlight /\ Queued /\ Handled /\ Waits /\ Numbered /\ IsRegistry(registry)
  BY DEF IInv, InTurn
<1>1. /\ call'[c].op = op /\ call'[c].id = next_id[c] /\ call'[c].returned = "nothing"
      /\ \A d \in Client \ {c} : call'[d] = call[d] /\ next_id'[d] = next_id[d]
                                 /\ began'[d] = began[d]
      /\ next_id'[c] = next_id[c] + 1
      /\ waiting' = waiting \cup {c} /\ sending' = sending \cup {c} /\ served' = served \ {c}
      /\ UNCHANGED << requests, registry, now >>
      /\ \A i \in DOMAIN requests :
            /\ requests[i].client \in Client
            /\ requests[i].client = c => requests[i].id # next_id[c]
  BY Begun
<1>2. ASSUME NEW i \in DOMAIN requests PROVE AskedBy(requests[i])'
  <2>1. PICK o \in Ops :
           /\ requests[i].packet.payload = PayloadOf(requests[i].client, o)
           /\ requests[i].id = call[requests[i].client].id => o = call[requests[i].client].op
    BY <1>0 DEF Queued, AskedBy
  <2>2. requests[i].id = call'[requests[i].client].id => o = call'[requests[i].client].op
    BY <1>1, <2>1
  <2> QED
    BY <1>1, <2>1, <2>2 DEF AskedBy, Ops, PayloadOf, RegisterPayload, UnregisterPayload
<1>3. Queued'
  BY <1>0, <1>1, <1>2 DEF Queued
<1>4. Handled'
  <2> SUFFICES ASSUME NEW d \in served \ {c}
               PROVE  /\ call'[d].op \in Ops /\ d \notin sending'
                      /\ \A i \in DOMAIN requests :
                            requests[i].client = d => requests[i].id # call'[d].id /\ ~ InOrder(d)
                      /\ OwnPlaces /\ InOrder(d) => Kept(d)'
    BY <1>1 DEF Handled, InOrder, OwnPlaces, Ops, KeyOf
  <2>1. d \in Client /\ call'[d] = call[d] /\ began'[d] = began[d]
    BY <1>0, <1>1 DEF CallsTyped
  <2>2. Place(d)' = Place(d) /\ Until(d)' = Until(d)
    BY <1>1 DEF Place, Until
  <2>3. Kept(d) => Kept(d)'
    BY <1>0, <1>1, <2>1, <2>2, StillKept
  <2> QED
    BY <1>0, <1>1, <2>1, <2>3 DEF Handled
<1>5. Waits'
  BY <1>0, <1>1 DEF Waits
<1>6. Numbered'
  BY <1>0, <1>1 DEF Numbered
<1> QED
  BY <1>0, <1>1, <1>3, <1>4, <1>5, <1>6 DEF InTurn

\* What a send changes: its request is the last in the queue, and nothing queued
\* carries its id.
LEMMA SentOut ==
    ASSUME IInv, InTurn, NEW c \in Client, Send(c)
    PROVE  /\ c \in waiting /\ call[c].op \in Ops
           /\ DOMAIN requests' = 1 .. Len(requests) + 1
           /\ \A i \in DOMAIN requests :
                 /\ requests'[i] = requests[i] /\ requests[i].client \in Client
                 /\ requests[i].client = c => requests[i].id < call[c].id
           /\ \A i \in DOMAIN requests' \ DOMAIN requests :
                 /\ requests'[i].client = c /\ requests'[i].id = call[c].id
                 /\ requests'[i].packet.payload = PayloadOf(c, call[c].op)
<1> DEFINE n == call[c].id
           packet == [message_type |-> "request", request_id |-> n,
                      payload |-> PayloadOf(c, call[c].op)]
           r == [client |-> c, id |-> n, from |-> address[c], packet |-> EncodePacket(packet)]
<1>0. CallsTyped /\ InFlight /\ Waits /\ Numbered
  BY DEF IInv, InTurn
<1>1. requests' = Append(requests, r) /\ c \in sending
  BY DEF Send
<1>2. c \in waiting /\ call[c].op \in Ops
  BY <1>0, <1>1 DEF CallsTyped, Waits
<1>3. r.client = c /\ r.id = n /\ r.packet.payload = PayloadOf(c, call[c].op)
  BY DEF EncodePacket
<1>4. requests \in Seq(Asked) /\ Len(requests) \in Nat /\ DOMAIN requests = 1 .. Len(requests)
  BY <1>0, LenProperties DEF InFlight
<1>5. \A i \in DOMAIN requests :
         /\ requests[i].client \in Client
         /\ requests[i].client = c => requests[i].id < n
  <2> SUFFICES ASSUME NEW i \in DOMAIN requests
               PROVE  /\ requests[i].client \in Client
                      /\ requests[i].client = c => requests[i].id < n
    OBVIOUS
  <2>1. /\ requests[i].client \in Client /\ requests[i].id \in Nat
        /\ Sent(requests[i].client, requests[i].id)
    BY <1>0, RequestsTyped DEF Asked
  <2>2. n \in Nat /\ next_id[c] = n + 1
    BY <1>0 DEF CallsTyped, Calls, Numbered
  <2> QED
    BY <1>1, <2>1, <2>2 DEF Sent
<1> HIDE DEF r, packet, n
<1>6. /\ DOMAIN requests' = 1 .. Len(requests) + 1
      /\ \A i \in DOMAIN requests : requests'[i] = requests[i]
      /\ requests'[Len(requests) + 1] = r
  <2>1. requests \in Seq(Asked \cup {r}) /\ r \in Asked \cup {r}
    BY <1>4, SeqMonotone
  <2> QED
    BY <1>1, <1>4, <2>1, AppendProperties
<1>7. \A i \in DOMAIN requests' \ DOMAIN requests : i = Len(requests) + 1
  BY <1>4, <1>6
<1> QED
  BY <1>2, <1>3, <1>5, <1>6, <1>7 DEF n

LEMMA SendInTurn ==
    ASSUME IInv, InTurn, NEW c \in Client, Send(c)
    PROVE  InTurn'
<1>0. CallsTyped /\ InFlight /\ Queued /\ Handled /\ Waits /\ Numbered /\ IsRegistry(registry)
  BY DEF IInv, InTurn
<1>1. /\ c \in waiting /\ call[c].op \in Ops
      /\ DOMAIN requests' = 1 .. Len(requests) + 1
      /\ \A i \in DOMAIN requests :
            /\ requests'[i] = requests[i] /\ requests[i].client \in Client
            /\ requests[i].client = c => requests[i].id < call[c].id
      /\ \A i \in DOMAIN requests' \ DOMAIN requests :
            /\ requests'[i].client = c /\ requests'[i].id = call[c].id
            /\ requests'[i].packet.payload = PayloadOf(c, call[c].op)
  BY SentOut
<1>2. /\ c \in sending /\ sending' = sending \ {c}
      /\ UNCHANGED << call, waiting, next_id, began, registry, now, served >>
  BY DEF Send
<1>3. ASSUME NEW i \in DOMAIN requests', NEW j \in DOMAIN requests',
             i < j, requests'[i].client = requests'[j].client
      PROVE  requests'[i].id < requests'[j].id
  <2>1. i \in DOMAIN requests
    BY <1>0, <1>1, <1>3, RequestsTyped
  <2>2. CASE j \in DOMAIN requests
    BY <1>0, <1>1, <1>3, <2>1, <2>2 DEF Queued
  <2>3. CASE j \notin DOMAIN requests
    BY <1>1, <1>3, <2>1, <2>3
  <2> QED
    BY <2>2, <2>3
<1>4. ASSUME NEW i \in DOMAIN requests' PROVE AskedBy(requests[i])'
  <2>1. AskedBy(requests[i])' <=>
          \E q \in Ops :
              /\ requests'[i].packet.payload = PayloadOf(requests'[i].client, q)
              /\ requests'[i].id = call[requests'[i].client].id
                   => q = call[requests'[i].client].op
    BY <1>2 DEF AskedBy, Ops, PayloadOf, RegisterPayload, UnregisterPayload
  <2>2. CASE i \in DOMAIN requests
    BY <1>0, <1>1, <2>1, <2>2 DEF Queued, AskedBy
  <2>3. CASE i \notin DOMAIN requests
    BY <1>1, <2>1, <2>3
  <2> QED
    BY <2>2, <2>3
<1>5. Queued'
  BY <1>3, <1>4 DEF Queued
<1>6. Handled'
  <2> SUFFICES ASSUME NEW d \in served
               PROVE  /\ call[d].op \in Ops /\ d \notin sending'
                      /\ \A i \in DOMAIN requests' :
                            requests'[i].client = d
                               => requests'[i].id # call[d].id /\ ~ InOrder(d)
                      /\ OwnPlaces /\ InOrder(d) => Kept(d)'
    BY <1>2 DEF Handled, InOrder, OwnPlaces, Ops, KeyOf
  <2>1. d \in Client /\ d # c
    BY <1>0, <1>2 DEF CallsTyped, Handled
  <2>2. \A i \in DOMAIN requests' : requests'[i].client = d
           => i \in DOMAIN requests /\ requests'[i] = requests[i]
    BY <1>1, <2>1
  <2>3. Place(d)' = Place(d) /\ Until(d)' = Until(d)
    BY <1>2 DEF Place, Until
  <2>4. Kept(d) => Kept(d)'
    BY <1>0, <1>2, <2>1, <2>3, StillKept
  <2> QED
    BY <1>0, <1>2, <2>2, <2>4 DEF Handled
<1>7. Waits' /\ Numbered'
  BY <1>0, <1>2 DEF Waits, Numbered
<1> QED
  BY <1>0, <1>2, <1>5, <1>6, <1>7 DEF InTurn

\* Nothing is asked and nothing handled: requests and leases may only go.
LEMMA QuietInTurn ==
    ASSUME IInv, InTurn, UNCHANGED << served, next_id, began >>, now' = now \/ now' = now + 1,
           \A c \in Client : call'[c].op = call[c].op /\ call'[c].id = call[c].id,
           sending' \subseteq sending, Waits', IsRegistry(registry'),
           \A j \in DOMAIN requests' : \E k \in DOMAIN requests : requests'[j] = requests[k],
           \A j, l \in DOMAIN requests' :
              j < l /\ requests'[j].client = requests'[l].client
                 => requests'[j].id < requests'[l].id,
           \A c \in Client : \/ Place(c)' = Place(c) /\ Until(c)' = Until(c)
                             \/ Place(c)' = NoPayload /\ Until(c) <= now
    PROVE  InTurn'
<1>0. CallsTyped /\ InFlight /\ Queued /\ Handled /\ Numbered /\ IsRegistry(registry)
  BY DEF IInv, InTurn
<1>1. ASSUME NEW j \in DOMAIN requests' PROVE AskedBy(requests[j])'
  <2>1. PICK k \in DOMAIN requests : requests'[j] = requests[k]
    BY <1>1
  <2>2. AskedBy(requests[k]) /\ requests[k].client \in Client
    BY <1>0, RequestsTyped DEF Queued, Asked
  <2> QED
    BY <2>1, <2>2 DEF AskedBy, Ops, PayloadOf, RegisterPayload, UnregisterPayload
<1>2. Queued'
  BY <1>1 DEF Queued
<1>3. Handled'
  <2> SUFFICES ASSUME NEW d \in served
               PROVE  /\ call'[d].op \in Ops /\ d \notin sending'
                      /\ \A j \in DOMAIN requests' :
                            requests'[j].client = d
                               => requests'[j].id # call'[d].id /\ ~ InOrder(d)
                      /\ OwnPlaces /\ InOrder(d) => Kept(d)'
    BY DEF Handled, InOrder, OwnPlaces, Ops, KeyOf
  <2>1. d \in Client
    BY <1>0 DEF CallsTyped
  <2>2. Kept(d) => Kept(d)'
    BY <1>0, <2>1, StillKept
  <2> QED
    BY <1>0, <2>1, <2>2 DEF Handled
<1>4. Numbered'
  BY <1>0 DEF Numbered
<1> QED
  BY <1>2, <1>3, <1>4 DEF InTurn

\* The requests are what they were.
LEMMA SameRequests ==
    ASSUME InTurn, UNCHANGED requests
    PROVE  /\ \A j \in DOMAIN requests' : \E k \in DOMAIN requests : requests'[j] = requests[k]
           /\ \A j, l \in DOMAIN requests' :
                 j < l /\ requests'[j].client = requests'[l].client
                    => requests'[j].id < requests'[l].id
BY DEF InTurn, Queued

LEMMA SamePlaces ==
    ASSUME InTurn, UNCHANGED registry
    PROVE  IsRegistry(registry') /\ \A c \in Client : Place(c)' = Place(c) /\ Until(c)' = Until(c)
BY DEF InTurn, Place, Until

LEMMA ReturnInTurn ==
    ASSUME IInv, InTurn, NEW c \in waiting, NEW result \in {"true", "false"},
           NEW own \in BOOLEAN, Return(c, result, own)
    PROVE  InTurn'
<1>0. CallsTyped /\ Waits
  BY DEF IInv, InTurn
<1>1. /\ \A d \in Client \ {c} : call'[d] = call[d]
      /\ call'[c].op = call[c].op /\ call'[c].id = call[c].id /\ call'[c].returned = result
      /\ c \in Client
  BY <1>0, ReturnedCall DEF CallsTyped
<1>2. /\ waiting' = waiting \ {c} /\ sending' = sending \ {c}
      /\ UNCHANGED << requests, registry, served, next_id, began, now >>
  BY DEF Return
<1>3. Waits'
  BY <1>0, <1>1, <1>2 DEF Waits
<1>4. \A d \in Client : call'[d].op = call[d].op /\ call'[d].id = call[d].id
  BY <1>1
<1> QED
  BY <1>2, <1>3, <1>4, SameRequests, SamePlaces, QuietInTurn

\* What the daemon does to a request: it leaves the queue, it is what its client
\* asked and, in order, no other request of that client is before it.
LEMMA Served ==
    ASSUME IInv, InTurn, Serve
    PROVE  \E i \in DOMAIN requests, c \in Client, op \in Ops :
              /\ requests' = RemoveAt(requests, i) /\ requests[i].client = c
              /\ requests[i].id = call[c].id => c \notin sending
              /\ requests[i].packet.payload = PayloadOf(c, op)
              /\ requests[i].id = call[c].id => op = call[c].op
              /\ served' = served \cup {d \in Client : d = c /\ call[d].id = requests[i].id}
              /\ UNCHANGED << call, waiting, sending, next_id, began, now >>
              /\ OwnPlaces => \A d \in Client :
                    /\ Place(d)' = IF d = c THEN Outcome(c, op) ELSE Place(d)
                    /\ Until(d)' = IF d = c
                                   THEN (IF op = "register" THEN now + Ttl * Second ELSE 0)
                                   ELSE Until(d)
              /\ IsRegistry(registry')
              /\ InOrder(c) => \A j \in DOMAIN requests : requests[j].client = c => ~ (j < i)
<1>0. InFlight /\ Queued /\ IsRegistry(registry) /\ now \in Nat
  BY DEF IInv, InTurn, CallsTyped
<1>1. PICK i \in DOMAIN requests :
         /\ Ordered \/ ByUnix(i) => IsNext(i)
         /\ requests' = RemoveAt(requests, i)
         /\ registry' = RegistryAfter(registry, now, requests[i].packet)
         /\ served' = served \cup {c \in Client : c = requests[i].client
                                                  /\ call[c].id = requests[i].id}
  BY DEF Serve, Handle
<1>2. UNCHANGED << call, waiting, sending, next_id, began, now >>
  BY DEF Serve, Handle, calls
<1>3. requests[i] \in Asked /\ i \in 1 .. Len(requests) /\ Len(requests) \in Nat
      /\ DOMAIN requests = 1 .. Len(requests)
  BY <1>0, RequestsTyped
<1>4. PICK c \in Client, packet \in Packets("request") :
         /\ c = requests[i].client /\ packet = requests[i].packet
         /\ requests[i].id = call[c].id => c \notin sending
  BY <1>3 DEF Asked, Sent
<1>5. PICK op \in Ops :
         /\ packet.payload = PayloadOf(c, op)
         /\ requests[i].id = call[c].id => op = call[c].op
  BY <1>0, <1>4 DEF Queued, AskedBy
<1>6. packet \in SdPacket /\ packet.message_type = "request"
  <2>1. packet.payload \in Payload
    BY OfferPayloadTyped DEF Packets, Offers
  <2> QED
    BY <2>1 DEF Packets, SdPacket
<1>7. registry' = RegistryAfter(registry, now, packet)
  BY <1>1, <1>4
<1>8. IsRegistry(registry')
  BY <1>0, <1>6, <1>7, RegistryAfterTyped
<1>9. OwnPlaces => \A d \in Client :
         /\ Place(d)' = IF d = c THEN Outcome(c, op) ELSE Place(d)
         /\ Until(d)' = IF d = c THEN (IF op = "register" THEN now + Ttl * Second ELSE 0)
                        ELSE Until(d)
  <2>1. packet.message_type = "request" /\ packet.payload = PayloadOf(c, op)
    BY <1>5, <1>6
  <2> QED
    BY <1>0, <1>7, <2>1, PlaceAfter, Zenon
<1>10. ASSUME InOrder(c), NEW j \in DOMAIN requests, requests[j].client = c, j < i PROVE FALSE
  <2>1. IsNext(i)
    BY <1>1, <1>4, <1>10 DEF InOrder, ByUnix
  <2>2. j \in 1 .. i - 1
    BY <1>3, <1>10
  <2> QED
    BY <1>4, <1>10, <2>1, <2>2 DEF IsNext, ByUnix
<1>11. InOrder(c) => \A j \in DOMAIN requests : requests[j].client = c => ~ (j < i)
  BY <1>10
<1>12. /\ requests[i].client = c
       /\ requests[i].id = call[c].id => c \notin sending
       /\ requests[i].packet.payload = PayloadOf(c, op)
       /\ requests[i].id = call[c].id => op = call[c].op
  BY <1>4, <1>5
<1>13. served' = served \cup {d \in Client : d = c /\ call[d].id = requests[i].id}
  BY <1>1, <1>4
<1> QED
  BY <1>1, <1>2, <1>8, <1>9, <1>11, <1>12, <1>13

\* In order, the request of the present call is the only one its client has queued.
LEMMA OnlyRequest ==
    ASSUME InFlight, InTurn, NEW i \in DOMAIN requests, NEW c \in Client,
           requests[i].client = c, requests[i].id = call[c].id,
           \A j \in DOMAIN requests : requests[j].client = c => ~ (j < i)
    PROVE  \A j \in DOMAIN requests : requests[j].client = c => j = i
<1> SUFFICES ASSUME NEW j \in DOMAIN requests, requests[j].client = c, j # i PROVE FALSE
  OBVIOUS
<1>1. requests[j] \in Asked /\ requests[i] \in Asked /\ DOMAIN requests = 1 .. Len(requests)
      /\ Len(requests) \in Nat
  BY RequestsTyped
<1>2. i < j
  BY <1>1
<1>3. requests[i].id < requests[j].id
  BY <1>2 DEF InTurn, Queued
<1>4. requests[j].id < next_id[c] /\ next_id[c] = call[c].id + 1
      /\ requests[j].id \in Nat /\ requests[i].id \in Nat
  BY <1>1 DEF Asked, Sent, InTurn, Numbered
<1> QED
  BY <1>3, <1>4

LEMMA ServeInTurn ==
    ASSUME IInv, InTurn, Serve PROVE InTurn'
<1>0. CallsTyped /\ InFlight /\ Queued /\ Handled /\ Waits /\ Numbered /\ IsRegistry(registry)
  BY DEF IInv, InTurn
<1>1. PICK i \in DOMAIN requests, c \in Client, op \in Ops :
         /\ requests' = RemoveAt(requests, i) /\ requests[i].client = c
         /\ requests[i].id = call[c].id => c \notin sending
         /\ requests[i].id = call[c].id => op = call[c].op
         /\ served' = served \cup {d \in Client : d = c /\ call[d].id = requests[i].id}
         /\ UNCHANGED << call, waiting, sending, next_id, began, now >>
         /\ OwnPlaces => \A d \in Client :
               /\ Place(d)' = IF d = c THEN Outcome(c, op) ELSE Place(d)
               /\ Until(d)' = IF d = c
                              THEN (IF op = "register" THEN now + Ttl * Second ELSE 0)
                              ELSE Until(d)
         /\ IsRegistry(registry')
         /\ InOrder(c) => \A j \in DOMAIN requests : requests[j].client = c => ~ (j < i)
  BY Served
<1>2. /\ \A j \in DOMAIN requests' :
            \E k \in DOMAIN requests : k # i /\ requests'[j] = requests[k]
      /\ \A j, l \in DOMAIN requests' :
            j < l /\ requests'[j].client = requests'[l].client
               => requests'[j].id < requests'[l].id
  BY <1>0, <1>1, RequestsLeft
<1>3. Queued'
  <2>1. ASSUME NEW j \in DOMAIN requests' PROVE AskedBy(requests[j])'
    <3>1. PICK k \in DOMAIN requests : requests'[j] = requests[k]
      BY <1>2
    <3>2. AskedBy(requests[k]) /\ call' = call
      BY <1>0, <1>1 DEF Queued
    <3> QED
      BY <3>1, <3>2 DEF AskedBy, PayloadOf, RegisterPayload, UnregisterPayload
  <2> QED
    BY <1>2, <2>1 DEF Queued
<1>4. ASSUME NEW d \in served'
      PROVE  /\ call[d].op \in Ops /\ d \notin sending
             /\ \A j \in DOMAIN requests' :
                   requests'[j].client = d => requests'[j].id # call[d].id /\ ~ InOrder(d)
             /\ OwnPlaces /\ InOrder(d) => Kept(d)'
  <2>1. CASE d \in served
    <3>1. /\ call[d].op \in Ops /\ d \notin sending /\ d \in Client
          /\ \A j \in DOMAIN requests :
                requests[j].client = d => requests[j].id # call[d].id /\ ~ InOrder(d)
          /\ OwnPlaces /\ InOrder(d) => Kept(d)
      BY <1>0, <2>1 DEF Handled, CallsTyped
    <3>2. InOrder(d) => d # c
      BY <1>1, <3>1
    <3>3. OwnPlaces /\ d # c => Place(d)' = Place(d) /\ Until(d)' = Until(d)
      BY <1>1, <3>1
    <3>4. OwnPlaces /\ InOrder(d) => Kept(d)'
      BY <1>0, <1>1, <3>1, <3>2, <3>3, StillKept
    <3> QED
      BY <1>2, <3>1, <3>4
  <2>2. CASE d \notin served
    <3>1. d = c /\ call[c].id = requests[i].id /\ op = call[c].op /\ c \notin sending
      BY <1>1, <1>4, <2>2
    <3>2. \A k \in DOMAIN requests :
             k # i /\ requests[k].client = c => requests[k].id # requests[i].id
      <4> SUFFICES ASSUME NEW k \in DOMAIN requests, k # i, requests[k].client = c
                   PROVE  requests[k].id # requests[i].id
        OBVIOUS
      <4>1. (k < i \/ i < k) /\ requests[k].id \in Nat /\ requests[i].id \in Nat
        BY <1>0, RequestsTyped DEF Asked
      <4> QED
        BY <1>0, <1>1, <4>1 DEF Queued
    <3>3. InOrder(c) => \A k \in DOMAIN requests : requests[k].client = c => k = i
      BY <1>0, <1>1, <3>1, OnlyRequest
    <3>4. OwnPlaces => Kept(c)'
      <4> SUFFICES ASSUME OwnPlaces PROVE Kept(c)'
        OBVIOUS
      <4>1. /\ Place(c)' = Outcome(c, call[c].op)
            /\ call[c].op = "register" => Until(c)' = now + Ttl * Second
        BY <1>1, <3>1
      <4>2. now + Ttl * Second >= began[c] + Ttl * Second
        <5>1. now \in Nat /\ began[c] \in 0 .. now
          BY <1>0 DEF CallsTyped
        <5> QED
          BY <5>1, TtlFits
      <4>3. call' = call /\ began' = began /\ now' = now
        BY <1>1
      <4> QED
        BY <4>1, <4>2, <4>3 DEF Kept, Outcome, Wire
    <3> QED
      BY <1>1, <1>2, <3>1, <3>2, <3>3, <3>4
  <2> QED
    BY <2>1, <2>2
<1>5. Handled'
  <2>1. call' = call /\ sending' = sending
    BY <1>1
  <2> QED
    BY <1>4, <2>1 DEF Handled, InOrder, OwnPlaces, Ops, KeyOf
<1>6. Waits' /\ Numbered'
  BY <1>0, <1>1 DEF Waits, Numbered
<1> QED
  BY <1>1, <1>3, <1>5, <1>6 DEF InTurn

\* What the network loses and what time takes is nothing that was handled in turn.
LEMMA OutsideInTurn ==
    ASSUME IInv, InTurn, Deliver \/ LoseRequest \/ LoseAnswer \/ Expire \/ Tick PROVE InTurn'
<1>0. InFlight /\ Queued /\ Waits /\ IsRegistry(registry) /\ now \in Nat
  BY DEF IInv, InTurn, CallsTyped
<1>1. /\ UNCHANGED << call, waiting, sending, next_id, began, served >>
      /\ now' = now \/ now' = now + 1
  BY DEF Deliver, LoseRequest, LoseAnswer, Expire, Tick, calls
<1>2. Waits'
  BY <1>0, <1>1 DEF Waits
<1>3. /\ \A j \in DOMAIN requests' : \E k \in DOMAIN requests : requests'[j] = requests[k]
      /\ \A j, l \in DOMAIN requests' :
            j < l /\ requests'[j].client = requests'[l].client
               => requests'[j].id < requests'[l].id
  <2>1. CASE LoseRequest
    <3>1. PICK i \in DOMAIN requests : requests' = RemoveAt(requests, i)
      BY <2>1 DEF LoseRequest
    <3> QED
      BY <1>0, <3>1, RequestsLeft
  <2>2. CASE Deliver \/ LoseAnswer \/ Expire \/ Tick
    <3>1. UNCHANGED requests
      BY <2>2 DEF Deliver, LoseAnswer, Expire, Tick
    <3> QED
      BY <3>1, SameRequests
  <2> QED
    BY <2>1, <2>2
<1>4. /\ IsRegistry(registry')
      /\ \A c \in Client : \/ Place(c)' = Place(c) /\ Until(c)' = Until(c)
                           \/ Place(c)' = NoPayload /\ Until(c) <= now
  <2>1. CASE Expire
    <3>1. registry' = CleanupExpired(registry, now)
      BY <2>1 DEF Expire
    <3>2. IsRegistry(registry')
      BY <1>0, <3>1, RestrictTyped DEF CleanupExpired
    <3> QED
      BY <1>0, <3>1, <3>2, PlaceExpired
  <2>2. CASE Deliver \/ LoseRequest \/ LoseAnswer \/ Tick
    <3>1. UNCHANGED registry
      BY <2>2 DEF Deliver, LoseRequest, LoseAnswer, Tick
    <3> QED
      BY <3>1, SamePlaces
  <2> QED
    BY <2>1, <2>2
<1> QED
  BY <1>1, <1>2, <1>3, <1>4, QuietInTurn

LEMMA InTurnStep ==
    ASSUME FewCalls, IInv, InTurn, [Next]_vars PROVE InTurn'
<1>1. ASSUME NEW c \in Client, RegisterService(c) \/ UnregisterService(c) PROVE InTurn'
  <2>1. PICK op \in Ops : Call(c, op)
    BY <1>1 DEF RegisterService, UnregisterService, Ops
  <2> QED
    BY <2>1, CallInTurn
<1>2. ASSUME NEW c \in Client, Send(c) PROVE InTurn'
  BY <1>2, SendInTurn
<1>3. ASSUME NEW c \in Client, Receive(c) \/ Timeout(c) \/ SendFails(c) PROVE InTurn'
  <2>1. PICK result \in {"true", "false"}, own \in BOOLEAN : Return(c, result, own)
    BY <1>3 DEF Receive, Timeout, SendFails
  <2>2. c \in waiting
    BY <1>3 DEF Receive, Timeout, SendFails, IInv, CallsTyped
  <2> QED
    BY <2>1, <2>2, ReturnInTurn
<1>4. CASE Serve
  BY <1>4, ServeInTurn
<1>5. CASE Deliver \/ LoseRequest \/ LoseAnswer \/ Expire \/ Tick
  BY <1>5, OutsideInTurn
<1>6. CASE UNCHANGED vars
  <2>1. UNCHANGED << call, waiting, sending, next_id, began, served, now, requests, registry >>
    BY <1>6 DEF vars, calls
  <2>2. Waits'
    BY <2>1 DEF Waits, InTurn
  <2> QED
    BY <2>1, <2>2, SameRequests, SamePlaces, QuietInTurn
<1> QED
  BY <1>1, <1>2, <1>3, <1>4, <1>5, <1>6 DEF Next

\* Requests are handled in the turn of the calls that sent them.
THEOREM InductiveTurn == ASSUME FewCalls PROVE Spec => [](IInv /\ InTurn)
<1>1. Init => IInv /\ InTurn
  BY InitIInv, InitInTurn
<1>2. IInv /\ InTurn /\ [Next]_vars => (IInv /\ InTurn)'
  BY InductiveStep, InTurnStep
<1> QED
  BY <1>1, <1>2, PTL DEF Spec

\* Nothing stands in a place under which a service is registered.
LEMMA ServicesAreThere ==
    ASSUME NEW c \in Client
    PROVE  /\ Wire(DescriptorOf[c]) # NoPayload
           /\ \A d \in ServiceDescriptor : d # NoPayload
<1>1. \A d \in ServiceDescriptor : d # NoPayload
  <2> SUFFICES ASSUME NEW d \in ServiceDescriptor, d = NoPayload PROVE FALSE
    OBVIOUS
  <2>1. DOMAIN d = {"service_id", "instance_id", "endpoint_host", "endpoint_port",
                     "transport"}
    BY DEF ServiceDescriptor
  <2>2. DOMAIN NoPayload = {"entries", "options"}
    BY DEF NoPayload
  <2>3. "service_id" \in {"service_id", "instance_id", "endpoint_host", "endpoint_port",
                     "transport"}
        /\ "service_id" \notin {"entries", "options"}
    OBVIOUS
  <2> QED
    BY <2>1, <2>2, <2>3
<1>2. Wire(DescriptorOf[c]) \in ServiceDescriptor
  BY ControlAssumption, ProtocolAssumption DEF Wire, ServiceDescriptor
<1> QED
  BY <1>1, <1>2

\* What a client whose requests stay in order was last told holds until its next
\* call, a registration for its TTL at least, when every client registers a service
\* of its own and over its own addresses.
THEOREM LastAckStands ==
    ASSUME FewCalls, Apart, OwnPlaces PROVE Spec => []LastAckHolds
<1>1. ASSUME IInv, InTurn PROVE LastAckHolds
  <2> SUFFICES ASSUME NEW c \in Client, InOrder(c), call[c].returned = "true"
               PROVE  LET key == KeyOf(DescriptorOf[c])
                      IN  /\ call[c].op = "register" /\ now < began[c] + Ttl * Second =>
                                /\ key \in DOMAIN registry
                                /\ registry[key].descriptor = Wire(DescriptorOf[c])
                          /\ call[c].op = "unregister" => key \notin DOMAIN registry
    BY DEF LastAckHolds
  <2> DEFINE key == KeyOf(DescriptorOf[c])
             end == began[c] + Ttl * Second
  <2>1. c \in served
    BY <1>1 DEF IInv, Believed
  <2>2. \/ Place(c) = Outcome(c, call[c].op)
        \/ call[c].op = "register" /\ now >= end
    BY <1>1, <2>1 DEF InTurn, Handled, Kept
  <2>3. key \in DOMAIN registry => registry[key].descriptor \in ServiceDescriptor
    BY <1>1 DEF InTurn, IsRegistry, RegistryEntry
  <2>4. Place(c) = IF key \in DOMAIN registry THEN registry[key].descriptor ELSE NoPayload
    BY DEF Place
  <2>5. ~ (now < end /\ now >= end)
    <3>1. now \in Nat /\ began[c] \in Nat
      BY <1>1 DEF IInv, CallsTyped
    <3>2. end \in Nat
      BY <3>1, TtlFits
    <3> HIDE DEF end
    <3> QED
      BY <3>1, <3>2
  <2> HIDE DEF key, end
  <2>6. ASSUME call[c].op = "register", now < end
        PROVE  key \in DOMAIN registry /\ registry[key].descriptor = Wire(DescriptorOf[c])
    BY <2>2, <2>4, <2>5, <2>6, ServicesAreThere DEF Outcome
  <2>7. ASSUME call[c].op = "unregister" PROVE key \notin DOMAIN registry
    BY <2>2, <2>3, <2>4, <2>7, ServicesAreThere DEF Outcome
  <2> QED
    BY <2>6, <2>7 DEF key, end
<1> QED
  BY <1>1, InductiveTurn, PTL

-----------------------------------------------------------------------------
(* The directory *)

LEMMA InitDirectory == Init => Directory!Init
<1> SUFFICES ASSUME Init PROVE Directory!Init
  OBVIOUS
<1>1. NoCall.op = "none" /\ NoCall.returned = "nothing"
  BY DEF NoCall
<1>2. \A c \in Client : Place(c) = NoPayload /\ Until(c) = 0 /\ Late(c) = {}
  BY DEF Init, Place, Until, Late
<1>3. \A c \in Client : call[c].op = "none" /\ call[c].returned = "nothing"
  BY <1>1 DEF Init
<1>4. served = {} /\ now = 0
  BY DEF Init
<1> QED
  BY <1>2, <1>3, <1>4 DEF Directory!Init

\* What is asked of late after a step.
LEMMA LateAfter ==
    \A c \in Client : Late(c)' =
        {op \in {"register", "unregister"} : \E i \in DOMAIN requests' :
            /\ requests'[i].client = c /\ requests'[i].id # call'[c].id
            /\ requests'[i].packet.payload = PayloadOf(c, op)}
BY DEF Late, PayloadOf, RegisterPayload, UnregisterPayload

\* What was asked before the present call and is still queued, once it is over.
LEMMA LateIfUnserved ==
    ASSUME InTurn, NEW c \in Client, NEW o \in Ops, NEW i \in DOMAIN requests,
           requests[i].client = c, requests[i].packet.payload = PayloadOf(c, o)
    PROVE  o \in Late(c) \cup (IF c \in served THEN {} ELSE {call[c].op} \cap Ops)
<1>1. CASE requests[i].id # call[c].id
  BY <1>1 DEF Late, Ops
<1>2. CASE requests[i].id = call[c].id
  <2>1. PICK p \in Ops : PayloadOf(c, o) = PayloadOf(c, p) /\ p = call[c].op
    BY <1>2 DEF InTurn, Queued, AskedBy
  <2>2. o = p
    BY <2>1, PayloadsDiffer DEF Ops
  <2>3. c \notin served
    BY <1>2 DEF InTurn, Handled
  <2> QED
    BY <2>1, <2>2, <2>3
<1> QED
  BY <1>1, <1>2

LEMMA CallAsks ==
    ASSUME FewCalls, IInv, InTurn, NEW c \in Client, NEW op \in Ops, Call(c, op)
    PROVE  Directory!Next
<1>0. CallsTyped /\ Waits
  BY DEF IInv, InTurn
<1>1. /\ call'[c].op = op /\ call'[c].id = next_id[c] /\ call'[c].returned = "nothing"
      /\ \A d \in Client \ {c} : call'[d] = call[d]
      /\ c \notin waiting /\ served' = served \ {c}
      /\ UNCHANGED << requests, registry, now >>
      /\ \A i \in DOMAIN requests : requests[i].client = c => requests[i].id # next_id[c]
  BY Begun
<1>2. call[c].op = "none" \/ call[c].returned # "nothing"
  BY <1>0, <1>1 DEF CallsTyped, Calls, Waits, Ops
<1>3. \A d \in Client : Place(d)' = Place(d) /\ Until(d)' = Until(d)
  BY <1>1 DEF Place, Until
<1>4. \A d \in Client \ {c} : Late(d)' = Late(d)
  BY <1>1, LateAfter DEF Late
<1>5. Late(c)' \subseteq Late(c) \cup (IF c \in served THEN {} ELSE {call[c].op} \cap Ops)
  <2> SUFFICES ASSUME NEW o \in Late(c)'
               PROVE  o \in Late(c) \cup (IF c \in served THEN {} ELSE {call[c].op} \cap Ops)
    OBVIOUS
  <2>1. PICK i \in DOMAIN requests :
           requests[i].client = c /\ requests[i].packet.payload = PayloadOf(c, o)
    BY <1>1, LateAfter
  <2>2. o \in Ops
    BY DEF Late, Ops
  <2> QED
    BY <2>1, <2>2, LateIfUnserved
<1>6. Directory!Ask(c, op)
  <2> DEFINE L == Late(c)'
             late == [d \in Client |-> Late(d)]
  <2>1. [d \in Client |-> Late(d)]' = [late EXCEPT ![c] = L]
    BY <1>4
  <2>2. L \in SUBSET (late[c] \cup (IF c \in served THEN {} ELSE {call[c].op} \cap Ops))
    BY <1>5
  <2>3. [d \in Client |-> call[d].op]' = [[d \in Client |-> call[d].op] EXCEPT ![c] = op]
    BY <1>1
  <2>4. [d \in Client |-> call[d].returned]'
           = [[d \in Client |-> call[d].returned] EXCEPT ![c] = "nothing"]
    BY <1>1
  <2>5. /\ [d \in Client |-> Place(d)]' = [d \in Client |-> Place(d)]
        /\ [d \in Client |-> Until(d)]' = [d \in Client |-> Until(d)]
    BY <1>3
  <2> HIDE DEF L
  <2> QED
    BY <1>1, <1>2, <2>1, <2>2, <2>3, <2>4, <2>5 DEF Directory!Ask, Directory!Op, Ops
<1> QED
  BY <1>6 DEF Directory!Next, Directory!Op, Ops

\* The request of a call that has just begun is no late one.
LEMMA SendStutters ==
    ASSUME IInv, InTurn, NEW c \in Client, Send(c) PROVE UNCHANGED Directory!dvars
<1>1. UNCHANGED << call, registry, now, served >>
  BY DEF Send
<1>2. /\ \A i \in DOMAIN requests : i \in DOMAIN requests' /\ requests'[i] = requests[i]
      /\ \A i \in DOMAIN requests' \ DOMAIN requests :
            requests'[i].client = c /\ requests'[i].id = call[c].id
  <2>1. Len(requests) \in Nat /\ DOMAIN requests = 1 .. Len(requests)
    BY RequestsTyped DEF IInv
  <2> QED
    BY <2>1, SentOut
<1>3. \A d \in Client : Place(d)' = Place(d) /\ Until(d)' = Until(d) /\ Late(d)' = Late(d)
  <2>1. \A d \in Client : Place(d)' = Place(d) /\ Until(d)' = Until(d)
    BY <1>1 DEF Place, Until
  <2>2. \A d \in Client : Late(d)' = Late(d)
    BY <1>1, <1>2, LateAfter DEF Late
  <2> QED
    BY <2>1, <2>2
<1> QED
  BY <1>1, <1>3 DEF Directory!dvars, Directory!calls

LEMMA ReturnReturns ==
    ASSUME IInv, IInv', InTurn, NEW c \in waiting, NEW result \in {"true", "false"},
           NEW own \in BOOLEAN, Return(c, result, own), Apart
    PROVE  Directory!Next
<1>0. CallsTyped /\ Waits /\ c \in Client
  BY DEF IInv, InTurn, CallsTyped
<1>1. /\ \A d \in Client \ {c} : call'[d] = call[d]
      /\ call'[c].op = call[c].op /\ call'[c].id = call[c].id /\ call'[c].returned = result
  BY <1>0, ReturnedCall
<1>2. UNCHANGED << requests, registry, served, now >>
  BY DEF Return
<1>3. call[c].op \in Ops /\ call[c].returned = "nothing"
  BY <1>0 DEF Waits
<1>4. result = "true" => c \in served
  BY <1>0, <1>1, <1>2 DEF IInv, Believed, Apart
<1>5. \A d \in Client : Place(d)' = Place(d) /\ Until(d)' = Until(d) /\ Late(d)' = Late(d)
  <2>1. \A d \in Client : call'[d].id = call[d].id
    BY <1>1
  <2> QED
    BY <1>2, <2>1, LateAfter DEF Place, Until, Late
<1>6. Directory!Return(c, result)
  <2>1. [d \in Client |-> call[d].op]' = [d \in Client |-> call[d].op]
    BY <1>1
  <2>2. [d \in Client |-> call[d].returned]'
           = [[d \in Client |-> call[d].returned] EXCEPT ![c] = result]
    BY <1>1
  <2>3. /\ [d \in Client |-> Place(d)]' = [d \in Client |-> Place(d)]
        /\ [d \in Client |-> Until(d)]' = [d \in Client |-> Until(d)]
        /\ [d \in Client |-> Late(d)]' = [d \in Client |-> Late(d)]
    BY <1>5
  <2> QED
    BY <1>0, <1>2, <1>3, <1>4, <2>1, <2>2, <2>3 DEF Directory!Return, Directory!Op, Ops
<1> QED
  BY <1>0, <1>6 DEF Directory!Next

\* When a request leaves the queue, only what its client asked of late may be
\* gone, and that not if it is the request of the present call.
LEMMA LateLeft ==
    ASSUME InFlight, Queued, NEW i \in DOMAIN requests, requests' = RemoveAt(requests, i),
           UNCHANGED call, NEW c \in Client, requests[i].client = c
    PROVE  /\ \A d \in Client \ {c} : Late(d)' = Late(d)
           /\ Late(c)' \subseteq Late(c)
           /\ requests[i].id = call[c].id => Late(c)' = Late(c)
<1>1. /\ \A j \in DOMAIN requests' :
            \E k \in DOMAIN requests : k # i /\ requests'[j] = requests[k]
      /\ \A k \in DOMAIN requests \ {i} :
            \E j \in DOMAIN requests' : requests'[j] = requests[k]
  BY RequestsLeft
<1>2. \A d \in Client : Late(d)' =
         {o \in {"register", "unregister"} : \E j \in DOMAIN requests' :
            /\ requests'[j].client = d /\ requests'[j].id # call[d].id
            /\ requests'[j].packet.payload = PayloadOf(d, o)}
  BY LateAfter
<1>3. \A d \in Client : Late(d)' \subseteq Late(d)
  BY <1>1, <1>2 DEF Late
<1>4. ASSUME NEW d \in Client, d # c \/ requests[i].id = call[c].id PROVE Late(d) \subseteq Late(d)'
  <2> SUFFICES ASSUME NEW o \in Late(d) PROVE o \in Late(d)'
    OBVIOUS
  <2>1. PICK k \in DOMAIN requests :
           /\ requests[k].client = d /\ requests[k].id # call[d].id
           /\ requests[k].packet.payload = PayloadOf(d, o)
    BY DEF Late
  <2>2. k # i
    BY <1>4, <2>1
  <2>3. PICK j \in DOMAIN requests' : requests'[j] = requests[k]
    BY <1>1, <2>2
  <2>4. o \in {"register", "unregister"}
    BY DEF Late
  <2> QED
    BY <1>2, <2>1, <2>3, <2>4
<1> QED
  BY <1>3, <1>4

LEMMA ServeTakesEffect ==
    ASSUME IInv, InTurn, Serve, OwnPlaces PROVE Directory!Next
<1>0. InFlight /\ Queued /\ Handled
  BY DEF IInv, InTurn
<1>1. PICK i \in DOMAIN requests, c \in Client, op \in Ops :
         /\ requests' = RemoveAt(requests, i) /\ requests[i].client = c
         /\ requests[i].packet.payload = PayloadOf(c, op)
         /\ requests[i].id = call[c].id => op = call[c].op
         /\ served' = served \cup {d \in Client : d = c /\ call[d].id = requests[i].id}
         /\ UNCHANGED << call, waiting, now >>
         /\ OwnPlaces => \A d \in Client :
               /\ Place(d)' = IF d = c THEN Outcome(c, op) ELSE Place(d)
               /\ Until(d)' = IF d = c
                              THEN (IF op = "register" THEN now + Ttl * Second ELSE 0)
                              ELSE Until(d)
         /\ InOrder(c) => \A j \in DOMAIN requests : requests[j].client = c => ~ (j < i)
  BY Served
<1>2. /\ \A d \in Client \ {c} : Late(d)' = Late(d)
      /\ Late(c)' \subseteq Late(c)
      /\ requests[i].id = call[c].id => Late(c)' = Late(c)
  BY <1>0, <1>1, LateLeft
<1> DEFINE place == [d \in Client |-> Place(d)]
           until == [d \in Client |-> Until(d)]
           late == [d \in Client |-> Late(d)]
           span == Ttl * Second
<1>3. place' = [place EXCEPT ![c] = IF op = "register" THEN Wire(DescriptorOf[c]) ELSE NoPayload]
  BY <1>1 DEF Outcome
<1>4. until' = [until EXCEPT ![c] = IF op = "register" THEN now + Ttl * Second ELSE 0]
  BY <1>1
<1>5. Directory!Enter(c, op)
  <2>1. place' = [place EXCEPT ![c] =
                    IF op = "register" THEN [d \in Client |-> Wire(DescriptorOf[d])][c]
                    ELSE NoPayload]
    BY <1>3
  <2> HIDE DEF place, until
  <2> QED
    BY <1>1, <1>4, <2>1 DEF Directory!Enter, place, until
<1>6. [d \in Client |-> call[d].op]' = [d \in Client |-> call[d].op]
      /\ [d \in Client |-> call[d].returned]' = [d \in Client |-> call[d].returned]
  BY <1>1
<1>7. CASE requests[i].id = call[c].id
  <2>1. call[c].op = op /\ served' = served \cup {c} /\ c \notin served
    BY <1>0, <1>1, <1>7 DEF Handled
  <2>2. late' = late
    BY <1>2, <1>7
  <2>3. InOrder(c) => late[c] = {}
    <3>1. InOrder(c) => \A j \in DOMAIN requests : requests[j].client = c => j = i
      BY <1>0, <1>1, <1>7, OnlyRequest
    <3> QED
      BY <1>7, <3>1 DEF Late
  <2> HIDE DEF late
  <2>4. Directory!TakeEffect(c)
    BY <1>5, <1>6, <2>1, <2>2, <2>3 DEF Directory!TakeEffect, Directory!Op, Ops, late
  <2> QED
    BY <2>4 DEF Directory!Next
<1>8. CASE requests[i].id # call[c].id
  <2>1. served' = served
    BY <1>1, <1>8
  <2>2. op \in late[c]
    BY <1>1, <1>8 DEF Late, Ops
  <2>3. Late(c)' \in SUBSET late[c] /\ late' = [late EXCEPT ![c] = Late(c)']
    BY <1>2
  <2>4. Directory!TakeLateEffect(c)
    BY <1>5, <1>6, <2>1, <2>2, <2>3 DEF Directory!TakeLateEffect
  <2> QED
    BY <2>4 DEF Directory!Next
<1> QED
  BY <1>7, <1>8

LEMMA LossLoses ==
    ASSUME IInv, InTurn, LoseRequest PROVE Directory!Next
<1>0. InFlight /\ Queued
  BY DEF IInv, InTurn
<1>1. PICK i \in DOMAIN requests : requests' = RemoveAt(requests, i)
  BY DEF LoseRequest
<1>2. UNCHANGED << call, registry, served, now >>
  BY DEF LoseRequest, calls
<1>3. PICK c \in Client : requests[i].client = c
  BY <1>0, RequestsTyped DEF Asked
<1>4. (\A d \in Client \ {c} : Late(d)' = Late(d)) /\ Late(c)' \subseteq Late(c)
  BY <1>0, <1>1, <1>2, <1>3, LateLeft
<1> DEFINE late == [d \in Client |-> Late(d)]
<1>5. Late(c)' \in SUBSET late[c] /\ late' = [late EXCEPT ![c] = Late(c)']
  BY <1>4
<1>6. /\ [d \in Client |-> Place(d)]' = [d \in Client |-> Place(d)]
      /\ [d \in Client |-> Until(d)]' = [d \in Client |-> Until(d)]
      /\ [d \in Client |-> call[d].op]' = [d \in Client |-> call[d].op]
      /\ [d \in Client |-> call[d].returned]' = [d \in Client |-> call[d].returned]
  BY <1>2 DEF Place, Until
<1>7. Directory!Lose(c)
  BY <1>2, <1>5, <1>6 DEF Directory!Lose
<1> QED
  BY <1>7 DEF Directory!Next

\* The leases that CleanupExpired drops are entries whose span is over.
LEMMA ExpiryLapses ==
    ASSUME IInv, InTurn, Expire PROVE Directory!Next
<1>0. IsRegistry(registry) /\ now \in Nat
  BY DEF IInv, InTurn, CallsTyped
<1>1. /\ registry' = CleanupExpired(registry, now)
      /\ UNCHANGED << call, requests, served, now >>
  BY DEF Expire, calls
<1> DEFINE kept(c) == Place(c)' = Place(c) /\ Until(c)' = Until(c)
           gone == {c \in Client : ~ kept(c)}
           place == [c \in Client |-> Place(c)]
           until == [c \in Client |-> Until(c)]
<1>2. \A c \in Client : \/ kept(c)
                        \/ Place(c)' = NoPayload /\ Until(c)' = 0 /\ Until(c) <= now
  BY <1>0, <1>1, PlaceExpired
<1>3. gone \in SUBSET {c \in Client : until[c] <= now}
  BY <1>2
<1>4. place' = [c \in Client |-> IF c \in gone THEN NoPayload ELSE place[c]]
  BY <1>2
<1>5. until' = [c \in Client |-> IF c \in gone THEN 0 ELSE until[c]]
  BY <1>2
<1>6. /\ [c \in Client |-> Late(c)]' = [c \in Client |-> Late(c)]
      /\ [c \in Client |-> call[c].op]' = [c \in Client |-> call[c].op]
      /\ [c \in Client |-> call[c].returned]' = [c \in Client |-> call[c].returned]
  BY <1>1, LateAfter DEF Late
<1> HIDE DEF gone
<1>7. Directory!Lapse
  BY <1>1, <1>3, <1>4, <1>5, <1>6 DEF Directory!Lapse, Directory!calls
<1> QED
  BY <1>7 DEF Directory!Next

LEMMA StepsOnDirectory ==
    ASSUME FewCalls, Apart, OwnPlaces, IInv, IInv', InTurn, [Next]_vars
    PROVE  [Directory!Next]_(Directory!dvars)
<1>1. ASSUME NEW c \in Client, RegisterService(c) \/ UnregisterService(c) PROVE Directory!Next
  <2>1. PICK op \in Ops : Call(c, op)
    BY <1>1 DEF RegisterService, UnregisterService, Ops
  <2> QED
    BY <2>1, CallAsks
<1>2. ASSUME NEW c \in Client, Send(c) PROVE UNCHANGED Directory!dvars
  BY <1>2, SendStutters
<1>3. ASSUME NEW c \in Client, Receive(c) \/ Timeout(c) \/ SendFails(c) PROVE Directory!Next
  <2>1. PICK result \in {"true", "false"}, own \in BOOLEAN : Return(c, result, own)
    BY <1>3 DEF Receive, Timeout, SendFails
  <2>2. c \in waiting
    BY <1>3 DEF Receive, Timeout, SendFails, IInv, CallsTyped
  <2> QED
    BY <2>1, <2>2, ReturnReturns
<1>4. CASE Serve
  BY <1>4, ServeTakesEffect
<1>5. CASE LoseRequest
  BY <1>5, LossLoses
<1>6. CASE Expire
  BY <1>6, ExpiryLapses
<1>7. CASE Deliver \/ LoseAnswer \/ Tick \/ UNCHANGED vars
  <2>1. UNCHANGED << call, requests, registry, served >>
    BY <1>7 DEF Deliver, LoseAnswer, Tick, vars, calls
  <2>2. \A c \in Client : Place(c)' = Place(c) /\ Until(c)' = Until(c) /\ Late(c)' = Late(c)
    BY <2>1, LateAfter DEF Place, Until, Late
  <2>3. /\ [c \in Client |-> Place(c)]' = [c \in Client |-> Place(c)]
        /\ [c \in Client |-> Until(c)]' = [c \in Client |-> Until(c)]
        /\ UNCHANGED Directory!calls
    BY <2>1, <2>2 DEF Directory!calls
  <2>4. now' = now \/ now' = now + 1
    BY <1>7 DEF Deliver, LoseAnswer, Tick, vars
  <2> QED
    BY <2>3, <2>4 DEF Directory!dvars, Directory!Pass, Directory!Next
<1> QED
  BY <1>1, <1>2, <1>3, <1>4, <1>5, <1>6, <1>7 DEF Next

\* RegisterService and UnregisterService are single steps on a directory, made
\* between their begin and their end when they return true, and late or never
\* when they do not; in order, never after a later call's; and what was entered
\* goes by itself only when its TTL is over.
THEOREM DirectoryImplemented ==
    ASSUME FewCalls, Apart, OwnPlaces PROVE Spec => ImplementsDirectory
<1>1. IInv /\ InTurn /\ IInv' /\ [Next]_vars => [Directory!Next]_(Directory!dvars)
  BY StepsOnDirectory
<1> QED
  BY <1>1, InitDirectory, InductiveTurn, PTL DEF Spec, ImplementsDirectory, Directory!Spec

-----------------------------------------------------------------------------
(* What a socket receives *)

\* An address leads to the open socket of a client that waits.
BoundHere ==
    /\ DOMAIN address = Client
    /\ \A a \in DOMAIN bound : bound[a] \in waiting /\ address[bound[a]] = a

\* Of a client's queued requests R, answers A on their way and what its socket
\* received no two are of one call.
Single(c, R, A, received) ==
    /\ \A i \in DOMAIN R, a \in A :
          R[i].client = c /\ a.answer.client = c => R[i].id # a.answer.id
    /\ \A i \in DOMAIN R, j \in DOMAIN received :
          R[i].client = c => R[i].id # received[j].id
    /\ \A a, b \in A :
          a.answer.client = c /\ b.answer.client = c /\ a.answer.id = b.answer.id => a = b
    /\ \A a \in A, j \in DOMAIN received :
          a.answer.client = c => a.answer.id # received[j].id
    /\ \A i, j \in DOMAIN received : received[i].id = received[j].id => i = j

Once == \A c \in Client : Single(c, requests, answers, inbox[c])

\* What an answer is and where it came to.
LEMMA AnswersTyped ==
    ASSUME InFlight
    PROVE  /\ \A a \in answers : a.answer \in Told /\ a.to \in AddressOf(a.answer.client)
           /\ \A c \in Client : /\ Len(inbox[c]) \in Nat
                                /\ DOMAIN inbox[c] = 1 .. Len(inbox[c])
                                /\ \A j \in DOMAIN inbox[c] : inbox[c][j] \in ToldTo(c)
<1>1. \A a \in answers : a.answer \in Told /\ a.to \in AddressOf(a.answer.client)
  BY DEF InFlight
<1>2. \A c \in Client : inbox[c] \in Seq(ToldTo(c))
  BY DEF InFlight
<1> QED
  BY <1>1, <1>2, LenProperties, ElementOfSeq

LEMMA InitBoundOnce == Init => BoundHere /\ Once
BY DEF Init, BoundHere, Once, Single

LEMMA BoundHereStep ==
    ASSUME IInv, BoundHere, [Next]_vars PROVE BoundHere'
<1>0. waiting \subseteq Client
  BY DEF IInv, CallsTyped
<1>1. ASSUME NEW c \in Client, NEW op, Call(c, op) PROVE BoundHere'
  <2>1. PICK a \in Addresses(c) :
           /\ address' = [address EXCEPT ![c] = a]
           /\ bound' = [b \in DOMAIN bound \cup {a} |-> IF b = a THEN c ELSE bound[b]]
    BY <1>1 DEF Call
  <2>2. c \notin waiting /\ waiting' = waiting \cup {c}
    BY <1>1 DEF Call
  <2>3. /\ DOMAIN address' = Client /\ address'[c] = a
        /\ \A d \in Client \ {c} : address'[d] = address[d]
    BY <2>1 DEF BoundHere
  <2>4. /\ DOMAIN bound' = DOMAIN bound \cup {a} /\ bound'[a] = c
        /\ \A b \in DOMAIN bound \ {a} : bound'[b] = bound[b]
    BY <2>1
  <2>5. \A b \in DOMAIN bound : bound[b] # c /\ bound[b] \in Client
    BY <1>0, <2>2 DEF BoundHere
  <2> QED
    BY <2>2, <2>3, <2>4, <2>5 DEF BoundHere
<1>2. ASSUME NEW c \in Client, NEW result, NEW own, Return(c, result, own) PROVE BoundHere'
  <2>1. /\ Close(c) /\ waiting' = waiting \ {c} /\ address' = [address EXCEPT ![c] = << >>]
    BY <1>2 DEF Return
  <2>2. \A b \in DOMAIN bound' : b \in DOMAIN bound /\ bound'[b] = bound[b] /\ bound[b] # c
    <3>1. CASE bound' = Restrict(bound, DOMAIN bound \ {address[c]})
      <4>1. DOMAIN bound' = DOMAIN bound \ {address[c]}
            /\ \A b \in DOMAIN bound' : bound'[b] = bound[b]
        BY <3>1 DEF Restrict
      <4> QED
        BY <4>1 DEF BoundHere
    <3>2. CASE bound' = bound /\ ~ (address[c] \in DOMAIN bound /\ bound[address[c]] = c)
      BY <3>2 DEF BoundHere
    <3> QED
      BY <2>1, <3>1, <3>2 DEF Close
  <2>3. DOMAIN address' = Client /\ \A d \in Client \ {c} : address'[d] = address[d]
    BY <2>1 DEF BoundHere
  <2> QED
    BY <1>0, <2>1, <2>2, <2>3 DEF BoundHere
<1>3. ASSUME NEW c \in Client, RegisterService(c) \/ UnregisterService(c) PROVE BoundHere'
  BY <1>1, <1>3 DEF RegisterService, UnregisterService
<1>4. ASSUME NEW c \in Client, Receive(c) PROVE BoundHere'
  <2>1. PICK result, own : Return(c, result, own)
    BY <1>4 DEF Receive
  <2> QED
    BY <1>2, <2>1
<1>5. ASSUME NEW c \in Client, Timeout(c) \/ SendFails(c) PROVE BoundHere'
  BY <1>2, <1>5 DEF Timeout, SendFails
<1>6. ASSUME \/ \E c \in Client : Send(c)
             \/ Serve \/ Expire \/ Tick \/ Deliver \/ LoseRequest \/ LoseAnswer \/ UNCHANGED vars
      PROVE  BoundHere'
  <2>1. UNCHANGED << waiting, address, bound >>
    BY <1>6 DEF Send, Serve, Handle, Expire, Tick, Deliver, LoseRequest, LoseAnswer, vars, calls
  <2> QED
    BY <2>1 DEF BoundHere
<1> QED
  BY <1>3, <1>4, <1>5, <1>6 DEF Next

\* An answer reaches no client but the one it is for.
LEMMA Queues ==
    ASSUME IInv, Apart, NEW x, NEW to \in AddressOf(x.client), x.client \in Client,
           inbox' = Queue(to, x), NEW c \in Client, NEW j \in DOMAIN inbox'[c]
    PROVE  \/ j \in DOMAIN inbox[c] /\ inbox'[c][j] = inbox[c][j]
           \/ c = x.client /\ inbox'[c][j] = x /\ j = Len(inbox[c]) + 1
<1>0. InFlight /\ BoundApart
  BY DEF IInv
<1>1. CASE to \notin DOMAIN bound
  BY <1>1 DEF Queue
<1>2. CASE to \in DOMAIN bound
  <2>1. bound[to] = x.client
    BY <1>0, <1>2 DEF BoundApart, Apart
  <2> DEFINE d == x.client
             s == inbox[d]
  <2>2. inbox' = [inbox EXCEPT ![d] = Append(s, x)]
    BY <1>2, <2>1 DEF Queue
  <2>3. \A e \in Client : inbox'[e] = IF e = d THEN Append(s, x) ELSE inbox[e]
    BY <1>0, <2>2 DEF InFlight
  <2>4. s \in Seq(ToldTo(d) \cup {x}) /\ x \in ToldTo(d) \cup {x}
    BY <1>0, SeqMonotone DEF InFlight
  <2> HIDE DEF s
  <2>5. /\ DOMAIN s = 1 .. Len(s) /\ Len(s) \in Nat
        /\ DOMAIN Append(s, x) = 1 .. Len(s) + 1
        /\ \A k \in 1 .. Len(s) : Append(s, x)[k] = s[k]
        /\ Append(s, x)[Len(s) + 1] = x
    BY <2>4, AppendProperties, LenProperties
  <2>6. CASE c = d
    <3>1. inbox'[c] = Append(s, x)
      BY <2>3, <2>6
    <3>2. j \in 1 .. Len(s) \/ j = Len(s) + 1
      BY <2>5, <3>1
    <3> QED
      BY <2>5, <2>6, <3>1, <3>2 DEF s
  <2>7. CASE c # d
    BY <2>3, <2>7
  <2> QED
    BY <2>6, <2>7
<1> QED
  BY <1>1, <1>2

\* Nothing new is on its way.
LEMMA OnceLess ==
    ASSUME Once, answers' \subseteq answers,
           \A i \in DOMAIN requests' : \E k \in DOMAIN requests : requests'[i] = requests[k],
           \A c \in Client : \A j \in DOMAIN inbox'[c] :
              j \in DOMAIN inbox[c] /\ inbox'[c][j] = inbox[c][j]
    PROVE  Once'
<1> SUFFICES ASSUME NEW c \in Client PROVE Single(c, requests', answers', inbox'[c])
  BY DEF Once
<1> QED
  BY DEF Once, Single

\* A call sends what nothing on its way answers.
LEMMA SendOnce ==
    ASSUME Apart, IInv, InTurn, Once, NEW c \in Client, Send(c) PROVE Once'
<1>0. CallsTyped /\ InFlight
  BY DEF IInv
<1>1. /\ \A i \in DOMAIN requests : requests'[i] = requests[i]
      /\ \A i \in DOMAIN requests' \ DOMAIN requests :
            requests'[i].client = c /\ requests'[i].id = call[c].id
  BY SentOut
<1>2. answers' = answers /\ inbox' = inbox /\ c \in sending
  BY DEF Send
<1>3. \A a \in answers : a.answer.client = c => a.answer.id # call[c].id
  BY <1>0, <1>2, AnswersTyped DEF Told, Sent
<1>4. \A j \in DOMAIN inbox[c] : inbox[c][j].id # call[c].id
  BY <1>0, <1>2, AnswersTyped DEF ToldTo, Told, Sent
<1> SUFFICES ASSUME NEW d \in Client PROVE Single(d, requests', answers', inbox'[d])
  BY DEF Once
<1>5. CASE d = c
  BY <1>1, <1>2, <1>3, <1>4, <1>5 DEF Once, Single
<1>6. CASE d # c
  <2>1. \A i \in DOMAIN requests' : requests'[i].client = d
           => i \in DOMAIN requests /\ requests'[i] = requests[i]
    BY <1>1, <1>6
  <2> QED
    BY <1>2, <1>6, <2>1 DEF Once, Single
<1> QED
  BY <1>5, <1>6

\* The answer takes the place of its request.
LEMMA ServeOnce ==
    ASSUME FewCalls, Apart, IInv, InTurn, Once, Serve PROVE Once'
<1>0. InFlight /\ Queued
  BY DEF IInv, InTurn
<1> DEFINE answerTo(req) == [client |-> req.client, id |-> req.id,
                             packet |-> EncodePacket(AnswerTo(registry, req.packet))]
<1>1. PICK i \in DOMAIN requests :
         /\ requests' = RemoveAt(requests, i)
         /\ \/ inbox' = Queue(requests[i].from, answerTo(requests[i])) /\ UNCHANGED answers
            \/ /\ answers' = answers \cup {[to |-> requests[i].from,
                                            answer |-> answerTo(requests[i])]}
               /\ UNCHANGED inbox
  BY DEF Serve, Handle
<1> DEFINE x == answerTo(requests[i])
<1>2. /\ requests[i].client \in Client /\ requests[i].from \in AddressOf(requests[i].client)
      /\ x.client = requests[i].client /\ x.id = requests[i].id
      /\ requests[i].id \in Nat
  BY <1>0, RequestsTyped DEF Asked
<1>3. PICK c \in Client, n \in Nat : c = x.client /\ n = x.id
  BY <1>2
<1>4. \A j \in DOMAIN requests' :
         \E k \in DOMAIN requests : k # i /\ requests'[j] = requests[k]
  BY <1>0, <1>1, RequestsLeft
<1>5. \A k \in DOMAIN requests : k # i /\ requests[k].client = c => requests[k].id # n
  <2> SUFFICES ASSUME NEW k \in DOMAIN requests, k # i, requests[k].client = c
               PROVE  requests[k].id # n
    OBVIOUS
  <2>1. requests[i].id \in Nat /\ requests[k].id \in Nat /\ (k < i \/ i < k)
    BY <1>0, RequestsTyped DEF Asked
  <2> QED
    BY <1>0, <1>2, <1>3, <2>1 DEF Queued
<1>6. /\ \A a \in answers : a.answer.client = c => a.answer.id # n
      /\ \A j \in DOMAIN inbox[c] : inbox[c][j].id # n
  BY <1>2, <1>3 DEF Once, Single
<1> HIDE DEF x, answerTo
<1>7. CASE inbox' = Queue(requests[i].from, x) /\ UNCHANGED answers
  <2>1. \A d \in Client : \A j \in DOMAIN inbox'[d] :
           \/ j \in DOMAIN inbox[d] /\ inbox'[d][j] = inbox[d][j]
           \/ d = c /\ inbox'[d][j] = x /\ j = Len(inbox[d]) + 1
    BY <1>2, <1>3, <1>7, Queues
  <2> SUFFICES ASSUME NEW d \in Client PROVE Single(d, requests', answers', inbox'[d])
    BY DEF Once
  <2> QED
    BY <1>3, <1>4, <1>5, <1>6, <1>7, <2>1 DEF Once, Single
<1>8. CASE /\ answers' = answers \cup {[to |-> requests[i].from, answer |-> x]}
           /\ UNCHANGED inbox
  <2> DEFINE y == [to |-> requests[i].from, answer |-> x]
  <2>1. y.answer = x /\ answers' = answers \cup {y}
    BY <1>8
  <2> HIDE DEF y
  <2> SUFFICES ASSUME NEW d \in Client PROVE Single(d, requests', answers', inbox'[d])
    BY DEF Once
  <2> QED
    BY <1>3, <1>4, <1>5, <1>6, <1>8, <2>1 DEF Once, Single
<1> QED
  BY <1>1, <1>7, <1>8 DEF x

LEMMA DeliverOnce ==
    ASSUME Apart, IInv, Once, Deliver PROVE Once'
<1>0. InFlight
  BY DEF IInv
<1>1. PICK x \in answers : answers' = answers \ {x} /\ inbox' = Queue(x.to, x.answer)
  BY DEF Deliver
<1>2. UNCHANGED requests
  BY DEF Deliver
<1>3. x.to \in AddressOf(x.answer.client) /\ x.answer.client \in Client
  BY <1>0, AnswersTyped DEF Told
<1>4. \A d \in Client : \A j \in DOMAIN inbox'[d] :
         \/ j \in DOMAIN inbox[d] /\ inbox'[d][j] = inbox[d][j]
         \/ d = x.answer.client /\ inbox'[d][j] = x.answer /\ j = Len(inbox[d]) + 1
  BY <1>1, <1>3, Queues
<1> SUFFICES ASSUME NEW d \in Client PROVE Single(d, requests', answers', inbox'[d])
  BY DEF Once
<1> QED
  BY <1>1, <1>2, <1>4 DEF Once, Single

LEMMA OnceStep ==
    ASSUME FewCalls, Apart, IInv, InTurn, Once, [Next]_vars PROVE Once'
<1>0. InFlight
  BY DEF IInv
<1>1. ASSUME NEW c \in Client, \/ RegisterService(c) \/ UnregisterService(c)
                               \/ Receive(c) \/ Timeout(c) \/ SendFails(c)
      PROVE  Once'
  <2>1. UNCHANGED << requests, answers >>
    BY <1>1 DEF RegisterService, UnregisterService, Call, Receive, Timeout, SendFails, Return
  <2>2. inbox' = [inbox EXCEPT ![c] = << >>] \/ UNCHANGED inbox
    BY <1>1 DEF RegisterService, UnregisterService, Call, Receive, Timeout, SendFails
  <2>3. \A d \in Client : inbox'[d] = inbox[d] \/ inbox'[d] = << >>
    BY <1>0, <2>2 DEF InFlight
  <2>4. \A d \in Client : \A j \in DOMAIN inbox'[d] :
           j \in DOMAIN inbox[d] /\ inbox'[d][j] = inbox[d][j]
    BY <2>3
  <2> QED
    BY <2>1, <2>4, OnceLess
<1>2. ASSUME NEW c \in Client, Send(c) PROVE Once'
  BY <1>2, SendOnce
<1>3. CASE Serve
  BY <1>3, ServeOnce
<1>4. CASE Deliver
  BY <1>4, DeliverOnce
<1>5. CASE LoseRequest
  <2>1. PICK i \in DOMAIN requests : requests' = RemoveAt(requests, i)
    BY <1>5 DEF LoseRequest
  <2>2. \A j \in DOMAIN requests' : \E k \in DOMAIN requests : requests'[j] = requests[k]
    BY <1>0, <2>1, RequestsLeft DEF InTurn
  <2>3. UNCHANGED << answers, inbox >>
    BY <1>5 DEF LoseRequest
  <2> QED
    BY <2>2, <2>3, OnceLess
<1>6. CASE LoseAnswer \/ Expire \/ Tick \/ UNCHANGED vars
  <2>1. UNCHANGED << requests, inbox >> /\ answers' \subseteq answers
    BY <1>6 DEF LoseAnswer, Expire, Tick, vars
  <2> QED
    BY <2>1, OnceLess
<1> QED
  BY <1>1, <1>2, <1>3, <1>4, <1>5, <1>6 DEF Next

\* A socket receives no more answers than its client made calls.
LEMMA InboxBounded ==
    ASSUME Apart, IInv, Once, NEW c \in Client PROVE Len(inbox[c]) <= MaxCalls
<1> DEFINE n == Len(inbox[c])
           id == [j \in 1 .. n |-> inbox[c][j].id]
<1>1. /\ n \in Nat /\ DOMAIN inbox[c] = 1 .. n
      /\ \A j \in 1 .. n : inbox[c][j].id \in 1 .. MaxCalls
  BY AnswersTyped DEF IInv, ToldTo, Told
<1>2. \A i, j \in 1 .. n : inbox[c][i].id = inbox[c][j].id => i = j
  BY <1>1 DEF Once, Single
<1> HIDE DEF n
<1>3. id \in Injection(1 .. n, 1 .. MaxCalls)
  BY <1>1, <1>2 DEF Injection, IsInjective
<1>4. /\ IsFiniteSet(1 .. n) /\ Cardinality(1 .. n) = n
      /\ IsFiniteSet(1 .. MaxCalls) /\ Cardinality(1 .. MaxCalls) = MaxCalls
  <2>1. MaxCalls \in Nat /\ MaxCalls - 1 + 1 = MaxCalls /\ n - 1 + 1 = n
    BY <1>1, ControlAssumption
  <2>2. /\ IsFiniteSet(1 .. n)
        /\ Cardinality(1 .. n) = IF 1 > n THEN 0 ELSE n - 1 + 1
    BY <1>1, FS_Interval
  <2>3. /\ IsFiniteSet(1 .. MaxCalls)
        /\ Cardinality(1 .. MaxCalls) = IF 1 > MaxCalls THEN 0 ELSE MaxCalls - 1 + 1
    BY <2>1, FS_Interval
  <2> QED
    BY <1>1, <2>1, <2>2, <2>3
<1>5. Cardinality(1 .. n) <= Cardinality(1 .. MaxCalls)
  BY <1>3, <1>4, FS_Injection
<1> QED
  BY <1>4, <1>5 DEF n

\* The types of the state: every address leads to a client that waits, and no
\* socket is sent more than one answer to each call.
THEOREM TypeCorrect == ASSUME FewCalls, Apart PROVE Spec => []TypeOK
<1>1. Init => IInv /\ InTurn /\ BoundHere /\ Once
  BY InitIInv, InitInTurn, InitBoundOnce
<1>2. IInv /\ InTurn /\ BoundHere /\ Once /\ [Next]_vars => (IInv /\ InTurn /\ BoundHere /\ Once)'
  BY InductiveStep, InTurnStep, BoundHereStep, OnceStep
<1>3. ASSUME IInv, InTurn, BoundHere, Once PROVE TypeOK
  <2>1. CallsTyped /\ IsRegistry(registry)
    BY <1>3 DEF IInv, InTurn
  <2>2. \A c \in Client : Len(inbox[c]) <= MaxCalls
    BY <1>3, InboxBounded
  <2>3. \A c \in Client : /\ call[c].op \in {"none", "register", "unregister"}
                         /\ call[c].returned \in {"nothing", "true", "false"}
    BY <2>1 DEF CallsTyped, Calls
  <2>4. next_id \in [Client -> 0 .. U32 - 1]
    <3>1. \A n \in 1 .. MaxCalls + 1 : n \in 0 .. U32 - 1
      BY ControlAssumption, ProtocolAssumption DEF FewCalls
    <3> QED
      BY <2>1, <3>1 DEF CallsTyped
  <2>5. \A a \in DOMAIN bound : bound[a] \in waiting
    BY <1>3 DEF BoundHere
  <2> QED
    BY <2>1, <2>2, <2>3, <2>4, <2>5 DEF TypeOK, CallsTyped
<1> QED
  BY <1>1, <1>2, <1>3, PTL DEF Spec
=============================================================================
