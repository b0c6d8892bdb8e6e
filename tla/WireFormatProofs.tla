-------------------------- MODULE WireFormatProofs --------------------------
(***************************************************************************)
(* Theorems about the two wire formats.  SdCodec: for every service, TTL,   *)
(* request id and list, what is sent is read as what was meant.  IdlCodec:   *)
(* for every IDL, every object and every size of a byte, what is read of a   *)
(* payload is what was written to it, and a payload that is not whole is     *)
(* never taken for one that is.                                              *)
(***************************************************************************)
EXTENDS SdCodec, IdlCodec, SdProtocolProofs, WellFoundedInduction, SequenceTheorems

-----------------------------------------------------------------------------
(* SdCodec: the inductive invariant *)

\* What may be asked of a sender.
Registers == [op : {"register"}, descriptor : ServiceDescriptor, ttl : Ttls, id : Ids]
Unregisters == [op : {"unregister"}, descriptor : ServiceDescriptor, id : Ids]
Finds ==
    [op : {"find"}, service_id : Service, instance_id : InstanceField \cup {NoInstance}, id : Ids]
Answers == [op : {"list"}, services : Lists, id : Ids]

\* What the receiver holds is what it reads off the wire, and on the wire is
\* what the sender was asked to send.
Read == parsed # Nothing => call # Nothing

ReadOffer ==
    parsed # Nothing =>
        /\ parsed.is_find = IsFind(wire.payload)
        /\ parsed.offer = ParseSdOfferFirst(wire.payload)

SentRegister ==
    call.op = "register" =>
        /\ call \in Registers /\ ReadOffer
        /\ wire.payload = BuildSdOfferPayload(call.descriptor, ToU32(call.ttl), FALSE)

SentUnregister ==
    call.op = "unregister" =>
        /\ call \in Unregisters /\ ReadOffer
        /\ wire.payload = BuildSdOfferPayload(call.descriptor, 0, TRUE)

SentFind ==
    call.op = "find" =>
        /\ call \in Finds
        /\ wire.payload = BuildSdFindPayload(call.service_id, call.instance_id)
        /\ parsed # Nothing =>
              /\ parsed.is_find = IsFind(wire.payload)
              /\ parsed.query = ParseSdFindPayload(wire.payload)

SentList ==
    call.op = "list" =>
        /\ call \in Answers
        /\ wire.payload = BuildSdOfferPayloadList(call.services, 3)
        /\ parsed # Nothing => parsed.services = ParseSdOffers(wire.payload)

SentOp ==
    /\ call.op \in {"none", "register", "unregister", "find", "list"}
    /\ call.op = "none" <=> call = Nothing

IInv == Read /\ SentOp /\ SentRegister /\ SentUnregister /\ SentFind /\ SentList

-----------------------------------------------------------------------------
LEMMA InitIInv == Init => IInv
<1> SUFFICES ASSUME Init PROVE IInv
  OBVIOUS
<1>1. call = Nothing /\ parsed = Nothing /\ Nothing.op = "none"
  BY DEF Init, Nothing
<1> QED
  BY <1>1 DEF IInv, Read, SentOp, SentRegister, SentUnregister, SentFind, SentList

\* A packet that is sent carries its payload as built.
LEMMA SendStep ==
    ASSUME IInv, NEW c, NEW type, NEW id \in Ids, NEW body, Send(c, type, id, body)
    PROVE  /\ call' = c /\ parsed' = Nothing
           /\ wire'.payload = body
<1>1. call = Nothing /\ call' = c /\ parsed' = parsed
      /\ wire' = EncodePacket([message_type |-> type, request_id |-> id, payload |-> body])
  BY DEF Send
<1>2. parsed = Nothing
  BY <1>1 DEF IInv, Read
<1>3. wire'.payload = body
  BY <1>1 DEF EncodePacket
<1> QED
  BY <1>1, <1>2, <1>3

LEMMA RegisterStep ==
    ASSUME IInv, NEW d \in ServiceDescriptor, NEW ttl \in Ttls, NEW id \in Ids,
           RegisterService(d, ttl, id)
    PROVE  IInv'
<1> DEFINE c == [op |-> "register", descriptor |-> d, ttl |-> ttl, id |-> id]
<1>1. /\ call' = c /\ parsed' = Nothing
      /\ wire'.payload = BuildSdOfferPayload(d, ToU32(ttl), FALSE)
  BY SendStep DEF RegisterService
<1>2. c.op = "register" /\ c.descriptor = d /\ c.ttl = ttl /\ c \in Registers
  BY DEF Registers
<1>3. c # Nothing
  BY <1>2 DEF Nothing
<1> HIDE DEF c
<1> QED
  BY <1>1, <1>2, <1>3
  DEF IInv, Read, ReadOffer, SentOp, SentRegister, SentUnregister, SentFind, SentList

LEMMA UnregisterStep ==
    ASSUME IInv, NEW s \in Service, NEW i \in InstanceField, NEW id \in Ids,
           UnregisterService(s, i, id)
    PROVE  IInv'
<1> DEFINE d == [service_id |-> s, instance_id |-> i,
                 endpoint_host |-> Loopback, endpoint_port |-> 0, transport |-> "udp"]
           c == [op |-> "unregister", descriptor |-> d, id |-> id]
<1>1. /\ call' = c /\ parsed' = Nothing
      /\ wire'.payload = BuildSdOfferPayload(d, 0, TRUE)
  BY SendStep DEF UnregisterService
<1>2. d \in ServiceDescriptor
  BY ProtocolAssumption DEF ServiceDescriptor
<1> HIDE DEF d
<1>3. c.op = "unregister" /\ c.descriptor = d /\ c \in Unregisters
  BY <1>2 DEF Unregisters
<1>4. c # Nothing
  BY <1>3 DEF Nothing
<1> HIDE DEF c
<1> QED
  BY <1>1, <1>3, <1>4
  DEF IInv, Read, ReadOffer, SentOp, SentRegister, SentUnregister, SentFind, SentList

LEMMA FindStep ==
    ASSUME IInv, NEW s \in Service, NEW i \in InstanceField \cup {NoInstance}, NEW id \in Ids,
           DiscoverServices(s, i, id)
    PROVE  IInv'
<1> DEFINE c == [op |-> "find", service_id |-> s, instance_id |-> i, id |-> id]
<1>1. /\ call' = c /\ parsed' = Nothing
      /\ wire'.payload = BuildSdFindPayload(s, i)
  BY SendStep DEF DiscoverServices
<1>2. c.op = "find" /\ c.service_id = s /\ c.instance_id = i /\ c \in Finds
  BY DEF Finds
<1>3. c # Nothing
  BY <1>2 DEF Nothing
<1> HIDE DEF c
<1> QED
  BY <1>1, <1>2, <1>3
  DEF IInv, Read, ReadOffer, SentOp, SentRegister, SentUnregister, SentFind, SentList

LEMMA ListStep ==
    ASSUME IInv, NEW services \in Lists, NEW id \in Ids, AnswerFind(services, id)
    PROVE  IInv'
<1> DEFINE c == [op |-> "list", services |-> services, id |-> id]
<1>1. /\ call' = c /\ parsed' = Nothing
      /\ wire'.payload = BuildSdOfferPayloadList(services, 3)
  BY SendStep DEF AnswerFind
<1>2. c.op = "list" /\ c.services = services /\ c \in Answers
  BY DEF Answers
<1>3. c # Nothing
  BY <1>2 DEF Nothing
<1> HIDE DEF c
<1> QED
  BY <1>1, <1>2, <1>3
  DEF IInv, Read, ReadOffer, SentOp, SentRegister, SentUnregister, SentFind, SentList

\* The receiver reads the payload as what was sent.
LEMMA ReceiveStep == ASSUME IInv, Receive PROVE IInv'
<1>1. call' = call /\ wire' = wire /\ call # Nothing /\ parsed = Nothing
  BY DEF Receive
<1>2. CASE call.op \in {"register", "unregister"}
  <2>1. parsed' = [op |-> "offer", id |-> wire.request_id, is_find |-> IsFind(wire.payload),
                   offer |-> ParseSdOfferFirst(wire.payload)]
    BY <1>2 DEF Receive
  <2>2. /\ parsed'.op = "offer"
        /\ parsed'.is_find = IsFind(wire.payload)
        /\ parsed'.offer = ParseSdOfferFirst(wire.payload)
    BY <2>1
  <2>3. parsed' # Nothing
    BY <2>2 DEF Nothing
  <2> QED
    BY <1>1, <1>2, <2>2, <2>3
    DEF IInv, Read, ReadOffer, SentOp, SentRegister, SentUnregister, SentFind, SentList
<1>3. CASE call.op = "find"
  <2>1. parsed' = [op |-> "find", id |-> wire.request_id, is_find |-> IsFind(wire.payload),
                   query |-> ParseSdFindPayload(wire.payload)]
    BY <1>3 DEF Receive
  <2>2. /\ parsed'.op = "find"
        /\ parsed'.is_find = IsFind(wire.payload)
        /\ parsed'.query = ParseSdFindPayload(wire.payload)
    BY <2>1
  <2>3. parsed' # Nothing
    BY <2>2 DEF Nothing
  <2> QED
    BY <1>1, <1>3, <2>2, <2>3
    DEF IInv, Read, ReadOffer, SentOp, SentRegister, SentUnregister, SentFind, SentList
<1>4. CASE call.op = "list"
  <2>1. parsed' = [op |-> "list", id |-> wire.request_id,
                   services |-> ParseSdOffers(wire.payload)]
    BY <1>4 DEF Receive
  <2>2. /\ parsed'.op = "list"
        /\ parsed'.services = ParseSdOffers(wire.payload)
    BY <2>1
  <2>3. parsed' # Nothing
    BY <2>2 DEF Nothing
  <2> QED
    BY <1>1, <1>4, <2>2, <2>3
    DEF IInv, Read, ReadOffer, SentOp, SentRegister, SentUnregister, SentFind, SentList
<1>5. call.op \in {"register", "unregister", "find", "list"}
  BY <1>1 DEF IInv, SentOp
<1> QED
  BY <1>2, <1>3, <1>4, <1>5

LEMMA InductiveStep == IInv /\ [Next]_vars => IInv'
<1> SUFFICES ASSUME IInv, [Next]_vars PROVE IInv'
  OBVIOUS
<1>1. ASSUME NEW d \in ServiceDescriptor, NEW ttl \in Ttls, NEW id \in Ids,
             RegisterService(d, ttl, id)
      PROVE  IInv'
  BY <1>1, RegisterStep
<1>2. ASSUME NEW s \in Service, NEW i \in InstanceField, NEW id \in Ids,
             UnregisterService(s, i, id)
      PROVE  IInv'
  BY <1>2, UnregisterStep
<1>3. ASSUME NEW s \in Service, NEW i \in InstanceField \cup {NoInstance}, NEW id \in Ids,
             DiscoverServices(s, i, id)
      PROVE  IInv'
  BY <1>3, FindStep
<1>4. ASSUME NEW services \in Lists, NEW id \in Ids, AnswerFind(services, id) PROVE IInv'
  BY <1>4, ListStep
<1>5. CASE Receive
  BY <1>5, ReceiveStep
<1>6. CASE Reset
  <2>1. call' = Nothing /\ parsed' = Nothing /\ Nothing.op = "none"
    BY <1>6 DEF Reset, Nothing
  <2> QED
    BY <2>1 DEF IInv, Read, SentOp, SentRegister, SentUnregister, SentFind, SentList
<1>7. CASE UNCHANGED vars
  BY <1>7
  DEF vars, IInv, Read, ReadOffer, SentOp, SentRegister, SentUnregister, SentFind, SentList
<1> QED
  BY <1>1, <1>2, <1>3, <1>4, <1>5, <1>6, <1>7 DEF Next

LEMMA Invariance == Spec => []IInv
BY InitIInv, InductiveStep, PTL DEF Spec

-----------------------------------------------------------------------------
(* What is read is what was meant *)

\* A TTL goes out as a natural number, zero only if it is a multiple of 2^32.
LEMMA TtlSent == \A ttl \in Int : ToU32(ttl) \in Nat /\ (ttl % U32 # 0 => ToU32(ttl) > 0)
BY ProtocolAssumption DEF ToU32

\* A withdrawal is read with the TTL zero.
LEMMA WithdrawalRead == \A d : ParseSdOfferFirst(BuildSdOfferPayload(d, 0, TRUE)).ttl = 0
BY ProtocolAssumption DEF BuildSdOfferPayload, BuildServiceEntry, ParseSdOfferFirst

\* HandlePacket, which tells registrations from withdrawals by the TTL, takes
\* neither for the other, whatever int RegisterService is given.
THEOREM TtlTellsApart == Spec => []TtlDecides
<1>1. ASSUME IInv PROVE TtlDecides
  <2>1. ASSUME Got("register"), call.ttl % U32 # 0 PROVE parsed.offer.ttl > 0
    <3>1. call \in Registers /\ parsed.offer = ParseSdOfferFirst(wire.payload)
          /\ wire.payload = BuildSdOfferPayload(call.descriptor, ToU32(call.ttl), FALSE)
      BY <1>1, <2>1 DEF IInv, SentRegister, ReadOffer, Got
    <3>2. PICK d \in ServiceDescriptor, ttl \in Nat : d = call.descriptor /\ ttl = ToU32(call.ttl)
      BY <3>1, TtlSent, CodecAssumption DEF Registers
    <3>3. ttl > 0
      BY <2>1, <3>1, <3>2, TtlSent, CodecAssumption DEF Registers
    <3>4. parsed.offer = ParseSdOfferFirst(BuildSdOfferPayload(d, ttl, FALSE))
      BY <3>1, <3>2
    <3>5. ParseSdOfferFirst(BuildSdOfferPayload(d, ttl, FALSE)).ttl > 0
      BY <3>3, OfferRoundTrip
    <3> QED
      BY <3>4, <3>5
  <2>2. ASSUME Got("unregister") PROVE parsed.offer.ttl = 0
    <3>1. /\ parsed.offer = ParseSdOfferFirst(wire.payload)
          /\ wire.payload = BuildSdOfferPayload(call.descriptor, 0, TRUE)
      BY <1>1, <2>2 DEF IInv, SentUnregister, ReadOffer, Got
    <3> QED
      BY <3>1, WithdrawalRead
  <2> QED
    BY <2>1, <2>2 DEF TtlDecides
<1> QED
  BY <1>1, Invariance, PTL

\* The service of a registration or a withdrawal is read back, but for a host
\* that is no address, and the packet is not taken for a find.
THEOREM OfferIsRead == Spec => []OfferArrives
<1>1. ASSUME NEW d \in ServiceDescriptor, NEW ttl \in Nat, NEW stop \in BOOLEAN
      PROVE  /\ ~ IsFind(BuildSdOfferPayload(d, ttl, stop))
             /\ ParseSdOfferFirst(BuildSdOfferPayload(d, ttl, stop)).descriptor = Wire(d)
  BY OfferRoundTrip DEF IsOffer, IsFind
<1>2. ASSUME IInv, Got("register") \/ Got("unregister")
      PROVE  ~ parsed.is_find /\ parsed.offer.descriptor = Wire(call.descriptor)
  <2>1. CASE Got("register")
    <3>1. /\ call \in Registers /\ parsed.offer = ParseSdOfferFirst(wire.payload)
          /\ parsed.is_find = IsFind(wire.payload)
          /\ wire.payload = BuildSdOfferPayload(call.descriptor, ToU32(call.ttl), FALSE)
      BY <1>2, <2>1 DEF IInv, SentRegister, ReadOffer, Got
    <3>2. PICK d \in ServiceDescriptor, ttl \in Nat : d = call.descriptor /\ ttl = ToU32(call.ttl)
      BY <3>1, TtlSent, CodecAssumption DEF Registers
    <3>3. wire.payload = BuildSdOfferPayload(d, ttl, FALSE)
      BY <3>1, <3>2
    <3>4. /\ ~ IsFind(BuildSdOfferPayload(d, ttl, FALSE))
          /\ ParseSdOfferFirst(BuildSdOfferPayload(d, ttl, FALSE)).descriptor = Wire(d)
      BY <1>1
    <3> QED
      BY <3>1, <3>2, <3>3, <3>4
  <2>2. CASE Got("unregister")
    <3>1. /\ call \in Unregisters /\ parsed.offer = ParseSdOfferFirst(wire.payload)
          /\ parsed.is_find = IsFind(wire.payload)
          /\ wire.payload = BuildSdOfferPayload(call.descriptor, 0, TRUE)
      BY <1>2, <2>2 DEF IInv, SentUnregister, ReadOffer, Got
    <3>2. PICK d \in ServiceDescriptor : d = call.descriptor
      BY <3>1 DEF Unregisters
    <3>3. wire.payload = BuildSdOfferPayload(d, 0, TRUE)
      BY <3>1, <3>2
    <3>4. /\ ~ IsFind(BuildSdOfferPayload(d, 0, TRUE))
          /\ ParseSdOfferFirst(BuildSdOfferPayload(d, 0, TRUE)).descriptor = Wire(d)
      BY <1>1
    <3> QED
      BY <3>1, <3>2, <3>3, <3>4
  <2> QED
    BY <1>2, <2>1, <2>2
<1>3. IInv => OfferArrives
  BY <1>2 DEF OfferArrives
<1> QED
  BY <1>3, Invariance, PTL

\* A find is read as the find that was sent, the instance 0xFFFF as none.
THEOREM FindIsRead == Spec => []FindArrives
<1>1. ASSUME IInv, Got("find")
      PROVE  /\ parsed.is_find
             /\ parsed.query.service_id = call.service_id
             /\ parsed.query.instance_id =
                  IF call.instance_id = AnyInstance THEN NoInstance ELSE call.instance_id
  <2>1. /\ call \in Finds /\ parsed.is_find = IsFind(wire.payload)
        /\ parsed.query = ParseSdFindPayload(wire.payload)
        /\ wire.payload = BuildSdFindPayload(call.service_id, call.instance_id)
    BY <1>1 DEF IInv, SentFind, Got
  <2>2. call.service_id \in Service /\ call.instance_id \in InstanceField \cup {NoInstance}
    BY <2>1 DEF Finds
  <2> QED
    BY <2>1, <2>2, FindRoundTrip
<1>2. IInv => FindArrives
  BY <1>1 DEF FindArrives
<1> QED
  BY <1>2, Invariance, PTL

\* Every service of a list the option index can span is read with its own
\* endpoint.
THEOREM ListIsRead == Spec => []ListArrives
<1>1. ASSUME IInv, Got("list"), Len(call.services) <= IndexSpan
      PROVE  parsed.services = {Wire(call.services[i]) : i \in DOMAIN call.services}
  <2>1. /\ call \in Answers /\ parsed.services = ParseSdOffers(wire.payload)
        /\ wire.payload = BuildSdOfferPayloadList(call.services, 3)
    BY <1>1 DEF IInv, SentList, Got
  <2>2. PICK n \in 0 .. MaxList : call.services \in [1 .. n -> ServiceDescriptor]
    BY <2>1 DEF Answers, Lists
  <2>3. call.services \in Seq(ServiceDescriptor)
        /\ DOMAIN call.services = 1 .. Len(call.services)
    BY <2>2, CodecAssumption
  <2> QED
    BY <1>1, <2>1, <2>3, OfferListRoundTrip
<1>2. IInv => ListArrives
  BY <1>1 DEF ListArrives
<1> QED
  BY <1>2, Invariance, PTL

-----------------------------------------------------------------------------
(* IdlCodec: integers and their bytes *)

\* A set of natural numbers has a least one.
LEMMA Least ==
  ASSUME NEW S, S \subseteq Nat, S # {}
  PROVE  \E n \in S : \A k \in S : n <= k
<1> DEFINE R == OpToRel(<, Nat)
<1>1. IsWellFoundedOn(R, Nat)
  BY NatLessThanWellFounded
<1>2. \A j, k \in Nat : << j, k >> \in R <=> j < k
  BY DEF OpToRel
<1> HIDE DEF R
<1>3. PICK n \in S : \A k \in S : ~ (<< k, n >> \in R)
  BY <1>1, WFMin, Zenon
<1>4. \A k \in S : ~ (k < n)
  BY <1>2, <1>3
<1> QED
  BY <1>4

\* Span as far as n.
IsSpan(f, n) == f = [k \in 0 .. n |-> IF k = 0 THEN 1 ELSE Base * f[k - 1]]

\* Such functions agree where both are defined, and there is one for every n: so
\* Span is what its definition says.
LEMMA SpansAgree ==
  ASSUME NEW f, NEW g, NEW m \in Nat, NEW n \in Nat, IsSpan(f, m), IsSpan(g, n),
         NEW k \in 0 .. m, k <= n
  PROVE  f[k] = g[k]
<1> DEFINE D == {j \in Nat : j <= m /\ j <= n /\ f[j] # g[j]}
<1> SUFFICES ASSUME f[k] # g[k] PROVE FALSE
  OBVIOUS
<1>1. k \in D
  OBVIOUS
<1>2. PICK j \in D : \A i \in D : j <= i
  BY <1>1, Least, D \subseteq Nat
<1>3. j # 0
  BY <1>2 DEF IsSpan
<1>4. j - 1 \in Nat /\ j - 1 \notin D
  BY <1>2, <1>3
<1>5. f[j - 1] = g[j - 1]
  BY <1>2, <1>4
<1> QED
  BY <1>2, <1>3, <1>5 DEF IsSpan

LEMMA SpanExists ==
  ASSUME NEW n \in Nat
  PROVE  \E f : IsSpan(f, n)
<1> DEFINE D == {j \in Nat : ~ \E f : IsSpan(f, j)}
<1> SUFFICES ASSUME n \in D PROVE FALSE
  OBVIOUS
<1>1. PICK j \in D : \A i \in D : j <= i
  BY Least, D \subseteq Nat
<1>2. CASE j = 0
  <2>1. IsSpan([k \in 0 .. 0 |-> 1], 0)
    BY DEF IsSpan
  <2> QED
    BY <1>1, <1>2, <2>1
<1>3. CASE j # 0
  <2>1. j - 1 \in Nat /\ j - 1 \notin D
    BY <1>1, <1>3
  <2>2. PICK f : IsSpan(f, j - 1)
    BY <2>1
  <2> DEFINE g == [k \in 0 .. j |-> IF k = j THEN Base * f[j - 1] ELSE f[k]]
  <2>3. IsSpan(g, j)
    BY <1>1, <1>3, <2>2 DEF IsSpan
  <2> HIDE DEF g
  <2> QED
    BY <1>1, <2>3
<1> QED
  BY <1>2, <1>3

LEMMA SpanDef ==
  /\ Span[0] = 1
  /\ \A k \in Nat : Span[k + 1] = Base * Span[k]
<1> DEFINE Upto(n) == CHOOSE f : IsSpan(f, n)
           S == [k \in Nat |-> Upto(k)[k]]
<1>1. ASSUME NEW n \in Nat PROVE IsSpan(Upto(n), n)
  BY SpanExists
<1> HIDE DEF Upto
<1>2. S[0] = 1
  <2>1. 0 \in Nat /\ Upto(0)[0] = 1
    BY <1>1 DEF IsSpan
  <2> QED
    BY <2>1
<1>3. ASSUME NEW k \in Nat \ {0} PROVE S[k] = Base * S[k - 1]
  <2>1. k - 1 \in Nat /\ k - 1 \in 0 .. k /\ k - 1 \in 0 .. k - 1 /\ k - 1 <= k
    OBVIOUS
  <2>2. Upto(k)[k - 1] = Upto(k - 1)[k - 1]
    BY <1>1, <2>1, SpansAgree
  <2>3. Upto(k)[k] = Base * Upto(k)[k - 1]
    BY <1>1 DEF IsSpan
  <2> QED
    BY <2>1, <2>2, <2>3
<1>4. S = [k \in Nat |-> IF k = 0 THEN 1 ELSE Base * S[k - 1]]
  <2> HIDE DEF S
  <2>1. \A k \in Nat : S[k] = IF k = 0 THEN 1 ELSE Base * S[k - 1]
    BY <1>2, <1>3
  <2>2. S = [k \in Nat |-> S[k]]
    BY DEF S
  <2> QED
    BY <2>1, <2>2
<1> HIDE DEF S
<1>5. Span = [k \in Nat |-> IF k = 0 THEN 1 ELSE Base * Span[k - 1]]
  BY <1>4 DEF Span
<1>6. ASSUME NEW k \in Nat PROVE Span[k] = IF k = 0 THEN 1 ELSE Base * Span[k - 1]
  BY <1>5
<1>7. ASSUME NEW k \in Nat PROVE k + 1 \in Nat /\ k + 1 # 0 /\ (k + 1) - 1 = k
  OBVIOUS
<1> QED
  BY <1>6, <1>7

\* Division and remainder, as they are used below.
LEMMA DivMod ==
  ASSUME NEW a \in Int, NEW b \in Nat \ {0}
  PROVE  a = (a \div b) * b + (a % b) /\ a % b \in 0 .. b - 1 /\ a \div b \in Int
<1>1. a % b \in 0 .. b - 1 /\ a \div b \in Int
  OBVIOUS
<1>2. a = b * (a \div b) + (a % b)
  OBVIOUS
<1>3. b * (a \div b) = (a \div b) * b
  BY <1>1
<1> QED
  BY <1>1, <1>2, <1>3

LEMMA MulLess ==
  ASSUME NEW x \in Int, NEW y \in Int, NEW s \in Nat \ {0}, x * s < y * s
  PROVE  x < y
<1> SUFFICES ASSUME x >= y PROVE FALSE
  OBVIOUS
<1>1. (x - y) * s >= 0
  OBVIOUS
<1>2. (x - y) * s = x * s - y * s
  OBVIOUS
<1> QED
  BY <1>1, <1>2

LEMMA DivUnique ==
  ASSUME NEW a \in Int, NEW b \in Nat \ {0}, NEW q \in Int, NEW r \in 0 .. b - 1, a = q * b + r
  PROVE  a \div b = q /\ a % b = r
<1> DEFINE d == a \div b
           m == a % b
<1>1. d \in Int /\ m \in 0 .. b - 1 /\ a = d * b + m
  BY DivMod
<1> HIDE DEF d, m
<1>2. (d - q) * b = r - m
  BY <1>1
<1>3. (d - q) * b < 1 * b /\ (-1) * b < (d - q) * b
  BY <1>1, <1>2
<1>4. d - q < 1 /\ -1 < d - q
  BY <1>1, <1>3, MulLess
<1>5. d = q
  BY <1>1, <1>4
<1>6. m = r
  BY <1>1, <1>5
<1> QED
  BY <1>5, <1>6 DEF d, m

LEMMA DivNested ==
  ASSUME NEW a \in Int, NEW s \in Nat \ {0}, NEW b \in Nat \ {0}
  PROVE  a \div s = (a \div (b * s)) * b + ((a \div s) % b)
<1> DEFINE q == a \div s
           r == a % s
           t == b * s
           p == a \div t
           o == a % t
<1>1. t \in Nat \ {0}
  OBVIOUS
<1>2. q \in Int /\ r \in 0 .. s - 1 /\ a = q * s + r
  BY DivMod
<1>3. p \in Int /\ o \in 0 .. t - 1 /\ a = p * t + o
  BY <1>1, DivMod
<1> HIDE DEF q, r, p, o
<1>4. (q - p * b) * s = o - r
  <2>1. (q - p * b) * s = q * s - (p * b) * s
    BY <1>2, <1>3
  <2>2. (p * b) * s = p * t
    BY <1>3
  <2> QED
    BY <1>1, <1>2, <1>3, <2>1, <2>2
<1> DEFINE e == q - p * b
<1>5. e \in Int
  BY <1>2, <1>3
<1> HIDE DEF e
<1>6. (-1) * s < e * s /\ e * s < b * s
  BY <1>2, <1>3, <1>4, <1>5 DEF e
<1>7. e \in 0 .. b - 1
  BY <1>5, <1>6, MulLess
<1>8. q % b = e
  <2>1. q = p * b + e
    BY <1>2, <1>3 DEF e
  <2> QED
    BY <1>2, <1>3, <1>7, <2>1, DivUnique
<1> QED
  BY <1>2, <1>3, <1>8 DEF e, q, p, t

\* What some bytes can hold is positive, and even unless there are none.
LEMMA SpanType ==
  ASSUME NEW k \in Nat
  PROVE  Span[k] \in Nat \ {0} /\ (k > 0 => Span[k] % 2 = 0)
<1> DEFINE D == {j \in Nat : ~ (Span[j] \in Nat \ {0} /\ (j > 0 => Span[j] % 2 = 0))}
<1> SUFFICES ASSUME k \in D PROVE FALSE
  OBVIOUS
<1>1. PICK j \in D : \A i \in D : j <= i
  BY Least, D \subseteq Nat
<1>2. j > 0
  BY <1>1, SpanDef
<1>3. j - 1 \in Nat /\ Span[j - 1] \in Nat \ {0}
  BY <1>1, <1>2
<1>4. Span[j] = Base * Span[j - 1]
  BY <1>3, SpanDef, j = (j - 1) + 1
<1>5. PICK h \in Nat : Base = 2 * h
  BY IdlAssumption DEF IdlAssumption
<1>6. Span[j] = 2 * (h * Span[j - 1]) /\ h * Span[j - 1] \in Nat
  BY <1>3, <1>4, <1>5
<1>7. h > 0
  BY <1>5, IdlAssumption DEF IdlAssumption
<1>8. h * Span[j - 1] > 0
  BY <1>3, <1>7
<1>9. Span[j] \in Nat \ {0} /\ Span[j] % 2 = 0
  BY <1>6, <1>8
<1> QED
  BY <1>1, <1>9

\* Every integer has bytes; a length is an unsigned integer, a bool one byte.
LEMMA WidthType ==
  /\ \A type \in DOMAIN Width : Width[type] \in Nat \ {0}
  /\ LengthTypes \subseteq DOMAIN Width \ Signed
  /\ "u8" \in DOMAIN Width \ Signed
BY DEF Width, LengthTypes, Signed

\* The loop of readIntegralBE.
Loop(in, pos, w) ==
  LET u[k \in 0 .. w] == IF k = 0 THEN 0 ELSE u[k - 1] * Base + in[pos + k]
  IN  u[w]

IsLoop(u, in, pos, w) == u = [k \in 0 .. w |-> IF k = 0 THEN 0 ELSE u[k - 1] * Base + in[pos + k]]

\* The loop has one result.
LEMMA LoopUnique ==
  ASSUME NEW u, NEW v, NEW in, NEW pos \in Nat, NEW w \in Nat,
         IsLoop(u, in, pos, w), IsLoop(v, in, pos, w)
  PROVE  u[w] = v[w]
<1> DEFINE D == {j \in 0 .. w : u[j] # v[j]}
<1> SUFFICES ASSUME w \in D PROVE FALSE
  OBVIOUS
<1>1. PICK j \in D : \A i \in D : j <= i
  BY Least, D \subseteq Nat
<1>2. j # 0
  BY <1>1 DEF IsLoop
<1>3. j - 1 \in 0 .. w /\ j - 1 \notin D
  BY <1>1, <1>2
<1> QED
  BY <1>1, <1>2, <1>3 DEF IsLoop

LEMMA LoopIs ==
  ASSUME NEW v, NEW in, NEW pos \in Nat, NEW w \in Nat, IsLoop(v, in, pos, w)
  PROVE  Loop(in, pos, w) = v[w]
<1> DEFINE u == CHOOSE f : f = [k \in 0 .. w |-> IF k = 0 THEN 0 ELSE f[k - 1] * Base + in[pos + k]]
<1>1. IsLoop(u, in, pos, w)
  BY DEF IsLoop
<1>2. Loop(in, pos, w) = u[w]
  BY DEF Loop
<1> HIDE DEF u
<1> QED
  BY <1>1, <1>2, LoopUnique

\* The bytes of v in the order they are written, read as readIntegralBE does it.
LEMMA LoopOfWritten ==
  ASSUME NEW v \in Int, NEW in, NEW pos \in Nat, NEW w \in Nat,
         \A k \in 1 .. w : in[pos + k] = (v \div Span[w - k]) % Base
  PROVE  Loop(in, pos, w) = v - (v \div Span[w]) * Span[w]
<1> DEFINE e == v \div Span[w]
           u == [k \in 0 .. w |-> (v \div Span[w - k]) - e * Span[k]]
<1>0. Base \in Nat \ {0}
  BY IdlAssumption DEF IdlAssumption
<1>1. e \in Int
  BY SpanType
<1> HIDE DEF e
<1>2. u[0] = 0
  BY <1>1, SpanDef, SpanType DEF e
<1>3. ASSUME NEW k \in 1 .. w
      PROVE  u[k] = u[k - 1] * Base + in[pos + k]
  <2> DEFINE a == v \div Span[w - k]
             b == v \div Span[w - (k - 1)]
  <2>1. w - k \in Nat /\ k - 1 \in Nat /\ w - (k - 1) = (w - k) + 1 /\ k = (k - 1) + 1
    OBVIOUS
  <2>2. Span[w - (k - 1)] = Base * Span[w - k] /\ Span[k] = Base * Span[k - 1]
    BY <2>1, SpanDef
  <2>3. Span[w - k] \in Nat \ {0} /\ Span[w - (k - 1)] \in Nat \ {0} /\ Span[k - 1] \in Nat \ {0}
    BY <2>1, SpanType
  <2>4. a = b * Base + (a % Base)
    <3>1. a = (v \div (Base * Span[w - k])) * Base + (a % Base)
      BY <1>0, <2>3, DivNested
    <3> QED
      BY <2>2, <3>1
  <2>5. a \in Int /\ b \in Int
    BY <2>3
  <2>6. u[k] = a - e * Span[k] /\ u[k - 1] = b - e * Span[k - 1] /\ in[pos + k] = a % Base
    BY <2>1
  <2> HIDE DEF a, b, u
  <2>7. (b - e * Span[k - 1]) * Base = b * Base - e * Span[k]
    BY <1>0, <1>1, <2>2, <2>3, <2>5
  <2> QED
    BY <1>0, <1>1, <2>2, <2>3, <2>4, <2>5, <2>6, <2>7
<1>4. IsLoop(u, in, pos, w)
  <2>1. \A k \in 0 .. w : u[k] = IF k = 0 THEN 0 ELSE u[k - 1] * Base + in[pos + k]
    <3> SUFFICES ASSUME NEW k \in 0 .. w
                 PROVE  u[k] = IF k = 0 THEN 0 ELSE u[k - 1] * Base + in[pos + k]
      OBVIOUS
    <3> HIDE DEF u
    <3>1. CASE k = 0
      BY <1>2, <3>1
    <3>2. CASE k # 0
      BY <1>3, <3>2
    <3> QED
      BY <3>1, <3>2
  <2>2. u = [k \in 0 .. w |-> u[k]]
    OBVIOUS
  <2> HIDE DEF u
  <2> QED
    BY <2>1, <2>2 DEF IsLoop
<1>5. u[w] = v - e * Span[w]
  <2>1. w - w = 0 /\ v \div 1 = v
    OBVIOUS
  <2> QED
    BY <2>1, SpanDef
<1> HIDE DEF u
<1> QED
  BY <1>4, <1>5, LoopIs DEF e

\* readIntegralBE is its test of the size and this loop.
LEMMA ReadIntIs ==
  ASSUME NEW type, NEW in, NEW pos
  PROVE  ReadInt(type, in, pos) =
           IF Len(in) - pos < Width[type] THEN Outcome(FALSE, NoValue, pos)
           ELSE Outcome(TRUE, IF type \in Signed /\ 2 * Loop(in, pos, Width[type]) >= Span[Width[type]]
                              THEN Loop(in, pos, Width[type]) - Span[Width[type]]
                              ELSE Loop(in, pos, Width[type]),
                        pos + Width[type])
BY DEF ReadInt, Loop

\* The integer v stands in the bytes after pos.
Stands(type, v, in, pos) ==
    /\ type \in DOMAIN Width /\ v \in Values(type) /\ pos \in Nat
    /\ Len(in) \in Nat /\ pos + Width[type] <= Len(in)
    /\ \A k \in 1 .. Width[type] : in[pos + k] = WriteInt(type, v)[k]

\* writeIntegralBE and readIntegralBE fit each other.
LEMMA IntIsRead ==
  ASSUME NEW type, NEW v, NEW in, NEW pos, Stands(type, v, in, pos)
  PROVE  ReadInt(type, in, pos) = Outcome(TRUE, v, pos + Width[type])
<1> USE DEF Stands
<1> DEFINE w == Width[type]
           n == Span[w]
           e == v \div n
           u == Loop(in, pos, w)
<1>1. w \in Nat \ {0}
  BY WidthType
<1> HIDE DEF w
<1>2. n \in Nat \ {0} /\ n % 2 = 0
  BY <1>1, SpanType
<1> HIDE DEF n
<1>3. v \in Int /\ (IF type \in Signed THEN -(n \div 2) <= v /\ v <= n \div 2 - 1 ELSE 0 <= v /\ v <= n - 1)
  BY <1>2 DEF Values, w, n
<1>0. ~ (Len(in) - pos < w)
  BY <1>1 DEF w
<1>9. ReadInt(type, in, pos) = Outcome(TRUE, IF type \in Signed /\ 2 * u >= n THEN u - n ELSE u, pos + w)
  BY <1>0, ReadIntIs DEF w, n
<1>4. u = v - e * n
  <2>1. \A k \in 1 .. w : in[pos + k] = (v \div Span[w - k]) % Base
    BY DEF WriteInt, w
  <2> QED
    BY <1>1, <1>3, <2>1, LoopOfWritten DEF n
<1>5. PICK h \in Nat : n = 2 * h
  BY <1>2
<1>6. n \div 2 = h /\ h > 0
  BY <1>2, <1>5
<1>7. CASE 0 <= v
  <2>1. v \in 0 .. n - 1
    BY <1>2, <1>3, <1>5, <1>6, <1>7
  <2>2. e = 0
    BY <1>2, <2>1, DivUnique, v = 0 * n + v
  <2>3. u = v
    BY <1>2, <1>3, <1>4, <2>2
  <2>4. ~ (type \in Signed /\ 2 * u >= n)
    BY <1>3, <1>5, <1>6, <2>3
  <2> QED
    BY <1>9, <2>3, <2>4 DEF w
<1>8. CASE v < 0
  <2>1. type \in Signed /\ v + n \in 0 .. n - 1 /\ v = (-1) * n + (v + n)
    <3>1. type \in Signed /\ -h <= v
      BY <1>3, <1>6, <1>8
    <3>2. v + n \in 0 .. n - 1
      BY <1>3, <1>5, <1>6, <1>8, <3>1
    <3> QED
      BY <1>2, <1>3, <3>1, <3>2
  <2>2. e = -1
    BY <1>2, <1>3, <2>1, DivUnique
  <2>3. u = v + n
    BY <1>2, <1>3, <1>4, <2>2
  <2>4. 2 * u >= n
    BY <1>3, <1>5, <1>6, <2>1, <2>3
  <2>5. u - n = v
    BY <1>2, <1>3, <2>3
  <2> QED
    BY <1>9, <2>1, <2>4, <2>5 DEF w
<1>10. 0 <= v \/ v < 0
  BY <1>3
<1> QED
  BY <1>7, <1>8, <1>10

-----------------------------------------------------------------------------
(* IdlCodec: the inductive invariant *)

\* A member on the list: its type is known, an array's or a string's length has one.
Item ==
    {m \in [type : STRING \cup {PushBack}, len : STRING, elem : STRING, captured : BOOLEAN, inner : BOOLEAN] :
        /\ m.type \in Primitive \cup DOMAIN Types \cup {"array", PushBack}
        /\ m.type = "array" => m.elem \in Primitive \cup DOMAIN Types
        /\ m.type \in {"array", "string"} => m.len \in LengthTypes}

\* A list never ends inside an element.
Todo == {list \in Seq(Item) : list # << >> => ~ list[Len(list)].inner}

Byte == 0 .. Base - 1
\* A byte, or a field of the header of a frame.
Symbol == Int \cup {"message_id", "request_id", "type"}
AnyValue == UNION {SamplesOf(m) : m \in Item}
Visit == [member : Item, value : AnyValue \cup {NoValue}]

\* How the payload came about: what was left to write before each member, and
\* the position in the payload.
Steps(lists, ends) ==
    LET n == Len(object)
    IN  /\ lists \in [1 .. n + 1 -> Todo] /\ ends \in [1 .. n + 1 -> 0 .. Len(payload)]
        /\ lists[1] = Members(class, FALSE) /\ ends[1] = 0 /\ ends[n + 1] = Len(payload)
        /\ \A j \in 1 .. n :
             LET m == object[j].member
                 v == object[j].value
                 s == Written(m, v)
             IN  /\ lists[j] # << >> /\ m = Head(lists[j])
                 /\ v \in SamplesOf(m) /\ Fits(m, v)
                 /\ lists[j + 1] = After(lists[j], v)
                 /\ ends[j + 1] = ends[j] + Len(s)
                 /\ \A k \in 1 .. Len(s) : payload[ends[j] + k] = s[k]

Agrees == \A k \in 1 .. Len(arrived) : k <= Len(Datagram) => arrived[k] = Datagram[k]
Valid == framed => FrameIsValid(arrived)

Basics ==
    /\ \A t \in DOMAIN Types : Accepted(t)
    /\ class \in DOMAIN Types /\ framed \in BOOLEAN
    /\ object \in Seq(Visit) /\ payload \in Seq(Byte)
    /\ phase \in {"idl", "broken", "built", "writing", "sent", "reading", "read", "rejected"}

Unread == position = 0 /\ taken = << >> /\ kept = 0
Blank == object = << >> /\ payload = << >> /\ Unread

Writing ==
    \/ object = << >> /\ payload = << >> /\ todo = << >>
    \/ \E lists, ends : Steps(lists, ends) /\ todo = lists[Len(object) + 1]

\* The reader is as far as the writer was when it had written as many members.
Follows(lists, ends) ==
    LET m == Len(taken)
    IN  /\ Valid
        /\ todo = lists[m + 1] /\ position = ends[m + 1] /\ position <= Len(Input)
        /\ kept = m \/ todo # << >>

Taken ==
    /\ taken \in Seq(Visit) /\ Len(taken) <= Len(object)
    /\ taken = [k \in 1 .. Len(taken) |-> Stored(object[k])]
    /\ kept \in 0 .. Len(taken) /\ (kept > 0 => ~ object[kept].member.inner)

\* The writer's object went out.
Fitted ==
    /\ Taken
    /\ \E lists, ends :
         /\ Steps(lists, ends) /\ lists[Len(object) + 1] = << >>
         /\ phase = "reading" => Follows(lists, ends)
    /\ phase = "read" => arrived = Datagram /\ kept = Len(object)
    /\ phase = "rejected" => arrived # Datagram

\* Nothing went out, and nothing was added to it.
Empty ==
    /\ payload = << >>
    /\ Len(arrived) <= Len(Datagram) =>
         /\ phase # "read"
         /\ phase = "reading" =>
              /\ Valid /\ position = 0
              /\ todo \in Todo /\ todo # << >> /\ Head(todo).type # PushBack

Received ==
    /\ arrived \in Seq(Symbol) /\ Agrees
    /\ IF object = << >> THEN Empty ELSE Fitted

IdlInv ==
    /\ Basics
    /\ phase \in {"idl", "broken", "built"} => Blank
    /\ phase = "writing" => Unread /\ Writing
    /\ phase = "sent" => Unread
    /\ phase \in {"sent", "reading", "read", "rejected"} => Received

-----------------------------------------------------------------------------
(* IdlCodec: the members and their bytes *)

\* The fields of a class that is accepted are members to be visited, and there is one.
LEMMA MembersType ==
  ASSUME NEW t \in DOMAIN Types, Accepted(t), NEW inner \in BOOLEAN
  PROVE  /\ Members(t, inner) \in Seq(Item) /\ Members(t, inner) # << >>
         /\ \A k \in 1 .. Len(Members(t, inner)) :
              Members(t, inner)[k].inner = inner /\ Members(t, inner)[k].type # PushBack
<1> DEFINE fs == Types[t]
           M == Members(t, inner)
           Field == [name : STRING, type : STRING, len : STRING, elem : STRING]
<1>1. fs \in Seq(Field) /\ fs # << >> /\ Len(fs) \in Nat \ {0} /\ DOMAIN fs = 1 .. Len(fs)
  BY IdlAssumption DEF IdlAssumption, Accepted
<1>2. ASSUME NEW k \in 1 .. Len(fs)
      PROVE  M[k] \in Item /\ M[k].inner = inner /\ M[k].type # PushBack
  <2> DEFINE f == fs[k]
  <2>1. M[k] = [type |-> f.type, len |-> f.len, elem |-> f.elem,
                captured |-> Captured(t, k), inner |-> inner]
    BY <1>1 DEF Members
  <2>2. f \in Field /\ f \in Range(fs)
    <3> HIDE DEF fs, Field
    <3>1. fs[k] \in Field /\ k \in DOMAIN fs
      BY <1>1
    <3>2. fs[k] \in Range(fs)
      BY <3>1 DEF Range
    <3> QED
      BY <3>1, <3>2
  <2>3. /\ f.type \in Primitive \cup DOMAIN Types \cup {"array"}
        /\ f.type = "array" => f.elem \in Primitive \cup DOMAIN Types
        /\ f.type \in {"array", "string"} => f.len \in LengthTypes
    BY <2>2 DEF Accepted
  <2>4. f.type # PushBack
    BY <2>3, IdlAssumption DEF IdlAssumption, Primitive, Width, PushBack
  <2>5. Captured(t, k) \in BOOLEAN
    BY DEF Captured
  <2> HIDE DEF f, M
  <2>6. M[k] \in [type : STRING \cup {PushBack}, len : STRING, elem : STRING, captured : BOOLEAN, inner : BOOLEAN]
    BY <2>1, <2>2, <2>5
  <2>7. M[k].type = f.type /\ M[k].len = f.len /\ M[k].elem = f.elem /\ M[k].inner = inner
    BY <2>1
  <2> QED
    BY <2>3, <2>4, <2>6, <2>7 DEF Item
<1>3. DOMAIN M = 1 .. Len(fs)
  BY <1>1 DEF Members
<1>4. M = [k \in 1 .. Len(fs) |-> M[k]]
  BY <1>1 DEF Members
<1> HIDE DEF M, fs
<1>5. M \in Seq(Item) /\ Len(M) = Len(fs)
  BY <1>1, <1>2, <1>3, <1>4
<1>6. M # << >>
  BY <1>1, <1>5
<1> QED
  BY <1>2, <1>5, <1>6 DEF M

\* The loop over an array ends with a push_back into what the array stands in.
LEMMA ElementsType ==
  ASSUME NEW m \in Item, m.type = "array", NEW n \in Nat
  PROVE  /\ Elements(m, n) \in Seq(Item) /\ Len(Elements(m, n)) = 2 * n
         /\ n > 0 => Elements(m, n)[2 * n].inner = m.inner
<1> DEFINE E == Elements(m, n)
           e == [m EXCEPT !.type = m.elem, !.inner = TRUE]
           p == [m EXCEPT !.type = PushBack]
<1>1. e \in Item
  <2>1. e \in [type : STRING \cup {PushBack}, len : STRING, elem : STRING, captured : BOOLEAN, inner : BOOLEAN]
    BY DEF Item
  <2>2. e.type = m.elem /\ e.len = m.len /\ e.elem = m.elem
    BY DEF Item
  <2> HIDE DEF e
  <2> QED
    BY <2>1, <2>2 DEF Item
<1>2. p \in Item /\ p.inner = m.inner
  <2>1. p \in [type : STRING \cup {PushBack}, len : STRING, elem : STRING, captured : BOOLEAN, inner : BOOLEAN]
    BY DEF Item
  <2>2. p.type = PushBack /\ p.len = m.len /\ p.elem = m.elem /\ p.inner = m.inner
    BY DEF Item
  <2>3. PushBack \notin {"array", "string"}
    BY DEF PushBack
  <2> HIDE DEF p
  <2> QED
    BY <2>1, <2>2, <2>3 DEF Item
<1>3. E = [k \in 1 .. 2 * n |-> IF k % 2 = 1 THEN e ELSE p]
  BY DEF Elements
<1> HIDE DEF e, p, E
<1>4. 2 * n \in Nat /\ (2 * n) % 2 = 0
  OBVIOUS
<1>5. E \in Seq(Item) /\ Len(E) = 2 * n
  BY <1>1, <1>2, <1>3, <1>4
<1>6. n > 0 => E[2 * n].inner = m.inner
  BY <1>2, <1>3, <1>4
<1> QED
  BY <1>5, <1>6 DEF E

\* What is left stays a list of known members that does not end inside an element.
LEMMA AfterType ==
  ASSUME \A t \in DOMAIN Types : Accepted(t),
         NEW list \in Todo, list # << >>, NEW v, Head(list).type = "array" => v \in Nat
  PROVE  /\ After(list, v) \in Todo
         /\ Head(list).inner => After(list, v) # << >>
         /\ Head(list).type # "array" /\ Head(list).type # PushBack /\ Head(list).type \notin Primitive =>
              After(list, v) # << >> /\ Head(After(list, v)).type # PushBack
<1> DEFINE m == Head(list)
           rest == Tail(list)
           parts == IF m.type = "array" THEN Elements(m, v)
                    ELSE IF IsClass(m.type) THEN Members(m.type, m.inner) ELSE << >>
<1>1. m \in Item /\ m = list[1] /\ rest \in Seq(Item) /\ Len(rest) = Len(list) - 1 /\ Len(list) \in Nat \ {0}
  BY DEF Todo
<1>2. ~ list[Len(list)].inner
  BY DEF Todo
<1>3. rest # << >> => rest[Len(rest)] = list[Len(list)]
  BY <1>1 DEF Todo
<1>4. After(list, v) = parts \o rest
  BY DEF After
<1>5. m.inner \in BOOLEAN /\ (IsClass(m.type) => m.type \in DOMAIN Types)
  BY <1>1 DEF Item, IsClass
<1>6. parts \in Seq(Item) /\ (parts # << >> => parts[Len(parts)].inner = m.inner)
  <2>1. CASE m.type = "array"
    <3>1. v \in Nat /\ parts = Elements(m, v)
      BY <2>1
    <3> HIDE DEF parts, m
    <3>2. parts \in Seq(Item) /\ Len(parts) = 2 * v /\ (v > 0 => parts[2 * v].inner = m.inner)
      BY <1>1, <2>1, <3>1, ElementsType
    <3>3. parts # << >> => v > 0
      BY <3>1, <3>2
    <3> QED
      BY <3>2, <3>3
  <2>2. CASE m.type # "array" /\ IsClass(m.type)
    <3>1. parts = Members(m.type, m.inner)
      BY <2>2
    <3> HIDE DEF parts, m
    <3>2. /\ parts \in Seq(Item) /\ \A k \in 1 .. Len(parts) : parts[k].inner = m.inner
      BY <1>5, <2>2, <3>1, MembersType
    <3> QED
      BY <3>2
  <2>3. CASE m.type # "array" /\ ~ IsClass(m.type)
    BY <2>3
  <2> QED
    BY <2>1, <2>2, <2>3
<1>7. m.type # "array" /\ m.type # PushBack /\ m.type \notin Primitive =>
        parts # << >> /\ Head(parts).type # PushBack
  <2> SUFFICES ASSUME m.type # "array", m.type # PushBack, m.type \notin Primitive
               PROVE  parts # << >> /\ Head(parts).type # PushBack
    OBVIOUS
  <2>1. IsClass(m.type) /\ parts = Members(m.type, m.inner)
    BY DEF IsClass
  <2> HIDE DEF parts, m
  <2>2. /\ parts \in Seq(Item) /\ parts # << >>
        /\ \A k \in 1 .. Len(parts) : parts[k].type # PushBack
    BY <1>5, <2>1, MembersType
  <2> QED
    BY <2>2
<1> HIDE DEF m, rest, parts
<1>8. parts \o rest \in Seq(Item)
  BY <1>1, <1>6
<1>9. parts \o rest # << >> => ~ (parts \o rest)[Len(parts \o rest)].inner
  <2>1. CASE rest # << >>
    <3>1. Len(rest) > 0 /\ Len(parts \o rest) = Len(parts) + Len(rest)
      BY <1>1, <1>6, <2>1
    <3>2. (parts \o rest)[Len(parts \o rest)] = rest[Len(rest)]
      BY <1>1, <1>6, <3>1
    <3> QED
      BY <1>2, <1>3, <2>1, <3>2
  <2>2. CASE rest = << >>
    <3>1. parts \o rest = parts /\ Len(list) = 1
      BY <1>1, <1>6, <2>2
    <3>2. ~ m.inner
      BY <1>1, <1>2, <3>1
    <3> QED
      BY <1>6, <3>1, <3>2
  <2> QED
    BY <2>1, <2>2
<1>10. m.inner => rest # << >>
  BY <1>1, <1>2
<1>11. m.inner => parts \o rest # << >>
  BY <1>1, <1>6, <1>10
<1>12. parts # << >> => parts \o rest # << >> /\ Head(parts \o rest) = Head(parts)
  BY <1>1, <1>6
<1> QED
  BY <1>4, <1>7, <1>8, <1>9, <1>11, <1>12 DEF Todo, m

\* What the writer appends is bytes, as many as the type has.
LEMMA WriteIntType ==
  ASSUME NEW type \in DOMAIN Width, NEW v \in Int
  PROVE  WriteInt(type, v) \in Seq(Byte) /\ Len(WriteInt(type, v)) = Width[type]
<1> DEFINE w == Width[type]
<1>1. w \in Nat
  BY WidthType
<1>2. \A k \in 1 .. w : (v \div Span[w - k]) % Base \in Byte
  <2> SUFFICES ASSUME NEW k \in 1 .. w PROVE (v \div Span[w - k]) % Base \in Byte
    OBVIOUS
  <2>1. Span[w - k] \in Nat \ {0} /\ Base \in Nat \ {0}
    BY <1>1, SpanType, IdlAssumption DEF IdlAssumption
  <2>2. v \div Span[w - k] \in Int
    BY <2>1
  <2> QED
    BY <2>1, <2>2 DEF Byte
<1>3. WriteInt(type, v) = [k \in 1 .. w |-> (v \div Span[w - k]) % Base]
  BY DEF WriteInt
<1> HIDE DEF w
<1> QED
  BY <1>1, <1>2, <1>3 DEF w

\* The primitive types are told apart by their names.
LEMMA Kinds ==
  /\ {"string", "array", "bool"} \cap DOMAIN Width = {}
  /\ "string" # "array" /\ "string" # "bool" /\ "array" # "bool"
  /\ Primitive = DOMAIN Width \cup {"bool", "string"}
BY DEF Width, Primitive

\* The values that are sent are values of their types.
LEMMA SampleType ==
  ASSUME NEW m, NEW v \in SamplesOf(m)
  PROVE  /\ m.type = "string" => v \in Seq(Byte) /\ Len(v) \in Nat
         /\ m.type = "array" => v \in Nat
         /\ m.type = "bool" => v \in BOOLEAN
         /\ m.type \in DOMAIN Width => v \in Values(m.type)
         /\ m.type \notin Primitive \cup {"array"} => v = NoValue
<1>1. m.type = "string" => v \in Seq(Byte)
  BY Kinds, IdlAssumption DEF SamplesOf, IdlAssumption, Byte
<1>2. m.type = "array" => v \in Nat
  BY Kinds, IdlAssumption DEF SamplesOf, IdlAssumption
<1>3. m.type = "bool" => v \in BOOLEAN
  BY Kinds, IdlAssumption DEF SamplesOf, IdlAssumption
<1>4. m.type \in DOMAIN Width => v \in Values(m.type)
  <2>1. m.type \in DOMAIN Width => Samples[m.type] \subseteq Values(m.type)
    BY IdlAssumption DEF IdlAssumption
  <2> QED
    BY <2>1, Kinds DEF SamplesOf
<1>5. m.type \notin Primitive \cup {"array"} => v = NoValue
  BY DEF SamplesOf
<1> QED
  BY <1>1, <1>2, <1>3, <1>4, <1>5

\* The values of a type are integers, and a size that passes its check is one of
\* its length type.
LEMMA ValuesAreInts ==
  ASSUME NEW type \in DOMAIN Width
  PROVE  /\ Values(type) \subseteq Int
         /\ type \notin Signed => Values(type) = 0 .. Span[Width[type]] - 1
BY WidthType, SpanType DEF Values

LEMMA LengthType ==
  ASSUME NEW type \in DOMAIN Width \ Signed, NEW n \in Nat, n < Span[Width[type]]
  PROVE  n \in Values(type)
<1>1. Span[Width[type]] \in Nat
  BY WidthType, SpanType
<1> QED
  BY <1>1, ValuesAreInts

\* Every primitive and every array has bytes on the wire.
LEMMA WrittenType ==
  ASSUME NEW m \in Item, NEW v \in SamplesOf(m)
  PROVE  /\ Written(m, v) \in Seq(Byte)
         /\ Len(Written(m, v)) \in Nat
         /\ m.type \in Primitive \cup {"array"} => Len(Written(m, v)) > 0
<1>1. m.type \in {"array", "string"} => m.len \in DOMAIN Width
  BY WidthType DEF Item
<1>2. CASE m.type = "string"
  <2>1. Written(m, v) = WriteInt(m.len, Len(v)) \o v
    BY <1>2, Kinds DEF Written
  <2>2. v \in Seq(Byte) /\ Len(v) \in Nat
    BY <1>2, SampleType
  <2>3. WriteInt(m.len, Len(v)) \in Seq(Byte) /\ Len(WriteInt(m.len, Len(v))) \in Nat \ {0}
    BY <1>1, <1>2, <2>2, WriteIntType, WidthType
  <2> QED
    BY <2>1, <2>2, <2>3
<1>3. CASE m.type = "array"
  <2>1. Written(m, v) = WriteInt(m.len, v) /\ v \in Int
    BY <1>3, Kinds, SampleType DEF Written
  <2> QED
    BY <1>1, <1>3, <2>1, WriteIntType, WidthType
<1>4. CASE m.type = "bool"
  <2>1. Written(m, v) = WriteInt("u8", IF v THEN 1 ELSE 0) /\ (IF v THEN 1 ELSE 0) \in Int
    BY <1>4, Kinds DEF Written
  <2> QED
    BY <2>1, WriteIntType, WidthType
<1>5. CASE m.type \in DOMAIN Width
  <2>1. Written(m, v) = WriteInt(m.type, v) /\ v \in Int
    BY <1>5, Kinds, SampleType, ValuesAreInts DEF Written
  <2> QED
    BY <1>5, <2>1, WriteIntType, WidthType
<1>6. CASE m.type \notin Primitive \cup {"array"}
  <2>1. Written(m, v) = << >>
    BY <1>6, Kinds DEF Written
  <2> QED
    BY <1>6, <2>1
<1> QED
  BY <1>2, <1>3, <1>4, <1>5, <1>6, Kinds

\* A member is read as it was written, if all of its bytes are there, and not at
\* all otherwise.
LEMMA MemberIsRead ==
  ASSUME NEW m \in Item, NEW v \in SamplesOf(m), Fits(m, v), NEW S, NEW in \in Seq(S),
         NEW pos \in Nat, pos <= Len(in),
         \A k \in 1 .. Len(Written(m, v)) : pos + k <= Len(in) => in[pos + k] = Written(m, v)[k]
  PROVE  IF pos + Len(Written(m, v)) <= Len(in)
         THEN ReadMember(m, in, pos) = Outcome(TRUE, v, pos + Len(Written(m, v)))
         ELSE ~ ReadMember(m, in, pos).ok
<1> DEFINE s == Written(m, v)
<1> Len(in) \in Nat
  OBVIOUS
<1>0. ASSUME NEW type \in DOMAIN Width, pos + Width[type] > Len(in)
      PROVE  ~ ReadInt(type, in, pos).ok /\ ReadInt(type, in, pos) = Outcome(FALSE, NoValue, pos)
  <2>1. Len(in) - pos < Width[type]
    BY <1>0, WidthType
  <2>2. ReadInt(type, in, pos) = Outcome(FALSE, NoValue, pos)
    BY <2>1, ReadIntIs
  <2> QED
    BY <2>2 DEF Outcome
<1>7. \A type, x : Stands(type, x, in, pos) => ReadInt(type, in, pos) = Outcome(TRUE, x, pos + Width[type])
  BY IntIsRead
<1>1. m.type \in {"array", "string"} => m.len \in DOMAIN Width \ Signed
  BY WidthType DEF Item
<1>2. CASE m.type = "string"
  <2> DEFINE w == Width[m.len]
             head == WriteInt(m.len, Len(v))
             n == ReadInt(m.len, in, pos)
  <2>1. s = head \o v /\ ReadMember(m, in, pos) = ReadString(m.len, in, pos)
    BY <1>2, Kinds DEF Written, ReadMember
  <2>2. v \in Seq(Byte) /\ Len(v) \in Nat /\ Len(v) < Span[w]
    BY <1>2, SampleType DEF Fits
  <2>3. head \in Seq(Byte) /\ Len(head) = w /\ w \in Nat \ {0}
    BY <1>1, <1>2, <2>2, WriteIntType, WidthType
  <2> HIDE DEF w, head, s
  <2>4. /\ Len(s) = w + Len(v)
        /\ \A k \in 1 .. w : s[k] = head[k]
        /\ \A k \in 1 .. Len(v) : s[w + k] = v[k]
    <3>1. Len(head \o v) = w + Len(v)
      <4>1. Len(head \o v) = Len(head) + Len(v)
        BY <2>2, <2>3, ConcatProperties, Zenon
      <4> QED
        BY <2>3, <4>1
    <3>2. ASSUME NEW k \in 1 .. w PROVE (head \o v)[k] = head[k]
      BY <2>2, <2>3
    <3>3. ASSUME NEW k \in 1 .. Len(v) PROVE (head \o v)[w + k] = v[k]
      BY <2>2, <2>3
    <3> QED
      BY <2>1, <3>1, <3>2, <3>3
  <2>5. ReadString(m.len, in, pos) =
          IF ~ n.ok \/ Len(in) - n.pos < n.value THEN Outcome(FALSE, NoValue, n.pos)
          ELSE Outcome(TRUE, SubSeq(in, n.pos + 1, n.pos + n.value), n.pos + n.value)
    BY DEF ReadString
  <2>6. CASE pos + w > Len(in)
    <3>1. ~ n.ok
      BY <1>0, <1>1, <1>2, <2>6 DEF w
    <3>2. ~ ReadString(m.len, in, pos).ok
      BY <2>5, <3>1 DEF Outcome
    <3> QED
      <4>1. ~ (pos + Len(s) <= Len(in))
        BY <2>2, <2>3, <2>4, <2>6
      <4> QED
        BY <2>1, <3>2, <4>1 DEF s
  <2>7. CASE pos + w <= Len(in)
    <3>1. \A k \in 1 .. w : in[pos + k] = head[k]
      BY <2>2, <2>3, <2>4, <2>7 DEF s
    <3>2. n = Outcome(TRUE, Len(v), pos + w)
      <4>1. m.len \in DOMAIN Width /\ Len(v) \in Values(m.len)
        BY <1>1, <1>2, <2>2, LengthType DEF w
      <4> QED
        <5>1. Stands(m.len, Len(v), in, pos)
          BY <2>7, <3>1, <4>1 DEF Stands, w, head
        <5> QED
          BY <1>7, <5>1 DEF w
    <3>3. n.ok /\ n.value = Len(v) /\ n.pos = pos + w
      BY <3>2 DEF Outcome
    <3> HIDE DEF n
    <3>4. CASE pos + w + Len(v) <= Len(in)
      <4>1. \A k \in 1 .. Len(v) : in[pos + w + k] = v[k]
        <5> SUFFICES ASSUME NEW k \in 1 .. Len(v) PROVE in[pos + w + k] = v[k]
          OBVIOUS
        <5>1. w + k \in 1 .. Len(s) /\ pos + (w + k) <= Len(in) /\ pos + (w + k) = pos + w + k
          BY <2>2, <2>3, <2>4, <3>4
        <5>2. in[pos + (w + k)] = s[w + k]
          BY <5>1 DEF s
        <5> QED
          BY <2>4, <5>1, <5>2
      <4>2. SubSeq(in, pos + w + 1, pos + w + Len(v)) = v
        <5> DEFINE t == SubSeq(in, pos + w + 1, pos + w + Len(v))
        <5>1. \A k \in pos + w + 1 .. pos + w + Len(v) : in[k] \in S
          BY <2>2, <2>3, <3>4
        <5>2. pos + w + 1 \in Int /\ pos + w + Len(v) \in Int
          BY <2>2, <2>3
        <5>3. /\ t \in Seq(S)
              /\ Len(t) = IF pos + w + 1 <= pos + w + Len(v) THEN (pos + w + Len(v)) - (pos + w + 1) + 1 ELSE 0
              /\ \A k \in 1 .. (pos + w + Len(v)) - (pos + w + 1) + 1 : t[k] = in[(pos + w + 1) + k - 1]
          BY <5>1, <5>2, SubSeqProperties
        <5> HIDE DEF t
        <5>4. Len(t) = Len(v)
          BY <2>2, <2>3, <5>3
        <5>5. ASSUME NEW k \in 1 .. Len(v) PROVE t[k] = v[k]
          <6>1. k \in 1 .. (pos + w + Len(v)) - (pos + w + 1) + 1 /\ (pos + w + 1) + k - 1 = pos + w + k
            BY <2>2, <2>3
          <6> QED
            BY <4>1, <5>3, <6>1
        <5> QED
          <6>1. t = [k \in 1 .. Len(v) |-> t[k]]
            BY <5>3, <5>4
          <6>2. v = [k \in 1 .. Len(v) |-> v[k]]
            BY <2>2
          <6> QED
            BY <5>5, <6>1, <6>2 DEF t
      <4>3. ReadString(m.len, in, pos) = Outcome(TRUE, v, pos + w + Len(v))
        <5>1. ~ (Len(in) - (pos + w) < Len(v))
          BY <2>2, <2>3, <3>4
        <5> QED
          BY <2>5, <3>3, <4>2, <5>1
      <4>4. pos + Len(s) = pos + w + Len(v)
        BY <2>2, <2>3, <2>4
      <4> QED
        BY <2>1, <3>4, <4>3, <4>4 DEF s
    <3>5. CASE pos + w + Len(v) > Len(in)
      <4>1. Len(in) - (pos + w) < Len(v)
        BY <2>2, <2>3, <3>5
      <4>2. ~ ReadString(m.len, in, pos).ok
        BY <2>5, <3>3, <4>1 DEF Outcome
      <4>3. ~ (pos + Len(s) <= Len(in))
        BY <2>2, <2>3, <2>4, <3>5
      <4> QED
        BY <2>1, <4>2, <4>3 DEF s
    <3> QED
      <4>1. pos + w + Len(v) <= Len(in) \/ pos + w + Len(v) > Len(in)
        BY <2>2, <2>3
      <4> QED
        BY <3>4, <3>5, <4>1
  <2>8. pos + w <= Len(in) \/ pos + w > Len(in)
    BY <2>3
  <2> QED
    BY <2>6, <2>7, <2>8
<1>3. CASE m.type = "array"
  <2>1. s = WriteInt(m.len, v) /\ ReadMember(m, in, pos) = ReadInt(m.len, in, pos)
    BY <1>3, Kinds DEF Written, ReadMember
  <2>2. v \in Nat /\ v < Span[Width[m.len]]
    BY <1>3, SampleType DEF Fits
  <2>3. Len(s) = Width[m.len] /\ Width[m.len] \in Nat
    BY <1>1, <1>3, <2>1, <2>2, WriteIntType, WidthType
  <2> HIDE DEF s
  <2>4. CASE pos + Len(s) <= Len(in)
    <3>1. \A k \in 1 .. Width[m.len] : in[pos + k] = WriteInt(m.len, v)[k]
      BY <2>1, <2>3, <2>4 DEF s
    <3> QED
      <4>1. m.len \in DOMAIN Width /\ v \in Values(m.len) /\ pos + Width[m.len] <= Len(in)
        BY <1>1, <1>3, <2>2, <2>3, <2>4, LengthType
      <4>2. ReadInt(m.len, in, pos) = Outcome(TRUE, v, pos + Width[m.len])
        <5>1. Stands(m.len, v, in, pos)
          BY <3>1, <4>1 DEF Stands
        <5> QED
          BY <1>7, <5>1
      <4> QED
        BY <2>1, <2>3, <2>4, <4>2 DEF s
  <2>5. CASE ~ (pos + Len(s) <= Len(in))
    <3>1. m.len \in DOMAIN Width /\ pos + Width[m.len] > Len(in)
      BY <1>1, <1>3, <2>3, <2>5
    <3>2. ~ ReadInt(m.len, in, pos).ok
      BY <1>0, <3>1
    <3> QED
      BY <2>1, <2>5, <3>2 DEF s
  <2> QED
    BY <2>4, <2>5
<1>4. CASE m.type = "bool"
  <2> DEFINE d == IF v THEN 1 ELSE 0
             b == ReadInt("u8", in, pos)
  <2>1. s = WriteInt("u8", d) /\ ReadMember(m, in, pos) = Outcome(b.ok, b.ok /\ b.value # 0, b.pos)
    BY <1>4, Kinds DEF Written, ReadMember, ReadBool
  <2>2. v \in BOOLEAN /\ d \in {0, 1}
    BY <1>4, SampleType
  <2>3. d < Span[Width["u8"]]
    <3>1. Span[Width["u8"]] \in Nat \ {0} /\ Span[Width["u8"]] % 2 = 0
      BY WidthType, SpanType
    <3> QED
      BY <2>2, <3>1
  <2>4. Len(s) = Width["u8"] /\ Width["u8"] \in Nat
    BY <2>1, <2>2, WriteIntType, WidthType
  <2> HIDE DEF s
  <2>5. CASE pos + Len(s) <= Len(in)
    <3>1. \A k \in 1 .. Width["u8"] : in[pos + k] = WriteInt("u8", d)[k]
      BY <2>1, <2>4, <2>5 DEF s
    <3>2. b = Outcome(TRUE, d, pos + Width["u8"])
      <4>1. pos + Width["u8"] <= Len(in)
        BY <2>2, <2>4, <2>5
      <4>2. d \in Nat
        BY <2>2
      <4> HIDE DEF d
      <4>3. d \in Values("u8")
        BY <2>3, <4>2, LengthType, WidthType
      <4> QED
        <5>1. Stands("u8", d, in, pos)
          BY <3>1, <4>1, <4>3, WidthType DEF Stands
        <5> QED
          BY <1>7, <5>1
    <3>3. b.ok = TRUE /\ b.value = d /\ b.pos = pos + Width["u8"]
      BY <3>2 DEF Outcome
    <3>4. (b.ok /\ b.value # 0) = v
      BY <2>2, <3>3
    <3> HIDE DEF b, d
    <3> QED
      BY <2>1, <2>4, <2>5, <3>3, <3>4 DEF s
  <2>6. CASE ~ (pos + Len(s) <= Len(in))
    <3>1. ~ b.ok
      <4>1. pos + Width["u8"] > Len(in)
        BY <2>4, <2>6
      <4> QED
        BY <1>0, <4>1, WidthType
    <3> HIDE DEF b
    <3> QED
      BY <2>1, <2>6, <3>1 DEF Outcome, s
  <2> QED
    BY <2>5, <2>6
<1>5. CASE m.type \in DOMAIN Width
  <2>1. s = WriteInt(m.type, v) /\ ReadMember(m, in, pos) = ReadInt(m.type, in, pos)
    BY <1>5, Kinds DEF Written, ReadMember
  <2>2. v \in Values(m.type) /\ v \in Int
    BY <1>5, SampleType, ValuesAreInts
  <2>3. Len(s) = Width[m.type] /\ Width[m.type] \in Nat
    BY <1>5, <2>1, <2>2, WriteIntType, WidthType
  <2> HIDE DEF s
  <2>4. CASE pos + Len(s) <= Len(in)
    <3>1. \A k \in 1 .. Width[m.type] : in[pos + k] = WriteInt(m.type, v)[k]
      BY <2>1, <2>3, <2>4 DEF s
    <3> QED
      <4>1. m.type \in DOMAIN Width /\ pos + Width[m.type] <= Len(in)
        BY <1>5, <2>3, <2>4
      <4>2. ReadInt(m.type, in, pos) = Outcome(TRUE, v, pos + Width[m.type])
        <5>1. Stands(m.type, v, in, pos)
          BY <2>2, <3>1, <4>1 DEF Stands
        <5> QED
          BY <1>7, <5>1
      <4> QED
        BY <2>1, <2>3, <2>4, <4>2 DEF s
  <2>5. CASE ~ (pos + Len(s) <= Len(in))
    <3>1. m.type \in DOMAIN Width /\ pos + Width[m.type] > Len(in)
      BY <1>5, <2>3, <2>5
    <3>2. ~ ReadInt(m.type, in, pos).ok
      BY <1>0, <3>1
    <3> QED
      BY <2>1, <2>5, <3>2 DEF s
  <2> QED
    BY <2>4, <2>5
<1>6. CASE m.type \notin Primitive \cup {"array"}
  <2>1. Written(m, v) = << >> /\ ReadMember(m, in, pos) = Outcome(TRUE, NoValue, pos)
    BY <1>6, Kinds DEF Written, ReadMember
  <2>2. v = NoValue
    BY <1>6, SampleType
  <2> QED
    BY <2>1, <2>2
<1> QED
  BY <1>2, <1>3, <1>4, <1>5, <1>6, Kinds

-----------------------------------------------------------------------------
(* IdlCodec: the frame *)

\* The frame: a header of six fields before the payload.
LEMMA SixOf ==
  ASSUME NEW S, NEW a \in S, NEW b \in S, NEW c \in S, NEW d \in S, NEW e \in S, NEW f \in S
  PROVE  /\ << a, b, c, d, e, f >> \in Seq(S) /\ Len(<< a, b, c, d, e, f >>) = 6
         /\ << a, b, c, d, e, f >>[2] = b /\ << a, b, c, d, e, f >>[4] = d
OBVIOUS

LEMMA Prefixed ==
  ASSUME NEW S, NEW h \in Seq(S), NEW p \in Seq(S), Len(h) = 6
  PROVE  /\ h \o p \in Seq(S) /\ Len(h \o p) = 6 + Len(p)
         /\ (h \o p)[2] = h[2] /\ (h \o p)[4] = h[4]
         /\ \A k \in 1 .. Len(p) : (h \o p)[6 + k] = p[k]
<1>1. /\ h \o p \in Seq(S) /\ Len(h \o p) = Len(h) + Len(p)
      /\ \A k \in 1 .. Len(h) + Len(p) : (h \o p)[k] = IF k <= Len(h) THEN h[k] ELSE p[k - Len(h)]
  BY ConcatProperties, Zenon
<1> DEFINE c == h \o p
<1> Len(p) \in Nat
  OBVIOUS
<1> HIDE DEF c
<1>2. c[2] = h[2] /\ c[4] = h[4]
  BY <1>1 DEF c
<1>3. ASSUME NEW k \in 1 .. Len(p) PROVE c[6 + k] = p[k]
  BY <1>1 DEF c
<1> QED
  BY <1>1, <1>2, <1>3 DEF c

\* A payload may stand in a datagram.
LEMMA BytesAreSymbols ==
  ASSUME NEW p \in Seq(Byte)
  PROVE  p \in Seq(Symbol) /\ Len(p) \in Nat
<1>1. Byte \subseteq Symbol
  BY IdlAssumption DEF IdlAssumption, Byte, Symbol
<1> QED
  BY <1>1

\* EncodeSomeIp makes a frame DecodeSomeIp takes, and its payload is read back.
LEMMA FrameIs ==
  ASSUME NEW p \in Seq(Byte)
  PROVE  /\ EncodeSomeIp(p) \in Seq(Symbol) /\ Len(EncodeSomeIp(p)) = 6 + Len(p)
         /\ EncodeSomeIp(p)[2] = Len(p) + 8 /\ EncodeSomeIp(p)[4] = 1
         /\ PayloadOf(EncodeSomeIp(p)) = p
         /\ FrameIsValid(EncodeSomeIp(p))
<1> DEFINE E == EncodeSomeIp(p)
           h == << "message_id", Len(p) + 8, "request_id", 1, "type", 0 >>
<1>1. Len(p) \in Nat /\ p \in Seq(Symbol)
  BY BytesAreSymbols
<1>2. h \in Seq(Symbol) /\ Len(h) = 6 /\ h[2] = Len(p) + 8 /\ h[4] = 1
  <2>1. /\ "message_id" \in Symbol /\ "request_id" \in Symbol /\ "type" \in Symbol
        /\ 1 \in Symbol /\ 0 \in Symbol
    <3>1. 1 \in Int /\ 0 \in Int
      OBVIOUS
    <3> QED
      BY <3>1, Zenon DEF Symbol
  <2>2. Len(p) + 8 \in Symbol
    BY <1>1 DEF Symbol
  <2> QED
    BY <2>1, <2>2, SixOf
<1>3. E = h \o p
  BY DEF EncodeSomeIp
<1> HIDE DEF E, h
<1> HIDE DEF Symbol
<1>4. E \in Seq(Symbol) /\ Len(E) = 6 + Len(p) /\ E[2] = Len(p) + 8 /\ E[4] = 1
  BY <1>1, <1>2, <1>3, Prefixed
<1>5. \A k \in 1 .. Len(p) : E[6 + k] = p[k]
  BY <1>1, <1>2, <1>3, Prefixed
<1>6. PayloadOf(E) = p
  <2> DEFINE t == SubSeq(E, 7, 6 + Len(p))
  <2>1. PayloadOf(E) = t
    BY <1>4 DEF PayloadOf, HeaderSize
  <2>2. \A k \in 7 .. 6 + Len(p) : E[k] \in Symbol
    BY <1>1, <1>4
  <2>3. 6 + Len(p) \in Int /\ 7 \in Int
    BY <1>1
  <2>4. /\ t \in Seq(Symbol)
        /\ Len(t) = IF 7 <= 6 + Len(p) THEN (6 + Len(p)) - 7 + 1 ELSE 0
        /\ \A k \in 1 .. (6 + Len(p)) - 7 + 1 : t[k] = E[7 + k - 1]
    BY <2>2, <2>3, SubSeqProperties
  <2> HIDE DEF t
  <2>5. Len(t) = Len(p)
    BY <1>1, <2>4
  <2>6. ASSUME NEW k \in 1 .. Len(p) PROVE t[k] = p[k]
    <3>1. k \in 1 .. (6 + Len(p)) - 7 + 1 /\ 7 + k - 1 = 6 + k
      BY <1>1
    <3> QED
      BY <1>5, <2>4, <3>1
  <2>7. t = p
    BY <1>1, <2>4, <2>5, <2>6
  <2> QED
    BY <2>1, <2>7
<1>7. FrameIsValid(E)
  BY <1>1, <1>4 DEF FrameIsValid, HeaderSize
<1> QED
  BY <1>4, <1>6, <1>7 DEF E

\* A frame that agrees with the one sent as far as both go is valid only if it is
\* that one.
LEMMA ValidIsWhole ==
  ASSUME NEW p \in Seq(Byte), NEW a \in Seq(Symbol), FrameIsValid(a),
         \A k \in 1 .. Len(a) : k <= Len(EncodeSomeIp(p)) => a[k] = EncodeSomeIp(p)[k]
  PROVE  a = EncodeSomeIp(p)
<1> DEFINE E == EncodeSomeIp(p)
<1>1. E \in Seq(Symbol) /\ Len(E) = 6 + Len(p) /\ E[2] = Len(p) + 8 /\ Len(p) \in Nat
  BY FrameIs
<1>2. Len(a) \in Nat /\ Len(a) >= 6 /\ Len(a) = 6 + (a[2] - 8)
  BY DEF FrameIsValid, HeaderSize
<1> HIDE DEF E
<1>3. a[2] = E[2]
  BY <1>1, <1>2 DEF E
<1>4. Len(a) = Len(E)
  BY <1>1, <1>2, <1>3
<1>5. \A k \in 1 .. Len(a) : a[k] = E[k]
  BY <1>2, <1>4 DEF E
<1> QED
  BY <1>1, <1>2, <1>4, <1>5 DEF E

\* What goes out is a datagram, framed or not.
LEMMA DatagramType ==
  ASSUME Basics
  PROVE  Datagram \in Seq(Symbol) /\ Len(Datagram) \in Nat
<1>1. payload \in Seq(Byte) /\ payload \in Seq(Symbol)
  BY BytesAreSymbols DEF Basics
<1>2. EncodeSomeIp(payload) \in Seq(Symbol)
  BY <1>1, FrameIs
<1> QED
  BY <1>1, <1>2 DEF Datagram

\* What deserialize is given agrees with what serialize made, and is it if and
\* only if it is as long.
LEMMA InputIs ==
  ASSUME Basics, arrived \in Seq(Symbol), Agrees, Valid
  PROVE  /\ Input \in Seq(Symbol) /\ Len(Input) \in Nat /\ Len(payload) \in Nat
         /\ \A k \in 1 .. Len(Input) : k <= Len(payload) => Input[k] = payload[k]
         /\ arrived = Datagram <=> Len(Input) = Len(payload)
         /\ Len(arrived) <= Len(Datagram) => Len(Input) <= Len(payload)
<1>1. payload \in Seq(Byte) /\ payload \in Seq(Symbol) /\ framed \in BOOLEAN
  BY BytesAreSymbols DEF Basics
<1>2. CASE framed
  <2>1. FrameIsValid(arrived) /\ Datagram = EncodeSomeIp(payload)
    BY <1>2 DEF Valid, Datagram
  <2>2. arrived = Datagram
    BY <1>1, <2>1, ValidIsWhole DEF Agrees
  <2>3. Input = payload
    BY <1>1, <1>2, <2>1, <2>2, FrameIs DEF Input
  <2> QED
    BY <1>1, <2>2, <2>3
<1>3. CASE ~ framed
  <2>1. Datagram = payload /\ Input = arrived
    BY <1>3 DEF Datagram, Input
  <2>2. Len(arrived) = Len(payload) => arrived = payload
    BY <1>1, <2>1 DEF Agrees
  <2> QED
    BY <1>1, <2>1, <2>2 DEF Agrees
<1> QED
  BY <1>1, <1>2, <1>3

\* An empty object and an empty payload have their types.
LEMMA NothingYet == << >> \in Seq(Visit) /\ << >> \in Seq(Byte)
<1> HIDE DEF Visit, Byte
<1> QED
  OBVIOUS

-----------------------------------------------------------------------------
(* IdlCodec: every action keeps the invariant *)

LEMMA InitKeeps == IdlInit => IdlInv
<1> SUFFICES ASSUME IdlInit PROVE IdlInv
  OBVIOUS
<1>1. Basics
  BY NothingYet DEF IdlInit, Basics
<1>2. Blank
  BY DEF IdlInit, Blank, Unread
<1> QED
  BY <1>1, <1>2 DEF IdlInit, IdlInv

LEMMA BuildKeeps == ASSUME IdlInv, Build PROVE IdlInv'
<1>1. Basics' /\ phase' \in {"built", "broken"}
  BY DEF IdlInv, Build, Basics
<1>2. Blank'
  BY DEF IdlInv, Build, Blank, Unread, reader
<1> QED
  BY <1>1, <1>2 DEF IdlInv

\* Both sides begin with a list that is not empty and ends in the object itself.
LEMMA MembersAreTodo ==
  ASSUME Basics
  PROVE  /\ Members(class, FALSE) \in Todo /\ Members(class, FALSE) # << >>
         /\ Head(Members(class, FALSE)).type # PushBack
<1> DEFINE M == Members(class, FALSE)
<1>1. /\ M \in Seq(Item) /\ M # << >>
      /\ \A k \in 1 .. Len(M) : M[k].inner = FALSE /\ M[k].type # PushBack
  BY MembersType DEF Basics
<1> HIDE DEF M
<1>2. Len(M) \in 1 .. Len(M) /\ 1 \in 1 .. Len(M) /\ Head(M) = M[1]
  BY <1>1
<1>3. M \in Todo
  BY <1>1, <1>2 DEF Todo
<1> QED
  BY <1>1, <1>2, <1>3 DEF M

LEMMA SerializeKeeps == ASSUME IdlInv, Serialize PROVE IdlInv'
<1>1. Basics' /\ phase' = "writing"
  BY DEF IdlInv, Serialize, Basics
<1>2. Unread' /\ object' = << >> /\ payload' = << >> /\ class' = class
  BY DEF IdlInv, Serialize, Blank, Unread, reader
<1>3. todo' = Members(class, FALSE) /\ todo' \in Todo
  BY MembersAreTodo DEF IdlInv, Serialize
<1>4. PICK lists : lists = [j \in 1 .. 1 |-> todo']
  OBVIOUS
<1>5. PICK ends : ends = [j \in 1 .. 1 |-> 0]
  OBVIOUS
<1>6. Steps(lists, ends)'
  <2>1. Len(object') = 0 /\ Len(payload') = 0
    BY <1>2
  <2>2. lists \in [1 .. 1 -> Todo] /\ lists[1] = Members(class, FALSE)
    <3>1. lists \in [1 .. 1 -> Todo]
      BY <1>3, <1>4
    <3>2. lists[1] = Members(class, FALSE)
      BY <1>3, <1>4
    <3> QED
      BY <3>1, <3>2
  <2>3. ends \in [1 .. 1 -> 0 .. 0] /\ ends[1] = 0
    BY <1>5
  <2> QED
    BY <1>2, <2>1, <2>2, <2>3 DEF Steps
<1>7. todo' = lists[Len(object') + 1]
  BY <1>2, <1>4
<1>8. Writing'
  BY <1>6, <1>7 DEF Writing
<1> QED
  BY <1>1, <1>2, <1>8 DEF IdlInv

LEMMA RefuseKeeps == ASSUME IdlInv, Refuse PROVE IdlInv'
<1>1. Basics' /\ phase' = "writing"
  BY DEF IdlInv, Refuse, Basics
<1>2. Unread' /\ Writing'
  BY DEF IdlInv, Refuse, Unread, Writing, reader
<1> QED
  BY <1>1, <1>2 DEF IdlInv

LEMMA ForgetKeeps == ASSUME IdlInv, Forget PROVE IdlInv'
<1>1. Basics' /\ phase' = "built"
  BY NothingYet DEF IdlInv, Forget, Basics
<1>2. Blank'
  BY DEF Forget, Blank, Unread
<1> QED
  BY <1>1, <1>2 DEF IdlInv

\* The writer: what it has yet to visit and where it stands are added to the steps.
LEMMA WriteMemberKeeps == ASSUME IdlInv, WriteMember PROVE IdlInv'
<1> DEFINE n == Len(object)
           m == Head(todo)
<1>1. /\ phase = "writing" /\ todo # << >> /\ Basics /\ Unread /\ Writing
      /\ UNCHANGED << phase, class, framed, arrived, reader >>
  BY DEF IdlInv, WriteMember
<1>2. PICK lists, ends : Steps(lists, ends) /\ todo = lists[n + 1]
  BY <1>1 DEF Writing
<1>3. PICK v \in SamplesOf(m) :
        /\ Fits(m, v)
        /\ object' = Append(object, [member |-> m, value |-> v])
        /\ payload' = payload \o Written(m, v)
        /\ todo' = After(todo, v)
  BY DEF WriteMember
<1> DEFINE s == Written(m, v)
           e == [member |-> m, value |-> v]
<1>4. n \in Nat /\ todo \in Todo /\ m \in Item
  <2>1. n \in Nat
    BY <1>1 DEF Basics
  <2>2. todo \in Todo
    BY <1>2, <2>1 DEF Steps
  <2> QED
    BY <1>1, <2>1, <2>2 DEF Todo
<1>5. s \in Seq(Byte) /\ Len(s) \in Nat /\ payload \in Seq(Byte) /\ Len(payload) \in Nat
  BY <1>1, <1>4, WrittenType DEF Basics
<1>6. e \in Visit
  BY <1>4, Zenon DEF Visit, AnyValue
<1>7. todo' \in Todo
  <2>1. m.type = "array" => v \in Nat
    BY SampleType
  <2> QED
    BY <1>1, <1>3, <1>4, <2>1, AfterType DEF Basics
<1>8. /\ object' \in Seq(Visit) /\ Len(object') = n + 1 /\ object'[n + 1] = e
      /\ \A j \in 1 .. n : object'[j] = object[j]
  <2> HIDE DEF e, Visit
  <2>1. object \in Seq(Visit) /\ object' = Append(object, e)
    BY <1>1, <1>3 DEF Basics, e
  <2> QED
    BY <1>6, <2>1
<1>9. /\ payload' \in Seq(Byte) /\ Len(payload') = Len(payload) + Len(s)
      /\ \A k \in 1 .. Len(payload) : payload'[k] = payload[k]
      /\ \A k \in 1 .. Len(s) : payload'[Len(payload) + k] = s[k]
  <2> HIDE DEF s
  <2>1. payload' = payload \o s
    BY <1>3 DEF s
  <2>2. payload' \in Seq(Byte) /\ Len(payload') = Len(payload) + Len(s)
    BY <1>5, <2>1
  <2>3. ASSUME NEW k \in 1 .. Len(payload) PROVE payload'[k] = payload[k]
    BY <1>5, <2>1
  <2>4. ASSUME NEW k \in 1 .. Len(s) PROVE payload'[Len(payload) + k] = s[k]
    BY <1>5, <2>1
  <2> QED
    BY <2>2, <2>3, <2>4
<1>10. PICK ls : ls = [j \in 1 .. n + 2 |-> IF j = n + 2 THEN todo' ELSE lists[j]]
  OBVIOUS
<1>11. PICK es : es = [j \in 1 .. n + 2 |-> IF j = n + 2 THEN Len(payload') ELSE ends[j]]
  OBVIOUS
<1>12. Steps(ls, es)'
  <2>1. lists \in [1 .. n + 1 -> Todo] /\ ends \in [1 .. n + 1 -> 0 .. Len(payload)]
    BY <1>2 DEF Steps
  <2>2. ls \in [1 .. n + 2 -> Todo]
    BY <1>4, <1>7, <1>10, <2>1
  <2>3. es \in [1 .. n + 2 -> 0 .. Len(payload')]
    BY <1>4, <1>5, <1>9, <1>11, <2>1
  <2>4. ls[1] = Members(class', FALSE) /\ es[1] = 0 /\ es[n + 2] = Len(payload')
    <3>1. lists[1] = Members(class, FALSE) /\ ends[1] = 0 /\ class' = class
      BY <1>1, <1>2 DEF Steps
    <3>2. ls[1] = lists[1] /\ es[1] = ends[1]
      BY <1>4, <1>10, <1>11
    <3>3. es[n + 2] = Len(payload')
      BY <1>4, <1>11
    <3> QED
      BY <3>1, <3>2, <3>3
  <2>5. ASSUME NEW j \in 1 .. n + 1
        PROVE  LET w == object'[j].member
                   x == object'[j].value
                   t == Written(w, x)
               IN  /\ ls[j] # << >> /\ w = Head(ls[j])
                   /\ x \in SamplesOf(w) /\ Fits(w, x)
                   /\ ls[j + 1] = After(ls[j], x)
                   /\ es[j + 1] = es[j] + Len(t)
                   /\ \A k \in 1 .. Len(t) : payload'[es[j] + k] = t[k]
    <3>1. CASE j = n + 1
      <4>1. object'[j].member = m /\ object'[j].value = v
        BY <1>8, <3>1
      <4>2. ls[j] = todo /\ ls[j + 1] = todo' /\ es[j + 1] = Len(payload')
        BY <1>2, <1>4, <1>10, <1>11, <3>1
      <4>3. es[j] = Len(payload)
        BY <1>2, <1>4, <1>11, <3>1 DEF Steps
      <4> HIDE DEF m
      <4> QED
        <5>1. /\ ls[j] # << >> /\ m = Head(ls[j]) /\ v \in SamplesOf(m) /\ Fits(m, v)
              /\ ls[j + 1] = After(ls[j], v)
          BY <1>1, <1>3, <4>2 DEF m
        <5>2. es[j + 1] = es[j] + Len(s) /\ \A k \in 1 .. Len(s) : payload'[es[j] + k] = s[k]
          BY <1>9, <4>2, <4>3
        <5> QED
          BY <4>1, <5>1, <5>2
    <3>2. CASE j # n + 1
      <4>1. j \in 1 .. n /\ j + 1 \in 1 .. n + 1
        BY <1>4, <3>2
      <4>2. object'[j] = object[j] /\ ls[j] = lists[j] /\ ls[j + 1] = lists[j + 1]
        BY <1>4, <1>8, <1>10, <4>1
      <4>3. es[j] = ends[j] /\ es[j + 1] = ends[j + 1]
        BY <1>4, <1>11, <4>1
      <4> DEFINE w == object[j].member
                 x == object[j].value
                 t == Written(w, x)
      <4>4. /\ lists[j] # << >> /\ w = Head(lists[j])
            /\ x \in SamplesOf(w) /\ Fits(w, x)
            /\ lists[j + 1] = After(lists[j], x)
            /\ ends[j + 1] = ends[j] + Len(t)
            /\ \A k \in 1 .. Len(t) : payload[ends[j] + k] = t[k]
        BY <1>2, <4>1 DEF Steps
      <4>5. w \in Item
        <5>1. object[j] \in Visit
          BY <1>1, <4>1 DEF Basics
        <5> QED
          BY <5>1 DEF Visit
      <4>6. Len(t) \in Nat
        BY <4>4, <4>5, WrittenType
      <4>7. ends[j] \in Nat /\ ends[j + 1] <= Len(payload)
        <5>1. j \in 1 .. n + 1
          BY <1>4, <4>1
        <5>2. ends[j] \in 0 .. Len(payload) /\ ends[j + 1] \in 0 .. Len(payload)
          BY <2>1, <4>1, <5>1
        <5> QED
          BY <1>5, <5>2
      <4> HIDE DEF w, x, t
      <4>8. \A k \in 1 .. Len(t) : payload'[ends[j] + k] = t[k]
        <5> SUFFICES ASSUME NEW k \in 1 .. Len(t) PROVE payload'[ends[j] + k] = t[k]
          OBVIOUS
        <5>1. ends[j] + k \in 1 .. Len(payload)
          BY <1>5, <4>4, <4>6, <4>7
        <5> QED
          BY <1>9, <4>4, <5>1
      <4> QED
        BY <4>2, <4>3, <4>4, <4>8 DEF w, x, t
    <3> QED
      BY <3>1, <3>2
  <2> QED
    BY <1>4, <1>8, <2>2, <2>3, <2>4, <2>5 DEF Steps
<1>13. Writing'
  <2>1. todo' = ls[Len(object') + 1]
    BY <1>4, <1>8, <1>10
  <2> QED
    BY <1>12, <2>1 DEF Writing
<1>14. Basics' /\ Unread' /\ phase' = "writing"
  BY <1>1, <1>8, <1>9 DEF Basics, Unread, reader
<1> QED
  BY <1>13, <1>14 DEF IdlInv

\* The wire: a writer with nothing left has written an object, or nothing at all.
LEMMA TransmitKeeps == ASSUME IdlInv, Transmit PROVE IdlInv'
<1>1. /\ phase = "writing" /\ todo = << >> /\ Basics /\ Unread /\ Writing
      /\ UNCHANGED << class, framed, todo, object, payload, reader >>
      /\ phase' = "sent" /\ arrived' = Datagram
  BY DEF IdlInv, Transmit
<1>2. Basics' /\ Unread'
  BY <1>1 DEF Basics, Unread, reader
<1>3. Datagram' = Datagram /\ Datagram \in Seq(Symbol) /\ Len(Datagram) \in Nat
  BY <1>1, DatagramType DEF Datagram
<1>4. arrived' \in Seq(Symbol) /\ Agrees'
  BY <1>1, <1>3 DEF Agrees
<1>5. CASE object = << >>
  <2>1. payload = << >>
    <3> SUFFICES ASSUME NEW lists, NEW ends, Steps(lists, ends), todo = lists[Len(object) + 1] PROVE FALSE
      BY <1>1 DEF Writing
    <3>1. Len(object) + 1 = 1
      BY <1>5
    <3>2. todo = Members(class, FALSE)
      BY <3>1 DEF Steps
    <3> QED
      BY <1>1, <3>2, MembersAreTodo
  <2>2. Empty'
    BY <1>1, <2>1 DEF Empty
  <2> QED
    BY <1>1, <1>2, <1>4, <1>5, <2>2 DEF IdlInv, Received
<1>6. CASE object # << >>
  <2>1. PICK lists, ends : Steps(lists, ends) /\ todo = lists[Len(object) + 1]
    BY <1>1, <1>6 DEF Writing
  <2>2. Steps(lists, ends)' /\ lists[Len(object') + 1] = << >>
    BY <1>1, <2>1 DEF Steps
  <2>3. Taken'
    <3>1. taken' = << >> /\ kept' = 0 /\ Len(object') \in Nat
      BY <1>2 DEF Unread, Basics
    <3>2. taken' \in Seq(Visit) /\ Len(taken') = 0
      BY <3>1, NothingYet
    <3>3. taken' = [k \in 1 .. Len(taken') |-> Stored(object'[k])]
      BY <3>1, <3>2
    <3> QED
      BY <3>1, <3>2, <3>3 DEF Taken, Stored
  <2>4. Fitted'
    BY <1>1, <2>2, <2>3 DEF Fitted
  <2> QED
    BY <1>1, <1>2, <1>4, <1>6, <2>4 DEF IdlInv, Received
<1> QED
  BY <1>5, <1>6

\* What was sent stays in place while it is under way.
LEMMA UnderWay ==
  ASSUME IdlInv, phase = "sent", phase' = "sent",
         UNCHANGED << class, framed, todo, object, payload, reader >>,
         arrived' \in Seq(Symbol), Agrees'
  PROVE  IdlInv'
<1>1. Basics' /\ Unread'
  BY DEF IdlInv, Basics, Unread, reader
<1>2. Empty => Empty'
  BY DEF Empty
<1>3. Fitted => Fitted'
  <2> SUFFICES ASSUME Fitted PROVE Fitted'
    OBVIOUS
  <2>1. Taken'
    BY DEF Fitted, Taken, Stored, reader
  <2>2. PICK lists, ends : Steps(lists, ends) /\ lists[Len(object) + 1] = << >>
    BY DEF Fitted
  <2>3. Steps(lists, ends)' /\ lists[Len(object') + 1] = << >>
    BY <2>2 DEF Steps
  <2> QED
    BY <2>1, <2>3 DEF Fitted
<1> QED
  BY <1>1, <1>2, <1>3 DEF IdlInv, Received

LEMMA CutKeeps == ASSUME IdlInv, Cut PROVE IdlInv'
<1>1. /\ phase = "sent" /\ phase' = "sent" /\ Basics
      /\ UNCHANGED << class, framed, todo, object, payload, reader >>
  BY DEF IdlInv, Cut
<1>2. Datagram' = Datagram /\ arrived = Datagram /\ arrived \in Seq(Symbol)
  BY <1>1 DEF Cut, Datagram, IdlInv, Received
<1>3. PICK n \in 0 .. Len(arrived) - 1 : arrived' = SubSeq(arrived, 1, n)
  BY DEF Cut
<1>4. /\ arrived' \in Seq(Symbol) /\ Len(arrived') = n
      /\ \A k \in 1 .. n : arrived'[k] = arrived[k]
  <2> HIDE DEF Symbol
  <2>1. n \in Nat /\ Len(arrived) \in Nat /\ n <= Len(arrived)
    BY <1>2
  <2> QED
    BY <1>2, <1>3, <2>1
<1>5. Agrees'
  BY <1>2, <1>4 DEF Agrees
<1> QED
  BY <1>1, <1>4, <1>5, UnderWay

LEMMA ExtendKeeps == ASSUME IdlInv, Extend PROVE IdlInv'
<1>1. /\ phase = "sent" /\ phase' = "sent" /\ Basics
      /\ UNCHANGED << class, framed, todo, object, payload, reader >>
  BY DEF IdlInv, Extend
<1>2. Datagram' = Datagram /\ arrived = Datagram /\ arrived \in Seq(Symbol) /\ Len(arrived) \in Nat
  BY <1>1 DEF Extend, Datagram, IdlInv, Received
<1>3. PICK x \in Surplus : arrived' = arrived \o x
  BY DEF Extend
<1>4. x \in Seq(Symbol) /\ Len(x) \in Nat
  BY BytesAreSymbols, IdlAssumption DEF IdlAssumption, Byte
<1> HIDE DEF Symbol
<1>5. arrived' \in Seq(Symbol) /\ Len(arrived') = Len(arrived) + Len(x)
  BY <1>2, <1>3, <1>4
<1>6. \A k \in 1 .. Len(arrived) : arrived'[k] = arrived[k]
  BY <1>2, <1>3, <1>4
<1>7. Agrees'
  BY <1>2, <1>4, <1>5, <1>6 DEF Agrees
<1> QED
  BY <1>1, <1>5, <1>7, UnderWay

\* The reader: a frame that is not whole is turned away, else it begins as the
\* writer did.
LEMMA DeserializeKeeps == ASSUME IdlInv, Deserialize PROVE IdlInv'
<1>1. /\ phase = "sent" /\ Basics /\ Unread /\ Received
      /\ UNCHANGED << class, framed, object, payload, arrived, reader >>
  BY DEF IdlInv, Deserialize
<1>2. Basics' /\ Unread' /\ phase' \in {"reading", "rejected"}
  BY <1>1 DEF Basics, Unread, reader, Deserialize
<1>3. Datagram' = Datagram /\ Input' = Input /\ Agrees' /\ arrived' \in Seq(Symbol)
  BY <1>1 DEF Datagram, Input, Received, Agrees
<1>4. phase' = "reading" => Valid' /\ todo' = Members(class, FALSE)
  <2> SUFFICES ASSUME phase' = "reading" PROVE Valid' /\ todo' = Members(class, FALSE)
    OBVIOUS
  <2>1. ~ (framed /\ ~ FrameIsValid(arrived)) /\ todo' = Members(class, FALSE)
    BY DEF Deserialize
  <2>2. framed' = framed /\ arrived' = arrived
    BY <1>1
  <2>3. framed => FrameIsValid(arrived)
    BY <2>1
  <2>4. framed' => FrameIsValid(arrived')
    BY <2>2, <2>3
  <2> QED
    BY <2>1, <2>4 DEF Valid
<1>5. Empty => Empty'
  BY <1>1, <1>2, <1>3, <1>4, MembersAreTodo DEF Empty, Unread
<1>6. Fitted => Fitted'
  <2> SUFFICES ASSUME Fitted PROVE Fitted'
    OBVIOUS
  <2>1. Taken'
    BY <1>1 DEF Fitted, Taken, Stored, reader
  <2>2. PICK lists, ends : Steps(lists, ends) /\ lists[Len(object) + 1] = << >>
    BY DEF Fitted
  <2>3. Steps(lists, ends)' /\ lists[Len(object') + 1] = << >>
    BY <1>1, <2>2 DEF Steps
  <2>4. ASSUME phase' = "reading" PROVE Follows(lists, ends)'
    <3>1. Valid' /\ Valid /\ todo' = lists[1] /\ ends[1] = 0
      BY <1>1, <1>4, <2>2, <2>4 DEF Steps, Valid
    <3>2. Len(taken') = 0 /\ position' = 0 /\ kept' = 0
      BY <1>2 DEF Unread
    <3>3. Len(Input) \in Nat
      BY <1>1, <3>1, InputIs DEF Received
    <3> QED
      BY <1>3, <3>1, <3>2, <3>3 DEF Follows
  <2>5. ASSUME phase' = "rejected" PROVE arrived' # Datagram'
    <3>1. framed /\ ~ FrameIsValid(arrived)
      BY <2>5 DEF Deserialize
    <3>2. FrameIsValid(Datagram)
      BY <1>1, <3>1, FrameIs DEF Basics, Datagram
    <3> QED
      BY <1>1, <1>3, <3>1, <3>2
  <2>6. phase' # "read"
    BY <1>2
  <2> QED
    BY <2>1, <2>3, <2>4, <2>5, <2>6 DEF Fitted
<1> QED
  BY <1>1, <1>2, <1>3, <1>5, <1>6 DEF IdlInv, Received

\* The member the reader comes to next is the one the writer wrote there, and is
\* read if and only if all of it has arrived.
LEMMA NextIsRead ==
  ASSUME Basics, Received, Taken, todo # << >>, NEW lists, NEW ends,
         Steps(lists, ends), lists[Len(object) + 1] = << >>, Follows(lists, ends),
         NEW j, j = Len(taken) + 1
  PROVE  /\ j \in 1 .. Len(object) /\ todo \in Todo /\ Head(todo) \in Item
         /\ object[j] = [member |-> Head(todo), value |-> object[j].value]
         /\ object[j].value \in SamplesOf(Head(todo))
         /\ lists[j + 1] = After(todo, object[j].value)
         /\ ends[j + 1] \in 0 .. Len(payload)
         /\ IF ends[j + 1] <= Len(Input)
            THEN ReadMember(Head(todo), Input, position) = Outcome(TRUE, object[j].value, ends[j + 1])
            ELSE ~ ReadMember(Head(todo), Input, position).ok
<1> DEFINE m == object[j].member
           v == object[j].value
           s == Written(m, v)
<1>1. j \in 1 .. Len(object) /\ j + 1 \in 1 .. Len(object) + 1 /\ j \in 1 .. Len(object) + 1
  <2>1. Len(taken) \in Nat /\ Len(object) \in Nat /\ Len(taken) <= Len(object)
    BY DEF Taken, Basics
  <2>2. Len(taken) # Len(object)
    BY DEF Follows
  <2> QED
    BY <2>1, <2>2
<1>2. todo = lists[j] /\ position = ends[j] /\ position <= Len(Input) /\ Valid
  BY DEF Follows
<1>3. /\ m = Head(todo) /\ v \in SamplesOf(m) /\ Fits(m, v)
      /\ lists[j + 1] = After(todo, v)
      /\ ends[j + 1] = position + Len(s)
      /\ \A k \in 1 .. Len(s) : payload[position + k] = s[k]
  BY <1>1, <1>2 DEF Steps
<1>4. ends[j] \in 0 .. Len(payload) /\ ends[j + 1] \in 0 .. Len(payload) /\ todo \in Todo
  BY <1>1, <1>2 DEF Steps
<1>5. object[j] = [member |-> m, value |-> v] /\ m \in Item
  <2>1. object[j] \in Visit
    BY <1>1 DEF Basics
  <2> QED
    BY <2>1 DEF Visit
<1>6. /\ Input \in Seq(Symbol) /\ Len(Input) \in Nat /\ Len(payload) \in Nat
      /\ \A k \in 1 .. Len(Input) : k <= Len(payload) => Input[k] = payload[k]
  BY <1>2, InputIs DEF Received
<1>7. Len(s) \in Nat /\ position \in Nat
  BY <1>2, <1>3, <1>4, <1>5, <1>6, WrittenType
<1> HIDE DEF m, v, s, Symbol
<1>8. \A k \in 1 .. Len(s) : position + k <= Len(Input) => Input[position + k] = s[k]
  <2> SUFFICES ASSUME NEW k \in 1 .. Len(s), position + k <= Len(Input)
               PROVE  Input[position + k] = s[k]
    OBVIOUS
  <2>1. position + k \in 1 .. Len(Input) /\ position + k <= Len(payload)
    BY <1>3, <1>4, <1>6, <1>7
  <2> QED
    BY <1>3, <1>6, <2>1
<1>9. IF position + Len(s) <= Len(Input)
      THEN ReadMember(m, Input, position) = Outcome(TRUE, v, position + Len(s))
      ELSE ~ ReadMember(m, Input, position).ok
  <2>1. /\ m \in Item /\ v \in SamplesOf(m) /\ Fits(m, v) /\ Input \in Seq(Symbol)
        /\ position \in Nat /\ position <= Len(Input)
    BY <1>2, <1>3, <1>5, <1>6, <1>7
  <2>2. \A k \in 1 .. Len(Written(m, v)) : position + k <= Len(Input) => Input[position + k] = Written(m, v)[k]
    BY <1>8 DEF s
  <2> QED
    BY <2>1, <2>2, MemberIsRead, Zenon DEF s
<1> QED
  BY <1>1, <1>3, <1>4, <1>5, <1>9 DEF m, v

\* Of nothing only the members without bytes are read.
LEMMA NothingToRead ==
  ASSUME NEW m \in Item, NEW in, Len(in) = 0, ReadMember(m, in, 0).ok
  PROVE  /\ m.type \notin Primitive \cup {"array"}
         /\ ReadMember(m, in, 0) = Outcome(TRUE, NoValue, 0)
<1>1. ASSUME NEW type \in DOMAIN Width
      PROVE  ~ ReadInt(type, in, 0).ok
  <2>1. Len(in) - 0 < Width[type]
    BY WidthType
  <2> QED
    BY <2>1, ReadIntIs DEF Outcome
<1>2. m.type \in {"array", "string"} => m.len \in DOMAIN Width
  BY WidthType DEF Item
<1>3. m.type # "array"
  BY <1>1, <1>2, Kinds DEF ReadMember
<1>4. m.type # "string"
  BY <1>1, <1>2, Kinds DEF ReadMember, ReadString, Outcome
<1>5. m.type # "bool"
  BY <1>1, WidthType, Kinds DEF ReadMember, ReadBool, Outcome
<1>6. m.type \notin DOMAIN Width
  BY <1>1, Kinds DEF ReadMember
<1> QED
  BY <1>3, <1>4, <1>5, <1>6, Kinds DEF ReadMember

\* What is taken is what the writer wrote there; an element is kept only once it is
\* pushed, and the loop it stands in is then not yet over.
LEMMA TakeMemberKeeps == ASSUME IdlInv, TakeMember PROVE IdlInv'
<1> DEFINE m == Head(todo)
           r == ReadMember(m, Input, position)
<1>1. /\ phase = "reading" /\ todo # << >> /\ Basics /\ Received
      /\ UNCHANGED << phase, class, framed, object, payload, arrived >>
  BY DEF IdlInv, TakeMember
<1>2. /\ r.ok /\ position' = r.pos /\ todo' = After(todo, r.value)
      /\ taken' = Append(taken, [member |-> m, value |-> IF m.captured THEN NoValue ELSE r.value])
      /\ kept' = IF m.inner THEN kept ELSE Len(taken) + 1
  BY DEF TakeMember, KeptWith
<1> HIDE DEF r
<1>3. Basics'
  BY <1>1 DEF Basics
<1>4. Datagram' = Datagram /\ Input' = Input /\ Agrees' /\ arrived' \in Seq(Symbol) /\ Valid' = Valid
  BY <1>1 DEF Datagram, Input, Received, Agrees, Valid
<1>5. CASE object = << >>
  <2>1. Empty
    BY <1>1, <1>5 DEF Received
  <2>2. ASSUME Len(arrived) <= Len(Datagram)
        PROVE  /\ position' = 0 /\ todo' \in Todo /\ todo' # << >>
               /\ Head(todo').type # PushBack
    <3>1. Valid /\ position = 0 /\ todo \in Todo /\ todo # << >> /\ m.type # PushBack /\ payload = << >>
      BY <1>1, <2>1, <2>2 DEF Empty
    <3>2. Len(Input) = 0
      BY <1>1, <2>2, <3>1, InputIs DEF Received
    <3>3. m \in Item
      BY <3>1 DEF Todo
    <3>4. m.type \notin Primitive \cup {"array"} /\ r = Outcome(TRUE, NoValue, 0)
      BY <1>2, <3>1, <3>2, <3>3, NothingToRead DEF r
    <3>5. position' = 0 /\ todo' = After(todo, NoValue)
      BY <1>2, <3>4 DEF Outcome
    <3> QED
      BY <1>1, <3>1, <3>4, <3>5, AfterType DEF Basics
  <2>3. Empty'
    BY <1>1, <1>4, <2>1, <2>2 DEF Empty
  <2> QED
    BY <1>1, <1>3, <1>4, <1>5, <2>3 DEF IdlInv, Received
<1>6. CASE object # << >>
  <2> DEFINE j == Len(taken) + 1
             v == object[j].value
  <2>1. Fitted /\ Taken
    BY <1>1, <1>6 DEF Received, Fitted
  <2>2. PICK lists, ends :
          Steps(lists, ends) /\ lists[Len(object) + 1] = << >> /\ Follows(lists, ends)
    BY <1>1, <2>1 DEF Fitted
  <2>3. /\ j \in 1 .. Len(object) /\ todo \in Todo /\ m \in Item
        /\ object[j] = [member |-> m, value |-> v]
        /\ v \in SamplesOf(m)
        /\ lists[j + 1] = After(todo, v)
        /\ ends[j + 1] \in 0 .. Len(payload)
        /\ IF ends[j + 1] <= Len(Input)
           THEN r = Outcome(TRUE, v, ends[j + 1])
           ELSE ~ r.ok
    BY <1>1, <2>1, <2>2, NextIsRead DEF r
  <2>4. /\ ends[j + 1] <= Len(Input) /\ r.value = v /\ r.pos = ends[j + 1]
    BY <1>2, <2>3 DEF Outcome
  <2>5. /\ taken \in Seq(Visit) /\ taken = [k \in 1 .. Len(taken) |-> Stored(object[k])]
        /\ kept \in 0 .. Len(taken) /\ (kept > 0 => ~ object[kept].member.inner)
        /\ Len(taken) \in Nat /\ Len(object) \in Nat
    BY <1>1, <2>1 DEF Taken, Basics
  <2> DEFINE e == [member |-> m, value |-> IF m.captured THEN NoValue ELSE v]
  <2>6. e \in Visit /\ e = Stored(object[j])
    <3>1. e \in Visit
      BY <2>3, Zenon DEF Visit, AnyValue
    <3>2. object[j] = [member |-> m, value |-> v]
      BY <2>3
    <3> HIDE DEF m, v
    <3>3. Stored([member |-> m, value |-> v]) = e
      BY DEF Stored
    <3> QED
      BY <3>1, <3>2, <3>3
  <2> HIDE DEF e, v
  <2>7. taken' = Append(taken, e)
    BY <1>2, <2>4 DEF e
  <2>8. /\ taken' \in Seq(Visit) /\ Len(taken') = j
        /\ \A k \in 1 .. j : taken'[k] = Stored(object[k])
    <3> HIDE DEF Visit
    <3>1. taken' \in Seq(Visit) /\ Len(taken') = j /\ taken'[j] = e
      BY <2>5, <2>6, <2>7
    <3>2. \A k \in 1 .. Len(taken) : taken'[k] = taken[k]
      BY <2>5, <2>6, <2>7
    <3> QED
      BY <2>5, <2>6, <3>1, <3>2
  <2>9. Taken'
    <3>1. object' = object
      BY <1>1
    <3>2. taken' = [k \in 1 .. Len(taken') |-> Stored(object[k])]
      BY <2>5, <2>8
    <3>3. taken' = [k \in 1 .. Len(taken') |-> Stored(object'[k])]
      BY <3>1, <3>2
    <3>4. Len(taken') <= Len(object') /\ taken' \in Seq(Visit)
      BY <2>3, <2>8, <3>1
    <3>5. kept' \in 0 .. Len(taken') /\ (kept' > 0 => ~ object'[kept'].member.inner)
      <4>1. CASE m.inner
        BY <1>2, <2>5, <2>8, <3>1, <4>1
      <4>2. CASE ~ m.inner
        <5>1. kept' = j /\ object[j].member = m
          BY <1>2, <2>3, <4>2
        <5> QED
          BY <2>5, <2>8, <3>1, <4>2, <5>1
      <4> QED
        BY <4>1, <4>2
    <3> QED
      BY <3>3, <3>4, <3>5 DEF Taken, Stored
  <2>10. Follows(lists, ends)'
    <3>1. Valid' /\ todo' = lists[j + 1] /\ position' = ends[j + 1] /\ position' <= Len(Input')
      BY <1>2, <1>4, <2>2, <2>3, <2>4 DEF Follows
    <3>2. kept' = j \/ todo' # << >>
      <4>1. CASE m.inner
        <5>1. m.type = "array" => v \in Nat
          BY <2>3, SampleType
        <5> QED
          BY <1>1, <2>3, <3>1, <4>1, <5>1, AfterType DEF Basics
      <4>2. CASE ~ m.inner
        BY <1>2, <4>2
      <4> QED
        BY <4>1, <4>2
    <3> QED
      BY <2>8, <3>1, <3>2 DEF Follows
  <2>11. Steps(lists, ends)' /\ lists[Len(object') + 1] = << >>
    BY <1>1, <2>2 DEF Steps
  <2>12. Fitted'
    BY <1>1, <2>9, <2>10, <2>11 DEF Fitted
  <2> QED
    BY <1>1, <1>3, <1>4, <1>6, <2>12 DEF IdlInv, Received
<1> QED
  BY <1>5, <1>6

\* A member fails only where bytes are missing, and then the payload is not whole.
LEMMA RejectKeeps == ASSUME IdlInv, Reject PROVE IdlInv'
<1>1. /\ phase = "reading" /\ phase' = "rejected" /\ todo # << >> /\ Basics /\ Received
      /\ UNCHANGED << class, framed, todo, object, payload, arrived, reader >>
      /\ ~ ReadMember(Head(todo), Input, position).ok
  BY DEF IdlInv, Reject
<1>2. Basics' /\ Datagram' = Datagram /\ Agrees' /\ arrived' \in Seq(Symbol)
  BY <1>1 DEF Basics, Datagram, Received, Agrees
<1>3. Empty => Empty'
  BY <1>1, <1>2 DEF Empty
<1>4. ASSUME Fitted PROVE Fitted'
  <2>1. Taken /\ Taken'
    BY <1>1, <1>4 DEF Fitted, Taken, Stored, reader
  <2>2. PICK lists, ends :
          Steps(lists, ends) /\ lists[Len(object) + 1] = << >> /\ Follows(lists, ends)
    BY <1>1, <1>4 DEF Fitted
  <2>3. arrived # Datagram
    <3> SUFFICES ASSUME arrived = Datagram PROVE FALSE
      OBVIOUS
    <3> DEFINE j == Len(taken) + 1
    <3>1. /\ ends[j + 1] \in 0 .. Len(payload)
          /\ IF ends[j + 1] <= Len(Input)
             THEN ReadMember(Head(todo), Input, position) = Outcome(TRUE, object[j].value, ends[j + 1])
             ELSE ~ ReadMember(Head(todo), Input, position).ok
      BY <1>1, <2>1, <2>2, NextIsRead
    <3>2. Len(Input) = Len(payload) /\ Len(payload) \in Nat
      BY <1>1, <2>2, InputIs DEF Received, Follows
    <3> HIDE DEF j
    <3>3. ends[j + 1] <= Len(Input)
      BY <3>1, <3>2
    <3> QED
      BY <1>1, <3>1, <3>3 DEF Outcome
  <2>4. Steps(lists, ends)' /\ lists[Len(object') + 1] = << >>
    BY <1>1, <2>2 DEF Steps
  <2> QED
    BY <1>1, <1>2, <2>1, <2>3, <2>4 DEF Fitted
<1> QED
  BY <1>1, <1>2, <1>3, <1>4 DEF IdlInv, Received

\* With nothing left the reader has visited all the writer had, and the bytes it
\* used are all the writer wrote.
LEMMA ConcludeKeeps == ASSUME IdlInv, Conclude PROVE IdlInv'
<1>1. /\ phase = "reading" /\ todo = << >> /\ Basics /\ Received
      /\ phase' = IF position = Len(Input) THEN "read" ELSE "rejected"
      /\ UNCHANGED << class, framed, todo, object, payload, arrived, reader >>
  BY DEF IdlInv, Conclude
<1>2. Basics' /\ Datagram' = Datagram /\ Agrees' /\ arrived' \in Seq(Symbol)
  BY <1>1 DEF Basics, Datagram, Received, Agrees
<1>3. Empty => Empty'
  BY <1>1, <1>2 DEF Empty
<1>4. ASSUME Fitted PROVE Fitted'
  <2>1. Taken /\ Taken'
    BY <1>1, <1>4 DEF Fitted, Taken, Stored, reader
  <2>2. PICK lists, ends :
          Steps(lists, ends) /\ lists[Len(object) + 1] = << >> /\ Follows(lists, ends)
    BY <1>1, <1>4 DEF Fitted
  <2> DEFINE m == Len(taken)
  <2>3. m = Len(object) /\ kept = m
    <3>1. m \in Nat /\ Len(object) \in Nat /\ m <= Len(object)
      BY <1>1, <2>1 DEF Taken, Basics
    <3>2. lists[m + 1] = << >> /\ kept = m
      BY <1>1, <2>2 DEF Follows
    <3>3. ~ (m + 1 \in 1 .. Len(object))
      BY <2>2, <3>2 DEF Steps
    <3> QED
      BY <3>1, <3>2, <3>3
  <2>4. position = Len(payload)
    BY <2>2, <2>3 DEF Follows, Steps
  <2>5. arrived = Datagram <=> position = Len(Input)
    BY <1>1, <2>2, <2>4, InputIs DEF Received, Follows
  <2>6. Steps(lists, ends)' /\ lists[Len(object') + 1] = << >>
    BY <1>1, <2>2 DEF Steps
  <2>7. phase' = "read" => arrived' = Datagram' /\ kept' = Len(object')
    BY <1>1, <1>2, <2>3, <2>5 DEF reader
  <2>8. phase' = "rejected" => arrived' # Datagram'
    BY <1>1, <1>2, <2>5
  <2> QED
    BY <1>1, <2>1, <2>6, <2>7, <2>8 DEF Fitted
<1> QED
  BY <1>1, <1>2, <1>3, <1>4 DEF IdlInv, Received

LEMMA StutterKeeps == ASSUME IdlInv, UNCHANGED idl PROVE IdlInv'
<1>1. /\ Basics' /\ (Blank => Blank') /\ (Unread => Unread')
      /\ Datagram' = Datagram /\ Input' = Input /\ (Agrees => Agrees')
  BY DEF IdlInv, Basics, Blank, Unread, Datagram, Input, Agrees, idl, reader
<1>2. \A lists, ends : (Steps(lists, ends) => Steps(lists, ends)') /\ (Follows(lists, ends) => Follows(lists, ends)')
  <2>1. UNCHANGED << class, framed, todo, object, payload, arrived, position, taken, kept >>
    BY DEF idl, reader
  <2>2. ASSUME NEW lists, NEW ends, Steps(lists, ends) PROVE Steps(lists, ends)'
    BY <2>1, <2>2 DEF Steps
  <2>3. ASSUME NEW lists, NEW ends, Follows(lists, ends) PROVE Follows(lists, ends)'
    BY <1>1, <2>1, <2>3 DEF Follows, Valid
  <2> QED
    BY <2>2, <2>3
<1>3. Writing => Writing'
  <2>1. object' = object /\ payload' = payload /\ todo' = todo
    BY DEF idl
  <2> QED
    BY <1>2, <2>1 DEF Writing
<1>4. Fitted => Fitted'
  <2>1. Taken => Taken'
    BY DEF Taken, Stored, idl, reader
  <2>2. object' = object /\ phase' = phase /\ arrived' = arrived /\ kept' = kept
    BY DEF idl, reader
  <2> QED
    BY <1>1, <1>2, <2>1, <2>2 DEF Fitted
<1>5. Empty => Empty'
  BY <1>1 DEF Empty, Valid, idl, reader
<1>6. Received => Received'
  BY <1>1, <1>4, <1>5 DEF Received, idl
<1>7. phase' = phase
  BY DEF idl
<1> QED
  BY <1>1, <1>3, <1>6, <1>7 DEF IdlInv

\* The writer and the reader of the generated classes stay in step: types, and that
\* the reader has taken the members the writer wrote before the byte it stands at.
THEOREM IdlInvariant == IdlSpec => []IdlInv
<1>1. ASSUME IdlInv, [IdlNext]_idl PROVE IdlInv'
  BY <1>1, BuildKeeps, SerializeKeeps, WriteMemberKeeps, RefuseKeeps, TransmitKeeps, CutKeeps,
     ExtendKeeps, DeserializeKeeps, TakeMemberKeeps, RejectKeeps, ConcludeKeeps, ForgetKeeps,
     StutterKeeps DEF IdlNext
<1> QED
  BY <1>1, InitKeeps, PTL DEF IdlSpec

-----------------------------------------------------------------------------
(* IdlCodec: what is read is what was written *)

\* What the reader's object holds is what was sent, as far as it is kept.
LEMMA HeldIs ==
  ASSUME Basics, Taken
  PROVE  kept <= Len(object) /\ Held = [k \in 1 .. kept |-> Stored(object[k])]
<1>1. /\ kept \in 0 .. Len(taken) /\ Len(taken) \in Nat /\ Len(taken) <= Len(object) /\ Len(object) \in Nat
      /\ taken \in Seq(Visit) /\ \A k \in 1 .. Len(taken) : taken[k] = Stored(object[k])
  BY DEF Taken, Basics
<1> DEFINE t == SubSeq(taken, 1, kept)
<1> HIDE DEF Visit
<1>2. t = [k \in 1 .. kept |-> taken[k]]
  BY <1>1
<1> QED
  BY <1>1, <1>2 DEF Held

\* A payload is read if and only if it has arrived whole and an object was written
\* to it, and then every member stands in the object as it stood in the one sent, but
\* for those a local variable captures.
THEOREM ParametersAreRead == IdlSpec => []SentIsRead
<1>1. ASSUME IdlInv PROVE SentIsRead
  <2> SUFFICES ASSUME Answered, object # << >> \/ Len(arrived) <= Len(Datagram)
               PROVE  /\ phase = "read" <=> arrived = Datagram /\ object # << >>
                      /\ phase = "read" => Held = [k \in DOMAIN object |-> Stored(object[k])]
    BY DEF SentIsRead
  <2>1. phase \in {"read", "rejected"} /\ Basics /\ Received
    BY <1>1 DEF Answered, IdlInv
  <2>2. CASE object = << >>
    BY <2>1, <2>2 DEF Received, Empty
  <2>3. CASE object # << >>
    <3>1. Fitted
      BY <2>1, <2>3 DEF Received
    <3>2. phase = "read" <=> arrived = Datagram
      BY <2>1, <3>1 DEF Fitted
    <3>3. phase = "read" => kept = Len(object)
      BY <3>1 DEF Fitted
    <3>4. DOMAIN object = 1 .. Len(object)
      BY <2>1 DEF Basics
    <3> QED
      BY <2>1, <2>3, <3>1, <3>2, <3>3, <3>4, HeldIs DEF Fitted
  <2> QED
    BY <2>2, <2>3
<1> QED
  BY <1>1, IdlInvariant, PTL

\* Whatever was cut or added, the object the reader is left with holds the first
\* members of the one sent, and no part of an element.
THEOREM NothingIsMadeUp == IdlSpec => []NothingMadeUp
<1>1. ASSUME IdlInv PROVE NothingMadeUp
  <2> SUFFICES ASSUME Answered, object # << >>
               PROVE  /\ kept <= Len(object) /\ Held = [k \in 1 .. kept |-> Stored(object[k])]
                      /\ kept > 0 => ~ object[kept].member.inner
    BY DEF NothingMadeUp
  <2>1. Basics /\ Taken
    BY <1>1 DEF Answered, IdlInv, Received, Fitted
  <2> QED
    BY <2>1, HeldIs DEF Taken
<1> QED
  BY <1>1, IdlInvariant, PTL
=============================================================================
