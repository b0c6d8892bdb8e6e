-------------------------- MODULE SdProtocolProofs --------------------------
(***************************************************************************)
(* What protocol.cpp builds is well typed, what it parses out of its own    *)
(* datagrams is what went in, and what HandlePacket makes of a registry is  *)
(* a registry and an answer, for every value of the constants.              *)
(***************************************************************************)
EXTENDS SdRegistry, FiniteSetTheorems, TLAPS

\* BuildServiceEntry fits its fields: the clamp keeps the TTL in 24 bits.
LEMMA EntryTyped ==
    ASSUME NEW type \in {"find", "offer"}, NEW index \in 0 .. (IndexSpan - 1),
           NEW n \in {0, 1}, NEW s \in Service, NEW i \in InstanceField, NEW ttl \in Nat
    PROVE  BuildServiceEntry(type, index, n, s, i, ttl) \in Entry
BY ProtocolAssumption DEF BuildServiceEntry, Entry

\* BuildIpv4EndpointOption writes an IPv4 address whatever host it is given.
LEMMA OptionTyped ==
    ASSUME NEW d \in ServiceDescriptor
    PROVE  BuildIpv4EndpointOption(d) \in Option
BY ProtocolAssumption DEF BuildIpv4EndpointOption, Option, ServiceDescriptor

\* Of a descriptor that came over the wire the host is an address, the transport
\* UDP.
AsReceived(d) == d.endpoint_host \in Ipv4 /\ d.transport = "udp"

\* An offer entry is read as such a descriptor, option or not.
LEMMA OfferOfTyped ==
    ASSUME NEW payload \in Payload, NEW entry \in Entry
    PROVE  /\ OfferOf(payload, entry) \in ServiceDescriptor
           /\ AsReceived(OfferOf(payload, entry))
<1>1. entry.index < Len(payload.options) => payload.options[entry.index + 1] \in Option
  BY ProtocolAssumption DEF Payload, Entry
<1> QED
  BY <1>1, ProtocolAssumption
  DEF OfferOf, Entry, Option, ServiceDescriptor, InstanceField, AsReceived

\* The first option has an index.
LEMMA ZeroIndex == 0 \in 0 .. (IndexSpan - 1)
BY ProtocolAssumption

\* BuildSdOfferPayload builds a payload, whatever the TTL.
LEMMA OfferPayloadTyped ==
    ASSUME NEW d \in ServiceDescriptor, NEW ttl \in Nat, NEW stop \in BOOLEAN
    PROVE  BuildSdOfferPayload(d, ttl, stop) \in Payload
<1> DEFINE e == BuildServiceEntry("offer", 0, 1, d.service_id, d.instance_id,
                                  IF stop THEN 0 ELSE ttl)
<1>1. e \in Entry
  BY EntryTyped, ZeroIndex DEF ServiceDescriptor
<1>2. << e >> \in Seq(Entry)
  BY <1>1
<1>3. << BuildIpv4EndpointOption(d) >> \in Seq(Option)
  BY OptionTyped
<1> HIDE DEF e
<1>4. BuildSdOfferPayload(d, ttl, stop)
        = [entries |-> << e >>, options |-> << BuildIpv4EndpointOption(d) >>]
  BY DEF BuildSdOfferPayload, e
<1> QED
  BY <1>2, <1>3, <1>4 DEF Payload

\* BuildSdOfferPayloadList builds a payload, however long the list: an index
\* past its 8 bits wraps.
LEMMA OfferListTyped ==
    ASSUME NEW services \in Seq(ServiceDescriptor), NEW ttl \in Nat
    PROVE  BuildSdOfferPayloadList(services, ttl) \in Payload
<1> DEFINE n == Len(services)
           entry(i) == BuildServiceEntry("offer", (i - 1) % IndexSpan, 1,
                           services[i].service_id, services[i].instance_id, ttl)
           es == [i \in 1 .. n |-> entry(i)]
           os == [i \in 1 .. n |-> BuildIpv4EndpointOption(services[i])]
<1>0. n \in Nat
  OBVIOUS
<1>1. ASSUME NEW i \in 1 .. n PROVE entry(i) \in Entry
  <2>1. services[i] \in ServiceDescriptor
    OBVIOUS
  <2>2. (i - 1) % IndexSpan \in 0 .. (IndexSpan - 1)
    BY ProtocolAssumption
  <2> QED
    BY <2>1, <2>2, EntryTyped DEF ServiceDescriptor
<1>2. ASSUME NEW i \in 1 .. n PROVE BuildIpv4EndpointOption(services[i]) \in Option
  <2>1. services[i] \in ServiceDescriptor
    OBVIOUS
  <2> QED BY <2>1, OptionTyped
<1> HIDE DEF n
<1>3. es \in Seq(Entry)
  <2> HIDE DEF entry
  <2> QED BY <1>0, <1>1
<1>4. os \in Seq(Option)
  BY <1>0, <1>2
<1>5. BuildSdOfferPayloadList(services, ttl) = [entries |-> es, options |-> os]
  BY DEF BuildSdOfferPayloadList, n
<1> HIDE DEF es, os
<1> QED
  BY <1>3, <1>4, <1>5 DEF Payload

-----------------------------------------------------------------------------
(* Round trips *)

\* Such a descriptor is read back as it was sent.
LEMMA WireIsIdentity ==
    ASSUME NEW d \in ServiceDescriptor, AsReceived(d)
    PROVE  Wire(d) = d
BY DEF AsReceived, Wire, ServiceDescriptor

\* The payload of one offer is parsed into that offer, by HandlePacket and by
\* the caller that checks the answer.
LEMMA OfferRoundTrip ==
    ASSUME NEW d \in ServiceDescriptor, NEW ttl \in Nat, NEW stop \in BOOLEAN
    PROVE  /\ IsOffer(BuildSdOfferPayload(d, ttl, stop))
           /\ ParseSdOfferFirst(BuildSdOfferPayload(d, ttl, stop)).descriptor = Wire(d)
           /\ ParseSdOfferFirst(BuildSdOfferPayload(d, ttl, stop)).ttl > 0
                <=> ttl > 0 /\ ~ stop
           /\ ParseSdOffers(BuildSdOfferPayload(d, ttl, stop)) = {Wire(d)}
<1> DEFINE p == BuildSdOfferPayload(d, ttl, stop)
           e == BuildServiceEntry("offer", 0, 1, d.service_id, d.instance_id,
                                  IF stop THEN 0 ELSE ttl)
           o == BuildIpv4EndpointOption(d)
<1>1. p = [entries |-> << e >>, options |-> << o >>]
  BY DEF BuildSdOfferPayload
<1>2. /\ e.type = "offer" /\ e.index = 0 /\ e.num_options = 1
      /\ e.service_id = d.service_id /\ e.instance_id = d.instance_id
      /\ e.ttl > 0 <=> ttl > 0 /\ ~ stop
  BY ProtocolAssumption DEF BuildServiceEntry
<1>3. o = [host |-> IF d.endpoint_host \in Ipv4 THEN d.endpoint_host ELSE Loopback,
           port |-> d.endpoint_port]
  BY DEF BuildIpv4EndpointOption
<1> HIDE DEF p, e, o
<1>4. /\ p.entries = << e >> /\ p.options = << o >>
      /\ DOMAIN p.entries = {1} /\ p.entries[1] = e /\ p.entries # << >>
      /\ Len(p.options) = 1 /\ p.options[1] = o
  BY <1>1
<1>5. OfferOf(p, e) = Wire(d)
  BY <1>2, <1>3, <1>4 DEF OfferOf, Wire
<1>6. IsOffer(p) /\ ParseSdOfferFirst(p) = [descriptor |-> Wire(d), ttl |-> e.ttl]
  BY <1>2, <1>4, <1>5 DEF IsOffer, ParseSdOfferFirst
<1>7. ParseSdOffers(p) = {Wire(d)}
  BY <1>2, <1>4, <1>5 DEF ParseSdOffers
<1> QED
  BY <1>2, <1>6, <1>7 DEF p

\* Every service of a list is parsed with its own endpoint while the 8-bit
\* index of an entry can name its option.
LEMMA OfferListRoundTrip ==
    ASSUME NEW services \in Seq(ServiceDescriptor), NEW ttl \in Nat,
           Len(services) <= IndexSpan
    PROVE  ParseSdOffers(BuildSdOfferPayloadList(services, ttl))
              = {Wire(services[i]) : i \in 1 .. Len(services)}
<1> DEFINE n == Len(services)
           p == BuildSdOfferPayloadList(services, ttl)
           entry(i) == BuildServiceEntry("offer", (i - 1) % IndexSpan, 1,
                           services[i].service_id, services[i].instance_id, ttl)
           option(i) == BuildIpv4EndpointOption(services[i])
<1>0. n \in Nat
  OBVIOUS
<1>1. /\ p.entries = [i \in 1 .. n |-> entry(i)]
      /\ p.options = [i \in 1 .. n |-> option(i)]
  BY DEF BuildSdOfferPayloadList
<1>2. ASSUME NEW i \in 1 .. n
      PROVE  /\ entry(i).type = "offer" /\ entry(i).index = i - 1
             /\ entry(i).num_options = 1
             /\ entry(i).service_id = services[i].service_id
             /\ entry(i).instance_id = services[i].instance_id
             /\ option(i).port = services[i].endpoint_port
             /\ option(i).host = Wire(services[i]).endpoint_host
  <2>1. (i - 1) % IndexSpan = i - 1
    BY <1>0, ProtocolAssumption
  <2> QED
    BY <2>1 DEF BuildServiceEntry, BuildIpv4EndpointOption, Wire
<1> HIDE DEF p, entry, option, n
<1>3. DOMAIN p.entries = 1 .. n /\ Len(p.options) = n
  BY <1>0, <1>1
<1>4. ASSUME NEW i \in 1 .. n
      PROVE  OfferOf(p, p.entries[i]) = Wire(services[i])
  <2>1. entry(i).index + 1 = i /\ entry(i).index < n
    BY <1>0, <1>2
  <2>2. p.entries[i] = entry(i) /\ p.options[i] = option(i)
    BY <1>1
  <2>3. OfferOf(p, entry(i)) = Wire(services[i])
    BY <1>2, <1>3, <2>1, <2>2 DEF OfferOf, Wire
  <2> QED
    BY <2>2, <2>3
<1>5. \A i \in 1 .. n : p.entries[i].type = "offer"
  BY <1>1, <1>2
<1>6. ParseSdOffers(p) = {Wire(services[i]) : i \in 1 .. n}
  BY <1>3, <1>4, <1>5 DEF ParseSdOffers
<1> QED
  BY <1>6 DEF p, n

\* A find is parsed into the find that was sent.
LEMMA FindRoundTrip ==
    ASSUME NEW s \in Service, NEW i \in InstanceField \cup {NoInstance}
    PROVE  /\ IsFind(BuildSdFindPayload(s, i))
           /\ ParseSdFindPayload(BuildSdFindPayload(s, i))
                = [service_id |-> s,
                   instance_id |-> IF i = AnyInstance THEN NoInstance ELSE i]
BY ProtocolAssumption
   DEF BuildSdFindPayload, BuildServiceEntry, IsFind, ParseSdFindPayload, InstanceField

-----------------------------------------------------------------------------
(* The registry and the answers *)

\* There are finitely many registry keys.
LEMMA KeyFinite == IsFiniteSet(Key)
<1>1. IsFiniteSet({AnyInstance})
  BY FS_Singleton
<1>2. IsFiniteSet(InstanceField)
  BY <1>1, IdsAssumption, FS_Union DEF InstanceField
<1> QED
  BY <1>2, IdsAssumption, FS_Product DEF Key

\* A request as it is received: an SdPacket whose first entry, if any, parses.
LEMMA FirstEntryTyped ==
    ASSUME NEW req \in SdPacket, req.payload.entries # << >>
    PROVE  req.payload \in Payload /\ req.payload.entries[1] \in Entry
BY DEF SdPacket, Payload

\* What an offer request carries.
LEMMA OfferedTyped ==
    ASSUME NEW req \in SdPacket, IsOffer(req.payload)
    PROVE  /\ Offered(req) \in ServiceDescriptor
           /\ AsReceived(Offered(req))
           /\ ParseSdOfferFirst(req.payload).ttl \in 0 .. TtlMax
           /\ KeyOf(Offered(req)) \in Key
<1>1. req.payload.entries # << >>
  BY DEF IsOffer
<1>2. req.payload \in Payload /\ req.payload.entries[1] \in Entry
  BY <1>1, FirstEntryTyped
<1>3. Offered(req) \in ServiceDescriptor /\ AsReceived(Offered(req))
  BY <1>2, OfferOfTyped DEF Offered, ParseSdOfferFirst
<1>4. KeyOf(Offered(req)) \in Key
  BY <1>3 DEF KeyOf, Key, ServiceDescriptor
<1>5. ParseSdOfferFirst(req.payload).ttl \in 0 .. TtlMax
  BY <1>2 DEF ParseSdOfferFirst, Entry
<1> QED
  BY <1>3, <1>4, <1>5

\* CleanupExpired and an erase keep a registry a registry.
LEMMA RestrictTyped ==
    ASSUME NEW r, IsRegistry(r), NEW K \in SUBSET DOMAIN r
    PROVE  IsRegistry(Restrict(r, K))
BY DEF IsRegistry, Restrict

\* HandlePacket keeps a registry a registry.
LEMMA RegistryAfterTyped ==
    ASSUME NEW r, IsRegistry(r), NEW t \in Nat, NEW req \in SdPacket
    PROVE  IsRegistry(RegistryAfter(r, t, req))
<1> DEFINE key == KeyOf(Offered(req))
           ttl == ParseSdOfferFirst(req.payload).ttl
           entry == [descriptor |-> Offered(req), expires_at |-> t + ttl * Second]
<1>1. CASE IsStopOffer(req)
  <2>1. RegistryAfter(r, t, req) = Restrict(r, DOMAIN r \ {key})
    BY <1>1 DEF RegistryAfter, Put, Lease
  <2> QED
    BY <2>1, RestrictTyped
<1>2. CASE IsOfferRequest(req)
  <2>0. ~ IsStopOffer(req)
    <3>1. IsOffer(req.payload) /\ ttl \in Nat
      BY <1>2, OfferedTyped, ProtocolAssumption DEF IsOfferRequest
    <3> QED
      BY <1>2, <3>1 DEF IsStopOffer, IsOfferRequest
  <2>1. RegistryAfter(r, t, req)
          = [k \in DOMAIN r \cup {key} |-> IF k = key THEN entry ELSE r[k]]
    BY <1>2, <2>0 DEF RegistryAfter, Put, Lease
  <2>2. /\ Offered(req) \in ServiceDescriptor
        /\ ttl \in Nat
        /\ key \in Key
    BY <1>2, OfferedTyped, ProtocolAssumption DEF IsOfferRequest
  <2>3. entry \in RegistryEntry
    BY <2>2, SecondAssumption DEF RegistryEntry
  <2> HIDE DEF entry, key
  <2> QED
    BY <2>1, <2>2, <2>3 DEF IsRegistry
<1>3. CASE ~ IsStopOffer(req) /\ ~ IsOfferRequest(req)
  BY <1>3 DEF RegistryAfter, Put, Lease
<1> QED
  BY <1>1, <1>2, <1>3

\* The services a find matches are finitely many descriptors.
LEMMA MatchesTyped ==
    ASSUME NEW r, IsRegistry(r), NEW s, NEW i
    PROVE  /\ Matches(r, s, i) \in SUBSET ServiceDescriptor
           /\ IsFiniteSet(Matches(r, s, i))
           /\ Cardinality(Matches(r, s, i)) <= Cardinality(Key)
<1> DEFINE K == {k \in DOMAIN r : /\ r[k].descriptor.service_id = s
                                  /\ \/ i = NoInstance
                                     \/ r[k].descriptor.instance_id = i}
           M == Matches(r, s, i)
           f == [k \in K |-> r[k].descriptor]
<1>1. M = {r[k].descriptor : k \in K}
  BY DEF Matches
<1>2. M \in SUBSET ServiceDescriptor
  BY <1>1 DEF IsRegistry, RegistryEntry
<1>3. K \in SUBSET Key
  BY DEF IsRegistry
<1>4. IsFiniteSet(K) /\ Cardinality(K) <= Cardinality(Key)
  BY <1>3, KeyFinite, FS_Subset
<1>5. f \in Surjection(K, M)
  BY <1>1 DEF Surjection
<1>6. IsFiniteSet(M) /\ Cardinality(M) <= Cardinality(K)
  BY <1>4, <1>5, FS_Surjection
<1>7. Cardinality(M) \in Nat /\ Cardinality(K) \in Nat /\ Cardinality(Key) \in Nat
  BY <1>4, <1>6, KeyFinite, FS_CardinalityType
<1> QED
  BY <1>2, <1>4, <1>6, <1>7

\* SetToSeq lists a finite set: every element, none twice.
LEMMA SetToSeqLists ==
    ASSUME NEW S, IsFiniteSet(S)
    PROVE  /\ SetToSeq(S) \in Seq(S)
           /\ Len(SetToSeq(S)) = Cardinality(S)
           /\ \A x \in S : \E i \in 1 .. Cardinality(S) : SetToSeq(S)[i] = x
           /\ \A i, j \in 1 .. Cardinality(S) : SetToSeq(S)[i] = SetToSeq(S)[j] => i = j
<1> DEFINE n == Cardinality(S)
           q == SetToSeq(S)
<1>1. n \in Nat /\ \E f \in [1 .. n -> S] : IsInjective(f)
  <2>1. n \in Nat /\ ExistsBijection(1 .. n, S)
    BY FS_CardinalityType
  <2> QED
    BY <2>1 DEF ExistsBijection, Bijection, Injection
<1>2. q \in [1 .. n -> S] /\ IsInjective(q)
  BY <1>1 DEF SetToSeq
<1>3. q \in Seq(S) /\ Len(q) = n
  BY <1>1, <1>2
<1>4. q \in Injection(1 .. n, S)
  BY <1>2 DEF Injection
<1>5. IsFiniteSet(1 .. n) /\ Cardinality(1 .. n) = n
  BY <1>1, FS_Interval
<1>6. q \in Surjection(1 .. n, S)
  BY <1>4, <1>5, FS_Injection
<1>7. \A i, j \in 1 .. n : q[i] = q[j] => i = j
  BY <1>2 DEF IsInjective
<1> QED
  BY <1>3, <1>6, <1>7 DEF Surjection

\* HandlePacket answers with a packet.
LEMMA AnswerTyped ==
    ASSUME NEW r, IsRegistry(r), NEW req \in SdPacket
    PROVE  EncodePacket(AnswerTo(r, req)) \in SdPacket
<1> DEFINE query == ParseSdFindPayload(req.payload)
           found == Matches(r, query.service_id, query.instance_id)
           offer == ParseSdOfferFirst(req.payload)
           a == AnswerTo(r, req)
           Built(type, payload) ==
              [message_type |-> type, request_id |-> req.request_id, payload |-> payload]
<1>0. req.request_id \in Nat
  BY DEF SdPacket
<1>1. \E type \in {"response", "error"}, payload \in Payload : a = Built(type, payload)
  <2>1. CASE IsFindRequest(req)
    <3>1. SetToSeq(found) \in Seq(ServiceDescriptor)
      <4>1. found \in SUBSET ServiceDescriptor /\ IsFiniteSet(found)
        BY MatchesTyped
      <4>2. SetToSeq(found) \in Seq(found)
        BY <4>1, SetToSeqLists
      <4> HIDE DEF found
      <4> QED
        BY <4>1, <4>2
    <3>2. BuildSdOfferPayloadList(SetToSeq(found), FindTtl) \in Payload
      BY <3>1, OfferListTyped DEF FindTtl
    <3>3. a = Built("response", BuildSdOfferPayloadList(SetToSeq(found), FindTtl))
      BY <2>1 DEF AnswerTo
    <3> QED
      BY <3>2, <3>3
  <2>2. CASE ~ IsFindRequest(req) /\ (IsStopOffer(req) \/ IsOfferRequest(req))
    <3>1. offer.descriptor \in ServiceDescriptor /\ offer.ttl \in Nat
      BY <2>2, OfferedTyped, ProtocolAssumption DEF IsStopOffer, IsOfferRequest, Offered
    <3>2. /\ BuildSdOfferPayload(offer.descriptor, 0, TRUE) \in Payload
          /\ BuildSdOfferPayload(offer.descriptor, offer.ttl, FALSE) \in Payload
      BY <3>1, OfferPayloadTyped
    <3>3. \/ a = Built("response", BuildSdOfferPayload(offer.descriptor, 0, TRUE))
          \/ a = Built("response", BuildSdOfferPayload(offer.descriptor, offer.ttl, FALSE))
      BY <2>2 DEF AnswerTo
    <3> HIDE DEF offer, a
    <3> QED
      BY <3>2, <3>3
  <2>3. CASE ~ IsFindRequest(req) /\ ~ IsStopOffer(req) /\ ~ IsOfferRequest(req)
    <3>1. a = Built("error", NoPayload)
      BY <2>3 DEF AnswerTo
    <3>2. NoPayload \in Payload
      BY DEF NoPayload, Payload
    <3> QED
      BY <3>1, <3>2
  <2> QED
    BY <2>1, <2>2, <2>3
<1> HIDE DEF a
<1>2. a.request_id \in Nat /\ a \in SdPacket
  BY <1>0, <1>1 DEF SdPacket
<1>3. a.request_id % IdSpan \in Nat
  BY <1>2, ProtocolAssumption
<1> QED
  BY <1>2, <1>3 DEF EncodePacket, SdPacket, a
=============================================================================
