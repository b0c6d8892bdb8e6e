------------------------- MODULE SdDiscoveryProofs --------------------------
(***************************************************************************)
(* Theorems about DiscoverServices of SdDiscovery, for any number of        *)
(* daemons, registries and calls, as long as no request id comes twice.     *)
(***************************************************************************)
EXTENDS SdDiscovery, SdProtocolProofs, SequenceTheorems

\* The ids of the caller's finds are told apart in the 16 bits of the header.
FewFinds == MaxFinds < IdSpan

\* An answer that fits the caller's buffer has no more services than the 8-bit
\* index of an entry can name options.
IndexesSuffice == Buffer <= 28 + 29 * IndexSpan

\* The instance a daemon matches for a query.
Wanted(q) == IF q.instance_id = AnyInstance THEN NoInstance ELSE q.instance_id

FindOf(id, q) ==
    [message_type |-> "request", request_id |-> id,
     payload |-> BuildSdFindPayload(q.service_id, q.instance_id)]

\* A find is for the query of its call.
FindOK(f) ==
    /\ f.daemon \in Daemon
    /\ \E id \in 1 .. request_id, q \in Queries :
          f.packet = FindOf(id, q) /\ (id = request_id => q = query)

\* The services of one registry, no two of one instance.
OneOfEach(S) ==
    /\ S \subseteq ServiceDescriptor /\ IsFiniteSet(S)
    /\ \A d, e \in S : KeyOf(d) = KeyOf(e) => d = e

\* What an answer lists: if it is for this find, whatever its daemon has had
\* since the call began and was asked for, and perhaps more.
Carries(a, S) ==
    /\ a.packet.payload = BuildSdOfferPayloadList(SetToSeq(S), FindTtl)
    /\ a.packet.request_id = request_id =>
          /\ ParseSdOffers(a.packet.payload) \subseteq offered
          /\ collecting => {s \in steady[a.daemon] : Asked(s)} \subseteq S

AnswerOK(a) ==
    /\ a.packet.request_id \in 1 .. request_id
    /\ \E S \in SUBSET ServiceDescriptor : OneOfEach(S) /\ Carries(a, S)

Typed ==
    /\ registry \in [Daemon -> Registries] /\ query \in Queries
    /\ request_id \in 0 .. MaxFinds /\ request_id < IdSpan
    /\ list \in Seq(ServiceDescriptor)
    /\ steady \in [Daemon -> SUBSET ServiceDescriptor]

\* What stayed registered throughout the call is registered now.
StillThere == collecting => \A d \in Daemon : steady[d] \subseteq Services(registry[d])

\* The deadline is Window ticks after the find was sent.
Deadline == left \in Nat /\ waited \in Nat /\ (collecting => waited + left = Window)

Answers == {a \in [daemon : Daemon, packet : SdPacket] : AnswerOK(a)}

OnTheWay ==
    /\ \A f \in finds : FindOK(f)
    /\ answers \subseteq Answers /\ inbox \in Seq(Answers)

IInv == Typed /\ StillThere /\ Deadline /\ OnTheWay /\ ListedIsOffered

\* The list has the services of the answers heard, each once.
Merged == NoDuplicates /\ HeardIsListed /\ heard \subseteq Daemon

-----------------------------------------------------------------------------
(* Answers *)

\* A registry has one service of each instance.
LEMMA MatchesOneOfEach ==
    ASSUME NEW r \in Registries, NEW s, NEW i PROVE OneOfEach(Matches(r, s, i))
<1>1. IsRegistry(r) /\ \A k \in DOMAIN r : KeyOf(r[k].descriptor) = k
  BY DiscoveryAssumption
<1>2. Matches(r, s, i) \in SUBSET ServiceDescriptor /\ IsFiniteSet(Matches(r, s, i))
  BY <1>1, MatchesTyped
<1>3. \A d \in Matches(r, s, i) : \E k \in DOMAIN r : d = r[k].descriptor
  BY DEF Matches
<1>4. \A d, e \in Matches(r, s, i) : KeyOf(d) = KeyOf(e) => d = e
  BY <1>1, <1>3
<1> QED
  BY <1>2, <1>4 DEF OneOfEach

LEMMA ServicesTyped ==
    \A r \in Registries : Services(r) \in SUBSET ServiceDescriptor
BY DiscoveryAssumption DEF Services, IsRegistry, RegistryEntry

\* A daemon matches every service it has that was asked for.
LEMMA MatchesAsked ==
    ASSUME NEW r \in Registries, query \in Queries
    PROVE  {s \in Services(r) : Asked(s)}
             \subseteq Matches(r, query.service_id, Wanted(query))
BY DEF Services, Asked, Matches, Wanted

\* The answer to a find lists what its daemon's registry has for the query.
LEMMA FindAnswered ==
    ASSUME NEW r \in Registries, NEW q \in Queries, NEW id \in Nat, id < IdSpan
    PROVE  LET packet == EncodePacket(AnswerTo(r, FindOf(id, q)))
           IN  /\ packet.request_id = id /\ packet.message_type = "response"
               /\ packet.payload = BuildSdOfferPayloadList(
                     SetToSeq(Matches(r, q.service_id, Wanted(q))), FindTtl)
               /\ packet \in SdPacket
<1> DEFINE req == FindOf(id, q)
           S == Matches(r, q.service_id, Wanted(q))
           p == BuildSdOfferPayloadList(SetToSeq(S), FindTtl)
<1>1. q.service_id \in Service /\ q.instance_id \in InstanceField \cup {NoInstance}
  BY DiscoveryAssumption
<1>2. /\ IsFind(req.payload)
      /\ ParseSdFindPayload(req.payload)
           = [service_id |-> q.service_id, instance_id |-> Wanted(q)]
  BY <1>1, FindRoundTrip DEF FindOf, Wanted
<1>3. IsFindRequest(req) /\ req.request_id = id
  BY <1>2 DEF IsFindRequest, Request, FindOf
<1>4. AnswerTo(r, req) = [message_type |-> "response", request_id |-> id, payload |-> p]
  BY <1>2, <1>3 DEF AnswerTo
<1>5. id % IdSpan = id
  BY ProtocolAssumption
<1>6. p \in Payload
  <2>1. S \in SUBSET ServiceDescriptor /\ IsFiniteSet(S)
    BY MatchesOneOfEach DEF OneOfEach
  <2> HIDE DEF S
  <2>2. SetToSeq(S) \in Seq(ServiceDescriptor)
    <3>1. SetToSeq(S) \in Seq(S)
      BY <2>1, SetToSeqLists
    <3> QED
      BY <2>1, <3>1
  <2> QED
    BY <2>2, OfferListTyped DEF FindTtl
<1> HIDE DEF p
<1>7. EncodePacket(AnswerTo(r, req))
        = [message_type |-> "response", request_id |-> id, payload |-> p]
  BY <1>4, <1>5 DEF EncodePacket
<1>8. [message_type |-> "response", request_id |-> id, payload |-> p] \in SdPacket
  BY <1>6 DEF SdPacket
<1> QED
  BY <1>7, <1>8 DEF p

\* What is read of an answer that fits the buffer: each of its services, no
\* two of them under one key of the list.
LEMMA AnswerRead ==
    ASSUME IndexesSuffice, NEW packet, NEW S, OneOfEach(S),
           packet.payload = BuildSdOfferPayloadList(SetToSeq(S), FindTtl),
           ~ Truncated(packet), packet.message_type # "error"
    PROVE  ParseSdOffers(packet.payload) = {Wire(d) : d \in S}
<1> DEFINE l == SetToSeq(S)
           n == Cardinality(S)
<1>1. /\ l \in Seq(S) /\ Len(l) = n /\ n \in Nat
      /\ \A x \in S : \E i \in 1 .. n : l[i] = x
  BY SetToSeqLists, FS_CardinalityType DEF OneOfEach
<1> HIDE DEF l, n
<1>2. l \in Seq(ServiceDescriptor)
  BY <1>1 DEF OneOfEach
<1>3. Len(packet.payload.entries) = n /\ Len(packet.payload.options) = n
  BY <1>1 DEF BuildSdOfferPayloadList, l
<1>4. n <= IndexSpan
  BY <1>1, <1>3, DiscoveryAssumption, ProtocolAssumption
     DEF Truncated, PacketSize, IndexesSuffice
<1>5. ParseSdOffers(packet.payload) = {Wire(l[i]) : i \in 1 .. n}
  BY <1>1, <1>2, <1>4, OfferListRoundTrip DEF FindTtl, l
<1>6. {Wire(l[i]) : i \in 1 .. n} = {Wire(d) : d \in S}
  BY <1>1
<1> QED
  BY <1>5, <1>6

LEMMA WireKeeps ==
    \A d : KeyOf(Wire(d)) = KeyOf(d) /\ DedupKey(Wire(d)) = DedupKey(d)
BY DEF KeyOf, DedupKey, Wire

LEMMA WireTyped == \A d \in ServiceDescriptor : Wire(d) \in ServiceDescriptor
BY ProtocolAssumption DEF Wire, ServiceDescriptor

\* What is read of any packet is finitely many descriptors.
LEMMA ParsedTyped ==
    ASSUME NEW payload \in Payload
    PROVE  /\ ParseSdOffers(payload) \subseteq ServiceDescriptor
           /\ IsFiniteSet(ParseSdOffers(payload))
<1> DEFINE I == {j \in DOMAIN payload.entries : payload.entries[j].type = "offer"}
           P == ParseSdOffers(payload)
           f == [i \in I |-> OfferOf(payload, payload.entries[i])]
<1>1. P = {OfferOf(payload, payload.entries[i]) : i \in I}
  BY DEF ParseSdOffers
<1>2. I \in SUBSET (1 .. Len(payload.entries)) /\ Len(payload.entries) \in Nat
      /\ \A i \in I : payload.entries[i] \in Entry
  BY DEF Payload
<1>3. IsFiniteSet(I)
  BY <1>2, FS_Interval, FS_Subset
<1>4. \A i \in I : OfferOf(payload, payload.entries[i]) \in ServiceDescriptor
  BY <1>2, OfferOfTyped
<1> HIDE DEF I
<1>5. f \in Surjection(I, P)
  <2> HIDE DEF P
  <2> QED
    BY <1>1 DEF Surjection
<1>6. IsFiniteSet(P)
  BY <1>3, <1>5, FS_Surjection
<1> QED
  BY <1>1, <1>4, <1>6

\* What a list holds.
Members(l) == {l[i] : i \in DOMAIN l}

\* Appending a set to a list adds its elements and, if their keys are new to
\* the list and to each other, repeats no key.
LEMMA Appended ==
    ASSUME NEW l \in Seq(ServiceDescriptor), NEW F \in SUBSET ServiceDescriptor,
           IsFiniteSet(F), NEW m, m = l \o SetToSeq(F)
    PROVE  /\ m \in Seq(ServiceDescriptor)
           /\ Members(m) = Members(l) \cup F
           /\ /\ \A i, j \in DOMAIN l : DedupKey(l[i]) = DedupKey(l[j]) => i = j
              /\ \A d, e \in F : DedupKey(d) = DedupKey(e) => d = e
              /\ \A d \in F, i \in DOMAIN l : DedupKey(l[i]) # DedupKey(d)
              => \A i, j \in DOMAIN m : DedupKey(m[i]) = DedupKey(m[j]) => i = j
<1> DEFINE q == SetToSeq(F)
           n == Cardinality(F)
           k == Len(l)
<1>0. k \in Nat
  OBVIOUS
<1>1. /\ q \in Seq(F) /\ Len(q) = n /\ n \in Nat /\ k \in Nat
      /\ \A x \in F : \E i \in 1 .. n : q[i] = x
      /\ \A i, j \in 1 .. n : q[i] = q[j] => i = j
  <2> HIDE DEF k
  <2> QED
    BY <1>0, SetToSeqLists, FS_CardinalityType, Zenon
<1> HIDE DEF q, n
<1>2. q \in Seq(ServiceDescriptor) /\ \A i \in 1 .. n : q[i] \in F
  BY <1>1
<1>3. m = l \o q
  BY DEF q
<1>4. /\ m \in Seq(ServiceDescriptor) /\ DOMAIN m = 1 .. k + n
      /\ \A i \in 1 .. k + n : m[i] = IF i <= k THEN l[i] ELSE q[i - k]
  <2>1. m \in Seq(ServiceDescriptor) /\ Len(m) = k + n
    <3>1. m \in Seq(ServiceDescriptor)
      BY <1>2, <1>3
    <3>2. Len(m) = Len(l) + Len(q)
      BY <1>2, <1>3
    <3> QED
      BY <1>1, <3>1, <3>2
  <2>2. \A i \in 1 .. k + n : m[i] = IF i <= k THEN l[i] ELSE q[i - k]
    BY <1>1, <1>2, <1>3, ConcatProperties
  <2> QED
    BY <2>1, <2>2
<1>5. Members(m) = Members(l) \cup F
  <2>1. DOMAIN l = 1 .. k
    OBVIOUS
  <2> HIDE DEF k
  <2>2. ASSUME NEW i \in 1 .. k PROVE l[i] \in {m[j] : j \in DOMAIN m}
    <3>1. i \in 1 .. k + n /\ m[i] = l[i]
      BY <1>1, <1>4
    <3> QED
      BY <1>4, <3>1
  <2>3. ASSUME NEW x \in F PROVE x \in {m[j] : j \in DOMAIN m}
    <3>1. PICK i \in 1 .. n : q[i] = x
      BY <1>1
    <3>2. k + i \in 1 .. k + n /\ ~ (k + i <= k) /\ (k + i) - k = i
      BY <1>1
    <3>3. m[k + i] = x
      BY <1>4, <3>1, <3>2
    <3> QED
      BY <1>4, <3>2, <3>3
  <2>4. ASSUME NEW i \in 1 .. k + n PROVE m[i] \in {l[j] : j \in 1 .. k} \cup F
    <3>1. CASE i <= k
      BY <1>1, <1>4, <3>1
    <3>2. CASE ~ (i <= k)
      <4>1. i - k \in 1 .. n
        BY <1>1, <3>2
      <4> QED
        BY <1>2, <1>4, <3>2, <4>1
    <3> QED
      BY <3>1, <3>2
  <2>5. DOMAIN m = 1 .. k + n
    BY <1>4
  <2>6. Members(m) \subseteq Members(l) \cup F
    BY <2>1, <2>4, <2>5 DEF Members
  <2>7. Members(l) \subseteq Members(m)
    BY <2>1, <2>2 DEF Members
  <2>8. F \subseteq Members(m)
    BY <2>3 DEF Members
  <2> QED
    BY <2>6, <2>7, <2>8
<1>6. ASSUME \A i, j \in DOMAIN l : DedupKey(l[i]) = DedupKey(l[j]) => i = j,
             \A d, e \in F : DedupKey(d) = DedupKey(e) => d = e,
             \A d \in F, i \in DOMAIN l : DedupKey(l[i]) # DedupKey(d),
             NEW i \in DOMAIN m, NEW j \in DOMAIN m, DedupKey(m[i]) = DedupKey(m[j])
      PROVE  i = j
  <2>0. DOMAIN l = 1 .. k /\ i \in 1 .. k + n /\ j \in 1 .. k + n
    BY <1>4
  <2> HIDE DEF k
  <2>1. CASE i <= k /\ j <= k
    <3>1. m[i] = l[i] /\ m[j] = l[j] /\ i \in DOMAIN l /\ j \in DOMAIN l
      BY <1>1, <1>4, <2>0, <2>1
    <3> QED
      BY <1>6, <3>1
  <2>2. CASE i <= k /\ ~ (j <= k)
    <3>1. m[i] = l[i] /\ i \in DOMAIN l
      BY <1>1, <1>4, <2>0, <2>2
    <3>2. j - k \in 1 .. n
      BY <1>1, <2>0, <2>2
    <3>3. m[j] = q[j - k]
      BY <1>4, <2>0, <2>2
    <3>4. m[j] \in F
      BY <1>2, <3>2, <3>3
    <3> QED
      BY <1>6, <3>1, <3>4
  <2>3. CASE ~ (i <= k) /\ j <= k
    <3>1. m[j] = l[j] /\ j \in DOMAIN l
      BY <1>1, <1>4, <2>0, <2>3
    <3>2. i - k \in 1 .. n
      BY <1>1, <2>0, <2>3
    <3>3. m[i] = q[i - k]
      BY <1>4, <2>0, <2>3
    <3>4. m[i] \in F
      BY <1>2, <3>2, <3>3
    <3> QED
      BY <1>6, <3>1, <3>4
  <2>4. CASE ~ (i <= k) /\ ~ (j <= k)
    <3>1. i - k \in 1 .. n /\ j - k \in 1 .. n
      BY <1>1, <2>0, <2>4
    <3>2. m[i] = q[i - k] /\ m[j] = q[j - k]
      BY <1>4, <2>0, <2>4
    <3>3. m[i] \in F /\ m[j] \in F
      BY <1>2, <3>1, <3>2
    <3>4. q[i - k] = q[j - k]
      BY <1>6, <3>2, <3>3
    <3>5. i - k = j - k
      BY <1>1, <3>1, <3>4
    <3> QED
      BY <1>1, <2>0, <3>5
  <2> QED
    BY <2>1, <2>2, <2>3, <2>4
<1> QED
  BY <1>4, <1>5, <1>6

-----------------------------------------------------------------------------
(* The inductive step *)

\* An answer on its way stays what it was, a new call makes it an old one.
LEMMA AnswersKept ==
    ASSUME IInv,
           \/ /\ request_id' = request_id /\ offered \subseteq offered'
              /\ query' = query
              /\ collecting' =>
                    collecting /\ \A d \in Daemon : steady'[d] \subseteq steady[d]
           \/ request_id' = request_id + 1
    PROVE  Answers \subseteq Answers'
<1> SUFFICES ASSUME NEW a \in Answers PROVE AnswerOK(a)'
  BY DEF Answers
<1>1. /\ a.packet.request_id \in 1 .. request_id /\ request_id \in Nat
      /\ AnswerOK(a)
  BY DEF Answers, AnswerOK, IInv, Typed
<1>2. PICK S \in SUBSET ServiceDescriptor : OneOfEach(S) /\ Carries(a, S)
  BY <1>1 DEF AnswerOK
<1>3. OneOfEach(S)'
  BY <1>2 DEF OneOfEach
<1>4. a.packet.request_id \in 1 .. request_id'
  BY <1>1
<1>5. Carries(a, S)'
  <2>1. a.daemon \in Daemon
    BY DEF Answers
  <2> QED
    BY <1>1, <1>2, <2>1 DEF Carries, Asked
<1> QED
  BY <1>3, <1>4, <1>5 DEF AnswerOK

LEMMA FindsKept ==
    ASSUME IInv, \/ request_id' = request_id /\ query' = query
                 \/ request_id' = request_id + 1
    PROVE  \A f \in finds : FindOK(f)'
<1> SUFFICES ASSUME NEW f \in finds PROVE FindOK(f)'
  OBVIOUS
<1>1. f.daemon \in Daemon /\ request_id \in Nat
  BY DEF IInv, OnTheWay, FindOK, Typed
<1>2. PICK id \in 1 .. request_id, q \in Queries :
         f.packet = FindOf(id, q) /\ (id = request_id => q = query)
  BY DEF IInv, OnTheWay, FindOK
<1>3. id \in 1 .. request_id' /\ (id = request_id' => q = query')
  BY <1>1, <1>2
<1> QED
  BY <1>1, <1>2, <1>3 DEF FindOK, FindOf

\* What stayed registered so far is what every change left.
LEMMA SteadyKept ==
    ASSUME Typed, StillThere, Next
    PROVE  StillThere' /\ steady' \in [Daemon -> SUBSET ServiceDescriptor]
<1>1. CASE \E q \in Queries : DiscoverServices(q)
  <2>1. UNCHANGED registry /\ steady' = [d \in Daemon |-> Services(registry[d])]
    BY <1>1 DEF DiscoverServices
  <2>2. \A d \in Daemon : Services(registry[d]) \in SUBSET ServiceDescriptor
    BY ServicesTyped DEF Typed
  <2> QED
    BY <2>1, <2>2 DEF StillThere
<1>2. ASSUME NEW d \in Daemon, Change(d)
      PROVE  StillThere' /\ steady' \in [Daemon -> SUBSET ServiceDescriptor]
  <2>1. PICK r \in Registries :
           /\ registry' = [registry EXCEPT ![d] = r]
           /\ steady' = IF collecting THEN [steady EXCEPT ![d] = @ \cap Services(r)]
                        ELSE steady
    BY <1>2 DEF Change
  <2>2. collecting' = collecting
    BY <1>2 DEF Change
  <2> QED
    BY <2>1, <2>2 DEF Typed, StillThere
<1>3. CASE Answer \/ Deliver \/ Collect \/ Return \/ Interrupted \/ Tick
  <2>1. UNCHANGED << registry, steady >> /\ (collecting' => collecting)
    BY <1>3 DEF Answer, Deliver, Collect, Return, Interrupted, Tick
  <2> QED
    BY <2>1 DEF Typed, StillThere
<1> QED
  BY <1>1, <1>2, <1>3 DEF Next

\* No datagram moves the deadline.
LEMMA DeadlineKept == ASSUME Deadline, Next PROVE Deadline'
<1>1. CASE \E q \in Queries : DiscoverServices(q)
  BY <1>1, DiscoveryAssumption DEF DiscoverServices, Deadline
<1>2. CASE Collect
  <2>1. left' = left /\ waited' = waited /\ collecting' = collecting
    BY <1>2 DEF Collect, TimeLeft
  <2> QED
    BY <2>1 DEF Deadline
<1>3. CASE Tick
  BY <1>3 DEF Tick, Deadline
<1>4. CASE Interrupted
  BY <1>4 DEF Interrupted, Deadline
<1>5. CASE Answer \/ Deliver \/ Return \/ \E d \in Daemon : Change(d)
  <2>1. left' = left /\ waited' = waited /\ (collecting' => collecting)
    BY <1>5 DEF Answer, Deliver, Return, Change
  <2> QED
    BY <2>1 DEF Deadline
<1> QED
  BY <1>1, <1>2, <1>3, <1>4, <1>5 DEF Next

\* The parts of IInv that are about the daemons and the clock only.
LEMMA Around ==
    ASSUME IInv, Next
    PROVE  StillThere' /\ Deadline' /\ steady' \in [Daemon -> SUBSET ServiceDescriptor]
BY SteadyKept, DeadlineKept DEF IInv

LEMMA InitIInv == FewFinds /\ Init => IInv /\ Merged
<1> SUFFICES ASSUME FewFinds, Init PROVE IInv /\ Merged
  OBVIOUS
<1>1. Typed
  <2>1. \A d \in Daemon : Services(registry[d]) \in SUBSET ServiceDescriptor
    BY ServicesTyped DEF Init
  <2>2. 0 \in 0 .. MaxFinds /\ 0 < IdSpan /\ << >> \in Seq(ServiceDescriptor)
    BY DiscoveryAssumption, ProtocolAssumption
  <2> QED
    BY <2>1, <2>2 DEF Init, Typed
<1>2. OnTheWay
  BY DEF Init, OnTheWay
<1>3. ListedIsOffered /\ NoDuplicates /\ HeardIsListed /\ heard \subseteq Daemon
  BY DEF Init, ListedIsOffered, Listed, NoDuplicates, HeardIsListed
<1>4. StillThere /\ Deadline
  BY DEF Init, StillThere, Deadline
<1> QED
  BY <1>1, <1>2, <1>3, <1>4 DEF IInv, Merged

LEMMA DiscoverStep ==
    ASSUME FewFinds, IInv, NEW q \in Queries, DiscoverServices(q)
    PROVE  IInv' /\ Merged'
<1>1. /\ request_id < MaxFinds /\ request_id' = request_id + 1 /\ query' = q
      /\ inbox' = << >> /\ list' = << >> /\ heard' = {} /\ UNCHANGED << registry, answers >>
  BY DEF DiscoverServices
<1>2. PICK id \in 1 .. MaxFinds : request_id' = id /\ id < IdSpan
  BY <1>1, DiscoveryAssumption, ProtocolAssumption DEF IInv, Typed, FewFinds
<1>0. Next
  BY DEF Next
<1>3. Typed' /\ StillThere' /\ Deadline'
  BY <1>0, <1>1, <1>2, Around DEF IInv, Typed
<1> DEFINE find == FindOf(id, q)
<1>4. finds' = finds \cup {[daemon |-> d, packet |-> EncodePacket(find)] : d \in Daemon}
  BY <1>2 DEF DiscoverServices, FindOf
<1>5. EncodePacket(find) = find
  <2>1. id % IdSpan = id
    BY <1>2, ProtocolAssumption
  <2> QED
    BY <2>1 DEF EncodePacket, FindOf
<1> HIDE DEF find
<1>6. ASSUME NEW d \in Daemon PROVE FindOK([daemon |-> d, packet |-> find])'
  <2>1. id \in 1 .. request_id' /\ query' = q
    BY <1>1, <1>2
  <2> QED
    BY <2>1 DEF FindOK, find
<1>7. \A f \in finds' : FindOK(f)'
  <2>1. \A f \in finds : FindOK(f)'
    BY <1>1, FindsKept
  <2> SUFFICES ASSUME NEW f \in finds' PROVE FindOK(f)'
    OBVIOUS
  <2>2. CASE f \in finds
    BY <2>1, <2>2
  <2>3. CASE f \notin finds
    <3>1. PICK d \in Daemon : f = [daemon |-> d, packet |-> find]
      BY <1>4, <1>5, <2>3
    <3> QED
      BY <1>6, <3>1
  <2> QED
    BY <2>2, <2>3
<1>8. answers' \subseteq Answers' /\ inbox' \in Seq(Answers')
  <2>1. answers \subseteq Answers'
    BY <1>1, AnswersKept DEF IInv, OnTheWay
  <2> QED
    BY <1>1, <2>1
<1>9. ListedIsOffered' /\ NoDuplicates' /\ HeardIsListed' /\ heard' \subseteq Daemon
  BY <1>1 DEF ListedIsOffered, Listed, NoDuplicates, HeardIsListed
<1> QED
  BY <1>3, <1>7, <1>8, <1>9 DEF IInv, OnTheWay, Merged

LEMMA ChangeStep ==
    ASSUME IInv, NEW d \in Daemon, Change(d) PROVE IInv'
<1>1. /\ \E r \in Registries :
            /\ registry' = [registry EXCEPT ![d] = r]
            /\ steady' = IF collecting THEN [steady EXCEPT ![d] = @ \cap Services(r)]
                         ELSE steady
      /\ query' = query /\ collecting' = collecting /\ request_id' = request_id
      /\ finds' = finds /\ answers' = answers /\ inbox' = inbox /\ list' = list
      /\ offered' = offered
  BY DEF Change
<1>0. Next
  BY DEF Next
<1>2. Typed' /\ StillThere' /\ Deadline'
  BY <1>0, <1>1, Around DEF IInv, Typed
<1>7. \A e \in Daemon : steady'[e] \subseteq steady[e]
  BY <1>1 DEF IInv, Typed
<1>3. Answers \subseteq Answers'
  BY <1>1, <1>7, AnswersKept
<1>4. \A f \in finds : FindOK(f)'
  BY <1>1, FindsKept
<1>5. answers' \subseteq Answers' /\ inbox' \in Seq(Answers')
  BY <1>1, <1>3 DEF IInv, OnTheWay
<1>6. ListedIsOffered'
  BY <1>1 DEF IInv, ListedIsOffered, Listed
<1> QED
  BY <1>1, <1>2, <1>4, <1>5, <1>6 DEF IInv, OnTheWay

LEMMA AnswerStep ==
    ASSUME IInv, Answer PROVE IInv'
<1>1. PICK f \in finds :
         /\ finds' = finds \ {f}
         /\ answers' = answers \cup
              {[daemon |-> f.daemon,
                packet |-> EncodePacket(AnswerTo(registry[f.daemon], f.packet))]}
         /\ offered' = IF f.packet.request_id = request_id % IdSpan
                       THEN offered \cup ParseSdOffers(
                              EncodePacket(AnswerTo(registry[f.daemon], f.packet)).payload)
                       ELSE offered
  BY DEF Answer
<1>2. /\ registry' = registry /\ query' = query /\ collecting' = collecting
      /\ request_id' = request_id /\ inbox' = inbox /\ list' = list
      /\ steady' = steady
  BY DEF Answer
<1>0. Next
  BY DEF Next
<1>3. Typed /\ OnTheWay /\ request_id % IdSpan = request_id
  BY ProtocolAssumption DEF IInv, Typed
<1>4. PICK id \in 1 .. request_id, q \in Queries :
         f.packet = FindOf(id, q) /\ (id = request_id => q = query)
  BY <1>3 DEF OnTheWay, FindOK
<1>5. PICK d \in Daemon : d = f.daemon
  BY <1>3 DEF OnTheWay, FindOK
<1>6. PICK r \in Registries : r = registry[d]
  BY <1>3 DEF Typed
<1>7. id \in Nat /\ id < IdSpan
  BY <1>3, ProtocolAssumption DEF Typed
<1>8. PICK packet \in SdPacket :
         /\ packet = EncodePacket(AnswerTo(r, FindOf(id, q)))
         /\ packet.request_id = id
         /\ packet.payload = BuildSdOfferPayloadList(
               SetToSeq(Matches(r, q.service_id, Wanted(q))), FindTtl)
  BY <1>7, FindAnswered
<1>9. PICK S \in SUBSET ServiceDescriptor :
         S = Matches(r, q.service_id, Wanted(q)) /\ OneOfEach(S)
  BY MatchesOneOfEach DEF OneOfEach
<1>10. PICK a \in [daemon : Daemon, packet : SdPacket] :
         a = [daemon |-> d, packet |-> packet]
  OBVIOUS
<1>11. /\ answers' = answers \cup {a}
       /\ offered' = IF id = request_id THEN offered \cup ParseSdOffers(a.packet.payload)
                     ELSE offered
  BY <1>1, <1>3, <1>4, <1>5, <1>6, <1>8, <1>10 DEF FindOf
<1>12. Carries(a, S)'
  <2>1. a.packet.payload = BuildSdOfferPayloadList(SetToSeq(S), FindTtl)
        /\ a.packet.request_id = id
    BY <1>8, <1>9, <1>10
  <2>2. id = request_id => ParseSdOffers(a.packet.payload) \subseteq offered'
    BY <1>11
  <2>3. id = request_id /\ collecting => {s \in steady[a.daemon] : Asked(s)} \subseteq S
    <3>1. SUFFICES ASSUME id = request_id, collecting, NEW s \in steady[d], Asked(s)
                   PROVE  s \in S
      BY <1>10
    <3>2. s \in Services(r)
      BY <1>6, <3>1 DEF IInv, StillThere
    <3> QED
      BY <1>3, <1>4, <1>9, <3>1, <3>2, MatchesAsked DEF Typed
  <2> QED
    BY <1>2, <2>1, <2>2, <2>3 DEF Carries, Asked
<1>13. AnswerOK(a)'
  <2>1. a.packet.request_id \in 1 .. request_id'
    BY <1>2, <1>8, <1>10
  <2>2. OneOfEach(S)'
    BY <1>9 DEF OneOfEach
  <2> QED
    BY <1>12, <2>1, <2>2 DEF AnswerOK
<1>14. Answers \subseteq Answers'
  BY <1>2, <1>11, AnswersKept
<1>15. answers' \subseteq Answers' /\ inbox' \in Seq(Answers')
  <2>1. a \in Answers'
    BY <1>13 DEF Answers
  <2> QED
    BY <1>2, <1>3, <1>11, <1>14, <2>1 DEF OnTheWay
<1>16. \A g \in finds' : FindOK(g)'
  <2>1. \A g \in finds : FindOK(g)'
    BY <1>2, FindsKept
  <2> QED
    BY <1>1, <2>1
<1>17. ListedIsOffered'
  BY <1>2, <1>11 DEF IInv, ListedIsOffered, Listed
<1>18. Typed' /\ StillThere' /\ Deadline'
  BY <1>0, <1>2, <1>3, Around DEF Typed
<1> QED
  BY <1>15, <1>16, <1>17, <1>18 DEF IInv, OnTheWay

LEMMA DeliverStep ==
    ASSUME IInv, Deliver PROVE IInv'
<1>1. PICK a \in answers : inbox' = Append(inbox, a)
  BY DEF Deliver
<1>2. /\ query' = query /\ collecting' = collecting /\ request_id' = request_id
      /\ registry' = registry /\ finds' = finds /\ answers' = answers
      /\ list' = list /\ offered' = offered /\ steady' = steady
  BY DEF Deliver
<1>3. Answers \subseteq Answers'
  BY <1>2, AnswersKept
<1>4. a \in Answers' /\ answers' \subseteq Answers' /\ inbox \in Seq(Answers')
  BY <1>1, <1>2, <1>3 DEF IInv, OnTheWay
<1>5. inbox' \in Seq(Answers')
  BY <1>1, <1>4, AppendProperties
<1>6. \A f \in finds : FindOK(f)'
  BY <1>2, FindsKept
<1>7. Next
  BY DEF Next
<1>8. Typed' /\ StillThere' /\ Deadline'
  BY <1>2, <1>7, Around DEF IInv, Typed
<1>9. ListedIsOffered'
  BY <1>2 DEF IInv, ListedIsOffered, Listed
<1> QED
  BY <1>2, <1>4, <1>5, <1>6, <1>8, <1>9 DEF IInv, OnTheWay

\* The end of a call and the clock touch neither lists nor answers.
LEMMA ClockStep ==
    ASSUME IInv, Return \/ Interrupted \/ Tick PROVE IInv'
<1>1. /\ registry' = registry /\ query' = query /\ request_id' = request_id
      /\ finds' = finds /\ answers' = answers /\ list' = list /\ offered' = offered
      /\ collecting' => collecting
      /\ inbox' = << >> \/ inbox' = inbox
      /\ steady' = steady
  BY DEF Return, Interrupted, Tick
<1>0. Next
  BY DEF Next
<1>2. Answers \subseteq Answers'
  BY <1>1, AnswersKept
<1>3. inbox \in Seq(Answers') /\ << >> \in Seq(Answers') /\ answers \subseteq Answers'
  BY <1>2 DEF IInv, OnTheWay
<1>4. \A f \in finds : FindOK(f)'
  BY <1>1, FindsKept
<1>5. Typed' /\ StillThere' /\ Deadline'
  BY <1>0, <1>1, Around DEF IInv, Typed
<1>6. inbox' \in Seq(Answers')
  BY <1>1, <1>3
<1>7. ListedIsOffered'
  BY <1>1 DEF IInv, ListedIsOffered, Listed
<1> QED
  BY <1>1, <1>3, <1>4, <1>5, <1>6, <1>7 DEF IInv, OnTheWay

\* The list takes over what is fresh in an answer to this find.
LEMMA Taken ==
    ASSUME IInv, NEW a \in Answers, Expected(a.packet),
           NEW F, F = Fresh(ParseSdOffers(a.packet.payload)),
           list' = list \o SetToSeq(F)
    PROVE  /\ F \in SUBSET ServiceDescriptor /\ IsFiniteSet(F) /\ F \subseteq offered
           /\ list' \in Seq(ServiceDescriptor) /\ Listed' = Listed \cup F
<1> DEFINE P == ParseSdOffers(a.packet.payload)
<1>1. a.packet.payload \in Payload
  BY DEF Answers, SdPacket
<1>2. P \subseteq ServiceDescriptor /\ IsFiniteSet(P)
  BY <1>1, ParsedTyped
<1>3. P \subseteq offered
  BY DEF Answers, AnswerOK, Carries, Expected
<1> HIDE DEF P
<1>4. F = Fresh(P)
  BY DEF P
<1>5. F \in SUBSET P
  BY <1>4 DEF Fresh
<1>6. F \in SUBSET ServiceDescriptor /\ F \subseteq offered
  BY <1>2, <1>3, <1>5
<1>7. IsFiniteSet(F)
  BY <1>2, <1>5, FS_Subset
<1>8. PICK m : m = list' /\ m = list \o SetToSeq(F) /\ list \in Seq(ServiceDescriptor)
  BY DEF IInv, Typed
<1>9. m \in Seq(ServiceDescriptor) /\ Members(m) = Members(list) \cup F
  <2>1. /\ F \in SUBSET ServiceDescriptor /\ IsFiniteSet(F)
        /\ list \in Seq(ServiceDescriptor) /\ m = list \o SetToSeq(F)
    BY <1>6, <1>7, <1>8
  <2> QED
    BY <2>1, Appended
<1>10. Listed' = Members(m) /\ Listed = Members(list)
  BY <1>8 DEF Listed, Members
<1> QED
  BY <1>6, <1>7, <1>8, <1>9, <1>10

LEMMA CollectStep ==
    ASSUME IInv, Collect PROVE IInv'
<1>1. /\ registry' = registry /\ query' = query /\ collecting' = collecting
      /\ request_id' = request_id /\ finds' = finds /\ answers' = answers
      /\ offered' = offered /\ inbox' = Tail(inbox) /\ inbox # << >> /\ steady' = steady
  BY DEF Collect
<1>0. Next
  BY DEF Next
<1>2. PICK a \in Answers : a = Head(inbox)
  BY <1>1, HeadTailProperties DEF IInv, OnTheWay
<1>3. Answers \subseteq Answers'
  BY <1>1, AnswersKept
<1>4. inbox' \in Seq(Answers') /\ answers' \subseteq Answers'
  <2>1. Tail(inbox) \in Seq(Answers)
    BY <1>1, HeadTailProperties DEF IInv, OnTheWay
  <2>2. Tail(inbox) \in Seq(Answers')
    BY <1>3, <2>1
  <2> QED
    BY <1>1, <1>3, <2>2 DEF IInv, OnTheWay
<1>5. \A f \in finds : FindOK(f)'
  BY <1>1, FindsKept
<1>6. list' \in Seq(ServiceDescriptor) /\ ListedIsOffered'
  <2>1. CASE list' = list
    BY <1>1, <2>1 DEF IInv, Typed, ListedIsOffered, Listed
  <2>2. CASE list' # list
    <3> DEFINE F == Fresh(ParseSdOffers(a.packet.payload))
    <3>1. Expected(a.packet) /\ list' = list \o SetToSeq(F)
      BY <1>2, <2>2 DEF Collect
    <3> HIDE DEF F
    <3>2. list' \in Seq(ServiceDescriptor) /\ F \subseteq offered /\ Listed' = Listed \cup F
      BY <3>1, Taken DEF F
    <3> QED
      BY <1>1, <3>2 DEF IInv, ListedIsOffered
  <2> QED
    BY <2>1, <2>2
<1>7. Typed' /\ StillThere' /\ Deadline'
  BY <1>0, <1>1, <1>6, Around DEF IInv, Typed
<1> QED
  BY <1>1, <1>4, <1>5, <1>6, <1>7 DEF IInv, OnTheWay

LEMMA InductiveStep ==
    ASSUME FewFinds, IInv, [Next]_vars PROVE IInv'
<1>1. ASSUME NEW q \in Queries, DiscoverServices(q) PROVE IInv'
  BY <1>1, DiscoverStep
<1>2. ASSUME NEW d \in Daemon, Change(d) PROVE IInv'
  BY <1>2, ChangeStep
<1>3. CASE Answer
  BY <1>3, AnswerStep
<1>4. CASE Deliver
  BY <1>4, DeliverStep
<1>5. CASE Collect
  BY <1>5, CollectStep
<1>6. CASE Return \/ Interrupted \/ Tick
  BY <1>6, ClockStep
<1>7. CASE UNCHANGED vars
  BY <1>7 DEF vars, IInv, Typed, StillThere, Deadline, OnTheWay, ListedIsOffered, Listed,
              Answers, AnswerOK, Carries, Asked, FindOK, OneOfEach
<1> QED
  BY <1>1, <1>2, <1>3, <1>4, <1>5, <1>6, <1>7 DEF Next

-----------------------------------------------------------------------------
(* The merged list *)

\* An answer to this find adds each of its services, none twice.
LEMMA MergeStep ==
    ASSUME IndexesSuffice, IInv, Merged, Collect PROVE Merged'
<1>1. /\ query' = query /\ steady' = steady /\ collecting /\ inbox # << >>
  BY DEF Collect
<1>2. PICK a \in Answers : a = Head(inbox)
  BY <1>1, HeadTailProperties DEF IInv, OnTheWay
<1> DEFINE P == ParseSdOffers(a.packet.payload)
<1>3. CASE list' = list /\ heard' = heard
  BY <1>1, <1>3 DEF Merged, NoDuplicates, HeardIsListed, Listed, Asked
<1>4. CASE /\ ~ Truncated(a.packet) /\ Expected(a.packet)
           /\ list' = list \o SetToSeq(Fresh(P)) /\ heard' = heard \cup {a.daemon}
  <2>1. PICK S \in SUBSET ServiceDescriptor : OneOfEach(S) /\ Carries(a, S)
    BY DEF Answers, AnswerOK
  <2>2. {s \in steady[a.daemon] : Asked(s)} \subseteq S
    BY <1>1, <1>4, <2>1 DEF Carries, Expected
  <2>3. P = {Wire(d) : d \in S}
    <3>1. a.packet.message_type # "error"
      BY <1>4 DEF Expected
    <3> QED
      BY <1>4, <2>1, <3>1, AnswerRead DEF Carries
  <2> HIDE DEF P
  <2>4. PICK F : F = Fresh(P)
    OBVIOUS
  <2>5. /\ F \in SUBSET ServiceDescriptor /\ IsFiniteSet(F) /\ Listed' = Listed \cup F
        /\ list' = list \o SetToSeq(F)
    BY <1>4, <2>4, Taken DEF P
  <2>6. \A d, e \in F : DedupKey(d) = DedupKey(e) => d = e
    <3>1. ASSUME NEW d \in S, NEW e \in S, DedupKey(Wire(d)) = DedupKey(Wire(e))
          PROVE  d = e
      <4>1. KeyOf(d) = KeyOf(e)
        BY <3>1, WireKeeps DEF DedupKey, KeyOf
      <4> QED
        BY <2>1, <4>1 DEF OneOfEach
    <3> QED
      BY <2>3, <2>4, <3>1 DEF Fresh
  <2>7. \A d \in F, i \in DOMAIN list : DedupKey(list[i]) # DedupKey(d)
    BY <2>4 DEF Fresh
  <2>8. NoDuplicates'
    <3>1. PICK m : m = list' /\ m = list \o SetToSeq(F) /\ list \in Seq(ServiceDescriptor)
      BY <2>5 DEF IInv, Typed
    <3>2. \A i, j \in DOMAIN list : DedupKey(list[i]) = DedupKey(list[j]) => i = j
      BY DEF Merged, NoDuplicates
    <3>3. \A i, j \in DOMAIN m : DedupKey(m[i]) = DedupKey(m[j]) => i = j
      BY <2>5, <2>6, <2>7, <3>1, <3>2, Appended
    <3> QED
      BY <3>1, <3>3 DEF NoDuplicates, DedupKey
  <2>9. ASSUME NEW d \in heard', NEW s \in steady[d], Asked(s)
        PROVE  \E l \in Listed' : DedupKey(l) = DedupKey(s)
    <3>1. CASE d \in heard
      BY <2>5, <2>9, <3>1 DEF Merged, HeardIsListed
    <3>2. CASE d = a.daemon
      <4>1. Wire(s) \in P /\ DedupKey(Wire(s)) = DedupKey(s)
        BY <2>2, <2>3, <2>9, <3>2, WireKeeps
      <4>2. CASE Wire(s) \in F
        BY <2>5, <4>1, <4>2
      <4>3. CASE Wire(s) \notin F
        <5>1. PICK i \in DOMAIN list : DedupKey(list[i]) = DedupKey(Wire(s))
          BY <2>4, <4>1, <4>3 DEF Fresh
        <5>2. list[i] \in Listed'
          BY <2>5 DEF Listed
        <5> QED
          BY <4>1, <5>1, <5>2
      <4> QED
        BY <4>2, <4>3
    <3> QED
      BY <1>4, <2>9, <3>1, <3>2
  <2>10. HeardIsListed'
    BY <1>1, <2>9 DEF HeardIsListed, Asked, DedupKey
  <2>11. heard' \subseteq Daemon
    BY <1>4 DEF Merged, Answers
  <2> QED
    BY <2>8, <2>10, <2>11 DEF Merged
<1> QED
  BY <1>2, <1>3, <1>4 DEF Collect

LEMMA MergedKept ==
    ASSUME FewFinds, IndexesSuffice, IInv, Merged, [Next]_vars PROVE Merged'
<1>1. ASSUME NEW q \in Queries, DiscoverServices(q) PROVE Merged'
  BY <1>1, DiscoverStep
<1>2. CASE Collect
  BY <1>2, MergeStep
<1>3. CASE UNCHANGED vars \/ Answer \/ Deliver \/ Return \/ Interrupted \/ Tick
  <2>1. list' = list /\ heard' = heard /\ steady' = steady /\ query' = query
    BY <1>3 DEF vars, Answer, Deliver, Return, Interrupted, Tick
  <2> QED
    BY <2>1 DEF Merged, NoDuplicates, HeardIsListed, Listed, Asked
<1>4. ASSUME NEW d \in Daemon, Change(d) PROVE Merged'
  <2>1. list' = list /\ heard' = heard /\ query' = query
    BY <1>4 DEF Change
  <2>2. \A e \in Daemon : steady'[e] \subseteq steady[e]
    BY <1>4 DEF Change, IInv, Typed
  <2>3. heard \subseteq Daemon
    BY DEF Merged
  <2> QED
    BY <2>1, <2>2, <2>3 DEF Merged, NoDuplicates, HeardIsListed, Listed, Asked
<1> QED
  BY <1>1, <1>2, <1>3, <1>4 DEF Next

-----------------------------------------------------------------------------
(* Theorems *)

\* Nothing is listed that no daemon offered in answer to this very find: late
\* answers to earlier finds are told apart by their id.
THEOREM ListsOffers == ASSUME FewFinds PROVE Spec => []ListedIsOffered
<1>1. IInv /\ [Next]_vars => IInv'
  BY InductiveStep
<1>2. Init => IInv
  BY InitIInv
<1>3. IInv => ListedIsOffered
  BY DEF IInv
<1> QED
  BY <1>1, <1>2, <1>3, PTL DEF Spec

LEMMA Merging == ASSUME FewFinds, IndexesSuffice PROVE Spec => [](IInv /\ Merged)
<1>1. IInv /\ Merged /\ [Next]_vars => (IInv /\ Merged)'
  BY InductiveStep, MergedKept
<1>2. Init => IInv /\ Merged
  BY InitIInv
<1> QED
  BY <1>1, <1>2, PTL DEF Spec

\* The list names no service twice for one port.
THEOREM ListsOnce == ASSUME FewFinds, IndexesSuffice PROVE Spec => []NoDuplicates
<1>1. IInv /\ Merged => NoDuplicates
  BY DEF Merged
<1> QED
  BY <1>1, Merging, PTL

\* Every service the caller asked for that a daemon had throughout the call is
\* in the list once the daemon was heard, though its registry changed meanwhile.
THEOREM ListsHeard == ASSUME FewFinds, IndexesSuffice PROVE Spec => []HeardIsListed
<1>1. IInv /\ Merged => HeardIsListed
  BY DEF Merged
<1> QED
  BY <1>1, Merging, PTL

\* No call waits past its timeout, however many datagrams arrive.
THEOREM WaitsNoLonger == Spec => []EndsInTime
<1>1. Init => Deadline
  BY DEF Init, Deadline
<1>2. Deadline /\ [Next]_vars => Deadline'
  <2>1. CASE Next
    BY <2>1, DeadlineKept
  <2>2. CASE UNCHANGED vars
    BY <2>2 DEF vars, Deadline
  <2> QED
    BY <2>1, <2>2
<1>3. Deadline => EndsInTime
  BY DiscoveryAssumption DEF Deadline, EndsInTime
<1> QED
  BY <1>1, <1>2, <1>3, PTL DEF Spec
=============================================================================
