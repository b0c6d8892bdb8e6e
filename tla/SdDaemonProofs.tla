--------------------------- MODULE SdDaemonProofs ---------------------------
(***************************************************************************)
(* Theorems about the daemon of SdDaemon, for every set of services,        *)
(* requests and times.                                                      *)
(***************************************************************************)
EXTENDS SdDaemon, SdProtocolProofs

-----------------------------------------------------------------------------
(* The inductive invariant *)

\* The turn of the loop that cleaned up at cleaned_at is not over long after.
TurnBound ==
    /\ cleaned_at <= now
    /\ Prompt /\ pc \in {"poll", "udp", "unix"} => now <= cleaned_at + Poll

\* A registered descriptor came over the wire.
Resolved == \A k \in DOMAIN registry : AsReceived(registry[k].descriptor)

IInv == TypeOK /\ CleanRegistry /\ KeysAgree /\ Resolved /\ TurnBound

\* The daemon starts with a registry.
LEMMA EmptyRegistry == IsRegistry(<< >>)
BY DEF IsRegistry

\* The requests of clients are packets.
LEMMA RequestTyped == \A req \in Requests : req \in SdPacket
BY DaemonAssumption

\* The constructed daemon satisfies the inductive invariant.
LEMMA InitIInv == Init => IInv
<1> SUFFICES ASSUME Init PROVE IInv
  OBVIOUS
<1>1. TypeOK
  <2>1. Undecodable \in Requests /\ Undecodable \in SdPacket
    BY DaemonAssumption
  <2>2. pending \in [Sockets -> 0 .. MaxPending]
    BY DaemonAssumption DEF Init
  <2> QED
    BY <2>1, <2>2, EmptyRegistry DEF Init, TypeOK
<1>2. CleanRegistry /\ KeysAgree /\ Resolved
  BY DEF Init, CleanRegistry, KeysAgree, Resolved
<1>3. TurnBound
  BY DEF Init, TurnBound
<1> QED
  BY <1>1, <1>2, <1>3 DEF IInv

\* The lease of an offer ends after the offer.
LEMMA LeaseIsAhead ==
    ASSUME NEW req \in SdPacket, IsOfferRequest(req), NEW t \in Nat
    PROVE  t + ParseSdOfferFirst(req.payload).ttl * Second > t
<1>1. ParseSdOfferFirst(req.payload).ttl \in Nat \ {0}
  BY OfferedTyped, ProtocolAssumption DEF IsOfferRequest
<1>2. ParseSdOfferFirst(req.payload).ttl * Second \in Nat \ {0}
  BY <1>1, SecondAssumption
<1> QED
  BY <1>2

\* What a request leaves under a key: what was there, or the new lease.
LEMMA EntryAfter ==
    ASSUME NEW r, IsRegistry(r), NEW t \in Nat, NEW req \in SdPacket,
           NEW k \in DOMAIN RegistryAfter(r, t, req)
    PROVE  \/ k \in DOMAIN r /\ RegistryAfter(r, t, req)[k] = r[k]
           \/ /\ IsOfferRequest(req)
              /\ k = KeyOf(Offered(req))
              /\ RegistryAfter(r, t, req)[k].descriptor = Offered(req)
              /\ RegistryAfter(r, t, req)[k].expires_at > t
<1> DEFINE after == RegistryAfter(r, t, req)
           key == KeyOf(Offered(req))
           entry == [descriptor |-> Offered(req),
                     expires_at |-> t + ParseSdOfferFirst(req.payload).ttl * Second]
<1>1. CASE IsStopOffer(req)
  BY <1>1 DEF RegistryAfter, Put, Lease, Restrict
<1>2. CASE ~ IsStopOffer(req) /\ IsOfferRequest(req)
  <2>1. after = [j \in DOMAIN r \cup {key} |-> IF j = key THEN entry ELSE r[j]]
    BY <1>2 DEF RegistryAfter, Put, Lease
  <2>2. entry.expires_at > t
    BY <1>2, LeaseIsAhead
  <2> HIDE DEF after, key
  <2>3. CASE k = key
    BY <2>1, <2>2, <2>3, <1>2 DEF after, key
  <2>4. CASE k # key
    BY <2>1, <2>4 DEF after
  <2> QED
    BY <2>3, <2>4
<1>3. CASE ~ IsStopOffer(req) /\ ~ IsOfferRequest(req)
  BY <1>3 DEF RegistryAfter, Put, Lease
<1> QED
  BY <1>1, <1>2, <1>3

\* process_fd keeps the inductive invariant: a new lease ends later than the
\* cleanup of its turn, and a turn takes no step of time after poll.
LEMMA ReceiveKeepsIInv ==
    ASSUME IInv, NEW s \in Sockets, NEW req \in Requests, Receive(s, req)
    PROVE  IInv'
<1> USE DEF IInv
<1>0. req \in SdPacket /\ IsRegistry(registry) /\ now \in Nat /\ cleaned_at \in Nat
  BY RequestTyped DEF TypeOK
<1>1. AfterSocket(s) \in {"unix", "loop"} /\ pc \in {"udp", "unix"}
  BY DEF AfterSocket, Receive, Sockets
<1>2. pending' \in [Sockets -> 0 .. MaxPending]
  <2>1. pending \in [Sockets -> 0 .. MaxPending] /\ pending[s] > 0
    BY DEF TypeOK, Receive
  <2>2. pending[s] - 1 \in 0 .. MaxPending
    BY <2>1, DaemonAssumption
  <2> QED
    BY <2>1, <2>2 DEF Receive
<1>3. CASE ~ Decodable(req)
  <2>1. UNCHANGED << running, registry, now, cleaned_at, ready, answer >>
    BY <1>3 DEF Receive
  <2>2. pc' \in {"unix", "loop"}
    BY <1>1 DEF Receive
  <2>3. TypeOK'
    BY <1>2, <2>1, <2>2 DEF TypeOK
  <2> QED
    BY <1>1, <2>1, <2>2, <2>3 DEF CleanRegistry, KeysAgree, Resolved, TurnBound
<1>4. CASE Decodable(req)
  <2>1. /\ registry' = RegistryAfter(registry, now, req)
        /\ answer' = [request |-> req, resp |-> EncodePacket(AnswerTo(registry, req))]
        /\ UNCHANGED << running, now, cleaned_at, ready >>
        /\ pc' = AfterSocket(s)
    BY <1>4 DEF Receive
  <2>2. TypeOK'
    BY <1>0, <1>1, <1>2, <2>1, RegistryAfterTyped, AnswerTyped DEF TypeOK
  <2>3. \A k \in DOMAIN registry' :
           /\ registry'[k].expires_at > cleaned_at'
           /\ KeyOf(registry'[k].descriptor) = k
           /\ AsReceived(registry'[k].descriptor)
    <3> SUFFICES ASSUME NEW k \in DOMAIN registry'
                 PROVE  /\ registry'[k].expires_at > cleaned_at'
                        /\ KeyOf(registry'[k].descriptor) = k
                        /\ AsReceived(registry'[k].descriptor)
      OBVIOUS
    <3>1. CASE k \in DOMAIN registry /\ registry'[k] = registry[k]
      BY <1>1, <2>1, <3>1 DEF CleanRegistry, KeysAgree, Resolved
    <3>2. CASE /\ IsOfferRequest(req)
               /\ k = KeyOf(Offered(req))
               /\ registry'[k].descriptor = Offered(req)
               /\ registry'[k].expires_at > now
      <4>1. registry'[k].expires_at \in Nat
        BY <2>2 DEF TypeOK, IsRegistry, RegistryEntry
      <4> QED
        BY <1>0, <2>1, <3>2, <4>1, OfferedTyped DEF TurnBound, IsOfferRequest
    <3> QED
      BY <1>0, <2>1, <3>1, <3>2, EntryAfter
  <2>4. TurnBound'
    BY <1>1, <2>1 DEF TurnBound
  <2> QED
    BY <2>2, <2>3, <2>4 DEF CleanRegistry, KeysAgree, Resolved
<1> QED
  BY <1>3, <1>4

\* CleanupExpired establishes the invariant of the turn it begins.
LEMMA CleanupKeepsIInv ==
    ASSUME IInv, Cleanup
    PROVE  IInv'
<1> USE DEF IInv
<1>1. /\ registry' = CleanupExpired(registry, now)
      /\ cleaned_at' = now /\ now' = now /\ pc' = "poll" /\ ready' = {}
      /\ UNCHANGED << running, pending, answer >>
  BY DEF Cleanup
<1>2. IsRegistry(registry')
  BY <1>1, RestrictTyped DEF CleanupExpired, TypeOK
<1>3. TypeOK'
  BY <1>1, <1>2 DEF TypeOK
<1>4. \A k \in DOMAIN registry' :
         k \in DOMAIN registry /\ registry'[k] = registry[k] /\ registry[k].expires_at > now
  BY <1>1 DEF CleanupExpired, Restrict
<1>5. CleanRegistry' /\ KeysAgree' /\ Resolved'
  BY <1>1, <1>4 DEF CleanRegistry, KeysAgree, Resolved
<1>6. TurnBound'
  BY <1>1, DaemonAssumption DEF TurnBound, TypeOK
<1> QED
  BY <1>3, <1>5, <1>6

\* Every step keeps the inductive invariant.
LEMMA NextIInv == IInv /\ [Next]_vars => IInv'
<1> SUFFICES ASSUME IInv, [Next]_vars PROVE IInv'
  OBVIOUS
<1> USE DaemonAssumption DEF IInv
<1>1. CASE Start
  BY <1>1 DEF Start, TypeOK, CleanRegistry, KeysAgree, Resolved, TurnBound
<1>2. CASE Stop
  <2>1. PICK woken \in SUBSET {s \in Sockets : pending[s] < MaxPending} :
          pending' = [s \in Sockets |-> IF s \in woken THEN pending[s] + 1 ELSE pending[s]]
    BY <1>2 DEF Stop
  <2>2. pending' \in [Sockets -> 0 .. MaxPending]
    BY <2>1 DEF TypeOK
  <2> QED
    BY <1>2, <2>2 DEF Stop, TypeOK, CleanRegistry, KeysAgree, Resolved, TurnBound
<1>3. CASE Cleanup
  BY <1>3, CleanupKeepsIInv
<1>4. CASE Exit
  BY <1>4 DEF Exit, TypeOK, CleanRegistry, KeysAgree, Resolved, TurnBound
<1>5. CASE PollReady
  BY <1>5 DEF PollReady, TypeOK, CleanRegistry, KeysAgree, Resolved, TurnBound
<1>6. CASE PollTimeout
  BY <1>6 DEF PollTimeout, TypeOK, CleanRegistry, KeysAgree, Resolved, TurnBound
<1>7. ASSUME NEW s \in Sockets, SkipSocket(s) PROVE IInv'
  <2>1. AfterSocket(s) \in {"unix", "loop"} /\ pc \in {"udp", "unix"}
    BY <1>7 DEF AfterSocket, SkipSocket, Sockets
  <2> QED
    BY <1>7, <2>1 DEF SkipSocket, TypeOK, CleanRegistry, KeysAgree, Resolved, TurnBound
<1>8. ASSUME NEW s \in Sockets, NEW req \in Requests, Receive(s, req) PROVE IInv'
  BY <1>8, ReceiveKeepsIInv
<1>9. CASE Tick
  BY <1>9 DEF Tick, Waiting, TypeOK, CleanRegistry, KeysAgree, Resolved, TurnBound
<1>10. ASSUME NEW s \in Sockets, Arrive(s) PROVE IInv'
  <2>1. pending' \in [Sockets -> 0 .. MaxPending]
    BY <1>10 DEF Arrive, TypeOK
  <2> QED
    BY <1>10, <2>1 DEF Arrive, TypeOK, CleanRegistry, KeysAgree, Resolved, TurnBound
<1>11. CASE UNCHANGED vars
  BY <1>11 DEF vars, TypeOK, CleanRegistry, KeysAgree, Resolved, TurnBound
<1> QED
  BY <1>1, <1>2, <1>3, <1>4, <1>5, <1>6, <1>7, <1>8, <1>9, <1>10, <1>11 DEF Next, ServeLoop

\* The inductive invariant holds in every reachable state.
LEMMA Invariance == Spec => []IInv
BY InitIInv, NextIInv, PTL DEF Spec

-----------------------------------------------------------------------------
(* Safety *)

\* The daemon's variables keep their types through every interleaving of the
\* loop, its owner and its clients.
THEOREM TypeCorrect == Spec => []TypeOK
<1>1. IInv => TypeOK
  BY DEF IInv
<1> QED
  BY <1>1, Invariance, PTL

\* After CleanupExpired a turn serves no lease that was over at its cleanup.
THEOREM CleanAfterCleanup == Spec => []CleanRegistry
<1>1. IInv => CleanRegistry
  BY DEF IInv
<1> QED
  BY <1>1, Invariance, PTL

\* HandlePacket finds by descriptor what it erases by key.
THEOREM KeysMatchDescriptors == Spec => []KeysAgree
<1>1. IInv => KeysAgree
  BY DEF IInv
<1> QED
  BY <1>1, Invariance, PTL

\* A lease is served at most a poll interval past its end by a thread that is
\* not late: the cleanup of the same turn bounds the lease, poll bounds the turn.
THEOREM Staleness == Spec => []StaleBound
<1>1. IInv => StaleBound
  <2> SUFFICES ASSUME IInv, Prompt, pc \in {"udp", "unix"}, NEW k \in DOMAIN registry
               PROVE  registry[k].expires_at + Poll > now
    BY DEF StaleBound
  <2>1. registry[k].expires_at > cleaned_at /\ now <= cleaned_at + Poll
    BY DEF IInv, CleanRegistry, TurnBound
  <2>2. registry[k].expires_at \in Nat /\ now \in Nat /\ cleaned_at \in Nat
    BY DEF IInv, TypeOK, IsRegistry, RegistryEntry
  <2> QED
    BY <2>1, <2>2, DaemonAssumption
<1> QED
  BY <1>1, Invariance, PTL

\* What HandlePacket does to a key other than the request's own: nothing.
LEMMA OtherKeysKept ==
    ASSUME NEW r, NEW t, NEW req, NEW k \in DOMAIN r,
           ~ (/\ IsStopOffer(req) \/ IsOfferRequest(req)
              /\ KeyOf(Offered(req)) = k)
    PROVE  k \in DOMAIN RegistryAfter(r, t, req) /\ RegistryAfter(r, t, req)[k] = r[k]
<1>1. CASE IsStopOffer(req)
  BY <1>1 DEF RegistryAfter, Put, Lease, Restrict
<1>2. CASE ~ IsStopOffer(req) /\ IsOfferRequest(req)
  BY <1>2 DEF RegistryAfter, Put, Lease
<1>3. CASE ~ IsStopOffer(req) /\ ~ IsOfferRequest(req)
  BY <1>3 DEF RegistryAfter, Put, Lease
<1> QED
  BY <1>1, <1>2, <1>3

\* No step but a stop offer or a new offer for its own key touches a lease that
\* runs, over cleanups, requests for other services, Stop and Start.
THEOREM RunningLeaseKept == Spec => LiveOfferKept
<1> DEFINE Excused(k) == \E s \in Sockets, req \in Requests :
                            /\ Receive(s, req)
                            /\ IsStopOffer(req) \/ IsOfferRequest(req)
                            /\ KeyOf(Offered(req)) = k
           Kept(k) == k \in DOMAIN registry' /\ registry'[k] = registry[k]
<1>1. IInv /\ [Next]_vars => [KeepsLive]_vars
  <2> SUFFICES ASSUME IInv, Next, NEW k \in DOMAIN registry, registry[k].expires_at > now
               PROVE  Kept(k) \/ Excused(k)
    BY DEF KeepsLive
  <2>1. CASE Cleanup
    BY <2>1 DEF Cleanup, CleanupExpired, Restrict
  <2>2. ASSUME NEW s \in Sockets, NEW req \in Requests, Receive(s, req)
        PROVE  Kept(k) \/ Excused(k)
    <3>1. CASE ~ Decodable(req)
      BY <2>2, <3>1 DEF Receive
    <3>2. CASE /\ IsStopOffer(req) \/ IsOfferRequest(req)
               /\ KeyOf(Offered(req)) = k
      BY <2>2, <3>2
    <3>3. CASE /\ Decodable(req)
               /\ ~ (/\ IsStopOffer(req) \/ IsOfferRequest(req)
                     /\ KeyOf(Offered(req)) = k)
      <4>1. registry' = RegistryAfter(registry, now, req)
        BY <2>2, <3>3 DEF Receive
      <4> QED
        BY <3>3, <4>1, OtherKeysKept
    <3> QED
      BY <3>1, <3>2, <3>3
  <2>3. CASE registry' = registry
    BY <2>3
  <2>4. \/ Cleanup
        \/ \E s \in Sockets, req \in Requests : Receive(s, req)
        \/ registry' = registry
    BY DEF Next, ServeLoop, Start, Stop, Exit, PollReady, PollTimeout, SkipSocket, Tick, Arrive
  <2> QED
    BY <2>1, <2>2, <2>3, <2>4
<1> QED
  BY <1>1, Invariance, PTL DEF Spec, LiveOfferKept

-----------------------------------------------------------------------------
(* A daemon whose thread is not late, with no more services than an 8-bit   *)
(* option index can tell apart, implements SdLeases.                        *)

\* The bounds the promise needs: DaemonAssumption leaves both open.
Bounds == Prompt /\ Cardinality(Key) <= IndexSpan

-----------------------------------------------------------------------------
(* What a client reads in the answers *)

\* Every service a find matches is read in the answer, with its own endpoint.
LEMMA FindAnswer ==
    ASSUME NEW r, IsRegistry(r), \A k \in DOMAIN r : AsReceived(r[k].descriptor),
           NEW req \in SdPacket, IsFindRequest(req), Cardinality(Key) <= IndexSpan,
           NEW q, q = ParseSdFindPayload(req.payload)
    PROVE  ParseSdOffers(EncodePacket(AnswerTo(r, req)).payload)
              = Matches(r, q.service_id, q.instance_id)
<1> DEFINE M == Matches(r, q.service_id, q.instance_id)
           l == SetToSeq(M)
           n == Cardinality(M)
<1>1. /\ M \in SUBSET ServiceDescriptor /\ IsFiniteSet(M)
      /\ n <= Cardinality(Key) /\ n \in Nat /\ Cardinality(Key) \in Nat
  BY MatchesTyped, KeyFinite, FS_CardinalityType
<1>2. \A d \in M : AsReceived(d)
  BY DEF Matches
<1>3. EncodePacket(AnswerTo(r, req)).payload = BuildSdOfferPayloadList(l, FindTtl)
  BY DEF AnswerTo, EncodePacket
<1> HIDE DEF M, l
<1>4. /\ l \in Seq(M) /\ Len(l) = n
      /\ \A x \in M : \E i \in 1 .. n : l[i] = x
  BY <1>1, SetToSeqLists DEF l
<1>5. l \in Seq(ServiceDescriptor) /\ Len(l) <= IndexSpan
  BY <1>1, <1>4, ProtocolAssumption
<1>6. ParseSdOffers(BuildSdOfferPayloadList(l, FindTtl)) = {Wire(l[i]) : i \in 1 .. n}
  BY <1>4, <1>5, OfferListRoundTrip DEF FindTtl
<1>7. \A i \in 1 .. n : l[i] \in M /\ Wire(l[i]) = l[i]
  <2> SUFFICES ASSUME NEW i \in 1 .. n PROVE l[i] \in M /\ Wire(l[i]) = l[i]
    OBVIOUS
  <2>1. l[i] \in M
    BY <1>4
  <2> QED
    BY <1>1, <1>2, <2>1, WireIsIdentity
<1>8. {Wire(l[i]) : i \in 1 .. n} = M
  BY <1>4, <1>7
<1> QED
  BY <1>3, <1>6, <1>8 DEF M

\* The answer to an offer or a stop offer repeats the service.
LEMMA OfferAnswer ==
    ASSUME NEW r, NEW req \in SdPacket, ~ IsFindRequest(req),
           IsStopOffer(req) \/ IsOfferRequest(req)
    PROVE  ParseSdOffers(EncodePacket(AnswerTo(r, req)).payload) = {Offered(req)}
<1> DEFINE d == Offered(req)
           ttl == ParseSdOfferFirst(req.payload).ttl
<1>1. d \in ServiceDescriptor /\ AsReceived(d) /\ ttl \in Nat
  BY OfferedTyped, ProtocolAssumption DEF IsStopOffer, IsOfferRequest
<1>2. d = ParseSdOfferFirst(req.payload).descriptor
  BY DEF Offered
<1>3. \/ EncodePacket(AnswerTo(r, req)).payload = BuildSdOfferPayload(d, 0, TRUE)
      \/ EncodePacket(AnswerTo(r, req)).payload = BuildSdOfferPayload(d, ttl, FALSE)
  BY <1>2 DEF AnswerTo, EncodePacket
<1> HIDE DEF d, ttl
<1>4. /\ ParseSdOffers(BuildSdOfferPayload(d, 0, TRUE)) = {Wire(d)}
      /\ ParseSdOffers(BuildSdOfferPayload(d, ttl, FALSE)) = {Wire(d)}
  BY <1>1, OfferRoundTrip
<1>5. Wire(d) = d
  BY <1>1, WireIsIdentity
<1> QED
  BY <1>3, <1>4, <1>5 DEF d

\* An error carries no service.
LEMMA ErrorAnswer ==
    ASSUME NEW r, NEW req, ~ IsFindRequest(req), ~ IsStopOffer(req), ~ IsOfferRequest(req)
    PROVE  ParseSdOffers(EncodePacket(AnswerTo(r, req)).payload) = {}
<1>1. EncodePacket(AnswerTo(r, req)).payload = NoPayload
  BY DEF AnswerTo, EncodePacket
<1> QED
  BY <1>1 DEF NoPayload, ParseSdOffers

\* The query of a find is one SdLeases knows.
LEMMA QueryTyped ==
    ASSUME NEW req \in SdPacket, IsFindRequest(req)
    PROVE  /\ ParseSdFindPayload(req.payload).service_id \in Service
           /\ ParseSdFindPayload(req.payload).instance_id \in InstanceField \cup {NoInstance}
<1>1. req.payload.entries # << >>
  BY DEF IsFindRequest, IsFind
<1>2. req.payload.entries[1] \in Entry
  BY <1>1, FirstEntryTyped
<1> QED
  BY <1>2 DEF ParseSdFindPayload, Entry

-----------------------------------------------------------------------------
(* Steps *)

\* SdLeases extends the modules SdDaemon extends: their operators are the same.
LEMMA SameOperators ==
    /\ Leases!ServiceDescriptor = ServiceDescriptor
    /\ Leases!InstanceField = InstanceField
    /\ \A f, S : Leases!Restrict(f, S) = Restrict(f, S)
BY DEF Leases!ServiceDescriptor, ServiceDescriptor, Leases!InstanceField, InstanceField,
       Leases!Restrict, Restrict

\* The constructed daemon is the empty lease table.
LEMMA InitRefines == Init => Leases!Init
<1> SUFFICES ASSUME Init PROVE Leases!Init
  OBVIOUS
<1>1. answer.request = Undecodable /\ answer.resp = Undecodable
  BY DEF Init
<1>2. Op(Undecodable) = "none" /\ About(Undecodable) = << >>
  BY DEF Op, About, Undecodable, IsFindRequest, IsStopOffer, IsOfferRequest, Request, Decodable
<1>3. ParseSdOffers(Undecodable.payload) = {}
  BY DEF ParseSdOffers, Undecodable, NoPayload
<1> QED
  BY <1>1, <1>2, <1>3 DEF Init, Leases!Init

\* The cleanup forgets the leases that ran out.
LEMMA CleanupRefines ==
    ASSUME IInv, Cleanup
    PROVE  Leases!Forget
<1> DEFINE K == {k \in DOMAIN registry : ~ Leases!Running(k)}
<1>1. DOMAIN registry \ K = {k \in DOMAIN registry : registry[k].expires_at > now}
  BY DEF Leases!Running
<1>2. registry' = Restrict(registry, DOMAIN registry \ K)
  BY <1>1 DEF Cleanup, CleanupExpired
<1>3. UNCHANGED << now, answer >>
  BY DEF Cleanup
<1> QED
  BY <1>2, <1>3, SameOperators DEF Leases!Forget

\* Handling a request is the step of SdLeases it asks for.
LEMMA ReceiveRefines ==
    ASSUME Bounds, IInv, NEW s \in Sockets, NEW req \in Requests, Receive(s, req),
           Decodable(req)
    PROVE  Leases!Next
<1> DEFINE services == ParseSdOffers(EncodePacket(AnswerTo(registry, req)).payload)
           q == ParseSdFindPayload(req.payload)
<1>1. /\ req \in SdPacket /\ IsRegistry(registry)
      /\ \A k \in DOMAIN registry : AsReceived(registry[k].descriptor)
  BY RequestTyped DEF IInv, TypeOK, Resolved
<1>2. /\ registry' = RegistryAfter(registry, now, req)
      /\ answer'.request = req
      /\ ParseSdOffers(answer'.resp.payload) = services
      /\ now' = now
  BY DEF Receive
<1> HIDE DEF services
<1>3. [op |-> Op(answer.request), about |-> About(answer.request),
        services |-> ParseSdOffers(answer.resp.payload)]'
        = [op |-> Op(req), about |-> About(req), services |-> services]
  BY <1>2
<1>4. CASE IsFindRequest(req)
  <2>1. ~ IsStopOffer(req) /\ ~ IsOfferRequest(req)
    BY <1>4 DEF IsFindRequest, IsFind, IsStopOffer, IsOfferRequest, IsOffer
  <2>2. registry' = registry
    BY <1>2, <2>1 DEF RegistryAfter, Put, Lease
  <2>3. services = Matches(registry, q.service_id, q.instance_id)
    BY <1>1, <1>4, FindAnswer DEF Bounds, services
  <2>4. q.service_id \in Service /\ q.instance_id \in InstanceField \cup {NoInstance}
    BY <1>1, <1>4, QueryTyped
  <2>7. Op(req) = "find" /\ About(req) = << q.service_id, q.instance_id >>
    BY <1>4 DEF Op, About
  <2> HIDE DEF q
  <2> DEFINE fitting == {k \in DOMAIN registry : Leases!Fits(k, q.service_id, q.instance_id)}
  <2>5. services = {registry[k].descriptor : k \in fitting}
    BY <2>3 DEF Matches, Leases!Fits
  <2>6. \A k \in fitting : Leases!InGrace(k)
    <3> SUFFICES ASSUME NEW k \in DOMAIN registry PROVE registry[k].expires_at + Poll > now
      BY DEF Leases!InGrace
    <3>1. pc \in {"udp", "unix"}
      BY DEF Receive, Sockets
    <3>2. registry[k].expires_at > cleaned_at /\ now <= cleaned_at + Poll
      BY <3>1 DEF Bounds, IInv, CleanRegistry, TurnBound
    <3>3. registry[k].expires_at \in Nat /\ now \in Nat /\ cleaned_at \in Nat
      BY DEF IInv, TypeOK, IsRegistry, RegistryEntry
    <3> QED
      BY <3>2, <3>3, DaemonAssumption
  <2>8. Leases!Find(q.service_id, q.instance_id)
    <3>1. /\ fitting \in SUBSET {k \in fitting : Leases!InGrace(k)}
          /\ {k \in fitting : Leases!Running(k)} \subseteq fitting
      BY <2>6
    <3> QED
      BY <1>2, <1>3, <2>2, <2>5, <2>7, <3>1 DEF Leases!Find
  <2> QED
    BY <2>4, <2>8, SameOperators DEF Leases!Next
<1>5. CASE ~ IsFindRequest(req) /\ IsStopOffer(req)
  <2>1. Offered(req) \in ServiceDescriptor
    BY <1>1, <1>5, OfferedTyped DEF IsStopOffer
  <2>2. services = {Offered(req)}
    BY <1>1, <1>5, OfferAnswer DEF services
  <2>3. registry' = Restrict(registry, DOMAIN registry \ {Leases!LeaseKey(Offered(req))})
    BY <1>2, <1>5 DEF RegistryAfter, Put, Lease, KeyOf, Leases!LeaseKey
  <2>4. Op(req) = "stop" /\ About(req) = << Offered(req) >>
    BY <1>5 DEF Op, About, Offered
  <2>5. Leases!StopOffer(Offered(req))
    BY <1>2, <1>3, <2>2, <2>3, <2>4, SameOperators DEF Leases!StopOffer
  <2> QED
    BY <2>1, <2>5, SameOperators DEF Leases!Next
<1>6. CASE ~ IsFindRequest(req) /\ ~ IsStopOffer(req) /\ IsOfferRequest(req)
  <2> DEFINE d == Offered(req)
             ttl == ParseSdOfferFirst(req.payload).ttl
  <2>1. d \in ServiceDescriptor /\ ttl \in 1 .. TtlMax
    BY <1>1, <1>6, OfferedTyped, ProtocolAssumption DEF IsOfferRequest
  <2>2. services = {d}
    BY <1>1, <1>6, OfferAnswer DEF services
  <2>3. registry' = [k \in DOMAIN registry \cup {Leases!LeaseKey(d)} |->
                       IF k = Leases!LeaseKey(d)
                       THEN [descriptor |-> d, expires_at |-> now + ttl * Second]
                       ELSE registry[k]]
    BY <1>2, <1>6 DEF RegistryAfter, Put, Lease, KeyOf, Leases!LeaseKey
  <2>4. Op(req) = "offer" /\ About(req) = << d, ttl >>
    BY <1>6 DEF Op, About, Offered
  <2> HIDE DEF d, ttl
  <2>5. Leases!Offer(d, ttl)
    BY <1>2, <1>3, <2>2, <2>3, <2>4 DEF Leases!Offer
  <2> QED
    BY <2>1, <2>5, SameOperators DEF Leases!Next
<1>7. CASE ~ IsFindRequest(req) /\ ~ IsStopOffer(req) /\ ~ IsOfferRequest(req)
  <2>1. registry' = registry
    BY <1>2, <1>7 DEF RegistryAfter, Put, Lease
  <2>2. services = {}
    BY <1>7, ErrorAnswer DEF services
  <2>3. Op(req) = "refused" /\ About(req) = << >>
    BY <1>7 DEF Op, About
  <2>4. Leases!Refuse
    BY <1>2, <1>3, <2>1, <2>2, <2>3 DEF Leases!Refuse
  <2> QED
    BY <2>4 DEF Leases!Next
<1> QED
  BY <1>4, <1>5, <1>6, <1>7

\* Every step of the daemon is a step of the lease table or changes nothing it
\* shows: cleaning up forgets, handling a request is what it asks for.
LEMMA StepRefines == Bounds /\ IInv /\ [Next]_vars => [Leases!Next]_(Leases!lvars)
<1> SUFFICES ASSUME Bounds, IInv, [Next]_vars
             PROVE  Leases!Next \/ UNCHANGED << registry, now, answer >>
  BY DEF Leases!lvars
<1>1. CASE Cleanup
  BY <1>1, CleanupRefines DEF Leases!Next
<1>2. ASSUME NEW s \in Sockets, NEW req \in Requests, Receive(s, req)
      PROVE  Leases!Next \/ UNCHANGED << registry, now, answer >>
  <2>1. CASE Decodable(req)
    BY <1>2, <2>1, ReceiveRefines
  <2>2. CASE ~ Decodable(req)
    BY <1>2, <2>2 DEF Receive
  <2> QED
    BY <2>1, <2>2
<1>3. CASE Tick
  <2>1. now' = now + 1 /\ UNCHANGED << registry, answer >>
    BY <1>3 DEF Tick
  <2> QED
    BY <2>1 DEF Leases!Next, Leases!Tick
<1>4. CASE UNCHANGED << registry, now, answer >>
  BY <1>4
<1>5. \/ Cleanup
      \/ \E s \in Sockets, req \in Requests : Receive(s, req)
      \/ Tick
      \/ UNCHANGED << registry, now, answer >>
  BY DEF Next, ServeLoop, Start, Stop, Exit, PollReady, PollTimeout, SkipSocket, Arrive, vars
<1> QED
  BY <1>1, <1>2, <1>3, <1>4, <1>5

\* Every behaviour of the loop, with its sockets, turns and cleanups, is a
\* behaviour of the lease table of SdLeases with a grace of one poll interval.
THEOREM Refinement ==
    ASSUME Bounds
    PROVE  Spec => ImplementsLeases
<1>1. IInv /\ [Next]_vars => [Leases!Next]_(Leases!lvars)
  BY StepRefines
<1> QED
  BY <1>1, InitRefines, Invariance, PTL DEF Spec, ImplementsLeases, Leases!Spec
=============================================================================
