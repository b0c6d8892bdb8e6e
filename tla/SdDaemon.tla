------------------------------ MODULE SdDaemon ------------------------------
(***************************************************************************)
(* SomeIpSdDaemon (services/someip_sd_cpp/src/sd_daemon.cpp): the thread of *)
(* ServeLoop, which cleans up, polls its sockets and answers at most one    *)
(* datagram of each per turn, the owner that stops and starts it, and the   *)
(* clock the leases run on.  A queued datagram is counted and its contents  *)
(* are chosen when it is received: nothing looks at them before.            *)
(***************************************************************************)
EXTENDS SdRegistry

CONSTANTS
    Requests,     \* the datagrams clients send
    UnixControl,  \* unix_control_enabled_
    Poll,         \* ticks poll waits: 200 ms
    Prompt,       \* TRUE: the thread takes its steps in less than a tick
    MaxNow,       \* bound: the end of time
    MaxPending    \* bound: datagrams queued in a socket

ASSUME DaemonAssumption ==
    /\ Requests \subseteq SdPacket
    /\ Undecodable \in Requests
    /\ UnixControl \in BOOLEAN /\ Prompt \in BOOLEAN
    /\ Poll \in Nat /\ MaxNow \in Nat /\ MaxPending \in Nat \ {0}

VARIABLES
    running,      \* running_
    pc,           \* where the thread is; "stopped" also before the first Start
    registry,     \* registry_
    now,          \* NowMs()
    cleaned_at,   \* when CleanupExpired last ran, also when poll began to wait
    ready,        \* the sockets of this turn with POLLIN in revents
    pending,      \* datagrams queued in each socket
    answer        \* the last request answered and what was sent back

vars == << running, pc, registry, now, cleaned_at, ready, pending, answer >>

Sockets == IF UnixControl THEN {"udp", "unix"} ELSE {"udp"}

TypeOK ==
    /\ running \in BOOLEAN
    /\ pc \in {"stopped", "loop", "poll", "udp", "unix"}
    /\ IsRegistry(registry)
    /\ now \in Nat
    /\ cleaned_at \in Nat
    /\ ready \in SUBSET Sockets
    /\ pending \in [Sockets -> 0 .. MaxPending]
    /\ answer \in [request : Requests, resp : SdPacket]

-----------------------------------------------------------------------------
Init ==
    /\ running = FALSE
    /\ pc = "stopped"
    /\ registry = << >>
    /\ now = 0
    /\ cleaned_at = 0
    /\ ready = {}
    /\ pending = [s \in Sockets |-> 0]
    /\ answer = [request |-> Undecodable, resp |-> Undecodable]

\* The owner, whose last Stop has joined the thread; the sockets are bound.
Start ==
    /\ ~ running /\ pc = "stopped"
    /\ running' = TRUE
    /\ pc' = "loop"
    /\ UNCHANGED << registry, now, cleaned_at, ready, pending, answer >>

\* The owner clears running_ and sends each socket a marker to wake the thread;
\* a marker may fail to be sent, or find the queue full or the socket gone.
Stop ==
    /\ running
    /\ running' = FALSE
    /\ \E woken \in SUBSET {s \in Sockets : pending[s] < MaxPending} :
          pending' = [s \in Sockets |-> IF s \in woken THEN pending[s] + 1 ELSE pending[s]]
    /\ UNCHANGED << pc, registry, now, cleaned_at, ready, answer >>

\* Faulty: the loop does not look at running_.
FaultyCleanup ==
    /\ pc = "loop"
    /\ registry' = CleanupExpired(registry, now)
    /\ cleaned_at' = now
    /\ ready' = {}
    /\ pc' = "poll"
    /\ UNCHANGED << running, now, pending, answer >>

Cleanup ==
    /\ pc = "loop" /\ running
    /\ registry' = CleanupExpired(registry, now)
    /\ cleaned_at' = now
    /\ ready' = {}
    /\ pc' = "poll"
    /\ UNCHANGED << running, now, pending, answer >>

Exit ==
    /\ pc = "loop" /\ ~ running
    /\ pc' = "stopped"
    /\ pending' = [s \in Sockets |-> 0]
    /\ UNCHANGED << running, registry, now, cleaned_at, ready, answer >>

PollReady ==
    /\ pc = "poll"
    /\ ready' = {s \in Sockets : pending[s] > 0}
    /\ ready' # {}
    /\ pc' = "udp"
    /\ UNCHANGED << running, registry, now, cleaned_at, pending, answer >>

\* At the end of time the rest of the wait is taken to have passed.
PollTimeout ==
    /\ pc = "poll"
    /\ \A s \in Sockets : pending[s] = 0
    /\ now >= cleaned_at + Poll \/ now = MaxNow
    /\ pc' = "loop"
    /\ UNCHANGED << running, registry, now, cleaned_at, ready, pending, answer >>

\* Faulty: the Unix domain socket is looked at only when nothing came by UDP.
FaultyAfterSocket(s) ==
    IF s = "udp" /\ UnixControl /\ "udp" \notin ready THEN "unix" ELSE "loop"

AfterSocket(s) == IF s = "udp" /\ UnixControl THEN "unix" ELSE "loop"

\* process_fd: one datagram; what DecodePacket throws on is dropped.
Receive(s, req) ==
    /\ pc = s /\ s \in ready /\ pending[s] > 0
    /\ pending' = [pending EXCEPT ![s] = pending[s] - 1]
    /\ pc' = AfterSocket(s)
    /\ \/ /\ Decodable(req)
          /\ registry' = RegistryAfter(registry, now, req)
          /\ answer' = [request |-> req, resp |-> EncodePacket(AnswerTo(registry, req))]
       \/ ~ Decodable(req) /\ UNCHANGED << registry, answer >>
    /\ UNCHANGED << running, now, cleaned_at, ready >>

SkipSocket(s) ==
    /\ pc = s /\ s \notin ready
    /\ pc' = AfterSocket(s)
    /\ UNCHANGED << running, registry, now, cleaned_at, ready, pending, answer >>

ServeLoop ==
    \/ Cleanup \/ Exit \/ PollReady \/ PollTimeout
    \/ \E s \in Sockets : SkipSocket(s) \/ \E req \in Requests : Receive(s, req)

\* A datagram reaches a bound socket.
Arrive(s) ==
    /\ pc # "stopped" /\ pending[s] < MaxPending
    /\ pending' = [pending EXCEPT ![s] = pending[s] + 1]
    /\ UNCHANGED << running, pc, registry, now, cleaned_at, ready, answer >>

\* A prompt thread is never behind: time passes while it waits in poll with
\* nothing to read, or while there is no thread.
Waiting ==
    \/ pc = "stopped"
    \/ /\ pc = "poll" /\ now < cleaned_at + Poll
       /\ \A s \in Sockets : pending[s] = 0

Tick ==
    /\ now < MaxNow
    /\ Prompt => Waiting
    /\ now' = now + 1
    /\ UNCHANGED << running, pc, registry, cleaned_at, ready, pending, answer >>

Next == Start \/ Stop \/ ServeLoop \/ Tick \/ \E s \in Sockets : Arrive(s)

\* The thread is scheduled and the clock runs; nobody must send, start or stop.
Fairness == WF_vars(ServeLoop) /\ WF_vars(Tick)

Spec == Init /\ [][Next]_vars
FairSpec == Spec /\ Fairness

-----------------------------------------------------------------------------
(* Safety *)

\* Past its cleanup, the loop serves requests from a registry in which no
\* lease had run out when the cleanup began: CleanupExpired, and no offer
\* handled since may bring in a lease that is already over.
CleanRegistry ==
    pc \in {"poll", "udp", "unix"} =>
        \A k \in DOMAIN registry : registry[k].expires_at > cleaned_at

\* A prompt daemon answers from a registry whose leases ran out less than a
\* poll interval ago, if they ran out at all: what the 200 ms of ServeLoop's
\* poll bounds, since CleanupExpired runs only before it.
StaleBound ==
    Prompt /\ pc \in {"udp", "unix"} =>
        \A k \in DOMAIN registry : registry[k].expires_at + Poll > now

\* A registry key is the key of the descriptor it holds: HandlePacket finds by
\* the descriptor's fields and erases by the key.
KeysAgree == \A k \in DOMAIN registry : KeyOf(registry[k].descriptor) = k

\* A lease that runs ends early only by a stop offer for its own key and is
\* changed only by a new offer for it: neither CleanupExpired nor a request
\* for another service, nor Stop and Start, takes it away.
KeepsLive ==
    \A k \in DOMAIN registry :
        registry[k].expires_at > now =>
            \/ k \in DOMAIN registry' /\ registry'[k] = registry[k]
            \/ \E s \in Sockets, req \in Requests :
                  /\ Receive(s, req)
                  /\ IsStopOffer(req) \/ IsOfferRequest(req)
                  /\ KeyOf(Offered(req)) = k

LiveOfferKept == [][KeepsLive]_vars

-----------------------------------------------------------------------------
(* Liveness *)

\* No socket is starved: a socket that always has a datagram queued is
\* received from again and again, however many arrive at the other.
NoStarvation ==
    \A s \in Sockets :
        \/ []<>(pending[s] = 0 \/ pc = "stopped")
        \/ []<><<\E req \in Requests : Receive(s, req)>>_vars

\* Stop returns: once running_ is false the thread ends, and join with it.
StopReturns == ~ running ~> pc = "stopped"

\* A lease that ran out does not stay in the registry of a running daemon.
ExpiredForgotten ==
    \A k \in Key :
        (k \in DOMAIN registry /\ registry[k].expires_at <= now)
            ~> (k \notin DOMAIN registry \/ registry[k].expires_at > now \/ ~ running)

-----------------------------------------------------------------------------
(* The promise of SdLeases *)

Op(req) ==
    IF IsFindRequest(req) THEN "find"
    ELSE IF IsStopOffer(req) THEN "stop"
    ELSE IF IsOfferRequest(req) THEN "offer"
    ELSE IF Decodable(req) THEN "refused" ELSE "none"

\* What the request was about, as its sender put it.
About(req) ==
    LET query == ParseSdFindPayload(req.payload)
        offer == ParseSdOfferFirst(req.payload)
    IN  IF IsFindRequest(req) THEN << query.service_id, query.instance_id >>
        ELSE IF IsStopOffer(req) THEN << offer.descriptor >>
        ELSE IF IsOfferRequest(req) THEN << offer.descriptor, offer.ttl >> ELSE << >>

Leases == INSTANCE SdLeases WITH
    leases <- registry,
    Grace <- Poll,
    answer <- [op |-> Op(answer.request), about |-> About(answer.request),
               services |-> ParseSdOffers(answer.resp.payload)]

\* A prompt daemon with fewer services than option indexes implements SdLeases.
ImplementsLeases == Leases!Spec
=============================================================================
