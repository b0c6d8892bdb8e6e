------------------------- MODULE VehicleDemoProofs --------------------------
(***************************************************************************)
(* Theorems about the demo programs of VehicleDemo, for any number of        *)
(* consumers and every choice of the periods that fit together.              *)
(***************************************************************************)
EXTENDS VehicleDemo, SequenceTheorems, TLAPS

-----------------------------------------------------------------------------
(* The inductive invariant *)

\* How long the provider has left its timers alone since it last looked at them.
Slack == stray * RecvTimeout + wait

\* Before its loop the provider has neither clocks nor requests.
Fresh ==
    provider \in {"off", "registered"} =>
        refresh_age = 0 /\ wait = 0 /\ stray = 0

\* A turn begins less than a period after the last registration, and grows by
\* nothing but stray datagrams and the present wait.
Timely ==
    /\ provider \in {"serving", "closing"} => refresh_age <= RefreshPeriod - 1 + Slack
    /\ provider = "refreshing" => refresh_age = wait

\* What is left of the lease: each registration lost since the last that was
\* executed has cost MaxAge.
LeaseSpent ==
    provider \in {"registered"} \cup Bound =>
        forgotten \/ Ttl <= lease + Spent(lost) + refresh_age

\* A socket that is not open has received nothing.
MailOpen(c) == phase[c] \notin Receiving => mail[c] = << >>

Acked(received) == \E i \in 1 .. Len(received) : received[i] = "ack"
AskedBy(requests, c) == \E i \in 1 .. Len(requests) : requests[i].from = c

\* An acknowledgement on its way was preceded by the subscription, and so was
\* everything the consumer does with it.
AckNoted(c) ==
    /\ phase[c] = "subscribing" /\ "down" \notin excuse[c] /\ Acked(mail[c]) => c \in subscribers
    /\ phase[c] \in {"calling", "listening"} /\ "down" \notin excuse[c] => c \in subscribers

\* A provider that was not down since a consumer began to wait still has its socket.
Reachable(c) ==
    phase[c] \in Receiving /\ "down" \notin excuse[c] => provider \in Bound \cup {"closing"}

\* The consumer's request is at that socket until something was sent back, and no
\* refresh began since unless the consumer began to wait during it.
Asked(c) ==
    phase[c] \in {"subscribing", "calling"} /\ "down" \notin excuse[c] /\ mail[c] = << >>
    => /\ AskedBy(inbox, c)
       /\ waited[c] = 0 \/ (waited[c] <= refresh_age /\ refresh_age <= CallTimeout)

\* A refresh without an answer excuses everyone who waits during it.
Noticed(c) == provider = "refreshing" /\ phase[c] \in Receiving => "unanswered" \in excuse[c]

\* An event is on its way to who waits for one: the timer runs as long as the
\* wait, and one of the two began in this turn, or the timer not long before it.
EventComing(c) ==
    phase[c] = "listening" /\ excuse[c] = {} /\ mail[c] = << >>
    => /\ waited[c] <= event_age
       /\ waited[c] <= Slack \/ event_age <= EventPeriod - 1 + Slack

Waiting(c) ==
    /\ MailOpen(c) /\ AckNoted(c) /\ Reachable(c)
    /\ Asked(c) /\ Noticed(c) /\ EventComing(c)

IInv ==
    /\ TypeOK /\ Fresh /\ Timely /\ LeaseSpent
    /\ \A c \in Consumer : Waiting(c)

-----------------------------------------------------------------------------
(* Arithmetic *)

LEMMA Positive ==
    /\ RecvTimeout \in Nat \ {0} /\ RefreshPeriod \in Nat \ {0} /\ EventPeriod \in Nat \ {0}
    /\ CallTimeout \in Nat \ {0} /\ Ttl \in Nat \ {0}
    /\ Window \in Nat \ {0} /\ Patience \in Nat \ {0} /\ Wanted \in Nat \ {0}
    /\ MaxLost \in Nat /\ MaxStray \in Nat
BY DemoAssumption

LEMMA TimesStep ==
    ASSUME NEW k \in Nat, NEW w \in Nat
    PROVE  k * w \in Nat /\ (k + 1) * w = k * w + w
OBVIOUS

LEMMA TimesMonotone ==
    ASSUME NEW k \in Nat, NEW n \in Nat, k <= n, NEW w \in Nat
    PROVE  k * w <= n * w
<1>1. n - k \in Nat
  OBVIOUS
<1>2. n * w = k * w + (n - k) * w
  BY <1>1
<1>3. (n - k) * w \in Nat /\ k * w \in Nat
  BY <1>1
<1> QED
  BY <1>2, <1>3

\* What the periods come to: a turn with all its stray datagrams ends by MaxAge,
\* and the lease outlasts MaxLost lost registrations and such a turn.
LEMMA Budget ==
    /\ MaxAge \in Nat
    /\ \A n \in Nat : Spent(n) \in Nat /\ Spent(n + 1) = Spent(n) + MaxAge
    /\ \A n \in 0 .. MaxLost : Spent(n) + MaxAge < Ttl
    /\ Spent(0) = 0
<1>1. (MaxStray + 1) * RecvTimeout \in Nat
  BY TimesStep, Positive
<1>2. MaxAge \in Nat
  BY <1>1, Positive DEF MaxAge
<1>3. ASSUME NEW n \in Nat PROVE Spent(n) \in Nat /\ Spent(n + 1) = Spent(n) + MaxAge
  BY <1>2, TimesStep DEF Spent
<1>4. ASSUME NEW n \in 0 .. MaxLost PROVE Spent(n) + MaxAge < Ttl
  <2>1. Spent(n) <= Spent(MaxLost)
    BY <1>2, TimesMonotone, Positive DEF Spent
  <2>2. Spent(MaxLost + 1) = Spent(MaxLost) + MaxAge /\ Spent(MaxLost) \in Nat /\ Spent(n) \in Nat
    BY <1>3, Positive
  <2> QED
    BY <2>1, <2>2, <1>2, TimingAssumption, Positive
<1>5. Spent(0) = 0
  BY <1>2 DEF Spent
<1> QED
  BY <1>2, <1>3, <1>4, <1>5

\* Slack while it is typed: a number, longer by RecvTimeout at most after another
\* stray datagram, and never more than MaxStray of those and a wait.
LEMMA SlackBound ==
    ASSUME stray \in 0 .. MaxStray, wait \in 0 .. RecvTimeout
    PROVE  /\ Slack \in Nat
           /\ Slack <= (MaxStray + 1) * RecvTimeout
           /\ RefreshPeriod - 1 + Slack <= MaxAge
<1>1. stray * RecvTimeout <= MaxStray * RecvTimeout
  BY TimesMonotone, Positive
<1>2. stray * RecvTimeout \in Nat
  BY TimesStep, Positive
<1>3. /\ MaxStray * RecvTimeout \in Nat
      /\ (MaxStray + 1) * RecvTimeout = MaxStray * RecvTimeout + RecvTimeout
  BY TimesStep, Positive
<1> QED
  BY <1>1, <1>2, <1>3, Positive DEF Slack, MaxAge

-----------------------------------------------------------------------------
(* Types *)

Words == {"ack", "answer", "event"}
Asks == [from : Consumer, method : {"subscribe", "get"}]
Results == {"none", "no service", "invalid", "no answer", "no event", "complete"}
Counts == 0 .. Wanted - 1
Longest == IF Window > Patience THEN Window ELSE Patience

LEMMA LongestWait ==
    /\ Longest \in Nat /\ Window <= Longest /\ Patience <= Longest /\ 0 \in 0 .. Longest
    /\ 0 \in Counts
BY Positive DEF Longest, Counts

ProviderTyped ==
    /\ provider \in {"off", "registered", "closing"} \cup Bound
    /\ stop \in BOOLEAN /\ event_due \in BOOLEAN /\ forgotten \in BOOLEAN
    /\ refresh_age \in 0 .. MaxAge /\ event_age \in Nat
    /\ wait \in 0 .. (IF provider = "refreshing" THEN CallTimeout ELSE RecvTimeout)
    /\ inbox \in Seq(Asks)
    /\ subscribers \subseteq Consumer /\ stray \in 0 .. MaxStray
    /\ lease \in 0 .. Ttl /\ lost \in 0 .. MaxLost

ConsumersTyped ==
    /\ phase \in [Consumer -> {"idle", "found", "ended"} \cup Receiving]
    /\ result \in [Consumer -> Results]
    /\ waited \in [Consumer -> 0 .. Longest]
    /\ mail \in [Consumer -> Seq(Words)]
    /\ events \in [Consumer -> Counts]
    /\ excuse \in [Consumer -> SUBSET {"down", "unanswered"}]

LEMMA TypeOKSplit == TypeOK <=> ProviderTyped /\ ConsumersTyped
BY DEF TypeOK, ProviderTyped, ConsumersTyped, Words, Asks, Results, Counts, Longest

\* The provider's clocks and counts are numbers.
LEMMA Numbers ==
    ASSUME ProviderTyped
    PROVE  /\ refresh_age \in Nat /\ event_age \in Nat /\ wait \in Nat /\ stray \in Nat
           /\ lease \in Nat /\ lost \in Nat /\ Spent(lost) \in Nat
           /\ stray * RecvTimeout \in Nat /\ Slack \in Nat
<1>1. wait \in Nat
  <2>1. (IF provider = "refreshing" THEN CallTimeout ELSE RecvTimeout) \in Nat
    BY Positive
  <2> QED
    BY <2>1 DEF ProviderTyped
<1>2. /\ refresh_age \in Nat /\ event_age \in Nat /\ stray \in Nat
      /\ lease \in Nat /\ lost \in Nat
  BY Budget, Positive DEF ProviderTyped
<1>3. stray * RecvTimeout \in Nat
  BY <1>2, TimesStep, Positive
<1> QED
  BY <1>1, <1>2, <1>3, Budget DEF Slack

LEMMA InitIInv == Init => IInv
<1> SUFFICES ASSUME Init PROVE IInv
  OBVIOUS
<1>1. ProviderTyped
  <2>1. stop \in BOOLEAN /\ event_due \in BOOLEAN /\ forgotten \in BOOLEAN
    BY Zenon DEF Init, LoopInit
  <2>2. /\ refresh_age = 0 /\ event_age = 0 /\ wait = 0 /\ stray = 0 /\ lease = 0 /\ lost = 0
        /\ provider = "off" /\ inbox = << >> /\ subscribers = {}
    BY DEF Init, LoopInit
  <2> QED
    BY <2>1, <2>2, Budget, Positive DEF ProviderTyped
<1>2. ConsumersTyped
  BY LongestWait DEF Init, ConsumersTyped, Results
<1>3. Fresh /\ Timely /\ LeaseSpent
  BY DEF Init, LoopInit, Fresh, Timely, LeaseSpent, Bound
<1>4. ASSUME NEW c \in Consumer PROVE Waiting(c)
  <2>1. phase[c] = "idle" /\ mail[c] = << >> /\ provider = "off"
    BY DEF Init
  <2> QED
    BY <2>1
    DEF Waiting, MailOpen, AckNoted, Reachable, Asked, Noticed, EventComing, Receiving
<1> QED
  BY <1>1, <1>2, <1>3, <1>4, TypeOKSplit DEF IInv

\* What a registration leaves at the daemon, answered or not.
LEMMA RegisterTyped ==
    ASSUME ProviderTyped, NEW a \in BOOLEAN, Register(a)
    PROVE  /\ lease' \in 0 .. Ttl /\ lost' \in 0 .. MaxLost /\ forgotten' \in BOOLEAN
<1>1. CASE lease' = Ttl /\ lost' = 0 /\ forgotten' = FALSE
  <2>1. forgotten' \in BOOLEAN
    BY <1>1, Zenon
  <2> QED
    BY <1>1, <2>1, Positive
<1>2. CASE lost < MaxLost /\ lost' = lost + 1 /\ UNCHANGED << lease, forgotten >>
  BY <1>2, Positive DEF ProviderTyped
<1> QED
  BY <1>1, <1>2 DEF Register

\* An event, an answer or an acknowledgement goes to a socket that is open.
LEMMA PostTyped ==
    ASSUME NEW m \in [Consumer -> Seq(Words)], NEW c \in Consumer,
           NEW what \in Words
    PROVE  Post(m, c, what) \in [Consumer -> Seq(Words)]
BY AppendProperties DEF Post

LEMMA NotifyTyped ==
    ASSUME NEW m \in [Consumer -> Seq(Words)],
           NEW subs \in SUBSET Consumer
    PROVE  Notify(m, subs) \in [Consumer -> Seq(Words)]
<1>1. ASSUME NEW c \in Consumer
      PROVE  Post(m, c, "event")[c] \in Seq(Words)
  BY PostTyped DEF Words
<1> QED
  BY <1>1 DEF Notify

LEMMA ExcuseTyped ==
    ASSUME ConsumersTyped, NEW why \in {"down", "unanswered"}, Excuse(why)
    PROVE  excuse' \in [Consumer -> SUBSET {"down", "unanswered"}]
BY DEF ConsumersTyped, Excuse

\* The end of a turn, whatever was received in it.
LEMMA TimersTyped ==
    ASSUME IInv, provider = "serving", NEW m \in [Consumer -> Seq(Words)],
           subscribers' \subseteq Consumer, Timers(m)
    PROVE  /\ provider' \in {"closing", "serving", "refreshing"}
           /\ stray' = 0 /\ wait' = 0 /\ refresh_age' \in Nat /\ refresh_age' < RefreshPeriod
           /\ event_age' \in Nat /\ event_due' \in BOOLEAN /\ forgotten' \in BOOLEAN
           /\ lease' \in 0 .. Ttl /\ lost' \in 0 .. MaxLost
           /\ mail' \in [Consumer -> Seq(Words)]
           /\ excuse' \in [Consumer -> SUBSET {"down", "unanswered"}]
<1>0. ProviderTyped /\ ConsumersTyped
  BY TypeOKSplit DEF IInv
<1>1. stray' = 0 /\ refresh_age' \in Nat /\ refresh_age' < RefreshPeriod /\ event_age' \in Nat
  BY <1>0, Positive DEF Timers, RefreshDue, ProviderTyped
<1>2. Notify(m, subscribers') \in [Consumer -> Seq(Words)]
  BY NotifyTyped
<1>3. CASE /\ IF RefreshDue THEN Register(TRUE) ELSE UNCHANGED daemon
           /\ mail' = IF EventDue THEN Notify(m, subscribers') ELSE m
           /\ NextTurn
           /\ UNCHANGED << event_due, excuse >>
  <2>1. lease' \in 0 .. Ttl /\ lost' \in 0 .. MaxLost /\ forgotten' \in BOOLEAN
    BY <1>0, <1>3, RegisterTyped DEF ProviderTyped, daemon
  <2> QED
    BY <1>0, <1>1, <1>2, <1>3, <2>1 DEF NextTurn, ProviderTyped, ConsumersTyped
<1>4. CASE /\ RefreshDue /\ Register(FALSE)
           /\ mail' = m
           /\ provider' = "refreshing" /\ wait' = 0 /\ event_due' = EventDue
           /\ Excuse("unanswered")
  <2>1. lease' \in 0 .. Ttl /\ lost' \in 0 .. MaxLost /\ forgotten' \in BOOLEAN
    BY <1>0, <1>4, RegisterTyped
  <2>2. excuse' \in [Consumer -> SUBSET {"down", "unanswered"}]
    BY <1>0, <1>4, ExcuseTyped
  <2>3. event_due' \in BOOLEAN
    BY <1>4 DEF EventDue
  <2> QED
    BY <1>1, <1>4, <2>1, <2>2, <2>3
<1> QED
  BY <1>3, <1>4 DEF Timers

LEMMA EndTyped ==
    ASSUME ConsumersTyped, NEW c \in Consumer, NEW how \in Results, End(c, how)
    PROVE  ConsumersTyped'
<1>1. << >> \in Seq(Words)
  OBVIOUS
<1>2. mail' \in [Consumer -> Seq(Words)]
  BY <1>1 DEF ConsumersTyped, End
<1> QED
  BY <1>2, LongestWait DEF ConsumersTyped, End, Now

LEMMA WaitTyped ==
    ASSUME ConsumersTyped, NEW c \in Consumer, Wait(c)
    PROVE  /\ waited' \in [Consumer -> 0 .. Longest]
           /\ excuse' \in [Consumer -> SUBSET {"down", "unanswered"}]
<1>1. Trouble \subseteq {"down", "unanswered"}
  BY DEF Trouble
<1> QED
  BY <1>1, LongestWait DEF ConsumersTyped, Wait

LEMMA SendTyped ==
    ASSUME ProviderTyped, NEW c \in Consumer, NEW method \in {"subscribe", "get"},
           Send(c, method)
    PROVE  inbox' \in Seq(Asks)
<1>1. [from |-> c, method |-> method] \in Asks
  BY DEF Asks
<1> QED
  BY <1>1, AppendProperties DEF ProviderTyped, Send

\* What is taken from a consumer's socket leaves the rest.
LEMMA TakenTyped ==
    ASSUME ConsumersTyped, NEW c \in Consumer, mail[c] # << >>, Taken(c)
    PROVE  mail' \in [Consumer -> Seq(Words)]
<1>1. Tail(mail[c]) \in Seq(Words)
  BY HeadTailProperties DEF ConsumersTyped
<1> QED
  BY <1>1 DEF ConsumersTyped, Taken

\* The steps of the consumers leave the rest of the provider alone.
LEMMA StaysTyped ==
    ASSUME ProviderTyped, ProviderStays,
           inbox' \in Seq(Asks)
    PROVE  ProviderTyped'
BY DEF ProviderTyped, ProviderStays, daemon

LEMMA GoneTyped ==
    ASSUME ProviderTyped, ConsumersTyped, Gone,
           lease' \in 0 .. Ttl, lost' = lost, forgotten' = forgotten
    PROVE  ProviderTyped' /\ ConsumersTyped'
<1>1. stop' \in BOOLEAN /\ event_due' \in BOOLEAN
  BY Zenon DEF Gone
<1>2. forgotten' \in BOOLEAN
  BY DEF ProviderTyped
<1>3. ProviderTyped'
  BY <1>1, <1>2, Budget, Positive DEF ProviderTyped, Gone, Bound
<1>4. excuse' \in [Consumer -> SUBSET {"down", "unanswered"}]
  BY ExcuseTyped DEF Gone
<1> QED
  BY <1>3, <1>4 DEF ConsumersTyped, Gone

LEMMA TurnTyped ==
    ASSUME IInv, provider = "serving", NEW m \in [Consumer -> Seq(Words)], Timers(m),
           subscribers' \subseteq Consumer, inbox' \in Seq(Asks),
           UNCHANGED << stop, phase, result, waited, events >>
    PROVE  ProviderTyped' /\ ConsumersTyped'
<1>0. ProviderTyped /\ ConsumersTyped
  BY TypeOKSplit DEF IInv
<1>1. refresh_age' \in 0 .. MaxAge
  <2>1. RefreshPeriod - 1 <= MaxAge
    BY TimesStep, Positive DEF MaxAge
  <2> QED
    <3>1. refresh_age' \in Nat /\ refresh_age' < RefreshPeriod
      BY TimersTyped
    <3> QED
      BY <2>1, <3>1, Budget, Positive
<1>2. /\ provider' \in {"closing"} \cup Bound
      /\ wait' \in 0 .. (IF provider' = "refreshing" THEN CallTimeout ELSE RecvTimeout)
      /\ stray' \in 0 .. MaxStray
  BY TimersTyped, Positive DEF Bound
<1>3. ProviderTyped'
  BY <1>0, <1>1, <1>2, TimersTyped DEF ProviderTyped
<1>4. ConsumersTyped'
  BY <1>0, TimersTyped DEF ConsumersTyped
<1> QED
  BY <1>3, <1>4

LEMMA ProviderTypeStep ==
    ASSUME IInv, Start \/ BindFails \/ ProviderStep \/ ReceiveStray \/ Signal \/ Crash
                   \/ DaemonRestart \/ SecondProvider
    PROVE  ProviderTyped' /\ ConsumersTyped'
<1>0. ProviderTyped /\ ConsumersTyped
  BY TypeOKSplit DEF IInv
<1>1. ASSUME UNCHANGED consumers PROVE ConsumersTyped'
  BY <1>0, <1>1 DEF ConsumersTyped, consumers
<1>2. CASE Start
  <2>1. lease' \in 0 .. Ttl /\ lost' \in 0 .. MaxLost /\ forgotten' \in BOOLEAN
    BY <1>0, <1>2, RegisterTyped DEF Start
  <2> QED
    BY <1>0, <1>1, <1>2, <2>1 DEF Start, loop, ProviderTyped
<1>3. CASE Bind
  BY <1>0, <1>1, <1>3, Positive DEF Bind, loop, daemon, ProviderTyped, Bound
<1>4. CASE BindFails
  <2>1. stop' \in BOOLEAN
    BY <1>4, Zenon DEF BindFails
  <2> QED
    BY <1>0, <1>1, <1>4, <2>1, Positive DEF BindFails, Unregister, loop, ProviderTyped, Bound
<1>5. CASE Receive
  <2>0. Head(inbox).from \in Consumer /\ Tail(inbox) \in Seq(Asks)
    <3>1. inbox \in Seq(Asks) /\ inbox # << >>
      BY <1>0, <1>5 DEF Receive, ProviderTyped
    <3>2. Head(inbox) \in Asks /\ Tail(inbox) \in Seq(Asks)
      BY <3>1, HeadTailProperties
    <3> QED
      BY <3>2 DEF Asks
  <2>1. PICK m : /\ m \in [Consumer -> Seq(Words)] /\ Timers(m)
    <3> DEFINE from == Head(inbox).from
               what == IF Head(inbox).method = "get" THEN "answer" ELSE "ack"
    <3>1. from \in Consumer /\ what \in Words
      BY <2>0 DEF Words
    <3>2. Post(mail, from, what) \in [Consumer -> Seq(Words)]
      BY <1>0, <3>1, PostTyped DEF ConsumersTyped
    <3> QED
      BY <1>5, <3>2 DEF Receive
  <2>2. /\ subscribers' \subseteq Consumer
        /\ inbox' \in Seq(Asks)
        /\ UNCHANGED << stop, phase, result, waited, events >>
        /\ provider = "serving"
    BY <1>0, <1>5, <2>0 DEF Receive, ProviderTyped
  <2> QED
    BY <1>0, <2>1, <2>2, TurnTyped
<1>6. CASE ReceiveNothing
  <2>1. mail \in [Consumer -> Seq(Words)] /\ subscribers' \subseteq Consumer
    BY <1>0, <1>6 DEF ReceiveNothing, ConsumersTyped, ProviderTyped
  <2> QED
    BY <1>0, <1>6, <2>1, TurnTyped DEF ReceiveNothing, ProviderTyped
<1>7. CASE RefreshEnds
  <2>1. mail' \in [Consumer -> Seq(Words)]
    BY <1>0, <1>7, NotifyTyped DEF RefreshEnds, ConsumersTyped, ProviderTyped
  <2>2. event_due' \in BOOLEAN
    BY <1>7, Zenon DEF RefreshEnds
  <2>3. ProviderTyped'
    <3>1. provider' \in {"serving", "closing"} /\ wait' = 0
      BY <1>7 DEF RefreshEnds, NextTurn
    <3> QED
      BY <1>0, <1>7, <2>2, <3>1, Positive DEF RefreshEnds, ProviderTyped, daemon, Bound
  <2> QED
    BY <1>0, <1>7, <2>1, <2>3 DEF RefreshEnds, ConsumersTyped
<1>8. CASE Close
  BY <1>0, <1>8, GoneTyped, Positive DEF Close, Unregister, ProviderTyped
<1>9. CASE ReceiveStray
  <2>1. stray' \in 0 .. MaxStray /\ wait' = 0 /\ provider' \in {"serving", "closing"}
    BY <1>0, <1>9, Positive DEF ReceiveStray, NextTurn, ProviderTyped
  <2> QED
    BY <1>0, <1>1, <1>9, <2>1, Positive DEF ReceiveStray, ProviderTyped, daemon, Bound
<1>10. CASE Signal
  <2>1. stop' \in BOOLEAN
    BY <1>10, Zenon DEF Signal
  <2> QED
    BY <1>0, <1>1, <1>10, <2>1 DEF Signal, ProviderTyped, loop, daemon
<1>11. CASE Crash
  BY <1>0, <1>11, GoneTyped DEF Crash, ProviderTyped, daemon
<1>12. CASE DaemonRestart
  <2>1. forgotten' \in BOOLEAN
    BY <1>12, Zenon DEF DaemonRestart
  <2> QED
    BY <1>0, <1>1, <1>12, <2>1, Positive DEF DaemonRestart, ProviderTyped, loop
<1>13. CASE SecondProvider
  <2>1. forgotten' \in BOOLEAN
    BY <1>13 DEF SecondProvider
  <2> QED
    BY <1>0, <1>1, <1>13, <2>1, Positive DEF SecondProvider, ProviderTyped, loop
<1> QED
  BY <1>2, <1>3, <1>4, <1>5, <1>6, <1>7, <1>8, <1>9, <1>10, <1>11, <1>12, <1>13 DEF ProviderStep

LEMMA ConsumerTypeStep ==
    ASSUME IInv, NEW c \in Consumer, ConsumerStep(c) \/ Restart(c)
    PROVE  ProviderTyped' /\ ConsumersTyped'
<1>0. ProviderTyped /\ ConsumersTyped
  BY TypeOKSplit DEF IInv
<1>1. ASSUME NEW how \in Results, End(c, how), ProviderStays
      PROVE  ProviderTyped' /\ ConsumersTyped'
  BY <1>0, <1>1, EndTyped, StaysTyped DEF End, ProviderTyped
<1>2. CASE Discover(c)
  <2>1. CASE End(c, "no service")
    BY <1>1, <1>2, <2>1 DEF Discover, Results
  <2>2. CASE Now(c, "found") /\ UNCHANGED << result, waited, mail, events, excuse, inbox >>
    BY <1>0, <1>2, <2>2, StaysTyped DEF Discover, Now, ProviderTyped, ConsumersTyped
  <2> QED
    BY <1>2, <2>1, <2>2 DEF Discover
<1>3. CASE Subscribe(c)
  BY <1>0, <1>3, WaitTyped, SendTyped, StaysTyped DEF Subscribe, Now, ConsumersTyped, Receiving
<1>4. CASE ReceiveAck(c)
  <2>1. CASE Head(mail[c]) = "ack"
    BY <1>0, <1>4, <2>1, WaitTyped, SendTyped, TakenTyped, StaysTyped
    DEF ReceiveAck, Now, ConsumersTyped, Receiving
  <2>2. CASE Head(mail[c]) # "ack"
    BY <1>1, <1>4, <2>2 DEF ReceiveAck, Results
  <2> QED
    BY <2>1, <2>2
<1>5. CASE ReceiveAnswer(c)
  <2>1. CASE Head(mail[c]) = "answer"
    BY <1>0, <1>5, <2>1, WaitTyped, TakenTyped, StaysTyped
    DEF ReceiveAnswer, Now, ConsumersTyped, ProviderTyped, Receiving
  <2>2. CASE Head(mail[c]) # "answer"
    BY <1>1, <1>5, <2>2 DEF ReceiveAnswer, Results
  <2> QED
    BY <2>1, <2>2
<1>6. CASE ReceiveEvent(c)
  <2> DEFINE count == IF Head(mail[c]) = "event" THEN events[c] + 1 ELSE events[c]
  <2>1. CASE count = Wanted
    BY <1>1, <1>6, <2>1 DEF ReceiveEvent, Results
  <2>2. CASE count # Wanted
    <3>1. count \in Counts
      <4>1. events[c] \in 0 .. Wanted - 1
        BY <1>0 DEF ConsumersTyped, Counts
      <4> QED
        BY <2>2, <4>1, Positive DEF Counts
    <3>2. /\ events' = [events EXCEPT ![c] = count]
          /\ Wait(c) /\ Taken(c) /\ ProviderStays
          /\ UNCHANGED << phase, result, inbox >> /\ mail[c] # << >>
      BY <1>6, <2>2 DEF ReceiveEvent
    <3>3. ProviderTyped'
      BY <1>0, <3>2, StaysTyped DEF ProviderTyped
    <3>4. mail' \in [Consumer -> Seq(Words)]
      BY <1>0, <3>2, TakenTyped
    <3> HIDE DEF count
    <3> QED
      BY <1>0, <3>1, <3>2, <3>3, <3>4, WaitTyped DEF ConsumersTyped
  <2> QED
    BY <2>1, <2>2
<1>7. CASE TimeOut(c)
  BY <1>1, <1>7 DEF TimeOut, Results
<1>8. CASE Restart(c)
  BY <1>0, <1>8, StaysTyped DEF Restart, Now, ProviderTyped, ConsumersTyped, Results
<1> QED
  BY <1>2, <1>3, <1>4, <1>5, <1>6, <1>7, <1>8 DEF ConsumerStep

LEMMA TickTypeStep == ASSUME IInv, Tick PROVE ProviderTyped' /\ ConsumersTyped'
<1>0. ProviderTyped /\ ConsumersTyped /\ Timely
  BY TypeOKSplit DEF IInv
<1>1. ASSUME provider = "serving", wait < RecvTimeout PROVE refresh_age + 1 \in 0 .. MaxAge
  <2>1. stray \in 0 .. MaxStray /\ wait + 1 \in 0 .. RecvTimeout
    BY <1>0, <1>1, Positive DEF ProviderTyped
  <2>2. RefreshPeriod - 1 + (stray * RecvTimeout + (wait + 1)) <= MaxAge
    <3>1. stray * RecvTimeout <= MaxStray * RecvTimeout
      BY <2>1, TimesMonotone, Positive
    <3>2. (MaxStray + 1) * RecvTimeout = MaxStray * RecvTimeout + RecvTimeout
      BY TimesStep, Positive
    <3>3. stray * RecvTimeout \in Nat /\ MaxStray * RecvTimeout \in Nat
      BY <2>1, TimesStep, Positive
    <3> QED
      BY <2>1, <3>1, <3>2, <3>3, Positive DEF MaxAge
  <2>3. refresh_age <= RefreshPeriod - 1 + (stray * RecvTimeout + wait)
    BY <1>0, <1>1 DEF Timely, Slack
  <2>4. stray * RecvTimeout \in Nat
    BY <2>1, TimesStep, Positive
  <2> QED
    BY <1>0, <2>1, <2>2, <2>3, <2>4, Positive, Budget DEF ProviderTyped
<1>2. ASSUME provider = "refreshing", wait < CallTimeout PROVE refresh_age + 1 \in 0 .. MaxAge
  <2>1. RefreshPeriod - 1 <= MaxAge
    BY TimesStep, Positive DEF MaxAge
  <2> QED
    BY <1>0, <1>2, <2>1, Positive, Budget, TimingAssumption DEF ProviderTyped, Timely
<1>3. ProviderTyped'
  <2>1. lease' \in 0 .. Ttl
    BY <1>0, Positive DEF Tick, ProviderTyped
  <2>2. refresh_age' \in 0 .. MaxAge /\ event_age' \in Nat
    BY <1>0, <1>1, <1>2 DEF Tick, ProviderTyped
  <2>3. wait' \in 0 .. (IF provider = "refreshing" THEN CallTimeout ELSE RecvTimeout)
    BY <1>0, Positive DEF Tick, ProviderTyped
  <2> QED
    BY <1>0, <2>1, <2>2, <2>3 DEF Tick, ProviderTyped
<1>4. ConsumersTyped'
  <2>1. waited' \in [Consumer -> 0 .. Longest]
    <3>1. ASSUME NEW c \in Consumer, phase[c] \in Receiving \cup {"found"}
          PROVE  waited[c] + 1 \in 0 .. Longest
      BY <1>0, <3>1, LongestWait, Positive DEF Tick, ConsumersTyped
    <3> QED
      BY <1>0, <3>1 DEF Tick, ConsumersTyped
  <2> QED
    BY <1>0, <2>1 DEF Tick, ConsumersTyped
<1> QED
  BY <1>3, <1>4

LEMMA TypeStep == ASSUME IInv, Next PROVE TypeOK'
<1>1. ProviderTyped' /\ ConsumersTyped'
  BY ProviderTypeStep, ConsumerTypeStep, TickTypeStep DEF Next
<1> QED
  BY <1>1
      DEF TypeOK, ProviderTyped, ConsumersTyped, Words, Asks, Results, Counts, Longest

-----------------------------------------------------------------------------
(* The lease *)

\* A registration that is executed fills the lease up; a lost one costs what the
\* timers have counted.
LEMMA RegisterSpends ==
    ASSUME ProviderTyped, NEW a \in BOOLEAN, Register(a),
           forgotten \/ Ttl <= lease + Spent(lost) + refresh_age
    PROVE  forgotten' \/ Ttl <= lease' + Spent(lost')
<1>1. CASE lease' = Ttl /\ lost' = 0 /\ forgotten' = FALSE
  BY <1>1, Budget, Positive
<1>2. CASE lost < MaxLost /\ lost' = lost + 1 /\ UNCHANGED << lease, forgotten >>
  <2>1. Spent(lost + 1) = Spent(lost) + MaxAge /\ Spent(lost) \in Nat
    BY Budget DEF ProviderTyped
  <2>2. refresh_age <= MaxAge /\ refresh_age \in Nat /\ lease \in Nat /\ MaxAge \in Nat
    BY Budget, Positive DEF ProviderTyped
  <2> QED
    BY <1>2, <2>1, <2>2, Positive
<1> QED
  BY <1>1, <1>2 DEF Register

\* The end of a turn keeps Timely and LeaseSpent.
LEMMA TimersSpend ==
    ASSUME IInv, provider = "serving", NEW m, Timers(m)
    PROVE  Fresh' /\ Timely' /\ LeaseSpent'
<1>0. ProviderTyped /\ LeaseSpent
  BY TypeOKSplit DEF IInv
<1>1. /\ provider' \in {"closing", "serving", "refreshing"}
      /\ stray' = 0 /\ wait' = 0 /\ refresh_age' \in Nat /\ refresh_age' < RefreshPeriod
      /\ RefreshDue => refresh_age' = 0
      /\ provider' = "refreshing" => RefreshDue
  <2>1. refresh_age' = (IF RefreshDue THEN 0 ELSE refresh_age) /\ stray' = 0
    BY DEF Timers
  <2>2. refresh_age' \in Nat /\ refresh_age' < RefreshPeriod
    BY <1>0, <2>1, Numbers, Positive DEF RefreshDue
  <2>3. /\ provider' \in {"closing", "serving", "refreshing"} /\ wait' = 0
        /\ provider' = "refreshing" => RefreshDue
    BY DEF Timers, NextTurn
  <2> QED
    BY <2>1, <2>2, <2>3
<1>2. Slack' = 0
  BY <1>1, Positive DEF Slack
<1>3. Fresh' /\ Timely'
  BY <1>1, <1>2, Positive DEF Fresh, Timely
<1>4. forgotten \/ Ttl <= lease + Spent(lost) + refresh_age
  BY <1>0 DEF LeaseSpent, Bound
<1>5. CASE RefreshDue
  <2>1. PICK a \in BOOLEAN : Register(a)
    BY <1>5 DEF Timers
  <2>2. forgotten' \/ Ttl <= lease' + Spent(lost')
    BY <1>0, <1>4, <2>1, RegisterSpends
  <2>3. Spent(lost') \in Nat /\ lease' \in Nat
    BY <1>0, <2>1, RegisterTyped, Budget
  <2> QED
    BY <1>1, <1>3, <1>5, <2>2, <2>3, Positive DEF LeaseSpent
<1>6. CASE ~ RefreshDue
  <2>1. UNCHANGED << lease, lost, forgotten, refresh_age >>
    BY <1>6 DEF Timers, daemon
  <2> QED
    BY <1>3, <1>4, <2>1 DEF LeaseSpent
<1> QED
  BY <1>5, <1>6

LEMMA LeaseStep == ASSUME IInv, Next PROVE Fresh' /\ Timely' /\ LeaseSpent'
<1>0. ProviderTyped /\ Fresh /\ Timely /\ LeaseSpent
  BY TypeOKSplit DEF IInv
<1>1. CASE Start
  <2>1. provider = "off" /\ UNCHANGED loop /\ provider' \in {"off", "registered"}
    BY <1>1 DEF Start
  <2>2. Fresh' /\ Timely'
    BY <1>0, <2>1 DEF Fresh, Timely, loop
  <2>3. ASSUME provider' = "registered"
        PROVE  forgotten' \/ Ttl <= lease' + Spent(lost') + refresh_age'
    <3>1. Register(TRUE)
      BY <1>1, <2>3 DEF Start
    <3>2. lease' = Ttl /\ lost' = 0
      BY <3>1 DEF Register
    <3> QED
      BY <1>0, <2>1, <3>2, Budget, Positive DEF Fresh, loop
  <2> QED
    BY <2>1, <2>2, <2>3 DEF LeaseSpent, Bound
<1>2. CASE Bind
  <2>1. Fresh' /\ Timely'
    BY <1>0, <1>2, Positive DEF Bind, Fresh, Timely, loop, Slack
  <2> QED
    BY <1>0, <1>2, <2>1 DEF Bind, LeaseSpent, Bound, loop, daemon
<1>3. CASE BindFails
  BY <1>0, <1>3 DEF BindFails, Fresh, Timely, LeaseSpent, Bound, loop
<1>4. CASE Receive
  BY <1>4, TimersSpend DEF Receive
<1>5. CASE ReceiveNothing
  BY <1>5, TimersSpend DEF ReceiveNothing
<1>6. CASE ReceiveStray
  <2>1. /\ provider' \in {"serving", "closing"} /\ wait' = 0 /\ stray' = stray + 1
        /\ UNCHANGED << refresh_age, lease, lost, forgotten >> /\ provider = "serving"
    BY <1>6 DEF ReceiveStray, NextTurn, daemon
  <2>2. Slack <= Slack' /\ Slack \in Nat /\ Slack' \in Nat
    <3>1. stray \in Nat /\ wait \in 0 .. RecvTimeout
      BY <1>0, <2>1, Positive DEF ProviderTyped
    <3>2. stray * RecvTimeout \in Nat /\ (stray + 1) * RecvTimeout = stray * RecvTimeout + RecvTimeout
      BY <3>1, TimesStep, Positive
    <3> QED
      BY <2>1, <3>1, <3>2, Positive DEF Slack
  <2>3. Fresh' /\ Timely'
    <3>1. refresh_age \in Nat /\ refresh_age <= RefreshPeriod - 1 + Slack
      BY <1>0, <2>1, Numbers DEF Timely
    <3>2. refresh_age' = refresh_age
      BY <2>1
    <3>3. refresh_age' <= RefreshPeriod - 1 + Slack'
      BY <2>2, <3>1, <3>2, Positive DEF Slack
    <3> QED
      BY <2>1, <3>3 DEF Fresh, Timely
  <2> QED
    BY <1>0, <2>1, <2>3 DEF LeaseSpent, Bound
<1>7. CASE RefreshEnds
  <2>1. /\ provider = "refreshing" /\ provider' \in {"serving", "closing"}
        /\ wait = CallTimeout /\ wait' = 0
        /\ UNCHANGED << refresh_age, stray, lease, lost, forgotten >>
    BY <1>7 DEF RefreshEnds, NextTurn, daemon
  <2>2. Slack' \in Nat
    BY <1>0, <2>1, Numbers DEF Slack
  <2>3. refresh_age' <= RefreshPeriod - 1 + Slack'
    <3>1. refresh_age' = CallTimeout
      BY <1>0, <2>1 DEF Timely
    <3> QED
      BY <2>2, <3>1, TimingAssumption, Positive DEF Slack
  <2>4. Fresh' /\ Timely'
    BY <2>1, <2>3 DEF Fresh, Timely
  <2> QED
    BY <1>0, <2>1, <2>4 DEF LeaseSpent, Bound
<1>8. CASE Close \/ Crash
  BY <1>8 DEF Close, Crash, Gone, Fresh, Timely, LeaseSpent, Bound
<1>9. CASE Signal
  BY <1>0, <1>9 DEF Signal, loop, daemon, Fresh, Timely, LeaseSpent, Slack
<1>10. CASE DaemonRestart
  BY <1>0, <1>10 DEF DaemonRestart, loop, Fresh, Timely, LeaseSpent, Slack
<1>11. CASE SecondProvider
  <2>1. Fresh' /\ Timely'
    BY <1>0, <1>11 DEF SecondProvider, loop, Fresh, Timely, Slack
  <2>2. Spent(lost) \in Nat /\ refresh_age \in Nat
    BY <1>0, Budget DEF ProviderTyped
  <2>3. lease' = Ttl \/ forgotten'
    BY <1>11 DEF SecondProvider
  <2> QED
    BY <1>11, <2>1, <2>2, <2>3, Positive DEF SecondProvider, loop, LeaseSpent
<1>12. CASE \E c \in Consumer : ConsumerStep(c) \/ Restart(c)
  <2>1. ProviderStays
    BY <1>12
    DEF ConsumerStep, Discover, Subscribe, ReceiveAck, ReceiveAnswer, ReceiveEvent, TimeOut, Restart
  <2> QED
    BY <1>0, <2>1 DEF ProviderStays, daemon, Fresh, Timely, LeaseSpent, Slack
<1>13. CASE Tick
  <2>1. CASE provider = "off"
    BY <1>0, <1>13, <2>1 DEF Tick, Fresh, Timely, LeaseSpent, Bound
  <2>2. CASE provider \in Bound
    <3>1. /\ wait' = wait + 1 /\ refresh_age' = refresh_age + 1
          /\ UNCHANGED << provider, stray, lost, forgotten >>
          /\ lease' = IF lease > 0 THEN lease - 1 ELSE 0
      BY <1>13, <2>2 DEF Tick, Bound
    <3>2. /\ stray * RecvTimeout \in Nat /\ wait \in Nat /\ refresh_age \in Nat
          /\ lease \in Nat /\ Spent(lost) \in Nat
      BY <1>0, Numbers
    <3>3. Slack' = Slack + 1 /\ Slack \in Nat
      BY <3>1, <3>2 DEF Slack
    <3>4. Fresh' /\ Timely'
      BY <1>0, <2>2, <3>1, <3>2, <3>3, Positive DEF Fresh, Timely, Bound
    <3> QED
      BY <1>0, <2>2, <3>1, <3>2, <3>4, Positive DEF LeaseSpent
  <2> QED
    BY <1>13, <2>1, <2>2 DEF Tick, Bound
<1> QED
  BY <1>1, <1>2, <1>3, <1>4, <1>5, <1>6, <1>7, <1>8, <1>9, <1>10, <1>11, <1>12, <1>13
  DEF Next, ProviderStep

-----------------------------------------------------------------------------
(* What is on its way *)

LEMMA AckedFacts ==
    ASSUME NEW s \in Seq(Words), NEW w \in Words
    PROVE  /\ Append(s, w) # << >>
           /\ Acked(Append(s, w)) => Acked(s) \/ w = "ack"
           /\ s # << >> /\ Head(s) = "ack" => Acked(s)
<1>1. Append(s, w) # << >>
  BY AppendProperties
<1>2. ASSUME Acked(Append(s, w)), w # "ack" PROVE Acked(s)
  <2>1. PICK i \in 1 .. Len(Append(s, w)) : Append(s, w)[i] = "ack"
    BY <1>2 DEF Acked
  <2>2. Len(Append(s, w)) = Len(s) + 1 /\ Append(s, w)[Len(s) + 1] = w /\ Len(s) \in Nat
    BY AppendProperties, LenProperties
  <2>3. i \in 1 .. Len(s)
    BY <1>2, <2>1, <2>2
  <2> QED
    BY <2>1, <2>3, AppendProperties DEF Acked
<1>3. ASSUME s # << >>, Head(s) = "ack" PROVE Acked(s)
  <2>1. Len(s) \in Nat /\ Len(s) > 0 /\ Head(s) = s[1]
    BY <1>3, HeadTailProperties, LenProperties, EmptySeq
  <2> QED
    BY <1>3, <2>1 DEF Acked
<1> QED
  BY <1>1, <1>2, <1>3

\* Requests stay where they are when another one comes or is taken.
LEMMA AskedFacts ==
    ASSUME NEW s \in Seq(Asks), NEW r \in Asks, NEW c \in Consumer
    PROVE  /\ AskedBy(s, c) => AskedBy(Append(s, r), c)
           /\ r.from = c => AskedBy(Append(s, r), c)
           /\ s # << >> /\ Head(s).from # c /\ AskedBy(s, c) => AskedBy(Tail(s), c)
<1>1. Len(Append(s, r)) = Len(s) + 1 /\ Append(s, r)[Len(s) + 1] = r /\ Len(s) \in Nat
  BY AppendProperties, LenProperties
<1>2. ASSUME AskedBy(s, c) PROVE AskedBy(Append(s, r), c)
  <2>1. PICK i \in 1 .. Len(s) : s[i].from = c
    BY <1>2 DEF AskedBy
  <2>2. Append(s, r)[i] = s[i] /\ i \in 1 .. Len(Append(s, r))
    BY <1>1, <2>1, AppendProperties
  <2> QED
    BY <2>1, <2>2 DEF AskedBy
<1>3. ASSUME r.from = c PROVE AskedBy(Append(s, r), c)
  <2>1. Len(s) + 1 \in 1 .. Len(Append(s, r))
    BY <1>1
  <2> QED
    BY <1>1, <1>3, <2>1 DEF AskedBy
<1>4. ASSUME s # << >>, Head(s).from # c, AskedBy(s, c) PROVE AskedBy(Tail(s), c)
  <2>1. PICK i \in 1 .. Len(s) : s[i].from = c
    BY <1>4 DEF AskedBy
  <2>2. /\ Head(s) = s[1] /\ Len(Tail(s)) = Len(s) - 1
        /\ \A j \in 1 .. Len(Tail(s)) : Tail(s)[j] = s[j + 1]
    BY <1>4, HeadTailProperties
  <2>3. i # 1
    BY <1>4, <2>1, <2>2
  <2>4. i - 1 \in 1 .. Len(Tail(s)) /\ i - 1 + 1 = i
    BY <1>1, <2>1, <2>2, <2>3
  <2>5. Tail(s)[i - 1] = s[i]
    BY <2>2, <2>4
  <2> QED
    BY <2>1, <2>4, <2>5 DEF AskedBy
<1> QED
  BY <1>2, <1>3, <1>4

\* The provider adds to what open sockets have received, and acknowledges only
\* what it noted.
Grown(m, c, subs) ==
    \/ m[c] = mail[c]
    \/ /\ phase[c] \in Receiving /\ m[c] # << >>
       /\ Acked(m[c]) => Acked(mail[c]) \/ c \in subs

LEMMA PostGrown ==
    ASSUME ConsumersTyped, NEW c \in Consumer, NEW d \in Consumer, NEW what \in Words,
           NEW subs, what = "ack" => d \in subs
    PROVE  /\ Grown(Post(mail, d, what), c, subs)
           /\ c = d /\ phase[c] \in Receiving => Post(mail, d, what)[c] # << >>
<1>1. mail[c] \in Seq(Words) /\ mail \in [Consumer -> Seq(Words)]
  BY DEF ConsumersTyped
<1>2. CASE c = d /\ phase[c] \in Receiving
  <2>1. Post(mail, d, what)[c] = Append(mail[c], what)
    BY <1>1, <1>2 DEF Post
  <2> QED
    BY <1>1, <1>2, <2>1, AckedFacts DEF Grown
<1>3. CASE ~ (c = d /\ phase[c] \in Receiving)
  <2>1. Post(mail, d, what)[c] = mail[c]
    BY <1>1, <1>3 DEF Post
  <2> QED
    BY <1>3, <2>1 DEF Grown
<1> QED
  BY <1>2, <1>3

LEMMA NotifyGrown ==
    ASSUME NEW m \in [Consumer -> Seq(Words)], NEW c \in Consumer, NEW subs, Grown(m, c, subs)
    PROVE  /\ Grown(Notify(m, subs), c, subs)
           /\ Notify(m, subs)[c] = << >> => m[c] = << >>
           /\ c \in subs /\ phase[c] \in Receiving => Notify(m, subs)[c] # << >>
<1>1. CASE c \in subs /\ phase[c] \in Receiving
  <2>1. Notify(m, subs)[c] = Append(m[c], "event")
    BY <1>1 DEF Notify, Post
  <2> QED
    BY <1>1, <2>1, AckedFacts DEF Grown, Words
<1>2. CASE ~ (c \in subs /\ phase[c] \in Receiving)
  <2>1. Notify(m, subs)[c] = m[c]
    BY <1>2 DEF Notify, Post
  <2> QED
    BY <1>2, <2>1 DEF Grown
<1> QED
  BY <1>1, <1>2

LEMMA GrownKeeps ==
    ASSUME NEW c \in Consumer, Waiting(c), phase' = phase, subscribers \subseteq subscribers',
           "down" \in excuse[c] => "down" \in excuse'[c], Grown(mail', c, subscribers')
    PROVE  MailOpen(c)' /\ AckNoted(c)'
BY DEF Waiting, MailOpen, AckNoted, Grown

-----------------------------------------------------------------------------
(* The consumers while the provider moves *)

\* The end of a turn: what was received may have brought an answer.
LEMMA TurnWaits ==
    ASSUME IInv, provider = "serving", NEW m \in [Consumer -> Seq(Words)], Timers(m),
           subscribers \subseteq subscribers', subscribers' \subseteq Consumer,
           UNCHANGED << phase, waited >>, NEW c \in Consumer, Grown(m, c, subscribers'),
           AskedBy(inbox, c) /\ phase[c] \in Receiving /\ m[c] = << >> => AskedBy(inbox', c)
    PROVE  Waiting(c)'
<1>0. ProviderTyped /\ ConsumersTyped /\ Waiting(c)
  BY TypeOKSplit DEF IInv
<1> DEFINE done == UNCHANGED excuse /\ provider' # "refreshing"
                   /\ mail' = IF EventDue THEN Notify(m, subscribers') ELSE m
           left == RefreshDue /\ mail' = m /\ Excuse("unanswered") /\ provider' = "refreshing"
<1>1. done \/ left
  BY DEF Timers, NextTurn
<1>2. Grown(mail', c, subscribers') /\ (mail'[c] = << >> => m[c] = << >>)
  BY <1>1, NotifyGrown
<1>3. /\ excuse[c] \subseteq excuse'[c] /\ ("down" \in excuse'[c] => "down" \in excuse[c])
      /\ left /\ phase[c] \in Receiving => "unanswered" \in excuse'[c]
  BY <1>0, <1>1 DEF Excuse, ConsumersTyped
<1>4. MailOpen(c)' /\ AckNoted(c)'
  BY <1>0, <1>2, <1>3, GrownKeeps
<1>5. provider' \in {"closing"} \cup Bound
  BY DEF Timers, NextTurn, Bound
<1>6. Reachable(c)' /\ Noticed(c)'
  BY <1>1, <1>3, <1>5 DEF Reachable, Noticed
<1>7. mail'[c] = << >> => mail[c] = << >>
  BY <1>2 DEF Grown
<1>8. /\ RefreshDue => ~ (refresh_age <= CallTimeout)
      /\ refresh_age' = IF RefreshDue THEN 0 ELSE refresh_age
      /\ event_age' = IF EventDue THEN 0 ELSE event_age
  BY <1>0, Numbers, TimingAssumption, Positive DEF Timers, RefreshDue
<1>9. Asked(c)'
  <2> SUFFICES ASSUME phase'[c] \in {"subscribing", "calling"}, "down" \notin excuse'[c],
                      mail'[c] = << >>
               PROVE  /\ AskedBy(inbox', c)
                      /\ \/ waited'[c] = 0
                         \/ waited'[c] <= refresh_age' /\ refresh_age' <= CallTimeout
    BY DEF Asked
  <2>1. /\ AskedBy(inbox, c)
        /\ waited[c] = 0 \/ (waited[c] <= refresh_age /\ refresh_age <= CallTimeout)
    BY <1>0, <1>3, <1>7 DEF Waiting, Asked
  <2>2. AskedBy(inbox', c)
    BY <1>2, <2>1 DEF Receiving
  <2> QED
    BY <1>8, <2>1, <2>2
<1>10. EventComing(c)'
  <2> SUFFICES ASSUME phase[c] = "listening", excuse'[c] = {}, mail'[c] = << >>
               PROVE  /\ waited'[c] <= event_age'
                      /\ waited'[c] <= Slack' \/ event_age' <= EventPeriod - 1 + Slack'
    BY DEF EventComing
  <2>1. done /\ excuse[c] = {}
    BY <1>1, <1>3 DEF Receiving
  <2>2. c \in subscribers
    BY <1>0, <2>1 DEF Waiting, AckNoted
  <2>3. ~ EventDue
    BY <1>2, <2>1, <2>2, NotifyGrown DEF Receiving
  <2>4. event_age' = event_age /\ event_age <= EventPeriod - 1
    BY <1>0, <1>8, <2>3, Numbers, Positive DEF EventDue
  <2>5. waited[c] <= event_age
    BY <1>0, <1>7, <2>1 DEF Waiting, EventComing
  <2>6. stray' * RecvTimeout + wait' = 0
    <3>1. stray' = 0 /\ wait' = 0
      BY DEF Timers, NextTurn
    <3> QED
      BY <3>1, Positive
  <2> QED
    BY <1>0, <2>4, <2>5, <2>6, Numbers, Positive DEF Slack
<1> QED
  BY <1>4, <1>6, <1>9, <1>10 DEF Waiting

\* Steps outside the loop, and of other processes.
LEMMA QuietWaits ==
    ASSUME IInv, UNCHANGED << loop, consumers >>, NEW c \in Consumer,
           \/ provider' = provider
           \/ provider \in {"off", "registered"} /\ provider' # "refreshing"
    PROVE  Waiting(c)'
<1>0. Waiting(c)
  BY DEF IInv
<1>1. UNCHANGED << phase, waited, mail, excuse, inbox, subscribers, refresh_age, event_age >>
      /\ UNCHANGED Slack
  BY DEF loop, consumers, Slack
<1>2. CASE phase[c] \in Receiving /\ "down" \notin excuse[c]
  <2>1. provider' = provider
    BY <1>0, <1>2 DEF Waiting, Reachable, Bound
  <2> QED
    BY <1>0, <1>1, <2>1
    DEF Waiting, MailOpen, AckNoted, Reachable, Asked, Noticed, EventComing
<1>3. CASE ~ (phase[c] \in Receiving /\ "down" \notin excuse[c])
  BY <1>0, <1>1, <1>3
  DEF Waiting, MailOpen, AckNoted, Reachable, Asked, Noticed, EventComing, Receiving, Bound
<1> QED
  BY <1>2, <1>3

\* The process ends and everyone who waits has seen it.
LEMMA GoneWaits ==
    ASSUME IInv, Gone, NEW c \in Consumer
    PROVE  Waiting(c)'
<1>0. ConsumersTyped /\ Waiting(c)
  BY TypeOKSplit DEF IInv
<1>1. /\ UNCHANGED << phase, mail >> /\ provider' = "off"
      /\ phase[c] \in Receiving => "down" \in excuse'[c]
  BY <1>0 DEF Gone, Excuse, ConsumersTyped
<1> QED
  BY <1>0, <1>1
  DEF Waiting, MailOpen, AckNoted, Reachable, Asked, Noticed, EventComing, Receiving

LEMMA StrayWaits ==
    ASSUME IInv, ReceiveStray, NEW c \in Consumer
    PROVE  Waiting(c)'
<1>0. ProviderTyped /\ ConsumersTyped /\ Waiting(c)
  BY TypeOKSplit DEF IInv
<1>1. /\ UNCHANGED << phase, waited, mail, excuse, inbox, subscribers, refresh_age, event_age >>
      /\ provider' \in Bound \cup {"closing"} /\ provider' # "refreshing"
      /\ provider = "serving" /\ wait' = 0 /\ stray' = stray + 1
  BY DEF ReceiveStray, NextTurn, consumers, Bound
<1>2. MailOpen(c)' /\ AckNoted(c)' /\ Reachable(c)' /\ Asked(c)' /\ Noticed(c)'
  BY <1>0, <1>1 DEF Waiting, MailOpen, AckNoted, Reachable, Asked, Noticed
<1>3. stray' * RecvTimeout = stray * RecvTimeout + RecvTimeout /\ wait <= RecvTimeout
  BY <1>0, <1>1, Numbers, TimesStep, Positive DEF ProviderTyped
<1>4. EventComing(c)'
  <2> SUFFICES ASSUME phase[c] = "listening", excuse[c] = {}, mail[c] = << >>
               PROVE  /\ waited[c] <= event_age
                      /\ waited[c] <= Slack' \/ event_age <= EventPeriod - 1 + Slack'
    BY <1>1 DEF EventComing
  <2>1. /\ waited[c] <= event_age
        /\ \/ waited[c] <= stray * RecvTimeout + wait
           \/ event_age <= EventPeriod - 1 + (stray * RecvTimeout + wait)
    BY <1>0 DEF Waiting, EventComing, Slack
  <2>2. PICK before, after \in Nat : /\ before = stray * RecvTimeout + wait
                                    /\ after = stray' * RecvTimeout + wait'
                                    /\ before <= after
    <3>1. stray * RecvTimeout \in Nat /\ wait \in Nat /\ RecvTimeout \in Nat
      BY <1>0, Numbers, Positive
    <3>2. PICK x, y, w \in Nat : x = stray * RecvTimeout /\ y = RecvTimeout /\ w = wait
      BY <3>1
    <3>3. stray' * RecvTimeout + wait' = x + y /\ w <= y
      BY <1>1, <1>3, <3>2
    <3>4. x + w \in Nat /\ x + y \in Nat /\ x + w <= x + y
      BY <3>2, <3>3
    <3>5. stray * RecvTimeout + wait = x + w
      BY <3>2
    <3> QED
      BY <3>3, <3>4, <3>5
  <2>3. after = Slack'
    BY <2>2 DEF Slack
  <2>4. waited[c] \in Nat /\ event_age \in Nat /\ EventPeriod \in Nat
    BY <1>0, LongestWait, Numbers, Positive DEF ConsumersTyped
  <2>5. /\ waited[c] <= event_age
        /\ waited[c] <= before \/ event_age <= EventPeriod - 1 + before
    BY <2>1, <2>2
  <2>6. waited[c] <= after \/ event_age <= EventPeriod - 1 + after
    BY <2>2, <2>4, <2>5
  <2> QED
    BY <2>3, <2>5, <2>6
<1> QED
  BY <1>2, <1>4 DEF Waiting

LEMMA RefreshEndWaits ==
    ASSUME IInv, RefreshEnds, NEW c \in Consumer
    PROVE  Waiting(c)'
<1>0. ProviderTyped /\ ConsumersTyped /\ Waiting(c)
  BY TypeOKSplit DEF IInv
<1>1. /\ UNCHANGED << phase, waited, excuse, inbox, subscribers, refresh_age >>
      /\ provider' \in Bound \cup {"closing"} /\ provider' # "refreshing"
      /\ provider = "refreshing"
      /\ mail' = IF event_due THEN Notify(mail, subscribers) ELSE mail
  BY DEF RefreshEnds, NextTurn, Bound
<1>2. /\ Grown(mail', c, subscribers') /\ (mail'[c] = << >> => mail[c] = << >>)
  <2>1. Grown(mail, c, subscribers) /\ mail \in [Consumer -> Seq(Words)]
    BY <1>0 DEF Grown, ConsumersTyped
  <2> QED
    BY <1>1, <2>1, NotifyGrown
<1>3. MailOpen(c)' /\ AckNoted(c)'
  BY <1>0, <1>1, <1>2, GrownKeeps
<1>4. Reachable(c)' /\ Asked(c)' /\ Noticed(c)'
  BY <1>0, <1>1, <1>2 DEF Waiting, Reachable, Asked, Noticed
<1>5. EventComing(c)'
  BY <1>0, <1>1 DEF Waiting, Noticed, EventComing, Receiving
<1> QED
  BY <1>3, <1>4, <1>5 DEF Waiting

LEMMA ProviderWaits ==
    ASSUME IInv, Start \/ BindFails \/ ProviderStep \/ ReceiveStray \/ Signal \/ Crash
                   \/ DaemonRestart \/ SecondProvider, NEW c \in Consumer
    PROVE  Waiting(c)'
<1>0. ProviderTyped /\ ConsumersTyped
  BY TypeOKSplit DEF IInv
<1>1. CASE Start \/ Bind \/ BindFails \/ Signal \/ DaemonRestart \/ SecondProvider
  <2>1. /\ UNCHANGED << loop, consumers >>
        /\ \/ provider' = provider
           \/ provider \in {"off", "registered"} /\ provider' # "refreshing"
    BY <1>1 DEF Start, Bind, BindFails, Signal, DaemonRestart, SecondProvider
  <2> QED
    BY <2>1, QuietWaits
<1>2. CASE Receive
  <2> DEFINE from == Head(inbox).from
             get == Head(inbox).method = "get"
             what == IF get THEN "answer" ELSE "ack"
  <2>1. /\ provider = "serving" /\ inbox # << >> /\ inbox' = Tail(inbox)
        /\ subscribers' = IF get THEN subscribers ELSE subscribers \cup {from}
        /\ Timers(Post(mail, from, what)) /\ UNCHANGED << phase, waited >>
    BY <1>2 DEF Receive
  <2>2. inbox \in Seq(Asks)
    BY <1>0 DEF ProviderTyped
  <2>3. Head(inbox) \in Asks
    BY <2>1, <2>2, HeadTailProperties
  <2>4. from \in Consumer /\ what \in Words /\ (what = "ack" => from \in subscribers')
    BY <2>1, <2>3 DEF Asks, Words
  <2>5. subscribers \subseteq subscribers' /\ subscribers' \subseteq Consumer
    BY <1>0, <2>1, <2>4 DEF ProviderTyped
  <2> HIDE DEF from, what
  <2>6. Post(mail, from, what) \in [Consumer -> Seq(Words)]
    BY <1>0, <2>4, PostTyped DEF ConsumersTyped
  <2>7. /\ Grown(Post(mail, from, what), c, subscribers')
        /\ c = from /\ phase[c] \in Receiving => Post(mail, from, what)[c] # << >>
    BY <1>0, <2>4, PostGrown
  <2>8. AskedBy(inbox, c) /\ phase[c] \in Receiving /\ Post(mail, from, what)[c] = << >>
        => AskedBy(inbox', c)
    BY <2>1, <2>2, <2>3, <2>7, AskedFacts DEF from
  <2> QED
    BY <2>1, <2>5, <2>6, <2>7, <2>8, TurnWaits
<1>3. CASE ReceiveNothing
  <2>1. /\ provider = "serving" /\ UNCHANGED << inbox, subscribers, phase, waited >>
        /\ Timers(mail)
    BY <1>3 DEF ReceiveNothing
  <2>2. mail \in [Consumer -> Seq(Words)] /\ subscribers' \subseteq Consumer
        /\ Grown(mail, c, subscribers')
    BY <1>0, <2>1 DEF ConsumersTyped, ProviderTyped, Grown
  <2> QED
    BY <2>1, <2>2, TurnWaits
<1> QED
  BY <1>1, <1>2, <1>3, StrayWaits, RefreshEndWaits, GoneWaits DEF ProviderStep, Close, Crash

-----------------------------------------------------------------------------
(* The consumers while they move *)

\* Another consumer's step leaves this one alone, but for its request.
LEMMA OtherWaits ==
    ASSUME NEW c \in Consumer, Waiting(c), ProviderStays,
           AskedBy(inbox, c) => AskedBy(inbox', c),
           phase'[c] = phase[c], waited'[c] = waited[c],
           mail'[c] = mail[c], excuse'[c] = excuse[c]
    PROVE  Waiting(c)'
BY DEF Waiting, MailOpen, AckNoted, Reachable, Asked, Noticed, EventComing, ProviderStays, Slack

\* A program that does not wait yet, or no more.
LEMMA IdleWaits ==
    ASSUME NEW c \in Consumer, phase'[c] \notin Receiving, mail'[c] = << >>
    PROVE  Waiting(c)'
BY DEF Waiting, MailOpen, AckNoted, Reachable, Asked, Noticed, EventComing, Receiving

\* A request is added to the others.
LEMMA SendAsks ==
    ASSUME ProviderTyped, NEW c \in Consumer, NEW d \in Consumer,
           NEW method \in {"subscribe", "get"}, Send(d, method)
    PROVE  /\ AskedBy(inbox, c) => AskedBy(inbox', c)
           /\ c = d /\ provider \in Bound => AskedBy(inbox', c)
<1> DEFINE r == [from |-> d, method |-> method]
<1>1. r \in Asks /\ r.from = d /\ inbox \in Seq(Asks)
  BY DEF Asks, ProviderTyped
<1>2. inbox' = IF provider \in Bound THEN Append(inbox, r) ELSE inbox
  BY DEF Send
<1> HIDE DEF r
<1> QED
  BY <1>1, <1>2, AskedFacts

\* Who begins to wait knows of a provider that is down, and of a refresh.
LEMMA BeginWaits ==
    ASSUME ConsumersTyped, ProviderTyped, NEW c \in Consumer, Wait(c), ProviderStays,
           phase'[c] \in Receiving,
           phase'[c] = "subscribing" => mail'[c] = << >>,
           phase'[c] \in {"calling", "listening"} /\ "down" \notin excuse[c]
               => c \in subscribers,
           phase'[c] \in {"subscribing", "calling"} /\ provider \in Bound
               => AskedBy(inbox', c)
    PROVE  Waiting(c)'
<1>1. /\ waited'[c] = 0 /\ excuse'[c] = (excuse[c] \cap {"down"}) \cup Trouble
      /\ UNCHANGED << provider, subscribers, refresh_age, event_age, stray, wait >>
  BY DEF Wait, ConsumersTyped, ProviderStays
<1>2. /\ "down" \in Trouble <=> provider \notin Bound
      /\ "unanswered" \in Trouble <=> provider = "refreshing"
  BY DEF Trouble
<1>3. MailOpen(c)' /\ AckNoted(c)'
  <2>1. ~ Acked(<< >>)
    BY DEF Acked
  <2> QED
    BY <1>1, <2>1 DEF MailOpen, AckNoted
<1>4. Reachable(c)' /\ Asked(c)' /\ Noticed(c)'
  BY <1>1, <1>2 DEF Reachable, Asked, Noticed
<1>5. EventComing(c)'
  <2>1. UNCHANGED Slack /\ Slack \in Nat /\ event_age \in Nat
    BY <1>1, Numbers DEF Slack
  <2> QED
    BY <1>1, <2>1 DEF EventComing
<1> QED
  BY <1>3, <1>4, <1>5 DEF Waiting

LEMMA ConsumerWaits ==
    ASSUME IInv, NEW d \in Consumer, ConsumerStep(d) \/ Restart(d), NEW c \in Consumer
    PROVE  Waiting(c)'
<1>0. ProviderTyped /\ ConsumersTyped /\ Waiting(c)
  BY TypeOKSplit DEF IInv
<1>1. ProviderStays
  BY DEF ConsumerStep, Discover, Subscribe, ReceiveAck, ReceiveAnswer, ReceiveEvent, TimeOut,
         Restart
<1>2. AskedBy(inbox, c) => AskedBy(inbox', c)
  BY <1>0, SendAsks
  DEF ConsumerStep, Discover, Subscribe, ReceiveAck, ReceiveAnswer, ReceiveEvent, TimeOut,
      Restart, End
<1>3. CASE c # d
  <2>1. UNCHANGED << phase[c], waited[c], mail[c], excuse[c] >>
    BY <1>0, <1>3
    DEF ConsumersTyped, ConsumerStep, Discover, Subscribe, ReceiveAck, ReceiveAnswer,
        ReceiveEvent, TimeOut, Restart, End, Now, Wait, Taken
  <2> QED
    BY <1>0, <1>1, <1>2, <2>1, OtherWaits
<1>4. CASE c = d
  <2>1. ASSUME NEW how, End(c, how) PROVE Waiting(c)'
    BY <1>0, <2>1, IdleWaits DEF End, Now, ConsumersTyped, Receiving
  <2>2. CASE Discover(c) \/ Restart(c)
    <3>1. CASE \E how : End(c, how)
      BY <2>1, <3>1
    <3>2. CASE ~ \E how : End(c, how)
      BY <1>0, <2>2, <3>2, IdleWaits
      DEF Discover, Restart, Now, ConsumersTyped, Receiving, Waiting, MailOpen
    <3> QED
      BY <3>1, <3>2
  <2>3. CASE Subscribe(c)
    <3>1. phase'[c] = "subscribing" /\ mail'[c] = << >>
      BY <1>0, <2>3 DEF Subscribe, Now, ConsumersTyped, Waiting, MailOpen, Receiving
    <3>2. Wait(c) /\ Send(c, "subscribe")
      BY <2>3 DEF Subscribe
    <3> QED
      BY <1>0, <1>1, <3>1, <3>2, SendAsks, BeginWaits DEF Receiving
  <2>4. CASE ReceiveAck(c) /\ Head(mail[c]) = "ack"
    <3>1. phase'[c] = "calling" /\ phase[c] = "subscribing" /\ mail[c] # << >>
      BY <1>0, <2>4 DEF ReceiveAck, Now, ConsumersTyped
    <3>2. Wait(c) /\ Send(c, "get")
      BY <2>4 DEF ReceiveAck
    <3>3. "down" \notin excuse[c] => c \in subscribers
      BY <1>0, <2>4, <3>1, AckedFacts DEF Waiting, AckNoted, ConsumersTyped, Words
    <3> QED
      BY <1>0, <1>1, <3>1, <3>2, <3>3, SendAsks, BeginWaits DEF Receiving
  <2>5. CASE ReceiveAnswer(c) /\ Head(mail[c]) = "answer"
    <3>1. phase'[c] = "listening" /\ phase[c] = "calling" /\ Wait(c)
      BY <1>0, <2>5 DEF ReceiveAnswer, Now, ConsumersTyped
    <3>2. "down" \notin excuse[c] => c \in subscribers
      BY <1>0, <3>1 DEF Waiting, AckNoted
    <3> QED
      BY <1>0, <1>1, <3>1, <3>2, BeginWaits DEF Receiving
  <2>6. CASE ReceiveEvent(c) /\ ~ \E how : End(c, how)
    <3>1. phase'[c] = "listening" /\ phase[c] = "listening" /\ Wait(c)
      BY <1>0, <2>6 DEF ReceiveEvent, Now, ConsumersTyped
    <3>2. "down" \notin excuse[c] => c \in subscribers
      BY <1>0, <3>1 DEF Waiting, AckNoted
    <3> QED
      BY <1>0, <1>1, <3>1, <3>2, BeginWaits DEF Receiving
  <2>7. \/ Discover(c) \/ Restart(c) \/ Subscribe(c)
        \/ ReceiveAck(c) /\ Head(mail[c]) = "ack"
        \/ ReceiveAnswer(c) /\ Head(mail[c]) = "answer"
        \/ ReceiveEvent(c) \/ \E how : End(c, how)
    BY <1>4 DEF ConsumerStep, ReceiveAck, ReceiveAnswer, TimeOut
  <2> QED
    BY <2>1, <2>2, <2>3, <2>4, <2>5, <2>6, <2>7
<1> QED
  BY <1>3, <1>4

LEMMA TickWaits ==
    ASSUME IInv, Tick, NEW c \in Consumer
    PROVE  Waiting(c)'
<1>0. ProviderTyped /\ ConsumersTyped /\ Timely /\ Waiting(c)
  BY TypeOKSplit DEF IInv
<1>1. UNCHANGED << provider, inbox, subscribers, stray, phase, mail, excuse >>
  BY DEF Tick
<1>2. MailOpen(c)' /\ AckNoted(c)' /\ Reachable(c)' /\ Noticed(c)'
  BY <1>0, <1>1 DEF Waiting, MailOpen, AckNoted, Reachable, Noticed
<1>3. waited[c] \in Nat
  BY <1>0, LongestWait DEF ConsumersTyped
<1>4. /\ refresh_age \in Nat /\ event_age \in Nat /\ wait \in Nat
      /\ stray * RecvTimeout + wait \in Nat
  BY <1>0, Numbers DEF Slack
<1>5. CASE phase[c] \notin Receiving \/ "down" \in excuse[c]
  BY <1>1, <1>2, <1>5 DEF Waiting, Asked, EventComing, Receiving
<1>6. CASE phase[c] \in Receiving /\ "down" \notin excuse[c]
  <2>1. /\ provider \in Bound /\ wait' = wait + 1
        /\ refresh_age' = refresh_age + 1 /\ event_age' = event_age + 1
        /\ provider = "serving" => inbox = << >>
        /\ provider = "refreshing" => wait < CallTimeout
    BY <1>0, <1>6 DEF Tick, Waiting, Reachable, Bound
  <2>2. waited'[c] = waited[c] + 1
    BY <1>0, <1>6 DEF Tick, ConsumersTyped
  <2>3. Asked(c)'
    <3> SUFFICES ASSUME phase[c] \in {"subscribing", "calling"}, mail[c] = << >>
                 PROVE  /\ AskedBy(inbox, c)
                        /\ waited'[c] <= refresh_age' /\ refresh_age' <= CallTimeout
      BY <1>1 DEF Asked
    <3>1. /\ AskedBy(inbox, c)
          /\ waited[c] = 0 \/ (waited[c] <= refresh_age /\ refresh_age <= CallTimeout)
      BY <1>0, <1>6 DEF Waiting, Asked
    <3>2. provider = "refreshing"
      BY <2>1, <3>1 DEF AskedBy, Bound
    <3>3. refresh_age = wait /\ wait < CallTimeout
      BY <1>0, <2>1, <3>2 DEF Timely
    <3>4. refresh_age' <= CallTimeout
      BY <1>4, <2>1, <3>3, Positive
    <3>5. waited'[c] <= refresh_age'
      BY <1>3, <1>4, <2>1, <2>2, <3>1
    <3> QED
      BY <3>1, <3>4, <3>5
  <2>4. EventComing(c)'
    <3> SUFFICES ASSUME phase[c] = "listening", excuse[c] = {}, mail[c] = << >>
                 PROVE  /\ waited'[c] <= event_age'
                        /\ waited'[c] <= Slack' \/ event_age' <= EventPeriod - 1 + Slack'
      BY <1>1 DEF EventComing
    <3>1. /\ waited[c] <= event_age
          /\ \/ waited[c] <= stray * RecvTimeout + wait
             \/ event_age <= EventPeriod - 1 + (stray * RecvTimeout + wait)
      BY <1>0 DEF Waiting, EventComing, Slack
    <3>2. stray' * RecvTimeout + wait' = (stray * RecvTimeout + wait) + 1
      BY <1>0, <1>1, <2>1, Numbers
    <3> QED
      BY <1>3, <1>4, <2>1, <2>2, <3>1, <3>2, Positive DEF Slack
  <2> QED
    BY <1>2, <2>3, <2>4 DEF Waiting
<1> QED
  BY <1>5, <1>6

LEMMA StutterWaits == ASSUME IInv, UNCHANGED vars PROVE IInv'
<1>1. TypeOK' /\ Fresh' /\ Timely' /\ LeaseSpent'
  BY DEF IInv, vars, loop, daemon, consumers, TypeOK, Fresh, Timely, LeaseSpent, Slack
<1>2. ASSUME NEW c \in Consumer PROVE Waiting(c)'
  BY QuietWaits DEF vars, loop, consumers
<1> QED
  BY <1>1, <1>2 DEF IInv

LEMMA InductiveStep == ASSUME IInv, [Next]_vars PROVE IInv'
<1>1. CASE Next
  <2>1. TypeOK' /\ Fresh' /\ Timely' /\ LeaseSpent'
    BY <1>1, TypeStep, LeaseStep
  <2>2. ASSUME NEW c \in Consumer PROVE Waiting(c)'
    BY <1>1, ProviderWaits, ConsumerWaits, TickWaits DEF Next
  <2> QED
    BY <2>1, <2>2 DEF IInv
<1> QED
  BY <1>1, StutterWaits

-----------------------------------------------------------------------------
(* The theorems *)

\* IInv holds throughout every behaviour of the programs.
THEOREM Inductive == Spec => []IInv
<1>1. Init => IInv
  BY InitIInv
<1>2. IInv /\ [Next]_vars => IInv'
  BY InductiveStep
<1> QED
  BY <1>1, <1>2, PTL DEF Spec

\* Whatever the periods and the number of consumers: no turn of the provider's
\* loop outlasts MaxAge, no wait its timeout, and every variable keeps its type.
THEOREM TypeCorrect == Spec => []TypeOK
<1>1. IInv => TypeOK
  BY DEF IInv
<1> QED
  BY <1>1, Inductive, PTL

\* The provider's lease outlives every run of MaxLost lost registrations with
\* MaxStray stray datagrams in each turn, if it is longer than MaxLost + 1 such
\* turns (provider_demo's loop, RegisterService and the daemon's expiry).
THEOREM LeaseOutlives == Spec => []LeaseKept
<1>1. ASSUME IInv PROVE LeaseKept
  <2> SUFFICES ASSUME provider \in {"registered"} \cup Bound, ~ forgotten PROVE lease > 0
    BY DEF LeaseKept
  <2>0. ProviderTyped /\ LeaseSpent
    BY <1>1, TypeOKSplit DEF IInv
  <2>1. Ttl <= lease + Spent(lost) + refresh_age
    BY <2>0 DEF LeaseSpent
  <2>2. Spent(lost) + MaxAge < Ttl /\ refresh_age <= MaxAge
    BY <2>0, Budget, Positive DEF ProviderTyped
  <2> QED
    BY <2>0, <2>1, <2>2, Numbers, Budget, Positive
<1> QED
  BY <1>1, Inductive, PTL

\* A consumer that has its acknowledgement is among the subscribers of the
\* provider it asked, whatever else the provider receives, sends and refreshes.
THEOREM Subscribed == Spec => []SubscribedWhileUp
<1>1. IInv => SubscribedWhileUp
  BY DEF IInv, Waiting, AckNoted, SubscribedWhileUp
<1> QED
  BY <1>1, Inductive, PTL

\* What a consumer that gives up did not know of: a request is answered within a
\* refresh that has no answer, an event sent within its period and one turn.
LEMMA VainWait ==
    ASSUME IInv, NEW c \in Consumer, TimeOut(c)
    PROVE  IF phase[c] = "listening" THEN excuse[c] # {} ELSE "down" \in excuse[c]
<1>0. ProviderTyped /\ ConsumersTyped /\ Waiting(c)
  BY TypeOKSplit DEF IInv
<1>1. phase[c] \in Receiving /\ mail[c] = << >> /\ waited[c] = Patience
  BY DEF TimeOut
<1>2. ASSUME phase[c] # "listening", "down" \notin excuse[c] PROVE FALSE
  <2>1. waited[c] = 0 \/ (waited[c] <= refresh_age /\ refresh_age <= CallTimeout)
    BY <1>0, <1>1, <1>2 DEF Waiting, Asked, Receiving
  <2> QED
    BY <1>0, <1>1, <2>1, Numbers, TimingAssumption, Positive
<1>3. ASSUME phase[c] = "listening", excuse[c] = {} PROVE FALSE
  <2>1. provider \in {"serving", "closing"}
    BY <1>0, <1>1, <1>3 DEF Waiting, Reachable, Noticed, Bound
  <2>2. /\ waited[c] <= event_age
        /\ waited[c] <= Slack \/ event_age <= EventPeriod - 1 + Slack
    BY <1>0, <1>1, <1>3 DEF Waiting, EventComing
  <2>3. Slack <= (MaxStray + 1) * RecvTimeout
    BY <1>0, <2>1, SlackBound DEF ProviderTyped
  <2>4. (MaxStray + 1) * RecvTimeout \in Nat
    BY TimesStep, Positive
  <2>5. EventPeriod + Slack <= Patience
    BY <1>0, <2>3, <2>4, Numbers, TimingAssumption, Positive
  <2> QED
    BY <1>0, <1>1, <2>2, <2>5, Numbers, Positive
<1> QED
  BY <1>2, <1>3

\* A consumer's recvfrom times out only where the provider was down, or, for an
\* event, a refresh of its lease had no answer while the consumer waited.
THEOREM VainWaitsExcused == Spec => TimeoutExcused
<1>1. IInv /\ [Next]_vars
      => [\A c \in Consumer :
            TimeOut(c) => IF phase[c] = "listening" THEN excuse[c] # {}
                          ELSE "down" \in excuse[c]]_vars
  BY VainWait
<1> QED
  BY <1>1, Inductive, PTL DEF Spec, TimeoutExcused
=============================================================================
