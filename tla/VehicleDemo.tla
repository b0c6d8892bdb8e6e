---------------------------- MODULE VehicleDemo -----------------------------
(***************************************************************************)
(* The demo programs of services/someip_sd_cpp/examples: provider_demo      *)
(* registers a service, answers requests, sends events to its subscribers   *)
(* and refreshes its lease, all in one thread; consumer_demo discovers it,   *)
(* subscribes, calls its method and waits for events.  The daemon is the     *)
(* lease it keeps for the provider.  Programs take no time but in the calls  *)
(* that wait, and the loopback interface loses and reorders nothing; a       *)
(* control call is executed at once or lost, and its answer may be lost.     *)
(***************************************************************************)
EXTENDS Integers, Sequences

CONSTANTS
    Consumer,        \* consumers, each at a port of its own
    RecvTimeout,     \* SO_RCVTIMEO of the provider, in ticks
    RefreshPeriod,   \* between two registrations
    EventPeriod,     \* between two events
    CallTimeout,     \* how long a control call waits for its answer
    Ttl,             \* of the lease
    Window,          \* how long a consumer collects offers
    Patience,        \* SO_RCVTIMEO of a consumer
    Wanted,          \* events a consumer waits for
    MaxLost,         \* assumption: registrations lost in a row
    MaxStray,        \* assumption: datagrams to ignore in a row
    PortReuse        \* a later consumer may get the port of an earlier one

ASSUME DemoAssumption ==
    /\ {RecvTimeout, RefreshPeriod, EventPeriod, CallTimeout, Ttl,
        Window, Patience, Wanted} \subseteq Nat \ {0}
    /\ MaxLost \in Nat /\ MaxStray \in Nat /\ PortReuse \in BOOLEAN

\* The longest the provider's timers are left alone, and how the lease is spent
\* with it when MaxLost registrations in a row are lost.
MaxAge == RefreshPeriod - 1 + (MaxStray + 1) * RecvTimeout
Spent(n) == n * MaxAge

\* The periods the programs were given: a refresh ends before the next is due, the
\* lease outlives the lost ones, and a consumer's patience a call and an event.
ASSUME TimingAssumption ==
    /\ CallTimeout < RefreshPeriod /\ CallTimeout < Patience
    /\ EventPeriod + (MaxStray + 1) * RecvTimeout <= Patience
    /\ Spent(MaxLost + 1) < Ttl

VARIABLES
    provider,      \* where the provider is
    stop,          \* g_stop
    refresh_age,   \* ticks since last_refresh
    event_age,     \* ticks since last_event
    event_due,     \* inside the refresh call: an event is to follow it
    wait,          \* ticks in the provider's present recvfrom or call
    inbox,         \* requests at the provider's socket
    subscribers,   \* the ports events are sent to
    stray,         \* datagrams ignored since the timers were looked at
    lease,         \* ticks the daemon still offers the service
    lost,          \* registrations lost since one was executed
    forgotten,     \* history: another process took the service from the daemon
    phase,         \* where each consumer is
    result,        \* how its last run ended
    waited,        \* ticks in its present wait
    mail,          \* what its socket has received
    events,        \* received_events
    excuse         \* history: the trouble that explains a wait in vain

loop == << refresh_age, event_age, event_due, wait, inbox, subscribers, stray >>
daemon == << lease, lost, forgotten >>
consumers == << phase, result, waited, mail, events, excuse >>
vars == << provider, stop, loop, daemon, consumers >>

Bound == {"serving", "refreshing"}      \* the provider's loop
Receiving == {"subscribing", "calling", "listening"}   \* a consumer's socket is open

\* What a consumer can know of the provider when it begins to wait.
Trouble == {why \in {"down", "unanswered"} :
              IF why = "down" THEN provider \notin Bound ELSE provider = "refreshing"}

LoopInit ==
    /\ refresh_age = 0 /\ event_age = 0 /\ event_due = FALSE /\ wait = 0
    /\ inbox = << >> /\ subscribers = {} /\ stray = 0

Init ==
    /\ provider = "off" /\ stop = FALSE /\ LoopInit
    /\ lease = 0 /\ lost = 0 /\ forgotten = FALSE
    /\ phase = [c \in Consumer |-> "idle"]
    /\ result = [c \in Consumer |-> "none"]
    /\ waited = [c \in Consumer |-> 0]
    /\ mail = [c \in Consumer |-> << >>]
    /\ events = [c \in Consumer |-> 0]
    /\ excuse = [c \in Consumer |-> {}]

-----------------------------------------------------------------------------
(* The provider *)

\* Faulty: a registration renews the entry the daemon has, and makes no new one.
FaultyRegister(answered) ==
    \/ /\ lease' = (IF lease = 0 /\ provider = "serving" THEN 0 ELSE Ttl)
       /\ lost' = 0 /\ forgotten' = (forgotten /\ lease' = 0)
    \/ /\ ~ answered /\ lost < MaxLost
       /\ lost' = lost + 1 /\ UNCHANGED << lease, forgotten >>

\* What the daemon does with a registration, answered or not.
Register(answered) ==
    \/ lease' = Ttl /\ lost' = 0 /\ forgotten' = FALSE
    \/ /\ ~ answered /\ lost < MaxLost
       /\ lost' = lost + 1 /\ UNCHANGED << lease, forgotten >>

Excuse(why) ==
    excuse' = [c \in Consumer |->
                 IF phase[c] \in Receiving THEN excuse[c] \cup {why} ELSE excuse[c]]

\* The first registration decides whether the program goes on.
Start ==
    /\ provider = "off"
    /\ \/ Register(TRUE) /\ provider' = "registered"
       \/ Register(FALSE) /\ UNCHANGED provider
    /\ UNCHANGED << stop, loop, consumers >>

\* The socket is bound and the loop begins, with the clocks read anew; after a
\* signal it ends there.
Bind ==
    /\ provider = "registered"
    /\ provider' = IF stop THEN "closing" ELSE "serving"
    /\ UNCHANGED << stop, loop, daemon, consumers >>

\* UnregisterService, whose request may be lost as well.
Unregister == lease' \in {0, lease} /\ UNCHANGED << lost, forgotten >>

\* The port is taken.
BindFails ==
    /\ provider = "registered"
    /\ provider' = "off" /\ stop' = FALSE /\ Unregister
    /\ UNCHANGED << loop, consumers >>

\* A datagram arrives at a consumer's port, if a socket is open there.
Post(m, c, what) ==
    IF phase[c] \in Receiving THEN [m EXCEPT ![c] = Append(@, what)] ELSE m

\* One event to every subscriber.
Notify(m, subs) == [c \in Consumer |-> IF c \in subs THEN Post(m, c, "event")[c] ELSE m[c]]

\* Faulty: the signal is seen only by the call it interrupts.
FaultyNextTurn == provider' = "serving" /\ wait' = 0

\* while (!g_stop)
NextTurn == provider' = (IF stop THEN "closing" ELSE "serving") /\ wait' = 0

\* Faulty: later than the period, not at it.
FaultyRefreshDue == refresh_age > RefreshPeriod

RefreshDue == refresh_age >= RefreshPeriod

\* Faulty: an event is due in a turn without a refresh only, and forgotten else.
FaultyEventDue == event_age >= EventPeriod /\ (RefreshDue => event_age > 2 * EventPeriod)

EventDue == event_age >= EventPeriod

\* The end of a turn of the loop: refresh the lease if it is time, then send
\* an event if it was time when the refresh began.  A registration without an
\* answer keeps the thread until CallTimeout.
Timers(m) ==
    /\ stray' = 0
    /\ refresh_age' = IF RefreshDue THEN 0 ELSE refresh_age
    /\ event_age' = IF EventDue THEN 0 ELSE event_age
    /\ \/ /\ IF RefreshDue THEN Register(TRUE) ELSE UNCHANGED daemon
          /\ mail' = IF EventDue THEN Notify(m, subscribers') ELSE m
          /\ NextTurn
          /\ UNCHANGED << event_due, excuse >>
       \/ /\ RefreshDue /\ Register(FALSE)
          /\ mail' = m
          /\ provider' = "refreshing" /\ wait' = 0 /\ event_due' = EventDue
          /\ Excuse("unanswered")

\* Faulty: a caller is taken from the subscribers.
FaultyReceive ==
    /\ provider = "serving" /\ inbox # << >>
    /\ LET from == Head(inbox).from
           get == Head(inbox).method = "get"
       IN  /\ inbox' = Tail(inbox)
           /\ subscribers' = IF get THEN subscribers \ {from} ELSE subscribers \cup {from}
           /\ Timers(Post(mail, from, IF get THEN "answer" ELSE "ack"))
    /\ UNCHANGED << stop, phase, result, waited, events >>

\* recvfrom returns a request of a consumer: GetVehicleInfo is answered, a
\* subscription noted and acknowledged.
Receive ==
    /\ provider = "serving" /\ inbox # << >>
    /\ LET from == Head(inbox).from
           get == Head(inbox).method = "get"
       IN  /\ inbox' = Tail(inbox)
           /\ subscribers' = IF get THEN subscribers ELSE subscribers \cup {from}
           /\ Timers(Post(mail, from, IF get THEN "answer" ELSE "ack"))
    /\ UNCHANGED << stop, phase, result, waited, events >>

\* recvfrom times out, is interrupted by the signal, or returns what
\* DecodeSomeIp refuses or a method the service does not have.
ReceiveNothing ==
    /\ provider = "serving"
    /\ UNCHANGED << stop, inbox, subscribers, phase, result, waited, events >>
    /\ Timers(mail)

\* recvfrom returns a message for another service, no request, or one whose
\* payload does not parse: the turn ends there.
ReceiveStray ==
    /\ provider = "serving" /\ stray < MaxStray
    /\ stray' = stray + 1
    /\ NextTurn
    /\ UNCHANGED << stop, refresh_age, event_age, event_due, inbox, subscribers,
                    daemon, consumers >>

\* The call to RegisterService gives up and the turn goes on.
RefreshEnds ==
    /\ provider = "refreshing" /\ wait = CallTimeout
    /\ mail' = IF event_due THEN Notify(mail, subscribers) ELSE mail
    /\ event_due' = FALSE
    /\ NextTurn
    /\ UNCHANGED << stop, refresh_age, event_age, inbox, subscribers, stray, daemon,
                    phase, result, waited, events, excuse >>

\* The process is gone, with its memory and its socket.
Gone ==
    /\ provider' = "off" /\ stop' = FALSE
    /\ refresh_age' = 0 /\ event_age' = 0 /\ event_due' = FALSE /\ wait' = 0
    /\ inbox' = << >> /\ subscribers' = {} /\ stray' = 0
    /\ Excuse("down")
    /\ UNCHANGED << phase, result, waited, mail, events >>

\* After the loop: close, then UnregisterService.
Close == provider = "closing" /\ Unregister /\ Gone

\* The process is killed: its lease stays.
Crash == provider # "off" /\ UNCHANGED daemon /\ Gone

\* SIGINT or SIGTERM, also before the loop; during the first registration it is
\* a lost answer, or comes after it.
Signal ==
    /\ provider \in {"registered"} \cup Bound /\ ~ stop
    /\ stop' = TRUE
    /\ UNCHANGED << provider, loop, daemon, consumers >>

-----------------------------------------------------------------------------
(* Other processes *)

\* The daemon is restarted with an empty registry.
DaemonRestart ==
    /\ ~ forgotten
    /\ lease' = 0 /\ forgotten' = TRUE
    /\ UNCHANGED << provider, stop, loop, lost, consumers >>

\* The provider program is started once more: it registers the service, finds
\* the port taken, and withdraws what is now the first one's registration.
SecondProvider ==
    /\ provider \in Bound /\ ~ forgotten
    /\ lease' \in {0, Ttl} /\ forgotten' = (lease' = 0)
    /\ UNCHANGED << provider, stop, loop, lost, consumers >>

-----------------------------------------------------------------------------
(* A consumer *)

Now(c, where) == phase' = [phase EXCEPT ![c] = where]

\* The program ends and its socket is closed.
End(c, how) ==
    /\ Now(c, "ended")
    /\ result' = [result EXCEPT ![c] = how]
    /\ waited' = [waited EXCEPT ![c] = 0]
    /\ mail' = [mail EXCEPT ![c] = << >>]
    /\ events' = [events EXCEPT ![c] = 0]
    /\ excuse' = [excuse EXCEPT ![c] = {}]
    /\ UNCHANGED inbox

\* The program waits anew; a provider that was down has lost its subscribers.
Wait(c) ==
    /\ waited' = [waited EXCEPT ![c] = 0]
    /\ excuse' = [excuse EXCEPT ![c] = (@ \cap {"down"}) \cup Trouble]

\* A request goes to the provider's port, bound or not.
Send(c, method) ==
    inbox' = IF provider \in Bound
             THEN Append(inbox, [from |-> c, method |-> method]) ELSE inbox

Taken(c) == mail' = [mail EXCEPT ![c] = Tail(@)]

ProviderStays == UNCHANGED << provider, stop, refresh_age, event_age, event_due, wait,
                              subscribers, stray, daemon >>

\* DiscoverServices: the daemon's answer, with the end of the window to come; or
\* no answer, a lost one, or an error beside it.
Discover(c) ==
    /\ phase[c] = "idle"
    /\ \/ lease > 0 /\ Now(c, "found") /\ UNCHANGED << result, waited, mail, events, excuse, inbox >>
       \/ End(c, "no service")
    /\ ProviderStays

Subscribe(c) ==
    /\ phase[c] = "found" /\ waited[c] = Window
    /\ Now(c, "subscribing") /\ Wait(c) /\ Send(c, "subscribe")
    /\ UNCHANGED << result, mail, events >>
    /\ ProviderStays

\* The first datagram is the acknowledgement, or the program ends.
ReceiveAck(c) ==
    /\ phase[c] = "subscribing" /\ mail[c] # << >>
    /\ IF Head(mail[c]) = "ack"
       THEN /\ Now(c, "calling") /\ Wait(c) /\ Send(c, "get") /\ Taken(c)
            /\ UNCHANGED << result, events >>
       ELSE End(c, "invalid")
    /\ ProviderStays

\* The next one is the answer, or the program ends.
ReceiveAnswer(c) ==
    /\ phase[c] = "calling" /\ mail[c] # << >>
    /\ IF Head(mail[c]) = "answer"
       THEN /\ Now(c, "listening") /\ Wait(c) /\ Taken(c)
            /\ UNCHANGED << result, events, inbox >>
       ELSE End(c, "invalid")
    /\ ProviderStays

\* Events are counted, anything else is skipped.
ReceiveEvent(c) ==
    /\ phase[c] = "listening" /\ mail[c] # << >>
    /\ LET count == IF Head(mail[c]) = "event" THEN events[c] + 1 ELSE events[c]
       IN  IF count = Wanted THEN End(c, "complete")
           ELSE /\ events' = [events EXCEPT ![c] = count]
                /\ Wait(c) /\ Taken(c)
                /\ UNCHANGED << phase, result, inbox >>
    /\ ProviderStays

\* Faulty: without an event the program waits once more.
FaultyTimeOut(c) ==
    /\ phase[c] \in Receiving /\ mail[c] = << >> /\ waited[c] = Patience
    /\ IF phase[c] = "listening"
       THEN Wait(c) /\ UNCHANGED << phase, result, mail, events, inbox >>
       ELSE End(c, "no answer")
    /\ ProviderStays

\* recvfrom times out.
TimeOut(c) ==
    /\ phase[c] \in Receiving /\ mail[c] = << >> /\ waited[c] = Patience
    /\ End(c, IF phase[c] = "listening" THEN "no event" ELSE "no answer")
    /\ ProviderStays

\* The next consumer, at this port.
Restart(c) ==
    /\ PortReuse /\ phase[c] = "ended"
    /\ Now(c, "idle") /\ result' = [result EXCEPT ![c] = "none"]
    /\ UNCHANGED << inbox, waited, mail, events, excuse >>
    /\ ProviderStays

ConsumerStep(c) ==
    \/ Discover(c) \/ Subscribe(c) \/ ReceiveAck(c) \/ ReceiveAnswer(c)
    \/ ReceiveEvent(c) \/ TimeOut(c)

-----------------------------------------------------------------------------
\* Time passes only while everyone waits.
Tick ==
    /\ \/ provider = "off"
       \/ provider = "serving" /\ inbox = << >> /\ wait < RecvTimeout
       \/ provider = "refreshing" /\ wait < CallTimeout
    /\ \A c \in Consumer :
         /\ phase[c] = "found" => waited[c] < Window
         /\ phase[c] \in Receiving => mail[c] = << >> /\ waited[c] < Patience
    /\ lease' = IF lease > 0 THEN lease - 1 ELSE 0
    /\ IF provider = "off" THEN UNCHANGED << wait, refresh_age, event_age >>
       ELSE wait' = wait + 1 /\ refresh_age' = refresh_age + 1 /\ event_age' = event_age + 1
    /\ waited' = [c \in Consumer |->
                    IF phase[c] \in Receiving \cup {"found"} THEN waited[c] + 1 ELSE waited[c]]
    /\ UNCHANGED << provider, stop, event_due, inbox, subscribers, stray, lost, forgotten,
                    phase, result, mail, events, excuse >>

ProviderStep == Bind \/ Receive \/ ReceiveNothing \/ RefreshEnds \/ Close

Next ==
    \/ Start \/ BindFails \/ ProviderStep \/ ReceiveStray
    \/ Signal \/ Crash \/ DaemonRestart \/ SecondProvider
    \/ \E c \in Consumer : ConsumerStep(c) \/ Restart(c)
    \/ Tick

Spec == Init /\ [][Next]_vars

\* The programs run on, a waiting request is received in the end, and time goes
\* on however often other programs are started in between.
Fairness ==
    /\ WF_vars(ProviderStep) /\ SF_vars(Receive) /\ SF_vars(Tick)
    /\ \A c \in Consumer : WF_vars(ConsumerStep(c))

FairSpec == Spec /\ Fairness

-----------------------------------------------------------------------------
\* Types and ranges: no turn of the loop outlasts MaxAge, no wait its timeout.
TypeOK ==
    /\ provider \in {"off", "registered", "closing"} \cup Bound
    /\ stop \in BOOLEAN /\ event_due \in BOOLEAN /\ forgotten \in BOOLEAN
    /\ refresh_age \in 0 .. MaxAge /\ event_age \in Nat
    /\ wait \in 0 .. (IF provider = "refreshing" THEN CallTimeout ELSE RecvTimeout)
    /\ inbox \in Seq([from : Consumer, method : {"subscribe", "get"}])
    /\ subscribers \subseteq Consumer /\ stray \in 0 .. MaxStray
    /\ lease \in 0 .. Ttl /\ lost \in 0 .. MaxLost
    /\ phase \in [Consumer -> {"idle", "found", "ended"} \cup Receiving]
    /\ result \in [Consumer -> {"none", "no service", "invalid", "no answer",
                                "no event", "complete"}]
    /\ waited \in [Consumer -> 0 .. (IF Window > Patience THEN Window ELSE Patience)]
    /\ mail \in [Consumer -> Seq({"ack", "answer", "event"})]
    /\ events \in [Consumer -> 0 .. Wanted - 1]
    /\ excuse \in [Consumer -> SUBSET {"down", "unanswered"}]

\* A provider that runs is offered: its lease outlives the refreshes that are
\* lost and the turns that stray datagrams cut short, unless a restart of the
\* daemon or a second provider took the service away.
LeaseKept == provider \in {"registered"} \cup Bound => lease > 0 \/ forgotten

\* A consumer past its acknowledgement is among the provider's subscribers,
\* unless the provider was down since.
SubscribedWhileUp ==
    \A c \in Consumer :
        phase[c] \in {"calling", "listening"} /\ "down" \notin excuse[c] => c \in subscribers

\* A consumer waits in vain for an answer only if the provider was down, and for
\* an event only if it was down or a refresh of its lease had no answer.
TimeoutExcused ==
    [][\A c \in Consumer :
         TimeOut(c) => IF phase[c] = "listening" THEN excuse[c] # {}
                       ELSE "down" \in excuse[c]]_vars

\* A service taken from the daemon is registered again while its provider runs.
Recovers == (forgotten /\ provider \in Bound) ~> (~ forgotten \/ provider \notin Bound)

\* A signal ends the provider, before its loop and wherever it is in it.
StopEnds == stop ~> (provider = "off")

\* Every consumer ends, whatever becomes of the provider.
ConsumerEnds == \A c \in Consumer : (phase[c] # "idle") ~> (phase[c] = "ended")

\* What the demo says of itself: a consumer subscribes, calls the method, then
\* receives events; no event is taken for an answer.
AnswersComeFirst == \A c \in Consumer : result[c] # "invalid"
=============================================================================
