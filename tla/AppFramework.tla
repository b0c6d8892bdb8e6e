---------------------------- MODULE AppFramework ----------------------------
(***************************************************************************)
(* The application framework of services/someip_app_framework with the      *)
(* application class the generator emits: service objects are attached to   *)
(* instances, which offers them and registers a handler for each method;    *)
(* clients discover, invoke and subscribe.  All of it goes through a        *)
(* backend, one call at a time; the application and its clients run         *)
(* concurrently.  A backend call that returns false may have had its effect.*)
(* Handlers are plain pointers: objects come and go, and the application is *)
(* destroyed without withdrawing anything.                                  *)
(***************************************************************************)
EXTENDS Integers

CONSTANTS
    Instance,          \* service instances of the application
    Service,           \* service objects, all of one class
    Methods,           \* number of methods of the class
    Client,            \* client objects that subscribe to the event, some of one instance
    ClientOf,          \* the instance of each
    None,              \* no object, no instance
    MayFail            \* backend calls may return false

ASSUME AppAssumption ==
    /\ Methods \in Nat \ {0} /\ MayFail \in BOOLEAN
    /\ ClientOf \in [Client -> Instance]
    /\ None \notin Instance /\ None \notin Service /\ None \notin Client

Method == 1 .. Methods

VARIABLES
    offered,     \* the backend's table of offered instances
    handler,     \* its table of method handlers: the object each one calls
    subscriber,  \* its table of event handlers: the client each one calls
    wired,       \* instance_id_ of each object that was given the runtime
    attached,    \* the application's service members
    held,        \* objects the program has a shared_ptr to
    op,          \* the application's present call
    living,      \* the client objects that exist
    engaged,     \* those with a Subscribe that no successful Unsubscribe followed
    unsound      \* history: instances left in disorder by a failure, a shared object,
                 \* or an application destroyed with an object attached there

backend == << offered, handler >>
events == << subscriber, living, engaged >>
vars == << backend, events, wired, attached, held, op, unsound >>

NoOp == [kind |-> "none", at |-> None, who |-> None, step |-> 0, ok |-> TRUE]
Idle == op.kind = "none"

Init ==
    /\ offered = {}
    /\ handler = [i \in Instance |-> [m \in Method |-> None]]
    /\ subscriber = [i \in Instance |-> None]
    /\ wired = [s \in Service |-> None]
    /\ attached = [i \in Instance |-> None]
    /\ held = {}
    /\ op = NoOp
    /\ living = {} /\ engaged = {}
    /\ unsound = {}

\* An object lives while the program, a member or the present call has it.
Alive(s) == s \in held \/ (\E i \in Instance : attached[i] = s) \/ op.who = s

-----------------------------------------------------------------------------
(* The backend, as its clients see it *)

DiscoverService(i) == i \in offered
InvokeMethod(i, m) == handler[i][m]
\* A service object publishes under the instance it was given last.
PublishEvent(s) == IF wired[s] = None THEN None ELSE subscriber[wired[s]]

\* What a call may return and whether it took effect.
Outcome(ok, done) == (ok /\ done) \/ (~ ok /\ MayFail)

OfferService(i, done) ==
    offered' = (IF done THEN offered \cup {i} ELSE offered) /\ UNCHANGED handler

StopOfferService(i, done) ==
    offered' = (IF done THEN offered \ {i} ELSE offered) /\ UNCHANGED handler

\* Faulty: a handler that is there stays.
FaultyRegisterMethodHandler(i, m, s, done) ==
    /\ handler' = IF done /\ handler[i][m] = None
                  THEN [handler EXCEPT ![i][m] = s] ELSE handler
    /\ UNCHANGED offered

RegisterMethodHandler(i, m, s, done) ==
    /\ handler' = IF done THEN [handler EXCEPT ![i][m] = s] ELSE handler
    /\ UNCHANGED offered

UnregisterMethodHandler(i, m, done) ==
    /\ handler' = IF done THEN [handler EXCEPT ![i][m] = None] ELSE handler
    /\ UNCHANGED offered

-----------------------------------------------------------------------------
(* The application, one thread *)

\* The program makes a service object; a name is not used for two that are known.
Create(s) ==
    /\ ~ Alive(s) /\ \A i \in Instance, m \in Method : handler[i][m] # s
    /\ held' = held \cup {s}
    /\ wired' = [wired EXCEPT ![s] = None]
    /\ UNCHANGED << backend, events, attached, op, unsound >>

\* The program drops its pointer, outside a call it passed it to.
Release(s) ==
    /\ s \in held /\ (op.kind = "attach" => op.who # s)
    /\ held' = held \ {s}
    /\ UNCHANGED << backend, events, wired, attached, op, unsound >>

\* The destructor of the application, and another one made with the same runtime:
\* the members are reset, the backend is told nothing.
DestroyApplication ==
    /\ Idle
    /\ attached' = [i \in Instance |-> None]
    /\ unsound' = unsound \cup {i \in Instance : attached[i] # None}
    /\ UNCHANGED << backend, events, wired, held, op >>

\* Faulty: the runtime is handed over when the registration has succeeded.
FaultyAttach(i, s) ==
    /\ Idle /\ s \in held
    /\ op' = [kind |-> "attach", at |-> i, who |-> s, step |-> 0, ok |-> TRUE]
    /\ UNCHANGED << backend, events, wired, attached, held, unsound >>

\* Attach...: AttachRuntime, then RegisterWithRuntime begins.
Attach(i, s) ==
    /\ Idle /\ s \in held
    /\ wired' = [wired EXCEPT ![s] = i]
    /\ op' = [kind |-> "attach", at |-> i, who |-> s, step |-> 0, ok |-> TRUE]
    /\ UNCHANGED << backend, events, attached, held, unsound >>

\* The offer, then one handler after another, up to the first that fails; the
\* member is set only if all of them succeed.
AttachStep ==
    /\ op.kind = "attach"
    /\ \E ok, done \in BOOLEAN :
         /\ Outcome(ok, done)
         /\ IF op.step = 0 THEN OfferService(op.at, done)
            ELSE RegisterMethodHandler(op.at, op.step, op.who, done)
         /\ op' = IF ok /\ op.step < Methods THEN [op EXCEPT !.step = @ + 1] ELSE NoOp
         /\ attached' = IF ok /\ op.step = Methods
                        THEN [attached EXCEPT ![op.at] = op.who] ELSE attached
         /\ unsound' = IF ~ ok THEN unsound \cup {op.at}
                       ELSE IF op.step = Methods THEN unsound \ {op.at} ELSE unsound
    /\ UNCHANGED << events, wired, held >>

\* Detach... of an instance that has a member; otherwise it returns false.
Detach(i) ==
    /\ Idle /\ attached[i] # None
    /\ op' = [kind |-> "detach", at |-> i, who |-> attached[i], step |-> 1, ok |-> TRUE]
    /\ UNCHANGED << backend, events, wired, attached, held, unsound >>

\* Faulty: the offer is withdrawn only if all handlers were, and it looks as if
\* it had been.
FaultyDetachStep ==
    /\ op.kind = "detach"
    /\ LET key == wired[op.who]
           last == op.step = Methods
       IN  \E ok, done \in BOOLEAN :
             /\ Outcome(ok, done)
             /\ UnregisterMethodHandler(key, op.step, done)
             /\ op' = IF last THEN NoOp ELSE [op EXCEPT !.step = @ + 1, !.ok = @ /\ ok]
             /\ attached' = IF last THEN [attached EXCEPT ![op.at] = None] ELSE attached
             /\ unsound' = IF ~ last THEN unsound
                           ELSE IF op.ok /\ ok /\ key = op.at THEN unsound \ {op.at}
                           ELSE unsound \cup {op.at, key}
    /\ UNCHANGED << events, wired, held >>

\* UnregisterFromRuntime: every handler, then the offer, whatever fails; the
\* keys are made of the object's own instance_id_.  The member is reset.
DetachStep ==
    /\ op.kind = "detach"
    /\ LET key == wired[op.who]
           last == op.step > Methods
       IN  \E ok, done \in BOOLEAN :
             /\ Outcome(ok, done)
             /\ IF last THEN StopOfferService(key, done)
                ELSE UnregisterMethodHandler(key, op.step, done)
             /\ op' = IF last THEN NoOp ELSE [op EXCEPT !.step = @ + 1, !.ok = @ /\ ok]
             /\ attached' = IF last THEN [attached EXCEPT ![op.at] = None] ELSE attached
             /\ unsound' = IF ~ last THEN unsound
                           ELSE IF op.ok /\ ok /\ key = op.at THEN unsound \ {op.at}
                           ELSE unsound \cup {op.at, key}
    /\ UNCHANGED << events, wired, held >>

-----------------------------------------------------------------------------
(* The clients: the key of an event names the instance, not the client *)

CreateClient(c) ==
    /\ c \notin living /\ \A i \in Instance : subscriber[i] # c
    /\ living' = living \cup {c}
    /\ engaged' = engaged \ {c}
    /\ UNCHANGED << backend, subscriber, wired, attached, held, op, unsound >>

\* The destructor of a client withdraws nothing either.
DestroyClient(c) ==
    /\ c \in living
    /\ living' = living \ {c}
    /\ UNCHANGED << backend, subscriber, engaged, wired, attached, held, op, unsound >>

Subscribe(c) ==
    /\ c \in living
    /\ \E ok, done \in BOOLEAN :
         /\ Outcome(ok, done)
         /\ subscriber' = IF done THEN [subscriber EXCEPT ![ClientOf[c]] = c] ELSE subscriber
    /\ engaged' = engaged \cup {c}
    /\ UNCHANGED << backend, living, wired, attached, held, op, unsound >>

Unsubscribe(c) ==
    /\ c \in living
    /\ \E ok, done \in BOOLEAN :
         /\ Outcome(ok, done)
         /\ subscriber' = IF done THEN [subscriber EXCEPT ![ClientOf[c]] = None]
                          ELSE subscriber
         /\ engaged' = IF ok THEN engaged \ {c} ELSE engaged
    /\ UNCHANGED << backend, living, wired, attached, held, op, unsound >>

-----------------------------------------------------------------------------
Next ==
    \/ \E s \in Service : Create(s) \/ Release(s)
    \/ \E i \in Instance : Detach(i) \/ \E s \in Service : Attach(i, s)
    \/ AttachStep \/ DetachStep \/ DestroyApplication
    \/ \E c \in Client :
         CreateClient(c) \/ DestroyClient(c) \/ Subscribe(c) \/ Unsubscribe(c)

Spec == Init /\ [][Next]_vars

-----------------------------------------------------------------------------
\* The instances the present call works on.
Busy == IF Idle THEN {} ELSE {op.at, wired[op.who]}

\* Types; a call runs from its first backend call to its last.
TypeOK ==
    /\ offered \subseteq Instance
    /\ handler \in [Instance -> [Method -> Service \cup {None}]]
    /\ subscriber \in [Instance -> Client \cup {None}]
    /\ wired \in [Service -> Instance \cup {None}]
    /\ attached \in [Instance -> Service \cup {None}]
    /\ held \subseteq Service /\ unsound \subseteq Instance
    /\ living \subseteq Client /\ engaged \subseteq Client
    /\ \/ op = NoOp
       \/ /\ op \in [kind : {"attach"}, at : Instance, who : Service,
                     step : 0 .. Methods, ok : {TRUE}]
          /\ op.who \in held /\ wired[op.who] = op.at
       \/ /\ op \in [kind : {"detach"}, at : Instance, who : Service,
                     step : 1 .. Methods + 1, ok : BOOLEAN]
          /\ attached[op.at] = op.who /\ wired[op.who] # None

\* What a client meets at an instance no call works on and no failure touched
\* since it was last attached or detached as a whole, nor the end of an
\* application: the attached object, offered and answering every method, or
\* nothing at all.  While another object takes its place there, one of the two,
\* but never nothing.
TableAgrees ==
    /\ \A i \in Instance \ (unsound \cup Busy) :
         /\ DiscoverService(i) <=> attached[i] # None
         /\ \A m \in Method : InvokeMethod(i, m) = attached[i]
    /\ op.kind = "attach" /\ op.at \notin unsound /\ attached[op.at] # None =>
         /\ DiscoverService(op.at)
         /\ \A m \in Method : InvokeMethod(op.at, m) \in {attached[op.at], op.who}

\* Nothing the backend calls is gone, with these exceptions only: service objects
\* at an instance that a failed call, a shared object or the end of the application
\* left in disorder since something was attached or detached there as a whole; and
\* client objects destroyed before an Unsubscribe succeeded.  In particular nothing
\* is gone while an object is attached, replaced or detached, and no event reaches
\* a client, living or not, after its Unsubscribe.
NoDangling ==
    /\ \A i \in Instance \ unsound : \A m \in Method :
          InvokeMethod(i, m) # None => Alive(InvokeMethod(i, m))
    /\ \A s \in Service :
          PublishEvent(s) # None => PublishEvent(s) \in engaged
=============================================================================
