------------------------- MODULE AppFrameworkProofs -------------------------
(***************************************************************************)
(* Theorems about AppFramework, for any number of instances, objects,       *)
(* methods and clients, and any failures of the backend.                    *)
(***************************************************************************)
EXTENDS AppFramework, TLAPS

\* What a member holds was given the runtime and keeps it.
Wired == \A i \in Instance : attached[i] # None => wired[attached[i]] # None

\* A whole table: the attached object, offered and answering every method, or
\* nothing at all.
Whole(i) ==
    /\ i \in offered <=> attached[i] # None
    /\ \A m \in Method : handler[i][m] = attached[i]

\* A call under way has done its first steps at its instance, and what is not
\* done yet is as it was.
AttachingAt(i) ==
    /\ \A m \in Method : m < op.step => handler[i][m] = op.who
    /\ op.step > 0 => i \in offered
    /\ i \notin unsound =>
           /\ \A m \in Method : handler[i][m] \in {op.who, attached[i]}
           /\ attached[i] # None => i \in offered

DetachingAt(i) ==
    /\ op.ok /\ i = wired[op.who] =>
           /\ \A m \in Method : m < op.step => handler[i][m] = None
    /\ i \notin unsound => \A m \in Method : handler[i][m] \in {None, attached[i]}

Tables ==
    /\ \A i \in Instance \ (unsound \cup Busy) : Whole(i)
    /\ op.kind = "attach" => AttachingAt(op.at)
    /\ op.kind = "detach" => DetachingAt(op.at) /\ DetachingAt(wired[op.who])

\* An event handler is that of a client of the instance, and belongs to a Subscribe
\* that no successful Unsubscribe followed.
Subscribers ==
    \A i \in Instance : subscriber[i] # None =>
        subscriber[i] \in engaged /\ ClientOf[subscriber[i]] = i

IInv == TypeOK /\ Wired /\ Tables /\ Subscribers

-----------------------------------------------------------------------------
LEMMA InitIInv == Init => IInv
<1> SUFFICES ASSUME Init PROVE IInv
  OBVIOUS
<1>1. TypeOK
  BY DEF Init, TypeOK
<1>2. Wired
  BY DEF Init, Wired
<1>3. Tables
  BY DEF Init, Tables, Whole, NoOp
<1>4. Subscribers
  BY DEF Init, Subscribers
<1> QED
  BY <1>1, <1>2, <1>3, <1>4 DEF IInv

\* What the application does leaves the event handlers alone.
LEMMA SubscribersStay ==
    ASSUME Subscribers, UNCHANGED events
    PROVE  Subscribers'
BY DEF Subscribers, events

\* The record of a call under way.
Attachings ==
    [kind : {"attach"}, at : Instance, who : Service, step : 0 .. Methods, ok : {TRUE}]
Detachings ==
    [kind : {"detach"}, at : Instance, who : Service, step : 1 .. Methods + 1, ok : BOOLEAN]

LEMMA CallFacts ==
    ASSUME TypeOK
    PROVE  /\ op.kind = "attach" =>
                /\ op \in Attachings /\ op.at \in Instance /\ op.who \in Service
                /\ op.step \in 0 .. Methods
                /\ op.who \in held /\ wired[op.who] = op.at
           /\ op.kind = "detach" =>
                /\ op \in Detachings /\ op.at \in Instance /\ op.who \in Service
                /\ op.step \in 1 .. Methods + 1
                /\ attached[op.at] = op.who /\ wired[op.who] \in Instance
           /\ op.kind \in {"none", "attach", "detach"}
           /\ op.kind = "none" => op = NoOp
<1>1. CASE op = NoOp
  BY <1>1 DEF NoOp
<1>2. CASE op \in Attachings /\ op.who \in held /\ wired[op.who] = op.at
  <2>1. op.kind = "attach" /\ op.at \in Instance /\ op.who \in Service
        /\ op.step \in 0 .. Methods
    BY <1>2 DEF Attachings
  <2> QED
    BY <1>2, <2>1
<1>3. CASE op \in Detachings /\ attached[op.at] = op.who /\ wired[op.who] # None
  <2>1. op.kind = "detach" /\ op.at \in Instance /\ op.who \in Service
        /\ op.step \in 1 .. Methods + 1
    BY <1>3 DEF Detachings
  <2> QED
    BY <1>3, <2>1 DEF TypeOK
<1> QED
  BY <1>1, <1>2, <1>3 DEF TypeOK, Attachings, Detachings

LEMMA AttachingsStep ==
    ASSUME NEW r \in Attachings, NEW q, q = [r EXCEPT !.step = @ + 1], r.step < Methods
    PROVE  /\ q \in Attachings /\ q.kind = "attach" /\ q.at = r.at /\ q.who = r.who
           /\ q.step = r.step + 1
<1>1. PICK i \in Instance, s \in Service, n \in 0 .. Methods :
         r = [kind |-> "attach", at |-> i, who |-> s, step |-> n, ok |-> TRUE]
  BY DEF Attachings
<1>2. q = [kind |-> "attach", at |-> i, who |-> s, step |-> n + 1, ok |-> TRUE]
  BY <1>1
<1>3. n + 1 \in 0 .. Methods
  BY <1>1, AppAssumption
<1> QED
  BY <1>1, <1>2, <1>3 DEF Attachings

LEMMA DetachingsStep ==
    ASSUME NEW r \in Detachings, NEW q, NEW ok \in BOOLEAN,
           q = [r EXCEPT !.step = @ + 1, !.ok = @ /\ ok], r.step <= Methods
    PROVE  /\ q \in Detachings /\ q.kind = "detach" /\ q.at = r.at /\ q.who = r.who
           /\ q.step = r.step + 1 /\ (q.ok => r.ok /\ ok)
<1>1. PICK i \in Instance, s \in Service, n \in 1 .. Methods + 1, b \in BOOLEAN :
         r = [kind |-> "detach", at |-> i, who |-> s, step |-> n, ok |-> b]
  BY DEF Detachings
<1>2. PICK well \in BOOLEAN : well = (b /\ ok)
  OBVIOUS
<1>3. q = [kind |-> "detach", at |-> i, who |-> s, step |-> n + 1, ok |-> well]
  <2>1. q = [r EXCEPT !.step = n + 1, !.ok = well]
    BY <1>1, <1>2
  <2> QED
    BY <1>1, <2>1
<1>4. n + 1 \in 1 .. Methods + 1
  BY <1>1, AppAssumption
<1> QED
  BY <1>1, <1>2, <1>3, <1>4 DEF Detachings

LEMMA CreateStep ==
    ASSUME IInv, NEW s \in Service, Create(s)
    PROVE  IInv'
<1>0. TypeOK /\ Wired /\ Tables /\ Subscribers
  BY DEF IInv
<1>1. /\ op.who # s /\ \A i \in Instance : attached[i] # s
      /\ wired' = [wired EXCEPT ![s] = None] /\ held' = held \cup {s}
      /\ UNCHANGED << backend, events, attached, op, unsound >>
  BY DEF Create, Alive
<1>2. \A t \in Service \ {s} : wired'[t] = wired[t]
  BY <1>0, <1>1 DEF TypeOK
<1>3. TypeOK'
  <2>1. /\ wired' \in [Service -> Instance \cup {None}] /\ held' \subseteq Service
    BY <1>0, <1>1 DEF TypeOK
  <2>2. op.kind \in {"attach", "detach"} => wired'[op.who] = wired[op.who]
    BY <1>0, <1>1, <1>2, CallFacts
  <2> QED
    BY <1>0, <1>1, <2>1, <2>2 DEF TypeOK, backend, events, NoOp
<1>4. Wired'
  BY <1>0, <1>1, <1>2 DEF TypeOK, Wired
<1>5. Busy' = Busy /\ (op.kind = "detach" => wired'[op.who] = wired[op.who])
  BY <1>0, <1>1, <1>2, CallFacts DEF Busy, Idle, NoOp
<1>6. Tables'
  BY <1>0, <1>1, <1>5 DEF Tables, Whole, AttachingAt, DetachingAt, backend
<1>7. Subscribers'
  BY <1>0, <1>1, SubscribersStay
<1> QED
  BY <1>3, <1>4, <1>6, <1>7 DEF IInv

LEMMA ReleaseStep ==
    ASSUME IInv, NEW s \in Service, Release(s)
    PROVE  IInv'
<1>0. TypeOK /\ Wired /\ Tables /\ Subscribers
  BY DEF IInv
<1>1. /\ UNCHANGED << backend, events, wired, attached, op, unsound >>
      /\ held' = held \ {s} /\ (op.kind = "attach" => op.who # s)
  BY DEF Release
<1>2. TypeOK'
  BY <1>0, <1>1 DEF TypeOK, backend, events, NoOp
<1>3. Wired' /\ Tables'
  BY <1>0, <1>1 DEF Wired, Tables, Busy, Idle, Whole, AttachingAt, DetachingAt, backend
<1>4. Subscribers'
  BY <1>0, <1>1, SubscribersStay
<1> QED
  BY <1>2, <1>3, <1>4 DEF IInv

LEMMA AttachBegins ==
    ASSUME IInv, NEW i \in Instance, NEW s \in Service, Attach(i, s)
    PROVE  IInv'
<1>0. TypeOK /\ Wired /\ Tables /\ Subscribers
  BY DEF IInv
<1>1. /\ op.kind = "none" /\ s \in held
      /\ wired' = [wired EXCEPT ![s] = i]
      /\ op' = [kind |-> "attach", at |-> i, who |-> s, step |-> 0, ok |-> TRUE]
      /\ UNCHANGED << backend, events, attached, held, unsound >>
  BY DEF Attach, Idle
<1>2. wired'[s] = i /\ wired' \in [Service -> Instance \cup {None}]
  BY <1>0, <1>1 DEF TypeOK
<1>3. TypeOK'
  <2>1. op' \in [kind : {"attach"}, at : Instance, who : Service,
                 step : 0 .. Methods, ok : {TRUE}]
    BY <1>1, AppAssumption
  <2> QED
    BY <1>0, <1>1, <1>2, <2>1 DEF TypeOK, backend, events
<1>4. Wired'
  <2>1. i # None
    BY AppAssumption
  <2> QED
    BY <1>0, <1>1, <2>1 DEF TypeOK, Wired
<1>5. Busy = {} /\ Busy' = {i}
  BY <1>1, <1>2 DEF Busy, Idle
<1>6. Tables'
  <2>1. \A j \in Instance \ (unsound' \cup Busy') : Whole(j)'
    BY <1>0, <1>1, <1>5 DEF Tables, Whole, backend
  <2>2. AttachingAt(i)'
    <3>1. \A m \in Method : ~ (m < 0)
      BY AppAssumption DEF Method
    <3> QED
      BY <1>0, <1>1, <1>5, <3>1 DEF Tables, Whole, AttachingAt, backend
  <2> QED
    BY <1>1, <2>1, <2>2 DEF Tables
<1>7. Subscribers'
  BY <1>0, <1>1, SubscribersStay
<1> QED
  BY <1>3, <1>4, <1>6, <1>7 DEF IInv

LEMMA DetachBegins ==
    ASSUME IInv, NEW i \in Instance, Detach(i)
    PROVE  IInv'
<1>0. TypeOK /\ Wired /\ Tables /\ Subscribers
  BY DEF IInv
<1>1. /\ op.kind = "none" /\ attached[i] # None
      /\ op' = [kind |-> "detach", at |-> i, who |-> attached[i], step |-> 1, ok |-> TRUE]
      /\ UNCHANGED << backend, events, wired, attached, held, unsound >>
  BY DEF Detach, Idle
<1>2. attached[i] \in Service /\ wired[attached[i]] \in Instance /\ wired[attached[i]] # None
  BY <1>0, <1>1 DEF TypeOK, Wired
<1>3. TypeOK'
  <2>1. op' \in [kind : {"detach"}, at : Instance, who : Service,
                 step : 1 .. Methods + 1, ok : BOOLEAN]
    BY <1>1, <1>2, AppAssumption
  <2> QED
    BY <1>0, <1>1, <1>2, <2>1 DEF TypeOK, backend, events
<1>4. Wired'
  BY <1>0, <1>1 DEF Wired
<1>5. Busy = {} /\ Busy' = {i, wired[attached[i]]}
  BY <1>1 DEF Busy, Idle
<1>6. Tables'
  <2>1. \A j \in Instance \ (unsound' \cup Busy') : Whole(j)'
    BY <1>0, <1>1, <1>5 DEF Tables, Whole, backend
  <2>2. ASSUME NEW j \in Instance PROVE DetachingAt(j)'
    <3>1. \A m \in Method : ~ (m < 1)
      BY AppAssumption DEF Method
    <3> QED
      BY <1>0, <1>1, <1>5, <3>1 DEF Tables, Whole, DetachingAt, backend
  <2> QED
    BY <1>1, <1>2, <2>1, <2>2 DEF Tables
<1>7. Subscribers'
  BY <1>0, <1>1, SubscribersStay
<1> QED
  BY <1>3, <1>4, <1>6, <1>7 DEF IInv

\* One step of RegisterWithRuntime: on, to its end, or to its first failure.
LEMMA AttachGoesOn ==
    ASSUME IInv, AttachStep
    PROVE  IInv'
<1>call. op.kind = "attach" /\ op.at \in Instance /\ op.who \in Service
  BY CallFacts DEF IInv, AttachStep
<1>names. PICK i \in Instance, s \in Service : i = op.at /\ s = op.who
  BY <1>call
<1>0. /\ TypeOK /\ Wired /\ Tables /\ Subscribers /\ op.kind = "attach" /\ ~ Idle
      /\ op \in Attachings /\ i \in Instance /\ s \in Service /\ op.step \in 0 .. Methods
      /\ s \in held /\ wired[s] = i
  BY <1>call, <1>names, CallFacts DEF IInv, Idle
<1>1. PICK ok \in BOOLEAN, done \in BOOLEAN :
         /\ ok => done
         /\ IF op.step = 0 THEN OfferService(i, done)
            ELSE RegisterMethodHandler(i, op.step, s, done)
         /\ op' = IF ok /\ op.step < Methods THEN [op EXCEPT !.step = @ + 1] ELSE NoOp
         /\ attached' = IF ok /\ op.step = Methods THEN [attached EXCEPT ![i] = s] ELSE attached
         /\ unsound' = IF ~ ok THEN unsound \cup {i}
                       ELSE IF op.step = Methods THEN unsound \ {i} ELSE unsound
  BY <1>names DEF AttachStep, Outcome
<1>2. UNCHANGED << events, wired, held >>
  BY DEF AttachStep
<1>3. handler \in [Instance -> [Method -> Service \cup {None}]] /\ offered \subseteq Instance
      /\ attached \in [Instance -> Service \cup {None}] /\ unsound \subseteq Instance
  BY <1>0 DEF TypeOK
<1>4. handler' = IF op.step # 0 /\ done THEN [handler EXCEPT ![i][op.step] = s] ELSE handler
  BY <1>1 DEF OfferService, RegisterMethodHandler
<1>5. offered' = IF op.step = 0 /\ done THEN offered \cup {i} ELSE offered
  BY <1>1 DEF OfferService, RegisterMethodHandler
<1>6. /\ \A j \in Instance \ {i} : handler'[j] = handler[j] /\ (j \in offered' <=> j \in offered)
      /\ \A m \in Method : handler'[i][m] = IF m = op.step /\ done THEN s ELSE handler[i][m]
  <2>1. \A j \in Instance \ {i} : handler'[j] = handler[j]
    BY <1>0, <1>3, <1>4
  <2>2. \A m \in Method : m # 0
    BY AppAssumption DEF Method
  <2>3. \A m \in Method : handler'[i][m] = IF m = op.step /\ done THEN s ELSE handler[i][m]
    BY <1>0, <1>3, <1>4, <2>2
  <2>4. \A j \in Instance \ {i} : j \in offered' <=> j \in offered
    BY <1>0, <1>5
  <2> QED
    BY <2>1, <2>3, <2>4
<1>7. /\ handler' \in [Instance -> [Method -> Service \cup {None}]] /\ offered' \subseteq Instance
      /\ attached' \in [Instance -> Service \cup {None}] /\ unsound' \subseteq Instance
  <2>1. op.step # 0 => op.step \in Method
    BY <1>0, AppAssumption DEF Method
  <2>2. handler' \in [Instance -> [Method -> Service \cup {None}]]
    BY <1>0, <1>3, <1>4, <2>1
  <2> QED
    BY <1>0, <1>1, <1>3, <1>5, <2>2
<1>8. Wired'
  <2>1. i # None /\ s # None
    BY <1>0, AppAssumption
  <2> QED
    BY <1>0, <1>1, <1>2, <1>3, <2>1 DEF Wired
<1>subs. Subscribers'
  BY <1>0, <1>2, SubscribersStay
<1>9. /\ \A j \in Instance \ (unsound \cup {i}) : Whole(j)
      /\ AttachingAt(i)
  BY <1>0, <1>names DEF Tables, Busy
<1>10. \A j \in Instance \ (unsound \cup {i}) : Whole(j)'
  BY <1>0, <1>1, <1>3, <1>6, <1>9 DEF Whole
<1>11. CASE ~ ok
  <2>1. op' = NoOp /\ unsound' = unsound \cup {i}
    BY <1>1, <1>11
  <2>2. TypeOK'
    BY <1>0, <1>2, <1>7, <2>1 DEF TypeOK, events
  <2>3. Tables'
    BY <1>10, <2>1 DEF Tables, NoOp
  <2> QED
    BY <1>8, <1>subs, <2>2, <2>3 DEF IInv
<1>12. CASE ok /\ op.step < Methods
  <2>1. /\ op' = [op EXCEPT !.step = @ + 1] /\ unsound' = unsound /\ attached' = attached /\ done
    BY <1>0, <1>1, <1>12, AppAssumption
  <2>2. op' \in Attachings /\ op'.step = op.step + 1 /\ op'.at = i /\ op'.who = s
        /\ op'.kind = "attach"
    <3>1. op' = [op EXCEPT !.step = @ + 1]
      BY <2>1
    <3> QED
      BY <1>0, <1>names, <1>12, <3>1, AttachingsStep
  <2>3. TypeOK'
    BY <1>0, <1>2, <1>7, <2>2 DEF TypeOK, events, Attachings
  <2>4. Busy' = {i}
    BY <1>0, <1>2, <2>2 DEF Busy, Idle
  <2>5. \A m \in Method : m < op.step + 1 => handler'[i][m] = s
    <3>1. \A m \in Method : m < op.step + 1 => m < op.step \/ m = op.step
      BY <1>0, AppAssumption DEF Method
    <3> QED
      BY <1>6, <1>9, <1>names, <2>1, <3>1 DEF AttachingAt
  <2>6. i \in offered'
    <3>1. op.step = 0 \/ op.step > 0
      BY <1>0, AppAssumption
    <3> QED
      BY <1>5, <1>9, <2>1, <3>1 DEF AttachingAt
  <2>7. AttachingAt(i)'
    BY <1>6, <1>9, <1>names, <2>1, <2>2, <2>5, <2>6 DEF AttachingAt
  <2>8. Tables'
    BY <1>10, <2>1, <2>2, <2>4, <2>7 DEF Tables
  <2> QED
    BY <1>8, <1>subs, <2>3, <2>8 DEF IInv
<1>13. CASE ok /\ op.step = Methods
  <2>1. /\ op' = NoOp /\ unsound' = unsound \ {i} /\ attached' = [attached EXCEPT ![i] = s] /\ done
    BY <1>0, <1>1, <1>13, AppAssumption
  <2>2. TypeOK'
    BY <1>0, <1>2, <1>7, <2>1 DEF TypeOK, events
  <2>3. \A m \in Method : handler'[i][m] = s
    <3>1. \A m \in Method : m < op.step \/ m = op.step
      BY <1>13, AppAssumption DEF Method
    <3> QED
      BY <1>6, <1>9, <1>names, <2>1, <3>1 DEF AttachingAt
  <2>4. i \in offered' /\ s # None
    BY <1>0, <1>5, <1>9, <1>13, AppAssumption DEF AttachingAt
  <2>5. Whole(i)'
    BY <1>0, <1>3, <2>1, <2>3, <2>4 DEF Whole
  <2>6. Tables'
    BY <1>10, <2>1, <2>5 DEF Tables, NoOp
  <2> QED
    BY <1>8, <1>subs, <2>2, <2>6 DEF IInv
<1>14. op.step < Methods \/ op.step = Methods
  BY <1>0, AppAssumption
<1> QED
  BY <1>11, <1>12, <1>13, <1>14

\* One step of UnregisterFromRuntime, at the instance the object was last given.
LEMMA DetachGoesOn ==
    ASSUME IInv, DetachStep
    PROVE  IInv'
<1> DEFINE last == op.step > Methods
<1>call. op.kind = "detach" /\ op.at \in Instance /\ wired[op.who] \in Instance
  BY CallFacts DEF IInv, DetachStep
<1>names. PICK i \in Instance, key \in Instance : i = op.at /\ key = wired[op.who]
  BY <1>call
<1>0. /\ TypeOK /\ Wired /\ Tables /\ Subscribers /\ op.kind = "detach" /\ ~ Idle
      /\ op \in Detachings /\ i \in Instance /\ op.step \in 1 .. Methods + 1
      /\ attached[i] = op.who /\ op.who \in Service /\ key \in Instance
  BY <1>call, <1>names, CallFacts DEF IInv, Idle
<1>1. PICK ok \in BOOLEAN, done \in BOOLEAN :
         /\ ok => done
         /\ IF last THEN StopOfferService(key, done)
            ELSE UnregisterMethodHandler(key, op.step, done)
         /\ op' = IF last THEN NoOp ELSE [op EXCEPT !.step = @ + 1, !.ok = @ /\ ok]
         /\ attached' = IF last THEN [attached EXCEPT ![i] = None] ELSE attached
         /\ unsound' = IF ~ last THEN unsound
                       ELSE IF op.ok /\ ok /\ key = i THEN unsound \ {i}
                       ELSE unsound \cup {i, key}
  BY <1>names DEF DetachStep, Outcome
<1>2. UNCHANGED << events, wired, held >>
  BY DEF DetachStep
<1>3. handler \in [Instance -> [Method -> Service \cup {None}]] /\ offered \subseteq Instance
      /\ attached \in [Instance -> Service \cup {None}] /\ unsound \subseteq Instance
  BY <1>0 DEF TypeOK
<1>4. Busy = {i, key}
  BY <1>0, <1>names DEF Busy
<1>subs. Subscribers'
  BY <1>0, <1>2, SubscribersStay
<1>5. /\ \A j \in Instance \ (unsound \cup {i, key}) : Whole(j)
      /\ DetachingAt(i) /\ DetachingAt(key)
  BY <1>0, <1>4, <1>names DEF Tables
<1> HIDE DEF last
<1>6. Wired'
  BY <1>0, <1>1, <1>2, <1>3 DEF Wired
<1>7. CASE last
  <2>1. /\ handler' = handler /\ op' = NoOp /\ attached' = [attached EXCEPT ![i] = None]
        /\ offered' = IF done THEN offered \ {key} ELSE offered
    BY <1>1, <1>7 DEF StopOfferService
  <2>2. TypeOK'
    <3>1. attached' \in [Instance -> Service \cup {None}]
      BY <1>0, <1>3, <2>1
    <3>2. offered' \subseteq Instance /\ unsound' \subseteq Instance
      BY <1>0, <1>1, <1>3, <2>1
    <3> QED
      BY <1>0, <1>2, <2>1, <3>1, <3>2 DEF TypeOK, events
  <2>3. \A j \in Instance \ (unsound \cup {i, key}) : Whole(j)'
    BY <1>0, <1>3, <1>5, <2>1 DEF Whole
  <2>4. CASE op.ok /\ ok /\ key = i
    <3>1. unsound' = unsound \ {i} /\ offered' = offered \ {i} /\ attached'[i] = None
      BY <1>0, <1>1, <1>3, <1>7, <2>1, <2>4
    <3>2. \A m \in Method : m < op.step
      BY <1>0, <1>7, AppAssumption DEF Method, last
    <3>3. \A m \in Method : handler[i][m] = None
      BY <1>5, <1>names, <2>4, <3>2 DEF DetachingAt
    <3>4. Whole(i)'
      BY <2>1, <3>1, <3>3 DEF Whole
    <3> QED
      BY <1>6, <1>subs, <2>1, <2>2, <2>3, <2>4, <3>1, <3>4 DEF IInv, Tables, NoOp
  <2>5. CASE ~ (op.ok /\ ok /\ key = i)
    <3>1. unsound' = unsound \cup {i, key}
      BY <1>1, <1>7, <2>5
    <3> QED
      BY <1>6, <1>subs, <2>1, <2>2, <2>3, <3>1 DEF IInv, Tables, NoOp
  <2> QED
    BY <2>4, <2>5
<1>8. CASE ~ last
  <2>0. op.step \in Method
    BY <1>0, <1>8, AppAssumption DEF Method, last
  <2>1. /\ handler' = IF done THEN [handler EXCEPT ![key][op.step] = None] ELSE handler
        /\ offered' = offered /\ attached' = attached /\ unsound' = unsound
        /\ op' = [op EXCEPT !.step = @ + 1, !.ok = @ /\ ok]
    BY <1>1, <1>8 DEF UnregisterMethodHandler
  <2>2. /\ op'.kind = "detach" /\ op'.at = i /\ op'.who = op.who /\ op'.step = op.step + 1
        /\ op'.ok => op.ok /\ ok
        /\ op' \in Detachings
    <3>1. op' = [op EXCEPT !.step = @ + 1, !.ok = @ /\ ok]
      BY <2>1
    <3>2. op.step <= Methods
      BY <2>0 DEF Method
    <3> QED
      BY <1>0, <1>names, <3>1, <3>2, DetachingsStep
  <2>3. handler' \in [Instance -> [Method -> Service \cup {None}]]
    BY <1>0, <1>3, <2>0, <2>1
  <2>4. TypeOK'
    <3>1. attached'[op'.at] = op'.who /\ wired'[op'.who] # None
      BY <1>0, <1>names, <1>2, <2>1, <2>2, AppAssumption
    <3> QED
      BY <1>0, <1>2, <2>1, <2>2, <2>3, <3>1 DEF TypeOK, events, Detachings
  <2>5. \A j \in Instance \ (unsound' \cup {i, key}) : Whole(j)'
    BY <1>0, <1>3, <1>5, <2>1 DEF Whole
  <2>6. Busy' = {i, key} /\ wired'[op'.who] = key
    BY <1>2, <1>names, <2>2 DEF Busy, Idle
  <2>7. ASSUME NEW j \in {i, key} PROVE DetachingAt(j)'
    <3>1. \A m \in Method : handler'[j][m] =
             IF j = key /\ m = op.step /\ done THEN None ELSE handler[j][m]
      BY <1>0, <1>3, <2>1
    <3>2. \A m \in Method : m < op.step + 1 => m < op.step \/ m = op.step
      BY <2>0, AppAssumption DEF Method
    <3>3. DetachingAt(j)
      BY <1>5
    <3>4. op'.ok /\ j = key => \A m \in Method : m < op.step + 1 => handler'[j][m] = None
      BY <1>1, <1>names, <2>2, <3>1, <3>2, <3>3 DEF DetachingAt
    <3>5. j \notin unsound => \A m \in Method : handler'[j][m] \in {None, attached[j]}
      BY <3>1, <3>3 DEF DetachingAt
    <3> QED
      BY <2>1, <2>2, <2>6, <3>4, <3>5 DEF DetachingAt
  <2>8. Tables'
    BY <2>2, <2>5, <2>6, <2>7 DEF Tables
  <2> QED
    BY <1>6, <1>subs, <2>4, <2>8 DEF IInv
<1> QED
  BY <1>7, <1>8

\* The end of an application: where something was attached, disorder.
LEMMA ApplicationEnds ==
    ASSUME IInv, DestroyApplication
    PROVE  IInv'
<1>0. TypeOK /\ Wired /\ Tables /\ Subscribers /\ Idle
  BY DEF IInv, DestroyApplication
<1>1. /\ attached' = [i \in Instance |-> None]
      /\ unsound' = unsound \cup {i \in Instance : attached[i] # None}
      /\ UNCHANGED << backend, events, wired, held, op >>
  BY DEF DestroyApplication
<1>2. op = NoOp /\ op' = NoOp
  BY <1>0, <1>1, CallFacts DEF Idle
<1>3. TypeOK'
  BY <1>0, <1>1, <1>2 DEF TypeOK, backend, events
<1>4. Wired'
  BY <1>1 DEF Wired
<1>5. \A i \in Instance \ unsound' : Whole(i)'
  BY <1>0, <1>1, <1>2 DEF Tables, Whole, Busy, Idle, backend
<1>6. Tables'
  BY <1>2, <1>5 DEF Tables, NoOp
<1>7. Subscribers'
  BY <1>0, <1>1, SubscribersStay
<1> QED
  BY <1>3, <1>4, <1>6, <1>7 DEF IInv

\* What a client's object does leaves the application and its tables alone.
LEMMA ClientStep ==
    ASSUME IInv, NEW c \in Client,
           CreateClient(c) \/ DestroyClient(c) \/ Subscribe(c) \/ Unsubscribe(c)
    PROVE  IInv'
<1>0. TypeOK /\ Wired /\ Tables /\ Subscribers /\ ClientOf[c] \in Instance /\ c # None
  BY AppAssumption DEF IInv
<1>1. UNCHANGED << backend, wired, attached, held, op, unsound >>
  BY DEF CreateClient, DestroyClient, Subscribe, Unsubscribe
<1>2. subscriber \in [Instance -> Client \cup {None}]
  BY <1>0 DEF TypeOK
<1>3. ASSUME CreateClient(c) \/ DestroyClient(c) PROVE Subscribers'
  <2>1. subscriber' = subscriber
    BY <1>3 DEF CreateClient, DestroyClient
  <2>2. \A i \in Instance : subscriber[i] \in engaged => subscriber[i] \in engaged'
    BY <1>3 DEF CreateClient, DestroyClient
  <2> QED
    BY <1>0, <2>1, <2>2 DEF Subscribers
<1>4. ASSUME Subscribe(c) PROVE Subscribers'
  <2>1. /\ subscriber' = [subscriber EXCEPT ![ClientOf[c]] = c] \/ subscriber' = subscriber
        /\ engaged' = engaged \cup {c}
    BY <1>4 DEF Subscribe
  <2>2. \A i \in Instance : subscriber'[i] = subscriber[i]
                            \/ (i = ClientOf[c] /\ subscriber'[i] = c)
    BY <1>0, <1>2, <2>1
  <2> QED
    BY <1>0, <2>1, <2>2 DEF Subscribers
<1>5. ASSUME Unsubscribe(c) PROVE Subscribers'
  <2>1. PICK ok \in BOOLEAN, done \in BOOLEAN :
           /\ ok => done
           /\ subscriber' = IF done THEN [subscriber EXCEPT ![ClientOf[c]] = None]
                            ELSE subscriber
           /\ engaged' = IF ok THEN engaged \ {c} ELSE engaged
    BY <1>5 DEF Unsubscribe, Outcome
  <2>2. \A i \in Instance : subscriber'[i] # None =>
           subscriber'[i] = subscriber[i] /\ (done => i # ClientOf[c])
    BY <1>0, <1>2, <2>1
  <2> QED
    BY <1>0, <2>1, <2>2 DEF Subscribers
<1>6. Subscribers'
  BY <1>3, <1>4, <1>5
<1>7. TypeOK'
  <2>1. /\ subscriber' \in [Instance -> Client \cup {None}]
        /\ living' \subseteq Client /\ engaged' \subseteq Client
    BY <1>0 DEF CreateClient, DestroyClient, Subscribe, Unsubscribe, TypeOK
  <2> QED
    BY <1>0, <1>1, <2>1 DEF TypeOK, backend, NoOp
<1>8. Wired' /\ Tables'
  BY <1>0, <1>1 DEF Wired, Tables, Busy, Idle, Whole, AttachingAt, DetachingAt, backend
<1> QED
  BY <1>6, <1>7, <1>8 DEF IInv

LEMMA InductiveStep == ASSUME IInv, [Next]_vars PROVE IInv'
<1>1. CASE Next
  BY <1>1, CreateStep, ReleaseStep, AttachBegins, DetachBegins, AttachGoesOn, DetachGoesOn,
     ApplicationEnds, ClientStep
  DEF Next
<1>2. CASE UNCHANGED vars
  <2>1. /\ offered' = offered /\ handler' = handler /\ subscriber' = subscriber
        /\ wired' = wired /\ attached' = attached /\ held' = held /\ op' = op
        /\ living' = living /\ engaged' = engaged /\ unsound' = unsound
    BY <1>2 DEF vars, backend, events
  <2>2. TypeOK'
    BY <2>1 DEF IInv, TypeOK, NoOp
  <2>3. Wired'
    BY <2>1 DEF IInv, Wired
  <2>4. Tables'
    BY <2>1 DEF IInv, Tables, Busy, Idle, Whole, AttachingAt, DetachingAt
  <2>5. Subscribers'
    BY <2>1 DEF IInv, Subscribers
  <2> QED
    BY <2>2, <2>3, <2>4, <2>5 DEF IInv
<1> QED
  BY <1>1, <1>2

\* IInv holds throughout every behaviour of the application and its clients.
THEOREM Inductive == Spec => []IInv
BY InitIInv, InductiveStep, PTL DEF Spec

\* Every variable keeps its type, and a call under way its object and the
\* instance it was given.
THEOREM TypeCorrect == Spec => []TypeOK
<1>1. IInv => TypeOK
  BY DEF IInv
<1> QED
  BY <1>1, Inductive, PTL

\* Attach and detach in any order, each with any failures of the backend: where no
\* call is under way, a client meets the attached object with all its methods or
\* nothing, unless a failure was the last that happened to the instance; and where
\* one object replaces another it never meets nothing.
THEOREM WholeOrNothing == Spec => []TableAgrees
<1>1. ASSUME IInv, op.kind = "attach", op.at \notin unsound, attached[op.at] # None
      PROVE  /\ op.at \in offered
             /\ \A m \in Method : handler[op.at][m] \in {attached[op.at], op.who}
  BY <1>1 DEF IInv, Tables, AttachingAt
<1>2. IInv => TableAgrees
  BY <1>1 DEF IInv, Tables, Whole, TableAgrees, DiscoverService, InvokeMethod
<1> QED
  BY <1>2, Inductive, PTL

\* The plain pointers of the handlers lead to objects that live, also inside a
\* call that replaces or withdraws them; the exceptions are those a failed call, a
\* shared object or the end of an application leaves behind, and clients that were
\* destroyed before they unsubscribed.
THEOREM HandlersLive == Spec => []NoDangling
<1>1. ASSUME IInv, NEW i \in Instance \ unsound, NEW m \in Method, handler[i][m] # None
      PROVE  Alive(handler[i][m])
  <2>0. TypeOK /\ Tables
    BY <1>1 DEF IInv
  <2>1. handler[i][m] = attached[i] \/ handler[i][m] = op.who
    <3>1. CASE i \notin Busy
      BY <2>0, <3>1 DEF Tables, Whole
    <3>2. CASE i \in Busy /\ op.kind = "attach"
      <4>1. i = op.at
        BY <2>0, <3>2, CallFacts DEF Busy
      <4> QED
        BY <2>0, <3>2, <4>1 DEF Tables, AttachingAt
    <3>3. CASE i \in Busy /\ op.kind = "detach"
      <4>1. DetachingAt(i)
        BY <2>0, <3>3 DEF Tables, Busy
      <4> QED
        BY <1>1, <4>1 DEF DetachingAt
    <3>4. i \in Busy => op.kind \in {"attach", "detach"}
      BY <2>0, CallFacts DEF Busy, Idle
    <3> QED
      BY <3>1, <3>2, <3>3, <3>4
  <2> QED
    BY <2>1 DEF Alive
<1>2. ASSUME IInv, NEW s \in Service, PublishEvent(s) # None
      PROVE  PublishEvent(s) \in engaged
  BY <1>2 DEF IInv, TypeOK, Subscribers, PublishEvent
<1>3. IInv => NoDangling
  BY <1>1, <1>2 DEF NoDangling, InvokeMethod
<1> QED
  BY <1>3, Inductive, PTL
=============================================================================
