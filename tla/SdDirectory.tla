---------------------------- MODULE SdDirectory -----------------------------
(***************************************************************************)
(* What control calls promise, without addresses, ids or messages: each     *)
(* client has a place in a directory, a call enters its service there for a *)
(* span of time or strikes it out in one step, a call that returns true did *)
(* so before it returned, and a call that was given up may still do so      *)
(* later.  An entry goes by itself only when its span is over.              *)
(***************************************************************************)
EXTENDS Naturals

CONSTANTS
    Client,
    Listing,    \* what each client enters
    Nothing,    \* what stands in an empty place
    Span,       \* how long it stands there
    Ordered     \* clients whose operations take effect in the order they ask

Op == {"register", "unregister"}

VARIABLES
    now,
    place,      \* what stands in each client's place
    until,      \* when its span is over
    asked,      \* the operation of each client's last call
    told,       \* what that call returned
    effect,     \* the clients whose last call has taken effect
    late        \* the operations of earlier calls that may still take effect

calls == << asked, told, effect, late >>
dvars == << now, place, until, calls >>

Init ==
    /\ now = 0
    /\ place = [c \in Client |-> Nothing]
    /\ until = [c \in Client |-> 0]
    /\ asked = [c \in Client |-> "none"]
    /\ told = [c \in Client |-> "nothing"]
    /\ effect = {}
    /\ late = [c \in Client |-> {}]

Enter(c, op) ==
    /\ place' = [place EXCEPT ![c] = IF op = "register" THEN Listing[c] ELSE Nothing]
    /\ until' = [until EXCEPT ![c] = IF op = "register" THEN now + Span ELSE 0]
    /\ UNCHANGED now

\* A call that was given up before it took effect may do so in the next one.
Ask(c, op) ==
    /\ asked[c] = "none" \/ told[c] # "nothing"
    /\ asked' = [asked EXCEPT ![c] = op]
    /\ told' = [told EXCEPT ![c] = "nothing"]
    /\ effect' = effect \ {c}
    /\ \E L \in SUBSET (late[c] \cup (IF c \in effect THEN {} ELSE {asked[c]} \cap Op)) :
          late' = [late EXCEPT ![c] = L]
    /\ UNCHANGED << now, place, until >>

\* In order: when what was asked earlier has taken effect, or never will.
TakeEffect(c) ==
    /\ asked[c] \in Op /\ c \notin effect
    /\ c \in Ordered => late[c] = {}
    /\ Enter(c, asked[c])
    /\ effect' = effect \cup {c}
    /\ UNCHANGED << asked, told, late >>

TakeLateEffect(c) ==
    /\ \E op \in late[c], L \in SUBSET late[c] :
          Enter(c, op) /\ late' = [late EXCEPT ![c] = L]
    /\ UNCHANGED << asked, told, effect >>

\* What was given up may be lost.
Lose(c) ==
    /\ \E L \in SUBSET late[c] : late' = [late EXCEPT ![c] = L]
    /\ UNCHANGED << now, place, until, asked, told, effect >>

Return(c, result) ==
    /\ asked[c] \in Op /\ told[c] = "nothing"
    /\ result = "true" => c \in effect
    /\ told' = [told EXCEPT ![c] = result]
    /\ UNCHANGED << now, place, until, asked, effect, late >>

Pass == now' = now + 1 /\ UNCHANGED << place, until, calls >>

\* Entries whose span is over go, some at a time.
Lapse ==
    \E gone \in SUBSET {c \in Client : until[c] <= now} :
        /\ place' = [c \in Client |-> IF c \in gone THEN Nothing ELSE place[c]]
        /\ until' = [c \in Client |-> IF c \in gone THEN 0 ELSE until[c]]
        /\ UNCHANGED << now, calls >>

Next ==
    \/ \E c \in Client :
         \/ \E op \in Op : Ask(c, op)
         \/ TakeEffect(c) \/ TakeLateEffect(c) \/ Lose(c)
         \/ \E result \in {"true", "false"} : Return(c, result)
    \/ Pass \/ Lapse

Spec == Init /\ [][Next]_dvars
=============================================================================
