------------------------- MODULE SdLifecycleProofs --------------------------
(***************************************************************************)
(* Theorems about SdLifecycle, for any number of daemons and every choice   *)
(* of their paths.                                                          *)
(***************************************************************************)
EXTENDS SdLifecycle, TLAPS

\* A thread past its end, or not yet made, has no socket.
Closed == \A d \in Daemon : thread[d] \in {"none", "closed", "ended"} => d \notin udp

\* A thread that has not ended was started by an object that is running, or is
\* being stopped; Start finds none.
Owned ==
    \A d \in Daemon :
        /\ owner[d] = "idle" /\ ~ running[d] => thread[d] \in {"none", "ended"}
        /\ owner[d] = "starting" => running[d] /\ thread[d] \in {"none", "ended"}
        /\ owner[d] = "joining" => ~ running[d]

IInv == TypeOK /\ Closed /\ Owned

-----------------------------------------------------------------------------
LEMMA InitIInv == Init => IInv
BY DEF Init, IInv, TypeOK, Closed, Owned

LEMMA OwnerStep ==
    ASSUME IInv, NEW d \in Daemon, Owner(d)
    PROVE  IInv'
<1>1. CASE Construct(d)
  BY <1>1 DEF Construct, Alive, IInv, TypeOK, Closed, Owned
<1>8. CASE Crash(d)
  BY <1>8 DEF Crash, IInv, TypeOK, Closed, Owned
<1>2. CASE Start(d)
  BY <1>2 DEF Start, Idle, IInv, TypeOK, Closed, Owned
<1>3. CASE AssignThread(d)
  <2>1. /\ owner[d] = "starting" /\ UNCHANGED << dying, running, udp, path >>
        /\ alone' \subseteq alone \cup {d}
        /\ \/ /\ joinable' = [joinable EXCEPT ![d] = TRUE]
              /\ thread' = [thread EXCEPT ![d] = "setup"]
              /\ owner' = [owner EXCEPT ![d] = "idle"]
           \/ /\ owner' = [owner EXCEPT ![d] = "terminated"]
              /\ UNCHANGED << joinable, thread >>
    BY <1>3 DEF AssignThread
  <2>2. TypeOK'
    BY <2>1 DEF IInv, TypeOK
  <2>3. Closed'
    BY <2>1 DEF IInv, TypeOK, Closed, Owned
  <2>4. Owned'
    BY <1>3 DEF AssignThread, IInv, TypeOK, Owned
  <2> QED
    BY <2>2, <2>3, <2>4 DEF IInv
<1>4. CASE Stop(d)
  BY <1>4 DEF Stop, IInv, TypeOK, Closed, Owned
<1>5. CASE Join(d)
  BY <1>5 DEF Join, IInv, TypeOK, Closed, Owned
<1>6. CASE BeginDestroy(d)
  BY <1>6 DEF BeginDestroy, Idle, IInv, TypeOK, Closed, Owned
<1>7. CASE EndDestroy(d)
  BY <1>7 DEF EndDestroy, IInv, TypeOK, Closed, Owned
<1> QED
  BY <1>1, <1>2, <1>3, <1>4, <1>5, <1>6, <1>7, <1>8 DEF Owner

LEMMA ThreadStep ==
    ASSUME IInv, NEW d \in Daemon, Thread(d)
    PROVE  IInv'
<1>0. PathOf[d] \in Path
  BY DEF Path
<1>1. CASE SetupUdp(d)
  BY <1>1 DEF SetupUdp, At, GoTo, IInv, TypeOK, Closed, Owned
<1>2. CASE UnlinkOld(d)
  BY <1>0, <1>2 DEF UnlinkOld, At, GoTo, IInv, TypeOK, Closed, Owned
<1>3. CASE BindUnix(d)
  BY <1>0, <1>3 DEF BindUnix, At, GoTo, IInv, TypeOK, Closed, Owned
<1>4. CASE GiveUp(d)
  BY <1>4 DEF GiveUp, At, GoTo, IInv, TypeOK, Closed, Owned
<1>5. CASE LeaveLoop(d)
  BY <1>5 DEF LeaveLoop, At, GoTo, IInv, TypeOK, Closed, Owned
<1>6. CASE UnlinkOwn(d)
  BY <1>0, <1>6 DEF UnlinkOwn, At, GoTo, IInv, TypeOK, Closed, Owned
<1> QED
  BY <1>1, <1>2, <1>3, <1>4, <1>5, <1>6 DEF Thread

LEMMA InductiveStep == ASSUME IInv, [Next]_vars PROVE IInv'
<1>1. CASE Next
  BY <1>1, OwnerStep, ThreadStep DEF Next
<1>2. CASE UNCHANGED vars
  BY <1>2 DEF vars, IInv, TypeOK, Closed, Owned
<1> QED
  BY <1>1, <1>2

\* IInv holds throughout every behaviour of the owners and their threads.
THEOREM Inductive == Spec => []IInv
BY InitIInv, InductiveStep, PTL DEF Spec

\* Every variable keeps its type, and a thread past SetupUdpSocket its socket.
THEOREM TypeCorrect == Spec => []TypeOK
<1>1. IInv => TypeOK
  BY DEF IInv
<1> QED
  BY <1>1, Inductive, PTL

\* When Stop has returned, or the thread gave up by itself, no socket is open and
\* the thread has no step left, however calls and failures alternate.
THEOREM StopCloses == Spec => []StoppedIsClosed
<1>1. IInv => StoppedIsClosed
  BY DEF IInv, Closed, Owned, StoppedIsClosed
<1> QED
  BY <1>1, Inductive, PTL

-----------------------------------------------------------------------------
(* Daemons that have their path to themselves *)

\* No rival lives, what is unlinked before bind stays unlinked, and what was
\* bound stays bound.
OwnPath ==
    \A d \in alone :
        /\ \A e \in Rivals(d) : ~ Alive(e)
        /\ At(d, "bind") => path[PathOf[d]] = Nobody
        /\ ~ At(d, "refused")
        /\ At(d, "serving") => path[PathOf[d]] = d

\* What the owner does touches no path; a process that comes up is a rival of
\* those whose path it has.
LEMMA OwnerKeepsPath ==
    ASSUME IInv, OwnPath, NEW d \in Daemon, Owner(d)
    PROVE  OwnPath'
<1>0. path' = path /\ alone \subseteq Daemon
  BY DEF Owner, Construct, Crash, Start, AssignThread, Stop, Join, BeginDestroy, EndDestroy,
         IInv, TypeOK
<1>1. CASE Construct(d)
  <2>1. /\ alone' = alone \ ({d} \cup Rivals(d))
        /\ \A e \in Daemon \ {d} : owner'[e] = owner[e] /\ thread'[e] = thread[e]
    BY <1>1 DEF Construct, IInv, TypeOK
  <2>2. ASSUME NEW e \in alone' PROVE e # d /\ e \in Daemon /\ d \notin Rivals(e)
    BY <1>0, <2>1, <2>2 DEF Rivals
  <2> QED
    BY <1>0, <2>1, <2>2 DEF OwnPath, Rivals, Alive, At
<1>2. CASE AssignThread(d)
  <2>1. \A e \in Daemon \ {d} : owner'[e] = owner[e] /\ thread'[e] = thread[e]
    BY <1>2 DEF AssignThread, IInv, TypeOK
  <2>2. \A e \in Daemon : Alive(e)' => Alive(e)
    BY <1>2 DEF AssignThread, IInv, TypeOK, Alive
  <2>3. ~ At(d, "bind")' /\ ~ At(d, "refused")' /\ ~ At(d, "serving")'
    BY <1>2 DEF AssignThread, IInv, TypeOK, At, Alive
  <2>4. \A e \in alone' : e = d \/ e \in alone
    BY <1>2 DEF AssignThread
  <2>5. d \in alone' => \A e \in Rivals(d) : ~ Alive(e)
    BY <1>2 DEF AssignThread, OwnPath
  <2>6. ASSUME NEW e \in alone', e # d
        PROVE  /\ \A f \in Rivals(e) : ~ Alive(f)'
               /\ At(e, "bind")' => path'[PathOf[e]] = Nobody
               /\ ~ At(e, "refused")'
               /\ At(e, "serving")' => path'[PathOf[e]] = e
    <3>1. e \in alone /\ e \in Daemon \ {d}
      BY <1>0, <2>4, <2>6
    <3> QED
      BY <1>0, <2>1, <2>2, <3>1 DEF OwnPath, At, Alive, Rivals
  <2>7. \A f \in Rivals(d) : d \in alone' => ~ Alive(f)'
    BY <2>2, <2>5 DEF Rivals
  <2> QED
    BY <2>3, <2>6, <2>7 DEF OwnPath, Rivals
<1>3. CASE \/ Crash(d) \/ Start(d) \/ Stop(d) \/ Join(d)
           \/ BeginDestroy(d) \/ EndDestroy(d)
  <2>1. alone' = alone /\ \A e \in Daemon : Alive(e)' => Alive(e)
    BY <1>3 DEF Crash, Start, Stop, Join, BeginDestroy, EndDestroy, Idle, IInv, TypeOK, Alive
  <2>2. \A e \in Daemon : Alive(e)' => thread'[e] = thread[e]
    BY <1>3 DEF Crash, Start, Stop, Join, BeginDestroy, EndDestroy, IInv, TypeOK, Alive
  <2> QED
    BY <1>0, <2>1, <2>2 DEF OwnPath, At, Rivals
<1> QED
  BY <1>1, <1>2, <1>3 DEF Owner

\* A thread touches its own path only.
LEMMA ThreadKeepsPath ==
    ASSUME IInv, OwnPath, NEW d \in Daemon, Thread(d)
    PROVE  OwnPath'
<1>0. PathOf[d] \in Path /\ path \in [Path -> Daemon \cup {Nobody}]
      /\ DOMAIN thread = Daemon /\ alone \subseteq Daemon
  BY DEF Path, IInv, TypeOK
<1>1. owner' = owner /\ alone' = alone /\ Alive(d)
  BY DEF Thread, SetupUdp, UnlinkOld, BindUnix, GiveUp, LeaveLoop, UnlinkOwn, At
<1>2. \A e \in Daemon \ {d} : thread'[e] = thread[e]
  BY <1>0 DEF Thread, SetupUdp, UnlinkOld, BindUnix, GiveUp, LeaveLoop, UnlinkOwn, GoTo
<1>3. \A e \in Daemon : PathOf[e] # PathOf[d] => path'[PathOf[e]] = path[PathOf[e]]
  BY <1>0 DEF Thread, SetupUdp, UnlinkOld, BindUnix, GiveUp, LeaveLoop, UnlinkOwn, Path
<1>4. ASSUME NEW e \in alone, e # d PROVE PathOf[e] # PathOf[d]
  BY <1>1, <1>4 DEF OwnPath, Rivals
<1>5. ASSUME d \in alone
      PROVE  /\ At(d, "bind")' => path'[PathOf[d]] = Nobody
             /\ ~ At(d, "refused")'
             /\ At(d, "serving")' => path'[PathOf[d]] = d
  <2>1. CASE UnlinkOld(d)
    BY <1>0, <2>1 DEF UnlinkOld, At, GoTo
  <2>2. CASE BindUnix(d)
    <3>1. path[PathOf[d]] = Nobody
      BY <1>5, <2>2 DEF BindUnix, OwnPath
    <3> QED
      BY <1>0, <2>2, <3>1 DEF BindUnix, At, GoTo
  <2>3. CASE SetupUdp(d) \/ GiveUp(d) \/ LeaveLoop(d) \/ UnlinkOwn(d)
    BY <1>0, <2>3 DEF SetupUdp, GiveUp, LeaveLoop, UnlinkOwn, At, GoTo
  <2> QED
    BY <2>1, <2>2, <2>3 DEF Thread
<1>6. ASSUME NEW e \in alone, e # d
      PROVE  /\ At(e, "bind")' => path'[PathOf[e]] = Nobody
             /\ ~ At(e, "refused")'
             /\ At(e, "serving")' => path'[PathOf[e]] = e
  <2>1. e \in Daemon \ {d} /\ PathOf[e] # PathOf[d]
    BY <1>0, <1>4, <1>6
  <2> QED
    BY <1>1, <1>2, <1>3, <2>1 DEF OwnPath, At, Alive
<1> QED
  BY <1>1, <1>5, <1>6 DEF OwnPath, Alive, Rivals

\* Started while no other process has its path, a daemon is refused by nothing
\* a crash left there and is reached at its path for as long as it serves and
\* no other process comes for it: for any number of daemons, shared paths too.
THEOREM OwnPathReached == Spec => []PathIsReached
<1>1. Init => OwnPath
  BY DEF Init, OwnPath
<1>2. IInv /\ OwnPath /\ [Next]_vars => OwnPath'
  <2>1. ASSUME IInv, OwnPath, Next PROVE OwnPath'
    BY <2>1, OwnerKeepsPath, ThreadKeepsPath DEF Next
  <2>2. ASSUME OwnPath, UNCHANGED vars PROVE OwnPath'
    BY <2>2 DEF vars, OwnPath, At, Alive, Rivals
  <2> QED
    BY <2>1, <2>2
<1>3. OwnPath => PathIsReached
  BY DEF OwnPath, PathIsReached
<1> QED
  BY <1>1, <1>2, <1>3, Inductive, PTL DEF Spec
=============================================================================
