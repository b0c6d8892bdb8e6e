---------------------------- MODULE SdLifecycle -----------------------------
(***************************************************************************)
(* The life of SomeIpSdDaemon objects, one per process: the owner that      *)
(* starts, stops and destroys an object, the std::thread it keeps, and what *)
(* the thread does to the sockets and to the path of the Unix domain socket.*)
(* The owner and the thread meet in running_ and in join only.  A process   *)
(* may be killed anywhere: its path stays in the file system.               *)
(***************************************************************************)
EXTENDS FiniteSets, Functions

CONSTANTS
    Daemon,     \* the daemons, each with a process of its own
    PathOf,     \* unix_socket_path_ of each
    MayFail     \* socket() and bind() may fail for want of descriptors or rights

ASSUME LifecycleAssumption ==
    /\ IsFiniteSet(Daemon)
    /\ DOMAIN PathOf = Daemon
    /\ MayFail \in BOOLEAN

Path == {PathOf[d] : d \in Daemon}
Nobody == "nobody"

VARIABLES
    owner,      \* where the owner of each object is
    dying,      \* the objects whose destructor has begun
    running,    \* running_
    joinable,   \* server_thread_.joinable()
    thread,     \* where the thread of each object is
    udp,        \* the daemons whose UDP socket is open
    path,       \* the daemon whose socket each path names, living or not
    alone       \* history: the daemons whose path no other process has had
                \* since they were started

vars == << owner, dying, running, joinable, thread, udp, path, alone >>

TypeOK ==
    /\ owner \in [Daemon -> {"idle", "starting", "joining", "gone", "terminated"}]
    /\ dying \subseteq Daemon
    /\ running \in [Daemon -> BOOLEAN]
    /\ joinable \in [Daemon -> BOOLEAN]
    /\ thread \in [Daemon -> {"none", "setup", "unlink", "bind", "failed",
                              "refused", "serving", "closed", "ended"}]
    /\ udp \subseteq Daemon
    /\ \A d \in Daemon : thread[d] \in {"unlink", "bind", "serving"} => d \in udp
    /\ path \in [Path -> Daemon \cup {Nobody}]
    /\ alone \subseteq Daemon

Init ==
    /\ owner = [d \in Daemon |-> "gone"]
    /\ dying = {}
    /\ running = [d \in Daemon |-> FALSE]
    /\ joinable = [d \in Daemon |-> FALSE]
    /\ thread = [d \in Daemon |-> "none"]
    /\ udp = {}
    /\ path = [p \in Path |-> Nobody]
    /\ alone = {}

-----------------------------------------------------------------------------
(* The owner *)

Alive(d) == owner[d] \notin {"gone", "terminated"}
Rivals(d) == {e \in Daemon \ {d} : PathOf[e] = PathOf[d]}

\* A process is started and makes its daemon; a file left at the path stays.
Construct(d) ==
    /\ ~ Alive(d)
    /\ owner' = [owner EXCEPT ![d] = "idle"]
    /\ dying' = dying \ {d}
    /\ running' = [running EXCEPT ![d] = FALSE]
    /\ joinable' = [joinable EXCEPT ![d] = FALSE]
    /\ thread' = [thread EXCEPT ![d] = "none"]
    /\ udp' = udp \ {d}
    /\ alone' = alone \ ({d} \cup Rivals(d))
    /\ UNCHANGED path

\* The process is killed: the kernel closes its sockets, the path stays.
Crash(d) ==
    /\ Alive(d)
    /\ owner' = [owner EXCEPT ![d] = "gone"]
    /\ thread' = [thread EXCEPT ![d] = "none"]
    /\ udp' = udp \ {d}
    /\ UNCHANGED << dying, running, joinable, path, alone >>

Idle(d) == owner[d] = "idle" /\ d \notin dying

\* Start: running_.exchange(true), then the new thread.
Start(d) ==
    /\ Idle(d) /\ ~ running[d]
    /\ running' = [running EXCEPT ![d] = TRUE]
    /\ owner' = [owner EXCEPT ![d] = "starting"]
    /\ UNCHANGED << dying, joinable, thread, udp, path, alone >>

\* std::thread::operator= calls std::terminate when the old thread is joinable.
AssignThread(d) ==
    /\ owner[d] = "starting"
    /\ \/ /\ ~ joinable[d]
          /\ joinable' = [joinable EXCEPT ![d] = TRUE]
          /\ thread' = [thread EXCEPT ![d] = "setup"]
          /\ owner' = [owner EXCEPT ![d] = "idle"]
          /\ alone' = IF \E e \in Rivals(d) : Alive(e) THEN alone \ {d} ELSE alone \cup {d}
       \/ /\ joinable[d]
          /\ owner' = [owner EXCEPT ![d] = "terminated"]
          /\ UNCHANGED << joinable, thread, alone >>
    /\ UNCHANGED << dying, running, udp, path >>

\* Faulty: Stop does not join the thread.
FaultyStop(d) ==
    /\ owner[d] = "idle" /\ running[d]
    /\ running' = [running EXCEPT ![d] = FALSE]
    /\ UNCHANGED << owner, dying, joinable, thread, udp, path, alone >>

\* Stop does nothing unless running_ was true.
Stop(d) ==
    /\ owner[d] = "idle" /\ running[d]
    /\ running' = [running EXCEPT ![d] = FALSE]
    /\ owner' = [owner EXCEPT ![d] = "joining"]
    /\ UNCHANGED << dying, joinable, thread, udp, path, alone >>

Join(d) ==
    /\ owner[d] = "joining" /\ thread[d] = "ended"
    /\ joinable' = [joinable EXCEPT ![d] = FALSE]
    /\ owner' = [owner EXCEPT ![d] = "idle"]
    /\ UNCHANGED << dying, running, thread, udp, path, alone >>

\* The destructor: Stop, then the destructor of server_thread_, which calls
\* std::terminate when the thread is joinable.
BeginDestroy(d) ==
    /\ Idle(d)
    /\ dying' = dying \cup {d}
    /\ UNCHANGED << owner, running, joinable, thread, udp, path, alone >>

EndDestroy(d) ==
    /\ owner[d] = "idle" /\ d \in dying /\ ~ running[d]
    /\ owner' = [owner EXCEPT ![d] = IF joinable[d] THEN "terminated" ELSE "gone"]
    /\ UNCHANGED << dying, running, joinable, thread, udp, path, alone >>

-----------------------------------------------------------------------------
(* The thread: ServeLoop with SetupUdpSocket and SetupUnixSocket.  When the  *)
(* process has ended its thread takes no step.                              *)

At(d, here) == thread[d] = here /\ Alive(d)
GoTo(d, there) == thread' = [thread EXCEPT ![d] = there]

\* Faulty: ServeLoop goes on although SetupUdpSocket failed.
FaultySetupUdp(d) ==
    /\ At(d, "setup")
    /\ GoTo(d, "unlink")
    /\ udp' = udp \cup {d} \/ (MayFail /\ UNCHANGED udp)
    /\ UNCHANGED << owner, dying, running, joinable, path, alone >>

\* SO_REUSEADDR: another daemon's socket at the port is no obstacle.
SetupUdp(d) ==
    /\ At(d, "setup")
    /\ \/ GoTo(d, "unlink") /\ udp' = udp \cup {d}
       \/ MayFail /\ GoTo(d, "failed") /\ UNCHANGED udp
    /\ UNCHANGED << owner, dying, running, joinable, path, alone >>

\* Faulty: nothing is unlinked before bind.
FaultyUnlinkOld(d) ==
    /\ At(d, "unlink")
    /\ GoTo(d, "bind")
    /\ UNCHANGED << owner, dying, running, joinable, udp, path, alone >>

\* unlink before bind: of whatever is at the path.
UnlinkOld(d) ==
    /\ At(d, "unlink")
    /\ path' = [path EXCEPT ![PathOf[d]] = Nobody]
    /\ GoTo(d, "bind")
    /\ UNCHANGED << owner, dying, running, joinable, udp, alone >>

\* bind fails when a path is there again.
BindUnix(d) ==
    /\ At(d, "bind")
    /\ \/ /\ path[PathOf[d]] = Nobody
          /\ path' = [path EXCEPT ![PathOf[d]] = d]
          /\ GoTo(d, "serving")
       \/ path[PathOf[d]] # Nobody /\ GoTo(d, "refused") /\ UNCHANGED path
       \/ MayFail /\ GoTo(d, "failed") /\ UNCHANGED path
    /\ UNCHANGED << owner, dying, running, joinable, udp, alone >>

\* The early return of ServeLoop.
GiveUp(d) ==
    /\ At(d, "failed") \/ At(d, "refused")
    /\ udp' = udp \ {d}
    /\ running' = [running EXCEPT ![d] = FALSE]
    /\ GoTo(d, "ended")
    /\ UNCHANGED << owner, dying, joinable, path, alone >>

\* Faulty: the loop never looks at running_.
FaultyLeaveLoop(d) == FALSE

LeaveLoop(d) ==
    /\ At(d, "serving") /\ ~ running[d]
    /\ udp' = udp \ {d}
    /\ GoTo(d, "closed")
    /\ UNCHANGED << owner, dying, running, joinable, path, alone >>

\* unlink at the end of ServeLoop: of the path, whoever bound it.
UnlinkOwn(d) ==
    /\ At(d, "closed")
    /\ path' = [path EXCEPT ![PathOf[d]] = Nobody]
    /\ GoTo(d, "ended")
    /\ UNCHANGED << owner, dying, running, joinable, udp, alone >>

Thread(d) ==
    SetupUdp(d) \/ UnlinkOld(d) \/ BindUnix(d) \/ GiveUp(d) \/ LeaveLoop(d) \/ UnlinkOwn(d)

Owner(d) ==
    Construct(d) \/ Crash(d) \/ Start(d) \/ AssignThread(d) \/ Stop(d) \/ Join(d)
        \/ BeginDestroy(d) \/ EndDestroy(d)

Next == \E d \in Daemon : Owner(d) \/ Thread(d)

\* Threads are scheduled; an owner inside Stop goes on when it can.
Fairness == \A d \in Daemon : WF_vars(Thread(d)) /\ WF_vars(Join(d))

Spec == Init /\ [][Next]_vars
FairSpec == Spec /\ Fairness

-----------------------------------------------------------------------------
\* Starting, stopping and destroying a daemon in any order never ends its
\* process by std::terminate: no joinable std::thread is assigned to or
\* destroyed.
OrderlyEnd == \A d \in Daemon : owner[d] # "terminated"

\* When Stop has returned the sockets are closed and the thread is past its
\* last step, so that Start may bind them again.
StoppedIsClosed ==
    \A d \in Daemon :
        owner[d] = "idle" /\ ~ running[d] =>
            d \notin udp /\ thread[d] \in {"none", "ended"}

\* A daemon that has its path to itself finds no path in its way, whatever
\* crashes of its own or of others left there, and is reached at it while it
\* serves.
PathIsReached ==
    \A d \in alone :
        /\ ~ At(d, "refused")
        /\ At(d, "serving") => path[PathOf[d]] = d

\* Stop returns, whatever the thread was doing when it was called.
StopReturns == \A d \in Daemon : owner[d] = "joining" ~> owner[d] # "joining"
=============================================================================
