# OpenVeh SOME/IP: a TLA+ model

OpenVeh is a C++ implementation of SOME/IP service discovery with the programs
and generators around it. A *daemon* keeps a table of offered services as leases.
Programs use an *API object* to register and withdraw services with the daemon
(one request, one answer, over UDP or a Unix domain socket) and to discover
services (one multicast find, answers from every daemon of the group). Two *demo
programs*, a provider and a consumer, show how it is meant to be used. A small
*application framework* and two *generators* produce classes for a service's
parameters, methods and events. This directory models all of that, model-checks
it with TLC, and proves the main properties with TLAPS for every value of the
constants.

Source paths are relative to `src/services/someip_sd_cpp/` unless they begin with
`tools/` or `framework/` (`src/tools/someip_idl/` and
`src/services/someip_app_framework/`).

## 1. Inventory

| Component | Code | State it keeps | Operations |
|---|---|---|---|
| Wire format | `src/protocol.cpp`, `include/someip_sd/protocol.hpp`, `types.hpp` | none | `EncodePacket`, `DecodePacket`, `BuildSd*`, `ParseSd*` |
| Daemon: registry and loop | `src/sd_daemon.cpp` | `registry_`, `running_`, two sockets | `HandlePacket`, `CleanupExpired`, `ServeLoop`, `Start`, `Stop` |
| Daemon: threads and paths | `src/sd_daemon.cpp` | `server_thread_`, the bound UDP port, the path of the Unix domain socket | constructor, destructor, `Start`, `Stop`, `SetupUdpSocket`, `SetupUnixSocket`, the two ends of `ServeLoop` |
| API: control calls | `src/sd_api.cpp` | `next_request_id_`, one socket per call | `RegisterService`, `UnregisterService`, `DoControlRequest` |
| API: discovery | `src/sd_api.cpp` | one socket, the list and its `dedup` keys per call | `DiscoverServices` |
| Provider demo | `examples/provider_demo.cpp` | `subscribers`, `last_refresh`, `last_event`, `g_stop`, one socket | register, bind, receive, answer, subscribe, refresh, publish, withdraw |
| Consumer demo | `examples/consumer_demo.cpp` | the socket, `received_events` | discover, subscribe, call, wait for events |
| Application framework | `framework/include/.../application_runtime.hpp`, `tools/generated_app/VehicleNodeApplication.hpp` | the attached objects, each object's `instance_id_`; behind the runtime the backend's tables | attach, detach, invoke, publish, subscribe, unsubscribe |
| Parameter codecs | `tools/generated/someip_codec_support.hpp` and the generated classes | a buffer, a reader's position | serialize, deserialize |
| IDL generators | `tools/generate_someip_params.py`, `generate_someip_app.py` | none | validate, generate |

How they interact. An API call and the daemon share nothing but datagrams. The
daemon's loop is the only writer and the only reader of `registry_`; its mutex
is never contended. The owner of a daemon and its thread share `running_` and
meet in `join`. Two daemons on one host share the UDP port (`SO_REUSEADDR`) and,
if configured so, one path in the file system. Two API objects of one process
share the name space of client paths, which are made of the process id and the
request id. Provider and consumer meet in the daemon, then over the endpoint the
lease names. Generated services call the backend, which calls them back through
plain pointers.

What is hard about it:

* *Time.* Leases run out by the clock but leave the table only at the top of a
  loop turn, before `poll` waits up to 200 ms. The provider refreshes a lease of
  5 s every 2 s in the same thread that answers requests and sends events, by a
  call that may block for 1 s; a consumer waits 2 s for each datagram.
* *Timeouts.* A call that timed out may still be executed, and its answer may
  come back to the socket of a later call.
* *Ordering and loss.* Nothing in a request tells an old one from a new one; the
  consumer takes the first datagram for the answer, whatever it is.
* *Crashes.* The provider's subscribers live in its memory, its lease in the
  daemon's; either may be restarted without the other.
* *Partial failure.* Attaching a service is an offer and several registrations,
  any of which may fail.
* *Lifetimes.* The backend keeps plain pointers to objects whose destructors
  withdraw nothing; a process that is killed leaves its path behind.
* *Field widths.* A 32-bit request id in 16 bits, a 32-bit TTL in 24 bits, an
  option index of 8 bits, an answer of any length in a buffer of 4096 bytes,
  strings and arrays with lengths of 8 or 16 bits.
* *Threads and shared names.* A thread that fails to set up ends without being
  joined; paths are unlinked by name, whoever has bound them; generated code
  declares locals next to the user's field names.

What makes each component correct: the wire formats give back what was put in;
the daemon serves every lease that runs and none that ran out long ago; a call
that returns true was executed and says the truth about the registry; discovery
returns what was offered to this find, once; `Stop` returns and leaves nothing; a
provider that runs is offered and a consumer waits in vain only with a reason; an
instance of the framework shows a whole service or none. `PROJECT.json` lists the
hazards one by one, each with its line and the properties that would notice it
going wrong.

## 2. The modules

```
SdProtocol            wire format (constant operators)
 |- SdLeases          abstract lease table
 |- SdCodec           one SD packet at a time  --+
 |- SdRegistry        the daemon's table         |
     |- SdDaemon      loop, sockets, clock       |                 MCSdDaemon
     |- SdControl     control calls against a daemon               MCSdControl
         |- SdDirectory   abstract directory     |
     |- SdDiscovery   DiscoverServices against several daemons     MCSdDiscovery
SdLifecycle           owner, thread, paths       |                 MCSdLifecycle
VehicleDemo           provider, daemon's lease, consumers, clock
AppFramework          attached services over a backend             MCAppFramework
IdlCodec              generator's checks, parameters, frames  --+-- MCWireFormats
 |- VehicleIdl        the repository's types and odd ones          MCIdlCodec

SdProtocolProofs      the wire format and the registry's operators
 |- WireFormatProofs   the theorems of SdCodec and of IdlCodec
 |- SdDaemonProofs
 |- SdControlProofs
 |- SdDiscoveryProofs
SdLifecycleProofs, VehicleDemoProofs, AppFrameworkProofs
```

**SdProtocol.** Every `Build*` and `Parse*` function is an operator on payloads
made of entries and options. Bytes are left out; kept is everything that makes
what is read differ from what was meant: the clamp of the TTL to 24 bits, the
16-bit request id (`EncodePacket`), the option index modulo 256, instance 0xFFFF
as the wildcard, the loopback address in place of a host name, the default
endpoint when an entry names no option, and the size of a datagram. A service
may name any transport, but options say UDP and are read so: a service registered
with "tcp" is one of "udp" to the daemon and to whoever finds it (`OfferOf`,
`Wire`). The widths are constants (`IdSpan`, `IndexSpan`, `TtlMax`, `U32`). The
version and flag fields never differ and are left out, and so are the bounds
checks of `ParseSdBlocks`, which no payload built by this program fails.

**SdRegistry.** `registry_` as a function from `<<service, instance>>` to a
descriptor and the end of its lease, with `CleanupExpired`, the matching of a
find, what a request leaves in the table (`RegistryAfter`) and what is answered
(`AnswerTo`). The iteration order of the `unordered_map` is left open where a
property could depend on it: parsed lists are sets.

**SdDaemon.** The thread of `ServeLoop` step by step: `Cleanup`, `PollReady` or
`PollTimeout`, then per socket `Receive` or `SkipSocket`, `Exit` when `running_`
is false; `Start` and `Stop` by the owner; `Arrive` and `Tick` by the world.
Every step writes what the code writes there: `Receive` is `recvfrom`, decode,
handle, encode and send, since nothing else touches the registry in between. A
queued datagram is only counted, its contents are chosen when it is received.
`Stop` clears `running_` and sends its wake-up markers, any of which may fail to
get into a queue. `Prompt` says that the thread takes its steps in less than a
tick: time then passes only while it waits in `poll`, or while there is no
thread. The registry outlives `Stop` and `Start`, as `registry_` does.

**SdLeases.** What a discovery service promises, without loop, sockets or
cleanup: an offer is a lease, a find returns every lease that runs, none that
ran out `Grace` ticks ago or earlier, and only the end of a lease or a stop
offer takes a service away. `SdDaemon` implements it with `Grace` the poll
interval.

**SdCodec.** Sender, wire, receiver: the four kinds of SD packets the program
sends.

**SdControl.** A call is `Call` (the id, the socket and its address), `Send`,
then `Receive` of the first datagram or `Timeout`, each followed by close. A UDP
socket gets a port the kernel may have given out before; a Unix domain socket gets
the path of its process and request id, and binding it takes that path from whoever
had it. On a Unix domain socket `Send` waits while the daemon's queue is full
(`UnixQueue`), for as long as it takes, since no `SO_SNDTIMEO` is set; it may also
fail (`SendFails`). `Patient` clients have `timeout_ms` 0, which is no timeout. The
daemon's `Serve` executes a request long after its caller may have gone, `Expire`
drops leases that ran out, the clock advances by `Tick`. A lease may stay registered
after its end for any time: how long is SdDaemon's matter. UDP requests and answers
may be lost; requests may overtake each other unless `Ordered`. Unix domain sockets
neither lose nor reorder.

**SdDirectory.** What control calls promise, without addresses, ids or messages.
Each client has a place in a directory; `TakeEffect` enters its service there or
strikes it out in one step, at most once per call, and a call that returns true
had its effect before. What is entered stands for `Span` ticks (`until`), and only
then may it go by itself (`Lapse`). A call given up before it had its effect leaves
its operation in `late`: it may still come (`TakeLateEffect`) or never (`Lose`), but
for a client in `Ordered` none is left once a later call has had its effect.
`SdControl` implements it whatever is lost or overtaken, with `Ordered` the clients
whose requests stay in order.

**SdLifecycle.** `Start` in its two steps (`running_.exchange`, assignment to
`server_thread_`), `Stop` in its two (clearing `running_`, `join`), the
destructor, and the thread's setup, early return, and exit. A process may be
killed at any point (`Crash`): the kernel closes its sockets, while its path stays
in the file system for the next one to find. Daemons may be configured with one
path; `BindUnix` is "refused" when something has come there since `UnlinkOld`.
`std::terminate`, which the standard library calls when a joinable `std::thread` is
assigned to or destroyed, is a state of the owner. `alone` is a history variable:
the daemons that were started when no other process with their path lived, none
having come since. The traffic in between is SdDaemon's matter.

**SdDiscovery.** One `find` to a set of daemons, answers on their way in any
order across calls, the caller's loop with its one deadline, its filter on id
and type, its merge by `<<service, instance, port>>`, and datagrams longer than
the buffer, which `DecodePacket` rejects by their length. Registries change at any
time, also while the caller collects (`Change`); an answer may arrive again and
again, as fast as the socket takes it; `poll` may be interrupted, which ends the
call (`Interrupted`). `left` is what remains until the deadline, as the code
computes it for each `poll` (`TimeLeft`); `waited`, `heard`, `offered` and `steady`
are history variables: how long the call has lasted, whose answer was read, what
was answered to this find, and what each daemon has had registered since the call
began. That a registry files each service under its own ids, which the
merge relies on within one answer, is an assumption here and a theorem of
`SdDaemonProofs`.

**VehicleDemo.** The two demo programs by the clock. The provider's loop is one
action per way out of `recvfrom`: `Receive` (a request for this service),
`ReceiveNothing` (timeout, signal, a method it does not have), `ReceiveStray`
(the `continue` branches, which skip the timers). The end of the turn, `Timers`,
is part of the first two: refresh if it is due, then the event if it was due when
the refresh began. A refresh without an answer is a state of its own,
`refreshing`, since the thread does nothing else for up to `CallTimeout`.
`Start`, `Bind`, `BindFails`, `Close` are the program's other steps, `Crash` and
`Signal` happen to it. The daemon is what the provider sees of it: the ticks the
lease still has. `DaemonRestart` and `SecondProvider`, which registers the same
service, fails to bind and withdraws it, take the lease away. A consumer is
`Discover`, `Subscribe`, `ReceiveAck`, `ReceiveAnswer`, `ReceiveEvent`, `TimeOut`;
the port of one that ended may be given to the next (`Restart`), whom the
provider then already sends events to. A signal may come before the loop, which
then ends at once. A control call is executed at once or lost, never late: that
lateness is SdControl's matter, and here an assumption. Time passes only while
everybody waits,
so that a program's computation takes none. `stray` and `lost` count what the
environment may do in a row. `excuse` and `forgotten` are history variables: what
went wrong since a consumer's wait began, and that someone else took the lease.

**AppFramework.** `AttachVehicleInfoService` is `Attach` (the runtime and `instance_id_` are
handed over) and one `AttachStep` per backend call: the offer, then each handler,
up to the first that fails. `DetachVehicleInfoService` is `Detach` and one `DetachStep` per
call: all handlers, then the offer, whatever fails, under the object's own
`instance_id_`, which a later attachment of the same object has overwritten. A
call that returns false may or may not have had its effect. Objects are held by
`shared_ptr`s of the program and the members; handlers are plain pointers
(`Alive`). `DestroyApplication` resets the members and tells the backend nothing,
as the generated class has no destructor that would, and `DestroyClient` leaves an
event handler behind in the same way. Clients of one instance share its key, so a
subscription replaces another's. An object publishes under the `instance_id_` it
was given last. The backend is an interface without an implementation in the
repository; its three tables are the weakest that its method names mean, and
marked external. `unsound` is a history variable: instances where a call failed,
where one object attached twice was detached, or where the application ended with
an object attached, since they were last attached or detached as a whole.
`engaged` is another: clients with a `Subscribe` that no successful `Unsubscribe`
followed.

**IdlCodec.** The classes `generate_someip_params.py` emits, for any list of
fields. Classes contain classes, so `serializeTo` and `deserializeFromReader` are
modelled call by call: `todo` is what is left of them, the members still to be
visited with the next one first. `WriteMember` appends the bytes of one member
(`Written`), `TakeMember` reads one at `position` (`ReadMember`); a member that is a
class is replaced by its fields (`Members`), an array by its elements, each followed
by the `push_back` that puts it into the array (`Elements`). `kept` counts the
members that stand in the reader's object and not in the `temp` of an element, which
is gone when reading fails. `Refuse` is a size beyond its length field, `Reject` a
read that returns false, `Conclude` the test `fullyConsumed`. A byte has `Base`
values, so that lengths overflow soon. `Accepted` is what `parse_field` lets
through; `Compiles`, `Locals`, `LoopLocals` and `Captured` are about the local
variables the emitted code declares beside the fields: per field, and in the loop
over an array (`i`, `temp`, `b`). A payload may be cut, extended, or refused by its
length before it is read, and travels in the frame of `EncodeSomeIp`.
**VehicleIdl** has the types of `tools/examples/vehicle_node` with shorter integers,
and types the generator accepts that no example uses. **MCWireFormats** runs this
codec and `SdCodec` side by side.

Operators called `Faulty...` are mutated forms of the definition that follows
them, each a plausible mistake in that code; no specification uses them. They
serve to show that the properties notice such mistakes.

## 3. The runs

| Run (module, cfg) | Asks | Bounds |
|---|---|---|
| `daemon` (MCSdDaemon, SdDaemon) | `TypeOK`, `CleanRegistry`, `StaleBound`, `KeysAgree`, `LiveOfferKept`; `ImplementsLeases`: the loop refines the lease table; `NoStarvation`, `StopReturns`, `ExpiredForgotten` | one service, two instances, two endpoints, leases of 1 and 2 s, `Second` 3 ticks, `Poll` 2, `MaxNow` 6, one datagram queued per socket |
| `codec` (MCWireFormats, WireFormats) | `TtlDecides`, `OfferArrives`, `FindArrives`, `ListArrives`; `SentIsRead`, `NothingMadeUp` | TTLs -1, 0, 1, the maximum and one more; ids around `IdSpan`; lists up to one longer than `IndexSpan`; bytes of one bit, so that a `u8` length ends at 1 and a `u16` length at 3; payloads cut anywhere or extended by up to three bytes |
| `control` (MCSdControl, SdControl) | `TypeOK`, `AckIsOwn`, `AnsweredCallSucceeds`, `LastAckHolds`, `CallReturns`; `ImplementsDirectory`: each call is one step on the directory | a UDP client whose requests overtake each other and get lost, at one port that is always reused, and a Unix client that blocks on a queue of one datagram; two calls each, timeouts and failing sends anywhere; leases of one tick, `MaxTime` 2 |
| `lifecycle` (MCSdLifecycle, SdLifecycle) | `TypeOK`, `StoppedIsClosed`, `PathIsReached`, `StopReturns` | two daemons with one path, killed and started again anywhere and any number of times, setup may fail at each point |
| `discovery` (MCSdDiscovery, SdDiscovery) | `ListedIsOffered`, `NoDuplicates`, `HeardIsListed`, `EndsInTime` | two daemons, registries of 1 to 3 services that change at any time, two calls, a window of two ticks, answers that come again and again with one queued at the socket, a buffer that holds two services but not three |
| `vehicle` (VehicleDemo, VehicleDemo) | `TypeOK`, `LeaseKept`, `SubscribedWhileUp`, `TimeoutExcused`; `Recovers`, `StopEnds`, `ConsumerEnds` | the demos' own periods in ticks of a third of a second (refresh 6, event 3, call 3, lease 15, window 3, patience 6, receive timeout 1), three events, one lost registration and one stray datagram in a row, one consumer's port after another |
| `app` (MCAppFramework, AppFramework) | `TypeOK`, `TableAgrees`, `NoDangling` | two instances, two objects, two methods, two clients of one instance, objects, clients and application destroyed at any time, every backend call may fail with or without effect; symmetric in the objects and in the clients |

The bounds are small because the hazards are local. Staleness needs a lease that
ends inside one wait, so a second that is not a multiple of the poll interval
and three turns of the loop suffice; interference between leases needs two
instances; overwriting needs two endpoints. A late answer, or a request that is
overtaken, needs a second call of the same client; a send that blocks needs one
request that was given up before it; that a lease ends between an acknowledgement
and the next call needs a clock that passes its end. A list that outruns its
index needs one service more than the index has values. The demos need no bound
on time: their clocks are all relative. Replacing an object needs two of them,
sharing one needs two instances, a failure between two handlers needs two
methods, and replacing a subscription needs two clients of one instance. `MaxNow`,
`MaxTime`, `MaxPending`, `MaxCalls`, `MaxFinds` and `MaxList` are bounds that are not
in the code, `MaxLost` and `MaxStray` are assumptions about the environment, and
`UnixQueue` and `SocketQueue` stand for limits of the kernel, which are larger. In
`SdDaemon` the clock stops at `MaxNow`, and a wait that began is then taken to end.
Runs whose callers stop after their last call are checked
without deadlock checking, the others with it.

Five more runs show where the code does not do what the repository says of it:

| Run | Property violated | What happens |
|---|---|---|
| `control_wrap` | `AnsweredCallSucceeds` | The answer carries 16 bits of the request id and is compared with all 32 (`src/sd_api.cpp:194`): after 65535 calls every answered call returns false. |
| `lifecycle_terminate` | `OrderlyEnd` | After a failed setup `running_` is false, so `Stop` does not join and the destructor or the next `Start` ends the process (`src/sd_daemon.cpp:232`). |
| `discovery_buffer` | `NothingDropped` | An answer of more than 140 services is cut to 4096 bytes and dropped whole (`src/sd_api.cpp:334`). |
| `vehicle_overtaken` | `AnswersComeFirst` | An event that is due in the turn of the subscription is sent before the method's answer; the consumer takes it for an invalid answer and ends (`examples/consumer_demo.cpp:150`). |
| `idl_accepted` | `AcceptedTypesRoundTrip` | Each `bool` field declares a local `b`: a type with two of them is accepted and does not compile, one called `b` is never read (`tools/generate_someip_params.py:372`). |

Three properties hold only under a condition that the passing runs and the theorems name:

* `LastAckHolds` speaks of clients whose requests stay in order (`InOrder`:
  `Ordered`, or over Unix domain sockets), and of a registration until its TTL after
  the begin of the call; the theorem needs `OwnPlaces` too. A UDP registration that
  timed out and is overtaken by the withdrawal that followed it stays registered for
  its TTL although the withdrawal was acknowledged (`src/sd_daemon.cpp:216`); two
  clients that register the same service and instance overwrite each other's entry.
* `AckIsOwn` needs clients that share neither process nor port. Two API objects
  of one process that reach the same request id take each other's path and
  answers (`src/sd_api.cpp:77`).
* `PathIsReached` speaks of daemons that have their path to themselves (`alone`),
  whatever crashes left there. A daemon that ends unlinks the path its successor has
  bound (`src/sd_daemon.cpp:308`), and two that start together may take it from
  each other.

TLC finds each of them violated when the condition is taken away: `InOrder` dropped,
two Unix clients of one process, `alone` replaced by all daemons.
`ImplementsDirectory` holds without order too, and the run has a client of each kind.
`NoDangling` names its own exceptions, which are what the framework leaves to its
user: an application or a client destroyed without detaching or unsubscribing
leaves the backend with a pointer to it
(`tools/generated_app/VehicleNodeApplication.hpp:142`).

**Fairness.** SdDaemon: weak fairness of the thread's own steps and of the
clock, because `poll` has a timeout and no step blocks otherwise; no fairness of
arrivals, `Start` or `Stop`. SdControl: weak fairness of a caller that can
send, and of one that can receive or time out (`SO_RCVTIMEO`); and of the daemon
reading its Unix domain socket, which `NoStarvation` of SdDaemon gives while the
daemon runs, as it does here throughout. It is what ends a send that blocks: weak fairness of `Send` suffices, since callers make
finitely many calls, so that no other sender can take every free place for ever.
None of the network. SdLifecycle: weak fairness of each thread, and of a `join` that
can succeed; the owner owes nothing else, and nobody owes a crash. SdDiscovery: none;
that a find ends in time is a bound, not a matter of progress. VehicleDemo: weak
fairness of the provider's and each consumer's steps, which all end by a timeout;
strong fairness of the clock, since no program runs without pause though others
start again and again, and of the receipt of a queued request, which `recvfrom`
returns in the end though it may return something else first. Starts, signals,
crashes and stray datagrams owe nothing, and the lost ones are bounded by
`MaxLost`.

## 4. The theorems

| Theorem | States |
|---|---|
| `SdDaemonProofs!TypeCorrect` | `Spec => []TypeOK` |
| `SdDaemonProofs!CleanAfterCleanup` | `Spec => []CleanRegistry` |
| `SdDaemonProofs!KeysMatchDescriptors` | `Spec => []KeysAgree` |
| `SdDaemonProofs!Staleness` | `Spec => []StaleBound` |
| `SdDaemonProofs!RunningLeaseKept` | `Spec => LiveOfferKept`, an action property |
| `SdDaemonProofs!Refinement` | `Spec => ImplementsLeases`, for a prompt thread and at most `IndexSpan` services |
| `SdControlProofs!AckBelongs` | `Spec => []AckIsOwn`, if `FewCalls` and `Apart` |
| `SdControlProofs!AnswerSucceeds` | `Spec => []AnsweredCallSucceeds`, if `FewCalls` |
| `SdControlProofs!TypeCorrect` | `Spec => []TypeOK`, if `FewCalls` and `Apart`: no socket holds more datagrams than its client made calls |
| `SdControlProofs!LastAckStands` | `Spec => []LastAckHolds`, if `FewCalls`, `Apart` and `OwnPlaces` |
| `SdControlProofs!DirectoryImplemented` | `Spec => ImplementsDirectory`, if `FewCalls`, `Apart` and `OwnPlaces`, in order or not |
| `WireFormatProofs!TtlTellsApart`, `OfferIsRead`, `FindIsRead`, `ListIsRead` | `Spec => []TtlDecides`, `[]OfferArrives`, `[]FindArrives`, `[]ListArrives` |
| `WireFormatProofs!ParametersAreRead`, `NothingIsMadeUp` | `IdlSpec => []SentIsRead`, `IdlSpec => []NothingMadeUp`, for every IDL, every object and every even number of values of a byte |
| `SdDiscoveryProofs!ListsOffers` | `Spec => []ListedIsOffered`, if `FewFinds` |
| `SdDiscoveryProofs!ListsOnce`, `ListsHeard` | `Spec => []NoDuplicates`, `Spec => []HeardIsListed`, if `FewFinds` and `IndexesSuffice` |
| `SdDiscoveryProofs!WaitsNoLonger` | `Spec => []EndsInTime` |
| `SdLifecycleProofs!TypeCorrect`, `StopCloses` | `Spec => []TypeOK`, `Spec => []StoppedIsClosed` |
| `SdLifecycleProofs!OwnPathReached` | `Spec => []PathIsReached`, for every choice of paths |
| `VehicleDemoProofs!TypeCorrect`, `LeaseOutlives`, `Subscribed` | `Spec => []TypeOK`, `[]LeaseKept`, `[]SubscribedWhileUp` |
| `VehicleDemoProofs!VainWaitsExcused` | `Spec => TimeoutExcused`, an action property |
| `AppFrameworkProofs!TypeCorrect`, `WholeOrNothing`, `HandlersLive` | `Spec => []TypeOK`, `[]TableAgrees`, `[]NoDangling` |

They hold for every number of services, clients, daemons, consumers, objects and
methods, every TTL, period and queue length. The assumptions are those the
modules declare: `ProtocolAssumption` (the field widths are positive, the
loopback address is an IPv4 address, "udp" is a transport, `std::nullopt` is no
instance),
`SecondAssumption`, `IdsAssumption` (ids are finitely many), `IdlAssumption` (the
values sent are values of their types, a byte has an even number of values, which
two's complement needs, no class is called `push_back()` and no field `bytes`, the
name of the reader's argument), the types of each module's constants, and
`TimingAssumption` below; and those a theorem names:

* `FewCalls`, `FewFinds`: a caller's ids fit the 16 bits of the header. Without
  them the theorems are false (`control_wrap`).
* `Apart`: the addresses of two clients, paths or ports, are never the same.
* `OwnPlaces`: no two clients register under one service and instance id.
* `IndexesSuffice`: an answer that fits the buffer has at most `IndexSpan`
  services. With 4096 bytes it has at most 140, and the index has 256 values.

**The daemon.** `IInv == TypeOK /\ CleanRegistry /\ KeysAgree /\ Resolved /\
TurnBound`. `StaleBound` is not inductive: it compares the end of a lease with
the clock, and only two other facts together bound their distance.
`CleanRegistry` says that every lease outlasts the *cleanup of this turn*: the
cleanup establishes it, and a request keeps it because a new lease ends after
the present moment, which is not before the cleanup. `TurnBound` says that the
turn began at most a poll interval ago if the thread is prompt. `Resolved` (what is
registered came over the wire, so its endpoint is an address and its transport UDP)
is what makes
the answer to a find read back as exactly what is registered, which the
refinement needs. `SdProtocolProofs` holds what several proofs rest on: the round
trips of one offer, of a list of offers no longer than the option index can name,
and of a find; and that `HandlePacket` keeps a registry one and answers packets.

The refinement maps `registry` to `leases` and the last answer sent to the set of
services a client parses out of it. `Cleanup` is `Forget`; `Receive` is `Offer`,
`StopOffer`, `Find` or `Refuse`; the rest is stuttering or `Tick`. For `Find`
the witness is the set of keys in the registry: it contains every lease that
runs, and by `Staleness` none that ran out a poll interval ago.

**Control calls.** `AckIsOwn` says something of the past, that the daemon handled
the call, from what a client believes now; the invariant follows the message in
between. `InFlight` types everything on its way by its sender's progress: a
request in `Asked` has the id of a call whose `sendto` has returned (`Sent`) and came
from an address of its client; an answer in `Told` that carries the *present* id of its client was
served. A new call makes every older answer an old one, because ids only grow;
that step is where `FewCalls` enters. `BoundApart` says that a socket's address
is one of its owner's, so that under `Apart` an answer reaches nobody else.
`AnswerSucceeds` needs, in addition, that `HandlePacket` answers an offer, even
one of TTL 0, by an offer with the same id (`OfferAnswered`), whatever the
registry holds.

`LastAckHolds` relates what a client was told to the registry, which other
requests of the same client, or the end of its lease, may change later. The
invariant that bounds both, `InTurn`, follows the queue: the requests of one client
stand in it in the order of its calls and ask what `call` says for the present id
(`Queued`); once the present call was handled, none of that client's requests of
this id is left, in order none at all, and its place is `Kept`: it says what the call
asked, with a lease that reaches a TTL beyond the call's begin, or that moment has
passed (`Handled`). That uses that the calls are numbered without gaps (`Numbered`)
and that a client waits exactly for a call that has not returned (`Waits`). `Expire`
keeps `Kept` because it only drops what has run out. `Apart` and `AckIsOwn` then turn
"returned true" into "was handled".

The refinement reads `place` and `until` off the registry, `asked` and `told` off
`call`, takes `served` for `effect` and, for `late`, what the queued requests of
earlier calls ask. `Call` is `Ask`: a queued request of the call before becomes late.
`Send` is stuttering. `Serve` is `TakeEffect` for the present call and
`TakeLateEffect` for an earlier one, whether or not it changes the table; a lost
request is `Lose`, or stuttering if another one asks the same; `Receive`, `Timeout`
and `SendFails` are `Return`, where a true result needs `AckIsOwn` in the next state;
`Expire` is `Lapse` of those whose entries it drops, or stuttering; `Tick` is `Pass`.
It holds in any order of receipt: the directory asks for order of the clients that
have it, no more.

That a socket queues at most `MaxCalls` datagrams (`TypeOK`) is a counting
argument: of one call there is at any time one request, one answer on its way or
one datagram received (`Once`), so the ids in a queue are distinct numbers between
1 and `MaxCalls`. That a bound address is that of a waiting client (`BoundHere`)
needs `Apart`: otherwise one client's socket may take another's path from it.

**The wire format.** The invariant `IInv` of `WireFormatProofs` says that what is on the wire
was built from what the sender was asked to send and that the receiver holds what
it read off the wire. The properties are then facts about `Build*` and `Parse*`:
that a stop offer has TTL 0 and a registration never has unless its TTL is one of
0 modulo 2^32 (`TtlTellsApart`, of a value clamped twice), and that the options
of a list are found by their indexes as long as these do not wrap.

**The parameters.** That a reader which takes whole members, elements and classes in
one loop ends exactly where the writer of the same class ended is no property of a
single call, so `IdlInv` remembers the writer: `Steps` says that there are, for every
member written, the list of members the writer still had before it and the position
in the payload it had reached, each list following from the one before (`After`) and
the bytes between two positions being the member's. `Follows` says that the reader
which has taken `m` members holds the list and the position the writer had after
`m`. Then `NextIsRead`: the next member is read as it was written if its last byte
has arrived, and fails otherwise. So a reader that runs out of members has used
every byte the writer wrote (`ConcludeKeeps`), and one that fails lacks some
(`RejectKeeps`). That no part of an element is kept needs the shape of the list:
inside an element there is always something left to do, at least its `push_back`
(`Todo`, `AfterType`). Without a frame, added bytes are only noticed by
`fullyConsumed`; in a frame by `FrameIsValid` (`InputIs`).

Beneath it lies `IntIsRead`: what `writeIntegralBE` writes, `readIntegralBE` reads,
for both signs and any width. `Span` is a recursive function and the loop of
`readIntegralBE` another; what they compute for every width is shown without an
induction theorem, by the least number for which it fails (`Least`, from the
well-founded order of the natural numbers): `SpanDef` unfolds `Span`, `LoopOfWritten`
that the loop over the bytes of `v` gives `v` less a multiple of `Span`.

**Discovery.** `IInv` types finds and answers on their way by the call they belong
to (`FindOK`, `AnswerOK`): a find with the present id is for the present query,
and an answer with it lists a set of services `S` that were offered to this find
and, while the call collects, include what its daemon has had registered since the
call began and was asked for. A registry may have more or less by then: `steady` only
shrinks, so what an answer included once it includes for the rest of the call, and
`StillThere` says that the next answer will include it too. `Deadline` is the
account of time: what has passed and what is left make the window, as long as each
turn waits for what is left. `Merged`, the properties of the list, is inductive on
top of it: `AnswerRead` shows that an
answer that was not truncated is read as exactly `S`, because by `IndexesSuffice`
its indexes do not wrap, and `Appended` that a list extended by fresh services of
distinct keys repeats none.

**Threads and paths.** `IInv` adds to `TypeOK` that a thread past its end has no
socket (`Closed`), and that a thread that has not ended was started by an object
that is running or being stopped (`Owned`); with these `StoppedIsClosed` holds in
every state. `OwnPath` says of the daemons in `alone` that no process with their path
lives, that nothing is at the path between their `unlink` and their `bind`, and that
it leads to them while they serve. What a killed process left there cannot refuse
them, because they unlink it first, and a process that comes up takes them out of
`alone`.

**The demos.** `TimingAssumption` relates the periods: a refresh ends before the
next is due and within a consumer's patience; an event comes within it; and
`Spent(MaxLost + 1) < Ttl`, where `MaxAge == RefreshPeriod - 1 + (MaxStray + 1) *
RecvTimeout` is the longest the loop can go without a refresh. The code's values,
2 s, 1 s, 1 s, 0.2 s and 5 s with a patience of 2 s, satisfy it for `MaxLost` =
`MaxStray` = 1, in fifths (refresh 10, call 5, event 5, receive 1, lease 25) as
well as in the thirds of the run. The invariant keeps an account: `Timely` bounds
the refresh timer by a period and the `Slack` of stray datagrams and the present
wait; `LeaseSpent` says that each registration lost since the last executed one has
cost at most `MaxAge` of the lease. For each consumer, `AckNoted` orders
subscription, acknowledgement and what follows; `Asked` says that its request is
at the provider's socket until something was sent back; `EventComing` that for one
who waits for an event the event timer runs as long as the wait. A consumer whose
patience ended would contradict the last two, unless it has an `excuse`.

**The framework.** `TableAgrees` and `NoDangling` say little of an instance in the
middle of a call, so the invariant does: `AttachingAt` (the handlers before
`op.step` call the new object, the others the new or the old one, and what was
offered still is) and `DetachingAt` (those before `op.step` are gone if no call
failed). At the last step either becomes the whole table, or no table; that a
replacement leaves no gap is `AttachingAt` itself. `Alive` follows because the
new object is held by the program and the old one is still the member, unless the
application was destroyed in between, which makes the instance unsound.
`Subscribers` says that an event handler is that of a client of its instance with a
`Subscribe` no successful `Unsubscribe` followed: an `Unsubscribe` that succeeds
clears the key whoever has it, and that the others lose their events by it is the
code's behaviour.

Only model-checked: liveness (`NoStarvation`, `StopReturns`, `ExpiredForgotten`,
`CallReturns`, `Recovers`, `StopEnds`, `ConsumerEnds`), since TLAPS does not
reason about fairness.

## 5. What is not modelled

* Malformed SD payloads (the bounds checks of `ParseSdBlocks`): the daemon
  answers them as it answers an empty payload, with an error.
* Errors of local system calls before the send in the API (`socket`, `bind`): the
  call returns false before anything was sent, as after `SendFails`.
* A find whose `recvfrom` waits although `poll` saw a datagram, because its checksum
  was bad: the socket has no timeout, and such a call lasts until another comes.
* Duplicated requests and control answers. The daemon's operations are idempotent
  but for the clock; a second answer finds no socket or is filtered by its id.
  Answers to a find do come again (SdDiscovery).
* `SetDiscoveryMulticast`, `EnableUnixDomainControl` and the other setters:
  constants of the models, since they are called before `Start`.
* Which of several daemons on one UDP port the kernel gives a unicast datagram.
* Malformed frames at a consumer: nothing in the repository sends them. The
  exception of `DecodeSomeIp` would end it (`examples/consumer_demo.cpp:112`), and so
  would an undecodable answer to its find, although a service was found (line 48).
* The backend of the framework: an interface the repository does not implement.
* The address of the element past the end that `readString` takes for an empty
  string at the end of a payload: no byte is read through it.
* Field names that are C++ keywords, and `bytes`, which hides the argument of the
  generated reader; `Compiles` knows the locals the generator declares.
* Reading files, merging the namespaces of several IDL files, and the text
  `generate_someip_app.py` emits: functions from files to text that keep no
  state. What its output does is `AppFramework`.
* Tests and build files: read as statements of what the program should do.

## 6. Plan

Done, in this order, because everything rests on the daemon keeping leases:
SdProtocol, SdRegistry, SdDaemon with its refinement, SdControl, SdLifecycle,
SdDiscovery, SdCodec; then the programs above it, VehicleDemo, AppFramework and
IdlCodec; then the directory that SdControl implements, and the proofs: every
invariant and action property the passing runs check is a theorem, and so are both
refinements.

Left:

1. An abstract service table that `AppFramework` implements at the instances no
   failure touched, in place of `TableAgrees`.
2. The bounds checks of `ParseSdBlocks`, byte by byte as `IdlCodec` does it for
   the parameters.
3. Two consumers in `vehicle`, which the theorems cover and the run does not.

## 7. Running it

```
tlasany SdDaemon.tla
tlc -config SdDaemon.cfg MCSdDaemon
tlc -config VehicleDemo.cfg VehicleDemo
tlapm SdDaemonProofs.tla
```
