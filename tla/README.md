# Verification of the Windscribe desktop client: the VPN session

TLA+ models, TLC configurations and TLAPS proofs about the client in this
repository. They cover the core of the engine:

- the **connection manager**, which takes one VPN session through attempts,
  failures, reconnects, sleep and loss of network, with the attempt strategies and
  the classification of the connectors' errors;
- the **engine** above it, which turns clicks into sessions, publishes the
  connect state, carries out log-outs and redials that wait for a session to
  end, and moves the **firewall controller** (Linux);
- the **connectors** below it, OpenVPN, WireGuard (Linux and macOS, Windows) and
  IKEv2 (Windows), with their threads, timers, callbacks and processes, and the
  fetch of the **WireGuard configuration**;
- the **ping manager** with the part of the **locations model** that feeds it.

Two abstract specifications join the layers: `VpnSession` is what the connection
manager promises the engine, `IConnection` what a connector promises the
connection manager.

Paths below are relative to `src/client/engine/engine/` unless they start with
`src/`.

## 1. The system and its parts

| Part | State it keeps | Operations | Hard behaviour | What makes it correct |
|---|---|---|---|---|
| **connection manager** (`connectionmanager/connectionmanager.cpp`) | the session's state (7 values) with a reconnect cause and a pending outcome, four timers, the connector, the walk, flags | connect, disconnect, reconnect, new settings, prompts, tunnel test, sleep, wake, online, six connector signals, four timeouts | everything reaches it asynchronously; connector signals are queued; a nested event loop while the machine goes to sleep | every session is answered exactly once; a stop ends; nothing redials a session that is over; a running tunnel is not thrown away; the cap ends a session that reconnects for ever |
| **attempt strategies** (`connectionmanager/attemptstrategy/`) | position in a list of attempts, budget of cached WireGuard attempts | next attempt, record a failure, reset, endpoints received | failures of cached configurations under Always On+, success resets the walk | each protocol is tried twice, a walk ends, a good configuration is kept |
| **error classification** (`connectionmanager/classifyconnecterror.cpp`) | none | two routing tables | an error at once from a connector that still runs | an error at once only from a settled connector |
| **connectors** (`connectionmanager/connectors/`: OpenVPN, WireGuard, IKEv2 on three platforms) | a thread or process, its status, a kill timer | prepare, connect, disconnect, teardown | an atomic status shared by a worker thread, timers and the caller | exactly one terminal signal per connection; `startDisconnect()` always ends in `disconnected()` |
| **sleep events** (`connectionmanager/sleepevents_*`) | registration with the OS | sleep, wake | the OS waits for the sleep handler | sleep is handled before the machine sleeps |
| **engine facade** (`engine.cpp`) | settings, the session's location, the `senderSource` property, the emergency session | login, logout, connect, disconnect, firewall, prompts, clean-up | log-out and clean-up wait for a `disconnected()`; the firewall follows the session | no traffic outside the tunnel while the firewall is on; log-out and clean-up finish |
| **connect state controller** (`connectstatecontroller/`) | the published state, the last reason and error | four setters | read from other threads, setters drop repeats | what is published follows the session |
| **WireGuard configuration** (`wireguardconfig/`) | the stored key pair and peer, flags that force a new registration | fetch, answer, forget | key limit, retry, cancellation, no API | an answer for every request; a stored configuration is complete |
| **network detection** (`networkdetectionmanager/`) | the current interface, online | OS notifications | notifications in bursts, delays on macOS | the last answer is the truth |
| **firewall** (`firewall/`) | the last rule set that was applied | on, off, ports, on boot | a failed application must not look applied | what is latched is what is applied |
| **helper client** (`helper/`) | a connection to the privileged helper | commands | loss of the helper | commands are answered or fail |
| **ping** (`ping/`) | per address: iteration, in flight, failures, next time | update, tick, answer | answers after the list changed or the VPN came up | no result of a tunnel is stored as a direct one |
| **locations model** (`locationsmodel/`) | API and custom locations, best location | update, select, ping answers | selection by weight and ping | the selected node exists |
| **custom configurations** (`customconfigs/`) | parsed files, a watcher | rescan | files that change while read | - |
| **DNS and ctrld** (`dns/`) | resolver policy, the ctrld process | prepare, start, stop | process start and stop around a session | the process does not outlive the session |
| **tunnel test** (`testvpntunnel.cpp`) | the current test and request, the time limits | start, stop, answer, pause's end | answers and pauses of a former test come in a later one | a test ends; one result per start |
| **packet size** (`packetsizecontroller.cpp`) | early stop flag | detect, stop | a worker thread | - |
| **proxies and hotspot** (`vpnshare/`), **MAC spoofing** (`macaddresscontroller/`), **split tunnelling** (`splittunnelextension/`), **diagnostics** (`connectivitydiagnostic/`), **updater** (`autoupdater/`) | small, per feature | on, off, apply | platform calls | - |
| **client-common** (`src/client/client-common`) | value types, local IPC | framing, serialisation | partial reads | frames are delivered whole |
| **front ends** (`src/client/frontend`, `src/windscribe-cli`) | windows, a backend that talks to the engine, local IPC server | clicks, messages | order of messages | - |
| **privileged helper** (`src/helper`) | firewall rules, routes, processes, split tunnels | commands as root | failure of one step of several | - |
| **installers, drivers** (`src/installer`, `src/splittunneling`) | installation steps, kernel driver | install, roll back | - | - |

How they interact. The engine lives on a thread of its own, owns one connection
manager for user sessions and a second one for emergency connects, and calls its
public methods. The manager answers with signals (`connected`, `reconnecting`,
`disconnected(reason)`, `errorDuringConnection`, the prompts,
`internetConnectivityChanged`), on which the engine moves the connect state
controller, the firewall, the tunnel test and the DNS helper. The manager asks a
factory for connectors and a strategy for the next attempt. Connectors live
partly on other threads, so all their signals are queued and compared with the
current connector on delivery. Network detection and sleep events call the
manager's slots.

`PROJECT.json` lists every part under `components` with what is modelled, and
under `hazards` what can go wrong where, with the properties that would show it.

## 2. The modules

| Module | Models | State |
|---|---|---|
| `ConnectErrors` | both tables of `classifyconnecterror.cpp` | none, operators only |
| `AttemptStrategy` | the manual, automatic, custom and emergency strategies and their factory | a record per strategy; methods are operators on it |
| `ConnectionManager` | `connectionmanager.cpp`, and the connector by the contract of `connectors/iconnection.h` | `cm` (the object, its connector and its queue), `online`, `asleep` |
| `VpnSession` | what the manager promises the engine about a session; the abstract specification | `phase`, `decided`, `told`, `question` |
| `MCConnectionManager` | constants for TLC | |
| `Engine` (extends `VpnSession` and `FirewallController`) | `engine.cpp` and `connectstatecontroller/` over the abstract session | `ctl` and `loc` (published), `calls` (queued for the engine's thread), `sender` (`senderSource`), `redial`, `fetching`, `due`, `emitAuth`, `loggedIn`, `node`, `mode`, `exempt`, `fw`; histories `owed`, `wanted` |
| `FirewallController` | `firewall/firewallcontroller.cpp` and `_linux.cpp` of the engine, `linux/firewallcontroller.cpp` of the helper | a record in `Engine`: installed rules, last request, interface, force flag; histories `refused`, `half` |
| `IConnection` | what a connector promises; the abstract specification | `life`, `settled`, `stopping` |
| `OpenVPNConnection` | `connectors/openvpn/openvpnconnection.cpp` | `ov`: the connector, its worker, kill timer and process |
| `WireGuardConnection` | `connectors/wireguard/wireguardconnection_posix.cpp` | `wg`: the same for WireGuard |
| `GetWireGuardConfig` | `wireguardconfig/getwireguardconfig.cpp` and the fetch in `wireguardconnectionbase.cpp` | `stored` (settings), `fetch`, the two statics, key pairs; histories `granted`, `mine` |
| `IKEv2Connection_win` | `connectors/ikev2/ikev2connection_win.cpp` | `ik`: the connector, its worker, RAS's lines and the callbacks that wait |
| `WireGuardConnection_win` | `connectors/wireguard/wireguardconnection_win.cpp` | `ww`: the connector, its worker and service |
| `Connectors` | `connectionfactory.cpp`: composes the four connectors, the fetch and the tests of the tunnel | `made` |
| `PingManager` | `ping/pingmanager.cpp`, `pingstorage.cpp` | `pm`, `flights`, `stale`, `online`, `state` |
| `ApiLocationsModel` (extends `PingManager`) | what `apilocationsmodel.cpp` does with pings | `locations`; histories `answered`, `unlisted` |
| `TestVPNTunnel` | `testvpntunnel.cpp` | `tt`: the tester, its pings, queued answers and single shots; histories `wanted`, `told` |
| `MCConnectionManager`, `MCEngine`, `MCApiLocationsModel` | constants for TLC | |
| `ConnectionManagerProofs`, `ConnectionManagerWakeUpProofs`, `ConnectionManagerStopProofs`, `ConnectionManagerAttemptProofs`, `ConnectionManagerSessionProofs`, `EngineProofs`, `PingManagerProofs`, `ConnectorsProofs` | theorems | |

### Connection manager

**Correspondence.** The manager runs on one thread and a slot runs to its end
before the next, so each slot and public method is one action, with everything
it calls. Private methods are operators from a manager record to a manager
record, with the names of the code (`HandleAttemptFailed`, `StartAttempt`,
`EnterReconnecting`...). The one place where a slot is interrupted is
`blockingDisconnect()`, which runs the event loop on macOS and Linux: there
`OnSleepMode` sets `blocking` and stops, every other slot may run, and
`EndBlockingDisconnect` performs the rest of the handler. On Windows the wait
does not run the event loop and `OnSleepMode` is one step.

The members of the record name the members of the class. Some that need a word:

- `conn` is the connector's condition as the contract has it, from not dialed
  (`idle`) over `starting`, `dialing`, `up` to `aborting` or `stopping` (told to
  stop) and `down` (settled). The steps of the group *Connector* are what a
  connector may do by itself.
- `queue` holds the connector's queued signals; `current` says whether the
  sender is still the manager's connector, which is what
  `isSenderCurrentConnector()` asks on delivery. `Retire` clears it.
- `dialed` (`isConnectorDialed_`) is cleared with the connector. The code clears
  it when the next connector is made, and reads it only together with the
  connector.
- `told` is what was reported of the current session, at most two entries: a
  second one already shows an error.
- `stored` is whether the store holds a usable WireGuard configuration.
- `Now` is what an attempt finds: usable network, DNS, resolved names. Each
  attempt chooses again, since all three can change between attempts.

**External parts**, modelled from their use: the API behind `prepare()`, the
sleep notifications, the online state, hosts' resolution, the tunnel test's
answer.

**Left out.** Statistics, interface names, the texts of credentials, proxies
(stunnel, wstunnel), the DNS proxy process, logging, and which node of a location is
chosen (a failed attempt of manual mode also moves to the next node, which
changes nothing the properties see). Port maps whose protocols have no ports are
skipped by the code and are not in the model. The manual counter stops at two,
as it is only compared with two.

**Environment assumptions.** A connect request or the answer to the credentials
question does not arrive between sleep and wake, nor inside the sleep handler's
event loop; a *disconnect* may. The questions are modal: the answer to one is
given before the user starts a session otherwise, or not at all. New settings
come with the same kind of location: a custom configuration stays one.

### Engine and firewall

**Correspondence.** A click of a front end runs on that front end's thread: it
writes the published state and the location at once and queues the rest. So
`ConnectClick`, `DisconnectClick` and `LogoutClick` add to `calls`, and
`ConnectCall`, `DisconnectClickImpl` and `LogoutImpl` take its head. The clicks
on the firewall, new settings and changed host addresses are slots of the
engine's thread (`FirewallOnImpl`, `FirewallOffImpl`, `SetSettings`,
`OnHostIPsChanged`). The manager calls the engine's slots directly
(`ConnectingToHostname`, `Connected`, `Reconnecting`, `InterfaceUpdated`,
`SessionEnded`); in these the session of `VpnSession` and the engine move in one
step. `onConnectionManagerDisconnected()` of a reconnect ends and calls
`connectClickImpl`; its second half is the action `Redial`, and nothing else
runs while `redial` is set. An authentication error of an API location fetches
the server's credentials and starts once more (`emitAuth` is the once), one of a
custom configuration asks the user, one of a static location is published.

The engine does not see inside the manager. The session it steps is
`VpnSession`, which `ConnectionManager` implements (`SessionKept`).

**The firewall.** A request is remembered when the helper has applied it, and
dropped when it equals the remembered one. The rules name the tunnel's
interface, so a changed interface forces the next request. Sets of allowed
addresses are two, with the API's (`open`) and without (`strict`).

The helper installs the rules in one transaction of nft and clears them in two
(`disable()`, helper `linux/firewallcontroller.cpp:231-279`): the chains that
filter, then those of split tunnelling. So its answer to a request is one of three,
chosen anew each time: *done*; *refused*, with nothing changed; or, to a clear, *half*:
the second transaction failed, the rules are gone, the helper says that it failed and
the engine goes on remembering the request before. `refused` and `half` are histories of
the last two.

**External.** The API behind the credentials (it forgets the requests of an
account that logs out), whether a transaction of the helper succeeds
(`HelperAnswers`), login.

**Environment assumptions.** The credentials question is modal and is closed
when another session overtakes it. `LogoutExclusive`: after the user has logged
out, the front ends accept no other click until the log-out is done. Without it
`LogoutIsKept` fails: a redial's mark replaces that of the log-out.

**Left out.** A login deferred until the firewall is down, the emergency
session, clean-up at exit, the manager's prompts inside an attempt, the
firewall on boot, and the controllers of Windows and macOS. A helper whose answer is
lost, since a lost connection ends the engine's work
(`helper/helperbackend_linux.cpp:193-210`). `enabled()` of the helper saying "on"
when there are no rules, which takes two errors of nft in one call (helper
`linux/firewallcontroller.cpp:299-302`).

### Connectors

**Correspondence.** Each connector is one object per attempt, used by the
engine's thread, with a worker thread. A step of either thread is an action
between two points at which the other can interfere: a helper call, a read, a
post, a queued signal. The kill timer belongs to the engine's thread, so the
worker can only queue its stop (`timerStop`). In OpenVPN the worker launches the
process, dials its management socket and reads lines; a `SIGTERM` that comes
before the process takes commands is held back (`need`), one that comes while
the worker is busy is posted. In WireGuard the worker starts the daemon, polls
its status and stops it with retries.

`GetWireGuardConfig` keeps what is on disk (`stored`) apart from what a crash
loses. `Restart` drops the object and both statics; requests and answers may be
lost before or after the server has registered the key (`AnswerFails` from
*asked* or *reached*).

`IKEv2Connection_win` has one worker thread and RAS. `startDial()`,
`monitorLoop()`, `blockingDisconnect()` and `handleReinstallWan()` are phases of
the worker (`service` to `pausing`). RAS reports dial states on a thread of its
own, which only queues an APC; `HandleDialState` is that APC, and it can run
wherever the worker waits alertably, so also during a hang-up and, when a line of
an earlier dial lives on, in the set-up of the next one. A dial gets a new
handle. `line` is what RAS knows of each handle, `watched` the handle drop
detection is armed for; a line may be redialed or reconnected by RAS and fall at
any time. `connected()` is two steps (`DialStateConnected`, `ConnectDecides`),
as a stop can come while the default route is added.

`WireGuardConnection_win` has a worker that installs, configures and starts a
service and then waits for the stop event; its timers are APCs of that wait
(`OnCheckServiceRunning`, `OnTunnelConnected`, `GivenUp`), and the service may die
at any time. `kept` records that the helper failed to stop the service: the code
logs that and goes on.

`Connectors` makes one connector per attempt and dials WireGuard only once a
configuration was served. The initial state of a fetch is the only one in which it
makes the others, which read nothing of it. All platforms' connectors are in one
model; they share no state, so the choice between them is as good as a build.
`ConnectionManager` models the connector by its contract; these modules are where
the contract comes from.

**Assumptions.** `SlowHelper = FALSE`: one helper call does not outlast the
kill timer's ten seconds. `HelperFailures <= StopRetries`: the helper does not
fail to stop the daemon more often in a row than the worker tries.

**Left out.** OpenVPN's Windows parts (adapter, peer check, DCO, the UDP error
lines), statistics, the stunnel and wstunnel processes; IKEv2 of Linux and macOS;
the client's address computed from the answer; failures of the operating system's
own waits (`WAIT_FAILED`), and callbacks of a `RasDial()` that itself failed.

### Ping manager and locations model

**Correspondence.** `UpdateIps`, `Tick` (`onPingTimer`), `Answered`
(`onPingFinished`) and `SetPing` are the code's functions. An iteration's time
is only compared with the current one's, so an entry says whether it is the
current iteration's. The published state is disconnected or *engaged*, which may
bring a tunnel up at any time. A ping in flight is *direct* while no tunnel can
have been up since it was issued, otherwise wsnet may answer either way. `SetLocations` and
`Clear` are the locations model's. A list says which address each city has, and which
addresses are pinged: a city without a ping host, or with an address that is not valid,
is skipped (`apilocationsmodel.cpp:45-50`), and static IPs are pinged as well
(56-65). The loop over the cities, those that are skipped included, then stores
an entry of the current iteration for each address without a result: that of the
city's former address, or *none*. `answered` and `unlisted` tell the entries of this
iteration apart: those that are an answer, and those stored while the ping manager did
not have the address on its list.

**Left out.** The lengths of delays (a delay passes or not), `ws-no-pings`, and
the choice of nodes. The detection of the best location, which has no property: it starts
when every entry is of the current iteration (`apilocationsmodel.cpp:157-159`), and as the
loop makes them so (333-338), one answer after a first list is enough.

### Tunnel test

**Correspondence.** `StartTests` and `StopTestsCalled` are the two slots the engine
calls, `OnPingTestAnswer`, `RestEnds` (the single shot of `doNextPingTest()`),
`DelayEnds` (that of `startTestImpl()`) and `OnTestsSkipped` the private ones. The
single shots that wait are counted, since nothing takes one back. An answer that is
queued does not say which ping it is of, as the lambda in `callPingTest()` does not;
`pings` are the requests wsnet works on, of which only the current one can be
cancelled. `pauses` stands for `elapsed_`: a default test repeats its ping within
its time limit until the limit is over. `Configs` are the parameters of
`ExtraConfig`: custom limits, retries or number of tests; a delayed start; no
tests. They do not change while the program runs. A time limit configured without
a number of tests is left out: the code then reads an element of an empty vector
(`testvpntunnel.cpp:104`, in the hazards). *External*: wsnet's `pingTest()`, which
answers every request that was not cancelled. The result's effect is
`OnTunnelTestResult` of `ConnectionManager`. In `Connectors` the tests run once a tunnel
is up (`TunnelIsUp`), without the connector that brought it up, with which they share
no state.

## 3. Runs

| Run | Module | Shows | Distinct states |
|---|---|---|---|
| `sessions` | `MCConnectionManager` | manual WireGuard, custom and emergency sessions on Windows with sleep, DNS and prepare failures: `TypeOK`, `TimersQuiet`, `StopCompletes`, `RedialSparesTunnel`, `AttemptHasDriver`, `ConnectedHasTunnel`, `DisconnectedMeansSettled`, and that the manager implements `VpnSession` (`SessionKept`) | about 476 000 |
| `automatic` | `MCConnectionManager` | the automatic walk over two protocols while Always On+ is toggled: `FailuresHaveConnector`, `KeepsFreshConfig`, `SessionKept` | about 1 390 000 |
| `macos` | `MCConnectionManager` | the online slot acts, the sleep handler runs the event loop, OpenVPN may settle with an error only: `ParkedHasWakeUp` | about 600 000 |
| `liveness` | `MCConnectionManager` | under fairness: `StopTerminates`, `ReconnectingEnds` | about 10 000 |
| `engine` | `MCEngine` | clicks that race the session's signals, log-outs and redials that wait for a stop, refetched credentials, a firewall whose helper may refuse a request or fail half-way in clearing: the ten properties of `Engine` | about 766 000 |
| `ping` | `MCApiLocationsModel` | two addresses while lists change (skipped cities and static IPs among them), iterations begin, the VPN and the network come and go and answers come late: `TypeInvariant`, `NodesAreStored`, `PingsGoOn`, `PingedOnceListed` | about 870 000 |
| `connectors` | `Connectors` | the four connectors and the fetch from the first step to the last, each connector shown to implement `IConnection` with its liveness, and the tests of the tunnel: `TypeOK`, `EndsClean`, `ConnectorsImplement` and the nine other properties below | about 287 000 |
| `silent_settle`, `sleep_pump`, `stale_prepared`, `offline_cap` | `MCConnectionManager` | the disagreements of section 6 | stop at the violation |
| `key_limit` | `GetWireGuardConfig` | the disagreement of section 6 | stops at the violation |

What the properties of the connection manager say:

- `TimersQuiet`: a session that is over, stopping or asleep has no timer that
  could redial it or replace its outcome. Violating it takes a click, a timer
  and a teardown in the wrong order.
- `StopCompletes`: a stop is waiting for something that will happen. The comment
  at `connectionmanager.cpp:468` describes the wedge it excludes.
- `RedialSparesTunnel`: the timers that start attempts do not run beside a dialed
  connector.
- `AttemptHasDriver`, `ParkedHasWakeUp`: no announced attempt, and no session
  that waits for the network, is left without anything that can move it. For an
  attempt that is a timer, its connector, a signal on its way, or the question about
  the key limit, which waits for the user.
- `ConnectedHasTunnel`: a late `connected()` does not make a dead session look
  alive.
- `DisconnectedMeansSettled`: no session, no running connector. This rests on the
  error tables: an error reported at once must come from a settled connector.
- `FailuresHaveConnector`: whatever records a failure finds a connector, whose
  end will answer it.
- `KeepsFreshConfig`: a WireGuard configuration just fetched is not discarded for
  the failures of cached ones.
- `SessionKept`: the refinement. A request is answered exactly once, an ending
  session does not come back, and the user's stop is the outcome of the session
  it stopped.
- `StopTerminates`, `ReconnectingEnds`: a stop ends, and a session does not
  reconnect for ever.

Of the engine:

- `PublishedStateCatchesUp`: clicks publish a state ahead of the work they queue;
  when all are carried out, a tunnel that is up is seen as connected, and nothing
  is seen going on when nothing is. The second half leaves out the time while
  credentials are refetched, in which *connecting* is published without a session: on
  purpose for a session that will go on, but a log-out in that time leaves it
  published until the next click, as the answer is then dropped.
- `ConnectedIsUp`: once a session has dialed, the published state claims a tunnel
  only when there is one.
- `FirewallFollowsTunnel`, `FirewallReopens`: with a tunnel up and the firewall
  on, the rules admit the tunnel and its server only; after a session that did
  not end in an error they let the API through again and name no tunnel. They speak of
  rules that are installed, and except the time while the last request was refused by
  the helper. The second excepts an error, because an error while the tunnel is up
  leaves the tunnel's rules in place (a hazard in the list).
- `LatchIsTrue`: an unchanged request is not sent again, so what is remembered
  must be what is installed, whatever was refused before. A clear that failed half-way is
  the one exception, and the property says what holds then: there are no
  rules at all. An equal request is then dropped and the firewall stays off (a
  hazard in the list).
- `MarkIsForThisStop`: the mark of a log-out or reconnect is never left for the
  end of a later session.
- `LogoutIsKept`: a log-out that waits for the end of a session is carried out by
  that end.
- `StartsOnlyWanted`: neither a refetch of credentials nor a redial starts a
  session that the user's stop or log-out came after.
- `FirewallLiftedOnPurpose`: the rules go only by the user's click, a log-out, a
  session the user stopped, or a configuration that does not allow a firewall;
  never between the two halves of a reconnect, nor by a failure.

Of the connectors:

- `StopReachesProcess`: a stop that met the worker while it launched, dialled, or
  waited for the process to take commands is still sent.
- `ProcessIsGuarded`: the worker never ends with an openvpn process that no timer
  will end. It excepts the limit of 20 s on the management socket, whose error
  leaves the process alone (a hazard in the list).
- `EndsClean`: whatever ends a worker, the system is as it was before the attempt.
  Its parts are `DaemonIsStopped` (WireGuard of Linux and macOS), `ServiceIsRemoved`
  (Windows: no service, no DNS protection) and `HostsAreRestored` (IKEv2: hosts
  file and DNS protection, over a dozen ways out of a dial).
- `TunnelIsWatched`: an IKEv2 connector that said `connected()` has the tunnel of
  its last dial, with drop detection armed for it or a notification still to be
  seen. A callback of an earlier dial that passed for the present one, or a drop
  between arming and waiting, would violate it.
- `DeadServiceEnds`: a WireGuard tunnel of Windows whose service has died does not
  stay connected.
- `StaysSettled`: no `connected()` of WireGuard after its `error()` or
  `disconnected()`.
- `ConnectorsImplement` (`OvImplementsConnector`, `WgImplementsConnector`,
  `IkImplementsConnector` and `WwImplementsConnector`): every stop is answered and the
  worker ends, so that the destructor's `wait()` returns. This is what the
  fairness of `ConnectorStopped` in `liveness` stands for: the manager's run
  assumes it, this run shows it, except where OpenVPN settles with `error()` only
  (`silent_settle`): `IConnection` calls that settled.
- `RegisteredKeyIsStored`: through crashes, lost answers and cancelled requests,
  a key that takes one of the user's slots on the server is the stored one.
- `StoredWasGranted`: a complete stored configuration belongs to a key the server
  has answered for.

Of pings:

- `NodesAreStored`: the list and the storage agree on what was measured.
- `PingsGoOn`: the timer runs, and an address marked as being pinged, which the
  timer passes over, has a ping in flight.
- `PingedOnceListed`: the timer passes over an address that counts as done in this
  iteration. One that was on the ping manager's list when the locations model stored an
  entry for it counts only once it has answered. The order of the two calls in
  `setLocations()` and the copy of the entry that a node keeps see to that. A list that is
  deferred while connected is stored before it is listed, and not covered (a hazard in
  the list).

Of the tunnel test:

- `TestEnds`: a test ends in a result or a stop. While it runs the protocol shown
  is not settled, and no failover can happen.
- `OneResultPerStart`: without a delay, and unless tests are skipped, a start has
  one result at most and a test that was stopped none, whatever pauses, pings and
  answers of earlier tests are still to come. With a delay it fails: a stop does not
  take the delayed start back (a hazard in the list).

**Bounds of the connection manager.** `MaxQueue = 2`: new events wait while two signals of connectors are
queued; the steps that finish something (a stopping connector, delivery) are not
bounded, so the queue reaches three and more. Two suffice for the hazards, which
need one stale signal behind one current one. `MaxEndpoints = 2`: an emergency
list that is empty, exhausted by one failure, or walked. `MCPortMap` has
WireGuard and OpenVPN, so that the walk passes from a protocol that fetches its
configuration to one that does not, with two attempts each. `Outcomes` are the
four answers of a session. Each run fixes one platform, because the code is
compiled for one, and the kinds of session its question needs.
Platform Linux differs from macOS in this code by the online slot only, which
has no effect there.

**Bounds of the others.** `engine`: one click waits for the engine's thread at a time
(`MaxCalls = 1`) while the session and the firewall go on, and the next may come once it is
taken, so that a mark is replaced and a state published ahead of the session. The
theorems of section 4 hold for every number of clicks; with two of them waiting
(`MaxCalls = 2`, modes *before* and *plus*, about 1 872 000 states) TLC finds nothing else.
API and custom locations (a static one differs in one branch, its authentication error
is published); the firewall modes in which the session moves the firewall, so all but
*manual*. The engine tells the user's stop, an error and any other outcome
apart, so one outcome stands for the tunnel's own end and the time limit. The helper
gives each of its three answers at any time. `ping`: two
addresses, two pings of one address in flight (one of a former and one of the
current iteration), two failures in a row instead of three. The lists are three: one
city alone, the same city at another address beside a second city at its former one,
and a city without a ping host beside a static IP. So an address leaves, returns, changes
its city, and is stored without being pinged and pinged without being stored. `connectors`: both launches repeated twice, the daemon's stop
four times as in the code, two key pairs (a second one is generated after the
settings were cleared). IKEv2 dials as often as the code does
(`MaxFailedConnectionAttempts = 3`), so that callbacks of two earlier dials can meet
the third, and two callbacks wait at a time (`MaxCallbacks = 2`): a stale one
before or behind a current one. The service of WireGuard is started twice more
(`MaxServiceStarts = 2`), within the code's fifteen seconds. Every other field is finite by itself.

The tunnel test has the three time limits of the code, one pause in each (its end
can already meet a later test) and two starts, so that what one test left meets the
next; with three starts nothing else is found (about 516 000 states in `connectors`).

`CHECK_DEADLOCK` is off in `connectors` only: a connector
that has settled and whose worker has ended is never used again, and a tester whose
starts are used up (`MaxStarts`) has nothing to do.

What the assumptions are worth: with `SlowHelper = TRUE` a process is left behind
(`ProcessIsGuarded`), with `HelperFailures = 5` a daemon (`EndsClean`,
`ConnectorsImplement`), with `LogoutExclusive = FALSE` a log-out is lost
(`LogoutIsKept`). The hazards list the lines.

**Fairness** (`FairSpec`). Weak fairness of *Slots*: Qt's event loop delivers what is
queued. Of `ConnectorStopped`: a connector that was told to stop has a kill
timer or a bounded wait on each platform. Of `EndBlockingDisconnect`: the wait
is bounded by ten seconds. Of `OnTimerReconnection`: a single-shot timer that
stays armed fires. Nothing is assumed of the user, the network, the API, nor
that a dialed connector ever connects. The run uses Linux without sleep events and a
connector that settles with `disconnected()`; with one that does not, a stop
does not end (section 6).

`OvFairness` and `WgFairness` of `connectors`: the worker's thread runs what it
has to run (a helper call returns with either answer, a handler that was posted
runs, a read or write returns once the process is gone or the stop was sent),
and OpenVPN's kill timer fires. `IkFairness`: the worker of IKEv2 runs, its hang-up
is bounded by 8.5 s and its pause by 3 s, and a wait that is not alertable by a
stop ends; no callback is assumed to come. `WwFairness`: the worker of WireGuard runs,
starting the service is bounded by its deadline, and the timer that looks at the
service goes off every five seconds. Nothing is assumed of the server, of a process
that obeys or ends, or of the user. WireGuard's own kill timer has no part in
it. `TtFairness`: single shots fire, the event loop delivers what is queued, and
wsnet answers, as each ping has a time limit. A test that is started again for
ever would not end; `MaxStarts` excludes it, and the code starts one only for a
tunnel that came up or an address that was rotated. `engine`, `ping` and the fetch
state safety only.

## 4. Proofs

`ConnectionManagerProofs` holds for every port map, protocol, platform, set of
errors and bound that the ASSUMEs of `AttemptStrategy` and `ConnectionManager`
admit:

- `TypeCorrect`: `Spec => []TypeOK`
- `TimersStayQuiet`: `Spec => []TimersQuiet`
- `FailuresKeepConnector`: `Spec => []FailuresHaveConnector`

*Argument.* The inductive invariant `IInv` says that the manager's record is
`Good`: it has its type, is `Quiet` (no timers when settled), `Manned` (a
connecting timeout or a connected session has a connector) and `Owned`. `Owned`
is the strengthening: without a connector no prepare is in flight and no queued
signal counts as the current connector's. Without it `Manned` is not inductive:
a `connected()` delivered with no connector would make the session connected
with none. `Quiet` in turn needs `Manned`, as a failed attempt stops its
connector and thereby the timers. Each operator on the record has a lemma that
it keeps `Good`, under the condition its callers establish (for example a timer
is armed only in a state that is not settled); `SlotsGood`, `RequestsGood`,
`TimeoutsGood`, `SystemGood` and `ConnectorGood` combine them per group of
actions, `NextGood` over `Next`, and `AlwaysGood` is `Spec => []IInv`.

`ConnectionManagerWakeUpProofs`, under the same ASSUMEs and on every platform:

- `ParkedIsWoken`: `Spec => []ParkedHasWakeUp`
- `FreshConfigKept`: `Spec => KeepsFreshConfig`

*Argument.* The inductive invariant is `Good` with `Kept`. `Placed` says that the
rest timer runs only without a connector, and that a parked session has its wake-up;
the first half is what keeps the second when a rest ends while the network is away.
`Fresh` says that an attempt that fetched its configuration has cached attempts left
to count, so the failure that drops the stored one comes from an attempt that used
it. `Spares` is the step property: `Kept` afterwards, and a configuration that is
gone was not fetched normally. Each operation has a `...Ways` lemma, the records it
may end in, and a `...Keeps` lemma about them. An operation's callee may leave its
caller's record half done, as `onConnectionDisconnected` does (the end is taken from the
queue before the parked session is seen to): such lemmas ask for `Fresh` alone.

`ConnectionManagerStopProofs`, under `Contract`:

- `EveryStopCompletes`: `Spec => []StopCompletes`
- `RedialsSpareTunnel`: `Spec => []RedialSparesTunnel`
- `ConnectedMeansTunnel`: `Spec => []ConnectedHasTunnel`
- `DisconnectedIsSettled`: `Spec => []DisconnectedMeansSettled`

*Argument.* None of the four is inductive, and they are not independent: a stop
completes only if a session that is over has no live connector, which holds only if no
attempt replaces one. `Sound` ties the session's state to the connector's phase and
the signals queued from it. `Fits` is the part that is easy to miss: each queued
signal is one its connector can have sent in the phase it is in now, so that an error
that ends the session without a stop (`SettledErrors`) is delivered only for a
connector that is down, and a late `connected()` only for one that was dialed; `Late`
adds that a connector that is down has its end queued behind such a signal. An
operation changes the state and the connector one after the other, so `Body` is the
part that holds in between. `Rested`, that the session is settled while the machine
sleeps, is needed for the wake, and rests on `Sound` in turn.

*Hypotheses.* `Contract` holds in the runs `sessions`, `automatic` and `liveness`. It
excludes OpenVPN's silent settle, which refutes `StopCompletes` (run `silent_settle`),
and asks of the connector what the comments of `onConnectionError()` say of it: it ends
by itself after a failed log-in, and sends no service error from a live tunnel. It
excludes macOS for a reason TLC shows: a `prepared()` that is queued when the machine
falls asleep without a live connector is delivered after a wake without network, and dials
beside the running poll. `RedialSparesTunnel`, `ConnectedHasTunnel` and
`DisconnectedMeansSettled` fail there, although the comment in
`blockingDisconnect()` relies on the state guards to drop queued completions.
Linux counts without sleep events, which its factory does not provide.

`ConnectionManagerAttemptProofs`, under `Candid`:

- `AttemptsAreDriven`: `Spec => []AttemptHasDriver`

*Argument.* The inductive invariant `Driven` treats two kinds of attempts apart. Every
attempt but two runs under the reconnection cap, and so does the poll of a parked
session (`Capped`): it is enough that no slot takes the cap away and leaves the
session reconnecting. The first attempt and the one after a wake have no cap
(`Uncapped`), and `Staged` says for each phase of the connector what drives them: a
timer before there is a connector, its resolving, preparing or answer before it is
dialed, its own steps while it lives, and when it is down a signal that ends the
attempt. That last signal is the difficulty: `bIgnoreConnectionErrors_` lets
`onConnectionError()` drop an error, and a connector that sends nothing else would
then hang the attempt. `Heeded` says that in a first attempt the flag is set only
before the attempt's own connector has sent anything, so its errors are heeded. After a
wake the flag may be set at any time, and only an error that ends the session whatever
the flag says will do (`Final`). `Apt` holds inside the sleep handler's loop
as well. The rest of `Driven` does not, since the loop runs slots on a session that
the handler is about to park or end. `Roused` ties the sleep and wake handlers
together: a machine asleep outside the loop has a settled session. It needs its own
frame, `Lets`, as no slot but those two writes their flags.

*Hypothesis.* `Candid` says that a connector which ends with an error alone does so
with one that is `Final`, or that the machine reports no sleep. It holds in every run. Only
OpenVPN ends that way, with `kLocalProcessNotResponding`, which ends every session but
an emergency one; and the errors that a custom session retries come from a tunnel
that runs (`openvpnconnection.cpp:715-770`, `857`), never from a connector that could
not start. What the hypothesis leaves out is an emergency session on OpenVPN, and
there the property fails. On macOS, with `SessionKinds = {"emergency"}` and
`SilentSettle = TRUE`, TLC finds a path of eleven steps: the machine falls asleep
while OpenVPN is starting, the connector's reconnecting signal is delivered inside the
handler's loop and sets the flag, the loop gives up after ten seconds, the machine wakes,
OpenVPN settles silently, and its error is swallowed. The session stays in
Reconnecting without a timer. It needs the silent settle of section 6, so it has no
run of its own.

`ConnectionManagerSessionProofs`, on every platform, of the behaviours in which `OutlivesPump`
always holds:

- `OutlivingSessionKept`: `Spec /\ []OutlivesPump => SessionKept`, the refinement of `VpnSession`
- `OutlivingStopHolds`: `Spec /\ []OutlivesPump => UserStopWins`
- `OutlivingAnsweredOnce`: `Spec /\ []OutlivesPump => []Session!AnsweredOnce`

and of every behaviour, under `Unpumped`, by `NeverPumped`:

- `ManagerKeepsSession`: `Spec => SessionKept`
- `UserStopHolds`: `Spec => UserStopWins`
- `EachSessionAnsweredOnce`: `Spec => []Session!AnsweredOnce`

*Argument.* The inductive invariant is `Good` with `Tells`: a session that is not over
has reported nothing and asks nothing, the credentials question is that of a custom
configuration, and a stop has a connector to wait for. The refinement needs each part.
The last is why a stop is never begun by a click with nothing left to answer it, and
the kind of the walk is why the answer to the question cannot fail over and stop in
the step that begins the session, which the abstract session does not allow. The same
holds of a new automatic walk because it attempts each protocol twice, so its first
failure is not its last (`Hopeful`, `AutoAttemptsEven`). `Leads(n, S)` says that an
operation ends in one of the states `S` and has said nothing, or is over and has said
so once; each operation has a lemma of this form. `Follows` is the step between two
records that the groups of actions establish (`SlotsObey`, `RequestsObey`,
`TimeoutsObey`, `SystemObeys`, `ConnectorObeys`), and `FollowsSession` maps it to an
action of `VpnSession` or a stutter.

*Hypotheses.* `OutlivesPump` is that a session is neither over nor ending while
`blockingDisconnect()` runs its event loop on macOS or Linux. A click or a fatal error that is
delivered there makes it false, and then both properties can fail (run `sleep_pump`): what is
left of the handler puts to sleep a session that has ended. The theorems say that this is all
there is to it: whatever else the loop delivers (the connector's other signals, the network,
the wake) leaves a session that the handler can put to sleep, and a wake inside the loop
resumes it with one outcome still to report. `Unpumped` is that there is no loop: it is
Windows, whose handler waits without it, or there is no source of sleep events, as on Linux;
only `onSleepMode()` enters the loop (`PumpStarts`), so `OutlivesPump` then holds. There is
no hypothesis on the connector: a session is answered once whatever its connector reports.

The first part of `EngineProofs` proves of the abstract session that it is answered at most
once and not before it is over (`SessionAnsweredOnce`), for every set of
outcomes that contains the user's stop. With `EngineUsesSession` below and
`ManagerKeepsSession` above, the two sides of the interface meet in `VpnSession`.

The rest of `EngineProofs`, for every set of locations and modes, every sequence of the
helper's answers, half-way clears included, and every bound:

- `LatchTruth` (`LatchIsTrue`), from `FwInv`: the latch holds and the addresses
  have their type. Each operation of the controller has a lemma. What the theorem leaves
  open is `half`: a remembered request without rules. `half` is set by a clear that
  failed half-way and by nothing else, and ends with the next request that is sent
  and done.
- `MarksAreForTheirStop` (`MarkIsForThisStop`) and `StartsAreWanted`
  (`StartsOnlyWanted`), from `CtlInv`: a mark belongs to a session that is
  ending; a redial runs only after such an end, with no session; a question is
  open only when no session runs; a refetch or a redial that would start a session
  is still wanted. The last part is what makes the second theorem inductive: a
  stop clears `fetching` or finds a session that is not off.
- `LogoutsAreKept` (`LogoutIsKept`), from `KeptInv`, which also says that the
  mark is still that of the log-out. It is stated under `LogoutExclusive`.
- `EngineUsesSession` (`Spec => SessionSpec`): every step of the engine is a step of
  the abstract session or a stutter of it. With it the session's invariant `SInv` holds
  in the engine, and `EngineTyped` (`TypeOK`) follows with `EType` and `FwInv`.
- `ConnectedIsTrue` (`ConnectedIsUp`) and `PublishedCatchesUp`
  (`PublishedStateCatchesUp`), from `PubInv`. Two of its parts are not evident from the
  property. `OverIsPublished` must hold while log-outs are queued, which publish nothing
  themselves (`OnlyLogouts`). And `Entitled`, that a session the user has not stopped
  is a custom one or that of an account that is logged in, is why wrong credentials
  never leave a stale state behind: they are refetched, asked for, or published.
- `TunnelIsSealed` (`FirewallFollowsTunnel`) and `RulesReopen` (`FirewallReopens`), from
  `Ruled`. `Asked(f, c)` says that the rules, if there are any, are those of the
  request `c` unless the helper refused; the latch makes it hold also for a request that
  is dropped as unchanged. `Opened` says besides that no state is published after the end under which
  the next update would ask for the tunnel's rules, except before a redial, when no slot
  runs.
- `LiftedOnPurpose` (`FirewallLiftedOnPurpose`): no request to switch the rules
  on ever takes them away, so only the named steps are left.

`PingManagerProofs`, for every set of addresses, whatever lists the manager is
given and whatever is stored from outside (`PingSpec`): `PingTyped`, `BooksAgree`
(`NodesAreStored`) and `PingingGoesOn` (`PingsGoOn`), from `PInv`. `Sound` says that
the books agree and that there are no nodes without the timer, and is kept by each
operator on the record; `Marked`, that a busy node has a ping in flight, needs
that each operator marks no node, but those it pings.

The same module proves of `ApiLocationsModel`, the specification the run `ping`
checks, for every finite set of cities and every set of lists: `LocationsTyped`
(`TypeInvariant`), `ListedArePinged` (`PingedOnceListed`),
`BooksAgreeWithLocations` and `PingingGoesOnWithLocations`, from `LInv`. It adds that
an address that is credited (`Credited`: its node is done in this iteration, or it has
none and an entry of this iteration, which its node would start from) has
answered or was stored while it was not listed. No operator of the ping manager
credits an address without an answer (`CreditedFrom`), and the loop over the cities only
stores results for addresses that had none (`CarriedOver`), which credits none that has a
node. The loop is a fold over a set. `CarriesCityByCity` shows that
the fold's recursive function exists and obeys its equation, and `CarryPingsSound`
what it makes of the manager, both by induction on the number of cities. The
induction is stated with sets (`InductionOnNumbers`: a set with 0 and the
successor of each of its numbers holds them all), since the library's induction
theorems take an operator, which the provers cannot instantiate.

`ConnectorsProofs`, of OpenVPN and for every number of launches: `OpenVPNTyped`,
`StopReaches` (`StopReachesProcess`), `ProcessGuarded` (`ProcessIsGuarded`, under
`~SlowHelper`) and `OvImplementsSafely`, that every step is a step of
`IConnection` or a stutter. `OInv` strengthens them: what has not happened before
the dial (`Undialled`); that a stop is sent, held back, posted or still seen by the
worker (`Reading`), which is `StopReachesProcess` for every phase of the
worker; and what the end of the worker leaves (`Ending`). `Armed` adds that the
kill timer of an accepted stop is not stopped under it.

Of the WireGuard connector and for every limit of retries:
`WireGuardTyped`, `SettledStaysSettled` (`StaysSettled`), and under `HelperFailures <= StopRetries`
`DaemonStopped` (`DaemonIsStopped`) and `WgImplementsSafely`.

It also holds, for any number of key pairs, of the fetch: `FetchTyped`,
`RegisteredKeyKept` (`RegisteredKeyIsStored`) and `StoredGranted`
(`StoredWasGranted`). Neither is inductive without `RequestIsForStored` (a
request in flight is about the stored key, as a new key is stored before it is
sent) and `ReachedIsGranted`.

Of the connectors of Windows and the attempt, for every number of dials, of waiting
callbacks and of starts:

- IKEv2: `IKEv2Restores` (`HostsAreRestored`), `IKEv2Watched` (`TunnelIsWatched`) and
  `IkImplementsSafely`, from `KInv`. `TunnelIsWatched` is far from inductive.
  `FreshHandles` says that a handle is dialed once, so a line of a coming dial is
  still `none`; `Truthful`, that a waiting callback that reports a tunnel is about
  a line that is up or gone; `Reasons`, that a hang-up has a stop, a verdict or a
  connected tunnel behind it, so that a callback heeded during the hang-up cannot
  connect; `Watched` extends the property to the step between arming and
  `connected()`. Together: an APC that is heeded is about the present handle, its
  line is up or gone, and arming fails for one that is gone.
- WireGuard of Windows: `ServiceRemoved` (`ServiceIsRemoved`) and
  `WwImplementsSafely`, from `ServicePhases`.
- The attempt: a step of `Connectors` is a step or a stutter of each part
  (`PartsStep`), so the parts' invariants hold together: `AttemptTyped`
  (`TypeOK`), `AttemptEndsClean` (`EndsClean`, under `HelperFailures <=
  StopRetries`), `AttemptWatched` (`TunnelIsWatched`) and `AttemptKeepsKeys`.

`ConnectorsProofs` also holds, for any number of tests, pauses and starts: `TestTyped`,
`TestDriven` (`TestIsDriven`: a running test has a pause that will end or a request
that will be answered) and `OneResult` (`OneResultPerStart`), from `TInv`. A handler
keeps `Consistent` at every call it makes, but restores `Driven` only at its end,
since an answer takes the request away before it decides what comes next.
`Answerable` is what makes `TestIsDriven` inductive although an answer may be that
of another ping: an answer that is taken for the current request's ends it.

Only model-checked: the liveness properties `StopTerminates`, `ReconnectingEnds`,
`DeadServiceEnds` and `TestEnds`, and the liveness halves of the four refinements of
`IConnection`. Every safety property that a passing run checks has a theorem, some
under the hypotheses named above. Liveness and ENABLED are beyond this prover and stay with TLC, as would
recursive operators, of which there are none.

## 5. What is left

Next, in this order:

1. **Engine**: the emergency session, the deferred login and clean-up at exit.
2. **Connectors**: IKEv2 of Linux (NetworkManager) and of macOS (network extension),
   and OpenVPN's Windows parts.
3. **Network detection** (bursts of notifications, delays on macOS) and the
   **helper client** (loss of the helper).
4. The front ends' backend (order of login, connect and preferences) and the
   helper's process and split-tunnel managers.

**Not modelled**, and why: custom configurations, API resources, client-common's
value types and serialisation are data transformations without interleaving.
Diagnostics, launch on startup, proxy settings, split-tunnel glue, packet size and
adapter utilities forward to the platform or run a fixed list. Sharing proxies
parse protocols per connection and share nothing with the session. DNS and
ctrld are seen only by their outcome. The graphical front end is presentation,
the command line parsing and printing; both reach the engine through the clicks
that are modelled. Installers, drivers, build files and vendored kernel code are
outside the client. They make up most of the repository's lines.

## 6. Findings

Behaviours of the code that disagree with what it says of itself:

- `silent_settle`: OpenVPN's worker that gives up starting its process while it
  is being told to stop settles with `error()` alone; the kill timer then emits
  nothing and the manager waits in its stopping state. The comment at
  `connectionmanager.cpp:468-470` names this wedge for the error path.
- `sleep_pump`: on macOS and Linux a disconnect by the user that is handled
  inside the sleep handler's event loop is overwritten when the handler goes on,
  and the wake reconnects. `connectionmanager.cpp:622-624` says that the user's
  disconnect is left to settle. `OutlivingStopHolds` proves that a behaviour without
  such an end inside the loop loses no stop.
- `stale_prepared`: a `prepared()` already queued when the attempt times out
  still dials the connector that was told to stop; `iconnection.h:70-71` says
  that `startDisconnect()` cancels a prepare. It is retired again when its
  `disconnected()` is delivered.
- `offline_cap`: on macOS a session begun offline keeps its reconnection cap
  running while it dials; when the network is lost again, the assertion at
  `connectionmanager.cpp:654` does not hold.
- `key_limit`: the request that was to renew a registration meets the key limit.
  The call that the user's consent makes no longer finds the request forced
  and serves the stored configuration: nothing is sent and no key is released.
  `wireguardconnectionbase.cpp:56-57` says that the consent is the instruction
  to release the oldest key and fetch again.

Kept as hazards, with no run of their own: an error while the tunnel is up
leaves the tunnel's firewall rules; the 20 s limit on OpenVPN's management socket
leaves the process alone; the fifth failure to stop WireGuard's daemon ends the
worker without a signal; a helper call that outlasts the kill timer; a clear of the
firewall that fails half-way (helper `linux/firewallcontroller.cpp:278`), after which an
equal `firewallOn()` is dropped and installs nothing, although the comment at
`firewall/firewallcontroller.h:35-36` says that a failed request cannot spoil what is
compared; a list of addresses that is deferred while connected, which `pingmanager.cpp:77`
applies after a newer one, and whose new addresses count as done when it is applied, since
their entries were stored at once (`apilocationsmodel.cpp:337`); a delayed start of the
tunnel test that comes after the session; and a test that is started again during the 100 ms
pause of the one before (a rotated address, `engine.cpp:3358`): the pause's end makes
a second request beside the first, against the assertion at `testvpntunnel.cpp:167`,
and the answer of either is taken for the other's. The model takes the same steps, and
`TestEnds` and `OneResultPerStart` hold all the same.

## 7. How to run

    tlc -config sessions.cfg MCConnectionManager.tla
    tlc -config engine.cfg MCEngine.tla
    tlc -config ping.cfg MCApiLocationsModel.tla
    tlc -config connectors.cfg Connectors.tla
    tlc -config key_limit.cfg GetWireGuardConfig.tla
    tlapm ConnectionManagerProofs.tla

and likewise the other configurations of section 3 and the modules named
`...Proofs`.
