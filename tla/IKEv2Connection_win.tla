------------------------ MODULE IKEv2Connection_win ------------------------
(***************************************************************************)
(* The IKEv2 connector of Windows, one object per attempt.  A worker thread *)
(* dials through RAS and waits for a stop, a drop of the tunnel or a        *)
(* dial-state callback, which RAS's own thread queues to it as an APC; the  *)
(* APCs run wherever the worker waits alertably, also long after the dial   *)
(* they are about                                                           *)
(* (.../connectors/ikev2/ikev2connection_win.cpp).                          *)
(***************************************************************************)
EXTENDS Naturals, Sequences

CONSTANTS
    MaxFailedConnectionAttempts,    \* kMaxFailedConnectionAttempts
    MaxCallbacks                    \* bound on the APCs that wait

ASSUME IkAssumption ==
    MaxFailedConnectionAttempts \in Nat \ {0} /\ MaxCallbacks \in Nat

VARIABLE ik

Handles == 1..MaxFailedConnectionAttempts   \* one per dial
DialErrors == {"auth", "transient", "other"}
Lines == [Handles -> {"none", "dialing", "failed", "up", "gone"}]
Callbacks == [handle : Handles, event : {"connected"} \cup DialErrors]
Queues == Seq(Callbacks)

IkType ==
    [dialed : BOOLEAN,          \* startConnect() was called
     stop : BOOLEAN,            \* stopThreadEvent_ is signalled
     notify : BOOLEAN,          \* notifyEvent_ is signalled
     worker : {"off", "service", "setup", "dialing", "monitoring", "connecting",
               "hangingUp", "reinstalling", "pausing"},
     handle : {0} \cup Handles, \* connHandle_
     pending : {"None", "AuthError", "ConnectFailed", "ReinstallWan"},
     retry : BOOLEAN,           \* the hang-up is that of handleReinstallWan()
     failures : {0} \cup Handles,   \* cntFailedConnectionAttempts_
     hosts : BOOLEAN,           \* hostsAndDnsProtectionSet_
     connected : BOOLEAN,       \* connectedSignalEmited_
     reinstalled : BOOLEAN,     \* wanReinstalled_, kept by the process
     watched : {0} \cup Handles,    \* the handle drop detection is armed for
     line : Lines,              \* what RAS knows of the handles
     apcs : Queues]             \* the APCs that wait

IkInit ==
    \E reinstalled \in BOOLEAN :
        ik = [dialed |-> FALSE, stop |-> FALSE, notify |-> FALSE, worker |-> "off",
              handle |-> 0, pending |-> "None", retry |-> FALSE, failures |-> 0,
              hosts |-> FALSE, connected |-> FALSE, reinstalled |-> reinstalled,
              watched |-> 0, line |-> [h \in Handles |-> "none"], apcs |-> <<>>]

-----------------------------------------------------------------------------
(* The engine's thread.                                                     *)

IkStartConnect ==
    /\ ~ik.dialed
    /\ ik' = [ik EXCEPT !.dialed = TRUE, !.worker = "service"]

\* Without a worker disconnected() is the answer, and nothing changes.
IkStartDisconnect ==
    /\ ik.worker # "off"
    /\ ik' = [ik EXCEPT !.stop = TRUE]

-----------------------------------------------------------------------------
(* The worker's thread: startDial().                                        *)

\* run() returns: error() where there is one, and disconnected().
RunEnds(s) == [s EXCEPT !.worker = "off"]

\* RasMan runs, or is started.
ServiceChecked == ik.worker = "service" /\ ik' \in {RunEnds(ik), [ik EXCEPT !.worker = "setup"]}

\* Stale connections are asked to hang up, the entry and its parameters are
\* written; the hosts file and the DNS protection come last.
SetupFails == ik.worker = "setup" /\ ik' = RunEnds(ik)

SetupSucceeds ==
    /\ ik.worker = "setup" /\ ~ik.stop
    /\ ik' = [ik EXCEPT !.worker = "dialing", !.hosts = TRUE]

\* Mutant: a dial that fails at once leaves the system as it prepared it.
DialGivenUpLeavingHosts == ik.worker = "dialing" /\ ik' = RunEnds(ik)

\* The last checkpoint of a stop, or RasDial() fails, which no callback follows.
DialGivenUp == ik.worker = "dialing" /\ ik' = RunEnds([ik EXCEPT !.hosts = FALSE])

RasDial ==
    /\ ik.worker = "dialing" /\ ~ik.stop
    /\ LET h == ik.failures + 1
       IN  ik' = [ik EXCEPT !.worker = "monitoring", !.handle = h, !.line[h] = "dialing"]

-----------------------------------------------------------------------------
(* The worker's thread: monitorLoop() and what follows it.                  *)

\* The loop ends; blockingDisconnect() begins.
HangUp(s, retry) == [s EXCEPT !.worker = "hangingUp", !.retry = retry]

\* Mutant: the loop waits for dial states and notifications only.
StopSeenBeforeConnect ==
    /\ ik.worker = "monitoring" /\ ik.stop /\ ~ik.connected
    /\ ik' = HangUp(ik, FALSE)

StopSeen ==
    /\ ik.worker = "monitoring" /\ ik.stop
    /\ ik' = HangUp(ik, FALSE)

\* armDropDetection() fails for a tunnel that is gone, and may fail for another.
ArmDropDetection(s) ==
    /\ s.line[s.handle] # "gone"
    /\ ik' = [s EXCEPT !.watched = s.handle]

\* The event only says that something changed. The stop is looked at first.
NotifySeen ==
    /\ ik.worker = "monitoring" /\ ik.notify /\ ~ik.stop
    /\ LET s == [ik EXCEPT !.notify = FALSE]
       IN  ArmDropDetection(s) \/ ik' = HangUp(s, FALSE)

\* A stop that came while the route was added takes the connected() back.
ConnectDecides ==
    /\ ik.worker = "connecting"
    /\ ik' = [ik EXCEPT !.worker = "monitoring", !.connected = ~ik.stop]

\* RAS reports the line gone, or 8.5 s have passed; both without a handle to it.
BlockingDisconnectEnds ==
    /\ ik.worker = "hangingUp"
    /\ \E line \in {ik.line, [ik.line EXCEPT ![ik.handle] = "gone"]} :
           LET s == [ik EXCEPT !.line = line, !.handle = 0, !.hosts = FALSE]
           IN  ik' = IF ik.retry THEN [s EXCEPT !.worker = "reinstalling"] ELSE RunEnds(s)

\* handleReinstallWan(): enable a disabled adapter, or reinstall it once.
HandleReinstallWan ==
    /\ ik.worker = "reinstalling"
    /\ LET s == [ik EXCEPT !.failures = @ + 1]
       IN  IF ik.stop THEN ik' = RunEnds(ik)
           ELSE IF s.failures >= MaxFailedConnectionAttempts THEN ik' = RunEnds(s)
           ELSE \/ ik' = [s EXCEPT !.worker = "pausing"]
                \/ ~ik.reinstalled /\ ik' = [s EXCEPT !.worker = "pausing", !.reinstalled = TRUE]
                \/ ik.reinstalled /\ ik' = RunEnds(s)

PauseEnds ==
    /\ ik.worker = "pausing"
    /\ ik' = IF ik.stop THEN RunEnds(ik) ELSE [ik EXCEPT !.worker = "setup", !.pending = "None"]

-----------------------------------------------------------------------------
(* The worker's thread: handleDialState(), an APC.                          *)

\* Mutant: a callback counts whenever there is a dial, whatever dial it is of.
HeedsAnyHandle(apc) == ik.handle # 0 /\ ~ik.stop /\ ik.pending = "None"

\* Stale handles, and anything after a stop or a verdict, are skipped.
Heeds(apc) == apc.handle = ik.handle /\ ~ik.stop /\ ik.pending = "None"

\* The waits of the loop and of blockingDisconnect() are alertable; in
\* startDial() only a stale line makes the worker wait.
Apc(event) ==
    /\ ik.apcs # <<>> /\ Head(ik.apcs).event = event
    /\ \/ ik.worker \in {"monitoring", "hangingUp"}
       \/ ik.worker = "setup" /\ \E h \in Handles : ik.line[h] \notin {"none", "gone"}

Rest == [ik EXCEPT !.apcs = Tail(@)]

\* The loop returns on the verdict; during a hang-up the verdict stays unused.
Verdict(s, outcome) ==
    LET v == [s EXCEPT !.pending = outcome]
    IN  IF s.worker = "monitoring" THEN HangUp(v, outcome = "ReinstallWan") ELSE v

DialStateConnected ==
    /\ Apc("connected")
    /\ IF Heeds(Head(ik.apcs)) /\ ~ik.connected
       THEN \/ ArmDropDetection([Rest EXCEPT !.worker = "connecting"])
            \/ ik' = Verdict(Rest, "ConnectFailed")
       ELSE ik' = Rest

DialStateAuthError ==
    /\ Apc("auth")
    /\ ik' = IF Heeds(Head(ik.apcs)) THEN Verdict(Rest, "AuthError") ELSE Rest

\* isTransientConnectError(): the reinstallation is for the other errors.
DialStateError(event, outcome) ==
    /\ Apc(event)
    /\ ik' = IF Heeds(Head(ik.apcs)) /\ ~ik.connected THEN Verdict(Rest, outcome) ELSE Rest

HandleDialState ==
    \/ DialStateConnected \/ DialStateAuthError
    \/ DialStateError("transient", "ConnectFailed")
    \/ DialStateError("other", "ReinstallWan")

-----------------------------------------------------------------------------
(* External: RAS. A line that failed may be redialed by RAS, one that is up *)
(* may be reconnected by it; a line whose hang-up timed out lives on.       *)

\* rasDialCallbackProc(): QueueUserAPC() may fail.
Callback(s, h, event) ==
    \/ ik' = s
    \/ /\ Len(s.apcs) < MaxCallbacks
       /\ ik' = [s EXCEPT !.apcs = Append(@, [handle |-> h, event |-> event])]

LineComesUp(h) ==
    /\ ik.worker # "off" /\ ik.line[h] \in {"dialing", "failed"}
    /\ Callback([ik EXCEPT !.line[h] = "up"], h, "connected")

LineFails(h, event) ==
    /\ ik.worker # "off" /\ ik.line[h] \in {"dialing", "up"}
    /\ Callback([ik EXCEPT !.line[h] = IF @ = "up" THEN @ ELSE "failed"], h, event)

LineFalls(h) ==
    /\ ik.worker # "off" /\ ik.line[h] \in {"dialing", "failed", "up"}
    /\ ik' = IF ik.watched = h
             THEN [ik EXCEPT !.line[h] = "gone", !.watched = 0, !.notify = TRUE]
             ELSE [ik EXCEPT !.line[h] = "gone"]

\* A notification that is about something else.
Notified ==
    /\ ik.worker # "off" /\ ik.watched # 0
    /\ ik' = [ik EXCEPT !.watched = 0, !.notify = TRUE]

Ras ==
    \/ \E h \in Handles :
           LineComesUp(h) \/ LineFalls(h) \/ \E event \in DialErrors : LineFails(h, event)
    \/ Notified

-----------------------------------------------------------------------------
IkWorkerStep ==
    \/ ServiceChecked \/ SetupFails \/ SetupSucceeds \/ DialGivenUp \/ RasDial
    \/ StopSeen \/ NotifySeen \/ ConnectDecides
    \/ BlockingDisconnectEnds \/ HandleReinstallWan \/ PauseEnds

IkNext == IkStartConnect \/ IkStartDisconnect \/ IkWorkerStep \/ HandleDialState \/ Ras

\* The worker's thread runs; its waits end with a stop or with their time limit.
IkFairness == WF_ik(IkWorkerStep)

IkSpec == IkInit /\ [][IkNext]_ik /\ IkFairness

-----------------------------------------------------------------------------
\* Every field keeps its type.
IkTypeOK == ik \in IkType

\* Whatever ends the worker, the hosts file and the DNS protection are as they
\* were before the attempt.
HostsAreRestored == ik.worker = "off" => ~ik.hosts

\* A connector that said connected() has the tunnel it dialed last, with drop
\* detection armed for it, or a notification that it has yet to see: no late
\* callback of an earlier dial passes for the tunnel, and no drop goes unseen.
TunnelIsWatched ==
    ik.worker = "monitoring" /\ ik.connected =>
        ik.notify \/ (ik.watched = ik.handle /\ ik.line[ik.handle] = "up")

\* The connector keeps the promise ConnectionManager relies on: every stop is
\* answered and the worker's thread ends.
IkPromise == INSTANCE IConnection WITH
    life <- IF ~ik.dialed THEN "fresh" ELSE IF ik.worker = "off" THEN "over" ELSE "running",
    settled <- ik.worker = "off",
    stopping <- ik.stop
IkImplementsConnector == IkPromise!Spec
=============================================================================
