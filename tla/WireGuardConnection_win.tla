---------------------- MODULE WireGuardConnection_win ----------------------
(***************************************************************************)
(* The WireGuard connector of Windows, one object per attempt.  A worker    *)
(* thread has the helper install and configure a service, starts it through *)
(* the service manager, and waits for the stop event; timers that run as    *)
(* APCs in that wait look for a service that has died and a stale handshake *)
(* (.../connectors/wireguard/wireguardconnection_win.cpp).                  *)
(***************************************************************************)
EXTENDS Naturals

CONSTANT MaxServiceStarts   \* bound on the starts within startupDeadline (15 s)

ASSUME WwAssumption == MaxServiceStarts \in Nat

VARIABLE ww

WwType ==
    [dialed : BOOLEAN,      \* startConnect() was called
     stop : BOOLEAN,        \* stopThreadEvent_ is signalled
     worker : {"off", "installing", "configuring", "starting", "started", "waiting",
               "stopping"},
     starts : 0..MaxServiceStarts,  \* starts that are to be repeated
     service : {"none", "installed", "running"},
     kept : BOOLEAN,        \* history: the helper failed to stop the service
     dns : BOOLEAN,         \* the DNS leak protection is on
     connected : BOOLEAN]   \* connectedSignalEmited_

WwInit ==
    ww = [dialed |-> FALSE, stop |-> FALSE, worker |-> "off", starts |-> 0,
          service |-> "none", kept |-> FALSE, dns |-> FALSE, connected |-> FALSE]

-----------------------------------------------------------------------------
(* The engine's thread.                                                     *)

WwStartConnect ==
    /\ ~ww.dialed
    /\ ww' = [ww EXCEPT !.dialed = TRUE, !.worker = "installing"]

\* Without a worker disconnected() is the answer, and nothing changes.
WwStartDisconnect ==
    /\ ww.worker # "off"
    /\ ww' = [ww EXCEPT !.stop = TRUE]

-----------------------------------------------------------------------------
(* The worker's thread: run().                                              *)

\* helper_->stopWireGuard(), and the end of run() with its signals.
StopWireGuard(s) ==
    {[s EXCEPT !.worker = "off", !.service = "none"],
     [s EXCEPT !.worker = "off", !.kept = TRUE]}

Installs ==
    /\ ww.worker = "installing"
    /\ ww' \in {[ww EXCEPT !.worker = "configuring", !.service = "installed"],
                [ww EXCEPT !.worker = "off"]}

Configures ==
    /\ ww.worker = "configuring"
    /\ ww' \in {[ww EXCEPT !.worker = "starting"]} \cup StopWireGuard(ww)

\* startService()
ServiceStarts ==
    /\ ww.worker = "starting" /\ ~ww.stop
    /\ ww' = [ww EXCEPT !.worker = "started", !.service = "running", !.dns = TRUE]

\* The network settings failed: once more after a second.
ServiceStartsAgain ==
    /\ ww.worker = "starting" /\ ~ww.stop /\ ww.starts < MaxServiceStarts
    /\ ww' = [ww EXCEPT !.starts = @ + 1]

\* A stop, another failure, or the deadline.
ServiceNotStarted == ww.worker = "starting" /\ ww' \in StopWireGuard(ww)

\* The timers are made, or one of them is not.
TimersMade ==
    /\ ww.worker = "started"
    /\ \E worker \in {"waiting", "stopping"} : ww' = [ww EXCEPT !.worker = worker]

StopEventSeen ==
    /\ ww.worker = "waiting" /\ ww.stop
    /\ ww' = [ww EXCEPT !.worker = "stopping"]

\* stopService(), which may fail, stopWireGuard() and disableDnsLeaksProtection().
Stops ==
    /\ ww.worker = "stopping"
    /\ \E service \in {"installed", ww.service} :
           ww' \in StopWireGuard([ww EXCEPT !.service = service, !.dns = FALSE])

(* The worker's thread: the timers' procedures.                             *)

\* The log or the statistics show the tunnel up, the last ones after the stop too.
OnTunnelConnected ==
    /\ ww.worker \in {"started", "waiting", "stopping"} /\ ~ww.connected
    /\ ww' = [ww EXCEPT !.connected = TRUE]

\* Mutant: a service that has stopped is reported, and the wait goes on.
OnCheckServiceRunningOnly ==
    /\ ww.worker = "waiting" /\ ww.service # "running"
    /\ UNCHANGED ww

OnCheckServiceRunning ==
    /\ ww.worker = "waiting" /\ ww.service # "running"
    /\ ww' = [ww EXCEPT !.stop = TRUE]

\* The service manager cannot be asked, the handshake is stale, or the
\* handshake fails without Internet.
GivenUp ==
    /\ ww.worker \in {"started", "waiting"}
    /\ ww' = [ww EXCEPT !.stop = TRUE]

\* External: the service stops.
ServiceDies == ww.service = "running" /\ ww' = [ww EXCEPT !.service = "installed"]

-----------------------------------------------------------------------------
WwRun ==
    \/ Installs \/ Configures
    \/ ServiceStarts \/ ServiceStartsAgain \/ ServiceNotStarted
    \/ TimersMade \/ StopEventSeen \/ Stops

WwNext ==
    \/ WwStartConnect \/ WwStartDisconnect
    \/ WwRun \/ OnTunnelConnected \/ OnCheckServiceRunning \/ GivenUp
    \/ ServiceDies

\* The worker's thread runs, and so does the timer that checks the service.
WwFairness == WF_ww(WwRun) /\ WF_ww(OnCheckServiceRunning)

WwSpec == WwInit /\ [][WwNext]_ww /\ WwFairness

-----------------------------------------------------------------------------
\* Every field keeps its type.
WwTypeOK == ww \in WwType

\* Whatever ends the worker, the DNS protection is lifted, and the service is
\* gone unless the helper failed to stop it.
ServiceIsRemoved == ww.worker = "off" => ~ww.dns /\ (ww.service = "none" \/ ww.kept)

\* A tunnel whose service has died does not stay a connected one.
DeadServiceEnds == ww.worker = "waiting" /\ ww.service # "running" ~> ww.worker = "off"

\* The connector keeps the promise ConnectionManager relies on: every stop is
\* answered and the worker's thread ends.
WwPromise == INSTANCE IConnection WITH
    life <- IF ~ww.dialed THEN "fresh" ELSE IF ww.worker = "off" THEN "over" ELSE "running",
    settled <- ww.worker = "off",
    stopping <- ww.stop
WwImplementsConnector == WwPromise!Spec
=============================================================================
