------------------------ MODULE WireGuardConnection ------------------------
(***************************************************************************)
(* The WireGuard connector of Linux and macOS, one object per attempt: a    *)
(* worker thread starts the WireGuard daemon through the helper, polls its  *)
(* status and stops it; the engine's thread asks for the stop and owns the  *)
(* kill timer                                                               *)
(* (.../connectors/wireguard/wireguardconnection_posix.cpp).                *)
(***************************************************************************)
EXTENDS Naturals

CONSTANTS
    StartRetries,   \* starts of the daemon after the first one that failed
    StopRetries,    \* the same for stops
    HelperFailures  \* how often in a row the helper fails to stop the daemon

ASSUME WireGuardAssumption ==
    StartRetries \in Nat /\ StopRetries \in Nat /\ HelperFailures \in Nat

VARIABLE wg

WgType ==
    [dialed : BOOLEAN,      \* startConnect() was called
     status : {"disconnected", "connecting", "connected"},
     stop : BOOLEAN,        \* do_stop_thread_
     timer : BOOLEAN,       \* kill_process_timer_ is active
     timerStop : BOOLEAN,   \* a queued stop of the timer
     worker : {"off", "starting", "polling", "stopping"},
     retries : Nat,
     started : BOOLEAN,     \* isStarted_
     daemon : BOOLEAN,      \* the daemon runs
     configured : BOOLEAN,  \* is_configured
     handshaken : BOOLEAN]  \* is_connected

WgInit ==
    wg = [dialed |-> FALSE, status |-> "disconnected", stop |-> FALSE, timer |-> FALSE,
          timerStop |-> FALSE, worker |-> "off", retries |-> 0, started |-> FALSE,
          daemon |-> FALSE, configured |-> FALSE, handshaken |-> FALSE]

\* setError(): settles without disconnected() and stops the worker.
SetError(s) == [s EXCEPT !.status = "disconnected", !.stop = TRUE]

\* disconnect(): the worker begins to stop the daemon.
BeginStop(s) == [s EXCEPT !.worker = "stopping", !.retries = 0]

-----------------------------------------------------------------------------
(* The engine's thread.                                                     *)

WgStartConnect ==
    /\ ~wg.dialed
    /\ wg' = [wg EXCEPT !.dialed = TRUE, !.status = "connecting", !.worker = "starting"]

\* A settled connector answers at once and changes nothing.
WgStartDisconnect ==
    /\ wg.status # "disconnected"
    /\ wg' = [wg EXCEPT !.timer = TRUE, !.stop = TRUE]

WgTimerStopRuns ==
    /\ wg.timerStop
    /\ wg' = [wg EXCEPT !.timer = FALSE, !.timerStop = FALSE]

\* The timer kills the daemon and says nothing.
OnProcessKillTimeout ==
    /\ wg.timer
    /\ wg' = [wg EXCEPT !.timer = FALSE, !.daemon = FALSE]

-----------------------------------------------------------------------------
(* The worker's thread.                                                     *)

DaemonStarts ==
    /\ wg.worker = "starting"
    /\ wg' = [wg EXCEPT !.worker = "polling", !.started = TRUE, !.daemon = TRUE]

DaemonFails ==
    /\ wg.worker = "starting"
    /\ wg' = IF wg.retries >= StartRetries THEN SetError([wg EXCEPT !.worker = "polling"])
             ELSE [wg EXCEPT !.retries = @ + 1]

LoopSeesStop ==
    /\ wg.worker = "polling" /\ wg.stop
    /\ wg' = BeginStop(wg)

\* Mutant: the loop does not look at the state that setError() has left.
PollsAnyway == wg.worker = "polling"

\* One turn of the loop in run() that asks the helper for the daemon's status.
Polls == wg.worker = "polling" /\ ~wg.stop /\ wg.status # "disconnected"

\* getStatus() fails.
StatusFails ==
    /\ Polls
    /\ wg' = BeginStop(wg)

StatusFailure ==
    /\ Polls
    /\ wg' = [wg EXCEPT !.stop = TRUE]

StatusListening ==
    /\ Polls /\ wg.daemon /\ ~wg.configured
    /\ LET s == [wg EXCEPT !.configured = TRUE]
       IN  wg' \in {s, SetError(s)}

StatusActive ==
    /\ Polls /\ wg.daemon /\ wg.configured /\ ~wg.handshaken
    /\ wg' = [wg EXCEPT !.handshaken = TRUE, !.status = "connected"]

\* stopWireGuard() succeeds, or has nothing to stop; disconnected() follows.
StopSucceeds ==
    /\ wg.worker = "stopping"
    /\ wg' = [wg EXCEPT !.worker = "off", !.started = FALSE,
                        !.daemon = @ /\ ~wg.started,
                        !.status = "disconnected", !.timerStop = TRUE]

\* After the last retry the worker ends without a signal.
StopFails ==
    /\ wg.worker = "stopping" /\ wg.started /\ wg.retries < HelperFailures
    /\ wg' = IF wg.retries >= StopRetries THEN [wg EXCEPT !.worker = "off"]
             ELSE [wg EXCEPT !.retries = @ + 1]

\* External: the daemon dies.
DaemonDies == wg.daemon /\ wg' = [wg EXCEPT !.daemon = FALSE]

-----------------------------------------------------------------------------
WgNext ==
    \/ WgStartConnect \/ WgStartDisconnect \/ WgTimerStopRuns \/ OnProcessKillTimeout
    \/ DaemonStarts \/ DaemonFails \/ LoopSeesStop
    \/ StatusFails \/ StatusFailure \/ StatusListening \/ StatusActive
    \/ StopSucceeds \/ StopFails
    \/ DaemonDies

WgFairness ==
    /\ WF_wg(DaemonStarts \/ DaemonFails)
    /\ WF_wg(LoopSeesStop)
    /\ WF_wg(StopSucceeds \/ StopFails)

WgSpec == WgInit /\ [][WgNext]_wg /\ WgFairness

-----------------------------------------------------------------------------
\* Every field keeps its type, and no helper call is retried beyond its limit.
WgTypeOK ==
    /\ wg \in WgType
    /\ wg.worker = "starting" => wg.retries <= StartRetries
    /\ wg.worker = "stopping" => wg.retries <= StopRetries

\* Whatever ends the worker's thread, it has stopped the daemon it started.
DaemonIsStopped == wg.worker = "off" => ~wg.daemon

\* Once an attempt is settled it stays settled: a late status never brings it
\* back, so no connected() follows an error() or disconnected().
StaysSettled == [][wg.dialed /\ wg.status = "disconnected" => wg'.status = "disconnected"]_wg

\* The connector keeps the promise ConnectionManager relies on: every stop is
\* answered and the worker's thread ends. Its own kill timer has no part in it.
WgPromise == INSTANCE IConnection WITH
    life <- IF ~wg.dialed THEN "fresh" ELSE IF wg.worker = "off" THEN "over" ELSE "running",
    settled <- wg.status = "disconnected",
    stopping <- wg.stop
WgImplementsConnector == WgPromise!Spec
=============================================================================
