------------------------- MODULE OpenVPNConnection -------------------------
(***************************************************************************)
(* The OpenVPN connector, one object per attempt (Linux build).  The        *)
(* engine's thread starts and stops it and owns the kill timer; a worker    *)
(* thread launches the openvpn process through the helper, dials its        *)
(* management socket and reads lines from it                                *)
(* (.../connectors/openvpn/openvpnconnection.cpp).                          *)
(***************************************************************************)
EXTENDS Naturals

CONSTANTS
    LaunchRetries,  \* launches of openvpn after the first one that failed
    SlowHelper      \* one helper call may outlast the kill timer (10 s)

ASSUME OpenVPNAssumption == LaunchRetries \in Nat /\ SlowHelper \in BOOLEAN

VARIABLE ov

OvType ==
    [dialed : BOOLEAN,      \* startConnect() was called
     status : {"disconnected", "connecting", "socket", "connected"},
     stop : BOOLEAN,        \* bStopThread_
     timer : BOOLEAN,       \* killControllerTimer_ is active
     timerStop : BOOLEAN,   \* a queued stop of the timer
     posted : BOOLEAN,      \* funcDisconnect() is posted to the worker
     worker : {"off", "launching", "dialling", "accepted", "backoff", "reading", "idle"},
     retries : 0..LaunchRetries,
     accept : BOOLEAN,      \* isAcceptSigTermCommand_
     need : BOOLEAN,        \* bNeedSendSigTerm
     sent : BOOLEAN,        \* bSigTermSent
     prompt : {"none", "open", "answered"},  \* userInputRequired() and its answer
     process : BOOLEAN,     \* openvpn runs
     gaveUp : BOOLEAN]      \* history: the socket was not reached within 20 s

OvInit ==
    ov = [dialed |-> FALSE, status |-> "disconnected", stop |-> FALSE, timer |-> FALSE,
          timerStop |-> FALSE, posted |-> FALSE, worker |-> "off", retries |-> 0,
          accept |-> FALSE, need |-> FALSE, sent |-> FALSE, prompt |-> "none",
          process |-> FALSE, gaveUp |-> FALSE]

-----------------------------------------------------------------------------
(* Shared steps of the handlers.                                            *)

\* setCurrentStateAndEmitDisconnected(): the timer belongs to the engine's
\* thread, so its stop is queued; a settled connector says nothing again.
EmitDisconnected(s) ==
    IF s.status = "disconnected" THEN s
    ELSE [s EXCEPT !.status = "disconnected", !.timerStop = TRUE]

\* setCurrentStateAndEmitError(): settles without disconnected().
EmitError(s) == [s EXCEPT !.status = "disconnected"]

\* funcDisconnect()
FuncDisconnect(s) ==
    IF s.sent \/ s.status \notin {"socket", "connected"} THEN s
    ELSE IF s.accept THEN [s EXCEPT !.sent = TRUE]
    ELSE [s EXCEPT !.need = TRUE]

\* The end of checkErrorAndContinue(): a SIGTERM that was held back.
SendHeldBack(s) ==
    IF s.need /\ s.accept THEN [s EXCEPT !.sent = TRUE] ELSE s

Idle(s) == [s EXCEPT !.worker = "idle"]

-----------------------------------------------------------------------------
(* The engine's thread.                                                     *)

OvStartConnect ==
    /\ ~ov.dialed
    /\ ov' = [ov EXCEPT !.dialed = TRUE, !.status = "connecting", !.worker = "launching"]

\* Mutant: the timer guards only a connector that has reached the socket.
OvStartDisconnectArmingLate ==
    /\ ov.status # "disconnected"
    /\ ov' = [ov EXCEPT !.timer = @ \/ ov.status \in {"socket", "connected"},
                        !.stop = TRUE, !.posted = TRUE]

\* A settled connector answers at once and changes nothing.
OvStartDisconnect ==
    /\ ov.status # "disconnected"
    /\ ov' = [ov EXCEPT !.timer = TRUE, !.stop = TRUE, !.posted = TRUE]

OvTimerStopRuns ==
    /\ ov.timerStop
    /\ ov' = [ov EXCEPT !.timer = FALSE, !.timerStop = FALSE]

OnKillControllerTimer ==
    /\ ov.timer
    /\ ov.worker = "launching" => SlowHelper
    /\ ov' = EmitDisconnected([ov EXCEPT !.timer = FALSE, !.process = FALSE])

\* The answer to a question of the process goes to the worker.
ContinueWithUserInput ==
    /\ ov.prompt = "open"
    /\ ov' = [ov EXCEPT !.prompt = "answered"]

-----------------------------------------------------------------------------
(* The worker's thread.                                                     *)

LaunchSucceeds ==
    /\ ov.worker = "launching"
    /\ ov' = [ov EXCEPT !.process = TRUE, !.worker = "dialling"]

\* Mutant: one launch too many.
LaunchFailsCountingLate ==
    /\ ov.worker = "launching"
    /\ ov' = IF ov.retries > LaunchRetries THEN Idle(EmitError(ov))
             ELSE IF ov.stop THEN Idle(EmitDisconnected(ov))
             ELSE [ov EXCEPT !.retries = @ + 1]

\* The last failure is an error even when a stop waits for disconnected().
LaunchFails ==
    /\ ov.worker = "launching"
    /\ ov' = IF ov.retries >= LaunchRetries THEN Idle(EmitError(ov))
             ELSE IF ov.stop THEN Idle(EmitDisconnected(ov))
             ELSE [ov EXCEPT !.retries = @ + 1]

\* The process accepts the connection; the handler has yet to run.
SocketAccepts ==
    /\ ov.worker = "dialling" /\ ov.process
    /\ ov' = [ov EXCEPT !.worker = "accepted"]

\* Mutant: the stop that was asked for during the dial is forgotten.
DialSucceedsForgettingStop ==
    /\ ov.worker = "accepted"
    /\ ov' = [ov EXCEPT !.worker = "reading", !.status = "socket"]

\* funcConnectToOpenVPN() without an error.
DialSucceeds ==
    /\ ov.worker = "accepted"
    /\ LET s == [ov EXCEPT !.worker = "reading", !.status = "socket"]
       IN  ov' = IF ov.stop THEN FuncDisconnect(s) ELSE s

\* funcConnectToOpenVPN() with an error: wait, or give up after 20 s.
DialFails ==
    /\ ov.worker = "dialling"
    /\ \/ ov' = [ov EXCEPT !.worker = "backoff"]
       \/ ov' = Idle(EmitError([ov EXCEPT !.gaveUp = TRUE]))

\* A stopped connector leaves the process to the kill timer.
RetryDial ==
    /\ ov.worker = "backoff"
    /\ ov' = [ov EXCEPT !.worker = IF ov.stop THEN "idle" ELSE "dialling"]

FuncDisconnectRuns ==
    /\ ov.posted /\ ov.worker \notin {"off", "launching"}
    /\ ov' = FuncDisconnect([ov EXCEPT !.posted = FALSE])

\* continueWith...Impl(): the write fails when the process is gone.
AnswerRuns ==
    /\ ov.prompt = "answered" /\ ov.worker \notin {"off", "launching"}
    /\ LET s == [ov EXCEPT !.prompt = "none"]
       IN  ov' = SendHeldBack(IF ov.process THEN s ELSE EmitDisconnected(s))

(* handleRead(): lines that were read before the process died still come.   *)

Line(s) ==
    /\ ov.worker = "reading"
    /\ ov' = SendHeldBack(s)

StateNotificationOn == Line([ov EXCEPT !.accept = TRUE])

\* CONNECTED,SUCCESS and CONNECTED,ERROR
ConnectedLine == Line([ov EXCEPT !.status = "connected"])

ReconnectingLine == Line([ov EXCEPT !.status = "socket", !.accept = FALSE])

\* Failed authentication, wrong key password, missing adapter: an error()
\* that does not settle, and a SIGTERM at once.
FatalLine == Line([ov EXCEPT !.sent = TRUE])

PromptLine == ov.prompt = "none" /\ Line([ov EXCEPT !.prompt = "open"])

\* The local stunnel or wstunnel refuses: openvpn is killed at once.
ProxyRefused ==
    /\ ov.worker = "reading"
    /\ ov' = Idle(EmitDisconnected([ov EXCEPT !.process = FALSE, !.timerStop = TRUE]))

\* A reply cannot be written; no further line is asked for.
WriteFails ==
    /\ ov.worker = "reading" /\ ~ov.process
    /\ ov' = Idle(SendHeldBack(EmitDisconnected(ov)))

ReadFails ==
    /\ ov.worker = "reading" /\ ~ov.process
    /\ ov' = Idle(EmitDisconnected(ov))

\* io_context::run() returns once nothing is posted or awaited.
RunReturns ==
    /\ ov.worker = "idle" /\ ~ov.posted /\ ov.prompt # "answered"
    /\ ov' = [ov EXCEPT !.worker = "off"]

\* External: openvpn ends, on its own or obeying SIGTERM.
ProcessExits == ov.process /\ ov' = [ov EXCEPT !.process = FALSE]

-----------------------------------------------------------------------------
OvEngineStep ==
    \/ OvStartConnect \/ OvStartDisconnect \/ OvTimerStopRuns
    \/ OnKillControllerTimer \/ ContinueWithUserInput

OvWorkerStep ==
    \/ LaunchSucceeds \/ LaunchFails
    \/ DialSucceeds \/ DialFails \/ RetryDial
    \/ FuncDisconnectRuns \/ AnswerRuns
    \/ StateNotificationOn \/ ConnectedLine \/ ReconnectingLine
    \/ FatalLine \/ PromptLine \/ ProxyRefused \/ WriteFails \/ ReadFails
    \/ RunReturns

OvNext == OvEngineStep \/ OvWorkerStep \/ SocketAccepts \/ ProcessExits

\* The timer fires, and the worker's thread runs what it has to run.
OvFairness ==
    /\ WF_ov(OnKillControllerTimer)
    /\ WF_ov(LaunchSucceeds \/ LaunchFails)
    /\ WF_ov(DialSucceeds \/ DialFails) /\ WF_ov(RetryDial)
    /\ WF_ov(FuncDisconnectRuns) /\ WF_ov(AnswerRuns)
    /\ WF_ov(WriteFails \/ ReadFails) /\ WF_ov(RunReturns)

OvSpec == OvInit /\ [][OvNext]_ov /\ OvFairness

-----------------------------------------------------------------------------
\* Every field keeps its type, and openvpn is launched at most once more than
\* the retries allow.
OvTypeOK == ov \in OvType

\* A stop reaches openvpn whatever the worker was doing when it came: once the
\* process takes commands and nothing is posted any more, SIGTERM was sent.
StopReachesProcess ==
    ov.stop /\ ov.worker = "reading" /\ ov.process /\ ov.accept /\ ~ov.posted => ov.sent

\* The worker never leaves an openvpn process behind it that nobody will end:
\* the kill timer is armed and stays armed. The exception is the 20 s limit on
\* the management socket, whose error leaves the process alone.
ProcessIsGuarded ==
    ov.dialed /\ ov.worker = "off" /\ ov.process =>
        ov.gaveUp \/ (ov.timer /\ ~ov.timerStop)

\* The connector keeps the promise ConnectionManager relies on: every stop is
\* answered and the worker's thread ends, so the destructor's wait() returns.
OvPromise == INSTANCE IConnection WITH
    life <- IF ~ov.dialed THEN "fresh" ELSE IF ov.worker = "off" THEN "over" ELSE "running",
    settled <- ov.status = "disconnected",
    stopping <- ov.stop
OvImplementsConnector == OvPromise!Spec
=============================================================================
