-------------------------- MODULE ConnectorsProofs --------------------------
(***************************************************************************)
(* The connectors of Windows end clean, watch the tunnel they report and    *)
(* make only steps of IConnection; and what holds of each connector by      *)
(* itself holds of the attempt that makes one of them.                      *)
(***************************************************************************)
EXTENDS Connectors, OpenVPNConnection, WireGuardConnection, GetWireGuardConfig,
        SequenceTheorems, TLAPS

(***************************************************************************)
(* The OpenVPN connector, for every number of launches: a stop reaches      *)
(* openvpn, no process is left unguarded when the helper answers in time,   *)
(* and every step is a step of the connector of IConnection.                *)
(***************************************************************************)
Before == {"launching", "dialling", "accepted", "backoff"}  \* reading has not begun

-----------------------------------------------------------------------------
(* What the shared steps change.                                            *)

\* The shared steps write only the status, the queued stop of the timer and the
\* two flags of SIGTERM.
Agree(s, t) ==
    /\ t.dialed = s.dialed /\ t.stop = s.stop /\ t.timer = s.timer /\ t.posted = s.posted
    /\ t.worker = s.worker /\ t.retries = s.retries /\ t.accept = s.accept
    /\ t.prompt = s.prompt /\ t.process = s.process /\ t.gaveUp = s.gaveUp

LEMMA EmitDisconnectedFields ==
    ASSUME NEW s \in OvType
    PROVE  LET t == EmitDisconnected(s)
           IN  /\ t \in OvType /\ Agree(s, t)
               /\ t.status = "disconnected" /\ t.sent = s.sent /\ t.need = s.need
<1>1. CASE s.status = "disconnected"
  BY <1>1 DEF EmitDisconnected, Agree
<1>2. CASE s.status # "disconnected"
  <2>1. EmitDisconnected(s) = [s EXCEPT !.status = "disconnected", !.timerStop = TRUE]
    BY <1>2 DEF EmitDisconnected
  <2> QED BY <2>1 DEF OvType, Agree
<1> QED BY <1>1, <1>2

LEMMA FuncDisconnectFields ==
    ASSUME NEW s \in OvType
    PROVE  LET t == FuncDisconnect(s)
           IN  /\ t \in OvType /\ Agree(s, t)
               /\ t.status = s.status /\ t.timerStop = s.timerStop
               /\ s.status \in {"socket", "connected"} => t.sent \/ (t.need /\ ~t.accept)
<1>1. CASE s.sent \/ s.status \notin {"socket", "connected"}
  BY <1>1 DEF FuncDisconnect, Agree
<1>2. CASE ~(s.sent \/ s.status \notin {"socket", "connected"}) /\ s.accept
  <2>1. FuncDisconnect(s) = [s EXCEPT !.sent = TRUE]
    BY <1>2 DEF FuncDisconnect
  <2> QED BY <2>1 DEF OvType, Agree
<1>3. CASE ~(s.sent \/ s.status \notin {"socket", "connected"}) /\ ~s.accept
  <2>1. FuncDisconnect(s) = [s EXCEPT !.need = TRUE]
    BY <1>3 DEF FuncDisconnect
  <2> QED BY <2>1, <1>3 DEF OvType, Agree
<1> QED BY <1>1, <1>2, <1>3

LEMMA SendHeldBackFields ==
    ASSUME NEW s \in OvType
    PROVE  LET t == SendHeldBack(s)
           IN  /\ t \in OvType /\ Agree(s, t)
               /\ t.status = s.status /\ t.timerStop = s.timerStop /\ t.need = s.need
               /\ s.sent \/ (s.need /\ s.accept) => t.sent
<1>1. CASE s.need /\ s.accept
  <2>1. SendHeldBack(s) = [s EXCEPT !.sent = TRUE]
    BY <1>1 DEF SendHeldBack
  <2> QED BY <2>1 DEF OvType, Agree
<1>2. CASE ~(s.need /\ s.accept)
  <2>1. SendHeldBack(s) = s
    BY <1>2 DEF SendHeldBack
  <2> QED BY <2>1, <1>2 DEF Agree
<1> QED BY <1>1, <1>2

LEMMA IdleFields ==
    ASSUME NEW s \in OvType
    PROVE  LET t == Idle(s)
           IN  /\ t \in OvType /\ t.worker = "idle"
               /\ t.dialed = s.dialed /\ t.stop = s.stop /\ t.status = s.status
               /\ t.timer = s.timer /\ t.timerStop = s.timerStop
               /\ t.process = s.process /\ t.gaveUp = s.gaveUp /\ t.prompt = s.prompt
BY DEF Idle, OvType

-----------------------------------------------------------------------------
\* Before the dial nothing has happened.
Undialled ==
    ~ov.dialed => /\ ov.worker = "off" /\ ov.status = "disconnected"
                  /\ ov.retries = 0 /\ ~ov.process /\ ~ov.stop

\* While a live process is read the connector is not settled, and a stop that
\* the worker has seen is with the process or held back.
Reading ==
    ov.worker = "reading" /\ ov.process =>
        /\ ov.status \in {"socket", "connected"}
        /\ ov.stop /\ ~ov.posted => ov.sent \/ (ov.need /\ ~ov.accept)

\* The worker has nothing to wait for only if it was stopped or has settled.
Ending == ov.dialed /\ ov.worker \in {"idle", "off"} => ov.stop \/ ov.status = "disconnected"

OInv == OvTypeOK /\ Undialled /\ Reading /\ Ending

LEMMA OvStarts == OvInit => OInv
<1> SUFFICES ASSUME OvInit PROVE OInv OBVIOUS
<1>1. ov \in OvType
  BY OpenVPNAssumption DEF OvInit, OvType
<1>2. /\ ov.dialed = FALSE /\ ov.worker = "off" /\ ov.status = "disconnected"
      /\ ov.retries = 0 /\ ov.process = FALSE /\ ov.stop = FALSE
  BY DEF OvInit
<1> QED BY <1>1, <1>2 DEF OInv, OvTypeOK, Undialled, Reading, Ending

LEMMA EngineKeepsOInv == OInv /\ OvEngineStep => OInv'
<1> SUFFICES ASSUME OInv, OvEngineStep PROVE OInv' OBVIOUS
<1> USE DEF OInv, OvTypeOK, OvType, Undialled, Reading, Ending
<1>0. LaunchRetries \in Nat /\ 0 <= LaunchRetries
  BY OpenVPNAssumption
<1>1. CASE OvStartConnect
  BY <1>0, <1>1 DEF OvStartConnect
<1>2. CASE OvStartDisconnect
  BY <1>2 DEF OvStartDisconnect
<1>3. CASE OvTimerStopRuns
  BY <1>3 DEF OvTimerStopRuns
<1>4. CASE OnKillControllerTimer
  <2> DEFINE s == [ov EXCEPT !.timer = FALSE, !.process = FALSE]
  <2>1. s \in OvType /\ ov' = EmitDisconnected(s)
    BY <1>4 DEF OnKillControllerTimer
  <2>2. ov' \in OvType /\ Agree(s, ov') /\ ov'.status = "disconnected"
    BY <2>1, EmitDisconnectedFields
  <2>3. /\ s.worker = ov.worker /\ ~s.process /\ s.dialed = ov.dialed
        /\ s.stop = ov.stop /\ s.retries = ov.retries
    OBVIOUS
  <2> HIDE DEF s
  <2> QED BY <2>2, <2>3 DEF Agree
<1>5. CASE ContinueWithUserInput
  BY <1>5 DEF ContinueWithUserInput
<1> QED BY <1>1, <1>2, <1>3, <1>4, <1>5 DEF OvEngineStep

\* A line of the management socket keeps the invariant when the worker goes on
\* reading and a stop that was sent or held back stays so.
LEMMA LineKeepsOInv ==
    ASSUME OInv, NEW s \in OvType, Line(s),
           s.worker = ov.worker, s.process = ov.process, s.stop = ov.stop,
           s.posted = ov.posted, s.dialed = ov.dialed, s.need = ov.need,
           ov.process => s.status \in {"socket", "connected"}, ov.sent => s.sent
    PROVE  OInv'
<1>1. ov' = SendHeldBack(s) /\ ov.worker = "reading"
  BY DEF Line
<1>2. /\ ov' \in OvType /\ Agree(s, ov') /\ ov'.status = s.status /\ ov'.need = s.need
      /\ s.sent \/ (s.need /\ s.accept) => ov'.sent
  BY <1>1, SendHeldBackFields
<1>3. ov.dialed /\ ov'.worker = "reading"
  BY <1>1, <1>2 DEF OInv, OvTypeOK, OvType, Undialled, Agree
<1> QED BY <1>1, <1>2, <1>3 DEF OInv, OvTypeOK, OvType, Undialled, Reading, Ending, Agree

LEMMA WorkerKeepsOInv == OInv /\ OvWorkerStep => OInv'
<1> SUFFICES ASSUME OInv, OvWorkerStep PROVE OInv' OBVIOUS
<1>0. ov \in OvType /\ LaunchRetries \in Nat
  BY OpenVPNAssumption DEF OInv, OvTypeOK
<1>1. CASE LaunchSucceeds
  BY <1>1 DEF LaunchSucceeds, OInv, OvTypeOK, OvType, Undialled, Reading, Ending
\* Becoming idle ends the reading; the attempt was stopped or is settled.
<1>a. ASSUME NEW s \in OvType, ov' = Idle(s), s.dialed = ov.dialed, ov.worker # "off",
             s.stop \/ s.status = "disconnected"
      PROVE  OInv'
  <2>1. /\ ov' \in OvType /\ ov'.worker = "idle" /\ ov'.dialed = s.dialed
        /\ ov'.stop = s.stop /\ ov'.status = s.status
    BY <1>a, IdleFields
  <2>2. ov.dialed
    BY <1>a DEF OInv, Undialled, OvTypeOK, OvType
  <2> QED BY <1>a, <2>1, <2>2 DEF OInv, OvTypeOK, Undialled, Reading, Ending
<1>2. CASE LaunchFails
  <2>1. CASE ov.retries >= LaunchRetries
    <3>1. EmitError(ov) \in OvType /\ EmitError(ov).status = "disconnected"
          /\ EmitError(ov).dialed = ov.dialed
      BY <1>0 DEF EmitError, OvType
    <3>2. ov' = Idle(EmitError(ov)) /\ ov.worker = "launching"
      BY <1>2, <2>1 DEF LaunchFails
    <3> QED BY <3>1, <3>2, <1>a
  <2>2. CASE ~(ov.retries >= LaunchRetries) /\ ov.stop
    <3>1. ov' = Idle(EmitDisconnected(ov)) /\ ov.worker = "launching"
      BY <1>2, <2>2 DEF LaunchFails
    <3> QED BY <1>0, <3>1, <1>a, EmitDisconnectedFields DEF Agree
  <2>3. CASE ~(ov.retries >= LaunchRetries) /\ ~ov.stop
    <3>1. ov' = [ov EXCEPT !.retries = @ + 1] /\ ov.worker = "launching"
      BY <1>2, <2>3 DEF LaunchFails
    <3>2. ov.retries + 1 \in 0..LaunchRetries
      BY <2>3, <1>0 DEF OvType
    <3> QED BY <3>1, <3>2 DEF OInv, OvTypeOK, OvType, Undialled, Reading, Ending
  <2> QED BY <2>1, <2>2, <2>3
<1>3. CASE DialSucceeds
  <2> DEFINE s == [ov EXCEPT !.worker = "reading", !.status = "socket"]
  <2>1. s \in OvType /\ s.status = "socket" /\ s.worker = "reading" /\ s.dialed = ov.dialed
        /\ s.stop = ov.stop
    BY <1>0 DEF OvType
  <2>2. ov.dialed
    BY <1>3 DEF DialSucceeds, OInv, Undialled, OvTypeOK, OvType
  <2>3. ov.stop => ov' = FuncDisconnect(s)
    BY <1>3 DEF DialSucceeds
  <2>4. ~ov.stop => ov' = s
    BY <1>3 DEF DialSucceeds
  <2> HIDE DEF s
  <2>5. CASE ov.stop
    BY <2>1, <2>2, <2>3, <2>5, FuncDisconnectFields
       DEF OInv, OvTypeOK, Undialled, Reading, Ending, Agree
  <2>6. CASE ~ov.stop
    BY <2>1, <2>2, <2>4, <2>6 DEF OInv, OvTypeOK, Undialled, Reading, Ending
  <2> QED BY <2>5, <2>6
<1>4. CASE DialFails
  <2>1. ov.worker = "dialling"
    BY <1>4 DEF DialFails
  <2>2. CASE ov' = [ov EXCEPT !.worker = "backoff"]
    BY <2>1, <2>2 DEF OInv, OvTypeOK, OvType, Undialled, Reading, Ending
  <2>3. CASE ov' = Idle(EmitError([ov EXCEPT !.gaveUp = TRUE]))
    <3> DEFINE s == EmitError([ov EXCEPT !.gaveUp = TRUE])
    <3>1. s \in OvType /\ s.status = "disconnected" /\ s.dialed = ov.dialed
      BY <1>0 DEF EmitError, OvType
    <3> HIDE DEF s
    <3> QED BY <2>1, <2>3, <3>1, <1>a DEF s
  <2> QED BY <1>4, <2>2, <2>3 DEF DialFails
<1>5. CASE RetryDial
  BY <1>5 DEF RetryDial, OInv, OvTypeOK, OvType, Undialled, Reading, Ending
<1>6. CASE FuncDisconnectRuns
  <2> DEFINE s == [ov EXCEPT !.posted = FALSE]
  <2>1. s \in OvType /\ s.status = ov.status /\ s.worker = ov.worker /\ s.dialed = ov.dialed
        /\ s.stop = ov.stop /\ s.process = ov.process
    BY <1>0 DEF OvType
  <2>2. ov' = FuncDisconnect(s) /\ ov.dialed
    BY <1>6 DEF FuncDisconnectRuns, OInv, Undialled, OvTypeOK, OvType
  <2> HIDE DEF s
  <2>3. /\ ov' \in OvType /\ Agree(s, ov') /\ ov'.status = s.status
        /\ s.status \in {"socket", "connected"} => ov'.sent \/ (ov'.need /\ ~ov'.accept)
    BY <2>1, <2>2, FuncDisconnectFields
  <2>4. /\ ov'.dialed /\ ov'.worker = ov.worker /\ ov'.status = ov.status
        /\ ov'.stop = ov.stop /\ ov'.process = ov.process
    BY <2>1, <2>2, <2>3 DEF Agree
  <2>5. Undialled' /\ Ending'
    BY <2>2, <2>4 DEF OInv, Undialled, Ending
  <2>6. Reading'
    BY <2>1, <2>3, <2>4 DEF OInv, Reading
  <2> QED BY <2>3, <2>5, <2>6 DEF OInv, OvTypeOK
<1>7. CASE AnswerRuns
  <2> DEFINE s == [ov EXCEPT !.prompt = "none"]
  <2>1. s \in OvType /\ s.status = ov.status /\ s.worker = ov.worker /\ s.dialed = ov.dialed
        /\ s.stop = ov.stop /\ s.process = ov.process /\ s.posted = ov.posted
        /\ s.sent = ov.sent /\ s.need = ov.need /\ s.accept = ov.accept
    BY <1>0 DEF OvType
  <2>2. ov.dialed
    BY <1>7 DEF AnswerRuns, OInv, Undialled, OvTypeOK, OvType
  <2>3. ov.process => ov' = SendHeldBack(s)
    BY <1>7 DEF AnswerRuns
  <2>4. ~ov.process => ov' = SendHeldBack(EmitDisconnected(s))
    BY <1>7 DEF AnswerRuns
  <2> HIDE DEF s
  <2>5. CASE ov.process
    <3>1. /\ ov' \in OvType /\ Agree(s, ov') /\ ov'.status = s.status /\ ov'.need = s.need
          /\ s.sent \/ (s.need /\ s.accept) => ov'.sent
      BY <2>1, <2>3, <2>5, SendHeldBackFields
    <3>2. /\ ov'.dialed /\ ov'.worker = ov.worker /\ ov'.status = ov.status
          /\ ov'.stop = ov.stop /\ ov'.process = ov.process /\ ov'.posted = ov.posted
          /\ ov'.accept = ov.accept
      BY <2>1, <2>2, <3>1 DEF Agree
    <3>3. Undialled' /\ Ending'
      BY <2>2, <3>2 DEF OInv, Undialled, Ending
    <3>4. Reading'
      BY <2>1, <3>1, <3>2 DEF OInv, Reading
    <3> QED BY <3>1, <3>3, <3>4 DEF OInv, OvTypeOK
  <2>6. CASE ~ov.process
    <3> DEFINE t == EmitDisconnected(s)
    <3>1. t \in OvType /\ Agree(s, t) /\ t.status = "disconnected"
      BY <2>1, EmitDisconnectedFields
    <3>2. ov' = SendHeldBack(t)
      BY <2>4, <2>6
    <3> HIDE DEF t
    <3> QED BY <2>1, <2>2, <2>6, <3>1, <3>2, SendHeldBackFields
         DEF OInv, OvTypeOK, Undialled, Reading, Ending, Agree
  <2> QED BY <2>5, <2>6
<1>b. ov.process /\ ov.worker = "reading" => ov.status \in {"socket", "connected"}
  BY DEF OInv, Reading
<1>9. CASE StateNotificationOn
  <2> DEFINE s == [ov EXCEPT !.accept = TRUE]
  <2>1. Line(s) /\ ov.worker = "reading"
    BY <1>9 DEF StateNotificationOn, Line
  <2>2. /\ s \in OvType /\ s.worker = ov.worker /\ s.process = ov.process /\ s.stop = ov.stop
        /\ s.posted = ov.posted /\ s.dialed = ov.dialed /\ s.need = ov.need
        /\ s.status = ov.status /\ s.sent = ov.sent
    BY <1>0 DEF OvType
  <2> HIDE DEF s
  <2> QED BY <1>b, <2>1, <2>2, LineKeepsOInv
<1>10. CASE ConnectedLine
  <2> DEFINE s == [ov EXCEPT !.status = "connected"]
  <2>1. Line(s)
    BY <1>10 DEF ConnectedLine
  <2>2. /\ s \in OvType /\ s.worker = ov.worker /\ s.process = ov.process /\ s.stop = ov.stop
        /\ s.posted = ov.posted /\ s.dialed = ov.dialed /\ s.need = ov.need
        /\ s.status = "connected" /\ s.sent = ov.sent
    BY <1>0 DEF OvType
  <2> HIDE DEF s
  <2> QED BY <2>1, <2>2, LineKeepsOInv
<1>11. CASE ReconnectingLine
  <2> DEFINE s == [ov EXCEPT !.status = "socket", !.accept = FALSE]
  <2>1. Line(s)
    BY <1>11 DEF ReconnectingLine
  <2>2. /\ s \in OvType /\ s.worker = ov.worker /\ s.process = ov.process /\ s.stop = ov.stop
        /\ s.posted = ov.posted /\ s.dialed = ov.dialed /\ s.need = ov.need
        /\ s.status = "socket" /\ s.sent = ov.sent
    BY <1>0 DEF OvType
  <2> HIDE DEF s
  <2> QED BY <2>1, <2>2, LineKeepsOInv
<1>12. CASE FatalLine
  <2> DEFINE s == [ov EXCEPT !.sent = TRUE]
  <2>1. Line(s) /\ ov.worker = "reading"
    BY <1>12 DEF FatalLine, Line
  <2>2. /\ s \in OvType /\ s.worker = ov.worker /\ s.process = ov.process /\ s.stop = ov.stop
        /\ s.posted = ov.posted /\ s.dialed = ov.dialed /\ s.need = ov.need
        /\ s.status = ov.status /\ s.sent = TRUE
    BY <1>0 DEF OvType
  <2> HIDE DEF s
  <2> QED BY <1>b, <2>1, <2>2, LineKeepsOInv
<1>13. CASE PromptLine
  <2> DEFINE s == [ov EXCEPT !.prompt = "open"]
  <2>1. Line(s) /\ ov.worker = "reading"
    BY <1>13 DEF PromptLine, Line
  <2>2. /\ s \in OvType /\ s.worker = ov.worker /\ s.process = ov.process /\ s.stop = ov.stop
        /\ s.posted = ov.posted /\ s.dialed = ov.dialed /\ s.need = ov.need
        /\ s.status = ov.status /\ s.sent = ov.sent
    BY <1>0 DEF OvType
  <2> HIDE DEF s
  <2> QED BY <1>b, <2>1, <2>2, LineKeepsOInv
<1>14. CASE ProxyRefused
  <2> DEFINE s == [ov EXCEPT !.process = FALSE, !.timerStop = TRUE]
  <2>1. ov' = Idle(EmitDisconnected(s)) /\ ov.worker = "reading"
    BY <1>14 DEF ProxyRefused
  <2>2. s \in OvType /\ s.dialed = ov.dialed
    BY <1>0 DEF OvType
  <2> HIDE DEF s
  <2> QED BY <2>1, <2>2, <1>a, EmitDisconnectedFields DEF Agree
<1>15. CASE WriteFails
  <2> DEFINE t == EmitDisconnected(ov)
  <2>1. ov' = Idle(SendHeldBack(t)) /\ ov.worker = "reading"
    BY <1>15 DEF WriteFails
  <2>2. t \in OvType /\ t.dialed = ov.dialed /\ t.status = "disconnected"
    BY <1>0, EmitDisconnectedFields DEF Agree
  <2> HIDE DEF t
  <2> QED BY <2>1, <2>2, <1>a, SendHeldBackFields DEF Agree
<1>16. CASE ReadFails
  <2>1. ov' = Idle(EmitDisconnected(ov)) /\ ov.worker = "reading"
    BY <1>16 DEF ReadFails
  <2> QED BY <1>0, <2>1, <1>a, EmitDisconnectedFields DEF Agree
<1>17. CASE RunReturns
  BY <1>17 DEF RunReturns, OInv, OvTypeOK, OvType, Undialled, Reading, Ending
<1> QED
  BY <1>1, <1>2, <1>3, <1>4, <1>5, <1>6, <1>7, <1>9, <1>10, <1>11, <1>12, <1>13, <1>14, <1>15,
     <1>16, <1>17 DEF OvWorkerStep

LEMMA StepKeepsOInv == OInv /\ [OvNext]_ov => OInv'
<1> SUFFICES ASSUME OInv, [OvNext]_ov PROVE OInv' OBVIOUS
<1>1. CASE OvEngineStep
  BY <1>1, EngineKeepsOInv
<1>2. CASE OvWorkerStep
  BY <1>2, WorkerKeepsOInv
<1>3. CASE SocketAccepts
  BY <1>3 DEF SocketAccepts, OInv, OvTypeOK, OvType, Undialled, Reading, Ending
<1>4. CASE ProcessExits
  BY <1>4 DEF ProcessExits, OInv, OvTypeOK, OvType, Undialled, Reading, Ending
<1>5. CASE UNCHANGED ov
  BY <1>5 DEF OInv, OvTypeOK, Undialled, Reading, Ending
<1> QED BY <1>1, <1>2, <1>3, <1>4, <1>5 DEF OvNext

\* The connector's record keeps its type, whatever the number of launches.
THEOREM OpenVPNTyped == OvSpec => []OvTypeOK
BY OvStarts, StepKeepsOInv, PTL DEF OvSpec, OInv

\* A stop reaches openvpn whatever the worker was doing when it came.
THEOREM StopReaches == OvSpec => []StopReachesProcess
<1>1. OInv => StopReachesProcess
  BY DEF OInv, Reading, StopReachesProcess
<1> QED BY <1>1, OvStarts, StepKeepsOInv, PTL DEF OvSpec

-----------------------------------------------------------------------------
(* No process is left unguarded when the helper answers within the kill     *)
(* timer's 10 s.                                                            *)

\* Until the socket is reached a stop arms the timer, and nothing disarms it
\* while a process is there or may come.
Armed ==
    /\ ~ov.dialed => ~ov.timerStop
    /\ ov.worker = "launching" => ~ov.process
    /\ ov.worker \in Before /\ (ov.worker = "launching" \/ ov.process) =>
           ~ov.timerStop /\ (ov.stop => ov.timer)
    /\ ov.worker \in {"idle", "off"} /\ ov.process => ov.gaveUp \/ (ov.timer /\ ~ov.timerStop)

LEMMA ArmedStep ==
    ASSUME ~SlowHelper, OInv, Armed, [OvNext]_ov
    PROVE  Armed'
<1>0. ov \in OvType /\ (~ov.dialed => ov.worker = "off" /\ ov.status = "disconnected"
                                      /\ ~ov.process /\ ~ov.stop)
  BY DEF OInv, OvTypeOK, Undialled
<1> USE DEF Armed, Before
<1>1. CASE OvStartConnect
  BY <1>0, <1>1 DEF OvStartConnect, OvType
<1>2. CASE OvStartDisconnect
  BY <1>0, <1>2 DEF OvStartDisconnect, OvType
<1>3. CASE OvTimerStopRuns
  BY <1>0, <1>3 DEF OvTimerStopRuns, OvType
<1>4. CASE OnKillControllerTimer
  <2> DEFINE s == [ov EXCEPT !.timer = FALSE, !.process = FALSE]
  <2>1. ov' = EmitDisconnected(s) /\ ov.worker # "launching"
    BY <1>4 DEF OnKillControllerTimer
  <2>2. /\ s \in OvType /\ s.worker = ov.worker /\ ~s.process /\ s.dialed = ov.dialed
        /\ s.status = ov.status /\ s.timerStop = ov.timerStop
    BY <1>0 DEF OvType
  <2>3. ~ov.dialed => ov' = s
    BY <1>0, <2>1, <2>2 DEF EmitDisconnected
  <2> HIDE DEF s
  <2>4. Agree(s, ov')
    BY <2>1, <2>2, EmitDisconnectedFields
  <2> QED BY <2>1, <2>2, <2>3, <2>4 DEF Agree
<1>5. CASE ContinueWithUserInput \/ SocketAccepts \/ ProcessExits \/ RunReturns
  BY <1>0, <1>5 DEF ContinueWithUserInput, SocketAccepts, ProcessExits, RunReturns, OvType
<1>6. CASE LaunchSucceeds \/ RetryDial
  BY <1>0, <1>6 DEF LaunchSucceeds, RetryDial, OvType
\* A worker that becomes idle without a process.
<1>a. ASSUME NEW s \in OvType, ov' = Idle(s), s.dialed = ov.dialed, ov.worker # "off", ~s.process
      PROVE  Armed'
  <2>1. ov'.worker = "idle" /\ ov'.dialed = s.dialed /\ ov'.process = s.process
    BY <1>a, IdleFields
  <2>2. ov.dialed
    BY <1>0, <1>a DEF OvType
  <2> QED BY <1>a, <2>1, <2>2
<1>7. CASE LaunchFails
  <2>1. ov.worker = "launching" /\ ~ov.process
    BY <1>7 DEF LaunchFails
  <2>2. CASE ov' = Idle(EmitError(ov))
    <3>1. /\ EmitError(ov) \in OvType /\ EmitError(ov).dialed = ov.dialed
          /\ EmitError(ov).process = ov.process
      BY <1>0 DEF EmitError, OvType
    <3> QED BY <2>1, <2>2, <3>1, <1>a
  <2>3. CASE ov' = Idle(EmitDisconnected(ov))
    BY <1>0, <2>1, <2>3, <1>a, EmitDisconnectedFields DEF Agree
  <2>4. CASE ov' = [ov EXCEPT !.retries = @ + 1]
    BY <1>0, <2>4 DEF OvType
  <2> QED BY <1>7, <2>2, <2>3, <2>4 DEF LaunchFails
\* While lines are read nothing is promised of the timer.
<1>b. ASSUME ov'.worker = "reading", ov'.dialed
      PROVE  Armed'
  BY <1>b
<1>8. CASE DialSucceeds
  <2> DEFINE s == [ov EXCEPT !.worker = "reading", !.status = "socket"]
  <2>1. s \in OvType /\ s.worker = "reading" /\ s.dialed = ov.dialed
    BY <1>0 DEF OvType
  <2>2. ov.dialed
    BY <1>0, <1>8 DEF DialSucceeds, OvType
  <2>3. ov' = FuncDisconnect(s) \/ ov' = s
    BY <1>8 DEF DialSucceeds
  <2> HIDE DEF s
  <2> QED BY <2>1, <2>2, <2>3, <1>b, FuncDisconnectFields DEF Agree
<1>9. CASE DialFails
  <2>1. ov.worker = "dialling"
    BY <1>9 DEF DialFails
  <2>2. CASE ov' = [ov EXCEPT !.worker = "backoff"]
    BY <1>0, <2>1, <2>2 DEF OvType
  <2>3. CASE ov' = Idle(EmitError([ov EXCEPT !.gaveUp = TRUE]))
    <3> DEFINE s == EmitError([ov EXCEPT !.gaveUp = TRUE])
    <3>1. s \in OvType /\ s.gaveUp /\ s.dialed = ov.dialed
      BY <1>0 DEF EmitError, OvType
    <3>2. ov.dialed
      BY <1>0, <2>1 DEF OvType
    <3> HIDE DEF s
    <3>3. ov'.worker = "idle" /\ ov'.dialed /\ ov'.gaveUp
      BY <2>3, <3>1, <3>2, IdleFields DEF s
    <3> QED BY <3>3
  <2> QED BY <1>9, <2>2, <2>3 DEF DialFails
\* A step that keeps what Armed looks at.
<1>c. ASSUME NEW s \in OvType, Agree(s, ov'), s.timerStop = ov'.timerStop,
             s.dialed = ov.dialed, s.worker = ov.worker, s.process = ov.process,
             s.stop = ov.stop, s.timer = ov.timer, s.timerStop = ov.timerStop,
             s.gaveUp = ov.gaveUp
      PROVE  Armed'
  BY <1>c DEF Agree
<1>10. CASE FuncDisconnectRuns
  <2> DEFINE s == [ov EXCEPT !.posted = FALSE]
  <2>1. /\ s \in OvType /\ s.worker = ov.worker /\ s.dialed = ov.dialed /\ s.stop = ov.stop
        /\ s.process = ov.process /\ s.timer = ov.timer /\ s.timerStop = ov.timerStop
        /\ s.gaveUp = ov.gaveUp
    BY <1>0 DEF OvType
  <2>2. ov' = FuncDisconnect(s)
    BY <1>10 DEF FuncDisconnectRuns
  <2> HIDE DEF s
  <2>3. Agree(s, ov') /\ ov'.timerStop = s.timerStop
    BY <2>1, <2>2, FuncDisconnectFields
  <2> QED BY <2>1, <2>3, <1>c
<1>11. CASE AnswerRuns
  <2> DEFINE s == [ov EXCEPT !.prompt = "none"]
  <2>1. /\ s \in OvType /\ s.worker = ov.worker /\ s.dialed = ov.dialed /\ s.stop = ov.stop
        /\ s.process = ov.process /\ s.timer = ov.timer /\ s.timerStop = ov.timerStop
        /\ s.gaveUp = ov.gaveUp
    BY <1>0 DEF OvType
  <2>2. ov.worker \notin {"off", "launching"} /\ ov.dialed
    BY <1>0, <1>11 DEF AnswerRuns, OvType
  <2>3. ov.process => ov' = SendHeldBack(s)
    BY <1>11 DEF AnswerRuns
  <2>4. ~ov.process => ov' = SendHeldBack(EmitDisconnected(s))
    BY <1>11 DEF AnswerRuns
  <2> HIDE DEF s
  <2>5. CASE ov.process
    <3>1. Agree(s, ov') /\ ov'.timerStop = s.timerStop
      BY <2>1, <2>3, <2>5, SendHeldBackFields
    <3> QED BY <2>1, <3>1, <1>c
  <2>6. CASE ~ov.process
    <3> DEFINE t == EmitDisconnected(s)
    <3>1. t \in OvType /\ Agree(s, t)
      BY <2>1, EmitDisconnectedFields
    <3>2. ov' = SendHeldBack(t)
      BY <2>4, <2>6
    <3> HIDE DEF t
    <3>3. Agree(t, ov')
      BY <3>1, <3>2, SendHeldBackFields
    <3>4. ov'.worker = ov.worker /\ ov'.dialed /\ ~ov'.process
      BY <2>1, <2>2, <2>6, <3>1, <3>3 DEF Agree
    <3> QED BY <2>2, <3>4
  <2> QED BY <2>5, <2>6
\* A line keeps the worker reading.
<1>d. ASSUME NEW s \in OvType, Line(s), s.worker = ov.worker, s.dialed = ov.dialed
      PROVE  Armed'
  <2>1. ov' = SendHeldBack(s) /\ ov.worker = "reading"
    BY <1>d DEF Line
  <2>2. Agree(s, ov') /\ ov.dialed
    BY <1>0, <1>d, <2>1, SendHeldBackFields DEF OvType
  <2> QED BY <1>d, <2>1, <2>2, <1>b DEF Agree
<1>12. CASE StateNotificationOn
  BY <1>0, <1>12, <1>d DEF StateNotificationOn, OvType
<1>13. CASE ConnectedLine
  BY <1>0, <1>13, <1>d DEF ConnectedLine, OvType
<1>14. CASE ReconnectingLine
  BY <1>0, <1>14, <1>d DEF ReconnectingLine, OvType
<1>15. CASE FatalLine
  BY <1>0, <1>15, <1>d DEF FatalLine, OvType
<1>16. CASE PromptLine
  BY <1>0, <1>16, <1>d DEF PromptLine, OvType
<1>17. CASE ProxyRefused
  <2> DEFINE s == [ov EXCEPT !.process = FALSE, !.timerStop = TRUE]
  <2>1. ov' = Idle(EmitDisconnected(s)) /\ ov.worker = "reading"
    BY <1>17 DEF ProxyRefused
  <2>2. s \in OvType /\ s.dialed = ov.dialed /\ ~s.process
    BY <1>0 DEF OvType
  <2> HIDE DEF s
  <2> QED BY <2>1, <2>2, <1>a, EmitDisconnectedFields DEF Agree
<1>18. CASE WriteFails
  <2> DEFINE t == EmitDisconnected(ov)
  <2>1. ov' = Idle(SendHeldBack(t)) /\ ov.worker = "reading" /\ ~ov.process
    BY <1>18 DEF WriteFails
  <2>2. t \in OvType /\ t.dialed = ov.dialed /\ t.process = ov.process
    BY <1>0, EmitDisconnectedFields DEF Agree
  <2> HIDE DEF t
  <2> QED BY <2>1, <2>2, <1>a, SendHeldBackFields DEF Agree
<1>19. CASE ReadFails
  <2>1. ov' = Idle(EmitDisconnected(ov)) /\ ov.worker = "reading" /\ ~ov.process
    BY <1>19 DEF ReadFails
  <2> QED BY <1>0, <2>1, <1>a, EmitDisconnectedFields DEF Agree
<1>20. CASE UNCHANGED ov
  BY <1>20
<1> QED
  BY <1>1, <1>2, <1>3, <1>4, <1>5, <1>6, <1>7, <1>8, <1>9, <1>10, <1>11, <1>12, <1>13, <1>14,
     <1>15, <1>16, <1>17, <1>18, <1>19, <1>20 DEF OvNext, OvEngineStep, OvWorkerStep

\* The worker leaves no openvpn process behind that nobody will end, provided
\* no helper call outlasts the kill timer.
THEOREM ProcessGuarded ==
    ASSUME ~SlowHelper
    PROVE  OvSpec => []ProcessIsGuarded
<1>1. OvInit => Armed
  BY DEF OvInit, Armed, Before
<1>2. Armed => ProcessIsGuarded
  BY DEF Armed, ProcessIsGuarded
<1>3. OInv /\ Armed /\ [OvNext]_ov => Armed'
  BY ArmedStep
<1> QED BY <1>1, <1>2, <1>3, OvStarts, StepKeepsOInv, PTL DEF OvSpec

-----------------------------------------------------------------------------
(* Every step of the connector is a step of the connector of IConnection.   *)

\* A step of a worker that goes on can only settle the attempt or revive it.
LEMMA WorkerGoesOn ==
    ASSUME ov.dialed, ov'.dialed, ov.worker # "off", ov'.worker # "off", ov'.stop = ov.stop
    PROVE  [OvPromise!Next]_(OvPromise!vars)
BY DEF OvPromise!Next, OvPromise!vars, OvPromise!Settle, OvPromise!Reappear

LEMMA WorkerRefines ==
    ASSUME OInv, OvWorkerStep
    PROVE  [OvPromise!Next]_(OvPromise!vars)
<1>0. ov \in OvType /\ (~ov.dialed => ov.worker = "off")
  BY DEF OInv, OvTypeOK, Undialled
<1>1. CASE RunReturns
  <2>1. /\ ov.worker = "idle" /\ ov.dialed /\ ov'.dialed /\ ov'.worker = "off"
        /\ ov'.stop = ov.stop /\ ov'.status = ov.status
    BY <1>0, <1>1 DEF RunReturns, OvType
  <2>2. ov.stop \/ ov.status = "disconnected"
    BY <2>1 DEF OInv, Ending
  <2> QED BY <2>1, <2>2 DEF OvPromise!Next, OvPromise!vars, OvPromise!End
<1>2. CASE ~RunReturns
  <2> SUFFICES ov.dialed /\ ov'.dialed /\ ov.worker # "off" /\ ov'.worker # "off"
               /\ ov'.stop = ov.stop
    BY WorkerGoesOn
  <2>0. ov.dialed /\ ov.worker # "off"
    BY <1>0, <1>2 DEF OvWorkerStep, LaunchSucceeds, LaunchFails, DialSucceeds, DialFails, RetryDial,
       FuncDisconnectRuns, AnswerRuns, StateNotificationOn, ConnectedLine, ReconnectingLine,
       FatalLine, PromptLine, Line, ProxyRefused, WriteFails, ReadFails
  <2>i. ASSUME NEW s \in OvType, ov' = Idle(s), s.dialed = ov.dialed, s.stop = ov.stop
        PROVE  ov'.dialed /\ ov'.worker # "off" /\ ov'.stop = ov.stop
    BY <2>0, <2>i, IdleFields
  <2>g. ASSUME NEW s \in OvType, Agree(s, ov'), s.dialed = ov.dialed, s.stop = ov.stop,
               s.worker = ov.worker
        PROVE  ov'.dialed /\ ov'.worker # "off" /\ ov'.stop = ov.stop
    BY <2>0, <2>g DEF Agree
  <2>l. ASSUME NEW s \in OvType, Line(s), s.dialed = ov.dialed, s.stop = ov.stop,
               s.worker = ov.worker
        PROVE  ov'.dialed /\ ov'.worker # "off" /\ ov'.stop = ov.stop
    BY <2>l, <2>g, SendHeldBackFields DEF Line
  <2>1. CASE LaunchSucceeds \/ RetryDial
    BY <1>0, <2>0, <2>1 DEF LaunchSucceeds, RetryDial, OvType
  <2>2. CASE LaunchFails
    <3>1. CASE ov' = Idle(EmitError(ov))
      <4>1. /\ EmitError(ov) \in OvType /\ EmitError(ov).dialed = ov.dialed
            /\ EmitError(ov).stop = ov.stop
        BY <1>0 DEF EmitError, OvType
      <4> QED BY <2>0, <3>1, <4>1, <2>i
    <3>2. CASE ov' = Idle(EmitDisconnected(ov))
      BY <1>0, <2>0, <3>2, <2>i, EmitDisconnectedFields DEF Agree
    <3>3. CASE ov' = [ov EXCEPT !.retries = @ + 1]
      BY <1>0, <2>0, <3>3 DEF OvType
    <3> QED BY <2>2, <3>1, <3>2, <3>3 DEF LaunchFails
  <2>3. CASE DialSucceeds
    <3> DEFINE s == [ov EXCEPT !.worker = "reading", !.status = "socket"]
    <3>1. s \in OvType /\ s.worker = "reading" /\ s.dialed = ov.dialed /\ s.stop = ov.stop
      BY <1>0 DEF OvType
    <3>2. ov' = FuncDisconnect(s) \/ ov' = s
      BY <2>3 DEF DialSucceeds
    <3> HIDE DEF s
    <3> QED BY <2>0, <3>1, <3>2, FuncDisconnectFields DEF Agree
  <2>4. CASE DialFails
    <3>1. CASE ov' = [ov EXCEPT !.worker = "backoff"]
      BY <1>0, <2>0, <3>1 DEF OvType
    <3>2. CASE ov' = Idle(EmitError([ov EXCEPT !.gaveUp = TRUE]))
      <4> DEFINE s == EmitError([ov EXCEPT !.gaveUp = TRUE])
      <4>1. s \in OvType /\ s.dialed = ov.dialed /\ s.stop = ov.stop
        BY <1>0 DEF EmitError, OvType
      <4>2. ov' = Idle(s)
        BY <3>2
      <4> HIDE DEF s
      <4> QED BY <2>0, <4>1, <4>2, <2>i
    <3> QED BY <2>4, <3>1, <3>2 DEF DialFails
  <2>5. CASE FuncDisconnectRuns
    <3> DEFINE s == [ov EXCEPT !.posted = FALSE]
    <3>1. s \in OvType /\ s.worker = ov.worker /\ s.dialed = ov.dialed /\ s.stop = ov.stop
      BY <1>0 DEF OvType
    <3>2. ov' = FuncDisconnect(s)
      BY <2>5 DEF FuncDisconnectRuns
    <3> HIDE DEF s
    <3> QED BY <2>0, <3>1, <3>2, <2>g, FuncDisconnectFields
  <2>6. CASE AnswerRuns
    <3> DEFINE s == [ov EXCEPT !.prompt = "none"]
    <3>1. s \in OvType /\ s.worker = ov.worker /\ s.dialed = ov.dialed /\ s.stop = ov.stop
      BY <1>0 DEF OvType
    <3>2. ov' = SendHeldBack(s) \/ ov' = SendHeldBack(EmitDisconnected(s))
      BY <2>6 DEF AnswerRuns
    <3> HIDE DEF s
    <3>3. /\ EmitDisconnected(s) \in OvType /\ EmitDisconnected(s).worker = ov.worker
          /\ EmitDisconnected(s).dialed = ov.dialed /\ EmitDisconnected(s).stop = ov.stop
      BY <3>1, EmitDisconnectedFields DEF Agree
    <3> QED BY <2>0, <3>1, <3>2, <3>3, <2>g, SendHeldBackFields
  <2>7. CASE StateNotificationOn
    BY <1>0, <2>0, <2>7, <2>l DEF StateNotificationOn, OvType
  <2>8. CASE ConnectedLine
    BY <1>0, <2>0, <2>8, <2>l DEF ConnectedLine, OvType
  <2>9. CASE ReconnectingLine
    BY <1>0, <2>0, <2>9, <2>l DEF ReconnectingLine, OvType
  <2>10. CASE FatalLine
    BY <1>0, <2>0, <2>10, <2>l DEF FatalLine, OvType
  <2>11. CASE PromptLine
    BY <1>0, <2>0, <2>11, <2>l DEF PromptLine, OvType
  <2>12. CASE ProxyRefused
    <3> DEFINE s == [ov EXCEPT !.process = FALSE, !.timerStop = TRUE]
    <3>1. s \in OvType /\ s.dialed = ov.dialed /\ s.stop = ov.stop
      BY <1>0 DEF OvType
    <3>2. ov' = Idle(EmitDisconnected(s))
      BY <2>12 DEF ProxyRefused
    <3> HIDE DEF s
    <3> QED BY <2>0, <3>1, <3>2, <2>i, EmitDisconnectedFields DEF Agree
  <2>13. CASE WriteFails
    <3> DEFINE t == EmitDisconnected(ov)
    <3>1. t \in OvType /\ t.dialed = ov.dialed /\ t.stop = ov.stop
      BY <1>0, EmitDisconnectedFields DEF Agree
    <3>2. ov' = Idle(SendHeldBack(t))
      BY <2>13 DEF WriteFails
    <3> HIDE DEF t
    <3> QED BY <2>0, <3>1, <3>2, <2>i, SendHeldBackFields DEF Agree
  <2>14. CASE ReadFails
    <3>1. ov' = Idle(EmitDisconnected(ov))
      BY <2>14 DEF ReadFails
    <3> QED BY <1>0, <2>0, <3>1, <2>i, EmitDisconnectedFields DEF Agree
  <2> QED
    BY <1>2, <2>1, <2>2, <2>3, <2>4, <2>5, <2>6, <2>7, <2>8, <2>9, <2>10, <2>11, <2>12, <2>13,
       <2>14 DEF OvWorkerStep
<1> QED BY <1>1, <1>2

LEMMA EngineRefines ==
    ASSUME OInv, OvEngineStep
    PROVE  [OvPromise!Next]_(OvPromise!vars)
<1>0. ov \in OvType /\ (~ov.dialed => ov.worker = "off" /\ ov.status = "disconnected" /\ ~ov.stop)
  BY DEF OInv, OvTypeOK, Undialled
<1>1. CASE OvStartConnect
  BY <1>0, <1>1
     DEF OvStartConnect, OvType, OvPromise!Next, OvPromise!vars, OvPromise!Start
<1>2. CASE OvStartDisconnect
  <2>1. /\ ov.dialed /\ ov'.dialed /\ ov'.worker = ov.worker /\ ov'.status = ov.status
        /\ ov.status # "disconnected" /\ ov'.stop = TRUE
    BY <1>0, <1>2 DEF OvStartDisconnect, OvType
  <2> QED BY <2>1 DEF OvPromise!Next, OvPromise!vars, OvPromise!AskStop
<1>3. CASE OvTimerStopRuns \/ ContinueWithUserInput
  <2>1. /\ ov'.dialed = ov.dialed /\ ov'.worker = ov.worker /\ ov'.status = ov.status
        /\ ov'.stop = ov.stop
    BY <1>0, <1>3 DEF OvTimerStopRuns, ContinueWithUserInput, OvType
  <2> QED BY <2>1 DEF OvPromise!vars
<1>4. CASE OnKillControllerTimer
  <2> DEFINE s == [ov EXCEPT !.timer = FALSE, !.process = FALSE]
  <2>1. /\ s \in OvType /\ s.worker = ov.worker /\ s.dialed = ov.dialed /\ s.stop = ov.stop
        /\ s.status = ov.status
    BY <1>0 DEF OvType
  <2>2. ov' = EmitDisconnected(s)
    BY <1>4 DEF OnKillControllerTimer
  <2> HIDE DEF s
  <2>3. /\ ov'.dialed = ov.dialed /\ ov'.worker = ov.worker /\ ov'.stop = ov.stop
        /\ ov'.status = "disconnected"
    BY <2>1, <2>2, EmitDisconnectedFields DEF Agree
  <2> QED BY <1>0, <2>3 DEF OvPromise!Next, OvPromise!vars, OvPromise!Settle
<1> QED BY <1>1, <1>2, <1>3, <1>4 DEF OvEngineStep

LEMMA OvRefinesStep ==
    ASSUME OInv, [OvNext]_ov
    PROVE  [OvPromise!Next]_(OvPromise!vars)
<1>1. CASE OvEngineStep
  BY <1>1, EngineRefines
<1>2. CASE OvWorkerStep
  BY <1>2, WorkerRefines
<1>3. CASE SocketAccepts \/ ProcessExits \/ UNCHANGED ov
  <2>1. /\ ov'.dialed = ov.dialed /\ (ov'.worker = "off" <=> ov.worker = "off")
        /\ ov'.status = ov.status /\ ov'.stop = ov.stop
    BY <1>3 DEF SocketAccepts, ProcessExits, OInv, OvTypeOK, OvType
  <2> QED BY <2>1 DEF OvPromise!vars
<1> QED BY <1>1, <1>2, <1>3 DEF OvNext

\* The OpenVPN connector implements the safety part of IConnection: nothing
\* ends or settles in a way ConnectionManager was not promised.
THEOREM OvImplementsSafely ==
    OvSpec => OvPromise!Init /\ [][OvPromise!Next]_(OvPromise!vars)
<1>1. OvInit => OvPromise!Init
  BY DEF OvInit, OvPromise!Init
<1> QED BY <1>1, OvStarts, StepKeepsOInv, OvRefinesStep, PTL DEF OvSpec

(***************************************************************************)
(* The WireGuard connector stops what it started, whatever the retry        *)
(* limits, and its steps are steps of the connector of IConnection. The     *)
(* fetch of its configuration never loses a registered key, for any number  *)
(* of key pairs.                                                            *)
(***************************************************************************)
\* Nothing runs before the dial, and the daemon runs only after it was started.
Linked ==
    /\ ~wg.dialed => /\ wg.worker = "off" /\ wg.status = "disconnected"
                     /\ wg.retries = 0 /\ ~wg.started
    /\ wg.daemon => wg.started
    /\ wg.worker = "starting" => ~wg.started /\ wg.status # "disconnected"

WInv == WgTypeOK /\ Linked

LEMMA WgStarts == WgInit => WInv
<1> SUFFICES ASSUME WgInit PROVE WInv OBVIOUS
<1>1. wg \in WgType
  BY DEF WgInit, WgType
<1>2. wg.dialed = FALSE /\ wg.status = "disconnected" /\ wg.worker = "off" /\ wg.daemon = FALSE
      /\ wg.retries = 0 /\ wg.started = FALSE
  BY DEF WgInit
<1> QED BY <1>1, <1>2 DEF WInv, WgTypeOK, Linked

LEMMA WgKeepsWInv == WInv /\ [WgNext]_wg => WInv'
<1> SUFFICES ASSUME WInv, [WgNext]_wg PROVE WInv' OBVIOUS
<1> USE DEF WInv, WgTypeOK, WgType, Linked
<1>0. StartRetries \in Nat /\ StopRetries \in Nat /\ 0 <= StartRetries /\ 0 <= StopRetries
  BY WireGuardAssumption
<1>1. CASE WgStartConnect
  BY <1>0, <1>1 DEF WgStartConnect
<1>2. CASE WgStartDisconnect
  BY <1>2 DEF WgStartDisconnect
<1>3. CASE WgTimerStopRuns
  BY <1>3 DEF WgTimerStopRuns
<1>4. CASE OnProcessKillTimeout
  BY <1>4 DEF OnProcessKillTimeout
<1>5. CASE DaemonStarts
  BY <1>5 DEF DaemonStarts
<1>6. CASE DaemonFails
  <2>1. CASE wg.retries >= StartRetries
    BY <1>6, <2>1 DEF DaemonFails, SetError
  <2>2. CASE ~(wg.retries >= StartRetries)
    <3>1. wg' = [wg EXCEPT !.retries = @ + 1] /\ wg.worker = "starting"
      BY <1>6, <2>2 DEF DaemonFails
    <3>2. wg.retries + 1 <= StartRetries /\ wg.retries + 1 \in Nat
      BY <1>0, <2>2
    <3> QED BY <3>1, <3>2
  <2> QED BY <2>1, <2>2
<1>7. CASE LoopSeesStop
  BY <1>0, <1>7 DEF LoopSeesStop, BeginStop
<1>8. CASE StatusFails
  BY <1>0, <1>8 DEF StatusFails, Polls, BeginStop
<1>9. CASE StatusFailure
  BY <1>9 DEF StatusFailure, Polls
<1>10. CASE StatusListening
  BY <1>10 DEF StatusListening, Polls, SetError
<1>11. CASE StatusActive
  BY <1>11 DEF StatusActive, Polls
<1>12. CASE StopSucceeds
  BY <1>12 DEF StopSucceeds
<1>13. CASE StopFails
  <2>1. CASE wg.retries >= StopRetries
    BY <1>13, <2>1 DEF StopFails
  <2>2. CASE ~(wg.retries >= StopRetries)
    <3>1. wg' = [wg EXCEPT !.retries = @ + 1] /\ wg.worker = "stopping"
      BY <1>13, <2>2 DEF StopFails
    <3>2. wg.retries + 1 <= StopRetries /\ wg.retries + 1 \in Nat
      BY <1>0, <2>2
    <3> QED BY <3>1, <3>2
  <2> QED BY <2>1, <2>2
<1>14. CASE DaemonDies
  BY <1>14 DEF DaemonDies
<1>15. CASE UNCHANGED wg
  BY <1>15
<1> QED
  BY <1>1, <1>2, <1>3, <1>4, <1>5, <1>6, <1>7, <1>8, <1>9, <1>10, <1>11, <1>12, <1>13, <1>14,
     <1>15 DEF WgNext
\* The daemon is stopped with the worker as long as the helper does not fail
\* more often in a row than the worker tries again.
LEMMA DaemonStopStep ==
    ASSUME HelperFailures <= StopRetries, WInv, DaemonIsStopped, [WgNext]_wg
    PROVE  DaemonIsStopped'
<1> USE DEF WInv, WgTypeOK, WgType, Linked, DaemonIsStopped
<1>1. CASE WgStartConnect
  BY <1>1 DEF WgStartConnect
<1>2. CASE WgStartDisconnect
  BY <1>2 DEF WgStartDisconnect
<1>3. CASE WgTimerStopRuns
  BY <1>3 DEF WgTimerStopRuns
<1>4. CASE OnProcessKillTimeout
  BY <1>4 DEF OnProcessKillTimeout
<1>5. CASE DaemonStarts
  BY <1>5 DEF DaemonStarts
<1>6. CASE DaemonFails
  <2>1. wg.worker = "starting"
    BY <1>6 DEF DaemonFails
  <2>2. wg' = SetError([wg EXCEPT !.worker = "polling"]) \/ wg' = [wg EXCEPT !.retries = @ + 1]
    BY <1>6 DEF DaemonFails
  <2> QED BY <2>1, <2>2 DEF SetError
<1>7. CASE LoopSeesStop
  BY <1>7 DEF LoopSeesStop, BeginStop
<1>8. CASE StatusFails
  BY <1>8 DEF StatusFails, Polls, BeginStop
<1>9. CASE StatusFailure
  BY <1>9 DEF StatusFailure, Polls
<1>10. CASE StatusListening
  BY <1>10 DEF StatusListening, Polls, SetError
<1>11. CASE StatusActive
  BY <1>11 DEF StatusActive, Polls
<1>12. CASE StopSucceeds
  BY <1>12 DEF StopSucceeds
<1>13. CASE StopFails
  <2>1. wg.worker = "stopping" /\ wg.retries < HelperFailures
    BY <1>13 DEF StopFails
  <2>2. ~(wg.retries >= StopRetries)
    BY <2>1, WireGuardAssumption
  <2>3. wg' = [wg EXCEPT !.retries = @ + 1]
    BY <1>13, <2>2 DEF StopFails
  <2> QED BY <2>1, <2>3
<1>14. CASE DaemonDies
  BY <1>14 DEF DaemonDies
<1>15. CASE UNCHANGED wg
  BY <1>15
<1> QED
  BY <1>1, <1>2, <1>3, <1>4, <1>5, <1>6, <1>7, <1>8, <1>9, <1>10, <1>11, <1>12, <1>13, <1>14,
     <1>15 DEF WgNext

\* The connector's record keeps its type and no helper call is tried too often.
THEOREM WireGuardTyped == WgSpec => []WgTypeOK
BY WgStarts, WgKeepsWInv, PTL DEF WgSpec, WInv

\* Whatever ends the worker, the daemon it started was stopped.
THEOREM DaemonStopped ==
    ASSUME HelperFailures <= StopRetries
    PROVE  WgSpec => []DaemonIsStopped
<1>1. WgInit => WInv /\ DaemonIsStopped
  BY WgStarts DEF WgInit, DaemonIsStopped
<1>2. WInv /\ DaemonIsStopped /\ [WgNext]_wg => (WInv /\ DaemonIsStopped)'
  BY WgKeepsWInv, DaemonStopStep
<1> QED BY <1>1, <1>2, PTL DEF WgSpec

\* An attempt that is settled is never brought back by a late status.
THEOREM SettledStaysSettled == WgSpec => StaysSettled
<1>1. WInv /\ [WgNext]_wg => [wg.dialed /\ wg.status = "disconnected" => wg'.status = "disconnected"]_wg
  <2> SUFFICES ASSUME WInv, WgNext, wg.dialed, wg.status = "disconnected"
               PROVE  wg'.status = "disconnected"
    OBVIOUS
  <2> USE DEF WInv, WgTypeOK, WgType
  <2>1. ~WgStartConnect /\ ~WgStartDisconnect /\ ~StatusFails /\ ~StatusFailure
        /\ ~StatusListening /\ ~StatusActive
    BY DEF WgStartConnect, WgStartDisconnect, StatusFails, StatusFailure, StatusListening,
       StatusActive, Polls
  <2>2. CASE WgTimerStopRuns \/ OnProcessKillTimeout
    BY <2>2 DEF WgTimerStopRuns, OnProcessKillTimeout
  <2>3. CASE DaemonStarts \/ DaemonFails
    BY <2>3 DEF DaemonStarts, DaemonFails, SetError
  <2>4. CASE LoopSeesStop
    BY <2>4 DEF LoopSeesStop, BeginStop
  <2>5. CASE StopSucceeds \/ StopFails
    BY <2>5 DEF StopSucceeds, StopFails
  <2>6. CASE DaemonDies
    BY <2>6 DEF DaemonDies
  <2> QED BY <2>1, <2>2, <2>3, <2>4, <2>5, <2>6 DEF WgNext
<1> QED BY <1>1, WgStarts, WgKeepsWInv, PTL DEF WgSpec, StaysSettled
-----------------------------------------------------------------------------
(* Every step of the connector is a step of the connector of IConnection.   *)

LifeOf(s) == IF ~s.dialed THEN "fresh" ELSE IF s.worker = "off" THEN "over" ELSE "running"

\* What two records say of the life, the settling and the stop is enough to
\* name the abstract step.
LEMMA WgAbstractStep ==
    ASSUME \/ /\ LifeOf(wg) = "fresh" /\ LifeOf(wg') = "running"
              /\ wg'.status # "disconnected" /\ wg'.stop = wg.stop
           \/ /\ LifeOf(wg) # "fresh" /\ wg.status # "disconnected" /\ wg'.stop = TRUE
              /\ LifeOf(wg') = LifeOf(wg) /\ wg'.status # "disconnected"
           \/ /\ LifeOf(wg) # "fresh" /\ wg.status # "disconnected"
              /\ LifeOf(wg') = LifeOf(wg) /\ wg'.status = "disconnected"
              /\ wg'.stop \in {wg.stop, TRUE}
           \/ /\ LifeOf(wg) = "running" /\ LifeOf(wg') = "over"
              /\ wg'.status = "disconnected" /\ wg'.stop = wg.stop
           \/ /\ LifeOf(wg') = LifeOf(wg) /\ wg'.stop = wg.stop
              /\ (wg'.status = "disconnected") = (wg.status = "disconnected")
    PROVE  [WgPromise!Next]_(WgPromise!vars)
BY DEF LifeOf, WgPromise!Next, WgPromise!vars, WgPromise!Start, WgPromise!AskStop,
   WgPromise!Settle, WgPromise!Fail, WgPromise!Reappear, WgPromise!End

LEMMA WgRefinesStep ==
    ASSUME HelperFailures <= StopRetries, WInv, [WgNext]_wg
    PROVE  [WgPromise!Next]_(WgPromise!vars)
<1> USE DEF WInv, WgTypeOK, WgType, Linked, LifeOf
<1>1. CASE WgStartConnect
  BY <1>1, WgAbstractStep DEF WgStartConnect
<1>2. CASE WgStartDisconnect
  BY <1>2, WgAbstractStep DEF WgStartDisconnect
<1>3. CASE WgTimerStopRuns \/ OnProcessKillTimeout \/ DaemonDies
  BY <1>3, WgAbstractStep DEF WgTimerStopRuns, OnProcessKillTimeout, DaemonDies
<1>4. CASE DaemonStarts
  BY <1>4, WgAbstractStep DEF DaemonStarts
<1>5. CASE DaemonFails
  <2>1. wg.worker = "starting" /\ wg.status # "disconnected"
    BY <1>5 DEF DaemonFails
  <2>2. CASE wg' = SetError([wg EXCEPT !.worker = "polling"])
    BY <2>1, <2>2, WgAbstractStep DEF SetError
  <2>3. CASE wg' = [wg EXCEPT !.retries = @ + 1]
    BY <2>1, <2>3, WgAbstractStep
  <2> QED BY <1>5, <2>2, <2>3 DEF DaemonFails
<1>6. CASE LoopSeesStop
  BY <1>6, WgAbstractStep DEF LoopSeesStop, BeginStop
<1>7. CASE StatusFails
  BY <1>7, WgAbstractStep DEF StatusFails, Polls, BeginStop
<1>8. CASE StatusFailure
  BY <1>8, WgAbstractStep DEF StatusFailure, Polls
<1>9. CASE StatusListening
  <2>1. CASE wg' = [wg EXCEPT !.configured = TRUE]
    BY <1>9, <2>1, WgAbstractStep DEF StatusListening, Polls
  <2>2. CASE wg' = SetError([wg EXCEPT !.configured = TRUE])
    BY <1>9, <2>2, WgAbstractStep DEF StatusListening, Polls, SetError
  <2> QED BY <1>9, <2>1, <2>2 DEF StatusListening
<1>10. CASE StatusActive
  BY <1>10, WgAbstractStep DEF StatusActive, Polls
<1>11. CASE StopSucceeds
  BY <1>11, WgAbstractStep DEF StopSucceeds
<1>12. CASE StopFails
  <2>1. wg.worker = "stopping" /\ wg.retries < HelperFailures
    BY <1>12 DEF StopFails
  <2>2. ~(wg.retries >= StopRetries)
    BY <2>1, WireGuardAssumption
  <2>3. wg' = [wg EXCEPT !.retries = @ + 1]
    BY <1>12, <2>2 DEF StopFails
  <2> QED BY <2>1, <2>3, WgAbstractStep
<1>13. CASE UNCHANGED wg
  BY <1>13, WgAbstractStep
<1> QED
  BY <1>1, <1>2, <1>3, <1>4, <1>5, <1>6, <1>7, <1>8, <1>9, <1>10, <1>11, <1>12, <1>13
     DEF WgNext

\* The WireGuard connector implements the safety part of IConnection: nothing
\* ends or settles in a way ConnectionManager was not promised.
THEOREM WgImplementsSafely ==
    ASSUME HelperFailures <= StopRetries
    PROVE  WgSpec => WgPromise!Init /\ [][WgPromise!Next]_(WgPromise!vars)
<1>1. WgInit => WgPromise!Init
  BY DEF WgInit, WgPromise!Init
<1> QED BY <1>1, WgStarts, WgKeepsWInv, WgRefinesStep, PTL DEF WgSpec

-----------------------------------------------------------------------------
\* A request that is on its way or waits for consent is about the stored key.
RequestIsForStored ==
    fetch.state \in Waiting \cup {"limit"} => fetch.key = stored.key

\* A request the server has seen is about a key it has registered.
ReachedIsGranted == fetch.state = "reached" => fetch.key \in granted

IInv ==
    /\ FetchTypeOK
    /\ RegisteredKeyIsStored /\ StoredWasGranted
    /\ RequestIsForStored /\ ReachedIsGranted

LEMMA InitIInv == FetchInit => IInv
<1> SUFFICES ASSUME FetchInit PROVE IInv OBVIOUS
<1>1. fetch \in FetchType /\ fetch.state = "none"
  BY DEF FetchInit, FetchType, Waiting, Served
<1>2. stored \in [key : {0} \cup Keys, complete : BOOLEAN] /\ ~stored.complete
  BY DEF FetchInit, NothingStored
<1>3. keys \in 0..MaxKeys /\ force \in BOOLEAN /\ called \in BOOLEAN
  <2>1. keys = 0 /\ force = FALSE /\ called = FALSE
    BY DEF FetchInit
  <2>2. keys \in 0..MaxKeys
    BY <2>1, KeysAssumption
  <2> QED BY <2>1, <2>2
<1>4. granted = {} /\ mine = {}
  BY DEF FetchInit
<1> QED
  BY <1>1, <1>2, <1>3, <1>4 DEF IInv, FetchTypeOK, Waiting, RegisteredKeyIsStored,
     StoredWasGranted, RequestIsForStored, ReachedIsGranted

\* The key of getWireGuardConfig()'s request is the one the settings hold then.
LEMMA GetKeepsIInv ==
    ASSUME IInv, Get, UNCHANGED <<called, granted, mine>>
    PROVE  IInv'
<1>0. keys \in Nat /\ MaxKeys \in Nat /\ force' = FALSE
  BY KeysAssumption DEF IInv, FetchTypeOK, Get
<1>a. ASSUME UNCHANGED <<stored, keys>>, fetch' = [fetch EXCEPT !.state = "cached"] PROVE IInv'
  BY <1>a, <1>0 DEF IInv, FetchTypeOK, FetchType, Waiting, Served,
     RegisteredKeyIsStored, StoredWasGranted, RequestIsForStored, ReachedIsGranted
<1>b. ASSUME UNCHANGED <<stored, keys>>, fetch' = [fetch EXCEPT !.state = "failed"] PROVE IInv'
  BY <1>b, <1>0 DEF IInv, FetchTypeOK, FetchType, Waiting, Served,
     RegisteredKeyIsStored, StoredWasGranted, RequestIsForStored, ReachedIsGranted
<1>c. ASSUME NEW k \in Keys, Submit(k), keys' \in 0..MaxKeys,
             mine \subseteq {k}, stored.complete => k \in granted
      PROVE  IInv'
  <2>1. fetch' \in FetchType /\ fetch'.state = "asked" /\ fetch'.key = k
    BY <1>c DEF Submit, FetchType, Waiting, Served
  <2>2. stored' \in [key : {0} \cup Keys, complete : BOOLEAN]
    BY <1>c DEF Submit, IInv, FetchTypeOK
  <2>3. stored'.key = k /\ stored'.complete = stored.complete
    BY <1>c DEF Submit, IInv, FetchTypeOK
  <2>4. mine \subseteq {k} /\ (stored.complete => k \in granted)
    BY <1>c
  <2>5. FetchType' = FetchType /\ Keys' = Keys
    BY DEF FetchType, Keys, Waiting, Served
  <2>6. granted' \subseteq Keys /\ mine' \subseteq Keys /\ called' \in BOOLEAN /\ k # 0
    BY <1>c, <1>0 DEF IInv, FetchTypeOK, Keys
  <2> QED
    BY <2>1, <2>2, <2>3, <2>4, <2>5, <2>6, <1>0, <1>c DEF IInv, FetchTypeOK, Waiting,
       RegisteredKeyIsStored, StoredWasGranted, RequestIsForStored, ReachedIsGranted
<1>1. CASE Answer("cached") /\ UNCHANGED <<stored, keys>>
  BY <1>1, <1>a DEF Answer
<1>2. CASE Answer("failed") /\ UNCHANGED <<stored, keys>>
  BY <1>2, <1>b DEF Answer
<1>3. CASE stored.key # 0 /\ Submit(stored.key) /\ UNCHANGED keys
  <2>1. stored.key \in Keys
    BY <1>3 DEF IInv, FetchTypeOK
  <2>2. keys' \in 0..MaxKeys
    BY <1>3 DEF IInv, FetchTypeOK
  <2>3. mine \subseteq {stored.key} /\ (stored.complete => stored.key \in granted)
    BY DEF IInv, RegisteredKeyIsStored, StoredWasGranted
  <2> QED BY <2>1, <2>2, <2>3, <1>3, <1>c
<1>4. CASE stored.key = 0 /\ NewKey
  <2>1. mine = {} /\ ~stored.complete
    BY <1>4, <1>0 DEF IInv, FetchTypeOK, RegisteredKeyIsStored, StoredWasGranted, Keys
  <2>2. keys + 1 \in Keys /\ keys' \in 0..MaxKeys
    BY <1>0, <1>4 DEF NewKey, Keys
  <2>3. Submit(keys + 1)
    BY <1>4 DEF NewKey
  <2> QED BY <2>1, <2>2, <2>3, <1>c
<1> QED BY <1>1, <1>2, <1>3, <1>4 DEF Get

LEMMA StepIInv == IInv /\ [FetchNext]_gvars => IInv'
<1> SUFFICES ASSUME IInv, [FetchNext]_gvars PROVE IInv' OBVIOUS
<1> USE DEF IInv, FetchTypeOK, FetchType, Waiting, Served, RegisteredKeyIsStored,
        StoredWasGranted, RequestIsForStored, ReachedIsGranted
<1>1. CASE FetchConfig
  BY <1>1, GetKeepsIInv DEF FetchConfig
<1>2. CASE FetchCachedOnly
  BY <1>2 DEF FetchCachedOnly, Answer
<1>3. CASE KeyLimitConsent
  BY <1>3, GetKeepsIInv DEF KeyLimitConsent
<1>4. CASE ServerRegisters
  BY <1>4, SMTT(30) DEF ServerRegisters, Answer
<1>5. CASE AnswerFails
  BY <1>5 DEF AnswerFails, Answer
<1>6. CASE AnswerNoPresharedKey
  BY <1>6 DEF AnswerNoPresharedKey
<1>7. CASE AnswerKeyLimit
  BY <1>7 DEF AnswerKeyLimit, Answer
<1>8. CASE AnswerGranted
  BY <1>8 DEF AnswerGranted, Answer
<1>9. CASE Teardown
  BY <1>9 DEF Teardown, Answer
<1>10. CASE ForceReinitOnNextCall
  BY <1>10 DEF ForceReinitOnNextCall
<1>11. CASE RemoveWireGuardSettings
  BY <1>11 DEF RemoveWireGuardSettings, NothingStored
<1>12. CASE Restart
  BY <1>12 DEF Restart
<1>13. CASE UNCHANGED gvars
  BY <1>13 DEF gvars
<1> QED
  BY <1>1, <1>2, <1>3, <1>4, <1>5, <1>6, <1>7, <1>8, <1>9, <1>10, <1>11, <1>12, <1>13
     DEF FetchNext, FetchStep

\* The variables of the fetch keep their types, and a request names a key.
THEOREM FetchTyped == FetchSpec => []FetchTypeOK
BY InitIInv, StepIInv, PTL DEF FetchSpec, IInv

\* No crash, lost answer or cancelled request loses a registered key.
THEOREM RegisteredKeyKept == FetchSpec => []RegisteredKeyIsStored
BY InitIInv, StepIInv, PTL DEF FetchSpec, IInv

\* A complete stored configuration belongs to a key the server answered for.
THEOREM StoredGranted == FetchSpec => []StoredWasGranted
BY InitIInv, StepIInv, PTL DEF FetchSpec, IInv

(***************************************************************************)
(* The test of a tunnel.  A running test is always driven, and a start has  *)
(* one result at most, for any number of tests, pauses and starts.          *)
(***************************************************************************)
\* What a handler finds and leaves at every call it makes. A request that was
\* made is being worked on, or an answer is queued that will be taken for its.
Answerable(s) == s.request # 0 => s.request \in s.pings \/ s.answers # <<>>

Counted(s) ==
    ~s.config.delayed /\ ~s.config.skipped =>
        /\ s.delays = 0 /\ s.skips = 0
        /\ s.told <= 1
        /\ s.running => s.wanted /\ s.told = 0
        /\ ~s.wanted => s.told = 0

Consistent(s) == s \in TtType /\ Answerable(s) /\ Counted(s)

\* What holds between two handlers besides.
Driven(s) == s.running => s.timers > 0 \/ s.request # 0

TInv == Consistent(tt) /\ Driven(tt)

LEMMA TtStarts == TtInit => TInv
<1> SUFFICES ASSUME TtInit PROVE TInv OBVIOUS
<1>1. PICK config \in Configs :
          tt = [config |-> config, running |-> FALSE, curTest |-> 1, pauses |-> 0,
                request |-> 0, pings |-> {}, answers |-> <<>>,
                timers |-> 0, delays |-> 0, skips |-> 0, issued |-> 0,
                starts |-> 0, wanted |-> FALSE, told |-> 0]
  BY DEF TtInit
<1>2. tt \in TtType
  <2>1. <<>> \in Replies
    BY DEF Replies
  <2> QED BY <1>1, <2>1, TestsAssumption DEF TtType
<1> QED BY <1>1, <1>2 DEF TInv, Consistent, Answerable, Counted, Driven

-----------------------------------------------------------------------------
\* What Answerable and Counted are about.
SameRequest(s, t) ==
    t.request = s.request /\ t.pings = s.pings /\ t.answers = s.answers

SameCount(s, t) ==
    /\ t.config = s.config /\ t.delays = s.delays /\ t.skips = s.skips
    /\ t.running = s.running /\ t.wanted = s.wanted /\ t.told = s.told

LEMMA SameIsConsistent ==
    ASSUME NEW s, NEW t, Consistent(s), t \in TtType, SameRequest(s, t), SameCount(s, t)
    PROVE  Consistent(t)
<1>1. Answerable(t)
  BY DEF Consistent, Answerable, SameRequest
<1>2. Counted(t)
  BY DEF Consistent, Counted, SameCount
<1> QED BY <1>1, <1>2 DEF Consistent

-----------------------------------------------------------------------------
\* Every call keeps the state consistent, and those that end a handler leave a
\* running test driven.

LEMMA CallIsDriven ==
    ASSUME NEW s, Consistent(s)
    PROVE  Consistent(CallPingTest(s)) /\ Driven(CallPingTest(s))
<1> DEFINE t == CallPingTest(s)
<1>1. s \in TtType
  BY DEF Consistent
<1>2. t \in TtType
  <2>1. s.issued + 1 \in Nat /\ s.pings \cup {s.issued + 1} \in SUBSET Nat
    BY <1>1 DEF TtType
  <2> QED BY <1>1, <2>1 DEF TtType, CallPingTest
<1>3. t.request = s.issued + 1 /\ t.pings = s.pings \cup {s.issued + 1} /\ s.issued \in Nat
  BY <1>1 DEF TtType, CallPingTest
<1>4. /\ t.config = s.config /\ t.delays = s.delays /\ t.skips = s.skips
      /\ t.told = s.told /\ t.running = s.running /\ t.wanted = s.wanted
  BY <1>1 DEF TtType, CallPingTest
<1>5. t.request # 0 /\ t.request \in t.pings
  BY <1>3
<1>6. Answerable(t) /\ Driven(t)
  BY <1>5 DEF Answerable, Driven
<1>7. Counted(t)
  BY <1>4 DEF Consistent, Counted
<1> QED BY <1>2, <1>6, <1>7 DEF Consistent

LEMMA NextPingIsDriven ==
    ASSUME NEW s, Consistent(s)
    PROVE  Consistent(DoNextPingTest(s)) /\ Driven(DoNextPingTest(s))
<1>1. s.curTest <= Tests
  BY TestsAssumption DEF Consistent, TtType
<1>2. CASE s.running
  BY <1>1, <1>2, CallIsDriven DEF DoNextPingTest
<1>3. CASE ~s.running
  BY <1>3 DEF DoNextPingTest, Driven
<1> QED BY <1>2, <1>3

LEMMA FinishEnds ==
    ASSUME NEW s, Consistent(s), s.running
    PROVE  Consistent(Finish(s)) /\ Driven(Finish(s))
<1> DEFINE t == Finish(s)
<1>1. s \in TtType
  BY DEF Consistent
<1>2. t = [s EXCEPT !.running = FALSE, !.told = IF s.told = 2 THEN 2 ELSE s.told + 1]
  BY <1>1 DEF TtType, Finish, TestsFinished
<1>3. t \in TtType
  <2>1. (IF s.told = 2 THEN 2 ELSE s.told + 1) \in 0..2
    BY <1>1 DEF TtType
  <2> QED BY <1>1, <1>2, <2>1 DEF TtType
<1>4. Answerable(t) /\ Driven(t)
  BY <1>1, <1>2 DEF Consistent, TtType, Answerable, Driven
<1>5. Counted(t)
  BY <1>1, <1>2 DEF Consistent, TtType, Counted
<1> QED BY <1>3, <1>4, <1>5 DEF Consistent

LEMMA StopEnds ==
    ASSUME NEW s, Consistent(s)
    PROVE  /\ Consistent(StopTests(s)) /\ ~StopTests(s).running
           /\ StopTests(s).starts = s.starts /\ StopTests(s).config = s.config
<1>1. CASE ~s.running
  BY <1>1 DEF StopTests
<1>2. CASE s.running
  <2> DEFINE t == [s EXCEPT !.running = FALSE, !.pings = @ \ {s.request}, !.request = 0]
  <2>1. s \in TtType /\ StopTests(s) = t
    BY <1>2 DEF Consistent, StopTests
  <2>2. t \in TtType /\ t.request = 0 /\ ~t.running /\ t.starts = s.starts
    BY <2>1 DEF TtType
  <2>3. /\ t.config = s.config /\ t.delays = s.delays /\ t.skips = s.skips
        /\ t.wanted = s.wanted /\ t.told = s.told
    BY <2>1 DEF TtType
  <2> HIDE DEF t
  <2>4. Answerable(t)
    BY <2>2 DEF Answerable
  <2>5. Counted(t)
    BY <2>2, <2>3 DEF Consistent, Counted
  <2> QED BY <2>1, <2>2, <2>3, <2>4, <2>5 DEF Consistent
<1> QED BY <1>1, <1>2

LEMMA StartIsDriven ==
    ASSUME NEW s, Consistent(s), Driven(s),
           ~s.config.delayed /\ ~s.config.skipped => s.wanted /\ s.told = 0
    PROVE  Consistent(StartTestImpl(s)) /\ Driven(StartTestImpl(s))
<1>1. CASE s.config.skipped
  <2> DEFINE t == [s EXCEPT !.skips = @ + 1]
  <2>1. s \in TtType /\ StartTestImpl(s) = t
    BY <1>1 DEF Consistent, StartTestImpl
  <2>2. t \in TtType /\ SameRequest(s, t) /\ t.config = s.config
        /\ t.running = s.running /\ t.timers = s.timers
    BY <2>1 DEF TtType, SameRequest
  <2> HIDE DEF t
  <2>3. Answerable(t) /\ Driven(t)
    BY <2>2 DEF Consistent, Answerable, Driven, SameRequest
  <2>4. Counted(t)
    BY <1>1, <2>2 DEF Counted
  <2> QED BY <2>1, <2>2, <2>3, <2>4 DEF Consistent
<1>2. CASE ~s.config.skipped
  <2> DEFINE t == [s EXCEPT !.running = TRUE, !.curTest = 1, !.pauses = 0]
  <2>1. t \in TtType
    <3>1. 1 \in 1..Tests /\ 0 \in 0..MaxPauses
      BY TestsAssumption
    <3> QED BY <3>1 DEF Consistent, TtType
  <2>2. Consistent(t)
    <3>1. SameRequest(s, t) /\ t.running
      BY DEF Consistent, TtType, SameRequest
    <3>2. /\ t.config = s.config /\ t.delays = s.delays /\ t.skips = s.skips
          /\ t.wanted = s.wanted /\ t.told = s.told
      BY DEF Consistent, TtType
    <3> HIDE DEF t
    <3>3. Answerable(t)
      BY <3>1 DEF Consistent, Answerable, SameRequest
    <3>4. Counted(t)
      BY <1>2, <3>1, <3>2 DEF Consistent, Counted
    <3> QED BY <2>1, <3>3, <3>4 DEF Consistent
  <2> HIDE DEF t
  <2>3. Consistent(CallPingTest(t)) /\ Driven(CallPingTest(t))
    BY <2>2, CallIsDriven
  <2> QED BY <1>2, <2>3 DEF StartTestImpl, t
<1> QED BY <1>1, <1>2

LEMMA PauseIsDriven ==
    ASSUME NEW s, Consistent(s)
    PROVE  Consistent(Pause(s)) /\ Driven(Pause(s))
<1> DEFINE t == Pause(s)
<1>1. t \in TtType /\ t.timers > 0
  BY DEF Consistent, TtType, Pause
<1>2. SameRequest(s, t) /\ SameCount(s, t)
  BY DEF Consistent, TtType, Pause, SameRequest, SameCount
<1> HIDE DEF t
<1>3. Consistent(t) /\ Driven(t)
  BY <1>1, <1>2, SameIsConsistent DEF Driven
<1> QED BY <1>3 DEF t

LEMMA NextTestConsistent ==
    ASSUME NEW s, Consistent(s), ~LastTest(s)
    PROVE  Consistent(NextTest(s))
<1>1. s \in TtType /\ s.curTest + 1 \in 1..Tests /\ 0 \in 0..MaxPauses
  BY TestsAssumption DEF Consistent, TtType, LastTest
<1>2. NextTest(s) \in TtType
  BY <1>1 DEF TtType, NextTest
<1>3. SameRequest(s, NextTest(s)) /\ SameCount(s, NextTest(s))
  BY <1>1 DEF TtType, NextTest, SameRequest, SameCount
<1> QED BY <1>2, <1>3, SameIsConsistent

LEMMA FailureIsDriven ==
    ASSUME NEW s, Consistent(s), s.running, TestFails(s)
    PROVE  TInv'
<1>1. CASE ~s.config.custom /\ s.pauses < MaxPauses /\ tt' = Pause([s EXCEPT !.pauses = @ + 1])
  <2>1. s \in TtType /\ s.pauses + 1 \in 0..MaxPauses
    BY <1>1, TestsAssumption DEF Consistent, TtType
  <2> DEFINE t == [s EXCEPT !.pauses = @ + 1]
  <2>2. t \in TtType /\ SameRequest(s, t) /\ SameCount(s, t)
    BY <2>1 DEF TtType, SameRequest, SameCount
  <2> HIDE DEF t
  <2>3. Consistent(t)
    BY <2>2, SameIsConsistent
  <2> QED BY <1>1, <2>3, PauseIsDriven DEF TInv, t
<1>2. CASE s.config.custom /\ ~LastTest(s) /\ tt' = Pause(NextTest(s))
  BY <1>2, NextTestConsistent, PauseIsDriven DEF TInv
<1>3. CASE ~s.config.custom /\ ~LastTest(s) /\ tt' = DoNextPingTest(NextTest(s))
  BY <1>3, NextTestConsistent, NextPingIsDriven DEF TInv
<1>4. CASE LastTest(s) /\ tt' = Finish(s)
  BY <1>4, FinishEnds DEF TInv
<1> QED BY <1>1, <1>2, <1>3, <1>4 DEF TestFails

-----------------------------------------------------------------------------
LEMMA TtKeeps == TInv /\ [TtNext]_tt => TInv'
<1> SUFFICES ASSUME TInv, [TtNext]_tt PROVE TInv' OBVIOUS
<1>0. Consistent(tt) /\ Driven(tt)
  BY DEF TInv
<1>1. CASE StartTests
  <2> DEFINE s == [StopTests(tt) EXCEPT !.starts = @ + 1, !.wanted = TRUE, !.told = 0]
  <2>1. Consistent(StopTests(tt)) /\ ~StopTests(tt).running /\ StopTests(tt).starts < MaxStarts
    BY <1>0, <1>1, StopEnds DEF StartTests
  <2>2. Consistent(s) /\ ~s.running /\ s.wanted /\ s.told = 0
    <3>1. StopTests(tt) \in TtType /\ StopTests(tt).starts + 1 \in 0..MaxStarts /\ 0 \in 0..2
      BY <2>1, TestsAssumption DEF Consistent, TtType
    <3> DEFINE u == StopTests(tt)
    <3> HIDE DEF u
    <3>2. Consistent(u) /\ ~u.running /\ u \in TtType /\ u.starts + 1 \in 0..MaxStarts
      BY <2>1, <3>1 DEF u
    <3>3. s = [u EXCEPT !.starts = @ + 1, !.wanted = TRUE, !.told = 0]
      BY DEF u
    <3> HIDE DEF s
    <3>4. s \in TtType
      BY <3>1, <3>2, <3>3 DEF TtType
    <3>5. SameRequest(u, s) /\ ~s.running /\ s.wanted /\ s.told = 0
      BY <3>2, <3>3 DEF TtType, SameRequest
    <3>6. s.config = u.config /\ s.delays = u.delays /\ s.skips = u.skips
      BY <3>2, <3>3 DEF TtType
    <3>7. Answerable(s)
      BY <3>2, <3>5 DEF Consistent, Answerable, SameRequest
    <3>8. Counted(s)
      BY <3>2, <3>5, <3>6 DEF Consistent, Counted
    <3> QED BY <3>4, <3>5, <3>7, <3>8 DEF Consistent
  <2>3. tt' = IF s.config.delayed THEN [s EXCEPT !.delays = @ + 1] ELSE StartTestImpl(s)
    BY <1>1 DEF StartTests
  <2> HIDE DEF s
  <2>4. CASE s.config.delayed
    <3>1. s \in TtType /\ tt' = [s EXCEPT !.delays = @ + 1]
      BY <2>2, <2>3, <2>4 DEF Consistent
    <3>2. tt' \in TtType
      BY <3>1 DEF TtType
    <3>3. SameRequest(s, tt') /\ tt'.config = s.config /\ ~tt'.running
      BY <2>2, <3>1 DEF TtType, SameRequest
    <3>4. Answerable(tt)' /\ Driven(tt)'
      BY <2>2, <3>3 DEF Consistent, Answerable, Driven, SameRequest
    <3>5. Counted(tt)'
      BY <2>4, <3>3 DEF Counted
    <3> QED BY <3>2, <3>4, <3>5 DEF TInv, Consistent
  <2>5. CASE ~s.config.delayed
    BY <2>2, <2>3, <2>5, StartIsDriven DEF TInv, Driven
  <2> QED BY <2>4, <2>5
<1>2. CASE StopTestsCalled
  <2>1. Consistent(StopTests(tt)) /\ ~StopTests(tt).running
    BY <1>0, StopEnds
  <2> DEFINE u == StopTests(tt)
  <2>2. tt' = [u EXCEPT !.wanted = FALSE, !.told = 0] /\ Consistent(u) /\ ~u.running
    BY <1>2, <2>1 DEF StopTestsCalled
  <2> HIDE DEF u
  <2>3. tt' \in TtType
    <3>1. u \in TtType /\ 0 \in 0..2
      BY <2>2 DEF Consistent
    <3> QED BY <2>2, <3>1 DEF TtType
  <2>4. u \in TtType /\ Answerable(u) /\ Counted(u)
    BY <2>2 DEF Consistent
  <2>5. ~tt'.running /\ ~tt'.wanted /\ tt'.told = 0
    BY <2>2, <2>4 DEF TtType
  <2>6. /\ tt'.request = u.request /\ tt'.pings = u.pings /\ tt'.answers = u.answers
        /\ tt'.config = u.config /\ tt'.delays = u.delays /\ tt'.skips = u.skips
    BY <2>2, <2>4 DEF TtType
  <2>7. Answerable(tt)' /\ Driven(tt)'
    BY <2>4, <2>5, <2>6 DEF Answerable, Driven
  <2>8. Counted(tt)'
    BY <2>4, <2>5, <2>6 DEF Counted
  <2> QED BY <2>3, <2>7, <2>8 DEF TInv, Consistent
<1>3. CASE DelayEnds
  <2> DEFINE s == [tt EXCEPT !.delays = @ - 1]
  <2>1. tt \in TtType /\ tt.delays - 1 \in Nat /\ (tt.config.delayed \/ tt.config.skipped)
    BY <1>0, <1>3 DEF DelayEnds, Consistent, TtType, Counted
  <2>2. s \in TtType /\ SameRequest(tt, s) /\ s.config = tt.config
        /\ s.running = tt.running /\ s.timers = tt.timers
    BY <2>1 DEF TtType, SameRequest
  <2> HIDE DEF s
  <2>3. Answerable(s) /\ Driven(s)
    BY <1>0, <2>2 DEF Consistent, Answerable, Driven, SameRequest
  <2>4. Counted(s)
    BY <2>1, <2>2 DEF Counted
  <2>5. Consistent(StartTestImpl(s)) /\ Driven(StartTestImpl(s))
    BY <2>1, <2>2, <2>3, <2>4, StartIsDriven DEF Consistent
  <2> QED BY <1>3, <2>5 DEF DelayEnds, TInv, s
<1>4. CASE Answers
  <2>1. PICK ping \in tt.pings, success \in BOOLEAN :
            tt' = [tt EXCEPT !.pings = @ \ {ping}, !.answers = Append(@, success)]
    BY <1>4 DEF Answers, Answered
  <2>2. tt.answers \in Seq(BOOLEAN)
    BY <1>0 DEF Consistent, TtType, Replies
  <2>3. Append(tt.answers, success) \in Replies /\ Append(tt.answers, success) # <<>>
    BY <2>2, AppendProperties DEF Replies
  <2>4. tt \in TtType /\ tt.pings \ {ping} \in SUBSET Nat
    BY <1>0 DEF Consistent, TtType
  <2>5. tt' \in TtType
    BY <2>1, <2>3, <2>4 DEF TtType
  <2>6. tt'.answers # <<>> /\ tt'.request = tt.request /\ tt'.timers = tt.timers
    BY <2>1, <2>3, <2>4 DEF TtType
  <2>7. SameCount(tt, tt')
    BY <2>1, <2>4 DEF TtType, SameCount
  <2>8. Answerable(tt)' /\ Driven(tt)'
    BY <1>0, <2>6, <2>7 DEF Answerable, Driven, SameCount
  <2>9. Counted(tt)'
    BY <1>0, <2>7 DEF Consistent, Counted, SameCount
  <2> QED BY <2>5, <2>8, <2>9 DEF TInv, Consistent
<1>5. CASE OnPingTestAnswer
  <2> DEFINE s == [tt EXCEPT !.answers = Tail(@), !.request = 0]
  <2>1. tt.answers \in Seq(BOOLEAN) /\ tt.answers # <<>>
    BY <1>0, <1>5 DEF OnPingTestAnswer, Consistent, TtType, Replies
  <2>2. Tail(tt.answers) \in Replies
    BY <2>1, HeadTailProperties DEF Replies
  <2>3. Consistent(s) /\ s.running = tt.running /\ s.timers = tt.timers
    <3>1. s \in TtType /\ s.request = 0 /\ s.timers = tt.timers
      BY <1>0, <2>2 DEF Consistent, TtType
    <3>2. SameCount(tt, s)
      BY <1>0 DEF Consistent, TtType, SameCount
    <3> HIDE DEF s
    <3>3. Answerable(s)
      BY <3>1 DEF Answerable
    <3>4. Counted(s)
      BY <1>0, <3>2 DEF Consistent, Counted, SameCount
    <3> QED BY <3>1, <3>2, <3>3, <3>4 DEF Consistent, SameCount
  <2>4. \/ (tt.request = 0 \/ ~tt.running) /\ tt' = s
        \/ tt.running /\ tt' = Finish(s)
        \/ tt.running /\ TestFails(s)
    BY <1>5 DEF OnPingTestAnswer
  <2> HIDE DEF s
  <2>5. CASE (tt.request = 0 \/ ~tt.running) /\ tt' = s
    BY <1>0, <2>3, <2>5 DEF TInv, Driven
  <2>6. CASE tt.running /\ tt' = Finish(s)
    BY <2>3, <2>6, FinishEnds DEF TInv
  <2>7. CASE tt.running /\ TestFails(s)
    BY <2>3, <2>7, FailureIsDriven
  <2> QED BY <2>4, <2>5, <2>6, <2>7
<1>6. CASE RestEnds
  <2> DEFINE s == [tt EXCEPT !.timers = @ - 1]
  <2>1. Consistent(s)
    <3>1. tt \in TtType /\ tt.timers - 1 \in Nat
      BY <1>0, <1>6 DEF RestEnds, Consistent, TtType
    <3>2. s \in TtType /\ SameRequest(tt, s) /\ SameCount(tt, s)
      BY <3>1 DEF TtType, SameRequest, SameCount
    <3> HIDE DEF s
    <3> QED BY <1>0, <3>2, SameIsConsistent
  <2> HIDE DEF s
  <2> QED BY <1>6, <2>1, NextPingIsDriven DEF RestEnds, TInv, s
<1>7. CASE OnTestsSkipped
  <2>1. tt \in TtType /\ (tt.config.delayed \/ tt.config.skipped)
    BY <1>0, <1>7 DEF OnTestsSkipped, Consistent, TtType, Counted
  <2>2. tt.skips - 1 \in Nat /\ (IF tt.told = 2 THEN 2 ELSE tt.told + 1) \in 0..2
    BY <1>7, <2>1 DEF OnTestsSkipped, TtType
  <2>3. tt' = [tt EXCEPT !.skips = @ - 1, !.told = IF tt.told = 2 THEN 2 ELSE tt.told + 1]
    BY <1>7, <2>1 DEF OnTestsSkipped, TestsFinished, TtType
  <2>4. tt' \in TtType
    BY <2>1, <2>2, <2>3 DEF TtType
  <2>5. SameRequest(tt, tt') /\ tt'.config = tt.config
        /\ tt'.running = tt.running /\ tt'.timers = tt.timers
    BY <2>1, <2>3 DEF TtType, SameRequest
  <2>6. Answerable(tt)' /\ Driven(tt)'
    BY <1>0, <2>5 DEF Consistent, Answerable, Driven, SameRequest
  <2>7. Counted(tt)'
    BY <2>1, <2>5 DEF Counted
  <2> QED BY <2>4, <2>6, <2>7 DEF TInv, Consistent
<1>8. CASE UNCHANGED tt
  BY <1>8 DEF TInv
<1> QED BY <1>1, <1>2, <1>3, <1>4, <1>5, <1>6, <1>7, <1>8 DEF TtNext

\* The tester keeps its type.
THEOREM TestTyped == TtSpec => []TtTypeOK
<1>1. TInv => TtTypeOK
  BY DEF TInv, Consistent, TtTypeOK
<1> QED BY <1>1, TtStarts, TtKeeps, PTL DEF TtSpec

\* A running test always has something that will carry it on, whatever else
\* starts and stops it.
THEOREM TestDriven == TtSpec => []TestIsDriven
<1>1. TInv => TestIsDriven
  BY DEF TInv, Consistent, Answerable, Driven, TestIsDriven
<1> QED BY <1>1, TtStarts, TtKeeps, PTL DEF TtSpec

\* A start that is neither delayed nor skipped has one result at most, and a
\* test that was stopped has none.
THEOREM OneResult == TtSpec => []OneResultPerStart
<1>1. TInv => OneResultPerStart
  BY DEF TInv, Consistent, Counted, OneResultPerStart
<1> QED BY <1>1, TtStarts, TtKeeps, PTL DEF TtSpec

(***************************************************************************)
(* IKEv2.  Hosts, handles and the connected flag belong to phases of the    *)
(* worker.                                                                  *)
(***************************************************************************)
Unprepared == {"off", "service", "setup", "reinstalling", "pausing"}
Undialed == {"service", "setup", "dialing", "reinstalling", "pausing"}

Phases ==
    /\ ~ik.dialed => ik.worker = "off" /\ ik.failures = 0 /\ ik.handle = 0 /\ ~ik.connected
    /\ ik.worker # "off" => ik.failures < MaxFailedConnectionAttempts
    /\ ik.worker \in Unprepared => ~ik.hosts
    /\ ik.worker \in Undialed => ik.handle = 0
    /\ ik.worker \in {"monitoring", "connecting", "hangingUp"} =>
           ik.handle \in Handles /\ ik.handle = ik.failures + 1

\* A handle is dialed once.
FreshHandles ==
    /\ \A h \in Handles : h > ik.failures + 1 => ik.line[h] = "none"
    /\ ik.worker \in {"service", "setup", "dialing", "pausing"} \/ ~ik.dialed =>
           \A h \in Handles : h > ik.failures => ik.line[h] = "none"

\* A callback that reports a tunnel reports one that was there.
Truthful ==
    \A i \in 1..Len(ik.apcs) :
        ik.apcs[i].event = "connected" => ik.line[ik.apcs[i].handle] \in {"up", "gone"}

\* connected() is said once, and a hang-up has its reason.
Reasons ==
    /\ ik.connected => ik.worker \in {"off", "monitoring", "hangingUp"}
    /\ ik.connected /\ ik.worker = "hangingUp" => ~ik.retry
    /\ ik.worker = "hangingUp" => ik.stop \/ ik.pending # "None" \/ ik.connected
    /\ ik.notify \/ ik.watched # 0 => ik.connected \/ ik.stop \/ ik.worker = "connecting"

Watched ==
    (ik.worker = "monitoring" /\ ik.connected) \/ ik.worker = "connecting" =>
        /\ ik.line[ik.handle] \in {"up", "gone"}
        /\ ik.notify \/ (ik.watched = ik.handle /\ ik.line[ik.handle] = "up")

KInv == IkTypeOK /\ Phases /\ FreshHandles /\ Truthful /\ Reasons /\ Watched

LEMMA IkStarts == IkInit => KInv
<1> SUFFICES ASSUME IkInit PROVE KInv OBVIOUS
<1>0. 0 < MaxFailedConnectionAttempts
  BY IkAssumption
<1>1. PICK reinstalled \in BOOLEAN :
        ik = [dialed |-> FALSE, stop |-> FALSE, notify |-> FALSE, worker |-> "off",
              handle |-> 0, pending |-> "None", retry |-> FALSE, failures |-> 0,
              hosts |-> FALSE, connected |-> FALSE, reinstalled |-> reinstalled,
              watched |-> 0, line |-> [h \in Handles |-> "none"], apcs |-> <<>>]
  BY DEF IkInit
<1>2. <<>> \in Queues /\ Len(<<>>) = 0
  BY DEF Queues
<1>3. IkTypeOK
  BY <1>1, <1>2 DEF IkTypeOK, IkType, Lines
<1>4. Phases /\ Reasons /\ Watched
  BY <1>0, <1>1 DEF Phases, Reasons, Watched, Unprepared, Undialed
<1>5. FreshHandles /\ Truthful
  BY <1>1, <1>2 DEF FreshHandles, Truthful
<1> QED BY <1>3, <1>4, <1>5 DEF KInv

\* Without a new line, a new callback or a new count the handles stay fresh.
LEMMA FreshHandlesStay ==
    ASSUME FreshHandles, Truthful, ik'.line = ik.line, ik'.apcs = ik.apcs, ik'.failures = ik.failures,
           ik'.dialed = FALSE => ik.dialed = FALSE,
           ik'.worker \in {"service", "setup", "dialing", "pausing"} =>
               ik.worker \in {"service", "setup", "dialing", "pausing"} \/ ~ik.dialed
    PROVE  FreshHandles' /\ Truthful'
BY DEF FreshHandles, Truthful

LEMMA IkPlainKeepsKInv ==
    ASSUME KInv,
           \/ IkStartConnect \/ IkStartDisconnect \/ ServiceChecked \/ SetupFails
           \/ SetupSucceeds \/ DialGivenUp \/ StopSeen \/ ConnectDecides
           \/ HandleReinstallWan \/ PauseEnds
    PROVE  KInv'
<1>0. ik \in IkType /\ Phases /\ FreshHandles /\ Truthful /\ Reasons /\ Watched
  BY DEF KInv, IkTypeOK
<1>a. MaxFailedConnectionAttempts \in Nat /\ 0 < MaxFailedConnectionAttempts
  BY IkAssumption
<1>b. ik \in IkType
  BY <1>0
<1> USE <1>0 DEF IkType, IkTypeOK, KInv
<1>1. CASE IkStartConnect
  <2> USE <1>1 DEF IkStartConnect
  <2>1. IkTypeOK' /\ Phases' /\ Reasons' /\ Watched'
    BY <1>a DEF Phases, Reasons, Watched, Unprepared, Undialed
  <2>2. FreshHandles' /\ Truthful'
    BY FreshHandlesStay
  <2> QED BY <2>1, <2>2
<1>2. CASE IkStartDisconnect
  <2> USE <1>2 DEF IkStartDisconnect
  <2>1. IkTypeOK' /\ Phases' /\ Reasons' /\ Watched'
    BY DEF Phases, Reasons, Watched, Unprepared, Undialed
  <2>2. FreshHandles' /\ Truthful'
    BY FreshHandlesStay
  <2> QED BY <2>1, <2>2
<1>3. CASE ServiceChecked
  <2> USE <1>3 DEF ServiceChecked, RunEnds
  <2>1. IkTypeOK' /\ Phases' /\ Reasons' /\ Watched'
    BY DEF Phases, Reasons, Watched, Unprepared, Undialed
  <2>2. FreshHandles' /\ Truthful'
    BY FreshHandlesStay
  <2> QED BY <2>1, <2>2
<1>4. CASE SetupFails
  <2> USE <1>4 DEF SetupFails, RunEnds
  <2>1. IkTypeOK' /\ Phases' /\ Reasons' /\ Watched'
    BY DEF Phases, Reasons, Watched, Unprepared, Undialed
  <2>2. FreshHandles' /\ Truthful'
    BY FreshHandlesStay
  <2> QED BY <2>1, <2>2
<1>5. CASE SetupSucceeds
  <2> USE <1>5 DEF SetupSucceeds
  <2>1. IkTypeOK' /\ Phases' /\ Reasons' /\ Watched'
    BY DEF Phases, Reasons, Watched, Unprepared, Undialed
  <2>2. FreshHandles' /\ Truthful'
    BY FreshHandlesStay
  <2> QED BY <2>1, <2>2
<1>6. CASE DialGivenUp
  <2> USE <1>6 DEF DialGivenUp, RunEnds
  <2>1. IkTypeOK' /\ Phases' /\ Reasons' /\ Watched'
    BY DEF Phases, Reasons, Watched, Unprepared, Undialed
  <2>2. FreshHandles' /\ Truthful'
    BY FreshHandlesStay
  <2> QED BY <2>1, <2>2
<1>7. CASE StopSeen
  <2> USE <1>7 DEF StopSeen, HangUp
  <2>1. IkTypeOK' /\ Phases' /\ Reasons' /\ Watched'
    BY DEF Phases, Reasons, Watched, Unprepared, Undialed
  <2>2. FreshHandles' /\ Truthful'
    BY FreshHandlesStay
  <2> QED BY <2>1, <2>2
<1>8. CASE ConnectDecides
  <2> USE <1>8 DEF ConnectDecides
  <2>1. IkTypeOK' /\ Phases' /\ Reasons' /\ Watched'
    BY DEF Phases, Reasons, Watched, Unprepared, Undialed
  <2>2. FreshHandles' /\ Truthful'
    BY FreshHandlesStay
  <2> QED BY <2>1, <2>2
<1>9. CASE PauseEnds
  <2> USE <1>9 DEF PauseEnds, RunEnds
  <2>1. IkTypeOK' /\ Phases' /\ Reasons' /\ Watched'
    BY DEF Phases, Reasons, Watched, Unprepared, Undialed
  <2>2. FreshHandles' /\ Truthful'
    BY FreshHandlesStay
  <2> QED BY <2>1, <2>2
<1>10. CASE HandleReinstallWan
  <2>1. /\ ik.worker = "reinstalling"
        /\ \/ ik' = [ik EXCEPT !.worker = "off"]
           \/ ik' = [ik EXCEPT !.failures = @ + 1, !.worker = "off"]
           \/ /\ ~(ik.failures + 1 >= MaxFailedConnectionAttempts)
              /\ \/ ik' = [ik EXCEPT !.failures = @ + 1, !.worker = "pausing"]
                 \/ ik' = [ik EXCEPT !.failures = @ + 1, !.worker = "pausing", !.reinstalled = TRUE]
    BY <1>10 DEF HandleReinstallWan, RunEnds
  <2>2. ik.failures \in Nat /\ ik.failures + 1 \in Handles
    BY <1>a, <2>1 DEF Phases, Handles
  <2>3. IkTypeOK'
    <3> HIDE <1>0 DEF KInv, IkTypeOK, IkType
    <3>1. CASE ik' = [ik EXCEPT !.worker = "off"]
      BY <1>b, <3>1 DEF IkType, IkTypeOK
    <3>2. CASE ik' = [ik EXCEPT !.failures = @ + 1, !.worker = "off"]
      BY <1>b, <2>2, <3>2 DEF IkType, IkTypeOK
    <3>3. CASE ik' = [ik EXCEPT !.failures = @ + 1, !.worker = "pausing"]
      BY <1>b, <2>2, <3>3 DEF IkType, IkTypeOK
    <3>4. CASE ik' = [ik EXCEPT !.failures = @ + 1, !.worker = "pausing", !.reinstalled = TRUE]
      BY <1>b, <2>2, <3>4 DEF IkType, IkTypeOK
    <3> QED BY <2>1, <3>1, <3>2, <3>3, <3>4
  <2>6. Phases'
    <3>1. /\ ik.dialed /\ ~ik.hosts /\ ik.handle = 0
          /\ ik'.dialed = ik.dialed /\ ik'.hosts = ik.hosts /\ ik'.handle = ik.handle
          /\ \/ ik'.worker = "off"
             \/ ik'.worker = "pausing" /\ ik'.failures = ik.failures + 1
                /\ ~(ik.failures + 1 >= MaxFailedConnectionAttempts)
      BY <2>1 DEF Phases, Unprepared, Undialed
    <3>2. ik'.worker # "off" => ik'.failures < MaxFailedConnectionAttempts
      BY <1>a, <2>2, <3>1
    <3> QED BY <3>1, <3>2 DEF Phases
  <2>7. Reasons' /\ Watched'
    BY <2>1 DEF Reasons, Watched
  <2>4. /\ ik'.line = ik.line /\ ik'.apcs = ik.apcs /\ ik'.dialed = TRUE
        /\ ik'.failures \in {ik.failures, ik.failures + 1} /\ ik'.worker \in {"off", "pausing"}
        /\ ik'.worker = "pausing" => ik'.failures = ik.failures + 1
    BY <2>1 DEF Phases
  <2>5. FreshHandles' /\ Truthful'
    BY <2>4, <1>a DEF FreshHandles, Truthful, Handles
  <2> QED BY <2>3, <2>5, <2>6, <2>7
<1> QED BY <1>1, <1>2, <1>3, <1>4, <1>5, <1>6, <1>7, <1>8, <1>9, <1>10

LEMMA TailOfQueue ==
    ASSUME NEW q \in Queues, q # <<>>
    PROVE  /\ Tail(q) \in Queues /\ Head(q) \in Callbacks
           /\ Head(q) = q[1] /\ 1 \in 1..Len(q)
           /\ \A i \in 1..Len(Tail(q)) : i + 1 \in 1..Len(q) /\ Tail(q)[i] = q[i + 1]
<1>1. q \in Seq(Callbacks) /\ Len(q) \in Nat /\ Len(q) # 0
  BY DEF Queues
<1>2. Tail(q) \in Seq(Callbacks) /\ Len(Tail(q)) = Len(q) - 1
  BY <1>1
<1>3. \A i \in 1..Len(Tail(q)) : i + 1 \in 1..Len(q) /\ Tail(q)[i] = q[i + 1]
  BY <1>1, <1>2
<1>4. Head(q) = q[1] /\ 1 \in 1..Len(q) /\ q[1] \in Callbacks
  BY <1>1
<1> QED BY <1>2, <1>3, <1>4 DEF Queues

LEMMA AppendToQueue ==
    ASSUME NEW q \in Queues, NEW c \in Callbacks
    PROVE  /\ Append(q, c) \in Queues
           /\ \A i \in 1..Len(Append(q, c)) :
                  \/ i \in 1..Len(q) /\ Append(q, c)[i] = q[i]
                  \/ Append(q, c)[i] = c
BY DEF Queues

\* A line that came up is up or gone for good: what was reported stays true.
LEMMA LinesSettle ==
    ASSUME ik \in IkType, Truthful, ik'.apcs = ik.apcs,
           \A h \in Handles : ik.line[h] \in {"up", "gone"} => ik'.line[h] \in {"up", "gone"}
    PROVE  Truthful'
<1>1. ik.apcs \in Seq(Callbacks)
  BY DEF IkType, Queues
<1>2. \A i \in 1..Len(ik.apcs) : ik.apcs[i] \in Callbacks
  BY <1>1
<1>3. \A c \in Callbacks : c.handle \in Handles
  BY DEF Callbacks
<1> QED BY <1>2, <1>3 DEF Truthful

LEMMA HangUpFields ==
    ASSUME ik \in IkType, NEW lines \in Lines,
           \/ ik' = [ik EXCEPT !.line = lines, !.handle = 0, !.hosts = FALSE, !.worker = "off"]
           \/ /\ ~ik.connected
              /\ ik' = [ik EXCEPT !.line = lines, !.handle = 0, !.hosts = FALSE,
                                  !.worker = "reinstalling"]
    PROVE  /\ ik' \in IkType /\ ik'.line = lines /\ ik'.handle = 0 /\ ~ik'.hosts
           /\ ik'.failures = ik.failures /\ ik'.dialed = ik.dialed /\ ik'.stop = ik.stop
           /\ ik'.connected = ik.connected /\ ik'.notify = ik.notify
           /\ ik'.watched = ik.watched /\ ik'.apcs = ik.apcs
           /\ ik'.worker = "off" \/ (ik'.worker = "reinstalling" /\ ~ik.connected)
<1>1. CASE ik' = [ik EXCEPT !.line = lines, !.handle = 0, !.hosts = FALSE, !.worker = "off"]
  BY <1>1 DEF IkType
<1>2. CASE /\ ~ik.connected
           /\ ik' = [ik EXCEPT !.line = lines, !.handle = 0, !.hosts = FALSE,
                               !.worker = "reinstalling"]
  BY <1>2 DEF IkType
<1> QED BY <1>1, <1>2

\* The worker's steps that touch the handle of the dial.
LEMMA IkDialKeepsKInv ==
    ASSUME KInv, RasDial \/ NotifySeen \/ BlockingDisconnectEnds
    PROVE  KInv'
<1>0. ik \in IkType /\ Phases /\ FreshHandles /\ Truthful /\ Reasons /\ Watched
  BY DEF KInv, IkTypeOK
<1>a. MaxFailedConnectionAttempts \in Nat
  BY IkAssumption
<1>b. ik.line \in Lines
  BY <1>0 DEF IkType
<1>1. CASE RasDial
  <2> DEFINE h == ik.failures + 1
  <2>1. ik.worker = "dialing" /\ ~ik.stop
        /\ ik' = [ik EXCEPT !.worker = "monitoring", !.handle = h, !.line = [@ EXCEPT ![h] = "dialing"]]
    BY <1>1 DEF RasDial
  <2>2. h \in Handles
    BY <1>0, <1>a, <2>1 DEF Phases, Handles, IkType
  <2>3. [ik.line EXCEPT ![h] = "dialing"] \in Lines
        /\ \A g \in Handles : g # h => [ik.line EXCEPT ![h] = "dialing"][g] = ik.line[g]
    BY <1>b, <2>2 DEF Lines
  <2>4. ik.line[h] = "none"
    BY <1>0, <1>a, <2>1, <2>2 DEF FreshHandles, Handles, IkType
  <2>9. h = ik.failures + 1
    OBVIOUS
  <2> HIDE DEF h
  <2>5. /\ IkTypeOK' /\ ik'.line = [ik.line EXCEPT ![h] = "dialing"]
        /\ ik'.failures = ik.failures /\ ik'.apcs = ik.apcs /\ ik'.dialed = ik.dialed
        /\ ik'.worker = "monitoring"
    BY <1>0, <2>1, <2>2, <2>3 DEF IkTypeOK, IkType
  <2>6. Phases' /\ Reasons' /\ Watched'
    BY <1>0, <2>1, <2>2, <2>9 DEF IkType, Phases, Reasons, Watched, Unprepared, Undialed
  <2>7. FreshHandles'
    <3>1. ik.dialed
      BY <1>0, <2>1 DEF Phases
    <3>2. \A g \in Handles : g > ik.failures + 1 => g # h
      BY <1>0, <1>a DEF h, Handles, IkType
    <3> QED BY <1>0, <2>3, <2>5, <3>1, <3>2 DEF FreshHandles
  <2>8. Truthful'
    <3> SUFFICES ASSUME NEW i \in 1..Len(ik.apcs), ik.apcs[i].event = "connected"
                 PROVE  [ik.line EXCEPT ![h] = "dialing"][ik.apcs[i].handle] \in {"up", "gone"}
      BY <2>5 DEF Truthful
    <3>1. ik.line[ik.apcs[i].handle] \in {"up", "gone"}
      BY <1>0 DEF Truthful
    <3>2. ik.apcs \in Seq(Callbacks)
      BY <1>0 DEF IkType, Queues
    <3>3. ik.apcs[i] \in Callbacks
      BY <3>2
    <3>4. ik.apcs[i].handle \in Handles
      BY <3>3 DEF Callbacks
    <3> QED BY <2>3, <2>4, <3>1, <3>4
  <2> QED BY <2>5, <2>6, <2>7, <2>8 DEF KInv
<1>2. CASE NotifySeen
  <2>1. ik.worker = "monitoring" /\ ik.notify /\ ~ik.stop /\ ik.connected
    BY <1>0, <1>2 DEF NotifySeen, Reasons
  <2>2. \/ /\ ik.line[ik.handle] # "gone"
           /\ ik' = [ik EXCEPT !.notify = FALSE, !.watched = ik.handle]
        \/ ik' = [ik EXCEPT !.notify = FALSE, !.worker = "hangingUp", !.retry = FALSE]
    BY <1>0, <1>2 DEF NotifySeen, ArmDropDetection, HangUp, IkType
  <2>3. IkTypeOK' /\ Phases' /\ Reasons'
    BY <1>0, <2>1, <2>2 DEF IkTypeOK, IkType, Phases, Reasons, Unprepared, Undialed
  <2>4. FreshHandles' /\ Truthful'
    <3>1. /\ ik'.line = ik.line /\ ik'.apcs = ik.apcs /\ ik'.failures = ik.failures
          /\ ik'.dialed = ik.dialed /\ ik'.worker \in {"monitoring", "hangingUp"}
      BY <1>0, <2>1, <2>2 DEF IkType
    <3> QED BY <1>0, <3>1, FreshHandlesStay
  <2>5. ik.line[ik.handle] # "gone" => ik.line[ik.handle] = "up"
    BY <1>0, <2>1 DEF Watched
  <2>6. Watched'
    BY <1>0, <2>1, <2>2, <2>5 DEF IkType, Watched
  <2> QED BY <2>3, <2>4, <2>6 DEF KInv
<1>3. CASE BlockingDisconnectEnds
  <2>0. ik.worker = "hangingUp" /\ ik.handle \in Handles /\ ik.dialed
        /\ (ik.connected => ~ik.retry)
    BY <1>0, <1>3 DEF BlockingDisconnectEnds, Phases, Reasons
  <2>1. PICK lines \in Lines :
            /\ \A g \in Handles : lines[g] = ik.line[g] \/ (g = ik.handle /\ lines[g] = "gone")
            /\ \/ ik' = [ik EXCEPT !.line = lines, !.handle = 0, !.hosts = FALSE, !.worker = "off"]
               \/ /\ ~ik.connected
                  /\ ik' = [ik EXCEPT !.line = lines, !.handle = 0, !.hosts = FALSE,
                                      !.worker = "reinstalling"]
    <3>1. PICK lines \in {ik.line, [ik.line EXCEPT ![ik.handle] = "gone"]} :
              LET s == [ik EXCEPT !.line = lines, !.handle = 0, !.hosts = FALSE]
              IN  ik' = IF ik.retry THEN [s EXCEPT !.worker = "reinstalling"] ELSE RunEnds(s)
      BY <1>3 DEF BlockingDisconnectEnds
    <3>2. /\ lines \in Lines
          /\ \A g \in Handles : lines[g] = ik.line[g] \/ (g = ik.handle /\ lines[g] = "gone")
      BY <1>b, <2>0, <3>1 DEF Lines
    <3> QED BY <2>0, <3>1, <3>2 DEF RunEnds
  <2>2. /\ IkTypeOK' /\ ik'.line = lines /\ ik'.handle = 0 /\ ~ik'.hosts
        /\ ik'.failures = ik.failures /\ ik'.dialed = ik.dialed /\ ik'.stop = ik.stop
        /\ ik'.connected = ik.connected /\ ik'.notify = ik.notify
        /\ ik'.watched = ik.watched /\ ik'.apcs = ik.apcs
        /\ ik'.worker = "off" \/ (ik'.worker = "reinstalling" /\ ~ik.connected)
    BY <1>0, <2>1, HangUpFields DEF IkTypeOK
  <2>4. IkTypeOK'
    BY <2>1, <2>2
  <2>5. Phases' /\ Reasons' /\ Watched'
    <3>1. /\ ik'.worker = "off" \/ (ik'.worker = "reinstalling" /\ ~ik.connected)
          /\ ik'.handle = 0 /\ ~ik'.hosts /\ ik'.failures = ik.failures
          /\ ik'.dialed = ik.dialed /\ ik'.connected = ik.connected /\ ik'.stop = ik.stop
          /\ ik'.notify = ik.notify /\ ik'.watched = ik.watched
      BY <2>1, <2>2
    <3> QED BY <1>0, <2>0, <3>1 DEF Phases, Reasons, Watched, Unprepared, Undialed
  <2>6. /\ ik'.line = lines /\ ik'.failures = ik.failures /\ ik'.apcs = ik.apcs
        /\ ik'.dialed = ik.dialed /\ ik'.worker \in {"off", "reinstalling"}
    BY <2>1, <2>2
  <2>7. FreshHandles'
    <3>1. ik.handle = ik.failures + 1 /\ ik.failures + 1 \in Nat
      BY <1>0, <1>a, <2>0 DEF Phases, IkType, Handles
    <3>2. \A g \in Handles : g > ik.failures + 1 => lines[g] = ik.line[g]
      BY <2>1, <3>1 DEF Handles
    <3> QED BY <1>0, <2>0, <2>6, <3>2 DEF FreshHandles
  <2>8. Truthful'
    BY <1>0, <2>1, <2>6, LinesSettle
  <2> QED BY <2>4, <2>5, <2>7, <2>8 DEF KInv
<1> QED BY <1>1, <1>2, <1>3

\* The callbacks that the worker skips, or that end its wait.
LEMMA RestKeeps ==
    ASSUME KInv, ik.apcs # <<>>, ik'.apcs = Tail(ik.apcs), ik'.line = ik.line
    PROVE  Tail(ik.apcs) \in Queues /\ Truthful'
<1>1. ik.apcs \in Queues /\ Truthful
  BY DEF KInv, IkTypeOK, IkType
<1> QED BY <1>1, TailOfQueue DEF Truthful

\* A callback that is heeded is one of the present dial, before any verdict.
LEMMA HeededCallback ==
    ASSUME KInv, NEW event, Apc(event), Heeds(Head(ik.apcs))
    PROVE  /\ ik.worker \in {"monitoring", "hangingUp"}
           /\ ik.worker = "hangingUp" => ik.connected
           /\ event = "connected" => ik.line[ik.handle] \in {"up", "gone"}
<1>0. ik \in IkType /\ Phases /\ Truthful /\ Reasons
  BY DEF KInv, IkTypeOK
<1>1. ik.apcs \in Queues /\ ik.apcs # <<>> /\ Head(ik.apcs).event = event
      /\ ik.worker \in {"monitoring", "hangingUp", "setup"}
  BY <1>0 DEF Apc, IkType
<1>2. Head(ik.apcs) \in Callbacks /\ Head(ik.apcs) = ik.apcs[1] /\ 1 \in 1..Len(ik.apcs)
  BY <1>1, TailOfQueue
<1>3. ik.handle \in Handles
  BY <1>2 DEF Heeds, Callbacks
<1>4. ik.worker # "setup"
  BY <1>0, <1>3, IkAssumption DEF Phases, Undialed, Handles
<1>5. event = "connected" => ik.line[ik.handle] \in {"up", "gone"}
  BY <1>0, <1>1, <1>2 DEF Truthful, Heeds
<1> QED BY <1>0, <1>1, <1>4, <1>5 DEF Heeds, Reasons

LEMMA IkApcKeepsKInv ==
    ASSUME KInv, HandleDialState
    PROVE  KInv'
<1>0. ik \in IkType /\ Phases /\ FreshHandles /\ Truthful /\ Reasons /\ Watched
  BY DEF KInv, IkTypeOK
<1>1. PICK event : Apc(event)
  BY DEF HandleDialState, DialStateConnected, DialStateAuthError, DialStateError
<1>2. ik.apcs # <<>>
  BY <1>1 DEF Apc
<1>3. CASE ik' = Rest
  <2>1. ik' = [ik EXCEPT !.apcs = Tail(ik.apcs)]
    BY <1>3 DEF Rest
  <2>2. ik'.apcs = Tail(ik.apcs) /\ ik'.line = ik.line
    BY <1>0, <2>1 DEF IkType
  <2>3. Tail(ik.apcs) \in Queues /\ Truthful'
    BY <1>2, <2>2, RestKeeps
  <2>4. IkTypeOK'
    BY <1>0, <2>1, <2>3 DEF IkTypeOK, IkType
  <2>5. Phases' /\ Reasons' /\ Watched' /\ FreshHandles'
    BY <1>0, <2>1 DEF IkType, Phases, Reasons, Watched, FreshHandles, Unprepared, Undialed
  <2> QED BY <2>3, <2>4, <2>5 DEF KInv
<1>4. CASE /\ Heeds(Head(ik.apcs)) /\ ~ik.connected
           /\ Apc("connected") /\ ArmDropDetection([Rest EXCEPT !.worker = "connecting"])
  <2>1. /\ ik.worker = "monitoring" /\ ik.line[ik.handle] \in {"up", "gone"}
        /\ ik.line[ik.handle] # "gone"
        /\ ik' = [ik EXCEPT !.apcs = Tail(ik.apcs), !.worker = "connecting", !.watched = ik.handle]
    BY <1>0, <1>4, HeededCallback DEF ArmDropDetection, Rest, IkType
  <2>2. ik'.apcs = Tail(ik.apcs) /\ ik'.line = ik.line
    BY <1>0, <2>1 DEF IkType
  <2>3. Tail(ik.apcs) \in Queues /\ Truthful'
    BY <1>2, <2>2, RestKeeps
  <2>4. IkTypeOK'
    BY <1>0, <2>1, <2>3 DEF IkTypeOK, IkType
  <2>5. Phases' /\ Reasons' /\ Watched' /\ FreshHandles'
    BY <1>0, <1>4, <2>1 DEF IkType, Phases, Reasons, Watched, FreshHandles, Unprepared, Undialed
  <2> QED BY <2>3, <2>4, <2>5 DEF KInv
<1>5. ASSUME NEW outcome \in {"AuthError", "ConnectFailed", "ReinstallWan"},
             Heeds(Head(ik.apcs)), outcome = "AuthError" \/ ~ik.connected,
             ik' = Verdict(Rest, outcome)
      PROVE  KInv'
  <2>1. ik.worker \in {"monitoring", "hangingUp"} /\ (ik.worker = "hangingUp" => ik.connected)
    BY <1>1, <1>5, HeededCallback
  <2>2. \/ /\ ik.worker = "monitoring"
           /\ ik' = [ik EXCEPT !.apcs = Tail(ik.apcs), !.pending = outcome,
                               !.worker = "hangingUp", !.retry = (outcome = "ReinstallWan")]
        \/ /\ ik.worker = "hangingUp"
           /\ ik' = [ik EXCEPT !.apcs = Tail(ik.apcs), !.pending = outcome]
    BY <1>0, <1>5, <2>1 DEF Verdict, Rest, HangUp, IkType
  <2>3. ik'.apcs = Tail(ik.apcs) /\ ik'.line = ik.line
    BY <1>0, <2>2 DEF IkType
  <2>4. Tail(ik.apcs) \in Queues /\ Truthful'
    BY <1>2, <2>3, RestKeeps
  <2>5. IkTypeOK'
    BY <1>0, <2>2, <2>4 DEF IkTypeOK, IkType
  <2>6. Phases' /\ FreshHandles'
    <3>1. /\ ik'.worker = "hangingUp" /\ ik.worker \in {"monitoring", "hangingUp"}
          /\ ik'.line = ik.line /\ ik'.failures = ik.failures /\ ik'.handle = ik.handle
          /\ ik'.dialed = ik.dialed /\ ik'.hosts = ik.hosts /\ ik'.connected = ik.connected
      BY <1>0, <2>2 DEF IkType
    <3>2. Phases'
      BY <1>0, <3>1 DEF Phases, Unprepared, Undialed
    <3>3. FreshHandles'
      BY <1>0, <3>1 DEF FreshHandles, Phases
    <3> QED BY <3>2, <3>3
  <2>7. Reasons' /\ Watched'
    <3>1. /\ ik'.worker = "hangingUp" /\ ik'.pending = outcome /\ outcome # "None"
          /\ \/ ik'.retry = ik.retry /\ ik.worker = "hangingUp"
             \/ outcome # "ReinstallWan" => ~ik'.retry
          /\ ik.worker # "connecting"
          /\ ik'.connected = ik.connected /\ ik'.stop = ik.stop
          /\ ik'.notify = ik.notify /\ ik'.watched = ik.watched
      BY <1>0, <2>2 DEF IkType
    <3>2. ik.connected => outcome = "AuthError"
      BY <1>5
    <3>3. Watched'
      BY <3>1 DEF Watched
    <3>4. Reasons'
      BY <1>0, <3>1, <3>2 DEF Reasons
    <3> QED BY <3>3, <3>4
  <2> QED BY <2>4, <2>5, <2>6, <2>7 DEF KInv
<1> QED
  BY <1>3, <1>4, <1>5 DEF HandleDialState, DialStateConnected, DialStateAuthError, DialStateError

\* What RAS says of one line, with or without a callback, leaves the rest alone.
LEMMA CallbackFields ==
    ASSUME ik \in IkType, NEW h \in Handles, NEW event \in {"connected"} \cup DialErrors,
           NEW state \in {"dialing", "failed", "up", "gone"},
           Callback([ik EXCEPT !.line[h] = state], h, event)
    PROVE  /\ ik' \in IkType /\ ik'.line = [ik.line EXCEPT ![h] = state]
           /\ ik'.dialed = ik.dialed /\ ik'.stop = ik.stop /\ ik'.worker = ik.worker
           /\ ik'.handle = ik.handle /\ ik'.pending = ik.pending /\ ik'.retry = ik.retry
           /\ ik'.failures = ik.failures /\ ik'.hosts = ik.hosts
           /\ ik'.connected = ik.connected
           /\ ik'.notify = ik.notify /\ ik'.watched = ik.watched
           /\ \/ ik'.apcs = ik.apcs
              \/ ik'.apcs = Append(ik.apcs, [handle |-> h, event |-> event])
<1> DEFINE lines == [ik.line EXCEPT ![h] = state]
           queue == Append(ik.apcs, [handle |-> h, event |-> event])
<1>1. lines \in Lines
  BY DEF IkType, Lines
<1>2. [handle |-> h, event |-> event] \in Callbacks /\ ik.apcs \in Queues
  BY DEF Callbacks, IkType
<1>3. queue \in Queues
  BY <1>2, AppendToQueue
<1>4. ik' = [ik EXCEPT !.line = lines] \/ ik' = [ik EXCEPT !.line = lines, !.apcs = queue]
  BY DEF Callback, IkType
<1> HIDE DEF lines, queue
<1>5. CASE ik' = [ik EXCEPT !.line = lines]
  BY <1>1, <1>5 DEF IkType, lines
<1>6. CASE ik' = [ik EXCEPT !.line = lines, !.apcs = queue]
  BY <1>1, <1>3, <1>6 DEF IkType, lines, queue
<1> QED BY <1>4, <1>5, <1>6

\* A line that was dialed may change, but not from up or gone to anything else,
\* and the fall of the watched line is notified.
LEMMA LineChangeKeepsKInv ==
    ASSUME KInv, NEW h \in Handles, NEW state \in {"dialing", "failed", "up", "gone"},
           ik.line[h] # "none",
           ik.line[h] \in {"up", "gone"} => state \in {"up", "gone"},
           ik' \in IkType, ik'.line = [ik.line EXCEPT ![h] = state],
           ik'.dialed = ik.dialed, ik'.stop = ik.stop, ik'.worker = ik.worker,
           ik'.handle = ik.handle, ik'.pending = ik.pending, ik'.retry = ik.retry,
           ik'.failures = ik.failures, ik'.hosts = ik.hosts, ik'.connected = ik.connected,
           \/ /\ ik'.notify = ik.notify /\ ik'.watched = ik.watched
              /\ ik.watched = h /\ ik.line[h] = "up" => state = "up"
           \/ ik'.notify /\ ik'.watched = 0 /\ ik.watched # 0,
           \/ ik'.apcs = ik.apcs
           \/ \E event : /\ ik'.apcs = Append(ik.apcs, [handle |-> h, event |-> event])
                         /\ event \in {"connected"} \cup DialErrors
                         /\ event = "connected" => state = "up"
    PROVE  KInv'
<1>0. ik \in IkType /\ Phases /\ FreshHandles /\ Truthful /\ Reasons /\ Watched
  BY DEF KInv, IkTypeOK
<1>1. \A g \in Handles : ik'.line[g] = IF g = h THEN state ELSE ik.line[g]
  BY <1>0 DEF IkType, Lines
<1>2. Phases' /\ Reasons'
  BY <1>0 DEF Phases, Reasons
<1>3. FreshHandles'
  BY <1>0, <1>1 DEF FreshHandles
<1>4. Watched'
  <2>1. ik.worker \in {"monitoring", "connecting"} => ik.handle \in Handles
    BY <1>0 DEF Phases
  <2> QED BY <1>0, <1>1, <2>1 DEF Watched
<1>5. \A g \in Handles : ik.line[g] \in {"up", "gone"} => ik'.line[g] \in {"up", "gone"}
  BY <1>1
<1>6. CASE ik'.apcs = ik.apcs
  BY <1>0, <1>2, <1>3, <1>4, <1>5, <1>6, LinesSettle DEF KInv, IkTypeOK
<1>7. ASSUME NEW event, ik'.apcs = Append(ik.apcs, [handle |-> h, event |-> event]),
             event \in {"connected"} \cup DialErrors, event = "connected" => state = "up"
      PROVE  Truthful'
  <2> DEFINE c == [handle |-> h, event |-> event]
  <2>1. ik.apcs \in Queues /\ c \in Callbacks /\ c.handle = h /\ c.event = event
    BY <1>0, <1>7 DEF IkType, Callbacks
  <2> HIDE DEF c
  <2> SUFFICES ASSUME NEW i \in 1..Len(Append(ik.apcs, c)),
                      Append(ik.apcs, c)[i].event = "connected"
               PROVE  ik'.line[Append(ik.apcs, c)[i].handle] \in {"up", "gone"}
    BY <1>7 DEF Truthful, c
  <2>2. CASE Append(ik.apcs, c)[i] = c
    BY <1>1, <1>7, <2>1, <2>2
  <2>3. CASE i \in 1..Len(ik.apcs) /\ Append(ik.apcs, c)[i] = ik.apcs[i]
    <3>1. ik.line[ik.apcs[i].handle] \in {"up", "gone"}
      BY <1>0, <2>3 DEF Truthful
    <3>2. ik.apcs \in Seq(Callbacks)
      BY <1>0 DEF IkType, Queues
    <3>3. ik.apcs[i] \in Callbacks
      BY <2>3, <3>2
    <3>4. ik.apcs[i].handle \in Handles
      BY <3>3 DEF Callbacks
    <3> QED BY <1>5, <2>3, <3>1, <3>4
  <2> QED BY <2>1, <2>2, <2>3, AppendToQueue
<1> QED BY <1>2, <1>3, <1>4, <1>6, <1>7 DEF KInv, IkTypeOK

LEMMA RasKeepsKInv ==
    ASSUME KInv, Ras
    PROVE  KInv'
<1>0. ik \in IkType
  BY DEF KInv, IkTypeOK
<1>1. ASSUME NEW h \in Handles, LineComesUp(h) PROVE KInv'
  <2>1. Callback([ik EXCEPT !.line[h] = "up"], h, "connected") /\ ik.line[h] \in {"dialing", "failed"}
    BY <1>1 DEF LineComesUp
  <2> QED BY <1>0, <2>1, CallbackFields, LineChangeKeepsKInv
<1>2. ASSUME NEW h \in Handles, NEW event \in DialErrors, LineFails(h, event) PROVE KInv'
  <2> DEFINE state == IF ik.line[h] = "up" THEN "up" ELSE "failed"
  <2>1. ik.line[h] \in {"dialing", "up"} /\ event # "connected"
    BY <1>2 DEF LineFails, DialErrors
  <2>2. [ik EXCEPT !.line[h] = IF @ = "up" THEN @ ELSE "failed"] = [ik EXCEPT !.line[h] = state]
    BY <1>0 DEF IkType, Lines
  <2>3. Callback([ik EXCEPT !.line[h] = state], h, event)
    BY <1>2, <2>2 DEF LineFails
  <2>4. state \in {"up", "failed"} /\ (ik.line[h] \in {"up", "gone"} => state = "up")
    BY <2>1
  <2> HIDE DEF state
  <2> QED BY <1>0, <2>1, <2>3, <2>4, CallbackFields, LineChangeKeepsKInv
<1>3. ASSUME NEW h \in Handles, LineFalls(h) PROVE KInv'
  <2> DEFINE lines == [ik.line EXCEPT ![h] = "gone"]
  <2>1. lines \in Lines /\ ik.line[h] # "none"
    BY <1>0, <1>3 DEF IkType, Lines, LineFalls
  <2>2. \/ ik.watched = h /\ ik' = [ik EXCEPT !.line = lines, !.watched = 0, !.notify = TRUE]
        \/ ik.watched # h /\ ik' = [ik EXCEPT !.line = lines]
    BY <1>0, <1>3 DEF LineFalls, IkType
  <2>4. h # 0
    BY IkAssumption DEF Handles
  <2>5. lines = [ik.line EXCEPT ![h] = "gone"]
    OBVIOUS
  <2> HIDE DEF lines
  <2>3. /\ ik' \in IkType /\ ik'.line = lines
        /\ ik'.dialed = ik.dialed /\ ik'.stop = ik.stop /\ ik'.worker = ik.worker
        /\ ik'.handle = ik.handle /\ ik'.pending = ik.pending /\ ik'.retry = ik.retry
        /\ ik'.failures = ik.failures /\ ik'.hosts = ik.hosts
        /\ ik'.connected = ik.connected /\ ik'.apcs = ik.apcs
        /\ \/ ik'.notify = ik.notify /\ ik'.watched = ik.watched /\ ik.watched # h
           \/ ik'.notify /\ ik'.watched = 0 /\ ik.watched # 0
    BY <1>0, <2>1, <2>2, <2>4 DEF IkType
  <2> QED BY <2>1, <2>3, <2>5, LineChangeKeepsKInv
<1>4. CASE Notified
  <2>1. ik.watched # 0 /\ ik' = [ik EXCEPT !.watched = 0, !.notify = TRUE]
    BY <1>4 DEF Notified
  <2>2. /\ ik' \in IkType /\ ik'.line = ik.line
        /\ ik'.dialed = ik.dialed /\ ik'.stop = ik.stop /\ ik'.worker = ik.worker
        /\ ik'.handle = ik.handle /\ ik'.pending = ik.pending /\ ik'.retry = ik.retry
        /\ ik'.failures = ik.failures /\ ik'.hosts = ik.hosts
        /\ ik'.connected = ik.connected /\ ik'.apcs = ik.apcs
        /\ ik'.notify /\ ik'.watched = 0
    BY <1>0, <2>1 DEF IkType
  <2> QED
    BY <2>1, <2>2 DEF KInv, IkTypeOK, Phases, FreshHandles, Truthful, Reasons, Watched
<1> QED BY <1>1, <1>2, <1>3, <1>4 DEF Ras

LEMMA StepKeepsKInv == KInv /\ [IkNext]_ik => KInv'
<1>1. ASSUME KInv, UNCHANGED ik PROVE KInv'
  BY <1>1 DEF KInv, IkTypeOK, Phases, FreshHandles, Truthful, Reasons, Watched
<1>2. ASSUME KInv, IkNext PROVE KInv'
  BY <1>2, IkPlainKeepsKInv, IkDialKeepsKInv, IkApcKeepsKInv, RasKeepsKInv
     DEF IkNext, IkWorkerStep
<1> QED BY <1>1, <1>2

LEMMA KInvIsEnough == KInv => IkTypeOK /\ HostsAreRestored /\ TunnelIsWatched
BY DEF KInv, Phases, Unprepared, Watched, HostsAreRestored, TunnelIsWatched

\* Whatever ends the worker of IKEv2, the hosts file and the DNS protection are
\* as before, for every number of dials and of callbacks that wait.
THEOREM IKEv2Restores == IkSpec => []HostsAreRestored
BY IkStarts, StepKeepsKInv, KInvIsEnough, PTL DEF IkSpec

\* No callback of an earlier dial passes for the tunnel and no drop goes unseen,
\* however late the callbacks are.
THEOREM IKEv2Watched == IkSpec => []TunnelIsWatched
BY IkStarts, StepKeepsKInv, KInvIsEnough, PTL DEF IkSpec

-----------------------------------------------------------------------------
(* Every step of the IKEv2 connector is a step of that of IConnection.      *)

\* A worker that ends has settled the attempt: asked to or not, the abstract
\* connector may end with it.
LEMMA IkAbstractStep ==
    ASSUME \/ /\ ~ik.dialed /\ ik'.dialed /\ ik'.worker # "off" /\ ik'.stop = ik.stop
           \/ /\ ik.dialed /\ ik'.dialed /\ ik.worker # "off" /\ ik'.worker # "off"
              /\ ik'.stop = TRUE
           \/ /\ ik.dialed /\ ik'.dialed /\ ik.worker # "off" /\ ik'.stop = ik.stop
           \/ ik'.dialed = ik.dialed /\ ik'.worker = ik.worker /\ ik'.stop = ik.stop
    PROVE  [IkPromise!Next]_(IkPromise!vars)
BY DEF IkPromise!Next, IkPromise!vars, IkPromise!Start, IkPromise!AskStop, IkPromise!End

LEMMA IkRefinesStep ==
    ASSUME KInv, [IkNext]_ik
    PROVE  [IkPromise!Next]_(IkPromise!vars)
<1>0. ik \in IkType /\ (ik.worker # "off" => ik.dialed)
  BY DEF KInv, IkTypeOK, Phases
<1> USE <1>0
<1>1. CASE IkStartConnect
  <2>1. ~ik.dialed /\ ik'.dialed /\ ik'.worker # "off" /\ ik'.stop = ik.stop
    BY <1>1 DEF IkStartConnect, IkType
  <2> QED BY <2>1, IkAbstractStep
<1>2. CASE IkStartDisconnect
  <2>1. /\ ik.dialed /\ ik'.dialed /\ ik.worker # "off" /\ ik'.worker # "off"
        /\ ik'.stop = TRUE
    BY <1>2 DEF IkStartDisconnect, IkType
  <2> QED BY <2>1, IkAbstractStep
<1>3. CASE IkWorkerStep
  <2> SUFFICES ik.worker # "off" /\ ik'.dialed = ik.dialed /\ ik'.stop = ik.stop
    BY IkAbstractStep
  <2>1. CASE ServiceChecked \/ SetupFails \/ SetupSucceeds \/ DialGivenUp \/ RasDial
    BY <2>1 DEF ServiceChecked, SetupFails, SetupSucceeds, DialGivenUp, RasDial, RunEnds, IkType
  <2>2. CASE StopSeen \/ NotifySeen \/ ConnectDecides
    BY <2>2 DEF StopSeen, NotifySeen, ConnectDecides, HangUp, ArmDropDetection, IkType
  <2>3. CASE BlockingDisconnectEnds
    BY <2>3 DEF BlockingDisconnectEnds, RunEnds, IkType
  <2>4. CASE HandleReinstallWan
    BY <2>4 DEF HandleReinstallWan, RunEnds, IkType
  <2>5. CASE PauseEnds
    BY <2>5 DEF PauseEnds, RunEnds, IkType
  <2> QED BY <1>3, <2>1, <2>2, <2>3, <2>4, <2>5 DEF IkWorkerStep
<1>4. CASE HandleDialState
  <2> SUFFICES ik.worker # "off" /\ ik'.dialed = ik.dialed /\ ik'.stop = ik.stop
    BY IkAbstractStep
  <2>1. CASE DialStateConnected
    BY <2>1 DEF DialStateConnected, Apc, Rest, Verdict, HangUp, ArmDropDetection, IkType
  <2>2. CASE DialStateAuthError
    BY <2>2 DEF DialStateAuthError, Apc, Rest, Verdict, HangUp, IkType
  <2>3. CASE DialStateError("transient", "ConnectFailed") \/ DialStateError("other", "ReinstallWan")
    BY <2>3 DEF DialStateError, Apc, Rest, Verdict, HangUp, IkType
  <2> QED BY <1>4, <2>1, <2>2, <2>3 DEF HandleDialState
<1>5. CASE Ras
  <2> SUFFICES ik'.dialed = ik.dialed /\ ik'.worker = ik.worker /\ ik'.stop = ik.stop
    BY IkAbstractStep
  <2> QED BY <1>5 DEF Ras, LineComesUp, LineFails, LineFalls, Notified, Callback, IkType
<1>6. CASE UNCHANGED ik
  BY <1>6, IkAbstractStep
<1> QED BY <1>1, <1>2, <1>3, <1>4, <1>5, <1>6 DEF IkNext

\* The IKEv2 connector implements the safety part of IConnection: nothing ends
\* or settles in a way ConnectionManager was not promised.
THEOREM IkImplementsSafely ==
    IkSpec => IkPromise!Init /\ [][IkPromise!Next]_(IkPromise!vars)
<1>1. IkInit => IkPromise!Init
  BY DEF IkInit, IkPromise!Init
<1> QED BY <1>1, IkStarts, StepKeepsKInv, IkRefinesStep, PTL DEF IkSpec

-----------------------------------------------------------------------------
(* WireGuard of Windows.  The service and the DNS protection belong to      *)
(* phases of the worker.                                                    *)

ServicePhases ==
    /\ ~ww.dialed => ww.worker = "off" /\ ~ww.stop /\ ww.service = "none" /\ ~ww.dns
    /\ ww.worker = "off" => ww.service = "none" \/ ww.kept
    /\ ww.worker = "installing" => ww.service = "none"
    /\ ww.dns => ww.worker \in {"started", "waiting", "stopping"}

SInv == WwTypeOK /\ ServicePhases

LEMMA WwStarts == WwInit => SInv
BY WwAssumption DEF WwInit, SInv, WwTypeOK, WwType, ServicePhases

LEMMA StepKeepsSInv == SInv /\ [WwNext]_ww => SInv'
<1> SUFFICES ASSUME SInv, [WwNext]_ww PROVE SInv' OBVIOUS
<1> USE WwAssumption DEF SInv, WwTypeOK, WwType, ServicePhases
<1>1. CASE WwStartConnect \/ WwStartDisconnect
  BY <1>1 DEF WwStartConnect, WwStartDisconnect
<1>2. CASE Installs
  BY <1>2 DEF Installs
<1>3. CASE Configures
  BY <1>3 DEF Configures, StopWireGuard
<1>4. CASE ServiceStarts
  BY <1>4 DEF ServiceStarts
<1>5. CASE ServiceStartsAgain
  BY <1>5 DEF ServiceStartsAgain
<1>6. CASE ServiceNotStarted
  BY <1>6 DEF ServiceNotStarted, StopWireGuard
<1>7. CASE TimersMade \/ StopEventSeen
  BY <1>7 DEF TimersMade, StopEventSeen
<1>8. CASE Stops
  BY <1>8 DEF Stops, StopWireGuard
<1>9. CASE OnTunnelConnected
  BY <1>9 DEF OnTunnelConnected
<1>10. CASE OnCheckServiceRunning \/ GivenUp
  BY <1>10 DEF OnCheckServiceRunning, GivenUp
<1>11. CASE ServiceDies
  BY <1>11 DEF ServiceDies
<1>12. CASE UNCHANGED ww
  BY <1>12
<1> QED
  BY <1>1, <1>2, <1>3, <1>4, <1>5, <1>6, <1>7, <1>8, <1>9, <1>10, <1>11, <1>12
     DEF WwNext, WwRun

\* Whatever ends the worker, the DNS protection is lifted and the service gone,
\* unless the helper failed to stop it.
THEOREM ServiceRemoved == WwSpec => []ServiceIsRemoved
<1>1. SInv => ServiceIsRemoved
  BY DEF SInv, ServicePhases, ServiceIsRemoved
<1> QED BY <1>1, WwStarts, StepKeepsSInv, PTL DEF WwSpec

LEMMA WwAbstractStep ==
    ASSUME \/ /\ ~ww.dialed /\ ww'.dialed /\ ww'.worker # "off" /\ ww'.stop = ww.stop
           \/ /\ ww.dialed /\ ww'.dialed /\ ww.worker # "off" /\ ww'.worker # "off"
              /\ ww'.stop = TRUE
           \/ /\ ww.dialed /\ ww'.dialed /\ ww.worker # "off" /\ ww'.stop = ww.stop
           \/ ww'.dialed = ww.dialed /\ ww'.worker = ww.worker /\ ww'.stop = ww.stop
    PROVE  [WwPromise!Next]_(WwPromise!vars)
BY DEF WwPromise!Next, WwPromise!vars, WwPromise!Start, WwPromise!AskStop, WwPromise!End

\* The WireGuard connector of Windows implements the safety part of IConnection:
\* a service that dies or is given up ends the attempt as a stop does.
THEOREM WwImplementsSafely ==
    WwSpec => WwPromise!Init /\ [][WwPromise!Next]_(WwPromise!vars)
<1>1. WwInit => WwPromise!Init
  BY DEF WwInit, WwPromise!Init
<1>2. ASSUME SInv, [WwNext]_ww PROVE [WwPromise!Next]_(WwPromise!vars)
  <2>0. ww \in WwType /\ (ww.worker # "off" => ww.dialed) /\ (~ww.dialed => ww.service = "none")
    BY <1>2 DEF SInv, WwTypeOK, ServicePhases
  <2> USE <2>0 DEF WwType
  <2>1. CASE WwStartConnect
    BY <2>1, WwAbstractStep DEF WwStartConnect
  <2>2. CASE WwStartDisconnect \/ OnCheckServiceRunning \/ GivenUp
    BY <2>2, WwAbstractStep DEF WwStartDisconnect, OnCheckServiceRunning, GivenUp
  <2>3. CASE WwRun
    <3> SUFFICES ww.worker # "off" /\ ww'.dialed = ww.dialed /\ ww'.stop = ww.stop
      BY WwAbstractStep
    <3> QED
      BY <2>3 DEF WwRun, Installs, Configures, ServiceStarts, ServiceStartsAgain,
                  ServiceNotStarted, TimersMade, StopEventSeen, Stops, StopWireGuard
  <2>4. CASE OnTunnelConnected \/ ServiceDies \/ UNCHANGED ww
    BY <2>4, WwAbstractStep DEF OnTunnelConnected, ServiceDies
  <2> QED BY <1>2, <2>1, <2>2, <2>3, <2>4 DEF WwNext
<1> QED BY <1>1, <1>2, WwStarts, StepKeepsSInv, PTL DEF WwSpec

-----------------------------------------------------------------------------
(* The attempt: one connector is made, and each part makes its own steps.   *)

AttemptInv ==
    /\ made \in Made \cup {"none", "tunnel"}
    /\ OInv /\ WInv /\ KInv /\ SInv /\ TInv /\ IInv

LEMMA PartsStep ==
    [Next]_vars => /\ [OvNext]_ov /\ [WgNext]_wg /\ [IkNext]_ik /\ [WwNext]_ww
                   /\ [TtNext]_tt /\ [FetchNext]_gvars
                   /\ (made' = made \/ made' \in Made \/ made' = "tunnel")
BY DEF Next, vars, CreateConnection, TunnelIsUp, Earlier, Prepare, FetchNext

LEMMA AttemptStarts == Init => AttemptInv
BY OvStarts, WgStarts, IkStarts, WwStarts, TtStarts, InitIInv DEF Init, AttemptInv

LEMMA StepKeepsAttempt == AttemptInv /\ [Next]_vars => AttemptInv'
BY PartsStep, StepKeepsOInv, WgKeepsWInv, StepKeepsKInv, StepKeepsSInv, TtKeeps, StepIInv DEF AttemptInv

\* Every connector, its configuration fetch, their retry limits and the tests of
\* the tunnel keep their types in the attempt that makes one of them.
THEOREM AttemptTyped == Spec => []TypeOK
<1>1. AttemptInv => TypeOK
  BY DEF AttemptInv, TypeOK, OInv, WInv, KInv, SInv, TInv, Consistent, TtTypeOK, IInv
<1> QED BY <1>1, AttemptStarts, StepKeepsAttempt, PTL DEF Spec

\* Whichever connector is made, and however its worker ends, no daemon or service
\* is left and the hosts file and the DNS protection are restored.
THEOREM AttemptEndsClean ==
    ASSUME HelperFailures <= StopRetries
    PROVE  Spec => []EndsClean
<1>1. Init => AttemptInv /\ DaemonIsStopped
  BY AttemptStarts DEF Init, WgInit, DaemonIsStopped
<1>2. AttemptInv /\ DaemonIsStopped /\ [Next]_vars => (AttemptInv /\ DaemonIsStopped)'
  BY StepKeepsAttempt, PartsStep, DaemonStopStep DEF AttemptInv
<1>3. AttemptInv /\ DaemonIsStopped => EndsClean
  BY KInvIsEnough DEF AttemptInv, EndsClean, SInv, ServicePhases, ServiceIsRemoved
<1> QED BY <1>1, <1>2, <1>3, PTL DEF Spec

\* An attempt that reports an IKEv2 tunnel has it, and sees it fall.
THEOREM AttemptWatched == Spec => []TunnelIsWatched
<1>1. AttemptInv => TunnelIsWatched
  BY KInvIsEnough DEF AttemptInv
<1> QED BY <1>1, AttemptStarts, StepKeepsAttempt, PTL DEF Spec

\* No attempt, whatever its connector, loses a registered key or stores a
\* configuration that was not granted.
THEOREM AttemptKeepsKeys == Spec => [](RegisteredKeyIsStored /\ StoredWasGranted)
<1>1. AttemptInv => RegisteredKeyIsStored /\ StoredWasGranted
  BY DEF AttemptInv, IInv
<1> QED BY <1>1, AttemptStarts, StepKeepsAttempt, PTL DEF Spec
=============================================================================
