------------------------- MODULE ConnectionManager -------------------------
(***************************************************************************)
(* The connection manager: the state machine that drives one VPN session   *)
(* through attempts, failures, reconnects, sleep and network loss          *)
(* (src/client/engine/engine/connectionmanager/connectionmanager.cpp).     *)
(*                                                                         *)
(* The manager runs on one thread.  Each of its slots and public methods   *)
(* is an action; the private methods they call are operators that map the  *)
(* object's state, a record, to its state after the call.  Signals of the  *)
(* connector are queued (Qt::QueuedConnection), so the queue is part of    *)
(* the record; the connector itself is modelled by the contract of         *)
(* connectors/iconnection.h.                                               *)
(***************************************************************************)
EXTENDS AttemptStrategy, ConnectErrors

CONSTANTS
    SessionKinds,      \* the kinds of strategy a user may start a session with
    Platform,          \* "macos", "windows" or "linux"
    HasSleepEvents,    \* the manager was given a source of sleep and wake events
    EmitAuthError,     \* bEmitAuthError of the connect request
    StartErrors,       \* errors after which a starting connector is already settled
    LiveErrors,        \* errors a dialed connector reports while still running
    PrepareErrors,     \* errors of prepare()
    DnsOutcomes,       \* what dnsConfigurator_->prepare() may answer
    AdapterOutcomes,   \* whether an online machine has a default adapter
    MaxEndpoints,      \* bound on the emergency endpoint list
    MaxQueue,          \* bound on the queued signals new events may add to
    SilentSettle,      \* a stopping connector may settle with an error only
    MayToggleAlwaysOn  \* the user may change Firewall Always On+ at run time

ASSUME PlatformAssumption ==
    /\ SessionKinds \subseteq Kinds
    /\ Platform \in {"macos", "windows", "linux"}
    /\ HasSleepEvents \in BOOLEAN /\ EmitAuthError \in BOOLEAN
    /\ SilentSettle \in BOOLEAN /\ MayToggleAlwaysOn \in BOOLEAN
    /\ DnsOutcomes \subseteq BOOLEAN /\ AdapterOutcomes \subseteq BOOLEAN
ASSUME ErrorAssumption ==
    /\ StartErrors \subseteq RuntimeErrors /\ LiveErrors \subseteq RuntimeErrors
    /\ PrepareErrors \subseteq ConnectError
ASSUME BoundAssumption == MaxEndpoints \in Nat /\ MaxQueue \in Nat \ {0}

VARIABLES
    cm,       \* the ConnectionManager object, its connector and its queued signals
    online,   \* NetworkDetectionManager::isOnline()
    asleep    \* the machine went to sleep and has not woken up

vars == <<cm, online, asleep>>

States == {"Disconnected", "Connecting", "Connected", "Reconnecting",
           "WaitingForNetwork", "Sleeping", "Stopping"}
\* timerReconnection_, connectTimer_, connectingTimer_, timerWaitNetworkConnectivity_
Timers == {"cap", "rest", "connecting", "poll"}
Outcomes == {"user", "itself", "timeout", "error"}
\* The connector: absent, not dialed, started (no process yet), dialing, up,
\* told to stop while starting or later, settled.
Connectors == {"none", "idle", "starting", "dialing", "up", "aborting", "stopping", "down"}
Live == {"starting", "dialing", "up", "aborting", "stopping"}
SignalNames == {"prepared", "prepareFailed", "keyLimit", "connected", "reconnecting",
                "disconnected", "error"}
Signals == [current : BOOLEAN,        \* its sender is the current connector
            name : SignalNames, err : ConnectError]

TypeOfManager ==
    [state : States, cause : {"Regular", "Wake"},
     pending : Outcomes \cup {"authError"}, \* pendingOutcome_; "user" is isUserInitiated
     timers : SUBSET Timers,           \* the timers that are active
     conn : Connectors,                \* connector_
     fetches : BOOLEAN,                \* its capabilities().supportsCachedConfig
     dialed : BOOLEAN,                 \* isConnectorDialed_, of a connector that exists
     prep : {"none", "preparing", "consent"}, \* its prepare(), in flight or paused
     fetchMode : {"None", "CachedOnly", "Normal"}, \* configFetchMode of that prepare()
     queue : Seq(Signals),
     walk : Strategy,                  \* attemptStrategy_
     resolving : BOOLEAN,              \* its asynchronous resolveHostnames() is in flight
     ignore : BOOLEAN,                 \* bIgnoreConnectionErrors_
     succeeded : BOOLEAN,              \* bAttemptSucceeded_
     wake : BOOLEAN,                   \* bWakeSignalReceived_
     lastOnline : BOOLEAN,             \* bLastIsOnline_
     alwaysOnPlus : BOOLEAN,           \* isFirewallAlwaysOnPlusEnabled_
     stored : BOOLEAN,                 \* a stored WireGuard configuration is usable
     blocking : BOOLEAN,               \* inside the event loop of blockingDisconnect()
     keyPrompt : BOOLEAN,              \* the key-limit question is on the screen
     authPrompt : BOOLEAN,             \* the credentials question is on the screen
     told : Seq(Outcomes)]             \* what was reported of the current session

\* What an attempt depends on that the manager does not control.
Conditions == [usable : BOOLEAN,   \* online, with a default adapter
               dns : BOOLEAN,      \* dnsConfigurator_->prepare()
               node : BOOLEAN]     \* a custom configuration's names resolved
Now == {[usable |-> online /\ a, dns |-> d, node |-> n] :
            a \in AdapterOutcomes, d \in DnsOutcomes, n \in BOOLEAN}

-----------------------------------------------------------------------------
(* The connector, as its contract has it *)

Emit(m, name, err) ==
    IF m.blocking THEN m
    ELSE [m EXCEPT !.queue = Append(m.queue, [current |-> TRUE, name |-> name, err |-> err])]

\* Mutant: a settled connector does not answer startDisconnect().
StartDisconnectOfLive(m) ==
    CASE m.conn \in {"idle", "down"} -> [m EXCEPT !.conn = "down", !.prep = "none"]
      [] m.conn = "starting" -> [m EXCEPT !.conn = "aborting"]
      [] m.conn \in {"dialing", "up"} -> [m EXCEPT !.conn = "stopping"]
      [] OTHER -> m

\* startDisconnect(): a connector that is not dialed or already settled
\* answers at once, a live one later.
StartDisconnect(m) ==
    CASE m.conn \in {"idle", "down"} ->
           Emit([m EXCEPT !.conn = "down", !.prep = "none"], "disconnected", "kNoError")
      [] m.conn = "starting" -> [m EXCEPT !.conn = "aborting"]
      [] m.conn \in {"dialing", "up"} -> [m EXCEPT !.conn = "stopping"]
      [] OTHER -> m

Teardown(m) == [m EXCEPT !.prep = "none"]

\* teardown() and SAFE_DELETE_LATER: what the connector has queued is still
\* delivered, but no longer comes from the current connector.
Retire(m) ==
    [m EXCEPT !.conn = "none", !.prep = "none", !.dialed = FALSE, !.fetchMode = "None",
              !.queue = [i \in DOMAIN m.queue |-> [m.queue[i] EXCEPT !.current = FALSE]]]

-----------------------------------------------------------------------------
(* State, timers, outcomes *)

IsAttemptActive(m) == m.state \in {"Connecting", "Reconnecting", "WaitingForNetwork"}

SetState(m, s, c) == [m EXCEPT !.state = s, !.cause = c]
Arm(m, ts) == [m EXCEPT !.timers = m.timers \cup ts]
\* Mutant: the connect timeout is not stopped with the attempt.
DisarmAllButConnecting(m, ts) == [m EXCEPT !.timers = m.timers \ (ts \ {"connecting"})]

Disarm(m, ts) == [m EXCEPT !.timers = m.timers \ ts]
\* A second outcome of a session is kept, a third would show nothing more.
Report(m, outcome) == IF Len(m.told) < 2 THEN [m EXCEPT !.told = Append(m.told, outcome)] ELSE m

\* Mutant: a poll that survives the end of the session.
DisconnectKeepingPoll(m) ==
    SetState([m EXCEPT !.timers = m.timers \cap {"poll"}], "Disconnected", "Regular")

Disconnect(m) == SetState([m EXCEPT !.timers = {}], "Disconnected", "Regular")
ResetWalk(m) == [m EXCEPT !.walk = Reset(m.walk),
                          !.resolving = m.resolving /\ m.walk.kind # "emergency"]

\* Mutant: a reconnect that the cap does not limit.
EnterReconnectingUncapped(m) == SetState(m, "Reconnecting", "Regular")

EnterReconnecting(m) == Arm(SetState(m, "Reconnecting", "Regular"), {"cap"})
Stop(m, outcome) == SetState([m EXCEPT !.pending = outcome, !.timers = {}], "Stopping", "Regular")

FailWithError(m) == Report(Disconnect(IF m.conn = "none" THEN m ELSE Retire(m)), "error")

\* clickDisconnect(reason)
Click(m) ==
    IF m.state = "Stopping" /\ m.pending = "user" THEN m
    ELSE IF m.conn # "none" THEN StartDisconnect(Stop(m, "user"))
    ELSE Report(ResetWalk(Disconnect(m)), "user")

ClearCachedConfigIfExhausted(m, isCachedConfigFailure) ==
    IF /\ m.conn # "none" /\ m.fetches /\ isCachedConfigFailure
       /\ IsCachedConfigExhausted(m.walk)
    THEN [m EXCEPT !.stored = FALSE, !.walk = ForgetCachedConfig(m.walk)] ELSE m

\* handleAttemptFailed.  Its callers have a connector (FailuresHaveConnector),
\* so the branch that goes on without one is never taken.
HandleAttemptFailed(m, disconnectConnector) ==
    LET f == RecordFailure(m.walk, m.succeeded)
        failed == [m EXCEPT !.walk = f.walk]
        next == IF f.giveUp THEN Stop(failed, "itself")
                ELSE IF m.state # "Reconnecting" \/ m.cause = "Wake" THEN EnterReconnecting(failed)
                ELSE failed
    IN  IF disconnectConnector THEN StartDisconnect(next) ELSE next

HandleReconnecting(m) ==
    LET seen == [m EXCEPT !.ignore = TRUE]
    IN  CASE m.ignore -> m
          [] ~m.ignore /\ m.state \in {"Connecting", "Reconnecting"} ->
               IF m.cause # "Wake" THEN HandleAttemptFailed(seen, TRUE) ELSE seen
          [] ~m.ignore /\ m.state = "Connected" /\ m.conn \in Live ->
               StartDisconnect(EnterReconnecting(seen))
          [] OTHER -> seen

StartFailoverReconnect(m) == HandleReconnecting(EnterReconnecting(m))

-----------------------------------------------------------------------------
(* An attempt *)

\* The endpoint is known: decide how to prepare the connector, and prepare it.
HostnamesResolved(m0, env) ==
    LET m == [m0 EXCEPT !.ignore = FALSE]
        advice == CachedConfigAdvice(m.walk)
        gated == m.fetches /\ m.walk.kind # "custom"
    IN  CASE m0.conn = "none" \/ ~IsAttemptActive(m0) -> m0
          [] OTHER ->
               IF ~HasCurrentNode(m.walk, env.node) \/ ~env.dns THEN FailWithError(m)
               ELSE IF gated /\ m.alwaysOnPlus /\ advice = "Advance" THEN StartFailoverReconnect(m)
               ELSE IF gated /\ m.alwaysOnPlus /\ advice = "Abort" THEN FailWithError(m)
               ELSE [m EXCEPT !.prep = "preparing",
                              !.fetchMode = IF gated /\ m.alwaysOnPlus THEN "CachedOnly" ELSE "Normal",
                              !.walk = IF ~gated THEN m.walk
                                       ELSE IF m.alwaysOnPlus THEN TakeCachedAttempt(m.walk)
                                       ELSE ResetCachedConfigBudget(m.walk)]

\* recreateConnector, with the timer of the attempt
RecreateConnector(m, protocol) ==
    [Retire(m) EXCEPT !.conn = "idle", !.fetches = (protocol = "wireguard"),
                      !.timers = (m.timers \ {"rest"})
                                 \cup IF UsesConnectTimeout(m.walk) THEN {"connecting"} ELSE {}]

StartAttempt(m, env) ==
    LET protocol == PreResolveProtocol(m.walk)
        ready == RecreateConnector(m, protocol)
    IN  CASE LockdownBlocks(protocol) \/ protocol = NoProtocol -> FailWithError(m)
          [] OTHER ->
               IF ~env.usable THEN
                   IF ShouldWaitForNetwork(m.walk) THEN Arm(m, {"cap", "poll"})
                   ELSE Report(Disconnect(m), "itself")
               ELSE IF ResolvesAsynchronously(m.walk) THEN [ready EXCEPT !.resolving = TRUE]
               ELSE HostnamesResolved(ready, env)

ConnectOrStartConnectTimer(m, env) ==
    IF HasProtocolChanged(m.walk) THEN Arm(m, {"rest"}) ELSE StartAttempt(m, env)

\* Mutant: a wake without network relies on the online slot alone.
RestoreWithoutPoll(m, env) ==
    IF m.lastOnline THEN StartDisconnect(SetState(m, "Reconnecting", "Wake"))
    ELSE SetState(m, "WaitingForNetwork", "Regular")

RestoreConnectionAfterWakeUp(m, env) ==
    LET waiting == SetState(m, "WaitingForNetwork", "Regular")
        waking == SetState(m, "Reconnecting", "Wake")
    IN  IF m.lastOnline
        THEN IF m.conn # "none" THEN StartDisconnect(waking) ELSE StartAttempt(waking, env)
        ELSE IF m.conn = "none" \/ ~m.dialed THEN Arm(waiting, {"cap", "poll"}) ELSE waiting

-----------------------------------------------------------------------------
(* Public methods, called by the engine *)

\* New events wait while MaxQueue signals are queued.
Room == Len(cm.queue) < MaxQueue
World == <<online, asleep>>

NewWalk(m, kind) == [m EXCEPT !.walk = CreateStrategy(kind, m.alwaysOnPlus, m.stored)]

ClickConnect(kind) ==
    /\ Room /\ cm.state = "Disconnected" /\ ~asleep /\ ~cm.blocking
    /\ \E env \in Now :
          cm' = StartAttempt(
                   NewWalk(Retire([SetState(cm, "Connecting", "Regular") EXCEPT
                                     !.succeeded = FALSE, !.resolving = FALSE,
                                     !.authPrompt = FALSE, !.told = <<>>]), kind), env)
    /\ UNCHANGED World

\* A click on a session that is over is answered too, and stops a connector
\* that outlived it; to decline the credentials question is such a click.
ClickDisconnect ==
    LET over == cm.state = "Disconnected"
    IN  /\ Room
        /\ cm' = Click([cm EXCEPT !.authPrompt = FALSE, !.told = IF over THEN <<>> ELSE cm.told])
        /\ UNCHANGED World

Reconnect ==
    /\ Room
    /\ cm.conn # "none" /\ cm.dialed
    /\ cm' = HandleReconnecting(cm)
    /\ UNCHANGED World

\* forwardUserInputOrReconnect, when the question followed a session's end
ForwardUserInputOrReconnect ==
    /\ Room /\ cm.authPrompt /\ cm.state = "Disconnected" /\ ~asleep /\ ~cm.blocking
    /\ \E env \in Now :
          cm' = StartAttempt([SetState(cm, "Connecting", "Regular") EXCEPT
                                !.succeeded = FALSE, !.authPrompt = FALSE], env)
    /\ UNCHANGED World

OnWireGuardKeyLimitUserResponse(deleteOldestKey) ==
    LET m == [cm EXCEPT !.keyPrompt = FALSE]
    IN  /\ Room /\ cm.keyPrompt
        /\ cm' = CASE ~IsAttemptActive(m) -> m
                   [] IsAttemptActive(m) /\ ~deleteOldestKey -> Click(m)
                   [] IsAttemptActive(m) /\ deleteOldestKey /\ m.conn # "none" ->
                        Arm([m EXCEPT !.prep = IF m.prep = "consent" THEN "preparing" ELSE m.prep],
                            {"connecting"})
                   [] OTHER -> m
        /\ UNCHANGED World

\* A change of network brings other settings; a custom configuration stays one.
UpdateConnectionSettings(kind) ==
    LET m == NewWalk([cm EXCEPT !.resolving = cm.resolving /\ kind = "custom"], kind)
    IN  /\ Room /\ (cm.state # "Disconnected" \/ cm.authPrompt)
        /\ kind # "emergency" /\ (kind = "custom" <=> cm.walk.kind = "custom")
        /\ cm.walk.kind # "emergency"
        /\ cm' = IF m.conn # "none" /\ m.dialed /\ m.state \in {"Connecting", "Connected"}
                 THEN StartDisconnect(EnterReconnecting(m)) ELSE m
        /\ UNCHANGED World

SetFirewallAlwaysOnPlusEnabled ==
    /\ MayToggleAlwaysOn
    /\ cm' = [cm EXCEPT !.alwaysOnPlus = ~cm.alwaysOnPlus]
    /\ UNCHANGED World

OnTunnelTestResult(success) ==
    /\ Room /\ cm.state = "Connected"
    /\ cm' = IF success
             THEN [cm EXCEPT !.walk = ResetCachedConfigBudget(cm.walk),
                             !.succeeded = cm.succeeded \/ IsAutomaticMode(cm.walk)]
             ELSE IF SurfacesTunnelTestFailure(cm.walk) THEN cm
             ELSE HandleAttemptFailed(cm, TRUE)
    /\ UNCHANGED World

-----------------------------------------------------------------------------
(* Timers and asynchronous answers *)

OnTimerReconnection ==
    LET m == Disarm(cm, {"cap"})
    IN  /\ "cap" \in cm.timers
        /\ cm' = CASE m.state = "Stopping" -> m
                   [] m.state # "Stopping" /\ m.conn # "none" -> StartDisconnect(Stop(m, "timeout"))
                   [] OTHER -> Report(Disconnect(m), "timeout")
        /\ UNCHANGED World

OnConnectTrigger ==
    /\ Room /\ "rest" \in cm.timers
    /\ \E env \in Now : cm' = StartAttempt(Disarm(cm, {"rest"}), env)
    /\ UNCHANGED World

OnConnectingTimeout ==
    /\ Room /\ "connecting" \in cm.timers
    /\ cm' = StartFailoverReconnect(
                ClearCachedConfigIfExhausted(Disarm(cm, {"connecting"}), TRUE))
    /\ UNCHANGED World

\* Mutant: the poll goes on ticking beside the attempt it started.
OnTimerWaitNetworkConnectivityTicking ==
    /\ Room /\ "poll" \in cm.timers
    /\ \E env \in Now : env.usable /\ cm' = StartAttempt(SetState(cm, "Reconnecting", "Regular"), env)
    /\ UNCHANGED World

\* A tick of the poll that finds no network gives up when the cap is overdue.
OnTimerWaitNetworkConnectivity ==
    /\ Room /\ "poll" \in cm.timers
    /\ \E env \in Now :
          \/ /\ env.usable
             /\ cm' = StartAttempt(IF cm.state = "WaitingForNetwork"
                                   THEN SetState(Disarm(cm, {"poll"}), "Reconnecting", "Regular")
                                   ELSE Disarm(cm, {"poll"}), env)
          \/ /\ ~env.usable /\ "cap" \in cm.timers
             /\ cm' = Report(Disconnect(cm), "timeout")
    /\ UNCHANGED World

\* The asynchronous half of resolveHostnames: the names of a custom
\* configuration, or the emergency endpoint list (n endpoints).
OnHostnamesResolved(n) ==
    /\ Room /\ cm.resolving
    /\ cm.walk.kind = "emergency" \/ n = 0
    /\ \E env \in Now :
          LET m == [cm EXCEPT !.resolving = FALSE,
                              !.walk = IF cm.walk.kind = "emergency"
                                       THEN OnEndpointsReceived(cm.walk, n) ELSE cm.walk]
          IN  cm' = HostnamesResolved(m, env)
    /\ UNCHANGED World

-----------------------------------------------------------------------------
(* Slots of the connector's queued signals *)

Received(name) == cm.queue # <<>> /\ Head(cm.queue).name = name /\ Head(cm.queue).current
Taken == [cm EXCEPT !.queue = Tail(cm.queue)]
\* The states in which a queued signal finds its attempt settled.
IsSettled(m) == m.state \in {"Stopping", "Sleeping", "Disconnected"}

\* isSenderCurrentConnector() is false: every slot returns.
IgnoreRetiredConnector ==
    /\ cm.queue # <<>> /\ ~Head(cm.queue).current
    /\ cm' = Taken
    /\ UNCHANGED World

OnConnectionPrepared ==
    /\ Received("prepared")
    /\ cm' = IF IsAttemptActive(cm) /\ ~cm.dialed
             THEN [Taken EXCEPT !.conn = "starting", !.dialed = TRUE] ELSE Taken
    /\ UNCHANGED World

OnConnectionPrepareFailed ==
    /\ Received("prepareFailed")
    /\ cm' = IF ~IsAttemptActive(cm) THEN Taken
             ELSE IF ClassifyPrepareError(Head(cm.queue).err, IsAutomaticMode(cm.walk)) = "Failover"
             THEN StartFailoverReconnect(Taken)
             ELSE FailWithError(Taken)
    /\ UNCHANGED World

\* KeyLimitConsent; the other questions only put up a dialog.
OnConnectionUserInputRequired ==
    /\ Received("keyLimit")
    /\ cm' = IF IsAttemptActive(cm) THEN [Disarm(Taken, {"connecting"}) EXCEPT !.keyPrompt = TRUE]
             ELSE Taken
    /\ UNCHANGED World

\* Mutant: a late connected() is believed in every state.
OnConnectionConnectedAnyState ==
    /\ Received("connected")
    /\ cm' = SetState(Disarm(Taken, {"cap", "connecting"}), "Connected", "Regular")
    /\ UNCHANGED World

OnConnectionConnected ==
    /\ Received("connected")
    /\ cm' = IF cm.state \in {"Connecting", "Reconnecting", "Connected"}
             THEN SetState(Disarm(Taken, {"cap", "connecting"}), "Connected", "Regular")
             ELSE Taken
    /\ UNCHANGED World

OnConnectionReconnecting ==
    /\ Received("reconnecting")
    /\ cm' = HandleReconnecting(Taken)
    /\ UNCHANGED World

\* Mutant: only the user's own stop is reported.
ReportUserStopOnly(m) ==
    IF m.pending = "user" THEN Report(ResetWalk(Disconnect(m)), "user") ELSE Disconnect(m)

\* The outcome a stop was waiting to report.
ReportPending(m) ==
    CASE m.pending = "user" -> Report(ResetWalk(Disconnect(m)), "user")
      [] m.pending = "authError" -> [Disconnect(m) EXCEPT !.authPrompt = TRUE]
      [] OTHER -> Report(Disconnect(m), m.pending)

\* A bare death of a connecting endpoint-list attempt moves to the next endpoint.
AfterDeath(m, env) ==
    LET f == RecordFailure(m.walk, m.succeeded)
        walked == [m EXCEPT !.walk = f.walk]
        retries == ShouldRetryOnAttemptFailure(m.walk)
    IN  CASE m.state = "Connecting" /\ retries /\ ~f.giveUp ->
               StartAttempt(EnterReconnecting(walked), env)
          [] m.state = "Connecting" /\ ~(retries /\ ~f.giveUp) ->
               Report(Disconnect(IF retries THEN walked ELSE m), "itself")
          [] m.state = "Reconnecting" /\ m.cause = "Wake" ->
               StartAttempt(Arm(SetState(m, "Reconnecting", "Regular"), {"cap"}), env)
          [] m.state = "Reconnecting" /\ m.cause # "Wake" ->
               IF retries /\ ~m.ignore
               THEN IF f.giveUp THEN Report(Disconnect(walked), "itself")
                    ELSE ConnectOrStartConnectTimer(walked, env)
               ELSE ConnectOrStartConnectTimer(m, env)

OnConnectionDisconnected ==
    LET m == Disarm(Retire(Taken), {"poll", "connecting"})
    IN  /\ Received("disconnected")
        /\ \E env \in Now :
              cm' = CASE m.state = "Stopping" -> ReportPending(m)
                      [] m.state = "Connected" -> StartAttempt(EnterReconnecting(m), env)
                      [] m.state \in {"Connecting", "Reconnecting"} -> AfterDeath(m, env)
                      [] m.state = "WaitingForNetwork" -> Arm(m, {"cap", "poll"})
                      [] OTHER -> m
        /\ UNCHANGED World

OnConnectionError ==
    LET err == Head(cm.queue).err
        m == ClearCachedConfigIfExhausted(Taken, err = "kTunnelEstablishmentFailure")
        route == ClassifyConnectError(err, IsAutomaticMode(m.walk), EmitAuthError,
                                      ShouldRetryOnAttemptFailure(m.walk))
        \* kAuthFailure: the connector stops by itself.
        Drop(n) == IF err = "kAuthFailure" THEN n ELSE StartDisconnect(n)
        outcome == IF m.walk.kind = "custom" /\ err \in {"kAuthFailure", "kPrivKeyPasswordFailure"}
                   THEN "authError" ELSE "error"
        seen == [m EXCEPT !.ignore = TRUE]
    IN  /\ Received("error")
        /\ cm' = CASE IsSettled(cm) \/ (route = "Retry" /\ cm.ignore) \/ route = "Unknown" ->
                        IF IsSettled(cm) THEN Taken ELSE m
                   [] ~IsSettled(cm) /\ route = "ErrorAfterDisconnect" -> Drop(Stop(m, outcome))
                   [] ~IsSettled(cm) /\ route = "ErrorImmediately" -> Report(Disconnect(m), "error")
                   [] ~IsSettled(cm) /\ route = "Retry" /\ ~cm.ignore ->
                        IF m.state = "Connected" THEN Drop(EnterReconnecting(seen))
                        ELSE HandleAttemptFailed(seen, err # "kAuthFailure")
        /\ UNCHANGED World

-----------------------------------------------------------------------------
(* Sleep, wake and network *)

\* What is left of blockingDisconnect() and onSleepMode() once the connector
\* has stopped: nothing is reported and the manager is put to sleep.
FallAsleep(m) ==
    SetState(Disconnect(ResetWalk(Teardown([m EXCEPT !.blocking = FALSE]))), "Sleeping", "Regular")

\* Only Windows waits for the connector without running the event loop.
OnSleepMode ==
    LET m == [cm EXCEPT !.timers = {}, !.wake = FALSE]
        busy == cm.state \in {"Connecting", "Connected", "Reconnecting"}
        stopping == [StartDisconnect(m) EXCEPT !.blocking = TRUE]
    IN  /\ HasSleepEvents /\ ~asleep /\ ~cm.blocking
        /\ cm' = CASE busy /\ cm.conn \in Live /\ Platform # "windows" -> stopping
                   [] busy /\ cm.conn \in Live /\ Platform = "windows" ->
                        FallAsleep([stopping EXCEPT !.conn = "down"])
                   [] busy /\ cm.conn \notin Live -> FallAsleep(m)
                   [] cm.state = "WaitingForNetwork" -> SetState(m, "Sleeping", "Regular")
                   [] OTHER -> m
        /\ asleep' = TRUE /\ UNCHANGED online

\* The loop of blockingDisconnect() ends when the connector has stopped, or
\* after ten seconds with the connector still stopping.
EndBlockingDisconnect ==
    /\ cm.blocking
    /\ \E env \in Now :
          cm' = IF cm.wake
                THEN [RestoreConnectionAfterWakeUp(FallAsleep(cm), env) EXCEPT !.wake = FALSE]
                ELSE FallAsleep(cm)
    /\ UNCHANGED World

\* Mutant: a wake restores the connection whatever was going on.
OnWakeModeAnyState ==
    /\ Room /\ asleep
    /\ \E env \in Now :
          cm' = RestoreConnectionAfterWakeUp([Disarm(cm, {"cap", "rest"}) EXCEPT !.wake = TRUE], env)
    /\ asleep' = FALSE /\ UNCHANGED online

OnWakeMode ==
    LET m == [Disarm(cm, {"cap", "rest"}) EXCEPT !.wake = TRUE]
    IN  /\ Room /\ asleep
        /\ \E env \in Now :
              cm' = IF m.state \in {"Disconnected", "Stopping"} THEN m
                    ELSE RestoreConnectionAfterWakeUp(m, env)
        /\ asleep' = FALSE /\ UNCHANGED online

\* The detector has a new answer; only macOS reconnects on it.
OnNetworkOnlineStateChanged ==
    LET isAlive == ~online
        m == [cm EXCEPT !.lastOnline = isAlive]
        Park(n) == StartDisconnect(Arm(SetState(n, "WaitingForNetwork", "Regular"), {"cap"}))
        Redial(n) == StartDisconnect(Arm(SetState(n, "Reconnecting", "Regular"), {"cap"}))
    IN  /\ Room
        /\ online' = isAlive
        /\ cm' = CASE Platform # "macos" -> cm
                   [] Platform = "macos" /\ (m.conn = "none" \/ ~m.dialed) -> m
                   [] OTHER ->
                        CASE m.state = "Connecting" /\ ~isAlive -> Park(m)
                          [] m.state = "Connected" -> IF isAlive THEN Redial(m) ELSE Park(m)
                          [] m.state = "Reconnecting" /\ ~isAlive /\ m.cause # "Wake" ->
                               StartDisconnect(SetState(m, "WaitingForNetwork", "Regular"))
                          [] m.state = "WaitingForNetwork" /\ isAlive -> Redial(m)
                          [] OTHER -> m
        /\ UNCHANGED asleep

-----------------------------------------------------------------------------
(* The connector's own steps *)

ConnectorStep(m) == cm' = m /\ UNCHANGED World

\* prepare() of a fresh configuration leaves it in the store.
ConnectorPrepared ==
    /\ Room /\ cm.prep = "preparing"
    /\ ConnectorStep(Emit([cm EXCEPT !.prep = "none",
                                     !.stored = cm.stored \/ (cm.fetches /\ cm.fetchMode = "Normal")],
                          "prepared", "kNoError"))

ConnectorPrepareFailed(err) ==
    /\ Room /\ cm.prep = "preparing"
    /\ ConnectorStep(Emit([cm EXCEPT !.prep = "none"], "prepareFailed", err))

ConnectorAtKeyLimit ==
    /\ Room /\ cm.prep = "preparing" /\ cm.fetches /\ cm.fetchMode = "Normal" /\ cm.walk.kind # "custom"
    /\ ConnectorStep(Emit([cm EXCEPT !.prep = "consent"], "keyLimit", "kNoError"))

ConnectorStarted ==
    /\ cm.conn = "starting"
    /\ ConnectorStep([cm EXCEPT !.conn = "dialing"])

ConnectorConnected ==
    /\ Room /\ cm.conn = "dialing"
    /\ ConnectorStep(Emit([cm EXCEPT !.conn = "up"], "connected", "kNoError"))

ConnectorReconnecting ==
    /\ Room /\ cm.conn \in {"dialing", "up"}
    /\ ConnectorStep(Emit(cm, "reconnecting", "kNoError"))

ConnectorStartFailed(err) ==
    /\ Room /\ cm.conn = "starting"
    /\ ConnectorStep(Emit([cm EXCEPT !.conn = "down"], "error", err))

\* An authentication failure ends the connector's process by itself.
ConnectorFailed(err) ==
    /\ Room /\ cm.conn \in {"dialing", "up"}
    /\ ConnectorStep(Emit([cm EXCEPT !.conn = IF err = "kAuthFailure" THEN "stopping" ELSE cm.conn],
                          "error", err))

ConnectorDied ==
    /\ Room /\ cm.conn \in {"starting", "dialing", "up"}
    /\ ConnectorStep(Emit([cm EXCEPT !.conn = "down"], "disconnected", "kNoError"))

ConnectorStopped ==
    /\ cm.conn \in {"aborting", "stopping"}
    /\ ConnectorStep(Emit([cm EXCEPT !.conn = "down"], "disconnected", "kNoError"))

\* OpenVPN: the worker gives up starting the process (or reaching its socket)
\* while it is told to stop; the kill timer then finds it settled.
ConnectorSettledSilently ==
    /\ SilentSettle /\ cm.conn = "aborting"
    /\ ConnectorStep(Emit([cm EXCEPT !.conn = "down"], "error", "kLocalProcessNotResponding"))

-----------------------------------------------------------------------------
Init ==
    /\ \E aop, stored \in BOOLEAN :
          cm = [state |-> "Disconnected", cause |-> "Regular", pending |-> "itself",
                timers |-> {}, conn |-> "none", fetches |-> FALSE, dialed |-> FALSE,
                prep |-> "none", fetchMode |-> "None", queue |-> <<>>,
                walk |-> CreateStrategy("manual", FALSE, FALSE), resolving |-> FALSE,
                ignore |-> FALSE, succeeded |-> FALSE, wake |-> FALSE, lastOnline |-> TRUE,
                alwaysOnPlus |-> aop, stored |-> stored, blocking |-> FALSE,
                keyPrompt |-> FALSE, authPrompt |-> FALSE, told |-> <<>>]
    /\ online \in BOOLEAN
    /\ asleep = FALSE

Slots ==
    \/ IgnoreRetiredConnector \/ OnConnectionPrepared \/ OnConnectionPrepareFailed
    \/ OnConnectionUserInputRequired \/ OnConnectionConnected \/ OnConnectionReconnecting
    \/ OnConnectionDisconnected \/ OnConnectionError

Requests ==
    \/ \E kind \in SessionKinds : ClickConnect(kind) \/ UpdateConnectionSettings(kind)
    \/ ClickDisconnect \/ Reconnect \/ ForwardUserInputOrReconnect
    \/ \E yes \in BOOLEAN : OnWireGuardKeyLimitUserResponse(yes) \/ OnTunnelTestResult(yes)
    \/ SetFirewallAlwaysOnPlusEnabled

Timeouts ==
    \/ OnTimerReconnection \/ OnConnectTrigger \/ OnConnectingTimeout
    \/ OnTimerWaitNetworkConnectivity
    \/ \E n \in 0 .. MaxEndpoints : OnHostnamesResolved(n)

System == OnSleepMode \/ EndBlockingDisconnect \/ OnWakeMode \/ OnNetworkOnlineStateChanged

Connector ==
    \/ ConnectorPrepared \/ \E err \in PrepareErrors : ConnectorPrepareFailed(err)
    \/ ConnectorAtKeyLimit \/ ConnectorStarted \/ ConnectorConnected \/ ConnectorReconnecting
    \/ \E err \in StartErrors : ConnectorStartFailed(err)
    \/ \E err \in LiveErrors : ConnectorFailed(err)
    \/ ConnectorDied \/ ConnectorStopped \/ ConnectorSettledSilently

Next == Slots \/ Requests \/ Timeouts \/ System \/ Connector

Spec == Init /\ [][Next]_vars

-----------------------------------------------------------------------------
(* Correctness: the safety of the manager itself *)

TypeOK == cm \in TypeOfManager /\ online \in BOOLEAN /\ asleep \in BOOLEAN

\* One of the signals `names` of the current connector waits in the queue.
Queued(names) == \E i \in DOMAIN cm.queue : cm.queue[i].current /\ cm.queue[i].name \in names

\* A session that is over, stopping or asleep has no timer running that could
\* redial it or replace its outcome (enterStopping, disconnect, onSleepMode).
TimersQuiet == IsSettled(cm) => cm.timers = {}

\* A stop always completes: the connector still has to stop, or its
\* disconnected() is queued, or the sleep handler waits in its place.
StopCompletes ==
    cm.state = "Stopping" =>
        \/ cm.conn \in {"aborting", "stopping"}
        \/ Queued({"disconnected"})
        \/ cm.blocking

\* Whatever may report a failed attempt has a connector at hand: the failure
\* is never recorded, nor the session stopped, with nothing left to answer
\* (handleAttemptFailed, onConnectingTimeout, onTunnelTestResult).
FailuresHaveConnector ==
    "connecting" \in cm.timers \/ cm.state = "Connected" => cm.conn # "none"

\* The timers that redial do not run beside a dialed connector, whose tunnel
\* the next attempt would throw away (startAttempt, onTimerWaitNetworkConnectivity).
RedialSparesTunnel == cm.timers \cap {"rest", "poll"} # {} => ~cm.dialed

\* While an attempt is announced something moves it: a timer, the resolve or the
\* prepare of a connector that is still there, a live connector, a signal of it
\* in the queue, or the user, whom the key-limit question asks (startAttempt,
\* onConnectionUserInputRequired, onConnectionError).
AttemptHasDriver ==
    cm.state \in {"Connecting", "Reconnecting"} =>
        \/ cm.timers # {} \/ cm.prep = "preparing"
        \/ cm.conn # "none" /\ (cm.resolving \/ cm.keyPrompt)
        \/ cm.conn \in Live
        \/ Queued(SignalNames)
        \/ cm.blocking

\* A session parked without network is woken by the poll (which ends with the
\* cap), by the online slot (which needs a dialed connector), or by the
\* connector's own end (onConnectionDisconnected, restoreConnectionAfterWakeUp).
ParkedHasWakeUp ==
    cm.state = "WaitingForNetwork" =>
        \/ {"cap", "poll"} \subseteq cm.timers
        \/ cm.conn # "none" /\ cm.dialed
        \/ Queued({"disconnected"})

\* A session that shows as connected has a tunnel, or the news of its end is
\* on the way (onConnectionConnected drops a late connected()).
ConnectedHasTunnel ==
    cm.state = "Connected" =>
        \/ cm.conn \in {"up", "stopping"}
        \/ Queued({"disconnected"})
        \/ cm.blocking

\* The assertion of isDisconnected(): no session, no running connector.
DisconnectedMeansSettled == cm.state = "Disconnected" => cm.conn \notin Live

\* The assertions of onNetworkOnlineStateChanged: a session that is about to
\* be parked or redialed is not counting down already.
CapIdleBeforePark ==
    \/ cm.state = "Connected"
    \/ cm.state = "Connecting" /\ cm.conn # "none" /\ cm.dialed
    => "cap" \notin cm.timers

\* A configuration the attempt at hand has fetched from the API is not
\* discarded for the failures of earlier, cached ones (onHostnamesResolved,
\* clearCachedConfigIfExhausted).
KeepsFreshConfig == [][cm.stored /\ ~cm'.stored => cm.fetchMode # "Normal"]_vars

\* A connector that was told to stop during its preparation is not dialed
\* (onConnectionPrepared).
DialsOnlyIdle == [][cm.conn = "down" => cm'.conn # "starting"]_vars

\* The user's own stop is not papered over: it ends in "disconnected by user"
\* and nothing else (onWakeMode, onTimerReconnection).
UserStopWins ==
    [][cm.state = "Stopping" /\ cm.pending = "user" =>
         \/ cm'.state = "Stopping" /\ cm'.pending = "user"
         \/ cm'.state = "Disconnected" /\ cm'.told = <<"user">>]_vars

-----------------------------------------------------------------------------
(* Correctness: what the engine sees of a session *)

Session == INSTANCE VpnSession WITH
    phase <- CASE cm.state = "Disconnected" -> "off"
               [] cm.state \in {"Connecting", "Reconnecting"} -> "trying"
               [] cm.state = "Connected" -> "up"
               [] cm.state = "WaitingForNetwork" -> "parked"
               [] cm.state = "Sleeping" -> "asleep"
               [] cm.state = "Stopping" -> "ending",
    decided <- IF cm.state = "Stopping" THEN cm.pending ELSE "nothing",
    told <- cm.told,
    question <- cm.authPrompt

\* The manager keeps the promises of VpnSession: every request is answered
\* exactly once, an ending session does not come back, and the user's stop
\* is the outcome of the session it stopped.
SessionKept == Session!SessionSpec

-----------------------------------------------------------------------------
(* Progress *)

\* Single-shot timers fire, queued signals are delivered, and a connector
\* that was told to stop does (its kill timer sees to it).
FairSpec ==
    /\ Spec
    /\ WF_vars(Slots) /\ WF_vars(ConnectorStopped) /\ WF_vars(EndBlockingDisconnect)
    /\ WF_vars(OnTimerReconnection)

\* A stop ends, so that the user can connect again (enterStopping).
StopTerminates == cm.state = "Stopping" ~> cm.state # "Stopping"

\* A session does not reconnect for ever: the reconnection cap ends it
\* (startReconnectionTimer, onTimerReconnection).
ReconnectingEnds == cm.state = "Reconnecting" ~> cm.state # "Reconnecting"
=============================================================================
