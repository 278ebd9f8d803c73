---------------------- MODULE ConnectionManagerProofs ----------------------
(***************************************************************************)
(* Proofs about the connection manager, for every port map, protocol,      *)
(* platform and bound of ConnectionManager.  The inductive invariant IInv  *)
(* adds Owned to the invariants: without a connector nothing is being      *)
(* prepared and no signal in the queue counts as the current connector's,  *)
(* so that a slot that acts always has a connector to act on.  Each        *)
(* operator on the manager's record gets a lemma that it keeps Good; each  *)
(* part of Next then gets one that combines them.                          *)
(***************************************************************************)
EXTENDS ConnectionManager, TLAPS

\* setState() keeps the types.
LEMMA SetStateType ==
    ASSUME NEW m \in TypeOfManager, NEW s \in States, NEW c \in {"Regular", "Wake"}
    PROVE  SetState(m, s, c) \in TypeOfManager
BY DEF TypeOfManager, SetState

\* Starting and stopping timers keeps the types.
LEMMA ArmType ==
    ASSUME NEW m \in TypeOfManager, NEW ts \in SUBSET Timers
    PROVE  Arm(m, ts) \in TypeOfManager /\ Disarm(m, ts) \in TypeOfManager
BY DEF TypeOfManager, Arm, Disarm

\* A queued signal keeps the types.
LEMMA EmitType ==
    ASSUME NEW m \in TypeOfManager, NEW name \in SignalNames, NEW err \in ConnectError
    PROVE  Emit(m, name, err) \in TypeOfManager
<1>1. [current |-> TRUE, name |-> name, err |-> err] \in Signals
  BY DEF Signals
<1>2. m.queue \in Seq(Signals)
  BY DEF TypeOfManager
<1>3. Append(m.queue, [current |-> TRUE, name |-> name, err |-> err]) \in Seq(Signals)
  BY <1>1, <1>2
<1>. DEFINE q == Append(m.queue, [current |-> TRUE, name |-> name, err |-> err])
<1>. HIDE DEF q
<1>4. [m EXCEPT !.queue = q] \in TypeOfManager
  BY <1>3 DEF TypeOfManager, q
<1>. QED
  BY <1>4 DEF Emit, q

\* Retiring the connector keeps the types, those of its queued signals too.
LEMMA RetireType ==
    ASSUME NEW m \in TypeOfManager
    PROVE  Retire(m) \in TypeOfManager
<1>. DEFINE q == [i \in DOMAIN m.queue |-> [m.queue[i] EXCEPT !.current = FALSE]]
<1>1. m.queue \in Seq(Signals)
  BY DEF TypeOfManager
<1>2. q \in Seq(Signals)
  <2>1. \A i \in DOMAIN m.queue : m.queue[i] \in Signals
    BY <1>1
  <2>2. \A i \in DOMAIN m.queue : [m.queue[i] EXCEPT !.current = FALSE] \in Signals
    BY <2>1 DEF Signals
  <2>3. Len(m.queue) \in Nat /\ DOMAIN m.queue = 1 .. Len(m.queue)
    BY <1>1
  <2>. QED
    BY <2>2, <2>3
<1>. HIDE DEF q
<1>3. Retire(m) = [m EXCEPT !.conn = "none", !.prep = "none", !.dialed = FALSE, !.fetchMode = "None", !.queue = q]
  BY DEF Retire, q
<1>. QED
  BY <1>2, <1>3 DEF TypeOfManager, Connectors

\* Every update of a strategy yields a strategy (attemptstrategy/).
LEMMA StrategyType ==
    ASSUME NEW s \in Strategy
    PROVE  /\ Reset(s) \in Strategy
           /\ PutFailedConnection(s) \in Strategy
           /\ ResetCachedConfigBudget(s) \in Strategy
           /\ TakeCachedAttempt(s) \in Strategy
           /\ ForgetCachedConfig(s) \in Strategy
           /\ \A n \in Nat : OnEndpointsReceived(s, n) \in Strategy
<1>1. Reset(s) \in Strategy
  BY DEF Strategy, Reset, Kinds
<1>2. PutFailedConnection(s) \in Strategy
  <2>1. s.pos \in Nat /\ s.pos + 1 \in Nat
    BY DEF Strategy
  <2>2. \A n \in Nat : [s EXCEPT !.pos = n] \in Strategy
    BY DEF Strategy
  <2>4. [s EXCEPT !.allFailed = TRUE] \in Strategy
    BY DEF Strategy
  <2>3. s.kind \in {"manual", "auto", "custom", "emergency"}
    BY DEF Strategy, Kinds
  <2>. QED
    BY <2>1, <2>2, <2>3, <2>4 DEF PutFailedConnection
<1>3. ResetCachedConfigBudget(s) \in Strategy /\ TakeCachedAttempt(s) \in Strategy
  BY DEF Strategy, ResetCachedConfigBudget, TakeCachedAttempt
<1>4. ForgetCachedConfig(s) \in Strategy
  BY DEF Strategy, ForgetCachedConfig
<1>5. \A n \in Nat : OnEndpointsReceived(s, n) \in Strategy
  BY DEF Strategy, OnEndpointsReceived
<1>. QED
  BY <1>1, <1>2, <1>3, <1>4, <1>5

\* recordFailureAndAdvance() yields a strategy.
LEMMA RecordFailureType ==
    ASSUME NEW s \in Strategy, NEW b \in BOOLEAN
    PROVE  RecordFailure(s, b).walk \in Strategy
<1>1. PutFailedConnection(s) \in Strategy
  BY StrategyType
<1>2. ResetCachedConfigBudget(Reset(PutFailedConnection(s))) \in Strategy
  BY <1>1, StrategyType
<1>. QED
  BY <1>1, <1>2 DEF RecordFailure

\* The factory builds a strategy for every kind and every stored configuration.
LEMMA CreateStrategyType ==
    ASSUME NEW kind \in Kinds, NEW a \in BOOLEAN, NEW u \in BOOLEAN
    PROVE  CreateStrategy(kind, a, u) \in Strategy
<1>. DEFINE walk == CASE kind = "auto" -> AutoAttempts(a, u)
                      [] kind = "manual" -> ManualAttempts(a, u)
                      [] kind = "custom" -> <<CustomProtocol>>
                      [] kind = "emergency" -> <<"openvpn_udp">>
<1>1. walk \in Walks
  BY DEF Walks, Kinds
<1>. HIDE DEF walk
<1>2. CreateStrategy(kind, a, u) =
        [kind |-> kind, attempts |-> walk, pos |-> 0, allFailed |-> FALSE,
         usable |-> u /\ kind \in {"manual", "auto"},
         cached |-> 0, fetched |-> FALSE, endpoints |-> 0]
  BY DEF CreateStrategy, walk
<1>. QED
  BY <1>1, <1>2 DEF Strategy

-----------------------------------------------------------------------------
(* The invariant, as a predicate of the manager's record *)

Quiet(m) == IsSettled(m) => m.timers = {}
Manned(m) == "connecting" \in m.timers \/ m.state = "Connected" => m.conn # "none"
Owned(m) == m.conn = "none" => m.prep = "none" /\ \A i \in DOMAIN m.queue : ~m.queue[i].current

Good(m) == m \in TypeOfManager /\ Quiet(m) /\ Manned(m) /\ Owned(m)

\* A step that changes nothing the invariant reads keeps it.
LEMMA SameGood ==
    ASSUME NEW m, NEW n \in TypeOfManager, Good(m), n.timers \subseteq m.timers,
           n.state = m.state, n.conn = m.conn, n.prep \in {m.prep, "none"}, n.queue = m.queue
    PROVE  Good(n)
BY DEF Good, Quiet, Manned, Owned, IsSettled

\* setState() to a running state; one that is up is set by onConnectionConnected only.
LEMMA SetStateGood ==
    ASSUME NEW m, Good(m), NEW c \in {"Regular", "Wake"},
           NEW s \in {"Connecting", "Reconnecting", "WaitingForNetwork"}
    PROVE  /\ Good(SetState(m, s, c))
           /\ SetState(m, s, c).state = s
           /\ ~IsSettled(SetState(m, s, c))
           /\ SetState(m, s, c).conn = m.conn
           /\ SetState(m, s, c).timers = m.timers
<1>1. SetState(m, s, c) \in TypeOfManager
  BY SetStateType DEF Good, States
<1>. QED
  BY <1>1 DEF SetState, Good, Quiet, Manned, Owned, IsSettled, TypeOfManager

\* A timer is started in a running state, the connecting timer with a connector.
LEMMA ArmGood ==
    ASSUME NEW m, Good(m), ~IsSettled(m), NEW ts \in SUBSET Timers,
           "connecting" \in ts => m.conn # "none"
    PROVE  Good(Arm(m, ts)) /\ Arm(m, ts).state = m.state /\ Arm(m, ts).conn = m.conn
<1>1. Arm(m, ts) \in TypeOfManager
  BY ArmType DEF Good
<1>. QED
  BY <1>1 DEF Arm, Good, Quiet, Manned, Owned, IsSettled, TypeOfManager

\* Timers may be stopped at any time.
LEMMA DisarmGood ==
    ASSUME NEW m, Good(m), NEW ts \in SUBSET Timers
    PROVE  Good(Disarm(m, ts)) /\ Disarm(m, ts).state = m.state /\ Disarm(m, ts).conn = m.conn
<1>1. Disarm(m, ts) \in TypeOfManager
  BY ArmType DEF Good
<1>. QED
  BY <1>1 DEF Disarm, Good, Quiet, Manned, Owned, IsSettled, TypeOfManager

\* Only a connector that exists emits.
LEMMA EmitGood ==
    ASSUME NEW m, Good(m), m.conn # "none", NEW name \in SignalNames, NEW err \in ConnectError
    PROVE  /\ Good(Emit(m, name, err))
           /\ Emit(m, name, err).state = m.state
           /\ Emit(m, name, err).timers = m.timers
           /\ Emit(m, name, err).conn = m.conn
<1>1. Emit(m, name, err) \in TypeOfManager
  BY EmitType DEF Good
<1>2. /\ Emit(m, name, err).state = m.state
      /\ Emit(m, name, err).timers = m.timers
      /\ Emit(m, name, err).conn = m.conn
  BY DEF Emit, Good, TypeOfManager
<1>. QED
  BY <1>1, <1>2 DEF Good, Quiet, Manned, Owned, IsSettled

\* startDisconnect() changes neither the state nor the timers, nor deletes the connector.
LEMMA StartDisconnectGood ==
    ASSUME NEW m, Good(m)
    PROVE  /\ Good(StartDisconnect(m))
           /\ StartDisconnect(m).state = m.state
           /\ StartDisconnect(m).timers = m.timers
           /\ StartDisconnect(m).conn = "none" <=> m.conn = "none"
<1>. DEFINE d == [m EXCEPT !.conn = "down", !.prep = "none"]
<1>1. CASE m.conn \in {"idle", "down"}
  <2>1. Good(d) /\ d.conn = "down" /\ d.state = m.state /\ d.timers = m.timers
    BY <1>1 DEF Good, Quiet, Manned, Owned, IsSettled, TypeOfManager, Connectors
  <2>2. StartDisconnect(m) = Emit(d, "disconnected", "kNoError")
    BY <1>1 DEF StartDisconnect
  <2>3. "disconnected" \in SignalNames /\ "kNoError" \in ConnectError
    BY DEF SignalNames, ConnectError, OtherErrors
  <2>. HIDE DEF d
  <2>. QED
    BY <1>1, <2>1, <2>2, <2>3, EmitGood
<1>2. CASE m.conn \notin {"idle", "down"}
  <2>1. CASE m.conn = "starting"
    BY <2>1 DEF StartDisconnect, Good, Quiet, Manned, Owned, IsSettled, TypeOfManager, Connectors
  <2>2. CASE m.conn \in {"dialing", "up"}
    BY <2>2 DEF StartDisconnect, Good, Quiet, Manned, Owned, IsSettled, TypeOfManager, Connectors
  <2>3. CASE m.conn \notin {"starting", "dialing", "up"}
    <3>1. StartDisconnect(m) = m
      BY <1>2, <2>3 DEF StartDisconnect
    <3>. QED
      BY <3>1
  <2>. QED
    BY <2>1, <2>2, <2>3
<1>. QED
  BY <1>1, <1>2

\* A retired connector has nothing more to say.
LEMMA RetireFacts ==
    ASSUME NEW m \in TypeOfManager
    PROVE  /\ Retire(m) \in TypeOfManager
           /\ Owned(Retire(m))
           /\ Retire(m).state = m.state /\ Retire(m).timers = m.timers
           /\ Retire(m).conn = "none" /\ Retire(m).walk = m.walk
<1>1. Retire(m) \in TypeOfManager
  BY RetireType
<1>2. /\ Retire(m).state = m.state /\ Retire(m).timers = m.timers
      /\ Retire(m).conn = "none" /\ Retire(m).walk = m.walk /\ Retire(m).prep = "none"
      /\ Retire(m).queue = [i \in DOMAIN m.queue |-> [m.queue[i] EXCEPT !.current = FALSE]]
  BY DEF Retire, TypeOfManager
<1>3. \A i \in DOMAIN m.queue : m.queue[i] \in Signals
  BY DEF TypeOfManager
<1>4. \A i \in DOMAIN Retire(m).queue : ~Retire(m).queue[i].current
  BY <1>2, <1>3 DEF Signals
<1>. QED
  BY <1>1, <1>2, <1>4 DEF Owned

-----------------------------------------------------------------------------
(* Ends of a session *)

\* Emitting an outcome changes nothing the invariant reads.
LEMMA ReportGood ==
    ASSUME NEW m, Good(m), NEW o \in Outcomes
    PROVE  Good(Report(m, o)) /\ Report(m, o).state = m.state
<1>. DEFINE told == Append(m.told, o)
<1>1. told \in Seq(Outcomes)
  BY DEF Good, TypeOfManager
<1>. HIDE DEF told
<1>2. Good([m EXCEPT !.told = told]) /\ [m EXCEPT !.told = told].state = m.state
  BY <1>1 DEF Good, Quiet, Manned, Owned, IsSettled, TypeOfManager
<1>. QED
  BY <1>2 DEF Report, told

\* disconnect() needs no more than types and ownership, so that it repairs the rest.
LEMMA DisconnectGood ==
    ASSUME NEW m \in TypeOfManager, Owned(m)
    PROVE  Good(Disconnect(m)) /\ Disconnect(m).state = "Disconnected"
<1>. DEFINE d == [m EXCEPT !.timers = {}]
<1>1. d \in TypeOfManager /\ Owned(d) /\ d.timers = {}
  BY DEF TypeOfManager, Owned
<1>2. Disconnect(m) = SetState(d, "Disconnected", "Regular")
  BY DEF Disconnect
<1>. HIDE DEF d
<1>3. SetState(d, "Disconnected", "Regular") \in TypeOfManager
  BY <1>1, SetStateType DEF States
<1>. QED
  BY <1>1, <1>2, <1>3 DEF SetState, Good, Quiet, Manned, Owned, IsSettled, TypeOfManager

\* enterStopping() stops every timer.
LEMMA StopGood ==
    ASSUME NEW m, Good(m), NEW o \in Outcomes \cup {"authError"}
    PROVE  Good(Stop(m, o)) /\ Stop(m, o).state = "Stopping"
<1>. DEFINE d == [m EXCEPT !.pending = o, !.timers = {}]
<1>1. d \in TypeOfManager /\ Owned(d) /\ d.timers = {}
  BY DEF TypeOfManager, Owned, Good
<1>2. Stop(m, o) = SetState(d, "Stopping", "Regular")
  BY DEF Stop
<1>. HIDE DEF d
<1>3. SetState(d, "Stopping", "Regular") \in TypeOfManager
  BY <1>1, SetStateType DEF States
<1>. QED
  BY <1>1, <1>2, <1>3 DEF SetState, Good, Quiet, Manned, Owned, IsSettled, TypeOfManager

\* failWithError() deletes the connector and settles the session.
LEMMA FailWithErrorGood ==
    ASSUME NEW m \in TypeOfManager, Owned(m)
    PROVE  Good(FailWithError(m))
<1>. DEFINE r == IF m.conn = "none" THEN m ELSE Retire(m)
<1>1. r \in TypeOfManager /\ Owned(r)
  BY RetireFacts
<1>. HIDE DEF r
<1>2. Good(Disconnect(r))
  BY <1>1, DisconnectGood
<1>3. "error" \in Outcomes
  BY DEF Outcomes
<1>4. FailWithError(m) = Report(Disconnect(r), "error")
  BY DEF FailWithError, r
<1>. QED
  BY <1>2, <1>3, <1>4, ReportGood

\* Resetting the strategy.
LEMMA ResetWalkGood ==
    ASSUME NEW m, Good(m)
    PROVE  Good(ResetWalk(m)) /\ ResetWalk(m).state = m.state
<1>1. Reset(m.walk) \in Strategy
  BY StrategyType DEF Good, TypeOfManager
<1>. QED
  BY <1>1 DEF ResetWalk, Good, Quiet, Manned, Owned, IsSettled, TypeOfManager

\* clickDisconnect().
LEMMA ClickGood ==
    ASSUME NEW m, Good(m)
    PROVE  Good(Click(m))
<1>1. "user" \in Outcomes
  BY DEF Outcomes
<1>2. Good(StartDisconnect(Stop(m, "user")))
  BY <1>1, StopGood, StartDisconnectGood
<1>3. Good(Report(ResetWalk(Disconnect(m)), "user"))
  BY <1>1, DisconnectGood, ResetWalkGood, ReportGood DEF Good
<1>. QED
  BY <1>2, <1>3 DEF Click

-----------------------------------------------------------------------------
(* Failures of an attempt *)

\* enterReconnecting().
LEMMA EnterReconnectingGood ==
    ASSUME NEW m, Good(m)
    PROVE  /\ Good(EnterReconnecting(m))
           /\ EnterReconnecting(m).conn = m.conn
           /\ EnterReconnecting(m).state = "Reconnecting"
<1>. DEFINE r == SetState(m, "Reconnecting", "Regular")
<1>1. Good(r) /\ ~IsSettled(r) /\ r.conn = m.conn /\ r.state = "Reconnecting"
  BY SetStateGood
<1>. HIDE DEF r
<1>2. {"cap"} \in SUBSET Timers /\ "connecting" \notin {"cap"}
  BY DEF Timers
<1>. QED
  BY <1>1, <1>2, ArmGood DEF EnterReconnecting, r

\* clearCachedConfigIfExhausted().
LEMMA ClearCachedConfigGood ==
    ASSUME NEW m, Good(m), NEW b \in BOOLEAN
    PROVE  /\ Good(ClearCachedConfigIfExhausted(m, b))
           /\ ClearCachedConfigIfExhausted(m, b).conn = m.conn
           /\ ClearCachedConfigIfExhausted(m, b).state = m.state
<1>. DEFINE w == ForgetCachedConfig(m.walk)
<1>1. w \in Strategy
  BY StrategyType DEF Good, TypeOfManager
<1>. HIDE DEF w
<1>. DEFINE c == [m EXCEPT !.stored = FALSE, !.walk = w]
<1>2. Good(c) /\ c.conn = m.conn /\ c.state = m.state
  BY <1>1 DEF Good, Quiet, Manned, Owned, IsSettled, TypeOfManager
<1>. HIDE DEF c
<1>3. ClearCachedConfigIfExhausted(m, b) \in {c, m}
  BY DEF ClearCachedConfigIfExhausted, c, w
<1>. QED
  BY <1>2, <1>3

\* handleAttemptFailed().
LEMMA HandleAttemptFailedGood ==
    ASSUME NEW m, Good(m), NEW b \in BOOLEAN
    PROVE  Good(HandleAttemptFailed(m, b))
<1>. DEFINE w == RecordFailure(m.walk, m.succeeded).walk
<1>1. w \in Strategy
  BY RecordFailureType DEF Good, TypeOfManager
<1>. HIDE DEF w
<1>. DEFINE failed == [m EXCEPT !.walk = w]
<1>2. Good(failed)
  BY <1>1 DEF Good, Quiet, Manned, Owned, IsSettled, TypeOfManager
<1>. HIDE DEF failed
<1>3. Good(Stop(failed, "itself")) /\ Good(EnterReconnecting(failed))
  BY <1>2, StopGood, EnterReconnectingGood DEF Outcomes
<1>4. \E n \in {failed, Stop(failed, "itself"), EnterReconnecting(failed)} :
         HandleAttemptFailed(m, b) \in {n, StartDisconnect(n)}
  BY DEF HandleAttemptFailed, failed, w
<1>. QED
  BY <1>2, <1>3, <1>4, StartDisconnectGood

\* handleReconnecting().
LEMMA HandleReconnectingGood ==
    ASSUME NEW m, Good(m)
    PROVE  Good(HandleReconnecting(m))
<1>. DEFINE seen == [m EXCEPT !.ignore = TRUE]
<1>1. Good(seen)
  BY DEF Good, Quiet, Manned, Owned, IsSettled, TypeOfManager
<1>. HIDE DEF seen
<1>2. Good(HandleAttemptFailed(seen, TRUE)) /\ Good(StartDisconnect(EnterReconnecting(seen)))
  BY <1>1, HandleAttemptFailedGood, EnterReconnectingGood, StartDisconnectGood
<1>3. m.ignore \in BOOLEAN
  BY DEF Good, TypeOfManager
<1>4. HandleReconnecting(m) \in
        {m, seen, HandleAttemptFailed(seen, TRUE), StartDisconnect(EnterReconnecting(seen))}
  BY <1>3 DEF HandleReconnecting, seen
<1>. QED
  BY <1>1, <1>2, <1>4

\* startFailoverReconnect().
LEMMA StartFailoverReconnectGood ==
    ASSUME NEW m, Good(m)
    PROVE  Good(StartFailoverReconnect(m))
BY EnterReconnectingGood, HandleReconnectingGood DEF StartFailoverReconnect

-----------------------------------------------------------------------------
(* The steps of an attempt *)

\* onHostnamesResolved() prepares only a connector that exists.
LEMMA HostnamesResolvedGood ==
    ASSUME NEW m0, Good(m0), NEW env \in Conditions
    PROVE  Good(HostnamesResolved(m0, env))
<1>. DEFINE m == [m0 EXCEPT !.ignore = FALSE]
            gated == m.fetches /\ m.walk.kind # "custom"
            w == IF ~gated THEN m.walk
                 ELSE IF m.alwaysOnPlus THEN TakeCachedAttempt(m.walk)
                 ELSE ResetCachedConfigBudget(m.walk)
            mode == IF gated /\ m.alwaysOnPlus THEN "CachedOnly" ELSE "Normal"
            fetching == [m EXCEPT !.prep = "preparing", !.fetchMode = mode, !.walk = w]
<1>1. Good(m) /\ m.conn = m0.conn
  BY DEF Good, Quiet, Manned, Owned, IsSettled, TypeOfManager
<1>2. Good(FailWithError(m)) /\ Good(StartFailoverReconnect(m))
  BY <1>1, FailWithErrorGood, StartFailoverReconnectGood DEF Good
<1>3. ASSUME m0.conn # "none" PROVE Good(fetching)
  <2>1. m.walk \in Strategy
    BY <1>1 DEF Good, TypeOfManager
  <2>2. w \in Strategy /\ mode \in {"CachedOnly", "Normal"}
    BY <2>1, StrategyType
  <2>. HIDE DEF m, w, mode
  <2>. QED
    BY <1>1, <1>3, <2>2 DEF Good, Quiet, Manned, Owned, IsSettled, TypeOfManager
<1>4. \/ HostnamesResolved(m0, env) = m0
      \/ /\ m0.conn # "none"
         /\ HostnamesResolved(m0, env) \in {FailWithError(m), StartFailoverReconnect(m), fetching}
  BY DEF HostnamesResolved
<1>. QED
  BY <1>2, <1>3, <1>4

\* recreateConnector() and the timer of the attempt.
LEMMA RecreateConnectorGood ==
    ASSUME NEW m, Good(m), ~IsSettled(m), NEW protocol
    PROVE  Good(RecreateConnector(m, protocol))
<1>. DEFINE r == Retire(m)
            ts == (m.timers \ {"rest"})
                  \cup IF UsesConnectTimeout(m.walk) THEN {"connecting"} ELSE {}
            new == [r EXCEPT !.conn = "idle", !.fetches = (protocol = "wireguard"), !.timers = ts]
<1>1. r \in TypeOfManager /\ r.state = m.state
  BY RetireFacts DEF Good
<1>2. ts \in SUBSET Timers
  BY DEF Good, TypeOfManager, Timers
<1>3. RecreateConnector(m, protocol) = new
  BY DEF RecreateConnector
<1>. HIDE DEF r, ts
<1>4. new \in TypeOfManager
  BY <1>1, <1>2 DEF TypeOfManager, Connectors
<1>5. new.state = m.state /\ new.conn = "idle"
  BY <1>1 DEF TypeOfManager
<1>6. Good(new)
  BY <1>4, <1>5 DEF Good, Quiet, Manned, Owned, IsSettled
<1>. QED
  BY <1>3, <1>6

\* startAttempt(), on each of its ways out.
LEMMA StartAttemptGood ==
    ASSUME NEW m, Good(m), ~IsSettled(m), NEW env \in Conditions
    PROVE  Good(StartAttempt(m, env))
<1>. DEFINE ready == RecreateConnector(m, PreResolveProtocol(m.walk))
            resolves == [ready EXCEPT !.resolving = TRUE]
<1>1. Good(ready)
  BY RecreateConnectorGood
<1>. HIDE DEF ready
<1>2. Good(resolves)
  BY <1>1 DEF Good, Quiet, Manned, Owned, IsSettled, TypeOfManager
<1>3. Good(HostnamesResolved(ready, env))
  BY <1>1, HostnamesResolvedGood
<1>4. Good(FailWithError(m))
  BY FailWithErrorGood DEF Good
<1>5. Good(Arm(m, {"cap", "poll"}))
  BY ArmGood DEF Timers
<1>6. Good(Report(Disconnect(m), "itself"))
  BY DisconnectGood, ReportGood DEF Good, Outcomes
<1>7. StartAttempt(m, env) \in
        {FailWithError(m), Arm(m, {"cap", "poll"}), Report(Disconnect(m), "itself"),
         resolves, HostnamesResolved(ready, env)}
  BY DEF StartAttempt, ready
<1>. QED
  BY <1>2, <1>3, <1>4, <1>5, <1>6, <1>7

\* connectOrStartConnectTimer().
LEMMA ConnectOrStartConnectTimerGood ==
    ASSUME NEW m, Good(m), ~IsSettled(m), NEW env \in Conditions
    PROVE  Good(ConnectOrStartConnectTimer(m, env))
<1>1. Good(Arm(m, {"rest"}))
  BY ArmGood DEF Timers
<1>. QED
  BY <1>1, StartAttemptGood DEF ConnectOrStartConnectTimer

\* restoreConnectionAfterWakeUp(), from any state.
LEMMA RestoreConnectionGood ==
    ASSUME NEW m, Good(m), NEW env \in Conditions
    PROVE  Good(RestoreConnectionAfterWakeUp(m, env))
<1>. DEFINE waiting == SetState(m, "WaitingForNetwork", "Regular")
            waking == SetState(m, "Reconnecting", "Wake")
<1>1. Good(waiting) /\ ~IsSettled(waiting) /\ Good(waking) /\ ~IsSettled(waking)
  BY SetStateGood
<1>. HIDE DEF waiting, waking
<1>2. Good(StartDisconnect(waking)) /\ Good(StartAttempt(waking, env))
  BY <1>1, StartDisconnectGood, StartAttemptGood
<1>3. Good(Arm(waiting, {"cap", "poll"}))
  BY <1>1, ArmGood DEF Timers
<1>4. RestoreConnectionAfterWakeUp(m, env) \in
        {StartDisconnect(waking), StartAttempt(waking, env), Arm(waiting, {"cap", "poll"}), waiting}
  BY DEF RestoreConnectionAfterWakeUp, waiting, waking
<1>. QED
  BY <1>1, <1>2, <1>3, <1>4

\* recreateAttemptStrategy().
LEMMA NewWalkGood ==
    ASSUME NEW m, Good(m), NEW kind \in Kinds
    PROVE  Good(NewWalk(m, kind)) /\ NewWalk(m, kind).state = m.state
<1>. DEFINE w == CreateStrategy(kind, m.alwaysOnPlus, m.stored)
<1>1. w \in Strategy
  BY CreateStrategyType DEF Good, TypeOfManager
<1>. HIDE DEF w
<1>2. NewWalk(m, kind) = [m EXCEPT !.walk = w]
  BY DEF NewWalk, w
<1>. QED
  BY <1>1, <1>2 DEF Good, Quiet, Manned, Owned, IsSettled, TypeOfManager

\* The end of blockingDisconnect() and onSleepMode().
LEMMA FallAsleepGood ==
    ASSUME NEW m, Good(m)
    PROVE  Good(FallAsleep(m))
<1>. DEFINE still == Teardown([m EXCEPT !.blocking = FALSE])
            over == Disconnect(ResetWalk(still))
<1>1. Good(still)
  BY DEF Teardown, Good, Quiet, Manned, Owned, IsSettled, TypeOfManager
<1>. HIDE DEF still
<1>2. Good(over) /\ over.state = "Disconnected"
  BY <1>1, ResetWalkGood, DisconnectGood DEF Good
<1>3. FallAsleep(m) = SetState(over, "Sleeping", "Regular")
  BY DEF FallAsleep, still, over
<1>. HIDE DEF over
<1>4. over.timers = {} /\ over \in TypeOfManager
  BY <1>2 DEF Good, Quiet, IsSettled
<1>5. SetState(over, "Sleeping", "Regular") \in TypeOfManager
  BY <1>4, SetStateType DEF States
<1>. QED
  BY <1>2, <1>3, <1>4, <1>5 DEF SetState, Good, Quiet, Manned, Owned, IsSettled, TypeOfManager

\* The report of a pending outcome.
LEMMA ReportPendingGood ==
    ASSUME NEW m, Good(m)
    PROVE  Good(ReportPending(m))
<1>. DEFINE over == Disconnect(m)
            asking == [over EXCEPT !.authPrompt = TRUE]
<1>1. Good(over)
  BY DisconnectGood DEF Good
<1>. HIDE DEF over
<1>2. Good(asking) /\ Good(ResetWalk(over))
  BY <1>1, ResetWalkGood DEF Good, Quiet, Manned, Owned, IsSettled, TypeOfManager
<1>3. Good(Report(ResetWalk(over), "user"))
  BY <1>2, ReportGood DEF Outcomes
<1>4. ASSUME m.pending # "authError" PROVE Good(Report(over, m.pending))
  BY <1>1, <1>4, ReportGood DEF Good, TypeOfManager
<1>. QED
  BY <1>2, <1>3, <1>4 DEF ReportPending, over

\* The branches of onConnectionDisconnected for an attempt in flight.
LEMMA AfterDeathGood ==
    ASSUME NEW m, Good(m), m.state \in {"Connecting", "Reconnecting"}, NEW env \in Conditions
    PROVE  Good(AfterDeath(m, env))
<1>. ~IsSettled(m)
  BY DEF IsSettled
<1>. DEFINE w == RecordFailure(m.walk, m.succeeded).walk
            walked == [m EXCEPT !.walk = w]
<1>1. w \in Strategy
  BY RecordFailureType DEF Good, TypeOfManager
<1>. HIDE DEF w
<1>2. Good(walked) /\ ~IsSettled(walked)
  BY <1>1 DEF Good, Quiet, Manned, Owned, IsSettled, TypeOfManager
<1>. HIDE DEF walked
<1>3. \A n \in {m, walked} : /\ Good(Report(Disconnect(n), "itself"))
                             /\ Good(ConnectOrStartConnectTimer(n, env))
  BY <1>2, DisconnectGood, ReportGood, ConnectOrStartConnectTimerGood DEF Good, Outcomes
<1>4. Good(StartAttempt(EnterReconnecting(walked), env))
  BY <1>2, EnterReconnectingGood, StartAttemptGood DEF IsSettled
<1>. DEFINE waking == Arm(SetState(m, "Reconnecting", "Regular"), {"cap"})
<1>5. Good(StartAttempt(waking, env))
  BY EnterReconnectingGood, StartAttemptGood DEF EnterReconnecting, IsSettled
<1>. HIDE DEF waking
<1>6. AfterDeath(m, env) \in
        {StartAttempt(EnterReconnecting(walked), env), StartAttempt(waking, env)}
        \cup {Report(Disconnect(n), "itself") : n \in {m, walked}}
        \cup {ConnectOrStartConnectTimer(n, env) : n \in {m, walked}}
  <2>1. CASE m.state = "Connecting"
    BY <2>1 DEF AfterDeath, walked, w
  <2>2. CASE m.state = "Reconnecting"
    BY <2>2 DEF AfterDeath, walked, w, waking
  <2>. QED
    BY <2>1, <2>2
<1>. QED
  BY <1>3, <1>4, <1>5, <1>6

-----------------------------------------------------------------------------
(* The inductive invariant and its steps, one lemma per part of Next *)

IInv == Good(cm) /\ online \in BOOLEAN /\ asleep \in BOOLEAN

\* What the environment may answer is a condition of an attempt.
LEMMA NowConditions ==
    ASSUME online \in BOOLEAN
    PROVE  \A env \in Now : env \in Conditions
BY PlatformAssumption DEF Now, Conditions

\* A delivered signal of the current connector finds a connector.
LEMMA TakenGood ==
    ASSUME Good(cm), cm.queue # <<>>
    PROVE  /\ Good(Taken) /\ Taken.state = cm.state /\ Taken.conn = cm.conn
           /\ Head(cm.queue) \in Signals
           /\ Head(cm.queue).current => cm.conn # "none"
<1>. DEFINE q == Tail(cm.queue)
<1>1. cm.queue \in Seq(Signals) /\ cm \in TypeOfManager
  BY DEF Good, TypeOfManager
<1>2. q \in Seq(Signals) /\ Head(cm.queue) \in Signals
  BY <1>1
<1>3. Head(cm.queue) = cm.queue[1] /\ 1 \in DOMAIN cm.queue
  BY <1>1
<1>4. \A i \in DOMAIN q : i + 1 \in DOMAIN cm.queue /\ q[i] = cm.queue[i + 1]
  BY <1>1
<1>5. Taken = [cm EXCEPT !.queue = q]
  BY DEF Taken
<1>. HIDE DEF q
<1>6. Taken \in TypeOfManager
  BY <1>1, <1>2, <1>5 DEF TypeOfManager
<1>7. /\ Taken.state = cm.state /\ Taken.conn = cm.conn /\ Taken.timers = cm.timers
      /\ Taken.prep = cm.prep /\ Taken.queue = q
  BY <1>1, <1>5 DEF TypeOfManager
<1>8. Owned(Taken)
  BY <1>4, <1>7 DEF Good, Owned
<1>. QED
  BY <1>2, <1>3, <1>6, <1>7, <1>8 DEF Good, Quiet, Manned, Owned, IsSettled

\* A session that was told to try again is in order whatever it was before.
LEMMA TryAgainGood ==
    ASSUME NEW m \in TypeOfManager, Owned(m), "connecting" \notin m.timers
    PROVE  Good(EnterReconnecting(m)) /\ EnterReconnecting(m).state = "Reconnecting"
<1>. DEFINE r == SetState(m, "Reconnecting", "Regular")
<1>1. r \in TypeOfManager
  BY SetStateType DEF States
<1>2. Good(r) /\ r.state = "Reconnecting"
  BY <1>1 DEF SetState, Good, Quiet, Manned, Owned, IsSettled, TypeOfManager
<1>3. ~IsSettled(r)
  BY <1>2 DEF IsSettled
<1>. HIDE DEF r
<1>4. Good(Arm(r, {"cap"})) /\ Arm(r, {"cap"}).state = "Reconnecting"
  BY <1>2, <1>3, ArmGood DEF Timers
<1>. QED
  BY <1>4 DEF EnterReconnecting, r

\* A session without timers may be put to sleep.
LEMMA SleepGood ==
    ASSUME NEW m, Good(m), m.timers = {}
    PROVE  Good(SetState(m, "Sleeping", "Regular"))
<1>1. SetState(m, "Sleeping", "Regular") \in TypeOfManager
  BY SetStateType DEF States, Good
<1>. QED
  BY <1>1 DEF SetState, Good, Quiet, Manned, Owned, IsSettled, TypeOfManager

\* onConnectionDisconnected.
LEMMA DisconnectedSlotGood ==
    ASSUME Good(cm), online \in BOOLEAN, OnConnectionDisconnected
    PROVE  Good(cm')
<1>. DEFINE r == Retire(Taken)
            m == Disarm(r, {"poll", "connecting"})
<1>1. Good(Taken) /\ Taken.state = cm.state
  BY TakenGood DEF OnConnectionDisconnected, Received
<1>2. /\ r \in TypeOfManager /\ Owned(r) /\ r.state = cm.state
      /\ r.timers = Taken.timers
  BY <1>1, RetireFacts DEF Good
<1>. HIDE DEF r
<1>3. m \in TypeOfManager
  BY <1>2, ArmType DEF Timers
<1>4. /\ m.state = cm.state /\ "connecting" \notin m.timers /\ Owned(m)
      /\ m.timers \subseteq Taken.timers
  BY <1>2 DEF Disarm, Owned, TypeOfManager
<1>5. PICK env \in Now :
        cm' = CASE m.state = "Stopping" -> ReportPending(m)
                [] m.state = "Connected" -> StartAttempt(EnterReconnecting(m), env)
                [] m.state \in {"Connecting", "Reconnecting"} -> AfterDeath(m, env)
                [] m.state = "WaitingForNetwork" -> Arm(m, {"cap", "poll"})
                [] OTHER -> m
  BY DEF OnConnectionDisconnected, r
<1>6. env \in Conditions
  BY <1>5, NowConditions
<1>. HIDE DEF m
<1>7. CASE m.state = "Connected"
  <2>1. Good(EnterReconnecting(m)) /\ ~IsSettled(EnterReconnecting(m))
    BY <1>3, <1>4, TryAgainGood DEF IsSettled
  <2>. QED
    BY <1>5, <1>6, <1>7, <2>1, StartAttemptGood
<1>8. CASE m.state # "Connected"
  <2>1. Good(m)
    BY <1>1, <1>3, <1>4, <1>8 DEF Good, Quiet, Manned, IsSettled
  <2>2. CASE m.state = "Stopping"
    BY <1>5, <2>1, <2>2, ReportPendingGood
  <2>3. CASE m.state \in {"Connecting", "Reconnecting"}
    BY <1>5, <1>6, <2>1, <2>3, AfterDeathGood
  <2>4. CASE m.state = "WaitingForNetwork"
    BY <1>5, <2>1, <2>4, ArmGood DEF IsSettled, Timers
  <2>5. CASE m.state \notin {"Stopping", "Connecting", "Reconnecting", "WaitingForNetwork"}
    BY <1>5, <1>8, <2>1, <2>5
  <2>. QED
    BY <2>2, <2>3, <2>4, <2>5
<1>. QED
  BY <1>7, <1>8

\* onConnectionError, on each route of the classification.
LEMMA ErrorSlotGood ==
    ASSUME Good(cm), OnConnectionError
    PROVE  Good(cm')
<1>. DEFINE err == Head(cm.queue).err
            m == ClearCachedConfigIfExhausted(Taken, err = "kTunnelEstablishmentFailure")
            route == ClassifyConnectError(err, IsAutomaticMode(m.walk), EmitAuthError,
                                          ShouldRetryOnAttemptFailure(m.walk))
            Drop(n) == IF err = "kAuthFailure" THEN n ELSE StartDisconnect(n)
            outcome == IF m.walk.kind = "custom" /\ err \in {"kAuthFailure", "kPrivKeyPasswordFailure"}
                       THEN "authError" ELSE "error"
            seen == [m EXCEPT !.ignore = TRUE]
            retried == err # "kAuthFailure"
<1>1. Good(Taken)
  BY TakenGood DEF OnConnectionError, Received
<1>2. Good(m)
  BY <1>1, ClearCachedConfigGood
<1>3. route \in {"ErrorAfterDisconnect", "ErrorImmediately", "Retry", "Unknown"}
  BY DEF ClassifyConnectError
<1>4. cm' \in {Taken, m, Drop(Stop(m, outcome)), Report(Disconnect(m), "error"),
               Drop(EnterReconnecting(seen)), HandleAttemptFailed(seen, retried)}
  <2>1. IsSettled(cm) \in BOOLEAN /\ cm.ignore \in BOOLEAN
    BY DEF IsSettled, Good, TypeOfManager
  <2>2. cm' = CASE IsSettled(cm) \/ (route = "Retry" /\ cm.ignore) \/ route = "Unknown" ->
                        IF IsSettled(cm) THEN Taken ELSE m
                [] ~IsSettled(cm) /\ route = "ErrorAfterDisconnect" -> Drop(Stop(m, outcome))
                [] ~IsSettled(cm) /\ route = "ErrorImmediately" -> Report(Disconnect(m), "error")
                [] ~IsSettled(cm) /\ route = "Retry" /\ ~cm.ignore ->
                     IF m.state = "Connected" THEN Drop(EnterReconnecting(seen))
                     ELSE HandleAttemptFailed(seen, retried)
    BY DEF OnConnectionError
  <2>. HIDE DEF m, route, Drop, outcome, seen, retried
  <2>. QED
    BY <1>3, <2>1, <2>2
<1>5. outcome \in Outcomes \cup {"authError"} /\ retried \in BOOLEAN
  BY DEF Outcomes
<1>. HIDE DEF m, route, outcome, retried
<1>6. Good(seen)
  BY <1>2 DEF Good, Quiet, Manned, Owned, IsSettled, TypeOfManager
<1>. HIDE DEF seen
<1>7. Good(Stop(m, outcome)) /\ Good(EnterReconnecting(seen)) /\ Good(HandleAttemptFailed(seen, retried))
  BY <1>2, <1>5, <1>6, StopGood, EnterReconnectingGood, HandleAttemptFailedGood
<1>8. Good(Drop(Stop(m, outcome))) /\ Good(Drop(EnterReconnecting(seen)))
  BY <1>7, StartDisconnectGood
<1>9. Good(Report(Disconnect(m), "error"))
  BY <1>2, DisconnectGood, ReportGood DEF Good, Outcomes
<1>. QED
  BY <1>1, <1>2, <1>4, <1>7, <1>8, <1>9

\* The slots of the connector's signals.
LEMMA SlotsGood ==
    ASSUME Good(cm), online \in BOOLEAN, Slots
    PROVE  Good(cm')
<1>1. CASE IgnoreRetiredConnector
  BY <1>1, TakenGood DEF IgnoreRetiredConnector
<1>2. CASE OnConnectionPrepared
  <2>1. Good(Taken) /\ Taken.conn # "none"
    BY <1>2, TakenGood DEF OnConnectionPrepared, Received
  <2>2. cm' \in {Taken, [Taken EXCEPT !.conn = "starting", !.dialed = TRUE]}
    BY <1>2 DEF OnConnectionPrepared
  <2>3. ASSUME NEW n, Good(n) PROVE Good([n EXCEPT !.conn = "starting", !.dialed = TRUE])
    <3>1. [n EXCEPT !.conn = "starting", !.dialed = TRUE] \in TypeOfManager
      BY <2>3 DEF Good, TypeOfManager, Connectors
    <3>. QED
      BY <2>3, <3>1 DEF Good, Quiet, Manned, Owned, IsSettled, TypeOfManager
  <2>. QED
    BY <2>1, <2>2, <2>3
<1>3. CASE OnConnectionPrepareFailed
  <2>1. Good(Taken)
    BY <1>3, TakenGood DEF OnConnectionPrepareFailed, Received
  <2>2. cm' \in {Taken, StartFailoverReconnect(Taken), FailWithError(Taken)}
    BY <1>3 DEF OnConnectionPrepareFailed
  <2>3. Good(FailWithError(Taken))
    BY <2>1, FailWithErrorGood DEF Good
  <2>. QED
    BY <2>1, <2>2, <2>3, StartFailoverReconnectGood
<1>4. CASE OnConnectionUserInputRequired
  <2>1. Good(Taken)
    BY <1>4, TakenGood DEF OnConnectionUserInputRequired, Received
  <2>2. Good(Disarm(Taken, {"connecting"}))
    BY <2>1, DisarmGood DEF Timers
  <2>3. ASSUME NEW n, Good(n) PROVE Good([n EXCEPT !.keyPrompt = TRUE])
    BY <2>3 DEF Good, Quiet, Manned, Owned, IsSettled, TypeOfManager
  <2>. QED
    BY <1>4, <2>1, <2>2, <2>3 DEF OnConnectionUserInputRequired
<1>5. CASE OnConnectionConnected
  <2>. DEFINE d == Disarm(Taken, {"cap", "connecting"})
  <2>1. Good(Taken) /\ Taken.conn # "none"
    BY <1>5, TakenGood DEF OnConnectionConnected, Received
  <2>2. Good(d) /\ d.conn # "none"
    BY <2>1, DisarmGood DEF Timers
  <2>3. cm' \in {Taken, SetState(d, "Connected", "Regular")}
    BY <1>5 DEF OnConnectionConnected
  <2>. HIDE DEF d
  <2>4. SetState(d, "Connected", "Regular") \in TypeOfManager
    BY <2>2, SetStateType DEF Good, States
  <2>5. Good(SetState(d, "Connected", "Regular"))
    BY <2>2, <2>4 DEF SetState, Good, Quiet, Manned, Owned, IsSettled, TypeOfManager
  <2>. QED
    BY <2>1, <2>3, <2>5
<1>6. CASE OnConnectionReconnecting
  BY <1>6, TakenGood, HandleReconnectingGood DEF OnConnectionReconnecting, Received
<1>. QED
  BY <1>1, <1>2, <1>3, <1>4, <1>5, <1>6, DisconnectedSlotGood, ErrorSlotGood DEF Slots

\* clickConnect().
LEMMA ConnectGood ==
    ASSUME Good(cm), online \in BOOLEAN, NEW kind \in Kinds, ClickConnect(kind)
    PROVE  Good(cm')
<1>. DEFINE c == [SetState(cm, "Connecting", "Regular") EXCEPT
                    !.succeeded = FALSE, !.resolving = FALSE, !.authPrompt = FALSE, !.told = <<>>]
            n == NewWalk(Retire(c), kind)
<1>1. Good(SetState(cm, "Connecting", "Regular"))
  BY SetStateGood
<1>2. cm.timers = {} /\ cm.timers = SetState(cm, "Connecting", "Regular").timers
      /\ SetState(cm, "Connecting", "Regular").state = "Connecting"
  BY SetStateGood DEF ClickConnect, Good, Quiet, IsSettled
<1>. DEFINE s == SetState(cm, "Connecting", "Regular")
<1>. HIDE DEF s
<1>3. c \in TypeOfManager /\ c.state = "Connecting" /\ c.timers = {}
  <2>1. <<>> \in Seq(Outcomes)
    OBVIOUS
  <2>2. s \in TypeOfManager /\ s.state = "Connecting" /\ s.timers = {}
    BY <1>1, <1>2 DEF Good, s
  <2>3. c = [s EXCEPT !.succeeded = FALSE, !.resolving = FALSE, !.authPrompt = FALSE, !.told = <<>>]
    BY DEF s
  <2>. HIDE DEF c
  <2>. QED
    BY <2>1, <2>2, <2>3 DEF TypeOfManager
<1>. HIDE DEF c
<1>4. Retire(c) \in TypeOfManager /\ Owned(Retire(c)) /\ Retire(c).state = "Connecting" /\ Retire(c).timers = {}
  BY <1>3, RetireFacts
<1>5. Good(Retire(c))
  BY <1>4 DEF Good, Quiet, Manned
<1>6. Good(n) /\ ~IsSettled(n)
  BY <1>4, <1>5, NewWalkGood DEF IsSettled
<1>7. PICK env \in Now : cm' = StartAttempt(n, env)
  BY DEF ClickConnect, c
<1>. HIDE DEF n
<1>. QED
  BY <1>6, <1>7, NowConditions, StartAttemptGood

\* updateConnectionSettings().
LEMMA SettingsGood ==
    ASSUME Good(cm), NEW kind \in Kinds, UpdateConnectionSettings(kind)
    PROVE  Good(cm')
<1>. DEFINE c == [cm EXCEPT !.resolving = cm.resolving /\ kind = "custom"]
            n == NewWalk(c, kind)
<1>1. Good(c)
  BY DEF Good, Quiet, Manned, Owned, IsSettled, TypeOfManager
<1>. HIDE DEF c
<1>2. Good(n)
  BY <1>1, NewWalkGood
<1>3. cm' \in {n, StartDisconnect(EnterReconnecting(n))}
  BY DEF UpdateConnectionSettings, c
<1>. HIDE DEF n
<1>. QED
  BY <1>2, <1>3, EnterReconnectingGood, StartDisconnectGood

\* The public methods.
LEMMA RequestsGood ==
    ASSUME Good(cm), online \in BOOLEAN, Requests
    PROVE  Good(cm')
<1>0. \A kind \in SessionKinds : kind \in Kinds
  BY PlatformAssumption
<1>1. ASSUME NEW kind \in SessionKinds, ClickConnect(kind) \/ UpdateConnectionSettings(kind)
      PROVE  Good(cm')
  BY <1>0, <1>1, ConnectGood, SettingsGood
<1>2. CASE ClickDisconnect
  <2>. DEFINE over == cm.state = "Disconnected"
              told == IF over THEN <<>> ELSE cm.told
              c == [cm EXCEPT !.authPrompt = FALSE, !.told = told]
  <2>1. told \in Seq(Outcomes)
    BY DEF Good, TypeOfManager
  <2>2. cm' = Click(c)
    BY <1>2 DEF ClickDisconnect
  <2>. HIDE DEF told
  <2>3. Good(c)
    BY <2>1 DEF Good, Quiet, Manned, Owned, IsSettled, TypeOfManager
  <2>. QED
    BY <2>2, <2>3, ClickGood
<1>3. CASE Reconnect
  BY <1>3, HandleReconnectingGood DEF Reconnect
<1>4. CASE ForwardUserInputOrReconnect
  <2>. DEFINE s == SetState(cm, "Connecting", "Regular")
              c == [s EXCEPT !.succeeded = FALSE, !.authPrompt = FALSE]
  <2>1. Good(s) /\ s.state = "Connecting"
    BY SetStateGood
  <2>. HIDE DEF s
  <2>4. c \in TypeOfManager /\ c.state = "Connecting" /\ c.conn = s.conn /\ c.timers = s.timers
        /\ c.prep = s.prep /\ c.queue = s.queue
    BY <2>1 DEF Good, TypeOfManager
  <2>. HIDE DEF c
  <2>2. Good(c) /\ ~IsSettled(c)
    BY <2>1, <2>4, SameGood DEF IsSettled
  <2>3. PICK env \in Now : cm' = StartAttempt(c, env)
    BY <1>4 DEF ForwardUserInputOrReconnect, s, c
  <2>. QED
    BY <2>2, <2>3, NowConditions, StartAttemptGood
<1>5. ASSUME NEW yes \in BOOLEAN, OnWireGuardKeyLimitUserResponse(yes) PROVE Good(cm')
  <2>. DEFINE c == [cm EXCEPT !.keyPrompt = FALSE]
              prep == IF c.prep = "consent" THEN "preparing" ELSE c.prep
              p == [c EXCEPT !.prep = prep]
  <2>1. Good(c)
    BY DEF Good, Quiet, Manned, Owned, IsSettled, TypeOfManager
  <2>2. \/ cm' \in {c, Click(c)}
        \/ IsAttemptActive(c) /\ c.conn # "none" /\ cm' = Arm(p, {"connecting"})
    BY <1>5 DEF OnWireGuardKeyLimitUserResponse, IsAttemptActive
  <2>. HIDE DEF c
  <2>3. ASSUME IsAttemptActive(c), c.conn # "none" PROVE Good(Arm(p, {"connecting"}))
    <3>1. prep \in {"none", "preparing", "consent"}
      BY <2>1 DEF Good, TypeOfManager
    <3>. HIDE DEF prep
    <3>2. Good(p) /\ ~IsSettled(p) /\ p.conn # "none"
      BY <2>1, <2>3, <3>1 DEF Good, Quiet, Manned, Owned, IsSettled, IsAttemptActive, TypeOfManager
    <3>. HIDE DEF p
    <3>. QED
      BY <3>2, ArmGood DEF Timers
  <2>. QED
    BY <2>1, <2>2, <2>3, ClickGood
<1>6. ASSUME NEW yes \in BOOLEAN, OnTunnelTestResult(yes) PROVE Good(cm')
  <2>. DEFINE w == ResetCachedConfigBudget(cm.walk)
              ok == cm.succeeded \/ IsAutomaticMode(cm.walk)
              c == [cm EXCEPT !.walk = w, !.succeeded = ok]
  <2>1. w \in Strategy /\ ok \in BOOLEAN
    BY StrategyType DEF Good, TypeOfManager, IsAutomaticMode
  <2>2. cm' \in {c, cm, HandleAttemptFailed(cm, TRUE)}
    BY <1>6 DEF OnTunnelTestResult
  <2>. HIDE DEF w, ok
  <2>3. Good(c)
    BY <2>1 DEF Good, Quiet, Manned, Owned, IsSettled, TypeOfManager
  <2>. QED
    BY <2>2, <2>3, HandleAttemptFailedGood
<1>7. CASE SetFirewallAlwaysOnPlusEnabled
  BY <1>7 DEF SetFirewallAlwaysOnPlusEnabled, Good, Quiet, Manned, Owned, IsSettled, TypeOfManager
<1>. QED
  BY <1>1, <1>2, <1>3, <1>4, <1>5, <1>6, <1>7 DEF Requests

\* The timers and the asynchronous answers.
LEMMA TimeoutsGood ==
    ASSUME Good(cm), online \in BOOLEAN, Timeouts
    PROVE  Good(cm')
<1>1. CASE OnTimerReconnection
  <2>. DEFINE m == Disarm(cm, {"cap"})
  <2>1. Good(m)
    BY DisarmGood DEF Timers
  <2>2. cm' \in {m, StartDisconnect(Stop(m, "timeout")), Report(Disconnect(m), "timeout")}
    <3>. m.state # "Stopping" \/ m.state = "Stopping"
      OBVIOUS
    <3>. QED
      BY <1>1 DEF OnTimerReconnection
  <2>. HIDE DEF m
  <2>3. Good(StartDisconnect(Stop(m, "timeout"))) /\ Good(Report(Disconnect(m), "timeout"))
    BY <2>1, StopGood, StartDisconnectGood, DisconnectGood, ReportGood DEF Good, Outcomes
  <2>. QED
    BY <2>1, <2>2, <2>3
<1>2. CASE OnConnectTrigger
  <2>. DEFINE m == Disarm(cm, {"rest"})
  <2>1. Good(m) /\ m.state = cm.state
    BY DisarmGood DEF Timers
  <2>2. ~IsSettled(m)
    BY <1>2, <2>1 DEF OnConnectTrigger, Good, Quiet, IsSettled
  <2>. QED
    BY <1>2, <2>1, <2>2, NowConditions, StartAttemptGood DEF OnConnectTrigger
<1>3. CASE OnConnectingTimeout
  <2>1. Good(Disarm(cm, {"connecting"}))
    BY DisarmGood DEF Timers
  <2>2. Good(ClearCachedConfigIfExhausted(Disarm(cm, {"connecting"}), TRUE))
    BY <2>1, ClearCachedConfigGood
  <2>. QED
    BY <1>3, <2>2, StartFailoverReconnectGood DEF OnConnectingTimeout
<1>4. CASE OnTimerWaitNetworkConnectivity
  <2>. DEFINE m == Disarm(cm, {"poll"})
              again == SetState(m, "Reconnecting", "Regular")
  <2>1. Good(m) /\ m.state = cm.state
    BY DisarmGood DEF Timers
  <2>2. ~IsSettled(m)
    BY <1>4, <2>1 DEF OnTimerWaitNetworkConnectivity, Good, Quiet, IsSettled
  <2>. HIDE DEF m
  <2>3. Good(again) /\ ~IsSettled(again)
    BY <2>1, SetStateGood
  <2>4. Good(Report(Disconnect(cm), "timeout"))
    BY DisconnectGood, ReportGood DEF Good, Outcomes
  <2>5. \E env \in Now : cm' \in {StartAttempt(again, env), StartAttempt(m, env),
                                  Report(Disconnect(cm), "timeout")}
    BY <1>4 DEF OnTimerWaitNetworkConnectivity, m, again
  <2>. HIDE DEF again
  <2>. QED
    BY <2>1, <2>2, <2>3, <2>4, <2>5, NowConditions, StartAttemptGood
<1>5. ASSUME NEW n \in 0 .. MaxEndpoints, OnHostnamesResolved(n) PROVE Good(cm')
  <2>. DEFINE w == IF cm.walk.kind = "emergency" THEN OnEndpointsReceived(cm.walk, n) ELSE cm.walk
              m == [cm EXCEPT !.resolving = FALSE, !.walk = w]
  <2>1. n \in Nat
    BY BoundAssumption
  <2>2. w \in Strategy
    BY <2>1, StrategyType DEF Good, TypeOfManager
  <2>3. \E env \in Now : cm' = HostnamesResolved(m, env)
    BY <1>5 DEF OnHostnamesResolved
  <2>. HIDE DEF w
  <2>4. Good(m)
    BY <2>2 DEF Good, Quiet, Manned, Owned, IsSettled, TypeOfManager
  <2>. HIDE DEF m
  <2>. QED
    BY <2>3, <2>4, NowConditions, HostnamesResolvedGood
<1>. QED
  BY <1>1, <1>2, <1>3, <1>4, <1>5 DEF Timeouts

\* onSleepMode().
LEMMA SleepModeGood ==
    ASSUME Good(cm), OnSleepMode
    PROVE  Good(cm')
<1>. DEFINE m == [cm EXCEPT !.timers = {}, !.wake = FALSE]
            d == StartDisconnect(m)
            stopping == [d EXCEPT !.blocking = TRUE]
            stopped == [stopping EXCEPT !.conn = "down"]
<1>1. Good(m) /\ m.conn = cm.conn /\ m.timers = {}
  BY DEF Good, Quiet, Manned, Owned, IsSettled, TypeOfManager
<1>2. \/ cm' \in {FallAsleep(m), SetState(m, "Sleeping", "Regular"), m, stopping}
      \/ cm.conn \in Live /\ cm' = FallAsleep(stopped)
  BY DEF OnSleepMode
<1>. HIDE DEF m
<1>3. Good(d)
  BY <1>1, StartDisconnectGood
<1>. HIDE DEF d
<1>4. Good(stopping) /\ stopping.conn = d.conn
  BY <1>3 DEF Good, Quiet, Manned, Owned, IsSettled, TypeOfManager
<1>. HIDE DEF stopping
<1>5. stopped \in TypeOfManager
  BY <1>4 DEF Good, TypeOfManager, Connectors
<1>6. Good(stopped)
  BY <1>4, <1>5 DEF Good, Quiet, Manned, Owned, IsSettled, TypeOfManager
<1>. HIDE DEF stopped
<1>. QED
  BY <1>1, <1>2, <1>4, <1>6, FallAsleepGood, SleepGood

\* Sleep, wake and network.
LEMMA SystemGood ==
    ASSUME Good(cm), online \in BOOLEAN, System
    PROVE  Good(cm')
<1>1. CASE OnSleepMode
  BY <1>1, SleepModeGood
<1>2. CASE EndBlockingDisconnect
  <2>1. Good(FallAsleep(cm))
    BY FallAsleepGood
  <2>2. PICK env \in Now :
          cm' \in {[RestoreConnectionAfterWakeUp(FallAsleep(cm), env) EXCEPT !.wake = FALSE],
                   FallAsleep(cm)}
    BY <1>2 DEF EndBlockingDisconnect
  <2>. DEFINE r == RestoreConnectionAfterWakeUp(FallAsleep(cm), env)
  <2>3. Good(r)
    BY <2>1, NowConditions, RestoreConnectionGood
  <2>. HIDE DEF r
  <2>4. Good([r EXCEPT !.wake = FALSE])
    <3>. DEFINE n == [r EXCEPT !.wake = FALSE]
    <3>1. /\ n \in TypeOfManager /\ n.timers = r.timers /\ n.state = r.state
          /\ n.conn = r.conn /\ n.prep = r.prep /\ n.queue = r.queue
      BY <2>3 DEF Good, TypeOfManager
    <3>. HIDE DEF n
    <3>2. Good(n)
      BY <2>3, <3>1, SameGood
    <3>. QED
      BY <3>2 DEF n
  <2>. QED
    BY <2>1, <2>2, <2>4 DEF r
<1>3. CASE OnWakeMode
  <2>. DEFINE d == Disarm(cm, {"cap", "rest"})
              m == [d EXCEPT !.wake = TRUE]
  <2>1. Good(d)
    BY DisarmGood DEF Timers
  <2>2. PICK env \in Now : cm' \in {m, RestoreConnectionAfterWakeUp(m, env)}
    BY <1>3 DEF OnWakeMode
  <2>. HIDE DEF d
  <2>3. Good(m)
    BY <2>1 DEF Good, Quiet, Manned, Owned, IsSettled, TypeOfManager
  <2>. HIDE DEF m
  <2>. QED
    BY <2>2, <2>3, NowConditions, RestoreConnectionGood
<1>4. CASE OnNetworkOnlineStateChanged
  <2>. DEFINE isAlive == ~online
              m == [cm EXCEPT !.lastOnline = isAlive]
              park == SetState(m, "WaitingForNetwork", "Regular")
              redial == SetState(m, "Reconnecting", "Regular")
  <2>1. Good(m)
    BY DEF Good, Quiet, Manned, Owned, IsSettled, TypeOfManager
  <2>. DEFINE Park(n) == StartDisconnect(Arm(SetState(n, "WaitingForNetwork", "Regular"), {"cap"}))
              Redial(n) == StartDisconnect(Arm(SetState(n, "Reconnecting", "Regular"), {"cap"}))
              results == {cm, m, Park(m), Redial(m), StartDisconnect(park)}
              live == CASE m.state = "Connecting" /\ ~isAlive -> Park(m)
                        [] m.state = "Connected" -> IF isAlive THEN Redial(m) ELSE Park(m)
                        [] m.state = "Reconnecting" /\ ~isAlive /\ m.cause # "Wake" ->
                             StartDisconnect(SetState(m, "WaitingForNetwork", "Regular"))
                        [] m.state = "WaitingForNetwork" /\ isAlive -> Redial(m)
                        [] OTHER -> m
  <2>5. cm' \in {cm, m, live}
    BY <1>4 DEF OnNetworkOnlineStateChanged
  <2>6. live \in results
    <3>. HIDE DEF m, Park, Redial, isAlive
    <3>. QED
      OBVIOUS
  <2>2. cm' \in {cm, m, StartDisconnect(Arm(park, {"cap"})), StartDisconnect(Arm(redial, {"cap"})),
                 StartDisconnect(park)}
    <3>. HIDE DEF live, m
    <3>. QED
      BY <2>5, <2>6
  <2>. HIDE DEF m
  <2>3. \A n \in {park, redial} : Good(n) /\ ~IsSettled(n)
    BY <2>1, SetStateGood
  <2>. HIDE DEF park, redial
  <2>4. \A n \in {park, redial} : Good(Arm(n, {"cap"}))
    BY <2>3, ArmGood DEF Timers
  <2>. QED
    BY <2>1, <2>2, <2>3, <2>4, StartDisconnectGood
<1>. QED
  BY <1>1, <1>2, <1>3, <1>4 DEF System

\* A connector that changes its own state and says so.
LEMMA ConnectorGood ==
    ASSUME Good(cm), Connector
    PROVE  Good(cm')
<1>0. /\ {"prepared", "prepareFailed", "keyLimit", "connected", "reconnecting",
          "disconnected", "error"} \subseteq SignalNames
      /\ {"kNoError", "kLocalProcessNotResponding"} \subseteq ConnectError
      /\ PrepareErrors \subseteq ConnectError
      /\ StartErrors \subseteq ConnectError /\ LiveErrors \subseteq ConnectError
  BY ErrorAssumption DEF SignalNames, ConnectError, RuntimeErrors, OtherErrors, LocalErrors
<1>1. ASSUME NEW c \in Connectors \ {"none"}, cm.conn # "none",
             NEW name \in SignalNames, NEW err \in ConnectError
      PROVE  Good([cm EXCEPT !.conn = c]) /\ Good(Emit([cm EXCEPT !.conn = c], name, err))
  <2>. DEFINE n == [cm EXCEPT !.conn = c]
  <2>1. n \in TypeOfManager /\ n.conn = c
    BY DEF Good, TypeOfManager
  <2>2. Good(n)
    BY <1>1, <2>1 DEF Good, Quiet, Manned, Owned, IsSettled, TypeOfManager
  <2>. HIDE DEF n
  <2>3. Good(Emit(n, name, err))
    BY <2>1, <2>2, EmitGood
  <2>. QED
    BY <2>2, <2>3 DEF n
<1>2. cm.prep = "preparing" => cm.conn # "none"
  BY DEF Good, Owned
<1>3. CASE ConnectorPrepared
  <2>. DEFINE n == [cm EXCEPT !.prep = "none",
                              !.stored = cm.stored \/ (cm.fetches /\ cm.fetchMode = "Normal")]
  <2>1. Good(n) /\ n.conn # "none"
    BY <1>2, <1>3 DEF ConnectorPrepared, Good, Quiet, Manned, Owned, IsSettled, TypeOfManager
  <2>2. cm' = Emit(n, "prepared", "kNoError")
    BY <1>3 DEF ConnectorPrepared, ConnectorStep
  <2>. HIDE DEF n
  <2>. QED
    BY <1>0, <2>1, <2>2, EmitGood
<1>4. ASSUME NEW err \in PrepareErrors, ConnectorPrepareFailed(err) PROVE Good(cm')
  <2>. DEFINE n == [cm EXCEPT !.prep = "none"]
  <2>1. Good(n) /\ n.conn # "none"
    BY <1>2, <1>4 DEF ConnectorPrepareFailed, Good, Quiet, Manned, Owned, IsSettled, TypeOfManager
  <2>2. cm' = Emit(n, "prepareFailed", err)
    BY <1>4 DEF ConnectorPrepareFailed, ConnectorStep
  <2>. HIDE DEF n
  <2>. QED
    BY <1>0, <2>1, <2>2, EmitGood
<1>5. CASE ConnectorAtKeyLimit
  <2>. DEFINE n == [cm EXCEPT !.prep = "consent"]
  <2>1. Good(n) /\ n.conn # "none"
    BY <1>2, <1>5 DEF ConnectorAtKeyLimit, Good, Quiet, Manned, Owned, IsSettled, TypeOfManager
  <2>2. cm' = Emit(n, "keyLimit", "kNoError")
    BY <1>5 DEF ConnectorAtKeyLimit, ConnectorStep
  <2>. HIDE DEF n
  <2>. QED
    BY <1>0, <2>1, <2>2, EmitGood
<1>6. CASE ConnectorStarted
  BY <1>0, <1>1, <1>6 DEF ConnectorStarted, ConnectorStep, Connectors
<1>7. CASE ConnectorConnected
  BY <1>0, <1>1, <1>7 DEF ConnectorConnected, ConnectorStep, Connectors
<1>8. CASE ConnectorReconnecting
  BY <1>0, <1>8, EmitGood DEF ConnectorReconnecting, ConnectorStep
<1>9. ASSUME NEW err \in StartErrors, ConnectorStartFailed(err) PROVE Good(cm')
  BY <1>0, <1>1, <1>9 DEF ConnectorStartFailed, ConnectorStep, Connectors
<1>10. ASSUME NEW err \in LiveErrors, ConnectorFailed(err) PROVE Good(cm')
  <2>. DEFINE c == IF err = "kAuthFailure" THEN "stopping" ELSE cm.conn
  <2>1. c \in Connectors \ {"none"} /\ cm.conn # "none"
    BY <1>10 DEF ConnectorFailed, Connectors
  <2>2. cm' = Emit([cm EXCEPT !.conn = c], "error", err)
    BY <1>10 DEF ConnectorFailed, ConnectorStep
  <2>. HIDE DEF c
  <2>. QED
    BY <1>0, <1>1, <2>1, <2>2
<1>11. CASE ConnectorDied
  BY <1>0, <1>1, <1>11 DEF ConnectorDied, ConnectorStep, Connectors
<1>12. CASE ConnectorStopped
  BY <1>0, <1>1, <1>12 DEF ConnectorStopped, ConnectorStep, Connectors
<1>13. CASE ConnectorSettledSilently
  BY <1>0, <1>1, <1>13 DEF ConnectorSettledSilently, ConnectorStep, Connectors
<1>. QED
  BY <1>3, <1>4, <1>5, <1>6, <1>7, <1>8, <1>9, <1>10, <1>11, <1>12, <1>13 DEF Connector

-----------------------------------------------------------------------------
(* The theorems *)

\* The manager as it is constructed satisfies the invariant.
LEMMA InitGood == Init => IInv
<1>. SUFFICES ASSUME Init PROVE IInv
  OBVIOUS
<1>1. PICK aop \in BOOLEAN, stored \in BOOLEAN :
          cm = [state |-> "Disconnected", cause |-> "Regular", pending |-> "itself",
                timers |-> {}, conn |-> "none", fetches |-> FALSE, dialed |-> FALSE,
                prep |-> "none", fetchMode |-> "None", queue |-> <<>>,
                walk |-> CreateStrategy("manual", FALSE, FALSE), resolving |-> FALSE,
                ignore |-> FALSE, succeeded |-> FALSE, wake |-> FALSE, lastOnline |-> TRUE,
                alwaysOnPlus |-> aop, stored |-> stored, blocking |-> FALSE,
                keyPrompt |-> FALSE, authPrompt |-> FALSE, told |-> <<>>]
  BY DEF Init
<1>2. CreateStrategy("manual", FALSE, FALSE) \in Strategy
  BY CreateStrategyType DEF Kinds
<1>6. <<>> \in Seq(Signals) /\ <<>> \in Seq(Outcomes)
  OBVIOUS
<1>3. cm \in TypeOfManager
  <2>1. "itself" \in Outcomes \cup {"authError"} /\ "Disconnected" \in States /\ "none" \in Connectors
    BY DEF Outcomes, States, Connectors
  <2>. QED
    BY <1>1, <1>2, <1>6, <2>1 DEF TypeOfManager
<1>4. cm.timers = {} /\ cm.state = "Disconnected" /\ cm.prep = "none" /\ cm.queue = <<>>
  BY <1>1
<1>5. Quiet(cm) /\ Manned(cm) /\ Owned(cm)
  BY <1>4 DEF Quiet, Manned, Owned
<1>. QED
  BY <1>3, <1>5 DEF Init, IInv, Good

\* A step of the system keeps the invariant; the actions change the manager's
\* record as the lemmas above say and the world as World says.
LEMMA NextGood == IInv /\ [Next]_vars => IInv'
<1>. SUFFICES ASSUME IInv, [Next]_vars PROVE IInv'
  OBVIOUS
<1>1. CASE UNCHANGED vars
  <2>1. cm' = cm /\ online' = online /\ asleep' = asleep
    BY <1>1 DEF vars
  <2>. QED
    BY <2>1 DEF IInv
<1>2. ASSUME Slots PROVE IInv'
  <2>1. UNCHANGED World
    BY <1>2 DEF Slots, IgnoreRetiredConnector, OnConnectionPrepared, OnConnectionPrepareFailed,
         OnConnectionUserInputRequired, OnConnectionConnected, OnConnectionReconnecting,
         OnConnectionDisconnected, OnConnectionError
  <2>. QED
    BY <1>2, <2>1, SlotsGood DEF IInv, World
<1>3. ASSUME Requests PROVE IInv'
  <2>1. UNCHANGED World
    BY <1>3 DEF Requests, ClickConnect, UpdateConnectionSettings, ClickDisconnect, Reconnect,
         ForwardUserInputOrReconnect, OnWireGuardKeyLimitUserResponse, OnTunnelTestResult,
         SetFirewallAlwaysOnPlusEnabled
  <2>. QED
    BY <1>3, <2>1, RequestsGood DEF IInv, World
<1>4. ASSUME Timeouts PROVE IInv'
  <2>1. UNCHANGED World
    BY <1>4 DEF Timeouts, OnTimerReconnection, OnConnectTrigger, OnConnectingTimeout,
         OnTimerWaitNetworkConnectivity, OnHostnamesResolved
  <2>. QED
    BY <1>4, <2>1, TimeoutsGood DEF IInv, World
<1>5. ASSUME System PROVE IInv'
  <2>1. online' \in BOOLEAN /\ asleep' \in BOOLEAN
    BY <1>5 DEF System, OnSleepMode, EndBlockingDisconnect, OnWakeMode,
         OnNetworkOnlineStateChanged, IInv, World
  <2>. QED
    BY <1>5, <2>1, SystemGood DEF IInv
<1>6. ASSUME Connector PROVE IInv'
  <2>1. UNCHANGED World
    BY <1>6 DEF Connector, ConnectorPrepared, ConnectorPrepareFailed, ConnectorAtKeyLimit,
         ConnectorStarted, ConnectorConnected, ConnectorReconnecting, ConnectorStartFailed,
         ConnectorFailed, ConnectorDied, ConnectorStopped, ConnectorSettledSilently, ConnectorStep
  <2>. QED
    BY <1>6, <2>1, ConnectorGood DEF IInv, World
<1>. QED
  BY <1>1, <1>2, <1>3, <1>4, <1>5, <1>6 DEF Next

\* The invariant holds in every state of every behaviour.
LEMMA AlwaysGood == Spec => []IInv
BY InitGood, NextGood, PTL DEF Spec

\* The manager's record, its signals and its walk keep their types, for every
\* port map, protocol choice and platform (connectionmanager.h).
THEOREM TypeCorrect == Spec => []TypeOK
<1>1. IInv => TypeOK
  BY DEF IInv, Good, TypeOK
<1>. QED
  BY <1>1, AlwaysGood, PTL

\* No timer of a session that is over, stopping or asleep is running: nothing
\* redials it, and no second outcome replaces the decided one (disconnect,
\* enterStopping, onSleepMode).
THEOREM TimersStayQuiet == Spec => []TimersQuiet
<1>1. IInv => TimersQuiet
  BY DEF IInv, Good, Quiet, TimersQuiet
<1>. QED
  BY <1>1, AlwaysGood, PTL

\* A connecting timeout and a failed tunnel test always find a connector to
\* disconnect, so that handleAttemptFailed never stops a session that has
\* nothing left to answer.
THEOREM FailuresKeepConnector == Spec => []FailuresHaveConnector
<1>1. IInv => FailuresHaveConnector
  BY DEF IInv, Good, Manned, FailuresHaveConnector
<1>. QED
  BY <1>1, AlwaysGood, PTL
=============================================================================
