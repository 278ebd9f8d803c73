-------------------- MODULE ConnectionManagerAttemptProofs --------------------
(***************************************************************************)
(* An attempt to connect never hangs: while the manager is connecting or   *)
(* reconnecting, something that is bound to move drives it. Every attempt  *)
(* but the first one and the one after a wake runs under the cap; those    *)
(* two are driven by their connector, whose end is either reported or met  *)
(* by a timer, as long as a connector that ends with an error alone does   *)
(* so when the error ends the session (Candid).                            *)
(***************************************************************************)
EXTENDS ConnectionManagerStopProofs

-----------------------------------------------------------------------------
(* An attempt and what drives it                                            *)

\* The errors after which an attempt is made again, whatever the session's kind.
Retried == {"kAuthFailure", "kTransientTunnelFailure"}

\* A connector that ends with an error alone is noticed after a wake: OpenVPN's
\* error while it is told to stop is only retried by an emergency session, and
\* the connectors of a custom configuration report no retried error at a start.
Candid ==
    \/ ~HasSleepEvents
    \/ /\ "emergency" \in SessionKinds => ~SilentSettle
       /\ "custom" \in SessionKinds => StartErrors \cap Retried = {}

\* The attempt waits for a timer, or for the answer to the key-limit question.
Waits(m) == m.timers # {} \/ (m.keyPrompt /\ m.conn # "none")

\* An error that ends the session, ignored or not; in a first attempt no error
\* is ignored.
Final(m, s) ==
    /\ s.name = "error" /\ s.err \in RuntimeErrors
    /\ \/ m.state = "Connecting"
       \/ m.walk.kind = "custom" /\ s.err \notin Retried
       \/ m.walk.kind # "emergency" /\ s.err = "kLocalProcessNotResponding"

\* Something moves the session although its connector does nothing.
Safe(m) == Waits(m) \/ Ended(m) \/ \E s \in Current(m) : Final(m, s)

\* The attempt's connector is on its way to be dialed.
Begins(m) ==
    \/ m.resolving \/ m.prep = "preparing"
    \/ \E s \in Current(m) : s.name \in {"prepared", "prepareFailed"}

\* The attempts that no cap limits yet: the first one, and one after a wake.
Uncapped(m) == m.state = "Connecting" \/ m.cause = "Wake"

\* What drives such an attempt, by the phase of its connector.
Staged(m) == Uncapped(m) =>
    /\ m.conn = "none" => m.timers # {}
    /\ m.conn = "idle" => Safe(m) \/ (m.walk.kind = "custom" /\ Begins(m))
    /\ m.conn \in {"starting", "dialing", "up"} /\ m.cause = "Wake" => Safe(m) \/ m.walk.kind = "custom"
    /\ m.conn = "down" => Safe(m)

\* A first attempt ignores errors only until it is prepared.
Heeded(m) == m.state = "Connecting" /\ m.ignore =>
    "poll" \in m.timers \/ (m.conn = "idle" /\ m.prep = "none" /\ Current(m) = {})

\* Every later attempt, and the poll of a parked session, run under the cap.
Capped(m) ==
    /\ m.state = "Reconnecting" /\ m.cause = "Regular" => "cap" \in m.timers
    /\ m.state \in {"Reconnecting", "WaitingForNetwork"} /\ "poll" \in m.timers => "cap" \in m.timers

\* What holds inside the sleep handler's event loop as well.
Apt(m) ==
    /\ m.conn = "idle" => ~m.dialed
    /\ m.conn \in Live => m.dialed
    /\ m.cause = "Wake" => m.state = "Reconnecting" /\ HasSleepEvents
    /\ m.walk.kind \in SessionKinds \cup {"manual"}

\* The inductive invariant.
Driven(m) == Apt(m) /\ (m.blocking \/ (Staged(m) /\ Heeded(m) /\ Capped(m)))

\* The case of a session that is not, or no longer, in an uncapped attempt.
Firm(m) == Apt(m) /\ (m.blocking \/ (~Uncapped(m) /\ Capped(m)))

\* What Firm reads.
Helm(m) == <<m.state, m.cause, m.timers, m.conn, m.dialed, m.walk.kind, m.blocking>>

\* Outside an uncapped attempt the cap is all there is to say.
LEMMA FirmDriven ==
    ASSUME NEW m, Firm(m)
    PROVE  Driven(m)
BY DEF Firm, Driven, Staged, Heeded, Uncapped

\* And the other way round.
LEMMA DrivenFirm ==
    ASSUME NEW m, Driven(m), m.state \notin {"Connecting", "Reconnecting"}
    PROVE  Firm(m)
BY DEF Firm, Driven, Uncapped, Apt

\* What leaves the helm alone.
LEMMA HelmFrame ==
    ASSUME NEW m, NEW n, Helm(n) = Helm(m)
    PROVE  (Apt(m) => Apt(n)) /\ (Firm(m) => Firm(n))
BY DEF Helm, Apt, Firm, Uncapped, Capped

\* The helm after the helpers that neither end nor delete anything.
LEMMA HelmHelpers ==
    ASSUME NEW m \in TypeOfManager
    PROVE  /\ \A s, c : Helm(SetState(m, s, c)) = <<s, c, m.timers, m.conn, m.dialed, m.walk.kind, m.blocking>>
           /\ \A ts : Helm(Arm(m, ts)) = <<m.state, m.cause, m.timers \cup ts, m.conn, m.dialed, m.walk.kind, m.blocking>>
           /\ \A ts : Helm(Disarm(m, ts)) = <<m.state, m.cause, m.timers \ ts, m.conn, m.dialed, m.walk.kind, m.blocking>>
           /\ \A o : Helm(Report(m, o)) = Helm(m)
           /\ \A name, err : Helm(Emit(m, name, err)) = Helm(m)
           /\ Helm(Seen(m)) = Helm(m) /\ Helm(Advised(m)) = Helm(m) /\ Helm(Resolving(m)) = Helm(m)
BY DEF SetState, Arm, Disarm, Report, Emit, Seen, Advised, Resolving, Helm, TypeOfManager

\* The helm of a session that ends, stops, reconnects or loses its connector.
LEMMA HelmEnds ==
    ASSUME NEW m \in TypeOfManager
    PROVE  /\ Helm(Disconnect(m)) = <<"Disconnected", "Regular", {}, m.conn, m.dialed, m.walk.kind, m.blocking>>
           /\ \A o : Helm(Stop(m, o)) = <<"Stopping", "Regular", {}, m.conn, m.dialed, m.walk.kind, m.blocking>>
           /\ Helm(EnterReconnecting(m)) = <<"Reconnecting", "Regular", m.timers \cup {"cap"}, m.conn, m.dialed, m.walk.kind, m.blocking>>
           /\ Helm(Retire(m)) = <<m.state, m.cause, m.timers, "none", FALSE, m.walk.kind, m.blocking>>
BY DEF Disconnect, Stop, EnterReconnecting, Retire, Arm, SetState, Helm, TypeOfManager

\* The updates of the walk keep its kind.
LEMMA HelmWalk ==
    ASSUME NEW m \in TypeOfManager
    PROVE  /\ Helm(ResetWalk(m)) = Helm(m)
           /\ Helm(Walked(m)) = Helm(m)
           /\ \A b : Helm(ClearCachedConfigIfExhausted(m, b)) = Helm(m)
<1>1. m.walk \in Strategy /\ m.succeeded \in BOOLEAN
  BY DEF TypeOfManager
<1>2. /\ Reset(m.walk).kind = m.walk.kind /\ ForgetCachedConfig(m.walk).kind = m.walk.kind
      /\ RecordFailure(m.walk, m.succeeded).walk.kind = m.walk.kind
  BY <1>1, ThriftyUpdates DEF Thrifty
<1>3. Helm(ResetWalk(m)) = Helm(m)
  BY <1>2 DEF ResetWalk, Helm, TypeOfManager
<1>4. Helm(Walked(m)) = Helm(m)
  BY <1>2 DEF Walked, Helm, TypeOfManager
<1>5. \A b : Helm(ClearCachedConfigIfExhausted(m, b)) = Helm(m)
  BY <1>2 DEF ClearCachedConfigIfExhausted, Helm, TypeOfManager
<1>. QED
  BY <1>3, <1>4, <1>5

\* startDisconnect() moves the connector only.
LEMMA HelmStartDisconnect ==
    ASSUME NEW m \in TypeOfManager
    PROVE  LET d == StartDisconnect(m) IN
           /\ Helm(d) = <<m.state, m.cause, m.timers, d.conn, m.dialed, m.walk.kind, m.blocking>>
           /\ d.conn # "idle" /\ (d.conn \in Live => m.conn \in Live) /\ (d.conn = "none" => m.conn = "none")
<1>. DEFINE c == [m EXCEPT !.conn = "down", !.prep = "none"]
<1>1. CASE m.conn \in {"idle", "down"}
  <2>1. c \in TypeOfManager /\ Helm(c) = <<m.state, m.cause, m.timers, "down", m.dialed, m.walk.kind, m.blocking>>
    BY DEF TypeOfManager, Connectors, Helm
  <2>2. StartDisconnect(m) = Emit(c, "disconnected", "kNoError")
    BY <1>1 DEF StartDisconnect
  <2>. HIDE DEF c
  <2>3. Helm(StartDisconnect(m)) = Helm(c)
    BY <2>1, <2>2, HelmHelpers
  <2>4. StartDisconnect(m).conn = "down"
    BY <2>1, <2>3 DEF Helm
  <2>. QED
    BY <2>1, <2>3, <2>4 DEF Live
<1>2. CASE m.conn = "starting"
  BY <1>2 DEF StartDisconnect, Helm, TypeOfManager, Live
<1>3. CASE m.conn \in {"dialing", "up"}
  BY <1>3 DEF StartDisconnect, Helm, TypeOfManager, Live
<1>4. CASE m.conn \in {"none", "aborting", "stopping"}
  BY <1>4 DEF StartDisconnect, Helm
<1>. QED
  BY <1>1, <1>2, <1>3, <1>4 DEF TypeOfManager, Connectors

-----------------------------------------------------------------------------
(* Ends, failures and reconnects                                            *)

\* A connector that is told to stop, a report and a walk keep what is firm.
LEMMA FirmStays ==
    ASSUME NEW m \in TypeOfManager
    PROVE  /\ Firm(m) => Firm(StartDisconnect(m)) /\ Firm(ResetWalk(m)) /\ Firm(Seen(m))
           /\ Firm(m) => \A o : Firm(Report(m, o))
           /\ Apt(m) => Apt(StartDisconnect(m)) /\ Apt(Walked(m)) /\ Apt(Seen(m)) /\ Apt(Advised(m)) /\ Apt(Retire(m))
           /\ Apt(m) => \A b : Apt(ClearCachedConfigIfExhausted(m, b))
<1>. DEFINE d == StartDisconnect(m)
<1>1. /\ Helm(d) = <<m.state, m.cause, m.timers, d.conn, m.dialed, m.walk.kind, m.blocking>>
      /\ d.conn # "idle" /\ (d.conn \in Live => m.conn \in Live)
  BY HelmStartDisconnect
<1>. HIDE DEF d
<1>2. (Firm(m) => Firm(d)) /\ (Apt(m) => Apt(d))
  BY <1>1 DEF Firm, Apt, Helm, Uncapped, Capped
<1>3. Apt(m) => Apt(Retire(m))
  <2>1. Helm(Retire(m)) = <<m.state, m.cause, m.timers, "none", FALSE, m.walk.kind, m.blocking>>
    BY HelmEnds
  <2>. QED
    BY <2>1 DEF Apt, Helm, Live
<1>4. /\ Helm(ResetWalk(m)) = Helm(m) /\ Helm(Seen(m)) = Helm(m) /\ Helm(Walked(m)) = Helm(m)
      /\ Helm(Advised(m)) = Helm(m) /\ (\A o : Helm(Report(m, o)) = Helm(m))
      /\ \A b : Helm(ClearCachedConfigIfExhausted(m, b)) = Helm(m)
  BY HelmWalk, HelmHelpers
<1>. QED
  BY <1>2, <1>3, <1>4, HelmFrame DEF d

\* The end of a session, the decision to stop, the cap of a reconnect.
LEMMA FirmEnds ==
    ASSUME NEW m \in TypeOfManager, Apt(m)
    PROVE  /\ Firm(Disconnect(m)) /\ Firm(EnterReconnecting(m))
           /\ \A o : Firm(Stop(m, o))
<1>1. /\ Helm(Disconnect(m)) = <<"Disconnected", "Regular", {}, m.conn, m.dialed, m.walk.kind, m.blocking>>
      /\ \A o : Helm(Stop(m, o)) = <<"Stopping", "Regular", {}, m.conn, m.dialed, m.walk.kind, m.blocking>>
      /\ Helm(EnterReconnecting(m)) = <<"Reconnecting", "Regular", m.timers \cup {"cap"}, m.conn, m.dialed, m.walk.kind, m.blocking>>
  BY HelmEnds
<1>2. \A n : Helm(n) = <<"Disconnected", "Regular", {}, m.conn, m.dialed, m.walk.kind, m.blocking>> => Firm(n)
  BY DEF Helm, Firm, Apt, Uncapped, Capped
<1>3. \A n : Helm(n) = <<"Stopping", "Regular", {}, m.conn, m.dialed, m.walk.kind, m.blocking>> => Firm(n)
  BY DEF Helm, Firm, Apt, Uncapped, Capped
<1>4. \A n : Helm(n) = <<"Reconnecting", "Regular", m.timers \cup {"cap"}, m.conn, m.dialed, m.walk.kind, m.blocking>> => Firm(n)
  BY DEF Helm, Firm, Apt, Uncapped, Capped
<1>. QED
  BY <1>1, <1>2, <1>3, <1>4

\* failWithError() ends the session.
LEMMA FailWithErrorFirm ==
    ASSUME NEW m \in TypeOfManager, Owned(m), Apt(m)
    PROVE  Firm(FailWithError(m))
<1>. DEFINE r == IF m.conn = "none" THEN m ELSE Retire(m)
<1>1. r \in TypeOfManager /\ Apt(r) /\ Owned(r)
  BY RetireFacts, FirmStays
<1>2. FailWithError(m) = Report(Disconnect(r), "error")
  BY DEF FailWithError
<1>. HIDE DEF r
<1>3. Disconnect(r) \in TypeOfManager /\ Firm(Disconnect(r))
  BY <1>1, FirmEnds, DisconnectGood DEF Good
<1>. QED
  BY <1>2, <1>3, FirmStays

\* clickDisconnect() ends the session or stops it.
LEMMA ClickFirm ==
    ASSUME NEW m, Good(m), Apt(m)
    PROVE  Firm(Click(m))
<1>0. m \in TypeOfManager /\ "user" \in Outcomes
  BY DEF Good, Outcomes
<1>1. CASE m.state = "Stopping" /\ m.pending = "user"
  BY <1>1 DEF Click, Firm, Apt, Uncapped, Capped
<1>2. Firm(StartDisconnect(Stop(m, "user")))
  BY <1>0, StopGood, FirmEnds, FirmStays DEF Good
<1>3. Firm(Report(ResetWalk(Disconnect(m)), "user"))
  <2>. DEFINE d == Disconnect(m)
              w == ResetWalk(d)
  <2>1. d \in TypeOfManager /\ Firm(d) /\ Good(d)
    BY <1>0, DisconnectGood, FirmEnds DEF Good
  <2>. HIDE DEF d
  <2>2. w \in TypeOfManager /\ Firm(w)
    BY <2>1, ResetWalkGood, FirmStays DEF Good
  <2>. HIDE DEF w
  <2>3. Firm(Report(w, "user"))
    BY <2>2, FirmStays
  <2>. QED
    BY <2>3 DEF w, d
<1>. QED
  BY <1>1, <1>2, <1>3 DEF Click

\* handleAttemptFailed() gives up, or goes on under the cap.
LEMMA HandleAttemptFailedFirm ==
    ASSUME NEW m, Good(m), Apt(m), m.blocking \/ Capped(m), NEW b \in BOOLEAN
    PROVE  Firm(HandleAttemptFailed(m, b))
<1>. DEFINE w == Walked(m)
            n == IF RecordFailure(m.walk, m.succeeded).giveUp THEN Stop(w, "itself")
                 ELSE IF m.state # "Reconnecting" \/ m.cause = "Wake" THEN EnterReconnecting(w)
                 ELSE w
<1>1. w \in TypeOfManager /\ Good(w) /\ Apt(w) /\ Helm(w) = Helm(m)
  BY WalkGood, FirmStays, HelmWalk DEF Good
<1>2. n \in TypeOfManager /\ Firm(n)
  <2>1. CASE m.state # "Reconnecting" \/ m.cause = "Wake" \/ RecordFailure(m.walk, m.succeeded).giveUp
    <3>. HIDE DEF w
    <3>1. Firm(Stop(w, "itself")) /\ Firm(EnterReconnecting(w))
      BY <1>1, FirmEnds
    <3>2. Good(Stop(w, "itself")) /\ Good(EnterReconnecting(w))
      BY <1>1, StopGood, EnterReconnectingGood DEF Outcomes
    <3>. QED
      BY <2>1, <3>1, <3>2 DEF Good
  <2>2. CASE ~(m.state # "Reconnecting" \/ m.cause = "Wake" \/ RecordFailure(m.walk, m.succeeded).giveUp)
    <3>1. m.cause \in {"Regular", "Wake"}
      BY DEF Good, TypeOfManager
    <3>2. n = w /\ Firm(m)
      BY <2>2, <3>1 DEF Firm, Uncapped
    <3>. HIDE DEF n, w
    <3>. QED
      BY <1>1, <3>2, HelmFrame
  <2>. QED
    BY <2>1, <2>2
<1>3. HandleAttemptFailed(m, b) = IF b THEN StartDisconnect(n) ELSE n
  BY DEF HandleAttemptFailed, Walked
<1>. HIDE DEF n
<1>. QED
  BY <1>2, <1>3, FirmStays

\* handleReconnecting(): an attempt after a wake only takes note of it.
LEMMA HandleReconnectingWays ==
    ASSUME NEW m \in TypeOfManager
    PROVE  LET n == HandleReconnecting(m) IN
           \/ m.ignore /\ n = m
           \/ /\ ~m.ignore /\ m.state \in {"Connecting", "Reconnecting"} /\ m.cause # "Wake"
              /\ n = HandleAttemptFailed(Seen(m), TRUE)
           \/ ~m.ignore /\ m.state = "Reconnecting" /\ m.cause = "Wake" /\ n = Seen(m)
           \/ ~m.ignore /\ m.state = "Connecting" /\ m.cause = "Wake" /\ n = Seen(m)
           \/ ~m.ignore /\ m.state = "Connected" /\ n = StartDisconnect(EnterReconnecting(Seen(m)))
           \/ ~m.ignore /\ m.state \notin {"Connecting", "Reconnecting"} /\ n = Seen(m)
<1>1. m.ignore \in BOOLEAN
  BY DEF TypeOfManager
<1>. QED
  BY <1>1 DEF HandleReconnecting, Seen

\* handleReconnecting() keeps the invariant.
LEMMA HandleReconnectingDriven ==
    ASSUME NEW m, Good(m), Driven(m)
    PROVE  /\ Driven(HandleReconnecting(m))
           /\ Firm(m) => Firm(HandleReconnecting(m))
<1>. DEFINE s == Seen(m)
<1>0. m \in TypeOfManager /\ Apt(m) /\ Good(s) /\ s \in TypeOfManager /\ Helm(s) = Helm(m) /\ Apt(s)
  BY WalkGood, HelmHelpers, FirmStays DEF Good, Driven
<1>1. /\ s.prep = m.prep /\ s.resolving = m.resolving /\ s.keyPrompt = m.keyPrompt /\ s.queue = m.queue
      /\ s.state = m.state /\ s.cause = m.cause /\ s.timers = m.timers /\ s.conn = m.conn
      /\ s.walk = m.walk /\ s.blocking = m.blocking
  BY <1>0 DEF Seen, TypeOfManager
<1>. HIDE DEF s
<1>2. ASSUME m.state # "Connecting" PROVE Driven(s)
  <2>1. Current(s) = Current(m) /\ (Ended(s) <=> Ended(m))
    BY <1>1 DEF Current, Ended
  <2>2. Safe(m) => Safe(s)
    BY <1>1, <2>1 DEF Safe, Waits, Final
  <2>3. Begins(m) => Begins(s)
    BY <1>1, <2>1 DEF Begins
  <2>. QED
    BY <1>0, <1>1, <1>2, <2>2, <2>3 DEF Driven, Staged, Heeded, Capped, Uncapped
<1>3. ASSUME m.state \in {"Connecting", "Reconnecting"} PROVE Firm(HandleAttemptFailed(s, TRUE))
  BY <1>0, <1>1, <1>3, HandleAttemptFailedFirm DEF Driven, Capped
<1>4. Firm(StartDisconnect(EnterReconnecting(s)))
  BY <1>0, FirmEnds, FirmStays, EnterReconnectingGood DEF Good
<1>5. Firm(m) => Firm(s)
  BY <1>0, HelmFrame
<1>6. m.cause = "Wake" => m.state = "Reconnecting"
  BY <1>0 DEF Apt
<1>. QED
  BY <1>0, <1>2, <1>3, <1>4, <1>5, <1>6, HandleReconnectingWays, FirmDriven DEF s

\* startFailoverReconnect() goes on under the cap.
LEMMA StartFailoverReconnectFirm ==
    ASSUME NEW m, Good(m), Apt(m)
    PROVE  Firm(StartFailoverReconnect(m))
<1>1. Firm(EnterReconnecting(m)) /\ Good(EnterReconnecting(m))
  BY FirmEnds, EnterReconnectingGood DEF Good
<1>. QED
  BY <1>1, FirmDriven, HandleReconnectingDriven DEF StartFailoverReconnect

-----------------------------------------------------------------------------
(* The next attempt                                                         *)

\* What drives an attempt whose connector may be prepared next.
Stagable(m) == Uncapped(m) =>
    /\ m.conn = "none" => m.timers # {}
    /\ m.conn = "idle" => Safe(m) \/ m.walk.kind = "custom"
    /\ m.conn \in {"starting", "dialing", "up"} /\ m.cause = "Wake" => Safe(m) \/ m.walk.kind = "custom"
    /\ m.conn = "down" => Safe(m)

\* The queue decides what is queued of the current connector.
LEMMA QueueDecides ==
    ASSUME NEW m, NEW n, n.queue = m.queue
    PROVE  Current(n) = Current(m) /\ (Ended(n) <=> Ended(m))
BY DEF Current, Ended

\* What is safe stays safe while no driver is lost.
LEMMA SafeStays ==
    ASSUME NEW m, NEW n, n.walk.kind = m.walk.kind, m.state = "Connecting" => n.state = "Connecting",
           Waits(m) => Safe(n), Ended(m) => Ended(n),
           \A s \in Current(m) : Final(m, s) => s \in Current(n)
    PROVE  Safe(m) => Safe(n)
BY DEF Safe, Final

\* The fetch of a configuration drives the attempt of a connector not dialed yet.
LEMMA PreparingDriven ==
    ASSUME NEW m \in TypeOfManager, Apt(m), m.blocking \/ (Stagable(m) /\ Capped(m))
    PROVE  Driven(Preparing(Advised(m)))
<1>. DEFINE a == Advised(m)
            n == Preparing(a)
<1>1. a \in TypeOfManager /\ Helm(a) = Helm(m) /\ a.ignore = FALSE /\ a.keyPrompt = m.keyPrompt /\ a.queue = m.queue
  BY DEF Advised, TypeOfManager, Helm
<1>. HIDE DEF a
<1>2. a.walk \in Strategy
  BY <1>1 DEF TypeOfManager
<1>3. TakeCachedAttempt(a.walk).kind = a.walk.kind /\ ResetCachedConfigBudget(a.walk).kind = a.walk.kind
  BY <1>2 DEF TakeCachedAttempt, ResetCachedConfigBudget, Strategy
<1>4. /\ Helm(n) = Helm(a) /\ n.ignore = a.ignore /\ n.keyPrompt = a.keyPrompt /\ n.queue = a.queue
      /\ n.prep = "preparing"
  BY <1>1, <1>3 DEF Preparing, Helm, TypeOfManager
<1>. HIDE DEF n
<1>5. /\ n.state = m.state /\ n.cause = m.cause /\ n.timers = m.timers /\ n.conn = m.conn
      /\ n.walk.kind = m.walk.kind /\ n.blocking = m.blocking /\ n.keyPrompt = m.keyPrompt /\ n.queue = m.queue
  BY <1>1, <1>4 DEF Helm
<1>6. Safe(m) => Safe(n)
  BY <1>5, QueueDecides, SafeStays DEF Safe, Waits
<1>7. Apt(n)
  BY <1>1, <1>4, HelmFrame
<1>8. Heeded(n)
  BY <1>1, <1>4 DEF Heeded
<1>9. m.blocking \/ Staged(n)
  BY <1>4, <1>5, <1>6 DEF Staged, Stagable, Uncapped, Begins
<1>10. m.blocking \/ Capped(n)
  BY <1>5 DEF Capped
<1>. QED
  BY <1>5, <1>7, <1>8, <1>9, <1>10 DEF Driven, n, a

\* onHostnamesResolved() of an attempt that has a connector.
LEMMA HostnamesResolvedDriven ==
    ASSUME NEW m, Good(m), Apt(m), m.blocking \/ (Stagable(m) /\ Capped(m)), NEW env,
           m.conn # "none", IsAttemptActive(m)
    PROVE  Driven(HostnamesResolved(m, env))
<1>1. /\ Good(Advised(m)) /\ Apt(Advised(m))
  BY WalkGood, FirmStays DEF Good, Advised
<1>2. Firm(FailWithError(Advised(m))) /\ Firm(StartFailoverReconnect(Advised(m)))
  BY <1>1, FailWithErrorFirm, StartFailoverReconnectFirm DEF Good
<1>3. Driven(Preparing(Advised(m)))
  BY PreparingDriven DEF Good
<1>4. HostnamesResolved(m, env) \in
        {FailWithError(Advised(m)), StartFailoverReconnect(Advised(m)), Preparing(Advised(m))}
  BY DEF HostnamesResolved, Advised, Preparing
<1>. QED
  BY <1>2, <1>3, <1>4, FirmDriven

\* A connector that has just been created has announced nothing.
LEMMA RecreatedHelm ==
    ASSUME NEW m \in TypeOfManager
    PROVE  LET r == Recreated(m) IN
           /\ r.state = m.state /\ r.cause = m.cause /\ r.conn = "idle" /\ r.dialed = FALSE
           /\ r.timers = (m.timers \ {"rest"}) \cup (IF m.walk.kind # "custom" THEN {"connecting"} ELSE {})
           /\ r.walk = m.walk /\ r.blocking = m.blocking /\ r.prep = "none" /\ Current(r) = {}
           /\ r.resolving = m.resolving /\ r.ignore = m.ignore /\ r.keyPrompt = m.keyPrompt
<1>. DEFINE q == Retire(m)
            r == Recreated(m)
<1>1. q \in TypeOfManager /\ Owned(q) /\ q.conn = "none" /\ Helm(q) = <<m.state, m.cause, m.timers, "none", FALSE, m.walk.kind, m.blocking>>
  BY RetireFacts, HelmEnds
<1>2. q.walk = m.walk /\ q.prep = "none" /\ q.resolving = m.resolving /\ q.ignore = m.ignore /\ q.keyPrompt = m.keyPrompt
  BY DEF Retire, TypeOfManager
<1>3. r = [q EXCEPT !.conn = "idle", !.fetches = (PreResolveProtocol(m.walk) = "wireguard"),
                    !.timers = (m.timers \ {"rest"}) \cup IF UsesConnectTimeout(m.walk) THEN {"connecting"} ELSE {}]
  BY DEF Recreated, RecreateConnector
<1>. HIDE DEF q, r
<1>4. /\ r.state = q.state /\ r.cause = q.cause /\ r.conn = "idle" /\ r.dialed = q.dialed
      /\ r.timers = (m.timers \ {"rest"}) \cup IF UsesConnectTimeout(m.walk) THEN {"connecting"} ELSE {}
      /\ r.walk = q.walk /\ r.blocking = q.blocking /\ r.prep = q.prep /\ r.queue = q.queue
      /\ r.resolving = q.resolving /\ r.ignore = q.ignore /\ r.keyPrompt = q.keyPrompt
  BY <1>1, <1>3 DEF TypeOfManager
<1>5. Current(q) = {}
  BY <1>1 DEF Owned, Current
<1>6. Current(r) = {}
  BY <1>4, <1>5, QueueDecides
<1>. QED
  BY <1>1, <1>2, <1>4, <1>6 DEF Helm, UsesConnectTimeout, r

\* A session about to start an attempt.
Poised(m) == Good(m) /\ Apt(m) /\ ~IsSettled(m) /\ (m.blocking \/ Capped(m))

\* startAttempt() leaves an attempt that something drives, or none.
LEMMA StartAttemptDriven ==
    ASSUME NEW m, Poised(m), NEW env \in Conditions
    PROVE  Driven(StartAttempt(m, env))
<1>0. m \in TypeOfManager /\ Owned(m) /\ Good(m) /\ Apt(m) /\ ~IsSettled(m)
  BY DEF Poised, Good
<1>1. Driven(FailWithError(m))
  BY <1>0, FailWithErrorFirm, FirmDriven
<1>2. Driven(Report(Disconnect(m), "itself"))
  BY <1>0, DisconnectGood, FirmEnds, FirmStays, FirmDriven DEF Good
<1>3. Driven(Arm(m, {"cap", "poll"}))
  <2>. DEFINE n == Arm(m, {"cap", "poll"})
  <2>1. Helm(n) = <<m.state, m.cause, m.timers \cup {"cap", "poll"}, m.conn, m.dialed, m.walk.kind, m.blocking>>
    BY <1>0, HelmHelpers
  <2>. HIDE DEF n
  <2>2. Apt(n) /\ Capped(n)
    BY <1>0, <2>1 DEF Helm, Apt, Capped
  <2>3. "cap" \in n.timers /\ "poll" \in n.timers
    BY <2>1 DEF Helm
  <2>4. Safe(n) /\ Staged(n) /\ Heeded(n)
    BY <2>3 DEF Safe, Waits, Staged, Heeded
  <2>. QED
    BY <2>2, <2>4 DEF Driven, n
<1>. DEFINE r == Recreated(m)
<1>4. /\ r.state = m.state /\ r.cause = m.cause /\ r.conn = "idle" /\ r.dialed = FALSE
      /\ r.timers = (m.timers \ {"rest"}) \cup (IF m.walk.kind # "custom" THEN {"connecting"} ELSE {})
      /\ r.walk = m.walk /\ r.blocking = m.blocking /\ r.prep = "none" /\ Current(r) = {}
  BY <1>0, RecreatedHelm
<1>5. Good(r)
  BY <1>0, RecreateConnectorGood DEF Recreated
<1>. HIDE DEF r
<1>6. Apt(r) /\ ~IsSettled(r) /\ (r.blocking \/ Capped(r)) /\ r.conn # "none"
  BY <1>0, <1>4 DEF Apt, Poised, Capped, IsSettled, Live
<1>7. m.walk.kind # "custom" => "connecting" \in r.timers
  BY <1>4
<1>8. Stagable(r)
  BY <1>4, <1>7 DEF Stagable, Safe, Waits
<1>9. Driven(HostnamesResolved(r, env))
  <2>1. CASE IsAttemptActive(r)
    BY <1>5, <1>6, <1>8, <2>1, HostnamesResolvedDriven
  <2>2. CASE ~IsAttemptActive(r)
    <3>1. HostnamesResolved(r, env) = r
      BY <2>2, HostnamesResolvedWays
    <3>2. Firm(r)
      BY <1>6, <2>2 DEF Firm, Uncapped, Apt, IsAttemptActive
    <3>. QED
      BY <3>1, <3>2, FirmDriven
  <2>. QED
    BY <2>1, <2>2
<1>10. Driven(Resolving(r))
  <2>. DEFINE n == Resolving(r)
  <2>1. Helm(n) = Helm(r) /\ n.resolving = TRUE /\ n.prep = r.prep /\ n.queue = r.queue /\ n.keyPrompt = r.keyPrompt
    BY <1>5 DEF Resolving, Helm, Good, TypeOfManager
  <2>. HIDE DEF n
  <2>2. Current(n) = {} /\ n.conn = "idle" /\ n.timers = r.timers /\ n.walk.kind = m.walk.kind /\ n.blocking = r.blocking
        /\ n.state = r.state /\ n.cause = r.cause
    BY <1>4, <2>1, QueueDecides DEF Helm
  <2>3. Apt(n) /\ (n.blocking \/ Capped(n))
    BY <1>6, <2>1, <2>2, HelmFrame DEF Capped
  <2>4. Heeded(n)
    BY <1>4, <2>1, <2>2 DEF Heeded
  <2>5. Staged(n)
    BY <1>7, <2>1, <2>2 DEF Staged, Safe, Waits, Begins
  <2>. QED
    BY <2>3, <2>4, <2>5 DEF Driven, n
<1>. QED
  BY <1>1, <1>2, <1>3, <1>9, <1>10, StartAttemptWays DEF r

\* connectOrStartConnectTimer() runs under the cap.
LEMMA ConnectOrStartDriven ==
    ASSUME NEW m, Poised(m), m.state = "Reconnecting", m.cause # "Wake", NEW env \in Conditions
    PROVE  Driven(ConnectOrStartConnectTimer(m, env))
<1>1. Driven(StartAttempt(m, env))
  BY StartAttemptDriven
<1>2. Helm(Arm(m, {"rest"})) = <<m.state, m.cause, m.timers \cup {"rest"}, m.conn, m.dialed, m.walk.kind, m.blocking>>
  BY HelmHelpers DEF Poised, Good
<1>3. Firm(Arm(m, {"rest"}))
  BY <1>2 DEF Helm, Firm, Apt, Uncapped, Capped, Poised
<1>. QED
  BY <1>1, <1>3, FirmDriven DEF ConnectOrStartConnectTimer

\* A session that has lost its connector goes on, or ends.
LEMMA AfterDeathDriven ==
    ASSUME NEW m, Good(m), Apt(m), m.blocking \/ Capped(m), m.state \in {"Connecting", "Reconnecting"},
           NEW env \in Conditions
    PROVE  Driven(AfterDeath(m, env))
<1>. DEFINE w == Walked(m)
<1>1. Good(w) /\ Apt(w) /\ Helm(w) = Helm(m) /\ m \in TypeOfManager
  BY WalkGood, FirmStays, HelmWalk DEF Good
<1>. HIDE DEF w
<1>2. w.state = m.state /\ w.cause = m.cause /\ (w.blocking \/ Capped(w))
  BY <1>1 DEF Helm, Capped
<1>3. \A n : Good(n) /\ Apt(n) => Driven(StartAttempt(EnterReconnecting(n), env))
  <2>. SUFFICES ASSUME NEW n, Good(n), Apt(n) PROVE Driven(StartAttempt(EnterReconnecting(n), env))
    OBVIOUS
  <2>. DEFINE e == EnterReconnecting(n)
  <2>1. Good(e) /\ Firm(e) /\ e.state = "Reconnecting"
    BY EnterReconnectingGood, FirmEnds DEF Good
  <2>. HIDE DEF e
  <2>2. Poised(e)
    BY <2>1 DEF Poised, Firm, IsSettled
  <2>. QED
    BY <2>2, StartAttemptDriven DEF e
<1>4. \A n : Good(n) /\ Apt(n) => Driven(Report(Disconnect(n), "itself"))
  <2>. SUFFICES ASSUME NEW n, Good(n), Apt(n) PROVE Driven(Report(Disconnect(n), "itself"))
    OBVIOUS
  <2>. QED
    BY DisconnectGood, FirmEnds, FirmStays, FirmDriven DEF Good
<1>5. ASSUME m.state = "Reconnecting", m.cause # "Wake"
      PROVE  Driven(ConnectOrStartConnectTimer(w, env)) /\ Driven(ConnectOrStartConnectTimer(m, env))
  BY <1>1, <1>2, <1>5, ConnectOrStartDriven DEF Poised, IsSettled
<1>6. CASE m.state = "Connecting"
  BY <1>1, <1>3, <1>4, <1>6 DEF AfterDeath, w, Walked
<1>7. CASE m.state = "Reconnecting"
  BY <1>1, <1>3, <1>4, <1>5, <1>7 DEF AfterDeath, w, Walked, EnterReconnecting
<1>. QED
  BY <1>6, <1>7

-----------------------------------------------------------------------------
(* Sleep and wake; the connector's signals                                  *)

\* Falling asleep leaves nothing to drive.
LEMMA FallAsleepFirm ==
    ASSUME NEW m \in TypeOfManager, Apt(m)
    PROVE  Firm(FallAsleep(m)) /\ ~FallAsleep(m).blocking /\ FallAsleep(m).timers = {}
<1>. DEFINE n == FallAsleep(m)
<1>1. m.walk \in Strategy
  BY DEF TypeOfManager
<1>2. Reset(m.walk).kind = m.walk.kind
  BY <1>1, ThriftyUpdates DEF Thrifty
<1>3. /\ Skeleton(n) = <<"Sleeping", {}, m.conn, m.dialed, m.queue, FALSE, m.lastOnline, m.authPrompt>>
      /\ n.walk = Reset(m.walk)
  BY FallAsleepFrame
<1>4. n.cause = "Regular"
  BY DEF FallAsleep, SetState, Disconnect, ResetWalk, Teardown, TypeOfManager
<1>. HIDE DEF n
<1>5. Helm(n) = <<"Sleeping", "Regular", {}, m.conn, m.dialed, m.walk.kind, FALSE>>
  BY <1>2, <1>3, <1>4 DEF Skeleton, Helm
<1>. QED
  BY <1>5 DEF Helm, Firm, Apt, Uncapped, Capped, n

\* A connector that is told to stop confirms it, or has confirmed it already.
LEMMA StopEnds ==
    ASSUME NEW m \in TypeOfManager, m.conn # "none", ~m.blocking
    PROVE  LET d == StartDisconnect(m) IN
           d.conn \in {"aborting", "stopping"} \/ (d.conn = "down" /\ Ended(d))
<1>. DEFINE d == StartDisconnect(m)
            bye == [current |-> TRUE, name |-> "disconnected", err |-> "kNoError"]
<1>1. /\ \/ m.conn \in {"idle", "down"} /\ d.conn = "down" /\ d.queue = Append(m.queue, bye)
         \/ m.conn = "starting" /\ d.conn = "aborting"
         \/ m.conn \in {"dialing", "up"} /\ d.conn = "stopping"
         \/ m.conn \in {"none", "aborting", "stopping"} /\ d.conn = m.conn
  BY StartDisconnectFrame
<1>2. bye \in Signals /\ bye.current /\ bye.name = "disconnected"
  BY DEF Signals, SignalNames, ConnectError, OtherErrors
<1>. HIDE DEF d, bye
<1>. QED
  BY <1>1, <1>2, EmitEnded DEF d

\* restoreConnectionAfterWakeUp() of a session that slept.
LEMMA RestoreDriven ==
    ASSUME NEW m, Good(m), Apt(m), m.blocking \/ m.timers = {}, HasSleepEvents, NEW env \in Conditions
    PROVE  Driven(RestoreConnectionAfterWakeUp(m, env))
<1>. DEFINE k == Waking(m)
            w == Waiting(m)
            a == Arm(w, {"cap", "poll"})
<1>0. m \in TypeOfManager
  BY DEF Good
<1>1. /\ Good(k) /\ Good(w) /\ k.conn = m.conn
      /\ Helm(k) = <<"Reconnecting", "Wake", m.timers, m.conn, m.dialed, m.walk.kind, m.blocking>>
      /\ Helm(w) = <<"WaitingForNetwork", "Regular", m.timers, m.conn, m.dialed, m.walk.kind, m.blocking>>
  BY <1>0, SetStateGood, HelmHelpers DEF Waking, Waiting
<1>. HIDE DEF k, w
<1>2. Helm(a) = <<w.state, w.cause, w.timers \cup {"cap", "poll"}, w.conn, w.dialed, w.walk.kind, w.blocking>>
  BY <1>1, HelmHelpers DEF Good
<1>. HIDE DEF a
<1>3. Firm(w) /\ Firm(a)
  BY <1>1, <1>2 DEF Helm, Firm, Apt, Uncapped, Capped
<1>4. Poised(k)
  BY <1>1 DEF Poised, Helm, Apt, IsSettled, Capped
<1>5. Driven(StartAttempt(k, env))
  BY <1>4, StartAttemptDriven
<1>6. ASSUME m.conn # "none" PROVE Driven(StartDisconnect(k))
  <2>. DEFINE d == StartDisconnect(k)
  <2>1. Helm(d) = <<k.state, k.cause, k.timers, d.conn, k.dialed, k.walk.kind, k.blocking>> /\ Apt(d)
    BY <1>1, <1>4, HelmStartDisconnect, FirmStays DEF Good, Poised
  <2>2. k.blocking \/ d.conn \in {"aborting", "stopping"} \/ (d.conn = "down" /\ Ended(d))
    BY <1>1, <1>6, StopEnds DEF Good
  <2>. HIDE DEF d
  <2>3. d.state = "Reconnecting" /\ d.cause = "Wake" /\ d.timers = m.timers /\ d.blocking = m.blocking
    BY <1>1, <2>1 DEF Helm
  <2>4. Ended(d) => Safe(d)
    BY DEF Safe
  <2>. QED
    BY <1>1, <2>1, <2>2, <2>3, <2>4 DEF Driven, Staged, Heeded, Capped, Helm, d
<1>. QED
  BY <1>1, <1>3, <1>5, <1>6, RestoreWays, FirmDriven DEF k, w, a

\* A record that tells the same of the attempt, of a strategy that retries alike.
LEMMA DrivenAlike ==
    ASSUME NEW m, Driven(m), NEW n,
           n.state = m.state, n.cause = m.cause, n.timers = m.timers, n.conn = m.conn,
           n.dialed = m.dialed, n.blocking = m.blocking, n.ignore = m.ignore, n.prep = m.prep,
           n.keyPrompt = m.keyPrompt, n.queue = m.queue,
           n.walk.kind \in SessionKinds \cup {"manual"},
           n.walk.kind = "custom" <=> m.walk.kind = "custom",
           m.walk.kind # "emergency" => n.walk.kind # "emergency",
           m.walk.kind = "custom" => n.resolving = m.resolving
    PROVE  Driven(n)
<1>1. Current(n) = Current(m) /\ (Ended(n) <=> Ended(m))
  BY QueueDecides
<1>2. Safe(m) => Safe(n)
  BY <1>1 DEF Safe, Final, Waits
<1>3. m.walk.kind = "custom" /\ Begins(m) => Begins(n)
  BY <1>1 DEF Begins
<1>4. Apt(n) /\ (Heeded(m) => Heeded(n)) /\ (Capped(m) => Capped(n))
  BY <1>1 DEF Driven, Apt, Heeded, Capped
<1>5. Staged(m) => Staged(n)
  BY <1>2, <1>3 DEF Staged, Uncapped
<1>. QED
  BY <1>4, <1>5 DEF Driven

\* What a taken signal leaves.
LEMMA TakenLeaves ==
    ASSUME Good(cm), cm.queue # <<>>
    PROVE  /\ Good(Taken) /\ Helm(Taken) = Helm(cm)
           /\ Taken.ignore = cm.ignore /\ Taken.prep = cm.prep /\ Taken.resolving = cm.resolving
           /\ Taken.keyPrompt = cm.keyPrompt /\ Taken.walk = cm.walk
           /\ \A s \in Current(cm) : s \in Current(Taken) \/ (Head(cm.queue).current /\ s = Head(cm.queue))
           /\ Current(Taken) \subseteq Current(cm)
           /\ Head(cm.queue).current => Head(cm.queue) \in Current(cm)
<1>. DEFINE q == Tail(cm.queue)
<1>1. cm.queue \in Seq(Signals) /\ cm \in TypeOfManager
  BY DEF Good, TypeOfManager
<1>2. /\ Helm(Taken) = Helm(cm) /\ Taken.queue = q
      /\ Taken.ignore = cm.ignore /\ Taken.prep = cm.prep /\ Taken.resolving = cm.resolving
      /\ Taken.keyPrompt = cm.keyPrompt /\ Taken.walk = cm.walk
  BY <1>1 DEF Taken, Helm, TypeOfManager
<1>3. /\ Head(cm.queue) = cm.queue[1] /\ 1 \in DOMAIN cm.queue
      /\ \A i \in DOMAIN cm.queue : i = 1 \/ (i - 1 \in DOMAIN q /\ q[i - 1] = cm.queue[i])
      /\ \A i \in DOMAIN q : i + 1 \in DOMAIN cm.queue /\ q[i] = cm.queue[i + 1]
  BY <1>1
<1>. HIDE DEF q
<1>4. Current(Taken) = {q[i] : i \in {j \in DOMAIN q : q[j].current}}
  BY <1>2 DEF Current
<1>5. Head(cm.queue).current => Head(cm.queue) \in Current(cm)
  BY <1>3 DEF Current
<1>6. Current(Taken) \subseteq Current(cm)
  <2>. SUFFICES ASSUME NEW i \in DOMAIN q, q[i].current PROVE q[i] \in Current(cm)
    BY <1>4
  <2>1. i + 1 \in DOMAIN cm.queue /\ cm.queue[i + 1] = q[i]
    BY <1>3
  <2>. QED
    BY <2>1 DEF Current
<1>7. \A s \in Current(cm) : s \in Current(Taken) \/ (Head(cm.queue).current /\ s = Head(cm.queue))
  <2>. SUFFICES ASSUME NEW i \in DOMAIN cm.queue, cm.queue[i].current
                PROVE  cm.queue[i] \in Current(Taken) \/ (Head(cm.queue).current /\ cm.queue[i] = Head(cm.queue))
    BY DEF Current
  <2>. QED
    BY <1>3, <1>4
<1>. QED
  BY <1>2, <1>5, <1>6, <1>7, TakenGood

\* A signal that drives nothing is taken without harm.
LEMMA TakenDriven ==
    ASSUME Good(cm), cm.queue # <<>>
    PROVE  /\ Apt(cm) => Apt(Taken)
           /\ Firm(cm) => Firm(Taken)
           /\ Driven(cm) /\ (Head(cm.queue).current =>
                 /\ Head(cm.queue).name # "disconnected" /\ ~Final(cm, Head(cm.queue))
                 /\ Head(cm.queue).name \in {"prepared", "prepareFailed"} => cm.conn # "idle")
              => Driven(Taken)
<1>. DEFINE n == Taken
            h == Head(cm.queue)
<1>1. /\ Helm(n) = Helm(cm)
      /\ n.ignore = cm.ignore /\ n.prep = cm.prep /\ n.resolving = cm.resolving
      /\ n.keyPrompt = cm.keyPrompt /\ n.walk = cm.walk
      /\ \A s \in Current(cm) : s \in Current(n) \/ (h.current /\ s = h)
      /\ Current(n) \subseteq Current(cm)
  BY TakenLeaves
<1>. HIDE DEF n, h
<1>2. (Apt(cm) => Apt(n)) /\ (Firm(cm) => Firm(n))
  BY <1>1, HelmFrame
<1>3. ASSUME Driven(cm),
             h.current => /\ h.name # "disconnected" /\ ~Final(cm, h)
                          /\ h.name \in {"prepared", "prepareFailed"} => cm.conn # "idle"
      PROVE  Driven(n)
  <2>1. /\ n.state = cm.state /\ n.cause = cm.cause /\ n.timers = cm.timers /\ n.conn = cm.conn
        /\ n.blocking = cm.blocking
    BY <1>1 DEF Helm
  <2>2. /\ Ended(cm) <=> \E s \in Current(cm) : s.name = "disconnected"
        /\ Ended(n) <=> \E s \in Current(n) : s.name = "disconnected"
    BY DEF Ended, Current
  <2>3. Ended(cm) => Ended(n)
    BY <1>1, <1>3, <2>2
  <2>4. \A s \in Current(cm) : Final(cm, s) => s \in Current(n)
    BY <1>1, <1>3
  <2>5. Waits(cm) => Safe(n)
    BY <1>1, <2>1 DEF Waits, Safe
  <2>6. Safe(cm) => Safe(n)
    BY <1>1, <2>1, <2>3, <2>4, <2>5, SafeStays
  <2>7. cm.conn = "idle" /\ Begins(cm) => Begins(n)
    BY <1>1, <1>3 DEF Begins
  <2>8. Staged(cm) => Staged(n)
    BY <1>1, <2>1, <2>6, <2>7 DEF Staged, Uncapped
  <2>9. Heeded(cm) => Heeded(n)
    BY <1>1, <2>1 DEF Heeded
  <2>10. Capped(cm) => Capped(n)
    BY <2>1 DEF Capped
  <2>. QED
    BY <1>2, <1>3, <2>1, <2>8, <2>9, <2>10 DEF Driven
<1>. QED
  BY <1>2, <1>3 DEF n, h

\* onConnectionPrepared(): the connector is dialed, unless nobody waits for it.
LEMMA PreparedDriven ==
    ASSUME Good(cm), Driven(cm), OnConnectionPrepared
    PROVE  Driven(cm')
<1>. DEFINE n == [Taken EXCEPT !.conn = "starting", !.dialed = TRUE]
            h == Head(cm.queue)
<1>1. cm.queue # <<>> /\ h.name = "prepared" /\ h.current
  BY DEF OnConnectionPrepared, Received
<1>2. /\ Good(Taken) /\ Helm(Taken) = Helm(cm)
      /\ Taken.ignore = cm.ignore /\ Taken.keyPrompt = cm.keyPrompt /\ Taken.walk = cm.walk
      /\ \A s \in Current(cm) : s \in Current(Taken) \/ s = h
      /\ h \in Current(cm) /\ cm.conn # "none"
  BY <1>1, TakenLeaves, TakenGood
<1>. HIDE DEF h
<1>3. CASE ~IsAttemptActive(cm)
  <2>1. cm' = Taken /\ Firm(cm)
    BY <1>3, DrivenFirm DEF OnConnectionPrepared, IsAttemptActive
  <2>. QED
    BY <1>1, <2>1, TakenDriven, FirmDriven
<1>4. CASE IsAttemptActive(cm) /\ cm.dialed
  <2>1. cm' = Taken /\ cm.conn # "idle" /\ ~Final(cm, h)
    BY <1>1, <1>4 DEF OnConnectionPrepared, Driven, Apt, Final
  <2>. QED
    BY <1>1, <2>1, TakenDriven DEF h
<1>5. CASE IsAttemptActive(cm) /\ ~cm.dialed
  <2>1. cm' = n
    BY <1>5 DEF OnConnectionPrepared
  <2>2. cm.conn \in {"idle", "down"}
    BY <1>2, <1>5 DEF Driven, Apt, Live, Good, TypeOfManager, Connectors
  <2>3. /\ Helm(n) = <<cm.state, cm.cause, cm.timers, "starting", TRUE, cm.walk.kind, cm.blocking>>
        /\ n.ignore = cm.ignore /\ n.keyPrompt = cm.keyPrompt /\ n.queue = Taken.queue /\ n.walk = cm.walk
    BY <1>2 DEF Good, TypeOfManager, Helm
  <2>. HIDE DEF n
  <2>4. /\ n.state = cm.state /\ n.cause = cm.cause /\ n.timers = cm.timers /\ n.conn = "starting"
        /\ n.dialed /\ n.blocking = cm.blocking
    BY <2>3 DEF Helm
  <2>5. Current(n) = Current(Taken)
    BY <2>3, QueueDecides
  <2>6. Safe(cm) => Safe(n)
    <3>1. Ended(cm) => Ended(n)
      <4>1. \A m : Ended(m) <=> \E s \in Current(m) : s.name = "disconnected"
        BY DEF Ended, Current
      <4>. QED
        BY <1>1, <1>2, <2>5, <4>1
    <3>2. \A s \in Current(cm) : Final(cm, s) => s \in Current(n)
      BY <1>1, <1>2, <2>5 DEF Final
    <3>3. Waits(cm) => Safe(n)
      BY <2>3, <2>4 DEF Waits, Safe
    <3>. QED
      BY <2>3, <2>4, <3>1, <3>2, <3>3, SafeStays
  <2>7. Apt(n)
    BY <2>3, <2>4 DEF Driven, Apt, Live
  <2>8. Staged(cm) => Staged(n)
    BY <2>2, <2>3, <2>4, <2>6 DEF Staged, Uncapped
  <2>9. Heeded(cm) => Heeded(n)
    BY <1>2, <2>3, <2>4 DEF Heeded
  <2>10. Capped(cm) => Capped(n)
    BY <2>4 DEF Capped
  <2>. QED
    BY <2>1, <2>4, <2>7, <2>8, <2>9, <2>10 DEF Driven
<1>. QED
  BY <1>3, <1>4, <1>5

\* onConnectionDisconnected(): the session goes on under the cap, or ends.
LEMMA DisconnectedDriven ==
    ASSUME Good(cm), Driven(cm), online \in BOOLEAN, OnConnectionDisconnected
    PROVE  Driven(cm')
<1>. DEFINE r == Retire(Taken)
            m == Disarm(r, {"poll", "connecting"})
<1>1. cm.queue # <<>> /\ Good(Taken) /\ Taken \in TypeOfManager /\ Helm(Taken) = Helm(cm) /\ Apt(Taken)
  BY TakenLeaves, TakenDriven DEF OnConnectionDisconnected, Received, Driven, Good
<1>2. /\ r \in TypeOfManager /\ Owned(r) /\ Apt(r)
      /\ Helm(r) = <<cm.state, cm.cause, cm.timers, "none", FALSE, cm.walk.kind, cm.blocking>>
  <2>1. r \in TypeOfManager /\ Owned(r) /\ Apt(r)
    BY <1>1, RetireFacts, FirmStays
  <2>2. Helm(r) = <<Taken.state, Taken.cause, Taken.timers, "none", FALSE, Taken.walk.kind, Taken.blocking>>
    BY <1>1, HelmEnds
  <2>. QED
    BY <1>1, <2>1, <2>2 DEF Helm
<1>. HIDE DEF r
<1>3. /\ m \in TypeOfManager
      /\ Helm(m) = <<r.state, r.cause, r.timers \ {"poll", "connecting"}, r.conn, r.dialed, r.walk.kind, r.blocking>>
      /\ m.queue = r.queue /\ m.prep = r.prep
  <2>1. m.queue = r.queue /\ m.prep = r.prep
    BY <1>2 DEF Disarm, TypeOfManager
  <2>2. m \in TypeOfManager
    BY <1>2, ArmType DEF Timers
  <2>3. Helm(m) = <<r.state, r.cause, r.timers \ {"poll", "connecting"}, r.conn, r.dialed, r.walk.kind, r.blocking>>
    BY <1>2, HelmHelpers
  <2>. QED
    BY <2>1, <2>2, <2>3
<1>4. PICK env \in Now :
        cm' = CASE m.state = "Stopping" -> ReportPending(m)
                [] m.state = "Connected" -> StartAttempt(EnterReconnecting(m), env)
                [] m.state \in {"Connecting", "Reconnecting"} -> AfterDeath(m, env)
                [] m.state = "WaitingForNetwork" -> Arm(m, {"cap", "poll"})
                [] OTHER -> m
  BY DEF OnConnectionDisconnected, r
<1>5. env \in Conditions
  BY NowConditions
<1>. HIDE DEF m
<1>6. /\ Owned(m) /\ m.state = cm.state /\ m.cause = cm.cause /\ m.conn = "none" /\ m.dialed = FALSE
      /\ m.timers = cm.timers \ {"poll", "connecting"} /\ m.walk.kind = cm.walk.kind /\ m.blocking = cm.blocking
  BY <1>2, <1>3 DEF Helm, Owned
<1>7. Apt(m) /\ (m.blocking \/ Capped(m))
  BY <1>6 DEF Driven, Apt, Live, Capped
<1>8. ASSUME m.state # "Connected" PROVE Good(m)
  BY <1>1, <1>3, <1>6, <1>8 DEF Good, Quiet, Manned, IsSettled, Helm
<1>9. CASE m.state = "Stopping"
  <2>. DEFINE d == Disconnect(m)
              w == ResetWalk(d)
              p == [d EXCEPT !.authPrompt = TRUE]
  <2>1. d \in TypeOfManager /\ Firm(d)
    BY <1>7, <1>8, <1>9, <1>3, DisconnectGood, FirmEnds DEF Good
  <2>2. cm' \in {Report(w, "user"), p, Report(d, m.pending)}
    BY <1>4, <1>9 DEF ReportPending
  <2>. HIDE DEF d
  <2>3. w \in TypeOfManager /\ Firm(w)
    BY <2>1, ResetWalkGood, FirmStays, StrategyType DEF ResetWalk, TypeOfManager
  <2>4. Helm(p) = Helm(d)
    BY <2>1 DEF Helm, TypeOfManager
  <2>. HIDE DEF w, p
  <2>. QED
    BY <2>1, <2>2, <2>3, <2>4, FirmStays, HelmFrame, FirmDriven
<1>10. CASE m.state = "Connected"
  <2>. DEFINE e == EnterReconnecting(m)
  <2>1. Good(e) /\ e.state = "Reconnecting" /\ Firm(e)
    BY <1>3, <1>6, <1>7, TryAgainGood, FirmEnds
  <2>2. cm' = StartAttempt(e, env)
    BY <1>4, <1>10
  <2>. HIDE DEF e
  <2>3. Poised(e)
    BY <2>1 DEF Poised, Firm, IsSettled
  <2>. QED
    BY <1>5, <2>2, <2>3, StartAttemptDriven
<1>11. CASE m.state \in {"Connecting", "Reconnecting"}
  <2>1. cm' = AfterDeath(m, env)
    BY <1>4, <1>11
  <2>. QED
    BY <1>5, <1>7, <1>8, <1>11, <2>1, AfterDeathDriven
<1>12. CASE m.state = "WaitingForNetwork"
  <2>. DEFINE a == Arm(m, {"cap", "poll"})
  <2>1. cm' = a
    BY <1>4, <1>12
  <2>2. Helm(a) = <<m.state, m.cause, m.timers \cup {"cap", "poll"}, m.conn, m.dialed, m.walk.kind, m.blocking>>
    BY <1>3, HelmHelpers
  <2>. HIDE DEF a
  <2>3. Firm(a)
    BY <1>7, <1>12, <2>2 DEF Firm, Helm, Apt, Uncapped, Capped
  <2>. QED
    BY <2>1, <2>3, FirmDriven
<1>13. CASE m.state \notin {"Stopping", "Connected", "Connecting", "Reconnecting", "WaitingForNetwork"}
  <2>1. cm' = m
    BY <1>4, <1>13
  <2>2. Firm(m)
    BY <1>7, <1>13 DEF Firm, Uncapped, Apt
  <2>. QED
    BY <2>1, <2>2, FirmDriven
<1>. QED
  BY <1>9, <1>10, <1>11, <1>12, <1>13

\* A final error is never ignored, and every error of a connector is known.
LEMMA FinalRoutes ==
    ASSUME NEW m, NEW s
    PROVE  LET route == ClassifyConnectError(s.err, IsAutomaticMode(m.walk), EmitAuthError,
                                             ShouldRetryOnAttemptFailure(m.walk))
           IN  /\ Final(m, s) /\ m.state # "Connecting" => route # "Retry"
               /\ route = "Unknown" => s.err \notin RuntimeErrors
<1>. DEFINE err == s.err
            automatic == IsAutomaticMode(m.walk)
            again == ShouldRetryOnAttemptFailure(m.walk)
            route == ClassifyConnectError(err, automatic, EmitAuthError, again)
<1>1. (m.walk.kind = "custom" => ~automatic /\ ~again) /\ (m.walk.kind # "emergency" => ~again)
  BY DEF IsAutomaticMode, ShouldRetryOnAttemptFailure
<1>. HIDE DEF automatic, again
<1>2. ~again /\ err = "kLocalProcessNotResponding" => route # "Retry"
  BY DEF ClassifyConnectError, LocalErrors, ServiceErrors
<1>3. ~again /\ ~automatic /\ err \in RuntimeErrors \ Retried => route # "Retry"
  <2>1. CASE err = "kTunnelEstablishmentFailure"
    BY <2>1 DEF ClassifyConnectError, LocalErrors, ServiceErrors
  <2>2. CASE err = "kPrivKeyPasswordFailure"
    BY <2>2 DEF ClassifyConnectError, LocalErrors, ServiceErrors
  <2>3. CASE err \in ServiceErrors
    BY <2>3 DEF ClassifyConnectError, LocalErrors, ServiceErrors
  <2>4. CASE err \in LocalErrors
    BY <2>4 DEF ClassifyConnectError, LocalErrors, ServiceErrors
  <2>. QED
    BY <2>1, <2>2, <2>3, <2>4 DEF RuntimeErrors, Retried
<1>4. route = "Unknown" => err \notin RuntimeErrors
  <2>1. CASE err \in {"kTunnelEstablishmentFailure", "kPrivKeyPasswordFailure", "kTransientTunnelFailure", "kAuthFailure"}
    BY <2>1 DEF ClassifyConnectError, LocalErrors, ServiceErrors
  <2>3. CASE err \in ServiceErrors
    BY <2>3 DEF ClassifyConnectError, LocalErrors, ServiceErrors
  <2>4. CASE err \in LocalErrors /\ again
    BY <2>4 DEF ClassifyConnectError, LocalErrors, ServiceErrors
  <2>5. CASE err \in LocalErrors /\ ~again
    BY <2>5 DEF ClassifyConnectError, LocalErrors, ServiceErrors
  <2>. QED
    BY <2>1, <2>3, <2>4, <2>5 DEF RuntimeErrors
<1>. HIDE DEF route
<1>5. Final(m, s) /\ m.state # "Connecting" => route # "Retry"
  BY <1>1, <1>2, <1>3 DEF Final
<1>. QED
  BY <1>4, <1>5 DEF route, automatic, again

\* The ways out of onConnectionError(), and when an error is dropped.
LEMMA ErrorTurns ==
    ASSUME cm \in TypeOfManager, OnConnectionError
    PROVE  LET h == Head(cm.queue)
               route == ClassifyConnectError(h.err, IsAutomaticMode(Cleared.walk), EmitAuthError,
                                             ShouldRetryOnAttemptFailure(Cleared.walk))
           IN  \/ IsSettled(cm) /\ cm' = Taken
               \/ /\ ~IsSettled(cm) /\ cm' = Cleared
                  /\ (cm.ignore /\ route = "Retry") \/ route = "Unknown"
               \/ ~IsSettled(cm) /\ \E o \in {"error", "authError"} : cm' = Dropped(Stop(Cleared, o))
               \/ ~IsSettled(cm) /\ cm' = Report(Disconnect(Cleared), "error")
               \/ /\ ~IsSettled(cm) /\ ~cm.ignore
                  /\ cm' \in {Dropped(EnterReconnecting(Seen(Cleared))),
                              HandleAttemptFailed(Seen(Cleared), h.err # "kAuthFailure")}
<1>. DEFINE err == Head(cm.queue).err
            m == Cleared
            route == ClassifyConnectError(err, IsAutomaticMode(m.walk), EmitAuthError,
                                          ShouldRetryOnAttemptFailure(m.walk))
            outcome == IF m.walk.kind = "custom" /\ err \in {"kAuthFailure", "kPrivKeyPasswordFailure"}
                       THEN "authError" ELSE "error"
<1>2. IsSettled(cm) \in BOOLEAN /\ cm.ignore \in BOOLEAN
  BY DEF IsSettled, TypeOfManager
<1>3. cm' = CASE IsSettled(cm) \/ (route = "Retry" /\ cm.ignore) \/ route = "Unknown" ->
                      IF IsSettled(cm) THEN Taken ELSE m
              [] ~IsSettled(cm) /\ route = "ErrorAfterDisconnect" -> Dropped(Stop(m, outcome))
              [] ~IsSettled(cm) /\ route = "ErrorImmediately" -> Report(Disconnect(m), "error")
              [] ~IsSettled(cm) /\ route = "Retry" /\ ~cm.ignore ->
                   IF m.state = "Connected" THEN Dropped(EnterReconnecting(Seen(m)))
                   ELSE HandleAttemptFailed(Seen(m), err # "kAuthFailure")
  BY DEF OnConnectionError, Cleared, Dropped, Seen
<1>4. route \in {"ErrorAfterDisconnect", "ErrorImmediately", "Retry", "Unknown"}
  <2>1. \A automatic, again : ClassifyConnectError(err, automatic, EmitAuthError, again)
           \in {"ErrorAfterDisconnect", "ErrorImmediately", "Retry", "Unknown"}
    BY DEF ClassifyConnectError
  <2>. QED
    BY <2>1
<1>5. outcome \in {"error", "authError"}
  OBVIOUS
<1>. HIDE DEF m, route, outcome, err
<1>6. CASE IsSettled(cm) \/ (route = "Retry" /\ cm.ignore) \/ route = "Unknown"
  BY <1>3, <1>6 DEF m, route, err
<1>7. CASE ~IsSettled(cm) /\ route = "ErrorAfterDisconnect"
  BY <1>3, <1>5, <1>7 DEF m
<1>8. CASE ~IsSettled(cm) /\ route = "ErrorImmediately"
  BY <1>3, <1>8 DEF m
<1>9. CASE ~IsSettled(cm) /\ route = "Retry" /\ ~cm.ignore
  BY <1>3, <1>9 DEF m, err
<1>. QED
  BY <1>2, <1>4, <1>6, <1>7, <1>8, <1>9

\* onConnectionError(): the error that is dropped ends nothing.
LEMMA ErrorDriven ==
    ASSUME Good(cm), Driven(cm), OnConnectionError
    PROVE  Driven(cm')
<1>. DEFINE h == Head(cm.queue)
            c == Cleared
            route == ClassifyConnectError(h.err, IsAutomaticMode(c.walk), EmitAuthError,
                                          ShouldRetryOnAttemptFailure(c.walk))
<1>1. /\ cm.queue # <<>> /\ h.name = "error" /\ h.current /\ Good(Taken) /\ Taken \in TypeOfManager
      /\ h \in Current(cm) /\ Helm(Taken) = Helm(cm) /\ Taken.walk = cm.walk /\ Apt(Taken)
      /\ Taken.ignore = cm.ignore /\ cm.conn # "none"
  BY TakenLeaves, TakenDriven, TakenGood DEF OnConnectionError, Received, Driven, Good
<1>2. Good(c) /\ Apt(c) /\ Helm(c) = Helm(cm)
  <2>. DEFINE tunnel == (h.err = "kTunnelEstablishmentFailure")
  <2>1. tunnel \in BOOLEAN /\ Cleared = ClearCachedConfigIfExhausted(Taken, tunnel)
    BY DEF Cleared
  <2>. HIDE DEF tunnel
  <2>. QED
    BY <1>1, <2>1, ClearCachedConfigGood, FirmStays, HelmWalk
<1>3. /\ c.ignore = Taken.ignore /\ c.prep = Taken.prep /\ c.keyPrompt = Taken.keyPrompt
      /\ c.queue = Taken.queue /\ c.resolving = Taken.resolving
  BY <1>1 DEF Cleared, ClearCachedConfigIfExhausted, TypeOfManager
<1>. HIDE DEF c, h
<1>4. ASSUME Driven(Taken) PROVE Driven(c)
  <2>1. /\ c.state = Taken.state /\ c.cause = Taken.cause /\ c.timers = Taken.timers /\ c.conn = Taken.conn
        /\ c.dialed = Taken.dialed /\ c.blocking = Taken.blocking /\ c.walk.kind = Taken.walk.kind
    BY <1>1, <1>2 DEF Helm
  <2>2. Taken.walk.kind \in SessionKinds \cup {"manual"}
    BY <1>1 DEF Apt
  <2>. QED
    BY <1>3, <1>4, <2>1, <2>2, DrivenAlike
<1>5. /\ c.walk.kind = cm.walk.kind /\ c.state = cm.state /\ c.cause = cm.cause /\ c.timers = cm.timers
      /\ c.conn = cm.conn /\ c.blocking = cm.blocking
  BY <1>2 DEF Helm
<1>6. CASE IsSettled(cm) /\ cm' = Taken
  <2>1. Firm(cm)
    BY <1>6, DrivenFirm DEF IsSettled
  <2>. QED
    BY <1>1, <1>6, <2>1, TakenDriven, FirmDriven
<1>7. CASE ~IsSettled(cm) /\ cm' = c /\ ((cm.ignore /\ route = "Retry") \/ route = "Unknown")
  <2>1. CASE cm.state \notin {"Connecting", "Reconnecting"}
    <3>1. Firm(c)
      BY <1>2, <2>1, DrivenFirm, HelmFrame
    <3>. QED
      BY <1>7, <3>1, FirmDriven
  <2>2. CASE cm.blocking
    BY <1>2, <1>5, <1>7, <2>2 DEF Driven
  <2>3. CASE ~Final(cm, h)
    BY <1>1, <1>4, <1>7, <2>3, TakenDriven DEF h
  <2>4. CASE Final(cm, h) /\ cm.state \in {"Connecting", "Reconnecting"} /\ ~cm.blocking
    <3>0. h.err \in RuntimeErrors
      BY <2>4 DEF Final
    <3>1. Final(c, h)
      BY <1>5, <2>4 DEF Final
    <3>2. c.state = "Connecting" /\ cm.ignore
      BY <1>7, <3>0, <3>1, FinalRoutes
    <3>3. "poll" \in c.timers
      BY <1>1, <1>5, <2>4, <3>2 DEF Driven, Heeded
    <3>4. Safe(c) /\ Heeded(c)
      BY <3>3 DEF Safe, Waits, Heeded
    <3>5. Staged(c)
      BY <3>3, <3>4 DEF Staged
    <3>6. Capped(c)
      BY <1>5, <2>4 DEF Driven, Capped
    <3>. QED
      BY <1>2, <1>7, <3>4, <3>5, <3>6 DEF Driven
  <2>. QED
    BY <2>1, <2>2, <2>3, <2>4
<1>8. \A n : n \in TypeOfManager /\ Firm(n) => Firm(Dropped(n))
  BY FirmStays DEF Dropped
<1>9. \A o \in {"error", "authError"} : Driven(Dropped(Stop(c, o)))
  <2>1. \A o \in {"error", "authError"} : Stop(c, o) \in TypeOfManager /\ Firm(Stop(c, o))
    BY <1>2, StopGood, FirmEnds DEF Good, Outcomes
  <2>. QED
    BY <1>8, <2>1, FirmDriven
<1>10. Driven(Report(Disconnect(c), "error"))
  BY <1>2, DisconnectGood, FirmEnds, FirmStays, FirmDriven DEF Good
<1>. DEFINE s == Seen(c)
<1>11. Good(s) /\ Apt(s) /\ Helm(s) = Helm(c)
  BY <1>2, WalkGood, FirmStays, HelmHelpers DEF Good
<1>. HIDE DEF s
<1>12. Driven(Dropped(EnterReconnecting(s)))
  <2>1. EnterReconnecting(s) \in TypeOfManager /\ Firm(EnterReconnecting(s))
    BY <1>11, EnterReconnectingGood, FirmEnds DEF Good
  <2>. QED
    BY <1>8, <2>1, FirmDriven
<1>13. \A b \in BOOLEAN : Driven(HandleAttemptFailed(s, b))
  <2>1. s.blocking \/ Capped(s)
    BY <1>2, <1>11 DEF Driven, Capped, Helm
  <2>. QED
    BY <1>11, <2>1, HandleAttemptFailedFirm, FirmDriven
<1>14. (h.err # "kAuthFailure") \in BOOLEAN
  OBVIOUS
<1>. HIDE DEF route
<1>15. \/ IsSettled(cm) /\ cm' = Taken
       \/ /\ ~IsSettled(cm) /\ cm' = c /\ ((cm.ignore /\ route = "Retry") \/ route = "Unknown")
       \/ \E o \in {"error", "authError"} : cm' = Dropped(Stop(c, o))
       \/ cm' = Report(Disconnect(c), "error")
       \/ cm' \in {Dropped(EnterReconnecting(s)), HandleAttemptFailed(s, h.err # "kAuthFailure")}
  BY ErrorTurns DEF Good, c, s, h, route
<1>. QED
  BY <1>6, <1>7, <1>9, <1>10, <1>12, <1>13, <1>14, <1>15

\* The connector's signals keep the invariant.
LEMMA SlotsDriven ==
    ASSUME Good(cm), Driven(cm), online \in BOOLEAN, Slots
    PROVE  Driven(cm')
<1>. DEFINE h == Head(cm.queue)
<1>1. ASSUME cm.queue # <<>>
      PROVE  /\ Good(Taken) /\ Taken \in TypeOfManager /\ Apt(Taken) /\ Helm(Taken) = Helm(cm)
             /\ Taken.keyPrompt = cm.keyPrompt
             /\ h.current => Taken.conn # "none" /\ Current(cm) # {}
             /\ cm.state \notin {"Connecting", "Reconnecting"} => Firm(Taken)
             /\ Taken.ignore = cm.ignore
  BY <1>1, TakenLeaves, TakenDriven, TakenGood, DrivenFirm DEF Driven, Good
<1>2. CASE IgnoreRetiredConnector
  BY <1>2, TakenDriven DEF IgnoreRetiredConnector
<1>3. CASE OnConnectionPrepareFailed
  <2>1. \/ ~IsAttemptActive(cm) /\ cm' = Taken
        \/ cm' \in {StartFailoverReconnect(Taken), FailWithError(Taken)}
    BY <1>3 DEF OnConnectionPrepareFailed
  <2>2. Firm(StartFailoverReconnect(Taken)) /\ Firm(FailWithError(Taken))
    BY <1>1, <1>3, StartFailoverReconnectFirm, FailWithErrorFirm DEF OnConnectionPrepareFailed, Received, Good
  <2>. QED
    BY <1>1, <1>3, <2>1, <2>2, FirmDriven DEF OnConnectionPrepareFailed, Received, IsAttemptActive
<1>4. CASE OnConnectionUserInputRequired
  <2>. DEFINE d == Disarm(Taken, {"connecting"})
              n == [d EXCEPT !.keyPrompt = TRUE]
  <2>0. cm.queue # <<>> /\ h.current
    BY <1>4 DEF OnConnectionUserInputRequired, Received
  <2>1. \/ ~IsAttemptActive(cm) /\ cm' = Taken
        \/ cm' = n
    BY <1>4 DEF OnConnectionUserInputRequired
  <2>2. d.ignore = cm.ignore /\ d \in TypeOfManager
        /\ Helm(d) = <<Taken.state, Taken.cause, Taken.timers \ {"connecting"}, Taken.conn, Taken.dialed, Taken.walk.kind, Taken.blocking>>
    <3>1. d.ignore = cm.ignore
      BY <1>1, <2>0 DEF Disarm, TypeOfManager
    <3>2. d \in TypeOfManager
      BY <1>1, <2>0, ArmType DEF Timers
    <3>3. Helm(d) = <<Taken.state, Taken.cause, Taken.timers \ {"connecting"}, Taken.conn, Taken.dialed, Taken.walk.kind, Taken.blocking>>
      BY <1>1, <2>0, HelmHelpers
    <3>. QED
      BY <3>1, <3>2, <3>3
  <2>. HIDE DEF d
  <2>3. Helm(n) = Helm(d) /\ n.ignore = d.ignore /\ n.keyPrompt = TRUE
    BY <2>2 DEF Helm, TypeOfManager
  <2>. HIDE DEF n
  <2>4. /\ n.state = cm.state /\ n.cause = cm.cause /\ n.timers = cm.timers \ {"connecting"} /\ n.conn = cm.conn
        /\ n.dialed = cm.dialed /\ n.walk.kind = cm.walk.kind /\ n.blocking = cm.blocking
        /\ n.conn # "none" /\ n.ignore = cm.ignore
    BY <1>1, <2>0, <2>2, <2>3 DEF Helm
  <2>5. Safe(n)
    BY <2>3, <2>4 DEF Safe, Waits
  <2>6. Apt(n) /\ (cm.blocking \/ (Staged(n) /\ Capped(n)))
    BY <2>4, <2>5 DEF Driven, Apt, Staged, Capped
  <2>7. cm.blocking \/ Heeded(n)
    BY <1>1, <2>0, <2>4 DEF Driven, Heeded
  <2>8. Driven(n)
    BY <2>4, <2>6, <2>7 DEF Driven
  <2>. QED
    BY <1>1, <2>0, <2>1, <2>8, FirmDriven DEF IsAttemptActive
<1>5. CASE OnConnectionConnected
  <2>. DEFINE d == Disarm(Taken, {"cap", "connecting"})
              n == SetState(d, "Connected", "Regular")
  <2>0. cm.queue # <<>>
    BY <1>5 DEF OnConnectionConnected, Received
  <2>1. \/ cm.state \notin {"Connecting", "Reconnecting"} /\ cm' = Taken
        \/ cm' = n
    BY <1>5 DEF OnConnectionConnected
  <2>2. d \in TypeOfManager
        /\ Helm(d) = <<Taken.state, Taken.cause, Taken.timers \ {"cap", "connecting"}, Taken.conn, Taken.dialed, Taken.walk.kind, Taken.blocking>>
    BY <1>1, <2>0, ArmType, HelmHelpers DEF Timers
  <2>. HIDE DEF d
  <2>3. Helm(n) = <<"Connected", "Regular", d.timers, d.conn, d.dialed, d.walk.kind, d.blocking>>
    BY <2>2, HelmHelpers
  <2>. HIDE DEF n
  <2>4. Firm(n)
    BY <1>1, <2>0, <2>2, <2>3 DEF Firm, Helm, Apt, Uncapped, Capped
  <2>. QED
    BY <1>1, <2>0, <2>1, <2>4, FirmDriven
<1>6. CASE OnConnectionReconnecting
  <2>1. cm.queue # <<>> /\ h.name = "reconnecting" /\ cm' = HandleReconnecting(Taken)
    BY <1>6 DEF OnConnectionReconnecting, Received
  <2>2. Driven(Taken)
    BY <2>1, TakenDriven DEF Final
  <2>. QED
    BY <1>1, <2>1, <2>2, HandleReconnectingDriven
<1>. QED
  BY <1>2, <1>3, <1>4, <1>5, <1>6, PreparedDriven, DisconnectedDriven, ErrorDriven DEF Slots

-----------------------------------------------------------------------------
(* The public methods and the timers                                        *)

\* clickConnect() starts an attempt without a connector and without timers.
LEMMA ConnectDriven ==
    ASSUME Good(cm), Driven(cm), online \in BOOLEAN, NEW kind \in SessionKinds, ClickConnect(kind)
    PROVE  Driven(cm')
<1>. DEFINE s == SetState(cm, "Connecting", "Regular")
            c == [s EXCEPT !.succeeded = FALSE, !.resolving = FALSE, !.authPrompt = FALSE, !.told = <<>>]
            r == Retire(c)
            n == NewWalk(r, kind)
<1>0. kind \in Kinds
  BY PlatformAssumption
<1>1. /\ Good(s) /\ cm.timers = {} /\ s \in TypeOfManager
      /\ Helm(s) = <<"Connecting", "Regular", cm.timers, cm.conn, cm.dialed, cm.walk.kind, cm.blocking>>
  BY SetStateGood, HelmHelpers DEF ClickConnect, Good, Quiet, IsSettled
<1>. HIDE DEF s
<1>2. <<>> \in Seq(Outcomes)
  OBVIOUS
<1>3. c \in TypeOfManager /\ Helm(c) = Helm(s)
  BY <1>1, <1>2 DEF TypeOfManager, Helm
<1>. HIDE DEF c
<1>4. /\ r \in TypeOfManager /\ Owned(r)
      /\ Helm(r) = <<c.state, c.cause, c.timers, "none", FALSE, c.walk.kind, c.blocking>>
  BY <1>3, RetireFacts, HelmEnds
<1>. HIDE DEF r
<1>5. Good(r)
  BY <1>1, <1>3, <1>4 DEF Good, Quiet, Manned, Helm
<1>6. Good(n) /\ n.walk.kind = kind /\ n.cause = r.cause /\ Skeleton(n) = Skeleton(r)
  BY <1>0, <1>4, <1>5, NewWalkGood, NewWalkFresh DEF NewWalk, CreateStrategy, TypeOfManager
<1>7. PICK env \in Now : cm' = StartAttempt(n, env)
  BY DEF ClickConnect, s, c, r
<1>. HIDE DEF n
<1>8. Poised(n)
  BY <1>1, <1>3, <1>4, <1>6 DEF Poised, Apt, Capped, IsSettled, Live, Helm, Skeleton
<1>. QED
  BY <1>7, <1>8, NowConditions, StartAttemptDriven

\* updateConnectionSettings() keeps a session of its kind.
LEMMA SettingsDriven ==
    ASSUME Good(cm), Driven(cm), NEW kind \in SessionKinds, UpdateConnectionSettings(kind)
    PROVE  Driven(cm')
<1>. DEFINE c == [cm EXCEPT !.resolving = cm.resolving /\ kind = "custom"]
            n == NewWalk(c, kind)
<1>0. kind \in Kinds /\ cm \in TypeOfManager
  BY PlatformAssumption DEF Good
<1>1. /\ Good(c) /\ Helm(c) = Helm(cm) /\ (kind = "custom" => c.resolving = cm.resolving)
      /\ c.ignore = cm.ignore /\ c.prep = cm.prep /\ c.keyPrompt = cm.keyPrompt /\ c.queue = cm.queue
  <2>1. Good(c)
    BY DEF Good, Quiet, Manned, Owned, IsSettled, TypeOfManager
  <2>. QED
    BY <1>0, <2>1 DEF TypeOfManager, Helm
<1>2. /\ kind # "emergency" /\ (kind = "custom" <=> cm.walk.kind = "custom")
      /\ cm' \in {n, StartDisconnect(EnterReconnecting(n))}
  BY DEF UpdateConnectionSettings
<1>. HIDE DEF c
<1>3. /\ Good(n) /\ n \in TypeOfManager /\ Skeleton(n) = Skeleton(c) /\ n.walk.kind = kind /\ n.cause = c.cause
      /\ n.ignore = c.ignore /\ n.prep = c.prep /\ n.keyPrompt = c.keyPrompt /\ n.resolving = c.resolving
  <2>1. Good(n) /\ Skeleton(n) = Skeleton(c)
    BY <1>0, <1>1, NewWalkGood, NewWalkFresh DEF Good
  <2>2. /\ n.walk.kind = kind /\ n.cause = c.cause
        /\ n.ignore = c.ignore /\ n.prep = c.prep /\ n.keyPrompt = c.keyPrompt /\ n.resolving = c.resolving
    BY <1>0, <1>1 DEF NewWalk, CreateStrategy, Good, TypeOfManager
  <2>. QED
    BY <2>1, <2>2 DEF Good
<1>. HIDE DEF n
<1>4. Driven(n)
  <2>1. /\ n.state = cm.state /\ n.cause = cm.cause /\ n.timers = cm.timers /\ n.conn = cm.conn
        /\ n.dialed = cm.dialed /\ n.blocking = cm.blocking /\ n.queue = cm.queue
    BY <1>1, <1>3 DEF Helm, Skeleton
  <2>2. kind \in SessionKinds \cup {"manual"}
    OBVIOUS
  <2>. QED
    BY <1>1, <1>2, <1>3, <2>1, <2>2, DrivenAlike
<1>5. Firm(StartDisconnect(EnterReconnecting(n)))
  BY <1>3, <1>4, EnterReconnectingGood, FirmEnds, FirmStays DEF Good, Driven
<1>. QED
  BY <1>2, <1>4, <1>5, FirmDriven

\* The public methods keep the invariant.
LEMMA RequestsDriven ==
    ASSUME Good(cm), Driven(cm), online \in BOOLEAN, Requests
    PROVE  Driven(cm')
<1>0. cm \in TypeOfManager /\ Apt(cm)
  BY DEF Good, Driven
<1>1. ASSUME NEW kind \in SessionKinds, ClickConnect(kind) \/ UpdateConnectionSettings(kind)
      PROVE  Driven(cm')
  BY <1>1, ConnectDriven, SettingsDriven
<1>2. CASE ClickDisconnect
  <2>. DEFINE told == IF cm.state = "Disconnected" THEN <<>> ELSE cm.told
              c == [cm EXCEPT !.authPrompt = FALSE, !.told = told]
  <2>1. told \in Seq(Outcomes)
    BY DEF Good, TypeOfManager
  <2>2. cm' = Click(c)
    BY <1>2 DEF ClickDisconnect
  <2>. HIDE DEF told
  <2>3. Good(c) /\ Helm(c) = Helm(cm)
    <3>1. Good(c)
      BY <2>1 DEF Good, Quiet, Manned, Owned, IsSettled, TypeOfManager
    <3>. QED
      BY <1>0, <3>1 DEF Helm, TypeOfManager
  <2>. HIDE DEF c
  <2>4. Firm(Click(c))
    BY <1>0, <2>3, HelmFrame, ClickFirm
  <2>. QED
    BY <2>2, <2>4, FirmDriven
<1>3. CASE Reconnect
  BY <1>3, HandleReconnectingDriven DEF Reconnect
<1>4. CASE ForwardUserInputOrReconnect
  <2>. DEFINE s == SetState(cm, "Connecting", "Regular")
              c == [s EXCEPT !.succeeded = FALSE, !.authPrompt = FALSE]
  <2>1. /\ Good(s) /\ s \in TypeOfManager
        /\ Helm(s) = <<"Connecting", "Regular", cm.timers, cm.conn, cm.dialed, cm.walk.kind, cm.blocking>>
    BY <1>0, SetStateGood, HelmHelpers DEF Good
  <2>. HIDE DEF s
  <2>2. c \in TypeOfManager /\ Helm(c) = Helm(s) /\ c.prep = s.prep /\ c.queue = s.queue
    BY <2>1 DEF TypeOfManager, Helm
  <2>3. PICK env \in Now : cm' = StartAttempt(c, env)
    BY <1>4 DEF ForwardUserInputOrReconnect, s, c
  <2>. HIDE DEF c
  <2>4. Good(c)
    BY <2>1, <2>2, SameGood DEF Helm
  <2>5. Poised(c)
    BY <1>0, <2>1, <2>2, <2>4 DEF Poised, Apt, Capped, IsSettled, Helm
  <2>. QED
    BY <2>3, <2>5, NowConditions, StartAttemptDriven
<1>5. ASSUME NEW yes \in BOOLEAN, OnWireGuardKeyLimitUserResponse(yes) PROVE Driven(cm')
  <2>. DEFINE c == [cm EXCEPT !.keyPrompt = FALSE]
              prep == IF c.prep = "consent" THEN "preparing" ELSE c.prep
              p == [c EXCEPT !.prep = prep]
              a == Arm(p, {"connecting"})
  <2>1. Good(c)
    BY DEF Good, Quiet, Manned, Owned, IsSettled, TypeOfManager
  <2>2. /\ Helm(c) = Helm(cm) /\ c.prep = cm.prep /\ c.queue = cm.queue /\ c.ignore = cm.ignore
    BY <1>0 DEF Helm, TypeOfManager
  <2>3. \/ ~IsAttemptActive(c) /\ cm' = c
        \/ cm' = Click(c)
        \/ c.conn # "none" /\ cm' = a
        \/ c.conn = "none" /\ cm' = c
    BY <1>5 DEF OnWireGuardKeyLimitUserResponse, IsAttemptActive
  <2>. HIDE DEF c
  <2>4. /\ c.state = cm.state /\ c.cause = cm.cause /\ c.timers = cm.timers /\ c.conn = cm.conn
        /\ c.dialed = cm.dialed /\ c.walk.kind = cm.walk.kind /\ c.blocking = cm.blocking
        /\ Current(c) = Current(cm) /\ Apt(c)
    BY <1>0, <2>2, QueueDecides, HelmFrame DEF Helm
  <2>5. Firm(Click(c))
    BY <2>1, <2>4, ClickFirm
  <2>6. ~IsAttemptActive(c) => Firm(c)
    BY <2>2, <2>4, DrivenFirm, HelmFrame DEF IsAttemptActive
  <2>7. c.conn = "none" => Driven(c)
    BY <2>2, <2>4 DEF Driven, Staged, Heeded, Capped, Uncapped
  <2>8. Driven(a)
    <3>1. prep \in {"none", "preparing", "consent"}
      BY <2>1 DEF Good, TypeOfManager
    <3>2. c.prep = "none" => prep = "none"
      OBVIOUS
    <3>. HIDE DEF prep
    <3>3. p \in TypeOfManager /\ Helm(p) = Helm(c) /\ p.queue = c.queue /\ p.ignore = c.ignore /\ p.prep = prep
      BY <2>1, <3>1 DEF Good, TypeOfManager, Helm
    <3>. HIDE DEF p
    <3>4. /\ Helm(a) = <<p.state, p.cause, p.timers \cup {"connecting"}, p.conn, p.dialed, p.walk.kind, p.blocking>>
          /\ a.queue = p.queue /\ a.ignore = p.ignore /\ a.prep = p.prep
      <4>1. a.queue = p.queue /\ a.ignore = p.ignore /\ a.prep = p.prep
        BY <3>3 DEF Arm, TypeOfManager
      <4>. QED
        BY <3>3, <4>1, HelmHelpers
    <3>. HIDE DEF a
    <3>5. /\ a.state = cm.state /\ a.cause = cm.cause /\ a.timers = cm.timers \cup {"connecting"} /\ a.conn = cm.conn
          /\ a.dialed = cm.dialed /\ a.walk.kind = cm.walk.kind /\ a.blocking = cm.blocking
          /\ Current(a) = Current(cm) /\ a.ignore = cm.ignore
      BY <2>2, <2>4, <3>3, <3>4, QueueDecides DEF Helm
    <3>9. Apt(a)
      BY <1>0, <3>5 DEF Apt
    <3>10. Capped(cm) => Capped(a)
      BY <3>5 DEF Capped
    <3>11. cm.prep = "none" => a.prep = "none"
      BY <2>2, <3>2, <3>3, <3>4
    <3>12. Heeded(cm) => Heeded(a)
      BY <3>5, <3>11 DEF Heeded
    <3>6. Apt(a) /\ (cm.blocking \/ (Heeded(a) /\ Capped(a)))
      BY <3>9, <3>10, <3>12 DEF Driven
    <3>7. Safe(a) /\ a.timers # {}
      BY <3>5 DEF Safe, Waits
    <3>8. Staged(a)
      BY <3>7 DEF Staged
    <3>. QED
      BY <3>5, <3>6, <3>8 DEF Driven
  <2>. QED
    BY <2>3, <2>5, <2>6, <2>7, <2>8, FirmDriven
<1>6. ASSUME NEW yes \in BOOLEAN, OnTunnelTestResult(yes) PROVE Driven(cm')
  <2>. DEFINE w == ResetCachedConfigBudget(cm.walk)
              ok == cm.succeeded \/ IsAutomaticMode(cm.walk)
              c == [cm EXCEPT !.walk = w, !.succeeded = ok]
  <2>1. cm.walk \in Strategy
    BY <1>0 DEF TypeOfManager
  <2>2. w.kind = cm.walk.kind
    BY <2>1, ThriftyUpdates DEF Thrifty
  <2>3. cm' \in {c, cm, HandleAttemptFailed(cm, TRUE)} /\ cm.state = "Connected"
    BY <1>6 DEF OnTunnelTestResult
  <2>. HIDE DEF w, ok
  <2>4. Helm(c) = Helm(cm)
    BY <1>0, <2>2 DEF Helm, TypeOfManager
  <2>5. Firm(c)
    BY <2>3, <2>4, DrivenFirm, HelmFrame
  <2>6. Firm(HandleAttemptFailed(cm, TRUE))
    BY HandleAttemptFailedFirm DEF Driven
  <2>. QED
    BY <2>3, <2>5, <2>6, FirmDriven
<1>7. CASE SetFirewallAlwaysOnPlusEnabled
  <2>1. cm' = [cm EXCEPT !.alwaysOnPlus = ~cm.alwaysOnPlus]
    BY <1>7 DEF SetFirewallAlwaysOnPlusEnabled
  <2>2. /\ cm'.state = cm.state /\ cm'.cause = cm.cause /\ cm'.timers = cm.timers /\ cm'.conn = cm.conn
        /\ cm'.dialed = cm.dialed /\ cm'.blocking = cm.blocking /\ cm'.ignore = cm.ignore
        /\ cm'.prep = cm.prep /\ cm'.keyPrompt = cm.keyPrompt /\ cm'.queue = cm.queue
        /\ cm'.walk = cm.walk /\ cm'.resolving = cm.resolving
    BY <1>0, <2>1 DEF TypeOfManager
  <2>3. cm'.walk.kind \in SessionKinds \cup {"manual"}
    BY <1>0, <2>2 DEF Apt
  <2>. QED
    BY <2>2, <2>3, DrivenAlike
<1>. QED
  BY <1>1, <1>2, <1>3, <1>4, <1>5, <1>6, <1>7 DEF Requests

\* The timers and the asynchronous answers keep the invariant.
LEMMA TimeoutsDriven ==
    ASSUME Good(cm), Placed(cm), Driven(cm), online \in BOOLEAN, Timeouts
    PROVE  Driven(cm')
<1>0. cm \in TypeOfManager /\ Apt(cm) /\ (cm.blocking \/ Capped(cm))
  BY DEF Good, Driven
<1>1. CASE OnTimerReconnection
  <2>. DEFINE m == Disarm(cm, {"cap"})
  <2>1. /\ Good(m) /\ m \in TypeOfManager
        /\ Helm(m) = <<cm.state, cm.cause, cm.timers \ {"cap"}, cm.conn, cm.dialed, cm.walk.kind, cm.blocking>>
    BY <1>0, DisarmGood, HelmHelpers DEF Timers, Good
  <2>2. \/ m.state = "Stopping" /\ cm' = m
        \/ cm' \in {StartDisconnect(Stop(m, "timeout")), Report(Disconnect(m), "timeout")}
    BY <1>1 DEF OnTimerReconnection
  <2>. HIDE DEF m
  <2>3. Apt(m) /\ (m.state = "Stopping" => Firm(m))
    BY <1>0, <2>1 DEF Helm, Firm, Apt, Uncapped, Capped
  <2>4. Firm(StartDisconnect(Stop(m, "timeout"))) /\ Firm(Report(Disconnect(m), "timeout"))
    BY <2>1, <2>3, FirmEnds, FirmStays, StopGood, DisconnectGood DEF Good, Outcomes
  <2>. QED
    BY <2>2, <2>3, <2>4, FirmDriven
<1>2. CASE OnConnectTrigger
  <2>. DEFINE m == Disarm(cm, {"rest"})
  <2>1. /\ Good(m) /\ "rest" \in cm.timers
        /\ Helm(m) = <<cm.state, cm.cause, cm.timers \ {"rest"}, cm.conn, cm.dialed, cm.walk.kind, cm.blocking>>
    BY <1>0, <1>2, DisarmGood, HelmHelpers DEF OnConnectTrigger, Timers
  <2>2. PICK env \in Now : cm' = StartAttempt(m, env)
    BY <1>2 DEF OnConnectTrigger
  <2>. HIDE DEF m
  <2>3. Poised(m)
    BY <1>0, <2>1 DEF Poised, Helm, Apt, Capped, IsSettled, Good, Quiet
  <2>. QED
    BY <2>2, <2>3, NowConditions, StartAttemptDriven
<1>3. CASE OnConnectingTimeout
  <2>. DEFINE m == Disarm(cm, {"connecting"})
              c == ClearCachedConfigIfExhausted(m, TRUE)
  <2>1. /\ Good(m) /\ m \in TypeOfManager
        /\ Helm(m) = <<cm.state, cm.cause, cm.timers \ {"connecting"}, cm.conn, cm.dialed, cm.walk.kind, cm.blocking>>
    BY <1>0, DisarmGood, HelmHelpers DEF Timers, Good
  <2>2. cm' = StartFailoverReconnect(c)
    BY <1>3 DEF OnConnectingTimeout
  <2>. HIDE DEF m
  <2>3. Apt(m)
    BY <1>0, <2>1 DEF Helm, Apt
  <2>4. Good(c) /\ Apt(c)
    BY <2>1, <2>3, ClearCachedConfigGood, FirmStays
  <2>. HIDE DEF c
  <2>. QED
    BY <2>2, <2>4, StartFailoverReconnectFirm, FirmDriven
<1>4. CASE OnTimerWaitNetworkConnectivity
  <2>. DEFINE m == Disarm(cm, {"poll"})
              again == SetState(m, "Reconnecting", "Regular")
  <2>1. /\ Good(m) /\ m \in TypeOfManager /\ "poll" \in cm.timers
        /\ Helm(m) = <<cm.state, cm.cause, cm.timers \ {"poll"}, cm.conn, cm.dialed, cm.walk.kind, cm.blocking>>
    BY <1>0, <1>4, DisarmGood, HelmHelpers DEF OnTimerWaitNetworkConnectivity, Timers, Good
  <2>2. PICK env \in Now : \/ cm.state = "WaitingForNetwork" /\ cm' = StartAttempt(again, env)
                           \/ cm' = StartAttempt(m, env) /\ cm.state # "WaitingForNetwork"
                           \/ cm' = Report(Disconnect(cm), "timeout")
    BY <1>4 DEF OnTimerWaitNetworkConnectivity
  <2>. HIDE DEF m
  <2>3. /\ Good(again)
        /\ Helm(again) = <<"Reconnecting", "Regular", m.timers, m.conn, m.dialed, m.walk.kind, m.blocking>>
    BY <2>1, SetStateGood, HelmHelpers
  <2>. HIDE DEF again
  <2>4. cm.state = "WaitingForNetwork" => Poised(again)
    BY <1>0, <2>1, <2>3 DEF Poised, Helm, Apt, Capped, IsSettled
  <2>5. Poised(m)
    BY <1>0, <2>1 DEF Poised, Helm, Apt, Capped, IsSettled, Good, Quiet
  <2>6. Firm(Report(Disconnect(cm), "timeout"))
    BY <1>0, FirmEnds, FirmStays, DisconnectGood DEF Good
  <2>. QED
    BY <2>2, <2>4, <2>5, <2>6, NowConditions, StartAttemptDriven, FirmDriven
<1>5. ASSUME NEW n \in 0 .. MaxEndpoints, OnHostnamesResolved(n) PROVE Driven(cm')
  <2>. DEFINE w == IF cm.walk.kind = "emergency" THEN OnEndpointsReceived(cm.walk, n) ELSE cm.walk
              m == [cm EXCEPT !.resolving = FALSE, !.walk = w]
  <2>1. n \in Nat /\ cm.walk \in Strategy
    BY <1>0, BoundAssumption DEF TypeOfManager
  <2>2. w \in Strategy /\ w.kind = cm.walk.kind
    BY <2>1, StrategyType, ThriftyUpdates DEF Thrifty
  <2>3. PICK env \in Now : cm' = HostnamesResolved(m, env)
    BY <1>5 DEF OnHostnamesResolved
  <2>. HIDE DEF w
  <2>4. Good(m)
    BY <2>2 DEF Good, Quiet, Manned, Owned, IsSettled, TypeOfManager
  <2>5. Helm(m) = Helm(cm) /\ m.queue = cm.queue /\ m.ignore = cm.ignore /\ m.prep = cm.prep /\ m.keyPrompt = cm.keyPrompt
    BY <1>0, <2>2 DEF TypeOfManager, Helm
  <2>. HIDE DEF m
  <2>6. /\ m.state = cm.state /\ m.cause = cm.cause /\ m.timers = cm.timers /\ m.conn = cm.conn
        /\ m.walk.kind = cm.walk.kind /\ m.blocking = cm.blocking
        /\ Current(m) = Current(cm) /\ (Ended(m) <=> Ended(cm)) /\ Apt(m)
    BY <1>0, <2>5, QueueDecides, HelmFrame DEF Helm
  <2>7. m.blocking \/ (Stagable(m) /\ Capped(m) /\ Heeded(m))
    <3>1. Safe(cm) => Safe(m)
      BY <2>5, <2>6 DEF Safe, Waits, Final
    <3>. QED
      BY <2>5, <2>6, <3>1 DEF Driven, Staged, Stagable, Capped, Heeded, Uncapped
  <2>8. CASE m.conn # "none" /\ IsAttemptActive(m)
    BY <2>3, <2>4, <2>6, <2>7, <2>8, HostnamesResolvedDriven
  <2>9. CASE ~IsAttemptActive(m)
    <3>1. Firm(m)
      BY <2>5, <2>6, <2>9, DrivenFirm, HelmFrame DEF IsAttemptActive
    <3>. QED
      BY <2>3, <2>9, <3>1, HostnamesResolvedWays, FirmDriven
  <2>10. CASE m.conn = "none"
    <3>1. cm' = m
      BY <2>3, <2>10, HostnamesResolvedWays
    <3>2. m.blocking \/ Staged(m)
      BY <2>7, <2>10 DEF Staged, Stagable
    <3>. QED
      BY <2>6, <2>7, <3>1, <3>2 DEF Driven
  <2>. QED
    BY <2>8, <2>9, <2>10
<1>. QED
  BY <1>1, <1>2, <1>3, <1>4, <1>5 DEF Timeouts

-----------------------------------------------------------------------------
(* Sleep, wake and network                                                  *)

\* What the sleep handler and the wake handler may count on.
Roused ==
    /\ asleep \/ cm.blocking => HasSleepEvents
    /\ asleep /\ ~cm.blocking => IsSettled(cm)
    /\ cm.blocking /\ cm.wake => ~asleep

\* onSleepMode() leaves nothing to drive, or waits in its event loop.
LEMMA SleepDriven ==
    ASSUME Good(cm), Driven(cm), OnSleepMode
    PROVE  Driven(cm')
<1>. DEFINE m == Halted(cm)
            d == StartDisconnect(m)
            b == Blocked(m)
            z == [b EXCEPT !.conn = "down"]
<1>1. \/ IsSettled(cm) /\ cm' = m
      \/ cm' \in {SetState(m, "Sleeping", "Regular"), FallAsleep(m), b, FallAsleep(z)}
  BY SleepWays DEF Good
<1>2. /\ m \in TypeOfManager /\ m.prep = cm.prep /\ m.queue = cm.queue
      /\ Helm(m) = <<cm.state, cm.cause, {}, cm.conn, cm.dialed, cm.walk.kind, cm.blocking>>
  BY DEF Good, Halted, TypeOfManager, Helm
<1>. HIDE DEF m
<1>3. Apt(m) /\ (IsSettled(cm) => Firm(m))
  BY <1>2 DEF Driven, Helm, Firm, Apt, Uncapped, Capped, IsSettled
<1>4. Firm(SetState(m, "Sleeping", "Regular"))
  <2>1. Helm(SetState(m, "Sleeping", "Regular")) = <<"Sleeping", "Regular", m.timers, m.conn, m.dialed, m.walk.kind, m.blocking>>
    BY <1>2, HelmHelpers
  <2>. QED
    BY <1>3, <2>1 DEF Helm, Firm, Apt, Uncapped, Capped
<1>5. d \in TypeOfManager /\ Apt(d)
  <2>1. Good(m)
    BY <1>2, SameGood DEF Helm
  <2>. QED
    BY <1>2, <1>3, <2>1, FirmStays, StartDisconnectGood DEF Good
<1>6. b = [d EXCEPT !.blocking = TRUE]
  BY DEF Blocked
<1>. HIDE DEF d
<1>7. b \in TypeOfManager /\ b.blocking /\ Helm(b) = <<d.state, d.cause, d.timers, d.conn, d.dialed, d.walk.kind, TRUE>>
  BY <1>5, <1>6 DEF TypeOfManager, Helm
<1>. HIDE DEF b
<1>8. Apt(b)
  BY <1>5, <1>7 DEF Apt, Helm
<1>9. Helm(z) = <<b.state, b.cause, b.timers, "down", b.dialed, b.walk.kind, TRUE>> /\ z \in TypeOfManager
  BY <1>7 DEF TypeOfManager, Helm, Connectors
<1>. HIDE DEF z
<1>10. Apt(z)
  BY <1>8, <1>9 DEF Apt, Helm, Live
<1>11. Firm(FallAsleep(m)) /\ Firm(FallAsleep(z))
  BY <1>2, <1>3, <1>9, <1>10, FallAsleepFirm
<1>. QED
  BY <1>1, <1>3, <1>4, <1>7, <1>8, <1>11, FirmDriven DEF Driven

\* The wake that came meanwhile, or nothing to drive.
LEMMA EndSleepDriven ==
    ASSUME Good(cm), Driven(cm), Roused, online \in BOOLEAN, EndBlockingDisconnect
    PROVE  Driven(cm')
<1>. DEFINE f == FallAsleep(cm)
<1>1. Good(f) /\ Firm(f) /\ f.timers = {} /\ HasSleepEvents
  BY FallAsleepGood, FallAsleepFirm DEF Good, Driven, Roused, EndBlockingDisconnect
<1>2. PICK env \in Now :
        cm' = IF cm.wake THEN [RestoreConnectionAfterWakeUp(f, env) EXCEPT !.wake = FALSE] ELSE f
  BY DEF EndBlockingDisconnect
<1>. HIDE DEF f
<1>3. env \in Conditions
  BY NowConditions
<1>. DEFINE r == RestoreConnectionAfterWakeUp(f, env)
            n == [r EXCEPT !.wake = FALSE]
<1>4. Driven(r) /\ r \in TypeOfManager
  BY <1>1, <1>3, RestoreDriven, RestoreConnectionGood DEF Firm, Good
<1>. HIDE DEF r
<1>5. /\ n.state = r.state /\ n.cause = r.cause /\ n.timers = r.timers /\ n.conn = r.conn
      /\ n.dialed = r.dialed /\ n.blocking = r.blocking /\ n.ignore = r.ignore /\ n.prep = r.prep
      /\ n.keyPrompt = r.keyPrompt /\ n.queue = r.queue /\ n.walk = r.walk /\ n.resolving = r.resolving
  BY <1>4 DEF TypeOfManager
<1>. HIDE DEF n
<1>6. n.walk.kind \in SessionKinds \cup {"manual"}
  BY <1>4, <1>5 DEF Driven, Apt
<1>7. Driven(n)
  BY <1>4, <1>5, <1>6, DrivenAlike
<1>. QED
  BY <1>1, <1>2, <1>7, FirmDriven DEF n, r

\* onWakeMode() starts over what has slept.
LEMMA WakeDriven ==
    ASSUME Good(cm), Driven(cm), Roused, online \in BOOLEAN, OnWakeMode
    PROVE  Driven(cm')
<1>. DEFINE d == Disarm(cm, {"cap", "rest"})
            m == [d EXCEPT !.wake = TRUE]
<1>1. Good(d) /\ Helm(d) = <<cm.state, cm.cause, cm.timers \ {"cap", "rest"}, cm.conn, cm.dialed, cm.walk.kind, cm.blocking>>
  BY DisarmGood, HelmHelpers DEF Timers, Good
<1>2. PICK env \in Now :
        cm' = IF m.state \in {"Disconnected", "Stopping"} THEN m ELSE RestoreConnectionAfterWakeUp(m, env)
  BY DEF OnWakeMode
<1>. HIDE DEF d
<1>3. m \in TypeOfManager /\ Helm(m) = Helm(d) /\ m.prep = d.prep /\ m.queue = d.queue
  BY <1>1 DEF Good, TypeOfManager, Helm
<1>. HIDE DEF m
<1>4. Good(m) /\ env \in Conditions
  BY <1>1, <1>3, SameGood, NowConditions DEF Helm
<1>5. /\ m.state = cm.state /\ m.cause = cm.cause /\ m.timers = cm.timers \ {"cap", "rest"} /\ m.conn = cm.conn
      /\ m.dialed = cm.dialed /\ m.walk.kind = cm.walk.kind /\ m.blocking = cm.blocking
  BY <1>1, <1>3 DEF Helm
<1>6. Apt(m) /\ (m.state \in {"Disconnected", "Stopping"} => Firm(m))
  BY <1>5 DEF Driven, Apt, Firm, Uncapped, Capped
<1>7. m.blocking \/ m.timers = {}
  BY <1>5 DEF Roused, OnWakeMode, Good, Quiet
<1>8. Driven(RestoreConnectionAfterWakeUp(m, env))
  BY <1>4, <1>6, <1>7, RestoreDriven DEF Roused, OnWakeMode
<1>. QED
  BY <1>2, <1>6, <1>8, FirmDriven

\* onNetworkOnlineStateChanged() parks or redials under the cap.
LEMMA NetworkDriven ==
    ASSUME Good(cm), Driven(cm), OnNetworkOnlineStateChanged
    PROVE  Driven(cm')
<1>. DEFINE alive == ~online
            m == Noticed(cm, alive)
            w == Waiting(m)
            again == SetState(m, "Reconnecting", "Regular")
<1>1. \/ cm' \in {cm, m}
      \/ cm' \in {StartDisconnect(Arm(w, {"cap"})), StartDisconnect(Arm(again, {"cap"}))}
      \/ cm.state = "Reconnecting" /\ cm' = StartDisconnect(w)
  BY NetworkWays DEF Good
<1>2. alive \in BOOLEAN
  OBVIOUS
<1>. HIDE DEF alive
<1>3. m \in TypeOfManager
  BY <1>2 DEF Noticed, Good, TypeOfManager
<1>4. /\ m.state = cm.state /\ m.cause = cm.cause /\ m.timers = cm.timers /\ m.conn = cm.conn
      /\ m.dialed = cm.dialed /\ m.blocking = cm.blocking /\ m.ignore = cm.ignore /\ m.prep = cm.prep
      /\ m.keyPrompt = cm.keyPrompt /\ m.queue = cm.queue /\ m.walk = cm.walk /\ m.resolving = cm.resolving
  BY DEF Noticed, Good, TypeOfManager
<1>. HIDE DEF m
<1>5. m.walk.kind \in SessionKinds \cup {"manual"} /\ Apt(cm)
  BY <1>4 DEF Driven, Apt
<1>6. Driven(m) /\ Apt(m)
  <2>1. Driven(m)
    BY <1>4, <1>5, DrivenAlike
  <2>. QED
    BY <2>1 DEF Driven
<1>7. /\ w \in TypeOfManager /\ again \in TypeOfManager
      /\ Helm(w) = <<"WaitingForNetwork", "Regular", m.timers, m.conn, m.dialed, m.walk.kind, m.blocking>>
      /\ Helm(again) = <<"Reconnecting", "Regular", m.timers, m.conn, m.dialed, m.walk.kind, m.blocking>>
  BY <1>3, HelmHelpers, SetStateType DEF Waiting, States
<1>. HIDE DEF w, again
<1>8. /\ Helm(Arm(w, {"cap"})) = <<w.state, w.cause, w.timers \cup {"cap"}, w.conn, w.dialed, w.walk.kind, w.blocking>>
      /\ Helm(Arm(again, {"cap"})) = <<again.state, again.cause, again.timers \cup {"cap"}, again.conn, again.dialed, again.walk.kind, again.blocking>>
      /\ Arm(w, {"cap"}) \in TypeOfManager /\ Arm(again, {"cap"}) \in TypeOfManager
  BY <1>7, HelmHelpers, ArmType DEF Timers
<1>9. Firm(Arm(w, {"cap"})) /\ Firm(Arm(again, {"cap"}))
  BY <1>6, <1>7, <1>8 DEF Helm, Firm, Apt, Uncapped, Capped
<1>10. cm.state = "Reconnecting" => Firm(w)
  BY <1>4, <1>6, <1>7 DEF Driven, Helm, Firm, Apt, Uncapped, Capped
<1>. QED
  BY <1>1, <1>6, <1>7, <1>8, <1>9, <1>10, FirmStays, FirmDriven

\* The system's notifications keep the invariant.
LEMMA SystemDriven ==
    ASSUME Good(cm), Driven(cm), Roused, online \in BOOLEAN, System
    PROVE  Driven(cm')
BY SleepDriven, EndSleepDriven, WakeDriven, NetworkDriven DEF System

-----------------------------------------------------------------------------
(* The connector                                                            *)

\* What a step of the connector must leave for the attempt to be driven on.
LEMMA NewsDriven ==
    ASSUME Driven(cm), cm.conn # "none", NEW n,
           n.state = cm.state, n.cause = cm.cause, n.timers = cm.timers, n.dialed = cm.dialed,
           n.blocking = cm.blocking, n.ignore = cm.ignore, n.keyPrompt = cm.keyPrompt, n.walk = cm.walk,
           n.conn # "none", n.conn = "idle" <=> cm.conn = "idle",
           n.conn \in Live => cm.conn \in Live,
           n.conn \in {"starting", "dialing", "up"} => cm.conn \in {"starting", "dialing", "up"},
           cm.conn = "idle" => cm.prep = "preparing",
           ~cm.blocking => Current(cm) \subseteq Current(n),
           ~cm.blocking /\ n.conn = "idle" => Begins(n) \/ cm.walk.kind # "custom",
           ~cm.blocking /\ Uncapped(cm) /\ n.conn = "down" => Safe(n) \/ cm.conn = "down"
    PROVE  Driven(n)
<1>1. Apt(n)
  BY DEF Driven, Apt
<1>2. ASSUME ~cm.blocking PROVE Staged(n) /\ Heeded(n) /\ Capped(n)
  <2>1. Staged(cm) /\ Heeded(cm) /\ Capped(cm)
    BY <1>2 DEF Driven
  <2>2. Ended(cm) => Ended(n)
    <3>1. \A m : Ended(m) <=> \E s \in Current(m) : s.name = "disconnected"
      BY DEF Ended, Current
    <3>. QED
      BY <1>2, <3>1
  <2>3. \A s : Final(cm, s) => Final(n, s)
    BY DEF Final
  <2>4. Safe(cm) => Safe(n)
    BY <1>2, <2>2, <2>3 DEF Safe, Waits
  <2>5. Staged(n)
    BY <1>2, <2>1, <2>4 DEF Staged, Uncapped
  <2>6. Heeded(n) /\ Capped(n)
    BY <2>1 DEF Heeded, Capped
  <2>. QED
    BY <2>5, <2>6
<1>. QED
  BY <1>1, <1>2 DEF Driven

\* An emitted signal joins those of the current connector.
LEMMA EmitJoins ==
    ASSUME NEW m \in TypeOfManager, NEW name \in SignalNames, NEW err \in ConnectError
    PROVE  LET n == Emit(m, name, err)
               e == [current |-> TRUE, name |-> name, err |-> err]
           IN  /\ n.state = m.state /\ n.cause = m.cause /\ n.timers = m.timers /\ n.dialed = m.dialed
               /\ n.blocking = m.blocking /\ n.ignore = m.ignore /\ n.keyPrompt = m.keyPrompt
               /\ n.walk = m.walk /\ n.conn = m.conn /\ n.resolving = m.resolving
               /\ ~m.blocking => Current(n) = Current(m) \cup {e}
               /\ ~m.blocking /\ (name = "disconnected" \/ Final(m, e)) => Safe(n)
               /\ ~m.blocking /\ name \in {"prepared", "prepareFailed"} => Begins(n)
<1>. DEFINE n == Emit(m, name, err)
            e == [current |-> TRUE, name |-> name, err |-> err]
<1>1. e \in Signals /\ e.current /\ e.name = name
  BY DEF Signals
<1>2. /\ n.state = m.state /\ n.cause = m.cause /\ n.timers = m.timers /\ n.dialed = m.dialed
      /\ n.blocking = m.blocking /\ n.ignore = m.ignore /\ n.keyPrompt = m.keyPrompt
      /\ n.walk = m.walk /\ n.conn = m.conn /\ n.resolving = m.resolving
      /\ n.queue = IF m.blocking THEN m.queue ELSE Append(m.queue, e)
  BY DEF Emit, TypeOfManager
<1>. HIDE DEF n, e
<1>3. ~m.blocking => Current(n) = Current(m) \cup {e} /\ (name = "disconnected" => Ended(n))
  BY <1>1, <1>2, CurrentAppend
<1>4. Final(m, e) => Final(n, e)
  BY <1>2 DEF Final
<1>5. ~m.blocking /\ (name = "disconnected" \/ Final(m, e)) => Safe(n)
  BY <1>3, <1>4 DEF Safe
<1>6. ~m.blocking /\ name \in {"prepared", "prepareFailed"} => Begins(n)
  BY <1>1, <1>3 DEF Begins
<1>. QED
  BY <1>2, <1>3, <1>5, <1>6 DEF n, e

\* The answer of prepare() keeps the invariant.
LEMMA PrepareAnswerDriven ==
    ASSUME Good(cm), Driven(cm), cm.prep = "preparing", NEW p \in {"none", "consent"}, NEW s \in BOOLEAN,
           NEW name \in SignalNames, NEW err \in ConnectError,
           name \in {"prepared", "prepareFailed"} \/ cm.walk.kind # "custom"
    PROVE  Driven(Emit([cm EXCEPT !.prep = p, !.stored = s], name, err))
<1>. DEFINE m == [cm EXCEPT !.prep = p, !.stored = s]
            n == Emit(m, name, err)
            e == [current |-> TRUE, name |-> name, err |-> err]
<1>1. /\ m \in TypeOfManager
      /\ m.state = cm.state /\ m.cause = cm.cause /\ m.timers = cm.timers /\ m.dialed = cm.dialed
      /\ m.blocking = cm.blocking /\ m.ignore = cm.ignore /\ m.keyPrompt = cm.keyPrompt
      /\ m.walk = cm.walk /\ m.conn = cm.conn /\ m.queue = cm.queue
  BY DEF Good, TypeOfManager
<1>. HIDE DEF m
<1>2. Current(m) = Current(cm)
  BY <1>1, QueueDecides
<1>3. /\ n.state = m.state /\ n.cause = m.cause /\ n.timers = m.timers /\ n.dialed = m.dialed
      /\ n.blocking = m.blocking /\ n.ignore = m.ignore /\ n.keyPrompt = m.keyPrompt
      /\ n.walk = m.walk /\ n.conn = m.conn
      /\ ~m.blocking => Current(n) = Current(m) \cup {e}
      /\ ~m.blocking /\ name \in {"prepared", "prepareFailed"} => Begins(n)
  BY <1>1, EmitJoins
<1>. HIDE DEF n, e
<1>4. cm.conn # "none"
  BY DEF Good, Owned
<1>5. Driven(n)
  BY <1>1, <1>2, <1>3, <1>4, NewsDriven
<1>. QED
  BY <1>5 DEF n, m

\* A live connector moves on and says so.
LEMMA MoveDriven ==
    ASSUME Good(cm), Driven(cm), cm.conn \in Live, NEW c \in {"up", "stopping", "down", cm.conn},
           c = "up" => cm.conn \in {"dialing", "up"},
           NEW name \in SignalNames, NEW err \in ConnectError,
           c = "down" => \/ cm.blocking \/ ~Uncapped(cm) \/ name = "disconnected"
                         \/ Final(cm, [current |-> TRUE, name |-> name, err |-> err])
                         \/ Safe(cm)
    PROVE  Driven(Emit([cm EXCEPT !.conn = c], name, err))
<1>. DEFINE m == [cm EXCEPT !.conn = c]
            n == Emit(m, name, err)
            e == [current |-> TRUE, name |-> name, err |-> err]
<1>0. cm.conn \in Connectors \ {"none", "idle", "down"} /\ c \in Connectors \ {"none", "idle"}
  BY DEF Connectors, Live
<1>1. /\ m \in TypeOfManager
      /\ m.state = cm.state /\ m.cause = cm.cause /\ m.timers = cm.timers /\ m.dialed = cm.dialed
      /\ m.blocking = cm.blocking /\ m.ignore = cm.ignore /\ m.keyPrompt = cm.keyPrompt
      /\ m.walk = cm.walk /\ m.conn = c /\ m.queue = cm.queue
  BY <1>0 DEF Good, TypeOfManager
<1>. HIDE DEF m
<1>2. Current(m) = Current(cm) /\ (Ended(m) <=> Ended(cm))
  BY <1>1, QueueDecides
<1>3. /\ n.state = m.state /\ n.cause = m.cause /\ n.timers = m.timers /\ n.dialed = m.dialed
      /\ n.blocking = m.blocking /\ n.ignore = m.ignore /\ n.keyPrompt = m.keyPrompt
      /\ n.walk = m.walk /\ n.conn = m.conn
      /\ ~m.blocking => Current(n) = Current(m) \cup {e}
      /\ ~m.blocking /\ (name = "disconnected" \/ Final(m, e)) => Safe(n)
  BY <1>1, EmitJoins
<1>. HIDE DEF n, e
<1>4. \A s : Final(cm, s) => Final(m, s) /\ Final(n, s)
  BY <1>1, <1>3 DEF Final
<1>5. ~cm.blocking /\ Safe(cm) => Safe(n)
  <2>1. ~cm.blocking /\ Ended(cm) => Ended(n)
    <3>1. \A x : Ended(x) <=> \E s \in Current(x) : s.name = "disconnected"
      BY DEF Ended, Current
    <3>. QED
      BY <1>1, <1>2, <1>3, <3>1
  <2>2. ~cm.blocking /\ (\E s \in Current(cm) : Final(cm, s)) => \E s \in Current(n) : Final(n, s)
    BY <1>1, <1>2, <1>3, <1>4
  <2>3. Waits(cm) => Waits(n)
    BY <1>0, <1>1, <1>3 DEF Waits
  <2>. QED
    BY <2>1, <2>2, <2>3 DEF Safe
<1>6. ~cm.blocking /\ Uncapped(cm) /\ n.conn = "down" => Safe(n)
  BY <1>1, <1>3, <1>4, <1>5 DEF e
<1>7. Driven(n)
  BY <1>0, <1>1, <1>2, <1>3, <1>6, NewsDriven
<1>. QED
  BY <1>7 DEF n, m

\* The connector's own steps keep the invariant, when it is candid.
LEMMA ConnectorDriven ==
    ASSUME Candid, Good(cm), Driven(cm), Connector
    PROVE  Driven(cm')
<1>0. /\ {"prepared", "prepareFailed", "keyLimit", "connected", "reconnecting",
          "disconnected", "error"} \subseteq SignalNames
      /\ {"kNoError", "kLocalProcessNotResponding"} \subseteq ConnectError
      /\ PrepareErrors \subseteq ConnectError
      /\ StartErrors \subseteq RuntimeErrors /\ RuntimeErrors \subseteq ConnectError
      /\ LiveErrors \subseteq ConnectError /\ "kLocalProcessNotResponding" \in RuntimeErrors
      /\ cm \in TypeOfManager
  BY ErrorAssumption DEF SignalNames, ConnectError, RuntimeErrors, OtherErrors, LocalErrors, Good
<1>1. cm.stored \in BOOLEAN /\ cm = [cm EXCEPT !.conn = cm.conn] /\ [cm EXCEPT !.prep = "none"] = [cm EXCEPT !.prep = "none", !.stored = cm.stored]
      /\ [cm EXCEPT !.prep = "consent"] = [cm EXCEPT !.prep = "consent", !.stored = cm.stored]
  BY <1>0 DEF TypeOfManager
<1>2. CASE ConnectorPrepared
  <2>. DEFINE s == cm.stored \/ (cm.fetches /\ cm.fetchMode = "Normal")
  <2>1. cm' = Emit([cm EXCEPT !.prep = "none", !.stored = s], "prepared", "kNoError") /\ cm.prep = "preparing"
    BY <1>2 DEF ConnectorPrepared, ConnectorStep
  <2>2. s \in BOOLEAN
    OBVIOUS
  <2>. HIDE DEF s
  <2>. QED
    BY <1>0, <2>1, <2>2, PrepareAnswerDriven
<1>3. ASSUME NEW err \in PrepareErrors, ConnectorPrepareFailed(err) PROVE Driven(cm')
  <2>1. /\ cm' = Emit([cm EXCEPT !.prep = "none", !.stored = cm.stored], "prepareFailed", err)
        /\ cm.prep = "preparing"
    BY <1>1, <1>3 DEF ConnectorPrepareFailed, ConnectorStep
  <2>. QED
    BY <1>0, <1>1, <2>1, PrepareAnswerDriven
<1>4. CASE ConnectorAtKeyLimit
  <2>1. /\ cm' = Emit([cm EXCEPT !.prep = "consent", !.stored = cm.stored], "keyLimit", "kNoError")
        /\ cm.prep = "preparing" /\ cm.walk.kind # "custom"
    BY <1>1, <1>4 DEF ConnectorAtKeyLimit, ConnectorStep
  <2>. QED
    BY <1>0, <1>1, <2>1, PrepareAnswerDriven
<1>5. CASE ConnectorStarted
  <2>. DEFINE n == [cm EXCEPT !.conn = "dialing"]
  <2>1. /\ n.state = cm.state /\ n.cause = cm.cause /\ n.timers = cm.timers /\ n.dialed = cm.dialed
        /\ n.blocking = cm.blocking /\ n.ignore = cm.ignore /\ n.keyPrompt = cm.keyPrompt
        /\ n.walk = cm.walk /\ n.conn = "dialing" /\ n.queue = cm.queue
    BY <1>0 DEF TypeOfManager
  <2>2. cm' = n /\ cm.conn = "starting"
    BY <1>5 DEF ConnectorStarted, ConnectorStep
  <2>. HIDE DEF n
  <2>3. Driven(n)
    BY <2>1, <2>2, QueueDecides, NewsDriven DEF Live
  <2>. QED
    BY <2>2, <2>3
<1>6. CASE ConnectorConnected
  BY <1>0, <1>6, MoveDriven DEF ConnectorConnected, ConnectorStep, Live
<1>7. CASE ConnectorReconnecting
  <2>1. cm.conn \in {"dialing", "up"} /\ cm' = Emit([cm EXCEPT !.conn = cm.conn], "reconnecting", "kNoError")
    BY <1>1, <1>7 DEF ConnectorReconnecting, ConnectorStep
  <2>. QED
    BY <1>0, <2>1, MoveDriven DEF Live
<1>8. ASSUME NEW err \in StartErrors, ConnectorStartFailed(err) PROVE Driven(cm')
  <2>1. cm.conn = "starting" /\ cm' = Emit([cm EXCEPT !.conn = "down"], "error", err)
    BY <1>8 DEF ConnectorStartFailed, ConnectorStep
  <2>. DEFINE e == [current |-> TRUE, name |-> "error", err |-> err]
  <2>2. cm.state = "Connecting" => Final(cm, e)
    BY <1>0 DEF Final
  <2>3. cm.cause = "Wake" => Apt(cm) /\ HasSleepEvents
    BY DEF Driven, Apt
  <2>4. cm.walk.kind = "custom" /\ cm.cause = "Wake" => Final(cm, e)
    <3>1. cm.walk.kind = "custom" /\ cm.cause = "Wake" => err \notin Retried
      BY <2>3, PlatformAssumption DEF Candid, Apt
    <3>. QED
      BY <1>0, <3>1 DEF Final
  <2>5. cm.blocking \/ ~Uncapped(cm) \/ Final(cm, e) \/ Safe(cm)
    BY <2>1, <2>2, <2>4 DEF Driven, Staged, Uncapped
  <2>. HIDE DEF e
  <2>6. cm.conn \in Live
    BY <2>1 DEF Live
  <2>. QED
    BY <1>0, <2>1, <2>5, <2>6, MoveDriven DEF e
<1>9. ASSUME NEW err \in LiveErrors, ConnectorFailed(err) PROVE Driven(cm')
  <2>. DEFINE c == IF err = "kAuthFailure" THEN "stopping" ELSE cm.conn
  <2>1. cm.conn \in {"dialing", "up"} /\ cm' = Emit([cm EXCEPT !.conn = c], "error", err)
    BY <1>9 DEF ConnectorFailed, ConnectorStep
  <2>2. c \in {"stopping", cm.conn} /\ c # "down" /\ (c = "up" => cm.conn = "up")
    BY <2>1
  <2>. HIDE DEF c
  <2>. QED
    BY <1>0, <2>1, <2>2, MoveDriven DEF Live
<1>10. ASSUME ConnectorDied \/ ConnectorStopped PROVE Driven(cm')
  <2>1. cm.conn \in Live /\ cm' = Emit([cm EXCEPT !.conn = "down"], "disconnected", "kNoError")
    BY <1>10 DEF ConnectorDied, ConnectorStopped, ConnectorStep, Live
  <2>. QED
    BY <1>0, <2>1, MoveDriven
<1>11. CASE ConnectorSettledSilently
  <2>1. SilentSettle /\ cm.conn = "aborting" /\ cm' = Emit([cm EXCEPT !.conn = "down"], "error", "kLocalProcessNotResponding")
    BY <1>11 DEF ConnectorSettledSilently, ConnectorStep
  <2>. DEFINE e == [current |-> TRUE, name |-> "error", err |-> "kLocalProcessNotResponding"]
  <2>2. Apt(cm)
    BY DEF Driven
  <2>3. cm.cause = "Wake" => cm.walk.kind # "emergency"
    BY <2>1, <2>2 DEF Candid, Apt
  <2>4. Uncapped(cm) => Final(cm, e)
    BY <1>0, <2>3 DEF Uncapped, Final
  <2>. HIDE DEF e
  <2>5. cm.conn \in Live
    BY <2>1 DEF Live
  <2>. QED
    BY <1>0, <2>1, <2>4, <2>5, MoveDriven DEF e
<1>. QED
  BY <1>2, <1>3, <1>4, <1>5, <1>6, <1>7, <1>8, <1>9, <1>10, <1>11 DEF Connector

-----------------------------------------------------------------------------
(* The sleep handler's flags                                                *)

\* What nothing but the sleep and the wake handler writes.
Formed(m) == {"wake", "blocking"} \subseteq DOMAIN m
Lets(m, n) == Formed(n) /\ n.wake = m.wake /\ n.blocking = m.blocking

\* The helpers of a session leave those flags alone.
LEMMA HelpersLet ==
    ASSUME NEW m, Formed(m)
    PROVE  /\ \A s, c : Lets(m, SetState(m, s, c))
           /\ \A ts : Lets(m, Arm(m, ts)) /\ Lets(m, Disarm(m, ts))
           /\ \A o : Lets(m, Report(m, o)) /\ Lets(m, Stop(m, o))
           /\ Lets(m, Disconnect(m)) /\ Lets(m, ResetWalk(m)) /\ Lets(m, Retire(m))
           /\ Lets(m, EnterReconnecting(m))
<1>1. /\ \A s, c : Lets(m, SetState(m, s, c))
      /\ \A ts : Lets(m, Arm(m, ts)) /\ Lets(m, Disarm(m, ts))
      /\ \A o : Lets(m, Report(m, o))
      /\ Lets(m, ResetWalk(m)) /\ Lets(m, Retire(m))
  BY DEF SetState, Arm, Disarm, Report, ResetWalk, Retire, Lets, Formed
<1>2. (\A o : Lets(m, Stop(m, o))) /\ Lets(m, Disconnect(m)) /\ Lets(m, EnterReconnecting(m))
  BY DEF Stop, Disconnect, EnterReconnecting, SetState, Arm, Lets, Formed
<1>. QED
  BY <1>1, <1>2

\* So do the connector and the ends of a session.
LEMMA EndsLet ==
    ASSUME NEW m, Formed(m)
    PROVE  /\ \A name, err : Lets(m, Emit(m, name, err))
           /\ Lets(m, StartDisconnect(m)) /\ Lets(m, FailWithError(m)) /\ Lets(m, Click(m))
           /\ Lets(m, ReportPending(m)) /\ \A b : Lets(m, ClearCachedConfigIfExhausted(m, b))
<1>1. \A n, name, err : Formed(n) => Lets(n, Emit(n, name, err))
  BY DEF Emit, Lets, Formed
<1>2. \A n : Formed(n) => Lets(n, StartDisconnect(n))
  <2>. SUFFICES ASSUME NEW n, Formed(n) PROVE Lets(n, StartDisconnect(n))
    OBVIOUS
  <2>. DEFINE c == [n EXCEPT !.conn = "down", !.prep = "none"]
  <2>1. Lets(n, c)
    BY DEF Lets, Formed
  <2>2. Lets(n, [n EXCEPT !.conn = "aborting"]) /\ Lets(n, [n EXCEPT !.conn = "stopping"]) /\ Lets(n, n)
    BY DEF Lets, Formed
  <2>3. Lets(n, Emit(c, "disconnected", "kNoError"))
    <3>. HIDE DEF c
    <3>. QED
      BY <1>1, <2>1 DEF Lets
  <2>. QED
    BY <2>2, <2>3 DEF StartDisconnect
<1>3. Lets(m, FailWithError(m))
  <2>. DEFINE r == IF m.conn = "none" THEN m ELSE Retire(m)
  <2>1. Lets(m, r)
    BY HelpersLet DEF Lets
  <2>. HIDE DEF r
  <2>2. Lets(r, Disconnect(r))
    BY <2>1, HelpersLet DEF Lets
  <2>3. Lets(Disconnect(r), Report(Disconnect(r), "error"))
    BY <2>2, HelpersLet DEF Lets
  <2>. QED
    BY <2>1, <2>2, <2>3 DEF FailWithError, r, Lets
<1>4. \A o : Lets(m, Report(ResetWalk(Disconnect(m)), o))
  <2>. DEFINE d == Disconnect(m)
              w == ResetWalk(d)
  <2>1. Lets(m, d)
    BY HelpersLet
  <2>. HIDE DEF d
  <2>2. Lets(d, w)
    BY <2>1, HelpersLet DEF Lets
  <2>. HIDE DEF w
  <2>3. \A o : Lets(w, Report(w, o))
    BY <2>2, HelpersLet DEF Lets
  <2>. QED
    BY <2>1, <2>2, <2>3 DEF Lets, d, w
<1>5. Lets(m, Click(m))
  <2>1. Lets(m, Stop(m, "user"))
    BY HelpersLet
  <2>2. Lets(m, StartDisconnect(Stop(m, "user"))) /\ Lets(m, m)
    BY <1>2, <2>1 DEF Lets
  <2>. QED
    BY <1>4, <2>2 DEF Click
<1>6. Lets(m, ReportPending(m))
  <2>1. Lets(m, Disconnect(m))
    BY HelpersLet
  <2>2. \A o : Lets(m, Report(Disconnect(m), o))
    <3>. DEFINE d == Disconnect(m)
    <3>1. Lets(m, d)
      BY <2>1
    <3>. HIDE DEF d
    <3>2. \A o : Lets(d, Report(d, o))
      BY <3>1, HelpersLet DEF Lets
    <3>. QED
      BY <3>1, <3>2 DEF Lets, d
  <2>3. Lets(m, [Disconnect(m) EXCEPT !.authPrompt = TRUE])
    BY <2>1 DEF Lets, Formed
  <2>. QED
    BY <1>4, <2>2, <2>3 DEF ReportPending
<1>7. \A b : Lets(m, ClearCachedConfigIfExhausted(m, b))
  BY DEF ClearCachedConfigIfExhausted, Lets, Formed
<1>. QED
  BY <1>1, <1>2, <1>3, <1>5, <1>6, <1>7

\* A failure, and a reconnect, leave them alone.
LEMMA FailuresLet ==
    ASSUME NEW m, Formed(m)
    PROVE  /\ \A b : Lets(m, HandleAttemptFailed(m, b))
           /\ Lets(m, HandleReconnecting(m)) /\ Lets(m, StartFailoverReconnect(m))
<1>1. ASSUME NEW n, Formed(n), NEW b PROVE Lets(n, HandleAttemptFailed(n, b))
  <2>. DEFINE f == RecordFailure(n.walk, n.succeeded)
              w == [n EXCEPT !.walk = f.walk]
              x == IF f.giveUp THEN Stop(w, "itself")
                   ELSE IF n.state # "Reconnecting" \/ n.cause = "Wake" THEN EnterReconnecting(w)
                   ELSE w
  <2>1. Lets(n, w)
    BY <1>1 DEF Lets, Formed
  <2>2. HandleAttemptFailed(n, b) = IF b THEN StartDisconnect(x) ELSE x
    BY DEF HandleAttemptFailed
  <2>. HIDE DEF w, f
  <2>3. Lets(n, x)
    BY <2>1, HelpersLet DEF Lets
  <2>. HIDE DEF x
  <2>. QED
    BY <2>2, <2>3, EndsLet DEF Lets
<1>2. ASSUME NEW n, Formed(n) PROVE Lets(n, HandleReconnecting(n))
  <2>. DEFINE s == [n EXCEPT !.ignore = TRUE]
  <2>1. Lets(n, s) /\ Lets(n, n)
    BY <1>2 DEF Lets, Formed
  <2>2. HandleReconnecting(n) \in {n, s, HandleAttemptFailed(s, TRUE), StartDisconnect(EnterReconnecting(s))}
    BY DEF HandleReconnecting
  <2>. HIDE DEF s
  <2>3. Lets(n, HandleAttemptFailed(s, TRUE))
    BY <1>1, <2>1 DEF Lets
  <2>4. Lets(s, EnterReconnecting(s))
    BY <2>1, HelpersLet DEF Lets
  <2>5. Lets(n, StartDisconnect(EnterReconnecting(s)))
    BY <2>1, <2>4, EndsLet DEF Lets
  <2>. QED
    BY <2>1, <2>2, <2>3, <2>5
<1>3. Lets(m, StartFailoverReconnect(m))
  <2>1. Lets(m, EnterReconnecting(m))
    BY HelpersLet
  <2>. QED
    BY <1>2, <2>1 DEF StartFailoverReconnect, Lets
<1>. QED
  BY <1>1, <1>2, <1>3

\* An attempt leaves them alone.
LEMMA AttemptsLet ==
    ASSUME NEW m, Formed(m), NEW env
    PROVE  /\ Lets(m, HostnamesResolved(m, env)) /\ Lets(m, StartAttempt(m, env))
           /\ Lets(m, ConnectOrStartConnectTimer(m, env))
<1>1. ASSUME NEW n, Formed(n) PROVE Lets(n, HostnamesResolved(n, env))
  <2>. DEFINE i == [n EXCEPT !.ignore = FALSE]
  <2>1. Lets(n, i) /\ Lets(n, n)
    BY <1>1 DEF Lets, Formed
  <2>2. \A mode, w : Lets(n, [i EXCEPT !.prep = "preparing", !.fetchMode = mode, !.walk = w])
    BY <2>1 DEF Lets, Formed
  <2>3. \/ HostnamesResolved(n, env) \in {n, FailWithError(i), StartFailoverReconnect(i)}
        \/ \E mode, w : HostnamesResolved(n, env) = [i EXCEPT !.prep = "preparing", !.fetchMode = mode, !.walk = w]
    BY DEF HostnamesResolved
  <2>. HIDE DEF i
  <2>4. Lets(n, FailWithError(i)) /\ Lets(n, StartFailoverReconnect(i))
    BY <2>1, EndsLet, FailuresLet DEF Lets
  <2>5. CASE HostnamesResolved(n, env) \in {n, FailWithError(i), StartFailoverReconnect(i)}
    BY <2>1, <2>4, <2>5
  <2>6. ASSUME NEW mode, NEW w,
               HostnamesResolved(n, env) = [i EXCEPT !.prep = "preparing", !.fetchMode = mode, !.walk = w]
        PROVE  Lets(n, HostnamesResolved(n, env))
    <3>1. Lets(n, [i EXCEPT !.prep = "preparing", !.fetchMode = mode, !.walk = w])
      BY <2>2
    <3>. QED
      BY <2>6, <3>1
  <2>. QED
    BY <2>3, <2>5, <2>6
<1>2. Lets(m, StartAttempt(m, env))
  <2>. DEFINE ready == RecreateConnector(m, PreResolveProtocol(m.walk))
  <2>1. Lets(m, ready)
    <3>1. Lets(m, Retire(m))
      BY HelpersLet
    <3>. QED
      BY <3>1 DEF RecreateConnector, Lets, Formed
  <2>2. StartAttempt(m, env) \in {FailWithError(m), Arm(m, {"cap", "poll"}), Report(Disconnect(m), "itself"),
                                  [ready EXCEPT !.resolving = TRUE], HostnamesResolved(ready, env)}
    BY DEF StartAttempt
  <2>. HIDE DEF ready
  <2>3. Lets(m, [ready EXCEPT !.resolving = TRUE]) /\ Lets(m, HostnamesResolved(ready, env))
    BY <1>1, <2>1 DEF Lets, Formed
  <2>. DEFINE d == Disconnect(m)
  <2>4. Lets(m, d)
    BY HelpersLet
  <2>5. Lets(m, Report(d, "itself"))
    <3>. HIDE DEF d
    <3>1. Lets(d, Report(d, "itself"))
      BY <2>4, HelpersLet DEF Lets
    <3>. QED
      BY <2>4, <3>1 DEF Lets
  <2>6. Lets(m, FailWithError(m)) /\ Lets(m, Arm(m, {"cap", "poll"}))
    BY HelpersLet, EndsLet
  <2>. QED
    BY <2>2, <2>3, <2>5, <2>6
<1>3. Lets(m, ConnectOrStartConnectTimer(m, env))
  BY <1>2, HelpersLet DEF ConnectOrStartConnectTimer
<1>. QED
  BY <1>1, <1>2, <1>3

\* A signal of the connector's end leaves them alone.
LEMMA DisconnectedLets ==
    ASSUME Formed(cm), OnConnectionDisconnected
    PROVE  Lets(cm, cm')
<1>. DEFINE r == Retire(Taken)
            m == Disarm(r, {"poll", "connecting"})
<1>1. PICK env \in Now :
        cm' = CASE m.state = "Stopping" -> ReportPending(m)
                [] m.state = "Connected" -> StartAttempt(EnterReconnecting(m), env)
                [] m.state \in {"Connecting", "Reconnecting"} -> AfterDeath(m, env)
                [] m.state = "WaitingForNetwork" -> Arm(m, {"cap", "poll"})
                [] OTHER -> m
  BY DEF OnConnectionDisconnected
<1>2. Lets(cm, Taken)
  BY DEF Taken, Lets, Formed
<1>3. Lets(Taken, r)
  BY <1>2, HelpersLet DEF Lets
<1>. HIDE DEF r
<1>4. Lets(r, m)
  BY <1>3, HelpersLet DEF Lets
<1>. HIDE DEF m
<1>5. Formed(m) /\ Lets(cm, m)
  BY <1>2, <1>3, <1>4 DEF Lets
<1>6. Lets(m, ReportPending(m)) /\ Lets(m, Arm(m, {"cap", "poll"})) /\ Lets(m, m)
  BY <1>5, HelpersLet, EndsLet DEF Lets
<1>7. \A n : Lets(m, n) => Lets(m, StartAttempt(EnterReconnecting(n), env))
  <2>. SUFFICES ASSUME NEW n, Lets(m, n) PROVE Lets(m, StartAttempt(EnterReconnecting(n), env))
    OBVIOUS
  <2>1. Lets(n, EnterReconnecting(n))
    BY HelpersLet DEF Lets
  <2>2. Lets(EnterReconnecting(n), StartAttempt(EnterReconnecting(n), env))
    BY <2>1, AttemptsLet DEF Lets
  <2>. QED
    BY <2>1, <2>2 DEF Lets
<1>8. m.state \in {"Connecting", "Reconnecting"} => Lets(m, AfterDeath(m, env))
  <2>1. Lets(m, Walked(m))
    BY <1>5 DEF Walked, Lets, Formed
  <2>2. \A n \in {m, Walked(m)} : Lets(m, ConnectOrStartConnectTimer(n, env))
    BY <1>5, <1>6, <2>1, AttemptsLet DEF Lets
  <2>3. \A n \in {m, Walked(m)} : Lets(m, Report(Disconnect(n), "itself"))
    <3>. SUFFICES ASSUME NEW n \in {m, Walked(m)} PROVE Lets(m, Report(Disconnect(n), "itself"))
      OBVIOUS
    <3>1. Lets(n, Disconnect(n))
      BY <1>5, <2>1, HelpersLet DEF Lets
    <3>. DEFINE d == Disconnect(n)
    <3>. HIDE DEF d
    <3>2. Lets(d, Report(d, "itself"))
      BY <3>1, HelpersLet DEF Lets, d
    <3>. QED
      BY <1>6, <2>1, <3>1, <3>2 DEF Lets, d
  <2>4. /\ Lets(m, StartAttempt(EnterReconnecting(Walked(m)), env))
        /\ Lets(m, StartAttempt(EnterReconnecting(m), env))
    BY <1>6, <1>7, <2>1
  <2>. QED
    BY <2>2, <2>3, <2>4, AfterDeathWays
<1>9. Lets(m, cm')
  BY <1>1, <1>6, <1>7, <1>8
<1>. QED
  BY <1>5, <1>9 DEF Lets

\* A signal of an error leaves them alone.
LEMMA ErrorLets ==
    ASSUME Good(cm), OnConnectionError
    PROVE  Lets(cm, cm')
<1>1. Head(cm.queue) \in Signals /\ cm \in TypeOfManager /\ Formed(cm)
  BY TakenGood DEF OnConnectionError, Received, Good, TypeOfManager, Formed
<1>. DEFINE t == Taken
            m == Cleared
            s == Seen(m)
<1>2. Lets(cm, t)
  BY <1>1 DEF Taken, Lets, Formed
<1>. HIDE DEF t
<1>3. Lets(t, m)
  BY <1>2, EndsLet DEF Cleared, Lets, t
<1>. HIDE DEF m
<1>4. Lets(m, s) /\ Lets(m, m)
  BY <1>3 DEF Seen, Lets, Formed
<1>. HIDE DEF s
<1>5. \A n : Lets(m, n) => Lets(m, Dropped(n))
  BY EndsLet DEF Dropped, Lets
<1>6. (\A o : Lets(m, Stop(m, o))) /\ Lets(m, EnterReconnecting(s))
  BY <1>3, <1>4, HelpersLet DEF Lets
<1>7. Lets(m, Report(Disconnect(m), "error"))
  <2>. DEFINE d == Disconnect(m)
  <2>1. Lets(m, d)
    BY <1>3, HelpersLet DEF Lets
  <2>. HIDE DEF d
  <2>2. Lets(d, Report(d, "error"))
    BY <2>1, HelpersLet DEF Lets
  <2>. QED
    BY <2>1, <2>2 DEF Lets, d
<1>8. Lets(m, HandleAttemptFailed(s, Head(cm.queue).err # "kAuthFailure"))
  BY <1>4, FailuresLet DEF Lets
<1>9. cm' = t \/ Lets(m, cm')
  BY <1>1, <1>4, <1>5, <1>6, <1>7, <1>8, ErrorWays DEF t, m, s
<1>. QED
  BY <1>2, <1>3, <1>9 DEF Lets

\* The slots of the connector's signals.
LEMMA SlotsLet ==
    ASSUME Good(cm), Slots
    PROVE  Lets(cm, cm')
<1>. DEFINE t == Taken
<1>1. Formed(cm)
  BY DEF Good, TypeOfManager, Formed
<1>2. Lets(cm, t)
  BY <1>1 DEF Taken, Lets, Formed
<1>3. \A ts : Lets(t, Disarm(t, ts))
  BY <1>2, HelpersLet DEF Lets
<1>4. Lets(t, StartFailoverReconnect(t)) /\ Lets(t, FailWithError(t)) /\ Lets(t, HandleReconnecting(t))
  BY <1>2, FailuresLet, EndsLet DEF Lets
<1>5. CASE IgnoreRetiredConnector
  BY <1>2, <1>5 DEF IgnoreRetiredConnector
<1>6. CASE OnConnectionPrepared
  BY <1>2, <1>6 DEF OnConnectionPrepared, Lets, Formed
<1>7. CASE OnConnectionPrepareFailed
  BY <1>2, <1>4, <1>7 DEF OnConnectionPrepareFailed, Lets
<1>8. CASE OnConnectionUserInputRequired
  <2>. DEFINE d == Disarm(t, {"connecting"})
  <2>1. cm' \in {t, [d EXCEPT !.keyPrompt = TRUE]}
    BY <1>8 DEF OnConnectionUserInputRequired
  <2>2. Lets(t, d)
    BY <1>3
  <2>. HIDE DEF d, t
  <2>3. Lets(d, [d EXCEPT !.keyPrompt = TRUE])
    BY <2>2 DEF Lets, Formed
  <2>. QED
    BY <1>2, <2>1, <2>2, <2>3 DEF Lets
<1>9. CASE OnConnectionConnected
  <2>. DEFINE d == Disarm(t, {"cap", "connecting"})
  <2>1. cm' \in {t, SetState(d, "Connected", "Regular")}
    BY <1>9 DEF OnConnectionConnected
  <2>2. Lets(t, d)
    BY <1>3
  <2>. HIDE DEF d, t
  <2>3. Lets(d, SetState(d, "Connected", "Regular"))
    BY <2>2, HelpersLet DEF Lets
  <2>. QED
    BY <1>2, <2>1, <2>2, <2>3 DEF Lets
<1>10. CASE OnConnectionReconnecting
  BY <1>2, <1>4, <1>10 DEF OnConnectionReconnecting, Lets
<1>. QED
  BY <1>1, <1>5, <1>6, <1>7, <1>8, <1>9, <1>10, DisconnectedLets, ErrorLets DEF Slots

\* The engine's requests.
LEMMA RequestsLet ==
    ASSUME Formed(cm), Requests
    PROVE  Lets(cm, cm')
<1>1. ASSUME NEW kind \in SessionKinds, ClickConnect(kind) PROVE Lets(cm, cm')
  <2>. DEFINE s == SetState(cm, "Connecting", "Regular")
              c == [s EXCEPT !.succeeded = FALSE, !.resolving = FALSE, !.authPrompt = FALSE, !.told = <<>>]
              r == Retire(c)
              n == NewWalk(r, kind)
  <2>1. PICK env \in Now : cm' = StartAttempt(n, env)
    BY <1>1 DEF ClickConnect
  <2>2. Lets(cm, s)
    BY HelpersLet
  <2>. HIDE DEF s
  <2>3. Lets(s, c)
    BY <2>2 DEF Lets, Formed
  <2>. HIDE DEF c
  <2>4. Lets(c, r)
    BY <2>3, HelpersLet DEF Lets
  <2>. HIDE DEF r
  <2>5. Lets(r, n)
    BY <2>4 DEF NewWalk, Lets, Formed
  <2>. HIDE DEF n
  <2>6. Lets(n, StartAttempt(n, env))
    BY <2>5, AttemptsLet DEF Lets
  <2>. QED
    BY <2>1, <2>2, <2>3, <2>4, <2>5, <2>6 DEF Lets
<1>2. CASE ClickDisconnect
  <2>. DEFINE told == IF cm.state = "Disconnected" THEN <<>> ELSE cm.told
              c == [cm EXCEPT !.authPrompt = FALSE, !.told = told]
  <2>1. cm' = Click(c)
    BY <1>2 DEF ClickDisconnect
  <2>. HIDE DEF told
  <2>2. Lets(cm, c)
    BY DEF Lets, Formed
  <2>. HIDE DEF c
  <2>. QED
    BY <2>1, <2>2, EndsLet DEF Lets
<1>3. CASE Reconnect
  BY <1>3, FailuresLet DEF Reconnect
<1>4. CASE ForwardUserInputOrReconnect
  <2>. DEFINE s == SetState(cm, "Connecting", "Regular")
              c == [s EXCEPT !.succeeded = FALSE, !.authPrompt = FALSE]
  <2>1. PICK env \in Now : cm' = StartAttempt(c, env)
    BY <1>4 DEF ForwardUserInputOrReconnect
  <2>2. Lets(cm, s)
    BY HelpersLet
  <2>. HIDE DEF s
  <2>3. Lets(s, c)
    BY <2>2 DEF Lets, Formed
  <2>. HIDE DEF c
  <2>. QED
    BY <2>1, <2>2, <2>3, AttemptsLet DEF Lets
<1>5. ASSUME NEW yes \in BOOLEAN, OnWireGuardKeyLimitUserResponse(yes) PROVE Lets(cm, cm')
  <2>. DEFINE c == [cm EXCEPT !.keyPrompt = FALSE]
              prep == IF c.prep = "consent" THEN "preparing" ELSE c.prep
              p == [c EXCEPT !.prep = prep]
  <2>1. cm' \in {c, Click(c), Arm(p, {"connecting"})}
    BY <1>5 DEF OnWireGuardKeyLimitUserResponse
  <2>2. Lets(cm, c)
    BY DEF Lets, Formed
  <2>. HIDE DEF c, prep
  <2>3. Lets(c, p)
    BY <2>2 DEF Lets, Formed
  <2>. HIDE DEF p
  <2>4. Lets(c, Click(c))
    BY <2>2, EndsLet DEF Lets
  <2>5. Lets(p, Arm(p, {"connecting"}))
    BY <2>3, HelpersLet DEF Lets
  <2>. QED
    BY <2>1, <2>2, <2>3, <2>4, <2>5 DEF Lets
<1>6. ASSUME NEW kind \in SessionKinds, UpdateConnectionSettings(kind) PROVE Lets(cm, cm')
  <2>. DEFINE b == (cm.resolving /\ kind = "custom")
              c == [cm EXCEPT !.resolving = b]
              n == NewWalk(c, kind)
  <2>1. cm' \in {n, StartDisconnect(EnterReconnecting(n))}
    BY <1>6 DEF UpdateConnectionSettings
  <2>. HIDE DEF b
  <2>2. Lets(cm, c)
    BY DEF Lets, Formed
  <2>. HIDE DEF c
  <2>3. Lets(c, n)
    BY <2>2 DEF NewWalk, Lets, Formed
  <2>. HIDE DEF n
  <2>4. Lets(n, EnterReconnecting(n))
    BY <2>3, HelpersLet DEF Lets
  <2>. QED
    BY <2>1, <2>2, <2>3, <2>4, EndsLet DEF Lets
<1>7. CASE SetFirewallAlwaysOnPlusEnabled
  BY <1>7 DEF SetFirewallAlwaysOnPlusEnabled, Lets, Formed
<1>8. ASSUME NEW yes \in BOOLEAN, OnTunnelTestResult(yes) PROVE Lets(cm, cm')
  <2>. DEFINE w == ResetCachedConfigBudget(cm.walk)
              ok == cm.succeeded \/ IsAutomaticMode(cm.walk)
  <2>1. cm' \in {[cm EXCEPT !.walk = w, !.succeeded = ok], cm, HandleAttemptFailed(cm, TRUE)}
    BY <1>8 DEF OnTunnelTestResult
  <2>. HIDE DEF w, ok
  <2>2. Lets(cm, [cm EXCEPT !.walk = w, !.succeeded = ok]) /\ Lets(cm, cm)
    BY DEF Lets, Formed
  <2>. QED
    BY <2>1, <2>2, FailuresLet
<1>. QED
  BY <1>1, <1>2, <1>3, <1>4, <1>5, <1>6, <1>7, <1>8 DEF Requests

\* The timers and the asynchronous answers.
LEMMA TimeoutsLet ==
    ASSUME Formed(cm), Timeouts
    PROVE  Lets(cm, cm')
<1>1. \A ts : Lets(cm, Disarm(cm, ts))
  BY HelpersLet
<1>2. \A n : Lets(cm, n) => Lets(cm, Report(Disconnect(n), "timeout"))
  <2>. SUFFICES ASSUME NEW n, Lets(cm, n) PROVE Lets(cm, Report(Disconnect(n), "timeout"))
    OBVIOUS
  <2>. DEFINE d == Disconnect(n)
  <2>1. Lets(n, d)
    BY HelpersLet DEF Lets
  <2>. HIDE DEF d
  <2>2. Lets(d, Report(d, "timeout"))
    BY <2>1, HelpersLet DEF Lets
  <2>. QED
    BY <2>1, <2>2 DEF Lets, d
<1>3. \A n, env : Lets(cm, n) => Lets(cm, StartAttempt(n, env))
  BY AttemptsLet DEF Lets
<1>4. CASE OnTimerReconnection
  <2>. DEFINE m == Disarm(cm, {"cap"})
  <2>1. cm' \in {m, StartDisconnect(Stop(m, "timeout")), Report(Disconnect(m), "timeout")}
    BY <1>4 DEF OnTimerReconnection
  <2>2. Lets(cm, m)
    BY <1>1
  <2>. HIDE DEF m
  <2>3. Lets(m, Stop(m, "timeout"))
    BY <2>2, HelpersLet DEF Lets
  <2>. QED
    BY <1>2, <2>1, <2>2, <2>3, EndsLet DEF Lets
<1>5. CASE OnConnectTrigger
  BY <1>1, <1>3, <1>5 DEF OnConnectTrigger
<1>6. CASE OnConnectingTimeout
  <2>. DEFINE m == Disarm(cm, {"connecting"})
              c == ClearCachedConfigIfExhausted(m, TRUE)
  <2>1. cm' = StartFailoverReconnect(c)
    BY <1>6 DEF OnConnectingTimeout
  <2>2. Lets(cm, m)
    BY <1>1
  <2>. HIDE DEF m
  <2>3. Lets(m, c)
    BY <2>2, EndsLet DEF Lets
  <2>. HIDE DEF c
  <2>. QED
    BY <2>1, <2>2, <2>3, FailuresLet DEF Lets
<1>7. CASE OnTimerWaitNetworkConnectivity
  <2>. DEFINE m == Disarm(cm, {"poll"})
              again == SetState(m, "Reconnecting", "Regular")
  <2>1. PICK env \in Now : cm' \in {StartAttempt(again, env), StartAttempt(m, env), Report(Disconnect(cm), "timeout")}
    BY <1>7 DEF OnTimerWaitNetworkConnectivity
  <2>2. Lets(cm, m) /\ Lets(cm, cm)
    BY <1>1 DEF Lets
  <2>. HIDE DEF m
  <2>3. Lets(m, again)
    BY <2>2 DEF SetState, Lets, Formed
  <2>4. Lets(cm, again)
    BY <2>2, <2>3 DEF Lets
  <2>. HIDE DEF again
  <2>. QED
    BY <1>2, <1>3, <2>1, <2>2, <2>4
<1>8. ASSUME NEW n \in 0 .. MaxEndpoints, OnHostnamesResolved(n) PROVE Lets(cm, cm')
  <2>. DEFINE w == IF cm.walk.kind = "emergency" THEN OnEndpointsReceived(cm.walk, n) ELSE cm.walk
              m == [cm EXCEPT !.resolving = FALSE, !.walk = w]
  <2>1. PICK env \in Now : cm' = HostnamesResolved(m, env)
    BY <1>8 DEF OnHostnamesResolved
  <2>. HIDE DEF w
  <2>2. Lets(cm, m)
    BY DEF Lets, Formed
  <2>. HIDE DEF m
  <2>. QED
    BY <2>1, <2>2, AttemptsLet DEF Lets
<1>. QED
  BY <1>4, <1>5, <1>6, <1>7, <1>8 DEF Timeouts

\* The connector's own steps.
LEMMA ConnectorLets ==
    ASSUME Formed(cm), Connector
    PROVE  Lets(cm, cm')
BY DEF Connector, ConnectorPrepared, ConnectorPrepareFailed, ConnectorAtKeyLimit,
       ConnectorStarted, ConnectorConnected, ConnectorReconnecting, ConnectorStartFailed,
       ConnectorFailed, ConnectorDied, ConnectorStopped, ConnectorSettledSilently,
       ConnectorStep, Emit, Lets, Formed

\* Restoring a session leaves them alone.
LEMMA RestoreLets ==
    ASSUME NEW m, Formed(m), NEW env
    PROVE  Lets(m, RestoreConnectionAfterWakeUp(m, env))
<1>. DEFINE k == Waking(m)
            w == Waiting(m)
<1>1. Lets(m, k) /\ Lets(m, w)
  BY HelpersLet DEF Waking, Waiting
<1>. HIDE DEF k, w
<1>2. Lets(k, StartDisconnect(k)) /\ Lets(k, StartAttempt(k, env))
  BY <1>1, EndsLet, AttemptsLet DEF Lets
<1>3. Lets(w, Arm(w, {"cap", "poll"}))
  BY <1>1, HelpersLet DEF Lets
<1>4. /\ Lets(m, StartDisconnect(k)) /\ Lets(m, StartAttempt(k, env))
      /\ Lets(m, Arm(w, {"cap", "poll"}))
  BY <1>1, <1>2, <1>3 DEF Lets
<1>. QED
  BY <1>1, <1>4, RestoreWays DEF k, w

\* The sleep handler puts the session to rest, or waits in its loop, which
\* Windows does not have.
LEMMA SleepEnters ==
    ASSUME Good(cm), OnSleepMode
    PROVE  /\ cm'.blocking => Platform # "windows" /\ ~cm'.wake
           /\ ~cm'.blocking => IsSettled(cm')
<1>. DEFINE m == Halted(cm)
            d == StartDisconnect(m)
            b == Blocked(m)
            z == [b EXCEPT !.conn = "down"]
<1>1. \/ IsSettled(cm) /\ cm' = m
      \/ cm' \in {SetState(m, "Sleeping", "Regular"), FallAsleep(m), FallAsleep(z)}
      \/ cm' = b /\ Platform # "windows"
  BY SleepWays DEF Good
<1>2. ~cm.blocking
  BY DEF OnSleepMode
<1>3. /\ m \in TypeOfManager /\ Formed(m) /\ m.wake = FALSE /\ m.blocking = cm.blocking
      /\ m.state = cm.state /\ m.timers = {} /\ m.conn = cm.conn /\ m.prep = cm.prep /\ m.queue = cm.queue
  BY DEF Good, Halted, TypeOfManager, Formed
<1>4. Good(m)
  BY <1>3, SameGood
<1>. HIDE DEF m
<1>5. Lets(m, d) /\ d \in TypeOfManager
  BY <1>3, <1>4, EndsLet, StartDisconnectGood DEF Good
<1>6. b = [d EXCEPT !.blocking = TRUE]
  BY DEF Blocked
<1>. HIDE DEF d
<1>7. b \in TypeOfManager /\ b.blocking /\ ~b.wake
  BY <1>3, <1>5, <1>6 DEF TypeOfManager, Lets
<1>. HIDE DEF b
<1>8. z \in TypeOfManager
  BY <1>7 DEF TypeOfManager, Connectors
<1>. HIDE DEF z
<1>9. /\ FallAsleep(m).state = "Sleeping" /\ ~FallAsleep(m).blocking
      /\ FallAsleep(z).state = "Sleeping" /\ ~FallAsleep(z).blocking
  BY <1>3, <1>8, FallAsleepFrame DEF Skeleton
<1>10. SetState(m, "Sleeping", "Regular").state = "Sleeping" /\ ~SetState(m, "Sleeping", "Regular").blocking
  BY <1>2, <1>3, SetStateFrame DEF Skeleton
<1>. QED
  BY <1>1, <1>2, <1>3, <1>7, <1>9, <1>10 DEF IsSettled

\* The sleep handler itself.
LEMMA SleepRouses ==
    ASSUME Good(cm), OnSleepMode
    PROVE  Roused'
BY SleepEnters DEF OnSleepMode, Roused

\* The end of its event loop.
LEMMA EndSleepRouses ==
    ASSUME Good(cm), Roused, EndBlockingDisconnect
    PROVE  Roused'
<1>. DEFINE f == FallAsleep(cm)
<1>1. PICK env \in Now :
        cm' = IF cm.wake THEN [RestoreConnectionAfterWakeUp(f, env) EXCEPT !.wake = FALSE] ELSE f
  BY DEF EndBlockingDisconnect
<1>2. Good(f) /\ f.state = "Sleeping" /\ ~f.blocking
  BY FallAsleepGood, FallAsleepFrame DEF Good, Skeleton
<1>. HIDE DEF f
<1>3. Formed(f)
  BY <1>2 DEF Good, TypeOfManager, Formed
<1>. DEFINE r == RestoreConnectionAfterWakeUp(f, env)
<1>4. Lets(f, r)
  BY <1>3, RestoreLets
<1>. HIDE DEF r
<1>5. ~[r EXCEPT !.wake = FALSE].blocking
  BY <1>2, <1>4 DEF Lets, Formed
<1>6. asleep' = asleep /\ cm.blocking
  BY DEF EndBlockingDisconnect, World
<1>7. CASE cm.wake
  BY <1>1, <1>5, <1>6, <1>7 DEF Roused, r
<1>8. CASE ~cm.wake
  BY <1>1, <1>2, <1>6, <1>8 DEF Roused, IsSettled
<1>. QED
  BY <1>7, <1>8

\* The wake handler says that the machine woke, the network's slot nothing.
LEMMA NoticesLet ==
    ASSUME Good(cm), OnWakeMode \/ OnNetworkOnlineStateChanged
    PROVE  /\ cm'.blocking = cm.blocking
           /\ OnNetworkOnlineStateChanged => cm'.wake = cm.wake /\ (IsSettled(cm) => IsSettled(cm'))
<1>0. Formed(cm)
  BY DEF Good, TypeOfManager, Formed
<1>1. ASSUME OnWakeMode PROVE cm'.blocking = cm.blocking
  <2>. DEFINE d == Disarm(cm, {"cap", "rest"})
              m == [d EXCEPT !.wake = TRUE]
  <2>1. PICK env \in Now :
          cm' = IF m.state \in {"Disconnected", "Stopping"} THEN m ELSE RestoreConnectionAfterWakeUp(m, env)
    BY <1>1 DEF OnWakeMode
  <2>2. Lets(cm, d)
    BY <1>0, HelpersLet
  <2>. HIDE DEF d
  <2>3. Formed(m) /\ m.blocking = cm.blocking
    BY <2>2 DEF Lets, Formed
  <2>. HIDE DEF m
  <2>. QED
    BY <2>1, <2>3, RestoreLets DEF Lets
<1>2. ASSUME OnNetworkOnlineStateChanged
      PROVE  cm'.blocking = cm.blocking /\ cm'.wake = cm.wake /\ (IsSettled(cm) => IsSettled(cm'))
  <2>. DEFINE alive == ~online
              m == Noticed(cm, alive)
              w == Waiting(m)
              again == SetState(m, "Reconnecting", "Regular")
  <2>1. \/ cm' \in {cm, m}
        \/ ~IsSettled(cm)
           /\ cm' \in {StartDisconnect(Arm(w, {"cap"})), StartDisconnect(Arm(again, {"cap"})), StartDisconnect(w)}
    BY <1>2, NetworkWays DEF Good
  <2>. HIDE DEF alive
  <2>2. Lets(cm, m) /\ m.state = cm.state
    BY <1>0 DEF Noticed, Lets, Formed, Good, TypeOfManager
  <2>. HIDE DEF m
  <2>3. Lets(m, w) /\ Lets(m, again)
    BY <2>2, HelpersLet DEF Lets, Waiting
  <2>. HIDE DEF w, again
  <2>4. Lets(w, Arm(w, {"cap"})) /\ Lets(again, Arm(again, {"cap"}))
    BY <2>3, HelpersLet DEF Lets
  <2>5. /\ Lets(Arm(w, {"cap"}), StartDisconnect(Arm(w, {"cap"})))
        /\ Lets(Arm(again, {"cap"}), StartDisconnect(Arm(again, {"cap"})))
        /\ Lets(w, StartDisconnect(w))
    BY <2>3, <2>4, EndsLet DEF Lets
  <2>. QED
    BY <2>1, <2>2, <2>3, <2>4, <2>5 DEF Lets, IsSettled
<1>. QED
  BY <1>1, <1>2

\* They keep what the sleep handler counts on.
LEMMA WakeRouses ==
    ASSUME Good(cm), Roused, OnWakeMode \/ OnNetworkOnlineStateChanged
    PROVE  Roused'
<1>1. CASE OnWakeMode
  BY <1>1, NoticesLet DEF Roused, OnWakeMode
<1>2. CASE OnNetworkOnlineStateChanged
  <2>1. asleep' = asleep
    BY <1>2 DEF OnNetworkOnlineStateChanged
  <2>. QED
    BY <1>2, <2>1, NoticesLet DEF Roused
<1>. QED
  BY <1>1, <1>2

\* Only the sleep handler enters the loop, and not on Windows.
LEMMA PumpStarts ==
    ASSUME Good(cm), ~cm.blocking, Next, cm'.blocking
    PROVE  OnSleepMode /\ Platform # "windows"
<1>1. ~(Slots \/ Requests \/ Timeouts \/ Connector)
  <2>1. Formed(cm)
    BY DEF Good, TypeOfManager, Formed
  <2>. QED
    BY <2>1, SlotsLet, RequestsLet, TimeoutsLet, ConnectorLets DEF Lets
<1>2. ~EndBlockingDisconnect /\ ~OnWakeMode /\ ~OnNetworkOnlineStateChanged
  BY NoticesLet DEF EndBlockingDisconnect
<1>3. OnSleepMode
  BY <1>1, <1>2 DEF Next, System
<1>. QED
  BY <1>3, SleepEnters

\* What the sleep and the wake handler count on holds after every step.
LEMMA NextRouses ==
    ASSUME Good(cm), Roused, Next
    PROVE  Roused'
<1>1. CASE Slots \/ Requests \/ Timeouts \/ Connector
  <2>1. Formed(cm)
    BY DEF Good, TypeOfManager, Formed
  <2>2. Lets(cm, cm')
    BY <1>1, <2>1, SlotsLet, RequestsLet, TimeoutsLet, ConnectorLets
  <2>3. asleep' = asleep
    BY <1>1, StepsLeaveAsleep
  <2>4. asleep /\ IsSettled(cm) => IsSettled(cm')
    BY <1>1, SlotsRest, RequestsRest, TimeoutsRest, ConnectorRest
  <2>. QED
    BY <2>2, <2>3, <2>4 DEF Roused, Lets
<1>2. CASE System
  BY <1>2, SleepRouses, EndSleepRouses, WakeRouses DEF System
<1>. QED
  BY <1>1, <1>2 DEF Next

-----------------------------------------------------------------------------
(* The theorem                                                              *)

\* A manager just constructed has nothing to drive.
LEMMA InitDriven == Init => Driven(cm) /\ Roused
<1>. SUFFICES ASSUME Init PROVE Driven(cm) /\ Roused
  OBVIOUS
<1>1. PICK aop \in BOOLEAN, stored \in BOOLEAN :
          cm = [state |-> "Disconnected", cause |-> "Regular", pending |-> "itself",
                timers |-> {}, conn |-> "none", fetches |-> FALSE, dialed |-> FALSE,
                prep |-> "none", fetchMode |-> "None", queue |-> <<>>,
                walk |-> CreateStrategy("manual", FALSE, FALSE), resolving |-> FALSE,
                ignore |-> FALSE, succeeded |-> FALSE, wake |-> FALSE, lastOnline |-> TRUE,
                alwaysOnPlus |-> aop, stored |-> stored, blocking |-> FALSE,
                keyPrompt |-> FALSE, authPrompt |-> FALSE, told |-> <<>>]
  BY DEF Init
<1>2. /\ cm.state = "Disconnected" /\ cm.cause = "Regular" /\ cm.timers = {} /\ cm.conn = "none"
      /\ cm.dialed = FALSE /\ cm.blocking = FALSE /\ cm.walk = CreateStrategy("manual", FALSE, FALSE)
      /\ asleep = FALSE
  BY <1>1 DEF Init
<1>3. CreateStrategy("manual", FALSE, FALSE).kind = "manual"
  BY DEF CreateStrategy
<1>4. Firm(cm)
  BY <1>2, <1>3 DEF Firm, Apt, Uncapped, Capped, Live
<1>. QED
  BY <1>2, <1>4, FirmDriven DEF Roused

\* Every step keeps the invariant, of candid connectors.
LEMMA NextDriven ==
    ASSUME Candid
    PROVE  IInv /\ Kept(cm) /\ Driven(cm) /\ Roused /\ [Next]_vars => Driven(cm)' /\ Roused'
<1>. SUFFICES ASSUME IInv, Kept(cm), Driven(cm), Roused, [Next]_vars PROVE Driven(cm)' /\ Roused'
  OBVIOUS
<1>1. CASE UNCHANGED vars
  BY <1>1 DEF vars, Roused, IsSettled
<1>2. CASE Next
  <2>1. Driven(cm')
    BY <1>2, SlotsDriven, RequestsDriven, TimeoutsDriven, SystemDriven, ConnectorDriven DEF IInv, Next, Kept
  <2>2. Roused'
    BY <1>2, NextRouses DEF IInv
  <2>. QED
    BY <2>1, <2>2
<1>. QED
  BY <1>1, <1>2

\* What drives an attempt, read off the invariant.
LEMMA DrivenAttempt ==
    ASSUME Good(cm), Driven(cm)
    PROVE  AttemptHasDriver
<1>. SUFFICES ASSUME cm.state \in {"Connecting", "Reconnecting"}, cm.timers = {}, ~cm.blocking,
                     cm.conn \notin Live, ~(cm.keyPrompt /\ cm.conn # "none"),
                     ~(cm.resolving /\ cm.conn # "none"), cm.prep # "preparing"
              PROVE  Queued(SignalNames)
  BY DEF AttemptHasDriver
<1>1. Staged(cm) /\ Heeded(cm) /\ Capped(cm)
  BY DEF Driven
<1>2. Uncapped(cm)
  BY <1>1 DEF Uncapped, Capped, Good, TypeOfManager
<1>3. cm.conn \in {"idle", "down"}
  BY <1>1, <1>2 DEF Staged, Live, Good, TypeOfManager, Connectors
<1>4. Ended(cm) \/ Current(cm) # {}
  BY <1>1, <1>2, <1>3 DEF Staged, Safe, Waits, Begins
<1>5. PICK i \in DOMAIN cm.queue : cm.queue[i].current
  BY <1>4 DEF Ended, Current
<1>6. cm.queue[i].name \in SignalNames
  <2>1. cm.queue \in Seq(Signals)
    BY DEF Good, TypeOfManager
  <2>2. cm.queue[i] \in Signals
    BY <1>5, <2>1
  <2>. QED
    BY <2>2 DEF Signals
<1>. QED
  BY <1>5, <1>6 DEF Queued

\* An attempt to connect never hangs: a timer runs, the names are being resolved,
\* the connector works, a signal of its is queued, or a question is open, while
\* connectors end as the hypothesis has it (connectionmanager.cpp, the timers of
\* startAttempt(), enterReconnecting() and the slots of the connector).
THEOREM AttemptsAreDriven == Candid => (Spec => []AttemptHasDriver)
<1>. SUFFICES ASSUME Candid PROVE Spec => []AttemptHasDriver
  OBVIOUS
<1>1. IInv /\ Kept(cm) /\ Driven(cm) /\ Roused /\ [Next]_vars => Driven(cm)' /\ Roused'
  BY NextDriven
<1>2. IInv /\ Driven(cm) => AttemptHasDriver
  BY DrivenAttempt DEF IInv
<1>. QED
  BY <1>1, <1>2, InitDriven, AlwaysGood, AlwaysKept, PTL DEF Spec

=============================================================================
