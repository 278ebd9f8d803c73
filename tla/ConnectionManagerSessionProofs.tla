-------------------- MODULE ConnectionManagerSessionProofs -------------------
(***************************************************************************)
(* Every step of the connection manager is a step of the session that       *)
(* VpnSession promises the engine, or none, as long as no session ends       *)
(* while the sleep handler runs the event loop (OutlivesPump): a request is  *)
(* answered once, and the user's stop is the outcome of the session it       *)
(* stopped.                                                                 *)
(***************************************************************************)
EXTENDS ConnectionManagerAttemptProofs

-----------------------------------------------------------------------------
(* What an operation may say of the session                                 *)

\* The states of a session that is neither over nor ending.
Runs == {"Connecting", "Connected", "Reconnecting", "WaitingForNetwork", "Sleeping"}

\* What the sleep handler's event loop delivers does not end the session.
OutlivesPump == cm.blocking => cm.state \in Runs

\* The sleep handler does not run the event loop: Windows waits for the
\* connector without it, and without a source of events there is no sleep.
Unpumped == Platform = "windows" \/ ~HasSleepEvents

\* Nothing was reported or asked of the session.
Silent(m) == ~m.authPrompt /\ m.told = <<>>

\* A stop has a connector to wait for, and only a custom configuration's stop
\* asks for other credentials.
Stoppable(m) == m.state = "Stopping" => m.conn # "none" /\ (m.pending = "authError" => m.walk.kind = "custom")

\* The invariant: a session that is not over has reported nothing, and a question
\* is asked in the place of an outcome.
Tells(m) ==
    /\ m.state # "Disconnected" => m.told = <<>> /\ ~m.authPrompt
    /\ m.authPrompt => m.told = <<>> /\ m.walk.kind = "custom"
    /\ Stoppable(m)

\* An operation leads to one of the states in silence, or to the end, and says so.
Leads(n, states) ==
    /\ ~n.authPrompt /\ Stoppable(n)
    /\ \/ n.state \in states /\ n.told = <<>>
       \/ n.state = "Disconnected" /\ \E o \in Outcomes \ {"user"} : n.told = <<o>>

\* What an operation leaves alone that says nothing.
Voice(m) == <<m.told, m.authPrompt, m.blocking, m.pending, m.walk.kind>>

\* What an operation leaves alone that does not move the session either.
Still(m) == <<m.state, Voice(m), m.conn = "none", m.walk, m.succeeded>>

\* A walk that gives up at its next failure, and is asked to go on.
Hopeful(m) ==
    m.walk.kind = "auto" => m.walk.attempts = <<>> \/ ~RecordFailure(m.walk, m.succeeded).giveUp

-----------------------------------------------------------------------------
(* What the helpers say                                                     *)

\* The state, the timers and the two flags of an attempt say nothing.
LEMMA QuietHelpers ==
    ASSUME NEW m \in TypeOfManager
    PROVE  /\ \A s, c : Still(SetState(m, s, c)) = <<s, Voice(m), m.conn = "none", m.walk, m.succeeded>>
           /\ \A ts : Still(Arm(m, ts)) = Still(m) /\ Still(Disarm(m, ts)) = Still(m)
           /\ Still(Seen(m)) = Still(m) /\ Still(Advised(m)) = Still(m) /\ Still(Resolving(m)) = Still(m)
           /\ Still(Disconnect(m)) = <<"Disconnected", Voice(m), m.conn = "none", m.walk, m.succeeded>>
<1>1. \A s, c : Still(SetState(m, s, c)) = <<s, Voice(m), m.conn = "none", m.walk, m.succeeded>>
  BY DEF Still, Voice, SetState, TypeOfManager
<1>2. \A ts : Still(Arm(m, ts)) = Still(m) /\ Still(Disarm(m, ts)) = Still(m)
  BY DEF Still, Voice, Arm, Disarm, TypeOfManager
<1>3. Still(Seen(m)) = Still(m) /\ Still(Advised(m)) = Still(m) /\ Still(Resolving(m)) = Still(m)
  BY DEF Still, Voice, Seen, Advised, Resolving, TypeOfManager
<1>4. Still(Disconnect(m)) = <<"Disconnected", Voice(m), m.conn = "none", m.walk, m.succeeded>>
  BY DEF Still, Voice, Disconnect, SetState, TypeOfManager
<1>. QED
  BY <1>1, <1>2, <1>3, <1>4

\* Updates of the walk keep its kind.
LEMMA QuietWalk ==
    ASSUME NEW m \in TypeOfManager
    PROVE  /\ Voice(ResetWalk(m)) = Voice(m) /\ ResetWalk(m).state = m.state /\ ResetWalk(m).conn = m.conn
           /\ Voice(Walked(m)) = Voice(m) /\ Walked(m).state = m.state /\ Walked(m).conn = m.conn
<1>1. /\ Reset(m.walk).kind = m.walk.kind
      /\ RecordFailure(m.walk, m.succeeded).walk.kind = m.walk.kind
  BY ThriftyUpdates DEF Thrifty, TypeOfManager
<1>2. Voice(ResetWalk(m)) = Voice(m) /\ ResetWalk(m).state = m.state /\ ResetWalk(m).conn = m.conn
  BY <1>1 DEF Voice, ResetWalk, TypeOfManager
<1>. DEFINE w == RecordFailure(m.walk, m.succeeded).walk
<1>3. w.kind = m.walk.kind /\ Walked(m) = [m EXCEPT !.walk = w]
  BY <1>1 DEF Walked
<1>. HIDE DEF w
<1>4. Voice(Walked(m)) = Voice(m) /\ Walked(m).state = m.state /\ Walked(m).conn = m.conn
  BY <1>3 DEF Voice, TypeOfManager
<1>. QED
  BY <1>2, <1>4

\* The connector's signals, its stop and its deletion say nothing.
LEMMA QuietConnector ==
    ASSUME NEW m \in TypeOfManager
    PROVE  /\ \A name, err : Still(Emit(m, name, err)) = Still(m)
           /\ Still(StartDisconnect(m)) = Still(m)
           /\ Still(Retire(m)) = <<m.state, Voice(m), TRUE, m.walk, m.succeeded>>
<1>1. ASSUME NEW n \in TypeOfManager, NEW name, NEW err
      PROVE  Still(Emit(n, name, err)) = Still(n)
  BY <1>1 DEF Still, Voice, Emit, TypeOfManager
<1>2. Still(Retire(m)) = <<m.state, Voice(m), TRUE, m.walk, m.succeeded>>
  BY DEF Still, Voice, Retire, TypeOfManager
<1>3. Still(StartDisconnect(m)) = Still(m)
  <2>1. CASE m.conn \in {"idle", "down"}
    <3>. DEFINE c == [m EXCEPT !.conn = "down", !.prep = "none"]
    <3>1. c \in TypeOfManager /\ Still(c) = Still(m)
      BY <2>1 DEF TypeOfManager, Connectors, Still, Voice
    <3>2. StartDisconnect(m) = Emit(c, "disconnected", "kNoError")
      BY <2>1 DEF StartDisconnect
    <3>. HIDE DEF c
    <3>. QED
      BY <3>1, <3>2, <1>1
  <2>2. CASE m.conn = "starting"
    BY <2>2 DEF StartDisconnect, TypeOfManager, Still, Voice
  <2>3. CASE m.conn \in {"dialing", "up"}
    BY <2>3 DEF StartDisconnect, TypeOfManager, Still, Voice
  <2>4. CASE m.conn \in {"none", "aborting", "stopping"}
    BY <2>4 DEF StartDisconnect
  <2>. QED
    BY <2>1, <2>2, <2>3, <2>4 DEF TypeOfManager, Connectors
<1>. QED
  BY <1>1, <1>2, <1>3

\* A connector that has just been created says nothing.
LEMMA QuietRecreated ==
    ASSUME NEW m \in TypeOfManager
    PROVE  Still(Recreated(m)) = <<m.state, Voice(m), FALSE, m.walk, m.succeeded>>
<1>. DEFINE r == Retire(m)
            wg == (PreResolveProtocol(m.walk) = "wireguard")
            ts == (m.timers \ {"rest"})
                  \cup IF UsesConnectTimeout(m.walk) THEN {"connecting"} ELSE {}
<1>1. r \in TypeOfManager /\ Still(r) = <<m.state, Voice(m), TRUE, m.walk, m.succeeded>>
  BY RetireFacts, QuietConnector
<1>2. Recreated(m) = [r EXCEPT !.conn = "idle", !.fetches = wg, !.timers = ts]
  BY DEF Recreated, RecreateConnector
<1>. DEFINE n == [r EXCEPT !.conn = "idle", !.fetches = wg, !.timers = ts]
<1>. HIDE DEF r, wg, ts
<1>3. /\ n.state = r.state /\ n.conn = "idle" /\ n.walk = r.walk /\ n.succeeded = r.succeeded
      /\ n.told = r.told /\ n.authPrompt = r.authPrompt /\ n.blocking = r.blocking /\ n.pending = r.pending
  BY <1>1 DEF TypeOfManager
<1>4. Recreated(m) = n
  BY <1>2
<1>. HIDE DEF n
<1>. QED
  BY <1>1, <1>3, <1>4 DEF Still, Voice

\* A stop keeps the silence; its outcome waits.
LEMMA StopSays ==
    ASSUME NEW m \in TypeOfManager, NEW o
    PROVE  LET n == Stop(m, o) IN
           /\ n.state = "Stopping" /\ n.pending = o /\ n.told = m.told /\ n.authPrompt = m.authPrompt
           /\ n.blocking = m.blocking /\ n.conn = m.conn /\ n.walk = m.walk
BY DEF Stop, SetState, TypeOfManager

\* The first report of a session is the only one.
LEMMA ReportSays ==
    ASSUME NEW m \in TypeOfManager, m.told = <<>>, NEW o
    PROVE  LET n == Report(m, o) IN
           /\ n.told = <<o>> /\ n.state = m.state /\ n.authPrompt = m.authPrompt
           /\ n.blocking = m.blocking /\ n.conn = m.conn /\ n.walk = m.walk /\ n.pending = m.pending
BY DEF Report, TypeOfManager

\* What leads somewhere, leads there with one more step in silence.
LEMMA LeadsFrame ==
    ASSUME NEW m, NEW n, n.state = m.state, Voice(n) = Voice(m), n.conn = "none" => m.conn = "none",
           NEW S, Leads(m, S)
    PROVE  Leads(n, S)
BY DEF Leads, Voice, Stoppable

\* A session that is silent leads to where it is.
LEMMA SilentLeads ==
    ASSUME NEW n, Silent(n), NEW S, n.state \in S, n.state # "Stopping"
    PROVE  Leads(n, S)
BY DEF Leads, Silent, Stoppable

\* More states, no harm.
LEMMA LeadsMore ==
    ASSUME NEW n, NEW S, NEW T, S \subseteq T, Leads(n, S)
    PROVE  Leads(n, T)
BY DEF Leads

-----------------------------------------------------------------------------
(* Where the operations lead                                                *)

\* A session ends at once with one outcome, whatever became of its connector.
LEMMA EndLeads ==
    ASSUME NEW m, Good(m), Silent(m), NEW o \in Outcomes \ {"user"}, NEW S
    PROVE  Leads(Report(Disconnect(m), o), S)
<1>. DEFINE d == Disconnect(m)
<1>1. d \in TypeOfManager
  BY DisconnectGood DEF Good
<1>2. Still(d) = <<"Disconnected", Voice(m), m.conn = "none", m.walk, m.succeeded>>
  BY QuietHelpers DEF Good
<1>. HIDE DEF d
<1>3. d.state = "Disconnected" /\ Silent(d)
  BY <1>2 DEF Still, Voice, Silent
<1>4. LET n == Report(d, o) IN
      /\ n.told = <<o>> /\ n.state = d.state /\ n.authPrompt = d.authPrompt /\ n.blocking = d.blocking
  BY <1>1, <1>3, ReportSays DEF Silent
<1>. QED
  BY <1>3, <1>4 DEF Leads, Silent, Stoppable, d

\* failWithError() ends it with the error.
LEMMA FailWithErrorLeads ==
    ASSUME NEW m, Good(m), Silent(m), NEW S
    PROVE  Leads(FailWithError(m), S)
<1>. DEFINE r == IF m.conn = "none" THEN m ELSE Retire(m)
            d == Disconnect(r)
<1>1. r \in TypeOfManager /\ Owned(r)
  BY RetireFacts DEF Good
<1>2. Voice(r) = Voice(m)
  BY QuietConnector DEF Good, Still
<1>. HIDE DEF r
<1>3. d \in TypeOfManager
  BY <1>1, DisconnectGood DEF Good
<1>4. Still(d) = <<"Disconnected", Voice(r), r.conn = "none", r.walk, r.succeeded>>
  BY <1>1, QuietHelpers
<1>. HIDE DEF d
<1>5. d.state = "Disconnected" /\ Silent(d)
  BY <1>2, <1>4 DEF Still, Voice, Silent
<1>6. LET n == Report(d, "error") IN
      /\ n.told = <<"error">> /\ n.state = d.state /\ n.authPrompt = d.authPrompt /\ n.blocking = d.blocking
  BY <1>3, <1>5, ReportSays DEF Silent
<1>7. FailWithError(m) = Report(d, "error") /\ "error" \in Outcomes \ {"user"}
  BY DEF FailWithError, r, d, Outcomes
<1>. QED
  BY <1>5, <1>6, <1>7 DEF Leads, Silent, Stoppable

\* The session that reconnects says nothing.
LEMMA EnterReconnectingSays ==
    ASSUME NEW m, Good(m)
    PROVE  Still(EnterReconnecting(m)) = <<"Reconnecting", Voice(m), m.conn = "none", m.walk, m.succeeded>>
<1>. DEFINE r == SetState(m, "Reconnecting", "Regular")
<1>1. r \in TypeOfManager
  BY SetStateGood DEF Good
<1>2. Still(r) = <<"Reconnecting", Voice(m), m.conn = "none", m.walk, m.succeeded>>
  BY QuietHelpers DEF Good
<1>. HIDE DEF r
<1>3. Still(Arm(r, {"cap"})) = Still(r)
  BY <1>1, QuietHelpers
<1>. QED
  BY <1>2, <1>3 DEF EnterReconnecting, r

\* Telling the connector to stop leads where the session is.
LEMMA StartDisconnectLeads ==
    ASSUME NEW m, Good(m), NEW S, Leads(m, S)
    PROVE  Leads(StartDisconnect(m), S)
<1>1. Still(StartDisconnect(m)) = Still(m)
  BY QuietConnector DEF Good
<1>. QED
  BY <1>1, LeadsFrame DEF Still

\* A failure that is recorded leads to another attempt, or to a stop.
LEMMA HandleAttemptFailedLeads ==
    ASSUME NEW m, Good(m), Silent(m), m.conn # "none", NEW b \in BOOLEAN
    PROVE  Leads(HandleAttemptFailed(m, b), {"Reconnecting", "Stopping"})
<1>. DEFINE w == Walked(m)
            S == {"Reconnecting", "Stopping"}
<1>1. Good(w) /\ Voice(w) = Voice(m) /\ w.state = m.state /\ w.conn = m.conn
  BY WalkGood, QuietWalk DEF Good
<1>2. PICK n : /\ \/ n = w /\ m.state = "Reconnecting"
                  \/ n \in {Stop(w, "itself"), EnterReconnecting(w)}
               /\ HandleAttemptFailed(m, b) = IF b THEN StartDisconnect(n) ELSE n
  BY HandleAttemptFailedWays DEF Good
<1>. HIDE DEF w
<1>3. Silent(w)
  BY <1>1 DEF Silent, Voice
<1>4. CASE n = w /\ m.state = "Reconnecting"
  <2>1. Good(n) /\ Leads(n, S)
    BY <1>1, <1>3, <1>4, SilentLeads
  <2>. QED
    BY <1>2, <2>1, StartDisconnectLeads
<1>5. CASE n = Stop(w, "itself")
  <2>1. Good(n)
    BY <1>1, <1>5, StopGood DEF Outcomes
  <2>2. /\ n.state = "Stopping" /\ n.pending = "itself" /\ n.told = w.told /\ n.authPrompt = w.authPrompt
        /\ n.blocking = w.blocking /\ n.conn = w.conn /\ n.walk = w.walk
    BY <1>1, <1>5, StopSays DEF Good
  <2>3. Leads(n, S)
    BY <1>1, <1>3, <2>2 DEF Leads, Silent, Stoppable
  <2>. QED
    BY <1>2, <2>1, <2>3, StartDisconnectLeads
<1>6. CASE n = EnterReconnecting(w)
  <2>1. Good(n) /\ n.state = "Reconnecting" /\ Voice(n) = Voice(w)
    BY <1>1, <1>6, EnterReconnectingGood, EnterReconnectingSays DEF Still
  <2>2. Leads(n, S)
    BY <1>3, <2>1, SilentLeads DEF Silent, Voice
  <2>. QED
    BY <1>2, <2>1, <2>2, StartDisconnectLeads
<1>. QED
  BY <1>2, <1>4, <1>5, <1>6

\* A connector that reconnects by itself leads the session to reconnect, to a
\* stop, or nowhere.
LEMMA HandleReconnectingLeads ==
    ASSUME NEW m, Good(m), Silent(m), m.conn # "none", m.state \in Runs
    PROVE  Leads(HandleReconnecting(m), {m.state, "Reconnecting", "Stopping"})
<1>. DEFINE S == {m.state, "Reconnecting", "Stopping"}
            s == Seen(m)
<1>1. Good(s) /\ Still(s) = Still(m) /\ s.conn # "none"
  BY WalkGood, QuietHelpers DEF Good, Still
<1>2. Silent(s) /\ s.state = m.state /\ m.state # "Stopping"
  BY <1>1 DEF Still, Voice, Silent, Runs
<1>3. HandleReconnecting(m) \in
        {m, s, HandleAttemptFailed(s, TRUE), StartDisconnect(EnterReconnecting(s))}
  BY DEF HandleReconnecting, Seen, Good, TypeOfManager
<1>. HIDE DEF s
<1>4. Leads(m, S) /\ Leads(s, S)
  BY <1>2, SilentLeads
<1>5. Leads(HandleAttemptFailed(s, TRUE), S)
  <2>1. Leads(HandleAttemptFailed(s, TRUE), {"Reconnecting", "Stopping"})
    BY <1>1, <1>2, HandleAttemptFailedLeads
  <2>. QED
    BY <2>1 DEF Leads
<1>6. Leads(StartDisconnect(EnterReconnecting(s)), S)
  <2>. DEFINE n == EnterReconnecting(s)
  <2>1. Good(n) /\ n.state = "Reconnecting" /\ Voice(n) = Voice(s)
    BY <1>1, EnterReconnectingGood, EnterReconnectingSays DEF Still
  <2>. HIDE DEF n
  <2>2. Leads(n, S)
    BY <1>2, <2>1, SilentLeads DEF Silent, Voice
  <2>3. Leads(StartDisconnect(n), S)
    BY <2>1, <2>2, StartDisconnectLeads
  <2>. QED
    BY <2>3 DEF n
<1>. QED
  BY <1>3, <1>4, <1>5, <1>6

\* startFailoverReconnect() leads to another attempt, or to a stop if the walk
\* gives up.
LEMMA StartFailoverReconnectLeads ==
    ASSUME NEW m, Good(m), Silent(m), m.conn # "none"
    PROVE  /\ Leads(StartFailoverReconnect(m), {"Reconnecting", "Stopping"})
           /\ ~RecordFailure(m.walk, m.succeeded).giveUp => StartFailoverReconnect(m).state = "Reconnecting"
<1>. DEFINE r == EnterReconnecting(m)
<1>1. /\ Good(r) /\ r.state = "Reconnecting" /\ r.conn # "none" /\ r.cause = "Regular"
      /\ Voice(r) = Voice(m) /\ r.walk = m.walk /\ r.succeeded = m.succeeded
  <2>1. r.cause = "Regular"
    BY DEF EnterReconnecting, Arm, SetState, Good, TypeOfManager
  <2>. QED
    BY <2>1, EnterReconnectingGood, EnterReconnectingSays DEF Still
<1>2. StartFailoverReconnect(m) = HandleReconnecting(r)
  BY DEF StartFailoverReconnect
<1>. HIDE DEF r
<1>3. Silent(r)
  BY <1>1 DEF Silent, Voice
<1>4. Leads(HandleReconnecting(r), {"Reconnecting", "Stopping"})
  BY <1>1, <1>3, HandleReconnectingLeads, LeadsMore DEF Runs
<1>5. ASSUME ~RecordFailure(r.walk, r.succeeded).giveUp
      PROVE  HandleReconnecting(r).state = "Reconnecting"
  <2>. DEFINE s == Seen(r)
  <2>1. /\ Good(s) /\ s.state = "Reconnecting" /\ s.cause = "Regular"
        /\ s.walk = r.walk /\ s.succeeded = r.succeeded
    <3>1. Good(s)
      BY <1>1, WalkGood
    <3>2. /\ s.state = r.state /\ s.cause = r.cause
          /\ s.walk = r.walk /\ s.succeeded = r.succeeded
      BY <1>1 DEF Seen, Good, TypeOfManager
    <3>. QED
      BY <1>1, <3>1, <3>2
  <2>2. HandleReconnecting(r) \in {r, HandleAttemptFailed(s, TRUE)}
    BY <1>1 DEF HandleReconnecting, Seen, Good, TypeOfManager
  <2>. HIDE DEF s
  <2>3. HandleAttemptFailed(s, TRUE) = StartDisconnect(Walked(s))
    BY <1>5, <2>1 DEF HandleAttemptFailed, Walked
  <2>4. Good(Walked(s)) /\ Walked(s).state = "Reconnecting"
    BY <2>1, WalkGood, QuietWalk DEF Good
  <2>5. StartDisconnect(Walked(s)).state = "Reconnecting"
    BY <2>4, StartDisconnectGood
  <2>. QED
    BY <1>1, <2>2, <2>3, <2>5
<1>. QED
  BY <1>1, <1>2, <1>4, <1>5

\* The ways out of onHostnamesResolved(): only an automatic walk fails over.
LEMMA HostnamesResolvedSteers ==
    ASSUME NEW m \in TypeOfManager, NEW env
    PROVE  \/ HostnamesResolved(m, env) = m
           \/ HostnamesResolved(m, env) = FailWithError(Advised(m))
           \/ HostnamesResolved(m, env) = Preparing(Advised(m))
           \/ /\ m.conn # "none" /\ m.walk.kind = "auto"
              /\ HostnamesResolved(m, env) = StartFailoverReconnect(Advised(m))
<1>1. Advised(m).walk = m.walk
  BY QuietHelpers DEF Still
<1>2. CachedConfigAdvice(m.walk) = "Advance" => m.walk.kind = "auto"
  BY DEF CachedConfigAdvice, IsAutomaticMode
<1>. QED
  BY <1>1, <1>2 DEF HostnamesResolved, Advised, Preparing

\* The endpoint that is known leads to a preparation, to the end, or to another
\* attempt; to a stop only if the walk gives up.
LEMMA HostnamesResolvedLeads ==
    ASSUME NEW m, Good(m), Silent(m), m.state \in Runs, NEW env
    PROVE  /\ Leads(HostnamesResolved(m, env), {m.state, "Reconnecting", "Stopping"})
           /\ Hopeful(m) /\ m.walk.attempts # <<>> => HostnamesResolved(m, env).state # "Stopping"
<1>. DEFINE S == {m.state, "Reconnecting", "Stopping"}
            a == Advised(m)
<1>0. m \in TypeOfManager /\ m.state # "Stopping"
  BY DEF Good, Runs
<1>1. Good(a) /\ Still(a) = Still(m)
  BY WalkGood, QuietHelpers DEF Advised, Good
<1>2. \/ HostnamesResolved(m, env) = m
      \/ HostnamesResolved(m, env) = FailWithError(a)
      \/ HostnamesResolved(m, env) = Preparing(a)
      \/ /\ m.conn # "none" /\ m.walk.kind = "auto"
         /\ HostnamesResolved(m, env) = StartFailoverReconnect(a)
  BY <1>0, HostnamesResolvedSteers
<1>. HIDE DEF a
<1>3. /\ Silent(a) /\ a.state = m.state /\ a.walk = m.walk /\ a.succeeded = m.succeeded
      /\ a.conn = "none" <=> m.conn = "none"
  BY <1>1 DEF Still, Voice, Silent
<1>4. CASE HostnamesResolved(m, env) = m
  BY <1>0, <1>4, SilentLeads
<1>5. CASE HostnamesResolved(m, env) = FailWithError(a)
  <2>1. Leads(FailWithError(a), S) /\ Leads(FailWithError(a), {})
    BY <1>1, <1>3, FailWithErrorLeads
  <2>. QED
    BY <1>5, <2>1 DEF Leads
<1>6. CASE HostnamesResolved(m, env) = Preparing(a)
  <2>. DEFINE n == Preparing(a)
  <2>1. n.state = a.state /\ n.told = a.told /\ n.authPrompt = a.authPrompt /\ n.blocking = a.blocking
    BY <1>1 DEF Preparing, Good, TypeOfManager
  <2>. HIDE DEF n
  <2>2. Silent(n) /\ n.state = m.state
    BY <1>3, <2>1 DEF Silent
  <2>3. Leads(n, S)
    BY <1>0, <2>2, SilentLeads
  <2>. QED
    BY <1>0, <1>6, <2>2, <2>3 DEF n
<1>7. CASE m.conn # "none" /\ m.walk.kind = "auto" /\ HostnamesResolved(m, env) = StartFailoverReconnect(a)
  <2>1. /\ Leads(StartFailoverReconnect(a), {"Reconnecting", "Stopping"})
        /\ ~RecordFailure(a.walk, a.succeeded).giveUp => StartFailoverReconnect(a).state = "Reconnecting"
    BY <1>1, <1>3, <1>7, StartFailoverReconnectLeads
  <2>2. Leads(StartFailoverReconnect(a), S)
    BY <2>1 DEF Leads
  <2>. QED
    BY <1>3, <1>7, <2>1, <2>2 DEF Hopeful
<1>. QED
  BY <1>2, <1>4, <1>5, <1>6, <1>7

\* startAttempt() leads to an attempt, a wait, or the end.
LEMMA StartAttemptLeads ==
    ASSUME NEW m, Good(m), Silent(m), m.state \in Runs, ~IsSettled(m), NEW env \in Conditions
    PROVE  /\ Leads(StartAttempt(m, env), {m.state, "Reconnecting", "Stopping"})
           /\ Hopeful(m) => StartAttempt(m, env).state # "Stopping"
<1>. DEFINE S == {m.state, "Reconnecting", "Stopping"}
            r == Recreated(m)
<1>0. m \in TypeOfManager /\ m.state # "Stopping"
  BY DEF Good, Runs
<1>1. Good(r) /\ Still(r) = <<m.state, Voice(m), FALSE, m.walk, m.succeeded>>
  BY <1>0, RecreateConnectorGood, QuietRecreated DEF Recreated
<1>2. StartAttempt(m, env) \in
             {FailWithError(m), Arm(m, {"cap", "poll"}), Report(Disconnect(m), "itself"),
              Resolving(r), HostnamesResolved(r, env)}
  BY StartAttemptWays
<1>3. m.walk.attempts = <<>> => StartAttempt(m, env) = FailWithError(m)
  BY DEF StartAttempt, PreResolveProtocol
<1>. HIDE DEF r
<1>4. Silent(r) /\ r.state = m.state /\ r.walk = m.walk /\ r.succeeded = m.succeeded /\ r \in TypeOfManager
  BY <1>1 DEF Still, Voice, Silent, Good
<1>5. Leads(FailWithError(m), S) /\ FailWithError(m).state # "Stopping"
  <2>1. Leads(FailWithError(m), S) /\ Leads(FailWithError(m), {})
    BY FailWithErrorLeads
  <2>. QED
    BY <2>1 DEF Leads
<1>6. Leads(Report(Disconnect(m), "itself"), S) /\ Report(Disconnect(m), "itself").state # "Stopping"
  <2>1. Leads(Report(Disconnect(m), "itself"), S) /\ Leads(Report(Disconnect(m), "itself"), {})
    BY EndLeads DEF Outcomes
  <2>. QED
    BY <2>1 DEF Leads
<1>7. Leads(Arm(m, {"cap", "poll"}), S) /\ Arm(m, {"cap", "poll"}).state # "Stopping"
  <2>1. Still(Arm(m, {"cap", "poll"})) = Still(m)
    BY <1>0, QuietHelpers
  <2>2. Silent(Arm(m, {"cap", "poll"})) /\ Arm(m, {"cap", "poll"}).state = m.state
    BY <2>1 DEF Still, Voice, Silent
  <2>. QED
    BY <1>0, <2>2, SilentLeads
<1>8. Leads(Resolving(r), S) /\ Resolving(r).state # "Stopping"
  <2>1. Still(Resolving(r)) = Still(r)
    BY <1>4, QuietHelpers
  <2>2. Silent(Resolving(r)) /\ Resolving(r).state = m.state
    BY <1>4, <2>1 DEF Still, Voice, Silent
  <2>. QED
    BY <1>0, <2>2, SilentLeads
<1>9. /\ Leads(HostnamesResolved(r, env), S)
      /\ Hopeful(m) /\ m.walk.attempts # <<>> => HostnamesResolved(r, env).state # "Stopping"
  <2>1. /\ Leads(HostnamesResolved(r, env), {r.state, "Reconnecting", "Stopping"})
        /\ Hopeful(r) /\ r.walk.attempts # <<>> => HostnamesResolved(r, env).state # "Stopping"
    BY <1>1, <1>4, HostnamesResolvedLeads
  <2>2. Hopeful(r) <=> Hopeful(m)
    BY <1>4 DEF Hopeful
  <2>. QED
    BY <1>4, <2>1, <2>2
<1>. QED
  BY <1>2, <1>3, <1>5, <1>6, <1>7, <1>8, <1>9

\* The next attempt, at once or after a rest.
LEMMA ConnectOrStartConnectTimerLeads ==
    ASSUME NEW m, Good(m), Silent(m), m.state \in Runs, ~IsSettled(m), NEW env \in Conditions
    PROVE  Leads(ConnectOrStartConnectTimer(m, env), {m.state, "Reconnecting", "Stopping"})
<1>1. Still(Arm(m, {"rest"})) = Still(m)
  BY QuietHelpers DEF Good
<1>2. Silent(Arm(m, {"rest"})) /\ Arm(m, {"rest"}).state = m.state /\ m.state # "Stopping"
  BY <1>1 DEF Still, Voice, Silent, Runs
<1>3. Leads(Arm(m, {"rest"}), {m.state, "Reconnecting", "Stopping"})
  BY <1>2, SilentLeads
<1>. QED
  BY <1>3, StartAttemptLeads DEF ConnectOrStartConnectTimer

\* The restore after a wake, from any state a session sleeps in.
LEMMA RestoreLeads ==
    ASSUME NEW m, Good(m), Silent(m), NEW env \in Conditions
    PROVE  Leads(RestoreConnectionAfterWakeUp(m, env), {"Reconnecting", "WaitingForNetwork", "Stopping"})
<1>. DEFINE S == {"Reconnecting", "WaitingForNetwork", "Stopping"}
            k == Waking(m)
            w == Waiting(m)
<1>1. /\ Good(k) /\ k.state = "Reconnecting" /\ ~IsSettled(k)
      /\ Good(w) /\ w.state = "WaitingForNetwork"
  BY SetStateGood DEF Waking, Waiting
<1>2. Voice(k) = Voice(m) /\ Voice(w) = Voice(m)
  BY QuietHelpers DEF Waking, Waiting, Good, Still
<1>3. RestoreConnectionAfterWakeUp(m, env) \in
        {StartDisconnect(k), StartAttempt(k, env), Arm(w, {"cap", "poll"}), w}
  BY RestoreWays
<1>. HIDE DEF k, w
<1>4. Silent(k) /\ Silent(w)
  BY <1>2 DEF Voice, Silent
<1>5. Leads(k, S) /\ Leads(w, S)
  BY <1>1, <1>4, SilentLeads
<1>6. Leads(StartDisconnect(k), S)
  BY <1>1, <1>5, StartDisconnectLeads
<1>7. Leads(StartAttempt(k, env), S)
  <2>1. Leads(StartAttempt(k, env), {k.state, "Reconnecting", "Stopping"})
    BY <1>1, <1>4, StartAttemptLeads DEF Runs
  <2>. QED
    BY <1>1, <2>1 DEF Leads
<1>8. Leads(Arm(w, {"cap", "poll"}), S)
  <2>1. Still(Arm(w, {"cap", "poll"})) = Still(w)
    BY <1>1, QuietHelpers DEF Good
  <2>. QED
    BY <1>5, <2>1, LeadsFrame DEF Still
<1>. QED
  BY <1>3, <1>5, <1>6, <1>7, <1>8

\* A running session whose connector has ended goes on, or ends.
LEMMA AfterDeathLeads ==
    ASSUME NEW m, Good(m), Silent(m), m.state \in {"Connecting", "Reconnecting"}, NEW env \in Conditions
    PROVE  Leads(AfterDeath(m, env), {m.state, "Reconnecting", "Stopping"})
<1>. DEFINE S == {m.state, "Reconnecting", "Stopping"}
<1>1. /\ Good(Walked(m)) /\ Voice(Walked(m)) = Voice(m) /\ Walked(m).state = m.state
  BY WalkGood, QuietWalk DEF Good
<1>2. ASSUME NEW n \in {m, Walked(m)}
      PROVE  /\ Leads(Report(Disconnect(n), "itself"), S)
             /\ Leads(ConnectOrStartConnectTimer(n, env), S)
             /\ Leads(StartAttempt(EnterReconnecting(n), env), S)
  <2>1. Good(n) /\ Silent(n) /\ n.state = m.state /\ n.state \in Runs /\ ~IsSettled(n)
    BY <1>1, <1>2 DEF Voice, Silent, Runs, IsSettled
  <2>2. Leads(Report(Disconnect(n), "itself"), S)
    BY <2>1, EndLeads DEF Outcomes
  <2>3. Leads(ConnectOrStartConnectTimer(n, env), S)
    BY <2>1, ConnectOrStartConnectTimerLeads
  <2>4. Leads(StartAttempt(EnterReconnecting(n), env), S)
    <3>. DEFINE r == EnterReconnecting(n)
    <3>1. Good(r) /\ r.state = "Reconnecting" /\ Voice(r) = Voice(n)
      BY <2>1, EnterReconnectingGood, EnterReconnectingSays DEF Still
    <3>. HIDE DEF r
    <3>2. Leads(StartAttempt(r, env), {r.state, "Reconnecting", "Stopping"})
      BY <2>1, <3>1, StartAttemptLeads DEF Voice, Silent, Runs, IsSettled
    <3>3. Leads(StartAttempt(r, env), S)
      BY <3>1, <3>2 DEF Leads
    <3>. QED
      BY <3>3 DEF r
  <2>. QED
    BY <2>2, <2>3, <2>4
<1>. QED
  BY <1>2, AfterDeathWays

-----------------------------------------------------------------------------
(* The steps of a session                                                   *)

\* Where a running session may go: not up from a wait or from sleep.
Beyond(s) == (Runs \ {"Connected"}) \cup {"Stopping", s}

\* The user has stopped it, and the connector has still to stop; or it is over.
Stopped(n) ==
    /\ ~n.authPrompt
    /\ \/ n.state = "Stopping" /\ n.pending = "user" /\ n.told = <<>>
       \/ n.state = "Disconnected" /\ n.told = <<"user">>

\* The step of a session between two records: none, one that goes on or ends, a
\* beginning, the user's stop, or the outcome that was waited for.
Follows(m, n) ==
    \/ /\ n.state = m.state /\ n.told = m.told /\ n.authPrompt = m.authPrompt
       /\ m.state = "Stopping" => n.pending = m.pending
    \/ m.state \in Runs /\ Leads(n, Beyond(m.state))
    \/ m.state \in {"Connecting", "Reconnecting"} /\ Leads(n, {"Connected"})
    \/ m.state = "Disconnected" /\ Leads(n, {"Connecting", "Reconnecting"})
    \/ Stopped(n) /\ (m.state = "Stopping" => n.state = "Stopping")
    \/ /\ m.state = "Stopping" /\ n.state = "Disconnected"
       /\ IF m.pending = "authError" THEN n.authPrompt /\ n.told = <<>>
                                     ELSE ~n.authPrompt /\ n.told = <<m.pending>>

\* A step that keeps the invariant and is one of the session's.
Obeys(m, n) == Tells(n) /\ Follows(m, n)

\* What leads somewhere keeps the invariant.
LEMMA LeadsTells ==
    ASSUME NEW n, NEW S, Leads(n, S)
    PROVE  Tells(n)
BY DEF Leads, Tells

\* A running session that leads on obeys.
LEMMA LeadsObeys ==
    ASSUME NEW m, m.state \in Runs, NEW n, NEW S, S \subseteq Beyond(m.state), Leads(n, S)
    PROVE  Obeys(m, n)
<1>1. Leads(n, Beyond(m.state))
  BY LeadsMore
<1>. QED
  BY <1>1, LeadsTells DEF Obeys, Follows

\* What says nothing new obeys.
LEMMA StillObeys ==
    ASSUME NEW m, Tells(m), NEW n, n.state = m.state, n.told = m.told, n.authPrompt = m.authPrompt,
           n.pending = m.pending, n.walk.kind = "custom" <=> m.walk.kind = "custom", n.conn = "none" => m.conn = "none"
    PROVE  Obeys(m, n)
BY DEF Obeys, Follows, Tells, Stoppable

\* The same for a record that is still.
LEMMA QuietObeys ==
    ASSUME NEW m, Tells(m), NEW n, n.state = m.state, Voice(n) = Voice(m), n.conn = "none" => m.conn = "none"
    PROVE  Obeys(m, n)
BY StillObeys DEF Voice

\* A session that runs is silent; so is one that was stopped.
LEMMA RunsSilent ==
    ASSUME NEW m, Tells(m), m.state # "Disconnected"
    PROVE  Silent(m)
BY DEF Tells, Silent

\* clickDisconnect() stops the session, or ends it where there is nothing to stop.
LEMMA ClickStops ==
    ASSUME NEW m, Good(m), Silent(m), Stoppable(m)
    PROVE  /\ Stopped(Click(m)) /\ Tells(Click(m))
           /\ m.state = "Stopping" => Click(m).state = "Stopping"
<1>. DEFINE n == Click(m)
<1>0. m \in TypeOfManager /\ "user" \in Outcomes
  BY DEF Good, Outcomes
<1>1. CASE m.state = "Stopping" /\ m.pending = "user"
  <2>1. n = m
    BY <1>1 DEF Click
  <2>. QED
    BY <1>1, <2>1 DEF Stopped, Tells, Silent
<1>2. CASE ~(m.state = "Stopping" /\ m.pending = "user") /\ m.conn # "none"
  <2>. DEFINE s == Stop(m, "user")
  <2>1. Good(s) /\ s.state = "Stopping" /\ s.pending = "user" /\ s.conn # "none" /\ Silent(s)
    BY <1>0, <1>2, StopGood, StopSays DEF Silent
  <2>2. n = StartDisconnect(s)
    BY <1>2 DEF Click
  <2>. HIDE DEF s
  <2>3. Still(n) = Still(s)
    BY <2>1, <2>2, QuietConnector DEF Good
  <2>. HIDE DEF n
  <2>4. n.state = "Stopping" /\ n.pending = "user" /\ n.conn # "none" /\ Silent(n)
    BY <2>1, <2>3 DEF Still, Voice, Silent
  <2>. QED
    BY <2>4 DEF n, Stopped, Tells, Silent, Stoppable
<1>3. CASE ~(m.state = "Stopping" /\ m.pending = "user") /\ m.conn = "none"
  <2>. DEFINE d == Disconnect(m)
              w == ResetWalk(d)
  <2>1. Good(d) /\ d.state = "Disconnected" /\ Voice(d) = Voice(m)
    BY <1>0, DisconnectGood, QuietHelpers DEF Good, Still
  <2>. HIDE DEF d
  <2>2. Good(w) /\ w.state = "Disconnected" /\ Voice(w) = Voice(m)
    BY <2>1, ResetWalkGood, QuietWalk DEF Good
  <2>3. n = Report(w, "user")
    BY <1>3 DEF Click, d
  <2>. HIDE DEF w, n
  <2>4. Silent(w)
    BY <2>2 DEF Voice, Silent
  <2>5. n.told = <<"user">> /\ n.state = w.state /\ n.authPrompt = w.authPrompt /\ n.blocking = w.blocking
    BY <2>2, <2>3, <2>4, ReportSays DEF Good, Silent
  <2>6. m.state # "Stopping"
    BY <1>3 DEF Stoppable
  <2>. QED
    BY <2>2, <2>4, <2>5, <2>6 DEF n, Stopped, Tells, Silent, Stoppable
<1>. QED
  BY <1>1, <1>2, <1>3

\* The end a stop waited for reports its outcome, or asks.
LEMMA ReportPendingSays ==
    ASSUME NEW m, Good(m), Silent(m), m.pending = "authError" => m.walk.kind = "custom"
    PROVE  LET n == ReportPending(m) IN
           /\ Tells(n) /\ n.state = "Disconnected"
           /\ IF m.pending = "authError" THEN n.authPrompt /\ n.told = <<>>
                                         ELSE ~n.authPrompt /\ n.told = <<m.pending>>
<1>. DEFINE d == Disconnect(m)
            w == ResetWalk(d)
            n == ReportPending(m)
<1>1. Good(d) /\ d.state = "Disconnected" /\ Voice(d) = Voice(m)
  BY DisconnectGood, QuietHelpers DEF Good, Still
<1>2. \/ m.pending = "user" /\ n = Report(w, "user")
      \/ m.pending = "authError" /\ n = [d EXCEPT !.authPrompt = TRUE]
      \/ m.pending \notin {"user", "authError"} /\ n = Report(d, m.pending)
  BY DEF ReportPending
<1>. HIDE DEF d, n
<1>3. Good(w) /\ w.state = "Disconnected" /\ Voice(w) = Voice(m)
  BY <1>1, ResetWalkGood, QuietWalk DEF Good
<1>. HIDE DEF w
<1>4. Silent(w) /\ Silent(d) /\ d.walk.kind = m.walk.kind
  BY <1>1, <1>3 DEF Voice, Silent
<1>5. CASE m.pending = "user" /\ n = Report(w, "user")
  <2>1. n.told = <<"user">> /\ n.state = w.state /\ n.authPrompt = w.authPrompt /\ n.blocking = w.blocking
    BY <1>3, <1>4, <1>5, ReportSays DEF Good, Silent
  <2>. QED
    BY <1>3, <1>4, <1>5, <2>1 DEF n, Tells, Silent, Stoppable
<1>6. CASE m.pending \notin {"user", "authError"} /\ n = Report(d, m.pending)
  <2>1. n.told = <<m.pending>> /\ n.state = d.state /\ n.authPrompt = d.authPrompt /\ n.blocking = d.blocking
    BY <1>1, <1>4, <1>6, ReportSays DEF Good, Silent
  <2>. QED
    BY <1>1, <1>4, <1>6, <2>1 DEF n, Tells, Silent, Stoppable
<1>7. CASE m.pending = "authError" /\ n = [d EXCEPT !.authPrompt = TRUE]
  <2>1. /\ n.authPrompt = TRUE /\ n.told = d.told /\ n.state = d.state
        /\ n.blocking = d.blocking /\ n.walk = d.walk
    BY <1>1, <1>7 DEF Good, TypeOfManager
  <2>. QED
    BY <1>1, <1>4, <1>7, <2>1 DEF n, Tells, Silent, Stoppable
<1>. QED
  BY <1>2, <1>5, <1>6, <1>7

\* The configuration that is forgotten says nothing.
LEMMA ClearedSays ==
    ASSUME NEW m \in TypeOfManager, NEW b
    PROVE  LET n == ClearCachedConfigIfExhausted(m, b) IN
           n.state = m.state /\ Voice(n) = Voice(m) /\ n.conn = m.conn
<1>1. ForgetCachedConfig(m.walk).kind = m.walk.kind
  BY ThriftyUpdates DEF Thrifty, TypeOfManager
<1>. DEFINE w == ForgetCachedConfig(m.walk)
            c == [m EXCEPT !.stored = FALSE, !.walk = w]
<1>2. ClearCachedConfigIfExhausted(m, b) = c \/ ClearCachedConfigIfExhausted(m, b) = m
  BY DEF ClearCachedConfigIfExhausted
<1>. HIDE DEF w
<1>3. c.state = m.state /\ Voice(c) = Voice(m) /\ c.conn = m.conn
  BY <1>1 DEF w, Voice, TypeOfManager
<1>. QED
  BY <1>2, <1>3

-----------------------------------------------------------------------------
(* The signals of the connector                                             *)

\* A signal taken from the queue says nothing by itself.
LEMMA TakenSays ==
    ASSUME Good(cm), Tells(cm), cm.queue # <<>>
    PROVE  /\ Good(Taken) /\ Taken.state = cm.state /\ Taken.conn = cm.conn /\ Voice(Taken) = Voice(cm)
           /\ Head(cm.queue) \in Signals /\ (Head(cm.queue).current => cm.conn # "none")
           /\ cm.state # "Disconnected" => Silent(Taken)
           /\ Obeys(cm, Taken)
<1>1. /\ Good(Taken) /\ Taken.state = cm.state /\ Taken.conn = cm.conn
      /\ Head(cm.queue) \in Signals /\ (Head(cm.queue).current => cm.conn # "none")
  BY TakenGood
<1>2. Voice(Taken) = Voice(cm)
  BY DEF Taken, Good, Voice, TypeOfManager
<1>3. cm.state # "Disconnected" => Silent(Taken)
  BY <1>2, RunsSilent DEF Voice, Silent
<1>. QED
  BY <1>1, <1>2, <1>3, QuietObeys

\* onConnectionDisconnected() obeys.
LEMMA DisconnectedSlotObeys ==
    ASSUME Good(cm), Tells(cm), online \in BOOLEAN, OnConnectionDisconnected
    PROVE  Obeys(cm, cm')
<1>. DEFINE r == Retire(Taken)
            m == Disarm(r, {"poll", "connecting"})
<1>1. Good(Taken) /\ Taken.state = cm.state /\ Voice(Taken) = Voice(cm)
      /\ (cm.state # "Disconnected" => Silent(Taken)) /\ cm.conn # "none"
  BY TakenSays DEF OnConnectionDisconnected, Received
<1>2. /\ r \in TypeOfManager /\ Owned(r) /\ r.state = cm.state /\ r.conn = "none"
      /\ Voice(r) = Voice(cm) /\ r.timers = Taken.timers
  BY <1>1, RetireFacts, QuietConnector DEF Good, Still
<1>3. PICK env \in Now :
        cm' = CASE m.state = "Stopping" -> ReportPending(m)
                [] m.state = "Connected" -> StartAttempt(EnterReconnecting(m), env)
                [] m.state \in {"Connecting", "Reconnecting"} -> AfterDeath(m, env)
                [] m.state = "WaitingForNetwork" -> Arm(m, {"cap", "poll"})
                [] OTHER -> m
  BY DEF OnConnectionDisconnected
<1>4. env \in Conditions
  BY <1>3, NowConditions
<1>. HIDE DEF r
<1>5. /\ m \in TypeOfManager /\ m.state = cm.state /\ m.conn = "none" /\ Voice(m) = Voice(cm)
      /\ Owned(m) /\ m.timers = Taken.timers \ {"poll", "connecting"}
  <2>1. m \in TypeOfManager
    BY <1>2, ArmType DEF Timers
  <2>2. Still(m) = Still(r) /\ m.conn = r.conn /\ m.timers = r.timers \ {"poll", "connecting"}
        /\ m.queue = r.queue /\ m.prep = r.prep
    BY <1>2, QuietHelpers DEF Disarm, TypeOfManager
  <2>. HIDE DEF m
  <2>. QED
    BY <1>2, <2>1, <2>2 DEF Still, Owned
<1>. HIDE DEF m
<1>6. m.state # "Connected" => Good(m)
  BY <1>1, <1>5 DEF Good, Quiet, Manned, IsSettled
<1>7. cm.state # "Disconnected" => Silent(m)
  BY <1>1, <1>5 DEF Voice, Silent
<1>8. CASE m.state = "Stopping"
  <2>1. cm' = ReportPending(m)
    BY <1>3, <1>8
  <2>2. m.pending = cm.pending /\ (m.pending = "authError" => m.walk.kind = "custom")
    BY <1>5, <1>8 DEF Voice, Tells, Stoppable
  <2>. DEFINE n == ReportPending(m)
  <2>3. /\ Tells(n) /\ n.state = "Disconnected"
        /\ IF m.pending = "authError" THEN n.authPrompt /\ n.told = <<>>
                                      ELSE ~n.authPrompt /\ n.told = <<m.pending>>
    BY <1>5, <1>6, <1>7, <1>8, <2>2, ReportPendingSays
  <2>. HIDE DEF n
  <2>4. Obeys(cm, n)
    BY <1>5, <1>8, <2>2, <2>3 DEF Obeys, Follows
  <2>. QED
    BY <2>1, <2>4 DEF n
<1>9. CASE m.state = "Connected"
  <2>. DEFINE t == EnterReconnecting(m)
  <2>1. Good(t) /\ t.state = "Reconnecting"
    BY <1>5, TryAgainGood
  <2>2. Silent(t)
    <3>1. SetState(m, "Reconnecting", "Regular") \in TypeOfManager
      BY <1>5, SetStateType DEF States
    <3>2. Voice(t) = Voice(m)
      BY <1>5, <3>1, QuietHelpers DEF EnterReconnecting, Still
    <3>. QED
      BY <1>5, <1>7, <1>9, <3>2 DEF Voice, Silent
  <2>3. cm' = StartAttempt(t, env)
    BY <1>3, <1>9
  <2>. HIDE DEF t
  <2>4. Leads(cm', {t.state, "Reconnecting", "Stopping"})
    BY <1>4, <2>1, <2>2, <2>3, StartAttemptLeads DEF Runs, IsSettled
  <2>5. cm.state \in Runs /\ {t.state, "Reconnecting", "Stopping"} \subseteq Beyond(cm.state)
    BY <1>5, <1>9, <2>1 DEF Runs, Beyond
  <2>. QED
    BY <2>4, <2>5, LeadsObeys
<1>10. CASE m.state \in {"Connecting", "Reconnecting"}
  <2>1. cm' = AfterDeath(m, env)
    BY <1>3, <1>10
  <2>2. Leads(cm', {m.state, "Reconnecting", "Stopping"})
    BY <1>4, <1>5, <1>6, <1>7, <1>10, <2>1, AfterDeathLeads
  <2>3. cm.state \in Runs /\ {m.state, "Reconnecting", "Stopping"} \subseteq Beyond(cm.state)
    BY <1>5, <1>10 DEF Runs, Beyond
  <2>. QED
    BY <2>2, <2>3, LeadsObeys
<1>11. CASE m.state = "WaitingForNetwork"
  <2>1. cm' = Arm(m, {"cap", "poll"})
    BY <1>3, <1>11
  <2>2. Still(cm') = Still(m)
    BY <1>5, <2>1, QuietHelpers
  <2>3. Silent(cm') /\ cm'.state = m.state
    BY <1>5, <1>7, <1>11, <2>2 DEF Still, Voice, Silent
  <2>4. Leads(cm', {m.state})
    BY <1>11, <2>3, SilentLeads
  <2>5. cm.state \in Runs /\ {m.state} \subseteq Beyond(cm.state)
    BY <1>5, <1>11 DEF Runs, Beyond
  <2>. QED
    BY <2>4, <2>5, LeadsObeys
<1>12. CASE m.state \notin {"Stopping", "Connected", "Connecting", "Reconnecting", "WaitingForNetwork"}
  <2>1. cm' = m
    BY <1>3, <1>12
  <2>2. Stoppable(m) /\ cm.state # "Stopping"
    BY <1>5, <1>12 DEF Stoppable
  <2>3. /\ m.told = cm.told /\ m.authPrompt = cm.authPrompt /\ m.blocking = cm.blocking
        /\ m.pending = cm.pending /\ m.walk.kind = cm.walk.kind /\ m.state = cm.state
    BY <1>5 DEF Voice
  <2>4. Tells(m)
    BY <2>2, <2>3 DEF Tells
  <2>. QED
    BY <2>1, <2>2, <2>3, <2>4 DEF Obeys, Follows
<1>. QED
  BY <1>8, <1>9, <1>10, <1>11, <1>12

\* onConnectionError() obeys.
LEMMA ErrorSlotObeys ==
    ASSUME Good(cm), Tells(cm), OnConnectionError
    PROVE  Obeys(cm, cm')
<1>. DEFINE err == Head(cm.queue).err
            c == Cleared
            tunnel == (err = "kTunnelEstablishmentFailure")
            s == Seen(c)
<1>1. /\ Good(Taken) /\ Taken.state = cm.state /\ Taken.conn = cm.conn /\ Voice(Taken) = Voice(cm)
      /\ Obeys(cm, Taken) /\ Head(cm.queue) \in Signals /\ cm.conn # "none"
  BY TakenSays DEF OnConnectionError, Received
<1>2. Good(c) /\ c.state = cm.state /\ c.conn # "none" /\ Voice(c) = Voice(cm)
  <2>1. tunnel \in BOOLEAN /\ c = ClearCachedConfigIfExhausted(Taken, tunnel)
    BY DEF Cleared
  <2>. HIDE DEF tunnel, c
  <2>. QED
    BY <1>1, <2>1, ClearCachedConfigGood, ClearedSays DEF Good
<1>3. Obeys(cm, c)
  BY <1>2, QuietObeys
<1>4. /\ Good(s) /\ s.state = cm.state /\ s.conn # "none" /\ Voice(s) = Voice(cm)
  BY <1>2, WalkGood, QuietHelpers DEF Good, Still
<1>. HIDE DEF c, s
<1>5. SUFFICES ASSUME ~IsSettled(cm) PROVE Obeys(cm, cm')
  BY <1>1, ErrorWays DEF Good
<1>6. cm.state \in Runs /\ Silent(cm) /\ Silent(c) /\ Silent(s)
  <2>1. cm.state \in States
    BY DEF Good, TypeOfManager
  <2>2. cm.state \in Runs /\ Silent(cm)
    BY <1>5, <2>1, RunsSilent DEF IsSettled, States, Runs
  <2>. QED
    BY <1>2, <1>4, <2>2 DEF Voice, Silent
<1>7. ASSUME NEW n, Good(n), NEW S, Leads(n, S) PROVE Leads(Dropped(n), S)
  BY <1>7, StartDisconnectLeads DEF Dropped
<1>8. ASSUME NEW o \in {"error", "authError"}, o = "authError" => c.walk.kind = "custom"
      PROVE  Obeys(cm, Dropped(Stop(c, o)))
  <2>. DEFINE n == Stop(c, o)
  <2>1. Good(n)
    BY <1>2, StopGood DEF Outcomes
  <2>2. /\ n.state = "Stopping" /\ n.pending = o /\ n.told = c.told /\ n.authPrompt = c.authPrompt
        /\ n.blocking = c.blocking /\ n.conn = c.conn /\ n.walk = c.walk
    BY <1>2, StopSays DEF Good
  <2>. HIDE DEF n
  <2>3. Leads(n, {"Stopping"})
    BY <1>2, <1>6, <1>8, <2>2 DEF Leads, Stoppable, Silent
  <2>4. Leads(Dropped(n), {"Stopping"})
    BY <1>7, <2>1, <2>3
  <2>. QED
    BY <1>6, <2>4, LeadsObeys DEF Beyond, n
<1>9. Obeys(cm, Report(Disconnect(c), "error"))
  <2>1. Leads(Report(Disconnect(c), "error"), {})
    BY <1>2, <1>6, EndLeads DEF Outcomes
  <2>. QED
    BY <1>6, <2>1, LeadsObeys
<1>10. Obeys(cm, Dropped(EnterReconnecting(s)))
  <2>. DEFINE n == EnterReconnecting(s)
  <2>1. Good(n) /\ n.state = "Reconnecting" /\ Voice(n) = Voice(s)
    BY <1>4, EnterReconnectingGood, EnterReconnectingSays DEF Still
  <2>. HIDE DEF n
  <2>2. Leads(n, {"Reconnecting"})
    BY <1>6, <2>1, SilentLeads DEF Voice, Silent
  <2>3. Leads(Dropped(n), {"Reconnecting"})
    BY <1>7, <2>1, <2>2
  <2>. QED
    BY <1>6, <2>3, LeadsObeys DEF Beyond, Runs, n
<1>11. Obeys(cm, HandleAttemptFailed(s, err # "kAuthFailure"))
  <2>1. (err # "kAuthFailure") \in BOOLEAN
    OBVIOUS
  <2>2. Leads(HandleAttemptFailed(s, err # "kAuthFailure"), {"Reconnecting", "Stopping"})
    BY <1>4, <1>6, <2>1, HandleAttemptFailedLeads
  <2>. QED
    BY <1>6, <2>2, LeadsObeys DEF Beyond, Runs
<1>. QED
  BY <1>1, <1>3, <1>5, <1>8, <1>9, <1>10, <1>11, ErrorWays DEF Good, c, s

\* The connector's signals obey.
LEMMA SlotsObey ==
    ASSUME Good(cm), Tells(cm), online \in BOOLEAN, Slots
    PROVE  Obeys(cm, cm')
<1>. DEFINE t == Taken
<1>1. ASSUME cm.queue # <<>>
      PROVE  /\ Good(t) /\ t.state = cm.state /\ t.conn = cm.conn /\ Voice(t) = Voice(cm)
             /\ (Head(cm.queue).current => cm.conn # "none")
             /\ (cm.state # "Disconnected" => Silent(t)) /\ Obeys(cm, t)
  BY <1>1, TakenSays
<1>2. cm.state \in States /\ (IsAttemptActive(cm) => cm.state \in Runs /\ cm.state # "Connected")
  BY DEF Good, TypeOfManager, IsAttemptActive, Runs
<1>3. CASE IgnoreRetiredConnector
  BY <1>1, <1>3 DEF IgnoreRetiredConnector
<1>4. CASE OnConnectionPrepared
  <2>. DEFINE n == [t EXCEPT !.conn = "starting", !.dialed = TRUE]
  <2>1. cm.queue # <<>> /\ Head(cm.queue).current /\ cm' \in {n, t}
    BY <1>4 DEF OnConnectionPrepared, Received
  <2>. HIDE DEF t
  <2>2. Good(t)
    BY <1>1, <2>1
  <2>3. n.state = t.state /\ Voice(n) = Voice(t) /\ n.conn # "none"
    BY <2>2 DEF Good, TypeOfManager, Voice
  <2>. HIDE DEF n
  <2>4. Obeys(cm, n)
    BY <1>1, <2>1, <2>3, QuietObeys
  <2>. QED
    BY <1>1, <2>1, <2>4
<1>5. CASE OnConnectionPrepareFailed
  <2>1. cm.queue # <<>> /\ Head(cm.queue).current
    BY <1>5 DEF OnConnectionPrepareFailed, Received
  <2>2. \/ cm' = t
        \/ IsAttemptActive(cm) /\ cm' \in {StartFailoverReconnect(t), FailWithError(t)}
    BY <1>5 DEF OnConnectionPrepareFailed
  <2>. HIDE DEF t
  <2>3. CASE IsAttemptActive(cm)
    <3>1. Silent(t) /\ Good(t) /\ t.conn # "none" /\ cm.state \in Runs
      BY <1>1, <1>2, <2>1, <2>3 DEF Runs
    <3>2. Leads(StartFailoverReconnect(t), {"Reconnecting", "Stopping"}) /\ Leads(FailWithError(t), {})
      BY <3>1, StartFailoverReconnectLeads, FailWithErrorLeads
    <3>3. Obeys(cm, StartFailoverReconnect(t)) /\ Obeys(cm, FailWithError(t))
      BY <3>1, <3>2, LeadsObeys DEF Beyond, Runs
    <3>. QED
      BY <1>1, <2>1, <2>2, <3>3
  <2>. QED
    BY <1>1, <2>1, <2>2, <2>3
<1>6. CASE OnConnectionUserInputRequired
  <2>. DEFINE d == Disarm(t, {"connecting"})
              n == [d EXCEPT !.keyPrompt = TRUE]
  <2>1. cm.queue # <<>> /\ cm' \in {n, t}
    BY <1>6 DEF OnConnectionUserInputRequired, Received
  <2>. HIDE DEF t
  <2>2. Good(d) /\ d.conn = t.conn /\ d.state = t.state /\ Voice(d) = Voice(t)
    BY <1>1, <2>1, DisarmGood, QuietHelpers DEF Timers, Good, Still
  <2>. HIDE DEF d
  <2>3. n.state = d.state /\ Voice(n) = Voice(d) /\ n.conn = d.conn
    BY <2>2 DEF Good, TypeOfManager, Voice
  <2>. HIDE DEF n
  <2>4. Obeys(cm, n)
    BY <1>1, <2>1, <2>2, <2>3, QuietObeys
  <2>. QED
    BY <1>1, <2>1, <2>4
<1>7. CASE OnConnectionConnected
  <2>. DEFINE d == Disarm(t, {"cap", "connecting"})
              n == SetState(d, "Connected", "Regular")
  <2>1. /\ cm.queue # <<>>
        /\ cm' = t \/ (cm.state \in {"Connecting", "Reconnecting", "Connected"} /\ cm' = n)
    BY <1>7 DEF OnConnectionConnected, Received
  <2>. HIDE DEF t
  <2>2. Good(d) /\ Voice(d) = Voice(t)
    BY <1>1, <2>1, DisarmGood, QuietHelpers DEF Timers, Good, Still
  <2>. HIDE DEF d
  <2>3. n.state = "Connected" /\ Voice(n) = Voice(d)
    BY <2>2, QuietHelpers DEF Good, Still
  <2>. HIDE DEF n
  <2>4. ASSUME cm.state \in {"Connecting", "Reconnecting", "Connected"} PROVE Obeys(cm, n)
    <3>1. Silent(n)
      BY <1>1, <2>1, <2>2, <2>3, <2>4 DEF Voice, Silent
    <3>2. Leads(n, {"Connected"})
      BY <2>3, <3>1, SilentLeads
    <3>3. Tells(n)
      BY <3>2, LeadsTells
    <3>4. cm.state = "Connected" => Obeys(cm, n)
      BY <3>2, LeadsObeys DEF Runs, Beyond
    <3>. QED
      BY <2>4, <3>2, <3>3, <3>4 DEF Obeys, Follows
  <2>. QED
    BY <1>1, <2>1, <2>4
<1>8. CASE OnConnectionReconnecting
  <2>1. cm.queue # <<>> /\ Head(cm.queue).current /\ cm' = HandleReconnecting(t)
    BY <1>8 DEF OnConnectionReconnecting, Received
  <2>. HIDE DEF t
  <2>2. CASE cm.state \in Runs
    <3>1. Leads(cm', {t.state, "Reconnecting", "Stopping"})
      BY <1>1, <2>1, <2>2, HandleReconnectingLeads DEF Runs
    <3>. QED
      BY <1>1, <2>1, <2>2, <3>1, LeadsObeys DEF Beyond, Runs
  <2>3. CASE cm.state \notin Runs
    <3>1. cm' \in {t, Seen(t)}
      BY <1>1, <2>1, <2>3 DEF HandleReconnecting, Seen, Runs, Good, TypeOfManager
    <3>2. Still(Seen(t)) = Still(t)
      BY <1>1, <2>1, QuietHelpers DEF Good
    <3>3. Obeys(cm, Seen(t))
      BY <1>1, <2>1, <3>2, QuietObeys DEF Still
    <3>. QED
      BY <1>1, <2>1, <3>1, <3>3
  <2>. QED
    BY <2>2, <2>3
<1>. QED
  BY <1>3, <1>4, <1>5, <1>6, <1>7, <1>8, DisconnectedSlotObeys, ErrorSlotObeys DEF Slots

-----------------------------------------------------------------------------
(* The public methods                                                       *)

\* An automatic walk attempts an even number of times, if any.
LEMMA AutoAttemptsEven ==
    ASSUME NEW a, NEW u
    PROVE  \E k \in Nat : Len(AutoAttempts(a, u)) = 2 * k /\ (k = 0 => AutoAttempts(a, u) = <<>>)
<1>. DEFINE Allowed(p) == /\ ~(ProxyEnabled /\ p = "openvpn_udp")
                          /\ ~LockdownBlocks(p)
                          /\ ~(a /\ ~u /\ p = "wireguard")
            kept == SelectSeq(PortMap, Allowed)
            k == Len(kept)
            f == [i \in 1 .. 2 * k |-> kept[(i + 1) \div 2]]
<1>1. AutoAttempts(a, u) = f
  BY DEF AutoAttempts
<1>2. k \in Nat
  OBVIOUS
<1>. HIDE DEF kept, k
<1>3. Len(f) = 2 * k
  BY <1>2
<1>4. k = 0 => f = <<>>
  BY <1>2
<1>. QED
  BY <1>1, <1>2, <1>3, <1>4

\* The first failure of a new walk is not its last.
LEMMA NewWalkHopeful ==
    ASSUME NEW m \in TypeOfManager, NEW kind \in Kinds
    PROVE  Hopeful(NewWalk(m, kind)) /\ NewWalk(m, kind).walk.kind = kind
<1>. DEFINE w == CreateStrategy(kind, m.alwaysOnPlus, m.stored)
            n == [m EXCEPT !.walk = w]
<1>0. NewWalk(m, kind) = n
  BY DEF NewWalk
<1>1. /\ w.kind = kind /\ w.pos = 0 /\ w.allFailed = FALSE
      /\ kind = "auto" => w.attempts = AutoAttempts(m.alwaysOnPlus, m.stored)
  BY DEF CreateStrategy
<1>2. w \in Strategy
  BY CreateStrategyType DEF TypeOfManager
<1>. HIDE DEF w
<1>3. n.walk = w
  BY DEF TypeOfManager
<1>. HIDE DEF n
<1>4. ASSUME w.kind = "auto", w.attempts # <<>>
      PROVE  ~IsFailed(PutFailedConnection(w))
  <2>1. PICK k \in Nat : Len(w.attempts) = 2 * k /\ (k = 0 => w.attempts = <<>>)
    BY <1>1, <1>4, AutoAttemptsEven
  <2>2. Len(w.attempts) # 0
    BY <1>4, <2>1
  <2>3. w.pos < Len(w.attempts) - 1
    BY <1>1, <2>1, <2>2
  <2>4. PutFailedConnection(w) = [w EXCEPT !.pos = w.pos + 1]
    BY <1>4, <2>3 DEF PutFailedConnection
  <2>5. PutFailedConnection(w).kind = "auto" /\ PutFailedConnection(w).allFailed = FALSE
    BY <1>1, <1>2, <1>4, <2>4 DEF Strategy
  <2>. QED
    BY <2>5 DEF IsFailed
<1>5. w.kind = "auto" => w.attempts = <<>> \/ ~RecordFailure(w, n.succeeded).giveUp
  BY <1>4 DEF RecordFailure
<1>. QED
  BY <1>0, <1>1, <1>3, <1>5 DEF Hopeful

\* A session begins: an attempt that is not given up at once, or its end.
LEMMA BeginObeys ==
    ASSUME NEW m, m.state = "Disconnected",
           NEW c, Good(c), Silent(c), c.state = "Connecting", Hopeful(c), NEW env \in Conditions
    PROVE  Obeys(m, StartAttempt(c, env))
<1>. DEFINE n == StartAttempt(c, env)
<1>1. Leads(n, {c.state, "Reconnecting", "Stopping"}) /\ n.state # "Stopping"
  BY StartAttemptLeads DEF Runs, IsSettled
<1>. HIDE DEF n
<1>2. Leads(n, {"Connecting", "Reconnecting"})
  BY <1>1 DEF Leads
<1>3. Obeys(m, n)
  BY <1>2, LeadsTells DEF Obeys, Follows
<1>. QED
  BY <1>3 DEF n

\* clickConnect() obeys.
LEMMA ClickConnectObeys ==
    ASSUME Good(cm), Tells(cm), online \in BOOLEAN, NEW kind \in Kinds, ClickConnect(kind)
    PROVE  Obeys(cm, cm')
<1>. DEFINE s == SetState(cm, "Connecting", "Regular")
            c == [s EXCEPT !.succeeded = FALSE, !.resolving = FALSE, !.authPrompt = FALSE, !.told = <<>>]
            r == Retire(c)
            n == NewWalk(r, kind)
<1>1. Good(s) /\ s.state = "Connecting" /\ s.timers = cm.timers /\ cm.timers = {} /\ cm.state = "Disconnected"
  BY SetStateGood DEF ClickConnect, Good, Quiet, IsSettled
<1>2. s.blocking = FALSE
  BY QuietHelpers DEF Good, Still, Voice, ClickConnect, Tells
<1>. HIDE DEF s
<1>3. <<>> \in Seq(Outcomes)
  OBVIOUS
<1>4. c \in TypeOfManager /\ c.state = "Connecting" /\ c.timers = {} /\ Silent(c)
  BY <1>1, <1>2, <1>3 DEF Good, TypeOfManager, Silent
<1>. HIDE DEF c
<1>5. r \in TypeOfManager /\ Owned(r) /\ r.state = "Connecting" /\ r.timers = {} /\ Silent(r)
  BY <1>4, RetireFacts, RetireFrame, QuietConnector DEF Still, Voice, Silent
<1>6. Good(r)
  BY <1>5 DEF Good, Quiet, Manned
<1>. HIDE DEF r
<1>7. Good(n) /\ n.state = "Connecting" /\ Hopeful(n)
  BY <1>5, <1>6, NewWalkGood, NewWalkHopeful
<1>8. Silent(n)
  BY <1>5 DEF NewWalk, Silent, TypeOfManager
<1>9. PICK env \in Now : cm' = StartAttempt(n, env)
  BY DEF ClickConnect, s, c, r
<1>. HIDE DEF n
<1>. QED
  BY <1>1, <1>7, <1>8, <1>9, NowConditions, BeginObeys

\* The answer to the credentials question obeys.
LEMMA ForwardUserInputObeys ==
    ASSUME Good(cm), Tells(cm), online \in BOOLEAN, ForwardUserInputOrReconnect
    PROVE  Obeys(cm, cm')
<1>. DEFINE s == SetState(cm, "Connecting", "Regular")
            c == [s EXCEPT !.succeeded = FALSE, !.authPrompt = FALSE]
<1>1. cm.state = "Disconnected" /\ cm.told = <<>> /\ cm.blocking = FALSE /\ cm.walk.kind = "custom"
  BY DEF ForwardUserInputOrReconnect, Tells
<1>2. Good(s) /\ s.state = "Connecting"
  BY SetStateGood, <1>1 DEF Good, Quiet, IsSettled
<1>3. s.told = <<>> /\ s.blocking = FALSE /\ s.walk.kind = "custom"
  BY <1>1, QuietHelpers DEF Good, Still, Voice
<1>4. PICK env \in Now : cm' = StartAttempt(c, env)
  BY DEF ForwardUserInputOrReconnect
<1>. HIDE DEF s
<1>5. /\ c \in TypeOfManager /\ c.state = s.state /\ c.conn = s.conn /\ c.timers = s.timers
      /\ c.prep = s.prep /\ c.queue = s.queue
      /\ c.told = s.told /\ c.blocking = s.blocking /\ c.walk = s.walk /\ c.authPrompt = FALSE
  BY <1>2 DEF Good, TypeOfManager
<1>. HIDE DEF c
<1>6. Good(c)
  BY <1>2, <1>5, SameGood
<1>7. Silent(c) /\ Hopeful(c) /\ c.state = "Connecting"
  BY <1>2, <1>3, <1>5 DEF Silent, Hopeful
<1>. QED
  BY <1>1, <1>4, <1>6, <1>7, NowConditions, BeginObeys

\* updateConnectionSettings() obeys.
LEMMA SettingsObey ==
    ASSUME Good(cm), Tells(cm), NEW kind \in Kinds, UpdateConnectionSettings(kind)
    PROVE  Obeys(cm, cm')
<1>. DEFINE c == [cm EXCEPT !.resolving = cm.resolving /\ kind = "custom"]
            n == NewWalk(c, kind)
            e == EnterReconnecting(n)
<1>1. Good(c) /\ c.state = cm.state /\ Voice(c) = Voice(cm) /\ c.conn = cm.conn
  <2>1. Good(c)
    BY DEF Good, Quiet, Manned, Owned, IsSettled, TypeOfManager
  <2>2. c.state = cm.state /\ Voice(c) = Voice(cm) /\ c.conn = cm.conn
    BY DEF Good, Voice, TypeOfManager
  <2>. QED
    BY <2>1, <2>2
<1>2. /\ cm' = n \/ (cm' = StartDisconnect(e) /\ n.state \in {"Connecting", "Connected"})
      /\ kind = "custom" <=> cm.walk.kind = "custom"
  BY DEF UpdateConnectionSettings
<1>. HIDE DEF c
<1>3. Good(n) /\ n.state = c.state /\ n.walk.kind = kind
  BY <1>1, NewWalkGood, NewWalkHopeful DEF Good
<1>4. /\ n.told = c.told /\ n.authPrompt = c.authPrompt /\ n.blocking = c.blocking
      /\ n.pending = c.pending /\ n.conn = c.conn
  BY <1>1 DEF NewWalk, Good, TypeOfManager
<1>. HIDE DEF n
<1>5. n.told = cm.told /\ n.authPrompt = cm.authPrompt /\ n.blocking = cm.blocking
      /\ n.pending = cm.pending /\ n.conn = cm.conn /\ n.state = cm.state
  BY <1>1, <1>3, <1>4 DEF Voice
<1>6. Obeys(cm, n)
  BY <1>2, <1>3, <1>5, StillObeys
<1>7. ASSUME n.state \in {"Connecting", "Connected"} PROVE Obeys(cm, StartDisconnect(e))
  <2>1. Good(e) /\ e.state = "Reconnecting" /\ Voice(e) = Voice(n)
    BY <1>3, EnterReconnectingGood, EnterReconnectingSays DEF Still
  <2>. HIDE DEF e
  <2>2. Silent(e)
    <3>1. Silent(cm)
      BY <1>5, <1>7, RunsSilent
    <3>. QED
      BY <1>5, <2>1, <3>1 DEF Voice, Silent
  <2>3. Leads(e, {"Reconnecting"})
    BY <2>1, <2>2, SilentLeads
  <2>4. Leads(StartDisconnect(e), {"Reconnecting"})
    BY <2>1, <2>3, StartDisconnectLeads
  <2>5. cm.state \in Runs /\ {"Reconnecting"} \subseteq Beyond(cm.state)
    BY <1>5, <1>7 DEF Runs, Beyond
  <2>. QED
    BY <2>4, <2>5, LeadsObeys DEF e
<1>. QED
  BY <1>2, <1>6, <1>7

\* A stop by the user obeys, from any record that says as much.
LEMMA ClickObeys ==
    ASSUME Good(cm), NEW c, Good(c), Silent(c), Stoppable(c), c.state = cm.state
    PROVE  Obeys(cm, Click(c))
<1>1. Stopped(Click(c)) /\ Tells(Click(c)) /\ (c.state = "Stopping" => Click(c).state = "Stopping")
  BY ClickStops
<1>. QED
  BY <1>1 DEF Obeys, Follows

\* clickDisconnect() obeys.
LEMMA ClickDisconnectObeys ==
    ASSUME Good(cm), Tells(cm), ClickDisconnect
    PROVE  Obeys(cm, cm')
<1>. DEFINE told == IF cm.state = "Disconnected" THEN <<>> ELSE cm.told
            c == [cm EXCEPT !.authPrompt = FALSE, !.told = told]
<1>1. told \in Seq(Outcomes) /\ told = <<>>
  BY DEF Good, TypeOfManager, Tells
<1>2. cm' = Click(c)
  BY DEF ClickDisconnect
<1>. HIDE DEF told
<1>3. Good(c)
  BY <1>1 DEF Good, Quiet, Manned, Owned, IsSettled, TypeOfManager
<1>4. /\ c.state = cm.state /\ c.told = told /\ c.authPrompt = FALSE /\ c.blocking = cm.blocking
      /\ c.conn = cm.conn /\ c.pending = cm.pending /\ c.walk = cm.walk
  BY DEF Good, TypeOfManager
<1>. HIDE DEF c
<1>5. Silent(c) /\ Stoppable(c)
  BY <1>1, <1>4 DEF Silent, Stoppable, Tells
<1>. QED
  BY <1>2, <1>3, <1>4, <1>5, ClickObeys

\* The public methods obey.
LEMMA RequestsObey ==
    ASSUME Good(cm), Tells(cm), online \in BOOLEAN, Requests
    PROVE  Obeys(cm, cm')
<1>0. /\ \A kind \in SessionKinds : kind \in Kinds
      /\ cm \in TypeOfManager /\ cm.state \in States
  BY PlatformAssumption DEF Good, TypeOfManager
<1>1. ASSUME NEW kind \in SessionKinds, ClickConnect(kind) \/ UpdateConnectionSettings(kind)
      PROVE  Obeys(cm, cm')
  BY <1>0, <1>1, ClickConnectObeys, SettingsObey
<1>2. CASE Reconnect
  <2>1. cm.conn # "none" /\ cm' = HandleReconnecting(cm)
    BY <1>2 DEF Reconnect
  <2>2. CASE cm.state \in Runs
    <3>1. Silent(cm)
      BY <2>2, RunsSilent DEF Runs
    <3>2. Leads(cm', {cm.state, "Reconnecting", "Stopping"})
      BY <2>1, <2>2, <3>1, HandleReconnectingLeads
    <3>3. {cm.state, "Reconnecting", "Stopping"} \subseteq Beyond(cm.state)
      BY DEF Runs, Beyond
    <3>. QED
      BY <2>2, <3>2, <3>3, LeadsObeys
  <2>3. CASE cm.state \notin Runs
    <3>1. cm' \in {cm, Seen(cm)}
      BY <2>1, <2>3 DEF HandleReconnecting, Seen, Runs
    <3>2. Still(Seen(cm)) = Still(cm)
      BY <1>0, QuietHelpers
    <3>3. Obeys(cm, Seen(cm)) /\ Obeys(cm, cm)
      BY <3>2, QuietObeys DEF Still
    <3>. QED
      BY <3>1, <3>3
  <2>. QED
    BY <2>2, <2>3
<1>3. ASSUME NEW yes \in BOOLEAN, OnWireGuardKeyLimitUserResponse(yes) PROVE Obeys(cm, cm')
  <2>. DEFINE c == [cm EXCEPT !.keyPrompt = FALSE]
              prep == IF c.prep = "consent" THEN "preparing" ELSE c.prep
              p == [c EXCEPT !.prep = prep]
              a == Arm(p, {"connecting"})
  <2>1. Good(c)
    BY DEF Good, Quiet, Manned, Owned, IsSettled, TypeOfManager
  <2>2. \/ cm' = c
        \/ cm' = a /\ c.conn # "none"
        \/ cm' = Click(c) /\ IsAttemptActive(c)
    BY <1>3 DEF OnWireGuardKeyLimitUserResponse
  <2>3. c.state = cm.state /\ Voice(c) = Voice(cm) /\ c.conn = cm.conn
    BY <1>0 DEF TypeOfManager, Voice
  <2>. HIDE DEF c
  <2>4. Obeys(cm, c)
    BY <2>3, QuietObeys
  <2>5. ASSUME c.conn # "none" PROVE Obeys(cm, a)
    <3>1. prep \in {"none", "preparing", "consent"}
      BY <2>1 DEF Good, TypeOfManager
    <3>. HIDE DEF prep
    <3>2. p \in TypeOfManager /\ p.state = c.state /\ Voice(p) = Voice(c) /\ p.conn = c.conn
      BY <2>1, <3>1 DEF Good, TypeOfManager, Voice
    <3>. HIDE DEF p
    <3>3. Still(a) = Still(p)
      BY <3>2, QuietHelpers
    <3>. HIDE DEF a
    <3>4. a.state = cm.state /\ Voice(a) = Voice(cm) /\ a.conn # "none"
      BY <2>3, <2>5, <3>2, <3>3 DEF Still
    <3>. QED
      BY <3>4, QuietObeys
  <2>6. ASSUME IsAttemptActive(c) PROVE Obeys(cm, Click(c))
    <3>1. c.state \notin {"Disconnected", "Stopping"}
      BY <2>6 DEF IsAttemptActive
    <3>2. Silent(c) /\ Stoppable(c)
      BY <2>3, <3>1, RunsSilent DEF Voice, Silent, Stoppable
    <3>. QED
      BY <2>1, <2>3, <3>2, ClickObeys
  <2>. QED
    BY <2>2, <2>4, <2>5, <2>6
<1>4. ASSUME NEW yes \in BOOLEAN, OnTunnelTestResult(yes) PROVE Obeys(cm, cm')
  <2>. DEFINE w == ResetCachedConfigBudget(cm.walk)
              c == [cm EXCEPT !.walk = w, !.succeeded = cm.succeeded \/ IsAutomaticMode(cm.walk)]
  <2>1. w.kind = cm.walk.kind
    BY <1>0, ThriftyUpdates DEF Thrifty, TypeOfManager
  <2>2. cm.state = "Connected" /\ cm' \in {c, cm, HandleAttemptFailed(cm, TRUE)}
    BY <1>4 DEF OnTunnelTestResult
  <2>. HIDE DEF w
  <2>3. c.state = cm.state /\ Voice(c) = Voice(cm) /\ c.conn = cm.conn
    BY <1>0, <2>1 DEF TypeOfManager, Voice
  <2>. HIDE DEF c
  <2>4. Obeys(cm, c) /\ Obeys(cm, cm)
    BY <2>3, QuietObeys
  <2>5. Obeys(cm, HandleAttemptFailed(cm, TRUE))
    <3>1. Silent(cm) /\ cm.conn # "none" /\ cm.state \in Runs
      BY <2>2, RunsSilent DEF Good, Manned, Runs
    <3>2. Leads(HandleAttemptFailed(cm, TRUE), {"Reconnecting", "Stopping"})
      BY <3>1, HandleAttemptFailedLeads
    <3>3. {"Reconnecting", "Stopping"} \subseteq Beyond(cm.state)
      BY DEF Runs, Beyond
    <3>. QED
      BY <3>1, <3>2, <3>3, LeadsObeys
  <2>. QED
    BY <2>2, <2>4, <2>5
<1>5. CASE SetFirewallAlwaysOnPlusEnabled
  <2>. DEFINE n == [cm EXCEPT !.alwaysOnPlus = ~cm.alwaysOnPlus]
  <2>1. n.state = cm.state /\ Voice(n) = Voice(cm) /\ n.conn = cm.conn
    BY <1>0 DEF TypeOfManager, Voice
  <2>2. cm' = n
    BY <1>5 DEF SetFirewallAlwaysOnPlusEnabled
  <2>. HIDE DEF n
  <2>. QED
    BY <2>1, <2>2, QuietObeys
<1>. QED
  BY <1>1, <1>2, <1>3, <1>4, <1>5, ClickDisconnectObeys, ForwardUserInputObeys DEF Requests

-----------------------------------------------------------------------------
(* The timers and the asynchronous answers                                  *)

\* An active timer has a session that runs, and has been silent.
LEMMA TimedRuns ==
    ASSUME Good(cm), Tells(cm), cm.timers # {}
    PROVE  cm.state \in Runs /\ ~IsSettled(cm) /\ Silent(cm)
<1>1. cm.state \in States /\ ~IsSettled(cm)
  BY DEF Good, TypeOfManager, Quiet
<1>2. cm.state \in Runs \ {"Sleeping"}
  BY <1>1 DEF States, IsSettled, Runs
<1>. QED
  BY <1>1, <1>2, RunsSilent DEF Runs

\* A timer that is stopped leaves the rest alone.
LEMMA DisarmedSays ==
    ASSUME NEW m, Good(m), NEW ts \in SUBSET Timers
    PROVE  LET n == Disarm(m, ts) IN
           /\ Good(n) /\ n.state = m.state /\ n.conn = m.conn /\ Voice(n) = Voice(m)
           /\ Silent(m) => Silent(n)
<1>. DEFINE n == Disarm(m, ts)
<1>1. Good(n) /\ n.state = m.state
  BY DisarmGood
<1>2. n.conn = m.conn /\ Voice(n) = Voice(m)
  BY DEF Disarm, Good, TypeOfManager, Voice
<1>. HIDE DEF n
<1>3. Silent(m) => Silent(n)
  BY <1>2 DEF Voice, Silent
<1>. QED
  BY <1>1, <1>2, <1>3 DEF n

\* The timers obey.
LEMMA TimeoutsObey ==
    ASSUME Good(cm), Tells(cm), online \in BOOLEAN, Timeouts
    PROVE  Obeys(cm, cm')
<1>0. cm \in TypeOfManager
  BY DEF Good
<1>1. CASE OnTimerReconnection
  <2>. DEFINE m == Disarm(cm, {"cap"})
              s == Stop(m, "timeout")
  <2>1. cm.state \in Runs /\ Silent(cm)
    BY <1>1, TimedRuns DEF OnTimerReconnection
  <2>2. Good(m) /\ m.state = cm.state /\ Silent(m)
    BY <2>1, DisarmedSays DEF Timers
  <2>3. \/ cm' = StartDisconnect(s) /\ m.conn # "none"
        \/ cm' = Report(Disconnect(m), "timeout")
    <3>1. m.state # "Stopping"
      BY <2>1, <2>2 DEF Runs
    <3>. QED
      BY <1>1, <3>1 DEF OnTimerReconnection
  <2>. HIDE DEF m
  <2>4. ASSUME m.conn # "none" PROVE Leads(StartDisconnect(s), {"Stopping"})
    <3>1. Good(s)
      BY <2>2, <2>4, StopGood DEF Outcomes
    <3>2. /\ s.state = "Stopping" /\ s.pending = "timeout" /\ s.told = m.told /\ s.authPrompt = m.authPrompt
          /\ s.blocking = m.blocking /\ s.conn = m.conn
      BY <2>2, StopSays DEF Good
    <3>. HIDE DEF s
    <3>3. Leads(s, {"Stopping"})
      BY <2>2, <2>4, <3>2 DEF Leads, Stoppable, Silent
    <3>. QED
      BY <3>1, <3>3, StartDisconnectLeads
  <2>5. Leads(Report(Disconnect(m), "timeout"), {"Stopping"})
    BY <2>2, EndLeads DEF Outcomes
  <2>6. {"Stopping"} \subseteq Beyond(cm.state)
    BY DEF Beyond
  <2>. QED
    BY <2>1, <2>3, <2>4, <2>5, <2>6, LeadsObeys
<1>2. CASE OnConnectTrigger
  <2>. DEFINE m == Disarm(cm, {"rest"})
  <2>1. cm.state \in Runs /\ Silent(cm) /\ ~IsSettled(cm)
    BY <1>2, TimedRuns DEF OnConnectTrigger
  <2>2. Good(m) /\ m.state = cm.state /\ Silent(m) /\ ~IsSettled(m)
    BY <2>1, DisarmedSays DEF Timers, IsSettled
  <2>3. PICK env \in Now : cm' = StartAttempt(m, env)
    BY <1>2 DEF OnConnectTrigger
  <2>. HIDE DEF m
  <2>4. Leads(cm', {cm.state, "Reconnecting", "Stopping"})
    BY <2>1, <2>2, <2>3, NowConditions, StartAttemptLeads
  <2>5. {cm.state, "Reconnecting", "Stopping"} \subseteq Beyond(cm.state)
    BY DEF Runs, Beyond
  <2>. QED
    BY <2>1, <2>4, <2>5, LeadsObeys
<1>3. CASE OnConnectingTimeout
  <2>. DEFINE m == Disarm(cm, {"connecting"})
              c == ClearCachedConfigIfExhausted(m, TRUE)
  <2>1. cm.state \in Runs /\ Silent(cm) /\ cm.conn # "none"
    BY <1>3, TimedRuns DEF OnConnectingTimeout, Good, Manned
  <2>2. Good(m) /\ Silent(m) /\ m.conn = cm.conn
    BY <2>1, DisarmedSays DEF Timers
  <2>3. cm' = StartFailoverReconnect(c)
    BY <1>3 DEF OnConnectingTimeout
  <2>. HIDE DEF m
  <2>4. Good(c) /\ Voice(c) = Voice(m) /\ c.conn # "none"
    BY <2>1, <2>2, ClearCachedConfigGood, ClearedSays DEF Good
  <2>. HIDE DEF c
  <2>5. Silent(c)
    BY <2>2, <2>4 DEF Voice, Silent
  <2>6. Leads(cm', {"Reconnecting", "Stopping"})
    BY <2>3, <2>4, <2>5, StartFailoverReconnectLeads
  <2>7. {"Reconnecting", "Stopping"} \subseteq Beyond(cm.state)
    BY DEF Runs, Beyond
  <2>. QED
    BY <2>1, <2>6, <2>7, LeadsObeys
<1>4. CASE OnTimerWaitNetworkConnectivity
  <2>. DEFINE m == Disarm(cm, {"poll"})
              again == SetState(m, "Reconnecting", "Regular")
  <2>1. cm.state \in Runs /\ Silent(cm) /\ ~IsSettled(cm)
    BY <1>4, TimedRuns DEF OnTimerWaitNetworkConnectivity
  <2>2. Good(m) /\ m.state = cm.state /\ Silent(m) /\ ~IsSettled(m)
    BY <2>1, DisarmedSays DEF Timers, IsSettled
  <2>3. PICK env \in Now : \/ cm' = StartAttempt(again, env)
                           \/ cm' = StartAttempt(m, env)
                           \/ cm' = Report(Disconnect(cm), "timeout")
    BY <1>4 DEF OnTimerWaitNetworkConnectivity
  <2>. HIDE DEF m
  <2>4. Good(again) /\ again.state = "Reconnecting" /\ ~IsSettled(again)
    BY <2>2, SetStateGood DEF IsSettled
  <2>5. Silent(again)
    <3>1. Voice(again) = Voice(m)
      BY <2>2, QuietHelpers DEF Good, Still
    <3>. QED
      BY <2>2, <3>1 DEF Voice, Silent
  <2>. HIDE DEF again
  <2>6. /\ Leads(StartAttempt(again, env), {again.state, "Reconnecting", "Stopping"})
        /\ Leads(StartAttempt(m, env), {m.state, "Reconnecting", "Stopping"})
    BY <2>1, <2>2, <2>3, <2>4, <2>5, NowConditions, StartAttemptLeads DEF Runs
  <2>7. Leads(Report(Disconnect(cm), "timeout"), {"Reconnecting"})
    BY <2>1, EndLeads DEF Outcomes
  <2>8. /\ {again.state, "Reconnecting", "Stopping"} \subseteq Beyond(cm.state)
        /\ {m.state, "Reconnecting", "Stopping"} \subseteq Beyond(cm.state)
        /\ {"Reconnecting"} \subseteq Beyond(cm.state)
    BY <2>2, <2>4 DEF Runs, Beyond
  <2>9. /\ Obeys(cm, StartAttempt(again, env))
        /\ Obeys(cm, StartAttempt(m, env))
        /\ Obeys(cm, Report(Disconnect(cm), "timeout"))
    BY <2>1, <2>6, <2>7, <2>8, LeadsObeys
  <2>. QED
    BY <2>3, <2>9
<1>5. ASSUME NEW n \in 0 .. MaxEndpoints, OnHostnamesResolved(n) PROVE Obeys(cm, cm')
  <2>. DEFINE w == IF cm.walk.kind = "emergency" THEN OnEndpointsReceived(cm.walk, n) ELSE cm.walk
              m == [cm EXCEPT !.resolving = FALSE, !.walk = w]
  <2>1. n \in Nat /\ cm.walk \in Strategy
    BY <1>0, BoundAssumption DEF TypeOfManager
  <2>2. w \in Strategy /\ w.kind = cm.walk.kind
    BY <2>1, StrategyType, ThriftyUpdates DEF Thrifty
  <2>3. PICK env \in Now : cm' = HostnamesResolved(m, env)
    BY <1>5 DEF OnHostnamesResolved
  <2>. HIDE DEF w
  <2>4. Good(m)
    BY <2>2 DEF Good, Quiet, Manned, Owned, IsSettled, TypeOfManager
  <2>5. m.state = cm.state /\ Voice(m) = Voice(cm) /\ m.conn = cm.conn
    BY <1>0, <2>2 DEF TypeOfManager, Voice
  <2>. HIDE DEF m
  <2>6. CASE IsAttemptActive(m)
    <3>1. cm.state \in Runs /\ cm.state # "Disconnected"
      BY <2>5, <2>6 DEF IsAttemptActive, Runs
    <3>2. Silent(m)
      BY <2>5, <3>1, RunsSilent DEF Voice, Silent
    <3>3. Leads(cm', {cm.state, "Reconnecting", "Stopping"})
      BY <2>3, <2>4, <2>5, <3>1, <3>2, HostnamesResolvedLeads
    <3>4. {cm.state, "Reconnecting", "Stopping"} \subseteq Beyond(cm.state)
      BY DEF Runs, Beyond
    <3>. QED
      BY <3>1, <3>3, <3>4, LeadsObeys
  <2>7. CASE ~IsAttemptActive(m)
    <3>1. cm' = m
      BY <2>3, <2>7 DEF HostnamesResolved
    <3>. QED
      BY <2>5, <3>1, QuietObeys
  <2>. QED
    BY <2>6, <2>7
<1>. QED
  BY <1>1, <1>2, <1>3, <1>4, <1>5 DEF Timeouts

-----------------------------------------------------------------------------
(* The system and the connector                                             *)

\* A session that falls asleep is silent about it.
LEMMA FallAsleepLeads ==
    ASSUME NEW m \in TypeOfManager, m.told = <<>>, ~m.authPrompt
    PROVE  Leads(FallAsleep(m), {"Sleeping"})
<1>. DEFINE n == FallAsleep(m)
<1>1. /\ Skeleton(n) = <<"Sleeping", {}, m.conn, m.dialed, m.queue, FALSE, m.lastOnline, m.authPrompt>>
      /\ n.told = m.told
  BY FallAsleepFrame
<1>. HIDE DEF n
<1>2. Silent(n) /\ n.state = "Sleeping"
  BY <1>1 DEF Skeleton, Silent
<1>3. Leads(n, {"Sleeping"})
  BY <1>2, SilentLeads
<1>. QED
  BY <1>3 DEF n

\* onSleepMode() obeys: the machine sleeps at once, or the loop begins.
LEMMA SleepModeObeys ==
    ASSUME Good(cm), Tells(cm), OnSleepMode
    PROVE  Obeys(cm, cm')
<1>. DEFINE m == Halted(cm)
            d == StartDisconnect(m)
            b == Blocked(m)
            z == [b EXCEPT !.conn = "down"]
            s == SetState(m, "Sleeping", "Regular")
<1>1. /\ m \in TypeOfManager /\ Voice(m) = Voice(cm) /\ m.state = cm.state /\ m.conn = cm.conn
  BY DEF Good, Halted, TypeOfManager, Voice
<1>2. \/ IsSettled(cm) /\ cm' = m
      \/ cm.state = "WaitingForNetwork" /\ cm' = s
      \/ Busy(cm) /\ cm' \in {FallAsleep(m), FallAsleep(z), b}
  BY SleepWays DEF Good
<1>. HIDE DEF m
<1>3. Obeys(cm, m)
  BY <1>1, QuietObeys
<1>4. CASE ~IsSettled(cm)
  <2>1. cm.state \in Runs /\ Silent(cm)
    <3>1. cm.state \in States
      BY DEF Good, TypeOfManager
    <3>2. cm.state \in Runs /\ cm.state # "Disconnected"
      BY <1>4, <3>1 DEF States, IsSettled, Runs
    <3>. QED
      BY <3>2, RunsSilent
  <2>2. Silent(m)
    BY <1>1, <2>1 DEF Voice, Silent
  <2>3. Leads(FallAsleep(m), {"Sleeping"})
    BY <1>1, <2>2, FallAsleepLeads DEF Silent
  <2>4. Leads(s, {"Sleeping"})
    <3>1. Still(s) = <<"Sleeping", Voice(m), m.conn = "none", m.walk, m.succeeded>>
      BY <1>1, QuietHelpers
    <3>. HIDE DEF s
    <3>2. Silent(s) /\ s.state = "Sleeping"
      BY <2>2, <3>1 DEF Still, Voice, Silent
    <3>. QED
      BY <3>2, SilentLeads
  <2>5. Busy(cm) => Leads(FallAsleep(z), {"Sleeping"}) /\ Obeys(cm, b)
    <3>. SUFFICES ASSUME Busy(cm) PROVE Leads(FallAsleep(z), {"Sleeping"}) /\ Obeys(cm, b)
      OBVIOUS
    <3>1. Good(m)
      BY <1>1 DEF Halted, m, Good, SameGood, Quiet, Manned, Owned, IsSettled, TypeOfManager
    <3>2. Good(d) /\ Still(d) = Still(m)
      BY <1>1, <3>1, StartDisconnectGood, QuietConnector
    <3>3. b = [d EXCEPT !.blocking = TRUE]
      BY DEF Blocked
    <3>. HIDE DEF d
    <3>4. /\ b \in TypeOfManager /\ b.told = d.told /\ b.authPrompt = d.authPrompt
          /\ b.state = d.state /\ b.pending = d.pending /\ b.walk = d.walk /\ b.conn = d.conn
      BY <3>2, <3>3 DEF Good, TypeOfManager
    <3>. HIDE DEF b
    <3>7. Obeys(cm, b)
      BY <1>1, <3>2, <3>4, StillObeys DEF Still, Voice
    <3>5. z \in TypeOfManager /\ z.told = b.told /\ z.authPrompt = b.authPrompt
      BY <3>4 DEF TypeOfManager, Connectors
    <3>. HIDE DEF z
    <3>6. z.told = <<>> /\ ~z.authPrompt
      BY <2>2, <3>2, <3>4, <3>5 DEF Silent, Still, Voice
    <3>. QED
      BY <3>5, <3>6, <3>7, FallAsleepLeads
  <2>6. {"Sleeping"} \subseteq Beyond(cm.state)
    BY DEF Beyond, Runs
  <2>7. /\ Obeys(cm, FallAsleep(m)) /\ Obeys(cm, s)
        /\ Busy(cm) => Obeys(cm, FallAsleep(z))
    BY <2>1, <2>3, <2>4, <2>5, <2>6, LeadsObeys
  <2>. QED
    BY <1>2, <1>3, <2>5, <2>7
<1>5. CASE IsSettled(cm)
  BY <1>2, <1>3, <1>5 DEF IsSettled, Busy
<1>. QED
  BY <1>4, <1>5

\* The rest of onSleepMode() obeys, after a loop that the session outlived.
LEMMA EndSleepObeys ==
    ASSUME Good(cm), Tells(cm), online \in BOOLEAN, OutlivesPump, EndBlockingDisconnect
    PROVE  Obeys(cm, cm')
<1>. DEFINE f == FallAsleep(cm)
<1>1. PICK env \in Now :
        cm' = IF cm.wake THEN [RestoreConnectionAfterWakeUp(f, env) EXCEPT !.wake = FALSE] ELSE f
  BY DEF EndBlockingDisconnect
<1>2. cm.state \in Runs /\ Silent(cm)
  BY RunsSilent DEF OutlivesPump, EndBlockingDisconnect, Runs
<1>3. Leads(f, {"Sleeping"}) /\ Good(f)
  BY <1>2, FallAsleepLeads, FallAsleepGood DEF Silent, Good
<1>4. Silent(f)
  BY <1>2, FallAsleepFrame DEF Good, Skeleton, Silent
<1>. HIDE DEF f
<1>. DEFINE r == RestoreConnectionAfterWakeUp(f, env)
            S == {"Reconnecting", "WaitingForNetwork", "Stopping"}
<1>5. Good(r) /\ Leads(r, S)
  BY <1>3, <1>4, NowConditions, RestoreConnectionGood, RestoreLeads
<1>. HIDE DEF r
<1>. DEFINE n == [r EXCEPT !.wake = FALSE]
<1>6. n.state = r.state /\ Voice(n) = Voice(r) /\ n.conn = r.conn
  BY <1>5 DEF Good, TypeOfManager, Voice
<1>. HIDE DEF n
<1>7. Leads(n, S)
  BY <1>5, <1>6, LeadsFrame
<1>8. S \subseteq Beyond(cm.state) /\ {"Sleeping"} \subseteq Beyond(cm.state)
  BY DEF Beyond, Runs
<1>9. Obeys(cm, n) /\ Obeys(cm, f)
  BY <1>2, <1>3, <1>7, <1>8, LeadsObeys
<1>. QED
  BY <1>1, <1>9 DEF n, r

\* onNetworkOnlineStateChanged() obeys.
LEMMA NetworkObeys ==
    ASSUME Good(cm), Tells(cm), OnNetworkOnlineStateChanged
    PROVE  Obeys(cm, cm')
<1>. DEFINE alive == ~online
            m == Noticed(cm, alive)
            w == Waiting(m)
            again == SetState(m, "Reconnecting", "Regular")
            S == {"WaitingForNetwork", "Reconnecting"}
<1>1. \/ cm' \in {cm, m}
      \/ ~IsSettled(cm)
         /\ cm' \in {StartDisconnect(Arm(w, {"cap"})), StartDisconnect(w),
                    StartDisconnect(Arm(again, {"cap"}))}
  BY NetworkWays DEF Good
<1>2. alive \in BOOLEAN
  OBVIOUS
<1>. HIDE DEF alive
<1>3. Good(m)
  BY <1>2 DEF Noticed, Good, Quiet, Manned, Owned, IsSettled, TypeOfManager
<1>4. Voice(m) = Voice(cm) /\ m.state = cm.state /\ m.conn = cm.conn
  BY DEF Good, Noticed, TypeOfManager, Voice
<1>. HIDE DEF m
<1>5. Obeys(cm, m) /\ Obeys(cm, cm)
  BY <1>4, QuietObeys
<1>6. CASE ~IsSettled(cm)
  <2>1. cm.state \in Runs /\ Silent(cm)
    <3>1. cm.state \in States
      BY DEF Good, TypeOfManager
    <3>2. cm.state \in Runs /\ cm.state # "Disconnected"
      BY <1>6, <3>1 DEF States, IsSettled, Runs
    <3>. QED
      BY <3>2, RunsSilent
  <2>2. Silent(m)
    BY <1>4, <2>1 DEF Voice, Silent
  <2>3. ASSUME NEW n, Good(n), Voice(n) = Voice(m), n.state \in S
        PROVE  /\ Leads(StartDisconnect(n), S) /\ Leads(StartDisconnect(Arm(n, {"cap"})), S)
    <3>1. Leads(n, S)
      <4>1. Silent(n) /\ n.state # "Stopping"
        BY <2>2, <2>3 DEF Voice, Silent
      <4>. QED
        BY <2>3, <4>1, SilentLeads
    <3>2. Leads(StartDisconnect(n), S)
      BY <2>3, <3>1, StartDisconnectLeads
    <3>. DEFINE a == Arm(n, {"cap"})
    <3>3. a \in TypeOfManager /\ Still(a) = Still(n)
      BY <2>3, ArmType, QuietHelpers DEF Good, Timers
    <3>. HIDE DEF a
    <3>4. Still(StartDisconnect(a)) = Still(n)
      BY <3>3, QuietConnector
    <3>5. Leads(StartDisconnect(a), S)
      BY <3>1, <3>4, LeadsFrame DEF Still
    <3>. QED
      BY <3>2, <3>5 DEF a
  <2>4. /\ Good(w) /\ w.state = "WaitingForNetwork" /\ Voice(w) = Voice(m)
        /\ Good(again) /\ again.state = "Reconnecting" /\ Voice(again) = Voice(m)
    BY <1>3, SetStateGood, QuietHelpers DEF Waiting, Good, Still
  <2>. HIDE DEF w, again
  <2>5. /\ Leads(StartDisconnect(Arm(w, {"cap"})), S) /\ Leads(StartDisconnect(w), S)
        /\ Leads(StartDisconnect(Arm(again, {"cap"})), S)
    BY <2>3, <2>4
  <2>6. S \subseteq Beyond(cm.state)
    BY DEF Beyond, Runs
  <2>7. /\ Obeys(cm, StartDisconnect(Arm(w, {"cap"}))) /\ Obeys(cm, StartDisconnect(w))
        /\ Obeys(cm, StartDisconnect(Arm(again, {"cap"})))
    BY <2>1, <2>5, <2>6, LeadsObeys
  <2>. QED
    BY <1>1, <1>5, <2>7
<1>. QED
  BY <1>1, <1>5, <1>6

\* The system's notifications obey.
LEMMA SystemObeys ==
    ASSUME OutlivesPump, Good(cm), Tells(cm), online \in BOOLEAN, System
    PROVE  Obeys(cm, cm')
<1>2. CASE OnWakeMode
  <2>. DEFINE d == Disarm(cm, {"cap", "rest"})
              m == [d EXCEPT !.wake = TRUE]
  <2>1. Good(d) /\ d.state = cm.state /\ d.conn = cm.conn /\ Voice(d) = Voice(cm)
    BY DisarmedSays DEF Timers
  <2>2. PICK env \in Now :
          \/ cm' = m
          \/ m.state \notin {"Disconnected", "Stopping"} /\ cm' = RestoreConnectionAfterWakeUp(m, env)
    BY <1>2 DEF OnWakeMode
  <2>. HIDE DEF d
  <2>3. Good(m)
    BY <2>1 DEF Good, Quiet, Manned, Owned, IsSettled, TypeOfManager
  <2>4. m.state = cm.state /\ Voice(m) = Voice(cm) /\ m.conn = cm.conn
    BY <2>1 DEF Good, Voice, TypeOfManager
  <2>. HIDE DEF m
  <2>5. Obeys(cm, m)
    BY <2>4, QuietObeys
  <2>6. ASSUME m.state \notin {"Disconnected", "Stopping"}
        PROVE  Obeys(cm, RestoreConnectionAfterWakeUp(m, env))
    <3>1. cm.state \in States
      BY DEF Good, TypeOfManager
    <3>2. cm.state \in Runs /\ cm.state # "Disconnected"
      BY <2>4, <2>6, <3>1 DEF States, Runs
    <3>3. Silent(m)
      BY <2>4, <3>2, RunsSilent DEF Voice, Silent
    <3>4. Leads(RestoreConnectionAfterWakeUp(m, env), {"Reconnecting", "WaitingForNetwork", "Stopping"})
      BY <2>2, <2>3, <3>3, NowConditions, RestoreLeads
    <3>5. {"Reconnecting", "WaitingForNetwork", "Stopping"} \subseteq Beyond(cm.state)
      BY DEF Beyond, Runs
    <3>. QED
      BY <3>2, <3>4, <3>5, LeadsObeys
  <2>. QED
    BY <2>2, <2>5, <2>6
<1>. QED
  BY <1>2, SleepModeObeys, EndSleepObeys, NetworkObeys DEF System

\* The connector's own steps obey: they say nothing to the session.
LEMMA ConnectorObeys ==
    ASSUME Good(cm), Tells(cm), Connector
    PROVE  Obeys(cm, cm')
<1>0. cm \in TypeOfManager
  BY DEF Good
<1>1. ASSUME NEW n \in TypeOfManager, n.conn # "none", n.state = cm.state, Voice(n) = Voice(cm)
      PROVE  Obeys(cm, n) /\ \A name, err : Obeys(cm, Emit(n, name, err))
  <2>1. \A name, err : Still(Emit(n, name, err)) = Still(n)
    BY <1>1, QuietConnector
  <2>2. \A name, err : LET e == Emit(n, name, err) IN
          e.state = cm.state /\ Voice(e) = Voice(cm) /\ e.conn # "none"
    BY <1>1, <2>1 DEF Still
  <2>. QED
    BY <1>1, <2>2, QuietObeys
<1>2. ASSUME NEW c \in Connectors \ {"none"}
      PROVE  /\ Obeys(cm, [cm EXCEPT !.conn = c])
             /\ \A name, err : Obeys(cm, Emit([cm EXCEPT !.conn = c], name, err))
  <2>. DEFINE n == [cm EXCEPT !.conn = c]
  <2>1. n \in TypeOfManager /\ n.conn = c /\ n.state = cm.state /\ Voice(n) = Voice(cm)
    BY <1>0 DEF TypeOfManager, Voice
  <2>. HIDE DEF n
  <2>2. Obeys(cm, n) /\ \A name, err : Obeys(cm, Emit(n, name, err))
    BY <1>1, <1>2, <2>1
  <2>. QED
    BY <2>2 DEF n
<1>3. ASSUME NEW p \in {"none", "consent"}, NEW s \in BOOLEAN, cm.conn # "none"
      PROVE  \A name, err : Obeys(cm, Emit([cm EXCEPT !.prep = p, !.stored = s], name, err))
  <2>. DEFINE n == [cm EXCEPT !.prep = p, !.stored = s]
  <2>1. n \in TypeOfManager /\ n.conn = cm.conn /\ n.state = cm.state /\ Voice(n) = Voice(cm)
    BY <1>0 DEF TypeOfManager, Voice
  <2>. HIDE DEF n
  <2>2. \A name, err : Obeys(cm, Emit(n, name, err))
    BY <1>1, <1>3, <2>1
  <2>. QED
    BY <2>2 DEF n
<1>4. cm.prep = "preparing" => cm.conn # "none"
  BY DEF Good, Owned
<1>5. \A p : [cm EXCEPT !.prep = p] = [cm EXCEPT !.prep = p, !.stored = cm.stored]
  BY <1>0 DEF TypeOfManager
<1>6. cm.stored \in BOOLEAN /\ cm.fetches \in BOOLEAN
  BY <1>0 DEF TypeOfManager
<1>7. CASE ConnectorPrepared
  <2>. DEFINE s == cm.stored \/ (cm.fetches /\ cm.fetchMode = "Normal")
  <2>1. cm' = Emit([cm EXCEPT !.prep = "none", !.stored = s], "prepared", "kNoError")
    BY <1>7 DEF ConnectorPrepared, ConnectorStep
  <2>2. s \in BOOLEAN /\ cm.conn # "none"
    BY <1>4, <1>6, <1>7 DEF ConnectorPrepared
  <2>. HIDE DEF s
  <2>. QED
    BY <1>3, <2>1, <2>2
<1>8. ASSUME NEW err \in PrepareErrors, ConnectorPrepareFailed(err) PROVE Obeys(cm, cm')
  <2>1. cm' = Emit([cm EXCEPT !.prep = "none", !.stored = cm.stored], "prepareFailed", err)
    BY <1>5, <1>8 DEF ConnectorPrepareFailed, ConnectorStep
  <2>. QED
    BY <1>3, <1>4, <1>6, <1>8, <2>1 DEF ConnectorPrepareFailed
<1>9. CASE ConnectorAtKeyLimit
  <2>1. cm' = Emit([cm EXCEPT !.prep = "consent", !.stored = cm.stored], "keyLimit", "kNoError")
    BY <1>5, <1>9 DEF ConnectorAtKeyLimit, ConnectorStep
  <2>. QED
    BY <1>3, <1>4, <1>6, <1>9, <2>1 DEF ConnectorAtKeyLimit
<1>10. CASE ConnectorStarted
  BY <1>2, <1>10 DEF ConnectorStarted, ConnectorStep, Connectors
<1>11. CASE ConnectorConnected
  BY <1>2, <1>11 DEF ConnectorConnected, ConnectorStep, Connectors
<1>12. CASE ConnectorReconnecting
  BY <1>0, <1>1, <1>12 DEF ConnectorReconnecting, ConnectorStep
<1>13. ASSUME NEW err \in StartErrors, ConnectorStartFailed(err) PROVE Obeys(cm, cm')
  BY <1>2, <1>13 DEF ConnectorStartFailed, ConnectorStep, Connectors
<1>14. ASSUME NEW err \in LiveErrors, ConnectorFailed(err) PROVE Obeys(cm, cm')
  <2>. DEFINE c == IF err = "kAuthFailure" THEN "stopping" ELSE cm.conn
  <2>1. c \in Connectors \ {"none"}
    BY <1>14 DEF ConnectorFailed, Connectors
  <2>2. cm' = Emit([cm EXCEPT !.conn = c], "error", err)
    BY <1>14 DEF ConnectorFailed, ConnectorStep
  <2>. HIDE DEF c
  <2>. QED
    BY <1>2, <2>1, <2>2
<1>15. CASE ConnectorDied
  BY <1>2, <1>15 DEF ConnectorDied, ConnectorStep, Connectors
<1>16. CASE ConnectorStopped
  BY <1>2, <1>16 DEF ConnectorStopped, ConnectorStep, Connectors
<1>17. CASE ConnectorSettledSilently
  BY <1>2, <1>17 DEF ConnectorSettledSilently, ConnectorStep, Connectors
<1>. QED
  BY <1>7, <1>8, <1>9, <1>10, <1>11, <1>12, <1>13, <1>14, <1>15, <1>16, <1>17 DEF Connector

-----------------------------------------------------------------------------
(* The session, as the manager keeps it                                     *)

\* A step that says nothing and moves nothing is none of the session.
LEMMA StutterOfSession ==
    ASSUME cm'.state = cm.state, cm'.told = cm.told, cm'.authPrompt = cm.authPrompt,
           cm.state = "Stopping" => cm'.pending = cm.pending
    PROVE  UNCHANGED Session!svars
BY DEF Session!svars

\* A session goes on.
LEMMA ContinueOfSession ==
    ASSUME cm.state \in Runs, cm'.state \in Runs,
           cm'.state = "Connected" => cm.state \in {"Connecting", "Reconnecting", "Connected"},
           cm'.told = cm.told, cm'.authPrompt = cm.authPrompt
    PROVE  Session!Continue
BY DEF Session!Continue, Session!Running, Runs

\* Its end is decided.
LEMMA DecideOfSession ==
    ASSUME cm.state \in Runs, cm'.state = "Stopping", cm'.pending \in Outcomes \cup {"authError"},
           cm'.told = cm.told, cm'.authPrompt = cm.authPrompt
    PROVE  Session!Decide
BY DEF Session!Decide, Session!Running, Session!Asking, Runs

\* It ends where it is.
LEMMA EndOfSession ==
    ASSUME cm.state \in Runs \cup {"Disconnected"}, cm'.state = "Disconnected", ~cm'.authPrompt,
           cm'.authPrompt \in BOOLEAN,
           NEW o \in Outcomes, cm'.told = <<o>>, cm.state = "Disconnected" => o = "user"
    PROVE  Session!EndAtOnce
BY DEF Session!EndAtOnce, Session!Running, Runs

\* It begins.
LEMMA BeginOfSession ==
    ASSUME cm.state = "Disconnected", ~cm'.authPrompt, cm'.authPrompt \in BOOLEAN,
           \/ cm'.state \in {"Connecting", "Reconnecting"} /\ cm'.told = <<>>
           \/ cm'.state = "Disconnected" /\ \E o \in Outcomes \ {"user"} : cm'.told = <<o>>
    PROVE  Session!Begin
<1>1. CASE cm'.state \in {"Connecting", "Reconnecting"} /\ cm'.told = <<>>
  BY <1>1 DEF Session!Begin, Session!Nothing
<1>2. CASE cm'.state = "Disconnected" /\ \E o \in Outcomes \ {"user"} : cm'.told = <<o>>
  BY <1>2 DEF Session!Begin, Session!Nothing
<1>. QED
  BY <1>1, <1>2

\* The user stops it.
LEMMA StopOfSession ==
    ASSUME cm.state \in {"Stopping", "Disconnected"}, cm'.state = "Stopping", cm'.pending = "user",
           cm'.told = <<>>, ~cm'.authPrompt, cm'.authPrompt \in BOOLEAN
    PROVE  Session!StopByUser
BY DEF Session!StopByUser

\* The outcome that was decided is reported.
LEMMA ReportOfSession ==
    ASSUME cm.state = "Stopping", cm'.state = "Disconnected", cm'.authPrompt \in BOOLEAN,
           IF cm.pending = "authError" THEN cm'.authPrompt /\ cm'.told = <<>>
                                       ELSE ~cm'.authPrompt /\ cm'.told = <<cm.pending>>
    PROVE  Session!ReportOutcome
BY DEF Session!ReportOutcome, Session!Nothing, Session!Asking

\* What follows is a step of the session.
LEMMA FollowsSession ==
    ASSUME cm \in TypeOfManager, Tells(cm), cm' \in TypeOfManager, Follows(cm, cm')
    PROVE  [Session!SessionNext]_(Session!svars)
<1>0. /\ cm.state \in Runs \cup {"Disconnected", "Stopping"}
      /\ cm'.pending \in Outcomes \cup {"authError"} /\ cm'.authPrompt \in BOOLEAN
      /\ cm.authPrompt \in BOOLEAN /\ "user" \in Outcomes
      /\ cm.state # "Disconnected" => cm.told = <<>> /\ cm.authPrompt = FALSE
  BY DEF TypeOfManager, States, Runs, Outcomes, Tells
<1>1. CASE /\ cm'.state = cm.state /\ cm'.told = cm.told /\ cm'.authPrompt = cm.authPrompt
           /\ cm.state = "Stopping" => cm'.pending = cm.pending
  BY <1>1, StutterOfSession
<1>2. ASSUME NEW S, cm.state \in Runs, S \subseteq Runs \cup {"Stopping"},
             "Connected" \in S => cm.state \in {"Connecting", "Reconnecting", "Connected"},
             Leads(cm', S)
      PROVE  Session!Continue \/ Session!Decide \/ Session!EndAtOnce
  <2>1. CASE cm'.state \in S /\ cm'.told = <<>>
    <3>1. cm.told = <<>> /\ cm.authPrompt = FALSE /\ cm'.authPrompt = FALSE
      BY <1>0, <1>2 DEF Leads, Runs
    <3>2. CASE cm'.state = "Stopping"
      BY <1>0, <1>2, <2>1, <3>1, <3>2, DecideOfSession
    <3>3. CASE cm'.state # "Stopping"
      BY <1>0, <1>2, <2>1, <3>1, <3>3, ContinueOfSession
    <3>. QED
      BY <3>2, <3>3
  <2>2. CASE cm'.state = "Disconnected" /\ \E o \in Outcomes \ {"user"} : cm'.told = <<o>>
    <3>1. PICK o \in Outcomes \ {"user"} : cm'.told = <<o>>
      BY <2>2
    <3>2. ~cm'.authPrompt /\ cm.state # "Disconnected"
      BY <1>2 DEF Leads, Runs
    <3>. QED
      BY <1>0, <1>2, <2>2, <3>1, <3>2, EndOfSession
  <2>. QED
    BY <1>2, <2>1, <2>2 DEF Leads
<1>3. CASE cm.state \in Runs /\ Leads(cm', Beyond(cm.state))
  <2>1. /\ Beyond(cm.state) \subseteq Runs \cup {"Stopping"}
        /\ "Connected" \in Beyond(cm.state) => cm.state = "Connected"
    BY <1>3 DEF Beyond, Runs
  <2>. QED
    BY <1>2, <1>3, <2>1 DEF Session!SessionNext
<1>4. CASE cm.state \in {"Connecting", "Reconnecting"} /\ Leads(cm', {"Connected"})
  <2>1. cm.state \in Runs /\ {"Connected"} \subseteq Runs \cup {"Stopping"}
    BY <1>4 DEF Runs
  <2>. QED
    BY <1>2, <1>4, <2>1 DEF Session!SessionNext
<1>5. CASE cm.state = "Disconnected" /\ Leads(cm', {"Connecting", "Reconnecting"})
  <2>1. Session!Begin
    BY <1>0, <1>5, BeginOfSession DEF Leads
  <2>. QED
    BY <2>1 DEF Session!SessionNext
<1>6. CASE Stopped(cm') /\ (cm.state = "Stopping" => cm'.state = "Stopping")
  <2>1. CASE cm'.state = "Stopping" /\ cm'.pending = "user" /\ cm'.told = <<>>
    <3>1. CASE cm.state \in Runs
      <4>1. cm.told = <<>> /\ cm.authPrompt = FALSE /\ cm'.authPrompt = FALSE
        BY <1>0, <1>6, <3>1 DEF Stopped, Runs
      <4>2. Session!Decide
        BY <1>0, <2>1, <3>1, <4>1, DecideOfSession
      <4>. QED
        BY <4>2 DEF Session!SessionNext
    <3>2. CASE cm.state \notin Runs
      <4>1. Session!StopByUser
        BY <1>0, <1>6, <2>1, <3>2, StopOfSession DEF Stopped
      <4>. QED
        BY <4>1 DEF Session!SessionNext
    <3>. QED
      BY <3>1, <3>2
  <2>2. CASE cm'.state = "Disconnected" /\ cm'.told = <<"user">>
    <3>1. cm.state \in Runs \cup {"Disconnected"} /\ ~cm'.authPrompt
      BY <1>0, <1>6, <2>2 DEF Stopped
    <3>2. Session!EndAtOnce
      BY <1>0, <2>2, <3>1, EndOfSession
    <3>. QED
      BY <3>2 DEF Session!SessionNext
  <2>. QED
    BY <1>6, <2>1, <2>2 DEF Stopped
<1>7. CASE /\ cm.state = "Stopping" /\ cm'.state = "Disconnected"
           /\ IF cm.pending = "authError" THEN cm'.authPrompt /\ cm'.told = <<>>
                                          ELSE ~cm'.authPrompt /\ cm'.told = <<cm.pending>>
  <2>1. Session!ReportOutcome
    BY <1>0, <1>7, ReportOfSession
  <2>. QED
    BY <2>1 DEF Session!SessionNext
<1>. QED
  BY <1>1, <1>3, <1>4, <1>5, <1>6, <1>7 DEF Follows

\* A manager just constructed has said nothing.
LEMMA InitTells == Init => Tells(cm) /\ Session!SessionInit
<1>. SUFFICES ASSUME Init PROVE Tells(cm) /\ Session!SessionInit
  OBVIOUS
<1>1. /\ cm.state = "Disconnected" /\ cm.blocking = FALSE /\ cm.authPrompt = FALSE /\ cm.told = <<>>
  BY DEF Init
<1>2. Tells(cm)
  BY <1>1 DEF Tells, Stoppable
<1>3. Session!SessionInit
  BY <1>1 DEF Session!SessionInit, Session!Nothing
<1>. QED
  BY <1>2, <1>3

\* Every step obeys.
LEMMA NextObeys == OutlivesPump /\ IInv /\ Tells(cm) /\ [Next]_vars => Obeys(cm, cm')
<1>. SUFFICES ASSUME OutlivesPump, IInv, Tells(cm), [Next]_vars PROVE Obeys(cm, cm')
  OBVIOUS
<1>1. CASE UNCHANGED vars
  BY <1>1 DEF vars, Obeys, Follows
<1>. QED
  BY <1>1, SlotsObey, RequestsObey, TimeoutsObey, SystemObeys, ConnectorObeys DEF IInv, Next

\* The invariant holds as long as sessions outlive the loop.
LEMMA AlwaysTells == Spec /\ []OutlivesPump => []Tells(cm)
<1>1. Init => Tells(cm)
  BY InitTells
<1>2. OutlivesPump /\ IInv /\ Tells(cm) /\ [Next]_vars => Tells(cm)'
  BY NextObeys DEF Obeys
<1>. QED
  BY <1>1, <1>2, AlwaysGood, PTL DEF Spec

\* Where there is no loop, they do.
LEMMA NeverPumped == Unpumped => (Spec => []OutlivesPump)
<1>. SUFFICES ASSUME Unpumped PROVE Spec => []OutlivesPump
  OBVIOUS
<1>. DEFINE Calm == ~cm.blocking
<1>1. Init => Calm
  BY DEF Init
<1>2. IInv /\ Calm /\ [Next]_vars => Calm'
  <2>. SUFFICES ASSUME IInv, Calm, [Next]_vars PROVE Calm'
    OBVIOUS
  <2>1. CASE UNCHANGED vars
    BY <2>1 DEF vars
  <2>2. CASE Next
    BY <2>2, PumpStarts DEF IInv, Unpumped, OnSleepMode
  <2>. QED
    BY <2>1, <2>2
<1>3. Calm => OutlivesPump
  BY DEF OutlivesPump
<1>. QED
  BY <1>1, <1>2, <1>3, AlwaysGood, PTL DEF Spec

\* The manager keeps the promises of VpnSession, step by step, on every platform
\* and whatever its connectors, timers and strategies do, as long as no session
\* ends inside the sleep handler's event loop: a request is answered by one
\* outcome, an end that is decided is reported, and a parked or sleeping session
\* tries again before it is up (the signals of connectionmanager.h, onSleepMode()).
THEOREM OutlivingSessionKept == Spec /\ []OutlivesPump => SessionKept
<1>1. Init => Session!SessionInit
  BY InitTells
<1>2. OutlivesPump /\ IInv /\ IInv' /\ Tells(cm) /\ [Next]_vars => [Session!SessionNext]_(Session!svars)
  BY NextObeys, FollowsSession DEF IInv, Good, Obeys
<1>. QED
  BY <1>1, <1>2, AlwaysTells, AlwaysGood, PTL DEF Spec, SessionKept, Session!SessionSpec

\* Where the sleep handler does not run the event loop, that is all sessions.
THEOREM ManagerKeepsSession == Unpumped => (Spec => SessionKept)
<1>. SUFFICES ASSUME Unpumped PROVE Spec => SessionKept
  OBVIOUS
<1>. QED
  BY NeverPumped, OutlivingSessionKept, PTL

\* The user's own stop is the outcome of the session: no timer, error, wake or
\* late signal replaces it (onWakeMode(), onTimerReconnection()), as long as none is
\* begun inside the sleep handler's event loop, where the run sleep_pump loses one.
THEOREM OutlivingStopHolds == Spec /\ []OutlivesPump => UserStopWins
<1>. DEFINE Wins == cm.state = "Stopping" /\ cm.pending = "user" =>
                      \/ cm'.state = "Stopping" /\ cm'.pending = "user"
                      \/ cm'.state = "Disconnected" /\ cm'.told = <<"user">>
<1>1. OutlivesPump /\ IInv /\ Tells(cm) /\ [Next]_vars => [Wins]_vars
  <2>1. cm.state = "Stopping" /\ Follows(cm, cm') => Wins
    BY DEF Follows, Stopped, Runs
  <2>2. OutlivesPump /\ IInv /\ Tells(cm) /\ [Next]_vars => Follows(cm, cm')
    BY NextObeys DEF Obeys
  <2>. QED
    BY <2>1, <2>2
<1>. QED
  BY <1>1, AlwaysTells, AlwaysGood, PTL DEF Spec, UserStopWins

\* Where the sleep handler does not run the event loop, no stop is lost.
THEOREM UserStopHolds == Unpumped => (Spec => UserStopWins)
<1>. SUFFICES ASSUME Unpumped PROVE Spec => UserStopWins
  OBVIOUS
<1>. QED
  BY NeverPumped, OutlivingStopHolds, PTL

\* The engine hears of each session once at most, when it is over, and of the
\* question in its place (the disconnected and error signals of
\* connectionmanager.h).
THEOREM OutlivingAnsweredOnce == Spec /\ []OutlivesPump => []Session!AnsweredOnce
<1>. DEFINE Once == Len(cm.told) <= 1
<1>1. Init => Once
  BY DEF Init
<1>2. OutlivesPump /\ IInv /\ Tells(cm) /\ Once /\ [Next]_vars => Once'
  <2>. SUFFICES ASSUME OutlivesPump, IInv, Tells(cm), Once, [Next]_vars PROVE Len(cm'.told) <= 1
    OBVIOUS
  <2>1. Follows(cm, cm')
    BY NextObeys DEF Obeys
  <2>2. cm'.told = cm.told \/ cm'.told = <<>> \/ \E o \in Outcomes : cm'.told = <<o>>
    <3>1. cm.pending \in Outcomes \cup {"authError"} /\ "user" \in Outcomes
      BY DEF IInv, Good, TypeOfManager, Outcomes
    <3>. QED
      BY <2>1, <3>1 DEF Follows, Leads, Stopped
  <2>3. CASE cm'.told = cm.told
    BY <2>3
  <2>4. CASE cm'.told = <<>>
    BY <2>4
  <2>5. CASE \E o \in Outcomes : cm'.told = <<o>>
    BY <2>5
  <2>. QED
    BY <2>2, <2>3, <2>4, <2>5
<1>3. IInv /\ Tells(cm) /\ Once => Session!AnsweredOnce
  <2>. SUFFICES ASSUME IInv, Tells(cm), Once PROVE Session!AnsweredOnce
    OBVIOUS
  <2>1. cm.state \in States
    BY DEF IInv, Good, TypeOfManager
  <2>. QED
    BY <2>1 DEF Session!AnsweredOnce, Tells, States
<1>. QED
  BY <1>1, <1>2, <1>3, AlwaysTells, AlwaysGood, PTL DEF Spec

\* Where the sleep handler does not run the event loop, of every session.
THEOREM EachSessionAnsweredOnce == Unpumped => (Spec => []Session!AnsweredOnce)
<1>. SUFFICES ASSUME Unpumped PROVE Spec => []Session!AnsweredOnce
  OBVIOUS
<1>. QED
  BY NeverPumped, OutlivingAnsweredOnce, PTL
===============================================================================
