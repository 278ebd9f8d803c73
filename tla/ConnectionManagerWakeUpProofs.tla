-------------------- MODULE ConnectionManagerWakeUpProofs -------------------
(***************************************************************************)
(* A session parked without a network always has what resumes it, and a    *)
(* configuration fetched for an attempt outlives the failures of earlier   *)
(* ones.  Both follow from one inductive invariant, Kept, beside Good of   *)
(* ConnectionManagerProofs.  An operation is followed along its calls: each*)
(* has a lemma that names its ways out, and one that says what they keep.  *)
(***************************************************************************)
EXTENDS ConnectionManagerProofs

-----------------------------------------------------------------------------
(* The invariant, and what each helper leaves alone                         *)

\* The attempt's walk after its failure is recorded.
Walked(m) == [m EXCEPT !.walk = RecordFailure(m.walk, m.succeeded).walk]

\* The record that ignores the rest of the connector's errors.
Seen(m) == [m EXCEPT !.ignore = TRUE]

\* What an operation leaves alone that neither moves the connector nor the session.
Skeleton(m) == <<m.state, m.timers, m.conn, m.dialed, m.queue, m.blocking, m.lastOnline, m.authPrompt>>

\* What decides how often a configuration may be fetched.
Budget(m) == <<m.walk, m.fetches, m.fetchMode, m.stored>>

\* The connector's own disconnected() is waiting in the queue.
Ended(m) == \E i \in DOMAIN m.queue : m.queue[i].current /\ m.queue[i].name = "disconnected"

\* The rest timer runs only between two attempts, and a session parked without
\* a network has a timer that looks again, or a connector that will end.
Placed(m) ==
    /\ "rest" \in m.timers => m.conn = "none"
    /\ m.state = "WaitingForNetwork" =>
        \/ {"cap", "poll"} \subseteq m.timers
        \/ m.conn # "none" /\ m.dialed
        \/ Ended(m)

\* A cached configuration is usable only by a strategy that fetches one, and a
\* normal fetch is made only while the cached attempts are not used up.
Fresh(m) ==
    /\ m.walk.kind \notin {"manual", "auto"} => ~m.walk.usable
    /\ m.fetchMode = "Normal" /\ m.fetches => m.walk.cached < MaxCachedConfigAttempts \/ ~m.walk.usable

\* What an update of the strategy may do to the cached attempts.
Thrifty(s, t) == t.kind = s.kind /\ (t.usable => s.usable) /\ t.cached \in {s.cached, 0}

\* Every update of a strategy but the count of a cached attempt is thrifty.
LEMMA ThriftyUpdates ==
    ASSUME NEW s \in Strategy
    PROVE  /\ Thrifty(s, Reset(s))
           /\ Thrifty(s, PutFailedConnection(s))
           /\ Thrifty(s, ResetCachedConfigBudget(s))
           /\ Thrifty(s, ForgetCachedConfig(s))
           /\ \A n \in Nat : Thrifty(s, OnEndpointsReceived(s, n))
           /\ \A b \in BOOLEAN : Thrifty(s, RecordFailure(s, b).walk)
<1>1. Thrifty(s, Reset(s))
  BY DEF Thrifty, Reset, Strategy
<1>2. Thrifty(s, PutFailedConnection(s))
  <2>1. s.kind \in {"manual", "auto", "custom", "emergency"}
    BY DEF Strategy, Kinds
  <2>2. \A p \in Nat : Thrifty(s, [s EXCEPT !.pos = p])
    BY DEF Thrifty, Strategy
  <2>3. Thrifty(s, [s EXCEPT !.allFailed = TRUE]) /\ Thrifty(s, s)
    BY DEF Thrifty, Strategy
  <2>4. s.pos \in Nat /\ s.pos + 1 \in Nat
    BY DEF Strategy
  <2>. QED
    BY <2>1, <2>2, <2>3, <2>4 DEF PutFailedConnection
<1>3. Thrifty(s, ResetCachedConfigBudget(s)) /\ Thrifty(s, ForgetCachedConfig(s))
  BY DEF Thrifty, ResetCachedConfigBudget, ForgetCachedConfig, Strategy
<1>4. \A n \in Nat : Thrifty(s, OnEndpointsReceived(s, n))
  BY DEF Thrifty, OnEndpointsReceived, Strategy
<1>5. \A b \in BOOLEAN : Thrifty(s, RecordFailure(s, b).walk)
  <2>. DEFINE p == PutFailedConnection(s)
  <2>1. p \in Strategy
    BY StrategyType
  <2>2. Reset(p) \in Strategy /\ Thrifty(p, Reset(p))
    <3>. HIDE DEF p
    <3>1. Reset(p) \in Strategy
      BY <2>1, StrategyType
    <3>2. Thrifty(p, Reset(p))
      BY <2>1 DEF Thrifty, Reset, Strategy
    <3>. QED
      BY <3>1, <3>2
  <2>. DEFINE r == Reset(p)
  <2>. HIDE DEF r
  <2>3. Thrifty(r, ResetCachedConfigBudget(r))
    BY <2>2 DEF r, Thrifty, ResetCachedConfigBudget, Strategy
  <2>4. Thrifty(s, p)
    BY <1>2
  <2>. HIDE DEF p
  <2>5. Thrifty(s, ResetCachedConfigBudget(r))
    BY <2>2, <2>3, <2>4 DEF Thrifty, r
  <2>. QED
    BY <2>4, <2>5 DEF RecordFailure, p, r
<1>. QED
  BY <1>1, <1>2, <1>3, <1>4, <1>5

\* The inductive invariant of the two properties below.
Kept(m) == Placed(m) /\ Fresh(m)

\* An operation that keeps the invariant and the stored configuration.
Keeps(m, n) == Kept(n) /\ n.stored = m.stored

\* A walk that is updated thriftily, and nothing else that counts.
LEMMA ThriftyKeeps ==
    ASSUME NEW m \in TypeOfManager, Kept(m), NEW n, Skeleton(n) = Skeleton(m),
           n.fetches = m.fetches, n.fetchMode = m.fetchMode, n.stored = m.stored,
           Thrifty(m.walk, n.walk)
    PROVE  Keeps(m, n)
<1>1. Placed(n)
  BY DEF Kept, Placed, Skeleton, Ended
<1>2. m.walk.cached \in Nat /\ n.walk.cached \in Nat
  BY DEF TypeOfManager, Strategy, Thrifty
<1>3. Fresh(n)
  BY <1>2 DEF Kept, Fresh, Thrifty, MaxCachedConfigAttempts
<1>. QED
  BY <1>1, <1>3 DEF Keeps, Kept

\* What is fresh is fresh while nothing it reads changes.
LEMMA FreshSame ==
    ASSUME NEW m, Fresh(m), NEW n, Budget(n) = Budget(m)
    PROVE  Fresh(n) /\ n.stored = m.stored
BY DEF Fresh, Budget

\* setState(), the timers.
LEMMA SetStateFrame ==
    ASSUME NEW m \in TypeOfManager, NEW s, NEW c
    PROVE  /\ Budget(SetState(m, s, c)) = Budget(m)
           /\ Skeleton(SetState(m, s, c)) = <<s, m.timers, m.conn, m.dialed, m.queue, m.blocking, m.lastOnline, m.authPrompt>>
BY DEF SetState, Budget, Skeleton, TypeOfManager

\* The timers are all that starting and stopping a timer changes.
LEMMA ArmFrame ==
    ASSUME NEW m \in TypeOfManager, NEW ts
    PROVE  /\ Budget(Arm(m, ts)) = Budget(m)
           /\ Skeleton(Arm(m, ts)) = <<m.state, m.timers \cup ts, m.conn, m.dialed, m.queue, m.blocking, m.lastOnline, m.authPrompt>>
           /\ Budget(Disarm(m, ts)) = Budget(m)
           /\ Skeleton(Disarm(m, ts)) = <<m.state, m.timers \ ts, m.conn, m.dialed, m.queue, m.blocking, m.lastOnline, m.authPrompt>>
BY DEF Arm, Disarm, Budget, Skeleton, TypeOfManager

\* A report changes neither the connector nor the budget.
LEMMA ReportFrame ==
    ASSUME NEW m \in TypeOfManager, NEW o
    PROVE  Budget(Report(m, o)) = Budget(m) /\ Skeleton(Report(m, o)) = Skeleton(m)
BY DEF Report, Budget, Skeleton, TypeOfManager

\* Ending a session stops its timers and leaves its connector alone.
LEMMA DisconnectFrame ==
    ASSUME NEW m \in TypeOfManager, NEW o
    PROVE  /\ Budget(Disconnect(m)) = Budget(m)
           /\ Skeleton(Disconnect(m)) = <<"Disconnected", {}, m.conn, m.dialed, m.queue, m.blocking, m.lastOnline, m.authPrompt>>
           /\ Budget(Stop(m, o)) = Budget(m)
           /\ Skeleton(Stop(m, o)) = <<"Stopping", {}, m.conn, m.dialed, m.queue, m.blocking, m.lastOnline, m.authPrompt>>
BY DEF Disconnect, Stop, SetState, Budget, Skeleton, TypeOfManager

\* Deleting the connector leaves the session and its timers alone.
LEMMA RetireFrame ==
    ASSUME NEW m \in TypeOfManager
    PROVE  /\ Retire(m).walk = m.walk /\ Retire(m).fetches = m.fetches /\ Retire(m).stored = m.stored
           /\ Retire(m).fetchMode = "None"
           /\ Skeleton(Retire(m)) = <<m.state, m.timers, "none", FALSE, Retire(m).queue, m.blocking, m.lastOnline, m.authPrompt>>
BY DEF Retire, Skeleton, TypeOfManager

\* A signal is appended, unless the manager is in its blocking wait.
LEMMA EmitFrame ==
    ASSUME NEW m \in TypeOfManager, NEW name, NEW err
    PROVE  /\ Budget(Emit(m, name, err)) = Budget(m)
           /\ Skeleton(Emit(m, name, err)) = <<m.state, m.timers, m.conn, m.dialed, Emit(m, name, err).queue, m.blocking, m.lastOnline, m.authPrompt>>
           /\ Emit(m, name, err).queue = IF m.blocking THEN m.queue
                ELSE Append(m.queue, [current |-> TRUE, name |-> name, err |-> err])
BY DEF Emit, Budget, Skeleton, TypeOfManager

\* startDisconnect() by the phase of the connector: at once, after the start, by
\* the tunnel's own end, or nothing to do.
LEMMA StartDisconnectFrame ==
    ASSUME NEW m \in TypeOfManager
    PROVE  LET d == StartDisconnect(m) IN
           /\ Budget(d) = Budget(m)
           /\ Skeleton(d) = <<m.state, m.timers, d.conn, m.dialed, d.queue, m.blocking, m.lastOnline, m.authPrompt>>
           /\ \/ /\ m.conn \in {"idle", "down"} /\ d.conn = "down"
                 /\ d.queue = IF m.blocking THEN m.queue
                      ELSE Append(m.queue, [current |-> TRUE, name |-> "disconnected", err |-> "kNoError"])
              \/ m.conn = "starting" /\ d.conn = "aborting" /\ d.queue = m.queue
              \/ m.conn \in {"dialing", "up"} /\ d.conn = "stopping" /\ d.queue = m.queue
              \/ m.conn \in {"none", "aborting", "stopping"} /\ d.conn = m.conn /\ d.queue = m.queue
<1>. DEFINE c == [m EXCEPT !.conn = "down", !.prep = "none"]
<1>1. CASE m.conn \in {"idle", "down"}
  <2>1. /\ c \in TypeOfManager /\ c.conn = "down" /\ Budget(c) = Budget(m) /\ c.queue = m.queue /\ c.blocking = m.blocking
        /\ Skeleton(c) = <<m.state, m.timers, "down", m.dialed, m.queue, m.blocking, m.lastOnline, m.authPrompt>>
    BY DEF TypeOfManager, Budget, Skeleton, Connectors
  <2>2. StartDisconnect(m) = Emit(c, "disconnected", "kNoError")
    BY <1>1 DEF StartDisconnect
  <2>. HIDE DEF c
  <2>. DEFINE e == Emit(c, "disconnected", "kNoError")
  <2>3. /\ Budget(e) = Budget(c)
        /\ Skeleton(e) = <<c.state, c.timers, c.conn, c.dialed, e.queue, c.blocking, c.lastOnline, c.authPrompt>>
        /\ e.queue = IF c.blocking THEN c.queue
                ELSE Append(c.queue, [current |-> TRUE, name |-> "disconnected", err |-> "kNoError"])
    BY <2>1, EmitFrame
  <2>4. StartDisconnect(m) = e
    BY <2>2
  <2>. HIDE DEF e
  <2>5. e.conn = "down"
    BY <2>1, <2>3 DEF Skeleton
  <2>. QED
    BY <1>1, <2>1, <2>3, <2>4, <2>5 DEF Skeleton
<1>2. CASE m.conn = "starting"
  BY <1>2 DEF StartDisconnect, TypeOfManager, Budget, Skeleton
<1>3. CASE m.conn \in {"dialing", "up"}
  BY <1>3 DEF StartDisconnect, TypeOfManager, Budget, Skeleton
<1>4. CASE m.conn \in {"none", "aborting", "stopping"}
  <2>1. StartDisconnect(m) = m
    BY <1>4 DEF StartDisconnect
  <2>. QED
    BY <1>4, <2>1 DEF Skeleton
<1>. QED
  BY <1>1, <1>2, <1>3, <1>4 DEF TypeOfManager, Connectors

\* A queue with one more signal.
LEMMA AppendFacts ==
    ASSUME NEW q \in Seq(Signals), NEW e \in Signals
    PROVE  /\ Append(q, e) \in Seq(Signals)
           /\ DOMAIN Append(q, e) = DOMAIN q \cup {Len(q) + 1}
           /\ Append(q, e)[Len(q) + 1] = e
           /\ \A i \in DOMAIN q : Append(q, e)[i] = q[i]
OBVIOUS

\* A signal that is appended does not undo the end that is queued.
LEMMA EmitEnded ==
    ASSUME NEW m \in TypeOfManager, NEW e \in Signals, NEW n, n.queue = Append(m.queue, e)
    PROVE  /\ Ended(m) => Ended(n)
           /\ e.current /\ e.name = "disconnected" => Ended(n)
<1>1. m.queue \in Seq(Signals)
  BY DEF TypeOfManager
<1>2. /\ DOMAIN n.queue = DOMAIN m.queue \cup {Len(m.queue) + 1}
      /\ n.queue[Len(m.queue) + 1] = e
      /\ \A i \in DOMAIN m.queue : n.queue[i] = m.queue[i]
  BY <1>1, AppendFacts
<1>. QED
  BY <1>2 DEF Ended

-----------------------------------------------------------------------------
(* The ends of a session and of an attempt                                  *)

\* A session with nothing parked and its budget unchanged.
LEMMA AwakeKeeps ==
    ASSUME NEW m, Fresh(m), NEW n, Budget(n) = Budget(m),
           "rest" \in n.timers => n.conn = "none", n.state # "WaitingForNetwork"
    PROVE  Keeps(m, n)
BY DEF Keeps, Kept, Placed, Fresh, Budget

\* startDisconnect() keeps the invariant.
LEMMA StartDisconnectKeeps ==
    ASSUME NEW m \in TypeOfManager, Kept(m)
    PROVE  Keeps(m, StartDisconnect(m))
<1>. DEFINE d == StartDisconnect(m)
            bye == [current |-> TRUE, name |-> "disconnected", err |-> "kNoError"]
<1>1. /\ Budget(d) = Budget(m)
      /\ Skeleton(d) = <<m.state, m.timers, d.conn, m.dialed, d.queue, m.blocking, m.lastOnline, m.authPrompt>>
      /\ d.conn = "none" <=> m.conn = "none"
      /\ d.queue \in {m.queue, Append(m.queue, bye)}
  BY StartDisconnectFrame
<1>2. bye \in Signals
  BY DEF Signals, SignalNames, ConnectError, OtherErrors
<1>. HIDE DEF d, bye
<1>3. Ended(m) => Ended(d)
  BY <1>1, <1>2, EmitEnded DEF Ended
<1>4. Placed(d)
  BY <1>1, <1>3 DEF Kept, Placed, Skeleton
<1>5. Fresh(d) /\ d.stored = m.stored
  BY <1>1, FreshSame DEF Kept
<1>. QED
  BY <1>4, <1>5 DEF Keeps, Kept, d

\* Starting and stopping a timer keep the invariant, but for the two a parked
\* session lives by.
LEMMA TimersKeep ==
    ASSUME NEW m \in TypeOfManager, Kept(m), NEW ts
    PROVE  /\ ("rest" \in ts => m.conn = "none") => Keeps(m, Arm(m, ts))
           /\ (ts \cap {"cap", "poll"} = {} \/ m.state # "WaitingForNetwork") => Keeps(m, Disarm(m, ts))
<1>1. /\ Budget(Arm(m, ts)) = Budget(m)
      /\ Skeleton(Arm(m, ts)) = <<m.state, m.timers \cup ts, m.conn, m.dialed, m.queue, m.blocking, m.lastOnline, m.authPrompt>>
      /\ Budget(Disarm(m, ts)) = Budget(m)
      /\ Skeleton(Disarm(m, ts)) = <<m.state, m.timers \ ts, m.conn, m.dialed, m.queue, m.blocking, m.lastOnline, m.authPrompt>>
  BY ArmFrame
<1>2. Fresh(Arm(m, ts)) /\ Arm(m, ts).stored = m.stored /\ Fresh(Disarm(m, ts)) /\ Disarm(m, ts).stored = m.stored
  BY <1>1, FreshSame DEF Kept
<1>3. ("rest" \in ts => m.conn = "none") => Placed(Arm(m, ts))
  BY <1>1 DEF Kept, Placed, Skeleton, Ended
<1>4. (ts \cap {"cap", "poll"} = {} \/ m.state # "WaitingForNetwork") => Placed(Disarm(m, ts))
  BY <1>1 DEF Kept, Placed, Skeleton, Ended
<1>. QED
  BY <1>2, <1>3, <1>4 DEF Keeps, Kept

\* The ends of a session keep it.
LEMMA EndKeeps ==
    ASSUME NEW m \in TypeOfManager, Kept(m), NEW o
    PROVE  /\ Keeps(m, Disconnect(m)) /\ Keeps(m, Stop(m, o)) /\ Keeps(m, Report(m, o))
           /\ Keeps(m, Retire(m)) \/ m.state = "WaitingForNetwork"
<1>1. Keeps(m, Disconnect(m)) /\ Keeps(m, Stop(m, o))
  BY DisconnectFrame, AwakeKeeps DEF Skeleton, Kept
<1>2. Keeps(m, Report(m, o))
  BY ReportFrame, FreshSame DEF Keeps, Kept, Placed, Skeleton, Ended
<1>3. Fresh(Retire(m)) /\ Retire(m).stored = m.stored
  BY RetireFrame DEF Kept, Fresh
<1>4. m.state # "WaitingForNetwork" => Placed(Retire(m))
  BY RetireFrame DEF Kept, Placed, Skeleton
<1>. QED
  BY <1>1, <1>2, <1>3, <1>4 DEF Keeps, Kept

\* A session that ends with an error at once keeps it.
LEMMA FailWithErrorKeeps ==
    ASSUME NEW m, Good(m), Kept(m)
    PROVE  Keeps(m, FailWithError(m))
<1>. DEFINE r == IF m.conn = "none" THEN m ELSE Retire(m)
            d == Disconnect(r)
<1>1. m \in TypeOfManager
  BY DEF Good
<1>2. r \in TypeOfManager /\ Owned(r) /\ Fresh(r) /\ r.stored = m.stored
  BY <1>1, RetireFacts, RetireFrame DEF Good, Kept, Fresh
<1>. HIDE DEF r
<1>3. d \in TypeOfManager
  BY <1>2, DisconnectGood DEF Good
<1>4. /\ Budget(d) = Budget(r)
      /\ Skeleton(d) = <<"Disconnected", {}, r.conn, r.dialed, r.queue, r.blocking, r.lastOnline, r.authPrompt>>
  BY <1>2, DisconnectFrame
<1>. HIDE DEF d
<1>5. Fresh(d) /\ d.stored = m.stored /\ d.timers = {} /\ d.state = "Disconnected"
  BY <1>2, <1>4, FreshSame DEF Skeleton
<1>6. Kept(d)
  BY <1>5 DEF Kept, Placed
<1>7. Keeps(d, Report(d, "error"))
  BY <1>3, <1>6, EndKeeps
<1>8. FailWithError(m) = Report(d, "error")
  BY DEF FailWithError, r, d
<1>. QED
  BY <1>5, <1>7, <1>8 DEF Keeps

\* Updates of the walk, and of what neither part reads.
LEMMA WalkKeeps ==
    ASSUME NEW m \in TypeOfManager, Kept(m), NEW b \in BOOLEAN
    PROVE  /\ Keeps(m, ResetWalk(m)) /\ Keeps(m, Walked(m)) /\ Keeps(m, Seen(m))
           /\ Keeps(m, [m EXCEPT !.ignore = b])
<1>1. m.walk \in Strategy /\ m.succeeded \in BOOLEAN
  BY DEF TypeOfManager
<1>2. Thrifty(m.walk, Reset(m.walk)) /\ Thrifty(m.walk, RecordFailure(m.walk, m.succeeded).walk) /\ Thrifty(m.walk, m.walk)
  BY <1>1, ThriftyUpdates DEF Thrifty
<1>3. ASSUME NEW w, Thrifty(m.walk, w) PROVE Keeps(m, [m EXCEPT !.walk = w])
  <2>. DEFINE n == [m EXCEPT !.walk = w]
  <2>1. Skeleton(n) = Skeleton(m) /\ n.walk = w /\ n.fetches = m.fetches /\ n.fetchMode = m.fetchMode /\ n.stored = m.stored
    BY DEF Skeleton, TypeOfManager
  <2>. HIDE DEF n
  <2>2. Keeps(m, n)
    BY <1>3, <2>1, ThriftyKeeps
  <2>. QED
    BY <2>2 DEF n
<1>4. Keeps(m, ResetWalk(m))
  <2>1. /\ Skeleton(ResetWalk(m)) = Skeleton(m) /\ ResetWalk(m).walk = Reset(m.walk)
        /\ ResetWalk(m).fetches = m.fetches /\ ResetWalk(m).fetchMode = m.fetchMode /\ ResetWalk(m).stored = m.stored
    BY DEF ResetWalk, Skeleton, TypeOfManager
  <2>. QED
    BY <1>2, <2>1, ThriftyKeeps
<1>5. Keeps(m, [m EXCEPT !.ignore = b]) /\ Keeps(m, Seen(m))
  <2>1. ASSUME NEW c PROVE Keeps(m, [m EXCEPT !.ignore = c])
    <3>. DEFINE n == [m EXCEPT !.ignore = c]
    <3>1. Skeleton(n) = Skeleton(m) /\ n.walk = m.walk /\ n.fetches = m.fetches /\ n.fetchMode = m.fetchMode /\ n.stored = m.stored
      BY DEF Skeleton, TypeOfManager
    <3>. HIDE DEF n
    <3>2. Keeps(m, n)
      BY <1>2, <3>1, ThriftyKeeps
    <3>. QED
      BY <3>2 DEF n
  <2>. QED
    BY <2>1 DEF Seen
<1>. QED
  BY <1>2, <1>3, <1>4, <1>5 DEF Walked

\* The same updates keep the record in order.
LEMMA WalkGood ==
    ASSUME NEW m, Good(m), NEW b \in BOOLEAN
    PROVE  /\ Good(Walked(m)) /\ Good(Seen(m)) /\ Good([m EXCEPT !.ignore = b])
           /\ Skeleton(Walked(m)) = Skeleton(m) /\ Skeleton(Seen(m)) = Skeleton(m)
           /\ Skeleton([m EXCEPT !.ignore = b]) = Skeleton(m)
<1>. DEFINE w == RecordFailure(m.walk, m.succeeded).walk
<1>1. w \in Strategy
  BY RecordFailureType DEF Good, TypeOfManager
<1>2. Walked(m) = [m EXCEPT !.walk = w]
  BY DEF Walked
<1>. HIDE DEF w
<1>3. Good(Walked(m))
  BY <1>1, <1>2 DEF Good, Quiet, Manned, Owned, IsSettled, TypeOfManager
<1>4. Good([m EXCEPT !.ignore = b]) /\ Good(Seen(m))
  BY DEF Seen, Good, Quiet, Manned, Owned, IsSettled, TypeOfManager
<1>5. Skeleton(Walked(m)) = Skeleton(m)
  BY <1>2 DEF Good, Skeleton, TypeOfManager
<1>6. Skeleton([m EXCEPT !.ignore = b]) = Skeleton(m) /\ Skeleton(Seen(m)) = Skeleton(m)
  BY DEF Good, Skeleton, Seen, TypeOfManager
<1>. QED
  BY <1>3, <1>4, <1>5, <1>6

\* clickDisconnect() keeps it.
LEMMA ClickKeeps ==
    ASSUME NEW m, Good(m), Kept(m)
    PROVE  Keeps(m, Click(m))
<1>0. m \in TypeOfManager /\ "user" \in Outcomes
  BY DEF Good, Outcomes
<1>1. Keeps(m, Stop(m, "user")) /\ Good(Stop(m, "user"))
  BY <1>0, EndKeeps, StopGood
<1>2. Keeps(m, StartDisconnect(Stop(m, "user")))
  BY <1>1, StartDisconnectKeeps DEF Keeps, Good
<1>3. Keeps(m, Disconnect(m)) /\ Good(Disconnect(m))
  BY <1>0, EndKeeps, DisconnectGood DEF Good
<1>4. Keeps(m, ResetWalk(Disconnect(m))) /\ Good(ResetWalk(Disconnect(m)))
  BY <1>3, WalkKeeps, ResetWalkGood DEF Keeps, Good
<1>5. Keeps(m, Report(ResetWalk(Disconnect(m)), "user"))
  BY <1>4, EndKeeps DEF Keeps, Good
<1>. QED
  BY <1>2, <1>5 DEF Click, Keeps

\* The session that reconnects keeps it.
LEMMA EnterReconnectingKeeps ==
    ASSUME NEW m, Good(m), Kept(m)
    PROVE  Keeps(m, EnterReconnecting(m))
<1>. DEFINE r == SetState(m, "Reconnecting", "Regular")
<1>1. Good(r)
  BY SetStateGood
<1>2. Keeps(m, r)
  BY SetStateFrame, AwakeKeeps DEF Good, Skeleton, Kept, Placed
<1>. HIDE DEF r
<1>3. Keeps(r, Arm(r, {"cap"}))
  BY <1>1, <1>2, TimersKeep DEF Good, Keeps
<1>. QED
  BY <1>2, <1>3 DEF EnterReconnecting, Keeps, r

\* The ways out of handleAttemptFailed().
LEMMA HandleAttemptFailedWays ==
    ASSUME NEW m \in TypeOfManager, NEW b \in BOOLEAN
    PROVE  \E n : /\ \/ n = Walked(m) /\ m.state = "Reconnecting"
                     \/ n \in {Stop(Walked(m), "itself"), EnterReconnecting(Walked(m))}
                  /\ HandleAttemptFailed(m, b) = IF b THEN StartDisconnect(n) ELSE n
<1>1. Walked(m).state = m.state
  BY DEF Walked, TypeOfManager
<1>. QED
  BY <1>1 DEF HandleAttemptFailed, Walked

\* handleAttemptFailed() keeps the invariant.
LEMMA HandleAttemptFailedKeeps ==
    ASSUME NEW m, Good(m), Kept(m), NEW b \in BOOLEAN
    PROVE  Keeps(m, HandleAttemptFailed(m, b))
<1>1. Keeps(m, Walked(m)) /\ Good(Walked(m))
  BY WalkKeeps, WalkGood DEF Good
<1>2. Keeps(m, Stop(Walked(m), "itself")) /\ Good(Stop(Walked(m), "itself"))
  BY <1>1, EndKeeps, StopGood DEF Keeps, Good, Outcomes
<1>3. Keeps(m, EnterReconnecting(Walked(m))) /\ Good(EnterReconnecting(Walked(m)))
  BY <1>1, EnterReconnectingKeeps, EnterReconnectingGood DEF Keeps
<1>4. PICK n : /\ n \in {Walked(m), Stop(Walked(m), "itself"), EnterReconnecting(Walked(m))}
               /\ HandleAttemptFailed(m, b) = IF b THEN StartDisconnect(n) ELSE n
  BY HandleAttemptFailedWays DEF Good
<1>5. Keeps(m, n) /\ Good(n)
  BY <1>1, <1>2, <1>3, <1>4
<1>6. Keeps(m, StartDisconnect(n))
  BY <1>5, StartDisconnectKeeps DEF Keeps, Good
<1>. QED
  BY <1>4, <1>5, <1>6

\* onConnectionReconnecting() keeps it.
LEMMA HandleReconnectingKeeps ==
    ASSUME NEW m, Good(m), Kept(m)
    PROVE  Keeps(m, HandleReconnecting(m))
<1>1. Keeps(m, Seen(m)) /\ Good(Seen(m))
  BY WalkKeeps, WalkGood DEF Good
<1>2. Keeps(m, HandleAttemptFailed(Seen(m), TRUE))
  BY <1>1, HandleAttemptFailedKeeps DEF Keeps
<1>3. Keeps(m, EnterReconnecting(Seen(m))) /\ Good(EnterReconnecting(Seen(m)))
  BY <1>1, EnterReconnectingKeeps, EnterReconnectingGood DEF Keeps
<1>4. Keeps(m, StartDisconnect(EnterReconnecting(Seen(m))))
  BY <1>3, StartDisconnectKeeps DEF Keeps, Good
<1>5. m.ignore \in BOOLEAN
  BY DEF Good, TypeOfManager
<1>6. HandleReconnecting(m) \in
        {m, Seen(m), HandleAttemptFailed(Seen(m), TRUE), StartDisconnect(EnterReconnecting(Seen(m)))}
  BY <1>5 DEF HandleReconnecting, Seen
<1>. QED
  BY <1>1, <1>2, <1>4, <1>6 DEF Keeps

\* startFailoverReconnect() keeps it.
LEMMA StartFailoverReconnectKeeps ==
    ASSUME NEW m, Good(m), Kept(m)
    PROVE  Keeps(m, StartFailoverReconnect(m))
<1>1. Keeps(m, EnterReconnecting(m)) /\ Good(EnterReconnecting(m))
  BY EnterReconnectingKeeps, EnterReconnectingGood
<1>. QED
  BY <1>1, HandleReconnectingKeeps DEF StartFailoverReconnect, Keeps

-----------------------------------------------------------------------------
(* The next attempt, sleep and the end of a connector                       *)

\* The record whose connector's errors count again.
Advised(m) == [m EXCEPT !.ignore = FALSE]

\* The attempt that fetches its configuration, or needs none.
Preparing(m) ==
    LET gated == m.fetches /\ m.walk.kind # "custom"
    IN  [m EXCEPT !.prep = "preparing",
                  !.fetchMode = IF gated /\ m.alwaysOnPlus THEN "CachedOnly" ELSE "Normal",
                  !.walk = IF ~gated THEN m.walk
                           ELSE IF m.alwaysOnPlus THEN TakeCachedAttempt(m.walk)
                           ELSE ResetCachedConfigBudget(m.walk)]

\* The attempt's new connector.
Recreated(m) == RecreateConnector(m, PreResolveProtocol(m.walk))

\* The session that is parked until there is a network.
Waiting(m) == SetState(m, "WaitingForNetwork", "Regular")

\* The session that reconnects after a wake.
Waking(m) == SetState(m, "Reconnecting", "Wake")

\* The attempt that waits for the names of a custom configuration.
Resolving(m) == [m EXCEPT !.resolving = TRUE]

\* The ways out of onHostnamesResolved().
LEMMA HostnamesResolvedWays ==
    ASSUME NEW m, NEW env
    PROVE  \/ HostnamesResolved(m, env) = m
           \/ /\ m.conn # "none" /\ IsAttemptActive(m)
              /\ HostnamesResolved(m, env) \in
                   {FailWithError(Advised(m)), StartFailoverReconnect(Advised(m)), Preparing(Advised(m))}
BY DEF HostnamesResolved, Advised, Preparing

\* The ways out of startAttempt().
LEMMA StartAttemptWays ==
    ASSUME NEW m, NEW env
    PROVE  StartAttempt(m, env) \in
             {FailWithError(m), Arm(m, {"cap", "poll"}), Report(Disconnect(m), "itself"),
              Resolving(Recreated(m)), HostnamesResolved(Recreated(m), env)}
BY DEF StartAttempt, Recreated, Resolving

\* The ways out of restoreConnectionAfterWakeUp().
LEMMA RestoreWays ==
    ASSUME NEW m, NEW env
    PROVE  LET n == RestoreConnectionAfterWakeUp(m, env) IN
           \/ m.lastOnline /\ m.conn # "none" /\ n = StartDisconnect(Waking(m))
           \/ m.lastOnline /\ m.conn = "none" /\ n = StartAttempt(Waking(m), env)
           \/ ~m.lastOnline /\ n = Arm(Waiting(m), {"cap", "poll"})
           \/ ~m.lastOnline /\ m.conn # "none" /\ m.dialed /\ n = Waiting(m)
BY DEF RestoreConnectionAfterWakeUp, Waiting, Waking

\* The ways a running session goes when its connector has ended.
LEMMA AfterDeathWays ==
    ASSUME NEW m, m.state \in {"Connecting", "Reconnecting"}, NEW env
    PROVE  AfterDeath(m, env) \in
             {StartAttempt(EnterReconnecting(Walked(m)), env), StartAttempt(EnterReconnecting(m), env)}
             \cup {Report(Disconnect(n), "itself") : n \in {m, Walked(m)}}
             \cup {ConnectOrStartConnectTimer(n, env) : n \in {m, Walked(m)}}
<1>1. CASE m.state = "Connecting"
  BY <1>1 DEF AfterDeath, Walked
<1>2. CASE m.state = "Reconnecting"
  BY <1>2 DEF AfterDeath, Walked, EnterReconnecting
<1>. QED
  BY <1>1, <1>2

\* The fetch of a configuration keeps the invariant: a normal fetch begins with
\* no cached attempt used.
LEMMA PreparingKeeps ==
    ASSUME NEW m \in TypeOfManager, Kept(m)
    PROVE  Keeps(m, Preparing(m))
<1>. DEFINE gated == m.fetches /\ m.walk.kind # "custom"
            n == Preparing(m)
<1>1. /\ Skeleton(n) = Skeleton(m) /\ n.fetches = m.fetches /\ n.stored = m.stored
      /\ n.fetchMode = IF gated /\ m.alwaysOnPlus THEN "CachedOnly" ELSE "Normal"
      /\ n.walk = IF ~gated THEN m.walk
                  ELSE IF m.alwaysOnPlus THEN TakeCachedAttempt(m.walk)
                  ELSE ResetCachedConfigBudget(m.walk)
  BY DEF Preparing, Skeleton, TypeOfManager
<1>. HIDE DEF n
<1>2. m.walk \in Strategy /\ m.fetches \in BOOLEAN /\ m.alwaysOnPlus \in BOOLEAN
  BY DEF TypeOfManager
<1>3. /\ ResetCachedConfigBudget(m.walk).kind = m.walk.kind /\ TakeCachedAttempt(m.walk).kind = m.walk.kind
      /\ ResetCachedConfigBudget(m.walk).usable = m.walk.usable /\ TakeCachedAttempt(m.walk).usable = m.walk.usable
      /\ ResetCachedConfigBudget(m.walk).cached = 0
  BY <1>2 DEF Strategy, ResetCachedConfigBudget, TakeCachedAttempt
<1>4. Placed(n)
  BY <1>1 DEF Kept, Placed, Skeleton, Ended
<1>5. Fresh(n)
  BY <1>1, <1>2, <1>3 DEF Kept, Fresh, MaxCachedConfigAttempts
<1>. QED
  BY <1>1, <1>4, <1>5 DEF Keeps, Kept, n

\* onHostnamesResolved() keeps it.
LEMMA HostnamesResolvedKeeps ==
    ASSUME NEW m, Good(m), Kept(m), NEW env \in Conditions
    PROVE  Keeps(m, HostnamesResolved(m, env))
<1>1. Keeps(m, Advised(m)) /\ Good(Advised(m))
  BY WalkKeeps, WalkGood DEF Good, Advised
<1>2. Keeps(m, FailWithError(Advised(m))) /\ Keeps(m, StartFailoverReconnect(Advised(m)))
  BY <1>1, FailWithErrorKeeps, StartFailoverReconnectKeeps DEF Keeps
<1>3. Keeps(m, Preparing(Advised(m)))
  BY <1>1, PreparingKeeps DEF Keeps, Good
<1>4. Keeps(m, m)
  BY DEF Keeps
<1>. QED
  BY <1>2, <1>3, <1>4, HostnamesResolvedWays

\* A connector that has just been created.
LEMMA RecreatedFrame ==
    ASSUME NEW m \in TypeOfManager
    PROVE  LET n == Recreated(m) IN
           /\ n.walk = m.walk /\ n.stored = m.stored /\ n.fetchMode = "None"
           /\ \E ts \in SUBSET Timers :
                /\ Skeleton(n) = <<m.state, ts, "idle", FALSE, n.queue, m.blocking, m.lastOnline, m.authPrompt>>
                /\ ts \in {m.timers \ {"rest"}, (m.timers \ {"rest"}) \cup {"connecting"}}
           /\ n.queue = Retire(m).queue
<1>. DEFINE r == Retire(m)
            ts == (m.timers \ {"rest"})
                  \cup IF UsesConnectTimeout(m.walk) THEN {"connecting"} ELSE {}
<1>1. r \in TypeOfManager
  BY RetireFacts
<1>2. Recreated(m) = [r EXCEPT !.conn = "idle", !.fetches = (PreResolveProtocol(m.walk) = "wireguard"), !.timers = ts]
  BY DEF Recreated, RecreateConnector
<1>3. /\ r.walk = m.walk /\ r.stored = m.stored /\ r.fetchMode = "None"
      /\ Skeleton(r) = <<m.state, m.timers, "none", FALSE, r.queue, m.blocking, m.lastOnline, m.authPrompt>>
  BY RetireFrame
<1>4. ts \in SUBSET Timers /\ ts \in {m.timers \ {"rest"}, (m.timers \ {"rest"}) \cup {"connecting"}}
  BY DEF TypeOfManager, Timers
<1>. DEFINE wg == (PreResolveProtocol(m.walk) = "wireguard")
            n == [r EXCEPT !.conn = "idle", !.fetches = wg, !.timers = ts]
<1>. HIDE DEF r, ts, wg
<1>5. /\ n.walk = r.walk /\ n.stored = r.stored /\ n.fetchMode = r.fetchMode /\ n.queue = r.queue
      /\ n.state = r.state /\ n.timers = ts /\ n.conn = "idle" /\ n.dialed = r.dialed
      /\ n.blocking = r.blocking /\ n.lastOnline = r.lastOnline /\ n.authPrompt = r.authPrompt
  BY <1>1 DEF TypeOfManager
<1>6. Recreated(m) = n
  BY <1>2 DEF wg
<1>. HIDE DEF n
<1>7. /\ n.walk = m.walk /\ n.stored = m.stored /\ n.fetchMode = "None" /\ n.queue = r.queue
      /\ Skeleton(n) = <<m.state, ts, "idle", FALSE, n.queue, m.blocking, m.lastOnline, m.authPrompt>>
  BY <1>3, <1>5 DEF Skeleton
<1>. QED
  BY <1>4, <1>6, <1>7 DEF r

\* startAttempt() keeps it; a parked session that starts one has its timers.
LEMMA StartAttemptKeeps ==
    ASSUME NEW m, Good(m), Kept(m), ~IsSettled(m), NEW env \in Conditions,
           m.state # "WaitingForNetwork" \/ {"cap", "poll"} \subseteq m.timers
    PROVE  Keeps(m, StartAttempt(m, env))
<1>0. m \in TypeOfManager
  BY DEF Good
<1>1. Keeps(m, FailWithError(m))
  BY FailWithErrorKeeps
<1>2. Keeps(m, Arm(m, {"cap", "poll"}))
  BY <1>0, TimersKeep
<1>3. Keeps(m, Report(Disconnect(m), "itself"))
  <2>1. Keeps(m, Disconnect(m)) /\ Good(Disconnect(m))
    BY <1>0, EndKeeps, DisconnectGood DEF Good
  <2>. QED
    BY <2>1, EndKeeps DEF Keeps, Good
<1>4. Keeps(m, Recreated(m)) /\ Good(Recreated(m))
  <2>. DEFINE n == Recreated(m)
  <2>1. PICK ts \in SUBSET Timers :
          /\ Skeleton(n) = <<m.state, ts, "idle", FALSE, n.queue, m.blocking, m.lastOnline, m.authPrompt>>
          /\ ts \in {m.timers \ {"rest"}, (m.timers \ {"rest"}) \cup {"connecting"}}
    BY <1>0, RecreatedFrame
  <2>2. n.walk = m.walk /\ n.stored = m.stored /\ n.fetchMode = "None"
    BY <1>0, RecreatedFrame
  <2>3. Good(n)
    BY RecreateConnectorGood DEF Recreated
  <2>. HIDE DEF n
  <2>4. Placed(n)
    BY <2>1 DEF Placed, Skeleton
  <2>5. Fresh(n)
    BY <2>2 DEF Fresh, Kept
  <2>. QED
    BY <2>2, <2>3, <2>4, <2>5 DEF Keeps, Kept, n
<1>5. Keeps(m, HostnamesResolved(Recreated(m), env))
  BY <1>4, HostnamesResolvedKeeps DEF Keeps
<1>6. Keeps(m, Resolving(Recreated(m)))
  <2>. DEFINE r == Recreated(m)
              n == Resolving(r)
  <2>1. Skeleton(n) = Skeleton(r) /\ Budget(n) = Budget(r)
    BY <1>4 DEF Resolving, Skeleton, Budget, Good, TypeOfManager
  <2>. HIDE DEF r, n
  <2>2. Keeps(m, r)
    BY <1>4 DEF r
  <2>3. Keeps(m, n)
    BY <2>1, <2>2 DEF Keeps, Kept, Placed, Fresh, Skeleton, Budget, Ended
  <2>. QED
    BY <2>3 DEF n, r
<1>. QED
  BY <1>1, <1>2, <1>3, <1>5, <1>6, StartAttemptWays

\* The next attempt, at once or after a rest, keeps it.
LEMMA ConnectOrStartConnectTimerKeeps ==
    ASSUME NEW m, Good(m), Kept(m), m.state \in {"Connecting", "Reconnecting"}, m.conn = "none",
           NEW env \in Conditions
    PROVE  Keeps(m, ConnectOrStartConnectTimer(m, env))
<1>1. Keeps(m, Arm(m, {"rest"}))
  BY TimersKeep DEF Good
<1>2. Keeps(m, StartAttempt(m, env))
  BY StartAttemptKeeps DEF IsSettled
<1>. QED
  BY <1>1, <1>2 DEF ConnectOrStartConnectTimer

\* The restore after a wake puts a session in order that slept in any state.
LEMMA RestoreKeeps ==
    ASSUME NEW m, Good(m), Fresh(m), "rest" \in m.timers => m.conn = "none",
           NEW env \in Conditions
    PROVE  Keeps(m, RestoreConnectionAfterWakeUp(m, env))
<1>1. /\ Good(Waking(m)) /\ Waking(m).state = "Reconnecting" /\ ~IsSettled(Waking(m))
      /\ Good(Waiting(m)) /\ Waiting(m).state = "WaitingForNetwork"
      /\ Waiting(m).conn = m.conn
  BY SetStateGood DEF Waking, Waiting
<1>2. Keeps(m, Waking(m))
  BY SetStateFrame, AwakeKeeps DEF Waking, Good, Skeleton
<1>3. Keeps(m, StartDisconnect(Waking(m))) /\ Keeps(m, StartAttempt(Waking(m), env))
  BY <1>1, <1>2, StartDisconnectKeeps, StartAttemptKeeps DEF Keeps, Good
<1>4. /\ Budget(Waiting(m)) = Budget(m)
      /\ Skeleton(Waiting(m)) = <<"WaitingForNetwork", m.timers, m.conn, m.dialed, m.queue, m.blocking, m.lastOnline, m.authPrompt>>
  BY SetStateFrame DEF Waiting, Good
<1>5. m.conn # "none" /\ m.dialed => Keeps(m, Waiting(m))
  BY <1>4 DEF Keeps, Kept, Placed, Fresh, Skeleton, Budget
<1>6. Keeps(m, Arm(Waiting(m), {"cap", "poll"}))
  <2>. DEFINE w == Waiting(m)
              n == Arm(w, {"cap", "poll"})
  <2>1. w \in TypeOfManager
    BY <1>1 DEF Good
  <2>2. /\ Budget(n) = Budget(w)
        /\ Skeleton(n) = <<w.state, w.timers \cup {"cap", "poll"}, w.conn, w.dialed, w.queue, w.blocking, w.lastOnline, w.authPrompt>>
    BY <2>1, ArmFrame
  <2>. HIDE DEF n, w
  <2>3. Placed(n)
    BY <1>4, <2>2 DEF Kept, Placed, Skeleton, w
  <2>4. Fresh(n) /\ n.stored = m.stored
    BY <1>4, <2>2, FreshSame DEF w
  <2>. QED
    BY <2>3, <2>4 DEF Keeps, Kept, n, w
<1>. QED
  BY <1>3, <1>5, <1>6, RestoreWays

\* What falling asleep changes.
LEMMA FallAsleepFrame ==
    ASSUME NEW m \in TypeOfManager
    PROVE  /\ Skeleton(FallAsleep(m)) = <<"Sleeping", {}, m.conn, m.dialed, m.queue, FALSE, m.lastOnline, m.authPrompt>>
           /\ FallAsleep(m).walk = Reset(m.walk) /\ FallAsleep(m).fetches = m.fetches
           /\ FallAsleep(m).fetchMode = m.fetchMode /\ FallAsleep(m).stored = m.stored
           /\ FallAsleep(m).told = m.told
BY DEF FallAsleep, SetState, Disconnect, ResetWalk, Teardown, Skeleton, TypeOfManager

\* Falling asleep keeps the invariant.
LEMMA FallAsleepKeeps ==
    ASSUME NEW m, Good(m), Kept(m)
    PROVE  Keeps(m, FallAsleep(m))
<1>. DEFINE n == FallAsleep(m)
<1>1. /\ n.state = "Sleeping" /\ n.timers = {} /\ n.walk = Reset(m.walk)
      /\ n.fetches = m.fetches /\ n.fetchMode = m.fetchMode /\ n.stored = m.stored
  BY FallAsleepFrame DEF Good, Skeleton
<1>. HIDE DEF n
<1>2. m.walk \in Strategy /\ Thrifty(m.walk, n.walk)
  BY <1>1, ThriftyUpdates DEF Good, TypeOfManager
<1>3. m.walk.cached \in Nat /\ n.walk.cached \in Nat
  BY <1>2 DEF Strategy, Thrifty
<1>4. Placed(n)
  BY <1>1 DEF Placed
<1>5. Fresh(n)
  BY <1>1, <1>2, <1>3 DEF Kept, Fresh, Thrifty, MaxCachedConfigAttempts
<1>. QED
  BY <1>1, <1>4, <1>5 DEF Keeps, Kept, n

\* The end that a stop waited for keeps it.
LEMMA ReportPendingKeeps ==
    ASSUME NEW m, Good(m), Kept(m)
    PROVE  Keeps(m, ReportPending(m))
<1>1. Keeps(m, Disconnect(m)) /\ Good(Disconnect(m))
  BY EndKeeps, DisconnectGood DEF Good
<1>. DEFINE d == Disconnect(m)
<1>2. Keeps(m, ResetWalk(d)) /\ Good(ResetWalk(d))
  BY <1>1, WalkKeeps, ResetWalkGood DEF Good, Keeps
<1>3. Keeps(m, Report(ResetWalk(d), "user")) /\ Keeps(m, Report(d, m.pending))
  BY <1>1, <1>2, EndKeeps DEF Good, Keeps
<1>4. Keeps(m, [d EXCEPT !.authPrompt = TRUE])
  <2>. DEFINE n == [d EXCEPT !.authPrompt = TRUE]
  <2>1. d.state = "Disconnected" /\ d.timers = {}
    BY DisconnectFrame DEF Good, Skeleton
  <2>2. Budget(n) = Budget(d) /\ n.state = d.state /\ n.timers = d.timers
    BY <1>1 DEF Good, Budget, TypeOfManager
  <2>. HIDE DEF n, d
  <2>3. Keeps(d, n)
    BY <1>1, <2>1, <2>2, AwakeKeeps DEF Keeps, Kept, d
  <2>. QED
    BY <1>1, <2>3 DEF Keeps, n, d
<1>. QED
  BY <1>3, <1>4 DEF ReportPending

\* The end of a running attempt keeps it.
LEMMA AfterDeathKeeps ==
    ASSUME NEW m, Good(m), Kept(m), m.state \in {"Connecting", "Reconnecting"}, m.conn = "none",
           NEW env \in Conditions
    PROVE  Keeps(m, AfterDeath(m, env))
<1>1. /\ Keeps(m, Walked(m)) /\ Good(Walked(m)) /\ Keeps(m, m)
      /\ Walked(m).state = m.state /\ Walked(m).conn = m.conn
  BY WalkKeeps, WalkGood DEF Good, Keeps, Skeleton
<1>2. ASSUME NEW n \in {m, Walked(m)}
      PROVE  /\ Keeps(m, Report(Disconnect(n), "itself"))
             /\ Keeps(m, ConnectOrStartConnectTimer(n, env))
             /\ Keeps(m, StartAttempt(EnterReconnecting(n), env))
  <2>1. Keeps(m, n) /\ Good(n) /\ n.state \in {"Connecting", "Reconnecting"} /\ n.conn = "none"
    BY <1>1, <1>2
  <2>2. Keeps(m, Disconnect(n)) /\ Good(Disconnect(n))
    BY <2>1, EndKeeps, DisconnectGood DEF Good, Keeps
  <2>3. Keeps(m, Report(Disconnect(n), "itself"))
    BY <2>2, EndKeeps DEF Good, Keeps
  <2>4. Keeps(m, ConnectOrStartConnectTimer(n, env))
    BY <2>1, ConnectOrStartConnectTimerKeeps DEF Keeps
  <2>5. Keeps(m, EnterReconnecting(n)) /\ Good(EnterReconnecting(n)) /\ EnterReconnecting(n).state = "Reconnecting"
    BY <2>1, EnterReconnectingKeeps, EnterReconnectingGood DEF Keeps
  <2>6. Keeps(m, StartAttempt(EnterReconnecting(n), env))
    BY <2>5, StartAttemptKeeps DEF Keeps, IsSettled
  <2>. QED
    BY <2>3, <2>4, <2>6
<1>. QED
  BY <1>2, AfterDeathWays

-----------------------------------------------------------------------------
(* The signals of the connector                                             *)

\* A step that keeps the invariant, and a freshly fetched configuration.
Spares(m, n) == Kept(n) /\ (m.stored /\ ~n.stored => m.fetchMode # "Normal")

\* Steps that spare the configuration, chained.
LEMMA KeepsSpares ==
    ASSUME NEW m, NEW n, NEW k, n.stored = m.stored, n.fetchMode = m.fetchMode
    PROVE  /\ Keeps(m, k) => Spares(m, k)
           /\ Keeps(n, k) => Spares(m, k)
           /\ Spares(n, k) => Spares(m, k)
           /\ Spares(m, n) /\ Keeps(n, k) => Spares(m, k)
BY DEF Keeps, Spares

\* Nothing the invariant reads has changed.
LEMMA SameKeeps ==
    ASSUME NEW m, Kept(m), NEW n, Budget(n) = Budget(m), n.state = m.state, n.timers = m.timers,
           n.conn = m.conn, n.dialed = m.dialed, n.queue = m.queue
    PROVE  Keeps(m, n) /\ n.fetchMode = m.fetchMode
BY DEF Keeps, Kept, Placed, Fresh, Budget, Ended

\* The ends of a session put it in order whatever was parked.
LEMMA EndFresh ==
    ASSUME NEW m \in TypeOfManager, Fresh(m), NEW o
    PROVE  /\ Keeps(m, Disconnect(m)) /\ Keeps(m, Stop(m, o))
           /\ Disconnect(m).fetchMode = m.fetchMode /\ Stop(m, o).fetchMode = m.fetchMode
BY DisconnectFrame DEF Keeps, Kept, Placed, Fresh, Budget, Skeleton

\* The cached configuration is dropped only when its attempts are used up, and
\* then it was not fetched for this attempt.
LEMMA ClearCachedConfigSpares ==
    ASSUME NEW m \in TypeOfManager, Kept(m), NEW b \in BOOLEAN
    PROVE  Spares(m, ClearCachedConfigIfExhausted(m, b))
<1>. DEFINE c == [m EXCEPT !.stored = FALSE, !.walk = ForgetCachedConfig(m.walk)]
<1>1. ClearCachedConfigIfExhausted(m, b) =
        IF m.conn # "none" /\ m.fetches /\ b /\ IsCachedConfigExhausted(m.walk) THEN c ELSE m
  BY DEF ClearCachedConfigIfExhausted
<1>2. /\ Skeleton(c) = Skeleton(m) /\ c.fetches = m.fetches /\ c.fetchMode = m.fetchMode
      /\ c.walk = ForgetCachedConfig(m.walk)
  BY DEF Skeleton, TypeOfManager
<1>3. m.walk \in Strategy /\ m.fetches \in BOOLEAN
  BY DEF TypeOfManager
<1>4. ForgetCachedConfig(m.walk).usable = FALSE
  BY <1>3 DEF ForgetCachedConfig, Strategy
<1>5. IsCachedConfigExhausted(m.walk) /\ m.fetches => m.fetchMode # "Normal"
  BY <1>3 DEF Kept, Fresh, IsCachedConfigExhausted, MaxCachedConfigAttempts, Strategy
<1>. HIDE DEF c
<1>6. Placed(c)
  BY <1>2 DEF Kept, Placed, Skeleton, Ended
<1>7. Fresh(c)
  BY <1>2, <1>4 DEF Fresh
<1>. QED
  BY <1>1, <1>5, <1>6, <1>7 DEF Spares, Kept

\* A new strategy begins with no cached attempt used.
LEMMA NewWalkFresh ==
    ASSUME NEW m \in TypeOfManager, NEW kind \in Kinds
    PROVE  /\ Fresh(NewWalk(m, kind)) /\ Skeleton(NewWalk(m, kind)) = Skeleton(m)
           /\ NewWalk(m, kind).stored = m.stored /\ NewWalk(m, kind).fetchMode = m.fetchMode
<1>. DEFINE w == CreateStrategy(kind, m.alwaysOnPlus, m.stored)
            n == [m EXCEPT !.walk = w]
<1>1. w.kind = kind /\ (kind \notin {"manual", "auto"} => ~w.usable) /\ w.cached = 0
  BY DEF CreateStrategy
<1>2. NewWalk(m, kind) = n
  BY DEF NewWalk
<1>. HIDE DEF w
<1>3. Skeleton(n) = Skeleton(m) /\ n.walk = w /\ n.stored = m.stored /\ n.fetchMode = m.fetchMode
  BY DEF Skeleton, TypeOfManager
<1>. HIDE DEF n
<1>4. Fresh(n)
  BY <1>1, <1>3 DEF Fresh, MaxCachedConfigAttempts
<1>. QED
  BY <1>2, <1>3, <1>4

\* Taking a signal from the queue changes the queue alone.
LEMMA TakenFrame ==
    ASSUME cm \in TypeOfManager, cm.queue # <<>>
    PROVE  /\ Budget(Taken) = Budget(cm)
           /\ Skeleton(Taken) = <<cm.state, cm.timers, cm.conn, cm.dialed, Taken.queue, cm.blocking, cm.lastOnline, cm.authPrompt>>
           /\ Taken.queue = Tail(cm.queue)
           /\ Taken.pending = cm.pending /\ Taken.told = cm.told /\ Taken.ignore = cm.ignore /\ Taken.cause = cm.cause
BY DEF Taken, Budget, Skeleton, TypeOfManager

\* The parked session that takes its connector's end has still to be seen to; any
\* other signal is taken without harm.
LEMMA TakenKeeps ==
    ASSUME Good(cm), Kept(cm), cm.queue # <<>>
    PROVE  /\ Fresh(Taken) /\ Taken.stored = cm.stored /\ Taken.fetchMode = cm.fetchMode
           /\ "rest" \in Taken.timers => Taken.conn = "none"
           /\ ~(Head(cm.queue).current /\ Head(cm.queue).name = "disconnected") => Keeps(cm, Taken)
<1>. DEFINE q == Tail(cm.queue)
<1>1. cm.queue \in Seq(Signals) /\ cm \in TypeOfManager
  BY DEF Good, TypeOfManager
<1>2. /\ Budget(Taken) = Budget(cm)
      /\ Skeleton(Taken) = <<cm.state, cm.timers, cm.conn, cm.dialed, Taken.queue, cm.blocking, cm.lastOnline, cm.authPrompt>>
      /\ Taken.queue = Tail(cm.queue)
  BY <1>1, TakenFrame
<1>3. /\ Head(cm.queue) = cm.queue[1]
      /\ \A i \in DOMAIN cm.queue : i = 1 \/ (i - 1 \in DOMAIN q /\ q[i - 1] = cm.queue[i])
  BY <1>1
<1>4. Ended(cm) /\ ~(Head(cm.queue).current /\ Head(cm.queue).name = "disconnected") => Ended(Taken)
  BY <1>2, <1>3 DEF Ended
<1>5. Fresh(Taken) /\ Taken.stored = cm.stored /\ Taken.fetchMode = cm.fetchMode
  BY <1>2, FreshSame DEF Kept, Budget
<1>6. "rest" \in Taken.timers => Taken.conn = "none"
  BY <1>2 DEF Kept, Placed, Skeleton
<1>7. ~(Head(cm.queue).current /\ Head(cm.queue).name = "disconnected") => Placed(Taken)
  BY <1>2, <1>4 DEF Kept, Placed, Skeleton
<1>. QED
  BY <1>5, <1>6, <1>7 DEF Keeps, Kept

\* A signal of the connector keeps the invariant.
LEMMA EmitKeeps ==
    ASSUME NEW m \in TypeOfManager, Kept(m), NEW name \in SignalNames, NEW err \in ConnectError
    PROVE  Keeps(m, Emit(m, name, err))
<1>. DEFINE e == [current |-> TRUE, name |-> name, err |-> err]
            n == Emit(m, name, err)
<1>1. e \in Signals
  BY DEF Signals
<1>2. /\ Budget(n) = Budget(m)
      /\ Skeleton(n) = <<m.state, m.timers, m.conn, m.dialed, n.queue, m.blocking, m.lastOnline, m.authPrompt>>
      /\ n.queue = IF m.blocking THEN m.queue ELSE Append(m.queue, e)
  BY EmitFrame
<1>. HIDE DEF e, n
<1>3. Ended(m) => Ended(n)
  BY <1>1, <1>2, EmitEnded DEF Ended
<1>4. Placed(n)
  BY <1>2, <1>3 DEF Kept, Placed, Skeleton
<1>5. Fresh(n) /\ n.stored = m.stored
  BY <1>2, FreshSame DEF Kept
<1>. QED
  BY <1>4, <1>5 DEF Keeps, Kept, n

\* onConnectionDisconnected() spares the configuration.
LEMMA DisconnectedSlotSpares ==
    ASSUME Good(cm), Kept(cm), online \in BOOLEAN, OnConnectionDisconnected
    PROVE  Spares(cm, cm')
<1>. DEFINE r == Retire(Taken)
            m == Disarm(r, {"poll", "connecting"})
<1>1. /\ Good(Taken) /\ Taken.state = cm.state /\ Fresh(Taken) /\ Taken.stored = cm.stored
      /\ Taken.fetchMode = cm.fetchMode /\ "rest" \in Taken.timers => Taken.conn = "none"
  BY TakenGood, TakenKeeps DEF OnConnectionDisconnected, Received
<1>2. /\ r \in TypeOfManager /\ Owned(r) /\ r.state = cm.state /\ r.conn = "none"
      /\ r.walk = Taken.walk /\ r.stored = cm.stored /\ r.fetchMode = "None" /\ r.timers = Taken.timers
  BY <1>1, RetireFacts, RetireFrame DEF Good
<1>3. Fresh(r)
  BY <1>1, <1>2 DEF Fresh
<1>. HIDE DEF r
<1>4. m \in TypeOfManager
  BY <1>2, ArmType DEF Timers
<1>5. /\ Budget(m) = Budget(r)
      /\ Skeleton(m) = <<r.state, r.timers \ {"poll", "connecting"}, r.conn, r.dialed, r.queue, r.blocking, r.lastOnline, r.authPrompt>>
  BY <1>2, ArmFrame
<1>6. PICK env \in Now :
        cm' = CASE m.state = "Stopping" -> ReportPending(m)
                [] m.state = "Connected" -> StartAttempt(EnterReconnecting(m), env)
                [] m.state \in {"Connecting", "Reconnecting"} -> AfterDeath(m, env)
                [] m.state = "WaitingForNetwork" -> Arm(m, {"cap", "poll"})
                [] OTHER -> m
  BY DEF OnConnectionDisconnected, r
<1>7. env \in Conditions
  BY <1>6, NowConditions
<1>. HIDE DEF m
<1>8. Fresh(m) /\ m.stored = cm.stored /\ m.conn = "none" /\ m.state = cm.state
      /\ m.timers = Taken.timers \ {"poll", "connecting"}
  BY <1>2, <1>3, <1>5, FreshSame DEF Skeleton
<1>9. Owned(m)
  <2>1. m.queue = r.queue /\ r.prep = "none" /\ \A i \in DOMAIN r.queue : ~r.queue[i].current
    BY <1>2, <1>5 DEF Skeleton, Owned
  <2>2. m.prep = r.prep
    BY <1>2 DEF m, Disarm, TypeOfManager
  <2>. QED
    BY <2>1, <2>2 DEF Owned
<1>10. CASE m.state = "WaitingForNetwork"
  <2>1. cm' = Arm(m, {"cap", "poll"})
    BY <1>6, <1>10
  <2>. DEFINE a == Arm(m, {"cap", "poll"})
  <2>2. /\ Budget(a) = Budget(m)
        /\ Skeleton(a) = <<m.state, m.timers \cup {"cap", "poll"}, m.conn, m.dialed, m.queue, m.blocking, m.lastOnline, m.authPrompt>>
    BY <1>4, ArmFrame
  <2>. HIDE DEF a
  <2>3. Placed(a)
    BY <1>8, <2>2 DEF Placed, Skeleton
  <2>4. Fresh(a) /\ a.stored = m.stored
    BY <1>8, <2>2, FreshSame
  <2>. QED
    BY <1>8, <2>1, <2>3, <2>4 DEF Spares, Kept, a
<1>11. CASE m.state # "WaitingForNetwork"
  <2>1. Kept(m)
    BY <1>8, <1>11 DEF Kept, Placed
  <2>2. CASE m.state = "Connected"
    <3>. DEFINE r2 == SetState(m, "Reconnecting", "Regular")
    <3>1. Good(EnterReconnecting(m)) /\ EnterReconnecting(m).state = "Reconnecting"
      BY <1>4, <1>8, <1>9, TryAgainGood
    <3>2. r2 \in TypeOfManager /\ Keeps(m, r2)
      BY <1>4, <2>1, <1>8, SetStateFrame, SetStateType, AwakeKeeps DEF Skeleton, States, Kept
    <3>. HIDE DEF r2
    <3>3. Keeps(r2, Arm(r2, {"cap"}))
      BY <3>2, TimersKeep DEF Keeps
    <3>4. Keeps(m, EnterReconnecting(m))
      BY <3>2, <3>3 DEF EnterReconnecting, Keeps, r2
    <3>5. Keeps(m, StartAttempt(EnterReconnecting(m), env))
      BY <1>7, <3>1, <3>4, StartAttemptKeeps DEF Keeps, IsSettled
    <3>. QED
      BY <1>6, <1>8, <2>2, <3>5 DEF Keeps, Spares
  <2>3. CASE m.state # "Connected"
    <3>1. Good(m)
      BY <1>1, <1>4, <1>8, <1>9, <2>3 DEF Good, Quiet, Manned, IsSettled
    <3>2. CASE m.state = "Stopping"
      BY <1>6, <1>8, <2>1, <3>1, <3>2, ReportPendingKeeps DEF Keeps, Spares
    <3>3. CASE m.state \in {"Connecting", "Reconnecting"}
      BY <1>6, <1>7, <1>8, <2>1, <3>1, <3>3, AfterDeathKeeps DEF Keeps, Spares
    <3>4. CASE m.state \notin {"Stopping", "Connecting", "Reconnecting"}
      BY <1>6, <1>8, <1>11, <2>1, <2>3, <3>4 DEF Spares
    <3>. QED
      BY <3>2, <3>3, <3>4
  <2>. QED
    BY <2>2, <2>3
<1>. QED
  BY <1>10, <1>11

\* The ways out of onConnectionError.
Cleared == ClearCachedConfigIfExhausted(Taken, Head(cm.queue).err = "kTunnelEstablishmentFailure")

\* The connector is stopped unless it asks for credentials: then it stops itself.
Dropped(n) == IF Head(cm.queue).err = "kAuthFailure" THEN n ELSE StartDisconnect(n)

\* The ways out of onConnectionError().
LEMMA ErrorWays ==
    ASSUME cm \in TypeOfManager, Head(cm.queue) \in Signals, OnConnectionError
    PROVE  \/ IsSettled(cm) /\ cm' = Taken
           \/ ~IsSettled(cm) /\ cm' = Cleared
           \/ ~IsSettled(cm) /\ \E o \in {"error", "authError"} :
                /\ o = "authError" => Cleared.walk.kind = "custom"
                /\ cm' = Dropped(Stop(Cleared, o))
           \/ /\ ~IsSettled(cm) /\ cm' = Report(Disconnect(Cleared), "error")
              /\ Head(cm.queue).err \in ServiceErrors \cup {"kLocalProcessLaunchFailure"}
           \/ /\ ~IsSettled(cm) /\ Cleared.state = "Connected"
              /\ cm' = Dropped(EnterReconnecting(Seen(Cleared)))
           \/ /\ ~IsSettled(cm) /\ Cleared.state # "Connected"
              /\ cm' = HandleAttemptFailed(Seen(Cleared), Head(cm.queue).err # "kAuthFailure")
<1>. DEFINE err == Head(cm.queue).err
            m == Cleared
            route == ClassifyConnectError(err, IsAutomaticMode(m.walk), EmitAuthError,
                                          ShouldRetryOnAttemptFailure(m.walk))
            outcome == IF m.walk.kind = "custom" /\ err \in {"kAuthFailure", "kPrivKeyPasswordFailure"}
                       THEN "authError" ELSE "error"
<1>1. /\ route \in {"ErrorAfterDisconnect", "ErrorImmediately", "Retry", "Unknown"}
      /\ route = "ErrorImmediately" => err \in ServiceErrors \cup {"kLocalProcessLaunchFailure"}
  <2>1. err \in ConnectError
    BY DEF Signals
  <2>2. CASE err = "kAuthFailure"
    BY <2>2 DEF ClassifyConnectError
  <2>3. CASE err # "kAuthFailure"
    <3>1. err \in LocalErrors /\ ShouldRetryOnAttemptFailure(m.walk) => route = "Retry"
      BY <2>3 DEF ClassifyConnectError, ServiceErrors, LocalErrors
    <3>2. err \in {"kLocalProcessNotResponding", "kAdapterNotInstalled"} => route \in {"Retry", "ErrorAfterDisconnect"}
      BY <2>3 DEF ClassifyConnectError, ServiceErrors, LocalErrors
    <3>3. err \in {"kTunnelEstablishmentFailure", "kAdapterSetupFailure"} => route \in {"Retry", "ErrorAfterDisconnect"}
      BY <2>3 DEF ClassifyConnectError, ServiceErrors, LocalErrors
    <3>4. err \in {"kPrivKeyPasswordFailure", "kTransientTunnelFailure"} => route \in {"Retry", "ErrorAfterDisconnect"}
      BY <2>3 DEF ClassifyConnectError, ServiceErrors, LocalErrors
    <3>5. err \in {"kLocalProcessLaunchFailure"} \cup ServiceErrors
            => route \in {"Retry", "ErrorAfterDisconnect", "ErrorImmediately"}
      BY <2>3 DEF ClassifyConnectError, ServiceErrors, LocalErrors
    <3>6. err \in OtherErrors => route = "Unknown"
      BY <2>3 DEF ClassifyConnectError, ServiceErrors, LocalErrors, OtherErrors
    <3>. QED
      BY <2>1, <2>3, <3>1, <3>2, <3>3, <3>4, <3>5, <3>6
         DEF ConnectError, RuntimeErrors, LocalErrors, ServiceErrors
  <2>. QED
    BY <2>2, <2>3
<1>2. IsSettled(cm) \in BOOLEAN /\ cm.ignore \in BOOLEAN
  BY DEF IsSettled, TypeOfManager
<1>3. cm' = CASE IsSettled(cm) \/ (route = "Retry" /\ cm.ignore) \/ route = "Unknown" ->
                      IF IsSettled(cm) THEN Taken ELSE m
              [] ~IsSettled(cm) /\ route = "ErrorAfterDisconnect" -> Dropped(Stop(m, outcome))
              [] ~IsSettled(cm) /\ route = "ErrorImmediately" -> Report(Disconnect(m), "error")
              [] ~IsSettled(cm) /\ route = "Retry" /\ ~cm.ignore ->
                   IF m.state = "Connected" THEN Dropped(EnterReconnecting(Seen(m)))
                   ELSE HandleAttemptFailed(Seen(m), err # "kAuthFailure")
  BY DEF OnConnectionError, Cleared, Dropped, Seen
<1>4. outcome \in {"error", "authError"} /\ (outcome = "authError" => m.walk.kind = "custom")
  OBVIOUS
<1>. HIDE DEF m, route, outcome, err
<1>5. CASE IsSettled(cm)
  BY <1>3, <1>5
<1>6. CASE ~IsSettled(cm) /\ ((route = "Retry" /\ cm.ignore) \/ route = "Unknown")
  BY <1>3, <1>6 DEF m
<1>7. CASE ~IsSettled(cm) /\ route = "ErrorAfterDisconnect"
  BY <1>3, <1>4, <1>7 DEF m
<1>8. CASE ~IsSettled(cm) /\ route = "ErrorImmediately"
  BY <1>1, <1>3, <1>8 DEF m, err
<1>9. CASE ~IsSettled(cm) /\ route = "Retry" /\ ~cm.ignore
  BY <1>3, <1>9 DEF m, err
<1>. QED
  BY <1>1, <1>2, <1>5, <1>6, <1>7, <1>8, <1>9

\* The ways out of onSleepMode and onNetworkOnlineStateChanged.
Halted(m) == [m EXCEPT !.timers = {}, !.wake = FALSE]

\* The manager in its blocking wait for the connector's end.
Blocked(m) == [StartDisconnect(m) EXCEPT !.blocking = TRUE]

\* The manager that has noticed whether there is a network.
Noticed(m, alive) == [m EXCEPT !.lastOnline = alive]

\* A session that is connecting or connected.
Busy(m) == m.state \in {"Connecting", "Connected", "Reconnecting"}

\* The ways out of onSleepMode().
LEMMA SleepWays ==
    ASSUME OnSleepMode, cm \in TypeOfManager
    PROVE  LET m == Halted(cm) IN
           \/ IsSettled(cm) /\ cm' = m
           \/ cm.state = "WaitingForNetwork" /\ cm' = SetState(m, "Sleeping", "Regular")
           \/ Busy(cm) /\ cm.conn \notin Live /\ cm' = FallAsleep(m)
           \/ Busy(cm) /\ cm.conn \in Live /\ Platform # "windows" /\ cm' = Blocked(m)
           \/ /\ Busy(cm) /\ cm.conn \in Live /\ Platform = "windows"
              /\ cm' = FallAsleep([Blocked(m) EXCEPT !.conn = "down"])
<1>1. cm.state \in States
  BY DEF TypeOfManager
<1>2. CASE Busy(cm)
  <2>1. CASE cm.conn \in Live /\ Platform # "windows"
    BY <1>2, <2>1 DEF OnSleepMode, Halted, Blocked, Busy
  <2>2. CASE cm.conn \in Live /\ Platform = "windows"
    BY <1>2, <2>2 DEF OnSleepMode, Halted, Blocked, Busy
  <2>3. CASE cm.conn \notin Live
    BY <1>2, <2>3 DEF OnSleepMode, Halted, Blocked, Busy
  <2>. QED
    BY <2>1, <2>2, <2>3
<1>3. CASE cm.state = "WaitingForNetwork"
  BY <1>3 DEF OnSleepMode, Halted
<1>4. CASE IsSettled(cm)
  BY <1>4 DEF OnSleepMode, Halted, IsSettled
<1>. QED
  BY <1>1, <1>2, <1>3, <1>4 DEF States, Busy, IsSettled

\* The ways out of onNetworkOnlineStateChanged().
LEMMA NetworkWays ==
    ASSUME OnNetworkOnlineStateChanged, cm \in TypeOfManager
    PROVE  LET m == Noticed(cm, ~online)
               again == SetState(m, "Reconnecting", "Regular")
           IN  \/ Platform # "macos" /\ cm' = cm
               \/ Platform = "macos" /\ cm' = m
               \/ /\ Platform = "macos" /\ ~IsSettled(cm) /\ cm.conn # "none" /\ cm.dialed
                  /\ \/ cm' \in {StartDisconnect(Arm(Waiting(m), {"cap"})), StartDisconnect(Arm(again, {"cap"}))}
                     \/ cm.state = "Reconnecting" /\ cm' = StartDisconnect(Waiting(m))
<1>. DEFINE isAlive == ~online
            m == Noticed(cm, isAlive)
            Park(n) == StartDisconnect(Arm(Waiting(n), {"cap"}))
            Redial(n) == StartDisconnect(Arm(SetState(n, "Reconnecting", "Regular"), {"cap"}))
            live == CASE m.state = "Connecting" /\ ~isAlive -> Park(m)
                      [] m.state = "Connected" -> IF isAlive THEN Redial(m) ELSE Park(m)
                      [] m.state = "Reconnecting" /\ ~isAlive /\ m.cause # "Wake" ->
                           StartDisconnect(Waiting(m))
                      [] m.state = "WaitingForNetwork" /\ isAlive -> Redial(m)
                      [] OTHER -> m
<1>1. cm' = CASE Platform # "macos" -> cm
              [] Platform = "macos" /\ (m.conn = "none" \/ ~m.dialed) -> m
              [] OTHER -> live
  BY DEF OnNetworkOnlineStateChanged, Noticed, Waiting
<1>2. m.state = cm.state /\ m.conn = cm.conn /\ m.dialed = cm.dialed /\ m.dialed \in BOOLEAN
  BY DEF Noticed, TypeOfManager
<1>. HIDE DEF m, Park, Redial, isAlive
<1>3. \/ live = m
      \/ ~IsSettled(cm) /\ live \in {Park(m), Redial(m)}
      \/ ~IsSettled(cm) /\ cm.state = "Reconnecting" /\ live = StartDisconnect(Waiting(m))
  BY <1>2 DEF IsSettled
<1>. HIDE DEF live
<1>4. \/ Platform # "macos" /\ cm' = cm
      \/ Platform = "macos" /\ cm' = m
      \/ Platform = "macos" /\ cm.conn # "none" /\ cm.dialed /\ cm' = live
  BY <1>1, <1>2
<1>. QED
  BY <1>3, <1>4 DEF m, Park, Redial, isAlive

\* onConnectionError() spares the configuration.
LEMMA ErrorSlotSpares ==
    ASSUME Good(cm), Kept(cm), OnConnectionError
    PROVE  Spares(cm, cm')
<1>1. /\ Good(Taken) /\ Keeps(cm, Taken) /\ Taken.fetchMode = cm.fetchMode /\ Taken.stored = cm.stored
      /\ Head(cm.queue) \in Signals
  BY TakenGood, TakenKeeps DEF OnConnectionError, Received
<1>. DEFINE tunnel == (Head(cm.queue).err = "kTunnelEstablishmentFailure")
<1>2. Good(Cleared) /\ Spares(Taken, Cleared)
  <2>1. tunnel \in BOOLEAN /\ Cleared = ClearCachedConfigIfExhausted(Taken, tunnel)
    BY DEF Cleared
  <2>. HIDE DEF tunnel
  <2>. QED
    BY <1>1, <2>1, ClearCachedConfigGood, ClearCachedConfigSpares DEF Keeps, Good
<1>3. Spares(cm, Cleared) /\ Kept(Cleared)
  BY <1>1, <1>2, KeepsSpares DEF Spares
<1>. DEFINE c == Cleared
<1>. HIDE DEF tunnel, c
<1>4. Good(c) /\ Kept(c) /\ c \in TypeOfManager
  BY <1>2, <1>3 DEF c, Good
<1>5. Keeps(c, Seen(c)) /\ Good(Seen(c))
  BY <1>4, WalkKeeps, WalkGood
<1>6. \A o \in {"error", "authError"} : Keeps(c, Stop(c, o)) /\ Good(Stop(c, o))
  BY <1>4, EndKeeps, StopGood DEF Outcomes
<1>7. Keeps(c, Report(Disconnect(c), "error"))
  <2>1. Keeps(c, Disconnect(c)) /\ Good(Disconnect(c))
    BY <1>4, EndKeeps, DisconnectGood DEF Good
  <2>. QED
    BY <2>1, EndKeeps DEF Keeps, Good
<1>8. Keeps(c, EnterReconnecting(Seen(c))) /\ Good(EnterReconnecting(Seen(c)))
  BY <1>5, EnterReconnectingKeeps, EnterReconnectingGood DEF Keeps
<1>9. \A b \in BOOLEAN : Keeps(c, HandleAttemptFailed(Seen(c), b))
  BY <1>5, HandleAttemptFailedKeeps DEF Keeps
<1>10. \A n : Keeps(c, n) /\ Good(n) => Keeps(c, Dropped(n))
  BY StartDisconnectKeeps DEF Dropped, Keeps, Good
<1>11. Keeps(cm, cm') \/ Spares(cm, cm') \/ Keeps(c, cm')
  <2>1. (Head(cm.queue).err # "kAuthFailure") \in BOOLEAN
    OBVIOUS
  <2>. QED
    BY <1>1, <1>3, <1>6, <1>7, <1>8, <1>9, <1>10, <2>1, ErrorWays DEF c, Good
<1>. QED
  BY <1>3, <1>11, KeepsSpares DEF c, Keeps, Spares

\* The connector's signals spare it.
LEMMA SlotsSpare ==
    ASSUME Good(cm), Kept(cm), online \in BOOLEAN, Slots
    PROVE  Spares(cm, cm')
<1>1. ASSUME cm.queue # <<>>, ~(Head(cm.queue).current /\ Head(cm.queue).name = "disconnected")
      PROVE  /\ Good(Taken) /\ Keeps(cm, Taken) /\ Kept(Taken) /\ Spares(cm, Taken)
             /\ Taken.conn = cm.conn /\ Taken.stored = cm.stored
             /\ \A n : Keeps(Taken, n) => Spares(cm, n)
             /\ Head(cm.queue).current => Taken.conn # "none"
  BY <1>1, TakenGood, TakenKeeps, KeepsSpares DEF Keeps
<1>2. CASE IgnoreRetiredConnector
  BY <1>1, <1>2 DEF IgnoreRetiredConnector
<1>3. CASE OnConnectionPrepared
  <2>. DEFINE n == [Taken EXCEPT !.conn = "starting", !.dialed = TRUE]
  <2>1. cm' \in {Taken, n}
    BY <1>3 DEF OnConnectionPrepared
  <2>2. Good(Taken) /\ Kept(Taken) /\ Spares(cm, Taken) /\ Taken.conn # "none" /\ \A k : Keeps(Taken, k) => Spares(cm, k)
    BY <1>1, <1>3 DEF OnConnectionPrepared, Received
  <2>3. /\ Budget(n) = Budget(Taken) /\ n.conn = "starting" /\ n.dialed = TRUE
        /\ n.timers = Taken.timers
    BY <2>2 DEF Good, TypeOfManager, Budget
  <2>. HIDE DEF n
  <2>4. Keeps(Taken, n)
    BY <2>2, <2>3 DEF Keeps, Kept, Placed, Fresh, Budget
  <2>. QED
    BY <2>1, <2>2, <2>4
<1>4. CASE OnConnectionPrepareFailed
  <2>1. cm' \in {Taken, StartFailoverReconnect(Taken), FailWithError(Taken)}
    BY <1>4 DEF OnConnectionPrepareFailed
  <2>2. Good(Taken) /\ Kept(Taken) /\ Spares(cm, Taken) /\ \A k : Keeps(Taken, k) => Spares(cm, k)
    BY <1>1, <1>4 DEF OnConnectionPrepareFailed, Received
  <2>. QED
    BY <2>1, <2>2, StartFailoverReconnectKeeps, FailWithErrorKeeps
<1>5. CASE OnConnectionUserInputRequired
  <2>. DEFINE d == Disarm(Taken, {"connecting"})
              n == [d EXCEPT !.keyPrompt = TRUE]
  <2>1. cm' \in {Taken, n}
    BY <1>5 DEF OnConnectionUserInputRequired
  <2>2. Good(Taken) /\ Kept(Taken) /\ Spares(cm, Taken) /\ \A k : Keeps(Taken, k) => Spares(cm, k)
    BY <1>1, <1>5 DEF OnConnectionUserInputRequired, Received
  <2>3. Keeps(Taken, d) /\ d \in TypeOfManager
    BY <2>2, TimersKeep, ArmType DEF Good, Timers
  <2>. HIDE DEF d
  <2>4. /\ Budget(n) = Budget(d) /\ n.state = d.state /\ n.timers = d.timers
        /\ n.conn = d.conn /\ n.dialed = d.dialed /\ n.queue = d.queue
    BY <2>3 DEF TypeOfManager, Budget
  <2>. HIDE DEF n
  <2>5. Keeps(Taken, n)
    BY <2>3, <2>4, SameKeeps DEF Keeps
  <2>. QED
    BY <2>1, <2>2, <2>5
<1>6. CASE OnConnectionConnected
  <2>. DEFINE d == Disarm(Taken, {"cap", "connecting"})
              n == SetState(d, "Connected", "Regular")
  <2>1. cm' \in {Taken, n}
    BY <1>6 DEF OnConnectionConnected
  <2>2. Good(Taken) /\ Kept(Taken) /\ Spares(cm, Taken) /\ \A k : Keeps(Taken, k) => Spares(cm, k)
    BY <1>1, <1>6 DEF OnConnectionConnected, Received
  <2>3. /\ Budget(d) = Budget(Taken)
        /\ Skeleton(d) = <<Taken.state, Taken.timers \ {"cap", "connecting"}, Taken.conn, Taken.dialed,
                           Taken.queue, Taken.blocking, Taken.lastOnline, Taken.authPrompt>>
    BY <2>2, ArmFrame DEF Good
  <2>4. d \in TypeOfManager
    BY <2>2, ArmType DEF Good, Timers
  <2>. HIDE DEF d
  <2>5. /\ Budget(n) = Budget(d)
        /\ Skeleton(n) = <<"Connected", d.timers, d.conn, d.dialed, d.queue, d.blocking, d.lastOnline, d.authPrompt>>
    BY <2>4, SetStateFrame
  <2>. HIDE DEF n
  <2>6. /\ Budget(n) = Budget(Taken) /\ n.state = "Connected" /\ n.conn = Taken.conn
        /\ n.timers \subseteq Taken.timers
    BY <2>3, <2>5 DEF Skeleton
  <2>7. Keeps(Taken, n)
    BY <2>2, <2>6 DEF Keeps, Kept, Placed, Fresh, Budget
  <2>. QED
    BY <2>1, <2>2, <2>7
<1>7. CASE OnConnectionReconnecting
  BY <1>1, <1>7, HandleReconnectingKeeps DEF OnConnectionReconnecting, Received
<1>. QED
  BY <1>2, <1>3, <1>4, <1>5, <1>6, <1>7, DisconnectedSlotSpares, ErrorSlotSpares DEF Slots

-----------------------------------------------------------------------------
(* The public methods and the timers                                        *)

\* clickConnect() spares it.
LEMMA ConnectSpares ==
    ASSUME Good(cm), Kept(cm), online \in BOOLEAN, NEW kind \in Kinds, ClickConnect(kind)
    PROVE  Spares(cm, cm')
<1>. DEFINE s == SetState(cm, "Connecting", "Regular")
            c == [s EXCEPT !.succeeded = FALSE, !.resolving = FALSE, !.authPrompt = FALSE, !.told = <<>>]
            r == Retire(c)
            n == NewWalk(r, kind)
<1>1. Good(s) /\ s.state = "Connecting" /\ s.timers = cm.timers /\ cm.timers = {}
  BY SetStateGood DEF ClickConnect, Good, Quiet, IsSettled
<1>2. Budget(s) = Budget(cm)
  BY SetStateFrame DEF Good
<1>. HIDE DEF s
<1>3. <<>> \in Seq(Outcomes)
  OBVIOUS
<1>4. c \in TypeOfManager /\ c.state = "Connecting" /\ c.timers = {} /\ Budget(c) = Budget(s)
  BY <1>1, <1>3 DEF Good, TypeOfManager, Budget
<1>. HIDE DEF c
<1>5. /\ r \in TypeOfManager /\ Owned(r) /\ r.state = "Connecting" /\ r.timers = {}
      /\ r.stored = c.stored
  BY <1>4, RetireFacts, RetireFrame
<1>6. Good(r)
  BY <1>5 DEF Good, Quiet, Manned
<1>. HIDE DEF r
<1>7. /\ Good(n) /\ n.state = "Connecting" /\ ~IsSettled(n) /\ Fresh(n) /\ n.stored = r.stored
      /\ Skeleton(n) = Skeleton(r)
  BY <1>5, <1>6, NewWalkGood, NewWalkFresh DEF IsSettled
<1>8. n.timers = {}
  BY <1>5, <1>7 DEF Skeleton
<1>9. PICK env \in Now : cm' = StartAttempt(n, env)
  BY DEF ClickConnect, s, c, r
<1>. HIDE DEF n
<1>10. Kept(n)
  BY <1>7, <1>8 DEF Kept, Placed
<1>11. Keeps(n, cm')
  BY <1>7, <1>9, <1>10, NowConditions, StartAttemptKeeps
<1>12. n.stored = cm.stored
  BY <1>2, <1>4, <1>5, <1>7 DEF Budget
<1>. QED
  BY <1>11, <1>12 DEF Keeps, Spares

\* updateConnectionSettings() spares it.
LEMMA SettingsSpares ==
    ASSUME Good(cm), Kept(cm), NEW kind \in Kinds, UpdateConnectionSettings(kind)
    PROVE  Spares(cm, cm')
<1>. DEFINE c == [cm EXCEPT !.resolving = cm.resolving /\ kind = "custom"]
            n == NewWalk(c, kind)
<1>1. /\ Good(c) /\ Budget(c) = Budget(cm) /\ Skeleton(c) = Skeleton(cm)
  <2>1. Good(c)
    BY DEF Good, Quiet, Manned, Owned, IsSettled, TypeOfManager
  <2>2. Budget(c) = Budget(cm) /\ Skeleton(c) = Skeleton(cm)
    BY DEF Good, Budget, Skeleton, TypeOfManager
  <2>. QED
    BY <2>1, <2>2
<1>2. cm' \in {n, StartDisconnect(EnterReconnecting(n))}
  BY DEF UpdateConnectionSettings
<1>. HIDE DEF c
<1>3. Good(n) /\ Fresh(n) /\ Skeleton(n) = Skeleton(c) /\ n.stored = c.stored
  BY <1>1, NewWalkGood, NewWalkFresh DEF Good
<1>. HIDE DEF n
<1>4. Kept(n) /\ n.stored = cm.stored
  BY <1>1, <1>3 DEF Kept, Placed, Skeleton, Ended, Budget
<1>5. Keeps(n, EnterReconnecting(n)) /\ Good(EnterReconnecting(n))
  BY <1>3, <1>4, EnterReconnectingKeeps, EnterReconnectingGood
<1>6. Keeps(n, StartDisconnect(EnterReconnecting(n)))
  BY <1>5, StartDisconnectKeeps DEF Keeps, Good
<1>. QED
  BY <1>2, <1>4, <1>6 DEF Keeps, Spares

\* The public methods spare it.
LEMMA RequestsSpare ==
    ASSUME Good(cm), Kept(cm), online \in BOOLEAN, Requests
    PROVE  Spares(cm, cm')
<1>0. /\ \A kind \in SessionKinds : kind \in Kinds
      /\ cm \in TypeOfManager /\ \A k : Keeps(cm, k) => Spares(cm, k)
  BY PlatformAssumption DEF Good, Keeps, Spares
<1>1. ASSUME NEW kind \in SessionKinds, ClickConnect(kind) \/ UpdateConnectionSettings(kind)
      PROVE  Spares(cm, cm')
  BY <1>0, <1>1, ConnectSpares, SettingsSpares
<1>2. CASE ClickDisconnect
  <2>. DEFINE told == IF cm.state = "Disconnected" THEN <<>> ELSE cm.told
              c == [cm EXCEPT !.authPrompt = FALSE, !.told = told]
  <2>1. told \in Seq(Outcomes)
    BY DEF Good, TypeOfManager
  <2>2. cm' = Click(c)
    BY <1>2 DEF ClickDisconnect
  <2>. HIDE DEF told
  <2>3. Good(c)
    BY <2>1 DEF Good, Quiet, Manned, Owned, IsSettled, TypeOfManager
  <2>4. /\ Budget(c) = Budget(cm) /\ c.state = cm.state /\ c.timers = cm.timers
        /\ c.conn = cm.conn /\ c.dialed = cm.dialed /\ c.queue = cm.queue
    BY <1>0 DEF TypeOfManager, Budget
  <2>. HIDE DEF c
  <2>5. Keeps(cm, c)
    BY <2>4, SameKeeps
  <2>. QED
    BY <1>0, <2>2, <2>3, <2>5, ClickKeeps DEF Keeps
<1>3. CASE Reconnect
  BY <1>0, <1>3, HandleReconnectingKeeps DEF Reconnect
<1>4. CASE ForwardUserInputOrReconnect
  <2>. DEFINE s == SetState(cm, "Connecting", "Regular")
              c == [s EXCEPT !.succeeded = FALSE, !.authPrompt = FALSE]
  <2>1. Good(s) /\ s.state = "Connecting" /\ s.conn = cm.conn /\ s.timers = cm.timers /\ Budget(s) = Budget(cm)
    BY <1>0, SetStateGood, SetStateFrame
  <2>. HIDE DEF s
  <2>2. c \in TypeOfManager /\ c.state = "Connecting" /\ c.conn = s.conn /\ c.timers = s.timers
        /\ c.prep = s.prep /\ c.queue = s.queue /\ Budget(c) = Budget(s)
    BY <2>1 DEF Good, TypeOfManager, Budget
  <2>3. PICK env \in Now : cm' = StartAttempt(c, env)
    BY <1>4 DEF ForwardUserInputOrReconnect, s
  <2>. HIDE DEF c
  <2>4. Good(c) /\ ~IsSettled(c)
    BY <2>1, <2>2, SameGood DEF IsSettled
  <2>5. Keeps(cm, c)
    BY <2>1, <2>2, AwakeKeeps DEF Kept, Placed
  <2>6. Keeps(c, cm')
    BY <2>2, <2>3, <2>4, <2>5, NowConditions, StartAttemptKeeps DEF Keeps
  <2>. QED
    BY <1>0, <2>5, <2>6 DEF Keeps
<1>5. ASSUME NEW yes \in BOOLEAN, OnWireGuardKeyLimitUserResponse(yes) PROVE Spares(cm, cm')
  <2>. DEFINE c == [cm EXCEPT !.keyPrompt = FALSE]
              prep == IF c.prep = "consent" THEN "preparing" ELSE c.prep
              p == [c EXCEPT !.prep = prep]
  <2>1. Good(c)
    BY DEF Good, Quiet, Manned, Owned, IsSettled, TypeOfManager
  <2>2. \/ cm' \in {c, Click(c)}
        \/ cm' = Arm(p, {"connecting"})
    BY <1>5 DEF OnWireGuardKeyLimitUserResponse, IsAttemptActive
  <2>3. /\ Budget(c) = Budget(cm) /\ c.state = cm.state /\ c.timers = cm.timers
        /\ c.conn = cm.conn /\ c.dialed = cm.dialed /\ c.queue = cm.queue
    BY <1>0 DEF TypeOfManager, Budget
  <2>. HIDE DEF c
  <2>4. Keeps(cm, c)
    BY <2>3, SameKeeps
  <2>5. p \in TypeOfManager
    <3>1. prep \in {"none", "preparing", "consent"}
      BY <2>1 DEF Good, TypeOfManager
    <3>. HIDE DEF prep
    <3>. QED
      BY <2>1, <3>1 DEF Good, TypeOfManager
  <2>6. /\ Budget(p) = Budget(c) /\ p.state = c.state /\ p.timers = c.timers
        /\ p.conn = c.conn /\ p.dialed = c.dialed /\ p.queue = c.queue
    BY <2>1 DEF Good, TypeOfManager, Budget
  <2>. HIDE DEF p
  <2>7. Keeps(c, p)
    BY <2>4, <2>6, SameKeeps DEF Keeps
  <2>8. Keeps(p, Arm(p, {"connecting"}))
    BY <2>5, <2>7, TimersKeep DEF Keeps
  <2>9. Keeps(c, Click(c))
    BY <2>1, <2>4, ClickKeeps DEF Keeps
  <2>. QED
    BY <1>0, <2>2, <2>4, <2>7, <2>8, <2>9 DEF Keeps
<1>6. ASSUME NEW yes \in BOOLEAN, OnTunnelTestResult(yes) PROVE Spares(cm, cm')
  <2>. DEFINE w == ResetCachedConfigBudget(cm.walk)
              c == [cm EXCEPT !.walk = w, !.succeeded = cm.succeeded \/ IsAutomaticMode(cm.walk)]
  <2>1. Thrifty(cm.walk, w)
    BY <1>0, ThriftyUpdates DEF TypeOfManager
  <2>2. cm' \in {c, cm, HandleAttemptFailed(cm, TRUE)}
    BY <1>6 DEF OnTunnelTestResult
  <2>. HIDE DEF w
  <2>3. /\ Skeleton(c) = Skeleton(cm) /\ c.fetches = cm.fetches /\ c.fetchMode = cm.fetchMode
        /\ c.stored = cm.stored /\ c.walk = w
    BY <1>0 DEF TypeOfManager, Skeleton
  <2>. HIDE DEF c
  <2>4. Keeps(cm, c) /\ Keeps(cm, cm)
    BY <1>0, <2>1, <2>3, ThriftyKeeps DEF Keeps
  <2>. QED
    BY <1>0, <2>2, <2>4, HandleAttemptFailedKeeps
<1>7. CASE SetFirewallAlwaysOnPlusEnabled
  <2>1. /\ Budget(cm') = Budget(cm) /\ cm'.state = cm.state /\ cm'.timers = cm.timers
        /\ cm'.conn = cm.conn /\ cm'.dialed = cm.dialed /\ cm'.queue = cm.queue
    BY <1>0, <1>7 DEF SetFirewallAlwaysOnPlusEnabled, TypeOfManager, Budget
  <2>. DEFINE n == cm'
  <2>. HIDE DEF n
  <2>2. Keeps(cm, n)
    BY <2>1, SameKeeps DEF n
  <2>. QED
    BY <1>0, <2>2 DEF n
<1>. QED
  BY <1>1, <1>2, <1>3, <1>4, <1>5, <1>6, <1>7 DEF Requests

\* The timers spare it.
LEMMA TimeoutsSpare ==
    ASSUME Good(cm), Kept(cm), online \in BOOLEAN, Timeouts
    PROVE  Spares(cm, cm')
<1>0. cm \in TypeOfManager /\ \A k : Keeps(cm, k) => Spares(cm, k)
  BY DEF Good, Keeps, Spares
<1>1. CASE OnTimerReconnection
  <2>. DEFINE m == Disarm(cm, {"cap"})
  <2>1. Good(m) /\ m.state = cm.state /\ m.conn = cm.conn /\ Budget(m) = Budget(cm)
    BY <1>0, DisarmGood, ArmFrame DEF Timers
  <2>2. \/ m.state = "Stopping" /\ cm' = m
        \/ cm' \in {StartDisconnect(Stop(m, "timeout")), Report(Disconnect(m), "timeout")}
    <3>. m.state # "Stopping" \/ m.state = "Stopping"
      OBVIOUS
    <3>. QED
      BY <1>1 DEF OnTimerReconnection
  <2>3. m.state # "WaitingForNetwork" => Keeps(cm, m)
    BY <1>0, <2>1, TimersKeep
  <2>. HIDE DEF m
  <2>4. Fresh(m) /\ m.stored = cm.stored
    BY <2>1, FreshSame DEF Kept
  <2>5. Keeps(m, Stop(m, "timeout")) /\ Good(Stop(m, "timeout"))
    BY <2>1, <2>4, EndFresh, StopGood DEF Good, Outcomes
  <2>6. Keeps(m, StartDisconnect(Stop(m, "timeout")))
    BY <2>5, StartDisconnectKeeps DEF Good, Keeps
  <2>7. Keeps(m, Disconnect(m)) /\ Good(Disconnect(m))
    BY <2>1, <2>4, EndFresh, DisconnectGood DEF Good
  <2>8. Keeps(m, Report(Disconnect(m), "timeout"))
    BY <2>7, EndKeeps DEF Good, Keeps
  <2>. QED
    BY <1>0, <2>2, <2>3, <2>4, <2>6, <2>8 DEF Keeps
<1>2. CASE OnConnectTrigger
  <2>. DEFINE m == Disarm(cm, {"rest"})
  <2>1. Good(m) /\ m.state = cm.state /\ Keeps(cm, m)
    BY <1>0, DisarmGood, TimersKeep DEF Timers
  <2>2. ~IsSettled(m) /\ cm.conn = "none"
    BY <1>2, <2>1 DEF OnConnectTrigger, Good, Quiet, IsSettled, Kept, Placed
  <2>3. cm.state = "WaitingForNetwork" => {"cap", "poll"} \subseteq m.timers
    <3>1. m.timers = cm.timers \ {"rest"}
      BY <1>0 DEF Disarm, TypeOfManager
    <3>2. ~Ended(cm)
      BY <2>2 DEF Good, Owned, Ended
    <3>. HIDE DEF m
    <3>. QED
      BY <2>2, <3>1, <3>2 DEF Kept, Placed
  <2>4. PICK env \in Now : cm' = StartAttempt(m, env)
    BY <1>2 DEF OnConnectTrigger
  <2>. HIDE DEF m
  <2>5. Keeps(m, cm')
    BY <2>1, <2>2, <2>3, <2>4, NowConditions, StartAttemptKeeps DEF Keeps
  <2>. QED
    BY <1>0, <2>1, <2>5 DEF Keeps
<1>3. CASE OnConnectingTimeout
  <2>. DEFINE m == Disarm(cm, {"connecting"})
              c == ClearCachedConfigIfExhausted(m, TRUE)
  <2>1. Good(m) /\ Keeps(cm, m) /\ Budget(m) = Budget(cm)
    BY <1>0, DisarmGood, TimersKeep, ArmFrame DEF Timers
  <2>2. cm' = StartFailoverReconnect(c)
    BY <1>3 DEF OnConnectingTimeout
  <2>. HIDE DEF m
  <2>3. Good(c) /\ Spares(m, c)
    BY <2>1, ClearCachedConfigGood, ClearCachedConfigSpares DEF Good, Keeps
  <2>. HIDE DEF c
  <2>4. Keeps(c, cm')
    BY <2>2, <2>3, StartFailoverReconnectKeeps DEF Spares
  <2>. QED
    BY <2>1, <2>3, <2>4 DEF Keeps, Spares, Budget
<1>4. CASE OnTimerWaitNetworkConnectivity
  <2>. DEFINE m == Disarm(cm, {"poll"})
              again == SetState(m, "Reconnecting", "Regular")
  <2>1. Good(m) /\ m.state = cm.state /\ m.conn = cm.conn /\ Budget(m) = Budget(cm)
        /\ m.timers = cm.timers \ {"poll"}
    <3>1. m.timers = cm.timers \ {"poll"}
      BY <1>0 DEF Disarm, TypeOfManager
    <3>. QED
      BY <1>0, <3>1, DisarmGood, ArmFrame DEF Timers
  <2>2. ~IsSettled(m)
    BY <1>4, <2>1 DEF OnTimerWaitNetworkConnectivity, Good, Quiet, IsSettled
  <2>3. PICK env \in Now : \/ m.state = "WaitingForNetwork" /\ cm' = StartAttempt(again, env)
                           \/ m.state # "WaitingForNetwork" /\ cm' = StartAttempt(m, env)
                           \/ cm' = Report(Disconnect(cm), "timeout")
    BY <1>4, <2>1 DEF OnTimerWaitNetworkConnectivity
  <2>4. m.state # "WaitingForNetwork" => Keeps(cm, m)
    BY <1>0, <2>1, TimersKeep
  <2>. HIDE DEF m
  <2>5. Fresh(m) /\ m.stored = cm.stored /\ ("rest" \in m.timers => m.conn = "none")
    BY <2>1, FreshSame DEF Kept, Placed
  <2>6. Good(again) /\ ~IsSettled(again) /\ again.state = "Reconnecting"
        /\ again.conn = m.conn /\ again.timers = m.timers /\ Budget(again) = Budget(m)
    BY <2>1, SetStateGood, SetStateFrame DEF Good
  <2>. HIDE DEF again
  <2>7. Keeps(m, again)
    BY <2>5, <2>6, AwakeKeeps
  <2>8. Keeps(m, StartAttempt(again, env))
    BY <2>3, <2>6, <2>7, NowConditions, StartAttemptKeeps DEF Keeps
  <2>9. m.state # "WaitingForNetwork" => Keeps(cm, StartAttempt(m, env))
    BY <2>1, <2>2, <2>3, <2>4, NowConditions, StartAttemptKeeps DEF Keeps
  <2>10. Keeps(cm, Disconnect(cm)) /\ Good(Disconnect(cm))
    BY <1>0, EndKeeps, DisconnectGood DEF Good
  <2>11. Keeps(cm, Report(Disconnect(cm), "timeout"))
    BY <2>10, EndKeeps DEF Keeps, Good
  <2>. QED
    BY <1>0, <2>3, <2>5, <2>8, <2>9, <2>11 DEF Keeps
<1>5. ASSUME NEW n \in 0 .. MaxEndpoints, OnHostnamesResolved(n) PROVE Spares(cm, cm')
  <2>. DEFINE w == IF cm.walk.kind = "emergency" THEN OnEndpointsReceived(cm.walk, n) ELSE cm.walk
              m == [cm EXCEPT !.resolving = FALSE, !.walk = w]
  <2>1. n \in Nat /\ cm.walk \in Strategy
    BY <1>0, BoundAssumption DEF TypeOfManager
  <2>2. w \in Strategy /\ Thrifty(cm.walk, w)
    BY <2>1, StrategyType, ThriftyUpdates DEF Thrifty
  <2>3. PICK env \in Now : cm' = HostnamesResolved(m, env)
    BY <1>5 DEF OnHostnamesResolved
  <2>. HIDE DEF w
  <2>4. Good(m)
    BY <2>2 DEF Good, Quiet, Manned, Owned, IsSettled, TypeOfManager
  <2>5. /\ Skeleton(m) = Skeleton(cm) /\ m.fetches = cm.fetches /\ m.fetchMode = cm.fetchMode
        /\ m.stored = cm.stored /\ m.walk = w
    BY <1>0 DEF TypeOfManager, Skeleton
  <2>. HIDE DEF m
  <2>6. Keeps(cm, m)
    BY <1>0, <2>2, <2>5, ThriftyKeeps
  <2>7. Keeps(m, cm')
    BY <2>3, <2>4, <2>6, NowConditions, HostnamesResolvedKeeps DEF Keeps
  <2>. QED
    BY <1>0, <2>6, <2>7 DEF Keeps
<1>. QED
  BY <1>1, <1>2, <1>3, <1>4, <1>5 DEF Timeouts

-----------------------------------------------------------------------------
(* The system and the connector; the theorems                               *)

\* A record that is awake again or asleep, whatever it was before.
LEMMA SleepFresh ==
    ASSUME NEW m \in TypeOfManager, Fresh(m), m.timers = {}
    PROVE  /\ Keeps(m, SetState(m, "Sleeping", "Regular"))
           /\ m.state # "WaitingForNetwork" => Keeps(m, m)
BY SetStateFrame, AwakeKeeps DEF Skeleton, Keeps, Kept, Placed

\* onSleepMode() spares it.
LEMMA SleepModeSpares ==
    ASSUME Good(cm), Kept(cm), OnSleepMode
    PROVE  Spares(cm, cm')
<1>. DEFINE m == Halted(cm)
<1>1. /\ m \in TypeOfManager /\ m.timers = {} /\ Budget(m) = Budget(cm) /\ m.state = cm.state
      /\ m.conn = cm.conn /\ m.prep = cm.prep /\ m.queue = cm.queue
  BY DEF Good, Halted, TypeOfManager, Budget
<1>2. \/ IsSettled(cm) /\ cm' = m
      \/ cm' = SetState(m, "Sleeping", "Regular")
      \/ Busy(cm) /\ cm' = FallAsleep(m)
      \/ Busy(cm) /\ cm' = Blocked(m)
      \/ Busy(cm) /\ cm' = FallAsleep([Blocked(m) EXCEPT !.conn = "down"])
  BY SleepWays DEF Good
<1>3. Good(m)
  BY <1>1, SameGood
<1>. HIDE DEF m
<1>4. Fresh(m) /\ m.stored = cm.stored /\ m.fetchMode = cm.fetchMode
  BY <1>1, FreshSame DEF Kept, Budget
<1>5. \A k : Keeps(m, k) => Spares(cm, k)
  BY <1>4 DEF Keeps, Spares
<1>6. CASE IsSettled(cm) \/ Busy(cm)
  <2>1. m.state # "WaitingForNetwork"
    BY <1>1, <1>6 DEF IsSettled, Busy
  <2>2. Keeps(m, m) /\ Kept(m)
    BY <1>1, <1>4, <2>1, SleepFresh DEF Keeps
  <2>3. Keeps(m, FallAsleep(m)) /\ Keeps(m, SetState(m, "Sleeping", "Regular"))
    BY <1>1, <1>3, <1>4, <2>2, FallAsleepKeeps, SleepFresh
  <2>. DEFINE d == StartDisconnect(m)
              b == Blocked(m)
              z == [b EXCEPT !.conn = "down"]
  <2>4. Keeps(m, d) /\ Good(d) /\ d.timers = {} /\ d.state = m.state
    BY <1>1, <1>3, <2>2, StartDisconnectKeeps, StartDisconnectGood
  <2>5. b = [d EXCEPT !.blocking = TRUE]
    BY DEF Blocked
  <2>. HIDE DEF d
  <2>6. /\ b \in TypeOfManager /\ Budget(b) = Budget(d) /\ b.state = d.state /\ b.timers = {}
        /\ b.conn = d.conn /\ b.dialed = d.dialed /\ b.queue = d.queue /\ b.prep = d.prep
    BY <2>4, <2>5 DEF Good, Budget, TypeOfManager
  <2>. HIDE DEF b
  <2>7. Keeps(d, b)
    BY <2>4, <2>6, SameKeeps DEF Keeps
  <2>8. Keeps(m, b) /\ Good(b)
    BY <2>4, <2>6, <2>7, SameGood DEF Keeps
  <2>9. /\ z \in TypeOfManager /\ z.conn = "down" /\ z.state = b.state /\ z.timers = {}
        /\ Budget(z) = Budget(b)
    BY <2>6 DEF TypeOfManager, Budget, Connectors
  <2>. HIDE DEF z
  <2>10. Good(z)
    BY <2>1, <2>4, <2>6, <2>9 DEF Good, Quiet, Manned, Owned
  <2>11. Keeps(b, z)
    BY <2>1, <2>4, <2>6, <2>8, <2>9, AwakeKeeps DEF Keeps, Kept
  <2>12. Keeps(m, FallAsleep(z))
    BY <2>8, <2>10, <2>11, FallAsleepKeeps DEF Keeps
  <2>. QED
    BY <1>2, <1>5, <2>2, <2>3, <2>8, <2>12 DEF z, b
<1>7. CASE ~(IsSettled(cm) \/ Busy(cm))
  BY <1>1, <1>2, <1>4, <1>5, <1>7, SleepFresh
<1>. QED
  BY <1>6, <1>7

\* onNetworkOnlineStateChanged() spares it.
LEMMA NetworkSpares ==
    ASSUME Good(cm), Kept(cm), OnNetworkOnlineStateChanged
    PROVE  Spares(cm, cm')
<1>. DEFINE alive == ~online
            m == Noticed(cm, alive)
            w == Waiting(m)
            again == SetState(m, "Reconnecting", "Regular")
<1>0. \A k : Keeps(cm, k) => Spares(cm, k)
  BY DEF Keeps, Spares
<1>1. \/ cm' \in {cm, m}
      \/ cm.conn # "none" /\ cm.dialed
         /\ cm' \in {StartDisconnect(Arm(w, {"cap"})), StartDisconnect(w), StartDisconnect(Arm(again, {"cap"}))}
  BY NetworkWays DEF Good
<1>2. alive \in BOOLEAN
  OBVIOUS
<1>. HIDE DEF alive
<1>3. Good(m)
  BY <1>2 DEF Noticed, Good, Quiet, Manned, Owned, IsSettled, TypeOfManager
<1>4. /\ Budget(m) = Budget(cm) /\ m.state = cm.state /\ m.timers = cm.timers
      /\ m.conn = cm.conn /\ m.dialed = cm.dialed /\ m.queue = cm.queue
  BY DEF Good, Noticed, TypeOfManager, Budget
<1>. HIDE DEF m
<1>5. Keeps(cm, m)
  BY <1>4, SameKeeps
<1>6. /\ Good(w) /\ Budget(w) = Budget(m) /\ Good(again) /\ Budget(again) = Budget(m)
      /\ Skeleton(w) = <<"WaitingForNetwork", m.timers, m.conn, m.dialed, m.queue, m.blocking, m.lastOnline, m.authPrompt>>
      /\ Skeleton(again) = <<"Reconnecting", m.timers, m.conn, m.dialed, m.queue, m.blocking, m.lastOnline, m.authPrompt>>
  BY <1>3, SetStateGood, SetStateFrame DEF Waiting, Good
<1>. HIDE DEF w, again
<1>7. cm.conn # "none" /\ cm.dialed => Keeps(m, w)
  BY <1>4, <1>5, <1>6 DEF Keeps, Kept, Placed, Fresh, Budget, Skeleton
<1>8. Keeps(m, again)
  BY <1>5, <1>6, AwakeKeeps DEF Keeps, Kept, Placed, Skeleton
<1>9. \A n : Keeps(m, n) /\ Good(n) => /\ Keeps(m, StartDisconnect(n))
                                       /\ Keeps(m, Arm(n, {"cap"}))
                                       /\ Arm(n, {"cap"}) \in TypeOfManager
  BY StartDisconnectKeeps, TimersKeep, ArmType DEF Keeps, Good, Timers
<1>10. \A n : Keeps(m, n) /\ Good(n) => Keeps(m, StartDisconnect(Arm(n, {"cap"})))
  BY <1>9, StartDisconnectKeeps DEF Keeps
<1>. QED
  BY <1>0, <1>1, <1>5, <1>6, <1>7, <1>8, <1>9, <1>10 DEF Keeps, Spares

\* The system's notifications spare it.
LEMMA SystemSpares ==
    ASSUME Good(cm), Kept(cm), online \in BOOLEAN, System
    PROVE  Spares(cm, cm')
<1>0. \A k : Keeps(cm, k) => Spares(cm, k)
  BY DEF Keeps, Spares
<1>1. CASE EndBlockingDisconnect
  <2>. DEFINE f == FallAsleep(cm)
  <2>1. Good(f) /\ Keeps(cm, f)
    BY FallAsleepGood, FallAsleepKeeps
  <2>2. PICK env \in Now : cm' \in {[RestoreConnectionAfterWakeUp(f, env) EXCEPT !.wake = FALSE], f}
    BY <1>1 DEF EndBlockingDisconnect
  <2>. HIDE DEF f
  <2>. DEFINE r == RestoreConnectionAfterWakeUp(f, env)
              n == [r EXCEPT !.wake = FALSE]
  <2>3. Good(r) /\ Keeps(f, r)
    BY <2>1, <2>2, NowConditions, RestoreConnectionGood, RestoreKeeps DEF Keeps, Kept, Placed
  <2>. HIDE DEF r
  <2>4. /\ Budget(n) = Budget(r) /\ n.state = r.state /\ n.timers = r.timers
        /\ n.conn = r.conn /\ n.dialed = r.dialed /\ n.queue = r.queue
    BY <2>3 DEF Good, TypeOfManager, Budget
  <2>. HIDE DEF n
  <2>5. Keeps(r, n)
    BY <2>3, <2>4, SameKeeps DEF Keeps
  <2>. QED
    BY <1>0, <2>1, <2>2, <2>3, <2>5 DEF Keeps, n, r
<1>2. CASE OnWakeMode
  <2>. DEFINE d == Disarm(cm, {"cap", "rest"})
              m == [d EXCEPT !.wake = TRUE]
  <2>1. Good(d) /\ Budget(d) = Budget(cm) /\ d.state = cm.state /\ d.conn = cm.conn
        /\ d.timers = cm.timers \ {"cap", "rest"}
    <3>1. d.timers = cm.timers \ {"cap", "rest"}
      BY DEF Good, Disarm, TypeOfManager
    <3>. QED
      BY <3>1, DisarmGood, ArmFrame DEF Timers, Good
  <2>2. PICK env \in Now : \/ m.state \in {"Disconnected", "Stopping"} /\ cm' = m
                           \/ cm' = RestoreConnectionAfterWakeUp(m, env)
    BY <1>2 DEF OnWakeMode
  <2>. HIDE DEF d
  <2>3. Good(m)
    BY <2>1 DEF Good, Quiet, Manned, Owned, IsSettled, TypeOfManager
  <2>4. Budget(m) = Budget(d) /\ m.timers = d.timers /\ m.conn = d.conn
    BY <2>1 DEF Good, Budget, TypeOfManager
  <2>. HIDE DEF m
  <2>5. Fresh(m) /\ m.stored = cm.stored /\ "rest" \notin m.timers
    BY <2>1, <2>4, FreshSame DEF Kept
  <2>6. Keeps(m, RestoreConnectionAfterWakeUp(m, env))
    BY <2>2, <2>3, <2>5, NowConditions, RestoreKeeps
  <2>7. m.state \in {"Disconnected", "Stopping"} => Keeps(m, m)
    BY <2>5 DEF Keeps, Kept, Placed
  <2>. QED
    BY <1>0, <2>2, <2>5, <2>6, <2>7 DEF Keeps
<1>. QED
  BY <1>1, <1>2, SleepModeSpares, NetworkSpares DEF System

\* The connector's own steps spare it.
LEMMA ConnectorSpares ==
    ASSUME Good(cm), Kept(cm), Connector
    PROVE  Spares(cm, cm')
<1>0. /\ {"prepared", "prepareFailed", "keyLimit", "connected", "reconnecting",
          "disconnected", "error"} \subseteq SignalNames
      /\ {"kNoError", "kLocalProcessNotResponding"} \subseteq ConnectError
      /\ PrepareErrors \subseteq ConnectError
      /\ StartErrors \subseteq ConnectError /\ LiveErrors \subseteq ConnectError
      /\ cm \in TypeOfManager
  BY ErrorAssumption DEF SignalNames, ConnectError, RuntimeErrors, OtherErrors, LocalErrors, Good
<1>1. ASSUME NEW n \in TypeOfManager, cm.conn # "none", n.conn # "none", n.state = cm.state,
             n.timers = cm.timers, n.dialed = cm.dialed, n.queue = cm.queue, n.walk = cm.walk,
             n.fetches = cm.fetches, n.fetchMode = cm.fetchMode, cm.stored => n.stored
      PROVE  /\ Spares(cm, n)
             /\ \A name \in SignalNames, err \in ConnectError : Spares(cm, Emit(n, name, err))
  <2>1. Kept(n)
    BY <1>1 DEF Kept, Placed, Fresh, Ended
  <2>2. \A name \in SignalNames, err \in ConnectError : Keeps(n, Emit(n, name, err))
    BY <1>1, <2>1, EmitKeeps
  <2>. QED
    BY <1>1, <2>1, <2>2 DEF Keeps, Spares
<1>2. ASSUME NEW c \in Connectors \ {"none"}, cm.conn # "none"
      PROVE  /\ Spares(cm, [cm EXCEPT !.conn = c])
             /\ \A name \in SignalNames, err \in ConnectError :
                  Spares(cm, Emit([cm EXCEPT !.conn = c], name, err))
  <2>. DEFINE n == [cm EXCEPT !.conn = c]
  <2>1. /\ n \in TypeOfManager /\ n.conn = c /\ n.state = cm.state /\ n.timers = cm.timers
        /\ n.dialed = cm.dialed /\ n.queue = cm.queue /\ n.walk = cm.walk
        /\ n.fetches = cm.fetches /\ n.fetchMode = cm.fetchMode /\ n.stored = cm.stored
    BY <1>0 DEF TypeOfManager
  <2>. HIDE DEF n
  <2>2. Spares(cm, n) /\ \A name \in SignalNames, err \in ConnectError : Spares(cm, Emit(n, name, err))
    BY <1>1, <1>2, <2>1
  <2>. QED
    BY <2>2 DEF n
<1>3. ASSUME NEW p \in {"none", "consent"}, NEW s \in BOOLEAN, cm.stored => s, cm.conn # "none",
             NEW name \in SignalNames, NEW err \in ConnectError
      PROVE  Spares(cm, Emit([cm EXCEPT !.prep = p, !.stored = s], name, err))
  <2>. DEFINE n == [cm EXCEPT !.prep = p, !.stored = s]
  <2>1. /\ n \in TypeOfManager /\ n.conn = cm.conn /\ n.state = cm.state /\ n.timers = cm.timers
        /\ n.dialed = cm.dialed /\ n.queue = cm.queue /\ n.walk = cm.walk
        /\ n.fetches = cm.fetches /\ n.fetchMode = cm.fetchMode /\ n.stored = s
    BY <1>0, <1>3 DEF TypeOfManager
  <2>. HIDE DEF n
  <2>2. Spares(cm, Emit(n, name, err))
    BY <1>1, <1>3, <2>1
  <2>. QED
    BY <2>2 DEF n
<1>4. cm.prep = "preparing" => cm.conn # "none"
  BY DEF Good, Owned
<1>5. \A p : [cm EXCEPT !.prep = p] = [cm EXCEPT !.prep = p, !.stored = cm.stored]
  BY <1>0 DEF TypeOfManager
<1>6. cm.stored \in BOOLEAN /\ cm.fetches \in BOOLEAN
  BY <1>0 DEF TypeOfManager
<1>7. CASE ConnectorPrepared
  <2>. DEFINE s == cm.stored \/ (cm.fetches /\ cm.fetchMode = "Normal")
  <2>1. cm' = Emit([cm EXCEPT !.prep = "none", !.stored = s], "prepared", "kNoError")
    BY <1>7 DEF ConnectorPrepared, ConnectorStep
  <2>2. s \in BOOLEAN /\ (cm.stored => s) /\ cm.conn # "none"
    BY <1>4, <1>6, <1>7 DEF ConnectorPrepared
  <2>. HIDE DEF s
  <2>. QED
    BY <1>0, <1>3, <2>1, <2>2
<1>8. ASSUME NEW err \in PrepareErrors, ConnectorPrepareFailed(err) PROVE Spares(cm, cm')
  <2>1. cm' = Emit([cm EXCEPT !.prep = "none", !.stored = cm.stored], "prepareFailed", err)
    BY <1>5, <1>8 DEF ConnectorPrepareFailed, ConnectorStep
  <2>. QED
    BY <1>0, <1>3, <1>4, <1>6, <1>8, <2>1 DEF ConnectorPrepareFailed
<1>9. CASE ConnectorAtKeyLimit
  <2>1. cm' = Emit([cm EXCEPT !.prep = "consent", !.stored = cm.stored], "keyLimit", "kNoError")
    BY <1>5, <1>9 DEF ConnectorAtKeyLimit, ConnectorStep
  <2>. QED
    BY <1>0, <1>3, <1>4, <1>6, <1>9, <2>1 DEF ConnectorAtKeyLimit
<1>10. CASE ConnectorStarted
  BY <1>0, <1>2, <1>10 DEF ConnectorStarted, ConnectorStep, Connectors
<1>11. CASE ConnectorConnected
  BY <1>0, <1>2, <1>11 DEF ConnectorConnected, ConnectorStep, Connectors
<1>12. CASE ConnectorReconnecting
  BY <1>0, <1>12, EmitKeeps DEF ConnectorReconnecting, ConnectorStep, Keeps, Spares
<1>13. ASSUME NEW err \in StartErrors, ConnectorStartFailed(err) PROVE Spares(cm, cm')
  BY <1>0, <1>2, <1>13 DEF ConnectorStartFailed, ConnectorStep, Connectors
<1>14. ASSUME NEW err \in LiveErrors, ConnectorFailed(err) PROVE Spares(cm, cm')
  <2>. DEFINE c == IF err = "kAuthFailure" THEN "stopping" ELSE cm.conn
  <2>1. c \in Connectors \ {"none"} /\ cm.conn # "none"
    BY <1>14 DEF ConnectorFailed, Connectors
  <2>2. cm' = Emit([cm EXCEPT !.conn = c], "error", err)
    BY <1>14 DEF ConnectorFailed, ConnectorStep
  <2>. HIDE DEF c
  <2>. QED
    BY <1>0, <1>2, <2>1, <2>2
<1>15. CASE ConnectorDied
  BY <1>0, <1>2, <1>15 DEF ConnectorDied, ConnectorStep, Connectors
<1>16. CASE ConnectorStopped
  BY <1>0, <1>2, <1>16 DEF ConnectorStopped, ConnectorStep, Connectors
<1>17. CASE ConnectorSettledSilently
  BY <1>0, <1>2, <1>17 DEF ConnectorSettledSilently, ConnectorStep, Connectors
<1>. QED
  BY <1>7, <1>8, <1>9, <1>10, <1>11, <1>12, <1>13, <1>14, <1>15, <1>16, <1>17 DEF Connector

\* A manager just constructed keeps the invariant.
LEMMA InitKept == Init => Kept(cm)
<1>. SUFFICES ASSUME Init PROVE Kept(cm)
  OBVIOUS
<1>1. cm.timers = {} /\ cm.state = "Disconnected" /\ cm.fetches = FALSE
      /\ cm.walk = CreateStrategy("manual", FALSE, FALSE)
  BY DEF Init
<1>2. cm.walk.kind = "manual"
  BY <1>1 DEF CreateStrategy
<1>. QED
  BY <1>1, <1>2 DEF Kept, Placed, Fresh

\* Every step keeps the invariant and spares a fresh configuration.
LEMMA NextKept == IInv /\ Kept(cm) /\ [Next]_vars => Spares(cm, cm')
<1>. SUFFICES ASSUME IInv, Kept(cm), [Next]_vars PROVE Spares(cm, cm')
  OBVIOUS
<1>1. CASE UNCHANGED vars
  BY <1>1 DEF vars, Spares
<1>. QED
  BY <1>1, SlotsSpare, RequestsSpare, TimeoutsSpare, SystemSpares, ConnectorSpares DEF IInv, Next

\* The invariant holds in every state.
LEMMA AlwaysKept == Spec => []Kept(cm)
<1>1. IInv /\ Kept(cm) /\ [Next]_vars => Kept(cm)'
  BY NextKept DEF Spares
<1>. QED
  BY <1>1, InitKept, AlwaysGood, PTL DEF Spec

\* A session parked without a network always has what resumes it: the timers
\* that look for a network, or a connector whose end is still to come
\* (connectionmanager.cpp, restoreConnectionAfterWakeUp() and the poll timer).
THEOREM ParkedIsWoken == Spec => []ParkedHasWakeUp
<1>1. Kept(cm) => ParkedHasWakeUp
  BY DEF Kept, Placed, Ended, ParkedHasWakeUp, Queued
<1>. QED
  BY <1>1, AlwaysKept, PTL

\* A stored WireGuard configuration is dropped only by an attempt that used the
\* stored one, never by the attempt that has just fetched it
\* (clearCachedWireGuardConfigIfExhausted()).
THEOREM FreshConfigKept == Spec => KeepsFreshConfig
<1>1. IInv /\ Kept(cm) /\ [Next]_vars => [cm.stored /\ ~cm'.stored => cm.fetchMode # "Normal"]_vars
  BY NextKept DEF Spares
<1>. QED
  BY <1>1, AlwaysGood, AlwaysKept, PTL DEF Spec, KeepsFreshConfig
=============================================================================
