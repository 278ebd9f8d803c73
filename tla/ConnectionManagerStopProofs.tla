--------------------- MODULE ConnectionManagerStopProofs --------------------
(***************************************************************************)
(* What a session's state says of its connector, where a connector keeps   *)
(* its side (Contract): a stop completes, no attempt is scheduled over a   *)
(* live tunnel, Connected has a tunnel and Disconnected has none.  The four*)
(* follow from one inductive invariant, Sound, with a second one for the   *)
(* machine that sleeps, Rested.                                            *)
(***************************************************************************)
EXTENDS ConnectionManagerWakeUpProofs

-----------------------------------------------------------------------------
(* The contract, the invariant, and what each helper leaves alone           *)

\* The errors that end a session without a stop of the connector.
SettledErrors == ServiceErrors \cup {"kLocalProcessLaunchFailure"}

\* The environments in which a manager's end is the end of its connector:
\* Windows, and Linux, where no sleep is notified. On macOS a signal queued before
\* a sleep may be delivered after an offline wake. The connector announces its
\* own end, asks for credentials only from a dialed tunnel, and reports no
\* service error from a live one, as the comments of onConnectionError() expect.
Contract ==
    /\ Platform = "windows" \/ (Platform = "linux" /\ ~HasSleepEvents)
    /\ ~SilentSettle /\ "kAuthFailure" \notin StartErrors /\ LiveErrors \cap SettledErrors = {}

\* A signal that a new attempt of the same connector must not overtake.
Late(s) == s.name = "connected" \/ (s.name = "error" /\ s.err = "kAuthFailure")

\* A queued signal fits the phase its connector is in.
Fits(m, s) ==
    /\ s.name = "connected" => m.dialed /\ m.conn \in {"up", "stopping", "down"}
    /\ s.name = "error" /\ s.err = "kAuthFailure" => m.dialed /\ m.conn \in {"stopping", "down"}
    /\ s.name = "error" /\ s.err \in SettledErrors => m.dialed /\ m.conn = "down"

\* The queued signals of the connector the manager has.
Current(m) == {m.queue[i] : i \in {j \in DOMAIN m.queue : m.queue[j].current}}

\* The connector is being stopped, or its end is already queued.
Ending(m) == m.conn \in {"aborting", "stopping"} \/ Ended(m)

\* What every operation may count on, whatever the session's state: the fields
\* besides the state are consistent with each other.
Body(m) ==
    /\ ~m.blocking /\ m.lastOnline /\ m.state # "WaitingForNetwork"
    /\ m.timers \cap {"rest", "poll"} # {} => m.conn = "none"
    /\ ~({"rest", "poll"} \subseteq m.timers)
    /\ m.conn \in {"none", "idle"} => ~m.dialed
    /\ m.conn \in Live => m.dialed
    /\ m.authPrompt => m.conn = "none"
    /\ \A s \in Current(m) : Fits(m, s)

\* The inductive invariant of the four properties: the session's state
\* agrees with the phase of its connector and with what is queued from it.
Sound(m) ==
    /\ Body(m)
    /\ m.authPrompt => m.state = "Disconnected"
    /\ m.conn = "down" /\ (\E s \in Current(m) : Late(s)) => Ended(m) \/ m.state = "Sleeping"
    /\ m.state \in {"Disconnected", "Sleeping"} => m.conn \notin Live
    /\ m.state = "Stopping" => Ending(m)
    /\ m.state = "Connected" => m.conn \in {"up", "stopping"} \/ Ended(m)

\* What Body reads besides the state and the timers.
Wiring(m) == <<m.conn, m.dialed, m.queue, m.blocking, m.lastOnline, m.authPrompt>>

\* What leaves the skeleton alone leaves the wiring alone.
LEMMA SkeletonWiring ==
    ASSUME NEW m, NEW n, Skeleton(n) = Skeleton(m)
    PROVE  Wiring(n) = Wiring(m) /\ n.state = m.state /\ n.timers = m.timers
BY DEF Skeleton, Wiring

\* The body holds while the wiring stays and no attempt is scheduled.
LEMMA BodyFrame ==
    ASSUME NEW m, Body(m), NEW n, Wiring(n) = Wiring(m),
           n.timers \cap {"rest", "poll"} \subseteq m.timers, n.state # "WaitingForNetwork"
    PROVE  Body(n) /\ (Ended(n) <=> Ended(m)) /\ (Ending(n) <=> Ending(m)) /\ Current(n) = Current(m)
<1>1. Current(n) = Current(m) /\ (Ended(n) <=> Ended(m)) /\ (Ending(n) <=> Ending(m))
  BY DEF Wiring, Current, Ended, Ending
<1>2. \A s \in Current(n) : Fits(n, s)
  BY <1>1 DEF Body, Fits, Wiring
<1>. QED
  BY <1>1, <1>2 DEF Body, Wiring

\* The invariant holds while the state stays as well.
LEMMA SoundFrame ==
    ASSUME NEW m, Sound(m), NEW n, Wiring(n) = Wiring(m),
           n.timers \cap {"rest", "poll"} \subseteq m.timers, n.state = m.state
    PROVE  Sound(n)
<1>1. Body(n) /\ (Ended(n) <=> Ended(m)) /\ (Ending(n) <=> Ending(m)) /\ Current(n) = Current(m)
  BY BodyFrame DEF Sound, Body
<1>. QED
  BY <1>1 DEF Sound, Wiring

\* A session without a connector has nothing to agree with.
LEMMA SoundEmpty ==
    ASSUME NEW n, n.conn = "none", Owned(n), ~n.dialed, ~n.blocking, n.lastOnline,
           n.state \notin {"WaitingForNetwork", "Stopping", "Connected"},
           ~({"rest", "poll"} \subseteq n.timers),
           n.authPrompt => n.state = "Disconnected"
    PROVE  Sound(n)
<1>1. Current(n) = {}
  BY DEF Owned, Current
<1>. QED
  BY <1>1 DEF Sound, Body, Live

\* An end that the connector is going to confirm.
LEMMA EndingSound ==
    ASSUME NEW m, Good(m), Body(m), Ending(m), m.state \notin {"Connected", "Disconnected", "Sleeping"}
    PROVE  Sound(m)
<1>1. m.conn # "none"
  BY DEF Ending, Ended, Good, Owned
<1>2. m.conn = "down" => Ended(m)
  BY DEF Ending
<1>. QED
  BY <1>1, <1>2 DEF Sound, Body

\* What a queue says after one more signal of the connector.
LEMMA CurrentAppend ==
    ASSUME NEW m \in TypeOfManager, NEW e \in Signals, e.current, NEW n, n.queue = Append(m.queue, e)
    PROVE  /\ Current(n) = Current(m) \cup {e}
           /\ Ended(m) => Ended(n)
           /\ e.name = "disconnected" => Ended(n)
<1>1. m.queue \in Seq(Signals)
  BY DEF TypeOfManager
<1>2. /\ DOMAIN n.queue = DOMAIN m.queue \cup {Len(m.queue) + 1}
      /\ n.queue[Len(m.queue) + 1] = e
      /\ \A i \in DOMAIN m.queue : n.queue[i] = m.queue[i]
  BY <1>1, AppendFacts
<1>3. Current(n) = Current(m) \cup {e}
  BY <1>2 DEF Current
<1>. QED
  BY <1>3, EmitEnded

\* startDisconnect() leaves a connector that is ending.
LEMMA StopBody ==
    ASSUME NEW m, Good(m), Body(m), m.conn # "none"
    PROVE  Body(StartDisconnect(m)) /\ Ending(StartDisconnect(m))
<1>. DEFINE d == StartDisconnect(m)
            bye == [current |-> TRUE, name |-> "disconnected", err |-> "kNoError"]
<1>1. /\ Skeleton(d) = <<m.state, m.timers, d.conn, m.dialed, d.queue, m.blocking, m.lastOnline, m.authPrompt>>
      /\ \/ /\ m.conn \in {"idle", "down"} /\ d.conn = "down"
            /\ d.queue = IF m.blocking THEN m.queue ELSE Append(m.queue, bye)
         \/ m.conn = "starting" /\ d.conn = "aborting" /\ d.queue = m.queue
         \/ m.conn \in {"dialing", "up"} /\ d.conn = "stopping" /\ d.queue = m.queue
         \/ m.conn \in {"none", "aborting", "stopping"} /\ d.conn = m.conn /\ d.queue = m.queue
  BY StartDisconnectFrame DEF Good
<1>2. bye \in Signals /\ m \in TypeOfManager
  BY DEF Signals, SignalNames, ConnectError, OtherErrors, Good
<1>3. bye.current /\ bye.name = "disconnected"
  OBVIOUS
<1>. HIDE DEF d, bye
<1>4. /\ d.state = m.state /\ d.timers = m.timers /\ d.dialed = m.dialed /\ d.blocking = m.blocking
      /\ d.lastOnline = m.lastOnline /\ d.authPrompt = m.authPrompt
  BY <1>1 DEF Skeleton
<1>5. CASE m.conn \in {"idle", "down"}
  <2>1. d.conn = "down" /\ d.queue = Append(m.queue, bye)
    BY <1>1, <1>5 DEF Body
  <2>2. Current(d) = Current(m) \cup {bye} /\ Ended(d)
    BY <1>2, <1>3, <2>1, CurrentAppend
  <2>3. \A s \in Current(m) : Fits(d, s)
    BY <1>4, <1>5, <2>1 DEF Body, Fits
  <2>4. Fits(d, bye)
    BY <1>3 DEF Fits
  <2>. QED
    BY <1>4, <1>5, <2>1, <2>2, <2>3, <2>4 DEF Body, Ending, Live, d
<1>6. CASE m.conn \notin {"idle", "down"}
  <2>1. d.queue = m.queue /\ d.conn \in {"aborting", "stopping"}
        /\ (m.conn = "starting" => d.conn = "aborting")
        /\ (m.conn \in {"dialing", "up"} => d.conn = "stopping")
        /\ (m.conn \in {"aborting", "stopping"} => d.conn = m.conn)
        /\ m.conn \in {"starting", "dialing", "up", "aborting", "stopping"}
    BY <1>1, <1>6
  <2>2. Current(d) = Current(m)
    BY <2>1 DEF Current
  <2>3. \A s \in Current(m) : Fits(d, s)
    BY <1>4, <2>1 DEF Body, Fits
  <2>4. m.dialed
    BY <2>1 DEF Body, Live
  <2>. QED
    BY <1>4, <2>1, <2>2, <2>3, <2>4 DEF Body, Ending, Live, d
<1>. QED
  BY <1>5, <1>6

\* A session that is under way and stops its connector is sound.
LEMMA StopSound ==
    ASSUME NEW m, Good(m), Body(m), m.conn # "none",
           m.state \notin {"Connected", "Disconnected", "Sleeping"}
    PROVE  Sound(StartDisconnect(m))
<1>1. Good(StartDisconnect(m)) /\ StartDisconnect(m).state = m.state
  BY StartDisconnectGood
<1>. QED
  BY <1>1, StopBody, EndingSound

\* Records derived from one whose wiring is in order.
LEMMA SetStateWiring ==
    ASSUME NEW m \in TypeOfManager, NEW s, NEW c
    PROVE  Wiring(SetState(m, s, c)) = Wiring(m) /\ SetState(m, s, c).timers = m.timers /\ SetState(m, s, c).state = s
BY SetStateFrame DEF Skeleton, Wiring

\* A stop is a change of the state and the timers.
LEMMA StopWiring ==
    ASSUME NEW m \in TypeOfManager, NEW o
    PROVE  Wiring(Stop(m, o)) = Wiring(m) /\ Stop(m, o).timers = {} /\ Stop(m, o).state = "Stopping"
BY DisconnectFrame DEF Skeleton, Wiring

\* So is an end.
LEMMA DisconnectWiring ==
    ASSUME NEW m \in TypeOfManager
    PROVE  Wiring(Disconnect(m)) = Wiring(m) /\ Disconnect(m).timers = {} /\ Disconnect(m).state = "Disconnected"
BY DisconnectFrame DEF Skeleton, Wiring

\* A report changes neither.
LEMMA ReportWiring ==
    ASSUME NEW m \in TypeOfManager, NEW o
    PROVE  Wiring(Report(m, o)) = Wiring(m) /\ Report(m, o).timers = m.timers /\ Report(m, o).state = m.state
BY ReportFrame DEF Skeleton, Wiring

\* A reconnect is a change of the state and one more timer.
LEMMA RetryWiring ==
    ASSUME NEW m \in TypeOfManager
    PROVE  /\ Wiring(EnterReconnecting(m)) = Wiring(m) /\ EnterReconnecting(m).timers = m.timers \cup {"cap"}
           /\ EnterReconnecting(m).state = "Reconnecting"
           /\ EnterReconnecting(m).cause = "Regular" /\ EnterReconnecting(m).ignore = m.ignore
BY DEF EnterReconnecting, Arm, SetState, Wiring, TypeOfManager

\* A strategy that begins again changes neither.
LEMMA ResetWiring ==
    ASSUME NEW m \in TypeOfManager
    PROVE  Wiring(ResetWalk(m)) = Wiring(m) /\ ResetWalk(m).timers = m.timers /\ ResetWalk(m).state = m.state
BY DEF ResetWalk, Wiring, TypeOfManager

\* A session that ends without a connector.
LEMMA EndSound ==
    ASSUME NEW m, Good(m), Body(m), m.conn = "none", NEW o
    PROVE  /\ Sound(Disconnect(m)) /\ Sound(Report(Disconnect(m), o))
           /\ Sound(Report(ResetWalk(Disconnect(m)), o))
<1>1. \A n : Wiring(n) = Wiring(m) /\ n.timers = {} /\ n.state = "Disconnected" => Sound(n)
  <2>. SUFFICES ASSUME NEW n, Wiring(n) = Wiring(m), n.timers = {}, n.state = "Disconnected" PROVE Sound(n)
    OBVIOUS
  <2>1. Current(n) = {}
    BY DEF Wiring, Current, Good, Owned
  <2>. QED
    BY <2>1 DEF Sound, Body, Wiring, Live
<1>2. Good(Disconnect(m)) /\ Good(ResetWalk(Disconnect(m)))
  BY DisconnectGood, ResetWalkGood DEF Good
<1>3. Wiring(Disconnect(m)) = Wiring(m) /\ Disconnect(m).timers = {} /\ Disconnect(m).state = "Disconnected"
  BY DisconnectWiring DEF Good
<1>. DEFINE d == Disconnect(m)
            w == ResetWalk(d)
<1>. HIDE DEF d
<1>4. Wiring(w) = Wiring(d) /\ w.timers = d.timers /\ w.state = d.state /\ d \in TypeOfManager /\ w \in TypeOfManager
  BY <1>2, ResetWiring DEF Good, d
<1>. HIDE DEF w
<1>5. /\ Wiring(Report(d, o)) = Wiring(d) /\ Report(d, o).timers = d.timers /\ Report(d, o).state = d.state
      /\ Wiring(Report(w, o)) = Wiring(w) /\ Report(w, o).timers = w.timers /\ Report(w, o).state = w.state
  BY <1>4, ReportWiring
<1>. QED
  BY <1>1, <1>3, <1>4, <1>5 DEF d, w

\* A session that ends with an error at once is sound.
LEMMA FailWithErrorSound ==
    ASSUME NEW m, Good(m), Body(m)
    PROVE  Sound(FailWithError(m))
<1>. DEFINE r == IF m.conn = "none" THEN m ELSE Retire(m)
<1>1. r \in TypeOfManager /\ Owned(r) /\ r.conn = "none" /\ r.dialed = FALSE /\ r.blocking = FALSE
      /\ r.lastOnline = TRUE
  <2>1. m \in TypeOfManager /\ Owned(m) /\ m.blocking = FALSE /\ m.lastOnline = TRUE
        /\ (m.conn = "none" => m.dialed = FALSE)
    BY DEF Good, Body, TypeOfManager
  <2>2. /\ Retire(m) \in TypeOfManager /\ Owned(Retire(m)) /\ Retire(m).conn = "none"
        /\ Retire(m).dialed = FALSE /\ Retire(m).blocking = m.blocking /\ Retire(m).lastOnline = m.lastOnline
    BY <2>1, RetireFacts, RetireFrame DEF Skeleton
  <2>. QED
    BY <2>1, <2>2
<1>. HIDE DEF r
<1>2. Good(Disconnect(r))
  BY <1>1, DisconnectGood
<1>3. /\ Wiring(Report(Disconnect(r), "error")) = Wiring(r)
      /\ Report(Disconnect(r), "error").timers = {} /\ Report(Disconnect(r), "error").state = "Disconnected"
  <2>. DEFINE d == Disconnect(r)
  <2>1. Wiring(d) = Wiring(r) /\ d.timers = {} /\ d.state = "Disconnected" /\ d \in TypeOfManager
    BY <1>1, <1>2, DisconnectWiring DEF Good
  <2>. HIDE DEF d
  <2>. QED
    BY <2>1, ReportWiring DEF d
<1>4. FailWithError(m) = Report(Disconnect(r), "error")
  BY DEF FailWithError, r
<1>5. \A n : Wiring(n) = Wiring(r) /\ n.timers = {} /\ n.state = "Disconnected" => Sound(n)
  <2>. SUFFICES ASSUME NEW n, Wiring(n) = Wiring(r), n.timers = {}, n.state = "Disconnected" PROVE Sound(n)
    OBVIOUS
  <2>1. Current(n) = {}
    BY <1>1 DEF Wiring, Current, Owned
  <2>. QED
    BY <1>1, <2>1 DEF Sound, Body, Wiring, Live
<1>. QED
  BY <1>3, <1>4, <1>5

\* clickDisconnect() keeps the invariant.
LEMMA ClickSound ==
    ASSUME NEW m, Good(m), Sound(m)
    PROVE  Sound(Click(m))
<1>1. "user" \in Outcomes
  BY DEF Outcomes
<1>2. CASE m.conn # "none"
  <2>1. Good(Stop(m, "user")) /\ Stop(m, "user").state = "Stopping" /\ Stop(m, "user").conn = m.conn
        /\ Body(Stop(m, "user"))
    <3>1. Good(Stop(m, "user")) /\ Stop(m, "user").state = "Stopping"
      BY <1>1, StopGood
    <3>2. Wiring(Stop(m, "user")) = Wiring(m) /\ Stop(m, "user").timers = {}
      BY StopWiring DEF Good
    <3>. QED
      BY <3>1, <3>2, BodyFrame DEF Sound, Wiring
  <2>2. Sound(StartDisconnect(Stop(m, "user")))
    BY <1>2, <2>1, StopSound
  <2>. QED
    BY <1>2, <2>2 DEF Click
<1>3. CASE m.conn = "none"
  BY <1>3, EndSound DEF Click, Sound
<1>. QED
  BY <1>2, <1>3

-----

\* A session that reconnects leaves its connector as it is.
LEMMA EnterReconnectingBody ==
    ASSUME NEW m, Good(m), Body(m)
    PROVE  /\ Good(EnterReconnecting(m)) /\ Body(EnterReconnecting(m))
           /\ EnterReconnecting(m).conn = m.conn /\ EnterReconnecting(m).state = "Reconnecting"
           /\ (Ending(EnterReconnecting(m)) <=> Ending(m))
<1>1. /\ Good(EnterReconnecting(m)) /\ EnterReconnecting(m).conn = m.conn
      /\ EnterReconnecting(m).state = "Reconnecting"
  BY EnterReconnectingGood
<1>2. Wiring(EnterReconnecting(m)) = Wiring(m) /\ EnterReconnecting(m).timers = m.timers \cup {"cap"}
  BY RetryWiring DEF Good
<1>. QED
  BY <1>1, <1>2, BodyFrame

\* handleAttemptFailed() of a connector that is stopped, or ends, keeps it.
LEMMA HandleAttemptFailedSound ==
    ASSUME NEW m, Good(m), Body(m), m.conn # "none", NEW b \in BOOLEAN, b \/ Ending(m)
    PROVE  Sound(HandleAttemptFailed(m, b))
<1>. DEFINE w == Walked(m)
<1>1. Good(w) /\ Skeleton(w) = Skeleton(m)
  BY WalkGood
<1>2. Wiring(w) = Wiring(m) /\ w.state = m.state /\ w.timers = m.timers /\ w \in TypeOfManager
      /\ w.conn = m.conn
  BY <1>1, SkeletonWiring DEF Good, Wiring
<1>3. Body(w) /\ (Ending(w) <=> Ending(m))
  BY <1>2, BodyFrame DEF Body
<1>. HIDE DEF w
<1>4. PICK n : /\ \/ n = w /\ m.state = "Reconnecting"
                  \/ n \in {Stop(w, "itself"), EnterReconnecting(w)}
               /\ HandleAttemptFailed(m, b) = IF b THEN StartDisconnect(n) ELSE n
  BY HandleAttemptFailedWays DEF Good, w
<1>5. /\ Good(n) /\ Body(n) /\ n.conn # "none" /\ (Ending(n) <=> Ending(m))
      /\ n.state \in {"Reconnecting", "Stopping"}
  <2>1. CASE n = w /\ m.state = "Reconnecting"
    BY <1>1, <1>2, <1>3, <2>1
  <2>2. CASE n = Stop(w, "itself")
    <3>1. Good(n) /\ Wiring(n) = Wiring(w) /\ n.timers = {} /\ n.state = "Stopping"
      BY <1>1, <1>2, <2>2, StopGood, StopWiring DEF Outcomes
    <3>2. Body(n) /\ (Ending(n) <=> Ending(w))
      BY <1>3, <3>1, BodyFrame
    <3>. QED
      BY <1>2, <1>3, <3>1, <3>2 DEF Wiring
  <2>3. CASE n = EnterReconnecting(w)
    BY <1>1, <1>2, <1>3, <2>3, EnterReconnectingBody
  <2>. QED
    BY <1>4, <2>1, <2>2, <2>3
<1>. QED
  BY <1>4, <1>5, StopSound, EndingSound

\* The flag that ignores errors is not read by the invariant.
LEMMA SeenSound ==
    ASSUME NEW m, Good(m), NEW b \in BOOLEAN
    PROVE  /\ Good(Seen(m)) /\ Good([m EXCEPT !.ignore = b])
           /\ Wiring(Seen(m)) = Wiring(m) /\ Seen(m).state = m.state /\ Seen(m).timers = m.timers
           /\ Wiring([m EXCEPT !.ignore = b]) = Wiring(m) /\ [m EXCEPT !.ignore = b].state = m.state
           /\ [m EXCEPT !.ignore = b].timers = m.timers /\ [m EXCEPT !.ignore = b].ignore = b
           /\ Body(m) => Body(Seen(m)) /\ Body([m EXCEPT !.ignore = b]) /\ (Ending(Seen(m)) <=> Ending(m))
           /\ Sound(m) => Sound(Seen(m)) /\ Sound([m EXCEPT !.ignore = b])
<1>1. Good(Seen(m)) /\ Good([m EXCEPT !.ignore = b])
  BY WalkGood
<1>2. /\ Wiring(Seen(m)) = Wiring(m) /\ Seen(m).state = m.state /\ Seen(m).timers = m.timers
      /\ Wiring([m EXCEPT !.ignore = b]) = Wiring(m) /\ [m EXCEPT !.ignore = b].state = m.state
      /\ [m EXCEPT !.ignore = b].timers = m.timers
  BY WalkGood, SkeletonWiring
<1>3. [m EXCEPT !.ignore = b].ignore = b
  BY DEF Good, TypeOfManager
<1>4. ASSUME Body(m) PROVE Body(Seen(m)) /\ Body([m EXCEPT !.ignore = b]) /\ (Ending(Seen(m)) <=> Ending(m))
  BY <1>2, <1>4, BodyFrame DEF Body
<1>5. ASSUME Sound(m) PROVE Sound(Seen(m)) /\ Sound([m EXCEPT !.ignore = b])
  BY <1>2, <1>5, SoundFrame
<1>. QED
  BY <1>1, <1>2, <1>3, <1>4, <1>5

\* onConnectionReconnecting() keeps it.
LEMMA HandleReconnectingSound ==
    ASSUME NEW m, Good(m), Sound(m), m.conn # "none"
    PROVE  Sound(HandleReconnecting(m))
<1>1. Good(Seen(m)) /\ Sound(Seen(m)) /\ Body(Seen(m)) /\ Seen(m).conn # "none"
  BY SeenSound DEF Wiring, Sound
<1>2. Sound(HandleAttemptFailed(Seen(m), TRUE))
  BY <1>1, HandleAttemptFailedSound
<1>3. Sound(StartDisconnect(EnterReconnecting(Seen(m))))
  BY <1>1, EnterReconnectingBody, StopSound
<1>4. HandleReconnecting(m) \in
        {m, Seen(m), HandleAttemptFailed(Seen(m), TRUE), StartDisconnect(EnterReconnecting(Seen(m)))}
  <2>1. m.ignore \in BOOLEAN
    BY DEF Good, TypeOfManager
  <2>. QED
    BY <2>1 DEF HandleReconnecting, Seen
<1>. QED
  BY <1>1, <1>2, <1>3, <1>4

\* startFailoverReconnect() keeps it.
LEMMA StartFailoverReconnectSound ==
    ASSUME NEW m, Good(m), Sound(m), m.conn # "none", m.state # "Sleeping"
    PROVE  Sound(StartFailoverReconnect(m))
<1>. DEFINE r == EnterReconnecting(m)
<1>1. /\ Good(r) /\ Body(r) /\ r.conn = m.conn /\ r.state = "Reconnecting"
      /\ Wiring(r) = Wiring(m)
  BY EnterReconnectingBody, RetryWiring DEF Sound, Good
<1>. HIDE DEF r
<1>2. Current(r) = Current(m) /\ (Ended(r) <=> Ended(m))
  BY <1>1 DEF Wiring, Current, Ended
<1>3. Sound(r)
  BY <1>1, <1>2 DEF Sound, Body
<1>. QED
  BY <1>1, <1>3, HandleReconnectingSound DEF StartFailoverReconnect, r

\* onHostnamesResolved() keeps it.
LEMMA HostnamesResolvedSound ==
    ASSUME NEW m, Good(m), Sound(m), NEW env
    PROVE  Sound(HostnamesResolved(m, env))
<1>1. Good(Advised(m)) /\ Sound(Advised(m)) /\ Wiring(Advised(m)) = Wiring(m) /\ Advised(m).state = m.state
  BY SeenSound DEF Advised
<1>2. Sound(FailWithError(Advised(m)))
  BY <1>1, FailWithErrorSound DEF Sound
<1>3. Sound(Preparing(Advised(m)))
  <2>. DEFINE a == Advised(m)
              n == Preparing(a)
  <2>1. Wiring(n) = Wiring(a) /\ n.state = a.state /\ n.timers = a.timers
    BY <1>1 DEF Preparing, Wiring, Good, TypeOfManager
  <2>. HIDE DEF a, n
  <2>2. Sound(a)
    BY <1>1 DEF a
  <2>3. Sound(n)
    BY <2>1, <2>2, SoundFrame
  <2>. QED
    BY <2>3 DEF n, a
<1>4. ASSUME m.conn # "none", IsAttemptActive(m) PROVE Sound(StartFailoverReconnect(Advised(m)))
  BY <1>1, <1>4, StartFailoverReconnectSound DEF IsAttemptActive, Wiring
<1>. QED
  BY <1>2, <1>3, <1>4, HostnamesResolvedWays

-----------------------------------------------------------------------------
(* The next attempt and the end of a connector                              *)

\* A session about to start an attempt, with nothing left of the last one.
Blank(m) ==
    /\ Good(m) /\ m.conn = "none" /\ ~m.dialed /\ ~m.blocking /\ m.lastOnline /\ ~m.authPrompt
    /\ m.state \in {"Connecting", "Reconnecting"} /\ m.timers \cap {"rest", "poll"} = {}

\* Such a session is sound, has no connector and no attempt scheduled.
LEMMA BlankSound ==
    ASSUME NEW m, Blank(m)
    PROVE  /\ Good(m) /\ Body(m) /\ Sound(m) /\ ~IsSettled(m) /\ m \in TypeOfManager
           /\ m.conn = "none" /\ m.timers \cap {"rest", "poll"} = {}
<1>1. Sound(m)
  BY SoundEmpty DEF Blank, Good
<1>. QED
  BY <1>1 DEF Blank, Sound, IsSettled, Good

\* It stays one while it is connecting and its wiring stays.
LEMMA BlankFrame ==
    ASSUME NEW m, Blank(m), NEW n, Good(n), Wiring(n) = Wiring(m),
           n.timers \cap {"rest", "poll"} = {}, n.state \in {"Connecting", "Reconnecting"}
    PROVE  Blank(n)
BY DEF Blank, Wiring

\* startAttempt() with nothing left of the last attempt is sound.
LEMMA StartAttemptSound ==
    ASSUME NEW m, Blank(m), NEW env \in Conditions
    PROVE  Sound(StartAttempt(m, env))
<1>1. /\ Good(m) /\ Body(m) /\ Sound(m) /\ ~IsSettled(m) /\ m \in TypeOfManager
      /\ m.conn = "none" /\ m.timers \cap {"rest", "poll"} = {}
  BY BlankSound
<1>2. Sound(FailWithError(m)) /\ Sound(Report(Disconnect(m), "itself"))
  BY <1>1, FailWithErrorSound, EndSound
<1>3. Sound(Arm(m, {"cap", "poll"}))
  <2>. DEFINE n == Arm(m, {"cap", "poll"})
  <2>1. Skeleton(n) = <<m.state, m.timers \cup {"cap", "poll"}, m.conn, m.dialed, m.queue, m.blocking, m.lastOnline, m.authPrompt>>
    BY <1>1, ArmFrame
  <2>2. Good(n)
    BY <1>1, ArmGood DEF Timers
  <2>. HIDE DEF n
  <2>3. /\ n.conn = "none" /\ n.dialed = m.dialed /\ n.blocking = m.blocking /\ n.lastOnline = m.lastOnline
        /\ n.state = m.state /\ n.timers = m.timers \cup {"cap", "poll"} /\ n.authPrompt = m.authPrompt
    BY <1>1, <2>1 DEF Skeleton
  <2>4. Sound(n)
    BY <1>1, <2>2, <2>3, SoundEmpty DEF Blank, Good
  <2>. QED
    BY <2>4 DEF n
<1>4. Good(Recreated(m)) /\ Sound(Recreated(m))
  <2>. DEFINE n == Recreated(m)
  <2>1. PICK ts \in SUBSET Timers :
          /\ Skeleton(n) = <<m.state, ts, "idle", FALSE, n.queue, m.blocking, m.lastOnline, m.authPrompt>>
          /\ ts \in {m.timers \ {"rest"}, (m.timers \ {"rest"}) \cup {"connecting"}}
    BY <1>1, RecreatedFrame
  <2>2. n.queue = Retire(m).queue
    BY <1>1, RecreatedFrame
  <2>3. Good(n)
    BY <1>1, RecreateConnectorGood DEF Recreated
  <2>4. Current(n) = {}
    <3>1. Owned(Retire(m)) /\ Retire(m).conn = "none"
      BY <1>1, RetireFacts
    <3>. HIDE DEF n
    <3>. QED
      BY <2>2, <3>1 DEF Owned, Current
  <2>. HIDE DEF n
  <2>5. /\ n.state = m.state /\ n.timers = ts /\ n.conn = "idle" /\ n.dialed = FALSE
        /\ n.blocking = m.blocking /\ n.lastOnline = m.lastOnline /\ n.authPrompt = m.authPrompt
        /\ ts \cap {"rest", "poll"} = {}
    BY <1>1, <2>1 DEF Skeleton
  <2>6. Sound(n)
    BY <2>4, <2>5 DEF Blank, Sound, Body, Live
  <2>. QED
    BY <2>3, <2>6 DEF n
<1>5. Sound(HostnamesResolved(Recreated(m), env))
  BY <1>4, HostnamesResolvedSound
<1>6. Sound(Resolving(Recreated(m)))
  <2>. DEFINE r == Recreated(m)
              n == Resolving(r)
  <2>1. Wiring(n) = Wiring(r) /\ n.state = r.state /\ n.timers = r.timers
    BY <1>4 DEF Resolving, Wiring, Good, TypeOfManager
  <2>. HIDE DEF r, n
  <2>2. Sound(r)
    BY <1>4 DEF r
  <2>3. Sound(n)
    BY <2>1, <2>2, SoundFrame
  <2>. QED
    BY <2>3 DEF n, r
<1>. QED
  BY <1>2, <1>3, <1>5, <1>6, StartAttemptWays

\* So it is as a reconnecting session.
LEMMA BlankRetry ==
    ASSUME NEW m, Blank(m)
    PROVE  Blank(EnterReconnecting(m))
<1>1. Good(EnterReconnecting(m))
  BY EnterReconnectingGood DEF Blank
<1>2. /\ Wiring(EnterReconnecting(m)) = Wiring(m) /\ EnterReconnecting(m).timers = m.timers \cup {"cap"}
      /\ EnterReconnecting(m).state = "Reconnecting"
  BY RetryWiring DEF Blank, Good
<1>. QED
  BY <1>1, <1>2, BlankFrame DEF Blank

\* The next attempt, at once or after a rest, is sound.
LEMMA ConnectOrStartConnectTimerSound ==
    ASSUME NEW m, Blank(m), NEW env \in Conditions
    PROVE  Sound(ConnectOrStartConnectTimer(m, env))
<1>1. Good(m) /\ ~IsSettled(m) /\ m \in TypeOfManager
  BY BlankSound
<1>2. Sound(Arm(m, {"rest"}))
  <2>. DEFINE n == Arm(m, {"rest"})
  <2>1. Skeleton(n) = <<m.state, m.timers \cup {"rest"}, m.conn, m.dialed, m.queue, m.blocking, m.lastOnline, m.authPrompt>>
    BY <1>1, ArmFrame
  <2>2. Good(n)
    BY <1>1, ArmGood DEF Timers
  <2>. HIDE DEF n
  <2>3. /\ n.conn = m.conn /\ n.dialed = m.dialed /\ n.blocking = m.blocking /\ n.lastOnline = m.lastOnline
        /\ n.state = m.state /\ n.timers = m.timers \cup {"rest"} /\ n.authPrompt = m.authPrompt
    BY <2>1 DEF Skeleton
  <2>4. Sound(n)
    BY <2>2, <2>3, SoundEmpty DEF Blank, Good
  <2>. QED
    BY <2>4 DEF n
<1>. QED
  BY <1>2, StartAttemptSound DEF ConnectOrStartConnectTimer

\* The end of a running attempt leaves a sound session.
LEMMA AfterDeathSound ==
    ASSUME NEW m, Blank(m), NEW env \in Conditions
    PROVE  Sound(AfterDeath(m, env))
<1>1. Good(m) /\ ~IsSettled(m) /\ m \in TypeOfManager /\ m.state \in {"Connecting", "Reconnecting"}
  BY BlankSound DEF Blank
<1>2. Blank(Walked(m))
  <2>1. Good(Walked(m)) /\ Skeleton(Walked(m)) = Skeleton(m)
    BY <1>1, WalkGood
  <2>. QED
    BY <2>1, SkeletonWiring, BlankFrame DEF Blank
<1>3. \A n \in {m, Walked(m)} :
         /\ Sound(Report(Disconnect(n), "itself"))
         /\ Sound(ConnectOrStartConnectTimer(n, env))
         /\ Sound(StartAttempt(EnterReconnecting(n), env))
  <2>. SUFFICES ASSUME NEW n, Blank(n)
                PROVE  /\ Sound(Report(Disconnect(n), "itself"))
                       /\ Sound(ConnectOrStartConnectTimer(n, env))
                       /\ Sound(StartAttempt(EnterReconnecting(n), env))
    BY <1>2
  <2>. QED
    BY BlankSound, BlankRetry, EndSound, ConnectOrStartConnectTimerSound, StartAttemptSound
<1>. QED
  BY <1>1, <1>3, AfterDeathWays

\* The end a stop waited for leaves a sound session.
LEMMA ReportPendingSound ==
    ASSUME NEW m, Good(m), m.conn = "none", Body(m)
    PROVE  Sound(ReportPending(m))
<1>1. Good(Disconnect(m)) /\ Sound(Disconnect(m))
  BY DisconnectGood, EndSound DEF Good
<1>. DEFINE d == Disconnect(m)
            n == [d EXCEPT !.authPrompt = TRUE]
<1>2. /\ Wiring(d) = Wiring(m) /\ d.timers = {} /\ d.state = "Disconnected" /\ d \in TypeOfManager
  BY <1>1, DisconnectWiring DEF Good
<1>. HIDE DEF d
<1>3. /\ n.state = "Disconnected" /\ n.timers = {} /\ n.conn = "none" /\ n.dialed = d.dialed
      /\ n.blocking = d.blocking /\ n.lastOnline = d.lastOnline /\ n.prep = d.prep /\ n.queue = d.queue
  BY <1>2 DEF TypeOfManager, Wiring
<1>. HIDE DEF n
<1>4. Sound(n)
  BY <1>1, <1>2, <1>3, SoundEmpty DEF Wiring, Body, Good, Owned, d
<1>5. \A o : Sound(Report(d, o)) /\ Sound(Report(ResetWalk(d), o))
  BY EndSound DEF d
<1>. QED
  BY <1>4, <1>5 DEF ReportPending, n, d

-----

\* The slots.
LEMMA TakenSound ==
    ASSUME Good(cm), Sound(cm), cm.queue # <<>>
    PROVE  /\ Head(cm.queue).current => Head(cm.queue) \in Current(cm)
           /\ ~(Head(cm.queue).current /\ Head(cm.queue).name = "disconnected") =>
                Sound(Taken) /\ (Ended(cm) => Ended(Taken))
           /\ Current(Taken) \subseteq Current(cm)
           /\ Taken.state = cm.state /\ Taken.timers = cm.timers /\ Taken.conn = cm.conn
           /\ Taken.dialed = cm.dialed /\ Taken.blocking = cm.blocking
           /\ Taken.lastOnline = cm.lastOnline /\ Taken.authPrompt = cm.authPrompt
<1>. DEFINE q == Tail(cm.queue)
<1>1. cm.queue \in Seq(Signals) /\ cm \in TypeOfManager
  BY DEF Good, TypeOfManager
<1>2. /\ Skeleton(Taken) = <<cm.state, cm.timers, cm.conn, cm.dialed, Taken.queue, cm.blocking, cm.lastOnline, cm.authPrompt>>
      /\ Taken.queue = Tail(cm.queue)
  BY <1>1, TakenFrame
<1>3. /\ Head(cm.queue) = cm.queue[1] /\ 1 \in DOMAIN cm.queue
      /\ \A i \in DOMAIN cm.queue : i = 1 \/ (i - 1 \in DOMAIN q /\ q[i - 1] = cm.queue[i])
  BY <1>1
<1>8. \A i \in DOMAIN q : i + 1 \in DOMAIN cm.queue /\ q[i] = cm.queue[i + 1]
  BY <1>1
<1>4. /\ Taken.state = cm.state /\ Taken.timers = cm.timers /\ Taken.conn = cm.conn
      /\ Taken.dialed = cm.dialed /\ Taken.blocking = cm.blocking
      /\ Taken.lastOnline = cm.lastOnline /\ Taken.authPrompt = cm.authPrompt
  BY <1>2 DEF Skeleton
<1>5. Current(Taken) \subseteq Current(cm)
  BY <1>2, <1>8 DEF Current
<1>6. Head(cm.queue).current => Head(cm.queue) \in Current(cm)
  BY <1>3 DEF Current
<1>7. ASSUME ~(Head(cm.queue).current /\ Head(cm.queue).name = "disconnected")
      PROVE  Sound(Taken) /\ (Ended(cm) => Ended(Taken))
  <2>1. Ended(cm) => Ended(Taken)
    BY <1>2, <1>3, <1>7 DEF Ended
  <2>2. \A s \in Current(Taken) : Fits(Taken, s)
    BY <1>4, <1>5 DEF Sound, Body, Fits
  <2>3. Body(Taken)
    BY <1>4, <2>2 DEF Sound, Body
  <2>. QED
    BY <1>4, <1>5, <2>1, <2>3 DEF Sound, Ending
<1>. QED
  BY <1>4, <1>5, <1>6, <1>7

\* onConnectionDisconnected() keeps the invariant.
LEMMA DisconnectedSlotSound ==
    ASSUME Good(cm), Sound(cm), online \in BOOLEAN, OnConnectionDisconnected
    PROVE  Sound(cm')
<1>. DEFINE r == Retire(Taken)
            m == Disarm(r, {"poll", "connecting"})
<1>1. /\ Good(Taken) /\ Taken.state = cm.state /\ Taken.timers = cm.timers /\ cm.conn # "none"
      /\ Taken.blocking = cm.blocking /\ Taken.lastOnline = cm.lastOnline /\ Taken.authPrompt = cm.authPrompt
  BY TakenGood, TakenSound DEF OnConnectionDisconnected, Received
<1>2. /\ r \in TypeOfManager /\ Owned(r) /\ r.timers = cm.timers
      /\ Skeleton(r) = <<cm.state, cm.timers, "none", FALSE, r.queue, cm.blocking, cm.lastOnline, cm.authPrompt>>
  <2>. DEFINE t == Taken
  <2>1. t \in TypeOfManager
    BY <1>1 DEF Good
  <2>. HIDE DEF t
  <2>2. /\ Retire(t) \in TypeOfManager /\ Owned(Retire(t)) /\ Retire(t).timers = t.timers
        /\ Skeleton(Retire(t)) = <<t.state, t.timers, "none", FALSE, Retire(t).queue, t.blocking, t.lastOnline, t.authPrompt>>
    BY <2>1, RetireFacts, RetireFrame
  <2>. QED
    BY <1>1, <2>2 DEF t
<1>. HIDE DEF r
<1>3. m \in TypeOfManager
  BY <1>2, ArmType DEF Timers
<1>4. Skeleton(m) = <<r.state, r.timers \ {"poll", "connecting"}, r.conn, r.dialed, r.queue, r.blocking, r.lastOnline, r.authPrompt>>
  BY <1>2, ArmFrame
<1>5. PICK env \in Now :
        cm' = CASE m.state = "Stopping" -> ReportPending(m)
                [] m.state = "Connected" -> StartAttempt(EnterReconnecting(m), env)
                [] m.state \in {"Connecting", "Reconnecting"} -> AfterDeath(m, env)
                [] m.state = "WaitingForNetwork" -> Arm(m, {"cap", "poll"})
                [] OTHER -> m
  BY DEF OnConnectionDisconnected, r
<1>6. env \in Conditions
  BY <1>5, NowConditions
<1>7. m.prep = r.prep
  BY <1>2 DEF Disarm, TypeOfManager
<1>. HIDE DEF m
<1>8. /\ m.state = cm.state /\ m.timers = cm.timers \ {"poll", "connecting"} /\ m.conn = "none"
      /\ m.dialed = FALSE /\ m.blocking = cm.blocking /\ m.lastOnline = cm.lastOnline
      /\ m.authPrompt = cm.authPrompt /\ m.queue = r.queue
  BY <1>2, <1>4 DEF Skeleton
<1>9. /\ ~m.blocking /\ m.lastOnline /\ ~m.authPrompt /\ m.timers \cap {"rest", "poll"} = {}
      /\ m.state # "WaitingForNetwork"
  BY <1>1, <1>8 DEF Sound, Body
<1>10. Owned(m)
  BY <1>2, <1>7, <1>8 DEF Owned, Skeleton
<1>11. CASE m.state = "Connected"
  <2>. DEFINE n == EnterReconnecting(m)
  <2>1. Good(n) /\ n.state = "Reconnecting"
    BY <1>3, <1>8, <1>10, TryAgainGood
  <2>2. Wiring(n) = Wiring(m) /\ n.timers = m.timers \cup {"cap"}
    BY <1>3, RetryWiring
  <2>. HIDE DEF n
  <2>3. Blank(n)
    BY <1>8, <1>9, <2>1, <2>2 DEF Blank, Wiring
  <2>. QED
    BY <1>5, <1>6, <1>11, <2>3, StartAttemptSound DEF n
<1>12. CASE m.state # "Connected"
  <2>1. Good(m)
    BY <1>3, <1>8, <1>10, <1>12 DEF Good, Quiet, Manned, IsSettled
  <2>2. CASE m.state = "Stopping"
    <3>1. Current(m) = {}
      BY <1>8, <1>10 DEF Owned, Current
    <3>2. Body(m)
      BY <1>8, <1>9, <3>1 DEF Body, Live
    <3>. QED
      BY <1>5, <1>8, <2>1, <2>2, <3>2, ReportPendingSound
  <2>3. CASE m.state \in {"Connecting", "Reconnecting"}
    <3>1. Blank(m)
      BY <1>8, <1>9, <2>1, <2>3 DEF Blank
    <3>. QED
      BY <1>5, <1>6, <2>3, <3>1, AfterDeathSound
  <2>4. CASE m.state \notin {"Stopping", "Connecting", "Reconnecting"}
    <3>1. cm' = m
      BY <1>5, <1>9, <1>12, <2>4
    <3>2. Sound(m)
      BY <1>8, <1>9, <1>10, <1>12, <2>4, SoundEmpty
    <3>. QED
      BY <3>1, <3>2
  <2>. QED
    BY <2>2, <2>3, <2>4
<1>. QED
  BY <1>11, <1>12

-----------------------------------------------------------------------------
(* The signals of the connector                                             *)

\* Dropping the cached configuration moves neither connector nor session.
LEMMA ClearedFrame ==
    ASSUME NEW m \in TypeOfManager, NEW b
    PROVE  Skeleton(ClearCachedConfigIfExhausted(m, b)) = Skeleton(m)
BY DEF ClearCachedConfigIfExhausted, Skeleton, TypeOfManager

\* What the signal at hand says of the connector that sent it.
LEMMA HeadFits ==
    ASSUME Good(cm), Sound(cm), cm.queue # <<>>, Head(cm.queue).current
    PROVE  /\ Fits(cm, Head(cm.queue)) /\ cm.conn # "none"
           /\ Head(cm.queue).name # "disconnected" =>
                /\ Good(Taken) /\ Sound(Taken) /\ Body(Taken) /\ Taken.conn # "none"
                /\ Late(Head(cm.queue)) /\ cm.conn = "down" /\ ~IsSettled(cm) => Ended(Taken)
<1>1. Head(cm.queue) \in Current(cm)
  BY TakenSound
<1>2. Fits(cm, Head(cm.queue))
  BY <1>1 DEF Sound, Body
<1>3. Good(Taken) /\ Taken.conn = cm.conn /\ Taken.conn # "none"
  BY TakenGood
<1>4. ASSUME Head(cm.queue).name # "disconnected"
      PROVE  Sound(Taken) /\ (Late(Head(cm.queue)) /\ cm.conn = "down" /\ ~IsSettled(cm) => Ended(Taken))
  <2>1. Sound(Taken) /\ (Ended(cm) => Ended(Taken))
    BY <1>4, TakenSound
  <2>. QED
    BY <1>1, <2>1 DEF Sound, IsSettled
<1>. QED
  BY <1>2, <1>3, <1>4 DEF Sound

\* onConnectionError() keeps the invariant.
LEMMA ErrorSlotSound ==
    ASSUME Good(cm), Sound(cm), OnConnectionError
    PROVE  Sound(cm')
<1>. DEFINE err == Head(cm.queue).err
            c == Cleared
            tunnel == (err = "kTunnelEstablishmentFailure")
<1>1. /\ cm.queue # <<>> /\ Head(cm.queue).current /\ Head(cm.queue).name = "error"
      /\ Head(cm.queue) \in Signals /\ cm \in TypeOfManager
  BY TakenGood DEF OnConnectionError, Received, Good
<1>2. /\ Fits(cm, Head(cm.queue)) /\ Good(Taken) /\ Sound(Taken) /\ Body(Taken) /\ Taken.conn # "none"
      /\ Taken.conn = cm.conn /\ Taken.state = cm.state
      /\ Late(Head(cm.queue)) /\ cm.conn = "down" /\ ~IsSettled(cm) => Ended(Taken)
  BY <1>1, HeadFits, TakenSound
<1>3. Good(c) /\ Skeleton(c) = Skeleton(Taken)
  <2>1. tunnel \in BOOLEAN /\ c = ClearCachedConfigIfExhausted(Taken, tunnel)
    BY DEF Cleared
  <2>. HIDE DEF tunnel, c
  <2>. QED
    BY <1>2, <2>1, ClearCachedConfigGood, ClearedFrame DEF Good
<1>4. /\ Wiring(c) = Wiring(Taken) /\ c.state = cm.state /\ c.timers = Taken.timers /\ c.conn = cm.conn
      /\ c \in TypeOfManager /\ c.conn # "none"
  <2>. DEFINE t == Taken
  <2>. HIDE DEF c, t
  <2>. QED
    BY <1>2, <1>3, SkeletonWiring DEF Wiring, Good, t
<1>. HIDE DEF c
<1>5. Sound(c) /\ Body(c)
  BY <1>2, <1>4, SoundFrame DEF Sound
<1>6. ASSUME ~IsSettled(cm), err = "kAuthFailure" PROVE Ending(c)
  <2>1. Ended(c) <=> Ended(Taken)
    BY <1>4 DEF Wiring, Ended
  <2>2. cm.conn \in {"stopping", "down"} /\ (cm.conn = "down" => Ended(Taken))
    BY <1>1, <1>2, <1>6 DEF Fits, Late
  <2>. QED
    BY <1>4, <2>1, <2>2 DEF Ending
<1>7. ASSUME ~IsSettled(cm), NEW n, Good(n), Body(n), n.conn # "none", Ending(c) => Ending(n),
             n.state \notin {"Connected", "Disconnected", "Sleeping"}
      PROVE  Sound(Dropped(n))
  <2>1. CASE err = "kAuthFailure"
    BY <1>6, <1>7, <2>1, EndingSound DEF Dropped
  <2>2. CASE err # "kAuthFailure"
    BY <1>7, <2>2, StopSound DEF Dropped
  <2>. QED
    BY <2>1, <2>2
<1>8. ASSUME ~IsSettled(cm), NEW o \in {"error", "authError"} PROVE Sound(Dropped(Stop(c, o)))
  <2>. DEFINE n == Stop(c, o)
  <2>1. Good(n) /\ Wiring(n) = Wiring(c) /\ n.timers = {} /\ n.state = "Stopping"
    BY <1>3, <1>4, StopGood, StopWiring DEF Outcomes
  <2>. HIDE DEF n
  <2>2. Body(n) /\ (Ending(n) <=> Ending(c)) /\ n.conn # "none"
    BY <1>4, <1>5, <2>1, BodyFrame DEF Wiring
  <2>3. Sound(Dropped(n))
    BY <1>7, <1>8, <2>1, <2>2
  <2>. QED
    BY <2>3 DEF n
<1>9. ASSUME ~IsSettled(cm), err \in ServiceErrors \cup {"kLocalProcessLaunchFailure"}
      PROVE  Sound(Report(Disconnect(c), "error"))
  <2>. DEFINE d == Disconnect(c)
              n == Report(d, "error")
  <2>1. Wiring(d) = Wiring(c) /\ d.timers = {} /\ d.state = "Disconnected" /\ d \in TypeOfManager
    BY <1>3, <1>4, DisconnectGood, DisconnectWiring DEF Good
  <2>. HIDE DEF d
  <2>2. Wiring(n) = Wiring(c) /\ n.timers = {} /\ n.state = "Disconnected"
    BY <2>1, ReportWiring
  <2>. HIDE DEF n
  <2>3. Body(n) /\ (Ended(n) <=> Ended(c)) /\ Current(n) = Current(c) /\ n.conn = cm.conn
    BY <1>4, <1>5, <2>2, BodyFrame DEF Wiring
  <2>4. cm.conn = "down"
    BY <1>1, <1>2, <1>9 DEF Fits, SettledErrors
  <2>5. (\E s \in Current(c) : Late(s)) => Ended(c)
    BY <1>4, <1>5, <1>9, <2>4 DEF Sound, IsSettled
  <2>6. Sound(n)
    BY <2>2, <2>3, <2>4, <2>5 DEF Sound, Live
  <2>. QED
    BY <2>6 DEF n, d
<1>. DEFINE s == Seen(c)
<1>10. Good(s) /\ Body(s) /\ (Ending(s) <=> Ending(c)) /\ s.conn # "none" /\ s.conn = c.conn
  BY <1>3, <1>4, <1>5, SeenSound DEF Wiring
<1>. HIDE DEF s
<1>11. ~IsSettled(cm) => Sound(Dropped(EnterReconnecting(s)))
  BY <1>7, <1>10, EnterReconnectingBody
<1>12. ~IsSettled(cm) => Sound(HandleAttemptFailed(s, err # "kAuthFailure"))
  <2>1. (err # "kAuthFailure") \in BOOLEAN
    OBVIOUS
  <2>. QED
    BY <1>6, <1>10, <2>1, HandleAttemptFailedSound
<1>. QED
  BY <1>1, <1>2, <1>5, <1>8, <1>9, <1>11, <1>12, ErrorWays DEF c, s

\* onConnectionPrepared() keeps it.
LEMMA PreparedSlotSound ==
    ASSUME Good(cm), Sound(cm), OnConnectionPrepared
    PROVE  Sound(cm')
<1>. DEFINE t == Taken
            n == [t EXCEPT !.conn = "starting", !.dialed = TRUE]
<1>1. /\ Good(t) /\ Sound(t) /\ Body(t) /\ t.conn # "none" /\ t.state = cm.state /\ t.dialed = cm.dialed
  BY HeadFits, TakenSound DEF OnConnectionPrepared, Received
<1>2. cm' = t \/ (IsAttemptActive(cm) /\ ~cm.dialed /\ cm' = n)
  BY DEF OnConnectionPrepared
<1>. HIDE DEF t
<1>3. /\ n.conn = "starting" /\ n.dialed = TRUE /\ n.state = t.state /\ n.timers = t.timers
      /\ n.queue = t.queue /\ n.blocking = t.blocking /\ n.lastOnline = t.lastOnline
      /\ n.authPrompt = t.authPrompt
  BY <1>1 DEF Good, TypeOfManager
<1>. HIDE DEF n
<1>4. ASSUME IsAttemptActive(cm), ~cm.dialed PROVE Sound(n)
  <2>1. Current(n) = Current(t)
    BY <1>3 DEF Current
  <2>2. \A s \in Current(n) : Fits(n, s)
    BY <1>1, <1>4, <2>1 DEF Body, Fits
  <2>3. t.timers \cap {"rest", "poll"} = {} /\ ~t.authPrompt
    BY <1>1 DEF Body
  <2>4. t.state \in {"Connecting", "Reconnecting"}
    BY <1>1, <1>4 DEF Body, IsAttemptActive
  <2>. QED
    BY <1>1, <1>3, <2>1, <2>2, <2>3, <2>4 DEF Sound, Body, Live
<1>. QED
  BY <1>1, <1>2, <1>4

\* onConnectionConnected() keeps it.
LEMMA ConnectedSlotSound ==
    ASSUME Good(cm), Sound(cm), OnConnectionConnected
    PROVE  Sound(cm')
<1>. DEFINE t == Taken
            d == Disarm(t, {"cap", "connecting"})
            n == SetState(d, "Connected", "Regular")
<1>1. /\ Good(t) /\ Sound(t) /\ Body(t) /\ t.conn # "none" /\ t.conn = cm.conn
      /\ Fits(cm, Head(cm.queue)) /\ Head(cm.queue).name = "connected"
      /\ cm.conn = "down" /\ ~IsSettled(cm) => Ended(t)
  BY HeadFits, TakenSound DEF OnConnectionConnected, Received, Late
<1>2. cm' = t \/ (~IsSettled(cm) /\ cm' = n)
  BY DEF OnConnectionConnected, IsSettled
<1>. HIDE DEF t
<1>3. d \in TypeOfManager
  BY <1>1, ArmType DEF Good, Timers
<1>4. Skeleton(d) = <<t.state, t.timers \ {"cap", "connecting"}, t.conn, t.dialed, t.queue, t.blocking, t.lastOnline, t.authPrompt>>
  BY <1>1, ArmFrame DEF Good
<1>. HIDE DEF d
<1>5. Wiring(n) = Wiring(d) /\ n.timers = d.timers /\ n.state = "Connected"
  BY <1>3, SetStateWiring
<1>. HIDE DEF n
<1>6. Wiring(n) = Wiring(t) /\ n.timers \subseteq t.timers
  BY <1>4, <1>5 DEF Skeleton, Wiring
<1>7. Body(n) /\ (Ended(n) <=> Ended(t)) /\ n.conn = cm.conn /\ n.authPrompt = t.authPrompt
  BY <1>1, <1>5, <1>6, BodyFrame DEF Wiring
<1>8. ~IsSettled(cm) => Sound(n)
  BY <1>1, <1>5, <1>7 DEF Sound, Fits, Body
<1>. QED
  BY <1>1, <1>2, <1>8

\* The connector's signals keep it.
LEMMA SlotsSound ==
    ASSUME Good(cm), Sound(cm), online \in BOOLEAN, Slots
    PROVE  Sound(cm')
<1>. DEFINE t == Taken
<1>1. ASSUME cm.queue # <<>>, Head(cm.queue).current, Head(cm.queue).name # "disconnected"
      PROVE  Good(t) /\ Sound(t) /\ Body(t) /\ t.conn # "none" /\ t.state = cm.state
  BY <1>1, HeadFits, TakenSound
<1>2. CASE IgnoreRetiredConnector
  BY <1>2, TakenSound DEF IgnoreRetiredConnector
<1>3. CASE OnConnectionPrepareFailed
  <2>. DEFINE err == ClassifyPrepareError(Head(cm.queue).err, IsAutomaticMode(cm.walk))
  <2>3. cm' = IF ~IsAttemptActive(cm) THEN t
             ELSE IF err = "Failover" THEN StartFailoverReconnect(t) ELSE FailWithError(t)
    BY <1>3 DEF OnConnectionPrepareFailed
  <2>. HIDE DEF t, err
  <2>1. \/ cm' = t
        \/ IsAttemptActive(cm) /\ cm' \in {StartFailoverReconnect(t), FailWithError(t)}
    <3>1. CASE ~IsAttemptActive(cm)
      BY <2>3, <3>1
    <3>2. CASE IsAttemptActive(cm)
      BY <2>3, <3>2
    <3>. QED
      BY <3>1, <3>2
  <2>2. Good(t) /\ Sound(t) /\ Body(t) /\ t.conn # "none" /\ t.state = cm.state
    BY <1>1, <1>3 DEF OnConnectionPrepareFailed, Received, t
  <2>. QED
    BY <2>1, <2>2, StartFailoverReconnectSound, FailWithErrorSound DEF IsAttemptActive, t
<1>4. CASE OnConnectionUserInputRequired
  <2>. DEFINE d == Disarm(t, {"connecting"})
              n == [d EXCEPT !.keyPrompt = TRUE]
  <2>1. cm' \in {t, n}
    BY <1>4 DEF OnConnectionUserInputRequired
  <2>2. Good(t) /\ Sound(t)
    BY <1>1, <1>4 DEF OnConnectionUserInputRequired, Received
  <2>. HIDE DEF t
  <2>3. d \in TypeOfManager
    BY <2>2, ArmType DEF Good, Timers
  <2>4. Skeleton(d) = <<t.state, t.timers \ {"connecting"}, t.conn, t.dialed, t.queue, t.blocking, t.lastOnline, t.authPrompt>>
    BY <2>2, ArmFrame DEF Good
  <2>. HIDE DEF d
  <2>5. Wiring(n) = Wiring(d) /\ n.state = d.state /\ n.timers = d.timers
    BY <2>3 DEF Wiring, TypeOfManager
  <2>. HIDE DEF n
  <2>6. Wiring(n) = Wiring(t) /\ n.state = t.state /\ n.timers \subseteq t.timers
    BY <2>4, <2>5 DEF Skeleton, Wiring
  <2>7. Sound(n)
    BY <2>2, <2>6, SoundFrame
  <2>. QED
    BY <2>1, <2>2, <2>7
<1>5. CASE OnConnectionReconnecting
  BY <1>1, <1>5, HandleReconnectingSound DEF OnConnectionReconnecting, Received
<1>. QED
  BY <1>2, <1>3, <1>4, <1>5, DisconnectedSlotSound, ErrorSlotSound, PreparedSlotSound, ConnectedSlotSound
     DEF Slots

-----------------------------------------------------------------------------
(* The public methods                                                       *)

\* The public methods.
LEMMA ConnectSound ==
    ASSUME Good(cm), Sound(cm), online \in BOOLEAN, NEW kind \in Kinds, ClickConnect(kind)
    PROVE  Sound(cm')
<1>. DEFINE s == SetState(cm, "Connecting", "Regular")
            c == [s EXCEPT !.succeeded = FALSE, !.resolving = FALSE, !.authPrompt = FALSE, !.told = <<>>]
            r == Retire(c)
            n == NewWalk(r, kind)
<1>1. Good(s) /\ s.state = "Connecting" /\ s.timers = cm.timers /\ cm.timers = {}
  BY SetStateGood DEF ClickConnect, Good, Quiet, IsSettled
<1>2. Wiring(s) = Wiring(cm)
  BY SetStateWiring DEF Good
<1>. HIDE DEF s
<1>3. <<>> \in Seq(Outcomes)
  OBVIOUS
<1>4. c \in TypeOfManager /\ c.state = "Connecting" /\ c.timers = {} /\ c.authPrompt = FALSE
      /\ c.blocking = s.blocking /\ c.lastOnline = s.lastOnline
  BY <1>1, <1>3 DEF Good, TypeOfManager
<1>. HIDE DEF c
<1>5. /\ r \in TypeOfManager /\ Owned(r) /\ r.state = "Connecting" /\ r.timers = {}
      /\ Skeleton(r) = <<c.state, c.timers, "none", FALSE, r.queue, c.blocking, c.lastOnline, c.authPrompt>>
  BY <1>4, RetireFacts, RetireFrame
<1>6. Good(r)
  BY <1>5 DEF Good, Quiet, Manned
<1>. HIDE DEF r
<1>7. /\ Good(n) /\ Skeleton(n) = Skeleton(r)
  BY <1>5, <1>6, NewWalkGood, NewWalkFresh
<1>8. PICK env \in Now : cm' = StartAttempt(n, env)
  BY DEF ClickConnect, s, c, r
<1>. HIDE DEF n
<1>9. ~c.blocking /\ c.lastOnline
  BY <1>2, <1>4 DEF Wiring, Sound, Body
<1>10. Blank(n)
  BY <1>4, <1>5, <1>7, <1>9 DEF Blank, Skeleton
<1>. QED
  BY <1>8, <1>10, NowConditions, StartAttemptSound

\* The answer to the question for credentials keeps it.
LEMMA AnswerSound ==
    ASSUME Good(cm), Sound(cm), online \in BOOLEAN, ForwardUserInputOrReconnect
    PROVE  Sound(cm')
<1>. DEFINE s == SetState(cm, "Connecting", "Regular")
            c == [s EXCEPT !.succeeded = FALSE, !.authPrompt = FALSE]
<1>1. Good(s) /\ s.state = "Connecting" /\ s.timers = cm.timers /\ cm.timers = {}
  BY SetStateGood DEF ForwardUserInputOrReconnect, Good, Quiet, IsSettled
<1>2. Wiring(s) = Wiring(cm)
  BY SetStateWiring DEF Good
<1>3. PICK env \in Now : cm' = StartAttempt(c, env)
  BY DEF ForwardUserInputOrReconnect
<1>. HIDE DEF s
<1>4. /\ c \in TypeOfManager /\ c.state = "Connecting" /\ c.timers = {} /\ c.authPrompt = FALSE
      /\ c.conn = s.conn /\ c.dialed = s.dialed /\ c.queue = s.queue /\ c.prep = s.prep
      /\ c.blocking = s.blocking /\ c.lastOnline = s.lastOnline
  BY <1>1 DEF Good, TypeOfManager
<1>. HIDE DEF c
<1>5. Good(c)
  BY <1>1, <1>4, SameGood
<1>6. cm.conn = "none" /\ ~cm.dialed
  BY DEF ForwardUserInputOrReconnect, Sound, Body
<1>7. Blank(c)
  BY <1>2, <1>4, <1>5, <1>6 DEF Blank, Wiring, Sound, Body
<1>. QED
  BY <1>3, <1>7, NowConditions, StartAttemptSound

\* updateConnectionSettings() keeps it.
LEMMA SettingsSound ==
    ASSUME Good(cm), Sound(cm), NEW kind \in Kinds, UpdateConnectionSettings(kind)
    PROVE  Sound(cm')
<1>. DEFINE c == [cm EXCEPT !.resolving = cm.resolving /\ kind = "custom"]
            n == NewWalk(c, kind)
<1>1. Good(c) /\ Skeleton(c) = Skeleton(cm)
  <2>1. Good(c)
    BY DEF Good, Quiet, Manned, Owned, IsSettled, TypeOfManager
  <2>2. Skeleton(c) = Skeleton(cm)
    BY DEF Good, Skeleton, TypeOfManager
  <2>. QED
    BY <2>1, <2>2
<1>2. cm' = n \/ (n.conn # "none" /\ cm' = StartDisconnect(EnterReconnecting(n)))
  BY DEF UpdateConnectionSettings
<1>. HIDE DEF c
<1>3. Good(n) /\ Skeleton(n) = Skeleton(c)
  BY <1>1, NewWalkGood, NewWalkFresh DEF Good
<1>. HIDE DEF n
<1>4. Wiring(n) = Wiring(cm) /\ n.state = cm.state /\ n.timers = cm.timers
  BY <1>1, <1>3 DEF Skeleton, Wiring
<1>5. Sound(n) /\ Body(n)
  BY <1>4, SoundFrame DEF Sound
<1>6. n.conn # "none" => Sound(StartDisconnect(EnterReconnecting(n)))
  BY <1>3, <1>5, EnterReconnectingBody, StopSound
<1>. QED
  BY <1>2, <1>5, <1>6

\* The public methods keep it.
LEMMA RequestsSound ==
    ASSUME Good(cm), Sound(cm), online \in BOOLEAN, Requests
    PROVE  Sound(cm')
<1>0. (\A kind \in SessionKinds : kind \in Kinds) /\ cm \in TypeOfManager
  BY PlatformAssumption DEF Good
<1>1. ASSUME NEW kind \in SessionKinds, ClickConnect(kind) \/ UpdateConnectionSettings(kind)
      PROVE  Sound(cm')
  BY <1>0, <1>1, ConnectSound, SettingsSound
<1>2. CASE ClickDisconnect
  <2>. DEFINE told == IF cm.state = "Disconnected" THEN <<>> ELSE cm.told
              c == [cm EXCEPT !.authPrompt = FALSE, !.told = told]
  <2>1. told \in Seq(Outcomes)
    BY DEF Good, TypeOfManager
  <2>2. cm' = Click(c)
    BY <1>2 DEF ClickDisconnect
  <2>. HIDE DEF told
  <2>3. Good(c)
    BY <2>1 DEF Good, Quiet, Manned, Owned, IsSettled, TypeOfManager
  <2>4. /\ c.state = cm.state /\ c.timers = cm.timers /\ c.conn = cm.conn /\ c.dialed = cm.dialed
        /\ c.queue = cm.queue /\ c.blocking = cm.blocking /\ c.lastOnline = cm.lastOnline /\ c.authPrompt = FALSE
    BY <1>0 DEF TypeOfManager
  <2>. HIDE DEF c
  <2>5. Current(c) = Current(cm) /\ (Ended(c) <=> Ended(cm))
    BY <2>4 DEF Current, Ended
  <2>6. \A s \in Current(c) : Fits(c, s)
    BY <2>4, <2>5 DEF Sound, Body, Fits
  <2>7. Sound(c)
    BY <2>4, <2>5, <2>6 DEF Sound, Body, Ending
  <2>. QED
    BY <2>2, <2>3, <2>7, ClickSound
<1>3. CASE Reconnect
  BY <1>3, HandleReconnectingSound DEF Reconnect
<1>4. ASSUME NEW yes \in BOOLEAN, OnWireGuardKeyLimitUserResponse(yes) PROVE Sound(cm')
  <2>. DEFINE c == [cm EXCEPT !.keyPrompt = FALSE]
              prep == IF c.prep = "consent" THEN "preparing" ELSE c.prep
              p == [c EXCEPT !.prep = prep]
              a == Arm(p, {"connecting"})
  <2>1. Good(c)
    BY DEF Good, Quiet, Manned, Owned, IsSettled, TypeOfManager
  <2>2. cm' \in {c, Click(c), a}
    BY <1>4 DEF OnWireGuardKeyLimitUserResponse, IsAttemptActive
  <2>3. Wiring(c) = Wiring(cm) /\ c.state = cm.state /\ c.timers = cm.timers
    BY <1>0 DEF TypeOfManager, Wiring
  <2>. HIDE DEF c
  <2>4. Sound(c)
    BY <2>3, SoundFrame
  <2>5. p \in TypeOfManager
    <3>1. prep \in {"none", "preparing", "consent"}
      BY <2>1 DEF Good, TypeOfManager
    <3>. HIDE DEF prep
    <3>. QED
      BY <2>1, <3>1 DEF Good, TypeOfManager
  <2>6. Wiring(p) = Wiring(c) /\ p.state = c.state /\ p.timers = c.timers
    BY <2>1 DEF Good, TypeOfManager, Wiring
  <2>. HIDE DEF p
  <2>7. Skeleton(a) = <<p.state, p.timers \cup {"connecting"}, p.conn, p.dialed, p.queue, p.blocking, p.lastOnline, p.authPrompt>>
    BY <2>5, ArmFrame
  <2>. HIDE DEF a
  <2>8. Wiring(a) = Wiring(c) /\ a.state = c.state /\ a.timers = c.timers \cup {"connecting"}
    BY <2>6, <2>7 DEF Skeleton, Wiring
  <2>9. Sound(a)
    BY <2>4, <2>8, SoundFrame
  <2>. QED
    BY <2>1, <2>2, <2>4, <2>9, ClickSound
<1>5. ASSUME NEW yes \in BOOLEAN, OnTunnelTestResult(yes) PROVE Sound(cm')
  <2>. DEFINE w == ResetCachedConfigBudget(cm.walk)
              c == [cm EXCEPT !.walk = w, !.succeeded = cm.succeeded \/ IsAutomaticMode(cm.walk)]
  <2>1. cm' \in {c, cm, HandleAttemptFailed(cm, TRUE)} /\ cm.state = "Connected"
    BY <1>5 DEF OnTunnelTestResult
  <2>2. Wiring(c) = Wiring(cm) /\ c.state = cm.state /\ c.timers = cm.timers
    BY <1>0 DEF TypeOfManager, Wiring
  <2>. HIDE DEF c
  <2>3. Sound(c)
    BY <2>2, SoundFrame
  <2>4. cm.conn # "none" /\ Body(cm)
    BY <2>1 DEF Good, Manned, Sound
  <2>. QED
    BY <2>1, <2>3, <2>4, HandleAttemptFailedSound
<1>6. CASE SetFirewallAlwaysOnPlusEnabled
  <2>. DEFINE n == cm'
  <2>1. Wiring(n) = Wiring(cm) /\ n.state = cm.state /\ n.timers = cm.timers
    BY <1>0, <1>6 DEF SetFirewallAlwaysOnPlusEnabled, TypeOfManager, Wiring
  <2>. HIDE DEF n
  <2>2. Sound(n)
    BY <2>1, SoundFrame
  <2>. QED
    BY <2>2 DEF n
<1>. QED
  BY <1>1, <1>2, <1>3, <1>4, <1>5, <1>6, AnswerSound DEF Requests

-----------------------------------------------------------------------------
(* The timers and the system                                                *)

\* The timers.
LEMMA TimeoutsSound ==
    ASSUME Good(cm), Sound(cm), online \in BOOLEAN, Timeouts
    PROVE  Sound(cm')
<1>0. cm \in TypeOfManager /\ Body(cm)
  BY DEF Good, Sound
<1>1. ASSUME NEW ts \in SUBSET Timers
      PROVE  LET m == Disarm(cm, ts) IN
             /\ Good(m) /\ Sound(m) /\ Wiring(m) = Wiring(cm) /\ m.state = cm.state
             /\ m.timers = cm.timers \ ts
  <2>. DEFINE m == Disarm(cm, ts)
  <2>1. Good(m)
    BY <1>1, DisarmGood
  <2>2. Skeleton(m) = <<cm.state, cm.timers \ ts, cm.conn, cm.dialed, cm.queue, cm.blocking, cm.lastOnline, cm.authPrompt>>
    BY <1>0, ArmFrame
  <2>. HIDE DEF m
  <2>3. Wiring(m) = Wiring(cm) /\ m.state = cm.state /\ m.timers = cm.timers \ ts
    BY <2>2 DEF Skeleton, Wiring
  <2>4. Sound(m)
    BY <2>3, SoundFrame
  <2>. QED
    BY <2>1, <2>3, <2>4 DEF m
<1>2. CASE OnTimerReconnection
  <2>. DEFINE m == Disarm(cm, {"cap"})
  <2>1. Good(m) /\ Sound(m) /\ Body(m)
    BY <1>1 DEF Timers, Sound
  <2>2. \/ cm' = m
        \/ m.conn # "none" /\ cm' = StartDisconnect(Stop(m, "timeout"))
        \/ m.conn = "none" /\ cm' = Report(Disconnect(m), "timeout")
    <3>. HIDE DEF m
    <3>1. cm' = CASE m.state = "Stopping" -> m
                  [] m.state # "Stopping" /\ m.conn # "none" -> StartDisconnect(Stop(m, "timeout"))
                  [] OTHER -> Report(Disconnect(m), "timeout")
      BY <1>2 DEF OnTimerReconnection, m
    <3>. QED
      BY <3>1
  <2>. HIDE DEF m
  <2>. DEFINE n == Stop(m, "timeout")
  <2>3. Good(n) /\ Wiring(n) = Wiring(m) /\ n.timers = {} /\ n.state = "Stopping"
    BY <2>1, StopGood, StopWiring DEF Good, Outcomes
  <2>. HIDE DEF n
  <2>4. Body(n) /\ n.conn = m.conn
    BY <2>1, <2>3, BodyFrame DEF Wiring
  <2>5. m.conn # "none" => Sound(StartDisconnect(n))
    BY <2>3, <2>4, StopSound
  <2>. QED
    BY <2>1, <2>2, <2>5, EndSound DEF n
<1>3. CASE OnConnectTrigger
  <2>. DEFINE m == Disarm(cm, {"rest"})
  <2>1. Good(m) /\ Wiring(m) = Wiring(cm) /\ m.state = cm.state /\ m.timers = cm.timers \ {"rest"}
    BY <1>1 DEF Timers
  <2>2. PICK env \in Now : cm' = StartAttempt(m, env)
    BY <1>3 DEF OnConnectTrigger
  <2>. HIDE DEF m
  <2>3. "rest" \in cm.timers
    BY <1>3 DEF OnConnectTrigger
  <2>4. /\ cm.conn = "none" /\ "poll" \notin cm.timers /\ ~IsSettled(cm)
        /\ cm.state \in {"Connecting", "Reconnecting"} /\ ~cm.dialed /\ ~cm.authPrompt
    BY <1>0, <2>3 DEF Sound, Body, Good, Quiet, Manned, IsSettled, TypeOfManager, States
  <2>5. Blank(m)
    BY <1>0, <2>1, <2>4 DEF Blank, Wiring, Body
  <2>. QED
    BY <2>2, <2>5, NowConditions, StartAttemptSound
<1>4. CASE OnConnectingTimeout
  <2>. DEFINE m == Disarm(cm, {"connecting"})
              c == ClearCachedConfigIfExhausted(m, TRUE)
  <2>1. Good(m) /\ Sound(m) /\ Wiring(m) = Wiring(cm) /\ m.state = cm.state
    BY <1>1 DEF Timers
  <2>2. cm' = StartFailoverReconnect(c)
    BY <1>4 DEF OnConnectingTimeout
  <2>. HIDE DEF m
  <2>3. Good(c) /\ Skeleton(c) = Skeleton(m)
    BY <2>1, ClearCachedConfigGood, ClearedFrame DEF Good
  <2>. HIDE DEF c
  <2>4. Wiring(c) = Wiring(m) /\ c.state = m.state /\ c.timers = m.timers
    BY <2>3, SkeletonWiring
  <2>5. Sound(c)
    BY <2>1, <2>4, SoundFrame
  <2>6. cm.conn # "none" /\ cm.state # "Sleeping"
    BY <1>4 DEF OnConnectingTimeout, Good, Quiet, Manned, IsSettled
  <2>7. c.conn # "none" /\ c.state # "Sleeping"
    BY <2>1, <2>4, <2>6 DEF Wiring
  <2>. QED
    BY <2>2, <2>3, <2>5, <2>7, StartFailoverReconnectSound
<1>5. CASE OnTimerWaitNetworkConnectivity
  <2>. DEFINE m == Disarm(cm, {"poll"})
  <2>1. Good(m) /\ Wiring(m) = Wiring(cm) /\ m.state = cm.state /\ m.timers = cm.timers \ {"poll"}
    BY <1>1 DEF Timers
  <2>2. "poll" \in cm.timers
    BY <1>5 DEF OnTimerWaitNetworkConnectivity
  <2>3. /\ cm.conn = "none" /\ "rest" \notin cm.timers /\ ~IsSettled(cm)
        /\ cm.state \in {"Connecting", "Reconnecting"} /\ ~cm.dialed /\ ~cm.authPrompt
    BY <1>0, <2>2 DEF Sound, Body, Good, Quiet, Manned, IsSettled, TypeOfManager, States
  <2>4. PICK env \in Now : cm' = StartAttempt(m, env) \/ cm' = Report(Disconnect(cm), "timeout")
    BY <1>5, <2>3 DEF OnTimerWaitNetworkConnectivity
  <2>. HIDE DEF m
  <2>5. Blank(m)
    BY <1>0, <2>1, <2>3 DEF Blank, Wiring, Body
  <2>. QED
    BY <1>0, <2>3, <2>4, <2>5, NowConditions, StartAttemptSound, EndSound
<1>6. ASSUME NEW n \in 0 .. MaxEndpoints, OnHostnamesResolved(n) PROVE Sound(cm')
  <2>. DEFINE w == IF cm.walk.kind = "emergency" THEN OnEndpointsReceived(cm.walk, n) ELSE cm.walk
              m == [cm EXCEPT !.resolving = FALSE, !.walk = w]
  <2>1. n \in Nat /\ cm.walk \in Strategy
    BY <1>0, BoundAssumption DEF TypeOfManager
  <2>2. w \in Strategy
    BY <2>1, StrategyType
  <2>3. PICK env \in Now : cm' = HostnamesResolved(m, env)
    BY <1>6 DEF OnHostnamesResolved
  <2>. HIDE DEF w
  <2>4. Good(m)
    BY <2>2 DEF Good, Quiet, Manned, Owned, IsSettled, TypeOfManager
  <2>5. Wiring(m) = Wiring(cm) /\ m.state = cm.state /\ m.timers = cm.timers
    BY <1>0 DEF TypeOfManager, Wiring
  <2>. HIDE DEF m
  <2>6. Sound(m)
    BY <2>5, SoundFrame
  <2>. QED
    BY <2>3, <2>4, <2>6, HostnamesResolvedSound
<1>. QED
  BY <1>2, <1>3, <1>4, <1>5, <1>6 DEF Timeouts

\* Falling asleep with a connector that has stopped.
LEMMA FallAsleepSound ==
    ASSUME NEW m \in TypeOfManager, m.conn \notin Live, m.lastOnline, ~m.authPrompt,
           m.conn \in {"none", "idle"} => ~m.dialed, \A s \in Current(m) : Fits(m, s)
    PROVE  Sound(FallAsleep(m))
<1>. DEFINE f == FallAsleep(m)
<1>1. Skeleton(f) = <<"Sleeping", {}, m.conn, m.dialed, m.queue, FALSE, m.lastOnline, m.authPrompt>>
  BY FallAsleepFrame
<1>. HIDE DEF f
<1>2. /\ f.state = "Sleeping" /\ f.timers = {} /\ f.conn = m.conn /\ f.dialed = m.dialed
      /\ f.queue = m.queue /\ f.blocking = FALSE /\ f.lastOnline = m.lastOnline /\ f.authPrompt = m.authPrompt
  BY <1>1 DEF Skeleton
<1>3. Current(f) = Current(m)
  BY <1>2 DEF Current
<1>4. \A s \in Current(f) : Fits(f, s)
  BY <1>2, <1>3 DEF Fits
<1>5. Sound(f)
  BY <1>2, <1>4 DEF Sound, Body
<1>. QED
  BY <1>5 DEF f

\* onSleepMode() keeps it.
LEMMA SleepModeSound ==
    ASSUME Contract, Good(cm), Sound(cm), OnSleepMode
    PROVE  Sound(cm')
<1>. DEFINE m == Halted(cm)
<1>1. Platform = "windows"
  BY DEF Contract, OnSleepMode
<1>2. /\ m \in TypeOfManager /\ m.timers = {} /\ m.state = cm.state /\ Wiring(m) = Wiring(cm)
      /\ m.prep = cm.prep
  BY DEF Good, Halted, TypeOfManager, Wiring
<1>3. \/ IsSettled(cm) /\ cm' = m
      \/ cm.state = "WaitingForNetwork" /\ cm' = SetState(m, "Sleeping", "Regular")
      \/ Busy(cm) /\ cm.conn \notin Live /\ cm' = FallAsleep(m)
      \/ Busy(cm) /\ cm.conn \in Live /\ cm' = FallAsleep([Blocked(m) EXCEPT !.conn = "down"])
  BY <1>1, SleepWays DEF Good
<1>. HIDE DEF m
<1>4. Sound(m) /\ Body(m)
  BY <1>2, SoundFrame DEF Sound
<1>5. ASSUME Busy(cm), cm.conn \notin Live PROVE Sound(FallAsleep(m))
  <2>1. m.conn = cm.conn /\ ~m.authPrompt
    BY <1>2, <1>4, <1>5 DEF Wiring, Sound, Busy
  <2>. QED
    BY <1>2, <1>4, <1>5, <2>1, FallAsleepSound DEF Body
<1>6. ASSUME Busy(cm), cm.conn \in Live PROVE Sound(FallAsleep([Blocked(m) EXCEPT !.conn = "down"]))
  <2>. DEFINE d == StartDisconnect(m)
              z == [Blocked(m) EXCEPT !.conn = "down"]
  <2>1. m.conn = cm.conn /\ ~m.authPrompt /\ m.dialed /\ Good(m)
    <3>1. m.conn = cm.conn /\ m.queue = cm.queue /\ m.dialed = cm.dialed
      BY <1>2 DEF Wiring
    <3>2. Good(m)
      BY <1>2, <3>1, SameGood
    <3>. QED
      BY <1>2, <1>4, <1>6, <3>1, <3>2 DEF Sound, Busy, Body
  <2>2. /\ Skeleton(d) = <<m.state, m.timers, d.conn, m.dialed, d.queue, m.blocking, m.lastOnline, m.authPrompt>>
        /\ d.queue = m.queue
    BY <1>2, <1>6, <2>1, StartDisconnectFrame DEF Live
  <2>3. d \in TypeOfManager
    BY <2>1, StartDisconnectGood DEF Good
  <2>4. Blocked(m) = [d EXCEPT !.blocking = TRUE]
    BY DEF Blocked
  <2>. HIDE DEF d
  <2>5. /\ z \in TypeOfManager /\ z.conn = "down" /\ z.dialed = d.dialed /\ z.queue = d.queue
        /\ z.lastOnline = d.lastOnline /\ z.authPrompt = d.authPrompt
    BY <2>3, <2>4 DEF TypeOfManager, Connectors
  <2>. HIDE DEF z
  <2>6. /\ z.dialed /\ z.queue = m.queue /\ z.lastOnline /\ ~z.authPrompt
    BY <1>4, <2>1, <2>2, <2>5 DEF Skeleton, Body
  <2>7. \A s \in Current(z) : Fits(z, s)
    BY <1>4, <2>5, <2>6 DEF Current, Body, Fits
  <2>8. Sound(FallAsleep(z))
    BY <2>5, <2>6, <2>7, FallAsleepSound DEF Live
  <2>. QED
    BY <2>8 DEF z
<1>. QED
  BY <1>3, <1>4, <1>5, <1>6 DEF Sound, Body

\* A machine that is asleep has no session under way.
Rested == asleep => IsSettled(cm)

\* The system's notifications keep it.
LEMMA SystemSound ==
    ASSUME Contract, Good(cm), Sound(cm), Rested, online \in BOOLEAN, System
    PROVE  Sound(cm')
<1>1. ~EndBlockingDisconnect
  BY DEF EndBlockingDisconnect, Sound, Body
<1>2. OnNetworkOnlineStateChanged => cm' = cm
  BY NetworkWays DEF Contract, Good
<1>3. CASE OnWakeMode
  <2>. DEFINE d == Disarm(cm, {"cap", "rest"})
              m == [d EXCEPT !.wake = TRUE]
              w == Waking(m)
  <2>1. Good(d) /\ d.timers = cm.timers \ {"cap", "rest"}
        /\ Skeleton(d) = <<cm.state, cm.timers \ {"cap", "rest"}, cm.conn, cm.dialed, cm.queue, cm.blocking, cm.lastOnline, cm.authPrompt>>
    <3>1. d.timers = cm.timers \ {"cap", "rest"}
      BY DEF Good, Disarm, TypeOfManager
    <3>. QED
      BY <3>1, DisarmGood, ArmFrame DEF Timers, Good
  <2>2. PICK env \in Now : \/ cm' = m
                           \/ m.state \notin {"Disconnected", "Stopping"} /\ cm' = RestoreConnectionAfterWakeUp(m, env)
    BY <1>3 DEF OnWakeMode
  <2>. HIDE DEF d
  <2>3. Good(m)
    BY <2>1 DEF Good, Quiet, Manned, Owned, IsSettled, TypeOfManager
  <2>4. Wiring(m) = Wiring(d) /\ m.timers = d.timers /\ m.state = d.state
    BY <2>1 DEF Good, Wiring, TypeOfManager
  <2>. HIDE DEF m
  <2>5. Wiring(m) = Wiring(cm) /\ m.timers \subseteq cm.timers /\ m.state = cm.state
    BY <2>1, <2>4 DEF Skeleton, Wiring
  <2>6. Sound(m) /\ Body(m) /\ m.lastOnline
    BY <2>5, SoundFrame DEF Sound, Body
  <2>7. IsSettled(cm) /\ m.timers = {}
    BY <1>3, <2>5 DEF Rested, OnWakeMode, Good, Quiet
  <2>8. Good(w) /\ w.state = "Reconnecting" /\ Wiring(w) = Wiring(m) /\ w.timers = m.timers
    BY <2>3, SetStateGood, SetStateWiring DEF Waking, Good
  <2>. HIDE DEF w
  <2>9. Body(w) /\ w.conn = m.conn
    BY <2>6, <2>8, BodyFrame DEF Wiring
  <2>10. m.conn # "none" => Sound(StartDisconnect(w))
    BY <2>8, <2>9, StopSound
  <2>11. m.conn = "none" /\ m.state = "Sleeping" => Sound(StartAttempt(w, env))
    <3>1. SUFFICES ASSUME m.conn = "none", m.state = "Sleeping" PROVE Blank(w)
      BY <2>2, NowConditions, StartAttemptSound
    <3>2. w.authPrompt = m.authPrompt
      BY <2>8 DEF Wiring
    <3>. QED
      BY <2>6, <2>7, <2>8, <2>9, <3>1, <3>2 DEF Blank, Body, Sound
  <2>. QED
    BY <2>2, <2>5, <2>6, <2>7, <2>10, <2>11, RestoreWays DEF w, IsSettled
<1>. QED
  BY <1>1, <1>2, <1>3, SleepModeSound DEF System

-----------------------------------------------------------------------------
(* The machine that sleeps                                                  *)

\* What is settled stays settled through a failure signal.
LEMMA HandleReconnectingSettled ==
    ASSUME NEW m, Good(m), IsSettled(m)
    PROVE  IsSettled(HandleReconnecting(m))
<1>1. m.ignore \in BOOLEAN /\ m.state \notin {"Connecting", "Reconnecting", "Connected"}
  BY DEF Good, TypeOfManager, IsSettled
<1>2. HandleReconnecting(m) \in {m, Seen(m)}
  BY <1>1 DEF HandleReconnecting, Seen
<1>3. Seen(m).state = m.state
  BY DEF Seen, Good, TypeOfManager
<1>. QED
  BY <1>2, <1>3 DEF IsSettled

\* A session that is settled stays settled through its connector's signals.
LEMMA SlotsRest ==
    ASSUME Good(cm), Slots, IsSettled(cm)
    PROVE  IsSettled(cm')
<1>. DEFINE t == Taken
<1>1. /\ cm.state \in {"Stopping", "Sleeping", "Disconnected"} /\ ~IsAttemptActive(cm)
      /\ cm.state \notin {"Connecting", "Reconnecting", "Connected"}
  BY DEF IsSettled, IsAttemptActive
<1>2. cm.queue # <<>>
  BY DEF Slots, IgnoreRetiredConnector, OnConnectionPrepared, OnConnectionPrepareFailed,
         OnConnectionUserInputRequired, OnConnectionConnected, OnConnectionReconnecting,
         OnConnectionDisconnected, OnConnectionError, Received
<1>3. Good(t) /\ t.state = cm.state /\ IsSettled(t)
  BY <1>2, TakenGood DEF IsSettled
<1>4. CASE OnConnectionReconnecting
  BY <1>3, <1>4, HandleReconnectingSettled DEF OnConnectionReconnecting
<1>5. CASE OnConnectionDisconnected
  <2>. DEFINE r == Retire(t)
              m == Disarm(r, {"poll", "connecting"})
  <2>1. r \in TypeOfManager /\ r.state = cm.state
    BY <1>3, RetireFacts DEF Good
  <2>2. PICK env \in Now :
          cm' = CASE m.state = "Stopping" -> ReportPending(m)
                  [] m.state = "Connected" -> StartAttempt(EnterReconnecting(m), env)
                  [] m.state \in {"Connecting", "Reconnecting"} -> AfterDeath(m, env)
                  [] m.state = "WaitingForNetwork" -> Arm(m, {"cap", "poll"})
                  [] OTHER -> m
    BY <1>5 DEF OnConnectionDisconnected
  <2>. HIDE DEF r
  <2>3. m \in TypeOfManager /\ m.state = cm.state
    BY <2>1, ArmType DEF Timers, Disarm, TypeOfManager
  <2>. HIDE DEF m
  <2>4. cm' \in {m, ReportPending(m)}
    BY <1>1, <2>2, <2>3
  <2>. DEFINE d == Disconnect(m)
              x == ResetWalk(d)
  <2>5. d \in TypeOfManager /\ d.state = "Disconnected"
    BY <2>3 DEF Disconnect, SetState, TypeOfManager, States
  <2>. HIDE DEF d
  <2>6. x.state = "Disconnected" /\ x \in TypeOfManager /\ [d EXCEPT !.authPrompt = TRUE].state = "Disconnected"
    BY <2>5, StrategyType DEF ResetWalk, TypeOfManager
  <2>. HIDE DEF x
  <2>7. \A o : Report(d, o).state = "Disconnected" /\ Report(x, o).state = "Disconnected"
    BY <2>5, <2>6, ReportWiring
  <2>8. ReportPending(m).state = "Disconnected"
    BY <2>6, <2>7 DEF ReportPending, d, x
  <2>. QED
    BY <1>1, <2>3, <2>4, <2>8 DEF IsSettled
<1>6. CASE OnConnectionError
  BY <1>3, <1>6 DEF OnConnectionError
<1>7. CASE OnConnectionPrepareFailed
  BY <1>1, <1>3, <1>7 DEF OnConnectionPrepareFailed
<1>8. ASSUME \/ IgnoreRetiredConnector \/ OnConnectionPrepared \/ OnConnectionUserInputRequired
             \/ OnConnectionConnected
      PROVE  cm' = t
  BY <1>1, <1>8 DEF IgnoreRetiredConnector, OnConnectionPrepared, OnConnectionUserInputRequired,
                    OnConnectionConnected
<1>. QED
  BY <1>3, <1>4, <1>5, <1>6, <1>7, <1>8 DEF Slots

\* So it does through the public methods, while the machine sleeps.
LEMMA RequestsRest ==
    ASSUME Good(cm), Requests, IsSettled(cm), asleep
    PROVE  IsSettled(cm')
<1>1. /\ cm.state \in {"Stopping", "Sleeping", "Disconnected"} /\ ~IsAttemptActive(cm)
      /\ cm.state \notin {"Connecting", "Reconnecting", "Connected"} /\ cm \in TypeOfManager
  BY DEF IsSettled, IsAttemptActive, Good
<1>2. ASSUME NEW kind \in SessionKinds, UpdateConnectionSettings(kind) PROVE IsSettled(cm')
  <2>. DEFINE c == [cm EXCEPT !.resolving = cm.resolving /\ kind = "custom"]
              n == NewWalk(c, kind)
  <2>1. c.state = cm.state /\ c \in TypeOfManager
    BY <1>1 DEF TypeOfManager
  <2>2. cm' = IF n.conn # "none" /\ n.dialed /\ n.state \in {"Connecting", "Connected"}
              THEN StartDisconnect(EnterReconnecting(n)) ELSE n
    BY <1>2 DEF UpdateConnectionSettings
  <2>. HIDE DEF c
  <2>3. n.state = cm.state
    BY <2>1 DEF NewWalk, TypeOfManager
  <2>. HIDE DEF n
  <2>. QED
    BY <1>1, <2>2, <2>3 DEF IsSettled
<1>3. CASE ClickDisconnect
  <2>. DEFINE told == IF cm.state = "Disconnected" THEN <<>> ELSE cm.told
              c == [cm EXCEPT !.authPrompt = FALSE, !.told = told]
  <2>1. told \in Seq(Outcomes)
    BY <1>1 DEF TypeOfManager
  <2>2. cm' = Click(c)
    BY <1>3 DEF ClickDisconnect
  <2>. HIDE DEF told
  <2>3. Good(c) /\ c.state = cm.state
    BY <2>1 DEF Good, Quiet, Manned, Owned, IsSettled, TypeOfManager
  <2>. HIDE DEF c
  <2>4. StartDisconnect(Stop(c, "user")).state = "Stopping"
    BY <2>3, StopGood, StartDisconnectGood DEF Outcomes
  <2>5. Report(ResetWalk(Disconnect(c)), "user").state = "Disconnected"
    BY <2>3, DisconnectGood, ResetWalkGood, ReportGood DEF Outcomes, Good
  <2>. QED
    BY <1>1, <2>2, <2>3, <2>4, <2>5 DEF Click, IsSettled
<1>4. ASSUME NEW yes \in BOOLEAN, OnWireGuardKeyLimitUserResponse(yes) PROVE IsSettled(cm')
  <2>. DEFINE c == [cm EXCEPT !.keyPrompt = FALSE]
  <2>1. c.state = cm.state
    BY <1>1 DEF TypeOfManager
  <2>2. ~IsAttemptActive(c)
    BY <1>1, <2>1 DEF IsAttemptActive
  <2>3. cm' = c
    <3>1. cm' = CASE ~IsAttemptActive(c) -> c
                 [] IsAttemptActive(c) /\ ~yes -> Click(c)
                 [] IsAttemptActive(c) /\ yes /\ c.conn # "none" ->
                      Arm([c EXCEPT !.prep = IF c.prep = "consent" THEN "preparing" ELSE c.prep],
                          {"connecting"})
                 [] OTHER -> c
      BY <1>4 DEF OnWireGuardKeyLimitUserResponse
    <3>. HIDE DEF c
    <3>. QED
      BY <2>2, <3>1
  <2>. QED
    BY <1>1, <2>1, <2>3 DEF IsSettled
<1>5. CASE Reconnect
  BY <1>5, HandleReconnectingSettled DEF Reconnect
<1>6. CASE SetFirewallAlwaysOnPlusEnabled
  BY <1>1, <1>6 DEF SetFirewallAlwaysOnPlusEnabled, IsSettled, TypeOfManager
<1>. QED
  BY <1>1, <1>2, <1>3, <1>4, <1>5, <1>6
     DEF Requests, ClickConnect, ForwardUserInputOrReconnect, OnTunnelTestResult

\* A session that is settled has no timer, and an answer that comes late finds
\* no attempt.
LEMMA TimeoutsRest ==
    ASSUME Good(cm), Timeouts, IsSettled(cm)
    PROVE  IsSettled(cm')
<1>1. cm.timers = {} /\ ~IsAttemptActive(cm) /\ cm \in TypeOfManager
  BY DEF Good, Quiet, IsSettled, IsAttemptActive
<1>2. PICK n \in 0 .. MaxEndpoints : OnHostnamesResolved(n)
  BY <1>1 DEF Timeouts, OnTimerReconnection, OnConnectTrigger, OnConnectingTimeout,
              OnTimerWaitNetworkConnectivity
<1>. DEFINE w == IF cm.walk.kind = "emergency" THEN OnEndpointsReceived(cm.walk, n) ELSE cm.walk
            m == [cm EXCEPT !.resolving = FALSE, !.walk = w]
<1>3. PICK env \in Now : cm' = HostnamesResolved(m, env)
  BY <1>2 DEF OnHostnamesResolved
<1>. HIDE DEF w
<1>4. m.state = cm.state
  BY <1>1 DEF TypeOfManager
<1>. HIDE DEF m
<1>5. ~IsAttemptActive(m)
  BY <1>1, <1>4 DEF IsAttemptActive
<1>6. cm' = m
  BY <1>3, <1>5 DEF HostnamesResolved
<1>. QED
  BY <1>4, <1>6 DEF IsSettled

\* The connector does not decide the session's state by itself.
LEMMA ConnectorRest ==
    ASSUME Good(cm), Connector, IsSettled(cm)
    PROVE  IsSettled(cm')
<1>1. cm'.state = cm.state
  BY DEF Good, Connector, ConnectorPrepared, ConnectorPrepareFailed, ConnectorAtKeyLimit,
         ConnectorStarted, ConnectorConnected, ConnectorReconnecting, ConnectorStartFailed,
         ConnectorFailed, ConnectorDied, ConnectorStopped, ConnectorSettledSilently,
         ConnectorStep, Emit, TypeOfManager
<1>. QED
  BY <1>1 DEF IsSettled

\* Only the sleep and the wake of the machine tell whether it sleeps.
LEMMA StepsLeaveAsleep ==
    ASSUME Slots \/ Requests \/ Timeouts \/ Connector
    PROVE  asleep' = asleep
<1>1. Timeouts \/ Connector => asleep' = asleep
  BY DEF Timeouts, OnTimerReconnection, OnConnectTrigger, OnConnectingTimeout,
         OnTimerWaitNetworkConnectivity, OnHostnamesResolved, World,
         Connector, ConnectorPrepared, ConnectorPrepareFailed, ConnectorAtKeyLimit,
         ConnectorStarted, ConnectorConnected, ConnectorReconnecting, ConnectorStartFailed,
         ConnectorFailed, ConnectorDied, ConnectorStopped, ConnectorSettledSilently, ConnectorStep
<1>2. Slots \/ Requests => asleep' = asleep
  BY DEF Slots, Requests, IgnoreRetiredConnector, OnConnectionPrepared, OnConnectionPrepareFailed,
         OnConnectionUserInputRequired, OnConnectionConnected, OnConnectionReconnecting,
         OnConnectionDisconnected, OnConnectionError, ClickConnect, UpdateConnectionSettings,
         ClickDisconnect, Reconnect, ForwardUserInputOrReconnect, OnWireGuardKeyLimitUserResponse,
         OnTunnelTestResult, SetFirewallAlwaysOnPlusEnabled, World
<1>. QED
  BY <1>1, <1>2

\* While the machine sleeps the session is settled, whatever step is taken.
LEMMA RestKept ==
    ASSUME Contract, Good(cm), Sound(cm), Rested, Next
    PROVE  Rested'
<1>1. ASSUME Slots \/ Requests, asleep PROVE IsSettled(cm')
  BY <1>1, SlotsRest, RequestsRest DEF Rested
<1>2. ASSUME Timeouts, asleep PROVE IsSettled(cm')
  BY <1>2, TimeoutsRest DEF Rested
<1>3. ASSUME Connector, asleep PROVE IsSettled(cm')
  BY <1>3, ConnectorRest DEF Rested
<1>4. ASSUME System, asleep' PROVE IsSettled(cm')
  <2>1. ~EndBlockingDisconnect /\ ~OnWakeMode
    BY <1>4 DEF EndBlockingDisconnect, OnWakeMode, Sound, Body
  <2>2. CASE OnSleepMode
    <3>1. Platform = "windows" /\ cm \in TypeOfManager
      BY <2>2 DEF Contract, OnSleepMode, Good
    <3>. DEFINE m == Halted(cm)
                z == [Blocked(m) EXCEPT !.conn = "down"]
    <3>2. \/ IsSettled(cm) /\ cm' = m
          \/ cm' \in {SetState(m, "Sleeping", "Regular"), FallAsleep(m), FallAsleep(z)}
      BY <2>2, <3>1, SleepWays
    <3>7. /\ m \in TypeOfManager /\ m.state = cm.state /\ m.timers = {} /\ m.conn = cm.conn
          /\ m.prep = cm.prep /\ m.queue = cm.queue
      BY <3>1 DEF Halted, TypeOfManager
    <3>3. m \in TypeOfManager /\ m.state = cm.state /\ Good(m)
      BY <3>7, SameGood
    <3>. HIDE DEF m
    <3>4. SetState(m, "Sleeping", "Regular").state = "Sleeping"
      BY <3>3, SetStateWiring
    <3>5. z \in TypeOfManager
      <4>1. StartDisconnect(m) \in TypeOfManager
        BY <3>3, StartDisconnectGood DEF Good
      <4>. QED
        BY <4>1 DEF Blocked, TypeOfManager, Connectors
    <3>. HIDE DEF z
    <3>6. FallAsleep(m).state = "Sleeping" /\ FallAsleep(z).state = "Sleeping"
      BY <3>3, <3>5, FallAsleepFrame DEF Skeleton
    <3>. QED
      BY <3>2, <3>3, <3>4, <3>6 DEF IsSettled
  <2>3. CASE OnNetworkOnlineStateChanged
    BY <1>4, <2>3, NetworkWays DEF Contract, Good, OnNetworkOnlineStateChanged, Rested
  <2>. QED
    BY <1>4, <2>1, <2>2, <2>3 DEF System
<1>5. Timeouts \/ Connector \/ Slots \/ Requests => asleep' = asleep
  BY StepsLeaveAsleep
<1>. QED
  BY <1>1, <1>2, <1>3, <1>4, <1>5 DEF Next, Rested

-----------------------------------------------------------------------------
(* The connector; the theorems                                              *)

\* The connector's own steps.
Bye == [current |-> TRUE, name |-> "disconnected", err |-> "kNoError"]

\* A signal that says nothing of where the connector stands.
LEMMA EmitSound ==
    ASSUME NEW m, Good(m), Sound(m), m.conn # "none", NEW name \in SignalNames \ {"connected", "error"},
           NEW err \in ConnectError
    PROVE  Sound(Emit(m, name, err))
<1>. DEFINE e == [current |-> TRUE, name |-> name, err |-> err]
            n == Emit(m, name, err)
<1>1. e \in Signals /\ e.current /\ e.name = name
  BY DEF Signals
<1>2. /\ Skeleton(n) = <<m.state, m.timers, m.conn, m.dialed, n.queue, m.blocking, m.lastOnline, m.authPrompt>>
      /\ n.queue = IF m.blocking THEN m.queue ELSE Append(m.queue, e)
  BY EmitFrame DEF Good
<1>. HIDE DEF e, n
<1>3. /\ n.state = m.state /\ n.timers = m.timers /\ n.conn = m.conn /\ n.dialed = m.dialed
      /\ n.blocking = m.blocking /\ n.lastOnline = m.lastOnline /\ n.authPrompt = m.authPrompt
      /\ n.queue = Append(m.queue, e)
  BY <1>2 DEF Skeleton, Sound, Body
<1>4. Current(n) = Current(m) \cup {e} /\ (Ended(m) => Ended(n))
  BY <1>1, <1>3, CurrentAppend DEF Good
<1>5. ~Late(e) /\ Fits(n, e)
  BY <1>1 DEF Late, Fits
<1>6. \A s \in Current(n) : Fits(n, s)
  BY <1>3, <1>4, <1>5 DEF Sound, Body, Fits
<1>7. Sound(n)
  BY <1>3, <1>4, <1>5, <1>6 DEF Sound, Body, Ending
<1>. QED
  BY <1>7 DEF n

\* A live connector moves on, with a signal or without.
LEMMA MoveSound ==
    ASSUME Good(cm), Sound(cm), cm.conn \in Live, NEW n,
           n.state = cm.state, n.timers = cm.timers, n.dialed = cm.dialed, n.blocking = cm.blocking,
           n.lastOnline = cm.lastOnline, n.authPrompt = cm.authPrompt,
           n.conn \in {"dialing", "up", "stopping", "down"},
           n.conn = "dialing" => cm.conn \in {"starting", "dialing"},
           n.conn = "up" => cm.conn \in {"dialing", "up"},
           n.conn = "stopping" => cm.conn \in {"dialing", "up"},
           NEW S, Current(n) = Current(cm) \cup S, Ended(cm) => Ended(n),
           \A s \in S : Fits(n, s),
           n.conn = "down" => Ended(n) \/ (cm.conn = "starting" /\ \A s \in S : ~Late(s))
    PROVE  Sound(n)
<1>1. /\ cm.state \notin {"Disconnected", "Sleeping"} /\ cm.dialed /\ ~cm.authPrompt
      /\ cm.timers \cap {"rest", "poll"} = {}
  BY DEF Sound, Body, Live
<1>2. \A s \in Current(cm) : Fits(n, s)
  BY DEF Sound, Body, Fits, Live
<1>3. cm.conn = "starting" => \A s \in Current(cm) : ~Late(s)
  BY DEF Sound, Body, Fits, Late
<1>4. Body(n)
  BY <1>1, <1>2 DEF Sound, Body
<1>5. n.conn = "down" /\ (\E s \in Current(n) : Late(s)) => Ended(n)
  BY <1>3
<1>6. n.state = "Stopping" => Ending(n)
  BY DEF Sound, Ending
<1>7. n.state = "Connected" => n.conn \in {"up", "stopping"} \/ Ended(n)
  BY DEF Sound
<1>. QED
  BY <1>1, <1>4, <1>5, <1>6, <1>7 DEF Sound

\* The connector's own steps keep the invariant.
LEMMA ConnectorSound ==
    ASSUME Contract, Good(cm), Sound(cm), Connector
    PROVE  Sound(cm')
<1>0. /\ {"prepared", "prepareFailed", "keyLimit", "connected", "reconnecting",
          "disconnected", "error"} \subseteq SignalNames
      /\ {"kNoError", "kLocalProcessNotResponding"} \subseteq ConnectError
      /\ PrepareErrors \subseteq ConnectError
      /\ StartErrors \subseteq ConnectError /\ LiveErrors \subseteq ConnectError
      /\ cm \in TypeOfManager
  BY ErrorAssumption DEF SignalNames, ConnectError, RuntimeErrors, OtherErrors, LocalErrors, Good
<1>1. ASSUME NEW p \in {"none", "consent"}, NEW s \in BOOLEAN, cm.conn # "none",
             NEW name \in {"prepared", "prepareFailed", "keyLimit"}, NEW err \in ConnectError
      PROVE  Sound(Emit([cm EXCEPT !.prep = p, !.stored = s], name, err))
  <2>. DEFINE n == [cm EXCEPT !.prep = p, !.stored = s]
  <2>1. /\ n \in TypeOfManager /\ Wiring(n) = Wiring(cm) /\ n.state = cm.state /\ n.timers = cm.timers
    BY <1>0, <1>1 DEF TypeOfManager, Wiring
  <2>. HIDE DEF n
  <2>2. n.conn # "none" /\ Sound(n) /\ Good(n)
    <3>1. n.conn = cm.conn /\ n.queue = cm.queue
      BY <2>1 DEF Wiring
    <3>. QED
      BY <1>1, <2>1, <3>1, SoundFrame DEF Good, Quiet, Manned, Owned, IsSettled
  <2>3. Sound(Emit(n, name, err))
    BY <1>0, <1>1, <2>2, EmitSound
  <2>. QED
    BY <2>3 DEF n
<1>2. ASSUME NEW c \in {"dialing", "up", "stopping", "down"}, cm.conn \in Live,
             c = "dialing" => cm.conn \in {"starting", "dialing"},
             c = "up" => cm.conn \in {"dialing", "up"},
             c = "stopping" => cm.conn \in {"dialing", "up"},
             NEW name \in SignalNames, NEW err \in ConnectError,
             Fits([conn |-> c, dialed |-> TRUE], [name |-> name, err |-> err]),
             c = "down" => name = "disconnected" \/ (cm.conn = "starting" /\ ~Late([name |-> name, err |-> err]))
      PROVE  Sound(Emit([cm EXCEPT !.conn = c], name, err))
  <2>. DEFINE e == [current |-> TRUE, name |-> name, err |-> err]
              k == [cm EXCEPT !.conn = c]
              n == Emit(k, name, err)
  <2>1. e \in Signals /\ e.current /\ e.name = name /\ e.err = err
    BY DEF Signals
  <2>2. k \in TypeOfManager
    BY <1>0 DEF TypeOfManager, Connectors
  <2>3. Skeleton(k) = <<cm.state, cm.timers, c, cm.dialed, cm.queue, cm.blocking, cm.lastOnline, cm.authPrompt>>
    BY <1>0 DEF Skeleton, TypeOfManager
  <2>. HIDE DEF k
  <2>4. /\ Skeleton(n) = <<k.state, k.timers, k.conn, k.dialed, n.queue, k.blocking, k.lastOnline, k.authPrompt>>
        /\ n.queue = IF k.blocking THEN k.queue ELSE Append(k.queue, e)
    BY <2>2, EmitFrame
  <2>. HIDE DEF n, e
  <2>5. ~cm.blocking /\ cm.dialed
    BY <1>2 DEF Sound, Body
  <2>6. /\ n.state = cm.state /\ n.timers = cm.timers /\ n.conn = c /\ n.dialed = cm.dialed
        /\ n.blocking = cm.blocking /\ n.lastOnline = cm.lastOnline /\ n.authPrompt = cm.authPrompt
        /\ n.queue = Append(cm.queue, e)
    BY <2>3, <2>4, <2>5 DEF Skeleton
  <2>7. /\ Current(n) = Current(cm) \cup {e} /\ (Ended(cm) => Ended(n))
        /\ name = "disconnected" => Ended(n)
    BY <1>0, <2>1, <2>6, CurrentAppend
  <2>8. Fits(n, e) /\ (c = "down" => name = "disconnected" \/ (cm.conn = "starting" /\ ~Late(e)))
    BY <1>2, <2>1, <2>5, <2>6 DEF Fits, Late
  <2>. DEFINE S == {e}
  <2>9. /\ Current(n) = Current(cm) \cup S /\ \A s \in S : Fits(n, s)
        /\ n.conn = "down" => Ended(n) \/ (cm.conn = "starting" /\ \A s \in S : ~Late(s))
    BY <2>6, <2>7, <2>8
  <2>. HIDE DEF S
  <2>10. Sound(n)
    BY <1>2, <2>6, <2>7, <2>9, MoveSound
  <2>. QED
    BY <2>10 DEF n, k
<1>4. cm.prep = "preparing" => cm.conn # "none"
  BY DEF Good, Owned
<1>5. \A p : [cm EXCEPT !.prep = p] = [cm EXCEPT !.prep = p, !.stored = cm.stored]
  BY <1>0 DEF TypeOfManager
<1>6. cm.stored \in BOOLEAN /\ cm.fetches \in BOOLEAN
  BY <1>0 DEF TypeOfManager
<1>7. CASE ConnectorPrepared
  <2>. DEFINE s == cm.stored \/ (cm.fetches /\ cm.fetchMode = "Normal")
  <2>1. cm' = Emit([cm EXCEPT !.prep = "none", !.stored = s], "prepared", "kNoError")
    BY <1>7 DEF ConnectorPrepared, ConnectorStep
  <2>2. s \in BOOLEAN /\ cm.conn # "none"
    BY <1>4, <1>6, <1>7 DEF ConnectorPrepared
  <2>. HIDE DEF s
  <2>. QED
    BY <1>0, <1>1, <2>1, <2>2
<1>8. ASSUME NEW err \in PrepareErrors, ConnectorPrepareFailed(err) PROVE Sound(cm')
  <2>1. cm' = Emit([cm EXCEPT !.prep = "none", !.stored = cm.stored], "prepareFailed", err)
    BY <1>5, <1>8 DEF ConnectorPrepareFailed, ConnectorStep
  <2>. QED
    BY <1>0, <1>1, <1>4, <1>6, <1>8, <2>1 DEF ConnectorPrepareFailed
<1>9. CASE ConnectorAtKeyLimit
  <2>1. cm' = Emit([cm EXCEPT !.prep = "consent", !.stored = cm.stored], "keyLimit", "kNoError")
    BY <1>5, <1>9 DEF ConnectorAtKeyLimit, ConnectorStep
  <2>. QED
    BY <1>0, <1>1, <1>4, <1>6, <1>9, <2>1 DEF ConnectorAtKeyLimit
<1>10. CASE ConnectorStarted
  <2>. DEFINE n == [cm EXCEPT !.conn = "dialing"]
  <2>1. /\ n.state = cm.state /\ n.timers = cm.timers /\ n.dialed = cm.dialed /\ n.blocking = cm.blocking
        /\ n.lastOnline = cm.lastOnline /\ n.authPrompt = cm.authPrompt /\ n.conn = "dialing"
        /\ n.queue = cm.queue
    BY <1>0 DEF TypeOfManager
  <2>2. cm' = n /\ cm.conn = "starting"
    BY <1>10 DEF ConnectorStarted, ConnectorStep
  <2>. HIDE DEF n
  <2>. DEFINE S == {}
  <2>3. Current(n) = Current(cm) \cup S /\ (Ended(cm) => Ended(n)) /\ \A s \in S : Fits(n, s)
    BY <2>1 DEF Current, Ended
  <2>. HIDE DEF S
  <2>4. cm.conn \in Live
    BY <2>2 DEF Live
  <2>5. Sound(n)
    BY <2>1, <2>2, <2>3, <2>4, MoveSound
  <2>. QED
    BY <2>2, <2>5
<1>11. CASE ConnectorConnected
  <2>1. cm.conn = "dialing" /\ cm' = Emit([cm EXCEPT !.conn = "up"], "connected", "kNoError")
    BY <1>11 DEF ConnectorConnected, ConnectorStep
  <2>2. Fits([conn |-> "up", dialed |-> TRUE], [name |-> "connected", err |-> "kNoError"])
    BY DEF Fits
  <2>. QED
    BY <1>0, <1>2, <2>1, <2>2 DEF Live
<1>12. CASE ConnectorReconnecting
  BY <1>0, <1>12, EmitSound DEF ConnectorReconnecting, ConnectorStep
<1>13. ASSUME NEW err \in StartErrors, ConnectorStartFailed(err) PROVE Sound(cm')
  <2>1. cm.conn = "starting" /\ cm' = Emit([cm EXCEPT !.conn = "down"], "error", err)
    BY <1>13 DEF ConnectorStartFailed, ConnectorStep
  <2>2. err # "kAuthFailure"
    BY DEF Contract
  <2>3. /\ Fits([conn |-> "down", dialed |-> TRUE], [name |-> "error", err |-> err])
        /\ ~Late([name |-> "error", err |-> err])
    BY <2>2 DEF Fits, Late
  <2>. QED
    BY <1>0, <1>2, <2>1, <2>3 DEF Live
<1>14. ASSUME NEW err \in LiveErrors, ConnectorFailed(err) PROVE Sound(cm')
  <2>. DEFINE c == IF err = "kAuthFailure" THEN "stopping" ELSE cm.conn
  <2>1. cm.conn \in {"dialing", "up"} /\ cm' = Emit([cm EXCEPT !.conn = c], "error", err)
    BY <1>14 DEF ConnectorFailed, ConnectorStep
  <2>2. err \notin SettledErrors
    BY DEF Contract
  <2>3. Fits([conn |-> c, dialed |-> TRUE], [name |-> "error", err |-> err])
    BY <2>2 DEF Fits
  <2>4. /\ c \in {"dialing", "up", "stopping"}
        /\ c = "dialing" => cm.conn = "dialing"
        /\ c = "up" => cm.conn = "up"
    BY <2>1
  <2>. HIDE DEF c
  <2>. QED
    BY <1>0, <1>2, <2>1, <2>3, <2>4 DEF Live
<1>15. ASSUME ConnectorDied \/ ConnectorStopped PROVE Sound(cm')
  <2>1. cm.conn \in Live /\ cm' = Emit([cm EXCEPT !.conn = "down"], "disconnected", "kNoError")
    BY <1>15 DEF ConnectorDied, ConnectorStopped, ConnectorStep, Live
  <2>2. Fits([conn |-> "down", dialed |-> TRUE], [name |-> "disconnected", err |-> "kNoError"])
    BY DEF Fits
  <2>. QED
    BY <1>0, <1>2, <2>1, <2>2
<1>16. ~ConnectorSettledSilently
  BY DEF Contract, ConnectorSettledSilently
<1>. QED
  BY <1>7, <1>8, <1>9, <1>10, <1>11, <1>12, <1>13, <1>14, <1>15, <1>16 DEF Connector

-----------------------------------------------------------------------------

\* A manager just constructed is sound.
LEMMA InitSound == Init => Sound(cm) /\ Rested
<1>. SUFFICES ASSUME Init PROVE Sound(cm) /\ Rested
  OBVIOUS
<1>1. /\ cm.timers = {} /\ cm.state = "Disconnected" /\ cm.conn = "none" /\ cm.dialed = FALSE
      /\ cm.queue = <<>> /\ cm.blocking = FALSE /\ cm.lastOnline = TRUE /\ cm.authPrompt = FALSE
      /\ asleep = FALSE
  BY DEF Init
<1>2. Current(cm) = {}
  BY <1>1 DEF Current
<1>. QED
  BY <1>1, <1>2 DEF Sound, Body, Live, Rested

\* Every step keeps the invariant, under the contract.
LEMMA NextSound ==
    ASSUME Contract
    PROVE  IInv /\ Sound(cm) /\ Rested /\ [Next]_vars => Sound(cm)' /\ Rested'
<1>. SUFFICES ASSUME IInv, Sound(cm), Rested, [Next]_vars PROVE Sound(cm)' /\ Rested'
  OBVIOUS
<1>1. CASE UNCHANGED vars
  BY <1>1 DEF vars, Rested, IsSettled
<1>2. CASE Next
  <2>1. Sound(cm')
    BY <1>2, SlotsSound, RequestsSound, TimeoutsSound, SystemSound, ConnectorSound DEF IInv, Next
  <2>2. Rested'
    BY <1>2, RestKept DEF IInv
  <2>. QED
    BY <2>1, <2>2
<1>. QED
  BY <1>1, <1>2

\* The invariant holds in every state, under the contract.
LEMMA AlwaysSound == Contract => (Spec => [](IInv /\ Sound(cm)))
<1>. SUFFICES ASSUME Contract PROVE Spec => [](IInv /\ Sound(cm))
  OBVIOUS
<1>1. IInv /\ Sound(cm) /\ Rested /\ [Next]_vars => Sound(cm)' /\ Rested'
  BY NextSound
<1>. QED
  BY <1>1, InitSound, AlwaysGood, PTL DEF Spec

\* A stopping session has a connector that will end or its end in the queue: the
\* state Stopping, which takes no request, is always left
\* (connectionmanager.cpp, disconnect() and onConnectionDisconnected()).
THEOREM EveryStopCompletes == Contract => (Spec => []StopCompletes)
<1>1. Sound(cm) => StopCompletes
  BY DEF Sound, Ending, Ended, StopCompletes, Queued
<1>. QED
  BY <1>1, AlwaysSound, PTL

\* No attempt is started, and none is scheduled, over a connector that is still
\* there: the timers that start one run only when the last connector is gone
\* (connectOrStartConnectTimer(), onTimerReconnection()).
THEOREM RedialsSpareTunnel == Contract => (Spec => []RedialSparesTunnel)
<1>1. Sound(cm) => RedialSparesTunnel
  BY DEF Sound, Body, RedialSparesTunnel
<1>. QED
  BY <1>1, AlwaysSound, PTL

\* The state Connected has a tunnel that is up, or one whose end is already on
\* its way to the manager.
THEOREM ConnectedMeansTunnel == Contract => (Spec => []ConnectedHasTunnel)
<1>1. Sound(cm) => ConnectedHasTunnel
  BY DEF Sound, Ended, ConnectedHasTunnel, Queued
<1>. QED
  BY <1>1, AlwaysSound, PTL

\* A manager that reports Disconnected, or sleeps, has no live tunnel: what
\* the engine relies on when it lets the firewall follow that state.
THEOREM DisconnectedIsSettled == Contract => (Spec => []DisconnectedMeansSettled)
<1>1. Sound(cm) => DisconnectedMeansSettled
  BY DEF Sound, DisconnectedMeansSettled
<1>. QED
  BY <1>1, AlwaysSound, PTL
=============================================================================
