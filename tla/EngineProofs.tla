----------------------------- MODULE EngineProofs -----------------------------
(***************************************************************************)
(* The engine, for every choice of locations, firewall modes and bounds:    *)
(* what the firewall controller remembers is what is installed, and what is *)
(* installed follows the session; a mark is never left for a later session, *)
(* a log-out is never lost, nothing starts a session behind the user's      *)
(* back, and what is published catches up with what is going on.            *)
(***************************************************************************)
EXTENDS Engine, TLAPS

-----------------------------------------------------------------------------
(* The abstract session, for every set of outcomes the user's stop is in   *)

\* An ending session has an outcome to report, or the question to ask.
SInv ==
    /\ TypeInvariant
    /\ AnsweredOnce
    /\ phase = "ending" => decided \in Outcomes \cup {Asking}

\* What the steps end with suffices for the invariant.
LEMMA Settled ==
    ASSUME phase' \in Phases, decided' \in Outcomes \cup {Asking, Nothing}, question' \in BOOLEAN,
           \/ told' = <<>>
           \/ phase' = "off" /\ question' = FALSE /\ \E o \in Outcomes : told' = <<o>>,
           phase' = "ending" => decided' \in Outcomes \cup {Asking},
           phase' = "off" \/ question' = FALSE
    PROVE  SInv'
<1>1. told' \in Seq(Outcomes) /\ Len(told') <= 1
  <2>1. CASE told' = <<>>
    <3>1. <<>> \in Seq(Outcomes) /\ Len(<<>>) = 0
      OBVIOUS
    <3>. QED
      BY <2>1, <3>1
  <2>2. ASSUME NEW o \in Outcomes, told' = <<o>> PROVE told' \in Seq(Outcomes) /\ Len(told') <= 1
    <3>1. <<o>> \in Seq(Outcomes) /\ Len(<<o>>) = 1
      OBVIOUS
    <3>. QED
      BY <2>2, <3>1
  <2>. QED
    BY <2>1, <2>2
<1>2. phase' # "off" => told' = <<>>
  OBVIOUS
<1>3. question' = TRUE => told' = <<>> /\ phase' = "off"
  OBVIOUS
<1>. QED
  BY <1>1, <1>2, <1>3 DEF SInv, TypeInvariant, AnsweredOnce

\* Nothing was asked and nothing is answered.
LEMMA SessionStarts == SessionInit => SInv
<1>. SUFFICES ASSUME SessionInit PROVE SInv
  OBVIOUS
<1>1. told \in Seq(Outcomes) /\ Len(told) <= 1
  <2>1. told = <<>>
    BY DEF SessionInit
  <2>2. <<>> \in Seq(Outcomes) /\ Len(<<>>) = 0
    OBVIOUS
  <2>. QED
    BY <2>1, <2>2
<1>2. phase = "off" /\ decided = Nothing /\ question = FALSE
  BY DEF SessionInit
<1>. QED
  BY <1>1, <1>2 DEF SInv, TypeInvariant, AnsweredOnce, Phases

\* Every step of a session keeps the invariant.
LEMMA SessionSteps ==
    ASSUME "user" \in Outcomes, SInv, [SessionNext]_svars
    PROVE  SInv'
<1>0. /\ phase \in Phases /\ decided \in Outcomes \cup {Asking, Nothing} /\ question \in BOOLEAN
      /\ phase # "off" => told = <<>> /\ question = FALSE
      /\ phase = "ending" => decided \in Outcomes \cup {Asking}
  BY DEF SInv, TypeInvariant, AnsweredOnce
<1>1. CASE Begin
  BY <1>1, Settled DEF Begin, Phases
<1>2. CASE Continue
  BY <1>0, <1>2, Settled DEF Continue, Running, Phases
<1>3. CASE Decide
  BY <1>0, <1>3, Settled DEF Decide, Running, Phases
<1>4. CASE StopByUser
  BY <1>4, Settled DEF StopByUser, Phases
<1>5. CASE ReportOutcome
  BY <1>0, <1>5, Settled DEF ReportOutcome, Phases
<1>6. CASE EndAtOnce
  BY <1>0, <1>6, Settled DEF EndAtOnce, Phases
<1>7. CASE UNCHANGED svars
  BY <1>7 DEF svars, SInv, TypeInvariant, AnsweredOnce
<1>. QED
  BY <1>1, <1>2, <1>3, <1>4, <1>5, <1>6, <1>7 DEF SessionNext

\* A request to connect is answered by at most one outcome, none while the
\* session goes on, and none when it ended in the question for credentials:
\* what the engine may rely on when it maps one signal of the manager to one
\* change of its own state (connectionmanager.h).
THEOREM SessionAnsweredOnce ==
    ASSUME "user" \in Outcomes
    PROVE  SessionSpec => []AnsweredOnce
<1>1. SInv /\ [SessionNext]_svars => SInv'
  BY SessionSteps
<1>2. SInv => AnsweredOnce
  BY DEF SInv
<1>. QED
  BY <1>1, <1>2, SessionStarts, PTL DEF SessionSpec

-----------------------------------------------------------------------------
(* The firewall controller                                                  *)

Latched(f) == f \in FirewallStates /\ LatchTrue(f)

LEMMA RulesOfTyped ==
    ASSUME NEW c \in Requests, NEW i \in Interfaces
    PROVE  RulesOf(c, i) \in RuleSets
BY DEF RuleSets

LEMMA RefusalKeepsLatch ==
    ASSUME NEW f, Latched(f), NEW r \in BOOLEAN
    PROVE  Latched([f EXCEPT !.refused = r])
<1> DEFINE g == [f EXCEPT !.refused = r]
<1>1. g \in FirewallStates /\ g.latest = f.latest /\ g.rules = f.rules
      /\ g.iface = f.iface /\ g.force = f.force /\ g.half = f.half
  BY DEF Latched, FirewallStates
<1> HIDE DEF g
<1>2. Latched(g)
  BY <1>1 DEF Latched, LatchTrue
<1> QED BY <1>2 DEF g

LEMMA OnKeepsLatch ==
    ASSUME NEW f, Latched(f), NEW c \in Requests, NEW ans
    PROVE  Latched(FirewallOn(f, c, ans))
<1>1. CASE ans # "done" \/ (f.latest = c /\ ~f.force)
  <2>1. \/ FirewallOn(f, c, ans) = [f EXCEPT !.refused = FALSE]
        \/ FirewallOn(f, c, ans) = [f EXCEPT !.refused = TRUE]
    BY <1>1 DEF FirewallOn
  <2> QED BY <2>1, RefusalKeepsLatch
<1>2. CASE ~(ans # "done" \/ (f.latest = c /\ ~f.force))
  <2> DEFINE g == [f EXCEPT !.rules = RulesOf(c, f.iface), !.latest = c,
                            !.force = FALSE, !.refused = FALSE, !.half = FALSE]
  <2>1. FirewallOn(f, c, ans) = g
    BY <1>2 DEF FirewallOn
  <2>2. f.iface \in Interfaces /\ RulesOf(c, f.iface) \in RuleSets
    BY RulesOfTyped DEF Latched, FirewallStates
  <2>3. /\ g \in FirewallStates /\ g.latest = c /\ g.rules = RulesOf(c, g.iface)
        /\ g.iface \in Interfaces /\ ~g.half
    BY <2>2 DEF Latched, FirewallStates
  <2>4. c.kind = "on"
    BY DEF Requests
  <2>5. c # Off
    BY <2>4 DEF Off
  <2> HIDE DEF g
  <2> QED BY <2>1, <2>3, <2>5 DEF Latched, LatchTrue
<1> QED BY <1>1, <1>2

LEMMA OffKeepsLatch ==
    ASSUME NEW f, Latched(f), NEW ans
    PROVE  Latched(FirewallOff(f, ans))
<1>0. NoRules \in RuleSets /\ Off \notin Requests
  BY DEF RuleSets, Off, Requests
<1>1. CASE ans = "refused" \/ f.latest = Off
  <2>1. \/ FirewallOff(f, ans) = [f EXCEPT !.refused = FALSE]
        \/ FirewallOff(f, ans) = [f EXCEPT !.refused = TRUE]
    BY <1>1 DEF FirewallOff
  <2> QED BY <2>1, RefusalKeepsLatch
<1>2. CASE ans = "half" /\ f.latest # Off
  <2> DEFINE g == [f EXCEPT !.rules = NoRules, !.refused = TRUE, !.half = TRUE]
  <2>1. FirewallOff(f, ans) = g
    BY <1>2 DEF FirewallOff
  <2>2. g \in FirewallStates /\ g.latest # Off /\ g.half /\ g.rules = NoRules
    BY <1>0, <1>2 DEF Latched, FirewallStates
  <2> HIDE DEF g
  <2> QED BY <2>1, <2>2 DEF Latched, LatchTrue
<1>3. CASE ans \notin {"refused", "half"} /\ f.latest # Off
  <2> DEFINE g == [f EXCEPT !.rules = NoRules, !.latest = Off, !.refused = FALSE, !.half = FALSE]
  <2>1. FirewallOff(f, ans) = g
    BY <1>3 DEF FirewallOff
  <2>2. g \in FirewallStates /\ g.latest = Off /\ g.rules = NoRules
    BY <1>0 DEF Latched, FirewallStates
  <2> HIDE DEF g
  <2> QED BY <1>0, <2>1, <2>2 DEF Latched, LatchTrue
<1> QED BY <1>1, <1>2, <1>3

LEMMA InterfaceKeepsLatch ==
    ASSUME NEW f, Latched(f), NEW i \in Interfaces
    PROVE  Latched(SetVpnInterface(f, i))
<1>1. CASE f.iface = i
  BY <1>1 DEF SetVpnInterface
<1>2. CASE f.iface # i
  <2> DEFINE g == [f EXCEPT !.iface = i, !.force = TRUE]
  <2>1. SetVpnInterface(f, i) = g
    BY <1>2 DEF SetVpnInterface
  <2>2. g \in FirewallStates /\ g.latest = f.latest /\ g.rules = f.rules /\ g.force /\ g.half = f.half
    BY DEF Latched, FirewallStates
  <2> HIDE DEF g
  <2> QED BY <2>1, <2>2 DEF Latched, LatchTrue
<1> QED BY <1>1, <1>2

-----------------------------------------------------------------------------
(* The engine's use of it                                                   *)

\* What the engine asks for is a request of the controller's.
LEMMA RequestsTyped ==
    ASSUME NEW m, NEW ip \in Addresses
    PROVE  WhileDown(m, ip) \in Requests /\ WhileUp \in Requests
           /\ \A c : RulesFor(c, m, ip) \in Requests
BY EngineAssumption DEF WhileDown, WhileUp, RulesFor, Requests

LEMMA UpdateKeepsLatch ==
    ASSUME NEW f, Latched(f), NEW c, NEW m, NEW ip \in Addresses, NEW ans
    PROVE  Latched(UpdateFirewallSettings(f, c, m, ip, ans))
BY RequestsTyped, OnKeepsLatch DEF UpdateFirewallSettings

LEMMA RestoreKeepsLatch ==
    ASSUME NEW f, Latched(f), NEW ans
    PROVE  Latched(RestoreFirewall(f, ans))
<1>1. "none" \in Interfaces /\ "none" \in Addresses
  BY EngineAssumption
<1> QED BY <1>1, InterfaceKeepsLatch, UpdateKeepsLatch DEF RestoreFirewall

LEMMA AfterConnectionKeepsLatch ==
    ASSUME Latched(fw), NEW allow, NEW off, NEW ans
    PROVE  Latched(FirewallAfterConnection(allow, off, ans))
<1> DEFINE f == SetVpnInterface(fw, "tun")
           g == IF FirewallActualState(f) /\ mode = "before" /\ ~allow THEN FirewallOff(f, off) ELSE f
<1>1. "tun" \in Interfaces /\ "none" \in Addresses
  BY EngineAssumption
<1>2. Latched(f)
  BY <1>1, InterfaceKeepsLatch
<1>3. Latched(g)
  BY <1>2, OffKeepsLatch
<1>4. WhileUp \in Requests
  BY <1>1, RequestsTyped
<1>5. Latched(FirewallOn(g, WhileUp, ans))
  BY <1>3, <1>4, OnKeepsLatch
<1>6. FirewallAfterConnection(allow, off, ans) \in {g, FirewallOn(g, WhileUp, ans)}
  BY DEF FirewallAfterConnection
<1> HIDE DEF f, g
<1> QED BY <1>3, <1>5, <1>6

LEMMA BeforeConnectionKeepsLatch ==
    ASSUME Latched(fw), exempt \in Addresses, NEW ans
    PROVE  Latched(FirewallBeforeConnection(ans))
BY RequestsTyped, OnKeepsLatch DEF FirewallBeforeConnection

\* The address the rules exempt is an address.
FwInv == Latched(fw) /\ exempt \in Addresses

LEMMA DisconnectedKeepsLatch ==
    ASSUME NEW f, Latched(f), NEW reason, NEW mark, NEW ans, OnDisconnected(f, reason, mark, ans)
    PROVE  FwInv'
<1> DEFINE g == RestoreFirewall(f, ans)
<1>1. Latched(g) /\ \A off : Latched(FirewallOff(g, off))
  BY RestoreKeepsLatch, OffKeepsLatch
<1>2. exempt' \in Addresses
  BY EngineAssumption DEF OnDisconnected
<1>3. fw' = g \/ \E off : fw' = FirewallOff(g, off)
  BY DEF OnDisconnected, LogoutImplAfterDisconnect
<1> HIDE DEF g
<1> QED BY <1>1, <1>2, <1>3 DEF FwInv

LEMMA OutcomeKeepsLatch ==
    ASSUME NEW f, Latched(f), exempt \in Addresses, NEW mark, NEW ans, OnOutcome(f, mark, ans)
    PROVE  FwInv'
<1>1. CASE OnError(f, ans)
  BY <1>1 DEF OnError, FwInv
<1>2. CASE \E reason \in Outcomes : OnDisconnected(f, reason, mark, ans)
  BY <1>2, DisconnectedKeepsLatch
<1> QED BY <1>1, <1>2 DEF OnOutcome

LEMMA AuthErrorKeepsLatch ==
    ASSUME FwInv, NEW ans, OnAuthError(ans)
    PROVE  FwInv'
<1>1. Latched(RestoreFirewall(fw, ans))
  BY RestoreKeepsLatch DEF FwInv
<1> QED BY <1>1, EngineAssumption DEF OnAuthError, FwInv

LEMMA StopKeepsLatch ==
    ASSUME FwInv, NEW mark, NEW ans, ClickDisconnect(mark, ans)
    PROVE  FwInv'
<1>1. CASE UNCHANGED firewall
  BY <1>1 DEF firewall, FwInv
<1>2. CASE OnDisconnected(fw, "user", mark, ans)
  BY <1>2, DisconnectedKeepsLatch DEF FwInv
<1> QED BY <1>1, <1>2 DEF ClickDisconnect

LEMMA StartKeepsLatch ==
    ASSUME NEW f, Latched(f), exempt \in Addresses, NEW ans, StartSession(f, ans)
    PROVE  FwInv'
<1>1. CASE fw' = f /\ exempt' = exempt
  BY <1>1 DEF FwInv
<1>2. CASE OnOutcome(f, sender, ans)
  BY <1>2, OutcomeKeepsLatch
<1> QED BY <1>1, <1>2 DEF StartSession

LEMMA ConnectKeepsLatch ==
    ASSUME NEW f, Latched(f), exempt \in Addresses, NEW l, NEW auth, NEW ans,
           DoConnect(f, l, auth, ans)
    PROVE  FwInv'
<1>1. CASE fw' = f /\ exempt' = exempt
  BY <1>1 DEF FwInv
<1>2. CASE StartSession(f, ans)
  BY <1>2, StartKeepsLatch
<1> QED BY <1>1, <1>2 DEF DoConnect

LEMMA ConnectClickKeepsLatch ==
    ASSUME FwInv, NEW l, NEW ans, ConnectClickImpl(l, ans)
    PROVE  FwInv'
<1>1. CASE ClickDisconnect("reconnect", ans)
  BY <1>1, StopKeepsLatch
<1>2. CASE UNCHANGED firewall
  BY <1>2 DEF firewall, FwInv
<1>3. CASE \E before \in AnswersToOn : DoConnect(FirewallBeforeConnection(before), l, TRUE, ans)
  BY <1>3, BeforeConnectionKeepsLatch, ConnectKeepsLatch DEF FwInv
<1> QED BY <1>1, <1>2, <1>3 DEF ConnectClickImpl

LEMMA StepKeepsLatch == FwInv /\ [Next]_evars => FwInv'
<1> SUFFICES ASSUME FwInv, [Next]_evars PROVE FwInv'
  OBVIOUS
<1>0. Latched(fw) /\ exempt \in Addresses /\ "tun" \in Interfaces /\ "server" \in Addresses
  BY EngineAssumption DEF FwInv
<1>1. CASE UNCHANGED firewall
  BY <1>1 DEF firewall, FwInv
<1>2. ASSUME NEW l \in Locations, ConnectClick(l) PROVE FwInv'
  BY <1>1, <1>2 DEF ConnectClick
<1>3. CASE DisconnectClick
  BY <1>1, <1>3 DEF DisconnectClick
<1>4. ASSUME NEW name, LogoutClick(name) PROVE FwInv'
  BY <1>1, <1>4 DEF LogoutClick
<1>5. CASE SessionMoves
  BY <1>1, <1>5 DEF SessionMoves
<1>6. CASE LoginOk
  BY <1>1, <1>6 DEF LoginOk
<1>7. ASSUME NEW ans \in HelperAnswers,
             ConnectCall(ans) \/ Redial(ans) \/ DisconnectClickImpl(ans)
      PROVE  FwInv'
  BY <1>7, ConnectClickKeepsLatch, StopKeepsLatch DEF ConnectCall, Redial, DisconnectClickImpl
<1>8. ASSUME NEW ans \in HelperAnswers, NEW name, LogoutImpl(name, ans) PROVE FwInv'
  <2>1. CASE ClickDisconnect(name, ans)
    BY <2>1, StopKeepsLatch
  <2>2. CASE (\E off \in HelperAnswers : LogoutImplAfterDisconnect(fw, name = "logoutKeep", off)) /\ UNCHANGED exempt
    BY <1>0, <2>2, OffKeepsLatch DEF LogoutImplAfterDisconnect, FwInv
  <2> QED BY <1>8, <2>1, <2>2 DEF LogoutImpl
<1>9. ASSUME NEW ans \in HelperAnswers, FirewallOnImpl(ans) \/ FirewallOffImpl(ans)
      PROVE  FwInv'
  BY <1>0, <1>9, RequestsTyped, OnKeepsLatch, OffKeepsLatch
     DEF FirewallOnImpl, FirewallOffImpl, FwInv
<1>10. ASSUME NEW ans \in HelperAnswers, NEW m \in Modes, SetSettings(m, ans) PROVE FwInv'
  BY <1>0, <1>10, UpdateKeepsLatch DEF SetSettings, FwInv
<1>11. ASSUME NEW ans \in HelperAnswers, OnHostIPsChanged(ans) PROVE FwInv'
  BY <1>0, <1>11, UpdateKeepsLatch DEF OnHostIPsChanged, FwInv
<1>12. ASSUME NEW ans \in HelperAnswers, ConnectingToHostname(ans) PROVE FwInv'
  BY <1>0, <1>12, UpdateKeepsLatch DEF ConnectingToHostname, FwInv
<1>13. ASSUME NEW ans \in HelperAnswers, NEW allow \in BOOLEAN, Connected(allow, ans) PROVE FwInv'
  BY <1>0, <1>13, AfterConnectionKeepsLatch DEF Connected, FwInv
<1>14. ASSUME NEW ans \in HelperAnswers, Reconnecting(ans) PROVE FwInv'
  BY <1>0, <1>14, UpdateKeepsLatch DEF Reconnecting, FwInv
<1>15. ASSUME NEW ans \in HelperAnswers, InterfaceUpdated(ans) PROVE FwInv'
  BY <1>0, <1>15, UpdateKeepsLatch, InterfaceKeepsLatch DEF InterfaceUpdated, FwInv
<1>16. ASSUME NEW ans \in HelperAnswers, SessionEnded(ans) PROVE FwInv'
  BY <1>0, <1>16, AuthErrorKeepsLatch, OutcomeKeepsLatch DEF SessionEnded
<1>17. ASSUME NEW ans \in HelperAnswers, AnswerQuestion(ans) PROVE FwInv'
  BY <1>0, <1>17, StartKeepsLatch, StopKeepsLatch DEF AnswerQuestion
<1>18. ASSUME NEW ans \in HelperAnswers, ServerCredentialsFetched(ans) PROVE FwInv'
  BY <1>0, <1>1, <1>18, ConnectKeepsLatch DEF ServerCredentialsFetched
<1>19. CASE UNCHANGED evars
  BY <1>1, <1>19 DEF evars
<1> QED
  BY <1>2, <1>3, <1>4, <1>5, <1>6, <1>7, <1>8, <1>9, <1>10, <1>11, <1>12, <1>13, <1>14, <1>15,
     <1>16, <1>17, <1>18, <1>19 DEF Next, AnswersToOn

\* The latch and the addresses, in every state.
LEMMA AlwaysLatched == Spec => []FwInv
<1>1. Init => FwInv
  <2> SUFFICES ASSUME Init PROVE FwInv OBVIOUS
  <2>1. exempt \in Addresses
    BY EngineAssumption DEF Init
  <2>2. PICK r \in {NoRules, [on |-> TRUE, ip |-> "none", list |-> "open", iface |-> "none"]} :
          fw = [rules |-> r, latest |-> Unknown, iface |-> "none", force |-> FALSE,
                refused |-> FALSE, half |-> FALSE]
    BY DEF Init
  <2>3. r \in RuleSets
    <3> DEFINE c == [kind |-> "on", ip |-> "none", list |-> "open", up |-> FALSE]
    <3>1. c \in Requests /\ "none" \in Interfaces
      BY EngineAssumption DEF Requests
    <3>2. RulesOf(c, "none") \in RuleSets
      BY <3>1, RulesOfTyped
    <3>3. RulesOf(c, "none") = [on |-> TRUE, ip |-> "none", list |-> "open", iface |-> "none"]
      BY DEF RulesOf
    <3>4. NoRules \in RuleSets
      BY DEF RuleSets
    <3> QED BY <3>2, <3>3, <3>4
  <2>f. /\ "none" \in Interfaces /\ Unknown \in Requests \cup {Unknown, Off}
    BY EngineAssumption
  <2>4. fw \in FirewallStates /\ fw.latest = Unknown
    BY <2>2, <2>3, <2>f DEF FirewallStates
  <2>5. Unknown \notin Requests /\ Unknown # Off
    BY DEF Unknown, Requests, Off
  <2> QED BY <2>1, <2>4, <2>5 DEF FwInv, Latched, LatchTrue
<1> QED BY <1>1, StepKeepsLatch, PTL DEF Spec

\* An unchanged request may be dropped: what the controller remembers of the
\* firewall is what is installed, whatever was asked and refused before; only a
\* clear that failed after its first transaction leaves a remembered request
\* without its rules, until the next request that is sent and not refused.
THEOREM LatchTruth == Spec => []LatchIsTrue
<1>1. FwInv => LatchIsTrue
  BY DEF FwInv, Latched, LatchIsTrue
<1> QED BY <1>1, AlwaysLatched, PTL

-----------------------------------------------------------------------------
(* What the requests to the manager, and its reports, leave of a session,   *)
(* its mark and the log-out that waits for it.                              *)

Logouts == {"logout", "logoutKeep"}

\* The manager has reported the end of a session that bore the mark.
Over(mark) ==
    /\ sender' = "none" /\ (redial' => mark = "reconnect")
    /\ (owed' => owed /\ mark \notin Logouts) /\ (loggedIn' => loggedIn)

LEMMA DisconnectedLeaves ==
    ASSUME NEW f, NEW reason, NEW mark, NEW ans, OnDisconnected(f, reason, mark, ans)
    PROVE  Over(mark)
BY DEF OnDisconnected, LogoutImplAfterDisconnect, Over, Logouts

LEMMA OutcomeLeaves ==
    ASSUME NEW f, NEW mark, NEW ans, OnOutcome(f, mark, ans)
    PROVE  \/ Over(mark)
           \/ /\ told' = <<"error">> /\ ~redial'
              /\ UNCHANGED <<sender, owed, loggedIn>>
BY DisconnectedLeaves DEF OnOutcome, OnError

\* A stop has been asked for, or a session without a connector is over.
Stopped(mark) ==
    \/ /\ phase' = "ending" /\ decided' = "user"
       /\ sender' = mark /\ (owed' => owed \/ mark \in Logouts)
       /\ UNCHANGED <<redial, loggedIn>> /\ (question' => question /\ phase # "off")
    \/ /\ phase # "ending" /\ phase' = "off" /\ ~question' /\ UNCHANGED decided
       /\ Over(mark)

LEMMA StopLeaves ==
    ASSUME NEW mark, NEW ans, ClickDisconnect(mark, ans)
    PROVE  Stopped(mark)
<1>1. CASE phase = "ending" /\ decided = "user" /\ UNCHANGED session /\ Stopping(mark)
           /\ UNCHANGED <<redial, loggedIn>>
  BY <1>1 DEF session, Stopping, Stopped, Logouts
<1>2. CASE (Decide \/ StopByUser) /\ decided' = "user" /\ Stopping(mark)
           /\ UNCHANGED <<redial, loggedIn>>
  BY <1>2 DEF Decide, StopByUser, Running, Stopping, Stopped, Logouts
<1>3. CASE EndAtOnce /\ OnDisconnected(fw, "user", mark, ans)
  BY <1>3, DisconnectedLeaves DEF EndAtOnce, Running, Stopped
<1> QED BY <1>1, <1>2, <1>3 DEF ClickDisconnect

\* A session has begun, or has failed at once.
Begun(mark) ==
    /\ phase = "off" /\ phase' \in {"trying", "off"} /\ decided' = Nothing /\ ~question'
    /\ sender' \in {sender, "none"} /\ (redial' => mark = "reconnect")
    /\ (owed' => owed) /\ (loggedIn' => loggedIn)

LEMMA StartLeaves ==
    ASSUME NEW f, NEW ans, StartSession(f, ans)
    PROVE  Begun(sender)
<1>1. Begin
  BY DEF StartSession
<1>2. CASE redial' = FALSE /\ UNCHANGED <<sender, loggedIn, owed>>
  BY <1>1, <1>2 DEF Begin, Begun
<1>3. CASE OnOutcome(f, sender, ans)
  BY <1>1, <1>3, OutcomeLeaves DEF Begin, Begun, Over
<1> QED BY <1>2, <1>3 DEF StartSession

\* Nothing of the session has changed.
Still == ~redial' /\ UNCHANGED <<session, node, sender, loggedIn, owed>>

LEMMA ConnectLeaves ==
    ASSUME NEW f, NEW l, NEW auth, NEW ans, DoConnect(f, l, auth, ans)
    PROVE  Begun(sender) \/ Still
<1>1. CASE UNCHANGED <<session, node, sender, loggedIn, owed>> /\ redial' = FALSE
  BY <1>1 DEF Still
<1>2. CASE StartSession(f, ans)
  BY <1>2, StartLeaves
<1> QED BY <1>1, <1>2 DEF DoConnect

LEMMA ConnectClickLeaves ==
    ASSUME NEW l, NEW ans, ConnectClickImpl(l, ans)
    PROVE  /\ due' = due
           /\ \/ phase # "off" /\ Stopped("reconnect") /\ UNCHANGED <<fetching, node>>
              \/ phase = "off" /\ Still /\ (fetching' => fetching)
              \/ phase = "off" /\ ~fetching' /\ Begun(sender)
<1>1. due' = due
  BY DEF ConnectClickImpl
<1>2. CASE phase # "off" /\ ClickDisconnect("reconnect", ans) /\ UNCHANGED <<fetching, node>>
  BY <1>1, <1>2, StopLeaves
<1>3. CASE phase = "off" /\ redial' = FALSE /\ (UNCHANGED fetching \/ fetching' = FALSE)
           /\ UNCHANGED <<session, node, sender, loggedIn, owed>>
  <2>1. Still
    BY <1>3 DEF Still
  <2>2. CASE UNCHANGED fetching
    BY <1>1, <1>3, <2>1, <2>2
  <2>3. CASE fetching' = FALSE
    BY <1>1, <1>3, <2>1, <2>3
  <2> QED BY <1>3, <2>2, <2>3
<1>4. CASE /\ phase = "off" /\ fetching' = FALSE
           /\ \E before \in AnswersToOn :
                DoConnect(FirewallBeforeConnection(before), l, TRUE, ans)
  <2>1. Begun(sender) \/ Still
    BY <1>4, ConnectLeaves
  <2> QED BY <1>1, <1>4, <2>1
<1> QED BY <1>2, <1>3, <1>4 DEF ConnectClickImpl

-----------------------------------------------------------------------------
(* Marks, refetches and the user's wish.                                    *)

\* A mark goes with the user's stop of the session, which nothing replaces; a
\* refetch of credentials is dropped before the next session begins; and what
\* may start a session is left only where the user wants one.
CtlInv ==
    /\ sender # "none" => phase = "ending" /\ decided = "user"
    /\ redial \/ question => phase = "off"
    /\ decided = Asking => node = "custom"
    /\ phase # "off" \/ question => ~fetching
    /\ phase # "off" => wanted \/ (phase = "ending" /\ decided = "user")
    /\ redial \/ sender = "reconnect" => wanted
    /\ fetching /\ due /\ loggedIn => wanted

LEMMA CtlStarts == Init => CtlInv
BY DEF Init, SessionInit, CtlInv, Asking, Nothing

\* A step that starts nothing by itself and changes nothing of the above.
LEMMA QuietKeepsCtl ==
    ASSUME CtlInv, UNCHANGED <<session, sender, redial, node, fetching, due, loggedIn, wanted>>
    PROVE  CtlInv'
BY DEF CtlInv, session

LEMMA SlotKeepsCtl ==
    ASSUME CtlInv, OtherSlot, UNCHANGED request, Continue \/ UNCHANGED session
    PROVE  CtlInv'
BY DEF CtlInv, OtherSlot, request, session, Continue, Running

LEMMA ConnectClickKeepsCtl ==
    ASSUME CtlInv, NEW l, NEW ans, ConnectClickImpl(l, ans), wanted'
    PROVE  CtlInv'
<1>0. due' = due
  BY ConnectClickLeaves
<1>1. CASE phase # "off" /\ Stopped("reconnect") /\ UNCHANGED <<fetching, node>>
  BY <1>0, <1>1 DEF CtlInv, Stopped, Over, Asking
<1>2. CASE phase = "off" /\ Still /\ (fetching' => fetching)
  BY <1>0, <1>2 DEF CtlInv, Still, session
<1>3. CASE phase = "off" /\ ~fetching' /\ Begun(sender)
  BY <1>0, <1>3 DEF CtlInv, Begun, Asking, Nothing
<1> QED BY <1>1, <1>2, <1>3, ConnectClickLeaves

LEMMA StepKeepsCtl == CtlInv /\ [Next]_evars => CtlInv'
<1> SUFFICES ASSUME CtlInv, [Next]_evars PROVE CtlInv'
  OBVIOUS
<1>1. ASSUME NEW l \in Locations, ConnectClick(l) PROVE CtlInv'
  BY <1>1, QuietKeepsCtl DEF ConnectClick, request
<1>2. CASE DisconnectClick
  BY <1>2, QuietKeepsCtl DEF DisconnectClick, request
<1>3. ASSUME NEW name, LogoutClick(name) PROVE CtlInv'
  BY <1>3, QuietKeepsCtl DEF LogoutClick, request
<1>4. CASE SessionMoves
  <2>1. OtherSlot /\ UNCHANGED request
    BY <1>4 DEF SessionMoves
  <2>2. CASE Continue
    BY <2>1, <2>2, SlotKeepsCtl
  <2>3. CASE Decide /\ decided' # "user" /\ (decided' = Asking => node = "custom")
    BY <2>1, <2>3 DEF CtlInv, OtherSlot, request, Decide, Running, Asking
  <2> QED BY <1>4, <2>2, <2>3 DEF SessionMoves
<1>5. CASE LoginOk
  BY <1>5 DEF LoginOk, CtlInv, session
<1>6. ASSUME NEW ans \in HelperAnswers, ConnectCall(ans) PROVE CtlInv'
  BY <1>6, ConnectClickKeepsCtl DEF ConnectCall
<1>7. ASSUME NEW ans \in HelperAnswers, Redial(ans) PROVE CtlInv'
  <2>1. wanted'
    BY <1>7 DEF Redial, CtlInv
  <2> QED BY <1>7, <2>1, ConnectClickKeepsCtl DEF Redial
<1>8. ASSUME NEW ans \in HelperAnswers, DisconnectClickImpl(ans) PROVE CtlInv'
  <2>1. ~redial /\ ~fetching' /\ node' = node
    BY <1>8 DEF DisconnectClickImpl, Take
  <2>2. Stopped("none")
    BY <1>8, StopLeaves DEF DisconnectClickImpl
  <2> QED BY <2>1, <2>2 DEF CtlInv, Stopped, Over, Asking
<1>9. ASSUME NEW ans \in HelperAnswers, NEW name \in Logouts, LogoutImpl(name, ans) PROVE CtlInv'
  <2>1. ~redial /\ node' = node /\ fetching' = fetching /\ due' = due
    BY <1>9 DEF LogoutImpl, Take, request
  <2>2. CASE phase # "off" /\ Stopped(name)
    BY <2>1, <2>2 DEF CtlInv, Stopped, Over, Asking, Logouts
  <2>3. CASE phase = "off" /\ ~loggedIn' /\ UNCHANGED <<session, sender, redial>>
    BY <2>1, <2>3 DEF CtlInv, session
  <2> QED BY <1>9, <2>2, <2>3, StopLeaves DEF LogoutImpl, LogoutImplAfterDisconnect
<1>10. ASSUME NEW ans \in HelperAnswers,
              FirewallOnImpl(ans) \/ FirewallOffImpl(ans) \/ OnHostIPsChanged(ans)
       PROVE  CtlInv'
  BY <1>10, SlotKeepsCtl DEF FirewallOnImpl, FirewallOffImpl, OnHostIPsChanged
<1>11. ASSUME NEW ans \in HelperAnswers, NEW m \in Modes, SetSettings(m, ans) PROVE CtlInv'
  BY <1>11, SlotKeepsCtl DEF SetSettings
<1>12. ASSUME NEW ans \in HelperAnswers, ConnectingToHostname(ans) \/ InterfaceUpdated(ans)
       PROVE  CtlInv'
  BY <1>12, SlotKeepsCtl DEF ConnectingToHostname, InterfaceUpdated
<1>13. ASSUME NEW ans \in HelperAnswers, NEW allow \in BOOLEAN, Connected(allow, ans) PROVE CtlInv'
  BY <1>13, SlotKeepsCtl DEF Connected
<1>14. ASSUME NEW ans \in HelperAnswers, Reconnecting(ans) PROVE CtlInv'
  BY <1>14, SlotKeepsCtl DEF Reconnecting
<1>15. ASSUME NEW ans \in HelperAnswers, SessionEnded(ans) PROVE CtlInv'
  <2>0. ~redial /\ UNCHANGED <<node, wanted>>
    BY <1>15 DEF SessionEnded
  <2>1. CASE ReportOutcome /\ OnAuthError(ans) /\ (question' \/ told' = <<"error">>)
    <3>1. decided # "user"
      <4>1. CASE decided = Asking
        BY <4>1 DEF Asking
      <4>2. CASE decided # Asking
        BY <2>1, <4>2 DEF ReportOutcome
      <4> QED BY <4>1, <4>2
    <3>2. phase = "ending" /\ phase' = "off" /\ decided' = Nothing
      BY <2>1 DEF ReportOutcome
    <3>3. wanted /\ ~fetching /\ sender = "none"
      BY <3>1, <3>2 DEF CtlInv
    <3>4. question' => node = "custom"
      BY <2>1 DEF ReportOutcome, CtlInv
    <3>5. sender' = "none" /\ ~redial' /\ (fetching' => node = "api")
      BY <2>0, <2>1, <3>3 DEF OnAuthError
    <3> QED BY <2>0, <3>2, <3>3, <3>4, <3>5 DEF CtlInv, Asking, Nothing
  <2>2. CASE /\ ReportOutcome /\ ~question' /\ OnOutcome(fw, sender, ans)
             /\ UNCHANGED <<fetching, due>>
    <3>1. phase = "ending" /\ phase' = "off" /\ decided' = Nothing
      BY <2>2 DEF ReportOutcome
    <3>2. CASE Over(sender)
      BY <2>0, <2>2, <3>1, <3>2 DEF CtlInv, Over, Asking, Nothing
    <3>3. CASE told' = <<"error">> /\ ~redial' /\ UNCHANGED <<sender, owed, loggedIn>>
      <4>1. decided # "user"
        BY <2>2, <3>3 DEF ReportOutcome, Asking
      <4> QED BY <2>0, <2>2, <3>1, <3>3, <4>1 DEF CtlInv, Asking, Nothing
    <3> QED BY <2>2, <3>2, <3>3, OutcomeLeaves
  <2>3. CASE /\ EndAtOnce /\ phase # "off" /\ OnOutcome(fw, sender, ans)
             /\ UNCHANGED <<fetching, due>>
    <3>1. /\ phase # "ending" /\ phase' = "off" /\ decided' = decided /\ ~question'
          /\ sender = "none" /\ ~fetching
      BY <2>3 DEF EndAtOnce, Running, CtlInv
    <3>2. sender' = "none" /\ ~redial'
      BY <2>3, <3>1, OutcomeLeaves DEF Over
    <3> QED BY <2>0, <2>3, <3>1, <3>2 DEF CtlInv
  <2> QED BY <1>15, <2>1, <2>2, <2>3 DEF SessionEnded
<1>16. ASSUME NEW ans \in HelperAnswers, AnswerQuestion(ans) PROVE CtlInv'
  <2>0. /\ ~redial /\ phase = "off" /\ sender = "none" /\ ~fetching'
        /\ UNCHANGED <<node, fetching, due>>
    BY <1>16 DEF AnswerQuestion, CtlInv, request
  <2>1. CASE StartSession(fw, ans) /\ wanted'
    BY <2>0, <2>1, StartLeaves DEF Begun, CtlInv, Asking, Nothing
  <2>2. CASE ClickDisconnect(sender, ans)
    BY <2>0, <2>2, StopLeaves DEF Stopped, Over, CtlInv, Asking
  <2> QED BY <1>16, <2>1, <2>2 DEF AnswerQuestion
<1>17. ASSUME NEW ans \in HelperAnswers, ServerCredentialsFetched(ans) PROVE CtlInv'
  <2>0. ~redial /\ due /\ loggedIn /\ ~due' /\ ~fetching' /\ wanted' = wanted
    BY <1>17 DEF ServerCredentialsFetched
  <2>1. CASE fetching /\ DoConnect(fw, loc, FALSE, ans)
    <3>1. CASE Begun(sender)
      BY <2>0, <2>1, <3>1 DEF Begun, CtlInv, Asking, Nothing
    <3>2. CASE Still
      BY <2>0, <2>1, <3>2 DEF Still, CtlInv, session
    <3> QED BY <2>1, <3>1, <3>2, ConnectLeaves
  <2>2. CASE UNCHANGED <<session, sender, redial, node, loggedIn>>
    BY <2>0, <2>2 DEF CtlInv, session
  <2> QED BY <1>17, <2>1, <2>2 DEF ServerCredentialsFetched
<1>18. CASE UNCHANGED evars
  BY <1>18, QuietKeepsCtl DEF evars, request
<1> QED
  BY <1>1, <1>2, <1>3, <1>4, <1>5, <1>6, <1>7, <1>8, <1>9, <1>10, <1>11, <1>12, <1>13, <1>14,
     <1>15, <1>16, <1>17, <1>18 DEF Next, AnswersToOn, Logouts

\* A mark is never left for the end of a later session.
THEOREM MarksAreForTheirStop == Spec => []MarkIsForThisStop
<1>1. CtlInv => MarkIsForThisStop
  BY DEF CtlInv, MarkIsForThisStop
<1> QED BY <1>1, CtlStarts, StepKeepsCtl, PTL DEF Spec

\* No refetch of credentials and no redial starts a session that the user's
\* last stop or log-out came after.
THEOREM StartsAreWanted == Spec => StartsOnlyWanted
<1>1. CtlInv /\ [Next]_evars => [phase = "off" /\ phase' \in Running => wanted']_evars
  <2> SUFFICES ASSUME CtlInv, Next, phase = "off", phase' \in Running PROVE wanted'
    OBVIOUS
  <2> USE DEF Running
  <2>1. \A mark, ans : ~ClickDisconnect(mark, ans)
    BY StopLeaves DEF Stopped
  <2>2. PICK ans \in HelperAnswers :
          \/ ConnectCall(ans) \/ Redial(ans) \/ AnswerQuestion(ans)
          \/ ServerCredentialsFetched(ans)
    <3>1. ~\E l \in Locations : ConnectClick(l)
      BY DEF ConnectClick, session
    <3>2. ~DisconnectClick /\ ~LoginOk
      BY DEF DisconnectClick, LoginOk, session
    <3>3. ~\E name \in Logouts : LogoutClick(name)
      BY DEF LogoutClick, session
    <3>4. ~SessionMoves
      BY DEF SessionMoves, Continue, Decide
    <3>5. \A x : ~DisconnectClickImpl(x)
      BY <2>1 DEF DisconnectClickImpl
    <3>6. \A x : /\ ~FirewallOnImpl(x) /\ ~FirewallOffImpl(x) /\ ~OnHostIPsChanged(x)
                 /\ ~ConnectingToHostname(x) /\ ~InterfaceUpdated(x)
      BY DEF FirewallOnImpl, FirewallOffImpl, OnHostIPsChanged, ConnectingToHostname,
         InterfaceUpdated, session
    <3>7. \A x, name : ~LogoutImpl(name, x)
      BY <2>1 DEF LogoutImpl, session
    <3>8. \A x, m : ~SetSettings(m, x)
      BY DEF SetSettings, session
    <3>9. \A x : ~Reconnecting(x) /\ \A allow \in BOOLEAN : ~Connected(allow, x)
      BY DEF Connected, Reconnecting
    <3>10. \A x : ~SessionEnded(x)
      BY DEF SessionEnded, ReportOutcome, EndAtOnce
    <3> QED
      BY <3>1, <3>2, <3>3, <3>4, <3>5, <3>6, <3>7, <3>8, <3>9, <3>10 DEF Next, AnswersToOn, Logouts
  <2>3. CASE ConnectCall(ans)
    BY <2>3 DEF ConnectCall
  <2>4. CASE Redial(ans)
    BY <2>4 DEF Redial, CtlInv
  <2>5. CASE AnswerQuestion(ans)
    BY <2>1, <2>5 DEF AnswerQuestion
  <2>6. CASE ServerCredentialsFetched(ans)
    <3>1. due /\ loggedIn /\ wanted' = wanted
      BY <2>6 DEF ServerCredentialsFetched
    <3>2. fetching
      BY <2>6 DEF ServerCredentialsFetched, session
    <3> QED BY <3>1, <3>2 DEF CtlInv
  <2> QED BY <2>2, <2>3, <2>4, <2>5, <2>6
<1> QED BY <1>1, CtlStarts, StepKeepsCtl, PTL DEF Spec, StartsOnlyWanted

-----------------------------------------------------------------------------
(* A log-out that waits for the end of a session.                           *)

\* While a log-out is pending no other click is queued: it is the last call.
LogoutLast(c) == \A i \in DOMAIN c : c[i].name \in Logouts => i = Len(c)
KeptInv ==
    /\ calls \in Seq(Calls) /\ LogoutLast(calls)
    /\ owed => phase = "ending" /\ sender \in Logouts /\ calls = <<>>

LEMMA QueueKeepsLast ==
    ASSUME NEW c \in Calls, calls \in Seq(Calls), \A i \in DOMAIN calls : calls[i].name \notin Logouts
    PROVE  Append(calls, c) \in Seq(Calls) /\ LogoutLast(Append(calls, c))
BY DEF LogoutLast

LEMMA TakeKeepsLast ==
    ASSUME NEW name, KeptInv, Take(name)
    PROVE  /\ calls' \in Seq(Calls) /\ LogoutLast(calls') /\ ~owed
           /\ name \in Logouts => calls' = <<>>
<1>1. calls \in Seq(Calls) /\ calls # <<>> /\ calls' = Tail(calls) /\ calls[1].name = name
  BY DEF Take, KeptInv
<1>2. Len(calls) \in Nat /\ Len(calls) > 0 /\ Len(calls') = Len(calls) - 1 /\ calls' \in Seq(Calls)
  BY <1>1
<1>3. \A i \in DOMAIN calls' : i + 1 \in DOMAIN calls /\ calls'[i] = calls[i + 1]
  BY <1>1, <1>2
<1>4. LogoutLast(calls')
  <2> SUFFICES ASSUME NEW i \in DOMAIN calls', calls'[i].name \in Logouts PROVE i = Len(calls')
    BY DEF LogoutLast
  <2>1. i + 1 = Len(calls)
    BY <1>3 DEF KeptInv, LogoutLast
  <2>2. i \in Nat
    BY <1>2
  <2> QED BY <1>2, <2>1, <2>2
<1>5. ASSUME name \in Logouts PROVE calls' = <<>>
  <2>1. 1 = Len(calls)
    BY <1>1, <1>2, <1>5 DEF KeptInv, LogoutLast
  <2> QED BY <1>1, <1>2, <2>1
<1> QED BY <1>1, <1>2, <1>4, <1>5 DEF KeptInv

\* A slot that queues nothing, when no log-out waits.
LEMMA NotOwedKeepsKept ==
    ASSUME KeptInv, calls' = calls, ~owed'
    PROVE  KeptInv'
BY DEF KeptInv

LEMMA QuietKeepsKept ==
    ASSUME KeptInv, UNCHANGED <<session, calls, sender, owed>>
    PROVE  KeptInv'
BY DEF KeptInv, session

LEMMA SlotKeepsKept ==
    ASSUME KeptInv, OtherSlot, Continue \/ UNCHANGED session
    PROVE  KeptInv'
<1>1. UNCHANGED <<calls, sender, owed>>
  BY DEF OtherSlot, clicks
<1>2. CASE UNCHANGED session
  BY <1>1, <1>2, QuietKeepsKept
<1>3. CASE Continue
  <2>1. ~owed
    BY <1>3 DEF KeptInv, Continue, Running
  <2> QED BY <1>1, <2>1, NotOwedKeepsKept
<1> QED BY <1>2, <1>3

\* A click finds no log-out pending and becomes the last call.
LEMMA ClickKeepsKept ==
    ASSUME LogoutExclusive, KeptInv, MayClick, NEW name, NEW l, Call(name, l) \in Calls,
           Queue(name, l), UNCHANGED <<session, sender, owed>>
    PROVE  KeptInv'
<1>1. ~owed /\ \A i \in DOMAIN calls : calls[i].name \notin Logouts
  BY DEF MayClick, LogoutPending, Logouts
<1>2. calls' = Append(calls, Call(name, l)) /\ owed' = owed
  BY DEF Queue
<1>3. calls' \in Seq(Calls) /\ LogoutLast(calls')
  BY <1>1, <1>2, QueueKeepsLast DEF KeptInv
<1> QED BY <1>1, <1>2, <1>3 DEF KeptInv

LEMMA StepKeepsKept ==
    ASSUME LogoutExclusive, CtlInv, KeptInv, [Next]_evars
    PROVE  KeptInv'
<1>a. ASSUME calls' \in Seq(Calls), LogoutLast(calls'), ~owed' PROVE KeptInv'
  BY <1>a DEF KeptInv
<1>b. phase # "ending" => ~owed /\ sender = "none"
  BY DEF KeptInv, CtlInv
<1>1. ASSUME NEW l \in Locations, ConnectClick(l) PROVE KeptInv'
  <2>1. Call("connect", l) \in Calls
    BY DEF Call, Calls
  <2> QED BY <1>1, <2>1, ClickKeepsKept DEF ConnectClick
<1>2. CASE DisconnectClick
  <2>1. Call("disconnect", "none") \in Calls
    BY DEF Call, Calls
  <2> QED BY <1>2, <2>1, ClickKeepsKept DEF DisconnectClick
<1>3. ASSUME NEW name \in Logouts, LogoutClick(name) PROVE KeptInv'
  <2>1. Call(name, "none") \in Calls
    BY DEF Call, Calls, Logouts
  <2> QED BY <1>3, <2>1, ClickKeepsKept DEF LogoutClick
<1>4. CASE SessionMoves
  <2>1. CASE Continue
    BY <1>4, <2>1, SlotKeepsKept DEF SessionMoves
  <2>2. CASE Decide
    <3>1. ~owed /\ owed' = owed /\ calls' = calls
      BY <1>4, <2>2, <1>b DEF SessionMoves, OtherSlot, clicks, Decide, Running
    <3> QED BY <3>1, NotOwedKeepsKept
  <2> QED BY <1>4, <2>1, <2>2 DEF SessionMoves
<1>5. CASE LoginOk
  BY <1>5, QuietKeepsKept DEF LoginOk, clicks
<1>6. ASSUME NEW ans \in HelperAnswers, ConnectCall(ans) PROVE KeptInv'
  <2>1. calls' \in Seq(Calls) /\ LogoutLast(calls') /\ ~owed
    BY <1>6, TakeKeepsLast DEF ConnectCall
  <2>2. Stopped("reconnect") \/ Still \/ Begun(sender)
    BY <1>6, ConnectClickLeaves DEF ConnectCall
  <2>3. ~owed'
    BY <2>1, <2>2 DEF Stopped, Over, Still, Begun, Logouts
  <2> QED BY <2>1, <2>3, <1>a
<1>7. ASSUME NEW ans \in HelperAnswers, Redial(ans) PROVE KeptInv'
  <2>1. phase = "off" /\ ~owed /\ calls' = calls
    BY <1>7, <1>b DEF Redial, CtlInv
  <2>2. Still \/ Begun(sender)
    BY <1>7, <2>1, ConnectClickLeaves DEF Redial
  <2>3. ~owed'
    BY <2>1, <2>2 DEF Still, Begun
  <2> QED BY <2>1, <2>3, NotOwedKeepsKept
<1>8. ASSUME NEW ans \in HelperAnswers, DisconnectClickImpl(ans) PROVE KeptInv'
  <2>1. calls' \in Seq(Calls) /\ LogoutLast(calls') /\ ~owed
    BY <1>8, TakeKeepsLast DEF DisconnectClickImpl
  <2>2. Stopped("none")
    BY <1>8, StopLeaves DEF DisconnectClickImpl
  <2>3. ~owed'
    BY <2>1, <2>2 DEF Stopped, Over, Logouts
  <2> QED BY <2>1, <2>3, <1>a
<1>9. ASSUME NEW ans \in HelperAnswers, NEW name \in Logouts, LogoutImpl(name, ans) PROVE KeptInv'
  <2>1. calls' \in Seq(Calls) /\ LogoutLast(calls') /\ calls' = <<>> /\ ~owed
    BY <1>9, TakeKeepsLast DEF LogoutImpl
  <2>2. CASE Stopped(name)
    BY <2>1, <2>2 DEF Stopped, Over, KeptInv
  <2>3. CASE (\E off \in HelperAnswers : LogoutImplAfterDisconnect(fw, name = "logoutKeep", off))
    BY <2>1, <2>3, <1>a DEF LogoutImplAfterDisconnect
  <2> QED BY <1>9, <2>2, <2>3, StopLeaves DEF LogoutImpl
<1>10. ASSUME NEW ans \in HelperAnswers,
              FirewallOnImpl(ans) \/ FirewallOffImpl(ans) \/ OnHostIPsChanged(ans)
              \/ ConnectingToHostname(ans) \/ InterfaceUpdated(ans) \/ Reconnecting(ans)
       PROVE  KeptInv'
  BY <1>10, SlotKeepsKept DEF FirewallOnImpl, FirewallOffImpl, OnHostIPsChanged,
     ConnectingToHostname, InterfaceUpdated, Reconnecting
<1>11. ASSUME NEW ans \in HelperAnswers, NEW m \in Modes, SetSettings(m, ans) PROVE KeptInv'
  BY <1>11, SlotKeepsKept DEF SetSettings
<1>12. ASSUME NEW ans \in HelperAnswers, NEW allow \in BOOLEAN, Connected(allow, ans) PROVE KeptInv'
  BY <1>12, SlotKeepsKept DEF Connected
\* The end of a session carries out the log-out that waits for it.
<1>13. ASSUME NEW ans \in HelperAnswers, SessionEnded(ans) PROVE KeptInv'
  <2> SUFFICES ~owed'
    BY <1>13, NotOwedKeepsKept DEF SessionEnded
  <2>1. owed => phase = "ending" /\ decided = "user" /\ sender \in Logouts
    BY DEF KeptInv, CtlInv, Logouts
  <2>2. CASE ReportOutcome /\ owed
    <3>1. ~question' /\ told' = <<"user">>
      BY <2>1, <2>2 DEF ReportOutcome, Asking
    <3>2. told' # <<"error">>
      BY <3>1
    <3>3. OnOutcome(fw, sender, ans)
      BY <1>13, <3>1, <3>2 DEF SessionEnded
    <3> QED BY <2>1, <2>2, <3>2, <3>3, OutcomeLeaves DEF Over
  <2>3. CASE ~owed
    <3>1. OnAuthError(ans) \/ OnOutcome(fw, sender, ans)
      BY <1>13 DEF SessionEnded
    <3> QED BY <2>3, <3>1, OutcomeLeaves DEF OnAuthError, Over
  <2>4. EndAtOnce => ~owed
    BY <2>1 DEF EndAtOnce, Running
  <2> QED BY <1>13, <2>2, <2>3, <2>4 DEF SessionEnded
<1>14. ASSUME NEW ans \in HelperAnswers, AnswerQuestion(ans) PROVE KeptInv'
  <2>1. ~owed /\ sender = "none" /\ calls' = calls
    BY <1>14, <1>b DEF AnswerQuestion, CtlInv
  <2>2. Begun(sender) \/ Stopped(sender)
    BY <1>14, StartLeaves, StopLeaves DEF AnswerQuestion
  <2>3. ~owed'
    BY <2>1, <2>2 DEF Begun, Stopped, Over, Logouts
  <2> QED BY <2>1, <2>3, NotOwedKeepsKept
<1>15. ASSUME NEW ans \in HelperAnswers, ServerCredentialsFetched(ans) PROVE KeptInv'
  <2>1. calls' = calls
    BY <1>15 DEF ServerCredentialsFetched
  <2>2. CASE phase = "off" /\ DoConnect(fw, loc, FALSE, ans)
    <3>1. ~owed'
      BY <1>b, <2>2, ConnectLeaves DEF Begun, Still
    <3> QED BY <2>1, <3>1, NotOwedKeepsKept
  <2>3. CASE UNCHANGED <<session, sender, owed>>
    BY <2>1, <2>3, QuietKeepsKept
  <2> QED BY <1>15, <2>2, <2>3 DEF ServerCredentialsFetched
<1>16. CASE UNCHANGED evars
  BY <1>16, QuietKeepsKept DEF evars, clicks
<1> QED
  BY <1>1, <1>2, <1>3, <1>4, <1>5, <1>6, <1>7, <1>8, <1>9, <1>10, <1>11, <1>12, <1>13, <1>14,
     <1>15, <1>16 DEF Next, AnswersToOn, Logouts

\* A log-out that waits for the end of the session is carried out by that end,
\* as long as the front ends accept no click in between.
THEOREM LogoutsAreKept ==
    ASSUME LogoutExclusive
    PROVE  Spec => []LogoutIsKept
<1>1. Init => KeptInv
  <2> SUFFICES ASSUME Init PROVE KeptInv OBVIOUS
  <2>1. calls = <<>> /\ owed = FALSE
    BY DEF Init
  <2> QED BY <2>1 DEF KeptInv, LogoutLast
<1>2. KeptInv => LogoutIsKept
  BY DEF KeptInv, LogoutIsKept
<1>3. CtlInv /\ KeptInv /\ [Next]_evars => KeptInv'
  BY StepKeepsKept
<1> QED BY <1>1, <1>2, <1>3, CtlStarts, StepKeepsCtl, PTL DEF Spec

-----------------------------------------------------------------------------
(* The engine and the abstract session                                     *)

\* The engine moves a session only by the steps of VpnSession.
LEMMA StopIsSession ==
    ASSUME NEW mark, NEW ans, ClickDisconnect(mark, ans)
    PROVE  [SessionNext]_svars
BY DEF ClickDisconnect, session, svars, SessionNext

\* A request to connect begins a session, or does nothing to it.
LEMMA ConnectIsSession ==
    ASSUME NEW f, NEW l, NEW auth, NEW ans, DoConnect(f, l, auth, ans)
    PROVE  [SessionNext]_svars
BY DEF DoConnect, StartSession, session, svars, SessionNext

\* A click to connect stops the session that runs, or begins one.
LEMMA ConnectClickIsSession ==
    ASSUME NEW l, NEW ans, ConnectClickImpl(l, ans)
    PROVE  [SessionNext]_svars
BY StopIsSession, ConnectIsSession DEF ConnectClickImpl, session, svars

\* Every step of the engine is a step of the session, or none.
LEMMA StepIsSession == [Next]_evars => [SessionNext]_svars
<1>. SUFFICES ASSUME [Next]_evars PROVE [SessionNext]_svars
  OBVIOUS
<1>0. UNCHANGED session => [SessionNext]_svars
  BY DEF session, svars
<1>1. ASSUME NEW l \in Locations, ConnectClick(l) PROVE [SessionNext]_svars
  BY <1>0, <1>1 DEF ConnectClick
<1>2. ASSUME DisconnectClick \/ LoginOk \/ \E name \in Logouts : LogoutClick(name)
      PROVE  [SessionNext]_svars
  BY <1>0, <1>2 DEF DisconnectClick, LoginOk, LogoutClick
<1>3. CASE SessionMoves
  BY <1>3 DEF SessionMoves, SessionNext
<1>4. ASSUME NEW ans, ConnectCall(ans) \/ Redial(ans) PROVE [SessionNext]_svars
  BY <1>4, ConnectClickIsSession DEF ConnectCall, Redial
<1>5. ASSUME NEW ans, DisconnectClickImpl(ans) PROVE [SessionNext]_svars
  BY <1>5, StopIsSession DEF DisconnectClickImpl
<1>6. ASSUME NEW ans, NEW name, LogoutImpl(name, ans) PROVE [SessionNext]_svars
  BY <1>0, <1>6, StopIsSession DEF LogoutImpl
<1>7. ASSUME NEW ans, FirewallOnImpl(ans) \/ FirewallOffImpl(ans) \/ OnHostIPsChanged(ans)
             \/ ConnectingToHostname(ans) \/ InterfaceUpdated(ans) \/ \E m \in Modes : SetSettings(m, ans)
      PROVE  [SessionNext]_svars
  BY <1>0, <1>7 DEF FirewallOnImpl, FirewallOffImpl, OnHostIPsChanged, ConnectingToHostname,
     InterfaceUpdated, SetSettings
<1>8. ASSUME NEW ans, Reconnecting(ans) \/ \E allow \in BOOLEAN : Connected(allow, ans)
      PROVE  [SessionNext]_svars
  BY <1>8 DEF Reconnecting, Connected, SessionNext
<1>9. ASSUME NEW ans, SessionEnded(ans) PROVE [SessionNext]_svars
  BY <1>9 DEF SessionEnded, SessionNext
<1>10. ASSUME NEW ans, AnswerQuestion(ans) PROVE [SessionNext]_svars
  BY <1>10, StopIsSession DEF AnswerQuestion, StartSession, SessionNext
<1>11. ASSUME NEW ans, ServerCredentialsFetched(ans) PROVE [SessionNext]_svars
  BY <1>0, <1>11, ConnectIsSession DEF ServerCredentialsFetched
<1>12. CASE UNCHANGED evars
  BY <1>0, <1>12 DEF evars
<1>. QED
  BY <1>1, <1>2, <1>3, <1>4, <1>5, <1>6, <1>7, <1>8, <1>9, <1>10, <1>11, <1>12 DEF Next, AnswersToOn, Logouts

\* Whatever the front ends click and the API answers, the engine starts, stops
\* and hears of a session only as the manager's interface provides: it never
\* starts one that runs, and takes one report of an end for one end.
THEOREM EngineUsesSession == Spec => SessionSpec
<1>1. Init => SessionInit
  BY DEF Init
<1>. QED
  BY <1>1, StepIsSession, PTL DEF Spec, SessionSpec

\* The type invariant of the session, in the engine.
LEMMA SessionTyped == Spec => []SInv
<1>1. "user" \in Outcomes
  BY EngineAssumption
<1>2. Init => SInv
  BY SessionStarts DEF Init
<1>3. SInv /\ [Next]_evars => SInv'
  BY <1>1, StepIsSession, SessionSteps
<1>. QED
  BY <1>2, <1>3, PTL DEF Spec

-----------------------------------------------------------------------------
(* The types of the rest.  A queued connect names a location.               *)

\* The flags are Boolean.
Flags == redial \in BOOLEAN /\ fetching \in BOOLEAN /\ due \in BOOLEAN /\ emitAuth \in BOOLEAN
         /\ loggedIn \in BOOLEAN /\ owed \in BOOLEAN /\ wanted \in BOOLEAN

\* The locations are kinds a user may choose.
Places == loc \in Locations /\ node \in Locations

\* A queued connect names a location.
Queued == calls \in Seq(Calls) /\ \A i \in DOMAIN calls : calls[i].name = "connect" => calls[i].loc \in Locations

\* The types of what the engine adds to the session and the firewall.
EType ==
    /\ Flags /\ Places /\ Queued
    /\ ctl \in ConnectStates /\ sender \in Senders /\ mode \in Modes

\* What the slots the manager calls may leave.
Passed == redial' \in BOOLEAN /\ loggedIn' \in BOOLEAN /\ owed' \in BOOLEAN
          /\ ctl' \in ConnectStates /\ sender' \in Senders

\* The end of a session leaves values of their types.
LEMMA DisconnectedTyped ==
    ASSUME EType, NEW f, NEW reason, NEW mark, NEW ans, OnDisconnected(f, reason, mark, ans)
    PROVE  Passed
BY DEF OnDisconnected, LogoutImplAfterDisconnect, SetDisconnected, EType, Flags, Passed, ConnectStates, Senders

\* So does any outcome.
LEMMA OutcomeTyped ==
    ASSUME EType, NEW f, NEW mark, NEW ans, OnOutcome(f, mark, ans)
    PROVE  Passed
<1>1. CASE OnError(f, ans)
  BY <1>1 DEF OnError, SetDisconnected, EType, Flags, Passed, ConnectStates
<1>2. CASE \E reason \in Outcomes : OnDisconnected(f, reason, mark, ans)
  BY <1>2, DisconnectedTyped
<1>. QED
  BY <1>1, <1>2 DEF OnOutcome

\* So does a stop.
LEMMA StopTyped ==
    ASSUME EType, NEW mark \in Senders, NEW ans, ClickDisconnect(mark, ans)
    PROVE  Passed
<1>1. CASE Stopping(mark) /\ UNCHANGED <<ctl, redial, loggedIn, firewall>>
  BY <1>1 DEF Stopping, EType, Flags, Passed
<1>2. CASE OnDisconnected(fw, "user", mark, ans)
  BY <1>2, DisconnectedTyped
<1>. QED
  BY <1>1, <1>2 DEF ClickDisconnect

\* So does the start of a session.
LEMMA StartTyped ==
    ASSUME EType, NEW f, NEW ans, StartSession(f, ans)
    PROVE  Passed
<1>1. CASE redial' = FALSE /\ UNCHANGED <<ctl, exempt, sender, loggedIn, owed>>
  BY <1>1 DEF EType, Flags, Passed
<1>2. CASE OnOutcome(f, sender, ans)
  BY <1>2, OutcomeTyped
<1>. QED
  BY <1>1, <1>2 DEF StartSession

\* So does a request to connect.
LEMMA ConnectTyped ==
    ASSUME EType, NEW f, NEW l \in Locations, NEW auth \in BOOLEAN, NEW ans, DoConnect(f, l, auth, ans)
    PROVE  Passed /\ node' \in Locations /\ emitAuth' \in BOOLEAN
<1>1. CASE SetDisconnected /\ redial' = FALSE /\ UNCHANGED <<node, emitAuth, sender, loggedIn, owed>>
  BY <1>1 DEF SetDisconnected, EType, Flags, Places, Passed, ConnectStates
<1>2. CASE node' = l /\ emitAuth' = auth /\ StartSession(f, ans)
  BY <1>2, StartTyped
<1>. QED
  BY <1>1, <1>2 DEF DoConnect

\* So does a click to connect.
LEMMA ConnectClickTyped ==
    ASSUME EType, NEW l \in Locations, NEW ans, ConnectClickImpl(l, ans), calls' \in Seq(Calls), Queued', wanted' \in BOOLEAN
    PROVE  EType'
<1>1. loc' \in Locations /\ due' \in BOOLEAN /\ mode' \in Modes
  BY DEF ConnectClickImpl, EType, Flags
<1>2. CASE ClickDisconnect("reconnect", ans) /\ UNCHANGED <<fetching, node, emitAuth>>
  BY <1>1, <1>2, StopTyped DEF EType, Flags, Places, Passed, Senders
<1>3. CASE SetDisconnected /\ redial' = FALSE /\ fetching' \in {fetching, FALSE}
           /\ UNCHANGED <<node, emitAuth, sender, loggedIn, owed>>
  BY <1>1, <1>3 DEF SetDisconnected, EType, Flags, Places, ConnectStates
<1>4. CASE /\ fetching' = FALSE
           /\ \E before \in AnswersToOn : DoConnect(FirewallBeforeConnection(before), l, TRUE, ans)
  BY <1>1, <1>4, ConnectTyped DEF EType, Flags, Places, Passed
<1>. QED
  BY <1>2, <1>3, <1>4 DEF ConnectClickImpl

\* A call that is taken leaves the others.
LEMMA TakeTyped ==
    ASSUME Queued, NEW name, Take(name)
    PROVE  Queued' /\ (name = "connect" => Head(calls).loc \in Locations)
<1>1. calls \in Seq(Calls) /\ calls # <<>> /\ calls' = Tail(calls) /\ Head(calls) = calls[1]
  BY DEF Take, Queued
<1>2. calls' \in Seq(Calls) /\ \A i \in DOMAIN calls' : i + 1 \in DOMAIN calls /\ calls'[i] = calls[i + 1]
  BY <1>1
<1>3. 1 \in DOMAIN calls
  BY <1>1
<1>. QED
  BY <1>1, <1>2, <1>3 DEF Queued, Take

\* A call that is queued leaves the others.
LEMMA QueueTyped ==
    ASSUME Queued, NEW name, NEW l, Call(name, l) \in Calls, name = "connect" => l \in Locations, Queue(name, l)
    PROVE  Queued'
<1>. DEFINE c == Call(name, l)
<1>1. c.name = name /\ c.loc = l /\ c \in Calls
  BY DEF Call
<1>2. calls' = Append(calls, c)
  BY DEF Queue
<1>. HIDE DEF c
<1>3. /\ calls' \in Seq(Calls) /\ DOMAIN calls' = DOMAIN calls \cup {Len(calls) + 1}
      /\ calls'[Len(calls) + 1] = c /\ \A i \in DOMAIN calls : calls'[i] = calls[i]
  BY <1>1, <1>2 DEF Queued
<1>. QED
  BY <1>1, <1>3 DEF Queued

\* Slots that queue nothing.
LEMMA SlotTyped ==
    ASSUME EType, OtherSlot, ctl' \in ConnectStates, UNCHANGED request, mode' \in Modes
    PROVE  EType'
BY DEF OtherSlot, clicks, request, EType, Flags, Places, Queued

\* Every step keeps the types.
LEMMA StepTyped == EType /\ [Next]_evars => EType'
<1>. SUFFICES ASSUME EType, [Next]_evars PROVE EType'
  OBVIOUS
<1>. USE DEF ConnectStates
<1>0. Flags /\ Places /\ Queued /\ ctl \in ConnectStates /\ sender \in Senders /\ mode \in Modes
  BY DEF EType
<1>a. ASSUME Queued', Passed, UNCHANGED <<loc, request, wanted, mode>> PROVE EType'
  BY <1>0, <1>a DEF EType, Flags, Places, Passed, request
<1>1. ASSUME NEW l \in Locations, ConnectClick(l) PROVE EType'
  <2>1. Queued'
    BY <1>0, <1>1, QueueTyped DEF ConnectClick, Call, Calls
  <2>. QED
    BY <1>0, <1>1, <2>1 DEF ConnectClick, SetConnecting, EType, Flags, Places, request
<1>2. CASE DisconnectClick
  <2>1. Queued'
    BY <1>0, <1>2, QueueTyped DEF DisconnectClick, Call, Calls
  <2>. QED
    BY <1>0, <1>2, <2>1 DEF DisconnectClick, SetDisconnecting, EType, Flags, Places, request
<1>3. ASSUME NEW name \in Logouts, LogoutClick(name) PROVE EType'
  <2>1. Queued'
    BY <1>0, <1>3, QueueTyped DEF LogoutClick, Call, Calls, Logouts
  <2>. QED
    BY <1>0, <1>3, <2>1 DEF LogoutClick, EType, Flags, Places, request
<1>4. CASE SessionMoves
  BY <1>0, <1>4, SlotTyped DEF SessionMoves
<1>5. CASE LoginOk
  BY <1>0, <1>5 DEF LoginOk, clicks, EType, Flags, Places, Queued
<1>6. ASSUME NEW ans \in HelperAnswers, ConnectCall(ans) PROVE EType'
  BY <1>0, <1>6, TakeTyped, ConnectClickTyped DEF ConnectCall, Queued
<1>7. ASSUME NEW ans \in HelperAnswers, Redial(ans) PROVE EType'
  <2>1. Queued' /\ wanted' \in BOOLEAN
    BY <1>0, <1>7 DEF Redial, Queued, Flags
  <2>. QED
    BY <1>0, <1>7, <2>1, ConnectClickTyped DEF Redial, Places, Queued
<1>8. ASSUME NEW ans \in HelperAnswers, DisconnectClickImpl(ans) PROVE EType'
  <2>1. Queued' /\ Passed
    BY <1>8, <1>0, TakeTyped, StopTyped DEF DisconnectClickImpl, Senders
  <2>. QED
    BY <1>0, <1>8, <2>1 DEF DisconnectClickImpl, EType, Flags, Places, Passed
<1>9. ASSUME NEW ans \in HelperAnswers, NEW name \in Logouts, LogoutImpl(name, ans) PROVE EType'
  <2>1. Queued' /\ wanted' = FALSE /\ UNCHANGED <<loc, request, mode>>
    BY <1>0, <1>9, TakeTyped DEF LogoutImpl
  <2>2. name \in Senders
    BY DEF Logouts, Senders
  <2>3. Passed
    <3>1. CASE ClickDisconnect(name, ans)
      BY <2>2, <3>1, StopTyped
    <3>2. CASE (\E off \in HelperAnswers : LogoutImplAfterDisconnect(fw, name = "logoutKeep", off)) /\ UNCHANGED <<ctl, sender, redial>>
      BY <1>0, <3>2 DEF LogoutImplAfterDisconnect, Passed, Flags
    <3>. QED
      BY <1>9, <3>1, <3>2 DEF LogoutImpl
  <2>. QED
    BY <1>0, <2>1, <2>3 DEF EType, Flags, Places, Passed, request
<1>10. ASSUME NEW ans \in HelperAnswers, FirewallOnImpl(ans) \/ FirewallOffImpl(ans) \/ OnHostIPsChanged(ans)
             \/ InterfaceUpdated(ans) \/ \E m \in Modes : SetSettings(m, ans)
      PROVE  EType'
  BY <1>0, <1>10, SlotTyped DEF FirewallOnImpl, FirewallOffImpl, OnHostIPsChanged, InterfaceUpdated, SetSettings
<1>11. ASSUME NEW ans \in HelperAnswers, ConnectingToHostname(ans) \/ Reconnecting(ans)
              \/ \E allow \in BOOLEAN : Connected(allow, ans)
       PROVE  EType'
  BY <1>0, <1>11, SlotTyped DEF ConnectingToHostname, Reconnecting, Connected, SetConnecting, SetConnected
<1>12. ASSUME NEW ans \in HelperAnswers, SessionEnded(ans) PROVE EType'
  <2>1. Queued' /\ UNCHANGED <<loc, node, emitAuth, wanted, mode>>
    BY <1>0, <1>12 DEF SessionEnded, Queued
  <2>2. CASE OnAuthError(ans)
    <3>1. fetching' \in BOOLEAN /\ due' \in BOOLEAN /\ ctl' \in ConnectStates /\ UNCHANGED <<sender, redial, loggedIn, owed>>
      BY <1>0, <2>2 DEF OnAuthError, SetDisconnected, Flags
    <3>. QED
      BY <1>0, <2>1, <3>1 DEF EType, Flags, Places
  <2>3. CASE OnOutcome(fw, sender, ans) /\ UNCHANGED <<fetching, due>>
    <3>1. Passed
      BY <2>3, OutcomeTyped
    <3>. QED
      BY <1>0, <2>1, <2>3, <3>1 DEF EType, Flags, Places, Passed
  <2>. QED
    BY <1>12, <2>2, <2>3 DEF SessionEnded
<1>13. ASSUME NEW ans \in HelperAnswers, AnswerQuestion(ans) PROVE EType'
  <2>1. Queued' /\ wanted' \in BOOLEAN /\ UNCHANGED <<loc, request, mode>>
    BY <1>0, <1>13 DEF AnswerQuestion, Queued
  <2>2. Passed
    BY <1>0, <1>13, StartTyped, StopTyped DEF AnswerQuestion
  <2>. QED
    BY <1>0, <2>1, <2>2 DEF EType, Flags, Places, Passed, request
<1>14. ASSUME NEW ans \in HelperAnswers, ServerCredentialsFetched(ans) PROVE EType'
  <2>1. Queued' /\ due' = FALSE /\ fetching' = FALSE /\ UNCHANGED <<loc, wanted, mode>>
    BY <1>0, <1>14 DEF ServerCredentialsFetched, Queued
  <2>2. CASE DoConnect(fw, loc, FALSE, ans)
    <3>1. Passed /\ node' \in Locations /\ emitAuth' \in BOOLEAN
      BY <1>0, <2>2, ConnectTyped DEF Places
    <3>. QED
      BY <1>0, <2>1, <3>1 DEF EType, Flags, Places, Passed
  <2>3. CASE UNCHANGED <<ctl, sender, redial, node, emitAuth, loggedIn, owed>>
    BY <1>0, <2>1, <2>3 DEF EType, Flags, Places
  <2>. QED
    BY <1>14, <2>2, <2>3 DEF ServerCredentialsFetched
<1>15. CASE UNCHANGED evars
  BY <1>0, <1>15 DEF evars, clicks, request, EType, Flags, Places, Queued
<1>. QED
  BY <1>1, <1>2, <1>3, <1>4, <1>5, <1>6, <1>7, <1>8, <1>9, <1>10, <1>11, <1>12, <1>13, <1>14, <1>15
     DEF Next, AnswersToOn, Logouts

\* The engine begins with values of their types.
LEMMA InitTyped == Init => EType
<1>. SUFFICES ASSUME Init PROVE EType
  OBVIOUS
<1>1. calls = <<>>
  BY DEF Init
<1>2. Queued
  BY <1>1 DEF Queued
<1>. QED
  BY <1>2 DEF Init, EType, Flags, Places, ConnectStates, Senders

\* The engine's state has its type; a queued connect names a location.
THEOREM EngineTyped == Spec => []TypeOK
<1>1. SInv /\ EType /\ FwInv => TypeOK
  BY DEF SInv, EType, Flags, Places, Queued, FwInv, Latched, TypeOK
<1>2. Spec => []FwInv
  BY AlwaysLatched
<1>3. Spec => []EType
  BY InitTyped, StepTyped, PTL DEF Spec
<1>. QED
  BY <1>1, <1>2, <1>3, SessionTyped, PTL

\* The queue holds nothing that is going to publish another state.
OnlyLogouts(c) == \A i \in DOMAIN c : c[i].name \in Logouts

\* Nothing is going on in the manager, and nothing that publishes is queued.
OverIsPublished ==
    phase = "off" /\ ~redial /\ ~question /\ ~fetching /\ OnlyLogouts(calls) => ctl = "disconnected"

\* A tunnel that is up is published, but for a click whose work is queued.
UpIsPublished == phase = "up" /\ calls = <<>> => ctl = "connected"

\* A session that the user has not stopped is one the account may have, so
\* that wrong credentials of the API are fetched again.
Entitled ==
    /\ phase \in Running \/ (phase = "ending" /\ decided # "user") => node = "custom" \/ loggedIn
    /\ question => node = "custom"

\* The inductive invariant of what is published.
PubInv == ConnectedIsUp /\ UpIsPublished /\ OverIsPublished /\ Entitled

\* The end of a session is published, unless it is to be redialed.
Gone == (exempt' = "none" \/ ctl' = "disconnected") /\ (redial' \/ ctl' = "disconnected")

\* onConnectionManagerDisconnected() publishes the end or redials.
LEMMA DisconnectedGone ==
    ASSUME NEW f, NEW reason, NEW mark, NEW ans, OnDisconnected(f, reason, mark, ans)
    PROVE  Gone
BY DEF OnDisconnected, SetDisconnected, Gone

\* So does any outcome.
LEMMA OutcomeGone ==
    ASSUME NEW f, NEW mark, NEW ans, OnOutcome(f, mark, ans)
    PROVE  Gone
BY DisconnectedGone DEF OnOutcome, OnError, SetDisconnected, Gone

\* That suffices for the invariant.
LEMMA GonePublished ==
    ASSUME Gone, phase' = "off", ~question'
    PROVE  PubInv'
BY DEF Gone, PubInv, ConnectedIsUp, UpIsPublished, OverIsPublished, Entitled, Running

\* A stop leaves a session that is ending, or one that is over and published.
LEMMA StopPublished ==
    ASSUME CtlInv, NEW mark, NEW ans, ClickDisconnect(mark, ans)
    PROVE  PubInv'
<1>1. Stopped(mark)
  BY StopLeaves
<1>2. CASE phase' = "ending"
  <2>1. decided' = "user" /\ ~question'
    BY <1>1, <1>2 DEF Stopped, CtlInv
  <2>. QED
    BY <1>2, <2>1 DEF PubInv, ConnectedIsUp, UpIsPublished, OverIsPublished, Entitled, Running
<1>3. CASE phase' # "ending"
  <2>1. Gone
    BY <1>3, DisconnectedGone DEF ClickDisconnect, Decide, StopByUser, session
  <2>. QED
    BY <1>1, <1>3, <2>1, GonePublished DEF Stopped
<1>. QED
  BY <1>2, <1>3

\* The start of a session publishes nothing, and none was published.
LEMMA StartPublished ==
    ASSUME PubInv, NEW f, NEW ans, StartSession(f, ans), node' = "custom" \/ loggedIn
    PROVE  PubInv'
<1>1. phase = "off" /\ ~question'
  BY DEF StartSession, Begin
<1>2. CASE phase' = "trying" /\ UNCHANGED <<ctl, exempt, loggedIn>>
  BY <1>1, <1>2 DEF PubInv, ConnectedIsUp, UpIsPublished, OverIsPublished, Entitled
<1>3. CASE phase' = "off" /\ OnOutcome(f, sender, ans)
  BY <1>1, <1>3, OutcomeGone, GonePublished
<1>. QED
  BY <1>2, <1>3 DEF StartSession

\* doConnect() keeps the invariant.
LEMMA ConnectPublished ==
    ASSUME PubInv, phase = "off", NEW f, NEW l, NEW auth, NEW ans, DoConnect(f, l, auth, ans)
    PROVE  PubInv'
<1>1. CASE SetDisconnected /\ UNCHANGED <<session, node, exempt, loggedIn>>
  BY <1>1 DEF SetDisconnected, session, PubInv, ConnectedIsUp, UpIsPublished, OverIsPublished, Entitled, Running
<1>2. CASE (l = "custom" \/ loggedIn) /\ node' = l /\ StartSession(f, ans)
  BY <1>2, StartPublished
<1>. QED
  BY <1>1, <1>2 DEF DoConnect

\* connectClickImpl() keeps it.
LEMMA ConnectClickPublished ==
    ASSUME CtlInv, PubInv, NEW l, NEW ans, ConnectClickImpl(l, ans)
    PROVE  PubInv'
<1>1. CASE ClickDisconnect("reconnect", ans)
  BY <1>1, StopPublished
<1>2. CASE phase = "off" /\ SetDisconnected /\ UNCHANGED <<session, node, loggedIn, firewall>>
  BY <1>2 DEF SetDisconnected, session, firewall, PubInv, ConnectedIsUp, UpIsPublished, OverIsPublished,
     Entitled, Running
<1>3. CASE /\ phase = "off"
           /\ \E before \in AnswersToOn : DoConnect(FirewallBeforeConnection(before), l, TRUE, ans)
  BY <1>3, ConnectPublished
<1>. QED
  BY <1>1, <1>2, <1>3 DEF ConnectClickImpl

\* What leaves all of it alone.
LEMMA QuietPublished ==
    ASSUME PubInv, UNCHANGED <<session, ctl, calls, redial, node, fetching, exempt>>, loggedIn => loggedIn'
    PROVE  PubInv'
BY DEF session, PubInv, ConnectedIsUp, UpIsPublished, OverIsPublished, Entitled, OnlyLogouts, Running

\* A click publishes a state and queues the work, or queues a log-out.
LEMMA QueuePublished ==
    ASSUME Queued, PubInv, NEW name, NEW l, Call(name, l) \in Calls, Queue(name, l),
           UNCHANGED <<session, redial, node, fetching, exempt, loggedIn>>,
           \/ ctl' \in {"connecting", "disconnecting"} /\ name \notin Logouts
           \/ ctl' = ctl /\ name \in Logouts
    PROVE  PubInv'
<1>. DEFINE c == Call(name, l)
<1>1. c.name = name /\ c \in Calls /\ calls' = Append(calls, c)
  BY DEF Call, Queue
<1>. HIDE DEF c
<1>2. /\ calls' # <<>> /\ DOMAIN calls' = DOMAIN calls \cup {Len(calls) + 1}
      /\ calls'[Len(calls) + 1] = c /\ \A i \in DOMAIN calls : calls'[i] = calls[i]
  BY <1>1 DEF Queued
<1>3. OnlyLogouts(calls') => name \in Logouts /\ OnlyLogouts(calls)
  BY <1>1, <1>2 DEF OnlyLogouts
<1>4. ConnectedIsUp' /\ UpIsPublished' /\ Entitled'
  BY <1>2 DEF session, PubInv, ConnectedIsUp, UpIsPublished, Entitled, Running
<1>5. OverIsPublished'
  BY <1>3 DEF session, PubInv, OverIsPublished
<1>. QED
  BY <1>4, <1>5 DEF PubInv

\* Every step keeps what is published.
LEMMA StepPublished == EType /\ CtlInv /\ PubInv /\ [Next]_evars => PubInv'
<1>. SUFFICES ASSUME EType, CtlInv, PubInv, [Next]_evars PROVE PubInv'
  OBVIOUS
<1>0. Queued /\ node \in Locations
  BY DEF EType, Places
<1>1. ASSUME NEW l \in Locations, ConnectClick(l) PROVE PubInv'
  BY <1>0, <1>1, QueuePublished DEF ConnectClick, SetConnecting, Call, Calls, Logouts, request, firewall
<1>2. CASE DisconnectClick
  BY <1>0, <1>2, QueuePublished DEF DisconnectClick, SetDisconnecting, Call, Calls, Logouts, request, firewall
<1>3. ASSUME NEW name \in Logouts, LogoutClick(name) PROVE PubInv'
  BY <1>0, <1>3, QueuePublished DEF LogoutClick, Call, Calls, Logouts, request, firewall
<1>4. CASE SessionMoves
  <2>1. UNCHANGED <<ctl, calls, redial, node, fetching, exempt, loggedIn, question>>
    BY <1>4 DEF SessionMoves, OtherSlot, clicks, request, firewall, Continue, Decide
  <2>2. CASE Continue /\ {phase, phase'} = {"trying", "parked"}
    <3>1. phase \in {"trying", "parked"} /\ phase' \in {"trying", "parked"}
      BY <2>2
    <3>. QED
      BY <2>1, <3>1 DEF PubInv, ConnectedIsUp, UpIsPublished, OverIsPublished, Entitled, Running
  <2>3. CASE Decide
    BY <2>1, <2>3 DEF Decide, PubInv, ConnectedIsUp, UpIsPublished, OverIsPublished, Entitled, Running
  <2>. QED
    BY <1>4, <2>2, <2>3 DEF SessionMoves
<1>5. CASE LoginOk
  BY <1>5, QuietPublished DEF LoginOk, clicks, firewall
<1>6. ASSUME NEW ans \in HelperAnswers, ConnectCall(ans) \/ Redial(ans) PROVE PubInv'
  BY <1>6, ConnectClickPublished DEF ConnectCall, Redial
<1>7. ASSUME NEW ans \in HelperAnswers, DisconnectClickImpl(ans) PROVE PubInv'
  BY <1>7, StopPublished DEF DisconnectClickImpl
<1>8. ASSUME NEW ans \in HelperAnswers, NEW name \in Logouts, LogoutImpl(name, ans) PROVE PubInv'
  <2>1. CASE ClickDisconnect(name, ans)
    BY <2>1, StopPublished
  <2>2. CASE phase = "off" /\ UNCHANGED <<session, ctl, redial, exempt>>
    <3>1. calls \in Seq(Calls) /\ calls # <<>> /\ calls' = Tail(calls) /\ calls[1].name = name
      BY <1>0, <1>8 DEF LogoutImpl, Take, Queued
    <3>2. \A i \in DOMAIN calls : i = 1 \/ (i - 1 \in DOMAIN calls' /\ calls'[i - 1] = calls[i])
      BY <3>1
    <3>3. OnlyLogouts(calls') => OnlyLogouts(calls)
      BY <3>1, <3>2 DEF OnlyLogouts
    <3>. QED
      BY <1>8, <2>2, <3>3
         DEF LogoutImpl, request, session, PubInv, ConnectedIsUp, UpIsPublished, OverIsPublished, Entitled, Running
  <2>. QED
    BY <1>8, <2>1, <2>2 DEF LogoutImpl
<1>9. ASSUME NEW ans \in HelperAnswers, FirewallOnImpl(ans) \/ FirewallOffImpl(ans) \/ OnHostIPsChanged(ans)
             \/ InterfaceUpdated(ans) \/ \E m \in Modes : SetSettings(m, ans)
      PROVE  PubInv'
  BY <1>9, QuietPublished DEF FirewallOnImpl, FirewallOffImpl, OnHostIPsChanged, InterfaceUpdated, SetSettings,
     OtherSlot, clicks, request
<1>10. ASSUME NEW ans \in HelperAnswers, ConnectingToHostname(ans) PROVE PubInv'
  <2>1. /\ phase' = "trying" /\ phase = "trying" /\ ctl' = "connecting"
        /\ UNCHANGED <<node, loggedIn, question>>
    BY <1>10 DEF ConnectingToHostname, SetConnecting, OtherSlot, session, request
  <2>. QED
    BY <2>1 DEF PubInv, ConnectedIsUp, UpIsPublished, OverIsPublished, Entitled, Running
<1>11. ASSUME NEW ans \in HelperAnswers, Reconnecting(ans) PROVE PubInv'
  <2>1. /\ phase' \in {"trying", "parked"} /\ phase \in Running /\ ctl' = "connecting"
        /\ UNCHANGED <<node, loggedIn, question>>
    BY <1>11 DEF Reconnecting, SetConnecting, OtherSlot, Continue, request
  <2>. QED
    BY <2>1 DEF PubInv, ConnectedIsUp, UpIsPublished, OverIsPublished, Entitled, Running
<1>12. ASSUME NEW ans \in HelperAnswers, NEW allow \in BOOLEAN, Connected(allow, ans) PROVE PubInv'
  <2>1. /\ phase' = "up" /\ phase \in Running /\ ctl' = "connected"
        /\ UNCHANGED <<node, loggedIn, question>>
    BY <1>12 DEF Connected, SetConnected, OtherSlot, Continue, request
  <2>. QED
    BY <2>1 DEF PubInv, ConnectedIsUp, UpIsPublished, OverIsPublished, Entitled, Running
<1>13. ASSUME NEW ans \in HelperAnswers, SessionEnded(ans) PROVE PubInv'
  <2>1. node' = node
    BY <1>13 DEF SessionEnded
  <2>2. CASE ReportOutcome /\ OnAuthError(ans) /\ (question' \/ (told' = <<"error">> /\ node # "custom"))
    <3>1. phase = "ending" /\ phase' = "off" /\ exempt' = "none"
      BY <2>2 DEF ReportOutcome, OnAuthError
    <3>2. CASE question'
      <4>1. node = "custom"
        BY <2>2, <3>2 DEF ReportOutcome, CtlInv
      <4>. QED
        BY <2>1, <3>1, <3>2, <4>1 DEF PubInv, ConnectedIsUp, UpIsPublished, OverIsPublished, Entitled, Running
    <3>3. CASE ~question' /\ told' = <<"error">> /\ node # "custom"
      <4>1. decided = "error"
        BY <2>2, <3>3 DEF ReportOutcome
      <4>2. loggedIn
        BY <3>1, <3>3, <4>1 DEF PubInv, Entitled
      <4>3. node \in {"api", "static"}
        BY <1>0, <3>3, EngineAssumption
      <4>4. fetching' \/ ctl' = "disconnected"
        BY <2>2, <4>2, <4>3 DEF OnAuthError, SetDisconnected
      <4>. QED
        BY <3>1, <3>3, <4>4 DEF PubInv, ConnectedIsUp, UpIsPublished, OverIsPublished, Entitled, Running
    <3>. QED
      BY <2>2, <3>2, <3>3
  <2>3. CASE OnOutcome(fw, sender, ans) /\ phase' = "off" /\ ~question'
    BY <2>3, OutcomeGone, GonePublished
  <2>. QED
    BY <1>13, <2>2, <2>3 DEF SessionEnded, ReportOutcome, EndAtOnce
<1>14. ASSUME NEW ans \in HelperAnswers, AnswerQuestion(ans) PROVE PubInv'
  <2>1. node' = "custom"
    BY <1>14 DEF AnswerQuestion, request, PubInv, Entitled
  <2>. QED
    BY <1>14, <2>1, StartPublished, StopPublished DEF AnswerQuestion
<1>15. ASSUME NEW ans \in HelperAnswers, ServerCredentialsFetched(ans) PROVE PubInv'
  <2>1. CASE fetching
    BY <1>15, <2>1, ConnectPublished DEF ServerCredentialsFetched
  <2>2. CASE ~fetching
    <3>1. ~fetching' /\ UNCHANGED <<session, ctl, redial, node, loggedIn, firewall, calls>>
      BY <1>15, <2>2 DEF ServerCredentialsFetched
    <3>. QED
      BY <2>2, <3>1 DEF session, firewall, PubInv, ConnectedIsUp, UpIsPublished, OverIsPublished, Entitled,
         OnlyLogouts, Running
  <2>. QED
    BY <2>1, <2>2
<1>16. CASE UNCHANGED evars
  BY <1>16, QuietPublished DEF evars, clicks, request, firewall
<1>. QED
  BY <1>1, <1>2, <1>3, <1>4, <1>5, <1>6, <1>7, <1>8, <1>9, <1>10, <1>11, <1>12, <1>13, <1>14, <1>15, <1>16
     DEF Next, AnswersToOn, Logouts

\* The invariant holds in every state.
LEMMA AlwaysPublished == Spec => [](EType /\ PubInv)
<1>1. Init => PubInv
  BY DEF Init, SessionInit, PubInv, ConnectedIsUp, UpIsPublished, OverIsPublished, Entitled, Running
<1>. QED
  BY <1>1, InitTyped, StepTyped, CtlStarts, StepKeepsCtl, StepPublished, PTL DEF Spec

\* The published state claims a tunnel that a session has dialed only while
\* there is one.
THEOREM ConnectedIsTrue == Spec => []ConnectedIsUp
<1>1. PubInv => ConnectedIsUp
  BY DEF PubInv
<1>. QED
  BY <1>1, AlwaysPublished, PTL

\* A click publishes its state ahead of the work it queues, and whatever
\* becomes of that work the published state is right again when it is done.
THEOREM PublishedCatchesUp == Spec => []PublishedStateCatchesUp
<1>1. PubInv => PublishedStateCatchesUp
  <2>1. calls = <<>> => OnlyLogouts(calls)
    BY DEF OnlyLogouts
  <2>. QED
    BY <2>1 DEF PubInv, UpIsPublished, OverIsPublished, PublishedStateCatchesUp, Idle
<1>. QED
  BY <1>1, AlwaysPublished, PTL

\* The rules are what was asked for last, for the interface there is now, unless
\* the helper refused.
Asked(f, c) == f.rules.on /\ ~f.refused => f.rules = RulesOf(c, f.iface)

\* The rules of a request, field by field.
LEMMA RuleFacts ==
    /\ ~NoRules.on
    /\ \A c, i : /\ RulesOf(c, i).on /\ RulesOf(c, i).list = c.list
                 /\ RulesOf(c, i).ip = c.ip /\ RulesOf(c, i).iface = i
BY DEF NoRules, RulesOf

\* A request is answered by its rules, whether it is sent again or dropped.
LEMMA OnAsks ==
    ASSUME NEW f, Latched(f), NEW c \in Requests, NEW ans
    PROVE  /\ Asked(FirewallOn(f, c, ans), c)
           /\ FirewallOn(f, c, ans).iface = f.iface
           /\ f.rules.on => FirewallOn(f, c, ans).rules.on
<1>. DEFINE g == FirewallOn(f, c, ans)
<1>0. f \in FirewallStates
  BY DEF Latched
<1>1. CASE f.latest = c /\ ~f.force
  <2>1. f.rules = NoRules \/ \E i \in Interfaces : f.rules = RulesOf(c, i) /\ i = f.iface
    BY <1>1 DEF Latched, LatchTrue
  <2>2. g = [f EXCEPT !.refused = FALSE]
    BY <1>1 DEF FirewallOn
  <2>. QED
    BY <1>0, <2>1, <2>2, RuleFacts DEF FirewallStates, Asked
<1>2. CASE ~(f.latest = c /\ ~f.force) /\ ans # "done"
  <2>2. g = [f EXCEPT !.refused = TRUE]
    BY <1>2 DEF FirewallOn
  <2>. QED
    BY <1>0, <2>2 DEF FirewallStates, Asked
<1>3. CASE ~(f.latest = c /\ ~f.force) /\ ans = "done"
  <2>. DEFINE r == RulesOf(c, f.iface)
  <2>1. g = [f EXCEPT !.rules = r, !.latest = c, !.force = FALSE, !.refused = FALSE, !.half = FALSE]
    BY <1>3 DEF FirewallOn
  <2>2. r.on
    BY RuleFacts
  <2>. HIDE DEF r
  <2>3. g.rules = r /\ g.iface = f.iface
    BY <1>0, <2>1 DEF FirewallStates
  <2>. QED
    BY <2>2, <2>3 DEF Asked, r
<1>. QED
  BY <1>1, <1>2, <1>3

\* Rules that are gone answer every request.
LEMMA OffAsks ==
    ASSUME NEW f, Latched(f), NEW ans, NEW c
    PROVE  /\ Asked(FirewallOff(f, ans), c)
           /\ FirewallOff(f, ans).iface = f.iface
           /\ ans = "refused" /\ f.rules.on => FirewallOff(f, ans).rules.on
<1>. DEFINE g == FirewallOff(f, ans)
<1>0. f \in FirewallStates /\ ~NoRules.on
  BY RuleFacts DEF Latched
<1>1. CASE f.latest = Off
  <2>1. g = [f EXCEPT !.refused = FALSE] /\ f.rules = NoRules
    BY <1>1 DEF FirewallOff, Latched, LatchTrue
  <2>. QED
    BY <1>0, <2>1 DEF FirewallStates, Asked
<1>2. CASE f.latest # Off /\ ans = "refused"
  <2>1. g = [f EXCEPT !.refused = TRUE]
    BY <1>2 DEF FirewallOff
  <2>. QED
    BY <1>0, <2>1 DEF FirewallStates, Asked
<1>3. CASE f.latest # Off /\ ans # "refused"
  <2>1. \/ g = [f EXCEPT !.rules = NoRules, !.latest = Off, !.refused = FALSE, !.half = FALSE]
        \/ g = [f EXCEPT !.rules = NoRules, !.refused = TRUE, !.half = TRUE]
    BY <1>3 DEF FirewallOff
  <2>2. g.rules = NoRules /\ g.iface = f.iface
    BY <1>0, <2>1 DEF FirewallStates
  <2>. QED
    BY <1>0, <1>3, <2>2 DEF Asked
<1>. QED
  BY <1>1, <1>2, <1>3

\* The interface changes and the rules stay.
LEMMA InterfaceAsks ==
    ASSUME NEW f, Latched(f), NEW i
    PROVE  SetVpnInterface(f, i).iface = i /\ SetVpnInterface(f, i).rules = f.rules
<1>1. f \in FirewallStates
  BY DEF Latched
<1>. QED
  BY <1>1 DEF SetVpnInterface, FirewallStates

\* updateFirewallSettings() asks for the rules of the published state.
LEMMA UpdateAsks ==
    ASSUME NEW f, Latched(f), NEW c, NEW m, NEW ip \in Addresses, NEW ans
    PROVE  /\ Asked(UpdateFirewallSettings(f, c, m, ip, ans), RulesFor(c, m, ip))
           /\ UpdateFirewallSettings(f, c, m, ip, ans).iface = f.iface
           /\ f.rules.on => UpdateFirewallSettings(f, c, m, ip, ans).rules.on
<1>1. RulesFor(c, m, ip) \in Requests
  BY RequestsTyped
<1>2. CASE f.rules.on
  BY <1>1, <1>2, OnAsks DEF UpdateFirewallSettings, FirewallActualState
<1>3. CASE ~f.rules.on
  BY <1>3 DEF UpdateFirewallSettings, FirewallActualState, Asked
<1>. QED
  BY <1>2, <1>3

\* doDisconnectRestoreStuff() asks for the rules of no session.
LEMMA RestoreAsks ==
    ASSUME NEW f, Latched(f), NEW ans
    PROVE  /\ Asked(RestoreFirewall(f, ans), WhileDown(mode, "none"))
           /\ RestoreFirewall(f, ans).iface = "none"
           /\ f.rules.on => RestoreFirewall(f, ans).rules.on
<1>. DEFINE g == SetVpnInterface(f, "none")
<1>1. "none" \in Addresses /\ "none" \in Interfaces
  BY EngineAssumption
<1>2. Latched(g) /\ g.iface = "none" /\ g.rules = f.rules
  BY <1>1, InterfaceKeepsLatch, InterfaceAsks
<1>3. RestoreFirewall(f, ans) = UpdateFirewallSettings(g, "disconnected", mode, "none", ans)
  BY DEF RestoreFirewall
<1>4. RulesFor("disconnected", mode, "none") = WhileDown(mode, "none")
  BY DEF RulesFor
<1>. HIDE DEF g
<1>. QED
  BY <1>1, <1>2, <1>3, <1>4, UpdateAsks

\* The rules of a tunnel that is up, which only a configuration lifts.
LEMMA AfterConnectionAsks ==
    ASSUME Latched(fw), NEW allow, NEW off, NEW ans
    PROVE  LET g == FirewallAfterConnection(allow, off, ans) IN
           /\ Asked(g, WhileUp)
           /\ fw.rules.on /\ ~g.rules.on => ~allow
<1>. DEFINE f == SetVpnInterface(fw, "tun")
            g == IF FirewallActualState(f) /\ mode = "before" /\ ~allow THEN FirewallOff(f, off) ELSE f
            h == FirewallOn(g, WhileUp, ans)
<1>1. "tun" \in Interfaces /\ WhileUp \in Requests
  BY EngineAssumption, RequestsTyped
<1>2. Latched(f) /\ f.rules = fw.rules
  BY <1>1, InterfaceKeepsLatch, InterfaceAsks
<1>3. Latched(g) /\ (allow => g.rules = fw.rules)
  BY <1>2, OffKeepsLatch
<1>. HIDE DEF f, g
<1>4. Asked(h, WhileUp) /\ (g.rules.on => h.rules.on)
  BY <1>1, <1>3, OnAsks
<1>5. FirewallAfterConnection(allow, off, ans) = IF g.rules.on \/ (mode = "after" /\ allow) THEN h ELSE g
  BY DEF FirewallAfterConnection, FirewallActualState, f, g
<1>. HIDE DEF h
<1>6. CASE g.rules.on \/ (mode = "after" /\ allow)
  BY <1>3, <1>4, <1>5, <1>6
<1>7. CASE ~(g.rules.on \/ (mode = "after" /\ allow))
  BY <1>3, <1>5, <1>7 DEF Asked
<1>. QED
  BY <1>6, <1>7

\* The rules that are set before a session are those of no session.
LEMMA BeforeConnectionAsks ==
    ASSUME Latched(fw), exempt = "none", NEW ans, Asked(fw, WhileDown(mode, "none"))
    PROVE  /\ Asked(FirewallBeforeConnection(ans), WhileDown(mode, "none"))
           /\ FirewallBeforeConnection(ans).iface = fw.iface
<1>1. WhileDown(mode, "none") \in Requests
  BY EngineAssumption, RequestsTyped
<1>. QED
  BY <1>1, OnAsks DEF FirewallBeforeConnection

\* A firewall that is on stays on before a session.
LEMMA BeforeConnectionOn ==
    ASSUME Latched(fw), NEW ans, fw.rules.on
    PROVE  FirewallBeforeConnection(ans).rules.on
BY DEF FirewallBeforeConnection, FirewallActualState

-----------------------------------------------------------------------------
(* The rules of a session, and of the time after it                         *)

\* While a tunnel is up and published the rules are those of the tunnel.
Sealed == phase = "up" /\ ctl = "connected" => Asked(fw, WhileUp)

\* After a session that did not end in an error they are those of no session,
\* and no other will be asked for.
Opened ==
    phase = "off" /\ told # <<>> /\ told # <<"error">> =>
        /\ exempt = "none" /\ fw.iface = "none" /\ (redial \/ ctl # "connected")
        /\ Asked(fw, WhileDown(mode, "none"))

\* The inductive invariant of the two properties of the rules.
Ruled == Sealed /\ Opened

\* The end of a session opens the rules, or leaves none.
LEMMA DisconnectedRuled ==
    ASSUME NEW f, Latched(f), NEW reason, NEW mark, NEW ans, OnDisconnected(f, reason, mark, ans),
           phase' = "off", mode' = mode
    PROVE  Ruled'
<1>. DEFINE g == RestoreFirewall(f, ans)
            c == WhileDown(mode, "none")
<1>1. Latched(g) /\ Asked(g, c) /\ g.iface = "none"
  BY RestoreKeepsLatch, RestoreAsks
<1>2. /\ fw' = g \/ \E off : fw' = FirewallOff(g, off)
      /\ exempt' = "none" /\ (redial' \/ ctl' # "connected")
  BY DEF OnDisconnected, LogoutImplAfterDisconnect, SetDisconnected
<1>. HIDE DEF g
<1>3. \A off : Asked(FirewallOff(g, off), c) /\ FirewallOff(g, off).iface = "none"
  BY <1>1, OffAsks
<1>4. c = WhileDown(mode', "none")
  OBVIOUS
<1>. HIDE DEF c
<1>5. Asked(fw', c) /\ fw'.iface = "none"
  BY <1>1, <1>2, <1>3
<1>6. Asked(fw, WhileDown(mode, "none"))'
  BY <1>4, <1>5 DEF Asked
<1>. QED
  BY <1>2, <1>5, <1>6 DEF Ruled, Sealed, Opened

\* So does any outcome, but for an error, which is not claimed.
LEMMA OutcomeRuled ==
    ASSUME NEW f, Latched(f), NEW mark, NEW ans, OnOutcome(f, mark, ans), phase' = "off", mode' = mode
    PROVE  Ruled'
<1>1. CASE told' = <<"error">>
  BY <1>1 DEF Ruled, Sealed, Opened
<1>. QED
  BY <1>1, DisconnectedRuled DEF OnOutcome

\* A stop leaves rules no tunnel is up under.
LEMMA StopRuled ==
    ASSUME Latched(fw), NEW mark, NEW ans, ClickDisconnect(mark, ans), mode' = mode
    PROVE  Ruled'
<1>1. CASE phase' = "ending"
  BY <1>1 DEF Ruled, Sealed, Opened
<1>2. CASE EndAtOnce /\ OnDisconnected(fw, "user", mark, ans)
  BY <1>2, DisconnectedRuled DEF EndAtOnce
<1>. QED
  BY <1>1, <1>2 DEF ClickDisconnect, Decide, StopByUser, session

\* So does the start of a session.
LEMMA StartRuled ==
    ASSUME NEW f, Latched(f), NEW ans, StartSession(f, ans), mode' = mode
    PROVE  Ruled'
<1>1. CASE phase' = "trying"
  BY <1>1 DEF Ruled, Sealed, Opened
<1>2. CASE phase' = "off" /\ OnOutcome(f, sender, ans)
  BY <1>2, OutcomeRuled
<1>. QED
  BY <1>1, <1>2 DEF StartSession

\* Nothing happens to the session, the firewall is asked for the same.
LEMMA SameRuled ==
    ASSUME Ruled, UNCHANGED <<session, exempt, mode>>, fw'.iface = fw.iface,
           \A c : Asked(fw, c) => Asked(fw', c),
           ctl' = ctl \/ ctl' # "connected", redial => redial' \/ ctl' # "connected"
    PROVE  Ruled'
<1>1. Sealed'
  <2>1. phase' = "up" /\ ctl' = "connected" => Asked(fw', WhileUp)
    BY DEF session, Ruled, Sealed
  <2>. QED
    BY <2>1 DEF Sealed, Asked
<1>2. Opened'
  <2>1. phase = "off" /\ told # <<>> /\ told # <<"error">> =>
          /\ exempt = "none" /\ fw'.iface = "none" /\ (redial' \/ ctl' # "connected")
          /\ Asked(fw', WhileDown(mode, "none"))
    BY DEF Ruled, Opened
  <2>2. WhileDown(mode', "none") = WhileDown(mode, "none")
    OBVIOUS
  <2>3. Asked(fw', WhileDown(mode, "none")) => Asked(fw, WhileDown(mode, "none"))'
    BY <2>2 DEF Asked
  <2>. QED
    BY <2>1, <2>3 DEF session, Opened
<1>. QED
  BY <1>1, <1>2 DEF Ruled

\* doConnect() keeps the invariant.
LEMMA ConnectRuled ==
    ASSUME Ruled, phase = "off", NEW f, Latched(f), NEW l, NEW auth, NEW ans, DoConnect(f, l, auth, ans), mode' = mode,
           f.iface = fw.iface,
           told # <<>> /\ told # <<"error">> => Asked(f, WhileDown(mode, "none"))
    PROVE  Ruled'
<1>1. CASE SetDisconnected /\ fw' = f /\ UNCHANGED <<session, exempt>>
  <2>1. Sealed'
    BY <1>1 DEF session, Sealed
  <2>2. told # <<>> /\ told # <<"error">> =>
          exempt = "none" /\ fw'.iface = "none" /\ ctl' # "connected" /\ Asked(fw', WhileDown(mode, "none"))
    BY <1>1 DEF SetDisconnected, Ruled, Opened
  <2>3. Asked(fw', WhileDown(mode, "none")) => Asked(fw, WhileDown(mode, "none"))'
    BY DEF Asked, WhileDown
  <2>4. Opened'
    BY <1>1, <2>2, <2>3 DEF session, Opened
  <2>. QED
    BY <2>1, <2>4 DEF Ruled
<1>2. CASE StartSession(f, ans)
  BY <1>2, StartRuled
<1>. QED
  BY <1>1, <1>2 DEF DoConnect

\* connectClickImpl() keeps it.
LEMMA ConnectClickRuled ==
    ASSUME FwInv, Ruled, NEW l, NEW ans, ConnectClickImpl(l, ans)
    PROVE  Ruled'
<1>0. Latched(fw) /\ exempt \in Addresses /\ mode' = mode
  BY DEF FwInv, ConnectClickImpl
<1>1. CASE ClickDisconnect("reconnect", ans)
  BY <1>0, <1>1, StopRuled
<1>2. CASE SetDisconnected /\ redial' = FALSE /\ UNCHANGED <<session, firewall>>
  BY <1>0, <1>2, SameRuled DEF SetDisconnected, firewall
<1>3. ASSUME phase = "off", NEW before,
             DoConnect(FirewallBeforeConnection(before), l, TRUE, ans)
      PROVE  Ruled'
  <2>. DEFINE f == FirewallBeforeConnection(before)
  <2>1. Latched(f)
    BY <1>0, BeforeConnectionKeepsLatch
  <2>2. f.iface = fw.iface
    BY <1>0, RequestsTyped, OnAsks DEF FirewallBeforeConnection
  <2>3. told # <<>> /\ told # <<"error">> => Asked(f, WhileDown(mode, "none"))
    BY <1>0, <1>3, BeforeConnectionAsks DEF Ruled, Opened
  <2>4. DoConnect(f, l, TRUE, ans)
    BY <1>3
  <2>. HIDE DEF f
  <2>. QED
    BY <1>0, <1>3, <2>1, <2>2, <2>3, <2>4, ConnectRuled
<1>. QED
  BY <1>1, <1>2, <1>3 DEF ConnectClickImpl

\* A slot that asks for what the published state calls for.
LEMMA SlotRuled ==
    ASSUME FwInv, Ruled, ~redial, UNCHANGED <<session, ctl, exempt>>,
           fw'.iface = fw.iface \/ phase # "off",
           Asked(fw', RulesFor(ctl, mode', exempt))
    PROVE  Ruled'
<1>1. Sealed'
  <2>1. phase' = "up" /\ ctl' = "connected" => Asked(fw', WhileUp)
    BY DEF session, RulesFor
  <2>. QED
    BY <2>1 DEF Sealed, Asked
<1>2. Opened'
  <2>1. phase = "off" /\ told # <<>> /\ told # <<"error">> =>
          exempt = "none" /\ fw'.iface = "none" /\ ctl # "connected" /\ Asked(fw', WhileDown(mode', "none"))
    BY DEF Ruled, Opened, RulesFor
  <2>2. Asked(fw', WhileDown(mode', "none")) => Asked(fw, WhileDown(mode, "none"))'
    BY DEF Asked
  <2>. QED
    BY <2>1, <2>2 DEF session, Opened
<1>. QED
  BY <1>1, <1>2 DEF Ruled

\* Every step keeps the rules in order.
LEMMA StepRuled == FwInv /\ CtlInv /\ Ruled /\ [Next]_evars => Ruled'
<1>. SUFFICES ASSUME FwInv, CtlInv, Ruled, [Next]_evars PROVE Ruled'
  OBVIOUS
<1>0. Latched(fw) /\ exempt \in Addresses /\ "tun" \in Interfaces
  BY EngineAssumption DEF FwInv
<1>a. UNCHANGED fw => fw'.iface = fw.iface /\ \A c : Asked(fw, c) => Asked(fw', c)
  OBVIOUS
<1>1. ASSUME NEW l \in Locations, ConnectClick(l) PROVE Ruled'
  BY <1>1, <1>a, SameRuled DEF ConnectClick, SetConnecting, firewall
<1>2. CASE DisconnectClick
  BY <1>2, <1>a, SameRuled DEF DisconnectClick, SetDisconnecting, firewall
<1>3. ASSUME NEW name \in Logouts, LogoutClick(name) PROVE Ruled'
  BY <1>3, <1>a, SameRuled DEF LogoutClick, firewall
<1>4. CASE SessionMoves
  <2>1. phase' \in {"trying", "parked", "ending"}
    BY <1>4 DEF SessionMoves, Decide
  <2>. QED
    BY <2>1 DEF Ruled, Sealed, Opened
<1>5. CASE LoginOk
  BY <1>5, <1>a, SameRuled DEF LoginOk, firewall
<1>6. ASSUME NEW ans \in HelperAnswers, ConnectCall(ans) \/ Redial(ans) PROVE Ruled'
  BY <1>6, ConnectClickRuled DEF ConnectCall, Redial
<1>7. ASSUME NEW ans \in HelperAnswers, DisconnectClickImpl(ans) PROVE Ruled'
  BY <1>0, <1>7, StopRuled DEF DisconnectClickImpl
<1>8. ASSUME NEW ans \in HelperAnswers, NEW name \in Logouts, LogoutImpl(name, ans) PROVE Ruled'
  <2>1. CASE ClickDisconnect(name, ans)
    BY <1>0, <1>8, <2>1, StopRuled DEF LogoutImpl
  <2>2. CASE (\E off \in HelperAnswers : LogoutImplAfterDisconnect(fw, name = "logoutKeep", off)) /\ UNCHANGED <<session, ctl, redial, exempt>>
    <3>1. \A off : /\ FirewallOff(fw, off).iface = fw.iface
                   /\ \A c : Asked(FirewallOff(fw, off), c)
      BY <1>0, OffAsks
    <3>2. fw' = fw \/ \E off : fw' = FirewallOff(fw, off)
      BY <2>2 DEF LogoutImplAfterDisconnect
    <3>3. fw'.iface = fw.iface /\ \A c : Asked(fw, c) => Asked(fw', c)
      BY <3>1, <3>2
    <3>. QED
      BY <1>8, <2>2, <3>3, SameRuled DEF LogoutImpl
  <2>. QED
    BY <1>8, <2>1, <2>2 DEF LogoutImpl
<1>9. ASSUME NEW ans \in HelperAnswers, FirewallOnImpl(ans) PROVE Ruled'
  <2>. DEFINE g == FirewallOn(fw, RulesFor(ctl, mode, exempt), ans)
  <2>1. RulesFor(ctl, mode, exempt) \in Requests
    BY <1>0, RequestsTyped
  <2>2. Asked(g, RulesFor(ctl, mode, exempt)) /\ g.iface = fw.iface
    BY <1>0, <2>1, OnAsks
  <2>3. /\ fw' = g /\ ~redial /\ UNCHANGED <<session, ctl, exempt, mode>>
    BY <1>9 DEF FirewallOnImpl, OtherSlot
  <2>. HIDE DEF g
  <2>. QED
    BY <2>2, <2>3, SlotRuled
<1>10. ASSUME NEW ans \in HelperAnswers, FirewallOffImpl(ans) PROVE Ruled'
  <2>. DEFINE g == FirewallOff(fw, ans)
  <2>1. g.iface = fw.iface /\ \A c : Asked(g, c)
    BY <1>0, OffAsks
  <2>2. fw' = g /\ UNCHANGED <<session, ctl, redial, exempt, mode>>
    BY <1>10 DEF FirewallOffImpl, OtherSlot
  <2>. HIDE DEF g
  <2>. QED
    BY <2>1, <2>2, SameRuled
<1>11. ASSUME NEW ans \in HelperAnswers, OnHostIPsChanged(ans) \/ \E m \in Modes : SetSettings(m, ans) PROVE Ruled'
  <2>. DEFINE g(m) == UpdateFirewallSettings(fw, ctl, m, exempt, ans)
  <2>1. \A m : Asked(g(m), RulesFor(ctl, m, exempt)) /\ g(m).iface = fw.iface
    BY <1>0, UpdateAsks
  <2>2. /\ ~redial /\ UNCHANGED <<session, ctl, exempt>>
        /\ fw' = g(mode')
    BY <1>11 DEF OnHostIPsChanged, SetSettings, OtherSlot
  <2>. HIDE DEF g
  <2>3. Asked(fw', RulesFor(ctl, mode', exempt)) /\ fw'.iface = fw.iface
    BY <2>1, <2>2
  <2>. QED
    BY <2>2, <2>3, SlotRuled
<1>12. ASSUME NEW ans \in HelperAnswers, InterfaceUpdated(ans) PROVE Ruled'
  <2>. DEFINE f == SetVpnInterface(fw, "tun")
              g == UpdateFirewallSettings(f, ctl, mode, exempt, ans)
  <2>1. Latched(f)
    BY <1>0, InterfaceKeepsLatch
  <2>2. Asked(g, RulesFor(ctl, mode, exempt))
    <3>. HIDE DEF f
    <3>. QED
      BY <1>0, <2>1, UpdateAsks
  <2>3. /\ fw' = g /\ ~redial /\ phase # "off" /\ UNCHANGED <<session, ctl, exempt, mode>>
    BY <1>12 DEF InterfaceUpdated, OtherSlot
  <2>. HIDE DEF f, g
  <2>. QED
    BY <2>2, <2>3, SlotRuled
<1>13. ASSUME NEW ans \in HelperAnswers, ConnectingToHostname(ans) \/ Reconnecting(ans) PROVE Ruled'
  <2>1. phase' \in {"trying", "parked"}
    BY <1>13 DEF ConnectingToHostname, Reconnecting, session
  <2>. QED
    BY <2>1 DEF Ruled, Sealed, Opened
<1>14. ASSUME NEW ans \in HelperAnswers, NEW allow \in BOOLEAN, Connected(allow, ans) PROVE Ruled'
  <2>1. phase' = "up" /\ \E off : fw' = FirewallAfterConnection(allow, off, ans)
    BY <1>14 DEF Connected
  <2>2. Asked(fw', WhileUp)
    BY <1>0, <2>1, AfterConnectionAsks
  <2>3. Asked(fw, WhileUp)'
    BY <2>2 DEF Asked
  <2>. QED
    BY <2>1, <2>3 DEF Ruled, Sealed, Opened
<1>15. ASSUME NEW ans \in HelperAnswers, SessionEnded(ans) PROVE Ruled'
  <2>1. phase' = "off" /\ mode' = mode
    BY <1>15 DEF SessionEnded, ReportOutcome, EndAtOnce
  <2>2. CASE ReportOutcome /\ (question' \/ told' = <<"error">>)
    <3>1. told' \in {<<>>, <<"error">>}
      BY <2>2 DEF ReportOutcome
    <3>. QED
      BY <2>1, <3>1 DEF Ruled, Sealed, Opened
  <2>3. CASE OnOutcome(fw, sender, ans)
    BY <1>0, <2>1, <2>3, OutcomeRuled
  <2>. QED
    BY <1>15, <2>2, <2>3 DEF SessionEnded
<1>16. ASSUME NEW ans \in HelperAnswers, AnswerQuestion(ans) PROVE Ruled'
  BY <1>0, <1>16, StartRuled, StopRuled DEF AnswerQuestion
<1>17. ASSUME NEW ans \in HelperAnswers, ServerCredentialsFetched(ans) PROVE Ruled'
  <2>1. CASE phase = "off" /\ DoConnect(fw, loc, FALSE, ans)
    <3>1. told # <<>> /\ told # <<"error">> => Asked(fw, WhileDown(mode, "none"))
      BY <2>1 DEF Ruled, Opened
    <3>. QED
      BY <1>0, <1>17, <2>1, <3>1, ConnectRuled DEF ServerCredentialsFetched
  <2>2. CASE UNCHANGED <<session, ctl, redial, firewall>>
    BY <1>17, <1>a, <2>2, SameRuled DEF ServerCredentialsFetched, firewall
  <2>. QED
    BY <1>17, <2>1, <2>2 DEF ServerCredentialsFetched
<1>18. CASE UNCHANGED evars
  BY <1>18, <1>a, SameRuled DEF evars, firewall
<1>. QED
  BY <1>1, <1>2, <1>3, <1>4, <1>5, <1>6, <1>7, <1>8, <1>9, <1>10, <1>11, <1>12, <1>13, <1>14, <1>15, <1>16,
     <1>17, <1>18 DEF Next, AnswersToOn, Logouts

\* The invariant holds in every state.
LEMMA AlwaysRuled == Spec => []Ruled
<1>1. Init => Ruled
  BY DEF Init, SessionInit, Ruled, Sealed, Opened
<1>2. FwInv /\ CtlInv /\ Ruled /\ [Next]_evars => Ruled'
  BY StepRuled
<1>. QED
  BY <1>1, <1>2, AlwaysLatched, CtlStarts, StepKeepsCtl, PTL DEF Spec

\* While a tunnel is up the rules admit only the tunnel and its server: no
\* setting, click or change of an address is answered with the rules of a
\* session that is still connecting.
THEOREM TunnelIsSealed == Spec => []FirewallFollowsTunnel
<1>1. PubInv /\ Ruled => FirewallFollowsTunnel
  <2>. SUFFICES ASSUME PubInv, Ruled, phase = "up", calls = <<>>, fw.rules.on, ~fw.refused
                PROVE  fw.rules.list = "strict" /\ fw.rules.ip = "server" /\ fw.rules.iface = fw.iface
    BY DEF FirewallFollowsTunnel
  <2>1. fw.rules = RulesOf(WhileUp, fw.iface)
    BY DEF PubInv, UpIsPublished, Ruled, Sealed, Asked
  <2>2. WhileUp.list = "strict" /\ WhileUp.ip = "server"
    BY DEF WhileUp
  <2>. QED
    BY <2>1, <2>2, RuleFacts
<1>. QED
  BY <1>1, AlwaysPublished, AlwaysRuled, PTL

\* After a session that did not end in an error the API can be reached again,
\* in every mode but Always On+, and the rules name no tunnel that is gone.
THEOREM RulesReopen == Spec => []FirewallReopens
<1>1. Ruled => FirewallReopens
  <2>. SUFFICES ASSUME Ruled, phase = "off", told # <<"error">>, told # <<>>, fw.rules.on, ~fw.refused
                PROVE  fw.rules.list = (IF mode = "plus" THEN "strict" ELSE "open") /\ fw.rules.iface = "none"
    BY DEF FirewallReopens, Idle
  <2>1. fw.rules = RulesOf(WhileDown(mode, "none"), "none")
    BY DEF Ruled, Opened, Asked
  <2>2. WhileDown(mode, "none").list = IF mode = "plus" THEN "strict" ELSE "open"
    BY DEF WhileDown
  <2>. QED
    BY <2>1, <2>2, RuleFacts
<1>. QED
  BY <1>1, AlwaysRuled, PTL

-----------------------------------------------------------------------------
(* What lifts the firewall                                                  *)

\* A log-out, or the end of a session the user stopped.
Lifted == ~loggedIn' \/ (phase' = "off" /\ told' = <<"user">> /\ ~redial')

\* The end of a session lifts the firewall only in these ways.
LEMMA OutcomeLifts ==
    ASSUME NEW f, Latched(f), f.rules.on, ~fw'.rules.on, NEW mark, NEW ans, phase' = "off",
           OnOutcome(f, mark, ans) \/ (told' = <<"user">> /\ OnDisconnected(f, "user", mark, ans))
    PROVE  Lifted
<1>1. ASSUME NEW reason, told' = <<reason>>, OnDisconnected(f, reason, mark, ans) PROVE Lifted
  <2>. DEFINE g == RestoreFirewall(f, ans)
  <2>1. g.rules.on
    BY RestoreAsks
  <2>2. \/ ~loggedIn'
        \/ fw' = g
        \/ LiftsFirewall(g, reason) /\ ~redial'
    BY <1>1 DEF OnDisconnected, LogoutImplAfterDisconnect
  <2>. QED
    BY <1>1, <2>1, <2>2 DEF Lifted, LiftsFirewall
<1>. QED
  BY <1>1 DEF OnOutcome, OnError

\* So does a stop.
LEMMA StopLifts ==
    ASSUME Latched(fw), fw.rules.on, ~fw'.rules.on, NEW mark, NEW ans, ClickDisconnect(mark, ans)
    PROVE  Lifted
BY OutcomeLifts DEF ClickDisconnect, EndAtOnce, firewall

\* So does a session that fails at once.
LEMMA ConnectLifts ==
    ASSUME NEW f, Latched(f), f.rules.on, ~fw'.rules.on, NEW l, NEW auth, NEW ans,
           DoConnect(f, l, auth, ans) \/ StartSession(f, ans)
    PROVE  Lifted
BY OutcomeLifts DEF DoConnect, StartSession

\* So does a click to connect.
LEMMA ConnectClickLifts ==
    ASSUME FwInv, fw.rules.on, ~fw'.rules.on, NEW l, NEW ans, ConnectClickImpl(l, ans)
    PROVE  Lifted
<1>1. /\ Latched(fw)
      /\ \A before : /\ Latched(FirewallBeforeConnection(before))
                     /\ FirewallBeforeConnection(before).rules.on
  BY BeforeConnectionKeepsLatch, BeforeConnectionOn DEF FwInv
<1>. QED
  BY <1>1, StopLifts, ConnectLifts DEF ConnectClickImpl, firewall

\* The firewall goes off only where the user means it to: by the user's click,
\* a log-out, the end of a session the user stopped, or a configuration that
\* does not allow it; not between the stop and the redial of a reconnect, and
\* not by a failure.
THEOREM LiftedOnPurpose == Spec => FirewallLiftedOnPurpose
<1>. DEFINE Purpose ==
         \/ \E ans \in HelperAnswers : FirewallOffImpl(ans)
         \/ ~loggedIn'
         \/ phase' = "off" /\ told' = <<"user">> /\ ~redial'
         \/ phase' = "up" /\ node = "custom"
<1>1. FwInv /\ [Next]_evars => [fw.rules.on /\ ~fw'.rules.on => Purpose]_evars
  <2>. SUFFICES ASSUME FwInv, Next, fw.rules.on, ~fw'.rules.on PROVE Purpose
    OBVIOUS
  <2>0. Latched(fw) /\ exempt \in Addresses /\ "tun" \in Interfaces /\ "server" \in Addresses
    BY EngineAssumption DEF FwInv
  <2>1. fw' # fw
    OBVIOUS
  <2>2. Lifted => Purpose
    BY DEF Lifted
  <2>. HIDE DEF Purpose
  <2>3. /\ \A l \in Locations : ~ConnectClick(l)
        /\ ~DisconnectClick /\ ~SessionMoves /\ ~LoginOk
        /\ \A name \in Logouts : ~LogoutClick(name)
    BY <2>1 DEF ConnectClick, DisconnectClick, SessionMoves, LoginOk, LogoutClick, firewall
  <2>4. ASSUME NEW ans \in HelperAnswers, ConnectCall(ans) \/ Redial(ans) PROVE Purpose
    BY <2>2, <2>4, ConnectClickLifts DEF ConnectCall, Redial
  <2>5. ASSUME NEW ans \in HelperAnswers, DisconnectClickImpl(ans) PROVE Purpose
    BY <2>0, <2>2, <2>5, StopLifts DEF DisconnectClickImpl
  <2>6. ASSUME NEW ans \in HelperAnswers, NEW name \in Logouts, LogoutImpl(name, ans) PROVE Purpose
    BY <2>0, <2>2, <2>6, StopLifts DEF LogoutImpl, LogoutImplAfterDisconnect, Lifted
  <2>7. ASSUME NEW ans \in HelperAnswers, FirewallOffImpl(ans) PROVE Purpose
    BY <2>7 DEF Purpose
  <2>8. ASSUME NEW ans \in HelperAnswers, FirewallOnImpl(ans) PROVE FALSE
    <3>1. RulesFor(ctl, mode, exempt) \in Requests
      BY <2>0, RequestsTyped
    <3>. QED
      BY <2>0, <2>8, <3>1, OnAsks DEF FirewallOnImpl
  <2>9. ASSUME NEW ans \in HelperAnswers, OnHostIPsChanged(ans) \/ ConnectingToHostname(ans) \/ Reconnecting(ans)
               \/ \E m \in Modes : SetSettings(m, ans)
        PROVE  FALSE
    <3>1. \A c, m : \A ip \in Addresses : UpdateFirewallSettings(fw, c, m, ip, ans).rules.on
      BY <2>0, UpdateAsks
    <3>. QED
      BY <2>0, <2>1, <2>9, <3>1 DEF OnHostIPsChanged, ConnectingToHostname, Reconnecting, SetSettings
  <2>10. ASSUME NEW ans \in HelperAnswers, InterfaceUpdated(ans) PROVE FALSE
    <3>. DEFINE f == SetVpnInterface(fw, "tun")
    <3>1. Latched(f) /\ f.rules.on
      BY <2>0, InterfaceKeepsLatch, InterfaceAsks
    <3>2. fw' = UpdateFirewallSettings(f, ctl, mode, exempt, ans)
      BY <2>10 DEF InterfaceUpdated
    <3>. HIDE DEF f
    <3>. QED
      BY <2>0, <3>1, <3>2, UpdateAsks
  <2>11. ASSUME NEW ans \in HelperAnswers, NEW allow \in BOOLEAN, Connected(allow, ans) PROVE Purpose
    BY <2>0, <2>11, AfterConnectionAsks DEF Connected, Purpose
  <2>12. ASSUME NEW ans \in HelperAnswers, SessionEnded(ans) PROVE Purpose
    <3>1. CASE OnAuthError(ans)
      BY <2>0, <3>1, RestoreAsks DEF OnAuthError
    <3>2. CASE OnOutcome(fw, sender, ans) /\ phase' = "off"
      BY <2>0, <2>2, <3>2, OutcomeLifts
    <3>. QED
      BY <2>12, <3>1, <3>2 DEF SessionEnded, ReportOutcome, EndAtOnce
  <2>13. ASSUME NEW ans \in HelperAnswers, AnswerQuestion(ans) PROVE Purpose
    BY <2>0, <2>2, <2>13, StopLifts, ConnectLifts DEF AnswerQuestion
  <2>14. ASSUME NEW ans \in HelperAnswers, ServerCredentialsFetched(ans) PROVE Purpose
    BY <2>0, <2>1, <2>2, <2>14, ConnectLifts DEF ServerCredentialsFetched, firewall
  <2>. QED
    BY <2>3, <2>4, <2>5, <2>6, <2>7, <2>8, <2>9, <2>10, <2>11, <2>12, <2>13, <2>14 DEF Next, AnswersToOn, Logouts
<1>. QED
  BY <1>1, AlwaysLatched, PTL DEF Spec, FirewallLiftedOnPurpose
=============================================================================
