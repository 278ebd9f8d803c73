------------------------------- MODULE Engine -------------------------------
(***************************************************************************)
(* The engine: it turns the clicks of the front ends into requests to the  *)
(* connection manager, publishes the connect state, and keeps the firewall *)
(* in step with the session                                                *)
(* (src/client/engine/engine/engine.cpp, Linux build).                     *)
(*                                                                         *)
(* Clicks run on the threads of the front ends: they write the published   *)
(* state and the location at once and queue the rest of their work for the *)
(* engine's thread.  The manager runs on the engine's thread and calls the *)
(* engine's slots directly; it is the abstract session of VpnSession,      *)
(* which ConnectionManager implements.                                     *)
(***************************************************************************)
EXTENDS VpnSession, FirewallController

CONSTANTS
    Locations,        \* kinds of location a user may choose
    Modes,            \* firewall settings the user may choose
    HelperAnswers,    \* what the helper may answer to a request
    LogoutExclusive,  \* the front ends accept no click while a log-out is pending
    MaxCalls          \* bound on the queued calls a click may add to

ASSUME EngineAssumption ==
    /\ {"user", "error"} \subseteq Outcomes
    /\ Addresses = {"none", "server"} /\ AllowLists = {"open", "strict"}
    /\ Interfaces = {"none", "tun"}
    /\ Locations \subseteq {"api", "static", "custom"}
    /\ Modes \subseteq {"manual", "before", "after", "plus"}
    /\ HelperAnswers \subseteq Answers /\ LogoutExclusive \in BOOLEAN
    /\ MaxCalls \in Nat \ {0}

VARIABLES
    ctl,        \* ConnectStateController::state_
    loc,        \* the kind of locationId_
    node,       \* the kind of location the manager's session is for
    calls,      \* calls queued for the engine's thread
    sender,     \* the manager's property "senderSource"
    redial,     \* inside onConnectionManagerDisconnected(), about to connect again
    fetching,   \* isFetchingServerCredentials_
    due,        \* the API has not answered fetchServerCredentials() yet
    emitAuth,   \* bEmitAuthError of the last request
    loggedIn,   \* isLoggedIn_
    mode,       \* engineSettings_.firewallSettings()
    exempt,     \* FirewallExceptions::connectingIp_
    fw,         \* FirewallController and the installed rules
    owed,       \* history: a log-out waits for the end of the session
    wanted      \* history: the last click that was carried out asks for a session

session == <<phase, decided, told, question>>
clicks == <<loc, calls>>
request == <<node, fetching, due, emitAuth>>
firewall == <<exempt, fw>>
evars == <<session, ctl, clicks, sender, redial, request, loggedIn, owed, wanted, mode, firewall>>

ConnectStates == {"disconnected", "connecting", "connected", "disconnecting"}
Senders == {"none", "reconnect", "logout", "logoutKeep"}
\* Mutant: the arguments of the call are swapped.
SwappedCall(name, l) == [name |-> l, loc |-> name]

Call(name, l) == [name |-> name, loc |-> l]
Calls == [name : {"connect", "disconnect", "logout", "logoutKeep"},
          loc : Locations \cup {"none"}]

TypeOK ==
    /\ TypeInvariant
    /\ ctl \in ConnectStates
    /\ loc \in Locations /\ node \in Locations
    /\ calls \in Seq(Calls)
    /\ sender \in Senders
    /\ redial \in BOOLEAN /\ fetching \in BOOLEAN /\ due \in BOOLEAN
    /\ emitAuth \in BOOLEAN /\ loggedIn \in BOOLEAN
    /\ mode \in Modes
    /\ exempt \in Addresses
    /\ fw \in FirewallStates
    /\ owed \in BOOLEAN /\ wanted \in BOOLEAN

\* The rules may have been left on by the previous run or by the boot script.
Init ==
    /\ SessionInit
    /\ ctl = "disconnected" /\ loc \in Locations /\ node = loc
    /\ calls = <<>> /\ sender = "none" /\ redial = FALSE
    /\ fetching = FALSE /\ due = FALSE /\ emitAuth = TRUE
    /\ loggedIn \in BOOLEAN /\ mode \in Modes /\ exempt = "none"
    /\ fw \in [rules : {NoRules, [on |-> TRUE, ip |-> "none", list |-> "open", iface |-> "none"]},
               latest : {Unknown}, iface : {"none"}, force : {FALSE},
               refused : {FALSE}, half : {FALSE}]
    /\ owed = FALSE /\ wanted = FALSE

-----------------------------------------------------------------------------
(* The firewall, as the engine asks for it *)

\* The rules are installed in one transaction.
AnswersToOn == HelperAnswers \ {"half"}

\* While no tunnel is up the API stays reachable, except in Always On+.
WhileDown(m, ip) ==
    [kind |-> "on", ip |-> ip, list |-> IF m = "plus" THEN "strict" ELSE "open", up |-> FALSE]
WhileUp == [kind |-> "on", ip |-> "server", list |-> "strict", up |-> TRUE]

\* updateFirewallSettings() goes by the published state, not the manager's.
RulesFor(c, m, ip) == IF c = "connected" THEN WhileUp ELSE WhileDown(m, ip)
UpdateFirewallSettings(f, c, m, ip, ans) ==
    IF FirewallActualState(f) THEN FirewallOn(f, RulesFor(c, m, ip), ans) ELSE f

\* Mutant: the rules go on naming the interface of the tunnel that is gone.
RestoreNamingTunnel(f, ans) ==
    UpdateFirewallSettings(f, "disconnected", mode, "none", ans)

\* The firewall part of doDisconnectRestoreStuff().
RestoreFirewall(f, ans) ==
    UpdateFirewallSettings(SetVpnInterface(f, "none"), "disconnected", mode, "none", ans)

-----------------------------------------------------------------------------
(* ConnectStateController: a repeated state is not published again.        *)

SetConnected == ctl' = "connected"
SetConnecting == ctl' = "connecting"
SetDisconnecting == ctl' = "disconnecting"
SetDisconnected == ctl' = "disconnected"

-----------------------------------------------------------------------------
(* The slots the manager calls when a session is over                      *)

\* logoutImplAfterDisconnect()
LogoutImplAfterDisconnect(f, keepFirewallOn, off) ==
    /\ loggedIn' = FALSE
    /\ fw' = (IF keepFirewallOn THEN f ELSE FirewallOff(f, off))
    /\ owed' = FALSE

\* Mutant: whatever ends a session lifts the automatic firewall.
LiftsAtAnyEnd(f, reason) == FirewallActualState(f) /\ mode \in {"before", "after"}

\* Only the user's own stop lifts the automatic firewall.
LiftsFirewall(f, reason) ==
    FirewallActualState(f) /\ reason = "user" /\ mode \in {"before", "after"}

\* onConnectionManagerDisconnected() with the given reason, and the mark that
\* says what is to follow; f is the firewall so far.  The helper answers twice.
OnDisconnected(f, reason, mark, ans) ==
    LET g == RestoreFirewall(f, ans)
    IN  /\ exempt' = "none" /\ sender' = "none"
        /\ \/ /\ mark \in {"logout", "logoutKeep"}
              /\ \E off \in HelperAnswers : LogoutImplAfterDisconnect(g, mark = "logoutKeep", off)
              /\ SetDisconnected /\ redial' = FALSE
           \/ /\ mark = "reconnect"
              /\ fw' = g /\ redial' = TRUE
              /\ UNCHANGED <<ctl, loggedIn, owed>>
           \/ /\ mark = "none"
              /\ \E off \in HelperAnswers :
                   fw' = (IF LiftsFirewall(g, reason) THEN FirewallOff(g, off) ELSE g)
              /\ SetDisconnected /\ redial' = FALSE
              /\ UNCHANGED <<loggedIn, owed>>

\* Mutant: an error is not published.
OnErrorUnpublished(f, ans) ==
    /\ UNCHANGED ctl /\ fw' = f /\ redial' = FALSE
    /\ UNCHANGED <<exempt, sender, loggedIn, owed>>

\* onConnectionManagerError(), unless the credentials are wrong.
OnError(f, ans) ==
    /\ SetDisconnected /\ fw' = f /\ redial' = FALSE
    /\ UNCHANGED <<exempt, sender, loggedIn, owed>>

\* A session that ends, or fails to start, reports to one of the two.
OnOutcome(f, mark, ans) ==
    \/ told' = <<"error">> /\ OnError(f, ans)
    \/ \E reason \in Outcomes \ {"error"} :
          told' = <<reason>> /\ OnDisconnected(f, reason, mark, ans)

\* onConnectionManagerError() of wrong credentials: ask for others (the
\* session's question), give up, or refetch them and connect again.
OnAuthError(ans) ==
    /\ exempt' = "none" /\ fw' = RestoreFirewall(fw, ans)
    /\ IF node = "static" THEN SetDisconnected ELSE UNCHANGED ctl
    /\ IF node = "api" /\ loggedIn
         THEN fetching' = TRUE /\ due' = TRUE ELSE UNCHANGED <<fetching, due>>
    /\ UNCHANGED <<sender, redial, loggedIn, owed>>

-----------------------------------------------------------------------------
(* Requests to the manager                                                 *)

Stopping(mark) == owed' = (owed \/ mark \in {"logout", "logoutKeep"}) /\ sender' = mark

\* Mutant: the mark is not set when the session is being stopped already.
ClickDisconnectMarkingOnce(mark, ans) ==
    \/ /\ phase = "ending" /\ decided = "user" /\ UNCHANGED session
       /\ owed' = (owed \/ mark \in {"logout", "logoutKeep"})
       /\ UNCHANGED <<sender, ctl, redial, loggedIn, firewall>>
    \/ /\ (Decide \/ StopByUser) /\ decided' = "user" /\ Stopping(mark)
       /\ UNCHANGED <<ctl, redial, loggedIn, firewall>>
    \/ /\ EndAtOnce /\ told' = <<"user">> /\ OnDisconnected(fw, "user", mark, ans)

\* clickDisconnect(): the connector is asked to stop, or the end is reported
\* at once when there is none; a stop of the user's own is left to settle.
ClickDisconnect(mark, ans) ==
    \/ /\ \/ phase = "ending" /\ decided = "user" /\ UNCHANGED session
          \/ (Decide \/ StopByUser) /\ decided' = "user"
       /\ Stopping(mark)
       /\ UNCHANGED <<ctl, redial, loggedIn, firewall>>
    \/ /\ EndAtOnce /\ told' = <<"user">>
       /\ OnDisconnected(fw, "user", mark, ans)

\* The manager starts a session, whose first attempt may fail at once.
StartSession(f, ans) ==
    /\ Begin
    /\ \/ /\ phase' = "trying" /\ fw' = f /\ redial' = FALSE
          /\ UNCHANGED <<ctl, exempt, sender, loggedIn, owed>>
       \/ phase' = "off" /\ OnOutcome(f, sender, ans)

\* doConnect(): the location may be gone.
DoConnect(f, l, withAuthError, ans) ==
    \/ /\ SetDisconnected /\ fw' = f /\ redial' = FALSE
       /\ UNCHANGED <<session, node, emitAuth, exempt, sender, loggedIn, owed>>
    \/ /\ l = "custom" \/ loggedIn
       /\ node' = l /\ emitAuth' = withAuthError
       /\ StartSession(f, ans)

FirewallBeforeConnection(ans) ==
    IF mode = "before" /\ ~FirewallActualState(fw)
      THEN FirewallOn(fw, WhileDown(mode, exempt), ans) ELSE fw

\* connectClickImpl(): a session that runs is ended first.  A blocked account
\* and a local DNS server that does not answer end the request.
ConnectClickImpl(l, ans) ==
    /\ loc' = l /\ UNCHANGED <<due, mode>>
    /\ \/ /\ phase # "off" /\ ClickDisconnect("reconnect", ans)
          /\ UNCHANGED <<fetching, node, emitAuth>>
       \/ /\ phase = "off" /\ SetDisconnected /\ redial' = FALSE
          /\ \/ l # "custom" /\ UNCHANGED fetching
             \/ fetching' = FALSE
          /\ UNCHANGED <<session, node, emitAuth, sender, loggedIn, owed, firewall>>
       \/ /\ phase = "off" /\ fetching' = FALSE
          /\ \E before \in AnswersToOn :
               DoConnect(FirewallBeforeConnection(before), l, TRUE, ans)

-----------------------------------------------------------------------------
(* Clicks: the part that runs on the caller's thread                       *)

\* The question for credentials is modal.
LogoutPending == owed \/ \E i \in DOMAIN calls : calls[i].name \in {"logout", "logoutKeep"}
MayClick == Len(calls) < MaxCalls /\ ~question /\ ~(LogoutExclusive /\ LogoutPending)
Queue(name, l) == calls' = Append(calls, Call(name, l))

ConnectClick(l) ==
    /\ MayClick /\ loc' = l /\ SetConnecting /\ Queue("connect", l)
    /\ UNCHANGED <<session, sender, redial, request, loggedIn, owed, wanted, mode, firewall>>

\* Nothing is queued unless the published state says there is a session.
DisconnectClick ==
    /\ MayClick /\ ctl \in {"connected", "connecting"}
    /\ SetDisconnecting /\ Queue("disconnect", "none")
    /\ UNCHANGED <<session, loc, sender, redial, request, loggedIn, owed, wanted, mode, firewall>>

LogoutClick(name) ==
    /\ MayClick /\ loggedIn /\ Queue(name, "none")
    /\ UNCHANGED <<session, ctl, loc, sender, redial, request, loggedIn, owed, wanted, mode, firewall>>

-----------------------------------------------------------------------------
(* The queued calls, one at a time on the engine's thread                  *)

Take(name) ==
    /\ ~redial /\ calls # <<>> /\ Head(calls).name = name /\ calls' = Tail(calls)

ConnectCall(ans) ==
    /\ Take("connect") /\ ConnectClickImpl(Head(calls).loc, ans) /\ wanted' = TRUE

\* The rest of onConnectionManagerDisconnected() after a reconnect's stop.
Redial(ans) == redial /\ ConnectClickImpl(loc, ans) /\ UNCHANGED <<calls, wanted>>

\* Mutant: the answer to a refetch still counts after the stop.
DisconnectClickImplFetching(ans) ==
    /\ Take("disconnect") /\ UNCHANGED fetching /\ wanted' = FALSE
    /\ ClickDisconnect("none", ans)
    /\ UNCHANGED <<loc, node, due, emitAuth, mode>>

DisconnectClickImpl(ans) ==
    /\ Take("disconnect") /\ fetching' = FALSE /\ wanted' = FALSE
    /\ ClickDisconnect("none", ans)
    /\ UNCHANGED <<loc, node, due, emitAuth, mode>>

\* Mutant: the second part of the log-out is left to whatever mark is there.
LogoutImplUnmarked(name, ans) ==
    /\ Take(name) /\ wanted' = FALSE /\ UNCHANGED <<loc, request, mode>>
    /\ \/ /\ phase # "off" /\ ClickDisconnect(name, ans)
       \/ /\ phase = "off" /\ Stopping(name)
          /\ UNCHANGED <<session, ctl, redial, loggedIn, firewall>>

\* First disconnect if there is a session, then do the rest of the log-out.
LogoutImpl(name, ans) ==
    /\ Take(name) /\ wanted' = FALSE /\ UNCHANGED <<loc, request, mode>>
    /\ \/ /\ phase # "off" /\ ClickDisconnect(name, ans)
       \/ /\ phase = "off"
          /\ \E off \in HelperAnswers : LogoutImplAfterDisconnect(fw, name = "logoutKeep", off)
          /\ UNCHANGED <<session, ctl, sender, redial, exempt>>

-----------------------------------------------------------------------------
(* Other slots of the engine's thread.  A click that does nothing on its    *)
(* caller's thread is not told from its slot running at some earlier time.  *)

OtherSlot == ~redial /\ UNCHANGED <<clicks, sender, redial, loggedIn, owed, wanted>>

FirewallOnImpl(ans) ==
    /\ OtherSlot /\ UNCHANGED <<session, ctl, request, mode, exempt>>
    /\ fw' = FirewallOn(fw, RulesFor(ctl, mode, exempt), ans)

FirewallOffImpl(ans) ==
    /\ OtherSlot /\ UNCHANGED <<session, ctl, request, mode, exempt>>
    /\ fw' = FirewallOff(fw, ans)

\* setSettingsImpl() of the firewall's settings
SetSettings(m, ans) ==
    /\ OtherSlot /\ m # mode /\ mode' = m
    /\ fw' = UpdateFirewallSettings(fw, ctl, m, exempt, ans)
    /\ UNCHANGED <<session, ctl, request, exempt>>

OnHostIPsChanged(ans) ==
    /\ OtherSlot /\ fw' = UpdateFirewallSettings(fw, ctl, mode, exempt, ans)
    /\ UNCHANGED <<session, ctl, request, mode, exempt>>

\* Mutant: the state is published only where the firewall changes.
ConnectingToHostnameQuiet(ans) ==
    /\ OtherSlot /\ phase = "trying" /\ exempt' = "server"
    /\ \/ exempt = "server" /\ SetConnecting /\ UNCHANGED fw
       \/ /\ UNCHANGED ctl
          /\ fw' = UpdateFirewallSettings(fw, "connecting", mode, "server", ans)
    /\ UNCHANGED <<session, request, mode>>

\* onConnectionManagerConnectingToHostname(): the address may be the one that
\* is exempt already.
ConnectingToHostname(ans) ==
    /\ OtherSlot /\ phase = "trying" /\ SetConnecting /\ exempt' = "server"
    /\ \/ exempt = "server" /\ UNCHANGED fw
       \/ fw' = UpdateFirewallSettings(fw, "connecting", mode, "server", ans)
    /\ UNCHANGED <<session, request, mode>>

\* The firewall part of onConnectionManagerConnected(); allow is FALSE for a
\* custom configuration that does not take the default route.
FirewallAfterConnection(allow, off, ans) ==
    LET f == SetVpnInterface(fw, "tun")
        g == IF FirewallActualState(f) /\ mode = "before" /\ ~allow THEN FirewallOff(f, off) ELSE f
    IN  IF FirewallActualState(g) \/ (mode = "after" /\ allow)
          THEN FirewallOn(g, WhileUp, ans) ELSE g

\* Mutant: the firewall keeps the rules of the connecting state.
ConnectedBeforeFirewall(allow, ans) ==
    /\ OtherSlot /\ phase = "trying" /\ Continue /\ phase' = "up"
    /\ node = "custom" \/ allow
    /\ SetConnected /\ fw' = SetVpnInterface(fw, "tun")
    /\ UNCHANGED <<request, mode, exempt>>

\* onConnectionManagerConnected()
Connected(allow, ans) ==
    /\ OtherSlot /\ phase = "trying" /\ Continue /\ phase' = "up"
    /\ node = "custom" \/ allow
    /\ SetConnected
    /\ \E off \in HelperAnswers : fw' = FirewallAfterConnection(allow, off, ans)
    /\ UNCHANGED <<request, mode, exempt>>

\* onConnectionManagerReconnecting(), with every loss of a tunnel
Reconnecting(ans) ==
    /\ OtherSlot /\ phase \in {"trying", "up"} /\ Continue /\ phase' \in {"trying", "parked"}
    /\ SetConnecting
    /\ fw' = UpdateFirewallSettings(fw, "connecting", mode, exempt, ans)
    /\ UNCHANGED <<request, mode, exempt>>

InterfaceUpdated(ans) ==
    /\ OtherSlot /\ phase \in {"trying", "up"}
    /\ fw' = UpdateFirewallSettings(SetVpnInterface(fw, "tun"), ctl, mode, exempt, ans)
    /\ UNCHANGED <<session, ctl, request, mode, exempt>>

\* What the manager does without a signal: an attempt waits for the network
\* or goes on, and the end of a session is decided.
SessionMoves ==
    /\ OtherSlot /\ UNCHANGED <<ctl, request, mode, firewall>>
    /\ \/ Continue /\ {phase, phase'} = {"trying", "parked"}
       \/ Decide /\ decided' # "user" /\ (decided' = Asking => node = "custom")

\* Wrong credentials are reported only when the request asked for it.
SessionEnded(ans) ==
    /\ ~redial
    /\ \/ /\ ReportOutcome
          /\ \/ question' /\ OnAuthError(ans)
             \/ told' = <<"error">> /\ node # "custom" /\ emitAuth /\ OnAuthError(ans)
             \/ ~question' /\ OnOutcome(fw, sender, ans) /\ UNCHANGED <<fetching, due>>
       \/ /\ EndAtOnce /\ phase # "off" /\ told' # <<"user">>
          /\ OnOutcome(fw, sender, ans) /\ UNCHANGED <<fetching, due>>
    /\ UNCHANGED <<loc, calls, node, emitAuth, wanted, mode>>

\* continueWith...Impl(): other credentials start the session again, none end it.
AnswerQuestion(ans) ==
    /\ ~redial /\ question
    /\ \/ StartSession(fw, ans) /\ wanted' = TRUE
       \/ ClickDisconnect(sender, ans) /\ wanted' = FALSE
    /\ UNCHANGED <<loc, calls, request, mode>>

\* onApiResourcesManagerServerCredentialsFetched()
ServerCredentialsFetched(ans) ==
    /\ ~redial /\ due /\ loggedIn /\ due' = FALSE /\ fetching' = FALSE
    /\ IF fetching THEN phase = "off" /\ DoConnect(fw, loc, FALSE, ans)
       ELSE UNCHANGED <<session, ctl, sender, redial, node, emitAuth, loggedIn, owed, firewall>>
    /\ UNCHANGED <<loc, calls, wanted, mode>>

\* The API forgets the requests of an account that was logged out.
LoginOk ==
    /\ ~redial /\ ~loggedIn /\ loggedIn' = TRUE /\ due' = FALSE
    /\ UNCHANGED <<session, ctl, clicks, sender, redial, node, fetching, emitAuth, owed, wanted, mode, firewall>>

-----------------------------------------------------------------------------
Next ==
    \/ \E l \in Locations : ConnectClick(l)
    \/ DisconnectClick
    \/ \E name \in {"logout", "logoutKeep"} : LogoutClick(name)
    \/ SessionMoves \/ LoginOk
    \/ \E ans \in HelperAnswers : FirewallOffImpl(ans)
    \/ \E ans \in AnswersToOn :
         \/ ConnectCall(ans) \/ Redial(ans) \/ DisconnectClickImpl(ans)
         \/ FirewallOnImpl(ans)
         \/ \E name \in {"logout", "logoutKeep"} : LogoutImpl(name, ans)
         \/ \E m \in Modes : SetSettings(m, ans)
         \/ OnHostIPsChanged(ans) \/ ConnectingToHostname(ans)
         \/ \E allow \in BOOLEAN : Connected(allow, ans)
         \/ Reconnecting(ans) \/ InterfaceUpdated(ans)
         \/ SessionEnded(ans) \/ AnswerQuestion(ans) \/ ServerCredentialsFetched(ans)

Spec == Init /\ [][Next]_evars

-----------------------------------------------------------------------------
(* Safety                                                                  *)

Idle == phase = "off" /\ calls = <<>> /\ ~redial /\ ~question /\ ~fetching

\* When every click has been carried out the front ends see a tunnel that is
\* up as connected, and see nothing going on when there is no session and
\* none is about to start: the clicks that publish a state ahead of the work
\* they queue are always caught up with.
\* (Idle leaves out a refetch of credentials, which keeps CONNECTING published
\* until its answer; a log-out during the refetch drops the answer and keeps
\* that state, which is therefore not claimed to be caught up with.)
PublishedStateCatchesUp ==
    /\ phase = "up" /\ calls = <<>> => ctl = "connected"
    /\ Idle => ctl = "disconnected"

\* Once a session has dialed, the published state claims a tunnel only when
\* the manager has one.  (Before, it may still be that of the previous session:
\* a connected() between a click and its call is published over the click's
\* CONNECTING, and the redial and the refetch of credentials leave it alone.)
ConnectedIsUp ==
    ctl = "connected" => phase \in {"up", "ending"} \/ exempt = "none"

\* With a tunnel up and the firewall on, the rules admit only the tunnel and
\* its server, whatever clicks, settings and address changes came in between,
\* unless the helper refused.
FirewallFollowsTunnel ==
    phase = "up" /\ calls = <<>> /\ fw.rules.on /\ ~fw.refused =>
        fw.rules.list = "strict" /\ fw.rules.ip = "server" /\ fw.rules.iface = fw.iface

\* After a session that did not end in an error the rules let the API through
\* again (not in Always On+) and name no tunnel.
FirewallReopens ==
    Idle /\ told # <<"error">> /\ told # <<>> /\ fw.rules.on /\ ~fw.refused =>
        fw.rules.list = (IF mode = "plus" THEN "strict" ELSE "open") /\ fw.rules.iface = "none"

\* What the controller remembers of the firewall is what is installed, so an
\* unchanged request may be dropped: whatever the helper refuses, and with a
\* clear that fails half-way as the only exception.
LatchIsTrue == LatchTrue(fw)

\* A mark is there only for the stop that it follows: it is never left for the
\* end of a later session.
MarkIsForThisStop == sender # "none" => phase = "ending"

\* A log-out that waits for the end of the session is carried out by that end.
LogoutIsKept == owed => phase = "ending"

\* A session starts only if the last click that was carried out asks for one:
\* not from the answer to a refetch, or the redial of a reconnect, that the
\* user's stop or log-out came after.
StartsOnlyWanted == [][phase = "off" /\ phase' \in Running => wanted']_evars

\* The firewall goes off by the user's own click, by a log-out, by the end of
\* a session the user stopped, or for a configuration that does not allow it:
\* never between the stop and the redial of a reconnect, nor by a failure.
FirewallLiftedOnPurpose ==
    [][fw.rules.on /\ ~fw'.rules.on =>
         \/ \E ans \in HelperAnswers : FirewallOffImpl(ans)
         \/ ~loggedIn'
         \/ phase' = "off" /\ told' = <<"user">> /\ ~redial'
         \/ phase' = "up" /\ node = "custom"]_evars
=============================================================================
