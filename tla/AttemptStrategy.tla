-------------------------- MODULE AttemptStrategy --------------------------
(***************************************************************************)
(* The connection attempt strategies of the client: which protocol and     *)
(* endpoint the next attempt of a session uses, when the walk over them is *)
(* exhausted, and how often a cached WireGuard configuration may be tried. *)
(* A strategy object is a record; its methods are operators on it.         *)
(* (src/client/engine/engine/connectionmanager/attemptstrategy)            *)
(***************************************************************************)
EXTENDS Integers, Sequences

CONSTANTS
    PortMap,         \* protocols of the API port map, in its order
    ManualProtocol,  \* the protocol a user of manual mode has chosen
    CustomProtocol,  \* the family of the custom configuration file
    LockdownMode,    \* macOS Lockdown Mode is on: the OS refuses IKEv2
    ProxyEnabled,    \* a LAN proxy is configured: OpenVPN UDP is unusable
    Ikev2Supported   \* the platform has an IKEv2 connector

Protocols == {"wireguard", "ikev2", "openvpn_udp", "openvpn_tcp"}
NoProtocol == "uninitialized"
Kinds == {"manual", "auto", "custom", "emergency"}

ASSUME PortMapAssumption == PortMap \in Seq(Protocols)
ASSUME ProtocolAssumption ==
    /\ ManualProtocol \in Protocols
    /\ CustomProtocol \in Protocols \ {"ikev2"}
ASSUME SwitchAssumption == LockdownMode \in BOOLEAN /\ ProxyEnabled \in BOOLEAN /\ Ikev2Supported \in BOOLEAN

\* kMaxCachedConfigAttempts
MaxCachedConfigAttempts == 2

-----------------------------------------------------------------------------
(* Construction *)

LockdownBlocks(p) == LockdownMode /\ p = "ikev2"

\* An automatic walk attempts every protocol that may be used twice.
AutoAttempts(alwaysOnPlus, usable) ==
    LET Allowed(p) == /\ ~(ProxyEnabled /\ p = "openvpn_udp")
                      /\ ~LockdownBlocks(p)
                      /\ ~(alwaysOnPlus /\ ~usable /\ p = "wireguard")
        kept == SelectSeq(PortMap, Allowed)
    IN  [i \in 1 .. 2 * Len(kept) |-> kept[(i + 1) \div 2]]

\* Manual WireGuard that cannot be attempted at all is replaced.
ManualAttempts(alwaysOnPlus, usable) ==
    LET Offered(p) == \E i \in DOMAIN PortMap : PortMap[i] = p
    IN  CASE ~(alwaysOnPlus /\ ~usable /\ ManualProtocol = "wireguard") -> <<ManualProtocol>>
          [] OTHER -> IF Ikev2Supported /\ Offered("ikev2") /\ ~LockdownBlocks("ikev2") THEN <<"ikev2">>
                      ELSE IF Offered("openvpn_udp") THEN <<"openvpn_udp">>
                      ELSE <<ManualProtocol>>

Walks == {AutoAttempts(a, u) : a, u \in BOOLEAN} \cup {ManualAttempts(a, u) : a, u \in BOOLEAN}
         \cup {<<CustomProtocol>>, <<"openvpn_udp">>}

Strategy == [kind : Kinds,             \* which class of strategy
             attempts : Walks,         \* the protocols of its attempts, in order
             pos : Nat,                \* curAttempt_, failedManualModeCounter_, currentEndpointIndex_
             allFailed : BOOLEAN,      \* bIsAllFailed_ of the automatic walk
             usable : BOOLEAN,         \* bHasUsableCachedConfig_
             cached : Nat,             \* cachedConfigAttempts_
             fetched : BOOLEAN,        \* isFetched_ of the emergency strategy
             endpoints : Nat]          \* size of its endpoint list

CreateStrategy(kind, alwaysOnPlus, usable) ==
    [kind |-> kind,
     attempts |-> CASE kind = "auto" -> AutoAttempts(alwaysOnPlus, usable)
                    [] kind = "manual" -> ManualAttempts(alwaysOnPlus, usable)
                    [] kind = "custom" -> <<CustomProtocol>>
                    [] kind = "emergency" -> <<"openvpn_udp">>,
     pos |-> 0, allFailed |-> FALSE,
     usable |-> usable /\ kind \in {"manual", "auto"},
     cached |-> 0, fetched |-> FALSE, endpoints |-> 0]

-----------------------------------------------------------------------------
(* Queries *)

IsAutomaticMode(s) == s.kind = "auto"
ShouldWaitForNetwork(s) == s.kind # "emergency"
ShouldRetryOnAttemptFailure(s) == s.kind = "emergency"
UsesConnectTimeout(s) == s.kind # "custom"
SurfacesTunnelTestFailure(s) == s.kind = "custom"
HasProtocolChanged(s) == s.kind = "auto" /\ s.pos % 2 = 0
ResolvesAsynchronously(s) == s.kind = "custom" \/ (s.kind = "emergency" /\ ~s.fetched)

IsFailed(s) ==
    \/ s.kind = "manual" /\ s.pos >= 2
    \/ s.kind = "auto" /\ s.allFailed
    \/ s.kind = "emergency" /\ s.fetched /\ s.pos >= s.endpoints

PreResolveProtocol(s) ==
    IF s.attempts = <<>> THEN NoProtocol
    ELSE IF s.kind = "auto" THEN s.attempts[s.pos + 1] ELSE s.attempts[1]

\* getCurrentConnectionSettings answers with an endpoint, not an error node;
\* a custom configuration has one when its DNS names resolved.
HasCurrentNode(s, customResolved) ==
    CASE s.kind = "manual" -> TRUE
      [] s.kind = "auto" -> s.attempts # <<>>
      [] s.kind = "custom" -> customResolved
      [] s.kind = "emergency" -> s.fetched /\ s.pos < s.endpoints

IsCachedConfigExhausted(s) == s.usable /\ s.cached >= MaxCachedConfigAttempts

\* The answer of takeCachedConfigAdvice; UseCachedOnly also consumes budget.
CachedConfigAdvice(s) ==
    IF s.usable /\ s.cached < MaxCachedConfigAttempts THEN "UseCachedOnly"
    ELSE IF IsAutomaticMode(s) THEN "Advance" ELSE "Abort"

-----------------------------------------------------------------------------
(* Updates *)

Reset(s) ==
    CASE s.kind = "custom" -> s
      [] OTHER -> [s EXCEPT !.pos = 0, !.allFailed = FALSE, !.fetched = FALSE, !.endpoints = 0]

\* The manual counter is only compared with 2, so it stops counting there.
PutFailedConnection(s) ==
    CASE s.kind = "manual" -> [s EXCEPT !.pos = IF s.pos < 2 THEN s.pos + 1 ELSE s.pos]
      [] s.kind = "auto" -> IF s.pos < Len(s.attempts) - 1
                            THEN [s EXCEPT !.pos = s.pos + 1]
                            ELSE [s EXCEPT !.allFailed = TRUE]
      [] s.kind = "custom" -> s
      [] s.kind = "emergency" -> IF s.fetched THEN [s EXCEPT !.pos = s.pos + 1] ELSE s

\* Mutants: a budget that a fresh fetch does not restore, or that counts down.
KeepCachedConfigBudget(s) == s
CountDownCachedAttempt(s) == [s EXCEPT !.cached = s.cached - 1]

ResetCachedConfigBudget(s) == [s EXCEPT !.cached = 0]
TakeCachedAttempt(s) == [s EXCEPT !.cached = s.cached + 1]
ForgetCachedConfig(s) == [s EXCEPT !.usable = FALSE]

OnEndpointsReceived(s, n) == [s EXCEPT !.fetched = TRUE, !.pos = 0, !.endpoints = n]

\* recordFailureAndAdvance: the walk after the failure, and whether to give up.
RecordFailure(s, succeededThisSession) ==
    LET failed == PutFailedConnection(s)
    IN  [walk |-> IF IsFailed(failed) /\ succeededThisSession
                  THEN ResetCachedConfigBudget(Reset(failed)) ELSE failed,
         giveUp |-> IsFailed(failed) /\ ~succeededThisSession]
=============================================================================
