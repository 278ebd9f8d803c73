------------------------- MODULE FirewallController -------------------------
(***************************************************************************)
(* The firewall controller of Linux and its base class: what was last      *)
(* applied is remembered, an unchanged request is not sent to the helper   *)
(* again, and a request the helper refuses is not remembered               *)
(* (src/client/engine/engine/firewall/firewallcontroller_linux.cpp).  The  *)
(* helper installs the rules in one transaction, and clears them in two    *)
(* (src/helper/linux/firewallcontroller.cpp).                              *)
(* Addresses are abstracted to the sets of the constants; the rules are    *)
(* what the helper has installed, the code sees only whether they exist.   *)
(***************************************************************************)

CONSTANTS
    Addresses,    \* connectingIp: the address of a server, or none
    AllowLists,   \* the sets of allowed addresses the engine computes
    Interfaces    \* names of the tunnel's interface, or none

\* A request of firewallOn(); up is isVpnConnected.
Requests == [kind : {"on"}, ip : Addresses, list : AllowLists, up : BOOLEAN]
\* The last applied request: none yet (bInitialized_), off, or one of them.
Unknown == [kind |-> "unknown"]
Off == [kind |-> "off"]

\* The rules name the interface, but not whether the tunnel is connected.
NoRules == [on |-> FALSE]
RulesOf(c, iface) == [on |-> TRUE, ip |-> c.ip, list |-> c.list, iface |-> iface]
RuleSets == {NoRules} \cup {RulesOf(c, i) : c \in Requests, i \in Interfaces}

FirewallStates ==
    [rules : RuleSets,                       \* installed by the helper
     latest : Requests \cup {Unknown, Off},  \* latestEnabledState_ and its companions
     iface : Interfaces,                     \* vpnInterface_
     force : BOOLEAN,                        \* forceUpdateVpnInterface_
     refused : BOOLEAN,                      \* history: the last request was refused
     half : BOOLEAN]                         \* history: by a clear that took the rules away

\* The helper refuses and changes nothing, or refuses to clear after the first
\* transaction, which has deleted the rules, when the second one fails.
Answers == {"done", "refused", "half"}

\* checkFirewallState() asks the helper, not the remembered state.
FirewallActualState(f) == f.rules.on

\* Mutant: the request is remembered before the helper has applied it.
CommitFirst(f, c, ans) ==
    IF f.latest = c /\ ~f.force THEN [f EXCEPT !.refused = FALSE]
    ELSE [f EXCEPT !.rules = IF ans = "done" THEN RulesOf(c, f.iface) ELSE @,
                   !.latest = c, !.force = FALSE, !.refused = (ans # "done"),
                   !.half = @ /\ ans # "done"]

\* An unchanged request is repeated only when the interface has changed.
FirewallOn(f, c, ans) ==
    IF f.latest = c /\ ~f.force THEN [f EXCEPT !.refused = FALSE]
    ELSE IF ans # "done" THEN [f EXCEPT !.refused = TRUE]
    ELSE [f EXCEPT !.rules = RulesOf(c, f.iface), !.latest = c,
                   !.force = FALSE, !.refused = FALSE, !.half = FALSE]

FirewallOff(f, ans) ==
    IF f.latest = Off THEN [f EXCEPT !.refused = FALSE]
    ELSE IF ans = "refused" THEN [f EXCEPT !.refused = TRUE]
    ELSE IF ans = "half" THEN [f EXCEPT !.rules = NoRules, !.refused = TRUE, !.half = TRUE]
    ELSE [f EXCEPT !.rules = NoRules, !.latest = Off, !.refused = FALSE, !.half = FALSE]

SetVpnInterface(f, i) ==
    IF f.iface = i THEN f ELSE [f EXCEPT !.iface = i, !.force = TRUE]

\* What is remembered is what is installed, up to a change of the interface
\* that is still to be sent; a clear that failed half-way, and nothing else, may
\* have taken the rules of a remembered request away.
LatchTrue(f) ==
    /\ f.latest = Off => f.rules = NoRules
    /\ f.latest \in Requests /\ f.half => f.rules = NoRules
    /\ f.latest \in Requests /\ ~f.half =>
         \E i \in Interfaces : f.rules = RulesOf(f.latest, i) /\ (f.force \/ i = f.iface)
=============================================================================
