----------------------------- MODULE Connectors -----------------------------
(***************************************************************************)
(* ConnectionFactory::createConnection() makes the connector of an attempt  *)
(* from its protocol; a WireGuard connector is dialled once its             *)
(* configuration was served                                                 *)
(* (.../connectionmanager/connectors/connectionfactory.cpp).  The classes   *)
(* with _win in their name are those of the Windows build.  A tunnel that   *)
(* an attempt brought up is tested; the tests share no state with its       *)
(* connector and are taken without it.                                      *)
(***************************************************************************)
EXTENDS OpenVPNConnection, WireGuardConnection, GetWireGuardConfig,
        IKEv2Connection_win, WireGuardConnection_win, TestVPNTunnel

VARIABLE made   \* the connector of the attempt, or "tunnel" for a tunnel that is up

vars == <<made, ov, wg, ik, ww, tt, gvars>>

Fetching == {"wireguard", "wireguard_win"}
Made == {"openvpn", "ikev2_win"} \cup Fetching

Init == made = "none" /\ OvInit /\ WgInit /\ IkInit /\ WwInit /\ TtInit /\ FetchInit

\* The other connectors read nothing of the fetch; they are made in the fetch's
\* initial state only. Nothing but the tests reads how they are configured.
CreateConnection(connector) ==
    /\ made = "none"
    /\ connector \notin Fetching => FetchInit
    /\ tt.config = Default
    /\ made' = connector
    /\ UNCHANGED <<ov, wg, ik, ww, tt, gvars>>

\* The attempt has ended in a tunnel.
TunnelIsUp ==
    /\ made = "none" /\ FetchInit
    /\ made' = "tunnel"
    /\ UNCHANGED <<ov, wg, ik, ww, tt, gvars>>

\* Earlier attempts and earlier runs of the client.
Earlier ==
    /\ made = "none" /\ tt.config = Default
    /\ FetchNext
    /\ UNCHANGED <<made, ov, wg, ik, ww, tt>>

\* prepare()
Prepare ==
    /\ made \in Fetching /\ ~wg.dialed /\ ~ww.dialed
    /\ FetchStep
    /\ UNCHANGED <<made, ov, wg, ik, ww, tt>>

IsPrepared == fetch.state \in Served

Next ==
    \/ \E connector \in Made : CreateConnection(connector)
    \/ Earlier \/ Prepare
    \/ made = "openvpn" /\ OvNext /\ UNCHANGED <<made, wg, ik, ww, tt, gvars>>
    \/ /\ made = "wireguard" /\ (wg.dialed \/ IsPrepared)
       /\ WgNext /\ UNCHANGED <<made, ov, ik, ww, tt, gvars>>
    \/ made = "ikev2_win" /\ IkNext /\ UNCHANGED <<made, ov, wg, ww, tt, gvars>>
    \/ /\ made = "wireguard_win" /\ (ww.dialed \/ IsPrepared)
       /\ WwNext /\ UNCHANGED <<made, ov, wg, ik, tt, gvars>>
    \/ TunnelIsUp
    \/ made = "tunnel" /\ TtNext /\ UNCHANGED <<made, ov, wg, ik, ww, gvars>>

Spec ==
    /\ Init /\ [][Next]_vars
    /\ OvFairness /\ WgFairness /\ IkFairness /\ WwFairness /\ TtFairness

-----------------------------------------------------------------------------
\* Every connector, the fetch and the tests keep their types and their retry limits.
TypeOK ==
    /\ made \in Made \cup {"none", "tunnel"}
    /\ OvTypeOK /\ WgTypeOK /\ IkTypeOK /\ WwTypeOK /\ FetchTypeOK /\ TtTypeOK

\* Whatever ends a worker, the system is as it was before the attempt: no
\* daemon or service is left, the hosts file and the DNS protection are restored.
EndsClean == DaemonIsStopped /\ HostsAreRestored /\ ServiceIsRemoved

\* Whichever connector the attempt made, it keeps the promise of IConnection:
\* no signal after it has settled, every stop is answered, the worker ends.
ConnectorsImplement ==
    /\ OvImplementsConnector /\ WgImplementsConnector
    /\ IkImplementsConnector /\ WwImplementsConnector
=============================================================================
