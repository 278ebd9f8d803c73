------------------------ MODULE MCConnectionManager ------------------------
(* Values of the constants of ConnectionManager for model checking. *)
EXTENDS ConnectionManager

MCPortMap == <<"wireguard", "openvpn_udp">>
=============================================================================
