---------------------------- MODULE MCPortRollout ----------------------------
(* The values PortRollout is checked with: the API, a UDP inbound and the  *)
(* one that listens on both transports.  0177777 is 65535 for bash and     *)
(* 177777 for everybody else, 01 is a second spelling of 1, and the port   *)
(* that compose falls back to is in use.                                   *)
EXTENDS PortRollout

CONSTANT u1

Text(n) == [zeros |-> 0, number |-> n]
Zero(n) == [zeros |-> 1, number |-> n]

MCKeys == {"API_PORT", "HYSTERIA2_PORT", "SHADOWSOCKS_PORT"}
MCInbounds == MCKeys \ {"API_PORT"}
MCInitialEnv ==
    [k \in MCKeys |-> CASE k = "API_PORT" -> Text(1)
                        [] k = "SHADOWSOCKS_PORT" -> Text(2)
                        [] OTHER -> Text(1)]

\* In turn: no port, in conflict, out of range once it is applied, and applied
\* though Hysteria2 has the port already.
MCRequests ==
    {[HYSTERIA2_PORT |-> Zero(0)], [HYSTERIA2_PORT |-> Text(2)],
     [HYSTERIA2_PORT |-> Zero(177777)],
     [API_PORT |-> Text(2), SHADOWSOCKS_PORT |-> Zero(1)]}
MCBusy == {<<"tcp", 8337>>}
MCUsers == {u1}
=============================================================================
