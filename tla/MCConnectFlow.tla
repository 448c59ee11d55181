--------------------------- MODULE MCConnectFlow ---------------------------
(* Instances of ConnectFlow for TLC: the configured strategies and the     *)
(* ports of a proxy.                                                       *)
EXTENDS ConnectFlow, TLC

CONSTANTS i1, i2, p1, p2

TcpThenUdp == <<"TCP", "UDP">>
PortOfEach == [p \in Protocol |-> IF p = "TCP" THEN {p1} ELSE {p2}]

\* Nothing tells two activities apart.
Symmetry == Permutations({i1, i2})
=============================================================================
