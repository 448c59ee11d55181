--------------------------- MODULE MCTunnelConfig ---------------------------
(* TunnelConfig with five configurations for TLC: three of one server, of   *)
(* which one has no DNS server, one of another server that pushes the own   *)
(* network of the tunnel with a foreign gateway, and one with IPv6 only.    *)
EXTENDS TunnelConfig, TLC

CONSTANTS a1, a2, a6, n1, n2, lan, n6, s1, s2, dom1, dom2, prox

MCAddresses == {a1, a2}
MCNets == {n1, n2, lan}
MCOwnNet == (a1 :> {n1}) @@ (a2 :> {})
MCOnTunnel == (a1 :> {n2}) @@ (a2 :> {n1})

First == [ip |-> a1, ip6 |-> None, routes |-> {n2}, routes6 |-> {}, dns |-> <<s1>>,
          domain |-> dom1, proxy |-> None]
Renumbered == [First EXCEPT !.ip = a2, !.routes = {n1, n2}, !.dns = <<s1, s2>>]
Serverless == [First EXCEPT !.dns = << >>]
Second == [First EXCEPT !.ip6 = a6, !.routes = {n1, n2}, !.routes6 = {n6}, !.dns = <<s2>>, !.domain = dom2, !.proxy = prox]
Only6 == [Second EXCEPT !.ip = None, !.domain = None]
MCConfigurations == {First, Renumbered, Serverless, Second, Only6}
MCConfigurations2 == {First, Renumbered}
=============================================================================
