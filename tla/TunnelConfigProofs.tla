------------------------- MODULE TunnelConfigProofs -------------------------
(***************************************************************************)
(* Proofs about TunnelConfig, for every set of configurations. What the    *)
(* lists hold in the middle of a round is described by what the process    *)
(* has not sent yet: a clean round completes to the requested tunnel, and  *)
(* a round on top of a kept tunnel that names DNS servers has more of them *)
(* than that one, so it is never taken for it.                             *)
(***************************************************************************)
EXTENDS TunnelConfig, TLAPS

\* What has been sent, by the question that comes next
Progress ==
    /\ phase \in Asking \ {"ifconfig"} => todo.ip = None
    /\ phase \in Asking \ {"ifconfig", "ifconfig6"} => todo.ip6 = None
    /\ phase \in {"proxy", "persist", "opentun"} =>
          todo.routes = {} /\ todo.routes6 = {} /\ todo.dns = << >> /\ todo.domain = None
    /\ phase \in {"persist", "opentun"} => todo.proxy = None

\* The last configuration is the one of the tunnel in use.
LastIsTun == tun # None => mLastTunCfg = tun

\* The routes that will be collected when everything was sent
Reached == Add(Add(mRoutes, InterfaceRoutes(todo.ip)), CollectedRoutes(want.ip, todo.routes))
Reached6 == Add(mRoutesv6, Marked(Nets6, todo.routes6, "include"))

\* The lists and what is still to be sent make up the request.
PartialDns == /\ Len(mDnslist) + Len(todo.dns) = Len(want.dns)
              /\ \A i \in 1 .. Len(mDnslist) : mDnslist[i] = want.dns[i]
              /\ \A i \in 1 .. Len(todo.dns) : todo.dns[i] = want.dns[Len(mDnslist) + i]
PartialRoutes == Requested(want).routes = Reached /\ Requested(want).routes6 = Reached6
PartialItems == /\ want.ip = IF todo.ip # None THEN todo.ip ELSE mLocalIP
                /\ want.ip6 = IF todo.ip6 # None THEN todo.ip6 ELSE mLocalIPv6
                /\ want.domain = IF mDomain = None THEN todo.domain ELSE mDomain
                /\ want.proxy = IF todo.proxy # None THEN todo.proxy ELSE mProxyInfo
CleanUp == clean /\ phase \in {"up", "down"} => getTunConfigString = Empty
CleanAsking == clean /\ phase \in Asking => PartialItems /\ PartialRoutes /\ PartialDns

\* After a tunnel was kept, the lists start from its configuration.
LeftUp == ~clean /\ phase = "up" => getTunConfigString = mLastTunCfg
LeftAsking == ~clean /\ phase \in Asking /\ tun # None =>
                Len(mDnslist) = Len(mLastTunCfg.dns) + Len(want.dns) - Len(todo.dns)

\* The lists and what is still to be sent cover the request.
Within(all, a, b) == \A net \in all : a[net] # "absent" => b[net] # "absent"
CoversItems == /\ want.ip # None => want.ip = IF todo.ip # None THEN todo.ip ELSE mLocalIP
               /\ want.ip6 # None => want.ip6 = IF todo.ip6 # None THEN todo.ip6 ELSE mLocalIPv6
               /\ want.proxy # None => want.proxy = IF todo.proxy # None THEN todo.proxy ELSE mProxyInfo
CoversRoutes ==
    Within(Nets, Requested(want).routes, Reached) /\ Within(Nets6, Requested(want).routes6, Reached6)
CoversDns == \A i \in DOMAIN want.dns :
                \/ \E j \in DOMAIN mDnslist : mDnslist[j] = want.dns[i]
                \/ \E j \in DOMAIN todo.dns : todo.dns[j] = want.dns[i]
Covers == phase \in Asking => CoversItems /\ CoversRoutes /\ CoversDns

IInv == /\ TypeOK /\ Progress /\ LastIsTun
        /\ CleanUp /\ CleanAsking /\ LeftUp /\ LeftAsking
        /\ Covers /\ NothingMissing

-----------------------------------------------------------------------------
(* Types.                                                                  *)

FieldTypes == /\ mLocalIP \in Addresses \cup {None} /\ mLocalIPv6 \in Addresses6 \cup {None}
              /\ mRoutes \in [Nets -> Flags] /\ mRoutesv6 \in [Nets6 -> Flags]
              /\ mDnslist \in Seq(Servers) /\ mDomain \in Domains \cup {None}
              /\ mProxyInfo \in Proxies \cup {None}

\* The collected fields have their types exactly when the string they are
\* printed to is that of a tunnel.
LEMMA Fields == getTunConfigString \in Tunnel <=> FieldTypes
BY DEF getTunConfigString, Tunnel, FieldTypes

ConfigurationTypes(c) ==
    /\ c.ip \in Addresses \cup {None} /\ c.ip6 \in Addresses6 \cup {None}
    /\ c.routes \in SUBSET Nets /\ c.routes6 \in SUBSET Nets6
    /\ c.dns \in Seq(Servers) /\ c.domain \in Domains \cup {None}
    /\ c.proxy \in Proxies \cup {None}

\* What the parts of a configuration are.
LEMMA ConfigurationParts == ASSUME NEW c \in Configuration PROVE ConfigurationTypes(c)
BY DEF Configuration, ConfigurationTypes

\* A configuration with one part replaced is a configuration.
LEMMA ConfigurationExcept ==
    ASSUME NEW c \in Configuration
    PROVE /\ [c EXCEPT !.ip = None] \in Configuration
          /\ [c EXCEPT !.ip6 = None] \in Configuration
          /\ [c EXCEPT !.domain = None] \in Configuration
          /\ [c EXCEPT !.proxy = None] \in Configuration
          /\ \A net : [c EXCEPT !.routes = @ \ {net}] \in Configuration
          /\ \A net : [c EXCEPT !.routes6 = @ \ {net}] \in Configuration
          /\ c.dns # << >> => [c EXCEPT !.dns = Tail(@)] \in Configuration
<1>1. /\ [c EXCEPT !.ip = None] \in Configuration
      /\ [c EXCEPT !.ip6 = None] \in Configuration
      /\ [c EXCEPT !.domain = None] \in Configuration
      /\ [c EXCEPT !.proxy = None] \in Configuration
  BY DEF Configuration
<1>2. ASSUME NEW net PROVE [c EXCEPT !.routes = @ \ {net}] \in Configuration
  BY DEF Configuration
<1>3. ASSUME NEW net PROVE [c EXCEPT !.routes6 = @ \ {net}] \in Configuration
  BY DEF Configuration
<1>4. ASSUME c.dns # << >> PROVE [c EXCEPT !.dns = Tail(@)] \in Configuration
  <2>1. Tail(c.dns) \in Seq(Servers)
    BY <1>4 DEF Configuration
  <2> QED BY <2>1 DEF Configuration
<1> QED BY <1>1, <1>2, <1>3, <1>4

\* What is marked is a flag for each network.
LEMMA MarkedTypes ==
    ASSUME NEW all, NEW nets, NEW flag \in Flags PROVE Marked(all, nets, flag) \in [all -> Flags]
BY DEF Marked, Flags

\* TreeSet.add of routes to routes gives routes, and has what either has.
LEMMA AddRoutes ==
    ASSUME NEW all, NEW a \in [all -> Flags], NEW b \in [all -> Flags]
    PROVE /\ Add(a, b) \in [all -> Flags]
          /\ \A net \in all : Add(a, b)[net] = IF a[net] = "absent" THEN b[net] ELSE a[net]
BY DEF Add

\* Adding nothing, or to nothing, changes nothing.
LEMMA AddNothing ==
    ASSUME NEW all, NEW a \in [all -> Flags], NEW flag
    PROVE /\ Add(a, Marked(all, {}, flag)) = a
          /\ Add(Marked(all, {}, flag), a) = a
<1>1. \A net \in all : Marked(all, {}, flag)[net] = "absent"
  BY DEF Marked
<1>2. DOMAIN Marked(all, {}, flag) = all
  BY DEF Marked
<1>3. Add(a, Marked(all, {}, flag)) = a
  BY <1>1 DEF Add
<1>4. Add(Marked(all, {}, flag), a) = a
  BY <1>1, <1>2 DEF Add
<1> QED BY <1>3, <1>4

\* What setLocalIP and addRoute add are routes.
LEMMA RouteTypes ==
    ASSUME NEW ip, NEW nets
    PROVE /\ NoRoutes \in [Nets -> Flags] /\ NoRoutes6 \in [Nets6 -> Flags]
          /\ InterfaceRoutes(ip) \in [Nets -> Flags]
          /\ CollectedRoutes(ip, nets) \in [Nets -> Flags]
          /\ Marked(Nets6, nets, "include") \in [Nets6 -> Flags]
<1> "absent" \in Flags /\ "include" \in Flags /\ "exclude" \in Flags
  BY DEF Flags
<1>1. NoRoutes \in [Nets -> Flags] /\ NoRoutes6 \in [Nets6 -> Flags]
  BY MarkedTypes DEF NoRoutes, NoRoutes6
<1>2. InterfaceRoutes(ip) \in [Nets -> Flags]
  BY <1>1, MarkedTypes DEF InterfaceRoutes
<1>3. CollectedRoutes(ip, nets) \in [Nets -> Flags]
  <2>1. Add(Marked(Nets, nets \cap OnTunnel[ip], "include"), Marked(Nets, nets, "exclude")) \in [Nets -> Flags]
    BY MarkedTypes, AddRoutes
  <2> QED BY <1>1, <2>1 DEF CollectedRoutes
<1> QED BY <1>1, <1>2, <1>3, MarkedTypes

\* Nothing is collected for no address and no networks.
LEMMA NothingCollected ==
    ASSUME NEW ip
    PROVE InterfaceRoutes(None) = NoRoutes /\ CollectedRoutes(ip, {}) = NoRoutes
<1>1. Add(Marked(Nets, {} \cap OnTunnel[ip], "include"), Marked(Nets, {}, "exclude")) = NoRoutes
  BY DEF Add, Marked, NoRoutes
<1> QED BY <1>1 DEF InterfaceRoutes, CollectedRoutes

\* A tunnel with excluded networks added is a tunnel.
LEMMA LocalTypes ==
    ASSUME NEW t \in Tunnel, NEW local, NEW local6
    PROVE WithLocal(t, local, local6) \in Tunnel
<1>1. t.routes \in [Nets -> Flags] /\ t.routes6 \in [Nets6 -> Flags]
  BY DEF Tunnel
<1>2. Marked(Nets, local, "exclude") \in [Nets -> Flags] /\ Marked(Nets6, local6, "exclude") \in [Nets6 -> Flags]
  BY MarkedTypes DEF Flags
<1>3. /\ Add(t.routes, Marked(Nets, local, "exclude")) \in [Nets -> Flags]
      /\ Add(t.routes6, Marked(Nets6, local6, "exclude")) \in [Nets6 -> Flags]
  BY <1>1, <1>2, AddRoutes
<1> QED BY <1>3 DEF WithLocal, Tunnel

\* The variables keep their types (every handler of the questions, openTun,
\* and the ends and starts of processes).
LEMMA TypeStep == TypeOK /\ [Next]_vars => TypeOK'
<1> SUFFICES ASSUME TypeOK, [Next]_vars PROVE TypeOK'
  OBVIOUS
<1> USE DEF Asking
<1>a. FieldTypes /\ (getTunConfigString \in Tunnel)
  BY Fields DEF TypeOK
<1>f. (getTunConfigString \in Tunnel)' <=> FieldTypes'
  BY Fields, PTL
<1>b. want \in Configuration /\ ConfigurationTypes(want) /\ ConfigurationTypes(todo)
  BY ConfigurationParts, ConstantAssumption DEF TypeOK
<1>c. None \in Addresses \cup {None} /\ None \in Addresses6 \cup {None} /\ NoRoutes \in [Nets -> Flags]
      /\ NoRoutes6 \in [Nets6 -> Flags] /\ << >> \in Seq(Servers) /\ None \in Domains \cup {None}
      /\ None \in Proxies \cup {None}
  BY RouteTypes
<1>1. CASE StartProcess
  BY <1>1, <1>a, <1>f, ConstantAssumption DEF StartProcess, Begin, TypeOK, FieldTypes, collected
<1>2. CASE Restart
  BY <1>2, <1>a, <1>f, ConstantAssumption DEF Restart, Begin, TypeOK, FieldTypes, collected
<1>3. CASE Exit
  BY <1>3, <1>a, <1>f DEF Exit, TypeOK, FieldTypes, collected
<1>4. CASE Recreate
  BY <1>4, <1>c, <1>f DEF Recreate, TypeOK, FieldTypes
<1>5. CASE IFCONFIG
  <2>1. Add(mRoutes, InterfaceRoutes(todo.ip)) \in [Nets -> Flags]
    BY <1>a, RouteTypes, AddRoutes DEF FieldTypes
  <2>2. todo' \in Configuration
    BY <1>5, ConfigurationExcept DEF IFCONFIG, TypeOK
  <2> QED BY <1>5, <1>a, <1>b, <1>f, <2>1, <2>2 DEF IFCONFIG, Ask, TypeOK, FieldTypes, ConfigurationTypes
<1>6. CASE IFCONFIG6
  <2>1. todo' \in Configuration
    BY <1>6, ConfigurationExcept DEF IFCONFIG6, TypeOK
  <2> QED BY <1>6, <1>a, <1>b, <1>f, <2>1 DEF IFCONFIG6, Ask, TypeOK, FieldTypes, ConfigurationTypes
<1>7. CASE ROUTE
  <2>0. PICK net \in todo.routes : ROUTE!(net)
    BY <1>7 DEF ROUTE
  <2>1. Add(mRoutes, CollectedRoutes(mLocalIP, {net})) \in [Nets -> Flags]
    BY <1>a, RouteTypes, AddRoutes DEF FieldTypes
  <2>2. todo' \in Configuration
    BY <2>0, ConfigurationExcept DEF TypeOK
  <2> QED BY <2>0, <1>a, <1>f, <2>1, <2>2 DEF Ask, TypeOK, FieldTypes
<1>8. CASE ROUTE6
  <2>0. PICK net \in todo.routes6 : ROUTE6!(net)
    BY <1>8 DEF ROUTE6
  <2>1. Add(mRoutesv6, Marked(Nets6, {net}, "include")) \in [Nets6 -> Flags]
    BY <1>a, RouteTypes, AddRoutes DEF FieldTypes
  <2>2. todo' \in Configuration
    BY <2>0, ConfigurationExcept DEF TypeOK
  <2> QED BY <2>0, <1>a, <1>f, <2>1, <2>2 DEF Ask, TypeOK, FieldTypes
<1>9. CASE DNSSERVER
  <2>1. mDnslist' \in Seq(Servers)
    BY <1>9, <1>a, <1>b DEF DNSSERVER, FieldTypes, ConfigurationTypes
  <2>2. todo' \in Configuration
    BY <1>9, ConfigurationExcept DEF DNSSERVER, TypeOK
  <2> QED BY <1>9, <1>a, <1>f, <2>1, <2>2 DEF DNSSERVER, Ask, TypeOK, FieldTypes
<1>10. CASE DNSDOMAIN
  <2>2. todo' \in Configuration
    BY <1>10, ConfigurationExcept DEF DNSDOMAIN, TypeOK
  <2> QED BY <1>10, <1>a, <1>b, <1>f, <2>2 DEF DNSDOMAIN, Ask, TypeOK, FieldTypes, ConfigurationTypes
<1>11. CASE HTTPPROXY
  <2>2. todo' \in Configuration
    BY <1>11, ConfigurationExcept DEF HTTPPROXY, TypeOK
  <2> QED BY <1>11, <1>a, <1>b, <1>f, <2>2 DEF HTTPPROXY, Ask, TypeOK, FieldTypes, ConfigurationTypes
<1>12. CASE PERSIST_TUN_ACTION
  BY <1>12, <1>a, <1>f DEF PERSIST_TUN_ACTION, TypeOK, FieldTypes, collected
<1>13. CASE OPENTUN
  <2>1. mLastTunCfg' \in Tunnel
    BY <1>13, <1>a, LocalTypes DEF OPENTUN
  <2> QED BY <1>13, <1>c, <1>f, <2>1 DEF OPENTUN, Reset, TypeOK, FieldTypes
<1>14. CASE EstablishFails
  <2>1. mLastTunCfg' \in Tunnel
    BY <1>14, <1>a, LocalTypes DEF EstablishFails
  <2> QED BY <1>14, <1>c, <1>f, <2>1 DEF EstablishFails, Reset, TypeOK, FieldTypes
<1>15. CASE AddressRefused
  <2>1. PICK local \in SUBSET LocalNets, local6 \in SUBSET LocalNets6 :
           /\ mRoutes' = Add(mRoutes, Marked(Nets, local, "exclude"))
           /\ mRoutesv6' = Add(mRoutesv6, Marked(Nets6, local6, "exclude"))
    BY <1>15 DEF AddressRefused
  <2>2. Marked(Nets, local, "exclude") \in [Nets -> Flags] /\ Marked(Nets6, local6, "exclude") \in [Nets6 -> Flags]
    BY MarkedTypes DEF Flags
  <2>3. mRoutes' \in [Nets -> Flags] /\ mRoutesv6' \in [Nets6 -> Flags]
    BY <1>a, <2>1, <2>2, AddRoutes DEF FieldTypes
  <2> QED BY <1>15, <1>a, <1>f, <2>3 DEF AddressRefused, TypeOK, FieldTypes
<1>16. CASE UNCHANGED vars
  BY <1>16, <1>a, <1>f DEF vars, TypeOK, FieldTypes
<1> QED
  BY <1>1, <1>2, <1>3, <1>4, <1>5, <1>6, <1>7, <1>8, <1>9, <1>10, <1>11, <1>12, <1>13, <1>14, <1>15, <1>16 DEF Next

-----------------------------------------------------------------------------
(* The steps.                                                              *)

\* What stays true of a step that asks for something: the parts of the
\* invariant about processes that ask nothing.
LEMMA AskStep ==
    ASSUME IInv, NEW now \in Asking, NEW next \in Asking, Ask(now, next)
    PROVE LastIsTun' /\ CleanUp' /\ LeftUp' /\ NothingMissing'
BY DEF Asking, IInv, Ask, LastIsTun, CleanUp, LeftUp, NothingMissing

\* One of the routes that are still to be sent, and the others: the order in
\* which they are added makes no difference.
LEMMA RouteSplit ==
    ASSUME NEW ip, NEW nets, NEW net \in nets, NEW m \in [Nets -> Flags], NEW m6 \in [Nets6 -> Flags]
    PROVE /\ Add(m, CollectedRoutes(ip, nets))
                = Add(Add(m, CollectedRoutes(ip, {net})), CollectedRoutes(ip, nets \ {net}))
          /\ Add(m6, Marked(Nets6, nets, "include"))
                = Add(Add(m6, Marked(Nets6, {net}, "include")), Marked(Nets6, nets \ {net}, "include"))
<1>1. Add(m, CollectedRoutes(ip, nets))
         = Add(Add(m, CollectedRoutes(ip, {net})), CollectedRoutes(ip, nets \ {net}))
  <2>1. CASE ip = None
    BY <2>1, AddNothing DEF CollectedRoutes, NoRoutes
  <2>2. CASE ip # None
    <3> DEFINE flag(n) == IF n \in OnTunnel[ip] THEN "include" ELSE "exclude"
    <3>1. ASSUME NEW part PROVE CollectedRoutes(ip, part) = [n \in Nets |-> IF n \in part THEN flag(n) ELSE "absent"]
      BY <2>2 DEF CollectedRoutes, Add, Marked
    <3> HIDE DEF flag
    <3>2. \A n : flag(n) # "absent"
      BY DEF flag
    <3> QED BY <3>1, <3>2 DEF Add
  <2> QED BY <2>1, <2>2
<1>2. Add(m6, Marked(Nets6, nets, "include"))
         = Add(Add(m6, Marked(Nets6, {net}, "include")), Marked(Nets6, nets \ {net}, "include"))
  BY DEF Add, Marked
<1> QED BY <1>1, <1>2

\* What remains of a list when its first element is appended to another one.
LEMMA TailAppend ==
    ASSUME NEW S, NEW l \in Seq(S), NEW t \in Seq(S), t # << >>
    PROVE /\ Len(l) \in Nat /\ Len(t) \in Nat
          /\ Len(Append(l, Head(t))) = Len(l) + 1 /\ Len(Tail(t)) = Len(t) - 1
          /\ \A i \in 1 .. Len(l) : Append(l, Head(t))[i] = l[i]
          /\ Append(l, Head(t))[Len(l) + 1] = t[1]
          /\ \A i \in 1 .. Len(t) - 1 : Tail(t)[i] = t[i + 1]
          /\ DOMAIN l = 1 .. Len(l) /\ DOMAIN t = 1 .. Len(t)
          /\ DOMAIN Append(l, Head(t)) = 1 .. Len(l) + 1 /\ DOMAIN Tail(t) = 1 .. Len(t) - 1
OBVIOUS

\* A new round, from the same lists.
LEMMA BeginStep ==
    ASSUME IInv, NEW c \in Configurations, Begin(c), UNCHANGED <<collected, mLastTunCfg, clean>>,
           phase \in {"up", "down"}, tun' \in {tun, None}
    PROVE IInv'
<1> USE DEF Asking
<1>1. TypeOK'
  BY Fields, ConstantAssumption DEF IInv, TypeOK, Begin, collected, getTunConfigString
<1>2. ConfigurationTypes(c) /\ FieldTypes
  BY ConfigurationParts, ConstantAssumption, Fields DEF IInv, TypeOK
<1>3. want' = c /\ todo' = c /\ phase' = "ifconfig"
  BY DEF Begin
<1>4. Progress' /\ LastIsTun' /\ CleanUp' /\ LeftUp' /\ NothingMissing'
  BY <1>3 DEF Progress, LastIsTun, CleanUp, LeftUp, NothingMissing, IInv
<1>5. CleanAsking'
  <2>1. ASSUME clean
        PROVE /\ mLocalIP = None /\ mLocalIPv6 = None /\ mRoutes = NoRoutes /\ mRoutesv6 = NoRoutes6
              /\ mDnslist = << >> /\ mDomain = None /\ mProxyInfo = None
    BY <2>1 DEF IInv, CleanUp, getTunConfigString, Empty
  <2>2. ASSUME clean PROVE PartialItems'
    BY <1>3, <2>1, <2>2 DEF PartialItems, collected
  <2>3. ASSUME clean PROVE PartialRoutes'
    <3>1. Add(NoRoutes, InterfaceRoutes(c.ip)) = InterfaceRoutes(c.ip)
          /\ Add(NoRoutes6, Marked(Nets6, c.routes6, "include")) = Marked(Nets6, c.routes6, "include")
      BY RouteTypes, AddNothing DEF NoRoutes, NoRoutes6
    <3>2. mRoutes' = NoRoutes /\ mRoutesv6' = NoRoutes6
      BY <2>1, <2>3 DEF collected
    <3> QED BY <1>3, <3>1, <3>2 DEF PartialRoutes, Reached, Reached6, Requested
  <2>4. ASSUME clean PROVE PartialDns'
    BY <1>2, <1>3, <2>1, <2>4 DEF PartialDns, collected, ConfigurationTypes
  <2> QED BY <2>2, <2>3, <2>4 DEF CleanAsking
<1>6. LeftAsking'
  <2>1. SUFFICES ASSUME ~clean, tun' # None
                 PROVE Len(mDnslist) = Len(mLastTunCfg.dns) + Len(c.dns) - Len(c.dns)
    BY <1>3 DEF LeftAsking, collected
  <2>2. phase = "up"
    BY <2>1 DEF IInv, TypeOK
  <2>3. mDnslist = mLastTunCfg.dns
    BY <2>1, <2>2 DEF IInv, LeftUp, getTunConfigString
  <2>4. Len(mDnslist) \in Int /\ Len(c.dns) \in Int
    BY <1>2 DEF FieldTypes, ConfigurationTypes
  <2> QED BY <2>3, <2>4
<1>7. Covers'
  <2>1. CoversRoutes'
    <3>1. InterfaceRoutes(c.ip) \in [Nets -> Flags] /\ CollectedRoutes(c.ip, c.routes) \in [Nets -> Flags]
          /\ Marked(Nets6, c.routes6, "include") \in [Nets6 -> Flags]
          /\ mRoutes \in [Nets -> Flags] /\ mRoutesv6 \in [Nets6 -> Flags]
      BY <1>2, RouteTypes DEF FieldTypes
    <3>2. Add(mRoutes, InterfaceRoutes(c.ip)) \in [Nets -> Flags]
      BY <3>1, AddRoutes
    <3>3. Within(Nets, Add(InterfaceRoutes(c.ip), CollectedRoutes(c.ip, c.routes)),
                 Add(Add(mRoutes, InterfaceRoutes(c.ip)), CollectedRoutes(c.ip, c.routes)))
      BY <3>1, <3>2, AddRoutes DEF Within
    <3>4. Within(Nets6, Marked(Nets6, c.routes6, "include"), Add(mRoutesv6, Marked(Nets6, c.routes6, "include")))
      BY <3>1, AddRoutes DEF Within
    <3>5. /\ Requested(c).routes = Add(InterfaceRoutes(c.ip), CollectedRoutes(c.ip, c.routes))
          /\ Requested(c).routes6 = Marked(Nets6, c.routes6, "include")
      BY DEF Requested
    <3>6. Reached' = Add(Add(mRoutes, InterfaceRoutes(c.ip)), CollectedRoutes(c.ip, c.routes))
          /\ Reached6' = Add(mRoutesv6, Marked(Nets6, c.routes6, "include"))
          /\ Requested(want)' = Requested(c)
      BY <1>3 DEF Reached, Reached6, Requested, collected
    <3> QED BY <3>3, <3>4, <3>5, <3>6 DEF CoversRoutes, Within
  <2>2. CoversItems' /\ CoversDns'
    BY <1>3 DEF CoversItems, CoversDns
  <2> QED BY <2>1, <2>2 DEF Covers
<1> QED BY <1>1, <1>4, <1>5, <1>6, <1>7 DEF IInv

\* The address of a round.
LEMMA IFCONFIGStep == IInv /\ IFCONFIG => IInv'
<1> SUFFICES ASSUME IInv, IFCONFIG PROVE IInv'
  OBVIOUS
<1> USE DEF Asking
<1>0. TypeOK' /\ TypeOK /\ FieldTypes /\ ConfigurationTypes(want) /\ todo \in Configuration
      /\ ConfigurationTypes(todo) /\ ConfigurationTypes(todo')
  BY TypeStep, Fields, ConfigurationParts, ConstantAssumption DEF Next, IInv, TypeOK
<1>1. /\ todo'.ip = None /\ todo'.ip6 = todo.ip6 /\ todo'.routes = todo.routes
      /\ todo'.routes6 = todo.routes6 /\ todo'.dns = todo.dns /\ todo'.domain = todo.domain
      /\ todo'.proxy = todo.proxy
  BY <1>0 DEF IFCONFIG, Configuration
<1>2. /\ phase = "ifconfig" /\ phase' = "ifconfig6"
      /\ UNCHANGED <<mLastTunCfg, want, tun, clean>>
  BY DEF IFCONFIG, Ask
<1>3. Progress'
  BY <1>1, <1>2 DEF Progress
<1>4. LastIsTun' /\ CleanUp' /\ LeftUp' /\ NothingMissing'
  BY AskStep DEF IFCONFIG
<1>r. Reached' = Reached /\ Reached6' = Reached6
  <2>1. Add(mRoutes, InterfaceRoutes(todo.ip)) \in [Nets -> Flags]
    BY <1>0, RouteTypes, AddRoutes DEF FieldTypes
  <2>2. mRoutes' = Add(mRoutes, InterfaceRoutes(todo.ip)) /\ InterfaceRoutes(todo'.ip) = NoRoutes
    BY <1>1, NothingCollected DEF IFCONFIG
  <2>3. Add(mRoutes', InterfaceRoutes(todo'.ip)) = mRoutes'
    BY <2>1, <2>2, AddNothing DEF NoRoutes
  <2>4. mRoutesv6' = mRoutesv6
    BY DEF IFCONFIG
  <2> QED BY <1>1, <1>2, <2>2, <2>3, <2>4 DEF Reached, Reached6
<1>5. CleanAsking'
  <2>1. SUFFICES ASSUME clean PROVE PartialItems' /\ PartialRoutes' /\ PartialDns'
    BY <1>2 DEF CleanAsking
  <2>2. PartialItems /\ PartialRoutes /\ PartialDns
    BY <1>2, <2>1 DEF IInv, CleanAsking
  <2>3. PartialItems'
    BY <1>1, <1>2, <2>2 DEF PartialItems, IFCONFIG
  <2>4. PartialRoutes'
    BY <1>r, <1>2, <2>2 DEF PartialRoutes, Requested
  <2>5. PartialDns'
    BY <1>1, <1>2, <2>2 DEF PartialDns, IFCONFIG
  <2> QED BY <2>3, <2>4, <2>5
<1>6. LeftAsking'
  BY <1>1, <1>2 DEF IInv, LeftAsking, IFCONFIG
<1>7. Covers'
  <2>1. CoversItems /\ CoversRoutes /\ CoversDns
    BY <1>2 DEF IInv, Covers
  <2>2. CoversItems'
    BY <1>1, <1>2, <2>1 DEF CoversItems, IFCONFIG
  <2>3. CoversRoutes'
    BY <1>r, <1>2, <2>1 DEF CoversRoutes, Within, Requested
  <2>4. CoversDns'
    BY <1>1, <1>2, <2>1 DEF CoversDns, IFCONFIG
  <2> QED BY <2>2, <2>3, <2>4 DEF Covers
<1> QED BY <1>0, <1>3, <1>4, <1>5, <1>6, <1>7 DEF IInv

\* The IPv6 address of a round.
LEMMA IFCONFIG6Step == IInv /\ IFCONFIG6 => IInv'
<1> SUFFICES ASSUME IInv, IFCONFIG6 PROVE IInv'
  OBVIOUS
<1> USE DEF Asking
<1>0. TypeOK' /\ TypeOK /\ FieldTypes /\ ConfigurationTypes(want) /\ todo \in Configuration
      /\ ConfigurationTypes(todo) /\ ConfigurationTypes(todo')
  BY TypeStep, Fields, ConfigurationParts, ConstantAssumption DEF Next, IInv, TypeOK
<1>1. /\ todo'.ip = todo.ip
      /\ todo'.ip6 = None
      /\ todo'.routes = todo.routes
      /\ todo'.routes6 = todo.routes6
      /\ todo'.dns = todo.dns
      /\ todo'.domain = todo.domain
      /\ todo'.proxy = todo.proxy
  BY <1>0 DEF IFCONFIG6, Configuration
<1>2. /\ phase = "ifconfig6" /\ phase' = "route"
      /\ UNCHANGED <<mLastTunCfg, want, tun, clean>>
  BY DEF IFCONFIG6, Ask
<1>3. Progress'
  BY <1>1, <1>2 DEF IFCONFIG6, Progress, IInv
<1>4. LastIsTun' /\ CleanUp' /\ LeftUp' /\ NothingMissing'
  BY AskStep DEF IFCONFIG6
<1>5. CleanAsking'
  <2>1. SUFFICES ASSUME clean PROVE PartialItems' /\ PartialRoutes' /\ PartialDns'
    BY <1>2 DEF CleanAsking
  <2>2. PartialItems /\ PartialRoutes /\ PartialDns
    BY <1>2, <2>1 DEF IInv, CleanAsking
  <2>3. PartialItems'
    BY <1>1, <1>2, <2>2 DEF IFCONFIG6, PartialItems
  <2>4. PartialRoutes'
    BY <1>1, <1>2, <2>2 DEF IFCONFIG6, PartialRoutes, Reached, Reached6, Requested
  <2>5. PartialDns'
    BY <1>1, <1>2, <2>2 DEF IFCONFIG6, PartialDns
  <2> QED BY <2>3, <2>4, <2>5
<1>6. LeftAsking'
  BY <1>1, <1>2 DEF IFCONFIG6, IInv, LeftAsking
<1>7. Covers'
  <2>1. CoversItems /\ CoversRoutes /\ CoversDns
    BY <1>2 DEF IInv, Covers
  <2>2. CoversItems'
    BY <1>1, <1>2, <2>1 DEF IFCONFIG6, CoversItems
  <2>3. CoversRoutes'
    BY <1>1, <1>2, <2>1 DEF IFCONFIG6, CoversRoutes, Within, Reached, Reached6, Requested
  <2>4. CoversDns'
    BY <1>1, <1>2, <2>1 DEF IFCONFIG6, CoversDns
  <2> QED BY <2>2, <2>3, <2>4 DEF Covers
<1> QED BY <1>0, <1>3, <1>4, <1>5, <1>6, <1>7 DEF IInv

\* The domain of a round.
LEMMA DNSDOMAINStep == IInv /\ DNSDOMAIN => IInv'
<1> SUFFICES ASSUME IInv, DNSDOMAIN PROVE IInv'
  OBVIOUS
<1> USE DEF Asking
<1>0. TypeOK' /\ TypeOK /\ FieldTypes /\ ConfigurationTypes(want) /\ todo \in Configuration
      /\ ConfigurationTypes(todo) /\ ConfigurationTypes(todo')
  BY TypeStep, Fields, ConfigurationParts, ConstantAssumption DEF Next, IInv, TypeOK
<1>1. /\ todo'.ip = todo.ip
      /\ todo'.ip6 = todo.ip6
      /\ todo'.routes = todo.routes
      /\ todo'.routes6 = todo.routes6
      /\ todo'.dns = todo.dns
      /\ todo'.domain = None
      /\ todo'.proxy = todo.proxy
  BY <1>0 DEF DNSDOMAIN, Configuration
<1>2. /\ phase = "route" /\ phase' = "proxy"
      /\ todo.routes = {} /\ todo.routes6 = {} /\ todo.dns = << >>
      /\ UNCHANGED <<mLastTunCfg, want, tun, clean>>
  BY DEF DNSDOMAIN, Ask
<1>3. Progress'
  BY <1>1, <1>2 DEF DNSDOMAIN, Progress, IInv
<1>4. LastIsTun' /\ CleanUp' /\ LeftUp' /\ NothingMissing'
  BY AskStep DEF DNSDOMAIN
<1>5. CleanAsking'
  <2>1. SUFFICES ASSUME clean PROVE PartialItems' /\ PartialRoutes' /\ PartialDns'
    BY <1>2 DEF CleanAsking
  <2>2. PartialItems /\ PartialRoutes /\ PartialDns
    BY <1>2, <2>1 DEF IInv, CleanAsking
  <2>3. PartialItems'
    BY <1>1, <1>2, <2>2 DEF DNSDOMAIN, PartialItems
  <2>4. PartialRoutes'
    BY <1>1, <1>2, <2>2 DEF DNSDOMAIN, PartialRoutes, Reached, Reached6, Requested
  <2>5. PartialDns'
    BY <1>1, <1>2, <2>2 DEF DNSDOMAIN, PartialDns
  <2> QED BY <2>3, <2>4, <2>5
<1>6. LeftAsking'
  BY <1>1, <1>2 DEF DNSDOMAIN, IInv, LeftAsking
<1>7. Covers'
  <2>1. CoversItems /\ CoversRoutes /\ CoversDns
    BY <1>2 DEF IInv, Covers
  <2>2. CoversItems'
    BY <1>1, <1>2, <2>1 DEF DNSDOMAIN, CoversItems
  <2>3. CoversRoutes'
    BY <1>1, <1>2, <2>1 DEF DNSDOMAIN, CoversRoutes, Within, Reached, Reached6, Requested
  <2>4. CoversDns'
    BY <1>1, <1>2, <2>1 DEF DNSDOMAIN, CoversDns
  <2> QED BY <2>2, <2>3, <2>4 DEF Covers
<1> QED BY <1>0, <1>3, <1>4, <1>5, <1>6, <1>7 DEF IInv

\* The proxy of a round.
LEMMA HTTPPROXYStep == IInv /\ HTTPPROXY => IInv'
<1> SUFFICES ASSUME IInv, HTTPPROXY PROVE IInv'
  OBVIOUS
<1> USE DEF Asking
<1>0. TypeOK' /\ TypeOK /\ FieldTypes /\ ConfigurationTypes(want) /\ todo \in Configuration
      /\ ConfigurationTypes(todo) /\ ConfigurationTypes(todo')
  BY TypeStep, Fields, ConfigurationParts, ConstantAssumption DEF Next, IInv, TypeOK
<1>1. /\ todo'.ip = todo.ip
      /\ todo'.ip6 = todo.ip6
      /\ todo'.routes = todo.routes
      /\ todo'.routes6 = todo.routes6
      /\ todo'.dns = todo.dns
      /\ todo'.domain = todo.domain
      /\ todo'.proxy = None
  BY <1>0 DEF HTTPPROXY, Configuration
<1>2. /\ phase = "proxy" /\ phase' = "persist"
      /\ UNCHANGED <<mLastTunCfg, want, tun, clean>>
  BY DEF HTTPPROXY, Ask
<1>3. Progress'
  BY <1>1, <1>2 DEF HTTPPROXY, Progress, IInv
<1>4. LastIsTun' /\ CleanUp' /\ LeftUp' /\ NothingMissing'
  BY AskStep DEF HTTPPROXY
<1>5. CleanAsking'
  <2>1. SUFFICES ASSUME clean PROVE PartialItems' /\ PartialRoutes' /\ PartialDns'
    BY <1>2 DEF CleanAsking
  <2>2. PartialItems /\ PartialRoutes /\ PartialDns
    BY <1>2, <2>1 DEF IInv, CleanAsking
  <2>3. PartialItems'
    BY <1>1, <1>2, <2>2 DEF HTTPPROXY, PartialItems
  <2>4. PartialRoutes'
    BY <1>1, <1>2, <2>2 DEF HTTPPROXY, PartialRoutes, Reached, Reached6, Requested
  <2>5. PartialDns'
    BY <1>1, <1>2, <2>2 DEF HTTPPROXY, PartialDns
  <2> QED BY <2>3, <2>4, <2>5
<1>6. LeftAsking'
  BY <1>1, <1>2 DEF HTTPPROXY, IInv, LeftAsking
<1>7. Covers'
  <2>1. CoversItems /\ CoversRoutes /\ CoversDns
    BY <1>2 DEF IInv, Covers
  <2>2. CoversItems'
    BY <1>1, <1>2, <2>1 DEF HTTPPROXY, CoversItems
  <2>3. CoversRoutes'
    BY <1>1, <1>2, <2>1 DEF HTTPPROXY, CoversRoutes, Within, Reached, Reached6, Requested
  <2>4. CoversDns'
    BY <1>1, <1>2, <2>1 DEF HTTPPROXY, CoversDns
  <2> QED BY <2>2, <2>3, <2>4 DEF Covers
<1> QED BY <1>0, <1>3, <1>4, <1>5, <1>6, <1>7 DEF IInv

\* A route of a round.
LEMMA ROUTEStep == IInv /\ ROUTE => IInv'
<1> SUFFICES ASSUME IInv, ROUTE PROVE IInv'
  OBVIOUS
<1> USE DEF Asking
<1>p. PICK net \in todo.routes : ROUTE!(net)
  BY DEF ROUTE
<1>0. TypeOK' /\ TypeOK /\ FieldTypes /\ ConfigurationTypes(want) /\ todo \in Configuration
      /\ ConfigurationTypes(todo) /\ ConfigurationTypes(todo')
  BY TypeStep, Fields, ConfigurationParts, ConstantAssumption DEF Next, IInv, TypeOK
<1>1. /\ todo'.ip = todo.ip
      /\ todo'.ip6 = todo.ip6
      /\ todo'.routes = todo.routes \ {net}
      /\ todo'.routes6 = todo.routes6
      /\ todo'.dns = todo.dns
      /\ todo'.domain = todo.domain
      /\ todo'.proxy = todo.proxy
  BY <1>p, <1>0 DEF Configuration
<1>2. /\ phase = "route" /\ phase' = "route"
      /\ UNCHANGED <<mLastTunCfg, want, tun, clean>>
  BY <1>p DEF Ask
<1>3. Progress'
  BY <1>p, <1>1, <1>2 DEF Progress, IInv
<1>4. LastIsTun' /\ CleanUp' /\ LeftUp' /\ NothingMissing'
  BY <1>p, AskStep
<1>m. mRoutes \in [Nets -> Flags] /\ mRoutes' \in [Nets -> Flags]
      /\ (\A n \in Nets : mRoutes[n] # "absent" => mRoutes'[n] # "absent")
  <2>1. mRoutes \in [Nets -> Flags] /\ CollectedRoutes(mLocalIP, {net}) \in [Nets -> Flags]
    BY <1>0, RouteTypes DEF FieldTypes
  <2>2. mRoutes' = Add(mRoutes, CollectedRoutes(mLocalIP, {net}))
    BY <1>p
  <2>3. /\ Add(mRoutes, CollectedRoutes(mLocalIP, {net})) \in [Nets -> Flags]
        /\ \A n \in Nets : mRoutes[n] # "absent" => Add(mRoutes, CollectedRoutes(mLocalIP, {net}))[n] # "absent"
    BY <2>1, AddRoutes
  <2> QED BY <2>1, <2>2, <2>3
<1>r. todo.ip = None /\ Reached6' = Reached6 /\ (want.ip = mLocalIP => Reached' = Reached)
  <2>1. todo.ip = None
    BY <1>2 DEF IInv, Progress
  <2>2. Reached6' = Reached6
    BY <1>1, <1>p DEF Reached6
  <2>3. Add(mRoutes, InterfaceRoutes(None)) = mRoutes /\ Add(mRoutes', InterfaceRoutes(None)) = mRoutes'
    BY <1>m, NothingCollected, AddNothing DEF NoRoutes
  <2>4. ASSUME want.ip = mLocalIP PROVE Reached' = Reached
    <3>1. net \in todo.routes /\ todo'.routes = todo.routes \ {net} /\ mRoutes \in [Nets -> Flags]
          /\ mRoutesv6 \in [Nets6 -> Flags] /\ mRoutes' = Add(mRoutes, CollectedRoutes(mLocalIP, {net}))
      BY <1>p, <1>0, <1>1 DEF FieldTypes
    <3>2. Add(mRoutes, CollectedRoutes(mLocalIP, todo.routes))
             = Add(mRoutes', CollectedRoutes(mLocalIP, todo'.routes))
      BY <3>1, RouteSplit
    <3> QED BY <1>1, <1>2, <2>1, <2>3, <2>4, <3>2 DEF Reached
  <2> QED BY <2>1, <2>2, <2>4
<1>5. CleanAsking'
  <2>1. SUFFICES ASSUME clean PROVE PartialItems' /\ PartialRoutes' /\ PartialDns'
    BY <1>2 DEF CleanAsking
  <2>2. PartialItems /\ PartialRoutes /\ PartialDns
    BY <1>2, <2>1 DEF IInv, CleanAsking
  <2>3. PartialItems'
    BY <1>p, <1>1, <1>2, <2>2 DEF PartialItems
  <2>4. PartialRoutes'
    <3>1. want.ip = mLocalIP
      BY <1>r, <2>2 DEF PartialItems
    <3> QED BY <1>2, <1>r, <2>2, <3>1 DEF PartialRoutes, Requested
  <2>5. PartialDns'
    BY <1>p, <1>1, <1>2, <2>2 DEF PartialDns
  <2> QED BY <2>3, <2>4, <2>5
<1>6. LeftAsking'
  BY <1>p, <1>1, <1>2 DEF IInv, LeftAsking
<1>7. Covers'
  <2>1. CoversItems /\ CoversRoutes /\ CoversDns
    BY <1>2 DEF IInv, Covers
  <2>2. CoversItems'
    BY <1>p, <1>1, <1>2, <2>1 DEF CoversItems
  <2>3. CoversRoutes'
    <3>1. CASE want.ip = None
      <4>1. CollectedRoutes(want.ip, todo.routes) = NoRoutes /\ CollectedRoutes(want.ip, todo'.routes) = NoRoutes
        BY <3>1 DEF CollectedRoutes
      <4>2. Reached = mRoutes /\ Reached' = mRoutes'
        <5>1. Add(mRoutes, NoRoutes) = mRoutes /\ Add(mRoutes', NoRoutes) = mRoutes'
          BY <1>m, AddNothing DEF NoRoutes
        <5>2. InterfaceRoutes(todo.ip) = NoRoutes /\ InterfaceRoutes(todo'.ip) = NoRoutes
          BY <1>1, <1>r, NothingCollected
        <5> QED BY <1>2, <4>1, <5>1, <5>2 DEF Reached
      <4> QED BY <1>2, <1>m, <1>r, <2>1, <4>2 DEF CoversRoutes, Within, Requested
    <3>2. CASE want.ip # None
      <4>1. want.ip = mLocalIP
        BY <1>r, <2>1, <3>2 DEF CoversItems
      <4> QED BY <1>2, <1>r, <2>1, <4>1 DEF CoversRoutes, Within, Requested
    <3> QED BY <3>1, <3>2
  <2>4. CoversDns'
    BY <1>p, <1>1, <1>2, <2>1 DEF CoversDns
  <2> QED BY <2>2, <2>3, <2>4 DEF Covers
<1> QED BY <1>0, <1>3, <1>4, <1>5, <1>6, <1>7 DEF IInv

\* An IPv6 route of a round.
LEMMA ROUTE6Step == IInv /\ ROUTE6 => IInv'
<1> SUFFICES ASSUME IInv, ROUTE6 PROVE IInv'
  OBVIOUS
<1> USE DEF Asking
<1>p. PICK net \in todo.routes6 : ROUTE6!(net)
  BY DEF ROUTE6
<1>0. TypeOK' /\ TypeOK /\ FieldTypes /\ ConfigurationTypes(want) /\ todo \in Configuration
      /\ ConfigurationTypes(todo) /\ ConfigurationTypes(todo')
  BY TypeStep, Fields, ConfigurationParts, ConstantAssumption DEF Next, IInv, TypeOK
<1>1. /\ todo'.ip = todo.ip
      /\ todo'.ip6 = todo.ip6
      /\ todo'.routes = todo.routes
      /\ todo'.routes6 = todo.routes6 \ {net}
      /\ todo'.dns = todo.dns
      /\ todo'.domain = todo.domain
      /\ todo'.proxy = todo.proxy
  BY <1>p, <1>0 DEF Configuration
<1>2. /\ phase = "route" /\ phase' = "route"
      /\ UNCHANGED <<mLastTunCfg, want, tun, clean>>
  BY <1>p DEF Ask
<1>3. Progress'
  BY <1>p, <1>1, <1>2 DEF Progress, IInv
<1>4. LastIsTun' /\ CleanUp' /\ LeftUp' /\ NothingMissing'
  BY <1>p, AskStep
<1>r. Reached6' = Reached6 /\ Reached' = Reached
  <2>1. net \in todo.routes6 /\ todo'.routes6 = todo.routes6 \ {net} /\ mRoutes \in [Nets -> Flags]
        /\ mRoutesv6 \in [Nets6 -> Flags] /\ mRoutesv6' = Add(mRoutesv6, Marked(Nets6, {net}, "include"))
    BY <1>p, <1>0, <1>1 DEF FieldTypes
  <2>2. Add(mRoutesv6, Marked(Nets6, todo.routes6, "include"))
           = Add(mRoutesv6', Marked(Nets6, todo'.routes6, "include"))
    <3>1. Add(mRoutesv6, Marked(Nets6, todo.routes6, "include"))
             = Add(Add(mRoutesv6, Marked(Nets6, {net}, "include")), Marked(Nets6, todo.routes6 \ {net}, "include"))
      BY <2>1, RouteSplit
    <3> QED BY <2>1, <3>1
  <2> QED BY <1>1, <1>2, <1>p, <2>2 DEF Reached, Reached6
<1>5. CleanAsking'
  <2>1. SUFFICES ASSUME clean PROVE PartialItems' /\ PartialRoutes' /\ PartialDns'
    BY <1>2 DEF CleanAsking
  <2>2. PartialItems /\ PartialRoutes /\ PartialDns
    BY <1>2, <2>1 DEF IInv, CleanAsking
  <2>3. PartialItems'
    BY <1>p, <1>1, <1>2, <2>2 DEF PartialItems
  <2>4. PartialRoutes'
    BY <1>r, <1>2, <2>2 DEF PartialRoutes, Requested
  <2>5. PartialDns'
    BY <1>p, <1>1, <1>2, <2>2 DEF PartialDns
  <2> QED BY <2>3, <2>4, <2>5
<1>6. LeftAsking'
  BY <1>p, <1>1, <1>2 DEF IInv, LeftAsking
<1>7. Covers'
  <2>1. CoversItems /\ CoversRoutes /\ CoversDns
    BY <1>2 DEF IInv, Covers
  <2>2. CoversItems'
    BY <1>p, <1>1, <1>2, <2>1 DEF CoversItems
  <2>3. CoversRoutes'
    BY <1>r, <1>2, <2>1 DEF CoversRoutes, Within, Requested
  <2>4. CoversDns'
    BY <1>p, <1>1, <1>2, <2>1 DEF CoversDns
  <2> QED BY <2>2, <2>3, <2>4 DEF Covers
<1> QED BY <1>0, <1>3, <1>4, <1>5, <1>6, <1>7 DEF IInv

\* A DNS server of a round.
LEMMA DNSSERVERStep == IInv /\ DNSSERVER => IInv'
<1> SUFFICES ASSUME IInv, DNSSERVER PROVE IInv'
  OBVIOUS
<1> USE DEF Asking
<1>0. TypeOK' /\ TypeOK /\ FieldTypes /\ ConfigurationTypes(want) /\ todo \in Configuration
      /\ ConfigurationTypes(todo) /\ ConfigurationTypes(todo')
  BY TypeStep, Fields, ConfigurationParts, ConstantAssumption DEF Next, IInv, TypeOK
<1>1. /\ todo'.ip = todo.ip
      /\ todo'.ip6 = todo.ip6
      /\ todo'.routes = todo.routes
      /\ todo'.routes6 = todo.routes6
      /\ todo'.dns = Tail(todo.dns)
      /\ todo'.domain = todo.domain
      /\ todo'.proxy = todo.proxy
  BY <1>0 DEF DNSSERVER, Configuration
<1>2. /\ phase = "route" /\ phase' = "route" /\ todo.dns # << >>
      /\ todo.routes = {} /\ todo.routes6 = {}
      /\ UNCHANGED <<mLastTunCfg, want, tun, clean>>
  BY DEF DNSSERVER, Ask
<1>l. /\ mDnslist \in Seq(Servers) /\ todo.dns \in Seq(Servers) /\ want.dns \in Seq(Servers)
      /\ mDnslist' = Append(mDnslist, Head(todo.dns)) /\ todo'.dns = Tail(todo.dns)
  BY <1>0, <1>1 DEF DNSSERVER, FieldTypes, ConfigurationTypes
<1>t. /\ Len(mDnslist) \in Nat /\ Len(todo.dns) \in Nat
      /\ Len(mDnslist') = Len(mDnslist) + 1 /\ Len(todo'.dns) = Len(todo.dns) - 1
      /\ \A i \in 1 .. Len(mDnslist) : mDnslist'[i] = mDnslist[i]
      /\ mDnslist'[Len(mDnslist) + 1] = todo.dns[1]
      /\ \A i \in 1 .. Len(todo.dns) - 1 : todo'.dns[i] = todo.dns[i + 1]
      /\ DOMAIN mDnslist = 1 .. Len(mDnslist) /\ DOMAIN todo.dns = 1 .. Len(todo.dns)
      /\ DOMAIN mDnslist' = 1 .. Len(mDnslist) + 1 /\ DOMAIN todo'.dns = 1 .. Len(todo.dns) - 1
  BY <1>l, <1>2, TailAppend
<1>u. /\ Len(mDnslist) \in Nat /\ Len(todo.dns) \in Nat
      /\ Len(mDnslist') = Len(mDnslist) + 1 /\ Len(todo'.dns) = Len(todo.dns) - 1
  BY <1>t
<1>3. Progress'
  BY <1>1, <1>2 DEF DNSSERVER, Progress, IInv
<1>4. LastIsTun' /\ CleanUp' /\ LeftUp' /\ NothingMissing'
  BY AskStep, <1>2 DEF DNSSERVER
<1>5. CleanAsking'
  <2>1. SUFFICES ASSUME clean PROVE PartialItems' /\ PartialRoutes' /\ PartialDns'
    BY <1>2 DEF CleanAsking
  <2>2. PartialItems /\ PartialRoutes /\ PartialDns
    BY <1>2, <2>1 DEF IInv, CleanAsking
  <2>3. PartialItems'
    BY <1>1, <1>2, <2>2 DEF DNSSERVER, PartialItems
  <2>4. PartialRoutes'
    BY <1>1, <1>2, <2>2 DEF DNSSERVER, PartialRoutes, Reached, Reached6, Requested
  <2>5. PartialDns'
    <3>0. Len(want.dns) \in Nat /\ Len(todo.dns) \in Nat \ {0}
      BY <1>l, <1>2
    <3>1. Len(mDnslist') + Len(todo'.dns) = Len(want'.dns)
      <4>1. Len(mDnslist) + Len(todo.dns) = Len(want.dns) /\ want' = want
        BY <1>2, <2>2 DEF PartialDns
      <4> DEFINE l == Len(mDnslist)  t == Len(todo.dns)  w == Len(want.dns)
      <4>2. l \in Int /\ t \in Int /\ w \in Int /\ l + t = w
        BY <1>u, <3>0, <4>1
      <4>3. (l + 1) + (t - 1) = w
        <5> HIDE DEF l, t, w
        <5> QED BY <4>2
      <4> QED BY <1>u, <4>1, <4>3, Zenon
    <3>2. ASSUME NEW i \in 1 .. Len(mDnslist') PROVE mDnslist'[i] = want'.dns[i]
      <4>1. CASE i \in 1 .. Len(mDnslist)
        BY <1>2, <1>t, <2>2, <4>1 DEF PartialDns
      <4>2. CASE i = Len(mDnslist) + 1
        BY <1>2, <1>t, <2>2, <3>0, <4>2 DEF PartialDns
      <4> QED BY <1>t, <4>1, <4>2
    <3>3. ASSUME NEW i \in 1 .. Len(todo'.dns) PROVE todo'.dns[i] = want'.dns[Len(mDnslist') + i]
      <4>1. i \in 1 .. Len(todo.dns) - 1 /\ i + 1 \in 1 .. Len(todo.dns)
            /\ Len(mDnslist) + (i + 1) = Len(mDnslist') + i
        BY <1>t
      <4>2. todo.dns[i + 1] = want.dns[Len(mDnslist) + (i + 1)]
        BY <2>2, <4>1 DEF PartialDns
      <4> QED BY <1>2, <1>t, <4>1, <4>2
    <3> QED BY <3>1, <3>2, <3>3 DEF PartialDns
  <2> QED BY <2>3, <2>4, <2>5
<1>6. LeftAsking'
  <2>1. SUFFICES ASSUME ~clean, tun # None
                 PROVE Len(mDnslist') = Len(mLastTunCfg.dns) + Len(want.dns) - Len(todo'.dns)
    BY <1>2 DEF LeftAsking
  <2>2. Len(mDnslist) = Len(mLastTunCfg.dns) + Len(want.dns) - Len(todo.dns)
    BY <1>2, <2>1 DEF IInv, LeftAsking
  <2>3. Len(mLastTunCfg.dns) \in Nat /\ Len(want.dns) \in Nat
    BY <1>0, <1>l, <2>1 DEF IInv, LastIsTun, TypeOK, Tunnel
  <2> DEFINE m == Len(mDnslist)  l == Len(mLastTunCfg.dns)  w == Len(want.dns)  t == Len(todo.dns)
  <2>4. m \in Int /\ l \in Int /\ w \in Int /\ t \in Int /\ m = l + w - t
    BY <1>u, <2>2, <2>3
  <2>5. m + 1 = l + w - (t - 1)
    <3> HIDE DEF m, l, w, t
    <3> QED BY <2>4
  <2> QED BY <1>u, <2>5, Zenon
<1>7. Covers'
  <2>1. CoversItems /\ CoversRoutes /\ CoversDns
    BY <1>2 DEF IInv, Covers
  <2>2. CoversItems'
    BY <1>1, <1>2, <2>1 DEF DNSSERVER, CoversItems
  <2>3. CoversRoutes'
    BY <1>1, <1>2, <2>1 DEF DNSSERVER, CoversRoutes, Within, Reached, Reached6, Requested
  <2>4. CoversDns'
    <3>1. SUFFICES ASSUME NEW i \in DOMAIN want.dns
                   PROVE \/ \E j \in DOMAIN mDnslist' : mDnslist'[j] = want.dns[i]
                         \/ \E j \in DOMAIN todo'.dns : todo'.dns[j] = want.dns[i]
      BY <1>2 DEF CoversDns
    <3>2. CASE \E j \in DOMAIN mDnslist : mDnslist[j] = want.dns[i]
      BY <1>t, <3>2
    <3>3. ASSUME NEW j \in DOMAIN todo.dns, todo.dns[j] = want.dns[i]
          PROVE \/ \E k \in DOMAIN mDnslist' : mDnslist'[k] = want.dns[i]
                \/ \E k \in DOMAIN todo'.dns : todo'.dns[k] = want.dns[i]
      <4>1. CASE j = 1
        <5>1. Len(mDnslist) + 1 \in DOMAIN mDnslist'
          BY <1>t
        <5>2. mDnslist'[Len(mDnslist) + 1] = want.dns[i]
          BY <1>t, <3>3, <4>1
        <5> QED BY <5>1, <5>2
      <4>2. CASE j # 1
        <5>1. j - 1 \in 1 .. Len(todo.dns) - 1 /\ (j - 1) + 1 = j
          BY <1>t, <4>2
        <5>2. j - 1 \in DOMAIN todo'.dns /\ todo'.dns[j - 1] = todo.dns[j]
          BY <1>t, <5>1
        <5> QED BY <3>3, <5>2
      <4> QED BY <4>1, <4>2
    <3> QED BY <2>1, <3>2, <3>3 DEF CoversDns
  <2> QED BY <2>2, <2>3, <2>4 DEF Covers
<1> QED BY <1>0, <1>3, <1>4, <1>5, <1>6, <1>7 DEF IInv

\* A process ends, in the middle of a round or not.
LEMMA ExitStep == IInv /\ Exit => IInv'
<1> SUFFICES ASSUME IInv, Exit PROVE IInv'
  OBVIOUS
<1> USE DEF Asking
<1>1. TypeOK'
  BY TypeStep DEF Next, IInv
<1>2. phase' = "down" /\ tun' = None /\ UNCHANGED <<collected, mLastTunCfg, want, todo>>
      /\ clean' = (clean /\ phase = "up")
  BY DEF Exit
<1>3. CleanUp'
  BY <1>2 DEF IInv, CleanUp, collected, getTunConfigString
<1> QED BY <1>1, <1>2, <1>3 DEF IInv, Progress, LastIsTun, CleanAsking, LeftUp, LeftAsking, Covers,
                                NothingMissing

\* Nothing is collected and no process asks for anything.
LEMMA QuietStep ==
    ASSUME TypeOK', phase' = "down", clean' = TRUE, getTunConfigString' = Empty
    PROVE IInv'
BY DEF Asking, TypeOK, IInv, Progress, LastIsTun, CleanUp, CleanAsking, LeftUp, LeftAsking, Covers,
       NothingMissing, Empty

\* The service is created again.
LEMMA RecreateStep == IInv /\ Recreate => IInv'
<1> SUFFICES ASSUME IInv, Recreate PROVE IInv'
  OBVIOUS
<1>1. TypeOK'
  BY TypeStep DEF Next, IInv
<1>2. phase' = "down" /\ clean' = TRUE /\ getTunConfigString' = Empty
  BY DEF Recreate, getTunConfigString, Empty
<1> QED BY <1>1, <1>2, QuietStep

\* establish() fails.
LEMMA EstablishFailsStep == IInv /\ EstablishFails => IInv'
<1> SUFFICES ASSUME IInv, EstablishFails PROVE IInv'
  OBVIOUS
<1>1. TypeOK'
  BY TypeStep DEF Next, IInv
<1>2. phase' = "down" /\ clean' = TRUE /\ getTunConfigString' = Empty
  BY DEF EstablishFails, Reset, getTunConfigString, Empty
<1> QED BY <1>1, <1>2, QuietStep

\* The address is refused.
LEMMA AddressRefusedStep == IInv /\ AddressRefused => IInv'
<1> SUFFICES ASSUME IInv, AddressRefused PROVE IInv'
  OBVIOUS
<1>1. TypeOK'
  BY TypeStep DEF Next, IInv
<1>2. phase' = "down" /\ tun' = None /\ clean' = FALSE
  BY DEF AddressRefused
<1> QED BY <1>1, <1>2 DEF Asking, IInv, Progress, LastIsTun, CleanUp, CleanAsking, LeftUp, LeftAsking,
                          Covers, NothingMissing

\* When everything was sent, what is collected is what was to be reached.
LEMMA AllSent ==
    ASSUME IInv, phase \in {"persist", "opentun"}
    PROVE Reached = mRoutes /\ Reached6 = mRoutesv6
<1>1. todo.ip = None /\ todo.routes = {} /\ todo.routes6 = {}
  BY DEF IInv, Progress, Asking
<1>2. mRoutes \in [Nets -> Flags] /\ mRoutesv6 \in [Nets6 -> Flags]
  BY Fields DEF IInv, TypeOK, FieldTypes
<1>3. InterfaceRoutes(todo.ip) = NoRoutes /\ CollectedRoutes(want.ip, todo.routes) = NoRoutes
  BY <1>1, NothingCollected
<1> QED BY <1>1, <1>2, <1>3, AddNothing DEF Reached, Reached6, NoRoutes

\* When everything was sent and nothing was left over, exactly the requested
\* tunnel is collected.
LEMMA CleanIsRequested ==
    ASSUME IInv, clean, phase \in {"persist", "opentun"}
    PROVE getTunConfigString = Requested(want)
<1>1. PartialItems /\ PartialRoutes /\ PartialDns
  BY DEF IInv, CleanAsking, Asking
<1>2. /\ todo.ip = None /\ todo.ip6 = None /\ todo.routes = {} /\ todo.routes6 = {}
      /\ todo.dns = << >> /\ todo.domain = None /\ todo.proxy = None
  BY DEF IInv, Progress, Asking
<1>r. Reached = mRoutes /\ Reached6 = mRoutesv6
  BY AllSent
<1>3. FieldTypes /\ ConfigurationTypes(want)
  BY Fields, ConfigurationParts, ConstantAssumption DEF IInv, TypeOK
<1>4. mLocalIP = want.ip /\ mLocalIPv6 = want.ip6 /\ mProxyInfo = want.proxy /\ mDomain = want.domain
  BY <1>1, <1>2 DEF PartialItems
<1>5. mRoutes = Requested(want).routes /\ mRoutesv6 = Requested(want).routes6
  BY <1>1, <1>r DEF PartialRoutes
<1>6. mDnslist = want.dns
  <2>1. mDnslist \in Seq(Servers) /\ want.dns \in Seq(Servers)
    BY <1>3 DEF FieldTypes, ConfigurationTypes
  <2>2. Len(mDnslist) = Len(want.dns)
    BY <1>1, <1>2, <2>1 DEF PartialDns
  <2>3. \A i \in 1 .. Len(mDnslist) : mDnslist[i] = want.dns[i]
    BY <1>1 DEF PartialDns
  <2> QED BY <2>1, <2>2, <2>3
<1> QED BY <1>4, <1>5, <1>6 DEF getTunConfigString, Requested

\* When everything was sent, a tunnel with all that is collected lacks nothing.
LEMMA NothingIsMissing ==
    ASSUME IInv, phase \in {"persist", "opentun"}, want' = want,
           tun'.ip = mLocalIP, tun'.ip6 = mLocalIPv6, tun'.proxy = mProxyInfo, tun'.dns = mDnslist,
           Within(Nets, mRoutes, tun'.routes), Within(Nets6, mRoutesv6, tun'.routes6)
    PROVE NothingMissing'
<1>1. CoversItems /\ CoversRoutes /\ CoversDns
  BY DEF IInv, Covers, Asking
<1>2. todo.ip = None /\ todo.ip6 = None /\ todo.dns = << >> /\ todo.proxy = None
  BY DEF IInv, Progress, Asking
<1>3. /\ want.ip # None => tun'.ip = want.ip
      /\ want.ip6 # None => tun'.ip6 = want.ip6
      /\ want.proxy # None => tun'.proxy = want.proxy
  BY <1>1, <1>2 DEF CoversItems
<1>4. Within(Nets, Requested(want).routes, tun'.routes) /\ Within(Nets6, Requested(want).routes6, tun'.routes6)
  <2>1. Reached = mRoutes /\ Reached6 = mRoutesv6
    BY AllSent
  <2> QED BY <1>1, <2>1 DEF CoversRoutes, Within
<1>5. \A i \in DOMAIN want.dns : \E j \in DOMAIN tun'.dns : tun'.dns[j] = want.dns[i]
  BY <1>1, <1>2 DEF CoversDns
<1>6. /\ Requested(want).ip = want.ip /\ Requested(want).ip6 = want.ip6
      /\ Requested(want).proxy = want.proxy /\ Requested(want).dns = want.dns
  BY DEF Requested
<1>7. Requested(want)' = Requested(want)
  BY DEF Requested
<1> QED BY <1>3, <1>4, <1>5, <1>6, <1>7 DEF NothingMissing, Within

\* A tunnel is not kept on top of a kept one in a round that names DNS
\* servers: their list has grown.
LEMMA KeptFromNothing ==
    ASSUME IInv, phase = "persist", tun # None, getTunReopenStatus = "NOACTION", want.dns # << >>
    PROVE clean
<1>1. SUFFICES ASSUME ~clean PROVE FALSE
  BY DEF IInv, TypeOK
<1>2. Len(mDnslist) = Len(mLastTunCfg.dns) + Len(want.dns) - Len(todo.dns)
  BY <1>1 DEF IInv, LeftAsking, Asking
<1>3. todo.dns = << >> /\ mDnslist = mLastTunCfg.dns
  BY DEF IInv, Progress, getTunConfigString, getTunReopenStatus
<1>4. FieldTypes /\ ConfigurationTypes(want)
  BY Fields, ConfigurationParts, ConstantAssumption DEF IInv, TypeOK
<1>5. Len(mDnslist) \in Nat /\ Len(want.dns) \in Nat \ {0} /\ Len(todo.dns) = 0
  BY <1>3, <1>4 DEF FieldTypes, ConfigurationTypes
<1> DEFINE m == Len(mDnslist)  w == Len(want.dns)
<1>6. m \in Nat /\ w \in Nat \ {0} /\ m = m + w - 0
  BY <1>2, <1>3, <1>5
<1> HIDE DEF m, w
<1> QED BY <1>6

\* Whether the tunnel can be kept. If it is, it has all that is collected.
LEMMA PersistStep == IInv /\ PERSIST_TUN_ACTION => IInv'
<1> SUFFICES ASSUME IInv, PERSIST_TUN_ACTION PROVE IInv'
  OBVIOUS
<1> USE DEF Asking
<1>1. TypeOK' /\ TypeOK
  BY TypeStep DEF Next, IInv
<1>2. phase = "persist" /\ UNCHANGED <<collected, mLastTunCfg, want, todo, tun>>
  BY DEF PERSIST_TUN_ACTION
<1>g. getTunConfigString' = getTunConfigString
  BY <1>2 DEF getTunConfigString, collected
<1>3. CASE tun # None /\ getTunReopenStatus = "NOACTION"
  <2>1. phase' = "up" /\ clean' = FALSE
    BY <1>2, <1>3 DEF PERSIST_TUN_ACTION
  <2>2. getTunConfigString = mLastTunCfg /\ mLastTunCfg = tun
    BY <1>3 DEF getTunReopenStatus, IInv, LastIsTun
  <2>3. /\ tun'.ip = mLocalIP /\ tun'.ip6 = mLocalIPv6 /\ tun'.proxy = mProxyInfo /\ tun'.dns = mDnslist
        /\ tun'.routes = mRoutes /\ tun'.routes6 = mRoutesv6
    BY <1>2, <2>2 DEF getTunConfigString
  <2>4. NothingMissing'
    BY <1>2, <2>3, NothingIsMissing DEF Within
  <2> QED BY <1>1, <1>2, <1>g, <2>1, <2>2, <2>4
          DEF IInv, Progress, LastIsTun, CleanUp, CleanAsking, LeftUp, LeftAsking, Covers
<1>4. CASE ~(tun # None /\ getTunReopenStatus = "NOACTION")
  <2>1. phase' = "opentun" /\ clean' = clean
    BY <1>1, <1>2, <1>4 DEF PERSIST_TUN_ACTION, TypeOK
  <2>2. Progress' /\ LastIsTun' /\ CleanUp' /\ LeftUp' /\ NothingMissing'
    BY <1>2, <2>1 DEF IInv, Progress, LastIsTun, CleanUp, LeftUp, NothingMissing
  <2>3. CleanAsking'
    BY <1>2, <2>1 DEF IInv, CleanAsking, PartialItems, PartialRoutes, PartialDns, Reached, Reached6, collected
  <2>4. LeftAsking'
    BY <1>2, <2>1 DEF IInv, LeftAsking, collected
  <2>5. Covers'
    BY <1>2, <2>1 DEF IInv, Covers, CoversItems, CoversRoutes, CoversDns, Within, Reached, Reached6, collected
  <2> QED BY <1>1, <2>2, <2>3, <2>4, <2>5 DEF IInv
<1> QED BY <1>3, <1>4

\* A tunnel is opened with everything that was collected.
LEMMA OpenStep == IInv /\ OPENTUN => IInv'
<1> SUFFICES ASSUME IInv, OPENTUN PROVE IInv'
  OBVIOUS
<1> USE DEF Asking
<1>1. TypeOK' /\ TypeOK
  BY TypeStep DEF Next, IInv
<1>2. PICK local \in SUBSET LocalNets, local6 \in SUBSET LocalNets6 :
         tun' = WithLocal(getTunConfigString, local, local6)
  BY DEF OPENTUN
<1>3. /\ phase = "opentun" /\ phase' = "up" /\ clean' = TRUE /\ want' = want
      /\ mLastTunCfg' = tun' /\ getTunConfigString' = Empty
  BY DEF OPENTUN, Reset, getTunConfigString, Empty
<1>4. NothingMissing'
  <2>1. /\ tun'.ip = mLocalIP /\ tun'.ip6 = mLocalIPv6 /\ tun'.proxy = mProxyInfo /\ tun'.dns = mDnslist
        /\ tun'.routes = Add(mRoutes, Marked(Nets, local, "exclude"))
        /\ tun'.routes6 = Add(mRoutesv6, Marked(Nets6, local6, "exclude"))
    BY <1>2 DEF WithLocal, getTunConfigString
  <2>2. /\ Marked(Nets, local, "exclude") \in [Nets -> Flags] /\ Marked(Nets6, local6, "exclude") \in [Nets6 -> Flags]
        /\ mRoutes \in [Nets -> Flags] /\ mRoutesv6 \in [Nets6 -> Flags]
    BY <1>1, Fields, MarkedTypes DEF TypeOK, FieldTypes, Flags
  <2>3. Within(Nets, mRoutes, tun'.routes) /\ Within(Nets6, mRoutesv6, tun'.routes6)
    BY <2>1, <2>2, AddRoutes DEF Within
  <2> QED BY <1>3, <2>1, <2>3, NothingIsMissing
<1> QED BY <1>1, <1>3, <1>4 DEF IInv, Progress, LastIsTun, CleanUp, CleanAsking, LeftUp, LeftAsking,
                                Covers

\* The invariant holds from the start.
LEMMA Initially == Init => IInv
<1> SUFFICES ASSUME Init PROVE IInv
  OBVIOUS
<1>1. FieldTypes
  BY RouteTypes DEF Init, FieldTypes
<1>2. TypeOK
  BY <1>1, Fields, ConstantAssumption DEF Init, TypeOK, Asking
<1>3. getTunConfigString = Empty /\ phase = "down" /\ clean = TRUE /\ tun = None
  BY DEF Init, getTunConfigString, Empty
<1> QED BY <1>2, <1>3 DEF Asking, IInv, Progress, LastIsTun, CleanUp, CleanAsking, LeftUp, LeftAsking,
                          Covers, NothingMissing

\* Every step keeps the invariant.
LEMMA Step == IInv /\ [Next]_vars => IInv'
<1> SUFFICES ASSUME IInv, [Next]_vars PROVE IInv'
  OBVIOUS
<1>1. CASE StartProcess
  BY <1>1, BeginStep DEF StartProcess
<1>2. CASE Restart
  BY <1>2, BeginStep DEF Restart
<1>3. CASE UNCHANGED vars
  <2>1. TypeOK'
    BY TypeStep DEF IInv
  <2>2. getTunConfigString' = getTunConfigString
    BY <1>3 DEF vars, getTunConfigString
  <2>3. Progress' /\ LastIsTun' /\ CleanUp' /\ LeftUp' /\ NothingMissing'
    BY <1>3, <2>2 DEF vars, IInv, Progress, LastIsTun, CleanUp, LeftUp, NothingMissing
  <2>4. CleanAsking'
    BY <1>3 DEF vars, IInv, CleanAsking, PartialItems, PartialRoutes, PartialDns, Reached, Reached6
  <2>5. LeftAsking'
    BY <1>3 DEF vars, IInv, LeftAsking
  <2>6. Covers'
    BY <1>3 DEF vars, IInv, Covers, CoversItems, CoversRoutes, CoversDns, Within, Reached, Reached6
  <2> QED BY <2>1, <2>3, <2>4, <2>5, <2>6 DEF IInv
<1> QED
  BY <1>1, <1>2, <1>3, ExitStep, RecreateStep, IFCONFIGStep, IFCONFIG6Step, ROUTEStep, ROUTE6Step,
     DNSSERVERStep, DNSDOMAINStep, HTTPPROXYStep, PersistStep, OpenStep, EstablishFailsStep,
     AddressRefusedStep DEF Next

-----------------------------------------------------------------------------
(* Theorems.                                                               *)

\* The inductive invariant.
LEMMA Invariance == Spec => []IInv
BY Initially, Step, PTL DEF Spec

\* A process that is up has a tunnel, and one that is down has none
\* (open_tun, do_close_tun).
THEOREM TypeCorrect == Spec => []TypeOK
<1>1. IInv => TypeOK
  BY DEF IInv
<1> QED BY <1>1, Invariance, PTL

\* A tunnel that is kept over a restart is the one that was asked for this
\* time, whatever the lists of the service hold, if the round names a DNS
\* server or nothing was left over (getTunReopenStatus).
THEOREM KeptExactly == Spec => KeptIsRequested
<1>1. ASSUME IInv, [Next]_vars, phase = "persist", phase' = "up", clean \/ want.dns # << >>
      PROVE tun' = Requested(want)
  <2>1. PERSIST_TUN_ACTION
    BY <1>1 DEF Next, vars, StartProcess, Restart, Exit, Recreate, Begin, IFCONFIG, IFCONFIG6, ROUTE,
                ROUTE6, DNSSERVER, DNSDOMAIN, HTTPPROXY, Ask, OPENTUN, EstablishFails, AddressRefused
  <2>2. tun # None /\ getTunReopenStatus = "NOACTION" /\ tun' = tun
    BY <1>1, <2>1 DEF PERSIST_TUN_ACTION
  <2>3. clean
    BY <1>1, <2>2, KeptFromNothing
  <2>4. getTunConfigString = tun
    BY <1>1, <2>2 DEF getTunReopenStatus, IInv, LastIsTun
  <2> QED BY <1>1, <2>2, <2>3, <2>4, CleanIsRequested
<1>2. IInv /\ [Next]_vars =>
        [phase = "persist" /\ phase' = "up" /\ (clean \/ want.dns # << >>) => tun' = Requested(want)]_vars
  BY <1>1
<1> QED BY <1>2, Invariance, PTL DEF Spec, KeptIsRequested

\* A tunnel in use has the addresses, servers and proxy that were asked for, and
\* each network that was, included or excluded as the first round to name it
\* since the lists were reset had it (openTun, NetworkSpace.addIP).
THEOREM NeverIncomplete == Spec => []NothingMissing
<1>1. IInv => NothingMissing
  BY DEF IInv
<1> QED BY <1>1, Invariance, PTL

\* Without leftovers a tunnel is opened with exactly what was asked for
\* (openTun).
THEOREM OpenedExactly == Spec => OpenedIsRequested
<1>1. ASSUME IInv, [Next]_vars, phase = "opentun", phase' = "up", clean
      PROVE \E local \in SUBSET LocalNets, local6 \in SUBSET LocalNets6 :
               tun' = WithLocal(Requested(want), local, local6)
  <2>1. OPENTUN
    BY <1>1 DEF Next, vars, StartProcess, Restart, Exit, Recreate, Begin, IFCONFIG, IFCONFIG6, ROUTE,
                ROUTE6, DNSSERVER, DNSDOMAIN, HTTPPROXY, Ask, PERSIST_TUN_ACTION, EstablishFails,
                AddressRefused
  <2>2. getTunConfigString = Requested(want)
    BY <1>1, CleanIsRequested
  <2> QED BY <2>1, <2>2 DEF OPENTUN
<1>2. IInv /\ [Next]_vars =>
        [phase = "opentun" /\ phase' = "up" /\ clean =>
            \E local \in SUBSET LocalNets, local6 \in SUBSET LocalNets6 :
               tun' = WithLocal(Requested(want), local, local6)]_vars
  BY <1>1
<1> QED BY <1>2, Invariance, PTL DEF Spec, OpenedIsRequested
=============================================================================
