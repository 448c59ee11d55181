---------------------------- MODULE TunnelConfig ----------------------------
(***************************************************************************)
(* How a tunnel is configured: the OpenVPN process sends a configuration   *)
(* item by item over the management interface, asks whether the tunnel it  *)
(* already has can be kept, and asks for a new one if not (init.c, tun.c). *)
(* The service collects the items and hands them to Android                *)
(* (OpenVpnManagementThread.processNeedCommand, OpenVPNService).           *)
(*                                                                         *)
(* The process waits for the answer to each question, so a question and    *)
(* its handling are one step. The process can end at any point: stopped,   *)
(* killed, or because SIGUSR1 or SIGINT interrupts a question, which       *)
(* leaves PERSIST_TUN_ACTION unanswered and is fatal. A new process can be *)
(* started by the same instance of the service, after stopOldOpenVPNProcess*)
(* has waited for the old one, so two rounds never overlap.                *)
(***************************************************************************)
EXTENDS Integers, Sequences

CONSTANTS
    Addresses,     \* IPv4 addresses of a tunnel, with netmask and MTU
    Addresses6,    \* IPv6 addresses of a tunnel
    Nets,          \* IPv4 networks; a configuration names each of them once
    Nets6,         \* IPv6 networks
    OwnNet,        \* the networks of an address: one, or none for a /32
    OnTunnel,      \* OnTunnel[ip]: networks whose gateway the tunnel reaches
    Servers,       \* DNS servers
    Domains,
    Proxies,
    LocalNets,     \* networks the device may be in; none unless mAllowLocalLAN
    LocalNets6,
    None,          \* null
    Configurations,\* what a process may be told to set up
    MaxDns         \* bound on the DNS servers that pile up

Configuration ==
    [ip : Addresses \cup {None}, ip6 : Addresses6 \cup {None}, routes : SUBSET Nets,
     routes6 : SUBSET Nets6, dns : Seq(Servers), domain : Domains \cup {None},
     proxy : Proxies \cup {None}]

ASSUME ConstantAssumption ==
    /\ None \notin Addresses \cup Addresses6 \cup Domains \cup Proxies
    /\ OwnNet \in [Addresses -> SUBSET Nets]
    /\ OnTunnel \in [Addresses -> SUBSET Nets]
    /\ LocalNets \subseteq Nets /\ LocalNets6 \subseteq Nets6
    /\ Configurations \subseteq Configuration
    /\ MaxDns \in Nat

VARIABLES
    mLocalIP, mLocalIPv6, mRoutes, mRoutesv6, mDnslist, mDomain, mProxyInfo,
    mLastTunCfg,   \* None until a first tunnel was opened
    phase,         \* what the process does: the next question, "up" or "down"
    want,          \* the configuration it sets up
    todo,          \* the items of want that are still to be sent
    tun,           \* what the tunnel of the process was opened with, None: no descriptor
    clean          \* nothing is left over of an earlier round

collected == <<mLocalIP, mLocalIPv6, mRoutes, mRoutesv6, mDnslist, mDomain, mProxyInfo>>
vars == <<mLocalIP, mLocalIPv6, mRoutes, mRoutesv6, mDnslist, mDomain, mProxyInfo,
          mLastTunCfg, phase, want, todo, tun, clean>>

\* The networks of a NetworkSpace: its set compares the networks only, so it
\* has each of them once, included or excluded.
Flags == {"absent", "include", "exclude"}

\* What Android is given, and what getTunConfigString prints
Tunnel ==
    [ip : Addresses \cup {None}, ip6 : Addresses6 \cup {None},
     routes : [Nets -> Flags], routes6 : [Nets6 -> Flags],
     dns : Seq(Servers), domain : Domains \cup {None}, proxy : Proxies \cup {None}]

-----------------------------------------------------------------------------
(* What the service collects.                                              *)

getTunConfigString ==
    [ip |-> mLocalIP, ip6 |-> mLocalIPv6, routes |-> mRoutes, routes6 |-> mRoutesv6,
     dns |-> mDnslist, domain |-> mDomain, proxy |-> mProxyInfo]

\* TreeSet.add: a network that is collected already is refused, whether it is
\* included or not, so the first one stays.
Add(routes, new) ==
    [net \in DOMAIN routes |-> IF routes[net] = "absent" THEN new[net] ELSE routes[net]]
Marked(all, nets, flag) == [net \in all |-> IF net \in nets THEN flag ELSE "absent"]
NoRoutes == Marked(Nets, {}, "absent")
NoRoutes6 == Marked(Nets6, {}, "absent")

Empty == [ip |-> None, ip6 |-> None, routes |-> NoRoutes, routes6 |-> NoRoutes6, dns |-> << >>,
          domain |-> None, proxy |-> None]

\* The routes that setLocalIP and addRoute add for an address
InterfaceRoutes(ip) == IF ip = None THEN NoRoutes ELSE Marked(Nets, OwnNet[ip], "include")
CollectedRoutes(ip, nets) ==
    IF ip = None THEN NoRoutes
    ELSE Add(Marked(Nets, nets \cap OnTunnel[ip], "include"), Marked(Nets, nets, "exclude"))

\* What a configuration asks for: what is collected for it from nothing
Requested(c) ==
    [ip |-> c.ip, ip6 |-> c.ip6, routes |-> Add(InterfaceRoutes(c.ip), CollectedRoutes(c.ip, c.routes)),
     routes6 |-> Marked(Nets6, c.routes6, "include"), dns |-> c.dns, domain |-> c.domain, proxy |-> c.proxy]

-----------------------------------------------------------------------------
Init == /\ mLocalIP = None /\ mLocalIPv6 = None /\ mRoutes = NoRoutes /\ mRoutesv6 = NoRoutes6
        /\ mDnslist = << >> /\ mDomain = None /\ mProxyInfo = None
        /\ mLastTunCfg = None
        /\ phase = "down" /\ tun = None /\ clean = TRUE
        /\ want \in Configurations /\ todo = want

Begin(c) == /\ Len(mDnslist) + Len(c.dns) <= MaxDns
            /\ phase' = "ifconfig" /\ want' = c /\ todo' = c

\* startOpenVPN: a new process in the same instance of the service. It comes
\* to do_open_tun when the server has pushed its options.
StartProcess == /\ phase = "down"
                /\ \E c \in Configurations : Begin(c)
                /\ UNCHANGED <<collected, mLastTunCfg, tun, clean>>

\* A restart of the connection inside the process: SIGUSR1 with persist-tun
\* keeps the descriptor in do_close_tun, anything else closes it.
Restart == /\ phase = "up"
           /\ \E c \in Configurations : Begin(c)
           /\ tun' \in {tun, None}
           /\ UNCHANGED <<collected, mLastTunCfg, clean>>

\* The process ends; its descriptor is closed.
Exit == /\ phase # "down"
        /\ phase' = "down" /\ tun' = None
        /\ clean' = (clean /\ phase = "up")
        /\ UNCHANGED <<collected, mLastTunCfg, want, todo>>

\* The service is stopped and created again: new fields.
Recreate == /\ phase = "down"
            /\ mLocalIP' = None /\ mLocalIPv6' = None /\ mRoutes' = NoRoutes /\ mRoutesv6' = NoRoutes6
            /\ mDnslist' = << >> /\ mDomain' = None /\ mProxyInfo' = None
            /\ mLastTunCfg' = None /\ clean' = TRUE
            /\ UNCHANGED <<phase, want, todo, tun>>

-----------------------------------------------------------------------------
(* The questions, in the order do_ifconfig, do_route and open_tun ask.     *)

Ask(now, next) == /\ phase = now /\ phase' = next
                  /\ UNCHANGED <<mLastTunCfg, want, tun, clean>>

\* Mutant: the first address wins, as the first domain does.
IFCONFIGFirst == /\ Ask("ifconfig", "ifconfig6")
                 /\ todo' = [todo EXCEPT !.ip = None]
                 /\ mLocalIP' = IF mLocalIP = None THEN todo.ip ELSE mLocalIP
                 /\ mRoutes' = Add(mRoutes, InterfaceRoutes(todo.ip))
                 /\ UNCHANGED <<mLocalIPv6, mRoutesv6, mDnslist, mDomain, mProxyInfo>>

\* setLocalIP(local, netmask, mtu, mode)
IFCONFIG == /\ Ask("ifconfig", "ifconfig6")
            /\ todo' = [todo EXCEPT !.ip = None]
            /\ mLocalIP' = IF todo.ip = None THEN mLocalIP ELSE todo.ip
            /\ mRoutes' = Add(mRoutes, InterfaceRoutes(todo.ip))
            /\ UNCHANGED <<mLocalIPv6, mRoutesv6, mDnslist, mDomain, mProxyInfo>>

IFCONFIG6 == /\ Ask("ifconfig6", "route")
             /\ todo' = [todo EXCEPT !.ip6 = None]
             /\ mLocalIPv6' = IF todo.ip6 = None THEN mLocalIPv6 ELSE todo.ip6
             /\ UNCHANGED <<mLocalIP, mRoutes, mRoutesv6, mDnslist, mDomain, mProxyInfo>>

\* addRoute(dest, mask, gateway, device): dropped when there is no address.
ROUTE == \E net \in todo.routes :
            /\ Ask("route", "route")
            /\ todo' = [todo EXCEPT !.routes = @ \ {net}]
            /\ mRoutes' = Add(mRoutes, CollectedRoutes(mLocalIP, {net}))
            /\ UNCHANGED <<mLocalIP, mLocalIPv6, mRoutesv6, mDnslist, mDomain, mProxyInfo>>

\* addRoutev6(network, device): the device is always the tunnel's.
ROUTE6 == \E net \in todo.routes6 :
             /\ todo.routes = {}
             /\ Ask("route", "route")
             /\ todo' = [todo EXCEPT !.routes6 = @ \ {net}]
             /\ mRoutesv6' = Add(mRoutesv6, Marked(Nets6, {net}, "include"))
             /\ UNCHANGED <<mLocalIP, mLocalIPv6, mRoutes, mDnslist, mDomain, mProxyInfo>>

\* addDNS
DNSSERVER == /\ todo.routes = {} /\ todo.routes6 = {} /\ todo.dns # << >>
             /\ Ask("route", "route")
             /\ todo' = [todo EXCEPT !.dns = Tail(@)]
             /\ mDnslist' = Append(mDnslist, Head(todo.dns))
             /\ UNCHANGED <<mLocalIP, mLocalIPv6, mRoutes, mRoutesv6, mDomain, mProxyInfo>>

\* setDomain: the first one wins.
DNSDOMAIN == /\ todo.routes = {} /\ todo.routes6 = {} /\ todo.dns = << >>
             /\ Ask("route", "proxy")
             /\ todo' = [todo EXCEPT !.domain = None]
             /\ mDomain' = IF mDomain = None THEN todo.domain ELSE mDomain
             /\ UNCHANGED <<mLocalIP, mLocalIPv6, mRoutes, mRoutesv6, mDnslist, mProxyInfo>>

\* addHttpProxy
HTTPPROXY == /\ Ask("proxy", "persist")
             /\ todo' = [todo EXCEPT !.proxy = None]
             /\ mProxyInfo' = IF todo.proxy = None THEN mProxyInfo ELSE todo.proxy
             /\ UNCHANGED <<mLocalIP, mLocalIPv6, mRoutes, mRoutesv6, mDnslist, mDomain>>

\* Mutant: only the addresses are compared.
getTunReopenStatusAddress ==
    IF mLastTunCfg # None /\ mLocalIP = mLastTunCfg.ip THEN "NOACTION" ELSE "OPEN_BEFORE_CLOSE"

getTunReopenStatus ==
    IF getTunConfigString = mLastTunCfg THEN "NOACTION" ELSE "OPEN_BEFORE_CLOSE"

\* Mutant: the process does not look whether it has a tunnel to keep.
PERSIST_TUN_ACTIONWithoutTun ==
    LET keep == getTunReopenStatus = "NOACTION"
    IN /\ phase = "persist"
       /\ phase' = IF keep THEN "up" ELSE "opentun"
       /\ clean' = (clean /\ ~keep)
       /\ UNCHANGED <<collected, mLastTunCfg, want, todo, tun>>

PERSIST_TUN_ACTION ==
    LET keep == tun # None /\ getTunReopenStatus = "NOACTION"
    IN /\ phase = "persist"
       /\ phase' = IF keep THEN "up" ELSE "opentun"
       /\ clean' = (clean /\ ~keep)
       /\ UNCHANGED <<collected, mLastTunCfg, want, todo, tun>>

\* openTun is given an address, and adds the networks the device is in now.
addLocalNetworksToRoutes(local, local6) ==
    /\ local \in SUBSET LocalNets /\ local6 \in SUBSET LocalNets6
    /\ mLocalIP = None => local = {} /\ local6 = {}
WithLocal(t, local, local6) ==
    [t EXCEPT !.routes = Add(@, Marked(Nets, local, "exclude")),
              !.routes6 = Add(@, Marked(Nets6, local6, "exclude"))]

\* Mutant: the routes stay.
ResetWithoutRoutes == /\ mLocalIP' = None /\ mLocalIPv6' = None
                      /\ UNCHANGED <<mRoutes, mRoutesv6>>
                      /\ mDnslist' = << >> /\ mDomain' = None /\ mProxyInfo' = None
                      /\ clean' = TRUE

\* "Reset information"
Reset == /\ mLocalIP' = None /\ mLocalIPv6' = None /\ mRoutes' = NoRoutes /\ mRoutesv6' = NoRoutes6
         /\ mDnslist' = << >> /\ mDomain' = None /\ mProxyInfo' = None
         /\ clean' = TRUE

\* sendTunFD hands a new tunnel over; the process closes its old one.
OPENTUN == /\ phase = "opentun"
           /\ mLocalIP # None \/ mLocalIPv6 # None
           /\ \E local \in SUBSET LocalNets, local6 \in SUBSET LocalNets6 :
                /\ addLocalNetworksToRoutes(local, local6)
                /\ mLastTunCfg' = WithLocal(getTunConfigString, local, local6)
           /\ Reset
           /\ tun' = mLastTunCfg' /\ phase' = "up"
           /\ UNCHANGED <<want, todo>>

\* establish() fails: the information is gone and remembered as the last
\* configuration. The answer "cancel" is fatal to the process.
EstablishFails == /\ phase = "opentun"
                  /\ mLocalIP # None \/ mLocalIPv6 # None
                  /\ \E local \in SUBSET LocalNets, local6 \in SUBSET LocalNets6 :
                       /\ addLocalNetworksToRoutes(local, local6)
                       /\ mLastTunCfg' = WithLocal(getTunConfigString, local, local6)
                  /\ Reset
                  /\ tun' = None /\ phase' = "down"
                  /\ UNCHANGED <<want, todo>>

\* There is no address, or Android refuses it: nothing is reset.
AddressRefused ==
    /\ phase = "opentun"
    /\ \E local \in SUBSET LocalNets, local6 \in SUBSET LocalNets6 :
         /\ addLocalNetworksToRoutes(local, local6)
         /\ mRoutes' = Add(mRoutes, Marked(Nets, local, "exclude"))
         /\ mRoutesv6' = Add(mRoutesv6, Marked(Nets6, local6, "exclude"))
    /\ tun' = None /\ phase' = "down" /\ clean' = FALSE
    /\ UNCHANGED <<mLocalIP, mLocalIPv6, mDnslist, mDomain, mProxyInfo, mLastTunCfg, want, todo>>

-----------------------------------------------------------------------------
Next == \/ StartProcess \/ Restart \/ Exit \/ Recreate
        \/ IFCONFIG \/ IFCONFIG6 \/ ROUTE \/ ROUTE6 \/ DNSSERVER \/ DNSDOMAIN \/ HTTPPROXY
        \/ PERSIST_TUN_ACTION \/ OPENTUN \/ EstablishFails \/ AddressRefused

Spec == Init /\ [][Next]_vars

-----------------------------------------------------------------------------
(* Properties.                                                             *)

Asking == {"ifconfig", "ifconfig6", "route", "proxy", "persist", "opentun"}

\* The variables have their types; a process that is up has a tunnel, and one
\* that is down has none.
TypeOK == /\ getTunConfigString \in Tunnel
          /\ mLastTunCfg \in Tunnel \cup {None}
          /\ phase \in Asking \cup {"up", "down"}
          /\ want \in Configurations /\ todo \in Configuration
          /\ tun \in Tunnel \cup {None}
          /\ clean \in BOOLEAN
          /\ phase = "up" => tun \in Tunnel
          /\ phase = "down" => tun = None

\* A tunnel that is kept over a restart is exactly the one the process asked
\* for this time, if this round names a DNS server or nothing was left over
\* before it: whatever ended processes, failed openings and kept tunnels left
\* in the lists of the service, NOACTION then never keeps a tunnel of another
\* configuration (getTunReopenStatus, openTun).
KeptIsRequested ==
    [][phase = "persist" /\ phase' = "up" /\ (clean \/ want.dns # << >>) => tun' = Requested(want)]_vars

\* Every tunnel in use has the address, the networks, the DNS servers and the
\* proxy the process asked for in its last round, also when it was kept or
\* opened with what is left of earlier rounds (openTun). A network that an
\* earlier round left may be excluded where this one asks to include it, or
\* the other way round (NetworkSpace.addIP).
NothingMissing ==
    phase = "up" =>
        LET r == Requested(want)
        IN /\ r.ip # None => tun.ip = r.ip
           /\ r.ip6 # None => tun.ip6 = r.ip6
           /\ r.proxy # None => tun.proxy = r.proxy
           /\ \A net \in Nets : r.routes[net] # "absent" => tun.routes[net] # "absent"
           /\ \A net \in Nets6 : r.routes6[net] # "absent" => tun.routes6[net] # "absent"
           /\ \A i \in DOMAIN r.dns : \E j \in DOMAIN tun.dns : tun.dns[j] = r.dns[i]

\* A tunnel that is opened has what the process asked for in this round and
\* nothing else but the excluded networks of the device, unless an earlier
\* round kept its tunnel or was broken off (openTun "Reset information").
OpenedIsRequested ==
    [][phase = "opentun" /\ phase' = "up" /\ clean =>
         \E local \in SUBSET LocalNets, local6 \in SUBSET LocalNets6 :
            tun' = WithLocal(Requested(want), local, local6)]_vars

\* "calls the OPENTUN command to receive a tun fd with the requested
\* configuration" (doc/android.txt): every tunnel in use is the requested one.
\* The lists are not reset when a tunnel is kept or a round is broken off, so
\* the next one that is opened also has the routes and DNS servers of that
\* earlier configuration, and keeps a network excluded that was so before.
TunIsRequested == phase = "up" => tun = Requested(want)
=============================================================================
