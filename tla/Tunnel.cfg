SPECIFICATION Spec
CONSTANTS
    a1 = a1
    a2 = a2
    a6 = a6
    n1 = n1
    n2 = n2
    lan = lan
    n6 = n6
    s1 = s1
    s2 = s2
    dom1 = dom1
    dom2 = dom2
    prox = prox
    None = None
    Addresses <- MCAddresses
    Addresses6 = {a6}
    Nets <- MCNets
    Nets6 = {n6}
    OwnNet <- MCOwnNet
    OnTunnel <- MCOnTunnel
    Servers = {s1, s2}
    Domains = {dom1, dom2}
    Proxies = {prox}
    LocalNets = {lan}
    LocalNets6 = {}
    MaxDns = 3
    Configurations <- MCConfigurations
INVARIANTS TypeOK NothingMissing
PROPERTIES KeptIsRequested OpenedIsRequested
