---------------------------- MODULE NetworkSpace ----------------------------
(***************************************************************************)
(* The routes of a tunnel: NetworkSpace collects networks to include and   *)
(* networks to exclude, and generateIPList turns them into networks that   *)
(* do not overlap, the included ones of which are the positive list. Below *)
(* API 33 openTun installs that list. From API 33 on it computes the list  *)
(* but installs the networks as they were added, with addRoute and         *)
(* excludeRoute; they may nest, and resolving that is left to Android.     *)
(*                                                                         *)
(* A network is its first address, the length of its mask and its type.    *)
(* The collecting calls and the iterations of generateIPList's loop are    *)
(* the actions; they all run on the management thread.                     *)
(***************************************************************************)
EXTENDS Integers, FiniteSets, Bags

CONSTANTS
    Bits,     \* length of an address: 32 or 128 in the code
    MaxNets,  \* bound on the networks of one tunnel
    NoNet     \* null

ASSUME BitsAssumption == Bits \in Nat
ASSUME NetsAssumption == MaxNets \in Nat

VARIABLES
    pc,            \* collecting, inside generateIPList, or its list was used
    mIpAddresses,  \* the TreeSet of the networks added
    networks,      \* the PriorityQueue, which may hold equal networks
    currentNet,
    ipsDone        \* the TreeSet generateIPList returns

vars == <<pc, mIpAddresses, networks, currentNet, ipsDone>>

-----------------------------------------------------------------------------
(* IpAddress.                                                              *)

Address == 0 .. 2 ^ Bits - 1
Net == [first : Nat, mask : Nat, included : BOOLEAN]

\* A mask longer than the address, which split() can make, clears no bit.
Size(mask) == IF mask <= Bits THEN 2 ^ (Bits - mask) ELSE 1

\* new IpAddress(...), with getMaskedAddress(false) of its address
IpAddress(address, mask, include) ==
    [first |-> address - (address % Size(mask)), mask |-> mask, included |-> include]

getLastAddress(n) == n.first + Size(n.mask) - 1

\* compareTo: by first address, the smaller network first
Before(a, b) == \/ a.first < b.first
                \/ a.first = b.first /\ a.mask >= b.mask

\* equals: the type is ignored
SameNet(a, b) == a.first = b.first /\ a.mask = b.mask

FirstHalf(n) == [first |-> n.first, mask |-> n.mask + 1, included |-> n.included]

\* Mutant: the upper half begins with the last address of the lower one.
SecondHalfOffByOne(n) == [first |-> getLastAddress(FirstHalf(n)), mask |-> n.mask + 1,
                          included |-> n.included]

SecondHalf(n) == [first |-> getLastAddress(FirstHalf(n)) + 1, mask |-> n.mask + 1,
                  included |-> n.included]

containsNet(a, b) == a.first <= b.first /\ getLastAddress(b) <= getLastAddress(a)

-----------------------------------------------------------------------------
(* Collections.                                                            *)

\* TreeSet.add: an equal network that is already there stays.
TreeAdd(set, n) == IF \E m \in set : SameNet(m, n) THEN set ELSE set \cup {n}

Contains(queue, n) == \E m \in BagToSet(queue) : SameNet(m, n)

QueueAdd(queue, n) == queue (+) SetToBag({n})

\* What poll() may return: the least network, any of several that are equal.
Heads(queue) == {n \in BagToSet(queue) : \A m \in BagToSet(queue) : Before(n, m)}

Polled(queue, n) == queue (-) SetToBag({n})

-----------------------------------------------------------------------------
\* Mutant: the set does not look for an equal network.
addIPTwice(address, mask, include) ==
    /\ pc = "collect"
    /\ Cardinality(mIpAddresses) < MaxNets
    /\ mIpAddresses' = mIpAddresses \cup {IpAddress(address, mask, include)}
    /\ UNCHANGED <<pc, networks, currentNet, ipsDone>>

\* addIP and addIPv6
addIP(address, mask, include) ==
    /\ pc = "collect"
    /\ Cardinality(mIpAddresses) < MaxNets
    /\ mIpAddresses' = TreeAdd(mIpAddresses, IpAddress(address, mask, include))
    /\ UNCHANGED <<pc, networks, currentNet, ipsDone>>

\* generateIPList is entered.
Generate ==
    /\ pc = "collect"
    /\ ipsDone' = {}
    /\ UNCHANGED mIpAddresses
    /\ LET queue == SetToBag(mIpAddresses) IN
       \/ /\ mIpAddresses = {}
          /\ pc' = "done" /\ UNCHANGED <<networks, currentNet>>
       \/ \E n \in Heads(queue) :
            /\ currentNet' = n
            /\ networks' = Polled(queue, n)
            /\ pc' = "loop"

Looping == pc = "loop" /\ UNCHANGED mIpAddresses

\* The queue is empty: the current network is the last one.
LastNet ==
    /\ Looping /\ BagToSet(networks) = {}
    /\ ipsDone' = TreeAdd(ipsDone, currentNet)
    /\ currentNet' = NoNet
    /\ pc' = "done"
    /\ UNCHANGED networks

\* Mutant: networks that touch count as disjoint.
DisjointOffByOne(nextNet) ==
    /\ getLastAddress(currentNet) <= nextNet.first
    /\ ipsDone' = TreeAdd(ipsDone, currentNet)
    /\ currentNet' = nextNet
    /\ networks' = Polled(networks, nextNet)

Disjoint(nextNet) ==
    /\ getLastAddress(currentNet) < nextNet.first
    /\ ipsDone' = TreeAdd(ipsDone, currentNet)
    /\ currentNet' = nextNet
    /\ networks' = Polled(networks, nextNet)

\* The current network is the beginning of the next one, or equals it.
Begins(nextNet) ==
    /\ getLastAddress(currentNet) >= nextNet.first
    /\ currentNet.first = nextNet.first
    /\ currentNet.mask >= nextNet.mask

ForgetCurrent(nextNet) ==
    /\ Begins(nextNet) /\ currentNet.included = nextNet.included
    /\ currentNet' = nextNet
    /\ networks' = Polled(networks, nextNet)
    /\ UNCHANGED ipsDone

\* Mutant: the halves are added without a look at the queue.
SplitNextUnseen(nextNet) ==
    LET rest == Polled(networks, nextNet)
        upper == QueueAdd(rest, SecondHalf(nextNet))
    IN  /\ Begins(nextNet) /\ currentNet.included # nextNet.included
        /\ networks' = IF getLastAddress(FirstHalf(nextNet)) = getLastAddress(currentNet)
                       THEN upper ELSE QueueAdd(upper, FirstHalf(nextNet))
        /\ UNCHANGED <<currentNet, ipsDone>>

SplitNext(nextNet) ==
    LET rest == Polled(networks, nextNet)
        lower == FirstHalf(nextNet)
        upper == IF Contains(rest, SecondHalf(nextNet))
                 THEN rest ELSE QueueAdd(rest, SecondHalf(nextNet))
    IN  /\ Begins(nextNet) /\ currentNet.included # nextNet.included
        /\ networks' = IF \/ getLastAddress(lower) = getLastAddress(currentNet)
                          \/ Contains(upper, lower)
                       THEN upper ELSE QueueAdd(upper, lower)
        /\ UNCHANGED <<currentNet, ipsDone>>

\* The next network begins inside the current one.
Within(nextNet) ==
    /\ getLastAddress(currentNet) >= nextNet.first
    /\ ~(currentNet.first = nextNet.first /\ currentNet.mask >= nextNet.mask)

\* Mutant: the next network is put back.
ForgetNextNever(nextNet) ==
    /\ Within(nextNet) /\ currentNet.included = nextNet.included
    /\ UNCHANGED <<networks, currentNet, ipsDone>>

ForgetNext(nextNet) ==
    /\ Within(nextNet) /\ currentNet.included = nextNet.included
    /\ networks' = Polled(networks, nextNet)
    /\ UNCHANGED <<currentNet, ipsDone>>

\* The next network is put back, before it the upper half of the current one
\* unless the two are taken to be equal; the upper half is not looked for.
SplitCurrent(nextNet) ==
    /\ Within(nextNet) /\ currentNet.included # nextNet.included
    /\ currentNet' = FirstHalf(currentNet)
    /\ networks' = IF SecondHalf(currentNet).mask = nextNet.mask
                   THEN networks
                   ELSE QueueAdd(networks, SecondHalf(currentNet))
    /\ UNCHANGED ipsDone

Iterate ==
    /\ Looping /\ UNCHANGED pc
    /\ \E nextNet \in Heads(networks) :
         \/ Disjoint(nextNet) \/ ForgetCurrent(nextNet) \/ SplitNext(nextNet)
         \/ ForgetNext(nextNet) \/ SplitCurrent(nextNet)

\* getPositiveIPList
Positive == {n \in ipsDone : n.included}

\* openTun has installed its routes, the positive list or the networks that
\* were added, and clears the space.
clear ==
    /\ pc = "done"
    /\ pc' = "collect"
    /\ mIpAddresses' = {}
    /\ ipsDone' = {} /\ networks' = EmptyBag /\ currentNet' = NoNet

Init ==
    /\ pc = "collect"
    /\ mIpAddresses = {}
    /\ networks = EmptyBag
    /\ currentNet = NoNet
    /\ ipsDone = {}

Next ==
    \/ \E address \in Address, mask \in 0 .. Bits, include \in BOOLEAN :
         addIP(address, mask, include)
    \/ Generate \/ Iterate \/ LastNet \/ clear

Spec == Init /\ [][Next]_vars

\* The loop goes on by itself.
FairSpec == Spec /\ WF_vars(Iterate) /\ WF_vars(LastNet)

-----------------------------------------------------------------------------
\* No two networks of the set are equal.
NoTwins(set) == \A a, b \in set : SameNet(a, b) => a = b

\* Types; a TreeSet never holds two equal networks, so the first of two calls
\* that disagree on a network decides its type.
TypeOK ==
    /\ pc \in {"collect", "loop", "done"}
    /\ mIpAddresses \subseteq Net /\ NoTwins(mIpAddresses)
    /\ BagToSet(networks) \subseteq Net
    /\ currentNet \in Net \cup {NoNet}
    /\ pc = "loop" => currentNet \in Net
    /\ ipsDone \subseteq Net

\* The networks generateIPList returns never overlap, whatever was added: no
\* address is in two of them, or in one that is included and one that is not.
\* (What openTun installs from API 33 on is mIpAddresses, which may overlap.)
DoneDisjoint ==
    \A a, b \in ipsDone :
        a # b => \/ getLastAddress(a) < b.first
                 \/ getLastAddress(b) < a.first

\* The networks are worked off in the order of their addresses, which is what
\* keeps the list free of overlaps.
InOrder ==
    pc = "loop" =>
        /\ \A n \in BagToSet(networks) : currentNet.first <= n.first
        /\ \A d \in ipsDone : getLastAddress(d) < currentNet.first

Of(n) == n.first .. getLastAddress(n)

\* Reference: the most specific network an address is in decides.
Included(set) ==
    {a \in Address : \E n \in set :
        /\ n.included /\ a \in Of(n)
        /\ \A m \in set : a \in Of(m) => m.mask <= n.mask}

\* The usual routes of a tunnel: some networks, of which disjoint parts are
\* excluded, none of those with an included network inside.
Plain(set) ==
    \A e \in set : ~e.included => \A n \in set \ {e} : ~containsNet(e, n)

\* Y is the upper half of a network that has X strictly inside its lower half.
UpperHalfBeside(X, Y) ==
    /\ X.mask > Y.mask
    /\ Y.first >= Size(Y.mask) /\ (Y.first \div Size(Y.mask)) % 2 = 1
    /\ Y.first - Size(Y.mask) <= X.first /\ X.first < Y.first

\* SplitCurrent meets such a pair of exclusions only below an included network.
Clash(set) ==
    \E N, X, Y \in set :
        /\ N.included /\ ~X.included /\ ~Y.included
        /\ containsNet(N, X) /\ containsNet(N, Y)
        /\ UpperHalfBeside(X, Y)

\* For the usual routes the positive list holds exactly the addresses whose most
\* specific network is included, in whatever order the networks were added,
\* split and polled (getPositiveIPList): where openTun installs it, below API
\* 33, no excluded network goes through the tunnel and no included one past it.
PositiveIsExact ==
    pc = "done" /\ Plain(mIpAddresses) /\ ~Clash(mIpAddresses) =>
        UNION {Of(n) : n \in Positive} = Included(mIpAddresses)

\* addRoute of VpnService.Builder throws on any other network.
Valid(n) == /\ n.mask <= Bits /\ n.first % Size(n.mask) = 0
            /\ getLastAddress(n) \in Address

\* For the usual routes every network of the positive list is one the system
\* accepts: no split is made below a single address, none leaves the boundaries
\* of networks and none the address space. Below API 33 a network that is
\* refused is only logged, so its addresses would go past the tunnel.
RoutesAreValid ==
    pc = "done" /\ Plain(mIpAddresses) /\ ~Clash(mIpAddresses) =>
        \A n \in Positive : Valid(n)

\* generateIPList returns: splitting always leads to networks that are disjoint
\* or are forgotten.
Terminates == pc = "loop" ~> pc = "done"

\* The assertion of debug builds: a next network inside the current one begins
\* after it.
NextBeginsLater ==
    pc = "loop" => \A nextNet \in Heads(networks) :
                      Within(nextNet) => currentNet.first < nextNet.first
=============================================================================
