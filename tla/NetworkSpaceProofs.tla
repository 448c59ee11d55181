------------------------- MODULE NetworkSpaceProofs -------------------------
(***************************************************************************)
(* What generateIPList guarantees for addresses of any length and any      *)
(* number of networks: its types, that its list never overlaps, and that   *)
(* for the usual routes it includes exactly the right addresses.           *)
(***************************************************************************)
EXTENDS NetworkLemmas

-----------------------------------------------------------------------------
(* Networks.                                                               *)

\* The last address is not before the first.
LEMMA LastAfterFirst ==
    \A n \in Net : getLastAddress(n) \in Nat /\ n.first <= getLastAddress(n)
<1> SUFFICES ASSUME NEW n \in Net
             PROVE getLastAddress(n) \in Nat /\ n.first <= getLastAddress(n)
    OBVIOUS
<1>1. n.first \in Nat /\ n.mask \in Nat
    BY DEF Net
<1>2. Size(n.mask) \in Nat \ {0}
    BY <1>1, SizeIsPositive
<1> QED BY <1>1, <1>2 DEF getLastAddress

\* split() makes networks that do not begin before the one it splits.
LEMMA Halves ==
    \A n \in Net : /\ FirstHalf(n) \in Net /\ FirstHalf(n).first = n.first
                   /\ SecondHalf(n) \in Net /\ n.first <= SecondHalf(n).first
<1> SUFFICES ASSUME NEW n \in Net
             PROVE /\ FirstHalf(n) \in Net /\ FirstHalf(n).first = n.first
                   /\ SecondHalf(n) \in Net /\ n.first <= SecondHalf(n).first
    OBVIOUS
<1>1. FirstHalf(n) \in Net /\ FirstHalf(n).first = n.first
    BY DEF FirstHalf, Net
<1>2. getLastAddress(FirstHalf(n)) \in Nat /\ n.first <= getLastAddress(FirstHalf(n))
    BY <1>1, LastAfterFirst
<1>3. n.first \in Nat /\ n.mask \in Nat /\ n.included \in BOOLEAN
    BY DEF Net
<1>4. getLastAddress(FirstHalf(n)) + 1 \in Nat /\ n.first <= getLastAddress(FirstHalf(n)) + 1
    BY <1>2, <1>3
<1>5. SecondHalf(n) \in Net /\ SecondHalf(n).first = getLastAddress(FirstHalf(n)) + 1
    BY <1>3, <1>4 DEF SecondHalf, Net
<1> QED BY <1>1, <1>4, <1>5

-----------------------------------------------------------------------------
(* Collections.                                                            *)

LEMMA TreeAddAdds ==
    ASSUME NEW set, NEW n
    PROVE TreeAdd(set, n) \subseteq set \cup {n}
BY DEF TreeAdd

\* TreeSet.add keeps the set free of equal networks.
LEMMA TreeAddNoTwins ==
    ASSUME NEW set, NEW n, NoTwins(set)
    PROVE NoTwins(TreeAdd(set, n))
BY DEF TreeAdd, NoTwins, SameNet

LEMMA QueueAddAdds ==
    ASSUME NEW queue, NEW n
    PROVE BagToSet(QueueAdd(queue, n)) = BagToSet(queue) \cup {n}
BY DEF QueueAdd, BagToSet, SetToBag, (+)

LEMMA PolledRemoves ==
    ASSUME NEW queue, NEW n
    PROVE BagToSet(Polled(queue, n)) \subseteq BagToSet(queue)
BY DEF Polled, BagToSet, SetToBag, (-)

\* Only the network that is polled may be gone from the queue.
LEMMA PolledKeeps ==
    ASSUME NEW queue, IsABag(queue), NEW n
    PROVE /\ IsABag(Polled(queue, n))
          /\ BagToSet(queue) \ {n} \subseteq BagToSet(Polled(queue, n))
BY DEF IsABag, Polled, BagToSet, SetToBag, (-)

LEMMA QueueAddKeeps ==
    ASSUME NEW queue, IsABag(queue), NEW n
    PROVE IsABag(QueueAdd(queue, n))
BY DEF IsABag, QueueAdd, SetToBag, (+)

LEMMA BagsOfSets == IsABag(EmptyBag) /\ \A S : IsABag(SetToBag(S))
BY DEF IsABag, EmptyBag, SetToBag

\* poll() returns a network of the queue that begins no later than any other.
LEMMA HeadIsFirst ==
    ASSUME NEW queue, BagToSet(queue) \subseteq Net, NEW n \in Heads(queue)
    PROVE /\ n \in BagToSet(queue) /\ n \in Net
          /\ \A m \in BagToSet(queue) : n.first <= m.first
<1>1. n \in BagToSet(queue) /\ n \in Net
    BY DEF Heads
<1>2. ASSUME NEW m \in BagToSet(queue) PROVE n.first <= m.first
  <2>1. n.first \in Nat /\ m.first \in Nat
      BY <1>1 DEF Net
  <2>2. Before(n, m)
      BY DEF Heads
  <2> QED BY <2>1, <2>2 DEF Before
<1> QED BY <1>1, <1>2

-----------------------------------------------------------------------------
(* Types.                                                                  *)

\* What an iteration leaves in the queue, the current network and the list.
IterateTypes == /\ BagToSet(networks') \subseteq Net
                /\ currentNet' \in Net
                /\ ipsDone' \subseteq Net

LEMMA IterateKeepsTypes ==
    ASSUME TypeOK, pc = "loop", NEW nextNet \in Heads(networks),
           \/ Disjoint(nextNet) \/ ForgetCurrent(nextNet) \/ SplitNext(nextNet)
           \/ ForgetNext(nextNet) \/ SplitCurrent(nextNet)
    PROVE IterateTypes
<1> DEFINE rest == Polled(networks, nextNet)
<1>1. currentNet \in Net /\ ipsDone \subseteq Net /\ BagToSet(networks) \subseteq Net
    BY DEF TypeOK
<1>2. nextNet \in Net
    BY <1>1, HeadIsFirst
<1>3. BagToSet(rest) \subseteq Net
    BY <1>1, PolledRemoves
<1>4. CASE Disjoint(nextNet)
  <2>1. TreeAdd(ipsDone, currentNet) \subseteq Net
      BY <1>1, TreeAddAdds
  <2> QED BY <1>2, <1>3, <1>4, <2>1 DEF Disjoint, IterateTypes
<1>5. CASE ForgetCurrent(nextNet)
    BY <1>1, <1>2, <1>3, <1>5 DEF ForgetCurrent, IterateTypes
<1>6. CASE SplitNext(nextNet)
  <2> DEFINE lower == FirstHalf(nextNet)
             upper == IF Contains(rest, SecondHalf(nextNet))
                      THEN rest ELSE QueueAdd(rest, SecondHalf(nextNet))
  <2>1. lower \in Net /\ SecondHalf(nextNet) \in Net
      BY <1>2, Halves
  <2>2. BagToSet(upper) \subseteq Net
      BY <1>3, <2>1, QueueAddAdds
  <2>3. networks' \in {upper, QueueAdd(upper, lower)}
      BY <1>6 DEF SplitNext
  <2> HIDE DEF rest, lower, upper
  <2>4. BagToSet(networks') \subseteq Net
      BY <2>1, <2>2, <2>3, QueueAddAdds
  <2>5. UNCHANGED <<currentNet, ipsDone>>
      BY <1>6 DEF SplitNext
  <2> QED BY <1>1, <2>4, <2>5 DEF IterateTypes
<1>7. CASE ForgetNext(nextNet)
    BY <1>1, <1>3, <1>7 DEF ForgetNext, IterateTypes
<1>8. CASE SplitCurrent(nextNet)
  <2>1. FirstHalf(currentNet) \in Net /\ SecondHalf(currentNet) \in Net
      BY <1>1, Halves
  <2>2. networks' \in {networks, QueueAdd(networks, SecondHalf(currentNet))}
      BY <1>8 DEF SplitCurrent
  <2>3. BagToSet(networks') \subseteq Net
      BY <1>1, <2>1, <2>2, QueueAddAdds
  <2> QED BY <1>1, <1>8, <2>1, <2>3 DEF SplitCurrent, IterateTypes
<1> QED BY <1>4, <1>5, <1>6, <1>7, <1>8

LEMMA EmptyBagIsEmpty == BagToSet(EmptyBag) = {}
BY DEF BagToSet, EmptyBag, SetToBag

LEMMA BagOfSet == \A S : BagToSet(SetToBag(S)) = S
BY DEF BagToSet, SetToBag

LEMMA NextKeepsTypes == TypeOK /\ [Next]_vars => TypeOK'
<1> SUFFICES ASSUME TypeOK, [Next]_vars PROVE TypeOK'
    OBVIOUS
<1>1. ASSUME NEW address \in Address, NEW mask \in 0 .. Bits, NEW include \in BOOLEAN,
             addIP(address, mask, include)
      PROVE TypeOK'
  <2> DEFINE n == IpAddress(address, mask, include)
  <2>1. n \in Net
      BY IpAddressIsPrefix
  <2>2. mIpAddresses' = TreeAdd(mIpAddresses, n)
      BY <1>1 DEF addIP
  <2>3. mIpAddresses \subseteq Net /\ NoTwins(mIpAddresses)
      BY DEF TypeOK
  <2> HIDE DEF n
  <2>4. mIpAddresses' \subseteq Net /\ NoTwins(mIpAddresses')
      BY <2>1, <2>2, <2>3, TreeAddAdds, TreeAddNoTwins
  <2>5. UNCHANGED <<pc, networks, currentNet, ipsDone>>
      BY <1>1 DEF addIP
  <2> QED BY <2>4, <2>5 DEF TypeOK
<1>2. CASE Generate
  <2>1. mIpAddresses' = mIpAddresses /\ ipsDone' = {}
      BY <1>2 DEF Generate
  <2>2. CASE mIpAddresses = {} /\ pc' = "done" /\ UNCHANGED <<networks, currentNet>>
      BY <2>1, <2>2 DEF TypeOK
  <2>3. ASSUME NEW n \in Heads(SetToBag(mIpAddresses)),
               currentNet' = n, networks' = Polled(SetToBag(mIpAddresses), n), pc' = "loop"
        PROVE TypeOK'
    <3>1. BagToSet(SetToBag(mIpAddresses)) \subseteq Net
        BY BagOfSet DEF TypeOK
    <3>2. n \in Net
        BY <3>1, HeadIsFirst
    <3>3. BagToSet(networks') \subseteq Net
        BY <2>3, <3>1, PolledRemoves
    <3> QED BY <2>1, <2>3, <3>2, <3>3 DEF TypeOK
  <2> QED BY <1>2, <2>2, <2>3 DEF Generate
<1>3. CASE Iterate
  <2>1. IterateTypes
      BY <1>3, IterateKeepsTypes DEF Iterate, Looping
  <2>2. UNCHANGED <<pc, mIpAddresses>>
      BY <1>3 DEF Iterate, Looping
  <2> QED BY <2>1, <2>2 DEF TypeOK, IterateTypes
<1>4. CASE LastNet
  <2>1. currentNet \in Net /\ ipsDone \subseteq Net
      BY <1>4 DEF LastNet, Looping, TypeOK
  <2>2. ipsDone' \subseteq Net
      BY <1>4, <2>1, TreeAddAdds DEF LastNet
  <2> QED BY <1>4, <2>2 DEF LastNet, Looping, TypeOK
<1>5. CASE clear
  <2>1. BagToSet(networks') = {}
      BY <1>5, EmptyBagIsEmpty DEF clear
  <2> QED BY <1>5, <2>1 DEF clear, TypeOK, NoTwins
<1>6. CASE UNCHANGED vars
    BY <1>6 DEF vars, TypeOK
<1> QED BY <1>1, <1>2, <1>3, <1>4, <1>5, <1>6 DEF Next

\* Every collection of the space holds networks, and no TreeSet holds two equal
\* ones, for addresses of any length and any number of networks.
THEOREM TypeCorrect == Spec => []TypeOK
<1>1. Init => TypeOK
    BY EmptyBagIsEmpty DEF Init, TypeOK, NoTwins
<1> QED BY <1>1, NextKeepsTypes, PTL DEF Spec

-----------------------------------------------------------------------------
(* The list.                                                               *)

\* A network behind every network of the list can be added to it.
LEMMA AddBehind ==
    ASSUME TypeOK, pc = "loop", InOrder, DoneDisjoint
    PROVE \A a, b \in TreeAdd(ipsDone, currentNet) :
             a # b => \/ getLastAddress(a) < b.first
                      \/ getLastAddress(b) < a.first
<1>1. TreeAdd(ipsDone, currentNet) \subseteq ipsDone \cup {currentNet}
    BY TreeAddAdds
<1>2. \A d \in ipsDone : getLastAddress(d) < currentNet.first
    BY DEF InOrder
<1> QED BY <1>1, <1>2 DEF DoneDisjoint

LEMMA IterateKeepsOrder ==
    ASSUME TypeOK, pc = "loop", pc' = "loop", InOrder, DoneDisjoint,
           NEW nextNet \in Heads(networks),
           \/ Disjoint(nextNet) \/ ForgetCurrent(nextNet) \/ SplitNext(nextNet)
           \/ ForgetNext(nextNet) \/ SplitCurrent(nextNet)
    PROVE InOrder' /\ DoneDisjoint'
<1> DEFINE rest == Polled(networks, nextNet)
<1>1. currentNet \in Net /\ ipsDone \subseteq Net /\ BagToSet(networks) \subseteq Net
    BY DEF TypeOK
<1>2. /\ nextNet \in BagToSet(networks) /\ nextNet \in Net
      /\ \A m \in BagToSet(networks) : nextNet.first <= m.first
    BY <1>1, HeadIsFirst
<1>3. BagToSet(rest) \subseteq BagToSet(networks)
    BY PolledRemoves
<1>4. /\ \A n \in BagToSet(networks) : currentNet.first <= n.first
      /\ \A d \in ipsDone : getLastAddress(d) < currentNet.first
    BY DEF InOrder
<1>5. currentNet.first \in Nat /\ nextNet.first \in Nat
    BY <1>1, <1>2 DEF Net
<1>6. /\ getLastAddress(currentNet) \in Nat /\ currentNet.first <= getLastAddress(currentNet)
      /\ \A d \in ipsDone : getLastAddress(d) \in Nat
    BY <1>1, LastAfterFirst
<1>7. CASE Disjoint(nextNet)
  <2>1. /\ ipsDone' = TreeAdd(ipsDone, currentNet) /\ currentNet' = nextNet
        /\ networks' = rest /\ getLastAddress(currentNet) < nextNet.first
      BY <1>7 DEF Disjoint
  <2> HIDE DEF rest
  <2>2. DoneDisjoint'
      BY <2>1, AddBehind DEF DoneDisjoint
  <2>3. \A d \in ipsDone : getLastAddress(d) < nextNet.first
      BY <1>4, <1>5, <1>6, <2>1
  <2>4. \A d \in ipsDone' : getLastAddress(d) < nextNet.first
      BY <2>1, <2>3, TreeAddAdds
  <2>5. \A n \in BagToSet(networks') : nextNet.first <= n.first
      BY <1>2, <1>3, <2>1
  <2> QED BY <2>1, <2>2, <2>4, <2>5 DEF InOrder
<1>8. CASE ForgetCurrent(nextNet)
  <2>1. /\ ipsDone' = ipsDone /\ currentNet' = nextNet /\ networks' = rest
        /\ currentNet.first = nextNet.first
      BY <1>8 DEF ForgetCurrent, Begins
  <2> HIDE DEF rest
  <2>2. \A n \in BagToSet(networks') : nextNet.first <= n.first
      BY <1>2, <1>3, <2>1
  <2> QED BY <1>4, <2>1, <2>2 DEF InOrder, DoneDisjoint
<1>9. CASE SplitNext(nextNet)
  <2> DEFINE lower == FirstHalf(nextNet)
             second == SecondHalf(nextNet)
             upper == IF Contains(rest, second) THEN rest ELSE QueueAdd(rest, second)
  <2>1. networks' \in {upper, QueueAdd(upper, lower)}
      BY <1>9 DEF SplitNext
  <2>2. UNCHANGED <<currentNet, ipsDone>>
      BY <1>9 DEF SplitNext
  <2>3. lower.first = nextNet.first /\ nextNet.first <= second.first /\ second.first \in Nat
      BY <1>2, Halves DEF Net
  <2>4. currentNet.first <= lower.first /\ currentNet.first <= second.first
      BY <1>2, <1>4, <1>5, <2>3
  <2>5. BagToSet(upper) \subseteq BagToSet(rest) \cup {second}
      BY QueueAddAdds
  <2> HIDE DEF rest, lower, second, upper
  <2>6. BagToSet(networks') \subseteq BagToSet(networks) \cup {second, lower}
      BY <1>3, <2>1, <2>5, QueueAddAdds
  <2>7. \A n \in BagToSet(networks') : currentNet.first <= n.first
      BY <1>4, <2>4, <2>6
  <2> QED BY <1>4, <2>2, <2>7 DEF InOrder, DoneDisjoint
<1>10. CASE ForgetNext(nextNet)
    BY <1>3, <1>4, <1>10 DEF ForgetNext, InOrder, DoneDisjoint
<1>11. CASE SplitCurrent(nextNet)
  <2> DEFINE second == SecondHalf(currentNet)
  <2>1. networks' \in {networks, QueueAdd(networks, second)}
      BY <1>11 DEF SplitCurrent
  <2>2. currentNet' = FirstHalf(currentNet) /\ ipsDone' = ipsDone
      BY <1>11 DEF SplitCurrent
  <2>3. FirstHalf(currentNet).first = currentNet.first /\ currentNet.first <= second.first
      BY <1>1, Halves
  <2> HIDE DEF second
  <2>4. \A n \in BagToSet(networks') : currentNet.first <= n.first
      BY <1>4, <2>1, <2>3, QueueAddAdds
  <2>5. currentNet'.first = currentNet.first
      BY <2>2, <2>3
  <2> QED BY <1>4, <2>2, <2>4, <2>5 DEF InOrder, DoneDisjoint
<1> QED BY <1>7, <1>8, <1>9, <1>10, <1>11

LEMMA NextKeepsOrder == TypeOK /\ InOrder /\ DoneDisjoint /\ [Next]_vars => InOrder' /\ DoneDisjoint'
<1> SUFFICES ASSUME TypeOK, InOrder, DoneDisjoint, [Next]_vars PROVE InOrder' /\ DoneDisjoint'
    OBVIOUS
<1>1. ASSUME NEW address \in Address, NEW mask \in 0 .. Bits, NEW include \in BOOLEAN,
             addIP(address, mask, include)
      PROVE InOrder' /\ DoneDisjoint'
    BY <1>1 DEF addIP, InOrder, DoneDisjoint
<1>2. CASE Generate
  <2>1. ipsDone' = {}
      BY <1>2 DEF Generate
  <2>2. DoneDisjoint'
      BY <2>1 DEF DoneDisjoint
  <2>3. CASE pc' = "done"
      BY <2>2, <2>3 DEF InOrder
  <2>4. ASSUME NEW n \in Heads(SetToBag(mIpAddresses)),
               currentNet' = n, networks' = Polled(SetToBag(mIpAddresses), n), pc' = "loop"
        PROVE InOrder'
    <3>1. BagToSet(SetToBag(mIpAddresses)) \subseteq Net
        BY BagOfSet DEF TypeOK
    <3>2. \A m \in BagToSet(SetToBag(mIpAddresses)) : n.first <= m.first
        BY <3>1, HeadIsFirst
    <3>3. BagToSet(networks') \subseteq BagToSet(SetToBag(mIpAddresses))
        BY <2>4, PolledRemoves
    <3> QED BY <2>1, <2>4, <3>2, <3>3 DEF InOrder
  <2> QED BY <1>2, <2>2, <2>3, <2>4 DEF Generate
<1>3. CASE Iterate
    BY <1>3, IterateKeepsOrder DEF Iterate, Looping
<1>4. CASE LastNet
  <2>1. pc = "loop" /\ ipsDone' = TreeAdd(ipsDone, currentNet) /\ pc' = "done"
      BY <1>4 DEF LastNet, Looping
  <2>2. DoneDisjoint'
      BY <2>1, AddBehind DEF DoneDisjoint
  <2> QED BY <2>1, <2>2 DEF InOrder
<1>5. CASE clear
    BY <1>5 DEF clear, InOrder, DoneDisjoint
<1>6. CASE UNCHANGED vars
    BY <1>6 DEF vars, InOrder, DoneDisjoint
<1> QED BY <1>1, <1>2, <1>3, <1>4, <1>5, <1>6 DEF Next

\* The list generateIPList returns, and every list it has on the way, is free of
\* overlaps: also for the routes for which it is wrong about what is included.
THEOREM ListIsDisjoint == Spec => []DoneDisjoint
<1>1. Init => InOrder /\ DoneDisjoint
    BY DEF Init, InOrder, DoneDisjoint
<1> QED BY <1>1, TypeCorrect, NextKeepsOrder, PTL DEF Spec

-----------------------------------------------------------------------------
(* The positive list. The networks in play are those of the list, of the   *)
(* queue and the current one. For the usual routes every excluded network  *)
(* stays in play as it was added, every included one is a piece of one     *)
(* that was added and not inside an excluded one, and together they cover  *)
(* what was included.                                                      *)

Usual == Plain(mIpAddresses) /\ ~Clash(mIpAddresses)

Excluded == {n \in mIpAddresses : ~n.included}

InPlay == ipsDone \cup IF pc = "loop" THEN {currentNet} \cup BagToSet(networks) ELSE {}

\* The network is what was excluded, or a piece of what was included.
Good(p) ==
    /\ Prefix(p)
    /\ ~p.included => p \in Excluded
    /\ p.included => /\ \E n \in mIpAddresses : n.included /\ containsNet(n, p)
                     /\ \A e \in Excluded : ~containsNet(e, p)

Covered(a, set) == \/ \E p \in set : p.included /\ a \in Of(p)
                   \/ \E e \in Excluded : a \in Of(e)

Exact(set) ==
    /\ \A p \in set : Good(p)
    /\ Excluded \subseteq set
    /\ \A n \in mIpAddresses : n.included => \A a \in Of(n) : Covered(a, set)

\* The current network was polled before every network of the queue.
PolledFirst == \A n \in BagToSet(networks) : Before(currentNet, n)

Sources == \A n \in mIpAddresses : Prefix(n) /\ getLastAddress(n) \in Address

ExactInv ==
    /\ IsABag(networks) /\ Sources
    /\ Usual /\ pc # "collect" => Exact(InPlay)
    /\ Usual /\ pc = "loop" => PolledFirst

\* Included networks may be replaced by pieces that cover the same addresses.
LEMMA Replace ==
    ASSUME NEW P, NEW Q, Exact(P), \A q \in Q \ P : Good(q),
           \A p \in P \ Q : p.included /\ \A a \in Of(p) : Covered(a, Q)
    PROVE  Exact(Q)
<1>1. \A q \in Q : Good(q)
  BY DEF Exact
<1>2. Excluded \subseteq Q
  BY DEF Exact, Excluded
<1>3. ASSUME NEW n \in mIpAddresses, n.included, NEW a \in Of(n) PROVE Covered(a, Q)
  <2>1. Covered(a, P)
    BY <1>3 DEF Exact
  <2> QED BY <2>1 DEF Covered
<1> QED BY <1>1, <1>2, <1>3 DEF Exact

\* Excluded networks do not overlap.
LEMMA ExcludedApart ==
    ASSUME Sources, Usual, NEW e \in Excluded, NEW f \in Excluded, Overlap(e, f)
    PROVE  e = f
<1>1. Prefix(e) /\ Prefix(f) /\ e \in mIpAddresses /\ f \in mIpAddresses /\ ~e.included /\ ~f.included
  BY DEF Sources, Excluded
<1>2. e.mask \in Nat /\ f.mask \in Nat /\ Overlap(f, e)
  BY <1>1 DEF Prefix, Net, Overlap
<1>3. containsNet(e, f) \/ containsNet(f, e)
  BY <1>1, <1>2, Nested
<1> QED BY <1>1, <1>3 DEF Usual, Plain

\* A piece that overlaps an excluded network has it strictly inside.
LEMMA ExcludedInside ==
    ASSUME NEW p, Good(p), p.included, NEW e \in Excluded, Prefix(e), Overlap(p, e)
    PROVE  containsNet(p, e) /\ p.mask < e.mask
<1>1. Prefix(p) /\ ~containsNet(e, p)
  BY DEF Good
<1>2. p.mask \in Nat /\ e.mask \in Nat
  BY <1>1 DEF Prefix, Net
<1>3. Overlap(e, p)
  BY DEF Overlap
<1>4. p.mask < e.mask
  BY <1>1, <1>2, <1>3, Nested
<1> QED BY <1>1, <1>2, <1>4, Nested

LEMMA ContainsTransitive ==
    ASSUME NEW a, NEW b, NEW c, Prefix(a), Prefix(b), Prefix(c),
           containsNet(a, b), containsNet(b, c)
    PROVE  containsNet(a, c)
<1>1. /\ a.first \in Nat /\ b.first \in Nat /\ c.first \in Nat
      /\ getLastAddress(a) \in Nat /\ getLastAddress(b) \in Nat /\ getLastAddress(c) \in Nat
  BY PrefixTypes
<1> QED BY <1>1 DEF containsNet

\* The addresses of a network inside another one, or equal to it.
LEMMA ContainsOf ==
    ASSUME NEW a, NEW b, Prefix(a), Prefix(b), containsNet(a, b)
    PROVE  Of(b) \subseteq Of(a)
<1>1. /\ a.first \in Nat /\ b.first \in Nat /\ getLastAddress(a) \in Nat /\ getLastAddress(b) \in Nat
  BY PrefixTypes
<1> QED BY <1>1 DEF containsNet, Of

LEMMA SameOf ==
    ASSUME NEW a, NEW b, SameNet(a, b)
    PROVE  /\ Of(a) = Of(b) /\ getLastAddress(a) = getLastAddress(b)
           /\ containsNet(a, b) <=> containsNet(b, a)
BY DEF SameNet, Of, getLastAddress, containsNet

\* What split() makes of a piece with an excluded network strictly inside is a
\* piece, unless it equals an excluded network.
LEMMA HalvesAreGood ==
    ASSUME Sources, NEW n, Good(n), n.included, n.mask < Bits,
           NEW h \in {FirstHalf(n), SecondHalf(n)},
           \A e \in Excluded : ~SameNet(e, h)
    PROVE  Good(h)
<1>1. Prefix(n) /\ Prefix(h) /\ h.mask = n.mask + 1 /\ h.included
  <2>1. Prefix(n)
    BY DEF Good
  <2>2. Prefix(h)
    BY <2>1, HalvesOfPrefix
  <2>3. h.mask = n.mask + 1 /\ h.included
    BY DEF FirstHalf, SecondHalf
  <2> QED BY <2>1, <2>2, <2>3
<1>2. containsNet(n, h)
  <2>1. /\ n.first \in Nat /\ n.mask \in Nat /\ Size(n.mask + 1) \in Nat \ {0}
        /\ Size(n.mask) = 2 * Size(n.mask + 1)
        /\ getLastAddress(n) = n.first + Size(n.mask) - 1
    <3>1. n.first \in Nat /\ n.mask \in Nat /\ n.mask + 1 \in Nat
      BY <1>1 DEF Prefix, Net
    <3> QED BY <1>1, <3>1, PrefixTypes, SizeIsPositive, SizeDoubles
  <2>2. \/ h.first = n.first /\ getLastAddress(h) = n.first + Size(n.mask + 1) - 1
        \/ h.first = n.first + Size(n.mask + 1) /\ getLastAddress(h) = getLastAddress(n)
    BY <1>1, HalvesOfPrefix
  <2> QED BY <2>1, <2>2 DEF containsNet
<1>3. PICK N \in mIpAddresses : N.included /\ containsNet(N, n)
  BY DEF Good
<1>4. containsNet(N, h)
  BY <1>1, <1>2, <1>3, ContainsTransitive DEF Sources
<1>5. ASSUME NEW e \in Excluded, containsNet(e, h) PROVE FALSE
  <2>1. Prefix(e)
    BY DEF Sources, Excluded
  <2>2. e.mask < h.mask
    BY <1>1, <1>5, <2>1, Inside
  <2>3. Overlap(n, e)
    <3>1. /\ n.first \in Nat /\ getLastAddress(n) \in Nat /\ e.first \in Nat /\ getLastAddress(e) \in Nat
          /\ h.first \in Nat /\ getLastAddress(h) \in Nat /\ h.first <= getLastAddress(h)
      BY <1>1, <2>1, PrefixTypes
    <3> QED BY <1>2, <1>5, <3>1 DEF containsNet, Overlap
  <2>4. n.mask < e.mask
    BY <2>1, <2>3, ExcludedInside
  <2>5. n.mask \in Nat /\ e.mask \in Nat
    BY <1>1, <2>1 DEF Prefix, Net
  <2> QED BY <1>1, <2>2, <2>4, <2>5
<1> QED BY <1>1, <1>3, <1>4, <1>5 DEF Good

\* The addresses of a network are those of its halves.
LEMMA HalvesCover ==
    ASSUME NEW n, Prefix(n), n.mask < Bits
    PROVE  Of(n) \subseteq Of(FirstHalf(n)) \cup Of(SecondHalf(n))
<1>1. n.first \in Nat /\ n.mask + 1 \in Nat /\ getLastAddress(n) \in Nat
  BY PrefixTypes DEF Prefix, Net
<1>2. Size(n.mask + 1) \in Nat \ {0}
  BY <1>1, SizeIsPositive
<1>3. /\ FirstHalf(n).first = n.first
      /\ SecondHalf(n).first = n.first + Size(n.mask + 1)
      /\ getLastAddress(FirstHalf(n)) = n.first + Size(n.mask + 1) - 1
      /\ getLastAddress(SecondHalf(n)) = getLastAddress(n)
  BY HalvesOfPrefix
<1> QED BY <1>1, <1>2, <1>3 DEF Of

\* An excluded network that begins where the current one does and is not larger
\* is the current one; an excluded network behind the beginning of the current
\* one is in the queue.
LEMMA ExcludedAhead ==
    ASSUME TypeOK, pc = "loop", InOrder, Sources, Exact(InPlay),
           NEW e \in Excluded, currentNet.first <= e.first
    PROVE  e = currentNet \/ e \in BagToSet(networks)
<1>1. e \in ipsDone \/ e = currentNet \/ e \in BagToSet(networks)
  BY DEF Exact, InPlay
<1>2. e \notin ipsDone
  <2>1. Prefix(e)
    BY DEF Sources, Excluded
  <2>2. e.first \in Nat /\ getLastAddress(e) \in Nat /\ e.first <= getLastAddress(e)
    BY <2>1, PrefixTypes
  <2>3. currentNet.first \in Nat
    BY DEF TypeOK, Net
  <2>4. e \in ipsDone => getLastAddress(e) < currentNet.first
    BY DEF InOrder
  <2> QED BY <2>2, <2>3, <2>4
<1> QED BY <1>1, <1>2

\* What an iteration finds.
Found(nextNet) ==
    /\ TypeOK /\ pc = "loop" /\ pc' = "loop" /\ mIpAddresses' = mIpAddresses
    /\ InOrder /\ IsABag(networks) /\ Sources /\ Usual /\ Exact(InPlay) /\ PolledFirst
    /\ nextNet \in Heads(networks)

LEMMA FoundFacts ==
    ASSUME NEW nextNet, Found(nextNet)
    PROVE  /\ nextNet \in BagToSet(networks)
           /\ InPlay = ipsDone \cup {currentNet} \cup BagToSet(networks)
           /\ InPlay' = ipsDone' \cup {currentNet'} \cup BagToSet(networks')
           /\ Good(currentNet) /\ Good(nextNet) /\ Prefix(currentNet) /\ Prefix(nextNet)
           /\ \A e \in Excluded : Prefix(e)
           /\ Before(currentNet, nextNet)
           /\ currentNet.included \in BOOLEAN /\ nextNet.included \in BOOLEAN
           /\ BagToSet(networks) \ {nextNet} \subseteq BagToSet(Polled(networks, nextNet))
           /\ BagToSet(Polled(networks, nextNet)) \subseteq BagToSet(networks)
<1>1. nextNet \in BagToSet(networks)
  BY DEF Found, Heads
<1>2. /\ InPlay = ipsDone \cup {currentNet} \cup BagToSet(networks)
      /\ InPlay' = ipsDone' \cup {currentNet'} \cup BagToSet(networks')
  BY DEF Found, InPlay
<1>3. Good(currentNet) /\ Good(nextNet)
  BY <1>1, <1>2 DEF Found, Exact
<1>4. Prefix(currentNet) /\ Prefix(nextNet)
  BY <1>3 DEF Good
<1>5. \A e \in Excluded : Prefix(e)
  BY DEF Found, Sources, Excluded
<1>6. Before(currentNet, nextNet)
  BY <1>1 DEF Found, PolledFirst
<1>7. currentNet.included \in BOOLEAN /\ nextNet.included \in BOOLEAN
  BY <1>4 DEF Prefix, Net
<1>8. /\ BagToSet(networks) \ {nextNet} \subseteq BagToSet(Polled(networks, nextNet))
      /\ BagToSet(Polled(networks, nextNet)) \subseteq BagToSet(networks)
  BY PolledKeeps, PolledRemoves DEF Found
<1> QED BY <1>1, <1>2, <1>3, <1>4, <1>5, <1>6, <1>7, <1>8

\* The networks left in the queue come after the one that is polled.
LEMMA HeadsBefore ==
    ASSUME NEW queue, NEW n \in Heads(queue), NEW Q, Q \subseteq BagToSet(queue)
    PROVE  \A m \in Q : Before(n, m)
BY DEF Heads

\* The current network is in no network of the list, so TreeSet.add adds it.
LEMMA CurrentIsAdded ==
    ASSUME TypeOK, InOrder, pc = "loop"
    PROVE  TreeAdd(ipsDone, currentNet) = ipsDone \cup {currentNet}
<1>1. ASSUME NEW d \in ipsDone, SameNet(d, currentNet) PROVE FALSE
  <2>1. d \in Net
    BY DEF TypeOK
  <2>2. getLastAddress(d) < currentNet.first
    BY DEF InOrder
  <2>3. d.first \in Nat /\ getLastAddress(d) \in Nat /\ d.first <= getLastAddress(d)
    BY <2>1, LastAfterFirst DEF Net
  <2> QED BY <1>1, <2>2, <2>3 DEF SameNet
<1> QED BY <1>1 DEF TreeAdd

LEMMA DisjointExact ==
    ASSUME NEW nextNet, Found(nextNet), Disjoint(nextNet)
    PROVE  Exact(InPlay') /\ PolledFirst'
<1> USE FoundFacts
<1>1. /\ ipsDone' = TreeAdd(ipsDone, currentNet) /\ currentNet' = nextNet
      /\ networks' = Polled(networks, nextNet)
  BY DEF Disjoint
<1>2. TreeAdd(ipsDone, currentNet) = ipsDone \cup {currentNet}
  BY CurrentIsAdded DEF Found
<1>3. InPlay' = InPlay
  BY <1>1, <1>2
<1>4. PolledFirst'
  <2>1. \A m \in BagToSet(networks') : Before(nextNet, m)
    BY <1>1, HeadsBefore DEF Found
  <2> QED BY <1>1, <2>1 DEF PolledFirst
<1> QED BY <1>3, <1>4 DEF Found

LEMMA ForgetCurrentExact ==
    ASSUME NEW nextNet, Found(nextNet), ForgetCurrent(nextNet)
    PROVE  Exact(InPlay') /\ PolledFirst'
<1> USE FoundFacts
<1>1. /\ ipsDone' = ipsDone /\ currentNet' = nextNet /\ networks' = Polled(networks, nextNet)
      /\ Begins(nextNet) /\ currentNet.included = nextNet.included
  BY DEF ForgetCurrent
<1>2. Overlap(currentNet, nextNet) /\ Overlap(nextNet, currentNet) /\ nextNet.mask <= currentNet.mask
  <2>1. /\ currentNet.first \in Nat /\ nextNet.first \in Nat
        /\ getLastAddress(nextNet) \in Nat /\ nextNet.first <= getLastAddress(nextNet)
        /\ getLastAddress(currentNet) \in Nat
        /\ currentNet.mask \in Nat /\ nextNet.mask \in Nat
    BY PrefixTypes DEF Prefix, Net
  <2> QED BY <1>1, <2>1 DEF Begins, Overlap
<1>3. containsNet(nextNet, currentNet)
  BY <1>2, Nested
<1>4. \A q \in InPlay' \ InPlay : Good(q)
  BY <1>1
<1>5. ASSUME NEW p \in InPlay \ InPlay' PROVE p.included /\ \A a \in Of(p) : Covered(a, InPlay')
  <2>1. p = currentNet /\ p # nextNet
    BY <1>1, <1>5
  <2>2. CASE currentNet.included
    <3>1. Of(currentNet) \subseteq Of(nextNet)
      BY <1>3, ContainsOf
    <3>2. nextNet \in InPlay' /\ nextNet.included
      BY <1>1, <2>2
    <3> QED BY <2>1, <2>2, <3>1, <3>2 DEF Covered
  <2>3. CASE ~currentNet.included
    <3>1. currentNet \in Excluded /\ nextNet \in Excluded
      BY <1>1, <2>3 DEF Good
    <3>2. currentNet = nextNet
      BY <1>2, <3>1, ExcludedApart DEF Found
    <3> QED BY <2>1, <3>2
  <2> QED BY <2>2, <2>3
<1>6. Exact(InPlay')
  BY <1>4, <1>5, Replace DEF Found
<1>7. PolledFirst'
  <2>1. \A m \in BagToSet(networks') : Before(nextNet, m)
    BY <1>1, HeadsBefore DEF Found
  <2> QED BY <1>1, <2>1 DEF PolledFirst
<1> QED BY <1>6, <1>7

\* A next network that begins inside the current one lies inside it and is
\* smaller.
LEMMA WithinFacts ==
    ASSUME NEW nextNet, Found(nextNet), Within(nextNet)
    PROVE  /\ currentNet.first \in Nat /\ nextNet.first \in Nat
           /\ currentNet.mask \in Nat /\ nextNet.mask \in 0 .. Bits
           /\ getLastAddress(currentNet) \in Nat /\ getLastAddress(nextNet) \in Nat
           /\ nextNet.first <= getLastAddress(nextNet)
           /\ Overlap(currentNet, nextNet) /\ Overlap(nextNet, currentNet)
           /\ currentNet.mask < nextNet.mask /\ currentNet.first < nextNet.first
           /\ containsNet(currentNet, nextNet)
<1> USE FoundFacts
<1>1. /\ currentNet.first \in Nat /\ nextNet.first \in Nat
      /\ currentNet.mask \in Nat /\ nextNet.mask \in 0 .. Bits
      /\ getLastAddress(currentNet) \in Nat /\ getLastAddress(nextNet) \in Nat
      /\ nextNet.first <= getLastAddress(nextNet)
  BY PrefixTypes DEF Prefix, Net
<1>2. /\ \/ currentNet.first < nextNet.first
         \/ currentNet.first = nextNet.first /\ currentNet.mask >= nextNet.mask
      /\ nextNet.first <= getLastAddress(currentNet)
      /\ ~(currentNet.first = nextNet.first /\ currentNet.mask >= nextNet.mask)
  BY <1>1 DEF Before, Within
<1>3. currentNet.first < nextNet.first
  BY <1>2
<1>4. Overlap(currentNet, nextNet) /\ Overlap(nextNet, currentNet)
  BY <1>1, <1>2, <1>3 DEF Overlap
<1>5. currentNet.mask < nextNet.mask
  <2>1. CASE nextNet.mask <= currentNet.mask
    <3>1. containsNet(nextNet, currentNet)
      BY <1>4, <2>1, Nested
    <3> QED BY <1>1, <1>3, <3>1 DEF containsNet
  <2> QED BY <1>1, <2>1, BitsAssumption
<1>6. containsNet(currentNet, nextNet)
  BY <1>1, <1>4, <1>5, Nested, BitsAssumption
<1> QED BY <1>1, <1>3, <1>4, <1>5, <1>6

LEMMA ForgetNextExact ==
    ASSUME NEW nextNet, Found(nextNet), ForgetNext(nextNet)
    PROVE  Exact(InPlay') /\ PolledFirst'
<1> USE FoundFacts
<1>1. /\ ipsDone' = ipsDone /\ currentNet' = currentNet /\ networks' = Polled(networks, nextNet)
      /\ Within(nextNet) /\ currentNet.included = nextNet.included
  BY DEF ForgetNext
<1>2. /\ currentNet # nextNet /\ Overlap(currentNet, nextNet)
      /\ containsNet(currentNet, nextNet)
  BY <1>1, WithinFacts, BitsAssumption
<1>3. \A q \in InPlay' \ InPlay : Good(q)
  BY <1>1
<1>4. ASSUME NEW p \in InPlay \ InPlay' PROVE p.included /\ \A a \in Of(p) : Covered(a, InPlay')
  <2>1. p = nextNet
    BY <1>1, <1>4
  <2>2. CASE currentNet.included
    <3>1. Of(nextNet) \subseteq Of(currentNet)
      BY <1>2, ContainsOf
    <3>2. currentNet \in InPlay'
      BY <1>1
    <3> QED BY <1>1, <2>1, <2>2, <3>1, <3>2 DEF Covered
  <2>3. CASE ~currentNet.included
    <3>1. currentNet \in Excluded /\ nextNet \in Excluded
      BY <1>1, <2>3 DEF Good
    <3>2. currentNet = nextNet
      BY <1>2, <3>1, ExcludedApart DEF Found
    <3> QED BY <1>2, <3>2
  <2> QED BY <2>2, <2>3
<1>5. Exact(InPlay')
  BY <1>3, <1>4, Replace DEF Found
<1>6. PolledFirst'
  BY <1>1 DEF PolledFirst, Found
<1> QED BY <1>5, <1>6

\* What splitting the next network leaves in the queue.
LEMMA SplitNextQueue ==
    ASSUME NEW nextNet, Found(nextNet), SplitNext(nextNet)
    PROVE  LET lower == FirstHalf(nextNet)
               second == SecondHalf(nextNet)
               rest == Polled(networks, nextNet)
           IN  /\ BagToSet(rest) \subseteq BagToSet(networks')
               /\ \A q \in BagToSet(networks') \ BagToSet(rest) :
                     \/ q = second /\ ~Contains(rest, second)
                     \/ q = lower /\ getLastAddress(lower) # getLastAddress(currentNet)
               /\ Contains(networks', second)
               /\ \/ Contains(networks', lower)
                  \/ getLastAddress(lower) = getLastAddress(currentNet)
<1> DEFINE lower == FirstHalf(nextNet)
           second == SecondHalf(nextNet)
           rest == Polled(networks, nextNet)
           upper == IF Contains(rest, second) THEN rest ELSE QueueAdd(rest, second)
<1>1. networks' = IF getLastAddress(lower) = getLastAddress(currentNet) \/ Contains(upper, lower)
                  THEN upper ELSE QueueAdd(upper, lower)
  BY DEF SplitNext
<1> HIDE DEF lower, second, rest
<1>2. BagToSet(rest) \subseteq BagToSet(upper)
  BY QueueAddAdds
<1>3. \A q \in BagToSet(upper) \ BagToSet(rest) : q = second /\ ~Contains(rest, second)
  BY QueueAddAdds
<1>4. Contains(upper, second)
  <2>1. second \in BagToSet(QueueAdd(rest, second)) /\ SameNet(second, second)
    BY QueueAddAdds DEF SameNet
  <2> QED BY <2>1 DEF Contains
<1> HIDE DEF upper
<1>5. BagToSet(upper) \subseteq BagToSet(networks')
  BY <1>1, QueueAddAdds
<1>6. \A q \in BagToSet(networks') \ BagToSet(upper) :
         q = lower /\ getLastAddress(lower) # getLastAddress(currentNet)
  BY <1>1, QueueAddAdds
<1>7. Contains(networks', second)
  BY <1>4, <1>5 DEF Contains
<1>8. Contains(networks', lower) \/ getLastAddress(lower) = getLastAddress(currentNet)
  <2>1. lower \in BagToSet(QueueAdd(upper, lower)) /\ SameNet(lower, lower)
    BY QueueAddAdds DEF SameNet
  <2> QED BY <1>1, <2>1 DEF Contains
<1> QED BY <1>2, <1>3, <1>5, <1>6, <1>7, <1>8 DEF lower, second, rest

LEMMA SplitNextExact ==
    ASSUME NEW nextNet, Found(nextNet), SplitNext(nextNet)
    PROVE  Exact(InPlay') /\ PolledFirst'
<1> USE FoundFacts
<1> DEFINE lower == FirstHalf(nextNet)
           second == SecondHalf(nextNet)
           rest == Polled(networks, nextNet)
<1>1. /\ ipsDone' = ipsDone /\ currentNet' = currentNet
      /\ Begins(nextNet) /\ currentNet.included # nextNet.included
  BY DEF SplitNext
<1>2. /\ currentNet.first \in Nat /\ nextNet.first \in Nat
      /\ getLastAddress(nextNet) \in Nat /\ nextNet.first <= getLastAddress(nextNet)
      /\ getLastAddress(currentNet) \in Nat /\ currentNet.first <= getLastAddress(currentNet)
      /\ currentNet.mask \in 0 .. Bits /\ nextNet.mask \in Nat
      /\ currentNet.first = nextNet.first /\ nextNet.mask <= currentNet.mask
  <2>1. /\ currentNet.first \in Nat /\ nextNet.first \in Nat
        /\ getLastAddress(nextNet) \in Nat /\ nextNet.first <= getLastAddress(nextNet)
        /\ getLastAddress(currentNet) \in Nat /\ currentNet.first <= getLastAddress(currentNet)
        /\ currentNet.mask \in 0 .. Bits /\ nextNet.mask \in Nat
    BY PrefixTypes DEF Prefix, Net
  <2>2. currentNet.first = nextNet.first /\ currentNet.mask >= nextNet.mask
    BY <1>1 DEF Begins
  <2> QED BY <2>1, <2>2, BitsAssumption
<1>3. Overlap(currentNet, nextNet) /\ Overlap(nextNet, currentNet)
  BY <1>2 DEF Overlap
<1>4. containsNet(nextNet, currentNet)
  BY <1>2, <1>3, Nested
<1>5. currentNet \in Excluded /\ nextNet.included
  <2>1. CASE currentNet.included
    <3>1. nextNet \in Excluded
      BY <1>1, <2>1 DEF Good
    <3> QED BY <1>4, <2>1, <3>1 DEF Good
  <2> QED BY <1>1, <2>1 DEF Good
<1>6. nextNet.mask < currentNet.mask /\ nextNet.mask < Bits
  <2>1. nextNet.mask < currentNet.mask
    BY <1>3, <1>5, ExcludedInside
  <2> QED BY <1>2, <2>1, BitsAssumption
<1>7. /\ BagToSet(rest) \subseteq BagToSet(networks')
      /\ \A q \in BagToSet(networks') \ BagToSet(rest) :
            \/ q = second /\ ~Contains(rest, second)
            \/ q = lower /\ getLastAddress(lower) # getLastAddress(currentNet)
      /\ Contains(networks', second)
      /\ \/ Contains(networks', lower)
         \/ getLastAddress(lower) = getLastAddress(currentNet)
  BY SplitNextQueue
<1>8. /\ lower.first = nextNet.first /\ lower.mask = nextNet.mask + 1
      /\ second.first \in Nat /\ nextNet.first < second.first
  <2>1. Size(nextNet.mask + 1) \in Nat \ {0}
    BY <1>2, SizeIsPositive
  <2>2. lower.first = nextNet.first /\ second.first = nextNet.first + Size(nextNet.mask + 1)
    BY <1>6, HalvesOfPrefix
  <2> QED BY <1>2, <2>1, <2>2 DEF FirstHalf
<1>9. BagToSet(networks) \ {nextNet} \subseteq BagToSet(rest) /\ BagToSet(rest) \subseteq BagToSet(networks)
  OBVIOUS
<1>10. lower = FirstHalf(nextNet) /\ second = SecondHalf(nextNet)
  OBVIOUS
<1> HIDE DEF lower, second, rest
<1>11. \A q \in InPlay' \ InPlay : Good(q)
  <2> SUFFICES ASSUME NEW q \in InPlay' \ InPlay PROVE Good(q)
    OBVIOUS
  <2>1. q \in BagToSet(networks') \ BagToSet(rest)
    BY <1>1, <1>9
  <2>2. CASE q = second /\ ~Contains(rest, second)
    <3>1. ASSUME NEW e \in Excluded, SameNet(e, second) PROVE FALSE
      <4>1. e.first = second.first /\ currentNet.first < second.first
        BY <1>2, <1>8, <3>1 DEF SameNet
      <4>2. e # currentNet /\ e # nextNet /\ currentNet.first <= e.first
        BY <1>2, <1>8, <4>1
      <4>3. e \in BagToSet(networks)
        BY <4>2, ExcludedAhead DEF Found
      <4>4. e \in BagToSet(rest)
        BY <1>9, <4>2, <4>3
      <4> QED BY <2>2, <3>1, <4>4 DEF Contains
    <3> QED BY <1>5, <1>6, <1>10, <2>2, <3>1, HalvesAreGood DEF Found
  <2>3. CASE q = lower /\ getLastAddress(lower) # getLastAddress(currentNet)
    <3>1. ASSUME NEW e \in Excluded, SameNet(e, lower) PROVE FALSE
      <4>1. e.first = currentNet.first
        BY <1>2, <1>8, <3>1 DEF SameNet
      <4>2. e.first <= getLastAddress(e)
        BY PrefixTypes
      <4>3. Overlap(e, currentNet)
        BY <1>2, <4>1, <4>2 DEF Overlap
      <4>4. e = currentNet
        BY <1>5, <4>3, ExcludedApart DEF Found
      <4> QED BY <2>3, <3>1, <4>4, SameOf
    <3> QED BY <1>5, <1>6, <1>10, <2>3, <3>1, HalvesAreGood DEF Found
  <2> QED BY <1>7, <2>1, <2>2, <2>3
<1>12. ASSUME NEW h, Contains(networks', h), NEW a \in Of(h) PROVE Covered(a, InPlay')
  <2>1. PICK m \in BagToSet(networks') : SameNet(m, h)
    BY <1>12 DEF Contains
  <2>2. m \in InPlay' /\ a \in Of(m)
    BY <1>12, <2>1, SameOf
  <2>3. Good(m)
    BY <1>11, <2>2 DEF Found, Exact
  <2> QED BY <2>2, <2>3 DEF Good, Covered
<1>13. ASSUME NEW a \in Of(nextNet) PROVE Covered(a, InPlay')
  <2>1. a \in Of(lower) \/ a \in Of(second)
    BY <1>6, <1>10, <1>13, HalvesCover
  <2>2. CASE getLastAddress(lower) = getLastAddress(currentNet) /\ a \in Of(lower)
    <3>1. a \in Of(currentNet)
      BY <1>2, <1>8, <2>2 DEF Of
    <3> QED BY <1>5, <3>1 DEF Covered
  <2> QED BY <1>7, <1>12, <2>1, <2>2
<1>14. ASSUME NEW p \in InPlay \ InPlay' PROVE p.included /\ \A a \in Of(p) : Covered(a, InPlay')
  <2>1. p = nextNet
    BY <1>1, <1>7, <1>9, <1>14
  <2> QED BY <1>5, <1>13, <2>1
<1>15. Exact(InPlay')
  BY <1>11, <1>14, Replace DEF Found
<1>16. PolledFirst'
  <2> SUFFICES ASSUME NEW n \in BagToSet(networks') PROVE Before(currentNet, n)
    BY <1>1 DEF PolledFirst
  <2>1. CASE n \in BagToSet(rest)
    BY <1>9, <2>1 DEF Found, PolledFirst
  <2>2. CASE n = second
    BY <1>2, <1>8, <2>2 DEF Before
  <2>3. CASE n = lower
    <3>1. currentNet.mask >= nextNet.mask + 1
      BY <1>2, <1>6, BitsAssumption
    <3> QED BY <1>2, <1>8, <2>3, <3>1 DEF Before
  <2> QED BY <1>7, <2>1, <2>2, <2>3
<1> QED BY <1>15, <1>16

LEMMA SplitCurrentQueue ==
    ASSUME NEW nextNet, SplitCurrent(nextNet)
    PROVE  LET second == SecondHalf(currentNet)
           IN  /\ BagToSet(networks) \subseteq BagToSet(networks')
               /\ \A q \in BagToSet(networks') \ BagToSet(networks) :
                     q = second /\ second.mask # nextNet.mask
               /\ second \in BagToSet(networks') \/ second.mask = nextNet.mask
BY QueueAddAdds DEF SplitCurrent

\* An excluded network that equals the upper half of the current one and is not
\* the next one would clash with the next one.
LEMMA NoClash ==
    ASSUME NEW nextNet, Found(nextNet), Within(nextNet), currentNet.included,
           nextNet \in Excluded, NEW e \in Excluded, SameNet(e, SecondHalf(currentNet)),
           e.mask # nextNet.mask
    PROVE  FALSE
<1> USE FoundFacts
<1>1. Prefix(e) /\ e \in mIpAddresses /\ ~e.included
  BY DEF Excluded
<1>2. Prefix(nextNet) /\ nextNet \in mIpAddresses /\ ~nextNet.included
  BY DEF Excluded
<1>3. currentNet.mask < Bits
  BY WithinFacts, BitsAssumption
<1>4. e.mask = currentNet.mask + 1 /\ nextNet.mask > e.mask
  <2>1. e.mask = currentNet.mask + 1
    BY DEF SameNet, SecondHalf
  <2> QED BY <2>1, WithinFacts, BitsAssumption
<1>5. getLastAddress(e) = getLastAddress(currentNet) /\ e.first = SecondHalf(currentNet).first
  BY <1>3, HalvesOfPrefix, SameOf DEF SameNet
<1>6. /\ e.first \in Nat /\ getLastAddress(e) \in Nat /\ currentNet.first <= e.first
  <2>1. SecondHalf(currentNet).first = currentNet.first + Size(currentNet.mask + 1)
    BY <1>3, HalvesOfPrefix
  <2>2. currentNet.mask + 1 \in Nat /\ currentNet.first \in Nat
    BY WithinFacts
  <2>3. Size(currentNet.mask + 1) \in Nat \ {0}
    BY <2>2, SizeIsPositive
  <2>4. e.first \in Nat /\ getLastAddress(e) \in Nat
    BY <1>1, PrefixTypes
  <2> QED BY <1>5, <2>1, <2>2, <2>3, <2>4
<1>7. ~Overlap(e, nextNet)
  BY <1>4, ExcludedApart DEF Found
<1>8. nextNet.first < e.first
  <2>1. nextNet.first <= getLastAddress(e)
    BY <1>5 DEF Within
  <2> QED BY <1>6, <1>7, <2>1, WithinFacts DEF Overlap
<1>9. UpperHalfBeside(nextNet, e)
  <2>1. currentNet.first <= nextNet.first
    BY WithinFacts
  <2> QED BY <1>3, <1>4, <1>8, <2>1, UpperHalf
<1>10. containsNet(currentNet, e) /\ containsNet(currentNet, nextNet)
  <2>1. getLastAddress(e) <= getLastAddress(currentNet)
    BY <1>5, <1>6
  <2> QED BY <1>6, <2>1, WithinFacts DEF containsNet
<1>11. PICK N \in mIpAddresses : N.included /\ containsNet(N, currentNet)
  BY DEF Good
<1>12. Prefix(N)
  BY DEF Found, Sources
<1>13. containsNet(N, nextNet) /\ containsNet(N, e)
  BY <1>1, <1>10, <1>11, <1>12, ContainsTransitive
<1>14. Clash(mIpAddresses)
  BY <1>1, <1>2, <1>9, <1>11, <1>13 DEF Clash
<1> QED BY <1>14 DEF Found, Usual

\* A next network as large as the halves of the current one is the upper half.
LEMMA NextIsUpperHalf ==
    ASSUME NEW nextNet, Found(nextNet), Within(nextNet),
           SecondHalf(currentNet).mask = nextNet.mask
    PROVE  SameNet(SecondHalf(currentNet), nextNet)
<1> USE FoundFacts
<1> DEFINE lower == FirstHalf(currentNet)
           second == SecondHalf(currentNet)
<1>1. currentNet.mask < Bits
  BY WithinFacts, BitsAssumption
<1>2. lower.mask = nextNet.mask /\ second.mask = nextNet.mask /\ lower.first = currentNet.first
  BY DEF FirstHalf, SecondHalf
<1>3. /\ Prefix(lower) /\ Prefix(second)
      /\ second.first = getLastAddress(lower) + 1
      /\ getLastAddress(second) = getLastAddress(currentNet)
  <2>1. Prefix(lower) /\ Prefix(second) /\ getLastAddress(second) = getLastAddress(currentNet)
    BY <1>1, HalvesOfPrefix
  <2> QED BY <2>1 DEF SecondHalf
<1> HIDE DEF lower, second
<1>4. getLastAddress(lower) \in Nat /\ second.first \in Nat
  BY <1>3, PrefixTypes
<1>5. /\ currentNet.first \in Nat /\ nextNet.first \in Nat /\ nextNet.mask \in Nat
      /\ getLastAddress(currentNet) \in Nat /\ getLastAddress(nextNet) \in Nat
      /\ nextNet.first <= getLastAddress(nextNet) /\ currentNet.first < nextNet.first
      /\ nextNet.first <= getLastAddress(currentNet)
  BY WithinFacts DEF Within
<1>6. ~Overlap(lower, nextNet)
  <2> SUFFICES ASSUME Overlap(lower, nextNet) PROVE FALSE
    OBVIOUS
  <2>1. containsNet(lower, nextNet)
    BY <1>2, <1>3, <1>5, Nested
  <2>2. SameNet(lower, nextNet)
    BY <1>2, <1>3, <1>5, <2>1, Inside
  <2> QED BY <1>2, <1>5, <2>2 DEF SameNet
<1>7. second.first <= nextNet.first
  BY <1>2, <1>3, <1>4, <1>5, <1>6 DEF Overlap
<1>8. Overlap(second, nextNet)
  BY <1>3, <1>4, <1>5, <1>7 DEF Overlap
<1>9. containsNet(second, nextNet)
  BY <1>2, <1>3, <1>5, <1>8, Nested
<1>10. SameNet(second, nextNet)
  BY <1>2, <1>3, <1>5, <1>9, Inside
<1> QED BY <1>10 DEF second

LEMMA SplitCurrentExact ==
    ASSUME NEW nextNet, Found(nextNet), SplitCurrent(nextNet)
    PROVE  Exact(InPlay') /\ PolledFirst'
<1> USE FoundFacts
<1> DEFINE lower == FirstHalf(currentNet)
           second == SecondHalf(currentNet)
<1>1. /\ ipsDone' = ipsDone /\ currentNet' = lower
      /\ Within(nextNet) /\ currentNet.included # nextNet.included
  BY DEF SplitCurrent
<1>2. /\ BagToSet(networks) \subseteq BagToSet(networks')
      /\ \A q \in BagToSet(networks') \ BagToSet(networks) :
            q = second /\ second.mask # nextNet.mask
      /\ second \in BagToSet(networks') \/ second.mask = nextNet.mask
  BY SplitCurrentQueue
<1>3. currentNet.included /\ nextNet \in Excluded
  <2>1. CASE ~currentNet.included
    <3>1. currentNet \in Excluded /\ nextNet.included
      BY <1>1, <2>1 DEF Good
    <3> QED BY <1>1, <3>1, WithinFacts DEF Good
  <2> QED BY <1>1, <2>1 DEF Good
<1>4. currentNet.mask < Bits
  BY <1>1, WithinFacts, BitsAssumption
<1>5. /\ lower.first = currentNet.first /\ lower.mask = currentNet.mask + 1
      /\ second.first \in Nat /\ currentNet.first < second.first
      /\ currentNet.first \in Nat /\ currentNet.mask \in Nat
      /\ lower.included /\ second.included
  <2>1. currentNet.first \in Nat /\ currentNet.mask \in Nat /\ currentNet.mask + 1 \in Nat
    BY <1>1, WithinFacts
  <2>2. Size(currentNet.mask + 1) \in Nat \ {0}
    BY <2>1, SizeIsPositive
  <2>3. second.first = currentNet.first + Size(currentNet.mask + 1)
    BY <1>4, HalvesOfPrefix
  <2>4. second.first \in Nat /\ currentNet.first < second.first
    BY <2>1, <2>2, <2>3
  <2> QED BY <1>3, <2>1, <2>4 DEF FirstHalf, SecondHalf
<1>6. lower = FirstHalf(currentNet) /\ second = SecondHalf(currentNet)
  OBVIOUS
<1> HIDE DEF lower, second
<1>7. \A q \in InPlay' \ InPlay : Good(q)
  <2> SUFFICES ASSUME NEW q \in InPlay' \ InPlay PROVE Good(q)
    OBVIOUS
  <2>1. CASE q = lower
    <3>1. ASSUME NEW e \in Excluded, SameNet(e, lower) PROVE FALSE
      <4>1. e.first = currentNet.first /\ e.mask = currentNet.mask + 1
        BY <1>5, <3>1 DEF SameNet
      <4>2. e # currentNet
        BY <1>3 DEF Excluded
      <4>3. e \in BagToSet(networks)
        BY <1>5, <4>1, <4>2, ExcludedAhead DEF Found
      <4>4. Before(currentNet, e)
        BY <4>3 DEF Found, PolledFirst
      <4> QED BY <1>5, <4>1, <4>4 DEF Before
    <3> QED BY <1>3, <1>4, <1>6, <2>1, <3>1, HalvesAreGood DEF Found
  <2>2. CASE q = second /\ second.mask # nextNet.mask
    <3>1. ASSUME NEW e \in Excluded, SameNet(e, second) PROVE FALSE
      <4>1. e.mask # nextNet.mask
        BY <2>2, <3>1 DEF SameNet
      <4> QED BY <1>1, <1>3, <1>6, <3>1, <4>1, NoClash
    <3> QED BY <1>3, <1>4, <1>6, <2>2, <3>1, HalvesAreGood DEF Found
  <2> QED BY <1>1, <1>2, <2>1, <2>2
<1>8. ASSUME NEW a \in Of(currentNet) PROVE Covered(a, InPlay')
  <2>1. a \in Of(lower) \/ a \in Of(second)
    BY <1>4, <1>6, <1>8, HalvesCover
  <2>2. CASE a \in Of(lower)
    BY <1>1, <1>5, <2>2 DEF Covered
  <2>3. CASE a \in Of(second) /\ second \in BagToSet(networks')
    BY <1>5, <2>3 DEF Covered
  <2>4. CASE a \in Of(second) /\ second.mask = nextNet.mask
    <3>1. a \in Of(nextNet)
      BY <1>1, <1>6, <2>4, NextIsUpperHalf, SameOf
    <3> QED BY <1>3, <3>1 DEF Covered
  <2> QED BY <1>2, <2>1, <2>2, <2>3, <2>4
<1>9. ASSUME NEW p \in InPlay \ InPlay' PROVE p.included /\ \A a \in Of(p) : Covered(a, InPlay')
  <2>1. p = currentNet
    BY <1>1, <1>2, <1>9
  <2> QED BY <1>3, <1>8, <2>1
<1>10. Exact(InPlay')
  BY <1>7, <1>9, Replace DEF Found
<1>11. PolledFirst'
  <2> SUFFICES ASSUME NEW n \in BagToSet(networks') PROVE Before(lower, n)
    BY <1>1 DEF PolledFirst
  <2>1. CASE n \in BagToSet(networks)
    <3>1. Before(currentNet, n)
      BY <2>1 DEF Found, PolledFirst
    <3>2. n \in Net
      BY <2>1 DEF Found, TypeOK
    <3>3. n.first \in Nat /\ n.mask \in Nat
      BY <3>2 DEF Net
    <3> QED BY <1>5, <3>1, <3>3 DEF Before
  <2>2. CASE n = second
    BY <1>5, <2>2 DEF Before
  <2> QED BY <1>2, <2>1, <2>2
<1> QED BY <1>10, <1>11

LEMMA ExactPrimed ==
    ASSUME mIpAddresses' = mIpAddresses, Exact(InPlay')
    PROVE  Exact(InPlay)'
BY DEF Exact, Good, Covered, Excluded

\* What was added is exact before anything is split.
LEMMA AddedIsExact ==
    ASSUME Sources, Usual
    PROVE  Exact(mIpAddresses)
<1>1. ASSUME NEW p \in mIpAddresses PROVE Good(p)
  <2>1. Prefix(p)
    BY DEF Sources
  <2>2. ~p.included => p \in Excluded
    BY DEF Excluded
  <2>3. containsNet(p, p)
    BY <2>1, PrefixTypes DEF containsNet
  <2>4. ASSUME p.included, NEW e \in Excluded PROVE ~containsNet(e, p)
    BY <2>4 DEF Usual, Plain, Excluded
  <2> QED BY <2>1, <2>2, <2>3, <2>4 DEF Good
<1> QED BY <1>1 DEF Exact, Excluded, Covered

\* The queue stays a bag.
LEMMA IterateKeepsBag ==
    ASSUME IsABag(networks), NEW nextNet,
           \/ Disjoint(nextNet) \/ ForgetCurrent(nextNet) \/ SplitNext(nextNet)
           \/ ForgetNext(nextNet) \/ SplitCurrent(nextNet)
    PROVE  IsABag(networks')
<1> DEFINE rest == Polled(networks, nextNet)
<1>1. IsABag(rest)
  BY PolledKeeps
<1>2. CASE networks' = rest
  BY <1>1, <1>2
<1>3. CASE SplitNext(nextNet)
  <2> DEFINE upper == IF Contains(rest, SecondHalf(nextNet))
                      THEN rest ELSE QueueAdd(rest, SecondHalf(nextNet))
  <2>1. networks' \in {upper, QueueAdd(upper, FirstHalf(nextNet))}
    BY <1>3 DEF SplitNext
  <2> HIDE DEF rest
  <2>2. IsABag(upper)
    BY <1>1, QueueAddKeeps
  <2> HIDE DEF upper
  <2> QED BY <2>1, <2>2, QueueAddKeeps
<1>4. CASE SplitCurrent(nextNet)
  <2>1. networks' \in {networks, QueueAdd(networks, SecondHalf(currentNet))}
    BY <1>4 DEF SplitCurrent
  <2> QED BY <2>1, QueueAddKeeps
<1> QED BY <1>2, <1>3, <1>4 DEF Disjoint, ForgetCurrent, ForgetNext

LEMMA NextKeepsExact == TypeOK /\ InOrder /\ ExactInv /\ [Next]_vars => ExactInv'
<1> SUFFICES ASSUME TypeOK, InOrder, ExactInv, [Next]_vars PROVE ExactInv'
  OBVIOUS
<1>1. IsABag(networks) /\ Sources
  BY DEF ExactInv
<1>2. ASSUME NEW address \in Address, NEW mask \in 0 .. Bits, NEW include \in BOOLEAN,
             addIP(address, mask, include)
      PROVE ExactInv'
  <2> DEFINE n == IpAddress(address, mask, include)
  <2>1. Prefix(n) /\ getLastAddress(n) \in Address
    BY IpAddressIsPrefix
  <2>2. mIpAddresses' = TreeAdd(mIpAddresses, n) /\ pc' = "collect" /\ networks' = networks
    BY <1>2 DEF addIP
  <2> HIDE DEF n
  <2>3. mIpAddresses' \subseteq mIpAddresses \cup {n}
    BY <2>2, TreeAddAdds
  <2>4. Sources'
    BY <1>1, <2>1, <2>3 DEF Sources
  <2> QED BY <1>1, <2>2, <2>4 DEF ExactInv
<1>3. CASE Generate
  <2> DEFINE queue == SetToBag(mIpAddresses)
  <2>1. mIpAddresses' = mIpAddresses /\ ipsDone' = {}
    BY <1>3 DEF Generate
  <2>2. Sources' /\ (Usual' <=> Usual)
    BY <1>1, <2>1 DEF Sources, Usual
  <2>3. Usual => Exact(mIpAddresses)
    BY <1>1, AddedIsExact
  <2>4. CASE mIpAddresses = {} /\ pc' = "done" /\ UNCHANGED <<networks, currentNet>>
    <3>1. InPlay' = mIpAddresses
      BY <2>1, <2>4 DEF InPlay
    <3>2. Usual => Exact(InPlay)'
      BY <2>1, <2>3, <3>1, ExactPrimed
    <3> QED BY <1>1, <2>2, <2>4, <3>2 DEF ExactInv
  <2>5. ASSUME NEW n \in Heads(queue), currentNet' = n, networks' = Polled(queue, n), pc' = "loop"
        PROVE ExactInv'
    <3>1. IsABag(queue) /\ BagToSet(queue) = mIpAddresses
      BY BagsOfSets, BagOfSet
    <3>2. n \in BagToSet(queue)
      BY DEF Heads
    <3> HIDE DEF queue
    <3>3. /\ IsABag(networks') /\ BagToSet(networks') \subseteq mIpAddresses
          /\ mIpAddresses \ {n} \subseteq BagToSet(networks')
      BY <2>5, <3>1, PolledKeeps, PolledRemoves
    <3>4. InPlay' = mIpAddresses
      BY <2>1, <2>5, <3>1, <3>2, <3>3 DEF InPlay
    <3>5. Usual => Exact(InPlay)'
      BY <2>1, <2>3, <3>4, ExactPrimed
    <3>6. PolledFirst'
      <4>1. \A m \in BagToSet(networks') : Before(n, m)
        BY <3>1, <3>3, HeadsBefore
      <4> QED BY <2>5, <4>1 DEF PolledFirst
    <3> QED BY <2>2, <3>3, <3>5, <3>6 DEF ExactInv
  <2> QED BY <1>3, <2>4, <2>5 DEF Generate
<1>4. CASE Iterate
  <2>1. pc = "loop" /\ pc' = "loop" /\ mIpAddresses' = mIpAddresses
    BY <1>4 DEF Iterate, Looping
  <2>2. PICK nextNet \in Heads(networks) :
           \/ Disjoint(nextNet) \/ ForgetCurrent(nextNet) \/ SplitNext(nextNet)
           \/ ForgetNext(nextNet) \/ SplitCurrent(nextNet)
    BY <1>4 DEF Iterate
  <2>3. IsABag(networks') /\ Sources' /\ (Usual' <=> Usual)
    BY <1>1, <2>1, <2>2, IterateKeepsBag DEF Sources, Usual
  <2>4. ASSUME Usual PROVE Exact(InPlay') /\ PolledFirst'
    <3>1. Found(nextNet)
      BY <1>1, <2>1, <2>4 DEF Found, ExactInv
    <3> QED BY <2>2, <3>1, DisjointExact, ForgetCurrentExact, SplitNextExact,
               ForgetNextExact, SplitCurrentExact
  <2>5. Usual => Exact(InPlay)'
    BY <2>1, <2>4, ExactPrimed
  <2> QED BY <2>3, <2>4, <2>5 DEF ExactInv
<1>5. CASE LastNet
  <2>1. /\ pc = "loop" /\ pc' = "done" /\ mIpAddresses' = mIpAddresses /\ networks' = networks
        /\ BagToSet(networks) = {} /\ ipsDone' = TreeAdd(ipsDone, currentNet)
    BY <1>5 DEF LastNet, Looping
  <2>2. InPlay' = InPlay
    BY <2>1, CurrentIsAdded DEF InPlay
  <2>3. Usual => Exact(InPlay)'
    BY <2>1, <2>2, ExactPrimed DEF ExactInv
  <2>4. Sources' /\ (Usual' <=> Usual)
    BY <1>1, <2>1 DEF Sources, Usual
  <2> QED BY <1>1, <2>1, <2>3, <2>4 DEF ExactInv
<1>6. CASE clear
  <2>1. pc' = "collect" /\ mIpAddresses' = {} /\ networks' = EmptyBag
    BY <1>6 DEF clear
  <2>2. IsABag(networks') /\ Sources'
    BY <2>1, BagsOfSets DEF Sources
  <2> QED BY <2>1, <2>2 DEF ExactInv
<1>7. CASE UNCHANGED vars
  BY <1>7 DEF vars, ExactInv, Sources, Usual, Exact, Good, Covered, Excluded, InPlay, PolledFirst
<1> QED BY <1>2, <1>3, <1>4, <1>5, <1>6, <1>7 DEF Next

\* What shares an address overlaps.
LEMMA SharedOverlap ==
    ASSUME NEW m, NEW n, Prefix(m), Prefix(n), NEW a, a \in Of(m), a \in Of(n)
    PROVE  Overlap(m, n)
<1>1. /\ m.first \in Nat /\ getLastAddress(m) \in Nat /\ n.first \in Nat /\ getLastAddress(n) \in Nat
  BY PrefixTypes
<1> QED BY <1>1 DEF Of, Overlap

\* Of the networks an address is in one is the most specific.
LEMMA MostSpecific ==
    ASSUME Sources, NEW a, NEW n \in mIpAddresses, a \in Of(n)
    PROVE  \E m \in mIpAddresses : /\ a \in Of(m)
                                   /\ \A k \in mIpAddresses : a \in Of(k) => k.mask <= m.mask
<1> DEFINE M == {m \in mIpAddresses : a \in Of(m)}
           masks == {m.mask : m \in M}
<1>1. masks \subseteq 0 .. Bits
  <2>1. \A m \in mIpAddresses : m.mask \in 0 .. Bits
    BY PrefixTypes DEF Sources
  <2> QED BY <2>1
<1>2. masks # {}
  OBVIOUS
<1> HIDE DEF masks
<1>3. PICK x \in masks : \A y \in masks : y <= x
  BY <1>1, <1>2, BitsAssumption, GreatestExists
<1>4. PICK m \in M : m.mask = x
  BY DEF masks
<1>5. \A k \in M : k.mask \in masks
  BY DEF masks
<1> QED BY <1>3, <1>4, <1>5

LEMMA ExactList == TypeOK /\ DoneDisjoint /\ ExactInv => PositiveIsExact
<1> SUFFICES ASSUME DoneDisjoint, ExactInv, pc = "done",
                    Plain(mIpAddresses), ~Clash(mIpAddresses)
             PROVE  UNION {Of(n) : n \in Positive} = Included(mIpAddresses)
  BY DEF PositiveIsExact
<1>1. Sources /\ Exact(ipsDone)
  BY DEF ExactInv, Usual, InPlay
<1>2. ASSUME NEW n \in ipsDone, n.included, NEW a \in Of(n)
      PROVE  a \in Included(mIpAddresses)
  <2>1. Good(n)
    BY <1>1 DEF Exact
  <2>2. PICK N \in mIpAddresses : N.included /\ containsNet(N, n)
    BY <1>2, <2>1 DEF Good
  <2>3. Prefix(N) /\ getLastAddress(N) \in Address /\ a \in Of(N)
    BY <1>1, <1>2, <2>1, <2>2, ContainsOf DEF Sources, Good
  <2>4. a \in Address
    <3>1. N.first \in Nat /\ getLastAddress(N) \in Nat /\ 2 ^ Bits \in Nat
      BY <2>3, PrefixTypes, PowerIsPositive, BitsAssumption
    <3> QED BY <2>3, <3>1 DEF Of, Address
  <2>5. PICK m \in mIpAddresses : /\ a \in Of(m)
                                  /\ \A k \in mIpAddresses : a \in Of(k) => k.mask <= m.mask
    BY <1>1, <2>3, MostSpecific
  <2>6. m.included
    <3> SUFFICES ASSUME ~m.included PROVE FALSE
      OBVIOUS
    <3>1. m \in Excluded /\ m \in ipsDone
      BY <1>1 DEF Excluded, Exact
    <3>2. Overlap(m, n) /\ Prefix(m) /\ Prefix(n)
      BY <1>1, <1>2, <2>1, <2>5, SharedOverlap DEF Sources, Good
    <3>3. getLastAddress(m) < n.first \/ getLastAddress(n) < m.first
      BY <1>2, <3>1 DEF DoneDisjoint
    <3>4. /\ m.first \in Nat /\ getLastAddress(m) \in Nat /\ n.first \in Nat /\ getLastAddress(n) \in Nat
      BY <3>2, PrefixTypes
    <3> QED BY <3>2, <3>3, <3>4 DEF Overlap
  <2> QED BY <2>4, <2>5, <2>6 DEF Included
<1>3. ASSUME NEW a \in Included(mIpAddresses)
      PROVE  \E p \in ipsDone : p.included /\ a \in Of(p)
  <2>1. PICK n \in mIpAddresses : /\ n.included /\ a \in Of(n)
                                  /\ \A m \in mIpAddresses : a \in Of(m) => m.mask <= n.mask
    BY <1>3 DEF Included
  <2>2. Covered(a, ipsDone)
    BY <1>1, <2>1 DEF Exact
  <2>3. ASSUME NEW e \in Excluded, a \in Of(e) PROVE FALSE
    <3>1. e \in mIpAddresses /\ ~e.included
      BY DEF Excluded
    <3>2. Prefix(e) /\ Prefix(n) /\ e.mask <= n.mask
      BY <1>1, <2>1, <2>3, <3>1 DEF Sources
    <3>3. containsNet(e, n)
      BY <2>1, <2>3, <3>2, Nested, SharedOverlap
    <3> QED BY <2>1, <3>1, <3>3 DEF Plain
  <2> QED BY <2>2, <2>3 DEF Covered
<1>4. Positive = {n \in ipsDone : n.included}
  BY DEF Positive
<1> HIDE DEF Of, Included, Positive
<1> QED BY <1>2, <1>3, <1>4

LEMMA MultipleHasNoRest == \A q \in Nat, s \in Nat \ {0} : (q * s) % s = 0
OBVIOUS

\* A piece of what was included is a network of the address space.
LEMMA ValidList == ExactInv => RoutesAreValid
<1> SUFFICES ASSUME ExactInv, pc = "done", Plain(mIpAddresses), ~Clash(mIpAddresses),
                    NEW n \in Positive
             PROVE  Valid(n)
  BY DEF RoutesAreValid
<1>1. Sources /\ Good(n) /\ n.included
  BY DEF ExactInv, Usual, InPlay, Exact, Positive
<1>2. Prefix(n)
  BY <1>1 DEF Good
<1>3. n.mask <= Bits
  BY <1>2 DEF Prefix
<1>4. n.first % Size(n.mask) = 0
  <2>1. Size(n.mask) \in Nat \ {0}
    BY <1>2, PrefixTypes
  <2>2. PICK q \in Nat : n.first = q * Size(n.mask)
    BY <1>2 DEF Prefix
  <2> QED BY <2>1, <2>2, MultipleHasNoRest
<1>5. getLastAddress(n) \in Address
  <2>1. PICK N \in mIpAddresses : containsNet(N, n)
    BY <1>1 DEF Good
  <2>2. Prefix(N) /\ getLastAddress(N) \in Address
    BY <1>1 DEF Sources
  <2>3. getLastAddress(n) \in Nat /\ getLastAddress(N) \in Nat /\ 2 ^ Bits \in Nat
    BY <1>2, <2>2, PrefixTypes, PowerIsPositive, BitsAssumption
  <2>4. getLastAddress(n) <= getLastAddress(N)
    BY <2>1 DEF containsNet
  <2> QED BY <2>2, <2>3, <2>4 DEF Address
<1> QED BY <1>3, <1>4, <1>5 DEF Valid

\* What the loop meets when the current network was polled before all others.
LEMMA BeginsLater == TypeOK /\ ExactInv => (Usual => NextBeginsLater)
<1> SUFFICES ASSUME TypeOK, ExactInv, Usual, pc = "loop",
                    NEW nextNet \in Heads(networks), Within(nextNet)
             PROVE  currentNet.first < nextNet.first
  BY DEF NextBeginsLater
<1>1. nextNet \in BagToSet(networks)
  BY DEF Heads
<1>2. Before(currentNet, nextNet)
  BY <1>1 DEF ExactInv, PolledFirst
<1> QED BY <1>2 DEF Before, Within

LEMMA InitExact == Init => InOrder /\ DoneDisjoint /\ ExactInv
<1>1. Init => InOrder /\ DoneDisjoint
  BY DEF Init, InOrder, DoneDisjoint
<1>2. Init => ExactInv
  BY BagsOfSets DEF Init, ExactInv, Sources
<1> QED BY <1>1, <1>2

\* For the usual routes of a tunnel, of addresses of any length and any number,
\* the positive list holds exactly the addresses whose most specific network is
\* included: in whatever order the networks were added, polled and split, it
\* covers none of an excluded network and all of an included one.
THEOREM PositiveExact == Spec => []PositiveIsExact
BY InitExact, TypeCorrect, NextKeepsOrder, NextKeepsExact, ExactList, PTL DEF Spec

\* For the usual routes the positive list, which openTun installs below API 33,
\* has only networks the system accepts: no split goes below a single address,
\* leaves the boundaries of networks or the address space.
THEOREM InstalledAreValid == Spec => []RoutesAreValid
BY InitExact, TypeCorrect, NextKeepsOrder, NextKeepsExact, ValidList, PTL DEF Spec

\* The assertion of debug builds, that a next network inside the current one
\* begins after it, fails for no usual routes.
THEOREM AssertionHolds == Spec => [](Usual => NextBeginsLater)
BY InitExact, TypeCorrect, NextKeepsOrder, NextKeepsExact, BeginsLater, PTL DEF Spec
=============================================================================
