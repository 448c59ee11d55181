---------------------------- MODULE NetworkLemmas ----------------------------
(***************************************************************************)
(* What the proofs about NetworkSpace know of networks: powers of two, the *)
(* size of a network, that two networks which overlap are nested, and what *)
(* split() makes of one.                                                   *)
(*                                                                         *)
(* The provers know no powers. What is needed of them is derived from the  *)
(* number of subsets of a finite set.                                      *)
(***************************************************************************)
EXTENDS NetworkSpace, FiniteSetTheorems, FunctionTheorems, TLAPS

-----------------------------------------------------------------------------
(* Powers of two, and the greatest of some numbers.                        *)

\* A power of two is positive.
LEMMA PowerIsPositive == \A n \in Nat : 2 ^ n \in Nat \ {0}
<1> SUFFICES ASSUME NEW n \in Nat PROVE 2 ^ n \in Nat \ {0}
  OBVIOUS
<1>1. IsFiniteSet(1 .. n) /\ Cardinality(1 .. n) = n
  BY FS_Interval
<1>2. IsFiniteSet(SUBSET (1 .. n)) /\ Cardinality(SUBSET (1 .. n)) = 2 ^ n
  BY <1>1, FS_SUBSET
<1>3. Cardinality(SUBSET (1 .. n)) # 0
  BY <1>2, FS_EmptySet
<1> QED BY <1>2, <1>3, FS_CardinalityType

\* A subset of a union of disjoint sets is a subset of each.
LEMMA UnionOfDisjoint ==
    ASSUME NEW A, NEW B, A \cap B = {}
    PROVE  ExistsBijection((SUBSET A) \X (SUBSET B), SUBSET (A \cup B))
<1> DEFINE P == (SUBSET A) \X (SUBSET B)
           f == [p \in P |-> p[1] \cup p[2]]
<1>1. ASSUME NEW p \in P PROVE /\ p = <<p[1], p[2]>> /\ p[1] \subseteq A /\ p[2] \subseteq B
                               /\ (p[1] \cup p[2]) \cap A = p[1]
                               /\ (p[1] \cup p[2]) \cap B = p[2]
  <2>1. p = <<p[1], p[2]>> /\ p[1] \in SUBSET A /\ p[2] \in SUBSET B
    OBVIOUS
  <2> DEFINE x == p[1]
             y == p[2]
  <2>2. x \subseteq A /\ y \subseteq B
    BY <2>1
  <2> HIDE DEF x, y
  <2>3. (x \cup y) \cap A = x /\ (x \cup y) \cap B = y
    BY <2>2
  <2> QED BY <2>1, <2>3 DEF x, y
<1>2. ASSUME NEW s \in SUBSET (A \cup B)
      PROVE  <<s \cap A, s \cap B>> \in P /\ f[<<s \cap A, s \cap B>>] = s
  <2> DEFINE x == s \cap A
             y == s \cap B
  <2>1. x \in SUBSET A /\ y \in SUBSET B /\ x \cup y = s
    OBVIOUS
  <2> HIDE DEF x, y
  <2>2. <<x, y>> \in P
    BY <2>1
  <2>3. f[<<x, y>>] = x \cup y
    BY <2>2
  <2> QED BY <2>1, <2>2, <2>3 DEF x, y
<1>3. \A p \in P : f[p] = p[1] \cup p[2]
  OBVIOUS
<1>4. f \in [P -> SUBSET (A \cup B)]
  BY <1>1
<1> HIDE DEF P, f
<1>5. \A p, q \in P : f[p] = f[q] => p = q
  <2> SUFFICES ASSUME NEW p \in P, NEW q \in P, f[p] = f[q] PROVE p = q
    OBVIOUS
  <2>1. p[1] \cup p[2] = q[1] \cup q[2]
    BY <1>3
  <2>2. p[1] = q[1] /\ p[2] = q[2]
    BY <1>1, <2>1
  <2> QED BY <1>1, <2>2
<1>6. \A s \in SUBSET (A \cup B) : \E p \in P : f[p] = s
  BY <1>2
<1>7. f \in Bijection(P, SUBSET (A \cup B))
  BY <1>4, <1>5, <1>6, Fun_IsBij
<1> QED BY <1>7 DEF ExistsBijection, P

\* The law of exponents.
LEMMA PowerOfSum == \A m, n \in Nat : 2 ^ (m + n) = 2 ^ m * 2 ^ n
<1> SUFFICES ASSUME NEW m \in Nat, NEW n \in Nat PROVE 2 ^ (m + n) = 2 ^ m * 2 ^ n
  OBVIOUS
<1> DEFINE A == 1 .. m
           B == m + 1 .. m + n
<1>1. /\ IsFiniteSet(A) /\ Cardinality(A) = m
      /\ IsFiniteSet(B) /\ Cardinality(B) = n
      /\ IsFiniteSet(1 .. m + n) /\ Cardinality(1 .. m + n) = m + n
  <2>1. IsFiniteSet(1 .. m) /\ Cardinality(1 .. m) = m
    BY FS_Interval
  <2>2. IsFiniteSet(m + 1 .. m + n) /\ Cardinality(m + 1 .. m + n) = n
    BY FS_Interval
  <2>3. IsFiniteSet(1 .. m + n) /\ Cardinality(1 .. m + n) = m + n
    <3>1. m + n \in Nat
      OBVIOUS
    <3> QED BY <3>1, FS_Interval
  <2> QED BY <2>1, <2>2, <2>3
<1>2. A \cap B = {} /\ A \cup B = 1 .. m + n
  OBVIOUS
<1> HIDE DEF A, B
<1> DEFINE P == SUBSET A
           Q == SUBSET B
           U == SUBSET (A \cup B)
<1>3. /\ IsFiniteSet(P) /\ Cardinality(P) = 2 ^ m
      /\ IsFiniteSet(Q) /\ Cardinality(Q) = 2 ^ n
      /\ Cardinality(U) = 2 ^ (m + n)
  BY <1>1, <1>2, FS_SUBSET
<1>4. ExistsBijection(P \X Q, U)
  BY <1>2, UnionOfDisjoint
<1> HIDE DEF P, Q, U
<1>5. IsFiniteSet(P \X Q) /\ Cardinality(P \X Q) = Cardinality(P) * Cardinality(Q)
  BY <1>3, FS_Product
<1>6. Cardinality(U) = Cardinality(P \X Q)
  BY <1>4, <1>5, FS_Bijection
<1> QED BY <1>3, <1>5, <1>6

\* The masks of some networks have a longest.
LEMMA GreatestExists ==
  ASSUME NEW B \in Nat, NEW T, T \subseteq 0 .. B, T # {}
  PROVE  \E x \in T : \A y \in T : y <= x
<1> DEFINE U == {x .. B : x \in T}
           R == StrictSubsetOrdering(0 .. B)
<1>1. U \subseteq SUBSET (0 .. B) /\ U # {}
  <2>1. \A x \in T : x .. B \subseteq 0 .. B
    OBVIOUS
  <2> QED BY <2>1
<1>2. IsWellFoundedOn(R, SUBSET (0 .. B))
  <2>1. IsFiniteSet(0 .. B)
    BY FS_Interval
  <2> QED BY <2>1, FS_FiniteSubsetsOfFinite, FS_StrictSubsetOrderingWellFounded
<1> HIDE DEF U, R
<1>3. PICK u \in U : \A v \in U : ~ (<<v, u>> \in R)
  BY <1>1, <1>2, WFMin
<1>4. PICK x \in T : u = x .. B
  BY <1>3 DEF U
<1>5. ASSUME NEW y \in T, x < y PROVE FALSE
  <2>1. y .. B \in U
    BY DEF U
  <2>2. y .. B \subseteq x .. B /\ x \in x .. B /\ x \notin y .. B
    BY <1>5
  <2>3. <<y .. B, u>> \in R
    BY <1>1, <1>3, <1>4, <2>1, <2>2 DEF R, StrictSubsetOrdering
  <2> QED BY <1>3, <2>1, <2>3
<1> QED BY <1>5

-----------------------------------------------------------------------------
(* Arithmetic of multiples.                                                *)

\* A positive factor keeps and reflects the order.
LEMMA FactorOrder ==
    \A s \in Nat \ {0}, x, y \in Int : /\ x < y <=> x * s < y * s
                                      /\ x <= y <=> x * s <= y * s
OBVIOUS

LEMMA SumTimes == \A x, y, s \in Int : (x + y) * s = x * s + y * s
OBVIOUS

LEMMA TimesTimes == \A x, y, s \in Int : (x * y) * s = x * (y * s)
OBVIOUS

\* Clearing the low bits of an address leaves a multiple.
LEMMA Cleared ==
    \A x \in Nat, s \in Nat \ {0} :
        /\ x \div s \in Nat /\ x - (x % s) = (x \div s) * s
        /\ (x \div s) * s <= x /\ x < (x \div s + 1) * s
OBVIOUS

LEMMA Quotient == \A q \in Nat, s \in Nat \ {0} : (q * s) \div s = q
OBVIOUS

-----------------------------------------------------------------------------
(* Sizes.                                                                  *)

\* A network has at least one address.
LEMMA SizeIsPositive == \A mask \in Nat : Size(mask) \in Nat \ {0}
<1> SUFFICES ASSUME NEW mask \in Nat PROVE Size(mask) \in Nat \ {0}
  OBVIOUS
<1>1. CASE mask <= Bits
  <2>1. Bits - mask \in Nat
    BY <1>1, BitsAssumption
  <2> QED BY <1>1, <2>1, PowerIsPositive DEF Size
<1>2. CASE ~(mask <= Bits)
  BY <1>2 DEF Size
<1> QED BY <1>1, <1>2

\* The size of a network is a multiple of that of a smaller one, at least twice
\* it if the mask is longer.
LEMMA SizeRatio ==
    ASSUME NEW j \in 0 .. Bits, NEW k \in j .. Bits
    PROVE  \E c \in Nat \ {0} : Size(j) = c * Size(k) /\ (j < k => c >= 2)
<1>1. j \in Nat /\ k \in Nat /\ k - j \in Nat /\ Bits - k \in Nat /\ j <= Bits /\ k <= Bits
      /\ Bits - j = (k - j) + (Bits - k)
  BY BitsAssumption
<1>2. Size(j) = 2 ^ (Bits - j) /\ Size(k) = 2 ^ (Bits - k)
  BY <1>1 DEF Size
<1> DEFINE c == 2 ^ (k - j)
<1>3. 2 ^ ((k - j) + (Bits - k)) = 2 ^ (k - j) * 2 ^ (Bits - k)
  BY <1>1, PowerOfSum
<1>4. Size(j) = c * Size(k)
  BY <1>1, <1>2, <1>3
<1>5. c \in Nat \ {0}
  BY <1>1, PowerIsPositive
<1>6. j < k => c >= 2
  <2> SUFFICES ASSUME j < k PROVE c >= 2
    OBVIOUS
  <2>1. k - j - 1 \in Nat /\ k - j = 1 + (k - j - 1)
    BY <1>1
  <2>2. 2 ^ (k - j) = 2 ^ 1 * 2 ^ (k - j - 1)
    BY <2>1, PowerOfSum
  <2>3. 2 ^ 1 = 2 /\ 2 ^ (k - j - 1) \in Nat \ {0}
    BY <2>1, PowerIsPositive
  <2> QED BY <2>2, <2>3
<1> HIDE DEF c
<1> QED BY <1>4, <1>5, <1>6

\* A network is two of the next length.
LEMMA SizeDoubles ==
    ASSUME NEW j \in Nat, j < Bits
    PROVE  Size(j) = 2 * Size(j + 1)
<1>1. Bits - (j + 1) \in Nat /\ Bits - j = 1 + (Bits - (j + 1)) /\ j <= Bits /\ j + 1 <= Bits
  BY BitsAssumption
<1>2. 2 ^ (1 + (Bits - (j + 1))) = 2 ^ 1 * 2 ^ (Bits - (j + 1))
  BY <1>1, PowerOfSum
<1>3. 2 ^ 1 = 2
  OBVIOUS
<1>4. Size(j) = 2 ^ (Bits - j) /\ Size(j + 1) = 2 ^ (Bits - (j + 1))
  BY <1>1 DEF Size
<1> QED BY <1>1, <1>2, <1>3, <1>4

-----------------------------------------------------------------------------
(* Networks. The first address of a network is a multiple of its size.     *)

Prefix(n) == /\ n \in Net /\ n.mask <= Bits
             /\ \E q \in Nat : n.first = q * Size(n.mask)

\* Neither lies behind the other.
Overlap(a, b) == a.first <= getLastAddress(b) /\ b.first <= getLastAddress(a)

\* What arithmetic needs to know of a prefix.
LEMMA PrefixTypes ==
    ASSUME NEW n, Prefix(n)
    PROVE  /\ n.first \in Nat /\ n.mask \in 0 .. Bits /\ Size(n.mask) \in Nat \ {0}
           /\ getLastAddress(n) = n.first + Size(n.mask) - 1
           /\ getLastAddress(n) \in Nat /\ n.first <= getLastAddress(n)
<1>1. n.first \in Nat /\ n.mask \in Nat /\ n.mask <= Bits
  BY DEF Prefix, Net
<1>2. Size(n.mask) \in Nat \ {0}
  BY <1>1, SizeIsPositive
<1> QED BY <1>1, <1>2, BitsAssumption DEF getLastAddress

\* Of two networks that overlap the larger one contains the other.
LEMMA Nested ==
    ASSUME NEW a, NEW b, Prefix(a), Prefix(b), a.mask <= b.mask, Overlap(a, b)
    PROVE  containsNet(a, b)
<1> DEFINE s == Size(b.mask)
<1>1. /\ a.first \in Nat /\ a.mask \in 0 .. Bits /\ b.first \in Nat /\ b.mask \in a.mask .. Bits
      /\ s \in Nat \ {0}
      /\ getLastAddress(a) = a.first + Size(a.mask) - 1 /\ getLastAddress(b) = b.first + s - 1
  BY PrefixTypes, BitsAssumption
<1>2. PICK c \in Nat \ {0} : Size(a.mask) = c * s
  BY <1>1, SizeRatio
<1>3. PICK qa \in Nat : a.first = qa * Size(a.mask)
  BY DEF Prefix
<1>4. PICK qb \in Nat : b.first = qb * s
  BY DEF Prefix
<1> HIDE DEF s
<1> DEFINE u == qa * c
<1>5. u \in Nat /\ a.first = u * s
  BY <1>1, <1>2, <1>3, TimesTimes
<1> HIDE DEF u
<1>6. getLastAddress(a) = (u + c) * s - 1
  BY <1>1, <1>2, <1>5, SumTimes
<1>7. getLastAddress(b) = (qb + 1) * s - 1
  <2>1. (qb + 1) * s = qb * s + s
    BY <1>1
  <2> QED BY <1>1, <1>4, <2>1
<1>8. u * s < (qb + 1) * s /\ qb * s < (u + c) * s
  <2>1. u * s \in Int /\ (qb + 1) * s \in Int /\ qb * s \in Int /\ (u + c) * s \in Int
    BY <1>1, <1>5
  <2>2. u * s <= (qb + 1) * s - 1 /\ qb * s <= (u + c) * s - 1
    BY <1>4, <1>5, <1>6, <1>7 DEF Overlap
  <2> HIDE DEF Overlap
  <2> QED BY <2>1, <2>2
<1>9. u < qb + 1 /\ qb < u + c
  BY <1>1, <1>5, <1>8, FactorOrder
<1>10. u * s <= qb * s /\ (qb + 1) * s <= (u + c) * s
  <2>1. u <= qb /\ qb + 1 <= u + c
    BY <1>5, <1>9
  <2> QED BY <1>1, <1>5, <2>1, FactorOrder
<1>11. a.first <= b.first
  BY <1>4, <1>5, <1>10
<1>12. getLastAddress(b) <= getLastAddress(a)
  <2>1. (qb + 1) * s \in Int /\ (u + c) * s \in Int
    BY <1>1, <1>5
  <2> QED BY <1>6, <1>7, <1>10, <2>1
<1> QED BY <1>11, <1>12 DEF containsNet

\* A network inside another one has the longer mask, unless they are equal.
LEMMA Inside ==
    ASSUME NEW a, NEW b, Prefix(a), Prefix(b), containsNet(a, b)
    PROVE  Overlap(a, b) /\ (SameNet(a, b) \/ a.mask < b.mask)
<1>1. /\ a.first \in Nat /\ a.mask \in 0 .. Bits /\ Size(a.mask) \in Nat \ {0}
      /\ getLastAddress(a) = a.first + Size(a.mask) - 1 /\ getLastAddress(a) \in Nat
      /\ b.first \in Nat /\ b.mask \in 0 .. Bits /\ Size(b.mask) \in Nat \ {0}
      /\ getLastAddress(b) = b.first + Size(b.mask) - 1 /\ getLastAddress(b) \in Nat
  BY PrefixTypes
<1>2. a.first <= b.first /\ getLastAddress(b) <= getLastAddress(a)
  BY DEF containsNet
<1>3. Overlap(a, b)
  BY <1>1, <1>2 DEF Overlap
<1>4. CASE a.mask = b.mask
  BY <1>1, <1>2, <1>3, <1>4 DEF SameNet
<1>5. CASE b.mask < a.mask
  <2>1. a.mask \in b.mask .. Bits
    BY <1>1, <1>5, BitsAssumption
  <2>2. PICK c \in Nat \ {0} : Size(b.mask) = c * Size(a.mask) /\ c >= 2
    BY <1>1, <1>5, <2>1, SizeRatio
  <2>3. 2 * Size(a.mask) <= Size(b.mask)
    BY <1>1, <2>2, FactorOrder
  <2> QED BY <1>1, <1>2, <2>3
<1>6. a.mask = b.mask \/ b.mask < a.mask \/ a.mask < b.mask
  BY <1>1, BitsAssumption
<1> QED BY <1>3, <1>4, <1>5, <1>6

\* split() halves a network.
LEMMA HalvesOfPrefix ==
    ASSUME NEW n, Prefix(n), n.mask < Bits
    PROVE  /\ Prefix(FirstHalf(n)) /\ Prefix(SecondHalf(n))
           /\ FirstHalf(n).first = n.first
           /\ SecondHalf(n).first = n.first + Size(n.mask + 1)
           /\ getLastAddress(FirstHalf(n)) = n.first + Size(n.mask + 1) - 1
           /\ getLastAddress(SecondHalf(n)) = getLastAddress(n)
<1> DEFINE s == Size(n.mask + 1)
<1>1. n.first \in Nat /\ n.mask \in Nat /\ n.mask + 1 <= Bits /\ n.included \in BOOLEAN
  BY BitsAssumption DEF Prefix, Net
<1>2. s \in Nat \ {0}
  BY <1>1, SizeIsPositive
<1>3. Size(n.mask) = 2 * s
  BY <1>1, SizeDoubles
<1>4. PICK q \in Nat : n.first = q * (2 * s)
  BY <1>3 DEF Prefix
<1>5. getLastAddress(n) = n.first + 2 * s - 1
  BY <1>3 DEF getLastAddress
<1>6. /\ FirstHalf(n) \in Net /\ FirstHalf(n).first = n.first
      /\ FirstHalf(n).mask = n.mask + 1 /\ FirstHalf(n).included = n.included
  BY <1>1 DEF FirstHalf, Net
<1>7. getLastAddress(FirstHalf(n)) = n.first + s - 1
  BY <1>6 DEF getLastAddress
<1>8. n.first + s - 1 + 1 = n.first + s /\ n.first + s \in Nat
  BY <1>1, <1>2
<1>9. /\ SecondHalf(n) \in Net /\ SecondHalf(n).first = n.first + s
      /\ SecondHalf(n).mask = n.mask + 1 /\ SecondHalf(n).included = n.included
  BY <1>1, <1>7, <1>8 DEF SecondHalf, Net
<1>10. getLastAddress(SecondHalf(n)) = n.first + s + s - 1
  BY <1>9 DEF getLastAddress
<1> HIDE DEF s
<1>11. n.first = (q * 2) * s /\ n.first + s = (q * 2 + 1) * s
  BY <1>2, <1>4
<1>12. Prefix(FirstHalf(n)) /\ Prefix(SecondHalf(n))
  <2>1. q * 2 \in Nat /\ q * 2 + 1 \in Nat
    OBVIOUS
  <2> QED BY <1>1, <1>6, <1>9, <1>11, <2>1 DEF Prefix, s
<1>13. n.first + s + s - 1 = n.first + 2 * s - 1
  BY <1>1, <1>2
<1> QED BY <1>5, <1>6, <1>7, <1>9, <1>10, <1>12, <1>13 DEF s

\* The upper half of a network that has another one strictly inside its lower
\* half.
LEMMA UpperHalf ==
    ASSUME NEW n, NEW X, NEW Y, Prefix(n), n.mask < Bits, SameNet(Y, SecondHalf(n)),
           X.mask > Y.mask, n.first <= X.first, X.first < Y.first
    PROVE  UpperHalfBeside(X, Y)
<1> DEFINE s == Size(n.mask + 1)
<1>1. n.first \in Nat /\ n.mask \in Nat /\ s \in Nat \ {0} /\ Size(n.mask) = 2 * s
  <2>1. n.first \in Nat /\ n.mask \in Nat
    BY DEF Prefix, Net
  <2> QED BY <2>1, SizeIsPositive, SizeDoubles
<1>2. PICK q \in Nat : n.first = q * (2 * s)
  BY <1>1 DEF Prefix
<1>3. Y.mask = n.mask + 1 /\ Y.first = n.first + s
  BY HalvesOfPrefix DEF SameNet, SecondHalf
<1> HIDE DEF s
<1>4. Y.first = (2 * q + 1) * s
  BY <1>1, <1>2, <1>3
<1>5. 2 * q + 1 \in Nat /\ (2 * q + 1) % 2 = 1
  OBVIOUS
<1>6. Y.first \div s = 2 * q + 1
  BY <1>1, <1>4, <1>5, Quotient
<1>7. Y.first >= s /\ Y.first - s = n.first
  BY <1>1, <1>3
<1> QED BY <1>3, <1>5, <1>6, <1>7 DEF UpperHalfBeside, s

\* new IpAddress(...) makes a prefix of addresses.
LEMMA IpAddressIsPrefix ==
    ASSUME NEW address \in Address, NEW mask \in 0 .. Bits, NEW include \in BOOLEAN
    PROVE  LET n == IpAddress(address, mask, include)
           IN  n \in Net /\ Prefix(n) /\ getLastAddress(n) \in Address
<1> DEFINE n == IpAddress(address, mask, include)
           k == Size(mask)
           q == address \div k
<1>1. mask \in Nat /\ mask <= Bits /\ mask \in 0 .. Bits /\ 0 \in 0 .. Bits
  BY BitsAssumption
<1>2. k \in Nat \ {0}
  BY <1>1, SizeIsPositive
<1>3. Size(0) = 2 ^ Bits /\ 2 ^ Bits \in Nat
  <2>1. Bits - 0 = Bits /\ 0 <= Bits
    BY BitsAssumption
  <2> QED BY <2>1, BitsAssumption, PowerIsPositive DEF Size
<1>4. PICK c \in Nat \ {0} : 2 ^ Bits = c * k
  BY <1>1, <1>3, SizeRatio
<1>5. address \in Nat /\ address < c * k
  <2>1. address \in 0 .. c * k - 1 /\ c * k \in Nat
    BY <1>3, <1>4 DEF Address
  <2> HIDE DEF k
  <2> QED BY <2>1
<1> HIDE DEF k
<1>6. q \in Nat /\ address - (address % k) = q * k /\ q * k <= address
  BY <1>2, <1>5, Cleared
<1>7. n.first = q * k /\ n.mask = mask /\ n.included = include
  BY <1>6 DEF IpAddress, k
<1> HIDE DEF q
<1>8. q * k \in Nat
  BY <1>2, <1>6
<1>9. n \in Net
  <2>1. n = [first |-> q * k, mask |-> mask, included |-> include]
    BY <1>6 DEF IpAddress, k
  <2> QED BY <1>1, <1>8, <2>1 DEF Net
<1>10. Prefix(n)
  BY <1>1, <1>6, <1>7, <1>9 DEF Prefix, k
<1>11. getLastAddress(n) = q * k + k - 1
  BY <1>7 DEF getLastAddress, k
<1>12. q < c
  <2>1. q * k < c * k
    BY <1>2, <1>5, <1>6, <1>8
  <2> QED BY <1>2, <1>6, <2>1, FactorOrder
<1>13. q * k + k <= c * k
  <2>1. (q + 1) * k <= c * k
    BY <1>2, <1>6, <1>12, FactorOrder
  <2> QED BY <1>2, <1>6, <2>1
<1>14. getLastAddress(n) \in 0 .. 2 ^ Bits - 1
  <2>1. c * k \in Nat
    BY <1>2
  <2>2. q * k + k - 1 \in 0 .. c * k - 1
    BY <1>2, <1>8, <1>13, <2>1
  <2> QED BY <1>4, <1>11, <2>2
<1> QED BY <1>9, <1>10, <1>14 DEF Address

=============================================================================
