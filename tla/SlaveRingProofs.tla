--------------------------- MODULE SlaveRingProofs ---------------------------
(***************************************************************************)
(* Lemmas about the operators of SlaveRing, for every MAX_KEY and every    *)
(* list: joins and leaves keep a list well formed and in ring order, every *)
(* key has one owner, and a change moves keys between neighbours only.     *)
(***************************************************************************)
EXTENDS SlaveRing, FiniteSetTheorems, WellFoundedInduction, TLAPS

(* Arithmetic.                                                             *)

\* The remainder of a number below twice the modulus.
LEMMA ModOnce ==
    ASSUME NEW m \in Nat \ {0}, NEW x \in Nat, x < 2 * m
    PROVE  x % m = IF x < m THEN x ELSE x - m
<1>1. CASE x < m
    BY <1>1
<1>2. CASE m <= x
    BY <1>2
<1> QED
    BY <1>1, <1>2

\* The range of a remainder.
LEMMA ModRange ==
    ASSUME NEW m \in Nat \ {0}, NEW x \in Nat
    PROVE  x % m \in 0..(m - 1)
OBVIOUS

\* Half of a length, as AddToSlaveList takes it.
LEMMA Half ==
    ASSUME NEW x \in Nat
    PROVE  /\ (x \div 2) \in Nat
           /\ x >= 1 => (x \div 2) < x
           /\ x >= 2 => (x \div 2) >= 1
OBVIOUS

\* A nonempty set of natural numbers has a least element.
LEMMA NatMinimum ==
    ASSUME NEW T, T \subseteq Nat, T # {}
    PROVE  \E x \in T : \A y \in T : x <= y
<1>1. PICK x \in T : \A y \in T : ~(<<y, x>> \in OpToRel(<, Nat))
    BY NatLessThanWellFounded, WFMin
<1>2. \A y \in T : ~(y < x)
    BY <1>1 DEF OpToRel
<1> QED
    BY <1>2

-----------------------------------------------------------------------------
(* The ring.                                                               *)

\* The distance from node 0 of a list forwards to node i.
Offset(sl, i) == Dist(sl.nodes[0].key, sl.nodes[i].key)

\* Distances are below MAX_KEY, and add up when they stay below it.
LEMMA DistFacts ==
    ASSUME NEW a \in RingKeys, NEW b \in RingKeys, NEW c \in RingKeys
    PROVE  /\ Dist(a, b) \in RingKeys
           /\ Dist(a, b) = 0 <=> a = b
           /\ Dist(a, b) = Dist(a, c) <=> b = c
           /\ Dist(a, b) <= Dist(a, c) => Dist(b, c) = Dist(a, c) - Dist(a, b)
           /\ a # b => Dist(b, a) = MAX_KEY - Dist(a, b)
BY MaxKeyAssumption DEF Dist, RingKeys

\* Going h further from b.
LEMMA DistAdvance ==
    ASSUME NEW a \in RingKeys, NEW b \in RingKeys, NEW h \in Nat,
           Dist(a, b) + h < MAX_KEY
    PROVE  /\ (h + b) % MAX_KEY \in RingKeys
           /\ Dist(a, (h + b) % MAX_KEY) = Dist(a, b) + h
<1>1. h + b < 2 * MAX_KEY
    BY MaxKeyAssumption DEF Dist, RingKeys
<1> DEFINE x == h + b
<1>2. x \in Nat /\ x < 2 * MAX_KEY
    BY <1>1 DEF RingKeys
<1>3. x % MAX_KEY = IF x < MAX_KEY THEN x ELSE x - MAX_KEY
  <2> HIDE DEF x
  <2> QED
    BY <1>2, ModOnce, MaxKeyAssumption
<1> QED
    BY <1>1, <1>3, MaxKeyAssumption DEF Dist, RingKeys

\* What the type of a list says of one node.
LEMMA NodeType ==
    ASSUME NEW S, NEW sl, IsSlaveList(sl, S), NEW i \in Positions(sl)
    PROVE  /\ sl.num \in Nat \ {0}
           /\ 0 \in Positions(sl)
           /\ sl.nodes[i].id \in S
           /\ sl.nodes[i].key \in RingKeys
           /\ Offset(sl, i) \in RingKeys
           /\ Offset(sl, 0) = 0
           /\ (i + 1) % sl.num = IF i = sl.num - 1 THEN 0 ELSE i + 1
<1>1. sl.num \in Nat \ {0} /\ 0 \in Positions(sl)
    BY DEF IsSlaveList, Positions
<1>2. \A j \in Positions(sl) : sl.nodes[j] \in SlaveNode(S)
    BY DEF IsSlaveList, Positions
<1>3. \A j \in Positions(sl) : sl.nodes[j].id \in S /\ sl.nodes[j].key \in RingKeys
    BY <1>2 DEF SlaveNode
<1>4. Offset(sl, i) \in RingKeys /\ Offset(sl, 0) = 0
    BY <1>1, <1>3, DistFacts DEF Offset
<1>5. (i + 1) % sl.num = IF i = sl.num - 1 THEN 0 ELSE i + 1
  <2> DEFINE x == i + 1
             n == sl.num
  <2>1. x \in Nat /\ n \in Nat \ {0} /\ x < 2 * n
    BY <1>1 DEF Positions
  <2>2. x % n = IF x < n THEN x ELSE x - n
    <3> HIDE DEF x, n
    <3> QED
      BY <2>1, ModOnce
  <2>3. IF i = n - 1 THEN x - n = 0 /\ ~(x < n) ELSE x < n
    BY <1>1 DEF Positions
  <2> QED
    BY <2>2, <2>3
<1> QED
    BY <1>1, <1>3, <1>4, <1>5

\* The distance between two nodes is the difference of their offsets.
LEMMA OffsetDist ==
    ASSUME NEW S, NEW sl, IsSlaveList(sl, S),
           NEW i \in Positions(sl), NEW j \in Positions(sl),
           Offset(sl, i) <= Offset(sl, j)
    PROVE  Dist(sl.nodes[i].key, sl.nodes[j].key) = Offset(sl, j) - Offset(sl, i)
<1> DEFINE a == sl.nodes[0].key
           b == sl.nodes[i].key
           c == sl.nodes[j].key
<1>1. a \in RingKeys /\ b \in RingKeys /\ c \in RingKeys
    BY NodeType
<1>2. Dist(a, b) <= Dist(a, c)
    BY DEF Offset
<1>3. Dist(b, c) = Dist(a, c) - Dist(a, b)
  <2> HIDE DEF a, b, c
  <2> QED
    BY <1>1, <1>2, DistFacts
<1> QED
    BY <1>3 DEF Offset

\* The expression of GetLength is the distance, except from a key to itself.
LEMMA LengthIsDist ==
    ASSUME NEW a \in RingKeys, NEW b \in RingKeys
    PROVE  ((b - a + MAX_KEY - 1) % MAX_KEY) + 1 =
              IF a = b THEN MAX_KEY ELSE Dist(a, b)
<1> DEFINE x == b - a + MAX_KEY - 1
<1>1. x \in Nat /\ x < 2 * MAX_KEY
    BY MaxKeyAssumption DEF RingKeys
<1>2. x % MAX_KEY = IF x < MAX_KEY THEN x ELSE x - MAX_KEY
  <2> HIDE DEF x
  <2> QED
    BY <1>1, ModOnce, MaxKeyAssumption
<1> QED
    BY <1>2, MaxKeyAssumption DEF RingKeys, Dist

\* GetLength is the gap between neighbours, the last one closing the ring.
LEMMA LengthIsGap ==
    ASSUME NEW S, NEW sl, IsSlaveList(sl, S), Ordered(sl),
           NEW i \in Positions(sl)
    PROVE  /\ GetLength(sl, i) =
                  IF i = sl.num - 1 THEN MAX_KEY - Offset(sl, i)
                  ELSE Offset(sl, i + 1) - Offset(sl, i)
           /\ GetLength(sl, i) \in 1..MAX_KEY
<1>1. /\ sl.num \in Nat \ {0} /\ 0 \in Positions(sl)
      /\ sl.nodes[0].key \in RingKeys /\ sl.nodes[i].key \in RingKeys
      /\ Offset(sl, i) \in RingKeys /\ Offset(sl, 0) = 0
    BY NodeType
<1>2. CASE i = sl.num - 1
  <2>1. (i + 1) % sl.num = 0
    BY <1>2, NodeType
  <2>2. GetLength(sl, i) = IF sl.nodes[i].key = sl.nodes[0].key THEN MAX_KEY
                           ELSE Dist(sl.nodes[i].key, sl.nodes[0].key)
    BY <2>1, <1>1, LengthIsDist DEF GetLength
  <2>3. GetLength(sl, i) = MAX_KEY - Offset(sl, i)
    BY <2>2, <1>1, DistFacts, MaxKeyAssumption DEF Offset
  <2> QED
    BY <2>3, <1>1, <1>2, MaxKeyAssumption DEF RingKeys
<1>3. CASE i # sl.num - 1
  <2>1. /\ (i + 1) % sl.num = i + 1
        /\ i + 1 \in Positions(sl) /\ i < i + 1
    BY <1>3, <1>1, NodeType DEF Positions
  <2>2. sl.nodes[i + 1].key \in RingKeys /\ Offset(sl, i + 1) \in RingKeys
    BY <2>1, NodeType
  <2>3. /\ Offset(sl, i) < Offset(sl, i + 1)
        /\ Offset(sl, i) <= Offset(sl, i + 1)
        /\ Offset(sl, i) # Offset(sl, i + 1)
    BY <2>1, <2>2, <1>1 DEF Ordered, Offset, RingKeys
  <2>4. /\ sl.nodes[i].key # sl.nodes[i + 1].key
        /\ Dist(sl.nodes[i].key, sl.nodes[i + 1].key)
              = Offset(sl, i + 1) - Offset(sl, i)
    BY <2>2, <2>3, <1>1, DistFacts DEF Offset
  <2>5. GetLength(sl, i) = Offset(sl, i + 1) - Offset(sl, i)
    BY <2>1, <2>2, <2>4, <1>1, LengthIsDist DEF GetLength
  <2> QED
    BY <2>2, <2>3, <2>5, <1>1, <1>3, MaxKeyAssumption DEF RingKeys
<1> QED
    BY <1>2, <1>3

\* FindLongestSection finds a position, and no section is longer.
LEMMA LongestExists ==
    ASSUME NEW S, NEW sl, IsSlaveList(sl, S), Ordered(sl), sl.num # 0
    PROVE  /\ FindLongestSection(sl) \in Positions(sl)
           /\ \A j \in Positions(sl) :
                 GetLength(sl, j) <= GetLength(sl, FindLongestSection(sl))
<1> DEFINE L(i) == GetLength(sl, i)
           T == {MAX_KEY - L(i) : i \in Positions(sl)}
<1>1. \A i \in Positions(sl) : L(i) \in 1..MAX_KEY /\ i \in Nat
    BY LengthIsGap DEF Positions
<1>2. 0 \in Positions(sl)
    BY DEF Positions, IsSlaveList
<1> HIDE DEF L
<1>3. T \subseteq Nat /\ T # {}
    BY <1>1, <1>2, MaxKeyAssumption
<1>4. PICK t \in T : \A y \in T : t <= y
    BY <1>3, NatMinimum
<1>5. PICK m \in Positions(sl) : t = MAX_KEY - L(m)
    BY <1>4
<1>6. \A j \in Positions(sl) : L(j) <= L(m)
    BY <1>1, <1>4, <1>5, MaxKeyAssumption
<1> DEFINE U == {i \in Positions(sl) : L(i) = L(m)}
<1>7. U \subseteq Nat /\ U # {}
    BY <1>1, <1>5
<1>8. PICK p \in U : \A y \in U : p <= y
    BY <1>7, NatMinimum
<1>9. /\ p \in Positions(sl)
      /\ \A j \in Positions(sl) : L(j) <= L(p) /\ (j < p => L(j) < L(p))
    BY <1>1, <1>6, <1>8, <1>7
<1>10. FindLongestSection(sl) =
         CHOOSE i \in Positions(sl) :
             \A j \in Positions(sl) : L(j) <= L(i) /\ (j < i => L(j) < L(i))
    BY DEF FindLongestSection, L
<1> HIDE DEF U, T
<1>11. /\ FindLongestSection(sl) \in Positions(sl)
       /\ \A j \in Positions(sl) : L(j) <= L(FindLongestSection(sl))
    BY <1>9, <1>10
<1> QED
    BY <1>11 DEF L

\* While a key is free, the longest section has room for another node.  If
\* all sections had length 1, node i would be at distance i from node 0 and
\* there would be as many nodes as keys.
LEMMA LongestHasRoom ==
    ASSUME NEW S, NEW sl, IsSlaveList(sl, S), Ordered(sl), sl.num # 0,
           sl.num < MAX_KEY
    PROVE  GetLength(sl, FindLongestSection(sl)) >= 2
<1> DEFINE p == FindLongestSection(sl)
<1>1. p \in Positions(sl) /\ GetLength(sl, p) \in 1..MAX_KEY
    BY LongestExists, LengthIsGap
<1> SUFFICES ASSUME GetLength(sl, p) = 1
             PROVE  FALSE
    BY <1>1, MaxKeyAssumption
<1>2. \A i \in Positions(sl) : GetLength(sl, i) = 1
    BY LongestExists, LengthIsGap, MaxKeyAssumption
<1>3. sl.num \in Nat \ {0} /\ Positions(sl) = 0..(sl.num - 1)
    BY DEF IsSlaveList, Positions
<1>4. \A i \in Positions(sl) : Offset(sl, i) \in RingKeys /\ Offset(sl, 0) = 0
    BY NodeType
<1> DEFINE T == {i \in Positions(sl) : Offset(sl, i) # i}
<1>5. T = {}
  <2> SUFFICES ASSUME T # {}
               PROVE  FALSE
    OBVIOUS
  <2>1. T \subseteq Nat
    BY <1>3
  <2>2. PICK x \in T : \A y \in T : x <= y
    BY <2>1, NatMinimum
  <2>3. x # 0 /\ x \in Positions(sl) /\ Offset(sl, x) # x
    BY <2>2, <1>4
  <2>4. x - 1 \in Positions(sl) /\ x - 1 # sl.num - 1 /\ ~(x <= x - 1)
    BY <2>3, <1>3
  <2>5. Offset(sl, x - 1) = x - 1
    BY <2>2, <2>4
  <2>6. GetLength(sl, x - 1) = Offset(sl, (x - 1) + 1) - Offset(sl, x - 1)
    BY <2>4, LengthIsGap
  <2>7. (x - 1) + 1 = x
    BY <2>3, <1>3
  <2>8. 1 = Offset(sl, x) - (x - 1)
    BY <2>4, <2>5, <2>6, <2>7, <1>2
  <2> QED
    BY <2>3, <2>8, <1>3, <1>4 DEF RingKeys
<1>6. sl.num - 1 \in Positions(sl)
    BY <1>3
<1>7. GetLength(sl, sl.num - 1) = MAX_KEY - Offset(sl, sl.num - 1)
    BY <1>6, LengthIsGap
<1>8. Offset(sl, sl.num - 1) = sl.num - 1
    BY <1>5, <1>6
<1> QED
    BY <1>2, <1>3, <1>6, <1>7, <1>8, MaxKeyAssumption

\* The number of listed slaves is bounded by the number there are.
LEMMA ListFits ==
    ASSUME NEW S, IsFiniteSet(S), NEW sl, IsSlaveList(sl, S), Ordered(sl)
    PROVE  sl.num <= Cardinality(S)
<1> DEFINE f == [i \in 0..(sl.num - 1) |-> sl.nodes[i].id]
<1>1. sl.num \in Nat /\ Cardinality(S) \in Nat
    BY FS_CardinalityType DEF IsSlaveList
<1>2. f \in [0..(sl.num - 1) -> S]
    BY NodeType DEF Positions
<1>3. \A i, j \in 0..(sl.num - 1) : f[i] = f[j] => i = j
  <2> SUFFICES ASSUME NEW i \in 0..(sl.num - 1), NEW j \in 0..(sl.num - 1),
                      i # j
               PROVE  sl.nodes[i].id # sl.nodes[j].id
    OBVIOUS
  <2>1. i < j \/ j < i
    BY <1>1
  <2> QED
    BY <2>1 DEF Ordered, Positions
<1>4. f \in Injection(0..(sl.num - 1), S)
    BY <1>2, <1>3 DEF Injection, IsInjective
<1>5. Cardinality(0..(sl.num - 1)) <= Cardinality(S)
    BY <1>4, FS_Injection
<1>6. Cardinality(0..(sl.num - 1)) = sl.num
  <2> DEFINE a == 0
             b == sl.num - 1
  <2>1. a \in Int /\ b \in Int
    BY <1>1
  <2>2. Cardinality(a..b) = IF a > b THEN 0 ELSE b - a + 1
    <3> HIDE DEF a, b
    <3> QED
      BY <2>1, FS_Interval
  <2> QED
    BY <2>2, <1>1
<1> QED
    BY <1>1, <1>5, <1>6

-----------------------------------------------------------------------------
(* The two changes of the list keep it well formed.                        *)

\* The unsigned version stays in its range.
LEMMA VersionRange ==
    ASSUME NEW v \in 0..(UINT_RANGE - 1)
    PROVE  (v + 1) % UINT_RANGE \in 0..(UINT_RANGE - 1)
<1> DEFINE x == v + 1
<1>1. x \in Nat
    OBVIOUS
<1>2. x % UINT_RANGE \in 0..(UINT_RANGE - 1)
  <2> HIDE DEF x
  <2> QED
    BY <1>1, ModRange, UintAssumption
<1> QED
    BY <1>2

\* The fields of a list after AddNewSlave.
LEMMA AddFields ==
    ASSUME NEW S, NEW sl, IsSlaveList(sl, S), NEW pos, NEW sn
    PROVE  LET new == AddNewSlave(sl, pos, sn)
           IN  /\ new = [version |-> new.version, num |-> new.num, nodes |-> new.nodes]
               /\ new.version \in 0..(UINT_RANGE - 1)
               /\ new.num = sl.num + 1
               /\ new.nodes = [i \in 0..sl.num |-> IF i < pos THEN sl.nodes[i]
                                                  ELSE IF i = pos THEN sn
                                                  ELSE sl.nodes[i - 1]]
<1>1. (sl.version + 1) % UINT_RANGE \in 0..(UINT_RANGE - 1)
    BY VersionRange DEF IsSlaveList
<1> QED
    BY <1>1 DEF AddNewSlave

\* AddToSlaveList on an empty list.
LEMMA AddFirst ==
    ASSUME NEW S, NEW sl, IsSlaveList(sl, S), sl.num = 0,
           NEW s \in S, NEW first \in RingKeys
    PROVE  LET new == AddToSlaveList(sl, s, first)
           IN  IsSlaveList(new, S) /\ Ordered(new)
<1> DEFINE new == AddToSlaveList(sl, s, first)
           sn == [id |-> s, key |-> first]
<1>1. new = AddNewSlave(sl, 0, sn)
    BY DEF AddToSlaveList, NewPos, NewKey
<1>2. /\ new = [version |-> new.version, num |-> new.num, nodes |-> new.nodes]
      /\ new.version \in 0..(UINT_RANGE - 1) /\ new.num = sl.num + 1
      /\ new.nodes = [i \in 0..sl.num |-> IF i < 0 THEN sl.nodes[i]
                                         ELSE IF i = 0 THEN sn
                                         ELSE sl.nodes[i - 1]]
  <2>1. (sl.version + 1) % UINT_RANGE \in 0..(UINT_RANGE - 1)
    BY VersionRange DEF IsSlaveList
  <2> HIDE DEF new, sn
  <2> QED
    BY <2>1, <1>1 DEF AddNewSlave
<1> HIDE DEF new
<1>3. new.num = 1 /\ new.nodes = [i \in 0..0 |-> sn]
    BY <1>2
<1>4. IsSlaveList(new, S)
    BY <1>2, <1>3 DEF IsSlaveList, SlaveNode
<1>5. Ordered(new)
    BY <1>3 DEF Ordered, Positions
<1> QED
    BY <1>4, <1>5 DEF new

\* AddToSlaveList on a list that leaves a key free: the new node's distance
\* from node 0 lies strictly between those of the nodes around it.
LEMMA AddOrdered ==
    ASSUME NEW S, NEW sl, IsSlaveList(sl, S), Ordered(sl),
           sl.num # 0, sl.num < MAX_KEY,
           NEW s \in S, s \notin Members(sl), NEW first
    PROVE  LET new == AddToSlaveList(sl, s, first)
           IN  IsSlaveList(new, S) /\ Ordered(new)
<1> DEFINE new == AddToSlaveList(sl, s, first)
           p == FindLongestSection(sl)
           h == GetLength(sl, p) \div 2
           key == (h + sl.nodes[p].key) % MAX_KEY
           sn == [id |-> s, key |-> key]
           n == sl.num
<1>1. /\ p \in Positions(sl) /\ p \in Nat /\ p < n /\ n \in Nat
      /\ GetLength(sl, p) \in 1..MAX_KEY /\ GetLength(sl, p) >= 2
    BY LongestExists, LengthIsGap, LongestHasRoom DEF Positions, IsSlaveList
<1>2. h \in Nat /\ h >= 1 /\ h < GetLength(sl, p)
  <2> DEFINE x == GetLength(sl, p)
  <2>1. x \in Nat /\ x >= 1 /\ x >= 2
    BY <1>1
  <2> HIDE DEF x
  <2>2. (x \div 2) \in Nat /\ (x \div 2) >= 1 /\ (x \div 2) < x
    BY <2>1, Half
  <2> QED
    BY <2>2 DEF x
<1>3. /\ sl.nodes[0].key \in RingKeys /\ sl.nodes[p].key \in RingKeys
      /\ Offset(sl, p) \in RingKeys /\ 0 \in Positions(sl)
    BY <1>1, NodeType
<1> HIDE DEF h, p
<1>4. Offset(sl, p) + h < MAX_KEY
  <2>1. CASE p = n - 1
    <3>1. GetLength(sl, p) = MAX_KEY - Offset(sl, p)
      BY <2>1, <1>1, LengthIsGap
    <3> QED
      BY <3>1, <1>2, <1>3, MaxKeyAssumption DEF RingKeys
  <2>2. CASE p # n - 1
    <3>1. GetLength(sl, p) = Offset(sl, p + 1) - Offset(sl, p)
      BY <2>2, <1>1, LengthIsGap
    <3>2. p + 1 \in Positions(sl)
      BY <2>2, <1>1 DEF Positions
    <3>3. Offset(sl, p + 1) \in RingKeys
      BY <3>2, NodeType
    <3> QED
      BY <3>1, <3>3, <1>2, <1>3, MaxKeyAssumption DEF RingKeys
  <2> QED
    BY <2>1, <2>2
<1>5. key \in RingKeys /\ Dist(sl.nodes[0].key, key) = Offset(sl, p) + h
  <2>1. Dist(sl.nodes[0].key, sl.nodes[p].key) + h < MAX_KEY
    BY <1>4 DEF Offset
  <2> QED
    BY <2>1, <1>2, <1>3, DistAdvance DEF Offset
<1> HIDE DEF key
<1>6. /\ new = [version |-> new.version, num |-> new.num, nodes |-> new.nodes]
      /\ new.version \in 0..(UINT_RANGE - 1) /\ new.num = n + 1
      /\ new.nodes = [i \in 0..n |-> IF i < p + 1 THEN sl.nodes[i]
                                     ELSE IF i = p + 1 THEN sn
                                     ELSE sl.nodes[i - 1]]
  <2>1. new = AddNewSlave(sl, p + 1, sn)
    BY DEF AddToSlaveList, NewPos, NewKey, p, h, key
  <2> QED
    BY <2>1, AddFields
<1> HIDE DEF new
<1>7. sn \in SlaveNode(S)
    BY <1>5 DEF SlaveNode
<1>8. \A i \in 0..(n - 1) : sl.nodes[i] \in SlaveNode(S)
    BY DEF IsSlaveList
<1>9. new.nodes \in [0..n -> SlaveNode(S)]
    BY <1>1, <1>6, <1>7, <1>8
<1>10. IsSlaveList(new, S)
    BY <1>1, <1>6, <1>9 DEF IsSlaveList
<1> DEFINE old(i) == IF i < p + 1 THEN i ELSE i - 1
<1>11. /\ Positions(new) = 0..n /\ new.nodes[0] = sl.nodes[0]
       /\ new.nodes[p + 1] = sn
       /\ \A i \in Positions(new) : i # p + 1 =>
             new.nodes[i] = sl.nodes[old(i)] /\ old(i) \in Positions(sl)
    BY <1>1, <1>6 DEF Positions
<1>12. Ordered(new)
  <2> SUFFICES ASSUME NEW i \in Positions(new), NEW j \in Positions(new), i < j
               PROVE  /\ new.nodes[i].id # new.nodes[j].id
                      /\ Dist(sl.nodes[0].key, new.nodes[i].key)
                           < Dist(sl.nodes[0].key, new.nodes[j].key)
    BY <1>11 DEF Ordered
  <2>1. i \in 0..n /\ j \in 0..n
    BY <1>11
  <2>2. CASE i # p + 1 /\ j # p + 1
    <3>1. old(i) < old(j) /\ old(i) \in Positions(sl) /\ old(j) \in Positions(sl)
      BY <2>1, <2>2, <1>1, <1>11
    <3> QED
      BY <3>1, <2>2, <1>11 DEF Ordered
  <2>3. CASE i = p + 1
    <3>1. j # p + 1 /\ j - 1 \in Positions(sl) /\ old(j) = j - 1 /\ p < j - 1
      BY <2>1, <2>3, <1>1 DEF Positions
    <3>2. new.nodes[j] = sl.nodes[j - 1] /\ new.nodes[i] = sn
      BY <3>1, <2>3, <1>11
    <3>3. p # n - 1 /\ p + 1 \in Positions(sl) /\ (p + 1 < j - 1 \/ p + 1 = j - 1)
      BY <3>1, <2>1, <2>3, <1>1 DEF Positions
    <3>4. GetLength(sl, p) = Offset(sl, p + 1) - Offset(sl, p)
      BY <3>3, <1>1, LengthIsGap
    <3>5. Offset(sl, p + 1) <= Offset(sl, j - 1)
          /\ Offset(sl, p + 1) \in RingKeys /\ Offset(sl, j - 1) \in RingKeys
      <4>1. Offset(sl, p + 1) \in RingKeys /\ Offset(sl, j - 1) \in RingKeys
        BY <3>1, <3>3, NodeType
      <4>2. CASE p + 1 < j - 1
        BY <4>1, <4>2, <3>1, <3>3 DEF Ordered, Offset, RingKeys
      <4>3. CASE p + 1 = j - 1
        BY <4>1, <4>3 DEF RingKeys
      <4> QED
        BY <4>1, <4>2, <4>3, <3>3
    <3>6. Offset(sl, p) + h < Offset(sl, j - 1)
      BY <3>4, <3>5, <1>1, <1>2, <1>3, MaxKeyAssumption DEF RingKeys
    <3>7. sl.nodes[j - 1].id # s
      BY <3>1 DEF Members
    <3> QED
      BY <3>2, <3>6, <3>7, <1>5 DEF Offset
  <2>4. CASE j = p + 1
    <3>1. i # p + 1 /\ i \in Positions(sl) /\ old(i) = i /\ (i < p \/ i = p)
      BY <2>1, <2>4, <1>1 DEF Positions
    <3>2. new.nodes[i] = sl.nodes[i] /\ new.nodes[j] = sn
      BY <3>1, <2>4, <1>11
    <3>3. Offset(sl, i) \in RingKeys /\ Offset(sl, i) <= Offset(sl, p)
      <4>1. Offset(sl, i) \in RingKeys
        BY <3>1, NodeType
      <4>2. CASE i < p
        BY <4>1, <4>2, <3>1, <1>1, <1>3 DEF Ordered, Offset, RingKeys
      <4>3. CASE i = p
        BY <4>1, <4>3 DEF RingKeys
      <4> QED
        BY <4>1, <4>2, <4>3, <3>1
    <3>4. Offset(sl, i) < Offset(sl, p) + h
      BY <3>3, <1>2, <1>3, MaxKeyAssumption DEF RingKeys
    <3>5. sl.nodes[i].id # s
      BY <3>1 DEF Members
    <3> QED
      BY <3>2, <3>4, <3>5, <1>5 DEF Offset
  <2> QED
    BY <2>2, <2>3, <2>4
<1> QED
    BY <1>10, <1>12 DEF new

\* DelFromSlaveList takes a node out of the order.  When that is node 0, the
\* distances are counted from the former node 1.
LEMMA DelOrdered ==
    ASSUME NEW S, NEW sl, IsSlaveList(sl, S), Ordered(sl),
           NEW pos \in Positions(sl)
    PROVE  LET new == DelFromSlaveList(sl, pos)
           IN  IsSlaveList(new, S) /\ Ordered(new)
<1> DEFINE new == DelFromSlaveList(sl, pos)
           n == sl.num
           old(i) == IF i < pos THEN i ELSE i + 1
<1>1. n \in Nat \ {0} /\ pos \in 0..(n - 1) /\ 0 \in Positions(sl)
    BY NodeType DEF Positions
<1>2. (sl.version + 1) % UINT_RANGE \in 0..(UINT_RANGE - 1)
    BY VersionRange DEF IsSlaveList
<1>3. /\ new = [version |-> new.version, num |-> new.num, nodes |-> new.nodes]
      /\ new.version \in 0..(UINT_RANGE - 1) /\ new.num = n - 1
      /\ new.nodes = [i \in 0..(n - 2) |-> IF i < pos THEN sl.nodes[i]
                                           ELSE sl.nodes[i + 1]]
    BY <1>2 DEF DelFromSlaveList
<1> HIDE DEF new
<1>4. /\ Positions(new) = 0..(n - 2)
      /\ \A i \in Positions(new) :
            new.nodes[i] = sl.nodes[old(i)] /\ old(i) \in Positions(sl)
      /\ \A i, j \in Positions(new) : i < j => old(i) < old(j)
    BY <1>1, <1>3 DEF Positions
<1>5. \A i \in Positions(sl) : sl.nodes[i] \in SlaveNode(S)
    BY DEF IsSlaveList, Positions
<1>6. new.nodes \in [0..(new.num - 1) -> SlaveNode(S)]
  <2>1. n - 2 = (n - 1) - 1
    BY <1>1
  <2> QED
    BY <2>1, <1>3, <1>4, <1>5
<1>7. IsSlaveList(new, S)
    BY <1>1, <1>3, <1>6 DEF IsSlaveList
<1>8. Ordered(new)
  <2> SUFFICES ASSUME NEW i \in Positions(new), NEW j \in Positions(new), i < j
               PROVE  /\ new.nodes[i].id # new.nodes[j].id
                      /\ Dist(new.nodes[0].key, new.nodes[i].key)
                           < Dist(new.nodes[0].key, new.nodes[j].key)
    BY DEF Ordered
  <2> DEFINE z == old(0)
             a == old(i)
             b == old(j)
  <2>1. 0 \in Positions(new) /\ (i = 0 \/ 0 < i) /\ (j = 0 \/ 0 < j)
    BY <1>4, <1>1
  <2>2. /\ new.nodes[0] = sl.nodes[z] /\ z \in Positions(sl)
        /\ new.nodes[i] = sl.nodes[a] /\ a \in Positions(sl)
        /\ new.nodes[j] = sl.nodes[b] /\ b \in Positions(sl)
        /\ a < b /\ (z = a \/ z < a) /\ (z = b \/ z < b)
    BY <2>1, <1>4
  <2> HIDE DEF z, a, b
  <2>3. sl.nodes[a].id # sl.nodes[b].id /\ Offset(sl, a) < Offset(sl, b)
    BY <2>2 DEF Ordered, Offset
  <2>4. /\ Offset(sl, z) \in RingKeys /\ Offset(sl, a) \in RingKeys
        /\ Offset(sl, b) \in RingKeys
        /\ sl.nodes[z].key \in RingKeys /\ sl.nodes[a].key \in RingKeys
        /\ sl.nodes[b].key \in RingKeys /\ sl.nodes[0].key \in RingKeys
    BY <2>2, <1>1, NodeType
  <2>5. Offset(sl, z) <= Offset(sl, a) /\ Offset(sl, z) <= Offset(sl, b)
    <3>1. CASE z = a
      BY <3>1, <2>3, <2>4 DEF RingKeys
    <3>2. CASE z < a
      <4>1. Offset(sl, z) < Offset(sl, a)
        BY <3>2, <2>2 DEF Ordered, Offset
      <4> QED
        BY <4>1, <2>3, <2>4 DEF RingKeys
    <3> QED
      BY <3>1, <3>2, <2>2
  <2>6. Dist(sl.nodes[z].key, sl.nodes[a].key) = Offset(sl, a) - Offset(sl, z)
    BY <2>2, <2>5, OffsetDist
  <2>7. Dist(sl.nodes[z].key, sl.nodes[b].key) = Offset(sl, b) - Offset(sl, z)
    BY <2>2, <2>5, OffsetDist
  <2>8. Offset(sl, a) - Offset(sl, z) < Offset(sl, b) - Offset(sl, z)
    BY <2>3, <2>4, MaxKeyAssumption DEF RingKeys
  <2> QED
    BY <2>2, <2>3, <2>6, <2>7, <2>8
<1> QED
    BY <1>7, <1>8 DEF new

-----------------------------------------------------------------------------
(* Which section a key falls into.                                         *)

\* GetSocket's conditions, in distances from node 0, for the section of a
\* node that is not the last: its two ends are at increasing distances.
LEMMA SectionInner ==
    ASSUME NEW a \in RingKeys, NEW lo \in RingKeys, NEW up \in RingKeys,
           NEW x \in RingKeys, Dist(a, lo) < Dist(a, up)
    PROVE  /\ lo # up
           /\ InSection(lo, x, up)
                <=> Dist(a, lo) < Dist(a, x) /\ Dist(a, x) <= Dist(a, up)
BY MaxKeyAssumption DEF InSection, Dist, RingKeys

\* The same for the section of the last node, which ends at node 0.
LEMMA SectionLast ==
    ASSUME NEW a \in RingKeys, NEW lo \in RingKeys, NEW x \in RingKeys, lo # a
    PROVE  InSection(lo, x, a) <=> Dist(a, lo) < Dist(a, x) \/ Dist(a, x) = 0
BY MaxKeyAssumption DEF InSection, Dist, RingKeys

\* The sections of a list of two or more nodes, in offsets.
LEMMA SectionByOffset ==
    ASSUME NEW S, NEW sl, IsSlaveList(sl, S), Ordered(sl), sl.num > 1,
           NEW x \in RingKeys, NEW i \in Positions(sl)
    PROVE  LET d == Dist(sl.nodes[0].key, x)
           IN  /\ Lower(sl, i) # Upper(sl, i)
               /\ InSection(Lower(sl, i), x, Upper(sl, i)) <=>
                     IF i = sl.num - 1 THEN Offset(sl, i) < d \/ d = 0
                     ELSE Offset(sl, i) < d /\ d <= Offset(sl, i + 1)
<1> DEFINE a == sl.nodes[0].key
           lo == sl.nodes[i].key
<1>1. /\ sl.num \in Nat \ {0} /\ 0 \in Positions(sl)
      /\ a \in RingKeys /\ lo \in RingKeys /\ Offset(sl, 0) = 0
      /\ Offset(sl, i) \in RingKeys
      /\ (i + 1) % sl.num = IF i = sl.num - 1 THEN 0 ELSE i + 1
    BY NodeType
<1>2. CASE i = sl.num - 1
  <2>1. Upper(sl, i) = a /\ Lower(sl, i) = lo
    BY <1>1, <1>2 DEF Upper, Lower
  <2>2. 0 < i
    BY <1>1, <1>2
  <2>3. Offset(sl, 0) < Offset(sl, i)
    BY <1>1, <2>2 DEF Ordered, Offset
  <2>4. lo # a
    BY <2>3, <1>1 DEF Offset, RingKeys
  <2>5. InSection(lo, x, a) <=> Dist(a, lo) < Dist(a, x) \/ Dist(a, x) = 0
    <3> HIDE DEF a, lo
    <3> QED
      BY <2>4, <1>1, SectionLast
  <2> QED
    BY <2>1, <2>4, <2>5, <1>2 DEF Offset
<1>3. CASE i # sl.num - 1
  <2> DEFINE up == sl.nodes[i + 1].key
  <2>1. /\ Upper(sl, i) = up /\ Lower(sl, i) = lo
        /\ i + 1 \in Positions(sl) /\ i < i + 1
    BY <1>1, <1>3 DEF Upper, Lower, Positions
  <2>2. up \in RingKeys
    BY <2>1, NodeType
  <2>3. Dist(a, lo) < Dist(a, up)
    BY <2>1 DEF Ordered
  <2>4. /\ lo # up
        /\ InSection(lo, x, up)
             <=> Dist(a, lo) < Dist(a, x) /\ Dist(a, x) <= Dist(a, up)
    <3> HIDE DEF a, lo, up
    <3> QED
      BY <2>2, <2>3, <1>1, SectionInner
  <2> QED
    BY <2>1, <2>4, <1>3 DEF Offset
<1> QED
    BY <1>2, <1>3

\* Every key of the ring falls into one section: that of the last node whose
\* offset is smaller than the key's, or, for the key of node 0 itself, the
\* section of the last node.
LEMMA OneHolder ==
    ASSUME NEW S, NEW sl, IsSlaveList(sl, S), Ordered(sl), sl.num > 0,
           NEW x \in RingKeys
    PROVE  \E i \in Positions(sl) : Holders(sl, x) = {i}
<1> DEFINE In(i) == InSection(Lower(sl, i), x, Upper(sl, i))
           d == Dist(sl.nodes[0].key, x)
           n == sl.num
           Off(i) == Offset(sl, i)
<1>1. n \in Nat \ {0} /\ Positions(sl) = 0..(n - 1) /\ 0 \in Positions(sl)
    BY DEF IsSlaveList, Positions
<1>2. Holders(sl, x) = {i \in Positions(sl) : In(i)}
  <2>1. x % MAX_KEY = x
    BY ModOnce, MaxKeyAssumption DEF RingKeys
  <2> QED
    BY <2>1 DEF Holders
<1> SUFFICES \E i \in Positions(sl) : \A j \in Positions(sl) : In(j) <=> j = i
    BY <1>2
<1>3. /\ \A i \in Positions(sl) : Off(i) \in RingKeys
      /\ Off(0) = 0 /\ d \in RingKeys
  <2>1. sl.nodes[0].key \in RingKeys
    BY <1>1, NodeType
  <2> QED
    BY <2>1, <1>1, NodeType, DistFacts
<1>4. CASE n = 1
  <2>1. Positions(sl) = {0} /\ (0 + 1) % n = 0
    BY <1>1, <1>4, NodeType
  <2>2. In(0)
    BY <2>1 DEF InSection, Lower, Upper
  <2> QED
    BY <2>1, <2>2
<1>5. CASE n > 1
  <2>1. \A i \in Positions(sl) :
           In(i) <=> IF i = n - 1 THEN Off(i) < d \/ d = 0
                     ELSE Off(i) < d /\ d <= Off(i + 1)
    BY <1>5, SectionByOffset
  <2>2. \A i, j \in Positions(sl) : i < j => Off(i) < Off(j)
    BY DEF Ordered, Offset
  <2> HIDE DEF In, Off, d, n
  <2>3. CASE d = 0
    <3>1. n - 1 \in Positions(sl) /\ In(n - 1)
      BY <2>1, <2>3, <1>1
    <3>2. \A j \in Positions(sl) : In(j) => j = n - 1
      BY <2>1, <2>3, <1>3 DEF RingKeys
    <3> QED
      BY <3>1, <3>2
  <2>4. CASE d # 0
    <3> DEFINE T == {n - i : i \in {j \in Positions(sl) : Off(j) < d}}
    <3>1. T \subseteq Nat
      BY <1>1
    <3>2. n - 0 \in T
      BY <1>1, <1>3, <2>4 DEF RingKeys
    <3>3. PICK t \in T : \A y \in T : t <= y
      BY <3>1, <3>2, NatMinimum
    <3>4. PICK i \in Positions(sl) : t = n - i /\ Off(i) < d
      BY <3>3
    <3>5. \A j \in Positions(sl) : Off(j) < d => j <= i
      <4>1. \A j \in Positions(sl) : Off(j) < d => n - i <= n - j
        BY <3>3, <3>4
      <4> QED
        BY <4>1, <1>1
    <3>6. In(i)
      <4>1. CASE i = n - 1
        BY <4>1, <3>4, <2>1
      <4>2. CASE i # n - 1
        <5>1. i + 1 \in Positions(sl) /\ ~(i + 1 <= i)
          BY <4>2, <1>1
        <5>2. ~(Off(i + 1) < d)
          BY <5>1, <3>5
        <5> QED
          BY <5>1, <5>2, <4>2, <3>4, <2>1, <1>3, MaxKeyAssumption DEF RingKeys
      <4> QED
        BY <4>1, <4>2
    <3>7. ASSUME NEW j \in Positions(sl), In(j)
          PROVE  j = i
      <4>1. Off(j) < d
        BY <3>7, <2>1, <2>4
      <4>2. j <= i
        BY <4>1, <3>5
      <4>3. CASE j < i
        <5>1. j # n - 1 /\ j + 1 \in Positions(sl) /\ (j + 1 = i \/ j + 1 < i)
          BY <4>3, <1>1
        <5>2. d <= Off(j + 1)
          BY <5>1, <3>7, <2>1
        <5>3. Off(j + 1) = Off(i) \/ Off(j + 1) < Off(i)
          BY <5>1, <2>2
        <5> QED
          BY <5>1, <5>2, <5>3, <3>4, <1>3, MaxKeyAssumption DEF RingKeys
      <4> QED
        BY <4>2, <4>3, <1>1
    <3> QED
      BY <3>6, <3>7
  <2> QED
    BY <2>3, <2>4
<1> QED
    BY <1>1, <1>4, <1>5

\* For the keys of the ring, the records that SplitByKey takes for a section
\* are those that GetSocket sends to its slave.
LEMMA SplitIsRouting ==
    ASSUME NEW S, NEW sl, IsSlaveList(sl, S), Ordered(sl), sl.num > 1,
           NEW x \in RingKeys, NEW i \in Positions(sl)
    PROVE  SplitTakes(Lower(sl, i), x, Upper(sl, i)) <=> GetSocket(sl, x) = i
<1>1. PICK o \in Positions(sl) : Holders(sl, x) = {o}
  <2>1. sl.num > 0
    BY DEF IsSlaveList
  <2> QED
    BY <2>1, OneHolder
<1>2. GetSocket(sl, x) = o
    BY <1>1 DEF GetSocket, Positions, IsSlaveList
<1>3. x % MAX_KEY = x
    BY ModOnce, MaxKeyAssumption DEF RingKeys
<1>4. InSection(Lower(sl, i), x, Upper(sl, i)) <=> i = o
    BY <1>1, <1>3 DEF Holders
<1>5. Lower(sl, i) # Upper(sl, i)
    BY SectionByOffset
<1>6. Lower(sl, i) \in RingKeys /\ Upper(sl, i) \in RingKeys
  <2>1. (i + 1) % sl.num \in Positions(sl)
    BY NodeType DEF Positions
  <2> QED
    BY <2>1, NodeType DEF Lower, Upper
<1>7. SplitTakes(Lower(sl, i), x, Upper(sl, i))
        <=> InSection(Lower(sl, i), x, Upper(sl, i))
    BY <1>5, <1>6 DEF SplitTakes, InSection, RingKeys
<1> QED
    BY <1>2, <1>4, <1>7

-----------------------------------------------------------------------------
(* Which keys move when the list changes.                                  *)

\* The neighbours of a position.
LEMMA Neighbours ==
    ASSUME NEW n \in Nat \ {0}, NEW i \in 0..(n - 1)
    PROVE  /\ (i + 1) % n = IF i = n - 1 THEN 0 ELSE i + 1
           /\ (i + n - 1) % n = IF i = 0 THEN n - 1 ELSE i - 1
<1>1. PICK x, y : x = i + 1 /\ y = i + n - 1
    OBVIOUS
<1>2. x \in Nat /\ x < 2 * n /\ y \in Nat /\ y < 2 * n
    BY <1>1
<1>3. x % n = (IF x < n THEN x ELSE x - n) /\ y % n = (IF y < n THEN y ELSE y - n)
    BY <1>2, ModOnce
<1> QED
    BY <1>1, <1>3

\* The one position whose section holds a key is where clients find it.
LEMMA SocketIs ==
    ASSUME NEW S, NEW sl, IsSlaveList(sl, S), Ordered(sl), NEW x \in RingKeys,
           NEW i \in Positions(sl), InSection(Lower(sl, i), x, Upper(sl, i))
    PROVE  GetSocket(sl, x) = i
<1>1. PICK o \in Positions(sl) : Holders(sl, x) = {o}
  <2>1. sl.num > 0
      BY NodeType
  <2> QED
      BY <2>1, OneHolder
<1>2. GetSocket(sl, x) = o
    BY <1>1 DEF GetSocket, Positions, IsSlaveList
<1>3. x % MAX_KEY = x
    BY ModOnce, MaxKeyAssumption DEF RingKeys
<1>4. i \in Holders(sl, x)
    BY <1>3 DEF Holders
<1> QED
    BY <1>1, <1>2, <1>4

\* GetSocket finds a position whose section holds the key.
LEMMA SocketHolds ==
    ASSUME NEW S, NEW sl, IsSlaveList(sl, S), Ordered(sl), sl.num > 0,
           NEW x \in RingKeys
    PROVE  /\ GetSocket(sl, x) \in Positions(sl)
           /\ InSection(Lower(sl, GetSocket(sl, x)), x, Upper(sl, GetSocket(sl, x)))
<1>1. PICK o \in Positions(sl) : Holders(sl, x) = {o}
    BY OneHolder
<1>2. GetSocket(sl, x) = o
    BY <1>1 DEF GetSocket, Positions, IsSlaveList
<1>3. x % MAX_KEY = x
    BY ModOnce, MaxKeyAssumption DEF RingKeys
<1> QED
    BY <1>1, <1>2, <1>3 DEF Holders

\* A key k inside a section splits it in two: each part lies within it.
LEMMA SectionParts ==
    ASSUME NEW lo \in RingKeys, NEW k \in RingKeys, NEW up \in RingKeys,
           NEW x \in RingKeys, lo # k, lo = up \/ Dist(lo, k) < Dist(lo, up)
    PROVE  InSection(lo, x, k) \/ InSection(k, x, up) => InSection(lo, x, up)
BY MaxKeyAssumption DEF InSection, Dist, RingKeys

\* The key of a joining slave lies inside the longest section.
LEMMA NewKeyInside ==
    ASSUME NEW S, NEW sl, IsSlaveList(sl, S), Ordered(sl), sl.num # 0,
           sl.num < MAX_KEY, NEW first
    PROVE  LET p == FindLongestSection(sl)
           IN  /\ NewKey(sl, first) \in RingKeys
               /\ NewKey(sl, first) # Lower(sl, p)
               /\ \/ Lower(sl, p) = Upper(sl, p)
                  \/ Dist(Lower(sl, p), NewKey(sl, first)) < Dist(Lower(sl, p), Upper(sl, p))
<1>1. PICK p : p = FindLongestSection(sl)
    OBVIOUS
<1>2. PICK len \in 1..MAX_KEY : len = GetLength(sl, p) /\ len >= 2 /\ p \in Positions(sl)
    BY <1>1, LongestExists, LengthIsGap, LongestHasRoom
<1>3. (p + 1) % sl.num \in Positions(sl)
  <2>1. PICK n \in Nat \ {0} : n = sl.num /\ p \in 0..(n - 1)
      BY <1>2, NodeType DEF Positions
  <2>2. (p + 1) % n = IF p = n - 1 THEN 0 ELSE p + 1
      BY <2>1, Neighbours
  <2> QED
      BY <2>1, <2>2 DEF Positions
<1>4. PICK lo \in RingKeys, up \in RingKeys : lo = Lower(sl, p) /\ up = Upper(sl, p)
    BY <1>2, <1>3, NodeType DEF Lower, Upper
<1>5. len = IF lo = up THEN MAX_KEY ELSE Dist(lo, up)
  <2>1. len = ((up - lo + MAX_KEY - 1) % MAX_KEY) + 1
      BY <1>2, <1>4 DEF GetLength, Lower, Upper
  <2> QED
      BY <2>1, LengthIsDist
<1>6. PICK h \in Nat : h = len \div 2 /\ h >= 1 /\ h < len
    BY <1>2, Half
<1>7. NewKey(sl, first) = (h + lo) % MAX_KEY
    BY <1>1, <1>2, <1>4, <1>6 DEF NewKey, Lower
<1>8. Dist(lo, lo) = 0
    BY DEF Dist, RingKeys
<1>9. (h + lo) % MAX_KEY \in RingKeys /\ Dist(lo, (h + lo) % MAX_KEY) = h
  <2>1. h < MAX_KEY
      BY <1>2, <1>6, MaxKeyAssumption
  <2> QED
      BY <1>8, <2>1, DistAdvance
<1>10. (h + lo) % MAX_KEY # lo
    BY <1>6, <1>8, <1>9
<1> QED
    BY <1>1, <1>4, <1>5, <1>6, <1>7, <1>9, <1>10

\* A join takes keys from the predecessor of the new node only.
LEMMA AddMoves ==
    ASSUME NEW S, NEW sl, IsSlaveList(sl, S), Ordered(sl),
           sl.num # 0, sl.num < MAX_KEY,
           NEW s \in S, s \notin Members(sl), NEW first, NEW x \in RingKeys
    PROVE  LET new == AddToSlaveList(sl, s, first)
           IN  \/ Owner(new, x) = Owner(sl, x)
               \/ /\ Owner(new, x) = s
                  /\ new.nodes[GetSocket(new, x) - 1].id = Owner(sl, x)
<1>1. PICK new : new = AddToSlaveList(sl, s, first)
    OBVIOUS
<1>2. IsSlaveList(new, S) /\ Ordered(new)
    BY <1>1, AddOrdered
<1>3. PICK p \in Positions(sl), k \in RingKeys :
         /\ p = FindLongestSection(sl) /\ k = NewKey(sl, first)
         /\ k # Lower(sl, p)
         /\ Lower(sl, p) = Upper(sl, p) \/ Dist(Lower(sl, p), k) < Dist(Lower(sl, p), Upper(sl, p))
    BY LongestExists, NewKeyInside
<1>4. PICK n \in Nat \ {0} : n = sl.num
    BY DEF IsSlaveList
<1>5. /\ new.num = n + 1
      /\ new.nodes = [i \in 0..n |-> IF i < p + 1 THEN sl.nodes[i]
                                     ELSE IF i = p + 1 THEN [id |-> s, key |-> k]
                                     ELSE sl.nodes[i - 1]]
  <2>1. new = AddNewSlave(sl, p + 1, [id |-> s, key |-> k])
      BY <1>1, <1>3, <1>4 DEF AddToSlaveList, NewPos
  <2> QED
      BY <1>4, <2>1, AddFields
<1>6. /\ p \in 0..(n - 1) /\ Positions(sl) = 0..(n - 1) /\ Positions(new) = 0..n
      /\ new.nodes[p + 1] = [id |-> s, key |-> k]
      /\ \A i \in 0..n : i < p + 1 => new.nodes[i] = sl.nodes[i]
      /\ \A i \in 0..n : i > p + 1 => new.nodes[i] = sl.nodes[i - 1]
    BY <1>3, <1>4, <1>5 DEF Positions
<1>7. PICK j \in 0..n : j = GetSocket(new, x) /\ InSection(Lower(new, j), x, Upper(new, j))
    BY <1>2, <1>5, <1>6, SocketHolds
<1>8. PICK i \in 0..(n - 1) : i = IF j < p + 1 THEN j ELSE j - 1
    BY <1>6, <1>7
<1>9. InSection(Lower(sl, i), x, Upper(sl, i))
  <2>0. /\ n \in Nat /\ p \in Nat /\ p <= n - 1 /\ j \in Nat /\ j <= n
        /\ i \in Nat /\ i <= n - 1 /\ i = IF j < p + 1 THEN j ELSE j - 1
      BY <1>4, <1>6, <1>7, <1>8
  <2>1. PICK u, v : /\ u = IF j = n THEN 0 ELSE j + 1
                    /\ v = IF i = n - 1 THEN 0 ELSE i + 1
      OBVIOUS
  <2>2. u \in Nat /\ u <= n /\ v \in Nat /\ v <= n - 1
      BY <2>0, <2>1
  <2>3. /\ Lower(new, j) = new.nodes[j].key /\ Upper(new, j) = new.nodes[u].key
        /\ Lower(sl, i) = sl.nodes[i].key /\ Upper(sl, i) = sl.nodes[v].key
    <3>1. PICK m \in Nat \ {0} : m = n + 1
        BY <2>0
    <3>2. j \in 0..(m - 1) /\ m - 1 = n
        BY <2>0, <3>1
    <3>3. (j + 1) % m = IF j = m - 1 THEN 0 ELSE j + 1
        BY <3>1, <3>2, Neighbours
    <3>4. (i + 1) % n = IF i = n - 1 THEN 0 ELSE i + 1
        BY <1>4, <1>8, Neighbours
    <3>5. (j + 1) % new.num = u /\ (i + 1) % sl.num = v
        BY <1>4, <1>5, <2>1, <3>1, <3>2, <3>3, <3>4, Zenon
    <3> QED
        BY <3>5 DEF Lower, Upper
  <2>4. Lower(sl, i) \in RingKeys /\ Upper(sl, i) \in RingKeys
    <3>1. i \in Positions(sl) /\ v \in Positions(sl)
        BY <1>6, <2>0, <2>2
    <3> QED
        BY <2>3, <3>1, NodeType
  <2>5. CASE j = p
    <3>1. i = p /\ u = p + 1
        BY <2>0, <2>1, <2>5
    <3>2. Lower(sl, p) = Lower(sl, i) /\ Lower(new, j) = Lower(sl, p) /\ Upper(new, j) = k
        BY <1>6, <2>0, <2>3, <2>5, <3>1
    <3> QED
        BY <1>3, <1>7, <2>4, <3>1, <3>2, SectionParts
  <2>6. CASE j = p + 1
    <3>1. i = p /\ (u = 0 => v = 0) /\ (u # 0 => u > p + 1 /\ v = u - 1)
        BY <2>0, <2>1, <2>6
    <3>2. new.nodes[u] = sl.nodes[v]
      <4>1. CASE u = 0
          BY <1>6, <2>0, <3>1, <4>1
      <4>2. CASE u # 0
          BY <1>6, <2>2, <3>1, <4>2
      <4> QED
          BY <4>1, <4>2
    <3>3. Lower(new, j) = k /\ Upper(new, j) = Upper(sl, i)
        BY <1>6, <2>3, <2>6, <3>2
    <3> QED
        BY <1>3, <1>7, <2>4, <3>1, <3>3, SectionParts
  <2>7. CASE j # p /\ j # p + 1
    <3>1. /\ u # p + 1 /\ (u < p + 1 => v = u) /\ (u > p + 1 => v = u - 1)
      <4>1. CASE j < p
          BY <2>0, <2>1, <4>1
      <4>2. CASE j > p + 1 /\ j = n
          BY <2>0, <2>1, <4>2
      <4>3. CASE j > p + 1 /\ j # n
          BY <2>0, <2>1, <4>3
      <4> QED
          BY <2>0, <2>7, <4>1, <4>2, <4>3
    <3>2. new.nodes[u] = sl.nodes[v]
      <4>1. CASE u < p + 1
          BY <1>6, <2>2, <3>1, <4>1
      <4>2. CASE u > p + 1
          BY <1>6, <2>0, <2>2, <3>1, <4>2, SMTT(30)
      <4> QED
          BY <2>0, <2>2, <3>1, <4>1, <4>2
    <3>3. new.nodes[j] = sl.nodes[i]
      <4>1. CASE j < p + 1
          BY <1>6, <2>0, <4>1
      <4>2. CASE j > p + 1
          BY <1>6, <2>0, <4>2
      <4> QED
          BY <2>0, <2>7, <4>1, <4>2
    <3> QED
        BY <1>7, <2>3, <3>2, <3>3
  <2> QED
      BY <2>5, <2>6, <2>7
<1>10. GetSocket(sl, x) = i
    BY <1>6, <1>9, SocketIs
<1>11. CASE j = p + 1
  <2>1. i = p /\ new.nodes[j].id = s /\ new.nodes[j - 1] = sl.nodes[i]
      BY <1>6, <1>8, <1>11
  <2> QED
      BY <1>1, <1>7, <1>10, <2>1 DEF Owner
<1>12. CASE j # p + 1
  <2>1. new.nodes[j] = sl.nodes[i]
      BY <1>6, <1>8, <1>12
  <2> QED
      BY <1>1, <1>7, <1>10, <2>1 DEF Owner
<1> QED
    BY <1>11, <1>12

\* The sections next to each other: the key of a node lies inside the section
\* that its predecessor has once it is gone.
LEMMA NodeInside ==
    ASSUME NEW S, NEW sl, IsSlaveList(sl, S), Ordered(sl),
           NEW n \in Nat, n = sl.num, n > 1,
           NEW b \in 0..(n - 1), NEW a, a = IF b = 0 THEN n - 1 ELSE b - 1,
           NEW c, c = IF b = n - 1 THEN 0 ELSE b + 1
    PROVE  /\ a \in Positions(sl) /\ c \in Positions(sl)
           /\ sl.nodes[a].key # sl.nodes[b].key
           /\ \/ sl.nodes[a].key = sl.nodes[c].key
              \/ Dist(sl.nodes[a].key, sl.nodes[b].key) < Dist(sl.nodes[a].key, sl.nodes[c].key)
<1>1. /\ a \in Positions(sl) /\ b \in Positions(sl) /\ c \in Positions(sl)
      /\ 0 \in Positions(sl) /\ Positions(sl) = 0..(n - 1)
    BY DEF Positions
<1>2. PICK z \in RingKeys, ka \in RingKeys, kb \in RingKeys, kc \in RingKeys :
         /\ z = sl.nodes[0].key /\ ka = sl.nodes[a].key
         /\ kb = sl.nodes[b].key /\ kc = sl.nodes[c].key
    BY <1>1, NodeType
<1>3. /\ a < b => Dist(z, ka) < Dist(z, kb)
      /\ b < a => Dist(z, kb) < Dist(z, ka)
      /\ b < c => Dist(z, kb) < Dist(z, kc)
      /\ c < a => Dist(z, kc) < Dist(z, ka)
      /\ a < c => Dist(z, ka) < Dist(z, kc)
    BY <1>1, <1>2 DEF Ordered
<1>4. (a = 0 => ka = z) /\ (b = 0 => kb = z) /\ (c = 0 => kc = z) /\ (a = c => ka = kc)
    BY <1>2
<1>5. b \in Nat /\ b <= n - 1 /\ Dist(z, ka) \in Int
    BY MaxKeyAssumption DEF Dist, RingKeys
<1>6. ka # kb /\ (ka = kc \/ Dist(ka, kb) < Dist(ka, kc))
  <2>1. CASE b = 0
    <3>1. b < a /\ kb = z /\ b < c /\ (a = c \/ c < a)
        BY <1>4, <1>5, <2>1
    <3>2. CASE a = c
        BY <1>3, <1>4, <1>5, <3>1, <3>2
    <3>3. CASE c < a
      <4>1. Dist(z, kb) < Dist(z, kc) /\ Dist(z, kc) < Dist(z, ka)
          BY <1>3, <3>1, <3>3
      <4> QED
          BY <3>1, <4>1, MaxKeyAssumption DEF Dist, RingKeys
    <3> QED
        BY <3>1, <3>2, <3>3
  <2>2. CASE b = n - 1
    <3>1. a < b /\ kc = z /\ (a = c \/ c < a)
        BY <1>4, <1>5, <2>2
    <3>2. CASE a = c
        BY <1>3, <1>4, <1>5, <3>1, <3>2
    <3>3. CASE c < a
      <4>1. Dist(z, kc) < Dist(z, ka) /\ Dist(z, ka) < Dist(z, kb)
          BY <1>3, <3>1, <3>3
      <4> QED
          BY <3>1, <4>1, MaxKeyAssumption DEF Dist, RingKeys
    <3> QED
        BY <3>1, <3>2, <3>3
  <2>3. CASE b # 0 /\ b # n - 1
    <3>1. a < b /\ b < c
        BY <1>5, <2>3
    <3>2. Dist(z, ka) < Dist(z, kb) /\ Dist(z, kb) < Dist(z, kc)
        BY <1>3, <3>1
    <3> QED
        BY <3>2, MaxKeyAssumption DEF Dist, RingKeys
  <2> QED
      BY <2>1, <2>2, <2>3
<1> QED
    BY <1>1, <1>2, <1>6

\* A node that is taken out is not left anywhere else in the list.
LEMMA DelForgets ==
    ASSUME NEW S, NEW sl, IsSlaveList(sl, S), Ordered(sl), NEW pos \in Positions(sl)
    PROVE  sl.nodes[pos].id \notin Members(DelFromSlaveList(sl, pos))
<1>1. PICK new : new = DelFromSlaveList(sl, pos)
    OBVIOUS
<1>2. PICK n \in Nat : n = sl.num
    BY DEF IsSlaveList
<1>3. /\ Positions(sl) = 0..(n - 1) /\ Positions(new) = 0..(n - 2)
      /\ \A j \in 0..(n - 2) : new.nodes[j] = sl.nodes[j] \/ new.nodes[j] = sl.nodes[j + 1]
      /\ \A j \in 0..(n - 2) : j < pos => new.nodes[j] = sl.nodes[j]
      /\ \A j \in 0..(n - 2) : j >= pos => new.nodes[j] = sl.nodes[j + 1]
    BY <1>1, <1>2 DEF Positions, DelFromSlaveList
<1>4. ASSUME NEW j \in Positions(new) PROVE new.nodes[j].id # sl.nodes[pos].id
  <2>1. CASE j < pos
    <3>1. j \in Positions(sl) /\ new.nodes[j] = sl.nodes[j]
        BY <1>2, <1>3, <1>4, <2>1
    <3> QED
        BY <2>1, <3>1 DEF Ordered
  <2>2. CASE j >= pos
    <3>1. PICK k \in Positions(sl) : k = j + 1 /\ pos < k
        BY <1>2, <1>3, <1>4, <2>2
    <3>2. new.nodes[j] = sl.nodes[k]
        BY <1>3, <1>4, <2>2, <3>1
    <3> QED
        BY <3>1, <3>2 DEF Ordered
  <2> QED
      BY <1>2, <1>3, <1>4, <2>1, <2>2
<1> QED
    BY <1>1, <1>4 DEF Members

\* A leave gives the keys of the node to its predecessor only.
LEMMA DelMoves ==
    ASSUME NEW S, NEW sl, IsSlaveList(sl, S), Ordered(sl), sl.num > 1,
           NEW pos \in Positions(sl), NEW x \in RingKeys
    PROVE  LET new == DelFromSlaveList(sl, pos)
           IN  \/ Owner(new, x) = Owner(sl, x)
               \/ /\ GetSocket(sl, x) = pos
                  /\ sl.nodes[(GetSocket(sl, x) + sl.num - 1) % sl.num].id = Owner(new, x)
<1>1. PICK new : new = DelFromSlaveList(sl, pos)
    OBVIOUS
<1>2. IsSlaveList(new, S) /\ Ordered(new)
    BY <1>1, DelOrdered
<1>3. PICK n \in Nat, m \in Nat \ {0} : n = sl.num /\ n > 1 /\ m = n - 1
    BY DEF IsSlaveList
<1>4. PICK i \in Positions(sl) : i = GetSocket(sl, x) /\ InSection(Lower(sl, i), x, Upper(sl, i))
  <2>1. sl.num > 0
      BY <1>3
  <2> QED
      BY <2>1, SocketHolds
<1>5. /\ Positions(sl) = 0..(n - 1) /\ Positions(new) = 0..(m - 1) /\ new.num = m
      /\ \A j \in 0..(m - 1) : j < pos => new.nodes[j] = sl.nodes[j]
      /\ \A j \in 0..(m - 1) : j >= pos => new.nodes[j] = sl.nodes[j + 1]
    BY <1>1, <1>3 DEF Positions, DelFromSlaveList
<1>6. /\ pos \in Nat /\ pos <= n - 1 /\ i \in Nat /\ i <= n - 1
    BY <1>3, <1>4, <1>5
<1>7. PICK a, c : /\ a = IF pos = 0 THEN n - 1 ELSE pos - 1
                  /\ c = IF pos = n - 1 THEN 0 ELSE pos + 1
    OBVIOUS
<1>8. /\ a \in Positions(sl) /\ c \in Positions(sl)
      /\ sl.nodes[a].key # sl.nodes[pos].key
      /\ \/ sl.nodes[a].key = sl.nodes[c].key
         \/ Dist(sl.nodes[a].key, sl.nodes[pos].key) < Dist(sl.nodes[a].key, sl.nodes[c].key)
  <2>1. n \in Nat /\ n = sl.num /\ n > 1 /\ pos \in 0..(n - 1)
      BY <1>3, <1>6
  <2> QED
      BY <1>7, <2>1, NodeInside
\* The old and the new position of the node that has the key afterwards.
<1>9. PICK o, j : /\ o = IF i = pos THEN a ELSE i
                  /\ j = IF o < pos THEN o ELSE o - 1
    OBVIOUS
<1>10. /\ a \in Nat /\ a <= n - 1 /\ a # pos /\ o \in Nat /\ o <= n - 1 /\ o # pos
       /\ j \in Nat /\ j <= m - 1
    BY <1>3, <1>6, <1>7, <1>9
<1>11. new.nodes[j] = sl.nodes[o]
  <2>1. CASE o < pos
      BY <1>3, <1>5, <1>6, <1>9, <1>10, <2>1
  <2>2. CASE o > pos
    <3>1. j \in 0..(m - 1) /\ j >= pos /\ j + 1 = o
        BY <1>3, <1>6, <1>9, <1>10, <2>2
    <3> QED
        BY <1>5, <3>1
  <2> QED
      BY <1>6, <1>10, <2>1, <2>2
\* The ends of the sections.
<1>12. PICK u, v, w : /\ u = IF j = m - 1 THEN 0 ELSE j + 1
                      /\ v = IF o = n - 1 THEN 0 ELSE o + 1
                      /\ w = IF v = pos THEN c ELSE v
    OBVIOUS
<1>13. /\ u \in Nat /\ u <= m - 1 /\ v \in Nat /\ v <= n - 1
       /\ c \in Nat /\ c <= n - 1 /\ c # pos /\ w \in Nat /\ w <= n - 1 /\ w # pos
    BY <1>3, <1>6, <1>7, <1>10, <1>12
<1>14. v = pos <=> o = a
    BY <1>3, <1>6, <1>7, <1>10, <1>12
<1>15. u = IF w < pos THEN w ELSE w - 1
  <2>1. CASE v = pos
    <3>1. o = a
        BY <1>14, <2>1
    <3> QED
        BY <1>3, <1>6, <1>7, <1>9, <1>10, <1>12, <2>1, <3>1
  <2>2. CASE v # pos
      BY <1>3, <1>6, <1>9, <1>10, <1>12, <2>2
  <2> QED
      BY <2>1, <2>2
<1>16. new.nodes[u] = sl.nodes[w]
  <2>1. CASE w < pos
      BY <1>3, <1>5, <1>6, <1>13, <1>15, <2>1
  <2>2. CASE w > pos
    <3>1. u \in 0..(m - 1) /\ u >= pos /\ u + 1 = w
        BY <1>3, <1>6, <1>13, <1>15, <2>2
    <3> QED
        BY <1>5, <3>1
  <2> QED
      BY <1>6, <1>13, <2>1, <2>2
<1>17. /\ (j + 1) % m = u /\ (o + 1) % n = v
       /\ (pos + 1) % n = c /\ (pos + n - 1) % n = a /\ (i + 1) % n = IF i = n - 1 THEN 0 ELSE i + 1
  <2>1. n \in Nat \ {0} /\ j \in 0..(m - 1) /\ o \in 0..(n - 1) /\ pos \in 0..(n - 1) /\ i \in 0..(n - 1)
      BY <1>3, <1>6, <1>10
  <2> QED
      BY <1>3, <1>7, <1>12, <2>1, Neighbours
<1>18. /\ Lower(new, j) = sl.nodes[o].key /\ Upper(new, j) = sl.nodes[w].key
    BY <1>5, <1>11, <1>16, <1>17 DEF Lower, Upper
<1>19. /\ \A b \in Positions(sl) : sl.nodes[b].key \in RingKeys
       /\ o \in Positions(sl) /\ w \in Positions(sl) /\ j \in Positions(new)
  <2>1. ASSUME NEW b \in Positions(sl) PROVE sl.nodes[b].key \in RingKeys
      BY NodeType
  <2>2. o \in 0..(n - 1) /\ w \in 0..(n - 1) /\ j \in 0..(m - 1)
      BY <1>3, <1>10, <1>13
  <2> QED
      BY <1>5, <2>1, <2>2
<1>20. InSection(Lower(new, j), x, Upper(new, j))
  <2>1. CASE i = pos
    <3>1. o = a /\ w = c
        BY <1>9, <1>12, <1>14, <2>1
    <3>2. InSection(sl.nodes[pos].key, x, sl.nodes[c].key)
        BY <1>3, <1>4, <1>17, <2>1 DEF Lower, Upper
    <3> QED
        BY <1>8, <1>18, <1>19, <3>1, <3>2, SectionParts
  <2>2. CASE i # pos
    <3>1. o = i /\ (i + 1) % n = v
        BY <1>9, <1>12, <1>17, <2>2
    <3>2. InSection(sl.nodes[o].key, x, sl.nodes[v].key)
        BY <1>3, <1>4, <3>1 DEF Lower, Upper
    <3>3. CASE v = pos
      <4>1. o = a /\ w = c
          BY <1>12, <1>14, <3>3
      <4> QED
          BY <1>8, <1>18, <1>19, <3>2, <3>3, <4>1, SectionParts
    <3>4. CASE v # pos
        BY <1>12, <1>18, <3>2, <3>4
    <3> QED
        BY <3>3, <3>4
  <2> QED
      BY <2>1, <2>2
<1>21. GetSocket(new, x) = j
    BY <1>2, <1>19, <1>20, SocketIs
<1>22. Owner(new, x) = sl.nodes[o].id
    BY <1>11, <1>21 DEF Owner
<1>23. CASE i = pos
  <2>1. o = a
      BY <1>9, <1>23
  <2> QED
      BY <1>1, <1>3, <1>4, <1>17, <1>22, <1>23, <2>1
<1>24. CASE i # pos
  <2>1. o = i
      BY <1>9, <1>24
  <2> QED
      BY <1>1, <1>4, <1>22, <2>1 DEF Owner
<1> QED
    BY <1>23, <1>24

-----------------------------------------------------------------------------
(* A list of the slaves of a finite set.                                   *)

\* The empty list of the program's start.
LEMMA EmptyOrdered ==
    ASSUME NEW S
    PROVE  IsSlaveList(EmptySlaveList, S) /\ Ordered(EmptySlaveList)
<1>1. IsSlaveList(EmptySlaveList, S)
    BY UintAssumption DEF EmptySlaveList, IsSlaveList
<1>2. Positions(EmptySlaveList) = {}
    BY DEF EmptySlaveList, Positions
<1> QED
    BY <1>1, <1>2 DEF Ordered

\* While a slave is not listed, the ring has a free key.
LEMMA AddFits ==
    ASSUME NEW S, IsFiniteSet(S), Cardinality(S) <= MAX_KEY,
           NEW sl, IsSlaveList(sl, S), Ordered(sl),
           NEW s \in S, s \notin Members(sl)
    PROVE  sl.num < MAX_KEY
<1> DEFINE R == S \ {s}
<1>1. IsSlaveList(sl, R)
  <2>1. \A i \in Positions(sl) : sl.nodes[i].id # s
    BY DEF Members
  <2>2. \A i \in Positions(sl) : sl.nodes[i] \in SlaveNode(R)
    BY <2>1 DEF IsSlaveList, Positions, SlaveNode
  <2> QED
    BY <2>2 DEF IsSlaveList, Positions
<1>2. /\ IsFiniteSet(R) /\ Cardinality(R) = Cardinality(S) - 1
      /\ Cardinality(S) \in Nat
    BY FS_RemoveElement, FS_CardinalityType
<1>3. sl.num <= Cardinality(R)
    BY <1>1, <1>2, ListFits
<1> QED
    BY <1>2, <1>3, MaxKeyAssumption DEF IsSlaveList

\* A slave that is not listed can be added.
LEMMA AddKeepsOrder ==
    ASSUME NEW S, IsFiniteSet(S), Cardinality(S) <= MAX_KEY,
           NEW sl, IsSlaveList(sl, S), Ordered(sl),
           NEW s \in S, s \notin Members(sl), NEW first \in RingKeys
    PROVE  LET new == AddToSlaveList(sl, s, first)
           IN  IsSlaveList(new, S) /\ Ordered(new)
<1>1. CASE sl.num = 0
    BY <1>1, AddFirst
<1>2. CASE sl.num # 0
    BY <1>2, AddFits, AddOrdered
<1> QED
    BY <1>1, <1>2

-----------------------------------------------------------------------------
(* How a slave's copy follows the master's list.                           *)

\* No slave is listed twice.
LEMMA OnePlace ==
    ASSUME NEW S, NEW sl, IsSlaveList(sl, S), Ordered(sl),
           NEW i \in Positions(sl), NEW j \in Positions(sl), sl.nodes[i].id = sl.nodes[j].id
    PROVE  i = j
<1>1. i \in Int /\ j \in Int
    BY DEF Positions
<1>2. ~(i < j) /\ ~(j < i)
    BY DEF Ordered
<1> QED
    BY <1>1, <1>2

\* The position AddToSlaveList returns is that of the new slave, and without
\* it the list is the old one.
LEMMA NewPlace ==
    ASSUME NEW S, NEW sl, IsSlaveList(sl, S), Ordered(sl), NEW s, NEW first
    PROVE  LET new == AddToSlaveList(sl, s, first)
               p == NewPos(sl)
           IN  /\ p \in Positions(new) /\ new.nodes[p].id = s
               /\ new.num = sl.num + 1
               /\ RemoveSlave(new, p).nodes = sl.nodes
               /\ (sl.version + 1) % UINT_RANGE = new.version
               /\ Members(new) = Members(sl) \cup {s}
<1>1. PICK n \in Nat : n = sl.num
    BY DEF IsSlaveList
<1>2. PICK p \in 0..n : p = NewPos(sl)
  <2>1. CASE n = 0
      BY <1>1, <2>1 DEF NewPos
  <2>2. CASE n # 0
    <3>1. PICK l \in 0..(n - 1) : l = FindLongestSection(sl)
        BY <1>1, <2>2, LongestExists DEF Positions
    <3>2. l + 1 \in 0..n /\ NewPos(sl) = l + 1
        BY <1>1, <2>2, <3>1 DEF NewPos
    <3> QED
        BY <3>2
  <2> QED
      BY <2>1, <2>2
<1>3. PICK sn : sn = [id |-> s, key |-> NewKey(sl, first)]
    OBVIOUS
<1>4. PICK new : new = AddToSlaveList(sl, s, first)
    OBVIOUS
<1>5. /\ new.num = n + 1 /\ new.version = (sl.version + 1) % UINT_RANGE
      /\ new.nodes = [i \in 0..n |-> IF i < p THEN sl.nodes[i]
                                     ELSE IF i = p THEN sn ELSE sl.nodes[i - 1]]
    BY <1>1, <1>2, <1>3, <1>4 DEF AddToSlaveList, AddNewSlave
<1>6. p \in Positions(new) /\ new.nodes[p].id = s /\ new.nodes[p] = sn
    BY <1>1, <1>2, <1>3, <1>5 DEF Positions
<1>7. RemoveSlave(new, p).nodes = sl.nodes
  <2>1. RemoveSlave(new, p).nodes = [i \in 0..(n - 1) |-> IF i < p THEN new.nodes[i] ELSE new.nodes[i + 1]]
      BY <1>5 DEF RemoveSlave
  <2>2. ASSUME NEW i \in 0..(n - 1)
        PROVE  (IF i < p THEN new.nodes[i] ELSE new.nodes[i + 1]) = sl.nodes[i]
      BY <1>2, <1>5
  <2>3. sl.nodes = [i \in 0..(n - 1) |-> sl.nodes[i]]
      BY <1>1 DEF IsSlaveList
  <2> QED
      BY <2>1, <2>2, <2>3
<1>8. Members(new) = Members(sl) \cup {s}
  <2>1. ASSUME NEW i \in Positions(sl)
        PROVE  \E j \in Positions(new) : new.nodes[j] = sl.nodes[i]
    <3>1. CASE i < p
        BY <1>1, <1>2, <1>5, <3>1 DEF Positions
    <3>2. CASE i >= p
      <4>1. /\ i + 1 \in 0..n /\ ~(i + 1 < p) /\ i + 1 # p /\ (i + 1) - 1 = i
          BY <1>1, <1>2, <3>2 DEF Positions
      <4>2. new.nodes[i + 1] = sl.nodes[(i + 1) - 1]
          BY <1>5, <4>1
      <4>3. i + 1 \in Positions(new)
          BY <1>5, <4>1 DEF Positions
      <4> QED
          BY <4>1, <4>2, <4>3
    <3> QED
        BY <1>1, <1>2, <3>1, <3>2 DEF Positions
  <2>2. ASSUME NEW j \in Positions(new), j # p
        PROVE  \E i \in Positions(sl) : new.nodes[j] = sl.nodes[i]
    <3>1. CASE j < p
        BY <1>1, <1>2, <1>5, <2>2, <3>1 DEF Positions
    <3>2. CASE j > p
        BY <1>1, <1>2, <1>5, <2>2, <3>2 DEF Positions
    <3> QED
        BY <1>1, <1>2, <1>5, <2>2, <3>1, <3>2 DEF Positions
  <2> QED
      BY <1>6, <2>1, <2>2 DEF Members
<1> QED
    BY <1>1, <1>2, <1>4, <1>5, <1>6, <1>7, <1>8

\* A copy without node p becomes the list when the node is inserted.
LEMMA InsertBack ==
    ASSUME NEW S, NEW sl, IsSlaveList(sl, S), NEW p \in Positions(sl),
           NEW v, IsSlaveList(v, S), v.num = sl.num - 1,
           v.nodes = RemoveSlave(sl, p).nodes,
           (v.version + 1) % UINT_RANGE = sl.version
    PROVE  AddNewSlave(v, p, sl.nodes[p]) = sl
<1>1. PICK n \in Nat \ {0} : n = sl.num /\ p \in 0..(n - 1) /\ v.num = n - 1
    BY NodeType DEF Positions
<1>2. PICK new : new = AddNewSlave(v, p, sl.nodes[p])
    OBVIOUS
<1>3. v.nodes = [i \in 0..(n - 2) |-> IF i < p THEN sl.nodes[i] ELSE sl.nodes[i + 1]]
    BY <1>1 DEF RemoveSlave
<1>4. /\ new.version = sl.version /\ new.num = n
      /\ new.nodes = [i \in 0..(n - 1) |-> IF i < p THEN v.nodes[i]
                                          ELSE IF i = p THEN sl.nodes[p] ELSE v.nodes[i - 1]]
      /\ new = [version |-> new.version, num |-> new.num, nodes |-> new.nodes]
    BY <1>1, <1>2 DEF AddNewSlave
<1>5. ASSUME NEW i \in 0..(n - 1)
      PROVE  (IF i < p THEN v.nodes[i] ELSE IF i = p THEN sl.nodes[p] ELSE v.nodes[i - 1]) = sl.nodes[i]
  <2>1. CASE i < p
      BY <1>1, <1>3, <2>1
  <2>2. CASE i > p
    <3>1. i - 1 \in 0..(n - 2) /\ ~(i - 1 < p) /\ (i - 1) + 1 = i
        BY <1>1, <2>2
    <3> QED
        BY <1>1, <1>3, <2>2, <3>1
  <2> QED
      BY <1>1, <2>1, <2>2
<1>6. sl.nodes = [i \in 0..(n - 1) |-> sl.nodes[i]]
    BY <1>1 DEF IsSlaveList
<1>7. new.nodes = sl.nodes
    BY <1>4, <1>5, <1>6
<1> QED
    BY <1>1, <1>2, <1>4, <1>7 DEF IsSlaveList

\* NEW_SLAVE: a slave's position follows the node it is about.
LEMMA PlaceAfterAdd ==
    ASSUME NEW S, NEW v, IsSlaveList(v, S), NEW p \in 0..v.num, NEW sn,
           NEW q \in Positions(v)
    PROVE  LET new == AddNewSlave(v, p, sn)
               r == IF p <= q THEN (q + 1) % (v.num + 1) ELSE q
           IN  r \in Positions(new) /\ new.nodes[r] = v.nodes[q]
<1>1. PICK n \in Nat : n = v.num /\ p \in 0..n /\ q \in 0..(n - 1)
    BY DEF IsSlaveList, Positions
<1>2. (q + 1) % (n + 1) = q + 1
    BY <1>1, ModOnce
<1>3. PICK r : r = IF p <= q THEN q + 1 ELSE q
    OBVIOUS
<1>4. PICK new : new = AddNewSlave(v, p, sn)
    OBVIOUS
<1>5. Positions(new) = 0..n
    BY <1>1, <1>4 DEF AddNewSlave, Positions
<1>6. new.nodes = [i \in 0..n |-> IF i < p THEN v.nodes[i]
                                 ELSE IF i = p THEN sn ELSE v.nodes[i - 1]]
    BY <1>1, <1>4 DEF AddNewSlave
<1>7. r \in 0..n /\ new.nodes[r] = v.nodes[q]
  <2>1. CASE p <= q
    <3>1. r \in 0..n /\ ~(r < p) /\ r # p /\ r - 1 = q
        BY <1>1, <1>3, <2>1
    <3> QED
        BY <1>6, <3>1
  <2>2. CASE q < p
    <3>1. r \in 0..n /\ r < p /\ r = q
        BY <1>1, <1>3, <2>2
    <3> QED
        BY <1>6, <3>1
  <2> QED
      BY <1>1, <2>1, <2>2
<1> QED
    BY <1>1, <1>2, <1>3, <1>4, <1>5, <1>7

\* RM_SLAVE: the same.
LEMMA PlaceAfterRemove ==
    ASSUME NEW S, NEW v, IsSlaveList(v, S), NEW p \in Positions(v),
           NEW q \in Positions(v), q # p
    PROVE  LET new == RemoveSlave(v, p)
               num == v.num - 1
               r == IF p < q THEN (q - 1 + num) % num ELSE q
           IN  r \in Positions(new) /\ new.nodes[r] = v.nodes[q]
<1>1. PICK n \in Nat : n = v.num /\ p \in 0..(n - 1) /\ q \in 0..(n - 1)
    BY DEF IsSlaveList, Positions
<1>2. PICK m \in Nat \ {0} : m = n - 1
    BY <1>1
<1>3. PICK r : r = IF p < q THEN q - 1 ELSE q
    OBVIOUS
<1>4. PICK new : new = RemoveSlave(v, p)
    OBVIOUS
<1>5. Positions(new) = 0..(m - 1)
    BY <1>1, <1>2, <1>4 DEF RemoveSlave, Positions
<1>6. new.nodes = [i \in 0..(m - 1) |-> IF i < p THEN v.nodes[i] ELSE v.nodes[i + 1]]
    BY <1>1, <1>2, <1>4 DEF RemoveSlave
<1>7. CASE p < q
  <2>1. r \in 0..(m - 1) /\ ~(r < p) /\ r + 1 = q
      BY <1>1, <1>2, <1>3, <1>7
  <2>2. new.nodes[r] = v.nodes[q]
      BY <1>6, <2>1
  <2>3. PICK x \in Nat : x = q - 1 + m /\ x >= m /\ x < 2 * m /\ x - m = r
      BY <1>1, <1>2, <1>3, <1>7
  <2>4. x % m = r
      BY <1>2, <2>3, ModOnce
  <2> QED
      BY <1>1, <1>2, <1>4, <1>5, <1>7, <2>1, <2>2, <2>3, <2>4
<1>8. CASE q < p
  <2>1. r \in 0..(m - 1) /\ r < p /\ r = q
      BY <1>1, <1>2, <1>3, <1>8
  <2>2. new.nodes[r] = v.nodes[q]
      BY <1>6, <2>1
  <2> QED
      BY <1>1, <1>4, <1>5, <1>8, <2>1, <2>2
<1> QED
    BY <1>1, <1>7, <1>8

\* A list without one of its nodes has no other members.
LEMMA RemoveMembers ==
    ASSUME NEW S, NEW sl, IsSlaveList(sl, S), NEW p \in Positions(sl)
    PROVE  Members(RemoveSlave(sl, p)) \subseteq Members(sl)
<1>1. PICK n \in Nat : n = sl.num /\ p \in 0..(n - 1)
    BY DEF IsSlaveList, Positions
<1>2. PICK new : new = RemoveSlave(sl, p)
    OBVIOUS
<1>3. /\ Positions(new) = 0..(n - 2) /\ Positions(sl) = 0..(n - 1)
      /\ \A i \in 0..(n - 2) : new.nodes[i] = sl.nodes[i] \/ new.nodes[i] = sl.nodes[i + 1]
    BY <1>1, <1>2 DEF Positions, RemoveSlave
<1>4. \A i \in 0..(n - 2) : i \in 0..(n - 1) /\ i + 1 \in 0..(n - 1)
    BY <1>1
<1> QED
    BY <1>2, <1>3, <1>4 DEF Members
=============================================================================
