-------------------------- MODULE MasterListProofs ---------------------------
(***************************************************************************)
(* Proofs about MasterList, for every number of slaves and every MAX_KEY:  *)
(* the list is well typed and lists no slave twice, it is in ring order,   *)
(* every key has one owner, SplitByKey agrees with GetSocket, and a change *)
(* moves keys between neighbours only.                                     *)
(***************************************************************************)
EXTENDS MasterList, SlaveRingProofs

\* The inductive invariant.  Ordered is what makes it inductive: it bounds
\* the number of nodes, so that a joining slave always finds a free key.
ListInv == IsSlaveList(slaves, Slaves) /\ Ordered(slaves)

\* There are no more slaves than keys.
LEMMA FewSlaves == IsFiniteSet(Slaves) /\ Cardinality(Slaves) <= MAX_KEY
    BY SlavesAssumption

\* Every join and every leave keeps it.
LEMMA NextListInv == ListInv /\ [Next]_slaves => ListInv'
<1> SUFFICES ASSUME ListInv, [Next]_slaves
             PROVE  ListInv'
    OBVIOUS
<1>1. ASSUME NEW s \in Slaves, AddSlave(s)
      PROVE  ListInv'
  <2>1. PICK first \in RingKeys : slaves' = AddToSlaveList(slaves, s, first)
    BY <1>1 DEF AddSlave
  <2> QED
    BY <1>1, <2>1, FewSlaves, AddKeepsOrder DEF AddSlave, ListInv
<1>2. ASSUME NEW s \in Slaves, DelSlave(s)
      PROVE  ListInv'
    BY <1>2, DelOrdered DEF DelSlave, ListInv
<1>3. CASE UNCHANGED slaves
    BY <1>3 DEF ListInv, IsSlaveList, Ordered, Positions
<1> QED
    BY <1>1, <1>2, <1>3 DEF Next

\* The invariant holds in every reachable state.
THEOREM ListInvariant == Spec => []ListInv
<1>1. Init => ListInv
    BY EmptyOrdered DEF Init, ListInv
<1>2. ListInv /\ [Next]_slaves => ListInv'
    BY NextListInv
<1> QED
    BY <1>1, <1>2, PTL DEF Spec

\* The list is well typed, and it never has more nodes than there are slaves,
\* because ADD_SLAVE of a registered slave does not occur and DelFromSlaveList
\* leaves no second copy of a node.  (Whether 32 nodes are enough depends on how
\* many slaves are started, which no code checks.)
THEOREM TypeCorrect == Spec => []TypeOK
<1>1. ListInv => TypeOK
  <2> SUFFICES ASSUME ListInv
               PROVE  TypeOK
    OBVIOUS
  <2>1. slaves.num <= Cardinality(Slaves)
    BY SlavesAssumption, ListFits DEF ListInv
  <2> QED
    BY <2>1 DEF ListInv, TypeOK
<1> QED
    BY <1>1, ListInvariant, PTL

\* For any number of joins and leaves in any order, AddToSlaveList never
\* gives two slaves one key and keeps the list in ring order.
THEOREM RingOrder == Spec => []RingOrdered
<1>1. ListInv => RingOrdered
    BY DEF ListInv, RingOrdered
<1> QED
    BY <1>1, ListInvariant, PTL

\* For every list the master can publish, GetSocket's assertion holds and
\* its answer does not depend on the order of the search.
THEOREM OneOwner == Spec => []UniqueOwner
<1>1. ListInv => UniqueOwner
    BY OneHolder DEF ListInv, UniqueOwner
<1> QED
    BY <1>1, ListInvariant, PTL

\* For keys below MAX_KEY, what SplitByKey hands to a slave is what clients
\* look for there.
THEOREM SplitAgrees == Spec => []RingKeysSplit
<1>1. ListInv => RingKeysSplit
    BY SplitIsRouting DEF ListInv, RingKeysSplit, SplitMatchesRouting
<1> QED
    BY <1>1, ListInvariant, PTL

\* Whoever joins or leaves, a key stays with its slave unless it moves between
\* that slave and the predecessor it exchanges files with, in a list of any
\* length.
THEOREM OnlyNeighboursMove == Spec => KeysMoveToNeighbour
<1> DEFINE Moved(key) ==
       LET old == GetSocket(slaves, key)
           new == GetSocket(slaves', key)
       IN  Owner(slaves, key) # Owner(slaves', key) =>
              \/ /\ slaves'.num > slaves.num
                 /\ Owner(slaves', key) \notin Members(slaves)
                 /\ slaves'.nodes[new - 1].id = Owner(slaves, key)
              \/ /\ slaves'.num < slaves.num
                 /\ Owner(slaves, key) \notin Members(slaves')
                 /\ slaves.nodes[(old + slaves.num - 1) % slaves.num].id
                       = Owner(slaves', key)
<1>1. ListInv /\ Next =>
         (slaves.num > 0 /\ slaves'.num > 0 => \A key \in RingKeys : Moved(key))
  <2> SUFFICES ASSUME ListInv, Next, slaves.num > 0, slaves'.num > 0, NEW x \in RingKeys
               PROVE  Moved(x)
      OBVIOUS
  <2>0. ListInv' /\ slaves.num \in Nat
      BY NextListInv DEF ListInv, IsSlaveList
  <2>1. ASSUME NEW s \in Slaves, AddSlave(s)
        PROVE  Moved(x)
    <3>1. PICK first \in RingKeys : slaves' = AddToSlaveList(slaves, s, first)
        BY <2>1 DEF AddSlave
    <3>2. s \notin Members(slaves) /\ slaves.num # 0 /\ slaves.num < MAX_KEY
        BY <2>0, <2>1, FewSlaves, AddFits DEF AddSlave, ListInv
    <3>3. slaves'.num = slaves.num + 1
        BY <3>1 DEF AddToSlaveList, AddNewSlave
    <3>4. \/ Owner(slaves', x) = Owner(slaves, x)
          \/ /\ Owner(slaves', x) = s
             /\ slaves'.nodes[GetSocket(slaves', x) - 1].id = Owner(slaves, x)
        BY <3>1, <3>2, AddMoves DEF ListInv
    <3> QED
        BY <2>0, <3>2, <3>3, <3>4
  <2>2. ASSUME NEW s \in Slaves, DelSlave(s)
        PROVE  Moved(x)
    <3>1. PICK pos \in Positions(slaves) : slaves' = DelFromSlaveList(slaves, pos)
        BY <2>2 DEF DelSlave
    <3>2. slaves'.num = slaves.num - 1 /\ slaves.num > 1
        BY <2>0, <3>1 DEF DelFromSlaveList
    <3>3. \/ Owner(slaves', x) = Owner(slaves, x)
          \/ /\ GetSocket(slaves, x) = pos
             /\ slaves.nodes[(GetSocket(slaves, x) + slaves.num - 1) % slaves.num].id
                   = Owner(slaves', x)
        BY <3>1, <3>2, DelMoves DEF ListInv
    <3>4. slaves.nodes[pos].id \notin Members(slaves')
        BY <3>1, DelForgets DEF ListInv
    <3> QED
        BY <2>0, <3>2, <3>3, <3>4 DEF Owner
  <2> QED
      BY <2>1, <2>2 DEF Next
<1>2. ListInv /\ [Next]_slaves =>
         [slaves.num > 0 /\ slaves'.num > 0 => \A key \in RingKeys : Moved(key)]_slaves
    BY <1>1
<1> QED
    BY <1>2, ListInvariant, PTL DEF Spec, KeysMoveToNeighbour
=============================================================================
