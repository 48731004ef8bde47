------------------------------ MODULE SlaveRing ------------------------------
(***************************************************************************)
(* The slave list of the cloud (SlaveList in server/ServerCtrl.h) and the  *)
(* pure code that master, slaves and clients run on it: how the master     *)
(* places a new slave on the ring of keys, how the list is edited, which   *)
(* slave a client sends a key to, and which records SplitByKey moves.      *)
(*                                                                         *)
(* Slave i of the list uses the section (key of i, key of i+1], with the   *)
(* positions taken modulo num and the keys modulo MAX_KEY.                 *)
(***************************************************************************)
EXTENDS Integers

CONSTANTS MAX_KEY,      \* size of the ring of keys (4000 in ServerCtrl.h)
          UINT_RANGE    \* number of values of an unsigned (2^32)

ASSUME MaxKeyAssumption == MAX_KEY \in Nat \ {0}
ASSUME UintAssumption == UINT_RANGE \in Nat \ {0}

RingKeys == 0..(MAX_KEY - 1)

\* ip, port and sock of a SlaveNode only identify the slave.
SlaveNode(Slaves) == [id : Slaves, key : RingKeys]

\* The zero-initialised global "SlaveList slaves" of master.c.
EmptySlaveList == [version |-> 0, num |-> 0, nodes |-> [i \in {} |-> {}]]

IsSlaveList(sl, Slaves) ==
    /\ sl = [version |-> sl.version, num |-> sl.num, nodes |-> sl.nodes]
    /\ sl.version \in 0..(UINT_RANGE - 1)
    /\ sl.num \in Nat
    /\ sl.nodes \in [0..(sl.num - 1) -> SlaveNode(Slaves)]

Positions(sl) == 0..(sl.num - 1)

Members(sl) == {sl.nodes[i].id : i \in Positions(sl)}

\* Distance from key a forwards to key b around the ring.
Dist(a, b) == IF b >= a THEN b - a ELSE b - a + MAX_KEY

\* No slave is listed twice, and going through the list from node 0 goes
\* once around the ring.
Ordered(sl) ==
    \A i, j \in Positions(sl) : i < j =>
        /\ sl.nodes[i].id # sl.nodes[j].id
        /\ Dist(sl.nodes[0].key, sl.nodes[i].key)
             < Dist(sl.nodes[0].key, sl.nodes[j].key)

-----------------------------------------------------------------------------
(* The master's placement of a new slave (master.c).                       *)

\* Length of the section of position pos: the whole ring when it is alone.
GetLength(sl, pos) ==
    LET len == sl.nodes[(pos + 1) % sl.num].key - sl.nodes[pos].key
    IN  ((len + MAX_KEY - 1) % MAX_KEY) + 1

\* Mutant: the comparison of lengths is the wrong way round.
FindShortestSection(sl) ==
    CHOOSE i \in Positions(sl) :
        \A j \in Positions(sl) : GetLength(sl, i) <= GetLength(sl, j)

\* The loop keeps the first position whose length beats every earlier one.
FindLongestSection(sl) ==
    CHOOSE i \in Positions(sl) :
        \A j \in Positions(sl) : /\ GetLength(sl, j) <= GetLength(sl, i)
                                 /\ j < i => GetLength(sl, j) < GetLength(sl, i)

\* A slave's copy of the list on NEW_SLAVE: sn is inserted at pos.
AddNewSlave(sl, pos, sn) ==
    [version |-> (sl.version + 1) % UINT_RANGE,
     num     |-> sl.num + 1,
     nodes   |-> [i \in 0..sl.num |-> IF i < pos THEN sl.nodes[i]
                                      ELSE IF i = pos THEN sn
                                      ELSE sl.nodes[i - 1]]]

\* A slave's copy of the list on RM_SLAVE: position pos is taken out.
RemoveSlave(sl, pos) ==
    [version |-> (sl.version + 1) % UINT_RANGE,
     num     |-> sl.num - 1,
     nodes   |-> [i \in 0..(sl.num - 2) |-> IF i < pos THEN sl.nodes[i]
                                            ELSE sl.nodes[i + 1]]]

\* The position AddToSlaveList returns, and the key it gives the new slave:
\* rand() % MAX_KEY, here first, when the list is empty, and the middle of
\* the longest section otherwise.
NewPos(sl) == IF sl.num = 0 THEN 0 ELSE FindLongestSection(sl) + 1

\* Mutant: the wrap-around of the ring is forgotten.
NewKeyNoWrap(sl, first) ==
    LET pos == FindLongestSection(sl) IN
    IF sl.num = 0 THEN first
    ELSE (GetLength(sl, pos) \div 2) + sl.nodes[pos].key

\* Mutant: the new slave takes the key of the slave it follows.
NewKeyNoHalf(sl, first) ==
    LET pos == FindLongestSection(sl) IN
    IF sl.num = 0 THEN first ELSE sl.nodes[pos].key

NewKey(sl, first) ==
    LET pos == FindLongestSection(sl) IN
    IF sl.num = 0 THEN first
    ELSE ((GetLength(sl, pos) \div 2) + sl.nodes[pos].key) % MAX_KEY

AddToSlaveList(sl, s, first) ==
    AddNewSlave(sl, NewPos(sl), [id |-> s, key |-> NewKey(sl, first)])

\* Mutant: the nodes behind pos are not moved up, so that the last one goes.
DelLastOfSlaveList(sl, pos) ==
    [version |-> (sl.version + 1) % UINT_RANGE,
     num     |-> sl.num - 1,
     nodes   |-> [i \in 0..(sl.num - 2) |-> sl.nodes[i]]]

DelFromSlaveList(sl, pos) ==
    [version |-> (sl.version + 1) % UINT_RANGE,
     num     |-> sl.num - 1,
     nodes   |-> [i \in 0..(sl.num - 2) |-> IF i < pos THEN sl.nodes[i]
                                            ELSE sl.nodes[i + 1]]]

-----------------------------------------------------------------------------
(* Which slave serves a key (client/netdbapi.c), and which records of a    *)
(* file SplitByKey moves (server/tcDB.c).                                  *)

Lower(sl, i) == sl.nodes[i].key
Upper(sl, i) == sl.nodes[(i + 1) % sl.num].key

\* Mutant: both ends of a section are closed.
InSectionClosed(lower_b, key, upper_b) ==
    \/ lower_b < upper_b /\ lower_b <= key /\ key <= upper_b
    \/ lower_b > upper_b /\ (lower_b <= key \/ key <= upper_b)
    \/ lower_b = upper_b

\* Mutant: both ends of a section are open.
InSectionOpen(lower_b, key, upper_b) ==
    \/ lower_b < upper_b /\ lower_b < key /\ key < upper_b
    \/ lower_b > upper_b /\ (lower_b < key \/ key < upper_b)
    \/ lower_b = upper_b

\* The three branches of GetSocket's loop body.
InSection(lower_b, key, upper_b) ==
    \/ lower_b < upper_b /\ lower_b < key /\ key <= upper_b
    \/ lower_b > upper_b /\ (lower_b < key \/ key <= upper_b)
    \/ lower_b = upper_b

\* The positions whose section holds key, once reduced to the ring.
Holders(sl, key) ==
    {i \in Positions(sl) :
        InSection(Lower(sl, i), key % MAX_KEY, Upper(sl, i))}

\* The first of them; num, on which GetSocket's assertion fails, if none.
GetSocket(sl, key) ==
    IF Holders(sl, key) = {} THEN sl.num
    ELSE CHOOSE i \in Holders(sl, key) : \A j \in Holders(sl, key) : i <= j

\* The slave a client that has list sl sends key to.
Owner(sl, key) == sl.nodes[GetSocket(sl, key)].id

\* The record condition of SplitByKey. The key is the stored one: a client
\* reduces a key modulo MAX_KEY to route it, but sends and stores it whole.
SplitTakes(lower_bound, key, upper_bound) ==
    LET bl == upper_bound > lower_bound IN
    \/ bl /\ lower_bound < key /\ key <= upper_bound
    \/ ~bl /\ (lower_bound < key \/ key <= upper_bound)
=============================================================================
