----------------------------- MODULE MasterList ------------------------------
(***************************************************************************)
(* The master's slave list as a state machine: what the list may become    *)
(* when slaves join (ADD_SLAVE) and leave (DEL_SLAVE).  This is what the   *)
(* membership protocol of master.c promises to everybody who reads the     *)
(* list; the messages by which a change reaches the slaves are the subject *)
(* of another module.                                                      *)
(***************************************************************************)
EXTENDS SlaveRing, FiniteSets

CONSTANT Slaves             \* the slave processes that may be started

\* A key for each slave: 4000 keys are plenty.  The array nodes is as long as
\* needed here; it has MAX_SLAVE_NUM (32) nodes in ServerCtrl.h, which
\* AddToSlaveList does not check, and what a longer list overwrites is left out.
ASSUME SlavesAssumption == /\ IsFiniteSet(Slaves)
                           /\ Cardinality(Slaves) <= MAX_KEY

VARIABLE slaves             \* the global "SlaveList slaves" of master.c

Init == slaves = EmptySlaveList

\* ADD_SLAVE from a slave that is not registered. Only the first slave's key
\* is a random number.
AddSlave(s) ==
    /\ s \notin Members(slaves)
    /\ \E first \in RingKeys : slaves' = AddToSlaveList(slaves, s, first)

\* DEL_SLAVE from a registered slave: the position travels in the message.
DelSlave(s) ==
    \E pos \in Positions(slaves) :
        /\ slaves.nodes[pos].id = s
        /\ slaves' = DelFromSlaveList(slaves, pos)

Next == \E s \in Slaves : AddSlave(s) \/ DelSlave(s)

Spec == Init /\ [][Next]_slaves

-----------------------------------------------------------------------------
\* The list is well formed and no longer than there are slaves: none is listed
\* twice.
TypeOK == /\ IsSlaveList(slaves, Slaves)
          /\ slaves.num <= Cardinality(Slaves)

\* The list is in ring order and has no duplicates: AddToSlaveList never
\* hands out a key that is in use, and inserts the new node where its key
\* belongs, wrapped around the ring or not.
RingOrdered == Ordered(slaves)

\* Every key has exactly one section it falls into, so a client's GetSocket
\* neither fails its assertion nor depends on the order of its search.
UniqueOwner ==
    slaves.num > 0 =>
        \A key \in RingKeys :
            \E i \in Positions(slaves) : Holders(slaves, key) = {i}

\* When a slave's section is split off a file (CLIP_DATA, UPDATE_BACKUP2),
\* the records taken are those that clients look for at that slave.
SplitMatchesRouting(Keys) ==
    slaves.num > 1 =>
        \A key \in Keys, i \in Positions(slaves) :
            SplitTakes(Lower(slaves, i), key, Upper(slaves, i))
                <=> GetSocket(slaves, key) = i

\* SplitByKey and GetSocket agree on the keys below MAX_KEY.
RingKeysSplit == SplitMatchesRouting(RingKeys)

\* Only the joining slave and its predecessor (the node it asks to clip its
\* data), or the leaving slave and its predecessor (the node that merges its
\* backup), exchange keys: every other key stays with the slave it had.
KeysMoveToNeighbour ==
    [][slaves.num > 0 /\ slaves'.num > 0 =>
         \A key \in RingKeys :
            LET old == GetSocket(slaves, key)
                new == GetSocket(slaves', key)
            IN  Owner(slaves, key) # Owner(slaves', key) =>
                   \/ /\ slaves'.num > slaves.num
                      /\ Owner(slaves', key) \notin Members(slaves)
                      /\ slaves'.nodes[new - 1].id = Owner(slaves, key)
                   \/ /\ slaves'.num < slaves.num
                      /\ Owner(slaves, key) \notin Members(slaves')
                      /\ slaves.nodes[(old + slaves.num - 1) % slaves.num].id
                            = Owner(slaves', key)
      ]_slaves

\* What a comment in HandleSlaveRequest says of CLIP_DATA, "split the data
\* the new slave uses into file_tmp", for the keys a client may store: any
\* number the client's parser accepts, and not only those below MAX_KEY.
StoredKeysSplit == SplitMatchesRouting(0..(2 * MAX_KEY - 1))
=============================================================================
