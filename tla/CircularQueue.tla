---------------------------- MODULE CircularQueue ----------------------------
(***************************************************************************)
(* The message queue of a slave server (server/CircularQueue.c): an array  *)
(* of MAX_QUEUE_LEN nodes with the positions of its first node and of its  *)
(* first free one.  Both operations run under QUEUEMUTEX and are one step; *)
(* each asserts a condition first, which whoever uses this module has to   *)
(* check.  DeQueue returns a pointer into the array, here the position.    *)
(***************************************************************************)
EXTENDS Integers, Sequences

CONSTANTS MAX_QUEUE_LEN,    \* length of the array (10 in CircularQueue.h)
          NoItem            \* the contents of a node before its first use

ASSUME QueueLenAssumption == MAX_QUEUE_LEN \in Nat /\ MAX_QUEUE_LEN >= 2

VARIABLES head, tail, Q

Slots == 0..(MAX_QUEUE_LEN - 1)

InitQueue == /\ head = 0
             /\ tail = 0
             /\ Q = [i \in Slots |-> NoItem]

\* Mutant: the queue is taken to be full one node too early.
isQueueFullEarly == head = (tail + 2) % MAX_QUEUE_LEN

isQueueFull == head = (tail + 1) % MAX_QUEUE_LEN

isQueueEmpty == head = tail

\* Mutant: tail runs past the end of the array.
EnQueueNoWrap(node) == /\ Q' = [Q EXCEPT ![tail] = node]
                       /\ tail' = tail + 1
                       /\ UNCHANGED head

EnQueue(node) == /\ Q' = [Q EXCEPT ![tail] = node]
                 /\ tail' = (tail + 1) % MAX_QUEUE_LEN
                 /\ UNCHANGED head

\* DeQueue leaves the node in the array and returns its position, head.
DeQueue == /\ head' = (head + 1) % MAX_QUEUE_LEN
           /\ UNCHANGED <<tail, Q>>

-----------------------------------------------------------------------------
QueueTypeOK(Items) == /\ head \in Slots
                      /\ tail \in Slots
                      /\ Q \in [Slots -> Items \cup {NoItem}]

\* The number of queued nodes, and their sequence, oldest first.
Count == IF tail >= head THEN tail - head ELSE tail - head + MAX_QUEUE_LEN

Contents == [i \in 1..Count |-> Q[(head + i - 1) % MAX_QUEUE_LEN]]
=============================================================================
