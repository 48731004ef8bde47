----------------------------- MODULE OneConsumer -----------------------------
(***************************************************************************)
(* The circular queue as its test (test/testCircularQueue.c) uses it: one  *)
(* producer and one consumer, who reads the node through the pointer that  *)
(* DeQueue returned.  It implements a BoundedQueue of MAX_QUEUE_USELEN     *)
(* items.  The server has two consumers, which this result does not cover: *)
(* see RequestPipeline.                                                    *)
(***************************************************************************)
EXTENDS CircularQueue

CONSTANT Items          \* what may be queued

VARIABLE pnode          \* the consumer's pointer: a slot, or -1 (none yet)

usageVars == <<head, tail, Q, pnode>>

MAX_QUEUE_USELEN == MAX_QUEUE_LEN - 1

UsageInit == InitQueue /\ pnode = -1

\* assert(isQueueFull() == 0), then the node is copied in.
Produce(x) == ~isQueueFull /\ EnQueue(x) /\ UNCHANGED pnode

\* Mutant: the consumer is handed the node after the one it takes.
ConsumeNext == ~isQueueEmpty /\ DeQueue /\ pnode' = (head + 1) % MAX_QUEUE_LEN

\* assert(isQueueEmpty() == 0), then the pointer is returned.
Consume == ~isQueueEmpty /\ DeQueue /\ pnode' = head

UsageNext == Consume \/ \E x \in Items : Produce(x)

UsageSpec == UsageInit /\ [][UsageNext]_usageVars

-----------------------------------------------------------------------------
\* The positions stay inside the array, and the consumer's slot is the one
\* just behind head: the slot that EnQueue fills last, and only when the
\* queue is no longer full.
UsageTypeOK == /\ QueueTypeOK(Items)
               /\ pnode \in Slots \cup {-1}
               /\ pnode # -1 => head = (pnode + 1) % MAX_QUEUE_LEN

Abstract == INSTANCE BoundedQueue
              WITH q <- Contents,
                   got <- IF pnode = -1 THEN NoItem ELSE Q[pnode],
                   Capacity <- MAX_QUEUE_USELEN

\* The array is a bounded first-in first-out queue: no node is lost, taken
\* twice, or overwritten while it is queued or while the consumer may still
\* read it through the pointer returned by DeQueue.
ImplementsQueue == Abstract!Spec
=============================================================================
