------------------------ MODULE RequestPipelineProofs ------------------------
(***************************************************************************)
(* The request pipeline of a slave server, for every number of clients and *)
(* workers and every length of the array.  The semaphore and the queue     *)
(* agree, and so a worker never finds the queue empty (PipelineInv); every *)
(* variable keeps its type (TypeInv); and as long as clients stay every    *)
(* request is in one place and is answered once (StayInv), so that with    *)
(* fewer clients than slots the queue is never full.                       *)
(***************************************************************************)
EXTENDS RequestPipeline, CircularQueueProofs, FiniteSetTheorems, TLAPS

\* The workers past sem_wait, and the post that main owes.
Dequeuers == {w \in Workers : worker[w].pc = "dequeue"}
Owed == IF main.pc = "post" THEN 1 ELSE 0

\* What the steps need to know of the threads' records.
Shape == /\ "pc" \in DOMAIN main
         /\ DOMAIN worker = Workers
         /\ \A w \in Workers : "pc" \in DOMAIN worker[w]

\* The inductive invariant.
PipelineInv == /\ head \in Slots /\ tail \in Slots /\ sem \in Nat
               /\ Shape
               /\ SemTracksQueue
               /\ NeverEmpty

LEMMA SemTracksByParts ==
    SemTracksQueue <=> sem + Cardinality(Dequeuers) + Owed = Count
BY DEF SemTracksQueue, Dequeuers, Owed

LEMMA DequeuersFinite ==
    IsFiniteSet(Dequeuers) /\ Cardinality(Dequeuers) \in Nat
<1>1. Dequeuers \in SUBSET Workers
    BY DEF Dequeuers
<1>2. IsFiniteSet(Dequeuers)
    BY <1>1, FS_Subset, PipelineAssumption
<1> QED
    BY <1>2, FS_CardinalityType

\* A step that touches neither queue nor semaphore, and in which no thread
\* passes a sem_wait, a DeQueue or a sem_post, keeps the invariant.
LEMMA OtherStep ==
    ASSUME PipelineInv, UNCHANGED <<head, tail, sem>>, Shape',
           Dequeuers' = Dequeuers, Owed' = Owed, NeverEmpty'
    PROVE  PipelineInv'
<1>1. sem + Cardinality(Dequeuers) + Owed = Count
    BY SemTracksByParts DEF PipelineInv
<1>2. Count' = Count
    BY DEF Count
<1>3. sem' + Cardinality(Dequeuers') + Owed' = Count'
    BY <1>1, <1>2
<1>4. SemTracksQueue'
    BY <1>3 DEF SemTracksQueue, Dequeuers, Owed
<1> QED
    BY <1>4 DEF PipelineInv

LEMMA InitPipelineInv == Init => PipelineInv
<1> SUFFICES ASSUME Init
             PROVE  PipelineInv
    OBVIOUS
<1>1. head \in Slots /\ tail \in Slots /\ sem \in Nat
    BY QueueLenAssumption DEF Init, InitQueue, Slots
<1>2. Shape
    BY DEF Init, Shape, IdleMain, IdleWorker
<1>3. Dequeuers = {} /\ Owed = 0
    BY DEF Init, Dequeuers, Owed, IdleMain, IdleWorker
<1>4. Cardinality(Dequeuers) = 0
    BY <1>3, FS_EmptySet
<1>5. Count = 0
    BY DEF Count, Init, InitQueue
<1>6. SemTracksQueue
  <2>1. sem = 0
      BY DEF Init
  <2> QED
      BY <1>3, <1>4, <1>5, <2>1, SemTracksByParts
<1> QED
    BY <1>1, <1>2, <1>6 DEF PipelineInv, NeverEmpty, Init

\* No step of a client disturbs the invariant.
LEMMA ClientStepInv ==
    ASSUME PipelineInv, NEW c \in Clients, ClientStep(c)
    PROVE  PipelineInv'
<1>1. UNCHANGED <<head, tail, sem, main, worker, crash>>
    BY DEF ClientStep, SendRequest, ReceiveReply, ServerHungUp, queueVars
<1> QED
    BY <1>1, OtherStep DEF PipelineInv, Shape, Dequeuers, Owed, NeverEmpty

\* A death for another reason than an empty queue.
LEMMA OtherDeath ==
    ASSUME PipelineInv, NEW why, why # "queue empty", Die(why)
    PROVE  PipelineInv'
<1>1. UNCHANGED <<head, tail, sem, main, worker>> /\ crash' = why
    BY DEF Die, queueVars
<1> QED
    BY <1>1, OtherStep DEF PipelineInv, Shape, Dequeuers, Owed, NeverEmpty

\* A reply changes nothing that the invariant speaks of.
LEMMA DeliverCrash ==
    ASSUME NEW c, NEW reply, Deliver(c, reply)
    PROVE  crash' = crash \/ crash' = "SIGPIPE"
BY DEF Deliver

\* EnQueue by main, then its sem_post.
LEMMA QueueMessageInv ==
    ASSUME PipelineInv, QueueMessage
    PROVE  PipelineInv'
<1> USE DEF MainAt
<1>1. sem + Cardinality(Dequeuers) + Owed = Count /\ Cardinality(Dequeuers) \in Nat
    BY SemTracksByParts, DequeuersFinite DEF PipelineInv
<1>2. CASE main.pc = "enqueue" /\ isQueueFull
  <2>1. Die("queue full")
      BY <1>2 DEF QueueMessage
  <2> QED
      BY <2>1, OtherDeath
<1>3. CASE main.pc = "enqueue" /\ ~isQueueFull
  <2>1. /\ EnQueue([sock |-> main.sock, app |-> main.app])
        /\ main' = [main EXCEPT !.pc = "post"]
        /\ UNCHANGED <<sem, worker, crash>>
      BY <1>3 DEF QueueMessage
  <2>2. head' \in Slots /\ tail' \in Slots /\ Count' = Count + 1
      BY <2>1, <1>3, EnQueueCount DEF PipelineInv
  <2>3. Owed = 0 /\ Owed' = 1 /\ Dequeuers' = Dequeuers
      BY <2>1, <1>3 DEF Owed, Dequeuers, PipelineInv, Shape
  <2>4. sem' + Cardinality(Dequeuers') + Owed' = Count'
    <3>1. sem' = sem /\ sem \in Nat
        BY <2>1 DEF PipelineInv
    <3> QED
        BY <3>1, <2>2, <2>3, <1>1
  <2>5. SemTracksQueue'
      BY <2>4 DEF SemTracksQueue, Dequeuers, Owed
  <2> QED
      BY <2>1, <2>2, <2>5 DEF PipelineInv, Shape, NeverEmpty
<1>4. CASE main.pc = "post"
  <2>1. /\ sem' = sem + 1
        /\ main' = IdleMain
        /\ UNCHANGED <<head, tail, worker, crash>>
      BY <1>4 DEF QueueMessage, queueVars
  <2>2. Owed = 1 /\ Owed' = 0 /\ Dequeuers' = Dequeuers /\ Count' = Count
      BY <2>1, <1>4 DEF Owed, Dequeuers, IdleMain, Count
  <2>3. sem' + Cardinality(Dequeuers') + Owed' = Count'
    <3>1. sem \in Nat
        BY DEF PipelineInv
    <3> QED
        BY <3>1, <2>1, <2>2, <1>1
  <2>4. SemTracksQueue'
      BY <2>3 DEF SemTracksQueue, Dequeuers, Owed
  <2>5. Shape'
      BY <2>1 DEF PipelineInv, Shape, IdleMain
  <2>6. sem' \in Nat
      BY <2>1 DEF PipelineInv
  <2> QED
      BY <2>1, <2>4, <2>5, <2>6 DEF PipelineInv, NeverEmpty
<1> QED
    BY <1>2, <1>3, <1>4 DEF QueueMessage

\* The other steps of main stay clear of "post".
LEMMA MainStepInv ==
    ASSUME PipelineInv, MainStep
    PROVE  PipelineInv'
<1> USE DEF MainAt
<1>1. ASSUME NEW c \in Clients, ServiceStart(c)
      PROVE  PipelineInv'
  <2>1. UNCHANGED <<head, tail, sem, main, worker, crash>>
      BY <1>1 DEF ServiceStart, queueVars
  <2> QED
      BY <2>1, OtherStep DEF PipelineInv, Shape, Dequeuers, Owed, NeverEmpty
<1>2. ASSUME NEW c \in Clients, RecvMsg(c)
      PROVE  PipelineInv'
  <2>1. /\ UNCHANGED <<head, tail, sem, worker, crash>>
        /\ main.pc = "poll" /\ main' = [main EXCEPT !.pc = "lookup", !.sock = c]
      BY <1>2 DEF RecvMsg, queueVars
  <2>2. main'.pc = "lookup" /\ "pc" \in DOMAIN main'
      BY <2>1 DEF PipelineInv, Shape
  <2> QED
      BY <2>1, <2>2, OtherStep DEF PipelineInv, Shape, Dequeuers, Owed, NeverEmpty
<1>3. ASSUME LookUp
      PROVE  PipelineInv'
  <2>1. CASE mdb[main.sock] = "absent"
    <3>1. Die("no handle")
        BY <1>3, <2>1 DEF LookUp
    <3> QED
        BY <3>1, OtherDeath
  <2>2. CASE mdb[main.sock] # "absent"
    <3>1. /\ UNCHANGED <<head, tail, sem, worker, crash>>
          /\ main.pc = "lookup"
          /\ main' = [main EXCEPT !.pc = "enqueue", !.app = mdb[main.sock]]
        BY <1>3, <2>2 DEF LookUp, queueVars
    <3>2. main'.pc = "enqueue" /\ "pc" \in DOMAIN main'
        BY <3>1 DEF PipelineInv, Shape
    <3> QED
        BY <3>1, <3>2, OtherStep DEF PipelineInv, Shape, Dequeuers, Owed, NeverEmpty
  <2> QED
      BY <2>1, <2>2
<1>4. ASSUME SendSlaveList
      PROVE  PipelineInv'
  <2>1. /\ UNCHANGED <<head, tail, sem, worker>>
        /\ main.pc = "lookup" /\ main' = IdleMain
        /\ crash' = crash \/ crash' = "SIGPIPE"
      BY <1>4, DeliverCrash DEF SendSlaveList, queueVars
  <2> QED
      BY <2>1, OtherStep DEF PipelineInv, Shape, Dequeuers, Owed, NeverEmpty, IdleMain
<1> QED
    BY <1>1, <1>2, <1>3, <1>4, QueueMessageInv DEF MainStep

\* sem_wait: one unit less, one worker more on its way to DeQueue.
LEMMA SemWaitInv ==
    ASSUME PipelineInv, NEW w \in Workers, SemWait(w)
    PROVE  PipelineInv'
<1>1. /\ worker[w].pc = "wait" /\ sem > 0 /\ sem' = sem - 1
      /\ worker' = [worker EXCEPT ![w].pc = "dequeue"]
      /\ UNCHANGED <<head, tail, main, crash>>
    BY DEF SemWait, WorkerAt, queueVars
<1>2. Dequeuers' = Dequeuers \cup {w} /\ w \notin Dequeuers
    BY <1>1 DEF Dequeuers, PipelineInv, Shape
<1>3. Cardinality(Dequeuers') = Cardinality(Dequeuers) + 1
    BY <1>2, DequeuersFinite, FS_AddElement
<1>4. sem' + Cardinality(Dequeuers') + Owed' = Count'
  <2>1. sem + Cardinality(Dequeuers) + Owed = Count
      BY SemTracksByParts DEF PipelineInv
  <2>2. Owed' = Owed /\ Count' = Count /\ Owed \in Nat
      BY <1>1 DEF Owed, Count
  <2>3. sem \in Nat /\ Cardinality(Dequeuers) \in Nat
      BY DequeuersFinite DEF PipelineInv
  <2> QED
      BY <2>1, <2>2, <2>3, <1>1, <1>3
<1>5. SemTracksQueue'
    BY <1>4 DEF SemTracksQueue, Dequeuers, Owed
<1>6. Shape'
    BY <1>1 DEF PipelineInv, Shape
<1>7. sem' \in Nat
    BY <1>1 DEF PipelineInv
<1> QED
    BY <1>1, <1>5, <1>6, <1>7 DEF PipelineInv, NeverEmpty

\* A worker that gets to DeQueue finds a node there, and takes it.
LEMMA TakeNodeInv ==
    ASSUME PipelineInv, NEW w \in Workers, TakeNode(w)
    PROVE  PipelineInv'
<1>1. sem + Cardinality(Dequeuers) + Owed = Count
    BY SemTracksByParts DEF PipelineInv
<1>2. sem \in Nat /\ Cardinality(Dequeuers) \in Nat /\ Owed \in Nat
    BY DequeuersFinite DEF PipelineInv, Owed
<1>3. w \in Dequeuers
    BY DEF TakeNode, WorkerAt, Dequeuers
<1>4. Cardinality(Dequeuers) # 0
    BY <1>3, DequeuersFinite, FS_EmptySet
<1>5. ~isQueueEmpty
  <2>1. Count # 0
      BY <1>1, <1>2, <1>4
  <2>2. head = tail => Count = 0
      BY DEF Count, PipelineInv, Slots
  <2> QED
      BY <2>1, <2>2 DEF isQueueEmpty
<1>6. /\ DeQueue /\ worker[w].pc = "dequeue"
      /\ worker' = [worker EXCEPT ![w].pc = "load", ![w].pnode = head]
      /\ UNCHANGED <<main, sem, crash>>
    BY <1>5 DEF TakeNode, WorkerAt
<1>7. head' \in Slots /\ tail' \in Slots /\ Count' = Count - 1
    BY <1>5, <1>6, DeQueueCount DEF PipelineInv
<1>8. Dequeuers' = Dequeuers \ {w}
    BY <1>6 DEF Dequeuers, PipelineInv, Shape
<1>9. Cardinality(Dequeuers') = Cardinality(Dequeuers) - 1
    BY <1>3, <1>8, DequeuersFinite, FS_RemoveElement
<1>10. sem' + Cardinality(Dequeuers') + Owed' = Count'
  <2>1. sem' = sem /\ Owed' = Owed
      BY <1>6 DEF Owed
  <2> QED
      BY <2>1, <1>1, <1>2, <1>7, <1>9
<1>11. SemTracksQueue'
    BY <1>10 DEF SemTracksQueue, Dequeuers, Owed
<1>12. Shape'
    BY <1>6 DEF PipelineInv, Shape
<1> QED
    BY <1>6, <1>7, <1>11, <1>12 DEF PipelineInv, NeverEmpty

\* A worker that is neither before nor after a DeQueue.
LEMMA WorkerMoves ==
    ASSUME PipelineInv, NEW w \in Workers, worker[w].pc # "dequeue",
           UNCHANGED <<head, tail, sem, main>>, NeverEmpty',
           DOMAIN worker' = Workers,
           \A v \in Workers \ {w} : worker'[v] = worker[v],
           "pc" \in DOMAIN worker'[w], worker'[w].pc # "dequeue"
    PROVE  PipelineInv'
<1>1. Shape'
    BY DEF PipelineInv, Shape
<1>2. Dequeuers' = Dequeuers
    BY DEF PipelineInv, Shape, Dequeuers
<1>3. Owed' = Owed
    BY DEF Owed
<1> QED
    BY <1>1, <1>2, <1>3, OtherStep

LEMMA WorkerStepInv ==
    ASSUME PipelineInv, NEW w \in Workers, WorkerStep(w)
    PROVE  PipelineInv'
<1> USE DEF WorkerAt
<1>0. DOMAIN worker = Workers /\ "pc" \in DOMAIN worker[w] /\ NeverEmpty
    BY DEF PipelineInv, Shape
<1>1. CASE LoadNode(w)
  <2>1. /\ UNCHANGED <<head, tail, sem, main, crash>> /\ worker[w].pc = "load"
        /\ worker' = [worker EXCEPT ![w].pc = "dispatch", ![w].pnode = -1,
                                    ![w].hcsock = Q[worker[w].pnode]]
      BY <1>1 DEF LoadNode, queueVars
  <2> QED
      BY <1>0, <2>1, WorkerMoves DEF NeverEmpty
<1>2. CASE Dispatch(w)
  <2>1. /\ UNCHANGED <<head, tail, sem, main, crash>> /\ worker[w].pc = "dispatch"
        /\ worker' = [worker EXCEPT ![w].pc = "execute", ![w].cmd = szBuf.cmd]
      BY <1>2 DEF Dispatch, queueVars
  <2> QED
      BY <1>0, <2>1, WorkerMoves DEF NeverEmpty
<1>3. CASE Execute(w)
  <2> DEFINE Sends(r, app) ==
                [worker EXCEPT ![w].pc = "send", ![w].cmd = "none",
                               ![w].hcsock.app = app,
                               ![w].sendhd = [cmd |-> r, from |-> szBuf.from]]
  <2>1. \/ Die("wild handle")
        \/ /\ UNCHANGED <<head, tail, sem, main, crash>>
           /\ \E r \in ReplyCmds, app \in Apps : worker' = Sends(r, app)
      BY <1>3 DEF Execute, queueVars, ReplyCmds, Apps
  <2>2. CASE Die("wild handle")
      BY <2>2, OtherDeath
  <2>3. ASSUME NEW r \in ReplyCmds, NEW app \in Apps, worker' = Sends(r, app),
               UNCHANGED <<head, tail, sem, main, crash>>
        PROVE  PipelineInv'
    <3>1. worker[w].pc = "execute"
        BY <1>3 DEF Execute
    <3> QED
        BY <1>0, <2>3, <3>1, WorkerMoves DEF NeverEmpty
  <2> QED
      BY <2>1, <2>2, <2>3
<1>4. CASE SendReply(w)
  <2>1. /\ UNCHANGED <<head, tail, sem, main>> /\ worker[w].pc = "send"
        /\ worker' = [worker EXCEPT ![w].pc = "save"]
        /\ crash' = crash \/ crash' = "SIGPIPE"
      BY <1>4, DeliverCrash DEF SendReply, queueVars
  <2> QED
      BY <1>0, <2>1, WorkerMoves DEF NeverEmpty
<1>5. CASE SaveHandle(w)
  <2>1. /\ UNCHANGED <<head, tail, sem, main, crash>> /\ worker[w].pc = "save"
        /\ \/ worker' = [worker EXCEPT ![w].pc = "stop", ![w].sendhd = NoReply]
           \/ worker' = [worker EXCEPT ![w] = IdleWorker]
      BY <1>5 DEF SaveHandle, queueVars
  <2>2. CASE worker' = [worker EXCEPT ![w].pc = "stop", ![w].sendhd = NoReply]
      BY <1>0, <2>1, <2>2, WorkerMoves DEF NeverEmpty
  <2>3. CASE worker' = [worker EXCEPT ![w] = IdleWorker]
      BY <1>0, <2>1, <2>3, WorkerMoves DEF NeverEmpty, IdleWorker
  <2> QED
      BY <2>1, <2>2, <2>3
<1>6. CASE ServiceStop(w)
  <2>1. CASE Die("no handle")
      BY <2>1, OtherDeath
  <2>2. CASE /\ UNCHANGED <<head, tail, sem, main, crash>>
             /\ worker[w].pc = "stop"
             /\ worker' = [worker EXCEPT ![w].pc = "delete"]
      BY <1>0, <2>2, WorkerMoves DEF NeverEmpty
  <2>3. CASE /\ UNCHANGED <<head, tail, sem, main, crash>>
             /\ worker[w].pc = "delete"
             /\ worker' = [worker EXCEPT ![w] = IdleWorker]
      BY <1>0, <2>3, WorkerMoves DEF NeverEmpty, IdleWorker
  <2> QED
      BY <1>6, <2>1, <2>2, <2>3 DEF ServiceStop, queueVars
<1> QED
    BY <1>1, <1>2, <1>3, <1>4, <1>5, <1>6, SemWaitInv, TakeNodeInv DEF WorkerStep

\* The invariant holds in every reachable state.
THEOREM PipelineInvariant == Spec => []PipelineInv
<1>1. Init => PipelineInv
    BY InitPipelineInv
<1>2. PipelineInv /\ [Next]_vars => PipelineInv'
  <2> SUFFICES ASSUME PipelineInv, [Next]_vars
               PROVE  PipelineInv'
      OBVIOUS
  <2>1. CASE UNCHANGED vars
    <3>1. UNCHANGED <<head, tail, sem, main, worker, crash>>
        BY <2>1 DEF vars, queueVars
    <3> QED
        BY <3>1, OtherStep DEF PipelineInv, Shape, Dequeuers, Owed, NeverEmpty
  <2> QED
      BY <2>1, ClientStepInv, MainStepInv, WorkerStepInv DEF Next
<1> QED
    BY <1>1, <1>2, PTL DEF Spec

\* For every number of clients and workers and every length of the array,
\* MSG_SEM counts the queued nodes nobody is on the way to take.
THEOREM SemaphoreTracksQueue == Spec => []SemTracksQueue
<1>1. PipelineInv => SemTracksQueue
    BY DEF PipelineInv
<1> QED
    BY <1>1, PipelineInvariant, PTL

\* The assertion of DeQueue never fails: a worker that passes sem_wait finds
\* a node, however the threads are interleaved.
THEOREM DeQueueAssertion == Spec => []NeverEmpty
<1>1. PipelineInv => NeverEmpty
    BY DEF PipelineInv
<1> QED
    BY <1>1, PipelineInvariant, PTL

-----------------------------------------------------------------------------
(* Types.  What is behind them: a worker reads a slot that has been filled *)
(* (Filled), and nobody gets to szBuf before its first message (Untouched).*)

MainRecs == [pc : MainPCs, sock : Clients \cup {"none"}, app : Apps]
WorkerRecs == [pc : WorkerPCs, pnode : Slots \cup {-1}, hcsock : Nodes \cup {NoNode},
               cmd : Commands \cup {"none"}, sendhd : Replies \cup {NoReply}]
ClientRecs == [pc : ClientPCs, cmd : Commands \cup {"none"}, opened : BOOLEAN]

Types ==
    /\ QueueTypeOK(Nodes)
    /\ main \in MainRecs
    /\ szBuf \in Messages \cup {NoMsg}
    /\ worker \in [Workers -> WorkerRecs]
    /\ mdb \in [Clients -> Apps \cup {"absent"}]
    /\ connected \subseteq Clients
    /\ inbox \in [Clients -> Seq(Messages)]
    /\ outbox \in [Clients -> Seq(Replies)]
    /\ client \in [Clients -> ClientRecs]
    /\ crash \in Crashes

\* The queued slots, and those that a worker is about to read, hold nodes.
Filled ==
    /\ \A i \in 1..Count : Contents[i] \in Nodes
    /\ \A w \in Workers : worker[w].pc = "load" =>
          worker[w].pnode \in Slots /\ Q[worker[w].pnode] \in Nodes

\* The locals of the threads have a value where they are used.
Locals ==
    /\ main.pc # "poll" => main.sock \in Clients
    /\ \A c \in Clients : client[c].pc = "waiting" => client[c].cmd \in Commands
    /\ \A w \in Workers :
          /\ worker[w].pc \in {"dispatch", "execute", "send", "save", "stop", "delete"} =>
                worker[w].hcsock \in Nodes
          /\ worker[w].pc = "execute" => worker[w].cmd \in Commands
          /\ worker[w].pc = "send" => worker[w].sendhd \in Replies

\* Before the first message: no work, and no client that has left.
Untouched ==
    szBuf = NoMsg =>
        /\ main.pc = "poll" /\ Count = 0
        /\ \A w \in Workers : worker[w].pc = "wait"
        /\ \A c \in Clients : /\ outbox[c] = <<>>
                              /\ client[c].pc \in {"out", "ready", "waiting"}
                              /\ client[c].pc # "out" => c \in connected

TypeInv == Types /\ Filled /\ Locals /\ Untouched

-----------------------------------------------------------------------------
(* The types are invariant.                                                *)

LEMMA InitTypes == Init => TypeInv
<1> SUFFICES ASSUME Init
             PROVE  TypeInv
    OBVIOUS
<1> USE DEF Init, InitQueue
<1>1. QueueTypeOK(Nodes) /\ Count = 0
    BY QueueLenAssumption DEF QueueTypeOK, Slots, Count
<1>2. main \in MainRecs /\ worker \in [Workers -> WorkerRecs]
    BY DEF IdleMain, MainRecs, MainPCs, Apps, IdleWorker, WorkerRecs, WorkerPCs
<1>3. client \in [Clients -> ClientRecs]
    BY DEF ClientRecs, ClientPCs
<1>4. Types
    BY <1>1, <1>2, <1>3 DEF Types, Crashes
<1>5. Filled /\ Locals
    BY <1>1 DEF Filled, Locals, IdleMain, IdleWorker
<1>6. Untouched
    BY <1>1 DEF Untouched, IdleMain, IdleWorker
<1> QED
    BY <1>4, <1>5, <1>6 DEF TypeInv

\* A step that does not touch the queue, and in which no worker takes a node.
LEMMA FilledKept ==
    ASSUME Filled, UNCHANGED queueVars,
           \A v \in Workers : worker'[v].pc = "load" =>
              worker[v].pc = "load" /\ worker'[v].pnode = worker[v].pnode
    PROVE  Filled' /\ Count' = Count
<1>1. Count' = Count /\ Contents' = Contents
    BY DEF queueVars, Count, Contents
<1> QED
    BY <1>1 DEF Filled, queueVars

LEMMA ClientStepTypes ==
    ASSUME TypeInv, NEW c \in Clients, ClientStep(c)
    PROVE  TypeInv'
<1> USE DEF ClientAt
<1>1. /\ UNCHANGED <<queueVars, main, szBuf, worker, mdb, connected, crash>>
      /\ client[c].pc \in {"ready", "waiting", "leaving"}
    BY DEF ClientStep, SendRequest, ReceiveReply, ServerHungUp
<1>2. Filled' /\ Count' = Count
    BY <1>1, FilledKept DEF TypeInv
<1>3. QueueTypeOK(Nodes)'
    BY <1>1 DEF TypeInv, Types, QueueTypeOK, queueVars
<1>4. SUFFICES /\ inbox' \in [Clients -> Seq(Messages)]
               /\ outbox' \in [Clients -> Seq(Replies)]
               /\ client' \in [Clients -> ClientRecs]
               /\ \A b \in Clients : client'[b].pc = "waiting" => client'[b].cmd \in Commands
               /\ Untouched'
  <2>1. Types'
      BY <1>1, <1>3, <1>4 DEF TypeInv, Types
  <2>2. Locals'
      BY <1>1, <1>4 DEF TypeInv, Locals
  <2> QED
      BY <1>2, <1>4, <2>1, <2>2 DEF TypeInv
<1>5. CASE SendRequest(c)
  <2>1. PICK m \in Messages :
           /\ inbox' = [inbox EXCEPT ![c] = Append(@, m)]
           /\ client' = [client EXCEPT ![c].pc = "waiting", ![c].cmd = m.cmd]
           /\ c \in connected /\ UNCHANGED outbox
      BY <1>5 DEF SendRequest
  <2>2. m.cmd \in Commands
      BY DEF Messages
  <2>3. inbox' \in [Clients -> Seq(Messages)]
      BY <2>1 DEF TypeInv, Types
  <2>4. client' \in [Clients -> ClientRecs]
      BY <2>1, <2>2 DEF TypeInv, Types, ClientRecs, ClientPCs
  <2>5. /\ client'[c].pc = "waiting" /\ client'[c].cmd = m.cmd
        /\ \A b \in Clients : b # c => client'[b] = client[b]
      BY <2>1 DEF TypeInv, Types, ClientRecs
  <2>6. Untouched'
      BY <1>1, <1>2, <2>1, <2>5 DEF TypeInv, Untouched
  <2> QED
      BY <2>1, <2>2, <2>3, <2>4, <2>5, <2>6 DEF TypeInv, Types, Locals
<1>6. CASE ReceiveReply(c)
  <2>1. /\ client[c].pc = "waiting" /\ outbox[c] # <<>> /\ UNCHANGED inbox
        /\ outbox' = [outbox EXCEPT ![c] = Tail(@)]
      BY <1>6 DEF ReceiveReply
  <2>2. client[c].cmd \in Commands
      BY <2>1 DEF TypeInv, Locals
  <2>3. \E next \in {"ready", "silent", "leaving", "gone"}, o \in BOOLEAN :
           client' = [client EXCEPT ![c].pc = next, ![c].opened = o]
      BY <1>6, <2>2 DEF ReceiveReply, Commands, TypeInv, Types, ClientRecs
  <2>4. PICK next \in {"ready", "silent", "leaving", "gone"}, o \in BOOLEAN :
           client' = [client EXCEPT ![c].pc = next, ![c].opened = o]
      BY <2>3
  <2>5. outbox' \in [Clients -> Seq(Replies)]
      BY <2>1 DEF TypeInv, Types
  <2>6. client' \in [Clients -> ClientRecs]
      BY <2>4 DEF TypeInv, Types, ClientRecs, ClientPCs
  <2>7. /\ client'[c].pc = next
        /\ \A b \in Clients : b # c => client'[b] = client[b]
      BY <2>4 DEF TypeInv, Types, ClientRecs
  <2>8. Untouched'
      BY <1>1, <2>1 DEF TypeInv, Untouched
  <2> QED
      BY <2>1, <2>5, <2>6, <2>7, <2>8 DEF TypeInv, Types, Locals
<1>7. CASE ServerHungUp(c)
  <2>1. /\ c \notin connected /\ UNCHANGED <<inbox, outbox>>
        /\ client' = [client EXCEPT ![c].pc = "gone"]
      BY <1>7 DEF ServerHungUp
  <2>2. client' \in [Clients -> ClientRecs]
      BY <2>1 DEF TypeInv, Types, ClientRecs, ClientPCs
  <2>3. /\ client'[c].pc = "gone"
        /\ \A b \in Clients : b # c => client'[b] = client[b]
      BY <2>1 DEF TypeInv, Types, ClientRecs
  <2>4. Untouched'
      BY <1>1, <2>1 DEF TypeInv, Untouched
  <2> QED
      BY <2>1, <2>2, <2>3, <2>4 DEF TypeInv, Types, Locals
<1> QED
    BY <1>5, <1>6, <1>7 DEF ClientStep

LEMMA DieTypes ==
    ASSUME TypeInv, NEW why \in Crashes, Die(why)
    PROVE  TypeInv'
<1>1. /\ crash' = why
      /\ UNCHANGED <<queueVars, main, szBuf, worker, mdb, connected, inbox, outbox, client>>
    BY DEF Die, clientVars
<1>2. Filled' /\ Count' = Count
    BY <1>1, FilledKept DEF TypeInv
<1>3. Types'
    BY <1>1 DEF TypeInv, Types, QueueTypeOK, queueVars
<1>4. Locals' /\ Untouched'
    BY <1>1, <1>2 DEF TypeInv, Locals, Untouched
<1> QED
    BY <1>2, <1>3, <1>4 DEF TypeInv

\* What a reply may do to the sockets.
LEMMA DeliverTypes ==
    ASSUME Types, NEW c \in Clients, NEW reply \in Replies, Deliver(c, reply)
    PROVE  outbox' \in [Clients -> Seq(Replies)] /\ crash' \in Crashes
<1>1. outbox \in [Clients -> Seq(Replies)] /\ crash \in Crashes /\ "SIGPIPE" \in Crashes
    BY DEF Types, Crashes
<1>2. CASE outbox' = [outbox EXCEPT ![c] = Append(@, reply)] /\ crash' = crash
  <2>1. Append(outbox[c], reply) \in Seq(Replies)
      BY <1>1
  <2> QED
      BY <1>1, <1>2, <2>1
<1>3. CASE outbox' = outbox /\ (crash' = crash \/ crash' = "SIGPIPE")
    BY <1>1, <1>3
<1> QED
    BY <1>2, <1>3 DEF Deliver

\* The queue as a sequence.
LEMMA ContentsSeq ==
    ASSUME PipelineInv, Types
    PROVE  /\ Contents \in Seq(Nodes \cup {NoItem}) /\ Len(Contents) = Count
           /\ Count \in 0..(MAX_QUEUE_LEN - 1)
<1>1. head \in Slots /\ tail \in Slots /\ \A x \in Slots : Q[x] \in Nodes \cup {NoItem}
    BY DEF PipelineInv, Types, QueueTypeOK
<1>2. Count \in 0..(MAX_QUEUE_LEN - 1)
    BY <1>1, CountRange DEF Count
<1>3. Count \in Nat /\ Count < MAX_QUEUE_LEN
    BY <1>2, QueueLenAssumption
<1>4. PICK h, c, q : h = head /\ c = Count /\ q = Q
    OBVIOUS
<1>5. NodesOf(q, h, c) \in Seq(Nodes \cup {NoItem}) /\ Len(NodesOf(q, h, c)) = c
    BY <1>1, <1>3, <1>4, NodesOfSeq
<1>6. Contents = NodesOf(q, h, c)
    BY <1>4 DEF Contents, NodesOf
<1> QED
    BY <1>2, <1>4, <1>5, <1>6

\* A step of main between two messages, or with one at hand.
LEMMA MainMovesTypes ==
    ASSUME TypeInv, UNCHANGED <<queueVars, worker, inbox, client, connected>>,
           szBuf # NoMsg, UNCHANGED szBuf, UNCHANGED mdb,
           main' \in MainRecs, main'.pc # "poll" => main'.sock \in Clients,
           outbox' \in [Clients -> Seq(Replies)], crash' \in Crashes
    PROVE  TypeInv'
<1>1. Filled' /\ Count' = Count
    BY FilledKept DEF TypeInv
<1>2. Types'
    BY DEF TypeInv, Types, QueueTypeOK, queueVars
<1>3. Locals' /\ Untouched'
    BY DEF TypeInv, Locals, Untouched
<1> QED
    BY <1>1, <1>2, <1>3 DEF TypeInv

\* DBServiceStart and recv.
LEMMA ConnectTypes ==
    ASSUME TypeInv, NEW c \in Clients, ServiceStart(c)
    PROVE  TypeInv'
<1>1. /\ UNCHANGED <<queueVars, main, szBuf, worker, inbox, outbox, crash>>
      /\ client' = [client EXCEPT ![c].pc = "ready"]
      /\ connected' = connected \cup {c}
      /\ mdb' = [mdb EXCEPT ![c] = "garbage"]
    BY DEF ServiceStart
<1>2. Filled' /\ Count' = Count
    BY <1>1, FilledKept DEF TypeInv
<1>3. /\ client' \in [Clients -> ClientRecs] /\ client'[c].pc = "ready"
      /\ \A b \in Clients : b # c => client'[b] = client[b]
    BY <1>1 DEF TypeInv, Types, ClientRecs, ClientPCs
<1>4. mdb' \in [Clients -> Apps \cup {"absent"}]
    BY <1>1 DEF TypeInv, Types, Apps
<1>5. Types'
    BY <1>1, <1>3, <1>4 DEF TypeInv, Types, QueueTypeOK, queueVars
<1>6. Locals'
    BY <1>1, <1>3 DEF TypeInv, Locals
<1>7. Untouched'
    BY <1>1, <1>2, <1>3 DEF TypeInv, Untouched
<1> QED
    BY <1>2, <1>5, <1>6, <1>7 DEF TypeInv

LEMMA RecvTypes ==
    ASSUME TypeInv, NEW c \in Clients, RecvMsg(c)
    PROVE  TypeInv'
<1>1. /\ UNCHANGED <<queueVars, worker, mdb, connected, outbox, client, crash>>
      /\ main' = [main EXCEPT !.pc = "lookup", !.sock = c]
    BY DEF RecvMsg
<1>2. Filled' /\ Count' = Count
    BY <1>1, FilledKept DEF TypeInv
<1>3. szBuf' \in Messages /\ inbox' \in [Clients -> Seq(Messages)]
  <2>1. CASE inbox[c] # <<>>
    <3>1. inbox[c] \in Seq(Messages) /\ inbox \in [Clients -> Seq(Messages)]
        BY DEF TypeInv, Types
    <3>2. Head(inbox[c]) \in Messages /\ Tail(inbox[c]) \in Seq(Messages)
        BY <2>1, <3>1, HeadTailProperties
    <3>3. szBuf' = Head(inbox[c]) /\ inbox' = [inbox EXCEPT ![c] = Tail(@)]
        BY <2>1 DEF RecvMsg
    <3> QED
        BY <3>1, <3>2, <3>3
  <2>2. CASE inbox[c] = <<>>
    <3>1. client[c].pc = "gone" /\ szBuf' = szBuf /\ inbox' = inbox
        BY <2>2 DEF RecvMsg
    <3> QED
        BY <3>1 DEF TypeInv, Types, Untouched
  <2> QED
      BY <2>1, <2>2
<1>4. szBuf' # NoMsg
    BY <1>3 DEF Messages, NoMsg, Commands
<1>5. main' \in MainRecs /\ main'.sock = c
    BY <1>1 DEF TypeInv, Types, MainRecs, MainPCs
<1>6. Types'
    BY <1>1, <1>3, <1>5 DEF TypeInv, Types, QueueTypeOK, queueVars
<1>7. Locals' /\ Untouched'
    BY <1>1, <1>4, <1>5 DEF TypeInv, Locals, Untouched
<1> QED
    BY <1>2, <1>6, <1>7 DEF TypeInv

\* EnQueue, then sem_post.
LEMMA QueueMessageTypes ==
    ASSUME PipelineInv, TypeInv, QueueMessage
    PROVE  TypeInv'
<1> USE DEF MainAt
<1>0. main.pc # "poll" /\ main.sock \in Clients /\ szBuf # NoMsg
    BY DEF QueueMessage, TypeInv, Locals, Untouched
<1>1. CASE main.pc = "enqueue" /\ isQueueFull
  <2>1. Die("queue full") /\ "queue full" \in Crashes
      BY <1>1 DEF QueueMessage, Crashes
  <2> QED
      BY <2>1, DieTypes
<1>2. CASE main.pc = "enqueue" /\ ~isQueueFull
  <2>1. PICK node : node = [sock |-> main.sock, app |-> main.app]
      OBVIOUS
  <2>2. node \in Nodes
      BY <1>0, <2>1 DEF Nodes, TypeInv, Types, MainRecs
  <2>3. /\ EnQueue(node) /\ main' = [main EXCEPT !.pc = "post"]
        /\ UNCHANGED <<szBuf, worker, mdb, connected, inbox, outbox, client, crash>>
      BY <1>2, <2>1 DEF QueueMessage, clientVars
  <2>4. /\ head \in Slots /\ tail \in Slots /\ DOMAIN Q = Slots
        /\ Q \in [Slots -> Nodes \cup {NoItem}]
      BY DEF PipelineInv, TypeInv, Types, QueueTypeOK
  <2>5. /\ head' \in Slots /\ tail' \in Slots /\ Count' = Count + 1
        /\ Contents' = Append(Contents, node)
      BY <1>2, <2>3, <2>4, EnQueueCount, EnQueueContents
  <2>6. Q' = [Q EXCEPT ![tail] = node]
      BY <2>3 DEF EnQueue
  <2>7. QueueTypeOK(Nodes)'
      BY <2>2, <2>4, <2>5, <2>6 DEF QueueTypeOK
  <2>8. main' \in MainRecs /\ main'.sock = main.sock
      BY <2>3 DEF TypeInv, Types, MainRecs, MainPCs
  <2>9. Types'
      BY <2>3, <2>7, <2>8 DEF TypeInv, Types
  <2>10. Filled'
    <3>1. /\ Contents \in Seq(Nodes \cup {NoItem}) /\ Len(Contents) = Count
          /\ Count \in Nat /\ \A i \in 1..Count : Contents[i] \in Nodes
        BY ContentsSeq, QueueLenAssumption DEF TypeInv, Filled
    <3>2. ASSUME NEW i \in 1..Count' PROVE Contents'[i] \in Nodes
      <4>0. PICK k : k = i
          OBVIOUS
      <4>1. CASE k = Count + 1
          BY <2>2, <2>5, <3>1, <4>0, <4>1
      <4>2. CASE k \in 1..Count
          BY <2>5, <3>1, <4>0, <4>2
      <4> QED
          BY <2>5, <3>1, <4>0, <4>1, <4>2
    <3>3. \A w \in Workers : worker'[w].pc = "load" =>
             worker'[w].pnode \in Slots /\ Q'[worker'[w].pnode] \in Nodes
        BY <2>2, <2>3, <2>4, <2>6 DEF TypeInv, Filled
    <3> QED
        BY <3>2, <3>3 DEF Filled
  <2>11. Locals' /\ Untouched'
      BY <1>0, <2>3, <2>8 DEF TypeInv, Locals, Untouched
  <2> QED
      BY <2>9, <2>10, <2>11 DEF TypeInv
<1>3. CASE main.pc = "post"
  <2>1. /\ main' = IdleMain
        /\ UNCHANGED <<queueVars, szBuf, worker, mdb, connected, inbox, outbox, client, crash>>
      BY <1>3 DEF QueueMessage, clientVars
  <2>2. main' \in MainRecs /\ main'.pc = "poll"
      BY <2>1 DEF IdleMain, MainRecs, MainPCs, Apps
  <2>3. outbox' \in [Clients -> Seq(Replies)] /\ crash' \in Crashes
      BY <2>1 DEF TypeInv, Types
  <2> QED
      BY <1>0, <2>1, <2>2, <2>3, MainMovesTypes
<1> QED
    BY <1>1, <1>2, <1>3 DEF QueueMessage

LEMMA MainStepTypes ==
    ASSUME PipelineInv, TypeInv, MainStep
    PROVE  TypeInv'
<1> USE DEF MainAt
<1>1. CASE LookUp
  <2>0. main.pc = "lookup" /\ main.sock \in Clients /\ szBuf # NoMsg
      BY <1>1 DEF LookUp, TypeInv, Locals, Untouched
  <2>1. CASE mdb[main.sock] = "absent"
    <3>1. Die("no handle") /\ "no handle" \in Crashes
        BY <1>1, <2>1 DEF LookUp, Crashes
    <3> QED
        BY <3>1, DieTypes
  <2>2. CASE mdb[main.sock] # "absent"
    <3>1. /\ main' = [main EXCEPT !.pc = "enqueue", !.app = mdb[main.sock]]
          /\ UNCHANGED <<queueVars, szBuf, worker, mdb, connected, inbox, outbox, client, crash>>
        BY <1>1, <2>2 DEF LookUp, clientVars
    <3>2. mdb[main.sock] \in Apps
        BY <2>0, <2>2 DEF TypeInv, Types
    <3>3. main' \in MainRecs /\ main'.sock = main.sock
        BY <3>1, <3>2 DEF TypeInv, Types, MainRecs, MainPCs
    <3>4. outbox' \in [Clients -> Seq(Replies)] /\ crash' \in Crashes
        BY <3>1 DEF TypeInv, Types
    <3> QED
        BY <2>0, <3>1, <3>3, <3>4, MainMovesTypes
  <2> QED
      BY <2>1, <2>2
<1>2. CASE SendSlaveList
  <2>1. /\ main.pc = "lookup" /\ main.sock \in Clients /\ szBuf # NoMsg
        /\ szBuf \in Messages
      BY <1>2 DEF SendSlaveList, TypeInv, Locals, Untouched, Types
  <2>2. [cmd |-> "UPDATE_VERSION", from |-> szBuf.from] \in Replies
      BY <2>1 DEF Messages, Replies, ReplyCmds
  <2>3. /\ Deliver(main.sock, [cmd |-> "UPDATE_VERSION", from |-> szBuf.from])
        /\ main' = IdleMain
        /\ UNCHANGED <<queueVars, szBuf, worker, mdb, connected, inbox, client>>
      BY <1>2 DEF SendSlaveList
  <2>4. outbox' \in [Clients -> Seq(Replies)] /\ crash' \in Crashes
      BY <2>1, <2>2, <2>3, DeliverTypes DEF TypeInv
  <2>5. main' \in MainRecs /\ main'.pc = "poll"
      BY <2>3 DEF IdleMain, MainRecs, MainPCs, Apps
  <2> QED
      BY <2>1, <2>3, <2>4, <2>5, MainMovesTypes
<1> QED
    BY <1>1, <1>2, ConnectTypes, RecvTypes, QueueMessageTypes DEF MainStep

\* A step of a worker with a message at hand, that does not take a node.
LEMMA WorkerMovesTypes ==
    ASSUME TypeInv, NEW w \in Workers, NEW r \in WorkerRecs,
           worker' = [worker EXCEPT ![w] = r], worker[w].pc # "wait", r.pc # "load",
           r.pc \in {"dispatch", "execute", "send", "save", "stop", "delete"} =>
              r.hcsock \in Nodes,
           r.pc = "execute" => r.cmd \in Commands,
           r.pc = "send" => r.sendhd \in Replies,
           UNCHANGED <<queueVars, main, szBuf, inbox, client>>,
           mdb' \in [Clients -> Apps \cup {"absent"}], connected' \subseteq Clients,
           outbox' \in [Clients -> Seq(Replies)], crash' \in Crashes
    PROVE  TypeInv'
<1>1. worker'[w] = r /\ \A v \in Workers : v # w => worker'[v] = worker[v]
    BY DEF TypeInv, Types
<1>2. Filled' /\ Count' = Count
    BY <1>1, FilledKept DEF TypeInv
<1>3. Types'
    BY DEF TypeInv, Types, QueueTypeOK, queueVars
<1>4. Locals'
    BY <1>1 DEF TypeInv, Locals
<1>5. szBuf' # NoMsg
    BY DEF TypeInv, Untouched
<1>6. Untouched'
    BY <1>5 DEF Untouched
<1> QED
    BY <1>2, <1>3, <1>4, <1>6 DEF TypeInv

LEMMA SemWaitTypes ==
    ASSUME PipelineInv, TypeInv, NEW w \in Workers, SemWait(w)
    PROVE  TypeInv'
<1>1. /\ sem > 0 /\ worker[w].pc = "wait"
      /\ worker' = [worker EXCEPT ![w].pc = "dequeue"]
      /\ UNCHANGED <<queueVars, main, szBuf, mdb, connected, inbox, outbox, client, crash>>
    BY DEF SemWait, WorkerAt, clientVars
<1>2. /\ worker' \in [Workers -> WorkerRecs] /\ worker'[w].pc = "dequeue"
      /\ \A v \in Workers : v # w => worker'[v] = worker[v]
    BY <1>1 DEF TypeInv, Types, WorkerRecs, WorkerPCs
<1>3. Filled' /\ Count' = Count
    BY <1>1, <1>2, FilledKept DEF TypeInv
<1>4. Types'
    BY <1>1, <1>2 DEF TypeInv, Types, QueueTypeOK, queueVars
<1>5. Locals'
    BY <1>1, <1>2 DEF TypeInv, Locals
<1>6. szBuf # NoMsg
  <2>1. sem + Cardinality(Dequeuers) + Owed = Count
      BY SemTracksByParts DEF PipelineInv
  <2>2. Count # 0
      BY <2>1, <1>1, DequeuersFinite DEF PipelineInv, Owed
  <2> QED
      BY <2>2 DEF TypeInv, Untouched
<1>7. Untouched'
    BY <1>1, <1>6 DEF Untouched
<1> QED
    BY <1>3, <1>4, <1>5, <1>7 DEF TypeInv

\* The position a worker gets is the one of the first queued node.
LEMMA TakeNodeTypes ==
    ASSUME PipelineInv, TypeInv, NEW w \in Workers, TakeNode(w)
    PROVE  TypeInv'
<1>1. CASE isQueueEmpty
  <2>1. Die("queue empty") /\ "queue empty" \in Crashes
      BY <1>1 DEF TakeNode, Crashes
  <2> QED
      BY <2>1, DieTypes
<1>2. CASE ~isQueueEmpty
  <2>1. /\ DeQueue /\ worker[w].pc = "dequeue"
        /\ worker' = [worker EXCEPT ![w].pc = "load", ![w].pnode = head]
        /\ UNCHANGED <<main, szBuf, mdb, connected, inbox, outbox, client, crash>>
      BY <1>2 DEF TakeNode, WorkerAt, clientVars
  <2>2. head \in Slots /\ tail \in Slots /\ Q' = Q
      BY <2>1 DEF PipelineInv, DeQueue
  <2>3. /\ head' \in Slots /\ tail' \in Slots /\ Count' = Count - 1
        /\ Contents # <<>> /\ Head(Contents) = Q[head] /\ Contents' = Tail(Contents)
      BY <1>2, <2>1, <2>2, DeQueueCount, DeQueueContents
  <2>4. /\ worker' \in [Workers -> WorkerRecs]
        /\ worker'[w].pc = "load" /\ worker'[w].pnode = head
        /\ \A v \in Workers : v # w => worker'[v] = worker[v]
    <3>1. PICK k \in WorkerRecs : k = worker[w]
        BY DEF TypeInv, Types
    <3>2. PICK r : r = [k EXCEPT !.pc = "load", !.pnode = head]
        OBVIOUS
    <3>3. r \in WorkerRecs /\ r.pc = "load" /\ r.pnode = head
        BY <2>2, <3>2 DEF WorkerRecs, WorkerPCs
    <3>4. worker' = [worker EXCEPT ![w] = r] /\ worker \in [Workers -> WorkerRecs]
        BY <2>1, <3>1, <3>2 DEF TypeInv, Types
    <3> QED
        BY <3>3, <3>4
  <2>5. Types'
      BY <2>1, <2>2, <2>3, <2>4 DEF TypeInv, Types, QueueTypeOK
  <2>6. /\ Contents \in Seq(Nodes \cup {NoItem}) /\ Len(Contents) = Count
        /\ Count \in Nat /\ \A i \in 1..Count : Contents[i] \in Nodes
      BY ContentsSeq, QueueLenAssumption DEF TypeInv, Filled
  <2>7. Q[head] \in Nodes
      BY <2>3, <2>6
  <2>8. ASSUME NEW i \in 1..Count' PROVE Contents'[i] \in Nodes
    <3>0. PICK k : k = i
        OBVIOUS
    <3>1. k \in 1..(Count - 1)
        BY <2>3, <3>0
    <3>2. k + 1 \in 1..Count /\ Tail(Contents)[k] = Contents[k + 1]
        BY <2>3, <2>6, <3>1, HeadTailProperties
    <3> QED
        BY <2>3, <2>6, <3>0, <3>2
  <2>9. Filled'
      BY <2>2, <2>4, <2>7, <2>8 DEF TypeInv, Filled
  <2>10. Locals'
      BY <2>1, <2>4 DEF TypeInv, Locals
  <2>11. szBuf # NoMsg
      BY <2>1 DEF TypeInv, Untouched
  <2>12. Untouched'
      BY <2>1, <2>11 DEF Untouched
  <2> QED
      BY <2>5, <2>9, <2>10, <2>12 DEF TypeInv
<1> QED
    BY <1>1, <1>2

LEMMA WorkerStepTypes ==
    ASSUME PipelineInv, TypeInv, NEW w \in Workers, WorkerStep(w)
    PROVE  TypeInv'
<1> USE DEF WorkerAt
<1>0. PICK k \in WorkerRecs : k = worker[w]
    BY DEF TypeInv, Types
<1>1. CASE LoadNode(w)
  <2>1. k.pc = "load" /\ Q[k.pnode] \in Nodes
      BY <1>0, <1>1 DEF LoadNode, TypeInv, Filled
  <2>2. PICK r : r = [k EXCEPT !.pc = "dispatch", !.pnode = -1, !.hcsock = Q[k.pnode]]
      OBVIOUS
  <2>3. r \in WorkerRecs /\ r.pc = "dispatch" /\ r.hcsock \in Nodes
      BY <2>1, <2>2 DEF WorkerRecs, WorkerPCs
  <2>4. /\ worker' = [worker EXCEPT ![w] = r]
        /\ UNCHANGED <<queueVars, main, szBuf, mdb, connected, inbox, outbox, client, crash>>
      BY <1>0, <1>1, <2>2 DEF LoadNode, clientVars, TypeInv, Types
  <2> QED
      BY <1>0, <2>1, <2>3, <2>4, WorkerMovesTypes DEF TypeInv, Types
<1>2. CASE Dispatch(w)
  <2>1. k.pc = "dispatch" /\ k.hcsock \in Nodes /\ szBuf.cmd \in Commands
      BY <1>0, <1>2 DEF Dispatch, TypeInv, Locals, Untouched, Types, Messages
  <2>2. PICK r : r = [k EXCEPT !.pc = "execute", !.cmd = szBuf.cmd]
      OBVIOUS
  <2>3. r \in WorkerRecs /\ r.pc = "execute" /\ r.hcsock \in Nodes /\ r.cmd \in Commands
      BY <2>1, <2>2 DEF WorkerRecs, WorkerPCs
  <2>4. /\ worker' = [worker EXCEPT ![w] = r]
        /\ UNCHANGED <<queueVars, main, szBuf, mdb, connected, inbox, outbox, client, crash>>
      BY <1>0, <1>2, <2>2 DEF Dispatch, clientVars, TypeInv, Types
  <2> QED
      BY <1>0, <2>1, <2>3, <2>4, WorkerMovesTypes DEF TypeInv, Types
<1>3. CASE Execute(w)
  <2>1. k.pc = "execute" /\ k.hcsock \in Nodes /\ szBuf \in Messages
      BY <1>0, <1>3 DEF Execute, TypeInv, Locals, Untouched, Types
  <2>2. CASE Die("wild handle")
      BY <2>2, DieTypes DEF Crashes
  <2>3. ASSUME NEW a \in ReplyCmds, NEW app \in Apps,
               worker' = [worker EXCEPT ![w] =
                            [k EXCEPT !.pc = "send", !.cmd = "none", !.hcsock.app = app,
                                      !.sendhd = [cmd |-> a, from |-> szBuf.from]]],
               UNCHANGED <<queueVars, main, szBuf, mdb, connected, inbox, outbox, client, crash>>
        PROVE  TypeInv'
    <3>1. PICK h : h = [cmd |-> a, from |-> szBuf.from]
        OBVIOUS
    <3>2. h \in Replies
        BY <2>1, <3>1 DEF Messages, Replies
    <3>3. PICK n : n = [k.hcsock EXCEPT !.app = app]
        OBVIOUS
    <3>4. n \in Nodes
        BY <2>1, <3>3 DEF Nodes
    <3>5. PICK r : r = [k EXCEPT !.pc = "send", !.cmd = "none", !.hcsock = n, !.sendhd = h]
        OBVIOUS
    <3>6. /\ r \in WorkerRecs /\ r.pc = "send" /\ r.hcsock \in Nodes
          /\ r.sendhd \in Replies
        BY <3>2, <3>4, <3>5 DEF WorkerRecs, WorkerPCs
    <3>7. worker' = [worker EXCEPT ![w] = r]
        BY <2>3, <3>1, <3>3, <3>5
    <3> QED
        BY <1>0, <2>1, <2>3, <3>6, <3>7, WorkerMovesTypes DEF TypeInv, Types
  <2>4. \/ Die("wild handle")
        \/ \E a \in ReplyCmds, app \in Apps :
              /\ worker' = [worker EXCEPT ![w] =
                              [k EXCEPT !.pc = "send", !.cmd = "none", !.hcsock.app = app,
                                        !.sendhd = [cmd |-> a, from |-> szBuf.from]]]
              /\ UNCHANGED <<queueVars, main, szBuf, mdb, connected, inbox, outbox, client, crash>>
    <3> DEFINE Sends(a, app) ==
                  /\ worker' = [worker EXCEPT ![w].pc = "send", ![w].cmd = "none",
                                              ![w].hcsock.app = app,
                                              ![w].sendhd = [cmd |-> a, from |-> szBuf.from]]
                  /\ UNCHANGED <<queueVars, main, szBuf, mdb, connected, inbox, outbox, client, crash>>
    <3>1. Die("wild handle") \/ \E a \in ReplyCmds, app \in Apps : Sends(a, app)
        BY <1>3 DEF Execute, ReplyCmds, Apps, clientVars
    <3>2. ASSUME NEW a \in ReplyCmds, NEW app \in Apps, Sends(a, app)
          PROVE  worker' = [worker EXCEPT ![w] =
                              [k EXCEPT !.pc = "send", !.cmd = "none", !.hcsock.app = app,
                                        !.sendhd = [cmd |-> a, from |-> szBuf.from]]]
      <4>1. worker \in [Workers -> WorkerRecs]
          BY DEF TypeInv, Types
      <4> QED
          BY <1>0, <3>2, <4>1
    <3> QED
        BY <3>1, <3>2
  <2> QED
      BY <2>2, <2>3, <2>4
<1>4. CASE SendReply(w)
  <2>1. k.pc = "send" /\ k.hcsock \in Nodes /\ k.sendhd \in Replies
      BY <1>0, <1>4 DEF SendReply, TypeInv, Locals
  <2>2. PICK r : r = [k EXCEPT !.pc = "save"]
      OBVIOUS
  <2>3. r \in WorkerRecs /\ r.pc = "save" /\ r.hcsock \in Nodes
      BY <2>1, <2>2 DEF WorkerRecs, WorkerPCs
  <2>4. /\ worker' = [worker EXCEPT ![w] = r] /\ Deliver(k.hcsock.sock, k.sendhd)
        /\ UNCHANGED <<queueVars, main, szBuf, mdb, connected, inbox, client>>
      BY <1>0, <1>4, <2>2 DEF SendReply, TypeInv, Types
  <2>5. k.hcsock.sock \in Clients
      BY <2>1 DEF Nodes
  <2>6. outbox' \in [Clients -> Seq(Replies)] /\ crash' \in Crashes
      BY <2>1, <2>4, <2>5, DeliverTypes DEF TypeInv
  <2> QED
      BY <1>0, <2>1, <2>3, <2>4, <2>6, WorkerMovesTypes DEF TypeInv, Types
<1>5. CASE SaveHandle(w)
  <2>1. k.pc = "save" /\ k.hcsock \in Nodes
      BY <1>0, <1>5 DEF SaveHandle, TypeInv, Locals
  <2>2. PICK r : r = IF k.sendhd.cmd = "CLOSE_R"
                     THEN [k EXCEPT !.pc = "stop", !.sendhd = NoReply] ELSE IdleWorker
      OBVIOUS
  <2>3. r \in WorkerRecs /\ r.pc \in {"stop", "wait"} /\ (r.pc = "stop" => r.hcsock \in Nodes)
      BY <2>1, <2>2 DEF WorkerRecs, WorkerPCs, IdleWorker
  <2>4. /\ worker' = [worker EXCEPT ![w] = r]
        /\ mdb' = [mdb EXCEPT ![k.hcsock.sock] = k.hcsock.app]
        /\ UNCHANGED <<queueVars, main, szBuf, connected, inbox, outbox, client, crash>>
      BY <1>0, <1>5, <2>2 DEF SaveHandle, clientVars, TypeInv, Types
  <2>5. mdb' \in [Clients -> Apps \cup {"absent"}]
      BY <2>1, <2>4 DEF Nodes, TypeInv, Types
  <2> QED
      BY <1>0, <2>1, <2>3, <2>4, <2>5, WorkerMovesTypes DEF TypeInv, Types
<1>6. CASE ServiceStop(w)
  <2>1. CASE Die("no handle")
      BY <2>1, DieTypes DEF Crashes
  <2>2. CASE /\ k.pc = "stop" /\ worker' = [worker EXCEPT ![w].pc = "delete"]
             /\ connected' = connected \ {k.hcsock.sock}
             /\ UNCHANGED <<queueVars, main, szBuf, mdb, inbox, outbox, client, crash>>
    <3>1. k.hcsock \in Nodes
        BY <1>0, <2>2 DEF TypeInv, Locals
    <3>2. PICK r : r = [k EXCEPT !.pc = "delete"]
        OBVIOUS
    <3>3. r \in WorkerRecs /\ r.pc = "delete" /\ r.hcsock \in Nodes
        BY <3>1, <3>2 DEF WorkerRecs, WorkerPCs
    <3>4. worker' = [worker EXCEPT ![w] = r]
        BY <1>0, <2>2, <3>2
    <3> QED
        BY <1>0, <2>2, <3>3, <3>4, WorkerMovesTypes DEF TypeInv, Types
  <2>3. CASE /\ k.pc = "delete" /\ worker' = [worker EXCEPT ![w] = IdleWorker]
             /\ mdb' = [mdb EXCEPT ![k.hcsock.sock] = "absent"]
             /\ UNCHANGED <<queueVars, main, szBuf, connected, inbox, outbox, client, crash>>
    <3>1. IdleWorker \in WorkerRecs /\ IdleWorker.pc = "wait"
        BY DEF WorkerRecs, WorkerPCs, IdleWorker
    <3>2. mdb' \in [Clients -> Apps \cup {"absent"}]
        BY <2>3 DEF TypeInv, Types
    <3> QED
        BY <1>0, <2>3, <3>1, <3>2, WorkerMovesTypes DEF TypeInv, Types
  <2> QED
      BY <1>0, <1>6, <2>1, <2>2, <2>3 DEF ServiceStop, clientVars
<1> QED
    BY <1>1, <1>2, <1>3, <1>4, <1>5, <1>6, SemWaitTypes, TakeNodeTypes DEF WorkerStep

\* Main and the workers keep their records well formed, the slots between head
\* and tail hold nodes, and szBuf is read only after a message came in.
THEOREM PipelineTypes == Spec => []TypeInv
<1>1. Init => TypeInv
    BY InitTypes
<1>2. PipelineInv /\ TypeInv /\ [Next]_vars => TypeInv'
  <2> SUFFICES ASSUME PipelineInv, TypeInv, [Next]_vars
               PROVE  TypeInv'
      OBVIOUS
  <2>1. CASE UNCHANGED vars
    <3>1. UNCHANGED <<queueVars, main, szBuf, worker, mdb, connected, inbox, outbox, client, crash>>
        BY <2>1 DEF vars, clientVars
    <3>2. Filled' /\ Count' = Count
        BY <3>1, FilledKept DEF TypeInv
    <3>3. Types' /\ Locals' /\ Untouched'
        BY <3>1, <3>2 DEF TypeInv, Types, QueueTypeOK, queueVars, Locals, Untouched
    <3> QED
        BY <3>2, <3>3 DEF TypeInv
  <2> QED
      BY <2>1, ClientStepTypes, MainStepTypes, WorkerStepTypes DEF Next
<1> QED
    BY <1>1, <1>2, PipelineInvariant, PTL DEF Spec

\* Type correctness, with what makes the threads' locals usable: MSG_SEM
\* stays below the length of the array, a worker reads a slot that holds a
\* node, and nothing touches szBuf before its first message.
THEOREM TypeCorrect == Spec => []TypeOK
<1>1. PipelineInv /\ TypeInv => TypeOK
  <2> SUFFICES ASSUME PipelineInv, TypeInv
               PROVE  TypeOK
      OBVIOUS
  <2>1. sem \in 0..(MAX_QUEUE_LEN - 1)
    <3>1. sem + Cardinality(Dequeuers) + Owed = Count
        BY SemTracksByParts DEF PipelineInv
    <3>2. Count \in 0..(MAX_QUEUE_LEN - 1)
        BY ContentsSeq DEF TypeInv
    <3> QED
        BY <3>1, <3>2, DequeuersFinite, QueueLenAssumption DEF PipelineInv, Owed
  <2>2. /\ main.pc \in MainPCs /\ main.app \in Apps
        /\ main.pc # "poll" => main.sock \in Clients /\ szBuf \in Messages
      BY DEF TypeInv, Types, MainRecs, Locals, Untouched
  <2>3. \A w \in Workers : worker[w].pc \in WorkerPCs
      BY DEF TypeInv, Types, WorkerRecs
  <2>4. \A c \in Clients : client[c].pc \in ClientPCs
      BY DEF TypeInv, Types, ClientRecs
  <2> QED
      BY <2>1, <2>2, <2>3, <2>4 DEF TypeOK, TypeInv, Types, Locals, Filled
<1> QED
    BY <1>1, PipelineInvariant, PipelineTypes, PTL

-----------------------------------------------------------------------------
(* Clients that stay: with MayLeave = {} no request and no reply is lost.  *)

StayMessages == {m \in Messages : m.cmd # "CLOSE" /\ ~m.old}
StayReplies == {r \in Replies : r.cmd \in {"OPEN_R", "OP_R", "CMDFAIL"}}

\* No connection is ever closed, and everything the server has at hand came
\* over one.
Staying ==
    /\ \A c \in Clients :
          /\ client[c].pc \in {"out", "ready", "waiting", "silent"}
          /\ client[c].pc # "out" => c \in connected
          /\ client[c].pc = "waiting" => client[c].cmd # "CLOSE"
          /\ inbox[c] \in Seq(StayMessages)
          /\ outbox[c] \in Seq(StayReplies)
    /\ szBuf \in StayMessages \cup {NoMsg}
    /\ main.pc # "poll" => main.sock \in connected
    /\ \A x \in Slots : Q[x] \in Nodes => Q[x].sock \in connected
    /\ \A w \in Workers :
          /\ worker[w].pc \notin {"stop", "delete"}
          /\ worker[w].pc \in {"dispatch", "execute", "send", "save"} =>
                worker[w].hcsock.sock \in connected
          /\ worker[w].pc = "execute" => worker[w].cmd \in {"OPEN", "OP"}
          /\ worker[w].pc \in {"send", "save"} => worker[w].sendhd \in StayReplies

LEMMA InitStaying == Init => Staying
BY NoItemAssumption DEF Init, InitQueue, Staying, IdleMain, IdleWorker

\* A reply to a client that stays reaches it.
LEMMA DeliverStays ==
    ASSUME Staying, NEW c \in connected, c \in Clients, NEW reply, Deliver(c, reply)
    PROVE  outbox' = [outbox EXCEPT ![c] = Append(@, reply)] /\ UNCHANGED crash
BY DEF Deliver, Staying

LEMMA ClientStepStaying ==
    ASSUME MayLeave = {}, TypeInv, Staying, NEW c \in Clients, ClientStep(c)
    PROVE  Staying'
<1> USE DEF ClientAt
<1>1. UNCHANGED <<queueVars, main, szBuf, worker, connected>>
    BY DEF ClientStep, SendRequest, ReceiveReply, ServerHungUp
<1>2. SUFFICES \A b \in Clients :
          /\ client'[b].pc \in {"out", "ready", "waiting", "silent"}
          /\ client'[b].pc # "out" => b \in connected
          /\ client'[b].pc = "waiting" => client'[b].cmd # "CLOSE"
          /\ inbox'[b] \in Seq(StayMessages)
          /\ outbox'[b] \in Seq(StayReplies)
    BY <1>1 DEF Staying, queueVars
<1>3. /\ inbox \in [Clients -> Seq(Messages)] /\ outbox \in [Clients -> Seq(Replies)]
      /\ client \in [Clients -> ClientRecs]
    BY DEF TypeInv, Types
<1>4. CASE SendRequest(c)
  <2>1. PICK m \in Messages :
           /\ inbox' = [inbox EXCEPT ![c] = Append(@, m)]
           /\ client' = [client EXCEPT ![c].pc = "waiting", ![c].cmd = m.cmd]
           /\ c \in connected /\ UNCHANGED outbox
           /\ m.cmd # "CLOSE" /\ ~m.old
      BY <1>4 DEF SendRequest, Messages
  <2>2. m \in StayMessages
      BY <2>1 DEF StayMessages
  <2>3. inbox'[c] \in Seq(StayMessages) /\ \A b \in Clients : b # c => inbox'[b] = inbox[b]
      BY <1>3, <2>1, <2>2 DEF Staying
  <2>4. /\ client'[c].pc = "waiting" /\ client'[c].cmd # "CLOSE"
        /\ \A b \in Clients : b # c => client'[b] = client[b]
      BY <1>3, <2>1 DEF ClientRecs
  <2> QED
      BY <2>1, <2>3, <2>4 DEF Staying
<1>5. CASE ReceiveReply(c)
  <2>1. /\ client[c].pc = "waiting" /\ outbox[c] # <<>> /\ UNCHANGED inbox
        /\ outbox' = [outbox EXCEPT ![c] = Tail(@)]
      BY <1>5 DEF ReceiveReply
  <2>2. client[c].cmd \in {"OPEN", "OP"}
      BY <2>1 DEF TypeInv, Locals, Staying, Commands
  <2>3. outbox[c] \in Seq(StayReplies)
      BY DEF Staying
  <2>4. Head(outbox[c]) \in StayReplies /\ Tail(outbox[c]) \in Seq(StayReplies)
      BY <2>1, <2>3, HeadTailProperties
  <2>5. Head(outbox[c]).cmd # "UPDATE_VERSION"
      BY <2>4 DEF StayReplies
  <2>6. PICK next \in {"ready", "silent"}, o \in {TRUE, FALSE} :
           client' = [client EXCEPT ![c].pc = next, ![c].opened = o]
    <3>1. client[c].opened \in BOOLEAN
        BY <1>3 DEF ClientRecs
    <3> QED
        BY <1>5, <2>2, <2>5, <3>1 DEF ReceiveReply
  <2>7. client'[c].pc = next /\ \A b \in Clients : b # c => client'[b] = client[b]
      BY <1>3, <2>6 DEF ClientRecs
  <2>8. outbox'[c] = Tail(outbox[c]) /\ \A b \in Clients : b # c => outbox'[b] = outbox[b]
      BY <1>3, <2>1
  <2>9. c \in connected
      BY <2>1 DEF Staying
  <2> QED
      BY <2>1, <2>4, <2>7, <2>8, <2>9 DEF Staying
<1>6. CASE ServerHungUp(c)
    BY <1>6 DEF ServerHungUp, Staying
<1> QED
    BY <1>4, <1>5, <1>6 DEF ClientStep

\* Main handles no request that could end a connection.
LEMMA MainStepStaying ==
    ASSUME PipelineInv, TypeInv, Staying, MainStep
    PROVE  Staying'
<1> USE DEF MainAt
<1>0. main \in MainRecs
    BY DEF TypeInv, Types
<1>1. ASSUME NEW c \in Clients, ServiceStart(c)
      PROVE  Staying'
  <2>1. /\ UNCHANGED <<queueVars, main, szBuf, worker, inbox, outbox>>
        /\ client' = [client EXCEPT ![c].pc = "ready"]
        /\ connected' = connected \cup {c}
      BY <1>1 DEF ServiceStart
  <2>2. client'[c].pc = "ready" /\ \A b \in Clients : b # c => client'[b] = client[b]
      BY <2>1 DEF TypeInv, Types, ClientRecs
  <2> QED
      BY <2>1, <2>2 DEF Staying, queueVars
<1>2. ASSUME NEW c \in Clients, RecvMsg(c)
      PROVE  Staying'
  <2>1. /\ UNCHANGED <<queueVars, worker, connected, outbox, client>>
        /\ main' = [main EXCEPT !.pc = "lookup", !.sock = c]
        /\ inbox[c] # <<>> /\ c \in connected
        /\ szBuf' = Head(inbox[c]) /\ inbox' = [inbox EXCEPT ![c] = Tail(@)]
      BY <1>2 DEF RecvMsg, Staying
  <2>2. inbox[c] \in Seq(StayMessages) /\ inbox \in [Clients -> Seq(Messages)]
      BY DEF Staying, TypeInv, Types
  <2>3. Head(inbox[c]) \in StayMessages /\ Tail(inbox[c]) \in Seq(StayMessages)
      BY <2>1, <2>2, HeadTailProperties
  <2>4. inbox'[c] \in Seq(StayMessages) /\ \A b \in Clients : b # c => inbox'[b] = inbox[b]
      BY <2>1, <2>2, <2>3
  <2>5. main'.sock = c
      BY <1>0, <2>1 DEF MainRecs
  <2> QED
      BY <2>1, <2>3, <2>4, <2>5 DEF Staying, queueVars
<1>3. CASE LookUp
  <2>1. CASE mdb[main.sock] = "absent"
    <3>1. Die("no handle")
        BY <1>3, <2>1 DEF LookUp
    <3> QED
        BY <3>1 DEF Die, Staying, queueVars, clientVars
  <2>2. CASE mdb[main.sock] # "absent"
    <3>1. /\ main.pc = "lookup"
          /\ main' = [main EXCEPT !.pc = "enqueue", !.app = mdb[main.sock]]
          /\ UNCHANGED <<queueVars, szBuf, worker, connected, inbox, outbox, client>>
        BY <1>3, <2>2 DEF LookUp, clientVars
    <3>2. main'.sock = main.sock
        BY <1>0, <3>1 DEF MainRecs
    <3> QED
        BY <3>1, <3>2 DEF Staying, queueVars
  <2> QED
      BY <2>1, <2>2
<1>4. CASE SendSlaveList
  <2>1. szBuf \in StayMessages /\ szBuf.old
      BY <1>4 DEF SendSlaveList, Staying, TypeInv, Untouched
  <2> QED
      BY <2>1 DEF StayMessages
<1>5. CASE QueueMessage
  <2>1. CASE main.pc = "enqueue" /\ isQueueFull
    <3>1. Die("queue full")
        BY <1>5, <2>1 DEF QueueMessage
    <3> QED
        BY <3>1 DEF Die, Staying, queueVars, clientVars
  <2>2. CASE main.pc = "enqueue" /\ ~isQueueFull
    <3>1. PICK node : node = [sock |-> main.sock, app |-> main.app]
        OBVIOUS
    <3>2. /\ EnQueue(node) /\ main' = [main EXCEPT !.pc = "post"]
          /\ UNCHANGED <<szBuf, worker, connected, inbox, outbox, client>>
        BY <1>5, <2>2, <3>1 DEF QueueMessage, clientVars
    <3>3. main.sock \in connected /\ main'.sock = main.sock /\ node.sock = main.sock
        BY <1>0, <2>2, <3>1, <3>2 DEF Staying, MainRecs
    <3>4. Q \in [Slots -> Nodes \cup {NoItem}] /\ Q' = [Q EXCEPT ![tail] = node]
        BY <3>2 DEF TypeInv, Types, QueueTypeOK, EnQueue
    <3>5. \A x \in Slots : Q'[x] \in Nodes => Q'[x].sock \in connected
        BY <3>3, <3>4 DEF Staying
    <3> QED
        BY <3>2, <3>3, <3>5 DEF Staying
  <2>3. CASE main.pc = "post"
    <3>1. /\ main' = IdleMain
          /\ UNCHANGED <<queueVars, szBuf, worker, connected, inbox, outbox, client>>
        BY <1>5, <2>3 DEF QueueMessage, clientVars
    <3> QED
        BY <3>1 DEF Staying, queueVars, IdleMain
  <2> QED
      BY <1>5, <2>1, <2>2, <2>3 DEF QueueMessage
<1> QED
    BY <1>1, <1>2, <1>3, <1>4, <1>5 DEF MainStep

LEMMA WorkerMovesStaying ==
    ASSUME TypeInv, Staying, NEW w \in Workers, NEW r,
           worker' = [worker EXCEPT ![w] = r], r.pc \notin {"stop", "delete"},
           r.pc \in {"dispatch", "execute", "send", "save"} => r.hcsock.sock \in connected,
           r.pc = "execute" => r.cmd \in {"OPEN", "OP"},
           r.pc \in {"send", "save"} => r.sendhd \in StayReplies,
           UNCHANGED <<Q, main, szBuf, inbox, client, connected>>,
           \A c \in Clients : outbox'[c] \in Seq(StayReplies)
    PROVE  Staying'
<1>1. worker'[w] = r /\ \A v \in Workers : v # w => worker'[v] = worker[v]
    BY DEF TypeInv, Types
<1> QED
    BY <1>1 DEF Staying

\* A worker has a command at hand that leaves the connection as it is.
LEMMA WorkerStepStaying ==
    ASSUME PipelineInv, TypeInv, Staying, NEW w \in Workers, WorkerStep(w)
    PROVE  Staying'
<1> USE DEF WorkerAt
<1>0. PICK k \in WorkerRecs : k = worker[w]
    BY DEF TypeInv, Types
<1>a. \A c \in Clients : outbox[c] \in Seq(StayReplies)
    BY DEF Staying
<1>1. CASE SemWait(w)
  <2>1. PICK r : r = [k EXCEPT !.pc = "dequeue"]
      OBVIOUS
  <2>2. /\ worker' = [worker EXCEPT ![w] = r] /\ r.pc = "dequeue"
        /\ UNCHANGED <<Q, main, szBuf, inbox, outbox, client, connected>>
      BY <1>0, <1>1, <2>1 DEF SemWait, queueVars, clientVars, WorkerRecs
  <2> QED
      BY <1>a, <2>2, WorkerMovesStaying
<1>2. CASE TakeNode(w)
  <2>1. PICK r : r = [k EXCEPT !.pc = "load", !.pnode = head]
      OBVIOUS
  <2>2. r.pc = "load"
      BY <1>0, <2>1 DEF WorkerRecs
  <2>3. CASE isQueueEmpty
    <3>1. Die("queue empty")
        BY <1>2, <2>3 DEF TakeNode
    <3> QED
        BY <3>1 DEF Die, Staying, queueVars, clientVars
  <2>4. CASE ~isQueueEmpty
    <3>1. /\ worker' = [worker EXCEPT ![w] = r]
          /\ UNCHANGED <<Q, main, szBuf, inbox, outbox, client, connected>>
        BY <1>0, <1>2, <2>1, <2>4 DEF TakeNode, DeQueue, clientVars, TypeInv, Types
    <3> QED
        BY <1>a, <2>2, <3>1, WorkerMovesStaying
  <2> QED
      BY <2>3, <2>4
<1>3. CASE LoadNode(w)
  <2>1. k.pnode \in Slots /\ Q[k.pnode] \in Nodes /\ Q[k.pnode].sock \in connected
      BY <1>0, <1>3 DEF LoadNode, TypeInv, Filled, Staying
  <2>2. PICK r : r = [k EXCEPT !.pc = "dispatch", !.pnode = -1, !.hcsock = Q[k.pnode]]
      OBVIOUS
  <2>3. r.pc = "dispatch" /\ r.hcsock.sock \in connected
      BY <1>0, <2>1, <2>2 DEF WorkerRecs
  <2>4. /\ worker' = [worker EXCEPT ![w] = r]
        /\ UNCHANGED <<Q, main, szBuf, inbox, outbox, client, connected>>
      BY <1>0, <1>3, <2>2 DEF LoadNode, queueVars, clientVars, TypeInv, Types
  <2> QED
      BY <1>a, <2>3, <2>4, WorkerMovesStaying
<1>4. CASE Dispatch(w)
  <2>1. /\ k.pc = "dispatch" /\ k.hcsock.sock \in connected
        /\ szBuf \in StayMessages
      BY <1>0, <1>4 DEF Dispatch, TypeInv, Staying, Untouched
  <2>2. szBuf.cmd \in {"OPEN", "OP"}
      BY <2>1 DEF StayMessages, Messages, Commands
  <2>3. PICK r : r = [k EXCEPT !.pc = "execute", !.cmd = szBuf.cmd]
      OBVIOUS
  <2>4. r.pc = "execute" /\ r.hcsock.sock \in connected /\ r.cmd \in {"OPEN", "OP"}
      BY <1>0, <2>1, <2>2, <2>3 DEF WorkerRecs
  <2>5. /\ worker' = [worker EXCEPT ![w] = r]
        /\ UNCHANGED <<Q, main, szBuf, inbox, outbox, client, connected>>
      BY <1>0, <1>4, <2>3 DEF Dispatch, queueVars, clientVars, TypeInv, Types
  <2> QED
      BY <1>a, <2>4, <2>5, WorkerMovesStaying
<1>5. CASE Execute(w)
  <2>1. /\ k.pc = "execute" /\ k.hcsock \in Nodes /\ k.hcsock.sock \in connected
        /\ k.cmd \in {"OPEN", "OP"} /\ szBuf \in Messages
      BY <1>0, <1>5 DEF Execute, TypeInv, Locals, Staying, Untouched, Types
  <2>2. CASE Die("wild handle")
      BY <2>2 DEF Die, Staying, queueVars, clientVars
  <2>3. ASSUME NEW a \in {"OPEN_R", "OP_R", "CMDFAIL"}, NEW app \in Apps,
               worker' = [worker EXCEPT ![w] =
                            [k EXCEPT !.pc = "send", !.cmd = "none", !.hcsock.app = app,
                                      !.sendhd = [cmd |-> a, from |-> szBuf.from]]],
               UNCHANGED <<Q, main, szBuf, inbox, outbox, client, connected>>
        PROVE  Staying'
    <3>1. PICK h : h = [cmd |-> a, from |-> szBuf.from]
        OBVIOUS
    <3>2. h \in StayReplies
        BY <2>1, <3>1 DEF Messages, Replies, ReplyCmds, StayReplies
    <3>3. PICK n : n = [k.hcsock EXCEPT !.app = app]
        OBVIOUS
    <3>4. n.sock = k.hcsock.sock
        BY <2>1, <3>3 DEF Nodes
    <3>5. PICK r : r = [k EXCEPT !.pc = "send", !.cmd = "none", !.hcsock = n, !.sendhd = h]
        OBVIOUS
    <3>6. r.pc = "send" /\ r.hcsock = n /\ r.sendhd = h
        BY <1>0, <3>5 DEF WorkerRecs
    <3>7. worker' = [worker EXCEPT ![w] = r]
        BY <2>3, <3>1, <3>3, <3>5
    <3> QED
        BY <1>a, <2>1, <2>3, <3>2, <3>4, <3>6, <3>7, WorkerMovesStaying
  <2>4. \/ Die("wild handle")
        \/ \E a \in {"OPEN_R", "OP_R", "CMDFAIL"}, app \in Apps :
              /\ worker' = [worker EXCEPT ![w] =
                              [k EXCEPT !.pc = "send", !.cmd = "none", !.hcsock.app = app,
                                        !.sendhd = [cmd |-> a, from |-> szBuf.from]]]
              /\ UNCHANGED <<Q, main, szBuf, inbox, outbox, client, connected>>
    <3> DEFINE Sends(a, app) ==
                  /\ worker' = [worker EXCEPT ![w].pc = "send", ![w].cmd = "none",
                                              ![w].hcsock.app = app,
                                              ![w].sendhd = [cmd |-> a, from |-> szBuf.from]]
                  /\ UNCHANGED <<Q, main, szBuf, inbox, outbox, client, connected>>
    <3>1. \/ Die("wild handle")
          \/ \E a \in {"OPEN_R", "OP_R", "CMDFAIL"}, app \in Apps : Sends(a, app)
        BY <1>0, <1>5, <2>1 DEF Execute, Apps, queueVars, clientVars
    <3>2. ASSUME NEW a, NEW app \in Apps, Sends(a, app)
          PROVE  worker' = [worker EXCEPT ![w] =
                              [k EXCEPT !.pc = "send", !.cmd = "none", !.hcsock.app = app,
                                        !.sendhd = [cmd |-> a, from |-> szBuf.from]]]
      <4>1. worker \in [Workers -> WorkerRecs]
          BY DEF TypeInv, Types
      <4> QED
          BY <1>0, <3>2, <4>1
    <3> QED
        BY <3>1, <3>2
  <2> QED
      BY <2>2, <2>3, <2>4
<1>6. CASE SendReply(w)
  <2>1. /\ k.pc = "send" /\ k.hcsock \in Nodes /\ k.hcsock.sock \in connected
        /\ k.sendhd \in StayReplies
      BY <1>0, <1>6 DEF SendReply, TypeInv, Locals, Staying
  <2>2. PICK c \in Clients, reply \in StayReplies : c = k.hcsock.sock /\ reply = k.sendhd
      BY <2>1 DEF Nodes
  <2>3. PICK r : r = [k EXCEPT !.pc = "save"]
      OBVIOUS
  <2>4. r.pc = "save" /\ r.hcsock = k.hcsock /\ r.sendhd = k.sendhd
      BY <1>0, <2>3 DEF WorkerRecs
  <2>5. /\ worker' = [worker EXCEPT ![w] = r] /\ Deliver(c, reply)
        /\ UNCHANGED <<Q, main, szBuf, inbox, client, connected>>
      BY <1>0, <1>6, <2>2, <2>3 DEF SendReply, queueVars, TypeInv, Types
  <2>6. outbox' = [outbox EXCEPT ![c] = Append(@, reply)]
      BY <2>1, <2>2, <2>5, DeliverStays
  <2>7. outbox \in [Clients -> Seq(Replies)] /\ reply \in StayReplies
      BY <2>1, <2>2 DEF TypeInv, Types
  <2>8. \A b \in Clients : outbox'[b] \in Seq(StayReplies)
      BY <1>a, <2>6, <2>7
  <2> QED
      BY <2>1, <2>4, <2>5, <2>8, WorkerMovesStaying
<1>7. CASE SaveHandle(w)
  <2>1. k.sendhd \in StayReplies
      BY <1>0, <1>7 DEF SaveHandle, Staying
  <2>2. PICK r : r = IdleWorker
      OBVIOUS
  <2>3. /\ worker' = [worker EXCEPT ![w] = r] /\ r.pc = "wait"
        /\ UNCHANGED <<Q, main, szBuf, inbox, outbox, client, connected>>
      BY <1>0, <1>7, <2>1, <2>2 DEF SaveHandle, StayReplies, IdleWorker, queueVars, clientVars
  <2> QED
      BY <1>a, <2>3, WorkerMovesStaying
<1>8. CASE ServiceStop(w)
    BY <1>8 DEF ServiceStop, Staying
<1> QED
    BY <1>1, <1>2, <1>3, <1>4, <1>5, <1>6, <1>7, <1>8 DEF WorkerStep

-----------------------------------------------------------------------------
(* Counting what is under way.                                             *)

\* One message more in the box of one client.
Grows(box, new, c, n) == /\ Len(box[c]) = n /\ Len(new[c]) = n + 1
                         /\ \A b \in Clients : b # c => new[b] = box[b]

LEMMA PlacesGrow ==
    ASSUME NEW box, NEW new, NEW c \in Clients, NEW n \in Nat, Grows(box, new, c, n)
    PROVE  Places(new) = Places(box) \cup {<<c, n + 1>>} /\ <<c, n + 1>> \notin Places(box)
<1> USE DEF Grows
<1>1. \A p : p \in Places(box) <=> \E b \in Clients : \E i \in 1..Len(box[b]) : p = <<b, i>>
    BY DEF Places
<1>2. \A p : p \in Places(new) <=> \E b \in Clients : \E i \in 1..Len(new[b]) : p = <<b, i>>
    BY DEF Places
<1>3. 1..(n + 1) = (1..n) \cup {n + 1} /\ n + 1 \notin 1..n
    OBVIOUS
<1>4. Places(new) = Places(box) \cup {<<c, n + 1>>}
  <2>1. ASSUME NEW p \in Places(new) PROVE p \in Places(box) \/ p = <<c, n + 1>>
    <3>1. PICK b \in Clients : \E i \in 1..Len(new[b]) : p = <<b, i>>
        BY <1>2, <2>1
    <3>2. CASE b = c
        BY <1>1, <1>3, <3>1, <3>2
    <3>3. CASE b # c
        BY <1>1, <3>1, <3>3
    <3> QED
        BY <3>2, <3>3
  <2>2. ASSUME NEW p \in Places(box) PROVE p \in Places(new)
    <3>1. PICK b \in Clients : \E i \in 1..Len(box[b]) : p = <<b, i>>
        BY <1>1, <2>2
    <3>2. CASE b = c
        BY <1>2, <1>3, <3>1, <3>2
    <3>3. CASE b # c
        BY <1>2, <3>1, <3>3
    <3> QED
        BY <3>2, <3>3
  <2>3. <<c, n + 1>> \in Places(new)
      BY <1>2, <1>3
  <2> QED
      BY <2>1, <2>2, <2>3
<1>5. <<c, n + 1>> \notin Places(box)
    BY <1>1, <1>3
<1> QED
    BY <1>4, <1>5

\* One message more.
LEMMA OneMore ==
    ASSUME NEW box, NEW new, NEW c \in Clients, NEW n \in Nat, Grows(box, new, c, n),
           IsFiniteSet(Places(box))
    PROVE  /\ IsFiniteSet(Places(new))
           /\ Cardinality(Places(new)) = Cardinality(Places(box)) + 1
<1>1. PICK P, p : P = Places(box) /\ p = <<c, n + 1>>
    OBVIOUS
<1>2. Places(new) = P \cup {p} /\ p \notin P
    BY <1>1, PlacesGrow
<1>3. IsFiniteSet(P \cup {p}) /\ Cardinality(P \cup {p}) = Cardinality(P) + 1
    BY <1>1, <1>2, FS_AddElement
<1> QED
    BY <1>1, <1>2, <1>3

\* The first message of one client is taken.
LEMMA PlacesTail ==
    ASSUME NEW S, NEW box \in [Clients -> Seq(S)], NEW c \in Clients, box[c] # <<>>,
           IsFiniteSet(Places(box)), NEW new, new = [box EXCEPT ![c] = Tail(@)]
    PROVE  /\ IsFiniteSet(Places(new))
           /\ Cardinality(Places(new)) = Cardinality(Places(box)) - 1
<1>1. box[c] \in Seq(S)
    OBVIOUS
<1>2. PICK n \in Nat : Len(box[c]) = n + 1
  <2>1. Len(box[c]) \in Nat \ {0}
      BY <1>1, EmptySeq
  <2>2. Len(box[c]) - 1 \in Nat /\ Len(box[c]) = (Len(box[c]) - 1) + 1
      BY <2>1
  <2> QED
      BY <2>2
<1>3. Len(Tail(box[c])) = n
    BY <1>1, <1>2, HeadTailProperties
<1>4. Len(new[c]) = n /\ \A b \in Clients : b # c => new[b] = box[b]
    BY <1>3
<1>5. PICK P, p : P = Places(box) /\ p = <<c, n + 1>>
    OBVIOUS
<1>6. P = Places(new) \cup {p} /\ p \notin Places(new)
  <2>1. \A b \in Clients : b # c => box[b] = new[b]
      BY <1>4
  <2>2. Places(box) = Places(new) \cup {<<c, n + 1>>} /\ <<c, n + 1>> \notin Places(new)
    <3>1. Grows(new, box, c, n)
        BY <1>2, <1>4, <2>1 DEF Grows
    <3> QED
        BY <1>2, <3>1, PlacesGrow
  <2> QED
      BY <1>5, <2>2, Zenon
<1>7. Places(new) = P \ {p} /\ p \in P /\ IsFiniteSet(P)
    BY <1>5, <1>6
<1>8. /\ IsFiniteSet(P \ {p})
      /\ Cardinality(P \ {p}) = IF p \in P THEN Cardinality(P) - 1 ELSE Cardinality(P)
    BY <1>7, FS_RemoveElement, Zenon
<1> QED
    BY <1>5, <1>7, <1>8

Waiting == {c \in Clients : client[c].pc = "waiting"}
AtHand == IF main.pc \in {"lookup", "enqueue"} THEN 1 ELSE 0

Conserved == /\ IsFiniteSet(Places(inbox)) /\ IsFiniteSet(Places(outbox))
             /\ RepliesConserved

LEMMA ConservedByParts ==
    RepliesConserved <=>
        Cardinality(Places(inbox)) + Cardinality(Places(outbox)) + AtHand + Count
          + Cardinality(Busy) = Cardinality(Waiting)
BY DEF RepliesConserved, UnderWay, AtHand, Waiting

\* The numbers are numbers.
LEMMA Numbers ==
    ASSUME PipelineInv, TypeInv, Conserved
    PROVE  /\ Cardinality(Places(inbox)) \in Nat /\ Cardinality(Places(outbox)) \in Nat
           /\ AtHand \in Nat /\ Count \in Nat
           /\ IsFiniteSet(Busy) /\ Cardinality(Busy) \in Nat
           /\ IsFiniteSet(Waiting) /\ Cardinality(Waiting) \in Nat
<1>1. Cardinality(Places(inbox)) \in Nat /\ Cardinality(Places(outbox)) \in Nat
    BY FS_CardinalityType DEF Conserved
<1>2. AtHand \in Nat
    BY DEF AtHand
<1>3. Count \in Nat
    BY ContentsSeq, QueueLenAssumption DEF TypeInv
<1>4. Busy \in SUBSET Workers /\ Waiting \in SUBSET Clients
    BY DEF Busy, Waiting
<1>5. IsFiniteSet(Busy) /\ IsFiniteSet(Waiting)
    BY <1>4, FS_Subset, PipelineAssumption
<1> QED
    BY <1>1, <1>2, <1>3, <1>5, FS_CardinalityType

LEMMA InitConserved == Init => Conserved
<1> SUFFICES ASSUME Init
             PROVE  Conserved
    OBVIOUS
<1>1. \A c \in Clients : Len(inbox[c]) = 0 /\ Len(outbox[c]) = 0
    BY DEF Init
<1>2. Places(inbox) = {} /\ Places(outbox) = {}
    BY <1>1 DEF Places
<1>3. Busy = {} /\ Waiting = {} /\ AtHand = 0 /\ Count = 0
    BY DEF Init, InitQueue, IdleMain, IdleWorker, Busy, Waiting, AtHand, Count
<1> QED
    BY <1>2, <1>3, FS_EmptySet, ConservedByParts DEF Conserved

\* A step that moves nothing.
LEMMA NothingMoves ==
    ASSUME Conserved, UNCHANGED <<inbox, outbox>>, Busy' = Busy, Waiting' = Waiting,
           AtHand' = AtHand, Count' = Count
    PROVE  Conserved'
<1>1. Places(inbox)' = Places(inbox) /\ Places(outbox)' = Places(outbox)
    BY DEF Places
<1>2. RepliesConserved'
    BY <1>1, ConservedByParts DEF Conserved, RepliesConserved, UnderWay, AtHand, Waiting
<1> QED
    BY <1>1, <1>2 DEF Conserved

\* A request leaves for the inbox, or a reply is taken from the outbox.
LEMMA ClientStepConserved ==
    ASSUME PipelineInv, TypeInv, Staying, Conserved, NEW c \in Clients, ClientStep(c)
    PROVE  Conserved'
<1> USE DEF ClientAt
<1>1. /\ inbox \in [Clients -> Seq(Messages)] /\ outbox \in [Clients -> Seq(Replies)]
      /\ client \in [Clients -> ClientRecs]
    BY DEF TypeInv, Types
<1>2. UNCHANGED <<queueVars, main, worker>>
    BY DEF ClientStep, SendRequest, ReceiveReply, ServerHungUp
<1>3. Busy' = Busy /\ AtHand' = AtHand /\ Count' = Count
    BY <1>2 DEF Busy, AtHand, Count, queueVars
<1>4. Cardinality(Places(inbox)) + Cardinality(Places(outbox)) + AtHand + Count
        + Cardinality(Busy) = Cardinality(Waiting)
    BY ConservedByParts DEF Conserved
<1>5. CASE SendRequest(c)
  <2>1. PICK m \in Messages :
           /\ inbox' = [inbox EXCEPT ![c] = Append(@, m)]
           /\ client' = [client EXCEPT ![c].pc = "waiting", ![c].cmd = m.cmd]
           /\ outbox' = outbox /\ client[c].pc # "waiting"
      BY <1>5 DEF SendRequest
  <2>2. PICK box, new : box = inbox /\ new = inbox'
      OBVIOUS
  <2>3. /\ IsFiniteSet(Places(new))
        /\ Cardinality(Places(new)) = Cardinality(Places(box)) + 1
    <3>1. PICK n \in Nat : Len(inbox[c]) = n
        BY <1>1
    <3>2. Grows(box, new, c, n)
        BY <1>1, <2>1, <2>2, <3>1 DEF Grows
    <3> QED
        BY <2>2, <3>1, <3>2, OneMore DEF Conserved
  <2>4. Waiting' = Waiting \cup {c} /\ c \notin Waiting
      BY <1>1, <2>1 DEF Waiting, ClientRecs
  <2>5. Cardinality(Waiting') = Cardinality(Waiting) + 1
      BY <2>4, Numbers, FS_AddElement
  <2>6. Places(inbox)' = Places(new) /\ Places(outbox)' = Places(outbox)
      BY <2>1, <2>2 DEF Places
  <2>7. Cardinality(Places(inbox)') + Cardinality(Places(outbox)') + AtHand' + Count'
          + Cardinality(Busy') = Cardinality(Waiting')
      BY <1>3, <1>4, <2>2, <2>3, <2>5, <2>6, Numbers
  <2>8. RepliesConserved'
      BY <2>7 DEF RepliesConserved, UnderWay, AtHand, Waiting
  <2> QED
      BY <2>3, <2>6, <2>8 DEF Conserved
<1>6. CASE ReceiveReply(c)
  <2>1. /\ client[c].pc = "waiting" /\ outbox[c] # <<>> /\ inbox' = inbox
        /\ outbox' = [outbox EXCEPT ![c] = Tail(@)]
      BY <1>6 DEF ReceiveReply
  <2>2. PICK next \in {"ready", "silent", "leaving"}, o \in {TRUE, FALSE} :
           client' = [client EXCEPT ![c].pc = next, ![c].opened = o]
    <3>1. client[c].cmd \in {"OPEN", "OP"} /\ client[c].opened \in BOOLEAN
        BY <1>1, <2>1 DEF TypeInv, Locals, Staying, Commands, ClientRecs
    <3> QED
        BY <1>6, <3>1 DEF ReceiveReply
  <2>3. PICK box, new : box = outbox /\ new = outbox'
      OBVIOUS
  <2>4. /\ IsFiniteSet(Places(new))
        /\ Cardinality(Places(new)) = Cardinality(Places(box)) - 1
      BY <1>1, <2>1, <2>3, PlacesTail DEF Conserved
  <2>5. Waiting' = Waiting \ {c} /\ c \in Waiting
      BY <1>1, <2>1, <2>2 DEF Waiting, ClientRecs
  <2>6. Cardinality(Waiting') = Cardinality(Waiting) - 1
      BY <2>5, Numbers, FS_RemoveElement
  <2>7. Places(outbox)' = Places(new) /\ Places(inbox)' = Places(inbox)
      BY <2>1, <2>3 DEF Places
  <2>8. Cardinality(Places(inbox)') + Cardinality(Places(outbox)') + AtHand' + Count'
          + Cardinality(Busy') = Cardinality(Waiting')
      BY <1>3, <1>4, <2>3, <2>4, <2>6, <2>7, Numbers
  <2>9. RepliesConserved'
      BY <2>8 DEF RepliesConserved, UnderWay, AtHand, Waiting
  <2> QED
      BY <2>4, <2>7, <2>9 DEF Conserved
<1>7. CASE ServerHungUp(c)
    BY <1>7 DEF ServerHungUp, Staying
<1> QED
    BY <1>5, <1>6, <1>7 DEF ClientStep

\* A process that dies leaves everything where it is.
LEMMA DieConserved ==
    ASSUME Conserved, NEW why, Die(why)
    PROVE  Conserved'
<1>1. UNCHANGED <<inbox, outbox, worker, client, main, head, tail>>
    BY DEF Die, queueVars, clientVars
<1>2. Busy' = Busy /\ Waiting' = Waiting /\ AtHand' = AtHand /\ Count' = Count
    BY <1>1 DEF Busy, Waiting, AtHand, Count
<1> QED
    BY <1>1, <1>2, NothingMoves

LEMMA MainStepConserved ==
    ASSUME PipelineInv, TypeInv, Staying, Conserved, MainStep
    PROVE  Conserved'
<1> USE DEF MainAt
<1>0. Cardinality(Places(inbox)) + Cardinality(Places(outbox)) + AtHand + Count
        + Cardinality(Busy) = Cardinality(Waiting)
    BY ConservedByParts DEF Conserved
<1>a. main \in MainRecs
    BY DEF TypeInv, Types
<1>1. ASSUME NEW c \in Clients, ServiceStart(c)
      PROVE  Conserved'
  <2>1. /\ UNCHANGED <<inbox, outbox, worker, main, head, tail>>
        /\ client[c].pc = "out" /\ client' = [client EXCEPT ![c].pc = "ready"]
      BY <1>1 DEF ServiceStart, ClientAt, queueVars
  <2>2. Busy' = Busy /\ AtHand' = AtHand /\ Count' = Count
      BY <2>1 DEF Busy, AtHand, Count
  <2>3. client \in [Clients -> ClientRecs]
      BY DEF TypeInv, Types
  <2>4. Waiting' = Waiting
      BY <2>1, <2>3 DEF Waiting, ClientRecs
  <2> QED
      BY <2>1, <2>2, <2>4, NothingMoves
<1>2. ASSUME NEW c \in Clients, RecvMsg(c)
      PROVE  Conserved'
  <2>1. /\ UNCHANGED <<worker, outbox, client, head, tail>>
        /\ main.pc = "poll" /\ main' = [main EXCEPT !.pc = "lookup", !.sock = c]
        /\ inbox[c] # <<>> /\ inbox' = [inbox EXCEPT ![c] = Tail(@)]
      BY <1>2 DEF RecvMsg, Staying, queueVars
  <2>2. PICK box, new : box = inbox /\ new = inbox'
      OBVIOUS
  <2>3. inbox \in [Clients -> Seq(Messages)]
      BY DEF TypeInv, Types
  <2>4. /\ IsFiniteSet(Places(new))
        /\ Cardinality(Places(new)) = Cardinality(Places(box)) - 1
      BY <2>1, <2>2, <2>3, PlacesTail DEF Conserved
  <2>5. Busy' = Busy /\ Waiting' = Waiting /\ Count' = Count
      BY <2>1 DEF Busy, Waiting, Count
  <2>6. AtHand = 0 /\ AtHand' = 1
      BY <1>a, <2>1 DEF AtHand, MainRecs
  <2>7. Places(inbox)' = Places(new) /\ Places(outbox)' = Places(outbox)
      BY <2>1, <2>2 DEF Places
  <2>8. Cardinality(Places(inbox)') + Cardinality(Places(outbox)') + AtHand' + Count'
          + Cardinality(Busy') = Cardinality(Waiting')
      BY <1>0, <2>2, <2>4, <2>5, <2>6, <2>7, Numbers
  <2>9. RepliesConserved'
      BY <2>8 DEF RepliesConserved, UnderWay, AtHand, Waiting
  <2> QED
      BY <2>4, <2>7, <2>9 DEF Conserved
<1>3. CASE LookUp
  <2>1. CASE mdb[main.sock] = "absent"
    <3>1. Die("no handle")
        BY <1>3, <2>1 DEF LookUp
    <3> QED
        BY <3>1, DieConserved
  <2>2. CASE mdb[main.sock] # "absent"
    <3>1. /\ main.pc = "lookup"
          /\ main' = [main EXCEPT !.pc = "enqueue", !.app = mdb[main.sock]]
          /\ UNCHANGED <<worker, inbox, outbox, client, head, tail>>
        BY <1>3, <2>2 DEF LookUp, clientVars, queueVars
    <3>2. AtHand' = AtHand
        BY <1>a, <3>1 DEF AtHand, MainRecs
    <3>3. Busy' = Busy /\ Waiting' = Waiting /\ Count' = Count
        BY <3>1 DEF Busy, Waiting, Count
    <3> QED
        BY <3>1, <3>2, <3>3, NothingMoves
  <2> QED
      BY <2>1, <2>2
<1>4. CASE SendSlaveList
  <2>1. szBuf \in StayMessages /\ szBuf.old
      BY <1>4 DEF SendSlaveList, Staying, TypeInv, Untouched
  <2> QED
      BY <2>1 DEF StayMessages
<1>5. CASE QueueMessage
  <2>1. CASE main.pc = "enqueue" /\ isQueueFull
    <3>1. Die("queue full")
        BY <1>5, <2>1 DEF QueueMessage
    <3> QED
        BY <3>1, DieConserved
  <2>2. CASE main.pc = "enqueue" /\ ~isQueueFull
    <3>1. /\ EnQueue([sock |-> main.sock, app |-> main.app])
          /\ main' = [main EXCEPT !.pc = "post"]
          /\ UNCHANGED <<worker, inbox, outbox, client>>
        BY <1>5, <2>2 DEF QueueMessage, clientVars
    <3>2. Count' = Count + 1
        BY <2>2, <3>1, EnQueueCount DEF PipelineInv
    <3>3. AtHand = 1 /\ AtHand' = 0
        BY <1>a, <2>2, <3>1 DEF AtHand, MainRecs
    <3>4. Busy' = Busy /\ Waiting' = Waiting
        BY <3>1 DEF Busy, Waiting
    <3>5. Places(inbox)' = Places(inbox) /\ Places(outbox)' = Places(outbox)
        BY <3>1 DEF Places
    <3>6. Cardinality(Places(inbox)') + Cardinality(Places(outbox)') + AtHand' + Count'
            + Cardinality(Busy') = Cardinality(Waiting')
        BY <1>0, <3>2, <3>3, <3>4, <3>5, Numbers
    <3>7. RepliesConserved'
        BY <3>6 DEF RepliesConserved, UnderWay, AtHand, Waiting
    <3> QED
        BY <3>5, <3>7 DEF Conserved
  <2>3. CASE main.pc = "post"
    <3>1. main' = IdleMain /\ UNCHANGED <<worker, inbox, outbox, client, head, tail>>
        BY <1>5, <2>3 DEF QueueMessage, clientVars, queueVars
    <3>2. AtHand' = AtHand
        BY <2>3, <3>1 DEF AtHand, IdleMain
    <3>3. Busy' = Busy /\ Waiting' = Waiting /\ Count' = Count
        BY <3>1 DEF Busy, Waiting, Count
    <3> QED
        BY <3>1, <3>2, <3>3, NothingMoves
  <2> QED
      BY <1>5, <2>1, <2>2, <2>3 DEF QueueMessage
<1> QED
    BY <1>1, <1>2, <1>3, <1>4, <1>5 DEF MainStep

BusyPCs == {"load", "dispatch", "execute", "send"}

\* A worker that keeps the request it has at hand, or goes on without one.
LEMMA WorkerKeeps ==
    ASSUME TypeInv, Conserved, NEW w \in Workers,
           UNCHANGED <<inbox, outbox, client, main, head, tail>>,
           DOMAIN worker' = Workers, \A v \in Workers \ {w} : worker'[v] = worker[v],
           worker'[w].pc \in BusyPCs <=> worker[w].pc \in BusyPCs
    PROVE  Conserved'
<1>1. Busy' = Busy
    BY DEF Busy, BusyPCs
<1>2. Waiting' = Waiting /\ AtHand' = AtHand /\ Count' = Count
    BY DEF Waiting, AtHand, Count
<1> QED
    BY <1>1, <1>2, NothingMoves

LEMMA WorkerStepConserved ==
    ASSUME PipelineInv, TypeInv, Staying, Conserved, NEW w \in Workers, WorkerStep(w)
    PROVE  Conserved'
<1> USE DEF WorkerAt
<1>0. Cardinality(Places(inbox)) + Cardinality(Places(outbox)) + AtHand + Count
        + Cardinality(Busy) = Cardinality(Waiting)
    BY ConservedByParts DEF Conserved
<1>a. DOMAIN worker = Workers /\ worker[w] \in WorkerRecs
    BY DEF TypeInv, Types
<1>b. "pc" \in DOMAIN worker[w]
    BY <1>a DEF WorkerRecs
<1>1. CASE SemWait(w)
  <2>1. /\ worker[w].pc = "wait" /\ worker' = [worker EXCEPT ![w].pc = "dequeue"]
        /\ UNCHANGED <<inbox, outbox, client, main, head, tail>>
      BY <1>1 DEF SemWait, queueVars, clientVars
  <2> QED
      BY <1>a, <1>b, <2>1, WorkerKeeps DEF BusyPCs
<1>2. CASE TakeNode(w) /\ isQueueEmpty
  <2>1. Die("queue empty")
      BY <1>2 DEF TakeNode
  <2> QED
      BY <2>1, DieConserved
<1>3. CASE TakeNode(w) /\ ~isQueueEmpty
  <2>1. /\ DeQueue /\ worker[w].pc = "dequeue"
        /\ worker' = [worker EXCEPT ![w].pc = "load", ![w].pnode = head]
        /\ UNCHANGED <<main, inbox, outbox, client>>
      BY <1>3 DEF TakeNode, clientVars
  <2>2. Count' = Count - 1
      BY <1>3, <2>1, DeQueueCount DEF PipelineInv
  <2>3. worker'[w].pc = "load" /\ \A v \in Workers \ {w} : worker'[v] = worker[v]
      BY <1>a, <1>b, <2>1
  <2>4. Busy' = Busy \cup {w} /\ w \notin Busy
      BY <2>1, <2>3 DEF Busy
  <2>5. Cardinality(Busy') = Cardinality(Busy) + 1
      BY <2>4, Numbers, FS_AddElement
  <2>6. AtHand' = AtHand /\ Waiting' = Waiting
      BY <2>1 DEF AtHand, Waiting
  <2>7. Places(inbox)' = Places(inbox) /\ Places(outbox)' = Places(outbox)
      BY <2>1 DEF Places
  <2>8. Cardinality(Places(inbox)') + Cardinality(Places(outbox)') + AtHand' + Count'
          + Cardinality(Busy') = Cardinality(Waiting')
      BY <1>0, <2>2, <2>5, <2>6, <2>7, Numbers
  <2>9. RepliesConserved'
      BY <2>8 DEF RepliesConserved, UnderWay, AtHand, Waiting
  <2> QED
      BY <2>7, <2>9 DEF Conserved
<1>4. CASE LoadNode(w)
  <2>1. /\ worker[w].pc = "load"
        /\ worker' = [worker EXCEPT ![w].pc = "dispatch", ![w].pnode = -1,
                                    ![w].hcsock = Q[worker[w].pnode]]
        /\ UNCHANGED <<inbox, outbox, client, main, head, tail>>
      BY <1>4 DEF LoadNode, queueVars, clientVars
  <2> QED
      BY <1>a, <1>b, <2>1, WorkerKeeps DEF BusyPCs
<1>5. CASE Dispatch(w)
  <2>1. /\ worker[w].pc = "dispatch"
        /\ worker' = [worker EXCEPT ![w].pc = "execute", ![w].cmd = szBuf.cmd]
        /\ UNCHANGED <<inbox, outbox, client, main, head, tail>>
      BY <1>5 DEF Dispatch, queueVars, clientVars
  <2> QED
      BY <1>a, <1>b, <2>1, WorkerKeeps DEF BusyPCs
<1>6. CASE Execute(w)
  <2>1. CASE Die("wild handle")
      BY <2>1, DieConserved
  <2> DEFINE Sends(a, app) ==
                [worker EXCEPT ![w].pc = "send", ![w].cmd = "none",
                               ![w].hcsock.app = app,
                               ![w].sendhd = [cmd |-> a, from |-> szBuf.from]]
  <2>2. ASSUME NEW a \in ReplyCmds, NEW app \in Apps, worker' = Sends(a, app),
               UNCHANGED <<inbox, outbox, client, main, head, tail>>
        PROVE  Conserved'
    <3>1. worker[w].pc = "execute"
        BY <1>6 DEF Execute
    <3> QED
        BY <1>a, <1>b, <2>2, <3>1, WorkerKeeps DEF BusyPCs
  <2>3. \/ Die("wild handle")
        \/ /\ UNCHANGED <<inbox, outbox, client, main, head, tail>>
           /\ \E a \in ReplyCmds, app \in Apps : worker' = Sends(a, app)
      BY <1>6 DEF Execute, queueVars, clientVars, ReplyCmds, Apps
  <2> QED
      BY <2>1, <2>2, <2>3
<1>7. CASE SendReply(w)
  <2>1. PICK c \in Clients, reply \in StayReplies :
           /\ c = worker[w].hcsock.sock /\ reply = worker[w].sendhd
           /\ c \in connected
    <3>1. /\ worker[w].hcsock \in Nodes /\ worker[w].hcsock.sock \in connected
          /\ worker[w].sendhd \in StayReplies
        BY <1>7 DEF SendReply, TypeInv, Locals, Staying
    <3> QED
        BY <3>1 DEF Nodes
  <2>2. /\ worker[w].pc = "send" /\ worker' = [worker EXCEPT ![w].pc = "save"]
        /\ Deliver(c, reply) /\ UNCHANGED <<main, inbox, client, head, tail>>
      BY <1>7, <2>1 DEF SendReply, queueVars
  <2>3. outbox' = [outbox EXCEPT ![c] = Append(@, reply)]
      BY <2>1, <2>2, DeliverStays
  <2>4. outbox \in [Clients -> Seq(Replies)] /\ reply \in Replies
      BY <2>1 DEF TypeInv, Types, StayReplies
  <2>5. PICK box, new : box = outbox /\ new = outbox'
      OBVIOUS
  <2>6. /\ IsFiniteSet(Places(new))
        /\ Cardinality(Places(new)) = Cardinality(Places(box)) + 1
    <3>1. PICK n \in Nat : Len(outbox[c]) = n
        BY <2>4
    <3>2. Grows(box, new, c, n)
        BY <2>3, <2>4, <2>5, <3>1 DEF Grows
    <3> QED
        BY <2>5, <3>1, <3>2, OneMore DEF Conserved
  <2>7. worker'[w].pc = "save" /\ \A v \in Workers \ {w} : worker'[v] = worker[v]
      BY <1>a, <1>b, <2>2
  <2>8. Busy' = Busy \ {w} /\ w \in Busy
      BY <2>2, <2>7 DEF Busy
  <2>9. Cardinality(Busy') = Cardinality(Busy) - 1
      BY <2>8, Numbers, FS_RemoveElement
  <2>10. AtHand' = AtHand /\ Waiting' = Waiting /\ Count' = Count
      BY <2>2 DEF AtHand, Waiting, Count
  <2>11. Places(outbox)' = Places(new) /\ Places(inbox)' = Places(inbox)
      BY <2>2, <2>5 DEF Places
  <2>12. Cardinality(Places(inbox)') + Cardinality(Places(outbox)') + AtHand' + Count'
           + Cardinality(Busy') = Cardinality(Waiting')
      BY <1>0, <2>5, <2>6, <2>9, <2>10, <2>11, Numbers
  <2>13. RepliesConserved'
      BY <2>12 DEF RepliesConserved, UnderWay, AtHand, Waiting
  <2> QED
      BY <2>6, <2>11, <2>13 DEF Conserved
<1>8. CASE SaveHandle(w)
  <2>1. worker[w].sendhd.cmd # "CLOSE_R"
      BY <1>8 DEF SaveHandle, Staying, StayReplies
  <2>2. /\ worker[w].pc = "save" /\ worker' = [worker EXCEPT ![w] = IdleWorker]
        /\ UNCHANGED <<inbox, outbox, client, main, head, tail>>
      BY <1>8, <2>1 DEF SaveHandle, queueVars, clientVars
  <2> QED
      BY <1>a, <2>2, WorkerKeeps DEF BusyPCs, IdleWorker
<1>9. CASE ServiceStop(w)
    BY <1>9 DEF ServiceStop, Staying
<1> QED
    BY <1>1, <1>2, <1>3, <1>4, <1>5, <1>6, <1>7, <1>8, <1>9 DEF WorkerStep

\* Everything the conservation of requests rests on.
StayInv == PipelineInv /\ TypeInv /\ Staying /\ Conserved

\* While no client leaves, DBServiceStart, QueueMessage and the worker loop pass
\* on each request without losing or doubling it: the inductive invariant.
THEOREM StayInvariant ==
    ASSUME MayLeave = {}
    PROVE  Spec => []StayInv
<1>1. Init => Staying /\ Conserved
    BY InitStaying, InitConserved
<1>2. PipelineInv /\ TypeInv /\ (Staying /\ Conserved) /\ [Next]_vars => (Staying /\ Conserved)'
  <2> SUFFICES ASSUME PipelineInv, TypeInv, Staying, Conserved, [Next]_vars
               PROVE  Staying' /\ Conserved'
      OBVIOUS
  <2>1. CASE UNCHANGED vars
    <3>1. UNCHANGED <<queueVars, main, szBuf, worker, connected, inbox, outbox, client>>
        BY <2>1 DEF vars, clientVars
    <3>2. Staying'
        BY <3>1 DEF Staying, queueVars
    <3>3. /\ Busy' = Busy /\ Waiting' = Waiting /\ AtHand' = AtHand /\ Count' = Count
        BY <3>1 DEF Busy, Waiting, AtHand, Count, queueVars
    <3> QED
        BY <3>1, <3>2, <3>3, NothingMoves
  <2>2. CASE \E c \in Clients : ClientStep(c)
      BY <2>2, ClientStepStaying, ClientStepConserved
  <2>3. CASE MainStep
      BY <2>3, MainStepStaying, MainStepConserved
  <2>4. CASE \E w \in Workers : WorkerStep(w)
      BY <2>4, WorkerStepStaying, WorkerStepConserved
  <2> QED
      BY <2>1, <2>2, <2>3, <2>4 DEF Next
<1> QED
    BY <1>1, <1>2, PipelineInvariant, PipelineTypes, PTL DEF Spec, StayInv

\* No request is dropped and none is answered twice while no client leaves:
\* the requests and replies under way are as many as the clients that wait,
\* for any number of clients and workers.
THEOREM EachRequestOneReply ==
    ASSUME MayLeave = {}
    PROVE  Spec => []RepliesConserved
<1>1. StayInv => RepliesConserved
    BY DEF StayInv, Conserved
<1> QED
    BY <1>1, StayInvariant, PTL

FewClients == Cardinality(Clients) < MAX_QUEUE_LEN

\* With one request per client, main finds room for the message it has.
LEMMA RoomLeft ==
    ASSUME FewClients, StayInv, main.pc = "enqueue"
    PROVE  ~isQueueFull
<1> SUFFICES ASSUME isQueueFull
             PROVE  FALSE
    OBVIOUS
<1>1. Count = MAX_QUEUE_LEN - 1
    BY FullCount DEF StayInv, PipelineInv
<1>2. AtHand = 1
    BY DEF AtHand
<1>3. PICK a \in Nat, b \in Nat, d \in Nat, e \in Nat, f \in Nat :
         /\ a = Cardinality(Places(inbox)) /\ b = Cardinality(Places(outbox))
         /\ d = Cardinality(Busy) /\ e = Cardinality(Waiting)
         /\ f = Cardinality(Clients)
    BY Numbers, FS_CardinalityType, PipelineAssumption DEF StayInv
<1>4. a + b + 1 + (MAX_QUEUE_LEN - 1) + d = e
    BY <1>1, <1>2, <1>3, ConservedByParts DEF StayInv, Conserved
<1>5. e <= f
  <2>1. Waiting \in SUBSET Clients
      BY DEF Waiting
  <2> QED
      BY <1>3, <2>1, FS_Subset, PipelineAssumption
<1>6. f < MAX_QUEUE_LEN
    BY <1>3 DEF FewClients
<1> QED
    BY <1>3, <1>4, <1>5, <1>6, QueueLenAssumption

\* The assertion of EnQueue never fails while no client leaves and there are
\* fewer clients than nodes in the array: a client has one request under way.
THEOREM EnQueueAssertion ==
    ASSUME MayLeave = {}, FewClients
    PROVE  Spec => []NeverFull
<1>1. Init => NeverFull
    BY DEF Init, NeverFull
<1>2. StayInv /\ NeverFull /\ [Next]_vars => NeverFull'
  <2> SUFFICES ASSUME StayInv, NeverFull, [Next]_vars, crash' = "queue full"
               PROVE  FALSE
      BY DEF NeverFull
  <2>1. main.pc = "enqueue" /\ isQueueFull
      BY DEF Next, vars, NeverFull, ClientStep, SendRequest, ReceiveReply, ServerHungUp,
             MainStep, ServiceStart, RecvMsg, LookUp, SendSlaveList, QueueMessage,
             MainAt, Deliver, Die, WorkerStep, SemWait, TakeNode, LoadNode, Dispatch,
             Execute, SendReply, SaveHandle, ServiceStop
  <2> QED
      BY <2>1, RoomLeft
<1> QED
    BY <1>1, <1>2, StayInvariant, PTL DEF Spec
=============================================================================
