--------------------------- MODULE RequestPipeline ---------------------------
(***************************************************************************)
(* How a slave server handles its clients' requests (server/dbserver.c,    *)
(* HandleRequest.c, serversocket.c, CircularQueue.c).  The main thread     *)
(* receives a message into its one buffer szBuf, looks up the connection's *)
(* handle in the in-memory database MDB, queues both and posts MSG_SEM.    *)
(* THREADS_NUM worker threads take nodes from the queue, run the command   *)
(* on the database, send the reply, save the handle and, after a CLOSE,    *)
(* close the connection.  Every access to shared state is a step.          *)
(*                                                                         *)
(* A queue node is the client's handle only: its buf always points to the  *)
(* buffer szBuf.  SET, GET and DEL follow one path and are one command OP. *)
(* A connection is named after its client.  A client, as in netdbapi.c,    *)
(* opens, sends one request at a time, and closes.  Messages between       *)
(* slaves and from the master use the main thread alone and are left out.  *)
(***************************************************************************)
EXTENDS CircularQueue, FiniteSets

CONSTANTS Clients,      \* the clients, one connection each
          Workers,      \* the threads of InitThreads (THREADS_NUM of them)
          MayLeave,     \* the clients that may close or have an old version
          MaxReplies    \* replies a socket holds before send blocks

ASSUME PipelineAssumption == /\ IsFiniteSet(Clients) /\ Clients # {}
                             /\ IsFiniteSet(Workers)
                             /\ MayLeave \subseteq Clients
                             /\ MaxReplies \in Nat \ {0}

VARIABLES
    main,       \* the main thread: where it is, the socket and handle at hand
    szBuf,      \* its message buffer
    sem,        \* MSG_SEM
    worker,     \* the worker threads: pc, pnode, hcsock, command, sendhd
    mdb,        \* MDB: the handle saved for each socket
    connected,  \* the sockets the server has open
    inbox,      \* messages sent by each client, not received yet
    outbox,     \* replies sent to each client, not received yet
    client,     \* each client: where it is and the command it waits for
    crash       \* why the process died, or "none"

queueVars == <<head, tail, Q>>
clientVars == <<inbox, outbox, client>>
vars == <<queueVars, main, szBuf, sem, worker, mdb, connected, clientVars, crash>>

\* hcsock.app: the database handle, garbage from the stack of DBServiceStart
\* before the first DBSendMsg, NULL when OPEN failed.
Apps == {"garbage", "null", "db"}
Nodes == [sock : Clients, app : Apps]

ASSUME NoItemAssumption == NoItem \notin Nodes

Commands == {"OPEN", "OP", "CLOSE"}
Messages == [cmd : Commands, from : Clients, old : BOOLEAN]
NoMsg == [cmd |-> "none"]
ReplyCmds == {"OPEN_R", "OP_R", "CLOSE_R", "CMDFAIL", "UPDATE_VERSION"}
Replies == [cmd : ReplyCmds, from : Clients]
Crashes == {"none", "queue full", "queue empty", "no handle", "wild handle",
            "SIGPIPE"}

NoNode == [sock |-> "none", app |-> "null"]
NoReply == [cmd |-> "none", from |-> "none"]

\* The threads between two messages.  What they keep in locals from the last
\* one is never read again, and is dropped.
IdleMain == [pc |-> "poll", sock |-> "none", app |-> "null"]
IdleWorker == [pc |-> "wait", pnode |-> -1, hcsock |-> NoNode, cmd |-> "none",
               sendhd |-> NoReply]

Init == /\ InitQueue
        /\ main = IdleMain
        /\ szBuf = NoMsg
        /\ sem = 0
        /\ worker = [w \in Workers |-> IdleWorker]
        /\ mdb = [c \in Clients |-> "absent"]
        /\ connected = {}
        /\ inbox = [c \in Clients |-> <<>>]
        /\ outbox = [c \in Clients |-> <<>>]
        /\ client = [c \in Clients |-> [pc |-> "out", cmd |-> "none", opened |-> FALSE]]
        /\ crash = "none"

Die(why) == /\ crash' = why
            /\ UNCHANGED <<queueVars, main, szBuf, sem, worker, mdb, connected, clientVars>>

\* Steps are taken while the process lives.
MainAt(pc) == crash = "none" /\ main.pc = pc
WorkerAt(w, pc) == crash = "none" /\ worker[w].pc = pc
ClientAt(c, pcs) == crash = "none" /\ client[c].pc \in pcs

-----------------------------------------------------------------------------
(* The clients (client/netdbapi.c).                                        *)

\* The next request: OPEN first, then commands.  Only a client that may leave
\* sends CLOSE, or a command with an older version of the slave list.
SendRequest(c) ==
    /\ ClientAt(c, {"ready", "leaving"})
    /\ c \in connected
    /\ \E m \in Messages :
          /\ m.from = c
          /\ client[c].pc = "leaving" => m.cmd = "CLOSE"
          /\ (m.cmd = "OPEN") = ~client[c].opened
          /\ m.cmd = "CLOSE" => c \in MayLeave
          /\ m.old => m.cmd = "OP" /\ c \in MayLeave
          /\ inbox' = [inbox EXCEPT ![c] = Append(@, m)]
          /\ client' = [client EXCEPT ![c].pc = "waiting", ![c].cmd = m.cmd]
    /\ UNCHANGED <<queueVars, main, szBuf, sem, worker, mdb, connected, outbox, crash>>

\* The reply is taken.  UPDATE_VERSION makes the client close all connections
\* and start again on others.  A failed OPEN or CLOSE ends the session with
\* the connection left open; any other answer to CLOSE closes the connection.
ReceiveReply(c) ==
    LET cmd == client[c].cmd
        reply == Head(outbox[c]).cmd
        next == CASE cmd = "OPEN"  -> IF reply = "OPEN_R" THEN "ready" ELSE "silent"
                  [] cmd = "OP"    -> IF reply = "UPDATE_VERSION" THEN "leaving" ELSE "ready"
                  [] cmd = "CLOSE" -> IF reply = "CMDFAIL" THEN "silent" ELSE "gone"
    IN  /\ ClientAt(c, {"waiting"})
        /\ outbox[c] # <<>>
        /\ outbox' = [outbox EXCEPT ![c] = Tail(@)]
        /\ client' = [client EXCEPT ![c].pc = next,
                                    ![c].opened = @ \/ reply = "OPEN_R"]
        /\ UNCHANGED <<queueVars, main, szBuf, sem, worker, mdb, connected, inbox, crash>>

\* recv returns 0 because the server closed the connection: the client goes
\* on with other connections.
ServerHungUp(c) ==
    /\ ClientAt(c, {"ready", "waiting", "leaving"})
    /\ c \notin connected
    /\ outbox[c] = <<>>
    /\ client' = [client EXCEPT ![c].pc = "gone"]
    /\ UNCHANGED <<queueVars, main, szBuf, sem, worker, mdb, connected, inbox, outbox, crash>>

-----------------------------------------------------------------------------
(* The main thread (dbserver.c).                                           *)

\* A reply put on connection c.  After the client closed its end it is lost,
\* or raises SIGPIPE, which nobody catches; on a socket that the server has
\* closed itself, send just fails.  It blocks while the socket is full.
Deliver(c, reply) ==
    LET open == c \in connected
        gone == client[c].pc = "gone"
    IN  \/ /\ open /\ ~gone
           /\ Len(outbox[c]) < MaxReplies
           /\ outbox' = [outbox EXCEPT ![c] = Append(@, reply)]
           /\ UNCHANGED crash
        \/ (gone \/ ~open) /\ UNCHANGED <<outbox, crash>>
        \/ open /\ gone /\ crash' = "SIGPIPE" /\ UNCHANGED outbox

\* DBServiceStart: the handle saved for the new connection has no value yet.
ServiceStart(c) ==
    /\ MainAt("poll")
    /\ ClientAt(c, {"out"})
    /\ client' = [client EXCEPT ![c].pc = "ready"]
    /\ connected' = connected \cup {c}
    /\ mdb' = [mdb EXCEPT ![c] = "garbage"]
    /\ UNCHANGED <<queueVars, main, szBuf, sem, worker, inbox, outbox, crash>>

\* recv in DBRecvMsg.  The socket is readable when there is a message, and
\* when the client has gone: recv then returns 0 and szBuf keeps the message
\* received last, from whatever client, which main goes on to handle.
RecvMsg(c) ==
    /\ MainAt("poll")
    /\ c \in connected
    /\ inbox[c] # <<>> \/ client[c].pc = "gone"
    /\ szBuf' = IF inbox[c] # <<>> THEN Head(inbox[c]) ELSE szBuf
    /\ inbox' = IF inbox[c] # <<>> THEN [inbox EXCEPT ![c] = Tail(@)] ELSE inbox
    /\ main' = [main EXCEPT !.pc = "lookup", !.sock = c]
    /\ UNCHANGED <<queueVars, sem, worker, mdb, connected, outbox, client, crash>>

\* MDBGet in DBRecvMsg and the version test; the missing handle is only
\* dereferenced when the message is queued.
LookUp ==
    /\ MainAt("lookup")
    /\ ~(szBuf.cmd = "OP" /\ szBuf.old)
    /\ IF mdb[main.sock] = "absent" THEN Die("no handle")
       ELSE /\ main' = [main EXCEPT !.pc = "enqueue", !.app = mdb[main.sock]]
            /\ UNCHANGED <<queueVars, szBuf, sem, worker, mdb, connected, clientVars, crash>>

\* SendSlaveList: main answers a request that carries an old version.
SendSlaveList ==
    /\ MainAt("lookup")
    /\ szBuf.cmd = "OP" /\ szBuf.old
    /\ Deliver(main.sock, [cmd |-> "UPDATE_VERSION", from |-> szBuf.from])
    /\ main' = IdleMain
    /\ UNCHANGED <<queueVars, szBuf, sem, worker, mdb, connected, inbox, client>>

\* Mutant: MSG_SEM is posted before the node is in the queue.
MainPostsFirst ==
    \/ /\ MainAt("enqueue")
       /\ sem' = sem + 1
       /\ main' = [main EXCEPT !.pc = "post"]
       /\ UNCHANGED <<queueVars, szBuf, worker, mdb, connected, clientVars, crash>>
    \/ /\ MainAt("post")
       /\ EnQueue([sock |-> main.sock, app |-> main.app])
       /\ main' = IdleMain
       /\ UNCHANGED <<szBuf, sem, worker, mdb, connected, clientVars, crash>>

\* Mutant: MSG_SEM is posted only for a node that finds the queue empty.
QueueMessageWakeFirst ==
    \/ /\ MainAt("enqueue")
       /\ IF isQueueFull THEN Die("queue full")
          ELSE /\ EnQueue([sock |-> main.sock, app |-> main.app])
               /\ main' = [main EXCEPT !.pc = IF isQueueEmpty THEN "post" ELSE "poll"]
               /\ UNCHANGED <<szBuf, sem, worker, mdb, connected, clientVars, crash>>
    \/ /\ MainAt("post")
       /\ sem' = sem + 1
       /\ main' = IdleMain
       /\ UNCHANGED <<queueVars, szBuf, worker, mdb, connected, clientVars, crash>>

\* EnQueue with its assertion, then sem_post.
QueueMessage ==
    \/ /\ MainAt("enqueue")
       /\ IF isQueueFull THEN Die("queue full")
          ELSE /\ EnQueue([sock |-> main.sock, app |-> main.app])
               /\ main' = [main EXCEPT !.pc = "post"]
               /\ UNCHANGED <<szBuf, sem, worker, mdb, connected, clientVars, crash>>
    \/ /\ MainAt("post")
       /\ sem' = sem + 1
       /\ main' = IdleMain
       /\ UNCHANGED <<queueVars, szBuf, worker, mdb, connected, clientVars, crash>>

-----------------------------------------------------------------------------
(* The worker threads (HandleDBRequest).                                   *)

\* Mutant: two workers may pass on one post.
SemPeek(w) ==
    /\ WorkerAt(w, "wait")
    /\ sem > 0
    /\ worker' = [worker EXCEPT ![w].pc = "dequeue"]
    /\ UNCHANGED <<queueVars, main, szBuf, sem, mdb, connected, clientVars, crash>>

\* sem_wait.
SemWait(w) ==
    /\ WorkerAt(w, "wait")
    /\ sem > 0
    /\ sem' = sem - 1
    /\ worker' = [worker EXCEPT ![w].pc = "dequeue"]
    /\ UNCHANGED <<queueVars, main, szBuf, mdb, connected, clientVars, crash>>

\* DeQueue with its assertion: the worker keeps a pointer into the array.
TakeNode(w) ==
    /\ WorkerAt(w, "dequeue")
    /\ IF isQueueEmpty THEN Die("queue empty")
       ELSE /\ DeQueue
            /\ worker' = [worker EXCEPT ![w].pc = "load", ![w].pnode = head]
            /\ UNCHANGED <<main, szBuf, sem, mdb, connected, clientVars, crash>>

\* hcsock is copied from the node.
LoadNode(w) ==
    /\ WorkerAt(w, "load")
    /\ worker' = [worker EXCEPT ![w].pc = "dispatch", ![w].pnode = -1,
                                ![w].hcsock = Q[worker[w].pnode]]
    /\ UNCHANGED <<queueVars, main, szBuf, sem, mdb, connected, clientVars, crash>>

\* The switch reads the command from the message, which is in szBuf.
Dispatch(w) ==
    /\ WorkerAt(w, "dispatch")
    /\ worker' = [worker EXCEPT ![w].pc = "execute", ![w].cmd = szBuf.cmd]
    /\ UNCHANGED <<queueVars, main, szBuf, sem, mdb, connected, clientVars, crash>>

\* The command runs on the database with the name, or the key and value, that
\* szBuf now holds, and succeeds or fails.  OPEN makes a new handle; the
\* others dereference the one they have.
Execute(w) ==
    LET cmd == worker[w].cmd
        Result(r, app) ==
            /\ worker' = [worker EXCEPT ![w].pc = "send", ![w].cmd = "none",
                                        ![w].hcsock.app = app,
                                        ![w].sendhd = [cmd |-> r, from |-> szBuf.from]]
            /\ UNCHANGED <<queueVars, main, szBuf, sem, mdb, connected, clientVars, crash>>
    IN  /\ WorkerAt(w, "execute")
        /\ \/ cmd = "OPEN" /\ (Result("OPEN_R", "db") \/ Result("CMDFAIL", "null"))
           \/ /\ cmd # "OPEN"
              /\ worker[w].hcsock.app = "db"
              /\ \E r \in {IF cmd = "CLOSE" THEN "CLOSE_R" ELSE "OP_R", "CMDFAIL"} :
                    Result(r, "db")
           \/ cmd # "OPEN" /\ worker[w].hcsock.app # "db" /\ Die("wild handle")

\* Mutant: a failed command is not answered.
SendReplyIfDone(w) ==
    LET reply == worker[w].sendhd IN
    /\ WorkerAt(w, "send")
    /\ IF reply.cmd = "CMDFAIL" THEN UNCHANGED <<outbox, crash>>
       ELSE Deliver(worker[w].hcsock.sock, reply)
    /\ worker' = [worker EXCEPT ![w].pc = "save"]
    /\ UNCHANGED <<queueVars, main, szBuf, sem, mdb, connected, inbox, client>>

\* send in DBSendMsg.
SendReply(w) ==
    /\ WorkerAt(w, "send")
    /\ Deliver(worker[w].hcsock.sock, worker[w].sendhd)
    /\ worker' = [worker EXCEPT ![w].pc = "save"]
    /\ UNCHANGED <<queueVars, main, szBuf, sem, mdb, connected, inbox, client>>

\* MDBSet in DBSendMsg, after the reply is on its way.
SaveHandle(w) ==
    /\ WorkerAt(w, "save")
    /\ mdb' = [mdb EXCEPT ![worker[w].hcsock.sock] = worker[w].hcsock.app]
    /\ worker' = IF worker[w].sendhd.cmd = "CLOSE_R"
                 THEN [worker EXCEPT ![w].pc = "stop", ![w].sendhd = NoReply]
                 ELSE [worker EXCEPT ![w] = IdleWorker]
    /\ UNCHANGED <<queueVars, main, szBuf, sem, connected, clientVars, crash>>

\* DBServiceStop after CLOSE_R: MDBGet and close, then MDBDel.
ServiceStop(w) ==
    \/ /\ WorkerAt(w, "stop")
       /\ IF mdb[worker[w].hcsock.sock] = "absent" THEN Die("no handle")
          ELSE /\ connected' = connected \ {worker[w].hcsock.sock}
               /\ worker' = [worker EXCEPT ![w].pc = "delete"]
               /\ UNCHANGED <<queueVars, main, szBuf, sem, mdb, clientVars, crash>>
    \/ /\ WorkerAt(w, "delete")
       /\ mdb' = [mdb EXCEPT ![worker[w].hcsock.sock] = "absent"]
       /\ worker' = [worker EXCEPT ![w] = IdleWorker]
       /\ UNCHANGED <<queueVars, main, szBuf, sem, connected, clientVars, crash>>

-----------------------------------------------------------------------------
ClientStep(c) == SendRequest(c) \/ ReceiveReply(c) \/ ServerHungUp(c)

MainStep == \/ \E c \in Clients : ServiceStart(c) \/ RecvMsg(c)
            \/ LookUp \/ SendSlaveList \/ QueueMessage

WorkerStep(w) == \/ SemWait(w) \/ TakeNode(w) \/ LoadNode(w) \/ Dispatch(w)
                 \/ Execute(w) \/ SendReply(w) \/ SaveHandle(w) \/ ServiceStop(w)

Next == \/ \E c \in Clients : ClientStep(c)
        \/ MainStep
        \/ \E w \in Workers : WorkerStep(w)

Spec == Init /\ [][Next]_vars

\* The scheduler runs every thread of the server that can run.  epoll_wait
\* reports ready sockets in turn, so that one which is readable whenever main
\* polls is served.  Clients need not connect, send, or take their replies.
Fairness == /\ WF_vars(LookUp \/ SendSlaveList \/ QueueMessage)
            /\ \A c \in Clients : SF_vars(RecvMsg(c))
            /\ \A w \in Workers : WF_vars(WorkerStep(w))

FairSpec == Spec /\ Fairness

-----------------------------------------------------------------------------
MainPCs == {"poll", "lookup", "enqueue", "post"}
WorkerPCs == {"wait", "dequeue", "load", "dispatch", "execute", "send", "save",
              "stop", "delete"}
ClientPCs == {"out", "ready", "waiting", "leaving", "silent", "gone"}

\* The types, and where the threads' locals have a value.
TypeOK ==
    /\ QueueTypeOK(Nodes)
    /\ main.pc \in MainPCs
    /\ main.pc \in {"lookup", "enqueue", "post"} =>
          main.sock \in Clients /\ szBuf \in Messages
    /\ main.pc \in {"enqueue", "post"} => main.app \in Apps
    /\ szBuf \in Messages \cup {NoMsg}
    /\ sem \in 0..(MAX_QUEUE_LEN - 1)
    /\ \A w \in Workers :
          /\ worker[w].pc \in WorkerPCs
          /\ worker[w].pc = "load" => Q[worker[w].pnode] \in Nodes
          /\ worker[w].pc \in {"dispatch", "execute", "send", "save", "stop", "delete"} =>
                worker[w].hcsock \in Nodes
          /\ worker[w].pc = "execute" => worker[w].cmd \in Commands
          /\ worker[w].pc = "send" => worker[w].sendhd \in Replies
    /\ mdb \in [Clients -> Apps \cup {"absent"}]
    /\ connected \subseteq Clients
    /\ inbox \in [Clients -> Seq(Messages)]
    /\ outbox \in [Clients -> Seq(Replies)]
    /\ \A c \in Clients : client[c].pc \in ClientPCs
    /\ crash \in Crashes

\* MSG_SEM, with the workers already past sem_wait and the post that main
\* still owes, counts the queued nodes.
SemTracksQueue ==
    sem + Cardinality({w \in Workers : worker[w].pc = "dequeue"})
        + (IF main.pc = "post" THEN 1 ELSE 0) = Count

\* DeQueue's assertion holds whenever a worker gets to it.
NeverEmpty == crash # "queue empty"

\* EnQueue's assertion holds whenever main gets to it.
NeverFull == crash # "queue full"

\* The requests and replies under way, whoever they belong to: those sent and
\* not received, one that main has at hand, the queued ones, and one that each
\* busy worker has at hand until it has answered.
Places(box) == UNION {{c} \X (1..Len(box[c])) : c \in Clients}
Busy == {w \in Workers : worker[w].pc \in {"load", "dispatch", "execute", "send"}}
UnderWay == Cardinality(Places(inbox)) + Cardinality(Places(outbox))
            + (IF main.pc \in {"lookup", "enqueue"} THEN 1 ELSE 0)
            + Count + Cardinality(Busy)

\* There are as many requests and replies under way as clients that wait:
\* whichever client a worker answers, no request is dropped or doubled.
RepliesConserved ==
    UnderWay = Cardinality({c \in Clients : client[c].pc = "waiting"})

\* The requests of client c on their way through the server, and the replies
\* to it.
InFlight(c) ==
    Len(inbox[c]) + Len(outbox[c])
    + Cardinality({x \in {main} : x.pc \in {"lookup", "enqueue"} /\ x.sock = c})
    + Cardinality({i \in 1..Count : Contents[i].sock = c})
    + Cardinality({w \in Busy : c = IF worker[w].pc = "load" THEN Q[worker[w].pnode].sock
                                    ELSE worker[w].hcsock.sock})

\* Each client that waits has one request or reply under way, the others none:
\* the node a worker took is still the one it reads through the pointer that
\* DeQueue returned (testCircularQueue.c asserts it of every node).  This is
\* so with one worker and clients that stay, and false with two workers.
OneAnswerEach ==
    \A c \in Clients : InFlight(c) = IF client[c].pc = "waiting" THEN 1 ELSE 0

\* "hdb = pnode->hcsock.app; // will be changed only when 'OPEN'": after a
\* successful OPEN the commands of a client run on the handle it opened.
HandleFromOpen ==
    \A w \in Workers : worker[w].pc = "execute" /\ worker[w].cmd # "OPEN" =>
        worker[w].hcsock.app = "db"

\* The reply a client gets to a command is about the key and value it sent
\* ("Set key/value", Database.h).
OwnRequestAnswered ==
    \A w \in Workers : worker[w].pc = "send" =>
        worker[w].sendhd.from = worker[w].hcsock.sock

\* The server has no request left to answer.
AllServed == /\ \A c \in Clients : inbox[c] = <<>>
             /\ main.pc \notin {"lookup", "enqueue"}
             /\ Count = 0 /\ Busy = {}

\* As long as the server has requests, replies go out, unless the process dies:
\* no post of MSG_SEM is lost, and main and the workers never all wait while a
\* request is queued or has arrived.
RequestsServed ==
    \/ []<>(crash # "none" \/ AllServed)
    \/ []<><<\E w \in Workers : SendReply(w)>>_vars

\* Each client that waits gets a reply, unless the process dies.  This is so
\* with one worker and false with two: when a worker's node is overwritten
\* before it is read (CircularQueue.c:48-52), another client gets its reply, and
\* the client whose request it took waits for ever.
Answered ==
    \A c \in Clients :
        client[c].pc = "waiting" ~> \/ client[c].pc # "waiting" \/ outbox[c] # <<>>
                                   \/ crash # "none"
=============================================================================
