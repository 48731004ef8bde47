---------------------------- MODULE ClusterProofs ----------------------------
(***************************************************************************)
(* Proofs about Cluster, for every number of slaves, with joins, leaves    *)
(* and alarms at any time: the copies of the list stay within one change   *)
(* of the master's, the right slave leaves, no slave waits for one that    *)
(* has exited, and the protocol implements MasterList.                     *)
(*                                                                         *)
(* The argument counts.  The master owes itself one receipt for every      *)
(* request it has sent to a slave (Due), and a slave that serves has, for  *)
(* each of these, the request in its queue, the reply still to send, or    *)
(* the reply on its way.  So when NotifyAll takes a message for a reply,   *)
(* whichever it is, the slave has handled the announcement; and the        *)
(* DEL_SLAVE of a slave whose position is out of date is taken for a reply *)
(* and not for a request.  When changes do not overlap, the slave that     *)
(* moves is the one the change is about, and the master sends it nothing   *)
(* else (Calm).                                                            *)
(***************************************************************************)
EXTENDS Cluster, SlaveRingProofs, SequenceTheorems

\* The master waits for a message of s: NotifyAll, the alarm handler, or both.
Announcing(s) == job.sent /\ mlist.nodes[job.i].id = s
Due(s) == (IF Announcing(s) THEN 1 ELSE 0) + (IF alarm = s THEN 1 ELSE 0)

\* NotifyAll has passed s.
Reached(s) == \E j \in Positions(mlist) : j < job.i /\ mlist.nodes[j].id = s

\* A slave with the requests box has still to hear of the change at hand.
Behind(s, box) ==
    /\ job.op # "idle"
    /\ ~Reached(s)
    /\ ~(Announcing(s) /\ (box = <<>> \/ box[1].cmd = "UPDATE_BACKUP12"))

\* The list before and after the change at hand.
BeforeJob(v) ==
    IF job.op = "add"
    THEN /\ IsSlaveList(v, Slaves)
         /\ v.num = mlist.num - 1
         /\ v.nodes = RemoveSlave(mlist, job.pos).nodes
         /\ (v.version + 1) % UINT_RANGE = mlist.version
    ELSE v = mlist

AfterJob(v) == v = IF job.op = "del" THEN RemoveSlave(mlist, job.pos) ELSE mlist

\* s has the list v and finds itself there at p.
Agrees(s, v, p, box) ==
    /\ p \in Positions(v) /\ v.nodes[p].id = s
    /\ Behind(s, box) => BeforeJob(v)
    /\ ~Behind(s, box) => AfterJob(v)

\* An announcement comes before the alarms.
Requests(s, box) ==
    \A i \in 1..Len(box) :
        \/ box[i].cmd = "UPDATE_BACKUP12"
        \/ i = 1 /\ Announcing(s) /\ box[i] = Announcement

\* The requests in the box and the replies given or owed are what the master
\* waits for.
Connected(s, v, p, box, replies) ==
    /\ Requests(s, box)
    /\ Agrees(s, v, p, box)
    /\ Len(box) + replies = Due(s)

Unlisted(s) == s \notin Members(mlist)

\* UPDATE_BACKUP12 has still to be answered.
Owed(s) == IF todo[s] # <<>> /\ todo[s][Len(todo[s])] = 0 THEN 1 ELSE 0

\* A slave that has registered: its ADD_SLAVE is on its way, or at the master,
\* or answered.
Asking(s) == /\ Unlisted(s) /\ toSlave[s] = <<>>
             /\ Len(toMaster[s]) = 1 /\ toMaster[s][1].cmd = "ADD_SLAVE"

Joining(s) == /\ job.op = "add" /\ job.s = s
              /\ st[s] = "register" /\ toMaster[s] = <<>>
              /\ \A i \in 1..Len(toSlave[s]) : toSlave[s][i].cmd = "UPDATE_BACKUP12"
              /\ Len(toSlave[s]) = Due(s)

Welcomed(s) == /\ toSlave[s] # <<>> /\ toSlave[s][1].cmd = "ADD_SLAVE_R"
               /\ toMaster[s] = <<>>
               /\ Connected(s, toSlave[s][1].list, toSlave[s][1].pos, Tail(toSlave[s]), 0)

\* A slave that serves requests.
Serving(s) == /\ Connected(s, sl[s], pos[s], toSlave[s], Owed(s) + Len(toMaster[s]))
              /\ \A i \in 1..Len(toMaster[s]) :
                    toMaster[s][i].cmd \notin {"ADD_SLAVE", "DEL_SLAVE"}

\* A slave that has sent DEL_SLAVE, the last message of all.  Unless it is
\* going to be taken for a reply, its position is up to date.
Goodbye(s) ==
    LET n == Len(toMaster[s])
    IN  /\ toMaster[s] # <<>> /\ n <= Due(s) + 1
        /\ \A i \in 1..n : /\ toMaster[s][i].cmd # "ADD_SLAVE"
                           /\ toMaster[s][i].cmd = "DEL_SLAVE" <=> i = n
        /\ n = Due(s) + 1 => /\ toSlave[s] = <<>>
                             /\ toMaster[s][n].pos = pos[s]
                             /\ Agrees(s, sl[s], pos[s], <<>>)

Leaving(s) == /\ toMaster[s] = <<>> \/ Goodbye(s)
              /\ \A i \in 1..Len(toSlave[s]) :
                    toSlave[s][i].cmd = "DEL_SLAVE_R" => Unlisted(s) /\ toMaster[s] = <<>>

\* The states of a slave, and of the slave that the change at hand is about.
States(s) ==
    /\ st[s] \in {"off", "register", "init", "run", "stopping", "exited"}
    /\ st[s] = "off" => Unlisted(s) /\ toSlave[s] = <<>> /\ toMaster[s] = <<>>
    /\ st[s] = "register" => Asking(s) \/ Joining(s) \/ Welcomed(s)
    /\ st[s] \in {"init", "run"} => Serving(s)
    /\ st[s] = "stopping" => Leaving(s)
    /\ st[s] = "exited" => Unlisted(s) /\ toMaster[s] = <<>>
    /\ job.op = "add" /\ job.s = s => Joining(s)
    /\ job.op = "del" /\ job.s = s => st[s] = "stopping" /\ toMaster[s] = <<>>

\* What a slave holds.
Holds(s) ==
    /\ IsSlaveList(sl[s], Slaves)
    /\ \A i \in 1..Len(todo[s]) :
          /\ todo[s][i] \in -2..2
          /\ todo[s][i] = 0 => i = Len(todo[s])
          /\ todo[s][i] = -1 => Owed(s) = 0
    /\ st[s] \in {"off", "register"} => todo[s] = <<>> /\ callee[s] = NoSlave

\* Who calls whom.
Calls(s) ==
    /\ callee[s] # NoSlave => todo[s] # <<>> /\ todo[s][1] # 0 /\ callee[s] # s
    /\ callee[s] # NoSlave /\ st[s] \in {"init", "run"} => callee[s] \in Members(sl[s])
    /\ caller[s] \in Slaves \cup {NoSlave}
    /\ caller[s] # NoSlave => callee[caller[s]] = s

\* The master.
MasterInv ==
    /\ IsSlaveList(mlist, Slaves) /\ Ordered(mlist)
    /\ job.op \in {"idle", "add", "del"}
    /\ job.op = "idle" <=> job = IdleJob
    /\ job.op # "idle" =>
          /\ DOMAIN job = {"op", "s", "pos", "i", "sent"}
          /\ job.pos \in Positions(mlist) /\ mlist.nodes[job.pos].id = job.s
          /\ job.i \in 0..mlist.num /\ job.sent \in BOOLEAN
          /\ job.sent => job.i < mlist.num /\ job.i # job.pos
    /\ alarm \in Members(mlist) \cup {NoSlave}
    /\ backuppos \in Nat /\ eintr \in BOOLEAN

\* The functions are defined on the slaves, and the queues are sequences.
IsQueue(q) == \E S : q \in Seq(S)

Shape == /\ DOMAIN st = Slaves /\ DOMAIN sl = Slaves /\ DOMAIN pos = Slaves
         /\ DOMAIN todo = Slaves /\ DOMAIN callee = Slaves /\ DOMAIN caller = Slaves
         /\ DOMAIN toSlave = Slaves /\ DOMAIN toMaster = Slaves
         /\ \A s \in Slaves : IsQueue(toSlave[s]) /\ IsQueue(toMaster[s]) /\ IsQueue(todo[s])

\* The inductive invariant.
Inv == /\ MasterInv
       /\ \A s \in Slaves : States(s) /\ Holds(s) /\ Calls(s)

ClusterInv == Shape /\ Inv /\ CallReplyAsserted

-----------------------------------------------------------------------------
(* Queues.                                                                 *)

LEMMA EmptyQueue ==
    ASSUME NEW q, IsQueue(q)
    PROVE  Len(q) \in Nat /\ (q = <<>> <=> Len(q) = 0)
<1>1. PICK S : q \in Seq(S)
    BY DEF IsQueue
<1> QED
    BY <1>1

LEMMA NoMessages == IsQueue(<<>>) /\ Len(<<>>) = 0
<1>1. <<>> \in Seq({})
    OBVIOUS
<1> QED
    BY <1>1 DEF IsQueue

\* What send does to a queue.
LEMMA AppendQueue ==
    ASSUME NEW q, IsQueue(q), NEW m
    PROVE  /\ IsQueue(Append(q, m)) /\ Append(q, m) # <<>>
           /\ Len(q) \in Nat /\ Len(Append(q, m)) = Len(q) + 1
           /\ \A i \in 1..Len(q) : Append(q, m)[i] = q[i]
           /\ Append(q, m)[Len(q) + 1] = m
<1>1. PICK S : q \in Seq(S)
    BY DEF IsQueue
<1>2. q \in Seq(S \cup {m}) /\ m \in S \cup {m}
    BY <1>1
<1>3. Append(q, m) \in Seq(S \cup {m})
    BY <1>2
<1>4. IsQueue(Append(q, m))
    BY <1>3 DEF IsQueue
<1> QED
    BY <1>2, <1>3, <1>4

\* What recv does to a queue.
LEMMA TailQueue ==
    ASSUME NEW q, IsQueue(q), q # <<>>
    PROVE  /\ IsQueue(Tail(q)) /\ Head(q) = q[1]
           /\ Len(q) \in Nat \ {0} /\ Len(Tail(q)) = Len(q) - 1
           /\ \A i \in 1..(Len(q) - 1) : Tail(q)[i] = q[i + 1]
<1>1. PICK S : q \in Seq(S)
    BY DEF IsQueue
<1>2. Tail(q) \in Seq(S)
    BY <1>1
<1>3. IsQueue(Tail(q))
    BY <1>2 DEF IsQueue
<1> QED
    BY <1>1, <1>2, <1>3

-----------------------------------------------------------------------------
(* The lists of the slaves.                                                *)

\* The positions of the change at hand.
LEMMA JobPlace ==
    ASSUME MasterInv, job.op # "idle"
    PROVE  /\ IsSlaveList(RemoveSlave(mlist, job.pos), Slaves)
           /\ Ordered(RemoveSlave(mlist, job.pos))
           /\ RemoveSlave(mlist, job.pos).num = mlist.num - 1
           /\ Members(RemoveSlave(mlist, job.pos)) \subseteq Members(mlist)
           /\ RemoveSlave(mlist, job.pos) = DelFromSlaveList(mlist, job.pos)
           /\ job.s \in Members(mlist)
<1>1. /\ IsSlaveList(mlist, Slaves) /\ Ordered(mlist) /\ job.pos \in Positions(mlist)
      /\ mlist.nodes[job.pos].id = job.s
    BY DEF MasterInv
<1>2. RemoveSlave(mlist, job.pos) = DelFromSlaveList(mlist, job.pos)
    BY DEF RemoveSlave, DelFromSlaveList
<1>3. RemoveSlave(mlist, job.pos).num = mlist.num - 1
    BY DEF RemoveSlave
<1>4. /\ IsSlaveList(DelFromSlaveList(mlist, job.pos), Slaves)
      /\ Ordered(DelFromSlaveList(mlist, job.pos))
    BY <1>1, DelOrdered
<1>5. Members(RemoveSlave(mlist, job.pos)) \subseteq Members(mlist)
    BY <1>1, RemoveMembers
<1>6. job.s \in Members(mlist)
    BY <1>1 DEF Members
<1> QED
    BY <1>2, <1>3, <1>4, <1>5, <1>6

\* Whether it knows of the change or not, a slave has an ordered list of
\* slaves that the master has too, and is in it.
LEMMA ViewIsList ==
    ASSUME MasterInv, NEW s, NEW v, NEW p, NEW box, Agrees(s, v, p, box)
    PROVE  /\ IsSlaveList(v, Slaves) /\ Ordered(v)
           /\ Members(v) \subseteq Members(mlist)
           /\ s \in Members(v)
<1>1. IsSlaveList(mlist, Slaves) /\ Ordered(mlist) /\ job.op \in {"idle", "add", "del"}
    BY DEF MasterInv
<1>2. s \in Members(v)
    BY DEF Agrees, Members
<1>3. CASE v = mlist
    BY <1>1, <1>2, <1>3
<1>4. CASE v = RemoveSlave(mlist, job.pos) /\ job.op = "del"
    BY <1>2, <1>4, JobPlace
<1>5. CASE job.op = "add" /\ BeforeJob(v)
  <2>1. PICK w : w = RemoveSlave(mlist, job.pos)
      OBVIOUS
  <2>2. IsSlaveList(v, Slaves) /\ v.num = w.num /\ v.nodes = w.nodes
      BY <1>5, <2>1, JobPlace DEF BeforeJob
  <2>3. Positions(v) = Positions(w)
      BY <2>2 DEF Positions
  <2>4. Ordered(w) /\ Members(w) \subseteq Members(mlist)
      BY <1>5, <2>1, JobPlace
  <2>5. Ordered(v)
      BY <2>2, <2>3, <2>4 DEF Ordered
  <2>6. Members(v) = Members(w)
      BY <2>2, <2>3 DEF Members
  <2> QED
      BY <1>2, <2>2, <2>4, <2>5, <2>6
<1> QED
    BY <1>1, <1>3, <1>4, <1>5 DEF Agrees, BeforeJob, AfterJob

-----------------------------------------------------------------------------
(* The initial states.                                                     *)

LEMMA InitInv == Init => ClusterInv
<1> SUFFICES ASSUME Init
             PROVE  ClusterInv
    OBVIOUS
<1>1. mlist = EmptySlaveList /\ job = IdleJob /\ job.op = "idle"
    BY DEF Init, IdleJob
<1>2. IsSlaveList(mlist, Slaves) /\ Ordered(mlist) /\ Members(mlist) = {}
    BY <1>1, EmptyOrdered DEF Members, Positions, EmptySlaveList
<1>3. MasterInv
    BY <1>1, <1>2 DEF Init, MasterInv
<1>4. ASSUME NEW s \in Slaves PROVE States(s) /\ Holds(s) /\ Calls(s)
  <2>1. States(s)
      BY <1>1, <1>2 DEF Init, States, Unlisted
  <2>2. Holds(s)
      BY NoMessages, EmptyOrdered DEF Init, Holds
  <2>3. Calls(s)
      BY DEF Init, Calls
  <2> QED
      BY <2>1, <2>2, <2>3
<1>5. Shape
    BY NoMessages DEF Init, Shape
<1> QED
    BY <1>3, <1>4, <1>5 DEF Init, ClusterInv, Inv, CallReplyAsserted

-----------------------------------------------------------------------------
(* The steps of a slave leave what is said of the others.                  *)

SameMaster == mlist' = mlist /\ job' = job /\ alarm' = alarm

LEMMA SameJob ==
    ASSUME SameMaster, NEW s, NEW v, NEW p, NEW box
    PROVE  /\ Announcing(s)' <=> Announcing(s)
           /\ Due(s)' = Due(s)
           /\ Unlisted(s)' <=> Unlisted(s)
           /\ Requests(s, box)' <=> Requests(s, box)
           /\ Agrees(s, v, p, box)' <=> Agrees(s, v, p, box)
<1>1. Announcing(s)' <=> Announcing(s)
    BY DEF SameMaster, Announcing
<1>2. Due(s)' = Due(s)
    BY <1>1 DEF SameMaster, Due
<1>3. Unlisted(s)' <=> Unlisted(s)
    BY DEF SameMaster, Unlisted
<1>4. Announcement' = Announcement
    BY DEF SameMaster, Announcement
<1>5. Requests(s, box)' <=> Requests(s, box)
    BY <1>1, <1>4 DEF Requests
<1>6. Reached(s)' <=> Reached(s)
    BY DEF SameMaster, Reached
<1>7. Behind(s, box)' <=> Behind(s, box)
    BY <1>1, <1>6 DEF SameMaster, Behind
<1>8. BeforeJob(v)' <=> BeforeJob(v)
    BY DEF SameMaster, BeforeJob
<1>9. AfterJob(v)' <=> AfterJob(v)
    BY DEF SameMaster, AfterJob
<1>10. Agrees(s, v, p, box)' <=> Agrees(s, v, p, box)
    BY <1>7, <1>8, <1>9 DEF Agrees
<1> QED
    BY <1>1, <1>2, <1>3, <1>5, <1>10

LEMMA SameMasterInv == MasterInv /\ masterVars' = masterVars => MasterInv' /\ SameMaster
    BY DEF MasterInv, SameMaster, masterVars

\* What a slave has and the messages from and to it are the same.
SameSlave(u) ==
    /\ st'[u] = st[u] /\ sl'[u] = sl[u] /\ pos'[u] = pos[u]
    /\ todo'[u] = todo[u] /\ callee'[u] = callee[u]
    /\ toSlave'[u] = toSlave[u] /\ toMaster'[u] = toMaster[u]

LEMMA OtherSlave ==
    ASSUME SameMaster, NEW u \in Slaves, SameSlave(u), States(u), Holds(u)
    PROVE  States(u)' /\ Holds(u)'
<1>1. /\ st'[u] = st[u] /\ sl'[u] = sl[u] /\ pos'[u] = pos[u] /\ todo'[u] = todo[u]
      /\ callee'[u] = callee[u]
      /\ toSlave'[u] = toSlave[u] /\ toMaster'[u] = toMaster[u] /\ job' = job
    BY DEF SameSlave, SameMaster
<1>2. PICK v, p, box : v = sl[u] /\ p = pos[u] /\ box = toSlave[u]
    OBVIOUS
<1>3. /\ Unlisted(u)' <=> Unlisted(u)
      /\ Due(u)' = Due(u)
      /\ Requests(u, box)' <=> Requests(u, box)
      /\ Agrees(u, v, p, box)' <=> Agrees(u, v, p, box)
      /\ Agrees(u, v, p, <<>>)' <=> Agrees(u, v, p, <<>>)
      /\ Owed(u)' = Owed(u)
    BY <1>1, SameJob DEF Owed
<1>4. Asking(u)' <=> Asking(u)
    BY <1>1, <1>3 DEF Asking
<1>5. Joining(u)' <=> Joining(u)
    BY <1>1, <1>3 DEF Joining
<1>6. Welcomed(u)' <=> Welcomed(u)
  <2>1. PICK lv, lp, tl : lv = box[1].list /\ lp = box[1].pos /\ tl = Tail(box)
      OBVIOUS
  <2>2. /\ Requests(u, tl)' <=> Requests(u, tl)
        /\ Agrees(u, lv, lp, tl)' <=> Agrees(u, lv, lp, tl)
      BY SameJob
  <2>3. Connected(u, lv, lp, tl, 0)' <=> Connected(u, lv, lp, tl, 0)
      BY <1>3, <2>2 DEF Connected
  <2> QED
      BY <1>1, <1>2, <2>1, <2>3 DEF Welcomed
<1>7. Serving(u)' <=> Serving(u)
  <2>1. PICK n : n = Owed(u) + Len(toMaster[u])
      OBVIOUS
  <2>2. Connected(u, v, p, box, n)' <=> Connected(u, v, p, box, n)
      BY <1>3 DEF Connected
  <2> QED
      BY <1>1, <1>2, <1>3, <2>1, <2>2 DEF Serving
<1>8. Goodbye(u)' <=> Goodbye(u)
    BY <1>1, <1>2, <1>3 DEF Goodbye
<1>9. Leaving(u)' <=> Leaving(u)
    BY <1>1, <1>3, <1>8 DEF Leaving
<1>10. States(u)'
    BY <1>1, <1>3, <1>4, <1>5, <1>6, <1>7, <1>9 DEF States
<1>11. Holds(u)'
    BY <1>1, <1>3 DEF Holds
<1> QED
    BY <1>10, <1>11

\* A step in which only s has changed, and nobody has begun or ended a call.
LEMMA OwnStep ==
    ASSUME ClusterInv, NEW s \in Slaves, masterVars' = masterVars,
           callee' = callee, caller' = caller, crash' = crash, Shape',
           \A u \in Slaves \ {s} : SameSlave(u),
           States(s)', Holds(s)', Calls(s)'
    PROVE  ClusterInv'
<1>1. MasterInv' /\ SameMaster
    BY SameMasterInv DEF ClusterInv, Inv
<1>2. ASSUME NEW u \in Slaves, u # s
      PROVE  States(u)' /\ Holds(u)' /\ Calls(u)'
  <2>1. SameSlave(u) /\ States(u) /\ Holds(u) /\ Calls(u)
      BY <1>2 DEF ClusterInv, Inv
  <2>2. States(u)' /\ Holds(u)'
      BY <1>1, <2>1, OtherSlave
  <2>3. Calls(u)'
      BY <2>1 DEF Calls, SameSlave
  <2> QED
      BY <2>2, <2>3
<1>3. CallReplyAsserted'
    BY DEF ClusterInv, CallReplyAsserted
<1> QED
    BY <1>1, <1>2, <1>3 DEF ClusterInv, Inv

\* Facts of every slave, for short.
LEMMA SlaveFacts ==
    ASSUME ClusterInv, NEW s \in Slaves
    PROVE  /\ MasterInv /\ States(s) /\ Holds(s) /\ Calls(s)
           /\ IsQueue(toSlave[s]) /\ IsQueue(toMaster[s]) /\ IsQueue(todo[s])
           /\ NoSlave # s
    BY NoSlaveAssumption DEF ClusterInv, Inv, Shape

\* An aborting process changes nothing else.
LEMMA NothingMoves ==
    ASSUME ClusterInv, UNCHANGED <<masterVars, slaveVars, chanVars>>,
           crash' # "assert rescmd"
    PROVE  ClusterInv'
<1>1. Shape'
    BY DEF ClusterInv, Shape, slaveVars, chanVars
<1>2. MasterInv' /\ SameMaster
    BY SameMasterInv DEF ClusterInv, Inv
<1>3. ASSUME NEW u \in Slaves PROVE States(u)' /\ Holds(u)' /\ Calls(u)'
  <2>1. States(u) /\ Holds(u) /\ Calls(u)
      BY SlaveFacts
  <2>2. SameSlave(u)
      BY DEF SameSlave, slaveVars, chanVars
  <2>3. States(u)' /\ Holds(u)'
      BY <1>2, <2>1, <2>2, OtherSlave
  <2>4. Calls(u)'
      BY <2>1 DEF Calls, slaveVars
  <2> QED
      BY <2>3, <2>4
<1> QED
    BY <1>1, <1>2, <1>3 DEF ClusterInv, Inv, CallReplyAsserted

LEMMA StartStep ==
    ASSUME ClusterInv, NEW s \in Slaves, StartSlave(s)
    PROVE  ClusterInv'
<1>1. /\ MasterInv /\ States(s) /\ Holds(s) /\ Calls(s)
      /\ IsQueue(toSlave[s]) /\ IsQueue(toMaster[s]) /\ IsQueue(todo[s])
    BY SlaveFacts
<1>2. /\ masterVars' = masterVars /\ callee' = callee /\ caller' = caller /\ crash' = crash
      /\ sl' = sl /\ pos' = pos /\ todo' = todo /\ toSlave' = toSlave
      /\ st[s] = "off" /\ Unlisted(s) /\ toSlave[s] = <<>> /\ toMaster[s] = <<>>
    BY <1>1 DEF StartSlave, States
<1>3. PICK q : q = Append(<<>>, [cmd |-> "ADD_SLAVE"])
    OBVIOUS
<1>4. IsQueue(q) /\ Len(q) = 1 /\ q[1].cmd = "ADD_SLAVE"
  <2>1. PICK e, m : e = <<>> /\ m = [cmd |-> "ADD_SLAVE"]
      OBVIOUS
  <2>2. /\ IsQueue(Append(e, m)) /\ Len(e) = 0
        /\ Len(Append(e, m)) = Len(e) + 1 /\ Append(e, m)[Len(e) + 1] = m
    <3>1. IsQueue(e) /\ Len(e) = 0
        BY <2>1, NoMessages
    <3> QED
        BY <3>1, AppendQueue
  <2>3. q = Append(e, m) /\ m.cmd = "ADD_SLAVE"
      BY <1>3, <2>1
  <2>4. Len(q) = 1 /\ q[1] = m
      BY <2>2, <2>3
  <2> QED
      BY <2>2, <2>3, <2>4
<1>5. /\ DOMAIN st' = Slaves /\ DOMAIN toMaster' = Slaves
      /\ st'[s] = "register" /\ toMaster'[s] = q
      /\ \A u \in Slaves \ {s} : st'[u] = st[u] /\ toMaster'[u] = toMaster[u]
    BY <1>2, <1>3 DEF StartSlave, SendTo, ClusterInv, Shape
<1>6. Shape'
    BY <1>2, <1>4, <1>5 DEF ClusterInv, Shape
<1>7. \A u \in Slaves \ {s} : SameSlave(u)
    BY <1>2, <1>5 DEF SameSlave
<1>8. Unlisted(s)' /\ job' = job
    BY <1>2 DEF masterVars, Unlisted
<1>9. Asking(s)'
    BY <1>2, <1>4, <1>5, <1>8 DEF Asking
<1>10. ~(job.op = "add" /\ job.s = s) /\ ~(job.op = "del" /\ job.s = s)
    BY <1>1, <1>2 DEF States, Joining
<1>11. States(s)'
    BY <1>5, <1>8, <1>9, <1>10 DEF States
<1>12. Owed(s)' = Owed(s)
    BY <1>2 DEF Owed
<1>13. Holds(s)' /\ Calls(s)'
    BY <1>1, <1>2, <1>5, <1>12 DEF Holds, Calls
<1> QED
    BY <1>2, <1>6, <1>7, <1>11, <1>13, OwnStep

\* The calls of InitialSlave.
LEMMA CallsQueue ==
    ASSUME NEW q \in Seq({-2, -1, 1, 2})
    PROVE  IsQueue(q) /\ \A i \in 1..Len(q) : q[i] \in {-2, -1, 1, 2}
<1>1. IsQueue(q)
    BY DEF IsQueue
<1> QED
    BY <1>1

LEMMA InitialTodo ==
    ASSUME NEW n \in Nat
    PROVE  /\ IsQueue(InitialCalls(n))
           /\ \A i \in 1..Len(InitialCalls(n)) : InitialCalls(n)[i] \in {-2, -1, 1, 2}
<1>1. CASE n <= 1
  <2>1. InitialCalls(n) = <<>>
      BY <1>1 DEF InitialCalls
  <2> QED
      BY <2>1, NoMessages
<1>2. CASE n = 2
  <2>1. InitialCalls(n) = <<-1, 1>>
      BY <1>2 DEF InitialCalls
  <2>2. PICK q : q = <<-1, 1>>
      OBVIOUS
  <2>3. q \in Seq({-2, -1, 1, 2})
      BY <2>2
  <2> QED
      BY <2>1, <2>2, <2>3, CallsQueue
<1>3. CASE n > 2
  <2>1. InitialCalls(n) = <<-1, 1>> \o <<-2, 2>>
      BY <1>3 DEF InitialCalls
  <2>2. PICK q : q = <<-1, 1>> \o <<-2, 2>>
      OBVIOUS
  <2>3. q \in Seq({-2, -1, 1, 2})
      BY <2>2
  <2> QED
      BY <2>1, <2>2, <2>3, CallsQueue
<1> QED
    BY <1>1, <1>2, <1>3

LEMMA RegisterStep ==
    ASSUME ClusterInv, NEW s \in Slaves, Register(s)
    PROVE  ClusterInv'
<1>1. /\ MasterInv /\ States(s) /\ Holds(s) /\ Calls(s)
      /\ IsQueue(toSlave[s]) /\ IsQueue(toMaster[s]) /\ IsQueue(todo[s])
    BY SlaveFacts
<1>2. PICK box, tl, m : box = toSlave[s] /\ tl = Tail(box) /\ m = Head(box)
    OBVIOUS
<1>3. /\ st[s] = "register" /\ box # <<>> /\ IsQueue(box) /\ IsQueue(tl) /\ m = box[1]
      /\ Len(box) \in Nat \ {0}
    BY <1>1, <1>2, TailQueue DEF Register
<1>4. CASE m.cmd # "ADD_SLAVE_R"
  <2>1. Die("assert ADD_SLAVE_R")
      BY <1>2, <1>4 DEF Register
  <2>2. /\ UNCHANGED <<masterVars, slaveVars, chanVars>>
        /\ crash' = "assert ADD_SLAVE_R"
      BY <2>1 DEF Die
  <2> QED
      BY <2>2, NothingMoves
<1>5. CASE m.cmd = "ADD_SLAVE_R"
  <2>1. /\ masterVars' = masterVars /\ callee' = callee /\ caller' = caller /\ crash' = crash
        /\ toMaster' = toMaster
        /\ pos' = [pos EXCEPT ![s] = m.pos] /\ sl' = [sl EXCEPT ![s] = m.list]
        /\ todo' = [todo EXCEPT ![s] = InitialCalls(m.list.num)]
        /\ st' = [st EXCEPT ![s] = "init"]
        /\ toSlave' = [toSlave EXCEPT ![s] = tl]
      BY <1>2, <1>5 DEF Register, RecvFrom
  <2>2. Welcomed(s)
    <3>1. 1 \in 1..Len(box)
        BY <1>3
    <3>2. ~Asking(s) /\ ~Joining(s)
        BY <1>2, <1>3, <1>5, <3>1 DEF Asking, Joining
    <3> QED
        BY <1>1, <1>3, <3>2 DEF States
  <2>3. PICK v, p : v = m.list /\ p = m.pos
      OBVIOUS
  <2>4. /\ toMaster[s] = <<>> /\ Requests(s, tl) /\ Agrees(s, v, p, tl)
        /\ Len(tl) + 0 = Due(s)
      BY <1>2, <1>3, <2>2, <2>3 DEF Welcomed, Connected
  <2>5. IsSlaveList(v, Slaves)
      BY <1>1, <2>4, ViewIsList
  <2>6. PICK q : q = InitialCalls(v.num)
      OBVIOUS
  <2>7. IsQueue(q) /\ \A i \in 1..Len(q) : q[i] \in {-2, -1, 1, 2}
      BY <2>5, <2>6, InitialTodo DEF IsSlaveList
  <2>8. /\ st'[s] = "init" /\ pos'[s] = p /\ sl'[s] = v /\ todo'[s] = q
        /\ toSlave'[s] = tl /\ toMaster'[s] = <<>>
        /\ DOMAIN st' = Slaves /\ DOMAIN pos' = Slaves /\ DOMAIN sl' = Slaves
        /\ DOMAIN todo' = Slaves /\ DOMAIN toSlave' = Slaves
        /\ \A u \in Slaves \ {s} : /\ st'[u] = st[u] /\ pos'[u] = pos[u] /\ sl'[u] = sl[u]
                                   /\ todo'[u] = todo[u] /\ toSlave'[u] = toSlave[u]
      BY <2>1, <2>3, <2>4, <2>6 DEF ClusterInv, Shape
  <2>9. Shape'
      BY <1>3, <2>1, <2>7, <2>8 DEF ClusterInv, Shape
  <2>10. \A u \in Slaves \ {s} : SameSlave(u)
      BY <2>1, <2>8 DEF SameSlave
  <2>11. Owed(s)' = 0
    <3>1. q # <<>> => Len(q) \in 1..Len(q)
        BY <2>7, EmptyQueue
    <3> QED
        BY <2>7, <2>8, <3>1 DEF Owed
  <2>12. SameMaster /\ job' = job
      BY <2>1 DEF SameMaster, masterVars
  <2>13. Connected(s, v, p, tl, 0)'
      BY <2>4, <2>12, SameJob DEF Connected
  <2>14. Serving(s)'
      BY <2>8, <2>11, <2>13, NoMessages DEF Serving
  <2>15. ~(job.op = "add" /\ job.s = s) /\ ~(job.op = "del" /\ job.s = s)
    <3>1. ~Joining(s)
        BY <1>2, <1>3, <1>5 DEF Joining
    <3> QED
        BY <1>1, <1>3, <3>1 DEF States
  <2>16. States(s)'
      BY <2>8, <2>12, <2>14, <2>15 DEF States
  <2>17. Holds(s)' /\ Calls(s)'
    <3>1. callee[s] = NoSlave
        BY <1>1, <1>3 DEF Holds
    <3> QED
        BY <1>1, <2>1, <2>5, <2>7, <2>8, <2>11, <3>1 DEF Holds, Calls
  <2> QED
      BY <2>1, <2>9, <2>10, <2>16, <2>17, OwnStep
<1> QED
    BY <1>4, <1>5

LEMMA EnterStep ==
    ASSUME ClusterInv, NEW s \in Slaves, EnterLoop(s)
    PROVE  ClusterInv'
<1>1. MasterInv /\ States(s) /\ Holds(s) /\ Calls(s)
    BY SlaveFacts
<1>2. /\ masterVars' = masterVars /\ callee' = callee /\ caller' = caller /\ crash' = crash
      /\ sl' = sl /\ pos' = pos /\ todo' = todo /\ toSlave' = toSlave /\ toMaster' = toMaster
      /\ st[s] = "init" /\ Serving(s)
    BY <1>1 DEF EnterLoop, States, chanVars
<1>3. /\ DOMAIN st' = Slaves /\ st'[s] = "run"
      /\ \A u \in Slaves \ {s} : st'[u] = st[u]
    BY DEF EnterLoop, ClusterInv, Shape
<1>4. Shape'
    BY <1>2, <1>3 DEF ClusterInv, Shape
<1>5. \A u \in Slaves \ {s} : SameSlave(u)
    BY <1>2, <1>3 DEF SameSlave
<1>6. SameMaster /\ job' = job /\ Owed(s)' = Owed(s)
    BY <1>2 DEF SameMaster, masterVars, Owed
<1>7. Serving(s)'
  <2>1. PICK v, p, box, n : /\ v = sl[s] /\ p = pos[s] /\ box = toSlave[s]
                            /\ n = Owed(s) + Len(toMaster[s])
      OBVIOUS
  <2>2. Connected(s, v, p, box, n)
      BY <1>2, <2>1 DEF Serving
  <2>3. Connected(s, v, p, box, n)'
      BY <1>6, <2>2, SameJob DEF Connected
  <2> QED
      BY <1>2, <1>6, <2>1, <2>3 DEF Serving
<1>8. States(s)'
    BY <1>1, <1>2, <1>3, <1>6, <1>7 DEF States, Joining
<1>9. Holds(s)' /\ Calls(s)'
    BY <1>1, <1>2, <1>3, <1>6 DEF Holds, Calls
<1> QED
    BY <1>2, <1>4, <1>5, <1>8, <1>9, OwnStep

\* A request that is not an alarm's is the announcement of the change at hand,
\* of which the slave has not heard before.
LEMMA NotHeard ==
    ASSUME MasterInv, NEW s, NEW v, NEW p, NEW box, IsQueue(box), box # <<>>,
           Requests(s, box), Agrees(s, v, p, box), box[1].cmd # "UPDATE_BACKUP12"
    PROVE  /\ Announcing(s) /\ job.op # "idle" /\ box[1] = Announcement
           /\ BeforeJob(v)
           /\ ~Behind(s, Tail(box)) /\ Requests(s, Tail(box))
<1>1. PICK tl : tl = Tail(box)
    OBVIOUS
<1>2. /\ IsQueue(tl) /\ Len(box) \in Nat \ {0} /\ Len(tl) = Len(box) - 1
      /\ \A i \in 1..(Len(box) - 1) : tl[i] = box[i + 1]
    BY <1>1, TailQueue
<1>3. Announcing(s) /\ box[1] = Announcement
    BY <1>2 DEF Requests
<1>4. job.op # "idle"
    BY <1>3 DEF Announcing, MasterInv, IdleJob
<1>5. ~Reached(s)
  <2>1. /\ IsSlaveList(mlist, Slaves) /\ Ordered(mlist)
        /\ job.i \in Positions(mlist) /\ mlist.nodes[job.i].id = s /\ job.i \in Nat
    <3>1. mlist.num \in Nat
        BY DEF MasterInv, IsSlaveList
    <3> QED
        BY <1>3, <1>4, <3>1 DEF Announcing, MasterInv, Positions
  <2>2. ASSUME NEW j \in Positions(mlist), j < job.i, mlist.nodes[j].id = s PROVE FALSE
    <3>1. j = job.i
        BY <2>1, <2>2, OnePlace
    <3> QED
        BY <2>1, <2>2, <3>1
  <2> QED
      BY <2>2 DEF Reached
<1>6. BeforeJob(v)
    BY <1>4, <1>5 DEF Agrees, Behind
<1>7. \A i \in 1..Len(tl) : tl[i].cmd = "UPDATE_BACKUP12"
  <2>1. ASSUME NEW i \in 1..Len(tl) PROVE tl[i].cmd = "UPDATE_BACKUP12"
    <3>1. i + 1 \in 1..Len(box) /\ i + 1 # 1 /\ tl[i] = box[i + 1]
        BY <1>2, <2>1
    <3> QED
        BY <3>1 DEF Requests
  <2> QED
      BY <2>1
<1>8. tl = <<>> \/ tl[1].cmd = "UPDATE_BACKUP12"
  <2>1. tl # <<>> => Len(tl) \in Nat \ {0}
      BY <1>2, EmptyQueue
  <2> QED
      BY <1>7, <2>1
<1> QED
    BY <1>1, <1>3, <1>4, <1>6, <1>7, <1>8 DEF Behind, Requests

\* What the handlers of the main thread find.
LEMMA PollingFacts ==
    ASSUME ClusterInv, NEW s \in Slaves, Polling(s), toSlave[s] # <<>>
    PROVE  /\ st[s] = "run" /\ todo[s] = <<>> /\ callee[s] = NoSlave /\ Owed(s) = 0
           /\ ~(job.op # "idle" /\ job.s = s)
           /\ Requests(s, toSlave[s]) /\ Agrees(s, sl[s], pos[s], toSlave[s])
           /\ Len(toSlave[s]) + Len(toMaster[s]) = Due(s)
           /\ \A i \in 1..Len(toMaster[s]) :
                 toMaster[s][i].cmd \notin {"ADD_SLAVE", "DEL_SLAVE"}
           /\ IsQueue(Tail(toSlave[s])) /\ Head(toSlave[s]) = toSlave[s][1]
           /\ Len(toSlave[s]) \in Nat \ {0} /\ Len(toMaster[s]) \in Nat
           /\ Len(Tail(toSlave[s])) = Len(toSlave[s]) - 1
<1>1. /\ MasterInv /\ States(s) /\ Holds(s) /\ Calls(s)
      /\ IsQueue(toSlave[s]) /\ IsQueue(toMaster[s])
    BY SlaveFacts
<1>2. st[s] = "run" /\ todo[s] = <<>>
    BY DEF Polling
<1>3. callee[s] = NoSlave /\ Owed(s) = 0 /\ Serving(s)
    BY <1>1, <1>2 DEF Calls, Owed, States
<1>4. ~(job.op # "idle" /\ job.s = s)
    BY <1>1, <1>2 DEF States, Joining, MasterInv
<1>5. Len(toMaster[s]) \in Nat
    BY <1>1, EmptyQueue
<1>6. /\ IsQueue(Tail(toSlave[s])) /\ Head(toSlave[s]) = toSlave[s][1]
      /\ Len(toSlave[s]) \in Nat \ {0}
      /\ Len(Tail(toSlave[s])) = Len(toSlave[s]) - 1
    BY <1>1, TailQueue
<1>7. /\ Requests(s, toSlave[s]) /\ Agrees(s, sl[s], pos[s], toSlave[s])
      /\ Len(toSlave[s]) + Len(toMaster[s]) = Due(s)
      /\ \A i \in 1..Len(toMaster[s]) :
            toMaster[s][i].cmd \notin {"ADD_SLAVE", "DEL_SLAVE"}
  <2>1. Len(toSlave[s]) + (0 + Len(toMaster[s])) = Due(s)
      BY <1>3 DEF Serving, Connected
  <2>2. PICK a \in Nat, b \in Nat : a = Len(toSlave[s]) /\ b = Len(toMaster[s])
      BY <1>5, <1>6
  <2>3. a + (0 + b) = a + b
      OBVIOUS
  <2> QED
      BY <1>3, <2>1, <2>2, <2>3 DEF Serving, Connected
<1> QED
    BY <1>2, <1>3, <1>4, <1>5, <1>6, <1>7

\* The function has changed for s only.
Only(new, old, s, x) == /\ DOMAIN new = Slaves /\ new[s] = x
                        /\ \A u \in Slaves \ {s} : new[u] = old[u]

\* The effect of a handler that gives s the list w, in which it is at r, and
\* that has a reply to send then or later.
LEMMA HandlerStep ==
    ASSUME ClusterInv, NEW s \in Slaves, Polling(s), toSlave[s] # <<>>,
           masterVars' = masterVars, crash' = crash,
           st' = st, callee' = callee, caller' = caller,
           NEW w, NEW r, Only(sl', sl, s, w), Only(pos', pos, s, r),
           NEW calls, IsQueue(calls), Only(todo', todo, s, calls),
           \A i \in 1..Len(calls) : /\ calls[i] \in 0..2
                                    /\ calls[i] = 0 => i = Len(calls),
           Only(toSlave', toSlave, s, Tail(toSlave[s])),
           NEW replies, IsQueue(replies), Only(toMaster', toMaster, s, replies),
           \A i \in 1..Len(replies) : replies[i].cmd \notin {"ADD_SLAVE", "DEL_SLAVE"},
           Owed(s)' + Len(replies) = Len(toMaster[s]) + 1,
           Requests(s, Tail(toSlave[s])), Agrees(s, w, r, Tail(toSlave[s]))
    PROVE  ClusterInv'
<1>1. PICK tl : tl = Tail(toSlave[s])
    OBVIOUS
<1>2. /\ MasterInv /\ States(s) /\ Holds(s) /\ Calls(s)
    BY SlaveFacts
<1>3. /\ st[s] = "run" /\ callee[s] = NoSlave /\ ~(job.op # "idle" /\ job.s = s)
      /\ Len(toSlave[s]) + Len(toMaster[s]) = Due(s)
      /\ IsQueue(tl) /\ Len(tl) = Len(toSlave[s]) - 1
      /\ Len(toSlave[s]) \in Nat \ {0} /\ Len(toMaster[s]) \in Nat
    BY <1>1, PollingFacts
<1>4. IsSlaveList(w, Slaves)
    BY <1>2, ViewIsList
<1>5. /\ st'[s] = "run" /\ callee'[s] = NoSlave /\ sl'[s] = w /\ pos'[s] = r /\ todo'[s] = calls
      /\ toSlave'[s] = tl /\ toMaster'[s] = replies
      /\ DOMAIN sl' = Slaves /\ DOMAIN pos' = Slaves /\ DOMAIN todo' = Slaves
      /\ DOMAIN toSlave' = Slaves /\ DOMAIN toMaster' = Slaves
      /\ \A u \in Slaves \ {s} : /\ sl'[u] = sl[u] /\ pos'[u] = pos[u] /\ todo'[u] = todo[u]
                                 /\ toSlave'[u] = toSlave[u] /\ toMaster'[u] = toMaster[u]
    BY <1>1, <1>3 DEF Only
<1>6. Shape'
  <2>1. DOMAIN st' = Slaves /\ DOMAIN callee' = Slaves /\ DOMAIN caller' = Slaves
      BY DEF ClusterInv, Shape
  <2>2. ASSUME NEW u \in Slaves
        PROVE  IsQueue(toSlave'[u]) /\ IsQueue(toMaster'[u]) /\ IsQueue(todo'[u])
    <3>1. CASE u = s
        BY <1>3, <1>5, <3>1
    <3>2. CASE u # s
        BY <1>5, <3>2 DEF ClusterInv, Shape
    <3> QED
        BY <3>1, <3>2
  <2> QED
      BY <1>5, <2>1, <2>2 DEF Shape
<1>7. \A u \in Slaves \ {s} : SameSlave(u)
    BY <1>5 DEF SameSlave
<1>8. SameMaster /\ job' = job
    BY DEF SameMaster, masterVars
<1>9. PICK n : n = Owed(s)'
    OBVIOUS
<1>10. n \in Nat /\ Len(replies) \in Nat
    BY <1>9, EmptyQueue DEF Owed
<1>11. Len(tl) + (n + Len(replies)) = Due(s)
  <2>1. n + Len(replies) = Len(toMaster[s]) + 1
      BY <1>9
  <2>2. PICK a, b, c, d : /\ a = Len(toSlave[s]) /\ b = Len(toMaster[s])
                          /\ c = Len(tl) /\ d = Len(replies)
      OBVIOUS
  <2>3. a \in Nat /\ b \in Nat /\ d \in Nat /\ c = a - 1 /\ n + d = b + 1 /\ a + b = Due(s)
      BY <1>3, <1>10, <2>1, <2>2
  <2>4. c + (n + d) = a + b
      BY <1>10, <2>3
  <2> QED
      BY <2>2, <2>3, <2>4
<1>12. PICK k : k = n + Len(replies)
    OBVIOUS
<1>13. Connected(s, w, r, tl, k)
    BY <1>1, <1>11, <1>12 DEF Connected
<1>14. Connected(s, w, r, tl, k)'
    BY <1>8, <1>13, SameJob DEF Connected
<1>15. Serving(s)'
    BY <1>5, <1>9, <1>12, <1>14 DEF Serving
<1>16. States(s)'
    BY <1>2, <1>3, <1>5, <1>8, <1>15 DEF States
<1>17. Holds(s)'
  <2>1. \A i \in 1..Len(calls) : calls[i] \in -2..2 /\ calls[i] # -1
      OBVIOUS
  <2> QED
      BY <1>4, <1>5, <2>1 DEF Holds
<1>18. Calls(s)'
    BY <1>2, <1>5 DEF Calls
<1> QED
    BY <1>6, <1>7, <1>16, <1>17, <1>18, OwnStep

\* One more reply.
LEMMA MoreReplies ==
    ASSUME NEW q, IsQueue(q), NEW reply, reply.cmd \notin {"ADD_SLAVE", "DEL_SLAVE"},
           \A i \in 1..Len(q) : q[i].cmd \notin {"ADD_SLAVE", "DEL_SLAVE"}
    PROVE  /\ IsQueue(Append(q, reply)) /\ Len(Append(q, reply)) = Len(q) + 1
           /\ \A i \in 1..Len(Append(q, reply)) :
                 Append(q, reply)[i].cmd \notin {"ADD_SLAVE", "DEL_SLAVE"}
<1>1. PICK new, n : new = Append(q, reply) /\ n = Len(q)
    OBVIOUS
<1>2. /\ IsQueue(new) /\ n \in Nat /\ Len(new) = n + 1
      /\ \A i \in 1..n : new[i] = q[i]
      /\ new[n + 1] = reply
    BY <1>1, AppendQueue
<1>3. ASSUME NEW i \in 1..(n + 1)
      PROVE  new[i].cmd \notin {"ADD_SLAVE", "DEL_SLAVE"}
  <2>1. CASE i = n + 1
      BY <1>2, <2>1
  <2>2. CASE i \in 1..n
      BY <1>1, <1>2, <2>2
  <2> QED
      BY <1>2, <1>3, <2>1, <2>2
<1> QED
    BY <1>1, <1>2, <1>3

LEMMA NewSlaveStep ==
    ASSUME ClusterInv, NEW s \in Slaves, HandleNewSlave(s)
    PROVE  ClusterInv'
<1>1. /\ MasterInv /\ IsQueue(toSlave[s]) /\ IsQueue(toMaster[s]) /\ IsQueue(todo[s])
    BY SlaveFacts
<1>2. PICK box, v, p, m : box = toSlave[s] /\ v = sl[s] /\ p = pos[s] /\ m = Head(box)
    OBVIOUS
<1>3. Polling(s) /\ box # <<>> /\ m.cmd = "NEW_SLAVE"
    BY <1>2 DEF HandleNewSlave, Got
<1>4. /\ todo[s] = <<>> /\ m = box[1] /\ Requests(s, box) /\ Agrees(s, v, p, box)
      /\ \A i \in 1..Len(toMaster[s]) : toMaster[s][i].cmd \notin {"ADD_SLAVE", "DEL_SLAVE"}
    BY <1>2, <1>3, PollingFacts
<1>5. /\ m = Announcement /\ job.op # "idle" /\ BeforeJob(v)
      /\ ~Behind(s, Tail(box)) /\ Requests(s, Tail(box))
    BY <1>1, <1>2, <1>3, <1>4, NotHeard
<1>6. job.op = "add" /\ m.pos = job.pos /\ m.node = mlist.nodes[job.pos]
    BY <1>3, <1>5 DEF Announcement
<1>7. PICK w, r : /\ w = AddNewSlave(v, m.pos, m.node)
                  /\ r = IF m.pos <= p THEN (p + 1) % (v.num + 1) ELSE p
    OBVIOUS
<1>8. /\ IsSlaveList(mlist, Slaves) /\ job.pos \in Positions(mlist)
      /\ IsSlaveList(v, Slaves) /\ v.num = mlist.num - 1
      /\ v.nodes = RemoveSlave(mlist, job.pos).nodes
      /\ (v.version + 1) % UINT_RANGE = mlist.version
      /\ p \in Positions(v) /\ v.nodes[p].id = s
    BY <1>1, <1>4, <1>5, <1>6 DEF MasterInv, BeforeJob, Agrees
<1>9. w = mlist
    BY <1>6, <1>7, <1>8, InsertBack
<1>10. r \in Positions(w) /\ w.nodes[r].id = s
  <2>1. m.pos \in 0..v.num
      BY <1>6, <1>8 DEF Positions
  <2>2. r \in Positions(w) /\ w.nodes[r] = v.nodes[p]
      BY <1>7, <1>8, <2>1, PlaceAfterAdd
  <2> QED
      BY <1>8, <2>2
<1>11. Agrees(s, w, r, Tail(box))
    BY <1>5, <1>6, <1>9, <1>10 DEF Agrees, AfterJob
<1>12. PICK reply, replies : /\ reply = [cmd |-> "NEW_SLAVE_R"]
                             /\ replies = Append(toMaster[s], reply)
    OBVIOUS
<1>13. /\ IsQueue(replies) /\ Len(replies) = Len(toMaster[s]) + 1
       /\ \A i \in 1..Len(replies) : replies[i].cmd \notin {"ADD_SLAVE", "DEL_SLAVE"}
    BY <1>1, <1>4, <1>12, MoreReplies
<1>14. /\ masterVars' = masterVars /\ crash' = crash /\ st' = st /\ todo' = todo
       /\ callee' = callee /\ caller' = caller
       /\ Only(sl', sl, s, w) /\ Only(pos', pos, s, r)
       /\ Only(toSlave', toSlave, s, Tail(toSlave[s])) /\ Only(toMaster', toMaster, s, replies)
    BY <1>2, <1>7, <1>12 DEF HandleNewSlave, SendTo, RecvFrom, Only, ClusterInv, Shape
<1>15. Only(todo', todo, s, <<>>) /\ Owed(s)' = 0
    BY <1>4, <1>14 DEF Owed, ClusterInv, Shape, Only
<1>16. \A i \in 1..Len(<<>>) : <<>>[i] \in 0..2 /\ (<<>>[i] = 0 => i = Len(<<>>))
    BY NoMessages
<1>17. Owed(s)' + Len(replies) = Len(toMaster[s]) + 1
    BY <1>1, <1>13, <1>15, EmptyQueue
<1> QED
    BY <1>2, <1>3, <1>5, <1>11, <1>13, <1>14, <1>15, <1>16, <1>17, NoMessages, HandlerStep

LEMMA RmSlaveStep ==
    ASSUME ClusterInv, NEW s \in Slaves, HandleRmSlave(s)
    PROVE  ClusterInv'
<1>1. /\ MasterInv /\ States(s)
      /\ IsQueue(toSlave[s]) /\ IsQueue(toMaster[s]) /\ IsQueue(todo[s])
    BY SlaveFacts
<1>2. PICK box, v, p, m : box = toSlave[s] /\ v = sl[s] /\ p = pos[s] /\ m = Head(box)
    OBVIOUS
<1>3. Polling(s) /\ box # <<>> /\ m.cmd = "RM_SLAVE"
    BY <1>2 DEF HandleRmSlave, Got
<1>4. /\ st[s] = "run" /\ ~(job.op # "idle" /\ job.s = s)
      /\ todo[s] = <<>> /\ m = box[1] /\ Requests(s, box) /\ Agrees(s, v, p, box)
      /\ \A i \in 1..Len(toMaster[s]) : toMaster[s][i].cmd \notin {"ADD_SLAVE", "DEL_SLAVE"}
    BY <1>2, <1>3, PollingFacts
<1>5. /\ m = Announcement /\ job.op # "idle" /\ BeforeJob(v)
      /\ ~Behind(s, Tail(box)) /\ Requests(s, Tail(box))
    BY <1>1, <1>2, <1>3, <1>4, NotHeard
<1>6. job.op = "del" /\ m.pos = job.pos
    BY <1>1, <1>3, <1>5 DEF Announcement, MasterInv
<1>7. PICK w, num, r : /\ w = RemoveSlave(v, m.pos)
                       /\ num = v.num - 1
                       /\ r = IF m.pos < p THEN (p - 1 + num) % num ELSE p
    OBVIOUS
<1>8. /\ IsSlaveList(mlist, Slaves) /\ job.pos \in Positions(mlist) /\ v = mlist
      /\ p \in Positions(v) /\ v.nodes[p].id = s /\ p # job.pos
    BY <1>1, <1>4, <1>5, <1>6 DEF MasterInv, BeforeJob, Agrees
<1>9. r \in Positions(w) /\ w.nodes[r].id = s
  <2>1. r \in Positions(w) /\ w.nodes[r] = v.nodes[p]
      BY <1>6, <1>7, <1>8, PlaceAfterRemove
  <2> QED
      BY <1>8, <2>1
<1>10. Agrees(s, w, r, Tail(box))
    BY <1>5, <1>6, <1>7, <1>8, <1>9 DEF Agrees, AfterJob
<1>11. PICK reply, replies : /\ reply = [cmd |-> "RM_SLAVE_R"]
                             /\ replies = Append(toMaster[s], reply)
    OBVIOUS
<1>12. /\ IsQueue(replies) /\ Len(replies) = Len(toMaster[s]) + 1
       /\ \A i \in 1..Len(replies) : replies[i].cmd \notin {"ADD_SLAVE", "DEL_SLAVE"}
    BY <1>1, <1>4, <1>11, MoreReplies
<1>13. PICK calls : /\ calls \in {<<2>>, <<>>}
                    /\ todo' = [todo EXCEPT ![s] = calls]
    BY DEF HandleRmSlave
<1>14. /\ masterVars' = masterVars /\ crash' = crash /\ st' = st
       /\ callee' = callee /\ caller' = caller
       /\ Only(sl', sl, s, w) /\ Only(pos', pos, s, r)
       /\ Only(toSlave', toSlave, s, Tail(toSlave[s])) /\ Only(toMaster', toMaster, s, replies)
    BY <1>2, <1>7, <1>11 DEF HandleRmSlave, SendTo, RecvFrom, Only, ClusterInv, Shape
<1>15. /\ IsQueue(calls)
       /\ \A i \in 1..Len(calls) : calls[i] = 2
  <2>1. CASE calls = <<>>
      BY <2>1, NoMessages
  <2>2. CASE calls = <<2>>
    <3>1. calls \in Seq({2})
        BY <2>2
    <3> QED
        BY <3>1 DEF IsQueue
  <2> QED
      BY <1>13, <2>1, <2>2
<1>16. Only(todo', todo, s, calls) /\ Owed(s)' = 0
  <2>1. Only(todo', todo, s, calls) /\ todo'[s] = calls
      BY <1>13 DEF ClusterInv, Shape, Only
  <2>2. calls # <<>> => Len(calls) \in 1..Len(calls)
      BY <1>15, EmptyQueue
  <2> QED
      BY <1>15, <2>1, <2>2 DEF Owed
<1>17. \A i \in 1..Len(calls) : calls[i] \in 0..2 /\ (calls[i] = 0 => i = Len(calls))
    BY <1>15
<1>18. Owed(s)' + Len(replies) = Len(toMaster[s]) + 1
    BY <1>1, <1>12, <1>16, EmptyQueue
<1> QED
    BY <1>2, <1>3, <1>5, <1>10, <1>12, <1>14, <1>15, <1>16, <1>17, <1>18, HandlerStep

LEMMA UpdateStep ==
    ASSUME ClusterInv, NEW s \in Slaves, HandleUpdateBackup12(s)
    PROVE  ClusterInv'
<1>1. /\ MasterInv /\ States(s)
      /\ IsQueue(toSlave[s]) /\ IsQueue(toMaster[s]) /\ IsQueue(todo[s])
    BY SlaveFacts
<1>2. PICK box, tl, v, p : box = toSlave[s] /\ tl = Tail(box) /\ v = sl[s] /\ p = pos[s]
    OBVIOUS
<1>3. Polling(s) /\ box # <<>> /\ Head(box).cmd = "UPDATE_BACKUP12"
    BY <1>2 DEF HandleUpdateBackup12, Got
<1>4. /\ todo[s] = <<>> /\ Head(box) = box[1] /\ Requests(s, box) /\ Agrees(s, v, p, box)
      /\ \A i \in 1..Len(toMaster[s]) : toMaster[s][i].cmd \notin {"ADD_SLAVE", "DEL_SLAVE"}
    BY <1>2, <1>3, PollingFacts
<1>5. /\ IsQueue(tl) /\ Len(box) \in Nat \ {0} /\ Len(tl) = Len(box) - 1
      /\ \A i \in 1..(Len(box) - 1) : tl[i] = box[i + 1]
    BY <1>1, <1>2, <1>3, TailQueue
<1>6. \A i \in 1..Len(tl) : tl[i].cmd = "UPDATE_BACKUP12"
  <2>1. ASSUME NEW i \in 1..Len(tl) PROVE tl[i].cmd = "UPDATE_BACKUP12"
    <3>1. i + 1 \in 1..Len(box) /\ i + 1 # 1 /\ tl[i] = box[i + 1]
        BY <1>5, <2>1
    <3> QED
        BY <1>4, <3>1 DEF Requests
  <2> QED
      BY <2>1
<1>7. tl = <<>> \/ tl[1].cmd = "UPDATE_BACKUP12"
  <2>1. tl # <<>> => Len(tl) \in Nat \ {0}
      BY <1>5, EmptyQueue
  <2> QED
      BY <1>6, <2>1
<1>8. Requests(s, tl) /\ Agrees(s, v, p, tl)
    BY <1>3, <1>4, <1>6, <1>7 DEF Requests, Agrees, Behind
<1>9. PICK calls : calls = <<1, 2, 0>>
    OBVIOUS
<1>10. calls \in Seq({0, 1, 2}) /\ Len(calls) = 3 /\ calls[3] = 0 /\ calls # <<>>
       /\ \A i \in 1..3 : calls[i] \in 0..2 /\ (calls[i] = 0 => i = 3)
    BY <1>9
<1>11. IsQueue(calls)
    BY <1>10 DEF IsQueue
<1>12. /\ masterVars' = masterVars /\ crash' = crash /\ st' = st
       /\ callee' = callee /\ caller' = caller
       /\ Only(sl', sl, s, v) /\ Only(pos', pos, s, p)
       /\ Only(toMaster', toMaster, s, toMaster[s]) /\ Only(todo', todo, s, calls)
       /\ Only(toSlave', toSlave, s, Tail(toSlave[s]))
    BY <1>2, <1>9 DEF HandleUpdateBackup12, RecvFrom, Only, ClusterInv, Shape
<1>13. Owed(s)' = 1
    BY <1>10, <1>12 DEF Owed, Only
<1>14. Owed(s)' + Len(toMaster[s]) = Len(toMaster[s]) + 1
    BY <1>1, <1>13, EmptyQueue
<1>15. \A i \in 1..Len(calls) : calls[i] \in 0..2 /\ (calls[i] = 0 => i = Len(calls))
    BY <1>10
<1> QED
    BY <1>1, <1>2, <1>3, <1>4, <1>8, <1>11, <1>12, <1>14, <1>15, HandlerStep

-----------------------------------------------------------------------------
(* Replies and calls.                                                      *)

LEMMA BackupReplyStep ==
    ASSUME ClusterInv, NEW s \in Slaves, SendBackupReply(s)
    PROVE  ClusterInv'
<1>1. /\ MasterInv /\ States(s) /\ Holds(s) /\ Calls(s)
      /\ IsQueue(toSlave[s]) /\ IsQueue(toMaster[s]) /\ IsQueue(todo[s])
    BY SlaveFacts
<1>2. PICK q, replies : /\ q = todo[s]
                        /\ replies = Append(toMaster[s], [cmd |-> "UPDATE_BACKUP12_R"])
    OBVIOUS
<1>3. /\ st[s] \in {"init", "run"} /\ q # <<>> /\ callee[s] = NoSlave /\ Head(q) = 0
      /\ masterVars' = masterVars /\ crash' = crash /\ st' = st /\ sl' = sl /\ pos' = pos
      /\ callee' = callee /\ caller' = caller /\ toSlave' = toSlave
      /\ Only(todo', todo, s, Tail(q)) /\ Only(toMaster', toMaster, s, replies)
    BY <1>2 DEF SendBackupReply, Working, SendTo, Only, ClusterInv, Shape
<1>4. /\ Len(q) = 1 /\ q[1] = 0 /\ IsQueue(Tail(q)) /\ Tail(q) = <<>>
  <2>1. /\ IsQueue(Tail(q)) /\ q[1] = 0 /\ Len(q) \in Nat \ {0} /\ Len(Tail(q)) = Len(q) - 1
      BY <1>1, <1>2, <1>3, TailQueue
  <2>2. Len(q) = 1
    <3>1. 1 \in 1..Len(q)
        BY <2>1
    <3> QED
        BY <1>1, <1>2, <2>1, <3>1 DEF Holds
  <2>3. Len(Tail(q)) = 0
      BY <2>1, <2>2
  <2>4. Tail(q) = <<>>
      BY <2>1, <2>3, EmptyQueue
  <2> QED
      BY <2>1, <2>2, <2>4
<1>5. Serving(s) /\ Owed(s) = 1 /\ Owed(s)' = 0
    BY <1>1, <1>2, <1>3, <1>4 DEF States, Owed, Only
<1>6. /\ IsQueue(replies) /\ Len(replies) = Len(toMaster[s]) + 1 /\ Len(toMaster[s]) \in Nat
      /\ \A i \in 1..Len(replies) : replies[i].cmd \notin {"ADD_SLAVE", "DEL_SLAVE"}
    BY <1>1, <1>2, <1>5, MoreReplies, EmptyQueue DEF Serving
<1>7. /\ DOMAIN todo' = Slaves /\ DOMAIN toMaster' = Slaves
      /\ todo'[s] = <<>> /\ toMaster'[s] = replies
      /\ \A u \in Slaves \ {s} : todo'[u] = todo[u] /\ toMaster'[u] = toMaster[u]
    BY <1>3, <1>4 DEF Only
<1>8. Shape'
    BY <1>3, <1>6, <1>7, NoMessages DEF ClusterInv, Shape
<1>9. \A u \in Slaves \ {s} : SameSlave(u)
    BY <1>3, <1>7 DEF SameSlave
<1>10. SameMaster /\ job' = job
    BY <1>3 DEF SameMaster, masterVars
<1>11. PICK v, p, box, n : /\ v = sl[s] /\ p = pos[s] /\ box = toSlave[s]
                           /\ n = 1 + Len(toMaster[s])
    OBVIOUS
<1>12. Connected(s, v, p, box, n)'
  <2>1. Connected(s, v, p, box, n)
      BY <1>5, <1>11 DEF Serving
  <2> QED
      BY <1>10, <2>1, SameJob DEF Connected
<1>13. Serving(s)'
  <2>1. Owed(s)' + Len(replies) = n
      BY <1>5, <1>6, <1>11
  <2> QED
      BY <1>3, <1>6, <1>7, <1>11, <1>12, <2>1 DEF Serving
<1>14. States(s)'
    BY <1>1, <1>3, <1>10, <1>13 DEF States, Joining
<1>15. Holds(s)' /\ Calls(s)'
    BY <1>1, <1>3, <1>5, <1>7, NoMessages DEF Holds, Calls
<1> QED
    BY <1>3, <1>8, <1>9, <1>14, <1>15, OwnStep

\* A call done: the reply that is owed stays owed.
LEMMA TodoTail ==
    ASSUME ClusterInv, NEW s \in Slaves, todo[s] # <<>>, todo[s][1] # 0,
           NEW rest, rest = Tail(todo[s]) \/ (rest = <<>> /\ todo[s][1] = -1)
    PROVE  /\ IsQueue(rest)
           /\ (IF rest # <<>> /\ rest[Len(rest)] = 0 THEN 1 ELSE 0) = Owed(s)
           /\ \A i \in 1..Len(rest) : /\ rest[i] \in -2..2
                                      /\ rest[i] = 0 => i = Len(rest)
                                      /\ rest[i] = -1 => Owed(s) = 0
<1>1. PICK q, n, t : q = todo[s] /\ n = Len(q) /\ t = Tail(q)
    OBVIOUS
<1>2. IsQueue(q) /\ Holds(s)
    BY <1>1, SlaveFacts
<1>3. /\ IsQueue(t) /\ n \in Nat \ {0} /\ Len(t) = n - 1
      /\ \A i \in 1..(n - 1) : t[i] = q[i + 1]
    BY <1>1, <1>2, TailQueue
<1>4. /\ \A i \in 1..n : /\ q[i] \in -2..2
                         /\ q[i] = 0 => i = n
                         /\ q[i] = -1 => Owed(s) = 0
      /\ Owed(s) = IF q[n] = 0 THEN 1 ELSE 0
    BY <1>1, <1>2 DEF Holds, Owed
<1>5. CASE rest = <<>> /\ q[1] = -1
  <2>1. Owed(s) = 0
      BY <1>3, <1>4, <1>5
  <2> QED
      BY <1>5, <2>1, NoMessages
<1>6. CASE rest = t
  <2>1. t # <<>> <=> n > 1
      BY <1>3, EmptyQueue
  <2>2. CASE n = 1
    <3>1. Owed(s) = 0 /\ t = <<>>
        BY <1>1, <1>4, <2>1, <2>2
    <3> QED
        BY <1>6, <3>1, NoMessages
  <2>3. CASE n > 1
    <3>1. t[n - 1] = q[n] /\ Len(t) = n - 1 /\ t # <<>>
      <4>1. n - 1 \in 1..(n - 1) /\ (n - 1) + 1 = n
          BY <1>3, <2>3
      <4> QED
          BY <1>3, <2>1, <2>3, <4>1
    <3>2. ASSUME NEW i \in 1..(n - 1)
          PROVE  /\ t[i] \in -2..2
                 /\ t[i] = 0 => i = n - 1
                 /\ t[i] = -1 => Owed(s) = 0
      <4>1. i + 1 \in 1..n /\ t[i] = q[i + 1] /\ (i + 1 = n => i = n - 1)
          BY <1>3, <3>2
      <4> QED
          BY <1>4, <4>1
    <3> QED
        BY <1>3, <1>4, <1>6, <3>1, <3>2
  <2> QED
      BY <1>3, <2>2, <2>3
<1> QED
    BY <1>1, <1>5, <1>6

\* What is said of a slave by its calls, when calls are made and end.
LEMMA CallingStep ==
    ASSUME ClusterInv, NEW s \in Slaves, st[s] \in {"init", "run"},
           masterVars' = masterVars, chanVars' = chanVars, crash' = crash,
           st' = st, sl' = sl, pos' = pos,
           NEW rest, Only(todo', todo, s, rest),
           \/ rest = todo[s]
           \/ /\ todo[s] # <<>> /\ todo[s][1] # 0
              /\ rest = Tail(todo[s]) \/ (rest = <<>> /\ todo[s][1] = -1),
           NEW c, Only(callee', callee, s, c),
           DOMAIN caller' = Slaves,
           \A u \in Slaves : Calls(u)'
    PROVE  ClusterInv'
<1>1. /\ MasterInv /\ States(s) /\ Holds(s) /\ Serving(s)
      /\ IsQueue(toSlave[s]) /\ IsQueue(toMaster[s]) /\ IsQueue(todo[s])
  <2>1. /\ MasterInv /\ States(s) /\ Holds(s)
        /\ IsQueue(toSlave[s]) /\ IsQueue(toMaster[s]) /\ IsQueue(todo[s])
      BY SlaveFacts
  <2> QED
      BY <2>1 DEF States
<1>2. /\ IsQueue(rest)
      /\ (IF rest # <<>> /\ rest[Len(rest)] = 0 THEN 1 ELSE 0) = Owed(s)
      /\ \A i \in 1..Len(rest) : /\ rest[i] \in -2..2
                                 /\ rest[i] = 0 => i = Len(rest)
                                 /\ rest[i] = -1 => Owed(s) = 0
  <2>1. CASE rest = todo[s]
      BY <1>1, <2>1 DEF Owed, Holds
  <2> QED
      BY <2>1, TodoTail
<1>3. /\ todo'[s] = rest /\ Owed(s)' = Owed(s)
      /\ DOMAIN todo' = Slaves /\ DOMAIN callee' = Slaves
      /\ \A u \in Slaves \ {s} : todo'[u] = todo[u] /\ callee'[u] = callee[u]
    BY <1>2 DEF Only, Owed
<1>4. toSlave' = toSlave /\ toMaster' = toMaster /\ SameMaster /\ job' = job
    BY DEF chanVars, SameMaster, masterVars
<1>5. MasterInv'
    BY <1>1, SameMasterInv
<1>6. Shape'
    BY <1>2, <1>3, <1>4 DEF ClusterInv, Shape
<1>7. ASSUME NEW u \in Slaves, u # s PROVE States(u)' /\ Holds(u)'
  <2>1. SameSlave(u)
      BY <1>3, <1>4, <1>7 DEF SameSlave
  <2>2. States(u) /\ Holds(u)
      BY SlaveFacts
  <2> QED
      BY <1>4, <2>1, <2>2, OtherSlave
<1>8. Serving(s)'
  <2>1. PICK v, p, box, n : /\ v = sl[s] /\ p = pos[s] /\ box = toSlave[s]
                            /\ n = Owed(s) + Len(toMaster[s])
      OBVIOUS
  <2>2. Connected(s, v, p, box, n)
      BY <1>1, <2>1 DEF Serving
  <2>3. Connected(s, v, p, box, n)'
      BY <1>4, <2>2, SameJob DEF Connected
  <2> QED
      BY <1>1, <1>3, <1>4, <2>1, <2>3 DEF Serving
<1>9. States(s)'
    BY <1>1, <1>4, <1>8 DEF States, Joining
<1>10. Holds(s)'
    BY <1>1, <1>2, <1>3 DEF Holds
<1> QED
    BY <1>5, <1>6, <1>7, <1>9, <1>10 DEF ClusterInv, Inv, CallReplyAsserted

LEMMA CallStep ==
    ASSUME ClusterInv, NEW s \in Slaves, CallSlave(s)
    PROVE  ClusterInv'
<1>1. /\ MasterInv /\ States(s) /\ Holds(s) /\ Calls(s) /\ NoSlave # s
      /\ IsQueue(toSlave[s]) /\ IsQueue(toMaster[s]) /\ IsQueue(todo[s])
    BY SlaveFacts
<1>2. PICK v, k, hispos, other :
         /\ v = sl[s] /\ k = Head(todo[s])
         /\ hispos = (pos[s] + k + v.num) % v.num
         /\ other = v.nodes[hispos].id
    OBVIOUS
<1>3. /\ st[s] \in {"init", "run"} /\ todo[s] # <<>> /\ callee[s] = NoSlave /\ k # 0
      /\ masterVars' = masterVars /\ chanVars' = chanVars /\ crash' = crash
      /\ st' = st /\ sl' = sl /\ pos' = pos /\ caller' = caller
    BY <1>2 DEF CallSlave, Working
<1>4. k = todo[s][1] /\ Len(todo[s]) \in Nat \ {0}
    BY <1>1, <1>2, <1>3, TailQueue
<1>5. Agrees(s, v, pos[s], toSlave[s])
    BY <1>1, <1>2, <1>3 DEF States, Serving, Connected
<1>6. /\ IsSlaveList(v, Slaves) /\ Ordered(v) /\ pos[s] \in Positions(v)
      /\ v.nodes[pos[s]].id = s
    BY <1>1, <1>5, ViewIsList DEF Agrees
<1>7. hispos \in Positions(v)
  <2>1. PICK n \in Nat \ {0} : n = v.num /\ pos[s] \in 0..(n - 1)
      BY <1>6, NodeType DEF Positions
  <2>2. 1 \in 1..Len(todo[s])
      BY <1>4
  <2>3. k \in -2..2
      BY <1>1, <1>4, <2>2 DEF Holds
  <2>4. pos[s] + k + n \in Int
      BY <2>1, <2>3
  <2>5. (pos[s] + k + n) % n \in 0..(n - 1)
      BY <2>1, <2>4
  <2> QED
      BY <1>2, <2>1, <2>5 DEF Positions
<1>8. other \in Members(v) /\ (hispos # pos[s] => other # s) /\ other \in Slaves
  <2>1. other \in Members(v)
      BY <1>2, <1>7 DEF Members
  <2>2. hispos # pos[s] => other # s
      BY <1>2, <1>6, <1>7, OnePlace
  <2>3. other \in Slaves
      BY <1>2, <1>6, <1>7 DEF IsSlaveList, Positions, SlaveNode
  <2> QED
      BY <2>1, <2>2, <2>3
\* Nobody serves s, which calls nobody.
<1>9. \A u \in Slaves : caller[u] # s
  <2>1. ASSUME NEW u \in Slaves, caller[u] = s PROVE FALSE
    <3>1. Calls(u) /\ NoSlave # u
        BY SlaveFacts
    <3> QED
        BY <1>1, <1>3, <2>1, <3>1 DEF Calls
  <2> QED
      BY <2>1
<1>10. ASSUME NEW rest, Only(todo', todo, s, rest), NEW c, Only(callee', callee, s, c),
              \/ c = NoSlave
              \/ c \in Members(v) /\ c # s /\ rest = todo[s]
       PROVE  \A u \in Slaves : Calls(u)'
  <2>1. ASSUME NEW u \in Slaves, u # s PROVE Calls(u)'
    <3>1. Calls(u) /\ callee'[u] = callee[u] /\ todo'[u] = todo[u] /\ caller[u] # s
        BY <1>9, <1>10, <2>1, SlaveFacts DEF Only
    <3>2. caller[u] # NoSlave => callee'[caller[u]] = u
        BY <1>10, <3>1 DEF Calls, Only
    <3> QED
        BY <1>3, <3>1, <3>2 DEF Calls
  <2>2. Calls(s)'
    <3>1. callee'[s] = c /\ todo'[s] = rest
        BY <1>10 DEF Only
    <3>2. caller[s] # NoSlave => callee'[caller[s]] = s
      <4>1. caller[s] # s
          BY <1>9
      <4> QED
          BY <1>1, <1>10, <4>1 DEF Calls, Only
    <3> QED
        BY <1>1, <1>2, <1>3, <1>4, <1>10, <3>1, <3>2 DEF Calls
  <2> QED
      BY <2>1, <2>2
<1>11. CASE hispos # pos[s] /\ st[other] # "exited" /\ callee' = [callee EXCEPT ![s] = other]
            /\ todo' = todo
  <2>1. Only(todo', todo, s, todo[s]) /\ Only(callee', callee, s, other)
      BY <1>11 DEF Only, ClusterInv, Shape
  <2>2. DOMAIN caller' = Slaves
      BY <1>3 DEF ClusterInv, Shape
  <2>3. \A u \in Slaves : Calls(u)'
      BY <1>8, <1>10, <1>11, <2>1
  <2> QED
      BY <1>3, <2>1, <2>2, <2>3, CallingStep
<1>12. ASSUME callee' = callee,
              \/ todo' = [todo EXCEPT ![s] = Tail(@)]
              \/ k = -1 /\ todo' = [todo EXCEPT ![s] = <<>>]
       PROVE  ClusterInv'
  <2>1. PICK rest : /\ Only(todo', todo, s, rest)
                    /\ rest = Tail(todo[s]) \/ (rest = <<>> /\ k = -1)
    <3>1. CASE todo' = [todo EXCEPT ![s] = Tail(@)]
        BY <3>1 DEF Only, ClusterInv, Shape
    <3>2. CASE k = -1 /\ todo' = [todo EXCEPT ![s] = <<>>]
        BY <3>2 DEF Only, ClusterInv, Shape
    <3> QED
        BY <1>12, <3>1, <3>2
  <2>2. Only(callee', callee, s, NoSlave) /\ DOMAIN caller' = Slaves
      BY <1>3, <1>12 DEF Only, ClusterInv, Shape
  <2>3. \A u \in Slaves : Calls(u)'
      BY <1>10, <2>1, <2>2
  <2> QED
      BY <1>3, <1>4, <2>1, <2>2, <2>3, CallingStep
<1> QED
  <2>1. \/ /\ callee' = callee
           /\ \/ todo' = [todo EXCEPT ![s] = Tail(@)]
              \/ k = -1 /\ todo' = [todo EXCEPT ![s] = <<>>]
        \/ /\ hispos # pos[s] /\ st[other] # "exited"
           /\ callee' = [callee EXCEPT ![s] = other]
           /\ todo' = todo
      BY <1>2 DEF CallSlave
  <2> QED
      BY <1>11, <1>12, <2>1

LEMMA ServeStep ==
    ASSUME ClusterInv, NEW t \in Slaves, NEW s \in Slaves, ServeSlave(t, s)
    PROVE  ClusterInv'
<1>1. /\ masterVars' = masterVars /\ chanVars' = chanVars /\ crash' = crash
      /\ st' = st /\ sl' = sl /\ pos' = pos /\ todo' = todo /\ callee' = callee
      /\ st[t] = "run" /\ callee[s] = t /\ Only(caller', caller, t, s)
    BY DEF ServeSlave, Polling, Only, ClusterInv, Shape
<1>2. ASSUME NEW u \in Slaves PROVE Calls(u)'
  <2>1. Calls(u)
      BY SlaveFacts
  <2>2. CASE u = t
      BY <1>1, <2>1, <2>2 DEF Calls, Only
  <2>3. CASE u # t
      BY <1>1, <2>1, <2>3 DEF Calls, Only
  <2> QED
      BY <2>2, <2>3
<1>3. /\ Only(todo', todo, t, todo[t]) /\ Only(callee', callee, t, callee[t])
      /\ DOMAIN caller' = Slaves
    BY <1>1 DEF Only, ClusterInv, Shape
<1> QED
    BY <1>1, <1>2, <1>3, CallingStep

LEMMA ReceiveStep ==
    ASSUME ClusterInv, NEW s \in Slaves, ReceiveFile(s)
    PROVE  ClusterInv'
<1>1. PICK t \in Slaves : /\ callee[s] = t /\ caller[t] = s
                          /\ caller' = [caller EXCEPT ![t] = NoSlave]
    BY DEF ReceiveFile
<1>2. /\ masterVars' = masterVars /\ chanVars' = chanVars /\ crash' = crash
      /\ st' = st /\ sl' = sl /\ pos' = pos
      /\ st[s] \in {"init", "run"}
      /\ Only(callee', callee, s, NoSlave) /\ Only(todo', todo, s, Tail(todo[s]))
      /\ Only(caller', caller, t, NoSlave)
    BY <1>1 DEF ReceiveFile, Only, ClusterInv, Shape
<1>3. Calls(s) /\ t # NoSlave
    BY SlaveFacts
<1>4. todo[s] # <<>> /\ todo[s][1] # 0
    BY <1>1, <1>3 DEF Calls
<1>5. ASSUME NEW u \in Slaves PROVE Calls(u)'
  <2>1. Calls(u) /\ NoSlave # u
      BY SlaveFacts
  <2>2. caller'[u] # NoSlave => caller'[u] \in Slaves /\ callee'[caller'[u]] = u
    <3>1. CASE u = t
        BY <1>2, <3>1 DEF Only
    <3>2. CASE u # t
      <4>1. caller'[u] = caller[u]
          BY <1>2, <3>2 DEF Only
      <4>2. caller[u] # NoSlave => caller[u] \in Slaves /\ callee[caller[u]] = u
          BY <2>1 DEF Calls
      <4>3. caller[u] # NoSlave => caller[u] # s
          BY <1>1, <3>2, <4>2
      <4> QED
          BY <1>2, <4>1, <4>2, <4>3 DEF Only
    <3> QED
        BY <3>1, <3>2
  <2>3. CASE u = s
      BY <1>2, <2>2, <2>3 DEF Calls, Only
  <2>4. CASE u # s
      BY <1>2, <2>1, <2>2, <2>4 DEF Calls, Only
  <2> QED
      BY <2>3, <2>4
<1>6. DOMAIN caller' = Slaves
    BY <1>2 DEF Only
<1> QED
    BY <1>2, <1>4, <1>5, <1>6, CallingStep

-----------------------------------------------------------------------------
(* Leaving.                                                                *)

\* SIGINT: DEL_SLAVE is the last message, and if it will be read as a request
\* then the slave was up to date.
LEMMA StoppingStep ==
    ASSUME ClusterInv, NEW s \in Slaves, st[s] = "run",
           masterVars' = masterVars, crash' = crash, sl' = sl, pos' = pos, todo' = todo,
           callee' = callee, caller' = caller, Only(st', st, s, "stopping"),
           NEW box, IsQueue(box), Requests(s, box), Only(toSlave', toSlave, s, box),
           NEW m, m.cmd = "DEL_SLAVE",
           Only(toMaster', toMaster, s, Append(toMaster[s], m)),
           Len(toMaster[s]) <= Due(s),
           Len(toMaster[s]) = Due(s) =>
              box = <<>> /\ m.pos = pos[s] /\ Agrees(s, sl[s], pos[s], <<>>)
    PROVE  ClusterInv'
<1>1. /\ MasterInv /\ States(s) /\ Holds(s) /\ Calls(s)
      /\ IsQueue(toSlave[s]) /\ IsQueue(toMaster[s]) /\ IsQueue(todo[s])
    BY SlaveFacts
<1>2. /\ ~(job.op = "add" /\ job.s = s) /\ ~(job.op = "del" /\ job.s = s)
      /\ \A i \in 1..Len(toMaster[s]) :
            toMaster[s][i].cmd \notin {"ADD_SLAVE", "DEL_SLAVE"}
    BY <1>1 DEF States, Joining, Serving
<1>3. PICK q, new, n : q = toMaster[s] /\ new = Append(q, m) /\ n = Len(q)
    OBVIOUS
<1>4. /\ IsQueue(new) /\ new # <<>> /\ n \in Nat /\ Len(new) = n + 1
      /\ \A i \in 1..n : new[i] = q[i]
      /\ new[n + 1] = m
    BY <1>1, <1>3, AppendQueue
<1>5. /\ st'[s] = "stopping" /\ toSlave'[s] = box /\ toMaster'[s] = new
      /\ DOMAIN st' = Slaves /\ DOMAIN toSlave' = Slaves /\ DOMAIN toMaster' = Slaves
      /\ \A u \in Slaves \ {s} : /\ st'[u] = st[u] /\ toSlave'[u] = toSlave[u]
                                 /\ toMaster'[u] = toMaster[u]
    BY <1>3 DEF Only
<1>6. Shape'
  <2>1. /\ DOMAIN sl' = Slaves /\ DOMAIN pos' = Slaves /\ DOMAIN todo' = Slaves
        /\ DOMAIN callee' = Slaves /\ DOMAIN caller' = Slaves
      BY DEF ClusterInv, Shape
  <2>2. ASSUME NEW u \in Slaves
        PROVE  IsQueue(toSlave'[u]) /\ IsQueue(toMaster'[u]) /\ IsQueue(todo'[u])
    <3>1. CASE u = s
        BY <1>1, <1>4, <1>5, <3>1
    <3>2. CASE u # s
        BY <1>5, <3>2 DEF ClusterInv, Shape
    <3> QED
        BY <3>1, <3>2
  <2> QED
      BY <1>5, <2>1, <2>2 DEF Shape
<1>7. \A u \in Slaves \ {s} : SameSlave(u)
    BY <1>5 DEF SameSlave
<1>8. SameMaster /\ job' = job
    BY DEF SameMaster, masterVars
<1>9. PICK v, p, d : v = sl[s] /\ p = pos[s] /\ d = Due(s)
    OBVIOUS
<1>10. Due(s)' = d /\ (Agrees(s, v, p, <<>>)' <=> Agrees(s, v, p, <<>>)) /\ d \in Nat
  <2>1. Due(s)' = Due(s) /\ (Agrees(s, v, p, <<>>)' <=> Agrees(s, v, p, <<>>))
      BY <1>8, SameJob
  <2>2. Due(s) \in Nat
      BY DEF Due
  <2> QED
      BY <1>9, <2>1, <2>2
<1>11. n <= d /\ (n = d => box = <<>> /\ m.pos = p /\ Agrees(s, v, p, <<>>))
    BY <1>3, <1>9
<1>12. Goodbye(s)'
  <2>1. n + 1 <= d + 1 /\ (n + 1 = d + 1 => n = d)
      BY <1>4, <1>10, <1>11
  <2>2. ASSUME NEW i \in 1..(n + 1)
        PROVE  new[i].cmd # "ADD_SLAVE" /\ (new[i].cmd = "DEL_SLAVE" <=> i = n + 1)
    <3>1. CASE i = n + 1
        BY <1>4, <3>1
    <3>2. CASE i \in 1..n /\ i # n + 1
        BY <1>2, <1>3, <1>4, <3>2
    <3> QED
        BY <1>4, <2>2, <3>1, <3>2
  <2> QED
      BY <1>4, <1>5, <1>9, <1>10, <1>11, <2>1, <2>2 DEF Goodbye
<1>13. \A i \in 1..Len(box) : box[i].cmd # "DEL_SLAVE_R"
    BY DEF Requests, Announcement
<1>14. Leaving(s)'
    BY <1>5, <1>12, <1>13 DEF Leaving
<1>15. States(s)'
    BY <1>2, <1>5, <1>8, <1>14 DEF States
<1>16. Owed(s)' = Owed(s)
    BY DEF Owed
<1>17. Holds(s)' /\ Calls(s)'
    BY <1>1, <1>5, <1>16 DEF Holds, Calls
<1> QED
    BY <1>6, <1>7, <1>15, <1>17, OwnStep

LEMMA StopStep ==
    ASSUME ClusterInv, NEW s \in Slaves, StopSlave(s)
    PROVE  ClusterInv'
<1>1. /\ MasterInv /\ States(s) /\ IsQueue(toSlave[s]) /\ IsQueue(toMaster[s])
    BY SlaveFacts
<1>2. /\ st[s] = "run" /\ masterVars' = masterVars /\ crash' = crash
      /\ sl' = sl /\ pos' = pos /\ todo' = todo /\ callee' = callee /\ caller' = caller
    BY DEF StopSlave
<1>3. PICK box, m, a, b, c : /\ box = toSlave[s] /\ m = [cmd |-> "DEL_SLAVE", pos |-> pos[s]]
                             /\ a = Len(box) /\ b = Len(toMaster[s]) /\ c = Owed(s)
    OBVIOUS
<1>4. /\ Only(st', st, s, "stopping") /\ Only(toSlave', toSlave, s, box)
      /\ Only(toMaster', toMaster, s, Append(toMaster[s], m))
    BY <1>3 DEF StopSlave, SendTo, Only, ClusterInv, Shape
<1>5. /\ Requests(s, box) /\ Agrees(s, sl[s], pos[s], box) /\ a + (c + b) = Due(s)
    BY <1>1, <1>2, <1>3 DEF States, Serving, Connected
<1>6. a \in Nat /\ b \in Nat /\ c \in Nat /\ (box = <<>> <=> a = 0)
    BY <1>1, <1>3, EmptyQueue DEF Owed
<1>7. b <= Due(s) /\ (b = Due(s) => a = 0)
    BY <1>5, <1>6
<1>8. b = Due(s) => box = <<>> /\ m.pos = pos[s] /\ Agrees(s, sl[s], pos[s], <<>>)
    BY <1>3, <1>5, <1>6, <1>7
<1> QED
    BY <1>1, <1>2, <1>3, <1>4, <1>5, <1>7, <1>8, StoppingStep

LEMMA StopInHandlerStep ==
    ASSUME ClusterInv, NEW s \in Slaves, StopInHandler(s)
    PROVE  ClusterInv'
<1>1. PICK box, tl : box = toSlave[s] /\ tl = Tail(box)
    OBVIOUS
<1>2. /\ Polling(s) /\ box # <<>> /\ masterVars' = masterVars /\ crash' = crash
      /\ Head(box).cmd # "UPDATE_BACKUP12"
      /\ sl' = sl /\ pos' = pos /\ todo' = todo /\ callee' = callee /\ caller' = caller
    BY <1>1 DEF StopInHandler, Got
<1>3. /\ st[s] = "run" /\ Requests(s, box) /\ Agrees(s, sl[s], pos[s], box)
      /\ Len(box) + Len(toMaster[s]) = Due(s) /\ Head(box) = box[1] /\ IsQueue(tl)
      /\ Len(box) \in Nat \ {0} /\ Len(toMaster[s]) \in Nat
      /\ MasterInv /\ IsQueue(box)
    BY <1>1, <1>2, PollingFacts, SlaveFacts
<1>4. Requests(s, tl)
  <2>1. PICK v, p : v = sl[s] /\ p = pos[s]
      OBVIOUS
  <2> QED
      BY <1>1, <1>2, <1>3, <2>1, NotHeard
<1>5. PICK m : /\ m.cmd = "DEL_SLAVE"
               /\ toMaster' = SendTo(toMaster, s, m)
    BY DEF StopInHandler
<1>6. /\ Only(st', st, s, "stopping") /\ Only(toSlave', toSlave, s, tl)
      /\ Only(toMaster', toMaster, s, Append(toMaster[s], m))
    BY <1>1, <1>5 DEF StopInHandler, SendTo, RecvFrom, Only, ClusterInv, Shape
<1>7. PICK a, b : a = Len(box) /\ b = Len(toMaster[s])
    OBVIOUS
<1>8. b <= Due(s) /\ b # Due(s)
  <2>1. a \in Nat \ {0} /\ b \in Nat /\ a + b = Due(s)
      BY <1>3, <1>7
  <2> QED
      BY <2>1
<1> QED
    BY <1>2, <1>3, <1>4, <1>5, <1>6, <1>7, <1>8, StoppingStep

\* A slave that runs calls slaves of its list, which are in the master's: a
\* slave that has left the master's is not waited for when it exits.
LEMMA ExitStep ==
    ASSUME ClusterInv, NEW s \in Slaves, ExitSlave(s)
    PROVE  ClusterInv'
<1>1. /\ MasterInv /\ States(s) /\ Holds(s) /\ Calls(s)
      /\ IsQueue(toSlave[s]) /\ IsQueue(toMaster[s]) /\ IsQueue(todo[s])
    BY SlaveFacts
<1>2. PICK box, tl : box = toSlave[s] /\ tl = Tail(box)
    OBVIOUS
<1>3. /\ st[s] = "stopping" /\ box # <<>> /\ IsQueue(box) /\ IsQueue(tl) /\ Head(box) = box[1]
      /\ Len(box) \in Nat \ {0}
    BY <1>1, <1>2, TailQueue DEF ExitSlave
<1>4. CASE Head(box).cmd # "DEL_SLAVE_R"
  <2>1. Die("assert DEL_SLAVE_R")
      BY <1>2, <1>4 DEF ExitSlave
  <2>2. /\ UNCHANGED <<masterVars, slaveVars, chanVars>>
        /\ crash' = "assert DEL_SLAVE_R"
      BY <2>1 DEF Die
  <2> QED
      BY <2>2, NothingMoves
<1>5. CASE Head(box).cmd = "DEL_SLAVE_R"
  <2>1. s \notin Members(mlist) /\ toMaster[s] = <<>>
    <3>1. 1 \in 1..Len(box) /\ box[1].cmd = "DEL_SLAVE_R"
        BY <1>3, <1>5
    <3> QED
        BY <1>1, <1>2, <1>3, <3>1 DEF States, Leaving, Unlisted
  <2>2. ~(\E t \in Slaves : callee[t] = s /\ st[t] \in {"init", "run"})
    <3>1. SUFFICES ASSUME NEW t \in Slaves, callee[t] = s, st[t] \in {"init", "run"}
                   PROVE  FALSE
        OBVIOUS
    <3>2. States(t) /\ Calls(t) /\ NoSlave # s
        BY <1>1, SlaveFacts
    <3>3. s \in Members(sl[t])
        BY <3>1, <3>2 DEF Calls
    <3>4. PICK v, p, b : v = sl[t] /\ p = pos[t] /\ b = toSlave[t]
        OBVIOUS
    <3>5. Agrees(t, v, p, b)
        BY <3>1, <3>2, <3>4 DEF States, Serving, Connected
    <3>6. Members(v) \subseteq Members(mlist)
        BY <1>1, <3>5, ViewIsList
    <3> QED
        BY <2>1, <3>3, <3>4, <3>6
  <2>3. /\ masterVars' = masterVars /\ crash' = crash /\ sl' = sl /\ pos' = pos
        /\ toMaster' = toMaster
        /\ st' = [st EXCEPT ![s] = "exited"] /\ toSlave' = [toSlave EXCEPT ![s] = tl]
        /\ todo' = [todo EXCEPT ![s] = <<>>] /\ callee' = [callee EXCEPT ![s] = NoSlave]
        /\ caller' = [t \in Slaves |-> IF caller[t] = s \/ t = s THEN NoSlave
                                       ELSE caller[t]]
      BY <1>2, <1>5, <2>2 DEF ExitSlave, RecvFrom
  <2>4. /\ Only(st', st, s, "exited") /\ Only(toSlave', toSlave, s, tl)
        /\ Only(todo', todo, s, <<>>) /\ Only(callee', callee, s, NoSlave)
        /\ DOMAIN caller' = Slaves /\ caller'[s] = NoSlave
        /\ \A u \in Slaves : caller'[u] = NoSlave \/ (caller'[u] = caller[u] /\ caller[u] # s)
      BY <2>3 DEF Only, ClusterInv, Shape
  <2>5. Shape'
    <3>1. /\ DOMAIN st' = Slaves /\ DOMAIN toSlave' = Slaves /\ DOMAIN todo' = Slaves
          /\ DOMAIN callee' = Slaves /\ DOMAIN caller' = Slaves
        BY <2>4 DEF Only
    <3>2. DOMAIN sl' = Slaves /\ DOMAIN pos' = Slaves /\ DOMAIN toMaster' = Slaves
        BY <2>3 DEF ClusterInv, Shape
    <3>3. ASSUME NEW u \in Slaves
          PROVE  IsQueue(toSlave'[u]) /\ IsQueue(toMaster'[u]) /\ IsQueue(todo'[u])
      <4>1. CASE u = s
          BY <1>1, <1>3, <2>3, <2>4, <4>1, NoMessages DEF Only
      <4>2. CASE u # s
          BY <2>3, <2>4, <4>2 DEF Only, ClusterInv, Shape
      <4> QED
          BY <4>1, <4>2
    <3> QED
        BY <3>1, <3>2, <3>3 DEF Shape
  <2>6. MasterInv' /\ SameMaster /\ job' = job
    <3>1. masterVars' = masterVars
        BY <2>3
    <3> QED
        BY <1>1, <3>1, SameMasterInv DEF SameMaster
  <2>7. ASSUME NEW u \in Slaves, u # s PROVE States(u)' /\ Holds(u)' /\ Calls(u)'
    <3>1. SameSlave(u)
        BY <2>3, <2>4, <2>7 DEF SameSlave, Only
    <3>2. States(u) /\ Holds(u) /\ Calls(u)
        BY SlaveFacts
    <3>3. States(u)' /\ Holds(u)'
        BY <2>6, <3>1, <3>2, OtherSlave
    <3>4. caller'[u] \in Slaves \cup {NoSlave}
        BY <2>4, <3>2 DEF Calls
    <3>5. caller'[u] # NoSlave => callee'[caller'[u]] = u
      <4>1. SUFFICES ASSUME caller'[u] # NoSlave PROVE callee'[caller'[u]] = u
          OBVIOUS
      <4>2. caller'[u] = caller[u] /\ caller[u] # s /\ caller[u] # NoSlave
          BY <2>4, <4>1
      <4>3. caller[u] \in Slaves /\ callee[caller[u]] = u
          BY <3>2, <4>2 DEF Calls
      <4> QED
          BY <2>4, <4>2, <4>3 DEF Only
    <3>6. callee'[u] = callee[u] /\ todo'[u] = todo[u] /\ st'[u] = st[u] /\ sl'[u] = sl[u]
        BY <3>1 DEF SameSlave
    <3>7. Calls(u)'
        BY <3>2, <3>4, <3>5, <3>6 DEF Calls
    <3> QED
        BY <3>3, <3>7
  <2>8. job.op # "idle" => job.s # s
      BY <1>1, <2>1, JobPlace
  <2>9. /\ st'[s] = "exited" /\ toMaster'[s] = <<>> /\ todo'[s] = <<>>
        /\ callee'[s] = NoSlave /\ caller'[s] = NoSlave /\ sl'[s] = sl[s]
      BY <2>1, <2>3, <2>4 DEF Only
  <2>10. Unlisted(s)'
      BY <2>1, <2>6 DEF Unlisted, SameMaster
  <2>11. States(s)'
      BY <2>6, <2>8, <2>9, <2>10 DEF States
  <2>12. Holds(s)' /\ Calls(s)'
      BY <1>1, <2>9, NoMessages DEF Holds, Calls
  <2> QED
      BY <2>3, <2>5, <2>6, <2>7, <2>11, <2>12 DEF ClusterInv, Inv, CallReplyAsserted
<1> QED
    BY <1>4, <1>5

-----------------------------------------------------------------------------
(* The steps of the master.                                                *)

\* They leave what the slaves hold.
LEMMA MasterMoves ==
    ASSUME ClusterInv, slaveVars' = slaveVars, crash' = crash, MasterInv',
           DOMAIN toSlave' = Slaves, DOMAIN toMaster' = Slaves,
           \A u \in Slaves : IsQueue(toSlave'[u]) /\ IsQueue(toMaster'[u]),
           \A u \in Slaves : States(u)'
    PROVE  ClusterInv'
<1>1. /\ st' = st /\ sl' = sl /\ pos' = pos /\ todo' = todo /\ callee' = callee
      /\ caller' = caller
    BY DEF slaveVars
<1>2. Shape'
    BY <1>1 DEF ClusterInv, Shape
<1>3. ASSUME NEW u \in Slaves PROVE Holds(u)' /\ Calls(u)'
  <2>1. Holds(u) /\ Calls(u)
      BY SlaveFacts
  <2>2. Owed(u)' = Owed(u)
      BY <1>1 DEF Owed
  <2> QED
      BY <1>1, <2>1, <2>2 DEF Holds, Calls
<1> QED
    BY <1>2, <1>3 DEF ClusterInv, Inv, CallReplyAsserted

\* A slave to which nothing is sent and from which nothing is taken.
LEMMA Unmoved ==
    ASSUME NEW u \in Slaves, slaveVars' = slaveVars,
           toSlave'[u] = toSlave[u], toMaster'[u] = toMaster[u], States(u),
           Unlisted(u) => Unlisted(u)', Due(u)' = Due(u),
           \A box : Requests(u, box) => Requests(u, box)',
           \/ job.op # "idle" /\ job.s = u
           \/ \A v, p, box : Agrees(u, v, p, box) => Agrees(u, v, p, box)',
           \A o \in {"add", "del"} :
              job'.op = o /\ job'.s = u <=> job.op = o /\ job.s = u,
           job.op \in {"idle", "add", "del"}
    PROVE  States(u)'
<1>1. /\ st' = st /\ sl' = sl /\ pos' = pos /\ todo' = todo /\ Owed(u)' = Owed(u)
    BY DEF slaveVars, Owed
<1>2. Asking(u) => Asking(u)'
    BY <1>1 DEF Asking
<1>3. Joining(u) => Joining(u)'
    BY <1>1 DEF Joining
<1>4. PICK v, p, box : v = sl[u] /\ p = pos[u] /\ box = toSlave[u]
    OBVIOUS
<1>5. CASE job.op # "idle" /\ job.s = u
  <2>1. \/ st[u] = "register" /\ Joining(u)
        \/ st[u] = "stopping" /\ toMaster[u] = <<>>
      BY <1>5 DEF States, Joining
  <2>2. st[u] = "stopping" => Leaving(u)'
      BY <1>1, <2>1 DEF States, Leaving
  <2> QED
      BY <1>1, <1>3, <2>1, <2>2 DEF States
<1>6. CASE \A w, r, b : Agrees(u, w, r, b) => Agrees(u, w, r, b)'
  <2>1. Welcomed(u) => Welcomed(u)'
    <3>1. PICK w, r, tl : w = box[1].list /\ r = box[1].pos /\ tl = Tail(box)
        OBVIOUS
    <3>2. Connected(u, w, r, tl, 0) => Connected(u, w, r, tl, 0)'
        BY <1>6 DEF Connected
    <3> QED
        BY <1>4, <3>1, <3>2 DEF Welcomed
  <2>2. Serving(u) => Serving(u)'
    <3>1. PICK n : n = Owed(u) + Len(toMaster[u])
        OBVIOUS
    <3>2. Connected(u, v, p, box, n) => Connected(u, v, p, box, n)'
        BY <1>6 DEF Connected
    <3> QED
        BY <1>1, <1>4, <3>1, <3>2 DEF Serving
  <2>3. Goodbye(u) => Goodbye(u)'
    <3>1. Agrees(u, v, p, <<>>) => Agrees(u, v, p, <<>>)'
        BY <1>6
    <3> QED
        BY <1>1, <1>4, <3>1 DEF Goodbye
  <2>4. Leaving(u) => Leaving(u)'
      BY <2>3 DEF Leaving
  <2> QED
      BY <1>1, <1>2, <1>3, <2>1, <2>2, <2>4 DEF States
<1> QED
    BY <1>5, <1>6

\* The master takes a message of s for a reply.
LEMMA Replied ==
    ASSUME NEW s \in Slaves, slaveVars' = slaveVars, s \in Members(mlist),
           job'.op = job.op, job'.s = job.s, States(s),
           IsQueue(toSlave[s]), IsQueue(toMaster[s]), toMaster[s] # <<>>,
           toSlave'[s] = toSlave[s], toMaster'[s] = Tail(toMaster[s]),
           Due(s)' = Due(s) - 1, Due(s) \in Nat,
           \A v, p, box :
              /\ Requests(s, box) /\ Agrees(s, v, p, box)
              /\ box = <<>> \/ Due(s) > 1
              => Requests(s, box)' /\ Agrees(s, v, p, box)'
    PROVE  States(s)'
<1>1. /\ st' = st /\ sl' = sl /\ pos' = pos /\ todo' = todo /\ Owed(s)' = Owed(s)
    BY DEF slaveVars, Owed
<1>2. PICK q, tl, n : q = toMaster[s] /\ tl = Tail(q) /\ n = Len(q)
    OBVIOUS
<1>3. /\ IsQueue(tl) /\ n \in Nat \ {0} /\ Len(tl) = n - 1
      /\ \A i \in 1..(n - 1) : tl[i] = q[i + 1]
    BY <1>2, TailQueue
<1>4. /\ st[s] \in {"init", "run", "stopping"}
      /\ ~(job.op = "add" /\ job.s = s) /\ ~(job.op = "del" /\ job.s = s)
  <2>1. ~Asking(s) /\ ~Joining(s) /\ ~Welcomed(s) /\ ~Unlisted(s)
      BY DEF Asking, Joining, Welcomed, Unlisted
  <2> QED
      BY <2>1 DEF States
<1>5. PICK v, p, box, d : v = sl[s] /\ p = pos[s] /\ box = toSlave[s] /\ d = Due(s)
    OBVIOUS
<1>6. CASE st[s] \in {"init", "run"}
  <2>1. PICK a, b : a = Len(box) /\ b = Owed(s)
      OBVIOUS
  <2>2. /\ Requests(s, box) /\ Agrees(s, v, p, box) /\ a + (b + n) = d
        /\ \A i \in 1..n : q[i].cmd \notin {"ADD_SLAVE", "DEL_SLAVE"}
      BY <1>2, <1>5, <1>6, <2>1 DEF States, Serving, Connected
  <2>3. a \in Nat /\ b \in Nat /\ (box = <<>> <=> a = 0)
      BY <1>5, <2>1, EmptyQueue DEF Owed
  <2>4. box = <<>> \/ d > 1
      BY <1>3, <2>2, <2>3
  <2>5. Requests(s, box)' /\ Agrees(s, v, p, box)'
      BY <1>5, <2>2, <2>4
  <2>6. a + (b + (n - 1)) = d - 1
      BY <1>3, <1>5, <2>2, <2>3
  <2>7. PICK k : k = b + (n - 1)
      OBVIOUS
  <2>8. Connected(s, v, p, box, k)'
      BY <1>5, <2>1, <2>5, <2>6, <2>7 DEF Connected
  <2>9. \A i \in 1..(n - 1) : tl[i].cmd \notin {"ADD_SLAVE", "DEL_SLAVE"}
    <3>1. ASSUME NEW i \in 1..(n - 1) PROVE tl[i].cmd \notin {"ADD_SLAVE", "DEL_SLAVE"}
      <4>1. i + 1 \in 1..n /\ tl[i] = q[i + 1]
          BY <1>3, <3>1
      <4> QED
          BY <2>2, <4>1
    <3> QED
        BY <3>1
  <2>10. Serving(s)'
      BY <1>1, <1>2, <1>3, <1>5, <2>1, <2>7, <2>8, <2>9 DEF Serving
  <2> QED
      BY <1>1, <1>4, <1>6, <2>10 DEF States
<1>7. CASE st[s] = "stopping"
  <2>1. /\ n <= d + 1
        /\ \A i \in 1..n : q[i].cmd # "ADD_SLAVE" /\ (q[i].cmd = "DEL_SLAVE" <=> i = n)
        /\ n = d + 1 => box = <<>> /\ q[n].pos = p /\ Agrees(s, v, p, <<>>)
      BY <1>2, <1>5, <1>7 DEF States, Leaving, Goodbye
  <2>2. \A i \in 1..Len(box) : box[i].cmd # "DEL_SLAVE_R"
      BY <1>5, <1>7 DEF States, Leaving
  <2>3. CASE n = 1
    <3>1. tl = <<>>
        BY <1>3, <2>3, EmptyQueue
    <3> QED
        BY <1>1, <1>2, <1>4, <1>5, <1>7, <2>2, <3>1 DEF States, Leaving
  <2>4. CASE n > 1
    <3>1. tl # <<>> /\ n - 1 <= (d - 1) + 1 /\ tl[n - 1] = q[n]
      <4>1. n - 1 \in 1..(n - 1) /\ (n - 1) + 1 = n
          BY <1>3, <2>4
      <4> QED
          BY <1>3, <1>5, <2>1, <2>4, <4>1, EmptyQueue
    <3>2. ASSUME NEW i \in 1..(n - 1)
          PROVE  tl[i].cmd # "ADD_SLAVE" /\ (tl[i].cmd = "DEL_SLAVE" <=> i = n - 1)
      <4>1. i + 1 \in 1..n /\ tl[i] = q[i + 1] /\ (i + 1 = n <=> i = n - 1)
          BY <1>3, <3>2
      <4> QED
          BY <2>1, <4>1
    <3>3. ASSUME n - 1 = (d - 1) + 1
          PROVE  box = <<>> /\ tl[n - 1].pos = p /\ Agrees(s, v, p, <<>>)'
      <4>1. n = d + 1
          BY <1>3, <1>5, <3>3
      <4>2. Requests(s, <<>>)
          BY NoMessages DEF Requests
      <4> QED
          BY <2>1, <3>1, <4>1, <4>2
    <3>4. Goodbye(s)'
        BY <1>1, <1>2, <1>3, <1>5, <3>1, <3>2, <3>3 DEF Goodbye
    <3> QED
        BY <1>1, <1>4, <1>5, <1>7, <2>2, <3>4 DEF States, Leaving
  <2> QED
      BY <1>3, <2>3, <2>4
<1> QED
    BY <1>4, <1>6, <1>7

LEMMA AppendTail ==
    ASSUME NEW q, IsQueue(q), q # <<>>, NEW m
    PROVE  Tail(Append(q, m)) = Append(Tail(q), m)
<1>1. PICK S : q \in Seq(S)
    BY DEF IsQueue
<1>2. q \in Seq(S \cup {m}) /\ m \in S \cup {m}
    BY <1>1
<1> QED
    BY <1>2

\* The master sends a request to s.
LEMMA Asked ==
    ASSUME NEW s \in Slaves, slaveVars' = slaveVars, s \in Members(mlist),
           job'.op = job.op, job'.s = job.s, States(s),
           IsQueue(toSlave[s]), IsQueue(toMaster[s]),
           NEW m, m.cmd # "DEL_SLAVE_R",
           job.op = "add" /\ job.s = s => m.cmd = "UPDATE_BACKUP12",
           toSlave'[s] = Append(toSlave[s], m), toMaster'[s] = toMaster[s],
           Due(s)' = Due(s) + 1, Due(s) \in Nat,
           \A v, p, box :
              IsQueue(box) /\ Len(box) <= Due(s) /\ Requests(s, box) /\ Agrees(s, v, p, box)
              => Requests(s, Append(box, m))' /\ Agrees(s, v, p, Append(box, m))'
    PROVE  States(s)'
<1>1. /\ st' = st /\ sl' = sl /\ pos' = pos /\ todo' = todo /\ Owed(s)' = Owed(s)
    BY DEF slaveVars, Owed
<1>2. PICK v, p, box, d, new, n : /\ v = sl[s] /\ p = pos[s] /\ box = toSlave[s] /\ d = Due(s)
                                  /\ new = Append(box, m) /\ n = Len(box)
    OBVIOUS
<1>3. /\ IsQueue(box) /\ IsQueue(new) /\ new # <<>> /\ n \in Nat /\ Len(new) = n + 1
      /\ \A i \in 1..n : new[i] = box[i]
      /\ new[n + 1] = m
    BY <1>2, AppendQueue
<1>4. st[s] \in {"register", "init", "run", "stopping"} /\ ~Asking(s)
    BY DEF States, Unlisted, Asking
<1>5. Joining(s) => Joining(s)'
  <2>1. SUFFICES ASSUME Joining(s) PROVE Joining(s)'
      OBVIOUS
  <2>2. /\ job.op = "add" /\ job.s = s /\ st[s] = "register" /\ toMaster[s] = <<>>
        /\ \A i \in 1..n : box[i].cmd = "UPDATE_BACKUP12"
        /\ n = d
      BY <1>2, <2>1 DEF Joining
  <2>3. \A i \in 1..(n + 1) : new[i].cmd = "UPDATE_BACKUP12"
    <3>1. ASSUME NEW i \in 1..(n + 1) PROVE new[i].cmd = "UPDATE_BACKUP12"
      <4>1. i \in 1..n \/ i = n + 1
          BY <1>3, <3>1
      <4> QED
          BY <1>3, <2>2, <4>1
    <3> QED
        BY <3>1
  <2> QED
      BY <1>1, <1>2, <1>3, <2>2, <2>3 DEF Joining
<1>6. Welcomed(s) => Welcomed(s)'
  <2>1. SUFFICES ASSUME Welcomed(s) PROVE Welcomed(s)'
      OBVIOUS
  <2>2. box # <<>> /\ box[1].cmd = "ADD_SLAVE_R" /\ toMaster[s] = <<>>
      BY <1>2, <2>1 DEF Welcomed
  <2>3. PICK tl, w, r : tl = Tail(box) /\ w = box[1].list /\ r = box[1].pos
      OBVIOUS
  <2>4. /\ IsQueue(tl) /\ Len(tl) \in Nat /\ Len(tl) = d
        /\ Requests(s, tl) /\ Agrees(s, w, r, tl)
      BY <1>2, <1>3, <2>1, <2>2, <2>3, TailQueue, EmptyQueue DEF Welcomed, Connected
  <2>5. PICK longer : longer = Append(tl, m)
      OBVIOUS
  <2>6. Requests(s, longer)' /\ Agrees(s, w, r, longer)'
      BY <1>2, <2>4, <2>5
  <2>7. Tail(new) = longer /\ Len(longer) = d + 1 /\ new[1] = box[1]
    <3>1. Tail(new) = longer
      <4>1. IsQueue(box) /\ new = Append(box, m)
          BY <1>2, <1>3
      <4> QED
          BY <2>2, <2>3, <2>5, <4>1, AppendTail
    <3>2. Len(longer) = d + 1
      <4>1. IsQueue(tl) /\ Len(tl) = d
          BY <2>4
      <4>2. Len(Append(tl, m)) = Len(tl) + 1
          BY <4>1, AppendQueue
      <4> QED
          BY <2>5, <4>1, <4>2
    <3>3. 1 \in 1..n
        BY <1>2, <1>3, <2>2, EmptyQueue
    <3> QED
        BY <1>3, <3>1, <3>2, <3>3
  <2>8. Connected(s, w, r, longer, 0)'
      BY <1>2, <2>6, <2>7 DEF Connected
  <2> QED
      BY <1>2, <1>3, <2>2, <2>3, <2>7, <2>8 DEF Welcomed
<1>7. Serving(s) => Serving(s)'
  <2>1. SUFFICES ASSUME Serving(s) PROVE Serving(s)'
      OBVIOUS
  <2>2. PICK k : k = Owed(s) + Len(toMaster[s])
      OBVIOUS
  <2>3. /\ Requests(s, box) /\ Agrees(s, v, p, box) /\ n + k = d
      BY <1>2, <2>1, <2>2 DEF Serving, Connected
  <2>4. k \in Nat
    <3>1. Owed(s) \in Nat /\ Len(toMaster[s]) \in Nat
        BY EmptyQueue DEF Owed
    <3> QED
        BY <2>2, <3>1
  <2>5. n <= d /\ (n + 1) + k = d + 1
      BY <1>3, <2>3, <2>4
  <2>6. Requests(s, new)' /\ Agrees(s, v, p, new)'
      BY <1>2, <1>3, <2>3, <2>5
  <2>7. Connected(s, v, p, new, k)'
      BY <1>2, <1>3, <2>5, <2>6 DEF Connected
  <2> QED
      BY <1>1, <1>2, <2>1, <2>2, <2>7 DEF Serving
<1>8. Leaving(s) => Leaving(s)'
  <2>1. SUFFICES ASSUME Leaving(s) PROVE Leaving(s)'
      OBVIOUS
  <2>2. \A i \in 1..(n + 1) : new[i].cmd # "DEL_SLAVE_R"
    <3>1. ASSUME NEW i \in 1..(n + 1) PROVE new[i].cmd # "DEL_SLAVE_R"
      <4>1. i \in 1..n \/ i = n + 1
          BY <1>3, <3>1
      <4>2. \A j \in 1..n : box[j].cmd # "DEL_SLAVE_R"
          BY <1>2, <2>1 DEF Leaving, Unlisted
      <4> QED
          BY <1>3, <4>1, <4>2
    <3> QED
        BY <3>1
  <2>3. Goodbye(s) => Goodbye(s)'
    <3>1. PICK l : l = Len(toMaster[s])
        OBVIOUS
    <3>2. l \in Nat
        BY <3>1, EmptyQueue
    <3>3. l <= d + 1 => l <= (d + 1) + 1 /\ l # (d + 1) + 1
        BY <1>2, <3>2
    <3> QED
        BY <1>1, <1>2, <3>1, <3>3 DEF Goodbye
  <2> QED
      BY <1>1, <1>2, <1>3, <2>1, <2>2, <2>3 DEF Leaving
<1> QED
    BY <1>1, <1>4, <1>5, <1>6, <1>7, <1>8 DEF States

\* The change at hand stays, and the master does not turn to or from s.
LEMMA SameWait ==
    ASSUME mlist' = mlist, job'.op = job.op, job'.pos = job.pos, NEW s,
           Announcing(s)' <=> Announcing(s), Reached(s)' <=> Reached(s)
    PROVE  /\ Unlisted(s)' <=> Unlisted(s)
           /\ \A box : Requests(s, box)' <=> Requests(s, box)
           /\ \A v, p, box : Agrees(s, v, p, box)' <=> Agrees(s, v, p, box)
<1>1. Unlisted(s)' <=> Unlisted(s)
    BY DEF Unlisted
<1>2. Announcement' = Announcement
    BY DEF Announcement
<1>3. ASSUME NEW box PROVE Requests(s, box)' <=> Requests(s, box)
    BY <1>2 DEF Requests
<1>4. ASSUME NEW v, NEW p, NEW box PROVE Agrees(s, v, p, box)' <=> Agrees(s, v, p, box)
  <2>1. Behind(s, box)' <=> Behind(s, box)
      BY DEF Behind
  <2>2. BeforeJob(v)' <=> BeforeJob(v)
      BY DEF BeforeJob
  <2>3. AfterJob(v)' <=> AfterJob(v)
      BY DEF AfterJob
  <2> QED
      BY <2>1, <2>2, <2>3 DEF Agrees
<1> QED
    BY <1>1, <1>3, <1>4

LEMMA MemberIsSlave == MasterInv => Members(mlist) \subseteq Slaves /\ NoSlave \notin Members(mlist)
<1> SUFFICES ASSUME MasterInv
             PROVE  Members(mlist) \subseteq Slaves /\ NoSlave \notin Members(mlist)
    OBVIOUS
<1>1. IsSlaveList(mlist, Slaves)
    BY DEF MasterInv
<1>2. Members(mlist) \subseteq Slaves
  <2>1. ASSUME NEW i \in Positions(mlist) PROVE mlist.nodes[i].id \in Slaves
      BY <1>1 DEF IsSlaveList, Positions, SlaveNode
  <2> QED
      BY <2>1 DEF Members
<1> QED
    BY <1>2, NoSlaveAssumption

LEMMA DueRange == ASSUME NEW s PROVE Due(s) \in 0..2
    BY DEF Due

LEMMA AlarmReplyStep ==
    ASSUME ClusterInv, AlarmReply
    PROVE  ClusterInv'
<1>1. PICK a : a = alarm
    OBVIOUS
<1>2. /\ MasterInv /\ a \in Members(mlist) /\ a \in Slaves /\ a # NoSlave
      /\ job.op \in {"idle", "add", "del"}
  <2>1. MasterInv
      BY DEF ClusterInv, Inv
  <2>2. alarm \in Members(mlist) /\ alarm # NoSlave /\ job.op \in {"idle", "add", "del"}
      BY <2>1 DEF AlarmReply, MasterInv
  <2> QED
      BY <1>1, <2>1, <2>2, MemberIsSlave
<1>3. /\ mlist' = mlist /\ job' = job /\ alarm' = NoSlave /\ backuppos' = backuppos
      /\ eintr' = eintr /\ slaveVars' = slaveVars /\ toSlave' = toSlave /\ crash' = crash
      /\ toMaster[a] # <<>> /\ Only(toMaster', toMaster, a, Tail(toMaster[a]))
    BY <1>1, <1>2 DEF AlarmReply, RecvFrom, Only, ClusterInv, Shape
<1>4. MasterInv'
  <2>1. Members(mlist)' = Members(mlist) /\ Positions(mlist)' = Positions(mlist)
      BY <1>3
  <2>2. IsSlaveList(mlist, Slaves)' /\ Ordered(mlist)'
      BY <1>2, <1>3 DEF MasterInv
  <2> QED
      BY <1>2, <1>3, <2>1, <2>2 DEF MasterInv
<1>5. ASSUME NEW u
      PROVE  /\ Unlisted(u)' <=> Unlisted(u)
             /\ \A box : Requests(u, box)' <=> Requests(u, box)
             /\ \A v, p, box : Agrees(u, v, p, box)' <=> Agrees(u, v, p, box)
             /\ u \in Slaves => Due(u)' = IF u = a THEN Due(u) - 1 ELSE Due(u)
  <2>1. (Announcing(u)' <=> Announcing(u)) /\ (Reached(u)' <=> Reached(u))
      BY <1>3 DEF Announcing, Reached
  <2>2. u \in Slaves => Due(u)' = IF u = a THEN Due(u) - 1 ELSE Due(u)
      BY <1>1, <1>2, <1>3, <2>1, NoSlaveAssumption DEF Due
  <2> QED
      BY <1>3, <2>1, <2>2, SameWait
<1>6. ASSUME NEW u \in Slaves
      PROVE  IsQueue(toSlave'[u]) /\ IsQueue(toMaster'[u]) /\ States(u)'
  <2>1. States(u) /\ IsQueue(toSlave[u]) /\ IsQueue(toMaster[u])
      BY SlaveFacts
  <2>2. CASE u = a
    <3>1. toMaster'[u] = Tail(toMaster[u]) /\ IsQueue(Tail(toMaster[u])) /\ toSlave'[u] = toSlave[u]
        BY <1>3, <2>1, <2>2, TailQueue DEF Only
    <3>2. Due(u)' = Due(u) - 1 /\ Due(u) \in Nat
        BY <1>5, <2>2, DueRange
    <3>3. \A v, p, box : /\ Requests(u, box) /\ Agrees(u, v, p, box)
                         /\ box = <<>> \/ Due(u) > 1
                         => Requests(u, box)' /\ Agrees(u, v, p, box)'
        BY <1>5
    <3>4. States(u)'
        BY <1>2, <1>3, <2>1, <2>2, <3>1, <3>2, <3>3, Replied
    <3> QED
        BY <2>1, <3>1, <3>4
  <2>3. CASE u # a
    <3>1. toMaster'[u] = toMaster[u] /\ toSlave'[u] = toSlave[u] /\ Due(u)' = Due(u)
        BY <1>3, <1>5, <2>3 DEF Only
    <3>2. /\ Unlisted(u) => Unlisted(u)'
          /\ \A box : Requests(u, box) => Requests(u, box)'
          /\ \A v, p, box : Agrees(u, v, p, box) => Agrees(u, v, p, box)'
        BY <1>5
    <3>3. \A o \in {"add", "del"} : job'.op = o /\ job'.s = u <=> job.op = o /\ job.s = u
        BY <1>3
    <3>4. States(u)'
        BY <1>2, <1>3, <2>1, <3>1, <3>2, <3>3, Unmoved
    <3> QED
        BY <2>1, <3>1, <3>4
  <2> QED
      BY <2>2, <2>3
<1>7. DOMAIN toSlave' = Slaves /\ DOMAIN toMaster' = Slaves
    BY <1>3 DEF Only, ClusterInv, Shape
<1> QED
    BY <1>3, <1>4, <1>6, <1>7, MasterMoves

\* An alarm's request makes no difference to what a slave has heard.
LEMMA AppendAlarm ==
    ASSUME NEW s, NEW v, NEW p, NEW box, IsQueue(box), NEW m, m.cmd = "UPDATE_BACKUP12",
           Requests(s, box), Agrees(s, v, p, box)
    PROVE  Requests(s, Append(box, m)) /\ Agrees(s, v, p, Append(box, m))
<1>1. PICK new, n : new = Append(box, m) /\ n = Len(box)
    OBVIOUS
<1>2. /\ n \in Nat /\ Len(new) = n + 1 /\ new # <<>> /\ (box = <<>> <=> n = 0)
      /\ \A i \in 1..n : new[i] = box[i]
      /\ new[n + 1] = m
    BY <1>1, AppendQueue, EmptyQueue
<1>3. Requests(s, new)
  <2>1. ASSUME NEW i \in 1..(n + 1)
        PROVE  \/ new[i].cmd = "UPDATE_BACKUP12"
               \/ i = 1 /\ Announcing(s) /\ new[i] = Announcement
    <3>1. CASE i \in 1..n
        BY <1>1, <1>2, <3>1 DEF Requests
    <3>2. CASE i = n + 1
        BY <1>2, <3>2
    <3> QED
        BY <1>2, <2>1, <3>1, <3>2
  <2> QED
      BY <1>2, <2>1 DEF Requests
<1>4. Behind(s, new) <=> Behind(s, box)
  <2>1. CASE n = 0
    <3>1. new[1] = m
        BY <1>2, <2>1
    <3> QED
        BY <1>2, <2>1, <3>1 DEF Behind
  <2>2. CASE n # 0
    <3>1. 1 \in 1..n
        BY <1>2, <2>2
    <3>2. new[1] = box[1]
        BY <1>2, <3>1
    <3> QED
        BY <1>2, <2>2, <3>2 DEF Behind
  <2> QED
      BY <2>1, <2>2
<1> QED
    BY <1>1, <1>3, <1>4 DEF Agrees

LEMMA AlarmStep ==
    ASSUME ClusterInv, Alarm
    PROVE  ClusterInv'
<1>1. MasterInv /\ IsSlaveList(mlist, Slaves) /\ mlist.num \in Nat \ {0} /\ backuppos \in Nat
      /\ job.op \in {"idle", "add", "del"} /\ alarm = NoSlave /\ eintr \in BOOLEAN
    BY DEF ClusterInv, Inv, MasterInv, Alarm, IsSlaveList
<1>2. PICK p, a, m : /\ p = (backuppos + 1) % mlist.num /\ a = mlist.nodes[p].id
                     /\ m = [cmd |-> "UPDATE_BACKUP12"]
    OBVIOUS
<1>3. p \in Positions(mlist) /\ p \in Nat
  <2>1. PICK n \in Nat \ {0}, k \in Nat : n = mlist.num /\ k = backuppos + 1
      BY <1>1
  <2>2. k % n \in 0..(n - 1)
      BY <2>1, ModRange
  <2> QED
      BY <1>2, <2>1, <2>2 DEF Positions
<1>4. a \in Members(mlist) /\ a \in Slaves /\ a # NoSlave
  <2>1. a \in Members(mlist)
      BY <1>2, <1>3 DEF Members
  <2> QED
      BY <1>1, <2>1, MemberIsSlave
<1>5. /\ mlist' = mlist /\ job' = job /\ alarm' = a /\ backuppos' = p /\ eintr' \in BOOLEAN
      /\ slaveVars' = slaveVars /\ toMaster' = toMaster /\ crash' = crash
      /\ Only(toSlave', toSlave, a, Append(toSlave[a], m))
    BY <1>1, <1>2, <1>4 DEF Alarm, SendTo, Only, ClusterInv, Shape
<1>6. MasterInv'
  <2>1. Members(mlist)' = Members(mlist) /\ Positions(mlist)' = Positions(mlist)
      BY <1>5
  <2>2. IsSlaveList(mlist, Slaves)' /\ Ordered(mlist)'
      BY <1>1, <1>5 DEF MasterInv
  <2> QED
      BY <1>1, <1>3, <1>4, <1>5, <2>1, <2>2 DEF MasterInv
<1>7. ASSUME NEW u
      PROVE  /\ Unlisted(u)' <=> Unlisted(u)
             /\ \A box : Requests(u, box)' <=> Requests(u, box)
             /\ \A v, r, box : Agrees(u, v, r, box)' <=> Agrees(u, v, r, box)
             /\ u \in Slaves => Due(u)' = IF u = a THEN Due(u) + 1 ELSE Due(u)
  <2>1. (Announcing(u)' <=> Announcing(u)) /\ (Reached(u)' <=> Reached(u))
      BY <1>5 DEF Announcing, Reached
  <2>2. u \in Slaves => Due(u)' = IF u = a THEN Due(u) + 1 ELSE Due(u)
      BY <1>1, <1>4, <1>5, <2>1, NoSlaveAssumption DEF Due
  <2> QED
      BY <1>5, <2>1, <2>2, SameWait
<1>8. ASSUME NEW u \in Slaves
      PROVE  IsQueue(toSlave'[u]) /\ IsQueue(toMaster'[u]) /\ States(u)'
  <2>1. States(u) /\ IsQueue(toSlave[u]) /\ IsQueue(toMaster[u])
      BY SlaveFacts
  <2>2. CASE u = a
    <3>1. /\ toSlave'[u] = Append(toSlave[u], m) /\ IsQueue(Append(toSlave[u], m))
          /\ toMaster'[u] = toMaster[u]
        BY <1>5, <2>1, <2>2, AppendQueue DEF Only
    <3>2. Due(u)' = Due(u) + 1 /\ Due(u) \in Nat
        BY <1>7, <2>2, DueRange
    <3>3. ASSUME NEW v, NEW r, NEW box, IsQueue(box), Requests(u, box), Agrees(u, v, r, box)
          PROVE  Requests(u, Append(box, m))' /\ Agrees(u, v, r, Append(box, m))'
      <4>1. PICK new : new = Append(box, m)
          OBVIOUS
      <4>2. Requests(u, new) /\ Agrees(u, v, r, new)
          BY <1>2, <3>3, <4>1, AppendAlarm
      <4> QED
          BY <1>7, <4>1, <4>2
    <3>4. m.cmd = "UPDATE_BACKUP12"
        BY <1>2
    <3>5. States(u)'
        BY <1>4, <1>5, <2>1, <2>2, <3>1, <3>2, <3>3, <3>4, Asked
    <3> QED
        BY <2>1, <3>1, <3>5
  <2>3. CASE u # a
    <3>1. toMaster'[u] = toMaster[u] /\ toSlave'[u] = toSlave[u] /\ Due(u)' = Due(u)
        BY <1>5, <1>7, <2>3 DEF Only
    <3>2. /\ Unlisted(u) => Unlisted(u)'
          /\ \A box : Requests(u, box) => Requests(u, box)'
          /\ \A v, r, box : Agrees(u, v, r, box) => Agrees(u, v, r, box)'
        BY <1>7
    <3>3. \A o \in {"add", "del"} : job'.op = o /\ job'.s = u <=> job.op = o /\ job.s = u
        BY <1>5
    <3>4. States(u)'
        BY <1>1, <1>5, <2>1, <3>1, <3>2, <3>3, Unmoved
    <3> QED
        BY <2>1, <3>1, <3>4
  <2> QED
      BY <2>2, <2>3
<1>9. DOMAIN toSlave' = Slaves /\ DOMAIN toMaster' = Slaves
    BY <1>5 DEF Only, ClusterInv, Shape
<1> QED
    BY <1>5, <1>6, <1>8, <1>9, MasterMoves

\* The loop of NotifyAll is at a slave other than the one the change is about,
\* or at that one.
LEMMA NotifyFacts ==
    ASSUME ClusterInv, NotifyAll
    PROVE  /\ MasterInv /\ job.op \in {"add", "del"}
           /\ DOMAIN job = {"op", "s", "pos", "i", "sent"}
           /\ job.i \in Nat /\ job.i \in Positions(mlist)
           /\ mlist.nodes[job.i].id \in Members(mlist) /\ mlist.nodes[job.i].id \in Slaves
           /\ job.i = job.pos <=> mlist.nodes[job.i].id = job.s
           /\ \A j \in Positions(mlist) : mlist.nodes[j].id = mlist.nodes[job.i].id => j = job.i
           /\ job.sent => job.i # job.pos
           /\ job.sent \in BOOLEAN
           /\ alarm = NoSlave /\ IsSlaveList(mlist, Slaves)
           /\ mlist' = mlist /\ alarm' = alarm /\ backuppos' = backuppos /\ eintr' = eintr
           /\ slaveVars' = slaveVars /\ crash' = crash
           /\ \A u \in Slaves : Due(u) = IF Announcing(u) THEN 1 ELSE 0
           /\ \A u \in Slaves : Due(u)' = IF Announcing(u)' THEN 1 ELSE 0
<1>1. MasterInv
    BY DEF ClusterInv, Inv
<1>2. /\ alarm = NoSlave /\ job # IdleJob /\ job.i < mlist.num
      /\ mlist' = mlist /\ alarm' = alarm /\ backuppos' = backuppos /\ eintr' = eintr
      /\ slaveVars' = slaveVars /\ crash' = crash
    BY DEF NotifyAll, MasterFree
<1>3. /\ job.op \in {"add", "del"} /\ IsSlaveList(mlist, Slaves) /\ Ordered(mlist)
      /\ DOMAIN job = {"op", "s", "pos", "i", "sent"}
      /\ job.pos \in Positions(mlist) /\ mlist.nodes[job.pos].id = job.s
      /\ job.i \in 0..mlist.num /\ job.sent \in BOOLEAN /\ (job.sent => job.i # job.pos)
    BY <1>1, <1>2 DEF MasterInv
<1>4. job.i \in Nat /\ job.i \in Positions(mlist)
  <2>1. mlist.num \in Nat
      BY <1>3 DEF IsSlaveList
  <2> QED
      BY <1>2, <1>3, <2>1 DEF Positions
<1>5. mlist.nodes[job.i].id \in Members(mlist)
    BY <1>4 DEF Members
<1>6. mlist.nodes[job.i].id \in Slaves
    BY <1>1, <1>5, MemberIsSlave
<1>7. \A j \in Positions(mlist) : mlist.nodes[j].id = mlist.nodes[job.i].id => j = job.i
    BY <1>3, <1>4, OnePlace
<1>8. job.i = job.pos <=> mlist.nodes[job.i].id = job.s
    BY <1>3, <1>7
<1>9. \A u \in Slaves : /\ Due(u) = IF Announcing(u) THEN 1 ELSE 0
                        /\ Due(u)' = IF Announcing(u)' THEN 1 ELSE 0
    BY <1>2, NoSlaveAssumption DEF Due
<1> QED
    BY <1>1, <1>2, <1>3, <1>4, <1>5, <1>6, <1>7, <1>8, <1>9

\* What the master keeps, whatever the loop does.
LEMMA NotifyMaster ==
    ASSUME ClusterInv, NotifyAll, job'.op = job.op, job'.s = job.s, job'.pos = job.pos,
           DOMAIN job' = DOMAIN job, job'.sent \in BOOLEAN,
           job'.i = job.i \/ (job'.i = job.i + 1 /\ ~job'.sent),
           job'.sent => job'.i = job.i /\ job.i # job.pos
    PROVE  MasterInv'
<1>1. /\ MasterInv /\ job.op \in {"add", "del"}
      /\ DOMAIN job = {"op", "s", "pos", "i", "sent"}
      /\ job.i \in Nat /\ job.i \in Positions(mlist)
      /\ mlist' = mlist /\ alarm' = alarm /\ backuppos' = backuppos /\ eintr' = eintr
      /\ IsSlaveList(mlist, Slaves)
    BY NotifyFacts
<1>2. PICK n, k, j : n = mlist.num /\ k = job.i /\ j = job'.i
    OBVIOUS
<1>3. n \in Nat /\ k \in Nat /\ k < n /\ (j = k \/ j = k + 1)
    BY <1>1, <1>2 DEF IsSlaveList, Positions
<1>4. j \in 0..n /\ (j = k => j < n)
    BY <1>3
<1>5. job' # IdleJob /\ job'.op # "idle"
    BY <1>1 DEF IdleJob
<1>6. Members(mlist)' = Members(mlist) /\ Positions(mlist)' = Positions(mlist)
    BY <1>1
<1>7. IsSlaveList(mlist, Slaves)' /\ Ordered(mlist)'
    BY <1>1 DEF MasterInv
<1>8. /\ job'.pos \in Positions(mlist) /\ mlist.nodes[job'.pos].id = job'.s
      /\ alarm \in Members(mlist) \cup {NoSlave} /\ backuppos \in Nat /\ eintr \in BOOLEAN
    BY <1>1 DEF MasterInv
<1> QED
    BY <1>1, <1>2, <1>3, <1>4, <1>5, <1>6, <1>7, <1>8 DEF MasterInv

\* The slaves the loop is not at.
LEMMA NotifyOthers ==
    ASSUME ClusterInv, NotifyAll, job'.op = job.op, job'.s = job.s, job'.pos = job.pos,
           job'.i = job.i \/ (job'.i = job.i + 1 /\ ~job'.sent),
           NEW u \in Slaves, u # mlist.nodes[job.i].id \/ (job.i = job.pos /\ ~job'.sent),
           toSlave'[u] = toSlave[u], toMaster'[u] = toMaster[u]
    PROVE  States(u)'
<1>1. /\ States(u) /\ job.op \in {"add", "del"} /\ mlist' = mlist
      /\ slaveVars' = slaveVars
      /\ job.i \in Nat /\ job.i \in Positions(mlist)
      /\ Due(u) = IF Announcing(u) THEN 1 ELSE 0
      /\ Due(u)' = IF Announcing(u)' THEN 1 ELSE 0
      /\ job.i = job.pos <=> mlist.nodes[job.i].id = job.s
      /\ job.sent => job.i # job.pos
    BY NotifyFacts, SlaveFacts
<1>2. (Announcing(u)' <=> Announcing(u)) /\ ~Announcing(u)
    BY <1>1 DEF Announcing
<1>3. Announcement' = Announcement
    BY <1>1 DEF Announcement
<1>4. \A box : Requests(u, box) => Requests(u, box)'
    BY <1>2, <1>3 DEF Requests
<1>5. \/ job.op # "idle" /\ job.s = u
      \/ \A v, p, box : Agrees(u, v, p, box) => Agrees(u, v, p, box)'
  <2>1. CASE u = mlist.nodes[job.i].id
      BY <1>1, <2>1
  <2>2. CASE u # mlist.nodes[job.i].id
    <3>1. Reached(u)' <=> Reached(u)
      <4>1. ASSUME NEW j \in Positions(mlist), mlist.nodes[j].id = u
            PROVE  j < job'.i <=> j < job.i
        <5>1. j \in Nat /\ j # job.i
            BY <1>1, <2>2, <4>1 DEF Positions
        <5> QED
            BY <1>1, <5>1
      <4> QED
          BY <1>1, <4>1 DEF Reached
    <3> QED
        BY <1>1, <1>2, <3>1, SameWait
  <2> QED
      BY <2>1, <2>2
<1>6. /\ Unlisted(u) => Unlisted(u)'
      /\ Due(u)' = Due(u)
    BY <1>1, <1>2 DEF Unlisted
<1>7. \A o \in {"add", "del"} : job'.op = o /\ job'.s = u <=> job.op = o /\ job.s = u
    OBVIOUS
<1> QED
    BY <1>1, <1>4, <1>5, <1>6, <1>7, Unmoved

\* The three branches of the loop: the node of the change itself is left out,
\* the announcement is sent, a reply is taken.
LEMMA NotifyStep ==
    ASSUME ClusterInv, NotifyAll
    PROVE  ClusterInv'
<1>1. PICK to : to = mlist.nodes[job.i].id
    OBVIOUS
<1>2. /\ MasterInv /\ job.op \in {"add", "del"}
      /\ DOMAIN job = {"op", "s", "pos", "i", "sent"}
      /\ job.i \in Nat /\ job.i \in Positions(mlist)
      /\ to \in Members(mlist) /\ to \in Slaves
      /\ job.i = job.pos <=> to = job.s
      /\ \A j \in Positions(mlist) : mlist.nodes[j].id = to => j = job.i
      /\ job.sent => job.i # job.pos
      /\ job.sent \in BOOLEAN
      /\ mlist' = mlist /\ slaveVars' = slaveVars /\ crash' = crash
      /\ Due(to) = IF Announcing(to) THEN 1 ELSE 0
      /\ Due(to)' = IF Announcing(to)' THEN 1 ELSE 0
    BY <1>1, NotifyFacts
<1>3. DOMAIN toSlave = Slaves /\ DOMAIN toMaster = Slaves
    BY DEF ClusterInv, Shape
<1>4. States(to) /\ IsQueue(toSlave[to]) /\ IsQueue(toMaster[to])
    BY <1>2, SlaveFacts
<1>5. ASSUME job.i = job.pos, ~job.sent, job' = [job EXCEPT !.i = @ + 1],
             toSlave' = toSlave, toMaster' = toMaster
      PROVE  ClusterInv'
  <2>1. /\ job'.op = job.op /\ job'.s = job.s /\ job'.pos = job.pos /\ DOMAIN job' = DOMAIN job
        /\ job'.i = job.i + 1 /\ job'.sent = job.sent
      BY <1>2, <1>5
  <2>2. MasterInv'
      BY <1>2, <1>5, <2>1, NotifyMaster
  <2>3. ASSUME NEW u \in Slaves
        PROVE  IsQueue(toSlave'[u]) /\ IsQueue(toMaster'[u]) /\ States(u)'
    <3>1. IsQueue(toSlave[u]) /\ IsQueue(toMaster[u])
        BY SlaveFacts
    <3>2. States(u)'
        BY <1>5, <2>1, NotifyOthers
    <3> QED
        BY <1>5, <3>1, <3>2
  <2> QED
      BY <1>2, <1>3, <1>5, <2>2, <2>3, MasterMoves
<1>6. ASSUME job.i # job.pos, ~job.sent, job' = [job EXCEPT !.sent = TRUE],
             toSlave' = SendTo(toSlave, to, Announcement), toMaster' = toMaster
      PROVE  ClusterInv'
  <2>1. PICK m : m = Announcement
      OBVIOUS
  <2>2. /\ job'.op = job.op /\ job'.s = job.s /\ job'.pos = job.pos /\ DOMAIN job' = DOMAIN job
        /\ job'.i = job.i /\ job'.sent
        /\ Only(toSlave', toSlave, to, Append(toSlave[to], m))
        /\ m.cmd \in {"NEW_SLAVE", "RM_SLAVE"}
      BY <1>2, <1>3, <1>6, <2>1 DEF SendTo, Only, Announcement
  <2>3. MasterInv'
      BY <1>2, <1>6, <2>2, NotifyMaster
  <2>4. /\ Due(to) = 0 /\ Due(to)' = 1 /\ ~Announcing(to) /\ Announcing(to)' /\ ~Reached(to)
        /\ ~Reached(to)' /\ m = Announcement'
    <3>1. ~Announcing(to) /\ Announcing(to)'
        BY <1>1, <1>2, <1>6, <2>2 DEF Announcing
    <3>2. ~Reached(to) /\ ~Reached(to)'
      <4>1. ASSUME NEW j \in Positions(mlist), mlist.nodes[j].id = to
            PROVE  ~(j < job.i)
          BY <1>2, <4>1
      <4> QED
          BY <1>2, <2>2, <4>1 DEF Reached
    <3>3. m = Announcement'
        BY <1>2, <2>1, <2>2 DEF Announcement
    <3> QED
        BY <1>2, <3>1, <3>2, <3>3
  <2>5. ASSUME NEW v, NEW p, NEW box, IsQueue(box), Len(box) <= Due(to),
               Requests(to, box), Agrees(to, v, p, box)
        PROVE  Requests(to, Append(box, m))' /\ Agrees(to, v, p, Append(box, m))'
    <3>1. PICK new : new = Append(box, m)
        OBVIOUS
    <3>2. Len(box) = 0 /\ box = <<>>
        BY <2>4, <2>5, EmptyQueue
    <3>3. /\ Len(new) = 1 /\ new[1] = m /\ new # <<>>
        BY <2>5, <3>1, <3>2, AppendQueue
    <3>4. BeforeJob(v) /\ p \in Positions(v) /\ v.nodes[p].id = to
        BY <1>2, <2>4, <2>5 DEF Agrees, Behind
    <3>5. Behind(to, new)' /\ BeforeJob(v)'
      <4>1. Behind(to, new)'
          BY <1>2, <2>2, <2>4, <3>3 DEF Behind
      <4>2. BeforeJob(v)'
          BY <1>2, <2>2, <3>4 DEF BeforeJob
      <4> QED
          BY <4>1, <4>2
    <3>6. Requests(to, new)'
        BY <2>4, <3>3 DEF Requests
    <3>7. Agrees(to, v, p, new)'
        BY <3>4, <3>5 DEF Agrees
    <3> QED
        BY <3>1, <3>6, <3>7
  <2>6. /\ toSlave'[to] = Append(toSlave[to], m) /\ toMaster'[to] = toMaster[to]
        /\ Due(to)' = Due(to) + 1 /\ Due(to) \in Nat /\ m.cmd # "DEL_SLAVE_R"
        /\ ~(job.op = "add" /\ job.s = to)
      BY <1>2, <1>6, <2>2, <2>4 DEF Only
  <2>7. States(to)'
      BY <1>2, <1>4, <2>2, <2>5, <2>6, Asked
  <2>8. ASSUME NEW u \in Slaves
        PROVE  IsQueue(toSlave'[u]) /\ IsQueue(toMaster'[u]) /\ States(u)'
    <3>1. CASE u = to
      <4>1. IsQueue(Append(toSlave[to], m))
          BY <1>4, AppendQueue
      <4> QED
          BY <1>4, <2>6, <2>7, <3>1, <4>1
    <3>2. CASE u # to
      <4>1. toSlave'[u] = toSlave[u] /\ toMaster'[u] = toMaster[u]
          BY <1>6, <2>2, <3>2 DEF Only
      <4>2. States(u)'
          BY <1>1, <2>2, <3>2, <4>1, NotifyOthers
      <4>3. IsQueue(toSlave[u]) /\ IsQueue(toMaster[u])
          BY SlaveFacts
      <4> QED
          BY <4>1, <4>2, <4>3
    <3> QED
        BY <3>1, <3>2
  <2> QED
      BY <1>2, <1>3, <1>6, <2>2, <2>3, <2>8, MasterMoves DEF Only
<1>7. ASSUME job.sent, toMaster[to] # <<>>, toMaster' = RecvFrom(toMaster, to),
             job' = [job EXCEPT !.i = @ + 1, !.sent = FALSE], toSlave' = toSlave
      PROVE  ClusterInv'
  <2>1. /\ job'.op = job.op /\ job'.s = job.s /\ job'.pos = job.pos /\ DOMAIN job' = DOMAIN job
        /\ job'.i = job.i + 1 /\ job'.sent = FALSE
        /\ Only(toMaster', toMaster, to, Tail(toMaster[to]))
      BY <1>2, <1>3, <1>7 DEF RecvFrom, Only
  <2>2. MasterInv'
      BY <1>2, <1>7, <2>1, NotifyMaster
  <2>3. Due(to) = 1 /\ Due(to)' = 0 /\ Announcing(to) /\ ~Announcing(to)' /\ Reached(to)'
    <3>1. Announcing(to) /\ ~Announcing(to)'
        BY <1>1, <1>7, <2>1 DEF Announcing
    <3>2. Reached(to)'
        BY <1>1, <1>2, <2>1 DEF Reached
    <3> QED
        BY <1>2, <3>1, <3>2
  <2>4. ASSUME NEW v, NEW p, NEW box, Agrees(to, v, p, box), box = <<>> \/ Due(to) > 1
        PROVE  Requests(to, box)' /\ Agrees(to, v, p, box)'
    <3>1. box = <<>> /\ Len(box) = 0
        BY <2>3, <2>4, NoMessages
    <3>2. AfterJob(v) /\ p \in Positions(v) /\ v.nodes[p].id = to
        BY <2>3, <2>4, <3>1 DEF Agrees, Behind
    <3>3. ~Behind(to, box)' /\ AfterJob(v)'
      <4>1. ~Behind(to, box)'
          BY <2>3 DEF Behind
      <4>2. AfterJob(v)'
          BY <1>2, <2>1, <3>2 DEF AfterJob
      <4> QED
          BY <4>1, <4>2
    <3>4. Requests(to, box)'
        BY <3>1 DEF Requests
    <3>5. Agrees(to, v, p, box)'
        BY <3>2, <3>3 DEF Agrees
    <3> QED
        BY <3>4, <3>5
  <2>5. /\ toSlave'[to] = toSlave[to] /\ toMaster'[to] = Tail(toMaster[to])
        /\ Due(to)' = Due(to) - 1 /\ Due(to) \in Nat
      BY <1>7, <2>1, <2>3 DEF Only
  <2>6. States(to)'
      BY <1>2, <1>4, <1>7, <2>1, <2>4, <2>5, Replied
  <2>7. ASSUME NEW u \in Slaves
        PROVE  IsQueue(toSlave'[u]) /\ IsQueue(toMaster'[u]) /\ States(u)'
    <3>1. CASE u = to
        BY <1>4, <1>7, <2>5, <2>6, <3>1, TailQueue
    <3>2. CASE u # to
      <4>1. toSlave'[u] = toSlave[u] /\ toMaster'[u] = toMaster[u]
          BY <1>7, <2>1, <3>2 DEF Only
      <4>2. States(u)'
          BY <1>1, <2>1, <3>2, <4>1, NotifyOthers
      <4>3. IsQueue(toSlave[u]) /\ IsQueue(toMaster[u])
          BY SlaveFacts
      <4> QED
          BY <4>1, <4>2, <4>3
    <3> QED
        BY <3>1, <3>2
  <2> QED
      BY <1>2, <1>3, <1>7, <2>1, <2>2, <2>7, MasterMoves DEF Only
<1> QED
  <2>1. \/ /\ job.i = job.pos /\ job' = [job EXCEPT !.i = @ + 1]
           /\ toSlave' = toSlave /\ toMaster' = toMaster
        \/ /\ job.i # job.pos /\ ~job.sent
           /\ toSlave' = SendTo(toSlave, to, Announcement)
           /\ job' = [job EXCEPT !.sent = TRUE] /\ toMaster' = toMaster
        \/ /\ job.sent /\ toMaster[to] # <<>> /\ toMaster' = RecvFrom(toMaster, to)
           /\ job' = [job EXCEPT !.i = @ + 1, !.sent = FALSE] /\ toSlave' = toSlave
      BY <1>1 DEF NotifyAll, chanVars
  <2> QED
      BY <1>2, <1>5, <1>6, <1>7, <2>1

\* Between two requests everybody has the master's list, and the master waits
\* for nobody, its alarm handler aside.
LEMMA IdleFacts ==
    ASSUME MasterInv, job = IdleJob, alarm = NoSlave, NEW s, s # NoSlave
    PROVE  /\ ~Announcing(s) /\ Due(s) = 0
           /\ \A v, p, box : Agrees(s, v, p, box) => v = mlist
<1>1. job.op = "idle" /\ ~job.sent
    BY DEF IdleJob
<1>2. ~Announcing(s) /\ Due(s) = 0
    BY <1>1 DEF Announcing, Due
<1>3. ASSUME NEW v, NEW p, NEW box, Agrees(s, v, p, box) PROVE v = mlist
    BY <1>1, <1>3 DEF Agrees, Behind, AfterJob
<1> QED
    BY <1>2, <1>3

\* A change begins: nobody has heard of it.
LEMMA BeginFacts ==
    ASSUME IsSlaveList(mlist, Slaves)', job'.op # "idle", job'.i = 0, ~job'.sent,
           alarm' = NoSlave, NEW s, s # NoSlave
    PROVE  /\ ~Announcing(s)' /\ Due(s)' = 0
           /\ \A box : Behind(s, box)'
<1>1. ~Announcing(s)' /\ Due(s)' = 0
    BY DEF Announcing, Due
<1>2. ~Reached(s)'
  <2>1. \A j \in Positions(mlist)' : ~(j < 0)
      BY DEF Positions
  <2> QED
      BY <2>1 DEF Reached
<1> QED
    BY <1>1, <1>2 DEF Behind

LEMMA EnoughKeys ==
    IsFiniteSet(Slaves) /\ Cardinality(Slaves) <= MAX_KEY /\ FirstKeys \subseteq RingKeys
    BY ClusterAssumption

\* The ADD_SLAVE comes from a slave that has registered, and comes only once.
LEMMA AddRequestFacts ==
    ASSUME ClusterInv, NEW s \in Slaves, AddSlaveRequest(s)
    PROVE  /\ st[s] = "register" /\ s \notin Members(mlist)
           /\ toSlave[s] = <<>> /\ Tail(toMaster[s]) = <<>>
<1>1. States(s) /\ IsQueue(toMaster[s])
    BY SlaveFacts
<1>2. job.op = "idle" /\ toMaster[s] # <<>> /\ Head(toMaster[s]).cmd = "ADD_SLAVE"
    BY DEF AddSlaveRequest, IdleJob
<1>3. PICK q, n : q = toMaster[s] /\ n = Len(q)
    OBVIOUS
<1>4. /\ IsQueue(Tail(q)) /\ n \in Nat \ {0} /\ Len(Tail(q)) = n - 1 /\ q[1].cmd = "ADD_SLAVE"
    BY <1>1, <1>2, <1>3, TailQueue
<1>5. st[s] = "register" /\ Asking(s)
  <2>1. 1 \in 1..n
      BY <1>4
  <2>2. ~Serving(s) /\ ~Goodbye(s)
      BY <1>3, <1>4, <2>1 DEF Serving, Goodbye
  <2>3. ~Joining(s) /\ ~Welcomed(s)
      BY <1>2 DEF Joining, Welcomed
  <2> QED
      BY <1>1, <1>2, <2>2, <2>3 DEF States, Leaving
<1>6. s \notin Members(mlist) /\ toSlave[s] = <<>> /\ n = 1
    BY <1>3, <1>5 DEF Asking, Unlisted
<1>7. Len(Tail(q)) = 0
    BY <1>4, <1>6
<1>8. Tail(q) = <<>>
    BY <1>4, <1>7, EmptyQueue
<1> QED
    BY <1>3, <1>5, <1>6, <1>8

LEMMA AddRequestStep ==
    ASSUME ClusterInv, NEW s \in Slaves, AddSlaveRequest(s)
    PROVE  ClusterInv'
<1>1. /\ MasterInv /\ States(s) /\ IsQueue(toSlave[s]) /\ IsQueue(toMaster[s])
      /\ IsSlaveList(mlist, Slaves) /\ Ordered(mlist)
    BY SlaveFacts DEF MasterInv
<1>2. /\ job = IdleJob /\ job.op = "idle" /\ alarm = NoSlave
      /\ toMaster[s] # <<>> /\ Head(toMaster[s]).cmd = "ADD_SLAVE"
    BY DEF AddSlaveRequest, MasterFree, IdleJob
<1>3. PICK first \in FirstKeys : mlist' = AddToSlaveList(mlist, s, first)
    BY DEF AddSlaveRequest
<1>4. /\ job' = [op |-> "add", s |-> s, pos |-> NewPos(mlist), i |-> 0, sent |-> FALSE]
      /\ alarm' = alarm /\ backuppos' = backuppos /\ eintr' = eintr
      /\ slaveVars' = slaveVars /\ toSlave' = toSlave /\ crash' = crash
      /\ Only(toMaster', toMaster, s, Tail(toMaster[s]))
    BY DEF AddSlaveRequest, RecvFrom, Only, ClusterInv, Shape
<1>5. /\ st[s] = "register" /\ s \notin Members(mlist)
      /\ toSlave[s] = <<>> /\ Tail(toMaster[s]) = <<>>
    BY AddRequestFacts
<1>6. PICK new, k : new = AddToSlaveList(mlist, s, first) /\ k = NewPos(mlist)
    OBVIOUS
<1>7. /\ k \in Positions(new) /\ new.nodes[k].id = s
      /\ new.num = mlist.num + 1
      /\ RemoveSlave(new, k).nodes = mlist.nodes
      /\ (mlist.version + 1) % UINT_RANGE = new.version
      /\ Members(new) = Members(mlist) \cup {s}
    BY <1>1, <1>6, NewPlace
<1>8. IsSlaveList(new, Slaves) /\ Ordered(new)
    BY <1>1, <1>5, <1>6, EnoughKeys, AddKeepsOrder
<1>9. /\ mlist' = new /\ job'.op = "add" /\ job'.s = s /\ job'.pos = k /\ job'.i = 0
      /\ job'.sent = FALSE /\ DOMAIN job' = {"op", "s", "pos", "i", "sent"}
    BY <1>3, <1>4, <1>6
<1>10. MasterInv'
  <2>1. 0 \in 0..new.num /\ job'.i \in 0..new.num
      BY <1>8, <1>9 DEF IsSlaveList
  <2>2. job' # IdleJob
      BY <1>9 DEF IdleJob
  <2>3. backuppos \in Nat /\ eintr \in BOOLEAN
      BY <1>1 DEF MasterInv
  <2> QED
      BY <1>2, <1>4, <1>7, <1>8, <1>9, <2>1, <2>2, <2>3 DEF MasterInv
<1>11. ASSUME NEW u \in Slaves
       PROVE  /\ Due(u)' = Due(u) /\ Due(u) = 0
              /\ \A box : Requests(u, box) => Requests(u, box)'
              /\ \A v, p, box : Agrees(u, v, p, box) => Agrees(u, v, p, box)'
  <2>1. /\ ~Announcing(u) /\ Due(u) = 0
        /\ \A v, p, box : Agrees(u, v, p, box) => v = mlist
      BY <1>1, <1>2, IdleFacts, SlaveFacts
  <2>2. ~Announcing(u)' /\ Due(u)' = 0 /\ \A box : Behind(u, box)'
      BY <1>2, <1>4, <1>8, <1>9, BeginFacts, SlaveFacts
  <2>3. \A box : Requests(u, box) => Requests(u, box)'
      BY <2>1 DEF Requests
  <2>4. ASSUME NEW v, NEW p, NEW box, Agrees(u, v, p, box)
        PROVE  Agrees(u, v, p, box)'
    <3>1. v = mlist /\ p \in Positions(v) /\ v.nodes[p].id = u
        BY <2>1, <2>4 DEF Agrees
    <3>2. /\ IsSlaveList(v, Slaves) /\ v.num = new.num - 1
          /\ v.nodes = RemoveSlave(new, k).nodes
          /\ (v.version + 1) % UINT_RANGE = new.version
        BY <1>1, <1>7, <3>1 DEF IsSlaveList
    <3>3. BeforeJob(v)'
        BY <1>9, <3>2 DEF BeforeJob
    <3> QED
        BY <2>2, <3>1, <3>3 DEF Agrees
  <2> QED
      BY <2>1, <2>2, <2>3, <2>4
<1>12. ASSUME NEW u \in Slaves
       PROVE  IsQueue(toSlave'[u]) /\ IsQueue(toMaster'[u]) /\ States(u)'
  <2>1. States(u) /\ IsQueue(toSlave[u]) /\ IsQueue(toMaster[u])
      BY SlaveFacts
  <2>2. CASE u = s
    <3>1. toSlave'[s] = <<>> /\ toMaster'[s] = <<>> /\ st'[s] = "register"
        BY <1>4, <1>5 DEF Only, slaveVars
    <3>2. Joining(s)'
        BY <1>9, <1>11, <3>1, NoMessages DEF Joining
    <3>3. States(s)'
        BY <1>9, <3>1, <3>2 DEF States
    <3> QED
        BY <2>2, <3>1, <3>3, NoMessages
  <2>3. CASE u # s
    <3>1. toSlave'[u] = toSlave[u] /\ toMaster'[u] = toMaster[u]
        BY <1>4, <2>3 DEF Only
    <3>2. Unlisted(u) => Unlisted(u)'
        BY <1>7, <1>9, <2>3 DEF Unlisted
    <3>3. \A o \in {"add", "del"} : job'.op = o /\ job'.s = u <=> job.op = o /\ job.s = u
        BY <1>2, <1>9, <2>3
    <3>4. States(u)'
        BY <1>2, <1>4, <1>11, <2>1, <3>1, <3>2, <3>3, Unmoved
    <3> QED
        BY <2>1, <3>1, <3>4
  <2> QED
      BY <2>2, <2>3
<1>13. DOMAIN toSlave' = Slaves /\ DOMAIN toMaster' = Slaves
    BY <1>4 DEF Only, ClusterInv, Shape
<1> QED
    BY <1>4, <1>10, <1>12, <1>13, MasterMoves

\* The DEL_SLAVE that the master reads as a request has the right position:
\* it owes no receipt, so this is not a message it still takes for a reply.
LEMMA DelRequestFacts ==
    ASSUME ClusterInv, NEW s \in Slaves, DelSlaveRequest(s)
    PROVE  /\ st[s] = "stopping" /\ toSlave[s] = <<>> /\ Tail(toMaster[s]) = <<>>
           /\ Head(toMaster[s]).pos \in Positions(mlist)
           /\ mlist.nodes[Head(toMaster[s]).pos].id = s
<1>1. /\ MasterInv /\ States(s) /\ IsQueue(toMaster[s]) /\ NoSlave # s
    BY SlaveFacts
<1>2. /\ job = IdleJob /\ alarm = NoSlave
      /\ toMaster[s] # <<>> /\ Head(toMaster[s]).cmd = "DEL_SLAVE"
    BY DEF DelSlaveRequest, MasterFree
<1>3. PICK q, n : q = toMaster[s] /\ n = Len(q)
    OBVIOUS
<1>4. /\ IsQueue(Tail(q)) /\ n \in Nat \ {0} /\ Len(Tail(q)) = n - 1 /\ Head(q) = q[1]
      /\ q[1].cmd = "DEL_SLAVE"
    BY <1>1, <1>2, <1>3, TailQueue
<1>5. st[s] = "stopping" /\ Goodbye(s)
  <2>1. 1 \in 1..n
      BY <1>4
  <2>2. ~Serving(s) /\ ~Asking(s)
      BY <1>3, <1>4, <2>1 DEF Serving, Asking
  <2>3. ~Joining(s) /\ ~Welcomed(s)
      BY <1>2 DEF Joining, Welcomed
  <2> QED
      BY <1>1, <1>2, <2>2, <2>3 DEF States, Leaving
<1>6. Due(s) = 0 /\ \A v, p, box : Agrees(s, v, p, box) => v = mlist
    BY <1>1, <1>2, IdleFacts
<1>7. n = 1
  <2>1. n <= 0 + 1
      BY <1>3, <1>5, <1>6 DEF Goodbye
  <2> QED
      BY <1>4, <2>1
<1>8. toSlave[s] = <<>> /\ q[1].pos = pos[s] /\ Agrees(s, sl[s], pos[s], <<>>)
  <2>1. n = Due(s) + 1
      BY <1>6, <1>7
  <2> QED
      BY <1>3, <1>5, <1>7, <2>1 DEF Goodbye
<1>9. pos[s] \in Positions(mlist) /\ mlist.nodes[pos[s]].id = s
    BY <1>6, <1>8 DEF Agrees
<1>10. Tail(q) = <<>>
  <2>1. Len(Tail(q)) = 0
      BY <1>4, <1>7
  <2> QED
      BY <1>4, <2>1, EmptyQueue
<1> QED
    BY <1>3, <1>4, <1>5, <1>8, <1>9, <1>10

LEMMA DelRequestStep ==
    ASSUME ClusterInv, NEW s \in Slaves, DelSlaveRequest(s)
    PROVE  ClusterInv'
<1>1. PICK k : k = Head(toMaster[s]).pos
    OBVIOUS
<1>2. /\ st[s] = "stopping" /\ toSlave[s] = <<>> /\ Tail(toMaster[s]) = <<>>
      /\ k \in Positions(mlist) /\ mlist.nodes[k].id = s
    BY <1>1, DelRequestFacts
<1>3. /\ MasterInv /\ job = IdleJob /\ job.op = "idle" /\ alarm = NoSlave
      /\ IsSlaveList(mlist, Slaves)
    BY SlaveFacts DEF DelSlaveRequest, MasterFree, IdleJob, MasterInv
<1>4. /\ job' = [op |-> "del", s |-> s, pos |-> k, i |-> 0, sent |-> FALSE]
      /\ mlist' = mlist /\ alarm' = alarm /\ backuppos' = backuppos /\ eintr' = eintr
      /\ slaveVars' = slaveVars /\ toSlave' = toSlave /\ crash' = crash
      /\ Only(toMaster', toMaster, s, Tail(toMaster[s]))
    BY <1>1 DEF DelSlaveRequest, RecvFrom, Only, ClusterInv, Shape
<1>5. /\ job'.op = "del" /\ job'.s = s /\ job'.pos = k /\ job'.i = 0
      /\ job'.sent = FALSE /\ DOMAIN job' = {"op", "s", "pos", "i", "sent"}
    BY <1>4
<1>6. MasterInv'
  <2>1. job'.i \in 0..mlist.num
      BY <1>3, <1>5 DEF IsSlaveList
  <2>2. job' # IdleJob
      BY <1>5 DEF IdleJob
  <2>3. backuppos \in Nat /\ eintr \in BOOLEAN /\ Ordered(mlist)
      BY <1>3 DEF MasterInv
  <2> QED
      BY <1>2, <1>3, <1>4, <1>5, <2>1, <2>2, <2>3 DEF MasterInv
<1>7. ASSUME NEW u \in Slaves
      PROVE  /\ Due(u)' = Due(u)
             /\ \A box : Requests(u, box) => Requests(u, box)'
             /\ \A v, p, box : Agrees(u, v, p, box) => Agrees(u, v, p, box)'
  <2>1. /\ ~Announcing(u) /\ Due(u) = 0
        /\ \A v, p, box : Agrees(u, v, p, box) => v = mlist
      BY <1>3, IdleFacts, SlaveFacts
  <2>2. ~Announcing(u)' /\ Due(u)' = 0 /\ \A box : Behind(u, box)'
      BY <1>3, <1>4, <1>5, BeginFacts, SlaveFacts
  <2>3. \A box : Requests(u, box) => Requests(u, box)'
      BY <2>1 DEF Requests
  <2>4. ASSUME NEW v, NEW p, NEW box, Agrees(u, v, p, box)
        PROVE  Agrees(u, v, p, box)'
    <3>1. v = mlist /\ p \in Positions(v) /\ v.nodes[p].id = u
        BY <2>1, <2>4 DEF Agrees
    <3>2. BeforeJob(v)'
        BY <1>4, <1>5, <3>1 DEF BeforeJob
    <3> QED
        BY <2>2, <3>1, <3>2 DEF Agrees
  <2> QED
      BY <2>1, <2>2, <2>3, <2>4
<1>8. ASSUME NEW u \in Slaves
      PROVE  IsQueue(toSlave'[u]) /\ IsQueue(toMaster'[u]) /\ States(u)'
  <2>1. States(u) /\ IsQueue(toSlave[u]) /\ IsQueue(toMaster[u])
      BY SlaveFacts
  <2>2. CASE u = s
    <3>1. toSlave'[s] = <<>> /\ toMaster'[s] = <<>> /\ st'[s] = "stopping"
        BY <1>2, <1>4 DEF Only, slaveVars
    <3>2. Leaving(s)'
        BY <3>1, NoMessages DEF Leaving
    <3>3. States(s)'
        BY <1>5, <3>1, <3>2 DEF States
    <3> QED
        BY <2>2, <3>1, <3>3, NoMessages
  <2>3. CASE u # s
    <3>1. toSlave'[u] = toSlave[u] /\ toMaster'[u] = toMaster[u]
        BY <1>4, <2>3 DEF Only
    <3>2. Unlisted(u) => Unlisted(u)'
        BY <1>4 DEF Unlisted
    <3>3. \A o \in {"add", "del"} : job'.op = o /\ job'.s = u <=> job.op = o /\ job.s = u
        BY <1>3, <1>5, <2>3
    <3>4. States(u)'
        BY <1>3, <1>4, <1>7, <2>1, <3>1, <3>2, <3>3, Unmoved
    <3> QED
        BY <2>1, <3>1, <3>4
  <2> QED
      BY <2>2, <2>3
<1>9. DOMAIN toSlave' = Slaves /\ DOMAIN toMaster' = Slaves
    BY <1>4 DEF Only, ClusterInv, Shape
<1> QED
    BY <1>4, <1>6, <1>8, <1>9, MasterMoves

\* The end of the loop: everybody has made the change, and has the list that
\* the master has from now on.
LEMMA FinishFacts ==
    ASSUME ClusterInv, FinishRequest
    PROVE  /\ MasterInv /\ job.op \in {"add", "del"}
           /\ alarm = NoSlave /\ job.s \in Slaves
           /\ job' = IdleJob /\ mlist' = IF job.op = "add" THEN mlist
                                         ELSE RemoveSlave(mlist, job.pos)
           /\ IsSlaveList(mlist, Slaves)' /\ Ordered(mlist)'
           /\ Members(mlist)' \subseteq Members(mlist)
           /\ MasterInv'
           /\ \A u \in Slaves : /\ Due(u)' = Due(u) /\ Due(u) = 0
                                /\ \A box : Requests(u, box) => Requests(u, box)'
                                /\ \A v, p, box : Agrees(u, v, p, box) => Agrees(u, v, p, box)'
<1>1. MasterInv
    BY DEF ClusterInv, Inv
<1>2. /\ alarm = NoSlave /\ job # IdleJob /\ job.i = mlist.num /\ job' = IdleJob
      /\ alarm' = alarm /\ backuppos' = backuppos /\ eintr' = eintr
      /\ mlist' = IF job.op = "add" THEN mlist ELSE DelFromSlaveList(mlist, job.pos)
    BY DEF FinishRequest, MasterFree
<1>3. /\ job.op \in {"add", "del"} /\ job.op # "idle"
      /\ IsSlaveList(mlist, Slaves) /\ Ordered(mlist)
      /\ backuppos \in Nat /\ eintr \in BOOLEAN
    BY <1>1, <1>2 DEF MasterInv
<1>4. /\ IsSlaveList(RemoveSlave(mlist, job.pos), Slaves)
      /\ Ordered(RemoveSlave(mlist, job.pos))
      /\ Members(RemoveSlave(mlist, job.pos)) \subseteq Members(mlist)
      /\ RemoveSlave(mlist, job.pos) = DelFromSlaveList(mlist, job.pos)
      /\ job.s \in Members(mlist)
    BY <1>1, <1>3, JobPlace
<1>5. PICK new : /\ new = IF job.op = "add" THEN mlist ELSE RemoveSlave(mlist, job.pos)
                 /\ mlist' = new
    BY <1>2, <1>4
<1>6. IsSlaveList(new, Slaves) /\ Ordered(new) /\ Members(new) \subseteq Members(mlist)
    BY <1>3, <1>4, <1>5
<1>7. MasterInv'
  <2>1. job'.op = "idle"
      BY <1>2 DEF IdleJob
  <2> QED
      BY <1>2, <1>3, <1>5, <1>6, <2>1 DEF MasterInv
<1>8. mlist.num \in Nat /\ ~job.sent
  <2>1. mlist.num \in Nat
      BY <1>3 DEF IsSlaveList
  <2> QED
      BY <1>1, <1>2, <1>3, <2>1 DEF MasterInv
<1>9. ASSUME NEW u \in Slaves
      PROVE  /\ Due(u)' = Due(u) /\ Due(u) = 0
             /\ \A box : Requests(u, box) => Requests(u, box)'
             /\ \A v, p, box : Agrees(u, v, p, box) => Agrees(u, v, p, box)'
  <2>1. ~Announcing(u) /\ ~Announcing(u)' /\ Due(u) = 0 /\ Due(u)' = 0
      BY <1>2, <1>8, NoSlaveAssumption DEF Announcing, IdleJob, Due
  <2>2. \A box : Requests(u, box) => Requests(u, box)'
      BY <2>1 DEF Requests
  <2>3. ASSUME NEW v, NEW p, NEW box, Agrees(u, v, p, box)
        PROVE  Agrees(u, v, p, box)'
    <3>1. u \in Members(mlist)
      <4>1. Members(v) \subseteq Members(mlist) /\ u \in Members(v)
          BY <1>1, <2>3, ViewIsList
      <4> QED
          BY <4>1
    <3>2. Reached(u)
      <4>1. PICK j \in Positions(mlist) : mlist.nodes[j].id = u
          BY <3>1 DEF Members
      <4>2. j < mlist.num
          BY <1>8 DEF Positions
      <4> QED
          BY <1>2, <4>1, <4>2 DEF Reached
    <3>3. AfterJob(v) /\ p \in Positions(v) /\ v.nodes[p].id = u
        BY <2>3, <3>2 DEF Agrees, Behind
    <3>4. v = new
        BY <1>3, <1>5, <3>3 DEF AfterJob
    <3>5. ~Behind(u, box)' /\ AfterJob(v)'
        BY <1>2, <1>5, <3>4 DEF Behind, AfterJob, IdleJob
    <3> QED
        BY <3>3, <3>5 DEF Agrees
  <2> QED
      BY <2>1, <2>2, <2>3
<1>10. job.s \in Slaves
    BY <1>1, <1>4, MemberIsSlave
<1> QED
    BY <1>1, <1>2, <1>3, <1>5, <1>6, <1>7, <1>9, <1>10

LEMMA FinishStep ==
    ASSUME ClusterInv, FinishRequest
    PROVE  ClusterInv'
<1>1. PICK s : s = job.s
    OBVIOUS
<1>2. /\ MasterInv /\ job.op \in {"add", "del"} /\ s \in Slaves
      /\ job' = IdleJob /\ mlist' = IF job.op = "add" THEN mlist
                                    ELSE RemoveSlave(mlist, job.pos)
      /\ IsSlaveList(mlist, Slaves)'
      /\ Members(mlist)' \subseteq Members(mlist)
      /\ MasterInv'
      /\ \A u \in Slaves : /\ Due(u)' = Due(u) /\ Due(u) = 0
                           /\ \A box : Requests(u, box) => Requests(u, box)'
                           /\ \A v, p, box : Agrees(u, v, p, box) => Agrees(u, v, p, box)'
    BY <1>1, FinishFacts
<1>3. /\ IsSlaveList(mlist, Slaves) /\ Ordered(mlist) /\ job.pos \in Positions(mlist)
      /\ mlist.nodes[job.pos].id = s
    BY <1>1, <1>2 DEF MasterInv
<1>4. /\ slaveVars' = slaveVars /\ toMaster' = toMaster /\ crash' = crash
      /\ job'.op = "idle"
    BY <1>2 DEF FinishRequest, IdleJob
<1>5. PICK m : /\ m = IF job.op = "add"
                      THEN [cmd |-> "ADD_SLAVE_R", pos |-> job.pos, list |-> mlist]
                      ELSE [cmd |-> "DEL_SLAVE_R"]
               /\ Only(toSlave', toSlave, s, Append(toSlave[s], m))
    BY <1>1, <1>2 DEF FinishRequest, SendTo, Only, ClusterInv, Shape
<1>6. States(s) /\ IsQueue(toSlave[s]) /\ IsQueue(toMaster[s])
    BY <1>2, SlaveFacts
<1>7. PICK q : q = Append(toSlave[s], m)
    OBVIOUS
<1>8. IsQueue(q) /\ toSlave'[s] = q /\ toMaster'[s] = toMaster[s] /\ st'[s] = st[s]
    BY <1>4, <1>5, <1>6, <1>7, AppendQueue DEF Only, slaveVars
<1>9. CASE job.op = "add"
  <2>1. st[s] = "register" /\ toMaster[s] = <<>> /\ toSlave[s] = <<>>
    <3>1. Joining(s) /\ Due(s) = 0
        BY <1>1, <1>2, <1>6, <1>9 DEF States
    <3> QED
        BY <1>6, <3>1, EmptyQueue DEF Joining
  <2>2. q = <<m>>
      BY <1>7, <2>1
  <2>3. q # <<>> /\ q[1] = m /\ Tail(q) = <<>>
      BY <2>2
  <2>4. m.cmd = "ADD_SLAVE_R" /\ m.pos = job.pos /\ m.list = mlist
      BY <1>5, <1>9
  <2>5. Connected(s, m.list, m.pos, <<>>, 0)'
    <3>1. PICK v, p : v = m.list /\ p = m.pos
        OBVIOUS
    <3>2. Agrees(s, v, p, <<>>)'
        BY <1>2, <1>3, <1>4, <1>9, <2>4, <3>1 DEF Agrees, Behind, AfterJob
    <3>3. Requests(s, <<>>)'
        BY NoMessages DEF Requests
    <3> QED
        BY <1>2, <3>1, <3>2, <3>3, NoMessages DEF Connected
  <2>6. Welcomed(s)'
    <3>1. toMaster'[s] = <<>> /\ toSlave'[s] = q
        BY <1>8, <2>1
    <3>2. q[1].list = m.list /\ q[1].pos = m.pos /\ q[1].cmd = "ADD_SLAVE_R"
        BY <2>3, <2>4
    <3> QED
        BY <2>3, <2>5, <3>1, <3>2 DEF Welcomed
  <2>7. st'[s] = "register"
      BY <1>8, <2>1
  <2> QED
    <3>1. States(s)'
        BY <1>4, <2>6, <2>7 DEF States
    <3>2. ASSUME NEW u \in Slaves, u # s
          PROVE  IsQueue(toSlave'[u]) /\ IsQueue(toMaster'[u]) /\ States(u)'
      <4>1. States(u) /\ IsQueue(toSlave[u]) /\ IsQueue(toMaster[u])
          BY SlaveFacts
      <4>2. toSlave'[u] = toSlave[u] /\ toMaster'[u] = toMaster[u]
          BY <1>4, <1>5, <3>2 DEF Only
      <4>3. Unlisted(u) => Unlisted(u)'
          BY <1>2 DEF Unlisted
      <4>4. \A o \in {"add", "del"} : job'.op = o /\ job'.s = u <=> job.op = o /\ job.s = u
          BY <1>1, <1>4, <3>2
      <4>5. States(u)'
          BY <1>2, <1>4, <4>1, <4>2, <4>3, <4>4, Unmoved
      <4> QED
          BY <4>1, <4>2, <4>5
    <3>3. DOMAIN toSlave' = Slaves /\ DOMAIN toMaster' = Slaves
        BY <1>4, <1>5 DEF Only, ClusterInv, Shape
    <3>4. \A u \in Slaves : IsQueue(toSlave'[u]) /\ IsQueue(toMaster'[u]) /\ States(u)'
        BY <1>4, <1>6, <1>8, <3>1, <3>2
    <3> QED
        BY <1>2, <1>4, <3>3, <3>4, MasterMoves
<1>10. CASE job.op = "del"
  <2>1. st[s] = "stopping" /\ toMaster[s] = <<>>
      BY <1>1, <1>6, <1>10 DEF States
  <2>2. Unlisted(s)'
    <3>1. RemoveSlave(mlist, job.pos) = DelFromSlaveList(mlist, job.pos)
        BY DEF RemoveSlave, DelFromSlaveList
    <3>2. s \notin Members(DelFromSlaveList(mlist, job.pos))
        BY <1>3, DelForgets
    <3> QED
        BY <1>2, <1>10, <3>1, <3>2 DEF Unlisted
  <2>3. toMaster'[s] = <<>> /\ st'[s] = "stopping"
      BY <1>8, <2>1
  <2>4. Leaving(s)'
      BY <2>2, <2>3 DEF Leaving
  <2>5. States(s)'
      BY <1>4, <2>3, <2>4 DEF States
  <2>6. ASSUME NEW u \in Slaves, u # s
        PROVE  IsQueue(toSlave'[u]) /\ IsQueue(toMaster'[u]) /\ States(u)'
    <3>1. States(u) /\ IsQueue(toSlave[u]) /\ IsQueue(toMaster[u])
        BY SlaveFacts
    <3>2. toSlave'[u] = toSlave[u] /\ toMaster'[u] = toMaster[u]
        BY <1>4, <1>5, <2>6 DEF Only
    <3>3. Unlisted(u) => Unlisted(u)'
        BY <1>2 DEF Unlisted
    <3>4. \A o \in {"add", "del"} : job'.op = o /\ job'.s = u <=> job.op = o /\ job.s = u
        BY <1>1, <1>4, <2>6
    <3>5. States(u)'
        BY <1>2, <1>4, <3>1, <3>2, <3>3, <3>4, Unmoved
    <3> QED
        BY <3>1, <3>2, <3>5
  <2>7. DOMAIN toSlave' = Slaves /\ DOMAIN toMaster' = Slaves
      BY <1>4, <1>5 DEF Only, ClusterInv, Shape
  <2>8. \A u \in Slaves : IsQueue(toSlave'[u]) /\ IsQueue(toMaster'[u]) /\ States(u)'
      BY <1>4, <1>6, <1>8, <2>5, <2>6
  <2> QED
      BY <1>2, <1>4, <2>7, <2>8, MasterMoves
<1> QED
    BY <1>2, <1>9, <1>10

-----------------------------------------------------------------------------
(* What is true of every reachable state.                                  *)

LEMMA NextInv ==
    ASSUME ClusterInv, [Next]_vars
    PROVE  ClusterInv'
<1>1. CASE UNCHANGED vars
  <2>1. /\ UNCHANGED <<masterVars, slaveVars, chanVars>>
        /\ crash' # "assert rescmd"
      BY <1>1 DEF vars, ClusterInv, CallReplyAsserted
  <2> QED
      BY <2>1, NothingMoves
<1>2. CASE MasterStep
  <2>1. CASE \E s \in Slaves : AddSlaveRequest(s) \/ DelSlaveRequest(s)
      BY <2>1, AddRequestStep, DelRequestStep
  <2>2. CASE NotifyAll
      BY <2>2, NotifyStep
  <2>3. CASE FinishRequest
      BY <2>3, FinishStep
  <2>4. CASE AlarmReply
      BY <2>4, AlarmReplyStep
  <2> QED
      BY <1>2, <2>1, <2>2, <2>3, <2>4 DEF MasterStep
<1>3. CASE Alarm
    BY <1>3, AlarmStep
<1>4. CASE AlarmOnEmptyList
  <2>1. /\ UNCHANGED <<masterVars, slaveVars, chanVars>>
        /\ crash' = "SIGFPE"
      BY <1>4 DEF AlarmOnEmptyList, Die
  <2> QED
      BY <2>1, NothingMoves
<1>5. ASSUME NEW s \in Slaves, StartSlave(s) \/ StopSlave(s) \/ StopInHandler(s)
      PROVE  ClusterInv'
    BY <1>5, StartStep, StopStep, StopInHandlerStep
<1>6. ASSUME NEW s \in Slaves, SlaveStep(s)
      PROVE  ClusterInv'
  <2>1. CASE Register(s) \/ EnterLoop(s) \/ ExitSlave(s)
      BY <2>1, RegisterStep, EnterStep, ExitStep
  <2>2. CASE HandleNewSlave(s) \/ HandleRmSlave(s) \/ HandleUpdateBackup12(s)
      BY <2>2, NewSlaveStep, RmSlaveStep, UpdateStep
  <2>3. CASE SendBackupReply(s) \/ CallSlave(s) \/ ReceiveFile(s)
      BY <2>3, BackupReplyStep, CallStep, ReceiveStep
  <2>4. CASE \E t \in Slaves : ServeSlave(s, t)
      BY <2>4, ServeStep
  <2> QED
      BY <1>6, <2>1, <2>2, <2>3, <2>4 DEF SlaveStep
<1> QED
    BY <1>1, <1>2, <1>3, <1>4, <1>5, <1>6 DEF Next

\* Whatever order the slaves, the master and its alarm run in: the requests
\* that a slave has, the replies it owes and those on their way are what the
\* master waits for, and every list is the one before or after the change at
\* hand (HandleMasterRequest, NotifyAll, ShutDownSlave).
THEOREM ClusterInvariant == Spec => []ClusterInv
<1>1. Init => ClusterInv
    BY InitInv
<1>2. ClusterInv /\ [Next]_vars => ClusterInv'
    BY NextInv
<1> QED
    BY <1>1, <1>2, PTL DEF Spec

\* A slave that serves is in its own list, which is the master's or one change
\* away from it.
LEMMA ServingFacts ==
    ASSUME ClusterInv, NEW s \in Slaves, st[s] \in {"init", "run"}
    PROVE  /\ pos[s] \in Positions(sl[s]) /\ sl[s].nodes[pos[s]].id = s
           /\ \/ sl[s] = mlist
              \/ job.op # "idle" /\ sl[s].nodes = RemoveSlave(mlist, job.pos).nodes
           /\ job.op = "idle" => sl[s] = mlist
           /\ s \in Members(mlist)
<1>1. MasterInv /\ States(s)
    BY SlaveFacts
<1>2. PICK v, p, box : v = sl[s] /\ p = pos[s] /\ box = toSlave[s]
    OBVIOUS
<1>3. Agrees(s, v, p, box)
    BY <1>1, <1>2 DEF States, Serving, Connected
<1>4. Members(v) \subseteq Members(mlist) /\ s \in Members(v)
    BY <1>1, <1>3, ViewIsList
<1>5. CASE Behind(s, box)
    BY <1>1, <1>2, <1>3, <1>4, <1>5 DEF Agrees, Behind, BeforeJob, MasterInv
<1>6. CASE ~Behind(s, box)
    BY <1>1, <1>2, <1>3, <1>4, <1>6 DEF Agrees, AfterJob, MasterInv
<1> QED
    BY <1>5, <1>6

\* The lists in the master and in every slave are well formed, every position
\* is one of its list, and who waits for whom is recorded on both sides.
THEOREM TypeCorrect == Spec => []TypeOK
<1>1. ASSUME ClusterInv PROVE TypeOK
  <2>1. MasterInv
      BY <1>1 DEF ClusterInv, Inv
  <2>2. job.i \in 0..mlist.num
    <3>1. mlist.num \in Nat
        BY <2>1 DEF MasterInv, IsSlaveList
    <3>2. CASE job.op = "idle"
        BY <2>1, <3>1, <3>2 DEF MasterInv, IdleJob
    <3>3. CASE job.op # "idle"
        BY <2>1, <3>3 DEF MasterInv
    <3> QED
        BY <3>2, <3>3
  <2>3. alarm \in Slaves \cup {NoSlave}
      BY <2>1, MemberIsSlave DEF MasterInv
  <2>4. ASSUME NEW s \in Slaves
        PROVE  /\ st[s] \in {"off", "register", "init", "run", "stopping", "exited"}
               /\ IsSlaveList(sl[s], Slaves)
               /\ st[s] \in {"init", "run"} => pos[s] \in Positions(sl[s])
               /\ callee[s] # NoSlave => todo[s] # <<>> /\ callee[s] # s
               /\ caller[s] # NoSlave => callee[caller[s]] = s
    <3>1. States(s) /\ Holds(s) /\ Calls(s)
        BY <1>1, SlaveFacts
    <3>2. st[s] \in {"init", "run"} => pos[s] \in Positions(sl[s])
        BY <1>1, ServingFacts
    <3> QED
        BY <3>1, <3>2 DEF States, Holds, Calls
  <2> QED
      BY <2>1, <2>2, <2>3, <2>4 DEF TypeOK, MasterInv
<1> QED
    BY <1>1, ClusterInvariant, PTL

\* When every process waits for its next event, the master lists exactly the
\* slaves that run, and each of them has the master's list and its position.
THEOREM ListsSettle == Spec => []ListsAgree
<1>1. ASSUME ClusterInv, Quiet
      PROVE  /\ Members(mlist) = {s \in Slaves : st[s] = "run"}
             /\ \A s \in Members(mlist) : sl[s] = mlist /\ mlist.nodes[pos[s]].id = s
  <2>1. MasterInv /\ job.op = "idle"
      BY <1>1 DEF ClusterInv, Inv, Quiet, IdleJob
  <2>2. ASSUME NEW s \in Members(mlist) PROVE s \in Slaves /\ st[s] = "run"
    <3>1. s \in Slaves
        BY <2>1, <2>2, MemberIsSlave
    <3>2. States(s) /\ st[s] \in {"off", "run", "exited"}
        BY <1>1, <3>1, SlaveFacts DEF Quiet
    <3> QED
        BY <2>2, <3>1, <3>2 DEF States, Unlisted
  <2>3. ASSUME NEW s \in Slaves, st[s] = "run"
        PROVE  s \in Members(mlist) /\ sl[s] = mlist /\ sl[s].nodes[pos[s]].id = s
      BY <1>1, <2>1, <2>3, ServingFacts
  <2> QED
      BY <2>2, <2>3
<1>2. ClusterInv => ListsAgree
    BY <1>1 DEF ListsAgree
<1> QED
    BY <1>2, ClusterInvariant, PTL

\* NEW_SLAVE and RM_SLAVE reach every slave that serves, in the master's
\* order: at any time its list is the master's, or that without the change
\* being announced.
THEOREM OneChange == Spec => []OneChangeApart
<1>1. ClusterInv => OneChangeApart
    BY ServingFacts DEF OneChangeApart
<1> QED
    BY <1>1, ClusterInvariant, PTL

\* assert(phd->cmd == rescmd) of CommunicateToSlave never fails because the
\* slave called has exited.
THEOREM CallsAnswered == Spec => []CallReplyAsserted
<1>1. ClusterInv => CallReplyAsserted
    BY DEF ClusterInv
<1> QED
    BY <1>1, ClusterInvariant, PTL

-----------------------------------------------------------------------------
(* The master's list.                                                      *)

\* Only two steps of the protocol change it.
LEMMA ListChanges ==
    ASSUME [Next]_vars
    PROVE  \/ mlist' = mlist
           \/ \E s \in Slaves : AddSlaveRequest(s)
           \/ FinishRequest /\ job.op # "add"
<1>1. CASE UNCHANGED vars
    BY <1>1 DEF vars, masterVars
<1>2. CASE MasterStep
  <2>1. CASE \E s \in Slaves : DelSlaveRequest(s)
      BY <2>1 DEF DelSlaveRequest
  <2>2. CASE NotifyAll \/ AlarmReply
      BY <2>2 DEF NotifyAll, AlarmReply
  <2>3. CASE FinishRequest /\ job.op = "add"
      BY <2>3 DEF FinishRequest
  <2> QED
      BY <1>2, <2>1, <2>2, <2>3 DEF MasterStep
<1>3. CASE Alarm \/ AlarmOnEmptyList
    BY <1>3 DEF Alarm, AlarmOnEmptyList, Die, masterVars
<1>4. ASSUME NEW s \in Slaves, StartSlave(s) \/ StopSlave(s) \/ StopInHandler(s)
      PROVE  mlist' = mlist
    BY <1>4 DEF StartSlave, StopSlave, StopInHandler, masterVars
<1>5. ASSUME NEW s \in Slaves, SlaveStep(s)
      PROVE  mlist' = mlist
  <2>1. CASE Register(s) \/ EnterLoop(s) \/ ExitSlave(s)
      BY <2>1 DEF Register, EnterLoop, ExitSlave, Die, masterVars
  <2>2. CASE HandleNewSlave(s) \/ HandleRmSlave(s) \/ HandleUpdateBackup12(s)
      BY <2>2 DEF HandleNewSlave, HandleRmSlave, HandleUpdateBackup12, masterVars
  <2>3. CASE SendBackupReply(s) \/ CallSlave(s) \/ ReceiveFile(s)
      BY <2>3 DEF SendBackupReply, CallSlave, ReceiveFile, masterVars
  <2>4. CASE \E t \in Slaves : ServeSlave(s, t)
      BY <2>4 DEF ServeSlave, masterVars
  <2> QED
      BY <1>5, <2>1, <2>2, <2>3, <2>4 DEF SlaveStep
<1> QED
    BY <1>1, <1>2, <1>3, <1>4, <1>5 DEF Next

\* DelFromSlaveList takes out one slave, and that is the one that asked.
LEMMA OneLeaves ==
    ASSUME ClusterInv, FinishRequest, job.op # "add"
    PROVE  /\ mlist' = DelFromSlaveList(mlist, job.pos)
           /\ job.pos \in Positions(mlist) /\ mlist.nodes[job.pos].id = job.s
           /\ job.s \in Slaves /\ st[job.s] = "stopping"
           /\ Members(mlist) \ Members(mlist') \subseteq {job.s}
<1>1. /\ MasterInv /\ job.op = "del" /\ job.s \in Slaves
      /\ mlist' = RemoveSlave(mlist, job.pos)
    BY FinishFacts
<1>2. /\ IsSlaveList(mlist, Slaves) /\ job.pos \in Positions(mlist)
      /\ mlist.nodes[job.pos].id = job.s
    BY <1>1 DEF MasterInv
<1>3. st[job.s] = "stopping"
  <2>1. PICK s : s = job.s
      OBVIOUS
  <2>2. States(s)
      BY <1>1, <2>1, SlaveFacts
  <2> QED
      BY <1>1, <2>1, <2>2 DEF States
<1>4. PICK new : new = RemoveSlave(mlist, job.pos)
    OBVIOUS
<1>5. ASSUME NEW i \in Positions(mlist), i # job.pos
      PROVE  mlist.nodes[i].id \in Members(new)
  <2>1. PICK r : r \in Positions(new) /\ new.nodes[r] = mlist.nodes[i]
      BY <1>2, <1>4, <1>5, PlaceAfterRemove
  <2> QED
      BY <2>1 DEF Members
<1>6. Members(mlist) \ Members(new) \subseteq {job.s}
    BY <1>2, <1>5 DEF Members
<1>7. mlist' = DelFromSlaveList(mlist, job.pos)
    BY <1>1 DEF RemoveSlave, DelFromSlaveList
<1> QED
    BY <1>1, <1>2, <1>3, <1>4, <1>6, <1>7

\* The position in DEL_SLAVE is the one the slave had when it asked, and other
\* changes may have come first; still the slave that DelFromSlaveList takes
\* out of the list is one that is stopping.
THEOREM StoppedSlaveLeaves == Spec => RightSlaveLeaves
<1>1. ASSUME ClusterInv, [Next]_vars
      PROVE  \A s \in Members(mlist) \ Members(mlist') : st[s] = "stopping"
  <2>1. CASE mlist' = mlist
      BY <2>1
  <2>2. ASSUME NEW s \in Slaves, AddSlaveRequest(s)
        PROVE  Members(mlist) \subseteq Members(mlist')
    <3>1. PICK first : mlist' = AddToSlaveList(mlist, s, first)
        BY <2>2 DEF AddSlaveRequest
    <3>2. IsSlaveList(mlist, Slaves) /\ Ordered(mlist)
        BY <1>1 DEF ClusterInv, Inv, MasterInv
    <3>3. Members(AddToSlaveList(mlist, s, first)) = Members(mlist) \cup {s}
        BY <3>2, NewPlace
    <3> QED
        BY <3>1, <3>3
  <2>3. CASE FinishRequest /\ job.op # "add"
      BY <1>1, <2>3, OneLeaves
  <2> QED
      BY <1>1, <2>1, <2>2, <2>3, ListChanges
<1>2. ClusterInv /\ [Next]_vars
         => [\A s \in Members(mlist) \ Members(mlist') : st[s] = "stopping"]_vars
    BY <1>1
<1> QED
    BY <1>2, ClusterInvariant, PTL DEF Spec, RightSlaveLeaves

\* MasterList has operators of its own for the same lists.
LEMMA SameOperators ==
    ASSUME NEW v, NEW s, NEW first, NEW p
    PROVE  /\ Abstract!Members(v) = Members(v)
           /\ Abstract!Positions(v) = Positions(v)
           /\ Abstract!RingKeys = RingKeys
           /\ Abstract!EmptySlaveList = EmptySlaveList
           /\ Abstract!AddToSlaveList(v, s, first) = AddToSlaveList(v, s, first)
           /\ Abstract!DelFromSlaveList(v, p) = DelFromSlaveList(v, p)
<1>1. Abstract!Positions(v) = Positions(v)
    BY DEF Abstract!Positions, Positions
<1>2. Abstract!Members(v) = Members(v)
    BY <1>1 DEF Abstract!Members, Members
<1>3. Abstract!RingKeys = RingKeys /\ Abstract!EmptySlaveList = EmptySlaveList
    BY DEF Abstract!RingKeys, RingKeys, Abstract!EmptySlaveList, EmptySlaveList
<1>4. Abstract!FindLongestSection(v) = FindLongestSection(v)
    BY DEF Abstract!FindLongestSection, FindLongestSection, Abstract!GetLength, GetLength,
           Abstract!Positions, Positions
<1>5. \A i : Abstract!GetLength(v, i) = GetLength(v, i)
    BY DEF Abstract!GetLength, GetLength
<1>6. Abstract!NewPos(v) = NewPos(v) /\ Abstract!NewKey(v, first) = NewKey(v, first)
    BY <1>4, <1>5 DEF Abstract!NewPos, NewPos, Abstract!NewKey, NewKey
<1>7. \A k, sn : Abstract!AddNewSlave(v, k, sn) = AddNewSlave(v, k, sn)
    BY DEF Abstract!AddNewSlave, AddNewSlave
<1>8. Abstract!AddToSlaveList(v, s, first) = AddToSlaveList(v, s, first)
    BY <1>6, <1>7 DEF Abstract!AddToSlaveList, AddToSlaveList
<1>9. Abstract!DelFromSlaveList(v, p) = DelFromSlaveList(v, p)
    BY DEF Abstract!DelFromSlaveList, DelFromSlaveList
<1> QED
    BY <1>1, <1>2, <1>3, <1>8, <1>9

\* What the slaves, the master and its alarm do to the list is what MasterList
\* does: ADD_SLAVE adds a slave that is not in it, the end of a DEL_SLAVE takes
\* out the slave at its position, and nothing else changes it.
THEOREM ListRefinement == Spec => ImplementsList
<1>1. Init => Abstract!Init
    BY SameOperators DEF Init, Abstract!Init
<1>2. ASSUME ClusterInv, NEW s \in Slaves, AddSlaveRequest(s)
      PROVE  Abstract!AddSlave(s)
  <2>1. s \notin Members(mlist)
      BY <1>2, AddRequestFacts
  <2>2. PICK first \in FirstKeys : mlist' = AddToSlaveList(mlist, s, first)
      BY <1>2 DEF AddSlaveRequest
  <2>3. first \in RingKeys
      BY EnoughKeys
  <2> QED
      BY <2>1, <2>2, <2>3, SameOperators DEF Abstract!AddSlave
<1>3. ASSUME ClusterInv, FinishRequest, job.op # "add"
      PROVE  Abstract!DelSlave(job.s) /\ job.s \in Slaves
    BY <1>3, OneLeaves, SameOperators DEF Abstract!DelSlave
<1>4. ClusterInv /\ [Next]_vars => [Abstract!Next]_mlist
    BY <1>2, <1>3, ListChanges DEF Abstract!Next
<1> QED
    BY <1>1, <1>4, ClusterInvariant, PTL DEF Spec, ImplementsList, Abstract!Spec

-----------------------------------------------------------------------------
(* One change at a time: the assertions on the master's replies.           *)

\* A slave that joins or leaves.
Moving(s) == st[s] \notin {"off", "run", "exited"}

\* As long as changes and alarms begin only when nothing is under way, at most
\* one slave joins or leaves, no alarm goes off meanwhile, and a slave that
\* leaves is sent nothing but the answer it waits for.
Calm == /\ \A s \in Slaves : Moving(s) => alarm = NoSlave
        /\ \A s, t \in Slaves : Moving(s) /\ Moving(t) => s = t
        /\ \A s \in Slaves : st[s] = "stopping" =>
              \A i \in 1..Len(toSlave[s]) : toSlave[s][i].cmd = "DEL_SLAVE_R"

\* A step that keeps it so fails none of the assertions.
StaysCalm == Calm' /\ (AssertionsHold => AssertionsHold')

\* The slave that the change at hand is about is the one that moves.
LEMMA JobMoves ==
    ASSUME ClusterInv, Calm, job.op # "idle"
    PROVE  /\ job.s \in Slaves /\ Moving(job.s)
           /\ \A s \in Slaves : Moving(s) => s = job.s
<1>1. MasterInv /\ job.op \in {"add", "del"}
    BY DEF ClusterInv, Inv, MasterInv
<1>2. job.s \in Slaves
    BY <1>1, JobPlace, MemberIsSlave
<1>3. Moving(job.s)
  <2>1. PICK s : s = job.s
      OBVIOUS
  <2>2. States(s)
      BY <1>2, <2>1, SlaveFacts
  <2> QED
      BY <1>1, <2>1, <2>2 DEF States, Joining, Moving
<1> QED
    BY <1>2, <1>3 DEF Calm

\* Steps that begin something find nothing under way.
LEMMA CalmBegins ==
    ASSUME ClusterInv, Calm, ~Overlap, NEW s \in Slaves,
           StartSlave(s) \/ StopSlave(s) \/ StopInHandler(s)
    PROVE  StaysCalm
<1>1. Quiet
    BY DEF StartSlave, StopSlave, StopInHandler, MayBegin
<1>2. alarm = NoSlave /\ \A t \in Slaves : ~Moving(t) /\ toSlave[t] = <<>>
    BY <1>1 DEF Quiet, Moving
<1>3. ~StopInHandler(s)
    BY <1>2 DEF StopInHandler, Got
<1>4. /\ alarm' = alarm /\ crash' = crash /\ toSlave' = toSlave
      /\ \A t \in Slaves \ {s} : st'[t] = st[t]
    BY <1>3 DEF StartSlave, StopSlave, masterVars, ClusterInv, Shape
<1>5. \A t \in Slaves \ {s} : ~Moving(t)'
    BY <1>2, <1>4 DEF Moving
<1> QED
    BY <1>2, <1>4, <1>5, NoMessages DEF StaysCalm, Calm, AssertionsHold

\* Steps of the master.
LEMMA CalmMaster ==
    ASSUME ClusterInv, Calm, MasterStep
    PROVE  StaysCalm
<1>1. st' = st /\ crash' = crash
    BY DEF MasterStep, AddSlaveRequest, DelSlaveRequest, NotifyAll, FinishRequest,
           AlarmReply, slaveVars
<1>2. \A s \in Slaves : Moving(s)' <=> Moving(s)
    BY <1>1 DEF Moving
<1>3. alarm' = alarm \/ alarm' = NoSlave
    BY DEF MasterStep, AddSlaveRequest, DelSlaveRequest, NotifyAll, FinishRequest,
           AlarmReply
<1>4. ASSUME NEW s \in Slaves, st[s] = "stopping"
      PROVE  \A i \in 1..Len(toSlave'[s]) : toSlave'[s][i].cmd = "DEL_SLAVE_R"
  <2>1. \A i \in 1..Len(toSlave[s]) : toSlave[s][i].cmd = "DEL_SLAVE_R"
      BY <1>4 DEF Calm
  <2>2. Moving(s) /\ DOMAIN toSlave = Slaves /\ IsQueue(toSlave[s])
      BY <1>4 DEF Moving, ClusterInv, Shape
  <2>3. CASE NotifyAll
    <3>1. PICK to : to = mlist.nodes[job.i].id
        OBVIOUS
    <3>2. /\ job.op \in {"add", "del"} /\ to \in Slaves
          /\ job.i = job.pos <=> to = job.s
        BY <2>3, <3>1, NotifyFacts
    <3>3. s = job.s
        BY <2>2, <3>2, JobMoves
    <3>4. toSlave'[s] = toSlave[s]
        BY <2>2, <2>3, <3>1, <3>2, <3>3 DEF NotifyAll, SendTo, chanVars
    <3> QED
        BY <2>1, <3>4
  <2>4. CASE FinishRequest
    <3>1. job.op \in {"add", "del"} /\ job.s \in Slaves
        BY <2>4, FinishFacts
    <3>2. s = job.s
        BY <2>2, <3>1, JobMoves
    <3>3. job.op = "del"
        BY <1>4, <3>1, <3>2, SlaveFacts DEF States, Joining
    <3>4. PICK m, q : /\ m = [cmd |-> "DEL_SLAVE_R"] /\ q = toSlave[s]
                      /\ toSlave'[s] = Append(q, m)
        BY <2>2, <2>4, <3>2, <3>3 DEF FinishRequest, SendTo
    <3>5. PICK new, n : new = Append(q, m) /\ n = Len(q)
        OBVIOUS
    <3>6. /\ n \in Nat /\ Len(new) = n + 1 /\ new[n + 1] = m
          /\ \A i \in 1..n : new[i] = q[i]
        BY <2>2, <3>4, <3>5, AppendQueue
    <3>7. ASSUME NEW i \in 1..(n + 1) PROVE new[i].cmd = "DEL_SLAVE_R"
      <4>1. i \in 1..n \/ i = n + 1
          BY <3>6, <3>7
      <4> QED
          BY <2>1, <3>4, <3>5, <3>6, <4>1
    <3> QED
        BY <3>4, <3>5, <3>6, <3>7
  <2>5. CASE AlarmReply \/ \E t \in Slaves : AddSlaveRequest(t) \/ DelSlaveRequest(t)
    <3>1. toSlave' = toSlave
        BY <2>5 DEF AlarmReply, AddSlaveRequest, DelSlaveRequest
    <3> QED
        BY <2>1, <3>1
  <2> QED
      BY <2>3, <2>4, <2>5 DEF MasterStep
<1> QED
    BY <1>1, <1>2, <1>3, <1>4 DEF StaysCalm, Calm, AssertionsHold

\* Steps that leave a slave in the state it is in.
LEMMA CalmWorks ==
    ASSUME ClusterInv, Calm, NEW s \in Slaves, st[s] \in {"init", "run"},
           masterVars' = masterVars, crash' = crash, st' = st,
           \A t \in Slaves \ {s} : toSlave'[t] = toSlave[t]
    PROVE  StaysCalm
<1>1. alarm' = alarm
    BY DEF masterVars
<1>2. \A t \in Slaves : (Moving(t)' <=> Moving(t)) /\ (st'[t] = "stopping" => t # s)
    BY DEF Moving
<1> QED
    BY <1>1, <1>2 DEF StaysCalm, Calm, AssertionsHold

\* The assertion of RegisterAndLoadSlaves.
LEMMA CalmRegister ==
    ASSUME ClusterInv, Calm, NEW s \in Slaves, Register(s)
    PROVE  StaysCalm
<1>1. st[s] = "register" /\ toSlave[s] # <<>> /\ States(s) /\ IsQueue(toSlave[s])
    BY SlaveFacts DEF Register
<1>2. ~Asking(s)
    BY <1>1 DEF Asking
<1>3. ~Joining(s)
  <2>1. SUFFICES ASSUME Joining(s) PROVE FALSE
      OBVIOUS
  <2>2. MasterInv /\ job.op = "add" /\ job.s = s /\ Len(toSlave[s]) = Due(s)
      BY <2>1, SlaveFacts DEF Joining
  <2>3. alarm = NoSlave
      BY <1>1 DEF Calm, Moving
  <2>4. ~Announcing(s)
    <3>1. SUFFICES ASSUME job.sent, mlist.nodes[job.i].id = s PROVE FALSE
        BY DEF Announcing
    <3>2. /\ IsSlaveList(mlist, Slaves) /\ Ordered(mlist)
          /\ job.pos \in Positions(mlist) /\ mlist.nodes[job.pos].id = s
          /\ job.i \in 0..mlist.num /\ job.i < mlist.num /\ job.i # job.pos
        BY <2>2, <3>1 DEF MasterInv
    <3>3. job.i \in Positions(mlist)
      <4>1. mlist.num \in Nat
          BY <3>2 DEF IsSlaveList
      <4> QED
          BY <3>2, <4>1 DEF Positions
    <3> QED
        BY <3>1, <3>2, <3>3, OnePlace
  <2>5. Len(toSlave[s]) = 0
      BY <2>2, <2>3, <2>4, NoSlaveAssumption DEF Due
  <2> QED
      BY <1>1, <2>5, EmptyQueue
<1>4. Head(toSlave[s]).cmd = "ADD_SLAVE_R"
  <2>1. toSlave[s][1].cmd = "ADD_SLAVE_R"
      BY <1>1, <1>2, <1>3 DEF States, Welcomed
  <2>2. Head(toSlave[s]) = toSlave[s][1]
      BY <1>1, TailQueue
  <2> QED
      BY <2>1, <2>2
<1>5. /\ masterVars' = masterVars /\ crash' = crash /\ Only(st', st, s, "init")
      /\ \A t \in Slaves \ {s} : toSlave'[t] = toSlave[t]
    BY <1>4 DEF Register, RecvFrom, Only, ClusterInv, Shape
<1>6. \A t \in Slaves : Moving(t)' => Moving(t)
    BY <1>1, <1>5 DEF Moving, Only
<1>7. \A t \in Slaves : st'[t] = "stopping" => st[t] = "stopping" /\ t # s
    BY <1>5 DEF Only
<1> QED
    BY <1>5, <1>6, <1>7 DEF StaysCalm, Calm, AssertionsHold, masterVars

\* The assertion of ShutDownSlave, and that of CommunicateToSlave.
LEMMA CalmExit ==
    ASSUME ClusterInv, Calm, NEW s \in Slaves, ExitSlave(s)
    PROVE  StaysCalm
<1>1. st[s] = "stopping" /\ toSlave[s] # <<>> /\ IsQueue(toSlave[s])
    BY SlaveFacts DEF ExitSlave
<1>2. Head(toSlave[s]).cmd = "DEL_SLAVE_R"
  <2>1. Head(toSlave[s]) = toSlave[s][1] /\ Len(toSlave[s]) \in Nat \ {0}
      BY <1>1, TailQueue
  <2>2. 1 \in 1..Len(toSlave[s])
      BY <2>1
  <2> QED
      BY <1>1, <2>1, <2>2 DEF Calm
<1>3. crash' # "assert rescmd"
    BY ExitStep DEF ClusterInv, CallReplyAsserted
<1>4. /\ masterVars' = masterVars /\ crash' = crash /\ Only(st', st, s, "exited")
      /\ \A t \in Slaves \ {s} : toSlave'[t] = toSlave[t]
  <2>1. /\ st' = [st EXCEPT ![s] = "exited"] /\ toSlave' = [toSlave EXCEPT ![s] = Tail(@)]
        /\ masterVars' = masterVars /\ crash' = crash
      BY <1>2, <1>3 DEF ExitSlave, Die, RecvFrom
  <2>2. DOMAIN st = Slaves /\ DOMAIN toSlave = Slaves
      BY DEF ClusterInv, Shape
  <2> QED
      BY <2>1, <2>2 DEF Only
<1>5. \A t \in Slaves : Moving(t)' => Moving(t)
    BY <1>1, <1>4 DEF Moving, Only
<1>6. \A t \in Slaves : st'[t] = "stopping" => st[t] = "stopping" /\ t # s
    BY <1>4 DEF Only
<1> QED
    BY <1>4, <1>5, <1>6 DEF StaysCalm, Calm, AssertionsHold, masterVars

LEMMA CalmNext ==
    ASSUME ClusterInv, Calm, ~Overlap, [Next]_vars
    PROVE  StaysCalm
<1>1. CASE UNCHANGED vars
    BY <1>1 DEF vars, masterVars, slaveVars, chanVars, StaysCalm, Calm, Moving, AssertionsHold
<1>2. CASE MasterStep
    BY <1>2, CalmMaster
<1>3. CASE Alarm
  <2>1. Quiet /\ st' = st /\ crash' = crash
      BY <1>3 DEF Alarm, MayBegin, slaveVars
  <2>2. \A s \in Slaves : ~Moving(s)'
      BY <2>1 DEF Quiet, Moving
  <2> QED
      BY <2>1, <2>2 DEF StaysCalm, Calm, Moving, AssertionsHold
<1>4. CASE AlarmOnEmptyList
    BY <1>4 DEF AlarmOnEmptyList, Die, masterVars, slaveVars, chanVars, StaysCalm, Calm, Moving,
                AssertionsHold
<1>5. ASSUME NEW s \in Slaves, StartSlave(s) \/ StopSlave(s) \/ StopInHandler(s)
      PROVE  StaysCalm
    BY <1>5, CalmBegins
<1>6. ASSUME NEW s \in Slaves, SlaveStep(s)
      PROVE  StaysCalm
  <2>1. CASE Register(s) \/ ExitSlave(s)
      BY <2>1, CalmRegister, CalmExit
  <2>2. CASE EnterLoop(s)
    <3>1. /\ masterVars' = masterVars /\ toSlave' = toSlave /\ crash' = crash
          /\ st[s] = "init" /\ Only(st', st, s, "run")
        BY <2>2 DEF EnterLoop, chanVars, Only, ClusterInv, Shape
    <3>2. \A t \in Slaves : Moving(t)' => Moving(t)
        BY <3>1 DEF Moving, Only
    <3>3. \A t \in Slaves : st'[t] = "stopping" => st[t] = "stopping"
        BY <3>1 DEF Only
    <3> QED
        BY <3>1, <3>2, <3>3 DEF StaysCalm, Calm, AssertionsHold, masterVars
  <2>3. CASE HandleNewSlave(s) \/ HandleRmSlave(s) \/ HandleUpdateBackup12(s)
    <3>1. /\ masterVars' = masterVars /\ crash' = crash /\ st' = st /\ st[s] = "run"
          /\ \A t \in Slaves \ {s} : toSlave'[t] = toSlave[t]
        BY <2>3 DEF HandleNewSlave, HandleRmSlave, HandleUpdateBackup12, Polling, RecvFrom,
                    ClusterInv, Shape
    <3> QED
        BY <3>1, CalmWorks
  <2>4. CASE SendBackupReply(s) \/ CallSlave(s) \/ ReceiveFile(s)
             \/ \E t \in Slaves : ServeSlave(s, t)
    <3>1. /\ masterVars' = masterVars /\ crash' = crash /\ st' = st
          /\ st[s] \in {"init", "run"} /\ toSlave' = toSlave
        BY <2>4 DEF SendBackupReply, CallSlave, ReceiveFile, ServeSlave, Working, Polling,
                    chanVars
    <3> QED
        BY <3>1, CalmWorks
  <2> QED
      BY <1>6, <2>1, <2>2, <2>3, <2>4 DEF SlaveStep
<1> QED
    BY <1>1, <1>2, <1>3, <1>4, <1>5, <1>6 DEF Next

\* assert(phd->cmd == ADD_SLAVE_R), assert(phd->cmd == DEL_SLAVE_R) and
\* assert(phd->cmd == rescmd) of slave.c never fail, with any number of slaves,
\* if no slave starts or stops and no alarm goes off while another change or
\* alarm is under way.
THEOREM RepliesExpected ==
    ASSUME ~Overlap
    PROVE  Spec => []AssertionsHold
<1>1. Init => Calm /\ AssertionsHold
    BY DEF Init, Calm, Moving, AssertionsHold
<1>2. /\ ClusterInv /\ Calm /\ [Next]_vars => Calm'
      /\ ClusterInv /\ Calm /\ AssertionsHold /\ [Next]_vars => AssertionsHold'
    BY CalmNext DEF StaysCalm
<1> QED
    BY <1>1, <1>2, ClusterInvariant, PTL DEF Spec
=============================================================================
