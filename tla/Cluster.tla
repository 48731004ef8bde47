------------------------------- MODULE Cluster -------------------------------
(***************************************************************************)
(* The membership protocol (server/master.c, server/slave.c): how slaves   *)
(* join and leave, how the master tells the others, and what the slaves    *)
(* then ask of each other.  The master handles one request at a time, and  *)
(* its alarm handler may interrupt it anywhere.  A slave's main thread     *)
(* runs one handler at a time; its SIGINT handler may interrupt it.  Each  *)
(* process blocks in recv until the message it waits for is there.         *)
(*                                                                         *)
(* What the slaves exchange, the files, is left out: here a call of one    *)
(* slave to another is who waits for whom.  The one database is a.db, the  *)
(* initial file_master, so that SendFile finds its file.  Processes do not *)
(* crash by themselves; a failed assertion, or a division by zero, ends    *)
(* the model.                                                              *)
(***************************************************************************)
EXTENDS SlaveRing, Sequences, FiniteSets

CONSTANTS Slaves,       \* the slave processes
          FirstKeys,    \* what rand() % MAX_KEY may return
          Overlap,      \* whether changes and alarms may begin while others are under way
          AlarmOn       \* whether the master's alarm goes off

\* As in MasterList: there is a key for each slave.
ASSUME ClusterAssumption == /\ FirstKeys \subseteq RingKeys /\ FirstKeys # {}
                            /\ Overlap \in BOOLEAN /\ AlarmOn \in BOOLEAN
                            /\ IsFiniteSet(Slaves)
                            /\ Cardinality(Slaves) <= MAX_KEY

VARIABLES
    mlist,      \* the master's list
    job,        \* the request the master is handling
    alarm,      \* the alarm handler: idle, or waiting for the reply of a slave
    backuppos,  \* its static pos
    eintr,      \* whether errno is EINTR in the master, which no call resets
    st,         \* each slave: off, register, init, run, stopping, exited
    sl,         \* its copy of the list
    pos,        \* its position in it
    todo,       \* what is left of the handler its main thread runs
    callee,     \* the slave it is calling
    caller,     \* the slave whose call it is serving
    toSlave,    \* messages from the master to each slave
    toMaster,   \* messages from each slave to the master
    crash       \* the assertion that failed, SIGFPE, or "none"

masterVars == <<mlist, job, alarm, backuppos, eintr>>
slaveVars == <<st, sl, pos, todo, callee, caller>>
chanVars == <<toSlave, toMaster>>
vars == <<masterVars, slaveVars, chanVars, crash>>

NoSlave == "nobody"
ASSUME NoSlaveAssumption == NoSlave \notin Slaves

IdleJob == [op |-> "idle", s |-> NoSlave, pos |-> 0, i |-> 0, sent |-> FALSE]

Init == /\ mlist = EmptySlaveList
        /\ job = IdleJob
        /\ alarm = NoSlave
        /\ backuppos = 0
        /\ eintr = FALSE
        /\ st = [s \in Slaves |-> "off"]
        /\ sl = [s \in Slaves |-> EmptySlaveList]
        /\ pos = [s \in Slaves |-> 0]
        /\ todo = [s \in Slaves |-> <<>>]
        /\ callee = [s \in Slaves |-> NoSlave]
        /\ caller = [s \in Slaves |-> NoSlave]
        /\ toSlave = [s \in Slaves |-> <<>>]
        /\ toMaster = [s \in Slaves |-> <<>>]
        /\ crash = "none"

\* Nothing is under way: every process waits for its next event.
Quiet == /\ job = IdleJob /\ alarm = NoSlave
         /\ \A s \in Slaves : /\ st[s] \in {"off", "run", "exited"}
                              /\ todo[s] = <<>> /\ caller[s] = NoSlave
                              /\ toSlave[s] = <<>> /\ toMaster[s] = <<>>

MayBegin == crash = "none" /\ (Overlap \/ Quiet)

Die(why) == crash' = why /\ UNCHANGED <<masterVars, slaveVars, chanVars>>

SendTo(chan, s, m) == [chan EXCEPT ![s] = Append(@, m)]
RecvFrom(chan, s) == [chan EXCEPT ![s] = Tail(@)]

-----------------------------------------------------------------------------
(* The master.                                                             *)

MasterFree == crash = "none" /\ alarm = NoSlave

\* Mutant: the version of the list stays as it was.
AddSlaveRequestKeepsVersion(s) ==
    /\ MasterFree /\ job = IdleJob
    /\ toMaster[s] # <<>> /\ Head(toMaster[s]).cmd = "ADD_SLAVE"
    /\ \E first \in FirstKeys :
          mlist' = [AddToSlaveList(mlist, s, first) EXCEPT !.version = mlist.version]
    /\ job' = [op |-> "add", s |-> s, pos |-> NewPos(mlist), i |-> 0, sent |-> FALSE]
    /\ toMaster' = RecvFrom(toMaster, s)
    /\ UNCHANGED <<alarm, backuppos, eintr, slaveVars, toSlave, crash>>

\* ADD_SLAVE: the list is changed, then everybody else is told.
AddSlaveRequest(s) ==
    /\ MasterFree /\ job = IdleJob
    /\ toMaster[s] # <<>> /\ Head(toMaster[s]).cmd = "ADD_SLAVE"
    /\ \E first \in FirstKeys : mlist' = AddToSlaveList(mlist, s, first)
    /\ job' = [op |-> "add", s |-> s, pos |-> NewPos(mlist), i |-> 0, sent |-> FALSE]
    /\ toMaster' = RecvFrom(toMaster, s)
    /\ UNCHANGED <<alarm, backuppos, eintr, slaveVars, toSlave, crash>>

\* DEL_SLAVE: everybody else is told, then the list is changed.  It comes on
\* a socket the master has already: with errno left at EINTR, MasterProcess
\* takes the event for an alarm and does not read the message.
DelSlaveRequest(s) ==
    /\ MasterFree /\ job = IdleJob
    /\ toMaster[s] # <<>> /\ Head(toMaster[s]).cmd = "DEL_SLAVE"
    /\ ~eintr
    /\ job' = [op |-> "del", s |-> s, pos |-> Head(toMaster[s]).pos, i |-> 0,
               sent |-> FALSE]
    /\ toMaster' = RecvFrom(toMaster, s)
    /\ UNCHANGED <<mlist, alarm, backuppos, eintr, slaveVars, toSlave, crash>>

Announcement ==
    IF job.op = "add"
    THEN [cmd |-> "NEW_SLAVE", pos |-> job.pos, node |-> mlist.nodes[job.pos]]
    ELSE [cmd |-> "RM_SLAVE", pos |-> job.pos]

\* Mutant: the slave the change is about is told too.
NotifyAllTellsAll ==
    LET to == mlist.nodes[job.i].id
    IN  /\ MasterFree /\ job # IdleJob /\ job.i < mlist.num
        /\ \/ /\ ~job.sent
              /\ toSlave' = SendTo(toSlave, to, Announcement)
              /\ job' = [job EXCEPT !.sent = TRUE]
              /\ UNCHANGED toMaster
           \/ /\ job.sent /\ toMaster[to] # <<>>
              /\ toMaster' = RecvFrom(toMaster, to)
              /\ job' = [job EXCEPT !.i = @ + 1, !.sent = FALSE]
              /\ UNCHANGED toSlave
        /\ UNCHANGED <<mlist, alarm, backuppos, eintr, slaveVars, crash>>

\* Mutant: the replies are not waited for.
NotifyAllNoWait ==
    /\ MasterFree /\ job # IdleJob /\ job.i < mlist.num
    /\ toSlave' = IF job.i = job.pos THEN toSlave
                  ELSE SendTo(toSlave, mlist.nodes[job.i].id, Announcement)
    /\ job' = [job EXCEPT !.i = @ + 1]
    /\ UNCHANGED <<mlist, alarm, backuppos, eintr, slaveVars, toMaster, crash>>

\* The loop of NotifyAll: all nodes except job.pos, one after the other.  Any
\* message that comes back counts as the reply.
NotifyAll ==
    LET to == mlist.nodes[job.i].id
    IN  /\ MasterFree /\ job # IdleJob /\ job.i < mlist.num
        /\ \/ /\ job.i = job.pos
              /\ job' = [job EXCEPT !.i = @ + 1]
              /\ UNCHANGED chanVars
           \/ /\ job.i # job.pos /\ ~job.sent
              /\ toSlave' = SendTo(toSlave, to, Announcement)
              /\ job' = [job EXCEPT !.sent = TRUE]
              /\ UNCHANGED toMaster
           \/ /\ job.sent /\ toMaster[to] # <<>>
              /\ toMaster' = RecvFrom(toMaster, to)
              /\ job' = [job EXCEPT !.i = @ + 1, !.sent = FALSE]
              /\ UNCHANGED toSlave
        /\ UNCHANGED <<mlist, alarm, backuppos, eintr, slaveVars, crash>>

\* The reply to the slave that asked.
FinishRequest ==
    /\ MasterFree /\ job # IdleJob /\ job.i = mlist.num
    /\ IF job.op = "add"
       THEN /\ toSlave' = SendTo(toSlave, job.s,
                             [cmd |-> "ADD_SLAVE_R", pos |-> job.pos, list |-> mlist])
            /\ UNCHANGED mlist
       ELSE /\ mlist' = DelFromSlaveList(mlist, job.pos)
            /\ toSlave' = SendTo(toSlave, job.s, [cmd |-> "DEL_SLAVE_R"])
    /\ job' = IdleJob
    /\ UNCHANGED <<alarm, backuppos, eintr, slaveVars, toMaster, crash>>

\* SIGALRM: the handler asks the next slave to renew its backups.  When it
\* interrupts epoll_wait, errno becomes EINTR.
Alarm ==
    /\ AlarmOn /\ MayBegin /\ alarm = NoSlave
    /\ mlist.num # 0
    /\ LET p == (backuppos + 1) % mlist.num
           s == mlist.nodes[p].id
       IN  /\ backuppos' = p
           /\ alarm' = s
           /\ toSlave' = SendTo(toSlave, s, [cmd |-> "UPDATE_BACKUP12"])
    /\ eintr' \in (IF job = IdleJob THEN {eintr, TRUE} ELSE {eintr})
    /\ UNCHANGED <<mlist, job, slaveVars, toMaster, crash>>

\* SIGALRM with no slave in the list: pos % 0.
AlarmOnEmptyList ==
    /\ AlarmOn /\ MayBegin /\ alarm = NoSlave
    /\ mlist.num = 0
    /\ Die("SIGFPE")

\* The handler gets a message from the slave, the reply it expects or not.
AlarmReply ==
    /\ crash = "none" /\ alarm # NoSlave
    /\ toMaster[alarm] # <<>>
    /\ toMaster' = RecvFrom(toMaster, alarm)
    /\ alarm' = NoSlave
    /\ UNCHANGED <<mlist, job, backuppos, eintr, slaveVars, toSlave, crash>>

-----------------------------------------------------------------------------
(* A slave.                                                                *)

Got(s, cmd) == toSlave[s] # <<>> /\ Head(toSlave[s]).cmd = cmd

\* InitialSlave: the slave connects to the master and asks to be added.
StartSlave(s) ==
    /\ MayBegin /\ st[s] = "off"
    /\ st' = [st EXCEPT ![s] = "register"]
    /\ toMaster' = SendTo(toMaster, s, [cmd |-> "ADD_SLAVE"])
    /\ UNCHANGED <<masterVars, sl, pos, todo, callee, caller, toSlave, crash>>

\* The calls of InitialSlave in a list of num slaves: CLIP_DATA to the
\* predecessor, BACKUP to the successor, UPDATE_BACKUP2 to the second
\* predecessor, BACKUP to the second successor.
InitialCalls(num) ==
    (IF num > 1 THEN <<-1, 1>> ELSE <<>>) \o (IF num > 2 THEN <<-2, 2>> ELSE <<>>)

\* RegisterAndLoadSlaves, with its assertion on the reply.
Register(s) ==
    LET m == Head(toSlave[s]) IN
    /\ crash = "none" /\ st[s] = "register" /\ toSlave[s] # <<>>
    /\ IF m.cmd # "ADD_SLAVE_R" THEN Die("assert ADD_SLAVE_R")
       ELSE /\ pos' = [pos EXCEPT ![s] = m.pos]
            /\ sl' = [sl EXCEPT ![s] = m.list]
            /\ todo' = [todo EXCEPT ![s] = InitialCalls(m.list.num)]
            /\ st' = [st EXCEPT ![s] = "init"]
            /\ toSlave' = RecvFrom(toSlave, s)
            /\ UNCHANGED <<masterVars, callee, caller, toMaster, crash>>

\* The end of InitialSlave: SIGINT gets its handler and the loop is entered.
EnterLoop(s) ==
    /\ crash = "none" /\ st[s] = "init" /\ todo[s] = <<>>
    /\ st' = [st EXCEPT ![s] = "run"]
    /\ UNCHANGED <<masterVars, sl, pos, todo, callee, caller, chanVars, crash>>

\* The main thread is in epoll_wait.
Polling(s) == /\ crash = "none" /\ st[s] = "run"
              /\ todo[s] = <<>> /\ caller[s] = NoSlave

\* Mutant: the own position is not moved up by a new predecessor.
HandleNewSlaveKeepsPos(s) ==
    LET m == Head(toSlave[s]) IN
    /\ Polling(s) /\ Got(s, "NEW_SLAVE")
    /\ sl' = [sl EXCEPT ![s] = AddNewSlave(@, m.pos, m.node)]
    /\ toSlave' = RecvFrom(toSlave, s)
    /\ toMaster' = SendTo(toMaster, s, [cmd |-> "NEW_SLAVE_R"])
    /\ UNCHANGED <<masterVars, st, pos, todo, callee, caller, crash>>

\* Mutant: the slave does not answer the master.
HandleNewSlaveNoReply(s) ==
    LET m == Head(toSlave[s])
        num == sl[s].num + 1
    IN  /\ Polling(s) /\ Got(s, "NEW_SLAVE")
        /\ sl' = [sl EXCEPT ![s] = AddNewSlave(@, m.pos, m.node)]
        /\ pos' = [pos EXCEPT ![s] = IF m.pos <= @ THEN (@ + 1) % num ELSE @]
        /\ toSlave' = RecvFrom(toSlave, s)
        /\ UNCHANGED <<masterVars, st, todo, callee, caller, toMaster, crash>>

\* NEW_SLAVE in HandleMasterRequest.
HandleNewSlave(s) ==
    LET m == Head(toSlave[s])
        num == sl[s].num + 1
    IN  /\ Polling(s) /\ Got(s, "NEW_SLAVE")
        /\ sl' = [sl EXCEPT ![s] = AddNewSlave(@, m.pos, m.node)]
        /\ pos' = [pos EXCEPT ![s] = IF m.pos <= @ THEN (@ + 1) % num ELSE @]
        /\ toSlave' = RecvFrom(toSlave, s)
        /\ toMaster' = SendTo(toMaster, s, [cmd |-> "NEW_SLAVE_R"])
        /\ UNCHANGED <<masterVars, st, todo, callee, caller, crash>>

\* Mutant: the own position is not moved down when a predecessor leaves.
HandleRmSlaveKeepsPos(s) ==
    LET rmpos == Head(toSlave[s]).pos IN
    /\ Polling(s) /\ Got(s, "RM_SLAVE")
    /\ sl' = [sl EXCEPT ![s] = RemoveSlave(@, rmpos)]
    /\ toSlave' = RecvFrom(toSlave, s)
    /\ toMaster' = SendTo(toMaster, s, [cmd |-> "RM_SLAVE_R"])
    /\ UNCHANGED <<masterVars, st, pos, todo, callee, caller, crash>>

\* Mutant: the slave does not answer the master.
HandleRmSlaveNoReply(s) ==
    LET rmpos == Head(toSlave[s]).pos
        num == sl[s].num - 1
    IN  /\ Polling(s) /\ Got(s, "RM_SLAVE")
        /\ sl' = [sl EXCEPT ![s] = RemoveSlave(@, rmpos)]
        /\ pos' = [pos EXCEPT ![s] = IF rmpos < @ THEN (@ - 1 + num) % num ELSE @]
        /\ toSlave' = RecvFrom(toSlave, s)
        /\ UNCHANGED <<masterVars, st, todo, callee, caller, toMaster, crash>>

\* RM_SLAVE: after the reply, the predecessor and the second predecessor of
\* the slave that leaves merge their backups and renew the second one.
HandleRmSlave(s) ==
    LET rmpos == Head(toSlave[s]).pos
        num == sl[s].num - 1
        newpos == IF rmpos < pos[s] THEN (pos[s] - 1 + num) % num ELSE pos[s]
        affected == newpos \in {(rmpos - 1 + num) % num, (rmpos - 2 + num) % num}
    IN  /\ Polling(s) /\ Got(s, "RM_SLAVE")
        /\ sl' = [sl EXCEPT ![s] = RemoveSlave(@, rmpos)]
        /\ pos' = [pos EXCEPT ![s] = newpos]
        /\ todo' = [todo EXCEPT ![s] = IF affected THEN <<2>> ELSE <<>>]
        /\ toSlave' = RecvFrom(toSlave, s)
        /\ toMaster' = SendTo(toMaster, s, [cmd |-> "RM_SLAVE_R"])
        /\ UNCHANGED <<masterVars, st, callee, caller, crash>>

\* UPDATE_BACKUP12: both backups are renewed, then (0) the reply is sent.
HandleUpdateBackup12(s) ==
    /\ Polling(s) /\ Got(s, "UPDATE_BACKUP12")
    /\ todo' = [todo EXCEPT ![s] = <<1, 2, 0>>]
    /\ toSlave' = RecvFrom(toSlave, s)
    /\ UNCHANGED <<masterVars, st, sl, pos, callee, caller, toMaster, crash>>

Working(s) == /\ crash = "none" /\ st[s] \in {"init", "run"}
              /\ todo[s] # <<>> /\ callee[s] = NoSlave

SendBackupReply(s) ==
    /\ Working(s) /\ Head(todo[s]) = 0
    /\ todo' = [todo EXCEPT ![s] = Tail(@)]
    /\ toMaster' = SendTo(toMaster, s, [cmd |-> "UPDATE_BACKUP12_R"])
    /\ UNCHANGED <<masterVars, st, sl, pos, callee, caller, toSlave, crash>>

\* CommunicateToSlave(k): nothing to do when the other slave is this one; a
\* slave that has exited cannot be reached, and InitialSlave gives up when
\* that is the predecessor; otherwise the request is sent.
CallSlave(s) ==
    LET k == Head(todo[s])
        hispos == (pos[s] + k + sl[s].num) % sl[s].num
        other == sl[s].nodes[hispos].id
    IN  /\ Working(s) /\ k # 0
        /\ \/ /\ hispos = pos[s]
              /\ todo' = [todo EXCEPT ![s] = Tail(@)]
              /\ UNCHANGED callee
           \/ /\ hispos # pos[s] /\ st[other] = "exited"
              /\ todo' = [todo EXCEPT ![s] = IF k = -1 THEN <<>> ELSE Tail(@)]
              /\ UNCHANGED callee
           \/ /\ hispos # pos[s] /\ st[other] # "exited"
              /\ callee' = [callee EXCEPT ![s] = other]
              /\ UNCHANGED todo
        /\ UNCHANGED <<masterVars, st, sl, pos, caller, chanVars, crash>>

\* HandleSlaveRequest takes up the request of a slave and sends it the file,
\* waiting for an acknowledgement of every block.
ServeSlave(t, s) ==
    /\ Polling(t) /\ callee[s] = t
    /\ caller' = [caller EXCEPT ![t] = s]
    /\ UNCHANGED <<masterVars, st, sl, pos, todo, callee, chanVars, crash>>

\* The slave that called receives the file, which sets both free.
ReceiveFile(s) ==
    /\ crash = "none" /\ st[s] \in {"init", "run"}
    /\ \E t \in Slaves :
          /\ callee[s] = t /\ caller[t] = s
          /\ caller' = [caller EXCEPT ![t] = NoSlave]
    /\ callee' = [callee EXCEPT ![s] = NoSlave]
    /\ todo' = [todo EXCEPT ![s] = Tail(@)]
    /\ UNCHANGED <<masterVars, st, sl, pos, chanVars, crash>>

\* SIGINT: wherever the main thread is, ShutDownSlave asks the master to take
\* this slave out of the list.  (pthread_cancel of ctrl_thread_id, a thread that
\* was never made, is taken to return an error, which is not looked at.)
StopSlave(s) ==
    /\ MayBegin /\ st[s] = "run"
    /\ st' = [st EXCEPT ![s] = "stopping"]
    /\ toMaster' = SendTo(toMaster, s, [cmd |-> "DEL_SLAVE", pos |-> pos[s]])
    /\ UNCHANGED <<masterVars, sl, pos, todo, callee, caller, toSlave, crash>>

\* SIGINT between the receipt of NEW_SLAVE or RM_SLAVE and the reply, with pos
\* updated already or not: the handler is never resumed and does not reply.
StopInHandler(s) ==
    LET m == Head(toSlave[s]) IN
    /\ Polling(s) /\ MayBegin
    /\ Got(s, "NEW_SLAVE") \/ Got(s, "RM_SLAVE")
    /\ st' = [st EXCEPT ![s] = "stopping"]
    /\ toSlave' = RecvFrom(toSlave, s)
    /\ \E p \in {pos[s], IF m.cmd = "RM_SLAVE" /\ m.pos < pos[s] THEN pos[s] - 1
                         ELSE IF m.cmd = "NEW_SLAVE" /\ m.pos <= pos[s] THEN pos[s] + 1
                         ELSE pos[s]} :
          toMaster' = SendTo(toMaster, s, [cmd |-> "DEL_SLAVE", pos |-> p])
    /\ UNCHANGED <<masterVars, sl, pos, todo, callee, caller, crash>>

\* ShutDownSlave gets a message and asserts that it is DEL_SLAVE_R.  At exit
\* the connections of the slave close: whoever served it goes on, and whoever
\* waits for its answer finds its own request in the buffer and aborts (a
\* slave that is stopping has left that call for good).
ExitSlave(s) ==
    /\ crash = "none" /\ st[s] = "stopping" /\ toSlave[s] # <<>>
    /\ IF Head(toSlave[s]).cmd # "DEL_SLAVE_R" THEN Die("assert DEL_SLAVE_R")
       ELSE IF \E t \in Slaves : callee[t] = s /\ st[t] \in {"init", "run"}
            THEN Die("assert rescmd")
       ELSE /\ st' = [st EXCEPT ![s] = "exited"]
            /\ toSlave' = RecvFrom(toSlave, s)
            /\ todo' = [todo EXCEPT ![s] = <<>>]
            /\ callee' = [callee EXCEPT ![s] = NoSlave]
            /\ caller' = [t \in Slaves |-> IF caller[t] = s \/ t = s THEN NoSlave
                                           ELSE caller[t]]
            /\ UNCHANGED <<masterVars, sl, pos, toMaster, crash>>

-----------------------------------------------------------------------------
MasterStep == \/ \E s \in Slaves : AddSlaveRequest(s) \/ DelSlaveRequest(s)
              \/ NotifyAll \/ FinishRequest \/ AlarmReply

SlaveStep(s) == \/ Register(s) \/ EnterLoop(s) \/ HandleNewSlave(s)
                \/ HandleRmSlave(s) \/ HandleUpdateBackup12(s)
                \/ SendBackupReply(s) \/ CallSlave(s) \/ ReceiveFile(s)
                \/ ExitSlave(s) \/ \E t \in Slaves : ServeSlave(s, t)

Next == \/ MasterStep \/ Alarm \/ AlarmOnEmptyList
        \/ \E s \in Slaves : \/ StartSlave(s) \/ StopSlave(s)
                             \/ StopInHandler(s) \/ SlaveStep(s)

Spec == Init /\ [][Next]_vars

\* Every process that can go on goes on; nobody has to start or stop a slave,
\* and the alarm may stay away.
FairSpec == /\ Spec
            /\ WF_vars(MasterStep)
            /\ \A s \in Slaves : WF_vars(SlaveStep(s))

-----------------------------------------------------------------------------
\* Types; a slave that waits for another one has a call to make.
TypeOK ==
    /\ IsSlaveList(mlist, Slaves)
    /\ job.op \in {"idle", "add", "del"} /\ job.i \in 0..mlist.num
    /\ alarm \in Slaves \cup {NoSlave} /\ eintr \in BOOLEAN
    /\ \A s \in Slaves :
          /\ st[s] \in {"off", "register", "init", "run", "stopping", "exited"}
          /\ IsSlaveList(sl[s], Slaves)
          /\ st[s] \in {"init", "run"} => pos[s] \in Positions(sl[s])
          /\ callee[s] # NoSlave => todo[s] # <<>> /\ callee[s] # s
          /\ caller[s] # NoSlave => callee[caller[s]] = s

\* The assertions of slave.c on the replies it receives all hold: as long as
\* one change ends before the next begins, no process ever takes a message
\* meant for another exchange.  (SIGFPE is the alarm on an empty list.)
AssertionsHold == crash \in {"none", "SIGFPE"}

\* assert(phd->cmd == ADD_SLAVE_R) in RegisterAndLoadSlaves: what a slave that
\* joins first gets from the master is the answer to its ADD_SLAVE.  An alarm
\* that falls into the handling of ADD_SLAVE makes this false.
AddReplyAsserted == crash # "assert ADD_SLAVE_R"

\* assert(phd->cmd == DEL_SLAVE_R) in ShutDownSlave: what a slave that leaves
\* gets from the master is the answer to its DEL_SLAVE.  Changes that overlap
\* make this false.
DelReplyAsserted == crash # "assert DEL_SLAVE_R"

\* assert(phd->cmd == rescmd) in CommunicateToSlave: a slave never exits while
\* another one that goes on running waits for its answer, since the master
\* lets it exit only when all others have replied to RM_SLAVE.
CallReplyAsserted == crash # "assert rescmd"

\* When nothing is under way, the master's list has exactly the slaves that
\* run, and each of them has the same list and finds itself at its position.
ListsAgree ==
    Quiet =>
        /\ Members(mlist) = {s \in Slaves : st[s] = "run"}
        /\ \A s \in Members(mlist) : /\ sl[s] = mlist
                                     /\ mlist.nodes[pos[s]].id = s

\* At any time the list of a slave that serves requests is that of the master,
\* or differs from it by the one change that the master is announcing: slaves
\* never see two changes in different orders, and none is lost.
OneChangeApart ==
    \A s \in Slaves : st[s] \in {"init", "run"} =>
        /\ sl[s].nodes[pos[s]].id = s
        /\ \/ sl[s].nodes = mlist.nodes
           \/ job.op # "idle" /\ sl[s].nodes = RemoveSlave(mlist, job.pos).nodes

\* The slave that DEL_SLAVE takes out of the list is one that asked to leave,
\* though the position in the message is the one it had when it asked.
RightSlaveLeaves ==
    [][\A s \in Members(mlist) \ Members(mlist') : st[s] = "stopping"]_vars

\* The membership protocol implements the list of MasterList.
Abstract == INSTANCE MasterList WITH slaves <- mlist

ImplementsList == Abstract!Spec

\* A slave that is started comes to serve requests, unless a process aborts.
JoinCompletes ==
    \A s \in Slaves : st[s] = "register" ~> st[s] = "run" \/ crash # "none"

\* "<CTRL>+c will shutdown a slave server" (README.md): it exits, unless a
\* process aborts (which the assertions are about).
StopCompletes ==
    \A s \in Slaves : st[s] = "stopping" ~> st[s] = "exited" \/ crash # "none"
=============================================================================
