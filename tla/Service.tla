------------------------------- MODULE Service -------------------------------
(***************************************************************************)
(* The whole service: the membership protocol of Cluster, the files that   *)
(* the slaves exchange in it (SlaveFiles), and a client (client/) that     *)
(* opens the database, sets, gets and deletes records, and closes it.      *)
(*                                                                         *)
(* The client keeps a copy of the slave list and sends a command to the    *)
(* slave that owns the key.  That slave's main thread compares the version *)
(* of the client's list with its own and queues the command; a worker      *)
(* executes it later, whatever main is doing then.  (The shared buffer of  *)
(* the queue is the subject of RequestPipeline: one client meets no        *)
(* other's message.)                                                       *)
(*                                                                         *)
(* store, home, safe and fate are history variables: they say what the     *)
(* client was told and which copies there should be, and no action depends *)
(* on them.                                                                *)
(*                                                                         *)
(* What the module promises of records and versions is promised when      *)
(* joins, departures and alarms begin one at a time (Overlap = FALSE);     *)
(* the code does not hold SIGALRM and SIGINT back until an exchange ends.  *)
(***************************************************************************)
EXTENDS Cluster, SlaveFiles

CONSTANTS Commands,     \* which of set, get and del the client uses
          MaxStops,     \* how many slaves may leave
          MaxAlarms     \* how often the master's alarm may go off

ASSUME ServiceAssumption == /\ Commands \subseteq {"set", "get", "del"}
                            /\ MaxStops \in Nat /\ MaxAlarms \in Nat

VARIABLES
    files,      \* the files of each slave
    copy,       \* the records on their way to a slave that has called another
    cl,         \* the client: where it is, its command, its copy of the list
    stops,      \* how many slaves have left
    alarms,     \* how often the alarm has gone off
    store,      \* what each key holds, by the answers given
    home,       \* the slave that has the record of each key
    safe,       \* the backups <<s, d>> that have what the key holds
    fate        \* "kept", or what has become of an answered command: "lost"
                \* with its slave, or "stray" on a slave that had passed it on

bounds == <<stops, alarms>>
serviceVars == <<files, copy, cl, bounds, store, home, safe, fate>>
allVars == <<vars, serviceVars>>

NoCommand == [pc |-> "closed", op |-> "none", key |-> 0, val |-> None,
              list |-> EmptySlaveList, i |-> 0]

ServiceInit ==
    /\ Init
    /\ files = [s \in Slaves |-> NoFiles]
    /\ copy = [s \in Slaves |-> NoRecords]
    /\ cl = NoCommand
    /\ stops = 0 /\ alarms = 0
    /\ store = NoRecords
    /\ home = [k \in Keys |-> NoSlave]
    /\ safe = [k \in Keys |-> {}]
    /\ fate = [k \in Keys |-> "kept"]

-----------------------------------------------------------------------------
(* The slaves' steps on their files.                                       *)

\* What is in backup d of slave s is now in its backup e.
Renamed(backups, s, d, e) == {IF b = <<s, d>> THEN <<s, e>> ELSE b : b \in backups}

\* Node d places after slave s in its own list, and its key.
Node(s, d) == sl[s].nodes[(pos[s] + d) % sl[s].num]

\* The first slave has every record; another one gets its own by CLIP_DATA.
JoinList(s) ==
    /\ Register(s)
    /\ home' = IF crash' = "none" /\ sl'[s].num = 1 THEN [k \in Keys |-> s] ELSE home
    /\ UNCHANGED <<files, copy, cl, bounds, store, safe, fate>>

\* Mutant: the bounds are those of the slave that is asked.
ServeClipDataOwnBounds(t, s) ==
    LET lower_b == Node(t, 0).key
        upper_b == Node(t, 1).key
    IN  /\ ServeSlave(t, s) /\ Head(todo[s]) = -1
        /\ copy' = [copy EXCEPT ![s] = Taken(files[t].db, lower_b, upper_b)]
        /\ files' = [files EXCEPT ![t] = ClipData(@, lower_b, upper_b)]
        /\ home' = [k \in Keys |-> IF home[k] = t /\ SplitTakes(lower_b, k, upper_b)
                                   THEN s ELSE home[k]]
        /\ UNCHANGED <<cl, bounds, store, safe, fate>>

\* CLIP_DATA.  What was in backup1 is now in backup2, and backup1 has what is
\* sent.
ServeClipData(t, s) ==
    LET lower_b == Node(t, 1).key
        upper_b == Node(t, 2).key
        Moved(k) == home[k] = t /\ SplitTakes(lower_b, k, upper_b)
    IN  /\ ServeSlave(t, s) /\ Head(todo[s]) = -1
        /\ copy' = [copy EXCEPT ![s] = Taken(files[t].db, lower_b, upper_b)]
        /\ files' = [files EXCEPT ![t] = ClipData(@, lower_b, upper_b)]
        /\ home' = [k \in Keys |-> IF Moved(k) THEN s ELSE home[k]]
        /\ safe' = [k \in Keys |-> Renamed(safe[k] \ {<<t, 2>>}, t, 1, 2)
                                   \cup (IF Moved(k) THEN {<<t, 1>>} ELSE {})]
        /\ UNCHANGED <<cl, bounds, store, fate>>

\* BACKUP: the file is read and sent block by block.
ServeBackup(t, s) ==
    /\ ServeSlave(t, s) /\ Head(todo[s]) \in {1, 2}
    /\ copy' = [copy EXCEPT ![s] = files[t].db]
    /\ LET b == <<s, Head(todo[s])>> IN
       safe' = [k \in Keys |-> IF home[k] = t THEN safe[k] \cup {b} ELSE safe[k] \ {b}]
    /\ UNCHANGED <<files, cl, bounds, store, home, fate>>

\* UPDATE_BACKUP2.
ServeUpdateBackup2(t, s) ==
    /\ Polling(t) /\ callee[s] = t /\ Head(todo[s]) = -2
    /\ IF UpdateBackup2Faults(files[t]) THEN Die("SIGSEGV") /\ UNCHANGED <<files, safe>>
       ELSE /\ ServeSlave(t, s)
            /\ files' = [files EXCEPT ![t] =
                            UpdateBackup2(@, Node(t, 2).key, Node(t, 3).key)]
            /\ safe' = [k \in Keys |->
                           IF home[k] = Node(t, 2).id THEN Renamed(safe[k] \ {<<t, 2>>}, t, 1, 2)
                           ELSE safe[k] \ {<<t, 2>>}]
    /\ UNCHANGED <<copy, cl, bounds, store, home, fate>>

\* The call returns.  Every call but UPDATE_BACKUP2 brings a file: CLIP_DATA
\* the slave's own, BACKUP a backup.
ReceiveRecords(s) ==
    LET k == Head(todo[s]) IN
    /\ ReceiveFile(s)
    /\ files' = IF k = -2 THEN files
                ELSE [files EXCEPT ![s] = RecvFile(@, IF k = -1 THEN 0 ELSE k, copy[s])]
    /\ copy' = [copy EXCEPT ![s] = NoRecords]
    /\ UNCHANGED <<cl, bounds, store, home, safe, fate>>

\* RM_SLAVE: which neighbour of the slave that leaves this one is.
Role(s) ==
    LET rmpos == Head(toSlave[s]).pos
        num == sl[s].num - 1
        newpos == IF rmpos < pos[s] THEN (pos[s] - 1 + num) % num ELSE pos[s]
    IN  CASE newpos = (rmpos - 1 + num) % num -> "predecessor"
          [] newpos = (rmpos - 2 + num) % num
             /\ newpos # (rmpos - 1 + num) % num -> "second"
          [] OTHER -> "other"

\* The predecessor takes over the records of the slave that leaves, and its
\* backup2 is now its backup1.
MergeBackup1(s) ==
    LET gone == Node(s, 1).id IN
    /\ Polling(s) /\ Got(s, "RM_SLAVE") /\ Role(s) = "predecessor"
    /\ \E fault \in MergeFaults(files[s], {1}) :
          IF fault THEN Die("SIGSEGV") /\ UNCHANGED <<files, home, fate, safe>>
          ELSE /\ HandleRmSlave(s)
               /\ \E f \in SuccessorLeft(files[s]) : files' = [files EXCEPT ![s] = f]
               /\ home' = [k \in Keys |-> IF home[k] = gone THEN s ELSE home[k]]
               /\ fate' = [k \in Keys |->
                              IF home[k] = gone /\ <<s, 1>> \notin safe[k] /\ fate[k] = "kept"
                              THEN "lost" ELSE fate[k]]
               /\ safe' = [k \in Keys |-> Renamed(safe[k] \ {<<s, 1>>}, s, 2, 1)]
    /\ UNCHANGED <<copy, cl, bounds, store>>

\* The second predecessor keeps the records for the predecessor; for any other
\* slave only the list changes.
MergeBackup2(s) ==
    LET second == Role(s) = "second" IN
    /\ Polling(s) /\ Got(s, "RM_SLAVE") /\ Role(s) # "predecessor"
    /\ \E fault \in MergeFaults(files[s], IF second THEN {1, 2} ELSE {}) :
          IF fault THEN Die("SIGSEGV") /\ UNCHANGED <<files, safe>>
          ELSE /\ HandleRmSlave(s)
               /\ \E f \in (IF second THEN SecondSuccessorLeft(files[s]) ELSE {files[s]}) :
                     files' = [files EXCEPT ![s] = f]
               /\ safe' = IF second THEN [k \in Keys |-> Renamed(safe[k], s, 2, 1)] ELSE safe
    /\ UNCHANGED <<copy, cl, bounds, store, home, fate>>

Leave(s) ==
    /\ StopSlave(s) /\ stops < MaxStops
    /\ stops' = stops + 1
    /\ UNCHANGED <<files, copy, cl, alarms, store, home, safe, fate>>

\* The master's alarm, with slaves in the list or without.
RenewBackups ==
    /\ Alarm \/ AlarmOnEmptyList
    /\ alarms < MaxAlarms
    /\ alarms' = alarms + 1
    /\ UNCHANGED <<files, copy, cl, stops, store, home, safe, fate>>

\* Nobody has taken over the records of the last slave.
Exit(s) ==
    /\ ExitSlave(s)
    /\ home' = [k \in Keys |-> IF home[k] = s THEN NoSlave ELSE home[k]]
    /\ fate' = [k \in Keys |-> IF home[k] = s /\ store[k] # None /\ fate[k] = "kept"
                               THEN "lost" ELSE fate[k]]
    /\ UNCHANGED <<files, copy, cl, bounds, store, safe>>

\* The steps of Cluster that do not touch the files.
Start(s) == StartSlave(s) /\ UNCHANGED serviceVars

MasterWorks == MasterStep /\ UNCHANGED serviceVars

SlaveWorks(s) ==
    /\ \/ EnterLoop(s) \/ HandleNewSlave(s) \/ HandleUpdateBackup12(s)
       \/ SendBackupReply(s) \/ CallSlave(s)
    /\ UNCHANGED serviceVars

-----------------------------------------------------------------------------
(* The client.                                                             *)

ClientAt(pc) == crash = "none" /\ cl.pc = pc

\* The client goes on; the servers notice nothing.
Client(c) == cl' = c /\ UNCHANGED <<vars, files, copy, bounds, store, home, safe, fate>>

\* GetSocket, with its assertion, and SendMsg.
Send(c) == [c EXCEPT !.pc = IF c.list.num = 0 THEN "aborted" ELSE "sent", !.i = 0]

\* The slave that the command is sent to.
At == Owner(cl.list, cl.key)

\* A command ends, and the next line is read.
Done == [cl EXCEPT !.pc = "idle", !.op = "none", !.key = 0, !.val = None, !.i = 0]

\* Parse: open, when no database is open (DBCreate).
OpenCommand == ClientAt("closed") /\ Client([cl EXCEPT !.pc = "getlist", !.op = "open"])

\* Parse: exit or quit, when no database is open.
QuitCommand == ClientAt("closed") /\ Client([cl EXCEPT !.pc = "quit"])

\* Parse: close, when a database is open (DBDelete).
CloseCommand == ClientAt("idle") /\ Client([cl EXCEPT !.pc = "closing", !.op = "close"])

\* Parse: set, get and del, when a database is open (DBSetKeyValue,
\* DBGetKeyValue, DBDelKeyValue).
SetCommand(k, v) ==
    /\ ClientAt("idle") /\ "set" \in Commands
    /\ Client(Send([cl EXCEPT !.op = "set", !.key = k, !.val = v]))

GetCommand(k) ==
    /\ ClientAt("idle") /\ "get" \in Commands
    /\ Client(Send([cl EXCEPT !.op = "get", !.key = k]))

DelCommand(k) ==
    /\ ClientAt("idle") /\ "del" \in Commands
    /\ Client(Send([cl EXCEPT !.op = "del", !.key = k]))

\* A connection to a listed slave succeeds until the process has exited: it
\* listens before it registers.
Listening(s) == st[s] # "exited"

\* Mutant: the loop over the nodes goes on where the last one ended.
ReadCloudNodesKeepsI ==
    /\ ClientAt("getlist") /\ MasterFree /\ job = IdleJob
    /\ Client([cl EXCEPT !.pc = "opening", !.list = mlist])

\* ReadCloudNodes: the master answers between two requests.
ReadCloudNodes ==
    /\ ClientAt("getlist") /\ MasterFree /\ job = IdleJob
    /\ Client([cl EXCEPT !.pc = "opening", !.list = mlist, !.i = 0])

\* OpenAllCloudNodes: each node answers when its main thread polls.  One that
\* has exited cannot be reached, or is taken to have answered when recvBuf
\* still has the OPEN_R of the node before.  DBCreate then returns NULL; a
\* command that is done again ignores the failure, and what it does with the
\* sockets of its list is not followed.
OpenNode ==
    LET s == cl.list.nodes[cl.i].id IN
    /\ ClientAt("opening") /\ cl.i < cl.list.num
    /\ \/ /\ Polling(s)
          /\ Client([cl EXCEPT !.i = @ + 1])
       \/ /\ ~Listening(s) /\ cl.i > 0
          /\ Client([cl EXCEPT !.i = @ + 1])
       \/ /\ ~Listening(s)
          /\ Client(IF cl.op = "open" THEN NoCommand ELSE [cl EXCEPT !.pc = "astray"])

\* All nodes are open: DBCreate returns, or the command is done again.
AllOpen ==
    /\ ClientAt("opening") /\ cl.i = cl.list.num
    /\ Client(IF cl.op = "open" THEN Done ELSE Send(cl))

\* Mutant: the version is not compared.
AcceptAnyVersion ==
    /\ ClientAt("sent") /\ Polling(At)
    /\ Client([cl EXCEPT !.pc = "queued"])

\* The main thread of the slave gets the command.  If the client's list is
\* older than its own it answers UPDATE_VERSION.
Accept ==
    /\ ClientAt("sent") /\ Polling(At)
    /\ Client([cl EXCEPT !.pc = IF cl.list.version < sl[At].version THEN "closing"
                                ELSE "queued"])

\* The connection breaks before the answer comes.
ConnectionLost ==
    /\ \/ ClientAt("sent") \/ ClientAt("queued")
    /\ ~Listening(At)
    /\ Client([cl EXCEPT !.pc = "closing"])

\* CloseAllCloudNodes: a node that has exited is passed.
CloseNode ==
    LET s == cl.list.nodes[cl.i].id IN
    /\ ClientAt("closing") /\ cl.i < cl.list.num
    /\ Polling(s) \/ ~Listening(s)
    /\ Client([cl EXCEPT !.i = @ + 1])

\* Mutant: the client sends again without a new list.
AllClosedKeepsList ==
    /\ ClientAt("closing") /\ cl.i = cl.list.num
    /\ Client(IF cl.op = "close" THEN NoCommand
              ELSE [cl EXCEPT !.pc = "opening", !.i = 0])

\* All nodes are closed: DBDelete returns, or they are opened again.
AllClosed ==
    /\ ClientAt("closing") /\ cl.i = cl.list.num
    /\ Client(IF cl.op = "close" THEN NoCommand
              ELSE [cl EXCEPT !.pc = "getlist"])

\* A worker executes the command and answers.  get and del fail when there is
\* no record.  A backup that is being sent has the new record or the old one.
\* When the process is about to exit, the answer may not get out.
Execute ==
    LET s == At
        k == cl.key
        found == files[s].db[k]
        writes == cl.op = "set" \/ (cl.op = "del" /\ found # None)
        to == caller[s]
        sending == to # NoSlave /\ Head(todo[to]) \in {1, 2}
    IN  /\ ClientAt("queued") /\ st[s] \in {"run", "stopping"}
        /\ IF writes
           THEN /\ files' = [files EXCEPT ![s].db[k] = cl.val]
                /\ \E late \in (IF sending THEN BOOLEAN ELSE {FALSE}) :
                      copy' = IF late THEN [copy EXCEPT ![to][k] = cl.val] ELSE copy
                /\ store' = [store EXCEPT ![k] = cl.val]
                /\ safe' = [safe EXCEPT ![k] = {}]
                /\ fate' = [fate EXCEPT ![k] = IF home[k] # s \/ @ = "stray" THEN "stray"
                                               ELSE "kept"]
           ELSE UNCHANGED <<files, copy, store, safe, fate>>
        /\ \E answered \in (IF st[s] = "stopping" THEN BOOLEAN ELSE {TRUE}) :
              cl' = IF answered THEN Done ELSE cl
        /\ UNCHANGED <<vars, bounds, home>>

-----------------------------------------------------------------------------
FileStep(s) == \/ SlaveWorks(s) \/ JoinList(s) \/ ReceiveRecords(s)
               \/ MergeBackup1(s) \/ MergeBackup2(s) \/ Exit(s)
               \/ \E t \in Slaves : \/ ServeClipData(s, t) \/ ServeBackup(s, t)
                                    \/ ServeUpdateBackup2(s, t)

\* What the client's process does by itself.
ClientStep == \/ ReadCloudNodes \/ OpenNode \/ AllOpen \/ ConnectionLost
              \/ CloseNode \/ AllClosed

Input == \/ OpenCommand \/ QuitCommand \/ CloseCommand
         \/ \E k \in Keys : \/ GetCommand(k) \/ DelCommand(k)
                            \/ \E v \in Values : SetCommand(k, v)

ServiceNext == \/ MasterWorks \/ RenewBackups
               \/ \E s \in Slaves : FileStep(s) \/ Start(s) \/ Leave(s)
               \/ Input \/ ClientStep \/ Accept \/ Execute

ServiceSpec == ServiceInit /\ [][ServiceNext]_allVars

\* Every process and thread that can go on goes on.  Nobody has to type a
\* command, to start or stop a slave, and the alarm may stay away.
FairServiceSpec ==
    /\ ServiceSpec
    /\ WF_allVars(MasterWorks) /\ \A s \in Slaves : WF_allVars(FileStep(s))
    /\ WF_allVars(ClientStep) /\ WF_allVars(Accept) /\ WF_allVars(Execute)

-----------------------------------------------------------------------------
\* Types of what Service adds to Cluster.
ServiceTypeOK ==
    /\ files \in [Slaves -> FileStates]
    /\ copy \in [Slaves -> Records]
    /\ cl.pc \in {"closed", "getlist", "opening", "idle", "sent", "queued",
                  "closing", "quit", "aborted", "astray"}
    /\ cl.op \in {"none", "open", "close", "set", "get", "del"}
    /\ cl.i \in 0..cl.list.num /\ IsSlaveList(cl.list, Slaves)
    /\ store \in Records /\ home \in [Keys -> Slaves \cup {NoSlave}]
    /\ safe \in [Keys -> SUBSET (Slaves \X {1, 2})]

\* The records at the home of k: in its a.db, or on their way there.
HomeRecords(k) ==
    LET h == home[k]
        arriving == st[h] = "init" /\ todo[h] # <<>> /\ Head(todo[h]) = -1
    IN  IF arriving THEN copy[h] ELSE files[h].db

\* What a client was told is stored stays stored, at every moment of a join or
\* a departure, unless its slave left before a backup had it or it was executed
\* by a slave that had already passed the record on.
AnswersKept ==
    \A k \in Keys : fate[k] = "kept" =>
        IF home[k] = NoSlave THEN store[k] = None ELSE HomeRecords(k)[k] = store[k]

\* When nothing is under way, the slave that a client with the current list asks
\* has in its a.db what a client was told of the key: SplitByKey and Merge2Files
\* move records as GetSocket routes keys.
RecordsWhereRouted ==
    Quiet /\ mlist.num > 0 => \A k \in Keys :
        fate[k] = "kept" => files[Owner(mlist, k)].db[k] = store[k]

\* When nothing is under way, the backups have what they should: backup1 of the
\* predecessor, and backup2 of the second predecessor, of each slave have the
\* records of that slave that were copied since they were last changed.
BackupsHold ==
    Quiet /\ crash = "none" => \A k \in Keys : fate[k] = "kept" /\ home[k] # NoSlave =>
        LET Pre(d) == mlist.nodes[(pos[home[k]] + mlist.num - d) % mlist.num].id
        IN  \A d \in 1..2 : mlist.num > d /\ <<Pre(d), d>> \in safe[k] =>
                Backup(files[Pre(d)], d)[k] = store[k]

\* A slave queues a command only if it has the record of the key at that
\* moment: the comparison of versions is enough.
AcceptedAtHome ==
    [][cl.pc = "sent" /\ cl'.pc = "queued" => home[cl.key] = At]_allVars

\* Every command of the client returns, however often the slave list changes on
\* the way, unless the client's assertion fails or it is left with a node it
\* could not open, a server process aborts, or a slave hangs in its shutdown
\* because the master does not read its request.
CommandReturns ==
    cl.pc \notin {"closed", "idle", "quit"} ~>
        \/ cl.pc \in {"closed", "idle", "aborted", "astray"}
        \/ crash # "none"
        \/ eintr /\ \E s \in Slaves : st[s] = "stopping"

\* UPDATE_BACKUP2 splits backup1.  In a slave that has merged a backup before,
\* the path is still open under the name that Merge2Files used: this is false.
BackupsOpen == crash # "SIGSEGV"

\* A command that is queued is executed where the record is.  A slave that joins
\* in between takes the record away, and this is false.
ExecutedAtHome == cl.pc = "queued" => home[cl.key] = At
=============================================================================
