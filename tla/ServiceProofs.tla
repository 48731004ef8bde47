---------------------------- MODULE ServiceProofs ----------------------------
(***************************************************************************)
(* Proofs about Service: its steps keep what ClusterProofs proves of the   *)
(* protocol, its variables keep their types, and the records are where the *)
(* clients look for them, with what the clients were told.                 *)
(*                                                                         *)
(* The records of a key are where the master's list routes the key, except *)
(* for a slave that has not been given its records or has been taken over  *)
(* from (Homes); the version of a client's list tells which list of the    *)
(* master's it is (Seen); and what a key holds is in the file of its home  *)
(* and in the predecessor's first backup, or on its way there              *)
(* (RecordsInv).  The second backups need to know whose records each       *)
(* backup has, while no slave has left (Roles), so that no key is in both  *)
(* when they are merged (Separate).                                        *)
(***************************************************************************)
EXTENDS Service, ClusterProofs

-----------------------------------------------------------------------------
(* The whole service.  Its steps are steps of the membership protocol,     *)
(* steps that the protocol does not notice, and the faults of a merge.     *)

Faults == Die("SIGSEGV")

LEMMA FileStepIsSlaves ==
    ASSUME NEW s \in Slaves, FileStep(s)
    PROVE  SlaveStep(s) \/ Faults
<1>1. CASE SlaveWorks(s)
    BY <1>1 DEF SlaveWorks, SlaveStep
<1>2. CASE JoinList(s)
    BY <1>2 DEF JoinList, SlaveStep
<1>3. CASE ReceiveRecords(s)
    BY <1>3 DEF ReceiveRecords, SlaveStep
<1>4. CASE MergeBackup1(s)
  <2>1. HandleRmSlave(s) \/ Faults
      BY <1>4 DEF MergeBackup1, Faults
  <2> QED
      BY <2>1 DEF SlaveStep
<1>5. CASE MergeBackup2(s)
  <2>1. HandleRmSlave(s) \/ Faults
      BY <1>5 DEF MergeBackup2, Faults
  <2> QED
      BY <2>1 DEF SlaveStep
<1>6. CASE Exit(s)
    BY <1>6 DEF Exit, SlaveStep
<1>7. ASSUME NEW t \in Slaves, ServeClipData(s, t) \/ ServeBackup(s, t)
      PROVE  SlaveStep(s)
    BY <1>7 DEF ServeClipData, ServeBackup, SlaveStep
<1>8. ASSUME NEW t \in Slaves, ServeUpdateBackup2(s, t)
      PROVE  SlaveStep(s) \/ Faults
    BY <1>8 DEF ServeUpdateBackup2, Faults, SlaveStep
<1> QED
    BY <1>1, <1>2, <1>3, <1>4, <1>5, <1>6, <1>7, <1>8 DEF FileStep

\* The client's steps, and a worker's, are their own.
LEMMA ClientAlone ==
    ASSUME Input \/ ClientStep \/ Accept \/ Execute
    PROVE  UNCHANGED vars /\ home' = home
<1>1. CASE Input
    BY <1>1 DEF Input, OpenCommand, QuitCommand, CloseCommand, GetCommand, DelCommand,
                SetCommand, Client
<1>2. CASE ClientStep
    BY <1>2 DEF ClientStep, ReadCloudNodes, OpenNode, AllOpen, ConnectionLost, CloseNode,
                AllClosed, Client
<1>3. CASE Accept
    BY <1>3 DEF Accept, Client
<1>4. CASE Execute
    BY <1>4 DEF Execute
<1> QED
    BY <1>1, <1>2, <1>3, <1>4

LEMMA ServiceSteps ==
    ASSUME ServiceNext
    PROVE  Next \/ UNCHANGED vars \/ Faults
<1>1. CASE MasterWorks \/ RenewBackups
    BY <1>1 DEF MasterWorks, RenewBackups, Next
<1>2. ASSUME NEW s \in Slaves, Start(s) \/ Leave(s)
      PROVE  Next
    BY <1>2 DEF Start, Leave, Next
<1>3. ASSUME NEW s \in Slaves, FileStep(s)
      PROVE  Next \/ Faults
    BY <1>3, FileStepIsSlaves DEF Next
<1>4. CASE Input \/ ClientStep \/ Accept \/ Execute
    BY <1>4, ClientAlone
<1> QED
    BY <1>1, <1>2, <1>3, <1>4 DEF ServiceNext

LEMMA ServiceKeepsCluster ==
    ASSUME ClusterInv, [ServiceNext]_allVars
    PROVE  ClusterInv'
<1>1. CASE Next \/ UNCHANGED vars
    BY <1>1, NextInv
<1>2. CASE Faults
    BY <1>2, NothingMoves DEF Faults, Die
<1>3. UNCHANGED allVars => UNCHANGED vars
    BY DEF allVars
<1> QED
    BY <1>1, <1>2, <1>3, ServiceSteps

\* The protocol keeps its order whatever is done to the files in it, also when
\* a merge faults: the theorems above hold in the whole service.
THEOREM ServiceProtocol == ServiceSpec => []ClusterInv
<1>1. ServiceInit => ClusterInv
    BY InitInv DEF ServiceInit
<1> QED
    BY <1>1, ServiceKeepsCluster, PTL DEF ServiceSpec

-----------------------------------------------------------------------------
(* The operations on the files of a slave keep their types.                *)

LEMMA FreeInode ==
    ASSUME NEW f \in FileStates
    PROVE  \E n \in Inodes \ Used(f) : \A m \in Inodes \ Used(f) : n <= m
<1>1. PICK a, b, c, d : Used(f) = {a, b, c, d}
    BY DEF Used
<1>2. PICK U : U = Used(f)
    OBVIOUS
<1>3. \E n \in 1..5 : n \notin U
    BY <1>1, <1>2
<1>4. CASE 1 \notin U
    BY <1>2, <1>4 DEF Inodes
<1>5. CASE 1 \in U /\ 2 \notin U
    BY <1>2, <1>5 DEF Inodes
<1>6. CASE 1 \in U /\ 2 \in U /\ 3 \notin U
    BY <1>2, <1>6 DEF Inodes
<1>7. CASE 1 \in U /\ 2 \in U /\ 3 \in U /\ 4 \notin U
    BY <1>2, <1>7 DEF Inodes
<1>8. CASE 1 \in U /\ 2 \in U /\ 3 \in U /\ 4 \in U /\ 5 \notin U
    BY <1>2, <1>8 DEF Inodes
<1> QED
    BY <1>3, <1>4, <1>5, <1>6, <1>7, <1>8

\* A new file gets a number that is free.
LEMMA NewFileType ==
    ASSUME NEW f \in FileStates, NEW d \in 1..2, NEW recs \in Records
    PROVE  /\ NewFile(f, d, recs) \in FileStates
           /\ NewFile(f, d, recs).dir[d] \in Inodes
<1>1. PICK n : n = CHOOSE i \in Inodes \ Used(f) : \A j \in Inodes \ Used(f) : i <= j
    OBVIOUS
<1>2. n \in Inodes
    BY <1>1, FreeInode
<1>3. NewFile(f, d, recs) = [f EXCEPT !.dir[d] = n, !.data[n] = recs]
    BY <1>1 DEF NewFile
<1>4. PICK dir, data : dir = [f.dir EXCEPT ![d] = n] /\ data = [f.data EXCEPT ![n] = recs]
    OBVIOUS
<1>5. /\ dir \in [1..2 -> Inodes \cup {0}] /\ dir[d] \in Inodes
      /\ data \in [Inodes -> Records]
    BY <1>2, <1>4 DEF FileStates
<1>6. NewFile(f, d, recs) = [f EXCEPT !.dir = dir, !.data = data]
    BY <1>3, <1>4 DEF FileStates
<1> QED
    BY <1>5, <1>6 DEF FileStates

LEMMA NoRecordsType == NoRecords \in Records
    BY DEF NoRecords, Records

LEMMA CollectType ==
    ASSUME NEW f \in FileStates
    PROVE  Collect(f) \in FileStates
<1>1. [n \in Inodes |-> IF n \in Used(f) THEN f.data[n] ELSE NoRecords] \in [Inodes -> Records]
    BY NoRecordsType DEF FileStates
<1>2. f.torn \cap Used(f) \in SUBSET Inodes
    BY DEF FileStates
<1> QED
    BY <1>1, <1>2 DEF Collect, FileStates

LEMMA MoveType ==
    ASSUME NEW f \in FileStates, NEW d \in 1..2, NEW e \in 1..2
    PROVE  Move(f, d, e) \in FileStates /\ Remove(f, d) \in FileStates
    BY DEF Move, Remove, FileStates

LEMMA BackupType ==
    ASSUME NEW f \in FileStates, NEW d \in 1..2
    PROVE  Backup(f, d) \in Records
    BY NoRecordsType DEF Backup, FileStates

LEMMA RecvFileType ==
    ASSUME NEW f \in FileStates, NEW d \in 0..2, NEW recs \in Records
    PROVE  RecvFile(f, d, recs) \in FileStates
<1>1. CASE d = 0
    BY <1>1 DEF RecvFile, FileStates
<1>2. CASE d # 0 /\ f.dir[d] = 0
    BY <1>2, NewFileType DEF RecvFile
<1>3. CASE d # 0 /\ f.dir[d] # 0
  <2>1. f.dir[d] \in Inodes
      BY <1>3 DEF FileStates
  <2>2. RecvFile(f, d, recs) =
           [f EXCEPT !.data[f.dir[d]] = recs,
                     !.torn = @ \cup ({f.dir[d]} \cap {f.held[1], f.held[2]})]
      BY <1>3 DEF RecvFile
  <2>3. PICK data, torn : /\ data = [f.data EXCEPT ![f.dir[d]] = recs]
                          /\ torn = f.torn \cup ({f.dir[d]} \cap {f.held[1], f.held[2]})
      OBVIOUS
  <2>4. data \in [Inodes -> Records] /\ torn \in SUBSET Inodes
      BY <2>1, <2>3 DEF FileStates
  <2>5. RecvFile(f, d, recs) = [f EXCEPT !.data = data, !.torn = torn]
      BY <2>2, <2>3 DEF FileStates
  <2> QED
      BY <2>4, <2>5 DEF FileStates
<1> QED
    BY <1>1, <1>2, <1>3

LEMMA SplitType ==
    ASSUME NEW recs \in Records, NEW lower_b, NEW upper_b
    PROVE  Taken(recs, lower_b, upper_b) \in Records /\ Kept(recs, lower_b, upper_b) \in Records
    BY DEF Taken, Kept, Records

LEMMA ClipDataType ==
    ASSUME NEW f \in FileStates, NEW lower_b, NEW upper_b
    PROVE  ClipData(f, lower_b, upper_b) \in FileStates
<1>1. PICK g : g = [Move(f, 1, 2) EXCEPT !.db = Kept(f.db, lower_b, upper_b)]
    OBVIOUS
<1>2. f.db \in Records /\ Move(f, 1, 2) \in FileStates
    BY MoveType DEF FileStates
<1>3. g \in FileStates
    BY <1>1, <1>2, SplitType DEF FileStates
<1>4. NewFile(g, 1, Taken(f.db, lower_b, upper_b)) \in FileStates
    BY <1>2, <1>3, SplitType, NewFileType
<1> QED
    BY <1>1, <1>4, CollectType DEF ClipData

LEMMA UpdateBackup2Type ==
    ASSUME NEW f \in FileStates, NEW lower_b, NEW upper_b
    PROVE  UpdateBackup2(f, lower_b, upper_b) \in FileStates
<1>1. PICK old, g : old = Backup(f, 1) /\ g = Remove(f, 2)
    OBVIOUS
<1>2. old \in Records /\ g \in FileStates
    BY <1>1, BackupType, MoveType
<1>3. PICK h : h = RecvFile(g, 1, Kept(old, lower_b, upper_b))
    OBVIOUS
<1>4. h \in FileStates
    BY <1>2, <1>3, RecvFileType, SplitType
<1>5. NewFile(h, 2, Taken(old, lower_b, upper_b)) \in FileStates
    BY <1>2, <1>4, NewFileType, SplitType
<1>6. UpdateBackup2(f, lower_b, upper_b) = Collect(NewFile(h, 2, Taken(old, lower_b, upper_b)))
    BY <1>1, <1>3 DEF UpdateBackup2
<1> QED
    BY <1>5, <1>6, CollectType

LEMMA OpenBackupType ==
    ASSUME NEW f \in FileStates, NEW d \in 1..2
    PROVE  OpenBackup(f, d) \in FileStates /\ OpenBackup(f, d).held[d] \in Inodes
<1>1. CASE f.held[d] # 0
    BY <1>1 DEF OpenBackup, FileStates
<1>2. CASE f.held[d] = 0
  <2>1. PICK g : g = IF f.dir[d] = 0 THEN NewFile(f, d, NoRecords) ELSE f
      OBVIOUS
  <2>2. g \in FileStates /\ g.dir[d] \in Inodes
      BY <2>1, NewFileType, NoRecordsType DEF FileStates
  <2>3. OpenBackup(f, d) = [g EXCEPT !.held[d] = g.dir[d]]
      BY <1>2, <2>1 DEF OpenBackup
  <2> QED
      BY <2>2, <2>3 DEF FileStates
<1> QED
    BY <1>1, <1>2

LEMMA PutAllType ==
    ASSUME NEW old \in Records, NEW new \in Records
    PROVE  PutAll(old, new) \in Records
    BY DEF PutAll, Records

LEMMA MergeTypes ==
    ASSUME NEW f \in FileStates
    PROVE  MergeIntoDB(f, 1) \subseteq FileStates /\ MergeBackups(f) \subseteq FileStates
<1>1. ASSUME NEW h \in MergeIntoDB(f, 1) PROVE h \in FileStates
  <2>1. PICK g : g = OpenBackup(f, 1)
      OBVIOUS
  <2>2. g \in FileStates /\ g.held[1] \in Inodes
      BY <2>1, OpenBackupType
  <2>3. PICK recs \in Found(g, g.held[1]) :
           h = [g EXCEPT !.db = PutAll(@, recs), !.data[g.held[1]] = NoRecords]
      BY <1>1, <2>1 DEF MergeIntoDB
  <2>4. recs \in Records /\ PutAll(g.db, recs) \in Records
      BY <2>2, PutAllType DEF Found, FileStates
  <2> QED
      BY <2>2, <2>3, <2>4, NoRecordsType DEF FileStates
<1>2. ASSUME NEW h \in MergeBackups(f) PROVE h \in FileStates
  <2>1. PICK e, g : e = OpenBackup(f, 2) /\ g = OpenBackup(e, 1)
      OBVIOUS
  <2>2. e \in FileStates /\ g \in FileStates /\ g.held[1] \in Inodes
      BY <2>1, OpenBackupType
  <2>3. PICK recs \in Found(g, g.held[2]) :
           h = [g EXCEPT !.data[g.held[2]] = NoRecords,
                         !.data[g.held[1]] = PutAll(g.data[g.held[1]], recs)]
      BY <1>2, <2>1 DEF MergeBackups
  <2>4. recs \in Records /\ PutAll(g.data[g.held[1]], recs) \in Records
      BY <2>2, PutAllType DEF Found, FileStates
  <2> QED
      BY <2>2, <2>3, <2>4, NoRecordsType DEF FileStates
<1> QED
    BY <1>1, <1>2

LEMMA LeftTypes ==
    ASSUME NEW f \in FileStates
    PROVE  SuccessorLeft(f) \subseteq FileStates /\ SecondSuccessorLeft(f) \subseteq FileStates
<1>1. ASSUME NEW h \in SuccessorLeft(f) PROVE h \in FileStates
    BY <1>1, MergeTypes, MoveType, CollectType DEF SuccessorLeft
<1>2. ASSUME NEW h \in SecondSuccessorLeft(f) PROVE h \in FileStates
    BY <1>2, MergeTypes, MoveType, CollectType DEF SecondSuccessorLeft
<1> QED
    BY <1>1, <1>2

LEMMA NoFilesType == NoFiles \in FileStates
    BY NoRecordsType DEF NoFiles, FileStates, Inodes

-----------------------------------------------------------------------------
(* The client.                                                             *)

Operations == {"set", "get", "del"}

\* Where the client can be with its command, and with what list.
ClientTypes(c) ==
    /\ c = [pc |-> c.pc, op |-> c.op, key |-> c.key, val |-> c.val, list |-> c.list,
            i |-> c.i]
    /\ c.pc \in {"closed", "getlist", "opening", "idle", "sent", "queued",
                 "closing", "quit", "aborted", "astray"}
    /\ c.op \in Operations \cup {"none", "open", "close"}
    /\ c.pc \in {"getlist", "opening"} => c.op \in Operations \cup {"open"}
    /\ c.pc = "closing" => c.op \in Operations \cup {"close"}
    /\ c.pc \in {"sent", "queued"} => c.op \in Operations /\ c.list.num > 0
    /\ c.op \in Operations => c.key \in Keys
    /\ c.val \in Values \cup {None}
    /\ IsSlaveList(c.list, Slaves) /\ Ordered(c.list)
    /\ c.i \in 0..c.list.num

LEMMA NoCommandTypes == ClientTypes(NoCommand)
    BY EmptyOrdered DEF NoCommand, ClientTypes, Operations, EmptySlaveList

\* A step that keeps the list.
LEMMA SameListTypes ==
    ASSUME ClientTypes(cl), NEW c,
           c = [pc |-> c.pc, op |-> c.op, key |-> c.key, val |-> c.val, list |-> cl.list,
                i |-> c.i],
           c.pc \in {"closed", "getlist", "opening", "idle", "sent", "queued",
                     "closing", "quit", "aborted", "astray"},
           c.op \in Operations \cup {"none", "open", "close"},
           c.pc \in {"getlist", "opening"} => c.op \in Operations \cup {"open"},
           c.pc = "closing" => c.op \in Operations \cup {"close"},
           c.pc \in {"sent", "queued"} => c.op \in Operations /\ cl.list.num > 0,
           c.op \in Operations => c.key \in Keys,
           c.val \in Values \cup {None},
           c.i \in 0..cl.list.num
    PROVE  ClientTypes(c)
<1>1. PICK l : l = cl.list
    OBVIOUS
<1>2. IsSlaveList(l, Slaves) /\ Ordered(l) /\ c.list = l
    BY <1>1 DEF ClientTypes
<1> QED
    BY <1>1, <1>2 DEF ClientTypes

LEMMA SendTypes ==
    ASSUME ClientTypes(cl), NEW op \in Operations, NEW k \in Keys, NEW v \in Values \cup {None},
           NEW c, c = [cl EXCEPT !.op = op, !.key = k, !.val = v]
    PROVE  ClientTypes(Send(c))
<1>1. cl.list.num \in Nat
    BY DEF ClientTypes, IsSlaveList
<1>2. PICK d : d = Send(c)
    OBVIOUS
<1>3. cl = [pc |-> cl.pc, op |-> cl.op, key |-> cl.key, val |-> cl.val, list |-> cl.list,
            i |-> cl.i]
    BY DEF ClientTypes
<1>4. /\ d = [pc |-> d.pc, op |-> op, key |-> k, val |-> v, list |-> cl.list, i |-> 0]
      /\ d.pc = IF cl.list.num = 0 THEN "aborted" ELSE "sent"
    BY <1>2, <1>3 DEF Send
<1> QED
    BY <1>1, <1>2, <1>4, SameListTypes DEF Operations

LEMMA InputTypes ==
    ASSUME ClientTypes(cl), Input
    PROVE  ClientTypes(cl')
<1>1. /\ cl = [pc |-> cl.pc, op |-> cl.op, key |-> cl.key, val |-> cl.val, list |-> cl.list,
               i |-> cl.i]
      /\ cl.list.num \in Nat /\ cl.i \in 0..cl.list.num /\ cl.val \in Values \cup {None}
    BY DEF ClientTypes, IsSlaveList
<1>2. CASE OpenCommand \/ QuitCommand \/ CloseCommand
  <2>1. PICK pc, op : cl' = [cl EXCEPT !.pc = pc, !.op = op]
                      /\ (\/ pc = "getlist" /\ op = "open"
                          \/ pc = "quit" /\ op = cl.op /\ cl.pc = "closed"
                          \/ pc = "closing" /\ op = "close")
      BY <1>1, <1>2 DEF OpenCommand, QuitCommand, CloseCommand, Client, ClientAt
  <2>2. PICK d : d = [cl EXCEPT !.pc = pc, !.op = op]
      OBVIOUS
  <2>3. d = [pc |-> pc, op |-> op, key |-> cl.key, val |-> cl.val, list |-> cl.list,
             i |-> cl.i]
      BY <1>1, <2>2
  <2>4. /\ pc \in {"getlist", "quit", "closing"}
        /\ op \in Operations \cup {"none", "open", "close"}
        /\ pc = "getlist" => op = "open"
        /\ pc = "closing" => op = "close"
        /\ op \in Operations => cl.key \in Keys
      BY <2>1 DEF ClientTypes, Operations
  <2>5. ClientTypes(d)
      BY <1>1, <2>3, <2>4, SameListTypes
  <2> QED
      BY <2>1, <2>2, <2>5
<1>3. ASSUME NEW k \in Keys, GetCommand(k) \/ DelCommand(k)
      PROVE  ClientTypes(cl')
  <2>1. PICK op \in {"get", "del"} : cl' = Send([cl EXCEPT !.op = op, !.key = k])
      BY <1>3 DEF GetCommand, DelCommand, Client
  <2>2. PICK c, v : c = [cl EXCEPT !.op = op, !.key = k] /\ v = cl.val
      OBVIOUS
  <2>3. c = [cl EXCEPT !.op = op, !.key = k, !.val = v]
      BY <1>1, <2>2
  <2>4. op \in Operations /\ v \in Values \cup {None}
      BY <1>1, <2>2 DEF Operations
  <2>5. ClientTypes(Send(c))
      BY <2>3, <2>4, SendTypes
  <2> QED
      BY <2>1, <2>2, <2>5
<1>4. ASSUME NEW k \in Keys, NEW v \in Values, SetCommand(k, v)
      PROVE  ClientTypes(cl')
    BY <1>4, SendTypes DEF SetCommand, Client, Operations
<1> QED
    BY <1>2, <1>3, <1>4 DEF Input

LEMMA DoneTypes == ClientTypes(cl) => ClientTypes(Done)
<1> SUFFICES ASSUME ClientTypes(cl)
             PROVE  ClientTypes(Done)
    OBVIOUS
<1>1. /\ cl = [pc |-> cl.pc, op |-> cl.op, key |-> cl.key, val |-> cl.val, list |-> cl.list,
               i |-> cl.i]
      /\ cl.list.num \in Nat
    BY DEF ClientTypes, IsSlaveList
<1>2. PICK d : d = Done
    OBVIOUS
<1>3. d = [pc |-> "idle", op |-> "none", key |-> 0, val |-> None, list |-> cl.list, i |-> 0]
    BY <1>1, <1>2 DEF Done
<1> QED
    BY <1>1, <1>2, <1>3, SameListTypes DEF Operations

\* A step within the loops over the nodes, or to another place.
LEMMA ProgressTypes ==
    ASSUME ClientTypes(cl), cl.op \in Operations \cup {"open", "close"},
           NEW pc \in {"getlist", "opening", "sent", "queued", "closing", "astray", "aborted"},
           pc \in {"getlist", "opening"} => cl.op \in Operations \cup {"open"},
           pc = "closing" => cl.op \in Operations \cup {"close"},
           pc \in {"sent", "queued"} => cl.op \in Operations /\ cl.list.num > 0,
           NEW i \in 0..cl.list.num
    PROVE  ClientTypes([cl EXCEPT !.pc = pc, !.i = i])
<1>1. /\ cl = [pc |-> cl.pc, op |-> cl.op, key |-> cl.key, val |-> cl.val, list |-> cl.list,
               i |-> cl.i]
      /\ cl.val \in Values \cup {None}
      /\ cl.op \in Operations => cl.key \in Keys
    BY DEF ClientTypes
<1>2. PICK d : d = [cl EXCEPT !.pc = pc, !.i = i]
    OBVIOUS
<1>3. d = [pc |-> pc, op |-> cl.op, key |-> cl.key, val |-> cl.val, list |-> cl.list, i |-> i]
    BY <1>1, <1>2
<1> QED
    BY <1>1, <1>2, <1>3, SameListTypes

\* What ServiceTypeOK says, with what the client needs to keep it.
ServiceTypes ==
    /\ files \in [Slaves -> FileStates]
    /\ copy \in [Slaves -> Records]
    /\ ClientTypes(cl)
    /\ store \in Records /\ home \in [Keys -> Slaves \cup {NoSlave}]
    /\ safe \in [Keys -> SUBSET (Slaves \X {1, 2})]

LEMMA ClientStepTypes ==
    ASSUME ClientTypes(cl), MasterInv, ClientStep \/ Accept
    PROVE  ClientTypes(cl')
<1>1. /\ cl = [pc |-> cl.pc, op |-> cl.op, key |-> cl.key, val |-> cl.val, list |-> cl.list,
               i |-> cl.i]
      /\ cl.list.num \in Nat /\ cl.i \in 0..cl.list.num /\ 0 \in 0..cl.list.num
    BY DEF ClientTypes, IsSlaveList
<1>2. CASE ReadCloudNodes
  <2>1. cl.pc = "getlist" /\ cl' = [cl EXCEPT !.pc = "opening", !.list = mlist, !.i = 0]
      BY <1>2 DEF ReadCloudNodes, Client, ClientAt
  <2>2. PICK d : d = [cl EXCEPT !.pc = "opening", !.list = mlist, !.i = 0]
      OBVIOUS
  <2>3. d = [pc |-> "opening", op |-> cl.op, key |-> cl.key, val |-> cl.val, list |-> mlist,
             i |-> 0]
      BY <1>1, <2>2
  <2>4. /\ cl.op \in Operations \cup {"open"} /\ cl.val \in Values \cup {None}
        /\ cl.op \in Operations => cl.key \in Keys
      BY <2>1 DEF ClientTypes
  <2>5. IsSlaveList(mlist, Slaves) /\ Ordered(mlist) /\ 0 \in 0..mlist.num
      BY DEF MasterInv, IsSlaveList
  <2>6. ClientTypes(d)
      BY <2>3, <2>4, <2>5 DEF ClientTypes
  <2> QED
      BY <2>1, <2>2, <2>6
<1>3. CASE OpenNode
  <2>1. cl.pc = "opening" /\ cl.i < cl.list.num
      BY <1>3 DEF OpenNode, ClientAt
  <2>2. cl.op \in Operations \cup {"open"}
      BY <2>1 DEF ClientTypes
  <2>3. \/ cl' = [cl EXCEPT !.i = @ + 1]
        \/ cl' = NoCommand
        \/ cl' = [cl EXCEPT !.pc = "astray"]
      BY <1>3 DEF OpenNode, Client
  <2>4. cl.i + 1 \in 0..cl.list.num
      BY <1>1, <2>1
  <2>5. /\ [cl EXCEPT !.i = @ + 1] = [cl EXCEPT !.pc = "opening", !.i = cl.i + 1]
        /\ [cl EXCEPT !.pc = "astray"] = [cl EXCEPT !.pc = "astray", !.i = cl.i]
      BY <1>1, <2>1
  <2>6. /\ ClientTypes([cl EXCEPT !.pc = "opening", !.i = cl.i + 1])
        /\ ClientTypes([cl EXCEPT !.pc = "astray", !.i = cl.i])
      BY <1>1, <2>2, <2>4, ProgressTypes
  <2> QED
      BY <2>3, <2>5, <2>6, NoCommandTypes
<1>4. CASE AllOpen
  <2>1. cl.pc = "opening" /\ cl' = IF cl.op = "open" THEN Done ELSE Send(cl)
      BY <1>4 DEF AllOpen, ClientAt, Client
  <2>2. cl.op \in Operations \cup {"open"}
      BY <2>1 DEF ClientTypes
  <2>3. PICK pc : pc = IF cl.list.num = 0 THEN "aborted" ELSE "sent"
      OBVIOUS
  <2>4. Send(cl) = [cl EXCEPT !.pc = pc, !.i = 0]
      BY <2>3 DEF Send
  <2>5. cl.op # "open" => ClientTypes([cl EXCEPT !.pc = pc, !.i = 0])
    <3> SUFFICES ASSUME cl.op # "open"
                 PROVE  ClientTypes([cl EXCEPT !.pc = pc, !.i = 0])
        OBVIOUS
    <3>1. /\ pc \in {"getlist", "opening", "sent", "queued", "closing", "astray", "aborted"}
          /\ pc \in {"sent", "queued"} => cl.list.num > 0
          /\ pc \notin {"getlist", "opening", "closing"}
          /\ cl.op \in Operations
        BY <1>1, <2>2, <2>3
    <3> QED
        BY <1>1, <3>1, ProgressTypes
  <2> QED
      BY <2>1, <2>4, <2>5, DoneTypes
<1>5. CASE ConnectionLost \/ Accept
  <2>1. PICK pc \in {"closing", "queued"} :
              cl.pc \in {"sent", "queued"} /\ cl' = [cl EXCEPT !.pc = pc]
      BY <1>5 DEF ConnectionLost, Accept, ClientAt, Client
  <2>2. cl.op \in Operations /\ cl.list.num > 0
      BY <2>1 DEF ClientTypes
  <2>3. [cl EXCEPT !.pc = pc] = [cl EXCEPT !.pc = pc, !.i = cl.i]
      BY <1>1
  <2>4. ClientTypes([cl EXCEPT !.pc = pc, !.i = cl.i])
      BY <1>1, <2>2, ProgressTypes
  <2> QED
      BY <2>1, <2>3, <2>4
<1>6. CASE CloseNode \/ AllClosed
  <2>1. cl.pc = "closing"
      BY <1>6 DEF CloseNode, AllClosed, ClientAt
  <2>2. cl.op \in Operations \cup {"close"}
      BY <2>1 DEF ClientTypes
  <2>3. CASE CloseNode
    <3>1. cl' = [cl EXCEPT !.i = @ + 1] /\ cl.i < cl.list.num
        BY <2>3 DEF CloseNode, Client
    <3>2. [cl EXCEPT !.i = @ + 1] = [cl EXCEPT !.pc = "closing", !.i = cl.i + 1]
        BY <1>1, <2>1
    <3>3. cl.i + 1 \in 0..cl.list.num
        BY <1>1, <3>1
    <3>4. ClientTypes([cl EXCEPT !.pc = "closing", !.i = cl.i + 1])
        BY <2>2, <3>3, ProgressTypes
    <3> QED
        BY <3>1, <3>2, <3>4
  <2>4. CASE AllClosed
    <3>1. cl' = IF cl.op = "close" THEN NoCommand ELSE [cl EXCEPT !.pc = "getlist"]
        BY <2>4 DEF AllClosed, Client
    <3>2. [cl EXCEPT !.pc = "getlist"] = [cl EXCEPT !.pc = "getlist", !.i = cl.i]
        BY <1>1
    <3>3. cl.op # "close" => ClientTypes([cl EXCEPT !.pc = "getlist", !.i = cl.i])
        BY <1>1, <2>2, ProgressTypes
    <3> QED
        BY <3>1, <3>2, <3>3, NoCommandTypes
  <2> QED
      BY <1>6, <2>3, <2>4
<1> QED
    BY <1>2, <1>3, <1>4, <1>5, <1>6 DEF ClientStep

-----------------------------------------------------------------------------
(* The types of the files and of what is on its way.                       *)

\* Of the files of one slave, only its new ones need looking at.
LEMMA OneFile ==
    ASSUME files \in [Slaves -> FileStates], NEW s, NEW f \in FileStates,
           files' = [files EXCEPT ![s] = f]
    PROVE  files' \in [Slaves -> FileStates]
    OBVIOUS

LEMMA OneCopy ==
    ASSUME copy \in [Slaves -> Records], NEW s, NEW recs \in Records,
           copy' = [copy EXCEPT ![s] = recs]
    PROVE  copy' \in [Slaves -> Records]
    OBVIOUS

LEMMA RenamedTypes ==
    ASSUME NEW b \in SUBSET (Slaves \X {1, 2}), NEW s \in Slaves,
           NEW d \in {1, 2}, NEW e \in {1, 2}
    PROVE  Renamed(b, s, d, e) \in SUBSET (Slaves \X {1, 2})
    BY DEF Renamed

LEMMA SafeTypes ==
    ASSUME ServiceTypes, NEW k \in Keys, NEW s \in Slaves,
           NEW d \in {1, 2}, NEW e \in {1, 2}
    PROVE  /\ Renamed(safe[k], s, d, e) \in SUBSET (Slaves \X {1, 2})
           /\ Renamed(safe[k] \ {<<s, e>>}, s, d, e) \in SUBSET (Slaves \X {1, 2})
           /\ safe[k] \cup {<<s, d>>} \in SUBSET (Slaves \X {1, 2})
           /\ safe[k] \ {<<s, d>>} \in SUBSET (Slaves \X {1, 2})
<1>1. /\ safe[k] \in SUBSET (Slaves \X {1, 2})
      /\ safe[k] \ {<<s, e>>} \in SUBSET (Slaves \X {1, 2})
    BY DEF ServiceTypes
<1>2. /\ Renamed(safe[k], s, d, e) \in SUBSET (Slaves \X {1, 2})
      /\ Renamed(safe[k] \ {<<s, e>>}, s, d, e) \in SUBSET (Slaves \X {1, 2})
    BY <1>1, RenamedTypes
<1>3. /\ safe[k] \cup {<<s, d>>} \in SUBSET (Slaves \X {1, 2})
      /\ safe[k] \ {<<s, d>>} \in SUBSET (Slaves \X {1, 2})
    BY <1>1
<1> QED
    BY <1>2, <1>3

LEMMA JoinTypes ==
    ASSUME ServiceTypes, NEW s \in Slaves, JoinList(s) \/ Exit(s)
    PROVE  ServiceTypes'
    BY NoSlaveAssumption DEF JoinList, Exit, ServiceTypes, ClientTypes

LEMMA ClipTypes ==
    ASSUME ServiceTypes, NEW t \in Slaves, NEW s \in Slaves, ServeClipData(t, s)
    PROVE  ServiceTypes'
<1>1. PICK lower_b, upper_b :
          /\ copy' = [copy EXCEPT ![s] = Taken(files[t].db, lower_b, upper_b)]
          /\ files' = [files EXCEPT ![t] = ClipData(files[t], lower_b, upper_b)]
          /\ \A k \in Keys : home'[k] = IF home[k] = t /\ SplitTakes(lower_b, k, upper_b)
                                        THEN s ELSE home[k]
          /\ home' \in [Keys -> Slaves \cup {NoSlave}]
          /\ \A k \in Keys : safe'[k] \in SUBSET (Slaves \X {1, 2})
          /\ DOMAIN safe' = Keys /\ safe' = [k \in Keys |-> safe'[k]]
          /\ cl' = cl /\ store' = store
  <2>1. ASSUME NEW k \in Keys
        PROVE  /\ Renamed(safe[k] \ {<<t, 2>>}, t, 1, 2) \in SUBSET (Slaves \X {1, 2})
               /\ Renamed(safe[k] \ {<<t, 2>>}, t, 1, 2) \cup {<<t, 1>>}
                     \in SUBSET (Slaves \X {1, 2})
      BY SafeTypes, <2>1 DEF ServiceTypes
  <2> QED
      BY <2>1 DEF ServeClipData, ServiceTypes
<1>2. files[t] \in FileStates /\ files[t].db \in Records
    BY DEF ServiceTypes, FileStates
<1>3. copy' \in [Slaves -> Records]
    BY <1>1, <1>2, SplitType, OneCopy DEF ServiceTypes
<1>4. files' \in [Slaves -> FileStates]
    BY <1>1, <1>2, ClipDataType, OneFile DEF ServiceTypes
<1> QED
    BY <1>1, <1>3, <1>4 DEF ServiceTypes, ClientTypes

LEMMA BackupTypes ==
    ASSUME ServiceTypes, NEW t \in Slaves, NEW s \in Slaves, ServeBackup(t, s)
    PROVE  ServiceTypes'
<1>1. files[t].db \in Records
    BY DEF ServiceTypes, FileStates
<1>2. copy' \in [Slaves -> Records]
    BY <1>1, OneCopy DEF ServeBackup, ServiceTypes
<1>3. Head(todo[s]) \in {1, 2}
    BY DEF ServeBackup
<1>4. ASSUME NEW k \in Keys
      PROVE  /\ safe[k] \cup {<<s, Head(todo[s])>>} \in SUBSET (Slaves \X {1, 2})
             /\ safe[k] \ {<<s, Head(todo[s])>>} \in SUBSET (Slaves \X {1, 2})
    BY <1>3, SafeTypes DEF ServiceTypes
<1>5. safe' \in [Keys -> SUBSET (Slaves \X {1, 2})]
    BY <1>4 DEF ServeBackup
<1> QED
    BY <1>2, <1>5 DEF ServeBackup, ServiceTypes, ClientTypes

LEMMA UpdateTypes ==
    ASSUME ServiceTypes, NEW t \in Slaves, NEW s \in Slaves, ServeUpdateBackup2(t, s)
    PROVE  ServiceTypes'
<1>1. files[t] \in FileStates
    BY DEF ServiceTypes
<1>2. \/ files' = files
      \/ \E lower_b, upper_b : files' = [files EXCEPT ![t] = UpdateBackup2(files[t], lower_b, upper_b)]
    BY DEF ServeUpdateBackup2
<1>3. files' \in [Slaves -> FileStates]
    BY <1>1, <1>2, UpdateBackup2Type, OneFile DEF ServiceTypes
<1>4. ASSUME NEW k \in Keys
      PROVE  /\ Renamed(safe[k] \ {<<t, 2>>}, t, 1, 2) \in SUBSET (Slaves \X {1, 2})
             /\ safe[k] \ {<<t, 2>>} \in SUBSET (Slaves \X {1, 2})
    BY SafeTypes DEF ServiceTypes
<1>5. safe' \in [Keys -> SUBSET (Slaves \X {1, 2})]
  <2>1. \/ safe' = safe
        \/ \E x : safe' = [k \in Keys |-> IF home[k] = x
                                          THEN Renamed(safe[k] \ {<<t, 2>>}, t, 1, 2)
                                          ELSE safe[k] \ {<<t, 2>>}]
      BY DEF ServeUpdateBackup2
  <2>2. safe \in [Keys -> SUBSET (Slaves \X {1, 2})]
      BY DEF ServiceTypes
  <2>3. CASE safe' = safe
      BY <2>2, <2>3
  <2>4. ASSUME NEW x,
               safe' = [k \in Keys |-> IF home[k] = x
                                        THEN Renamed(safe[k] \ {<<t, 2>>}, t, 1, 2)
                                        ELSE safe[k] \ {<<t, 2>>}]
        PROVE  safe' \in [Keys -> SUBSET (Slaves \X {1, 2})]
      BY <1>4, <2>4
  <2> QED
      BY <2>1, <2>3, <2>4
<1> QED
    BY <1>3, <1>5 DEF ServeUpdateBackup2, ServiceTypes, ClientTypes

LEMMA ReceiveTypes ==
    ASSUME ServiceTypes, ClusterInv, NEW s \in Slaves, ReceiveRecords(s)
    PROVE  ServiceTypes'
<1>1. PICK k : k = Head(todo[s])
    OBVIOUS
<1>2. k \in {-2, -1, 1, 2}
  <2>1. callee[s] # NoSlave
      BY NoSlaveAssumption DEF ReceiveRecords, ReceiveFile
  <2>2. todo[s] # <<>> /\ todo[s][1] # 0 /\ IsQueue(todo[s])
      BY <2>1, SlaveFacts DEF Calls
  <2>3. k = todo[s][1] /\ Len(todo[s]) \in Nat \ {0}
      BY <1>1, <2>2, TailQueue
  <2>4. todo[s][1] \in -2..2
      BY <2>3, SlaveFacts DEF Holds
  <2> QED
      BY <2>2, <2>3, <2>4
<1>3. files[s] \in FileStates /\ copy[s] \in Records
    BY DEF ServiceTypes
<1>4. \/ files' = files
      \/ \E d \in 0..2 : files' = [files EXCEPT ![s] = RecvFile(files[s], d, copy[s])]
  <2>1. PICK d : d = IF k = -1 THEN 0 ELSE k
      OBVIOUS
  <2>2. k # -2 => d \in 0..2
      BY <1>2, <2>1
  <2>3. k # -2 => files' = [files EXCEPT ![s] = RecvFile(files[s], d, copy[s])]
      BY <1>1, <2>1 DEF ReceiveRecords
  <2>4. k = -2 => files' = files
      BY <1>1 DEF ReceiveRecords
  <2> QED
      BY <2>2, <2>3, <2>4
<1>5. files' \in [Slaves -> FileStates]
    BY <1>3, <1>4, RecvFileType, OneFile DEF ServiceTypes
<1>6. copy' \in [Slaves -> Records]
    BY NoRecordsType, OneCopy DEF ReceiveRecords, ServiceTypes
<1> QED
    BY <1>5, <1>6 DEF ReceiveRecords, ServiceTypes, ClientTypes

LEMMA MergeStepTypes ==
    ASSUME ServiceTypes, NEW s \in Slaves, MergeBackup1(s) \/ MergeBackup2(s)
    PROVE  ServiceTypes'
<1>1. files[s] \in FileStates
    BY DEF ServiceTypes
<1>2. \/ files' = files
      \/ \E f \in SuccessorLeft(files[s]) \cup SecondSuccessorLeft(files[s]) \cup {files[s]} :
            files' = [files EXCEPT ![s] = f]
    BY DEF MergeBackup1, MergeBackup2
<1>3. files' \in [Slaves -> FileStates]
    BY <1>1, <1>2, LeftTypes, OneFile DEF ServiceTypes
<1>4. ASSUME NEW k \in Keys
      PROVE  /\ Renamed(safe[k], s, 2, 1) \in SUBSET (Slaves \X {1, 2})
             /\ Renamed(safe[k] \ {<<s, 1>>}, s, 2, 1) \in SUBSET (Slaves \X {1, 2})
    BY SafeTypes
<1>5. safe' \in [Keys -> SUBSET (Slaves \X {1, 2})]
  <2>1. \/ safe' = safe
        \/ safe' = [k \in Keys |-> Renamed(safe[k], s, 2, 1)]
        \/ safe' = [k \in Keys |-> Renamed(safe[k] \ {<<s, 1>>}, s, 2, 1)]
      BY DEF MergeBackup1, MergeBackup2
  <2>2. [k \in Keys |-> Renamed(safe[k], s, 2, 1)] \in [Keys -> SUBSET (Slaves \X {1, 2})]
      BY <1>4
  <2>3. [k \in Keys |-> Renamed(safe[k] \ {<<s, 1>>}, s, 2, 1)]
           \in [Keys -> SUBSET (Slaves \X {1, 2})]
      BY <1>4
  <2>4. safe \in [Keys -> SUBSET (Slaves \X {1, 2})]
      BY DEF ServiceTypes
  <2> QED
      BY <2>1, <2>2, <2>3, <2>4
<1>6. home' \in [Keys -> Slaves \cup {NoSlave}]
    BY DEF MergeBackup1, MergeBackup2, ServiceTypes
<1>7. copy' = copy /\ cl' = cl /\ store' = store
    BY DEF MergeBackup1, MergeBackup2
<1> QED
    BY <1>3, <1>5, <1>6, <1>7 DEF ServiceTypes, ClientTypes

\* A worker writes what the client has sent.
LEMMA ExecuteTypes ==
    ASSUME ServiceTypes, Execute
    PROVE  ServiceTypes'
<1>1. ClientTypes(cl) /\ cl.pc = "queued"
    BY DEF Execute, ClientAt, ServiceTypes
<1>2. PICK k, v, s : k = cl.key /\ v = cl.val /\ s = At
    OBVIOUS
<1>3. k \in Keys /\ v \in Values \cup {None}
    BY <1>1, <1>2 DEF ClientTypes
<1>4. ClientTypes(cl')
    BY <1>1, DoneTypes DEF Execute
<1>5. \/ files' = files
      \/ files' = [files EXCEPT ![s].db[k] = v]
    BY <1>2 DEF Execute
<1>6. files' \in [Slaves -> FileStates]
  <2>1. ASSUME NEW f \in FileStates, NEW g, g = [f EXCEPT !.db[k] = v]
        PROVE  g \in FileStates
    <3>1. [f.db EXCEPT ![k] = v] \in Records /\ g = [f EXCEPT !.db = [f.db EXCEPT ![k] = v]]
        BY <1>3, <2>1 DEF FileStates, Records
    <3> QED
        BY <3>1 DEF FileStates
  <2>2. ASSUME files' = [files EXCEPT ![s].db[k] = v], s \in Slaves
        PROVE  files' \in [Slaves -> FileStates]
    <3>1. PICK g : g = [files[s] EXCEPT !.db[k] = v]
        OBVIOUS
    <3>2. files' = [files EXCEPT ![s] = g]
        BY <2>2, <3>1
    <3>3. g \in FileStates
        BY <2>1, <2>2, <3>1 DEF ServiceTypes
    <3> QED
        BY <3>2, <3>3, OneFile DEF ServiceTypes
  <2>3. ASSUME files' = [files EXCEPT ![s].db[k] = v], s \notin Slaves
        PROVE  files' = files
      BY <2>3 DEF ServiceTypes
  <2> QED
      BY <1>5, <2>2, <2>3 DEF ServiceTypes
<1>7. copy' \in [Slaves -> Records]
  <2>1. copy' = copy \/ \E to : copy' = [copy EXCEPT ![to][k] = v]
      BY <1>2 DEF Execute
  <2> QED
      BY <1>3, <2>1 DEF ServiceTypes, Records
<1>8. store' \in Records
    BY <1>2, <1>3 DEF Execute, ServiceTypes, Records
<1>9. safe' \in [Keys -> SUBSET (Slaves \X {1, 2})]
    BY DEF Execute, ServiceTypes
<1>10. home' = home
    BY DEF Execute
<1> QED
    BY <1>4, <1>6, <1>7, <1>8, <1>9, <1>10 DEF ServiceTypes

LEMMA ServiceKeepsTypes ==
    ASSUME ServiceTypes, ClusterInv, [ServiceNext]_allVars
    PROVE  ServiceTypes'
<1>1. CASE UNCHANGED serviceVars
    BY <1>1 DEF serviceVars, ServiceTypes, ClientTypes
<1>2. CASE RenewBackups
    BY <1>2 DEF RenewBackups, ServiceTypes, ClientTypes
<1>3. ASSUME NEW s \in Slaves, Leave(s)
      PROVE  ServiceTypes'
    BY <1>3 DEF Leave, ServiceTypes, ClientTypes
<1>4. ASSUME NEW s \in Slaves, FileStep(s)
      PROVE  ServiceTypes'
    BY <1>1, <1>4, JoinTypes, ReceiveTypes, MergeStepTypes, ClipTypes, BackupTypes, UpdateTypes
       DEF FileStep, SlaveWorks
<1>5. CASE Input \/ ClientStep \/ Accept
  <2>1. ClientTypes(cl')
      BY <1>5, InputTypes, ClientStepTypes DEF ServiceTypes, ClusterInv, Inv
  <2>2. UNCHANGED <<files, copy, store, home, safe>>
      BY <1>5 DEF Input, OpenCommand, QuitCommand, CloseCommand, GetCommand, DelCommand,
                  SetCommand, ClientStep, ReadCloudNodes, OpenNode, AllOpen, ConnectionLost,
                  CloseNode, AllClosed, Accept, Client
  <2> QED
      BY <2>1, <2>2 DEF ServiceTypes
<1>6. CASE Execute
    BY <1>6, ExecuteTypes
<1>7. UNCHANGED allVars => UNCHANGED serviceVars
    BY DEF allVars
<1>8. MasterWorks \/ (\E s \in Slaves : Start(s)) => UNCHANGED serviceVars
    BY DEF MasterWorks, Start
<1> QED
    BY <1>1, <1>2, <1>3, <1>4, <1>5, <1>6, <1>7, <1>8 DEF ServiceNext

\* The client always has a list of slaves in order and a key when it sends, and
\* a slave's files are files of this model: two names and two handles never
\* need more than the inodes there are.
THEOREM ServiceTypeCorrect == ServiceSpec => []ServiceTypeOK
<1>1. ServiceInit => ClusterInv /\ ServiceTypes
  <2>1. ASSUME ServiceInit
        PROVE  ServiceTypes
      BY <2>1, NoFilesType, NoRecordsType, NoCommandTypes DEF ServiceInit, ServiceTypes
  <2> QED
      BY <2>1, InitInv DEF ServiceInit
<1>2. ClusterInv /\ ServiceTypes /\ [ServiceNext]_allVars => ClusterInv' /\ ServiceTypes'
    BY ServiceKeepsCluster, ServiceKeepsTypes
<1>3. ServiceTypes => ServiceTypeOK
    BY DEF ServiceTypes, ClientTypes, ServiceTypeOK, Operations
<1> QED
    BY <1>1, <1>2, <1>3, PTL DEF ServiceSpec

-----------------------------------------------------------------------------
(* Where the records are.                                                  *)

\* Every record is with the slave that list l routes its key to.
Routed(l) == l.num > 0 => \A k \in Keys : home[k] = Owner(l, k)

\* A listed slave that has not been given its records.
Arriving(s) ==
    /\ s \in Members(mlist)
    /\ \/ st[s] = "register"
       \/ /\ st[s] = "init" /\ todo[s] # <<>> /\ Head(todo[s]) = -1
          /\ \A t \in Slaves : caller[t] # s

\* Whoever takes over from the slave that leaves has done it.
Predecessor(p) == mlist.nodes[(p + mlist.num - 1) % mlist.num].id
TakenOver == job.op = "del" /\ mlist.num > 1 /\ sl[Predecessor(job.pos)] # mlist

\* The records are where the master's list routes them, without the slave that
\* arrives or has been taken over from.
Homes ==
    /\ \A p \in Positions(mlist) :
          Arriving(mlist.nodes[p].id) => Routed(RemoveSlave(mlist, p))
    /\ TakenOver => Routed(RemoveSlave(mlist, job.pos))
    /\ ~TakenOver /\ (\A s \in Slaves : ~Arriving(s)) => Routed(mlist)

\* Only a slave that joins calls CLIP_DATA, first of all and among others; and
\* a slave calls the one at the distance it has next to call.
Other(s) == sl[s].nodes[(pos[s] + Head(todo[s]) + sl[s].num) % sl[s].num].id
Errand(s) ==
    /\ \A i \in 1..Len(todo[s]) :
          todo[s][i] = -1 => i = 1 /\ st[s] = "init" /\ sl[s].num > 1
    /\ st[s] \in {"init", "run"} /\ callee[s] # NoSlave => callee[s] = Other(s)

LEMMA ErrandKept ==
    ASSUME NEW u, Errand(u), st'[u] = st[u], sl'[u] = sl[u], pos'[u] = pos[u],
           todo'[u] = todo[u], callee'[u] = callee[u]
    PROVE  Errand(u)'
    BY DEF Errand, Other

\* A slave without calls.
LEMMA NoErrand ==
    ASSUME NEW s, IsQueue(todo'[s]), \A i \in 1..Len(todo'[s]) : todo'[s][i] # -1,
           callee'[s] = NoSlave
    PROVE  Errand(s)'
    BY DEF Errand

LEMMA TailErrand ==
    ASSUME NEW s, Errand(s), IsQueue(todo[s]), todo[s] # <<>>
    PROVE  IsQueue(Tail(todo[s])) /\ \A i \in 1..Len(Tail(todo[s])) : Tail(todo[s])[i] # -1
<1>1. PICK q, t : q = todo[s] /\ t = Tail(q)
    OBVIOUS
<1>2. /\ IsQueue(t) /\ Len(q) \in Nat \ {0} /\ Len(t) = Len(q) - 1
      /\ \A i \in 1..(Len(q) - 1) : t[i] = q[i + 1]
    BY <1>1, TailQueue
<1>3. ASSUME NEW i \in 1..Len(t) PROVE t[i] # -1
  <2>1. t[i] = q[i + 1] /\ i + 1 \in 1..Len(q) /\ i + 1 # 1
      BY <1>2
  <2> QED
      BY <1>1, <2>1 DEF Errand
<1> QED
    BY <1>1, <1>2, <1>3

\* The elements of one pair after the other.
LEMMA TwoPairs ==
    ASSUME NEW S, NEW a \in Seq(S), NEW b \in Seq(S), Len(a) = 2, Len(b) = 2
    PROVE  /\ a \o b \in Seq(S) /\ Len(a \o b) = 4
           /\ (a \o b)[1] = a[1] /\ (a \o b)[2] = a[2]
           /\ (a \o b)[3] = b[1] /\ (a \o b)[4] = b[2]
<1>1. PICK q, m, n : q = a \o b /\ m = Len(a) /\ n = Len(b)
    OBVIOUS
<1>2. /\ q \in Seq(S) /\ Len(q) = m + n
      /\ \A i \in 1..(m + n) : q[i] = IF i <= m THEN a[i] ELSE b[i - m]
    BY <1>1, ConcatProperties
<1>3. m = 2 /\ n = 2
    BY <1>1
<1>4. Len(q) = 4 /\ \A i \in 1..4 : q[i] = IF i <= 2 THEN a[i] ELSE b[i - 2]
    BY <1>2, <1>3
<1>5. q[1] = a[1] /\ q[2] = a[2]
    BY <1>4
<1>6. q[3] = b[3 - 2] /\ q[4] = b[4 - 2]
    BY <1>4
<1>7. q[3] = b[1] /\ q[4] = b[2]
    BY <1>6
<1> QED
    BY <1>1, <1>2, <1>4, <1>5, <1>7

LEMMA InitialErrand ==
    ASSUME NEW n \in Nat
    PROVE  /\ \A i \in 1..Len(InitialCalls(n)) : InitialCalls(n)[i] = -1 => i = 1 /\ n > 1
           /\ n > 1 => InitialCalls(n) # <<>> /\ Head(InitialCalls(n)) = -1
           /\ n <= 1 => InitialCalls(n) = <<>>
<1>1. CASE n <= 1
  <2>1. InitialCalls(n) = <<>>
      BY <1>1 DEF InitialCalls
  <2> QED
      BY <1>1, <2>1
<1>2. CASE n = 2
  <2>1. InitialCalls(n) = <<-1, 1>>
      BY <1>2 DEF InitialCalls
  <2> QED
      BY <1>2, <2>1
<1>3. CASE n > 2
  <2>1. PICK a, b, q : a = <<-1, 1>> /\ b = <<-2, 2>> /\ q = a \o b
      OBVIOUS
  <2>2. InitialCalls(n) = q
      BY <1>3, <2>1 DEF InitialCalls
  <2>3. /\ a \in Seq(Int) /\ Len(a) = 2 /\ a[1] = -1 /\ a[2] = 1
        /\ b \in Seq(Int) /\ Len(b) = 2 /\ b[1] = -2 /\ b[2] = 2
      BY <2>1
  <2>4. /\ q \in Seq(Int) /\ Len(q) = 4
        /\ q[1] = -1 /\ q[2] = 1 /\ q[3] = -2 /\ q[4] = 2
      BY <2>1, <2>3, TwoPairs
  <2>5. q # <<>> /\ Head(q) = -1
    <3>1. IsQueue(q) /\ Len(q) # 0
        BY <2>4 DEF IsQueue
    <3>2. q # <<>> /\ Head(q) = q[1]
        BY <3>1, EmptyQueue, TailQueue
    <3> QED
        BY <2>4, <3>2
  <2>6. \A i \in 1..Len(q) : q[i] = -1 => i = 1
    <3>1. ASSUME NEW i \in 1..4, q[i] = -1
          PROVE  i = 1
      <4>1. i = 1 \/ i = 2 \/ i = 3 \/ i = 4
          OBVIOUS
      <4> QED
          BY <2>4, <3>1, <4>1
    <3> QED
        BY <2>4, <3>1
  <2>7. n > 1 /\ ~(n <= 1)
      BY <1>3
  <2> QED
      BY <2>2, <2>5, <2>6, <2>7
<1> QED
    BY <1>1, <1>2, <1>3

\* What a slave does while it serves.
LEMMA ErrandWorks ==
    ASSUME ClusterInv, NEW s \in Slaves, Errand(s),
           \/ EnterLoop(s) \/ HandleNewSlave(s) \/ HandleRmSlave(s) \/ HandleUpdateBackup12(s)
           \/ SendBackupReply(s) \/ CallSlave(s) \/ ReceiveFile(s)
    PROVE  Errand(s)'
<1>1. Calls(s) /\ Holds(s) /\ IsQueue(todo[s]) /\ s \in DOMAIN todo /\ s \in DOMAIN callee
    BY SlaveFacts DEF ClusterInv, Shape
<1>2. todo[s] = <<>> => callee[s] = NoSlave
    BY <1>1 DEF Calls
<1>3. CASE EnterLoop(s)
    BY <1>2, <1>3, NoErrand, NoMessages DEF EnterLoop
<1>4. CASE HandleNewSlave(s)
    BY <1>2, <1>4, NoErrand, NoMessages DEF HandleNewSlave, Polling
<1>5. CASE HandleRmSlave(s)
  <2>1. todo'[s] \in {<<>>, <<2>>} /\ callee'[s] = NoSlave
      BY <1>1, <1>2, <1>5 DEF HandleRmSlave, Polling
  <2>2. ASSUME NEW q, q = << 2 >>
        PROVE  IsQueue(q) /\ \A i \in 1..Len(q) : q[i] # -1
    <3>1. q \in Seq({-2, 1, 2}) /\ Len(q) = 1 /\ q[1] = 2
        BY <2>2
    <3> QED
        BY <3>1 DEF IsQueue
  <2> QED
      BY <2>1, <2>2, NoErrand, NoMessages
<1>6. CASE HandleUpdateBackup12(s)
  <2>1. todo'[s] = <<1, 2, 0>> /\ callee'[s] = NoSlave
      BY <1>1, <1>2, <1>6 DEF HandleUpdateBackup12, Polling
  <2>2. ASSUME NEW q, q = <<1, 2, 0>>
        PROVE  IsQueue(q) /\ \A i \in 1..Len(q) : q[i] # -1
    <3>1. q \in Seq({0, 1, 2}) /\ Len(q) = 3 /\ q[1] = 1 /\ q[2] = 2 /\ q[3] = 0
        BY <2>2
    <3> QED
        BY <3>1 DEF IsQueue
  <2> QED
      BY <2>1, <2>2, NoErrand
<1>7. CASE SendBackupReply(s)
  <2>1. todo'[s] = Tail(todo[s]) /\ callee'[s] = NoSlave /\ todo[s] # <<>>
      BY <1>1, <1>7 DEF SendBackupReply, Working
  <2> QED
      BY <1>1, <2>1, TailErrand, NoErrand
<1>8. CASE CallSlave(s)
  <2>1. /\ todo[s] # <<>> /\ callee[s] = NoSlave
        /\ st' = st /\ sl' = sl /\ pos' = pos
        /\ \/ todo'[s] \in {<<>>, Tail(todo[s])} /\ callee'[s] = NoSlave
           \/ todo' = todo /\ callee'[s] = Other(s)
      BY <1>1, <1>8 DEF CallSlave, Working, Other
  <2>2. CASE todo'[s] \in {<<>>, Tail(todo[s])} /\ callee'[s] = NoSlave
    <3>1. IsQueue(todo'[s]) /\ \A i \in 1..Len(todo'[s]) : todo'[s][i] # -1
      <4>1. PICK q, e : q = todo'[s] /\ e = <<>>
          OBVIOUS
      <4>2. CASE q = e
          BY <4>1, <4>2, NoMessages
      <4>3. CASE q = Tail(todo[s])
          BY <1>1, <2>1, <4>1, <4>3, TailErrand
      <4> QED
          BY <2>2, <4>1, <4>2, <4>3
    <3> QED
        BY <2>2, <3>1, NoErrand
  <2>3. CASE todo' = todo /\ callee'[s] = Other(s)
      BY <2>1, <2>3 DEF Errand, Other
  <2> QED
      BY <2>1, <2>2, <2>3
<1>9. CASE ReceiveFile(s)
  <2>1. callee[s] # NoSlave
      BY <1>9, NoSlaveAssumption DEF ReceiveFile
  <2>2. todo'[s] = Tail(todo[s]) /\ callee'[s] = NoSlave /\ todo[s] # <<>>
      BY <1>1, <1>9, <2>1 DEF ReceiveFile, Calls
  <2> QED
      BY <1>1, <2>2, TailErrand, NoErrand
<1> QED
    BY <1>3, <1>4, <1>5, <1>6, <1>7, <1>8, <1>9

Errands == \A s \in Slaves : Errand(s)

LEMMA ErrandsNext ==
    ASSUME ClusterInv, Errands, [Next]_vars
    PROVE  Errands'
<1>1. CASE slaveVars' = slaveVars
    BY <1>1, ErrandKept DEF slaveVars, Errands
<1>2. ASSUME NEW s \in Slaves, StartSlave(s) \/ StopSlave(s) \/ StopInHandler(s)
      PROVE  Errands'
  <2>1. /\ sl' = sl /\ pos' = pos /\ todo' = todo /\ callee' = callee
        /\ \A u \in Slaves \ {s} : st'[u] = st[u]
        /\ st[s] # "init" /\ st'[s] \in {"register", "stopping"}
      BY <1>2 DEF StartSlave, StopSlave, StopInHandler, Polling, ClusterInv, Shape
  <2>2. Errand(s)'
      BY <2>1 DEF Errands, Errand
  <2> QED
      BY <2>1, <2>2, ErrandKept DEF Errands
<1>3. ASSUME NEW s \in Slaves, SlaveStep(s), ~(slaveVars' = slaveVars)
      PROVE  Errands'
  <2>1. \A u \in Slaves \ {s} : /\ st'[u] = st[u] /\ sl'[u] = sl[u] /\ pos'[u] = pos[u]
                                /\ todo'[u] = todo[u] /\ callee'[u] = callee[u]
    <3>1. CASE Register(s) \/ EnterLoop(s) \/ HandleNewSlave(s) \/ HandleRmSlave(s)
        BY <1>3, <3>1 DEF Register, Die, EnterLoop, HandleNewSlave, HandleRmSlave,
                            ClusterInv, Shape
    <3>2. CASE HandleUpdateBackup12(s) \/ SendBackupReply(s) \/ CallSlave(s) \/ ReceiveFile(s)
        BY <3>2 DEF HandleUpdateBackup12, SendBackupReply, CallSlave, ReceiveFile,
                     ClusterInv, Shape
    <3>3. CASE ExitSlave(s) \/ \E t \in Slaves : ServeSlave(s, t)
        BY <1>3, <3>3 DEF ExitSlave, Die, ServeSlave, ClusterInv, Shape
    <3> QED
        BY <1>3, <3>1, <3>2, <3>3 DEF SlaveStep
  <2>2. Errand(s)'
    <3>1. CASE Register(s)
      <4>1. Holds(s) /\ Calls(s) /\ st[s] = "register" /\ callee[s] = NoSlave
          BY <3>1, SlaveFacts DEF Register, Holds
      <4>2. PICK n, q : n = Head(toSlave[s]).list.num /\ q = InitialCalls(n)
          OBVIOUS
      <4>3. todo'[s] = q /\ st'[s] = "init" /\ sl'[s].num = n /\ callee'[s] = NoSlave
          BY <1>3, <3>1, <4>1, <4>2 DEF Register, Die, ClusterInv, Shape
      <4>4. n \in Nat
        <5>1. ClusterInv'
            BY <3>1, RegisterStep
        <5>2. Holds(s)'
            BY <5>1 DEF ClusterInv, Inv
        <5> QED
            BY <4>3, <5>2 DEF Holds, IsSlaveList
      <4>5. \A i \in 1..Len(q) : q[i] = -1 => i = 1 /\ n > 1
          BY <4>2, <4>4, InitialErrand
      <4> QED
          BY <4>3, <4>5 DEF Errand
    <3>2. CASE ExitSlave(s)
      <4>1. todo'[s] = <<>> /\ callee'[s] = NoSlave
          BY <1>3, <3>2 DEF ExitSlave, Die, ClusterInv, Shape
      <4> QED
          BY <4>1, NoErrand, NoMessages
    <3>3. CASE \E t \in Slaves : ServeSlave(s, t)
        BY <3>3, ErrandKept DEF ServeSlave, Errands
    <3> QED
        BY <1>3, <3>1, <3>2, <3>3, ErrandWorks DEF SlaveStep, Errands
  <2> QED
      BY <2>1, <2>2, ErrandKept DEF Errands
<1>4. MasterStep \/ Alarm \/ AlarmOnEmptyList \/ UNCHANGED vars => slaveVars' = slaveVars
    BY DEF MasterStep, AddSlaveRequest, DelSlaveRequest, NotifyAll, FinishRequest, AlarmReply,
           Alarm, AlarmOnEmptyList, Die, vars
<1> QED
    BY <1>1, <1>2, <1>3, <1>4 DEF Next

-----------------------------------------------------------------------------
(* What a join and a departure do to the records of a key.                 *)

LEMMA SameOwner ==
    ASSUME NEW v, NEW w, v.num = w.num, v.nodes = w.nodes, NEW k
    PROVE  Owner(v, k) = Owner(w, k)
<1>1. Holders(v, k) = Holders(w, k)
    BY DEF Holders, Positions, Lower, Upper
<1> QED
    BY <1>1 DEF Owner, GetSocket

LEMMA SameRouting ==
    ASSUME NEW v, NEW w, v.num = w.num, v.nodes = w.nodes
    PROVE  Routed(v) <=> Routed(w)
    BY SameOwner DEF Routed

LEMMA OwnerListed ==
    ASSUME NEW v, IsSlaveList(v, Slaves), Ordered(v), v.num > 0, NEW k \in Keys
    PROVE  Owner(v, k) \in Members(v)
<1>1. k \in RingKeys
    BY SlaveFilesAssumption
<1> QED
    BY <1>1, SocketHolds DEF Owner, Members

\* The slave taken out is not asked any more, and who is asked instead is the
\* one before it.
LEMMA WithoutOne ==
    ASSUME NEW v, IsSlaveList(v, Slaves), Ordered(v), v.num > 1,
           NEW p \in Positions(v), NEW k \in Keys
    PROVE  LET new == RemoveSlave(v, p)
           IN  /\ Owner(new, k) # v.nodes[p].id
               /\ Owner(v, k) = v.nodes[p].id <=> GetSocket(v, k) = p
               /\ GetSocket(v, k) # p => Owner(new, k) = Owner(v, k)
               /\ GetSocket(v, k) = p =>
                     Owner(new, k) = v.nodes[(p + v.num - 1) % v.num].id
<1>1. PICK new : new = RemoveSlave(v, p)
    OBVIOUS
<1>2. new = DelFromSlaveList(v, p)
    BY <1>1 DEF RemoveSlave, DelFromSlaveList
<1>3. k \in RingKeys
    BY SlaveFilesAssumption
<1>4. IsSlaveList(new, Slaves) /\ Ordered(new) /\ v.nodes[p].id \notin Members(new)
    BY <1>2, DelOrdered, DelForgets
<1>5. new.num > 0
    BY <1>1 DEF RemoveSlave, IsSlaveList
<1>6. Owner(new, k) # v.nodes[p].id
    BY <1>4, <1>5, OwnerListed
<1>7. PICK g : g = GetSocket(v, k)
    OBVIOUS
<1>8. g \in Positions(v)
  <2>1. v.num > 0
      BY DEF IsSlaveList
  <2> QED
      BY <1>3, <1>7, <2>1, SocketHolds
<1>9. Owner(v, k) = v.nodes[p].id <=> g = p
  <2>1. Owner(v, k) = v.nodes[g].id
      BY <1>7 DEF Owner
  <2> QED
      BY <1>8, <2>1, OnePlace
<1>10. \/ Owner(new, k) = Owner(v, k)
       \/ g = p /\ v.nodes[(g + v.num - 1) % v.num].id = Owner(new, k)
    BY <1>2, <1>3, <1>7, DelMoves
<1> QED
    BY <1>1, <1>6, <1>7, <1>9, <1>10

\* CLIP_DATA: the predecessor's records that SplitByKey takes are those of the
\* new slave.
LEMMA ClipRoutes ==
    ASSUME NEW v, IsSlaveList(v, Slaves), Ordered(v), v.num > 1,
           NEW p \in Positions(v), NEW k \in Keys,
           NEW t, t = v.nodes[(p + v.num - 1) % v.num].id,
           NEW h, h = Owner(RemoveSlave(v, p), k)
    PROVE  Owner(v, k) = IF h = t /\ SplitTakes(Lower(v, p), k, Upper(v, p))
                         THEN v.nodes[p].id ELSE h
<1>1. k \in RingKeys
    BY SlaveFilesAssumption
<1>2. SplitTakes(Lower(v, p), k, Upper(v, p)) <=> GetSocket(v, k) = p
    BY <1>1, SplitIsRouting
<1> QED
    BY <1>2, WithoutOne

\* RM_SLAVE: the predecessor has the records of the slave that leaves.
LEMMA MergeRoutes ==
    ASSUME NEW v, IsSlaveList(v, Slaves), Ordered(v), v.num > 1,
           NEW p \in Positions(v), NEW k \in Keys
    PROVE  Owner(RemoveSlave(v, p), k) =
              IF Owner(v, k) = v.nodes[p].id THEN v.nodes[(p + v.num - 1) % v.num].id
              ELSE Owner(v, k)
    BY WithoutOne

-----------------------------------------------------------------------------
(* Who arrives.                                                            *)

LEMMA ArrivingMoves ==
    ASSUME NEW s, Arriving(s)
    PROVE  Moving(s)
    BY DEF Arriving, Moving

\* A step that leaves the records and the roles as they are.
LEMMA HomesKept ==
    ASSUME ClusterInv, Homes, mlist' = mlist, job'.op = job.op, job'.pos = job.pos,
           home' = home, \A s \in Slaves : Arriving(s)' <=> Arriving(s),
           TakenOver' <=> TakenOver
    PROVE  Homes'
<1>1. \A p \in Positions(mlist) : mlist.nodes[p].id \in Slaves
    BY NodeType DEF ClusterInv, Inv, MasterInv
<1>2. \A p \in Positions(mlist) :
          Arriving(mlist.nodes[p].id)' <=> Arriving(mlist.nodes[p].id)
    BY <1>1
<1>3. /\ \A p : Routed(RemoveSlave(mlist, p))' <=> Routed(RemoveSlave(mlist, p))
      /\ Routed(mlist)' <=> Routed(mlist)
    BY DEF Routed
<1> QED
    BY <1>1, <1>2, <1>3 DEF Homes

\* The roles of the slaves come from these variables.
LEMMA SameRoles ==
    ASSUME mlist' = mlist, job'.op = job.op, job'.pos = job.pos, sl' = sl
    PROVE  TakenOver' <=> TakenOver
    BY DEF TakenOver, Predecessor

\* While a slave joins or leaves and the master has nothing to do, all others
\* have its list.
LEMMA IdleLists ==
    ASSUME ClusterInv, Calm, job.op = "idle", NEW p \in Positions(mlist)
    PROVE  /\ mlist.nodes[p].id \in Slaves
           /\ Moving(mlist.nodes[p].id) \/ sl[mlist.nodes[p].id] = mlist
<1>1. PICK s : s = mlist.nodes[p].id
    OBVIOUS
<1>2. s \in Slaves /\ s \in Members(mlist)
    BY <1>1, NodeType DEF ClusterInv, Inv, MasterInv, Members
<1>3. States(s)
    BY <1>2, SlaveFacts
<1>4. st[s] = "run" \/ Moving(s)
    BY <1>2, <1>3 DEF States, Unlisted, Moving
<1> QED
    BY <1>1, <1>2, <1>4, ServingFacts

\* The change at hand is about a slave that has sent its request and waits.
LEMMA JobState ==
    ASSUME ClusterInv, Calm, NEW s \in Slaves, Moving(s), job.op # "idle"
    PROVE  /\ s = job.s
           /\ job.op = "add" => st[s] = "register" /\ Joining(s)
           /\ job.op = "del" => st[s] = "stopping"
<1>1. s = job.s /\ States(s)
    BY JobMoves, SlaveFacts
<1> QED
    BY <1>1 DEF States, Joining

LEMMA HomesAdd ==
    ASSUME ClusterInv, Calm, Homes, NEW s \in Slaves, AddSlaveRequest(s), home' = home
    PROVE  Homes'
<1>1. /\ job.op = "idle" /\ job'.op = "add"
      /\ st' = st /\ todo' = todo /\ caller' = caller
    BY DEF AddSlaveRequest, IdleJob, slaveVars
<1>2. /\ st[s] = "register" /\ s \notin Members(mlist)
      /\ IsSlaveList(mlist, Slaves) /\ Ordered(mlist)
    BY AddRequestFacts, SlaveFacts DEF MasterInv
<1>3. PICK first : mlist' = AddToSlaveList(mlist, s, first)
    BY DEF AddSlaveRequest
<1>4. PICK new, p : new = AddToSlaveList(mlist, s, first) /\ p = NewPos(mlist)
    OBVIOUS
<1>5. /\ p \in Positions(new) /\ new.nodes[p].id = s
      /\ new.num = mlist.num + 1 /\ RemoveSlave(new, p).nodes = mlist.nodes
      /\ Members(new) = Members(mlist) \cup {s}
    BY <1>2, <1>4, NewPlace
<1>6. /\ Moving(s) /\ \A u \in Slaves : Moving(u) => u = s
    BY <1>2 DEF Moving, Calm
<1>7. \A u \in Slaves : ~Arriving(u)
    BY <1>2, <1>6, ArrivingMoves DEF Arriving
<1>8. Routed(mlist)
    BY <1>1, <1>7 DEF Homes, TakenOver
<1>9. Routed(RemoveSlave(new, p))
  <2>1. RemoveSlave(new, p).num = mlist.num
      BY <1>2, <1>5 DEF RemoveSlave, IsSlaveList
  <2> QED
      BY <1>5, <1>8, <2>1, SameRouting
<1>10. \A u \in Slaves : Arriving(u)' => u = s
    BY <1>1, <1>6 DEF Arriving, Moving
<1>11. Arriving(s)'
    BY <1>1, <1>2, <1>3, <1>4, <1>5 DEF Arriving
<1>12. ASSUME NEW q \in Positions(new), Arriving(new.nodes[q].id)'
       PROVE  q = p
  <2>1. ClusterInv'
      BY AddRequestStep
  <2>2. IsSlaveList(new, Slaves) /\ Ordered(new)
      BY <1>3, <1>4, <2>1 DEF ClusterInv, Inv, MasterInv
  <2>3. new.nodes[q].id \in Slaves
      BY <2>2, NodeType
  <2>4. new.nodes[q].id = s
      BY <1>10, <1>12, <2>3
  <2> QED
      BY <1>5, <2>2, <2>4, OnePlace
<1>13. Routed(RemoveSlave(new, p))'
  <2>1. mlist' = new
      BY <1>3, <1>4
  <2> QED
      BY <1>9 DEF Routed
<1> QED
    BY <1>1, <1>3, <1>4, <1>11, <1>12, <1>13 DEF Homes, TakenOver

LEMMA Distinct ==
    ASSUME NEW v, IsSlaveList(v, Slaves), Ordered(v), v.num > 1, NEW p \in Positions(v)
    PROVE  /\ (p + v.num - 1) % v.num \in Positions(v)
           /\ v.nodes[(p + v.num - 1) % v.num].id # v.nodes[p].id
<1>1. PICK n, q : n = v.num /\ q = (p + n - 1) % n
    OBVIOUS
<1>2. n \in Nat \ {0} /\ n > 1 /\ p \in 0..(n - 1)
    BY <1>1 DEF IsSlaveList, Positions
<1>3. q = IF p = 0 THEN n - 1 ELSE p - 1
    BY <1>1, <1>2, Neighbours
<1>4. q \in 0..(n - 1) /\ q # p
    BY <1>2, <1>3
<1> QED
    BY <1>1, <1>4, OnePlace DEF Positions

LEMMA HomesDel ==
    ASSUME ClusterInv, Calm, Homes, NEW s \in Slaves, DelSlaveRequest(s), home' = home
    PROVE  Homes'
<1>1. /\ job.op = "idle" /\ job'.op = "del" /\ job'.pos = Head(toMaster[s]).pos
      /\ mlist' = mlist /\ st' = st /\ todo' = todo /\ caller' = caller /\ sl' = sl
    BY DEF DelSlaveRequest, IdleJob, slaveVars
<1>2. PICK p : p = Head(toMaster[s]).pos
    OBVIOUS
<1>3. st[s] = "stopping" /\ p \in Positions(mlist) /\ mlist.nodes[p].id = s
    BY <1>2, DelRequestFacts
<1>4. ~TakenOver
    BY <1>1 DEF TakenOver
<1>5. ~TakenOver'
  <2>1. SUFFICES ASSUME mlist.num > 1 PROVE sl[Predecessor(p)] = mlist
      BY <1>1, <1>2 DEF TakenOver, Predecessor
  <2>2. IsSlaveList(mlist, Slaves) /\ Ordered(mlist)
      BY DEF ClusterInv, Inv, MasterInv
  <2>3. PICK q : q = (p + mlist.num - 1) % mlist.num
      OBVIOUS
  <2>4. q \in Positions(mlist) /\ mlist.nodes[q].id # s
      BY <1>3, <2>1, <2>2, <2>3, Distinct
  <2>5. Moving(s)
      BY <1>3 DEF Moving
  <2>6. mlist.nodes[q].id \in Slaves
      BY <2>2, <2>4, NodeType
  <2>7. ~Moving(mlist.nodes[q].id)
      BY <2>4, <2>5, <2>6 DEF Calm
  <2> QED
      BY <1>1, <2>3, <2>4, <2>7, IdleLists DEF Predecessor
<1>6. \A u \in Slaves : Arriving(u)' <=> Arriving(u)
    BY <1>1 DEF Arriving
<1>7. /\ \A q \in Positions(mlist) : mlist.nodes[q].id \in Slaves
      /\ Routed(mlist)' <=> Routed(mlist)
      /\ \A q : Routed(RemoveSlave(mlist, q))' <=> Routed(RemoveSlave(mlist, q))
    BY <1>1, IdleLists DEF Routed
<1>8. ASSUME NEW q \in Positions(mlist), Arriving(mlist.nodes[q].id)'
      PROVE  Routed(RemoveSlave(mlist, q))'
    BY <1>1, <1>6, <1>7, <1>8 DEF Homes
<1> QED
    BY <1>1, <1>4, <1>5, <1>6, <1>7, <1>8 DEF Homes

LEMMA HomesFinish ==
    ASSUME ClusterInv, Calm, Homes, FinishRequest, home' = home
    PROVE  Homes'
<1>1. /\ MasterInv /\ job.op \in {"add", "del"} /\ job.s \in Slaves
      /\ job' = IdleJob /\ mlist' = IF job.op = "add" THEN mlist ELSE RemoveSlave(mlist, job.pos)
      /\ st' = st /\ todo' = todo /\ caller' = caller /\ sl' = sl
    BY FinishFacts DEF FinishRequest, slaveVars
<1>2. ~TakenOver'
    BY <1>1 DEF TakenOver, IdleJob
<1>3. /\ \A q \in Positions(mlist) : mlist.nodes[q].id \in Slaves
      /\ IsSlaveList(mlist, Slaves) /\ Ordered(mlist)
    BY <1>1, NodeType DEF MasterInv
<1>4. CASE job.op = "add"
  <2>1. \A u \in Slaves : Arriving(u)' <=> Arriving(u)
      BY <1>1, <1>4 DEF Arriving
  <2>2. ~TakenOver
      BY <1>4 DEF TakenOver
  <2>3. /\ mlist' = mlist
        /\ Routed(mlist)' <=> Routed(mlist)
        /\ \A q : Routed(RemoveSlave(mlist, q))' <=> Routed(RemoveSlave(mlist, q))
      BY <1>1, <1>4 DEF Routed
  <2>4. ASSUME NEW q \in Positions(mlist), Arriving(mlist.nodes[q].id)'
        PROVE  Routed(RemoveSlave(mlist, q))'
      BY <1>3, <2>1, <2>3, <2>4 DEF Homes
  <2> QED
      BY <1>2, <2>1, <2>2, <2>3, <2>4 DEF Homes
<1>5. CASE job.op = "del"
  <2>1. \A u \in Slaves : Moving(u) => st[u] = "stopping"
      BY <1>5, JobState
  <2>2. PICK new : new = RemoveSlave(mlist, job.pos) /\ mlist' = new
      BY <1>1, <1>5
  <2>3. \A u \in Slaves : ~Arriving(u)'
      BY <1>1, <2>1 DEF Arriving, Moving
  <2>4. \A q \in Positions(new) : new.nodes[q].id \in Slaves
    <3>1. ClusterInv'
        BY FinishStep
    <3>2. IsSlaveList(new, Slaves)
        BY <2>2, <3>1 DEF ClusterInv, Inv, MasterInv
    <3> QED
        BY <3>2, NodeType
  <2>5. Routed(new)
    <3>1. CASE mlist.num > 1
      <4>1. PICK q, s : q = (job.pos + mlist.num - 1) % mlist.num /\ s = mlist.nodes[q].id
          OBVIOUS
      <4>2. job.pos \in Positions(mlist) /\ mlist.nodes[job.pos].id = job.s /\ job.i = mlist.num
          BY <1>1 DEF MasterInv, FinishRequest
      <4>3. q \in Positions(mlist) /\ s # job.s
          BY <1>3, <3>1, <4>1, <4>2, Distinct
      <4>4. s \in Slaves /\ s \in Members(mlist) /\ ~Moving(s)
          BY <1>3, <4>1, <4>3, <1>1, JobMoves DEF Members
      <4>5. States(s) /\ st[s] = "run"
          BY <4>4, SlaveFacts DEF States, Unlisted, Moving
      <4>6. PICK box : Agrees(s, sl[s], pos[s], box)
          BY <4>5 DEF States, Serving, Connected
      <4>7. Reached(s)
          BY <1>3, <4>1, <4>2, <4>3 DEF Reached, Positions, IsSlaveList
      <4>8. sl[s] = RemoveSlave(mlist, job.pos)
          BY <1>5, <4>6, <4>7 DEF Agrees, Behind, AfterJob
      <4>9. sl[s] # mlist
        <5>1. RemoveSlave(mlist, job.pos).num = mlist.num - 1 /\ mlist.num \in Nat
            BY <1>3 DEF RemoveSlave, IsSlaveList
        <5> QED
            BY <4>8, <5>1
      <4>10. TakenOver
          BY <1>5, <3>1, <4>1, <4>9 DEF TakenOver, Predecessor
      <4> QED
          BY <2>2, <4>10 DEF Homes
    <3>2. CASE ~(mlist.num > 1)
      <4>1. ~(new.num > 0)
          BY <1>3, <2>2, <3>2 DEF RemoveSlave, IsSlaveList
      <4> QED
          BY <4>1 DEF Routed
    <3> QED
        BY <3>1, <3>2
  <2>6. Routed(mlist)'
      BY <2>2, <2>5 DEF Routed
  <2> QED
      BY <1>2, <2>2, <2>3, <2>4, <2>6 DEF Homes
<1> QED
    BY <1>1, <1>4, <1>5

\* A step of slave s that leaves the roles of the others.
LEMMA OthersArrive ==
    ASSUME NEW s \in Slaves, mlist' = mlist, ClusterInv,
           \A u \in Slaves \ {s} : st'[u] = st[u] /\ todo'[u] = todo[u],
           \A u \in Slaves \ {s}, t \in Slaves : caller'[t] = u <=> caller[t] = u
    PROVE  \A u \in Slaves \ {s} : Arriving(u)' <=> Arriving(u)
    BY DEF Arriving

LEMMA HomesRegister ==
    ASSUME ClusterInv, Calm, Homes, NEW s \in Slaves, JoinList(s)
    PROVE  Homes'
<1>1. /\ Register(s) /\ st[s] = "register" /\ Moving(s) /\ States(s) /\ Holds(s)
      /\ IsQueue(toSlave[s]) /\ toSlave[s] # <<>> /\ MasterInv
    BY SlaveFacts DEF JoinList, Register, Moving
<1>2. CASE Head(toSlave[s]).cmd # "ADD_SLAVE_R"
  <2>1. UNCHANGED <<masterVars, slaveVars>> /\ home' = home
      BY <1>1, <1>2 DEF JoinList, Register, Die
  <2>2. \A u \in Slaves : Arriving(u)' <=> Arriving(u)
      BY <2>1 DEF Arriving, masterVars, slaveVars
  <2> QED
      BY <2>1, <2>2, SameRoles, HomesKept DEF masterVars, slaveVars
<1>3. CASE Head(toSlave[s]).cmd = "ADD_SLAVE_R"
  <2>1. PICK v, box : v = Head(toSlave[s]).list /\ box = toSlave[s]
      OBVIOUS
  <2>2. Head(box) = box[1] /\ Len(box) \in Nat \ {0} /\ 1 \in 1..Len(box)
      BY <1>1, <2>1, TailQueue
  <2>3. ~Asking(s) /\ ~Joining(s)
      BY <1>1, <1>3, <2>1, <2>2 DEF Asking, Joining
  <2>4. Welcomed(s)
      BY <1>1, <2>3 DEF States
  <2>5. job.op = "idle"
      BY <1>1, <2>3, JobState DEF MasterInv
  <2>6. PICK p : Agrees(s, v, p, Tail(box))
      BY <2>1, <2>2, <2>4 DEF Welcomed, Connected
  <2>7. v = mlist /\ p \in Positions(v) /\ v.nodes[p].id = s
      BY <2>5, <2>6 DEF Agrees, Behind, AfterJob
  <2>8. s \in Members(mlist) /\ mlist.num \in Nat \ {0}
      BY <1>1, <2>7 DEF Members, MasterInv, IsSlaveList, Positions
  <2>9. /\ mlist' = mlist /\ job' = job /\ caller' = caller /\ crash' = "none"
        /\ sl'[s] = mlist /\ todo'[s] = InitialCalls(mlist.num) /\ st'[s] = "init"
        /\ \A u \in Slaves \ {s} : st'[u] = st[u] /\ todo'[u] = todo[u]
    <3>1. /\ pos' = [pos EXCEPT ![s] = Head(toSlave[s]).pos]
          /\ sl' = [sl EXCEPT ![s] = v]
          /\ todo' = [todo EXCEPT ![s] = InitialCalls(v.num)]
          /\ st' = [st EXCEPT ![s] = "init"]
          /\ crash = "none" /\ crash' = crash /\ caller' = caller /\ masterVars' = masterVars
        BY <1>1, <1>3, <2>1 DEF Register
    <3>2. mlist' = mlist /\ job' = job
        BY <3>1 DEF masterVars
    <3> QED
        BY <2>7, <3>1, <3>2 DEF ClusterInv, Shape
  <2>10. Arriving(s)
      BY <1>1, <2>8 DEF Arriving
  <2>11. ~TakenOver /\ ~TakenOver'
      BY <2>5, <2>9 DEF TakenOver
  <2>12. \A u \in Slaves \ {s} : Arriving(u)' <=> Arriving(u)
      BY <2>9, OthersArrive
  <2>13. CASE mlist.num > 1
    <3>1. PICK q : q = InitialCalls(mlist.num)
        OBVIOUS
    <3>2. q # <<>> /\ Head(q) = -1
        BY <2>8, <2>13, <3>1, InitialErrand
    <3>3. \A t \in Slaves : caller[t] # s
      <4>1. callee[s] = NoSlave
          BY <1>1 DEF Holds
      <4>2. ASSUME NEW t \in Slaves, caller[t] = s PROVE callee[s] = t
          BY <4>2, SlaveFacts DEF Calls
      <4> QED
          BY <4>1, <4>2, NoSlaveAssumption
    <3>4. Arriving(s)'
        BY <2>8, <2>9, <3>1, <3>2, <3>3 DEF Arriving
    <3>5. \A u \in Slaves : Arriving(u)' <=> Arriving(u)
        BY <2>10, <2>12, <3>4
    <3>6. home' = home
        BY <2>9, <2>13 DEF JoinList
    <3> QED
        BY <2>9, <2>11, <3>5, <3>6, HomesKept
  <2>14. CASE ~(mlist.num > 1)
    <3>1. mlist.num = 1
        BY <2>8, <2>14
    <3>2. home' = [k \in Keys |-> s]
        BY <2>9, <3>1 DEF JoinList
    <3>3. InitialCalls(mlist.num) = <<>>
        BY <3>1, InitialErrand
    <3>4. ~Arriving(s)'
        BY <2>9, <3>3 DEF Arriving
    <3>5. \A u \in Slaves \ {s} : ~Arriving(u)
        BY <1>1, ArrivingMoves DEF Calm
    <3>6. \A u \in Slaves : ~Arriving(u)'
        BY <2>12, <3>4, <3>5
    <3>7. \A k \in Keys : Owner(mlist, k) = s
      <4>1. IsSlaveList(mlist, Slaves) /\ Ordered(mlist) /\ Members(mlist) = {s}
        <5>1. Positions(mlist) = {0} /\ p = 0
            BY <2>7, <3>1 DEF Positions
        <5> QED
            BY <1>1, <2>7, <5>1 DEF MasterInv, Members
      <4>2. mlist.num > 0
          BY <3>1
      <4> QED
          BY <4>1, <4>2, OwnerListed
    <3>8. Routed(mlist)'
        BY <2>9, <3>2, <3>7 DEF Routed
    <3>9. \A q \in Positions(mlist) : mlist.nodes[q].id \in Slaves
        BY <1>1, NodeType DEF MasterInv
    <3> QED
        BY <2>9, <2>11, <3>6, <3>8, <3>9 DEF Homes
  <2> QED
      BY <2>13, <2>14
<1> QED
    BY <1>2, <1>3

\* CLIP_DATA is served: by the slave before the one that arrives.
LEMMA ClipPlaces ==
    ASSUME ClusterInv, Calm, Errands, NEW t \in Slaves, NEW s \in Slaves,
           ServeClipData(t, s), NEW N, NEW p, NEW q, N = mlist.num, p = pos[s], q = pos[t]
    PROVE  /\ IsSlaveList(mlist, Slaves) /\ Ordered(mlist) /\ N \in Nat \ {0} /\ N > 1
           /\ p \in Positions(mlist) /\ mlist.nodes[p].id = s
           /\ q \in Positions(mlist) /\ mlist.nodes[q].id = t
           /\ sl[t] = mlist /\ mlist' = mlist /\ st' = st /\ todo' = todo /\ t # s
           /\ job.op = "idle" /\ job' = job /\ st[t] = "run" /\ st[s] = "init"
           /\ t = mlist.nodes[(p + N - 1) % N].id
           /\ (q + 1) % N = p /\ (q + 2) % N = (p + 1) % N
           /\ Arriving(s) /\ \A u \in Slaves : ~Arriving(u)' /\ (Arriving(u) => u = s)
<1>1. /\ MasterInv /\ Calls(s) /\ Holds(s) /\ Errand(s) /\ IsQueue(todo[s]) /\ States(s)
      /\ callee[s] = t /\ callee[s] # NoSlave /\ t # s /\ Head(todo[s]) = -1
      /\ st[t] = "run" /\ caller[t] = NoSlave
      /\ masterVars' = masterVars /\ st' = st /\ todo' = todo /\ sl' = sl
      /\ caller' = [caller EXCEPT ![t] = s]
    BY SlaveFacts, NoSlaveAssumption DEF ServeClipData, ServeSlave, Polling, Errands, Calls
<1>2. todo[s] # <<>> /\ Len(todo[s]) \in Nat \ {0} /\ todo[s][1] = -1
    BY <1>1, TailQueue DEF Calls
<1>3. 1 \in 1..Len(todo[s])
    BY <1>2
<1>4. st[s] = "init" /\ sl[s].num > 1 /\ Moving(s)
    BY <1>1, <1>2, <1>3 DEF Errand, Moving
<1>5. job.op = "idle"
    BY <1>1, <1>4, JobState DEF MasterInv
<1>6. /\ sl[s] = mlist /\ sl[t] = mlist /\ s \in Members(mlist)
      /\ pos[s] \in Positions(mlist) /\ mlist.nodes[pos[s]].id = s
      /\ pos[t] \in Positions(mlist) /\ mlist.nodes[pos[t]].id = t
    BY <1>1, <1>4, <1>5, ServingFacts
<1>7. N = mlist.num /\ p = pos[s] /\ q = pos[t]
    OBVIOUS
<1>8. /\ IsSlaveList(mlist, Slaves) /\ Ordered(mlist) /\ N \in Nat \ {0} /\ N > 1
      /\ p \in 0..(N - 1) /\ q \in 0..(N - 1) /\ p \in Positions(mlist)
    BY <1>1, <1>4, <1>6, <1>7 DEF MasterInv, IsSlaveList, Positions
<1>9. t = mlist.nodes[(p + N - 1) % N].id
  <2>1. t = mlist.nodes[(p + -1 + N) % N].id
      BY <1>1, <1>4, <1>6, <1>7 DEF Errand, Other
  <2>2. p + -1 + N = p + N - 1
      BY <1>8
  <2> QED
      BY <2>1, <2>2
<1>10. q = (p + N - 1) % N
  <2>1. (p + N - 1) % N \in Positions(mlist)
      BY <1>7, <1>8, Distinct
  <2> QED
      BY <1>6, <1>7, <1>8, <1>9, <2>1, OnePlace
<1>11. (q + 1) % N = p /\ (q + 2) % N = (p + 1) % N
  <2>1. q = IF p = 0 THEN N - 1 ELSE p - 1
      BY <1>8, <1>10, Neighbours
  <2>2. (q + 1) % N = p
    <3>1. (q + 1) % N = IF q = N - 1 THEN 0 ELSE q + 1
        BY <1>8, Neighbours
    <3>2. p = IF q = N - 1 THEN 0 ELSE q + 1
        BY <1>8, <2>1
    <3> QED
        BY <3>1, <3>2
  <2>3. CASE p = 0
    <3>1. PICK x : x = q + 2
        OBVIOUS
    <3>2. x \in Nat /\ x < 2 * N /\ ~(x < N) /\ x - N = 1
      <4>1. N \in Nat /\ N > 1
          BY <1>8
      <4>2. x = N - 1 + 2
          BY <2>1, <2>3, <3>1
      <4> QED
          BY <4>1, <4>2
    <3>3. x % N = 1
        BY <1>8, <3>2, ModOnce
    <3>4. 1 % N = 1
        BY <1>8, ModOnce
    <3> QED
        BY <2>2, <2>3, <3>1, <3>3, <3>4
  <2>4. CASE p # 0
    <3>1. q + 2 = p + 1
        BY <1>8, <2>1, <2>4
    <3> QED
        BY <2>2, <3>1
  <2> QED
      BY <2>2, <2>3, <2>4
<1>12. Arriving(s)
  <2>1. ASSUME NEW u \in Slaves PROVE caller[u] # s
      BY <1>1, SlaveFacts DEF Calls
  <2> QED
      BY <1>1, <1>2, <1>4, <1>6, <2>1 DEF Arriving
<1>13. \A u \in Slaves : ~Arriving(u)' /\ (Arriving(u) => u = s)
  <2>1. caller'[t] = s
      BY <1>1 DEF ClusterInv, Shape
  <2>2. ~Arriving(s)'
      BY <1>1, <1>4, <2>1 DEF Arriving
  <2>3. \A u \in Slaves \ {s} : ~Moving(u)
      BY <1>4 DEF Calm
  <2>4. \A u \in Slaves \ {s} : ~Arriving(u)' /\ ~Arriving(u)
      BY <1>1, <2>3 DEF Arriving, Moving
  <2> QED
      BY <2>2, <2>4
<1> QED
    BY <1>1, <1>4, <1>5, <1>6, <1>7, <1>8, <1>9, <1>11, <1>12, <1>13 DEF masterVars

LEMMA HomesClip ==
    ASSUME ClusterInv, Calm, Errands, Homes, NEW t \in Slaves, NEW s \in Slaves,
           ServeClipData(t, s)
    PROVE  Homes'
<1>1. PICK N, p, q : N = mlist.num /\ p = pos[s] /\ q = pos[t]
    OBVIOUS
<1>2. /\ IsSlaveList(mlist, Slaves) /\ Ordered(mlist) /\ N \in Nat \ {0} /\ N > 1
      /\ p \in Positions(mlist) /\ mlist.nodes[p].id = s
      /\ q \in Positions(mlist) /\ mlist.nodes[q].id = t
      /\ sl[t] = mlist /\ mlist' = mlist /\ job.op = "idle" /\ job' = job
      /\ t = mlist.nodes[(p + N - 1) % N].id
      /\ (q + 1) % N = p /\ (q + 2) % N = (p + 1) % N
      /\ Arriving(s) /\ \A u \in Slaves : ~Arriving(u)' /\ (Arriving(u) => u = s)
    BY <1>1, ClipPlaces
<1>3. Node(t, 1).key = Lower(mlist, p) /\ Node(t, 2).key = Upper(mlist, p)
    BY <1>1, <1>2 DEF Node, Lower, Upper
<1>4. home' = [k \in Keys |->
                   IF home[k] = t /\ SplitTakes(Lower(mlist, p), k, Upper(mlist, p))
                   THEN s ELSE home[k]]
    BY <1>3 DEF ServeClipData
<1>5. Routed(RemoveSlave(mlist, p))
    BY <1>2 DEF Homes
<1>6. \A k \in Keys : home'[k] = Owner(mlist, k)
  <2>1. ASSUME NEW k \in Keys PROVE home'[k] = Owner(mlist, k)
    <3>1. RemoveSlave(mlist, p).num > 0
      <4>1. RemoveSlave(mlist, p).num = mlist.num - 1
          BY DEF RemoveSlave
      <4>2. mlist.num \in Nat /\ mlist.num > 1
          BY <1>1, <1>2
      <4> QED
          BY <4>1, <4>2
    <3>2. home[k] = Owner(RemoveSlave(mlist, p), k)
        BY <1>5, <3>1 DEF Routed
    <3>3. /\ mlist.num > 1 /\ mlist.nodes[p].id = s
          /\ t = mlist.nodes[(p + mlist.num - 1) % mlist.num].id
        BY <1>1, <1>2
    <3>4. PICK v, h, u : /\ v = mlist /\ h = home[k] /\ u = t
        OBVIOUS
    <3>5. /\ IsSlaveList(v, Slaves) /\ Ordered(v) /\ v.num > 1 /\ p \in Positions(v)
          /\ u = v.nodes[(p + v.num - 1) % v.num].id /\ h = Owner(RemoveSlave(v, p), k)
      <4>1. u = v.nodes[(p + v.num - 1) % v.num].id /\ v.num > 1
          BY <3>3, <3>4
      <4>2. IsSlaveList(v, Slaves) /\ Ordered(v) /\ p \in Positions(v)
          BY <1>2, <3>4
      <4> QED
          BY <3>2, <3>4, <4>1, <4>2
    <3>6. Owner(v, k) = IF h = u /\ SplitTakes(Lower(v, p), k, Upper(v, p))
                        THEN v.nodes[p].id ELSE h
        BY <3>5, ClipRoutes
    <3> QED
        BY <1>4, <3>3, <3>4, <3>6
  <2> QED
      BY <2>1
<1>7. ~TakenOver'
    BY <1>2 DEF TakenOver
<1>8. \A r \in Positions(mlist) : mlist.nodes[r].id \in Slaves
    BY <1>2, NodeType
<1>9. Routed(mlist)'
    BY <1>2, <1>6 DEF Routed
<1> QED
    BY <1>2, <1>7, <1>8, <1>9 DEF Homes

-----------------------------------------------------------------------------
(* A departure.                                                            *)

LEMMA RmFacts ==
    ASSUME ClusterInv, NEW s \in Slaves, Polling(s), Got(s, "RM_SLAVE")
    PROVE  /\ job.op = "del" /\ Head(toSlave[s]).pos = job.pos
           /\ IsSlaveList(mlist, Slaves) /\ Ordered(mlist)
           /\ job.pos \in Positions(mlist) /\ mlist.nodes[job.pos].id = job.s
           /\ sl[s] = mlist /\ pos[s] \in Positions(mlist) /\ mlist.nodes[pos[s]].id = s
           /\ pos[s] # job.pos /\ mlist.num \in Nat /\ mlist.num > 1
<1>1. MasterInv /\ IsQueue(toSlave[s])
    BY SlaveFacts
<1>2. PICK box, v, p, m : box = toSlave[s] /\ v = sl[s] /\ p = pos[s] /\ m = Head(box)
    OBVIOUS
<1>3. box # <<>> /\ m.cmd = "RM_SLAVE"
    BY <1>2 DEF Got
<1>4. /\ ~(job.op # "idle" /\ job.s = s)
      /\ m = box[1] /\ Requests(s, box) /\ Agrees(s, v, p, box)
    BY <1>2, <1>3, PollingFacts
<1>5. m = Announcement /\ job.op # "idle" /\ BeforeJob(v)
    BY <1>1, <1>2, <1>3, <1>4, NotHeard
<1>6. job.op = "del" /\ m.pos = job.pos
    BY <1>1, <1>3, <1>5 DEF Announcement, MasterInv
<1>7. /\ IsSlaveList(mlist, Slaves) /\ Ordered(mlist)
      /\ job.pos \in Positions(mlist) /\ mlist.nodes[job.pos].id = job.s /\ v = mlist
      /\ p \in Positions(v) /\ v.nodes[p].id = s /\ p # job.pos
    BY <1>1, <1>4, <1>5, <1>6 DEF MasterInv, BeforeJob, Agrees
<1>8. mlist.num \in Nat /\ mlist.num > 1
    BY <1>7 DEF IsSlaveList, Positions
<1> QED
    BY <1>2, <1>6, <1>7, <1>8

\* The position q in a list of n slaves when position p has been taken out.
Shifted(p, q, n) == IF p < q THEN (q - 1 + (n - 1)) % (n - 1) ELSE q

\* HandleRmSlave's test for the predecessor, in the list without the slave that
\* leaves, is one in the list with it.
LEMMA RoleIsPlace ==
    ASSUME NEW n \in Nat, n > 1, NEW p \in 0..(n - 1), NEW q \in 0..(n - 1), p # q
    PROVE  Shifted(p, q, n) = (p - 1 + (n - 1)) % (n - 1) <=> q = (p + n - 1) % n
<1> SUFFICES ASSUME NEW num, num = n - 1, NEW new, new = Shifted(p, q, n)
             PROVE  new = (p - 1 + num) % num <=> q = (p + n - 1) % n
    OBVIOUS
<1>0. new = IF p < q THEN (q - 1 + num) % num ELSE q
    BY DEF Shifted
<1>1. num \in Nat \ {0} /\ n = num + 1 /\ n \in Nat \ {0}
    OBVIOUS
<1>2. (p + n - 1) % n = IF p = 0 THEN n - 1 ELSE p - 1
    BY <1>1, Neighbours
<1>3. PICK x : x = p - 1 + num
    OBVIOUS
<1>4. x % num = IF p = 0 THEN num - 1 ELSE p - 1
  <2>1. x \in Nat /\ x < 2 * num
      BY <1>1, <1>3
  <2>2. x % num = IF x < num THEN x ELSE x - num
      BY <1>1, <2>1, ModOnce
  <2> QED
      BY <1>1, <1>3, <2>1, <2>2
<1>5. p < q => new = q - 1
  <2>1. SUFFICES ASSUME p < q PROVE new = q - 1
      OBVIOUS
  <2>2. PICK y : y = q - 1 + num
      OBVIOUS
  <2>3. y \in Nat /\ y < 2 * num /\ ~(y < num) /\ y - num = q - 1
      BY <1>1, <2>1, <2>2
  <2>4. y % num = q - 1
      BY <1>1, <2>3, ModOnce
  <2> QED
      BY <1>0, <2>1, <2>2, <2>4
<1>6. new = (p - 1 + num) % num <=> new = IF p = 0 THEN num - 1 ELSE p - 1
    BY <1>3, <1>4
<1>7. q = (p + n - 1) % n <=> q = IF p = 0 THEN n - 1 ELSE p - 1
    BY <1>2
<1>8. ~(p < q) => new = q
    BY <1>0
<1>9. (new = IF p = 0 THEN num - 1 ELSE p - 1) <=> (q = IF p = 0 THEN n - 1 ELSE p - 1)
    BY <1>1, <1>5, <1>8
<1> QED
    BY <1>6, <1>7, <1>9

LEMMA PredecessorRole ==
    ASSUME ClusterInv, NEW s \in Slaves, Polling(s), Got(s, "RM_SLAVE")
    PROVE  Role(s) = "predecessor" <=> s = Predecessor(job.pos)
<1>1. /\ Head(toSlave[s]).pos = job.pos
      /\ IsSlaveList(mlist, Slaves) /\ Ordered(mlist) /\ job.pos \in Positions(mlist)
      /\ sl[s] = mlist /\ pos[s] \in Positions(mlist) /\ mlist.nodes[pos[s]].id = s
      /\ pos[s] # job.pos /\ mlist.num \in Nat /\ mlist.num > 1
    BY RmFacts
<1>2. PICK n, p, q : n = mlist.num /\ p = job.pos /\ q = pos[s]
    OBVIOUS
<1>3. n \in Nat /\ n > 1 /\ p \in 0..(n - 1) /\ q \in 0..(n - 1) /\ p # q
    BY <1>1, <1>2 DEF Positions
<1>4. Shifted(p, q, n) = (p - 1 + (n - 1)) % (n - 1) <=> q = (p + n - 1) % n
    BY <1>3, RoleIsPlace
<1>5. Role(s) = "predecessor" <=> Shifted(p, q, n) = (p - 1 + (n - 1)) % (n - 1)
    BY <1>1, <1>2 DEF Role, Shifted
<1>6. q = (p + n - 1) % n <=> s = mlist.nodes[(p + n - 1) % n].id
  <2>1. (p + n - 1) % n \in Positions(mlist)
      BY <1>1, <1>2, Distinct
  <2> QED
      BY <1>1, <1>2, <2>1, OnePlace
<1> QED
    BY <1>2, <1>4, <1>5, <1>6 DEF Predecessor

LEMMA HomesMerge ==
    ASSUME ClusterInv, Calm, Homes, NEW s \in Slaves, MergeBackup1(s) \/ MergeBackup2(s)
    PROVE  Homes'
<1>1. /\ Polling(s) /\ Got(s, "RM_SLAVE") /\ st[s] = "run"
      /\ job.op = "del" /\ Head(toSlave[s]).pos = job.pos
      /\ IsSlaveList(mlist, Slaves) /\ Ordered(mlist)
      /\ job.pos \in Positions(mlist) /\ mlist.nodes[job.pos].id = job.s
      /\ sl[s] = mlist /\ pos[s] \in Positions(mlist) /\ mlist.nodes[pos[s]].id = s
      /\ pos[s] # job.pos /\ mlist.num \in Nat /\ mlist.num > 1
    BY RmFacts DEF MergeBackup1, MergeBackup2, Polling
<1>2. mlist' = mlist /\ job' = job /\ st' = st /\ caller' = caller
    BY DEF MergeBackup1, MergeBackup2, Die, HandleRmSlave, masterVars, slaveVars
<1>3. \A u \in Slaves : ~Arriving(u) /\ ~Arriving(u)'
  <2>1. \A u \in Slaves : Moving(u) => st[u] = "stopping"
      BY <1>1, JobState
  <2> QED
      BY <1>2, <2>1 DEF Arriving, Moving
<1>4. CASE sl' = sl /\ home' = home
    BY <1>2, <1>3, <1>4, SameRoles, HomesKept
<1>5. CASE MergeBackup2(s) /\ HandleRmSlave(s)
  <2>1. s # Predecessor(job.pos) /\ home' = home
      BY <1>1, <1>5, PredecessorRole DEF MergeBackup2
  <2>2. \A u : u # s => sl'[u] = sl[u]
      BY <1>5 DEF HandleRmSlave, ClusterInv, Shape
  <2>3. TakenOver' <=> TakenOver
      BY <1>2, <2>1, <2>2 DEF TakenOver, Predecessor
  <2> QED
      BY <1>2, <1>3, <2>1, <2>3, HomesKept
<1>6. CASE /\ HandleRmSlave(s) /\ Role(s) = "predecessor"
           /\ home' = [k \in Keys |-> IF home[k] = Node(s, 1).id THEN s ELSE home[k]]
  <2>1. s = Predecessor(job.pos)
      BY <1>1, <1>6, PredecessorRole
  <2>2. PICK p, N : p = job.pos /\ N = mlist.num
      OBVIOUS
  <2>3. s = mlist.nodes[(p + N - 1) % N].id
      BY <2>1, <2>2 DEF Predecessor
  <2>4. Node(s, 1).id = mlist.nodes[p].id
    <3>1. PICK q : q = pos[s]
        OBVIOUS
    <3>2. p \in 0..(N - 1) /\ q \in 0..(N - 1) /\ N \in Nat \ {0}
        BY <1>1, <2>2, <3>1 DEF Positions
    <3>3. q = (p + N - 1) % N
      <4>1. (p + N - 1) % N \in Positions(mlist)
          BY <1>1, <2>2, Distinct
      <4> QED
          BY <1>1, <2>3, <3>1, <4>1, OnePlace
    <3>4. q = IF p = 0 THEN N - 1 ELSE p - 1
        BY <3>2, <3>3, Neighbours
    <3>5. (q + 1) % N = IF q = N - 1 THEN 0 ELSE q + 1
        BY <3>2, Neighbours
    <3>6. p = IF q = N - 1 THEN 0 ELSE q + 1
        BY <3>2, <3>4
    <3> QED
        BY <1>1, <2>2, <3>1, <3>5, <3>6 DEF Node
  <2>5. home' = [k \in Keys |-> IF home[k] = mlist.nodes[p].id THEN s ELSE home[k]]
      BY <1>6, <2>4
  <2>6. ~TakenOver
      BY <1>1, <2>1 DEF TakenOver
  <2>7. Routed(mlist)
      BY <1>3, <2>6 DEF Homes
  <2>8. PICK new : new = RemoveSlave(mlist, p)
      OBVIOUS
  <2>9. ASSUME NEW k \in Keys PROVE home'[k] = Owner(new, k)
    <3>1. PICK h : h = home[k]
        OBVIOUS
    <3>2. h = Owner(mlist, k)
        BY <1>1, <2>7, <3>1 DEF Routed
    <3>3. /\ p \in Positions(mlist)
          /\ s = mlist.nodes[(p + mlist.num - 1) % mlist.num].id
        BY <1>1, <2>2, <2>3
    <3>4. Owner(RemoveSlave(mlist, p), k) =
             IF Owner(mlist, k) = mlist.nodes[p].id
             THEN mlist.nodes[(p + mlist.num - 1) % mlist.num].id ELSE Owner(mlist, k)
        BY <1>1, <3>3, MergeRoutes
    <3> QED
        BY <2>5, <2>8, <3>1, <3>2, <3>3, <3>4
  <2>10. sl'[s] = new
      BY <1>1, <1>6, <2>2, <2>8 DEF HandleRmSlave, ClusterInv, Shape
  <2>11. new # mlist
    <3>1. new.num = mlist.num - 1
        BY <2>8 DEF RemoveSlave
    <3> QED
        BY <1>1, <3>1
  <2>12. TakenOver'
      BY <1>1, <1>2, <2>1, <2>10, <2>11 DEF TakenOver, Predecessor
  <2>13. Routed(RemoveSlave(mlist, job.pos))'
      BY <1>2, <2>2, <2>8, <2>9 DEF Routed
  <2>14. \A q \in Positions(mlist) : mlist.nodes[q].id \in Slaves
      BY <1>1, NodeType
  <2> QED
      BY <1>2, <1>3, <2>12, <2>13, <2>14 DEF Homes
<1> QED
    BY <1>4, <1>5, <1>6 DEF MergeBackup1, MergeBackup2, Die, slaveVars

\* A slave that exits has been out of the list: it has no records.
LEMMA HomesExit ==
    ASSUME ClusterInv, Calm, Homes, NEW s \in Slaves, Exit(s)
    PROVE  Homes'
<1>1. /\ ExitSlave(s) /\ st[s] = "stopping" /\ toSlave[s] # <<>> /\ Moving(s)
      /\ IsQueue(toSlave[s]) /\ States(s) /\ MasterInv
    BY SlaveFacts DEF Exit, ExitSlave, Moving
<1>2. s \notin Members(mlist)
  <2>1. Len(toSlave[s]) \in Nat \ {0}
      BY <1>1, TailQueue
  <2>2. 1 \in 1..Len(toSlave[s])
      BY <2>1
  <2>3. toSlave[s][1].cmd = "DEL_SLAVE_R"
      BY <1>1, <2>2 DEF Calm
  <2> QED
      BY <1>1, <2>2, <2>3 DEF States, Leaving, Unlisted
<1>3. job.op = "idle"
  <2>1. SUFFICES ASSUME job.op # "idle" PROVE FALSE
      OBVIOUS
  <2>2. s = job.s
      BY <1>1, <2>1, JobState
  <2>3. mlist.nodes[job.pos].id = s /\ job.pos \in Positions(mlist)
      BY <1>1, <2>1, <2>2 DEF MasterInv
  <2> QED
      BY <1>2, <2>3 DEF Members
<1>4. mlist' = mlist /\ job' = job
    BY <1>1 DEF ExitSlave, Die, masterVars
<1>5. \A u \in Slaves : ~Moving(u)' \/ u = s
  <2>1. \A u \in Slaves \ {s} : st'[u] = st[u]
      BY <1>1 DEF ExitSlave, Die, slaveVars, ClusterInv, Shape
  <2> QED
      BY <1>1, <2>1 DEF Calm, Moving
<1>6. \A u \in Slaves : ~Arriving(u) /\ ~Arriving(u)'
  <2>1. \A u \in Slaves : Arriving(u) => u = s
      BY <1>1, ArrivingMoves DEF Calm
  <2>2. \A u \in Slaves : Arriving(u)' => u = s
      BY <1>5 DEF Arriving, Moving
  <2>3. ~Arriving(s) /\ ~Arriving(s)'
      BY <1>2, <1>4 DEF Arriving
  <2> QED
      BY <2>1, <2>2, <2>3
<1>7. Routed(mlist)
    BY <1>3, <1>6 DEF Homes, TakenOver
<1>8. Routed(mlist)'
  <2>1. SUFFICES ASSUME mlist.num > 0, NEW k \in Keys
                 PROVE  home'[k] = Owner(mlist, k)
      BY <1>4 DEF Routed
  <2>2. home[k] = Owner(mlist, k)
      BY <1>7, <2>1 DEF Routed
  <2>3. Owner(mlist, k) \in Members(mlist)
      BY <1>1, <2>1, OwnerListed DEF MasterInv
  <2>4. home'[k] = IF home[k] = s THEN NoSlave ELSE home[k]
      BY DEF Exit
  <2> QED
      BY <1>2, <2>2, <2>3, <2>4
<1>9. \A q \in Positions(mlist) : mlist.nodes[q].id \in Slaves
    BY <1>1, NodeType DEF MasterInv
<1> QED
    BY <1>3, <1>4, <1>6, <1>8, <1>9 DEF Homes, TakenOver

\* The other things a slave does are not about where the records are.
LEMMA ArrivalKept ==
    ASSUME ClusterInv, Errands, NEW s \in Slaves,
           \/ EnterLoop(s) \/ HandleNewSlave(s) \/ HandleUpdateBackup12(s)
           \/ SendBackupReply(s) \/ CallSlave(s) \/ ReceiveFile(s)
    PROVE  Arriving(s)' <=> Arriving(s)
<1>1. /\ mlist' = mlist /\ Errand(s) /\ Calls(s) /\ Holds(s) /\ IsQueue(todo[s])
      /\ s \in DOMAIN st /\ s \in DOMAIN todo
    BY SlaveFacts DEF Errands, EnterLoop, HandleNewSlave, HandleUpdateBackup12,
       SendBackupReply, CallSlave, ReceiveFile, masterVars, ClusterInv, Shape
<1>2. todo[s] # <<>> => Tail(todo[s]) = <<>> \/ Head(Tail(todo[s])) # -1
  <2>1. SUFFICES ASSUME todo[s] # <<>>, Tail(todo[s]) # <<>>
                 PROVE  Head(Tail(todo[s])) # -1
      OBVIOUS
  <2>2. PICK t : t = Tail(todo[s])
      OBVIOUS
  <2>3. IsQueue(t) /\ \A i \in 1..Len(t) : t[i] # -1
      BY <1>1, <2>1, <2>2, TailErrand
  <2>4. Head(t) = t[1] /\ Len(t) \in Nat \ {0}
      BY <2>1, <2>2, <2>3, TailQueue
  <2>5. 1 \in 1..Len(t)
      BY <2>4
  <2> QED
      BY <2>2, <2>3, <2>4, <2>5
<1>3. CASE EnterLoop(s)
    BY <1>1, <1>3 DEF EnterLoop, Arriving
<1>4. CASE HandleNewSlave(s) \/ HandleUpdateBackup12(s)
    BY <1>4 DEF HandleNewSlave, HandleUpdateBackup12, Polling, Arriving
<1>5. CASE SendBackupReply(s)
    BY <1>1, <1>2, <1>5 DEF SendBackupReply, Working, Arriving
<1>6. CASE CallSlave(s)
  <2>1. PICK k : k = Head(todo[s])
      OBVIOUS
  <2>2. /\ st[s] \in {"init", "run"} /\ todo[s] # <<>> /\ st' = st /\ caller' = caller
        /\ \/ /\ (pos[s] + k + sl[s].num) % sl[s].num = pos[s]
              /\ todo' = [todo EXCEPT ![s] = Tail(todo[s])]
           \/ /\ st[Other(s)] = "exited"
              /\ todo' = [todo EXCEPT ![s] = IF k = -1 THEN <<>> ELSE Tail(todo[s])]
           \/ todo' = todo
      BY <1>6, <2>1 DEF CallSlave, Working, Other
  <2>3. CASE todo' = todo
      BY <1>1, <2>2, <2>3 DEF Arriving
  <2>4. CASE k # -1
      BY <1>1, <1>2, <2>1, <2>2, <2>4 DEF Arriving
  <2>5. CASE k = -1
    <3>1. /\ pos[s] \in Positions(sl[s]) /\ sl[s].num > 1
          /\ IsSlaveList(sl[s], Slaves)
      <4>1. todo[s][1] = -1 /\ 1 \in 1..Len(todo[s])
          BY <1>1, <2>1, <2>2, <2>5, TailQueue
      <4> QED
          BY <1>1, <2>2, <4>1, ServingFacts DEF Errand, Holds
    <3>2. PICK n, p, q : n = sl[s].num /\ p = pos[s] /\ q = (p + n - 1) % n
        OBVIOUS
    <3>3. n \in Nat \ {0} /\ n > 1 /\ p \in 0..(n - 1)
        BY <3>1, <3>2 DEF IsSlaveList, Positions
    <3>4. q = IF p = 0 THEN n - 1 ELSE p - 1
        BY <3>2, <3>3, Neighbours
    <3>5. q # p /\ q \in 0..(n - 1)
        BY <3>3, <3>4
    <3>6. p + k + n = p + n - 1
        BY <2>5, <3>3
    <3>7. (pos[s] + k + sl[s].num) % sl[s].num = q /\ q # pos[s]
        BY <3>2, <3>5, <3>6
    <3>8. Other(s) \in Members(sl[s])
        BY <2>1, <3>2, <3>5, <3>7 DEF Other, Members, Positions
    <3>9. Other(s) \in Members(mlist)
      <4>1. MasterInv /\ States(s)
          BY SlaveFacts
      <4>2. PICK box : Agrees(s, sl[s], pos[s], box)
          BY <2>2, <4>1 DEF States, Serving, Connected
      <4> QED
          BY <3>8, <4>1, <4>2, ViewIsList
    <3>10. st[Other(s)] # "exited"
      <4>1. Other(s) \in Slaves
          BY <3>9, SlaveFacts, MemberIsSlave
      <4> QED
          BY <3>9, <4>1, SlaveFacts DEF States, Unlisted
    <3> QED
        BY <2>2, <2>3, <3>7, <3>10
  <2> QED
      BY <2>4, <2>5
<1>7. CASE ReceiveFile(s)
  <2>1. PICK t \in Slaves : callee[s] = t /\ caller[t] = s
      BY <1>7 DEF ReceiveFile
  <2>2. todo[s] # <<>> /\ todo'[s] = Tail(todo[s]) /\ st' = st
      BY <1>1, <1>7, <2>1, NoSlaveAssumption DEF ReceiveFile, Calls
  <2>3. ~Arriving(s)
      BY <2>1, <1>1, <1>7 DEF Arriving, ReceiveFile
  <2> QED
      BY <1>2, <1>7, <2>2, <2>3 DEF Arriving, ReceiveFile
<1> QED
    BY <1>3, <1>4, <1>5, <1>6, <1>7

\* The slave that is served is not one that arrives, before or after.
LEMMA HomesServe ==
    ASSUME ClusterInv, Homes, NEW t \in Slaves, NEW s \in Slaves,
           ServeBackup(t, s) \/ ServeUpdateBackup2(t, s)
    PROVE  Homes'
<1>1. /\ Head(todo[s]) # -1 /\ callee[s] = t /\ home' = home
      /\ masterVars' = masterVars /\ st' = st /\ todo' = todo /\ sl' = sl
      /\ caller' = caller \/ caller' = [caller EXCEPT ![t] = s]
      /\ Polling(t)
    BY DEF ServeBackup, ServeUpdateBackup2, ServeSlave, Die, slaveVars
<1>2. callee[s] # NoSlave
    BY <1>1, NoSlaveAssumption
<1>3. st[s] # "register"
    BY <1>2, SlaveFacts DEF Holds
<1>4. ~Arriving(s) /\ ~Arriving(s)'
    BY <1>1, <1>3 DEF Arriving
<1>5. caller[t] = NoSlave
    BY <1>1 DEF Polling
<1>6. \A u \in Slaves \ {s}, r \in Slaves : caller'[r] = u <=> caller[r] = u
    BY <1>1, <1>5, NoSlaveAssumption DEF ClusterInv, Shape
<1>7. \A u \in Slaves : Arriving(u)' <=> Arriving(u)
    BY <1>1, <1>4, <1>6, OthersArrive DEF masterVars
<1> QED
    BY <1>1, <1>7, SameRoles, HomesKept DEF masterVars

LEMMA HomesWorks ==
    ASSUME ClusterInv, Errands, Homes, NEW s \in Slaves, home' = home,
           \/ EnterLoop(s) \/ HandleNewSlave(s) \/ HandleUpdateBackup12(s)
           \/ SendBackupReply(s) \/ CallSlave(s) \/ ReceiveFile(s)
    PROVE  Homes'
<1>1. /\ masterVars' = masterVars
      /\ \A u \in Slaves \ {s} : st'[u] = st[u] /\ todo'[u] = todo[u]
      /\ ~HandleNewSlave(s) => sl' = sl
    BY DEF EnterLoop, HandleNewSlave, HandleUpdateBackup12, SendBackupReply, CallSlave,
           ReceiveFile, ClusterInv, Shape
<1>2. \A u \in Slaves \ {s}, t \in Slaves : caller'[t] = u <=> caller[t] = u
  <2>1. CASE ReceiveFile(s)
    <3>1. PICK t \in Slaves : caller[t] = s /\ caller' = [caller EXCEPT ![t] = NoSlave]
        BY <2>1 DEF ReceiveFile
    <3> QED
        BY <3>1, NoSlaveAssumption DEF ClusterInv, Shape
  <2>2. CASE ~ReceiveFile(s)
      BY <2>2 DEF EnterLoop, HandleNewSlave, HandleUpdateBackup12, SendBackupReply, CallSlave
  <2> QED
      BY <2>1, <2>2
<1>3. \A u \in Slaves : Arriving(u)' <=> Arriving(u)
    BY <1>1, <1>2, OthersArrive, ArrivalKept DEF masterVars
<1>4. TakenOver' <=> TakenOver
  <2>1. CASE HandleNewSlave(s)
    <3>1. PICK box, v, p, m : box = toSlave[s] /\ v = sl[s] /\ p = pos[s] /\ m = Head(box)
        OBVIOUS
    <3>2. Polling(s) /\ box # <<>> /\ m.cmd = "NEW_SLAVE"
        BY <2>1, <3>1 DEF HandleNewSlave, Got
    <3>3. m = box[1] /\ Requests(s, box) /\ Agrees(s, v, p, box)
        BY <3>1, <3>2, PollingFacts
    <3>4. m = Announcement /\ job.op # "idle"
        BY <3>1, <3>2, <3>3, SlaveFacts, NotHeard
    <3>5. job.op = "add"
        BY <3>2, <3>4 DEF Announcement
    <3> QED
        BY <1>1, <3>5 DEF TakenOver, masterVars
  <2>2. CASE ~HandleNewSlave(s)
      BY <1>1, <2>2, SameRoles DEF masterVars
  <2> QED
      BY <2>1, <2>2
<1> QED
    BY <1>1, <1>3, <1>4, HomesKept DEF masterVars

LEMMA HomesBegins ==
    ASSUME ClusterInv, Homes, NEW s \in Slaves, StartSlave(s) \/ StopSlave(s), home' = home
    PROVE  Homes'
<1>1. /\ masterVars' = masterVars /\ sl' = sl /\ todo' = todo /\ caller' = caller
      /\ \A u \in Slaves \ {s} : st'[u] = st[u]
    BY DEF StartSlave, StopSlave, ClusterInv, Shape
<1>2. ~Arriving(s) /\ ~Arriving(s)'
  <2>1. CASE StartSlave(s)
    <3>1. s \notin Members(mlist)
        BY <2>1, SlaveFacts DEF StartSlave, States, Unlisted
    <3> QED
        BY <1>1, <3>1 DEF Arriving, masterVars
  <2>2. CASE StopSlave(s)
      BY <2>2 DEF StopSlave, Arriving, ClusterInv, Shape
  <2> QED
      BY <2>1, <2>2
<1>3. \A u \in Slaves : Arriving(u)' <=> Arriving(u)
    BY <1>1, <1>2, OthersArrive DEF masterVars
<1> QED
    BY <1>1, <1>3, SameRoles, HomesKept DEF masterVars

LEMMA HomesNext ==
    ASSUME ClusterInv, Calm, Errands, Homes, [ServiceNext]_allVars
    PROVE  Homes'
<1>1. CASE mlist' = mlist /\ job'.op = job.op /\ job'.pos = job.pos
           /\ slaveVars' = slaveVars /\ home' = home
  <2>1. \A u \in Slaves : Arriving(u)' <=> Arriving(u)
      BY <1>1 DEF Arriving, slaveVars
  <2>2. TakenOver' <=> TakenOver
      BY <1>1, SameRoles DEF slaveVars
  <2> QED
      BY <1>1, <2>1, <2>2, HomesKept
<1>2. CASE UNCHANGED allVars
    BY <1>1, <1>2 DEF allVars, vars, masterVars, serviceVars
<1>3. CASE Input \/ ClientStep \/ Accept \/ Execute
    BY <1>1, <1>3, ClientAlone DEF vars, masterVars
<1>4. CASE RenewBackups
    BY <1>1, <1>4 DEF RenewBackups, Alarm, AlarmOnEmptyList, Die, masterVars
<1>5. CASE MasterWorks
  <2>1. home' = home
      BY <1>5 DEF MasterWorks, serviceVars
  <2>2. CASE NotifyAll
    <3>1. /\ mlist' = mlist /\ slaveVars' = slaveVars
          /\ \/ job' = [job EXCEPT !.i = @ + 1]
             \/ job' = [job EXCEPT !.sent = TRUE]
             \/ job' = [job EXCEPT !.i = @ + 1, !.sent = FALSE]
        BY <2>2 DEF NotifyAll
    <3>2. DOMAIN job = {"op", "s", "pos", "i", "sent"}
        BY <2>2, NotifyFacts
    <3>3. job'.op = job.op /\ job'.pos = job.pos
        BY <3>1, <3>2
    <3> QED
        BY <1>1, <2>1, <3>1, <3>3
  <2>3. CASE AlarmReply
      BY <1>1, <2>1, <2>3 DEF AlarmReply
  <2> QED
      BY <1>5, <2>1, <2>2, <2>3, HomesAdd, HomesDel, HomesFinish DEF MasterWorks, MasterStep
<1>6. ASSUME NEW s \in Slaves, Start(s) \/ Leave(s)
      PROVE  Homes'
    BY <1>6, HomesBegins DEF Start, Leave, serviceVars
<1>7. ASSUME NEW s \in Slaves, FileStep(s)
      PROVE  Homes'
  <2>1. CASE SlaveWorks(s) \/ ReceiveRecords(s)
      BY <2>1, HomesWorks DEF SlaveWorks, ReceiveRecords, serviceVars
  <2> QED
      BY <1>7, <2>1, HomesRegister, HomesClip, HomesMerge, HomesExit, HomesServe DEF FileStep
<1> QED
    BY <1>2, <1>3, <1>4, <1>5, <1>6, <1>7 DEF ServiceNext

\* The invariants that the places of the records rest on.
PlacesInv == ClusterInv /\ Calm /\ Errands /\ Homes

LEMMA PlacesKept ==
    ASSUME ~Overlap
    PROVE  ServiceSpec => []PlacesInv
<1>1. ServiceInit => ClusterInv /\ Calm /\ Errands /\ Homes
  <2>1. ASSUME ServiceInit
        PROVE  ClusterInv /\ Calm /\ Errands /\ Homes
    <3>1. Init /\ ClusterInv /\ Calm
        BY <2>1, InitInv DEF ServiceInit, Init, Calm, Moving
    <3>2. Errands
        BY <3>1, NoMessages DEF Init, Errands, Errand
    <3>3. mlist.num = 0 /\ Positions(mlist) = {} /\ job.op = "idle"
        BY <3>1 DEF Init, EmptySlaveList, Positions, IdleJob
    <3>4. Homes
        BY <3>3 DEF Homes, TakenOver, Routed
    <3> QED
        BY <3>1, <3>2, <3>4
  <2> QED
      BY <2>1
<1>2. ASSUME ClusterInv, Calm, Errands, Homes, [ServiceNext]_allVars
      PROVE  ClusterInv' /\ Calm' /\ Errands' /\ Homes'
  <2>1. [Next]_vars \/ Faults
    <3>1. UNCHANGED allVars => UNCHANGED vars
        BY DEF allVars
    <3> QED
        BY <1>2, <3>1, ServiceSteps
  <2>2. ASSUME [Next]_vars
        PROVE  Calm' /\ Errands'
      BY <1>2, <2>2, CalmNext, ErrandsNext DEF StaysCalm
  <2>3. ASSUME Faults
        PROVE  Calm' /\ Errands'
    <3>1. UNCHANGED <<masterVars, slaveVars, chanVars>>
        BY <2>3 DEF Faults, Die
    <3>2. Calm'
        BY <1>2, <3>1 DEF Calm, Moving, masterVars, slaveVars, chanVars
    <3>3. Errands'
        BY <1>2, <3>1, ErrandKept DEF Errands, slaveVars
    <3> QED
        BY <3>2, <3>3
  <2> QED
      BY <1>2, <2>1, <2>2, <2>3, ServiceKeepsCluster, HomesNext
<1> QED
    BY <1>1, <1>2, PTL DEF ServiceSpec, PlacesInv

\* GetSocket's answers follow the moves of CLIP_DATA and RM_SLAVE, whichever
\* slaves join and leave and in whichever order: when nothing is under way, the
\* home of a key, to which all the splits and merges have taken it, is the slave
\* that a client asks.
LEMMA KeysRouted ==
    ASSUME PlacesInv, Quiet, mlist.num > 0
    PROVE  \A k \in Keys : home[k] = Owner(mlist, k)
<1>1. \A s \in Slaves : ~Arriving(s)
    BY ArrivingMoves DEF PlacesInv, Quiet, Moving
<1>2. ~TakenOver
    BY DEF Quiet, TakenOver, IdleJob
<1> QED
    BY <1>1, <1>2 DEF PlacesInv, Homes, Routed

-----------------------------------------------------------------------------
(* The versions of the lists.                                              *)

\* The slaves that may still be added.
Fresh == {s \in Slaves : st[s] \in {"off", "register"} /\ s \notin Members(mlist)}

\* The master's version counts its joins and its leaves.
Changes == /\ mlist.version + 2 * Cardinality(Fresh) + mlist.num = 2 * Cardinality(Slaves)
           /\ mlist.num <= mlist.version

\* The client's list is one that the master had when nothing was under way.
Seen ==
    cl.list.num > 0 =>
        /\ cl.list.version <= mlist.version
        /\ cl.list.version = mlist.version => cl.list = mlist
        /\ job.op = "add" /\ cl.list.version + 1 = mlist.version =>
              /\ cl.list.num = mlist.num - 1
              /\ cl.list.nodes = RemoveSlave(mlist, job.pos).nodes

LEMMA FreshCount ==
    /\ IsFiniteSet(Fresh) /\ Cardinality(Fresh) \in Nat /\ Cardinality(Slaves) \in Nat
<1>1. IsFiniteSet(Slaves) /\ Fresh \subseteq Slaves
    BY ClusterAssumption DEF Fresh
<1> QED
    BY <1>1, FS_Subset, FS_CardinalityType

\* The version does not wrap around.
LEMMA VersionBound ==
    ASSUME ClusterInv, Changes, 2 * Cardinality(Slaves) < UINT_RANGE
    PROVE  /\ mlist.version \in Nat /\ mlist.num \in Nat
           /\ mlist.num > 0 => /\ mlist.version > 0
                               /\ (mlist.version + 1) % UINT_RANGE = mlist.version + 1
           /\ Fresh # {} => (mlist.version + 1) % UINT_RANGE = mlist.version + 1
<1>1. mlist.version \in Nat /\ mlist.num \in Nat
    BY SlaveFacts DEF ClusterInv, Inv, MasterInv, IsSlaveList
<1>2. PICK c, n, f, v, m : c = Cardinality(Slaves) /\ f = Cardinality(Fresh)
                           /\ v = mlist.version /\ m = mlist.num /\ n = UINT_RANGE
    OBVIOUS
<1>3. c \in Nat /\ f \in Nat /\ v \in Nat /\ m \in Nat /\ n \in Nat \ {0}
    BY <1>1, <1>2, FreshCount, UintAssumption
<1>4. v + 2 * f + m = 2 * c /\ m <= v /\ 2 * c < n
    BY <1>2 DEF Changes
<1>5. Fresh # {} => f > 0
    BY <1>2, <1>3, FreshCount, FS_EmptySet
<1>6. m > 0 \/ f > 0 => v + 1 \in Nat /\ v + 1 < n
    BY <1>3, <1>4
<1>7. ASSUME m > 0 \/ f > 0
      PROVE  (v + 1) % n = v + 1
  <2>1. PICK x \in Nat : x = v + 1 /\ x < n /\ x < 2 * n
      BY <1>3, <1>6, <1>7
  <2> QED
      BY <1>3, <2>1, ModOnce
<1> QED
    BY <1>1, <1>2, <1>3, <1>4, <1>5, <1>7

LEMMA ChangesKept ==
    ASSUME Changes, mlist' = mlist,
           \A s \in Slaves \ Members(mlist) :
              st'[s] \in {"off", "register"} <=> st[s] \in {"off", "register"}
    PROVE  Changes'
<1>1. Fresh' = Fresh
    BY DEF Fresh
<1> QED
    BY <1>1 DEF Changes

\* Whoever takes up its work is listed.
LEMMA RegisterListed ==
    ASSUME ClusterInv, NEW s \in Slaves, Register(s)
    PROVE  s \in Members(mlist) \/ st' = st
<1>1. /\ st[s] = "register" /\ States(s) /\ IsQueue(toSlave[s]) /\ toSlave[s] # <<>>
      /\ MasterInv
    BY SlaveFacts DEF Register
<1>2. CASE Head(toSlave[s]).cmd # "ADD_SLAVE_R"
    BY <1>2 DEF Register, Die, slaveVars
<1>3. CASE Head(toSlave[s]).cmd = "ADD_SLAVE_R"
  <2>1. PICK box : box = toSlave[s]
      OBVIOUS
  <2>2. Head(box) = box[1] /\ Len(box) \in Nat \ {0} /\ 1 \in 1..Len(box)
      BY <1>1, <2>1, TailQueue
  <2>3. ~Asking(s) /\ ~Joining(s)
      BY <1>1, <1>3, <2>1, <2>2 DEF Asking, Joining
  <2>4. Welcomed(s)
      BY <1>1, <2>3 DEF States
  <2>5. PICK v, p : Agrees(s, v, p, Tail(box))
      BY <2>1, <2>4 DEF Welcomed, Connected
  <2> QED
      BY <1>1, <2>5, ViewIsList
<1> QED
    BY <1>2, <1>3

\* A step that changes neither the list nor who has still to join.
LEMMA ChangesStay ==
    ASSUME ClusterInv, Changes, [Next]_vars, mlist' = mlist
    PROVE  Changes'
<1>1. CASE st' = st
    BY <1>1, ChangesKept
<1>2. ASSUME NEW s \in Slaves,
             StartSlave(s) \/ StopSlave(s) \/ StopInHandler(s) \/ EnterLoop(s) \/ ExitSlave(s)
      PROVE  Changes'
  <2>1. /\ \A u \in Slaves \ {s} : st'[u] = st[u]
        /\ st'[s] \in {"off", "register"} <=> st[s] \in {"off", "register"}
      BY <1>2 DEF StartSlave, StopSlave, StopInHandler, Polling, EnterLoop, ExitSlave, Die,
                  slaveVars, ClusterInv, Shape
  <2> QED
      BY <2>1, ChangesKept
<1>3. ASSUME NEW s \in Slaves, Register(s)
      PROVE  Changes'
  <2>1. \A u \in Slaves \ {s} : st'[u] = st[u]
      BY <1>3 DEF Register, Die, slaveVars, ClusterInv, Shape
  <2> QED
      BY <1>3, <2>1, RegisterListed, ChangesKept
<1>4. CASE MasterStep \/ Alarm \/ AlarmOnEmptyList \/ UNCHANGED vars
    BY <1>1, <1>4 DEF MasterStep, AddSlaveRequest, DelSlaveRequest, NotifyAll, FinishRequest,
                      AlarmReply, Alarm, AlarmOnEmptyList, Die, vars, slaveVars
<1>5. ASSUME NEW s \in Slaves, SlaveStep(s)
      PROVE  Changes'
  <2>1. ASSUME \/ HandleNewSlave(s) \/ HandleRmSlave(s) \/ HandleUpdateBackup12(s)
               \/ SendBackupReply(s) \/ CallSlave(s) \/ ReceiveFile(s)
               \/ \E t \in Slaves : ServeSlave(s, t)
        PROVE  st' = st
      BY <2>1 DEF HandleNewSlave, HandleRmSlave, HandleUpdateBackup12, SendBackupReply,
                  CallSlave, ReceiveFile, ServeSlave
  <2> QED
      BY <1>1, <1>2, <1>3, <1>5, <2>1 DEF SlaveStep
<1> QED
    BY <1>2, <1>4, <1>5 DEF Next

\* A join uses up one of those that may still join; a departure does not.
LEMMA ChangesNext ==
    ASSUME ClusterInv, Changes, 2 * Cardinality(Slaves) < UINT_RANGE, [Next]_vars
    PROVE  Changes'
<1>1. MasterInv /\ IsSlaveList(mlist, Slaves) /\ Ordered(mlist)
    BY DEF ClusterInv, Inv, MasterInv
<1>2. PICK c, f, v, m : c = Cardinality(Slaves) /\ f = Cardinality(Fresh)
                        /\ v = mlist.version /\ m = mlist.num
    OBVIOUS
<1>3. /\ c \in Nat /\ f \in Nat /\ v \in Nat /\ m \in Nat
      /\ v + 2 * f + m = 2 * c /\ m <= v
    BY <1>2, FreshCount, VersionBound DEF Changes
<1>4. ASSUME NEW s \in Slaves, AddSlaveRequest(s)
      PROVE  Changes'
  <2>1. st[s] = "register" /\ s \notin Members(mlist) /\ st' = st
      BY <1>4, AddRequestFacts DEF AddSlaveRequest, slaveVars
  <2>2. PICK first : mlist' = AddToSlaveList(mlist, s, first)
      BY <1>4 DEF AddSlaveRequest
  <2>3. /\ mlist'.num = m + 1 /\ mlist'.version = (v + 1) % UINT_RANGE
        /\ Members(mlist)' = Members(mlist) \cup {s}
    <3>1. PICK new : new = AddToSlaveList(mlist, s, first)
        OBVIOUS
    <3>2. /\ new.num = mlist.num + 1 /\ (mlist.version + 1) % UINT_RANGE = new.version
          /\ Members(new) = Members(mlist) \cup {s}
        BY <1>1, <3>1, NewPlace
    <3> QED
        BY <1>2, <2>2, <3>1, <3>2 DEF Members, Positions
  <2>4. s \in Fresh /\ Fresh' = Fresh \ {s}
      BY <2>1, <2>3 DEF Fresh
  <2>5. Cardinality(Fresh') = f - 1
      BY <1>2, <2>4, FreshCount, FS_RemoveElement
  <2>6. mlist'.version = v + 1
      BY <1>2, <2>3, <2>4, VersionBound
  <2> QED
      BY <1>2, <1>3, <2>3, <2>5, <2>6 DEF Changes
<1>5. ASSUME FinishRequest, job.op # "add"
      PROVE  Changes'
  <2>1. /\ mlist' = RemoveSlave(mlist, job.pos) /\ st' = st
        /\ Members(mlist)' \subseteq Members(mlist)
        /\ Members(mlist) \ Members(mlist)' \subseteq {job.s} /\ st[job.s] = "stopping"
        /\ job.pos \in Positions(mlist)
      BY <1>5, FinishFacts, OneLeaves DEF FinishRequest, slaveVars, Members, Positions
  <2>2. Fresh' = Fresh
      BY <2>1 DEF Fresh
  <2>3. m > 0
      BY <1>2, <1>3, <2>1 DEF Positions
  <2>4. mlist'.num = m - 1 /\ mlist'.version = v + 1
      BY <1>2, <2>1, <2>3, VersionBound DEF RemoveSlave
  <2> QED
      BY <1>2, <1>3, <2>2, <2>3, <2>4 DEF Changes
<1> QED
    BY <1>4, <1>5, ChangesStay, ListChanges

\* Only a new request of a slave makes the change at hand a join.
LEMMA JobStays ==
    ASSUME ClusterInv, [Next]_vars, ~\E s \in Slaves : AddSlaveRequest(s)
    PROVE  job'.op = "add" => job.op = "add" /\ job'.pos = job.pos
<1>1. CASE job' = job
    BY <1>1
<1>2. CASE \E s \in Slaves : DelSlaveRequest(s)
    BY <1>2 DEF DelSlaveRequest
<1>3. CASE NotifyAll
  <2>1. DOMAIN job = {"op", "s", "pos", "i", "sent"}
      BY <1>3, NotifyFacts
  <2>2. job'.op = job.op /\ job'.pos = job.pos
      BY <1>3, <2>1 DEF NotifyAll
  <2> QED
      BY <2>2
<1>4. CASE FinishRequest
    BY <1>4 DEF FinishRequest, IdleJob
<1>5. CASE AlarmReply \/ Alarm \/ AlarmOnEmptyList \/ UNCHANGED vars
    BY <1>1, <1>5 DEF AlarmReply, Alarm, AlarmOnEmptyList, Die, vars, masterVars
<1>6. ASSUME NEW s \in Slaves,
             SlaveStep(s) \/ StartSlave(s) \/ StopSlave(s) \/ StopInHandler(s)
      PROVE  job' = job
    BY <1>6 DEF StartSlave, StopSlave, StopInHandler, SlaveStep, Register, EnterLoop, Die,
                HandleNewSlave, HandleRmSlave, HandleUpdateBackup12, SendBackupReply,
                CallSlave, ReceiveFile, ServeSlave, ExitSlave, masterVars
<1> QED
    BY <1>1, <1>2, <1>3, <1>4, <1>5, <1>6 DEF Next, MasterStep

\* What the protocol does while the client keeps its list.
LEMMA SeenProtocol ==
    ASSUME ClusterInv, Changes, Seen, 2 * Cardinality(Slaves) < UINT_RANGE,
           [Next]_vars, cl'.list = cl.list, IsSlaveList(cl.list, Slaves)
    PROVE  Seen'
<1>1. /\ MasterInv /\ IsSlaveList(mlist, Slaves) /\ Ordered(mlist)
      /\ mlist.version \in Nat /\ mlist.num \in Nat /\ cl.list.version \in Nat
    BY VersionBound DEF ClusterInv, Inv, MasterInv, IsSlaveList
<1>2. ASSUME NEW s \in Slaves, AddSlaveRequest(s)
      PROVE  Seen'
  <2>1. st[s] = "register" /\ s \notin Members(mlist)
      BY <1>2, AddRequestFacts
  <2>2. PICK first : mlist' = AddToSlaveList(mlist, s, first)
      BY <1>2 DEF AddSlaveRequest
  <2>3. PICK new, p : new = AddToSlaveList(mlist, s, first) /\ p = NewPos(mlist)
      OBVIOUS
  <2>4. /\ new.num = mlist.num + 1 /\ new.version = (mlist.version + 1) % UINT_RANGE
        /\ RemoveSlave(new, p).nodes = mlist.nodes
      BY <1>1, <2>3, NewPlace
  <2>5. s \in Fresh
      BY <2>1 DEF Fresh
  <2>6. new.version = mlist.version + 1
      BY <2>4, <2>5, VersionBound
  <2>7. mlist' = new /\ job'.op = "add" /\ job'.pos = p
      BY <1>2, <2>2, <2>3 DEF AddSlaveRequest
  <2>8. RemoveSlave(mlist, job.pos)' = RemoveSlave(new, p)
      BY <2>7 DEF RemoveSlave
  <2>9. SUFFICES ASSUME cl.list.num > 0
                 PROVE  /\ cl.list.version <= new.version /\ cl.list.version # new.version
                        /\ cl.list.version + 1 = new.version =>
                              /\ cl.list.num = new.num - 1
                              /\ cl.list.nodes = RemoveSlave(new, p).nodes
      BY <2>7, <2>8 DEF Seen
  <2>10. cl.list.version <= mlist.version /\ (cl.list.version = mlist.version => cl.list = mlist)
      BY <2>9 DEF Seen
  <2> QED
      BY <1>1, <2>4, <2>6, <2>10
<1>3. CASE FinishRequest /\ job.op # "add"
  <2>1. mlist' = RemoveSlave(mlist, job.pos) /\ job.pos \in Positions(mlist)
      BY <1>3, FinishFacts, OneLeaves
  <2>2. mlist.num > 0
      BY <1>1, <2>1 DEF Positions
  <2>3. mlist'.version = mlist.version + 1 /\ job'.op # "add"
      BY <1>3, <2>1, <2>2, VersionBound DEF RemoveSlave, FinishRequest, IdleJob
  <2>4. SUFFICES ASSUME cl.list.num > 0
                 PROVE  cl.list.version <= mlist'.version /\ cl.list.version # mlist'.version
      BY <2>3 DEF Seen
  <2> QED
      BY <1>1, <2>3, <2>4 DEF Seen
<1>4. CASE mlist' = mlist /\ ~\E s \in Slaves : AddSlaveRequest(s)
  <2>1. job'.op = "add" => job.op = "add" /\ job'.pos = job.pos
      BY <1>4, JobStays
  <2> QED
      BY <1>4, <2>1 DEF Seen
<1> QED
    BY <1>2, <1>3, <1>4, ListChanges

\* What the client does by itself, and reads between two requests.
LEMMA SeenClient ==
    ASSUME ClusterInv, Seen, ClientTypes(cl), Input \/ ClientStep \/ Accept \/ Execute
    PROVE  Seen'
<1>1. vars' = vars
    BY ClientAlone
<1>2. mlist' = mlist /\ job' = job
    BY <1>1 DEF vars, masterVars
<1>3. cl'.list \in {cl.list, EmptySlaveList} \/ (job = IdleJob /\ cl'.list = mlist)
  <2>0. cl = [pc |-> cl.pc, op |-> cl.op, key |-> cl.key, val |-> cl.val, list |-> cl.list,
              i |-> cl.i]
      BY DEF ClientTypes
  <2>1. CASE Input
      BY <2>0, <2>1 DEF Input, OpenCommand, QuitCommand, CloseCommand, GetCommand, DelCommand,
                  SetCommand, Client, Send
  <2>2. CASE ReadCloudNodes
      BY <2>0, <2>2 DEF ReadCloudNodes, Client
  <2>3. CASE OpenNode
      BY <2>0, <2>3 DEF OpenNode, Client, NoCommand
  <2>4. CASE AllOpen
      BY <2>0, <2>4 DEF AllOpen, Client, Done, Send
  <2>5. CASE ConnectionLost \/ CloseNode \/ Accept
      BY <2>0, <2>5 DEF ConnectionLost, CloseNode, Accept, Client
  <2>6. CASE AllClosed
      BY <2>0, <2>6 DEF AllClosed, Client, NoCommand
  <2>7. CASE Execute
      BY <2>0, <2>7 DEF Execute, Done
  <2> QED
      BY <2>1, <2>2, <2>3, <2>4, <2>5, <2>6, <2>7 DEF ClientStep
<1>4. CASE cl'.list = cl.list
    BY <1>2, <1>4 DEF Seen
<1>5. CASE cl'.list = EmptySlaveList
    BY <1>5 DEF Seen, EmptySlaveList
<1>6. CASE job = IdleJob /\ cl'.list = mlist
  <2>1. mlist.version \in Nat
      BY DEF ClusterInv, Inv, MasterInv, IsSlaveList
  <2>2. job'.op # "add"
      BY <1>2, <1>6 DEF IdleJob
  <2> QED
      BY <1>2, <1>6, <2>1, <2>2 DEF Seen
<1> QED
    BY <1>3, <1>4, <1>5, <1>6

\* A slave that runs has the records of the keys that the master's list routes
\* to it, also while another one joins or leaves.
LEMMA HomeOfCurrent ==
    ASSUME PlacesInv, NEW s \in Slaves, st[s] = "run", NEW k \in Keys, Owner(mlist, k) = s
    PROVE  home[k] = s
<1>1. /\ ClusterInv /\ Homes
      /\ IsSlaveList(mlist, Slaves) /\ Ordered(mlist) /\ mlist.num \in Nat
    BY DEF PlacesInv, ClusterInv, Inv, MasterInv, IsSlaveList
<1>2. s \in Members(mlist)
    BY <1>1, ServingFacts
<1>3. mlist.num > 0
    BY <1>1, <1>2 DEF Members, Positions
<1>4. ASSUME NEW p \in Positions(mlist), mlist.nodes[p].id # s,
             Routed(RemoveSlave(mlist, p))
      PROVE  home[k] = s
  <2>1. PICK q \in Positions(mlist) : mlist.nodes[q].id = s
      BY <1>2 DEF Members
  <2>2. mlist.num > 1
      BY <1>1, <1>4, <2>1 DEF Positions
  <2>3. RemoveSlave(mlist, p).num > 0
      BY <1>1, <2>2 DEF RemoveSlave
  <2>4. Owner(RemoveSlave(mlist, p), k) = s
      BY <1>1, <1>4, <2>2, MergeRoutes
  <2> QED
      BY <1>4, <2>3, <2>4 DEF Routed
<1>5. ASSUME NEW t \in Slaves, Arriving(t)
      PROVE  home[k] = s
  <2>1. PICK p \in Positions(mlist) : mlist.nodes[p].id = t
      BY <1>5 DEF Arriving, Members
  <2>2. Routed(RemoveSlave(mlist, p))
      BY <1>1, <1>5, <2>1 DEF Homes
  <2>3. t # s
      BY <1>5 DEF Arriving
  <2> QED
      BY <1>4, <2>1, <2>2, <2>3
<1>6. CASE TakenOver
  <2>1. job.op = "del"
      BY <1>6 DEF TakenOver
  <2>2. job.pos \in Positions(mlist) /\ mlist.nodes[job.pos].id = job.s
      BY <1>1, <2>1 DEF ClusterInv, Inv, MasterInv
  <2>3. job.s # s
      BY <1>1, <2>1, SlaveFacts DEF States
  <2> QED
      BY <1>1, <1>4, <1>6, <2>2, <2>3 DEF Homes
<1>7. CASE ~TakenOver /\ \A t \in Slaves : ~Arriving(t)
    BY <1>1, <1>3, <1>7 DEF Homes, Routed
<1> QED
    BY <1>5, <1>6, <1>7

\* The same for the list before a join.
LEMMA HomeBeforeJoin ==
    ASSUME PlacesInv, job.op = "add", NEW k \in Keys, NEW l,
           l.num > 0, l.num = mlist.num - 1, l.nodes = RemoveSlave(mlist, job.pos).nodes
    PROVE  home[k] = Owner(l, k)
<1>1. /\ ClusterInv /\ Homes
      /\ job.pos \in Positions(mlist) /\ mlist.nodes[job.pos].id = job.s
    BY DEF PlacesInv, ClusterInv, Inv, MasterInv
<1>2. job.s \in Slaves /\ job.s \in Members(mlist)
    BY <1>1, NodeType DEF ClusterInv, Inv, MasterInv, Members
<1>3. st[job.s] = "register"
    BY <1>1, <1>2, SlaveFacts DEF States, Joining
<1>4. Arriving(job.s)
    BY <1>2, <1>3 DEF Arriving
<1>5. Routed(RemoveSlave(mlist, job.pos))
    BY <1>1, <1>4 DEF Homes
<1>6. RemoveSlave(mlist, job.pos).num = l.num
    BY DEF RemoveSlave
<1>7. Routed(l)
    BY <1>5, <1>6, SameRouting
<1> QED
    BY <1>7 DEF Routed

\* A version that is not older is that of the master's list, or of the one
\* before a join that the slave has not heard of.
LEMMA AcceptedList ==
    ASSUME ClusterInv, Changes, Seen, 2 * Cardinality(Slaves) < UINT_RANGE,
           IsSlaveList(cl.list, Slaves), cl.list.num > 0,
           NEW s \in Slaves, st[s] = "run", ~(cl.list.version < sl[s].version)
    PROVE  \/ cl.list = mlist
           \/ /\ job.op = "add" /\ cl.list.num = mlist.num - 1
              /\ cl.list.nodes = RemoveSlave(mlist, job.pos).nodes
<1>1. /\ States(s) /\ Holds(s) /\ MasterInv
      /\ mlist.num \in Nat /\ mlist.version \in Nat /\ cl.list.version \in Nat
      /\ sl[s].version \in 0..(UINT_RANGE - 1)
  <2>1. States(s) /\ Holds(s) /\ MasterInv
      BY SlaveFacts
  <2>2. mlist.num \in Nat /\ mlist.version \in Nat
      BY VersionBound
  <2>3. cl.list.version \in 0..(UINT_RANGE - 1) /\ sl[s].version \in 0..(UINT_RANGE - 1)
      BY <2>1 DEF Holds, IsSlaveList
  <2> QED
      BY <2>1, <2>2, <2>3
<1>2. s \in Members(mlist)
    BY ServingFacts
<1>3. mlist.num > 0
    BY <1>1, <1>2 DEF Members, Positions
<1>4. mlist.version > 0 /\ (mlist.version + 1) % UINT_RANGE = mlist.version + 1
    BY <1>3, VersionBound
<1>5. /\ cl.list.version <= mlist.version
      /\ cl.list.version = mlist.version => cl.list = mlist
      /\ job.op = "add" /\ cl.list.version + 1 = mlist.version =>
            /\ cl.list.num = mlist.num - 1
            /\ cl.list.nodes = RemoveSlave(mlist, job.pos).nodes
    BY DEF Seen
<1>6. PICK box : box = toSlave[s]
    OBVIOUS
<1>7. Agrees(s, sl[s], pos[s], box)
    BY <1>1, <1>6 DEF States, Serving, Connected
<1>8. CASE sl[s] = mlist
    BY <1>1, <1>5, <1>8
<1>9. CASE job.op = "add" /\ (sl[s].version + 1) % UINT_RANGE = mlist.version
  <2>1. PICK x, n : x = sl[s].version /\ n = UINT_RANGE
      OBVIOUS
  <2>2. n \in Nat \ {0} /\ x \in Nat /\ x + 1 \in Nat /\ x + 1 <= n /\ x + 1 < 2 * n
    <3>1. n \in Nat \ {0} /\ x \in 0..(n - 1)
        BY <1>1, <2>1, UintAssumption
    <3> QED
        BY <3>1
  <2>3. (x + 1) % n = IF x + 1 < n THEN x + 1 ELSE x + 1 - n
    <3>1. PICK m \in Nat \ {0}, y \in Nat : m = n /\ y = x + 1 /\ y < 2 * m
        BY <2>2
    <3>2. y % m = IF y < m THEN y ELSE y - m
        BY <3>1, ModOnce
    <3> QED
        BY <2>2, <3>1, <3>2
  <2>4. x + 1 = mlist.version
    <3>1. PICK v, y : v = mlist.version /\ y = (x + 1) % n
        OBVIOUS
    <3>2. y = v /\ v > 0 /\ v \in Nat
        BY <1>1, <1>4, <1>9, <2>1, <3>1
    <3>3. x + 1 < n => v = x + 1
        BY <2>3, <3>1, <3>2
    <3>4. x + 1 = n => v = 0
        BY <2>2, <2>3, <3>1, <3>2
    <3> QED
        BY <2>2, <3>1, <3>2, <3>3, <3>4
  <2>5. cl.list.version = mlist.version \/ cl.list.version + 1 = mlist.version
      BY <1>1, <1>5, <2>1, <2>2, <2>4
  <2> QED
      BY <1>5, <1>9, <2>5
<1>10. CASE sl[s] = RemoveSlave(mlist, job.pos)
  <2>1. sl[s].version = mlist.version + 1
      BY <1>4, <1>10 DEF RemoveSlave
  <2> QED
      BY <1>1, <1>5, <2>1
<1> QED
    BY <1>7, <1>8, <1>9, <1>10 DEF Agrees, BeforeJob, AfterJob

LEMMA SeenNext ==
    ASSUME ClusterInv, Changes, Seen, ServiceTypes, 2 * Cardinality(Slaves) < UINT_RANGE,
           [ServiceNext]_allVars
    PROVE  Changes' /\ Seen'
<1>1. CASE Input \/ ClientStep \/ Accept \/ Execute
  <2>1. Seen'
      BY <1>1, SeenClient DEF ServiceTypes
  <2>2. UNCHANGED vars
      BY <1>1, ClientAlone
  <2> QED
      BY <2>1, <2>2, ChangesNext
<1>2. ASSUME ~(Input \/ ClientStep \/ Accept \/ Execute)
      PROVE  cl' = cl
  <2>1. CASE UNCHANGED allVars
      BY <2>1 DEF allVars, serviceVars
  <2>2. CASE MasterWorks \/ RenewBackups
      BY <2>2 DEF MasterWorks, RenewBackups, serviceVars
  <2>3. ASSUME NEW s \in Slaves, Start(s) \/ Leave(s)
        PROVE  cl' = cl
      BY <2>3 DEF Start, Leave, serviceVars
  <2>4. ASSUME NEW s \in Slaves, FileStep(s)
        PROVE  cl' = cl
      BY <2>4 DEF FileStep, SlaveWorks, JoinList, ReceiveRecords, MergeBackup1, MergeBackup2,
                  Exit, ServeClipData, ServeBackup, ServeUpdateBackup2, serviceVars
  <2> QED
      BY <1>2, <2>1, <2>2, <2>3, <2>4 DEF ServiceNext
<1>3. CASE cl' = cl
  <2>1. CASE [Next]_vars
      BY <1>3, <2>1, SeenProtocol, ChangesNext DEF ServiceTypes, ClientTypes
  <2>2. CASE Faults
    <3>1. mlist' = mlist /\ job' = job /\ st' = st
        BY <2>2 DEF Faults, Die, masterVars, slaveVars
    <3>2. Seen'
        BY <1>3, <3>1 DEF Seen
    <3> QED
        BY <3>1, <3>2, ChangesKept
  <2>3. UNCHANGED allVars => UNCHANGED vars
      BY DEF allVars
  <2> QED
      BY <2>1, <2>2, <2>3, ServiceSteps
<1> QED
    BY <1>1, <1>2, <1>3

\* Only the main thread of a slave queues the client's command.
LEMMA OnlyAccept ==
    ASSUME ClientTypes(cl), [ServiceNext]_allVars, cl.pc = "sent", cl'.pc = "queued"
    PROVE  Accept
<1>1. cl' # cl
    BY DEF ClientTypes
<1>2. cl = [pc |-> cl.pc, op |-> cl.op, key |-> cl.key, val |-> cl.val, list |-> cl.list,
            i |-> cl.i]
    BY DEF ClientTypes
<1>3. ~UNCHANGED allVars /\ ~MasterWorks /\ ~RenewBackups
    BY <1>1 DEF allVars, serviceVars, MasterWorks, RenewBackups
<1>4. \A s \in Slaves : ~Start(s) /\ ~Leave(s)
    BY <1>1 DEF Start, Leave, serviceVars
<1>5. \A s \in Slaves : ~FileStep(s)
    BY <1>1 DEF FileStep, SlaveWorks, JoinList, ReceiveRecords, MergeBackup1, MergeBackup2,
                Exit, ServeClipData, ServeBackup, ServeUpdateBackup2, serviceVars
<1>6. ~Input
    BY DEF Input, OpenCommand, QuitCommand, CloseCommand, GetCommand, DelCommand, SetCommand,
           ClientAt
<1>7. ~Execute
    BY DEF Execute, ClientAt
<1>8. ~ReadCloudNodes /\ ~OpenNode /\ ~AllOpen /\ ~CloseNode /\ ~AllClosed
    BY DEF ReadCloudNodes, OpenNode, AllOpen, CloseNode, AllClosed, ClientAt
<1>9. ~ConnectionLost
    BY <1>2 DEF ConnectionLost, Client
<1> QED
    BY <1>3, <1>4, <1>5, <1>6, <1>7, <1>8, <1>9 DEF ServiceNext, ClientStep

\* The comparison of versions in Serve is enough: whatever slaves join and leave
\* between the client's last look at the list and its command, the slave whose
\* main thread queues it has the record of its key at that moment.  Changes do
\* not overlap, and fewer than 2^31 processes are started, so that the unsigned
\* version does not come round.
THEOREM AcceptedWhereStored ==
    ASSUME ~Overlap, 2 * Cardinality(Slaves) < UINT_RANGE
    PROVE  ServiceSpec => AcceptedAtHome
<1>1. ASSUME ServiceInit
      PROVE  ServiceTypes /\ Changes /\ Seen
  <2>1. ServiceTypes
      BY <1>1, NoFilesType, NoRecordsType, NoCommandTypes DEF ServiceInit, ServiceTypes
  <2>2. mlist = EmptySlaveList /\ cl = NoCommand /\ st = [s \in Slaves |-> "off"]
      BY <1>1 DEF ServiceInit, Init
  <2>3. mlist.version = 0 /\ mlist.num = 0 /\ Positions(mlist) = {} /\ cl.list.num = 0
      BY <2>2 DEF EmptySlaveList, Positions, NoCommand
  <2>4. Fresh = Slaves
      BY <2>2, <2>3 DEF Fresh, Members
  <2>5. Changes
      BY <2>3, <2>4, FreshCount DEF Changes
  <2> QED
      BY <2>1, <2>3, <2>5 DEF Seen
<1>2. PlacesInv /\ ServiceTypes /\ Changes /\ Seen /\ [ServiceNext]_allVars
         => ServiceTypes' /\ Changes' /\ Seen'
    BY ServiceKeepsTypes, SeenNext DEF PlacesInv
<1>3. ASSUME PlacesInv, ServiceTypes, Changes, Seen, [ServiceNext]_allVars,
             cl.pc = "sent", cl'.pc = "queued"
      PROVE  home[cl.key] = At
  <2>1. Accept /\ ClientTypes(cl) /\ ClusterInv
      BY <1>3, OnlyAccept DEF ServiceTypes, PlacesInv
  <2>2. PICK s, k, l : s = At /\ k = cl.key /\ l = cl.list /\ s = Owner(l, k)
      BY DEF At
  <2>3. k \in Keys /\ l.num > 0 /\ IsSlaveList(l, Slaves) /\ Ordered(l)
      BY <1>3, <2>1, <2>2 DEF ClientTypes
  <2>4. s \in Slaves
    <3>1. s \in Members(l)
        BY <2>2, <2>3, OwnerListed
    <3> QED
        BY <2>3, <3>1, NodeType DEF Members
  <2>5. st[s] = "run"
      BY <2>1, <2>2 DEF Accept, Polling
  <2>6. ~(l.version < sl[s].version)
      BY <1>3, <2>1, <2>2 DEF Accept, Client, ClientTypes
  <2>7. \/ l = mlist
        \/ /\ job.op = "add" /\ l.num = mlist.num - 1
           /\ l.nodes = RemoveSlave(mlist, job.pos).nodes
      BY <1>3, <2>1, <2>2, <2>3, <2>4, <2>5, <2>6, AcceptedList
  <2>8. home[k] = s
      BY <1>3, <2>2, <2>3, <2>4, <2>5, <2>7, HomeOfCurrent, HomeBeforeJoin
  <2> QED
      BY <2>2, <2>8
<1>4. PlacesInv /\ ServiceTypes /\ Changes /\ Seen /\ [ServiceNext]_allVars
         => [cl.pc = "sent" /\ cl'.pc = "queued" => home[cl.key] = At]_allVars
    BY <1>3
<1>5. ServiceSpec => []PlacesInv
    BY PlacesKept
<1> QED
    BY <1>1, <1>2, <1>4, <1>5, PTL DEF ServiceSpec, AcceptedAtHome

-----------------------------------------------------------------------------
(* What the operations on the files of a slave do to its backups.          *)

\* The two backups are two files.
Apart(f) == f.dir[1] = f.dir[2] => f.dir[1] = 0

\* No handle is left open, as before the first merge.
Clean(f) == f.held = <<0, 0>> /\ f.torn = {}

\* The other backup.
Twin(d) == 3 - d

LEMMA TwoBackups == \A d \in 1..2 : /\ Twin(d) \in 1..2 /\ Twin(d) # d
                                    /\ \A e \in 1..2 : e = d \/ e = Twin(d)
    BY DEF Twin

LEMMA NewFileFacts ==
    ASSUME NEW f \in FileStates, NEW d \in 1..2, NEW recs \in Records, NEW g,
           g = NewFile(f, d, recs)
    PROVE  /\ g \in FileStates /\ g.db = f.db /\ g.held = f.held /\ g.torn = f.torn
           /\ g.dir[d] # 0 /\ Backup(g, d) = recs
           /\ g.dir[d] \notin Used(f)
           /\ \A e \in 1..2 \ {d} : g.dir[e] = f.dir[e] /\ Backup(g, e) = Backup(f, e)
           /\ Apart(g)
<1>1. PICK n : n = CHOOSE i \in Inodes \ Used(f) : \A j \in Inodes \ Used(f) : i <= j
    OBVIOUS
<1>2. n \in Inodes /\ n \notin Used(f) /\ n # 0
    BY <1>1, FreeInode DEF Inodes
<1>3. g = [f EXCEPT !.dir[d] = n, !.data[n] = recs]
    BY <1>1 DEF NewFile
<1>4. PICK dir, data : dir = [f.dir EXCEPT ![d] = n] /\ data = [f.data EXCEPT ![n] = recs]
    OBVIOUS
<1>5. g = [f EXCEPT !.dir = dir, !.data = data]
    BY <1>3, <1>4 DEF FileStates
<1>6. /\ g.db = f.db /\ g.held = f.held /\ g.torn = f.torn /\ g.dir = dir /\ g.data = data
    BY <1>5 DEF FileStates
<1>7. /\ dir[d] = n /\ data[n] = recs
      /\ \A e \in 1..2 \ {d} : dir[e] = f.dir[e] /\ f.dir[e] # n
      /\ \A m \in Inodes \ {n} : data[m] = f.data[m]
      /\ \A e \in 1..2 : f.dir[e] \in Inodes \cup {0}
  <2>1. f.dir \in [1..2 -> Inodes \cup {0}] /\ f.data \in [Inodes -> Records]
      BY DEF FileStates
  <2>2. \A e \in 1..2 : f.dir[e] # n
      BY <1>2 DEF Used
  <2> QED
      BY <1>2, <1>4, <2>1, <2>2
<1>8. Backup(g, d) = recs /\ g.dir[d] # 0 /\ g.dir[d] \notin Used(f)
    BY <1>2, <1>6, <1>7 DEF Backup
<1>9. ASSUME NEW e \in 1..2 \ {d}
      PROVE  g.dir[e] = f.dir[e] /\ Backup(g, e) = Backup(f, e)
    BY <1>6, <1>7 DEF Backup
<1>10. Apart(g)
    BY <1>6, <1>7, TwoBackups DEF Apart
<1>11. g \in FileStates
    BY NewFileType
<1> QED
    BY <1>6, <1>8, <1>9, <1>10, <1>11

LEMMA CollectFacts ==
    ASSUME NEW f \in FileStates, NEW g, g = Collect(f)
    PROVE  /\ g \in FileStates /\ g.db = f.db /\ g.dir = f.dir /\ g.held = f.held
           /\ \A d \in 1..2 : Backup(g, d) = Backup(f, d)
           /\ Apart(f) => Apart(g)
           /\ Clean(f) => Clean(g)
<1>1. /\ g.db = f.db /\ g.dir = f.dir /\ g.held = f.held /\ g.torn = f.torn \cap Used(f)
      /\ g.data = [n \in Inodes |-> IF n \in Used(f) THEN f.data[n] ELSE NoRecords]
    BY DEF Collect, FileStates
<1>2. ASSUME NEW d \in 1..2 PROVE Backup(g, d) = Backup(f, d)
  <2>1. f.dir[d] \in Used(f) /\ f.dir[d] \in Inodes \cup {0}
      BY DEF Used, FileStates
  <2> QED
      BY <1>1, <2>1 DEF Backup
<1>3. g \in FileStates
    BY CollectType
<1> QED
    BY <1>1, <1>2, <1>3 DEF Apart, Clean

LEMMA MoveFacts ==
    ASSUME NEW f \in FileStates, NEW d \in 1..2, NEW e \in 1..2, d # e,
           NEW g, g = Move(f, d, e)
    PROVE  /\ g \in FileStates /\ g.db = f.db /\ g.held = f.held /\ g.torn = f.torn
           /\ f.dir[d] # 0 => /\ Backup(g, e) = Backup(f, d) /\ g.dir[e] # 0
                              /\ Backup(g, d) = NoRecords /\ g.dir[d] = 0
           /\ f.dir[d] = 0 => g = f
           /\ Apart(f) => Apart(g)
<1>1. g \in FileStates
    BY MoveType
<1>2. CASE f.dir[d] = 0
    BY <1>1, <1>2 DEF Move
<1>3. CASE f.dir[d] # 0
  <2>1. g = [f EXCEPT !.dir[e] = f.dir[d], !.dir[d] = 0]
      BY <1>3 DEF Move
  <2>2. PICK dir : dir = [f.dir EXCEPT ![e] = f.dir[d], ![d] = 0]
      OBVIOUS
  <2>3. dir[e] = f.dir[d] /\ dir[d] = 0
      BY <2>2 DEF FileStates
  <2>4. g = [f EXCEPT !.dir = dir]
      BY <2>1, <2>2 DEF FileStates
  <2>5. /\ g.db = f.db /\ g.held = f.held /\ g.torn = f.torn /\ g.dir = dir
        /\ g.data = f.data
      BY <2>4 DEF FileStates
  <2>6. Backup(g, e) = Backup(f, d) /\ g.dir[e] # 0 /\ Backup(g, d) = NoRecords /\ g.dir[d] = 0
      BY <1>3, <2>3, <2>5 DEF Backup
  <2>7. Apart(g)
      BY <1>3, <2>3, <2>5 DEF Apart
  <2> QED
      BY <1>1, <1>3, <2>5, <2>6, <2>7
<1> QED
    BY <1>2, <1>3

LEMMA RecvFileFacts ==
    ASSUME NEW f \in FileStates, NEW d \in 1..2, NEW recs \in Records, Apart(f),
           NEW g, g = RecvFile(f, d, recs)
    PROVE  /\ g \in FileStates /\ g.db = f.db /\ g.held = f.held
           /\ g.dir[d] # 0 /\ Backup(g, d) = recs
           /\ \A e \in 1..2 \ {d} : g.dir[e] = f.dir[e] /\ Backup(g, e) = Backup(f, e)
           /\ Apart(g)
           /\ Clean(f) => Clean(g)
<1>1. g \in FileStates
    BY RecvFileType
<1>2. CASE f.dir[d] = 0
  <2>1. g = NewFile(f, d, recs)
      BY <1>2 DEF RecvFile
  <2> QED
      BY <2>1, NewFileFacts DEF Clean
<1>3. CASE f.dir[d] # 0
  <2>1. PICK n : n = f.dir[d]
      OBVIOUS
  <2>2. n \in Inodes /\ n # 0
      BY <1>3, <2>1 DEF FileStates
  <2>3. g = [f EXCEPT !.data[n] = recs, !.torn = f.torn \cup ({n} \cap {f.held[1], f.held[2]})]
      BY <1>3, <2>1 DEF RecvFile
  <2>4. PICK data, torn : /\ data = [f.data EXCEPT ![n] = recs]
                          /\ torn = f.torn \cup ({n} \cap {f.held[1], f.held[2]})
      OBVIOUS
  <2>5. g = [f EXCEPT !.data = data, !.torn = torn]
      BY <2>3, <2>4 DEF FileStates
  <2>6. g.db = f.db /\ g.held = f.held /\ g.dir = f.dir /\ g.data = data /\ g.torn = torn
      BY <2>5 DEF FileStates
  <2>7. data[n] = recs /\ \A m \in Inodes \ {n} : data[m] = f.data[m]
      BY <2>2, <2>4 DEF FileStates
  <2>8. g.dir[d] # 0 /\ Backup(g, d) = recs
      BY <2>1, <2>2, <2>6, <2>7 DEF Backup
  <2>9. ASSUME NEW e \in 1..2 \ {d}
        PROVE  g.dir[e] = f.dir[e] /\ Backup(g, e) = Backup(f, e)
    <3>1. f.dir[e] # n /\ f.dir[e] \in Inodes \cup {0}
        BY <1>3, <2>1, TwoBackups DEF Apart, FileStates
    <3> QED
        BY <2>6, <2>7, <3>1 DEF Backup
  <2>10. Apart(g)
      BY <2>6 DEF Apart
  <2>11. Clean(f) => Clean(g)
      BY <2>2, <2>4, <2>6 DEF Clean
  <2> QED
      BY <1>1, <2>6, <2>8, <2>9, <2>10, <2>11
<1> QED
    BY <1>2, <1>3

\* CLIP_DATA: backup1 becomes backup2, and what the new successor gets backup1.
LEMMA ClipDataFacts ==
    ASSUME NEW f \in FileStates, NEW l, NEW u, NEW g, g = ClipData(f, l, u)
    PROVE  /\ g \in FileStates /\ g.db = Kept(f.db, l, u)
           /\ Backup(g, 1) = Taken(f.db, l, u) /\ g.dir[1] # 0
           /\ f.dir[1] # 0 => Backup(g, 2) = Backup(f, 1) /\ g.dir[2] # 0
           /\ f.dir[1] = 0 => Backup(g, 2) = Backup(f, 2)
           /\ Apart(g)
           /\ Clean(f) => Clean(g)
<1>1. PICK m, h : m = Move(f, 1, 2) /\ h = [m EXCEPT !.db = Kept(f.db, l, u)]
    OBVIOUS
<1>2. /\ m \in FileStates /\ m.db = f.db /\ m.held = f.held /\ m.torn = f.torn
      /\ f.dir[1] # 0 => Backup(m, 2) = Backup(f, 1) /\ m.dir[2] # 0
      /\ f.dir[1] = 0 => m = f
    BY <1>1, MoveFacts
<1>3. f.db \in Records /\ Kept(f.db, l, u) \in Records /\ Taken(f.db, l, u) \in Records
    BY SplitType DEF FileStates
<1>4. /\ h \in FileStates /\ h.db = Kept(f.db, l, u) /\ h.held = m.held /\ h.torn = m.torn
      /\ h.dir = m.dir /\ h.data = m.data
    BY <1>1, <1>2, <1>3 DEF FileStates
<1>5. Backup(h, 2) = Backup(m, 2)
    BY <1>4 DEF Backup
<1>6. PICK taken, e : taken = Taken(f.db, l, u) /\ e = NewFile(h, 1, taken)
    OBVIOUS
<1>7. /\ e \in FileStates /\ e.db = h.db /\ e.held = h.held /\ e.torn = h.torn
      /\ e.dir[1] # 0 /\ Backup(e, 1) = taken
      /\ e.dir[2] = h.dir[2] /\ Backup(e, 2) = Backup(h, 2) /\ Apart(e)
  <2>1. taken \in Records
      BY <1>3, <1>6
  <2> QED
      BY <1>4, <1>6, <2>1, NewFileFacts
<1>8. g = Collect(e)
    BY <1>1, <1>6 DEF ClipData
<1>9. /\ g \in FileStates /\ g.db = e.db /\ g.dir = e.dir
      /\ Backup(g, 1) = Backup(e, 1) /\ Backup(g, 2) = Backup(e, 2)
      /\ Apart(g) /\ (Clean(e) => Clean(g))
    BY <1>7, <1>8, CollectFacts
<1>10. Clean(f) => Clean(e)
    BY <1>2, <1>4, <1>7 DEF Clean
<1> QED
    BY <1>2, <1>4, <1>5, <1>6, <1>7, <1>9, <1>10

\* UPDATE_BACKUP2: backup1 is split.
LEMMA UpdateBackup2Facts ==
    ASSUME NEW f \in FileStates, NEW l, NEW u, Apart(f), NEW g, g = UpdateBackup2(f, l, u)
    PROVE  /\ g \in FileStates /\ g.db = f.db
           /\ Backup(g, 1) = Kept(Backup(f, 1), l, u) /\ g.dir[1] # 0
           /\ Backup(g, 2) = Taken(Backup(f, 1), l, u) /\ g.dir[2] # 0
           /\ Apart(g)
           /\ Clean(f) => Clean(g)
<1>1. PICK old, kept, taken, m :
           /\ old = Backup(f, 1) /\ kept = Kept(old, l, u) /\ taken = Taken(old, l, u)
           /\ m = Remove(f, 2)
    OBVIOUS
<1>2. old \in Records /\ kept \in Records /\ taken \in Records
    BY <1>1, BackupType, SplitType
<1>3. /\ m \in FileStates /\ m.db = f.db /\ m.held = f.held /\ m.torn = f.torn
      /\ m.dir[2] = 0 /\ Apart(m)
    BY <1>1, MoveType DEF Remove, FileStates, Apart
<1>4. PICK h : h = RecvFile(m, 1, kept)
    OBVIOUS
<1>5. /\ h \in FileStates /\ h.db = m.db /\ h.held = m.held
      /\ h.dir[1] # 0 /\ Backup(h, 1) = kept /\ (Clean(m) => Clean(h))
  <2>1. m \in FileStates /\ kept \in Records /\ Apart(m) /\ 1 \in 1..2
      BY <1>2, <1>3
  <2> QED
      BY <1>3, <1>4, <2>1, RecvFileFacts
<1>6. PICK e : e = NewFile(h, 2, taken)
    OBVIOUS
<1>7. /\ e \in FileStates /\ e.db = h.db /\ e.held = h.held /\ e.torn = h.torn
      /\ e.dir[2] # 0 /\ Backup(e, 2) = taken
      /\ e.dir[1] = h.dir[1] /\ Backup(e, 1) = Backup(h, 1) /\ Apart(e)
  <2>1. h \in FileStates /\ taken \in Records /\ 2 \in 1..2 /\ 1 \in 1..2 \ {2}
      BY <1>2, <1>5
  <2>2. /\ e \in FileStates /\ e.db = h.db /\ e.held = h.held /\ e.torn = h.torn
        /\ e.dir[2] # 0 /\ Backup(e, 2) = taken
        /\ \A d \in 1..2 \ {2} : e.dir[d] = h.dir[d] /\ Backup(e, d) = Backup(h, d)
        /\ Apart(e)
      BY <1>6, <2>1, NewFileFacts
  <2> QED
      BY <2>1, <2>2
<1>8. g = Collect(e)
    BY <1>1, <1>4, <1>6 DEF UpdateBackup2
<1>9. /\ g \in FileStates /\ g.db = e.db /\ g.dir = e.dir
      /\ Backup(g, 1) = Backup(e, 1) /\ Backup(g, 2) = Backup(e, 2)
      /\ Apart(g) /\ (Clean(e) => Clean(g))
    BY <1>7, <1>8, CollectFacts
<1>10. Clean(f) => Clean(e)
    BY <1>3, <1>5, <1>7 DEF Clean
<1> QED
    BY <1>1, <1>3, <1>5, <1>7, <1>9, <1>10

\* In a slave that has not merged before, DBCreate opens the backup that is
\* there, or a new one.
LEMMA OpenBackupFacts ==
    ASSUME NEW f \in FileStates, NEW d \in 1..2, f.held[d] = 0, Apart(f),
           NEW g, g = OpenBackup(f, d)
    PROVE  /\ g \in FileStates /\ g.db = f.db /\ g.torn = f.torn
           /\ g.held[d] = g.dir[d] /\ g.dir[d] # 0
           /\ \A e \in 1..2 \ {d} : g.held[e] = f.held[e] /\ g.dir[e] = f.dir[e]
           /\ \A e \in 1..2 : Backup(g, e) = Backup(f, e)
           /\ Apart(g)
<1>1. PICK h : h = IF f.dir[d] = 0 THEN NewFile(f, d, NoRecords) ELSE f
    OBVIOUS
<1>2. /\ h \in FileStates /\ h.db = f.db /\ h.torn = f.torn /\ h.held = f.held
      /\ h.dir[d] # 0
      /\ \A e \in 1..2 \ {d} : h.dir[e] = f.dir[e]
      /\ \A e \in 1..2 : Backup(h, e) = Backup(f, e)
      /\ Apart(h)
  <2>1. CASE f.dir[d] = 0
    <3>1. h = NewFile(f, d, NoRecords)
        BY <1>1, <2>1
    <3>2. /\ h \in FileStates /\ h.db = f.db /\ h.torn = f.torn /\ h.held = f.held
          /\ h.dir[d] # 0 /\ Backup(h, d) = NoRecords
          /\ \A e \in 1..2 \ {d} : h.dir[e] = f.dir[e] /\ Backup(h, e) = Backup(f, e)
          /\ Apart(h)
        BY <3>1, NoRecordsType, NewFileFacts
    <3>3. Backup(f, d) = NoRecords
        BY <2>1 DEF Backup
    <3> QED
        BY <3>2, <3>3
  <2>2. CASE f.dir[d] # 0
      BY <1>1, <2>2
  <2> QED
      BY <2>1, <2>2
<1>3. g = [h EXCEPT !.held[d] = h.dir[d]]
    BY <1>1 DEF OpenBackup
<1>4. PICK held : held = [h.held EXCEPT ![d] = h.dir[d]]
    OBVIOUS
<1>5. held[d] = h.dir[d] /\ \A e \in 1..2 \ {d} : held[e] = h.held[e]
    BY <1>2, <1>4 DEF FileStates
<1>6. g = [h EXCEPT !.held = held]
    BY <1>2, <1>3, <1>4 DEF FileStates
<1>7. g.db = h.db /\ g.torn = h.torn /\ g.dir = h.dir /\ g.data = h.data /\ g.held = held
    BY <1>2, <1>6 DEF FileStates
<1>8. g \in FileStates
    BY OpenBackupType
<1>9. \A e \in 1..2 : Backup(g, e) = Backup(h, e)
    BY <1>7 DEF Backup
<1>10. Apart(g)
    BY <1>2, <1>7 DEF Apart
<1> QED
    BY <1>2, <1>5, <1>7, <1>8, <1>9, <1>10

\* A walk through a file that has not been overwritten finds what is in it.
LEMMA FoundFacts ==
    ASSUME NEW f \in FileStates, f.torn = {}, NEW n \in Inodes, NEW recs \in Found(f, n)
    PROVE  recs = f.data[n]
<1>1. recs \in Records /\ f.data[n] \in Records /\ \A k \in Keys : recs[k] = f.data[n][k]
    BY DEF Found, FileStates
<1> QED
    BY <1>1 DEF Records

\* The successor leaves.
LEMMA SuccessorLeftFacts ==
    ASSUME NEW f \in FileStates, Clean(f), Apart(f), NEW g \in SuccessorLeft(f)
    PROVE  /\ g.db = PutAll(f.db, Backup(f, 1))
           /\ f.dir[2] # 0 => Backup(g, 1) = Backup(f, 2) /\ g.dir[1] # 0
           /\ Apart(g)
<1>1. PICK e : e = OpenBackup(f, 1)
    OBVIOUS
<1>2. f.held[1] = 0 /\ f.torn = {}
    BY DEF Clean
<1>3. /\ e \in FileStates /\ e.db = f.db /\ e.torn = {}
      /\ e.held[1] = e.dir[1] /\ e.dir[1] # 0 /\ e.dir[2] = f.dir[2]
      /\ Backup(e, 1) = Backup(f, 1) /\ Backup(e, 2) = Backup(f, 2) /\ Apart(e)
    BY <1>1, <1>2, OpenBackupFacts
<1>4. PICK n : n = e.held[1]
    OBVIOUS
<1>5. n \in Inodes /\ e.dir[1] = n /\ e.dir[2] # n /\ e.data[n] = Backup(f, 1)
    BY <1>3, <1>4 DEF FileStates, Apart, Backup
<1>6. PICK h \in MergeIntoDB(f, 1) : g = Collect(Move(h, 2, 1))
    BY DEF SuccessorLeft
<1>7. PICK recs \in Found(e, n) : h = [e EXCEPT !.db = PutAll(@, recs), !.data[n] = NoRecords]
    BY <1>1, <1>4, <1>6 DEF MergeIntoDB
<1>8. recs = Backup(f, 1)
    BY <1>3, <1>5, <1>7, FoundFacts
<1>9. h \in FileStates
    BY <1>6, MergeTypes
<1>10. PICK data : data = [e.data EXCEPT ![n] = NoRecords]
    OBVIOUS
<1>11. h = [e EXCEPT !.db = PutAll(e.db, recs), !.data = data]
    BY <1>3, <1>7, <1>10 DEF FileStates
<1>12. h.db = PutAll(e.db, recs) /\ h.dir = e.dir /\ h.data = data
    BY <1>3, <1>11 DEF FileStates
<1>13. Backup(h, 2) = Backup(f, 2) /\ Apart(h) /\ h.dir[2] = f.dir[2]
  <2>1. \A m \in Inodes \ {n} : data[m] = e.data[m]
      BY <1>3, <1>10 DEF FileStates
  <2>2. e.dir[2] \in Inodes \cup {0}
      BY <1>3 DEF FileStates
  <2> QED
      BY <1>3, <1>5, <1>12, <2>1, <2>2 DEF Backup, Apart
<1>14. PICK m : m = Move(h, 2, 1)
    OBVIOUS
<1>15. /\ m \in FileStates /\ m.db = h.db /\ Apart(m)
       /\ h.dir[2] # 0 => Backup(m, 1) = Backup(h, 2) /\ m.dir[1] # 0
    BY <1>9, <1>13, <1>14, MoveFacts
<1>16. g.db = m.db /\ g.dir = m.dir /\ Backup(g, 1) = Backup(m, 1) /\ Apart(g)
    BY <1>6, <1>14, <1>15, CollectFacts
<1> QED
    BY <1>3, <1>8, <1>12, <1>13, <1>15, <1>16

\* The second successor leaves.
LEMMA SecondSuccessorLeftFacts ==
    ASSUME NEW f \in FileStates, Clean(f), Apart(f), NEW g \in SecondSuccessorLeft(f)
    PROVE  /\ g.db = f.db
           /\ Backup(g, 1) = PutAll(Backup(f, 1), Backup(f, 2)) /\ g.dir[1] # 0
           /\ Apart(g)
<1>1. PICK c, e : c = OpenBackup(f, 2) /\ e = OpenBackup(c, 1)
    OBVIOUS
<1>2. f.held[1] = 0 /\ f.held[2] = 0 /\ f.torn = {}
    BY DEF Clean
<1>3. /\ c \in FileStates /\ c.db = f.db /\ c.torn = {} /\ c.held[1] = 0
      /\ c.held[2] = c.dir[2] /\ c.dir[2] # 0
      /\ Backup(c, 1) = Backup(f, 1) /\ Backup(c, 2) = Backup(f, 2) /\ Apart(c)
    BY <1>1, <1>2, OpenBackupFacts
<1>4. /\ e \in FileStates /\ e.db = f.db /\ e.torn = {}
      /\ e.held[1] = e.dir[1] /\ e.dir[1] # 0 /\ e.held[2] = c.held[2] /\ e.dir[2] = c.dir[2]
      /\ Backup(e, 1) = Backup(c, 1) /\ Backup(e, 2) = Backup(c, 2) /\ Apart(e)
    BY <1>1, <1>3, OpenBackupFacts
<1>5. PICK n, m : n = e.held[1] /\ m = e.held[2]
    OBVIOUS
<1>6. /\ n \in Inodes /\ m \in Inodes /\ n # m /\ e.dir[1] = n
      /\ e.data[n] = Backup(f, 1) /\ e.data[m] = Backup(f, 2)
    BY <1>3, <1>4, <1>5 DEF FileStates, Apart, Backup
<1>7. PICK h \in MergeBackups(f) : g = Collect(Remove(h, 2))
    BY DEF SecondSuccessorLeft
<1>8. PICK recs \in Found(e, m) : h = [e EXCEPT !.data[m] = NoRecords,
                                                !.data[n] = PutAll(e.data[n], recs)]
    BY <1>1, <1>5, <1>7 DEF MergeBackups
<1>9. recs = Backup(f, 2)
    BY <1>4, <1>6, <1>8, FoundFacts
<1>10. PICK data : data = [e.data EXCEPT ![m] = NoRecords, ![n] = PutAll(e.data[n], recs)]
    OBVIOUS
<1>11. h = [e EXCEPT !.data = data]
    BY <1>4, <1>8, <1>10 DEF FileStates
<1>12. h.db = e.db /\ h.dir = e.dir /\ h.data = data /\ h \in FileStates
    BY <1>4, <1>7, <1>11, MergeTypes DEF FileStates
<1>13. Backup(h, 1) = PutAll(Backup(f, 1), Backup(f, 2)) /\ h.dir[1] # 0
  <2>1. data[n] = PutAll(e.data[n], recs)
      BY <1>4, <1>6, <1>10 DEF FileStates
  <2> QED
      BY <1>4, <1>6, <1>9, <1>12, <2>1 DEF Backup
<1>14. PICK r : r = Remove(h, 2)
    OBVIOUS
<1>15. r \in FileStates /\ r.db = h.db /\ r.dir[1] = h.dir[1] /\ r.data = h.data /\ r.dir[2] = 0
  <2>1. PICK dir : dir = [h.dir EXCEPT ![2] = 0]
      OBVIOUS
  <2>2. r = [h EXCEPT !.dir = dir] /\ dir[1] = h.dir[1] /\ dir[2] = 0
      BY <1>12, <1>14, <2>1 DEF Remove, FileStates
  <2>3. r \in FileStates
      BY <1>12, <1>14, MoveType
  <2> QED
      BY <1>12, <2>2, <2>3 DEF FileStates
<1>16. Backup(r, 1) = Backup(h, 1) /\ Apart(r)
    BY <1>15 DEF Backup, Apart
<1>17. g.db = r.db /\ g.dir = r.dir /\ Backup(g, 1) = Backup(r, 1) /\ Apart(g)
    BY <1>7, <1>14, <1>15, <1>16, CollectFacts
<1> QED
    BY <1>4, <1>12, <1>13, <1>15, <1>16, <1>17

-----------------------------------------------------------------------------
(* What a slave has left to do.                                            *)

\* s is to receive its own records.
Awaiting(s) == st[s] = "init" /\ todo[s] # <<>> /\ Head(todo[s]) = -1

\* What is left of InitialSlave, and of a handler.
InitialChores == {<< -1, 1, -2, 2 >>, << 1, -2, 2 >>, << -2, 2 >>, << 2 >>,
                  << -1, 1 >>, << 1 >>, <<>>}
HandlerChores == {<< 1, 2, 0 >>, << 2, 0 >>, << 0 >>, << 2 >>, <<>>}
WithUpdate == {<< -1, 1, -2, 2 >>, << 1, -2, 2 >>, << -2, 2 >>}

Chores(s) ==
    /\ st[s] = "init" => /\ todo[s] \in InitialChores
                         /\ Awaiting(s) => todo[s] = InitialCalls(sl[s].num)
                         /\ todo[s] \in WithUpdate => sl[s].num > 2
    /\ st[s] \in {"run", "stopping"} => todo[s] \in HandlerChores
    /\ st[s] = "exited" => todo[s] = <<>>

AllChores == \A s \in Slaves : Chores(s)

LEMMA ChoreTails ==
    /\ Tail(<< -1, 1, -2, 2 >>) = << 1, -2, 2 >>
    /\ Tail(<< 1, -2, 2 >>) = << -2, 2 >>
    /\ Tail(<< -2, 2 >>) = << 2 >>
    /\ Tail(<< 2 >>) = <<>>
    /\ Tail(<< -1, 1 >>) = << 1 >>
    /\ Tail(<< 1 >>) = <<>>
    /\ Tail(<< 1, 2, 0 >>) = << 2, 0 >>
    /\ Tail(<< 2, 0 >>) = << 0 >>
    /\ Tail(<< 0 >>) = <<>>
    OBVIOUS

LEMMA TailChores ==
    ASSUME NEW q, q # <<>>
    PROVE  /\ q \in InitialChores =>
                 /\ Tail(q) \in InitialChores /\ Head(q) # 0
                 /\ Tail(q) # <<>> => Head(Tail(q)) # -1
                 /\ Tail(q) \in WithUpdate => q \in WithUpdate
           /\ q \in HandlerChores =>
                 /\ Tail(q) \in HandlerChores /\ Head(q) \notin {-1, -2}
<1>1. ASSUME q \in InitialChores
      PROVE  /\ Tail(q) \in InitialChores /\ Head(q) # 0
             /\ Tail(q) # <<>> => Head(Tail(q)) # -1
             /\ Tail(q) \in WithUpdate => q \in WithUpdate
  <2>1. Tail(q) \in InitialChores
      BY <1>1, ChoreTails DEF InitialChores
  <2>2. Head(q) # 0
      BY <1>1 DEF InitialChores
  <2>3. Tail(q) # <<>> => Head(Tail(q)) # -1
      BY <1>1, ChoreTails DEF InitialChores
  <2>4. Tail(q) \in WithUpdate => q \in WithUpdate
    <3>1. << 2 >> \notin WithUpdate /\ << 1 >> \notin WithUpdate /\ <<>> \notin WithUpdate
        BY DEF WithUpdate
    <3>2. q \in WithUpdate \/ q \in {<< 2 >>, << -1, 1 >>, << 1 >>}
        BY <1>1 DEF InitialChores, WithUpdate
    <3> QED
        BY <3>1, <3>2, ChoreTails
  <2> QED
      BY <2>1, <2>2, <2>3, <2>4
<1>2. ASSUME q \in HandlerChores
      PROVE  /\ Tail(q) \in HandlerChores /\ Head(q) \notin {-1, -2}
  <2>1. Tail(q) \in HandlerChores
      BY <1>2, ChoreTails DEF HandlerChores
  <2>2. Head(q) \notin {-1, -2}
      BY <1>2 DEF HandlerChores
  <2> QED
      BY <2>1, <2>2
<1> QED
    BY <1>1, <1>2

LEMMA FourCalls == << -1, 1 >> \o << -2, 2 >> = << -1, 1, -2, 2 >>
<1>1. PICK a, b, q, r : /\ a = << -1, 1 >> /\ b = << -2, 2 >> /\ q = a \o b
                        /\ r = << -1, 1, -2, 2 >>
    OBVIOUS
<1>2. a \in Seq(-2..2) /\ b \in Seq(-2..2) /\ Len(a) = 2 /\ Len(b) = 2
    BY <1>1
<1>3. /\ q \in Seq(-2..2) /\ Len(q) = 4
      /\ q[1] = a[1] /\ q[2] = a[2] /\ q[3] = b[1] /\ q[4] = b[2]
    BY <1>1, <1>2, TwoPairs
<1>4. r \in Seq(-2..2) /\ Len(r) = 4 /\ r[1] = -1 /\ r[2] = 1 /\ r[3] = -2 /\ r[4] = 2
    BY <1>1
<1>5. \A i \in 1..4 : q[i] = r[i]
  <2>1. a[1] = -1 /\ a[2] = 1 /\ b[1] = -2 /\ b[2] = 2
      BY <1>1
  <2>2. \A i \in 1..4 : i = 1 \/ i = 2 \/ i = 3 \/ i = 4
      OBVIOUS
  <2> QED
      BY <1>3, <1>4, <2>1, <2>2
<1>6. q = r
    BY <1>3, <1>4, <1>5, SeqEqual
<1> QED
    BY <1>1, <1>6

LEMMA InitialChoresFacts ==
    ASSUME NEW n \in Nat
    PROVE  /\ InitialCalls(n) \in InitialChores
           /\ InitialCalls(n) \in WithUpdate => n > 2
           /\ n > 2 => InitialCalls(n) = << -1, 1, -2, 2 >>
<1>1. CASE n > 2
  <2>1. InitialCalls(n) = << -1, 1 >> \o << -2, 2 >>
      BY <1>1 DEF InitialCalls
  <2> QED
      BY <1>1, <2>1, FourCalls DEF InitialChores
<1>2. CASE ~(n > 2)
  <2>1. InitialCalls(n) \in {<< -1, 1 >>, <<>>}
    <3>1. PICK p, q : p = << -1, 1 >> /\ q = <<>>
        OBVIOUS
    <3>2. p \in Seq(Int) /\ q \in Seq(Int) /\ p \o <<>> = p /\ q \o <<>> = q
        BY <3>1, ConcatEmptySeq
    <3> QED
        BY <1>2, <3>1, <3>2 DEF InitialCalls
  <2>2. << -1, 1 >> \notin WithUpdate /\ <<>> \notin WithUpdate
      BY DEF WithUpdate
  <2> QED
      BY <1>2, <2>1, <2>2 DEF InitialChores
<1> QED
    BY <1>1, <1>2

LEMMA ChoresKept ==
    ASSUME NEW u, Chores(u), st'[u] = st[u], sl'[u] = sl[u], todo'[u] = todo[u]
    PROVE  Chores(u)'
    BY DEF Chores, Awaiting

\* A slave with one thing less to do.
LEMMA ChoresDone ==
    ASSUME NEW s, Chores(s), st'[s] = st[s], sl'[s] = sl[s], todo[s] # <<>>,
           todo'[s] = Tail(todo[s])
    PROVE  Chores(s)'
<1>1. PICK q : q = todo[s] /\ q # <<>>
    OBVIOUS
<1>2. ASSUME st[s] = "init"
      PROVE  /\ todo'[s] \in InitialChores
             /\ ~Awaiting(s)'
             /\ todo'[s] \in WithUpdate => sl[s].num > 2
    BY <1>1, <1>2, TailChores DEF Chores, Awaiting
<1>3. ASSUME st[s] \in {"run", "stopping"}
      PROVE  todo'[s] \in HandlerChores
    BY <1>1, <1>3, TailChores DEF Chores
<1>4. st[s] # "exited"
    BY <1>1 DEF Chores
<1> QED
    BY <1>2, <1>3, <1>4 DEF Chores

LEMMA ChoresNext ==
    ASSUME ClusterInv, AllChores, [Next]_vars
    PROVE  AllChores'
<1>1. CASE slaveVars' = slaveVars
    BY <1>1, ChoresKept DEF slaveVars, AllChores
<1>2. ASSUME NEW s \in Slaves, StartSlave(s) \/ StopSlave(s) \/ StopInHandler(s)
      PROVE  AllChores'
  <2>1. /\ sl' = sl /\ todo' = todo
        /\ \A u \in Slaves \ {s} : st'[u] = st[u]
        /\ st'[s] = "register" \/ (st'[s] = "stopping" /\ st[s] = "run")
    <3>1. CASE StartSlave(s)
      <4>1. sl' = sl /\ todo' = todo /\ st' = [st EXCEPT ![s] = "register"]
          BY <3>1 DEF StartSlave
      <4>2. st'[s] = "register" /\ \A u \in Slaves \ {s} : st'[u] = st[u]
          BY <4>1 DEF ClusterInv, Shape
      <4> QED
          BY <4>1, <4>2
    <3>2. CASE StopSlave(s)
        BY <3>2 DEF StopSlave, ClusterInv, Shape
    <3>3. CASE StopInHandler(s)
        BY <3>3 DEF StopInHandler, Polling, ClusterInv, Shape
    <3> QED
        BY <1>2, <3>1, <3>2, <3>3
  <2>2. Chores(s)'
      BY <2>1 DEF Chores, AllChores
  <2> QED
      BY <2>1, <2>2, ChoresKept DEF AllChores
<1>3. ASSUME NEW s \in Slaves, SlaveStep(s), ~(slaveVars' = slaveVars)
      PROVE  AllChores'
  <2>1. \A u \in Slaves \ {s} : st'[u] = st[u] /\ sl'[u] = sl[u] /\ todo'[u] = todo[u]
    <3>1. CASE Register(s) \/ EnterLoop(s) \/ HandleNewSlave(s) \/ HandleRmSlave(s)
        BY <1>3, <3>1 DEF Register, Die, EnterLoop, HandleNewSlave, HandleRmSlave,
                            ClusterInv, Shape
    <3>2. CASE HandleUpdateBackup12(s) \/ SendBackupReply(s) \/ CallSlave(s) \/ ReceiveFile(s)
        BY <3>2 DEF HandleUpdateBackup12, SendBackupReply, CallSlave, ReceiveFile,
                     ClusterInv, Shape
    <3>3. CASE ExitSlave(s) \/ \E t \in Slaves : ServeSlave(s, t)
        BY <1>3, <3>3 DEF ExitSlave, Die, ServeSlave, ClusterInv, Shape
    <3> QED
        BY <1>3, <3>1, <3>2, <3>3 DEF SlaveStep
  <2>2. Chores(s)'
    <3>0. Chores(s) /\ Calls(s) /\ Holds(s) /\ IsQueue(todo[s])
        BY SlaveFacts DEF AllChores
    <3>1. CASE Register(s)
      <4>1. PICK n, q : n = Head(toSlave[s]).list.num /\ q = InitialCalls(n)
          OBVIOUS
      <4>2. todo'[s] = q /\ st'[s] = "init" /\ sl'[s].num = n
          BY <1>3, <3>1, <4>1 DEF Register, Die, ClusterInv, Shape
      <4>3. n \in Nat
        <5>1. ClusterInv'
            BY <3>1, RegisterStep
        <5>2. Holds(s)'
            BY <5>1 DEF ClusterInv, Inv
        <5> QED
            BY <4>2, <5>2 DEF Holds, IsSlaveList
      <4> QED
          BY <4>1, <4>2, <4>3, InitialChoresFacts DEF Chores
    <3>2. CASE ExitSlave(s)
        BY <1>3, <3>2 DEF ExitSlave, Die, Chores, ClusterInv, Shape
    <3>3. CASE \E t \in Slaves : ServeSlave(s, t)
        BY <3>0, <3>3, ChoresKept DEF ServeSlave
    <3>4. CASE EnterLoop(s)
      <4>1. st'[s] = "run" /\ todo'[s] = <<>>
          BY <3>4 DEF EnterLoop, ClusterInv, Shape
      <4> QED
          BY <4>1 DEF Chores, HandlerChores
    <3>5. CASE HandleNewSlave(s) \/ HandleRmSlave(s) \/ HandleUpdateBackup12(s)
      <4>1. st'[s] = "run" /\ todo'[s] \in {<<>>, << 2 >>, << 1, 2, 0 >>}
          BY <3>5 DEF HandleNewSlave, HandleRmSlave, HandleUpdateBackup12, Polling,
                      ClusterInv, Shape
      <4> QED
          BY <4>1 DEF Chores, HandlerChores
    <3>6. CASE SendBackupReply(s)
        BY <3>0, <3>6, ChoresDone DEF SendBackupReply, Working, ClusterInv, Shape
    <3>7. CASE CallSlave(s)
      <4>1. /\ st' = st /\ sl' = sl /\ todo[s] # <<>> /\ st[s] \in {"init", "run"}
            /\ \/ todo'[s] = Tail(todo[s])
               \/ todo'[s] = <<>> /\ Head(todo[s]) = -1
               \/ todo'[s] = todo[s]
          BY <3>7 DEF CallSlave, Working, ClusterInv, Shape
      <4>2. CASE todo'[s] = <<>> /\ Head(todo[s]) = -1
        <5>1. <<>> \in InitialChores /\ <<>> \in HandlerChores /\ <<>> \notin WithUpdate
            BY DEF InitialChores, HandlerChores, WithUpdate
        <5> QED
            BY <4>1, <4>2, <5>1 DEF Chores, Awaiting
      <4> QED
          BY <3>0, <4>1, <4>2, ChoresDone, ChoresKept
    <3>8. CASE ReceiveFile(s)
      <4>1. callee[s] # NoSlave
          BY <3>8, NoSlaveAssumption DEF ReceiveFile
      <4>2. todo'[s] = Tail(todo[s]) /\ st' = st /\ sl' = sl /\ todo[s] # <<>>
          BY <3>0, <3>8, <4>1 DEF ReceiveFile, Calls, ClusterInv, Shape
      <4> QED
          BY <3>0, <4>2, ChoresDone
    <3> QED
        BY <1>3, <3>1, <3>2, <3>3, <3>4, <3>5, <3>6, <3>7, <3>8 DEF SlaveStep
  <2> QED
      BY <2>1, <2>2, ChoresKept DEF AllChores
<1>4. MasterStep \/ Alarm \/ AlarmOnEmptyList \/ UNCHANGED vars => slaveVars' = slaveVars
    BY DEF MasterStep, AddSlaveRequest, DelSlaveRequest, NotifyAll, FinishRequest, AlarmReply,
           Alarm, AlarmOnEmptyList, Die, vars
<1> QED
    BY <1>1, <1>2, <1>3, <1>4 DEF Next

-----------------------------------------------------------------------------
(* One slave leaves.                                                       *)

\* A slave that serves requests, or will when it has what it asks for.
Alive(s) == st[s] \in {"init", "run"}

\* There has been no departure, or s has not heard of it.
Unmerged(s) == stops = 0 \/ \E u \in Slaves : st[u] = "stopping" /\ u \in Members(sl[s])

\* While a slave joins or leaves no backups are renewed, other than those of
\* the slaves that have merged theirs.
OneDeparture ==
    /\ stops \in Nat
    /\ stops = 0 => \A s \in Slaves : st[s] # "stopping"
    /\ (\E u \in Slaves : Moving(u)) =>
          \A s \in Slaves :
             /\ \A i \in 1..Len(toSlave[s]) : toSlave[s][i].cmd # "UPDATE_BACKUP12"
             /\ st[s] = "run" /\ todo[s] # <<>> => ~Unmerged(s)

LEMMA DepartureSteps ==
    ASSUME [ServiceNext]_allVars
    PROVE  \/ \E s \in Slaves : StopSlave(s) /\ stops < MaxStops /\ stops' = stops + 1
           \/ /\ stops' = stops
              /\ \/ UNCHANGED <<masterVars, slaveVars, chanVars>>
                 \/ MasterStep \/ Alarm
                 \/ \E s \in Slaves : StartSlave(s) \/ SlaveStep(s)
<1>1. CASE UNCHANGED allVars
    BY <1>1 DEF allVars, serviceVars, bounds, vars
<1>2. CASE MasterWorks \/ RenewBackups
    BY <1>2 DEF MasterWorks, RenewBackups, serviceVars, bounds, AlarmOnEmptyList, Die
<1>3. ASSUME NEW s \in Slaves, FileStep(s)
      PROVE  stops' = stops
    BY <1>3 DEF FileStep, SlaveWorks, JoinList, ReceiveRecords, MergeBackup1, MergeBackup2, Exit,
                ServeClipData, ServeBackup, ServeUpdateBackup2, serviceVars, bounds
<1>4. ASSUME NEW s \in Slaves, FileStep(s)
      PROVE  SlaveStep(s) \/ UNCHANGED <<masterVars, slaveVars, chanVars>>
    BY <1>4, FileStepIsSlaves DEF Faults, Die
<1>5. ASSUME NEW s \in Slaves, Start(s)
      PROVE  StartSlave(s) /\ stops' = stops
    BY <1>5 DEF Start, serviceVars, bounds
<1>6. ASSUME NEW s \in Slaves, Leave(s)
      PROVE  StopSlave(s) /\ stops < MaxStops /\ stops' = stops + 1
    BY <1>6 DEF Leave
<1>7. CASE Input \/ ClientStep \/ Accept \/ Execute
  <2>1. UNCHANGED vars
      BY <1>7, ClientAlone
  <2>2. stops' = stops
    <3>1. CASE Input
        BY <3>1 DEF Input, OpenCommand, QuitCommand, CloseCommand, GetCommand, DelCommand,
                    SetCommand, Client, bounds
    <3>2. CASE ClientStep
        BY <3>2 DEF ClientStep, ReadCloudNodes, OpenNode, AllOpen, ConnectionLost, CloseNode,
                    AllClosed, Client, bounds
    <3>3. CASE Accept \/ Execute
        BY <3>3 DEF Accept, Execute, Client, bounds
    <3> QED
        BY <1>7, <3>1, <3>2, <3>3
  <2> QED
      BY <2>1, <2>2 DEF vars
<1> QED
    BY <1>1, <1>2, <1>3, <1>4, <1>5, <1>6, <1>7 DEF ServiceNext

\* What the steps of a slave do to the states and lists.
LEMMA SlaveStepFacts ==
    ASSUME ClusterInv, NEW s \in Slaves, SlaveStep(s)
    PROVE  \/ UNCHANGED <<masterVars, slaveVars, chanVars>>
           \/ /\ mlist' = mlist
              /\ \A u \in Slaves \ {s} : st'[u] = st[u] /\ sl'[u] = sl[u] /\ todo'[u] = todo[u]
              /\ \A u \in Slaves : \/ toSlave'[u] = toSlave[u]
                                   \/ toSlave[u] # <<>> /\ toSlave'[u] = Tail(toSlave[u])
              /\ \/ st'[s] = st[s]
                 \/ st[s] = "register" /\ st'[s] = "init" /\ Register(s)
                 \/ st[s] = "init" /\ st'[s] = "run" /\ todo'[s] = <<>>
                 \/ st[s] = "stopping" /\ st'[s] = "exited"
              /\ \/ sl'[s] = sl[s]
                 \/ Register(s) \/ HandleNewSlave(s) \/ HandleRmSlave(s)
              /\ \/ todo'[s] = <<>> \/ todo[s] # <<>>
                 \/ Register(s) \/ HandleUpdateBackup12(s) \/ HandleRmSlave(s)
<1>1. CASE Register(s)
  <2>1. CASE UNCHANGED <<masterVars, slaveVars, chanVars>>
      BY <2>1
  <2>2. CASE ~UNCHANGED <<masterVars, slaveVars, chanVars>>
    <3>1. /\ toSlave[s] # <<>> /\ toSlave' = RecvFrom(toSlave, s) /\ mlist' = mlist
          /\ st[s] = "register" /\ st' = [st EXCEPT ![s] = "init"]
          /\ \A u \in Slaves \ {s} : sl'[u] = sl[u] /\ todo'[u] = todo[u]
        BY <1>1, <2>2 DEF Register, Die, ClusterInv, Shape, masterVars
    <3> QED
        BY <1>1, <3>1 DEF RecvFrom, ClusterInv, Shape
  <2> QED
      BY <2>1, <2>2
<1>2. CASE ExitSlave(s)
  <2>1. CASE UNCHANGED <<masterVars, slaveVars, chanVars>>
      BY <2>1
  <2>2. CASE ~UNCHANGED <<masterVars, slaveVars, chanVars>>
    <3>1. /\ toSlave[s] # <<>> /\ toSlave' = RecvFrom(toSlave, s) /\ mlist' = mlist
          /\ st[s] = "stopping" /\ st' = [st EXCEPT ![s] = "exited"]
          /\ sl' = sl /\ todo' = [todo EXCEPT ![s] = <<>>]
        BY <1>2, <2>2 DEF ExitSlave, Die, masterVars
    <3> QED
        BY <3>1 DEF RecvFrom, ClusterInv, Shape
  <2> QED
      BY <2>1, <2>2
<1>5. CASE EnterLoop(s)
    BY <1>5 DEF EnterLoop, ClusterInv, Shape, masterVars, chanVars
<1>6. CASE HandleNewSlave(s) \/ HandleRmSlave(s) \/ HandleUpdateBackup12(s)
  <2>1. /\ toSlave[s] # <<>> /\ toSlave' = RecvFrom(toSlave, s) /\ mlist' = mlist /\ st' = st
        /\ \A u \in Slaves \ {s} : sl'[u] = sl[u] /\ todo'[u] = todo[u]
        /\ HandleNewSlave(s) => todo'[s] = <<>>
        /\ HandleUpdateBackup12(s) => sl' = sl
      BY <1>6 DEF HandleNewSlave, HandleRmSlave, HandleUpdateBackup12, Polling, Got,
                  ClusterInv, Shape, masterVars
  <2> QED
      BY <1>6, <2>1 DEF RecvFrom, ClusterInv, Shape
<1>3. CASE SendBackupReply(s) \/ CallSlave(s) \/ \E t \in Slaves : ServeSlave(s, t)
    BY <1>3 DEF SendBackupReply, CallSlave, ServeSlave, Working, ClusterInv, Shape,
                masterVars, chanVars
<1>4. CASE ReceiveFile(s)
  <2>1. Calls(s) /\ callee[s] # NoSlave
      BY <1>4, SlaveFacts, NoSlaveAssumption DEF ReceiveFile
  <2> QED
      BY <1>4, <2>1 DEF ReceiveFile, Calls, ClusterInv, Shape, masterVars, chanVars
<1> QED
    BY <1>1, <1>2, <1>3, <1>4, <1>5, <1>6 DEF SlaveStep

\* Whoever is told that a slave has left forgets it.
LEMMA RmForgets ==
    ASSUME ClusterInv, NEW s \in Slaves, HandleRmSlave(s)
    PROVE  /\ sl[s] = mlist /\ job.op = "del" /\ job.s \notin Members(sl'[s])
           /\ Members(sl'[s]) \subseteq Members(sl[s])
<1>1. Polling(s) /\ Got(s, "RM_SLAVE")
    BY DEF HandleRmSlave
<1>2. /\ job.op = "del" /\ Head(toSlave[s]).pos = job.pos
      /\ IsSlaveList(mlist, Slaves) /\ Ordered(mlist)
      /\ job.pos \in Positions(mlist) /\ mlist.nodes[job.pos].id = job.s
      /\ sl[s] = mlist
    BY <1>1, RmFacts
<1>3. sl'[s] = RemoveSlave(mlist, job.pos)
    BY <1>2 DEF HandleRmSlave, ClusterInv, Shape
<1>4. RemoveSlave(mlist, job.pos) = DelFromSlaveList(mlist, job.pos)
    BY DEF RemoveSlave, DelFromSlaveList
<1>5. job.s \notin Members(sl'[s])
    BY <1>2, <1>3, <1>4, DelForgets
<1>6. Members(sl'[s]) \subseteq Members(sl[s])
    BY <1>2, <1>3, RemoveMembers
<1> QED
    BY <1>2, <1>5, <1>6

LEMMA UnmergedStays ==
    ASSUME ClusterInv, Calm, stops \in Nat, MaxStops <= 1, [ServiceNext]_allVars,
           NEW s \in Slaves, Unmerged(s)'
    PROVE  Unmerged(s)
<1>1. SUFFICES ASSUME stops # 0 PROVE Unmerged(s)
    BY DEF Unmerged
<1>2. ~(stops < MaxStops)
    BY <1>1, ServiceAssumption
<1>3. /\ stops' = stops
      /\ \/ UNCHANGED <<masterVars, slaveVars, chanVars>>
         \/ MasterStep \/ Alarm
         \/ \E x \in Slaves : StartSlave(x) \/ SlaveStep(x)
    BY <1>2, DepartureSteps
<1>4. PICK u \in Slaves : st'[u] = "stopping" /\ u \in Members(sl'[s])
    BY <1>1, <1>3 DEF Unmerged
<1>5. CASE slaveVars' = slaveVars
    BY <1>4, <1>5 DEF slaveVars, Unmerged
<1>6. CASE \E x \in Slaves : StartSlave(x)
    BY <1>4, <1>6 DEF StartSlave, Unmerged, ClusterInv, Shape
<1>7. ASSUME NEW x \in Slaves, SlaveStep(x), ~(slaveVars' = slaveVars)
      PROVE  Unmerged(s)
  <2>1. /\ \A y \in Slaves \ {x} : st'[y] = st[y] /\ sl'[y] = sl[y]
        /\ \/ st'[x] = st[x]
           \/ st[x] = "register" /\ st'[x] = "init"
           \/ st[x] = "init" /\ st'[x] = "run"
           \/ st[x] = "stopping" /\ st'[x] = "exited"
        /\ \/ sl'[x] = sl[x]
           \/ Register(x) \/ HandleNewSlave(x) \/ HandleRmSlave(x)
      BY <1>7, SlaveStepFacts
  <2>2. st[u] = "stopping"
      BY <1>4, <2>1
  <2>3. CASE sl'[s] = sl[s]
      BY <1>4, <2>2, <2>3 DEF Unmerged
  <2>4. CASE x = s /\ Register(s)
    <3>1. st[s] = "register"
        BY <2>4 DEF Register
    <3> QED
        BY <2>2, <3>1 DEF Calm, Moving
  <2>5. CASE x = s /\ HandleNewSlave(s)
    <3>1. Polling(s) /\ toSlave[s] # <<>> /\ Head(toSlave[s]).cmd = "NEW_SLAVE"
        BY <2>5 DEF HandleNewSlave, Got
    <3>2. /\ Requests(s, toSlave[s]) /\ Agrees(s, sl[s], pos[s], toSlave[s])
          /\ Head(toSlave[s]) = toSlave[s][1] /\ MasterInv /\ IsQueue(toSlave[s])
        BY <3>1, PollingFacts, SlaveFacts
    <3>3. job.op # "idle" /\ toSlave[s][1] = Announcement
        BY <3>1, <3>2, NotHeard
    <3>4. job.op = "add"
        BY <3>1, <3>2, <3>3 DEF Announcement
    <3>5. Moving(u)
        BY <2>2 DEF Moving
    <3>6. st[u] = "register"
        BY <3>4, <3>5, JobState
    <3> QED
        BY <2>2, <3>6
  <2>6. CASE x = s /\ HandleRmSlave(s)
      BY <1>4, <2>2, <2>6, RmForgets DEF Unmerged
  <2> QED
      BY <2>1, <2>3, <2>4, <2>5, <2>6
<1>8. MasterStep \/ Alarm \/ UNCHANGED <<masterVars, slaveVars, chanVars>> => slaveVars' = slaveVars
    BY DEF MasterStep, AddSlaveRequest, DelSlaveRequest, NotifyAll, FinishRequest, AlarmReply,
           Alarm
<1> QED
    BY <1>3, <1>5, <1>6, <1>7, <1>8

\* The neighbours that take over do so before they renew a backup.
LEMMA RmMerges ==
    ASSUME ClusterInv, Calm, OneDeparture, stops' = stops, NEW s \in Slaves, HandleRmSlave(s)
    PROVE  ~Unmerged(s)' /\ Unmerged(s)
<1>1. /\ sl[s] = mlist /\ job.op = "del" /\ job.s \notin Members(sl'[s])
      /\ Members(sl'[s]) \subseteq Members(sl[s]) /\ st' = st
    BY RmForgets DEF HandleRmSlave
<1>2. job.s \in Slaves /\ Moving(job.s) /\ \A u \in Slaves : Moving(u) => u = job.s
    BY <1>1, JobMoves
<1>3. st[job.s] = "stopping"
    BY <1>1, <1>2, JobState
<1>4. MasterInv
    BY DEF ClusterInv, Inv
<1>5. job.s \in Members(mlist)
    BY <1>1, <1>4, JobPlace
<1>6. \A u \in Slaves : st[u] = "stopping" => u = job.s
    BY <1>2 DEF Moving
<1> QED
    BY <1>1, <1>2, <1>3, <1>5, <1>6 DEF Unmerged, OneDeparture

\* Only an alarm's request renews backups.
NoAlarmFor(s) == \A i \in 1..Len(toSlave[s]) : toSlave[s][i].cmd # "UPDATE_BACKUP12"

LEMMA MasterSendsNoAlarm ==
    ASSUME ClusterInv, MasterStep, NEW s \in Slaves, NoAlarmFor(s)
    PROVE  NoAlarmFor(s)'
<1>1. \/ toSlave'[s] = toSlave[s]
      \/ \E m : m.cmd # "UPDATE_BACKUP12" /\ toSlave'[s] = Append(toSlave[s], m)
  <2>1. CASE NotifyAll
    <3>1. Announcement.cmd # "UPDATE_BACKUP12"
        BY DEF Announcement
    <3>2. \/ toSlave' = toSlave
          \/ toSlave' = SendTo(toSlave, mlist.nodes[job.i].id, Announcement)
        BY <2>1 DEF NotifyAll, chanVars
    <3> QED
        BY <3>1, <3>2 DEF SendTo, ClusterInv, Shape
  <2>2. CASE FinishRequest
    <3>1. PICK m : m.cmd # "UPDATE_BACKUP12" /\ toSlave' = SendTo(toSlave, job.s, m)
        BY <2>2 DEF FinishRequest
    <3> QED
        BY <3>1 DEF SendTo, ClusterInv, Shape
  <2>3. CASE AlarmReply \/ \E u \in Slaves : AddSlaveRequest(u) \/ DelSlaveRequest(u)
      BY <2>3 DEF AlarmReply, AddSlaveRequest, DelSlaveRequest
  <2> QED
      BY <2>1, <2>2, <2>3 DEF MasterStep
<1>2. CASE toSlave'[s] = toSlave[s]
    BY <1>2 DEF NoAlarmFor
<1>3. ASSUME NEW m, m.cmd # "UPDATE_BACKUP12", toSlave'[s] = Append(toSlave[s], m)
      PROVE  NoAlarmFor(s)'
  <2>1. PICK q, r : q = toSlave[s] /\ r = Append(q, m)
      OBVIOUS
  <2>2. /\ Len(q) \in Nat /\ Len(r) = Len(q) + 1
        /\ \A i \in 1..Len(q) : r[i] = q[i]
        /\ r[Len(q) + 1] = m
      BY <2>1, SlaveFacts, AppendQueue
  <2>3. \A i \in 1..Len(r) : i \in 1..Len(q) \/ i = Len(q) + 1
      BY <2>2
  <2> QED
      BY <1>3, <2>1, <2>2, <2>3 DEF NoAlarmFor
<1> QED
    BY <1>1, <1>2, <1>3

LEMMA OneDepartureNext ==
    ASSUME ClusterInv, Calm, OneDeparture, ~Overlap, MaxStops <= 1, [ServiceNext]_allVars
    PROVE  OneDeparture'
<1>0. /\ \A s \in Slaves : Unmerged(s)' => Unmerged(s)
      /\ stops \in Nat
    BY UnmergedStays DEF OneDeparture
<1>1. ASSUME NEW s \in Slaves, StopSlave(s), stops' = stops + 1
      PROVE  OneDeparture'
  <2>1. Quiet /\ toSlave' = toSlave /\ todo' = todo
      BY <1>1 DEF StopSlave, MayBegin
  <2>2. \A u \in Slaves : toSlave'[u] = <<>> /\ todo'[u] = <<>>
      BY <2>1 DEF Quiet
  <2> QED
      BY <1>0, <1>1, <2>2, NoMessages DEF OneDeparture
<1>2. ASSUME NEW s \in Slaves, StartSlave(s), stops' = stops
      PROVE  OneDeparture'
  <2>1. Quiet /\ toSlave' = toSlave /\ todo' = todo /\ st' = [st EXCEPT ![s] = "register"]
      BY <1>2 DEF StartSlave, MayBegin
  <2>2. \A u \in Slaves : toSlave'[u] = <<>> /\ todo'[u] = <<>>
      BY <2>1 DEF Quiet
  <2>3. \A u \in Slaves : st'[u] = "stopping" => st[u] = "stopping"
      BY <2>1 DEF ClusterInv, Shape
  <2> QED
      BY <1>2, <2>2, <2>3, NoMessages DEF OneDeparture
<1>3. CASE Alarm /\ stops' = stops
  <2>1. Quiet /\ st' = st
      BY <1>3 DEF Alarm, MayBegin, slaveVars
  <2>2. \A u \in Slaves : ~Moving(u)'
      BY <2>1 DEF Quiet, Moving
  <2> QED
      BY <1>3, <2>1, <2>2 DEF OneDeparture
<1>4. CASE UNCHANGED <<masterVars, slaveVars, chanVars>> /\ stops' = stops
    BY <1>0, <1>4 DEF OneDeparture, slaveVars, chanVars, Moving
<1>5. CASE MasterStep /\ stops' = stops
  <2>1. slaveVars' = slaveVars
      BY <1>5 DEF MasterStep, AddSlaveRequest, DelSlaveRequest, NotifyAll, FinishRequest,
                  AlarmReply
  <2>2. \A u \in Slaves : NoAlarmFor(u) => NoAlarmFor(u)'
      BY <1>5, MasterSendsNoAlarm
  <2> QED
      BY <1>0, <1>5, <2>1, <2>2 DEF OneDeparture, slaveVars, NoAlarmFor, Moving
<1>6. ASSUME NEW s \in Slaves, SlaveStep(s), stops' = stops,
             ~UNCHANGED <<masterVars, slaveVars, chanVars>>
      PROVE  OneDeparture'
  <2>1. /\ \A u \in Slaves \ {s} : st'[u] = st[u] /\ sl'[u] = sl[u] /\ todo'[u] = todo[u]
        /\ \A u \in Slaves : \/ toSlave'[u] = toSlave[u]
                             \/ toSlave[u] # <<>> /\ toSlave'[u] = Tail(toSlave[u])
        /\ \/ st'[s] = st[s]
           \/ st[s] = "register" /\ st'[s] = "init" /\ Register(s)
           \/ st[s] = "init" /\ st'[s] = "run" /\ todo'[s] = <<>>
           \/ st[s] = "stopping" /\ st'[s] = "exited"
        /\ \/ todo'[s] = <<>> \/ todo[s] # <<>>
           \/ Register(s) \/ HandleUpdateBackup12(s) \/ HandleRmSlave(s)
      BY <1>6, SlaveStepFacts
  <2>2. \A u \in Slaves : st'[u] = "stopping" => st[u] = "stopping"
      BY <2>1
  <2>3. (\E u \in Slaves : Moving(u)') => \E u \in Slaves : Moving(u)
      BY <2>1 DEF Moving
  <2>4. ASSUME NEW u \in Slaves, NoAlarmFor(u) PROVE NoAlarmFor(u)'
    <3>1. CASE toSlave'[u] = toSlave[u]
        BY <2>4, <3>1 DEF NoAlarmFor
    <3>2. CASE toSlave[u] # <<>> /\ toSlave'[u] = Tail(toSlave[u])
      <4>1. PICK q, r : q = toSlave[u] /\ r = Tail(q)
          OBVIOUS
      <4>2. /\ Len(q) \in Nat \ {0} /\ Len(r) = Len(q) - 1
            /\ \A i \in 1..(Len(q) - 1) : r[i] = q[i + 1]
          BY <3>2, <4>1, SlaveFacts, TailQueue
      <4>3. \A i \in 1..Len(r) : i \in 1..(Len(q) - 1) /\ i + 1 \in 1..Len(q)
          BY <4>2
      <4> QED
          BY <2>4, <3>2, <4>1, <4>2, <4>3 DEF NoAlarmFor
    <3> QED
        BY <2>1, <3>1, <3>2
  <2>5. ASSUME NEW v \in Slaves, Moving(v), NEW u \in Slaves, st'[u] = "run", todo'[u] # <<>>
        PROVE  ~Unmerged(u)'
    <3>1. CASE st[u] = "run" /\ todo[u] # <<>>
        BY <1>0, <2>5, <3>1 DEF OneDeparture
    <3>2. CASE u = s /\ HandleRmSlave(s)
        BY <1>6, <3>2, RmMerges
    <3>3. CASE u = s /\ HandleUpdateBackup12(s)
      <4>1. /\ toSlave[s] # <<>> /\ Head(toSlave[s]).cmd = "UPDATE_BACKUP12"
          BY <3>3 DEF HandleUpdateBackup12, Got
      <4>2. Head(toSlave[s]) = toSlave[s][1] /\ 1 \in 1..Len(toSlave[s])
          BY <4>1, SlaveFacts, TailQueue
      <4> QED
          BY <2>5, <4>1, <4>2 DEF OneDeparture
    <3>4. CASE u = s /\ Register(s)
      <4>1. st[s] = "register" /\ st'[s] \in {"register", "init"}
          BY <3>4, <2>1 DEF Register
      <4> QED
          BY <2>5, <3>4, <4>1
    <3> QED
        BY <2>1, <2>5, <3>1, <3>2, <3>3, <3>4
  <2> QED
      BY <1>6, <2>2, <2>3, <2>4, <2>5 DEF OneDeparture, NoAlarmFor
<1> QED
    BY <1>1, <1>2, <1>3, <1>4, <1>5, <1>6, DepartureSteps

-----------------------------------------------------------------------------
(* The records and their copies.                                           *)

\* What s has called for is on its way; and as its backup d.
Served(s) == \E t \in Slaves : caller[t] = s
Coming(s, d) == todo[s] # <<>> /\ Head(todo[s]) = d /\ Served(s)

\* A slave without files.
New(s) == st[s] \in {"off", "register"} \/ Awaiting(s)

\* The records of s, and its backup d, as they will be when what is on its way
\* is there.
Db(s) == IF Awaiting(s) THEN copy[s] ELSE files[s].db
Copied(s, d) == IF Coming(s, d) THEN copy[s] ELSE Backup(files[s], d)

Tidy(s) ==
    /\ Apart(files[s])
    /\ Alive(s) /\ Unmerged(s) => Clean(files[s])
    /\ New(s) => files[s] = NoFiles /\ \A k \in Keys, d \in 1..2 : <<s, d>> \notin safe[k]
    /\ New(s) /\ ~Served(s) => copy[s] = NoRecords

\* A slave that serves has the records of k, or they are on their way to it.
Placed(k) ==
    home[k] # NoSlave => /\ st[home[k]] \in {"init", "run", "stopping"}
                         /\ Awaiting(home[k]) => Served(home[k])

\* What a client was told about k.
Answered(k) ==
    fate[k] = "kept" => IF home[k] = NoSlave THEN store[k] = None
                        ELSE Db(home[k])[k] = store[k]

\* Only the home of k has a record of it, and no copy of one.
Alone(s, k) ==
    Alive(s) /\ Unmerged(s) /\ fate[k] # "stray" =>
        /\ home[k] # s => Db(s)[k] = None
        /\ home[k] = s => Copied(s, 1)[k] = None

\* Backup d of s has what k holds.
Backed(s, d, k) ==
    Alive(s) /\ fate[k] = "kept" /\ <<s, d>> \in safe[k] =>
        /\ Copied(s, d)[k] = store[k]
        /\ files[s].dir[d] # 0 \/ Coming(s, d)
\* Backup d of s has a record of k, or what k holds.
Marked(s, d, k) == <<s, d>> \in safe[k] \/ Copied(s, d)[k] # None

-----------------------------------------------------------------------------
(* Steps that leave the part a slave has in this.                          *)

Steady(u) ==
    /\ st[u] \in {"init", "run", "stopping"} => st'[u] \in {"init", "run", "stopping"}
    /\ Alive(u)' => Alive(u)
    /\ Awaiting(u)' <=> Awaiting(u)
    /\ New(u)' => New(u)
    /\ New(u)' => (Served(u)' <=> Served(u))
    /\ Alive(u)' => \A d \in 1..2 : Coming(u, d)' <=> Coming(u, d)
    /\ Unmerged(u)' => Unmerged(u)

SameFiles(u) == files'[u] = files[u] /\ copy'[u] = copy[u]

SameRecords(u, k) ==
    /\ files'[u].db[k] = files[u].db[k] /\ copy'[u][k] = copy[u][k]
    /\ \A d \in 1..2 : /\ Backup(files'[u], d)[k] = Backup(files[u], d)[k]
                       /\ files'[u].dir[d] = files[u].dir[d]

LEMMA FilesRecords == ASSUME NEW u, SameFiles(u), NEW k PROVE SameRecords(u, k)
    BY DEF SameFiles, SameRecords

LEMMA TidyKept ==
    ASSUME NEW u, Tidy(u), Steady(u), SameFiles(u),
           \A k \in Keys, d \in 1..2 : <<u, d>> \in safe'[k] => <<u, d>> \in safe[k]
    PROVE  Tidy(u)'
    BY DEF Tidy, Steady, SameFiles

LEMMA PlacedKept ==
    ASSUME NEW k, Placed(k), home'[k] = home[k], home[k] # NoSlave => Steady(home[k])
    PROVE  Placed(k)'
    BY DEF Placed, Steady, New

LEMMA AnsweredKept ==
    ASSUME NEW k, Answered(k), home'[k] = home[k], store'[k] = store[k],
           fate'[k] = "kept" => fate[k] = "kept",
           home[k] # NoSlave => (Awaiting(home[k])' <=> Awaiting(home[k])) /\ SameRecords(home[k], k)
    PROVE  Answered(k)'
    BY DEF Answered, Db, SameRecords

LEMMA AloneKept ==
    ASSUME NEW u, NEW k, Alone(u, k), Steady(u), SameRecords(u, k),
           home'[k] = u <=> home[k] = u, fate'[k] # "stray" => fate[k] # "stray"
    PROVE  Alone(u, k)'
<1>1. SUFFICES ASSUME (Alive(u) /\ Unmerged(u) /\ fate[k] # "stray")' PROVE Alone(u, k)'
    BY DEF Alone
<1>2. Alive(u) /\ Unmerged(u) /\ fate[k] # "stray" /\ (Coming(u, 1)' <=> Coming(u, 1))
      /\ (Awaiting(u)' <=> Awaiting(u))
    BY <1>1 DEF Steady
<1>3. Db(u)'[k] = Db(u)[k] /\ Copied(u, 1)'[k] = Copied(u, 1)[k]
    BY <1>2 DEF Db, Copied, SameRecords
<1> QED
    BY <1>2, <1>3 DEF Alone

LEMMA BackedKept ==
    ASSUME NEW u, NEW k, NEW d \in 1..2, Backed(u, d, k), Steady(u), SameRecords(u, k),
           store'[k] = store[k], fate'[k] = "kept" => fate[k] = "kept",
           <<u, d>> \in safe'[k] => <<u, d>> \in safe[k]
    PROVE  Backed(u, d, k)'
<1>1. SUFFICES ASSUME (Alive(u) /\ fate[k] = "kept" /\ <<u, d>> \in safe[k])'
               PROVE Backed(u, d, k)'
    BY DEF Backed
<1>2. Alive(u) /\ fate[k] = "kept" /\ <<u, d>> \in safe[k] /\ (Coming(u, d)' <=> Coming(u, d))
    BY <1>1 DEF Steady
<1>3. Copied(u, d)'[k] = Copied(u, d)[k] /\ files'[u].dir[d] = files[u].dir[d]
    BY <1>2 DEF Copied, SameRecords
<1> QED
    BY <1>2, <1>3 DEF Backed

\* What is in a backup of a slave has been there before.
MarksStay(u, k) ==
    \A d \in 1..2 :
        Alive(u)' /\ Unmerged(u)' /\ fate'[k] # "stray" /\ Marked(u, d, k)' =>
        Alive(u) /\ Unmerged(u) /\ fate[k] # "stray" /\ Marked(u, d, k)

\* Steps that leave what a slave has of k.
LEMMA MarksOf ==
    ASSUME NEW u, NEW k, Steady(u), SameRecords(u, k),
           \A d \in 1..2 : <<u, d>> \in safe'[k] => <<u, d>> \in safe[k],
           fate'[k] # "stray" => fate[k] # "stray"
    PROVE  MarksStay(u, k)
<1>1. SUFFICES ASSUME NEW d \in 1..2, Alive(u)', Unmerged(u)', fate'[k] # "stray",
                      Marked(u, d, k)'
               PROVE  Alive(u) /\ Unmerged(u) /\ fate[k] # "stray" /\ Marked(u, d, k)
    BY DEF MarksStay
<1>2. Alive(u) /\ Unmerged(u) /\ fate[k] # "stray" /\ (Coming(u, d)' <=> Coming(u, d))
    BY <1>1 DEF Steady
<1>3. copy'[u][k] = copy[u][k] /\ Backup(files'[u], d)[k] = Backup(files[u], d)[k]
    BY <1>1 DEF SameRecords
<1>4. (Copied(u, d)')[k] = Copied(u, d)[k]
    BY <1>2, <1>3 DEF Copied
<1>5. <<u, d>> \in safe'[k] => <<u, d>> \in safe[k]
    OBVIOUS
<1> QED
    BY <1>1, <1>2, <1>4, <1>5 DEF Marked

-----------------------------------------------------------------------------
\* Nothing of a slave's own state has changed, and nobody begins or ends
\* serving it.
LEMMA SameSteady ==
    ASSUME NEW u, st'[u] = st[u], todo'[u] = todo[u],
           Alive(u) \/ New(u) => (Served(u)' <=> Served(u)),
           Unmerged(u)' => Unmerged(u)
    PROVE  Steady(u)
    BY DEF Steady, Alive, Awaiting, New, Coming

\* A slave that has not called is not served.
LEMMA NotServed ==
    ASSUME ClusterInv, NEW s \in Slaves, callee[s] = NoSlave
    PROVE  ~Served(s)
<1>1. ASSUME NEW t \in Slaves, caller[t] = s PROVE FALSE
    BY <1>1, SlaveFacts DEF Calls
<1> QED
    BY <1>1 DEF Served

LEMMA NewCallsNobody ==
    ASSUME ClusterInv, NEW s \in Slaves, st[s] \in {"off", "register"}
    PROVE  ~Served(s) /\ todo[s] = <<>>
    BY NotServed, SlaveFacts DEF Holds

\* A slave serves one slave at a time, and a slave is served by the one it has
\* called.
LEMMA ServedBy ==
    ASSUME ClusterInv, NEW s \in Slaves, NEW t \in Slaves, Polling(t), callee[s] = t
    PROVE  ~Served(s)
<1>1. ASSUME NEW u \in Slaves, caller[u] = s PROVE FALSE
  <2>1. callee[s] = u
      BY <1>1, SlaveFacts DEF Calls
  <2> QED
      BY <1>1, <2>1, SlaveFacts DEF Polling
<1> QED
    BY <1>1 DEF Served

\* The steps of one slave, for the others.
LEMMA OthersSteady ==
    ASSUME ClusterInv, Calm, OneDeparture, MaxStops <= 1, [ServiceNext]_allVars,
           NEW s \in Slaves, SlaveStep(s), NEW u \in Slaves \ {s},
           \A t \in Slaves : ServeSlave(s, t) => t # u
    PROVE  Steady(u)
<1>1. Unmerged(u)' => Unmerged(u)
    BY UnmergedStays DEF OneDeparture
<1>2. CASE UNCHANGED <<masterVars, slaveVars, chanVars>>
    BY <1>1, <1>2, SameSteady DEF slaveVars, Served
<1>3. CASE ~UNCHANGED <<masterVars, slaveVars, chanVars>>
  <2>1. st'[u] = st[u] /\ todo'[u] = todo[u]
      BY <1>3, SlaveStepFacts
  <2>2. Alive(u) \/ New(u) => (Served(u)' <=> Served(u))
    <3>1. CASE caller' = caller
        BY <3>1 DEF Served
    <3>2. CASE \E t \in Slaves : ServeSlave(s, t)
      <4>1. PICK t \in Slaves : ServeSlave(s, t)
          BY <3>2
      <4>2. caller[s] # u /\ caller'[s] # u /\ \A x \in Slaves \ {s} : caller'[x] = caller[x]
          BY <4>1, NoSlaveAssumption DEF ServeSlave, Polling, ClusterInv, Shape
      <4> QED
          BY <4>2 DEF Served
    <3>3. CASE ReceiveFile(s)
      <4>1. PICK t \in Slaves : /\ caller[t] = s
                                /\ caller' = [caller EXCEPT ![t] = NoSlave]
          BY <3>3 DEF ReceiveFile
      <4>2. \A x \in Slaves : caller'[x] = u <=> caller[x] = u
          BY <4>1, NoSlaveAssumption DEF ClusterInv, Shape
      <4> QED
          BY <4>2 DEF Served
    <3>4. CASE ExitSlave(s)
      <4>1. /\ ~\E t \in Slaves : callee[t] = s /\ st[t] \in {"init", "run"}
            /\ caller' = [t \in Slaves |-> IF caller[t] = s \/ t = s THEN NoSlave ELSE caller[t]]
          BY <1>3, <3>4 DEF ExitSlave, Die
      <4>2. ASSUME Alive(u) \/ New(u) PROVE caller[s] # u
        <5>1. CASE caller[s] = u
          <6>1. callee[u] = s
              BY <5>1, NoSlaveAssumption, SlaveFacts DEF Calls
          <6>2. st[u] \in {"off", "register"} => callee[u] = NoSlave
              BY SlaveFacts DEF Holds
          <6> QED
              BY <4>1, <4>2, <6>1, <6>2, NoSlaveAssumption DEF Alive, New, Awaiting
        <5> QED
            BY <5>1
      <4>3. ASSUME Alive(u) \/ New(u) PROVE \A x \in Slaves : caller'[x] = u <=> caller[x] = u
          BY <4>1, <4>2, <4>3, NoSlaveAssumption
      <4> QED
          BY <4>3 DEF Served
    <3>5. \/ caller' = caller \/ ReceiveFile(s) \/ ExitSlave(s)
          \/ \E t \in Slaves : ServeSlave(s, t)
      <4>1. CASE Register(s)
          BY <1>3, <4>1 DEF Register, Die
      <4>2. CASE EnterLoop(s) \/ HandleNewSlave(s) \/ HandleRmSlave(s)
                 \/ HandleUpdateBackup12(s) \/ SendBackupReply(s) \/ CallSlave(s)
          BY <4>2 DEF EnterLoop, HandleNewSlave, HandleRmSlave, HandleUpdateBackup12,
                      SendBackupReply, CallSlave
      <4> QED
          BY <4>1, <4>2 DEF SlaveStep
    <3> QED
        BY <3>1, <3>2, <3>3, <3>4, <3>5
  <2> QED
      BY <1>1, <2>1, <2>2, SameSteady
<1> QED
    BY <1>2, <1>3

\* The handlers of a slave that polls, and what it does between its calls.
LEMMA WorkerSteady ==
    ASSUME ClusterInv, Calm, Errands, AllChores, OneDeparture, MaxStops <= 1,
           [ServiceNext]_allVars, NEW s \in Slaves,
           \/ EnterLoop(s) \/ HandleNewSlave(s) \/ HandleRmSlave(s)
           \/ HandleUpdateBackup12(s) \/ SendBackupReply(s) \/ CallSlave(s)
    PROVE  Steady(s)
<1>1. Unmerged(s)' => Unmerged(s)
    BY UnmergedStays DEF OneDeparture
<1>2. /\ st[s] \in {"init", "run"} /\ st'[s] \in {"init", "run"} /\ caller' = caller
    BY DEF EnterLoop, HandleNewSlave, HandleRmSlave, HandleUpdateBackup12,
           SendBackupReply, CallSlave, Polling, Working, ClusterInv, Shape
<1>3. callee[s] = NoSlave
  <2>1. CASE EnterLoop(s)
      BY <2>1, SlaveFacts DEF EnterLoop, Calls
  <2>2. CASE HandleNewSlave(s) \/ HandleRmSlave(s) \/ HandleUpdateBackup12(s)
      BY <2>2, SlaveFacts DEF HandleNewSlave, HandleRmSlave, HandleUpdateBackup12, Polling, Calls
  <2>3. CASE SendBackupReply(s) \/ CallSlave(s)
      BY <2>3 DEF SendBackupReply, CallSlave, Working
  <2> QED
      BY <2>1, <2>2, <2>3
<1>4. ~Served(s) /\ ~Served(s)'
    BY <1>2, <1>3, NotServed DEF Served
<1>5. Awaiting(s)' <=> Awaiting(s)
  <2>1. CASE HandleRmSlave(s)
      BY <2>1 DEF HandleRmSlave, Polling, Awaiting
  <2>2. CASE ~HandleRmSlave(s)
    <3>1. Arriving(s)' <=> Arriving(s)
        BY <2>2, ArrivalKept
    <3>2. s \in Members(mlist) /\ mlist' = mlist
        BY <1>2, ServingFacts DEF EnterLoop, HandleNewSlave, HandleRmSlave,
            HandleUpdateBackup12, SendBackupReply, CallSlave, masterVars
    <3> QED
        BY <1>2, <1>4, <3>1, <3>2 DEF Arriving, Awaiting, Served
  <2> QED
      BY <2>1, <2>2
<1> QED
    BY <1>1, <1>2, <1>4, <1>5 DEF Steady, Alive, New, Coming

-----------------------------------------------------------------------------
(* The answers that were kept, and the steps that leave them alone.        *)

Fates == fate \in [Keys -> {"kept", "lost", "stray"}]

\* What is true of the protocol, the types and the departure.
ServiceInv == /\ PlacesInv /\ ServiceTypes /\ Fates
              /\ AllChores /\ OneDeparture

\* What is true of the records, up to the merge.
RecordsInv ==
    /\ \A s \in Slaves : Tidy(s)
    /\ \A k \in Keys : Placed(k) /\ Answered(k)
    /\ \A s \in Slaves, k \in Keys : Alone(s, k) /\ (Unmerged(s) => Backed(s, 1, k))

\* A step of the service; changes do not overlap, and one slave leaves.
ServiceStep == /\ ServiceInv /\ ~Overlap /\ MaxStops <= 1
               /\ [ServiceNext]_allVars

LEMMA FrameStep ==
    ASSUME \A u \in Slaves : Steady(u) /\ SameFiles(u),
           UNCHANGED <<store, home, safe, fate>>, ServiceTypes
    PROVE  /\ RecordsInv => RecordsInv'
           /\ \A u \in Slaves, d \in 1..2, k \in Keys : Backed(u, d, k) => Backed(u, d, k)'
<1>1. \A u \in Slaves, k \in Keys : SameRecords(u, k)
    BY FilesRecords
<1>2. \A u \in Slaves, d \in 1..2, k \in Keys : Backed(u, d, k) => Backed(u, d, k)'
    BY <1>1, BackedKept
<1>3. ASSUME RecordsInv PROVE RecordsInv'
  <2>1. \A u \in Slaves : Tidy(u)'
      BY <1>3, TidyKept DEF RecordsInv
  <2>2. ASSUME NEW k \in Keys PROVE Placed(k)' /\ Answered(k)'
    <3>1. home[k] # NoSlave => home[k] \in Slaves
        BY DEF ServiceTypes
    <3>2. home[k] # NoSlave => /\ Steady(home[k]) /\ SameRecords(home[k], k)
                               /\ Awaiting(home[k])' <=> Awaiting(home[k])
        BY <1>1, <3>1 DEF Steady
    <3> QED
        BY <1>3, <3>2, PlacedKept, AnsweredKept DEF RecordsInv
  <2>3. \A u \in Slaves, k \in Keys : Alone(u, k)'
      BY <1>1, <1>3, AloneKept DEF RecordsInv
  <2>4. ASSUME NEW u \in Slaves, NEW k \in Keys, Unmerged(u)' PROVE Backed(u, 1, k)'
    <3>1. Unmerged(u) /\ 1 \in 1..2
        BY <2>4 DEF Steady
    <3> QED
        BY <1>2, <1>3, <3>1 DEF RecordsInv
  <2> QED
      BY <2>1, <2>2, <2>3, <2>4 DEF RecordsInv
<1> QED
    BY <1>2, <1>3

\* A slave that is started, or that leaves.
LEMMA BeginSteady ==
    ASSUME ClusterInv, NEW s \in Slaves, StartSlave(s) \/ StopSlave(s),
           NEW u \in Slaves, Unmerged(u)' => Unmerged(u)
    PROVE  Steady(u)
<1>1. /\ todo' = todo /\ caller' = caller /\ \A x \in Slaves \ {s} : st'[x] = st[x]
      /\ \/ st[s] = "off" /\ st'[s] = "register"
         \/ st[s] = "run" /\ st'[s] = "stopping"
    BY DEF StartSlave, StopSlave, ClusterInv, Shape
<1>2. CASE u # s
    BY <1>1, <1>2, SameSteady DEF Served
<1>3. CASE u = s
    BY <1>1, <1>3 DEF Steady, Alive, Awaiting, New, Served, Coming
<1> QED
    BY <1>2, <1>3

\* Every step but those that move or write records.
PlainStep ==
    \/ UNCHANGED allVars \/ MasterWorks \/ RenewBackups \/ Input \/ ClientStep \/ Accept
    \/ \E s \in Slaves : Start(s) \/ Leave(s) \/ SlaveWorks(s)
    \/ UNCHANGED <<masterVars, slaveVars, chanVars>> /\ UNCHANGED <<files, copy, store, home, safe, fate>>

LEMMA PlainFrame ==
    ASSUME ServiceStep, PlainStep
    PROVE  /\ \A u \in Slaves : Steady(u) /\ SameFiles(u)
           /\ UNCHANGED <<store, home, safe, fate>>
<1>1. /\ ClusterInv /\ Calm /\ Errands /\ AllChores /\ OneDeparture /\ MaxStops <= 1
      /\ [ServiceNext]_allVars /\ stops \in Nat
    BY DEF ServiceStep, ServiceInv, PlacesInv, OneDeparture
<1>2. UNCHANGED <<files, copy, store, home, safe, fate>>
  <2>1. CASE UNCHANGED allVars
      BY <2>1 DEF allVars, serviceVars
  <2>2. CASE MasterWorks \/ RenewBackups
      BY <2>2 DEF MasterWorks, RenewBackups, serviceVars
  <2>3. CASE Input
      BY <2>3 DEF Input, OpenCommand, QuitCommand, CloseCommand, GetCommand, DelCommand,
                  SetCommand, Client
  <2>4. CASE ClientStep
      BY <2>4 DEF ClientStep, ReadCloudNodes, OpenNode, AllOpen, ConnectionLost, CloseNode,
                  AllClosed, Client
  <2>5. CASE Accept
      BY <2>5 DEF Accept, Client
  <2>6. CASE \E s \in Slaves : Start(s) \/ Leave(s) \/ SlaveWorks(s)
      BY <2>6 DEF Start, Leave, SlaveWorks, serviceVars
  <2> QED
      BY <2>1, <2>2, <2>3, <2>4, <2>5, <2>6 DEF PlainStep
<1>3. ASSUME NEW u \in Slaves PROVE Steady(u)
  <2>0. Unmerged(u)' => Unmerged(u)
      BY <1>1, UnmergedStays
  <2>1. CASE slaveVars' = slaveVars
      BY <2>0, <2>1, SameSteady DEF slaveVars, Served
  <2>2. ASSUME NEW s \in Slaves, Start(s) \/ Leave(s) PROVE Steady(u)
      BY <1>1, <2>0, <2>2, BeginSteady DEF Start, Leave
  <2>3. ASSUME NEW s \in Slaves, SlaveWorks(s) PROVE Steady(u)
    <3>1. /\ \/ EnterLoop(s) \/ HandleNewSlave(s) \/ HandleUpdateBackup12(s)
             \/ SendBackupReply(s) \/ CallSlave(s)
        BY <2>3 DEF SlaveWorks
    <3>2. CASE u = s
        BY <1>1, <3>1, <3>2, WorkerSteady
    <3>3. CASE u # s
      <4>1. SlaveStep(s)
          BY <3>1 DEF SlaveStep
      <4>2. \A t \in Slaves : ServeSlave(s, t) => t # u
        <5>1. ASSUME NEW t \in Slaves, ServeSlave(s, t) PROVE FALSE
          <6>1. caller' = caller
              BY <3>1 DEF EnterLoop, HandleNewSlave, HandleUpdateBackup12, SendBackupReply, CallSlave
          <6>2. caller'[s] = t /\ caller[s] = NoSlave
              BY <5>1, <1>1 DEF ServeSlave, Polling, ClusterInv, Shape
          <6> QED
              BY <6>1, <6>2, NoSlaveAssumption
        <5> QED
            BY <5>1
      <4> QED
          BY <1>1, <3>3, <4>1, <4>2, OthersSteady
    <3> QED
        BY <3>2, <3>3
  <2>4. MasterWorks \/ RenewBackups \/ Input \/ ClientStep \/ Accept \/ UNCHANGED allVars
        => slaveVars' = slaveVars
    <3>1. MasterWorks \/ RenewBackups => slaveVars' = slaveVars
        BY DEF MasterWorks, RenewBackups, MasterStep, AddSlaveRequest, DelSlaveRequest, NotifyAll,
               FinishRequest, AlarmReply, Alarm, AlarmOnEmptyList, Die
    <3>2. Input \/ ClientStep \/ Accept => slaveVars' = slaveVars
        BY ClientAlone DEF vars
    <3> QED
        BY <3>1, <3>2 DEF allVars, vars
  <2> QED
      BY <2>1, <2>2, <2>3, <2>4 DEF PlainStep
<1> QED
    BY <1>2, <1>3 DEF SameFiles

-----------------------------------------------------------------------------
(* A slave gets its list.                                                  *)

LEMMA NoFilesFacts ==
    /\ Apart(NoFiles) /\ Clean(NoFiles) /\ NoFiles.db = NoRecords
    /\ \A d \in 1..2 : Backup(NoFiles, d) = NoRecords
    /\ \A k \in Keys : NoRecords[k] = None
<1>1. NoFiles.dir[1] = 0 /\ NoFiles.dir[2] = 0
    BY DEF NoFiles
<1>2. \A d \in 1..2 : d = 1 \/ d = 2
    OBVIOUS
<1>3. \A d \in 1..2 : NoFiles.dir[d] = 0
    BY <1>1, <1>2
<1> QED
    BY <1>1, <1>3 DEF NoFiles, Apart, Clean, Backup, NoRecords

LEMMA JoinFacts ==
    ASSUME ServiceStep, NEW s \in Slaves, JoinList(s), ~PlainStep
    PROVE  /\ st[s] = "register" /\ st'[s] = "init" /\ ~Served(s) /\ ~Served(s)'
           /\ UNCHANGED <<files, copy, store, safe, fate>>
           /\ sl'[s].num \in Nat \ {0} /\ todo'[s] = InitialCalls(sl'[s].num)
           /\ home' = IF sl'[s].num = 1 THEN [k \in Keys |-> s] ELSE home
           /\ \A u \in Slaves \ {s} : Steady(u)
           /\ sl'[s].num = 1 => \A u \in Slaves \ {s} : st[u] \notin {"init", "run", "stopping"}
<1>0. /\ ClusterInv /\ Calm /\ Errands /\ AllChores /\ OneDeparture /\ MaxStops <= 1
      /\ [ServiceNext]_allVars /\ stops \in Nat
    BY DEF ServiceStep, ServiceInv, PlacesInv, OneDeparture
<1>1. Register(s) /\ UNCHANGED <<files, copy, store, safe, fate>>
    BY DEF JoinList
<1>2. ~UNCHANGED <<masterVars, slaveVars, chanVars>>
  <2>1. ASSUME UNCHANGED <<masterVars, slaveVars, chanVars>> PROVE FALSE
    <3>1. st'[s] = "register"
        BY <1>1, <2>1 DEF Register, slaveVars
    <3>2. ~(crash' = "none")
      <4>1. ASSUME crash' = "none" PROVE FALSE
        <5>1. Head(toSlave[s]).cmd = "ADD_SLAVE_R" => st'[s] = "init"
            BY <1>0, <1>1 DEF Register, ClusterInv, Shape
        <5>2. Head(toSlave[s]).cmd # "ADD_SLAVE_R" => crash' = "assert ADD_SLAVE_R"
            BY <1>1 DEF Register, Die
        <5> QED
            BY <3>1, <4>1, <5>1, <5>2
      <4> QED
          BY <4>1
    <3>3. home' = home
        BY <3>2 DEF JoinList
    <3> QED
        BY <1>1, <2>1, <3>3 DEF PlainStep
  <2> QED
      BY <2>1
<1>3. /\ st[s] = "register" /\ toSlave[s] # <<>> /\ Head(toSlave[s]).cmd = "ADD_SLAVE_R"
      /\ st' = [st EXCEPT ![s] = "init"]
      /\ sl' = [sl EXCEPT ![s] = Head(toSlave[s]).list]
      /\ todo' = [todo EXCEPT ![s] = InitialCalls(Head(toSlave[s]).list.num)]
      /\ masterVars' = masterVars /\ callee' = callee /\ caller' = caller /\ crash' = "none"
    BY <1>1, <1>2 DEF Register, Die
<1>4. /\ st'[s] = "init" /\ todo'[s] = InitialCalls(sl'[s].num)
      /\ \A u \in Slaves \ {s} : st'[u] = st[u]
    BY <1>0, <1>3 DEF ClusterInv, Shape
<1>5. ~Served(s) /\ ~Served(s)'
    BY <1>0, <1>3, NewCallsNobody DEF Served
<1>6. SlaveStep(s)
    BY <1>1 DEF SlaveStep
<1>7. \A u \in Slaves \ {s} : Steady(u)
  <2>1. \A t \in Slaves : ~ServeSlave(s, t)
      BY <1>3 DEF ServeSlave, Polling
  <2> QED
      BY <1>0, <1>6, <2>1, OthersSteady
<1>8. PICK v, box : v = Head(toSlave[s]).list /\ box = toSlave[s]
    OBVIOUS
<1>9. /\ v = mlist /\ s \in Members(mlist)
  <2>1. Head(box) = box[1] /\ Len(box) \in Nat \ {0} /\ 1 \in 1..Len(box)
      BY <1>0, <1>3, <1>8, SlaveFacts, TailQueue
  <2>2. ~Asking(s) /\ ~Joining(s)
      BY <1>3, <1>8, <2>1 DEF Asking, Joining
  <2>3. States(s) /\ Moving(s) /\ MasterInv
      BY <1>0, <1>3, SlaveFacts DEF Moving
  <2>4. Welcomed(s)
      BY <1>3, <2>2, <2>3 DEF States
  <2>5. job.op = "idle"
      BY <1>0, <1>3, <2>2, <2>3, JobState DEF MasterInv
  <2>6. PICK p : Agrees(s, v, p, Tail(box))
      BY <1>8, <2>1, <2>4 DEF Welcomed, Connected
  <2>7. v = mlist /\ p \in Positions(v) /\ v.nodes[p].id = s
      BY <2>5, <2>6 DEF Agrees, Behind, AfterJob
  <2> QED
      BY <2>7 DEF Members
<1>10. /\ sl'[s] = mlist /\ s \in Members(mlist)
       /\ \A u \in Slaves : st[u] \in {"init", "run"} => u \in Members(mlist)
  <2>1. \A u \in Slaves : st[u] \in {"init", "run"} => u \in Members(mlist)
      BY <1>0, ServingFacts
  <2> QED
      BY <1>0, <1>3, <1>8, <1>9, <2>1 DEF ClusterInv, Shape
<1>11. mlist.num \in Nat /\ mlist.num # 0
  <2>1. IsSlaveList(mlist, Slaves)
      BY <1>0 DEF ClusterInv, Inv, MasterInv
  <2>2. s \in Members(mlist)
      BY <1>10
  <2> QED
      BY <2>1, <2>2 DEF IsSlaveList, Members, Positions
<1>12. ASSUME mlist.num = 1, NEW u \in Slaves \ {s}
       PROVE  st[u] \notin {"init", "run", "stopping"}
  <2>1. st[u] \notin {"init", "stopping"}
      BY <1>0, <1>3 DEF Calm, Moving
  <2>2. Positions(mlist) = {0}
      BY <1>12 DEF Positions
  <2>3. s \in Members(mlist) /\ (st[u] = "run" => u \in Members(mlist))
      BY <1>10
  <2>4. st[u] # "run"
      BY <2>2, <2>3 DEF Members
  <2> QED
      BY <2>1, <2>4
<1>13. home' = IF sl'[s].num = 1 THEN [k \in Keys |-> s] ELSE home
    BY <1>3 DEF JoinList
<1> QED
    BY <1>1, <1>3, <1>4, <1>5, <1>7, <1>10, <1>11, <1>12, <1>13

LEMMA JoinRecords ==
    ASSUME ServiceStep, NEW s \in Slaves, JoinList(s), ~PlainStep, RecordsInv
    PROVE  /\ RecordsInv'
           /\ \A u \in Slaves, d \in 1..2, k \in Keys : Backed(u, d, k) => Backed(u, d, k)'
<1>1. /\ st[s] = "register" /\ st'[s] = "init" /\ ~Served(s) /\ ~Served(s)'
      /\ UNCHANGED <<files, copy, store, safe, fate>>
      /\ sl'[s].num \in Nat \ {0} /\ todo'[s] = InitialCalls(sl'[s].num)
      /\ home' = IF sl'[s].num = 1 THEN [k \in Keys |-> s] ELSE home
      /\ \A u \in Slaves \ {s} : Steady(u)
      /\ sl'[s].num = 1 => \A u \in Slaves \ {s} : st[u] \notin {"init", "run", "stopping"}
    BY JoinFacts
<1>2. ServiceTypes
    BY DEF ServiceStep, ServiceInv
<1>3. /\ \A u \in Slaves : SameFiles(u) /\ \A k \in Keys : SameRecords(u, k)
    BY <1>1, FilesRecords DEF SameFiles
<1>4. /\ files'[s] = NoFiles /\ copy'[s] = NoRecords
      /\ \A k \in Keys, d \in 1..2 : <<s, d>> \notin safe'[k]
    BY <1>1 DEF RecordsInv, Tidy, New
<1>5. Awaiting(s)' <=> sl'[s].num # 1
  <2>1. PICK n : n = sl'[s].num /\ n \in Nat \ {0}
      BY <1>1
  <2>2. /\ n > 1 => InitialCalls(n) # <<>> /\ Head(InitialCalls(n)) = -1
        /\ n <= 1 => InitialCalls(n) = <<>>
      BY <2>1, InitialErrand
  <2> QED
      BY <1>1, <2>1, <2>2 DEF Awaiting
<1>6. \A d \in 1..2 : ~Coming(s, d)'
    BY <1>1 DEF Coming
<1>7. \A k \in Keys : /\ home[k] # NoSlave => home[k] \in Slaves \ {s}
                      /\ sl'[s].num = 1 => home[k] = NoSlave
  <2>1. ASSUME NEW k \in Keys, home[k] # NoSlave
        PROVE  /\ home[k] \in Slaves \ {s} /\ sl'[s].num # 1
    <3>1. home[k] \in Slaves /\ st[home[k]] \in {"init", "run", "stopping"}
        BY <1>2, <2>1 DEF ServiceTypes, RecordsInv, Placed
    <3> QED
        BY <1>1, <3>1
  <2> QED
      BY <2>1
<1>8. ASSUME NEW u \in Slaves PROVE Tidy(u)'
  <2>1. CASE u = s
      BY <1>1, <1>4, <2>1, NoFilesFacts DEF Tidy
  <2>2. CASE u # s
      BY <1>1, <1>3, <2>2, TidyKept DEF RecordsInv
  <2> QED
      BY <2>1, <2>2
<1>9. ASSUME NEW k \in Keys PROVE Placed(k)' /\ Answered(k)'
  <2>1. CASE sl'[s].num = 1
    <3>1. home'[k] = s /\ home[k] = NoSlave /\ s # NoSlave
        BY <1>1, <1>7, <2>1, NoSlaveAssumption
    <3>2. Placed(k)'
        BY <1>1, <1>5, <2>1, <3>1 DEF Placed
    <3>3. Answered(k)'
      <4>1. fate[k] = "kept" => store[k] = None
          BY <3>1 DEF RecordsInv, Answered
      <4>2. Db(s)'[k] = None
          BY <1>4, <1>5, <2>1, NoFilesFacts DEF Db
      <4> QED
          BY <1>1, <3>1, <4>1, <4>2 DEF Answered
    <3> QED
        BY <3>2, <3>3
  <2>2. CASE sl'[s].num # 1
    <3>1. /\ home'[k] = home[k]
          /\ home[k] # NoSlave => /\ Steady(home[k]) /\ SameRecords(home[k], k)
                                  /\ Awaiting(home[k])' <=> Awaiting(home[k])
        BY <1>1, <1>3, <1>7, <2>2 DEF Steady
    <3> QED
        BY <1>1, <3>1, PlacedKept, AnsweredKept DEF RecordsInv
  <2> QED
      BY <2>1, <2>2
<1>10. ASSUME NEW u \in Slaves, NEW k \in Keys PROVE Alone(u, k)'
  <2>1. CASE u = s
    <3>1. Db(s)'[k] = None /\ Copied(s, 1)'[k] = None
        BY <1>4, <1>6, NoFilesFacts DEF Db, Copied
    <3> QED
        BY <2>1, <3>1 DEF Alone
  <2>2. CASE u # s /\ sl'[s].num = 1
    <3>1. ~Alive(u)'
        BY <1>1, <2>2 DEF Steady, Alive
    <3> QED
        BY <3>1 DEF Alone
  <2>3. CASE u # s /\ sl'[s].num # 1
      BY <1>1, <1>3, <2>3, AloneKept DEF RecordsInv
  <2> QED
      BY <2>1, <2>2, <2>3
<1>11. ASSUME NEW u \in Slaves, NEW d \in 1..2, NEW k \in Keys, Backed(u, d, k)
       PROVE  Backed(u, d, k)'
  <2>1. CASE u = s
      BY <1>4, <2>1 DEF Backed
  <2>2. CASE u # s
      BY <1>1, <1>3, <1>11, <2>2, BackedKept
  <2> QED
      BY <2>1, <2>2
<1>12. ASSUME NEW u \in Slaves, NEW k \in Keys, Unmerged(u)' PROVE Backed(u, 1, k)'
  <2>1. CASE u = s
      BY <1>4, <2>1 DEF Backed
  <2>2. CASE u # s
      BY <1>1, <1>11, <1>12, <2>2 DEF RecordsInv, Steady
  <2> QED
      BY <2>1, <2>2
<1> QED
    BY <1>8, <1>9, <1>10, <1>11, <1>12 DEF RecordsInv

-----------------------------------------------------------------------------
(* A slave serves another.                                                 *)

LEMMA RenamedFacts ==
    ASSUME NEW S, NEW s, NEW d \in 1..2, NEW e \in 1..2, d # e
    PROVE  /\ \A u, x : u # s => (<<u, x>> \in Renamed(S, s, d, e) <=> <<u, x>> \in S)
           /\ <<s, d>> \notin Renamed(S, s, d, e)
           /\ <<s, e>> \in Renamed(S, s, d, e) <=> <<s, d>> \in S \/ <<s, e>> \in S
    BY DEF Renamed

LEMMA ServeFacts ==
    ASSUME ServiceStep, NEW t \in Slaves, NEW s \in Slaves, ServeSlave(t, s)
    PROVE  /\ t # s /\ st[t] = "run" /\ todo[t] = <<>> /\ todo[s] # <<>>
           /\ Alive(t) /\ ~New(t) /\ ~Awaiting(t) /\ \A d \in 1..2 : ~Coming(t, d) /\ ~Coming(t, d)'
           /\ ~Served(s) /\ Served(s)'
           /\ st' = st /\ todo' = todo /\ sl' = sl
           /\ \A u \in Slaves \ {s} : Steady(u)
           /\ Unmerged(s)' => Unmerged(s)
           /\ Awaiting(s)' <=> Awaiting(s)
           /\ Alive(s) /\ Unmerged(s) => Unmerged(t)
           /\ st[s] \in {"init", "run", "stopping"}
<1>0. /\ ClusterInv /\ Calm /\ Errands /\ AllChores /\ OneDeparture /\ MaxStops <= 1
      /\ [ServiceNext]_allVars /\ stops \in Nat
    BY DEF ServiceStep, ServiceInv, PlacesInv, OneDeparture
<1>1. /\ callee[s] = t /\ t # NoSlave /\ st[t] = "run" /\ todo[t] = <<>> /\ caller[t] = NoSlave
      /\ caller' = [caller EXCEPT ![t] = s] /\ st' = st /\ todo' = todo /\ sl' = sl
      /\ Polling(t)
    BY NoSlaveAssumption DEF ServeSlave, Polling
<1>2. t # s /\ todo[s] # <<>>
    BY <1>0, <1>1, SlaveFacts DEF Calls
<1>3. ~Served(s)
    BY <1>0, <1>1, ServedBy
<1>4. Served(s)'
    BY <1>0, <1>1 DEF Served, ClusterInv, Shape
<1>5. \A u \in Slaves \ {s} : Steady(u)
  <2>1. ASSUME NEW u \in Slaves \ {s} PROVE Steady(u)
    <3>1. \A x \in Slaves : caller'[x] = u <=> caller[x] = u
        BY <1>0, <1>1, NoSlaveAssumption DEF ClusterInv, Shape
    <3>2. Unmerged(u)' => Unmerged(u)
        BY <1>0, UnmergedStays
    <3> QED
        BY <1>1, <3>1, <3>2, SameSteady DEF Served
  <2> QED
      BY <2>1
<1>6. Unmerged(s)' => Unmerged(s)
    BY <1>0, UnmergedStays
<1>7. Alive(s) /\ Unmerged(s) => Unmerged(t)
  <2>1. SUFFICES ASSUME Alive(s), Unmerged(s), stops # 0 PROVE FALSE
      BY DEF Unmerged
  <2>2. PICK u \in Slaves : st[u] = "stopping"
      BY <2>1 DEF Unmerged
  <2>3. Moving(u) /\ u # s
      BY <2>1, <2>2 DEF Moving, Alive
  <2>4. st[s] = "run"
      BY <1>0, <2>1, <2>3 DEF Calm, Moving, Alive
  <2> QED
      BY <1>0, <1>2, <2>1, <2>3, <2>4 DEF OneDeparture
<1>8. st[s] \in {"init", "run", "stopping"}
  <2>1. States(s) /\ Holds(s) /\ Chores(s)
      BY <1>0, SlaveFacts DEF AllChores
  <2> QED
      BY <1>2, <2>1 DEF States, Holds, Chores
<1>9. /\ Alive(t) /\ ~New(t) /\ ~Awaiting(t) /\ \A d \in 1..2 : ~Coming(t, d) /\ ~Coming(t, d)'
    BY <1>1 DEF Alive, New, Awaiting, Coming
<1> QED
    BY <1>1, <1>2, <1>3, <1>4, <1>5, <1>6, <1>7, <1>8, <1>9 DEF Awaiting

\* CLIP_DATA.
LEMMA ClipRecords ==
    ASSUME ServiceStep, NEW t \in Slaves, NEW s \in Slaves, ServeClipData(t, s), RecordsInv
    PROVE  /\ RecordsInv'
           /\ \A u \in Slaves, k \in Keys :
                 (\A d \in 1..2 : Backed(u, d, k)) => \A d \in 1..2 : Backed(u, d, k)'
           /\ st[s] = "init" /\ fate' = fate
           /\ \A k \in Keys : home[k] # s /\ (home'[k] # home[k] => home[k] = t /\ home'[k] = s)
           /\ \A d \in 1..2, k \in Keys : ~Marked(s, d, k)'
           /\ \A u \in Slaves \ {t}, k \in Keys : MarksStay(u, k)
           /\ \A k \in Keys :
                 /\ Marked(t, 1, k)' /\ Unmerged(t)' /\ fate[k] # "stray" =>
                       home[k] = t /\ home'[k] = s
                 /\ Marked(t, 2, k)' => Marked(t, 1, k) \/ Marked(t, 2, k)
<1>1. PICK l, r : l = Node(t, 1).key /\ r = Node(t, 2).key
    OBVIOUS
<1>2. PICK f, g, taken, kept : /\ f = files[t] /\ g = ClipData(f, l, r)
                               /\ taken = Taken(f.db, l, r) /\ kept = Kept(f.db, l, r)
    OBVIOUS
<1>3. ServiceTypes /\ DOMAIN files = Slaves /\ DOMAIN copy = Slaves /\ f \in FileStates
    BY <1>2 DEF ServiceStep, ServiceInv, ServiceTypes
<1>4. ServeSlave(t, s) /\ Head(todo[s]) = -1
    BY DEF ServeClipData
<1>5. /\ t # s /\ st[t] = "run" /\ todo[t] = <<>> /\ todo[s] # <<>>
      /\ Alive(t) /\ ~New(t) /\ ~Awaiting(t) /\ \A d \in 1..2 : ~Coming(t, d) /\ ~Coming(t, d)'
      /\ ~Served(s) /\ Served(s)'
      /\ st' = st /\ todo' = todo /\ sl' = sl
      /\ \A u \in Slaves \ {s} : Steady(u)
      /\ Unmerged(s)' => Unmerged(s)
      /\ Awaiting(s)' <=> Awaiting(s)
      /\ Alive(s) /\ Unmerged(s) => Unmerged(t)
      /\ st[s] \in {"init", "run", "stopping"}
    BY <1>4, ServeFacts
<1>6. st[s] = "init" /\ Awaiting(s) /\ New(s) /\ Awaiting(s)'
  <2>1. Chores(s)
      BY DEF ServiceStep, ServiceInv, AllChores
  <2>2. todo[s] \notin HandlerChores
      BY <1>4, <1>5, TailChores
  <2> QED
      BY <1>4, <1>5, <2>1, <2>2 DEF Chores, Awaiting, New
<1>7. /\ copy' = [copy EXCEPT ![s] = taken] /\ files' = [files EXCEPT ![t] = g]
      /\ UNCHANGED <<store, fate>>
    BY <1>1, <1>2 DEF ServeClipData
<1>8. /\ files'[t] = g /\ copy'[s] = taken /\ files'[s] = files[s] /\ copy'[t] = copy[t]
      /\ \A u \in Slaves \ {s, t} : SameFiles(u)
    BY <1>3, <1>5, <1>7 DEF SameFiles
<1>9. /\ g \in FileStates /\ g.db = kept
      /\ Backup(g, 1) = taken /\ g.dir[1] # 0
      /\ f.dir[1] # 0 => Backup(g, 2) = Backup(f, 1) /\ g.dir[2] # 0
      /\ f.dir[1] = 0 => Backup(g, 2) = Backup(f, 2)
      /\ Apart(g) /\ (Clean(f) => Clean(g))
    BY <1>2, <1>3, ClipDataFacts
<1>10. \A k \in Keys : /\ taken[k] = IF SplitTakes(l, k, r) THEN f.db[k] ELSE None
                       /\ kept[k] = IF SplitTakes(l, k, r) THEN None ELSE f.db[k]
    BY <1>2 DEF Taken, Kept
<1>11. \A k \in Keys :
          /\ home'[k] = IF home[k] = t /\ SplitTakes(l, k, r) THEN s ELSE home[k]
          /\ home[k] # s
  <2>1. \A k \in Keys : home'[k] = IF home[k] = t /\ SplitTakes(l, k, r) THEN s ELSE home[k]
      BY <1>1 DEF ServeClipData
  <2>2. \A k \in Keys : home[k] # s
      BY <1>5, <1>6, NoSlaveAssumption DEF RecordsInv, Placed
  <2> QED
      BY <2>1, <2>2
<1>12. \A k \in Keys :
          /\ \A u \in Slaves \ {t}, d \in 1..2 : <<u, d>> \in safe'[k] => <<u, d>> \in safe[k]
          /\ <<t, 1>> \in safe'[k] => home[k] = t /\ SplitTakes(l, k, r)
          /\ <<t, 2>> \in safe'[k] => <<t, 1>> \in safe[k]
  <2>1. ASSUME NEW k \in Keys
        PROVE  /\ \A u \in Slaves \ {t}, d \in 1..2 : <<u, d>> \in safe'[k] => <<u, d>> \in safe[k]
               /\ <<t, 1>> \in safe'[k] => home[k] = t /\ SplitTakes(l, k, r)
               /\ <<t, 2>> \in safe'[k] => <<t, 1>> \in safe[k]
    <3>1. PICK S : S = safe[k] \ {<<t, 2>>}
        OBVIOUS
    <3>2. safe'[k] = Renamed(S, t, 1, 2) \cup
                     (IF home[k] = t /\ SplitTakes(l, k, r) THEN {<<t, 1>>} ELSE {})
        BY <1>1, <3>1 DEF ServeClipData
    <3>3. 1 \in 1..2 /\ 2 \in 1..2 /\ 1 # 2
        OBVIOUS
    <3>4. /\ \A u, x : u # t => (<<u, x>> \in Renamed(S, t, 1, 2) <=> <<u, x>> \in S)
          /\ <<t, 1>> \notin Renamed(S, t, 1, 2)
          /\ <<t, 2>> \in Renamed(S, t, 1, 2) <=> <<t, 1>> \in S \/ <<t, 2>> \in S
        BY <3>3, RenamedFacts
    <3> QED
        BY <3>1, <3>2, <3>4
  <2> QED
      BY <2>1
<1>13. ASSUME NEW u \in Slaves PROVE Tidy(u)'
  <2>1. CASE u = t
    <3>1. Alive(t)' /\ Unmerged(t)' => Clean(f)
        BY <1>2, <1>5 DEF RecordsInv, Tidy, Steady
    <3>2. ~New(t)'
        BY <1>5 DEF Steady
    <3> QED
        BY <1>8, <1>9, <2>1, <3>1, <3>2 DEF Tidy
  <2>2. CASE u = s
    <3>1. files[s] = NoFiles /\ \A k \in Keys, d \in 1..2 : <<s, d>> \notin safe[k]
        BY <1>6 DEF RecordsInv, Tidy
    <3> QED
        BY <1>5, <1>8, <1>12, <2>2, <3>1, NoFilesFacts DEF Tidy
  <2>3. CASE u \notin {s, t}
      BY <1>5, <1>8, <1>12, <2>3, TidyKept DEF RecordsInv
  <2> QED
      BY <2>1, <2>2, <2>3
<1>14. ASSUME NEW k \in Keys PROVE Placed(k)' /\ Answered(k)'
  <2>1. CASE home[k] = t /\ SplitTakes(l, k, r)
    <3>1. home'[k] = s /\ s # NoSlave /\ t # NoSlave
        BY <1>11, <2>1, NoSlaveAssumption
    <3>2. Placed(k)'
        BY <1>5, <1>6, <3>1 DEF Placed
    <3>3. fate[k] = "kept" => f.db[k] = store[k]
        BY <1>2, <1>5, <2>1, <3>1 DEF RecordsInv, Answered, Db
    <3>4. Db(s)'[k] = f.db[k]
        BY <1>6, <1>8, <1>10, <2>1 DEF Db
    <3> QED
        BY <1>7, <3>1, <3>2, <3>3, <3>4 DEF Answered
  <2>2. CASE home[k] = t /\ ~SplitTakes(l, k, r)
    <3>1. home'[k] = t /\ t # NoSlave
        BY <1>11, <2>2, NoSlaveAssumption
    <3>2. Placed(k)'
        BY <1>5, <2>2, <3>1, PlacedKept DEF RecordsInv
    <3>3. fate[k] = "kept" => f.db[k] = store[k]
        BY <1>2, <1>5, <2>2, <3>1 DEF RecordsInv, Answered, Db
    <3>4. Db(t)'[k] = f.db[k]
        BY <1>5, <1>8, <1>9, <1>10, <2>2 DEF Db, Steady
    <3> QED
        BY <1>7, <3>1, <3>2, <3>3, <3>4 DEF Answered
  <2>3. CASE home[k] # t
    <3>1. home'[k] = home[k] /\ (home[k] # NoSlave => home[k] \in Slaves \ {s, t})
        BY <1>3, <1>11, <2>3 DEF ServiceTypes
    <3>2. home[k] # NoSlave => /\ Steady(home[k]) /\ SameRecords(home[k], k)
                               /\ Awaiting(home[k])' <=> Awaiting(home[k])
        BY <1>5, <1>8, <3>1, FilesRecords DEF Steady
    <3> QED
        BY <1>7, <3>1, <3>2, PlacedKept, AnsweredKept DEF RecordsInv
  <2> QED
      BY <2>1, <2>2, <2>3
<1>15. ASSUME NEW u \in Slaves, NEW k \in Keys PROVE Alone(u, k)'
  <2>1. CASE u = t
    <3>1. SUFFICES ASSUME Unmerged(t)', fate[k] # "stray" PROVE Alone(t, k)'
        BY <1>7, <2>1 DEF Alone
    <3>2. home[k] # t => f.db[k] = None
        BY <1>2, <1>5, <3>1 DEF RecordsInv, Alone, Steady, Db
    <3>3. home'[k] # t => Db(t)'[k] = None
      <4>1. Db(t)' = kept
          BY <1>5, <1>8, <1>9 DEF Db, Steady
      <4> QED
          BY <1>10, <1>11, <3>2, <4>1
    <3>4. home'[k] = t => Copied(t, 1)'[k] = None
      <4>1. 1 \in 1..2
          OBVIOUS
      <4>2. Copied(t, 1)' = taken
          BY <1>5, <1>8, <1>9, <4>1 DEF Copied
      <4> QED
          BY <1>5, <1>10, <1>11, <4>2
    <3> QED
        BY <2>1, <3>3, <3>4 DEF Alone
  <2>2. CASE u = s
    <3>1. SUFFICES ASSUME Alive(s), Unmerged(s)', fate[k] # "stray" PROVE Alone(s, k)'
        BY <1>5, <1>7, <2>2 DEF Alone, Alive
    <3>2. home[k] # t => f.db[k] = None
        BY <1>2, <1>5, <3>1 DEF RecordsInv, Alone, Db
    <3>3. home'[k] # s => Db(s)'[k] = None
      <4>1. Db(s)' = taken
          BY <1>6, <1>8 DEF Db
      <4> QED
          BY <1>10, <1>11, <3>2, <4>1
    <3>4. Copied(s, 1)'[k] = None
      <4>1. ~Coming(s, 1)'
          BY <1>4, <1>5 DEF Coming
      <4>2. 1 \in 1..2
          OBVIOUS
      <4>3. Tidy(s)
          BY DEF RecordsInv
      <4>4. files'[s] = NoFiles
          BY <1>6, <1>8, <4>3 DEF Tidy
      <4> QED
          BY <4>1, <4>2, <4>4, NoFilesFacts DEF Copied
    <3> QED
        BY <2>2, <3>3, <3>4 DEF Alone
  <2>3. CASE u \notin {s, t}
    <3>1. home'[k] = u <=> home[k] = u
        BY <1>11, <2>3
    <3> QED
        BY <1>5, <1>7, <1>8, <2>3, <3>1, AloneKept, FilesRecords DEF RecordsInv
  <2> QED
      BY <2>1, <2>2, <2>3
<1>16. ASSUME NEW k \in Keys PROVE Backed(t, 1, k)' /\ (Backed(t, 1, k) => Backed(t, 2, k)')
  <2>0. 1 \in 1..2 /\ 2 \in 1..2
      OBVIOUS
  <2>1. Backed(t, 1, k)'
    <3>1. SUFFICES ASSUME fate[k] = "kept", <<t, 1>> \in safe'[k] PROVE Backed(t, 1, k)'
        BY <1>7 DEF Backed
    <3>2. home[k] = t /\ SplitTakes(l, k, r) /\ t # NoSlave
        BY <1>12, <3>1, NoSlaveAssumption
    <3>3. taken[k] = store[k]
        BY <1>2, <1>5, <1>10, <3>1, <3>2 DEF RecordsInv, Answered, Db
    <3>4. Copied(t, 1)' = taken
        BY <1>5, <1>8, <1>9, <2>0 DEF Copied
    <3> QED
        BY <1>7, <1>8, <1>9, <3>3, <3>4 DEF Backed
  <2>2. ASSUME Backed(t, 1, k) PROVE Backed(t, 2, k)'
    <3>1. SUFFICES ASSUME fate[k] = "kept", <<t, 2>> \in safe'[k] PROVE Backed(t, 2, k)'
        BY <1>7 DEF Backed
    <3>2. f.dir[1] # 0 /\ Backup(f, 1)[k] = store[k]
        BY <1>2, <1>5, <1>12, <2>0, <2>2, <3>1 DEF Backed, Copied
    <3>3. Copied(t, 2)' = Backup(g, 2)
        BY <1>5, <1>8, <2>0 DEF Copied
    <3> QED
        BY <1>7, <1>8, <1>9, <3>2, <3>3 DEF Backed
  <2> QED
      BY <2>1, <2>2
<1>17. ASSUME NEW u \in Slaves, NEW k \in Keys, u # t, NEW d \in 1..2, Backed(u, d, k)
       PROVE  Backed(u, d, k)'
  <2>1. CASE u = s
    <3>1. <<s, d>> \notin safe'[k]
        BY <1>5, <1>6, <1>12 DEF RecordsInv, Tidy
    <3> QED
        BY <2>1, <3>1 DEF Backed
  <2>2. CASE u # s
    <3>1. Steady(u) /\ SameRecords(u, k) /\ (<<u, d>> \in safe'[k] => <<u, d>> \in safe[k])
        BY <1>5, <1>8, <1>12, <1>17, <2>2, FilesRecords
    <3> QED
        BY <1>7, <1>17, <3>1, BackedKept
  <2> QED
      BY <2>1, <2>2
<1>18. ASSUME NEW u \in Slaves, NEW k \in Keys, Unmerged(u)'
       PROVE  Backed(u, 1, k)'
  <2>1. CASE u = t
      BY <1>16, <2>1
  <2>2. CASE u # t
    <3>1. Unmerged(u) /\ 1 \in 1..2
        BY <1>5, <1>18 DEF Steady
    <3> QED
        BY <1>17, <2>2, <3>1 DEF RecordsInv
  <2> QED
      BY <2>1, <2>2
<1>19. ASSUME NEW u \in Slaves, NEW k \in Keys, \A d \in 1..2 : Backed(u, d, k)
       PROVE  \A d \in 1..2 : Backed(u, d, k)'
  <2>1. CASE u = t
    <3>1. Backed(t, 1, k)' /\ Backed(t, 2, k)'
        BY <1>16, <1>19, <2>1
    <3>2. \A d \in 1..2 : d = 1 \/ d = 2
        OBVIOUS
    <3> QED
        BY <2>1, <3>1, <3>2
  <2>2. CASE u # t
      BY <1>17, <1>19, <2>2
  <2> QED
      BY <2>1, <2>2
<1>20. \A d \in 1..2, k \in Keys : ~Marked(s, d, k)'
  <2>1. files'[s] = NoFiles /\ \A k \in Keys, d \in 1..2 : <<s, d>> \notin safe'[k]
      BY <1>5, <1>6, <1>8, <1>12 DEF RecordsInv, Tidy
  <2>2. \A d \in 1..2 : ~Coming(s, d)'
      BY <1>4, <1>5 DEF Coming
  <2>3. \A d \in 1..2, k \in Keys : (Copied(s, d)')[k] = None
      BY <2>1, <2>2, NoFilesFacts DEF Copied
  <2> QED
      BY <2>1, <2>3 DEF Marked
<1>21. ASSUME NEW u \in Slaves \ {t}, NEW k \in Keys PROVE MarksStay(u, k)
  <2>1. CASE u = s
      BY <1>20, <2>1 DEF MarksStay
  <2>2. CASE u # s
    <3>1. Steady(u) /\ SameRecords(u, k) /\ \A d \in 1..2 : <<u, d>> \in safe'[k] => <<u, d>> \in safe[k]
        BY <1>5, <1>8, <1>12, <2>2, FilesRecords
    <3> QED
        BY <1>7, <3>1, MarksOf
  <2> QED
      BY <2>1, <2>2
<1>22. ASSUME NEW k \in Keys
       PROVE  /\ Marked(t, 1, k)' /\ Unmerged(t)' /\ fate[k] # "stray" =>
                    home[k] = t /\ home'[k] = s
              /\ Marked(t, 2, k)' => Marked(t, 1, k) \/ Marked(t, 2, k)
  <2>1. 1 \in 1..2 /\ 2 \in 1..2
      OBVIOUS
  <2>2. /\ Copied(t, 1) = Backup(f, 1) /\ Copied(t, 2) = Backup(f, 2)
        /\ Copied(t, 1)' = taken /\ Copied(t, 2)' = Backup(g, 2)
      BY <1>2, <1>5, <1>8, <1>9, <2>1 DEF Copied
  <2>3. ASSUME Marked(t, 1, k)', Unmerged(t)', fate[k] # "stray"
        PROVE  home[k] = t /\ home'[k] = s
    <3>1. home[k] # t => f.db[k] = None
        BY <1>2, <1>5, <2>3 DEF RecordsInv, Alone, Steady, Db
    <3>2. home[k] = t /\ SplitTakes(l, k, r)
        BY <1>10, <1>12, <2>2, <2>3, <3>1 DEF Marked
    <3> QED
        BY <1>11, <3>2
  <2>4. Marked(t, 2, k)' => Marked(t, 1, k) \/ Marked(t, 2, k)
      BY <1>9, <1>12, <2>2 DEF Marked
  <2> QED
      BY <2>3, <2>4
<1> QED
    BY <1>6, <1>7, <1>11, <1>13, <1>14, <1>15, <1>18, <1>19, <1>20, <1>21, <1>22 DEF RecordsInv

-----------------------------------------------------------------------------
\* BACKUP.
LEMMA BackupRecords ==
    ASSUME ServiceStep, NEW t \in Slaves, NEW s \in Slaves, ServeBackup(t, s), RecordsInv
    PROVE  /\ RecordsInv'
           /\ \A u \in Slaves, e \in 1..2, k \in Keys : Backed(u, e, k) => Backed(u, e, k)'
<1>1. PICK d : d = Head(todo[s])
    OBVIOUS
<1>2. ServiceTypes /\ DOMAIN files = Slaves /\ DOMAIN copy = Slaves
    BY DEF ServiceStep, ServiceInv, ServiceTypes
<1>3. ServeSlave(t, s) /\ d \in 1..2 /\ (d = 1 \/ d = 2)
    BY <1>1 DEF ServeBackup
<1>4. /\ t # s /\ st[t] = "run" /\ todo[s] # <<>> /\ Alive(t) /\ ~Awaiting(t)
      /\ ~Served(s) /\ Served(s)'
      /\ st' = st /\ todo' = todo
      /\ \A u \in Slaves \ {s} : Steady(u)
      /\ Unmerged(s)' => Unmerged(s)
      /\ Awaiting(s)' <=> Awaiting(s)
      /\ Alive(s) /\ Unmerged(s) => Unmerged(t)
      /\ st[s] \in {"init", "run", "stopping"}
    BY <1>3, ServeFacts
<1>5. /\ ~Awaiting(s) /\ ~New(s) /\ ~New(s)' /\ (Alive(s)' <=> Alive(s))
      /\ Coming(s, d)' /\ \A e \in 1..2 : /\ ~Coming(s, e)
                                          /\ e # d => ~Coming(s, e)'
  <2>1. ~Awaiting(s)
      BY <1>1, <1>3 DEF Awaiting
  <2> QED
      BY <1>1, <1>3, <1>4, <2>1 DEF New, Alive, Coming
<1>6. /\ files' = files /\ copy' = [copy EXCEPT ![s] = files[t].db]
      /\ UNCHANGED <<store, home, fate>>
    BY DEF ServeBackup
<1>7. /\ copy'[s] = files[t].db /\ files'[s] = files[s]
      /\ \A u \in Slaves \ {s} : SameFiles(u)
    BY <1>2, <1>6 DEF SameFiles
<1>8. \A k \in Keys :
          /\ \A u \in Slaves, e \in 1..2 :
                u # s \/ e # d => (<<u, e>> \in safe'[k] <=> <<u, e>> \in safe[k])
          /\ <<s, d>> \in safe'[k] => home[k] = t
  <2>1. \A k \in Keys : safe'[k] = IF home[k] = t THEN safe[k] \cup {<<s, d>>}
                                   ELSE safe[k] \ {<<s, d>>}
      BY <1>1 DEF ServeBackup
  <2> QED
      BY <2>1
<1>9. /\ Db(s)' = Db(s) /\ Copied(s, d)' = files[t].db
      /\ \A e \in 1..2 : e # d => Copied(s, e)' = Copied(s, e)
  <2>1. Db(s)' = Db(s)
      BY <1>4, <1>5, <1>7 DEF Db
  <2>2. Copied(s, d)' = files[t].db
      BY <1>3, <1>5, <1>7 DEF Copied
  <2>3. ASSUME NEW e \in 1..2, e # d PROVE Copied(s, e)' = Copied(s, e)
      BY <1>5, <1>7, <2>3 DEF Copied
  <2> QED
      BY <2>1, <2>2, <2>3
<1>10. ASSUME NEW u \in Slaves PROVE Tidy(u)'
  <2>1. CASE u = s
    <3>1. Tidy(s)
        BY DEF RecordsInv
    <3> QED
        BY <1>4, <1>5, <1>7, <2>1, <3>1 DEF Tidy
  <2>2. CASE u # s
    <3>1. Tidy(u) /\ Steady(u) /\ SameFiles(u)
        BY <1>4, <1>7, <2>2 DEF RecordsInv
    <3>2. \A k \in Keys, e \in 1..2 : <<u, e>> \in safe'[k] => <<u, e>> \in safe[k]
        BY <1>8, <2>2
    <3> QED
        BY <3>1, <3>2, TidyKept
  <2> QED
      BY <2>1, <2>2
<1>11. ASSUME NEW k \in Keys PROVE Placed(k)' /\ Answered(k)'
  <2>1. CASE home[k] = s
    <3>1. home'[k] = s /\ s # NoSlave /\ store'[k] = store[k] /\ fate'[k] = fate[k]
        BY <1>6, <2>1, NoSlaveAssumption
    <3>2. Placed(k)'
        BY <1>4, <1>5, <3>1 DEF Placed
    <3>3. Answered(k)'
        BY <1>9, <2>1, <3>1 DEF RecordsInv, Answered
    <3> QED
        BY <3>2, <3>3
  <2>2. CASE home[k] # s
    <3>1. home[k] # NoSlave => home[k] \in Slaves \ {s}
        BY <1>2, <2>2 DEF ServiceTypes
    <3>0. \A u \in Slaves \ {s} : /\ Steady(u) /\ SameRecords(u, k)
                                  /\ Awaiting(u)' <=> Awaiting(u)
        BY <1>4, <1>7, FilesRecords DEF Steady
    <3>2. home[k] # NoSlave => /\ Steady(home[k]) /\ SameRecords(home[k], k)
                               /\ Awaiting(home[k])' <=> Awaiting(home[k])
        BY <1>6, <3>0, <3>1 DEF Steady
    <3> QED
        BY <1>6, <3>2, PlacedKept, AnsweredKept DEF RecordsInv
  <2> QED
      BY <2>1, <2>2
<1>12. ASSUME NEW u \in Slaves, NEW k \in Keys PROVE Alone(u, k)'
  <2>1. CASE u = s
    <3>1. SUFFICES ASSUME Alive(s), Unmerged(s)', fate[k] # "stray" PROVE Alone(s, k)'
        BY <1>5, <1>6, <2>1 DEF Alone
    <3>2. Alone(s, k) /\ Alone(t, k) /\ Unmerged(s) /\ Unmerged(t)
        BY <1>4, <3>1 DEF RecordsInv
    <3>3. home[k] # s => Db(s)'[k] = None
        BY <1>9, <3>1, <3>2 DEF Alone
    <3>4. ASSUME home[k] = s PROVE Copied(s, 1)'[k] = None
      <4>1. CASE d = 1
        <5>1. files[t].db[k] = None
            BY <1>4, <3>1, <3>2, <3>4 DEF Alone, Db
        <5> QED
            BY <1>9, <4>1, <5>1
      <4>2. CASE d # 1
        <5>1. 1 \in 1..2
            OBVIOUS
        <5> QED
            BY <1>9, <3>1, <3>2, <3>4, <4>2, <5>1 DEF Alone
      <4> QED
          BY <4>1, <4>2
    <3> QED
        BY <1>6, <2>1, <3>3, <3>4 DEF Alone
  <2>2. CASE u # s
    <3>1. Alone(u, k) /\ Steady(u) /\ SameRecords(u, k)
        BY <1>4, <1>7, <2>2, FilesRecords DEF RecordsInv
    <3> QED
        BY <1>6, <3>1, AloneKept
  <2> QED
      BY <2>1, <2>2
<1>13. ASSUME NEW u \in Slaves, NEW e \in 1..2, NEW k \in Keys, Backed(u, e, k)
       PROVE  Backed(u, e, k)'
  <2>1. CASE u = s /\ e = d
    <3>1. SUFFICES ASSUME fate[k] = "kept", <<s, d>> \in safe'[k] PROVE Backed(s, d, k)'
        BY <1>6, <2>1 DEF Backed
    <3>2. home[k] = t /\ t # NoSlave
        BY <1>8, <3>1, NoSlaveAssumption
    <3>3. files[t].db[k] = store[k]
        BY <1>4, <3>1, <3>2 DEF RecordsInv, Answered, Db
    <3> QED
        BY <1>5, <1>6, <1>9, <3>3 DEF Backed
  <2>2. CASE u = s /\ e # d
    <3>1. SUFFICES ASSUME Alive(s), fate[k] = "kept", <<s, e>> \in safe'[k] PROVE Backed(s, e, k)'
        BY <1>5, <1>6, <2>2 DEF Backed
    <3>2. <<s, e>> \in safe[k]
        BY <1>8, <2>2, <3>1
    <3>3. Copied(s, e)[k] = store[k] /\ files[s].dir[e] # 0
        BY <1>5, <1>13, <2>2, <3>1, <3>2 DEF Backed
    <3> QED
        BY <1>6, <1>7, <1>9, <2>2, <3>3 DEF Backed
  <2>3. CASE u # s
    <3>1. Steady(u) /\ SameRecords(u, k) /\ (<<u, e>> \in safe'[k] => <<u, e>> \in safe[k])
        BY <1>4, <1>7, <1>8, <2>3, FilesRecords
    <3> QED
        BY <1>6, <1>13, <3>1, BackedKept
  <2> QED
      BY <2>1, <2>2, <2>3
<1>14. ASSUME NEW u \in Slaves, NEW k \in Keys, Unmerged(u)' PROVE Backed(u, 1, k)'
  <2>1. Unmerged(u) /\ 1 \in 1..2
      BY <1>4, <1>14 DEF Steady
  <2> QED
      BY <1>13, <2>1 DEF RecordsInv
<1> QED
    BY <1>10, <1>11, <1>12, <1>13, <1>14 DEF RecordsInv

-----------------------------------------------------------------------------
\* The place of the second predecessor, and the places after that.
LEMMA TwoBack ==
    ASSUME NEW n \in Nat, n > 2, NEW p \in 0..(n - 1), NEW q, q = (p + -2 + n) % n
    PROVE  /\ q \in 0..(n - 1) /\ (q + 2) % n = p /\ (q + 3) % n = (p + 1) % n
<1>1. PICK x : x = p + -2 + n
    OBVIOUS
<1>2. x \in Nat /\ x < 2 * n /\ n \in Nat \ {0}
    BY <1>1
<1>3. q = IF x < n THEN x ELSE x - n
    BY <1>1, <1>2, ModOnce
<1>4. q = (IF p < 2 THEN p + n - 2 ELSE p - 2) /\ q \in 0..(n - 1)
    BY <1>1, <1>2, <1>3
<1>5. PICK y, z : y = q + 2 /\ z = q + 3
    OBVIOUS
<1>6. y \in Nat /\ y < 2 * n /\ z \in Nat /\ z < 2 * n
    BY <1>4, <1>5
<1>7. y % n = (IF y < n THEN y ELSE y - n) /\ z % n = (IF z < n THEN z ELSE z - n)
    BY <1>2, <1>6, ModOnce
<1>8. y % n = p
    BY <1>4, <1>5, <1>7
<1>9. z % n = (p + 1) % n
  <2>1. (p + 1) % n = IF p = n - 1 THEN 0 ELSE p + 1
      BY <1>2, Neighbours
  <2> QED
      BY <1>4, <1>5, <1>7, <2>1
<1> QED
    BY <1>4, <1>5, <1>8, <1>9

\* Who sends UPDATE_BACKUP2, and what is split off for it.
LEMMA UpdateFacts ==
    ASSUME ServiceStep, NEW t \in Slaves, NEW s \in Slaves, ServeSlave(t, s),
           Head(todo[s]) = -2
    PROVE  /\ st[s] = "init" /\ job.op = "idle" /\ sl[s] = mlist /\ sl[t] = mlist
           /\ mlist.num > 2 /\ Node(t, 2).id = s /\ todo[s] = << -2, 2 >>
           /\ \A k \in Keys :
                 /\ home[k] = Owner(mlist, k)
                 /\ SplitTakes(Node(t, 2).key, k, Node(t, 3).key) <=> home[k] = s
<1>0. /\ ClusterInv /\ Calm /\ Errands /\ Homes /\ Chores(s) /\ MasterInv /\ Errand(s)
      /\ callee[s] = t /\ st[t] = "run" /\ todo[s] # <<>> /\ t # NoSlave
    BY ServeFacts, SlaveFacts, NoSlaveAssumption
       DEF ServiceStep, ServiceInv, PlacesInv, AllChores, Errands, ServeSlave
<1>1. st[s] = "init" /\ sl[s].num > 2 /\ Moving(s) /\ todo[s] = << -2, 2 >>
  <2>1. st[s] \in {"init", "run", "stopping"}
      BY ServeFacts
  <2>2. todo[s] \notin HandlerChores
      BY <1>0, TailChores
  <2>3. st[s] = "init" /\ todo[s] \in InitialChores
      BY <1>0, <2>1, <2>2 DEF Chores
  <2>4. todo[s] = << -2, 2 >>
    <3>1. /\ Head(<< -1, 1, -2, 2 >>) = -1 /\ Head(<< 1, -2, 2 >>) = 1
          /\ Head(<< 2 >>) = 2 /\ Head(<< -1, 1 >>) = -1 /\ Head(<< 1 >>) = 1
        OBVIOUS
    <3> QED
        BY <1>0, <2>3, <3>1 DEF InitialChores
  <2> QED
      BY <1>0, <2>3, <2>4 DEF Chores, WithUpdate, Moving
<1>2. job.op = "idle"
    BY <1>0, <1>1, JobState DEF MasterInv
<1>3. /\ sl[s] = mlist /\ sl[t] = mlist
      /\ pos[s] \in Positions(mlist) /\ mlist.nodes[pos[s]].id = s
      /\ pos[t] \in Positions(mlist) /\ mlist.nodes[pos[t]].id = t
    BY <1>0, <1>1, <1>2, ServingFacts
<1>4. PICK N, p, q : N = mlist.num /\ p = pos[s] /\ q = pos[t]
    OBVIOUS
<1>5. /\ IsSlaveList(mlist, Slaves) /\ Ordered(mlist) /\ N \in Nat /\ N > 2
      /\ p \in 0..(N - 1) /\ q \in 0..(N - 1) /\ p \in Positions(mlist)
    BY <1>0, <1>1, <1>3, <1>4 DEF MasterInv, IsSlaveList, Positions
<1>6. PICK r : r = (p + -2 + N) % N
    OBVIOUS
<1>7. r \in 0..(N - 1) /\ (r + 2) % N = p /\ (r + 3) % N = (p + 1) % N
    BY <1>5, <1>6, TwoBack
<1>8. q = r
  <2>1. t = mlist.nodes[r].id
      BY <1>0, <1>1, <1>3, <1>4, <1>6 DEF Errand, Other
  <2>2. r \in Positions(mlist)
      BY <1>4, <1>7 DEF Positions
  <2> QED
      BY <1>3, <1>4, <1>5, <2>1, <2>2, OnePlace
<1>9. /\ Node(t, 2).id = s /\ Node(t, 2).key = Lower(mlist, p)
      /\ Node(t, 3).key = Upper(mlist, p)
    BY <1>3, <1>4, <1>7, <1>8 DEF Node, Lower, Upper
<1>10. \A k \in Keys : home[k] = Owner(mlist, k)
  <2>1. ASSUME NEW u \in Slaves PROVE ~Arriving(u)
    <3>1. CASE u = s
        BY <1>0, <1>1, <3>1 DEF Arriving
    <3>2. CASE u # s
        BY <1>0, <1>1, <3>2 DEF Calm, Arriving, Moving
    <3> QED
        BY <3>1, <3>2
  <2>2. ~TakenOver
      BY <1>2 DEF TakenOver
  <2> QED
      BY <1>0, <1>4, <1>5, <2>1, <2>2 DEF Homes, Routed
<1>11. ASSUME NEW k \in Keys
       PROVE  SplitTakes(Node(t, 2).key, k, Node(t, 3).key) <=> home[k] = s
  <2>1. k \in RingKeys
      BY SlaveFilesAssumption
  <2>2. PICK v : v = mlist
      OBVIOUS
  <2>3. IsSlaveList(v, Slaves) /\ Ordered(v) /\ v.num > 1 /\ p \in Positions(v)
      BY <1>4, <1>5, <2>2
  <2>4. SplitTakes(Lower(v, p), k, Upper(v, p)) <=> GetSocket(v, k) = p
      BY <2>1, <2>3, SplitIsRouting
  <2>5. GetSocket(v, k) \in Positions(v)
    <3>1. v.num > 0
        BY <2>3 DEF IsSlaveList
    <3> QED
        BY <2>1, <2>3, <3>1, SocketHolds
  <2>6. GetSocket(v, k) = p <=> v.nodes[GetSocket(v, k)].id = s
      BY <1>3, <1>4, <2>2, <2>3, <2>5, OnePlace
  <2> QED
      BY <1>9, <1>10, <2>2, <2>4, <2>6 DEF Owner
<1> QED
    BY <1>1, <1>2, <1>3, <1>4, <1>5, <1>9, <1>10, <1>11

-----------------------------------------------------------------------------
\* The split succeeds.
LEMMA UpdateServes ==
    ASSUME NEW t \in Slaves, NEW s \in Slaves, ServeUpdateBackup2(t, s), ~PlainStep
    PROVE  ServeSlave(t, s) /\ Head(todo[s]) = -2 /\ stops' = stops
<1>1. Head(todo[s]) = -2 /\ stops' = stops
    BY DEF ServeUpdateBackup2, bounds
<1>2. CASE UpdateBackup2Faults(files[t])
    BY <1>2 DEF ServeUpdateBackup2, Die, PlainStep
<1>3. CASE ~UpdateBackup2Faults(files[t])
    BY <1>1, <1>3 DEF ServeUpdateBackup2
<1> QED
    BY <1>1, <1>2, <1>3

\* UPDATE_BACKUP2.
LEMMA UpdateRecords ==
    ASSUME ServiceStep, NEW t \in Slaves, NEW s \in Slaves, ServeUpdateBackup2(t, s),
           ~PlainStep, RecordsInv
    PROVE  /\ RecordsInv'
           /\ \A u \in Slaves, k \in Keys :
                 (\A e \in 1..2 : Backed(u, e, k)) => \A e \in 1..2 : Backed(u, e, k)'
           /\ UNCHANGED <<home, fate>> /\ \A u \in Slaves \ {t}, k \in Keys : MarksStay(u, k)
           /\ \A k \in Keys : /\ Marked(t, 1, k)' => home[k] # s /\ Marked(t, 1, k)
                              /\ Marked(t, 2, k)' => home[k] = s /\ Marked(t, 1, k)
<1>1. ServeSlave(t, s) /\ Head(todo[s]) = -2
    BY UpdateServes
<1>2. PICK f, l, r, g : /\ f = files[t] /\ l = Node(t, 2).key /\ r = Node(t, 3).key
                        /\ g = UpdateBackup2(f, l, r)
    OBVIOUS
<1>3. /\ ServiceTypes /\ DOMAIN files = Slaves /\ f \in FileStates
      /\ Apart(f) /\ (Alive(t) /\ Unmerged(t) => Clean(f))
    BY <1>2 DEF ServiceStep, ServiceInv, ServiceTypes, RecordsInv, Tidy
<1>4. /\ t # s /\ st[t] = "run" /\ Alive(t) /\ ~New(t) /\ ~Awaiting(t)
      /\ \A d \in 1..2 : ~Coming(t, d) /\ ~Coming(t, d)'
      /\ ~Served(s) /\ Served(s)' /\ st' = st /\ todo' = todo
      /\ \A u \in Slaves \ {s} : Steady(u)
      /\ Unmerged(s)' => Unmerged(s)
      /\ st[s] \in {"init", "run", "stopping"}
    BY <1>1, ServeFacts
<1>5. /\ Node(t, 2).id = s
      /\ \A k \in Keys : SplitTakes(l, k, r) <=> home[k] = s
    BY <1>1, <1>2, UpdateFacts
<1>6. Steady(s)
    BY <1>1, <1>4 DEF Steady, Alive, Awaiting, New, Coming
<1>7. \A u \in Slaves : Steady(u)
    BY <1>4, <1>6
<1>8. ~UpdateBackup2Faults(f) /\ UNCHANGED <<copy, store, home, fate>>
  <2>1. CASE UpdateBackup2Faults(files[t])
      BY <2>1 DEF ServeUpdateBackup2, Die, PlainStep
  <2>2. CASE ~UpdateBackup2Faults(files[t])
      BY <1>2, <2>2 DEF ServeUpdateBackup2
  <2> QED
      BY <2>1, <2>2
<1>9. /\ files' = [files EXCEPT ![t] = g]
      /\ safe' = [k \in Keys |-> IF home[k] = s THEN Renamed(safe[k] \ {<<t, 2>>}, t, 1, 2)
                                 ELSE safe[k] \ {<<t, 2>>}]
    BY <1>2, <1>5, <1>8 DEF ServeUpdateBackup2
<1>10. files'[t] = g /\ copy'[t] = copy[t] /\ \A u \in Slaves \ {t} : SameFiles(u)
    BY <1>3, <1>8, <1>9 DEF SameFiles
<1>11. /\ g \in FileStates /\ g.db = f.db
       /\ Backup(g, 1) = Kept(Backup(f, 1), l, r) /\ g.dir[1] # 0
       /\ Backup(g, 2) = Taken(Backup(f, 1), l, r) /\ g.dir[2] # 0
       /\ Apart(g) /\ (Clean(f) => Clean(g))
    BY <1>2, <1>3, UpdateBackup2Facts
<1>12. \A k \in Keys :
          /\ Backup(g, 1)[k] = IF home[k] = s THEN None ELSE Backup(f, 1)[k]
          /\ Backup(g, 2)[k] = IF home[k] = s THEN Backup(f, 1)[k] ELSE None
    BY <1>5, <1>11 DEF Kept, Taken
<1>13. \A k \in Keys :
          /\ \A u \in Slaves \ {t}, e \in 1..2 : <<u, e>> \in safe'[k] => <<u, e>> \in safe[k]
          /\ <<t, 1>> \in safe'[k] => home[k] # s /\ <<t, 1>> \in safe[k]
          /\ <<t, 2>> \in safe'[k] => home[k] = s /\ <<t, 1>> \in safe[k]
  <2>1. ASSUME NEW k \in Keys
        PROVE  /\ \A u \in Slaves \ {t}, e \in 1..2 : <<u, e>> \in safe'[k] => <<u, e>> \in safe[k]
               /\ <<t, 1>> \in safe'[k] => home[k] # s /\ <<t, 1>> \in safe[k]
               /\ <<t, 2>> \in safe'[k] => home[k] = s /\ <<t, 1>> \in safe[k]
    <3>1. 1 \in 1..2 /\ 2 \in 1..2 /\ 1 # 2
        OBVIOUS
    <3> DEFINE S == safe[k] \ {<<t, 2>>}
    <3> HIDE DEF S
    <3>2. /\ \A u, x : u # t => (<<u, x>> \in Renamed(S, t, 1, 2) <=> <<u, x>> \in S)
          /\ <<t, 1>> \notin Renamed(S, t, 1, 2)
          /\ <<t, 2>> \in Renamed(S, t, 1, 2) <=> <<t, 1>> \in S \/ <<t, 2>> \in S
        BY <3>1, RenamedFacts
    <3>3. safe'[k] = IF home[k] = s THEN Renamed(S, t, 1, 2) ELSE S
        BY <1>9 DEF S
    <3>4. /\ \A u, x : <<u, x>> \in S => <<u, x>> \in safe[k]
          /\ <<t, 2>> \notin S
        BY DEF S
    <3> QED
        BY <3>2, <3>3, <3>4
  <2> QED
      BY <2>1
<1>14. Db(t)' = f.db /\ Db(t) = f.db
    BY <1>2, <1>4, <1>10, <1>11 DEF Db, Awaiting
<1>15. /\ Copied(t, 1) = Backup(f, 1) /\ Copied(t, 1)' = Backup(g, 1)
       /\ Copied(t, 2)' = Backup(g, 2)
  <2>1. 1 \in 1..2 /\ 2 \in 1..2
      OBVIOUS
  <2> QED
      BY <1>2, <1>4, <1>10, <2>1 DEF Copied
<1>16. ASSUME NEW u \in Slaves PROVE Tidy(u)'
  <2>1. CASE u = t
    <3>1. Alive(t)' /\ Unmerged(t)' => Clean(f)
        BY <1>3, <1>7 DEF Steady
    <3>2. ~New(t)'
        BY <1>4, <1>7 DEF Steady
    <3> QED
        BY <1>10, <1>11, <2>1, <3>1, <3>2 DEF Tidy
  <2>2. CASE u # t
      BY <1>7, <1>10, <1>13, <2>2, TidyKept DEF RecordsInv
  <2> QED
      BY <2>1, <2>2
<1>17. ASSUME NEW k \in Keys PROVE Placed(k)' /\ Answered(k)'
  <2>1. home[k] # NoSlave => home[k] \in Slaves
      BY <1>3 DEF ServiceTypes
  <2>2. home[k] # NoSlave => Steady(home[k]) /\ (Awaiting(home[k])' <=> Awaiting(home[k]))
      BY <1>7, <1>8, <2>1 DEF Steady
  <2>3. Placed(k)'
      BY <1>8, <2>2, PlacedKept DEF RecordsInv
  <2>4. CASE home[k] = t
    <3>1. t # NoSlave
        BY NoSlaveAssumption
    <3> QED
        BY <1>8, <1>14, <2>3, <2>4, <3>1 DEF RecordsInv, Answered
  <2>5. CASE home[k] # t
    <3>1. \A u \in Slaves \ {t} : SameRecords(u, k)
        BY <1>10, FilesRecords
    <3>2. home[k] # NoSlave => SameRecords(home[k], k)
        BY <2>1, <2>5, <3>1
    <3> QED
        BY <1>8, <2>2, <2>3, <3>2, AnsweredKept DEF RecordsInv
  <2> QED
      BY <2>4, <2>5
<1>18. ASSUME NEW u \in Slaves, NEW k \in Keys PROVE Alone(u, k)'
  <2>1. CASE u = t
    <3>1. SUFFICES ASSUME Unmerged(t)', fate[k] # "stray" PROVE Alone(t, k)'
        BY <1>8, <2>1 DEF Alone
    <3>2. Alone(t, k) /\ Unmerged(t)
        BY <1>7, <3>1 DEF RecordsInv, Steady
    <3>3. home[k] # t => Db(t)'[k] = None
        BY <1>4, <1>14, <3>1, <3>2 DEF Alone
    <3>4. home[k] = t => Copied(t, 1)'[k] = None
        BY <1>4, <1>12, <1>15, <3>1, <3>2 DEF Alone
    <3> QED
        BY <1>8, <2>1, <3>3, <3>4 DEF Alone
  <2>2. CASE u # t
    <3>1. Alone(u, k) /\ Steady(u) /\ SameRecords(u, k)
        BY <1>7, <1>10, <2>2, FilesRecords DEF RecordsInv
    <3> QED
        BY <1>8, <3>1, AloneKept
  <2> QED
      BY <2>1, <2>2
<1>19. ASSUME NEW k \in Keys, Backed(t, 1, k)
       PROVE  Backed(t, 1, k)' /\ Backed(t, 2, k)'
  <2>1. Backed(t, 1, k)'
    <3>1. SUFFICES ASSUME fate[k] = "kept", <<t, 1>> \in safe'[k] PROVE Backed(t, 1, k)'
        BY <1>8 DEF Backed
    <3>2. home[k] # s /\ Copied(t, 1)[k] = store[k]
        BY <1>4, <1>13, <1>19, <3>1 DEF Backed
    <3>3. Copied(t, 1)'[k] = store[k]
        BY <1>12, <1>15, <3>2
    <3> QED
        BY <1>8, <1>10, <1>11, <3>3 DEF Backed
  <2>2. Backed(t, 2, k)'
    <3>1. SUFFICES ASSUME fate[k] = "kept", <<t, 2>> \in safe'[k] PROVE Backed(t, 2, k)'
        BY <1>8 DEF Backed
    <3>2. home[k] = s /\ Copied(t, 1)[k] = store[k]
        BY <1>4, <1>13, <1>19, <3>1 DEF Backed
    <3>3. Copied(t, 2)'[k] = store[k]
        BY <1>12, <1>15, <3>2
    <3> QED
        BY <1>8, <1>10, <1>11, <3>3 DEF Backed
  <2> QED
      BY <2>1, <2>2
<1>20. ASSUME NEW u \in Slaves, NEW k \in Keys, u # t, NEW e \in 1..2, Backed(u, e, k)
       PROVE  Backed(u, e, k)'
  <2>1. Steady(u) /\ SameRecords(u, k) /\ (<<u, e>> \in safe'[k] => <<u, e>> \in safe[k])
      BY <1>7, <1>10, <1>13, <1>20, FilesRecords
  <2> QED
      BY <1>8, <1>20, <2>1, BackedKept
<1>21. ASSUME NEW u \in Slaves, NEW k \in Keys, Unmerged(u)' PROVE Backed(u, 1, k)'
  <2>1. Unmerged(u) /\ 1 \in 1..2
      BY <1>7, <1>21 DEF Steady
  <2> QED
      BY <1>19, <1>20, <2>1 DEF RecordsInv
<1>22. ASSUME NEW u \in Slaves, NEW k \in Keys, \A e \in 1..2 : Backed(u, e, k)
       PROVE  \A e \in 1..2 : Backed(u, e, k)'
  <2>1. CASE u = t
    <3>1. Backed(t, 1, k)' /\ Backed(t, 2, k)'
      <4>1. 1 \in 1..2
          OBVIOUS
      <4> QED
          BY <1>19, <1>22, <2>1, <4>1
    <3>2. \A e \in 1..2 : e = 1 \/ e = 2
        OBVIOUS
    <3> QED
        BY <2>1, <3>1, <3>2
  <2>2. CASE u # t
      BY <1>20, <1>22, <2>2
  <2> QED
      BY <2>1, <2>2
<1>23. ASSUME NEW u \in Slaves \ {t}, NEW k \in Keys PROVE MarksStay(u, k)
  <2>1. Steady(u) /\ SameRecords(u, k) /\ \A e \in 1..2 : <<u, e>> \in safe'[k] => <<u, e>> \in safe[k]
      BY <1>7, <1>10, <1>13, FilesRecords
  <2> QED
      BY <1>8, <2>1, MarksOf
<1>24. \A k \in Keys : /\ Marked(t, 1, k)' => home[k] # s /\ Marked(t, 1, k)
                       /\ Marked(t, 2, k)' => home[k] = s /\ Marked(t, 1, k)
    BY <1>12, <1>13, <1>15 DEF Marked
<1> QED
    BY <1>8, <1>16, <1>17, <1>18, <1>21, <1>22, <1>23, <1>24 DEF RecordsInv

-----------------------------------------------------------------------------
\* What is on its way to a slave when it receives it.
LEMMA ReceiveFacts ==
    ASSUME ServiceStep, NEW s \in Slaves, ReceiveFile(s)
    PROVE  /\ st[s] \in {"init", "run"} /\ st' = st /\ todo[s] # <<>>
           /\ Head(todo[s]) \in {-2, -1, 1, 2}
           /\ Served(s) /\ ~Served(s)' /\ ~Awaiting(s)' /\ ~New(s)'
           /\ \A d \in 1..2 : ~Coming(s, d)'
           /\ Alive(s) /\ Alive(s)'
           /\ Unmerged(s)' => Unmerged(s)
           /\ \A u \in Slaves \ {s} : Steady(u)
<1>0. /\ ClusterInv /\ Calm /\ Errands /\ AllChores /\ OneDeparture /\ MaxStops <= 1
      /\ [ServiceNext]_allVars /\ stops \in Nat
    BY DEF ServiceStep, ServiceInv, PlacesInv, OneDeparture
<1>1. PICK t \in Slaves : /\ callee[s] = t /\ caller[t] = s
                          /\ caller' = [caller EXCEPT ![t] = NoSlave]
    BY DEF ReceiveFile
<1>2. /\ st[s] \in {"init", "run"} /\ st' = st /\ todo' = [todo EXCEPT ![s] = Tail(@)]
      /\ Calls(s) /\ Holds(s) /\ IsQueue(todo[s]) /\ Chores(s) /\ t # NoSlave
      /\ s \in DOMAIN todo
    BY <1>0, SlaveFacts, NoSlaveAssumption DEF ReceiveFile, AllChores, ClusterInv, Shape
<1>3. todo[s] # <<>> /\ Head(todo[s]) \in {-2, -1, 1, 2}
  <2>1. todo[s] # <<>> /\ todo[s][1] # 0
      BY <1>1, <1>2 DEF Calls
  <2>2. Head(todo[s]) = todo[s][1] /\ 1 \in 1..Len(todo[s])
    <3>1. Head(todo[s]) = todo[s][1] /\ Len(todo[s]) \in Nat \ {0}
        BY <1>2, <2>1, TailQueue
    <3> QED
        BY <3>1
  <2>3. todo[s][1] \in -2..2
      BY <1>2, <2>2 DEF Holds
  <2> QED
      BY <2>1, <2>2, <2>3
<1>4. Served(s)
    BY <1>1 DEF Served
<1>5. ~Served(s)'
  <2>1. ASSUME NEW x \in Slaves, caller'[x] = s PROVE FALSE
    <3>1. x # t
        BY <1>0, <1>1, <2>1, NoSlaveAssumption DEF ClusterInv, Shape
    <3>2. caller[x] = s
        BY <1>0, <1>1, <2>1, <3>1 DEF ClusterInv, Shape
    <3>3. callee[s] = x
        BY <1>0, <3>2, SlaveFacts DEF Calls
    <3> QED
        BY <1>1, <3>1, <3>3
  <2> QED
      BY <2>1 DEF Served
<1>6. ~Awaiting(s)'
  <2>1. todo'[s] = Tail(todo[s])
      BY <1>2
  <2>2. st[s] = "init" => todo[s] \in InitialChores
      BY <1>2 DEF Chores
  <2>3. st[s] = "init" => Tail(todo[s]) = <<>> \/ Head(Tail(todo[s])) # -1
      BY <1>3, <2>2, TailChores
  <2> QED
      BY <1>2, <2>1, <2>3 DEF Awaiting
<1>7. \A u \in Slaves \ {s} : Steady(u)
  <2>1. SlaveStep(s)
      BY DEF SlaveStep
  <2>2. \A x \in Slaves : ~ServeSlave(s, x)
      BY <1>3 DEF ServeSlave, Polling
  <2> QED
      BY <1>0, <2>1, <2>2, OthersSteady
<1>8. Unmerged(s)' => Unmerged(s)
    BY <1>0, UnmergedStays
<1> QED
    BY <1>2, <1>3, <1>4, <1>5, <1>6, <1>7, <1>8 DEF New, Coming, Alive

\* The call returns.
LEMMA ReceiveKeeps ==
    ASSUME ServiceStep, NEW s \in Slaves, ReceiveRecords(s), RecordsInv
    PROVE  /\ RecordsInv'
           /\ \A u \in Slaves, e \in 1..2, k \in Keys : Backed(u, e, k) => Backed(u, e, k)'
           /\ UNCHANGED <<home, safe, fate>> /\ \A e \in 1..2 : Copied(s, e)' = Copied(s, e)
<1>1. PICK d, f, g : /\ d = Head(todo[s]) /\ f = files[s]
                     /\ g = IF d = -2 THEN f ELSE RecvFile(f, IF d = -1 THEN 0 ELSE d, copy[s])
    OBVIOUS
<1>2. /\ ServiceTypes /\ DOMAIN files = Slaves /\ DOMAIN copy = Slaves /\ f \in FileStates
      /\ Apart(f) /\ (Alive(s) /\ Unmerged(s) => Clean(f)) /\ copy[s] \in Records
    BY <1>1 DEF ServiceStep, ServiceInv, ServiceTypes, RecordsInv, Tidy
<1>3. /\ st[s] \in {"init", "run"} /\ st' = st /\ todo[s] # <<>>
      /\ d \in {-2, -1, 1, 2}
      /\ Served(s) /\ ~Served(s)' /\ ~Awaiting(s)' /\ ~New(s)'
      /\ \A e \in 1..2 : ~Coming(s, e)'
      /\ Alive(s) /\ Alive(s)'
      /\ Unmerged(s)' => Unmerged(s)
      /\ \A u \in Slaves \ {s} : Steady(u)
    BY <1>1, ReceiveFacts DEF ReceiveRecords
<1>4. /\ files'[s] = g /\ UNCHANGED <<store, home, safe, fate>>
      /\ \A u \in Slaves \ {s} : SameFiles(u)
    BY <1>1, <1>2 DEF ReceiveRecords, SameFiles
<1>5. /\ g.db = Db(s) /\ Apart(g) /\ (Clean(f) => Clean(g))
      /\ \A e \in 1..2 : /\ Backup(g, e) = Copied(s, e)
                         /\ (f.dir[e] # 0 \/ Coming(s, e)) => g.dir[e] # 0
  <2>1. CASE d = -2
    <3>1. ~Awaiting(s) /\ \A e \in 1..2 : ~Coming(s, e)
        BY <1>1, <2>1 DEF Awaiting, Coming
    <3>2. g = f
        BY <1>1, <2>1
    <3> QED
        BY <1>1, <1>2, <3>1, <3>2 DEF Db, Copied
  <2>2. CASE d = -1
    <3>1. \A e \in 1..2 : ~Coming(s, e)
        BY <1>1, <2>2 DEF Coming
    <3>2. Awaiting(s)
      <4>1. Chores(s)
          BY DEF ServiceStep, ServiceInv, AllChores
      <4>2. todo[s] \notin HandlerChores
          BY <1>1, <1>3, <2>2, TailChores
      <4> QED
          BY <1>1, <1>3, <2>2, <4>1, <4>2 DEF Chores, Awaiting
    <3>3. g = [f EXCEPT !.db = copy[s]]
        BY <1>1, <2>2 DEF RecvFile
    <3>4. g.db = copy[s] /\ g.dir = f.dir /\ g.data = f.data /\ g.held = f.held /\ g.torn = f.torn
        BY <1>2, <3>3 DEF FileStates
    <3> QED
        BY <1>1, <1>2, <3>1, <3>2, <3>4 DEF Db, Copied, Backup, Apart, Clean
  <2>3. CASE d \in 1..2
    <3>1. ~Awaiting(s) /\ Coming(s, d) /\ \A e \in 1..2 : e # d => ~Coming(s, e)
        BY <1>1, <1>3, <2>3 DEF Awaiting, Coming
    <3>2. g = RecvFile(f, d, copy[s])
        BY <1>1, <2>3
    <3>3. /\ g \in FileStates /\ g.db = f.db
          /\ g.dir[d] # 0 /\ Backup(g, d) = copy[s]
          /\ \A e \in 1..2 \ {d} : g.dir[e] = f.dir[e] /\ Backup(g, e) = Backup(f, e)
          /\ Apart(g) /\ (Clean(f) => Clean(g))
        BY <1>2, <2>3, <3>2, RecvFileFacts
    <3>4. g.db = Db(s)
        BY <1>1, <3>1, <3>3 DEF Db
    <3>5. ASSUME NEW e \in 1..2
          PROVE  Backup(g, e) = Copied(s, e) /\ ((f.dir[e] # 0 \/ Coming(s, e)) => g.dir[e] # 0)
      <4>1. CASE e = d
          BY <3>1, <3>3, <4>1 DEF Copied
      <4>2. CASE e # d
          BY <1>1, <3>1, <3>3, <4>2 DEF Copied
      <4> QED
          BY <4>1, <4>2
    <3> QED
        BY <3>3, <3>4, <3>5
  <2> QED
      BY <1>3, <2>1, <2>2, <2>3
<1>6. Db(s)' = Db(s) /\ \A e \in 1..2 : Copied(s, e)' = Copied(s, e)
    BY <1>3, <1>4, <1>5 DEF Db, Copied
<1>7. ASSUME NEW u \in Slaves PROVE Tidy(u)'
  <2>1. CASE u = s
      BY <1>2, <1>3, <1>4, <1>5, <2>1 DEF Tidy
  <2>2. CASE u # s
    <3>1. Tidy(u) /\ Steady(u) /\ SameFiles(u)
        BY <1>3, <1>4, <2>2 DEF RecordsInv
    <3> QED
        BY <1>4, <3>1, TidyKept
  <2> QED
      BY <2>1, <2>2
<1>8. ASSUME NEW k \in Keys PROVE Placed(k)' /\ Answered(k)'
  <2>1. CASE home[k] = s
    <3>1. s # NoSlave
        BY NoSlaveAssumption
    <3>2. Placed(k)'
        BY <1>3, <1>4, <2>1 DEF Placed
    <3>3. Answered(k)'
        BY <1>4, <1>6, <2>1, <3>1 DEF RecordsInv, Answered
    <3> QED
        BY <3>2, <3>3
  <2>2. CASE home[k] # s
    <3>1. home[k] # NoSlave => home[k] \in Slaves \ {s}
        BY <1>2, <2>2 DEF ServiceTypes
    <3>2. \A u \in Slaves \ {s} : /\ Steady(u) /\ SameRecords(u, k)
                                  /\ Awaiting(u)' <=> Awaiting(u)
        BY <1>3, <1>4, FilesRecords DEF Steady
    <3>3. home[k] # NoSlave => /\ Steady(home[k]) /\ SameRecords(home[k], k)
                               /\ Awaiting(home[k])' <=> Awaiting(home[k])
        BY <1>4, <3>1, <3>2 DEF Steady
    <3> QED
        BY <1>4, <3>3, PlacedKept, AnsweredKept DEF RecordsInv
  <2> QED
      BY <2>1, <2>2
<1>9. ASSUME NEW u \in Slaves, NEW k \in Keys PROVE Alone(u, k)'
  <2>1. CASE u = s
    <3>1. SUFFICES ASSUME Unmerged(s)', fate[k] # "stray" PROVE Alone(s, k)'
        BY <1>4, <2>1 DEF Alone
    <3>2. 1 \in 1..2 /\ Alone(s, k) /\ Unmerged(s)
        BY <1>3, <3>1 DEF RecordsInv
    <3>3. home[k] # s => Db(s)[k] = None
        BY <1>3, <3>1, <3>2 DEF Alone
    <3>4. home[k] = s => Copied(s, 1)[k] = None
        BY <1>3, <3>1, <3>2 DEF Alone
    <3> QED
        BY <1>4, <1>6, <2>1, <3>2, <3>3, <3>4 DEF Alone
  <2>2. CASE u # s
    <3>1. Alone(u, k) /\ Steady(u) /\ SameRecords(u, k)
        BY <1>3, <1>4, <2>2, FilesRecords DEF RecordsInv
    <3> QED
        BY <1>4, <3>1, AloneKept
  <2> QED
      BY <2>1, <2>2
<1>10. ASSUME NEW u \in Slaves, NEW e \in 1..2, NEW k \in Keys, Backed(u, e, k)
       PROVE  Backed(u, e, k)'
  <2>1. CASE u = s
    <3>1. SUFFICES ASSUME fate[k] = "kept", <<s, e>> \in safe[k] PROVE Backed(s, e, k)'
        BY <1>4, <2>1 DEF Backed
    <3>2. Copied(s, e)[k] = store[k] /\ (f.dir[e] # 0 \/ Coming(s, e))
        BY <1>1, <1>3, <1>10, <2>1, <3>1 DEF Backed
    <3> QED
        BY <1>4, <1>5, <1>6, <3>2 DEF Backed
  <2>2. CASE u # s
    <3>1. Steady(u) /\ SameRecords(u, k)
        BY <1>3, <1>4, <2>2, FilesRecords
    <3> QED
        BY <1>4, <1>10, <3>1, BackedKept
  <2> QED
      BY <2>1, <2>2
<1>11. ASSUME NEW u \in Slaves, NEW k \in Keys, Unmerged(u)' PROVE Backed(u, 1, k)'
  <2>1. Unmerged(u) /\ 1 \in 1..2
      BY <1>3, <1>11 DEF Steady
  <2> QED
      BY <1>10, <2>1 DEF RecordsInv
<1> QED
    BY <1>4, <1>6, <1>7, <1>8, <1>9, <1>10, <1>11 DEF RecordsInv

-----------------------------------------------------------------------------
\* The slave after the predecessor of the one that leaves is that one.
LEMMA GoneFacts ==
    ASSUME ServiceStep, NEW s \in Slaves, Polling(s), Got(s, "RM_SLAVE"),
           Role(s) = "predecessor"
    PROVE  /\ Node(s, 1).id = job.s /\ job.s \in Slaves \ {s}
           /\ st[job.s] = "stopping"
<1>0. ClusterInv /\ Calm
    BY DEF ServiceStep, ServiceInv, PlacesInv
<1>1. /\ job.op = "del" /\ Head(toSlave[s]).pos = job.pos
      /\ IsSlaveList(mlist, Slaves) /\ Ordered(mlist)
      /\ job.pos \in Positions(mlist) /\ mlist.nodes[job.pos].id = job.s
      /\ sl[s] = mlist /\ pos[s] \in Positions(mlist) /\ mlist.nodes[pos[s]].id = s
      /\ pos[s] # job.pos /\ mlist.num \in Nat /\ mlist.num > 1
    BY <1>0, RmFacts
<1>2. s = Predecessor(job.pos)
    BY <1>0, PredecessorRole
<1>3. PICK p, q, N : p = job.pos /\ q = pos[s] /\ N = mlist.num
    OBVIOUS
<1>4. p \in 0..(N - 1) /\ q \in 0..(N - 1) /\ N \in Nat \ {0}
    BY <1>1, <1>3 DEF Positions
<1>5. q = (p + N - 1) % N
  <2>1. (p + N - 1) % N \in Positions(mlist)
      BY <1>1, <1>3, Distinct
  <2>2. s = mlist.nodes[(p + N - 1) % N].id
      BY <1>2, <1>3 DEF Predecessor
  <2> QED
      BY <1>1, <1>3, <2>1, <2>2, OnePlace
<1>6. (q + 1) % N = p
  <2>1. q = IF p = 0 THEN N - 1 ELSE p - 1
      BY <1>4, <1>5, Neighbours
  <2>2. (q + 1) % N = IF q = N - 1 THEN 0 ELSE q + 1
      BY <1>4, Neighbours
  <2>3. p = IF q = N - 1 THEN 0 ELSE q + 1
      BY <1>4, <2>1
  <2> QED
      BY <2>2, <2>3
<1>7. Node(s, 1).id = job.s
    BY <1>1, <1>3, <1>6 DEF Node
<1>8. job.s \in Slaves /\ Moving(job.s)
    BY <1>0, <1>1, JobMoves
<1>9. st[job.s] = "stopping"
    BY <1>0, <1>1, <1>8, JobState
<1>10. job.s # s
    BY <1>1, <1>9 DEF Polling
<1> QED
    BY <1>7, <1>8, <1>9, <1>10

\* Whoever handles RM_SLAVE has not merged before, and has afterwards.
LEMMA RmRecordFacts ==
    ASSUME ServiceStep, NEW s \in Slaves, HandleRmSlave(s), stops' = stops
    PROVE  /\ st' = st /\ st[s] = "run" /\ todo[s] = <<>> /\ Alive(s) /\ ~New(s)
           /\ ~Awaiting(s) /\ ~Awaiting(s)' /\ ~New(s)'
           /\ \A d \in 1..2 : ~Coming(s, d) /\ ~Coming(s, d)'
           /\ Unmerged(s) /\ ~Unmerged(s)'
           /\ \A u \in Slaves : Steady(u)
<1>0. /\ ClusterInv /\ Calm /\ Errands /\ AllChores /\ OneDeparture /\ MaxStops <= 1
      /\ [ServiceNext]_allVars
    BY DEF ServiceStep, ServiceInv, PlacesInv
<1>1. st' = st /\ st[s] = "run" /\ todo[s] = <<>>
    BY DEF HandleRmSlave, Polling
<1>2. Unmerged(s) /\ ~Unmerged(s)'
    BY <1>0, RmMerges
<1>3. Steady(s)
    BY <1>0, WorkerSteady
<1>4. \A u \in Slaves \ {s} : Steady(u)
  <2>1. SlaveStep(s)
      BY DEF SlaveStep
  <2>2. \A x \in Slaves : ~ServeSlave(s, x)
    <3>1. caller' = caller /\ caller[s] = NoSlave /\ s \in DOMAIN caller
        BY <1>0 DEF HandleRmSlave, Polling, ClusterInv, Shape
    <3>2. ASSUME NEW x \in Slaves, ServeSlave(s, x) PROVE FALSE
      <4>1. caller' = [caller EXCEPT ![s] = x]
          BY <3>2 DEF ServeSlave
      <4> QED
          BY <3>1, <4>1, NoSlaveAssumption
    <3> QED
        BY <3>2
  <2> QED
      BY <1>0, <2>1, <2>2, OthersSteady
<1>5. Alive(s) /\ ~New(s) /\ ~Awaiting(s) /\ \A d \in 1..2 : ~Coming(s, d)
    BY <1>1 DEF Alive, New, Awaiting, Coming
<1>6. ~Awaiting(s)' /\ ~New(s)' /\ \A d \in 1..2 : ~Coming(s, d)'
  <2>1. Alive(s)'
      BY <1>1 DEF Alive
  <2> QED
      BY <1>3, <1>5, <2>1 DEF Steady
<1> QED
    BY <1>1, <1>2, <1>3, <1>4, <1>5, <1>6

\* RM_SLAVE in the predecessor.
LEMMA SuccessorRecords ==
    ASSUME ServiceStep, NEW s \in Slaves, MergeBackup1(s), ~PlainStep, RecordsInv
    PROVE  /\ RecordsInv'
           /\ \A u \in Slaves, k \in Keys :
                 (\A e \in 1..2 : Backed(u, e, k)) => \A e \in 1..2 : Backed(u, e, k)'
           /\ \A u \in Slaves, k \in Keys : MarksStay(u, k)
<1>1. PICK gone : gone = Node(s, 1).id
    OBVIOUS
<1>2. /\ HandleRmSlave(s) /\ \E g \in SuccessorLeft(files[s]) : files' = [files EXCEPT ![s] = g]
      /\ home' = [k \in Keys |-> IF home[k] = gone THEN s ELSE home[k]]
      /\ fate' = [k \in Keys |-> IF home[k] = gone /\ <<s, 1>> \notin safe[k] /\ fate[k] = "kept"
                                 THEN "lost" ELSE fate[k]]
      /\ safe' = [k \in Keys |-> Renamed(safe[k] \ {<<s, 1>>}, s, 2, 1)]
      /\ UNCHANGED <<copy, store, stops>>
  <2>1. UNCHANGED <<copy, store, stops>>
      BY DEF MergeBackup1, bounds
  <2>2. PICK fault \in MergeFaults(files[s], {1}) :
          IF fault THEN Die("SIGSEGV") /\ UNCHANGED <<files, home, fate, safe>>
          ELSE /\ HandleRmSlave(s)
               /\ \E f \in SuccessorLeft(files[s]) : files' = [files EXCEPT ![s] = f]
               /\ home' = [k \in Keys |-> IF home[k] = gone THEN s ELSE home[k]]
               /\ fate' = [k \in Keys |->
                              IF home[k] = gone /\ <<s, 1>> \notin safe[k] /\ fate[k] = "kept"
                              THEN "lost" ELSE fate[k]]
               /\ safe' = [k \in Keys |-> Renamed(safe[k] \ {<<s, 1>>}, s, 2, 1)]
      BY <1>1 DEF MergeBackup1
  <2>3. ~fault
      BY <2>1, <2>2 DEF PlainStep, Die
  <2> QED
      BY <2>1, <2>2, <2>3
<1>3. gone \in Slaves \ {s} /\ st[gone] = "stopping" /\ gone # NoSlave /\ s # NoSlave
    BY <1>1, GoneFacts, NoSlaveAssumption DEF MergeBackup1
<1>4. /\ st' = st /\ st[s] = "run" /\ todo[s] = <<>> /\ Alive(s) /\ ~New(s)
      /\ ~Awaiting(s) /\ ~Awaiting(s)' /\ ~New(s)'
      /\ \A d \in 1..2 : ~Coming(s, d) /\ ~Coming(s, d)'
      /\ Unmerged(s) /\ ~Unmerged(s)'
      /\ \A u \in Slaves : Steady(u)
    BY <1>2, RmRecordFacts
<1>5. PICK f : f = files[s]
    OBVIOUS
<1>6. PICK g \in SuccessorLeft(f) : files' = [files EXCEPT ![s] = g]
    BY <1>2, <1>5
<1>7. /\ ServiceTypes /\ Fates /\ DOMAIN files = Slaves /\ f \in FileStates
      /\ Apart(f) /\ Clean(f)
    BY <1>4, <1>5 DEF ServiceStep, ServiceInv, ServiceTypes, RecordsInv, Tidy
<1>8. /\ g.db = PutAll(f.db, Backup(f, 1))
      /\ f.dir[2] # 0 => Backup(g, 1) = Backup(f, 2) /\ g.dir[1] # 0
      /\ Apart(g)
    BY <1>7, SuccessorLeftFacts
<1>9. files'[s] = g /\ \A u \in Slaves \ {s} : SameFiles(u)
    BY <1>2, <1>6, <1>7 DEF SameFiles
<1>10. \A k \in Keys :
          /\ home'[k] = (IF home[k] = gone THEN s ELSE home[k]) /\ store'[k] = store[k]
          /\ fate'[k] = "kept" => fate[k] = "kept" /\ (home[k] = gone => <<s, 1>> \in safe[k])
          /\ fate'[k] # "stray" => fate[k] # "stray"
    BY <1>2
<1>11. \A k \in Keys :
          /\ \A u \in Slaves \ {s}, e \in 1..2 : <<u, e>> \in safe'[k] => <<u, e>> \in safe[k]
          /\ <<s, 1>> \in safe'[k] => <<s, 2>> \in safe[k]
          /\ <<s, 2>> \notin safe'[k]
  <2>1. ASSUME NEW k \in Keys
        PROVE  /\ \A u \in Slaves \ {s}, e \in 1..2 : <<u, e>> \in safe'[k] => <<u, e>> \in safe[k]
               /\ <<s, 1>> \in safe'[k] => <<s, 2>> \in safe[k]
               /\ <<s, 2>> \notin safe'[k]
    <3>1. PICK S : S = safe[k] \ {<<s, 1>>}
        OBVIOUS
    <3>2. 1 \in 1..2 /\ 2 \in 1..2 /\ 2 # 1
        OBVIOUS
    <3>3. /\ \A u, x : u # s => (<<u, x>> \in Renamed(S, s, 2, 1) <=> <<u, x>> \in S)
          /\ <<s, 2>> \notin Renamed(S, s, 2, 1)
          /\ <<s, 1>> \in Renamed(S, s, 2, 1) <=> <<s, 2>> \in S \/ <<s, 1>> \in S
        BY <3>2, RenamedFacts
    <3>4. safe'[k] = Renamed(S, s, 2, 1)
        BY <1>2, <3>1
    <3> QED
        BY <3>1, <3>3, <3>4
  <2> QED
      BY <2>1
<1>12. Db(s) = f.db /\ Db(s)' = g.db /\ Copied(s, 1) = Backup(f, 1)
    BY <1>4, <1>5, <1>9 DEF Db, Copied
<1>13. \A k \in Keys : g.db[k] = IF Copied(s, 1)[k] # None THEN Copied(s, 1)[k] ELSE Db(s)[k]
    BY <1>8, <1>12 DEF PutAll
<1>14. ASSUME NEW u \in Slaves PROVE Tidy(u)'
  <2>1. CASE u = s
      BY <1>4, <1>8, <1>9, <2>1 DEF Tidy
  <2>2. CASE u # s
    <3>1. Tidy(u) /\ Steady(u) /\ SameFiles(u)
        BY <1>4, <1>9, <2>2 DEF RecordsInv
    <3> QED
        BY <1>11, <2>2, <3>1, TidyKept
  <2> QED
      BY <2>1, <2>2
<1>15. ASSUME NEW k \in Keys PROVE Placed(k)' /\ Answered(k)'
  <2>1. Alone(s, k) /\ Answered(k) /\ Placed(k) /\ Backed(s, 1, k)
      BY <1>4 DEF RecordsInv
  <2>2. CASE home[k] = gone
    <3>1. home'[k] = s
        BY <1>10, <2>2
    <3>2. Placed(k)'
        BY <1>3, <1>4, <3>1 DEF Placed
    <3>3. fate'[k] = "kept" => g.db[k] = store[k]
      <4>1. SUFFICES ASSUME fate[k] = "kept", <<s, 1>> \in safe[k] PROVE g.db[k] = store[k]
          BY <1>10, <2>2
      <4>2. Copied(s, 1)[k] = store[k] /\ Db(s)[k] = None
          BY <1>3, <1>4, <2>1, <2>2, <4>1 DEF Backed, Alone
      <4> QED
          BY <1>13, <4>2
    <3> QED
        BY <1>3, <1>10, <1>12, <3>1, <3>2, <3>3 DEF Answered
  <2>3. CASE home[k] = s
    <3>1. home'[k] = s
        BY <1>3, <1>10, <2>3
    <3>2. Placed(k)'
        BY <1>3, <1>4, <3>1 DEF Placed
    <3>3. fate'[k] = "kept" => g.db[k] = store[k]
      <4>1. SUFFICES ASSUME fate[k] = "kept" PROVE g.db[k] = store[k]
          BY <1>10
      <4>2. Copied(s, 1)[k] = None /\ Db(s)[k] = store[k]
          BY <1>3, <1>4, <2>1, <2>3, <4>1 DEF Alone, Answered
      <4> QED
          BY <1>13, <4>2
    <3> QED
        BY <1>3, <1>10, <1>12, <3>1, <3>2, <3>3 DEF Answered
  <2>4. CASE home[k] \notin {gone, s}
    <3>1. home'[k] = home[k] /\ (home[k] # NoSlave => home[k] \in Slaves \ {s})
        BY <1>7, <1>10, <2>4 DEF ServiceTypes
    <3>2. \A u \in Slaves \ {s} : /\ Steady(u) /\ SameRecords(u, k)
                                  /\ Awaiting(u)' <=> Awaiting(u)
        BY <1>4, <1>9, FilesRecords DEF Steady
    <3>3. home[k] # NoSlave => /\ Steady(home[k]) /\ SameRecords(home[k], k)
                               /\ Awaiting(home[k])' <=> Awaiting(home[k])
        BY <3>1, <3>2 DEF Steady
    <3> QED
        BY <1>10, <2>1, <3>1, <3>3, PlacedKept, AnsweredKept
  <2> QED
      BY <2>2, <2>3, <2>4
<1>16. ASSUME NEW u \in Slaves, NEW k \in Keys PROVE Alone(u, k)'
  <2>1. CASE u = s
      BY <1>4, <2>1 DEF Alone
  <2>2. CASE u = gone
      BY <1>3, <1>4, <2>2 DEF Alone, Alive
  <2>3. CASE u \notin {s, gone}
    <3>1. Alone(u, k) /\ Steady(u) /\ SameRecords(u, k)
        BY <1>4, <1>9, <2>3, FilesRecords DEF RecordsInv
    <3>2. home'[k] = u <=> home[k] = u
        BY <1>10, <2>3
    <3> QED
        BY <1>10, <3>1, <3>2, AloneKept
  <2> QED
      BY <2>1, <2>2, <2>3
<1>17. ASSUME NEW u \in Slaves, u # s, NEW e \in 1..2, NEW k \in Keys, Backed(u, e, k)
       PROVE  Backed(u, e, k)'
  <2>1. Steady(u) /\ SameRecords(u, k) /\ (<<u, e>> \in safe'[k] => <<u, e>> \in safe[k])
      BY <1>4, <1>9, <1>11, <1>17, FilesRecords
  <2> QED
      BY <1>10, <1>17, <2>1, BackedKept
<1>18. ASSUME NEW k \in Keys, \A e \in 1..2 : Backed(s, e, k), NEW e \in 1..2
       PROVE  Backed(s, e, k)'
  <2>1. CASE e = 1
    <3>1. SUFFICES ASSUME fate[k] = "kept", <<s, 2>> \in safe[k]
                   PROVE  Copied(s, 1)'[k] = store[k] /\ g.dir[1] # 0
        BY <1>9, <1>10, <1>11, <2>1 DEF Backed
    <3>2. 1 \in 1..2 /\ 2 \in 1..2
        OBVIOUS
    <3>3. Copied(s, 2)[k] = store[k] /\ f.dir[2] # 0
        BY <1>4, <1>5, <1>18, <3>1, <3>2 DEF Backed
    <3>4. Copied(s, 2) = Backup(f, 2) /\ Copied(s, 1)' = Backup(g, 1)
        BY <1>4, <1>5, <1>9, <3>2 DEF Copied
    <3> QED
        BY <1>8, <3>3, <3>4
  <2>2. CASE e = 2
      BY <1>11, <2>2 DEF Backed
  <2> QED
      BY <2>1, <2>2
<1>19. ASSUME NEW u \in Slaves, NEW k \in Keys, Unmerged(u)' PROVE Backed(u, 1, k)'
  <2>1. Unmerged(u) /\ 1 \in 1..2 /\ u # s
      BY <1>4, <1>19 DEF Steady
  <2> QED
      BY <1>17, <2>1 DEF RecordsInv
<1>20. ASSUME NEW u \in Slaves, NEW k \in Keys PROVE MarksStay(u, k)
  <2>1. CASE u = s
      BY <1>4, <2>1 DEF MarksStay
  <2>2. CASE u # s
    <3>1. Steady(u) /\ SameRecords(u, k) /\ \A e \in 1..2 : <<u, e>> \in safe'[k] => <<u, e>> \in safe[k]
        BY <1>4, <1>9, <1>11, <2>2, FilesRecords
    <3> QED
        BY <1>10, <3>1, MarksOf
  <2> QED
      BY <2>1, <2>2
<1> QED
    BY <1>14, <1>15, <1>16, <1>17, <1>18, <1>19, <1>20 DEF RecordsInv

-----------------------------------------------------------------------------

\* RM_SLAVE in any other slave: the second predecessor merges its backups.
LEMMA SecondRecords ==
    ASSUME ServiceStep, NEW s \in Slaves, MergeBackup2(s), ~PlainStep, RecordsInv
    PROVE  /\ RecordsInv'
           /\ \A u \in Slaves, k \in Keys :
                 /\ \A e \in 1..2 : Backed(u, e, k)
                 /\ u = s /\ Role(s) = "second" /\ fate[k] # "stray" =>
                       ~(Marked(s, 1, k) /\ Marked(s, 2, k))
                 => \A e \in 1..2 : Backed(u, e, k)'
           /\ \A u \in Slaves, k \in Keys : MarksStay(u, k)
           /\ Alive(s) /\ Unmerged(s) /\ stops' = stops
<1>1. PICK second : second = (Role(s) = "second")
    OBVIOUS
<1>2. /\ HandleRmSlave(s)
      /\ \E g \in (IF second THEN SecondSuccessorLeft(files[s]) ELSE {files[s]}) :
            files' = [files EXCEPT ![s] = g]
      /\ safe' = IF second THEN [k \in Keys |-> Renamed(safe[k], s, 2, 1)] ELSE safe
      /\ UNCHANGED <<copy, store, home, fate, stops>>
  <2>1. UNCHANGED <<copy, store, home, fate, stops>>
      BY DEF MergeBackup2, bounds
  <2>2. PICK fault \in MergeFaults(files[s], IF second THEN {1, 2} ELSE {}) :
          IF fault THEN Die("SIGSEGV") /\ UNCHANGED <<files, safe>>
          ELSE /\ HandleRmSlave(s)
               /\ \E f \in (IF second THEN SecondSuccessorLeft(files[s]) ELSE {files[s]}) :
                     files' = [files EXCEPT ![s] = f]
               /\ safe' = IF second THEN [k \in Keys |-> Renamed(safe[k], s, 2, 1)] ELSE safe
      BY <1>1 DEF MergeBackup2
  <2>3. ~fault
      BY <2>1, <2>2 DEF PlainStep, Die
  <2> QED
      BY <2>1, <2>2, <2>3
<1>3. /\ st' = st /\ st[s] = "run" /\ todo[s] = <<>> /\ Alive(s) /\ ~New(s)
      /\ ~Awaiting(s) /\ ~Awaiting(s)' /\ ~New(s)'
      /\ \A d \in 1..2 : ~Coming(s, d) /\ ~Coming(s, d)'
      /\ Unmerged(s) /\ ~Unmerged(s)'
      /\ \A u \in Slaves : Steady(u)
    BY <1>2, RmRecordFacts
<1>4. PICK f : f = files[s]
    OBVIOUS
<1>5. PICK g \in (IF second THEN SecondSuccessorLeft(f) ELSE {f}) :
         files' = [files EXCEPT ![s] = g]
    BY <1>2, <1>4
<1>6. /\ ServiceTypes /\ DOMAIN files = Slaves /\ f \in FileStates
      /\ Apart(f) /\ Clean(f)
    BY <1>3, <1>4 DEF ServiceStep, ServiceInv, ServiceTypes, RecordsInv, Tidy
<1>7. /\ g.db = f.db /\ Apart(g)
      /\ second => Backup(g, 1) = PutAll(Backup(f, 1), Backup(f, 2)) /\ g.dir[1] # 0
      /\ ~second => g = f
    BY <1>5, <1>6, SecondSuccessorLeftFacts
<1>8. files'[s] = g /\ \A u \in Slaves \ {s} : SameFiles(u)
    BY <1>2, <1>5, <1>6 DEF SameFiles
<1>9. \A k \in Keys :
          /\ \A u \in Slaves \ {s}, e \in 1..2 : <<u, e>> \in safe'[k] => <<u, e>> \in safe[k]
          /\ second => /\ <<s, 1>> \in safe'[k] => <<s, 1>> \in safe[k] \/ <<s, 2>> \in safe[k]
                       /\ <<s, 2>> \notin safe'[k]
          /\ ~second => safe'[k] = safe[k]
  <2>1. ASSUME NEW k \in Keys, second
        PROVE  /\ \A u \in Slaves \ {s}, e \in 1..2 : <<u, e>> \in safe'[k] => <<u, e>> \in safe[k]
               /\ <<s, 1>> \in safe'[k] => <<s, 1>> \in safe[k] \/ <<s, 2>> \in safe[k]
               /\ <<s, 2>> \notin safe'[k]
    <3>1. PICK S : S = safe[k]
        OBVIOUS
    <3>2. 1 \in 1..2 /\ 2 \in 1..2 /\ 2 # 1
        OBVIOUS
    <3>3. /\ \A u, x : u # s => (<<u, x>> \in Renamed(S, s, 2, 1) <=> <<u, x>> \in S)
          /\ <<s, 2>> \notin Renamed(S, s, 2, 1)
          /\ <<s, 1>> \in Renamed(S, s, 2, 1) <=> <<s, 2>> \in S \/ <<s, 1>> \in S
        BY <3>2, RenamedFacts
    <3>4. safe'[k] = Renamed(S, s, 2, 1)
        BY <1>2, <2>1, <3>1
    <3> QED
        BY <3>1, <3>3, <3>4
  <2> QED
      BY <1>2, <2>1
<1>10. Db(s) = f.db /\ Db(s)' = f.db
    BY <1>3, <1>4, <1>7, <1>8 DEF Db
<1>11. ASSUME NEW u \in Slaves PROVE Tidy(u)'
  <2>1. CASE u = s
      BY <1>3, <1>7, <1>8, <2>1 DEF Tidy
  <2>2. CASE u # s
    <3>1. Tidy(u) /\ Steady(u) /\ SameFiles(u)
        BY <1>3, <1>8, <2>2 DEF RecordsInv
    <3> QED
        BY <1>9, <2>2, <3>1, TidyKept
  <2> QED
      BY <2>1, <2>2
<1>12. ASSUME NEW k \in Keys PROVE Placed(k)' /\ Answered(k)'
  <2>1. home[k] # NoSlave => home[k] \in Slaves
      BY <1>6 DEF ServiceTypes
  <2>2. home[k] # NoSlave => Steady(home[k]) /\ (Awaiting(home[k])' <=> Awaiting(home[k]))
      BY <1>2, <1>3, <2>1 DEF Steady
  <2>3. Placed(k)'
      BY <1>2, <2>2, PlacedKept DEF RecordsInv
  <2>4. CASE home[k] = s
    <3>1. s # NoSlave
        BY NoSlaveAssumption
    <3> QED
        BY <1>2, <1>10, <2>3, <2>4, <3>1 DEF RecordsInv, Answered
  <2>5. CASE home[k] # s
    <3>1. \A u \in Slaves \ {s} : SameRecords(u, k)
        BY <1>8, FilesRecords
    <3>2. home[k] # NoSlave => SameRecords(home[k], k)
        BY <2>1, <2>5, <3>1
    <3> QED
        BY <1>2, <2>2, <2>3, <3>2, AnsweredKept DEF RecordsInv
  <2> QED
      BY <2>4, <2>5
<1>13. ASSUME NEW u \in Slaves, NEW k \in Keys PROVE Alone(u, k)'
  <2>1. CASE u = s
      BY <1>3, <2>1 DEF Alone
  <2>2. CASE u # s
    <3>1. Alone(u, k) /\ Steady(u) /\ SameRecords(u, k)
        BY <1>3, <1>8, <2>2, FilesRecords DEF RecordsInv
    <3> QED
        BY <1>2, <3>1, AloneKept
  <2> QED
      BY <2>1, <2>2
<1>14. ASSUME NEW u \in Slaves, u # s \/ ~second, NEW e \in 1..2, NEW k \in Keys, Backed(u, e, k)
       PROVE  Backed(u, e, k)'
  <2>1. SameRecords(u, k)
    <3>1. SameFiles(u)
        BY <1>2, <1>4, <1>7, <1>8, <1>14 DEF SameFiles
    <3> QED
        BY <3>1, FilesRecords
  <2>2. Steady(u) /\ (<<u, e>> \in safe'[k] => <<u, e>> \in safe[k])
      BY <1>3, <1>9, <1>14
  <2> QED
      BY <1>2, <1>14, <2>1, <2>2, BackedKept
<1>15. ASSUME second, NEW k \in Keys, \A e \in 1..2 : Backed(s, e, k),
              fate[k] # "stray" => ~(Marked(s, 1, k) /\ Marked(s, 2, k)), NEW e \in 1..2
       PROVE  Backed(s, e, k)'
  <2>1. CASE e = 1
    <3>1. SUFFICES ASSUME fate[k] = "kept", <<s, 1>> \in safe[k] \/ <<s, 2>> \in safe[k]
                   PROVE  Copied(s, 1)'[k] = store[k]
        BY <1>2, <1>7, <1>8, <1>9, <1>15, <2>1 DEF Backed
    <3>2. 1 \in 1..2 /\ 2 \in 1..2
        OBVIOUS
    <3>3. /\ Copied(s, 1) = Backup(f, 1) /\ Copied(s, 2) = Backup(f, 2)
          /\ Copied(s, 1)' = Backup(g, 1)
        BY <1>3, <1>4, <1>8, <3>2 DEF Copied
    <3>4. Copied(s, 1)'[k] = IF Copied(s, 2)[k] # None THEN Copied(s, 2)[k] ELSE Copied(s, 1)[k]
        BY <1>7, <1>15, <3>3 DEF PutAll
    <3>5. CASE <<s, 1>> \in safe[k]
      <4>1. Copied(s, 1)[k] = store[k]
          BY <1>3, <1>15, <3>1, <3>2, <3>5 DEF Backed
      <4>2. Copied(s, 2)[k] = None
          BY <1>15, <3>1, <3>5 DEF Marked
      <4> QED
          BY <3>4, <4>1, <4>2
    <3>6. CASE <<s, 2>> \in safe[k]
      <4>1. Copied(s, 2)[k] = store[k]
          BY <1>3, <1>15, <3>1, <3>2, <3>6 DEF Backed
      <4>2. Copied(s, 1)[k] = None
          BY <1>15, <3>1, <3>6 DEF Marked
      <4> QED
          BY <3>4, <4>1, <4>2
    <3> QED
        BY <3>1, <3>5, <3>6
  <2>2. CASE e = 2
      BY <1>9, <1>15, <2>2 DEF Backed
  <2> QED
      BY <2>1, <2>2
<1>16. ASSUME NEW u \in Slaves, NEW k \in Keys, Unmerged(u)' PROVE Backed(u, 1, k)'
  <2>1. Unmerged(u) /\ 1 \in 1..2 /\ u # s
      BY <1>3, <1>16 DEF Steady
  <2> QED
      BY <1>14, <2>1 DEF RecordsInv
<1>17. ASSUME NEW u \in Slaves, NEW k \in Keys, \A e \in 1..2 : Backed(u, e, k),
              u = s /\ Role(s) = "second" /\ fate[k] # "stray" =>
                 ~(Marked(s, 1, k) /\ Marked(s, 2, k))
       PROVE  \A e \in 1..2 : Backed(u, e, k)'
  <2>1. CASE u = s /\ second
      BY <1>1, <1>15, <1>17, <2>1
  <2>2. CASE u # s \/ ~second
      BY <1>14, <1>17, <2>2
  <2> QED
      BY <2>1, <2>2
<1>18. ASSUME NEW u \in Slaves, NEW k \in Keys PROVE MarksStay(u, k)
  <2>1. CASE u = s
      BY <1>3, <2>1 DEF MarksStay
  <2>2. CASE u # s
    <3>1. Steady(u) /\ SameRecords(u, k) /\ \A e \in 1..2 : <<u, e>> \in safe'[k] => <<u, e>> \in safe[k]
        BY <1>3, <1>8, <1>9, <2>2, FilesRecords
    <3> QED
        BY <1>2, <3>1, MarksOf
  <2> QED
      BY <2>1, <2>2
<1> QED
    BY <1>2, <1>3, <1>11, <1>12, <1>13, <1>16, <1>17, <1>18 DEF RecordsInv

-----------------------------------------------------------------------------
\* The process of a slave ends.
LEMMA ExitRecords ==
    ASSUME ServiceStep, NEW s \in Slaves, Exit(s), RecordsInv
    PROVE  /\ RecordsInv'
           /\ \A u \in Slaves, e \in 1..2, k \in Keys : Backed(u, e, k) => Backed(u, e, k)'
           /\ \A u \in Slaves, k \in Keys : MarksStay(u, k)
<1>0. /\ ClusterInv /\ Calm /\ Errands /\ AllChores /\ OneDeparture /\ MaxStops <= 1
      /\ [ServiceNext]_allVars /\ ServiceTypes /\ Fates
    BY DEF ServiceStep, ServiceInv, PlacesInv
<1>1. /\ ExitSlave(s) /\ st[s] = "stopping"
      /\ \A k \in Keys : /\ home'[k] = (IF home[k] = s THEN NoSlave ELSE home[k])
                         /\ fate'[k] = IF home[k] = s /\ store[k] # None /\ fate[k] = "kept"
                                       THEN "lost" ELSE fate[k]
      /\ UNCHANGED <<files, copy, store, safe>>
    BY DEF Exit, ExitSlave
<1>2. st'[s] \in {"stopping", "exited"}
    BY <1>0, <1>1 DEF ExitSlave, Die, slaveVars, ClusterInv, Shape
<1>3. ~Alive(s) /\ ~Alive(s)' /\ ~New(s)'
    BY <1>1, <1>2 DEF Alive, New, Awaiting
<1>4. \A u \in Slaves \ {s} : Steady(u)
  <2>1. SlaveStep(s)
      BY <1>1 DEF SlaveStep
  <2>2. \A x \in Slaves : ~ServeSlave(s, x)
      BY <1>1 DEF ServeSlave, Polling
  <2> QED
      BY <1>0, <2>1, <2>2, OthersSteady
<1>5. \A u \in Slaves : SameFiles(u) /\ \A k \in Keys : SameRecords(u, k)
    BY <1>1, FilesRecords DEF SameFiles
<1>6. ASSUME NEW u \in Slaves PROVE Tidy(u)'
  <2>1. CASE u = s
      BY <1>1, <1>3, <2>1 DEF RecordsInv, Tidy
  <2>2. CASE u # s
    <3>1. Tidy(u) /\ Steady(u) /\ SameFiles(u)
        BY <1>4, <1>5, <2>2 DEF RecordsInv
    <3>2. \A k \in Keys, d \in 1..2 : <<u, d>> \in safe'[k] => <<u, d>> \in safe[k]
        BY <1>1
    <3> QED
        BY <3>1, <3>2, TidyKept
  <2> QED
      BY <2>1, <2>2
<1>7. ASSUME NEW k \in Keys PROVE Placed(k)' /\ Answered(k)'
  <2>1. CASE home[k] = s
    <3>1. home'[k] = NoSlave /\ (fate'[k] = "kept" => store[k] = None)
        BY <1>1, <2>1
    <3> QED
        BY <1>1, <3>1 DEF Placed, Answered
  <2>2. CASE home[k] # s
    <3>1. /\ home'[k] = home[k] /\ (home[k] # NoSlave => home[k] \in Slaves \ {s})
          /\ store'[k] = store[k] /\ fate'[k] = fate[k]
        BY <1>0, <1>1, <2>2 DEF ServiceTypes
    <3>2. \A u \in Slaves \ {s} : /\ Steady(u) /\ SameRecords(u, k)
                                  /\ Awaiting(u)' <=> Awaiting(u)
        BY <1>4, <1>5 DEF Steady
    <3>3. home[k] # NoSlave => /\ Steady(home[k]) /\ SameRecords(home[k], k)
                               /\ Awaiting(home[k])' <=> Awaiting(home[k])
        BY <3>1, <3>2 DEF Steady
    <3> QED
        BY <3>1, <3>3, PlacedKept, AnsweredKept DEF RecordsInv
  <2> QED
      BY <2>1, <2>2
<1>8. ASSUME NEW u \in Slaves, NEW k \in Keys PROVE Alone(u, k)'
  <2>1. CASE u = s
      BY <1>3, <2>1 DEF Alone
  <2>2. CASE u # s
    <3>1. home'[k] = u <=> home[k] = u
        BY <1>1, <2>2, NoSlaveAssumption
    <3>2. fate'[k] # "stray" => fate[k] # "stray"
        BY <1>1
    <3> QED
        BY <1>4, <1>5, <2>2, <3>1, <3>2, AloneKept DEF RecordsInv
  <2> QED
      BY <2>1, <2>2
<1>9. ASSUME NEW u \in Slaves, NEW e \in 1..2, NEW k \in Keys, Backed(u, e, k)
      PROVE  Backed(u, e, k)'
  <2>1. CASE u = s
      BY <1>3, <2>1 DEF Backed
  <2>2. CASE u # s
    <3>1. fate'[k] = "kept" => fate[k] = "kept"
        BY <1>1
    <3> QED
        BY <1>1, <1>4, <1>5, <1>9, <2>2, <3>1, BackedKept
  <2> QED
      BY <2>1, <2>2
<1>10. ASSUME NEW u \in Slaves, NEW k \in Keys, Unmerged(u)' PROVE Backed(u, 1, k)'
  <2>1. CASE u = s
      BY <1>3, <2>1 DEF Backed
  <2>2. CASE u # s
    <3>1. Unmerged(u) /\ 1 \in 1..2
        BY <1>4, <1>10, <2>2 DEF Steady
    <3> QED
        BY <1>9, <3>1 DEF RecordsInv
  <2> QED
      BY <2>1, <2>2
<1>11. ASSUME NEW u \in Slaves, NEW k \in Keys PROVE MarksStay(u, k)
  <2>1. CASE u = s
      BY <1>3, <2>1 DEF MarksStay
  <2>2. CASE u # s
    <3>1. fate'[k] # "stray" => fate[k] # "stray"
        BY <1>1
    <3> QED
        BY <1>1, <1>4, <1>5, <2>2, <3>1, MarksOf
  <2> QED
      BY <2>1, <2>2
<1> QED
    BY <1>6, <1>7, <1>8, <1>9, <1>10, <1>11 DEF RecordsInv

-----------------------------------------------------------------------------
(* A worker.                                                               *)

LEMMA ExecuteSteady ==
    ASSUME ServiceStep, Execute
    PROVE  /\ \A u \in Slaves : Steady(u) /\ (New(u)' <=> New(u)) /\ (Served(u)' <=> Served(u))
                                /\ (Awaiting(u)' <=> Awaiting(u)) /\ (Alive(u)' <=> Alive(u))
           /\ \A u \in Slaves, d \in 1..2 : Coming(u, d)' <=> Coming(u, d)
<1>1. /\ ClusterInv /\ Calm /\ OneDeparture /\ MaxStops <= 1 /\ [ServiceNext]_allVars
    BY DEF ServiceStep, ServiceInv, PlacesInv
<1>2. st' = st /\ todo' = todo /\ caller' = caller
    BY DEF Execute, vars, slaveVars
<1>3. \A u \in Slaves : Unmerged(u)' => Unmerged(u)
    BY <1>1, UnmergedStays DEF OneDeparture
<1> QED
    BY <1>2, <1>3, SameSteady DEF Served, New, Awaiting, Alive, Coming

\* What is written where.
LEMMA WriteFacts ==
    ASSUME ServiceStep, Execute, ~(UNCHANGED <<files, copy, store, safe, fate>>),
           NEW s, s = At, NEW k, k = cl.key, NEW v, v = cl.val
    PROVE  /\ s \in Slaves /\ k \in Keys /\ st[s] \in {"run", "stopping"} /\ home' = home
           /\ \A u \in Slaves \ {s} : files'[u] = files[u]
           /\ files'[s].db[k] = v
           /\ \A j \in Keys \ {k} : files'[s].db[j] = files[s].db[j]
           /\ files'[s].dir = files[s].dir /\ files'[s].held = files[s].held
           /\ files'[s].data = files[s].data /\ files'[s].torn = files[s].torn
           /\ \A u \in Slaves, j \in Keys \ {k} : copy'[u][j] = copy[u][j]
           /\ \A u \in Slaves :
                 copy'[u] = copy[u] \/ (caller[s] = u /\ Served(u) /\ u # s /\ ~Awaiting(u))
           /\ store'[k] = v /\ safe'[k] = {}
           /\ fate'[k] = IF home[k] # s \/ fate[k] = "stray" THEN "stray" ELSE "kept"
           /\ \A j \in Keys \ {k} :
                 store'[j] = store[j] /\ safe'[j] = safe[j] /\ fate'[j] = fate[j]
<1>0. ClusterInv /\ ServiceTypes /\ Fates
    BY DEF ServiceStep, ServiceInv, PlacesInv
<1>1. ClientTypes(cl) /\ cl.pc = "queued" /\ k \in Keys /\ v \in Values \cup {None}
    BY <1>0 DEF Execute, ClientAt, ServiceTypes, ClientTypes
<1>2. s \in Slaves
  <2>1. PICK l : l = cl.list
      OBVIOUS
  <2>2. IsSlaveList(l, Slaves) /\ Ordered(l) /\ l.num > 0
      BY <1>1, <2>1 DEF ClientTypes
  <2>3. Owner(l, k) \in Members(l)
      BY <1>1, <2>2, OwnerListed
  <2>4. \A i \in Positions(l) : l.nodes[i].id \in Slaves
      BY <2>2, NodeType
  <2> QED
      BY <2>1, <2>3, <2>4 DEF At, Members
<1>3. PICK to : to = caller[s]
    OBVIOUS
<1>4. /\ st[s] \in {"run", "stopping"} /\ home' = home
      /\ files' = [files EXCEPT ![s].db[k] = v]
      /\ \/ copy' = copy
         \/ to # NoSlave /\ Head(todo[to]) \in {1, 2} /\ copy' = [copy EXCEPT ![to][k] = v]
      /\ store' = [store EXCEPT ![k] = v]
      /\ safe' = [safe EXCEPT ![k] = {}]
      /\ fate' = [fate EXCEPT ![k] = IF home[k] # s \/ @ = "stray" THEN "stray" ELSE "kept"]
    BY <1>3 DEF Execute
<1>5. PICK f, g : f = files[s] /\ g = [f EXCEPT !.db[k] = v]
    OBVIOUS
<1>6. f \in FileStates /\ DOMAIN files = Slaves
    BY <1>0, <1>2, <1>5 DEF ServiceTypes
<1>7. /\ g.db[k] = v /\ \A j \in Keys \ {k} : g.db[j] = f.db[j]
      /\ g.dir = f.dir /\ g.held = f.held /\ g.data = f.data /\ g.torn = f.torn
    BY <1>1, <1>5, <1>6 DEF FileStates, Records
<1>8. files'[s] = g /\ \A u \in Slaves \ {s} : files'[u] = files[u]
    BY <1>2, <1>4, <1>5, <1>6
<1>9. /\ \A u \in Slaves, j \in Keys \ {k} : copy'[u][j] = copy[u][j]
      /\ \A u \in Slaves : copy'[u] = copy[u] \/ (caller[s] = u /\ Served(u) /\ u # s /\ ~Awaiting(u))
  <2>1. CASE copy' = copy
      BY <2>1
  <2>2. CASE /\ to # NoSlave /\ Head(todo[to]) \in {1, 2}
             /\ copy' = [copy EXCEPT ![to][k] = v]
    <3>1. to \in Slaves /\ callee[to] = s /\ to # s
        BY <1>0, <1>2, <1>3, <2>2, SlaveFacts, NoSlaveAssumption DEF Calls
    <3>2. Served(to) /\ ~Awaiting(to)
        BY <1>2, <1>3, <2>2 DEF Served, Awaiting
    <3>3. copy \in [Slaves -> Records]
        BY <1>0 DEF ServiceTypes
    <3>4. \A u \in Slaves \ {to} : copy'[u] = copy[u]
        BY <2>2, <3>3
    <3>5. \A j \in Keys \ {k} : copy'[to][j] = copy[to][j]
        BY <2>2, <3>1, <3>3 DEF Records
    <3> QED
        BY <1>3, <3>1, <3>2, <3>4, <3>5
  <2> QED
      BY <1>4, <2>1, <2>2
<1>10. /\ store'[k] = v /\ safe'[k] = {}
       /\ fate'[k] = IF home[k] # s \/ fate[k] = "stray" THEN "stray" ELSE "kept"
       /\ \A j \in Keys \ {k} : store'[j] = store[j] /\ safe'[j] = safe[j] /\ fate'[j] = fate[j]
    BY <1>0, <1>1, <1>4 DEF ServiceTypes, Fates, Records
<1>11. /\ files'[s].db[k] = v
       /\ \A j \in Keys \ {k} : files'[s].db[j] = files[s].db[j]
       /\ files'[s].dir = files[s].dir /\ files'[s].held = files[s].held
       /\ files'[s].data = files[s].data /\ files'[s].torn = files[s].torn
    BY <1>5, <1>7, <1>8
<1> QED
    BY <1>1, <1>2, <1>4, <1>8, <1>9, <1>10, <1>11

-----------------------------------------------------------------------------
\* A command is executed.
LEMMA ExecuteRecords ==
    ASSUME ServiceStep, Execute, RecordsInv
    PROVE  /\ RecordsInv'
           /\ \A u \in Slaves, e \in 1..2, k \in Keys : Backed(u, e, k) => Backed(u, e, k)'
<1>0. /\ \A u \in Slaves : Steady(u) /\ (New(u)' <=> New(u)) /\ (Served(u)' <=> Served(u))
                           /\ (Awaiting(u)' <=> Awaiting(u)) /\ (Alive(u)' <=> Alive(u))
      /\ \A u \in Slaves, d \in 1..2 : Coming(u, d)' <=> Coming(u, d)
      /\ ServiceTypes
    BY ExecuteSteady DEF ServiceStep, ServiceInv
<1>1. CASE UNCHANGED <<files, copy, store, safe, fate>>
  <2>1. UNCHANGED <<store, home, safe, fate>>
      BY <1>1 DEF Execute
  <2>2. \A u \in Slaves : Steady(u) /\ SameFiles(u)
      BY <1>0, <1>1 DEF SameFiles
  <2> QED
      BY <1>0, <2>1, <2>2, FrameStep
<1>2. CASE ~(UNCHANGED <<files, copy, store, safe, fate>>)
  <2>1. PICK s, k, v : s = At /\ k = cl.key /\ v = cl.val
      OBVIOUS
  <2>2. /\ s \in Slaves /\ k \in Keys /\ st[s] \in {"run", "stopping"} /\ home' = home
        /\ \A u \in Slaves \ {s} : files'[u] = files[u]
        /\ files'[s].db[k] = v
        /\ \A j \in Keys \ {k} : files'[s].db[j] = files[s].db[j]
        /\ files'[s].dir = files[s].dir /\ files'[s].held = files[s].held
        /\ files'[s].data = files[s].data /\ files'[s].torn = files[s].torn
        /\ \A u \in Slaves, j \in Keys \ {k} : copy'[u][j] = copy[u][j]
        /\ \A u \in Slaves :
              copy'[u] = copy[u] \/ (caller[s] = u /\ Served(u) /\ u # s /\ ~Awaiting(u))
        /\ store'[k] = v /\ safe'[k] = {}
        /\ fate'[k] = IF home[k] # s \/ fate[k] = "stray" THEN "stray" ELSE "kept"
        /\ \A j \in Keys \ {k} :
              store'[j] = store[j] /\ safe'[j] = safe[j] /\ fate'[j] = fate[j]
      BY <1>2, <2>1, WriteFacts
  <2>3. \A u \in Slaves : /\ \A d \in 1..2 : Backup(files'[u], d) = Backup(files[u], d)
                          /\ files'[u].dir = files[u].dir
                          /\ files'[u].held = files[u].held /\ files'[u].torn = files[u].torn
      BY <2>2 DEF Backup
  <2>4. \A u \in Slaves, j \in Keys \ {k} : SameRecords(u, j)
    <3>1. ASSUME NEW u \in Slaves, NEW j \in Keys \ {k} PROVE SameRecords(u, j)
      <4>1. files'[u].db[j] = files[u].db[j]
          BY <2>2
      <4> QED
          BY <2>2, <2>3, <4>1 DEF SameRecords
    <3> QED
        BY <3>1
  <2>5. ~Awaiting(s) /\ ~New(s) /\ s # NoSlave /\ Db(s)'[k] = v
      BY <1>0, <2>2, NoSlaveAssumption DEF Awaiting, New, Db
  <2>6. ASSUME NEW u \in Slaves PROVE Tidy(u)'
    <3>1. Tidy(u)
        BY DEF RecordsInv
    <3>2. Alive(u)' /\ Unmerged(u)' => Alive(u) /\ Unmerged(u)
        BY <1>0 DEF Steady
    <3>3. \A j \in Keys : safe'[j] = safe[j] \/ safe'[j] = {}
        BY <2>2
    <3>4. New(u)' => files'[u] = files[u]
        BY <1>0, <2>2, <2>5
    <3>5. ~Served(u) => copy'[u] = copy[u]
        BY <2>2
    <3> QED
        BY <1>0, <2>3, <3>1, <3>2, <3>3, <3>4, <3>5 DEF Tidy, Apart, Clean
  <2>7. ASSUME NEW j \in Keys PROVE Placed(j)' /\ Answered(j)'
    <3>1. home[j] # NoSlave => home[j] \in Slaves
        BY <1>0 DEF ServiceTypes
    <3>2. home[j] # NoSlave => Steady(home[j]) /\ (Awaiting(home[j])' <=> Awaiting(home[j]))
        BY <1>0, <2>2, <3>1 DEF Steady
    <3>3. Placed(j)'
        BY <2>2, <3>2, PlacedKept DEF RecordsInv
    <3>4. CASE j = k
      <4>1. SUFFICES ASSUME fate'[k] = "kept" PROVE Answered(k)'
          BY <3>3, <3>4 DEF Answered
      <4>2. home'[k] = s
          BY <2>2, <4>1
      <4> QED
          BY <2>2, <2>5, <4>2 DEF Answered
    <3>5. CASE j # k
      <4>1. home[j] # NoSlave => SameRecords(home[j], j)
          BY <2>4, <3>1, <3>5
      <4>2. store'[j] = store[j] /\ fate'[j] = fate[j] /\ home'[j] = home[j]
          BY <2>2, <3>5
      <4> QED
          BY <3>2, <3>3, <4>1, <4>2, AnsweredKept DEF RecordsInv
    <3> QED
        BY <3>4, <3>5
  <2>8. ASSUME NEW u \in Slaves, NEW j \in Keys PROVE Alone(u, j)'
    <3>0. Alone(u, j)
        BY DEF RecordsInv
    <3>1. CASE j = k
      <4>1. SUFFICES ASSUME Alive(u), Unmerged(u), fate[k] # "stray", home[k] = s
                     PROVE  Alone(u, k)'
          BY <1>0, <2>2, <3>1 DEF Alone, Steady
      <4>2. CASE u = s
        <5>1. Copied(s, 1)[k] = None
            BY <3>0, <3>1, <4>1, <4>2 DEF Alone
        <5>2. copy'[s] = copy[s] /\ 1 \in 1..2
            BY <2>2
        <5>3. Copied(s, 1)' = Copied(s, 1)
            BY <1>0, <2>2, <2>3, <5>2 DEF Copied
        <5> QED
            BY <2>2, <4>1, <4>2, <5>1, <5>3 DEF Alone
      <4>3. CASE u # s
        <5>1. Db(u)[k] = None
            BY <3>0, <3>1, <4>1, <4>3 DEF Alone
        <5>2. Db(u)' = Db(u)
            BY <1>0, <2>2, <4>3 DEF Db
        <5> QED
            BY <2>2, <4>1, <4>3, <5>1, <5>2 DEF Alone
      <4> QED
          BY <4>2, <4>3
    <3>2. CASE j # k
      <4>1. SameRecords(u, j) /\ Steady(u) /\ fate'[j] = fate[j]
          BY <1>0, <2>2, <2>4, <3>2
      <4> QED
          BY <2>2, <3>0, <4>1, AloneKept
    <3> QED
        BY <3>1, <3>2
  <2>9. ASSUME NEW u \in Slaves, NEW e \in 1..2, NEW j \in Keys, Backed(u, e, j)
        PROVE  Backed(u, e, j)'
    <3>1. CASE j = k
        BY <2>2, <3>1 DEF Backed
    <3>2. CASE j # k
      <4>1. SameRecords(u, j) /\ Steady(u) /\ fate'[j] = fate[j] /\ store'[j] = store[j]
            /\ safe'[j] = safe[j]
          BY <1>0, <2>2, <2>4, <3>2
      <4> QED
          BY <2>9, <4>1, BackedKept
    <3> QED
        BY <3>1, <3>2
  <2>10. ASSUME NEW u \in Slaves, NEW j \in Keys, Unmerged(u)' PROVE Backed(u, 1, j)'
    <3>1. Unmerged(u) /\ 1 \in 1..2
        BY <1>0, <2>10 DEF Steady
    <3> QED
        BY <2>9, <3>1 DEF RecordsInv
  <2> QED
      BY <2>6, <2>7, <2>8, <2>9, <2>10 DEF RecordsInv
<1> QED
    BY <1>1, <1>2

-----------------------------------------------------------------------------
(* The answers are kept.                                                   *)

\* Every other step of the service is one of these.
LEMMA RecordSteps ==
    ASSUME [ServiceNext]_allVars
    PROVE  \/ PlainStep \/ Execute
           \/ \E s \in Slaves : \/ JoinList(s) \/ ReceiveRecords(s) \/ MergeBackup1(s)
                                \/ MergeBackup2(s) \/ Exit(s)
                                \/ \E t \in Slaves : \/ ServeClipData(s, t) \/ ServeBackup(s, t)
                                                     \/ ServeUpdateBackup2(s, t)
    BY DEF ServiceNext, PlainStep, FileStep

LEMMA RecordsNext ==
    ASSUME ServiceStep, RecordsInv
    PROVE  RecordsInv'
<1>1. [ServiceNext]_allVars /\ ServiceTypes
    BY DEF ServiceStep, ServiceInv
<1>2. CASE PlainStep
    BY <1>1, <1>2, PlainFrame, FrameStep
<1>3. CASE Execute
    BY <1>3, ExecuteRecords
<1>4. ASSUME NEW s \in Slaves, JoinList(s), ~PlainStep PROVE RecordsInv'
    BY <1>4, JoinRecords
<1>5. ASSUME NEW s \in Slaves, ReceiveRecords(s) PROVE RecordsInv'
    BY <1>5, ReceiveKeeps
<1>6. ASSUME NEW s \in Slaves, MergeBackup1(s), ~PlainStep PROVE RecordsInv'
    BY <1>6, SuccessorRecords
<1>7. ASSUME NEW s \in Slaves, MergeBackup2(s), ~PlainStep PROVE RecordsInv'
    BY <1>7, SecondRecords
<1>8. ASSUME NEW s \in Slaves, Exit(s) PROVE RecordsInv'
    BY <1>8, ExitRecords
<1>9. ASSUME NEW s \in Slaves, NEW t \in Slaves, ServeClipData(s, t) PROVE RecordsInv'
    BY <1>9, ClipRecords
<1>10. ASSUME NEW s \in Slaves, NEW t \in Slaves, ServeBackup(s, t) PROVE RecordsInv'
    BY <1>10, BackupRecords
<1>11. ASSUME NEW s \in Slaves, NEW t \in Slaves, ServeUpdateBackup2(s, t), ~PlainStep
       PROVE  RecordsInv'
    BY <1>11, UpdateRecords
<1> QED
    BY <1>1, <1>2, <1>3, <1>4, <1>5, <1>6, <1>7, <1>8, <1>9, <1>10, <1>11, RecordSteps

LEMMA FatesNext ==
    ASSUME Fates, [ServiceNext]_allVars
    PROVE  Fates'
<1>1. fate' = fate \/ fate' \in [Keys -> {"kept", "lost", "stray"}]
  <2>1. CASE PlainStep
    <3>1. fate' = fate
      <4>1. CASE UNCHANGED allVars
          BY <4>1 DEF allVars, serviceVars
      <4>2. CASE MasterWorks \/ RenewBackups
          BY <4>2 DEF MasterWorks, RenewBackups, serviceVars
      <4>3. CASE Input \/ ClientStep \/ Accept
          BY <4>3 DEF Input, OpenCommand, QuitCommand, CloseCommand, GetCommand, DelCommand,
                      SetCommand, ClientStep, ReadCloudNodes, OpenNode, AllOpen, ConnectionLost,
                      CloseNode, AllClosed, Accept, Client
      <4>4. CASE \E s \in Slaves : Start(s) \/ Leave(s) \/ SlaveWorks(s)
          BY <4>4 DEF Start, Leave, SlaveWorks, serviceVars
      <4> QED
          BY <2>1, <4>1, <4>2, <4>3, <4>4 DEF PlainStep
    <3> QED
        BY <3>1
  <2>2. CASE Execute
    <3>1. PICK s, k : s = At /\ k = cl.key
        OBVIOUS
    <3>2. \/ fate' = fate
          \/ fate' = [fate EXCEPT ![k] = IF home[k] # s \/ @ = "stray" THEN "stray" ELSE "kept"]
        BY <2>2, <3>1 DEF Execute
    <3>3. CASE fate' = [fate EXCEPT ![k] = IF home[k] # s \/ @ = "stray" THEN "stray" ELSE "kept"]
      <4>1. fate' \in [Keys -> {"kept", "lost", "stray"}]
          BY <3>3 DEF Fates
      <4> QED
          BY <4>1
    <3> QED
        BY <3>2, <3>3
  <2>3. ASSUME NEW s \in Slaves, MergeBackup1(s) \/ Exit(s)
        PROVE  fate' \in [Keys -> {"kept", "lost", "stray"}]
    <3>1. CASE MergeBackup1(s)
      <4>1. \/ fate' = fate
            \/ fate' = [k \in Keys |->
                          IF home[k] = Node(s, 1).id /\ <<s, 1>> \notin safe[k] /\ fate[k] = "kept"
                          THEN "lost" ELSE fate[k]]
          BY <3>1 DEF MergeBackup1
      <4> QED
          BY <4>1 DEF Fates
    <3>2. CASE Exit(s)
      <4>1. fate' = [k \in Keys |-> IF home[k] = s /\ store[k] # None /\ fate[k] = "kept"
                                    THEN "lost" ELSE fate[k]]
          BY <3>2 DEF Exit
      <4> QED
          BY <4>1 DEF Fates
    <3> QED
        BY <2>3, <3>1, <3>2
  <2>4. ASSUME NEW s \in Slaves,
               \/ JoinList(s) \/ ReceiveRecords(s) \/ MergeBackup2(s)
               \/ \E t \in Slaves : \/ ServeClipData(s, t) \/ ServeBackup(s, t)
                                    \/ ServeUpdateBackup2(s, t)
        PROVE  fate' = fate
      BY <2>4 DEF JoinList, ReceiveRecords, MergeBackup2, ServeClipData, ServeBackup,
                  ServeUpdateBackup2
  <2> QED
      BY <2>1, <2>2, <2>3, <2>4, RecordSteps
<1> QED
    BY <1>1 DEF Fates

LEMMA ChoresInvNext ==
    ASSUME ClusterInv, AllChores, [ServiceNext]_allVars
    PROVE  AllChores'
<1>1. UNCHANGED allVars => UNCHANGED vars
    BY DEF allVars
<1>2. [Next]_vars \/ Faults
    BY <1>1, ServiceSteps
<1>3. ASSUME Faults PROVE AllChores'
  <2>1. UNCHANGED slaveVars
      BY <1>3 DEF Faults, Die
  <2> QED
      BY <2>1, ChoresKept DEF AllChores, slaveVars
<1> QED
    BY <1>2, <1>3, ChoresNext

LEMMA ServiceBegins ==
    ASSUME ServiceInit
    PROVE  /\ ServiceTypes /\ Fates /\ AllChores /\ OneDeparture /\ RecordsInv
           /\ \A s \in Slaves, e \in 1..2, k \in Keys : Backed(s, e, k)
<1>1. /\ st = [s \in Slaves |-> "off"] /\ todo = [s \in Slaves |-> <<>>]
      /\ toSlave = [s \in Slaves |-> <<>>]
      /\ files = [s \in Slaves |-> NoFiles] /\ copy = [s \in Slaves |-> NoRecords]
      /\ stops = 0 /\ store = NoRecords /\ home = [k \in Keys |-> NoSlave]
      /\ safe = [k \in Keys |-> {}] /\ fate = [k \in Keys |-> "kept"]
    BY DEF ServiceInit, Init
<1>2. ServiceTypes
    BY NoFilesType, NoRecordsType, NoCommandTypes DEF ServiceInit, ServiceTypes
<1>3. Fates
    BY <1>1 DEF Fates
<1>4. AllChores
    BY <1>1 DEF AllChores, Chores, Awaiting
<1>5. OneDeparture
    BY <1>1 DEF OneDeparture, Moving
<1>6. \A s \in Slaves, e \in 1..2, k \in Keys : Backed(s, e, k)
    BY <1>1 DEF Backed, Alive
<1>7. \A s \in Slaves : Tidy(s)
    BY <1>1 DEF Tidy, Apart, Alive, New, NoFiles
<1>8. \A k \in Keys : Placed(k) /\ Answered(k)
    BY <1>1 DEF Placed, Answered, NoRecords
<1>9. \A s \in Slaves, k \in Keys : Alone(s, k)
    BY <1>1 DEF Alone, Alive
<1> QED
    BY <1>2, <1>3, <1>4, <1>5, <1>6, <1>7, <1>8, <1>9 DEF RecordsInv

\* What is true of the protocol goes on being true.
LEMMA ServiceInvNext ==
    ASSUME ServiceInv, ~Overlap, MaxStops <= 1, [ServiceNext]_allVars, PlacesInv'
    PROVE  ServiceInv'
<1>1. /\ ClusterInv /\ Calm /\ ServiceTypes /\ Fates /\ AllChores /\ OneDeparture
    BY DEF ServiceInv, PlacesInv
<1> QED
    BY <1>1, ServiceKeepsTypes, FatesNext, ChoresInvNext, OneDepartureNext DEF ServiceInv

\* The records are where the home of each key, and its predecessor, should
\* have them.
LEMMA RecordsKept ==
    ASSUME ~Overlap, MaxStops <= 1
    PROVE  ServiceSpec => [](ServiceInv /\ RecordsInv)
<1>1. ServiceInit /\ PlacesInv => ServiceInv /\ RecordsInv
    BY ServiceBegins DEF ServiceInv
<1>2. ServiceInv /\ RecordsInv /\ PlacesInv' /\ [ServiceNext]_allVars
      => (ServiceInv /\ RecordsInv)'
  <2>1. ASSUME ServiceInv, RecordsInv, PlacesInv', [ServiceNext]_allVars
        PROVE  ServiceInv' /\ RecordsInv'
    <3>1. ServiceStep
        BY <2>1 DEF ServiceStep
    <3> QED
        BY <2>1, <3>1, RecordsNext, ServiceInvNext
  <2> QED
      BY <2>1
<1>3. ServiceSpec => []PlacesInv
    BY PlacesKept
<1> QED
    BY <1>1, <1>2, <1>3, PTL DEF ServiceSpec

\* What a client was told is stored can be had from the home of its key at every
\* moment of a join (CLIP_DATA, SplitByKey) or a departure (RM_SLAVE,
\* Merge2Files).  Joins, departures and alarms begin one at a time, when nothing
\* else is under way (~Overlap), although the code's SIGALRM and SIGINT may come
\* in the middle of an exchange; the client's commands come at any time.  One
\* slave may leave: after a second merge the handles that the first one left open
\* are other files.
THEOREM AnswersStay ==
    ASSUME ~Overlap, MaxStops <= 1
    PROVE  ServiceSpec => []AnswersKept
<1>1. ASSUME RecordsInv, ServiceInv
      PROVE  AnswersKept
  <2>1. SUFFICES ASSUME NEW k \in Keys, fate[k] = "kept"
                 PROVE  IF home[k] = NoSlave THEN store[k] = None
                        ELSE HomeRecords(k)[k] = store[k]
      BY DEF AnswersKept
  <2>2. Answered(k)
      BY <1>1 DEF RecordsInv
  <2>3. HomeRecords(k) = Db(home[k])
      BY DEF HomeRecords, Db, Awaiting
  <2> QED
      BY <2>1, <2>2, <2>3 DEF Answered
<1>2. ServiceSpec => [](ServiceInv /\ RecordsInv)
    BY RecordsKept
<1> QED
    BY <1>1, <1>2, PTL

\* SplitByKey, Merge2Files and GetSocket agree: when nothing is under way, the
\* a.db of the slave that GetSocket chooses for a key has what a client was told
\* of it, for any number of slaves, keys and joins.  Changes and alarms may not
\* overlap, and one slave may leave.
THEOREM RecordsRouted ==
    ASSUME ~Overlap, MaxStops <= 1
    PROVE  ServiceSpec => []RecordsWhereRouted
<1>1. ASSUME RecordsInv, ServiceInv
      PROVE  RecordsWhereRouted
  <2>1. SUFFICES ASSUME Quiet, mlist.num > 0, NEW k \in Keys, fate[k] = "kept"
                 PROVE  files[Owner(mlist, k)].db[k] = store[k]
      BY DEF RecordsWhereRouted
  <2>2. home[k] = Owner(mlist, k)
      BY <1>1, <2>1, KeysRouted DEF ServiceInv
  <2>3. Owner(mlist, k) \in Slaves /\ Owner(mlist, k) # NoSlave
    <3>1. MasterInv
        BY <1>1 DEF ServiceInv, PlacesInv, ClusterInv, Inv
    <3>2. Owner(mlist, k) \in Members(mlist)
        BY <2>1, <3>1, OwnerListed DEF MasterInv
    <3> QED
        BY <3>1, <3>2, MemberIsSlave
  <2>4. Db(home[k]) = files[home[k]].db
      BY <2>1, <2>2, <2>3 DEF Db, Awaiting, Quiet
  <2>5. Answered(k)
      BY <1>1 DEF RecordsInv
  <2> QED
      BY <2>1, <2>2, <2>3, <2>4, <2>5 DEF Answered
<1>2. ServiceSpec => [](ServiceInv /\ RecordsInv)
    BY RecordsKept
<1> QED
    BY <1>1, <1>2, PTL

-----------------------------------------------------------------------------
(* Whose records the backups hold.                                         *)

\* x has not come to its UPDATE_BACKUP2: what it got from its predecessor is
\* still in backup1 of the second one.
Unsplit(x) ==
    /\ st[x] = "init"
    /\ \/ todo[x] \in {<< -1, 1, -2, 2 >>, << 1, -2, 2 >>}
       \/ todo[x] = << -2, 2 >> /\ ~Served(x)

\* The slaves in the order of the master's list; one that has not its records
\* yet is passed over.
IdAt(q) == mlist.nodes[q].id
Following(q) == IF q = mlist.num - 1 THEN 0 ELSE q + 1
After(q) == IF Arriving(IdAt(Following(q))) THEN Following(Following(q)) ELSE Following(q)
Follows(t, n) == \E q \in Positions(mlist) : t = IdAt(q) /\ n = IdAt(After(q))

\* What t has of k when n and m come after it: backup1 is for the records of n,
\* and those of m that were n's; backup2 is for the other ones of m.
Part(t, n, m, k) ==
    /\ Marked(t, 1, k) => home[k] # t /\ (home[k] = n \/ (home[k] = m /\ Unsplit(m)))
    /\ Marked(t, 2, k) => home[k] # t /\ home[k] # n /\ ~(home[k] = m /\ Unsplit(m))

\* As long as no slave has left, the backups are where the list has them.
Roles ==
    stops = 0 =>
        \A t, n, m \in Slaves, k \in Keys :
            Alive(t) /\ fate[k] # "stray" /\ Follows(t, n) /\ Follows(n, m) => Part(t, n, m, k)

\* No key is in both backups of a slave, until it merges them.
Separate(t, k) ==
    Alive(t) /\ Unmerged(t) /\ fate[k] # "stray" => ~(Marked(t, 1, k) /\ Marked(t, 2, k))

\* Places in a ring.
LEMMA FollowingFacts ==
    ASSUME ClusterInv, NEW q \in Positions(mlist)
    PROVE  /\ mlist.num \in Nat \ {0} /\ q \in 0..(mlist.num - 1)
           /\ Following(q) \in Positions(mlist) /\ After(q) \in Positions(mlist)
           /\ Following(q) = (q + 1) % mlist.num
           /\ Following(Following(q)) = (q + 2) % mlist.num
           /\ mlist.num > 1 => Following(q) # q
           /\ mlist.num > 2 => Following(Following(q)) # q
           /\ \A r \in Positions(mlist) : Following(r) = Following(q) => r = q
           /\ IdAt(q) \in Slaves
           /\ \A r \in Positions(mlist) : IdAt(r) = IdAt(q) => r = q
<1>1. IsSlaveList(mlist, Slaves) /\ Ordered(mlist)
    BY DEF ClusterInv, Inv, MasterInv
<1>2. PICK N : N = mlist.num
    OBVIOUS
<1>3. N \in Nat \ {0} /\ q \in 0..(N - 1) /\ Positions(mlist) = 0..(N - 1)
    BY <1>1, <1>2 DEF IsSlaveList, Positions
<1>4. \A r \in 0..(N - 1) : /\ Following(r) = IF r = N - 1 THEN 0 ELSE r + 1
                            /\ Following(r) \in 0..(N - 1)
    BY <1>2, <1>3 DEF Following
<1>5. After(q) \in 0..(N - 1)
    BY <1>3, <1>4 DEF After
<1>6. Following(q) = (q + 1) % N
    BY <1>3, <1>4, Neighbours
<1>7. Following(Following(q)) = (q + 2) % N
  <2>1. PICK r : r = Following(q)
      OBVIOUS
  <2>2. r \in 0..(N - 1) /\ Following(r) = IF r = N - 1 THEN 0 ELSE r + 1
      BY <1>3, <1>4, <2>1
  <2>3. CASE N = 1
    <3>1. (q + 2) % 1 = 0
        BY <1>3, ModRange
    <3> QED
        BY <1>3, <2>1, <2>2, <2>3, <3>1
  <2>4. CASE N # 1
    <3>1. PICK x : x = q + 2
        OBVIOUS
    <3>2. x \in Nat /\ x < 2 * N
        BY <1>3, <2>4, <3>1
    <3>3. x % N = IF x < N THEN x ELSE x - N
        BY <1>3, <3>2, ModOnce
    <3>4. Following(r) = IF x < N THEN x ELSE x - N
      <4>1. r = IF q = N - 1 THEN 0 ELSE q + 1
          BY <1>3, <1>4, <2>1
      <4> QED
          BY <1>3, <2>2, <2>4, <3>1, <4>1
    <3> QED
        BY <2>1, <3>1, <3>3, <3>4
  <2> QED
      BY <2>3, <2>4
<1>8. /\ N > 1 => Following(q) # q
      /\ \A r \in 0..(N - 1) : Following(r) = Following(q) => r = q
    BY <1>3, <1>4
<1>9. N > 2 => Following(Following(q)) # q
  <2>1. PICK r : r = Following(q)
      OBVIOUS
  <2>2. /\ r = IF q = N - 1 THEN 0 ELSE q + 1
        /\ Following(r) = IF r = N - 1 THEN 0 ELSE r + 1
      BY <1>3, <1>4, <2>1
  <2>3. N > 2 => Following(r) # q
      BY <1>3, <2>2
  <2> QED
      BY <2>1, <2>3
<1>10. IdAt(q) \in Slaves
    BY <1>1, NodeType DEF IdAt
<1>11. \A r \in Positions(mlist) : IdAt(r) = IdAt(q) => r = q
    BY <1>1, OnePlace DEF IdAt
<1> QED
    BY <1>2, <1>3, <1>4, <1>5, <1>6, <1>7, <1>8, <1>9, <1>10, <1>11

\* Some slave comes after each one.
LEMMA FollowsTotal ==
    ASSUME ClusterInv, NEW t \in Members(mlist)
    PROVE  \E n \in Slaves : Follows(t, n) /\ n \in Members(mlist)
<1>1. PICK q \in Positions(mlist) : t = IdAt(q)
    BY DEF Members, IdAt
<1>2. After(q) \in Positions(mlist)
    BY FollowingFacts
<1>3. IdAt(After(q)) \in Slaves
    BY <1>2, FollowingFacts
<1>4. IdAt(After(q)) \in Members(mlist)
    BY <1>2 DEF Members, IdAt
<1> QED
    BY <1>1, <1>3, <1>4 DEF Follows

\* When no slave waits for its records, this is the order of the list.
LEMMA FollowsPlain ==
    ASSUME ClusterInv, \A u \in Slaves : ~Arriving(u), NEW q \in Positions(mlist), NEW n
    PROVE  Follows(IdAt(q), n) <=> n = IdAt(Following(q))
<1>1. \A r \in Positions(mlist) : After(r) = Following(r)
    BY FollowingFacts DEF After
<1>2. \A r \in Positions(mlist) : IdAt(r) = IdAt(q) => r = q
    BY FollowingFacts
<1> QED
    BY <1>1, <1>2 DEF Follows

LEMMA SeparateByRoles ==
    ASSUME ClusterInv, Roles, stops = 0, NEW t \in Slaves, NEW k \in Keys
    PROVE  Separate(t, k)
<1>1. SUFFICES ASSUME Alive(t), fate[k] # "stray"
               PROVE  ~(Marked(t, 1, k) /\ Marked(t, 2, k))
    BY DEF Separate
<1>2. t \in Members(mlist)
    BY <1>1, ServingFacts DEF Alive
<1>3. PICK n \in Slaves : Follows(t, n) /\ n \in Members(mlist)
    BY <1>2, FollowsTotal
<1>4. PICK m \in Slaves : Follows(n, m)
    BY <1>3, FollowsTotal
<1>5. Part(t, n, m, k)
    BY <1>1, <1>3, <1>4 DEF Roles
<1> QED
    BY <1>5 DEF Part

LEMMA SeparateKept ==
    ASSUME NEW t, NEW k, Separate(t, k), MarksStay(t, k)
    PROVE  Separate(t, k)'
<1>1. 1 \in 1..2 /\ 2 \in 1..2
    OBVIOUS
<1> QED
    BY <1>1 DEF Separate, MarksStay

\* The list and the slaves that join are the same.
LEMMA FollowsKept ==
    ASSUME ClusterInv, mlist' = mlist, \A u \in Slaves : Arriving(u)' <=> Arriving(u)
    PROVE  \A t, n : Follows(t, n)' <=> Follows(t, n)
<1>1. \A q : Following(q)' = Following(q) /\ IdAt(q)' = IdAt(q)
    BY DEF Following, IdAt
<1>2. ASSUME NEW q \in Positions(mlist) PROVE After(q)' = After(q)
  <2>1. PICK j, u : j = Following(q) /\ u = IdAt(j)
      OBVIOUS
  <2>2. u \in Slaves
      BY <2>1, FollowingFacts
  <2>3. Arriving(u)' <=> Arriving(u)
      BY <2>2
  <2>4. mlist'.nodes[j].id = u /\ Following(q)' = j /\ Following(j)' = Following(j)
      BY <1>1, <2>1 DEF IdAt
  <2>5. After(q)' = IF Arriving(u)' THEN Following(j) ELSE j
      BY <2>4 DEF After, IdAt, Arriving
  <2> QED
      BY <2>1, <2>3, <2>5 DEF After
<1> QED
    BY <1>1, <1>2 DEF Follows

\* The order of the slaves and the homes are the same.
LEMMA RolesKept ==
    ASSUME Roles, stops' = stops, home' = home,
           \A t, n, m \in Slaves : Alive(t)' /\ Follows(t, n)' /\ Follows(n, m)' =>
                                   Follows(t, n) /\ Follows(n, m),
           \A u \in Slaves, k \in Keys : MarksStay(u, k),
           \A u \in Slaves, k \in Keys : home[k] = u => (Unsplit(u)' <=> Unsplit(u))
    PROVE  Roles'
<1>1. SUFFICES ASSUME stops = 0, NEW t \in Slaves, NEW n \in Slaves, NEW m \in Slaves,
                      NEW k \in Keys, Alive(t)', fate'[k] # "stray",
                      Follows(t, n)', Follows(n, m)'
               PROVE  Part(t, n, m, k)'
    BY DEF Roles
<1>2. Unmerged(t)'
    BY <1>1 DEF Unmerged
<1>3. \A d \in 1..2 : Marked(t, d, k)' => Alive(t) /\ fate[k] # "stray" /\ Marked(t, d, k)
    BY <1>1, <1>2 DEF MarksStay
<1>4. Follows(t, n) /\ Follows(n, m)
    BY <1>1
<1>5. ASSUME NEW d \in 1..2, Marked(t, d, k)' PROVE Part(t, n, m, k)
    BY <1>1, <1>3, <1>4, <1>5 DEF Roles
<1>6. home[k] = m => (Unsplit(m)' <=> Unsplit(m))
    OBVIOUS
<1>7. 1 \in 1..2 /\ 2 \in 1..2
    OBVIOUS
<1> QED
    BY <1>3, <1>5, <1>6, <1>7 DEF Part

\* A positive multiple is no smaller.
LEMMA Multiple ==
    ASSUME NEW n \in Nat \ {0}, NEW d \in Int, d >= 1
    PROVE  n * d >= n
<1>1. n * d = n * (d - 1) + n
    OBVIOUS
<1>2. n * (d - 1) >= 0
    OBVIOUS
<1> QED
    BY <1>1, <1>2

\* Once more around.
LEMMA ModWrap ==
    ASSUME NEW n \in Nat \ {0}, NEW x \in Nat
    PROVE  (x + n) % n = x % n
<1>1. PICK q, r, a, b : /\ q = x \div n /\ r = x % n
                        /\ a = (x + n) \div n /\ b = (x + n) % n
    OBVIOUS
<1>2. q \in Int /\ r \in 0..(n - 1) /\ x = n * q + r
    BY <1>1
<1>3. a \in Int /\ b \in 0..(n - 1) /\ x + n = n * a + b
    BY <1>1
<1>4. n * (a - q - 1) = r - b /\ n * (q + 1 - a) = b - r
    BY <1>2, <1>3
<1>5. ~(a - q - 1 >= 1)
  <2>1. SUFFICES ASSUME a - q - 1 >= 1 PROVE FALSE
      OBVIOUS
  <2>2. n * (a - q - 1) >= n
      BY <1>2, <1>3, <2>1, Multiple
  <2> QED
      BY <1>2, <1>3, <1>4, <2>2
<1>6. ~(q + 1 - a >= 1)
  <2>1. SUFFICES ASSUME q + 1 - a >= 1 PROVE FALSE
      OBVIOUS
  <2>2. n * (q + 1 - a) >= n
      BY <1>2, <1>3, <2>1, Multiple
  <2> QED
      BY <1>2, <1>3, <1>4, <2>2
<1>7. a = q + 1
    BY <1>2, <1>3, <1>5, <1>6
<1>8. a - q - 1 = 0 /\ n * 0 = 0
    BY <1>2, <1>3, <1>7
<1>9. r = b
    BY <1>2, <1>3, <1>4, <1>8
<1> QED
    BY <1>1, <1>9

\* As long as no slave has left, none had left before.
LEMMA StopsSteps ==
    ASSUME ServiceStep
    PROVE  /\ stops \in Nat /\ stops' \in Nat
           /\ stops' = 0 => stops = 0 /\ stops' = stops
<1>1. stops \in Nat /\ [ServiceNext]_allVars
    BY DEF ServiceStep, ServiceInv, OneDeparture
<1>2. stops' = stops + 1 \/ stops' = stops
    BY <1>1, DepartureSteps
<1> QED
    BY <1>1, <1>2

\* Whom a slave asks for a backup, before any slave has left: the one whose
\* records it is for.
LEMMA BackupPlace ==
    ASSUME ServiceInv, stops = 0, NEW s \in Slaves, Alive(s), callee[s] # NoSlave,
           Head(todo[s]) \in {1, 2}, NEW n \in Slaves, NEW m \in Slaves,
           Follows(s, n), Follows(n, m)
    PROVE  /\ callee[s] # s
           /\ Head(todo[s]) = 1 => callee[s] = n
           /\ Head(todo[s]) = 2 => callee[s] = m /\ callee[s] # n
<1>1. /\ ClusterInv /\ Calm /\ OneDeparture /\ Errand(s) /\ MasterInv /\ Calls(s)
      /\ st[s] \in {"init", "run"} /\ todo[s] # <<>> /\ callee[s] # s /\ Unmerged(s)
    BY SlaveFacts DEF ServiceInv, PlacesInv, Errands, Calls, Alive, Unmerged
<1>2. job.op = "idle" /\ \A u \in Slaves : ~Arriving(u)
  <2>1. CASE st[s] = "init"
    <3>1. Moving(s) /\ \A u \in Slaves : Moving(u) => u = s
        BY <1>1, <2>1 DEF Moving, Calm
    <3>2. ~Arriving(s)
        BY <2>1 DEF Arriving
    <3>3. \A u \in Slaves : ~Arriving(u)
        BY <3>1, <3>2, ArrivingMoves
    <3>4. job.op = "idle"
        BY <1>1, <2>1, <3>1, JobState DEF MasterInv
    <3> QED
        BY <3>3, <3>4
  <2>2. CASE st[s] = "run"
    <3>1. \A u \in Slaves : ~Moving(u)
        BY <1>1, <2>2 DEF OneDeparture
    <3>2. job.op = "idle"
      <4>1. SUFFICES ASSUME job.op # "idle" PROVE FALSE
          OBVIOUS
      <4>2. job.s \in Slaves
          BY <1>1, <4>1, JobPlace, MemberIsSlave
      <4>3. States(job.s)
          BY <1>1, <4>2, SlaveFacts
      <4>4. st[job.s] \in {"register", "stopping"}
          BY <1>1, <4>1, <4>3 DEF States, Joining, MasterInv
      <4> QED
          BY <3>1, <4>2, <4>4 DEF Moving
    <3> QED
        BY <3>1, <3>2, ArrivingMoves
  <2> QED
      BY <1>1, <2>1, <2>2
<1>3. sl[s] = mlist /\ pos[s] \in Positions(mlist) /\ IdAt(pos[s]) = s
    BY <1>1, <1>2, ServingFacts DEF IdAt
<1>4. PICK p, j, i, N : p = pos[s] /\ j = Following(p) /\ i = Following(j) /\ N = mlist.num
    OBVIOUS
<1>5. /\ p \in Positions(mlist) /\ j \in Positions(mlist) /\ i \in Positions(mlist)
      /\ N \in Nat \ {0} /\ p \in Nat
      /\ j = (p + 1) % N /\ i = (p + 2) % N
      /\ IdAt(p) = s
  <2>1. p \in Positions(mlist) /\ IdAt(p) = s
      BY <1>3, <1>4
  <2>2. j \in Positions(mlist) /\ j = (p + 1) % N /\ i = (p + 2) % N /\ N \in Nat \ {0}
        /\ p \in 0..(N - 1)
      BY <1>1, <1>4, <2>1, FollowingFacts
  <2>3. i \in Positions(mlist)
      BY <1>1, <1>4, <2>2, FollowingFacts
  <2> QED
      BY <2>1, <2>2, <2>3
<1>6. n = IdAt(j) /\ m = IdAt(i)
  <2>1. n = IdAt(j)
      BY <1>1, <1>2, <1>4, <1>5, FollowsPlain
  <2> QED
      BY <1>1, <1>2, <1>4, <1>5, <2>1, FollowsPlain
<1>7. callee[s] = mlist.nodes[(p + Head(todo[s]) + N) % N].id
    BY <1>1, <1>3, <1>4 DEF Errand, Other
<1>8. (p + 1 + N) % N = j /\ (p + 2 + N) % N = i
  <2>1. p + 1 \in Nat /\ p + 2 \in Nat
      BY <1>5
  <2> QED
      BY <1>5, <2>1, ModWrap
<1>9. Head(todo[s]) = 1 => callee[s] = n
    BY <1>6, <1>7, <1>8 DEF IdAt
<1>10. Head(todo[s]) = 2 => callee[s] = m /\ callee[s] # n
  <2>1. SUFFICES ASSUME Head(todo[s]) = 2 PROVE callee[s] = m /\ m # n
      OBVIOUS
  <2>2. callee[s] = m
      BY <1>6, <1>7, <1>8, <2>1 DEF IdAt
  <2>3. CASE N > 1
    <3>1. i # j
        BY <1>1, <1>4, <1>5, <2>3, FollowingFacts
    <3> QED
        BY <1>1, <1>5, <1>6, <2>2, <3>1, FollowingFacts
  <2>4. CASE ~(N > 1)
    <3>1. i = p
        BY <1>4, <1>5, <2>4 DEF Following, Positions
    <3> QED
        BY <1>1, <1>5, <1>6, <2>2, <3>1
  <2> QED
      BY <2>2, <2>3, <2>4
<1> QED
    BY <1>1, <1>9, <1>10

LEMMA ChoreShapes ==
    /\ \A q \in {<< 2 >>, << -1, 1 >>, << 1 >>, <<>>, << 1, 2, 0 >>, << 2, 0 >>, << 0 >>} :
          q \notin WithUpdate
    /\ << -2, 2 >> # << 1, -2, 2 >> /\ << -2, 2 >> # << -1, 1, -2, 2 >>
    /\ Head(<< -1, 1, -2, 2 >>) = -1 /\ Head(<< 1, -2, 2 >>) = 1 /\ Head(<< -2, 2 >>) = -2
<1>1. /\ Len(<< 2 >>) = 1 /\ Len(<< -1, 1 >>) = 2 /\ Len(<< 1 >>) = 1 /\ Len(<<>>) = 0
      /\ Len(<< 1, 2, 0 >>) = 3 /\ Len(<< 2, 0 >>) = 2 /\ Len(<< 0 >>) = 1
      /\ Len(<< -1, 1, -2, 2 >>) = 4 /\ Len(<< 1, -2, 2 >>) = 3 /\ Len(<< -2, 2 >>) = 2
    OBVIOUS
<1>2. /\ Head(<< -1, 1 >>) = -1 /\ Head(<< 2, 0 >>) = 2 /\ Head(<< -2, 2 >>) = -2
      /\ << 1, 2, 0 >>[2] = 2 /\ << 1, -2, 2 >>[2] = -2
      /\ Head(<< -1, 1, -2, 2 >>) = -1 /\ Head(<< 1, -2, 2 >>) = 1
    OBVIOUS
<1>3. /\ << 2 >> \notin WithUpdate /\ << 1 >> \notin WithUpdate /\ <<>> \notin WithUpdate
      /\ << 0 >> \notin WithUpdate
    BY <1>1 DEF WithUpdate
<1>4. /\ << -1, 1 >> # << -2, 2 >> /\ << 2, 0 >> # << -2, 2 >> /\ << 1, 2, 0 >> # << 1, -2, 2 >>
  <2>1. -1 # -2 /\ 2 # -2
      OBVIOUS
  <2> QED
      BY <1>2, <2>1
<1>5. << -1, 1 >> \notin WithUpdate /\ << 2, 0 >> \notin WithUpdate
      /\ << 1, 2, 0 >> \notin WithUpdate
    BY <1>1, <1>4 DEF WithUpdate
<1>6. << -2, 2 >> # << 1, -2, 2 >> /\ << -2, 2 >> # << -1, 1, -2, 2 >>
    BY <1>1
<1> QED
    BY <1>2, <1>3, <1>5, <1>6

\* Only a slave that joins splits a backup.
LEMMA UnsplitMoves ==
    ASSUME NEW x, Unsplit(x)
    PROVE  st[x] = "init" /\ todo[x] \in WithUpdate /\ Moving(x)
BY DEF Unsplit, WithUpdate, Moving

\* InitialSlave calls everybody that it should: the slaves listed are there.
LEMMA InitialCallMade ==
    ASSUME ServiceInv, NEW s \in Slaves, CallSlave(s), st[s] = "init", todo[s] \in WithUpdate
    PROVE  todo' = todo
<1>1. /\ ClusterInv /\ MasterInv /\ Chores(s) /\ States(s)
    BY SlaveFacts DEF ServiceInv, PlacesInv, AllChores
<1>2. /\ Head(todo[s]) \in {-1, 1, -2} /\ sl[s].num > 2
    BY <1>1, ChoreShapes DEF Chores, WithUpdate
<1>3. PICK k, n, p, hispos, other :
          /\ k = Head(todo[s]) /\ n = sl[s].num /\ p = pos[s]
          /\ hispos = (pos[s] + k + sl[s].num) % sl[s].num
          /\ other = sl[s].nodes[hispos].id
    OBVIOUS
<1>4. /\ pos[s] \in Positions(sl[s]) /\ IsSlaveList(sl[s], Slaves)
      /\ Members(sl[s]) \subseteq Members(mlist)
  <2>1. Serving(s)
      BY <1>1 DEF States
  <2> QED
      BY <1>1, <2>1, ViewIsList DEF Serving, Connected, Agrees
<1>5. n \in Nat \ {0} /\ n > 2 /\ p \in 0..(n - 1) /\ Positions(sl[s]) = 0..(n - 1)
    BY <1>2, <1>3, <1>4 DEF IsSlaveList, Positions
<1>6. hispos # p /\ hispos \in 0..(n - 1)
  <2>1. CASE k = -1
    <3>1. p + k + n = p + n - 1
        BY <1>5, <2>1
    <3>2. hispos = (p + n - 1) % n
        BY <1>3, <2>1, <3>1
    <3>3. hispos = IF p = 0 THEN n - 1 ELSE p - 1
        BY <1>5, <3>2, Neighbours
    <3> QED
        BY <1>5, <3>3
  <2>2. CASE k = 1
    <3>1. p + 1 \in Nat
        BY <1>5
    <3>2. hispos = (p + 1) % n
      <4>1. hispos = (p + 1 + n) % n
          BY <1>3, <2>2
      <4> QED
          BY <1>5, <3>1, <4>1, ModWrap
    <3>3. hispos = IF p = n - 1 THEN 0 ELSE p + 1
        BY <1>5, <3>2, Neighbours
    <3> QED
        BY <1>5, <3>3
  <2>3. CASE k = -2
    <3>1. PICK x : x = p + -2 + n
        OBVIOUS
    <3>2. x \in Nat /\ x < 2 * n /\ n \in Nat \ {0}
        BY <1>5, <3>1
    <3>3. hispos = IF x < n THEN x ELSE x - n
        BY <1>3, <2>3, <3>1, <3>2, ModOnce
    <3> QED
        BY <1>5, <3>1, <3>3
  <2> QED
      BY <1>2, <1>3, <2>1, <2>2, <2>3
<1>7. other \in Slaves /\ other \in Members(mlist)
  <2>1. other \in Members(sl[s])
      BY <1>3, <1>5, <1>6 DEF Members
  <2> QED
      BY <1>1, <1>4, <2>1, MemberIsSlave
<1>8. st[other] # "exited"
    BY <1>1, <1>7, SlaveFacts DEF States, Unlisted
<1> QED
    BY <1>3, <1>6, <1>8 DEF CallSlave

\* A slave at work is split off in its UPDATE_BACKUP2 and at no other time.
LEMMA UnsplitWorks ==
    ASSUME ServiceInv, NEW s \in Slaves,
           SlaveWorks(s) \/ (ReceiveFile(s) /\ Served(s) /\ ~Served(s)')
    PROVE  Unsplit(s)' <=> Unsplit(s)
<1>1. ClusterInv /\ Chores(s) /\ IsQueue(todo[s]) /\ DOMAIN st = Slaves /\ DOMAIN todo = Slaves
    BY SlaveFacts DEF ServiceInv, PlacesInv, AllChores, ClusterInv, Shape
<1>2. CASE HandleNewSlave(s) \/ HandleUpdateBackup12(s)
    BY <1>2 DEF HandleNewSlave, HandleUpdateBackup12, Polling, Unsplit
<1>3. CASE EnterLoop(s)
  <2>1. todo[s] = <<>> /\ st'[s] = "run"
      BY <1>1, <1>3 DEF EnterLoop
  <2> QED
      BY <2>1, UnsplitMoves, ChoreShapes DEF Unsplit
<1>4. CASE SendBackupReply(s)
  <2>1. todo[s] \notin InitialChores /\ st' = st
      BY <1>4, TailChores DEF SendBackupReply, Working
  <2>2. st[s] # "init"
      BY <1>1, <2>1 DEF Chores
  <2> QED
      BY <2>1, <2>2 DEF Unsplit
<1>5. CASE CallSlave(s)
  <2>1. /\ st' = st /\ caller' = caller /\ todo[s] # <<>>
        /\ \/ todo' = todo
           \/ todo'[s] = Tail(todo[s]) \/ todo'[s] = <<>>
      BY <1>1, <1>5 DEF CallSlave, Working
  <2>2. CASE todo' = todo
      BY <2>1, <2>2 DEF Unsplit, Served
  <2>3. CASE todo' # todo /\ st[s] = "init"
    <3>1. todo[s] \notin WithUpdate /\ todo[s] \in InitialChores
        BY <1>1, <1>5, <2>3, InitialCallMade DEF Chores
    <3>2. todo'[s] \notin WithUpdate
        BY <2>1, <2>3, <3>1, TailChores, ChoreShapes
    <3> QED
        BY <3>1, <3>2 DEF Unsplit, WithUpdate
  <2>4. CASE st[s] # "init"
      BY <2>1, <2>4 DEF Unsplit
  <2> QED
      BY <2>2, <2>3, <2>4
<1>6. CASE ReceiveFile(s) /\ Served(s) /\ ~Served(s)'
  <2>1. /\ st' = st /\ todo'[s] = Tail(todo[s]) /\ callee[s] # NoSlave
      BY <1>1, <1>6, NoSlaveAssumption DEF ReceiveFile
  <2>2. CASE st[s] # "init"
      BY <2>1, <2>2 DEF Unsplit
  <2>3. CASE st[s] = "init"
    <3>1. todo[s] \in InitialChores /\ todo[s] # <<>>
        BY <1>1, <2>1, <2>3, SlaveFacts DEF Chores, Calls
    <3>2. CASE todo[s] = << -1, 1, -2, 2 >> \/ todo[s] = << 1, -2, 2 >>
        BY <1>6, <2>1, <2>3, <3>2, ChoreTails DEF Unsplit
    <3>3. CASE todo[s] = << -2, 2 >>
      <4>1. todo'[s] = << 2 >>
          BY <2>1, <3>3, ChoreTails
      <4>2. todo'[s] \notin WithUpdate
          BY <4>1, ChoreShapes
      <4> QED
          BY <1>6, <3>3, <4>2, ChoreShapes DEF Unsplit, WithUpdate
    <3>4. CASE todo[s] \notin WithUpdate
      <4>1. todo'[s] \notin WithUpdate
          BY <2>1, <3>1, <3>4, TailChores
      <4> QED
          BY <3>4, <4>1 DEF Unsplit, WithUpdate
    <3> QED
        BY <3>2, <3>3, <3>4 DEF WithUpdate
  <2> QED
      BY <2>2, <2>3
<1> QED
    BY <1>2, <1>3, <1>4, <1>5, <1>6 DEF SlaveWorks

\* A slave that is added is passed over in the new list: the others come after
\* each other as before.
LEMMA FollowsAdd ==
    ASSUME ClusterInv, Calm, NEW s \in Slaves, AddSlaveRequest(s),
           NEW t \in Slaves, NEW n \in Slaves, t # s, Follows(t, n)'
    PROVE  Follows(t, n) /\ n # s
<1>1. /\ job.op = "idle" /\ job'.op = "add"
      /\ st' = st /\ todo' = todo /\ caller' = caller
    BY DEF AddSlaveRequest, IdleJob, slaveVars
<1>2. /\ st[s] = "register" /\ s \notin Members(mlist)
      /\ IsSlaveList(mlist, Slaves) /\ Ordered(mlist)
    BY AddRequestFacts, SlaveFacts DEF MasterInv
<1>3. PICK first : mlist' = AddToSlaveList(mlist, s, first)
    BY DEF AddSlaveRequest
<1>4. PICK new, p, N : new = mlist' /\ p = NewPos(mlist) /\ N = mlist.num
    OBVIOUS
<1>5. /\ p \in Positions(new) /\ new.nodes[p].id = s
      /\ new.num = N + 1 /\ RemoveSlave(new, p).nodes = mlist.nodes
      /\ Members(new) = Members(mlist) \cup {s}
    BY <1>2, <1>3, <1>4, NewPlace
<1>6. /\ Moving(s) /\ \A u \in Slaves : Moving(u) => u = s
    BY <1>2 DEF Moving, Calm
<1>7. \A u \in Slaves : ~Arriving(u)
    BY <1>2, <1>6, ArrivingMoves DEF Arriving
<1>8. \A u \in Slaves : Arriving(u)' <=> u = s
  <2>1. \A u \in Slaves : Arriving(u)' => u = s
      BY <1>1, <1>6 DEF Arriving, Moving
  <2>2. Arriving(s)'
      BY <1>1, <1>2, <1>4, <1>5 DEF Arriving
  <2> QED
      BY <2>1, <2>2
<1>9. /\ N \in Nat /\ p \in 0..N /\ Positions(mlist) = 0..(N - 1) /\ Positions(new) = 0..N
  <2>1. N \in Nat
      BY <1>2, <1>4 DEF IsSlaveList
  <2> QED
      BY <1>4, <1>5, <2>1 DEF Positions
<1>10. PICK G, F : /\ G = [q \in 0..N |-> IF q < p THEN q ELSE q - 1]
                   /\ F = [q \in 0..N |-> IF q = N THEN 0 ELSE q + 1]
    OBVIOUS
<1>11. \A q \in 0..N : q # p => G[q] \in 0..(N - 1) /\ new.nodes[q] = mlist.nodes[G[q]]
  <2>1. SUFFICES ASSUME NEW q \in 0..N, q # p
                 PROVE  G[q] \in 0..(N - 1) /\ new.nodes[q] = mlist.nodes[G[q]]
      OBVIOUS
  <2>2. G[q] = (IF q < p THEN q ELSE q - 1) /\ G[q] \in 0..(N - 1)
      BY <1>9, <1>10, <2>1
  <2>3. mlist.nodes = [i \in 0..(N - 1) |-> IF i < p THEN new.nodes[i] ELSE new.nodes[i + 1]]
    <3>1. RemoveSlave(new, p).nodes =
             [i \in 0..(new.num - 2) |-> IF i < p THEN new.nodes[i] ELSE new.nodes[i + 1]]
        BY DEF RemoveSlave
    <3>2. new.num - 2 = N - 1
        BY <1>5, <1>9
    <3> QED
        BY <1>5, <3>1, <3>2
  <2>4. mlist.nodes[G[q]] = IF G[q] < p THEN new.nodes[G[q]] ELSE new.nodes[G[q] + 1]
      BY <2>2, <2>3
  <2>5. CASE q < p
      BY <2>2, <2>4, <2>5
  <2>6. CASE p < q
    <3>1. G[q] = q - 1 /\ ~(G[q] < p) /\ G[q] + 1 = q
        BY <1>9, <2>1, <2>2, <2>6
    <3> QED
        BY <2>2, <2>4, <3>1
  <2> QED
      BY <1>9, <2>1, <2>5, <2>6
<1>12. \A q \in 0..N : new.nodes[q].id = s <=> q = p
  <2>1. \A q \in 0..(N - 1) : mlist.nodes[q].id \in Members(mlist)
      BY <1>9 DEF Members
  <2> QED
      BY <1>2, <1>5, <1>11, <2>1
<1>13. \A q \in 0..N : Following(q)' = F[q] /\ F[q] \in 0..N /\ IdAt(q)' = new.nodes[q].id
    BY <1>4, <1>5, <1>9, <1>10 DEF Following, IdAt
<1>14. \A q \in 0..N : After(q)' = IF F[q] = p THEN F[p] ELSE F[q]
  <2>1. SUFFICES ASSUME NEW q \in 0..N PROVE After(q)' = IF F[q] = p THEN F[p] ELSE F[q]
      OBVIOUS
  <2>2. PICK j, u : j = F[q] /\ u = new.nodes[j].id
      OBVIOUS
  <2>3. j \in 0..N /\ Following(q)' = j /\ Following(j)' = F[j]
      BY <1>13, <2>2
  <2>4. u \in Slaves
    <3>1. j = p => u = s
        BY <1>5, <2>2
    <3>2. j # p => u \in Slaves
      <4>1. j # p => G[j] \in Positions(mlist) /\ u = mlist.nodes[G[j]].id
          BY <1>9, <1>11, <2>2, <2>3
      <4> QED
          BY <1>2, <4>1, NodeType
    <3> QED
        BY <3>1, <3>2
  <2>5. Arriving(u)' <=> j = p
      BY <1>8, <1>12, <2>2, <2>3, <2>4
  <2>6. After(q)' = IF Arriving(u)' THEN F[j] ELSE j
      BY <1>4, <2>2, <2>3 DEF After, IdAt, Arriving
  <2> QED
      BY <2>2, <2>5, <2>6
<1>15. PICK q \in 0..N : t = new.nodes[q].id /\ n = IdAt(After(q))'
  <2>1. PICK q \in Positions(new) : t = IdAt(q)' /\ n = IdAt(After(q))'
      BY <1>4 DEF Follows
  <2> QED
      BY <1>9, <1>13, <2>1
<1>16. PICK a : a = IF F[q] = p THEN F[p] ELSE F[q]
    OBVIOUS
<1>17. q # p /\ N > 0
    BY <1>9, <1>12, <1>15
<1>18. a \in 0..N /\ a # p /\ G[a] = (IF G[q] = N - 1 THEN 0 ELSE G[q] + 1)
  <2>1. F[q] = (IF q = N THEN 0 ELSE q + 1) /\ F[p] = (IF p = N THEN 0 ELSE p + 1)
      BY <1>9, <1>10
  <2>2. a \in 0..N /\ a # p
      BY <1>9, <1>16, <1>17, <2>1
  <2>3. G[a] = (IF a < p THEN a ELSE a - 1) /\ G[q] = (IF q < p THEN q ELSE q - 1)
      BY <1>10, <2>2
  <2> QED
      BY <1>9, <1>16, <1>17, <2>1, <2>2, <2>3
<1>19. n = new.nodes[a].id
  <2>1. After(q)' = a
      BY <1>14, <1>16
  <2> QED
      BY <1>4, <1>15, <2>1 DEF IdAt
<1>20. /\ G[q] \in Positions(mlist) /\ t = IdAt(G[q])
       /\ n = IdAt(G[a]) /\ G[a] = Following(G[q])
  <2>1. G[q] \in Positions(mlist) /\ t = IdAt(G[q]) /\ n = IdAt(G[a])
      BY <1>9, <1>11, <1>15, <1>17, <1>18, <1>19 DEF IdAt
  <2>2. Following(G[q]) = IF G[q] = N - 1 THEN 0 ELSE G[q] + 1
      BY <1>4 DEF Following
  <2> QED
      BY <1>18, <2>1, <2>2
<1>21. Follows(t, n)
  <2>1. PICK g : g = G[q]
      OBVIOUS
  <2>2. g \in Positions(mlist) /\ t = IdAt(g) /\ n = IdAt(Following(g))
      BY <1>20, <2>1
  <2> QED
      BY <1>7, <2>2, FollowsPlain
<1>22. n # s
    BY <1>12, <1>18, <1>19
<1> QED
    BY <1>21, <1>22

LEMMA RolesPlain ==
    ASSUME ServiceStep, PlainStep, Roles, stops' = 0
    PROVE  Roles'
<1>1. /\ ServiceInv /\ ClusterInv /\ Calm /\ Errands /\ OneDeparture /\ MasterInv
      /\ stops = 0 /\ stops \in Nat /\ stops' = stops
    BY StopsSteps DEF ServiceStep, ServiceInv, PlacesInv, ClusterInv, Inv
<1>2. /\ \A u \in Slaves : Steady(u) /\ SameFiles(u)
      /\ UNCHANGED <<store, home, safe, fate>>
    BY PlainFrame
<1>3. \A u \in Slaves, k \in Keys : MarksStay(u, k)
    BY <1>2, FilesRecords, MarksOf
<1>4. \A u \in Slaves : Alive(u)' => Alive(u)
    BY <1>2 DEF Steady
<1>5. CASE mlist' = mlist /\ slaveVars' = slaveVars
  <2>1. \A u \in Slaves : Arriving(u)' <=> Arriving(u)
      BY <1>5 DEF Arriving, slaveVars
  <2>2. \A u \in Slaves : Unsplit(u)' <=> Unsplit(u)
      BY <1>5 DEF Unsplit, Served, slaveVars
  <2>3. \A t, n : Follows(t, n)' <=> Follows(t, n)
      BY <1>1, <1>5, <2>1, FollowsKept
  <2> QED
      BY <1>1, <1>2, <1>3, <2>2, <2>3, RolesKept
<1>6. ASSUME NEW s \in Slaves, AddSlaveRequest(s) PROVE Roles'
  <2>1. st' = st /\ todo' = todo /\ caller' = caller /\ st[s] = "register"
      BY <1>1, <1>6, AddRequestFacts DEF AddSlaveRequest, slaveVars
  <2>2. \A u \in Slaves : Unsplit(u)' <=> Unsplit(u)
      BY <2>1 DEF Unsplit, Served
  <2>3. ASSUME NEW t \in Slaves, NEW n \in Slaves, NEW m \in Slaves,
               Alive(t)', Follows(t, n)', Follows(n, m)'
        PROVE  Follows(t, n) /\ Follows(n, m)
    <3>1. t # s
        BY <2>1, <2>3 DEF Alive
    <3>2. Follows(t, n) /\ n # s
        BY <1>1, <1>6, <2>3, <3>1, FollowsAdd
    <3> QED
        BY <1>1, <1>6, <2>3, <3>2, FollowsAdd
  <2> QED
      BY <1>1, <1>2, <1>3, <2>2, <2>3, RolesKept
<1>7. ASSUME NEW s \in Slaves, SlaveWorks(s) \/ Start(s) PROVE Roles'
  <2>1. /\ mlist' = mlist /\ caller' = caller
        /\ \A u \in Slaves \ {s} : st'[u] = st[u] /\ todo'[u] = todo[u]
      BY <1>1, <1>7 DEF SlaveWorks, EnterLoop, HandleNewSlave, HandleUpdateBackup12,
                        SendBackupReply, CallSlave, Start, StartSlave, ClusterInv, Shape,
                        masterVars
  <2>2. Arriving(s)' <=> Arriving(s)
    <3>1. CASE SlaveWorks(s)
        BY <1>1, <3>1, ArrivalKept DEF SlaveWorks
    <3>2. CASE Start(s)
      <4>1. s \notin Members(mlist)
          BY <1>1, <3>2, SlaveFacts DEF Start, StartSlave, States, Unlisted
      <4> QED
          BY <2>1, <4>1 DEF Arriving
    <3> QED
        BY <1>7, <3>1, <3>2
  <2>3. Unsplit(s)' <=> Unsplit(s)
    <3>1. CASE SlaveWorks(s)
        BY <1>1, <3>1, UnsplitWorks
    <3>2. CASE Start(s)
      <4>1. st[s] = "off" /\ st'[s] = "register"
          BY <1>1, <3>2 DEF Start, StartSlave, ClusterInv, Shape
      <4> QED
          BY <4>1 DEF Unsplit
    <3> QED
        BY <1>7, <3>1, <3>2
  <2>4. \A u \in Slaves : (Arriving(u)' <=> Arriving(u)) /\ (Unsplit(u)' <=> Unsplit(u))
    <3>1. \A u \in Slaves \ {s} : Arriving(u)' <=> Arriving(u)
        BY <1>1, <2>1, OthersArrive
    <3>2. \A u \in Slaves \ {s} : Unsplit(u)' <=> Unsplit(u)
        BY <2>1 DEF Unsplit, Served
    <3> QED
        BY <2>2, <2>3, <3>1, <3>2
  <2>5. \A t, n : Follows(t, n)' <=> Follows(t, n)
      BY <1>1, <2>1, <2>4, FollowsKept
  <2> QED
      BY <1>1, <1>2, <1>3, <2>4, <2>5, RolesKept
<1>8. CASE MasterWorks
  <2>1. CASE FinishRequest
    <3>1. slaveVars' = slaveVars
        BY <2>1 DEF FinishRequest
    <3>2. CASE job.op = "add"
      <4>1. mlist' = mlist
          BY <2>1, <3>2 DEF FinishRequest
      <4> QED
          BY <1>5, <3>1, <4>1
    <3>3. CASE job.op # "add"
      <4>1. job.s \in Slaves /\ st[job.s] = "stopping"
          BY <1>1, <2>1, <3>3, OneLeaves
      <4> QED
          BY <1>1, <4>1 DEF OneDeparture
    <3> QED
        BY <3>2, <3>3
  <2>2. CASE NotifyAll \/ AlarmReply \/ \E s \in Slaves : DelSlaveRequest(s)
      BY <1>5, <2>2 DEF NotifyAll, AlarmReply, DelSlaveRequest
  <2> QED
      BY <1>6, <1>8, <2>1, <2>2 DEF MasterWorks, MasterStep
<1>9. CASE RenewBackups
    BY <1>5, <1>9 DEF RenewBackups, Alarm, AlarmOnEmptyList, Die, masterVars
<1>10. CASE Input \/ ClientStep \/ Accept \/ UNCHANGED allVars
            \/ UNCHANGED <<masterVars, slaveVars, chanVars>>
  <2>1. UNCHANGED vars \/ UNCHANGED <<masterVars, slaveVars, chanVars>>
      BY <1>10, ClientAlone DEF allVars
  <2> QED
      BY <1>5, <2>1 DEF vars, masterVars
<1>11. ASSUME NEW s \in Slaves, Leave(s) PROVE FALSE
    BY <1>1, <1>11 DEF Leave
<1> QED
    BY <1>7, <1>8, <1>9, <1>10, <1>11 DEF PlainStep

\* What has been received counted as the slave's before.
LEMMA ReceiveMarks ==
    ASSUME ServiceStep, NEW s \in Slaves, ReceiveRecords(s), RecordsInv
    PROVE  \A u \in Slaves, k \in Keys : MarksStay(u, k)
<1>1. DOMAIN files = Slaves /\ DOMAIN copy = Slaves
    BY DEF ServiceStep, ServiceInv, ServiceTypes
<1>2. /\ Alive(s)
      /\ Unmerged(s)' => Unmerged(s)
      /\ \A u \in Slaves \ {s} : Steady(u)
    BY ReceiveFacts DEF ReceiveRecords
<1>3. /\ UNCHANGED <<home, safe, fate>> /\ \A e \in 1..2 : Copied(s, e)' = Copied(s, e)
    BY ReceiveKeeps
<1>4. ASSUME NEW u \in Slaves, NEW k \in Keys PROVE MarksStay(u, k)
  <2>1. CASE u = s
      BY <1>2, <1>3, <2>1 DEF MarksStay, Marked
  <2>2. CASE u # s
    <3>1. SameFiles(u)
        BY <1>1, <2>2 DEF ReceiveRecords, SameFiles
    <3> QED
        BY <1>2, <1>3, <2>2, <3>1, FilesRecords, MarksOf
  <2> QED
      BY <2>1, <2>2
<1> QED
    BY <1>4

\* A slave whose files are to be the ones that it has been sent.
LEMMA RolesReceive ==
    ASSUME ServiceStep, NEW s \in Slaves, ReceiveRecords(s), RecordsInv, Roles
    PROVE  Roles'
<1>1. /\ ServiceInv /\ ClusterInv /\ Errands /\ ServiceTypes
      /\ DOMAIN files = Slaves /\ DOMAIN copy = Slaves /\ DOMAIN todo = Slaves
    BY DEF ServiceStep, ServiceInv, PlacesInv, ServiceTypes, ClusterInv, Shape
<1>2. /\ ReceiveFile(s) /\ mlist' = mlist /\ st' = st /\ stops' = stops
      /\ \A u \in Slaves \ {s} : todo'[u] = todo[u]
      /\ \A u \in Slaves \ {s}, t \in Slaves : caller'[t] = u <=> caller[t] = u
  <2>1. ReceiveFile(s) /\ stops' = stops
      BY DEF ReceiveRecords, bounds
  <2>2. \A u \in Slaves \ {s}, t \in Slaves : caller'[t] = u <=> caller[t] = u
      BY <1>1, <2>1, NoSlaveAssumption DEF ReceiveFile, ClusterInv, Shape
  <2> QED
      BY <1>1, <2>1, <2>2 DEF ReceiveFile, masterVars
<1>3. /\ Served(s) /\ ~Served(s)' /\ Alive(s)
      /\ Unmerged(s)' => Unmerged(s)
      /\ \A u \in Slaves \ {s} : Steady(u)
    BY <1>2, ReceiveFacts
<1>4. /\ UNCHANGED <<home, safe, fate>> /\ \A e \in 1..2 : Copied(s, e)' = Copied(s, e)
    BY ReceiveKeeps
<1>5. \A u \in Slaves, k \in Keys : MarksStay(u, k)
    BY ReceiveMarks
<1>6. \A u \in Slaves : Arriving(u)' <=> Arriving(u)
  <2>1. \A u \in Slaves \ {s} : Arriving(u)' <=> Arriving(u)
      BY <1>1, <1>2, OthersArrive
  <2>2. Arriving(s)' <=> Arriving(s)
      BY <1>1, <1>2, ArrivalKept
  <2> QED
      BY <2>1, <2>2
<1>7. \A u \in Slaves : Unsplit(u)' <=> Unsplit(u)
  <2>1. \A u \in Slaves \ {s} : Unsplit(u)' <=> Unsplit(u)
      BY <1>2 DEF Unsplit, Served
  <2>2. Unsplit(s)' <=> Unsplit(s)
      BY <1>1, <1>2, <1>3, UnsplitWorks
  <2> QED
      BY <2>1, <2>2
<1>8. \A t, n : Follows(t, n)' <=> Follows(t, n)
    BY <1>1, <1>2, <1>6, FollowsKept
<1>9. \A u \in Slaves : Alive(u)' => Alive(u)
    BY <1>2 DEF Alive
<1> QED
    BY <1>2, <1>4, <1>5, <1>7, <1>8, RolesKept

\* A slave that gets its list has no marks.
LEMMA NewUnmarked ==
    ASSUME RecordsInv, NEW s \in Slaves, New(s), \A d \in 1..2 : ~Coming(s, d)
    PROVE  \A d \in 1..2, k \in Keys : ~Marked(s, d, k)
<1>1. files[s] = NoFiles /\ \A k \in Keys, d \in 1..2 : <<s, d>> \notin safe[k]
    BY DEF RecordsInv, Tidy
<1>2. \A d \in 1..2, k \in Keys : Backup(files[s], d)[k] = None
    BY <1>1, NoFilesFacts
<1> QED
    BY <1>1, <1>2 DEF Marked, Copied

\* A slave that joins has no backups yet.
LEMMA JoinMarks ==
    ASSUME ServiceStep, NEW s \in Slaves, JoinList(s), ~PlainStep, RecordsInv
    PROVE  /\ \A d \in 1..2, k \in Keys : ~Marked(s, d, k)'
           /\ \A u \in Slaves, k \in Keys : MarksStay(u, k)
<1>1. /\ New(s) /\ ~Served(s) /\ ~Served(s)'
      /\ UNCHANGED <<files, copy, store, safe, fate>>
      /\ \A u \in Slaves \ {s} : Steady(u)
    BY JoinFacts DEF New
<1>2. \A d \in 1..2, k \in Keys : ~Marked(s, d, k)'
  <2>1. \A d \in 1..2 : ~Coming(s, d) /\ ~Coming(s, d)'
      BY <1>1 DEF Coming
  <2>2. \A d \in 1..2, k \in Keys : ~Marked(s, d, k)
      BY <1>1, <2>1, NewUnmarked
  <2>3. \A d \in 1..2 : Copied(s, d)' = Copied(s, d)
      BY <1>1, <2>1 DEF Copied
  <2> QED
      BY <1>1, <2>2, <2>3 DEF Marked
<1>3. ASSUME NEW u \in Slaves, NEW k \in Keys PROVE MarksStay(u, k)
  <2>1. CASE u = s
      BY <1>2, <2>1 DEF MarksStay
  <2>2. CASE u # s
    <3>1. SameFiles(u)
        BY <1>1 DEF SameFiles
    <3> QED
        BY <1>1, <2>2, <3>1, FilesRecords, MarksOf
  <2> QED
      BY <2>1, <2>2
<1> QED
    BY <1>2, <1>3

LEMMA RolesJoin ==
    ASSUME ServiceStep, NEW s \in Slaves, JoinList(s), ~PlainStep, RecordsInv, Roles
    PROVE  Roles'
<1>1. /\ ServiceInv /\ ClusterInv /\ Errands /\ ServiceTypes
      /\ DOMAIN files = Slaves /\ DOMAIN copy = Slaves /\ DOMAIN todo = Slaves
      /\ DOMAIN st = Slaves
    BY DEF ServiceStep, ServiceInv, PlacesInv, ServiceTypes, ClusterInv, Shape
<1>2. /\ st[s] = "register" /\ st'[s] = "init" /\ ~Served(s) /\ ~Served(s)'
      /\ UNCHANGED <<files, copy, store, safe, fate>>
      /\ sl'[s].num \in Nat \ {0} /\ todo'[s] = InitialCalls(sl'[s].num)
      /\ home' = IF sl'[s].num = 1 THEN [k \in Keys |-> s] ELSE home
      /\ \A u \in Slaves \ {s} : Steady(u)
      /\ sl'[s].num = 1 => \A u \in Slaves \ {s} : st[u] \notin {"init", "run", "stopping"}
    BY JoinFacts
<1>3. /\ Register(s) /\ mlist' = mlist /\ caller' = caller /\ stops' = stops
      /\ \A u \in Slaves \ {s} : st'[u] = st[u] /\ todo'[u] = todo[u]
  <2>1. Register(s) /\ stops' = stops
      BY DEF JoinList, bounds
  <2>2. Head(toSlave[s]).cmd = "ADD_SLAVE_R"
      BY <1>1, <1>2, <2>1 DEF Register, Die, slaveVars
  <2> QED
      BY <1>1, <2>1, <2>2 DEF Register, masterVars
<1>4. New(s) /\ s # NoSlave
    BY <1>2, NoSlaveAssumption DEF New
<1>5. \A d \in 1..2, k \in Keys : ~Marked(s, d, k)'
    BY JoinMarks
<1>6. \A u \in Slaves, k \in Keys : MarksStay(u, k)
    BY JoinMarks
<1>7. CASE sl'[s].num = 1
  <2>1. ASSUME NEW t \in Slaves, Alive(t)' PROVE t = s
      BY <1>2, <1>3, <1>7, <2>1 DEF Alive
  <2> QED
      BY <1>5, <2>1 DEF Roles, Part
<1>8. CASE sl'[s].num # 1
  <2>1. home' = home
      BY <1>2, <1>8
  <2>2. \A k \in Keys : home[k] # s
    <3>1. ASSUME NEW k \in Keys, home[k] = s PROVE FALSE
      <4>1. st[s] \in {"init", "run", "stopping"}
          BY <1>4, <3>1 DEF RecordsInv, Placed
      <4> QED
          BY <1>2, <4>1
    <3> QED
        BY <3>1
  <2>3. \A u \in Slaves : Arriving(u)' <=> Arriving(u)
    <3>1. \A u \in Slaves \ {s} : Arriving(u)' <=> Arriving(u)
        BY <1>1, <1>3, OthersArrive
    <3>2. sl'[s].num > 1
        BY <1>2, <1>8
    <3>3. todo'[s] # <<>> /\ Head(todo'[s]) = -1
        BY <1>2, <3>2, InitialErrand
    <3>4. \A t \in Slaves : caller[t] # s /\ caller'[t] # s
        BY <1>2 DEF Served
    <3> QED
        BY <1>2, <1>3, <3>1, <3>3, <3>4 DEF Arriving
  <2>4. \A u \in Slaves \ {s} : Unsplit(u)' <=> Unsplit(u)
      BY <1>3 DEF Unsplit, Served
  <2>5. \A t, n : Follows(t, n)' <=> Follows(t, n)
      BY <1>1, <1>3, <2>3, FollowsKept
  <2>6. \A u \in Slaves, k \in Keys : home[k] = u => (Unsplit(u)' <=> Unsplit(u))
      BY <2>2, <2>4
  <2> QED
      BY <1>3, <1>6, <2>1, <2>5, <2>6, RolesKept
<1> QED
    BY <1>7, <1>8

\* When a slave joins, no slave that has heard of the others' departure is left
\* unmerged; nor is one that is renewing a backup.
LEMMA CallerMerged ==
    ASSUME ServiceInv, stops # 0, NEW s \in Slaves, Alive(s), todo[s] # <<>>
    PROVE  /\ ~Unmerged(s)
           /\ st[s] = "init" => \A t \in Slaves : ~Unmerged(t)
<1>1. ASSUME NEW u \in Slaves, st[u] = "stopping" PROVE ~Unmerged(s) /\ st[s] = "run"
  <2>1. Moving(u) /\ Calm /\ OneDeparture
      BY <1>1 DEF Moving, ServiceInv, PlacesInv
  <2>2. st[s] # "init"
    <3>1. st[s] = "init" => Moving(s)
        BY DEF Moving
    <3> QED
        BY <1>1, <2>1, <3>1 DEF Calm
  <2> QED
      BY <2>1, <2>2 DEF OneDeparture, Alive
<1> QED
    BY <1>1 DEF Unmerged

\* A backup is sent: it has records of the slave that sends it.
LEMMA BackupMarks ==
    ASSUME ServiceStep, NEW t \in Slaves, NEW s \in Slaves, ServeBackup(t, s), RecordsInv
    PROVE  /\ \A u \in Slaves \ {s}, k \in Keys : MarksStay(u, k)
           /\ \A k \in Keys, e \in 1..2 :
                 Alive(s)' /\ Unmerged(s)' /\ fate'[k] # "stray" /\ Marked(s, e, k)' =>
                    /\ Alive(s) /\ Unmerged(s) /\ fate[k] # "stray"
                    /\ Marked(s, e, k) \/ (e = Head(todo[s]) /\ home[k] = t)
<1>1. PICK d : d = Head(todo[s])
    OBVIOUS
<1>2. ServiceTypes /\ DOMAIN files = Slaves /\ DOMAIN copy = Slaves
    BY DEF ServiceStep, ServiceInv, ServiceTypes
<1>3. ServeSlave(t, s) /\ d \in 1..2 /\ (d = 1 \/ d = 2)
    BY <1>1 DEF ServeBackup
<1>4. /\ t # s /\ st[t] = "run" /\ todo[s] # <<>> /\ Alive(t) /\ ~Awaiting(t)
      /\ ~Served(s) /\ Served(s)'
      /\ st' = st /\ todo' = todo
      /\ \A u \in Slaves \ {s} : Steady(u)
      /\ Unmerged(s)' => Unmerged(s)
      /\ Alive(s) /\ Unmerged(s) => Unmerged(t)
    BY <1>3, ServeFacts
<1>5. /\ Alive(s)' <=> Alive(s)
      /\ Coming(s, d)' /\ \A e \in 1..2 : /\ ~Coming(s, e)
                                          /\ e # d => ~Coming(s, e)'
    BY <1>1, <1>3, <1>4 DEF Alive, Coming
<1>6. /\ files' = files /\ copy' = [copy EXCEPT ![s] = files[t].db]
      /\ UNCHANGED <<store, home, fate>>
    BY DEF ServeBackup
<1>7. /\ copy'[s] = files[t].db /\ files'[s] = files[s]
      /\ \A u \in Slaves \ {s} : SameFiles(u)
    BY <1>2, <1>6 DEF SameFiles
<1>8. \A k \in Keys :
          /\ \A u \in Slaves, e \in 1..2 :
                u # s \/ e # d => (<<u, e>> \in safe'[k] <=> <<u, e>> \in safe[k])
          /\ <<s, d>> \in safe'[k] => home[k] = t
  <2>1. \A k \in Keys : safe'[k] = IF home[k] = t THEN safe[k] \cup {<<s, d>>}
                                   ELSE safe[k] \ {<<s, d>>}
      BY <1>1 DEF ServeBackup
  <2> QED
      BY <2>1
<1>9. Copied(s, d)' = files[t].db /\ \A e \in 1..2 : e # d => Copied(s, e)' = Copied(s, e)
  <2>1. Copied(s, d)' = files[t].db
      BY <1>3, <1>5, <1>7 DEF Copied
  <2>2. ASSUME NEW e \in 1..2, e # d PROVE Copied(s, e)' = Copied(s, e)
      BY <1>5, <1>7, <2>2 DEF Copied
  <2> QED
      BY <2>1, <2>2
<1>10. ASSUME NEW u \in Slaves \ {s}, NEW k \in Keys PROVE MarksStay(u, k)
  <2>1. Steady(u) /\ SameRecords(u, k) /\ \A e \in 1..2 : <<u, e>> \in safe'[k] => <<u, e>> \in safe[k]
      BY <1>4, <1>7, <1>8, FilesRecords
  <2> QED
      BY <1>6, <2>1, MarksOf
<1>11. ASSUME NEW k \in Keys, NEW e \in 1..2, Alive(s)', Unmerged(s)', fate'[k] # "stray",
              Marked(s, e, k)'
       PROVE  /\ Alive(s) /\ Unmerged(s) /\ fate[k] # "stray"
              /\ Marked(s, e, k) \/ (e = d /\ home[k] = t)
  <2>1. Alive(s) /\ Unmerged(s) /\ fate[k] # "stray" /\ Unmerged(t)
      BY <1>4, <1>5, <1>6, <1>11
  <2>2. CASE e = d
    <3>1. home[k] # t => files[t].db[k] = None
        BY <1>4, <2>1 DEF RecordsInv, Alone, Db
    <3> QED
        BY <1>8, <1>9, <1>11, <2>1, <2>2, <3>1 DEF Marked
  <2>3. CASE e # d
      BY <1>8, <1>9, <1>11, <2>1, <2>3 DEF Marked
  <2> QED
      BY <2>1, <2>2, <2>3
<1> QED
    BY <1>1, <1>10, <1>11

\* A slave that calls a running one; no slave arrives by this.
LEMMA ServeOrder ==
    ASSUME ServiceStep, NEW t \in Slaves, NEW s \in Slaves, ServeSlave(t, s),
           Head(todo[s]) # -1
    PROVE  /\ \A u, n : Follows(u, n)' <=> Follows(u, n)
           /\ \A u \in Slaves \ {s} : Unsplit(u)' <=> Unsplit(u)
<1>1. ClusterInv /\ st' = st /\ todo' = todo /\ mlist' = mlist
    BY ServeFacts DEF ServiceStep, ServiceInv, PlacesInv, ServeSlave, masterVars
<1>2. \A u \in Slaves \ {s}, v \in Slaves : caller'[v] = u <=> caller[v] = u
    BY <1>1, NoSlaveAssumption DEF ServeSlave, Polling, ClusterInv, Shape
<1>3. \A u \in Slaves : Arriving(u)' <=> Arriving(u)
  <2>1. \A u \in Slaves \ {s} : Arriving(u)' <=> Arriving(u)
      BY <1>1, <1>2, OthersArrive
  <2>2. Arriving(s)' <=> Arriving(s)
      BY <1>1 DEF Arriving
  <2> QED
      BY <2>1, <2>2
<1>4. \A u \in Slaves \ {s} : Unsplit(u)' <=> Unsplit(u)
    BY <1>1, <1>2 DEF Unsplit, Served
<1> QED
    BY <1>1, <1>3, <1>4, FollowsKept

LEMMA RolesBackup ==
    ASSUME ServiceStep, NEW t \in Slaves, NEW s \in Slaves, ServeBackup(t, s), RecordsInv,
           Roles
    PROVE  Roles'
<1>1. /\ ServiceInv /\ ServeSlave(t, s) /\ Head(todo[s]) \in {1, 2}
      /\ callee[s] = t /\ t # s /\ st[t] = "run" /\ st' = st /\ todo' = todo
      /\ UNCHANGED <<home, fate>> /\ stops' = stops /\ t # NoSlave
  <2>1. ServeSlave(t, s)
      BY DEF ServeBackup
  <2> QED
      BY <2>1, ServeFacts, NoSlaveAssumption DEF ServeBackup, ServiceStep, ServeSlave, bounds
<1>2. /\ \A u, n : Follows(u, n)' <=> Follows(u, n)
      /\ \A u \in Slaves \ {s} : Unsplit(u)' <=> Unsplit(u)
    BY <1>1, ServeOrder
<1>3. Unsplit(s)' <=> Unsplit(s)
  <2>1. todo[s] # << -2, 2 >>
      BY <1>1, ChoreShapes
  <2> QED
      BY <1>1, <2>1 DEF Unsplit
<1>4. SUFFICES ASSUME stops = 0, NEW u \in Slaves, NEW n \in Slaves, NEW m \in Slaves,
                      NEW k \in Keys, Alive(u), fate[k] # "stray",
                      Follows(u, n), Follows(n, m)
               PROVE  Part(u, n, m, k)'
    BY <1>1, <1>2 DEF Roles, Alive
<1>5. Part(u, n, m, k) /\ Unmerged(u)' /\ Alive(u)' /\ fate'[k] # "stray"
    BY <1>1, <1>4 DEF Roles, Unmerged, Alive
<1>6. (Unsplit(m)' <=> Unsplit(m)) /\ home'[k] = home[k]
    BY <1>1, <1>2, <1>3
<1>7. 1 \in 1..2 /\ 2 \in 1..2
    OBVIOUS
<1>8. CASE u # s
  <2>1. \A d \in 1..2 : Marked(u, d, k)' => Marked(u, d, k)
      BY <1>5, <1>8, BackupMarks DEF MarksStay
  <2> QED
      BY <1>5, <1>6, <1>7, <2>1 DEF Part
<1>9. CASE u = s
  <2>1. \A e \in 1..2 : Marked(s, e, k)' =>
            Marked(s, e, k) \/ (e = Head(todo[s]) /\ home[k] = t)
      BY <1>5, <1>9, BackupMarks
  <2>2. /\ Head(todo[s]) = 1 => t = n
        /\ Head(todo[s]) = 2 => t = m /\ t # n
      BY <1>1, <1>4, <1>9, BackupPlace
  <2>3. ~Unsplit(t)
      BY <1>1 DEF Unsplit
  <2>4. Marked(s, 1, k)' => home[k] # s /\ (home[k] = n \/ (home[k] = m /\ Unsplit(m)))
      BY <1>1, <1>5, <1>7, <1>9, <2>1, <2>2 DEF Part
  <2>5. Marked(s, 2, k)' => home[k] # s /\ home[k] # n /\ ~(home[k] = m /\ Unsplit(m))
      BY <1>1, <1>5, <1>7, <1>9, <2>1, <2>2, <2>3 DEF Part
  <2> QED
      BY <1>6, <1>9, <2>4, <2>5 DEF Part
<1> QED
    BY <1>8, <1>9

\* Two slaves after each other, when no slave waits for its records.
LEMMA TwoAfter ==
    ASSUME ClusterInv, \A u \in Slaves : ~Arriving(u), NEW t \in Slaves, NEW n \in Slaves,
           NEW m \in Slaves, Follows(t, n), Follows(n, m)
    PROVE  \E q \in Positions(mlist) :
              t = IdAt(q) /\ n = IdAt(Following(q)) /\ m = IdAt(Following(Following(q)))
<1>1. PICK q \in Positions(mlist) : t = IdAt(q)
    BY DEF Follows
<1>2. n = IdAt(Following(q))
    BY <1>1, FollowsPlain
<1>3. PICK r : r = Following(q)
    OBVIOUS
<1>4. r \in Positions(mlist) /\ n = IdAt(r)
    BY <1>2, <1>3, FollowingFacts
<1>5. m = IdAt(Following(r))
    BY <1>4, FollowsPlain
<1> QED
    BY <1>1, <1>2, <1>3, <1>5

\* UPDATE_BACKUP2: the slave that sends it is the second one after this one,
\* and what it got from the one between them is sorted out.
LEMMA RolesUpdate ==
    ASSUME ServiceStep, NEW t \in Slaves, NEW s \in Slaves, ServeUpdateBackup2(t, s),
           ~PlainStep, RecordsInv, Roles
    PROVE  Roles'
<1>1. ServeSlave(t, s) /\ Head(todo[s]) = -2 /\ stops' = stops
    BY UpdateServes
<1>2. /\ t # s /\ st[t] = "run" /\ Alive(t) /\ ~Served(s) /\ Served(s)'
      /\ st' = st /\ todo' = todo
    BY <1>1, ServeFacts
<1>3. /\ st[s] = "init" /\ sl[t] = mlist /\ mlist.num > 2 /\ Node(t, 2).id = s
      /\ todo[s] = << -2, 2 >>
    BY <1>1, UpdateFacts
<1>4. /\ UNCHANGED <<home, fate>> /\ \A u \in Slaves \ {t}, k \in Keys : MarksStay(u, k)
      /\ \A k \in Keys : /\ Marked(t, 1, k)' => home[k] # s /\ Marked(t, 1, k)
                         /\ Marked(t, 2, k)' => home[k] = s /\ Marked(t, 1, k)
    BY UpdateRecords
<1>5. ClusterInv /\ Calm
    BY DEF ServiceStep, ServiceInv, PlacesInv
<1>6. \A u \in Slaves : Moving(u) => u = s
    BY <1>3, <1>5 DEF Calm, Moving
<1>7. \A u \in Slaves : ~Arriving(u)
  <2>1. ~Arriving(s)
      BY <1>1, <1>3 DEF Arriving
  <2> QED
      BY <1>6, <2>1, ArrivingMoves
<1>8. /\ \A u \in Slaves : Unsplit(u) => u = s
      /\ \A u \in Slaves : ~Unsplit(u)'
  <2>1. \A u \in Slaves : Unsplit(u) => u = s
      BY <1>6, UnsplitMoves
  <2>2. \A u \in Slaves \ {s} : Unsplit(u)' <=> Unsplit(u)
      BY <1>1, ServeOrder
  <2>3. ~Unsplit(s)'
      BY <1>2, <1>3, ChoreShapes DEF Unsplit
  <2> QED
      BY <2>1, <2>2, <2>3
<1>9. \A u, n : Follows(u, n)' <=> Follows(u, n)
    BY <1>1, ServeOrder
<1>10. PICK q : q = pos[t]
    OBVIOUS
<1>11. /\ q \in Positions(mlist) /\ IdAt(q) = t
       /\ s = IdAt(Following(Following(q)))
  <2>1. q \in Positions(mlist) /\ mlist.nodes[q].id = t
      BY <1>2, <1>3, <1>5, <1>10, ServingFacts
  <2>2. Following(Following(q)) = (q + 2) % mlist.num
      BY <1>5, <2>1, FollowingFacts
  <2> QED
      BY <1>3, <1>10, <2>1, <2>2 DEF Node, IdAt
<1>12. SUFFICES ASSUME stops = 0, NEW u \in Slaves, NEW n \in Slaves, NEW m \in Slaves,
                       NEW k \in Keys, Alive(u), fate[k] # "stray",
                       Follows(u, n), Follows(n, m)
                PROVE  Part(u, n, m, k)'
    BY <1>1, <1>2, <1>4, <1>9 DEF Roles, Alive
<1>13. Part(u, n, m, k) /\ Unmerged(u)' /\ Alive(u)' /\ fate'[k] # "stray" /\ home'[k] = home[k]
    BY <1>1, <1>2, <1>4, <1>12 DEF Roles, Unmerged, Alive
<1>14. PICK r \in Positions(mlist) :
          u = IdAt(r) /\ n = IdAt(Following(r)) /\ m = IdAt(Following(Following(r)))
    BY <1>5, <1>7, <1>12, TwoAfter
<1>15. 1 \in 1..2 /\ 2 \in 1..2
    OBVIOUS
<1>16. CASE u = t
  <2>1. r = q
      BY <1>5, <1>11, <1>14, <1>16, FollowingFacts
  <2>2. m = s
      BY <1>11, <1>14, <2>1
  <2>3. n # s
    <3>1. PICK x : x = Following(q)
        OBVIOUS
    <3>2. x \in Positions(mlist)
        BY <1>5, <1>11, <3>1, FollowingFacts
    <3>3. Following(x) # x /\ Following(x) \in Positions(mlist)
        BY <1>3, <1>5, <3>2, FollowingFacts
    <3>4. IdAt(x) # IdAt(Following(x))
        BY <1>5, <3>2, <3>3, FollowingFacts
    <3> QED
        BY <1>11, <1>14, <2>1, <3>1, <3>4
  <2> QED
      BY <1>4, <1>8, <1>13, <1>16, <2>2, <2>3 DEF Part
<1>17. CASE u # t
  <2>1. m # s
    <3>1. SUFFICES ASSUME m = s PROVE FALSE
        OBVIOUS
    <3>2. PICK x, y : x = Following(q) /\ y = Following(r)
        OBVIOUS
    <3>3. x \in Positions(mlist) /\ y \in Positions(mlist)
        BY <1>5, <1>11, <1>14, <3>2, FollowingFacts
    <3>4. Following(x) \in Positions(mlist) /\ Following(y) \in Positions(mlist)
        BY <1>5, <3>3, FollowingFacts
    <3>5. Following(x) = Following(y)
      <4>1. IdAt(Following(x)) = IdAt(Following(y))
          BY <1>11, <1>14, <3>1, <3>2
      <4> QED
          BY <1>5, <3>4, <4>1, FollowingFacts
    <3>6. x = y
        BY <1>5, <3>3, <3>5, FollowingFacts
    <3>7. q = r
        BY <1>5, <1>11, <1>14, <3>2, <3>6, FollowingFacts
    <3> QED
        BY <1>11, <1>14, <1>17, <3>7
  <2>2. ~Unsplit(m) /\ ~Unsplit(m)'
      BY <1>8, <2>1
  <2>3. \A d \in 1..2 : Marked(u, d, k)' => Marked(u, d, k)
      BY <1>4, <1>13, <1>17 DEF MarksStay
  <2> QED
      BY <1>13, <1>15, <2>2, <2>3 DEF Part
<1> QED
    BY <1>16, <1>17

\* The order once the slave that arrived has its records.
LEMMA FollowsArrived ==
    ASSUME ClusterInv, mlist' = mlist, \A u \in Slaves : ~Arriving(u)'
    PROVE  \A t, n : Follows(t, n)' <=>
                     \E q \in Positions(mlist) : t = IdAt(q) /\ n = IdAt(Following(q))
<1>1. \A q : Following(q)' = Following(q) /\ IdAt(q)' = IdAt(q)
    BY DEF Following, IdAt
<1>2. ASSUME NEW q \in Positions(mlist) PROVE After(q)' = Following(q)
  <2>1. PICK j, u : j = Following(q) /\ u = IdAt(j)
      OBVIOUS
  <2>2. u \in Slaves
      BY <2>1, FollowingFacts
  <2>3. ~Arriving(u)'
      BY <2>2
  <2>4. mlist'.nodes[j].id = u /\ Following(q)' = j /\ Following(j)' = Following(j)
      BY <1>1, <2>1 DEF IdAt
  <2>5. After(q)' = IF Arriving(u)' THEN Following(j) ELSE j
      BY <2>4 DEF After, IdAt, Arriving
  <2> QED
      BY <2>1, <2>3, <2>5
<1>3. \A q \in Positions(mlist) : IdAt(After(q))' = IdAt(Following(q))
  <2>1. ASSUME NEW q \in Positions(mlist) PROVE IdAt(After(q))' = IdAt(Following(q))
    <3>1. PICK j : j = Following(q)
        OBVIOUS
    <3>2. After(q)' = j
        BY <1>2, <3>1
    <3>3. IdAt(After(q))' = mlist'.nodes[After(q)'].id
        BY DEF IdAt
    <3> QED
        BY <3>1, <3>2, <3>3 DEF IdAt
  <2> QED
      BY <2>1
<1> QED
    BY <1>1, <1>3 DEF Follows

\* CLIP_DATA: the slave that arrives comes in between; its predecessor keeps a
\* copy of what it gives away, and what its first backup had is in its second.
LEMMA RolesClip ==
    ASSUME ServiceStep, NEW t \in Slaves, NEW s \in Slaves, ServeClipData(t, s),
           RecordsInv, Roles
    PROVE  Roles'
<1>1. ClusterInv /\ Calm /\ Errands /\ stops' = stops /\ DOMAIN st = Slaves
    BY DEF ServiceStep, ServiceInv, PlacesInv, ServeClipData, bounds, ClusterInv, Shape
<1>2. PICK N, p, q : N = mlist.num /\ p = pos[s] /\ q = pos[t]
    OBVIOUS
<1>3. /\ N \in Nat \ {0} /\ N > 1
      /\ p \in Positions(mlist) /\ IdAt(p) = s
      /\ q \in Positions(mlist) /\ IdAt(q) = t
      /\ mlist' = mlist /\ st' = st /\ todo' = todo /\ t # s
      /\ st[t] = "run" /\ st[s] = "init" /\ (q + 1) % N = p /\ job.op = "idle"
      /\ \A u \in Slaves : ~Arriving(u)' /\ (Arriving(u) => u = s)
    BY <1>1, <1>2, ClipPlaces DEF IdAt
<1>4. Following(q) = p
    BY <1>1, <1>2, <1>3, FollowingFacts
<1>5. /\ fate' = fate
      /\ \A k \in Keys : home[k] # s /\ (home'[k] # home[k] => home[k] = t /\ home'[k] = s)
      /\ \A d \in 1..2, k \in Keys : ~Marked(s, d, k)'
      /\ \A u \in Slaves \ {t}, k \in Keys : MarksStay(u, k)
      /\ \A k \in Keys :
            /\ Marked(t, 1, k)' /\ Unmerged(t)' /\ fate[k] # "stray" => home[k] = t /\ home'[k] = s
            /\ Marked(t, 2, k)' => Marked(t, 1, k) \/ Marked(t, 2, k)
    BY ClipRecords
<1>6. /\ \A u \in Slaves : Unsplit(u) => u = s
      /\ \A u \in Slaves : Unsplit(u)' => u = s
  <2>1. \A u \in Slaves : st[u] = "init" => u = s
      BY <1>1, <1>3 DEF Calm, Moving
  <2> QED
      BY <1>3, <2>1 DEF Unsplit
<1>7. Unsplit(s)' \/ ~(N > 2)
  <2>1. Awaiting(s) /\ Chores(s)
    <3>1. Head(todo[s]) = -1 /\ ServeSlave(t, s)
        BY DEF ServeClipData
    <3>2. Chores(s) /\ todo[s] # <<>>
        BY <3>1, ServeFacts DEF ServiceStep, ServiceInv, AllChores
    <3> QED
        BY <1>3, <3>1, <3>2 DEF Awaiting
  <2>2. sl[s] = mlist
      BY <1>1, <1>3, ServingFacts
  <2>3. N > 2 => todo[s] = << -1, 1, -2, 2 >>
      BY <1>2, <1>3, <2>1, <2>2, InitialChoresFacts DEF Chores
  <2> QED
      BY <1>3, <2>3 DEF Unsplit
<1>8. \A u, n : Follows(u, n)' <=>
                \E r \in Positions(mlist) : u = IdAt(r) /\ n = IdAt(Following(r))
    BY <1>1, <1>3, FollowsArrived
<1>9. ASSUME NEW n, Follows(t, n)' PROVE n = s
  <2>1. PICK r \in Positions(mlist) : t = IdAt(r) /\ n = IdAt(Following(r))
      BY <1>8, <1>9
  <2>2. r = q
      BY <1>1, <1>3, <2>1, FollowingFacts
  <2> QED
      BY <1>3, <1>4, <2>1, <2>2
<1>10. ASSUME NEW u, Follows(u, s)' PROVE u = t
  <2>1. PICK r \in Positions(mlist) : u = IdAt(r) /\ s = IdAt(Following(r))
      BY <1>8, <1>10
  <2>2. Following(r) \in Positions(mlist)
      BY <1>1, <2>1, FollowingFacts
  <2>3. Following(r) = p
      BY <1>1, <1>3, <2>1, <2>2, FollowingFacts
  <2>4. r = q
      BY <1>1, <1>3, <1>4, <2>1, <2>3, FollowingFacts
  <2> QED
      BY <1>3, <2>1, <2>4
<1>11. ASSUME NEW u, NEW n \in Slaves, Follows(u, n)', n # s PROVE Follows(u, n)
  <2>1. PICK r \in Positions(mlist) : u = IdAt(r) /\ n = IdAt(Following(r))
      BY <1>8, <1>11
  <2>2. ~Arriving(n)
      BY <1>3, <1>11
  <2>3. After(r) = Following(r)
      BY <2>1, <2>2 DEF After
  <2> QED
      BY <2>1, <2>3 DEF Follows
<1>12. t \in Members(mlist) /\ ~Follows(t, t)'
  <2>1. t \in Members(mlist)
      BY <1>3 DEF Members, IdAt
  <2> QED
      BY <1>3, <1>9, <2>1
<1>13. SUFFICES ASSUME stops = 0, NEW u \in Slaves, NEW n \in Slaves, NEW m \in Slaves,
                       NEW k \in Keys, Alive(u), fate[k] # "stray",
                       Follows(u, n)', Follows(n, m)'
                PROVE  Part(u, n, m, k)'
    BY <1>1, <1>3, <1>5 DEF Roles, Alive
<1>14. Unmerged(u)' /\ Alive(u)' /\ fate'[k] # "stray"
    BY <1>1, <1>3, <1>5, <1>13 DEF Unmerged, Alive
<1>15. 1 \in 1..2 /\ 2 \in 1..2
    OBVIOUS
<1>16. PICK b \in Slaves : Follows(t, b) /\ b \in Members(mlist)
    BY <1>1, <1>12, FollowsTotal
<1>17. CASE u = t
  <2>1. n = s
      BY <1>9, <1>13, <1>17
  <2>2. PICK c \in Slaves : Follows(b, c)
      BY <1>1, <1>16, FollowsTotal
  <2>3. Part(t, b, c, k)
      BY <1>13, <1>16, <1>17, <2>2 DEF Roles
  <2>4. Marked(t, 1, k)' => home'[k] = s
      BY <1>5, <1>13, <1>14, <1>17
  <2>5. Marked(t, 2, k)' => home[k] # t
      BY <1>5, <2>3 DEF Part
  <2>6. home[k] # t => home'[k] # t /\ home'[k] # s
      BY <1>5
  <2>7. Marked(t, 2, k)' => home'[k] # t /\ home'[k] # s /\ ~(home'[k] = m /\ Unsplit(m)')
      BY <1>6, <2>5, <2>6
  <2> QED
      BY <1>3, <1>17, <2>1, <2>4, <2>7 DEF Part
<1>18. CASE u = s
    BY <1>5, <1>15, <1>18 DEF Part
<1>19. CASE u \notin {s, t} /\ n = t
  <2>1. m = s /\ Follows(u, t)
      BY <1>3, <1>9, <1>11, <1>13, <1>19
  <2>2. N > 2
    <3>1. PICK r \in Positions(mlist) : u = IdAt(r)
        BY <1>8, <1>13
    <3>2. r # q /\ r # p /\ q # p
        BY <1>3, <1>19, <3>1
    <3>3. r \in 0..(N - 1) /\ p \in 0..(N - 1) /\ q \in 0..(N - 1)
        BY <1>1, <1>2, <1>3, <3>1, FollowingFacts
    <3> QED
        BY <1>3, <3>2, <3>3
  <2>3. Part(u, t, b, k)
      BY <1>13, <1>16, <2>1 DEF Roles
  <2>4. \A d \in 1..2 : Marked(u, d, k)' => Marked(u, d, k)
      BY <1>5, <1>14, <1>19 DEF MarksStay
  <2>5. home[k] = b => ~Unsplit(b)
      BY <1>5, <1>6
  <2>6. Marked(u, 1, k)' => home[k] = t
      BY <1>15, <2>3, <2>4, <2>5 DEF Part
  <2>7. Marked(u, 2, k)' => home[k] # u /\ home[k] # t
      BY <1>15, <2>3, <2>4 DEF Part
  <2>8. home[k] = t => home'[k] # u /\ (home'[k] = t \/ (home'[k] = s /\ Unsplit(s)'))
      BY <1>5, <1>7, <1>19, <2>2
  <2>9. home[k] # t => home'[k] = home[k] /\ home[k] # s
      BY <1>5
  <2> QED
      BY <1>19, <2>1, <2>6, <2>7, <2>8, <2>9 DEF Part
<1>20. CASE u \notin {s, t} /\ n # t
  <2>1. n # s /\ m # s
      BY <1>10, <1>13, <1>20
  <2>2. Part(u, n, m, k)
      BY <1>11, <1>13, <2>1 DEF Roles
  <2>3. \A d \in 1..2 : Marked(u, d, k)' => Marked(u, d, k)
      BY <1>5, <1>14, <1>20 DEF MarksStay
  <2>4. ~Unsplit(m) /\ ~Unsplit(m)'
      BY <1>6, <2>1
  <2>5. (home'[k] = n <=> home[k] = n) /\ (home'[k] = u <=> home[k] = u)
      BY <1>5, <1>20, <2>1
  <2> QED
      BY <1>15, <2>2, <2>3, <2>4, <2>5 DEF Part
<1> QED
    BY <1>17, <1>18, <1>19, <1>20

\* A worker writes into a backup that is being sent.
LEMMA ExecuteMarks ==
    ASSUME ServiceStep, Execute, NEW u \in Slaves, NEW j \in Keys, NEW d \in 1..2,
           Alive(u)', Unmerged(u)', fate'[j] # "stray", Marked(u, d, j)'
    PROVE  /\ Alive(u) /\ Unmerged(u) /\ fate[j] # "stray"
           /\ \/ Marked(u, d, j)
              \/ /\ Coming(u, d) /\ home[j] \in Slaves /\ caller[home[j]] = u
                 /\ st[home[j]] \in {"run", "stopping"}
<1>1. /\ Steady(u) /\ \A e \in 1..2 : Coming(u, e)' <=> Coming(u, e)
      /\ Alive(u)' <=> Alive(u)
    BY ExecuteSteady
<1>2. CASE UNCHANGED <<files, copy, store, safe, fate>>
  <2>1. SameFiles(u)
      BY <1>2 DEF SameFiles
  <2>2. MarksStay(u, j)
      BY <1>1, <1>2, <2>1, FilesRecords, MarksOf
  <2> QED
      BY <2>2 DEF MarksStay
<1>3. CASE ~(UNCHANGED <<files, copy, store, safe, fate>>)
  <2>1. PICK s, k, v : s = At /\ k = cl.key /\ v = cl.val
      OBVIOUS
  <2>2. /\ s \in Slaves /\ k \in Keys /\ st[s] \in {"run", "stopping"} /\ home' = home
        /\ \A x \in Slaves \ {s} : files'[x] = files[x]
        /\ files'[s].db[k] = v
        /\ \A i \in Keys \ {k} : files'[s].db[i] = files[s].db[i]
        /\ files'[s].dir = files[s].dir /\ files'[s].held = files[s].held
        /\ files'[s].data = files[s].data /\ files'[s].torn = files[s].torn
        /\ \A x \in Slaves, i \in Keys \ {k} : copy'[x][i] = copy[x][i]
        /\ \A x \in Slaves :
              copy'[x] = copy[x] \/ (caller[s] = x /\ Served(x) /\ x # s /\ ~Awaiting(x))
        /\ store'[k] = v /\ safe'[k] = {}
        /\ fate'[k] = IF home[k] # s \/ fate[k] = "stray" THEN "stray" ELSE "kept"
        /\ \A i \in Keys \ {k} :
              store'[i] = store[i] /\ safe'[i] = safe[i] /\ fate'[i] = fate[i]
      BY <1>3, <2>1, WriteFacts
  <2>3. /\ \A e \in 1..2 : Backup(files'[u], e) = Backup(files[u], e)
        /\ files'[u].dir = files[u].dir
      BY <2>2 DEF Backup
  <2>4. CASE j # k
    <3>1. files'[u].db[j] = files[u].db[j] /\ copy'[u][j] = copy[u][j]
        BY <2>2, <2>4
    <3>2. SameRecords(u, j)
        BY <2>3, <3>1 DEF SameRecords
    <3>3. safe'[j] = safe[j] /\ fate'[j] = fate[j]
        BY <2>2, <2>4
    <3>4. MarksStay(u, j)
        BY <1>1, <3>2, <3>3, MarksOf
    <3> QED
        BY <3>4 DEF MarksStay
  <2>5. CASE j = k
    <3>1. home[j] = s /\ fate[j] # "stray"
        BY <2>2, <2>5
    <3>2. (Copied(u, d)')[j] # None
        BY <2>2, <2>5 DEF Marked
    <3>3. Alive(u) /\ Unmerged(u)
        BY <1>1 DEF Steady
    <3>4. CASE copy'[u] = copy[u] \/ ~Coming(u, d)
      <4>1. Copied(u, d)' = Copied(u, d)
          BY <1>1, <2>3, <3>4 DEF Copied
      <4> QED
          BY <3>1, <3>2, <3>3, <4>1 DEF Marked
    <3>5. CASE copy'[u] # copy[u] /\ Coming(u, d)
        BY <2>2, <3>1, <3>3, <3>5
    <3> QED
        BY <3>4, <3>5
  <2> QED
      BY <2>4, <2>5
<1> QED
    BY <1>2, <1>3

LEMMA RolesExecute ==
    ASSUME ServiceStep, Execute, Roles
    PROVE  Roles'
<1>1. /\ ServiceInv /\ ClusterInv /\ OneDeparture
      /\ UNCHANGED <<mlist, st, todo, caller, callee, stops, home>>
    BY DEF ServiceStep, ServiceInv, PlacesInv, Execute, vars, masterVars, slaveVars, bounds
<1>2. \A u, n : Follows(u, n)' <=> Follows(u, n)
    BY <1>1, FollowsKept DEF Arriving
<1>3. \A u : Unsplit(u)' <=> Unsplit(u)
    BY <1>1 DEF Unsplit, Served
<1>4. SUFFICES ASSUME stops = 0, NEW u \in Slaves, NEW n \in Slaves, NEW m \in Slaves,
                      NEW k \in Keys, Alive(u)', fate'[k] # "stray",
                      Follows(u, n), Follows(n, m)
               PROVE  Part(u, n, m, k)'
    BY <1>1, <1>2 DEF Roles
<1>5. Alive(u) /\ Unmerged(u)' /\ home'[k] = home[k] /\ (Unsplit(m)' <=> Unsplit(m))
    BY <1>1, <1>3, <1>4 DEF Alive, Unmerged
<1>6. ASSUME NEW d \in 1..2, Marked(u, d, k)'
      PROVE  \/ Part(u, n, m, k) /\ Marked(u, d, k)
             \/ /\ home[k] # u /\ ~Unsplit(home[k])
                /\ d = 1 => home[k] = n
                /\ d = 2 => home[k] = m /\ home[k] # n
  <2>1. /\ fate[k] # "stray"
        /\ \/ Marked(u, d, k)
           \/ /\ Coming(u, d) /\ home[k] \in Slaves /\ caller[home[k]] = u
              /\ st[home[k]] \in {"run", "stopping"}
      BY <1>4, <1>5, <1>6, ExecuteMarks
  <2>2. Part(u, n, m, k)
      BY <1>4, <1>5, <2>1 DEF Roles
  <2>3. CASE /\ Coming(u, d) /\ home[k] \in Slaves /\ caller[home[k]] = u
             /\ st[home[k]] \in {"run", "stopping"}
    <3>1. PICK h \in Slaves : h = home[k]
        BY <2>3
    <3>2. st[h] = "run" /\ caller[h] = u
        BY <1>1, <1>4, <2>3, <3>1 DEF OneDeparture
    <3>3. callee[u] = h /\ h # NoSlave /\ Head(todo[u]) = d
        BY <1>1, <2>3, <3>2, SlaveFacts, NoSlaveAssumption DEF Calls, Coming
    <3>4. /\ callee[u] # u
          /\ Head(todo[u]) = 1 => callee[u] = n
          /\ Head(todo[u]) = 2 => callee[u] = m /\ callee[u] # n
        BY <1>1, <1>4, <1>5, <3>3, BackupPlace
    <3>5. ~Unsplit(h)
        BY <3>2 DEF Unsplit
    <3> QED
        BY <3>1, <3>3, <3>4, <3>5
  <2> QED
      BY <2>1, <2>2, <2>3
<1>7. 1 \in 1..2 /\ 2 \in 1..2
    OBVIOUS
<1> QED
    BY <1>5, <1>6, <1>7 DEF Part

\* The backups are where the list has them as long as no slave has left.
LEMMA RolesNext ==
    ASSUME ServiceStep, RecordsInv, Roles
    PROVE  Roles'
<1>1. SUFFICES ASSUME stops' = 0 PROVE Roles'
    BY DEF Roles
<1>2. /\ ServiceInv /\ ClusterInv /\ OneDeparture /\ stops = 0 /\ [ServiceNext]_allVars
    BY <1>1, StopsSteps DEF ServiceStep, ServiceInv, PlacesInv
<1>3. \A u \in Slaves : st[u] # "stopping"
    BY <1>2 DEF OneDeparture
<1>4. CASE PlainStep
    BY <1>1, <1>4, RolesPlain
<1>5. ASSUME NEW s \in Slaves, MergeBackup1(s) \/ MergeBackup2(s) PROVE FALSE
  <2>1. Polling(s) /\ Got(s, "RM_SLAVE")
      BY <1>5 DEF MergeBackup1, MergeBackup2
  <2>2. job.op = "del" /\ Calm
      BY <1>2, <2>1, RmFacts DEF ServiceInv, PlacesInv
  <2>3. job.s \in Slaves
      BY <1>2, <2>2, JobMoves
  <2>4. PICK x \in Slaves : x = job.s
      BY <2>3
  <2>5. st[x] = "stopping"
      BY <1>2, <2>2, <2>4, SlaveFacts DEF States
  <2> QED
      BY <1>3, <2>5
<1>6. ASSUME NEW s \in Slaves, Exit(s) PROVE FALSE
    BY <1>3, <1>6 DEF Exit, ExitSlave
<1> QED
    BY <1>2, <1>4, <1>5, <1>6, RecordSteps, RolesExecute, RolesJoin, RolesReceive,
       RolesClip, RolesBackup, RolesUpdate

\* Once a slave leaves, what is in a backup of a slave that has not heard of it
\* has been there before.
LEMMA MarksAfter ==
    ASSUME ServiceStep, RecordsInv, stops' # 0
    PROVE  \A u \in Slaves, k \in Keys : MarksStay(u, k)
<1>1. ServiceInv /\ [ServiceNext]_allVars
    BY DEF ServiceStep
<1>2. ASSUME NEW t \in Slaves, NEW s \in Slaves, ServeSlave(t, s), st[s] = "init",
             stops' = stops, NEW k \in Keys
      PROVE  MarksStay(t, k)
  <2>1. t # s /\ todo[s] # <<>> /\ Steady(t)
      BY <1>2, ServeFacts
  <2>2. ~Unmerged(t)
      BY <1>1, <1>2, <2>1, CallerMerged DEF Alive
  <2> QED
      BY <2>1, <2>2 DEF Steady, MarksStay
<1>3. CASE PlainStep
  <2>1. /\ \A u \in Slaves : Steady(u) /\ SameFiles(u)
        /\ UNCHANGED <<safe, fate>>
      BY <1>3, PlainFrame
  <2> QED
      BY <2>1, FilesRecords, MarksOf
<1>4. CASE Execute
  <2>1. SUFFICES ASSUME NEW u \in Slaves, NEW k \in Keys, NEW d \in 1..2,
                        Alive(u)', Unmerged(u)', fate'[k] # "stray", Marked(u, d, k)'
                 PROVE  Alive(u) /\ Unmerged(u) /\ fate[k] # "stray" /\ Marked(u, d, k)
      BY DEF MarksStay
  <2>2. stops # 0
      BY <1>4 DEF Execute, bounds
  <2>3. /\ Alive(u) /\ Unmerged(u) /\ fate[k] # "stray"
        /\ Marked(u, d, k) \/ Coming(u, d)
      BY <1>4, <2>1, ExecuteMarks
  <2>4. ~Coming(u, d)
      BY <1>1, <2>2, <2>3, CallerMerged DEF Coming
  <2> QED
      BY <2>3, <2>4
<1>5. ASSUME NEW t \in Slaves, NEW s \in Slaves, ServeClipData(t, s), NEW u \in Slaves,
             NEW k \in Keys
      PROVE  MarksStay(u, k)
  <2>1. ServeSlave(t, s) /\ stops' = stops
      BY <1>5 DEF ServeClipData, bounds
  <2>2. st[s] = "init" /\ (u # t => MarksStay(u, k))
      BY <1>5, ClipRecords
  <2> QED
      BY <1>2, <2>1, <2>2
<1>6. ASSUME NEW t \in Slaves, NEW s \in Slaves, ServeUpdateBackup2(t, s), ~PlainStep,
             NEW u \in Slaves, NEW k \in Keys
      PROVE  MarksStay(u, k)
  <2>1. ServeSlave(t, s) /\ Head(todo[s]) = -2 /\ stops' = stops
      BY <1>6, UpdateServes
  <2>2. st[s] = "init" /\ (u # t => MarksStay(u, k))
      BY <1>6, <2>1, UpdateFacts, UpdateRecords
  <2> QED
      BY <1>2, <2>1, <2>2
<1>7. ASSUME NEW t \in Slaves, NEW s \in Slaves, ServeBackup(t, s), NEW u \in Slaves,
             NEW k \in Keys
      PROVE  MarksStay(u, k)
  <2>1. CASE u # s
      BY <1>7, <2>1, BackupMarks
  <2>2. CASE u = s
    <3>1. ServeSlave(t, s) /\ stops # 0
        BY <1>7 DEF ServeBackup, bounds
    <3>2. todo[s] # <<>> /\ st' = st /\ (Unmerged(s)' => Unmerged(s))
        BY <3>1, ServeFacts
    <3>3. Alive(s) => ~Unmerged(s)
        BY <1>1, <3>1, <3>2, CallerMerged
    <3>4. Alive(s)' => ~Unmerged(s)'
        BY <3>2, <3>3 DEF Alive
    <3> QED
        BY <2>2, <3>4 DEF MarksStay
  <2> QED
      BY <2>1, <2>2
<1> QED
    BY <1>1, <1>3, <1>4, <1>5, <1>6, <1>7, RecordSteps, JoinMarks, ReceiveMarks,
       SuccessorRecords, SecondRecords, ExitRecords

\* The backups, with what they need: up to the first departure no key has got
\* into both backups of a slave, and after it nothing is put into them until
\* they are merged.
BackupsInv ==
    /\ RecordsInv /\ Roles
    /\ stops # 0 => \A t \in Slaves, k \in Keys : Separate(t, k)
    /\ \A t \in Slaves, d \in 1..2, k \in Keys : Backed(t, d, k)

LEMMA BackedNext ==
    ASSUME ServiceStep, RecordsInv, \A t \in Slaves, k \in Keys : Separate(t, k),
           \A t \in Slaves, d \in 1..2, k \in Keys : Backed(t, d, k)
    PROVE  \A t \in Slaves, d \in 1..2, k \in Keys : Backed(t, d, k)'
<1> SUFFICES ASSUME NEW u \in Slaves, NEW k \in Keys
             PROVE  \A d \in 1..2 : Backed(u, d, k)'
    OBVIOUS
<1>1. [ServiceNext]_allVars /\ ServiceTypes
    BY DEF ServiceStep, ServiceInv
<1>2. CASE PlainStep
    BY <1>1, <1>2, PlainFrame, FrameStep
<1>3. CASE Execute
    BY <1>3, ExecuteRecords
<1>4. ASSUME NEW s \in Slaves, JoinList(s), ~PlainStep PROVE \A d \in 1..2 : Backed(u, d, k)'
    BY <1>4, JoinRecords
<1>5. ASSUME NEW s \in Slaves, ReceiveRecords(s) PROVE \A d \in 1..2 : Backed(u, d, k)'
    BY <1>5, ReceiveKeeps
<1>6. ASSUME NEW s \in Slaves, MergeBackup1(s), ~PlainStep
      PROVE  \A d \in 1..2 : Backed(u, d, k)'
    BY <1>6, SuccessorRecords
<1>7. ASSUME NEW s \in Slaves, MergeBackup2(s), ~PlainStep
      PROVE  \A d \in 1..2 : Backed(u, d, k)'
  <2>1. Alive(s) /\ Unmerged(s) /\ Separate(s, k)
      BY <1>7, SecondRecords
  <2>2. fate[k] # "stray" => ~(Marked(s, 1, k) /\ Marked(s, 2, k))
      BY <2>1 DEF Separate
  <2> QED
      BY <1>7, <2>2, SecondRecords
<1>8. ASSUME NEW s \in Slaves, Exit(s) PROVE \A d \in 1..2 : Backed(u, d, k)'
    BY <1>8, ExitRecords
<1>9. ASSUME NEW s \in Slaves, NEW t \in Slaves, ServeClipData(s, t)
      PROVE  \A d \in 1..2 : Backed(u, d, k)'
    BY <1>9, ClipRecords
<1>10. ASSUME NEW s \in Slaves, NEW t \in Slaves, ServeBackup(s, t)
       PROVE  \A d \in 1..2 : Backed(u, d, k)'
    BY <1>10, BackupRecords
<1>11. ASSUME NEW s \in Slaves, NEW t \in Slaves, ServeUpdateBackup2(s, t), ~PlainStep
       PROVE  \A d \in 1..2 : Backed(u, d, k)'
    BY <1>11, UpdateRecords
<1> QED
    BY <1>1, <1>2, <1>3, <1>4, <1>5, <1>6, <1>7, <1>8, <1>9, <1>10, <1>11, RecordSteps

LEMMA BackupsNext ==
    ASSUME ServiceStep, BackupsInv
    PROVE  BackupsInv'
<1>1. ClusterInv /\ RecordsInv /\ Roles
    BY DEF ServiceStep, ServiceInv, PlacesInv, BackupsInv
<1>2. \A t \in Slaves, k \in Keys : Separate(t, k)
    BY <1>1, SeparateByRoles DEF BackupsInv
<1>3. \A t \in Slaves, d \in 1..2, k \in Keys : Backed(t, d, k)'
    BY <1>1, <1>2, BackedNext DEF BackupsInv
<1>4. stops' # 0 => \A t \in Slaves, k \in Keys : Separate(t, k)'
    BY <1>1, <1>2, MarksAfter, SeparateKept
<1> QED
    BY <1>1, <1>3, <1>4, RecordsNext, RolesNext DEF BackupsInv

LEMMA BackupsBegin ==
    ASSUME ServiceInit
    PROVE  BackupsInv
<1>1. stops = 0 /\ st = [s \in Slaves |-> "off"]
    BY DEF ServiceInit, Init
<1>2. Roles
    BY <1>1 DEF Roles, Alive
<1> QED
    BY <1>1, <1>2, ServiceBegins DEF BackupsInv

\* When nothing is under way, backup1 of the predecessor and backup2 of the
\* second predecessor of a slave (HandleUpdateBackup12, SplitByKey, Merge2Files)
\* have what the client was told is stored in it, of the keys whose records have
\* been copied since they were last written.  As in AnswersStay, an alarm goes
\* off only when nothing is under way, and so does a join or the one departure.
THEOREM BackupsStay ==
    ASSUME ~Overlap, MaxStops <= 1
    PROVE  ServiceSpec => []BackupsHold
<1>1. ServiceInit /\ PlacesInv => ServiceInv /\ BackupsInv
    BY ServiceBegins, BackupsBegin DEF ServiceInv
<1>2. ServiceInv /\ BackupsInv /\ PlacesInv' /\ [ServiceNext]_allVars
      => (ServiceInv /\ BackupsInv)'
  <2>1. ASSUME ServiceInv, BackupsInv, PlacesInv', [ServiceNext]_allVars
        PROVE  ServiceInv' /\ BackupsInv'
    <3>1. ServiceStep
        BY <2>1 DEF ServiceStep
    <3> QED
        BY <2>1, <3>1, BackupsNext, ServiceInvNext
  <2> QED
      BY <2>1
<1>3. ServiceSpec => []PlacesInv
    BY PlacesKept
<1>4. ASSUME ServiceInv, BackupsInv
      PROVE  BackupsHold
  <2>1. SUFFICES ASSUME Quiet, NEW k \in Keys, fate[k] = "kept", home[k] # NoSlave,
                        NEW d \in 1..2, mlist.num > d,
                        NEW n, n = mlist.nodes[(pos[home[k]] + mlist.num - d) % mlist.num].id,
                        <<n, d>> \in safe[k]
                 PROVE  Backup(files[n], d)[k] = store[k]
      BY DEF BackupsHold
  <2>2. ClusterInv /\ RecordsInv
      BY <1>4 DEF ServiceInv, PlacesInv, BackupsInv
  <2>3. PICK h \in Slaves : h = home[k]
      BY <1>4, <2>1 DEF ServiceInv, ServiceTypes
  <2>4. st[h] = "run"
      BY <2>1, <2>2, <2>3 DEF RecordsInv, Placed, Quiet
  <2>5. n \in Members(mlist) /\ n \in Slaves
    <3>1. pos[h] \in Positions(mlist) /\ IsSlaveList(mlist, Slaves)
      <4>1. MasterInv
          BY <2>2, SlaveFacts
      <4>2. job.op = "idle"
          BY <2>1 DEF Quiet, IdleJob
      <4> QED
          BY <2>2, <2>4, <4>1, <4>2, ServingFacts DEF MasterInv
    <3>2. PICK N, p : N = mlist.num /\ p = pos[h]
        OBVIOUS
    <3>3. N \in Nat /\ N > d /\ p \in 0..(N - 1)
        BY <2>1, <3>1, <3>2 DEF IsSlaveList, Positions
    <3>4. (p + N - d) % N \in Positions(mlist)
        BY <3>2, <3>3 DEF Positions
    <3>5. n = mlist.nodes[(p + N - d) % N].id
        BY <2>1, <2>3, <3>2
    <3> QED
        BY <3>1, <3>4, <3>5, NodeType DEF Members
  <2>6. st[n] = "run" /\ todo[n] = <<>>
      BY <2>1, <2>2, <2>5, SlaveFacts DEF States, Quiet, Unlisted
  <2> QED
      BY <1>4, <2>1, <2>5, <2>6 DEF BackupsInv, Backed, Alive, Copied, Coming
<1> QED
    BY <1>1, <1>2, <1>3, <1>4, PTL DEF ServiceSpec
=============================================================================
