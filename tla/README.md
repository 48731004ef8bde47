# A verification of DistributedDB

TLA+ models of DistributedDB (a small distributed key/value store in C), TLC
runs that check them on small instances, and TLAPS proofs of what matters most
for every size. Paths are relative to the repository; line numbers of every
modelled definition are in the `map` of `PROJECT.json`.

## The system

One *master* process keeps the list of *slave* servers. The slaves divide a ring
of `MAX_KEY` keys between them: slave `i` uses the keys after its own key up to
and including the next slave's. A *client* asks the master for the list, opens a
connection to every slave, and sends each command to the slave whose section
holds the key. Each slave backs up the data of the two slaves after it.

| Component | State | Operations | Talks to |
|---|---|---|---|
| Slave list, key placement (`server/master.c`, `ServerCtrl.h`) | `slaves`: version, num, nodes with their keys | `AddToSlaveList`, `DelFromSlaveList`, `FindLongestSection` | read by slaves and clients as copies |
| Membership protocol (`master.c`, `slave.c`) | master: list, request at hand, alarm handler; slave: copy of the list, position, handler at hand | ADD_SLAVE, DEL_SLAVE, NEW_SLAVE, RM_SLAVE, UPDATE_BACKUP12, CLIP_DATA, BACKUP, UPDATE_BACKUP2; SIGALRM and SIGINT handlers | blocking exchanges master–slave and slave–slave |
| Request pipeline of a slave (`dbserver.c`, `HandleRequest.c`) | receive buffer `szBuf`, queue, `MSG_SEM`, two worker threads | main loop; worker loop: dequeue, dispatch, execute, reply, save, close | clients; the database |
| Circular queue (`CircularQueue.c`) | `head`, `tail`, `Q` | `EnQueue`, `DeQueue` under a mutex, with assertions | main and workers |
| Connection handles (`serversocket.c`, `MemoryDB.c`) | `MDB`: socket → handle | `DBServiceStart/Stop`, `DBSendMsg`, `DBRecvMsg` | main and workers |
| Client routing and sessions (`client/netdbapi.c`) | copy of the list, sockets | `GetSocket`; open and close all, set/get/delete with retry (REDO) | master, slaves |
| Storage (`server/tcDB.c`) | Tokyo Cabinet files, table of open databases with counters | set/get/delete, `SplitByKey`, `Merge2Files` | workers, main |
| Backups and replication (`slave.c`) | the file and two backups of each slave, handles left open on them | CLIP_DATA, BACKUP, UPDATE_BACKUP2, the merges of RM_SLAVE | slaves, two at a time |
| File transfer (`SendFile`, `RecvFile`) | position in the file, on both sides | stop-and-wait exchange | the two slaves of a call |
| Sockets, packets (`common/`) | – | `SendMsg`, `RecvMsg`, headers | all |
| Command line (`dbclient.c`, `inputcmd.c`, `parseinput.c`) | the open database | parsing, printing | the client's API |

What is hard here: two worker threads and a main thread share a buffer, an
array and a table; the master and the slaves are single-threaded and wait for
each other with blocking receives; two signal handlers use the same sockets as
the code they interrupt; every process edits its own copy of the list; records
move between slaves, and backups are moved, split and merged, while clients with
old lists go on sending commands. The
`hazards` of `PROJECT.json` list these places line by line, each with the
properties aimed at it.

What makes the components correct: the list stays in ring order and every key
has exactly one owner, the same for the client's search and for the slave's
splitting of files; all copies of the list stay within one change of the
master's; every join, shutdown and request comes to an end; a request runs on
its own key with its own handle and is answered once; the queue's and the
protocol's assertions hold; a record that a client was told is stored stays with
the slave that clients ask for it, through every join and through a departure
once it was backed up; a database file is open as long as somebody uses it and
no longer; a file arrives as it was sent.

## Modules

| Module | Models |
|---|---|
| `SlaveRing` | The list as a value, and all code that computes with it: `GetLength`, `FindLongestSection`, `AddToSlaveList`, `DelFromSlaveList` (master), `AddNewSlave`, `RemoveSlave` (slave), `GetSocket` (client), the record condition of `SplitByKey` (storage). Operators only. |
| `MasterList` | The list as a state machine, `AddSlave` and `DelSlave`: the abstract specification of membership. |
| `SlaveRingProofs` | Lemmas about the list. |
| `MasterListProofs` | Theorems about `MasterList`. |
| `Cluster` | The membership protocol, which implements `MasterList`. |
| `ClusterProofs` | Theorems about `Cluster`. |
| `CircularQueue` | The array and its operations, for the two modules below. |
| `BoundedQueue` | Abstract specification of a bounded first-in first-out queue. |
| `CircularQueueProofs` | Lemmas about the array, and theorems about `OneConsumer`. |
| `OneConsumer` | `CircularQueue` used by one producer and one consumer, which implements `BoundedQueue`. |
| `RequestPipeline` | The main thread, workers, handles and clients of one slave, on `CircularQueue`. |
| `RequestPipelineProofs` | Theorems about `RequestPipeline`. |
| `FileTransfer` | One transfer of a file between two slaves, packet by packet. |
| `FileTransferProofs` | Theorems about `FileTransfer`. |
| `OpenedDB` | The table of open databases of a slave process and the threads that use it. |
| `OpenedDBProofs` | Theorems about `OpenedDB`. |
| `SlaveFiles` | The files of one slave, and what the slave calls and the merges do to them. Operators only. |
| `Service` | The composition: `Cluster`, the `SlaveFiles` of every slave, and a client with its copy of the list, its retries and its commands. |
| `ServiceProofs` | Theorems about `Service`. |
| `MC*` | Instances for TLC. |

Definitions whose comment begins with *Mutant* are plausible mistakes in the
definition that follows; `PROJECT.json` says which property each one breaks.

### How state and actions correspond to the code

*`SlaveRing`*. A node is its key and an identity, which stands for ip, port and
sock. `version` wraps at `UINT_RANGE` (an `unsigned`). Keys keep C's arithmetic;
all operands of `%` are non-negative in the code's use. A client compares
`key % MAX_KEY`, `SplitByKey` the stored key.

*`Cluster`*. `job` is the master's progress through `HandleRequest` and
`NotifyAll`; any message from the right slave counts as the reply, as in the
code. `Alarm` may interrupt the master between any two of its steps, and the
master does not continue before `AlarmReply`. `eintr` is `errno`, which nothing
resets. A slave's `todo` is the list of calls left in its handler, as the `k` of
`CommunicateToSlave` (0: reply to UPDATE_BACKUP12); `callee` and `caller` say who
is bound to whom by a call and its file transfer. `StopSlave` is SIGINT between
the steps of a handler, `StopInHandler` between the receipt of a message and the
reply to it. Alarm in the middle of the shift loop of `AddToSlaveList` is not
modelled: it would reach the same slaves in another order. GET_LIST changes no
state and is left out. A process never dies by itself: the code has no handling
of it (HEARTBEAT is unused). The files are left to `Service`; the one database is
`a.db`, the initial `file_master`, which `SplitByKey` makes if it is not there, so
`SendFile` finds its file.

*`RequestPipeline`*. One step per access to shared state: `RecvMsg` fills
`szBuf`, `LookUp` reads MDB, `QueueMessage` is `EnQueue` and then `sem_post`;
a worker's `TakeNode`, `LoadNode`, `Dispatch`, `Execute` read the queue, the slot
behind the returned pointer, and `szBuf`, each when the code does. A node's `buf`
always is `szBuf` and is not stored. The handle that `DBServiceStart` saves is
uninitialised: the value "garbage". `crash` is the assertion, null pointer or
signal that ended the process. SET, GET and DEL are one command `OP`. Messages
between slaves take the main thread alone and are left to `Cluster`.

*`FileTransfer`*. The receiver has sent CLIP_DATA or BACKUP and waits; `Announce`
is `SendFile` up to the first `ExchangePacket`, and each later `ExchangePacket` is
its two halves, `SendBlock` and `RecvAck` on one side, `AskForBlock` and
`RecvBlock` on the other. The cases of failure are the code's: no file
(`Announce`), no place for the copy (`RecvInfo`), a full disk (`RecvBlock`),
`recv` returning 0 (`AckLost`, `InfoLost`). When `fopen` of the copy fails `RecvFile`
goes on with a null pointer (`opened`), which ends the process in the first `fwrite`
(`RecvBlock`) or, if the file is empty, in `fclose` (`CloseFile`), after the last
FILETRANS_R has gone out. `WriteFile` is a worker
that stores a record in the file while it is read.

*`OpenedDB`*. `table` is `mdb`, which gives out copies of its entries: `podb` is
such a copy. Names and paths are told apart, because the code spells the same
file with one slash (UPDATE_BACKUP2) and with two (`Merge2Files`), which the table
takes for two databases and Tokyo Cabinet for one; it refuses the second open.
Steps under `DBMUTEX` are split where the copy is taken and where it is put back,
to make the mutex matter. The table and the mutex are made by the first call, without
a lock: `raced` remembers that a second call came meanwhile (`tcDB.c:235`). The
properties are promised until then; `AlwaysFound` below is what may fail after it.

*`SlaveFiles`*. A file is a map from keys to values. The two backups are directory
entries for files (`dir`), because the shell moves and removes entries while
handles (`held`, left open by `Merge2Files`) stay on the files. `fopen` with "w"
overwrites in place: a file that changes under an open handle is `torn`, and a
later walk through that handle may find a record, miss it, or fault.

*`Service`*. Each step of `Cluster` that carries a file is conjoined with what it
does to the files: `ServeClipData`, `ServeBackup`, `ServeUpdateBackup2` on the side
of the slave that is called, `ReceiveRecords` on the caller's, `MergeBackup1` and
`MergeBackup2` in RM_SLAVE. The copy of a file is taken when the call is served
and written when it returns; a worker that stores a record in between may get into
the copy or not (`Execute`). The client is one process: `OpenCommand`,
`SetCommand`, ... are the lines it reads (`Parse` refuses them in any other state
without a change), then `ReadCloudNodes`, `OpenNode`, `AllOpen`, `Send`, and the
replies: `Accept` (queued, or UPDATE_VERSION), `Execute`, `ConnectionLost`, and the
REDO loop through `CloseNode` and `AllClosed`. Between `Accept` and `Execute` the
command is in the queue of the slave, whose main thread goes on with other
requests. `OpenNode` keeps an oddity of the code: after a failed `recv` the buffer
still holds OPEN_R of the node before. `store` and `fate` are what the client was
told, `home` the slave that has a key's record by the calls that were made, and
`safe` the backups that were copied, moved or split off since the last write;
no step depends on these four. `Service` is checked with one membership change or
alarm at a time (`Overlap = FALSE`): each begins when nothing else is under way. The
code's SIGALRM and SIGINT are not so confined; overlapping ones end in failed
assertions, which `Cluster` shows. Only the client's commands come at any time. There is one client: `RequestPipeline` has several, and what they
do to each other there is not the subject here. Records of different keys do not
touch each other in any step, so that one key is enough, and the bounds vary its
place in the ring.

## Runs

| Run | Instance | Shows |
|---|---|---|
| `list` | 5 slaves, ring of 5 keys, version modulo 3, any first key | `TypeOK`; `RingOrdered`: no key twice, once around the ring; `UniqueOwner`: the assertion of `GetSocket`; `RingKeysSplit`: storage and client agree on sections; `KeysMoveToNeighbour`: a join or leave moves keys only between the slave and its predecessor. |
| `queue` | array of 4, 2 items | `ImplementsQueue`: the array refines the abstract queue, and the pointer returned by `DeQueue` stays good until the next call. |
| `pipeline_stable` | 2 clients that stay, 2 workers, array of 3 | `SemTracksQueue`, `NeverEmpty`, `NeverFull`: semaphore, queue and both assertions; `RepliesConserved`: as many answers under way as clients wait; `RequestsServed`: as long as requests are queued or have arrived, replies go out, unless the process dies. Which client gets a reply is another matter: see `Answered` below. |
| `pipeline_leave` | 1 client that may leave, 1 that stays, 1 worker, array of 3 | The same agreement of semaphore and queue while connections close. |
| `cluster_calm` | 4 slaves, one change at a time, no alarm | `JoinCompletes`, `StopCompletes`, `AssertionsHold`. |
| `cluster_overlap` | 3 slaves, changes and alarms at any time | `OneChangeApart`, `ListsAgree`, `RightSlaveLeaves`, `CallReplyAsserted`; `ImplementsList`: the protocol implements `MasterList`. |
| `file_transfer` | files of 0 to 5 bytes, 2 to a packet | `Intact`: a file nobody wrote to arrives byte by byte, at every length; `SameOutcome`: both sides agree on success, but for an empty file whose copy cannot be opened; `NeverStarved`: the receiver never asks a sender that has ended; `TransferEnds`. |
| `opened_db` | 2 threads, 3 users, 2 files, one with two names; up to a race for the making of the table | `CountsUsers`: the counter is the number of users and they share one handle; `HandlesOpen`: nobody's database is closed by another; `NothingLeftOpen`; `EntryFound`: only that race makes `DelOpenedDB` miss its entry; `CallsReturn`. |
| `service` | 3 slaves, 1 key, 2 places of the first slave, 1 departure, 1 alarm, one of these at a time, SET and DEL | `AnswersKept`: what was answered stays stored; `RecordsWhereRouted`: at rest, the `a.db` of the slave that clients ask has what they were told; `BackupsHold`: at rest, the backups have what was copied; `AcceptedAtHome`: comparing versions is enough to queue a command only where the record is. |
| `service_live` | 2 slaves, 2 departures, 1 alarm, all commands | `CommandReturns`: every command of the client returns. |
| `shared_buffer` | 2 clients, 2 workers | *Violated*: a command runs with the message of another client. |
| `second_leave` | as `service`, 2 departures, no alarm | *Violated*: `AnswersKept`. A slave whose successor leaves for the second time merges through the handle of the first merge, which is on another file by now, and the records that `backup1` holds are lost. |

`AnswersKept` leaves out, by `fate`, a write that no backup had when its slave left
(backups are renewed by the alarm, so this is a limit of the design) and a command
that a slave executed after it had passed the record on; and `CommandReturns` a
client that is left with a node it could not open (`astray`), one whose list is
empty (the assertion of `GetSocket`), a server that has aborted, and a slave that
hangs in its shutdown after an alarm.

Each violated property quotes the repository (`findings` in `PROJECT.json`). More
statements that one would expect are false. They are kept as definitions without a
run; to see one fail, put it into the cfg named:

| Statement | Cfg | Why it is false |
|---|---|---|
| `StoredKeysSplit` | `MCMasterList` | For keys of `MAX_KEY` and above `SplitByKey` (`tcDB.c:173`) compares the stored key, `GetSocket` (`netdbapi.c:145`) the key modulo `MAX_KEY`. |
| `NeverFull` | `MCPipelineLeave` | End-of-file on a socket is queued as a message again and again (`dbserver.c:92`) until `EnQueue` asserts. |
| `HandleFromOpen` | `MCSharedBuffer` | The reply to OPEN leaves before the handle is saved (`serversocket.c:65`). |
| `OneAnswerEach` | `MCSharedBuffer` | With two workers a slot is refilled before it is read through the pointer. |
| `Answered` | `MCPipelineStable` | As `OneAnswerEach`: when a worker's node is overwritten before it is read (`CircularQueue.c:48-52`), another client gets the reply, and the one whose request it was waits for ever. With one worker it is true. |
| `AddReplyAsserted` | `MCClusterOverlap` | An alarm reaches a slave before the answer to its ADD_SLAVE. |
| `DelReplyAsserted` | `MCClusterOverlap` | A slave that gets SIGINT during an announcement finds it in place of DEL_SLAVE_R (`slave.c:431`). |
| `StopCompletes` | `MCClusterCalm`, 3 slaves, `AlarmOn = TRUE` | `errno` stays EINTR after an alarm (`master.c:256`), and shutdowns are ignored from then on. |
| `StopCompletes` | `MCClusterCalm`, 3 slaves, `Overlap = TRUE` | DEL_SLAVE is taken for another reply, or master, caller and stopping slave wait in a circle. |
| `ExecutedAtHome` | `MCService` | A command is queued, CLIP_DATA splits the file, and the command then runs where the record no longer is (`slave.c:277`). |
| `BackupsOpen` | `MCService`, `FourSlaves`, `AlarmOn = FALSE`, `Commands = {}` | UPDATE_BACKUP2 in a slave that has merged before: the path is still open, `DBCreate` returns NULL, and `SplitByKey` follows it (`slave.c:310`). |
| `AlwaysFound` | `MCOpenedDB` without its CONSTRAINT | Two first calls of `DBCreate` make two tables (`tcDB.c:235`): the entry of the first is lost with its table, and `DelOpenedDB` follows a null pointer instead of returning 1. |
| `AnswerAsserted` | `MCFileTransfer` | Without the file `SendFile` sends no reply (`slave.c:101`). |
| `SuccessShared` | `MCFileTransfer` | For an empty file `fclose` of the null pointer comes after the FILETRANS_R that lets `SendFile` return 0 (`slave.c:165-167`). |

Deadlock checking is off where the system may stop: all slaves have exited, all
clients have gone, or a process has aborted.

### Bounds

Five keys and five slaves fill the ring, so that sections of length one, wrapped
sections and a full ring occur; version modulo 3 makes the counter wrap. An array
of 3 is full with 2 nodes and wraps at once; two workers suffice for every race
between workers, two clients for a message of another client. `MaxReplies` bounds
a socket's buffer, where `send` blocks. Three slaves are the fewest with a second
successor; in `cluster_calm` a fourth makes the calls that follow a removal real.
The first key is 0 in the cluster runs (`KeyZero`): the protocol does not look at
keys, and another one rotates the ring. A ring of 4 keys makes
two sections equally long, so that the third slave goes before the second and
positions shift. `UINT_RANGE` is 100 there, more than the
changes a behaviour can make. A slave process is started once.

In `file_transfer` five bytes, two to a packet, give every length from empty over
exactly one and two packets to a last packet that is not full, and room to grow.
In `opened_db` three users make a counter of three and a close that overlaps an
open and a count. TLC does not go on behind a race for the making of the table
(`UntilRaced`): `raced` stays true and satisfies every property of the run. In `service` key 2 lies at the bound of a section with
first key 0, and inside one with first key 3, where its record moves with the
third and with the second join; one departure after
two joins, with an alarm between changes and writes anywhere, gives each slave every part
(the one that leaves, its predecessor, its second predecessor). `MaxStops` is 1
because of what `second_leave` shows. With four slaves a slave can also be none of
these: the same properties hold there for one departure, without alarm, with SET
only, `MAX_KEY = 8` and `FirstKeys = {1}` (260,943 states); this instance is not a
run of its own.

### Fairness

`Cluster!FairSpec`: weak fairness of the master's steps and of each slave's: a
process whose message has arrived runs. Nobody has to start or stop a slave, and
the alarm may stay away. `RequestPipeline!FairSpec`: weak fairness of each
thread of the server; strong fairness of `RecvMsg` for each connection, because epoll
keeps its ready sockets in a list it goes through in turn, one event per `epoll_wait`.
No client has to send, or to read its reply.
`FileTransfer!FairSpec`: weak fairness of the two processes; workers need not
write. `OpenedDB!FairSpec`: weak fairness of each thread and strong fairness of the
two steps that lock `DBMUTEX`: a thread that waits for a mutex that is released
again and again gets it some time. POSIX does not promise this; it is an assumption
on the scheduler. `Service!FairServiceSpec`: weak fairness of the master, of each
slave's main thread, of the worker, and of the client between two lines of input;
nobody has to type, start or stop anything, and alarms may stay away.

## Proofs

One module of theorems per component, and `SlaveRingProofs`, the lemmas about the
list that several need. The
inductive invariants, or the parts they are made of, were checked with TLC before
they were proved.

`SlaveRingProofs`, `MasterListProofs`, for every `MAX_KEY`, every `UINT_RANGE`, and
every finite set of at most `MAX_KEY` slaves (`SlavesAssumption`). The array of the
list is as long as needed there; that it has `MAX_SLAVE_NUM` (32) nodes in the code,
and that `AddToSlaveList` does not check this, is not modelled:

* `ListInvariant`: `ListInv` is invariant. It is that the list is well formed and
  `Ordered`: from node 0, the distances along the ring strictly increase, and no
  slave is listed twice. It is inductive as it stands. The step that needs an
  argument is a join: the section lengths add up to the ring, so while fewer than
  `MAX_KEY` slaves are listed the longest section has length at least 2
  (`LongestHasRoom`, from `LengthIsGap`), its half is strictly inside
  (`Half`, `DistAdvance`), and the new node goes between its neighbours
  (`AddOrdered`), also when the longest section is the last one and wraps.
* `TypeCorrect`, `RingOrder`, `OneOwner`, `SplitAgrees`: the run's `TypeOK`,
  `RingOrdered`, `UniqueOwner` and `RingKeysSplit` follow. `OneOwner` goes by the
  distance of the key from node 0, which lies between those of exactly one pair of
  neighbours (`SectionByOffset`, `OneHolder`).
* `OnlyNeighboursMove`: the action property `KeysMoveToNeighbour`. A join splits
  one section in two and leaves the others as they are (`AddMoves`); a leave joins
  two sections (`DelMoves`).

`CircularQueueProofs`, for every `MAX_QUEUE_LEN` ≥ 2 and every set of items. Its
lemmas say what `EnQueue` and `DeQueue` do to the count and to the contents
(`EnQueueContents`, `DeQueueContents`) and that a full array has
`MAX_QUEUE_LEN - 1` nodes (`FullCount`); `RequestPipelineProofs` needs them too, which
is why the definitions of `OneConsumer` have names of their own (`UsageSpec`):

* `QueueTypes`: `UsageTypeOK` is inductive as it stands; its last part is that the slot
  the consumer reads is just behind `head`.
* `QueueRefinement`: `ImplementsQueue`, with the contents from `tail` to `head` as
  the abstract queue and the slot behind `pnode` as the item taken. That `EnQueue`
  spares that slot is what leaving one slot empty is for.

`RequestPipelineProofs`, for all finite sets of clients and workers and every
`MAX_QUEUE_LEN` ≥ 2:

* `PipelineInvariant`: `PipelineInv` is invariant. `SemTracksQueue` alone is not
  inductive, because `DeQueue` changes `Count` by one only when the queue is not
  empty; with the positions inside the array and the threads' records well formed
  it is. The argument: `EnQueue` and `DeQueue` change `Count` by one
  (`EnQueueCount`, `DeQueueCount`); `sem_wait` moves a unit from the semaphore to
  the set of workers before `DeQueue`, whose finite cardinality changes by one
  (`SemWaitInv`, `TakeNodeInv`); a worker in that set makes `Count` positive.
* `SemaphoreTracksQueue`, `DeQueueAssertion`: the runs' `SemTracksQueue` and
  `NeverEmpty` follow.
* `PipelineTypes`, `TypeCorrect`: `TypeOK`. It needs more than types: the slots
  between `tail` and `head`, and the one each worker points to, hold nodes
  (`Filled`); a worker that dispatches has a node (`Locals`); before the first
  message nothing is queued, so that no worker reads `szBuf` (`Untouched`).
* `StayInvariant`, `EachRequestOneReply`, `EnQueueAssertion`: with clients that stay
  (`MayLeave = {}`), `RepliesConserved`; and `NeverFull` when there are also fewer
  clients than `MAX_QUEUE_LEN`. `Staying` says that all connections in sight are
  open ones and that nobody sends CLOSE. Each step then takes a request from one
  finite set of places and puts it into another, and each cardinality changes by
  one. A full queue would be `MAX_QUEUE_LEN - 1` requests and main's one more, as
  many as the array is long. Both hypotheses are needed: a client that leaves, or as
  many clients as the array is long, can make `EnQueue` assert.

`FileTransferProofs`, for every set of bytes, every `APPENDSIZE` ≥ 1 and every file:

* `TransferInvariant`. `Turn` lists where the two sides can be together, with what is
  under way between them: they take turns, and the ten cases are all there is.
  `Counted` ties `finish` of the sender to what the receiver has written and what is
  under way, and says that the packet of `Announce` promised no more than the file has, which
  only grows. `Matching`: copy and data under way repeat a file nobody wrote to.
* `TypeCorrect`, `WholeFile`, `ReceiverServed`, `OutcomesAgree`: `TypeOK`, `Intact`,
  `NeverStarved`, `SameOutcome` follow. The exception in `SameOutcome`, an empty file
  whose copy could not be opened, is real: `SuccessShared` is false.

`OpenedDBProofs`, for finite sets of threads and users, every set of names and
files and every spelling of files by names, until two calls race for the making of the table
(`raced`; behind that `AlwaysFound` is false):

* `TableInvariant`. The table is changed under the mutex (`CountUser`,
  `ReleaseUser`) and without it (`AddOpenedDB`), and files are opened and closed
  without it. What keeps them apart is that every open file has exactly one
  keeper (`OneKeeper`, `Kept`): an entry, or a thread between opening and adding
  or between deleting and closing. `Locked`: the holder of the mutex has a copy
  that is still the entry. `Counted`: the counter is the number of its holders, a
  finite set that changes by one user a step.
* `TypeCorrect`, `CountsExact`, `HandlesStayOpen`, `LastUserCloses`, `HandleFound`:
  `TypeOK`, `CountsUsers`, `HandlesOpen`, `NothingLeftOpen`, `EntryFound` follow. The
  last one says that the race is the only way to lose an entry.

`ClusterProofs`, for every finite set of at most `MAX_KEY` slaves,
with joins, departures and alarms at any time (`ClusterAssumption`):

* `ClusterInvariant`. The invariant counts. The master waits for one message of a
  slave for each request it has sent it, at most two (`Due`: `NotifyAll` and the
  alarm handler). A slave that serves has for each the request in its queue, the
  reply still to send (`Owed`), or the reply on its way (`Connected`). Hence the
  message that `NotifyAll` or the alarm handler takes for its reply, whichever it
  is, leaves no announcement unhandled: a slave is either `Behind` the change at
  hand and has the list before it, or it has the list after it (`Agrees`). A slave
  that leaves has sent DEL_SLAVE as its last message (`Goodbye`); when its position
  is out of date, the replies it did not send make the master take DEL_SLAVE for one
  of them. A slave that has exited is in nobody's list, so that nobody who goes on
  waits for it (`ExitStep`).
* `TypeCorrect`, `ListsSettle`, `OneChange`, `CallsAnswered`, `StoppedSlaveLeaves`:
  `TypeOK`, `ListsAgree`, `OneChangeApart`, `CallReplyAsserted` and the action
  property `RightSlaveLeaves` follow.
* `ListRefinement`: `ImplementsList`. Only `AddSlaveRequest` and `FinishRequest` change
  the master's list; the first adds a slave that is not in it, because `Asking` slaves
  are unlisted, and the second removes one that is.
* `RepliesExpected`: with `Overlap = FALSE`, `AssertionsHold`. `Calm` is the addition:
  one slave joins or leaves at a time, no alarm is under way meanwhile, and a slave
  that leaves is sent nothing but DEL_SLAVE_R.

`ServiceProofs`, on `ClusterProofs`, for every set of keys, of values and of places in
addition:

* `ServiceProtocol`: `ClusterInv` is invariant in `Service` too. Its steps are steps of
  `Cluster`, steps that change no variable of it, or the crash of a merge
  (`ServiceSteps`); so what is proved from `ClusterInv` holds beside the client, the
  files and the crashes.
* `ServiceTypeCorrect`: `ServiceTypeOK`, also with overlapping changes. `ClientTypes` is
  what the client needs of its place for it: a command that is sent has a key, and a
  list with a slave in it.
* `RecordsRouted`: with `Overlap = FALSE`, `MaxStops <= 1`, and any number of slaves,
  keys and joins, `RecordsWhereRouted`: the `a.db` of the slave that `GetSocket`
  chooses has what the client was told. That the home of a key is that slave
  (`KeysRouted`) holds after any number of departures; what the home's file has is
  `RecordsInv`, below, and `second_leave` shows it false after two. The property
  speaks of moments when nothing is under way; the invariant `Homes` says where the records are at all others:
  where the master's list routes them, without the slave that has joined and not been
  given its records (`Arriving`), and without the slave that leaves once its
  predecessor has merged its backup (`TakenOver`). That CLIP_DATA goes to the right
  slave needs `Errand` (who calls whom), that the right slave merges needs `Agrees`
  (`RoleIsPlace`), and that the sections fit needs `AddMoves` and `DelMoves` of
  `SlaveRingProofs` (`ClipRoutes`, `MergeRoutes`). `Calm` excludes a second change.
* `AcceptedWhereStored`: with `Overlap = FALSE` and `2 * Cardinality(Slaves) <
  UINT_RANGE`, the action property `AcceptedAtHome`: comparing versions is enough. The
  second hypothesis says that fewer than 2^31 slaves are ever started; each joins and
  leaves once, and `Changes` counts these, so that the unsigned version does not come
  round. `Seen` says what the version of a client's list tells: one that is the
  master's belongs to the master's list, and one less, while a slave joins, to the
  list without it. A slave that runs has one of these two or, when it has heard of a
  departure, a newer one, and then it refuses (`AcceptedList`). A key of either list
  has its record where that list routes it, by `Homes` (`HomeOfCurrent`,
  `HomeBeforeJoin`).

* `AnswersStay`: with `Overlap = FALSE`, `MaxStops <= 1`, and any number of slaves, keys,
  joins, alarms and writes, `AnswersKept`. `Overlap = FALSE` lets an alarm, a join or a
  departure begin only when nothing else is under way (`Quiet`), which the code does not
  ensure: its SIGALRM may come in the middle of a join. Writes come at any time. The property is about the file of a key's
  home; what a merge makes of that file depends on backups and on files under way. The
  invariant `RecordsInv` speaks of the records as they will be when what is on its way
  has arrived (`Db`, `Copied`). Its parts, slave by slave and key by key: the home serves
  or is being sent its records (`Placed`) and has what the client was told (`Answered`);
  until it hears of a departure, no other slave has a record of the key, and no slave has
  one of its own in `backup1`, so that a merge brings back nothing old (`Alone`);
  `backup1` has what the key holds when it was copied since the last write (`Backed`); and no handle is left open until
  the first merge, after which a walk through a file finds what is in it (`Tidy`).
  `Chores` says which calls a slave has left, `OneDeparture` that no backup is renewed
  between a departure and the merge. A step that changes no file keeps all of this
  (`FrameStep`, with `Steady` for the slaves' own state); each other step has a lemma
  of its own (`JoinRecords`, `ClipRecords`, `BackupRecords`, `UpdateRecords`,
  `ReceiveKeeps`, `SuccessorRecords`, `SecondRecords`, `ExitRecords`, `ExecuteRecords`).
  `MaxStops <= 1` cannot be dropped: `second_leave` shows the property false with two.
* `BackupsStay`: under the same hypotheses, alarms included, `BackupsHold`. `Backed` of the second backup
  is not inductive by itself: the second predecessor merges its two backups, and of a
  key in both only one record would be left. That no key is in both (`Separate`) follows from
  whose records each backup has (`Roles`): those of the next slave in the first, those
  of the slave after it in the second, where a slave that waits for its records is
  passed over (`Follows`), and what a slave got from its predecessor stays in `backup1`
  of the second one before until its UPDATE_BACKUP2 (`Unsplit`). `Roles` is true
  while no slave has left: a departure changes who comes next before the backups are
  renewed. From the departure on `Separate` is kept because nothing is put
  into a backup until it has been merged (`MarksAfter`). In `BackupsInv`, `Roles`
  therefore has the hypothesis `stops = 0` and `Separate` the opposite one.

With these every invariant, every action property and both refinements that a passing
run checks are proved. Only model-checked are the liveness properties
(`JoinCompletes`, `StopCompletes`, `RequestsServed`, `TransferEnds`, `CallsReturn`,
`CommandReturns`): fairness and ENABLED are out of the prover's reach. The
violated properties are false, and so have no theorem.

## Not modelled, and plan

Next would be `Service` with several clients, and a weaker promise for overlapping
changes, where the assertions of `Cluster` fail.

Not modelled: `Service` with overlapping membership changes, with alarms in the middle
of one, and with several clients; the 32 nodes of the list's array, and what a 33rd
overwrites; the result of `fclose` in `RecvFile`, which the code ignores, so that data
lost when the C library flushes it is lost silently; `pthread_cancel` of a thread that
was never made (`slave.c:429`), taken to return an error without effect; a client after its reopening has failed half way (the descriptors it uses
are whatever the array holds); packets that `recv` delivers in parts, and the
contents of a database file that is copied while it is written, both of which
depend on byte layouts.

Left out for good: parsing and printing (pure input and output, no shared state),
set-up of sockets, byte layout of packets, Tokyo Cabinet itself.
