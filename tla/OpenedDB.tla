------------------------------ MODULE OpenedDB -------------------------------
(***************************************************************************)
(* The table of open databases of a slave process (server/tcDB.c): several *)
(* threads open and close files by name, share the one TCHDB object of a   *)
(* file, and count its users.  GetOpenedDB and DelOpenedDB hold DBMUTEX;   *)
(* the opening of the file, AddOpenedDB, and the closing of the file do    *)
(* not.  The table itself is made by the first call, without the mutex: a  *)
(* second call that comes meanwhile makes a table of its own, or takes the *)
(* mutex before it is initialised.  The history variable raced remembers   *)
(* that this has happened; what the module promises is promised until      *)
(* then, and that nothing else can break it.                               *)
(*                                                                         *)
(* A user is whoever DBCreate returns a handle to, a client's connection   *)
(* or a call of SplitByKey; one thread at a time works for it.  The        *)
(* library refuses to open a path that the process has open already.       *)
(***************************************************************************)
EXTENDS Integers, FiniteSets

CONSTANTS Threads,      \* the main thread and the workers
          Users,        \* who opens databases
          Names,        \* the spellings of file names
          Paths,        \* the files they stand for
          Path          \* the file of a name

ASSUME OpenedDBAssumption == /\ IsFiniteSet(Users) /\ IsFiniteSet(Threads)
                             /\ "" \notin Names         \* marks no handle
                             /\ "free" \notin Threads   \* marks a free mutex
                             /\ Path \in [Names -> Paths]

VARIABLES
    ready,      \* whether mdb is not NULL
    table,      \* mdb: the entry of each name, hdb and counter
    mutex,      \* DBMUTEX: the thread that holds it
    file,       \* the TCHDB object that has each file open (0: none)
    pc,         \* where each thread is
    job,        \* for whom, and on which name
    podb,       \* the copy of the entry that it got
    handle,     \* what DBCreate returned to each user
    crash,      \* a null pointer was used
    raced       \* history: a call came while another one made the table

vars == <<ready, table, mutex, file, pc, job, podb, handle, crash, raced>>

Free == "free"
NoEntry == [hdb |-> 0, counter |-> 0]
NoHandle == [name |-> "", hdb |-> 0]
NoJob == [user |-> "", name |-> ""]

\* The objects that tchdbnew may return: one more than there can be in use.
Hdbs == 1..(Cardinality(Users) + Cardinality(Threads) + 1)

Init == /\ ready = FALSE
        /\ table = [n \in Names |-> NoEntry]
        /\ mutex = Free
        /\ file = [p \in Paths |-> 0]
        /\ pc = [t \in Threads |-> "idle"]
        /\ job = [t \in Threads |-> NoJob]
        /\ podb = [t \in Threads |-> NoEntry]
        /\ handle = [u \in Users |-> NoHandle]
        /\ crash = FALSE
        /\ raced = FALSE

At(t, where) == ~crash /\ pc[t] = where
Goto(t, where) == pc' = [pc EXCEPT ![t] = where]

\* The call returns: the user gets h, or nothing.
Return(t, h) == /\ Goto(t, "idle")
                /\ job' = [job EXCEPT ![t] = NoJob]
                /\ podb' = [podb EXCEPT ![t] = NoEntry]
                /\ handle' = [handle EXCEPT ![job[t].user] = h]

\* No thread works for u.
Waiting(u) == \A t \in Threads : job[t].user # u

-----------------------------------------------------------------------------
(* DBCreate.                                                               *)

BeginCreate(t, u, n) ==
    /\ At(t, "idle") /\ handle[u] = NoHandle /\ Waiting(u)
    /\ Goto(t, "get")
    /\ job' = [job EXCEPT ![t] = [user |-> u, name |-> n]]
    /\ UNCHANGED <<ready, table, mutex, file, podb, handle, crash, raced>>

\* Another thread is making the table, or has yet to initialise the mutex.
Making(t) == \E s \in Threads \ {t} : pc[s] \in {"init", "mutex"}

\* GetOpenedDB finds mdb NULL, makes the table, and initialises the mutex.
InitTable(t) ==
    \/ /\ At(t, "get") /\ ~ready
       /\ Goto(t, "init")
       /\ raced' = (raced \/ Making(t))
       /\ UNCHANGED <<ready, table, mutex, file, job, podb, handle, crash>>
    \/ /\ At(t, "init")
       /\ ready' = TRUE
       /\ table' = [n \in Names |-> NoEntry]
       /\ Goto(t, "mutex")
       /\ UNCHANGED <<mutex, file, job, podb, handle, crash, raced>>
    \/ /\ At(t, "mutex")
       /\ mutex' = Free
       /\ Goto(t, "open")
       /\ UNCHANGED <<ready, table, file, job, podb, handle, crash, raced>>

\* Mutant: the entry is read without the mutex.
ReadUnlocked(t) ==
    /\ At(t, "get") /\ ready
    /\ podb' = [podb EXCEPT ![t] = table[job[t].name]]
    /\ Goto(t, "count")
    /\ UNCHANGED <<ready, table, mutex, file, job, handle, crash, raced>>

\* Otherwise it takes the mutex and gets a copy of the entry.
GetEntry(t) ==
    /\ At(t, "get") /\ ready /\ mutex = Free
    /\ mutex' = t
    /\ podb' = [podb EXCEPT ![t] = table[job[t].name]]
    /\ Goto(t, "count")
    /\ raced' = (raced \/ Making(t))
    /\ UNCHANGED <<ready, table, file, job, handle, crash>>

\* Mutant: the mutex is kept when there is no entry.
CountUserKeepsMutex(t) ==
    /\ At(t, "count")
    /\ \/ /\ podb[t] = NoEntry
          /\ Goto(t, "open")
          /\ UNCHANGED <<table, mutex, job, podb, handle>>
       \/ /\ podb[t] # NoEntry
          /\ mutex' = Free
          /\ table' = [table EXCEPT ![job[t].name] = [podb[t] EXCEPT !.counter = @ + 1]]
          /\ Return(t, [name |-> job[t].name, hdb |-> podb[t].hdb])
    /\ UNCHANGED <<ready, file, crash, raced>>

\* The copy is put back with one user more, and the mutex released.
CountUser(t) ==
    /\ At(t, "count")
    /\ mutex' = Free
    /\ \/ /\ podb[t] = NoEntry
          /\ Goto(t, "open")
          /\ UNCHANGED <<table, job, podb, handle>>
       \/ /\ podb[t] # NoEntry
          /\ table' = [table EXCEPT ![job[t].name] = [podb[t] EXCEPT !.counter = @ + 1]]
          /\ Return(t, [name |-> job[t].name, hdb |-> podb[t].hdb])
    /\ UNCHANGED <<ready, file, crash, raced>>

\* tchdbnew and tchdbopen, which fails when the path is open under this or
\* another name, or for reasons of its own; DBCreate then returns NULL.
OpenFile(t) ==
    LET p == Path[job[t].name]
        used == {file[q] : q \in Paths} \cup {handle[u].hdb : u \in Users}
        hdb == CHOOSE h \in Hdbs \ used : \A g \in Hdbs \ used : h <= g
    IN  /\ At(t, "open")
        /\ \/ /\ file[p] = 0
              /\ file' = [file EXCEPT ![p] = hdb]
              /\ Goto(t, "add")
              /\ UNCHANGED <<job, podb, handle>>
           \/ UNCHANGED file /\ Return(t, NoHandle)
        /\ UNCHANGED <<ready, table, mutex, crash, raced>>

\* AddOpenedDB, without the mutex.
AddOpenedDB(t) ==
    LET n == job[t].name
        hdb == file[Path[n]]
    IN  /\ At(t, "add")
        /\ table' = [table EXCEPT ![n] = [hdb |-> hdb, counter |-> 1]]
        /\ Return(t, [name |-> n, hdb |-> hdb])
        /\ UNCHANGED <<ready, mutex, file, crash, raced>>

-----------------------------------------------------------------------------
(* DBDelete.                                                               *)

BeginDelete(t, u) ==
    /\ At(t, "idle") /\ handle[u] # NoHandle /\ Waiting(u)
    /\ Goto(t, "del")
    /\ job' = [job EXCEPT ![t] = [user |-> u, name |-> handle[u].name]]
    /\ UNCHANGED <<ready, table, mutex, file, podb, handle, crash, raced>>

\* DelOpenedDB takes the mutex and gets a copy of the entry, whose counter it
\* changes even if there is none.
FindEntry(t) ==
    /\ At(t, "del") /\ mutex = Free
    /\ IF table[job[t].name] = NoEntry
       THEN crash' = TRUE /\ UNCHANGED <<mutex, podb, pc>>
       ELSE /\ mutex' = t
            /\ podb' = [podb EXCEPT ![t] = table[job[t].name]]
            /\ Goto(t, "release")
            /\ UNCHANGED crash
    /\ UNCHANGED <<ready, table, file, job, handle, raced>>

\* Mutant: the file is closed when one other user is left.
ReleaseUserEarly(t) ==
    LET n == job[t].name
        c == podb[t].counter - 1
    IN  /\ At(t, "release")
        /\ mutex' = Free
        /\ \/ /\ c <= 1
              /\ table' = [table EXCEPT ![n] = NoEntry]
              /\ Goto(t, "close")
              /\ UNCHANGED <<job, podb, handle>>
           \/ /\ c > 1
              /\ table' = [table EXCEPT ![n] = [podb[t] EXCEPT !.counter = c]]
              /\ Return(t, NoHandle)
        /\ UNCHANGED <<ready, file, crash, raced>>

\* Mutant: the last user takes the entry out, and nobody closes the file.
ReleaseUserNoClose(t) ==
    LET n == job[t].name
        c == podb[t].counter - 1
    IN  /\ At(t, "release")
        /\ mutex' = Free
        /\ table' = [table EXCEPT ![n] = IF c = 0 THEN NoEntry
                                         ELSE [podb[t] EXCEPT !.counter = c]]
        /\ Return(t, NoHandle)
        /\ UNCHANGED <<ready, file, crash, raced>>

\* The last user takes the entry out of the table and goes on to close the
\* file; another one puts the entry back with one user less.
ReleaseUser(t) ==
    LET n == job[t].name
        c == podb[t].counter - 1
    IN  /\ At(t, "release")
        /\ mutex' = Free
        /\ \/ /\ c = 0
              /\ table' = [table EXCEPT ![n] = NoEntry]
              /\ Goto(t, "close")
              /\ UNCHANGED <<job, podb, handle>>
           \/ /\ c # 0
              /\ table' = [table EXCEPT ![n] = [podb[t] EXCEPT !.counter = c]]
              /\ Return(t, NoHandle)
        /\ UNCHANGED <<ready, file, crash, raced>>

\* tchdbclose of the user's own object, without the mutex.
CloseFile(t) ==
    LET u == job[t].user IN
    /\ At(t, "close")
    /\ file' = [p \in Paths |-> IF file[p] = handle[u].hdb THEN 0 ELSE file[p]]
    /\ Return(t, NoHandle)
    /\ UNCHANGED <<ready, table, mutex, crash, raced>>

-----------------------------------------------------------------------------
Step(t) == \/ InitTable(t) \/ GetEntry(t) \/ CountUser(t) \/ OpenFile(t)
           \/ AddOpenedDB(t) \/ FindEntry(t) \/ ReleaseUser(t) \/ CloseFile(t)

Next == \E t \in Threads :
           \/ Step(t)
           \/ \E u \in Users : BeginDelete(t, u) \/ \E n \in Names : BeginCreate(t, u, n)

Spec == Init /\ [][Next]_vars

\* Every thread runs, and one that waits for the mutex gets it in the end
\* although others take it again and again.
FairSpec == /\ Spec
            /\ \A t \in Threads : /\ WF_vars(Step(t))
                                  /\ SF_vars(GetEntry(t)) /\ SF_vars(FindEntry(t))

-----------------------------------------------------------------------------
PCs == {"idle", "get", "init", "mutex", "count", "open", "add", "del", "release",
        "close"}

\* Types; a thread is at work exactly when it has a job.
TypeOK ==
    ~raced =>
    /\ ready \in BOOLEAN /\ crash \in BOOLEAN
    /\ table \in [Names -> [hdb : Hdbs \cup {0}, counter : 0..Cardinality(Users)]]
    /\ mutex \in Threads \cup {Free}
    /\ file \in [Paths -> Hdbs \cup {0}]
    /\ pc \in [Threads -> PCs]
    /\ \A t \in Threads :
          /\ (pc[t] = "idle") = (job[t] = NoJob)
          /\ pc[t] # "idle" => job[t].user \in Users /\ job[t].name \in Names
    /\ handle \in [Users -> [name : Names, hdb : Hdbs] \cup {NoHandle}]

Holders(n) == {u \in Users : handle[u].name = n}

\* The counter of an entry is the number of users that have its object, and
\* they all have the same one.  AddOpenedDB writes its 1 without the mutex:
\* what protects it is that nobody else can have opened the path.
CountsUsers ==
    ~raced => \A n \in Names : table[n] # NoEntry =>
        /\ table[n].counter = Cardinality(Holders(n))
        /\ \A u \in Holders(n) : handle[u].hdb = table[n].hdb

\* A user never works on a database that another one has closed: its object
\* has the file open until it asks for the close itself.
HandlesOpen ==
    ~raced => \A u \in Users :
        handle[u] # NoHandle => file[Path[handle[u].name]] = handle[u].hdb

\* Nothing stays open behind the last user: an open file has a user, or a
\* thread that is about to hand it out.
NothingLeftOpen ==
    ~raced => \A p \in Paths : file[p] # 0 =>
        \/ \E u \in Users : handle[u].hdb = file[p]
        \/ \E t \in Threads : pc[t] = "add" /\ Path[job[t].name] = p

\* DelOpenedDB misses the entry of a handle, and uses a null pointer, only after
\* two calls raced for the making of the table.
EntryFound == crash => raced

\* "if no other user use this db, return 1" (DelOpenedDB, tcDB.c:271): the entry
\* of a handle is there when its user asks to close it.  False: two first calls at
\* the same time each make a table, and the entry is in the one that is lost.
AlwaysFound == ~crash

\* DBCreate and DBDelete return: no thread waits for the mutex for ever.
CallsReturn ==
    \A t \in Threads : pc[t] # "idle" ~> pc[t] = "idle" \/ raced
=============================================================================
