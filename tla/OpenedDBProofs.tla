--------------------------- MODULE OpenedDBProofs ----------------------------
(***************************************************************************)
(* The table of open databases, proved for every number of threads, users, *)
(* names and files, until two calls race for the making of the table.      *)
(*                                                                         *)
(* Two kinds of step change the table, under the mutex (CountUser and      *)
(* ReleaseUser) and without it (AddOpenedDB), and the file is opened and   *)
(* closed without it as well.  What keeps them apart is that every open    *)
(* file has exactly one keeper: an entry of the table, or a thread on its  *)
(* way from opening the file to the entry, or from the entry to closing    *)
(* the file (OneKeeper, Kept).                                             *)
(***************************************************************************)
EXTENDS OpenedDB, FiniteSetTheorems, WellFoundedInduction, TLAPS

\* Between the entry and the file: the thread that opened the file and has
\* not added the entry yet, or has taken the entry out and not closed the file.
Between(t) == pc[t] \in {"add", "close"}

PathOf(t) == Path[job[t].name]

Entries == [hdb : Hdbs \cup {0}, counter : 0..Cardinality(Users)]

Types ==
    /\ ready \in BOOLEAN
    /\ crash = FALSE
    /\ table \in [Names -> Entries]
    /\ mutex \in Threads \cup {Free}
    /\ file \in [Paths -> Hdbs \cup {0}]
    /\ pc \in [Threads -> PCs]
    /\ job \in [Threads -> [user : Users, name : Names] \cup {NoJob}]
    /\ podb \in [Threads -> Entries]
    /\ handle \in [Users -> [name : Names, hdb : Hdbs] \cup {NoHandle}]

\* A thread at work has a user of its own, which has a handle exactly when the
\* thread is to take it away.
Jobs ==
    /\ \A t \in Threads : (pc[t] = "idle") <=> (job[t] = NoJob)
    /\ \A s, t \in Threads :
          s # t /\ pc[s] # "idle" /\ pc[t] # "idle" => job[s].user # job[t].user
    /\ \A t \in Threads : pc[t] \in {"get", "init", "mutex", "count", "open", "add"} =>
          handle[job[t].user] = NoHandle
    /\ \A t \in Threads : pc[t] \in {"del", "release", "close"} =>
          /\ handle[job[t].user] # NoHandle
          /\ handle[job[t].user].name = job[t].name

\* The holder of the mutex has a copy of the entry that is still the entry.
\* (A copy of nothing may be out of date: AddOpenedDB needs no mutex.)
Locked ==
    /\ \A t \in Threads : mutex = t <=> pc[t] \in {"count", "release"}
    /\ \A t \in Threads : pc[t] = "count" /\ podb[t] # NoEntry =>
          podb[t] = table[job[t].name]
    /\ \A t \in Threads : pc[t] = "release" =>
          podb[t] # NoEntry /\ podb[t] = table[job[t].name]

\* An entry has the object of its open file, and counts its users.
Counted ==
    \A n \in Names : table[n] # NoEntry =>
        /\ file[Path[n]] # 0 /\ table[n].hdb = file[Path[n]]
        /\ Holders(n) # {}
        /\ table[n].counter = Cardinality(Holders(n))

\* No file has two keepers.
OneKeeper ==
    /\ \A n, m \in Names : n # m /\ table[n] # NoEntry /\ table[m] # NoEntry =>
          Path[n] # Path[m]
    /\ \A n \in Names, t \in Threads : table[n] # NoEntry /\ Between(t) =>
          Path[n] # PathOf(t)
    /\ \A s, t \in Threads : s # t /\ Between(s) /\ Between(t) =>
          PathOf(s) # PathOf(t)

\* An open file has a keeper, and a thread that keeps one has it open.
Kept ==
    /\ \A t \in Threads : Between(t) => file[PathOf(t)] # 0
    /\ \A p \in Paths : file[p] # 0 =>
          \/ \E n \in Names : table[n] # NoEntry /\ Path[n] = p
          \/ \E t \in Threads : Between(t) /\ PathOf(t) = p

\* A handle has the object of its open file, and its name an entry until the
\* last user is about to close the file.
Handled ==
    \A u \in Users : handle[u] # NoHandle =>
        /\ file[Path[handle[u].name]] = handle[u].hdb
        /\ \/ table[handle[u].name] # NoEntry
           \/ \E t \in Threads : pc[t] = "close" /\ job[t].user = u

\* Two open files have different objects.
Distinct ==
    \A p, q \in Paths : p # q /\ file[p] # 0 => file[p] # file[q]

\* While a call makes the table nothing is in use, and nobody else makes it.
Beginning ==
    /\ \A t \in Threads : (pc[t] = "init" => ~ready) /\ (pc[t] = "mutex" => ready)
    /\ ~ready \/ (\E t \in Threads : pc[t] = "mutex") =>
          /\ table = [n \in Names |-> NoEntry]
          /\ file = [p \in Paths |-> 0]
          /\ handle = [u \in Users |-> NoHandle]
          /\ \A t \in Threads : pc[t] \in {"idle", "get", "init", "mutex"}
          /\ \A s, t \in Threads :
                pc[s] \in {"init", "mutex"} /\ pc[t] \in {"init", "mutex"} => s = t

Inv == /\ Types /\ Jobs /\ Locked /\ Counted /\ OneKeeper /\ Kept /\ Handled
       /\ Distinct /\ Beginning

-----------------------------------------------------------------------------
(* Users, names and objects.                                               *)

LEMMA Markers ==
    /\ NoHandle \notin [name : Names, hdb : Hdbs] /\ NoHandle.name \notin Names
    /\ NoHandle.hdb = 0
    /\ NoJob \notin [user : Users, name : Names] /\ NoJob.name \notin Names
    /\ Free \notin Threads
    /\ Cardinality(Users) \in Nat /\ Cardinality(Threads) \in Nat
    /\ Hdbs \subseteq Nat \ {0}
    /\ NoEntry \in Entries
    <1>1. Cardinality(Users) \in Nat /\ Cardinality(Threads) \in Nat
        BY OpenedDBAssumption, FS_CardinalityType
    <1>2. Hdbs \subseteq Nat \ {0}
        BY <1>1 DEF Hdbs
    <1>3. NoHandle \notin [name : Names, hdb : Hdbs] /\ NoHandle.name \notin Names
        BY OpenedDBAssumption DEF NoHandle
    <1>4. NoJob \notin [user : Users, name : Names] /\ NoJob.name \notin Names
        BY OpenedDBAssumption DEF NoJob
    <1>5. NoEntry \in Entries
        BY <1>1 DEF NoEntry, Entries
    <1> QED
        BY <1>1, <1>2, <1>3, <1>4, <1>5, OpenedDBAssumption DEF Free, NoHandle

\* What a thread at work works on.
LEMMA AtWork ==
    ASSUME Types, Jobs, NEW t \in Threads, pc[t] # "idle"
    PROVE  /\ job[t] \in [user : Users, name : Names]
           /\ job[t].user \in Users /\ job[t].name \in Names
           /\ PathOf(t) \in Paths
    <1>1. job[t] \in [user : Users, name : Names]
        BY DEF Types, Jobs
    <1> QED
        BY <1>1, OpenedDBAssumption DEF PathOf

LEMMA HoldersFinite ==
    ASSUME NEW n \in Names
    PROVE  /\ IsFiniteSet(Holders(n))
           /\ Cardinality(Holders(n)) \in 0..Cardinality(Users)
    <1>1. Holders(n) \in SUBSET Users
        BY DEF Holders
    <1>2. IsFiniteSet(Holders(n)) /\ Cardinality(Holders(n)) <= Cardinality(Users)
        BY <1>1, FS_Subset, OpenedDBAssumption
    <1>3. Cardinality(Holders(n)) \in Nat /\ Cardinality(Users) \in Nat
        BY <1>2, FS_CardinalityType, OpenedDBAssumption
    <1> QED
        BY <1>2, <1>3

\* A thread past the first call's own steps: the first call has ended.
LEMMA Started ==
    ASSUME Beginning, NEW t \in Threads, pc[t] \notin {"idle", "get", "init", "mutex"}
    PROVE  ready /\ \A s \in Threads : pc[s] \notin {"init", "mutex"}
    BY DEF Beginning

\* A handle on a file that a thread is about to add or to close is its user's.
LEMMA OnlyHandle ==
    ASSUME Types, Jobs, Handled, OneKeeper, NEW t \in Threads, Between(t),
           NEW u \in Users, handle[u] # NoHandle, Path[handle[u].name] = PathOf(t)
    PROVE  pc[t] = "close" /\ job[t].user = u
    <1>1. handle[u].name \in Names
        BY DEF Types
    <1>2. table[handle[u].name] = NoEntry
        BY <1>1 DEF OneKeeper
    <1>3. PICK s \in Threads : pc[s] = "close" /\ job[s].user = u
        BY <1>2 DEF Handled
    <1>4. PathOf(s) = PathOf(t)
        BY <1>3 DEF Jobs, PathOf
    <1>5. s = t
        BY <1>3, <1>4 DEF OneKeeper, Between
    <1> QED
        BY <1>3, <1>5

\* The users of an entry have its object, and there is one.
LEMMA EntryHandle ==
    ASSUME Types, Counted, Handled, NEW n \in Names, table[n] # NoEntry
    PROVE  /\ \E u \in Users : handle[u].hdb = file[Path[n]]
           /\ \A u \in Holders(n) : handle[u].hdb = table[n].hdb
    <1>1. \A u \in Holders(n) : u \in Users /\ handle[u] # NoHandle /\ handle[u].name = n
        BY Markers DEF Holders
    <1>2. \A u \in Holders(n) : handle[u].hdb = file[Path[n]]
        BY <1>1 DEF Handled
    <1> QED
        BY <1>1, <1>2 DEF Counted

LEMMA OpenInUse ==
    ASSUME Inv, NEW p \in Paths, file[p] # 0
    PROVE  \/ \E u \in Users : handle[u].hdb = file[p]
           \/ \E t \in Threads : pc[t] = "add" /\ Path[job[t].name] = p
    <1>1. CASE \E n \in Names : table[n] # NoEntry /\ Path[n] = p
        BY <1>1, EntryHandle DEF Inv
    <1>2. ASSUME NEW t \in Threads, Between(t), PathOf(t) = p, pc[t] = "close"
          PROVE  \E u \in Users : handle[u].hdb = file[p]
        <2>1. job[t].user \in Users
            BY <1>2, AtWork DEF Inv
        <2>2. handle[job[t].user] # NoHandle /\ handle[job[t].user].name = job[t].name
            BY <1>2 DEF Inv, Jobs
        <2> QED
            BY <1>2, <2>1, <2>2 DEF Inv, Handled, PathOf
    <1> QED
        BY <1>1, <1>2 DEF Inv, Kept, Between, PathOf

\* A set of naturals that is not empty has a least element.
LEMMA NatMinimum ==
    ASSUME NEW T, T \subseteq Nat, T # {}
    PROVE  \E x \in T : \A y \in T : x <= y
    <1>1. PICK x \in T : \A y \in T : ~(<<y, x>> \in OpToRel(<, Nat))
        BY NatLessThanWellFounded, WFMin
    <1>2. \A y \in T : ~(y < x)
        BY <1>1 DEF OpToRel
    <1> QED
        BY <1>2

UsedHdbs == {file[q] : q \in Paths} \cup {handle[u].hdb : u \in Users}

NewHdb == CHOOSE h \in Hdbs \ UsedHdbs : \A g \in Hdbs \ UsedHdbs : h <= g

\* tchdbnew finds an object: those in use belong to a user or to a thread.
LEMMA HdbLeft == Inv => NewHdb \in Hdbs \ UsedHdbs
    <1> SUFFICES ASSUME Inv PROVE NewHdb \in Hdbs \ UsedHdbs
        OBVIOUS
    <1> DEFINE ofUser == [u \in Users |-> handle[u].hdb]
               ofThread == [t \in Threads |-> file[Path[job[t].name]]]
               A == {handle[u].hdb : u \in Users}
               B == {file[Path[job[t].name]] : t \in Threads}
    <1>1. IsFiniteSet(A) /\ Cardinality(A) <= Cardinality(Users)
        <2>1. ofUser \in Surjection(Users, A)
            BY DEF Surjection
        <2> QED
            BY <2>1, FS_Surjection, OpenedDBAssumption
    <1>2. IsFiniteSet(B) /\ Cardinality(B) <= Cardinality(Threads)
        <2>1. ofThread \in Surjection(Threads, B)
            BY DEF Surjection
        <2> QED
            BY <2>1, FS_Surjection, OpenedDBAssumption
    <1>3. UsedHdbs \ {0} \subseteq A \cup B
        BY OpenInUse DEF UsedHdbs
    <1> HIDE DEF A, B
    <1>4. /\ IsFiniteSet(A \cup B)
          /\ Cardinality(A \cup B) <= Cardinality(Users) + Cardinality(Threads)
        <2>1. /\ Cardinality(A) \in Nat /\ Cardinality(B) \in Nat
              /\ Cardinality(A \cap B) \in Nat
            BY <1>1, <1>2, FS_CardinalityType, FS_Intersection
        <2>2. /\ IsFiniteSet(A \cup B)
              /\ Cardinality(A \cup B) = Cardinality(A) + Cardinality(B) - Cardinality(A \cap B)
            BY <1>1, <1>2, FS_Union
        <2> QED
            BY <1>1, <1>2, <2>1, <2>2, Markers
    <1>5. Hdbs \ UsedHdbs # {}
        <2>1. SUFFICES ASSUME Hdbs \subseteq UsedHdbs PROVE FALSE
            OBVIOUS
        <2>2. Hdbs \in SUBSET (A \cup B)
            BY <1>3, <2>1, Markers
        <2>3. Cardinality(Hdbs) <= Cardinality(A \cup B)
            BY <1>4, <2>2, FS_Subset
        <2>4. Cardinality(Hdbs) = Cardinality(Users) + Cardinality(Threads) + 1
            BY Markers, FS_Interval DEF Hdbs
        <2>5. Cardinality(A \cup B) \in Nat
            BY <1>4, FS_CardinalityType
        <2> QED
            BY <1>4, <2>3, <2>4, <2>5, Markers
    <1>6. \E x \in Hdbs \ UsedHdbs : \A y \in Hdbs \ UsedHdbs : x <= y
        BY <1>5, NatMinimum, Markers
    <1> QED
        BY <1>6 DEF NewHdb

-----------------------------------------------------------------------------
LEMMA InitInv == Init => Inv
    <1> SUFFICES ASSUME Init PROVE Inv
        OBVIOUS
    <1> USE DEF Init
    <1>1. Types
        BY Markers DEF Types, PCs
    <1>2. Jobs /\ Locked
        BY Markers DEF Jobs, Locked
    <1>3. Counted /\ OneKeeper /\ Kept
        BY DEF Counted, OneKeeper, Kept, Between
    <1>4. Handled /\ Distinct
        BY DEF Handled, Distinct
    <1>5. Beginning
        BY DEF Beginning
    <1> QED
        BY <1>1, <1>2, <1>3, <1>4, <1>5 DEF Inv

-----------------------------------------------------------------------------
(* The steps.                                                              *)

\* A step of a thread that has no part in keeping a file.
LEMMA KeepersUnchanged ==
    ASSUME Inv, NEW t \in Threads, UNCHANGED <<table, file, handle>>,
           ~Between(t), pc'[t] \notin {"add", "close"},
           \A s \in Threads : s # t => pc'[s] = pc[s] /\ job'[s] = job[s]
    PROVE  Counted' /\ OneKeeper' /\ Kept' /\ Handled' /\ Distinct'
    <1>1. \A s \in Threads : Between(s)' <=> Between(s)
        BY DEF Between
    <1>2. \A s \in Threads : Between(s) => PathOf(s)' = PathOf(s)
        BY DEF Between, PathOf
    <1>3. Counted'
        BY DEF Inv, Counted, Holders
    <1>4. OneKeeper' /\ Kept'
        BY <1>1, <1>2 DEF Inv, OneKeeper, Kept
    <1>5. \A s \in Threads : pc[s] = "close" => pc'[s] = "close" /\ job'[s] = job[s]
        BY DEF Between
    <1>6. Handled' /\ Distinct'
        BY <1>5 DEF Inv, Handled, Distinct
    <1> QED
        BY <1>3, <1>4, <1>6

\* A step of a thread after the first call.
LEMMA BeginningOver ==
    ASSUME Beginning, NEW t \in Threads, ready, UNCHANGED ready,
           \A s \in Threads : pc[s] \notin {"init", "mutex"},
           \A s \in Threads : s # t => pc'[s] = pc[s],
           pc'[t] \notin {"init", "mutex"}
    PROVE  Beginning'
    BY DEF Beginning

LEMMA BeginCreateInv ==
    ASSUME Inv, NEW t \in Threads, NEW u \in Users, NEW n \in Names,
           BeginCreate(t, u, n)
    PROVE  Inv'
    <1>1. /\ pc[t] = "idle" /\ handle[u] = NoHandle /\ \A s \in Threads : job[s].user # u
          /\ pc' = [pc EXCEPT ![t] = "get"]
          /\ job' = [job EXCEPT ![t] = [user |-> u, name |-> n]]
          /\ UNCHANGED <<ready, table, mutex, file, podb, handle, crash>>
        BY DEF BeginCreate, At, Goto, Waiting
    <1>2. Types'
        BY <1>1 DEF Inv, Types, PCs
    <1>3. /\ pc'[t] = "get" /\ job'[t] = [user |-> u, name |-> n]
          /\ \A s \in Threads : s # t => pc'[s] = pc[s] /\ job'[s] = job[s]
        BY <1>1 DEF Inv, Types
    <1>4. Jobs'
        BY <1>1, <1>3, Markers DEF Inv, Jobs
    <1>5. Locked'
        BY <1>1, <1>3 DEF Inv, Locked
    <1>6. Counted' /\ OneKeeper' /\ Kept' /\ Handled' /\ Distinct'
        BY <1>1, <1>3, KeepersUnchanged DEF Between
    <1>7. Beginning'
        BY <1>1, <1>3 DEF Inv, Beginning
    <1> QED
        BY <1>2, <1>4, <1>5, <1>6, <1>7 DEF Inv

LEMMA BeginDeleteInv ==
    ASSUME Inv, NEW t \in Threads, NEW u \in Users, BeginDelete(t, u)
    PROVE  Inv'
    <1> DEFINE n == handle[u].name
    <1>1. /\ pc[t] = "idle" /\ handle[u] # NoHandle /\ \A s \in Threads : job[s].user # u
          /\ pc' = [pc EXCEPT ![t] = "del"]
          /\ job' = [job EXCEPT ![t] = [user |-> u, name |-> n]]
          /\ UNCHANGED <<ready, table, mutex, file, podb, handle, crash>>
        BY DEF BeginDelete, At, Goto, Waiting
    <1>2. n \in Names
        BY <1>1 DEF Inv, Types
    <1>3. ready /\ \A s \in Threads : pc[s] \notin {"init", "mutex"}
        BY <1>1 DEF Inv, Beginning
    <1>4. Types'
        BY <1>1, <1>2 DEF Inv, Types, PCs
    <1>5. /\ pc'[t] = "del" /\ job'[t] = [user |-> u, name |-> n]
          /\ \A s \in Threads : s # t => pc'[s] = pc[s] /\ job'[s] = job[s]
        BY <1>1 DEF Inv, Types
    <1>6. Jobs'
        BY <1>1, <1>2, <1>5, Markers DEF Inv, Jobs
    <1>7. Locked'
        BY <1>1, <1>5 DEF Inv, Locked
    <1>8. Counted' /\ OneKeeper' /\ Kept' /\ Handled' /\ Distinct'
        BY <1>1, <1>5, KeepersUnchanged DEF Between
    <1>9. Beginning'
        BY <1>1, <1>3, <1>5, BeginningOver DEF Inv
    <1> QED
        BY <1>4, <1>6, <1>7, <1>8, <1>9 DEF Inv

\* The first call makes the table while nobody uses it.
LEMMA InitTableInv ==
    ASSUME Inv, NEW t \in Threads, InitTable(t), ~raced'
    PROVE  Inv'
    <1>1. /\ pc[t] \in {"get", "init", "mutex"}
          /\ pc[t] = "get" => ~ready /\ ~Making(t)
          /\ pc' = [pc EXCEPT ![t] = IF pc[t] = "get" THEN "init" ELSE
                                     IF pc[t] = "init" THEN "mutex" ELSE "open"]
          /\ pc[t] = "init" \/ UNCHANGED ready
          /\ pc[t] = "init" => ready' = TRUE
          /\ pc[t] = "init" \/ UNCHANGED table
          /\ pc[t] = "init" => table' = [n \in Names |-> NoEntry]
          /\ pc[t] = "mutex" \/ UNCHANGED mutex
          /\ pc[t] = "mutex" => mutex' = Free
          /\ UNCHANGED <<file, job, podb, handle, crash>>
        BY DEF InitTable, At, Goto, Inv, Types
    <1>2. /\ \A n \in Names : table[n] = NoEntry
          /\ \A p \in Paths : file[p] = 0
          /\ \A u \in Users : handle[u] = NoHandle
          /\ \A s \in Threads : pc[s] \in {"idle", "get", "init", "mutex"}
          /\ \A s \in Threads : s # t => pc[s] \in {"idle", "get"}
        <2>1. ~ready \/ \E s \in Threads : pc[s] = "mutex"
            BY <1>1 DEF Inv, Beginning
        <2>2. \A s \in Threads : s # t => pc[s] \notin {"init", "mutex"}
            BY <1>1, <2>1 DEF Inv, Beginning, Making
        <2> QED
            BY <2>1, <2>2 DEF Inv, Beginning
    <1>3. mutex = Free
        BY <1>2 DEF Inv, Types, Locked
    <1>4. UNCHANGED <<mutex, table>>
        BY <1>1, <1>2, <1>3 DEF Inv, Types
    <1>5. Types'
        BY <1>1, <1>4 DEF Inv, Types, PCs
    <1>6. /\ pc'[t] = IF pc[t] = "get" THEN "init" ELSE
                      IF pc[t] = "init" THEN "mutex" ELSE "open"
          /\ \A s \in Threads : s # t => pc'[s] = pc[s]
        BY <1>1, <1>2 DEF Inv, Types
    <1>7. Jobs'
        BY <1>1, <1>2, <1>6 DEF Inv, Jobs
    <1>8. Locked'
        BY <1>1, <1>2, <1>3, <1>4, <1>6, Markers DEF Inv, Locked
    <1>9. Counted' /\ OneKeeper' /\ Kept'
        BY <1>1, <1>2, <1>4, <1>6 DEF Counted, OneKeeper, Kept, Between
    <1>10. Handled' /\ Distinct'
        BY <1>1, <1>2 DEF Handled, Distinct
    <1>11. Beginning'
        <2>1. CASE pc[t] = "mutex"
            <3>1. ready' /\ \A s \in Threads : pc'[s] \notin {"init", "mutex"}
                BY <1>1, <1>2, <1>6, <2>1 DEF Inv, Beginning
            <3> QED
                BY <3>1 DEF Beginning
        <2>2. CASE pc[t] # "mutex"
            <3>1. ~ready
                BY <1>1, <2>2 DEF Inv, Beginning
            <3>2. /\ table = [n \in Names |-> NoEntry]
                  /\ file = [p \in Paths |-> 0]
                  /\ handle = [u \in Users |-> NoHandle]
                BY <3>1 DEF Inv, Beginning
            <3>3. \/ pc'[t] = "init" /\ ~ready'
                  \/ pc'[t] = "mutex" /\ ready'
                BY <1>1, <1>6, <2>2, <3>1
            <3> QED
                BY <1>1, <1>2, <1>4, <1>6, <3>2, <3>3 DEF Beginning
        <2> QED
            BY <2>1, <2>2
    <1> QED
        BY <1>5, <1>7, <1>8, <1>9, <1>10, <1>11 DEF Inv

LEMMA GetEntryInv ==
    ASSUME Inv, NEW t \in Threads, GetEntry(t), ~raced'
    PROVE  Inv'
    <1>1. /\ pc[t] = "get" /\ ready /\ mutex = Free /\ mutex' = t
          /\ pc' = [pc EXCEPT ![t] = "count"]
          /\ podb' = [podb EXCEPT ![t] = table[job[t].name]]
          /\ UNCHANGED <<ready, table, file, job, handle, crash>>
          /\ ~Making(t)
        BY DEF GetEntry, At, Goto
    <1>2. job[t].name \in Names
        BY <1>1, AtWork DEF Inv
    <1>3. Types'
        BY <1>1, <1>2 DEF Inv, Types, PCs
    <1>4. /\ pc'[t] = "count" /\ podb'[t] = table[job[t].name]
          /\ \A s \in Threads : s # t => pc'[s] = pc[s] /\ podb'[s] = podb[s]
        BY <1>1 DEF Inv, Types
    <1>5. Jobs'
        BY <1>1, <1>4 DEF Inv, Jobs
    <1>6. Locked'
        BY <1>1, <1>4, Markers DEF Inv, Locked
    <1>7. Counted' /\ OneKeeper' /\ Kept' /\ Handled' /\ Distinct'
        BY <1>1, <1>4, KeepersUnchanged DEF Between
    <1>8. \A s \in Threads : pc[s] \notin {"init", "mutex"}
        BY <1>1 DEF Making
    <1>9. Beginning'
        BY <1>1, <1>4, <1>8, BeginningOver DEF Inv
    <1> QED
        BY <1>3, <1>5, <1>6, <1>7, <1>9 DEF Inv

\* A user that has a handle is found in the table: only a thread that closes
\* the file for this same user could have taken the entry out.
LEMMA EntryOfHandle ==
    ASSUME Inv, NEW t \in Threads, pc[t] \in {"del", "release"}
    PROVE  table[job[t].name] # NoEntry
    <1>1. job[t].user \in Users
        BY AtWork DEF Inv
    <1>2. ASSUME NEW s \in Threads, pc[s] = "close", job[s].user = job[t].user
          PROVE  FALSE
        BY <1>2 DEF Inv, Jobs
    <1> QED
        BY <1>1, <1>2 DEF Inv, Jobs, Handled

LEMMA FindEntryInv ==
    ASSUME Inv, NEW t \in Threads, FindEntry(t)
    PROVE  Inv'
    <1>1. pc[t] = "del" /\ mutex = Free
        BY DEF FindEntry, At
    <1>2. table[job[t].name] # NoEntry
        BY <1>1, EntryOfHandle
    <1>3. /\ mutex' = t
          /\ pc' = [pc EXCEPT ![t] = "release"]
          /\ podb' = [podb EXCEPT ![t] = table[job[t].name]]
          /\ UNCHANGED <<ready, table, file, job, handle, crash>>
        BY <1>2 DEF FindEntry, Goto
    <1>4. job[t].name \in Names
        BY <1>1, AtWork DEF Inv
    <1>5. Types'
        BY <1>3, <1>4 DEF Inv, Types, PCs
    <1>6. /\ pc'[t] = "release" /\ podb'[t] = table[job[t].name]
          /\ \A s \in Threads : s # t => pc'[s] = pc[s] /\ podb'[s] = podb[s]
        BY <1>3 DEF Inv, Types
    <1>7. Jobs'
        BY <1>1, <1>3, <1>6 DEF Inv, Jobs
    <1>8. Locked'
        BY <1>1, <1>2, <1>3, <1>6, Markers DEF Inv, Locked
    <1>9. Counted' /\ OneKeeper' /\ Kept' /\ Handled' /\ Distinct'
        BY <1>1, <1>3, <1>6, KeepersUnchanged DEF Between
    <1>10. Beginning'
        BY <1>1, <1>3, <1>6, Started, BeginningOver DEF Inv
    <1> QED
        BY <1>5, <1>7, <1>8, <1>9, <1>10 DEF Inv

\* A thread that returns has no job, and no part in anything.
LEMMA Returned ==
    ASSUME Inv, NEW t \in Threads, pc[t] # "idle", NEW h, Return(t, h)
    PROVE  /\ pc'[t] = "idle" /\ job'[t] = NoJob /\ podb'[t] = NoEntry
           /\ handle'[job[t].user] = h
           /\ \A s \in Threads : s # t =>
                 pc'[s] = pc[s] /\ job'[s] = job[s] /\ podb'[s] = podb[s]
           /\ \A v \in Users : v # job[t].user => handle'[v] = handle[v]
           /\ pc' \in [Threads -> PCs]
           /\ job' \in [Threads -> [user : Users, name : Names] \cup {NoJob}]
           /\ podb' \in [Threads -> Entries]
           /\ h \in [name : Names, hdb : Hdbs] \cup {NoHandle} =>
                 handle' \in [Users -> [name : Names, hdb : Hdbs] \cup {NoHandle}]
    <1>1. job[t].user \in Users
        BY AtWork DEF Inv
    <1> QED
        BY <1>1, Markers DEF Return, Goto, Inv, Types, PCs

LEMMA ReturnedJobs ==
    ASSUME Inv, NEW t \in Threads, pc[t] # "idle", NEW h, Return(t, h)
    PROVE  Jobs'
    <1>1. \A s \in Threads : s # t /\ pc[s] # "idle" =>
             job[s].user \in Users /\ job[s].user # job[t].user
        BY AtWork DEF Inv, Jobs
    <1>2. \A s \in Threads : s # t /\ pc[s] # "idle" =>
             handle'[job[s].user] = handle[job[s].user]
        BY <1>1, Returned
    <1>3. /\ pc'[t] = "idle" /\ job'[t] = NoJob
          /\ \A s \in Threads : s # t => pc'[s] = pc[s] /\ job'[s] = job[s]
        BY Returned
    <1> QED
        BY <1>1, <1>2, <1>3 DEF Inv, Jobs

LEMMA HoldersJoin ==
    ASSUME NEW u \in Users, NEW n \in Names, handle[u] = NoHandle, handle'[u].name = n,
           \A v \in Users : v # u => handle'[v] = handle[v]
    PROVE  /\ Holders(n)' = Holders(n) \cup {u} /\ u \notin Holders(n)
           /\ \A m \in Names : m # n => Holders(m)' = Holders(m)
           /\ Cardinality(Holders(n)') = Cardinality(Holders(n)) + 1
    <1>1. Holders(n)' = Holders(n) \cup {u} /\ u \notin Holders(n)
        BY Markers DEF Holders
    <1>2. \A m \in Names : m # n => Holders(m)' = Holders(m)
        BY Markers DEF Holders
    <1> QED
        BY <1>1, <1>2, HoldersFinite, FS_AddElement

LEMMA HoldersLeave ==
    ASSUME NEW u \in Users, NEW n \in Names, handle[u].name = n, handle'[u] = NoHandle,
           \A v \in Users : v # u => handle'[v] = handle[v]
    PROVE  /\ Holders(n)' = Holders(n) \ {u} /\ u \in Holders(n)
           /\ \A m \in Names : m # n => Holders(m)' = Holders(m)
           /\ Cardinality(Holders(n)') = Cardinality(Holders(n)) - 1
    <1>1. Holders(n)' = Holders(n) \ {u} /\ u \in Holders(n)
        BY Markers DEF Holders
    <1>2. \A m \in Names : m # n => Holders(m)' = Holders(m)
        BY Markers DEF Holders
    <1> QED
        BY <1>1, <1>2, HoldersFinite, FS_RemoveElement

LEMMA CountUserInv ==
    ASSUME Inv, NEW t \in Threads, CountUser(t)
    PROVE  Inv'
    <1>1. pc[t] = "count" /\ mutex' = Free /\ UNCHANGED <<ready, file, crash>>
        BY DEF CountUser, At
    <1>2. PICK u \in Users, n \in Names : u = job[t].user /\ n = job[t].name
        BY <1>1, AtWork DEF Inv
    <1>3. ready /\ \A s \in Threads : pc[s] \notin {"init", "mutex"}
        BY <1>1, Started DEF Inv
    <1>4. mutex = t /\ \A s \in Threads : s # t => pc[s] \notin {"count", "release"}
        BY <1>1 DEF Inv, Locked
    <1>5. CASE /\ podb[t] = NoEntry /\ Goto(t, "open")
               /\ UNCHANGED <<table, job, podb, handle>>
        <2>1. /\ pc'[t] = "open" /\ pc' \in [Threads -> PCs]
              /\ \A s \in Threads : s # t => pc'[s] = pc[s]
            BY <1>5 DEF Goto, Inv, Types, PCs
        <2>2. Types'
            BY <1>1, <1>5, <2>1 DEF Inv, Types
        <2>3. Jobs'
            BY <1>1, <1>5, <2>1 DEF Inv, Jobs
        <2>4. Locked'
            BY <1>1, <1>4, <1>5, <2>1, Markers DEF Inv, Locked
        <2>5. Counted' /\ OneKeeper' /\ Kept' /\ Handled' /\ Distinct'
            BY <1>1, <1>5, <2>1, KeepersUnchanged DEF Between
        <2>6. Beginning'
            BY <1>1, <1>3, <2>1, BeginningOver DEF Inv
        <2> QED
            BY <2>2, <2>3, <2>4, <2>5, <2>6 DEF Inv
    <1>6. CASE /\ podb[t] # NoEntry
               /\ table' = [table EXCEPT ![n] = [podb[t] EXCEPT !.counter = @ + 1]]
               /\ Return(t, [name |-> n, hdb |-> podb[t].hdb])
        <2>0. PICK h : h = [name |-> n, hdb |-> table[n].hdb]
            OBVIOUS
        <2>1. table[n] # NoEntry /\ podb[t] = table[n] /\ Return(t, h)
            BY <1>1, <1>2, <1>6, <2>0 DEF Inv, Locked
        <2>2. /\ file[Path[n]] # 0 /\ table[n].hdb = file[Path[n]]
              /\ table[n].counter = Cardinality(Holders(n))
              /\ table[n] \in Entries /\ Path[n] \in Paths
            BY <1>2, <2>1, OpenedDBAssumption DEF Inv, Counted, Types
        <2>3. h \in [name : Names, hdb : Hdbs]
            BY <1>2, <2>0, <2>2 DEF Inv, Types
        <2>4. /\ pc'[t] = "idle" /\ job'[t] = NoJob /\ handle'[u] = h
              /\ \A s \in Threads : s # t =>
                    pc'[s] = pc[s] /\ job'[s] = job[s] /\ podb'[s] = podb[s]
              /\ \A v \in Users : v # u => handle'[v] = handle[v]
            BY <1>1, <1>2, <2>1, Returned
        <2>5. handle[u] = NoHandle
            BY <1>1, <1>2 DEF Inv, Jobs
        <2>6. /\ Holders(n)' = Holders(n) \cup {u}
              /\ \A m \in Names : m # n => Holders(m)' = Holders(m)
              /\ Cardinality(Holders(n)') = Cardinality(Holders(n)) + 1
              /\ Cardinality(Holders(n)) \in 0..Cardinality(Users)
            <3>1. handle'[u].name = n
                BY <2>0, <2>4
            <3>2. Cardinality(Holders(n)) \in 0..Cardinality(Users)
                BY HoldersFinite
            <3> QED
                BY <2>4, <2>5, <3>1, <3>2, HoldersJoin
        <2>7. Cardinality(Holders(n)') \in 0..Cardinality(Users)
            <3>1. Holders(n)' \in SUBSET Users
                BY DEF Holders
            <3>2. Cardinality(Holders(n)') <= Cardinality(Users)
                BY <3>1, FS_Subset, OpenedDBAssumption
            <3> QED
                BY <2>6, <3>2, Markers
        <2>8. /\ table'[n] = [hdb |-> table[n].hdb, counter |-> Cardinality(Holders(n)')]
              /\ table'[n] \in Entries
              /\ table' \in [Names -> Entries]
              /\ \A m \in Names : m # n => table'[m] = table[m]
            <3>1. [podb[t] EXCEPT !.counter = @ + 1] =
                  [hdb |-> table[n].hdb, counter |-> Cardinality(Holders(n)')]
                BY <2>1, <2>2, <2>6 DEF Entries
            <3>2. [hdb |-> table[n].hdb, counter |-> Cardinality(Holders(n)')] \in Entries
                BY <2>2, <2>7 DEF Entries
            <3> QED
                BY <1>2, <1>6, <3>1, <3>2 DEF Inv, Types
        <2>9. Types'
            BY <1>1, <1>6, <2>1, <2>3, <2>8, Returned DEF Inv, Types
        <2>10. Jobs'
            BY <1>1, <2>1, ReturnedJobs
        <2>11. Locked'
            BY <1>1, <1>4, <2>4, Markers DEF Inv, Locked
        <2>12. Counted'
            <3>1. ASSUME NEW m \in Names, table'[m] # NoEntry
                  PROVE  /\ file'[Path[m]] # 0 /\ table'[m].hdb = file'[Path[m]]
                         /\ Holders(m)' # {}
                         /\ table'[m].counter = Cardinality(Holders(m)')
                <4>1. CASE m = n
                    <5>1. file'[Path[n]] # 0 /\ table'[n].hdb = file'[Path[n]]
                        BY <1>1, <2>2, <2>8
                    <5>2. Holders(n)' # {}
                        BY <2>6
                    <5>3. table'[n].counter = Cardinality(Holders(n)')
                        BY <2>8
                    <5> QED
                        BY <4>1, <5>1, <5>2, <5>3
                <4>2. CASE m # n
                    BY <1>1, <2>6, <2>8, <3>1, <4>2 DEF Inv, Counted
                <4> QED
                    BY <4>1, <4>2
            <3> QED
                BY <3>1 DEF Counted
        <2>13. \A m \in Names : table'[m] # NoEntry <=> table[m] # NoEntry
            BY <2>1, <2>2, <2>8 DEF NoEntry
        <2>14. \A s \in Threads : /\ Between(s)' <=> Between(s)
                                  /\ Between(s) => PathOf(s)' = PathOf(s)
            BY <1>1, <2>4 DEF Between, PathOf
        <2>15. OneKeeper' /\ Kept'
            BY <1>1, <2>13, <2>14 DEF Inv, OneKeeper, Kept
        <2>16. Handled' /\ Distinct'
            <3>1. ASSUME NEW v \in Users, handle'[v] # NoHandle
                  PROVE  /\ file'[Path[handle'[v].name]] = handle'[v].hdb
                         /\ \/ table'[handle'[v].name] # NoEntry
                            \/ \E s \in Threads : pc'[s] = "close" /\ job'[s].user = v
                <4>1. CASE v = u
                    BY <1>1, <2>0, <2>1, <2>2, <2>4, <2>13, <4>1
                <4>2. CASE v # u
                    <5>1. handle'[v] = handle[v] /\ handle[v].name \in Names
                        BY <2>4, <3>1, <4>2 DEF Inv, Types
                    <5> QED
                        BY <1>1, <2>4, <2>13, <3>1, <5>1 DEF Inv, Handled
                <4> QED
                    BY <4>1, <4>2
            <3> QED
                BY <1>1, <3>1 DEF Inv, Handled, Distinct
        <2>17. Beginning'
            BY <1>1, <1>3, <2>4, BeginningOver DEF Inv
        <2> QED
            BY <2>9, <2>10, <2>11, <2>12, <2>15, <2>16, <2>17 DEF Inv
    <1> QED
        BY <1>2, <1>5, <1>6 DEF CountUser

\* The file gets a keeper and an object of its own, or DBCreate returns NULL.
LEMMA OpenFileInv ==
    ASSUME Inv, NEW t \in Threads, OpenFile(t)
    PROVE  Inv'
    <1>1. pc[t] = "open" /\ UNCHANGED <<ready, table, mutex, crash>>
        BY DEF OpenFile, At
    <1>2. PICK u \in Users, n \in Names, p \in Paths :
             u = job[t].user /\ n = job[t].name /\ p = PathOf(t)
        BY <1>1, AtWork DEF Inv
    <1>3. ready /\ \A s \in Threads : pc[s] \notin {"init", "mutex"}
        BY <1>1, Started DEF Inv
    <1>4. handle[u] = NoHandle
        BY <1>1, <1>2 DEF Inv, Jobs
    <1>5. CASE /\ file[p] = 0 /\ file' = [file EXCEPT ![p] = NewHdb]
               /\ Goto(t, "add") /\ UNCHANGED <<job, podb, handle>>
        <2>1. PICK hdb \in Hdbs : hdb = NewHdb /\ hdb \notin UsedHdbs
            BY HdbLeft
        <2>2. /\ file'[p] = hdb /\ hdb # 0
              /\ \A q \in Paths : q # p => file'[q] = file[q]
              /\ \A q \in Paths : file[q] # hdb
            BY <1>5, <2>1, Markers DEF Inv, Types, UsedHdbs
        <2>3. /\ pc'[t] = "add" /\ pc' \in [Threads -> PCs]
              /\ \A s \in Threads : s # t => pc'[s] = pc[s]
            BY <1>5 DEF Goto, Inv, Types, PCs
        <2>4. Types'
            BY <1>1, <1>5, <2>1, <2>3 DEF Inv, Types
        <2>5. Jobs'
            BY <1>1, <1>5, <2>3 DEF Inv, Jobs
        <2>6. Locked'
            BY <1>1, <1>5, <2>3 DEF Inv, Locked
        <2>7. \A m \in Names : table[m] # NoEntry => Path[m] \in Paths /\ Path[m] # p
            BY <1>5, OpenedDBAssumption DEF Inv, Counted
        <2>8. Counted'
            BY <1>1, <1>5, <2>2, <2>7 DEF Inv, Counted, Holders
        <2>9. /\ \A s \in Threads : PathOf(s)' = PathOf(s)
              /\ \A s \in Threads : Between(s)' <=> (s = t \/ Between(s))
            BY <1>1, <1>5, <2>3 DEF Between, PathOf
        <2>10. \A s \in Threads : Between(s) => PathOf(s) # p /\ PathOf(s) \in Paths
            BY <1>5, AtWork DEF Inv, Kept, Between
        <2>11. OneKeeper'
            BY <1>1, <1>2, <2>7, <2>9, <2>10 DEF Inv, OneKeeper
        <2>12. Kept'
            BY <1>1, <1>2, <2>2, <2>9, <2>10 DEF Inv, Kept
        <2>13. Handled'
            <3>1. ASSUME NEW v \in Users, handle[v] # NoHandle
                  PROVE  Path[handle[v].name] \in Paths \ {p}
                <4>1. handle[v].name \in Names /\ handle[v].hdb \in Hdbs
                    BY <3>1 DEF Inv, Types
                <4> QED
                    BY <1>5, <3>1, <4>1, Markers, OpenedDBAssumption DEF Inv, Handled
            <3> QED
                BY <1>1, <1>5, <2>2, <2>3, <3>1 DEF Inv, Handled
        <2>14. Distinct'
            BY <2>2 DEF Inv, Distinct
        <2>15. Beginning'
            BY <1>1, <1>3, <2>3, BeginningOver DEF Inv
        <2> QED
            BY <2>4, <2>5, <2>6, <2>8, <2>11, <2>12, <2>13, <2>14, <2>15 DEF Inv
    <1>6. CASE UNCHANGED file /\ Return(t, NoHandle)
        <2>1. /\ pc'[t] = "idle" /\ job'[t] = NoJob
              /\ \A s \in Threads : s # t =>
                    pc'[s] = pc[s] /\ job'[s] = job[s] /\ podb'[s] = podb[s]
            BY <1>1, <1>6, Returned
        <2>2. UNCHANGED handle
            BY <1>2, <1>4, <1>6 DEF Return, Inv, Types
        <2>3. Types'
            BY <1>1, <1>6, Returned DEF Inv, Types
        <2>4. Jobs'
            BY <1>1, <1>6, ReturnedJobs
        <2>5. Locked'
            BY <1>1, <2>1 DEF Inv, Locked
        <2>6. Counted' /\ OneKeeper' /\ Kept' /\ Handled' /\ Distinct'
            BY <1>1, <1>6, <2>1, <2>2, KeepersUnchanged DEF Between
        <2>7. Beginning'
            BY <1>1, <1>3, <2>1, BeginningOver DEF Inv
        <2> QED
            BY <2>3, <2>4, <2>5, <2>6, <2>7 DEF Inv
    <1> QED
        BY <1>2, <1>5, <1>6 DEF OpenFile, PathOf, NewHdb, UsedHdbs

\* The entry takes over the file from the thread; it has no other user, since
\* nobody else can have opened the file.
LEMMA AddOpenedDBInv ==
    ASSUME Inv, NEW t \in Threads, AddOpenedDB(t)
    PROVE  Inv'
    <1>1. pc[t] = "add" /\ UNCHANGED <<ready, mutex, file, crash>>
        BY DEF AddOpenedDB, At
    <1>2. PICK u \in Users, n \in Names, p \in Paths :
             u = job[t].user /\ n = job[t].name /\ p = PathOf(t)
        BY <1>1, AtWork DEF Inv
    <1>3. ready /\ \A s \in Threads : pc[s] \notin {"init", "mutex"}
        BY <1>1, Started DEF Inv
    <1>4. PICK hdb \in Hdbs, h \in [name : Names, hdb : Hdbs] :
             hdb = file[p] /\ h = [name |-> n, hdb |-> hdb]
        <2>1. file[p] \in Hdbs
            BY <1>1, <1>2 DEF Inv, Types, Kept, Between
        <2> QED
            BY <2>1
    <1>5. table' = [table EXCEPT ![n] = [hdb |-> hdb, counter |-> 1]] /\ Return(t, h)
        BY <1>2, <1>4 DEF AddOpenedDB, PathOf
    <1>6. /\ pc'[t] = "idle" /\ job'[t] = NoJob /\ handle'[u] = h
          /\ \A s \in Threads : s # t =>
                pc'[s] = pc[s] /\ job'[s] = job[s] /\ podb'[s] = podb[s]
          /\ \A v \in Users : v # u => handle'[v] = handle[v]
        BY <1>1, <1>2, <1>5, Returned
    <1>7. p = Path[n] /\ hdb # 0 /\ Between(t) /\ handle[u] = NoHandle
        BY <1>1, <1>2, <1>4, Markers DEF Inv, Jobs, PathOf, Between
    <1>8. \A v \in Users : handle[v] # NoHandle => Path[handle[v].name] # p
        BY <1>1, <1>2, <1>7, OnlyHandle DEF Inv
    <1>9. \A m \in Names : Path[m] = p => table[m] = NoEntry /\ Holders(m) = {}
        BY <1>2, <1>7, <1>8, Markers DEF Inv, OneKeeper, Holders
    <1>10. /\ Holders(n)' = {u} /\ Cardinality(Holders(n)') = 1
           /\ \A m \in Names : m # n => Holders(m)' = Holders(m)
        <2>1. handle'[u].name = n
            BY <1>4, <1>6
        <2>2. /\ Holders(n)' = Holders(n) \cup {u}
              /\ \A m \in Names : m # n => Holders(m)' = Holders(m)
            BY <1>6, <1>7, <2>1, HoldersJoin
        <2>3. Holders(n)' = {u}
            BY <1>7, <1>9, <2>2
        <2> QED
            BY <2>2, <2>3, FS_Singleton
    <1>11. Cardinality(Users) \in Nat /\ 1 <= Cardinality(Users)
        <2>1. Holders(n)' \in SUBSET Users
            BY DEF Holders
        <2>2. Cardinality(Holders(n)') <= Cardinality(Users)
            BY <2>1, FS_Subset, OpenedDBAssumption
        <2> QED
            BY <1>10, <2>2, Markers
    <1>12. /\ table'[n] = [hdb |-> hdb, counter |-> 1] /\ table'[n] # NoEntry
           /\ table' \in [Names -> Entries]
           /\ \A m \in Names : m # n => table'[m] = table[m]
        <2>1. [hdb |-> hdb, counter |-> 1] \in Entries
            BY <1>11 DEF Entries
        <2> QED
            BY <1>5, <1>7, <2>1 DEF Inv, Types, NoEntry
    <1>13. Types'
        BY <1>1, <1>4, <1>5, <1>12, Returned DEF Inv, Types
    <1>14. Jobs'
        BY <1>1, <1>5, ReturnedJobs
    <1>15. Locked'
        <2>1. \A s \in Threads : pc[s] \in {"count", "release"} /\ podb[s] # NoEntry =>
                 job[s].name # n
            BY <1>7, <1>9 DEF Inv, Locked
        <2>2. \A s \in Threads : pc[s] # "idle" => job[s].name \in Names
            BY AtWork DEF Inv
        <2> QED
            BY <1>1, <1>6, <1>12, <2>1, <2>2 DEF Inv, Locked
    <1>16. Counted'
        <2>1. ASSUME NEW m \in Names, table'[m] # NoEntry
              PROVE  /\ file'[Path[m]] # 0 /\ table'[m].hdb = file'[Path[m]]
                     /\ Holders(m)' # {}
                     /\ table'[m].counter = Cardinality(Holders(m)')
            <3>1. CASE m = n
                <4>1. file'[Path[n]] # 0 /\ table'[n].hdb = file'[Path[n]]
                    BY <1>1, <1>4, <1>7, <1>12
                <4>2. Holders(n)' # {} /\ table'[n].counter = Cardinality(Holders(n)')
                    BY <1>10, <1>12
                <4> QED
                    BY <3>1, <4>1, <4>2
            <3>2. CASE m # n
                BY <1>1, <1>10, <1>12, <2>1, <3>2 DEF Inv, Counted
            <3> QED
                BY <3>1, <3>2
        <2> QED
            BY <2>1 DEF Counted
    <1>17. /\ \A s \in Threads : Between(s)' <=> (s # t /\ Between(s))
           /\ \A s \in Threads : s # t => PathOf(s)' = PathOf(s)
        BY <1>6 DEF Between, PathOf
    <1>18. OneKeeper'
        <2>1. ASSUME NEW m \in Names, NEW s \in Threads, table'[m] # NoEntry, Between(s)'
              PROVE  Path[m] # PathOf(s)'
            <3>1. s # t /\ Between(s) /\ PathOf(s)' = PathOf(s)
                BY <1>17, <2>1
            <3>2. PathOf(s) # p
                BY <1>2, <1>7, <3>1 DEF Inv, OneKeeper
            <3> QED
                BY <1>7, <1>12, <2>1, <3>1, <3>2 DEF Inv, OneKeeper
        <2>2. ASSUME NEW m \in Names, NEW k \in Names, m # k,
                     table'[m] # NoEntry, table'[k] # NoEntry
              PROVE  Path[m] # Path[k]
            BY <1>7, <1>9, <1>12, <2>2 DEF Inv, OneKeeper
        <2>3. ASSUME NEW r \in Threads, NEW s \in Threads, r # s, Between(r)', Between(s)'
              PROVE  PathOf(r)' # PathOf(s)'
            BY <1>17, <2>3 DEF Inv, OneKeeper
        <2> QED
            BY <2>1, <2>2, <2>3 DEF OneKeeper
    <1>19. Kept'
        <2>1. ASSUME NEW q \in Paths, file[q] # 0
              PROVE  \/ \E m \in Names : table'[m] # NoEntry /\ Path[m] = q
                     \/ \E s \in Threads : Between(s)' /\ PathOf(s)' = q
            <3>1. CASE q = p
                BY <1>7, <1>12, <3>1
            <3>2. CASE \E m \in Names : table[m] # NoEntry /\ Path[m] = q
                BY <1>12, <3>2
            <3>3. CASE q # p /\ \E s \in Threads : Between(s) /\ PathOf(s) = q
                BY <1>2, <1>17, <3>3
            <3> QED
                BY <2>1, <3>1, <3>2, <3>3 DEF Inv, Kept
        <2> QED
            BY <1>1, <1>17, <2>1 DEF Inv, Kept
    <1>20. Handled' /\ Distinct'
        <2>1. ASSUME NEW v \in Users, handle'[v] # NoHandle
              PROVE  /\ file'[Path[handle'[v].name]] = handle'[v].hdb
                     /\ \/ table'[handle'[v].name] # NoEntry
                        \/ \E s \in Threads : pc'[s] = "close" /\ job'[s].user = v
            <3>1. CASE v = u
                BY <1>1, <1>4, <1>6, <1>7, <1>12, <3>1
            <3>2. CASE v # u
                <4>1. handle'[v] = handle[v] /\ handle[v].name \in Names \ {n}
                    BY <1>6, <1>7, <1>8, <2>1, <3>2 DEF Inv, Types
                <4> QED
                    BY <1>1, <1>6, <1>12, <2>1, <4>1 DEF Inv, Handled
            <3> QED
                BY <3>1, <3>2
        <2> QED
            BY <1>1, <2>1 DEF Inv, Handled, Distinct
    <1>21. Beginning'
        BY <1>1, <1>3, <1>6, BeginningOver DEF Inv
    <1> QED
        BY <1>13, <1>14, <1>15, <1>16, <1>18, <1>19, <1>20, <1>21 DEF Inv

\* The last user's thread takes the file over from the entry; another user
\* leaves the entry with one user less.
LEMMA ReleaseUserInv ==
    ASSUME Inv, NEW t \in Threads, ReleaseUser(t)
    PROVE  Inv'
    <1>1. pc[t] = "release" /\ mutex' = Free /\ UNCHANGED <<ready, file, crash>>
        BY DEF ReleaseUser, At
    <1>2. PICK u \in Users, n \in Names, p \in Paths :
             u = job[t].user /\ n = job[t].name /\ p = PathOf(t)
        BY <1>1, AtWork DEF Inv
    <1>3. ready /\ \A s \in Threads : pc[s] \notin {"init", "mutex"}
        BY <1>1, Started DEF Inv
    <1>4. mutex = t /\ \A s \in Threads : s # t => pc[s] \notin {"count", "release"}
        BY <1>1 DEF Inv, Locked
    <1>5. /\ podb[t] = table[n] /\ table[n] # NoEntry /\ table[n] \in Entries
          /\ file[p] # 0 /\ table[n].hdb = file[p] /\ p = Path[n]
          /\ table[n].counter = Cardinality(Holders(n))
          /\ handle[u] # NoHandle /\ handle[u].name = n
        BY <1>1, <1>2 DEF Inv, Types, Jobs, Locked, Counted, PathOf
    <1>6. /\ IsFiniteSet(Holders(n))
          /\ Cardinality(Holders(n)) \in 0..Cardinality(Users)
          /\ Cardinality(Users) \in Nat
        BY HoldersFinite, Markers
    <1> DEFINE c == podb[t].counter - 1
    <1>7. CASE /\ c = 0 /\ table' = [table EXCEPT ![n] = NoEntry]
               /\ Goto(t, "close") /\ UNCHANGED <<job, podb, handle>>
        <2>1. Holders(n) = {u}
            <3>1. Cardinality(Holders(n)) = 1
                BY <1>5, <1>6, <1>7
            <3>2. u \in Holders(n)
                BY <1>5 DEF Holders
            <3>3. \E x : Holders(n) = {x}
                BY <1>6, <3>1, FS_Singleton
            <3> QED
                BY <3>2, <3>3
        <2>2. /\ table'[n] = NoEntry /\ table' \in [Names -> Entries]
              /\ \A m \in Names : m # n => table'[m] = table[m]
            BY <1>7, Markers DEF Inv, Types
        <2>3. /\ pc'[t] = "close" /\ pc' \in [Threads -> PCs]
              /\ \A s \in Threads : s # t => pc'[s] = pc[s]
            BY <1>7 DEF Goto, Inv, Types, PCs
        <2>4. Types'
            BY <1>1, <1>7, <2>2, <2>3 DEF Inv, Types
        <2>5. Jobs'
            BY <1>1, <1>7, <2>3 DEF Inv, Jobs
        <2>6. Locked'
            BY <1>1, <1>4, <2>3, Markers DEF Inv, Locked
        <2>7. Counted'
            BY <1>1, <1>7, <2>2 DEF Inv, Counted, Holders
        <2>8. /\ \A s \in Threads : Between(s)' <=> (s = t \/ Between(s))
              /\ \A s \in Threads : PathOf(s)' = PathOf(s)
              /\ ~Between(t) /\ PathOf(t) = p
            BY <1>1, <1>2, <1>7, <2>3 DEF Between, PathOf
        <2>9. OneKeeper'
            BY <1>5, <2>2, <2>8 DEF Inv, OneKeeper
        <2>10. Kept'
            <3>1. \A s \in Threads : Between(s)' => file'[PathOf(s)'] # 0
                BY <1>1, <1>5, <2>8 DEF Inv, Kept
            <3>2. ASSUME NEW q \in Paths, file[q] # 0
                  PROVE  \/ \E m \in Names : table'[m] # NoEntry /\ Path[m] = q
                         \/ \E s \in Threads : Between(s)' /\ PathOf(s)' = q
                <4>1. CASE \E m \in Names : table[m] # NoEntry /\ Path[m] = q
                    BY <1>5, <2>2, <2>8, <4>1
                <4>2. CASE \E s \in Threads : Between(s) /\ PathOf(s) = q
                    BY <2>8, <4>2
                <4> QED
                    BY <3>2, <4>1, <4>2 DEF Inv, Kept
            <3> QED
                BY <1>1, <3>1, <3>2 DEF Kept
        <2>11. Handled' /\ Distinct'
            <3>1. ASSUME NEW v \in Users, handle[v] # NoHandle
                  PROVE  /\ file[Path[handle[v].name]] = handle[v].hdb
                         /\ \/ table'[handle[v].name] # NoEntry
                            \/ \E s \in Threads : pc'[s] = "close" /\ job'[s].user = v
                <4>1. CASE v = u
                    BY <1>2, <1>7, <2>3, <3>1, <4>1 DEF Inv, Handled
                <4>2. CASE v # u
                    <5>1. handle[v].name \in Names \ {n}
                        BY <2>1, <3>1, <4>2 DEF Inv, Types, Holders
                    <5> QED
                        BY <1>1, <1>7, <2>2, <2>3, <3>1, <5>1 DEF Inv, Handled
                <4> QED
                    BY <4>1, <4>2
            <3> QED
                BY <1>1, <1>7, <3>1 DEF Inv, Handled, Distinct
        <2>12. Beginning'
            BY <1>1, <1>3, <2>3, BeginningOver DEF Inv
        <2> QED
            BY <2>4, <2>5, <2>6, <2>7, <2>9, <2>10, <2>11, <2>12 DEF Inv
    <1>8. CASE /\ c # 0 /\ table' = [table EXCEPT ![n] = [podb[t] EXCEPT !.counter = c]]
               /\ Return(t, NoHandle)
        <2>1. /\ pc'[t] = "idle" /\ job'[t] = NoJob /\ handle'[u] = NoHandle
              /\ \A s \in Threads : s # t =>
                    pc'[s] = pc[s] /\ job'[s] = job[s] /\ podb'[s] = podb[s]
              /\ \A v \in Users : v # u => handle'[v] = handle[v]
            BY <1>1, <1>2, <1>8, Returned
        <2>2. /\ Holders(n)' = Holders(n) \ {u} /\ u \in Holders(n)
              /\ \A m \in Names : m # n => Holders(m)' = Holders(m)
              /\ Cardinality(Holders(n)') = Cardinality(Holders(n)) - 1
            BY <1>5, <2>1, HoldersLeave
        <2>3. Cardinality(Holders(n)') \in 1..Cardinality(Users) /\ Holders(n)' # {}
            <3>1. Cardinality(Holders(n)) # 0
                BY <1>6, <2>2, FS_EmptySet
            <3>2. Cardinality(Holders(n)') \in 1..Cardinality(Users)
                BY <1>5, <1>6, <1>8, <2>2, <3>1
            <3> QED
                BY <3>2, FS_EmptySet
        <2>4. /\ table'[n] = [hdb |-> table[n].hdb, counter |-> Cardinality(Holders(n)')]
              /\ table' \in [Names -> Entries]
              /\ \A m \in Names : m # n => table'[m] = table[m]
            <3>1. [podb[t] EXCEPT !.counter = c] =
                  [hdb |-> table[n].hdb, counter |-> Cardinality(Holders(n)')]
                BY <1>5, <1>6, <2>2 DEF Entries
            <3>2. [hdb |-> table[n].hdb, counter |-> Cardinality(Holders(n)')] \in Entries
                BY <1>5, <1>6, <2>3 DEF Entries
            <3> QED
                BY <1>8, <3>1, <3>2 DEF Inv, Types
        <2>5. \A m \in Names : table'[m] # NoEntry <=> table[m] # NoEntry
            BY <1>5, <1>6, <2>3, <2>4 DEF NoEntry
        <2>6. Types'
            BY <1>1, <1>8, <2>4, Returned DEF Inv, Types
        <2>7. Jobs'
            BY <1>1, <1>8, ReturnedJobs
        <2>8. Locked'
            BY <1>1, <1>4, <2>1, Markers DEF Inv, Locked
        <2>9. Counted'
            <3>1. ASSUME NEW m \in Names, table'[m] # NoEntry
                  PROVE  /\ file'[Path[m]] # 0 /\ table'[m].hdb = file'[Path[m]]
                         /\ Holders(m)' # {}
                         /\ table'[m].counter = Cardinality(Holders(m)')
                <4>1. CASE m = n
                    <5>1. file'[Path[n]] # 0 /\ table'[n].hdb = file'[Path[n]]
                        BY <1>1, <1>5, <2>4
                    <5>2. Holders(n)' # {} /\ table'[n].counter = Cardinality(Holders(n)')
                        BY <2>3, <2>4
                    <5> QED
                        BY <4>1, <5>1, <5>2
                <4>2. CASE m # n
                    BY <1>1, <2>2, <2>4, <3>1, <4>2 DEF Inv, Counted
                <4> QED
                    BY <4>1, <4>2
            <3> QED
                BY <3>1 DEF Counted
        <2>10. \A s \in Threads : /\ Between(s)' <=> Between(s)
                                  /\ Between(s) => PathOf(s)' = PathOf(s)
            BY <1>1, <2>1 DEF Between, PathOf
        <2>11. OneKeeper' /\ Kept'
            BY <1>1, <2>5, <2>10 DEF Inv, OneKeeper, Kept
        <2>12. Handled' /\ Distinct'
            <3>1. ASSUME NEW v \in Users, handle'[v] # NoHandle
                  PROVE  /\ file'[Path[handle'[v].name]] = handle'[v].hdb
                         /\ \/ table'[handle'[v].name] # NoEntry
                            \/ \E s \in Threads : pc'[s] = "close" /\ job'[s].user = v
                <4>1. v # u /\ handle'[v] = handle[v] /\ handle[v].name \in Names
                    BY <2>1, <3>1 DEF Inv, Types
                <4> QED
                    BY <1>1, <2>1, <2>5, <3>1, <4>1 DEF Inv, Handled
            <3> QED
                BY <1>1, <3>1 DEF Inv, Handled, Distinct
        <2>13. Beginning'
            BY <1>1, <1>3, <2>1, BeginningOver DEF Inv
        <2> QED
            BY <2>6, <2>7, <2>8, <2>9, <2>11, <2>12, <2>13 DEF Inv
    <1> QED
        BY <1>2, <1>7, <1>8 DEF ReleaseUser

\* The file is closed under its own object, which no other file has.
LEMMA CloseFileInv ==
    ASSUME Inv, NEW t \in Threads, CloseFile(t)
    PROVE  Inv'
    <1>1. pc[t] = "close" /\ Return(t, NoHandle) /\ UNCHANGED <<ready, table, mutex, crash>>
        BY DEF CloseFile, At
    <1>2. PICK u \in Users, n \in Names, p \in Paths :
             u = job[t].user /\ n = job[t].name /\ p = PathOf(t)
        BY <1>1, AtWork DEF Inv
    <1>3. ready /\ \A s \in Threads : pc[s] \notin {"init", "mutex"}
        BY <1>1, Started DEF Inv
    <1>4. /\ Between(t) /\ p = Path[n] /\ file[p] # 0
          /\ handle[u] # NoHandle /\ handle[u].name = n
          /\ file[p] = handle[u].hdb
        BY <1>1, <1>2 DEF Inv, Jobs, Kept, Handled, Between, PathOf
    <1>5. /\ file'[p] = 0 /\ file' \in [Paths -> Hdbs \cup {0}]
          /\ \A q \in Paths : q # p => file'[q] = file[q]
        BY <1>2, <1>4 DEF CloseFile, Inv, Types, Distinct
    <1>6. /\ pc'[t] = "idle" /\ job'[t] = NoJob /\ handle'[u] = NoHandle
          /\ \A s \in Threads : s # t =>
                pc'[s] = pc[s] /\ job'[s] = job[s] /\ podb'[s] = podb[s]
          /\ \A v \in Users : v # u => handle'[v] = handle[v]
        BY <1>1, <1>2, Returned
    <1>7. /\ \A m \in Names : table[m] # NoEntry => Path[m] # p /\ Path[m] \in Paths
          /\ \A v \in Users : v # u /\ handle[v] # NoHandle =>
                Path[handle[v].name] # p
        <2>1. \A m \in Names : table[m] # NoEntry => Path[m] # p /\ Path[m] \in Paths
            BY <1>2, <1>4, OpenedDBAssumption DEF Inv, OneKeeper
        <2>2. ASSUME NEW v \in Users, v # u, handle[v] # NoHandle, Path[handle[v].name] = p
              PROVE  FALSE
            BY <1>2, <1>4, <2>2, OnlyHandle DEF Inv
        <2> QED
            BY <2>1, <2>2
    <1>8. \A m \in Names : m # n => Holders(m)' = Holders(m)
        BY <1>4, <1>6, HoldersLeave
    <1>9. Types'
        BY <1>1, <1>5, Returned DEF Inv, Types
    <1>10. Jobs'
        BY <1>1, ReturnedJobs
    <1>11. Locked'
        BY <1>1, <1>6 DEF Inv, Locked
    <1>12. Counted'
        <2>1. ASSUME NEW m \in Names, table[m] # NoEntry
              PROVE  m # n /\ file'[Path[m]] = file[Path[m]] /\ Holders(m)' = Holders(m)
            BY <1>4, <1>5, <1>7, <1>8, <2>1
        <2> QED
            BY <1>1, <2>1 DEF Inv, Counted
    <1>13. /\ \A s \in Threads : Between(s)' <=> (s # t /\ Between(s))
           /\ \A s \in Threads : s # t => PathOf(s)' = PathOf(s)
        BY <1>6 DEF Between, PathOf
    <1>14. OneKeeper'
        BY <1>1, <1>13 DEF Inv, OneKeeper
    <1>15. Kept'
        <2>1. ASSUME NEW s \in Threads, Between(s)'
              PROVE  file'[PathOf(s)'] # 0
            <3>1. s # t /\ Between(s) /\ PathOf(s)' = PathOf(s) /\ PathOf(s) \in Paths
                BY <1>13, <2>1, AtWork DEF Inv, Between
            <3>2. PathOf(s) # p
                BY <1>2, <1>4, <3>1 DEF Inv, OneKeeper
            <3> QED
                BY <1>5, <3>1, <3>2 DEF Inv, Kept
        <2>2. ASSUME NEW q \in Paths, file'[q] # 0
              PROVE  \/ \E m \in Names : table'[m] # NoEntry /\ Path[m] = q
                     \/ \E s \in Threads : Between(s)' /\ PathOf(s)' = q
            <3>1. q # p /\ file[q] # 0
                BY <1>5, <2>2
            <3> QED
                BY <1>1, <1>2, <1>13, <3>1 DEF Inv, Kept
        <2> QED
            BY <2>1, <2>2 DEF Kept
    <1>16. Handled'
        <2>1. ASSUME NEW v \in Users, handle'[v] # NoHandle
              PROVE  /\ file'[Path[handle'[v].name]] = handle'[v].hdb
                     /\ \/ table'[handle'[v].name] # NoEntry
                        \/ \E s \in Threads : pc'[s] = "close" /\ job'[s].user = v
            <3>1. v # u /\ handle'[v] = handle[v] /\ handle[v].name \in Names
                BY <1>6, <2>1 DEF Inv, Types
            <3>2. Path[handle[v].name] \in Paths \ {p}
                BY <1>7, <2>1, <3>1, OpenedDBAssumption
            <3>3. ASSUME NEW s \in Threads, pc[s] = "close", job[s].user = v
                  PROVE  pc'[s] = "close" /\ job'[s].user = v
                BY <1>2, <1>6, <3>1, <3>3
            <3> QED
                BY <1>1, <1>5, <2>1, <3>1, <3>2, <3>3 DEF Inv, Handled
        <2> QED
            BY <2>1 DEF Handled
    <1>17. Distinct'
        BY <1>5 DEF Inv, Distinct
    <1>18. Beginning'
        BY <1>1, <1>3, <1>6, BeginningOver DEF Inv
    <1> QED
        BY <1>9, <1>10, <1>11, <1>12, <1>14, <1>15, <1>16, <1>17, <1>18 DEF Inv

-----------------------------------------------------------------------------
(* The theorems.  After two calls have raced for the making of the table   *)
(* nothing is promised any more; until then DelOpenedDB finds its entries. *)

\* What has been raced for stays raced for.
LEMMA RacedStays == Next => (raced => raced')
    BY DEF Next, Step, BeginCreate, BeginDelete, InitTable, GetEntry, CountUser, OpenFile,
           AddOpenedDB, FindEntry, ReleaseUser, CloseFile

LEMMA NextInv == (~raced => Inv) /\ [Next]_vars => (~raced => Inv)'
    <1> SUFFICES ASSUME ~raced => Inv, [Next]_vars, ~raced' PROVE Inv'
        OBVIOUS
    <1>0. Inv
        BY RacedStays DEF vars
    <1>1. ASSUME NEW t \in Threads, Step(t)
          PROVE  Inv'
        BY <1>0, <1>1, InitTableInv, GetEntryInv, CountUserInv, OpenFileInv, AddOpenedDBInv,
           FindEntryInv, ReleaseUserInv, CloseFileInv
        DEF Step
    <1>2. ASSUME NEW t \in Threads, NEW u \in Users, BeginDelete(t, u)
          PROVE  Inv'
        BY <1>0, <1>2, BeginDeleteInv
    <1>3. ASSUME NEW t \in Threads, NEW u \in Users, NEW n \in Names, BeginCreate(t, u, n)
          PROVE  Inv'
        BY <1>0, <1>3, BeginCreateInv
    <1>4. CASE UNCHANGED vars
        <2>1. Types' /\ Jobs' /\ Locked'
            BY <1>0, <1>4 DEF vars, Inv, Types, Jobs, Locked
        <2>2. Counted' /\ OneKeeper' /\ Kept'
            BY <1>0, <1>4 DEF vars, Inv, Counted, OneKeeper, Kept, Holders, Between, PathOf
        <2>3. Handled' /\ Distinct'
            BY <1>0, <1>4 DEF vars, Inv, Handled, Distinct
        <2>4. Beginning'
            BY <1>0, <1>4 DEF vars, Inv, Beginning
        <2> QED
            BY <2>1, <2>2, <2>3, <2>4 DEF Inv
    <1> QED
        BY <1>1, <1>2, <1>3, <1>4 DEF Next

\* Every open file has exactly one keeper, and the mutex keeps a thread's copy
\* of an entry up to date, until two calls race for the making of the table:
\* the inductive invariant.
THEOREM TableInvariant == Spec => [](~raced => Inv)
    <1>1. Init => (~raced => Inv)
        BY InitInv
    <1> QED
        BY <1>1, NextInv, PTL DEF Spec

\* The types of the table, of the threads' jobs and of the handles.
THEOREM TypeCorrect == Spec => []TypeOK
    <1>1. ASSUME ~raced => Inv PROVE TypeOK
        <2> SUFFICES ASSUME Inv PROVE TypeOK
            BY <1>1 DEF TypeOK
        <2>1. \A t \in Threads : pc[t] # "idle" =>
                 job[t].user \in Users /\ job[t].name \in Names
            BY AtWork DEF Inv
        <2>2. \A t \in Threads : (pc[t] = "idle") = (job[t] = NoJob)
            BY DEF Inv, Jobs
        <2> QED
            BY <2>1, <2>2 DEF Inv, Types, TypeOK, Entries
    <1> QED
        BY <1>1, TableInvariant, PTL

\* GetOpenedDB, AddOpenedDB and DelOpenedDB keep the counter of an entry equal
\* to the number of its users, although AddOpenedDB does not take the mutex, if
\* no two calls raced for the making of the table.
THEOREM CountsExact == Spec => []CountsUsers
    <1>1. ASSUME ~raced => Inv PROVE CountsUsers
        BY <1>1, EntryHandle DEF Inv, Counted, CountsUsers
    <1> QED
        BY <1>1, TableInvariant, PTL

\* DBDelete never closes a database that another user has a handle on, if no
\* two calls raced for the making of the table.
THEOREM HandlesStayOpen == Spec => []HandlesOpen
    <1>1. (~raced => Inv) => HandlesOpen
        BY DEF Inv, Handled, HandlesOpen
    <1> QED
        BY <1>1, TableInvariant, PTL

\* DBDelete by the last user leaves no file open, if no two calls raced for the
\* making of the table.
THEOREM LastUserCloses == Spec => []NothingLeftOpen
    <1>1. (~raced => Inv) => NothingLeftOpen
        BY OpenInUse DEF NothingLeftOpen
    <1> QED
        BY <1>1, TableInvariant, PTL

\* DelOpenedDB uses a null pointer in one case only: two calls have raced for
\* the making of the table (tcDB.c:235), and each made one or the mutex was
\* taken before it was initialised.  No other order of calls, by any number of
\* threads, makes it miss the entry of a handle.
THEOREM HandleFound == Spec => []EntryFound
    <1>1. (~raced => Inv) => EntryFound
        BY DEF Inv, Types, EntryFound
    <1> QED
        BY <1>1, TableInvariant, PTL
=============================================================================
