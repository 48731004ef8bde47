----------------------------- MODULE SlaveFiles ------------------------------
(***************************************************************************)
(* The files of one slave and what the code does to them (server/slave.c,  *)
(* and SplitByKey and Merge2Files of server/tcDB.c): the database a.db, in *)
(* file_master, the copy of the successor's database in backup1 and that   *)
(* of the second successor's in backup2.                                   *)
(*                                                                         *)
(* A backup is a directory entry for a file.  The shell moves and removes  *)
(* entries; Merge2Files never closes what it opens, and the next merge     *)
(* finds those handles in the table of open databases under the same       *)
(* names: a handle stays on its file wherever the entry has gone.          *)
(***************************************************************************)
EXTENDS SlaveRing

CONSTANTS Keys,         \* the keys of the records that are followed
          Values        \* what a client may store

None == "none"          \* there is no record

ASSUME SlaveFilesAssumption == Keys \subseteq RingKeys /\ None \notin Values

Records == [Keys -> Values \cup {None}]
NoRecords == [k \in Keys |-> None]

\* Two entries and two handles use at most four files; one more can be made.
Inodes == 1..5

\* db: the records of a.db.  dir[d]: the file in backup d (0: none).  held[d]:
\* the file of the handle that is open under the name Merge2Files uses for
\* backup d.  data: the records of each file.  torn: the files that have been
\* overwritten under an open handle.
FileStates == [db : Records, dir : [1..2 -> Inodes \cup {0}],
               held : [1..2 -> Inodes \cup {0}], data : [Inodes -> Records],
               torn : SUBSET Inodes]

NoFiles == [db |-> NoRecords, dir |-> <<0, 0>>, held |-> <<0, 0>>,
            data |-> [n \in Inodes |-> NoRecords], torn |-> {}]

Used(f) == {f.dir[1], f.dir[2], f.held[1], f.held[2]}

\* A file that has neither an entry nor a handle is gone.
Collect(f) ==
    [f EXCEPT !.data = [n \in Inodes |-> IF n \in Used(f) THEN @[n] ELSE NoRecords],
              !.torn = @ \cap Used(f)]

\* What is in backup d.
Backup(f, d) == IF f.dir[d] = 0 THEN NoRecords ELSE f.data[f.dir[d]]

\* A new file becomes backup d.
NewFile(f, d, recs) ==
    LET n == CHOOSE n \in Inodes \ Used(f) : \A m \in Inodes \ Used(f) : n <= m
    IN  [f EXCEPT !.dir[d] = n, !.data[n] = recs]

\* ExeShellCmd("mv", from, "*", to, ""): without a file, the command fails.
Move(f, from, to) ==
    IF f.dir[from] = 0 THEN f
    ELSE [f EXCEPT !.dir[to] = f.dir[from], !.dir[from] = 0]

\* ExeShellCmd("rm", d, "*", "", "").
Remove(f, d) == [f EXCEPT !.dir[d] = 0]

\* RecvFile opens with "w": a file that is there is overwritten in place.
RecvFile(f, d, recs) ==
    CASE d = 0 -> [f EXCEPT !.db = recs]
      [] d # 0 /\ f.dir[d] = 0 -> NewFile(f, d, recs)
      [] OTHER -> [f EXCEPT !.data[f.dir[d]] = recs,
                            !.torn = @ \cup ({f.dir[d]} \cap {f.held[1], f.held[2]})]

\* SplitByKey moves the records of a section to the other file.
Taken(recs, lower_b, upper_b) ==
    [k \in Keys |-> IF SplitTakes(lower_b, k, upper_b) THEN recs[k] ELSE None]
Kept(recs, lower_b, upper_b) ==
    [k \in Keys |-> IF SplitTakes(lower_b, k, upper_b) THEN None ELSE recs[k]]

-----------------------------------------------------------------------------
(* What the handlers do.                                                   *)

\* Mutant: backup1, which is of the former successor, is not passed on.
ClipDataKeepsBackup1(f, lower_b, upper_b) ==
    Collect(NewFile([f EXCEPT !.db = Kept(f.db, lower_b, upper_b)],
                    1, Taken(f.db, lower_b, upper_b)))

\* CLIP_DATA: backup1 becomes backup2, the new successor's records are split
\* off into file_tmp, and when they have been sent file_tmp becomes backup1.
ClipData(f, lower_b, upper_b) ==
    Collect(NewFile([Move(f, 1, 2) EXCEPT !.db = Kept(f.db, lower_b, upper_b)],
                    1, Taken(f.db, lower_b, upper_b)))

\* UPDATE_BACKUP2 opens the backups under names of its own, with one slash.
\* The library refuses a path that is open: DBCreate returns NULL, and
\* SplitByKey follows the pointer.
UpdateBackup2Faults(f) == f.held[1] # 0 \/ f.held[2] # 0

\* UPDATE_BACKUP2: the records of the new second successor are split off from
\* backup1 into a new backup2.
UpdateBackup2(f, lower_b, upper_b) ==
    LET old == Backup(f, 1)
        g == Remove(f, 2)
    IN  Collect(NewFile(RecvFile(g, 1, Kept(old, lower_b, upper_b)),
                        2, Taken(old, lower_b, upper_b)))

\* DBCreate in Merge2Files for backup d: the handle that is open under that
\* name, or one on the file that is there, or on a new one.
OpenBackup(f, d) ==
    LET g == IF f.dir[d] = 0 THEN NewFile(f, d, NoRecords) ELSE f
    IN  IF f.held[d] # 0 THEN f ELSE [g EXCEPT !.held[d] = g.dir[d]]

\* What a walk through a file finds.  The handle of a file that was overwritten
\* has the record count and the size of the old one: it may miss records.
Found(f, n) ==
    {recs \in Records : \A k \in Keys :
        \/ recs[k] = f.data[n][k]
        \/ n \in f.torn /\ recs[k] = None}

\* Such a walk may also leave the part of the file that is mapped.
MergeFaults(f, ds) == IF \E d \in ds : f.held[d] \in f.torn THEN BOOLEAN ELSE {FALSE}

\* Records of new replace those of old.
PutAll(old, new) == [k \in Keys |-> IF new[k] # None THEN new[k] ELSE old[k]]

\* Merge2Files(backup d, a.db): every record found is put into a.db and
\* deleted from the backup.
MergeIntoDB(f, d) ==
    LET g == OpenBackup(f, d) IN
    {[g EXCEPT !.db = PutAll(@, recs), !.data[g.held[d]] = NoRecords] :
        recs \in Found(g, g.held[d])}

\* Merge2Files(backup2, backup1).
MergeBackups(f) ==
    LET g == OpenBackup(OpenBackup(f, 2), 1) IN
    {[g EXCEPT !.data[g.held[2]] = NoRecords,
               !.data[g.held[1]] = PutAll(g.data[g.held[1]], recs)] :
        recs \in Found(g, g.held[2])}

\* Mutant: the wrong backup is merged into a.db.
SuccessorLeftWrong(f) == {Collect(Move(g, 2, 1)) : g \in MergeIntoDB(f, 2)}

\* RM_SLAVE when the successor leaves: its records come from backup1, and
\* backup2 becomes backup1.
SuccessorLeft(f) == {Collect(Move(g, 2, 1)) : g \in MergeIntoDB(f, 1)}

\* RM_SLAVE when the second successor leaves: its records become the
\* successor's.
SecondSuccessorLeft(f) == {Collect(Remove(g, 2)) : g \in MergeBackups(f)}
=============================================================================
