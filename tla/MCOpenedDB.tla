----------------------------- MODULE MCOpenedDB ------------------------------
(* Model-checking instance of OpenedDB: two threads, and a file that has two *)
(* spellings ("backup1//a.db.bac" and "backup1/a.db.bac").                   *)
EXTENDS OpenedDB

MCPath == [n \in Names |-> IF n = "a.db" THEN "a.db" ELSE "backup1"]

\* A state behind the race satisfies every property, and so does every state
\* after it: TLC need not go on from there.
UntilRaced == ~raced
=============================================================================
