---------------------------- MODULE BoundedQueue -----------------------------
(***************************************************************************)
(* What a first-in first-out queue of bounded capacity promises its user:  *)
(* items come out in the order in which they went in, and the item taken   *)
(* last stays readable until the next one is taken.                        *)
(***************************************************************************)
EXTENDS Integers, Sequences

CONSTANTS Items, NoItem, Capacity

VARIABLES q,        \* the queued items, oldest first
          got       \* the item taken last

Init == q = <<>> /\ got = NoItem

Put(x) == /\ Len(q) < Capacity
          /\ q' = Append(q, x)
          /\ UNCHANGED got

Take == /\ q # <<>>
        /\ got' = Head(q)
        /\ q' = Tail(q)

Next == Take \/ \E x \in Items : Put(x)

Spec == Init /\ [][Next]_<<q, got>>
=============================================================================
