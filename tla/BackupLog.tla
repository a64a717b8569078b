------------------------------- MODULE BackupLog -------------------------------
(* What the rolling backups promise: a set of dated snapshots.  A new one is *)
(* younger than all others, and only the oldest is ever given up.            *)
EXTENDS Naturals

CONSTANTS Content  \* what a file can hold

VARIABLES
  kept,   \* the snapshots there are
  clock   \* the date of the youngest one made so far

vars == <<kept, clock>>

Init == kept = {} /\ clock = 0

Push(c) ==
  /\ clock' = clock + 1
  /\ kept' = kept \cup {[at |-> clock + 1, content |-> c]}

ForgetOldest ==
  \E s \in kept :
    /\ \A t \in kept : s.at <= t.at
    /\ kept' = kept \ {s}
    /\ UNCHANGED clock

Next == ForgetOldest \/ \E c \in Content : Push(c)

Spec == Init /\ [][Next]_vars
=============================================================================
