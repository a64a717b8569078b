----------------------------- MODULE SampleWindow -----------------------------
(* What the sample ring promises its readers: the last Size samples of the   *)
(* stream, the k-th most recent at distance k behind the write position.     *)
(* Samples are numbered from 1 in the order they arrive; 0 is the silence    *)
(* the buffers start with.                                                   *)
EXTENDS Naturals

CONSTANT Size

VARIABLES
  count,   \* how many samples have arrived
  latest   \* latest[k]: the k-th most recent sample

vars == <<count, latest>>

Init ==
  /\ count = 0
  /\ latest = [k \in 1..Size |-> 0]

(* n samples arrive; the n oldest are forgotten. *)
Deliver(n) ==
  /\ count' = count + n
  /\ latest' = [k \in 1..Size |-> IF k <= n THEN count + n + 1 - k
                                            ELSE latest[k - n]]

Next == \E n \in 1..Size : Deliver(n)

Spec == Init /\ [][Next]_vars
=============================================================================
