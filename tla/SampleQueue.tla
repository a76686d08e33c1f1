----------------------------- MODULE SampleQueue -----------------------------
(***************************************************************************)
(* What an SpscRing (media/spsc_ring.hpp) promises the two threads that    *)
(* share it: a bounded first-in-first-out queue whose push, pop and        *)
(* discard each take effect at one instant.  A pop may return less than    *)
(* the queue holds, and a discard may leave what is pushed meanwhile: the  *)
(* consumer may work with an older view of the producer's progress.        *)
(***************************************************************************)
EXTENDS Naturals, Sequences

CONSTANTS Values, Limit

VARIABLES queue,    \* the values pushed and not yet popped or discarded
          got       \* what the latest pop returned

Init == queue = <<>> /\ got = <<>>

Push ==
  /\ UNCHANGED got
  /\ \E n \in 0..Limit : \E values \in [1..n -> Values] :
       /\ queue' = queue \o values
       /\ Len(queue') <= Limit

Pop == \E n \in 0..Len(queue) :
  /\ got' = SubSeq(queue, 1, n)
  /\ queue' = SubSeq(queue, n + 1, Len(queue))

Discard ==
  /\ \E n \in 0..Len(queue) : queue' = SubSeq(queue, n + 1, Len(queue))
  /\ UNCHANGED got

Next == Push \/ Pop \/ Discard

Spec == Init /\ [][Next]_<<queue, got>>
=============================================================================
