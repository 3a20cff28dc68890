---------------------------- MODULE BoundedQueue -----------------------------
(***************************************************************************)
(* What w.RingQueue promises to its callers, each call being one step: a   *)
(* first-in first-out queue of at most N elements, from which the elements *)
(* that satisfy a predicate can be deleted in place.                       *)
(***************************************************************************)
EXTENDS Naturals, Sequences, Selection

CONSTANTS
  N,          \* the capacity
  Values,     \* the elements
  Deletions   \* the sets of elements a Remove may delete

VARIABLE queue

Init == queue = <<>>

Put(v) ==
  /\ Len(queue) < N
  /\ queue' = Append(queue, v)

Get ==
  /\ queue # <<>>
  /\ queue' = Tail(queue)

Remove(del) == queue' = Select(queue, Values \ del)

Next ==
  \/ \E v \in Values : Put(v)
  \/ Get
  \/ \E del \in Deletions : Remove(del)

Spec == Init /\ [][Next]_queue
=============================================================================
