------------------------------ MODULE RingQueue ------------------------------
(***************************************************************************)
(* w.RingQueue of wrapper/queue.go: a queue on a container/ring of N + 1   *)
(* nodes.  The ring is the sequence of node values read from the base      *)
(* pointer r.r onwards: N + 1 of them, or the node r.r alone once Remove    *)
(* has unlinked it.  An empty node holds Nil.                              *)
(*                                                                         *)
(* Put, Do and List run entirely under the lock.  Get tests start == end   *)
(* before it locks and Len never locks: their loads of the two indices are *)
(* steps of their own, and so is whatever they can see halfway: each turn  *)
(* of the loop of Remove, and the second store of an index that wraps      *)
(* (r.end++ and then r.end = 0).  start and end are the indices as the     *)
(* lock's holder will leave them; unwrapped says which of them is out of   *)
(* its range in memory until that second store.                            *)
(***************************************************************************)
EXTENDS Integers, Sequences, Selection

CONSTANTS
  N,           \* the capacity
  Values,      \* the elements put into the queue
  Producers,   \* clients that call Put
  Consumers,   \* clients that call Get
  Removers,    \* clients that call Remove
  Readers,     \* clients that call Len, List and Do
  SparesBase,  \* TRUE: no call of Remove deletes the element in the node r.r
  Nil,         \* an empty node
  Free         \* mux is not held

Clients == Producers \cup Consumers \cup Removers \cup Readers
max == N + 1

ASSUME QueueAssumption ==
  /\ N \in Nat \ {0}
  /\ Nil \notin Values
  /\ Free \notin Clients
  /\ SparesBase \in BOOLEAN

VARIABLES
  ring,    \* the values of the ring of r.r, r.r first
  start,   \* index of the front element
  end,     \* index of the first node after the back element
  unwrapped, \* "start" or "end" is at max, "back": end is at -1, or "none"
  mux,     \* the client whose Remove holds the lock, or Free
  pc,      \* where each client is
  loc,     \* the value of r.start a client has loaded
  rem,     \* the loop state of the Remove that holds mux
  seen,    \* history: the lengths the queue had since a Get was called
  raced    \* history: the clients whose Get or Len overlaps another client's
           \* Get or Remove while that one holds the lock

vars == <<ring, start, end, unwrapped, mux, pc, loc, rem, seen, raced>>

\* Mutant: the index does not wrap around.
WrapNever(i) == i

Wrap(i) == IF i = max THEN 0 ELSE i

\* r.r.Move(i) for an index 0 <= i <= N, as a position in the sequence.
Move(i) == IF Len(ring) = max THEN i + 1 ELSE 1

\* Mutant: Len forgets that the elements may wrap around.
LenOfNoWrap(s, e) == e - s

\* The indices as an unlocked reader finds them.
StoredStart == IF unwrapped = "start" THEN max ELSE start
StoredEnd ==
  CASE unwrapped = "end" -> max [] unwrapped = "back" -> -1 [] OTHER -> end

\* No client holds the lock.
Unlocked == mux = Free /\ unwrapped = "none"

\* What Len computes from its loads of the indices.
LenOf(s, e) ==
  IF s < e THEN e - s ELSE IF s = e THEN 0 ELSE e + max - s

\* The elements met on the way from r.r.Move(start) to r.r.Move(end).
Contents ==
  [i \in 1 .. (IF Len(ring) = max THEN LenOf(start, end) ELSE 0) |->
     ring[IF start + i <= max THEN start + i ELSE start + i - max]]

NoRemove ==
  [todo |-> <<>>, cur |-> 0, last |-> 0, isPrev |-> FALSE, del |-> {},
   before |-> <<>>]

\* The queue as callers see it: a Remove takes effect when it unlocks.
Queue == IF mux = Free THEN Contents ELSE rem.before

InCall == {"getEnd", "getLock", "lenEnd"}

\* Record what happens during the calls of Get and Len: the lengths of the
\* queue, and whether another client's Get or Remove holds the lock.
Observe ==
  /\ seen' = [c \in Clients |->
               IF pc'[c] = "getEnd"
               THEN {Len(Queue')} \cup (IF pc[c] = pc'[c] THEN seen[c] ELSE {})
               ELSE {}]
  /\ raced' = {c \in Clients :
                 /\ pc'[c] \in InCall
                 /\ c \in raced \/ mux' # Free \/ unwrapped' = "start" \/ start' # start}

Init ==
  /\ ring = [i \in 1 .. max |-> Nil]
  /\ start = 0
  /\ end = 0
  /\ unwrapped = "none"
  /\ mux = Free
  /\ pc = [c \in Clients |-> "idle"]
  /\ loc = [c \in Clients |-> 0]
  /\ rem = NoRemove
  /\ seen = [c \in Clients |-> {}]
  /\ raced = {}

-----------------------------------------------------------------------------
\* Mutant: the full test forgets the case of the wrapped end.
FullNoWrap == start = end + 1

Full == start = end + 1 \/ (end + 1 = max /\ start = 0)

\* A client has incremented its index i: it returns, or has to wrap it.
AfterIncrement(c, i, which) ==
  /\ unwrapped' = IF i = N THEN which ELSE "none"
  /\ pc' = [pc EXCEPT ![c] = IF i = N THEN "wrapping" ELSE "idle"]

\* A Put that finds the queue full returns QueueFull and changes nothing.
Put(c, v) ==
  /\ pc[c] = "idle"
  /\ Unlocked
  /\ ~Full
  /\ ring' = [ring EXCEPT ![Move(end)] = v]
  /\ end' = Wrap(end + 1)
  /\ AfterIncrement(c, end, "end")
  /\ UNCHANGED <<start, mux, loc, rem>>
  /\ Observe

\* The second store of Put, Get or one turn of Remove; Put and Get unlock.
StoreWrap(c) ==
  /\ pc[c] = "wrapping" \/ (mux = c /\ unwrapped # "none")
  /\ unwrapped' = "none"
  /\ pc' = IF mux = c THEN pc ELSE [pc EXCEPT ![c] = "idle"]
  /\ UNCHANGED <<ring, start, end, mux, loc, rem>>
  /\ Observe

\* Get: r.start == r.end is evaluated without the lock, start first.
GetLoadStart(c) ==
  /\ pc[c] = "idle"
  /\ loc' = [loc EXCEPT ![c] = StoredStart]
  /\ pc' = [pc EXCEPT ![c] = "getEnd"]
  /\ UNCHANGED <<ring, start, end, unwrapped, mux, rem>>
  /\ Observe

\* Mutant: Get goes on to lock although the queue is empty.
GetLoadEndUnchecked(c) ==
  /\ pc[c] = "getEnd"
  /\ pc' = [pc EXCEPT ![c] = "getLock"]
  /\ UNCHANGED <<ring, start, end, unwrapped, mux, loc, rem>>
  /\ Observe

\* Mutant: a queue of one element counts as empty.
GetLoadEndOffByOne(c) ==
  /\ pc[c] = "getEnd"
  /\ pc' = [pc EXCEPT ![c] = IF loc[c] \in {StoredEnd, StoredEnd - 1} THEN "idle" ELSE "getLock"]
  /\ UNCHANGED <<ring, start, end, unwrapped, mux, loc, rem>>
  /\ Observe

GetLoadEnd(c) ==
  /\ pc[c] = "getEnd"
  /\ pc' = [pc EXCEPT ![c] = IF loc[c] = StoredEnd THEN "idle" ELSE "getLock"]
  /\ UNCHANGED <<ring, start, end, unwrapped, mux, loc, rem>>
  /\ Observe

\* Mutant: Get leaves the element in its node.
GetTakeNoClear(c) ==
  /\ pc[c] = "getLock"
  /\ Unlocked
  /\ start' = Wrap(start + 1)
  /\ AfterIncrement(c, start, "start")
  /\ UNCHANGED <<ring, end, mux, loc, rem>>
  /\ Observe

\* Under the lock the front node is taken without another test; on an empty
\* node the type assertion panics and the deferred Unlock runs.
GetTake(c) ==
  LET front == Move(start)
  IN  /\ pc[c] = "getLock"
      /\ Unlocked
      /\ \/ /\ ring[front] # Nil
            /\ ring' = [ring EXCEPT ![front] = Nil]
            /\ start' = Wrap(start + 1)
            /\ AfterIncrement(c, start, "start")
         \/ /\ ring[front] = Nil
            /\ pc' = [pc EXCEPT ![c] = "panicked"]
            /\ UNCHANGED <<ring, start, unwrapped>>
      /\ UNCHANGED <<end, mux, loc, rem>>
      /\ Observe

\* Do and List hand out the elements from front to back, under the lock.
List(c) ==
  /\ pc[c] = "idle"
  /\ Unlocked
  /\ pc' = IF \E i \in DOMAIN Contents : Contents[i] = Nil
           THEN [pc EXCEPT ![c] = "panicked"] ELSE pc
  /\ UNCHANGED <<ring, start, end, unwrapped, mux, loc, rem>>
  /\ Observe

\* Len takes no lock.  No call or store separates its comparisons, so the
\* compiler keeps each index in a register: one load of each.
LenLoadStart(c) ==
  /\ pc[c] = "idle"
  /\ loc' = [loc EXCEPT ![c] = StoredStart]
  /\ pc' = [pc EXCEPT ![c] = "lenEnd"]
  /\ UNCHANGED <<ring, start, end, unwrapped, mux, rem>>
  /\ Observe

LenLoadEnd(c) ==
  /\ pc[c] = "lenEnd"
  /\ pc' = [pc EXCEPT ![c] = "idle"]
  /\ UNCHANGED <<ring, start, end, unwrapped, mux, loc, rem>>
  /\ Observe

-----------------------------------------------------------------------------
(* Remove.  cur is the position of the loop's node in the ring, or -1 when *)
(* the loop walks nodes that no longer hang together with r.r; last is the *)
(* position of the local end node.                                         *)

RemoveLock(c, del) ==
  /\ pc[c] = "idle"
  /\ Unlocked
  /\ SparesBase => ring[1] \notin del
  /\ mux' = c
  /\ pc' = [pc EXCEPT ![c] = "removing"]
  /\ rem' = [todo |-> Contents, cur |-> Move(start) - 1, last |-> Move(end) - 1,
             isPrev |-> FALSE, del |-> del, before |-> Contents]
  /\ UNCHANGED <<ring, start, end, unwrapped, loc>>
  /\ Observe

\* The ring when the node at position i is unlinked and a fresh one linked
\* in after the node at position e: what lies between them moves by one.
Relink(r, i, e) ==
  [j \in 1 .. Len(r) |->
     LET p == j - 1
     IN  IF e > i THEN IF p < i \/ p > e THEN r[j]
                       ELSE IF p = e THEN Nil ELSE r[j + 1]
                  ELSE IF p <= e \/ p > i THEN r[j]
                       ELSE IF p = e + 1 THEN Nil ELSE r[j - 1]]

\* One turn of the loop on an element that f keeps.
RemoveKeep(c) ==
  /\ mux = c
  /\ unwrapped = "none"
  /\ rem.todo # <<>>
  /\ Head(rem.todo) \notin rem.del
  /\ rem' = [rem EXCEPT
               !.todo = Tail(@),
               !.isPrev = @ \/ rem.cur = 0,
               !.cur = IF @ = -1 THEN -1 ELSE Wrap(@ + 1)]
  /\ UNCHANGED <<ring, start, end, unwrapped, mux, pc, loc>>
  /\ Observe

\* Mutant: the element after a deleted one is not examined.
AfterUnlinkSkip(passed) ==
  LET i == rem.cur
      e == rem.last
  IN  [rem EXCEPT
         !.todo = IF Len(@) > 1 THEN Tail(Tail(@)) ELSE Tail(@),
         !.isPrev = passed,
         !.last = IF e > i THEN e - 1 ELSE e,
         !.cur = IF i < 1 THEN -1 ELSE IF e > i THEN Wrap(i + 1) ELSE Wrap(Wrap(i + 1) + 1)]

\* Where the loop stands after it has unlinked the node at cur.
AfterUnlink(passed) ==
  LET i == rem.cur
      e == rem.last
  IN  [rem EXCEPT
         !.todo = Tail(@),
         !.isPrev = passed,
         !.last = IF e > i THEN e - 1 ELSE e,
         !.cur = IF i < 1 THEN -1 ELSE IF e > i THEN i ELSE Wrap(i + 1)]

\* Mutant: the wrap of start is forgotten.
MoveIndexNoWrap(passed) ==
  \/ /\ start > end /\ ~passed
     /\ start' = start + 1
     /\ UNCHANGED <<end, unwrapped>>
  \/ /\ ~(start > end /\ ~passed)
     /\ end' = end - 1
     /\ UNCHANGED <<start, unwrapped>>

\* Mutant: a deletion always moves end.
MoveEndOnly(passed) ==
  /\ end' = IF end = 0 THEN max - 1 ELSE end - 1
  /\ unwrapped' = IF end = 0 THEN "back" ELSE "none"
  /\ UNCHANGED start

\* The index that a deletion moves: start while the loop is before the wrap,
\* else end.
MoveIndex(passed) ==
  \/ /\ start > end /\ ~passed
     /\ start' = Wrap(start + 1)
     /\ unwrapped' = IF start = N THEN "start" ELSE "none"
     /\ UNCHANGED end
  \/ /\ ~(start > end /\ ~passed)
     /\ end' = IF end = 0 THEN max - 1 ELSE end - 1
     /\ unwrapped' = IF end = 0 THEN "back" ELSE "none"
     /\ UNCHANGED start

\* One turn on an element that f deletes.  Unlinking the node r.r leaves r.r
\* a ring of one node; the rest of the nodes is lost when the loop ends.
RemoveDelete(c) ==
  LET passed == rem.isPrev \/ rem.cur = 0
  IN  /\ mux = c
      /\ unwrapped = "none"
      /\ rem.todo # <<>>
      /\ Head(rem.todo) \in rem.del
      /\ MoveIndex(passed)
      /\ ring' = CASE rem.cur = 0  -> <<ring[1]>>
                   [] rem.cur = -1 -> ring
                   [] OTHER        -> Relink(ring, rem.cur, rem.last)
      /\ rem' = AfterUnlink(passed)
      /\ UNCHANGED <<mux, pc, loc>>
      /\ Observe

RemoveUnlock(c) ==
  /\ mux = c
  /\ unwrapped = "none"
  /\ rem.todo = <<>>
  /\ mux' = Free
  /\ pc' = [pc EXCEPT ![c] = "idle"]
  /\ rem' = NoRemove
  /\ UNCHANGED <<ring, start, end, unwrapped, loc>>
  /\ Observe

-----------------------------------------------------------------------------
GetStep(c) == GetLoadStart(c) \/ GetLoadEnd(c) \/ GetTake(c)
ReadStep(c) == List(c) \/ LenLoadStart(c) \/ LenLoadEnd(c)
RemoveStep(c) == RemoveKeep(c) \/ RemoveDelete(c) \/ RemoveUnlock(c)

Next ==
  \/ \E c \in Producers, v \in Values : Put(c, v)
  \/ \E c \in Consumers : GetStep(c)
  \/ \E c \in Readers : ReadStep(c)
  \/ \E c \in Clients : StoreWrap(c)
  \/ \E c \in Removers : RemoveStep(c) \/ \E del \in SUBSET Values : RemoveLock(c, del)

Spec == Init /\ [][Next]_vars

-----------------------------------------------------------------------------
(* Properties.                                                             *)

\* The indices stay within the ring and every node holds an element or Nil.
TypeOK ==
  /\ ring \in Seq(Values \cup {Nil}) /\ Len(ring) \in {1, max}
  /\ start \in 0 .. N /\ end \in 0 .. N
  /\ unwrapped \in {"none", "start", "end", "back"}
  /\ mux \in Removers \cup {Free}
  /\ pc \in [Clients -> {"idle", "wrapping", "removing", "panicked"} \cup InCall]
  /\ loc \in [Clients -> 0 .. max]
  /\ rem.cur \in -1 .. N /\ rem.last \in 0 .. N /\ rem.isPrev \in BOOLEAN
  /\ seen \in [Clients -> SUBSET (0 .. N)]
  /\ raced \subseteq {c \in Clients : pc[c] \in InCall}

\* Outside Remove exactly the nodes from start to end hold an element: Put and
\* Get neither overwrite an element nor leave one behind, across the wrap.
OccupiedExactly ==
  mux = Free =>
    \A i \in 0 .. N :
      ring[i + 1] # Nil <=>
        IF start <= end THEN start <= i /\ i < end ELSE i < end \/ start <= i

FIFO == INSTANCE BoundedQueue
          WITH queue <- Queue,
               Deletions <- IF Removers = {} THEN {} ELSE SUBSET Values

\* The ring with its two indices and its loop over linked nodes behaves as a
\* first-in first-out queue of capacity N: every step of a client is a Put,
\* a Get or a Remove of that queue, or leaves it as it is.
IsFIFO == FIFO!Spec

\* "Remove deletes every element for which f returns true", and it keeps the
\* others, in their order.
RemoveExact ==
  [][mux # Free /\ mux' = Free =>
       Queue' = Select(Queue, Values \ rem.del)]_vars

\* "Get removes and returns the front element": the type assertion in Get
\* never meets an empty node.
GetNeverPanics == \A c \in Consumers : pc[c] # "panicked"

\* What is true of it: the type assertion meets an empty node only in a Get
\* that another client's Get or Remove has overtaken between the unlocked test
\* and the lock.  Puts never cause it, however they interleave with the test.
PanicNeedsRace ==
  [][\A c \in Consumers :
       pc[c] = "getLock" /\ pc'[c] = "panicked" => c \in raced]_vars

\* "It returns QueueNull if the queue is empty": a Get that returns QueueNull
\* was under way at a moment when the queue was empty, unless another client's
\* Get or Remove held the lock during the call.  A consumer that is alone can
\* rely on it, with any number of producers; two consumers can not.
NullMeansEmpty ==
  [][\A c \in Consumers :
       pc[c] = "getEnd" /\ pc'[c] = "idle" => 0 \in seen[c] \/ c \in raced]_vars

\* "Len reports the number of elements currently in the queue": it does among
\* Puts, also between the two stores of an end that wraps; a Len that a Get or
\* Remove overlaps may answer anything from -1 to N + 1.
LenExactAmongPuts ==
  \A c \in Readers :
    pc[c] = "lenEnd" /\ c \notin raced => LenOf(loc[c], StoredEnd) = Len(Queue)
=============================================================================
